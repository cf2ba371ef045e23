-------------------------- MODULE TransportConnect --------------------------
(***************************************************************************)
(* How an application comes by a transport: requestPermission, connect,    *)
(* createKeystoneTransport and the bitcoin application's                   *)
(* createWithUSBTransport, the listener connect() registers for the        *)
(* device's disconnection, and the open() and close() methods of the       *)
(* transport it returns.  host tells whether it is the WebUSB or the       *)
(* NodeUSB transport.                                                      *)
(*                                                                         *)
(* A flow is one such call.  pc[f] names what it awaits; a step runs from  *)
(* there to its next await.  Several flows may be under way, and devices   *)
(* are plugged in and unplugged at any time.  A device that is plugged in  *)
(* again is another device object.                                         *)
(***************************************************************************)
EXTENDS Integers, FiniteSets

CONSTANTS
  Flows,       \* the calls of the application
  Devices,     \* device objects with the Keystone vendor id
  Standard,    \* those with keystoneUSBProductId
  Hosts,       \* the transports: "web", "node" or both
  Jobs,        \* Jobs[f]: what the application may call in flow f
  Faults       \* device operations that may fail by themselves

ASSUME ConnectAssumption ==
  /\ Standard \subseteq Devices
  /\ Hosts \subseteq {"web", "node"}
  /\ Jobs \in [Flows -> SUBSET {"permission", "connect", "create", "bitcoin"}]
  /\ Faults \subseteq {"list", "open", "select", "claim", "close"}

VARIABLES
  host,        \* which transport
  present,     \* devices on the bus
  gone,        \* device objects whose device was unplugged
  permitted,   \* devices the user has allowed the page to use (WebUSB)
  opened,      \* devices whose handle is open
  events,      \* disconnect events not delivered yet
  job,         \* job[f]: the function the application called
  pc,          \* pc[f]: what the flow awaits
  list,        \* list[f]: devices a listing under way has found, or NoList
  device,      \* device[f]: the device the flow works on, None or Undefined
  listens,     \* listens[f]: the device its disconnect listener is for
  told,        \* flows whose listener has run
  seen,        \* history: seen[f], the devices isSupported() found
  blame        \* history: device operations that failed and left a handle open

busVars == <<present, gone, permitted, events, host>>
flowVars == <<job, list, device, listens, told, seen>>
vars == <<busVars, opened, pc, flowVars, blame>>

None == "none"
Undefined == "undefined"
NoList == {"noList"}
ASSUME NamesAssumption == {None, Undefined, "noList"} \cap Devices = {}

\* A transport in hand, and the ways a flow ends without one.
Returned == {"transport", "permitted"}
Failed == {"USB_PERMISSION_NOT_AVAILABLE", "notFound", "rejected"}

\* open() under requestPermission ("p") and under the transport's open() ("t").
PermissionPC == {"pPick", "pOpen", "pSelect", "pClaim", "pUndo", "pClose"}
TransportPC == {"tPick", "tOpen", "tSelect", "tClaim", "tUndo", "tClose"}
ListPC == {"list0", "list1", "list2"}
PC == {"idle", "cPick", "cClose", "inUse"} \cup PermissionPC \cup TransportPC
      \cup ListPC \cup Returned \cup Failed

Resting == {"idle", "inUse"} \cup Returned \cup Failed
GoTo(f, next) == pc' = [pc EXCEPT ![f] = next]

Init ==
  /\ host \in Hosts
  /\ present \in SUBSET Devices
  /\ gone = {}
  /\ permitted \in SUBSET present
  /\ opened = {}
  /\ events = {}
  /\ job \in [Flows -> UNION {Jobs[f] : f \in Flows}]
  /\ \A f \in Flows : job[f] \in Jobs[f]
  /\ host = "node" => \A f \in Flows : job[f] \in {"permission", "connect"}
  /\ pc = [f \in Flows |-> "idle"]
  /\ list = [f \in Flows |-> NoList]
  /\ device = [f \in Flows |-> None]
  /\ listens = [f \in Flows |-> None]
  /\ told = {}
  /\ seen = [f \in Flows |-> {}]
  /\ blame = {}

-----------------------------------------------------------------------------
(***************************************************************************)
(* Listing: getKeystoneDevices.  The list is made when it is asked for and *)
(* arrives later.                                                          *)
(***************************************************************************)
Listable == IF host = "web" THEN present \cap permitted ELSE present

Start(f) ==
  /\ pc[f] = "idle"
  /\ GoTo(f, CASE job[f] \in {"permission", "bitcoin"} -> "pPick"
               [] job[f] = "connect" -> "list1"
               [] job[f] = "create" -> "list0")
  /\ UNCHANGED <<busVars, opened, flowVars, blame>>

TakeList(f) ==
  /\ pc[f] \in ListPC
  /\ list[f] = NoList
  /\ list' = [list EXCEPT ![f] = Listable]
  /\ UNCHANGED <<busVars, opened, pc, job, device, listens, told, seen, blame>>

Listed(f, at) == pc[f] = at /\ list[f] # NoList
DropList(f) == list' = [list EXCEPT ![f] = NoList]

\* The node transport reads each device to make a WebUSBDevice of it, and throws when
\* it has found none.
ListFails(f) ==
  /\ pc[f] \in ListPC
  /\ list[f] # NoList
  /\ host = "node"
  /\ list[f] = {} \/ "list" \in Faults
  /\ DropList(f)
  /\ GoTo(f, "notFound")
  /\ UNCHANGED <<busVars, opened, job, device, listens, told, seen, blame>>

\* createKeystoneTransport asks for a permission when it has none.
FirstList(f) ==
  /\ Listed(f, "list0")
  /\ DropList(f)
  /\ GoTo(f, IF list[f] = {} THEN "pPick" ELSE "list1")
  /\ UNCHANGED <<busVars, opened, job, device, listens, told, seen, blame>>

NoDeviceFoundUnchecked(f) == FALSE     \* mutant: isSupported() accepts an empty list
NoDeviceFound(f) == list[f] = {}

\* isSupported.
SupportList(f) ==
  /\ Listed(f, "list1")
  /\ host = "node" => list[f] # {}
  /\ DropList(f)
  /\ seen' = [seen EXCEPT ![f] = list[f]]
  /\ GoTo(f, IF NoDeviceFound(f) THEN "notFound" ELSE "list2")
  /\ UNCHANGED <<busVars, opened, job, device, listens, told, blame>>

-----------------------------------------------------------------------------
(***************************************************************************)
(* connect: the device, its disconnect listener and the transport.         *)
(***************************************************************************)
ListenerForTransport(d) == None        \* mutant: no listener is registered
ListenerFor(d) == d

\* connect() has its device: it registers the listener and makes the transport;
\* createKeystoneTransport and createWithUSBTransport then call transport.close(),
\* which closes the device only when it is open.
Connected(f, d) ==
  /\ device' = [device EXCEPT ![f] = d]
  /\ listens' = [listens EXCEPT ![f] = ListenerFor(d)]
  /\ GoTo(f, IF job[f] # "connect" /\ d \in opened THEN "cClose" ELSE "transport")

\* Exactly one device in the list, or none: devices[0].
ConnectToListed(f) ==
  /\ Listed(f, "list2")
  /\ host = "node" => list[f] # {}
  /\ Cardinality(list[f]) <= 1
  /\ DropList(f)
  /\ IF list[f] = {} THEN Connected(f, Undefined)
                     ELSE \E d \in list[f] : Connected(f, d)
  /\ UNCHANGED <<busVars, opened, job, told, seen, blame>>

SeveralListed(f) ==
  /\ Listed(f, "list2")
  /\ Cardinality(list[f]) > 1
  /\ DropList(f)
  /\ GoTo(f, "cPick")
  /\ UNCHANGED <<busVars, opened, job, device, listens, told, seen, blame>>

\* requestKeystoneDevice: the user picks a device in the browser's chooser; on node it
\* is the first one with the product id.
Pickable == IF host = "web" THEN present ELSE present \cap Standard

DevicePicked(f) ==
  \E d \in Pickable :
    /\ permitted' = permitted \cup {d}
    /\ \/ pc[f] = "cPick" /\ Connected(f, d)
       \/ /\ pc[f] \in {"pPick", "tPick"}
          /\ device' = [device EXCEPT ![f] = d]
          /\ GoTo(f, IF pc[f] = "pPick" THEN "pOpen" ELSE "tOpen")
          /\ UNCHANGED listens
    /\ UNCHANGED <<present, gone, events, host, opened, job, list, told, seen, blame>>

\* requestPermission rejects: createKeystoneTransport hides why.
PermissionRejects(f) ==
  GoTo(f, IF job[f] = "create" THEN "USB_PERMISSION_NOT_AVAILABLE" ELSE "rejected")

\* What a rejected pick or open() means for the flow.  A transport whose open() was
\* rejected is still in the application's hands.
Rejects(f) == CASE pc[f] \in PermissionPC -> PermissionRejects(f)
                [] pc[f] \in TransportPC -> GoTo(f, "transport")
                [] pc[f] = "cPick" -> GoTo(f, "rejected")

\* The user cancels the chooser (web); no device with the product id (node).
NothingPicked(f) ==
  /\ pc[f] \in {"pPick", "cPick", "tPick"}
  /\ host = "web" \/ Pickable = {}
  /\ Rejects(f)
  /\ UNCHANGED <<busVars, opened, flowVars, blame>>

-----------------------------------------------------------------------------
(***************************************************************************)
(* open(device) and close(device).  reset() is swallowed and changes       *)
(* nothing here; releaseInterface and device.close are one step, since     *)
(* either failing leaves the handle open.                                  *)
(***************************************************************************)
Operating == {"pOpen", "pSelect", "pClaim", "pUndo", "pClose", "cClose",
              "tOpen", "tSelect", "tClaim", "tUndo", "tClose"}

\* The USB stack may refuse an operation while another flow has one in progress.
Contended(f) == \E g \in Flows \ {f} : device[g] = device[f] /\ pc[g] \in Operating
MayReject(f, kind) == kind \in Faults \/ Contended(f)

\* device.open; a device without a configuration then selects one.
HandleOpens(f) ==
  /\ pc[f] \in {"pOpen", "tOpen"}
  /\ device[f] \in present
  /\ opened' = opened \cup {device[f]}
  /\ \E configured \in BOOLEAN :
       GoTo(f, CASE pc[f] = "pOpen" -> IF configured THEN "pClaim" ELSE "pSelect"
                 [] pc[f] = "tOpen" -> IF configured THEN "tClaim" ELSE "tSelect")
  /\ UNCHANGED <<busVars, flowVars, blame>>

ConfigurationSelected(f) ==
  /\ pc[f] \in {"pSelect", "tSelect"}
  /\ device[f] \in opened
  /\ GoTo(f, IF pc[f] = "pSelect" THEN "pClaim" ELSE "tClaim")
  /\ UNCHANGED <<busVars, opened, flowVars, blame>>

\* A failure of device.open or of selectConfiguration closes nothing.
OpenFails(f) ==
  /\ \/ pc[f] \in {"pOpen", "tOpen"} /\ (device[f] \notin present \/ MayReject(f, "open"))
     \/ /\ pc[f] \in {"pSelect", "tSelect"}
        /\ device[f] \notin opened \/ MayReject(f, "select")
  /\ blame' = IF pc[f] \in {"pSelect", "tSelect"} /\ device[f] \in opened
              THEN blame \cup {device[f]} ELSE blame
  /\ Rejects(f)
  /\ UNCHANGED <<busVars, opened, flowVars>>

\* Mutants: requestPermission returns the device without closing it; an unknown state.
AfterClaimMerged(at) == "close"
AfterClaimUnclosed(at) == IF at = "pClaim" THEN "permitted" ELSE "inUse"
AfterClaim(at) == IF at = "pClaim" THEN "pClose" ELSE "inUse"

InterfaceClaimed(f) ==
  /\ pc[f] \in {"pClaim", "tClaim"}
  /\ device[f] \in opened
  /\ GoTo(f, AfterClaim(pc[f]))
  /\ UNCHANGED <<busVars, opened, flowVars, blame>>

\* A refused claim closes the device, then is thrown again.
ClaimFails(f) ==
  /\ pc[f] \in {"pClaim", "tClaim"}
  /\ device[f] \notin opened \/ MayReject(f, "claim")
  /\ GoTo(f, IF pc[f] = "pClaim" THEN "pUndo" ELSE "tUndo")
  /\ UNCHANGED <<busVars, opened, flowVars, blame>>

\* close() has settled, with an error or not.
CloseSettles(f) ==
  CASE pc[f] \in {"pUndo", "tUndo"} -> Rejects(f)
    [] pc[f] = "pClose" -> GoTo(f, IF job[f] = "permission" THEN "permitted" ELSE "list1")
    [] pc[f] \in {"cClose", "tClose"} -> GoTo(f, "transport")

Closing == {"pUndo", "tUndo", "pClose", "cClose", "tClose"}

HandleCloses(f) ==
  /\ pc[f] \in Closing
  /\ device[f] \in opened
  /\ opened' = opened \ {device[f]}
  /\ blame' = blame \ {device[f]}
  /\ CloseSettles(f)
  /\ UNCHANGED <<busVars, flowVars>>

CloseFails(f) ==
  /\ pc[f] \in Closing
  /\ device[f] \notin opened \/ MayReject(f, "close")
  /\ blame' = IF device[f] \in opened THEN blame \cup {device[f]} ELSE blame
  /\ CloseSettles(f)
  /\ UNCHANGED <<busVars, opened, flowVars>>

-----------------------------------------------------------------------------
(***************************************************************************)
(* The open() and close() methods of the transport.                        *)
(***************************************************************************)
\* open() on a transport without a device asks for one; connect()'s listener stays
\* with what it was registered for.
TransportOpens(f) ==
  /\ pc[f] = "transport"
  /\ GoTo(f, IF device[f] = Undefined THEN "tPick" ELSE "tOpen")
  /\ UNCHANGED <<busVars, opened, flowVars, blame>>

TransportCloses(f) ==
  /\ pc[f] = "inUse"
  /\ GoTo(f, IF device[f] \in opened THEN "tClose" ELSE "transport")
  /\ UNCHANGED <<busVars, opened, flowVars, blame>>

-----------------------------------------------------------------------------
(***************************************************************************)
(* The bus.                                                                *)
(***************************************************************************)
\* The browser remembers some permissions.
Plug(d) ==
  /\ d \notin present \cup gone
  /\ present' = present \cup {d}
  /\ permitted' \in {permitted, permitted \cup {d}}
  /\ UNCHANGED <<gone, events, host, opened, pc, flowVars, blame>>

Unplug(d) ==
  /\ d \in present
  /\ present' = present \ {d}
  /\ gone' = gone \cup {d}
  /\ opened' = opened \ {d}
  /\ blame' = blame \ {d}
  /\ events' = events \cup {d}
  /\ UNCHANGED <<permitted, host, pc, flowVars>>

MatchesAny(f, d) == listens[f] # None    \* mutant: the listener does not compare devices
Matches(f, d) == listens[f] = d

\* Every listener whose device is the event's own runs and is removed; the close() it
\* calls finds no device.  The node library may hand over another object for the same
\* device.
EventDelivered(d) ==
  /\ d \in events
  /\ events' = events \ {d}
  /\ \E hit \in SUBSET {f \in Flows : Matches(f, d)} :
       /\ host = "web" => hit = {f \in Flows : Matches(f, d)}
       /\ told' = told \cup hit
       /\ listens' = [f \in Flows |-> IF f \in hit THEN None ELSE listens[f]]
  /\ UNCHANGED <<present, gone, permitted, host, opened, pc, job, list, device, seen, blame>>

Next ==
  \/ \E f \in Flows :
       \/ Start(f) \/ TakeList(f) \/ ListFails(f) \/ FirstList(f) \/ SupportList(f)
       \/ ConnectToListed(f) \/ SeveralListed(f) \/ DevicePicked(f) \/ NothingPicked(f)
       \/ HandleOpens(f) \/ ConfigurationSelected(f) \/ OpenFails(f)
       \/ InterfaceClaimed(f) \/ ClaimFails(f) \/ HandleCloses(f) \/ CloseFails(f)
       \/ TransportOpens(f) \/ TransportCloses(f)
  \/ \E d \in Devices : Plug(d) \/ Unplug(d) \/ EventDelivered(d)

Spec == Init /\ [][Next]_vars /\ \A d \in Devices : WF_vars(EventDelivered(d))

-----------------------------------------------------------------------------
(***************************************************************************)
(* Properties.                                                             *)
(***************************************************************************)
\* Every variable has its type.
TypeOK ==
  /\ host \in Hosts
  /\ present \in SUBSET Devices /\ gone \in SUBSET Devices
  /\ permitted \in SUBSET Devices /\ opened \in SUBSET Devices
  /\ events \in SUBSET gone
  /\ \A f \in Flows : job[f] \in Jobs[f]
  /\ pc \in [Flows -> PC]
  /\ list \in [Flows -> (SUBSET Devices) \cup {NoList}]
  /\ device \in [Flows -> Devices \cup {None, Undefined}]
  /\ listens \in [Flows -> Devices \cup {None, Undefined}]
  /\ told \in SUBSET Flows
  /\ seen \in [Flows -> SUBSET Devices]
  /\ blame \in SUBSET Devices

\* connect() returns a transport without a device only on the web, and only when every
\* device that isSupported() had found was unplugged before the second listing: the
\* check and the use of the list are two awaits.
NoDeviceOnlyAfterUnplug ==
  \A f \in Flows : device[f] = Undefined =>
    host = "web" /\ seen[f] # {} /\ seen[f] \subseteq gone

\* When no call is under way and the application has no transport in use, a device is
\* open only where selectConfiguration failed, which open() does not undo, or where
\* close() failed, which it swallows.
RestIsClosed ==
  (\A f \in Flows : pc[f] \in Resting \ {"inUse"}) => opened \subseteq blame

\* A listener runs only after the device its own transport was given was unplugged, and
\* never because of another device.
ToldOfOwnDevice == \A f \in told : device[f] \in gone

\* In the browser a transport hears of the disconnection of its device once the browser
\* has noticed it, unless connect() returned it without a device: the device that open()
\* then asks for has no listener.
DisconnectTold ==
  \A f \in Flows, d \in Devices :
    (/\ host = "web" /\ pc[f] = "transport" /\ device[f] = d
     /\ listens[f] # Undefined /\ d \in events) ~> (f \in told)
=============================================================================
