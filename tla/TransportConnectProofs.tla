----------------------- MODULE TransportConnectProofs -----------------------
(***************************************************************************)
(* Theorems about TransportConnect, for every set of flows and devices and *)
(* every set of faults.                                                    *)
(***************************************************************************)
EXTENDS TransportConnect, TLAPS

(***************************************************************************)
(* The inductive invariant.  A flow that has not connected has no listener *)
(* and has not been told of anything; a listener is for the flow's device; *)
(* what a listing found is on the bus or gone.                             *)
(***************************************************************************)
BeforeConnect == {"idle", "cPick"} \cup PermissionPC \cup ListPC

Listening(f) ==
  /\ pc[f] \in BeforeConnect => listens[f] = None /\ f \notin told
  /\ device[f] = Undefined => pc[f] \in {"transport", "tPick"}
  /\ pc[f] = "tPick" => device[f] = Undefined
  /\ listens[f] \in {None, Undefined, device[f]}
  /\ f \in told => device[f] \in gone

Accounted(S) == S \subseteq present \cup gone /\ (host = "web" => S \subseteq permitted)
Listing(f) ==
  /\ pc[f] \notin ListPC => list[f] = NoList
  /\ pc[f] = "list1" /\ list[f] # NoList => Accounted(list[f])
  /\ pc[f] = "list2" =>
       /\ seen[f] # {} /\ Accounted(seen[f])
       /\ host = "web" /\ list[f] # NoList => seen[f] \ list[f] \subseteq gone
  /\ device[f] = Undefined => host = "web" /\ seen[f] # {} /\ seen[f] \subseteq gone

FlowInv == \A f \in Flows : Listening(f) /\ Listing(f)

\* Whoever has opened a device is about to close it, or uses it.
Holding == {"pSelect", "pClaim", "pUndo", "pClose", "cClose",
            "tSelect", "tClaim", "tUndo", "tClose", "inUse"}
HeldInv ==
  \A d \in opened : d \in blame \/ \E f \in Flows : device[f] = d /\ pc[f] \in Holding

Inductive == TypeOK /\ FlowInv /\ HeldInv

USE ConnectAssumption, NamesAssumption DEF None, Undefined, NoList

LEMMA InitInductive == Init => Inductive
<1> SUFFICES ASSUME Init PROVE Inductive
  OBVIOUS
<1>1. /\ pc \in [Flows -> PC]
      /\ list \in [Flows -> (SUBSET Devices) \cup {NoList}]
      /\ device \in [Flows -> Devices \cup {None, Undefined}]
      /\ listens \in [Flows -> Devices \cup {None, Undefined}]
      /\ seen \in [Flows -> SUBSET Devices]
  BY DEF Init, PC
<1>2. TypeOK
  BY <1>1 DEF Init, TypeOK
<1>3. FlowInv
  BY DEF Init, FlowInv, Listening, Listing, ListPC
<1>4. HeldInv
  BY DEF Init, HeldInv
<1> QED BY <1>2, <1>3, <1>4 DEF Inductive

-----------------------------------------------------------------------------
(***************************************************************************)
(* Steps that change, of a flow, no more than what it awaits.              *)
(***************************************************************************)
Awaits(f, next) ==
  /\ GoTo(f, next)
  /\ UNCHANGED <<busVars, flowVars>>

\* A flow may go back to connecting only from there.
MayAwait(f, next) ==
  /\ next \in PC
  /\ pc[f] \notin ListPC /\ next # "list2"
  /\ next \in BeforeConnect => pc[f] \in BeforeConnect
  /\ device[f] = Undefined => next \in {"transport", "tPick"}
  /\ next = "tPick" => device[f] = Undefined

LEMMA AwaitKeepsFlows ==
  ASSUME Inductive, NEW f \in Flows, NEW next, MayAwait(f, next), Awaits(f, next)
  PROVE  FlowInv' /\ pc' \in [Flows -> PC]
<1>1. pc' \in [Flows -> PC] /\ pc'[f] = next /\ \A g \in Flows \ {f} : pc'[g] = pc[g]
  BY DEF Inductive, TypeOK, MayAwait, Awaits, GoTo
<1>2. ASSUME NEW g \in Flows PROVE Listening(g)'
  BY <1>1 DEF Inductive, FlowInv, Listening, MayAwait, Awaits, busVars, flowVars
<1>3. ASSUME NEW g \in Flows PROVE Listing(g)'
  BY <1>1 DEF Inductive, FlowInv, Listing, Accounted, MayAwait, Awaits, busVars, flowVars
<1> QED BY <1>1, <1>2, <1>3 DEF FlowInv

LEMMA AwaitTyped ==
  ASSUME Inductive, NEW f \in Flows, NEW next, MayAwait(f, next), Awaits(f, next),
         opened' \in SUBSET Devices, blame' \in SUBSET Devices
  PROVE  TypeOK' /\ FlowInv'
BY AwaitKeepsFlows DEF Inductive, TypeOK, Awaits, busVars, flowVars

\* A handle stays accounted for when its flow still holds it or it is closed or blamed.
LEMMA AwaitKeepsHeld ==
  ASSUME Inductive, NEW f \in Flows, NEW next, MayAwait(f, next), Awaits(f, next),
         opened' \subseteq opened \cup {device[f]},
         \A d \in opened' \ {device[f]} : d \in blame => d \in blame',
         device[f] \in opened' => next \in Holding \/ device[f] \in blame'
  PROVE  HeldInv'
<1>1. pc'[f] = next /\ device' = device /\ \A g \in Flows \ {f} : pc'[g] = pc[g]
  BY DEF Inductive, TypeOK, Awaits, GoTo, flowVars
<1>2. ASSUME NEW d \in opened', d # device[f], d \notin blame'
      PROVE  \E g \in Flows : device'[g] = d /\ pc'[g] \in Holding
  BY <1>1, <1>2 DEF Inductive, HeldInv
<1> QED BY <1>1, <1>2 DEF HeldInv

\* The handle of a flow that does not hold it is somebody else's or blamed.
LEMMA AwaitOutside ==
  ASSUME Inductive, NEW f \in Flows, NEW next, MayAwait(f, next), Awaits(f, next),
         pc[f] \notin Holding, UNCHANGED <<opened, blame>>
  PROVE  HeldInv'
<1>1. pc'[f] = next /\ device' = device /\ \A g \in Flows \ {f} : pc'[g] = pc[g]
  BY DEF Inductive, TypeOK, Awaits, GoTo, flowVars
<1>2. ASSUME NEW d \in opened', d \notin blame'
      PROVE  \E g \in Flows : device'[g] = d /\ pc'[g] \in Holding
  BY <1>1, <1>2 DEF Inductive, HeldInv
<1> QED BY <1>2 DEF HeldInv

LEMMA RejectsTo ==
  ASSUME NEW f \in Flows, pc[f] \in PermissionPC \cup TransportPC \cup {"cPick"}, Rejects(f)
  PROVE  \E next : /\ GoTo(f, next)
                   /\ pc[f] \in TransportPC => next = "transport"
                   /\ pc[f] \notin TransportPC => next \in Failed
BY DEF Rejects, PermissionRejects, PermissionPC, TransportPC, Failed

LEMMA CloseSettlesTo ==
  ASSUME Inductive, NEW f \in Flows, pc[f] \in Closing, CloseSettles(f)
  PROVE  \E next : GoTo(f, next) /\ MayAwait(f, next)
<1>1. device[f] # Undefined
  BY DEF Inductive, FlowInv, Listening, Closing
<1>2. CASE pc[f] \in {"pUndo", "tUndo"}
  <2>1. pc[f] \in PermissionPC \cup TransportPC /\ Rejects(f)
    BY <1>2 DEF CloseSettles, PermissionPC, TransportPC
  <2> QED BY <1>1, <1>2, <2>1, RejectsTo DEF MayAwait, PC, Failed, Returned, ListPC, BeforeConnect,
    PermissionPC, TransportPC
<1>3. CASE pc[f] = "pClose"
  BY <1>1, <1>3 DEF CloseSettles, MayAwait, PC, Returned, ListPC, BeforeConnect, PermissionPC
<1>4. CASE pc[f] \in {"cClose", "tClose"}
  <2>1. GoTo(f, "transport")
    BY <1>4 DEF CloseSettles
  <2>2. MayAwait(f, "transport")
    BY <1>4 DEF MayAwait, PC, Returned, ListPC, BeforeConnect, PermissionPC
  <2> QED BY <2>1, <2>2
<1> QED BY <1>2, <1>3, <1>4 DEF Closing

LEMMA StepStart ==
  ASSUME Inductive, NEW f \in Flows, Start(f)
  PROVE  Inductive'
<1>1. job[f] \in {"permission", "connect", "create", "bitcoin"}
  BY DEF Inductive, TypeOK
<1>2. device[f] # Undefined /\ pc[f] = "idle"
  BY DEF Inductive, FlowInv, Listening, Start
<1>3. PICK next \in {"pPick", "list1", "list0"} : Awaits(f, next)
  BY <1>1 DEF Start, Awaits
<1>4. MayAwait(f, next)
  BY <1>2 DEF MayAwait, PC, PermissionPC, ListPC, BeforeConnect
<1> QED
  BY <1>2, <1>3, <1>4, AwaitTyped, AwaitOutside DEF Start, Inductive, TypeOK, Holding

LEMMA StepHandleOpens ==
  ASSUME Inductive, NEW f \in Flows, HandleOpens(f)
  PROVE  Inductive'
<1>1. device[f] # Undefined /\ device[f] \in Devices /\ pc[f] \in {"pOpen", "tOpen"}
  BY DEF Inductive, TypeOK, FlowInv, Listening, HandleOpens
<1>2. PICK next \in {"pClaim", "pSelect", "tClaim", "tSelect"} :
        /\ Awaits(f, next)
        /\ next \in {"pClaim", "pSelect"} <=> pc[f] = "pOpen"
  BY DEF HandleOpens, Awaits
<1>3. MayAwait(f, next)
  BY <1>1, <1>2 DEF MayAwait, PC, PermissionPC, TransportPC, ListPC, BeforeConnect
<1>4. opened' = opened \cup {device[f]} /\ blame' = blame
  BY DEF HandleOpens
<1> QED
  BY <1>1, <1>2, <1>3, <1>4, AwaitTyped, AwaitKeepsHeld DEF Inductive, TypeOK, Holding

LEMMA StepSelectClaim ==
  ASSUME Inductive, NEW f \in Flows,
         ConfigurationSelected(f) \/ InterfaceClaimed(f) \/ ClaimFails(f)
  PROVE  Inductive'
<1>1. /\ device[f] # Undefined
      /\ pc[f] \in {"pSelect", "tSelect", "pClaim", "tClaim"} /\ UNCHANGED <<opened, blame>>
  BY DEF Inductive, FlowInv, Listening, ConfigurationSelected, InterfaceClaimed, ClaimFails
<1>2. PICK next \in {"pClaim", "tClaim", "pClose", "inUse", "pUndo", "tUndo"} :
        /\ Awaits(f, next)
        /\ next \in {"pClaim", "pClose", "pUndo"} <=> pc[f] \in {"pSelect", "pClaim"}
  BY DEF ConfigurationSelected, InterfaceClaimed, ClaimFails, AfterClaim, Awaits
<1>3. MayAwait(f, next)
  BY <1>1, <1>2 DEF MayAwait, PC, PermissionPC, TransportPC, ListPC, BeforeConnect
<1> QED
  BY <1>1, <1>2, <1>3, AwaitTyped, AwaitKeepsHeld DEF Inductive, TypeOK, Holding

LEMMA StepOpenFails ==
  ASSUME Inductive, NEW f \in Flows, OpenFails(f)
  PROVE  Inductive'
<1>1. /\ device[f] # Undefined /\ pc[f] \in {"pOpen", "tOpen", "pSelect", "tSelect"}
      /\ Rejects(f) /\ UNCHANGED <<busVars, opened, flowVars>>
  BY DEF Inductive, FlowInv, Listening, OpenFails
<1>2. PICK next : /\ GoTo(f, next)
                  /\ pc[f] \in TransportPC => next = "transport"
                  /\ pc[f] \notin TransportPC => next \in Failed
  BY <1>1, RejectsTo DEF PermissionPC, TransportPC
<1>3. MayAwait(f, next) /\ Awaits(f, next)
  BY <1>1, <1>2 DEF MayAwait, Awaits, PC, PermissionPC, TransportPC, ListPC, BeforeConnect, Failed, Returned
<1>4. blame' \in SUBSET Devices
  BY DEF OpenFails, Inductive, TypeOK
<1>5. HeldInv'
  <2>1. CASE pc[f] \in {"pOpen", "tOpen"}
    BY <1>1, <1>3, <2>1, AwaitOutside DEF OpenFails, Holding
  <2>2. CASE pc[f] \in {"pSelect", "tSelect"}
    BY <1>1, <1>3, <2>2, AwaitKeepsHeld DEF OpenFails
  <2> QED BY <1>1, <2>1, <2>2
<1> QED BY <1>1, <1>3, <1>4, <1>5, AwaitTyped DEF Inductive, TypeOK

LEMMA StepCloses ==
  ASSUME Inductive, NEW f \in Flows, HandleCloses(f) \/ CloseFails(f)
  PROVE  Inductive'
<1>1. pc[f] \in Closing /\ CloseSettles(f) /\ UNCHANGED <<busVars, flowVars>>
  BY DEF HandleCloses, CloseFails
<1>2. PICK next : GoTo(f, next) /\ MayAwait(f, next)
  BY <1>1, CloseSettlesTo
<1>3. Awaits(f, next)
  BY <1>1, <1>2 DEF Awaits
<1>4. /\ opened' \in SUBSET Devices /\ blame' \in SUBSET Devices
      /\ opened' \subseteq opened
      /\ \A d \in opened' \ {device[f]} : d \in blame => d \in blame'
      /\ device[f] \in opened' => device[f] \in blame'
  BY DEF HandleCloses, CloseFails, Inductive, TypeOK
<1> QED BY <1>2, <1>3, <1>4, AwaitTyped, AwaitKeepsHeld DEF Inductive

LEMMA StepTransport ==
  ASSUME Inductive, NEW f \in Flows, TransportOpens(f) \/ TransportCloses(f)
  PROVE  Inductive'
<1>1. UNCHANGED <<opened, blame>>
  BY DEF TransportOpens, TransportCloses
<1>2. CASE TransportOpens(f)
  <2>1. PICK next \in {"tPick", "tOpen"} :
          Awaits(f, next) /\ (next = "tPick" <=> device[f] = Undefined) /\ pc[f] = "transport"
    BY <1>2 DEF TransportOpens, Awaits
  <2>2. MayAwait(f, next)
    BY <2>1 DEF MayAwait, PC, PermissionPC, TransportPC, ListPC, BeforeConnect
  <2> QED BY <1>1, <2>1, <2>2, AwaitTyped, AwaitOutside DEF Inductive, TypeOK, Holding
<1>3. CASE TransportCloses(f)
  <2>1. PICK next \in {"tClose", "transport"} :
          /\ Awaits(f, next) /\ pc[f] = "inUse"
          /\ device[f] \in opened => next = "tClose"
    BY <1>3 DEF TransportCloses, Awaits
  <2>2. device[f] # Undefined
    BY <2>1 DEF Inductive, FlowInv, Listening
  <2>3. MayAwait(f, next)
    BY <2>1, <2>2 DEF MayAwait, PC, PermissionPC, TransportPC, ListPC, BeforeConnect, Returned
  <2> QED BY <1>1, <2>1, <2>3, AwaitTyped, AwaitKeepsHeld DEF Inductive, TypeOK, Holding
<1> QED BY <1>2, <1>3

LEMMA StepNothingPicked ==
  ASSUME Inductive, NEW f \in Flows, NothingPicked(f)
  PROVE  Inductive'
<1>1. pc[f] \in {"pPick", "cPick", "tPick"} /\ Rejects(f) /\ UNCHANGED <<busVars, opened, flowVars, blame>>
  BY DEF NothingPicked
<1>2. PICK next : /\ GoTo(f, next)
                  /\ pc[f] \in TransportPC => next = "transport"
                  /\ pc[f] \notin TransportPC => next \in Failed
  BY <1>1, RejectsTo DEF PermissionPC, TransportPC
<1>3. device[f] = Undefined => pc[f] = "tPick"
  BY <1>1 DEF Inductive, FlowInv, Listening
<1>4. MayAwait(f, next) /\ Awaits(f, next)
  BY <1>1, <1>2, <1>3 DEF MayAwait, Awaits, PC, PermissionPC, TransportPC, ListPC, BeforeConnect, Failed, Returned
<1> QED BY <1>1, <1>4, AwaitTyped, AwaitOutside DEF Inductive, TypeOK, Holding

-----------------------------------------------------------------------------
(***************************************************************************)
(* Steps of the listings, and of the device a flow gets.                   *)
(***************************************************************************)
\* A step of one flow, outside of what it holds, that leaves the handles alone.
LEMMA OutsideKeepsHeld ==
  ASSUME Inductive, NEW f \in Flows, pc[f] \notin Holding, UNCHANGED <<opened, blame>>,
         \A g \in Flows \ {f} : pc'[g] = pc[g] /\ device'[g] = device[g]
  PROVE  HeldInv'
<1>1. ASSUME NEW d \in opened', d \notin blame'
      PROVE  \E g \in Flows : device'[g] = d /\ pc'[g] \in Holding
  BY <1>1 DEF Inductive, HeldInv
<1> QED BY <1>1 DEF HeldInv

LEMMA StepTakeList ==
  ASSUME Inductive, NEW f \in Flows, TakeList(f)
  PROVE  Inductive'
<1>1. /\ pc[f] \in ListPC /\ list' = [list EXCEPT ![f] = Listable]
      /\ Listable \subseteq present /\ Listable \in SUBSET Devices
      /\ host = "web" => Listable = present \cap permitted
      /\ UNCHANGED <<busVars, opened, pc, job, device, listens, told, seen, blame>>
  BY DEF TakeList, Listable, Inductive, TypeOK
<1>2. TypeOK'
  <2>1. list' \in [Flows -> (SUBSET Devices) \cup {NoList}]
    BY <1>1 DEF Inductive, TypeOK
  <2> QED BY <1>1, <2>1 DEF Inductive, TypeOK, busVars
<1>3. ASSUME NEW g \in Flows PROVE Listening(g)'
  BY <1>1 DEF Inductive, FlowInv, Listening, busVars
<1>4. ASSUME NEW g \in Flows PROVE Listing(g)'
  <2>1. CASE g # f
    BY <1>1, <2>1 DEF Inductive, TypeOK, FlowInv, Listing, Accounted, busVars
  <2>2. CASE g = f
    <3>1. list'[f] = Listable /\ Listing(f)
      BY <1>1 DEF Inductive, TypeOK, FlowInv
    <3>2. pc[f] = "list1" => Accounted(list[f])'
      BY <1>1, <3>1 DEF Accounted, busVars
    <3>3. pc[f] = "list2" => seen[f] # {} /\ Accounted(seen[f])' /\ (host = "web" => seen[f] \ Listable \subseteq gone)
      BY <1>1, <3>1 DEF Listing, Accounted, busVars
    <3> QED BY <1>1, <2>2, <3>1, <3>2, <3>3 DEF Listing, busVars, Accounted
  <2> QED BY <2>1, <2>2
<1>5. HeldInv'
  BY <1>1 DEF Inductive, HeldInv
<1> QED BY <1>2, <1>3, <1>4, <1>5 DEF Inductive, FlowInv

\* A listing is read and the flow goes on, without a device yet.
LEMMA StepReadList ==
  ASSUME Inductive, NEW f \in Flows, ListFails(f) \/ FirstList(f) \/ SupportList(f) \/ SeveralListed(f)
  PROVE  Inductive'
<1>1. /\ pc[f] \in ListPC /\ list[f] # NoList
      /\ list' = [list EXCEPT ![f] = NoList]
      /\ UNCHANGED <<busVars, opened, job, device, listens, told, blame>>
  BY DEF ListFails, FirstList, SupportList, SeveralListed, Listed, DropList, ListPC
<1>2. PICK next \in {"notFound", "pPick", "cPick", "list1", "list2"} : GoTo(f, next)
        /\ (next = "list2" => pc[f] = "list1" /\ list[f] # {} /\ seen' = [seen EXCEPT ![f] = list[f]])
        /\ seen' \in {seen, [seen EXCEPT ![f] = list[f]]}
  <2>1. CASE ListFails(f)
    BY <2>1 DEF ListFails
  <2>2. CASE FirstList(f)
    BY <2>2 DEF FirstList
  <2>3. CASE SupportList(f)
    <3>1. /\ pc[f] = "list1" /\ seen' = [seen EXCEPT ![f] = list[f]]
          /\ GoTo(f, IF list[f] = {} THEN "notFound" ELSE "list2")
      BY <2>3 DEF SupportList, NoDeviceFound, Listed
    <3> QED BY <3>1
  <2>4. CASE SeveralListed(f)
    BY <2>4 DEF SeveralListed
  <2> QED BY <2>1, <2>2, <2>3, <2>4
<1>3. device[f] # Undefined /\ list[f] \in SUBSET Devices
  BY <1>1 DEF Inductive, TypeOK, FlowInv, Listening, ListPC
<1>4. pc' \in [Flows -> PC] /\ pc'[f] = next /\ \A g \in Flows \ {f} : pc'[g] = pc[g]
  BY <1>2 DEF Inductive, TypeOK, GoTo, PC, Failed, PermissionPC, ListPC
<1>5. TypeOK'
  BY <1>1, <1>2, <1>3, <1>4 DEF Inductive, TypeOK, busVars
<1>6. ASSUME NEW g \in Flows PROVE Listening(g)' /\ Listing(g)'
  <2>1. CASE g # f
    <3>1. pc'[g] = pc[g] /\ list'[g] = list[g] /\ seen'[g] = seen[g] /\ Listening(g) /\ Listing(g)
      BY <1>1, <1>2, <1>4, <2>1 DEF Inductive, TypeOK, FlowInv
    <3> QED BY <1>1, <3>1 DEF Listening, Listing, Accounted, busVars
  <2>2. CASE g = f
    <3>1. Listening(f) /\ Listing(f) /\ list'[f] = NoList
      BY <1>1 DEF Inductive, TypeOK, FlowInv
    <3>2. Listening(f)'
      BY <1>1, <1>2, <1>3, <1>4, <3>1 DEF Listening, BeforeConnect, busVars
    <3>3. next = "list2" => seen'[f] = list[f] /\ seen'[f] # {} /\ Accounted(list[f])
      BY <1>1, <1>2, <3>1 DEF Inductive, TypeOK, Listing
    <3>4. Listing(f)'
      BY <1>1, <1>3, <1>4, <3>1, <3>3 DEF Listing, Accounted, busVars
    <3> QED BY <2>2, <3>2, <3>4
  <2> QED BY <2>1, <2>2
<1>7. HeldInv'
  BY <1>1, <1>4, OutsideKeepsHeld DEF ListPC, Holding
<1> QED BY <1>5, <1>6, <1>7 DEF Inductive, FlowInv

LEMMA StepConnected ==
  ASSUME Inductive, NEW f \in Flows, NEW d \in Devices \cup {Undefined}, Connected(f, d),
         pc[f] \in {"list2", "cPick"}, list' = [list EXCEPT ![f] = NoList],
         permitted \subseteq permitted', permitted' \in SUBSET Devices,
         UNCHANGED <<present, gone, events, host, opened, job, told, seen, blame>>,
         d = Undefined => host = "web" /\ seen[f] # {} /\ seen[f] \subseteq gone
  PROVE  Inductive'
<1>1. /\ device' = [device EXCEPT ![f] = d] /\ listens' = [listens EXCEPT ![f] = d]
      /\ \E next \in {"cClose", "transport"} : GoTo(f, next)
      /\ d = Undefined => GoTo(f, "transport")
  BY DEF Connected, ListenerFor, Inductive, TypeOK
<1>2. PICK next \in {"cClose", "transport"} : GoTo(f, next) /\ (d = Undefined => next = "transport")
  BY <1>1
<1>3. pc' \in [Flows -> PC] /\ pc'[f] = next /\ \A g \in Flows \ {f} : pc'[g] = pc[g]
  BY <1>2 DEF Inductive, TypeOK, GoTo, PC, Returned
<1>4. TypeOK'
  BY <1>1, <1>3 DEF Inductive, TypeOK
<1>5. ASSUME NEW g \in Flows PROVE Listening(g)' /\ Listing(g)'
  <2>1. CASE g # f
    <3>1. /\ pc'[g] = pc[g] /\ list'[g] = list[g] /\ device'[g] = device[g] /\ listens'[g] = listens[g]
          /\ Listening(g) /\ Listing(g)
      BY <1>1, <1>3, <2>1 DEF Inductive, TypeOK, FlowInv
    <3> QED BY <3>1 DEF Listening, Listing, Accounted
  <2>2. CASE g = f
    <3>1. /\ Listening(f) /\ list'[f] = NoList /\ device'[f] = d /\ listens'[f] = d
      BY <1>1 DEF Inductive, TypeOK, FlowInv
    <3>2. f \notin told
      BY <3>1 DEF Listening, BeforeConnect, ListPC
    <3>3. Listening(f)'
      BY <1>2, <1>3, <3>1, <3>2 DEF Listening, BeforeConnect, PermissionPC, ListPC
    <3>4. Listing(f)'
      BY <1>3, <3>1 DEF Listing
    <3> QED BY <2>2, <3>3, <3>4
  <2> QED BY <2>1, <2>2
<1>6. HeldInv'
  BY <1>1, <1>3, OutsideKeepsHeld DEF Holding, Inductive, TypeOK
<1> QED BY <1>4, <1>5, <1>6 DEF Inductive, FlowInv

LEMMA StepConnectToListed ==
  ASSUME Inductive, NEW f \in Flows, ConnectToListed(f)
  PROVE  Inductive'
<1>1. /\ pc[f] = "list2" /\ list[f] # NoList /\ list' = [list EXCEPT ![f] = NoList]
      /\ list[f] = {} => host # "node"
      /\ UNCHANGED <<busVars, opened, job, told, seen, blame>>
  BY DEF ConnectToListed, Listed, DropList
<1>2. permitted \subseteq permitted' /\ permitted' \in SUBSET Devices
      /\ UNCHANGED <<present, gone, events, host>>
  BY <1>1 DEF busVars, Inductive, TypeOK
<1>3. CASE list[f] = {}
  <2>1. host = "web" /\ Listing(f)
    BY <1>1, <1>3 DEF Inductive, TypeOK, FlowInv
  <2>2. seen[f] # {} /\ seen[f] \subseteq gone
    BY <1>1, <1>3, <2>1 DEF Listing
  <2> QED BY <1>1, <1>2, <1>3, <2>1, <2>2, StepConnected DEF ConnectToListed
<1>4. CASE list[f] # {}
  <2>1. PICK d \in list[f] : Connected(f, d)
    BY <1>4 DEF ConnectToListed
  <2>2. d \in Devices
    BY <1>1 DEF Inductive, TypeOK
  <2> QED BY <1>1, <1>2, <2>1, <2>2, StepConnected
<1> QED BY <1>3, <1>4

LEMMA StepDevicePicked ==
  ASSUME Inductive, NEW f \in Flows, DevicePicked(f)
  PROVE  Inductive'
<1>1. PICK d \in Pickable :
    /\ permitted' = permitted \cup {d}
    /\ \/ pc[f] = "cPick" /\ Connected(f, d)
       \/ /\ pc[f] \in {"pPick", "tPick"}
          /\ device' = [device EXCEPT ![f] = d]
          /\ GoTo(f, IF pc[f] = "pPick" THEN "pOpen" ELSE "tOpen")
          /\ UNCHANGED listens
    /\ UNCHANGED <<present, gone, events, host, opened, job, list, told, seen, blame>>
  BY DEF DevicePicked
<1>2. d \in Devices /\ permitted \subseteq permitted' /\ permitted' \in SUBSET Devices
  BY <1>1 DEF Pickable, Inductive, TypeOK
<1>3. CASE pc[f] = "cPick"
  <2>1. list' = [list EXCEPT ![f] = NoList]
    BY <1>1, <1>3 DEF Inductive, TypeOK, FlowInv, Listing, ListPC
  <2> QED BY <1>1, <1>2, <1>3, <2>1, StepConnected
<1>4. CASE pc[f] \in {"pPick", "tPick"}
  <2>1. PICK next \in {"pOpen", "tOpen"} :
          GoTo(f, next) /\ (next = "pOpen" <=> pc[f] = "pPick")
    BY <1>1, <1>4
  <2>2. pc' \in [Flows -> PC] /\ pc'[f] = next /\ \A g \in Flows \ {f} : pc'[g] = pc[g]
    BY <2>1 DEF Inductive, TypeOK, GoTo, PC, PermissionPC, TransportPC
  <2>3. device' = [device EXCEPT ![f] = d] /\ listens' = listens
    BY <1>1, <1>4
  <2>4. TypeOK'
    BY <1>1, <1>2, <2>2, <2>3 DEF Inductive, TypeOK
  <2>5. ASSUME NEW g \in Flows PROVE Listening(g)' /\ Listing(g)'
    <3>1. CASE g # f
      <4>1. pc'[g] = pc[g] /\ device'[g] = device[g] /\ Listening(g) /\ Listing(g)
        BY <2>2, <2>3, <3>1 DEF Inductive, TypeOK, FlowInv
      <4> QED BY <1>1, <1>2, <2>3, <4>1 DEF Listening, Listing, Accounted
    <3>2. CASE g = f
      <4>1. Listening(f) /\ Listing(f) /\ device'[f] = d
        BY <2>3 DEF Inductive, TypeOK, FlowInv
      <4>2. listens[f] \in {None, Undefined} /\ f \notin told
        BY <1>4, <4>1 DEF Listening, BeforeConnect, PermissionPC, Inductive, TypeOK
      <4>3. Listening(f)'
        BY <1>1, <1>2, <1>4, <2>1, <2>2, <2>3, <4>1, <4>2 DEF Listening, BeforeConnect, PermissionPC, ListPC
      <4>4. Listing(f)'
        BY <1>1, <1>2, <1>4, <2>2, <4>1 DEF Listing, ListPC
      <4> QED BY <3>2, <4>3, <4>4
    <3> QED BY <3>1, <3>2
  <2>6. HeldInv'
    BY <1>1, <1>4, <2>2, <2>3, OutsideKeepsHeld DEF Holding, Inductive, TypeOK
  <2> QED BY <2>4, <2>5, <2>6 DEF Inductive, FlowInv
<1> QED BY <1>1, <1>3, <1>4

-----------------------------------------------------------------------------
(***************************************************************************)
(* Steps of the bus.                                                       *)
(***************************************************************************)
LEMMA StepBus ==
  ASSUME Inductive, NEW d \in Devices, Plug(d) \/ Unplug(d)
  PROVE  Inductive'
<1>1. /\ present \cup gone \subseteq present' \cup gone' /\ gone \subseteq gone'
      /\ permitted \subseteq permitted'
      /\ UNCHANGED <<host, pc, flowVars>>
  BY DEF Plug, Unplug, Inductive, TypeOK
<1>2. TypeOK'
  BY DEF Plug, Unplug, Inductive, TypeOK, flowVars
<1>3. ASSUME NEW g \in Flows PROVE Listening(g)' /\ Listing(g)'
  <2>1. Listening(g) /\ Listing(g)
    BY DEF Inductive, FlowInv
  <2> QED BY <1>1, <2>1 DEF Listening, Listing, Accounted, flowVars
<1>4. opened' \subseteq opened /\ \A e \in opened' : e \in blame => e \in blame'
  BY DEF Plug, Unplug
<1>5. HeldInv'
  BY <1>1, <1>4 DEF Inductive, HeldInv, flowVars
<1> QED BY <1>2, <1>3, <1>5 DEF Inductive, FlowInv

LEMMA StepEvent ==
  ASSUME Inductive, NEW d \in Devices, EventDelivered(d)
  PROVE  Inductive'
<1>1. PICK hit \in SUBSET {f \in Flows : Matches(f, d)} :
        /\ told' = told \cup hit
        /\ listens' = [f \in Flows |-> IF f \in hit THEN None ELSE listens[f]]
  BY DEF EventDelivered
<1>2. /\ d \in gone /\ events' \subseteq events
      /\ UNCHANGED <<present, gone, permitted, host, opened, pc, job, list, device, seen, blame>>
  BY DEF EventDelivered, Inductive, TypeOK
<1>3. TypeOK'
  BY <1>1, <1>2 DEF Inductive, TypeOK
<1>4. ASSUME NEW g \in Flows PROVE Listening(g)' /\ Listing(g)'
  <2>1. Listening(g) /\ Listing(g) /\ listens'[g] = IF g \in hit THEN None ELSE listens[g]
    BY <1>1 DEF Inductive, FlowInv
  <2>2. g \in hit => listens[g] = d /\ listens[g] # None /\ listens[g] # Undefined
    BY <1>1 DEF Matches
  <2>3. g \in hit => device[g] = d /\ pc[g] \notin BeforeConnect
    BY <2>1, <2>2 DEF Listening
  <2>4. Listening(g)'
    BY <1>1, <1>2, <2>1, <2>3 DEF Listening
  <2>5. Listing(g)'
    BY <1>2, <2>1 DEF Listing, Accounted
  <2> QED BY <2>4, <2>5
<1>5. HeldInv'
  BY <1>2 DEF Inductive, HeldInv
<1> QED BY <1>3, <1>4, <1>5 DEF Inductive, FlowInv

-----------------------------------------------------------------------------
(***************************************************************************)
(* The theorems.                                                           *)
(***************************************************************************)
LEMMA StepInductive == Inductive /\ [Next]_vars => Inductive'
<1> SUFFICES ASSUME Inductive, [Next]_vars PROVE Inductive'
  OBVIOUS
<1>1. ASSUME NEW f \in Flows,
             \/ Start(f) \/ TakeList(f) \/ ListFails(f) \/ FirstList(f) \/ SupportList(f)
             \/ ConnectToListed(f) \/ SeveralListed(f) \/ DevicePicked(f) \/ NothingPicked(f)
      PROVE  Inductive'
  BY <1>1, StepStart, StepTakeList, StepReadList, StepConnectToListed, StepDevicePicked, StepNothingPicked
<1>2. ASSUME NEW f \in Flows,
             \/ HandleOpens(f) \/ ConfigurationSelected(f) \/ OpenFails(f)
             \/ InterfaceClaimed(f) \/ ClaimFails(f) \/ HandleCloses(f) \/ CloseFails(f)
             \/ TransportOpens(f) \/ TransportCloses(f)
      PROVE  Inductive'
  BY <1>2, StepHandleOpens, StepSelectClaim, StepOpenFails, StepCloses, StepTransport
<1>3. ASSUME NEW d \in Devices, Plug(d) \/ Unplug(d) \/ EventDelivered(d)
      PROVE  Inductive'
  BY <1>3, StepBus, StepEvent
<1>4. CASE UNCHANGED vars
  BY <1>4 DEF vars, busVars, flowVars, Inductive, TypeOK, FlowInv, Listening, Listing, Accounted, HeldInv
<1> QED BY <1>1, <1>2, <1>3, <1>4 DEF Next

LEMMA AlwaysInductive == Spec => []Inductive
BY InitInductive, StepInductive, PTL DEF Spec

\* For every number of flows and devices the variables keep their types.
THEOREM TypeCorrect == Spec => []TypeOK
BY AlwaysInductive, PTL DEF Inductive

\* connect() returns a transport without a device only after the devices it had found were
\* all unplugged between its two listings.
THEOREM MissingDeviceWasUnplugged == Spec => []NoDeviceOnlyAfterUnplug
<1>1. Inductive => NoDeviceOnlyAfterUnplug
  BY DEF Inductive, FlowInv, Listing, NoDeviceOnlyAfterUnplug
<1> QED BY <1>1, AlwaysInductive, PTL

\* What asked for a permission or a transport leaves no device open, but for the failures
\* that open() and close() do not undo.
THEOREM RestLeavesClosed == Spec => []RestIsClosed
<1>1. Inductive => RestIsClosed
  BY DEF Inductive, HeldInv, RestIsClosed, Resting, Returned, Failed, Holding
<1> QED BY <1>1, AlwaysInductive, PTL

\* A disconnect listener runs only for the device its transport was given.
THEOREM ListenersHearTheirOwn == Spec => []ToldOfOwnDevice
<1>1. Inductive => ToldOfOwnDevice
  BY DEF Inductive, TypeOK, FlowInv, Listening, ToldOfOwnDevice
<1> QED BY <1>1, AlwaysInductive, PTL
=============================================================================
