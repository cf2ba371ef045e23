---------------------------- MODULE UsbTransport ----------------------------
(***************************************************************************)
(* A transport object of hw-transport-webusb (TransportWebUSB) or of       *)
(* hw-transport-nodeusb (TransportNodeUSB), the USB device it drives, and  *)
(* the application calls of send(action, data) that share it.              *)
(*                                                                         *)
(* Each call runs two asynchronous threads.  The "send" thread is          *)
(* send() and the part of #send() before the race: it opens the device,    *)
(* then waits for Promise.race, then closes the device (finally).  The     *)
(* "request" thread is the sendRequest promise: it transfers the packets   *)
(* out, then runs receive().  Promise.race does not stop it when the       *)
(* timeout wins, so it may outlive the call.                               *)
(*                                                                         *)
(* A step takes a thread from the completion of the USB operation it       *)
(* awaits to the next `await`: JavaScript runs that code without           *)
(* interruption.  pc[t] names the operation thread t awaits.  Two          *)
(* operations in flight may complete in either order.                      *)
(***************************************************************************)
EXTENDS Integers, Sequences, FiniteSets

CONSTANTS
  Calls,          \* the calls of send() made on the transport object
  RequestIDs,     \* the values generateRequestID can draw
  ReqPackets,     \* ReqPackets[c]: packets encode() makes of c's data
  RespPackets,    \* RespPackets[c]: packets of the device's response to c
  ActionOf,       \* ActionOf[c]: the command of c
  MaxPackets,     \* config.maxPacketSize
  MaxConcurrent,  \* calls the application has under way at once
  MayUnplug,      \* the device may be unplugged
  CloseResets,    \* close() resets the device: TRUE in webusb.ts, FALSE in nodeusb.ts
  Faults          \* the USB operations that may fail by themselves

FaultKinds == {"open", "select", "reset", "claim", "release", "close",
               "out", "outStatus", "in", "empty", "babble"}

ASSUME TransportAssumption ==
  /\ ReqPackets \in [Calls -> Nat]
  /\ RespPackets \in [Calls -> Nat \ {0}]
  /\ DOMAIN ActionOf = Calls
  /\ MaxPackets \in Nat
  /\ MaxConcurrent \in Nat
  /\ MayUnplug \in BOOLEAN
  /\ CloseResets \in BOOLEAN
  /\ Faults \subseteq FaultKinds

VARIABLES
  plugged,     \* the device object still stands for a device on the bus
  opened,      \* device.opened
  claimed,     \* the interface is claimed
  configured,  \* device.configuration is not null
  asked,       \* calls whose request is complete in the device and not answered
  inQueue,     \* packets the device has queued on its IN endpoint
  pc,          \* the operation each thread awaits
  aborted,     \* threads whose transfer in flight was aborted
  requestID,   \* requestID[c]: the draw of call c, or NoID
  left,        \* left[c]: packets of c still to be transferred out
  buffer,      \* buffer[c]: packagesBuffer of c's receive()
  timer,       \* state of c's timeout
  outcome,     \* how Promise.race settled for c, or how c failed before it
  verdict      \* history: what the device answered to c's request

deviceVars == <<plugged, opened, claimed, configured>>
endpointVars == <<asked, inQueue>>
callVars == <<requestID, left, buffer>>
vars == <<deviceVars, endpointVars, pc, aborted, callVars, timer, outcome, verdict>>

Threads == Calls \X {"send", "request"}
Sender(c) == <<c, "send">>
Request(c) == <<c, "request">>
CallOf(t) == t[1]
IsSender(t) == t[2] = "send"

\* Operations of open(), of the close() open() makes when the claim fails ("u" for
\* undo), of the close() in send()'s finally, and the others.
OpenPC == {"open", "select", "reset", "claim", "uRelease", "uReset", "uClose"}
ClosePC == {"fRelease", "fReset", "fClose"}
SenderPC == {"idle", "race", "done"} \cup OpenPC \cup ClosePC
RequestPC == {"idle", "out", "in", "refused", "done"} \cup OpenPC

Outcomes == {"answer", "refused", "null", "rejected", "timeout", "tooLarge",
             "notOpened", "statusNotOk", "babble"}
NoOutcome == "none"
Verdicts == {"answer", "refused"}
NoID == -1
ASSUME IDAssumption == NoID \notin RequestIDs /\ RequestIDs # {}

(***************************************************************************)
(* Packets of a response.  of is the call the device answers: it stands    *)
(* for the data, which the code cannot tell from the header.               *)
(***************************************************************************)
Packets ==
  [ins : {ActionOf[c] : c \in Calls}, lc : RequestIDs, p1 : Nat, p2 : Nat,
   of : Calls, status : Verdicts]

Response(c, status) ==
  [i \in 1 .. RespPackets[c] |->
    [ins |-> ActionOf[c], lc |-> requestID[c], p1 |-> RespPackets[c], p2 |-> i - 1,
     of |-> c, status |-> status]]

Init ==
  /\ plugged = TRUE
  /\ opened = FALSE
  /\ claimed = FALSE
  /\ configured \in BOOLEAN
  /\ asked = {}
  /\ inQueue = <<>>
  /\ pc = [t \in Threads |-> "idle"]
  /\ aborted = {}
  /\ requestID = [c \in Calls |-> NoID]
  /\ left = [c \in Calls |-> 0]
  /\ buffer = [c \in Calls |-> <<>>]
  /\ timer = [c \in Calls |-> "off"]
  /\ outcome = [c \in Calls |-> NoOutcome]
  /\ verdict = [c \in Calls |-> NoOutcome]

-----------------------------------------------------------------------------
(***************************************************************************)
(* What the operations do to the device, and how a thread goes on.         *)
(***************************************************************************)
MayFail(kind) == kind \in Faults

\* The USB stack may refuse an operation on the handle while another one is in flight
\* ("an operation that changes the device state is in progress").
Contended(t) == \E u \in Threads \ {t} : pc[u] \in OpenPC \cup ClosePC
MayReject(t, kind) == MayFail(kind) \/ Contended(t)

Transferring(t) == pc[t] \in {"out", "in"}

\* reset, releaseInterface and close abort the transfers in flight.
AbortTransfers == aborted' = aborted \cup {t \in Threads : Transferring(t)}

\* A USB reset may make the device drop the oldest packets it has queued and the
\* requests it has not answered.
ResetEndpoints ==
  /\ \E k \in 1 .. Len(inQueue) + 1 : inQueue' = SubSeq(inQueue, k, Len(inQueue))
  /\ asked' \in {asked, {}}

GoTo(t, next) == pc' = [pc EXCEPT ![t] = next]

\* The send thread of call c fails before the race: `finally` closes the device.
SenderFails(c, o) ==
  /\ GoTo(Sender(c), "fRelease")
  /\ outcome' = [outcome EXCEPT ![c] = o]
  /\ UNCHANGED timer

\* The timeout of call c, and the clearTimeout in the finally of its sendRequest.
ArmTimeoutNever(c) == UNCHANGED timer       \* mutant: no timeout at all
ArmTimeout(c) == timer' = [timer EXCEPT ![c] = "armed"]
ClearTimeoutNever(c) == UNCHANGED timer     \* mutant: no clearTimeout
ClearTimeout(c) == timer' = [timer EXCEPT ![c] = IF @ = "armed" THEN "cleared" ELSE @]

\* Mutant: a late answer replaces the outcome of the race.
RequestSettlesLate(c, o) ==
  /\ pc' = [pc EXCEPT ![Request(c)] = "done",
                      ![Sender(c)] = IF @ = "race" THEN "fRelease" ELSE @]
  /\ ClearTimeout(c)
  /\ outcome' = [outcome EXCEPT ![c] = o]

\* Mutant: send() without its finally.
RequestSettlesUnclosed(c, o) ==
  LET racing == pc[Sender(c)] = "race" IN
  /\ pc' = [pc EXCEPT ![Request(c)] = "done", ![Sender(c)] = IF racing THEN "done" ELSE @]
  /\ ClearTimeout(c)
  /\ outcome' = [outcome EXCEPT ![c] = IF racing THEN o ELSE @]

\* sendRequest of call c settles, and the race takes the outcome unless the timeout won
\* it before.
RequestSettles(c, o) ==
  LET racing == pc[Sender(c)] = "race" IN
  /\ pc' = [pc EXCEPT ![Request(c)] = "done",
                      ![Sender(c)] = IF racing THEN "fRelease" ELSE @]
  /\ ClearTimeout(c)
  /\ outcome' = [outcome EXCEPT ![c] = IF racing THEN o ELSE @]

\* open() rejects in thread t.
OpenRejects(t) ==
  IF IsSender(t) THEN SenderFails(CallOf(t), "rejected")
                 ELSE RequestSettles(CallOf(t), "rejected")

-----------------------------------------------------------------------------
(***************************************************************************)
(* open(device): device.open, selectDefaultConfiguration,                  *)
(* gracefullyResetDevice (which swallows errors), claimInterface.          *)
(***************************************************************************)
Start(c) ==
  /\ pc[Sender(c)] = "idle"
  /\ Cardinality({d \in Calls : pc[Sender(d)] \notin {"idle", "done"}}) < MaxConcurrent
  /\ GoTo(Sender(c), "open")
  /\ UNCHANGED <<deviceVars, endpointVars, aborted, callVars, timer, outcome, verdict>>

DeviceOpens(t) ==
  /\ pc[t] = "open"
  /\ plugged
  /\ opened' = TRUE
  /\ GoTo(t, IF configured THEN "reset" ELSE "select")
  /\ UNCHANGED <<plugged, claimed, configured, endpointVars, aborted, callVars, timer,
                 outcome, verdict>>

ConfigurationSelected(t) ==
  /\ pc[t] = "select"
  /\ opened
  /\ configured' = TRUE
  /\ GoTo(t, "reset")
  /\ UNCHANGED <<plugged, opened, claimed, endpointVars, aborted, callVars, timer,
                 outcome, verdict>>

DeviceOpenFails(t) ==
  /\ \/ pc[t] = "open" /\ (~plugged \/ MayReject(t, "open"))
     \/ pc[t] = "select" /\ (~opened \/ MayReject(t, "select"))
  /\ OpenRejects(t)
  /\ UNCHANGED <<deviceVars, endpointVars, aborted, callVars, verdict>>

\* Mutant: close() returns without device.close().
AfterResetUnclosed(at) ==
  CASE at = "reset" -> "claim" [] at = "uReset" -> "uClose" [] at = "fReset" -> "done"

AfterReset(at) == CASE at = "reset"  -> "claim"
                    [] at = "uReset" -> "uClose"
                    [] at = "fReset" -> "fClose"

DeviceResets(t) ==
  /\ pc[t] \in {"reset", "uReset", "fReset"}
  /\ opened
  /\ ResetEndpoints
  /\ AbortTransfers
  /\ GoTo(t, AfterReset(pc[t]))
  /\ UNCHANGED <<deviceVars, callVars, timer, outcome, verdict>>

ResetFails(t) ==
  /\ pc[t] \in {"reset", "uReset", "fReset"}
  /\ ~opened \/ MayReject(t, "reset")
  /\ GoTo(t, AfterReset(pc[t]))
  /\ UNCHANGED <<deviceVars, endpointVars, aborted, callVars, timer, outcome, verdict>>

\* The race begins; mutant: #send returns without awaiting it.
BeginRaceUnawaited(c) == pc' = [pc EXCEPT ![Sender(c)] = "fRelease", ![Request(c)] = "out"]
BeginRace(c) == pc' = [pc EXCEPT ![Sender(c)] = "race", ![Request(c)] = "out"]

\* open() has resolved in a send thread: #send checks device.opened, draws the
\* request ID, makes the packets, arms the timeout and starts sendRequest.
BeginRequest(c) ==
  \/ /\ ~opened \/ MaxPackets < ReqPackets[c]
     /\ SenderFails(c, IF opened THEN "tooLarge" ELSE "notOpened")
     /\ UNCHANGED callVars
  \/ /\ opened
     /\ ReqPackets[c] <= MaxPackets
     /\ \E id \in RequestIDs : requestID' = [requestID EXCEPT ![c] = id]
     /\ left' = [left EXCEPT ![c] = ReqPackets[c]]
     /\ ArmTimeout(c)
     /\ BeginRace(c)
     /\ UNCHANGED <<buffer, outcome>>

\* receive() goes on with its loop after its own open().
InterfaceClaimed(t) ==
  /\ pc[t] = "claim"
  /\ opened
  /\ claimed' = TRUE
  /\ IF IsSender(t)
     THEN BeginRequest(CallOf(t))
     ELSE GoTo(t, "in") /\ UNCHANGED <<callVars, timer, outcome>>
  /\ UNCHANGED <<plugged, opened, configured, endpointVars, aborted, verdict>>

ClaimFails(t) ==
  /\ pc[t] = "claim"
  /\ ~opened \/ MayReject(t, "claim")
  /\ GoTo(t, "uRelease")
  /\ UNCHANGED <<deviceVars, endpointVars, aborted, callVars, timer, outcome, verdict>>

-----------------------------------------------------------------------------
(***************************************************************************)
(* close(device): releaseInterface, gracefullyResetDevice (WebUSB only),   *)
(* device.close.  A rejection of the first skips the others.               *)
(***************************************************************************)
CloseReturns(t) ==
  IF pc[t] \in ClosePC
  THEN GoTo(t, "done") /\ UNCHANGED <<timer, outcome>>
  ELSE OpenRejects(t)

\* Mutant: open() does not tell its own close() from that of send().
AfterReleaseMerged(at) == IF CloseResets THEN "fReset" ELSE "fClose"

AfterRelease(at) ==
  IF at = "uRelease" THEN IF CloseResets THEN "uReset" ELSE "uClose"
                     ELSE IF CloseResets THEN "fReset" ELSE "fClose"

InterfaceReleased(t) ==
  /\ pc[t] \in {"uRelease", "fRelease"}
  /\ opened
  /\ claimed' = FALSE
  /\ AbortTransfers
  /\ GoTo(t, AfterRelease(pc[t]))
  /\ UNCHANGED <<plugged, opened, configured, endpointVars, callVars, timer, outcome, verdict>>

ReleaseFails(t) ==
  /\ pc[t] \in {"uRelease", "fRelease"}
  /\ ~opened \/ MayReject(t, "release")
  /\ CloseReturns(t)
  /\ UNCHANGED <<deviceVars, endpointVars, aborted, callVars, verdict>>

DeviceCloses(t) ==
  /\ pc[t] \in {"uClose", "fClose"}
  /\ opened' = FALSE
  /\ claimed' = FALSE
  /\ AbortTransfers
  /\ CloseReturns(t)
  /\ UNCHANGED <<plugged, configured, endpointVars, callVars, verdict>>

CloseFails(t) ==
  /\ pc[t] \in {"uClose", "fClose"}
  /\ MayReject(t, "close")
  /\ CloseReturns(t)
  /\ UNCHANGED <<deviceVars, endpointVars, aborted, callVars, verdict>>

-----------------------------------------------------------------------------
(***************************************************************************)
(* sendRequest: the loop of transferOut, then receive().                   *)
(***************************************************************************)
\* A transfer asked for while the interface is not claimed is refused at once.
StartTransfer(c, direction) ==
  GoTo(Request(c), IF claimed THEN direction ELSE "refused")

\* Mutant: the check of receive() inverted.
BeginReceiveInverted(c) ==
  IF opened THEN RequestSettles(c, "null")
            ELSE StartTransfer(c, "in") /\ UNCHANGED <<timer, outcome>>

\* receive() returns null when the device is no longer open.
BeginReceive(c) ==
  IF opened THEN StartTransfer(c, "in") /\ UNCHANGED <<timer, outcome>>
            ELSE RequestSettles(c, "null")

\* A transfer that was complete when the abort came still resolves: its promise may
\* be the later one to be delivered.
PacketSent(c) ==
  /\ pc[Request(c)] = "out"
  /\ left[c] > 0
  /\ left' = [left EXCEPT ![c] = @ - 1]
  /\ aborted' = aborted \ {Request(c)}
  /\ IF left[c] = 1
     THEN asked' = asked \cup {c} /\ BeginReceive(c)
     ELSE StartTransfer(c, "out") /\ UNCHANGED <<asked, timer, outcome>>
  /\ UNCHANGED <<deviceVars, inQueue, requestID, buffer, verdict>>

\* An empty byte array leaves no packet, and transferOut(endpoint, undefined) rejects.
TransferOutFails(c) ==
  /\ pc[Request(c)] = "out"
  /\ \/ /\ left[c] = 0 \/ Request(c) \in aborted \/ MayFail("out")
        /\ RequestSettles(c, "rejected")
     \/ MayFail("outStatus") /\ RequestSettles(c, "statusNotOk")
  /\ aborted' = aborted \ {Request(c)}
  /\ UNCHANGED <<deviceVars, endpointVars, callVars, verdict>>

TransferRefused(c) ==
  /\ pc[Request(c)] = "refused"
  /\ RequestSettles(c, "rejected")
  /\ UNCHANGED <<deviceVars, endpointVars, aborted, callVars, verdict>>

\* Mutant: the packets of every request of the command are taken.
IsCurrentActionByCommand(c, packet) == packet.ins = ActionOf[c]

\* isCurrentAction of receive().
IsCurrentAction(c, packet) == packet.ins = ActionOf[c] /\ packet.lc = requestID[c]

\* decode() sorts the packets by index and takes the status of the last one; any
\* status but success makes receive() throw.
IsLastByIndex(packets, i) ==
  \A j \in DOMAIN packets :
    packets[j].p2 < packets[i].p2 \/ (packets[j].p2 = packets[i].p2 /\ j <= i)

\* The condition that ends the loop of receive(); mutant: one packet early.
EnoughPacketsEarly(counter, totalPackets) == counter + 1 >= totalPackets
EnoughPackets(counter, totalPackets) == counter >= totalPackets

TransferInReady(c) == pc[Request(c)] = "in" /\ Request(c) \notin aborted

PacketReceived(c) ==
  /\ TransferInReady(c)
  /\ inQueue # <<>>
  /\ IsCurrentAction(c, Head(inQueue))
  /\ inQueue' = Tail(inQueue)
  /\ buffer' = [buffer EXCEPT ![c] = Append(@, Head(inQueue))]
  /\ IF EnoughPackets(Len(buffer'[c]), Head(inQueue).p1)
     THEN \E i \in DOMAIN buffer'[c] :
            /\ IsLastByIndex(buffer'[c], i)
            /\ RequestSettles(c, buffer'[c][i].status)
     ELSE UNCHANGED <<pc, timer, outcome>>
  /\ UNCHANGED <<deviceVars, asked, aborted, requestID, left, verdict>>

\* A packet of another request, an empty transfer or a stall: open the device anew.
OtherPacketReceived(c) ==
  /\ TransferInReady(c)
  /\ \/ /\ inQueue # <<>>
        /\ ~IsCurrentAction(c, Head(inQueue))
        /\ inQueue' = Tail(inQueue)
     \/ MayFail("empty") /\ UNCHANGED inQueue
  /\ GoTo(Request(c), "open")
  /\ UNCHANGED <<deviceVars, asked, aborted, callVars, timer, outcome, verdict>>

TransferInFails(c) ==
  /\ pc[Request(c)] = "in"
  /\ \/ /\ Request(c) \in aborted \/ MayFail("in")
        /\ RequestSettles(c, "rejected")
     \/ MayFail("babble") /\ RequestSettles(c, "babble")
  /\ aborted' = aborted \ {Request(c)}
  /\ UNCHANGED <<deviceVars, endpointVars, callVars, verdict>>

-----------------------------------------------------------------------------
\* setTimeout fires: the race rejects with ERR_TIMEOUT, sendRequest goes on.
TimeoutFires(c) ==
  /\ timer[c] = "armed"
  /\ timer' = [timer EXCEPT ![c] = "fired"]
  /\ GoTo(Sender(c), "fRelease")
  /\ outcome' = [outcome EXCEPT ![c] = "timeout"]
  /\ UNCHANGED <<deviceVars, endpointVars, aborted, callVars, verdict>>

\* The device answers a request, when its user has decided.
DeviceAnswers(c) ==
  /\ plugged
  /\ c \in asked
  /\ \E status \in Verdicts :
       /\ inQueue' = inQueue \o Response(c, status)
       /\ verdict' = [verdict EXCEPT ![c] = status]
  /\ asked' = asked \ {c}
  /\ UNCHANGED <<deviceVars, pc, aborted, callVars, timer, outcome>>

\* The device leaves the bus: its handle is closed and every later operation fails.
Unplug ==
  /\ MayUnplug
  /\ plugged
  /\ plugged' = FALSE
  /\ opened' = FALSE
  /\ claimed' = FALSE
  /\ asked' = {}
  /\ inQueue' = <<>>
  /\ AbortTransfers
  /\ UNCHANGED <<configured, pc, callVars, timer, outcome, verdict>>

\* The steps that open and close the device, in either thread of a call.
OpenOrClose(t) ==
  \/ DeviceOpens(t) \/ ConfigurationSelected(t) \/ DeviceOpenFails(t)
  \/ DeviceResets(t) \/ ResetFails(t)
  \/ InterfaceClaimed(t) \/ ClaimFails(t)
  \/ InterfaceReleased(t) \/ ReleaseFails(t)
  \/ DeviceCloses(t) \/ CloseFails(t)

Transfer(c) ==
  \/ PacketSent(c) \/ TransferOutFails(c) \/ TransferRefused(c)
  \/ PacketReceived(c) \/ OtherPacketReceived(c) \/ TransferInFails(c)

Next ==
  \/ \E c \in Calls : Start(c) \/ Transfer(c) \/ TimeoutFires(c) \/ DeviceAnswers(c)
  \/ \E t \in Threads : OpenOrClose(t)
  \/ Unplug

Spec == Init /\ [][Next]_vars

(***************************************************************************)
(* Every operation on the device handle completes, a timer that is not     *)
(* cleared fires, and a transfer that was refused or aborted settles.      *)
(* Nothing is assumed of the other transfers, which wait for the device    *)
(* and for its user.                                                       *)
(***************************************************************************)
Interrupted(c) ==
  Request(c) \in aborted \/ pc[Request(c)] = "refused"

Fairness ==
  /\ \A t \in Threads : WF_vars(OpenOrClose(t))
  /\ \A c \in Calls : WF_vars(TimeoutFires(c))
  /\ \A c \in Calls : WF_vars(Interrupted(c) /\ Transfer(c))

FairSpec == Spec /\ Fairness

-----------------------------------------------------------------------------
(***************************************************************************)
(* Properties.                                                             *)
(***************************************************************************)
\* Every variable keeps its type.
TypeOK ==
  /\ plugged \in BOOLEAN /\ opened \in BOOLEAN
  /\ claimed \in BOOLEAN /\ configured \in BOOLEAN
  /\ asked \subseteq Calls
  /\ inQueue \in Seq(Packets)
  /\ pc \in [Threads -> SenderPC \cup RequestPC]
  /\ \A c \in Calls : pc[Sender(c)] \in SenderPC /\ pc[Request(c)] \in RequestPC
  /\ aborted \subseteq Threads
  /\ requestID \in [Calls -> RequestIDs \cup {NoID}]
  /\ left \in [Calls -> Nat]
  /\ buffer \in [Calls -> Seq(Packets)]
  /\ timer \in [Calls -> {"off", "armed", "cleared", "fired"}]
  /\ outcome \in [Calls -> Outcomes \cup {NoOutcome}]
  /\ verdict \in [Calls -> Verdicts \cup {NoOutcome}]

\* d's packets pass the test isCurrentAction of c's receive().
Confusable(c, d) == ActionOf[c] = ActionOf[d] /\ requestID[c] = requestID[d]

\* The call whose request no other call's header can be mistaken for.
UniquelyNamed(c) == \A d \in Calls \ {c} : ~Confusable(c, d)

\* A call that resolves with an answer (or with the device's refusal) has assembled
\* every packet of the device's response to its own request, each once, whatever
\* other calls, late responses and resets did in between; provided that no other call
\* drew the same request ID for the same command.
WholeAnswer ==
  \A c \in Calls :
    outcome[c] \in Verdicts /\ UniquelyNamed(c) => buffer[c] = Response(c, verdict[c])

\* docs/EAPDU_Readme.md: the request ID "acts as a unique identifier for the request",
\* so the packets a call accepts are packets of the response to that call.
RequestIDIdentifies ==
  \A c \in Calls : \A i \in 1 .. Len(buffer[c]) : buffer[c][i].of = c

AllCallsReturned == \A c \in Calls : pc[Sender(c)] \in {"idle", "done"}
NoTimeout == \A c \in Calls : timer[c] # "fired"

\* When no call is under way the device is closed, unless a call timed out or closing
\* itself failed: send() closes the device whatever way #send() ended, and two calls
\* that share the device cannot leave it open between them.
ClosedAtRest ==
  AllCallsReturned /\ NoTimeout /\ {"release", "close"} \cap Faults = {} => ~opened

\* The part of a call that transfers data outlives send() only after a timeout.
OutlivesOnlyTimeout ==
  \A c \in Calls :
    pc[Request(c)] \notin {"idle", "done"} /\ pc[Sender(c)] # "race" => timer[c] = "fired"

\* A call that waits in Promise.race has a running timeout and a running request.
RaceIsTimed ==
  \A c \in Calls :
    /\ pc[Sender(c)] = "race" <=> timer[c] = "armed"
    /\ pc[Sender(c)] = "race" => pc[Request(c)] \notin {"idle", "done"}

\* Calls made one after the other on a sound device never fail by the transport's own
\* doing: a USB operation is never refused and receive() never finds the device
\* closed, unless the device was unplugged or an earlier call timed out.
SequentialCallsSucceed ==
  MaxConcurrent = 1 /\ Faults = {} /\ plugged /\ NoTimeout =>
    \A c \in Calls :
      \/ outcome[c] \in Verdicts \cup {NoOutcome, "tooLarge"}
      \/ outcome[c] = "rejected" /\ ReqPackets[c] = 0

\* Calls made one after the other leave nothing in the device for the next one, as
\* long as none timed out or failed to transfer.
NothingLeftBehind ==
  MaxConcurrent = 1 /\ Faults = {} /\ plugged /\ NoTimeout /\ AllCallsReturned =>
    asked = {} /\ inQueue = <<>>

\* The first outcome of a call stands: neither a late answer after the timeout nor
\* anything else changes it.
SettledOnce ==
  [][\A c \in Calls : outcome[c] # NoOutcome => outcome'[c] = outcome[c]]_vars

(***************************************************************************)
(* What the transport promises, whatever the USB traffic: see              *)
(* RequestResponse.  A call is named by the pair its packets carry.        *)
(***************************************************************************)
Promise == INSTANCE RequestResponse WITH
  Names <- {ActionOf[c] : c \in Calls} \X RequestIDs,
  Failures <- Outcomes \ Verdicts,
  phase <- [c \in Calls |-> IF outcome[c] # NoOutcome THEN "settled"
                            ELSE IF pc[Sender(c)] = "idle" THEN "idle" ELSE "pending"],
  name <- [c \in Calls |-> IF requestID[c] = NoID THEN {}
                           ELSE {<<ActionOf[c], requestID[c]>>}]

\* The transport implements the abstract request/response service: each call settles
\* once, and with an answer only if the device gave that answer to a request of the
\* same command and request ID.
ImplementsPromise == Promise!Spec

\* Every call returns, whatever the device, the user and the other calls do.
EveryCallReturns ==
  \A c \in Calls : pc[Sender(c)] = "open" ~> pc[Sender(c)] = "done"

\* README.md of the transport: `timeout` is "the maximum duration (in milliseconds)
\* that the transport operation should wait": after it nothing waits on the device.
TimeoutEndsRequest ==
  \A c \in Calls : timer[c] = "fired" ~> pc[Request(c)] = "done"

=============================================================================
