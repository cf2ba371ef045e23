------------------------- MODULE UsbTransportProofs -------------------------
(***************************************************************************)
(* Theorems about UsbTransport, for every number of calls, every packet    *)
(* count, every set of request IDs and every set of faults.                *)
(***************************************************************************)
EXTENDS UsbTransport, SequenceTheorems, TLAPS

(***************************************************************************)
(* The threads of a call.                                                  *)
(***************************************************************************)
LEMMA ThreadFacts ==
  /\ \A c \in Calls : /\ Sender(c) \in Threads /\ Request(c) \in Threads
                      /\ IsSender(Sender(c)) /\ ~IsSender(Request(c))
                      /\ CallOf(Sender(c)) = c /\ CallOf(Request(c)) = c
  /\ \A c, d \in Calls : /\ Sender(c) # Request(d)
                         /\ Sender(c) = Sender(d) => c = d
                         /\ Request(c) = Request(d) => c = d
  /\ \A t \in Threads : /\ CallOf(t) \in Calls
                        /\ IsSender(t) => t = Sender(CallOf(t))
                        /\ ~IsSender(t) => t = Request(CallOf(t))
BY DEF Threads, Sender, Request, IsSender, CallOf

-----------------------------------------------------------------------------
(***************************************************************************)
(* How far the two threads of a call have come, and what that says of its  *)
(* timer, its outcome and its request ID.                                  *)
(***************************************************************************)
CallPhase(c) ==
  /\ pc[Sender(c)] \in {"idle"} \cup OpenPC =>
       timer[c] = "off" /\ requestID[c] = NoID /\ pc[Request(c)] = "idle"
  /\ pc[Sender(c)] = "race" <=> timer[c] = "armed"
  /\ pc[Sender(c)] = "race" => pc[Request(c)] \notin {"idle", "done"}
  /\ pc[Sender(c)] \in {"idle", "race"} \cup OpenPC <=> outcome[c] = NoOutcome
  /\ pc[Request(c)] \notin {"idle", "done"} => timer[c] \in {"armed", "fired"}
  /\ requestID[c] = NoID => pc[Request(c)] = "idle"

PhaseInv == \A c \in Calls : CallPhase(c)

ControlTypeOK ==
  /\ pc \in [Threads -> SenderPC \cup RequestPC]
  /\ \A c \in Calls : pc[Sender(c)] \in SenderPC /\ pc[Request(c)] \in RequestPC
  /\ requestID \in [Calls -> RequestIDs \cup {NoID}]
  /\ timer \in [Calls -> {"off", "armed", "cleared", "fired"}]
  /\ outcome \in [Calls -> Outcomes \cup {NoOutcome}]

USE TransportAssumption, IDAssumption DEF ArmTimeout, ClearTimeout, BeginRace

LEMMA ControlInit == Init => ControlTypeOK /\ PhaseInv
BY ThreadFacts DEF Init, ControlTypeOK, PhaseInv, CallPhase, SenderPC, RequestPC, OpenPC,
  NoOutcome, Outcomes

LEMMA PhaseStart ==
  ASSUME ControlTypeOK, PhaseInv, NEW c \in Calls, Start(c)
  PROVE  ControlTypeOK' /\ PhaseInv'
BY ThreadFacts DEF ControlTypeOK, PhaseInv, CallPhase, SenderPC, RequestPC, OpenPC, ClosePC,
  NoOutcome, Outcomes, Start, GoTo, callVars

LEMMA PhaseRequestSettles ==
  ASSUME ControlTypeOK, PhaseInv, NEW c \in Calls, NEW o \in Outcomes,
         pc[Request(c)] \notin {"idle", "done"}, RequestSettles(c, o), UNCHANGED requestID
  PROVE  ControlTypeOK' /\ PhaseInv'
BY ThreadFacts DEF ControlTypeOK, PhaseInv, CallPhase, SenderPC, RequestPC, OpenPC, ClosePC,
  NoOutcome, Outcomes, RequestSettles

LEMMA PhaseSenderFails ==
  ASSUME ControlTypeOK, PhaseInv, NEW c \in Calls, NEW o \in Outcomes,
         pc[Sender(c)] \in OpenPC, SenderFails(c, o), UNCHANGED requestID
  PROVE  ControlTypeOK' /\ PhaseInv'
BY ThreadFacts DEF ControlTypeOK, PhaseInv, CallPhase, SenderPC, RequestPC, OpenPC, ClosePC,
  NoOutcome, Outcomes, SenderFails, GoTo
LEMMA PhaseOpenRejects ==
  ASSUME ControlTypeOK, PhaseInv, NEW t \in Threads,
         pc[t] \in OpenPC, OpenRejects(t), UNCHANGED requestID
  PROVE  ControlTypeOK' /\ PhaseInv'
<1>1. CASE IsSender(t)
  BY <1>1, ThreadFacts, PhaseSenderFails DEF OpenRejects, Outcomes
<1>2. CASE ~IsSender(t)
  <2>1. pc[Request(CallOf(t))] \notin {"idle", "done"}
    BY <1>2, ThreadFacts DEF OpenPC
  <2>2. QED  BY <1>2, <2>1, ThreadFacts, PhaseRequestSettles DEF OpenRejects, Outcomes
<1>3. QED  BY <1>1, <1>2

\* A thread goes from one operation of open(), or of close(), to the next.
LEMMA PhaseGoesOn ==
  ASSUME ControlTypeOK, PhaseInv, NEW t \in Threads, NEW next \in SenderPC \cup RequestPC,
         \/ pc[t] \in OpenPC /\ next \in OpenPC
         \/ pc[t] \in OpenPC /\ next = "in" /\ ~IsSender(t)
         \/ pc[t] \in ClosePC /\ next \in ClosePC \cup {"done"},
         GoTo(t, next), UNCHANGED <<timer, outcome, requestID>>
  PROVE  ControlTypeOK' /\ PhaseInv'
BY ThreadFacts DEF ControlTypeOK, PhaseInv, CallPhase, SenderPC, RequestPC, OpenPC, ClosePC,
  NoOutcome, Outcomes, GoTo

LEMMA PhaseCloseReturns ==
  ASSUME ControlTypeOK, PhaseInv, NEW t \in Threads,
         pc[t] \in {"uRelease", "fRelease", "uClose", "fClose"},
         CloseReturns(t), UNCHANGED requestID
  PROVE  ControlTypeOK' /\ PhaseInv'
<1>1. CASE pc[t] \in ClosePC
  BY <1>1, PhaseGoesOn DEF CloseReturns, SenderPC
<1>2. CASE pc[t] \notin ClosePC
  BY <1>2, PhaseOpenRejects DEF CloseReturns, ClosePC, OpenPC
<1>3. QED  BY <1>1, <1>2

LEMMA PhaseBeginRequest ==
  ASSUME ControlTypeOK, PhaseInv, NEW c \in Calls,
         pc[Sender(c)] = "claim", BeginRequest(c)
  PROVE  ControlTypeOK' /\ PhaseInv'
<1>1. CASE \E o \in Outcomes : SenderFails(c, o) /\ UNCHANGED callVars
  BY <1>1, PhaseSenderFails DEF callVars, OpenPC
<1>2. CASE /\ \E id \in RequestIDs : requestID' = [requestID EXCEPT ![c] = id]
           /\ timer' = [timer EXCEPT ![c] = "armed"]
           /\ pc' = [pc EXCEPT ![Sender(c)] = "race", ![Request(c)] = "out"]
           /\ UNCHANGED outcome
  BY <1>2, ThreadFacts DEF ControlTypeOK, PhaseInv, CallPhase, SenderPC, RequestPC, OpenPC,
    ClosePC, NoOutcome, Outcomes
<1>3. QED  BY <1>1, <1>2 DEF BeginRequest, Outcomes

LEMMA PhaseOpenOrClose ==
  ASSUME ControlTypeOK, PhaseInv, NEW t \in Threads, OpenOrClose(t)
  PROVE  ControlTypeOK' /\ PhaseInv'
<1>1. CASE DeviceOpens(t)
  BY <1>1, PhaseGoesOn DEF DeviceOpens, OpenPC, SenderPC, callVars
<1>2. CASE ConfigurationSelected(t)
  BY <1>2, PhaseGoesOn DEF ConfigurationSelected, OpenPC, SenderPC, callVars
<1>3. CASE DeviceOpenFails(t)
  BY <1>3, PhaseOpenRejects DEF DeviceOpenFails, OpenPC, callVars
<1>4. CASE DeviceResets(t) \/ ResetFails(t)
  <2>1. GoTo(t, AfterReset(pc[t])) /\ UNCHANGED <<timer, outcome, requestID>>
    BY <1>4 DEF DeviceResets, ResetFails, callVars
  <2>2. CASE pc[t] = "fReset"
    BY <2>1, <2>2, PhaseGoesOn DEF AfterReset, ClosePC, SenderPC
  <2>3. CASE pc[t] \in {"reset", "uReset"}
    BY <2>1, <2>3, PhaseGoesOn DEF AfterReset, OpenPC, SenderPC
  <2>4. QED  BY <1>4, <2>2, <2>3 DEF DeviceResets, ResetFails
<1>5. CASE InterfaceClaimed(t)
  <2>1. CASE IsSender(t)
    BY <1>5, <2>1, ThreadFacts, PhaseBeginRequest DEF InterfaceClaimed
  <2>2. CASE ~IsSender(t)
    BY <1>5, <2>2, PhaseGoesOn DEF InterfaceClaimed, OpenPC, RequestPC, callVars
  <2>3. QED  BY <2>1, <2>2
<1>6. CASE ClaimFails(t)
  BY <1>6, PhaseGoesOn DEF ClaimFails, OpenPC, SenderPC, callVars
<1>7. CASE InterfaceReleased(t)
  <2>1. GoTo(t, AfterRelease(pc[t])) /\ UNCHANGED <<timer, outcome, requestID>>
    BY <1>7 DEF InterfaceReleased, callVars
  <2>2. CASE pc[t] = "fRelease"
    BY <2>1, <2>2, PhaseGoesOn DEF AfterRelease, ClosePC, SenderPC
  <2>3. CASE pc[t] = "uRelease"
    BY <2>1, <2>3, PhaseGoesOn DEF AfterRelease, OpenPC, SenderPC
  <2>4. QED  BY <1>7, <2>2, <2>3 DEF InterfaceReleased
<1>8. CASE ReleaseFails(t) \/ DeviceCloses(t) \/ CloseFails(t)
  BY <1>8, PhaseCloseReturns DEF ReleaseFails, DeviceCloses, CloseFails, callVars
<1>9. QED  BY <1>1, <1>2, <1>3, <1>4, <1>5, <1>6, <1>7, <1>8 DEF OpenOrClose

\* The request thread goes on transferring.
LEMMA PhaseTransferGoesOn ==
  ASSUME ControlTypeOK, PhaseInv, NEW c \in Calls, pc[Request(c)] \in {"out", "in"},
         \/ UNCHANGED pc
         \/ \E next \in {"out", "in", "refused", "open"} : GoTo(Request(c), next),
         UNCHANGED <<timer, outcome, requestID>>
  PROVE  ControlTypeOK' /\ PhaseInv'
BY ThreadFacts DEF ControlTypeOK, PhaseInv, CallPhase, SenderPC, RequestPC, OpenPC, ClosePC,
  NoOutcome, Outcomes, GoTo

-----------------------------------------------------------------------------
(***************************************************************************)
(* Packets: every packet of the queue and of the buffers is the packet of  *)
(* the device's response to one request, and those in a buffer carry the   *)
(* command and the request ID of the call they are in.                     *)
(***************************************************************************)
Stamped(p, ids, verdicts) ==
  /\ p.ins = ActionOf[p.of]
  /\ p.lc = ids[p.of]
  /\ p.p1 = RespPackets[p.of]
  /\ p.p2 < p.p1
  /\ p.status = verdicts[p.of]

SequenceTypeOK ==
  /\ inQueue \in Seq(Packets)
  /\ buffer \in [Calls -> Seq(Packets)]

DeviceTypeOK ==
  /\ plugged \in BOOLEAN /\ opened \in BOOLEAN
  /\ claimed \in BOOLEAN /\ configured \in BOOLEAN
  /\ asked \subseteq Calls
  /\ aborted \subseteq Threads
  /\ left \in [Calls -> Nat]
  /\ verdict \in [Calls -> Verdicts \cup {NoOutcome}]

LEMMA TypeOKParts == TypeOK <=> ControlTypeOK /\ SequenceTypeOK /\ DeviceTypeOK
BY DEF TypeOK, ControlTypeOK, SequenceTypeOK, DeviceTypeOK

AskedInv ==
  \A c \in Calls :
    /\ c \in asked => requestID[c] # NoID /\ verdict[c] = NoOutcome
    /\ left[c] > 0 => c \notin asked /\ verdict[c] = NoOutcome
    /\ requestID[c] = NoID => c \notin asked /\ verdict[c] = NoOutcome /\ left[c] = 0

PacketInv ==
  /\ \A i \in 1 .. Len(inQueue) : Stamped(inQueue[i], requestID, verdict)
  /\ \A c \in Calls : \A i \in 1 .. Len(buffer[c]) :
       Stamped(buffer[c][i], requestID, verdict) /\ IsCurrentAction(c, buffer[c][i])

LEMMA PacketInit == Init => SequenceTypeOK /\ DeviceTypeOK /\ AskedInv /\ PacketInv
<1> SUFFICES ASSUME Init PROVE SequenceTypeOK /\ DeviceTypeOK /\ AskedInv /\ PacketInv
  OBVIOUS
<1>1. SequenceTypeOK
  BY EmptySeq DEF Init, SequenceTypeOK
<1>2. DeviceTypeOK /\ AskedInv
  BY DEF Init, DeviceTypeOK, AskedInv
<1>3. PacketInv
  BY EmptySeq DEF Init, PacketInv
<1>4. QED  BY <1>1, <1>2, <1>3

\* The packets of a response.
ResponsePacket(c, v, i) ==
  [ins |-> ActionOf[c], lc |-> requestID[c], p1 |-> RespPackets[c], p2 |-> i - 1,
   of |-> c, status |-> v]

LEMMA ResponseType ==
  ASSUME ControlTypeOK, NEW c \in Calls, requestID[c] # NoID, NEW v \in Verdicts
  PROVE  /\ Response(c, v) \in Seq(Packets)
         /\ Len(Response(c, v)) = RespPackets[c]
         /\ \A i \in 1 .. RespPackets[c] : Response(c, v)[i] = ResponsePacket(c, v, i)
<1>1. \A i \in 1 .. RespPackets[c] : ResponsePacket(c, v, i) \in Packets
  BY DEF Packets, ControlTypeOK, ResponsePacket
<1>2. Response(c, v) = [i \in 1 .. RespPackets[c] |-> ResponsePacket(c, v, i)]
  BY DEF Response, ResponsePacket
<1>3. [i \in 1 .. RespPackets[c] |-> ResponsePacket(c, v, i)] \in Seq(Packets)
  BY <1>1, IsASeq
<1>4. Len(Response(c, v)) = RespPackets[c]
  BY <1>2, <1>3, LenProperties
<1>5. \A i \in 1 .. RespPackets[c] : Response(c, v)[i] = ResponsePacket(c, v, i)
  BY <1>2
<1>6. QED  BY <1>2, <1>3, <1>4, <1>5

\* Request IDs that are drawn and verdicts that are given stay.
NamesKept ==
  /\ \A c \in Calls : requestID[c] # NoID => requestID'[c] = requestID[c]
  /\ \A c \in Calls : verdict[c] # NoOutcome => verdict'[c] = verdict[c]

LEMMA StampKept ==
  ASSUME NamesKept, NEW p \in Packets, Stamped(p, requestID, verdict)
  PROVE  Stamped(p, requestID', verdict')
BY DEF NamesKept, Stamped, Packets, Verdicts, NoOutcome

\* A step that adds no packet, neither to the queue nor to a buffer.
LEMMA PacketsKept ==
  ASSUME TypeOK, PacketInv, NamesKept, UNCHANGED buffer,
         \A i \in 1 .. Len(inQueue') : \E j \in 1 .. Len(inQueue) : inQueue'[i] = inQueue[j]
  PROVE  PacketInv'
<1>1. \A i \in 1 .. Len(inQueue) :
        inQueue[i] \in Packets /\ Stamped(inQueue[i], requestID', verdict')
  BY TypeOKParts, ElementOfSeq, StampKept DEF SequenceTypeOK, PacketInv
<1>2. \A i \in 1 .. Len(inQueue') : Stamped(inQueue'[i], requestID', verdict')
  BY <1>1
<1>3. ASSUME NEW c \in Calls, NEW i \in 1 .. Len(buffer[c])
      PROVE  /\ Stamped(buffer[c][i], requestID', verdict')
             /\ IsCurrentAction(c, buffer[c][i])'
  <2>1. buffer[c][i] \in Packets
    BY TypeOKParts, ElementOfSeq DEF SequenceTypeOK
  <2>2. Stamped(buffer[c][i], requestID', verdict')
    BY <2>1, StampKept DEF PacketInv
  <2>3. requestID'[c] = requestID[c]
    BY <2>1 DEF PacketInv, IsCurrentAction, Packets, NamesKept
  <2>4. QED  BY <2>2, <2>3 DEF PacketInv, IsCurrentAction
<1>4. QED  BY <1>2, <1>3 DEF PacketInv

LEMMA AnswerPreserves ==
  ASSUME TypeOK, AskedInv, PacketInv, NEW c \in Calls, DeviceAnswers(c)
  PROVE  SequenceTypeOK' /\ DeviceTypeOK' /\ AskedInv' /\ PacketInv'
<1>1. PICK v \in Verdicts : /\ inQueue' = inQueue \o Response(c, v)
                            /\ verdict' = [verdict EXCEPT ![c] = v]
  BY DEF DeviceAnswers
<1>2. /\ c \in asked /\ asked' = asked \ {c}
      /\ UNCHANGED <<deviceVars, pc, aborted, callVars, timer, outcome>>
  BY DEF DeviceAnswers
<1>3. requestID[c] # NoID /\ verdict[c] = NoOutcome
  BY <1>2, TypeOKParts DEF AskedInv
<1>4. /\ Response(c, v) \in Seq(Packets)
      /\ \A i \in 1 .. Len(Response(c, v)) : Stamped(Response(c, v)[i], requestID', verdict')
  <2>1. ControlTypeOK /\ requestID' = requestID /\ verdict'[c] = v
    BY <1>1, <1>2, TypeOKParts DEF callVars, DeviceTypeOK
  <2>2. /\ Response(c, v) \in Seq(Packets) /\ Len(Response(c, v)) = RespPackets[c]
        /\ \A i \in 1 .. RespPackets[c] : Response(c, v)[i] = ResponsePacket(c, v, i)
    BY <1>3, <2>1, ResponseType
  <2>3. \A i \in 1 .. RespPackets[c] : Stamped(ResponsePacket(c, v, i), requestID', verdict')
    BY <2>1 DEF Stamped, ResponsePacket
  <2>4. QED  BY <2>2, <2>3
<1>5. NamesKept
  BY <1>1, <1>2, <1>3, TypeOKParts DEF NamesKept, callVars, DeviceTypeOK
<1>6. SequenceTypeOK'
  BY <1>1, <1>2, <1>4, TypeOKParts, ConcatProperties DEF SequenceTypeOK, callVars
<1>7. DeviceTypeOK' /\ AskedInv'
  BY <1>1, <1>2, <1>3, TypeOKParts
  DEF DeviceTypeOK, AskedInv, callVars, deviceVars, Verdicts
<1>8. ASSUME NEW i \in 1 .. Len(inQueue')
      PROVE  Stamped(inQueue'[i], requestID', verdict')
  <2>1. /\ Len(inQueue) \in Nat /\ Len(Response(c, v)) \in Nat
        /\ Len(inQueue') = Len(inQueue) + Len(Response(c, v))
        /\ inQueue'[i] = IF i <= Len(inQueue) THEN inQueue[i]
                                             ELSE Response(c, v)[i - Len(inQueue)]
    BY <1>1, <1>4, TypeOKParts, ConcatProperties, LenProperties DEF SequenceTypeOK
  <2>2. CASE i <= Len(inQueue)
    <3>1. i \in 1 .. Len(inQueue)
      BY <2>1, <2>2
    <3>2. QED  BY <2>1, <2>2, <3>1, <1>5, TypeOKParts, ElementOfSeq, StampKept
      DEF SequenceTypeOK, PacketInv
  <2>3. CASE i > Len(inQueue)
    <3>1. i - Len(inQueue) \in 1 .. Len(Response(c, v))
      BY <2>1, <2>3
    <3>2. QED  BY <2>1, <2>3, <3>1, <1>4
  <2>4. QED  BY <2>1, <2>2, <2>3
<1>9. PacketInv'
  <2>1. \A d \in Calls : \A i \in 1 .. Len(buffer[d]) :
          Stamped(buffer[d][i], requestID', verdict')
    BY <1>5, TypeOKParts, ElementOfSeq, StampKept DEF SequenceTypeOK, PacketInv
  <2>2. QED  BY <1>2, <1>8, <2>1 DEF PacketInv, IsCurrentAction, callVars
<1>10. QED  BY <1>6, <1>7, <1>9

\* What every other step but PacketSent and PacketReceived does at most: it drops the
\* oldest packets of the queue, forgets requests, and draws a request ID.
Draws(c) ==
  /\ requestID[c] = NoID
  /\ \E id \in RequestIDs : requestID' = [requestID EXCEPT ![c] = id]
  /\ left' = [left EXCEPT ![c] = ReqPackets[c]]

Quiet ==
  /\ UNCHANGED <<buffer, verdict>>
  /\ asked' \in SUBSET asked
  /\ \E k \in 1 .. Len(inQueue) + 1 : inQueue' = SubSeq(inQueue, k, Len(inQueue))
  /\ UNCHANGED <<requestID, left>> \/ \E c \in Calls : Draws(c)

\* What is left of a queue when its oldest elements are dropped.
LEMMA SuffixOf ==
  ASSUME NEW S, NEW s \in Seq(S), NEW k \in 1 .. Len(s) + 1
  PROVE  /\ SubSeq(s, k, Len(s)) \in Seq(S)
         /\ Len(SubSeq(s, k, Len(s))) = Len(s) - k + 1
         /\ \A i \in 1 .. Len(s) - k + 1 :
              k + i - 1 \in 1 .. Len(s) /\ SubSeq(s, k, Len(s))[i] = s[k + i - 1]
<1>1. Len(s) \in Nat /\ k \in Int
  BY LenProperties
<1>2. \A i \in k .. Len(s) : s[i] \in S
  BY <1>1, ElementOfSeq
<1>3. QED  BY <1>1, <1>2, SubSeqProperties

LEMMA WholeIsSuffix ==
  ASSUME NEW S, NEW s \in Seq(S)
  PROVE  \E k \in 1 .. Len(s) + 1 : s = SubSeq(s, k, Len(s))
BY SubSeqFull, LenProperties

LEMMA QuietPreserves ==
  ASSUME TypeOK, AskedInv, PacketInv, Quiet
  PROVE  SequenceTypeOK' /\ AskedInv' /\ PacketInv'
<1>1. PICK k \in 1 .. Len(inQueue) + 1 : inQueue' = SubSeq(inQueue, k, Len(inQueue))
  BY DEF Quiet
<1>2. inQueue \in Seq(Packets) /\ Len(inQueue) \in Nat
  BY TypeOKParts, LenProperties DEF SequenceTypeOK
<1>3. /\ inQueue' \in Seq(Packets)
      /\ \A i \in 1 .. Len(inQueue') : \E j \in 1 .. Len(inQueue) : inQueue'[i] = inQueue[j]
  BY <1>1, <1>2, SuffixOf
<1>4. NamesKept
  BY TypeOKParts DEF Quiet, Draws, NamesKept, ControlTypeOK
<1>5. AskedInv'
  BY TypeOKParts DEF Quiet, Draws, AskedInv, ControlTypeOK, DeviceTypeOK
<1>6. QED  BY <1>3, <1>4, <1>5, TypeOKParts, PacketsKept DEF Quiet, SequenceTypeOK

LEMMA OpenOrCloseIsQuiet ==
  ASSUME TypeOK, PhaseInv, NEW t \in Threads, OpenOrClose(t)
  PROVE  Quiet /\ DeviceTypeOK'
<1>1. /\ DeviceTypeOK /\ inQueue \in Seq(Packets)
      /\ \E k \in 1 .. Len(inQueue) + 1 : inQueue = SubSeq(inQueue, k, Len(inQueue))
  BY TypeOKParts, WholeIsSuffix DEF SequenceTypeOK
<1>2. CASE UNCHANGED <<endpointVars, callVars, verdict>>
  <2>1. Quiet
    BY <1>1, <1>2 DEF Quiet, endpointVars, callVars
  <2>2. /\ plugged' \in BOOLEAN /\ opened' \in BOOLEAN
        /\ claimed' \in BOOLEAN /\ configured' \in BOOLEAN
        /\ aborted' \subseteq Threads
    BY <1>1 DEF DeviceTypeOK, OpenOrClose, DeviceOpens, ConfigurationSelected,
      DeviceOpenFails, DeviceResets, ResetFails, InterfaceClaimed, ClaimFails,
      InterfaceReleased, ReleaseFails, DeviceCloses, CloseFails, AbortTransfers, deviceVars
  <2>3. QED  BY <1>1, <1>2, <2>1, <2>2 DEF DeviceTypeOK, endpointVars, callVars
<1>3. CASE DeviceResets(t)
  BY <1>1, <1>3 DEF DeviceResets, ResetEndpoints, AbortTransfers, Quiet, DeviceTypeOK,
    deviceVars, callVars
<1>4. CASE InterfaceClaimed(t) /\ IsSender(t) /\ ~UNCHANGED callVars
  <2>1. Draws(CallOf(t)) /\ UNCHANGED <<buffer, plugged, opened, configured>>
        /\ UNCHANGED <<endpointVars, aborted, verdict>> /\ claimed'
    BY <1>4, ThreadFacts
    DEF InterfaceClaimed, BeginRequest, Draws, PhaseInv, CallPhase, OpenPC
  <2>2. Quiet
    BY <1>1, <2>1, ThreadFacts DEF Quiet, endpointVars
  <2>3. QED  BY <1>1, <2>1, <2>2, ThreadFacts DEF DeviceTypeOK, Draws, endpointVars
<1>5. QED
  BY <1>2, <1>3, <1>4 DEF OpenOrClose, DeviceOpens, ConfigurationSelected,
      DeviceOpenFails, DeviceResets, ResetFails, InterfaceClaimed, ClaimFails,
      InterfaceReleased, ReleaseFails, DeviceCloses, CloseFails

LEMMA PacketSentPreserves ==
  ASSUME TypeOK, PhaseInv, AskedInv, PacketInv, NEW c \in Calls, PacketSent(c)
  PROVE  SequenceTypeOK' /\ DeviceTypeOK' /\ AskedInv' /\ PacketInv'
<1>1. /\ left[c] > 0 /\ left' = [left EXCEPT ![c] = @ - 1]
      /\ aborted' = aborted \ {Request(c)}
      /\ asked' = (IF left[c] = 1 THEN asked \cup {c} ELSE asked)
      /\ UNCHANGED <<deviceVars, inQueue, requestID, buffer, verdict>>
  BY DEF PacketSent
<1>2. requestID[c] # NoID
  BY <1>1 DEF AskedInv
<1>3. DeviceTypeOK' /\ AskedInv'
  BY <1>1, <1>2, TypeOKParts DEF DeviceTypeOK, deviceVars, AskedInv
<1>4. NamesKept /\ PacketInv'
  BY <1>1, PacketsKept DEF NamesKept
<1>5. QED  BY <1>1, <1>3, <1>4, TypeOKParts DEF SequenceTypeOK

LEMMA PacketReceivedPreserves ==
  ASSUME TypeOK, AskedInv, PacketInv, NEW c \in Calls, PacketReceived(c)
  PROVE  SequenceTypeOK' /\ DeviceTypeOK' /\ AskedInv' /\ PacketInv'
<1>1. /\ inQueue # <<>> /\ IsCurrentAction(c, Head(inQueue))
      /\ inQueue' = Tail(inQueue)
      /\ buffer' = [buffer EXCEPT ![c] = Append(@, Head(inQueue))]
      /\ UNCHANGED <<deviceVars, asked, aborted, requestID, left, verdict>>
  BY DEF PacketReceived
<1>2. /\ inQueue \in Seq(Packets) /\ buffer[c] \in Seq(Packets)
      /\ Len(inQueue) \in Nat /\ Len(buffer[c]) \in Nat
  BY TypeOKParts, LenProperties DEF SequenceTypeOK
<1>3. /\ Head(inQueue) \in Packets /\ Tail(inQueue) \in Seq(Packets)
      /\ Head(inQueue) = inQueue[1] /\ 1 \in 1 .. Len(inQueue)
      /\ Len(Tail(inQueue)) = Len(inQueue) - 1
      /\ \A i \in 1 .. Len(inQueue) - 1 : Tail(inQueue)[i] = inQueue[i + 1]
  BY <1>1, <1>2, HeadTailProperties, EmptySeq
<1>4. /\ buffer'[c] \in Seq(Packets)
      /\ Len(buffer'[c]) = Len(buffer[c]) + 1
      /\ \A i \in 1 .. Len(buffer[c]) : buffer'[c][i] = buffer[c][i]
      /\ buffer'[c][Len(buffer[c]) + 1] = Head(inQueue)
  BY <1>1, <1>2, <1>3, TypeOKParts, AppendProperties DEF SequenceTypeOK
<1>5. SequenceTypeOK' /\ DeviceTypeOK' /\ AskedInv'
  BY <1>1, <1>3, <1>4, TypeOKParts DEF SequenceTypeOK, DeviceTypeOK, AskedInv, deviceVars
<1>6. \A i \in 1 .. Len(inQueue') : Stamped(inQueue'[i], requestID', verdict')
  BY <1>1, <1>2, <1>3 DEF PacketInv
<1>7. ASSUME NEW d \in Calls, NEW i \in 1 .. Len(buffer'[d])
      PROVE  /\ Stamped(buffer'[d][i], requestID', verdict')
             /\ IsCurrentAction(d, buffer[d][i])'
  <2>1. CASE d # c
    BY <1>1, <2>1, TypeOKParts DEF PacketInv, SequenceTypeOK, IsCurrentAction
  <2>2. CASE d = c /\ i = Len(buffer[c]) + 1
    BY <1>1, <1>3, <1>4, <2>2 DEF PacketInv, IsCurrentAction
  <2>3. CASE d = c /\ i # Len(buffer[c]) + 1
    <3>1. i \in 1 .. Len(buffer[c])
      BY <1>2, <1>4, <2>3
    <3>2. QED  BY <1>1, <1>4, <2>3, <3>1 DEF PacketInv, IsCurrentAction
  <2>4. QED  BY <2>1, <2>2, <2>3
<1>8. QED  BY <1>5, <1>6, <1>7 DEF PacketInv

\* The steps of the request threads, the timers and the bus that add no packet.
LEMMA OtherIsQuiet ==
  ASSUME TypeOK,
         \/ Unplug
         \/ \E c \in Calls :
              \/ Start(c) \/ TimeoutFires(c) \/ TransferOutFails(c)
              \/ TransferRefused(c) \/ OtherPacketReceived(c) \/ TransferInFails(c)
  PROVE  Quiet /\ DeviceTypeOK'
<1>1. /\ DeviceTypeOK /\ inQueue \in Seq(Packets) /\ Len(inQueue) \in Nat
      /\ \E k \in 1 .. Len(inQueue) + 1 : inQueue = SubSeq(inQueue, k, Len(inQueue))
  BY TypeOKParts, WholeIsSuffix, LenProperties DEF SequenceTypeOK
<1>2. CASE Unplug
  <2>1. <<>> = SubSeq(inQueue, Len(inQueue) + 1, Len(inQueue))
    BY <1>1, SubSeqEmpty
  <2>2. Quiet
    BY <1>1, <1>2, <2>1 DEF Unplug, Quiet, callVars
  <2>3. DeviceTypeOK'
    BY <1>1, <1>2 DEF Unplug, DeviceTypeOK, AbortTransfers, callVars
  <2>4. QED  BY <2>2, <2>3
<1>3. ASSUME NEW c \in Calls, OtherPacketReceived(c)
      PROVE  Quiet /\ DeviceTypeOK'
  <2>1. /\ UNCHANGED <<deviceVars, asked, aborted, callVars, verdict>>
        /\ \/ inQueue # <<>> /\ inQueue' = Tail(inQueue)
           \/ inQueue' = inQueue
    BY <1>3 DEF OtherPacketReceived
  <2>2. inQueue # <<>> => /\ 2 \in 1 .. Len(inQueue) + 1
                          /\ Tail(inQueue) = SubSeq(inQueue, 2, Len(inQueue))
    BY <1>1, TailIsSubSeq, EmptySeq
  <2>3. QED  BY <1>1, <2>1, <2>2 DEF Quiet, DeviceTypeOK, deviceVars, callVars
<1>4. ASSUME NEW c \in Calls,
             \/ Start(c) \/ TimeoutFires(c) \/ TransferOutFails(c)
             \/ TransferRefused(c) \/ TransferInFails(c)
      PROVE  Quiet /\ DeviceTypeOK'
  <2>1. UNCHANGED <<deviceVars, endpointVars, callVars, verdict>>
    BY <1>4 DEF Start, TimeoutFires, TransferOutFails, TransferRefused, TransferInFails
  <2>2. aborted' \subseteq Threads
    <3>1. aborted' \in {aborted, aborted \ {Request(c)}}
      BY <1>4 DEF Start, TimeoutFires, TransferOutFails, TransferRefused, TransferInFails
    <3>2. QED  BY <1>1, <3>1 DEF DeviceTypeOK
  <2>3. Quiet
    BY <1>1, <2>1 DEF Quiet, endpointVars, callVars
  <2>4. QED  BY <1>1, <2>1, <2>2, <2>3 DEF DeviceTypeOK, deviceVars, endpointVars, callVars
<1>5. QED  BY <1>2, <1>3, <1>4

\* The phases under the steps that transfer packets, and under the timeout.
LEMMA PhaseTransfer ==
  ASSUME TypeOK, PhaseInv, SequenceTypeOK', NEW c \in Calls, Transfer(c)
  PROVE  ControlTypeOK' /\ PhaseInv'
<1> USE TypeOKParts
<1>1. CASE PacketSent(c)
  <2>1. pc[Request(c)] = "out" /\ UNCHANGED requestID
    BY <1>1 DEF PacketSent
  <2>2. CASE left[c] = 1 /\ ~opened
    BY <1>1, <2>1, <2>2, PhaseRequestSettles DEF PacketSent, BeginReceive, Outcomes
  <2>3. CASE left[c] # 1 \/ opened
    BY <1>1, <2>1, <2>3, PhaseTransferGoesOn DEF PacketSent, BeginReceive, StartTransfer
  <2>4. QED  BY <2>2, <2>3
<1>2. CASE TransferOutFails(c) \/ TransferRefused(c) \/ TransferInFails(c)
  BY <1>2, PhaseRequestSettles
  DEF TransferOutFails, TransferRefused, TransferInFails, callVars, Outcomes
<1>3. CASE OtherPacketReceived(c)
  BY <1>3, PhaseTransferGoesOn DEF OtherPacketReceived, TransferInReady, callVars
<1>4. CASE PacketReceived(c)
  <2>1. pc[Request(c)] = "in" /\ UNCHANGED requestID
    BY <1>4 DEF PacketReceived, TransferInReady
  <2>2. CASE UNCHANGED <<pc, timer, outcome>>
    BY <2>1, <2>2, PhaseTransferGoesOn
  <2>3. CASE \E i \in DOMAIN buffer'[c] : RequestSettles(c, buffer'[c][i].status)
    <3>1. PICK i \in DOMAIN buffer'[c] : RequestSettles(c, buffer'[c][i].status)
      BY <2>3
    <3>2. buffer'[c][i] \in Packets
      BY LenProperties, ElementOfSeq DEF SequenceTypeOK
    <3>3. buffer'[c][i].status \in Outcomes
      BY <3>2 DEF Packets, Verdicts, Outcomes
    <3>4. QED  BY <2>1, <3>1, <3>3, PhaseRequestSettles
  <2>4. QED  BY <1>4, <2>2, <2>3 DEF PacketReceived
<1>5. QED  BY <1>1, <1>2, <1>3, <1>4 DEF Transfer

LEMMA PhaseTimeout ==
  ASSUME ControlTypeOK, PhaseInv, NEW c \in Calls, TimeoutFires(c)
  PROVE  ControlTypeOK' /\ PhaseInv'
BY ThreadFacts DEF ControlTypeOK, PhaseInv, CallPhase, SenderPC, RequestPC, OpenPC, ClosePC,
  NoOutcome, Outcomes, TimeoutFires, GoTo, callVars

LEMMA PhaseStutters ==
  ASSUME ControlTypeOK, PhaseInv, UNCHANGED <<pc, timer, outcome, requestID>>
  PROVE  ControlTypeOK' /\ PhaseInv'
BY DEF ControlTypeOK, PhaseInv, CallPhase

-----------------------------------------------------------------------------
(***************************************************************************)
(* The inductive invariant.                                                *)
(***************************************************************************)
Inductive == TypeOK /\ PhaseInv /\ AskedInv /\ PacketInv

LEMMA InductiveInit == Init => Inductive
BY ControlInit, PacketInit, TypeOKParts DEF Inductive

LEMMA InductiveStep == Inductive /\ [Next]_vars => Inductive'
<1> SUFFICES ASSUME Inductive, [Next]_vars PROVE Inductive'
  OBVIOUS
<1> USE TypeOKParts DEF Inductive
<1>0. TypeOK' <=> ControlTypeOK' /\ SequenceTypeOK' /\ DeviceTypeOK'
  BY DEF TypeOK, ControlTypeOK, SequenceTypeOK, DeviceTypeOK
<1>1. CASE Unplug
  BY <1>0, <1>1, OtherIsQuiet, QuietPreserves, PhaseStutters DEF Unplug, callVars
<1>2. ASSUME NEW t \in Threads, OpenOrClose(t) PROVE Inductive'
  BY <1>0, <1>2, OpenOrCloseIsQuiet, QuietPreserves, PhaseOpenOrClose
<1>3. ASSUME NEW c \in Calls, Start(c) \/ TimeoutFires(c) PROVE Inductive'
  BY <1>0, <1>3, OtherIsQuiet, QuietPreserves, PhaseStart, PhaseTimeout
<1>4. ASSUME NEW c \in Calls, Transfer(c) PROVE Inductive'
  <2>1. SequenceTypeOK' /\ DeviceTypeOK' /\ AskedInv' /\ PacketInv'
    BY <1>4, OtherIsQuiet, QuietPreserves, PacketSentPreserves, PacketReceivedPreserves
    DEF Transfer
  <2>2. QED  BY <1>0, <1>4, <2>1, PhaseTransfer
<1>5. ASSUME NEW c \in Calls, DeviceAnswers(c) PROVE Inductive'
  BY <1>0, <1>5, AnswerPreserves, PhaseStutters DEF DeviceAnswers, callVars
<1>6. CASE UNCHANGED vars
  BY <1>0, <1>6, PhaseStutters
  DEF vars, deviceVars, endpointVars, callVars, SequenceTypeOK, DeviceTypeOK, AskedInv,
    PacketInv, IsCurrentAction
<1>7. QED  BY <1>1, <1>2, <1>3, <1>4, <1>5, <1>6 DEF Next

\* Every variable of the transport keeps its type.
THEOREM TypeCorrect == Spec => []TypeOK
<1>1. Spec => []Inductive
  BY InductiveInit, InductiveStep, PTL DEF Spec
<1>2. Inductive => TypeOK
  BY DEF Inductive
<1>3. QED  BY <1>1, <1>2, PTL

\* A call that waits in the race has an armed timeout and a request under way: no
\* fault, unplug or other call can leave it waiting for a promise that has settled.
THEOREM WaitsAreTimed == Spec => []RaceIsTimed
<1>1. Spec => []Inductive
  BY InductiveInit, InductiveStep, PTL DEF Spec
<1>2. Inductive => RaceIsTimed
  BY DEF Inductive, PhaseInv, CallPhase, RaceIsTimed
<1>3. QED  BY <1>1, <1>2, PTL

\* A request outlives its call only when the timeout has fired.
THEOREM RequestsEndWithTheirCalls == Spec => []OutlivesOnlyTimeout
<1>1. Spec => []Inductive
  BY InductiveInit, InductiveStep, PTL DEF Spec
<1>2. Inductive => OutlivesOnlyTimeout
  BY DEF Inductive, PhaseInv, CallPhase, OutlivesOnlyTimeout
<1>3. QED  BY <1>1, <1>2, PTL

-----------------------------------------------------------------------------
(***************************************************************************)
(* The device is closed at rest.  The only steps that let a call return    *)
(* are the last of its close(); and close() gives up on an open device     *)
(* only when another thread has the device under way, a thread whose own   *)
(* call has not returned, unless it has timed out.                         *)
(***************************************************************************)
Busy(c) == pc[Sender(c)] \notin {"idle", "done"}

\* How a thread that is neither idle nor done in a call goes on.
LEMMA BusyUntilClosed ==
  ASSUME Inductive, NEW c \in Calls, Busy(c), NEW t \in Threads, OpenOrClose(t), ~Busy(c)'
  PROVE  /\ t = Sender(c) /\ pc' = [pc EXCEPT ![t] = "done"]
         /\ ReleaseFails(t) \/ DeviceCloses(t) \/ CloseFails(t)
<1> USE ThreadFacts, TypeOKParts DEF Inductive, ControlTypeOK, Busy
<1>1. /\ \A next \in OpenPC \cup ClosePC \cup {"in"} : ~GoTo(t, next)
      /\ \A o \in Outcomes : ~SenderFails(CallOf(t), o) /\ ~RequestSettles(CallOf(t), o)
  BY DEF GoTo, SenderFails, RequestSettles, OpenPC, ClosePC
<1>2. ~OpenRejects(t)
  BY <1>1 DEF OpenRejects, Outcomes
<1>3. ~(DeviceOpens(t) \/ ConfigurationSelected(t) \/ DeviceOpenFails(t) \/ ClaimFails(t))
  BY <1>1, <1>2 DEF DeviceOpens, ConfigurationSelected, DeviceOpenFails, ClaimFails,
    OpenPC, ClosePC
<1>4. ~(DeviceResets(t) \/ ResetFails(t) \/ InterfaceReleased(t))
  BY <1>1 DEF DeviceResets, ResetFails, InterfaceReleased, AfterReset, AfterRelease,
    OpenPC, ClosePC
<1>5. ~InterfaceClaimed(t)
  <2>1. ~BeginRequest(CallOf(t))
    BY <1>1 DEF BeginRequest, SenderFails, GoTo, Outcomes
  <2>2. QED  BY <1>1, <2>1 DEF InterfaceClaimed
<1>6. ReleaseFails(t) \/ DeviceCloses(t) \/ CloseFails(t)
  BY <1>3, <1>4, <1>5 DEF OpenOrClose
<1>7. pc' = [pc EXCEPT ![t] = "done"]
  BY <1>2, <1>6 DEF ReleaseFails, DeviceCloses, CloseFails, CloseReturns, GoTo
<1>8. QED  BY <1>6, <1>7

\* A timeout that has fired, or has been cleared, stays as it is.
LEMMA TimerEnds ==
  ASSUME Inductive, [Next]_vars, NEW c \in Calls, timer[c] \in {"cleared", "fired"}
  PROVE  timer'[c] = timer[c]
<1> USE TypeOKParts DEF Inductive, ControlTypeOK
<1>1. ASSUME NEW d \in Calls, NEW o, RequestSettles(d, o) PROVE timer'[c] = timer[c]
  BY <1>1 DEF RequestSettles
<1>2. ASSUME NEW t \in Threads, OpenOrClose(t) PROVE timer'[c] = timer[c]
  <2>1. CASE InterfaceClaimed(t) /\ IsSender(t)
    BY <2>1, ThreadFacts
    DEF InterfaceClaimed, BeginRequest, SenderFails, PhaseInv, CallPhase, OpenPC
  <2>2. OpenRejects(t) => timer'[c] = timer[c]
    BY <1>1, ThreadFacts DEF OpenRejects, SenderFails
  <2>3. QED
    BY <1>2, <2>1, <2>2 DEF OpenOrClose, DeviceOpens, ConfigurationSelected, DeviceOpenFails,
      DeviceResets, ResetFails, InterfaceClaimed, ClaimFails, InterfaceReleased,
      ReleaseFails, DeviceCloses, CloseFails, CloseReturns
<1>3. ASSUME NEW d \in Calls, Transfer(d) PROVE timer'[c] = timer[c]
  BY <1>1, <1>3 DEF Transfer, PacketSent, BeginReceive, TransferOutFails, TransferRefused,
    PacketReceived, OtherPacketReceived, TransferInFails
<1>4. QED
  BY <1>2, <1>3 DEF Next, vars, Start, TimeoutFires, DeviceAnswers, Unplug

LEMMA ClosedAtRestStep == Inductive /\ ClosedAtRest /\ [Next]_vars => ClosedAtRest'
<1> SUFFICES ASSUME Inductive, ClosedAtRest, [Next]_vars,
                    AllCallsReturned', NoTimeout', {"release", "close"} \cap Faults = {}
             PROVE  ~opened'
  BY DEF ClosedAtRest
<1> USE ThreadFacts, TypeOKParts
<1>1. NoTimeout
  BY TimerEnds DEF NoTimeout
<1>2. ASSUME NEW t \in Threads, pc[t] \notin {"idle", "done"}
      PROVE  Busy(CallOf(t)) /\ (~IsSender(t) => pc[Sender(CallOf(t))] = "race")
  BY <1>1, <1>2 DEF Busy, NoTimeout, Inductive, PhaseInv, CallPhase
<1>3. \A c \in Calls : ~Busy(c)'
  BY DEF AllCallsReturned, Busy
<1>4. ASSUME NEW t \in Threads, OpenOrClose(t) PROVE ~opened'
  <2>1. pc[t] \notin {"idle", "done"}
    BY <1>4 DEF OpenOrClose, DeviceOpens, ConfigurationSelected, DeviceOpenFails,
      DeviceResets, ResetFails, InterfaceClaimed, ClaimFails, InterfaceReleased,
      ReleaseFails, DeviceCloses, CloseFails
  <2>2. /\ t = Sender(CallOf(t)) /\ pc' = [pc EXCEPT ![t] = "done"]
        /\ ReleaseFails(t) \/ DeviceCloses(t) \/ CloseFails(t)
    BY <1>2, <1>3, <1>4, <2>1, BusyUntilClosed
  <2>3. ~Contended(t)
    <3>1. SUFFICES ASSUME NEW u \in Threads \ {t}, pc[u] \in OpenPC \cup ClosePC
                   PROVE  FALSE
      BY DEF Contended
    <3>2. /\ Busy(CallOf(u))
          /\ ~IsSender(u) => pc[Sender(CallOf(u))] = "race"
      BY <1>2, <3>1 DEF OpenPC, ClosePC
    <3>3. Sender(CallOf(u)) # t
      BY <2>2, <3>1, <3>2 DEF ReleaseFails, DeviceCloses, CloseFails
    <3>4. Busy(CallOf(u))'
      BY <2>2, <3>2, <3>3 DEF Busy, Inductive, ControlTypeOK
    <3>5. QED  BY <1>3, <3>4
  <2>4. QED
    BY <2>2, <2>3 DEF ReleaseFails, DeviceCloses, CloseFails, MayReject, MayFail, deviceVars
<1>5. ASSUME NEW c \in Calls, Transfer(c) \/ TimeoutFires(c) PROVE ~opened'
  <2>1. pc[Sender(c)] = "race"
    BY <1>1, <1>5, <1>2 DEF Transfer, PacketSent, TransferOutFails, TransferRefused,
      PacketReceived, OtherPacketReceived, TransferInFails, TransferInReady,
      TimeoutFires, Inductive, PhaseInv, CallPhase
  <2>2. pc'[Sender(c)] \in {"race", "fRelease"}
    BY <1>5, <2>1 DEF Transfer, PacketSent, BeginReceive, StartTransfer, TransferOutFails,
      TransferRefused, PacketReceived, OtherPacketReceived, TransferInFails,
      TimeoutFires, RequestSettles, GoTo, Inductive, ControlTypeOK
  <2>3. QED  BY <1>3, <2>2 DEF Busy
<1>6. ASSUME NEW c \in Calls, Start(c) PROVE ~opened'
  BY <1>3, <1>6 DEF Start, GoTo, Busy, Inductive, ControlTypeOK
<1>7. CASE (\E c \in Calls : DeviceAnswers(c)) \/ UNCHANGED vars
  BY <1>1, <1>7 DEF DeviceAnswers, vars, deviceVars, ClosedAtRest, AllCallsReturned
<1>8. QED  BY <1>4, <1>5, <1>6, <1>7 DEF Next, Unplug

\* The device is closed whenever no call is under way, if none has timed out and closing
\* never fails by itself: calls that share the device cannot leave it open.
THEOREM RestIsClosed == Spec => []ClosedAtRest
<1>1. Init => ClosedAtRest
  BY DEF Init, ClosedAtRest
<1>2. QED
  BY <1>1, InductiveInit, InductiveStep, ClosedAtRestStep, PTL DEF Spec

-----------------------------------------------------------------------------
(***************************************************************************)
(* A call settles once.                                                    *)
(***************************************************************************)
LEMMA SettledStays ==
  ASSUME Inductive, [Next]_vars, NEW c \in Calls, outcome[c] # NoOutcome
  PROVE  outcome'[c] = outcome[c]
<1> USE ThreadFacts, TypeOKParts DEF Inductive, ControlTypeOK
<1>1. pc[Sender(c)] \notin {"idle", "race"} \cup OpenPC /\ timer[c] # "armed"
  BY DEF PhaseInv, CallPhase
<1>2. ASSUME NEW d \in Calls, NEW o, RequestSettles(d, o) PROVE outcome'[c] = outcome[c]
  BY <1>1, <1>2 DEF RequestSettles
<1>3. ASSUME NEW t \in Threads, pc[t] \in OpenPC, OpenRejects(t)
      PROVE  outcome'[c] = outcome[c]
  BY <1>1, <1>2, <1>3 DEF OpenRejects, SenderFails
<1>4. ASSUME NEW t \in Threads, OpenOrClose(t) PROVE outcome'[c] = outcome[c]
  <2>1. CASE InterfaceClaimed(t)
    BY <1>1, <2>1 DEF InterfaceClaimed, BeginRequest, SenderFails, OpenPC
  <2>2. CASE ReleaseFails(t) \/ DeviceCloses(t) \/ CloseFails(t)
    BY <1>3, <2>2 DEF ReleaseFails, DeviceCloses, CloseFails, CloseReturns, OpenPC, ClosePC
  <2>3. CASE DeviceOpenFails(t)
    BY <1>3, <2>3 DEF DeviceOpenFails, OpenPC
  <2>4. QED
    BY <1>4, <2>1, <2>2, <2>3 DEF OpenOrClose, DeviceOpens, ConfigurationSelected,
      DeviceResets, ResetFails, ClaimFails, InterfaceReleased
<1>5. ASSUME NEW d \in Calls, Transfer(d) \/ TimeoutFires(d)
      PROVE  outcome'[c] = outcome[c]
  BY <1>1, <1>2, <1>5 DEF Transfer, PacketSent, BeginReceive, TransferOutFails,
    TransferRefused, PacketReceived, OtherPacketReceived, TransferInFails, TimeoutFires
<1>6. QED
  BY <1>4, <1>5 DEF Next, vars, Start, DeviceAnswers, Unplug

\* The first outcome of a call stands: what its request does after the race was lost
\* never reaches the caller.
THEOREM SettlesOnce == Spec => SettledOnce
<1>1. Inductive /\ [Next]_vars =>
        [\A c \in Calls : outcome[c] # NoOutcome => outcome'[c] = outcome[c]]_vars
  BY SettledStays
<1>2. QED
  BY <1>1, InductiveInit, InductiveStep, PTL DEF Spec, SettledOnce

-----------------------------------------------------------------------------
(***************************************************************************)
(* UsbTransport implements RequestResponse.  What a step of the transport  *)
(* must do to be a step of the promise, one lemma for each abstract        *)
(* action.                                                                 *)
(***************************************************************************)
\* The senders other than c's start no call.
OthersWait(c) ==
  \A d \in Calls \ {c} : pc'[Sender(d)] = "idle" <=> pc[Sender(d)] = "idle"

LEMMA StutterStep ==
  ASSUME UNCHANGED <<requestID, outcome, verdict>>,
         \A c \in Calls : pc'[Sender(c)] = "idle" <=> pc[Sender(c)] = "idle"
  PROVE  UNCHANGED Promise!vars
BY DEF Promise!vars

LEMMA IssueStep ==
  ASSUME Inductive, NEW c \in Calls, pc[Sender(c)] = "idle", pc'[Sender(c)] # "idle",
         OthersWait(c), UNCHANGED <<requestID, outcome, verdict>>
  PROVE  Promise!Issue(c)
<1>1. outcome[c] = NoOutcome
  BY DEF Inductive, PhaseInv, CallPhase
<1>2. QED  BY <1>1 DEF Promise!Issue, OthersWait

LEMMA NameStep ==
  ASSUME Inductive, NEW c \in Calls, pc[Sender(c)] \in OpenPC, pc'[Sender(c)] = "race",
         OthersWait(c), NEW id \in RequestIDs, requestID' = [requestID EXCEPT ![c] = id],
         UNCHANGED <<outcome, verdict>>
  PROVE  Promise!Name(c)
<1>1. outcome[c] = NoOutcome /\ requestID[c] = NoID /\ requestID \in [Calls -> RequestIDs \cup {NoID}]
  BY TypeOKParts DEF Inductive, PhaseInv, CallPhase, ControlTypeOK
<1>2. pc[Sender(c)] # "idle"
  BY DEF OpenPC
<1> DEFINE NameOf(ids, d) == IF ids[d] = NoID THEN {} ELSE {<<ActionOf[d], ids[d]>>}
           ActionNames == {ActionOf[d] : d \in Calls}
<1>3. [d \in Calls |-> NameOf(requestID', d)] =
        [[d \in Calls |-> NameOf(requestID, d)] EXCEPT ![c] = {<<ActionOf[c], id>>}]
  BY <1>1
<1>4. <<ActionOf[c], id>> \in ActionNames \X RequestIDs
  OBVIOUS
<1>5. UNCHANGED [d \in Calls |-> IF outcome[d] # NoOutcome THEN "settled"
                                 ELSE IF pc[Sender(d)] = "idle" THEN "idle" ELSE "pending"]
  BY <1>1, <1>2 DEF OthersWait
<1>6. QED
  BY <1>1, <1>2, <1>3, <1>4, <1>5 DEF Promise!Name

LEMMA SettleStep ==
  ASSUME Inductive, NEW c \in Calls, pc[Sender(c)] \in {"race"} \cup OpenPC,
         OthersWait(c), NEW o, outcome' = [outcome EXCEPT ![c] = o],
         o \in (Outcomes \ Verdicts) \cup (Promise!VerdictsFor(c) \ {NoOutcome}),
         UNCHANGED <<requestID, verdict>>
  PROVE  Promise!Settle(c)
<1>1. outcome[c] = NoOutcome /\ outcome \in [Calls -> Outcomes \cup {NoOutcome}]
  BY TypeOKParts DEF Inductive, PhaseInv, CallPhase, ControlTypeOK
<1>2. pc[Sender(c)] # "idle" /\ o # NoOutcome
  BY DEF OpenPC, Outcomes, NoOutcome
<1>3. QED
  BY <1>1, <1>2 DEF Promise!Settle, OthersWait

LEMMA DecideStep ==
  ASSUME Inductive, NEW c \in Calls, DeviceAnswers(c)
  PROVE  Promise!Decide(c)
<1>1. requestID[c] # NoID /\ verdict[c] = NoOutcome
  BY DEF Inductive, AskedInv, DeviceAnswers
<1>2. QED
  BY <1>1 DEF DeviceAnswers, Promise!Decide, callVars

-----------------------------------------------------------------------------
(***************************************************************************)
(* The steps of the transport.                                             *)
(***************************************************************************)
\* The verdict a call takes from its packets is the device's verdict on a request of
\* the call's own name.
LEMMA AnswerIsAVerdict ==
  ASSUME Inductive, NEW c \in Calls, PacketReceived(c), NEW i \in DOMAIN buffer'[c]
  PROVE  buffer'[c][i].status \in Promise!VerdictsFor(c) \ {NoOutcome}
<1> DEFINE p == buffer'[c][i]
           d == p.of
<1>1. SequenceTypeOK' /\ PacketInv' /\ UNCHANGED <<requestID, verdict>>
  BY PacketReceivedPreserves DEF Inductive, PacketReceived
<1>2. i \in 1 .. Len(buffer'[c]) /\ p \in Packets
  BY <1>1, LenProperties, ElementOfSeq DEF SequenceTypeOK
<1>3. Stamped(p, requestID, verdict) /\ p.ins = ActionOf[c] /\ p.lc = requestID[c]
  BY <1>1, <1>2 DEF PacketInv, IsCurrentAction
<1>4. /\ d \in Calls /\ verdict[d] = p.status /\ p.status \in Verdicts
      /\ ActionOf[d] = ActionOf[c] /\ requestID[d] = requestID[c] /\ requestID[c] # NoID
  BY <1>2, <1>3 DEF Stamped, Packets
<1>5. p.status # NoOutcome
  BY <1>4 DEF Verdicts, NoOutcome
<1> HIDE DEF p, d
<1>6. verdict[d] \in Promise!VerdictsFor(c)
  BY <1>4 DEF Promise!VerdictsFor
<1>7. QED  BY <1>4, <1>5, <1>6 DEF p

LEMMA RequestSettlesRefines ==
  ASSUME Inductive, NEW c \in Calls, NEW o, RequestSettles(c, o),
         o \in (Outcomes \ Verdicts) \cup (Promise!VerdictsFor(c) \ {NoOutcome}),
         UNCHANGED <<requestID, verdict>>
  PROVE  [Promise!Next]_(Promise!vars)
<1> USE ThreadFacts, TypeOKParts DEF Inductive, ControlTypeOK
<1>1. CASE pc[Sender(c)] = "race"
  <2>1. OthersWait(c) /\ outcome' = [outcome EXCEPT ![c] = o]
    BY <1>1 DEF RequestSettles, OthersWait
  <2>2. Promise!Settle(c)
    BY <1>1, <2>1, SettleStep
  <2>3. QED  BY <2>2 DEF Promise!Next
<1>2. CASE pc[Sender(c)] # "race"
  BY <1>2, StutterStep DEF RequestSettles
<1>3. QED  BY <1>1, <1>2

LEMMA SenderFailsRefines ==
  ASSUME Inductive, NEW c \in Calls, pc[Sender(c)] \in OpenPC,
         NEW o \in Outcomes \ Verdicts, SenderFails(c, o), UNCHANGED <<requestID, verdict>>
  PROVE  [Promise!Next]_(Promise!vars)
<1>1. OthersWait(c) /\ outcome' = [outcome EXCEPT ![c] = o]
  BY ThreadFacts, TypeOKParts DEF Inductive, ControlTypeOK, SenderFails, GoTo, OthersWait
<1>2. Promise!Settle(c)
  BY <1>1, SettleStep
<1>3. QED  BY <1>2 DEF Promise!Next

LEMMA OpenRejectsRefines ==
  ASSUME Inductive, NEW t \in Threads, pc[t] \in OpenPC, OpenRejects(t),
         UNCHANGED <<requestID, verdict>>
  PROVE  [Promise!Next]_(Promise!vars)
BY ThreadFacts, RequestSettlesRefines, SenderFailsRefines DEF OpenRejects, Outcomes, Verdicts

\* A thread that is not idle goes to another operation.
LEMMA GoesOnRefines ==
  ASSUME Inductive, NEW t \in Threads, pc[t] # "idle", NEW next, next # "idle",
         GoTo(t, next), UNCHANGED <<requestID, outcome, verdict>>
  PROVE  [Promise!Next]_(Promise!vars)
<1>1. \A c \in Calls : pc'[Sender(c)] = "idle" <=> pc[Sender(c)] = "idle"
  BY ThreadFacts, TypeOKParts DEF Inductive, ControlTypeOK, GoTo
<1>2. QED  BY <1>1, StutterStep

LEMMA OpenOrCloseRefines ==
  ASSUME Inductive, NEW t \in Threads, OpenOrClose(t)
  PROVE  [Promise!Next]_(Promise!vars)
<1>1. CASE DeviceOpens(t) \/ ConfigurationSelected(t) \/ ClaimFails(t)
  BY <1>1, GoesOnRefines DEF DeviceOpens, ConfigurationSelected, ClaimFails, callVars
<1>2. CASE DeviceResets(t) \/ ResetFails(t) \/ InterfaceReleased(t)
  <2>1. AfterReset(pc[t]) # "idle" \/ pc[t] \notin {"reset", "uReset", "fReset"}
    BY DEF AfterReset
  <2>2. AfterRelease(pc[t]) # "idle"
    BY DEF AfterRelease
  <2>3. QED
    BY <1>2, <2>1, <2>2, GoesOnRefines DEF DeviceResets, ResetFails, InterfaceReleased, callVars
<1>3. CASE DeviceOpenFails(t)
  BY <1>3, OpenRejectsRefines DEF DeviceOpenFails, OpenPC, callVars
<1>4. CASE ReleaseFails(t) \/ DeviceCloses(t) \/ CloseFails(t)
  <2>1. CASE pc[t] \in ClosePC
    BY <1>4, <2>1, GoesOnRefines
    DEF ReleaseFails, DeviceCloses, CloseFails, CloseReturns, ClosePC, callVars
  <2>2. CASE pc[t] \notin ClosePC
    BY <1>4, <2>2, OpenRejectsRefines
    DEF ReleaseFails, DeviceCloses, CloseFails, CloseReturns, ClosePC, OpenPC, callVars
  <2>3. QED  BY <2>1, <2>2
<1>5. CASE InterfaceClaimed(t) /\ ~IsSender(t)
  BY <1>5, GoesOnRefines DEF InterfaceClaimed, callVars
<1>6. CASE InterfaceClaimed(t) /\ IsSender(t)
  <2> DEFINE c == CallOf(t)
  <2>1. c \in Calls /\ t = Sender(c) /\ pc[t] = "claim" /\ BeginRequest(c) /\ UNCHANGED verdict
    BY <1>6, ThreadFacts DEF InterfaceClaimed
  <2> HIDE DEF c
  <2>2. CASE \E o \in Outcomes \ Verdicts : SenderFails(c, o) /\ UNCHANGED callVars
    BY <2>1, <2>2, SenderFailsRefines DEF OpenPC, callVars
  <2>3. CASE /\ \E id \in RequestIDs : requestID' = [requestID EXCEPT ![c] = id]
             /\ pc' = [pc EXCEPT ![Sender(c)] = "race", ![Request(c)] = "out"]
             /\ UNCHANGED outcome
    <3>1. OthersWait(c) /\ pc'[Sender(c)] = "race"
      BY <2>1, <2>3, ThreadFacts, TypeOKParts DEF Inductive, ControlTypeOK, OthersWait
    <3>2. Promise!Name(c)
      BY <2>1, <2>3, <3>1, NameStep DEF OpenPC
    <3>3. QED  BY <2>1, <3>2 DEF Promise!Next
  <2>4. QED  BY <2>1, <2>2, <2>3 DEF BeginRequest, Outcomes, Verdicts
<1>7. QED  BY <1>1, <1>2, <1>3, <1>4, <1>5, <1>6 DEF OpenOrClose

LEMMA TransferRefines ==
  ASSUME Inductive, NEW c \in Calls, Transfer(c)
  PROVE  [Promise!Next]_(Promise!vars)
<1> USE ThreadFacts
<1>1. ASSUME NEW o \in Outcomes \ Verdicts, RequestSettles(c, o),
             UNCHANGED <<requestID, verdict>>
      PROVE  [Promise!Next]_(Promise!vars)
  BY <1>1, RequestSettlesRefines
<1>2. CASE PacketSent(c)
  BY <1>1, <1>2, GoesOnRefines
  DEF PacketSent, BeginReceive, StartTransfer, Outcomes, Verdicts
<1>3. CASE TransferOutFails(c) \/ TransferRefused(c) \/ TransferInFails(c)
  BY <1>1, <1>3
  DEF TransferOutFails, TransferRefused, TransferInFails, callVars, Outcomes, Verdicts
<1>4. CASE OtherPacketReceived(c)
  BY <1>4, GoesOnRefines DEF OtherPacketReceived, TransferInReady, callVars
<1>5. CASE PacketReceived(c)
  <2>1. UNCHANGED <<requestID, verdict>>
    BY <1>5 DEF PacketReceived
  <2>2. CASE UNCHANGED <<pc, timer, outcome>>
    BY <2>1, <2>2, StutterStep
  <2>3. CASE \E i \in DOMAIN buffer'[c] : RequestSettles(c, buffer'[c][i].status)
    BY <1>5, <2>1, <2>3, AnswerIsAVerdict, RequestSettlesRefines
  <2>4. QED  BY <1>5, <2>2, <2>3 DEF PacketReceived
<1>6. QED  BY <1>2, <1>3, <1>4, <1>5 DEF Transfer

LEMMA StepRefines == Inductive /\ [Next]_vars => [Promise!Next]_(Promise!vars)
<1> SUFFICES ASSUME Inductive, [Next]_vars PROVE [Promise!Next]_(Promise!vars)
  OBVIOUS
<1> USE ThreadFacts, TypeOKParts DEF Inductive, ControlTypeOK
<1>1. ASSUME NEW c \in Calls, Start(c) PROVE [Promise!Next]_(Promise!vars)
  <2>1. Promise!Issue(c)
    BY <1>1, IssueStep DEF Start, GoTo, OthersWait, callVars
  <2>2. QED  BY <2>1 DEF Promise!Next
<1>2. ASSUME NEW c \in Calls, TimeoutFires(c) PROVE [Promise!Next]_(Promise!vars)
  <2>1. pc[Sender(c)] = "race"
    BY <1>2 DEF TimeoutFires, PhaseInv, CallPhase
  <2>2. OthersWait(c) /\ outcome' = [outcome EXCEPT ![c] = "timeout"]
        /\ UNCHANGED <<requestID, verdict>>
    BY <1>2 DEF TimeoutFires, GoTo, OthersWait, callVars
  <2>3. Promise!Settle(c)
    BY <2>1, <2>2, SettleStep DEF Outcomes, Verdicts
  <2>4. QED  BY <2>3 DEF Promise!Next
<1>3. ASSUME NEW c \in Calls, DeviceAnswers(c) PROVE [Promise!Next]_(Promise!vars)
  BY <1>3, DecideStep DEF Promise!Next
<1>4. CASE Unplug \/ UNCHANGED vars
  BY <1>4, StutterStep DEF Unplug, vars, callVars
<1>5. QED
  BY <1>1, <1>2, <1>3, <1>4, OpenOrCloseRefines, TransferRefines DEF Next

\* The transport implements the request/response service: a call settles once, and
\* with an answer only if the device gave that answer to a request of the call's name.
THEOREM Refinement == Spec => ImplementsPromise
<1>1. Init => Promise!Init
  <2> SUFFICES ASSUME Init PROVE Promise!Init
    OBVIOUS
  <2>1. \A c \in Calls : /\ pc[Sender(c)] = "idle" /\ outcome[c] = NoOutcome
                         /\ requestID[c] = NoID
    BY ThreadFacts DEF Init
  <2>2. verdict = [c \in Calls |-> NoOutcome] /\ outcome = [c \in Calls |-> NoOutcome]
    BY DEF Init
  <2>3. QED  BY <2>1, <2>2 DEF Promise!Init
<1>2. QED
  BY <1>1, InductiveInit, InductiveStep, StepRefines, PTL
  DEF Spec, ImplementsPromise, Promise!Spec

=============================================================================
