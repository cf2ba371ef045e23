-------------------------- MODULE UsbAnswerProofs --------------------------
(***************************************************************************)
(* What the caller gets from UsbTransport.  First: a call that resolves    *)
(* with an answer has every packet of the response to its own request,     *)
(* each once and in order, if no other call bears its name.  Second: calls *)
(* made one after the other succeed.                                       *)
(*                                                                         *)
(* The device queues the packets of a response in the order of their       *)
(* indices and a step takes them from the head only, so the packets of one *)
(* response come into a buffer with growing indices.  As many of them as   *)
(* the response has, with growing indices below that number, are all of    *)
(* it.                                                                     *)
(***************************************************************************)
EXTENDS UsbTransportProofs, FiniteSetTheorems

USE TransportAssumption, IDAssumption DEF ArmTimeout, ClearTimeout, BeginRace

\* The packets of one response are queued in order, and behind those received before.
OrderInv ==
  /\ \A i, j \in 1 .. Len(inQueue) :
       i < j /\ inQueue[i].of = inQueue[j].of => inQueue[i].p2 < inQueue[j].p2
  /\ \A c \in Calls : \A i \in 1 .. Len(buffer[c]), j \in 1 .. Len(inQueue) :
       buffer[c][i].of = inQueue[j].of => buffer[c][i].p2 < inQueue[j].p2

Named(c) == requestID[c] # NoID /\ UniquelyNamed(c)

\* The indices in the buffer of a uniquely named call grow by one at least.
SpacedInv ==
  \A c \in Calls :
    Named(c) => \A i, j \in 1 .. Len(buffer[c]) :
                  i <= j => buffer[c][j].p2 - buffer[c][i].p2 >= j - i

\* A call that has its answer receives no more: its timeout is cleared.
AnsweredInv ==
  \A c \in Calls : outcome[c] \in Verdicts => timer[c] = "cleared" /\ requestID[c] # NoID

AnswerInv == OrderInv /\ SpacedInv /\ AnsweredInv /\ WholeAnswer

-----------------------------------------------------------------------------
(***************************************************************************)
(* Facts about packets.                                                    *)
(***************************************************************************)
LEMMA QueuedFacts ==
  ASSUME Inductive, NEW i \in 1 .. Len(inQueue)
  PROVE  /\ inQueue[i] \in Packets /\ Stamped(inQueue[i], requestID, verdict)
         /\ verdict[inQueue[i].of] \in Verdicts
<1>1. inQueue[i] \in Packets
  BY TypeOKParts, ElementOfSeq DEF Inductive, SequenceTypeOK
<1>2. Stamped(inQueue[i], requestID, verdict)
  BY DEF Inductive, PacketInv
<1>3. QED  BY <1>1, <1>2 DEF Stamped, Packets

LEMMA BufferedFacts ==
  ASSUME Inductive, NEW c \in Calls, NEW i \in 1 .. Len(buffer[c])
  PROVE  /\ buffer[c][i] \in Packets /\ Stamped(buffer[c][i], requestID, verdict)
         /\ verdict[buffer[c][i].of] \in Verdicts
         /\ buffer[c][i].lc = requestID[c] /\ requestID[c] # NoID
         /\ Named(c) => buffer[c][i].of = c
<1>1. buffer[c][i] \in Packets
  BY TypeOKParts, ElementOfSeq DEF Inductive, SequenceTypeOK
<1>2. Stamped(buffer[c][i], requestID, verdict) /\ IsCurrentAction(c, buffer[c][i])
  BY DEF Inductive, PacketInv
<1>3. QED
  BY <1>1, <1>2 DEF Stamped, Packets, IsCurrentAction, Named, UniquelyNamed, Confusable

\* A name that is unique after a step was unique before it.
LEMMA NamedBefore ==
  ASSUME NamesKept, NEW c \in Calls, requestID[c] # NoID, Named(c)'
  PROVE  Named(c)
BY DEF NamesKept, Named, UniquelyNamed, Confusable

-----------------------------------------------------------------------------
(***************************************************************************)
(* The order of packets.                                                   *)
(***************************************************************************)
Shrinks ==
  /\ UNCHANGED buffer
  /\ \E k \in 1 .. Len(inQueue) + 1 : inQueue' = SubSeq(inQueue, k, Len(inQueue))

LEMMA OrderShrinks ==
  ASSUME Inductive, OrderInv, Shrinks
  PROVE  OrderInv'
<1>1. PICK k \in 1 .. Len(inQueue) + 1 : inQueue' = SubSeq(inQueue, k, Len(inQueue))
  BY DEF Shrinks
<1>2. inQueue \in Seq(Packets) /\ Len(inQueue) \in Nat
  BY TypeOKParts, LenProperties DEF Inductive, SequenceTypeOK
<1>3. /\ Len(inQueue') = Len(inQueue) - k + 1
      /\ \A i \in 1 .. Len(inQueue') :
           k + i - 1 \in 1 .. Len(inQueue) /\ inQueue'[i] = inQueue[k + i - 1]
  BY <1>1, <1>2, SuffixOf
<1>4. \A i, j \in 1 .. Len(inQueue') :
        i < j /\ inQueue'[i].of = inQueue'[j].of => inQueue'[i].p2 < inQueue'[j].p2
  <2> SUFFICES ASSUME NEW i \in 1 .. Len(inQueue'), NEW j \in 1 .. Len(inQueue'), i < j,
                      inQueue'[i].of = inQueue'[j].of
               PROVE  inQueue'[i].p2 < inQueue'[j].p2
    OBVIOUS
  <2>1. /\ inQueue'[i] = inQueue[k + i - 1] /\ inQueue'[j] = inQueue[k + j - 1]
        /\ k + i - 1 \in 1 .. Len(inQueue) /\ k + j - 1 \in 1 .. Len(inQueue)
    BY <1>3
  <2>2. k + i - 1 < k + j - 1
    BY <1>2, <1>3
  <2>3. QED  BY <2>1, <2>2 DEF OrderInv
<1>5. \A c \in Calls : \A i \in 1 .. Len(buffer[c]), j \in 1 .. Len(inQueue') :
        buffer[c][i].of = inQueue'[j].of => buffer[c][i].p2 < inQueue'[j].p2
  <2> SUFFICES ASSUME NEW c \in Calls, NEW i \in 1 .. Len(buffer[c]),
                      NEW j \in 1 .. Len(inQueue'), buffer[c][i].of = inQueue'[j].of
               PROVE  buffer[c][i].p2 < inQueue'[j].p2
    OBVIOUS
  <2>1. inQueue'[j] = inQueue[k + j - 1] /\ k + j - 1 \in 1 .. Len(inQueue)
    BY <1>3
  <2>2. QED  BY <2>1 DEF OrderInv
<1>6. QED  BY <1>4, <1>5 DEF OrderInv, Shrinks

LEMMA SpacedKept ==
  ASSUME Inductive, SpacedInv, NamesKept, UNCHANGED buffer
  PROVE  SpacedInv'
<1> SUFFICES ASSUME NEW c \in Calls, Named(c)',
                    NEW i \in 1 .. Len(buffer[c]), NEW j \in 1 .. Len(buffer[c]), i <= j
             PROVE  buffer[c][j].p2 - buffer[c][i].p2 >= j - i
  BY DEF SpacedInv
<1>1. Named(c)
  BY BufferedFacts, NamedBefore
<1>2. QED  BY <1>1 DEF SpacedInv

LEMMA OrderAnswered ==
  ASSUME Inductive, OrderInv, NEW c \in Calls, DeviceAnswers(c)
  PROVE  OrderInv' /\ UNCHANGED buffer
<1>1. PICK v \in Verdicts : inQueue' = inQueue \o Response(c, v)
  BY DEF DeviceAnswers
<1>2. c \in asked /\ requestID[c] # NoID /\ verdict[c] = NoOutcome /\ UNCHANGED buffer
  BY DEF DeviceAnswers, Inductive, AskedInv, callVars
<1> DEFINE r == Response(c, v)
<1>3. /\ r \in Seq(Packets) /\ Len(r) \in Nat /\ Len(inQueue) \in Nat
      /\ \A i \in 1 .. Len(r) : r[i].of = c /\ r[i].p2 = i - 1
  <2>1. /\ r \in Seq(Packets) /\ Len(r) = RespPackets[c]
        /\ \A i \in 1 .. RespPackets[c] : r[i] = ResponsePacket(c, v, i)
    BY <1>2, ResponseType, TypeOKParts DEF Inductive
  <2>2. Len(inQueue) \in Nat
    BY TypeOKParts, LenProperties DEF Inductive, SequenceTypeOK
  <2> HIDE DEF r
  <2>3. QED  BY <2>1, <2>2 DEF ResponsePacket
<1> HIDE DEF r
<1>4. /\ Len(inQueue') = Len(inQueue) + Len(r)
      /\ \A i \in 1 .. Len(inQueue) : inQueue'[i] = inQueue[i]
      /\ \A i \in 1 .. Len(r) : inQueue'[Len(inQueue) + i] = r[i]
  <2>1. inQueue \in Seq(Packets) /\ inQueue' = inQueue \o r
    BY <1>1, TypeOKParts DEF Inductive, SequenceTypeOK, r
  <2>2. /\ Len(inQueue') = Len(inQueue) + Len(r)
        /\ \A i \in 1 .. Len(inQueue) + Len(r) :
             inQueue'[i] = IF i <= Len(inQueue) THEN inQueue[i] ELSE r[i - Len(inQueue)]
    BY <1>3, <2>1, ConcatProperties
  <2>3. ASSUME NEW i \in 1 .. Len(inQueue)
        PROVE  inQueue'[i] = inQueue[i]
    <3>1. i \in 1 .. Len(inQueue) + Len(r) /\ i <= Len(inQueue)
      BY <1>3
    <3>2. QED  BY <2>2, <3>1
  <2>4. ASSUME NEW i \in 1 .. Len(r)
        PROVE  inQueue'[Len(inQueue) + i] = r[i]
    <3>1. /\ Len(inQueue) + i \in 1 .. Len(inQueue) + Len(r)
          /\ ~(Len(inQueue) + i <= Len(inQueue)) /\ Len(inQueue) + i - Len(inQueue) = i
      BY <1>3
    <3>2. QED  BY <2>2, <3>1
  <2>5. QED  BY <2>2, <2>3, <2>4
\* A packet of the queue after the step is an old one, or one of the response.
<1>each. ASSUME NEW i \in 1 .. Len(inQueue')
      PROVE  \/ i \in 1 .. Len(inQueue) /\ inQueue'[i] = inQueue[i]
             \/ \E k \in 1 .. Len(r) : /\ i = Len(inQueue) + k
                                       /\ inQueue'[i].of = c /\ inQueue'[i].p2 = k - 1
  <2>1. CASE i <= Len(inQueue)
    BY <1>3, <1>4, <2>1
  <2>2. CASE i > Len(inQueue)
    <3>1. i - Len(inQueue) \in 1 .. Len(r) /\ i = Len(inQueue) + (i - Len(inQueue))
      BY <1>3, <1>4, <2>2
    <3>2. QED  BY <1>3, <1>4, <3>1
  <2>3. QED  BY <1>3, <2>1, <2>2
<1>5. \A i \in 1 .. Len(inQueue) : inQueue[i].of # c
  BY <1>2, QueuedFacts DEF Verdicts, NoOutcome
<1>6. \A d \in Calls : \A i \in 1 .. Len(buffer[d]) : buffer[d][i].of # c
  BY <1>2, BufferedFacts DEF Verdicts, NoOutcome
<1>7. \A i, j \in 1 .. Len(inQueue') :
        i < j /\ inQueue'[i].of = inQueue'[j].of => inQueue'[i].p2 < inQueue'[j].p2
  <2> SUFFICES ASSUME NEW i \in 1 .. Len(inQueue'), NEW j \in 1 .. Len(inQueue'), i < j,
                      inQueue'[i].of = inQueue'[j].of
               PROVE  inQueue'[i].p2 < inQueue'[j].p2
    OBVIOUS
  <2>1. CASE i \in 1 .. Len(inQueue) /\ j \in 1 .. Len(inQueue)
    BY <1>4, <2>1 DEF OrderInv
  <2>2. CASE i \notin 1 .. Len(inQueue) /\ j \notin 1 .. Len(inQueue)
    <3>1. PICK k \in 1 .. Len(r) : i = Len(inQueue) + k /\ inQueue'[i].p2 = k - 1
      BY <1>each, <2>2
    <3>2. PICK l \in 1 .. Len(r) : j = Len(inQueue) + l /\ inQueue'[j].p2 = l - 1
      BY <1>each, <2>2
    <3>3. k < l
      BY <1>3, <3>1, <3>2
    <3>4. QED  BY <3>1, <3>2, <3>3
  <2>3. CASE i \in 1 .. Len(inQueue) /\ j \notin 1 .. Len(inQueue)
    <3>1. inQueue'[i].of # c
      BY <1>4, <1>5, <2>3
    <3>2. inQueue'[j].of = c
      BY <1>each, <2>3
    <3>3. QED  BY <3>1, <3>2
  <2>4. CASE i \notin 1 .. Len(inQueue) /\ j \in 1 .. Len(inQueue)
    BY <1>3, <2>4
  <2>5. QED  BY <2>1, <2>2, <2>3, <2>4
<1>8. \A d \in Calls : \A i \in 1 .. Len(buffer[d]), j \in 1 .. Len(inQueue') :
        buffer[d][i].of = inQueue'[j].of => buffer[d][i].p2 < inQueue'[j].p2
  <2> SUFFICES ASSUME NEW d \in Calls, NEW i \in 1 .. Len(buffer[d]),
                      NEW j \in 1 .. Len(inQueue'), buffer[d][i].of = inQueue'[j].of
               PROVE  buffer[d][i].p2 < inQueue'[j].p2
    OBVIOUS
  <2>1. j \in 1 .. Len(inQueue) /\ inQueue'[j] = inQueue[j]
    BY <1>each, <1>6
  <2>2. QED  BY <2>1 DEF OrderInv
<1>9. QED  BY <1>2, <1>7, <1>8 DEF OrderInv

-----------------------------------------------------------------------------
(***************************************************************************)
(* The receipt of a packet.                                                *)
(***************************************************************************)
LEMMA ReceiptFacts ==
  ASSUME Inductive, NEW c \in Calls, PacketReceived(c)
  PROVE  /\ UNCHANGED <<requestID, verdict>>
         /\ Len(inQueue) \in Nat \ {0} /\ Len(buffer[c]) \in Nat
         /\ Len(inQueue') = Len(inQueue) - 1
         /\ \A i \in 1 .. Len(inQueue') : inQueue'[i] = inQueue[i + 1]
         /\ Len(buffer'[c]) = Len(buffer[c]) + 1
         /\ \A i \in 1 .. Len(buffer[c]) : buffer'[c][i] = buffer[c][i]
         /\ buffer'[c][Len(buffer[c]) + 1] = inQueue[1] /\ Head(inQueue) = inQueue[1]
         /\ \A d \in Calls \ {c} : buffer'[d] = buffer[d]
<1>1. /\ inQueue # <<>> /\ inQueue' = Tail(inQueue)
      /\ buffer' = [buffer EXCEPT ![c] = Append(@, Head(inQueue))]
      /\ UNCHANGED <<requestID, verdict>>
  BY DEF PacketReceived
<1>2. /\ inQueue \in Seq(Packets) /\ buffer \in [Calls -> Seq(Packets)]
      /\ Len(inQueue) \in Nat /\ Len(buffer[c]) \in Nat
  BY TypeOKParts, LenProperties DEF Inductive, SequenceTypeOK
<1>3. /\ Head(inQueue) \in Packets /\ Head(inQueue) = inQueue[1] /\ Len(inQueue) # 0
      /\ Len(Tail(inQueue)) = Len(inQueue) - 1
      /\ \A i \in 1 .. Len(inQueue) - 1 : Tail(inQueue)[i] = inQueue[i + 1]
  BY <1>1, <1>2, HeadTailProperties, EmptySeq
<1>4. /\ Len(buffer'[c]) = Len(buffer[c]) + 1
      /\ \A i \in 1 .. Len(buffer[c]) : buffer'[c][i] = buffer[c][i]
      /\ buffer'[c][Len(buffer[c]) + 1] = Head(inQueue)
  BY <1>1, <1>2, <1>3, AppendProperties
<1>5. QED  BY <1>1, <1>2, <1>3, <1>4

LEMMA OrderReceived ==
  ASSUME Inductive, OrderInv, NEW c \in Calls, PacketReceived(c)
  PROVE  OrderInv'
<1>0. /\ Len(inQueue) \in Nat \ {0} /\ Len(inQueue') = Len(inQueue) - 1
      /\ \A j \in 1 .. Len(inQueue') : inQueue'[j] = inQueue[j + 1]
  BY ReceiptFacts
<1>1. ASSUME NEW i \in 1 .. Len(inQueue'), NEW j \in 1 .. Len(inQueue'), i < j,
             inQueue'[i].of = inQueue'[j].of
      PROVE  inQueue'[i].p2 < inQueue'[j].p2
  <2>1. /\ i + 1 \in 1 .. Len(inQueue) /\ j + 1 \in 1 .. Len(inQueue) /\ i + 1 < j + 1
        /\ inQueue'[i] = inQueue[i + 1] /\ inQueue'[j] = inQueue[j + 1]
    BY <1>0, <1>1
  <2>2. inQueue[i + 1].of = inQueue[j + 1].of => inQueue[i + 1].p2 < inQueue[j + 1].p2
    BY <2>1 DEF OrderInv
  <2>3. QED  BY <1>1, <2>1, <2>2
<1>2. ASSUME NEW d \in Calls, NEW i \in 1 .. Len(buffer'[d]), NEW j \in 1 .. Len(inQueue'),
             buffer'[d][i].of = inQueue'[j].of
      PROVE  buffer'[d][i].p2 < inQueue'[j].p2
  <2>1. inQueue'[j] = inQueue[j + 1] /\ j + 1 \in 1 .. Len(inQueue) /\ 1 \in 1 .. Len(inQueue)
    BY <1>0
  <2>2. CASE d = c /\ i = Len(buffer[c]) + 1
    <3>1. buffer'[d][i] = inQueue[1] /\ 1 < j + 1
      BY <2>1, <2>2, ReceiptFacts
    <3>2. inQueue[1].of = inQueue[j + 1].of => inQueue[1].p2 < inQueue[j + 1].p2
      BY <2>1, <3>1 DEF OrderInv
    <3>3. QED  BY <1>2, <2>1, <3>1, <3>2
  <2>3. CASE d # c \/ i # Len(buffer[c]) + 1
    <3>1. i \in 1 .. Len(buffer[d])
      BY <2>3, ReceiptFacts
    <3>2. buffer'[d][i] = buffer[d][i]
      BY <3>1, ReceiptFacts
    <3>3. buffer[d][i].of = inQueue[j + 1].of => buffer[d][i].p2 < inQueue[j + 1].p2
      BY <2>1, <3>1 DEF OrderInv
    <3>4. QED  BY <1>2, <2>1, <3>2, <3>3
  <2>4. QED  BY <2>2, <2>3
<1>3. QED  BY <1>1, <1>2 DEF OrderInv

LEMMA SpacedReceived ==
  ASSUME Inductive, OrderInv, SpacedInv, NEW c \in Calls, PacketReceived(c)
  PROVE  SpacedInv'
<1> USE ReceiptFacts
<1>1. \A d \in Calls : Named(d)' <=> Named(d)
  BY DEF Named, UniquelyNamed, Confusable
<1> SUFFICES ASSUME NEW d \in Calls, Named(d), NEW i \in 1 .. Len(buffer'[d]),
                    NEW j \in 1 .. Len(buffer'[d]), i <= j
             PROVE  buffer'[d][j].p2 - buffer'[d][i].p2 >= j - i
  BY <1>1 DEF SpacedInv
<1>2. CASE d # c \/ j # Len(buffer[c]) + 1
  <2>1. i \in 1 .. Len(buffer[d]) /\ j \in 1 .. Len(buffer[d])
    <3>1. CASE d = c
      BY <1>2, <3>1
    <3>2. CASE d # c
      BY <3>2
    <3>3. QED  BY <3>1, <3>2
  <2>2. buffer'[d][i] = buffer[d][i] /\ buffer'[d][j] = buffer[d][j]
    BY <2>1
  <2>3. QED  BY <2>1, <2>2 DEF SpacedInv
<1>3. CASE d = c /\ j = Len(buffer[c]) + 1
  <2> DEFINE last == Len(buffer[c])
  <2>1. inQueue[1] \in Packets /\ Stamped(inQueue[1], requestID, verdict)
    BY QueuedFacts
  <2>2. IsCurrentAction(c, inQueue[1])
    BY DEF PacketReceived
  <2>3. inQueue[1].of = c /\ inQueue[1].p2 \in Nat /\ buffer'[c][j] = inQueue[1]
    <3>1. inQueue[1].of \in Calls /\ inQueue[1].p2 \in Nat
      BY <2>1 DEF Packets
    <3>2. Confusable(c, inQueue[1].of)
      BY <2>1, <2>2 DEF Stamped, IsCurrentAction, Confusable
    <3>3. QED  BY <1>3, <3>1, <3>2 DEF Named, UniquelyNamed
  <2>4. CASE i = j
    BY <2>3, <2>4, <1>3
  <2>5. CASE i # j
    <3>1. i \in 1 .. last /\ last \in 1 .. last /\ i <= last /\ buffer'[c][i] = buffer[c][i]
      BY <1>3, <2>5
    <3>2. buffer[c][i] \in Packets /\ buffer[c][last] \in Packets /\ buffer[c][last].of = c
      BY <1>3, <3>1, BufferedFacts
    <3>3. buffer[c][last].p2 < inQueue[1].p2
      <4>1. 1 \in 1 .. Len(inQueue)
        OBVIOUS
      <4>2. QED  BY <2>3, <3>1, <3>2, <4>1 DEF OrderInv
    <3>4. buffer[c][last].p2 - buffer[c][i].p2 >= last - i
      BY <1>3, <3>1 DEF SpacedInv
    <3>5. buffer[c][i].p2 \in Nat /\ buffer[c][last].p2 \in Nat
      BY <3>2 DEF Packets
    <3>6. inQueue[1].p2 - buffer[c][i].p2 >= last + 1 - i
      <4>1. \A x, y, z \in Nat : \A l, k \in Int :
              y - x >= l - k /\ y < z => z - x >= l + 1 - k
        OBVIOUS
      <4>2. last \in Int /\ i \in Int
        BY <3>1
      <4> HIDE DEF last
      <4>3. QED  BY <2>3, <3>5, <3>3, <3>4, <4>1, <4>2
    <3>7. QED  BY <1>3, <2>3, <3>1, <3>6
  <2>6. QED  BY <2>4, <2>5
<1>4. QED  BY <1>2, <1>3


-----------------------------------------------------------------------------
(***************************************************************************)
(* The answer.                                                             *)
(***************************************************************************)
\* As many packets of one response as it has, with growing indices, are all of it.
LEMMA GrowingIsWhole ==
  ASSUME ControlTypeOK, NEW c \in Calls, requestID[c] # NoID, verdict[c] \in Verdicts,
         NEW s \in Seq(Packets), Len(s) >= RespPackets[c],
         \A i \in 1 .. Len(s) : s[i].of = c /\ Stamped(s[i], requestID, verdict),
         \A i, j \in 1 .. Len(s) : i <= j => s[j].p2 - s[i].p2 >= j - i
  PROVE  s = Response(c, verdict[c])
<1> DEFINE n == Len(s)
           all == RespPackets[c]
<1>1. /\ n \in Nat /\ all \in Nat \ {0}
      /\ \A i \in 1 .. n : s[i] \in Packets /\ s[i].p2 \in Nat /\ s[i].p2 < all
  <2>1. n \in Nat /\ \A i \in 1 .. n : s[i] \in Packets
    BY LenProperties, ElementOfSeq
  <2>2. \A i \in 1 .. n : s[i].p2 \in Nat /\ s[i].p2 < all
    BY <2>1 DEF Packets, Stamped
  <2>3. QED  BY <2>1, <2>2
<1>2. 1 \in 1 .. n /\ n \in 1 .. n
  BY <1>1
<1>3. ASSUME NEW i \in 1 .. n
      PROVE  s[i].p2 - s[1].p2 >= i - 1 /\ s[n].p2 - s[i].p2 >= n - i
  BY <1>1, <1>2
<1>4. n = all
  <2>1. \A x, y, k, l \in Nat : y - x >= k - 1 /\ y < l /\ k >= l => k = l
    OBVIOUS
  <2> HIDE DEF n, all
  <2>2. n >= all
    BY DEF n, all
  <2>3. QED  BY <1>1, <1>2, <1>3, <2>1, <2>2
<1>5. ASSUME NEW i \in 1 .. n PROVE s[i].p2 = i - 1
  <2>1. \A x, y, z, k, l \in Nat :
          y - x >= k - 1 /\ z - y >= l - k /\ z < l => y = k - 1
    OBVIOUS
  <2>2. i \in Nat /\ n \in Nat
    BY <1>1
  <2>3. s[1].p2 \in Nat /\ s[i].p2 \in Nat /\ s[n].p2 \in Nat /\ s[n].p2 < n
    BY <1>1, <1>2, <1>4
  <2>4. s[i].p2 - s[1].p2 >= i - 1 /\ s[n].p2 - s[i].p2 >= n - i
    BY <1>3
  <2> HIDE DEF n, all
  <2>5. QED  BY <2>1, <2>2, <2>3, <2>4, SMTT(30)
<1>6. ASSUME NEW i \in 1 .. n PROVE s[i] = ResponsePacket(c, verdict[c], i)
  <2>1. /\ s[i] \in Packets /\ s[i].of = c /\ s[i].p2 = i - 1
        /\ Stamped(s[i], requestID, verdict)
    BY <1>1, <1>5
  <2>2. QED  BY <2>1 DEF Packets, Stamped, ResponsePacket
<1>7. /\ Response(c, verdict[c]) \in Seq(Packets)
      /\ Len(Response(c, verdict[c])) = n
      /\ \A i \in 1 .. n : Response(c, verdict[c])[i] = ResponsePacket(c, verdict[c], i)
  BY <1>4, ResponseType
<1>8. QED  BY <1>6, <1>7, SeqEqual

\* The steps that tell a call its outcome, and the one that tells it an answer.
LEMMA AnswerComesByReceipt ==
  ASSUME Inductive, [Next]_vars, NEW c \in Calls,
         outcome[c] \notin Verdicts, outcome'[c] \in Verdicts
  PROVE  /\ PacketReceived(c) /\ EnoughPackets(Len(buffer'[c]), Head(inQueue).p1)
         /\ timer'[c] = "cleared" /\ requestID[c] # NoID
<1> USE ThreadFacts, TypeOKParts DEF Inductive, ControlTypeOK
<1>1. ASSUME NEW d \in Calls, NEW o \in Outcomes \ Verdicts PROVE ~RequestSettles(d, o)
  BY <1>1 DEF RequestSettles
<1>2. ASSUME NEW d \in Calls, NEW o \in Outcomes \ Verdicts PROVE ~SenderFails(d, o)
  BY <1>2 DEF SenderFails
<1>3. ASSUME NEW t \in Threads PROVE ~OpenRejects(t)
  BY <1>1, <1>2 DEF OpenRejects, Outcomes, Verdicts
<1>4. ASSUME NEW t \in Threads PROVE ~OpenOrClose(t)
  <2>1. ~InterfaceClaimed(t)
    BY <1>2 DEF InterfaceClaimed, BeginRequest, Outcomes, Verdicts
  <2>2. QED
    BY <1>3, <2>1 DEF OpenOrClose, DeviceOpens, ConfigurationSelected, DeviceOpenFails,
      DeviceResets, ResetFails, ClaimFails, InterfaceReleased, ReleaseFails, DeviceCloses,
      CloseFails, CloseReturns
<1>5. ASSUME NEW d \in Calls
      PROVE  /\ ~PacketSent(d) /\ ~TransferOutFails(d) /\ ~TransferRefused(d)
             /\ ~OtherPacketReceived(d) /\ ~TransferInFails(d)
  BY <1>1 DEF PacketSent, BeginReceive, TransferOutFails, TransferRefused,
    OtherPacketReceived, TransferInFails, Outcomes, Verdicts
<1>6. ASSUME NEW d \in Calls PROVE ~(Start(d) \/ TimeoutFires(d) \/ DeviceAnswers(d))
  BY DEF Start, TimeoutFires, DeviceAnswers, Verdicts
<1>7. PICK d \in Calls : PacketReceived(d)
  BY <1>4, <1>5, <1>6 DEF Next, vars, Unplug, Transfer
<1>8. PICK o : RequestSettles(d, o) /\ EnoughPackets(Len(buffer'[d]), Head(inQueue).p1)
  BY <1>7 DEF PacketReceived
<1>9. d = c /\ pc[Sender(c)] = "race"
  BY <1>8 DEF RequestSettles
<1>10. timer[c] = "armed" /\ requestID[c] # NoID
  BY <1>9 DEF PhaseInv, CallPhase
<1>11. QED  BY <1>7, <1>8, <1>9, <1>10 DEF RequestSettles

LEMMA ReceivedWhole ==
  ASSUME Inductive, SpacedInv', NEW c \in Calls, PacketReceived(c), UniquelyNamed(c)',
         EnoughPackets(Len(buffer'[c]), Head(inQueue).p1)
  PROVE  buffer'[c] = Response(c, verdict[c])'
<1> DEFINE s == buffer'[c]
<1>1. /\ SequenceTypeOK' /\ PacketInv' /\ UNCHANGED <<requestID, verdict>>
      /\ ControlTypeOK
  BY TypeOKParts, PacketReceivedPreserves DEF Inductive, PacketReceived
<1>2. /\ s \in Seq(Packets) /\ Len(s) \in Nat
      /\ Len(s) \in 1 .. Len(s) /\ s[Len(s)] = Head(inQueue)
  <2>1. s \in Seq(Packets)
    BY <1>1 DEF SequenceTypeOK
  <2>2. /\ Len(buffer[c]) \in Nat /\ Len(s) = Len(buffer[c]) + 1
        /\ s[Len(buffer[c]) + 1] = Head(inQueue)
    BY ReceiptFacts
  <2> HIDE DEF s
  <2>3. QED  BY <2>1, <2>2
<1>3. ASSUME NEW i \in 1 .. Len(s)
      PROVE  /\ s[i] \in Packets /\ s[i].of = c /\ Stamped(s[i], requestID, verdict)
             /\ requestID[c] # NoID
  <2>1. s[i] \in Packets
    BY <1>2, ElementOfSeq
  <2>2. /\ Stamped(s[i], requestID, verdict)
        /\ s[i].ins = ActionOf[c] /\ s[i].lc = requestID[c]
    BY <1>1 DEF PacketInv, IsCurrentAction
  <2>3. QED
    BY <1>1, <2>1, <2>2 DEF Packets, Stamped, UniquelyNamed, Confusable
<1>4. requestID[c] # NoID /\ verdict[c] \in Verdicts /\ Len(s) >= RespPackets[c]
  <2>1. /\ s[Len(s)] \in Packets /\ s[Len(s)].of = c
        /\ Stamped(s[Len(s)], requestID, verdict) /\ requestID[c] # NoID
    BY <1>2, <1>3
  <2>2. QED  BY <1>2, <2>1 DEF Packets, Stamped, EnoughPackets
<1>5. \A i, j \in 1 .. Len(s) : i <= j => s[j].p2 - s[i].p2 >= j - i
  BY <1>1, <1>4 DEF SpacedInv, Named
<1>6. s = Response(c, verdict[c])
  <2> HIDE DEF s
  <2>1. QED  BY <1>1, <1>2, <1>3, <1>4, <1>5, GrowingIsWhole
<1>7. QED  BY <1>1, <1>6 DEF Response

\* What the steps do to packets.
LEMMA StepKinds ==
  ASSUME Inductive, [Next]_vars
  PROVE  /\ NamesKept
         /\ Shrinks \/ \E c \in Calls : DeviceAnswers(c) \/ PacketReceived(c)
<1> USE TypeOKParts DEF Inductive
<1>1. Quiet => NamesKept /\ Shrinks
  BY DEF Quiet, Draws, NamesKept, Shrinks, ControlTypeOK
<1>2. UNCHANGED <<inQueue, buffer, requestID, verdict>> => NamesKept /\ Shrinks
  BY WholeIsSuffix DEF NamesKept, Shrinks, SequenceTypeOK
<1>3. ASSUME NEW t \in Threads, OpenOrClose(t) PROVE Quiet
  BY <1>3, OpenOrCloseIsQuiet
<1>4. ASSUME NEW c \in Calls, DeviceAnswers(c) PROVE NamesKept
  BY <1>4 DEF DeviceAnswers, NamesKept, AskedInv, DeviceTypeOK, callVars
<1>5. ASSUME NEW c \in Calls, PacketReceived(c) PROVE NamesKept
  BY <1>5 DEF PacketReceived, NamesKept
<1>6. ASSUME NEW c \in Calls, PacketSent(c)
      PROVE  UNCHANGED <<inQueue, buffer, requestID, verdict>>
  BY <1>6 DEF PacketSent
<1>7. CASE UNCHANGED vars
  BY <1>2, <1>7 DEF vars, endpointVars, callVars
<1>8. CASE Unplug \/ \E c \in Calls :
              \/ Start(c) \/ TimeoutFires(c) \/ TransferOutFails(c)
              \/ TransferRefused(c) \/ OtherPacketReceived(c) \/ TransferInFails(c)
  BY <1>1, <1>8, OtherIsQuiet
<1>9. QED  BY <1>1, <1>2, <1>3, <1>4, <1>5, <1>6, <1>7, <1>8 DEF Next, Transfer

LEMMA OrderStep ==
  ASSUME Inductive, OrderInv, SpacedInv, [Next]_vars
  PROVE  OrderInv' /\ SpacedInv'
<1>1. CASE Shrinks
  BY <1>1, StepKinds, OrderShrinks, SpacedKept DEF Shrinks
<1>2. ASSUME NEW c \in Calls, DeviceAnswers(c) PROVE OrderInv' /\ SpacedInv'
  BY <1>2, StepKinds, OrderAnswered, SpacedKept
<1>3. ASSUME NEW c \in Calls, PacketReceived(c) PROVE OrderInv' /\ SpacedInv'
  BY <1>3, OrderReceived, SpacedReceived
<1>4. QED  BY <1>1, <1>2, <1>3, StepKinds

LEMMA AnsweredStep ==
  ASSUME Inductive, AnsweredInv, [Next]_vars
  PROVE  AnsweredInv'
BY StepKinds, TimerEnds, AnswerComesByReceipt, SettledStays
DEF AnsweredInv, NamesKept, Verdicts, NoOutcome


\* The answer a call has taken stays as it is.
LEMMA WholeKept ==
  ASSUME Inductive, AnsweredInv, WholeAnswer, [Next]_vars,
         NEW c \in Calls, outcome[c] \in Verdicts, UniquelyNamed(c)'
  PROVE  buffer'[c] = Response(c, verdict[c])'
<1> USE TypeOKParts DEF Inductive
<1>1. ~PacketReceived(c)
  BY DEF PacketReceived, TransferInReady, AnsweredInv, PhaseInv, CallPhase
<1>2. buffer'[c] = buffer[c]
  BY <1>1, StepKinds, OrderAnswered, ReceiptFacts DEF Shrinks, DeviceAnswers, callVars
<1>3. requestID[c] # NoID /\ Named(c)
  BY StepKinds, NamedBefore DEF AnsweredInv, NamesKept, Named
<1>4. buffer[c] = Response(c, verdict[c])
  BY <1>3 DEF WholeAnswer, Named
<1>5. 1 \in 1 .. Len(buffer[c])
  <2>1. buffer[c] \in Seq(Packets)
    BY DEF SequenceTypeOK
  <2>2. DOMAIN buffer[c] = 1 .. RespPackets[c] /\ DOMAIN buffer[c] = 1 .. Len(buffer[c])
    BY <1>4, <2>1, LenProperties DEF Response
  <2>3. QED  BY <2>2
<1>6. verdict[c] \in Verdicts
  BY <1>3, <1>5, BufferedFacts
<1>7. requestID'[c] = requestID[c] /\ verdict'[c] = verdict[c]
  BY <1>3, <1>6, StepKinds DEF NamesKept, Verdicts, NoOutcome
<1>8. QED  BY <1>2, <1>4, <1>7 DEF Response

LEMMA WholeStep ==
  ASSUME Inductive, AnsweredInv, SpacedInv', WholeAnswer, [Next]_vars
  PROVE  WholeAnswer'
<1> SUFFICES ASSUME NEW c \in Calls, outcome'[c] \in Verdicts, UniquelyNamed(c)'
             PROVE  buffer'[c] = Response(c, verdict[c])'
  BY DEF WholeAnswer
<1>1. CASE outcome[c] \in Verdicts
  BY <1>1, WholeKept
<1>2. CASE outcome[c] \notin Verdicts
  BY <1>2, AnswerComesByReceipt, ReceivedWhole
<1>3. QED  BY <1>1, <1>2

\* A call that resolves with an answer has assembled every packet of the device's
\* response to its own request, each once and in order, unless another call drew the
\* same request ID for the same command: neither the packets of other calls, nor late
\* responses, nor the resets by which others drop packets can make it wrong.
THEOREM AnswersAreWhole == Spec => []WholeAnswer
<1>1. Init => AnswerInv
  <2> SUFFICES ASSUME Init PROVE AnswerInv
    OBVIOUS
  <2>1. OrderInv /\ SpacedInv
    BY EmptySeq DEF Init, OrderInv, SpacedInv
  <2>2. AnsweredInv /\ WholeAnswer
    BY DEF Init, AnsweredInv, WholeAnswer, Verdicts, NoOutcome
  <2>3. QED  BY <2>1, <2>2 DEF AnswerInv
<1>2. Inductive /\ AnswerInv /\ [Next]_vars => AnswerInv'
  BY OrderStep, AnsweredStep, WholeStep DEF AnswerInv
<1>3. AnswerInv => WholeAnswer
  BY DEF AnswerInv
<1>4. QED
  BY <1>1, <1>2, <1>3, InductiveInit, InductiveStep, PTL DEF Spec

-----------------------------------------------------------------------------
(***************************************************************************)
(* Calls of UsbTransport made one after the other on a device that stays   *)
(* plugged and does not fail by itself, as long as no call times out: they *)
(* succeed and they leave nothing behind in the device.                    *)
(*                                                                         *)
(* One call at a time has a thread under way.  Before its race and after   *)
(* it the device has neither a request nor a packet; in the race, the      *)
(* device and the buffer hold between them the one exchange of the call.   *)
(***************************************************************************)
\* How far the exchange of a racing call has come.
Sending(c) ==
  /\ pc[Request(c)] = "out" /\ asked = {} /\ inQueue = <<>> /\ buffer[c] = <<>>
  /\ left[c] = 0 => ReqPackets[c] = 0
Waiting(c) ==
  pc[Request(c)] = "in" /\ asked = {c} /\ inQueue = <<>> /\ buffer[c] = <<>>
Receiving(c) ==
  /\ pc[Request(c)] = "in" /\ asked = {} /\ inQueue # <<>>
  /\ Len(buffer[c]) + Len(inQueue) = RespPackets[c]
  /\ \A i \in 1 .. Len(inQueue) : inQueue[i].of = c
Exchange(c) == Sending(c) \/ Waiting(c) \/ Receiving(c)

Fine(c, o) == \/ o \in Verdicts \cup {NoOutcome, "tooLarge"}
              \/ o = "rejected" /\ ReqPackets[c] = 0

Alone(c) ==
  /\ \A d \in Calls : Busy(c) /\ Busy(d) => c = d
  /\ pc[Sender(c)] \notin {"uRelease", "uReset", "uClose"}
  /\ pc[Sender(c)] \in {"select", "reset", "claim"} => opened
  /\ pc[Sender(c)] \in {"idle"} \cup OpenPC => buffer[c] = <<>>
  /\ pc[Sender(c)] = "race" => opened /\ claimed /\ Exchange(c)
  /\ Fine(c, outcome[c])

Orderly ==
  /\ aborted = {}
  /\ \A c \in Calls : Alone(c)
  /\ (\A c \in Calls : pc[Sender(c)] # "race") => asked = {} /\ inQueue = <<>>

Sequential == MaxConcurrent = 1 /\ Faults = {}
SequentialInv == Sequential /\ plugged /\ NoTimeout => Orderly

LEMMA SequentialInit == Init => SequentialInv
BY ThreadFacts DEF Init, SequentialInv, Orderly, Alone, Busy, OpenPC, Fine, NoOutcome

\* Only the one call has threads under way, and its request only in the race.
LEMMA OneAtATime ==
  ASSUME Inductive, NoTimeout, Orderly
  PROVE  /\ \A t \in Threads : pc[t] \notin {"idle", "done"} =>
              /\ Busy(CallOf(t))
              /\ ~IsSender(t) => pc[Sender(CallOf(t))] = "race" /\ pc[t] \in {"out", "in"}
         /\ \A t \in Threads : pc[t] \in OpenPC \cup ClosePC =>
              /\ t = Sender(CallOf(t))
              /\ \A u \in Threads : u # t => pc[u] \in {"idle", "done"}
              /\ \A c \in Calls : pc[Sender(c)] # "race"
<1> USE ThreadFacts, TypeOKParts DEF Inductive, ControlTypeOK
<1>1. ASSUME NEW t \in Threads, pc[t] \notin {"idle", "done"}
      PROVE  /\ Busy(CallOf(t))
             /\ ~IsSender(t) => pc[Sender(CallOf(t))] = "race" /\ pc[t] \in {"out", "in"}
  <2>1. CASE IsSender(t)
    BY <1>1, <2>1 DEF Busy
  <2>2. CASE ~IsSender(t)
    <3>1. pc[Sender(CallOf(t))] = "race"
      BY <1>1, <2>2 DEF NoTimeout, PhaseInv, CallPhase
    <3>2. pc[t] \in {"out", "in"}
      BY <2>2, <3>1 DEF Orderly, Alone, Exchange, Sending, Waiting, Receiving
    <3> QED BY <3>1, <3>2 DEF Busy
  <2> QED BY <2>1, <2>2
<1>2. ASSUME NEW t \in Threads, pc[t] \in OpenPC \cup ClosePC
      PROVE  /\ t = Sender(CallOf(t))
             /\ \A u \in Threads : u # t => pc[u] \in {"idle", "done"}
             /\ \A c \in Calls : pc[Sender(c)] # "race"
  <2>1. pc[t] \notin {"idle", "done", "out", "in", "race"}
    BY <1>2 DEF OpenPC, ClosePC
  <2>2. t = Sender(CallOf(t)) /\ Busy(CallOf(t))
    BY <1>1, <2>1
  <2>3. ASSUME NEW c \in Calls, Busy(c) PROVE c = CallOf(t)
    BY <2>2, <2>3 DEF Orderly, Alone
  <2>4. \A c \in Calls : pc[Sender(c)] # "race"
    BY <2>1, <2>2, <2>3 DEF Busy
  <2>5. ASSUME NEW u \in Threads, u # t, pc[u] \notin {"idle", "done"} PROVE FALSE
    <3>1. Busy(CallOf(u)) /\ IsSender(u)
      BY <1>1, <2>4, <2>5
    <3> QED BY <2>2, <2>3, <2>5, <3>1
  <2> QED BY <2>2, <2>4, <2>5
<1> QED BY <1>1, <1>2

\* The sender of the one call goes on outside its race.
LEMMA SenderGoesOn ==
  ASSUME Inductive, NoTimeout, Orderly, NEW c \in Calls,
         \A d \in Calls \ {c} : ~Busy(d),
         NEW next \in {"open", "select", "reset", "claim", "done"} \cup ClosePC,
         \/ pc[Sender(c)] \in {"idle"} \cup OpenPC
         \/ pc[Sender(c)] \in ClosePC /\ next \in ClosePC \cup {"done"},
         GoTo(Sender(c), next), next \in {"select", "reset", "claim"} => opened',
         UNCHANGED buffer, aborted' = {}, asked' = {}, inQueue' = <<>>,
         outcome' \in {outcome, [outcome EXCEPT ![c] = "tooLarge"]}
  PROVE  Orderly'
<1> USE ThreadFacts, TypeOKParts DEF Inductive, ControlTypeOK
<1>1. pc' = [pc EXCEPT ![Sender(c)] = next]
  BY DEF GoTo
<1>2. ASSUME NEW d \in Calls, d # c
      PROVE  Alone(d)' /\ pc'[Sender(d)] # "race"
  <2>1. pc'[Sender(d)] = pc[Sender(d)] /\ pc[Sender(d)] \in {"idle", "done"} /\ ~Busy(d)'
    BY <1>1, <1>2 DEF Busy
  <2>2. outcome'[d] = outcome[d] /\ buffer'[d] = buffer[d] /\ Alone(d)
    BY <1>2 DEF Orderly
  <2> QED BY <2>1, <2>2 DEF Alone, OpenPC, Busy
<1>3. pc'[Sender(c)] = next /\ next \notin {"idle", "race"}
  BY <1>1 DEF ClosePC
<1>4. Alone(c)'
  <2>1. \A d \in Calls : Busy(d)' => c = d
    BY <1>1 DEF Busy
  <2>2. Alone(c)
    BY DEF Orderly
  <2>3. next \in OpenPC => buffer[c] = <<>>
    BY <2>2 DEF Alone, OpenPC, ClosePC
  <2>4. Fine(c, outcome'[c])
    BY <2>2 DEF Fine, Alone
  <2>5. next \notin {"uRelease", "uReset", "uClose"}
    BY DEF ClosePC
  <2> QED BY <1>3, <2>1, <2>3, <2>4, <2>5 DEF Alone
<1> QED BY <1>2, <1>3, <1>4 DEF Orderly

\* The race of the one call ends.
LEMMA RaceEnds ==
  ASSUME Inductive, NoTimeout, Orderly, NEW c \in Calls, pc[Sender(c)] = "race",
         NEW o, RequestSettles(c, o), Fine(c, o), o # NoOutcome,
         \A d \in Calls \ {c} : buffer'[d] = buffer[d],
         aborted' = {}, asked' = {}, inQueue' = <<>>
  PROVE  Orderly'
<1> USE ThreadFacts, TypeOKParts DEF Inductive, ControlTypeOK
<1>1. /\ pc' = [pc EXCEPT ![Request(c)] = "done", ![Sender(c)] = "fRelease"]
      /\ outcome' = [outcome EXCEPT ![c] = o]
  BY DEF RequestSettles
<1>2. \A d \in Calls \ {c} : ~Busy(d)
  BY DEF Orderly, Alone, Busy
<1>3. ASSUME NEW d \in Calls, d # c
      PROVE  Alone(d)' /\ pc'[Sender(d)] # "race"
  <2>1. pc'[Sender(d)] = pc[Sender(d)] /\ pc[Sender(d)] \in {"idle", "done"} /\ ~Busy(d)'
    BY <1>1, <1>2, <1>3 DEF Busy
  <2>2. outcome'[d] = outcome[d] /\ buffer'[d] = buffer[d] /\ Alone(d)
    BY <1>1, <1>3 DEF Orderly
  <2> QED BY <2>1, <2>2 DEF Alone, OpenPC, Busy
<1>4. Alone(c)' /\ pc'[Sender(c)] # "race"
  <2>1. \A d \in Calls : Busy(d)' => c = d
    BY <1>1, <1>2 DEF Busy
  <2>2. pc'[Sender(c)] = "fRelease" /\ outcome'[c] = o
    BY <1>1
  <2> QED BY <2>1, <2>2 DEF Alone, OpenPC
<1> QED BY <1>3, <1>4 DEF Orderly

\* The race of the one call goes on, or begins.
LEMMA RaceGoesOn ==
  ASSUME Inductive, NoTimeout, Orderly, NEW c \in Calls,
         \A d \in Calls \ {c} : ~Busy(d), pc'[Sender(c)] = "race",
         \A d \in Calls \ {c} : pc'[Sender(d)] = pc[Sender(d)] /\ buffer'[d] = buffer[d],
         opened', claimed', Exchange(c)', aborted' = {}, UNCHANGED outcome
  PROVE  Orderly'
<1>1. ASSUME NEW d \in Calls, d # c PROVE Alone(d)'
  <2>1. pc'[Sender(d)] = pc[Sender(d)] /\ pc[Sender(d)] \in {"idle", "done"} /\ ~Busy(d)'
    BY <1>1 DEF Busy
  <2>2. outcome'[d] = outcome[d] /\ buffer'[d] = buffer[d] /\ Alone(d)
    BY <1>1 DEF Orderly
  <2> QED BY <2>1, <2>2 DEF Alone, OpenPC, Busy
<1>2. Alone(c)'
  <2>1. \A d \in Calls : Busy(d)' => c = d
    BY DEF Busy
  <2>2. Fine(c, outcome'[c])
    BY DEF Orderly, Alone
  <2> QED BY <2>1, <2>2 DEF Alone, OpenPC
<1> QED BY <1>1, <1>2 DEF Orderly

-----------------------------------------------------------------------------
(***************************************************************************)
(* One lemma for each kind of step.                                        *)
(***************************************************************************)
LEMMA NothingToDrop == ASSUME NEW k \in 1 .. Len(<<>>) + 1 PROVE SubSeq(<<>>, k, Len(<<>>)) = <<>>
<1>1. Len(<<>>) = 0 /\ k = 1
  OBVIOUS
<1> QED BY <1>1, EmptySeq, SubSeqEmpty

LEMMA StartStep ==
  ASSUME Inductive, Sequential, NoTimeout, Orderly, NEW c \in Calls, Start(c)
  PROVE  Orderly'
<1>1. \A d \in Calls : ~Busy(d)
  <2>1. SUFFICES ASSUME NEW d \in Calls, Busy(d) PROVE FALSE
    OBVIOUS
  <2>2. {e \in Calls : pc[Sender(e)] \notin {"idle", "done"}} = {d}
    BY <2>1 DEF Orderly, Alone, Busy
  <2>3. Cardinality({d}) = 1
    BY FS_Singleton
  <2> QED BY <2>2, <2>3 DEF Start, Sequential
<1>2. \A d \in Calls : pc[Sender(d)] # "race"
  BY <1>1 DEF Busy
<1>3. asked = {} /\ inQueue = <<>> /\ aborted = {}
  BY <1>2 DEF Orderly
<1> QED BY <1>1, <1>3, SenderGoesOn DEF Start, endpointVars, callVars

LEMMA OpenOrCloseStep ==
  ASSUME Inductive, Sequential, plugged, NoTimeout, Orderly, NEW t \in Threads, OpenOrClose(t)
  PROVE  Orderly'
<1> DEFINE c == CallOf(t)
<1>1. pc[t] \in OpenPC \cup ClosePC
  BY DEF OpenOrClose, DeviceOpens, ConfigurationSelected, DeviceOpenFails,
    DeviceResets, ResetFails, InterfaceClaimed, ClaimFails, InterfaceReleased,
    ReleaseFails, DeviceCloses, CloseFails, OpenPC, ClosePC
<1>2. /\ c \in Calls /\ t = Sender(c) /\ IsSender(t)
      /\ \A u \in Threads : u # t => pc[u] \in {"idle", "done"}
      /\ \A d \in Calls : pc[Sender(d)] # "race"
  BY <1>1, OneAtATime, ThreadFacts
<1>3. asked = {} /\ inQueue = <<>> /\ aborted = {}
  BY <1>2 DEF Orderly
<1>4. \A d \in Calls \ {c} : ~Busy(d)
  BY <1>2, ThreadFacts DEF Busy
<1>5. \A kind : ~MayReject(t, kind)
  <2>1. ~Contended(t)
    BY <1>2 DEF Contended, OpenPC, ClosePC
  <2> QED BY <2>1 DEF MayReject, MayFail, Sequential
<1>6. /\ pc[t] \notin {"uRelease", "uReset", "uClose"}
      /\ pc[t] \in {"select", "reset", "claim"} => opened
      /\ pc[t] \in OpenPC => buffer[c] = <<>>
  BY <1>2 DEF Orderly, Alone
<1>7. AbortTransfers => aborted' = {}
  BY <1>1, <1>2, <1>3 DEF AbortTransfers, Transferring, OpenPC, ClosePC
<1>8. ResetEndpoints => asked' = {} /\ inQueue' = <<>>
  BY <1>3, NothingToDrop DEF ResetEndpoints
<1> HIDE DEF c
<1>9. CASE DeviceOpens(t)
  <2>1. PICK next \in {"reset", "select"} : GoTo(Sender(c), next)
    BY <1>2, <1>9 DEF DeviceOpens
  <2> QED BY <1>1, <1>2, <1>3, <1>4, <1>9, <2>1, SenderGoesOn
    DEF DeviceOpens, endpointVars, callVars, OpenPC
<1>10. CASE ConfigurationSelected(t)
  BY <1>2, <1>3, <1>4, <1>10, SenderGoesOn
  DEF ConfigurationSelected, endpointVars, callVars, OpenPC
<1>11. ~DeviceOpenFails(t) /\ ~ClaimFails(t) /\ ~CloseFails(t)
  BY <1>5, <1>6 DEF DeviceOpenFails, ClaimFails, CloseFails
<1>12. CASE DeviceResets(t) \/ ResetFails(t)
  <2>1. /\ asked' = {} /\ inQueue' = <<>> /\ aborted' = {}
        /\ GoTo(t, AfterReset(pc[t])) /\ UNCHANGED <<deviceVars, callVars, outcome>>
    BY <1>3, <1>7, <1>8, <1>12 DEF DeviceResets, ResetFails, endpointVars
  <2>2. pc[t] \in {"reset", "fReset"}
    BY <1>6, <1>12 DEF DeviceResets, ResetFails
  <2>3. CASE pc[t] = "reset"
    BY <1>2, <1>4, <1>6, <2>1, <2>3, SenderGoesOn DEF AfterReset, OpenPC, callVars, deviceVars
  <2>4. CASE pc[t] = "fReset"
    BY <1>2, <1>4, <2>1, <2>4, SenderGoesOn DEF AfterReset, ClosePC, callVars
  <2> QED BY <2>2, <2>3, <2>4
<1>13. CASE InterfaceClaimed(t)
  <2>1. /\ opened /\ claimed' /\ BeginRequest(c)
        /\ UNCHANGED <<plugged, opened, configured, endpointVars, aborted, verdict>>
    BY <1>2, <1>13 DEF InterfaceClaimed, c
  <2>2. pc[Sender(c)] \in OpenPC /\ buffer[c] = <<>>
    BY <1>2, <1>6, <1>13 DEF InterfaceClaimed, OpenPC
  <2>3. CASE SenderFails(c, "tooLarge") /\ UNCHANGED callVars
    BY <1>2, <1>3, <1>4, <2>1, <2>2, <2>3, SenderGoesOn
    DEF SenderFails, ClosePC, callVars, endpointVars
  <2>4. CASE /\ left' = [left EXCEPT ![c] = ReqPackets[c]]
             /\ pc' = [pc EXCEPT ![Sender(c)] = "race", ![Request(c)] = "out"]
             /\ UNCHANGED <<buffer, outcome>>
    <3>1. /\ pc'[Sender(c)] = "race" /\ pc'[Request(c)] = "out"
          /\ \A d \in Calls \ {c} : pc'[Sender(d)] = pc[Sender(d)]
      BY <1>2, <2>4, ThreadFacts, TypeOKParts DEF Inductive, ControlTypeOK
    <3>2. left'[c] = ReqPackets[c]
      BY <1>2, <2>4, TypeOKParts DEF Inductive, DeviceTypeOK
    <3>3. Exchange(c)'
      BY <1>3, <2>1, <2>2, <2>4, <3>1, <3>2 DEF Exchange, Sending, endpointVars
    <3> QED BY <1>2, <1>3, <1>4, <2>1, <2>4, <3>1, <3>3, RaceGoesOn
  <2> QED BY <2>1, <2>3, <2>4 DEF BeginRequest
<1>14. CASE InterfaceReleased(t)
  <2>1. pc[t] = "fRelease"
    BY <1>6, <1>14 DEF InterfaceReleased
  <2>2. PICK next \in ClosePC : GoTo(Sender(c), next)
    BY <1>2, <1>14, <2>1 DEF InterfaceReleased, AfterRelease, ClosePC
  <2>3. next \notin {"select", "reset", "claim"}
    BY DEF ClosePC
  <2> QED BY <1>2, <1>3, <1>4, <1>7, <1>14, <2>1, <2>2, <2>3, SenderGoesOn
    DEF InterfaceReleased, endpointVars, callVars, ClosePC
<1>15. CASE ReleaseFails(t) \/ DeviceCloses(t)
  <2>1. pc[t] \in ClosePC
    BY <1>6, <1>15 DEF ReleaseFails, DeviceCloses, ClosePC
  <2>2. GoTo(Sender(c), "done") /\ UNCHANGED <<timer, outcome>>
    BY <1>2, <1>15, <2>1 DEF ReleaseFails, DeviceCloses, CloseReturns
  <2>3. aborted' = {} /\ UNCHANGED <<endpointVars, callVars>>
    BY <1>3, <1>7, <1>15 DEF ReleaseFails, DeviceCloses
  <2> QED BY <1>2, <1>3, <1>4, <2>1, <2>2, <2>3, SenderGoesOn DEF endpointVars, callVars
<1> QED BY <1>9, <1>10, <1>11, <1>12, <1>13, <1>14, <1>15 DEF OpenOrClose

LEMMA AnswerStep ==
  ASSUME Inductive, NoTimeout, Orderly, NEW c \in Calls, DeviceAnswers(c)
  PROVE  Orderly'
<1>1. PICK v \in Verdicts : /\ inQueue' = inQueue \o Response(c, v)
                            /\ verdict' = [verdict EXCEPT ![c] = v]
  BY DEF DeviceAnswers
<1>2. /\ c \in asked /\ asked' = asked \ {c}
      /\ UNCHANGED <<deviceVars, pc, aborted, callVars, timer, outcome>>
  BY DEF DeviceAnswers
<1>3. PICK d \in Calls : pc[Sender(d)] = "race"
  BY <1>2 DEF Orderly
<1>4. opened /\ claimed /\ aborted = {} /\ Exchange(d)
  BY <1>3 DEF Orderly, Alone
<1>5. d = c /\ Waiting(c)
  BY <1>2, <1>4 DEF Exchange, Sending, Waiting, Receiving
<1>6. \A e \in Calls \ {c} : ~Busy(e)
  BY <1>3, <1>5 DEF Orderly, Alone, Busy
<1>7. requestID[c] # NoID
  BY <1>2 DEF Inductive, AskedInv
<1>8. /\ Response(c, v) \in Seq(Packets) /\ Len(Response(c, v)) = RespPackets[c]
      /\ \A i \in 1 .. RespPackets[c] : Response(c, v)[i] = ResponsePacket(c, v, i)
  BY <1>7, ResponseType, TypeOKParts DEF Inductive
<1>9. inQueue' = Response(c, v)
  BY <1>1, <1>5, <1>8, ConcatEmptySeq DEF Waiting
<1>10. inQueue' # <<>> /\ RespPackets[c] \in Nat \ {0} /\ Len(inQueue') = RespPackets[c]
  BY <1>8, <1>9
<1>11. \A i \in 1 .. Len(inQueue') : inQueue'[i].of = c
  BY <1>8, <1>9 DEF ResponsePacket
<1>12. /\ buffer'[c] = <<>> /\ asked' = {} /\ pc'[Request(c)] = "in"
       /\ Len(<<>>) + RespPackets[c] = RespPackets[c]
  BY <1>2, <1>5, <1>10 DEF Waiting, callVars
<1>13. Exchange(c)'
  BY <1>10, <1>11, <1>12 DEF Exchange, Receiving
<1> QED BY <1>2, <1>3, <1>4, <1>5, <1>6, <1>13, RaceGoesOn DEF callVars, deviceVars

\* A packet that the racing call finds in the queue is a packet of its own response.
LEMMA OwnPackets ==
  ASSUME Inductive, NEW c \in Calls, Receiving(c)
  PROVE  /\ IsCurrentAction(c, Head(inQueue))
         /\ Head(inQueue).p1 = RespPackets[c]
         /\ Head(inQueue) \in Packets
         /\ Len(inQueue) \in Nat \ {0} /\ Len(Tail(inQueue)) = Len(inQueue) - 1
         /\ \A i \in 1 .. Len(Tail(inQueue)) : Tail(inQueue)[i].of = c
<1>1. inQueue \in Seq(Packets) /\ inQueue # <<>>
  BY TypeOKParts DEF Inductive, SequenceTypeOK, Receiving
<1>2. /\ Len(inQueue) \in Nat \ {0} /\ Head(inQueue) = inQueue[1] /\ Head(inQueue) \in Packets
      /\ Len(Tail(inQueue)) = Len(inQueue) - 1
      /\ \A i \in 1 .. Len(Tail(inQueue)) : Tail(inQueue)[i] = inQueue[i + 1]
  BY <1>1, HeadTailProperties, EmptySeq, LenProperties
<1>3. 1 \in 1 .. Len(inQueue) /\ \A i \in 1 .. Len(inQueue) - 1 : i + 1 \in 1 .. Len(inQueue)
  BY <1>2
<1>4. inQueue[1].of = c /\ Stamped(inQueue[1], requestID, verdict)
  BY <1>3 DEF Receiving, Inductive, PacketInv
<1> QED BY <1>2, <1>3, <1>4 DEF Stamped, IsCurrentAction, Receiving

LEMMA ReceiptStep ==
  ASSUME Inductive, NoTimeout, Orderly, NEW c \in Calls, pc[Sender(c)] = "race",
         \A d \in Calls \ {c} : ~Busy(d), PacketReceived(c)
  PROVE  Orderly'
<1>1. /\ inQueue # <<>> /\ inQueue' = Tail(inQueue)
      /\ buffer' = [buffer EXCEPT ![c] = Append(@, Head(inQueue))]
      /\ UNCHANGED <<deviceVars, asked, aborted, requestID, left, verdict>>
  BY DEF PacketReceived
<1>2. opened /\ claimed /\ aborted = {} /\ Exchange(c)
  BY DEF Orderly, Alone
<1>3. Receiving(c)
  BY <1>1, <1>2 DEF Exchange, Sending, Waiting
<1>4. /\ Head(inQueue).p1 = RespPackets[c] /\ Head(inQueue) \in Packets
      /\ Len(inQueue) \in Nat \ {0} /\ Len(inQueue') = Len(inQueue) - 1
      /\ \A i \in 1 .. Len(inQueue') : inQueue'[i].of = c
  BY <1>1, <1>3, OwnPackets
<1>5. buffer \in [Calls -> Seq(Packets)] /\ inQueue \in Seq(Packets)
  BY TypeOKParts DEF Inductive, SequenceTypeOK
<1>6. buffer'[c] = Append(buffer[c], Head(inQueue)) /\ \A d \in Calls \ {c} : buffer'[d] = buffer[d]
  BY <1>1, <1>5
<1>7. /\ buffer'[c] \in Seq(Packets) /\ Len(buffer[c]) \in Nat
      /\ Len(buffer'[c]) = Len(buffer[c]) + 1
  BY <1>4, <1>5, <1>6, AppendProperties, LenProperties
<1>8. /\ Len(buffer'[c]) + Len(inQueue') = RespPackets[c] /\ RespPackets[c] \in Nat
      /\ asked = {} /\ pc[Request(c)] = "in"
  BY <1>3, <1>4, <1>7 DEF Receiving
<1>9. CASE EnoughPackets(Len(buffer'[c]), Head(inQueue).p1)
  <2>1. PICK i \in DOMAIN buffer'[c] : RequestSettles(c, buffer'[c][i].status)
    BY <1>9 DEF PacketReceived
  <2>2. buffer'[c][i] \in Packets
    BY <1>7, LenProperties, ElementOfSeq
  <2>3. buffer'[c][i].status \in Verdicts
    BY <2>2 DEF Packets
  <2>4. inQueue' = <<>>
    <3>1. inQueue' \in Seq(Packets)
      BY <1>1, <1>5, HeadTailProperties
    <3>2. Len(inQueue') \in Nat
      BY <3>1, LenProperties
    <3>3. Len(inQueue') = 0
      BY <1>4, <1>7, <1>8, <1>9, <3>2 DEF EnoughPackets
    <3> QED BY <3>1, <3>3, EmptySeq
  <2> DEFINE o == buffer'[c][i].status
  <2>5. Fine(c, o) /\ o # NoOutcome /\ RequestSettles(c, o)
    BY <2>1, <2>3 DEF Fine, Verdicts, NoOutcome
  <2> HIDE DEF o
  <2> QED BY <1>1, <1>2, <1>6, <1>8, <2>4, <2>5, RaceEnds
<1>10. CASE ~EnoughPackets(Len(buffer'[c]), Head(inQueue).p1)
  <2>1. UNCHANGED <<pc, timer, outcome>>
    BY <1>10 DEF PacketReceived
  <2>2. inQueue' # <<>>
    <3>1. Len(inQueue') # 0
      BY <1>4, <1>7, <1>8, <1>10 DEF EnoughPackets
    <3> QED BY <3>1
  <2>3. Exchange(c)'
    BY <1>1, <1>4, <1>8, <2>1, <2>2 DEF Exchange, Receiving
  <2> QED BY <1>1, <1>2, <1>6, <2>1, <2>3, RaceGoesOn DEF deviceVars
<1> QED BY <1>9, <1>10

LEMMA TransferStep ==
  ASSUME Inductive, Sequential, NoTimeout, Orderly, NEW c \in Calls, Transfer(c)
  PROVE  Orderly'
<1> USE ThreadFacts
<1>1. pc[Request(c)] \notin {"idle", "done"}
  BY DEF Transfer, PacketSent, TransferOutFails, TransferRefused,
    PacketReceived, OtherPacketReceived, TransferInFails, TransferInReady
<1>2. pc[Sender(c)] = "race"
  BY <1>1, OneAtATime
<1>3. opened /\ claimed /\ aborted = {} /\ Exchange(c)
  BY <1>2 DEF Orderly, Alone
<1>4. \A d \in Calls \ {c} : ~Busy(d)
  BY <1>2 DEF Orderly, Alone, Busy
<1>5. \A kind : ~MayFail(kind)
  BY DEF MayFail, Sequential
<1>6. CASE PacketSent(c)
  <2>1. /\ pc[Request(c)] = "out" /\ left[c] > 0
        /\ left' = [left EXCEPT ![c] = @ - 1] /\ aborted' = aborted \ {Request(c)}
        /\ UNCHANGED <<deviceVars, inQueue, requestID, buffer, verdict>>
    BY <1>6 DEF PacketSent
  <2>2. Sending(c)
    BY <1>3, <2>1 DEF Exchange, Waiting, Receiving
  <2>3. left[c] \in Nat /\ left'[c] = left[c] - 1
    BY <2>1, TypeOKParts DEF Inductive, DeviceTypeOK
  <2>4. PICK next \in {"in", "out"} :
          /\ GoTo(Request(c), next) /\ UNCHANGED <<timer, outcome>>
          /\ \/ next = "in" /\ asked' = {c}
             \/ next = "out" /\ asked' = {} /\ left[c] # 1
    <3>1. CASE left[c] = 1
      BY <1>3, <1>6, <2>2, <3>1 DEF PacketSent, BeginReceive, StartTransfer, Sending
    <3>2. CASE left[c] # 1
      BY <1>3, <1>6, <2>2, <3>2 DEF PacketSent, StartTransfer, Sending
    <3> QED BY <3>1, <3>2
  <2>5. /\ pc'[Request(c)] = next /\ \A d \in Calls : pc'[Sender(d)] = pc[Sender(d)]
    BY <2>4, TypeOKParts DEF GoTo, Inductive, ControlTypeOK
  <2>6. Exchange(c)'
    <3>1. inQueue' = <<>> /\ buffer'[c] = <<>>
      BY <2>1, <2>2 DEF Sending
    <3>2. CASE next = "in"
      BY <2>4, <2>5, <3>1, <3>2 DEF Exchange, Waiting
    <3>3. CASE next = "out"
      <4>1. left'[c] # 0
        BY <2>1, <2>3, <2>4, <3>3
      <4> QED BY <2>4, <2>5, <3>1, <3>3, <4>1 DEF Exchange, Sending
    <3> QED BY <3>2, <3>3
  <2> QED BY <1>2, <1>3, <1>4, <2>1, <2>4, <2>5, <2>6, RaceGoesOn DEF deviceVars
<1>7. CASE TransferOutFails(c)
  <2>1. /\ pc[Request(c)] = "out" /\ left[c] = 0 /\ RequestSettles(c, "rejected")
        /\ aborted' = aborted \ {Request(c)}
        /\ UNCHANGED <<deviceVars, endpointVars, callVars, verdict>>
    BY <1>3, <1>5, <1>7 DEF TransferOutFails
  <2>2. Sending(c)
    BY <1>3, <2>1 DEF Exchange, Waiting, Receiving
  <2>3. Fine(c, "rejected") /\ "rejected" # NoOutcome
    BY <2>1, <2>2 DEF Sending, Fine, NoOutcome
  <2> QED BY <1>2, <1>3, <2>1, <2>2, <2>3, RaceEnds DEF Sending, endpointVars, callVars
<1>8. ~TransferRefused(c)
  BY <1>3 DEF TransferRefused, Exchange, Sending, Waiting, Receiving
<1>9. ~TransferInFails(c)
  BY <1>3, <1>5 DEF TransferInFails
<1>10. ~OtherPacketReceived(c)
  <2>1. SUFFICES ASSUME OtherPacketReceived(c) PROVE FALSE
    OBVIOUS
  <2>2. inQueue # <<>> /\ ~IsCurrentAction(c, Head(inQueue))
    BY <1>5, <2>1 DEF OtherPacketReceived
  <2>3. Receiving(c)
    BY <1>3, <2>2 DEF Exchange, Sending, Waiting
  <2> QED BY <2>2, <2>3, OwnPackets
<1>11. CASE PacketReceived(c)
  BY <1>2, <1>4, <1>11, ReceiptStep
<1> QED BY <1>6, <1>7, <1>8, <1>9, <1>10, <1>11 DEF Transfer

-----------------------------------------------------------------------------
LEMMA SequentialStep == Inductive /\ SequentialInv /\ [Next]_vars => SequentialInv'
<1> SUFFICES ASSUME Inductive, SequentialInv, [Next]_vars, Sequential, plugged', NoTimeout'
             PROVE  Orderly'
  BY DEF SequentialInv, Sequential
<1>1. NoTimeout
  BY TimerEnds, TypeOKParts DEF NoTimeout
<1>2. ~Unplug
  BY DEF Unplug
<1>3. plugged
  <2>1. UNCHANGED plugged
    BY <1>2 DEF Next, vars, deviceVars, Start, Transfer, PacketSent, TransferOutFails,
      TransferRefused, PacketReceived, OtherPacketReceived, TransferInFails, TimeoutFires,
      DeviceAnswers, OpenOrClose, DeviceOpens, ConfigurationSelected, DeviceOpenFails,
      DeviceResets, ResetFails, InterfaceClaimed, ClaimFails, InterfaceReleased,
      ReleaseFails, DeviceCloses, CloseFails
  <2> QED BY <2>1
<1>4. Orderly
  BY <1>1, <1>3 DEF SequentialInv
<1>5. \A c \in Calls : ~TimeoutFires(c)
  BY TypeOKParts DEF TimeoutFires, NoTimeout, Inductive, ControlTypeOK
<1>6. CASE UNCHANGED vars
  BY <1>4, <1>6 DEF vars, deviceVars, endpointVars, callVars, Orderly, Alone, Busy,
    Exchange, Sending, Waiting, Receiving
<1> QED BY <1>1, <1>2, <1>3, <1>4, <1>5, <1>6, StartStep, TransferStep, AnswerStep,
  OpenOrCloseStep DEF Next

LEMMA SequentialHolds == Spec => [](Inductive /\ SequentialInv)
BY InductiveInit, InductiveStep, SequentialInit, SequentialStep, PTL DEF Spec

\* Calls made one after the other on a device that stays plugged and does not fail by
\* itself get their answer: no USB operation of the transport disturbs another one and
\* receive() never finds the device closed. A call without a packet to send, or with
\* too many, is the only one to fail.
THEOREM OneAfterAnotherSucceeds == Spec => []SequentialCallsSucceed
<1>1. SequentialInv => SequentialCallsSucceed
  BY DEF SequentialInv, Sequential, SequentialCallsSucceed, Orderly, Alone, Fine
<1> QED BY <1>1, SequentialHolds, PTL

\* Such calls leave neither a request nor a packet in the device for the next one: the
\* number of packets in the header ends receive() with the last packet of the response.
THEOREM OneAfterAnotherLeavesNothing == Spec => []NothingLeftBehind
<1>1. SequentialInv => NothingLeftBehind
  BY DEF SequentialInv, Sequential, NothingLeftBehind, AllCallsReturned, Orderly
<1> QED BY <1>1, SequentialHolds, PTL

=============================================================================
