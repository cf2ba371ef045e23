----------------------------- MODULE EapduProofs -----------------------------
EXTENDS EapduExchange, SequenceTheorems, FiniteSetTheorems, TLAPS

\* A set of natural numbers has a least element: the order of Nat is well founded.
Less == {p \in Nat \X Nat : p[1] < p[2]}
LEMMA LessWellFounded == IsWellFoundedOn(Less, Nat)
<1>1. OpToRel(<, Nat) = Less
  BY DEF OpToRel, Less
<1> QED BY <1>1, NatLessThanWellFounded

LEMMA LeastExists ==
  ASSUME NEW T \in SUBSET Nat, T # {}
  PROVE  \E x \in T : \A y \in T : ~(y < x)
<1>1. \A x, y \in Nat : x < y => <<x, y>> \in Less
  BY DEF Less
<1>2. T \subseteq Nat
  OBVIOUS
<1>3. PICK x \in T : \A y \in T : ~(<<y, x>> \in Less)
  BY LessWellFounded, WFMin, <1>2
<1> QED BY <1>1, <1>2, <1>3

\* Induction over the naturals up to a bound, for a set.
LEMMA Induction ==
  ASSUME NEW m \in Nat, NEW n \in Nat, NEW T, m \in T, \A i \in m .. n - 1 : i \in T => i + 1 \in T
  PROVE  m .. n \subseteq T
<1> DEFINE Left == (m .. n) \ T
<1>1. SUFFICES ASSUME Left # {} PROVE FALSE
  OBVIOUS
<1>2. Left \in SUBSET Nat
  OBVIOUS
<1>3. PICK k \in Left : \A y \in Left : ~(y < k)
  BY <1>1, <1>2, LeastExists
<1>4. k # m /\ k - 1 \in m .. n - 1 /\ k - 1 < k
  BY <1>3
<1>5. k - 1 \in T
  BY <1>3, <1>4
<1> QED BY <1>3, <1>4, <1>5

LEMMA FunctionIsSeq ==
  ASSUME NEW n \in Nat, NEW f, DOMAIN f = 1 .. n, f = [i \in 1 .. n |-> f[i]]
  PROVE  f \in Seq({f[i] : i \in 1 .. n}) /\ Len(f) = n
<1>1. f \in Seq({f[i] : i \in 1 .. n})
  BY SeqDef
<1>2. Len(f) \in Nat /\ DOMAIN f = 1 .. Len(f)
  BY <1>1, LenProperties
<1> QED BY <1>1, <1>2

(***************************************************************************)
(* FlattenSeq is the last value of any function that meets its recursion.  *)
(***************************************************************************)
Joins(g, seqs, n) == g[1] = seqs[1] /\ \A i \in 2 .. n : g[i] = g[i - 1] \o seqs[i]

LEMMA Flattens ==
  ASSUME NEW seqs, NEW n \in Nat \ {0}, Len(seqs) = n,
         NEW S, NEW g \in [1 .. n -> S], Joins(g, seqs, n)
  PROVE  FlattenSeq(seqs) = g[n]
<1> DEFINE Meets(f) == f = [i \in 1 .. n |-> IF i = 1 THEN seqs[i] ELSE f[i - 1] \o seqs[i]]
           chosen == CHOOSE f : Meets(f)
           T == {i \in 1 .. n : chosen[i] = g[i]}
<1>1. ASSUME NEW i \in 1 .. n PROVE g[i] = IF i = 1 THEN seqs[i] ELSE g[i - 1] \o seqs[i]
  <2>1. i = 1 \/ i \in 2 .. n
    OBVIOUS
  <2> QED BY <2>1 DEF Joins
<1>2. Meets(g)
  <2>1. g = [i \in 1 .. n |-> g[i]]
    OBVIOUS
  <2> QED BY <1>1, <2>1, Zenon
<1>3. Meets(chosen)
  BY <1>2
<1>4. FlattenSeq(seqs) = chosen[n]
  BY DEF FlattenSeq
<1>5. chosen[1] = seqs[1] /\ \A i \in 2 .. n : chosen[i] = chosen[i - 1] \o seqs[i]
  <2> HIDE DEF chosen
  <2>1. \A i \in 1 .. n : chosen[i] = IF i = 1 THEN seqs[i] ELSE chosen[i - 1] \o seqs[i]
    BY <1>3, Zenon
  <2> HIDE DEF Meets
  <2>2. 1 \in 1 .. n /\ \A i \in 2 .. n : i \in 1 .. n /\ i # 1
    OBVIOUS
  <2> QED BY <2>1, <2>2
<1> HIDE DEF chosen, Meets
<1>6. 1 \in T
  BY <1>5 DEF Joins
<1>7. ASSUME NEW i \in 1 .. n - 1, i \in T PROVE i + 1 \in T
  <2>1. i + 1 \in 2 .. n /\ (i + 1) - 1 = i
    OBVIOUS
  <2>2. chosen[i + 1] = chosen[i] \o seqs[i + 1] /\ g[i + 1] = g[i] \o seqs[i + 1]
    BY <1>5, <2>1 DEF Joins
  <2>3. i + 1 \in 1 .. n /\ chosen[i] = g[i]
    BY <1>7, <2>1
  <2> QED BY <2>2, <2>3
<1> HIDE DEF T
<1>8. 1 .. n \subseteq T
  BY <1>6, <1>7, Induction
<1> QED BY <1>4, <1>8 DEF T

LEMMA FlattensOne ==
  ASSUME NEW n \in Nat, n = 1, NEW s, Len(s) = n, NEW S, s \in [1 .. n -> S]
  PROVE  FlattenSeq(s) = s[1]
<1>1. n \in Nat \ {0} /\ Joins(s, s, n)
  BY DEF Joins
<1> QED BY <1>1, Flattens

(***************************************************************************)
(* The arithmetic of the cuts.                                             *)
(***************************************************************************)
LEMMA Multiples ==
  ASSUME NEW m \in Nat, NEW i \in Nat, NEW j \in Nat, i <= j
  PROVE  i * m <= j * m /\ i * m \in Nat /\ (i + 1) * m = i * m + m
BY SMT

LEMMA RoundedUp ==
  ASSUME NEW n \in Nat \ {0}, NEW m \in Nat \ {0}, NEW t, t = (n + m - 1) \div m
  PROVE  t \in Nat \ {0} /\ (t - 1) * m < n /\ n <= t * m
<1>1. t \in Int /\ t * m <= n + m - 1 /\ n + m - 1 < (t + 1) * m
  BY SMT
<1> QED BY <1>1, SMT

(***************************************************************************)
(* A packet: its header, and what lies behind it.                          *)
(***************************************************************************)
Cells == Int \cup Bytes \cup Statuses
M == MAX_DATA_SIZE

LEMMA BehindHeader ==
  ASSUME NEW S, NEW header \in Seq(S), NEW data \in Seq(S), NEW k \in 0 .. Len(data)
  PROVE  SubSeq(header \o data, Len(header) + 1, Len(header) + k) = SubSeq(data, 1, k)
<1> DEFINE packet == header \o data
           h == Len(header)
<1>1. /\ packet \in Seq(S) /\ Len(packet) = h + Len(data) /\ h \in Nat /\ Len(data) \in Nat
      /\ \A i \in 1 .. h + Len(data) : packet[i] = IF i <= h THEN header[i] ELSE data[i - h]
  BY ConcatProperties, LenProperties
<1> HIDE DEF packet, h
<1>2. \A i \in h + 1 .. h + k : packet[i] \in S
  BY <1>1, ElementOfSeq
<1>3. \A i \in 1 .. k : data[i] \in S
  BY <1>1, ElementOfSeq
<1>4. /\ SubSeq(packet, h + 1, h + k) \in Seq(S) /\ Len(SubSeq(packet, h + 1, h + k)) = k
      /\ \A i \in 1 .. k : SubSeq(packet, h + 1, h + k)[i] = packet[h + i]
  BY <1>1, <1>2, SubSeqProperties
<1>5. /\ SubSeq(data, 1, k) \in Seq(S) /\ Len(SubSeq(data, 1, k)) = k
      /\ \A i \in 1 .. k : SubSeq(data, 1, k)[i] = data[i]
  BY <1>1, <1>3, SubSeqProperties
<1>6. \A i \in 1 .. k : packet[h + i] = data[i]
  BY <1>1
<1> QED BY <1>4, <1>5, <1>6, SeqEqual DEF packet, h

(***************************************************************************)
(* The cuts: the packets hold the data, piece by piece.                    *)
(***************************************************************************)
Cut(bytes, i) == IF i * M < Len(bytes) THEN i * M ELSE Len(bytes)

LEMMA Cuts ==
  ASSUME NEW bytes \in Seq(Bytes), bytes # <<>>, NEW n, n = TotalPackets(bytes)
  PROVE  /\ n \in Nat \ {0} /\ Cut(bytes, n) = Len(bytes)
         /\ \A i \in 1 .. n : /\ (i - 1) * M \in Nat /\ (i - 1) * M < Cut(bytes, i)
                              /\ Cut(bytes, i) <= (i - 1) * M + M /\ Cut(bytes, i) <= Len(bytes)
                              /\ Cut(bytes, i) \in Nat
                              /\ i > 1 => Cut(bytes, i - 1) = (i - 1) * M
<1>1. Len(bytes) \in Nat \ {0} /\ M \in Nat \ {0}
  BY FrameAssumption, EmptySeq DEF M
<1>2. n \in Nat \ {0} /\ (n - 1) * M < Len(bytes) /\ Len(bytes) <= n * M
  BY <1>1, RoundedUp DEF TotalPackets, M
<1>3. ASSUME NEW i \in 1 .. n
      PROVE  /\ (i - 1) * M \in Nat /\ (i - 1) * M < Len(bytes) /\ i * M = (i - 1) * M + M
             /\ i * M \in Nat
  <2>1. (i - 1) * M <= (n - 1) * M /\ (i - 1) * M \in Nat
    BY <1>1, <1>2, Multiples
  <2>2. i * M = (i - 1) * M + M /\ i * M \in Nat
    BY <1>1, <1>2, Multiples
  <2>3. (n - 1) * M \in Nat
    BY <1>1, <1>2, Multiples
  <2> QED BY <1>1, <1>2, <2>1, <2>2, <2>3
<1>4. Cut(bytes, n) = Len(bytes)
  BY <1>1, <1>2, <1>3 DEF Cut
<1> QED BY <1>1, <1>2, <1>3, <1>4 DEF Cut

LEMMA Pieces ==
  ASSUME NEW bytes \in Seq(Bytes), bytes # <<>>, NEW i \in 1 .. TotalPackets(bytes)
  PROVE  /\ PacketData(bytes, i) = SubSeq(bytes, (i - 1) * M + 1, Cut(bytes, i))
         /\ PacketData(bytes, i) \in Seq(Bytes)
         /\ Len(PacketData(bytes, i)) = Cut(bytes, i) - (i - 1) * M
         /\ Len(PacketData(bytes, i)) \in 1 .. M
         /\ \A j \in 1 .. Len(PacketData(bytes, i)) : PacketData(bytes, i)[j] = bytes[(i - 1) * M + j]
<1> DEFINE start == (i - 1) * M
           end == Cut(bytes, i)
<1>1. /\ start \in Nat /\ end \in Nat /\ start < end /\ end <= start + M /\ end <= Len(bytes)
      /\ M \in Nat /\ Len(bytes) \in Nat
  BY Cuts, FrameAssumption, LenProperties DEF M
<1>2. PacketData(bytes, i) = SubSeq(bytes, start + 1, end)
  BY DEF PacketData, Cut, M
<1> HIDE DEF start, end
<1>3. \A j \in start + 1 .. end : bytes[j] \in Bytes
  BY <1>1, ElementOfSeq
<1>4. /\ SubSeq(bytes, start + 1, end) \in Seq(Bytes)
      /\ Len(SubSeq(bytes, start + 1, end)) = end - start
      /\ \A j \in 1 .. end - start : SubSeq(bytes, start + 1, end)[j] = bytes[start + j]
  BY <1>1, <1>3, SubSeqProperties
<1>5. end - start \in 1 .. M
  BY <1>1
<1> QED BY <1>2, <1>4, <1>5 DEF start, end

\* The pieces of a text or an array follow each other without gap or overlap (the loop
\* of encode(), frame.ts 49-65).
LEMMA PiecesMakeWhole ==
  ASSUME NEW bytes \in Seq(Bytes), bytes # <<>>
  PROVE  FlattenSeq([i \in 1 .. TotalPackets(bytes) |-> PacketData(bytes, i)]) = bytes
<1> DEFINE n == TotalPackets(bytes)
           pieces == [i \in 1 .. n |-> PacketData(bytes, i)]
           g == [i \in 1 .. n |-> SubSeq(bytes, 1, Cut(bytes, i))]
<1>1. n \in Nat \ {0} /\ Cut(bytes, n) = Len(bytes) /\ Len(bytes) \in Nat
  BY Cuts, LenProperties
<1>2. Len(pieces) = n
  BY <1>1, FunctionIsSeq
<1>3. g[1] = pieces[1]
  <2>1. 1 \in 1 .. n /\ (1 - 1) * M + 1 = 1
    BY <1>1, FrameAssumption DEF M
  <2>2. PacketData(bytes, 1) = SubSeq(bytes, (1 - 1) * M + 1, Cut(bytes, 1))
    BY <2>1, Pieces
  <2> QED BY <2>1, <2>2
<1>4. ASSUME NEW i \in 2 .. n PROVE g[i] = g[i - 1] \o pieces[i]
  <2> DEFINE start == (i - 1) * M
             end == Cut(bytes, i)
  <2>1. /\ start \in Nat /\ end \in Nat /\ start < end /\ end <= Len(bytes)
        /\ Cut(bytes, i - 1) = start
    BY <1>1, Cuts
  <2>2. PacketData(bytes, i) = SubSeq(bytes, start + 1, end)
    BY <1>1, Pieces
  <2> HIDE DEF start, end
  <2>3. SubSeq(bytes, 1, start) \o SubSeq(bytes, start + 1, end) = SubSeq(bytes, 1, end)
    BY <1>1, <2>1, ConcatAdjacentSubSeq
  <2>4. /\ g[i] = SubSeq(bytes, 1, end) /\ pieces[i] = SubSeq(bytes, start + 1, end)
        /\ g[i - 1] = SubSeq(bytes, 1, start)
    <3>1. i \in 1 .. n /\ i - 1 \in 1 .. n
      BY <1>1
    <3> QED BY <2>1, <2>2, <3>1 DEF end
  <2> QED BY <2>3, <2>4
<1>5. g \in [1 .. n -> {g[i] : i \in 1 .. n}]
  OBVIOUS
<1>6. Joins(g, pieces, n)
  <2> HIDE DEF g, pieces, n
  <2> QED BY <1>3, <1>4 DEF Joins
<1>7. g[n] = bytes
  BY <1>1, SubSeqFull
<1> HIDE DEF g, pieces, n
<1>8. FlattenSeq(pieces) = g[n]
  BY <1>1, <1>2, <1>5, <1>6, Flattens
<1> QED BY <1>7, <1>8 DEF pieces, n

Carries(packet, total, index, requestID, data) ==
  /\ packet \in Seq(Cells) /\ Len(packet) = HEADER_SIZE + Len(data)
  /\ packet[P1] = total % UINT16 /\ packet[P2] = index % UINT16
  /\ packet[LC] = requestID % UINT16
  /\ DataOf(packet) = data
  /\ \A i \in 1 .. Len(data) : packet[HEADER_SIZE + i] = data[i]
  /\ \A k \in 0 .. Len(data) : SubSeq(packet, HEADER_SIZE + 1, HEADER_SIZE + k) = SubSeq(data, 1, k)

LEMMA PacketOf ==
  ASSUME NEW command \in Int, NEW total \in Int, NEW index \in Int, NEW requestID \in Int,
         NEW data \in Seq(Cells)
  PROVE  Carries(Header(command, total, index, requestID) \o data, total, index, requestID, data)
<1> DEFINE header == Header(command, total, index, requestID)
           packet == header \o data
<1>1. /\ header \in Seq(Cells) /\ Len(header) = 5
      /\ header[3] = total % UINT16 /\ header[4] = index % UINT16 /\ header[5] = requestID % UINT16
  <2>1. header \in Seq(Int)
    BY FrameAssumption DEF Header, SetUint16
  <2>2. header \in Seq(Cells)
    BY <2>1, SeqMonotonic DEF Cells
  <2> QED BY <2>2 DEF Header, SetUint16
<1> HIDE DEF header
<1>2. packet = header \o data
  OBVIOUS
<1> HIDE DEF packet
<1>3. /\ packet \in Seq(Cells) /\ Len(packet) = 5 + Len(data) /\ Len(data) \in Nat
      /\ \A i \in 1 .. 5 + Len(data) : packet[i] = IF i <= 5 THEN header[i] ELSE data[i - 5]
  <2>1. /\ header \o data \in Seq(Cells) /\ Len(header \o data) = Len(header) + Len(data)
        /\ \A i \in 1 .. Len(header) + Len(data) :
             (header \o data)[i] = IF i <= Len(header) THEN header[i] ELSE data[i - Len(header)]
    BY <1>1, ConcatProperties
  <2>2. Len(data) \in Nat
    BY LenProperties
  <2> QED BY <1>1, <1>2, <2>1, <2>2
<1>4. \A k \in 0 .. Len(data) : SubSeq(packet, 6, 5 + k) = SubSeq(data, 1, k)
  <2> TAKE k \in 0 .. Len(data)
  <2>1. SubSeq(packet, Len(header) + 1, Len(header) + k) = SubSeq(data, 1, k)
    BY <1>1, <1>2, BehindHeader
  <2>2. Len(header) + 1 = 6 /\ Len(header) + k = 5 + k
    BY <1>1
  <2> QED BY <2>1, <2>2
<1>5. SubSeq(packet, 6, Len(packet)) = data
  BY <1>3, <1>4, SubSeqFull
<1>6. \A i \in 1 .. Len(data) : packet[5 + i] = data[i]
  BY <1>3
<1>7. packet[3] = header[3] /\ packet[4] = header[4] /\ packet[5] = header[5]
  BY <1>3
<1>8. /\ HEADER_SIZE = 5 /\ HEADER_SIZE + 1 = 6 /\ P1 = 3 /\ P2 = 4 /\ LC = 5
      /\ DataOf(packet) = SubSeq(packet, HEADER_SIZE + 1, Len(packet))
  BY DEF DataOf, HEADER_SIZE, P1, P2, LC
<1>9. Carries(packet, total, index, requestID, data)
  BY <1>1, <1>3, <1>4, <1>5, <1>6, <1>7, <1>8 DEF Carries
<1> QED BY <1>9 DEF packet, header

LEMMA Bounded ==
  ASSUME NEW S, NEW n \in Nat, NEW s \in BoundedSeq(S, n)
  PROVE  s \in Seq(S) /\ Len(s) \in 0 .. n
<1>1. PICK m \in 0 .. n : s \in [1 .. m -> S]
  BY DEF BoundedSeq, SeqOf
<1> QED BY <1>1, SeqDef

\* A text or an array as long as the configuration lets through has no more packets than
\* the header counts.
LEMMA Counted ==
  ASSUME NEW bytes \in Seq(Bytes), bytes # <<>>, Len(bytes) <= M * (UINT16 - 1)
  PROVE  TotalPackets(bytes) < UINT16
<1> DEFINE n == TotalPackets(bytes)
<1>1. n \in Nat \ {0} /\ (n - 1) * M < Len(bytes) /\ Len(bytes) \in Nat
  <2>1. (n - 1) * M < Cut(bytes, n) /\ Cut(bytes, n) = Len(bytes) /\ n \in Nat \ {0}
    BY Cuts
  <2> QED BY <2>1, LenProperties
<1>2. (n - 1) * M < M * (UINT16 - 1) /\ M \in Nat \ {0} /\ UINT16 \in Nat \ {0}
  BY <1>1, FrameAssumption DEF M
<1> HIDE DEF n
<1>3. SUFFICES ASSUME UINT16 <= n PROVE FALSE
  BY <1>1, <1>2 DEF n
<1>4. (UINT16 - 1) * M <= (n - 1) * M
  BY <1>1, <1>2, <1>3, Multiples
<1> QED BY <1>1, <1>2, <1>4

LEMMA Asked ==
  ASSUME NEW r \in Requests
  PROVE  /\ r.bytes \in Seq(Bytes) /\ Len(r.bytes) <= M * (UINT16 - 1)
         /\ r.command \in Nat /\ r.requestID \in Nat /\ r.requestID < UINT16 /\ r.text \in BOOLEAN
<1>1. r.bytes \in Strings \/ r.bytes \in Arrays
  BY DEF Requests
<1>2. \/ r.bytes \in BoundedSeq(Bytes, MaxText)
      \/ r.bytes \in BoundedSeq(Bytes, MaxArray)
  BY <1>1 DEF Strings, Arrays
<1>3. r.bytes \in Seq(Bytes) /\ (Len(r.bytes) \in 0 .. MaxText \/ Len(r.bytes) \in 0 .. MaxArray)
  BY <1>2, Bounded, ExchangeAssumption
<1>4. r.command \in Nat /\ r.requestID \in 0 .. UINT16 - 2 /\ r.text \in BOOLEAN
  BY ExchangeAssumption DEF Requests, GenerateRequestID
<1> QED BY <1>3, <1>4, FrameAssumption, ExchangeAssumption DEF M

LEMMA EncodeIntact ==
  ASSUME NEW r \in Requests, NEW made, made = Encode(r.command, r.requestID, r.text, r.bytes),
         made # <<>>
  PROVE  /\ FlattenSeq([i \in DOMAIN made |-> DataOf(made[i])]) = r.bytes
         /\ \A i \in DOMAIN made :
              /\ Len(DataOf(made[i])) <= MAX_DATA_SIZE
              /\ made[i][P1] = Len(made) /\ made[i][P2] = i - 1 /\ made[i][LC] = r.requestID
<1> USE DEF M
<1>1. CASE r.bytes # <<>>
  <2> DEFINE n == TotalPackets(r.bytes)
             piece(i) == PacketData(r.bytes, i)
  <2>1. n \in Nat \ {0} /\ n < UINT16 /\ r.bytes \in Seq(Bytes)
    BY <1>1, Asked, Counted, Cuts
  <2>2. made = [i \in 1 .. n |-> Header(r.command, n, i - 1, r.requestID) \o piece(i)]
    BY <1>1 DEF Encode
  <2>3. DOMAIN made = 1 .. n /\ Len(made) = n
    BY <2>1, <2>2, FunctionIsSeq
  <2>4. ASSUME NEW i \in 1 .. n
        PROVE  /\ DataOf(made[i]) = piece(i) /\ Len(piece(i)) <= MAX_DATA_SIZE
               /\ made[i][P1] = n /\ made[i][P2] = i - 1 /\ made[i][LC] = r.requestID
    <3>1. piece(i) \in Seq(Cells) /\ Len(piece(i)) <= MAX_DATA_SIZE
      BY <1>1, <2>1, Pieces, SeqMonotonic DEF Cells
    <3>2. made[i] = Header(r.command, n, i - 1, r.requestID) \o piece(i)
      BY <2>2
    <3>5. r.command \in Int /\ n \in Int /\ i - 1 \in Int /\ r.requestID \in Int
      BY <2>1, Asked
    <3> HIDE DEF n, piece
    <3>3. /\ DataOf(made[i]) = piece(i)
          /\ made[i][P1] = n % UINT16 /\ made[i][P2] = (i - 1) % UINT16
          /\ made[i][LC] = r.requestID % UINT16
      <4>1. Carries(made[i], n, i - 1, r.requestID, piece(i))
        BY <3>1, <3>2, <3>5, PacketOf
      <4> QED BY <4>1 DEF Carries
    <3>4. n % UINT16 = n /\ (i - 1) % UINT16 = i - 1 /\ r.requestID % UINT16 = r.requestID
      BY <2>1, Asked, FrameAssumption
    <3> QED BY <3>1, <3>3, <3>4
  <2>5. [i \in DOMAIN made |-> DataOf(made[i])] = [i \in 1 .. n |-> PacketData(r.bytes, i)]
    BY <2>3, <2>4
  <2>6. FlattenSeq([i \in 1 .. n |-> PacketData(r.bytes, i)]) = r.bytes
    BY <1>1, <2>1, PiecesMakeWhole
  <2> QED BY <2>3, <2>4, <2>5, <2>6
<1>2. CASE r.bytes = <<>> /\ r.text
  <2> DEFINE header == Header(r.command, 1, 0, r.requestID)
             datas == [i \in 1 .. 1 |-> DataOf(made[i])]
  <2>1. made = <<header>>
    BY <1>2 DEF Encode
  <2>2. DOMAIN made = 1 .. 1 /\ Len(made) = 1 /\ made[1] = header
    BY <2>1
  <2>3. header = header \o <<>> /\ <<>> \in Seq(Cells)
    BY FrameAssumption, Asked, ConcatEmptySeq DEF Header, SetUint16
  <2> HIDE DEF header
  <2>4. /\ DataOf(header) = <<>>
        /\ header[P1] = 1 % UINT16 /\ header[P2] = 0 % UINT16 /\ header[LC] = r.requestID % UINT16
    <3>1. r.command \in Int /\ 1 \in Int /\ 0 \in Int /\ r.requestID \in Int
      BY Asked
    <3>2. Carries(header, 1, 0, r.requestID, <<>>)
      BY <2>3, <3>1, PacketOf DEF header
    <3> QED BY <3>2 DEF Carries
  <2>5. 1 % UINT16 = 1 /\ 0 % UINT16 = 0 /\ r.requestID % UINT16 = r.requestID
    BY Asked, FrameAssumption
  <2>6. FlattenSeq(datas) = <<>>
    <3>1. PICK n \in Nat : n = 1
      OBVIOUS
    <3>2. datas = [i \in 1 .. n |-> DataOf(made[i])]
      BY <3>1
    <3> HIDE DEF datas
    <3>3. datas[1] = <<>>
      BY <2>2, <2>4, <3>1, <3>2
    <3>4. datas \in [1 .. n -> {DataOf(made[i]) : i \in 1 .. n}] /\ Len(datas) = n
      BY <3>2, FunctionIsSeq
    <3>5. FlattenSeq(datas) = datas[1]
      BY <3>1, <3>4, FlattensOne
    <3> QED BY <3>3, <3>5
  <2>7. [i \in DOMAIN made |-> DataOf(made[i])] = datas
    BY <2>2
  <2>8. Len(<<>>) <= MAX_DATA_SIZE
    BY FrameAssumption
  <2>9. \A i \in DOMAIN made : i = 1
    BY <2>2
  <2> HIDE DEF datas, header
  <2>10. \A i \in DOMAIN made :
           /\ Len(DataOf(made[i])) <= MAX_DATA_SIZE
           /\ made[i][P1] = Len(made) /\ made[i][P2] = i - 1 /\ made[i][LC] = r.requestID
    BY <2>2, <2>4, <2>5, <2>8, <2>9
  <2> QED BY <1>2, <2>6, <2>7, <2>10
<1>3. CASE r.bytes = <<>> /\ ~r.text
  <2>1. (MAX_DATA_SIZE - 1) \div MAX_DATA_SIZE = 0
    BY FrameAssumption
  <2>2. TotalPackets(r.bytes) = 0
    BY <1>3, <2>1, FrameAssumption DEF TotalPackets
  <2>3. made = [i \in 1 .. 0 |-> Header(r.command, 0, i - 1, r.requestID) \o PacketData(r.bytes, i)]
    BY <1>3, <2>2 DEF Encode
  <2>4. made = <<>>
    BY <2>3
  <2> QED BY <2>4
<1> QED BY <1>1, <1>2, <1>3, Asked

(***************************************************************************)
(* decode() of packets that carry the indexes 0 to n - 1, in any order.    *)
(***************************************************************************)
\* key numbers the positions 1 to n by 0 to n - 1, each once.
Numbers(key, n) ==
  /\ \A i, j \in 1 .. n : key[i] = key[j] => i = j
  /\ \A k \in 0 .. n - 1 : \E i \in 1 .. n : key[i] = k

LEMMA Ranks ==
  ASSUME NEW n \in Nat, NEW key \in [1 .. n -> 0 .. n - 1], Numbers(key, n), NEW i \in 1 .. n
  PROVE  Cardinality({j \in 1 .. n : key[j] < key[i]}) = key[i]
<1> DEFINE lower == {j \in 1 .. n : key[j] < key[i]}
           top == key[i]
           keys == 0 .. top - 1
           place == [k \in keys |-> CHOOSE j \in 1 .. n : key[j] = k]
<1>1. top \in Nat /\ \A k \in keys : k \in 0 .. n - 1 /\ k < top
  OBVIOUS
<1>2. \A k \in keys : place[k] \in 1 .. n /\ key[place[k]] = k
  BY <1>1 DEF Numbers
<1>3. place \in [keys -> 1 .. n]
  BY <1>2
<1>4. \A j \in lower : j \in 1 .. n /\ key[j] \in keys
  OBVIOUS
<1>5. \A j \in 1 .. n : key[j] < top => j \in lower
  OBVIOUS
<1> HIDE DEF lower, place, top
<1>6. \A k \in keys : place[k] \in lower
  BY <1>1, <1>2, <1>5
<1>7. \A k, l \in keys : place[k] = place[l] => k = l
  BY <1>2
<1>8. \A j \in lower : \E k \in keys : place[k] = j
  BY <1>2, <1>4 DEF Numbers
<1> HIDE DEF keys
<1>9. place \in [keys -> lower]
  BY <1>3, <1>6
<1>10. place \in Bijection(keys, lower)
  BY <1>7, <1>8, <1>9 DEF Bijection, Injection, Surjection, IsInjective
<1>11. IsFiniteSet(keys) /\ Cardinality(keys) = top
  <2>1. 0 \in Int /\ top - 1 \in Int /\ (top - 1) - 0 + 1 = top /\ (0 > top - 1 <=> top = 0)
    BY <1>1
  <2> QED BY <2>1, FS_Interval DEF keys
<1>12. Cardinality(lower) = top
  BY <1>10, <1>11, FS_Bijection DEF ExistsBijection
<1> QED BY <1>12 DEF lower, top

Sorts(sorted, seq, key, n) == \A i \in 1 .. n : sorted[key[i] + 1] = seq[i]
Keyed(seq, key, n) == \A i \in 1 .. n : seq[i].packetIndex = key[i]

LEMMA SortsByIndex ==
  ASSUME NEW n \in Nat, NEW S, NEW seq \in [1 .. n -> S], Len(seq) = n,
         NEW key \in [1 .. n -> 0 .. n - 1], Keyed(seq, key, n), Numbers(key, n)
  PROVE  SortByIndex(seq) \in [1 .. n -> S] /\ Sorts(SortByIndex(seq), seq, key, n)
<1> DEFINE Before(j, i) == \/ seq[j].packetIndex < seq[i].packetIndex
                           \/ seq[j].packetIndex = seq[i].packetIndex /\ j < i
           Rank(i) == Cardinality({j \in DOMAIN seq : Before(j, i)})
           At(k) == CHOOSE i \in DOMAIN seq : Rank(i) = k - 1
           sorted == [k \in 1 .. n |-> seq[At(k)]]
<1>1. SortByIndex(seq) = sorted
  BY DEF SortByIndex
<1>2. ASSUME NEW i \in 1 .. n PROVE Rank(i) = key[i]
  <2>1. ASSUME NEW j \in 1 .. n PROVE Before(j, i) <=> key[j] < key[i]
    <3>1. seq[j].packetIndex = key[j] /\ seq[i].packetIndex = key[i]
      BY DEF Keyed
    <3>2. key[j] \in Int /\ key[i] \in Int /\ (key[j] = key[i] => j = i)
      BY DEF Numbers
    <3> QED BY <3>1, <3>2
  <2> HIDE DEF Before
  <2>2. {j \in DOMAIN seq : Before(j, i)} = {j \in 1 .. n : key[j] < key[i]}
    BY <2>1
  <2>3. Cardinality({j \in 1 .. n : key[j] < key[i]}) = key[i]
    BY Ranks
  <2> QED BY <2>2, <2>3
<1> HIDE DEF Rank
<1>3. ASSUME NEW i \in 1 .. n, NEW k \in 1 .. n, key[i] = k - 1 PROVE At(k) = i
  <2>1. Rank(i) = k - 1 /\ i \in DOMAIN seq
    BY <1>2, <1>3
  <2>2. At(k) \in DOMAIN seq /\ Rank(At(k)) = k - 1
    BY <2>1
  <2> HIDE DEF At
  <2>3. At(k) \in 1 .. n /\ key[At(k)] = k - 1
    BY <1>2, <2>2
  <2> QED BY <1>3, <2>3 DEF Numbers
<1> HIDE DEF At
<1>4. ASSUME NEW k \in 1 .. n PROVE At(k) \in 1 .. n
  <2>1. k - 1 \in 0 .. n - 1
    OBVIOUS
  <2>2. PICK i \in 1 .. n : key[i] = k - 1
    BY <2>1 DEF Numbers
  <2> QED BY <1>3, <2>2
<1>5. ASSUME NEW i \in 1 .. n PROVE key[i] + 1 \in 1 .. n /\ At(key[i] + 1) = i
  <2>1. key[i] + 1 \in 1 .. n /\ key[i] = (key[i] + 1) - 1
    OBVIOUS
  <2> QED BY <1>3, <2>1
<1>6. sorted \in [1 .. n -> S]
  BY <1>4
<1>7. ASSUME NEW i \in 1 .. n PROVE sorted[key[i] + 1] = seq[i]
  BY <1>5
<1> QED BY <1>1, <1>6, <1>7 DEF Sorts

\* Every packet holds a header and a status, and its index is its place.
InPlace(all, n) == \A i \in 1 .. n : Len(all[i]) > HEADER_SIZE /\ all[i][P2] = i - 1
\* some are the packets of all, each at another place.
Shuffles(some, all, key, n) == Numbers(key, n) /\ \A i \in 1 .. n : some[i] = all[key[i] + 1]

LEMMA DecodesInOrder ==
  ASSUME NEW n \in Nat \ {0}, NEW all \in [1 .. n -> Seq(Cells)], InPlace(all, n),
         NEW some \in [1 .. n -> Seq(Cells)], NEW key \in [1 .. n -> 0 .. n - 1],
         Shuffles(some, all, key, n)
  PROVE  Decode(some) = [error  |-> "none",
                         data   |-> FlattenSeq([i \in 1 .. n |-> ParsePacket(all[i]).data]),
                         status |-> ParsePacket(all[n]).status]
<1> DEFINE Parsed == {ParsePacket(p) : p \in Seq(Cells)}
           parsed == [i \in 1 .. n |-> ParsePacket(some[i])]
           sorted == SortByIndex(parsed)
<1>1. \A p : ParsePacket(p).packetIndex = p[P2]
  BY DEF ParsePacket
<1>2. parsed \in [1 .. n -> Parsed] /\ Len(parsed) = n
  <2>1. parsed \in [1 .. n -> Parsed]
    OBVIOUS
  <2>2. parsed = [i \in 1 .. n |-> parsed[i]] /\ DOMAIN parsed = 1 .. n
    OBVIOUS
  <2> HIDE DEF parsed
  <2> QED BY <2>1, <2>2, FunctionIsSeq
<1>3. ASSUME NEW i \in 1 .. n
      PROVE  parsed[i] = ParsePacket(all[key[i] + 1]) /\ parsed[i].packetIndex = key[i]
  <2>1. some[i] = all[key[i] + 1] /\ key[i] + 1 \in 1 .. n
    BY DEF Shuffles
  <2>2. all[key[i] + 1][P2] = (key[i] + 1) - 1
    BY <2>1 DEF InPlace
  <2>3. (key[i] + 1) - 1 = key[i]
    BY <2>1
  <2> QED BY <1>1, <2>1, <2>2, <2>3
<1> HIDE DEF parsed, Parsed
<1>4. Numbers(key, n) /\ Keyed(parsed, key, n)
  BY <1>3 DEF Shuffles, Keyed
<1>5. sorted \in [1 .. n -> Parsed] /\ Sorts(sorted, parsed, key, n)
  BY <1>2, <1>4, SortsByIndex
<1> HIDE DEF sorted
<1>6. ASSUME NEW k \in 1 .. n PROVE sorted[k] = ParsePacket(all[k])
  <2>1. k - 1 \in 0 .. n - 1
    OBVIOUS
  <2>2. PICK i \in 1 .. n : key[i] = k - 1
    BY <1>4, <2>1 DEF Numbers
  <2>3. key[i] + 1 = k
    BY <2>2
  <2> QED BY <1>3, <1>5, <2>2, <2>3 DEF Sorts
<1>7. DOMAIN sorted = 1 .. n /\ Len(sorted) = n
  <2>1. sorted = [i \in 1 .. n |-> sorted[i]] /\ DOMAIN sorted = 1 .. n
    BY <1>5
  <2> QED BY <2>1, FunctionIsSeq
<1>8. ASSUME NEW i \in 1 .. n PROVE ~PacketTooShort(some[i]) /\ ~NoRoomForStatus(some[i])
  <2>1. some[i] = all[key[i] + 1] /\ key[i] + 1 \in 1 .. n
    BY DEF Shuffles
  <2>2. all[key[i] + 1] \in Seq(Cells) /\ Len(all[key[i] + 1]) > HEADER_SIZE
    BY <2>1 DEF InPlace
  <2>3. Len(some[i]) \in Nat /\ Len(some[i]) > HEADER_SIZE
    BY <2>1, <2>2, LenProperties
  <2> DEFINE l == Len(some[i])
  <2> HIDE DEF l
  <2>4. ~(l < HEADER_SIZE) /\ l # HEADER_SIZE
    <3>1. l \in Nat /\ l > HEADER_SIZE /\ HEADER_SIZE = 5
      BY <2>3 DEF l, HEADER_SIZE
    <3> QED BY <3>1
  <2> QED BY <2>4 DEF l, PacketTooShort, NoRoomForStatus
<1>9. DOMAIN some = 1 .. n
  OBVIOUS
<1>10. Decode(some) = [error |-> "none",
                       data |-> FlattenSeq([i \in DOMAIN sorted |-> sorted[i].data]),
                       status |-> Last(sorted).status]
  BY <1>8, <1>9 DEF Decode, sorted, parsed
<1>11. [i \in DOMAIN sorted |-> sorted[i].data] = [i \in 1 .. n |-> ParsePacket(all[i]).data]
  BY <1>6, <1>7
<1>12. Last(sorted) = sorted[n] /\ sorted[n] = ParsePacket(all[n])
  BY <1>6, <1>7 DEF Last
<1> QED BY <1>10, <1>11, <1>12

(***************************************************************************)
(* The packets of a response.                                              *)
(***************************************************************************)
Count(bytes) == IF bytes = <<>> THEN 1 ELSE TotalPackets(bytes)

\* What decode() finds in the packets of an answer.
Holds(all, n, bytes, status) ==
  /\ InPlace(all, n)
  /\ \A i \in 1 .. n : /\ ParsePacket(all[i]).data = DataParser(PacketData(bytes, i))
                       /\ ParsePacket(all[i]).status = status

LEMMA StatusBehind ==
  ASSUME NEW data \in Seq(Bytes), NEW status \in Statuses
  PROVE  /\ data \o <<status>> \in Seq(Cells) /\ Len(data \o <<status>>) = Len(data) + 1
         /\ (data \o <<status>>)[Len(data) + 1] = status
         /\ SubSeq(data \o <<status>>, 1, Len(data)) = data
         /\ Len(data) \in Nat
<1>1. data \in Seq(Cells) /\ status \in Cells /\ Len(data) \in Nat
  BY SeqMonotonic, LenProperties DEF Cells
<1> DEFINE longer == Append(data, status)
           k == Len(data)
<1>2. longer = data \o <<status>>
  BY <1>1, AppendIsConcat
<1>3. /\ longer \in Seq(Cells) /\ Len(longer) = k + 1 /\ longer[k + 1] = status
      /\ \A i \in 1 .. k : longer[i] = data[i]
  BY <1>1, AppendProperties
<1>4. k \in Nat
  BY <1>1
<1>5. \A i \in 1 .. k : data[i] \in Cells
  BY <1>1, ElementOfSeq
<1> HIDE DEF longer
<1>6. SubSeq(longer, 1, k) = data
  <2> HIDE DEF k
  <2>1. \A i \in 1 .. k : longer[i] \in Cells
    BY <1>3, <1>5
  <2>2. /\ SubSeq(longer, 1, k) \in Seq(Cells) /\ Len(SubSeq(longer, 1, k)) = k
        /\ \A i \in 1 .. k : SubSeq(longer, 1, k)[i] = longer[i]
    BY <1>4, <2>1, SubSeqProperties
  <2> QED BY <1>1, <1>3, <2>2, SeqEqual DEF k
<1> QED BY <1>1, <1>2, <1>3, <1>6

LEMMA Replied ==
  ASSUME request \in Requests, NEW bytes \in Strings, NEW status \in Statuses,
         NEW all, all = ResponsePackets(bytes, status), NEW n, n = Count(bytes)
  PROVE  /\ n \in Nat \ {0} /\ all \in [1 .. n -> Seq(Cells)] /\ Len(all) = n
         /\ Holds(all, n, bytes, status)
<1>1. bytes \in Seq(Bytes) /\ Len(bytes) <= M * (UINT16 - 1)
  <2>1. bytes \in BoundedSeq(Bytes, MaxText) /\ MaxText \in Nat
    BY ExchangeAssumption DEF Strings
  <2>2. bytes \in Seq(Bytes) /\ Len(bytes) \in 0 .. MaxText
    BY <2>1, Bounded
  <2>3. M * (UINT16 - 1) \in Nat /\ MaxText <= M * (UINT16 - 1)
    BY FrameAssumption, ExchangeAssumption DEF M
  <2> QED BY <2>1, <2>2, <2>3
<1>2. n \in Nat \ {0} /\ n < UINT16
  <2>1. CASE bytes = <<>>
    BY <2>1, FrameAssumption DEF Count
  <2>2. CASE bytes # <<>>
    BY <1>1, <2>2, Cuts, Counted DEF Count
  <2> QED BY <2>1, <2>2
<1>3. ASSUME NEW i \in 1 .. n PROVE PacketData(bytes, i) \in Seq(Bytes)
  <2>1. CASE bytes = <<>>
    <3>1. i = 1 /\ Len(bytes) = 0 /\ M \in Nat \ {0}
      BY <2>1, FrameAssumption DEF Count, M
    <3>2. 1 * M < 0 <=> FALSE
      BY <3>1
    <3>3. PacketData(bytes, i) = SubSeq(bytes, (1 - 1) * M + 1, 0)
      BY <3>1, <3>2 DEF PacketData, M
    <3>4. (1 - 1) * M + 1 = 1
      BY <3>1
    <3>5. SubSeq(bytes, 1, 0) = <<>>
      BY <1>1, SubSeqEmpty
    <3> QED BY <3>3, <3>4, <3>5
  <2>2. CASE bytes # <<>>
    BY <1>1, <2>2, Pieces DEF Count
  <2> QED BY <2>1, <2>2
<1>4. all = [i \in 1 .. n |->
               Header(request.command, n, i - 1, request.requestID)
                 \o PacketData(bytes, i) \o <<status>>]
  BY DEF ResponsePackets, Count
<1>5. ASSUME NEW i \in 1 .. n
      PROVE  /\ all[i] \in Seq(Cells) /\ Len(all[i]) > HEADER_SIZE /\ all[i][P2] = i - 1
             /\ ParsePacket(all[i]).data = DataParser(PacketData(bytes, i))
             /\ ParsePacket(all[i]).status = status
  <2> DEFINE header == Header(request.command, n, i - 1, request.requestID)
             data == PacketData(bytes, i)
             packet == all[i]
             size == Len(data)
  <2>1. packet = (header \o data) \o <<status>>
    BY <1>4
  <2>2. request.command \in Int /\ n \in Int /\ i - 1 \in Int /\ request.requestID \in Int
    BY <1>2, Asked
  <2>3. header \in Seq(Cells)
    <3>1. header \in Seq(Int)
      BY <2>2, FrameAssumption DEF Header, SetUint16
    <3> QED BY <3>1, SeqMonotonic DEF Cells
  <2>4. data \in Seq(Bytes) /\ data \in Seq(Cells) /\ <<status>> \in Seq(Cells)
    BY <1>3, SeqMonotonic DEF Cells
  <2> HIDE DEF data, packet
  <2>5. packet = header \o (data \o <<status>>)
    BY <2>1, <2>3, <2>4, ConcatAssociative
  <2>6. /\ data \o <<status>> \in Seq(Cells) /\ Len(data \o <<status>>) = size + 1
        /\ (data \o <<status>>)[size + 1] = status
        /\ SubSeq(data \o <<status>>, 1, size) = data
        /\ size \in Nat
    BY <2>4, StatusBehind
  <2>7. Carries(packet, n, i - 1, request.requestID, data \o <<status>>)
    BY <2>2, <2>5, <2>6, PacketOf
  <2> HIDE DEF size, header
  <2>8. /\ packet \in Seq(Cells) /\ Len(packet) = HEADER_SIZE + (size + 1)
        /\ packet[P2] = (i - 1) % UINT16
        /\ packet[HEADER_SIZE + (size + 1)] = status
        /\ SubSeq(packet, HEADER_SIZE + 1, HEADER_SIZE + size) = data
    <3>1. size + 1 \in 1 .. Len(data \o <<status>>) /\ size \in 0 .. Len(data \o <<status>>)
      BY <2>6
    <3> QED BY <2>6, <2>7, <3>1 DEF Carries
  <2>9. /\ Len(packet) - 1 = HEADER_SIZE + size /\ Len(packet) > HEADER_SIZE
        /\ (i - 1) % UINT16 = i - 1
    <3>1. HEADER_SIZE = 5 /\ Len(packet) = 5 + (size + 1)
      BY <2>8 DEF HEADER_SIZE
    <3>2. (i - 1) % UINT16 = i - 1
      BY <1>2, FrameAssumption
    <3> QED BY <2>6, <3>1, <3>2
  <2>10. /\ ParsePacket(packet).data = DataParser(SubSeq(packet, HEADER_SIZE + 1, Len(packet) - 1))
         /\ ParsePacket(packet).status = packet[Len(packet)]
    BY DEF ParsePacket
  <2> QED BY <2>8, <2>9, <2>10 DEF packet, data
<1>6. all \in [1 .. n -> Seq(Cells)] /\ Len(all) = n
  <2>1. all = [i \in 1 .. n |-> all[i]] /\ DOMAIN all = 1 .. n
    BY <1>4
  <2>2. Len(all) = n
    BY <1>2, <2>1, FunctionIsSeq
  <2> QED BY <1>5, <2>1, <2>2
<1>7. Holds(all, n, bytes, status)
  BY <1>5 DEF Holds, InPlace
<1> QED BY <1>2, <1>6, <1>7

(***************************************************************************)
(* The packets of a response, part arrived and part in flight.             *)
(***************************************************************************)
Splits(some, rest, all, n) ==
  /\ Len(some) + Len(rest) = n
  /\ \A i, j \in 1 .. Len(some) : some[i] = some[j] => i = j
  /\ \A i, j \in 1 .. Len(rest) : rest[i] = rest[j] => i = j
  /\ \A i \in 1 .. Len(some), j \in 1 .. Len(rest) : some[i] # rest[j]
  /\ \A i \in 1 .. Len(some) : \E k \in 1 .. n : some[i] = all[k]
  /\ \A i \in 1 .. Len(rest) : \E k \in 1 .. n : rest[i] = all[k]
  /\ \A k \in 1 .. n : \/ \E i \in 1 .. Len(some) : some[i] = all[k]
                       \/ \E i \in 1 .. Len(rest) : rest[i] = all[k]

LEMMA RemovesOne ==
  ASSUME NEW S, NEW s \in Seq(S), NEW i \in 1 .. Len(s)
  PROVE  /\ RemoveAt(s, i) \in Seq(S) /\ Len(RemoveAt(s, i)) = Len(s) - 1
         /\ \A j \in 1 .. Len(s) - 1 : RemoveAt(s, i)[j] = IF j < i THEN s[j] ELSE s[j + 1]
<1> DEFINE n == Len(s)
           left == SubSeq(s, 1, i - 1)
           right == SubSeq(s, i + 1, n)
<1>1. n \in Nat /\ \A j \in 1 .. n : s[j] \in S
  BY LenProperties, ElementOfSeq
<1>2. RemoveAt(s, i) = left \o right
  BY DEF RemoveAt
<1> HIDE DEF n
<1>3. i \in 1 .. n
  BY DEF n
<1>4. left \in Seq(S) /\ Len(left) = i - 1 /\ \A j \in 1 .. i - 1 : left[j] = s[j]
  <2>1. \A j \in 1 .. i - 1 : s[j] \in S
    BY <1>1, <1>3
  <2>2. 1 \in Nat /\ i - 1 \in Nat
    BY <1>3
  <2> QED BY <2>1, <2>2, SubSeqProperties
<1>5. right \in Seq(S) /\ Len(right) = n - i /\ \A j \in 1 .. n - i : right[j] = s[i + j]
  <2>1. \A j \in i + 1 .. n : s[j] \in S
    BY <1>1, <1>3
  <2>2. /\ right \in Seq(S) /\ Len(right) = (IF i + 1 <= n THEN n - (i + 1) + 1 ELSE 0)
        /\ \A j \in 1 .. n - (i + 1) + 1 : right[j] = s[(i + 1) + j - 1]
    BY <1>1, <1>3, <2>1, SubSeqProperties
  <2>3. /\ n - (i + 1) + 1 = n - i /\ (~(i + 1 <= n) => n - i = 0)
        /\ \A j \in 1 .. n - i : (i + 1) + j - 1 = i + j
    BY <1>1, <1>3
  <2> HIDE DEF right
  <2> QED BY <2>2, <2>3
<1> HIDE DEF left, right
<1>6. /\ left \o right \in Seq(S) /\ Len(left \o right) = n - 1
      /\ \A j \in 1 .. n - 1 : (left \o right)[j] = IF j <= i - 1 THEN left[j] ELSE right[j - (i - 1)]
  <2>1. (i - 1) + (n - i) = n - 1
    BY <1>1, <1>3
  <2>2. /\ left \o right \in Seq(S) /\ Len(left \o right) = Len(left) + Len(right)
        /\ \A j \in 1 .. Len(left) + Len(right) :
             (left \o right)[j] = IF j <= Len(left) THEN left[j] ELSE right[j - Len(left)]
    BY <1>4, <1>5, ConcatProperties
  <2> QED BY <1>4, <1>5, <2>1, <2>2
<1>7. ASSUME NEW j \in 1 .. n - 1
      PROVE  (left \o right)[j] = IF j < i THEN s[j] ELSE s[j + 1]
  <2>1. CASE j < i
    <3>1. j <= i - 1 /\ j \in 1 .. i - 1
      BY <1>3, <2>1
    <3> QED BY <1>4, <1>6, <2>1, <3>1
  <2>2. CASE ~(j < i)
    <3>1. ~(j <= i - 1) /\ j - (i - 1) \in 1 .. n - i /\ i + (j - (i - 1)) = j + 1
      BY <1>1, <1>3, <2>2
    <3> QED BY <1>5, <1>6, <2>2, <3>1
  <2> QED BY <2>1, <2>2
<1> QED BY <1>2, <1>6, <1>7 DEF n

LEMMA ArrivalSplits ==
  ASSUME NEW S, NEW n, NEW all, NEW some \in Seq(S), NEW rest \in Seq(S),
         Splits(some, rest, all, n), NEW i \in 1 .. Len(rest)
  PROVE  /\ Append(some, rest[i]) \in Seq(S) /\ RemoveAt(rest, i) \in Seq(S)
         /\ Splits(Append(some, rest[i]), RemoveAt(rest, i), all, n)
<1> DEFINE more == Append(some, rest[i])
           less == RemoveAt(rest, i)
           h == Len(some)
           l == Len(rest)
           From(j) == IF j < i THEN j ELSE j + 1
<1>1. h \in Nat /\ l \in Nat /\ rest[i] \in S
  BY LenProperties, ElementOfSeq
<1>2. /\ more \in Seq(S) /\ Len(more) = h + 1
      /\ \A j \in 1 .. h : more[j] = some[j]
      /\ more[h + 1] = rest[i]
  BY <1>1, AppendProperties
<1>3. /\ less \in Seq(S) /\ Len(less) = l - 1
      /\ \A j \in 1 .. l - 1 : less[j] = IF j < i THEN rest[j] ELSE rest[j + 1]
  BY RemovesOne
<1> HIDE DEF more, less
<1>4. \A j \in 1 .. l - 1 : less[j] = rest[From(j)] /\ From(j) \in 1 .. l /\ From(j) # i
  BY <1>1, <1>3
<1>5. \A j, k \in 1 .. l - 1 : From(j) = From(k) => j = k
  BY <1>1
<1>6. \A k \in 1 .. l : k # i => \E j \in 1 .. l - 1 : From(j) = k
  <2> TAKE k \in 1 .. l
  <2>1. CASE k < i
    BY <1>1, <2>1
  <2>2. CASE k > i
    <3>1. k - 1 \in 1 .. l - 1 /\ From(k - 1) = k
      BY <1>1, <2>2
    <3> QED BY <3>1
  <2> QED BY <1>1, <2>1, <2>2
<1>7. /\ h + l = n
      /\ \A j, k \in 1 .. h : some[j] = some[k] => j = k
      /\ \A j, k \in 1 .. l : rest[j] = rest[k] => j = k
      /\ \A j \in 1 .. h, k \in 1 .. l : some[j] # rest[k]
      /\ \A j \in 1 .. h : \E k \in 1 .. n : some[j] = all[k]
      /\ \A j \in 1 .. l : \E k \in 1 .. n : rest[j] = all[k]
      /\ \A k \in 1 .. n : \/ \E j \in 1 .. h : some[j] = all[k]
                           \/ \E j \in 1 .. l : rest[j] = all[k]
  BY DEF Splits
<1>8. i \in 1 .. l
  OBVIOUS
<1> HIDE DEF h, l, From
<1>9. \A j \in 1 .. h + 1 : (j \in 1 .. h) \/ (j = h + 1)
  BY <1>1
<1>10. h + 1 \in 1 .. h + 1 /\ \A j \in 1 .. h : j \in 1 .. h + 1
  BY <1>1
<1>11. (h + 1) + (l - 1) = n
  BY <1>1, <1>7
<1>12. \A j, k \in 1 .. h + 1 : more[j] = more[k] => j = k
  BY <1>2, <1>7, <1>8, <1>9
<1>13. \A j, k \in 1 .. l - 1 : less[j] = less[k] => j = k
  BY <1>4, <1>5, <1>7
<1>14. \A j \in 1 .. h + 1, k \in 1 .. l - 1 : more[j] # less[k]
  BY <1>2, <1>4, <1>7, <1>8, <1>9
<1>15. ASSUME NEW j \in 1 .. h + 1 PROVE \E k \in 1 .. n : more[j] = all[k]
  <2>1. CASE j \in 1 .. h
    BY <1>2, <1>7, <2>1
  <2>2. CASE j = h + 1
    BY <1>2, <1>7, <1>8, <2>2
  <2> QED BY <1>9, <2>1, <2>2
<1>16. \A j \in 1 .. l - 1 : \E k \in 1 .. n : less[j] = all[k]
  BY <1>4, <1>7
<1>17. ASSUME NEW k \in 1 .. n
       PROVE  (\E j \in 1 .. h + 1 : more[j] = all[k]) \/ (\E j \in 1 .. l - 1 : less[j] = all[k])
  <2>1. CASE \E j \in 1 .. h : some[j] = all[k]
    BY <1>2, <1>10, <2>1
  <2>2. CASE \E j \in 1 .. l : rest[j] = all[k]
    <3>1. PICK j \in 1 .. l : rest[j] = all[k]
      BY <2>2
    <3>2. CASE j = i
      BY <1>2, <1>10, <3>1, <3>2
    <3>3. CASE j # i
      <4>1. PICK b \in 1 .. l - 1 : From(b) = j
        BY <1>6, <3>3
      <4> QED BY <1>4, <3>1, <4>1
    <3> QED BY <3>2, <3>3
  <2> QED BY <1>7, <2>1, <2>2
<1>18. Splits(more, less, all, n)
  <2>1. h + 1 = Len(more) /\ l - 1 = Len(less)
    BY <1>2, <1>3
  <2>2. Len(more) + Len(less) = n
    BY <1>11, <2>1
  <2>3. \A j, k \in 1 .. Len(more) : more[j] = more[k] => j = k
    BY <1>12, <2>1
  <2>4. \A j, k \in 1 .. Len(less) : less[j] = less[k] => j = k
    BY <1>13, <2>1
  <2>5. \A j \in 1 .. Len(more), k \in 1 .. Len(less) : more[j] # less[k]
    BY <1>14, <2>1
  <2>6. \A j \in 1 .. Len(more) : \E k \in 1 .. n : more[j] = all[k]
    BY <1>15, <2>1
  <2>7. \A j \in 1 .. Len(less) : \E k \in 1 .. n : less[j] = all[k]
    BY <1>16, <2>1
  <2>8. \A k \in 1 .. n : \/ \E j \in 1 .. Len(more) : more[j] = all[k]
                          \/ \E j \in 1 .. Len(less) : less[j] = all[k]
    BY <1>17, <2>1
  <2> QED BY <2>2, <2>3, <2>4, <2>5, <2>6, <2>7, <2>8, Zenon DEF Splits
<1> QED BY <1>2, <1>3, <1>18 DEF more, less

\* When nothing is in flight, what arrived are the packets of the response in some order.
LEMMA AllArrived ==
  ASSUME NEW n \in Nat \ {0}, NEW all \in [1 .. n -> Seq(Cells)], InPlace(all, n),
         NEW some \in Seq(Seq(Cells)), Splits(some, <<>>, all, n)
  PROVE  /\ some \in [1 .. n -> Seq(Cells)]
         /\ \E key \in [1 .. n -> 0 .. n - 1] : Shuffles(some, all, key, n)
<1> DEFINE key == [i \in 1 .. n |-> some[i][P2]]
<1>1. Len(some) = n
  <2>1. Len(some) + Len(<<>>) = n /\ Len(<<>>) = 0 /\ Len(some) \in Nat
    BY LenProperties DEF Splits
  <2> QED BY <2>1
<1>2. some \in [1 .. n -> Seq(Cells)]
  <2>1. some \in [1 .. Len(some) -> Seq(Cells)]
    BY LenProperties
  <2> QED BY <1>1, <2>1
<1>3. /\ \A i, j \in 1 .. n : some[i] = some[j] => i = j
      /\ \A i \in 1 .. n : \E k \in 1 .. n : some[i] = all[k]
      /\ \A k \in 1 .. n : \E i \in 1 .. n : some[i] = all[k]
  <2>1. ~\E i \in 1 .. Len(<<>>) : TRUE
    OBVIOUS
  <2> QED BY <1>1, <2>1 DEF Splits
<1>4. \A k \in 1 .. n : all[k][P2] = k - 1 /\ k - 1 \in 0 .. n - 1
  BY DEF InPlace
<1>5. ASSUME NEW i \in 1 .. n
      PROVE  key[i] \in 0 .. n - 1 /\ some[i] = all[key[i] + 1]
  <2>1. PICK k \in 1 .. n : some[i] = all[k]
    BY <1>3
  <2>2. key[i] = k - 1
    BY <1>4, <2>1
  <2>3. key[i] + 1 = k
    BY <2>2
  <2> QED BY <1>4, <2>1, <2>2, <2>3
<1>6. key \in [1 .. n -> 0 .. n - 1]
  BY <1>5
<1>7. ASSUME NEW k \in 0 .. n - 1 PROVE \E i \in 1 .. n : key[i] = k
  <2>1. k + 1 \in 1 .. n /\ (k + 1) - 1 = k
    OBVIOUS
  <2>2. PICK i \in 1 .. n : some[i] = all[k + 1]
    BY <1>3, <2>1
  <2>3. key[i] = k
    BY <1>4, <2>1, <2>2
  <2> QED BY <2>3
<1> HIDE DEF key
<1>8. ASSUME NEW i \in 1 .. n, NEW j \in 1 .. n, key[i] = key[j] PROVE i = j
  <2>1. some[i] = all[key[i] + 1] /\ some[j] = all[key[j] + 1]
    BY <1>5
  <2>2. some[i] = some[j]
    BY <1>8, <2>1
  <2> QED BY <1>3, <2>2
<1>9. Shuffles(some, all, key, n)
  BY <1>5, <1>7, <1>8 DEF Shuffles, Numbers
<1> QED BY <1>2, <1>6, <1>9

(***************************************************************************)
(* The inductive invariant.  The device has answered nothing, or its       *)
(* packets are each in flight or arrived, none lost and none repeated.     *)
(***************************************************************************)
AnswerOf(bytes, status) ==
  /\ response = <<[bytes |-> bytes, status |-> status]>>
  /\ arrived \in Seq(Seq(Cells)) /\ inFlight \in Seq(Seq(Cells))
  /\ Splits(arrived, inFlight, ResponsePackets(bytes, status), Count(bytes))

Answered ==
  /\ response = <<>> => inFlight = <<>> /\ arrived = <<>>
  /\ response # <<>> => \E bytes \in Strings, status \in Statuses : AnswerOf(bytes, status)

EncodedRequest == Encode(request.command, request.requestID, request.text, request.bytes)

IInv ==
  /\ request \in Requests
  /\ packets \in {<<>>, EncodedRequest}
  /\ Answered

LEMMA InitIInv == Init => IInv
BY DEF Init, IInv, Answered

LEMMA NextIInv == IInv /\ [Next]_vars => IInv'
<1> SUFFICES ASSUME IInv, [Next]_vars PROVE IInv'
  OBVIOUS
<1> USE DEF IInv
<1>1. request' = request
  BY DEF Next, vars, Frame, Reply, Arrive
<1>2. EncodedRequest' = EncodedRequest
  BY <1>1 DEF EncodedRequest
<1>3. \A bytes, status : ResponsePackets(bytes, status)' = ResponsePackets(bytes, status)
  BY <1>1 DEF ResponsePackets
<1>4. CASE Frame
  <2>1. packets' = EncodedRequest /\ UNCHANGED <<response, inFlight, arrived>>
    BY <1>4 DEF Frame, EncodedRequest
  <2>2. Answered'
    BY <1>3, <2>1 DEF Answered, AnswerOf
  <2> QED BY <1>1, <1>2, <2>1, <2>2
<1>5. CASE Reply
  <2>1. PICK bytes \in Strings, status \in Statuses :
               /\ response' = <<[bytes |-> bytes, status |-> status]>>
               /\ inFlight' = ResponsePackets(bytes, status)
    BY <1>5 DEF Reply
  <2>2. packets' = packets /\ arrived' = <<>>
    BY <1>5 DEF Reply, Answered
  <2> DEFINE all == ResponsePackets(bytes, status)
             n == Count(bytes)
  <2>3. /\ n \in Nat \ {0} /\ all \in [1 .. n -> Seq(Cells)] /\ Len(all) = n
        /\ Holds(all, n, bytes, status)
    BY Replied
  <2> HIDE DEF all, n
  <2>4. \A i, j \in 1 .. n : all[i] = all[j] => i = j
    <3>1. \A i \in 1 .. n : all[i][P2] = i - 1
      BY <2>3 DEF Holds, InPlace
    <3> QED BY <3>1
  <2>5. Splits(<<>>, all, all, n)
    <3>1. Len(<<>>) = 0 /\ 0 + n = n /\ ~\E i \in 1 .. 0 : TRUE
      BY <2>3
    <3> QED BY <2>3, <2>4, <3>1 DEF Splits
  <2>6. <<>> \in Seq(Seq(Cells)) /\ all \in Seq(Seq(Cells))
    BY <2>3, SeqDef
  <2>7. AnswerOf(bytes, status)'
    BY <1>3, <2>1, <2>2, <2>5, <2>6 DEF AnswerOf, all, n
  <2>8. response' # <<>>
    BY <2>1
  <2>9. Answered'
    BY <2>7, <2>8 DEF Answered
  <2> QED BY <1>1, <1>2, <2>2, <2>9
<1>6. CASE Arrive
  <2>1. PICK i \in DOMAIN inFlight : /\ arrived' = Append(arrived, inFlight[i])
                                     /\ inFlight' = RemoveAt(inFlight, i)
    BY <1>6 DEF Arrive
  <2>2. packets' = packets /\ response' = response
    BY <1>6 DEF Arrive
  <2>3. response # <<>>
    BY <2>1 DEF Answered
  <2>4. PICK bytes \in Strings, status \in Statuses : AnswerOf(bytes, status)
    BY <2>3 DEF Answered
  <2> DEFINE all == ResponsePackets(bytes, status)
             n == Count(bytes)
  <2>5. /\ arrived \in Seq(Seq(Cells)) /\ inFlight \in Seq(Seq(Cells))
        /\ Splits(arrived, inFlight, all, n)
    BY <2>4 DEF AnswerOf
  <2> HIDE DEF all, n
  <2>6. i \in 1 .. Len(inFlight)
    BY <2>5, LenProperties
  <2>7. /\ arrived' \in Seq(Seq(Cells)) /\ inFlight' \in Seq(Seq(Cells))
        /\ Splits(arrived', inFlight', all, n)
    BY <2>1, <2>5, <2>6, ArrivalSplits
  <2>8. AnswerOf(bytes, status)'
    BY <1>3, <2>2, <2>4, <2>7 DEF AnswerOf, all, n
  <2>9. Answered'
    BY <2>2, <2>3, <2>8 DEF Answered
  <2> QED BY <1>1, <1>2, <2>2, <2>9
<1>7. CASE UNCHANGED vars
  <2>1. UNCHANGED <<request, packets, response, inFlight, arrived>>
    BY <1>7 DEF vars
  <2>2. Answered'
    BY <1>3, <2>1 DEF Answered, AnswerOf
  <2> QED BY <1>1, <1>2, <2>1, <2>2
<1> QED BY <1>4, <1>5, <1>6, <1>7 DEF Next

LEMMA SpecIInv == Spec => []IInv
BY InitIInv, NextIInv, PTL DEF Spec

\* Whatever is framed, the packets hold it whole: no byte of the request is lost or sent
\* twice, every packet fits the frame, counts them all, and keeps its own index and the
\* ID of the request (encode, frame.ts 44-71).
THEOREM RequestsStayIntact == Spec => []RequestIntact
<1>1. IInv => RequestIntact
  <2> SUFFICES ASSUME IInv, packets # <<>> PROVE RequestIntact
    BY DEF RequestIntact, Framed
  <2>1. request \in Requests /\ packets = EncodedRequest
    BY DEF IInv
  <2> QED BY <2>1, EncodeIntact DEF RequestIntact, EncodedRequest
<1> QED BY <1>1, SpecIInv, PTL

\* What decode() makes of a whole response, whatever the order of arrival.
Parsed(all, n) ==
  [error  |-> "none",
   data   |-> FlattenSeq([i \in 1 .. n |-> ParsePacket(all[i]).data]),
   status |-> ParsePacket(all[n]).status]

LEMMA DecodesInPlace ==
  ASSUME NEW n \in Nat \ {0}, NEW all \in [1 .. n -> Seq(Cells)], InPlace(all, n)
  PROVE  Decode(all) = Parsed(all, n)
<1> DEFINE key == [i \in 1 .. n |-> i - 1]
<1>1. key \in [1 .. n -> 0 .. n - 1]
  OBVIOUS
<1>2. \A i \in 1 .. n : all[i] = all[key[i] + 1]
  OBVIOUS
<1>3. ASSUME NEW k \in 0 .. n - 1 PROVE \E i \in 1 .. n : key[i] = k
  <2>1. k + 1 \in 1 .. n /\ (k + 1) - 1 = k
    OBVIOUS
  <2> QED BY <2>1
<1>4. \A i, j \in 1 .. n : key[i] = key[j] => i = j
  OBVIOUS
<1> HIDE DEF key
<1>5. Shuffles(all, all, key, n)
  BY <1>2, <1>3, <1>4 DEF Shuffles, Numbers
<1> QED BY <1>1, <1>5, DecodesInOrder DEF Parsed

Received(bytes, status, all, n) ==
  /\ response[1] = [bytes |-> bytes, status |-> status]
  /\ all = ResponsePackets(bytes, status) /\ n = Count(bytes)
  /\ n \in Nat \ {0} /\ all \in [1 .. n -> Seq(Cells)]
  /\ Holds(all, n, bytes, status)
  /\ Decode(arrived) = Parsed(all, n)

LEMMA CompleteDecoded ==
  ASSUME IInv, Complete
  PROVE  \E bytes \in Strings, status \in Statuses : \E all, n : Received(bytes, status, all, n)
<1>1. response # <<>> /\ inFlight = <<>>
  BY DEF Complete
<1>2. PICK bytes \in Strings, status \in Statuses : AnswerOf(bytes, status)
  BY <1>1 DEF IInv, Answered
<1> DEFINE all == ResponsePackets(bytes, status)
           n == Count(bytes)
<1>3. /\ n \in Nat \ {0} /\ all \in [1 .. n -> Seq(Cells)] /\ Holds(all, n, bytes, status)
  BY Replied DEF IInv
<1>4. arrived \in Seq(Seq(Cells)) /\ Splits(arrived, <<>>, all, n)
  BY <1>1, <1>2 DEF AnswerOf
<1>5. response[1] = [bytes |-> bytes, status |-> status]
  BY <1>2 DEF AnswerOf
<1>6. InPlace(all, n)
  BY <1>3 DEF Holds
<1> HIDE DEF all, n
<1>7. /\ arrived \in [1 .. n -> Seq(Cells)]
      /\ \E key \in [1 .. n -> 0 .. n - 1] : Shuffles(arrived, all, key, n)
  BY <1>3, <1>4, <1>6, AllArrived
<1>8. PICK key \in [1 .. n -> 0 .. n - 1] : Shuffles(arrived, all, key, n)
  BY <1>7
<1>9. Decode(arrived) = Parsed(all, n)
  BY <1>3, <1>6, <1>7, <1>8, DecodesInOrder DEF Parsed
<1>10. Received(bytes, status, all, n)
  BY <1>3, <1>5, <1>9 DEF Received, all, n
<1> QED BY <1>10

\* A response decodes to the same data and status in whatever order its packets came
\* (the sort of decode, frame.ts 104-106).
THEOREM ArrivalOrderDoesNotShow == Spec => []OrderDoesNotShow
<1>1. IInv => OrderDoesNotShow
  <2> SUFFICES ASSUME IInv, Complete
               PROVE  Decode(arrived) = Decode(ResponsePackets(response[1].bytes, response[1].status))
    BY DEF OrderDoesNotShow
  <2>1. PICK bytes \in Strings, status \in Statuses : \E all, n : Received(bytes, status, all, n)
    BY CompleteDecoded
  <2>2. PICK all, n : Received(bytes, status, all, n)
    BY <2>1
  <2>3. Decode(all) = Parsed(all, n)
    BY <2>2, DecodesInPlace DEF Holds, Received
  <2>4. response[1].bytes = bytes /\ response[1].status = status
    BY <2>2 DEF Received
  <2> QED BY <2>2, <2>3, <2>4 DEF Received
<1> QED BY <1>1, SpecIInv, PTL

(***************************************************************************)
(* TextDecode, read from left to right: f[k] is what the first k bytes     *)
(* give.  The recursion has a solution, found one byte at a time.          *)
(***************************************************************************)
Chars == Bytes \cup {Wide, Replacement}
Reads(f, bytes, n) ==
  /\ f[0] = <<>>
  /\ \A k \in 1 .. n : f[k] = IF PairAt(bytes, k - 1) THEN f[k - 1]
                              ELSE Append(f[k - 1], CharAt(bytes, k))
Readable(bytes, n) == \E f \in [0 .. n -> Seq(Chars)] : Reads(f, bytes, n)

LEMMA ReadsOneMore ==
  ASSUME NEW bytes \in Seq(Bytes), NEW n \in 0 .. Len(bytes) - 1, Readable(bytes, n)
  PROVE  Readable(bytes, n + 1)
<1>1. PICK f \in [0 .. n -> Seq(Chars)] : Reads(f, bytes, n)
  BY DEF Readable
<1> DEFINE last == IF PairAt(bytes, n) THEN f[n] ELSE Append(f[n], CharAt(bytes, n + 1))
           g == [k \in 0 .. n + 1 |-> IF k = n + 1 THEN last ELSE f[k]]
<1>2. n \in Nat /\ n + 1 \in 1 .. Len(bytes) /\ (n + 1) - 1 = n
  BY LenProperties
<1>3. CharAt(bytes, n + 1) \in Chars
  <2>1. bytes[n + 1] \in Bytes
    BY <1>2, ElementOfSeq
  <2> QED BY <2>1 DEF CharAt, Chars
<1>4. last \in Seq(Chars)
  <2>1. f[n] \in Seq(Chars)
    BY <1>2
  <2> QED BY <1>3, <2>1, AppendProperties
<1>5. g \in [0 .. n + 1 -> Seq(Chars)]
  <2> HIDE DEF last
  <2> QED BY <1>2, <1>4
<1>6. g[0] = <<>> /\ g[n + 1] = last /\ \A k \in 0 .. n : g[k] = f[k]
  <2> HIDE DEF last
  <2> QED BY <1>1, <1>2 DEF Reads
<1> HIDE DEF g
<1>7. ASSUME NEW k \in 1 .. n + 1
      PROVE  g[k] = IF PairAt(bytes, k - 1) THEN g[k - 1] ELSE Append(g[k - 1], CharAt(bytes, k))
  <2>1. CASE k \in 1 .. n
    <3>1. g[k] = f[k] /\ g[k - 1] = f[k - 1]
      BY <1>2, <1>6, <2>1
    <3> QED BY <1>1, <2>1, <3>1 DEF Reads
  <2>2. CASE k = n + 1
    <3>1. g[k] = last /\ k - 1 = n /\ g[n] = f[n]
      BY <1>2, <1>6, <2>2
    <3> QED BY <2>2, <3>1
  <2> QED BY <1>2, <2>1, <2>2
<1>8. Reads(g, bytes, n + 1)
  BY <1>6, <1>7 DEF Reads
<1> QED BY <1>5, <1>8 DEF Readable

LEMMA AllReadable ==
  ASSUME NEW bytes \in Seq(Bytes)
  PROVE  Readable(bytes, Len(bytes))
<1> DEFINE n == Len(bytes)
           T == {k \in 0 .. n : Readable(bytes, k)}
<1>1. n \in Nat /\ 0 \in Nat
  BY LenProperties
<1>2. Readable(bytes, 0)
  <2> DEFINE f == [k \in 0 .. 0 |-> <<>>]
  <2>1. f \in [0 .. 0 -> Seq(Chars)] /\ f[0] = <<>> /\ ~\E k \in 1 .. 0 : TRUE
    BY EmptySeq
  <2> HIDE DEF f
  <2>2. Reads(f, bytes, 0)
    BY <2>1 DEF Reads
  <2> QED BY <2>1, <2>2 DEF Readable
<1>3. ASSUME NEW k \in 0 .. n - 1, k \in T PROVE k + 1 \in T
  BY <1>1, <1>3, ReadsOneMore
<1>4. 0 \in T
  BY <1>1, <1>2
<1> HIDE DEF T, n
<1>5. 0 .. n \subseteq T
  BY <1>1, <1>3, <1>4, Induction
<1> QED BY <1>1, <1>5 DEF T, n

\* TextDecode is the last value of a reading, and of any reading.
LEMMA TextRead ==
  ASSUME NEW bytes \in Seq(Bytes)
  PROVE  \E f \in [0 .. Len(bytes) -> Seq(Chars)] :
           Reads(f, bytes, Len(bytes)) /\ TextDecode(bytes) = f[Len(bytes)]
<1> DEFINE n == Len(bytes)
           Meets(f) == f = [k \in 0 .. n |->
                              IF k = 0 THEN <<>>
                              ELSE IF PairAt(bytes, k - 1) THEN f[k - 1]
                              ELSE Append(f[k - 1], CharAt(bytes, k))]
           chosen == CHOOSE f : Meets(f)
<1>1. n \in Nat
  BY LenProperties
<1>2. PICK f \in [0 .. n -> Seq(Chars)] : Reads(f, bytes, n)
  BY AllReadable DEF Readable
<1>3. Meets(f)
  <2>1. f = [k \in 0 .. n |-> f[k]]
    OBVIOUS
  <2>2. ASSUME NEW k \in 0 .. n
        PROVE  f[k] = IF k = 0 THEN <<>>
                      ELSE IF PairAt(bytes, k - 1) THEN f[k - 1]
                      ELSE Append(f[k - 1], CharAt(bytes, k))
    <3>1. k = 0 \/ k \in 1 .. n
      OBVIOUS
    <3> QED BY <1>2, <3>1 DEF Reads
  <2> QED BY <2>1, <2>2, Zenon
<1>4. Meets(chosen)
  BY <1>3
<1>5. TextDecode(bytes) = chosen[n]
  BY DEF TextDecode
<1> HIDE DEF chosen
<1>6. DOMAIN chosen = 0 .. n /\
      \A k \in 0 .. n : chosen[k] = IF k = 0 THEN <<>>
                                    ELSE IF PairAt(bytes, k - 1) THEN chosen[k - 1]
                                    ELSE Append(chosen[k - 1], CharAt(bytes, k))
  BY <1>4, Zenon
<1> HIDE DEF Meets
<1>7. chosen[0] = f[0]
  BY <1>1, <1>2, <1>6 DEF Reads
<1> DEFINE Same == {k \in 0 .. n : chosen[k] = f[k]}
<1>8. 0 \in Same
  BY <1>1, <1>7
<1>9. ASSUME NEW k \in 0 .. n - 1, k \in Same PROVE k + 1 \in Same
  <2>1. k + 1 \in 1 .. n /\ k + 1 \in 0 .. n /\ (k + 1) - 1 = k /\ k + 1 # 0
    BY <1>1
  <2>2. chosen[k + 1] = IF PairAt(bytes, k) THEN chosen[k] ELSE Append(chosen[k], CharAt(bytes, k + 1))
    BY <1>6, <2>1
  <2>3. f[k + 1] = IF PairAt(bytes, k) THEN f[k] ELSE Append(f[k], CharAt(bytes, k + 1))
    BY <1>2, <2>1 DEF Reads
  <2>4. chosen[k] = f[k]
    BY <1>9
  <2> QED BY <2>1, <2>2, <2>3, <2>4
<1> HIDE DEF Same
<1>10. n \in Same
  <2>1. 0 .. n \subseteq Same
    BY <1>1, <1>8, <1>9, Induction
  <2> QED BY <1>1, <2>1
<1> QED BY <1>2, <1>5, <1>10 DEF Same

LEMMA AppendBehind ==
  ASSUME NEW S, NEW s \in Seq(S), NEW t \in Seq(S), NEW c \in S
  PROVE  s \o Append(t, c) = Append(s \o t, c)
<1>1. s \o t \in Seq(S) /\ <<c>> \in Seq(S)
  BY ConcatProperties
<1>2. Append(s \o t, c) = (s \o t) \o <<c>>
  BY <1>1, AppendIsConcat
<1>3. Append(t, c) = t \o <<c>>
  BY AppendIsConcat
<1>4. (s \o t) \o <<c>> = s \o (t \o <<c>>)
  BY <1>1, ConcatAssociative
<1> QED BY <1>2, <1>3, <1>4

\* A piece reads like the bytes it was cut from, when the cuts at its ends part no
\* character.
LEMMA PieceReads ==
  ASSUME NEW bytes \in Seq(Bytes), NEW start \in Nat, NEW size \in Nat,
         start + size <= Len(bytes),
         NEW piece \in Seq(Bytes), Len(piece) = size,
         \A j \in 1 .. size : piece[j] = bytes[start + j],
         ~PairAt(bytes, start), ~PairAt(bytes, start + size),
         NEW f \in [0 .. Len(bytes) -> Seq(Chars)], Reads(f, bytes, Len(bytes)),
         NEW h \in [0 .. size -> Seq(Chars)], Reads(h, piece, size)
  PROVE  f[start + size] = f[start] \o h[size]
<1> DEFINE n == Len(bytes)
           T == {j \in 0 .. size : f[start + j] = f[start] \o h[j]}
<1>1. n \in Nat /\ start \in 0 .. n /\ f[start] \in Seq(Chars)
  <2>1. n \in Nat
    BY LenProperties
  <2>2. start \in 0 .. n
    BY <2>1
  <2> QED BY <2>1, <2>2
<1>2. ASSUME NEW j \in 0 .. size PROVE PairAt(bytes, start + j) <=> PairAt(piece, j)
  <2>1. CASE j = 0
    <3>1. start + j = start /\ ~PairAt(piece, j)
      BY <2>1 DEF PairAt
    <3> QED BY <3>1
  <2>2. CASE j = size
    <3>1. ~PairAt(piece, j)
      BY <2>2 DEF PairAt
    <3> QED BY <2>2, <3>1
  <2>3. CASE j \in 1 .. size - 1
    <3>1. /\ j \in 1 .. size /\ j + 1 \in 1 .. size /\ start + (j + 1) = (start + j) + 1
          /\ start + j \in 1 .. n - 1
      BY <1>1, <2>3
    <3>2. piece[j] = bytes[start + j] /\ piece[j + 1] = bytes[(start + j) + 1]
      BY <3>1
    <3> QED BY <2>3, <3>1, <3>2 DEF PairAt
  <2> QED BY <2>1, <2>2, <2>3
<1>3. ASSUME NEW j \in 1 .. size PROVE CharAt(bytes, start + j) = CharAt(piece, j)
  <2>1. PairAt(bytes, start + j) <=> PairAt(piece, j)
    BY <1>2
  <2>2. piece[j] = bytes[start + j]
    OBVIOUS
  <2> QED BY <2>1, <2>2 DEF CharAt
<1>4. 0 \in T
  <2>1. h[0] = <<>> /\ start + 0 = start /\ 0 \in 0 .. size
    BY DEF Reads
  <2>2. f[start] \o <<>> = f[start]
    BY <1>1, ConcatEmptySeq
  <2> QED BY <2>1, <2>2
<1>5. ASSUME NEW j \in 0 .. size - 1, j \in T PROVE j + 1 \in T
  <2>1. /\ j + 1 \in 1 .. size /\ j + 1 \in 0 .. size /\ (j + 1) - 1 = j
        /\ start + (j + 1) \in 1 .. n /\ (start + (j + 1)) - 1 = start + j
        /\ j \in 0 .. size
    BY <1>1
  <2>2. f[start + j] = f[start] \o h[j] /\ h[j] \in Seq(Chars)
    BY <1>5, <2>1
  <2>3. f[start + (j + 1)] = IF PairAt(bytes, start + j) THEN f[start + j]
                             ELSE Append(f[start + j], CharAt(bytes, start + (j + 1)))
    BY <2>1 DEF Reads
  <2>4. h[j + 1] = IF PairAt(piece, j) THEN h[j] ELSE Append(h[j], CharAt(piece, j + 1))
    BY <2>1 DEF Reads
  <2>5. /\ PairAt(bytes, start + j) <=> PairAt(piece, j)
        /\ CharAt(bytes, start + (j + 1)) = CharAt(piece, j + 1)
    BY <1>2, <1>3, <2>1
  <2> DEFINE c == CharAt(piece, j + 1)
  <2>6. c \in Chars
    <3>1. piece[j + 1] \in Bytes
      BY <2>1, ElementOfSeq
    <3> QED BY <3>1 DEF CharAt, Chars
  <2> HIDE DEF c
  <2>7. Append(f[start] \o h[j], c) = f[start] \o Append(h[j], c)
    <3> DEFINE u == f[start]
               v == h[j]
    <3>1. u \in Seq(Chars) /\ v \in Seq(Chars)
      BY <1>1, <2>2
    <3> HIDE DEF u, v
    <3>2. u \o Append(v, c) = Append(u \o v, c)
      BY <2>6, <3>1, AppendBehind, SMTT(30)
    <3> QED BY <3>2 DEF u, v
  <2>8. f[start + (j + 1)] = f[start] \o h[j + 1]
    <3>1. CASE PairAt(piece, j)
      BY <2>2, <2>3, <2>4, <2>5, <3>1
    <3>2. CASE ~PairAt(piece, j)
      BY <2>2, <2>3, <2>4, <2>5, <2>7, <3>2 DEF c
    <3> QED BY <3>1, <3>2
  <2> QED BY <2>1, <2>8
<1> HIDE DEF T
<1>6. size \in T
  <2>1. 0 \in Nat /\ 0 .. size \subseteq T
    BY <1>4, <1>5, Induction
  <2> QED BY <2>1
<1> QED BY <1>6 DEF T

LEMMA MultipleLeavesNothing ==
  ASSUME NEW k \in Nat, NEW m \in Nat \ {0}
  PROVE  (k * m) % m = 0
BY SMT

\* The texts of the packets follow each other to the text of the whole, when no character
\* has its bytes in two packets.
LEMMA TextOfPieces ==
  ASSUME NEW bytes \in Seq(Bytes), bytes # <<>>, Uncut(bytes), NEW n, n = TotalPackets(bytes)
  PROVE  FlattenSeq([i \in 1 .. n |-> TextDecode(PacketData(bytes, i))]) = TextDecode(bytes)
<1> DEFINE texts == [i \in 1 .. n |-> TextDecode(PacketData(bytes, i))]
<1>1. n \in Nat \ {0} /\ Cut(bytes, n) = Len(bytes) /\ Len(bytes) \in Nat /\ M \in Nat \ {0}
  BY Cuts, LenProperties, FrameAssumption DEF M
<1>2. PICK f \in [0 .. Len(bytes) -> Seq(Chars)] :
             Reads(f, bytes, Len(bytes)) /\ TextDecode(bytes) = f[Len(bytes)]
  BY TextRead
<1> DEFINE g == [i \in 1 .. n |-> f[Cut(bytes, i)]]
<1>3. ASSUME NEW i \in 1 .. n PROVE f[Cut(bytes, i)] = f[(i - 1) * M] \o texts[i]
  <2> DEFINE start == (i - 1) * M
             end == Cut(bytes, i)
             piece == PacketData(bytes, i)
             size == Len(piece)
  <2>1. /\ start \in Nat /\ end \in Nat /\ start < end /\ end <= Len(bytes)
        /\ end = i * M \/ end = Len(bytes)
    BY <1>1, Cuts DEF Cut
  <2>2. /\ piece \in Seq(Bytes) /\ size = end - start
        /\ \A j \in 1 .. size : piece[j] = bytes[start + j]
    BY <1>1, Pieces
  <2>3. start % M = 0 /\ (i * M) % M = 0
    <3>1. i - 1 \in Nat /\ i \in Nat
      BY <1>1
    <3> QED BY <1>1, <3>1, MultipleLeavesNothing
  <2>4. texts[i] = TextDecode(piece)
    OBVIOUS
  <2> HIDE DEF start, end, piece, size
  <2>5. ~PairAt(bytes, start) /\ ~PairAt(bytes, end)
    <3>1. ASSUME NEW k \in Nat, k % M = 0 PROVE ~PairAt(bytes, k)
      <4>1. SUFFICES ASSUME PairAt(bytes, k) PROVE FALSE
        OBVIOUS
      <4>2. k \in 1 .. Len(bytes) - 1
        BY <4>1 DEF PairAt
      <4> QED BY <3>1, <4>1, <4>2 DEF Uncut, M
    <3>2. ~PairAt(bytes, Len(bytes))
      BY <1>1 DEF PairAt
    <3> QED BY <2>1, <2>3, <3>1, <3>2
  <2>6. size \in Nat /\ start + size = end /\ Len(piece) = size
    BY <2>1, <2>2 DEF size
  <2>7. PICK h \in [0 .. size -> Seq(Chars)] : Reads(h, piece, size) /\ TextDecode(piece) = h[size]
    BY <2>2, <2>6, TextRead
  <2>8. f[start + size] = f[start] \o h[size]
    BY <1>2, <2>1, <2>2, <2>5, <2>6, <2>7, PieceReads
  <2> QED BY <2>4, <2>6, <2>7, <2>8 DEF start, end
<1>4. g[1] = texts[1]
  <2>1. 1 \in 1 .. n /\ (1 - 1) * M = 0
    BY <1>1
  <2>2. f[Cut(bytes, 1)] = <<>> \o texts[1] /\ g[1] = f[Cut(bytes, 1)]
    BY <1>2, <1>3, <2>1 DEF Reads
  <2>3. texts[1] \in Seq(Chars)
    <3>1. PICK h \in [0 .. Len(PacketData(bytes, 1)) -> Seq(Chars)] :
                 TextDecode(PacketData(bytes, 1)) = h[Len(PacketData(bytes, 1))]
      BY <1>1, <2>1, Pieces, TextRead
    <3>2. Len(PacketData(bytes, 1)) \in Nat
      BY <1>1, <2>1, Pieces, LenProperties
    <3> QED BY <2>1, <3>1, <3>2
  <2> HIDE DEF texts, g
  <2> QED BY <2>2, <2>3, ConcatEmptySeq
<1>5. ASSUME NEW i \in 2 .. n PROVE g[i] = g[i - 1] \o texts[i]
  <2>1. i \in 1 .. n /\ i - 1 \in 1 .. n /\ Cut(bytes, i - 1) = (i - 1) * M
    BY <1>1, Cuts
  <2>2. g[i] = f[Cut(bytes, i)] /\ g[i - 1] = f[Cut(bytes, i - 1)]
    BY <2>1
  <2> HIDE DEF texts, g
  <2> QED BY <1>3, <2>1, <2>2
<1>6. g \in [1 .. n -> {g[i] : i \in 1 .. n}]
  OBVIOUS
<1>7. g[n] = TextDecode(bytes)
  BY <1>1, <1>2
<1>8. Len(texts) = n
  BY <1>1, FunctionIsSeq
<1> HIDE DEF texts, g
<1>9. Joins(g, texts, n)
  BY <1>4, <1>5 DEF Joins
<1>10. FlattenSeq(texts) = g[n]
  BY <1>1, <1>6, <1>8, <1>9, Flattens
<1> QED BY <1>7, <1>10 DEF texts

\* decode() gives back the text and the status of the device, whatever its length and
\* the order of arrival, unless a character has its bytes in two packets (dataParser
\* decodes the data of each packet by itself, frame.ts 33-37 and 73-100).
THEOREM ResponsesAreDecoded == Spec => []ResponseDecoded
<1>1. IInv => ResponseDecoded
  <2> SUFFICES ASSUME IInv, Complete, response[1].bytes # <<>>, Uncut(response[1].bytes)
               PROVE  Decode(arrived) = [error  |-> "none",
                                         data   |-> TextDecode(response[1].bytes),
                                         status |-> response[1].status]
    BY DEF ResponseDecoded
  <2>1. PICK bytes \in Strings, status \in Statuses : \E all, n : Received(bytes, status, all, n)
    BY CompleteDecoded
  <2>2. PICK all, n : Received(bytes, status, all, n)
    BY <2>1
  <2>3. response[1].bytes = bytes /\ response[1].status = status
    BY <2>2 DEF Received
  <2>4. bytes # <<>> /\ Uncut(bytes) /\ bytes \in Seq(Bytes) /\ n = TotalPackets(bytes)
    <3>1. bytes \in BoundedSeq(Bytes, MaxText)
      BY DEF Strings
    <3> QED BY <2>2, <2>3, <3>1, Bounded, ExchangeAssumption DEF Received, Count
  <2>5. n \in Nat \ {0} /\ Holds(all, n, bytes, status) /\ Decode(arrived) = Parsed(all, n)
    BY <2>2 DEF Received
  <2>6. ASSUME NEW i \in 1 .. n
        PROVE  ParsePacket(all[i]).data = TextDecode(PacketData(bytes, i))
    <3>1. PacketData(bytes, i) # <<>>
      <4>1. Len(PacketData(bytes, i)) \in 1 .. M
        BY <2>4, Pieces
      <4> QED BY <4>1
    <3> QED BY <2>5, <3>1 DEF Holds, DataParser
  <2>7. [i \in 1 .. n |-> ParsePacket(all[i]).data] = [i \in 1 .. n |-> TextDecode(PacketData(bytes, i))]
    BY <2>6
  <2>8. FlattenSeq([i \in 1 .. n |-> ParsePacket(all[i]).data]) = TextDecode(bytes)
    BY <2>4, <2>7, TextOfPieces
  <2>9. ParsePacket(all[n]).status = status
    BY <2>5 DEF Holds
  <2> QED BY <2>3, <2>5, <2>8, <2>9 DEF Parsed
<1> QED BY <1>1, SpecIInv, PTL
=============================================================================
