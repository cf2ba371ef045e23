------------------------------- MODULE Eapdu -------------------------------
(***************************************************************************)
(* The EAPDU framing of hw-transport-usb/src/frame.ts: how a request is    *)
(* cut into packets and how the packets of a response are put together.    *)
(*                                                                         *)
(* A packet is a sequence of cells.  A cell of the header, or the status,  *)
(* is one 16-bit field (one byte for CLA); a cell of the data is one byte. *)
(* The bytes told apart are ASCII characters and the two halves of a       *)
(* two-byte UTF-8 character, because dataParser decodes text packet by     *)
(* packet and the two halves may travel in different packets.              *)
(***************************************************************************)
EXTENDS Integers, Sequences, SequencesExt

CONSTANTS
  MAX_DATA_SIZE,  \* data bytes of one packet: 55 in the code
  UINT16,         \* number of values of a 16-bit field: 65536 in the code
  Ascii           \* bytes that are a character by themselves

ASSUME FrameAssumption ==
  /\ MAX_DATA_SIZE \in Nat \ {0}
  /\ UINT16 \in Nat \ {0, 1}

Lead == "lead"            \* first byte of a two-byte character
Trail == "trail"          \* its second byte
Wide == "wide"            \* the character the two bytes stand for
Replacement == "U+FFFD"   \* what TextDecoder yields for half a character
NullText == "null"        \* what `acc.data + data` appends when data is null

Bytes == Ascii \cup {Lead, Trail}

\* Cells of the header, in the order of OFFSET_CLA, INS, P1, P2 and LC.
CLA == 1
INS == 2
P1 == 3
P2 == 4
LC == 5
HEADER_SIZE == 5

SetUint16(value) == value % UINT16

(***************************************************************************)
(* encode(command, requestID, data): text tells a string from a byte       *)
(* array.  An empty string is one packet without data; an empty byte array *)
(* is no packet at all.                                                    *)
(***************************************************************************)
TotalPacketsUnrounded(bytes) == Len(bytes) \div MAX_DATA_SIZE + 1  \* mutant
TotalPackets(bytes) == (Len(bytes) + MAX_DATA_SIZE - 1) \div MAX_DATA_SIZE

PacketData(bytes, i) ==
  SubSeq(bytes, (i - 1) * MAX_DATA_SIZE + 1,
         IF i * MAX_DATA_SIZE < Len(bytes) THEN i * MAX_DATA_SIZE ELSE Len(bytes))

Header(command, total, index, requestID) ==
  <<0, SetUint16(command), SetUint16(total), SetUint16(index), SetUint16(requestID)>>

Encode(command, requestID, text, bytes) ==
  IF text /\ bytes = <<>>
  THEN <<Header(command, 1, 0, requestID)>>
  ELSE [i \in 1 .. TotalPackets(bytes) |->
          Header(command, TotalPackets(bytes), i - 1, requestID) \o PacketData(bytes, i)]

(***************************************************************************)
(* TextDecoder on the data of one packet: one character for every byte     *)
(* that does not finish the character before it.                           *)
(***************************************************************************)
PairAt(bytes, i) == i \in 1 .. Len(bytes) - 1 /\ bytes[i] = Lead /\ bytes[i + 1] = Trail

CharAt(bytes, i) ==
  IF PairAt(bytes, i) THEN Wide
  ELSE IF bytes[i] \in {Lead, Trail} THEN Replacement ELSE bytes[i]

TextDecode(bytes) ==
  LET decoded[n \in 0 .. Len(bytes)] ==   \* the characters of the first n bytes
        IF n = 0 THEN <<>>
        ELSE IF PairAt(bytes, n - 1) THEN decoded[n - 1]
        ELSE Append(decoded[n - 1], CharAt(bytes, n))
  IN  decoded[Len(bytes)]

DataParser(bytes) == IF bytes = <<>> THEN <<NullText>> ELSE TextDecode(bytes)

(***************************************************************************)
(* parseEApduPacket and decode.  A packet whose last two bytes would reach *)
(* into the header makes `new Uint8Array(buffer, 9, size)` throw, because  *)
(* the size is negative.                                                   *)
(***************************************************************************)
PacketTooShort(packet) == Len(packet) < HEADER_SIZE
NoRoomForStatus(packet) == Len(packet) = HEADER_SIZE

ParsePacketCut(packet) ==   \* mutant: the last cell of the data is lost
  [packetIndex |-> packet[P2],
   data        |-> DataParser(SubSeq(packet, HEADER_SIZE + 1, Len(packet) - 2)),
   status      |-> packet[Len(packet)]]

ParsePacket(packet) ==
  [packetIndex |-> packet[P2],
   data        |-> DataParser(SubSeq(packet, HEADER_SIZE + 1, Len(packet) - 1)),
   status      |-> packet[Len(packet)]]

\* Array.prototype.sort is stable: the rank of an element counts the elements with
\* a smaller key and those with the same key before it.
SortByIndexNot(seq) == seq   \* mutant
SortByIndex(seq) ==
  LET Key(packet) == packet.packetIndex
      Before(j, i) == Key(seq[j]) < Key(seq[i]) \/ (Key(seq[j]) = Key(seq[i]) /\ j < i)
      Rank(i) == Cardinality({j \in DOMAIN seq : Before(j, i)})
  IN  [k \in 1 .. Len(seq) |-> seq[CHOOSE i \in DOMAIN seq : Rank(i) = k - 1]]

Undecodable(error) == [error |-> error, data |-> <<>>, status |-> 0]

Decode(packets) ==
  LET parsed == [i \in DOMAIN packets |-> ParsePacket(packets[i])]
      sorted == SortByIndex(parsed)
  IN  IF \E i \in DOMAIN packets : PacketTooShort(packets[i])
      THEN Undecodable("ERR_INVALID_PACKET_SIZE")
      ELSE IF \E i \in DOMAIN packets : NoRoomForStatus(packets[i])
      THEN Undecodable("RangeError")
      ELSE [error  |-> "none",
            data   |-> FlattenSeq([i \in DOMAIN sorted |-> sorted[i].data]),
            status |-> Last(sorted).status]

=============================================================================
