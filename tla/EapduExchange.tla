--------------------------- MODULE EapduExchange ---------------------------
(***************************************************************************)
(* One exchange of EAPDU packets: the host frames a request, the device    *)
(* frames its response in the same layout with a status behind the data,   *)
(* and the response packets reach decode() in any order.                   *)
(***************************************************************************)
EXTENDS Eapdu

CONSTANTS
  Commands,   \* values of Actions
  Statuses,   \* values of the status field
  MaxText,    \* bound on the bytes of a string
  MaxArray    \* bound on the bytes of a byte array

\* The header counts every packet of the data: send() sends at most MAXUSBPackets, 200.
ASSUME ExchangeAssumption ==
  /\ Commands \subseteq Nat
  /\ MaxText \in Nat /\ MaxText <= MAX_DATA_SIZE * (UINT16 - 1)
  /\ MaxArray \in Nat /\ MaxArray <= MAX_DATA_SIZE * (UINT16 - 1)

VARIABLES
  request,    \* what send() is asked to send
  packets,    \* what encode() made of it
  response,   \* what the device answers
  inFlight,   \* packets of the response that have not arrived
  arrived     \* packagesBuffer

vars == <<request, packets, response, inFlight, arrived>>

\* TextEncoder yields well-formed UTF-8: no half of a character stands alone.
WellFormed(bytes) ==
  \A i \in DOMAIN bytes :
    /\ bytes[i] = Lead => PairAt(bytes, i)
    /\ bytes[i] = Trail => PairAt(bytes, i - 1)
Strings == {s \in BoundedSeq(Bytes, MaxText) : WellFormed(s)}
Arrays == BoundedSeq(Bytes, MaxArray)

GenerateRequestID == 0 .. UINT16 - 2

Requests ==
  [command : Commands, requestID : GenerateRequestID, text : {TRUE}, bytes : Strings]
  \cup [command : Commands, requestID : GenerateRequestID, text : {FALSE}, bytes : Arrays]

Init ==
  /\ request \in Requests
  /\ packets = <<>>
  /\ response = <<>>
  /\ inFlight = <<>>
  /\ arrived = <<>>

\* #send frames the request.
Frame ==
  /\ packets = <<>>
  /\ packets' = Encode(request.command, request.requestID, request.text, request.bytes)
  /\ UNCHANGED <<request, response, inFlight, arrived>>

\* The device's own framing: one packet at least, the status behind the data of each.
ResponsePackets(bytes, status) ==
  LET total == IF bytes = <<>> THEN 1 ELSE TotalPackets(bytes) IN
  [i \in 1 .. total |->
    Header(request.command, total, i - 1, request.requestID)
      \o PacketData(bytes, i) \o <<status>>]

Reply ==
  /\ packets # <<>>
  /\ response = <<>>
  /\ \E bytes \in Strings, status \in Statuses :
       /\ response' = <<[bytes |-> bytes, status |-> status]>>
       /\ inFlight' = ResponsePackets(bytes, status)
  /\ UNCHANGED <<request, packets, arrived>>

Arrive ==
  /\ \E i \in DOMAIN inFlight :
       /\ arrived' = Append(arrived, inFlight[i])
       /\ inFlight' = RemoveAt(inFlight, i)
  /\ UNCHANGED <<request, packets, response>>

Next == Frame \/ Reply \/ Arrive

Spec == Init /\ [][Next]_vars

-----------------------------------------------------------------------------
Framed == packets # <<>>
Complete == response # <<>> /\ inFlight = <<>>

DataOf(packet) == SubSeq(packet, HEADER_SIZE + 1, Len(packet))

\* encode() loses and repeats no byte whatever the length of the data is, even when it
\* is a multiple of the packet size; no packet exceeds the frame, the header of each
\* counts all of them, and each keeps its own place and the ID of the request.
RequestIntact ==
  Framed =>
    /\ FlattenSeq([i \in DOMAIN packets |-> DataOf(packets[i])]) = request.bytes
    /\ \A i \in DOMAIN packets :
         /\ Len(DataOf(packets[i])) <= MAX_DATA_SIZE
         /\ packets[i][P1] = Len(packets)
         /\ packets[i][P2] = i - 1
         /\ packets[i][LC] = request.requestID

\* No character of the text has its bytes in two packets.
Uncut(bytes) ==
  \A i \in 1 .. Len(bytes) - 1 : PairAt(bytes, i) => i % MAX_DATA_SIZE # 0

\* decode() gives back the text of the device and its status in whatever order the
\* packets came, for a text that is not empty and has no character across two packets.
ResponseDecoded ==
  Complete =>
    LET r == response[1] IN
    r.bytes # <<>> /\ Uncut(r.bytes) =>
      Decode(arrived) = [error |-> "none", data |-> TextDecode(r.bytes), status |-> r.status]

\* The order of arrival never shows in the result, not even for a text that decode()
\* does not give back as it was sent.
OrderDoesNotShow ==
  Complete =>
    Decode(arrived) = Decode(ResponsePackets(response[1].bytes, response[1].status))

\* docs/EAPDU_Readme.md: the data of a response, split across packages, is "the data
\* being returned", whatever characters it has and wherever they are cut.
EveryTextDecoded ==
  Complete /\ response[1].bytes # <<>> =>
    Decode(arrived).data = TextDecode(response[1].bytes)

=============================================================================
