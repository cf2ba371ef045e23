--------------------------- MODULE MCUsbTransport ---------------------------
(***************************************************************************)
(* Instances of UsbTransport for TLC: two or three calls of one command,   *)
(* with requests and responses of one or two packets.                      *)
(***************************************************************************)
EXTENDS UsbTransport, TLC

\* Two calls: a long request with a long response, then a short one.
PairRequests == (1 :> 2) @@ (2 :> 1)
PairResponses == (1 :> 2) @@ (2 :> 2)

\* Two calls that reach the device, one that the transport refuses since it has more
\* packets than maxPacketSize, and one of an empty byte array, which has no packet.
FourRequests == (1 :> 1) @@ (2 :> 1) @@ (3 :> 3) @@ (4 :> 0)
FourResponses == (1 :> 2) @@ (2 :> 1) @@ (3 :> 1) @@ (4 :> 1)
FourActions ==
  [c \in Calls |-> IF c = 2 THEN "CMD_GET_DEVICE_VERSION" ELSE "CMD_RESOLVE_UR"]

ShortRequests == [c \in Calls |-> 1]
ShortResponses == [c \in Calls |-> 1]
SameAction == [c \in Calls |-> "CMD_RESOLVE_UR"]
=============================================================================
