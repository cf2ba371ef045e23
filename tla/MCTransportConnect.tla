------------------------- MODULE MCTransportConnect -------------------------
(***************************************************************************)
(* Instance of TransportConnect for TLC: one call of any function beside   *)
(* one call of connect(), and two devices, one with another product id.    *)
(***************************************************************************)
EXTENDS TransportConnect, TLC

PairJobs == (1 :> {"permission", "connect", "create", "bitcoin"}) @@ (2 :> {"connect"})
=============================================================================
