---------------------------- MODULE MCWalletApp -----------------------------
(***************************************************************************)
(* Instance of WalletApp for TLC: every package, three calls, two seeds.   *)
(***************************************************************************)
EXTENDS WalletApp, TLC

CONSTANTS c1, c2, c3
CallSymmetry == Permutations({c1, c2, c3})
=============================================================================
