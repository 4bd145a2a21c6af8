------------------------------- MODULE MCStake -------------------------------
(***************************************************************************)
(* Instances of Stake for TLC.  Requests, wallets and tokens are           *)
(* interchangeable.                                                        *)
(***************************************************************************)
EXTENDS Stake, TLC

CONSTANTS r1, r2, r3, d1, w1, w2, t1, t2

Interchangeable ==
  Permutations(Requests) \cup Permutations(Wallets) \cup Permutations(Tokens)
=============================================================================
