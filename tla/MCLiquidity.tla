----------------------------- MODULE MCLiquidity -----------------------------
(***************************************************************************)
(* The instance of Liquidity that TLC checks.  Pools are interchangeable,  *)
(* and so are users.                                                       *)
(***************************************************************************)
EXTENDS Liquidity, TLC

CONSTANTS p1, p2, u1, u2

Interchangeable == Permutations(Pools) \cup Permutations(Users)
=============================================================================
