------------------------------- MODULE MCLogin -------------------------------
(***************************************************************************)
(* The instance of Login that TLC checks.  Requests are interchangeable,   *)
(* wallets are not: one of them is listed for a proof.                     *)
(***************************************************************************)
EXTENDS Login, TLC

CONSTANTS r1, r2, w1, w2

\* The listed wallet is spelled in two ways, the other one as it is stored.
Spelled == {[wallet |-> w1, form |-> "mixed"], [wallet |-> w1, form |-> "bare"],
            [wallet |-> w2, form |-> "lower"]}

Interchangeable == Permutations(Requests)
=============================================================================
