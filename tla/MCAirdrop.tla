------------------------------ MODULE MCAirdrop ------------------------------
(***************************************************************************)
(* The airdrops and users of the instances of Airdrop that TLC checks.     *)
(***************************************************************************)
EXTENDS Airdrop

CONSTANTS a1, a2, u1, u2
=============================================================================
