------------------------------- MODULE MCScore -------------------------------
(***************************************************************************)
(* Instances of Score for TLC.  Rows and slots are interchangeable, so the *)
(* safety run uses their permutations as a symmetry.                       *)
(***************************************************************************)
EXTENDS Score, TLC

CONSTANTS k1, k2, s1, s2

Interchangeable == Permutations(Keys) \cup Permutations(Slots)

\* States in which passes overlap are checked, not what follows from them: hardly
\* anything is claimed of it.
UpToOverlap == ~overlapped
=============================================================================
