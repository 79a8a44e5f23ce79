------------------------------- MODULE MCDesk -------------------------------
(***************************************************************************)
(* Small instances of Desk.                                                *)
(***************************************************************************)
EXTENDS Desk, TLC

CONSTANTS j1, j2, a1, a2

Symmetry == Permutations(Jobs) \cup Permutations(Admins)

=============================================================================
