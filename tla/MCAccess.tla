------------------------------- MODULE MCAccess -------------------------------
(***************************************************************************)
(* Four guards on one topic whose counter overflows at 3: three readers    *)
(* are one too many.                                                       *)
(***************************************************************************)
EXTENDS AccessControl, TLC

CONSTANTS g1, g2, g3, g4

MCGuards == {g1, g2, g3, g4}

GuardSymmetry == Permutations(MCGuards)
=============================================================================
