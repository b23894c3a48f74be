--------------------------- MODULE MCJwksRotation ---------------------------
(***************************************************************************)
(* JwksRotation for TLC: processes are alike and verifications are alike,  *)
(* so TLC may permute each.                                                *)
(***************************************************************************)
EXTENDS JwksRotation, TLC

CONSTANTS p1, p2, t1, t2

MCProc == {p1, p2}
MCTask == {t1, t2}
Alike == Permutations(MCProc) \union Permutations(MCTask)
=============================================================================
