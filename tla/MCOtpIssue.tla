------------------------------ MODULE MCOtpIssue ------------------------------
(***************************************************************************)
(* OtpIssue for TLC: one phone that has an account and one that has none,  *)
(* one address.  Phones and requests are alike, so TLC may permute requests.*)
(***************************************************************************)
EXTENDS OtpIssue, TLC

RequestSymmetry == Permutations(Requests)
=============================================================================
