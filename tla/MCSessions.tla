------------------------------ MODULE MCSessions ------------------------------
(***************************************************************************)
(* Sessions on small instances for TLC.  Tokens, users and workers are     *)
(* interchangeable.                                                        *)
(***************************************************************************)
EXTENDS Sessions, TLC

SessionSymmetry ==
  Permutations(Tokens) \cup Permutations(Users) \cup Permutations(Workers)
=============================================================================
