---------------------------- MODULE MCAuthCache -----------------------------
(***************************************************************************)
(* AuthCache with interchangeable tokens and requests.                     *)
(***************************************************************************)
EXTENDS AuthCache, TLC

Symmetry == Permutations(Key) \cup Permutations(Request)
=============================================================================
