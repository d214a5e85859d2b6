----------------------------- MODULE MCFindings -----------------------------
(***************************************************************************)
(* The house agent, which makes two posts, and a person who changes them,  *)
(* and replies once if the agent does not.                                 *)
(***************************************************************************)
EXTENDS Findings

BodiesAreAlike == Permutations(Bodies)
=============================================================================
