------------------------------ MODULE MCAgent ------------------------------
(***************************************************************************)
(* An agent with two turns, each of which may repeat the one before, one   *)
(* block to an answer and one call to a block, and as many connections as  *)
(* the automation, the conversation and HaHost can hold at a time.         *)
(***************************************************************************)
EXTENDS Agent
=============================================================================
