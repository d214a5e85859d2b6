----------------------------- MODULE MCHaClient -----------------------------
(***************************************************************************)
(* HaClient with a handful of calls: enough for two tasks to overlap, and  *)
(* for a late answer to meet a later call.                                 *)
(***************************************************************************)
EXTENDS HaClient
=============================================================================
