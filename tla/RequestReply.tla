---------------------------- MODULE RequestReply ----------------------------
(***************************************************************************)
(* What a task that calls Home Assistant through the shared client may     *)
(* rely on, whatever happens to the connection.  A call returns once.  Its *)
(* command is carried out by Home Assistant at most once.  Success is      *)
(* reported only for a command Home Assistant carried out and accepted; a  *)
(* failure says nothing about the command, which may have been carried out *)
(* or may still be carried out after the call has returned.                *)
(***************************************************************************)
EXTENDS Naturals

CONSTANT Calls          \* identities of the calls that may be made

VARIABLES
    status,             \* what the calling task knows of each call
    executions,         \* how often Home Assistant carried a command out
    accepted            \* commands Home Assistant carried out and accepted

vars == <<status, executions, accepted>>

Init ==
    /\ status = [i \in Calls |-> "unused"]
    /\ executions = [i \in Calls |-> 0]
    /\ accepted = {}

Begin(i) ==
    /\ status[i] = "unused"
    /\ status' = [status EXCEPT ![i] = "open"]
    /\ UNCHANGED <<executions, accepted>>

Execute(i) ==
    /\ status[i] # "unused"
    /\ executions[i] = 0
    /\ executions' = [executions EXCEPT ![i] = 1]
    /\ accepted' \in {accepted, accepted \union {i}}
    /\ UNCHANGED status

Succeed(i) ==
    /\ status[i] = "open"
    /\ i \in accepted
    /\ status' = [status EXCEPT ![i] = "succeeded"]
    /\ UNCHANGED <<executions, accepted>>

Fail(i) ==
    /\ status[i] = "open"
    /\ status' = [status EXCEPT ![i] = "failed"]
    /\ UNCHANGED <<executions, accepted>>

Next == \E i \in Calls : Begin(i) \/ Execute(i) \/ Succeed(i) \/ Fail(i)

Spec == Init /\ [][Next]_vars
=============================================================================
