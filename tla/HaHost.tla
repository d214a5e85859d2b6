------------------------------- MODULE HaHost -------------------------------
(***************************************************************************)
(* The agent's access to Home Assistant                                    *)
(* (crates/signal-ha-agent/src/ha_host.rs): a shared WebSocket client that *)
(* is replaced when a call over it fails for want of a connection, and one *)
(* retry of that call.  Calls over HTTP do not use the client.  Most       *)
(* calls are one request over one of the two; get_area_entities asks for   *)
(* two registries over the WebSocket first, then for states over HTTP.     *)
(*                                                                         *)
(* A connection is a model value; one that nobody holds stands for a new   *)
(* one.  A lost connection closes its client for good, as HaClient shows,  *)
(* and a call on it may also time out.                                     *)
(***************************************************************************)
EXTENDS Naturals

CONSTANTS
    Conns,          \* WebSocket connections
    First           \* the one the process was started with

ASSUME HaHostAssumption == First \in Conns

VARIABLES
    client,         \* the connection of HaHost.client
    alive,          \* connections that are not lost
    attempt,        \* progress of the host call being fulfilled
    method,         \* what it is
    awaited,        \* requests over the WebSocket that it still has to make
    answered        \* history: how the call being fulfilled was answered last

hostVars == <<client, alive, attempt, method, awaited, answered>>

Methods == {"ws", "http", "area"}
WsRequests(m) == IF m = "area" THEN 2 ELSE IF m = "ws" THEN 1 ELSE 0
Attempts == {"none", "first", "connecting", "second"}
Answers == {"none", "final", "closed"}

HaHostInit ==
    /\ client = First
    /\ alive = {First}
    /\ attempt = "none"
    /\ method = "http"
    /\ awaited = 0
    /\ answered = "none"

\* External: the process starts again, with a new connection.
RestartHost ==
    /\ client' = First
    /\ alive' = {First}
    /\ attempt' = "none"
    /\ method' = "http"
    /\ awaited' = 0
    /\ answered' = "none"

\* fulfill() is called.
Fulfill(m) ==
    /\ attempt = "none"
    /\ attempt' = "first"
    /\ method' = m
    /\ awaited' = WsRequests(m)
    /\ answered' = "none"
    /\ UNCHANGED <<client, alive>>

\* fulfill() returns.
Return ==
    /\ attempt' = "none"
    /\ method' = "http"
    /\ awaited' = 0

\* The requests over HTTP are answered: no timeout, no retry.  Those for states of
\* an area may fail; what they were for is left out of the answer.
HttpAnswer ==
    /\ attempt \in {"first", "second"}
    /\ awaited = 0
    /\ answered' = "final"
    /\ Return
    /\ UNCHANGED <<client, alive>>

Requesting == attempt \in {"first", "second"} /\ awaited > 0
RetryOrReturn ==
    IF attempt = "first" THEN attempt' = "connecting" /\ UNCHANGED <<method, awaited>>
    ELSE Return

\* Mutation: the call is repeated when its answer was too large, too.
TooLargeRetried ==
    /\ Requesting
    /\ client \in alive
    /\ alive' = alive \ {client}
    /\ answered' = "final"
    /\ RetryOrReturn
    /\ UNCHANGED client

\* Home Assistant answers, with a result or an error; both will do for a registry.
\* TakenForLost is about errors of a certain text.
WsAnswer ==
    /\ Requesting
    /\ client \in alive
    /\ \/ /\ method = "ws"
          /\ answered' = "final"
          /\ Return
       \/ /\ method = "area"
          /\ awaited' = awaited - 1
          /\ UNCHANGED <<attempt, method, answered>>
    /\ UNCHANGED <<client, alive>>

\* The answer exceeds the frame limit, which ends the connection.
TooLarge ==
    /\ Requesting
    /\ client \in alive
    /\ alive' = alive \ {client}
    /\ answered' = "final"
    /\ Return
    /\ UNCHANGED client

\* The fallback of fulfill(): an answer that is an error and whose text contains
\* "Connection closed", "channel closed" or "WebSocket error" is taken for a lost
\* connection.  For an area no answer is an error.
TakenForLost(m) ==
    /\ method = m
    /\ attempt \in {"first", "second"}
    /\ m = "ws" => client \in alive
    /\ answered' = "closed"
    /\ RetryOrReturn
    /\ UNCHANGED <<client, alive>>

\* ConnectionClosed or Timeout: reconnect the first time, give up the second.
Unanswered ==
    /\ Requesting
    /\ RetryOrReturn
    /\ UNCHANGED <<client, alive, answered>>

\* reconnect(); connections outside `held` are new ones, for the old client goes
Reconnect(held) ==
    /\ attempt = "connecting"
    /\ \E c \in Conns \ held :
          /\ client' = c
          /\ alive' = (alive \intersect held) \union {c}
    /\ attempt' = "second"
    /\ awaited' = WsRequests(method)
    /\ UNCHANGED <<method, answered>>

ReconnectFails ==
    /\ attempt = "connecting"
    /\ Return
    /\ UNCHANGED <<client, alive, answered>>

\* External: a connection is lost.
LoseConnection(c) ==
    /\ c \in alive
    /\ alive' = alive \ {c}
    /\ UNCHANGED <<client, attempt, method, awaited, answered>>
=============================================================================
