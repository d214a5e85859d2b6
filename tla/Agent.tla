-------------------------------- MODULE Agent --------------------------------
(***************************************************************************)
(* An embedded agent (crates/signal-ha-agent: session.rs, engine.rs): a    *)
(* background task that sleeps until it is triggered or its interval is    *)
(* over and then holds a session.  A session loads the memory, talks to a  *)
(* language model for a limited number of turns over the connection that   *)
(* HaHost held when it began, and evaluates the Python blocks of every     *)
(* answer.  A snippet is suspended at each call to the outside, a limited  *)
(* number of times.                                                        *)
(*                                                                         *)
(* What is said and computed is left out, and so are the calls that are    *)
(* answered on the spot, except that they count.  Fetching the prompt's    *)
(* entity states and board posts is one step of unlimited duration.  The   *)
(* automation around the agent is external: it triggers and stops the      *)
(* agent, and exits when the connection it was started with is lost.       *)
(***************************************************************************)
EXTENDS Naturals, HaHost, AgentMemory

CONSTANTS
    MaxIterations,  \* config.max_iterations
    MaxRepeats,     \* repetitions of the same blocks that end a session (2)
    MaxBlocks,      \* blocks in an answer (bound)
    MaxHostCalls,   \* MAX_HOST_CALLS_PER_SNIPPET (20)
    Scheduled       \* the interval is one that ends; Duration::MAX is not

ASSUME AgentAssumption ==
    /\ {MaxIterations, MaxRepeats, MaxBlocks, MaxHostCalls} \subseteq Nat \ {0}
    /\ Scheduled \in BOOLEAN

VARIABLES
    at,             \* where the task is
    cancelled,      \* the cancel channel
    permit,         \* the permit of the trigger Notify
    late,           \* history: a session began after stop()
    iteration,      \* turns begun in this session
    repeats,        \* repeat_count
    left,           \* blocks of the answer not yet evaluated
    conv,           \* the connection of the session's conversation
    repl,           \* the engine holds its REPL
    calls           \* call_count

loopVars == <<cancelled, permit, late>>
turnVars == <<iteration, repeats, left, conv>>
sessionVars == <<turnVars, repl, calls>>
vars == <<at, loopVars, sessionVars, hostVars, memoryVars>>

Places == {"top", "asleep", "loading", "prompting", "asking", "blocks", "python",
           "calling", "saving", "stopped"}

TypeOK ==
    /\ at \in Places
    /\ {cancelled, permit, late, repl} \subseteq BOOLEAN
    /\ iteration \in 0..MaxIterations
    /\ repeats \in 0..(MaxRepeats - 1)
    /\ left \in 0..MaxBlocks
    /\ conv \in Conns
    /\ calls \in 0..MaxHostCalls
    /\ client \in Conns
    /\ alive \subseteq Conns
    /\ attempt \in Attempts
    /\ method \in Methods
    /\ awaited \in 0..WsRequests(method)
    /\ answered \in Answers
    /\ disk \in Notes \union {Empty, Torn}
    /\ content \in Notes \union {Empty}
    /\ acked \subseteq Notes \union {Empty}
    /\ at = "calling" <=> attempt # "none"
    /\ left = 0 => at \notin {"python", "calling", "saving"}

Init ==
    /\ at = "top"
    /\ cancelled = FALSE
    /\ permit = FALSE
    /\ late = FALSE
    /\ iteration = 0
    /\ repeats = 0
    /\ left = 0
    /\ conv = First
    /\ repl = FALSE
    /\ calls = 0
    /\ HaHostInit
    /\ MemoryInit

-----------------------------------------------------------------------------
(* agent_loop *)

\* Mutation: the loop relies on select! alone to notice the cancellation.
TopUnchecked ==
    /\ at = "top"
    /\ at' = "asleep"
    /\ UNCHANGED <<loopVars, sessionVars, hostVars, memoryVars>>

Top ==
    /\ at = "top"
    /\ at' = IF cancelled THEN "stopped" ELSE "asleep"
    /\ UNCHANGED <<loopVars, sessionVars, hostVars, memoryVars>>

\* Mutation: a trigger does not end the sleep.
WakeTriggeredNever == FALSE /\ UNCHANGED vars

\* A branch of select!.  When several are ready, any of them may be taken.
WakeTriggered ==
    /\ at = "asleep"
    /\ permit
    /\ permit' = FALSE
    /\ at' = "loading"
    /\ late' = cancelled
    /\ UNCHANGED <<cancelled, sessionVars, hostVars, memoryVars>>

WakeScheduled ==
    /\ at = "asleep"
    /\ Scheduled
    /\ at' = "loading"
    /\ late' = cancelled
    /\ UNCHANGED <<cancelled, permit, sessionVars, hostVars, memoryVars>>

WakeCancelled ==
    /\ at = "asleep"
    /\ cancelled
    /\ at' = "stopped"
    /\ UNCHANGED <<loopVars, sessionVars, hostVars, memoryVars>>

-----------------------------------------------------------------------------
(* run_session *)

\* The state of a session does not outlive it.
DropSession ==
    /\ iteration' = 0
    /\ repeats' = 0
    /\ left' = 0
    /\ conv' = First
    /\ repl' = FALSE
    /\ calls' = 0
    /\ Forget

EndSession ==
    /\ at' = "top"
    /\ DropSession
    /\ UNCHANGED <<loopVars, hostVars>>

LoadMemory ==
    /\ at = "loading"
    /\ Load \/ LoadFails
    /\ at' = "prompting"
    /\ UNCHANGED <<loopVars, sessionVars, hostVars>>

\* The prompt is built, then the conversation takes the connection.
BeginConversation ==
    /\ at = "prompting"
    /\ at' = "asking"
    /\ iteration' = 1
    /\ conv' = client
    /\ repl' = TRUE
    /\ UNCHANGED <<loopVars, repeats, left, calls, hostVars, memoryVars>>

LlmFails ==
    /\ at = "asking"
    /\ EndSession

\* The model answers with `blocks` blocks, `same` if they are those of the turn
\* before.
LlmAnswers(blocks, same) ==
    /\ at = "asking"
    /\ conv \in alive
    /\ LET count == IF same THEN repeats + 1 ELSE 0 IN
       \/ /\ blocks = 0 \/ count = MaxRepeats
          /\ EndSession
       \/ /\ blocks # 0 /\ count < MaxRepeats
          /\ at' = "blocks"
          /\ left' = blocks
          /\ repeats' = count
          /\ UNCHANGED <<loopVars, iteration, conv, repl, calls, hostVars, memoryVars>>

TurnEnds ==
    /\ at = "blocks"
    /\ left = 0
    /\ \/ /\ iteration = MaxIterations
          /\ EndSession
       \/ /\ iteration < MaxIterations
          /\ at' = "asking"
          /\ iteration' = iteration + 1
          /\ UNCHANGED <<loopVars, repeats, left, conv, repl, calls, hostVars, memoryVars>>

-----------------------------------------------------------------------------
(* AgentEngine *)

\* eval_python() returns, with or without the REPL.
EndSnippet(kept) ==
    /\ at' = "blocks"
    /\ left' = left - 1
    /\ repl' = kept
    /\ calls' = 0
    /\ UNCHANGED <<iteration, repeats, conv>>

\* start() takes the REPL, or a new one if it is gone.
StartSnippet ==
    /\ at' = "python"
    /\ repl' = FALSE
    /\ calls' = 0
    /\ UNCHANGED turnVars

\* A snippet that names an external function goes to start() at once.  Any other
\* goes to feed(), which runs to the end or to a genuine error, or reaches a call
\* through a function defined earlier; then it goes to start() from the top.
EvalPython ==
    /\ at = "blocks"
    /\ left > 0
    /\ EndSnippet(TRUE) \/ StartSnippet
    /\ UNCHANGED <<loopVars, hostVars, memoryVars>>

\* The snippet completes or raises an error.
SnippetEnds ==
    /\ at = "python"
    /\ EndSnippet(TRUE)
    /\ UNCHANGED <<loopVars, hostVars, memoryVars>>

\* An unknown or malformed call, an OS call or a future: the REPL is gone.
SnippetAborted ==
    /\ at = "python"
    /\ EndSnippet(FALSE)
    /\ UNCHANGED <<loopVars, hostVars, memoryVars>>

TooManyCalls ==
    /\ at = "python"
    /\ calls = MaxHostCalls
    /\ EndSnippet(FALSE)
    /\ UNCHANGED <<loopVars, hostVars, memoryVars>>

\* Mutation: the calls of a snippet are not counted.
CountUncounted ==
    /\ at = "python"
    /\ UNCHANGED <<calls, loopVars, turnVars, repl>>

Count ==
    /\ at = "python"
    /\ calls < MaxHostCalls
    /\ calls' = calls + 1
    /\ UNCHANGED <<loopVars, turnVars, repl>>

\* show(), ago(), get_agent_memory() and the like, and a blocked service call
CallLocal ==
    /\ Count
    /\ UNCHANGED <<at, hostVars, memoryVars>>

CallHost(m) ==
    /\ Count
    /\ Fulfill(m)
    /\ at' = "calling"
    /\ UNCHANGED memoryVars

\* set_agent_memory()
SetMemory(note) ==
    /\ Count
    /\ \/ BeginSave(note) /\ at' = "saving"
       \/ RefuseSave(note) /\ at' = "python"
    /\ UNCHANGED hostVars

SaveEnds ==
    /\ at = "saving"
    /\ EndSave \/ BreakSave
    /\ at' = "python"
    /\ UNCHANGED <<loopVars, sessionVars, hostVars>>

\* A host call goes on, and resumes the snippet when it returns.
Held == {First, conv}
Timed == WsAnswer \/ TooLarge \/ Unanswered \/ TakenForLost("ws")
Untimed == HttpAnswer \/ TakenForLost("http") \/ Reconnect(Held) \/ ReconnectFails

Calling(step) ==
    /\ at = "calling"
    /\ step
    /\ at' = IF attempt' = "none" THEN "python" ELSE "calling"
    /\ UNCHANGED <<loopVars, sessionVars, memoryVars>>

-----------------------------------------------------------------------------
(* The automation and the connections: external *)

TriggerNow ==
    /\ permit' = TRUE
    /\ UNCHANGED <<at, cancelled, late, sessionVars, hostVars, memoryVars>>

\* stop(), or the handle is dropped
Stop ==
    /\ cancelled' = TRUE
    /\ UNCHANGED <<at, permit, late, sessionVars, hostVars, memoryVars>>

Lose(c) ==
    /\ LoseConnection(c)
    /\ UNCHANGED <<at, loopVars, sessionVars, memoryVars>>

\* The process ends and is started again; only the memory file survives.
Restart ==
    /\ at' = "top"
    /\ cancelled' = FALSE
    /\ permit' = FALSE
    /\ late' = FALSE
    /\ DropSession
    /\ RestartHost

Exit == First \notin alive /\ Restart

-----------------------------------------------------------------------------
Evaluate ==
    \/ EvalPython
    \/ SnippetEnds \/ SnippetAborted \/ TooManyCalls
    \/ CallLocal
    \/ \E m \in Methods : CallHost(m)
    \/ \E n \in Notes : SetMemory(n)

\* Steps that do not take for ever.
Prompt ==
    \/ Top \/ WakeTriggered \/ WakeScheduled \/ WakeCancelled
    \/ LoadMemory
    \/ LlmFails
    \/ \E blocks \in 0..MaxBlocks, same \in BOOLEAN : LlmAnswers(blocks, same)
    \/ TurnEnds
    \/ SaveEnds
    \/ Calling(Timed)

Next ==
    \/ Prompt
    \/ BeginConversation
    \/ Evaluate
    \/ Calling(Untimed)
    \/ TriggerNow
    \/ Stop
    \/ \E c \in Conns : Lose(c)
    \/ Restart

Spec == Init /\ [][Next]_vars

\* Whatever has a timeout or is local comes to an end; the interpreter, calls over
\* HTTP and the WebSocket handshake have none.  A stored permit is there when
\* select! begins to wait, and a new interval is not over.  The automation exits
\* when its own connection is lost.
FairSpec ==
    /\ Spec
    /\ WF_vars(Prompt)
    /\ SF_vars(WakeTriggered)
    /\ WF_vars(Exit)

-----------------------------------------------------------------------------
(* Properties *)

\* One step of the session takes for ever: Python that does not return, or a
\* call without a timeout.
Stuck ==
    \E p \in {"prompting", "blocks", "python", "calling"} : <>[](at = p)

\* A stopped agent ends, after the session it is in: turns, blocks, calls and
\* their retries are all limited (agent_loop, run_session, handle_eval_result,
\* fulfill).
StopEnds == Stuck \/ (cancelled ~> (at = "stopped" \/ ~cancelled))

\* A trigger is never lost: a session begins after it, even if it comes while
\* one is running (trigger_now).
TriggerIsServed == Stuck \/ (permit ~> (~permit \/ at = "stopped"))

\* At most one session begins after stop(): one whose wake-up came first in
\* select!.
OneSessionAfterStop == [][at = "asleep" /\ at' = "loading" => ~late]_vars

\* A host call that was answered, with a result, with an error or with so much that
\* the connection ends, is not made again, whatever happens to the connections.  An
\* error whose text speaks of a closed connection does not count as an answer: the call
\* is made again (fulfill, ha_host.rs:177-190).
AnsweredIsFinal == attempt \in {"connecting", "second"} => answered # "final"

\* What a session remembers is what was saved last, in this process or an
\* earlier one, unless a later save failed or was cut short, or the file cannot
\* be read.
RemembersWhatWasSaved ==
    [][Load /\ at = "loading" => \A note \in acked : content' = note]_vars

\* If sessions go on and no connection is lost any more, they come to have a
\* connection that works.  They do not: only a host call makes HaHost
\* reconnect, and it takes an answer from the model to make one.
SessionsComeBack ==
    \/ ~[]<>(at = "asking")
    \/ ~<>[][(client \in alive) => (client' \in alive')]_vars
    \/ []<>(at = "asking" /\ conv \in alive)
=============================================================================
