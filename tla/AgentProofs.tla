----------------------------- MODULE AgentProofs -----------------------------
(***************************************************************************)
(* What holds of an agent for any number of turns, blocks, calls,          *)
(* connections and notes.                                                  *)
(*                                                                         *)
(* The invariant is made of parts that concern different variables: the    *)
(* types; what a host call knows of itself; when a session may begin       *)
(* after stop(); what a reported save left on disk.                        *)
(*                                                                         *)
(* A session has an end: what it may still do is seven numbers, and its    *)
(* steps lower them.                                                       *)
(***************************************************************************)
EXTENDS Agent, NaturalsInduction, WellFoundedInduction, TLAPS

\* A call in progress has no answer that is final.
InProgressUnanswered == attempt # "none" => answered # "final"

\* A session that began after stop() is the last thing the task does.
LateIsLast == late => cancelled /\ at # "asleep"

\* A save that was reported done is what the file holds.
AckedIsOnDisk == \A note \in acked : disk = note

IInv == TypeOK /\ InProgressUnanswered /\ LateIsLast /\ AckedIsOnDisk

\* What is a flag, in the form that a step's flags are proved in.
Flags == {cancelled, permit, late, repl} \subseteq BOOLEAN

LEMMA InitIInv == Init => IInv
<1> SUFFICES ASSUME Init PROVE IInv
  OBVIOUS
<1> USE DEF Init, HaHostInit, MemoryInit
<1>1. Flags
  BY DEF Flags
<1>2. TypeOK
  BY <1>1, HaHostAssumption, MemoryAssumption, AgentAssumption
  DEF Flags, TypeOK, Places, Attempts, Answers, Methods, WsRequests
<1>3. InProgressUnanswered  /\ LateIsLast /\ AckedIsOnDisk
  BY DEF InProgressUnanswered, LateIsLast, AckedIsOnDisk
<1> QED
  BY <1>2, <1>3 DEF IInv

\* The loop: it wakes up, or ends.
LEMMA LoopKeeps ==
    ASSUME IInv, Top \/ WakeTriggered \/ WakeScheduled \/ WakeCancelled
    PROVE  IInv'
<1> USE DEF Top, WakeTriggered, WakeScheduled, WakeCancelled, loopVars, sessionVars,
            turnVars, hostVars, memoryVars
<1>1. Flags'
  BY DEF Flags, IInv, TypeOK
<1>2. TypeOK'
  BY <1>1 DEF Flags, IInv, TypeOK, Places
<1>3. InProgressUnanswered' /\ AckedIsOnDisk'
  BY DEF IInv, InProgressUnanswered, AckedIsOnDisk
<1>4. LateIsLast'
  BY DEF IInv, LateIsLast
<1> QED
  BY <1>2, <1>3, <1>4 DEF IInv

\* The end of a session.
LEMMA EndSessionKeeps ==
    ASSUME IInv, at \notin {"asleep", "calling"}, EndSession
    PROVE  IInv'
<1> USE DEF EndSession, DropSession, Forget, loopVars, hostVars
<1>1. Flags'
  BY DEF Flags, IInv, TypeOK
<1>2. TypeOK'
  BY <1>1, HaHostAssumption, AgentAssumption DEF Flags, IInv, TypeOK, Places
<1>3. InProgressUnanswered' /\ LateIsLast' /\ AckedIsOnDisk'
  BY DEF IInv, InProgressUnanswered, LateIsLast, AckedIsOnDisk
<1> QED
  BY <1>2, <1>3 DEF IInv

\* The beginning of a session.
LEMMA BeginKeeps ==
    ASSUME IInv, LoadMemory \/ BeginConversation
    PROVE  IInv'
<1> USE DEF IInv, TypeOK, InProgressUnanswered, LateIsLast, AckedIsOnDisk,
            Places, loopVars, sessionVars, turnVars, hostVars, memoryVars
<1>1. CASE LoadMemory
  BY <1>1 DEF LoadMemory, Load, LoadFails
<1>2. CASE BeginConversation
  BY <1>2, AgentAssumption DEF BeginConversation
<1> QED
  BY <1>1, <1>2

\* A turn.
LEMMA TurnKeeps ==
    ASSUME IInv,
           \/ LlmFails \/ TurnEnds
           \/ \E blocks \in 0..MaxBlocks, same \in BOOLEAN : LlmAnswers(blocks, same)
    PROVE  IInv'
<1>1. CASE LlmFails
  <2>1. EndSession
    BY <1>1 DEF LlmFails
  <2>2. at = "asking"
    BY <1>1 DEF LlmFails
  <2> QED
    BY <2>1, <2>2, EndSessionKeeps
<1>2. CASE TurnEnds
  <2>1. CASE EndSession
    BY <1>2, <2>1, EndSessionKeeps DEF TurnEnds
  <2>2. CASE ~EndSession
    <3>1. /\ at = "blocks" /\ at' = "asking"
          /\ iteration < MaxIterations /\ iteration' = iteration + 1
          /\ UNCHANGED <<loopVars, repeats, left, conv, repl, calls, hostVars,
                         memoryVars>>
      BY <1>2, <2>2 DEF TurnEnds
    <3>2. iteration' \in 0..MaxIterations
      BY <3>1, AgentAssumption DEF IInv, TypeOK
    <3>3. TypeOK'
      BY <3>1, <3>2
      DEF IInv, TypeOK, Places, loopVars, hostVars, memoryVars
    <3> QED
      BY <3>1, <3>3
      DEF IInv, InProgressUnanswered, LateIsLast, AckedIsOnDisk,
          loopVars, hostVars, memoryVars
  <2> QED
    BY <2>1, <2>2
<1>3. ASSUME NEW blocks \in 0..MaxBlocks, NEW same \in BOOLEAN, LlmAnswers(blocks, same)
      PROVE  IInv'
  <2>1. CASE EndSession
    BY <1>3, <2>1, EndSessionKeeps DEF LlmAnswers
  <2>2. CASE ~EndSession
    <3> DEFINE count == IF same THEN repeats + 1 ELSE 0
    <3>1. count \in 0..MaxRepeats - 1
      BY <1>3, <2>2, AgentAssumption DEF LlmAnswers, IInv, TypeOK
    <3> QED
      BY <1>3, <2>2, <3>1
      DEF LlmAnswers, IInv, TypeOK, InProgressUnanswered, LateIsLast,
          AckedIsOnDisk, Places, loopVars, hostVars, memoryVars
  <2> QED
    BY <2>1, <2>2
<1> QED
  BY <1>1, <1>2, <1>3

\* A snippet begins, ends or makes a call that is answered on the spot.
LEMMA SnippetKeeps ==
    ASSUME IInv,
           \/ EvalPython
           \/ SnippetEnds \/ SnippetAborted \/ TooManyCalls \/ CallLocal
    PROVE  IInv'
<1> USE DEF EvalPython, SnippetEnds, SnippetAborted, TooManyCalls, CallLocal,
            StartSnippet, EndSnippet, Count, loopVars, turnVars, hostVars, memoryVars
<1>1. Flags'
  BY DEF Flags, IInv, TypeOK
<1>2. TypeOK'
  BY <1>1, AgentAssumption DEF Flags, IInv, TypeOK, Places
<1>3. InProgressUnanswered' /\ LateIsLast' /\ AckedIsOnDisk'
  BY DEF IInv, InProgressUnanswered, LateIsLast, AckedIsOnDisk
<1> QED
  BY <1>2, <1>3 DEF IInv

\* A save begins, is refused or ends.
LEMMA SaveKeeps ==
    ASSUME IInv, SaveEnds \/ \E n \in Notes : SetMemory(n)
    PROVE  IInv'
<1> USE DEF SaveEnds, SetMemory, BeginSave, RefuseSave, EndSave, BreakSave, Count,
            loopVars, sessionVars, turnVars, hostVars, memoryVars
<1>1. Flags'
  BY DEF Flags, IInv, TypeOK
<1>2. TypeOK'
  <2>1. at' \in Places /\ at \in {"python", "saving"} /\ at' \in {"python", "saving"}
    BY DEF Places
  <2>2. calls' \in 0..MaxHostCalls
    BY AgentAssumption DEF IInv, TypeOK
  <2>3. /\ disk' \in Notes \union {Empty, Torn}
        /\ content' \in Notes \union {Empty}
        /\ acked' \subseteq Notes \union {Empty}
    BY MemoryAssumption DEF IInv, TypeOK
  <2>4. UNCHANGED <<iteration, repeats, left, conv, hostVars>>
    OBVIOUS
  <2> QED
    BY <1>1, <2>1, <2>2, <2>3, <2>4 DEF Flags, IInv, TypeOK
<1>3. InProgressUnanswered' /\ LateIsLast'
  BY DEF IInv, InProgressUnanswered, LateIsLast
<1>4. AckedIsOnDisk'
  BY DEF IInv, AckedIsOnDisk
<1> QED
  BY <1>2, <1>3, <1>4 DEF IInv

\* A host call is made.
LEMMA CallHostKeeps ==
    ASSUME IInv, NEW m \in Methods, CallHost(m)
    PROVE  IInv'
<1> USE DEF CallHost, Fulfill, Count, loopVars, turnVars, memoryVars
<1>1. Flags'
  BY DEF Flags, IInv, TypeOK
<1>2. TypeOK'
  <2>1. /\ calls' \in 0..MaxHostCalls
        /\ awaited' \in 0..WsRequests(method')
        /\ attempt' \in Attempts /\ method' \in Methods /\ answered' \in Answers
    BY AgentAssumption DEF IInv, TypeOK, Attempts, Answers, Methods, WsRequests
  <2>2. at = "python" /\ at' = "calling" /\ attempt' # "none"
    OBVIOUS
  <2>3. UNCHANGED <<turnVars, repl, cancelled, permit, late, client, alive,
                    disk, content, acked>>
    OBVIOUS
  <2> QED
    BY <1>1, <2>1, <2>2, <2>3 DEF Flags, IInv, TypeOK, Places, turnVars
<1>3. LateIsLast' /\ AckedIsOnDisk'
  BY DEF IInv, LateIsLast, AckedIsOnDisk
<1>4. InProgressUnanswered'
  BY DEF InProgressUnanswered
<1> QED
  BY <1>2, <1>3, <1>4 DEF IInv

\* A step of fulfill() keeps the variables of HaHost well typed, and an answer ends
\* the call.
LEMMA FulfillKeeps ==
    ASSUME IInv, attempt # "none",
           \/ WsAnswer \/ TooLarge \/ Unanswered \/ \E m \in Methods : TakenForLost(m)
           \/ HttpAnswer \/ Reconnect(Held) \/ ReconnectFails
    PROVE  /\ client' \in Conns /\ alive' \subseteq Conns
           /\ attempt' \in Attempts /\ method' \in Methods
           /\ awaited' \in 0..WsRequests(method')
           /\ answered' \in Answers
           /\ InProgressUnanswered'
<1> USE DEF IInv, TypeOK, InProgressUnanswered, Requesting, RetryOrReturn, Return
<1>1. CASE WsAnswer
  <2>1. CASE method = "ws"
    BY <1>1, <2>1 DEF WsAnswer, Attempts, Answers, Methods, WsRequests
  <2>2. CASE method # "ws"
    <3>1. /\ method = "area" /\ awaited > 0 /\ awaited' = awaited - 1
          /\ UNCHANGED <<attempt, method, answered, client, alive>>
      BY <1>1, <2>2 DEF WsAnswer
    <3>2. awaited' \in 0..WsRequests(method')
      BY <3>1 DEF Methods, WsRequests
    <3> QED
      BY <3>1, <3>2
  <2> QED
    BY <2>1, <2>2
<1>2. CASE TooLarge
  BY <1>2 DEF TooLarge, Attempts, Answers, Methods, WsRequests
<1>3. CASE Unanswered
  BY <1>3 DEF Unanswered, Attempts, Methods, WsRequests
<1>7. ASSUME NEW m \in Methods, TakenForLost(m)
      PROVE  /\ client' \in Conns /\ alive' \subseteq Conns
             /\ attempt' \in Attempts /\ method' \in Methods
             /\ awaited' \in 0..WsRequests(method')
             /\ answered' \in Answers
             /\ InProgressUnanswered'
  BY <1>7 DEF TakenForLost, Attempts, Methods, WsRequests, Answers
<1>4. CASE HttpAnswer
  BY <1>4 DEF HttpAnswer, Attempts, Answers, Methods, WsRequests
<1>5. CASE Reconnect(Held)
  <2>1. PICK c \in Conns : client' = c /\ alive' = (alive \intersect Held) \union {c}
    BY <1>5 DEF Reconnect
  <2>2. /\ attempt = "connecting" /\ attempt' = "second"
        /\ awaited' = WsRequests(method) /\ UNCHANGED <<method, answered>>
    BY <1>5 DEF Reconnect
  <2>3. client' \in Conns /\ alive' \subseteq Conns
    BY <2>1
  <2>4. awaited' \in 0..WsRequests(method') /\ attempt' \in Attempts
    BY <2>2 DEF Attempts, Methods, WsRequests
  <2>5. answered' \in Answers /\ InProgressUnanswered' /\ method' \in Methods
    BY <2>2
  <2> QED
    BY <2>3, <2>4, <2>5
<1>6. CASE ReconnectFails
  BY <1>6 DEF ReconnectFails, Attempts, Methods, WsRequests
<1> QED
  BY <1>1, <1>2, <1>3, <1>4, <1>5, <1>6, <1>7

\* A host call goes on.
LEMMA CallingKeeps ==
    ASSUME IInv, Calling(Timed) \/ Calling(Untimed)
    PROVE  IInv'
<1>1. at = "calling" /\ attempt # "none"
  BY DEF Calling, IInv, TypeOK
<1>2. \/ WsAnswer \/ TooLarge \/ Unanswered \/ \E m \in Methods : TakenForLost(m)
      \/ HttpAnswer \/ Reconnect(Held) \/ ReconnectFails
  BY DEF Calling, Timed, Untimed, Methods
<1>3. /\ client' \in Conns /\ alive' \subseteq Conns
      /\ attempt' \in Attempts /\ method' \in Methods
      /\ awaited' \in 0..WsRequests(method')
      /\ answered' \in Answers
      /\ InProgressUnanswered'
  BY <1>1, <1>2, FulfillKeeps
<1>4. /\ at' = IF attempt' = "none" THEN "python" ELSE "calling"
      /\ UNCHANGED <<loopVars, sessionVars, memoryVars>>
  BY DEF Calling
<1> USE <1>1, <1>3, <1>4 DEF loopVars, sessionVars, turnVars, memoryVars
<1>5. Flags'
  BY DEF Flags, IInv, TypeOK
<1>6. TypeOK'
  BY <1>5 DEF Flags, IInv, TypeOK, Places
<1>7. LateIsLast' /\ AckedIsOnDisk'
  BY DEF IInv, LateIsLast, AckedIsOnDisk
<1> QED
  BY <1>3, <1>6, <1>7 DEF IInv

\* The automation, the connections and the process.
LEMMA ExternalKeeps ==
    ASSUME IInv, TriggerNow \/ Stop \/ Restart \/ \E c \in Conns : Lose(c)
    PROVE  IInv'
<1> USE DEF TriggerNow, Stop, Restart, Lose, LoseConnection, RestartHost, DropSession, Forget,
            loopVars, sessionVars, turnVars, hostVars, memoryVars
<1>1. Flags'
  BY DEF Flags, IInv, TypeOK
<1>2. TypeOK'
  BY <1>1, HaHostAssumption, AgentAssumption
  DEF Flags, IInv, TypeOK, Places, Attempts, Answers, Methods, WsRequests
<1>3. InProgressUnanswered' /\ AckedIsOnDisk'
  BY DEF IInv, InProgressUnanswered, AckedIsOnDisk
<1>4. LateIsLast'
  BY DEF IInv, LateIsLast
<1> QED
  BY <1>2, <1>3, <1>4 DEF IInv

LEMMA StutterKeeps == IInv /\ UNCHANGED vars => IInv'
<1> SUFFICES ASSUME IInv, UNCHANGED vars PROVE IInv'
  OBVIOUS
<1> USE DEF vars, loopVars, sessionVars, turnVars, hostVars, memoryVars
<1>1. Flags'
  BY DEF Flags, IInv, TypeOK
<1>2. TypeOK'
  BY <1>1 DEF Flags, IInv, TypeOK
<1>3. (InProgressUnanswered  /\ LateIsLast /\ AckedIsOnDisk)'
  BY DEF IInv, InProgressUnanswered, LateIsLast, AckedIsOnDisk
<1> QED
  BY <1>2, <1>3 DEF IInv

LEMMA StepIInv == IInv /\ [Next]_vars => IInv'
<1> SUFFICES ASSUME IInv, Next PROVE IInv'
  BY StutterKeeps
<1>1. CASE Prompt
  <2>1. \/ Top \/ WakeTriggered \/ WakeScheduled \/ WakeCancelled
        \/ LoadMemory
        \/ LlmFails \/ TurnEnds
        \/ \E blocks \in 0..MaxBlocks, same \in BOOLEAN : LlmAnswers(blocks, same)
        \/ SaveEnds
        \/ Calling(Timed)
    BY <1>1 DEF Prompt
  <2> QED
    BY <2>1, LoopKeeps, BeginKeeps, TurnKeeps, SaveKeeps, CallingKeeps
<1>2. CASE Evaluate
  BY <1>2, SnippetKeeps, SaveKeeps, CallHostKeeps DEF Evaluate
<1>3. CASE BeginConversation
  BY <1>3, BeginKeeps
<1>4. CASE Calling(Untimed)
  BY <1>4, CallingKeeps
<1>5. CASE TriggerNow \/ Stop \/ Restart \/ \E c \in Conns : Lose(c)
  BY <1>5, ExternalKeeps
<1> QED
  BY <1>1, <1>2, <1>3, <1>4, <1>5 DEF Next

LEMMA Invariant == Spec => []IInv
BY InitIInv, StepIInv, PTL DEF Spec

-----------------------------------------------------------------------------
(* The theorems *)

\* Every reachable state of the agent is well typed.
THEOREM TypeCorrect == Spec => []TypeOK
<1>1. IInv => TypeOK
  BY DEF IInv
<1> QED
  BY <1>1, Invariant, PTL

\* A call that was answered is not made again, unless the answer is an error whose text
\* speaks of a closed connection (fulfill).
THEOREM AnswersAreFinal == Spec => []AnsweredIsFinal
<1>1. IInv => AnsweredIsFinal
  BY DEF IInv, InProgressUnanswered, AnsweredIsFinal
<1> QED
  BY <1>1, Invariant, PTL

\* At most one session begins after stop() (agent_loop).
THEOREM StopLeavesOneSession == Spec => OneSessionAfterStop
<1>1. IInv => (at = "asleep" => ~late)
  BY DEF IInv, LateIsLast
<1>2. IInv /\ [Next]_vars => [at = "asleep" /\ at' = "loading" => ~late]_vars
  BY <1>1
<1> QED
  BY <1>2, Invariant, PTL DEF Spec, OneSessionAfterStop

\* A session loads what the last save that was reported done had put on disk
\* (Memory::load, Memory::save).
THEOREM SavedIsRemembered == Spec => RemembersWhatWasSaved
<1>1. ASSUME IInv, [Next]_vars
      PROVE  [Load /\ at = "loading" => \A note \in acked : content' = note]_vars
  <2> SUFFICES ASSUME Load, NEW note \in acked PROVE content' = note
    BY <1>1
  <2> QED
    BY <1>1, MemoryAssumption DEF Load, IInv, TypeOK, AckedIsOnDisk
<1> QED
  BY <1>1, Invariant, PTL DEF Spec, RemembersWhatWasSaved

-----------------------------------------------------------------------------
(* Sessions *)

InSession == Places \ {"top", "asleep", "stopped"}

\* What a session may still do, the weightiest first: turns, the way to the answer of
\* this turn, blocks of it, the beginning of the next block, calls of the snippet, the
\* attempts at a call or the end of a save, and requests of the attempt.
Work ==
    << MaxIterations - iteration,
       IF at = "loading" THEN 2 ELSE IF at \in {"prompting", "asking"} THEN 1 ELSE 0,
       left,
       IF at = "blocks" THEN 1 ELSE 0,
       MaxHostCalls - calls,
       IF attempt = "first" THEN 3 ELSE IF attempt = "connecting" THEN 2
       ELSE IF attempt = "second" \/ at = "saving" THEN 1 ELSE 0,
       awaited >>

\* Fewer in the order of a lexicon.
Less(a, b) == \E k \in 1..7 : a[k] < b[k] /\ \A j \in 1..k - 1 : a[j] = b[j]

\* What concerns only the automation and the connections.
Aside == UNCHANGED <<at, sessionVars, attempt, method, awaited>>

\* Every step of a session ends it or leaves it less to do.
Advances == at' = "top" \/ (at' \in InSession /\ Less(Work', Work))
SessionsWearOut == [][(at \in InSession) => Advances \/ Aside]_vars

\* The turns are counted from the beginning of the conversation.
NoTurnYet == at \in {"top", "asleep", "loading", "prompting", "stopped"} => iteration = 0

\* There is always a number of each.
LEMMA WorkIsNumbers == IInv => \A k \in 1..7 : Work[k] \in Nat
<1> SUFFICES ASSUME IInv PROVE \A k \in 1..7 : Work[k] \in Nat
  OBVIOUS
<1>1. MaxIterations - iteration \in Nat /\ MaxHostCalls - calls \in Nat
  BY AgentAssumption DEF IInv, TypeOK
<1>2. left \in Nat /\ awaited \in Nat
  BY DEF IInv, TypeOK, WsRequests
<1> QED
  BY <1>1, <1>2 DEF Work

LEMMA NextNoTurnYet == IInv /\ NoTurnYet /\ [Next]_vars => NoTurnYet'
<1> SUFFICES ASSUME IInv, NoTurnYet, [Next]_vars PROVE NoTurnYet'
  OBVIOUS
<1>1. ASSUME at \in InSession \/ Restart, at' = "top", iteration' = 0 PROVE NoTurnYet'
  BY <1>1 DEF NoTurnYet
<1>2. ASSUME UNCHANGED iteration, at' = at \/ at \in {"top", "asleep", "loading"}
      PROVE  NoTurnYet'
  BY <1>2 DEF NoTurnYet, IInv, TypeOK, Places
<1>3. ASSUME at' \in {"asking", "blocks", "python", "calling", "saving"} PROVE NoTurnYet'
  BY <1>3 DEF NoTurnYet
<1>4. CASE Prompt
  BY <1>3, <1>4
  DEF Prompt, Top, WakeTriggered, WakeScheduled, WakeCancelled, LoadMemory, LlmFails,
      LlmAnswers, TurnEnds, SaveEnds, Calling, EndSession, DropSession, NoTurnYet,
      sessionVars, turnVars
<1>5. CASE BeginConversation
  BY <1>3, <1>5 DEF BeginConversation
<1>6. CASE Evaluate
  BY <1>3, <1>6
  DEF Evaluate, EvalPython, SnippetEnds, SnippetAborted, TooManyCalls,
      CallLocal, CallHost, SetMemory, Count, EndSnippet, StartSnippet
<1>7. CASE Calling(Untimed)
  BY <1>3, <1>7 DEF Calling
<1>8. CASE TriggerNow \/ Stop \/ \E c \in Conns : Lose(c)
  BY <1>2, <1>8 DEF TriggerNow, Stop, Lose, sessionVars, turnVars
<1>9. CASE Restart
  BY <1>9 DEF Restart, DropSession, NoTurnYet
<1>10. CASE UNCHANGED vars
  BY <1>2, <1>10 DEF vars, sessionVars, turnVars
<1> QED
  BY <1>4, <1>5, <1>6, <1>7, <1>8, <1>9, <1>10 DEF Next

\* The numbers are fewer at a place, and the same before it.
LEMMA LessAt ==
    ASSUME NEW a, NEW b, NEW k \in 1..7, a[k] < b[k], \A j \in 1..k - 1 : a[j] = b[j]
    PROVE  Less(a, b)
BY DEF Less

\* A set of numbers has a least one.
LEMMA LeastNumber ==
    ASSUME NEW bad \in SUBSET Nat, bad # {}
    PROVE  \E k \in bad : \A m \in bad : k <= m
<1>1. PICK k \in bad : \A m \in bad : <<m, k>> \notin OpToRel(<, Nat)
  BY NatLessThanWellFounded, WFMin
<1>2. \A m \in bad : ~(m < k)
  BY <1>1 DEF OpToRel
<1> QED
  BY <1>2

\* The same up to a place.
LessUpTo(n, a, b) == \E k \in 1..n : a[k] < b[k] /\ \A j \in 1..k - 1 : a[j] = b[j]

\* One that is least up to a place can be found that is least up to the next.
LEMMA LeastUpTo ==
    ASSUME NEW S, NEW n \in Nat, \A a \in S : a[n + 1] \in Nat,
           \E a \in S : \A b \in S : ~LessUpTo(n, b, a)
    PROVE  \E a \in S : \A b \in S : ~LessUpTo(n + 1, b, a)
<1>1. PICK a \in S : \A b \in S : ~LessUpTo(n, b, a)
  OBVIOUS
<1> DEFINE T == {b \in S : \A j \in 1..n : b[j] = a[j]}
           last == {b[n + 1] : b \in T}
<1>2. last \in SUBSET Nat /\ last # {}
  BY DEF T
<1>3. PICK c \in T : \A m \in last : c[n + 1] <= m
  <2>1. PICK k \in last : \A m \in last : k <= m
    <3> HIDE DEF last
    <3> QED
      BY <1>2, LeastNumber
  <2> QED
    BY <2>1
<1>4. ASSUME NEW b \in S, LessUpTo(n + 1, b, c) PROVE FALSE
  <2>1. PICK k \in 1..n + 1 : b[k] < c[k] /\ \A j \in 1..k - 1 : b[j] = c[j]
    BY <1>4 DEF LessUpTo
  <2>2. CASE k \in 1..n
    <3>1. b[k] < a[k] /\ \A j \in 1..k - 1 : b[j] = a[j]
      <4>1. \A j \in 1..k - 1 : j \in 1..n
        BY <2>2
      <4> QED
        BY <1>3, <2>1, <2>2, <4>1
    <3> QED
      BY <1>1, <2>2, <3>1 DEF LessUpTo
  <2>3. CASE k = n + 1
    <3>1. \A j \in 1..n : b[j] = a[j]
      <4>1. k - 1 = n
        BY <2>3
      <4> QED
        BY <1>3, <2>1, <4>1
    <3>2. c[n + 1] <= b[n + 1]
      BY <1>3, <3>1
    <3>3. b[n + 1] \in Nat /\ c[n + 1] \in Nat
      BY <1>3
    <3> QED
      BY <2>1, <2>3, <3>2, <3>3
  <2> QED
    BY <2>2, <2>3
<1> QED
  BY <1>3, <1>4

\* Among any that there are one has none below it: they cannot be lowered for ever.
LEMMA LessHasAnEnd ==
    ASSUME NEW S, S # {}, \A a \in S : \A k \in 1..7 : a[k] \in Nat
    PROVE  \E a \in S : \A b \in S : ~Less(b, a)
<1> DEFINE Has(n) == \E a \in S : \A b \in S : ~LessUpTo(n, b, a)
<1>1. Has(0)
  BY DEF LessUpTo
<1>2. ASSUME NEW n \in 0..6, Has(n) PROVE Has(n + 1)
  <2>1. n \in Nat /\ n + 1 \in 1..7
    OBVIOUS
  <2>2. \A a \in S : a[n + 1] \in Nat
    BY <2>1
  <2> QED
    BY <1>2, <2>1, <2>2, LeastUpTo
<1> HIDE DEF Has
<1>3. Has(1) /\ Has(2) /\ Has(3)
  BY <1>1, <1>2
<1>4. Has(4) /\ Has(5) /\ Has(6) /\ Has(7)
  BY <1>2, <1>3
<1> QED
  BY <1>4 DEF Has, LessUpTo, Less

\* A session begins, and turns follow each other.
LEMMA TurnWears ==
    ASSUME IInv, NoTurnYet,
           \/ LoadMemory \/ BeginConversation \/ LlmFails \/ TurnEnds
           \/ \E blocks \in 0..MaxBlocks, same \in BOOLEAN : LlmAnswers(blocks, same)
    PROVE  Advances
<1>1. CASE EndSession
  BY <1>1 DEF EndSession, Advances
<1>2. CASE LoadMemory
  <2>1. at = "loading" /\ at' = "prompting" /\ iteration' = iteration
    BY <1>2 DEF LoadMemory, sessionVars, turnVars
  <2>2. Work'[2] < Work[2] /\ \A j \in 1..2 - 1 : Work'[j] = Work[j]
    BY <2>1 DEF Work
  <2> QED
    BY <2>1, <2>2, LessAt DEF Advances, InSession, Places
<1>3. CASE BeginConversation
  <2>1. at' = "asking" /\ iteration = 0 /\ iteration' = 1
    BY <1>3 DEF BeginConversation, NoTurnYet
  <2>2. Work'[1] < Work[1] /\ \A j \in 1..1 - 1 : Work'[j] = Work[j]
    BY <2>1, AgentAssumption DEF Work
  <2> QED
    BY <2>1, <2>2, LessAt DEF Advances, InSession, Places
<1>4. CASE TurnEnds /\ ~EndSession
  <2>1. at' = "asking" /\ iteration' = iteration + 1
    BY <1>4 DEF TurnEnds
  <2>2. iteration \in Nat /\ MaxIterations \in Nat
    BY AgentAssumption DEF IInv, TypeOK
  <2>3. Work'[1] < Work[1] /\ \A j \in 1..1 - 1 : Work'[j] = Work[j]
    BY <2>1, <2>2 DEF Work
  <2> QED
    BY <2>1, <2>3, LessAt DEF Advances, InSession, Places
<1>5. ASSUME NEW blocks \in 0..MaxBlocks, NEW same \in BOOLEAN, LlmAnswers(blocks, same),
             ~EndSession
      PROVE  Advances
  <2>1. at = "asking" /\ at' = "blocks" /\ iteration' = iteration
    BY <1>5 DEF LlmAnswers
  <2>2. Work'[2] < Work[2] /\ \A j \in 1..2 - 1 : Work'[j] = Work[j]
    BY <2>1 DEF Work
  <2> QED
    BY <2>1, <2>2, LessAt DEF Advances, InSession, Places
<1> QED
  BY <1>1, <1>2, <1>3, <1>4, <1>5 DEF LlmFails

\* A snippet begins and ends.
LEMMA SnippetWears ==
    ASSUME IInv, EvalPython \/ SnippetEnds \/ SnippetAborted \/ TooManyCalls
    PROVE  Advances
<1>1. at \in {"blocks", "python"} /\ iteration' = iteration /\ left \in Nat \ {0}
  BY DEF IInv, TypeOK, EvalPython, SnippetEnds, SnippetAborted, TooManyCalls,
         EndSnippet, StartSnippet, turnVars
<1>2. CASE at' = "blocks" /\ left' = left - 1
  <2>1. Work'[3] < Work[3] /\ \A j \in 1..3 - 1 : Work'[j] = Work[j]
    BY <1>1, <1>2 DEF Work
  <2> QED
    BY <1>2, <2>1, LessAt DEF Advances, InSession, Places
<1>3. CASE at = "blocks" /\ at' = "python" /\ left' = left
  <2>1. Work'[4] < Work[4] /\ \A j \in 1..4 - 1 : Work'[j] = Work[j]
    BY <1>1, <1>3 DEF Work
  <2> QED
    BY <1>3, <2>1, LessAt DEF Advances, InSession, Places
<1> QED
  BY <1>2, <1>3
  DEF EvalPython, SnippetEnds, SnippetAborted, TooManyCalls, EndSnippet,
      StartSnippet, turnVars

\* A call is counted when it is made.
LEMMA CallWears ==
    ASSUME IInv,
           \/ CallLocal
           \/ \E m \in Methods : CallHost(m)
           \/ \E n \in Notes : SetMemory(n)
    PROVE  Advances
<1>1. Count /\ at' \in {"python", "calling", "saving"}
  BY DEF CallLocal, CallHost, SetMemory, Count
<1>2. at = "python" /\ calls' = calls + 1 /\ UNCHANGED <<iteration, left>>
  BY <1>1 DEF Count, turnVars
<1>3. calls \in Nat /\ MaxHostCalls \in Nat
  BY AgentAssumption DEF IInv, TypeOK
<1>4. Work'[5] < Work[5] /\ \A j \in 1..5 - 1 : Work'[j] = Work[j]
  BY <1>1, <1>2, <1>3 DEF Work
<1> QED
  BY <1>1, <1>4, LessAt DEF Advances, InSession, Places

\* A save ends, and a call has two attempts.
LEMMA WaitWears ==
    ASSUME IInv, SaveEnds \/ Calling(Timed) \/ Calling(Untimed)
    PROVE  Advances
<1>1. CASE SaveEnds
  <2>1. at = "saving" /\ at' = "python" /\ attempt' = attempt /\ attempt = "none"
        /\ UNCHANGED <<iteration, left, calls>>
    BY <1>1 DEF SaveEnds, sessionVars, turnVars, hostVars, IInv, TypeOK
  <2>2. Work'[6] < Work[6] /\ \A j \in 1..6 - 1 : Work'[j] = Work[j]
    BY <2>1 DEF Work
  <2> QED
    BY <2>1, <2>2, LessAt DEF Advances, InSession, Places
<1>2. CASE Calling(Timed) \/ Calling(Untimed)
  <2>1. /\ at = "calling" /\ at' \in {"python", "calling"}
        /\ UNCHANGED <<iteration, left, calls>>
        /\ attempt' # "none" => at' = "calling"
    BY <1>2 DEF Calling, sessionVars, turnVars
  <2>2. \/ WsAnswer \/ TooLarge \/ Unanswered \/ \E m \in Methods : TakenForLost(m)
        \/ HttpAnswer \/ Reconnect(Held) \/ ReconnectFails
    BY <1>2 DEF Calling, Timed, Untimed, Methods
  <2>3. CASE attempt' = attempt
    <3>1. awaited' = awaited - 1 /\ awaited \in Nat \ {0}
      BY <2>1, <2>2, <2>3
      DEF WsAnswer, TooLarge, Unanswered, TakenForLost, HttpAnswer, Reconnect, ReconnectFails, Requesting,
          RetryOrReturn, Return, IInv, TypeOK, WsRequests
    <3>2. at' = at
      BY <2>1, <2>3 DEF IInv, TypeOK
    <3>3. Work'[7] < Work[7] /\ \A j \in 1..7 - 1 : Work'[j] = Work[j]
      BY <2>1, <2>3, <3>1, <3>2 DEF Work
    <3> QED
      BY <2>1, <3>3, LessAt DEF Advances, InSession, Places
  <2>4. CASE attempt' # attempt
    <3>1. \/ attempt = "first" /\ attempt' \in {"none", "connecting"}
          \/ attempt = "connecting" /\ attempt' \in {"none", "second"}
          \/ attempt = "second" /\ attempt' = "none"
      BY <2>2, <2>4
      DEF WsAnswer, TooLarge, Unanswered, TakenForLost, HttpAnswer, Reconnect, ReconnectFails, Requesting,
          RetryOrReturn, Return
    <3>2. Work'[6] < Work[6] /\ \A j \in 1..6 - 1 : Work'[j] = Work[j]
      BY <2>1, <3>1 DEF Work
    <3> QED
      BY <2>1, <3>2, LessAt DEF Advances, InSession, Places
  <2> QED
    BY <2>3, <2>4
<1> QED
  BY <1>1, <1>2

LEMMA StepWears ==
    ASSUME IInv, NoTurnYet, [Next]_vars, at \in InSession
    PROVE  Advances \/ Aside
<1>1. CASE Prompt
  <2>1. ~(Top \/ WakeTriggered \/ WakeScheduled \/ WakeCancelled)
    BY DEF InSession, Places, Top, WakeTriggered, WakeScheduled, WakeCancelled
  <2> QED
    BY <1>1, <2>1, TurnWears, WaitWears DEF Prompt
<1>2. CASE BeginConversation
  BY <1>2, TurnWears
<1>3. CASE Evaluate
  BY <1>3, SnippetWears, CallWears DEF Evaluate
<1>4. CASE Calling(Untimed)
  BY <1>4, WaitWears
<1>5. CASE TriggerNow \/ Stop \/ \E c \in Conns : Lose(c)
  BY <1>5 DEF TriggerNow, Stop, Lose, LoseConnection, Aside, hostVars
<1>6. CASE Restart
  BY <1>6 DEF Restart, Advances
<1>7. CASE UNCHANGED vars
  BY <1>7 DEF vars, Aside, hostVars
<1> QED
  BY <1>1, <1>2, <1>3, <1>4, <1>5, <1>6, <1>7 DEF Next

\* A session has an end, whatever the model answers, the snippets call and the connections
\* do, as long as each of its steps does: a step of its own ends it or leaves fewer of
\* seven numbers, in the order of a lexicon, which has no infinite descent (LessHasAnEnd).
\* It is what StopEnds needs besides fairness (session.rs: run_session; engine.rs:
\* eval_python; ha_host.rs: fulfill).
THEOREM SessionsEnd == Spec => SessionsWearOut /\ [](\A k \in 1..7 : Work[k] \in Nat)
<1>1. Init => NoTurnYet
  BY DEF Init, NoTurnYet
<1>2. Spec => [](IInv /\ NoTurnYet)
  BY <1>1, NextNoTurnYet, Invariant, PTL DEF Spec
<1>3. IInv /\ NoTurnYet /\ [Next]_vars => [(at \in InSession) => Advances \/ Aside]_vars
  BY StepWears
<1> QED
  BY <1>2, <1>3, WorkIsNumbers, PTL DEF Spec, SessionsWearOut
=============================================================================
