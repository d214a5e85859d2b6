--------------------------- MODULE HaClientProofs ---------------------------
(***************************************************************************)
(* Safety of HaClient for any number of calls, any capacity of the command *)
(* channel and any number of frames in flight, and the proof that it       *)
(* implements RequestReply.                                                *)
(*                                                                         *)
(* The properties are not inductive: that an answer finds its caller rests *)
(* on where the call was before it was written, hence on every place a     *)
(* call can be (channel, writer, map, wire, inbox).  IInv follows a call   *)
(* through these places.                                                   *)
(***************************************************************************)
EXTENDS HaClient, TLAPS, SequenceTheorems

Members(s) == {s[k] : k \in DOMAIN s}
Distinct(s) == \A k, l \in DOMAIN s : s[k] = s[l] => k = l
OneAnswerEach(s) ==
    \A k, l \in DOMAIN s :
        s[k].type # "event" /\ s[l].type # "event" /\ s[k].id = s[l].id => k = l

Early(i) == stage[i] \in {"unused", "sending"}

\* Nothing refers to an id before its call has been put on the channel.
IdsInv ==
    /\ \A i \in Calls : i >= nextId => stage[i] = "unused"
    /\ \A i \in Calls : Early(i) =>
          i # current /\ i \notin pending /\ i \notin wire /\ executions[i] = 0

\* A queued command is queued once, by a call that is past its early stages,
\* and is nowhere else.
QueueInv ==
    /\ Distinct(cmdQueue)
    /\ \A i \in Members(cmdQueue) :
          /\ ~Early(i)
          /\ i # current /\ i \notin pending /\ i \notin wire /\ executions[i] = 0

\* The command the writer holds is registered and was never written.
CurrentInv ==
    writer = "sending" =>
        /\ current \notin wire
        /\ executions[current] = 0
        /\ ~Early(current)
        /\ reader = "running" => current \in pending
        /\ reader = "running" /\ kind[current] = "subscribe" => current \in subscriptions

\* A command is carried out at most once, and success is reported for none but
\* an accepted one.
ExecInv ==
    /\ \A i \in wire : executions[i] = 0
    /\ \A i \in accepted : executions[i] = 1
    /\ \A i \in Calls : reply[i] = "ok" => i \in accepted
    /\ \A i \in Calls : executions[i] \in {0, 1}

\* A frame on its way is about a command that was carried out, and no command
\* has two answers on their way.
InboxInv ==
    /\ OneAnswerEach(inbox)
    /\ \A f \in Members(inbox) :
          /\ executions[f.id] = 1
          /\ f.type \in {"ok", "event"} => f.id \in accepted
          /\ f.type = "event" => kind[f.id] = "subscribe"

\* While the reader runs, what is written stays registered until it is answered.
RouteInv ==
    reader = "running" =>
        /\ wire \subseteq pending
        /\ \A f \in Members(inbox) : f.type # "event" => f.id \in pending

\* While the reader runs, a subscription that was written stays in the map.
SubsInv ==
    reader = "running" =>
        \A i \in wire \union accepted : kind[i] = "subscribe" => i \in subscriptions

\* As NoForgottenSender.
SenderInv ==
    \A i \in Calls :
        stage[i] = "waiting" /\ reply[i] = "open" =>
            \/ i \in Members(cmdQueue) /\ writer # "ended"
            \/ i \in pending /\ (writer # "ended" \/ reader # "ended")

IInv ==
    /\ TypeOK
    /\ IdsInv
    /\ QueueInv
    /\ CurrentInv
    /\ ExecInv
    /\ InboxInv
    /\ RouteInv
    /\ SubsInv
    /\ SenderInv
    /\ EndedLoopIsSignalled
-----------------------------------------------------------------------------
(* Sequences *)

\* The domain of a sequence.
LEMMA SeqDomain ==
    ASSUME NEW S, NEW s \in Seq(S)
    PROVE  DOMAIN s = 1..Len(s)
OBVIOUS

\* What Append does to a queue.
LEMMA SeqAppend ==
    ASSUME NEW S, NEW s \in Seq(S), NEW e \in S
    PROVE  /\ Append(s, e) \in Seq(S)
           /\ Len(Append(s, e)) = Len(s) + 1
           /\ Append(s, e)[Len(s) + 1] = e
           /\ \A k \in 1..Len(s) : Append(s, e)[k] = s[k]
OBVIOUS

\* What taking the head off a queue leaves.
LEMMA SeqTail ==
    ASSUME NEW S, NEW s \in Seq(S), s # << >>
    PROVE  /\ Tail(s) \in Seq(S)
           /\ Len(s) \in Nat \ {0}
           /\ Len(Tail(s)) = Len(s) - 1
           /\ Head(s) = s[1]
           /\ Head(s) \in S
           /\ \A k \in 1..(Len(s) - 1) : Tail(s)[k] = s[k + 1]
OBVIOUS

\* The empty queue.
LEMMA SeqEmpty ==
    ASSUME NEW S
    PROVE  << >> \in Seq(S) /\ Len(<< >>) = 0
OBVIOUS

\* Appending adds one member, and keeps the members distinct if it is new.
LEMMA AppendMembers ==
    ASSUME NEW S, NEW s \in Seq(S), NEW e \in S
    PROVE  /\ Members(Append(s, e)) = Members(s) \union {e}
           /\ Distinct(s) /\ e \notin Members(s) => Distinct(Append(s, e))
<1> DEFINE t == Append(s, e)
<1>1. /\ DOMAIN s = 1..Len(s)
      /\ DOMAIN t = 1..(Len(s) + 1)
      /\ Len(s) \in Nat
      /\ t[Len(s) + 1] = e
      /\ \A k \in 1..Len(s) : t[k] = s[k]
  BY SeqAppend, SeqDomain
<1>2. \A k \in DOMAIN t : k = Len(s) + 1 \/ k \in DOMAIN s
  BY <1>1
<1>3. Len(s) + 1 \in DOMAIN t /\ \A k \in DOMAIN s : k \in DOMAIN t
  BY <1>1
<1> HIDE DEF t
<1>4. Members(t) = Members(s) \union {e}
  BY <1>1, <1>2, <1>3 DEF Members
<1>5. ASSUME Distinct(s), e \notin Members(s) PROVE Distinct(t)
  BY <1>1, <1>2, <1>5 DEF Distinct, Members
<1> QED
  BY <1>4, <1>5 DEF t

\* Appending the answer of a call that has none keeps one answer per call.
LEMMA AppendAnswer ==
    ASSUME NEW S, NEW s \in Seq(S), NEW e \in S, OneAnswerEach(s),
           e.type # "event" => \A f \in Members(s) : f.type # "event" => f.id # e.id
    PROVE  OneAnswerEach(Append(s, e))
<1> DEFINE t == Append(s, e)
<1>1. /\ DOMAIN s = 1..Len(s)
      /\ DOMAIN t = 1..(Len(s) + 1)
      /\ Len(s) \in Nat
      /\ t[Len(s) + 1] = e
      /\ \A k \in 1..Len(s) : t[k] = s[k]
  BY SeqAppend, SeqDomain
<1>2. \A k \in DOMAIN t : k = Len(s) + 1 \/ k \in DOMAIN s
  BY <1>1
<1> HIDE DEF t
<1>3. \A k \in DOMAIN s : s[k] \in Members(s)
  BY DEF Members
<1>4. OneAnswerEach(t)
  BY <1>1, <1>2, <1>3 DEF OneAnswerEach
<1> QED
  BY <1>4 DEF t

\* Taking the head off a queue removes that member, the only one of its kind.
LEMMA TailMembers ==
    ASSUME NEW S, NEW s \in Seq(S), s # << >>
    PROVE  /\ Head(s) \in Members(s)
           /\ Members(s) = Members(Tail(s)) \union {Head(s)}
           /\ Distinct(s) => Distinct(Tail(s)) /\ Head(s) \notin Members(Tail(s))
           /\ OneAnswerEach(s) =>
                /\ OneAnswerEach(Tail(s))
                /\ Head(s).type # "event" =>
                     \A f \in Members(Tail(s)) : f.type # "event" => f.id # Head(s).id
<1> DEFINE t == Tail(s)
<1>1. /\ DOMAIN s = 1..Len(s)
      /\ DOMAIN t = 1..(Len(s) - 1)
      /\ Len(s) \in Nat \ {0}
      /\ Head(s) = s[1]
      /\ \A k \in 1..(Len(s) - 1) : t[k] = s[k + 1]
  BY SeqTail, SeqDomain
<1>2. /\ 1 \in DOMAIN s
      /\ \A k \in DOMAIN t : k + 1 \in DOMAIN s /\ t[k] = s[k + 1] /\ k + 1 # 1
      /\ \A k, l \in DOMAIN t : k + 1 = l + 1 => k = l
  BY <1>1
<1>3. \A k \in DOMAIN s : k = 1 \/ \E l \in DOMAIN t : k = l + 1
  <2> SUFFICES ASSUME NEW k \in DOMAIN s, k # 1
               PROVE  \E l \in DOMAIN t : k = l + 1
    OBVIOUS
  <2>1. k - 1 \in DOMAIN t /\ k = (k - 1) + 1
    BY <1>1
  <2> QED
    BY <2>1
<1> HIDE DEF t
<1>4. Members(s) = Members(t) \union {s[1]}
  BY <1>2, <1>3 DEF Members
<1>5. Distinct(s) => Distinct(t) /\ s[1] \notin Members(t)
  BY <1>2 DEF Distinct, Members
<1>6. OneAnswerEach(s) =>
        /\ OneAnswerEach(t)
        /\ s[1].type # "event" =>
             \A f \in Members(t) : f.type # "event" => f.id # s[1].id
  BY <1>2 DEF OneAnswerEach, Members
<1> QED
  BY <1>1, <1>4, <1>5, <1>6 DEF t

\* An empty queue holds nothing twice.
LEMMA EmptyMembers == Members(<< >>) = {} /\ Distinct(<< >>) /\ OneAnswerEach(<< >>)
BY DEF Members, Distinct, OneAnswerEach

\* The members of a queue are of its element type.
LEMMA MembersType ==
    ASSUME NEW S, NEW s \in Seq(S)
    PROVE  Members(s) \subseteq S
BY SeqDomain DEF Members

-----------------------------------------------------------------------------
(* Type correctness *)

\* The types hold once connect() has returned.
LEMMA InitTypeOK == Init => TypeOK
<1> SUFFICES ASSUME Init PROVE TypeOK
  OBVIOUS
<1>1. cmdQueue \in Seq(Calls) /\ inbox \in Seq(Frames)
  BY DEF Init
<1>2. nextId \in 1..(MaxCalls + 1)
  BY ConstantsAssumption DEF Init
<1>3. /\ kind \in [Calls -> Kinds]
      /\ stage \in [Calls -> {"unused"} \union InProgress \union Returned]
      /\ reply \in [Calls -> Replies]
      /\ executions \in [Calls -> Nat]
  BY DEF Init, Kinds, Replies
<1>4. /\ writer \in {"idle", "sending", "failing", "ended"}
      /\ current \in {0} \union Calls
      /\ writer = "sending" => current \in Calls
      /\ reader \in {"running", "failing", "ended"}
      /\ pending \subseteq Calls
      /\ subscriptions \subseteq Calls
      /\ conn \in {"open", "closed", "broken"}
      /\ wire \subseteq Calls
      /\ lastSent \in {0} \union Calls
      /\ accepted \subseteq Calls
  BY DEF Init
<1>5. handles \in BOOLEAN /\ disconnected \in BOOLEAN
  BY DEF Init
<1> QED
  BY <1>1, <1>2, <1>3, <1>4, <1>5, Zenon DEF TypeOK

\* No step of a caller, a loop or the transport breaks a type.
LEMMA NextTypeOK == TypeOK /\ [Next]_vars => TypeOK'
<1> SUFFICES ASSUME TypeOK, [Next]_vars PROVE TypeOK'
  OBVIOUS
<1> USE ConstantsAssumption DEF TypeOK, Calls, callVars, loopVars, mapVars, haVars
<1>1. ASSUME NEW k \in Kinds, Begin(k) PROVE TypeOK'
  BY <1>1 DEF Begin, InProgress
<1>2. ASSUME NEW i \in Calls, Enqueue(i) PROVE TypeOK'
  BY <1>2, SeqAppend DEF Enqueue, InProgress
<1>3. ASSUME NEW i \in Calls, Refused(i) PROVE TypeOK'
  BY <1>3 DEF Refused, Returned
<1>4. ASSUME NEW i \in Calls, Receive(i) PROVE TypeOK'
  BY <1>4 DEF Receive, Outcome, Returned, Replies, Kinds
<1>5. ASSUME NEW i \in Calls, Timeout(i) PROVE TypeOK'
  BY <1>5 DEF Timeout, Returned
<1>6. ASSUME DropClient PROVE TypeOK'
  BY <1>6 DEF DropClient
<1>7. ASSUME WriterRegister PROVE TypeOK'
  <2>1. /\ Tail(cmdQueue) \in Seq(Calls)
        /\ Head(cmdQueue) \in Calls
    BY <1>7, SeqTail DEF WriterRegister
  <2>2. /\ cmdQueue' \in Seq(Calls)
        /\ current' \in Calls
    BY <1>7, <2>1 DEF WriterRegister
  <2>3. /\ pending' \subseteq Calls
        /\ subscriptions' \subseteq Calls
    BY <1>7, <2>2 DEF WriterRegister
  <2>4. /\ writer' = "sending"
        /\ UNCHANGED <<callVars, reply, handles, reader, disconnected, haVars>>
    BY <1>7 DEF WriterRegister
  <2> QED
    BY <2>2, <2>3, <2>4
<1>8. ASSUME WriterSent PROVE TypeOK'
  BY <1>8 DEF WriterSent
<1>9. ASSUME WriterSendFailed PROVE TypeOK'
  BY <1>9 DEF WriterSendFailed, Dropped, Replies
<1>10. ASSUME WriterBail PROVE TypeOK'
  BY <1>10, SeqEmpty DEF WriterBail, WriterGone, Dropped, Replies
<1>11. ASSUME WriterFinish PROVE TypeOK'
  BY <1>11, SeqEmpty DEF WriterFinish, WriterGone, Dropped, Replies
<1>12. ASSUME ReadResult PROVE TypeOK'
  BY <1>12, SeqTail DEF ReadResult, Replies, Frames
<1>13. ASSUME ReadEvent PROVE TypeOK'
  BY <1>13, SeqTail DEF ReadEvent
<1>14. ASSUME ReaderClosed PROVE TypeOK'
  BY <1>14 DEF ReaderClosed, ReaderGone, Dropped, Replies
<1>15. ASSUME NEW m \in {"lost", "too_large"}, ReaderDrain(m) PROVE TypeOK'
  BY <1>15 DEF ReaderDrain, Replies
<1>16. ASSUME ReaderBail PROVE TypeOK'
  BY <1>16 DEF ReaderBail, ReaderGone, Dropped, Replies
<1>17. ASSUME NEW i \in Calls, NEW a \in {"ok", "rejected", "too_large"}, HaHandle(i, a)
       PROVE TypeOK'
  <2> DEFINE f == [type |-> a, id |-> i]
  <2>1. f \in Frames
    BY DEF Frames
  <2>2. Append(inbox, f) \in Seq(Frames)
    BY <2>1, SeqAppend
  <2>3. inbox' \in Seq(Frames)
    BY <1>17, <2>2 DEF HaHandle
  <2> QED
    BY <1>17, <2>3 DEF HaHandle
<1>18. ASSUME NEW i \in Calls, HaEvent(i) PROVE TypeOK'
  <2> DEFINE f == [type |-> "event", id |-> i]
  <2>1. f \in Frames
    BY DEF Frames
  <2>2. inbox' \in Seq(Frames)
    BY <1>18, <2>1, SeqAppend DEF HaEvent
  <2> QED
    BY <1>18, <2>2 DEF HaEvent
<1>19. ASSUME NEW how \in {"closed", "broken"}, LoseConnection(how) PROVE TypeOK'
  BY <1>19 DEF LoseConnection
<1>20. CASE UNCHANGED vars
  BY <1>20 DEF vars
<1> QED
  BY <1>1, <1>2, <1>3, <1>4, <1>5, <1>6, <1>7, <1>8, <1>9, <1>10, <1>11, <1>12, <1>13,
     <1>14, <1>15, <1>16, <1>17, <1>18, <1>19, <1>20
  DEF Next, Caller, Writer, WriterAlone, Reader, Environment

\* Every reachable state of the client has the types of TypeOK.
THEOREM TypeCorrect == Spec => []TypeOK
BY InitTypeOK, NextTypeOK, PTL DEF Spec

-----------------------------------------------------------------------------
(* The inductive invariant *)

\* What the steps below need of the types.
Types ==
    /\ stage \in [Calls -> {"unused"} \union InProgress \union Returned]
    /\ kind \in [Calls -> Kinds]
    /\ reply \in [Calls -> Replies]
    /\ executions \in [Calls -> Nat]
    /\ current \in {0} \union Calls
    /\ writer = "sending" => current \in Calls
    /\ pending \subseteq Calls
    /\ wire \subseteq Calls
    /\ accepted \subseteq Calls
    /\ Members(cmdQueue) \subseteq Calls
    /\ \A f \in Members(inbox) : f.id \in Calls

\* The part of TypeOK the invariance proof reasons from, with the queues seen
\* as sets of their members.
LEMMA TypesOfTypeOK == TypeOK => Types
<1> SUFFICES ASSUME TypeOK PROVE Types
  OBVIOUS
<1>1. Members(cmdQueue) \subseteq Calls
  BY MembersType DEF TypeOK
<1>2. Members(inbox) \subseteq Frames
  BY MembersType DEF TypeOK
<1>3. \A f \in Members(inbox) : f.id \in Calls
  BY <1>2 DEF Frames
<1> QED
  BY <1>1, <1>3 DEF TypeOK, Types

\* Every step of a caller, a loop or the transport preserves the inductive
\* invariant.
LEMMA NextIInv == IInv /\ [Next]_vars => IInv'
<1> SUFFICES ASSUME IInv, [Next]_vars PROVE IInv'
  OBVIOUS
<1> DEFINE Rest == /\ IdsInv /\ QueueInv /\ CurrentInv /\ ExecInv /\ InboxInv
                   /\ RouteInv /\ SubsInv /\ SenderInv /\ EndedLoopIsSignalled
<1>t. TypeOK /\ TypeOK' /\ cmdQueue \in Seq(Calls) /\ inbox \in Seq(Frames)
  BY NextTypeOK DEF IInv, TypeOK
<1>0. /\ Types
      /\ IdsInv /\ QueueInv /\ CurrentInv /\ ExecInv /\ InboxInv
      /\ RouteInv /\ SubsInv /\ SenderInv /\ EndedLoopIsSignalled
  BY <1>t, TypesOfTypeOK DEF IInv
<1> USE <1>0 DEF Types, Calls, callVars, loopVars, mapVars, haVars
<1>1. ASSUME NEW c \in Kinds, Begin(c) PROVE Rest'
  <2>1. IdsInv'
    BY <1>1 DEF IdsInv, Early, Begin
  <2>2. QueueInv'
    BY <1>1 DEF QueueInv, IdsInv, Early, Begin
  <2>3. CurrentInv'
    BY <1>1 DEF CurrentInv, QueueInv, IdsInv, Early, Begin
  <2>4. InboxInv'
    BY <1>1 DEF InboxInv, ExecInv, IdsInv, Early, Begin
  <2>5. SubsInv'
    BY <1>1 DEF SubsInv, CurrentInv, ExecInv, IdsInv, Early, Begin
  <2>6. SenderInv'
    BY <1>1 DEF SenderInv, QueueInv, IdsInv, Early, Begin
  <2>7. (ExecInv /\ RouteInv /\ EndedLoopIsSignalled)'
    BY <1>1 DEF ExecInv, RouteInv, EndedLoopIsSignalled, Begin
  <2> QED
    BY <2>1, <2>2, <2>3, <2>4, <2>5, <2>6, <2>7
<1>2. ASSUME NEW c \in Calls, Enqueue(c) PROVE Rest'
  <2>a. /\ Members(cmdQueue') = Members(cmdQueue) \union {c}
        /\ c \notin Members(cmdQueue)
        /\ Distinct(cmdQueue')
    <3>1. c \notin Members(cmdQueue)
      BY <1>t, <1>2 DEF Enqueue, QueueInv, Early
    <3>2. cmdQueue' = Append(cmdQueue, c) /\ Distinct(cmdQueue)
      BY <1>t, <1>2 DEF Enqueue, QueueInv
    <3> HIDE <1>0
    <3> HIDE DEF Types, Calls
    <3> QED
      BY <1>t, <3>1, <3>2, AppendMembers
  <2>1. IdsInv'
    BY <1>2, <2>a DEF IdsInv, Early, Enqueue
  <2>2. QueueInv'
    BY <1>2, <2>a DEF QueueInv, IdsInv, Early, Enqueue
  <2>3. CurrentInv'
    BY <1>2, <2>a DEF CurrentInv, QueueInv, IdsInv, Early, Enqueue
  <2>4. SenderInv'
    BY <1>2, <2>a DEF SenderInv, QueueInv, IdsInv, Early, Enqueue
  <2>5. (ExecInv /\ InboxInv /\ RouteInv /\ SubsInv /\ EndedLoopIsSignalled)'
    BY <1>2 DEF ExecInv, InboxInv, RouteInv, SubsInv, EndedLoopIsSignalled,
       Early, Enqueue
  <2> QED
    BY <2>1, <2>2, <2>3, <2>4, <2>5
<1>3. ASSUME NEW c \in Calls, Refused(c) PROVE Rest'
  <2>1. IdsInv'
    BY <1>3 DEF IdsInv, Early, Refused
  <2>2. QueueInv'
    BY <1>3 DEF QueueInv, IdsInv, Early, Refused
  <2>3. CurrentInv'
    BY <1>3 DEF CurrentInv, QueueInv, IdsInv, Early, Refused
  <2>4. SenderInv'
    BY <1>3 DEF SenderInv, QueueInv, IdsInv, Early, Refused
  <2>5. (ExecInv /\ InboxInv /\ RouteInv /\ SubsInv /\ EndedLoopIsSignalled)'
    BY <1>3 DEF ExecInv, InboxInv, RouteInv, SubsInv, EndedLoopIsSignalled,
       Early, Refused
  <2> QED
    BY <2>1, <2>2, <2>3, <2>4, <2>5
<1>4. ASSUME NEW c \in Calls, Receive(c) PROVE Rest'
  <2>1. IdsInv'
    BY <1>4 DEF IdsInv, Early, Receive, Outcome
  <2>2. QueueInv'
    BY <1>4 DEF QueueInv, IdsInv, Early, Receive, Outcome
  <2>3. CurrentInv'
    BY <1>4 DEF CurrentInv, QueueInv, IdsInv, Early, Receive, Outcome
  <2>4. SenderInv'
    BY <1>4 DEF SenderInv, QueueInv, IdsInv, Early, Receive, Outcome
  <2>5. (ExecInv /\ InboxInv /\ RouteInv /\ SubsInv /\ EndedLoopIsSignalled)'
    BY <1>4 DEF ExecInv, InboxInv, RouteInv, SubsInv, EndedLoopIsSignalled,
       Early, Receive, Outcome
  <2> QED
    BY <2>1, <2>2, <2>3, <2>4, <2>5
<1>5. ASSUME NEW c \in Calls, Timeout(c) PROVE Rest'
  <2>1. IdsInv'
    BY <1>5 DEF IdsInv, Early, Timeout
  <2>2. QueueInv'
    BY <1>5 DEF QueueInv, IdsInv, Early, Timeout
  <2>3. CurrentInv'
    BY <1>5 DEF CurrentInv, QueueInv, IdsInv, Early, Timeout
  <2>4. SenderInv'
    BY <1>5 DEF SenderInv, QueueInv, IdsInv, Early, Timeout
  <2>5. (ExecInv /\ InboxInv /\ RouteInv /\ SubsInv /\ EndedLoopIsSignalled)'
    BY <1>5 DEF ExecInv, InboxInv, RouteInv, SubsInv, EndedLoopIsSignalled,
       Early, Timeout
  <2> QED
    BY <2>1, <2>2, <2>3, <2>4, <2>5
<1>6. ASSUME DropClient PROVE Rest'
  <2>1. EndedLoopIsSignalled'
    BY <1>6 DEF EndedLoopIsSignalled, DropClient
  <2>2. (IdsInv /\ QueueInv /\ CurrentInv /\ ExecInv /\ InboxInv /\ RouteInv /\ SubsInv /\ SenderInv)'
    BY <1>6 DEF IdsInv, QueueInv, CurrentInv, ExecInv, InboxInv, RouteInv,
       SubsInv, SenderInv, Early, DropClient
  <2> QED
    BY <2>1, <2>2
<1>7. ASSUME WriterRegister PROVE Rest'
  <2>a. /\ Members(cmdQueue) = Members(cmdQueue') \union {current'}
        /\ current' \in Members(cmdQueue)
        /\ current' \notin Members(cmdQueue')
        /\ Distinct(cmdQueue')
        /\ current' \in Calls
    BY <1>t, <1>7, TailMembers, SeqTail DEF WriterRegister, QueueInv
  <2>1. IdsInv'
    <3>1. UNCHANGED <<nextId, stage, wire, executions>> /\ pending' = pending \union {current'}
      BY <1>7 DEF WriterRegister, callVars, haVars
    <3>2. ~Early(current')
      BY <2>a DEF QueueInv
    <3>3. \A i \in Calls : Early(i)' => Early(i) /\ i # current'
      BY <3>1, <3>2 DEF Early
    <3> QED
      BY <3>1, <3>3 DEF IdsInv, Early
  <2>2. QueueInv'
    BY <1>7, <2>a DEF QueueInv, IdsInv, Early, WriterRegister, PendingUnlocked
  <2>3. CurrentInv'
    BY <1>7, <2>a DEF CurrentInv, QueueInv, IdsInv, Early, WriterRegister,
       PendingUnlocked
  <2>4. RouteInv'
    BY <1>7, <2>a DEF RouteInv, CurrentInv, InboxInv, ExecInv, WriterRegister,
       PendingUnlocked
  <2>5. SubsInv'
    BY <1>7, <2>a DEF SubsInv, CurrentInv, ExecInv, IdsInv, Early,
       WriterRegister, PendingUnlocked
  <2>6. SenderInv'
    BY <1>7, <2>a DEF SenderInv, QueueInv, IdsInv, Early, WriterRegister,
       PendingUnlocked
  <2>7. EndedLoopIsSignalled'
    BY <1>7, <2>a DEF EndedLoopIsSignalled, WriterRegister, PendingUnlocked
  <2>8. (ExecInv /\ InboxInv)'
    BY <1>7 DEF ExecInv, InboxInv, Early, WriterRegister, PendingUnlocked
  <2> QED
    BY <2>1, <2>2, <2>3, <2>4, <2>5, <2>6, <2>7, <2>8
<1>8. ASSUME WriterSent PROVE Rest'
  <2>1. IdsInv'
    BY <1>8 DEF IdsInv, Early, WriterSent
  <2>2. QueueInv'
    BY <1>8 DEF QueueInv, IdsInv, Early, WriterSent
  <2>3. CurrentInv'
    BY <1>8 DEF CurrentInv, QueueInv, IdsInv, Early, WriterSent
  <2>4. ExecInv'
    BY <1>8 DEF ExecInv, CurrentInv, WriterSent
  <2>5. RouteInv'
    BY <1>8 DEF RouteInv, CurrentInv, InboxInv, ExecInv, WriterSent
  <2>6. SubsInv'
    BY <1>8 DEF SubsInv, CurrentInv, ExecInv, IdsInv, Early, WriterSent
  <2>7. SenderInv'
    BY <1>8 DEF SenderInv, QueueInv, IdsInv, Early, WriterSent
  <2>8. EndedLoopIsSignalled'
    BY <1>8 DEF EndedLoopIsSignalled, WriterSent
  <2>9. InboxInv'
    BY <1>8 DEF InboxInv, Early, WriterSent
  <2> QED
    BY <2>1, <2>2, <2>3, <2>4, <2>5, <2>6, <2>7, <2>8, <2>9
<1>9. ASSUME WriterSendFailed PROVE Rest'
  <2>1. IdsInv'
    BY <1>9 DEF IdsInv, Early, WriterSendFailed, Dropped, PendingUnlocked
  <2>2. QueueInv'
    BY <1>9 DEF QueueInv, IdsInv, Early, WriterSendFailed, Dropped,
       PendingUnlocked
  <2>3. CurrentInv'
    BY <1>9 DEF CurrentInv, QueueInv, IdsInv, Early, WriterSendFailed,
       Dropped, PendingUnlocked
  <2>4. ExecInv'
    BY <1>9 DEF ExecInv, CurrentInv, WriterSendFailed, Dropped,
       PendingUnlocked
  <2>5. RouteInv'
    BY <1>9 DEF RouteInv, CurrentInv, InboxInv, ExecInv, WriterSendFailed,
       Dropped, PendingUnlocked
  <2>6. SubsInv'
    BY <1>9 DEF SubsInv, CurrentInv, ExecInv, IdsInv, Early, WriterSendFailed,
       Dropped, PendingUnlocked
  <2>7. SenderInv'
    BY <1>9 DEF SenderInv, QueueInv, IdsInv, Early, WriterSendFailed, Dropped,
       PendingUnlocked
  <2>8. EndedLoopIsSignalled'
    BY <1>9 DEF EndedLoopIsSignalled, WriterSendFailed, Dropped,
       PendingUnlocked
  <2>9. InboxInv'
    BY <1>9 DEF InboxInv, Early, WriterSendFailed, Dropped, PendingUnlocked
  <2> QED
    BY <2>1, <2>2, <2>3, <2>4, <2>5, <2>6, <2>7, <2>8, <2>9
<1>10. ASSUME WriterBail PROVE Rest'
  <2>a. Members(cmdQueue') = {} /\ Distinct(cmdQueue') /\ Queued = Members(cmdQueue)
    BY <1>t, <1>10, EmptyMembers DEF WriterBail, WriterGone, Queued, Members
  <2>1. IdsInv'
    BY <1>10, <2>a DEF IdsInv, Early, WriterBail, WriterGone, Dropped
  <2>2. QueueInv'
    BY <1>10, <2>a DEF QueueInv, IdsInv, Early, WriterBail, WriterGone,
       Dropped
  <2>3. CurrentInv'
    BY <1>10, <2>a DEF CurrentInv, QueueInv, IdsInv, Early, WriterBail,
       WriterGone, Dropped
  <2>4. ExecInv'
    BY <1>10, <2>a DEF ExecInv, CurrentInv, WriterBail, WriterGone, Dropped
  <2>5. RouteInv'
    BY <1>10, <2>a DEF RouteInv, CurrentInv, InboxInv, ExecInv, WriterBail,
       WriterGone, Dropped
  <2>6. SubsInv'
    BY <1>10, <2>a DEF SubsInv, CurrentInv, ExecInv, IdsInv, Early,
       WriterBail, WriterGone, Dropped
  <2>7. SenderInv'
    BY <1>10, <2>a DEF SenderInv, QueueInv, IdsInv, Early, WriterBail,
       WriterGone, Dropped
  <2>8. EndedLoopIsSignalled'
    BY <1>10, <2>a DEF EndedLoopIsSignalled, WriterBail, WriterGone, Dropped
  <2>9. InboxInv'
    BY <1>10 DEF InboxInv, Early, WriterBail, WriterGone, Dropped
  <2> QED
    BY <2>1, <2>2, <2>3, <2>4, <2>5, <2>6, <2>7, <2>8, <2>9
<1>11. ASSUME WriterFinish PROVE Rest'
  <2>a. Members(cmdQueue') = {} /\ Distinct(cmdQueue') /\ Queued = Members(cmdQueue)
    BY <1>t, <1>11, EmptyMembers DEF WriterFinish, WriterGone, Queued, Members
  <2>1. IdsInv'
    BY <1>11, <2>a DEF IdsInv, Early, WriterFinish, WriterGone, Dropped
  <2>2. QueueInv'
    BY <1>11, <2>a DEF QueueInv, IdsInv, Early, WriterFinish, WriterGone,
       Dropped
  <2>3. CurrentInv'
    BY <1>11, <2>a DEF CurrentInv, QueueInv, IdsInv, Early, WriterFinish,
       WriterGone, Dropped
  <2>4. ExecInv'
    BY <1>11, <2>a DEF ExecInv, CurrentInv, WriterFinish, WriterGone, Dropped
  <2>5. RouteInv'
    BY <1>11, <2>a DEF RouteInv, CurrentInv, InboxInv, ExecInv, WriterFinish,
       WriterGone, Dropped
  <2>6. SubsInv'
    BY <1>11, <2>a DEF SubsInv, CurrentInv, ExecInv, IdsInv, Early,
       WriterFinish, WriterGone, Dropped
  <2>7. SenderInv'
    BY <1>11, <2>a DEF SenderInv, QueueInv, IdsInv, Early, WriterFinish,
       WriterGone, Dropped
  <2>8. EndedLoopIsSignalled'
    BY <1>11, <2>a DEF EndedLoopIsSignalled, WriterFinish, WriterGone, Dropped
  <2>9. InboxInv'
    BY <1>11 DEF InboxInv, Early, WriterFinish, WriterGone, Dropped
  <2> QED
    BY <2>1, <2>2, <2>3, <2>4, <2>5, <2>6, <2>7, <2>8, <2>9
<1>12. ASSUME ReadResult PROVE Rest'
  <2> DEFINE h == Head(inbox)
  <2>a. /\ Members(inbox) = Members(inbox') \union {h}
        /\ h \in Frames
        /\ h \in Members(inbox)
        /\ OneAnswerEach(inbox')
        /\ \A f \in Members(inbox') : f.type # "event" => f.id # h.id
    BY <1>t, <1>12, TailMembers, SeqTail DEF ReadResult, InboxInv
  <2>b. h.id \in Calls /\ h.type \in {"ok", "rejected"}
    BY <1>t, <1>12, <2>a DEF ReadResult, Frames
  <2>c. /\ reader = "running"
        /\ pending' = pending \ {h.id}
        /\ reply' = IF h.id \in pending THEN [reply EXCEPT ![h.id] = h.type] ELSE reply
        /\ UNCHANGED <<callVars, handles, cmdQueue, loopVars, subscriptions,
                       conn, wire, lastSent, executions, accepted>>
    BY <1>t, <1>12 DEF ReadResult
  <2>d. executions[h.id] = 1 /\ (h.type = "ok" => h.id \in accepted)
    BY <2>a DEF InboxInv
  <2> HIDE DEF h
  <2>1. IdsInv'
    BY <2>a, <2>b, <2>c, <2>d DEF IdsInv, Early
  <2>2. QueueInv'
    BY <2>a, <2>b, <2>c, <2>d DEF QueueInv, IdsInv, Early
  <2>3. CurrentInv'
    BY <2>a, <2>b, <2>c, <2>d DEF CurrentInv, QueueInv, IdsInv, Early
  <2>4. ExecInv'
    BY <2>a, <2>b, <2>c, <2>d DEF ExecInv, CurrentInv
  <2>5. InboxInv'
    BY <2>a, <2>b, <2>c, <2>d DEF InboxInv, ExecInv, IdsInv, Early
  <2>6. RouteInv'
    BY <2>a, <2>b, <2>c, <2>d DEF RouteInv, CurrentInv, InboxInv, ExecInv
  <2>7. SenderInv'
    BY <2>a, <2>b, <2>c, <2>d DEF SenderInv, QueueInv, IdsInv, Early
  <2>8. (SubsInv /\ EndedLoopIsSignalled)'
    BY <2>c DEF SubsInv, EndedLoopIsSignalled, Early
  <2> QED
    BY <2>1, <2>2, <2>3, <2>4, <2>5, <2>6, <2>7, <2>8
<1>13. ASSUME ReadEvent PROVE Rest'
  <2>a. Members(inbox') \subseteq Members(inbox) /\ OneAnswerEach(inbox')
    BY <1>t, <1>13, TailMembers DEF ReadEvent, InboxInv
  <2>1. InboxInv'
    BY <1>13, <2>a DEF InboxInv, ExecInv, IdsInv, Early, ReadEvent
  <2>2. RouteInv'
    BY <1>13, <2>a DEF RouteInv, CurrentInv, InboxInv, ExecInv, ReadEvent
  <2>3. (IdsInv /\ QueueInv /\ CurrentInv /\ ExecInv /\ SubsInv /\ SenderInv /\ EndedLoopIsSignalled)'
    BY <1>13 DEF IdsInv, QueueInv, CurrentInv, ExecInv, SubsInv, SenderInv,
       EndedLoopIsSignalled, Early, ReadEvent
  <2> QED
    BY <2>1, <2>2, <2>3
<1>14. ASSUME ReaderClosed PROVE Rest'
  <2>1. IdsInv'
    BY <1>14 DEF IdsInv, Early, ReaderClosed, ReaderGone, Dropped
  <2>2. QueueInv'
    BY <1>14 DEF QueueInv, IdsInv, Early, ReaderClosed, ReaderGone, Dropped
  <2>3. CurrentInv'
    BY <1>14 DEF CurrentInv, QueueInv, IdsInv, Early, ReaderClosed,
       ReaderGone, Dropped
  <2>4. ExecInv'
    BY <1>14 DEF ExecInv, CurrentInv, ReaderClosed, ReaderGone, Dropped
  <2>5. RouteInv'
    BY <1>14 DEF RouteInv, CurrentInv, InboxInv, ExecInv, ReaderClosed,
       ReaderGone, Dropped
  <2>6. SubsInv'
    BY <1>14 DEF SubsInv, CurrentInv, ExecInv, IdsInv, Early, ReaderClosed,
       ReaderGone, Dropped
  <2>7. SenderInv'
    BY <1>14 DEF SenderInv, QueueInv, IdsInv, Early, ReaderClosed, ReaderGone,
       Dropped
  <2>8. EndedLoopIsSignalled'
    BY <1>14 DEF EndedLoopIsSignalled, ReaderClosed, ReaderGone, Dropped
  <2>9. InboxInv'
    BY <1>14 DEF InboxInv, Early, ReaderClosed, ReaderGone, Dropped
  <2> QED
    BY <2>1, <2>2, <2>3, <2>4, <2>5, <2>6, <2>7, <2>8, <2>9
<1>15. ASSUME NEW m \in {"lost", "too_large"}, ReaderDrain(m) PROVE Rest'
  <2>1. IdsInv'
    BY <1>15 DEF IdsInv, Early, ReaderDrain
  <2>2. QueueInv'
    BY <1>15 DEF QueueInv, IdsInv, Early, ReaderDrain
  <2>3. CurrentInv'
    BY <1>15 DEF CurrentInv, QueueInv, IdsInv, Early, ReaderDrain
  <2>4. ExecInv'
    BY <1>15 DEF ExecInv, CurrentInv, ReaderDrain
  <2>5. RouteInv'
    BY <1>15 DEF RouteInv, CurrentInv, InboxInv, ExecInv, ReaderDrain
  <2>6. SubsInv'
    BY <1>15 DEF SubsInv, CurrentInv, ExecInv, IdsInv, Early, ReaderDrain
  <2>7. SenderInv'
    BY <1>15 DEF SenderInv, QueueInv, IdsInv, Early, ReaderDrain
  <2>8. EndedLoopIsSignalled'
    BY <1>15 DEF EndedLoopIsSignalled, ReaderDrain
  <2>9. InboxInv'
    BY <1>15 DEF InboxInv, Early, ReaderDrain
  <2> QED
    BY <2>1, <2>2, <2>3, <2>4, <2>5, <2>6, <2>7, <2>8, <2>9
<1>16. ASSUME ReaderBail PROVE Rest'
  <2>1. IdsInv'
    BY <1>16 DEF IdsInv, Early, ReaderBail, ReaderGone, Dropped
  <2>2. QueueInv'
    BY <1>16 DEF QueueInv, IdsInv, Early, ReaderBail, ReaderGone, Dropped
  <2>3. CurrentInv'
    BY <1>16 DEF CurrentInv, QueueInv, IdsInv, Early, ReaderBail, ReaderGone,
       Dropped
  <2>4. ExecInv'
    BY <1>16 DEF ExecInv, CurrentInv, ReaderBail, ReaderGone, Dropped
  <2>5. RouteInv'
    BY <1>16 DEF RouteInv, CurrentInv, InboxInv, ExecInv, ReaderBail,
       ReaderGone, Dropped
  <2>6. SubsInv'
    BY <1>16 DEF SubsInv, CurrentInv, ExecInv, IdsInv, Early, ReaderBail,
       ReaderGone, Dropped
  <2>7. SenderInv'
    BY <1>16 DEF SenderInv, QueueInv, IdsInv, Early, ReaderBail, ReaderGone,
       Dropped
  <2>8. EndedLoopIsSignalled'
    BY <1>16 DEF EndedLoopIsSignalled, ReaderBail, ReaderGone, Dropped
  <2>9. InboxInv'
    BY <1>16 DEF InboxInv, Early, ReaderBail, ReaderGone, Dropped
  <2> QED
    BY <2>1, <2>2, <2>3, <2>4, <2>5, <2>6, <2>7, <2>8, <2>9
<1>17. ASSUME NEW c \in Calls, NEW a \in {"ok", "rejected", "too_large"}, HaHandle(c, a)
       PROVE  Rest'
  <2> DEFINE f == [type |-> a, id |-> c]
  <2>a. f \in Frames /\ f.type = a /\ f.id = c
    BY DEF Frames
  <2>b. \A g \in Members(inbox) : g.id # c
    BY <1>t, <1>17 DEF HaHandle, ExecInv, InboxInv
  <2>c. /\ Members(inbox') \subseteq Members(inbox) \union {f}
        /\ OneAnswerEach(inbox')
    BY <1>t, <1>17, <2>a, <2>b, AppendMembers, AppendAnswer DEF HaHandle, InboxInv
  <2> HIDE DEF f
  <2>1. IdsInv'
    BY <1>17, <2>a, <2>b, <2>c DEF IdsInv, Early, HaHandle
  <2>2. QueueInv'
    BY <1>17, <2>a, <2>b, <2>c DEF QueueInv, IdsInv, Early, HaHandle
  <2>3. CurrentInv'
    BY <1>17, <2>a, <2>b, <2>c DEF CurrentInv, QueueInv, IdsInv, Early,
       HaHandle
  <2>4. ExecInv'
    BY <1>17, <2>a, <2>b, <2>c DEF ExecInv, CurrentInv, HaHandle
  <2>5. InboxInv'
    BY <1>17, <2>a, <2>b, <2>c DEF InboxInv, ExecInv, IdsInv, Early, HaHandle
  <2>6. RouteInv'
    BY <1>17, <2>a, <2>b, <2>c DEF RouteInv, CurrentInv, InboxInv, ExecInv,
       HaHandle
  <2>7. SubsInv'
    BY <1>17, <2>a, <2>b, <2>c DEF SubsInv, CurrentInv, ExecInv, IdsInv,
       Early, HaHandle
  <2>8. (SenderInv /\ EndedLoopIsSignalled)'
    BY <1>17 DEF SenderInv, EndedLoopIsSignalled, Early, HaHandle
  <2> QED
    BY <2>1, <2>2, <2>3, <2>4, <2>5, <2>6, <2>7, <2>8
<1>18. ASSUME NEW c \in Calls, HaEvent(c) PROVE Rest'
  <2> DEFINE f == [type |-> "event", id |-> c]
  <2>a. f \in Frames /\ f.type = "event" /\ f.id = c
    BY DEF Frames
  <2>b. /\ Members(inbox') = Members(inbox) \union {f}
        /\ OneAnswerEach(inbox')
    BY <1>t, <1>18, <2>a, AppendMembers, AppendAnswer DEF HaEvent, InboxInv
  <2> HIDE DEF f
  <2>1. InboxInv'
    BY <1>18, <2>a, <2>b DEF InboxInv, ExecInv, IdsInv, Early, HaEvent
  <2>2. RouteInv'
    BY <1>18, <2>a, <2>b DEF RouteInv, CurrentInv, InboxInv, ExecInv, HaEvent
  <2>3. (IdsInv /\ QueueInv /\ CurrentInv /\ ExecInv /\ SubsInv /\ SenderInv /\ EndedLoopIsSignalled)'
    BY <1>18 DEF IdsInv, QueueInv, CurrentInv, ExecInv, SubsInv, SenderInv,
       EndedLoopIsSignalled, Early, HaEvent
  <2> QED
    BY <2>1, <2>2, <2>3
<1>19. ASSUME NEW how \in {"closed", "broken"}, LoseConnection(how) PROVE Rest'
  BY <1>19 DEF IdsInv, QueueInv, CurrentInv, ExecInv, InboxInv, RouteInv,
     SubsInv, SenderInv, EndedLoopIsSignalled, Early, LoseConnection
<1>20. ASSUME UNCHANGED vars PROVE Rest'
  BY <1>20 DEF IdsInv, QueueInv, CurrentInv, ExecInv, InboxInv, RouteInv,
     SubsInv, SenderInv, EndedLoopIsSignalled, Early, vars
<1> HIDE DEF Rest
<1>21. Rest'
  BY <1>1, <1>2, <1>3, <1>4, <1>5, <1>6, <1>7, <1>8, <1>9, <1>10, <1>11, <1>12,
     <1>13, <1>14, <1>15, <1>16, <1>17, <1>18, <1>19, <1>20
  DEF Next, Caller, Writer, WriterAlone, Reader, Environment
<1> QED
  BY <1>t, <1>21 DEF IInv, Rest
-----------------------------------------------------------------------------
(* Theorems *)

\* The inductive invariant holds once connect() has returned.
LEMMA InitIInv == Init => IInv
<1> SUFFICES ASSUME Init PROVE IInv
  OBVIOUS
<1>1. TypeOK
  BY InitTypeOK
<1>2. Members(cmdQueue) = {} /\ Members(inbox) = {} /\ Distinct(cmdQueue) /\ OneAnswerEach(inbox)
  BY EmptyMembers DEF Init
<1>3. IdsInv /\ QueueInv /\ CurrentInv /\ ExecInv
  BY <1>2 DEF Init, IdsInv, QueueInv, CurrentInv, ExecInv
<1>4. InboxInv /\ RouteInv /\ SubsInv /\ SenderInv /\ EndedLoopIsSignalled
  BY <1>2 DEF Init, InboxInv, RouteInv, SubsInv, SenderInv, EndedLoopIsSignalled
<1> QED
  BY <1>1, <1>3, <1>4 DEF IInv

\* The inductive invariant: ids are drawn once, the command queue, the writer's
\* hands, the wire and the inbox hold each call at most once between them, and the
\* maps hold what is still to be answered.
THEOREM Inductive == Spec => []IInv
BY InitIInv, NextIInv, PTL DEF Spec

\* While the reader runs, every answer on its way finds the caller it is for.
THEOREM AnswersFindTheirCallers == Spec => []ReplyFindsCaller
<1>1. IInv => ReplyFindsCaller
  <2> SUFFICES ASSUME IInv, reader = "running", NEW k \in DOMAIN inbox, inbox[k].type # "event"
               PROVE  /\ inbox[k].id \in pending \/ stage[inbox[k].id] = "timeout"
                      /\ \A l \in DOMAIN inbox :
                            inbox[l].type # "event" /\ inbox[l].id = inbox[k].id => l = k
    BY DEF ReplyFindsCaller
  <2>1. inbox[k] \in Members(inbox)
    BY DEF Members
  <2>2. inbox[k].id \in pending
    BY <2>1 DEF IInv, RouteInv
  <2>3. OneAnswerEach(inbox)
    BY DEF IInv, InboxInv
  <2> QED
    BY <2>2, <2>3 DEF OneAnswerEach
<1> QED
  BY <1>1, Inductive, PTL

\* While the reader runs, the event sender of every event on its way is in the
\* `subscriptions` map.
THEOREM EventsFindTheirSubscriptions == Spec => []EventFindsSubscription
<1>1. IInv => EventFindsSubscription
  <2> SUFFICES ASSUME IInv, reader = "running", NEW k \in DOMAIN inbox, inbox[k].type = "event"
               PROVE  inbox[k].id \in subscriptions
    BY DEF EventFindsSubscription
  <2>1. inbox[k] \in Members(inbox)
    BY DEF Members
  <2>2. inbox[k].id \in accepted /\ kind[inbox[k].id] = "subscribe"
    BY <2>1 DEF IInv, InboxInv
  <2> QED
    BY <2>2 DEF IInv, SubsInv
<1> QED
  BY <1>1, Inductive, PTL

\* No caller waits on a reply sender that was forgotten.
THEOREM SendersAreHeld == Spec => []NoForgottenSender
<1>1. IInv => NoForgottenSender
  BY DEF IInv, SenderInv, NoForgottenSender, Queued, Members
<1> QED
  BY <1>1, Inductive, PTL

\* A loop that ended without being asked to has raised the signal.
THEOREM EndsAreSignalled == Spec => []EndedLoopIsSignalled
<1>1. IInv => EndedLoopIsSignalled
  BY DEF IInv
<1> QED
  BY <1>1, Inductive, PTL

-----------------------------------------------------------------------------
(* Refinement *)

\* The initial states are initial states of RequestReply.
LEMMA InitRefines == Init => Abstract!Init
BY DEF Init, Abstract!Init, Status

\* Every step of the client is a step of RequestReply or changes nothing of it.
LEMMA NextRefines == IInv /\ [Next]_vars => [Abstract!Next]_(Abstract!vars)
<1> SUFFICES ASSUME IInv, [Next]_vars
             PROVE  Abstract!Next \/ UNCHANGED Abstract!vars
  BY DEF Abstract!vars
<1> DEFINE status == [i \in Calls |-> Status(stage[i])]
<1>0. /\ Types
      /\ IdsInv /\ ExecInv
      /\ \A i \in wire : stage[i] # "unused"
  BY TypesOfTypeOK DEF IInv, IdsInv, Early, Types
\* A step of one call that leaves Home Assistant alone.
<1>s. ASSUME NEW c \in Calls, NEW s, stage' = [stage EXCEPT ![c] = s], UNCHANGED haVars
      PROVE  /\ status' = [status EXCEPT ![c] = Status(s)]
             /\ UNCHANGED <<executions, accepted>>
             /\ status[c] = Status(stage[c])
  BY <1>0, <1>s DEF Types, Status, haVars
\* A step that leaves the calls and Home Assistant's record of them alone.
<1>u. ASSUME UNCHANGED <<stage, executions, accepted>> PROVE UNCHANGED Abstract!vars
  BY <1>u DEF Abstract!vars, Status
<1>1. ASSUME NEW k \in Kinds, Begin(k) PROVE Abstract!Next
  <2>1. nextId \in Calls /\ stage[nextId] = "unused"
    BY <1>0, <1>1, ConstantsAssumption DEF Begin, IdsInv, Calls
  <2>2. Abstract!Begin(nextId)
    BY <1>1, <1>s, <2>1 DEF Begin, Abstract!Begin, Status, InProgress
  <2> QED
    BY <2>1, <2>2 DEF Abstract!Next
<1>2. ASSUME NEW c \in Calls, Enqueue(c) PROVE UNCHANGED Abstract!vars
  <2>1. status' = [status EXCEPT ![c] = "open"] /\ status[c] = "open"
    BY <1>2, <1>s DEF Enqueue, Status, InProgress
  <2>2. status' = status
    BY <2>1
  <2> QED
    BY <1>2, <2>2 DEF Enqueue, haVars, Abstract!vars
<1>3. ASSUME NEW c \in Calls, Refused(c) \/ Timeout(c) PROVE Abstract!Next
  <2>1. Abstract!Fail(c)
    BY <1>3, <1>s DEF Refused, Timeout, Abstract!Fail, Status, InProgress
  <2> QED
    BY <2>1 DEF Abstract!Next
<1>4. ASSUME NEW c \in Calls, Receive(c) PROVE Abstract!Next
  <2>1. CASE reply[c] = "ok"
    <3>1. Outcome(kind[c], reply[c]) = "ok" /\ c \in accepted
      BY <1>0, <2>1 DEF Outcome, ExecInv
    <3>2. Abstract!Succeed(c)
      BY <1>4, <1>s, <3>1 DEF Receive, Abstract!Succeed, Status, InProgress
    <3> QED
      BY <3>2 DEF Abstract!Next
  <2>2. CASE reply[c] # "ok"
    <3>1. Outcome(kind[c], reply[c]) \in Returned \ {"ok"}
      BY <1>0, <1>4, <2>2 DEF Types, Receive, Outcome, Returned, Replies, Kinds
    <3>2. Status(Outcome(kind[c], reply[c])) = "failed"
      BY <3>1 DEF Status, Returned, InProgress
    <3>3. Abstract!Fail(c)
      BY <1>4, <1>s, <3>2 DEF Receive, Abstract!Fail, Status, InProgress
    <3> QED
      BY <3>3 DEF Abstract!Next
  <2> QED
    BY <2>1, <2>2
<1>5. ASSUME NEW c \in Calls, NEW a \in {"ok", "rejected", "too_large"}, HaHandle(c, a)
      PROVE  Abstract!Next
  <2>1. stage[c] # "unused" /\ executions[c] = 0
    BY <1>0, <1>5 DEF HaHandle, ExecInv
  <2>2. status[c] # "unused" /\ status' = status
    BY <1>5, <2>1 DEF HaHandle, callVars, Status, InProgress
  <2>3. /\ executions' = [executions EXCEPT ![c] = 1]
        /\ accepted' \in {accepted, accepted \union {c}}
    BY <1>5, <2>1, <1>0 DEF HaHandle, Types
  <2>4. Abstract!Execute(c)
    BY <2>1, <2>2, <2>3 DEF Abstract!Execute
  <2> QED
    BY <2>4 DEF Abstract!Next
<1>6. ASSUME \/ DropClient \/ Writer \/ Reader
             \/ \E i \in Calls : HaEvent(i)
             \/ \E how \in {"closed", "broken"} : LoseConnection(how)
             \/ UNCHANGED vars
      PROVE  UNCHANGED <<stage, executions, accepted>>
  BY <1>6 DEF DropClient, Writer, WriterAlone, Reader, HaEvent, LoseConnection, WriterRegister, WriterSent,
              WriterSendFailed, WriterBail, WriterFinish, ReadResult, ReadEvent, ReaderClosed,
              ReaderDrain, ReaderBail, vars, callVars, haVars
<1> QED
  BY <1>1, <1>2, <1>3, <1>4, <1>5, <1>6, <1>u DEF Next, Caller, Environment

\* The client implements RequestReply: a call returns once, its command is
\* carried out at most once, and it succeeds only if its command was accepted.
THEOREM Refinement == Spec => ImplementsRequestReply
BY InitRefines, NextRefines, Inductive, PTL DEF Spec, ImplementsRequestReply, Abstract!Spec
=============================================================================
