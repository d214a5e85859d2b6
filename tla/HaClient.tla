------------------------------ MODULE HaClient ------------------------------
(***************************************************************************)
(* The Home Assistant WebSocket client (crates/signal-ha/src/client.rs)    *)
(* after connect() has authenticated.  Any number of tasks call it; every  *)
(* call takes an id from one shared counter, puts a command on a bounded   *)
(* channel and waits on a one-shot reply channel.  A writer task registers *)
(* the reply sender in the `pending` map and writes the command; a reader  *)
(* task routes results to `pending` and events to `subscriptions`.  Either *)
(* task may end at any time when the connection fails, and a sticky signal *)
(* tells the automations that it did.                                      *)
(*                                                                         *)
(* A call is identified with the id it drew.  Home Assistant and the       *)
(* transport are external: commands may be answered in any order or never, *)
(* an answer may exceed the frame limit, the connection may be closed by   *)
(* the peer or break.                                                      *)
(***************************************************************************)
EXTENDS Naturals, Sequences

CONSTANTS
    MaxCalls,       \* calls made in a behaviour (bound; the counter is a u64)
    QueueCap,       \* capacity of the command channel (64 in the code)
    InboxBound      \* frames in flight towards the client (bound)

ASSUME ConstantsAssumption ==
    /\ MaxCalls \in Nat \ {0}
    /\ QueueCap \in Nat \ {0}
    /\ InboxBound \in Nat \ {0}

Calls == 1..MaxCalls
Kinds == {"request", "subscribe"}

VARIABLES
    nextId,         \* AtomicU64 shared by all clones of the client
    kind,           \* which sort of call drew the id
    stage,          \* progress of the call, then what it returned
    reply,          \* the call's one-shot reply channel
    handles,        \* some clone of the HaClient is alive
    cmdQueue,       \* commands in the mpsc channel
    writer,         \* progress of writer_loop
    current,        \* the command the writer holds
    reader,         \* progress of reader_loop
    pending,        \* ids whose reply sender is in the `pending` map
    subscriptions,  \* ids whose event sender is in the `subscriptions` map
    disconnected,   \* the sticky watch channel
    conn,           \* the transport
    inbox,          \* frames sent by Home Assistant and not yet read
    wire,           \* commands written and not yet handled by Home Assistant
    lastSent,       \* id of the command written last
    executions,     \* how often Home Assistant carried a command out
    accepted        \* commands Home Assistant carried out and accepted

callVars == <<nextId, kind, stage>>
loopVars == <<writer, current, reader, disconnected>>
mapVars == <<pending, subscriptions>>
haVars == <<conn, inbox, wire, lastSent, executions, accepted>>
vars == <<callVars, reply, handles, cmdQueue, loopVars, mapVars, haVars>>

InProgress == {"sending", "waiting"}
Returned == {"ok", "rejected", "timeout", "closed", "too_large", "internal"}
Replies == {"open", "ok", "rejected", "lost", "too_large", "dropped"}
Frames == [type : {"ok", "rejected", "too_large", "event"}, id : Calls]

TypeOK ==
    /\ nextId \in 1..(MaxCalls + 1)
    /\ kind \in [Calls -> Kinds]
    /\ stage \in [Calls -> {"unused"} \union InProgress \union Returned]
    /\ reply \in [Calls -> Replies]
    /\ handles \in BOOLEAN
    /\ cmdQueue \in Seq(Calls)
    /\ writer \in {"idle", "sending", "failing", "ended"}
    /\ current \in {0} \union Calls
    /\ writer = "sending" => current \in Calls
    /\ reader \in {"running", "failing", "ended"}
    /\ pending \subseteq Calls
    /\ subscriptions \subseteq Calls
    /\ disconnected \in BOOLEAN
    /\ conn \in {"open", "closed", "broken"}
    /\ inbox \in Seq(Frames)
    /\ wire \subseteq Calls
    /\ lastSent \in {0} \union Calls
    /\ executions \in [Calls -> Nat]
    /\ accepted \subseteq Calls

Init ==
    /\ nextId = 1
    /\ kind = [i \in Calls |-> "request"]
    /\ stage = [i \in Calls |-> "unused"]
    /\ reply = [i \in Calls |-> "open"]
    /\ handles = TRUE
    /\ cmdQueue = << >>
    /\ writer = "idle"
    /\ current = 0
    /\ reader = "running"
    /\ pending = {}
    /\ subscriptions = {}
    /\ disconnected = FALSE
    /\ conn = "open"
    /\ inbox = << >>
    /\ wire = {}
    /\ lastSent = 0
    /\ executions = [i \in Calls |-> 0]
    /\ accepted = {}

-----------------------------------------------------------------------------
(* Reply channels *)

Queued == {cmdQueue[k] : k \in DOMAIN cmdQueue}

\* A one-shot sender in S that was never used is dropped.
Dropped(S) == [i \in Calls |-> IF i \in S /\ reply[i] = "open" THEN "dropped" ELSE reply[i]]

\* The reader holds the mutex of `pending` from draining it until it returns.
PendingUnlocked == reader # "failing"

-----------------------------------------------------------------------------
(* The calling tasks *)

\* A call draws its id, then awaits a slot in the command channel.
Begin(k) ==
    /\ handles
    /\ nextId \in Calls
    /\ nextId' = nextId + 1
    /\ kind' = [kind EXCEPT ![nextId] = k]
    /\ stage' = [stage EXCEPT ![nextId] = "sending"]
    /\ UNCHANGED <<reply, handles, cmdQueue, loopVars, mapVars, haVars>>

Enqueue(i) ==
    /\ stage[i] = "sending"
    /\ writer # "ended"
    /\ Len(cmdQueue) < QueueCap
    /\ cmdQueue' = Append(cmdQueue, i)
    /\ stage' = [stage EXCEPT ![i] = "waiting"]
    /\ UNCHANGED <<nextId, kind, reply, handles, loopVars, mapVars, haVars>>

\* The receiving end of the command channel is gone: ConnectionClosed.
Refused(i) ==
    /\ stage[i] = "sending"
    /\ writer = "ended"
    /\ stage' = [stage EXCEPT ![i] = "closed"]
    /\ UNCHANGED <<nextId, kind, reply, handles, cmdQueue, loopVars, mapVars, haVars>>

\* Mutation: the reply is handed on as it came.
OutcomeUnmapped(k, r) == r

\* What a call makes of its reply.  send_and_wait recognises the marker the
\* reader injects on a fatal error; the subscribe calls do not, and take it for
\* a rejection because it has no "success" field.
Outcome(k, r) ==
    IF r \in {"ok", "rejected"} THEN r
    ELSE IF k = "subscribe" THEN IF r = "dropped" THEN "internal" ELSE "rejected"
    ELSE IF r = "too_large" THEN r ELSE "closed"

Receive(i) ==
    /\ stage[i] = "waiting"
    /\ reply[i] # "open"
    /\ stage' = [stage EXCEPT ![i] = Outcome(kind[i], reply[i])]
    /\ UNCHANGED <<nextId, kind, reply, handles, cmdQueue, loopVars, mapVars, haVars>>

\* Mutation: requests wait without a limit, as subscriptions do.
TimeoutNever(i) == i \notin Calls /\ UNCHANGED vars

\* Only requests carry a timeout.  It covers the wait for the reply, and leaves
\* the entry of the call in `pending`.
Timeout(i) ==
    /\ stage[i] = "waiting"
    /\ kind[i] = "request"
    /\ reply[i] = "open"
    /\ stage' = [stage EXCEPT ![i] = "timeout"]
    /\ UNCHANGED <<nextId, kind, reply, handles, cmdQueue, loopVars, mapVars, haVars>>

\* The last clone of the client is dropped; a call in progress borrows one.
DropClient ==
    /\ handles
    /\ \A i \in Calls : stage[i] \notin InProgress
    /\ handles' = FALSE
    /\ UNCHANGED <<callVars, reply, cmdQueue, loopVars, mapVars, haVars>>

-----------------------------------------------------------------------------
(* writer_loop *)

\* Mutation: one arm of the match forgets to insert the event sender.
WriterRegisterNoEvents ==
    /\ writer = "idle"
    /\ cmdQueue # << >>
    /\ PendingUnlocked
    /\ current' = Head(cmdQueue)
    /\ cmdQueue' = Tail(cmdQueue)
    /\ pending' = pending \union {current'}
    /\ writer' = "sending"
    /\ UNCHANGED <<callVars, reply, handles, reader, disconnected, subscriptions, haVars>>

\* Receives a command and registers its reply sender, and its event sender if
\* it is a subscription, before anything is written.  The two maps have a mutex
\* each; nothing can tell the two insertions apart, since nothing refers to the
\* id before it is written.
WriterRegister ==
    /\ writer = "idle"
    /\ cmdQueue # << >>
    /\ PendingUnlocked
    /\ current' = Head(cmdQueue)
    /\ cmdQueue' = Tail(cmdQueue)
    /\ pending' = pending \union {current'}
    /\ subscriptions' = IF kind[current'] = "subscribe"
                        THEN subscriptions \union {current'} ELSE subscriptions
    /\ writer' = "sending"
    /\ UNCHANGED <<callVars, reply, handles, reader, disconnected, haVars>>

\* The reader has taken the close frame; the transport refuses to write from then on.
CloseTaken == conn = "closed" /\ reader = "ended" /\ inbox = << >>

\* The transport takes the command.  On a lost connection it may still do so,
\* and the command goes nowhere.  It may also take for ever: the write has no
\* timeout, and a peer that stops reading holds it up.
WriterSent ==
    /\ writer = "sending"
    /\ ~CloseTaken
    /\ wire' = IF conn = "open" THEN wire \union {current} ELSE wire
    /\ lastSent' = current
    /\ current' = 0
    /\ writer' = "idle"
    /\ UNCHANGED <<callVars, reply, handles, cmdQueue, reader, disconnected, mapVars,
                   conn, inbox, executions, accepted>>

\* The write fails: the entries of the command are removed, which drops its
\* reply sender.
WriterSendFailed ==
    /\ writer = "sending"
    /\ conn # "open"
    /\ PendingUnlocked
    /\ reply' = Dropped({current} \intersect pending)
    /\ pending' = pending \ {current}
    /\ subscriptions' = subscriptions \ {current}
    /\ writer' = "failing"
    /\ current' = 0
    /\ UNCHANGED <<callVars, handles, cmdQueue, reader, disconnected, haVars>>

\* Mutation: the client itself also holds the maps (say, to clear an entry when a
\* request times out), so they outlive both loops.
WriterGoneMapsKept ==
    /\ writer' = "ended"
    /\ cmdQueue' = << >>
    /\ reply' = Dropped(Queued)
    /\ UNCHANGED mapVars

\* What goes when writer_loop returns: the command receiver with the commands
\* still queued and, if the reader has returned too, both maps.
WriterGone ==
    /\ writer' = "ended"
    /\ cmdQueue' = << >>
    /\ IF reader = "ended"
       THEN /\ reply' = Dropped(Queued \union pending)
            /\ pending' = {}
            /\ subscriptions' = {}
       ELSE /\ reply' = Dropped(Queued)
            /\ UNCHANGED mapVars

\* Mutation: the writer stops without raising the signal.
WriterBailSilent ==
    /\ writer = "failing"
    /\ WriterGone
    /\ UNCHANGED <<callVars, handles, current, reader, disconnected, haVars>>

WriterBail ==
    /\ writer = "failing"
    /\ disconnected' = TRUE
    /\ WriterGone
    /\ UNCHANGED <<callVars, handles, current, reader, haVars>>

\* recv() yields None: every sender is gone and the channel is empty.
WriterFinish ==
    /\ writer = "idle"
    /\ ~handles
    /\ cmdQueue = << >>
    /\ WriterGone
    /\ UNCHANGED <<callVars, handles, current, reader, disconnected, haVars>>

-----------------------------------------------------------------------------
(* reader_loop *)

\* Mutation: results are matched to the calls in the order they were made.
ReadResultInOrder ==
    /\ reader = "running"
    /\ inbox # << >>
    /\ Head(inbox).type \in {"ok", "rejected"}
    /\ pending # {}
    /\ \E i \in pending :
        /\ \A j \in pending : i <= j
        /\ pending' = pending \ {i}
        /\ reply' = [reply EXCEPT ![i] = Head(inbox).type]
    /\ inbox' = Tail(inbox)
    /\ UNCHANGED <<callVars, handles, cmdQueue, loopVars, subscriptions,
                   conn, wire, lastSent, executions, accepted>>

\* A result goes to the call that is registered under its id, if any.
ReadResult ==
    /\ reader = "running"
    /\ inbox # << >>
    /\ Head(inbox).type \in {"ok", "rejected"}
    /\ LET i == Head(inbox).id IN
       /\ pending' = pending \ {i}
       /\ reply' = IF i \in pending THEN [reply EXCEPT ![i] = Head(inbox).type] ELSE reply
    /\ inbox' = Tail(inbox)
    /\ UNCHANGED <<callVars, handles, cmdQueue, loopVars, subscriptions,
                   conn, wire, lastSent, executions, accepted>>

\* An event goes to the broadcast channel of its subscription, if any.
ReadEvent ==
    /\ reader = "running"
    /\ inbox # << >>
    /\ Head(inbox).type = "event"
    /\ inbox' = Tail(inbox)
    /\ UNCHANGED <<callVars, reply, handles, cmdQueue, loopVars, mapVars,
                   conn, wire, lastSent, executions, accepted>>

\* Mutation: as WriterGoneMapsKept, for the reader.
ReaderGoneMapsKept ==
    /\ reader' = "ended"
    /\ UNCHANGED <<reply, mapVars>>

\* What goes when reader_loop returns: its share of both maps.
ReaderGone ==
    /\ reader' = "ended"
    /\ IF writer = "ended"
       THEN /\ reply' = Dropped(pending)
            /\ pending' = {}
            /\ subscriptions' = {}
       ELSE UNCHANGED <<reply, mapVars>>

\* Mutation: only errors raise the signal.
ReaderClosedSilent ==
    /\ reader = "running"
    /\ conn = "closed"
    /\ inbox = << >>
    /\ ReaderGone
    /\ UNCHANGED <<callVars, handles, cmdQueue, writer, current, disconnected, haVars>>

\* A close frame, or the end of the stream: nothing is drained.
ReaderClosed ==
    /\ reader = "running"
    /\ conn = "closed"
    /\ inbox = << >>
    /\ disconnected' = TRUE
    /\ ReaderGone
    /\ UNCHANGED <<callVars, handles, cmdQueue, writer, current, haVars>>

\* A transport error or a frame over the size limit: every registered call is
\* sent an error marker.
ReaderDrain(marker) ==
    /\ reader = "running"
    /\ \/ marker = "lost" /\ conn = "broken"
       \/ marker = "too_large" /\ inbox # << >> /\ Head(inbox).type = "too_large"
    /\ reply' = [i \in Calls |-> IF i \in pending THEN marker ELSE reply[i]]
    /\ pending' = {}
    /\ reader' = "failing"
    /\ UNCHANGED <<callVars, handles, cmdQueue, writer, current, disconnected,
                   subscriptions, haVars>>

\* Mutation: the reader reports the oversized frame and reads on.
ReaderBailReadsOn ==
    /\ reader = "failing"
    /\ conn = "open"
    /\ inbox # << >>
    /\ reader' = "running"
    /\ inbox' = Tail(inbox)
    /\ UNCHANGED <<callVars, reply, handles, cmdQueue, writer, current, disconnected,
                   mapVars, conn, wire, lastSent, executions, accepted>>

\* Mutation: the reader drains the callers and raises no signal.
ReaderBailSilent ==
    /\ reader = "failing"
    /\ ReaderGone
    /\ UNCHANGED <<callVars, handles, cmdQueue, writer, current, disconnected, haVars>>

ReaderBail ==
    /\ reader = "failing"
    /\ disconnected' = TRUE
    /\ ReaderGone
    /\ UNCHANGED <<callVars, handles, cmdQueue, writer, current, haVars>>

-----------------------------------------------------------------------------
(* Home Assistant and the transport: external *)

\* Home Assistant carries a command out.  Its answer reaches the client only
\* over an open connection.
HaHandle(i, answer) ==
    /\ i \in wire
    /\ answer = "too_large" => kind[i] = "request"
    /\ Len(inbox) < InboxBound
    /\ wire' = wire \ {i}
    /\ executions' = [executions EXCEPT ![i] = @ + 1]
    /\ accepted' = IF answer = "rejected" THEN accepted ELSE accepted \union {i}
    /\ inbox' = IF conn = "open" THEN Append(inbox, [type |-> answer, id |-> i]) ELSE inbox
    /\ UNCHANGED <<callVars, reply, handles, cmdQueue, loopVars, mapVars, conn, lastSent>>

HaEvent(i) ==
    /\ conn = "open"
    /\ i \in accepted
    /\ kind[i] = "subscribe"
    /\ Len(inbox) < InboxBound
    /\ inbox' = Append(inbox, [type |-> "event", id |-> i])
    /\ UNCHANGED <<callVars, reply, handles, cmdQueue, loopVars, mapVars,
                   conn, wire, lastSent, executions, accepted>>

LoseConnection(how) ==
    /\ conn = "open"
    /\ conn' = how
    /\ UNCHANGED <<callVars, reply, handles, cmdQueue, loopVars, mapVars,
                   inbox, wire, lastSent, executions, accepted>>

-----------------------------------------------------------------------------
\* The steps of the writer that need nobody to read what it writes.
WriterAlone == WriterRegister \/ WriterSendFailed \/ WriterBail \/ WriterFinish
Writer == WriterAlone \/ WriterSent
Reader == ReadResult \/ ReadEvent \/ ReaderClosed \/ ReaderBail
             \/ \E m \in {"lost", "too_large"} : ReaderDrain(m)
Caller(i) == Enqueue(i) \/ Refused(i) \/ Receive(i) \/ Timeout(i)
Environment ==
    \/ \E i \in Calls, a \in {"ok", "rejected", "too_large"} : HaHandle(i, a)
    \/ \E i \in Calls : HaEvent(i)
    \/ \E how \in {"closed", "broken"} : LoseConnection(how)

Next ==
    \/ \E k \in Kinds : Begin(k)
    \/ \E i \in Calls : Caller(i)
    \/ DropClient
    \/ Writer
    \/ Reader
    \/ Environment

Spec == Init /\ [][Next]_vars

\* The runtime polls both loops and every woken task, timers fire, and permits of
\* the command channel are handed out in arrival order, so a waiting sender is
\* not overtaken for ever.  A write over a lost connection fails if it is not taken.
\* Nothing is assumed of Home Assistant, not even that it reads.
Fairness ==
    /\ WF_vars(WriterAlone)
    /\ WF_vars(Reader)
    /\ \A i \in Calls :
          /\ SF_vars(Enqueue(i))
          /\ WF_vars(Refused(i))
          /\ WF_vars(Receive(i))
          /\ WF_vars(Timeout(i))

FairSpec == Spec /\ Fairness

-----------------------------------------------------------------------------
(* Properties *)

\* While the reader runs, every answer on its way finds the caller it is for,
\* unless that caller gave up: a call is registered before it is written, only
\* its own answer removes it, and no id is answered twice (writer_loop,
\* reader_loop).
ReplyFindsCaller ==
    reader = "running" =>
        \A k \in DOMAIN inbox :
            inbox[k].type # "event" =>
                /\ inbox[k].id \in pending \/ stage[inbox[k].id] = "timeout"
                /\ \A l \in DOMAIN inbox :
                      inbox[l].type # "event" /\ inbox[l].id = inbox[k].id => l = k

\* No event is lost for want of its subscription: while the reader runs, the
\* event sender of every event on its way is in the map (writer_loop).
EventFindsSubscription ==
    reader = "running" =>
        \A k \in DOMAIN inbox : inbox[k].type = "event" => inbox[k].id \in subscriptions

\* The sender half of an unused reply channel is always somewhere it can still
\* be used or dropped from: in the channel, or in the map of a running loop.  A
\* caller is never left waiting on a sender that was forgotten.
NoForgottenSender ==
    \A i \in Calls :
        stage[i] = "waiting" /\ reply[i] = "open" =>
            \/ i \in Queued /\ writer # "ended"
            \/ i \in pending /\ (writer # "ended" \/ reader # "ended")

\* The end of a loop that the last handle did not ask for is signalled by the
\* time the loop is gone, whichever of the two it is and however it ended.
EndedLoopIsSignalled ==
    (reader = "ended" \/ (writer = "ended" /\ handles)) => disconnected

\* Every call behaves as RequestReply promises: it returns once, its command is
\* carried out at most once, and it reports success only if Home Assistant
\* accepted that very command.
Status(s) ==
    IF s = "unused" THEN s
    ELSE IF s \in InProgress THEN "open"
    ELSE IF s = "ok" THEN "succeeded" ELSE "failed"

Abstract == INSTANCE RequestReply WITH status <- [i \in Calls |-> Status(stage[i])]

ImplementsRequestReply == Abstract!Spec

\* Every request that has its place in the command channel returns, even if Home
\* Assistant never answers or stops reading.  One that waits for a place has no
\* timeout yet: it returns unless a write is held up for ever (send_and_wait).
RequestsReturn ==
    \A i \in Calls :
        /\ (kind[i] = "request" /\ stage[i] = "waiting") ~> stage[i] \in Returned
        /\ \/ <>[](writer = "sending")
           \/ (kind[i] = "request" /\ stage[i] = "sending") ~> stage[i] \in Returned

\* A subscription has no timeout; it still returns once both loops are gone,
\* because the maps that hold its reply sender go with them.
SubscribersReleased ==
    \A i \in Calls :
        (stage[i] = "waiting" /\ reader = "ended" /\ writer = "ended")
            ~> stage[i] \in Returned

\* A lost connection is signalled even if nobody calls the client again.
LossIsSignalled == (conn # "open") ~> disconnected

\* Ids appear on the connection in increasing order.  The counter increases, but
\* a task may draw an id and be overtaken on the way to the command channel.
IdsIncreaseOnTheWire == [][lastSent' > lastSent]_lastSent

\* A call that was written before the peer closed the connection and is not
\* answered returns, so that its task gets back to its select! and sees the signal.
CallsReturnAfterClose ==
    \A i \in Calls :
        (stage[i] = "waiting" /\ i \in wire /\ conn = "closed" /\ disconnected)
            ~> stage[i] \in Returned
=============================================================================
