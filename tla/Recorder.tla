------------------------------ MODULE Recorder ------------------------------
(***************************************************************************)
(* The recorder process (crates/signal-ha-recorder/src/recorder.rs,        *)
(* filter.rs) between Home Assistant and its store: it fills in the        *)
(* current states, fetches the list of entities, subscribes to those that  *)
(* match the filter, and then polls one bounded broadcast channel per      *)
(* entity for good.                                                        *)
(*                                                                         *)
(* A broadcast channel drops its oldest message when it is full and tells  *)
(* the receiver at the next poll how many it has missed.  The order of the *)
(* list that Home Assistant returns is any order.                          *)
(***************************************************************************)
EXTENDS MysqlStore

CONSTANTS
    Spelling,       \* the characters of an entity id
    Patterns,       \* the patterns of the filter, as characters
    Capacity,       \* of a broadcast channel: 64
    MaxChanges,     \* changes in Home Assistant (bound)
    MaxErrors,      \* writes that fail (bound)
    MaxStarts       \* runs of the process (bound)

\* broadcast::channel() panics without a place.
ASSUME RecorderAssumption == Capacity \in Nat \ {0}

VARIABLES
    shown,          \* what Home Assistant shows of an entity, none or some
    open,           \* is the connection up
    pc,             \* where the process is
    todo,           \* entities not yet filled in or subscribed to
    channel,        \* what waits in the channel of each subscribed entity
    missed,         \* how many messages its receiver has missed since its last poll
    stats,          \* RecorderStats
    seen,           \* entities_seen
    arrived,        \* changes that went into a channel of this process
    removed,        \* of these, removals of entities that were polled
    told,           \* the newest change that went into the channel of each entity
    budget          \* changes, errors and starts that are left (bounds)

recorderVars == <<shown, open, pc, todo, channel, missed, stats, seen, arrived, removed,
                  told, budget>>

-----------------------------------------------------------------------------
(* filter.rs *)

Star == "*"
StarsIn(p) ==
    LET places == {i \in DOMAIN p : p[i] = Star} IN
    CHOOSE seq \in [1..Cardinality(places) -> places] :
        \A i, j \in DOMAIN seq : i < j => seq[i] < seq[j]

\* pattern.split('*'): the parts 0 to n of a pattern with n stars.
Part(p, k) ==
    LET stars == << 0 >> \o StarsIn(p) \o << Len(p) + 1 >>
    IN  SubSeq(p, stars[k + 1] + 1, stars[k + 2] - 1)

\* Where part occurs in text from pos on: find() takes the first place.
Occurs(part, text, pos) ==
    {i \in pos..(Len(text) - Len(part)) : SubSeq(text, i + 1, i + Len(part)) = part}

\* Mutant: start and end may overlap.
EndsOverlap(p, n, text) == IsPrefix(Part(p, 0), text) /\ IsSuffix(Part(p, n), text)

Ends(p, n, text) ==
    /\ IsPrefix(Part(p, 0), text)
    /\ IsSuffix(Part(p, n), text)
    /\ Len(Part(p, 0)) + Len(Part(p, n)) <= Len(text)

\* The last part is compared with the end of the text before the parts in the
\* middle are looked for, which may thus take characters of it.
GlobMatch(p, text) ==
    LET n == Len(StarsIn(p))
        pos[k \in 0..n] ==     \* none, or how far the first parts reach
            IF k = 0 THEN {Len(Part(p, 0))}
            ELSE UNION {LET places == Occurs(Part(p, k), text, i) IN
                        IF places = {} THEN {} ELSE {Min(places) + Len(Part(p, k))}
                        : i \in pos[k - 1]}
    IN  IF n = 0 THEN p = text ELSE Ends(p, n, text) /\ pos[n - 1] # {}

Matches(e) == \E p \in Patterns : GlobMatch(p, Spelling[e])

-----------------------------------------------------------------------------
(* Home Assistant (external) *)

NoStats == [written |-> 0, skipped |-> 0, errors |-> 0, entities |-> 0]
Shows(s, since) == {[state |-> s, since |-> since]}

RecorderInit ==
    /\ shown \in [Entities -> {Shows(s, 0) : s \in States}]
    /\ open = TRUE
    /\ pc = "down"
    /\ todo = {}
    /\ channel = << >>
    /\ missed = << >>
    /\ stats = NoStats
    /\ seen = {}
    /\ arrived = 0
    /\ removed = 0
    /\ told = << >>
    /\ budget = [changes |-> MaxChanges, errors |-> MaxErrors, starts |-> MaxStarts]

\* Mutant: a full channel grows.
DeliverUnbounded(e, message) ==
    IF open /\ e \in DOMAIN channel
    THEN /\ arrived' = arrived + 1
         /\ told' = [told EXCEPT ![e] = message]
         /\ channel' = [channel EXCEPT ![e] = Append(@, message)]
         /\ UNCHANGED missed
    ELSE UNCHANGED <<channel, missed, arrived, told>>

\* Mutant: a full channel drops the newest.
DeliverDropsNewest(e, message) ==
    IF open /\ e \in DOMAIN channel
    THEN /\ arrived' = arrived + 1
         /\ told' = [told EXCEPT ![e] = message]
         /\ IF Len(channel[e]) < Capacity
            THEN /\ channel' = [channel EXCEPT ![e] = Append(@, message)]
                 /\ UNCHANGED missed
            ELSE /\ missed' = [missed EXCEPT ![e] = @ + 1]
                 /\ UNCHANGED channel
    ELSE UNCHANGED <<channel, missed, arrived, told>>

\* The reader puts a change into the channel of a subscribed entity.
Deliver(e, message) ==
    IF open /\ e \in DOMAIN channel
    THEN /\ arrived' = arrived + 1
         /\ told' = [told EXCEPT ![e] = message]
         /\ IF Len(channel[e]) < Capacity
            THEN /\ channel' = [channel EXCEPT ![e] = Append(@, message)]
                 /\ UNCHANGED missed
            ELSE /\ channel' = [channel EXCEPT ![e] = Append(Tail(@), message)]
                 /\ missed' = [missed EXCEPT ![e] = @ + 1]
    ELSE UNCHANGED <<channel, missed, arrived, told>>

\* Another state, other attributes in the same state, or the entity is gone.
Change(e) ==
    /\ budget.changes > 0
    /\ budget' = [budget EXCEPT !.changes = @ - 1]
    /\ \E now \in {Shows(s, clock) : s \in States \ {r.state : r \in shown[e]}}
                    \union {shown[e], {}} :
          /\ now # {} \/ shown[e] # {}
          /\ shown' = [shown EXCEPT ![e] = now]
          /\ Deliver(e, now)
    /\ UNCHANGED <<storeVars, open, pc, todo, stats, seen, removed>>

Lose ==
    /\ open /\ pc # "down"
    /\ open' = FALSE
    /\ UNCHANGED <<storeVars, shown, pc, todo, channel, missed, stats, seen, arrived, removed,
                   told, budget>>

-----------------------------------------------------------------------------
(* The process *)

\* A process that is started anew, with the backfill that the documentation asks
\* for on startup, or without it.
Start ==
    /\ pc = "down" /\ budget.starts > 0
    /\ budget' = [budget EXCEPT !.starts = @ - 1]
    /\ open' = TRUE
    /\ \/ pc' = "backfill" /\ todo' = Entities
       \/ pc' = "fetch" /\ todo' = {}
    /\ UNCHANGED <<storeVars, shown, channel, missed, stats, seen, arrived, removed, told>>

Forget ==
    /\ pc' = "down" /\ todo' = {}
    /\ channel' = << >> /\ missed' = << >>
    /\ stats' = NoStats /\ seen' = {}
    /\ arrived' = 0 /\ removed' = 0 /\ told' = << >>
    /\ UNCHANGED <<shown, open, budget>>

\* A crash at any point.  A rotation of the same process ends with it.
Crash ==
    /\ pc # "down"
    /\ Forget
    /\ IF Unlocked THEN UNCHANGED storeVars ELSE RotationEnds

\* The write of a row to the store: it is made, or it fails.
Stores(e, r) == Record(e, r.since, r.state)
Fails ==
    /\ Unlocked /\ budget.errors > 0
    /\ budget' = [budget EXCEPT !.errors = @ - 1]
    /\ UNCHANGED storeVars

\* backfill_current_states(): an entity that does not match or cannot be read is
\* left out; the first write that fails ends it, and the process with it.
Backfill(e) ==
    /\ pc = "backfill" /\ e \in todo
    /\ \/ /\ todo' = todo \ {e}
          /\ IF Matches(e) /\ open /\ shown[e] # {}
             THEN \E r \in shown[e] : Stores(e, r)
             ELSE UNCHANGED storeVars
          /\ UNCHANGED <<shown, open, pc, channel, missed, stats, seen, arrived, removed, told,
                   budget>>
       \/ /\ Matches(e) /\ open /\ shown[e] # {}
          /\ budget.errors > 0 /\ Unlocked
          /\ Forget
          /\ UNCHANGED storeVars

BackfillEnds ==
    /\ pc = "backfill" /\ todo = {}
    /\ pc' = "fetch"
    /\ UNCHANGED <<storeVars, shown, open, todo, channel, missed, stats, seen, arrived, removed,
                   told, budget>>

\* get_states: run() returns if the connection is lost and waits for good if no
\* entity matches.
Fetch ==
    LET matching == {e \in Entities : shown[e] # {} /\ Matches(e)} IN
    /\ pc = "fetch"
    /\ IF open
       THEN /\ pc' = IF matching = {} THEN "idle" ELSE "subscribe"
            /\ todo' = matching
            /\ UNCHANGED <<shown, open, channel, missed, stats, seen, arrived, removed,
                           told, budget>>
       ELSE Forget
    /\ UNCHANGED storeVars

\* A subscription that fails is skipped.
Subscribe(e) ==
    /\ pc = "subscribe" /\ e \in todo
    /\ todo' = todo \ {e}
    /\ \/ /\ open
          /\ channel' = [f \in DOMAIN channel \union {e} |->
                            IF f = e THEN << >> ELSE channel[f]]
          /\ missed' = [f \in DOMAIN missed \union {e} |-> IF f = e THEN 0 ELSE missed[f]]
          /\ told' = [f \in DOMAIN told \union {e} |-> IF f = e THEN {} ELSE told[f]]
       \/ UNCHANGED <<channel, missed, told>>
    /\ UNCHANGED <<storeVars, shown, open, pc, stats, seen, arrived, removed, budget>>

Subscribed ==
    /\ pc = "subscribe" /\ todo = {}
    /\ pc' = "record"
    /\ UNCHANGED <<storeVars, shown, open, todo, channel, missed, stats, seen, arrived, removed,
                   told, budget>>

\* handle_change(): a removal is passed over; a row that the store has already
\* counts as written.
HandleChange(e, message) ==
    IF message = {}
    THEN /\ removed' = removed + 1
         /\ UNCHANGED <<storeVars, stats, seen, budget>>
    ELSE /\ seen' = seen \union {e}
         /\ UNCHANGED removed
         /\ \/ /\ \E r \in message : Stores(e, r)
               /\ stats' = [stats EXCEPT !.written = @ + 1, !.entities = Cardinality(seen')]
               /\ UNCHANGED budget
            \/ /\ Fails
               /\ stats' = [stats EXCEPT !.errors = @ + 1, !.entities = Cardinality(seen')]

\* Mutant: a lag counts as one.
PollLagOnce(e) ==
    /\ pc = "record" /\ e \in DOMAIN channel
    /\ \/ /\ missed[e] > 0
          /\ stats' = [stats EXCEPT !.skipped = @ + 1]
          /\ missed' = [missed EXCEPT ![e] = 0]
          /\ UNCHANGED <<storeVars, channel, seen, removed, budget>>
       \/ /\ missed[e] = 0 /\ channel[e] # << >>
          /\ HandleChange(e, Head(channel[e]))
          /\ channel' = [channel EXCEPT ![e] = Tail(@)]
          /\ UNCHANGED missed
    /\ UNCHANGED <<shown, open, pc, todo, arrived, told>>

\* try_recv() on the receiver of an entity: what it missed is reported first.
Poll(e) ==
    /\ pc = "record" /\ e \in DOMAIN channel
    /\ \/ /\ missed[e] > 0
          /\ stats' = [stats EXCEPT !.skipped = @ + missed[e]]
          /\ missed' = [missed EXCEPT ![e] = 0]
          /\ UNCHANGED <<storeVars, channel, seen, removed, budget>>
       \/ /\ missed[e] = 0 /\ channel[e] # << >>
          /\ HandleChange(e, Head(channel[e]))
          /\ channel' = [channel EXCEPT ![e] = Tail(@)]
          /\ UNCHANGED missed
    /\ UNCHANGED <<shown, open, pc, todo, arrived, told>>
=============================================================================
