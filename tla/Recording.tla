----------------------------- MODULE Recording -----------------------------
(***************************************************************************)
(* The recorder on the live table, while the table is rotated.             *)
(***************************************************************************)
EXTENDS Recorder

CONSTANTS MaxRotations  \* rotations that are begun (bound)

VARIABLES rotations     \* rotations begun so far (bound)

vars == <<storeVars, recorderVars, rotations>>

Init == StoreInit /\ RecorderInit /\ rotations = 0

Process ==
    /\ \/ Start \/ Crash \/ Lose
       \/ BackfillEnds \/ Fetch \/ Subscribed
       \/ \E e \in Entities : Change(e) \/ Backfill(e) \/ Subscribe(e) \/ Poll(e)
    /\ UNCHANGED rotations

BeginRotation(own) ==
    /\ rotations < MaxRotations
    /\ rotations' = rotations + 1
    /\ own => pc # "down"
    /\ CreateNew(own)
    /\ UNCHANGED recorderVars

\* A rotation goes on and returns, with an error or without.
RotateOn ==
    /\ CheckPrior \/ (\E a \in Archives : Rename(a)) \/ RotationEnds
    /\ UNCHANGED <<recorderVars, rotations>>

Other == (DropLeftover \/ Tick) /\ UNCHANGED <<recorderVars, rotations>>

Next ==
    \/ Process
    \/ \E own \in BOOLEAN : BeginRotation(own)
    \/ RotateOn
    \/ Other

\* The loop of run() comes round to every channel, and rotate_for_curation()
\* returns.
Fairness ==
    /\ \A e \in Entities : WF_vars(Poll(e) /\ UNCHANGED rotations)
    /\ WF_vars(RotateOn)

Spec == Init /\ [][Next]_vars /\ Fairness

-----------------------------------------------------------------------------
(* Properties *)

\* What an entity filter admits, by what a star stands for: any characters.
Admits(p, text) ==
    LET reach[i \in 0..Len(p)] ==
            IF i = 0 THEN {0}
            ELSE IF p[i] = Star THEN UNION {k..Len(text) : k \in reach[i - 1]}
            ELSE {k + 1 : k \in {j \in reach[i - 1] : j < Len(text) /\ text[j + 1] = p[i]}}
    IN  Len(text) \in reach[Len(p)]

\* Rows are of entities that the patterns of the filter admit.  With patterns of one star
\* or none it is so; one of more stars may admit too much (glob_match).
OnlyAdmittedRecorded ==
    \A t \in DOMAIN tables : \A e \in EntitiesOn(t) :
        \E p \in Patterns : Admits(p, Spelling[e])

\* How many changes of each entity wait in its channel or are to be reported as
\* missed, and the set that has one element for each of them.
Waiting == [e \in DOMAIN channel |-> Len(channel[e]) + missed[e]]
Places(n) == UNION {{e} \X (1..n[e]) : e \in DOMAIN n}

\* Every change that went into a channel of this process is in the statistics, was
\* passed over as a removal, waits in the channel, or is still to be reported as
\* missed.
EveryChangeIsAccountedFor ==
    arrived = stats.written + stats.errors + stats.skipped + removed
              + Cardinality(Places(Waiting))

\* A process that has emptied the channel of an entity without an error has the
\* newest change it was sent of it in a table, whatever it missed, however the
\* tables were rotated meanwhile.
CaughtUp ==
    \A e \in DOMAIN told :
        (channel[e] = << >> /\ missed[e] = 0 /\ stats.errors = 0) =>
            \A r \in told[e] : \E t \in DOMAIN tables : \E row \in tables[t] :
                Key(row) = <<e, r.since, r.state>>

\* What is in a channel is taken out of it while the process records.
Drained(e) == e \in DOMAIN channel => channel[e] = << >>

ChangesAreDrained ==
    \A e \in Entities : (pc = "record" /\ ~Drained(e)) ~> (pc # "record" \/ Drained(e))
=============================================================================
