----------------------------- MODULE Scheduler -----------------------------
(***************************************************************************)
(* The streams that fire every day at sunrise, at sunset or at a fixed     *)
(* local time (crates/signal-ha/src/scheduler.rs), as an automation awaits *)
(* one of them.                                                            *)
(*                                                                         *)
(* The clock counts ticks of which a day has Day.  The sun rises and sets  *)
(* at the same hour every day.  A local time exists once on a plain day;   *)
(* on others, when summer time begins or ends, it may be missing or come   *)
(* twice.                                                                  *)
(***************************************************************************)
EXTENDS Integers

CONSTANTS
    Day,            \* ticks of a day
    EventAt,        \* the hour of each kind of stream
    Offsets,        \* offsets of the streams that follow the sun
    Days,           \* kinds of days there are, "plain" or "odd"
    Late            \* ticks that the automation may be behind, half a day at most (bound)

ASSUME SchedulerAssumption ==
    /\ Day \in Nat /\ Late \in Nat /\ 2 * Late <= Day
    /\ \A kind \in {"sunrise", "sunset", "daily"} : EventAt[kind] \in 0..Day - 1
    /\ Offsets \subseteq Int /\ \A offset \in Offsets : Late + offset < Day
    /\ Days \subseteq {"plain", "odd"}

VARIABLES
    hour,           \* the time of the day
    calendar,       \* what kinds of days today and tomorrow are
    stream,         \* the stream that is awaited
    fires           \* when it fired

schedulerVars == <<hour, calendar, stream, fires>>

NoStream == [kind |-> "none", offset |-> 0, at |-> "none", wait |-> 0]

SchedulerInit ==
    /\ hour = 0
    /\ calendar = [today |-> "plain", tomorrow |-> "plain"]
    /\ stream = NoStream
    /\ fires = [since |-> {}, gap |-> {}, odd |-> FALSE, excused |-> FALSE]

\* A stream is made, at any time of any day.
NewStream ==
    /\ stream = NoStream
    /\ hour' \in 0..Day - 1
    /\ calendar' \in [today : Days, tomorrow : Days]
    /\ calendar'.today = "odd" => calendar'.tomorrow = "plain"
    /\ stream' \in [kind : {"sunrise", "sunset"}, offset : Offsets, at : {"new"}, wait : {0}]
                   \union [kind : {"daily"}, offset : {0}, at : {"new"}, wait : {0}]
    /\ fires' = [fires EXCEPT !.odd = calendar'.today # "plain"]

\* Mutant: what happens right now is still to come.
UntilEventNow(at) == IF at >= hour THEN at - hour ELSE at - hour + Day

\* Ticks until the event of today, or of tomorrow if that of today has passed.
UntilEvent(at) == IF at > hour THEN at - hour ELSE at - hour + Day

IsSunUp == hour >= EventAt["sunrise"] /\ hour < EventAt["sunset"]

\* A target is waited for, or fires at once if it has passed already.
Await(wait) == stream' = [stream EXCEPT !.at = "armed", !.wait = IF wait > 0 THEN wait ELSE 0]

\* at_sunrise(), at_sunset(): next_sunrise() or next_sunset(), plus the offset.
ArmSun ==
    /\ stream.kind # "daily"
    /\ Await(UntilEvent(EventAt[stream.kind]) + stream.offset)

\* daily(): today if the time is still to come and unambiguous, or else tomorrow;
\* if it is not unambiguous there the process panics.
ArmDaily ==
    LET at == EventAt["daily"] IN
    /\ stream.kind = "daily"
    /\ IF calendar.today = "plain" /\ at > hour THEN Await(at - hour)
       ELSE IF calendar.tomorrow = "plain" THEN Await(at - hour + Day)
       ELSE stream' = [stream EXCEPT !.at = "dead", !.wait = 0]

Arm ==
    /\ stream.at \in {"new", "fired"}
    /\ ArmSun \/ ArmDaily
    /\ UNCHANGED <<hour, calendar, fires>>

\* The gap from target to target is noted.
Fire ==
    /\ stream.at = "armed" /\ stream.wait <= 0
    /\ stream' = [stream EXCEPT !.at = "fired"]
    /\ fires' = [since |-> {-stream.wait}, gap |-> {n + stream.wait : n \in fires.since},
                 odd |-> calendar.today # "plain", excused |-> fires.odd]
    /\ UNCHANGED <<hour, calendar>>

\* A process that panicked is started anew, later.
Revive ==
    /\ stream.at = "dead" /\ stream.wait < 0
    /\ stream' = [stream EXCEPT !.at = "new", !.wait = 0]
    /\ UNCHANGED <<hour, calendar, fires>>

Behind == stream.wait <= -Late

\* No two days in a row are odd.
NextDay(day) ==
    /\ calendar.tomorrow = "odd" => day = "plain"
    /\ calendar' = [today |-> calendar.tomorrow, tomorrow |-> day]
    /\ hour' = 0

\* The clock, which does not leave an automation behind by more than Late.
Clock ==
    /\ ~Behind
    /\ stream' = [stream EXCEPT !.wait = @ - 1]
    /\ \/ /\ hour < Day - 1
          /\ hour' = hour + 1
          /\ UNCHANGED calendar
       \/ /\ hour = Day - 1
          /\ \E day \in Days : NextDay(day)
    /\ fires' = [fires EXCEPT !.since = {n + 1 : n \in @},
                              !.odd = @ \/ calendar'.today # "plain"]
=============================================================================
