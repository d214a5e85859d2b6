------------------------------ MODULE PowerFsm ------------------------------
(***************************************************************************)
(* The detection of appliance cycles from power readings                   *)
(* (crates/signal-ha/src/power_fsm.rs).                                    *)
(*                                                                         *)
(* The moving average has weight 1/8 and is kept in 1/Unit watts, rounded  *)
(* down.  The energy and the duration of a cycle are sums that nothing     *)
(* depends on; they are left out.                                          *)
(***************************************************************************)
EXTENDS Integers

CONSTANTS
    IdleBelow,      \* idle_below_w
    RunningAbove,   \* running_above_w
    DebounceOn, DebounceOff,    \* in ticks of the automation
    Unit,           \* the resolution of the average
    Readings        \* what the plug may report; a meter may go below zero

ASSUME PowerAssumption ==
    /\ IdleBelow \in Nat /\ RunningAbove \in Nat
    /\ DebounceOn \in Nat /\ DebounceOff \in Nat
    /\ Unit \in Nat \ {0}
    /\ Readings \subseteq Int

VARIABLES
    fsm,            \* the machine
    event,          \* what the last update returned
    watts,          \* last_raw_w
    streak          \* what the readings were like, whatever the machine did of it

powerVars == <<fsm, event, watts, streak>>

\* PowerFsm::new().
NewFsm == [state |-> "off", on |-> 0, off |-> 0, peak |-> 0, smoothed |-> 0]

\* above, idle: how long and how often in a row the reading was above the one
\* threshold and the average below the other; high: the highest average since the
\* last start was confirmed.  They count no further than the thresholds (bounds).
NoStreak == [above |-> 0, aboves |-> 0, idle |-> 0, idles |-> 0, high |-> 0]

PowerInit == fsm = NewFsm /\ event = "none" /\ watts = 0 /\ streak = NoStreak

Higher(a, b) == IF a > b THEN a ELSE b
UpTo(n, a) == IF a < n THEN a ELSE n

-----------------------------------------------------------------------------
(* update() after the average is taken, by the state of the machine *)

Above(w) == w >= RunningAbove
Idle(f) == f.smoothed < IdleBelow * Unit

NoticePower(f, w, dt) ==
    IF Above(w) THEN [f EXCEPT !.state = "pending_on", !.on = dt] ELSE f

\* Mutant: a reading below the threshold is ridden out.
ConfirmStartRidesOut(f, w, dt) ==
    IF ~Above(w) THEN f
    ELSE IF f.on + dt >= DebounceOn
         THEN [f EXCEPT !.state = "running", !.on = @ + dt, !.peak = f.smoothed]
         ELSE [f EXCEPT !.on = @ + dt]

\* The time of the first reading counts from the one before it.
ConfirmStart(f, w, dt) ==
    IF ~Above(w) THEN [f EXCEPT !.state = "off", !.on = 0]
    ELSE IF f.on + dt >= DebounceOn
         THEN [f EXCEPT !.state = "running", !.on = @ + dt, !.peak = f.smoothed]
         ELSE [f EXCEPT !.on = @ + dt]

Track(f, dt) ==
    LET tracked == [f EXCEPT !.peak = Higher(@, f.smoothed)]
    IN  IF Idle(f) THEN [tracked EXCEPT !.state = "pending_off", !.off = dt] ELSE tracked

\* Mutant: the time is set and not added to.
ConfirmEndRestarts(f, dt) ==
    IF ~Idle(f) THEN [f EXCEPT !.state = "running", !.off = 0, !.peak = Higher(@, f.smoothed)]
    ELSE IF dt >= DebounceOff THEN [f EXCEPT !.state = "off", !.off = dt, !.peak = 0]
    ELSE [f EXCEPT !.off = dt]

\* Mutant: the peak is not taken from the reading that the power is back with.
ConfirmEndUnnoticed(f, dt) ==
    IF ~Idle(f) THEN [f EXCEPT !.state = "running", !.off = 0]
    ELSE IF f.off + dt >= DebounceOff
         THEN [f EXCEPT !.state = "off", !.off = @ + dt, !.peak = 0]
         ELSE [f EXCEPT !.off = @ + dt]

ConfirmEnd(f, dt) ==
    IF ~Idle(f) THEN [f EXCEPT !.state = "running", !.off = 0, !.peak = Higher(@, f.smoothed)]
    ELSE IF f.off + dt >= DebounceOff
         THEN [f EXCEPT !.state = "off", !.off = @ + dt, !.peak = 0]
         ELSE [f EXCEPT !.off = @ + dt]

\* A start is judged by the reading, an end by the average.
After(f, w, dt) ==
    CASE f.state = "off" -> NoticePower(f, w, dt)
      [] f.state = "pending_on" -> ConfirmStart(f, w, dt)
      [] f.state = "running" -> Track(f, dt)
      [] OTHER -> ConfirmEnd(f, dt)

EventOf(before, after) ==
    CASE before = "pending_on" /\ after = "running" -> "started"
      [] before = "pending_off" /\ after = "off" -> "finished"
      [] OTHER -> "none"

-----------------------------------------------------------------------------
\* Negative readings count as zero.
Update(raw, dt) ==
    LET w == Higher(raw, 0)
        f == [fsm EXCEPT !.smoothed = (7 * @ + w * Unit) \div 8]
        next == After(f, w, dt)
    IN  /\ fsm' = next
        /\ event' = EventOf(fsm.state, next.state)
        /\ watts' = w
        /\ streak' = [above |-> IF Above(w) THEN UpTo(DebounceOn, streak.above + dt) ELSE 0,
                      aboves |-> IF Above(w) THEN UpTo(2, streak.aboves + 1) ELSE 0,
                      idle |-> IF Idle(f) THEN UpTo(DebounceOff, streak.idle + dt) ELSE 0,
                      idles |-> IF Idle(f) THEN UpTo(2, streak.idles + 1) ELSE 0,
                      high |-> IF event' = "started" THEN f.smoothed
                               ELSE Higher(streak.high, f.smoothed)]
=============================================================================
