--------------------------- MODULE AutomationProofs ---------------------------
(***************************************************************************)
(* What holds of the detection of cycles, of the timer streams, of the     *)
(* status page and of the dashboards for any thresholds, times of          *)
(* debouncing, readings, days, offsets and processes.                      *)
(*                                                                         *)
(* The invariant of the machine relates what it counts while a start or an *)
(* end is pending to what the readings really were, and the peak it keeps  *)
(* to the highest average there was.  That of the streams relates the      *)
(* times they sleep until to the clock, and that of the page its rows to   *)
(* what the last evaluation found.  That of the dashboards says what a     *)
(* process has made of its dashboard when it is through.                   *)
(***************************************************************************)
EXTENDS Automation, TLAPS

Threshold == IdleBelow * Unit

\* The state of the machine and the streaks are numbers.
Types ==
    /\ fsm \in [state : {"off", "pending_on", "running", "pending_off"},
                on : Nat, off : Nat, peak : Nat, smoothed : Nat]
    /\ streak \in [above : Nat, aboves : Nat, idle : Nat, idles : Nat, high : Nat]
    /\ waited \in Nat

\* What is counted while a start is pending was above the threshold, and what is
\* counted while an end is pending was below the other.
Counted ==
    /\ fsm.state = "pending_on" =>
          streak.aboves >= 1 /\ (streak.above >= DebounceOn \/ streak.above >= fsm.on)
    /\ fsm.state = "pending_off" =>
          streak.idles >= 1 /\ (streak.idle >= DebounceOff \/ streak.idle >= fsm.off)

PeakBelow == fsm.state \in {"running", "pending_off"} => fsm.peak <= streak.high

IInv == Types /\ Counted /\ PeakBelow /\ CyclesAreDebounced /\ PeakIsTheHighest

LEMMA ThresholdIsNat == Threshold \in Nat
BY PowerAssumption DEF Threshold

LEMMA InitIInv == Init => IInv
BY PowerAssumption
DEF Init, PowerInit, NewFsm, NoStreak, IInv, Types, Counted, PeakBelow,
    CyclesAreDebounced, PeakIsTheHighest

\* What an update finds: the reading without its sign, and the machine with the new
\* average.
LEMMA Average ==
    ASSUME Types, NEW raw \in Readings
    PROVE  LET w == Higher(raw, 0) IN
           w \in Nat /\ (7 * fsm.smoothed + w * Unit) \div 8 \in Nat
<1> DEFINE w == Higher(raw, 0)
           a == 7 * fsm.smoothed
           b == w * Unit
<1>1. w \in Nat
  BY PowerAssumption DEF Higher
<1>2. b \in Nat
  BY <1>1, PowerAssumption
<1>3. a \in Nat
  BY DEF Types
<1> HIDE DEF a, b
<1>4. (a + b) \div 8 \in Nat
  BY <1>2, <1>3
<1> QED
  BY <1>1, <1>4 DEF a, b

\* An update keeps the invariant.
LEMMA UpdateKeeps ==
    ASSUME IInv, NEW raw \in Readings, NEW dt \in Nat, Update(raw, dt), waited' \in Nat
    PROVE  IInv'
<1> DEFINE w == Higher(raw, 0)
           smoothed == (7 * fsm.smoothed + w * Unit) \div 8
           f == [fsm EXCEPT !.smoothed = smoothed]
           next == After(f, w, dt)
<1>1. w \in Nat /\ smoothed \in Nat
  BY Average DEF IInv
<1>2. /\ fsm' = next /\ event' = EventOf(fsm.state, next.state)
      /\ streak' = [above |-> IF Above(w) THEN UpTo(DebounceOn, streak.above + dt) ELSE 0,
                    aboves |-> IF Above(w) THEN UpTo(2, streak.aboves + 1) ELSE 0,
                    idle |-> IF Idle(f) THEN UpTo(DebounceOff, streak.idle + dt) ELSE 0,
                    idles |-> IF Idle(f) THEN UpTo(2, streak.idles + 1) ELSE 0,
                    high |-> IF event' = "started" THEN smoothed
                             ELSE Higher(streak.high, smoothed)]
  BY DEF Update
<1> HIDE DEF w, smoothed
<1> DEFINE above == Above(w)
           idle == Idle(f)
<1>3. above \in BOOLEAN /\ idle \in BOOLEAN /\ (idle <=> smoothed < Threshold)
  BY <1>1 DEF Above, Idle, IInv, Types, Threshold
<1>4. f \in [state : {"off", "pending_on", "running", "pending_off"},
             on : Nat, off : Nat, peak : Nat, smoothed : Nat]
      /\ f.state = fsm.state /\ f.on = fsm.on /\ f.off = fsm.off /\ f.peak = fsm.peak
      /\ f.smoothed = smoothed
  BY <1>1 DEF IInv, Types
<1> HIDE DEF f
<1>5. /\ streak'.above = IF above THEN UpTo(DebounceOn, streak.above + dt) ELSE 0
      /\ streak'.aboves = IF above THEN UpTo(2, streak.aboves + 1) ELSE 0
      /\ streak'.idle = IF idle THEN UpTo(DebounceOff, streak.idle + dt) ELSE 0
      /\ streak'.idles = IF idle THEN UpTo(2, streak.idles + 1) ELSE 0
      /\ streak'.high = IF event' = "started" THEN smoothed ELSE Higher(streak.high, smoothed)
      /\ streak' \in [above : Nat, aboves : Nat, idle : Nat, idles : Nat, high : Nat]
  BY <1>1, <1>2, PowerAssumption DEF IInv, Types, UpTo, Higher
<1> HIDE DEF above, idle
<1>6. CASE fsm.state = "off"
  <2>1. next = IF above THEN [f EXCEPT !.state = "pending_on", !.on = dt] ELSE f
    BY <1>4, <1>6 DEF After, NoticePower, above
  <2>2. event' = "none"
    BY <1>2, <1>4, <1>6, <2>1 DEF EventOf
  <2>3. /\ fsm'.state = IF above THEN "pending_on" ELSE "off"
        /\ fsm'.on = IF above THEN dt ELSE fsm.on
        /\ fsm'.off = fsm.off /\ fsm'.peak = fsm.peak
        /\ fsm' \in [state : {"off", "pending_on", "running", "pending_off"},
                    on : Nat, off : Nat, peak : Nat, smoothed : Nat]
    BY <1>1, <1>2, <1>4, <1>6, <2>1 DEF IInv, Types, Higher
  <2>4. Types'
    BY <1>5, <2>3 DEF Types
  <2>5. Counted' /\ CyclesAreDebounced'
    BY <1>5, <1>6, <2>2, <2>3, PowerAssumption
    DEF IInv, Types, Counted, CyclesAreDebounced, UpTo
  <2>6. PeakBelow' /\ PeakIsTheHighest'
    BY <1>1, <1>3, <1>5, <1>6, <2>2, <2>3, ThresholdIsNat
    DEF IInv, Types, PeakBelow, PeakIsTheHighest, Threshold, Higher
  <2> QED
    BY <2>4, <2>5, <2>6 DEF IInv
<1>7. CASE fsm.state = "pending_on"
  <2>1. next = IF ~above THEN [f EXCEPT !.state = "off", !.on = 0]
               ELSE IF fsm.on + dt >= DebounceOn
               THEN [f EXCEPT !.state = "running", !.on = @ + dt, !.peak = smoothed]
               ELSE [f EXCEPT !.on = @ + dt]
    BY <1>4, <1>7 DEF After, ConfirmStart, above
  <2>2. event' = IF above /\ fsm.on + dt >= DebounceOn THEN "started" ELSE "none"
    BY <1>2, <1>4, <1>7, <2>1 DEF EventOf
  <2>3. /\ fsm'.state = IF ~above THEN "off"
                         ELSE IF fsm.on + dt >= DebounceOn THEN "running" ELSE "pending_on"
        /\ fsm'.on = IF above THEN fsm.on + dt ELSE 0
        /\ fsm'.off = fsm.off
        /\ fsm'.peak = IF above /\ fsm.on + dt >= DebounceOn THEN smoothed ELSE fsm.peak
        /\ fsm' \in [state : {"off", "pending_on", "running", "pending_off"},
                    on : Nat, off : Nat, peak : Nat, smoothed : Nat]
    <3>1. CASE ~above
      <4>1. fsm' = [f EXCEPT !.state = "off", !.on = 0]
        BY <1>2, <2>1, <3>1
      <4>2. /\ fsm'.state = "off" /\ fsm'.on = 0
            /\ fsm'.off = fsm.off /\ fsm'.peak = fsm.peak
        BY <1>4, <4>1
      <4>3. fsm' \in [state : {"off", "pending_on", "running", "pending_off"},
                      on : Nat, off : Nat, peak : Nat, smoothed : Nat]
        BY <1>4, <4>1
      <4> QED
        BY <3>1, <4>2, <4>3
    <3>2. CASE above /\ fsm.on + dt >= DebounceOn
      <4>1. fsm' = [f EXCEPT !.state = "running", !.on = @ + dt, !.peak = smoothed]
        BY <1>2, <2>1, <3>2
      <4>2. /\ fsm'.state = "running" /\ fsm'.on = fsm.on + dt
            /\ fsm'.off = fsm.off /\ fsm'.peak = smoothed
        BY <1>4, <4>1
      <4>3. fsm' \in [state : {"off", "pending_on", "running", "pending_off"},
                      on : Nat, off : Nat, peak : Nat, smoothed : Nat]
        <5> DEFINE on == fsm.on + dt
        <5>1. on \in Nat
          BY <1>4
        <5>2. fsm' = [f EXCEPT !.state = "running", !.on = on, !.peak = smoothed]
          BY <1>4, <4>1
        <5> HIDE DEF on
        <5> QED
          BY <1>1, <1>4, <5>1, <5>2
      <4> QED
        BY <3>2, <4>2, <4>3
    <3>3. CASE above /\ ~(fsm.on + dt >= DebounceOn)
      <4>1. fsm' = [f EXCEPT !.on = @ + dt]
        BY <1>2, <2>1, <3>3
      <4>2. /\ fsm'.state = "pending_on" /\ fsm'.on = fsm.on + dt
            /\ fsm'.off = fsm.off /\ fsm'.peak = fsm.peak
        BY <1>4, <1>7, <4>1
      <4>3. fsm' \in [state : {"off", "pending_on", "running", "pending_off"},
                      on : Nat, off : Nat, peak : Nat, smoothed : Nat]
        BY <1>4, <4>1
      <4> QED
        BY <3>3, <4>2, <4>3
    <3> QED
      BY <3>1, <3>2, <3>3
  <2>4. Types'
    BY <1>5, <2>3 DEF Types
  <2>5. Counted' /\ CyclesAreDebounced'
    BY <1>5, <1>7, <2>2, <2>3, PowerAssumption
    DEF IInv, Types, Counted, CyclesAreDebounced, UpTo
  <2>6. PeakBelow' /\ PeakIsTheHighest'
    BY <1>1, <1>3, <1>5, <1>7, <2>2, <2>3, ThresholdIsNat
    DEF IInv, Types, PeakBelow, PeakIsTheHighest, Threshold, Higher
  <2> QED
    BY <2>4, <2>5, <2>6 DEF IInv
<1>8. CASE fsm.state = "running"
  <2>1. next = IF idle
               THEN [f EXCEPT !.state = "pending_off", !.off = dt,
                              !.peak = Higher(fsm.peak, smoothed)]
               ELSE [f EXCEPT !.peak = Higher(fsm.peak, smoothed)]
    BY <1>4, <1>8 DEF After, Track, idle
  <2>2. event' = "none"
    BY <1>2, <1>4, <1>8, <2>1 DEF EventOf
  <2>3. /\ fsm'.state = IF idle THEN "pending_off" ELSE "running"
        /\ fsm'.on = fsm.on /\ fsm'.off = IF idle THEN dt ELSE fsm.off
        /\ fsm'.peak = Higher(fsm.peak, smoothed)
        /\ fsm' \in [state : {"off", "pending_on", "running", "pending_off"},
                    on : Nat, off : Nat, peak : Nat, smoothed : Nat]
    BY <1>1, <1>2, <1>4, <1>8, <2>1 DEF IInv, Types, Higher
  <2>4. Types'
    BY <1>5, <2>3 DEF Types
  <2>5. Counted' /\ CyclesAreDebounced'
    BY <1>5, <1>8, <2>2, <2>3, PowerAssumption
    DEF IInv, Types, Counted, CyclesAreDebounced, UpTo
  <2>6. PeakBelow' /\ PeakIsTheHighest'
    BY <1>1, <1>3, <1>5, <1>8, <2>2, <2>3, ThresholdIsNat
    DEF IInv, Types, PeakBelow, PeakIsTheHighest, Threshold, Higher
  <2> QED
    BY <2>4, <2>5, <2>6 DEF IInv
<1>9. CASE fsm.state = "pending_off"
  <2>1. next = IF ~idle
               THEN [f EXCEPT !.state = "running", !.off = 0,
                              !.peak = Higher(fsm.peak, smoothed)]
               ELSE IF fsm.off + dt >= DebounceOff
               THEN [f EXCEPT !.state = "off", !.off = @ + dt, !.peak = 0]
               ELSE [f EXCEPT !.off = @ + dt]
    BY <1>4, <1>9 DEF After, ConfirmEnd, idle
  <2>2. event' = IF idle /\ fsm.off + dt >= DebounceOff THEN "finished" ELSE "none"
    BY <1>2, <1>4, <1>9, <2>1 DEF EventOf
  <2>3. /\ fsm'.state = IF ~idle THEN "running"
                         ELSE IF fsm.off + dt >= DebounceOff THEN "off" ELSE "pending_off"
        /\ fsm'.on = fsm.on
        /\ fsm'.off = IF idle THEN fsm.off + dt ELSE 0
        /\ fsm'.peak = IF ~idle THEN Higher(fsm.peak, smoothed)
                       ELSE IF fsm.off + dt >= DebounceOff THEN 0 ELSE fsm.peak
        /\ fsm' \in [state : {"off", "pending_on", "running", "pending_off"},
                    on : Nat, off : Nat, peak : Nat, smoothed : Nat]
    <3>1. CASE ~idle
      <4>1. fsm' = [f EXCEPT !.state = "running", !.off = 0,
                              !.peak = Higher(fsm.peak, smoothed)]
        BY <1>2, <2>1, <3>1
      <4>2. /\ fsm'.state = "running" /\ fsm'.on = fsm.on
            /\ fsm'.off = 0 /\ fsm'.peak = Higher(fsm.peak, smoothed)
        BY <1>4, <4>1
      <4>3. fsm' \in [state : {"off", "pending_on", "running", "pending_off"},
                      on : Nat, off : Nat, peak : Nat, smoothed : Nat]
        BY <1>1, <1>4, <4>1 DEF Higher
      <4> QED
        BY <3>1, <4>2, <4>3
    <3>2. CASE idle /\ fsm.off + dt >= DebounceOff
      <4>1. fsm' = [f EXCEPT !.state = "off", !.off = @ + dt, !.peak = 0]
        BY <1>2, <2>1, <3>2
      <4>2. /\ fsm'.state = "off" /\ fsm'.on = fsm.on
            /\ fsm'.off = fsm.off + dt /\ fsm'.peak = 0
        BY <1>4, <4>1
      <4>3. fsm' \in [state : {"off", "pending_on", "running", "pending_off"},
                      on : Nat, off : Nat, peak : Nat, smoothed : Nat]
        <5> DEFINE off == fsm.off + dt
        <5>1. off \in Nat
          BY <1>4
        <5>2. fsm' = [f EXCEPT !.state = "off", !.off = off, !.peak = 0]
          BY <1>4, <4>1
        <5> HIDE DEF off
        <5> QED
          BY <1>4, <5>1, <5>2
      <4> QED
        BY <3>2, <4>2, <4>3
    <3>3. CASE idle /\ ~(fsm.off + dt >= DebounceOff)
      <4>1. fsm' = [f EXCEPT !.off = @ + dt]
        BY <1>2, <2>1, <3>3
      <4>2. /\ fsm'.state = "pending_off" /\ fsm'.on = fsm.on
            /\ fsm'.off = fsm.off + dt /\ fsm'.peak = fsm.peak
        BY <1>4, <1>9, <4>1
      <4>3. fsm' \in [state : {"off", "pending_on", "running", "pending_off"},
                      on : Nat, off : Nat, peak : Nat, smoothed : Nat]
        BY <1>4, <4>1
      <4> QED
        BY <3>3, <4>2, <4>3
    <3> QED
      BY <3>1, <3>2, <3>3
  <2>4. Types'
    BY <1>5, <2>3 DEF Types
  <2>5. Counted' /\ CyclesAreDebounced'
    BY <1>5, <1>9, <2>2, <2>3, PowerAssumption
    DEF IInv, Types, Counted, CyclesAreDebounced, UpTo
  <2>6. PeakBelow' /\ PeakIsTheHighest'
    BY <1>1, <1>3, <1>5, <1>9, <2>2, <2>3, ThresholdIsNat
    DEF IInv, Types, PeakBelow, PeakIsTheHighest, Threshold, Higher
  <2> QED
    BY <2>4, <2>5, <2>6 DEF IInv
<1> QED
  BY <1>6, <1>7, <1>8, <1>9 DEF IInv, Types

\* Every other step leaves the machine and what was read alone.
LEMMA RestKeeps ==
    ASSUME IInv, UNCHANGED powerVars, waited' \in Nat
    PROVE  IInv'
BY DEF powerVars, IInv, Types, Counted, PeakBelow, CyclesAreDebounced, PeakIsTheHighest

LEMMA StepIInv == IInv /\ [Next]_vars => IInv'
<1> SUFFICES ASSUME IInv, [Next]_vars PROVE IInv'
  OBVIOUS
<1>1. CASE Evaluate
  <2>1. PICK raw \in Readings : Update(raw, waited)
    BY <1>1 DEF Evaluate
  <2>2. waited \in Nat /\ waited' \in Nat
    BY <1>1 DEF Evaluate, IInv, Types
  <2> QED
    BY <2>1, <2>2, UpdateKeeps
<1>2. CASE ~Evaluate
  <2>1. UNCHANGED powerVars
    BY <1>2
    DEF Next, Boot, EnterLoop, Telling, TellState, TellPower, TellEvaluated, Tell, Wait,
        AwaitTime, TimeHasCome, StartAnew, PassTime, LookAfterLights, vars
  <2>2. waited' \in {waited, waited + 1}
    BY <1>2
    DEF Next, Boot, EnterLoop, Telling, TellState, TellPower, TellEvaluated, Tell, Wait,
        AwaitTime, TimeHasCome, StartAnew, PassTime, LookAfterLights, vars, loopVars
  <2> QED
    BY <2>1, <2>2, RestKeeps DEF IInv, Types
<1> QED
  BY <1>1, <1>2

LEMMA Invariant == Spec => []IInv
BY InitIInv, StepIInv, PTL DEF Spec

-----------------------------------------------------------------------------
(* The stream of a timer *)

At == EventAt[stream.kind]
Kinds == {"sunrise", "sunset", "daily"}

\* The clock, the calendar and the stream have their types; only a stream that is
\* armed has something to wait for.
StreamTypes ==
    /\ hour \in 0..Day - 1
    /\ calendar \in [today : {"plain", "odd"}, tomorrow : {"plain", "odd"}]
    /\ calendar.today = "odd" => calendar.tomorrow = "plain"
    /\ stream \in [kind : Kinds \union {"none"}, offset : Offsets \union {0},
                   at : {"none", "new", "armed", "fired", "dead"}, wait : -Late..2 * Day]
    /\ stream.kind = "none" <=> stream.at = "none"
    /\ stream.kind = "daily" => stream.offset = 0
    /\ stream.at = "dead" => stream.kind = "daily"
    /\ stream.at # "armed" => stream.wait <= 0

FireTypes ==
    /\ fires \in [since : SUBSET Int, gap : SUBSET Int, odd : BOOLEAN, excused : BOOLEAN]
    /\ calendar.today = "odd" => fires.odd

\* The target is at the hour of the event, plus the offset.
OnPhase ==
    stream.at \in {"armed", "fired"} => hour + stream.wait - (At + stream.offset) \in {-Day, 0, Day}

\* The process has not come to the next target because the time does not exist once
\* on the coming day, or the day that has come.
OddDay(n) ==
    \/ /\ n = hour - At /\ n >= 0
       /\ calendar.today = "plain" /\ calendar.tomorrow = "odd"
    \/ /\ n = hour - At + Day
       /\ calendar.today = "odd"
       /\ hour + stream.wait < IF stream.at = "dead" THEN 0 ELSE Late

\* What is left until the next target makes a day with what has passed since the last
\* one, or two if a day was left out.
SinceTarget ==
    \A n \in fires.since :
        /\ stream.at = "fired" => n = -stream.wait
        /\ stream.at = "armed" =>
              \/ n + stream.wait = Day
              \/ n + stream.wait = 2 * Day /\ stream.kind = "daily" /\ fires.odd
        /\ stream.at \in {"new", "dead"} => stream.kind = "daily" /\ OddDay(n)
        /\ stream.at # "none"

GapIsADay ==
    \A n \in fires.gap : n = Day \/ (stream.kind = "daily" /\ fires.excused /\ n = 2 * Day)

Punctual == StreamTypes /\ FireTypes /\ OnPhase /\ SinceTarget /\ GapIsADay

LEMMA HoursOfEvents ==
    /\ Day \in Nat \ {0} /\ Late \in Nat /\ 2 * Late <= Day
    /\ \A kind \in Kinds : EventAt[kind] \in 0..Day - 1
BY SchedulerAssumption DEF Kinds

LEMMA InitPunctual == SchedulerInit => Punctual
<1> SUFFICES ASSUME SchedulerInit PROVE Punctual
  OBVIOUS
<1>1. StreamTypes
  BY HoursOfEvents DEF SchedulerInit, NoStream, StreamTypes, Kinds
<1>2. FireTypes /\ OnPhase /\ SinceTarget /\ GapIsADay
  BY DEF SchedulerInit, NoStream, FireTypes, OnPhase, SinceTarget, GapIsADay
<1> QED
  BY <1>1, <1>2 DEF Punctual

LEMMA NewStreamPunctual ==
    ASSUME Punctual, NewStream, fires.since = {}, fires.gap = {}
    PROVE  Punctual'
<1> USE HoursOfEvents, SchedulerAssumption
<1>1. StreamTypes'
  BY DEF NewStream, StreamTypes, Punctual, Kinds
<1>2. fires'.since = {} /\ fires'.gap = {} /\ FireTypes'
  BY DEF NewStream, FireTypes, Punctual
<1>3. stream'.at = "new"
  BY DEF NewStream
<1> QED
  BY <1>1, <1>2, <1>3 DEF Punctual, OnPhase, SinceTarget, GapIsADay

StreamIs(at, wait) == stream' = [stream EXCEPT !.at = at, !.wait = wait]

\* A stream that goes on has its type again.
LEMMA StreamGoesOn ==
    ASSUME StreamTypes, hour' = hour, calendar' = calendar, stream.at # "none",
           NEW at, NEW wait,
           at \in {"new", "armed", "fired", "dead"}, wait \in -Late..2 * Day,
           at = "dead" => stream.kind = "daily", at # "armed" => wait <= 0,
           StreamIs(at, wait)
    PROVE  /\ stream'.kind = stream.kind /\ stream'.offset = stream.offset
           /\ stream'.at = at /\ stream'.wait = wait
           /\ StreamTypes'
<1>1. /\ stream'.kind = stream.kind /\ stream'.offset = stream.offset
      /\ stream'.at = at /\ stream'.wait = wait
      /\ stream' \in [kind : Kinds \union {"none"}, offset : Offsets \union {0},
                      at : {"none", "new", "armed", "fired", "dead"}, wait : -Late..2 * Day]
  BY DEF StreamTypes, StreamIs
<1> QED
  BY <1>1 DEF StreamTypes

\* What is left until the event is a day at most.
LEMMA UntilEventIsADay ==
    ASSUME hour \in 0..Day - 1, NEW at \in 0..Day - 1
    PROVE  /\ UntilEvent(at) \in 1..Day
           /\ UntilEvent(at) = at - hour \/ UntilEvent(at) = at - hour + Day
BY HoursOfEvents DEF UntilEvent

\* A stream that is armed waits two days at most, and is dead only if it is daily.
LEMMA ArmTypes ==
    ASSUME StreamTypes, Arm
    PROVE  /\ StreamTypes' /\ UNCHANGED <<hour, calendar, fires>>
           /\ stream'.at \in {"armed", "dead"}
           /\ stream'.at = "armed" => stream'.wait \in 0..2 * Day
<1> USE HoursOfEvents
<1>1. /\ hour' = hour /\ calendar' = calendar /\ fires' = fires
      /\ stream.at \in {"new", "fired"} /\ stream.kind \in Kinds
      /\ hour \in 0..Day - 1 /\ At \in 0..Day - 1
  BY DEF Arm, StreamTypes, At, Kinds
<1>2. ASSUME NEW wait \in Int, wait <= 2 * Day, Await(wait)
      PROVE  /\ StreamTypes' /\ stream'.at = "armed" /\ stream'.wait \in 0..2 * Day
  <2> DEFINE remaining == IF wait > 0 THEN wait ELSE 0
  <2>1. remaining \in 0..2 * Day /\ remaining \in -Late..2 * Day
    BY <1>2
  <2>2. StreamIs("armed", remaining)
    BY <1>2 DEF Await, StreamIs
  <2> HIDE DEF remaining
  <2> QED
    BY <1>1, <2>1, <2>2, StreamGoesOn
<1>3. CASE ArmSun
  <2> DEFINE wait == UntilEvent(EventAt[stream.kind]) + stream.offset
  <2>1. stream.offset \in Int /\ Late + stream.offset < Day
    <3>1. CASE stream.offset \in Offsets
      BY <3>1, SchedulerAssumption
    <3>2. CASE stream.offset = 0
      BY <3>2
    <3> QED
      BY <3>1, <3>2 DEF StreamTypes
  <2>2. UntilEvent(At) \in 1..Day
    BY <1>1, UntilEventIsADay
  <2>3. wait \in Int /\ wait <= 2 * Day
    BY <2>1, <2>2 DEF At
  <2>4. Await(wait)
    BY <1>3 DEF ArmSun
  <2> HIDE DEF wait
  <2> QED
    BY <1>1, <1>2, <2>3, <2>4
<1>4. CASE ArmDaily
  <2>1. stream.kind = "daily" /\ At = EventAt["daily"]
    BY <1>4 DEF ArmDaily, At
  <2>2. \/ Await(At - hour) \/ Await(At - hour + Day)
        \/ stream' = [stream EXCEPT !.at = "dead", !.wait = 0]
    BY <1>4, <2>1 DEF ArmDaily
  <2>3. /\ At - hour \in Int /\ At - hour <= 2 * Day
        /\ At - hour + Day \in Int /\ At - hour + Day <= 2 * Day
    BY <1>1
  <2>4. CASE Await(At - hour)
    BY <1>1, <1>2, <2>3, <2>4
  <2>5. CASE Await(At - hour + Day)
    BY <1>1, <1>2, <2>3, <2>5
  <2>6. CASE stream' = [stream EXCEPT !.at = "dead", !.wait = 0]
    <3>1. StreamIs("dead", 0) /\ 0 \in -Late..2 * Day
      BY <2>6 DEF StreamIs
    <3> QED
      BY <1>1, <2>1, <3>1, StreamGoesOn
  <2> QED
    BY <2>2, <2>4, <2>5, <2>6
<1> QED
  BY <1>3, <1>4 DEF Arm

LEMMA FireKeepsTypes ==
    ASSUME StreamTypes, Fire
    PROVE  StreamTypes' /\ stream'.at = "fired" /\ stream'.kind = stream.kind
BY DEF StreamTypes, Fire

LEMMA ReviveTypes ==
    ASSUME StreamTypes, Revive
    PROVE  StreamTypes' /\ stream'.at = "new" /\ stream'.kind = stream.kind
<1>1. /\ StreamTypes /\ stream.at # "none" /\ 0 \in -Late..2 * Day
      /\ hour' = hour /\ calendar' = calendar
  BY HoursOfEvents DEF Revive
<1>2. StreamIs("new", 0)
  BY DEF Revive, StreamIs
<1> QED
  BY <1>1, <1>2, StreamGoesOn

\* The clock goes on by one, into the next day after the last hour.
LEMMA ClockTypes ==
    ASSUME StreamTypes, Clock, stream.at # "none"
    PROVE  /\ stream.wait \in 1 - Late..2 * Day
           /\ stream'.kind = stream.kind /\ stream'.offset = stream.offset
           /\ stream'.at = stream.at /\ stream'.wait = stream.wait - 1
           /\ \/ hour' = hour + 1 /\ hour' \in 0..Day - 1 /\ calendar' = calendar
              \/ /\ hour = Day - 1 /\ hour' = 0
                 /\ calendar'.today = calendar.tomorrow
                 /\ calendar.tomorrow = "odd" => calendar'.tomorrow = "plain"
                 /\ calendar' \in [today : {"plain", "odd"}, tomorrow : {"plain", "odd"}]
           /\ StreamTypes'
<1> USE HoursOfEvents
<1>1. /\ hour \in 0..Day - 1 /\ stream.wait \in 1 - Late..2 * Day
      /\ stream' = [stream EXCEPT !.wait = stream.wait - 1]
  BY DEF Clock, Behind, StreamTypes
<1>2. \/ hour' = hour + 1 /\ hour' \in 0..Day - 1 /\ calendar' = calendar
      \/ /\ hour = Day - 1 /\ hour' = 0
         /\ calendar'.today = calendar.tomorrow
         /\ calendar.tomorrow = "odd" => calendar'.tomorrow = "plain"
         /\ calendar' \in [today : {"plain", "odd"}, tomorrow : {"plain", "odd"}]
  BY <1>1, SchedulerAssumption DEF Clock, NextDay, StreamTypes
<1>3. /\ stream'.kind = stream.kind /\ stream'.offset = stream.offset
      /\ stream'.at = stream.at /\ stream'.wait = stream.wait - 1
  BY <1>1 DEF StreamTypes
<1>4. StreamTypes'
  BY <1>1, <1>2, <1>3 DEF StreamTypes
<1> QED
  BY <1>1, <1>2, <1>3, <1>4

\* A stream of the sun waits for the event, today or tomorrow: a day after the last one.
LEMMA ArmSunPunctual ==
    ASSUME Punctual, Arm, ArmSun, stream.offset >= 0, stream.at \in {"new", "fired"}
    PROVE  Punctual'
<1> USE HoursOfEvents
<1> DEFINE wait == UntilEvent(At) + stream.offset
<1>1. /\ stream.kind \in {"sunrise", "sunset"} /\ stream.offset \in Offsets \union {0}
      /\ stream.wait \in -Late..0 /\ hour \in 0..Day - 1
  BY DEF Punctual, StreamTypes, ArmSun, Kinds
<1>0. stream.offset \in Nat /\ Late + stream.offset < Day
  <2>1. stream.offset \in Int /\ Late + stream.offset < Day
    <3>1. CASE stream.offset \in Offsets
      BY <3>1, SchedulerAssumption
    <3>2. CASE stream.offset = 0
      BY <3>2
    <3> QED
      BY <1>1, <3>1, <3>2
  <2>2. stream.offset >= 0
    OBVIOUS
  <2> QED
    BY <2>1, <2>2
<1>2. At \in 0..Day - 1
  BY <1>1 DEF At, Kinds
<1>3. /\ wait \in 1..2 * Day
      /\ hour + wait - (At + stream.offset) \in {0, Day}
  BY <1>0, <1>1, <1>2, UntilEventIsADay
<1>4. /\ stream' = [stream EXCEPT !.at = "armed", !.wait = wait]
      /\ UNCHANGED <<hour, calendar, fires>>
  <2>1. wait > 0
    BY <1>3
  <2>2. Await(wait) /\ UNCHANGED <<hour, calendar, fires>>
    BY <1>1 DEF Arm, ArmSun, ArmDaily, At
  <2> HIDE DEF wait
  <2> QED
    BY <2>1, <2>2 DEF Await
<1>5. \A n \in fires.since : stream.at = "fired" /\ n = -stream.wait
  BY <1>1 DEF Punctual, SinceTarget
<1>6. \A n \in fires.since : n + wait = Day
  <2> SUFFICES ASSUME NEW n \in fires.since PROVE n + wait = Day
    OBVIOUS
  <2>1. n = -stream.wait /\ n \in 0..Late
    BY <1>1, <1>5
  <2>2. hour - n - (At + stream.offset) \in {-Day, 0, Day}
    BY <1>0, <1>1, <1>2, <1>5, <2>1 DEF Punctual, OnPhase
  <2>3. UntilEvent(At) \in 1..Day
    BY <1>1, <1>2, UntilEventIsADay
  <2>4. UntilEvent(At) = At - hour \/ UntilEvent(At) = At - hour + Day
    BY <1>1, <1>2, UntilEventIsADay
  <2> DEFINE until == UntilEvent(At)
             at == At
             offset == stream.offset
  <2>5. /\ until \in 1..Day /\ at \in 0..Day - 1 /\ offset \in Nat /\ Late + offset < Day
        /\ until = at - hour \/ until = at - hour + Day
        /\ hour - n - (at + offset) \in {-Day, 0, Day}
        /\ wait = until + offset
    BY <1>0, <1>2, <2>2, <2>3, <2>4
  <2> HIDE DEF until, at, offset, wait
  <2> QED
    BY <1>1, <2>1, <2>5
<1> HIDE DEF wait
<1>7. /\ stream'.kind = stream.kind /\ stream'.offset = stream.offset
      /\ stream'.at = "armed" /\ stream'.wait = wait
      /\ StreamTypes'
  <2>1. /\ StreamTypes /\ stream.at # "none" /\ wait \in -Late..2 * Day
           /\ hour' = hour /\ calendar' = calendar
    BY <1>1, <1>3, <1>4 DEF Punctual
  <2>2. StreamIs("armed", wait)
    BY <1>4 DEF StreamIs
  <2> QED
    BY <2>1, <2>2, StreamGoesOn
<1>8. FireTypes' /\ OnPhase'
  BY <1>3, <1>4, <1>7 DEF Punctual, FireTypes, OnPhase, At
<1>9. SinceTarget' /\ GapIsADay'
  BY <1>4, <1>6, <1>7 DEF Punctual, SinceTarget, GapIsADay
<1> QED
  BY <1>7, <1>8, <1>9 DEF Punctual

\* A stream of a local time waits for it, today or tomorrow, or the process panics
\* because tomorrow is an odd day.
LEMMA ArmDailyPunctual ==
    ASSUME Punctual, Arm, ArmDaily, stream.at \in {"new", "fired"}
    PROVE  Punctual'
<1> USE HoursOfEvents
<1>1. /\ stream.kind = "daily" /\ stream.offset = 0
      /\ stream.wait \in -Late..0 /\ hour \in 0..Day - 1
      /\ At = EventAt["daily"] /\ At \in 0..Day - 1
      /\ UNCHANGED <<hour, calendar, fires>>
  BY DEF Punctual, StreamTypes, Arm, ArmDaily, At, Kinds
<1>2. /\ calendar.today \in {"plain", "odd"} /\ calendar.tomorrow \in {"plain", "odd"}
      /\ calendar.today = "odd" => calendar.tomorrow = "plain" /\ fires.odd
  BY DEF Punctual, StreamTypes, FireTypes
<1>3. \A n \in fires.since :
          /\ n \in Int
          /\ \/ /\ stream.at = "fired" /\ n = -stream.wait
                /\ n = hour - At \/ n = hour - At + Day
             \/ /\ stream.at = "new"
                /\ OddDay(n)
  <2>1. ASSUME NEW n \in fires.since, stream.at = "fired"
        PROVE  n = -stream.wait /\ (n = hour - At \/ n = hour - At + Day)
    BY <1>1, <2>1 DEF Punctual, SinceTarget, OnPhase
  <2> QED
    BY <2>1 DEF Punctual, SinceTarget, FireTypes
<1>4. CASE calendar.today = "plain" /\ At > hour
  <2> DEFINE wait == At - hour
  <2>1. wait \in 1..Day /\ hour + wait = At
    BY <1>1, <1>4
  <2>2. stream' = [stream EXCEPT !.at = "armed", !.wait = wait]
    <3>1. wait > 0
      BY <2>1
    <3>2. Await(wait)
      BY <1>1, <1>4 DEF ArmDaily
    <3> HIDE DEF wait
    <3> QED
      BY <3>1, <3>2 DEF Await
  <2>3. \A n \in fires.since : n + wait = Day
    BY <1>1, <1>3, <1>4 DEF OddDay
  <2> HIDE DEF wait
  <2>4. /\ stream'.kind = "daily" /\ stream'.offset = 0
        /\ stream'.at = "armed" /\ stream'.wait = wait
        /\ StreamTypes'
    <3>1. /\ StreamTypes /\ stream.at # "none" /\ wait \in -Late..2 * Day
           /\ hour' = hour /\ calendar' = calendar
      BY <1>1, <2>1 DEF Punctual
    <3>2. StreamIs("armed", wait)
      BY <2>2 DEF StreamIs
    <3> QED
      BY <1>1, <3>1, <3>2, StreamGoesOn
  <2>5. FireTypes' /\ OnPhase'
    <3>1. At' = At
      BY <1>1, <2>4 DEF At
    <3> QED
      BY <1>1, <2>1, <2>4, <3>1 DEF Punctual, FireTypes, OnPhase
  <2>6. SinceTarget' /\ GapIsADay'
    BY <1>1, <2>3, <2>4 DEF Punctual, SinceTarget, GapIsADay
  <2> QED
    BY <2>4, <2>5, <2>6 DEF Punctual
<1>5. CASE ~(calendar.today = "plain" /\ At > hour) /\ calendar.tomorrow = "plain"
  <2> DEFINE wait == At - hour + Day
  <2>1. wait \in 1..2 * Day /\ hour + wait = At + Day
    BY <1>1
  <2>2. stream' = [stream EXCEPT !.at = "armed", !.wait = wait]
    <3>1. wait > 0
      BY <2>1
    <3>2. Await(wait)
      BY <1>1, <1>5 DEF ArmDaily
    <3> HIDE DEF wait
    <3> QED
      BY <3>1, <3>2 DEF Await
  <2>3. \A n \in fires.since : n + wait = Day \/ (n + wait = 2 * Day /\ fires.odd)
    BY <1>1, <1>2, <1>3, <1>5 DEF OddDay
  <2> HIDE DEF wait
  <2>4. /\ stream'.kind = "daily" /\ stream'.offset = 0
        /\ stream'.at = "armed" /\ stream'.wait = wait
        /\ StreamTypes'
    <3>1. /\ StreamTypes /\ stream.at # "none" /\ wait \in -Late..2 * Day
           /\ hour' = hour /\ calendar' = calendar
      BY <1>1, <2>1 DEF Punctual
    <3>2. StreamIs("armed", wait)
      BY <2>2 DEF StreamIs
    <3> QED
      BY <1>1, <3>1, <3>2, StreamGoesOn
  <2>5. FireTypes' /\ OnPhase'
    <3>1. At' = At
      BY <1>1, <2>4 DEF At
    <3> QED
      BY <1>1, <2>1, <2>4, <3>1 DEF Punctual, FireTypes, OnPhase
  <2>6. SinceTarget' /\ GapIsADay'
    BY <1>1, <2>3, <2>4 DEF Punctual, SinceTarget, GapIsADay
  <2> QED
    BY <2>4, <2>5, <2>6 DEF Punctual
<1>6. CASE ~(calendar.today = "plain" /\ At > hour) /\ calendar.tomorrow # "plain"
  <2>1. /\ stream' = [stream EXCEPT !.at = "dead", !.wait = 0]
        /\ calendar.today = "plain" /\ calendar.tomorrow = "odd" /\ At <= hour
    BY <1>1, <1>2, <1>6 DEF ArmDaily
  <2>2. \A n \in fires.since : n = hour - At /\ n >= 0
    BY <1>1, <1>3, <2>1 DEF OddDay
  <2>3. /\ stream'.kind = "daily" /\ stream'.offset = 0
        /\ stream'.at = "dead" /\ stream'.wait = 0
        /\ StreamTypes'
    <3>1. /\ StreamTypes /\ stream.at # "none" /\ 0 \in -Late..2 * Day
           /\ hour' = hour /\ calendar' = calendar
      BY <1>1 DEF Punctual
    <3>2. StreamIs("dead", 0)
      BY <2>1 DEF StreamIs
    <3> QED
      BY <1>1, <3>1, <3>2, StreamGoesOn
  <2>4. FireTypes' /\ OnPhase'
    BY <1>1, <2>3 DEF Punctual, FireTypes, OnPhase, At
  <2>5. SinceTarget' /\ GapIsADay'
    BY <1>1, <2>1, <2>2, <2>3 DEF Punctual, SinceTarget, OddDay, GapIsADay, At
  <2> QED
    BY <2>3, <2>4, <2>5 DEF Punctual
<1> QED
  BY <1>4, <1>5, <1>6

LEMMA FirePunctual == ASSUME Punctual, Fire PROVE Punctual'
<1> USE HoursOfEvents
<1> DEFINE late == -stream.wait
<1>1. /\ stream.at = "armed" /\ stream.wait \in -Late..0
      /\ stream' = [stream EXCEPT !.at = "fired"]
      /\ UNCHANGED <<hour, calendar>>
      /\ fires'.since = {late}
      /\ fires'.gap = {n + stream.wait : n \in fires.since}
      /\ fires'.excused = fires.odd
      /\ fires'.odd = (calendar.today # "plain")
  BY DEF Fire, Punctual, StreamTypes
<1>2. /\ stream'.kind = stream.kind /\ stream'.offset = stream.offset
      /\ stream'.at = "fired" /\ stream'.wait = stream.wait
      /\ StreamTypes'
  BY <1>1 DEF Punctual, StreamTypes
<1>3. FireTypes'
  BY DEF Punctual, StreamTypes, FireTypes, Fire
<1>4. OnPhase' /\ SinceTarget'
  BY <1>1, <1>2 DEF Punctual, OnPhase, SinceTarget, At
<1>5. GapIsADay'
  BY <1>1, <1>2 DEF Punctual, FireTypes, SinceTarget, GapIsADay
<1> QED
  BY <1>2, <1>3, <1>4, <1>5 DEF Punctual

LEMMA RevivePunctual == ASSUME Punctual, Revive PROVE Punctual'
<1> USE HoursOfEvents
<1>1. /\ stream.at = "dead" /\ stream.kind = "daily" /\ stream.wait \in -Late..-1
      /\ stream' = [stream EXCEPT !.at = "new", !.wait = 0]
      /\ UNCHANGED <<hour, calendar, fires>>
      /\ hour \in 0..Day - 1 /\ At \in 0..Day - 1
  BY DEF Revive, Punctual, StreamTypes, At, Kinds
<1>2. /\ stream'.kind = "daily" /\ stream'.offset = stream.offset
      /\ stream'.at = "new" /\ stream'.wait = 0
      /\ StreamTypes'
  <2>1. /\ StreamTypes /\ stream.at # "none" /\ 0 \in -Late..2 * Day
           /\ hour' = hour /\ calendar' = calendar
    BY <1>1 DEF Punctual
  <2>2. StreamIs("new", 0)
    BY <1>1 DEF StreamIs
  <2> QED
    BY <1>1, <2>1, <2>2, StreamGoesOn
<1>3. FireTypes' /\ OnPhase' /\ GapIsADay'
  BY <1>1, <1>2 DEF Punctual, FireTypes, OnPhase, GapIsADay
<1>4. \A n \in fires.since : OddDay(n)
  BY <1>1 DEF Punctual, SinceTarget
<1>5. SinceTarget'
  BY <1>1, <1>2, <1>4 DEF SinceTarget, OddDay, At
<1> QED
  BY <1>2, <1>3, <1>5 DEF Punctual

\* Time passes: what is left becomes less by what passes.
LEMMA ClockPunctual ==
    ASSUME Punctual, Clock, stream.at # "none"
    PROVE  Punctual'
<1> USE HoursOfEvents
<1>0. stream.offset \in Int /\ Late + stream.offset < Day
  <2>1. CASE stream.offset \in Offsets
    BY <2>1, SchedulerAssumption
  <2>2. CASE stream.offset = 0
    BY <2>2
  <2> QED
    BY <2>1, <2>2 DEF Punctual, StreamTypes
<1>1. /\ hour \in 0..Day - 1 /\ At \in 0..Day - 1
      /\ stream.wait \in 1 - Late..2 * Day
  BY ClockTypes DEF Punctual, StreamTypes, At, Kinds
<1> DEFINE since == {n + 1 : n \in fires.since}
           odd == fires.odd \/ calendar'.today # "plain"
<1>10. since \in SUBSET Int /\ odd \in BOOLEAN
  BY DEF Punctual, FireTypes
<1>11. /\ fires' = [fires EXCEPT !.since = since, !.odd = odd]
  BY DEF Clock, Punctual, FireTypes
<1>12. /\ fires'.since = since /\ fires'.odd = odd
       /\ fires'.gap = fires.gap /\ fires'.excused = fires.excused
       /\ fires' \in [since : SUBSET Int, gap : SUBSET Int, odd : BOOLEAN, excused : BOOLEAN]
  <2> HIDE DEF since, odd
  <2> QED
    BY <1>10, <1>11 DEF Punctual, FireTypes
<1>2. \/ hour' = hour + 1 /\ hour' \in 0..Day - 1 /\ calendar' = calendar
      \/ /\ hour = Day - 1 /\ hour' = 0
         /\ calendar'.today = calendar.tomorrow
         /\ calendar.tomorrow = "odd" => calendar'.tomorrow = "plain"
         /\ calendar' \in [today : {"plain", "odd"}, tomorrow : {"plain", "odd"}]
  BY ClockTypes DEF Punctual
<1>3. /\ stream'.kind = stream.kind /\ stream'.offset = stream.offset
      /\ stream'.at = stream.at /\ stream'.wait = stream.wait - 1
  BY ClockTypes DEF Punctual
<1>4. StreamTypes'
  BY ClockTypes DEF Punctual
<1>5. FireTypes'
  BY <1>4, <1>12 DEF Punctual, StreamTypes, FireTypes
<1>13. At' = At
  BY <1>3 DEF At
<1>6. OnPhase'
  <2> DEFINE ahead == hour + stream.wait - (At + stream.offset)
             new == hour' + (stream.wait - 1) - (At + stream.offset)
  <2>1. new = ahead \/ new = ahead - Day
    BY <1>0, <1>1, <1>2
  <2>2. ahead \in {-Day, 0, Day} => new \in {-Day, 0, Day}
    <3>1. new > -2 * Day
      BY <1>0, <1>1, <1>2
    <3>2. ahead \in Int /\ new \in Int
      BY <1>0, <1>1, <1>2
    <3> HIDE DEF ahead, new
    <3> QED
      BY <2>1, <3>1, <3>2
  <2> QED
    BY <1>3, <1>13, <2>2 DEF Punctual, OnPhase
<1>7. ASSUME NEW n \in fires.since PROVE
        /\ stream.at = "fired" => n + 1 = -(stream.wait - 1)
        /\ stream.at = "armed" =>
              \/ n + 1 + (stream.wait - 1) = Day
              \/ /\ n + 1 + (stream.wait - 1) = 2 * Day
                 /\ stream.kind = "daily" /\ fires'.odd
        /\ stream.at \in {"new", "dead"} => stream.kind = "daily" /\ OddDay(n + 1)'
  <2>1. n \in Int
    BY DEF Punctual, FireTypes
  <2>2. stream.at = "fired" => n = -stream.wait
    BY DEF Punctual, SinceTarget
  <2>3. stream.at = "armed" =>
            \/ n + stream.wait = Day
            \/ n + stream.wait = 2 * Day /\ stream.kind = "daily" /\ fires'.odd
    BY <1>12 DEF Punctual, SinceTarget
  <2>4. ASSUME stream.at \in {"new", "dead"} PROVE stream.kind = "daily" /\ OddDay(n + 1)'
    <3>1. stream.kind = "daily" /\ OddDay(n) /\ stream.wait <= 0
      BY <2>4 DEF Punctual, SinceTarget, StreamTypes
    <3>2. calendar.today = "odd" => calendar.tomorrow = "plain"
      BY DEF Punctual, StreamTypes
    <3> QED
      BY <1>1, <1>2, <1>3, <1>13, <2>1, <2>4, <3>1, <3>2 DEF OddDay
  <2> QED
    BY <1>1, <2>1, <2>2, <2>3, <2>4
<1>8. SinceTarget'
  BY <1>3, <1>7, <1>12 DEF SinceTarget
<1>9. GapIsADay'
  BY <1>3, <1>12 DEF Punctual, GapIsADay
<1> QED
  BY <1>4, <1>5, <1>6, <1>8, <1>9 DEF Punctual

-----------------------------------------------------------------------------
(* The status page *)

Section == IF task = "timer" THEN "Timer" ELSE "Appliance"

\* A page is new or has the one section.
IsPage(p, s) ==
    /\ p = [evals |-> p.evals, sections |-> p.sections, order |-> p.order]
    /\ p.evals \in Nat
    /\ \/ p.order = << >> /\ p.sections = << >> /\ p.evals = 0
       \/ p.order = << s >> /\ p.sections = [name \in {s} |-> p.sections[s]]

Content(p, s) == IF p.order = << >> THEN << >> ELSE p.sections[s]

\* Pairs that are set are put into the section of a page, which is made if need be.
LEMMA SetManyPuts ==
    ASSUME NEW p, NEW s, IsPage(p, s), NEW pairs
    PROVE  LET q == SetMany(p, s, pairs) IN
           /\ IsPage(q, s) /\ q.order = << s >> /\ q.evals = p.evals
           /\ Content(q, s) = Updated(pairs, Content(p, s))
<1> DEFINE content == Content(p, s)
           e == EnsureSection(p, s)
           q == SetMany(p, s, pairs)
           new == Updated(pairs, content)
<1>1. e = [evals |-> p.evals, sections |-> [name \in {s} |-> content], order |-> << s >>]
  <2>1. CASE p.order = << >> /\ p.sections = << >>
    <3>1. e = [p EXCEPT !.order = Append(<< >>, s), !.sections = Updated(Entry(s, << >>), << >>)]
      BY <2>1 DEF EnsureSection
    <3>2. Updated(Entry(s, << >>), << >>) = [name \in {s} |-> << >>]
      BY DEF Updated, Entry
    <3>3. Append(<< >>, s) = << s >>
      OBVIOUS
    <3> DEFINE sections == [name \in {s} |-> << >>]
               order == << s >>
               evals == p.evals
    <3>4. p = [evals |-> evals, sections |-> << >>, order |-> << >>]
      BY <2>1 DEF IsPage
    <3>5. e = [p EXCEPT !.order = order, !.sections = sections]
      BY <3>1, <3>2, <3>3
    <3> HIDE DEF sections, order, evals, e
    <3>6. e = [evals |-> evals, sections |-> sections, order |-> order]
      BY <3>4, <3>5
    <3> QED
      BY <2>1, <3>6 DEF sections, order, evals, Content
  <2>2. CASE p.order = << s >> /\ p.sections = [name \in {s} |-> p.sections[s]]
    <3>1. e = p
      BY <2>2 DEF EnsureSection
    <3>2. content = p.sections[s]
      BY <2>2 DEF Content
    <3> QED
      BY <2>2, <3>1, <3>2 DEF IsPage
  <2> QED
    BY <2>1, <2>2 DEF IsPage
<1>2. q = [e EXCEPT !.sections[s] = Updated(pairs, e.sections[s])]
  BY DEF SetMany
<1>3. e.sections[s] = content
  BY <1>1
<1> HIDE DEF content, e, q
<1>4. q = [e EXCEPT !.sections[s] = new]
  BY <1>2, <1>3
<1> HIDE DEF new
<1>5. q = [evals |-> p.evals, sections |-> [name \in {s} |-> new], order |-> << s >>]
  BY <1>1, <1>4
<1> HIDE DEF q
<1>6. IsPage(q, s) /\ q.order = << s >> /\ q.evals = p.evals /\ Content(q, s) = new
  BY <1>5 DEF IsPage, Content
<1> QED
  BY <1>6 DEF q, new, content

LEMMA EvaluatedCounts ==
    ASSUME NEW p, NEW s, IsPage(p, s), p.order = << s >>
    PROVE  LET q == Evaluated(p) IN
           IsPage(q, s) /\ q.order = << s >> /\ q.sections = p.sections
<1> DEFINE evals == IF p.evals < MaxEvals THEN p.evals + 1 ELSE p.evals
           q == Evaluated(p)
<1>1. evals \in Nat
  BY DEF IsPage
<1>2. q = [p EXCEPT !.evals = evals]
  BY DEF Evaluated, IsPage
<1> HIDE DEF evals
<1>3. q = [evals |-> evals, sections |-> p.sections, order |-> p.order]
  BY <1>2 DEF IsPage
<1> HIDE DEF q
<1> QED
  BY <1>1, <1>3 DEF IsPage, q

\* An answer lists the section, with its values as they are or rendered.
LEMMA AnswerLists ==
    ASSUME NEW p, NEW s, IsPage(p, s), p.order = << s >>
    PROVE  /\ DOMAIN Answer(p, TRUE).sections[1] = DOMAIN Content(p, s)
           /\ \A key \in DOMAIN Content(p, s) :
                /\ Answer(p, TRUE).sections[1][key] = Content(p, s)[key]
                /\ Answer(p, FALSE).sections[1][key] = Fragment(Content(p, s)[key])
<1>1. s \in DOMAIN p.sections
  BY DEF IsPage
<1>2. Content(p, s) = p.sections[s]
  BY DEF Content
<1> DEFINE values == Content(p, s)
<1>3. 1 \in DOMAIN Listed(p) /\ Listed(p)[1].values = values
  BY <1>1, <1>2 DEF Listed
<1> HIDE DEF values
<1>4. /\ Answer(p, TRUE).sections[1] = [key \in DOMAIN values |-> values[key]]
      /\ Answer(p, FALSE).sections[1] = [key \in DOMAIN values |-> Fragment(values[key])]
  BY <1>3 DEF Answer
<1> QED
  BY <1>4 DEF values

\* The loop is where its task has it, and a stream is there for a timer only.
LoopTypes ==
    /\ task \in {"none", "appliance", "timer", "lights"}
    /\ task = "none" <=> place = "start"
    /\ task \in {"timer", "lights"} => place = "idle"
    /\ place \in {"start", "idle", "evaluated", "state told", "power told"}
    /\ task = "timer" <=> stream.at # "none"
    /\ stream.at = "none" => fires.since = {} /\ fires.gap = {}
    /\ event \in {"none", "started", "finished"}
    /\ deploy \in [Deployments -> {"start", "create", "save", "done", "failed"}]

HasPower(values) ==
    /\ {"Power", "Peak"} \subseteq DOMAIN values
    /\ values["Power"] = Text(watts) /\ values["Peak"] = Text(fsm.peak)
HasState(values) == "State" \in DOMAIN values /\ values["State"] = Pills(fsm.state, PowerStates)
HasNext(values) ==
    /\ "Next" \in DOMAIN values
    /\ stream.at = "armed" => \E wait \in 0..2 * Day :
          values["Next"] = Countdown(wait, Day) /\ wait >= stream.wait
    /\ stream.at = "fired" => values["Next"] = Cleared

\* The page has what the loop has told so far.
PageInv ==
    /\ IsPage(page, Section)
    /\ task \in {"none", "lights"} => page = NewPage
    /\ task = "appliance" =>
          /\ (place \in {"state told", "power told"} \/ (place = "idle" /\ page.evals > 0)) =>
                HasState(Content(page, Section))
          /\ (place = "power told" \/ (place = "idle" /\ page.evals > 0)) =>
                HasPower(Content(page, Section))
    /\ task = "timer" =>
          /\ stream.at \in {"armed", "fired"} => HasNext(Content(page, Section))
          /\ page.evals > 0 => "Sun" \in DOMAIN Content(page, Section)

LoopInv == IInv /\ StreamTypes /\ LoopTypes /\ PageInv

LEMMA InitLoopInv == Init => LoopInv
<1> SUFFICES ASSUME Init PROVE LoopInv
  OBVIOUS
<1>1. IInv /\ StreamTypes
  BY InitIInv, InitPunctual DEF Init, Punctual
<1>2. LoopTypes
  BY DEF Init, PowerInit, SchedulerInit, NoStream, DashboardInit, LoopTypes
<1>3. PageInv
  BY DEF Init, NewPage, PageInv, IsPage
<1> QED
  BY <1>1, <1>2, <1>3 DEF LoopInv

\* A start goes from one step to another.
LEMMA BootDeploys ==
    ASSUME LoopTypes, Boot
    PROVE  deploy' \in [Deployments -> {"start", "create", "save", "done", "failed"}]
<1>1. ASSUME NEW d \in Deployments, Ensure(d)
      PROVE  \E next \in {"start", "create", "save", "done", "failed"} :
                deploy' = [deploy EXCEPT ![d] = next]
  <2>1. CASE List(d)
    BY <2>1 DEF List, Request
  <2>2. CASE Create(d)
    BY <2>2 DEF Create, Request, Refuse
  <2>3. CASE Save(d)
    BY <2>3 DEF Save, Request, Refuse
  <2>4. CASE Restart(d)
    BY <2>4 DEF Restart
  <2> QED
    BY <1>1, <2>1, <2>2, <2>3, <2>4 DEF Ensure
<1>2. CASE \E d \in Deployments : Ensure(d)
  BY <1>1, <1>2 DEF LoopTypes
<1>3. CASE Manage
  BY <1>3 DEF Manage, LoopTypes
<1> QED
  BY <1>2, <1>3 DEF Boot

LEMMA BootKeeps == ASSUME LoopInv, Boot PROVE StreamTypes' /\ LoopTypes' /\ PageInv'
<1>1. /\ UNCHANGED <<fsm, event, watts, streak>> /\ UNCHANGED <<hour, calendar, stream, fires>>
      /\ UNCHANGED <<task, place, waited, page>>
  BY DEF Boot, powerVars, schedulerVars, loopVars
<1>2. StreamTypes'
  BY <1>1 DEF LoopInv, StreamTypes
<1>3. LoopTypes'
  BY <1>1, BootDeploys DEF LoopInv, LoopTypes
<1>4. PageInv'
  BY <1>1 DEF LoopInv, PageInv, HasState, HasPower, HasNext, Section
<1> QED
  BY <1>2, <1>3, <1>4

LEMMA EnterLoopKeeps == ASSUME LoopInv, EnterLoop PROVE StreamTypes' /\ LoopTypes' /\ PageInv'
<1>1. /\ place = "start" /\ place' = "idle" /\ task = "none" /\ page = NewPage
      /\ UNCHANGED <<fsm, event, watts, streak, boards, deploy, left, waited, page>>
  BY DEF EnterLoop, powerVars, dashboardVars, LoopInv, LoopTypes, PageInv
<1>2. \/ task' \in {"appliance", "lights"} /\ UNCHANGED <<hour, calendar, stream, fires>>
      \/ task' = "timer" /\ NewStream
  BY DEF EnterLoop, schedulerVars
<1>3. StreamTypes' /\ (NewStream => stream'.at = "new")
  <2>1. CASE NewStream
    BY <2>1, HoursOfEvents, SchedulerAssumption DEF NewStream, StreamTypes, Kinds, LoopInv
  <2> QED
    BY <1>2, <2>1 DEF StreamTypes, LoopInv
<1>4. LoopTypes'
  BY <1>1, <1>2, <1>3 DEF LoopInv, LoopTypes
<1>5. PageInv'
  BY <1>1, <1>2, <1>3 DEF NewPage, PageInv, IsPage
<1> QED
  BY <1>3, <1>4, <1>5

LEMMA EvaluateKeeps == ASSUME LoopInv, Evaluate PROVE StreamTypes' /\ LoopTypes' /\ PageInv'
<1>1. /\ task = "appliance" /\ place' = "evaluated"
      /\ UNCHANGED <<hour, calendar, stream, fires, boards, deploy, left, task, page>>
  BY DEF Evaluate, schedulerVars, dashboardVars
<1>2. event' \in {"none", "started", "finished"}
  BY DEF Evaluate, Update, EventOf
<1>3. StreamTypes'
  BY <1>1 DEF LoopInv, StreamTypes
<1>4. LoopTypes'
  BY <1>1, <1>2 DEF LoopInv, LoopTypes
<1>5. PageInv'
  BY <1>1 DEF LoopInv, PageInv, Section
<1> QED
  BY <1>3, <1>4, <1>5

LEMMA TellingKeeps == ASSUME LoopInv, Telling PROVE StreamTypes' /\ LoopTypes' /\ PageInv'
<1>1. /\ UNCHANGED <<fsm, event, watts, streak, hour, calendar, stream, fires>>
      /\ UNCHANGED <<boards, deploy, left, task, waited>>
  BY DEF Telling, TellState, TellPower, TellEvaluated, Tell, powerVars, schedulerVars,
         dashboardVars
<1>2. place \in {"evaluated", "state told", "power told"}
      /\ place' \in {"idle", "state told", "power told"}
  BY DEF Telling, TellState, TellPower, TellEvaluated, Tell
<1>3. task = "appliance"
  BY <1>2 DEF LoopInv, LoopTypes
<1>4. StreamTypes' /\ LoopTypes'
  BY <1>1, <1>2, <1>3 DEF LoopInv, StreamTypes, LoopTypes
<1>5. Section = "Appliance" /\ Section' = "Appliance" /\ IsPage(page, "Appliance")
  BY <1>1, <1>3 DEF Section, LoopInv, PageInv
<1> DEFINE values == Content(page, "Appliance")
<1>6. CASE TellState
  <2> DEFINE pairs == Entry("State", Pills(fsm.state, PowerStates))
  <2>1. /\ place' = "state told"
        /\ page' = SetMany(page, "Appliance", pairs)
    BY <1>6 DEF TellState, Tell, Put
  <2>2. HasState(Updated(pairs, values))
    BY DEF HasState, Updated, Entry
  <2> HIDE DEF pairs, values
  <2>3. /\ IsPage(page', "Appliance")
        /\ Content(page', "Appliance") = Updated(pairs, Content(page, "Appliance"))
    BY <1>5, <2>1, SetManyPuts
  <2> QED
    BY <1>1, <1>3, <1>4, <1>5, <2>1, <2>2, <2>3 DEF PageInv, HasState, values
<1>7. CASE TellPower
  <2> DEFINE pairs == [Power |-> Text(watts), Peak |-> Text(fsm.peak)]
  <2>1. /\ place = "state told" /\ place' = "power told"
        /\ page' = SetMany(page, "Appliance", pairs)
    BY <1>7 DEF TellPower, Tell
  <2>2. HasState(values)
    BY <1>3, <1>5, <2>1 DEF LoopInv, PageInv
  <2>3. HasState(Updated(pairs, values)) /\ HasPower(Updated(pairs, values))
    BY <2>2 DEF HasState, HasPower, Updated
  <2> HIDE DEF pairs, values
  <2>4. /\ IsPage(page', "Appliance")
        /\ Content(page', "Appliance") = Updated(pairs, Content(page, "Appliance"))
    BY <1>5, <2>1, SetManyPuts
  <2> QED
    BY <1>1, <1>3, <1>4, <1>5, <2>1, <2>3, <2>4 DEF PageInv, HasState, HasPower, values
<1>8. CASE TellEvaluated
  <2>1. /\ place = "power told" /\ place' = "idle"
        /\ page' = Evaluated(page)
    BY <1>8 DEF TellEvaluated, Tell
  <2>2. HasState(values) /\ HasPower(values)
    BY <1>3, <1>5, <2>1 DEF LoopInv, PageInv
  <2>3. page.order = << "Appliance" >>
    BY <1>5, <2>2 DEF IsPage, HasState, Content
  <2>4. IsPage(page', "Appliance") /\ Content(page', "Appliance") = values
    BY <1>5, <2>1, <2>3, EvaluatedCounts DEF Content
  <2> HIDE DEF values
  <2> QED
    BY <1>1, <1>3, <1>4, <1>5, <2>1, <2>2, <2>4 DEF PageInv, HasState, HasPower
<1> QED
  BY <1>4, <1>6, <1>7, <1>8 DEF Telling

LEMMA WaitKeeps == ASSUME LoopInv, Wait PROVE StreamTypes' /\ LoopTypes' /\ PageInv'
BY DEF Wait, LoopInv, powerVars, schedulerVars, dashboardVars, StreamTypes, LoopTypes,
       PageInv, HasState, HasPower, Section

\* A countdown shows a percentage.
LEMMA PercentInRange ==
    ASSUME NEW remaining \in 0..2 * Day
    PROVE  Fragment(Countdown(remaining, Day)) \in 0..100
<1> DEFINE percent == (remaining * 100) \div Day
<1>1. Fragment(Countdown(remaining, Day)) =
        IF Day = 0 THEN 0 ELSE IF remaining > Day THEN 100 ELSE percent
  BY DEF Fragment, Countdown
<1>2. ASSUME remaining <= Day PROVE percent \in 0..100
  <2>1. remaining * 100 \in 0..Day * 100
    BY <1>2, HoursOfEvents
  <2> DEFINE hundredfold == remaining * 100
  <2>2. \A a \in Nat, d \in Nat \ {0} : a <= d * 100 => a \div d \in 0..100
    OBVIOUS
  <2> QED
    BY <2>1, <2>2, HoursOfEvents
<1> QED
  BY <1>1, <1>2, HoursOfEvents

LEMMA AwaitTimeKeeps == ASSUME LoopInv, AwaitTime PROVE StreamTypes' /\ LoopTypes' /\ PageInv'
<1>1. /\ UNCHANGED <<fsm, event, watts, streak, boards, deploy, left, task, place, waited>>
      /\ Arm /\ task = "timer"
  BY DEF AwaitTime, powerVars, dashboardVars
<1>2. /\ StreamTypes' /\ UNCHANGED <<hour, calendar, fires>>
      /\ stream'.at \in {"armed", "dead"}
      /\ stream'.at = "armed" => stream'.wait \in 0..2 * Day
  BY <1>1, ArmTypes DEF LoopInv
<1>3. LoopTypes'
  BY <1>1, <1>2 DEF LoopInv, LoopTypes
<1>4. Section = "Timer" /\ Section' = "Timer" /\ IsPage(page, "Timer")
  BY <1>1 DEF Section, LoopInv, PageInv
<1>5. CASE stream'.at = "armed"
  <2> DEFINE pairs == Entry("Next", Countdown(stream'.wait, Day))
             values == Content(page, "Timer")
             new == Updated(pairs, values)
  <2>1. page' = SetMany(page, "Timer", pairs)
    BY <1>5 DEF AwaitTime, Put
  <2>2. "Next" \in DOMAIN new /\ new["Next"] = Countdown(stream'.wait, Day)
    BY DEF Updated, Entry
  <2>3. page.evals > 0 => "Sun" \in DOMAIN new
    BY <1>1, <1>4 DEF LoopInv, PageInv, Updated
  <2> HIDE DEF pairs
  <2>4. /\ IsPage(page', "Timer") /\ page'.evals = page.evals
        /\ Content(page', "Timer") = new
    BY <1>4, <2>1, SetManyPuts
  <2> HIDE DEF new
  <2>5. HasNext(Content(page, Section))'
    BY <1>2, <1>4, <1>5, <2>2, <2>4 DEF HasNext
  <2> QED
    BY <1>1, <1>2, <1>3, <1>4, <1>5, <2>3, <2>4, <2>5 DEF PageInv
<1>6. CASE stream'.at # "armed"
  <2>1. page' = page
    BY <1>6 DEF AwaitTime
  <2> QED
    BY <1>1, <1>2, <1>3, <1>4, <1>6, <2>1 DEF LoopInv, PageInv
<1> QED
  BY <1>2, <1>3, <1>5, <1>6

LEMMA TimeHasComeKeeps ==
    ASSUME LoopInv, TimeHasCome
    PROVE  StreamTypes' /\ LoopTypes' /\ PageInv'
<1> DEFINE pairs == [Next |-> Cleared, Sun |-> Bool(IsSunUp)]
           set == SetMany(page, "Timer", pairs)
           new == Updated(pairs, Content(page, "Timer"))
<1>1. /\ UNCHANGED <<fsm, event, watts, streak, boards, deploy, left, task, place, waited>>
      /\ Fire /\ task = "timer" /\ page' = Evaluated(set)
  BY DEF TimeHasCome, powerVars, dashboardVars
<1>2. StreamTypes' /\ stream'.at = "fired"
  BY <1>1, FireKeepsTypes DEF LoopInv
<1>3. LoopTypes'
  BY <1>1, <1>2 DEF LoopInv, LoopTypes
<1>4. Section = "Timer" /\ Section' = "Timer" /\ IsPage(page, "Timer")
  BY <1>1 DEF Section, LoopInv, PageInv
<1>5. {"Next", "Sun"} \subseteq DOMAIN new /\ new["Next"] = Cleared
  BY DEF Updated
<1> HIDE DEF pairs
<1>6. IsPage(set, "Timer") /\ set.order = << "Timer" >> /\ Content(set, "Timer") = new
  BY <1>4, SetManyPuts
<1> HIDE DEF set, new
<1>7. IsPage(page', "Timer") /\ page'.order = << "Timer" >> /\ page'.sections = set.sections
  BY <1>1, <1>6, EvaluatedCounts
<1>8. Content(page', "Timer") = new
  BY <1>6, <1>7 DEF Content
<1>9. HasNext(Content(page, Section))'
  BY <1>2, <1>4, <1>5, <1>8 DEF HasNext
<1> QED
  BY <1>1, <1>2, <1>3, <1>4, <1>5, <1>7, <1>8, <1>9 DEF PageInv

LEMMA StartAnewKeeps ==
    ASSUME LoopInv, StartAnew
    PROVE  StreamTypes' /\ LoopTypes' /\ PageInv'
<1>1. /\ UNCHANGED <<fsm, event, watts, streak, boards, deploy, left, task, place, waited>>
      /\ Revive /\ task = "timer" /\ page' = NewPage
  BY DEF StartAnew, powerVars, dashboardVars
<1>2. StreamTypes' /\ stream'.at = "new"
  BY <1>1, ReviveTypes DEF LoopInv
<1>3. LoopTypes'
  BY <1>1, <1>2 DEF LoopInv, LoopTypes
<1>4. PageInv'
  BY <1>1, <1>2 DEF PageInv, IsPage, NewPage
<1> QED
  BY <1>2, <1>3, <1>4

LEMMA PassTimeKeeps ==
    ASSUME LoopInv, PassTime
    PROVE  StreamTypes' /\ LoopTypes' /\ PageInv'
<1>1. /\ UNCHANGED <<fsm, event, watts, streak, boards, deploy, left, task, place, waited, page>>
      /\ Clock /\ task = "timer" /\ stream.at # "none"
  BY DEF PassTime, powerVars, dashboardVars, loopVars, LoopInv, LoopTypes
<1>2. /\ StreamTypes' /\ stream'.at = stream.at
      /\ stream.wait \in 1 - Late..2 * Day /\ stream'.wait = stream.wait - 1
  BY <1>1, ClockTypes DEF LoopInv
<1>3. LoopTypes'
  BY <1>1, <1>2 DEF LoopInv, LoopTypes
<1>4. Section = "Timer" /\ Section' = "Timer"
  BY <1>1 DEF Section
<1>5. ASSUME stream.at \in {"armed", "fired"}
      PROVE  HasNext(Content(page, "Timer"))'
  <2> DEFINE values == Content(page, "Timer")
  <2>1. HasNext(values)
    BY <1>1, <1>4, <1>5 DEF LoopInv, PageInv
  <2>2. Content(page, "Timer")' = values
    BY <1>1
  <2> HIDE DEF values
  <2>3. ASSUME NEW wait \in 0..2 * Day, wait >= stream.wait
        PROVE  wait >= stream'.wait
    BY <1>2, <2>3, HoursOfEvents
  <2> QED
    BY <1>2, <2>1, <2>2, <2>3 DEF HasNext
<1>6. PageInv'
  BY <1>1, <1>2, <1>4, <1>5 DEF LoopInv, PageInv
<1> QED
  BY <1>2, <1>3, <1>6

LEMMA LookAfterLightsKeeps ==
    ASSUME LoopInv, LookAfterLights(ReconcilerNext)
    PROVE  StreamTypes' /\ LoopTypes' /\ PageInv'
BY DEF LookAfterLights, LoopInv, powerVars, schedulerVars, dashboardVars, loopVars,
       StreamTypes, LoopTypes, PageInv, HasState, HasPower, HasNext, Section

LEMMA StepLoopInv == LoopInv /\ [Next]_vars => LoopInv'
<1> SUFFICES ASSUME LoopInv, [Next]_vars PROVE LoopInv'
  OBVIOUS
<1>1. IInv'
  BY StepIInv DEF LoopInv
<1>2. CASE Next
  BY <1>1, <1>2, BootKeeps, EnterLoopKeeps, EvaluateKeeps, TellingKeeps, WaitKeeps,
     AwaitTimeKeeps, TimeHasComeKeeps, StartAnewKeeps, PassTimeKeeps, LookAfterLightsKeeps
  DEF Next, LoopInv
<1>3. CASE UNCHANGED vars
  BY <1>1, <1>3
  DEF vars, powerVars, schedulerVars, dashboardVars, loopVars, LoopInv, StreamTypes,
      LoopTypes, PageInv, HasState, HasPower, HasNext, Section
<1> QED
  BY <1>2, <1>3

LEMMA LoopInvariant == Spec => []LoopInv
BY InitLoopInv, StepLoopInv, PTL DEF Spec

\* A stream whose offset is not negative is punctual.
OnTime == stream.offset >= 0 => Punctual

\* The offset of a stream stays what it is.
LEMMA OffsetStays ==
    ASSUME StreamTypes, Arm \/ Fire \/ Revive \/ Clock
    PROVE  stream'.offset = stream.offset
<1>1. CASE Arm
  BY <1>1 DEF StreamTypes, Arm, ArmSun, ArmDaily, Await
<1>2. CASE Fire
  BY <1>2 DEF StreamTypes, Fire
<1>3. CASE Revive
  BY <1>3 DEF StreamTypes, Revive
<1>4. CASE Clock
  BY <1>4 DEF StreamTypes, Clock
<1> QED
  BY <1>1, <1>2, <1>3, <1>4

LEMMA StepOnTime == LoopInv /\ OnTime /\ [Next]_vars => OnTime'
<1> SUFFICES ASSUME LoopInv, OnTime, [Next]_vars, stream'.offset >= 0 PROVE Punctual'
  BY DEF OnTime
<1>0. (Arm \/ Fire \/ Revive \/ Clock \/ UNCHANGED schedulerVars \/ stream = NoStream)
      => Punctual /\ stream.offset >= 0
  <2>1. ASSUME Arm \/ Fire \/ Revive \/ Clock PROVE stream.offset >= 0
    BY <2>1, OffsetStays DEF LoopInv
  <2>2. ASSUME UNCHANGED schedulerVars PROVE stream.offset >= 0
    BY <2>2 DEF schedulerVars
  <2>3. ASSUME stream = NoStream PROVE stream.offset >= 0
    BY <2>3 DEF NoStream
  <2> QED
    BY <2>1, <2>2, <2>3 DEF OnTime
<1>1. CASE UNCHANGED schedulerVars
  BY <1>0, <1>1
  DEF schedulerVars, Punctual, StreamTypes, FireTypes, OnPhase, SinceTarget, OddDay,
      GapIsADay, At
<1>2. CASE NewStream /\ task = "none"
  <2>1. Punctual
    BY <1>0, <1>2 DEF NewStream
  <2> QED
    BY <1>2, <2>1, NewStreamPunctual DEF LoopInv, LoopTypes
<1>3. CASE Arm
  <2>1. stream.at \in {"new", "fired"} /\ (ArmSun \/ ArmDaily)
    BY <1>3 DEF Arm
  <2> QED
    BY <1>0, <1>3, <2>1, ArmSunPunctual, ArmDailyPunctual
<1>4. CASE Fire
  BY <1>0, <1>4, FirePunctual
<1>5. CASE Revive
  BY <1>0, <1>5, RevivePunctual
<1>6. CASE Clock /\ task = "timer"
  BY <1>0, <1>6, ClockPunctual DEF LoopInv, LoopTypes
<1> QED
  BY <1>1, <1>2, <1>3, <1>4, <1>5, <1>6
  DEF Next, Boot, EnterLoop, Evaluate, Telling, TellState, TellPower, TellEvaluated, Tell,
      Wait, AwaitTime, TimeHasCome, StartAnew, PassTime, LookAfterLights, vars, LoopInv,
      LoopTypes

-----------------------------------------------------------------------------
(* The theorems *)

\* A start or an end is announced only after the readings, or their average, were
\* beyond the threshold for the time of the debouncing (power_fsm.rs: update).
THEOREM DebouncedCycles == Spec => []CyclesAreDebounced
<1>1. IInv => CyclesAreDebounced
  BY DEF IInv
<1> QED
  BY <1>1, Invariant, PTL

\* The peak of a cycle is the highest average since its start was confirmed
\* (power_fsm.rs: update).
THEOREM HighestPeak == Spec => []PeakIsTheHighest
<1>1. IInv => PeakIsTheHighest
  BY DEF IInv
<1> QED
  BY <1>1, Invariant, PTL

\* The machine, the clock and the stream keep their types, and the page lists its
\* sections once each (power_fsm.rs, scheduler.rs, status.rs: ensure_section).
THEOREM TypeCorrect == Spec => []TypeOK
<1>1. LoopInv => TypeOK
  <2> SUFFICES ASSUME LoopInv PROVE TypeOK
    OBVIOUS
  <2>1. {PowerStates[i] : i \in 1..4} = {"off", "pending_on", "running", "pending_off"}
    BY DEF PowerStates
  <2>2. fsm \in [state : {PowerStates[i] : i \in 1..4}, on : Nat, off : Nat, peak : Nat,
                 smoothed : Nat]
    BY <2>1 DEF LoopInv, IInv, Types
  <2>3. {page.order[i] : i \in DOMAIN page.order} = DOMAIN page.sections
        /\ \A i, j \in DOMAIN page.order : page.order[i] = page.order[j] => i = j
    <3>1. CASE page.order = << >> /\ page.sections = << >>
      BY <3>1
    <3>2. CASE page.order = << Section >> /\ DOMAIN page.sections = {Section}
      BY <3>2
    <3> QED
      BY <3>1, <3>2 DEF LoopInv, PageInv, IsPage
  <2> QED
    BY <2>2, <2>3 DEF LoopInv, LoopTypes, StreamTypes, TypeOK
<1> QED
  BY <1>1, LoopInvariant, PTL

\* Whatever the offsets, a stream whose own is not negative fires once for every day on
\* which its time exists once, however the automation is behind or is started anew; one
\* before its event does not (scheduler.rs: at_sunrise, at_sunset, daily).
THEOREM FiresOncePerDay == Spec => []OncePerDay
<1>1. Init => OnTime
  BY InitPunctual DEF Init, OnTime
<1>2. OnTime => OncePerDay
  <2> SUFFICES ASSUME Punctual, NEW n \in fires.since PROVE fires.odd \/ n <= Day + Late
    BY DEF OnTime, Punctual, GapIsADay, OncePerDay, FiresDaily
  <2>1. /\ stream.wait \in -Late..2 * Day /\ hour \in 0..Day - 1 /\ n \in Int
        /\ stream.at \in {"none", "new", "armed", "fired", "dead"}
    BY DEF Punctual, StreamTypes, FireTypes
  <2>2. CASE stream.at = "fired"
    BY <2>1, <2>2, HoursOfEvents DEF Punctual, SinceTarget
  <2>3. CASE stream.at = "armed"
    BY <2>1, <2>3, HoursOfEvents DEF Punctual, SinceTarget
  <2>4. CASE stream.at \in {"new", "dead"}
    <3>1. stream.kind = "daily" /\ OddDay(n)
      BY <2>4 DEF Punctual, SinceTarget
    <3>2. At \in 0..Day - 1
      BY <3>1, HoursOfEvents DEF At, Kinds
    <3> QED
      BY <2>1, <3>1, <3>2, HoursOfEvents DEF Punctual, FireTypes, OddDay
  <2> QED
    BY <2>1, <2>2, <2>3, <2>4 DEF Punctual, SinceTarget
<1>3. LoopInv /\ OnTime /\ [Next]_vars => OnTime'
  BY StepOnTime
<1> QED
  BY <1>1, <1>2, <1>3, LoopInvariant, PTL DEF Spec

\* What a request is answered between two evaluations is what the last one found
\* (status.rs: handle_status).
THEOREM PageIsTrue == Spec => []PageTellsLastEvaluation
<1>1. LoopInv => PageTellsLastEvaluation
  <2> SUFFICES ASSUME LoopInv, place = "idle", page.evals > 0
               PROVE  PageTellsLastEvaluation
    BY DEF PageTellsLastEvaluation
  <2> DEFINE values == Content(page, Section)
             shown == Answer(page, FALSE).sections[1]
             told == Answer(page, TRUE).sections[1]
  <2>1. IsPage(page, Section) /\ page.order = << Section >>
    BY DEF LoopInv, PageInv, IsPage
  <2>2. /\ DOMAIN told = DOMAIN values
        /\ \A key \in DOMAIN values :
              told[key] = values[key] /\ shown[key] = Fragment(values[key])
    BY <2>1, AnswerLists
  <2>3. /\ task = "appliance" => HasState(values) /\ HasPower(values)
        /\ task = "timer" => (stream.at \in {"armed", "fired"} => HasNext(values))
        /\ task = "timer" => "Sun" \in DOMAIN values
    BY DEF LoopInv, PageInv
  <2> HIDE DEF values, shown, told
  <2>4. CASE task = "appliance"
    <3>1. shown["State"] = Fragment(Pills(fsm.state, PowerStates))
      BY <2>2, <2>3, <2>4 DEF HasState
    <3>2. shown["State"] = [i \in DOMAIN PowerStates |-> PowerStates[i] = fsm.state]
      BY <3>1 DEF Pills, Fragment
    <3>3. told["Power"].text = watts /\ told["Peak"].text = fsm.peak
      BY <2>2, <2>3, <2>4 DEF HasPower, Text
    <3> QED
      BY <2>4, <3>2, <3>3 DEF PageTellsLastEvaluation, shown, told
  <2>5. CASE task = "timer"
    <3>1. "Sun" \in DOMAIN told
      BY <2>2, <2>3, <2>5
    <3>2. stream.at = "fired" => told["Next"] = Cleared
      BY <2>2, <2>3, <2>5 DEF HasNext
    <3>3. ASSUME stream.at = "armed"
          PROVE  told["Next"].remaining >= stream.wait /\ shown["Next"] \in 0..100
      <4>1. PICK wait \in 0..2 * Day :
                values["Next"] = Countdown(wait, Day) /\ wait >= stream.wait
        BY <2>3, <2>5, <3>3 DEF HasNext
      <4>2. "Next" \in DOMAIN values
        BY <2>3, <2>5, <3>3 DEF HasNext
      <4>3. told["Next"] = Countdown(wait, Day) /\ shown["Next"] = Fragment(Countdown(wait, Day))
        BY <2>2, <4>1, <4>2
      <4>4. Fragment(Countdown(wait, Day)) \in 0..100
        BY PercentInRange
      <4>5. Countdown(wait, Day).remaining = wait
        BY DEF Countdown
      <4> QED
        BY <4>1, <4>3, <4>4, <4>5
    <3> QED
      BY <2>5, <3>1, <3>2, <3>3 DEF PageTellsLastEvaluation, shown, told
  <2>6. task # "lights"
    BY DEF LoopInv, PageInv, NewPage
  <2> QED
    BY <2>4, <2>5, <2>6 DEF LoopInv, LoopTypes
<1> QED
  BY <1>1, LoopInvariant, PTL

\* The lights come and go under an automation as they do for the reconciler by itself:
\* what ReconcilerProofs shows of its timers, handles and retries holds here
\* (reconcile.rs).
THEOREM LightsAreLookedAfter == Spec => ReconcilerSpec
<1>1. Init => ReconcilerInit
  BY DEF Init
<1>2. [Next]_vars => [ReconcilerNext]_reconcilerVars
  BY DEF Next, Boot, EnterLoop, Evaluate, Telling, TellState, TellPower, TellEvaluated, Tell,
         Wait, AwaitTime, TimeHasCome, StartAnew, PassTime, LookAfterLights, vars
<1> QED
  BY <1>1, <1>2, PTL DEF Spec, ReconcilerSpec

-----------------------------------------------------------------------------
(* The dashboard *)

DashboardTypes ==
    /\ boards = [p \in DOMAIN boards |-> boards[p]]
    /\ \A p \in DOMAIN boards : boards[p] = [title |-> boards[p].title, config |-> boards[p].config]
    /\ deploy = [d \in Deployments |-> deploy[d]]
    /\ left = [faults |-> left.faults, managed |-> left.managed]
    /\ left.managed \in 0..MaxManaged

\* While nobody else manages the dashboards, one that a process has come through with
\* shows the config of one of the processes, whichever was last.
DoneIsShown ==
    (left.managed = MaxManaged /\ \E d \in Deployments : deploy[d] = "done")
        => GetConfig(Path) # {} /\ GetConfig(Path) \subseteq Deployments

\* A request of a process concerns its own dashboard.
OthersAreLeft ==
    [][left.managed' = left.managed => \A p \in Others : p \in DOMAIN boards =>
          p \in DOMAIN boards' /\ boards'[p] = boards[p]]_vars

\* What a process asks for when it starts, in one of its steps.
LEMMA EnsureAsks ==
    ASSUME DashboardTypes, NEW d \in Deployments, Ensure(d)
    PROVE  /\ left' = left \/ left' = [left EXCEPT !.faults = left.faults - 1]
           /\ \E next \in {"start", "create", "save", "done", "failed"} :
                 /\ deploy' = [deploy EXCEPT ![d] = next]
                 /\ \/ boards' = boards /\ next # "done"
                    \/ Path \notin DOMAIN boards /\ boards' = With(Path, NewBoard) /\ next # "done"
                    \/ /\ Path \in DOMAIN boards
                       /\ boards' = With(Path, [boards[Path] EXCEPT !.config = d])
<1>1. CASE List(d)
  BY <1>1 DEF List, Request
<1>2. CASE Create(d)
  BY <1>2 DEF Create, Request, Refuse
<1>3. CASE Save(d)
  BY <1>3 DEF Save, Request, Refuse
<1>4. CASE Restart(d)
  BY <1>4 DEF Restart
<1> QED
  BY <1>1, <1>2, <1>3, <1>4 DEF Ensure

LEMMA EnsureShows ==
    ASSUME DashboardTypes, DoneIsShown, NEW d \in Deployments, Ensure(d)
    PROVE  /\ DashboardTypes' /\ DoneIsShown'
           /\ left'.managed = left.managed
           /\ \A p \in Others : p \in DOMAIN boards => p \in DOMAIN boards' /\ boards'[p] = boards[p]
<1>1. left'.managed = left.managed /\ left' = [faults |-> left'.faults, managed |-> left'.managed]
  BY EnsureAsks DEF DashboardTypes
<1>2. PICK next \in {"start", "create", "save", "done", "failed"} :
         /\ deploy' = [deploy EXCEPT ![d] = next]
         /\ \/ boards' = boards /\ next # "done"
            \/ Path \notin DOMAIN boards /\ boards' = With(Path, NewBoard) /\ next # "done"
            \/ /\ Path \in DOMAIN boards
               /\ boards' = With(Path, [boards[Path] EXCEPT !.config = d])
  BY EnsureAsks
<1>3. deploy' = [e \in Deployments |-> deploy'[e]]
  BY <1>2 DEF DashboardTypes
<1>4. \A e \in Deployments : deploy'[e] = "done" => deploy[e] = "done" \/ (e = d /\ next = "done")
  BY <1>2 DEF DashboardTypes
<1>5. CASE boards' = boards /\ next # "done"
  <2>1. DashboardTypes'
    BY <1>1, <1>3, <1>5 DEF DashboardTypes
  <2>2. DoneIsShown'
    BY <1>1, <1>4, <1>5 DEF DoneIsShown, GetConfig
  <2> QED
    BY <1>1, <1>5, <2>1, <2>2
<1> DEFINE Shows(board) == boards' = With(Path, board)
<1>6. ASSUME NEW board, Shows(board), board = [title |-> board.title, config |-> board.config]
      PROVE  /\ DashboardTypes'
             /\ GetConfig(Path)' = {board.config}
             /\ \A p \in Others : p \in DOMAIN boards => p \in DOMAIN boards' /\ boards'[p] = boards[p]
  <2>1. /\ DOMAIN boards' = DOMAIN boards \union {Path}
        /\ boards'[Path] = board
        /\ \A p \in DOMAIN boards : p # Path => boards'[p] = boards[p]
        /\ boards' = [p \in DOMAIN boards' |-> boards'[p]]
    BY <1>6 DEF With
  <2>2. DashboardTypes'
    BY <1>1, <1>3, <1>6, <2>1 DEF DashboardTypes
  <2>3. GetConfig(Path)' = {board.config}
    BY <2>1 DEF GetConfig
  <2> QED
    BY <2>1, <2>2, <2>3, DashboardAssumption
<1>7. CASE Path \notin DOMAIN boards /\ boards' = With(Path, NewBoard) /\ next # "done"
  <2>1. NewBoard = [title |-> NewBoard.title, config |-> NewBoard.config]
    BY DEF NewBoard
  <2>2. \A e \in Deployments : deploy'[e] # "done" \/ left.managed # MaxManaged
    BY <1>4, <1>7 DEF DoneIsShown, GetConfig
  <2>3. DoneIsShown'
    BY <1>1, <2>2 DEF DoneIsShown
  <2> QED
    BY <1>1, <1>6, <1>7, <2>1, <2>3
<1>8. CASE Path \in DOMAIN boards /\ boards' = With(Path, [boards[Path] EXCEPT !.config = d])
  <2> DEFINE board == [boards[Path] EXCEPT !.config = d]
  <2>1. board = [title |-> board.title, config |-> board.config] /\ board.config = d
    BY <1>8 DEF DashboardTypes
  <2> HIDE DEF board
  <2>2. GetConfig(Path)' = {d} /\ DashboardTypes'
    BY <1>6, <1>8, <2>1 DEF board
  <2>3. DoneIsShown'
    BY <2>2 DEF DoneIsShown
  <2> QED
    BY <1>1, <1>6, <1>8, <2>1, <2>2, <2>3 DEF board
<1> QED
  BY <1>2, <1>5, <1>7, <1>8

LEMMA ManageShows ==
    ASSUME DashboardTypes, Manage
    PROVE  DashboardTypes' /\ DoneIsShown' /\ left'.managed # left.managed
<1>1. left' = [left EXCEPT !.managed = left.managed - 1] /\ left.managed > 0 /\ deploy' = deploy
  BY DEF Manage
<1>2. /\ left'.managed = left.managed - 1
      /\ left' = [faults |-> left'.faults, managed |-> left'.managed]
  BY <1>1 DEF DashboardTypes
<1>3. left'.managed \in 0..MaxManaged /\ left'.managed # MaxManaged
      /\ left'.managed # left.managed
  BY <1>1, <1>2, DashboardAssumption DEF DashboardTypes
<1>4. /\ boards' = [p \in DOMAIN boards' |-> boards'[p]]
      /\ \A p \in DOMAIN boards' :
            boards'[p] = [title |-> boards'[p].title, config |-> boards'[p].config]
  <2>1. PICK path \in Others \union {Path} :
           UpdateDashboard(path, Generated) \/ DeleteDashboard(path) \/ DeleteConfig(path)
    BY DEF Manage
  <2>2. CASE UpdateDashboard(path, Generated)
    BY <2>2 DEF UpdateDashboard, DashboardTypes
  <2>3. CASE DeleteDashboard(path)
    BY <2>3 DEF DeleteDashboard, Without, DashboardTypes
  <2>4. CASE DeleteConfig(path)
    BY <2>4 DEF DeleteConfig, DashboardTypes
  <2> QED
    BY <2>1, <2>2, <2>3, <2>4
<1> QED
  BY <1>1, <1>2, <1>3, <1>4 DEF DashboardTypes, DoneIsShown

LEMMA NextShows ==
    ASSUME DashboardTypes, DoneIsShown, [Next]_vars
    PROVE  /\ DashboardTypes' /\ DoneIsShown'
           /\ [left.managed' = left.managed => \A p \in Others : p \in DOMAIN boards =>
                  p \in DOMAIN boards' /\ boards'[p] = boards[p]]_vars
<1>1. CASE Boot
  BY <1>1, EnsureShows, ManageShows DEF Boot
<1>2. CASE UNCHANGED dashboardVars
  BY <1>2 DEF dashboardVars, DashboardTypes, DoneIsShown, GetConfig
<1> QED
  BY <1>1, <1>2
  DEF Next, EnterLoop, Evaluate, Telling, TellState, TellPower, TellEvaluated, Tell, Wait,
      AwaitTime, TimeHasCome, StartAnew, PassTime, LookAfterLights, vars

\* However many processes start at once, fail in between and are started anew, one that
\* came through has left its config or that of another on the dashboard, and no other
\* dashboard is touched.  It is what DeploymentsSucceed needs besides fairness
\* (dashboard.rs: ensure).
THEOREM DeploymentsShow == Spec => []DoneIsShown /\ OthersAreLeft
<1>1. Init => DashboardTypes /\ DoneIsShown
  <2> SUFFICES ASSUME Init PROVE DashboardTypes /\ DoneIsShown
    OBVIOUS
  <2>1. DoneIsShown
    BY DEF Init, DashboardInit, DoneIsShown
  <2>2. boards = [p \in Others |-> NewBoard] \/ boards = [p \in Others \union {Path} |-> NewBoard]
    BY DEF Init, DashboardInit
  <2>3. DashboardTypes
    BY <2>2, DashboardAssumption DEF Init, DashboardInit, DashboardTypes, NewBoard
  <2> QED
    BY <2>1, <2>3
<1>2. DashboardTypes /\ DoneIsShown /\ [Next]_vars
      => /\ DashboardTypes' /\ DoneIsShown'
         /\ [left.managed' = left.managed => \A p \in Others : p \in DOMAIN boards =>
                p \in DOMAIN boards' /\ boards'[p] = boards[p]]_vars
  BY NextShows
<1> QED
  BY <1>1, <1>2, PTL DEF Spec, OthersAreLeft
=============================================================================
