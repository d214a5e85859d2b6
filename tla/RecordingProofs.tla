---------------------------- MODULE RecordingProofs ----------------------------
(***************************************************************************)
(* What the recorder keeps and what it admits to have missed, for any      *)
(* entities, patterns, sizes of the channels, and numbers of changes,      *)
(* failed writes, rotations and restarts.                                  *)
(*                                                                         *)
(* A rotation moves rows from table to table and loses none: the one table *)
(* that is dropped or written over is the replacement, which is empty      *)
(* whenever it is there.  The newest change of an entity is the last in    *)
(* its channel until it is polled, and in a table afterwards unless the    *)
(* write failed.                                                           *)
(*                                                                         *)
(* The filter is compared with what a star means, for patterns of any      *)
(* length with one star or none.                                           *)
(***************************************************************************)
EXTENDS Recording, FiniteSetTheorems, SequenceTheorems, NaturalsInduction,
        WellFoundedInduction, TLAPS

\* What Home Assistant shows of an entity and what it tells of a change: one state
\* with the time since when, or none.
Message == {m \in SUBSET [state : States, since : Nat] : \A r, s \in m : r = s}

TablesOK ==
    /\ tables = [t \in DOMAIN tables |-> tables[t]]
    /\ Live \in DOMAIN tables
    /\ New \in DOMAIN tables => tables[New] = {}
    /\ \A t \in DOMAIN tables : \A row \in tables[t] :
          row.entity \in Entities /\ Matches(row.entity)
    /\ rotation \in [at : {"idle", "created", "checked"}, prior : BOOLEAN, own : BOOLEAN]
    /\ rotation.prior => Curating \in DOMAIN tables
    /\ clock \in Nat

\* The process subscribes once to each entity, to none that does not match, and to
\* none before it knows the list.
ChannelsOK ==
    /\ shown \in [Entities -> Message]
    /\ channel \in [DOMAIN channel -> Seq(Message)]
    /\ missed \in [DOMAIN channel -> Nat]
    /\ told \in [DOMAIN channel -> Message]
    /\ \A e \in DOMAIN channel : e \in Entities /\ Matches(e)
    /\ todo \subseteq Entities
    /\ pc \in {"down", "backfill", "fetch"} => DOMAIN channel = {}
    /\ pc = "subscribe" => \A e \in todo : Matches(e) /\ e \notin DOMAIN channel

StatsOK ==
    /\ stats \in [written : Nat, skipped : Nat, errors : Nat, entities : Nat]
    /\ IsFiniteSet(seen)
    /\ removed \in Nat /\ arrived \in Nat

\* The last message of a channel is the newest change, until it is polled.
Held(e, r) == \E t \in DOMAIN tables : \E row \in tables[t] : Key(row) = <<e, r.since, r.state>>
Remembers(e) == IF channel[e] = << >> THEN stats.errors = 0 => \A r \in told[e] : Held(e, r)
                ELSE channel[e][Len(channel[e])] = told[e]
Remembered == \A e \in DOMAIN channel : Remembers(e)

Accounts ==
    /\ IsFiniteSet(Places(Waiting))
    /\ EveryChangeIsAccountedFor

IInv == TablesOK /\ ChannelsOK /\ StatsOK /\ Remembered /\ Accounts

-----------------------------------------------------------------------------
(* What a step does to the tables *)

\* The statements that a step of the recorder, of a rotation or of a person makes.
Recorded == \E e \in Entities, r \in [state : States, since : Nat] :
                Matches(e) /\ Stores(e, r)

LEMMA NamesDiffer == Live # New /\ Curating # New /\ New \notin Archives /\ Live # Curating
                     /\ Live \notin Archives /\ Curating \notin Archives
BY StoreAssumption

LEMMA Steps ==
    ASSUME ChannelsOK, [Next]_vars
    PROVE  \/ Recorded
           \/ (\E own \in BOOLEAN : CreateNew(own)) \/ CheckPrior \/ RotationEnds
           \/ DropLeftover
           \/ \E a \in Archives : Rename(a)
           \/ Tick
           \/ UNCHANGED storeVars
<1>1. CASE \E e \in Entities : Backfill(e)
  <2>1. PICK e \in Entities : Backfill(e)
    BY <1>1
  <2>2. shown[e] \subseteq [state : States, since : Nat]
    BY DEF ChannelsOK, Message
  <2> QED
    BY <2>1, <2>2 DEF Backfill, Recorded
<1>2. CASE \E e \in Entities : Poll(e)
  <2>1. PICK e \in Entities : Poll(e)
    BY <1>2
  <2>2. CASE UNCHANGED storeVars
    BY <2>2
  <2>3. CASE channel[e] # << >> /\ HandleChange(e, Head(channel[e]))
    <3>1. e \in DOMAIN channel /\ Matches(e) /\ channel[e] \in Seq(Message)
      BY <2>1 DEF Poll, ChannelsOK
    <3>2. Head(channel[e]) \in Message
      BY <2>3, <3>1
    <3> QED
      BY <2>3, <3>1, <3>2 DEF HandleChange, Fails, Message, Recorded
  <2> QED
    BY <2>1, <2>2, <2>3 DEF Poll
<1>3. CASE Start \/ Crash \/ Lose \/ BackfillEnds \/ Fetch \/ Subscribed
           \/ \E e \in Entities : Change(e) \/ Subscribe(e)
  BY <1>3 DEF Start, Crash, Lose, BackfillEnds, Fetch, Subscribed, Change, Subscribe
<1>4. CASE \E own \in BOOLEAN : BeginRotation(own)
  BY <1>4 DEF BeginRotation
<1>5. CASE RotateOn
  BY <1>5 DEF RotateOn
<1>6. CASE Other
  BY <1>6 DEF Other
<1>7. CASE UNCHANGED vars
  BY <1>7 DEF vars
<1> QED
  BY <1>1, <1>2, <1>3, <1>4, <1>5, <1>6, <1>7 DEF Next, Process

\* INSERT IGNORE leaves a row with the key that is recorded, and all others.
LEMMA InsertHolds ==
    ASSUME NEW old, NEW e, NEW ts, NEW s
    PROVE  LET new == Insert(old, e, ts, s) IN
           /\ \E row \in new : Key(row) = <<e, ts, s>>
           /\ old \subseteq new
           /\ \A row \in new : row \in old \/ row.entity = e
<1> DEFINE row == [entity |-> e, ts |-> ts, state |-> s, reason |-> Null, flaggedAt |-> Null]
           new == Insert(old, e, ts, s)
<1>1. Key(row) = <<e, ts, s>> /\ row.entity = e
  BY DEF Key
<1>2. (new = old /\ \E r \in old : Key(r) = <<e, ts, s>>) \/ new = old \union {row}
  BY DEF Insert
<1> HIDE DEF row, new
<1> QED
  BY <1>1, <1>2 DEF new

\* Tables keep their rows, wherever a rotation puts them.
LEMMA StepTables ==
    ASSUME TablesOK, ChannelsOK, [Next]_vars
    PROVE  /\ TablesOK'
           /\ \A e, r : Held(e, r) => Held(e, r)'
<1> USE NamesDiffer
<1>1. CASE Recorded
  <2>1. PICK e \in Entities, r \in [state : States, since : Nat] :
            Matches(e) /\ Stores(e, r)
    BY <1>1 DEF Recorded
  <2> DEFINE new == Insert(tables[Live], e, r.since, r.state)
  <2>2. tables' = [tables EXCEPT ![Live] = new] /\ UNCHANGED <<clock, rotation>>
    BY <2>1 DEF Stores, Record, Write
  <2>3. tables[Live] \subseteq new /\ \A row \in new : row \in tables[Live] \/ row.entity = e
    BY InsertHolds
  <2> HIDE DEF new
  <2>4. /\ Live \in DOMAIN tables /\ DOMAIN tables' = DOMAIN tables /\ tables'[Live] = new
        /\ \A t \in DOMAIN tables \ {Live} : tables'[t] = tables[t]
        /\ tables' = [t \in DOMAIN tables' |-> tables'[t]]
    BY <2>2 DEF TablesOK
  <2>5. \A t \in DOMAIN tables' : \A row \in tables'[t] :
            row.entity \in Entities /\ Matches(row.entity)
    BY <2>1, <2>3, <2>4 DEF TablesOK
  <2>6. TablesOK'
    BY <2>2, <2>4, <2>5 DEF TablesOK
  <2> QED
    BY <2>3, <2>4, <2>6 DEF Held
<1>2. ASSUME NEW own \in BOOLEAN, CreateNew(own) PROVE TablesOK' /\ \A e, r : Held(e, r) => Held(e, r)'
  <2>1. TablesOK'
    BY <1>2 DEF CreateNew, NoRotation, TablesOK
  <2> QED
    BY <1>2, <2>1 DEF CreateNew, TablesOK, Held
<1>3. CASE CheckPrior
  <2>1. UNCHANGED <<tables, clock>>
    BY <1>3 DEF CheckPrior
  <2> DEFINE prior == Curating \in DOMAIN tables
  <2>2. prior \in BOOLEAN /\ rotation' = [rotation EXCEPT !.at = "checked", !.prior = prior]
    BY <1>3 DEF CheckPrior
  <2> HIDE DEF prior
  <2>3. /\ rotation' \in [at : {"idle", "created", "checked"}, prior : BOOLEAN, own : BOOLEAN]
        /\ rotation'.prior = prior
    BY <2>2 DEF TablesOK
  <2> QED
    BY <2>1, <2>3 DEF TablesOK, Held, prior
<1>4. CASE RotationEnds
  BY <1>4 DEF RotationEnds, NoRotation, TablesOK, Held
<1>5. CASE DropLeftover
  <2>1. tables' = [t \in DOMAIN tables \ {New} |-> tables[t]] /\ UNCHANGED <<clock, rotation>>
    BY <1>5 DEF DropLeftover, Visible
  <2>2. TablesOK'
    BY <2>1 DEF TablesOK
  <2> QED
    BY <2>1, <2>2 DEF TablesOK, Held
<1>6. ASSUME NEW a \in Archives, Rename(a) PROVE TablesOK' /\ \A e, r : Held(e, r) => Held(e, r)'
  <2> DEFINE kept == IF rotation.prior THEN {a} ELSE {}
  <2>1. /\ New \in DOMAIN tables
        /\ Curating \in DOMAIN tables => rotation.prior
        /\ kept \intersect DOMAIN tables = {}
        /\ tables' = [t \in (DOMAIN tables \ {New}) \union {Curating} \union kept |->
                        IF t = Live THEN tables[New]
                        ELSE IF t = Curating THEN tables[Live]
                        ELSE IF t \in kept THEN tables[Curating]
                        ELSE tables[t]]
        /\ rotation' = NoRotation /\ clock' = clock
    BY <1>6 DEF Rename
  <2>2. kept \subseteq Archives /\ (kept # {} => Curating \in DOMAIN tables)
    BY DEF TablesOK
  <2>3. Curating \in DOMAIN tables => kept = {a}
    BY <2>1
  <2> HIDE DEF kept
  <2>4. TablesOK'
    <3>1. \A t \in DOMAIN tables' : \A row \in tables'[t] : \E u \in DOMAIN tables : row \in tables[u]
      BY <2>1, <2>2 DEF TablesOK
    <3>2. \A t \in DOMAIN tables' : \A row \in tables'[t] :
              row.entity \in Entities /\ Matches(row.entity)
      BY <3>1 DEF TablesOK
    <3>3. /\ tables' = [t \in DOMAIN tables' |-> tables'[t]]
          /\ Live \in DOMAIN tables' /\ New \notin DOMAIN tables'
      BY <2>1, <2>2 DEF TablesOK
    <3> QED
      BY <2>1, <3>2, <3>3 DEF TablesOK, NoRotation
  <2>5. ASSUME NEW e, NEW r, Held(e, r) PROVE Held(e, r)'
    <3>1. PICK t \in DOMAIN tables : \E row \in tables[t] : Key(row) = <<e, r.since, r.state>>
      BY <2>5 DEF Held
    <3>2. CASE t = Live
      BY <2>1, <3>1, <3>2 DEF Held
    <3>3. CASE t = Curating
      BY <2>1, <2>2, <2>3, <3>1, <3>3 DEF Held
    <3>4. CASE t \notin {Live, Curating, New}
      BY <2>1, <2>2, <3>1, <3>4 DEF Held
    <3> QED
      BY <3>1, <3>2, <3>3, <3>4 DEF TablesOK
  <2> QED
    BY <2>4, <2>5
<1>7. CASE Tick
  BY <1>7, StoreAssumption DEF Tick, TablesOK, Held
<1>8. CASE UNCHANGED storeVars
  BY <1>8 DEF storeVars, TablesOK, Held
<1> QED
  BY <1>1, <1>2, <1>3, <1>4, <1>5, <1>6, <1>7, <1>8, Steps

-----------------------------------------------------------------------------
(* What waits *)

\* Taking away k of the places of e takes away k elements.
LEMMA FewerPlaces ==
    ASSUME NEW D, NEW n \in [D -> Nat], NEW less \in [D -> Nat], NEW e \in D, NEW k \in Nat,
           n[e] = less[e] + k, \A d \in D \ {e} : less[d] = n[d],
           IsFiniteSet(Places(n))
    PROVE  /\ IsFiniteSet(Places(less))
           /\ Cardinality(Places(less)) \in Nat
           /\ Cardinality(Places(n)) = Cardinality(Places(less)) + k
<1> DEFINE first == n[e] - k + 1
           gone == {e} \X (first..n[e])
<1>1. less[e] = n[e] - k
  OBVIOUS
<1>2. /\ n[e] \in Nat /\ k \in Nat /\ first \in Int
      /\ 1..n[e] = (1..less[e]) \union (first..n[e])
      /\ (1..less[e]) \intersect (first..n[e]) = {}
  BY <1>1
<1>3. IsFiniteSet(first..n[e]) /\ Cardinality(first..n[e]) = k
  <2>1. first \in Int /\ n[e] \in Int /\ k \in Nat /\ first = n[e] - k + 1
    BY <1>2
  <2> HIDE DEF first
  <2>2. IsFiniteSet(first..n[e])
        /\ Cardinality(first..n[e]) = IF first > n[e] THEN 0 ELSE n[e] - first + 1
    BY <2>1, FS_Interval
  <2> QED
    BY <2>1, <2>2
<1> HIDE DEF first
<1>4. IsFiniteSet(gone) /\ Cardinality(gone) = k
  <2>1. IsFiniteSet({e}) /\ Cardinality({e}) = 1
    BY FS_Singleton
  <2>2. IsFiniteSet({e} \X (first..n[e])) /\ Cardinality({e} \X (first..n[e])) = 1 * k
    BY <1>3, <2>1, FS_Product
  <2> QED
    BY <1>2, <2>2
<1>5. Places(n) = Places(less) \union gone /\ Places(less) \intersect gone = {}
  BY <1>1, <1>2 DEF Places
<1>6. IsFiniteSet(Places(less))
  BY <1>5, FS_Subset
<1>7. Cardinality(Places(n)) = Cardinality(Places(less)) + Cardinality(gone)
                               - Cardinality(Places(less) \intersect gone)
  BY <1>4, <1>5, <1>6, FS_Union
<1>8. Cardinality(Places(less) \intersect gone) = 0 /\ Cardinality(Places(less)) \in Nat
  BY <1>5, <1>6, FS_EmptySet, FS_CardinalityType
<1> QED
  BY <1>2, <1>4, <1>6, <1>7, <1>8

\* One more place of e is one more element.
LEMMA OneMorePlace ==
    ASSUME NEW D, NEW n \in [D -> Nat], NEW e \in D, IsFiniteSet(Places(n))
    PROVE  LET more == [n EXCEPT ![e] = n[e] + 1] IN
           /\ IsFiniteSet(Places(more))
           /\ Cardinality(Places(more)) = Cardinality(Places(n)) + 1
<1> DEFINE more == [n EXCEPT ![e] = n[e] + 1]
           last == <<e, n[e] + 1>>
<1>1. more \in [D -> Nat] /\ more[e] = n[e] + 1 /\ \A d \in D \ {e} : more[d] = n[d]
  OBVIOUS
<1>2. n[e] \in Nat /\ 1..more[e] = (1..n[e]) \union {n[e] + 1} /\ n[e] + 1 \notin 1..n[e]
  BY <1>1
<1> HIDE DEF more
<1>3. Places(more) = Places(n) \union {last} /\ last \notin Places(n)
  BY <1>1, <1>2 DEF Places
<1>4. IsFiniteSet(Places(more)) /\ Cardinality(Places(more)) = Cardinality(Places(n)) + 1
  BY <1>3, FS_AddElement
<1> QED
  BY <1>4 DEF more

-----------------------------------------------------------------------------
(* What a step does to the channels and the statistics *)

RecorderInv == ChannelsOK /\ StatsOK /\ Remembered /\ Accounts

HeldStays == \A e, r : Held(e, r) => Held(e, r)'

LEMMA WaitingType == ChannelsOK => Waiting \in [DOMAIN channel -> Nat]
BY DEF ChannelsOK, Waiting

LEMMA NothingWaits ==
    ASSUME NEW n, DOMAIN n = {}
    PROVE  IsFiniteSet(Places(n)) /\ Cardinality(Places(n)) = 0
<1>1. Places(n) = {}
  BY DEF Places
<1> QED
  BY <1>1, FS_EmptySet

\* A step that leaves the channels and the statistics alone.
LEMMA Unmoved ==
    ASSUME RecorderInv, HeldStays, ChannelsOK',
           channel' = channel, missed' = missed, told' = told, stats' = stats, seen' = seen,
           arrived' = arrived, removed' = removed
    PROVE  RecorderInv'
<1>1. Waiting' = Waiting
  BY DEF Waiting
<1>2. Accounts'
  BY <1>1 DEF RecorderInv, Accounts, EveryChangeIsAccountedFor
<1>3. Remembered'
  BY DEF RecorderInv, Remembered, Remembers, HeldStays
<1> QED
  BY <1>2, <1>3 DEF RecorderInv, StatsOK

LEMMA ForgetStarts ==
    ASSUME ChannelsOK, Forget
    PROVE  RecorderInv'
<1>1. DOMAIN channel' = {} /\ DOMAIN missed' = {} /\ DOMAIN told' = {}
  BY DEF Forget
<1>2. ChannelsOK'
  <2>1. /\ channel' \in [DOMAIN channel' -> Seq(Message)]
        /\ missed' \in [DOMAIN channel' -> Nat]
        /\ told' \in [DOMAIN channel' -> Message]
    BY DEF Forget
  <2> QED
    BY <1>1, <2>1 DEF Forget, ChannelsOK
<1>3. StatsOK'
  BY FS_EmptySet DEF Forget, StatsOK, NoStats
<1>4. DOMAIN Waiting' = {}
  BY <1>1 DEF Waiting
<1>5. Accounts'
  BY <1>4, NothingWaits DEF Forget, NoStats, Accounts, EveryChangeIsAccountedFor
<1> QED
  BY <1>1, <1>2, <1>3, <1>5 DEF RecorderInv, Remembered

\* A message goes into a channel, which is full or not.
LEMMA ChangeKeeps ==
    ASSUME RecorderInv, HeldStays, TablesOK, NEW e \in Entities, Change(e)
    PROVE  RecorderInv'
<1>1. PICK now \in Message : Deliver(e, now) /\ shown' = [shown EXCEPT ![e] = now]
  <2>1. PICK now \in {Shows(s, clock) : s \in States \ {r.state : r \in shown[e]}}
                         \union {shown[e], {}} :
            Deliver(e, now) /\ shown' = [shown EXCEPT ![e] = now]
    BY DEF Change
  <2>2. now \in Message
    BY <2>1 DEF RecorderInv, ChannelsOK, TablesOK, Shows, Message
  <2> QED
    BY <2>1, <2>2
<1>2. UNCHANGED <<pc, todo, stats, seen, removed>>
  BY DEF Change
<1>3. shown' \in [Entities -> Message]
  BY <1>1 DEF RecorderInv, ChannelsOK
<1>4. CASE ~(open /\ e \in DOMAIN channel)
  <2>1. UNCHANGED <<channel, missed, arrived, told>>
    BY <1>1, <1>4 DEF Deliver
  <2>2. ChannelsOK'
    BY <1>2, <1>3, <2>1 DEF RecorderInv, ChannelsOK
  <2> QED
    BY <1>2, <2>1, <2>2, Unmoved
<1>5. CASE open /\ e \in DOMAIN channel
  <2>1. /\ arrived' = arrived + 1
        /\ told' = [told EXCEPT ![e] = now]
        /\ \/ /\ channel' = [channel EXCEPT ![e] = Append(channel[e], now)]
              /\ missed' = missed
           \/ /\ Len(channel[e]) >= Capacity
              /\ channel' = [channel EXCEPT ![e] = Append(Tail(channel[e]), now)]
              /\ missed' = [missed EXCEPT ![e] = missed[e] + 1]
    <3>1. channel[e] \in Seq(Message)
      BY <1>5 DEF RecorderInv, ChannelsOK
    <3>2. Len(channel[e]) \in Nat /\ Capacity \in Nat
      BY <3>1, RecorderAssumption
    <3> QED
      BY <1>1, <1>5, <3>2 DEF Deliver
  <2>2. PICK new \in Seq(Message) :
            /\ channel' = [channel EXCEPT ![e] = new]
            /\ new # << >> /\ new[Len(new)] = now
            /\ Len(new) + missed'[e] = Len(channel[e]) + missed[e] + 1
            /\ missed' \in [DOMAIN channel -> Nat]
            /\ \A f \in DOMAIN channel \ {e} : missed'[f] = missed[f]
    <3>1. channel[e] \in Seq(Message) /\ missed \in [DOMAIN channel -> Nat] /\ missed[e] \in Nat
      BY <1>5 DEF RecorderInv, ChannelsOK
    <3>2. CASE channel' = [channel EXCEPT ![e] = Append(channel[e], now)] /\ missed' = missed
      <4> DEFINE new == Append(channel[e], now)
      <4>1. new \in Seq(Message) /\ Len(new) = Len(channel[e]) + 1 /\ new[Len(new)] = now
            /\ new # << >>
        BY <3>1
      <4>2. channel' = [channel EXCEPT ![e] = new]
        BY <3>2
      <4> HIDE DEF new
      <4>3. Len(new) + missed'[e] = Len(channel[e]) + missed[e] + 1
        BY <3>1, <3>2, <4>1
      <4> QED
        BY <3>1, <3>2, <4>1, <4>2, <4>3
    <3>3. CASE /\ Len(channel[e]) >= Capacity
               /\ channel' = [channel EXCEPT ![e] = Append(Tail(channel[e]), now)]
               /\ missed' = [missed EXCEPT ![e] = missed[e] + 1]
      <4> DEFINE rest == Tail(channel[e])
                 new == Append(rest, now)
      <4>1. channel[e] # << >>
        BY <3>1, <3>3, RecorderAssumption
      <4>2. rest \in Seq(Message) /\ Len(rest) = Len(channel[e]) - 1 /\ Len(rest) \in Nat
        BY <3>1, <4>1
      <4> HIDE DEF rest
      <4>3. new \in Seq(Message) /\ Len(new) = Len(rest) + 1 /\ new[Len(new)] = now
            /\ new # << >>
        BY <4>2
      <4>4. channel' = [channel EXCEPT ![e] = new]
        BY <3>3 DEF rest
      <4> HIDE DEF new
      <4>5. missed'[e] = missed[e] + 1 /\ missed' \in [DOMAIN channel -> Nat]
            /\ \A f \in DOMAIN channel \ {e} : missed'[f] = missed[f]
        BY <1>5, <3>1, <3>3
      <4>6. Len(new) + missed'[e] = Len(channel[e]) + missed[e] + 1
        BY <3>1, <4>2, <4>3, <4>5
      <4> QED
        BY <4>3, <4>4, <4>5, <4>6
    <3> QED
      BY <2>1, <3>2, <3>3
  <2>3. ChannelsOK'
    BY <1>2, <1>3, <1>5, <2>1, <2>2 DEF RecorderInv, ChannelsOK
  <2>4. Remembered'
    <3> SUFFICES ASSUME NEW f \in DOMAIN channel PROVE Remembers(f)'
      BY <2>2 DEF Remembered
    <3>1. CASE f = e
      BY <1>5, <2>1, <2>2, <3>1 DEF Remembers, RecorderInv, ChannelsOK
    <3>2. CASE f # e
      BY <1>2, <2>1, <2>2, <3>2
      DEF RecorderInv, Remembered, Remembers, ChannelsOK, HeldStays
    <3> QED
      BY <3>1, <3>2
  <2>5. Waiting \in [DOMAIN channel -> Nat] /\ Waiting' \in [DOMAIN channel -> Nat]
    BY <2>2, <2>3, WaitingType DEF RecorderInv, ChannelsOK, Waiting
  <2>6. Waiting' = [Waiting EXCEPT ![e] = Waiting[e] + 1]
    <3>1. Waiting'[e] = Waiting[e] + 1
      BY <1>5, <2>2 DEF Waiting, RecorderInv, ChannelsOK
    <3>2. \A f \in DOMAIN channel \ {e} : Waiting'[f] = Waiting[f]
      BY <2>2 DEF Waiting, RecorderInv, ChannelsOK
    <3> QED
      BY <2>5, <3>1, <3>2
  <2>7. /\ IsFiniteSet(Places(Waiting'))
        /\ Cardinality(Places(Waiting')) = Cardinality(Places(Waiting)) + 1
    BY <1>5, <2>5, <2>6, OneMorePlace DEF RecorderInv, Accounts
  <2>8. Accounts'
    <3>1. Places(Waiting)' = Places(Waiting')
      BY DEF Places
    <3>2. Cardinality(Places(Waiting)) \in Nat
      BY FS_CardinalityType DEF RecorderInv, Accounts
    <3>3. arrived = stats.written + stats.errors + stats.skipped + removed
                    + Cardinality(Places(Waiting))
      BY DEF RecorderInv, Accounts, EveryChangeIsAccountedFor
    <3> QED
      BY <1>2, <2>1, <2>7, <3>1, <3>2, <3>3
      DEF RecorderInv, StatsOK, Accounts, EveryChangeIsAccountedFor
  <2> QED
    BY <1>2, <2>1, <2>3, <2>4, <2>8 DEF RecorderInv, StatsOK
<1> QED
  BY <1>4, <1>5

\* A row that is stored is in a table.
LEMMA StoredIsHeld ==
    ASSUME NEW e, NEW r, Stores(e, r)
    PROVE  Held(e, r)'
<1> DEFINE new == Insert(tables[Live], e, r.since, r.state)
<1>1. Live \in DOMAIN tables /\ tables' = [tables EXCEPT ![Live] = new]
  BY DEF Stores, Record, Write
<1>2. \E row \in new : Key(row) = <<e, r.since, r.state>>
  BY InsertHolds
<1> HIDE DEF new
<1>3. Live \in DOMAIN tables' /\ tables'[Live] = new
  BY <1>1
<1> QED
  BY <1>2, <1>3 DEF Held

\* The changes that are counted already.
Told == stats.written + stats.errors + stats.skipped + removed

\* k changes of e are taken off what waits and are counted once each.
CountsOff(D, e, k) ==
    /\ Accounts /\ Told \in Nat
    /\ Waiting \in [D -> Nat] /\ Waiting' \in [D -> Nat]
    /\ Waiting[e] = Waiting'[e] + k
    /\ \A d \in D \ {e} : Waiting'[d] = Waiting[d]
    /\ arrived' = arrived /\ Told' = Told + k

LEMMA Counted ==
    ASSUME NEW D, NEW e \in D, NEW k \in Nat, CountsOff(D, e, k)
    PROVE  Accounts'
<1> DEFINE old == Waiting
           new == Waiting'
           sum == Told
<1>1. /\ old \in [D -> Nat] /\ new \in [D -> Nat] /\ IsFiniteSet(Places(old))
      /\ old[e] = new[e] + k /\ \A d \in D \ {e} : new[d] = old[d]
  BY DEF CountsOff, Accounts
<1>2. arrived = sum + Cardinality(Places(old)) /\ arrived' = arrived /\ sum \in Nat
      /\ Told' = sum + k
  BY DEF CountsOff, Accounts, EveryChangeIsAccountedFor, Told
<1>3. Places(Waiting)' = Places(new)
  BY DEF Places
<1> HIDE DEF old, new, sum
<1>4. /\ IsFiniteSet(Places(new)) /\ Cardinality(Places(new)) \in Nat
      /\ Cardinality(Places(old)) = Cardinality(Places(new)) + k
  BY <1>1, FewerPlaces
<1>5. arrived' = Told' + Cardinality(Places(new))
  BY <1>2, <1>4
<1> QED
  BY <1>3, <1>4, <1>5 DEF Accounts, EveryChangeIsAccountedFor, Told

\* What has been missed is reported.
LEMMA LagKeeps ==
    ASSUME RecorderInv, NEW e \in Entities, Poll(e), missed[e] > 0
    PROVE  RecorderInv'
<1>1. /\ e \in DOMAIN channel
      /\ stats' = [stats EXCEPT !.skipped = stats.skipped + missed[e]]
      /\ missed' = [missed EXCEPT ![e] = 0]
      /\ UNCHANGED <<storeVars, channel, seen, removed, shown, pc, todo, arrived, told>>
  BY DEF Poll
<1>2. missed[e] \in Nat /\ missed \in [DOMAIN channel -> Nat] /\ Len(channel[e]) \in Nat
  BY <1>1 DEF RecorderInv, ChannelsOK
<1>3. ChannelsOK'
  BY <1>1, <1>2 DEF RecorderInv, ChannelsOK
<1>4. StatsOK' /\ stats'.errors = stats.errors /\ stats'.written = stats.written
      /\ stats'.skipped = stats.skipped + missed[e]
  BY <1>1, <1>2 DEF RecorderInv, StatsOK
<1>5. Remembered'
  BY <1>1, <1>4 DEF RecorderInv, Remembered, Remembers, Held, storeVars
<1>6. CountsOff(DOMAIN channel, e, missed[e])
  <2>1. Waiting \in [DOMAIN channel -> Nat]
    BY WaitingType DEF RecorderInv
  <2>2. Waiting[e] = Len(channel[e]) + missed[e] /\ Waiting'[e] = Len(channel[e]) + 0
    BY <1>1, <1>2 DEF Waiting
  <2>3. \A f \in DOMAIN channel \ {e} : Waiting'[f] = Waiting[f]
    BY <1>1, <1>2 DEF Waiting
  <2>4. Waiting[e] = Waiting'[e] + missed[e]
    BY <1>2, <2>2
  <2>5. Waiting' \in [DOMAIN channel -> Nat]
    BY <1>1, <1>3 DEF ChannelsOK, Waiting
  <2>6. Told' = Told + missed[e] /\ Told \in Nat
    BY <1>1, <1>2, <1>4 DEF RecorderInv, StatsOK, Told
  <2> QED
    BY <1>1, <2>1, <2>3, <2>4, <2>5, <2>6 DEF RecorderInv, CountsOff
<1>7. Accounts'
  BY <1>1, <1>2, <1>6, Counted
<1> QED
  BY <1>3, <1>4, <1>5, <1>7 DEF RecorderInv

\* A message is taken out: it is a removal, it is stored, or its write fails.
LEMMA MessageKeeps ==
    ASSUME RecorderInv, HeldStays, NEW e \in Entities, Poll(e), ~(missed[e] > 0)
    PROVE  RecorderInv'
<1> DEFINE message == Head(channel[e])
           rest == Tail(channel[e])
<1>1. /\ e \in DOMAIN channel /\ channel[e] # << >>
      /\ HandleChange(e, message)
      /\ channel' = [channel EXCEPT ![e] = rest]
      /\ UNCHANGED <<missed, shown, pc, todo, arrived, told>>
  BY DEF Poll
<1>2. channel[e] \in Seq(Message) /\ missed[e] \in Nat
  BY <1>1 DEF RecorderInv, ChannelsOK
<1>3. /\ message \in Message
      /\ rest \in Seq(Message) /\ Len(rest) = Len(channel[e]) - 1
      /\ Len(rest) \in Nat /\ Len(channel[e]) \in Nat
      /\ rest = << >> => message = channel[e][Len(channel[e])]
      /\ rest # << >> => rest[Len(rest)] = channel[e][Len(channel[e])]
  <2> DEFINE queue == channel[e]
  <2>1. queue \in Seq(Message) /\ queue # << >>
    BY <1>1, <1>2
  <2>2. /\ message = queue[1] /\ message \in Message
        /\ rest \in Seq(Message) /\ Len(rest) = Len(queue) - 1
        /\ Len(rest) \in Nat /\ Len(queue) \in Nat
        /\ \A i \in 1..Len(rest) : rest[i] = queue[i + 1]
    BY <2>1
  <2> HIDE DEF queue, rest
  <2>3. rest = << >> => Len(queue) = 1
    BY <2>2
  <2>4. rest # << >> => Len(rest) \in 1..Len(rest)
    BY <2>2
  <2>5. rest # << >> => rest[Len(rest)] = queue[Len(queue)]
    BY <2>2, <2>4
  <2> QED
    BY <2>2, <2>3, <2>5 DEF queue
<1>4. channel[e][Len(channel[e])] = told[e]
  BY <1>1 DEF RecorderInv, Remembered, Remembers
<1> HIDE DEF message, rest
<1>5. ChannelsOK'
  BY <1>1, <1>3 DEF RecorderInv, ChannelsOK
<1>6. /\ StatsOK'
      /\ stats'.errors \in {stats.errors, stats.errors + 1}
      /\ stats'.errors = stats.errors => \A r \in message : Held(e, r)'
      /\ Told \in Nat /\ Told' = Told + 1
  <2>1. /\ stats \in [written : Nat, skipped : Nat, errors : Nat, entities : Nat]
        /\ IsFiniteSet(seen) /\ removed \in Nat /\ arrived \in Nat
    BY DEF RecorderInv, StatsOK
  <2>2. CASE message = {}
    <3>1. UNCHANGED <<stats, seen, arrived>> /\ removed' = removed + 1
      BY <1>1, <2>2 DEF HandleChange
    <3> QED
      BY <2>1, <2>2, <3>1 DEF StatsOK, Told
  <2>3. CASE message # {}
    <3> DEFINE count == Cardinality(seen')
    <3>1. seen' = seen \union {e} /\ UNCHANGED <<removed, arrived>>
      BY <1>1, <2>3 DEF HandleChange
    <3>2. IsFiniteSet(seen') /\ count \in Nat
      BY <2>1, <3>1, FS_AddElement, FS_CardinalityType
    <3>3. \/ /\ \E r \in message : Stores(e, r)
             /\ stats' = [stats EXCEPT !.written = stats.written + 1, !.entities = count]
          \/ stats' = [stats EXCEPT !.errors = stats.errors + 1, !.entities = count]
      BY <1>1, <2>3 DEF HandleChange
    <3> HIDE DEF count
    <3>4. CASE /\ \E r \in message : Stores(e, r)
               /\ stats' = [stats EXCEPT !.written = stats.written + 1, !.entities = count]
      <4>1. \A r \in message : Held(e, r)'
        BY <1>3, <3>4, StoredIsHeld DEF Message
      <4>2. StatsOK' /\ stats'.errors = stats.errors /\ stats'.written = stats.written + 1
            /\ stats'.skipped = stats.skipped
        <5> DEFINE n == stats.written + 1
        <5>1. n \in Nat /\ stats' = [stats EXCEPT !.written = n, !.entities = count]
          BY <2>1, <3>4
        <5> HIDE DEF n
        <5>2. /\ stats' \in [written : Nat, skipped : Nat, errors : Nat, entities : Nat]
              /\ stats'.errors = stats.errors /\ stats'.written = n
              /\ stats'.skipped = stats.skipped
          BY <2>1, <3>2, <5>1
        <5> QED
          BY <2>1, <3>1, <3>2, <5>2 DEF StatsOK, n
      <4> QED
        BY <2>1, <3>1, <4>1, <4>2 DEF Told
    <3>5. CASE stats' = [stats EXCEPT !.errors = stats.errors + 1, !.entities = count]
      <4>1. StatsOK' /\ stats'.errors = stats.errors + 1 /\ stats'.written = stats.written
            /\ stats'.skipped = stats.skipped
        <5> DEFINE n == stats.errors + 1
        <5>1. n \in Nat /\ stats' = [stats EXCEPT !.errors = n, !.entities = count]
          BY <2>1, <3>5
        <5> HIDE DEF n
        <5>2. /\ stats' \in [written : Nat, skipped : Nat, errors : Nat, entities : Nat]
              /\ stats'.errors = n /\ stats'.written = stats.written
              /\ stats'.skipped = stats.skipped
          BY <2>1, <3>2, <5>1
        <5> QED
          BY <2>1, <3>1, <3>2, <5>2 DEF StatsOK, n
      <4> QED
        BY <2>1, <3>1, <4>1 DEF Told
    <3> QED
      BY <3>3, <3>4, <3>5
  <2> QED
    BY <2>2, <2>3
<1>7. stats'.errors = 0 => stats.errors = 0 /\ stats'.errors = stats.errors
  BY <1>6 DEF RecorderInv, StatsOK
<1>8. Remembered'
  <2> SUFFICES ASSUME NEW f \in DOMAIN channel PROVE Remembers(f)'
    BY <1>1 DEF Remembered
  <2>1. CASE f = e
    <3>1. channel'[e] = rest /\ told'[e] = told[e]
      BY <1>1 DEF RecorderInv, ChannelsOK
    <3>2. CASE rest = << >>
      <4>1. told[e] = message
        BY <1>3, <1>4, <3>2
      <4>2. stats'.errors = 0 => \A r \in told'[e] : Held(e, r)'
        BY <1>6, <1>7, <3>1, <4>1
      <4> QED
        BY <2>1, <3>1, <3>2, <4>2 DEF Remembers
    <3>3. CASE rest # << >>
      BY <1>3, <1>4, <2>1, <3>1, <3>3 DEF Remembers
    <3> QED
      BY <3>2, <3>3
  <2>2. CASE f # e
    BY <1>1, <1>7, <2>2 DEF RecorderInv, Remembered, Remembers, ChannelsOK, HeldStays
  <2> QED
    BY <2>1, <2>2
<1>9. CountsOff(DOMAIN channel, e, 1)
  <2>1. Waiting \in [DOMAIN channel -> Nat]
    BY WaitingType DEF RecorderInv
  <2>2. Waiting[e] = Len(channel[e]) + missed[e] /\ Waiting'[e] = Len(rest) + missed[e]
    BY <1>1 DEF Waiting
  <2>3. \A f \in DOMAIN channel \ {e} : Waiting'[f] = Waiting[f]
    BY <1>1 DEF Waiting
  <2>4. Waiting[e] = Waiting'[e] + 1
    BY <1>2, <1>3, <2>2
  <2>5. Waiting' \in [DOMAIN channel -> Nat]
    <3>1. DOMAIN channel' = DOMAIN channel
      BY <1>1
    <3> QED
      BY <1>5, <3>1 DEF ChannelsOK, Waiting
  <2> QED
    BY <1>1, <1>6, <2>1, <2>3, <2>4, <2>5 DEF RecorderInv, CountsOff
<1>10. Accounts'
  BY <1>1, <1>9, Counted
<1> QED
  BY <1>5, <1>6, <1>8, <1>10 DEF RecorderInv

\* An entity that matches is subscribed to, once.
LEMMA SubscribeKeeps ==
    ASSUME RecorderInv, HeldStays, NEW e \in Entities, Subscribe(e)
    PROVE  RecorderInv'
<1>1. /\ pc = "subscribe" /\ e \in todo /\ todo' = todo \ {e}
      /\ UNCHANGED <<shown, pc, stats, seen, arrived, removed>>
  BY DEF Subscribe
<1>2. e \notin DOMAIN channel /\ Matches(e)
  BY <1>1 DEF RecorderInv, ChannelsOK
<1>3. CASE UNCHANGED <<channel, missed, told>>
  <2>1. ChannelsOK'
    BY <1>1, <1>3 DEF RecorderInv, ChannelsOK
  <2> QED
    BY <1>1, <1>3, <2>1, Unmoved
<1>4. CASE /\ channel' = [f \in DOMAIN channel \union {e} |-> IF f = e THEN << >> ELSE channel[f]]
           /\ missed' = [f \in DOMAIN missed \union {e} |-> IF f = e THEN 0 ELSE missed[f]]
           /\ told' = [f \in DOMAIN told \union {e} |-> IF f = e THEN {} ELSE told[f]]
  <2>1. /\ DOMAIN channel' = DOMAIN channel \union {e}
        /\ DOMAIN missed = DOMAIN channel /\ DOMAIN told = DOMAIN channel
    BY <1>4 DEF RecorderInv, ChannelsOK
  <2>2. /\ channel'[e] = << >> /\ missed'[e] = 0 /\ told'[e] = {}
        /\ \A f \in DOMAIN channel :
              channel'[f] = channel[f] /\ missed'[f] = missed[f] /\ told'[f] = told[f]
    BY <1>2, <1>4, <2>1
  <2>3. ChannelsOK'
    <3>1. << >> \in Seq(Message) /\ {} \in Message
      BY DEF Message
    <3>2. channel' \in [DOMAIN channel' -> Seq(Message)]
      BY <1>4, <2>1, <3>1 DEF RecorderInv, ChannelsOK
    <3>3. missed' \in [DOMAIN channel' -> Nat] /\ told' \in [DOMAIN channel' -> Message]
      BY <1>4, <2>1, <3>1 DEF RecorderInv, ChannelsOK
    <3> QED
      BY <1>1, <1>2, <2>1, <3>2, <3>3 DEF RecorderInv, ChannelsOK
  <2>4. Remembered'
    BY <1>1, <2>1, <2>2 DEF RecorderInv, Remembered, Remembers, HeldStays
  <2>5. Waiting'[e] = 0 /\ \A f \in DOMAIN channel : Waiting'[f] = Waiting[f]
    BY <2>1, <2>2 DEF Waiting
  <2>6. Places(Waiting') = Places(Waiting)
    <3>1. DOMAIN Waiting' = DOMAIN Waiting \union {e} /\ DOMAIN Waiting = DOMAIN channel
      BY <2>1 DEF Waiting
    <3>2. {e} \X (1..Waiting'[e]) = {}
      BY <2>5
    <3> QED
      BY <1>2, <2>5, <3>1, <3>2 DEF Places
  <2>7. Places(Waiting)' = Places(Waiting)
    BY <2>6 DEF Places
  <2>8. Accounts'
    BY <1>1, <2>7 DEF RecorderInv, Accounts, EveryChangeIsAccountedFor
  <2> QED
    BY <1>1, <2>3, <2>4, <2>8 DEF RecorderInv, StatsOK
<1> QED
  BY <1>3, <1>4 DEF Subscribe

-----------------------------------------------------------------------------
(* The invariant *)

LEMMA InitIInv == Init => IInv
<1> SUFFICES ASSUME Init PROVE IInv
  OBVIOUS
<1>1. TablesOK
  BY StoreAssumption DEF Init, StoreInit, NoRotation, TablesOK
<1>2. DOMAIN channel = {} /\ DOMAIN missed = {} /\ DOMAIN told = {}
  BY DEF Init, RecorderInit
<1>3. ChannelsOK
  <2>1. shown \in [Entities -> Message]
    BY DEF Init, RecorderInit, Shows, Message
  <2>2. /\ channel \in [DOMAIN channel -> Seq(Message)]
        /\ missed \in [DOMAIN channel -> Nat]
        /\ told \in [DOMAIN channel -> Message]
    BY DEF Init, RecorderInit
  <2> QED
    BY <1>2, <2>1, <2>2 DEF Init, RecorderInit, ChannelsOK
<1>4. StatsOK
  BY FS_EmptySet DEF Init, RecorderInit, NoStats, StatsOK
<1>5. Accounts
  <2>1. DOMAIN Waiting = {}
    BY <1>2 DEF Waiting
  <2> QED
    BY <2>1, NothingWaits DEF Init, RecorderInit, NoStats, Accounts, EveryChangeIsAccountedFor
<1> QED
  BY <1>1, <1>2, <1>3, <1>4, <1>5 DEF IInv, Remembered

LEMMA StepIInv == IInv /\ [Next]_vars => IInv'
<1> SUFFICES ASSUME IInv, [Next]_vars PROVE IInv'
  OBVIOUS
<1>1. TablesOK /\ RecorderInv /\ ChannelsOK
  BY DEF IInv, RecorderInv
<1>2. TablesOK' /\ HeldStays
  BY <1>1, StepTables DEF HeldStays
<1>3. ASSUME RecorderInv' PROVE IInv'
  BY <1>2, <1>3 DEF IInv, RecorderInv
<1>4. CASE Process
  <2>1. CASE Start
    <3>1. ChannelsOK'
      BY <1>1, <2>1 DEF Start, ChannelsOK
    <3> QED
      BY <1>1, <1>2, <1>3, <2>1, <3>1, Unmoved DEF Start
  <2>2. CASE Crash
    BY <1>1, <1>3, <2>2, ForgetStarts DEF Crash
  <2>3. CASE Lose
    <3>1. ChannelsOK'
      BY <1>1, <2>3 DEF Lose, ChannelsOK
    <3> QED
      BY <1>1, <1>2, <1>3, <2>3, <3>1, Unmoved DEF Lose
  <2>4. CASE BackfillEnds
    <3>1. ChannelsOK'
      BY <1>1, <2>4 DEF BackfillEnds, ChannelsOK
    <3> QED
      BY <1>1, <1>2, <1>3, <2>4, <3>1, Unmoved DEF BackfillEnds
  <2>5. CASE Fetch
    <3>1. CASE open
      <4>1. ChannelsOK'
        BY <1>1, <2>5, <3>1 DEF Fetch, ChannelsOK
      <4> QED
        BY <1>1, <1>2, <1>3, <2>5, <3>1, <4>1, Unmoved DEF Fetch
    <3>2. CASE ~open
      BY <1>1, <1>3, <2>5, <3>2, ForgetStarts DEF Fetch
    <3> QED
      BY <3>1, <3>2
  <2>6. CASE Subscribed
    <3>1. ChannelsOK'
      BY <1>1, <2>6 DEF Subscribed, ChannelsOK
    <3> QED
      BY <1>1, <1>2, <1>3, <2>6, <3>1, Unmoved DEF Subscribed
  <2>7. ASSUME NEW e \in Entities, Change(e) PROVE IInv'
    BY <1>1, <1>2, <1>3, <2>7, ChangeKeeps
  <2>8. ASSUME NEW e \in Entities, Backfill(e) PROVE IInv'
    <3>1. CASE Forget
      BY <1>1, <1>3, <3>1, ForgetStarts
    <3>2. CASE /\ todo' = todo \ {e}
               /\ UNCHANGED <<shown, open, pc, channel, missed, stats, seen, arrived, removed,
                              told, budget>>
      <4>1. ChannelsOK'
        BY <1>1, <3>2 DEF ChannelsOK
      <4> QED
        BY <1>1, <1>2, <1>3, <3>2, <4>1, Unmoved
    <3> QED
      BY <2>8, <3>1, <3>2 DEF Backfill
  <2>9. ASSUME NEW e \in Entities, Subscribe(e) PROVE IInv'
    BY <1>1, <1>2, <1>3, <2>9, SubscribeKeeps
  <2>10. ASSUME NEW e \in Entities, Poll(e) PROVE IInv'
    BY <1>1, <1>2, <1>3, <2>10, LagKeeps, MessageKeeps
  <2> QED
    BY <1>4, <2>1, <2>2, <2>3, <2>4, <2>5, <2>6, <2>7, <2>8, <2>9, <2>10 DEF Process
<1>5. CASE UNCHANGED recorderVars
  <2>1. ChannelsOK'
    BY <1>1, <1>5 DEF recorderVars, ChannelsOK
  <2> QED
    BY <1>1, <1>2, <1>3, <1>5, <2>1, Unmoved DEF recorderVars
<1> QED
  BY <1>4, <1>5 DEF Next, BeginRotation, RotateOn, Other, vars

LEMMA Invariant == Spec => []IInv
BY InitIInv, StepIInv, PTL DEF Spec

-----------------------------------------------------------------------------
(* The theorems *)

\* The tables, the channels and the statistics are well typed in every reachable
\* state, and the process has channels of entities that match alone (recorder.rs: run).
THEOREM TypeCorrect == Spec => [](TablesOK /\ ChannelsOK /\ StatsOK)
<1>1. IInv => TablesOK /\ ChannelsOK /\ StatsOK
  BY DEF IInv
<1> QED
  BY <1>1, Invariant, PTL

\* The newest change that a process was sent of an entity is in a table once its
\* channel is empty and no write has failed, however many changes the channel dropped
\* and wherever rotations, complete or not, have put the rows (recorder.rs: run;
\* mysql_store.rs: rotate_for_curation).
THEOREM NewestIsKept == Spec => []CaughtUp
<1>1. IInv => CaughtUp
  BY DEF IInv, CaughtUp, ChannelsOK, Remembered, Remembers, Held
<1> QED
  BY <1>1, Invariant, PTL

\* Every change is in the statistics or waits, whatever is dropped, fails or is removed
\* (recorder.rs: run, handle_change).
THEOREM AccountsAreKept == Spec => []EveryChangeIsAccountedFor
<1>1. IInv => EveryChangeIsAccountedFor
  BY DEF IInv, Accounts
<1> QED
  BY <1>1, Invariant, PTL

-----------------------------------------------------------------------------
(* The filter *)

\* A set of numbers has a least one.
LEMMA LeastNumber ==
    ASSUME NEW bad \in SUBSET Nat, bad # {}
    PROVE  \E k \in bad : \A m \in bad : k <= m
<1>1. PICK k \in bad : \A m \in bad : <<m, k>> \notin OpToRel(<, Nat)
  BY NatLessThanWellFounded, WFMin
<1>2. \A m \in bad : ~(m < k)
  BY <1>1 DEF OpToRel
<1> QED
  BY <1>2

\* How far the first characters of a pattern may reach in a text.
After(p, text, i, from) ==
    IF p[i] = Star THEN UNION {k..Len(text) : k \in from}
    ELSE {k + 1 : k \in {j \in from : j < Len(text) /\ text[j + 1] = p[i]}}
Reaches(p, text, n, g) ==
    g = [i \in 0..n |-> IF i = 0 THEN {0} ELSE After(p, text, i, g[i - 1])]
Reach(p, text) == CHOOSE g : Reaches(p, text, Len(p), g)

LEMMA AdmitsIsReach ==
    ASSUME NEW p, NEW text
    PROVE  Admits(p, text) <=> Len(text) \in Reach(p, text)[Len(p)]
BY DEF Admits, Reach, Reaches, After

LEMMA ReachSteps ==
    ASSUME NEW p, NEW text, Len(p) \in Nat
    PROVE  /\ Reach(p, text)[0] = {0}
           /\ \A i \in 1..Len(p) :
                Reach(p, text)[i] = After(p, text, i, Reach(p, text)[i - 1])
<1> DEFINE bad == {n \in Nat : ~ \E g : Reaches(p, text, n, g)}
<1>1. bad = {}
  <2> SUFFICES ASSUME bad # {} PROVE FALSE
    OBVIOUS
  <2>1. PICK n \in bad : \A m \in bad : n <= m
    BY LeastNumber
  <2>2. n \in Nat /\ ~ \E g : Reaches(p, text, n, g)
    OBVIOUS
  <2>3. n # 0
    <3> SUFFICES ASSUME n = 0 PROVE FALSE
      OBVIOUS
    <3> DEFINE g == [i \in 0..0 |-> {0}]
    <3>1. g = [i \in 0..0 |-> IF i = 0 THEN {0} ELSE After(p, text, i, g[i - 1])]
      OBVIOUS
    <3> HIDE DEF g
    <3>2. Reaches(p, text, 0, g)
      BY <3>1 DEF Reaches
    <3> QED
      BY <2>2, <3>2
  <2> DEFINE m == n - 1
  <2>4. m \in Nat /\ n = m + 1 /\ m \notin bad
    <3>1. m \in Nat /\ n = m + 1 /\ ~(n <= m)
      BY <2>2, <2>3
    <3> HIDE DEF bad, m
    <3> QED
      BY <2>1, <3>1
  <2>5. PICK g : Reaches(p, text, m, g)
    BY <2>4
  <2>6. g = [i \in 0..m |-> IF i = 0 THEN {0} ELSE After(p, text, i, g[i - 1])]
    BY <2>5 DEF Reaches
  <2> DEFINE h == [i \in 0..n |-> IF i = 0 THEN {0} ELSE After(p, text, i, g[i - 1])]
  <2> HIDE DEF m
  <2>7. \A i \in 0..m : h[i] = g[i]
    <3>1. \A i \in 0..m : i \in 0..n
      BY <2>4
    <3> QED
      BY <2>6, <3>1
  <2>8. \A i \in 1..n : h[i - 1] = g[i - 1]
    <3>1. \A i \in 1..n : i - 1 \in 0..m
      BY <2>4
    <3> HIDE DEF h
    <3> QED
      BY <2>7, <3>1
  <2>9. \A i \in 0..n : h[i] = IF i = 0 THEN {0} ELSE After(p, text, i, h[i - 1])
    <3>1. \A i \in 0..n : i = 0 \/ i \in 1..n
      BY <2>2
    <3>2. \A i \in 0..n : h[i] = IF i = 0 THEN {0} ELSE After(p, text, i, g[i - 1])
      OBVIOUS
    <3> HIDE DEF h
    <3> QED
      BY <2>8, <3>1, <3>2
  <2>10. h = [i \in 0..n |-> h[i]]
    OBVIOUS
  <2> HIDE DEF h
  <2>11. Reaches(p, text, n, h)
    BY <2>9, <2>10 DEF Reaches
  <2> QED
    BY <2>2, <2>11
<1>2. Reaches(p, text, Len(p), Reach(p, text))
  BY <1>1 DEF Reach
<1> DEFINE g == Reach(p, text)
<1> HIDE DEF g
<1>3. g = [i \in 0..Len(p) |-> IF i = 0 THEN {0} ELSE After(p, text, i, g[i - 1])]
  BY <1>2 DEF Reaches, g
<1>4. 0 \in 0..Len(p) /\ \A i \in 1..Len(p) : i \in 0..Len(p) /\ i # 0
  OBVIOUS
<1>5. g[0] = {0} /\ \A i \in 1..Len(p) : g[i] = After(p, text, i, g[i - 1])
  BY <1>3, <1>4
<1> QED
  BY <1>5 DEF g

\* The first i characters of the pattern are those of the text.
Agrees(p, text, i) == i <= Len(text) /\ \A j \in 1..i : text[j] = p[j]

\* The last characters of the pattern, after place k, are those before place x of the text.
Follows(p, text, k, i, x) == \A j \in k + 1..i : text[(x - i) + j] = p[j]

\* Before the first star there is one way to read a text.
LEMMA ReachBeforeStar ==
    ASSUME NEW C, NEW p \in Seq(C), NEW text \in Seq(C), NEW k \in 1..Len(p) + 1,
           \A i \in 1..k - 1 : p[i] # Star
    PROVE  \A i \in 0..k - 1 :
              Reach(p, text)[i] = IF Agrees(p, text, i) THEN {i} ELSE {}
<1> DEFINE g == Reach(p, text)
           bad == {i \in Nat : i <= k - 1 /\ g[i] # IF Agrees(p, text, i) THEN {i} ELSE {}}
<1> HIDE DEF g
<1>1. bad = {}
  <2> SUFFICES ASSUME bad # {} PROVE FALSE
    OBVIOUS
  <2>1. PICK i \in bad : \A m \in bad : i <= m
    BY LeastNumber
  <2>2. i \in Nat /\ i <= k - 1 /\ g[i] # IF Agrees(p, text, i) THEN {i} ELSE {}
    OBVIOUS
  <2>3. i # 0
    <3>1. g[0] = {0}
      BY ReachSteps DEF g
    <3>2. Agrees(p, text, 0)
      BY DEF Agrees
    <3> QED
      BY <2>2, <3>1, <3>2
  <2> DEFINE m == i - 1
  <2>4. m \in Nat /\ m <= k - 1 /\ m \notin bad /\ i = m + 1
    <3>1. m \in Nat /\ m <= k - 1 /\ i = m + 1 /\ ~(i <= m)
      BY <2>2, <2>3
    <3> HIDE DEF bad, m
    <3> QED
      BY <2>1, <3>1
  <2>5. g[m] = IF Agrees(p, text, m) THEN {m} ELSE {}
    BY <2>4
  <2>6. p[i] # Star /\ i \in 1..Len(p)
    BY <2>2, <2>3
  <2>7. g[i] = After(p, text, i, g[m])
    BY <2>6, ReachSteps DEF g
  <2>8. g[i] = {q + 1 : q \in {j \in g[m] : j < Len(text) /\ text[j + 1] = p[i]}}
    BY <2>6, <2>7 DEF After
  <2>9. Agrees(p, text, i) <=> Agrees(p, text, m) /\ m < Len(text) /\ text[i] = p[i]
    <3>1. \A j : j \in 1..i <=> j \in 1..m \/ j = i
      BY <2>4
    <3> HIDE DEF m
    <3> QED
      BY <2>4, <3>1 DEF Agrees
  <2> HIDE DEF m
  <2>10. CASE Agrees(p, text, m)
    BY <2>2, <2>4, <2>5, <2>8, <2>9, <2>10
  <2>11. CASE ~Agrees(p, text, m)
    BY <2>2, <2>5, <2>8, <2>9, <2>11
  <2> QED
    BY <2>10, <2>11
<1> QED
  BY <1>1 DEF g

\* After it, what follows it in the pattern may be read anywhere behind.
LEMMA ReachAfterStar ==
    ASSUME NEW C, NEW p \in Seq(C), NEW text \in Seq(C), NEW k \in 1..Len(p),
           \A i \in 1..Len(p) : p[i] = Star <=> i = k
    PROVE  \A i \in k..Len(p) :
              Reach(p, text)[i] = IF Agrees(p, text, k - 1)
                                  THEN {x \in i - 1..Len(text) : Follows(p, text, k, i, x)}
                                  ELSE {}
<1> DEFINE g == Reach(p, text)
           ok == Agrees(p, text, k - 1)
           Here(i) == {x \in i - 1..Len(text) : Follows(p, text, k, i, x)}
           bad == {i \in Nat : i \in k..Len(p) /\ g[i] # IF ok THEN Here(i) ELSE {}}
<1> HIDE DEF g, ok
<1>1. g[k - 1] = IF ok THEN {k - 1} ELSE {}
  <2>1. k \in 1..Len(p) + 1 /\ k - 1 \in 0..k - 1 /\ \A i \in 1..k - 1 : i \in 1..Len(p) /\ i # k
    OBVIOUS
  <2>2. \A i \in 1..k - 1 : p[i] # Star
    BY <2>1
  <2> QED
    BY <2>1, <2>2, ReachBeforeStar DEF g, ok
<1>2. bad = {}
  <2> SUFFICES ASSUME bad # {} PROVE FALSE
    OBVIOUS
  <2>1. PICK i \in bad : \A m \in bad : i <= m
    BY LeastNumber
  <2>2. i \in Nat /\ i \in k..Len(p) /\ g[i] # IF ok THEN Here(i) ELSE {}
    OBVIOUS
  <2> HIDE DEF bad, Here
  <2>3. g[i] = After(p, text, i, g[i - 1])
    <3>1. i \in 1..Len(p) /\ Len(p) \in Nat
      BY <2>2
    <3> QED
      BY <3>1, ReachSteps DEF g
  <2>4. i # k
    <3> SUFFICES ASSUME i = k PROVE FALSE
      OBVIOUS
    <3>1. g[k] = UNION {q..Len(text) : q \in g[k - 1]}
      BY <2>3 DEF After
    <3>2. Here(k) = k - 1..Len(text)
      BY DEF Here, Follows
    <3>3. CASE ok
      <4>1. UNION {q..Len(text) : q \in {k - 1}} = k - 1..Len(text)
        OBVIOUS
      <4> QED
        BY <1>1, <2>2, <3>1, <3>2, <3>3, <4>1
    <3>4. CASE ~ok
      BY <1>1, <2>2, <3>1, <3>4
    <3> QED
      BY <3>3, <3>4
  <2> DEFINE m == i - 1
  <2>5. m \in Nat /\ m \in k..Len(p) /\ i = m + 1 /\ ~(i <= m)
    BY <2>2, <2>4
  <2>6. g[m] = IF ok THEN Here(m) ELSE {}
    <3>1. m \notin bad
      BY <2>1, <2>5
    <3> HIDE DEF m
    <3> QED
      BY <2>5, <3>1 DEF bad
  <2>7. g[i] = {q + 1 : q \in {j \in g[m] : j < Len(text) /\ text[j + 1] = p[i]}}
    BY <2>2, <2>3, <2>4 DEF After
  <2>8. CASE ok
    <3> HIDE DEF m
    <3>1. \A q : (q \in Here(m) /\ q < Len(text) /\ text[q + 1] = p[i]) => q + 1 \in Here(i)
      <4> SUFFICES ASSUME NEW q, q \in Here(m), q < Len(text), text[q + 1] = p[i]
                   PROVE  q + 1 \in Here(i)
        OBVIOUS
      <4>1. q \in m - 1..Len(text) /\ \A j \in k + 1..m : text[(q - m) + j] = p[j]
        BY DEF Here, Follows
      <4>2. q + 1 \in i - 1..Len(text)
        BY <2>5, <4>1
      <4>3. ASSUME NEW j \in k + 1..i PROVE text[((q + 1) - i) + j] = p[j]
        <5>1. CASE j = i
          <6>1. ((q + 1) - i) + j = q + 1
            BY <2>5, <4>1, <5>1
          <6> QED
            BY <5>1, <6>1
        <5>2. CASE j # i
          <6>1. j \in k + 1..m /\ ((q + 1) - i) + j = (q - m) + j
            BY <2>5, <4>1, <5>2
          <6> QED
            BY <4>1, <6>1
        <5> QED
          BY <5>1, <5>2
      <4> QED
        BY <4>2, <4>3 DEF Here, Follows
    <3>2. \A x \in Here(i) : /\ x - 1 \in Here(m) /\ x - 1 < Len(text)
                             /\ text[(x - 1) + 1] = p[i] /\ x = (x - 1) + 1
      <4> SUFFICES ASSUME NEW x \in Here(i)
                   PROVE  /\ x - 1 \in Here(m) /\ x - 1 < Len(text)
                          /\ text[(x - 1) + 1] = p[i] /\ x = (x - 1) + 1
        OBVIOUS
      <4>1. x \in i - 1..Len(text) /\ \A j \in k + 1..i : text[(x - i) + j] = p[j]
        BY DEF Here, Follows
      <4>2. x - 1 \in m - 1..Len(text) /\ x - 1 < Len(text) /\ x = (x - 1) + 1
        BY <2>5, <4>1
      <4>3. text[(x - 1) + 1] = p[i]
        <5>1. i \in k + 1..i /\ (x - i) + i = (x - 1) + 1
          BY <2>5, <4>1
        <5> QED
          BY <4>1, <5>1
      <4>4. \A j \in k + 1..m : text[((x - 1) - m) + j] = p[j]
        <5>1. \A j \in k + 1..m : j \in k + 1..i /\ ((x - 1) - m) + j = (x - i) + j
          BY <2>5, <4>1
        <5> QED
          BY <4>1, <5>1
      <4> QED
        BY <4>2, <4>3, <4>4 DEF Here, Follows
    <3>3. g[i] = Here(i)
      BY <2>6, <2>7, <2>8, <3>1, <3>2
    <3> QED
      BY <2>2, <2>8, <3>3
  <2>9. CASE ~ok
    BY <2>2, <2>6, <2>7, <2>9
  <2> QED
    BY <2>8, <2>9
<1>3. \A i \in k..Len(p) : g[i] = IF ok THEN Here(i) ELSE {}
  <2>1. \A i \in k..Len(p) : i \in Nat
    OBVIOUS
  <2>2. \A i \in Nat : (i \in k..Len(p) /\ g[i] # IF ok THEN Here(i) ELSE {}) => i \in bad
    OBVIOUS
  <2> HIDE DEF bad, Here
  <2> QED
    BY <1>2, <2>1, <2>2
<1> QED
  BY <1>3 DEF g, ok

\* What starts and what ends a text, character by character.
LEMMA PrefixIs ==
    ASSUME NEW C, NEW s \in Seq(C), NEW t \in Seq(C)
    PROVE  IsPrefix(s, t) <=> Len(s) <= Len(t) /\ \A i \in 1..Len(s) : s[i] = t[i]
<1>1. Len(s) \in Nat /\ Len(t) \in Nat
  OBVIOUS
<1>2. SubSeq(s, 1, Len(s)) = [i \in 1..Len(s) |-> s[i]]
  OBVIOUS
<1>3. ASSUME Len(s) <= Len(t) PROVE SubSeq(t, 1, Len(s)) = [i \in 1..Len(s) |-> t[i]]
  BY <1>1, <1>3
<1> DEFINE a == SubSeq(s, 1, Len(s))
           b == SubSeq(t, 1, Len(s))
<1> HIDE DEF a, b
<1>4. ASSUME Len(s) <= Len(t)
      PROVE  a = b <=> \A i \in 1..Len(s) : s[i] = t[i]
  <2>1. a = [i \in 1..Len(s) |-> s[i]] /\ b = [i \in 1..Len(s) |-> t[i]]
    BY <1>2, <1>3, <1>4 DEF a, b
  <2> QED
    BY <2>1
<1> QED
  BY <1>4 DEF IsPrefix, a, b

LEMMA SuffixIs ==
    ASSUME NEW C, NEW s \in Seq(C), NEW t \in Seq(C)
    PROVE  IsSuffix(s, t) <=> /\ Len(s) <= Len(t)
                              /\ \A i \in 1..Len(s) : s[i] = t[(Len(t) - Len(s)) + i]
<1> DEFINE u == Reverse(s)
           v == Reverse(t)
<1>1. Len(s) \in Nat /\ Len(t) \in Nat
  OBVIOUS
<1>2. u = [i \in 1..Len(s) |-> s[(Len(s) - i) + 1]] /\ v = [i \in 1..Len(t) |-> t[(Len(t) - i) + 1]]
  BY DEF Reverse
<1>3. \A i \in 1..Len(s) : (Len(s) - i) + 1 \in 1..Len(s)
  BY <1>1
<1>4. \A i \in 1..Len(t) : (Len(t) - i) + 1 \in 1..Len(t)
  BY <1>1
<1> HIDE DEF u, v
<1>5. u \in Seq(C) /\ Len(u) = Len(s)
  <2>1. \A i \in 1..Len(s) : s[(Len(s) - i) + 1] \in C
    BY <1>3
  <2> QED
    BY <1>1, <1>2, <2>1
<1>6. v \in Seq(C) /\ Len(v) = Len(t)
  <2>1. \A i \in 1..Len(t) : t[(Len(t) - i) + 1] \in C
    BY <1>4
  <2> QED
    BY <1>1, <1>2, <2>1
<1>7. IsSuffix(s, t) <=> Len(s) <= Len(t) /\ \A i \in 1..Len(s) : u[i] = v[i]
  <2>1. IsSuffix(s, t) <=> IsPrefix(u, v)
    BY DEF IsSuffix, u, v
  <2> QED
    BY <1>5, <1>6, <2>1, PrefixIs
<1>8. ASSUME Len(s) <= Len(t)
      PROVE  (\A i \in 1..Len(s) : u[i] = v[i])
             <=> \A i \in 1..Len(s) : s[i] = t[(Len(t) - Len(s)) + i]
  <2>1. \A i \in 1..Len(s) : /\ u[i] = s[(Len(s) - i) + 1]
                             /\ v[i] = t[(Len(t) - i) + 1]
    BY <1>1, <1>2, <1>8
  <2>2. ASSUME \A i \in 1..Len(s) : u[i] = v[i], NEW i \in 1..Len(s)
        PROVE  s[i] = t[(Len(t) - Len(s)) + i]
    <3> DEFINE j == (Len(s) - i) + 1
    <3>1. /\ j \in 1..Len(s) /\ (Len(s) - j) + 1 = i
          /\ (Len(t) - j) + 1 = (Len(t) - Len(s)) + i
      BY <1>1
    <3> HIDE DEF j
    <3> QED
      BY <2>1, <2>2, <3>1
  <2>3. ASSUME \A i \in 1..Len(s) : s[i] = t[(Len(t) - Len(s)) + i], NEW i \in 1..Len(s)
        PROVE  u[i] = v[i]
    <3> DEFINE j == (Len(s) - i) + 1
    <3>1. j \in 1..Len(s) /\ (Len(t) - i) + 1 = (Len(t) - Len(s)) + j
      BY <1>1
    <3> HIDE DEF j
    <3>2. s[j] = t[(Len(t) - i) + 1]
      BY <2>3, <3>1
    <3> QED
      BY <2>1, <3>2 DEF j
  <2> QED
    BY <2>2, <2>3
<1> QED
  BY <1>7, <1>8

\* A pattern without a star is one part, and one star makes two.
LEMMA NoStar ==
    ASSUME NEW p, \A i \in DOMAIN p : p[i] # Star
    PROVE  Len(StarsIn(p)) = 0
<1> DEFINE places == {i \in DOMAIN p : p[i] = Star}
           S == [1..Cardinality(places) -> places]
<1>1. places = {}
  OBVIOUS
<1>2. Cardinality(places) = 0
  BY <1>1, FS_EmptySet
<1>3. S = [1..0 -> places]
  BY <1>2
<1>4. StarsIn(p) = CHOOSE seq \in S : \A i, j \in DOMAIN seq : i < j => seq[i] < seq[j]
  BY DEF StarsIn
<1>5. \A i : i \notin 1..0
  OBVIOUS
<1>6. \E seq \in S : \A i, j \in DOMAIN seq : i < j => seq[i] < seq[j]
  <2> DEFINE none == [i \in 1..0 |-> i]
  <2>1. none \in [1..0 -> places] /\ \A i, j \in DOMAIN none : i < j => none[i] < none[j]
    BY <1>5
  <2> HIDE DEF S, places, none
  <2> QED
    BY <1>3, <2>1
<1> HIDE DEF S
<1>7. StarsIn(p) \in S
  BY <1>4, <1>6
<1>8. DOMAIN StarsIn(p) = 1..0 /\ StarsIn(p) = [i \in 1..0 |-> StarsIn(p)[i]]
  BY <1>3, <1>7
<1> DEFINE f == StarsIn(p)
<1> HIDE DEF f
<1>9. f = [i \in 1..0 |-> f[i]]
  BY <1>8 DEF f
<1>10. f \in Seq(Nat) /\ Len(f) = 0
  BY <1>5, <1>9
<1> QED
  BY <1>10 DEF f

LEMMA OneStar ==
    ASSUME NEW C, NEW p \in Seq(C), NEW k \in 1..Len(p),
           \A i \in 1..Len(p) : p[i] = Star <=> i = k
    PROVE  StarsIn(p) = << k >>
<1> DEFINE places == {i \in DOMAIN p : p[i] = Star}
           S == [1..Cardinality(places) -> places]
<1>1. places = {k}
  OBVIOUS
<1>2. Cardinality(places) = 1
  BY <1>1, FS_Singleton
<1>3. S = {<< k >>}
  <2>1. S = [1..1 -> {k}]
    BY <1>1, <1>2
  <2>2. << k >> \in [1..1 -> {k}] /\ \A f \in [1..1 -> {k}] : f = << k >>
    OBVIOUS
  <2> HIDE DEF S
  <2> QED
    BY <2>1, <2>2
<1>4. StarsIn(p) = CHOOSE seq \in S : \A i, j \in DOMAIN seq : i < j => seq[i] < seq[j]
  BY DEF StarsIn
<1> HIDE DEF S
<1>5. \E seq \in S : \A i, j \in DOMAIN seq : i < j => seq[i] < seq[j]
  BY <1>3
<1>6. StarsIn(p) \in S
  BY <1>4, <1>5
<1> QED
  BY <1>3, <1>6

LEMMA PartsOfOne ==
    ASSUME NEW C, NEW p \in Seq(C), NEW k \in 1..Len(p),
           \A i \in 1..Len(p) : p[i] = Star <=> i = k
    PROVE  /\ Len(StarsIn(p)) = 1
           /\ Part(p, 0) = SubSeq(p, 1, k - 1)
           /\ Part(p, 1) = SubSeq(p, k + 1, Len(p))
<1>1. StarsIn(p) = << k >>
  BY OneStar
<1> DEFINE stars == << 0 >> \o StarsIn(p) \o << Len(p) + 1 >>
<1> DEFINE first == << 0 >> \o << k >>
<1> DEFINE last == << Len(p) + 1 >>
<1>2. stars = first \o last
  BY <1>1
<1>3. first \in Seq(Nat) /\ Len(first) = 2 /\ first[1] = 0 /\ first[2] = k
  OBVIOUS
<1>4. last \in Seq(Nat) /\ Len(last) = 1 /\ last[1] = Len(p) + 1
  OBVIOUS
<1>5. \A n : Part(p, n) = SubSeq(p, stars[n + 1] + 1, stars[n + 2] - 1)
  BY DEF Part
<1> HIDE DEF stars, first, last
<1>6. stars[1] = 0 /\ stars[2] = k /\ stars[3] = Len(p) + 1
  <2>1. \A i \in 1..3 : stars[i] = IF i <= 2 THEN first[i] ELSE last[i - 2]
    <3>1. first \in Seq(Nat) /\ last \in Seq(Nat)
      BY <1>3, <1>4
    <3>2. \A i \in 1..Len(first) + Len(last) :
             (first \o last)[i] = IF i <= Len(first) THEN first[i] ELSE last[i - Len(first)]
      BY <3>1, ConcatProperties
    <3>3. Len(first) = 2 /\ Len(last) = 1 /\ Len(first) + Len(last) = 3
      BY <1>3, <1>4
    <3> QED
      BY <1>2, <3>2, <3>3
  <2> QED
    BY <1>3, <1>4, <2>1
<1>7. stars[0 + 1] = 0 /\ stars[0 + 2] = k /\ stars[1 + 1] = k /\ stars[1 + 2] = Len(p) + 1
  BY <1>6
<1>8. Part(p, 0) = SubSeq(p, 0 + 1, k - 1) /\ Part(p, 1) = SubSeq(p, k + 1, (Len(p) + 1) - 1)
  BY <1>5, <1>7
<1> QED
  BY <1>1, <1>8

\* A pattern and a text have the same characters up to the end of the pattern.
LEMMA AdmitsExactly ==
    ASSUME NEW C, NEW p \in Seq(C), NEW text \in Seq(C), \A i \in 1..Len(p) : p[i] # Star
    PROVE  Admits(p, text) <=> p = text
<1>1. Len(p) \in Nat /\ Len(text) \in Nat
  OBVIOUS
<1> DEFINE k == Len(p) + 1
<1>2. k \in 1..Len(p) + 1 /\ k - 1 = Len(p) /\ Len(p) \in 0..k - 1
  BY <1>1
<1>3. \A i \in 1..k - 1 : p[i] # Star
  BY <1>2
<1> HIDE DEF k
<1>4. Reach(p, text)[Len(p)] = IF Agrees(p, text, Len(p)) THEN {Len(p)} ELSE {}
  BY <1>2, <1>3, ReachBeforeStar
<1>5. Admits(p, text) <=> Agrees(p, text, Len(p)) /\ Len(text) = Len(p)
  BY <1>4, AdmitsIsReach
<1>6. Agrees(p, text, Len(p)) /\ Len(text) = Len(p) <=> p = text
  <2>1. ASSUME Agrees(p, text, Len(p)), Len(text) = Len(p) PROVE p = text
    <3>1. p = [i \in 1..Len(p) |-> p[i]] /\ text = [i \in 1..Len(p) |-> text[i]]
      BY <2>1
    <3>2. \A i \in 1..Len(p) : text[i] = p[i]
      BY <2>1 DEF Agrees
    <3> QED
      BY <3>1, <3>2
  <2>2. ASSUME p = text PROVE Agrees(p, text, Len(p)) /\ Len(text) = Len(p)
    BY <1>1, <2>2 DEF Agrees
  <2> QED
    BY <2>1, <2>2
<1> QED
  BY <1>5, <1>6

LEMMA AdmitsOneStar ==
    ASSUME NEW C, NEW p \in Seq(C), NEW text \in Seq(C), NEW k \in 1..Len(p),
           \A i \in 1..Len(p) : p[i] = Star <=> i = k
    PROVE  Admits(p, text) <=> Ends(p, 1, text)
<1> DEFINE n == Len(p)
           m == Len(text)
           a == Part(p, 0)
           b == Part(p, 1)
<1>1. n \in Nat /\ m \in Nat /\ k \in Nat /\ 1 <= k /\ k <= n
  OBVIOUS
<1>2. a = SubSeq(p, 1, k - 1) /\ b = SubSeq(p, k + 1, n)
  BY PartsOfOne
<1>3. a \in Seq(C) /\ Len(a) = k - 1 /\ \A i \in 1..k - 1 : a[i] = p[i]
  <2>1. SubSeq(p, 1, k - 1) \in Seq(C) /\ Len(SubSeq(p, 1, k - 1)) = k - 1
        /\ \A i \in 1..k - 1 : SubSeq(p, 1, k - 1)[i] = p[i]
    OBVIOUS
  <2> QED
    BY <1>2, <2>1
<1>4. b \in Seq(C) /\ Len(b) = n - k /\ \A i \in 1..n - k : b[i] = p[k + i]
  <2>1. SubSeq(p, k + 1, n) \in Seq(C) /\ Len(SubSeq(p, k + 1, n)) = n - k
        /\ \A i \in 1..n - k : SubSeq(p, k + 1, n)[i] = p[k + i]
    OBVIOUS
  <2> QED
    BY <1>2, <2>1
<1> HIDE DEF a, b
<1>5. IsPrefix(a, text) <=> Agrees(p, text, k - 1)
  <2>1. IsPrefix(a, text) <=> k - 1 <= m /\ \A i \in 1..k - 1 : a[i] = text[i]
    BY <1>3, PrefixIs
  <2> QED
    BY <1>3, <2>1 DEF Agrees
<1>6. IsSuffix(b, text) <=> n - k <= m /\ \A i \in 1..n - k : p[k + i] = text[(m - (n - k)) + i]
  <2>1. IsSuffix(b, text) <=> n - k <= m /\ \A i \in 1..n - k : b[i] = text[(m - (n - k)) + i]
    <3>1. IsSuffix(b, text) <=> Len(b) <= Len(text)
              /\ \A i \in 1..Len(b) : b[i] = text[(Len(text) - Len(b)) + i]
      BY <1>4, SuffixIs
    <3> QED
      BY <1>4, <3>1
  <2> QED
    BY <1>4, <2>1
<1>7. Follows(p, text, k, n, m)
      <=> \A i \in 1..n - k : p[k + i] = text[(m - (n - k)) + i]
  <2>1. ASSUME Follows(p, text, k, n, m), NEW i \in 1..n - k
        PROVE  p[k + i] = text[(m - (n - k)) + i]
    <3>1. k + i \in k + 1..n /\ (m - n) + (k + i) = (m - (n - k)) + i
      BY <1>1
    <3> QED
      BY <2>1, <3>1 DEF Follows
  <2>2. ASSUME \A i \in 1..n - k : p[k + i] = text[(m - (n - k)) + i], NEW j \in k + 1..n
        PROVE  text[(m - n) + j] = p[j]
    <3> DEFINE i == j - k
    <3>1. i \in 1..n - k /\ k + i = j /\ (m - (n - k)) + i = (m - n) + j
      BY <1>1
    <3> HIDE DEF i
    <3> QED
      BY <2>2, <3>1
  <2> QED
    BY <2>1, <2>2 DEF Follows
<1>8. Ends(p, 1, text) <=> IsPrefix(a, text) /\ IsSuffix(b, text) /\ Len(a) + Len(b) <= m
  BY DEF Ends, a, b
<1>9. Len(a) + Len(b) <= m <=> n - 1 <= m
  BY <1>1, <1>3, <1>4
<1>10. Reach(p, text)[n] = IF Agrees(p, text, k - 1)
                           THEN {x \in n - 1..m : Follows(p, text, k, n, x)}
                           ELSE {}
  <2>1. n \in k..Len(p)
    BY <1>1
  <2> QED
    BY <2>1, ReachAfterStar
<1>11. Admits(p, text) <=> Agrees(p, text, k - 1) /\ n - 1 <= m /\ Follows(p, text, k, n, m)
  <2>1. Admits(p, text) <=> m \in Reach(p, text)[n]
    BY AdmitsIsReach
  <2>2. m \in n - 1..m <=> n - 1 <= m
    BY <1>1
  <2> QED
    BY <1>10, <2>1, <2>2
<1>12. n - 1 <= m => n - k <= m
  BY <1>1
<1> QED
  BY <1>5, <1>6, <1>7, <1>8, <1>9, <1>11, <1>12

\* The filter and what its patterns mean agree on every text while a pattern has one star
\* or none; with more, glob_match() takes the end of the text before the parts in the
\* middle and may read a character twice (filter.rs: glob_match).
THEOREM FilterIsExact ==
    ASSUME NEW C, NEW p \in Seq(C), NEW text \in Seq(C),
           \A i, j \in 1..Len(p) : p[i] = Star /\ p[j] = Star => i = j
    PROVE  GlobMatch(p, text) <=> Admits(p, text)
<1>1. CASE \A i \in 1..Len(p) : p[i] # Star
  <2>1. Len(StarsIn(p)) = 0
    <3>1. DOMAIN p = 1..Len(p)
      OBVIOUS
    <3> QED
      BY <1>1, <3>1, NoStar
  <2>2. GlobMatch(p, text) <=> p = text
    BY <2>1 DEF GlobMatch
  <2> QED
    BY <1>1, <2>2, AdmitsExactly
<1>2. CASE \E i \in 1..Len(p) : p[i] = Star
  <2>1. PICK k \in 1..Len(p) : p[k] = Star
    BY <1>2
  <2>2. \A i \in 1..Len(p) : p[i] = Star <=> i = k
    BY <2>1
  <2>3. Len(StarsIn(p)) = 1
    BY <2>2, PartsOfOne
  <2> DEFINE Further(j, from) ==
                UNION {LET places == Occurs(Part(p, j), text, i) IN
                       IF places = {} THEN {} ELSE {Min(places) + Len(Part(p, j))}
                       : i \in from}
             first == {Len(Part(p, 0))}
             Is(f) == f = [j \in 0..1 |-> IF j = 0 THEN first ELSE Further(j, f[j - 1])]
             pos == CHOOSE f : Is(f)
  <2>4. GlobMatch(p, text) <=> Ends(p, 1, text) /\ pos[0] # {}
    BY <2>3 DEF GlobMatch
  <2>5. pos[0] # {}
    <3> HIDE DEF Further, first
    <3> DEFINE f == [j \in 0..1 |-> IF j = 0 THEN first ELSE Further(j, first)]
    <3>1. f[0] = first
      OBVIOUS
    <3>2. \A j \in 0..1 : j = 0 \/ j - 1 = 0
      OBVIOUS
    <3>3. \A j \in 0..1 : f[j] = IF j = 0 THEN first ELSE Further(j, f[j - 1])
      <4>1. \A j \in 0..1 : f[j] = IF j = 0 THEN first ELSE Further(j, first)
        OBVIOUS
      <4> HIDE DEF f
      <4> QED
        BY <3>1, <3>2, <4>1
    <3>4. f = [j \in 0..1 |-> f[j]]
      OBVIOUS
    <3> HIDE DEF f
    <3>5. Is(f)
      BY <3>3, <3>4
    <3> HIDE DEF Is
    <3>6. Is(pos)
      BY <3>5
    <3> HIDE DEF pos
    <3>7. pos[0] = first
      <4>1. pos = [j \in 0..1 |-> IF j = 0 THEN first ELSE Further(j, pos[j - 1])]
        BY <3>6 DEF Is
      <4>2. 0 \in 0..1
        OBVIOUS
      <4> QED
        BY <4>1, <4>2
    <3> QED
      BY <3>7 DEF first
  <2> QED
    BY <2>2, <2>4, <2>5, AdmitsOneStar
<1> QED
  BY <1>1, <1>2

\* While every pattern has one star or none, neither the backfill nor a subscription
\* records anything that the patterns do not admit (filter.rs: matches; recorder.rs: run,
\* backfill_current_states).
THEOREM OnlyMatchesAreRecorded ==
    ASSUME NEW C, Patterns \subseteq Seq(C), Spelling \in [Entities -> Seq(C)],
           \A p \in Patterns : \A i, j \in 1..Len(p) : p[i] = Star /\ p[j] = Star => i = j
    PROVE  Spec => []OnlyAdmittedRecorded
<1>1. ASSUME NEW e \in Entities, Matches(e)
      PROVE  \E p \in Patterns : Admits(p, Spelling[e])
  <2>1. PICK p \in Patterns : GlobMatch(p, Spelling[e])
    BY <1>1 DEF Matches
  <2>2. p \in Seq(C) /\ Spelling[e] \in Seq(C)
    OBVIOUS
  <2>3. Admits(p, Spelling[e])
    BY <2>1, <2>2, FilterIsExact
  <2> QED
    BY <2>3
<1>2. IInv => OnlyAdmittedRecorded
  BY <1>1 DEF IInv, TablesOK, OnlyAdmittedRecorded, EntitiesOn, EntitiesIn
<1> QED
  BY <1>2, Invariant, PTL
=============================================================================
