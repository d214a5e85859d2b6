---------------------------- MODULE CurationProofs ----------------------------
(***************************************************************************)
(* What holds of the tables for any entities, states, ages and number of   *)
(* rows and rotations.                                                     *)
(*                                                                         *)
(* Statements that change rows are described once, as an edit of the rows  *)
(* of one table; the rotation is treated apart.  The invariant adds to the *)
(* types that tables are finite and the key is one, that the replacement   *)
(* for the live table is empty whenever it is there, and that a prior      *)
(* snapshot that was found is still there when the tables are renamed.     *)
(*                                                                         *)
(* What is counted and added up is treated as sums over finite sets: a     *)
(* claim about all of them is proved by taking away an element from a      *)
(* least set that would contradict it.  The invariant of a report says     *)
(* that each number in it counts a set between the one there was when the  *)
(* report began and the one there is now.                                  *)
(***************************************************************************)
EXTENDS Curation, FiniteSetTheorems, WellFoundedInduction, NaturalsInduction, TLAPS

Rows == [entity : Entities, ts : 0..MaxClock, state : States,
         reason : {Null} \union {{v} : v \in UsedReasons},
         flaggedAt : {Null} \union {{c} : c \in 0..MaxClock}]

\* The rows of a table: finitely many, with their columns, and no key twice.
RowsOK(rows) ==
    /\ IsFiniteSet(rows)
    /\ \A r \in rows : r \in Rows /\ (r.reason = Null) = (r.flaggedAt = Null)
    /\ \A r, s \in rows : Key(r) = Key(s) => r = s

TablesOK ==
    /\ tables = [t \in DOMAIN tables |-> tables[t]]
    /\ Live \in DOMAIN tables
    /\ DOMAIN tables \subseteq {Live, Curating, New} \union Archives
    /\ \A t \in DOMAIN tables : RowsOK(tables[t])

RotationOK ==
    /\ rotation \in [at : {"idle", "created", "checked"}, prior : BOOLEAN, own : BOOLEAN]
    /\ rotation.prior => Curating \in DOMAIN tables

IInv == TablesOK /\ RotationOK /\ clock \in 0..MaxClock /\ NewIsEmpty

-----------------------------------------------------------------------------
(* Edits of rows *)

\* Rows keep their keys, and flagged ones stay as they are.
Keeps(old, new) == \A r \in old : \E s \in new : Key(s) = Key(r)
Sticks(old, new) == \A r \in Flagged(old), s \in new : Key(r) = Key(s) => r = s

\* What a pruning may take away.
Ripe(r) ==
    \/ \E h \in PruneHours : r.ts + h < clock
    \/ \E h \in GraceHours, at \in r.flaggedAt : at + h < clock

LEMMA EmptyRows == RowsOK({})
BY FS_EmptySet DEF RowsOK

\* INSERT IGNORE.
LEMMA InsertRows ==
    ASSUME NEW old, RowsOK(old), NEW e \in Entities, NEW ts \in 0..MaxClock, NEW s \in States
    PROVE  LET new == Insert(old, e, ts, s) IN
           RowsOK(new) /\ Keeps(old, new) /\ Sticks(old, new)
<1> DEFINE row == [entity |-> e, ts |-> ts, state |-> s, reason |-> Null, flaggedAt |-> Null]
           new == Insert(old, e, ts, s)
<1>1. row \in Rows /\ row.reason = Null /\ row.flaggedAt = Null /\ Key(row) = <<e, ts, s>>
  BY DEF Rows, Key
<1>2. new = old \/ (new = old \union {row} /\ \A r \in old : Key(r) # Key(row))
  BY <1>1 DEF Insert
<1> HIDE DEF row, new
<1>3. RowsOK(new)
  <2>1. IsFiniteSet(new)
    BY <1>2, FS_AddElement DEF RowsOK
  <2> QED
    BY <1>1, <1>2, <2>1 DEF RowsOK
<1>4. Keeps(old, new)
  BY <1>2 DEF Keeps
<1>5. Sticks(old, new)
  BY <1>2 DEF Sticks, Flagged, RowsOK
<1> QED
  BY <1>3, <1>4, <1>5 DEF new

\* Rows of which some have their flag changed.
Changed(old, hit, reason, at) ==
    (old \ hit) \union {[r EXCEPT !.reason = reason, !.flaggedAt = at] : r \in hit}

LEMMA ChangedRows ==
    ASSUME NEW old, RowsOK(old), NEW hit \in SUBSET old,
           NEW reason, NEW at,
           \/ reason = Null /\ at = Null
           \/ reason \in {{v} : v \in UsedReasons} /\ at \in {{c} : c \in 0..MaxClock}
    PROVE  LET new == Changed(old, hit, reason, at)
           IN  /\ RowsOK(new) /\ Keeps(old, new)
               /\ hit \subseteq Unflagged(old) => Sticks(old, new)
<1> DEFINE to(r) == [r EXCEPT !.reason = reason, !.flaggedAt = at]
           new == (old \ hit) \union {to(r) : r \in hit}
<1>1. \A r \in old : /\ to(r) \in Rows /\ Key(to(r)) = Key(r)
                     /\ (to(r).reason = Null) = (to(r).flaggedAt = Null)
  <2> SUFFICES ASSUME NEW r \in Rows
               PROVE  /\ to(r) \in Rows /\ Key(to(r)) = Key(r)
                      /\ (to(r).reason = Null) = (to(r).flaggedAt = Null)
    BY DEF RowsOK
  <2>1. to(r).reason = reason /\ to(r).flaggedAt = at
    BY DEF Rows
  <2>2. to(r).entity = r.entity /\ to(r).ts = r.ts /\ to(r).state = r.state
    BY DEF Rows
  <2>3. to(r) \in Rows
    BY DEF Rows, Null
  <2>4. (reason = Null) = (at = Null)
    BY DEF Null
  <2> QED
    BY <2>1, <2>2, <2>3, <2>4 DEF Key
<1> HIDE DEF to
<1>2. \A s \in new : \/ s \in old \ hit
                     \/ \E r \in hit : s = to(r)
  OBVIOUS
<1>3. RowsOK(new)
  <2>1. \A s \in new : s \in Rows /\ (s.reason = Null) = (s.flaggedAt = Null)
    BY <1>1, <1>2 DEF RowsOK
  <2>2. ASSUME NEW s \in new, NEW u \in new, Key(s) = Key(u) PROVE s = u
    BY <1>1, <1>2, <2>2 DEF RowsOK
  <2>3. IsFiniteSet(new)
    <3>1. IsFiniteSet(hit) /\ IsFiniteSet(old \ hit)
      BY FS_Subset DEF RowsOK
    <3> DEFINE image == {to(r) : r \in hit}
               f == [r \in hit |-> to(r)]
    <3>2. f \in Surjection(hit, image)
      BY DEF Surjection
    <3>3. IsFiniteSet(image)
      BY <3>1, <3>2, FS_Surjection
    <3> HIDE DEF image
    <3>4. IsFiniteSet((old \ hit) \union image)
      BY <3>1, <3>3, FS_Union
    <3> QED
      BY <3>4 DEF image
  <2> QED
    BY <2>1, <2>2, <2>3 DEF RowsOK
<1>4. Keeps(old, new)
  BY <1>1 DEF Keeps
<1>5. ASSUME hit \subseteq Unflagged(old) PROVE Sticks(old, new)
  <2> SUFFICES ASSUME NEW r \in Flagged(old), NEW s \in new, Key(r) = Key(s)
               PROVE  r = s
    BY DEF Sticks
  <2>1. r \in old /\ r \notin hit
    BY <1>5 DEF Flagged, Unflagged
  <2>2. CASE s \in old \ hit
    BY <2>1, <2>2 DEF RowsOK
  <2>3. CASE \E q \in hit : s = to(q)
    BY <1>1, <2>1, <2>3 DEF RowsOK
  <2> QED
    BY <1>2, <2>2, <2>3
<1> QED
  BY <1>3, <1>4, <1>5 DEF to, Changed

\* UPDATE that sets a flag.
LEMMA FlagRows ==
    ASSUME NEW old, RowsOK(old), NEW hit \in SUBSET Unflagged(old),
           NEW v \in UsedReasons, NEW now \in 0..MaxClock
    PROVE  LET new == SetFlag(old, hit, v, now) IN
           RowsOK(new) /\ Keeps(old, new) /\ Sticks(old, new)
<1> DEFINE reason == {v}
           at == {now}
           new == Changed(old, hit, reason, at)
<1>1. hit \in SUBSET old
  BY DEF Unflagged
<1>2. reason \in {{u} : u \in UsedReasons} /\ at \in {{c} : c \in 0..MaxClock}
  OBVIOUS
<1>3. SetFlag(old, hit, v, now) = new
  BY DEF SetFlag, Changed
<1> HIDE DEF reason, at
<1>4. RowsOK(new) /\ Keeps(old, new) /\ Sticks(old, new)
  BY <1>1, <1>2, ChangedRows
<1> QED
  BY <1>3, <1>4

LEMMA UnflagRowsKeep ==
    ASSUME NEW old, RowsOK(old), NEW entity, NEW reason
    PROVE  LET new == Unflag(old, entity, reason) IN RowsOK(new) /\ Keeps(old, new)
<1> DEFINE hit == {r \in Flagged(old) : /\ \A e \in entity : r.entity = e
                                        /\ \A v \in reason : r.reason = {v}}
<1>1. hit \in SUBSET old
  BY DEF Flagged
<1> DEFINE new == Changed(old, hit, Null, Null)
<1>2. Unflag(old, entity, reason) = new
  BY DEF Unflag, Changed
<1> HIDE DEF hit
<1>3. RowsOK(new) /\ Keeps(old, new)
  BY <1>1, ChangedRows
<1> QED
  BY <1>2, <1>3

\* DELETE.
LEMMA FewerRows ==
    ASSUME NEW old, RowsOK(old), NEW new \in SUBSET old
    PROVE  RowsOK(new) /\ Sticks(old, new)
<1>1. IsFiniteSet(new)
  BY FS_Subset DEF RowsOK
<1> QED
  BY <1>1 DEF RowsOK, Sticks, Flagged

-----------------------------------------------------------------------------
(* Edits of tables *)

\* The rows of one table are edited: by the recorder or by the curator.
Recorded(t) ==
    \E e \in Entities, ts \in 0..clock, s \in States :
        t = Live /\ Write(t, Insert(tables[t], e, ts, s))
FlaggedSome(t) ==
    \E hit \in SUBSET Unflagged(tables[t]), v \in UsedReasons :
        Write(t, SetFlag(tables[t], hit, v, clock))
Pruned(t) ==
    \/ \E h \in GraceHours : Write(t, PruneFlagged(tables[t], clock - h))
    \/ \E h \in PruneHours : Write(t, Prune(tables[t], clock - h))
Edited(t) == Recorded(t) \/ FlaggedSome(t) \/ CurateUnflag(t) \/ Pruned(t)

Editable == {Live, Curating}

LEMMA FlagsAreEdits ==
    ASSUME NEW t \in Curated,
           \/ \E e \in Entities : CurateEntity(t, e)
           \/ \E d \in Domains : CurateDomain(t, d)
    PROVE  FlaggedSome(t)
<1>1. ASSUME NEW e \in Entities, CurateEntity(t, e) PROVE FlaggedSome(t)
  <2>1. PICK v \in UsedReasons, age \in OlderThan, keep \in KeepEvery :
            FlagEntityRows(t, e, v, Cutoff(age), keep)
    BY <1>1 DEF CurateEntity
  <2>2. Thinned(Eligible(tables[t], e, Cutoff(age)), keep)
            \subseteq Eligible(tables[t], e, Cutoff(age))
    BY DEF Thinned
  <2>3. Eligible(tables[t], e, Cutoff(age)) \subseteq Unflagged(tables[t])
    BY DEF Eligible, Unflagged, OfEntity, Flagged
  <2> QED
    BY <2>1, <2>2, <2>3 DEF FlagEntityRows, FlagEntity, FlaggedSome
<1>2. ASSUME NEW d \in Domains, CurateDomain(t, d) PROVE FlaggedSome(t)
  <2>1. PICK v \in UsedReasons, age \in OlderThan : FlagDomainRows(t, d, v, Cutoff(age))
    BY <1>2 DEF CurateDomain
  <2>2. {r \in Unflagged(OfDomain(tables[t], d)) : \A c \in Cutoff(age) : r.ts < c}
            \subseteq Unflagged(tables[t])
    BY DEF Unflagged, OfDomain, Flagged
  <2> QED
    BY <2>1, <2>2 DEF FlagDomainRows, FlagDomain, FlaggedSome
<1> QED
  BY <1>1, <1>2

\* Every step edits a table, or opens one, or is one of the rotation, or leaves the
\* tables alone.
LEMMA Steps ==
    ASSUME [Next]_vars
    PROVE  \/ \E t \in Editable : Edited(t) /\ UNCHANGED <<clock, rotation>>
           \/ \E t \in Curated : Open(t)
           \/ (\E own \in BOOLEAN : CreateNew(own)) \/ CheckPrior \/ RotationEnds
           \/ DropLeftover
           \/ \E a \in Archives : Rename(a)
           \/ Tick
           \/ UNCHANGED storeVars
<1>1. CASE RecordAny
  BY <1>1 DEF RecordAny, Record, Write, Edited, Recorded, Editable
<1>2. CASE Work
  <2>1. CASE Reporting
    BY <2>1 DEF Reporting, Ask, ReadOn, Return
  <2>2. CASE Curate
    <3>1. PICK t \in Curated :
              \/ \E e \in Entities : CurateEntity(t, e)
              \/ \E d \in Domains : CurateDomain(t, d)
              \/ CurateUnflag(t)
              \/ CuratePruneFlagged(t)
              \/ CuratePrune(t)
              \/ OpenStore(t)
      BY <2>2 DEF Curate
    <3>2. t \in Editable
      BY StoreAssumption DEF Editable
    <3>3. CASE \/ \E e \in Entities : CurateEntity(t, e)
               \/ \E d \in Domains : CurateDomain(t, d)
      <4>1. FlaggedSome(t)
        BY <3>3, FlagsAreEdits
      <4> QED
        BY <3>2, <4>1 DEF Edited, FlaggedSome, Write
    <3>4. CASE CurateUnflag(t)
      BY <3>2, <3>4 DEF Edited, CurateUnflag, UnflagRows, Write
    <3>5. CASE CuratePruneFlagged(t) \/ CuratePrune(t)
      BY <3>2, <3>5
      DEF Edited, Pruned, CuratePruneFlagged, CuratePrune, PruneFlaggedRows, PruneRows, Write
    <3>6. CASE OpenStore(t)
      BY <3>6 DEF OpenStore
    <3> QED
      BY <3>1, <3>3, <3>4, <3>5, <3>6
  <2> QED
    BY <1>2, <2>1, <2>2 DEF Work
<1>3. CASE \E own \in BOOLEAN : BeginRotation(own)
  BY <1>3 DEF BeginRotation
<1>4. CASE RotateOn
  BY <1>4 DEF RotateOn, RenameUnderReport
<1>5. CASE Other
  BY <1>5 DEF Other
<1>6. CASE UNCHANGED vars
  BY <1>6 DEF vars
<1> QED
  BY <1>1, <1>2, <1>3, <1>4, <1>5, <1>6 DEF Next

\* What an edit does to the rows of its table.
LEMMA EditedRows ==
    ASSUME IInv, NEW t \in Editable, Edited(t)
    PROVE  /\ t \in DOMAIN tables
           /\ \E new : /\ tables' = [tables EXCEPT ![t] = new]
                       /\ RowsOK(new)
                       /\ Keeps(tables[t], new) \/ Pruned(t)
                       /\ Sticks(tables[t], new) \/ CurateUnflag(t)
<1>1. CASE Recorded(t)
  <2>1. PICK e \in Entities, ts \in 0..clock, s \in States :
            Write(t, Insert(tables[t], e, ts, s))
    BY <1>1 DEF Recorded
  <2>2. ts \in 0..MaxClock
    BY StoreAssumption DEF IInv
  <2>3. t \in DOMAIN tables /\ RowsOK(tables[t])
    BY <2>1 DEF Write, IInv, TablesOK
  <2> QED
    BY <2>1, <2>2, <2>3, InsertRows DEF Write
<1>2. CASE FlaggedSome(t)
  <2>1. PICK hit \in SUBSET Unflagged(tables[t]), v \in UsedReasons :
            Write(t, SetFlag(tables[t], hit, v, clock))
    BY <1>2 DEF FlaggedSome
  <2>2. t \in DOMAIN tables /\ RowsOK(tables[t])
    BY <2>1 DEF Write, IInv, TablesOK
  <2> QED
    BY <2>1, <2>2, FlagRows DEF Write, IInv
<1>3. CASE CurateUnflag(t)
  <2>1. PICK entity \in {{}} \union {{e} : e \in Entities},
             reason \in {{}} \union {{v} : v \in UsedReasons} :
            Write(t, Unflag(tables[t], entity, reason))
    BY <1>3 DEF CurateUnflag, UnflagRows
  <2>2. t \in DOMAIN tables /\ RowsOK(tables[t])
    BY <2>1 DEF Write, IInv, TablesOK
  <2> QED
    BY <1>3, <2>1, <2>2, UnflagRowsKeep DEF Write
<1>4. CASE Pruned(t)
  <2>1. PICK new : Write(t, new) /\ new \in SUBSET tables[t]
    BY <1>4 DEF Pruned, PruneFlagged, Prune
  <2>2. t \in DOMAIN tables /\ RowsOK(tables[t])
    BY <2>1 DEF Write, IInv, TablesOK
  <2> QED
    BY <1>4, <2>1, <2>2, FewerRows DEF Write
<1> QED
  BY <1>1, <1>2, <1>3, <1>4 DEF Edited

-----------------------------------------------------------------------------
(* The invariant *)

LEMMA InitIInv == Init => IInv
BY StoreAssumption, EmptyRows
DEF Init, StoreInit, NoRotation, IInv, TablesOK, RotationOK, NewIsEmpty

LEMMA NamesDiffer == Live # New /\ Curating # New /\ New \notin Archives /\ Live # Curating
                     /\ Live \notin Archives /\ Curating \notin Archives
BY StoreAssumption

LEMMA StepIInv == IInv /\ [Next]_vars => IInv'
<1> SUFFICES ASSUME IInv, [Next]_vars PROVE IInv'
  OBVIOUS
<1> USE NamesDiffer
<1>1. ASSUME NEW t \in Editable, Edited(t), UNCHANGED <<clock, rotation>> PROVE IInv'
  <2>1. PICK new : tables' = [tables EXCEPT ![t] = new] /\ RowsOK(new)
    BY <1>1, EditedRows
  <2>2. t \in DOMAIN tables /\ t # New
    BY <1>1, EditedRows DEF Editable
  <2>3. TablesOK'
    BY <2>1, <2>2 DEF IInv, TablesOK
  <2>4. RotationOK' /\ NewIsEmpty' /\ clock' \in 0..MaxClock
    BY <1>1, <2>1, <2>2 DEF IInv, TablesOK, RotationOK, NewIsEmpty
  <2> QED
    BY <2>3, <2>4 DEF IInv
<1>2. ASSUME NEW t \in Curated, Open(t) PROVE IInv'
  <2>1. t \in {Live, Curating} /\ t # New
    BY StoreAssumption
  <2>2. TablesOK'
    BY <1>2, <2>1, EmptyRows DEF Open, IInv, TablesOK
  <2>3. RotationOK' /\ NewIsEmpty' /\ clock' \in 0..MaxClock
    BY <1>2, <2>1 DEF Open, IInv, RotationOK, NewIsEmpty
  <2> QED
    BY <2>2, <2>3 DEF IInv
<1>3. ASSUME NEW own \in BOOLEAN, CreateNew(own) PROVE IInv'
  <2>1. TablesOK'
    BY <1>3, EmptyRows DEF CreateNew, IInv, TablesOK
  <2>2. RotationOK' /\ NewIsEmpty' /\ clock' \in 0..MaxClock
    BY <1>3 DEF CreateNew, NoRotation, IInv, RotationOK, NewIsEmpty
  <2> QED
    BY <2>1, <2>2 DEF IInv
<1>4. CASE CheckPrior
  <2>1. UNCHANGED <<tables, clock>>
    BY <1>4 DEF CheckPrior
  <2>2. /\ rotation' \in [at : {"idle", "created", "checked"}, prior : BOOLEAN, own : BOOLEAN]
        /\ rotation'.prior = (Curating \in DOMAIN tables)
    <3> DEFINE prior == Curating \in DOMAIN tables
    <3>1. prior \in BOOLEAN /\ rotation' = [rotation EXCEPT !.at = "checked", !.prior = prior]
      BY <1>4 DEF CheckPrior
    <3> HIDE DEF prior
    <3>2. /\ rotation' \in [at : {"idle", "created", "checked"}, prior : BOOLEAN,
                            own : BOOLEAN]
          /\ rotation'.prior = prior
      BY <3>1 DEF IInv, RotationOK
    <3> QED
      BY <3>2 DEF prior
  <2> QED
    BY <2>1, <2>2 DEF IInv, TablesOK, RotationOK, NewIsEmpty
<1>5. CASE RotationEnds
  BY <1>5 DEF RotationEnds, NoRotation, IInv, TablesOK, RotationOK, NewIsEmpty
<1>6. CASE DropLeftover
  <2>1. TablesOK'
    BY <1>6 DEF DropLeftover, Visible, IInv, TablesOK
  <2>2. RotationOK' /\ NewIsEmpty' /\ clock' \in 0..MaxClock
    BY <1>6 DEF DropLeftover, Visible, IInv, RotationOK, NewIsEmpty
  <2> QED
    BY <2>1, <2>2 DEF IInv
<1>7. ASSUME NEW a \in Archives, Rename(a) PROVE IInv'
  <2>1. TablesOK'
    BY <1>7 DEF Rename, IInv, TablesOK, RotationOK
  <2>2. RotationOK' /\ NewIsEmpty' /\ clock' \in 0..MaxClock
    BY <1>7 DEF Rename, NoRotation, IInv, RotationOK, NewIsEmpty
  <2> QED
    BY <2>1, <2>2 DEF IInv
<1>8. CASE Tick
  BY <1>8, StoreAssumption DEF Tick, IInv, TablesOK, RotationOK, NewIsEmpty
<1>9. CASE UNCHANGED storeVars
  BY <1>9 DEF storeVars, IInv, TablesOK, RotationOK, NewIsEmpty
<1> QED
  BY <1>1, <1>2, <1>3, <1>4, <1>5, <1>6, <1>7, <1>8, <1>9, Steps

LEMMA Invariant == Spec => []IInv
BY InitIInv, StepIInv, PTL DEF Spec

-----------------------------------------------------------------------------
(* Refinement *)

\* What the recorder and the curator see of an edit.
LEMMA EditRefines ==
    ASSUME IInv, NEW t \in Editable, NEW new, t \in DOMAIN tables,
           tables' = [tables EXCEPT ![t] = new]
    PROVE  /\ t \in DOMAIN Visible /\ Visible[t] = tables[t]
           /\ Visible' = [Visible EXCEPT ![t] = new]
BY NamesDiffer DEF Editable, Visible, IInv, TablesOK

LEMMA WriteRefines ==
    ASSUME IInv, NEW t \in Editable, NEW new, Write(t, new)
    PROVE  t \in DOMAIN Visible /\ Visible[t] = tables[t] /\ Store!Becomes(t, new)
BY EditRefines DEF Write, Store!Becomes

LEMMA CurateRefines ==
    ASSUME IInv, NEW t \in Curated,
           \/ \E e \in Entities : CurateEntity(t, e)
           \/ \E d \in Domains : CurateDomain(t, d)
           \/ CurateUnflag(t)
           \/ CuratePruneFlagged(t)
           \/ CuratePrune(t)
    PROVE  Store!Curate(t)
<1>1. t \in Editable
  BY StoreAssumption DEF Editable
<1>2. \A new : Write(t, new) =>
          t \in DOMAIN Visible /\ Visible[t] = tables[t] /\ Store!Becomes(t, new)
  BY <1>1, WriteRefines
<1>3. CASE \E e \in Entities : CurateEntity(t, e)
  BY <1>2, <1>3
  DEF CurateEntity, FlagEntityRows, Cutoff, Store!Curate, Store!CurateEntity, Store!Cutoff
<1>4. CASE \E d \in Domains : CurateDomain(t, d)
  BY <1>2, <1>4
  DEF CurateDomain, FlagDomainRows, Cutoff, Store!Curate, Store!CurateDomain, Store!Cutoff
<1>5. CASE CurateUnflag(t)
  BY <1>2, <1>5 DEF CurateUnflag, UnflagRows, Store!Curate, Store!CurateUnflag
<1>6. CASE CuratePruneFlagged(t) \/ CuratePrune(t)
  BY <1>2, <1>6
  DEF CuratePruneFlagged, PruneFlaggedRows, CuratePrune, PruneRows, Store!Curate,
      Store!CuratePrune
<1> QED
  BY <1>3, <1>4, <1>5, <1>6

\* The renames are the one step of the rotation that is seen.
LEMMA RenameRefines ==
    ASSUME IInv, NEW a \in Archives, Rename(a)
    PROVE  Store!RotateForCuration(a)
<1> USE NamesDiffer
<1> DEFINE kept == IF rotation.prior THEN {a} ELSE {}
<1>1. rotation.prior <=> Curating \in DOMAIN tables
  BY DEF Rename, IInv, RotationOK
<1>2. Curating \in DOMAIN tables <=> Curating \in DOMAIN Visible
  BY DEF Visible
<1>3. kept = IF Curating \in DOMAIN Visible THEN {a} ELSE {}
  BY <1>1, <1>2
<1>4. /\ kept \intersect DOMAIN Visible = {}
      /\ (DOMAIN Visible \union {Curating}) \union kept
            = ((DOMAIN tables \ {New}) \union {Curating} \union kept) \ {New}
      /\ clock' = clock
  BY DEF Rename, Visible
<1>5. tables' = [t \in (DOMAIN tables \ {New}) \union {Curating} \union kept |->
                    IF t = Live THEN tables[New]
                    ELSE IF t = Curating THEN tables[Live]
                    ELSE IF t \in kept THEN tables[Curating]
                    ELSE tables[t]]
  BY DEF Rename
<1>6. tables[New] = {} /\ Live \in DOMAIN tables
  BY DEF Rename, IInv, NewIsEmpty, TablesOK
<1>7. kept # {} => Curating \in DOMAIN tables
  BY <1>1
<1>8. kept \subseteq Archives
  OBVIOUS
<1> HIDE DEF kept
<1>9. Visible' = [t \in DOMAIN Visible \union {Curating} \union kept |->
                    IF t = Live THEN {}
                    ELSE IF t = Curating THEN Visible[Live]
                    ELSE IF t \in kept THEN Visible[Curating]
                    ELSE Visible[t]]
  BY <1>4, <1>5, <1>6, <1>7, <1>8 DEF Visible
<1> QED
  BY <1>3, <1>4, <1>9 DEF Store!RotateForCuration

LEMMA InitRefines == Init => Store!Init
BY StoreAssumption DEF Init, StoreInit, Visible, Store!Init

LEMMA StepRefines == IInv /\ IInv' /\ [Next]_vars => [Store!Next]_<<Visible, clock>>
<1> SUFFICES ASSUME IInv, [Next]_vars PROVE Store!Next \/ UNCHANGED <<Visible, clock>>
  OBVIOUS
<1>1. CASE RecordAny
  <2>1. PICK e \in Entities, ts \in 0..clock, s \in States :
            Write(Live, Insert(tables[Live], e, ts, s))
    BY <1>1 DEF RecordAny, Record
  <2>2. Visible[Live] = tables[Live] /\ Store!Becomes(Live, Insert(tables[Live], e, ts, s))
    BY <2>1, WriteRefines DEF Editable
  <2> QED
    BY <2>2 DEF Store!Record, Store!Next
<1>2. CASE Work
  <2>1. CASE Reporting
    BY <2>1 DEF Reporting, Ask, ReadOn, Return, storeVars, Visible
  <2>2. CASE Curate
    <3>1. PICK t \in Curated :
              \/ \E e \in Entities : CurateEntity(t, e)
              \/ \E d \in Domains : CurateDomain(t, d)
              \/ CurateUnflag(t)
              \/ CuratePruneFlagged(t)
              \/ CuratePrune(t)
              \/ OpenStore(t)
      BY <2>2 DEF Curate
    <3>2. CASE OpenStore(t)
      <4>1. t \in {Live, Curating} /\ t # New
        BY StoreAssumption
      <4>2. Store!Open(t)
        BY <3>2, <4>1 DEF OpenStore, Open, Visible, Store!Open
      <4> QED
        BY <4>2 DEF Store!Next
    <3>3. CASE ~OpenStore(t)
      BY <3>1, <3>3, CurateRefines DEF Store!Next
    <3> QED
      BY <3>2, <3>3
  <2> QED
    BY <1>2, <2>1, <2>2 DEF Work
<1>3. CASE \E own \in BOOLEAN : BeginRotation(own)
  BY <1>3, NamesDiffer DEF BeginRotation, CreateNew, Visible
<1>4. CASE RotateOn
  <2>1. CASE CheckPrior \/ RotationEnds
    BY <2>1 DEF CheckPrior, RotationEnds, Visible
  <2>2. ASSUME NEW a \in Archives, Rename(a) PROVE Store!Next
    BY <2>2, RenameRefines DEF Store!Next
  <2> QED
    BY <1>4, <2>1, <2>2 DEF RotateOn, RenameUnderReport
<1>5. CASE Other
  <2>1. CASE DropLeftover
    BY <2>1 DEF DropLeftover, Visible
  <2>2. CASE Tick
    BY <2>2 DEF Tick, Visible, Store!Tick, Store!Next
  <2> QED
    BY <1>5, <2>1, <2>2 DEF Other
<1>6. CASE UNCHANGED vars
  BY <1>6 DEF vars, storeVars, Visible
<1> QED
  BY <1>1, <1>2, <1>3, <1>4, <1>5, <1>6 DEF Next

-----------------------------------------------------------------------------
(* Sums *)

\* What is chosen first from a set, and the sums of f over the subsets of S that the
\* folds of the reports are made of.
First(s) == CHOOSE x \in s : TRUE
Adds(f, D, g) == g = [s \in D |-> IF s = {} THEN 0 ELSE f[First(s)] + g[s \ {First(s)}]]
Sums(f, S) == CHOOSE g : Adds(f, SUBSET S, g)
SumOf(f, S) == Sums(f, S)[S]

LEMMA FoldsAreSums ==
    /\ \A f : FoldSeq(+, 0, f) = SumOf(f, DOMAIN f)
    /\ \A f, S : MapThenSumSet(LAMBDA x : f[x], S) = SumOf(f, S)
BY DEF FoldSeq, FoldFunction, FoldFunctionOnSet, MapThenSumSet, MapThenFoldSet,
   SumOf, Sums, Adds, First

\* A collection of subsets of a finite set has one that is not there any more if an
\* element of it is taken away.
LEMMA Least ==
    ASSUME NEW S, IsFiniteSet(S), NEW bad \in SUBSET SUBSET S, bad # {}
    PROVE  \E T \in bad : \A x \in T : T \ {x} \notin bad
<1>1. IsWellFoundedOn(StrictSubsetOrdering(S), SUBSET S)
  BY FS_StrictSubsetOrderingWellFounded, FS_FiniteSubsetsOfFinite
<1>2. PICK T \in bad : \A U \in bad : <<U, T>> \notin StrictSubsetOrdering(S)
  BY <1>1, WFMin
<1>3. \A x \in T : <<T \ {x}, T>> \in StrictSubsetOrdering(S)
  BY DEF StrictSubsetOrdering
<1> QED
  BY <1>2, <1>3

LEMMA SumsExist ==
    ASSUME NEW S, IsFiniteSet(S), NEW f
    PROVE  Adds(f, SUBSET S, Sums(f, S))
<1> DEFINE Small(n) == {s \in SUBSET S : Cardinality(s) <= n}
           bad == {n \in Nat : ~ \E g : Adds(f, Small(n), g)}
<1>1. \A s \in SUBSET S : IsFiniteSet(s) /\ Cardinality(s) \in Nat
                          /\ Cardinality(s) <= Cardinality(S)
  BY FS_Subset, FS_CardinalityType
<1>2. ASSUME NEW s \in SUBSET S, s # {}
      PROVE  /\ First(s) \in s /\ Cardinality(s) # 0
             /\ s \ {First(s)} \in SUBSET S
             /\ Cardinality(s \ {First(s)}) = Cardinality(s) - 1
  <2>1. First(s) \in s
    BY <1>2 DEF First
  <2> QED
    BY <1>1, <1>2, <2>1, FS_EmptySet, FS_RemoveElement
<1>3. bad = {}
  <2> SUFFICES ASSUME bad # {} PROVE FALSE
    OBVIOUS
  <2>1. PICK n \in bad : \A m \in bad : <<m, n>> \notin OpToRel(<, Nat)
    BY NatLessThanWellFounded, WFMin
  <2>2. n \in Nat /\ ~ \E g : Adds(f, Small(n), g)
    OBVIOUS
  <2>3. n # 0
    <3> SUFFICES ASSUME n = 0 PROVE FALSE
      OBVIOUS
    <3>1. ASSUME NEW s \in Small(0)
          PROVE  s = {}
      <4>1. s \in SUBSET S /\ Cardinality(s) <= 0
        OBVIOUS
      <4>2. Cardinality(s) = 0
        BY <1>1, <4>1
      <4> QED
        BY <1>2, <4>1, <4>2
    <3> DEFINE g == [s \in Small(0) |-> 0]
    <3>2. Adds(f, Small(0), g)
      BY <3>1 DEF Adds
    <3> QED
      BY <2>2, <3>2
  <2>4. n - 1 \in Nat /\ n - 1 \notin bad
    <3>1. n - 1 \in Nat /\ n - 1 < n
      BY <2>2, <2>3
    <3>2. <<n - 1, n>> \in OpToRel(<, Nat)
      BY <2>2, <3>1 DEF OpToRel
    <3> HIDE DEF bad
    <3> QED
      BY <2>1, <3>1, <3>2
  <2>5. PICK g : Adds(f, Small(n - 1), g)
    BY <2>4
  <2> DEFINE h == [s \in Small(n) |-> IF s = {} THEN 0 ELSE f[First(s)] + g[s \ {First(s)}]]
  <2>6. ASSUME NEW s \in Small(n), s # {}
        PROVE  s \ {First(s)} \in Small(n) /\ h[s \ {First(s)}] = g[s \ {First(s)}]
    <3> DEFINE t == s \ {First(s)}
    <3>1. t \in Small(n - 1) /\ t \in Small(n)
      BY <1>1, <1>2, <2>2, <2>6
    <3>2. g[t] = IF t = {} THEN 0 ELSE f[First(t)] + g[t \ {First(t)}]
      BY <2>5, <3>1 DEF Adds
    <3>3. h[t] = IF t = {} THEN 0 ELSE f[First(t)] + g[t \ {First(t)}]
      BY <3>1
    <3> QED
      BY <3>1, <3>2, <3>3
  <2>7. Adds(f, Small(n), h)
    <3>1. \A s \in Small(n) : h[s] = IF s = {} THEN 0 ELSE f[First(s)] + h[s \ {First(s)}]
      BY <2>6
    <3>2. h = [s \in Small(n) |-> h[s]]
      OBVIOUS
    <3> HIDE DEF h, Small
    <3> QED
      BY <3>1, <3>2 DEF Adds
  <2> QED
    BY <2>2, <2>7
<1>4. Small(Cardinality(S)) = SUBSET S /\ Cardinality(S) \in Nat
  BY <1>1
<1>5. \E g : Adds(f, SUBSET S, g)
  BY <1>3, <1>4
<1> QED
  BY <1>5 DEF Sums

\* How a sum is made.
LEMMA SumSteps ==
    ASSUME NEW S, IsFiniteSet(S), NEW f
    PROVE  /\ Sums(f, S)[{}] = 0
           /\ \A T \in SUBSET S : T # {} =>
                /\ First(T) \in T
                /\ Sums(f, S)[T] = f[First(T)] + Sums(f, S)[T \ {First(T)}]
<1>1. Adds(f, SUBSET S, Sums(f, S))
  BY SumsExist
<1>2. \A T : T # {} => First(T) \in T
  BY DEF First
<1> QED
  BY <1>1, <1>2 DEF Adds

LEMMA TwoParts ==
    ASSUME NEW A, IsFiniteSet(A), NEW B, IsFiniteSet(B), A \intersect B = {}
    PROVE  /\ IsFiniteSet(A \union B)
           /\ Cardinality(A \union B) = Cardinality(A) + Cardinality(B)
<1>1. Cardinality(A) \in Nat /\ Cardinality(B) \in Nat
  BY FS_CardinalityType
<1>2. Cardinality(A \intersect B) = 0
  BY FS_EmptySet
<1>3. /\ IsFiniteSet(A \union B)
      /\ Cardinality(A \union B)
            = Cardinality(A) + Cardinality(B) - Cardinality(A \intersect B)
  BY FS_Union
<1> QED
  BY <1>1, <1>2, <1>3

\* The parts of a finite set add up to it.
PartOf(rows, part, x) == {r \in rows : part[r] = x}

LEMMA PartsAddUp ==
    ASSUME NEW rows, IsFiniteSet(rows), NEW S, IsFiniteSet(S), NEW part,
           \A r \in rows : part[r] \in S,
           NEW f, \A x \in S : f[x] = Cardinality(PartOf(rows, part, x))
    PROVE  SumOf(f, S) = Cardinality(rows)
<1> DEFINE In(T) == {r \in rows : part[r] \in T}
           g == Sums(f, S)
           bad == {T \in SUBSET S : g[T] # Cardinality(In(T))}
<1>1. \A T : IsFiniteSet(In(T)) /\ Cardinality(In(T)) \in Nat
  BY FS_Subset, FS_CardinalityType
<1>2. bad = {}
  <2> SUFFICES ASSUME bad # {} PROVE FALSE
    OBVIOUS
  <2>1. PICK T \in bad : \A x \in T : T \ {x} \notin bad
    BY Least
  <2>2. T \in SUBSET S /\ g[T] # Cardinality(In(T))
    OBVIOUS
  <2>3. T # {}
    <3> SUFFICES ASSUME T = {} PROVE FALSE
      OBVIOUS
    <3>1. In(T) = {}
      OBVIOUS
    <3> HIDE DEF In
    <3> QED
      BY <2>2, <3>1, SumSteps, FS_EmptySet
  <2> DEFINE x == First(T)
             U == T \ {x}
             A == PartOf(rows, part, x)
  <2>4. x \in T /\ g[T] = f[x] + g[U]
    BY <2>2, <2>3, SumSteps
  <2>5. g[U] = Cardinality(In(U))
    BY <2>1, <2>2, <2>4
  <2>6. f[x] = Cardinality(A)
    BY <2>2, <2>4
  <2>7. A \union In(U) = In(T) /\ A \intersect In(U) = {}
    BY <2>4 DEF PartOf
  <2>8. IsFiniteSet(A) /\ Cardinality(A) \in Nat
    <3>1. A \in SUBSET rows
      BY DEF PartOf
    <3> QED
      BY <3>1, FS_Subset, FS_CardinalityType
  <2>9. Cardinality(In(T)) = Cardinality(A) + Cardinality(In(U))
    <3> HIDE DEF A, In, U
    <3> QED
      BY <1>1, <2>7, <2>8, TwoParts
  <2> QED
    BY <2>2, <2>4, <2>5, <2>6, <2>9
<1>3. g[S] = Cardinality(In(S))
  BY <1>2
<1>4. In(S) = rows
  OBVIOUS
<1> QED
  BY <1>3, <1>4 DEF SumOf

-----------------------------------------------------------------------------
(* Rows by time *)

\* A sequence of the rows of a table, each of them once, the oldest first.
InOrder(rows, seq) ==
    /\ seq \in [1..Cardinality(rows) -> rows]
    /\ \A i, j \in DOMAIN seq : i < j => seq[i] # seq[j] /\ seq[i].ts <= seq[j].ts

LEMMA Youngest ==
    ASSUME NEW rows, IsFiniteSet(rows), rows # {}, \A r \in rows : r.ts \in Int
    PROVE  \E r \in rows : \A s \in rows : s.ts <= r.ts
<1> DEFINE bad == {T \in SUBSET rows : T # {} /\ ~ \E r \in T : \A s \in T : s.ts <= r.ts}
<1>1. bad = {}
  <2> SUFFICES ASSUME bad # {} PROVE FALSE
    OBVIOUS
  <2>1. PICK T \in bad : \A x \in T : T \ {x} \notin bad
    BY Least
  <2>2. PICK x \in T : TRUE
    OBVIOUS
  <2>3. CASE T = {x}
    BY <2>2, <2>3
  <2>4. CASE T # {x}
    <3>1. PICK y \in T \ {x} : \A s \in T \ {x} : s.ts <= y.ts
      <4> DEFINE U == T \ {x}
      <4>1. U \notin bad
        <5> HIDE DEF bad
        <5> QED
          BY <2>1, <2>2
      <4>2. U \in SUBSET rows
        BY <2>1
      <4>3. U # {}
        BY <2>2, <2>4
      <4> HIDE DEF U
      <4>4. \E y \in U : \A s \in U : s.ts <= y.ts
        BY <4>1, <4>2, <4>3
      <4> QED
        BY <4>4 DEF U
    <3>2. CASE x.ts <= y.ts
      BY <3>1, <3>2
    <3>3. CASE ~(x.ts <= y.ts)
      <4>1. \A s \in T : s.ts <= x.ts
        BY <3>1, <3>3
      <4> QED
        BY <2>2, <4>1
    <3> QED
      BY <3>2, <3>3
  <2> QED
    BY <2>3, <2>4
<1> QED
  BY <1>1

LEMMA OrderExists ==
    ASSUME NEW rows, IsFiniteSet(rows), \A r \in rows : r.ts \in Int
    PROVE  \E seq : InOrder(rows, seq)
<1> DEFINE bad == {T \in SUBSET rows : ~ \E seq : InOrder(T, seq)}
<1>1. bad = {}
  <2> SUFFICES ASSUME bad # {} PROVE FALSE
    OBVIOUS
  <2>1. PICK T \in bad : \A x \in T : T \ {x} \notin bad
    BY Least
  <2>2. IsFiniteSet(T) /\ T \in SUBSET rows
    BY FS_Subset
  <2>3. T # {}
    <3> SUFFICES ASSUME T = {} PROVE FALSE
      OBVIOUS
    <3> DEFINE seq == [i \in 1..0 |-> 0]
    <3>1. Cardinality(T) = 0
      BY FS_EmptySet
    <3>2. InOrder(T, seq)
      BY <3>1 DEF InOrder
    <3> QED
      BY <2>1, <3>2
  <2>4. PICK x \in T : \A s \in T : s.ts <= x.ts
    BY <2>2, <2>3, Youngest
  <2> DEFINE U == T \ {x}
             n == Cardinality(U)
  <2>5. n \in Nat /\ Cardinality(T) = n + 1
    <3>1. Cardinality(T) \in Nat
      BY <2>2, FS_CardinalityType
    <3>2. Cardinality(U) = Cardinality(T) - 1 /\ IsFiniteSet(U)
      BY <2>2, <2>4, FS_RemoveElement
    <3>3. n \in Nat
      BY <3>2, FS_CardinalityType
    <3> QED
      BY <3>1, <3>2, <3>3
  <2>6. PICK seq : InOrder(U, seq)
    BY <2>1, <2>2, <2>4
  <2> HIDE DEF n
  <2> DEFINE new == [i \in 1..n + 1 |-> IF i = n + 1 THEN x ELSE seq[i]]
  <2>7. seq \in [1..n -> U]
    BY <2>6 DEF InOrder, n
  <2>8. \A i \in 1..n : new[i] \in U /\ new[i] = seq[i] /\ i \in 1..n + 1
    BY <2>5, <2>7
  <2>9. new[n + 1] = x /\ n + 1 \in 1..n + 1
    BY <2>5
  <2>10. \A i \in 1..n + 1 : i \in 1..n \/ i = n + 1
    BY <2>5
  <2>11. new \in [1..Cardinality(T) -> T] /\ DOMAIN new = 1..n + 1
    <3>1. \A i \in 1..n + 1 : new[i] \in T
      BY <2>4, <2>8, <2>9, <2>10
    <3> QED
      BY <2>5, <3>1
  <2>12. \A i, j \in 1..n + 1 : i < j => new[i] # new[j] /\ new[i].ts <= new[j].ts
    <3> SUFFICES ASSUME NEW i \in 1..n + 1, NEW j \in 1..n + 1, i < j
                 PROVE  new[i] # new[j] /\ new[i].ts <= new[j].ts
      OBVIOUS
    <3>1. i \in 1..n
      BY <2>5
    <3>2. CASE j \in 1..n
      <4>1. seq[i] # seq[j] /\ seq[i].ts <= seq[j].ts
        BY <2>6, <2>7, <3>1, <3>2 DEF InOrder
      <4> QED
        BY <2>8, <3>1, <3>2, <4>1
    <3>3. CASE j = n + 1
      <4>1. new[j] = x
        BY <2>9, <3>3
      <4>2. new[i] \in T /\ new[i] # x
        BY <2>8, <3>1
      <4> HIDE DEF new
      <4> QED
        BY <2>4, <4>1, <4>2
    <3> QED
      BY <2>10, <3>2, <3>3
  <2>13. InOrder(T, new)
    <3> HIDE DEF new
    <3> QED
      BY <2>11, <2>12 DEF InOrder
  <2> QED
    BY <2>1, <2>13
<1> QED
  BY <1>1

\* The rows by time are all rows.
LEMMA ByTimeIsInOrder ==
    ASSUME NEW rows, IsFiniteSet(rows), \A r \in rows : r.ts \in Int
    PROVE  /\ InOrder(rows, ByTime(rows))
           /\ ByTime(rows) \in Seq(rows) /\ Len(ByTime(rows)) = Cardinality(rows)
           /\ Cardinality(rows) \in Nat
           /\ \A r \in rows : \E i \in 1..Cardinality(rows) : ByTime(rows)[i] = r
<1> DEFINE seq == ByTime(rows)
           n == Cardinality(rows)
<1>1. InOrder(rows, seq)
  BY OrderExists DEF InOrder, ByTime
<1>2. n \in Nat
  BY FS_CardinalityType
<1>3. seq \in [1..n -> rows]
  BY <1>1 DEF InOrder
<1>4. seq \in Seq(rows) /\ Len(seq) = n
  <2> HIDE DEF seq, n
  <2> QED
    BY <1>2, <1>3
<1>5. seq \in Injection(1..n, rows)
  <2> SUFFICES ASSUME NEW i \in 1..n, NEW j \in 1..n, seq[i] = seq[j] PROVE i = j
    BY <1>3 DEF Injection, IsInjective
  <2>1. ~(i < j) /\ ~(j < i)
    BY <1>1, <1>3 DEF InOrder
  <2> HIDE DEF n
  <2> QED
    BY <1>2, <2>1
<1>6. Cardinality(1..n) = n
  <2> HIDE DEF n
  <2>1. Cardinality(1..n) = IF 1 > n THEN 0 ELSE n - 1 + 1
    BY <1>2, FS_Interval
  <2> QED
    BY <1>2, <2>1
<1>7. seq \in Surjection(1..n, rows)
  BY <1>5, <1>6, FS_Injection
<1> QED
  BY <1>1, <1>2, <1>4, <1>7 DEF Surjection

-----------------------------------------------------------------------------
(* Every n-th of a sequence *)

LEMMA Quotient ==
    ASSUME NEW n \in Nat, n # 0, NEW q \in Nat, NEW r \in 0..n - 1
    PROVE  /\ (n * q + r) \div n = q
           /\ (n * q + r) % n = r
OBVIOUS

LEMMA Divided ==
    ASSUME NEW n \in Nat, n # 0, NEW a \in Nat
    PROVE  \E q \in Nat, r \in 0..n - 1 : a = n * q + r
<1> DEFINE q == a \div n
           r == a % n
<1>1. q \in Nat /\ r \in 0..n - 1 /\ a = n * q + r
  OBVIOUS
<1> QED
  BY <1>1

LEMMA LeastNumber ==
    ASSUME NEW bad \in SUBSET Nat, bad # {}
    PROVE  \E k \in bad : \A m \in bad : k <= m
<1>1. PICK k \in bad : \A m \in bad : <<m, k>> \notin OpToRel(<, Nat)
  BY NatLessThanWellFounded, WFMin
<1>2. \A m \in bad : ~(m < k)
  BY <1>1 DEF OpToRel
<1> QED
  BY <1>2

Nth(n, len) == {j \in 1..len : (j - 1) % n = 0}

\* One more place is one that counts if the number of places before it is a multiple
\* of n.
LEMMA NextPlace ==
    ASSUME NEW n \in Nat, n # 0, NEW len \in Nat
    PROVE  /\ (len + 1 + n - 1) \div n
                = IF len % n = 0 THEN (len + n - 1) \div n + 1 ELSE (len + n - 1) \div n
           /\ (len + n - 1) \div n \in Nat
<1>1. PICK q \in Nat, r \in 0..n - 1 : len = n * q + r
  BY Divided
<1>2. len % n = r
  BY <1>1, Quotient
<1>3. n * (q + 1) = n * q + n
  OBVIOUS
<1> DEFINE p == n * q
<1>4. p \in Nat
  OBVIOUS
<1>5. CASE r = 0
  <2>1. (p + (n - 1)) \div n = q
    BY Quotient
  <2>2. (n * (q + 1) + 0) \div n = q + 1
    BY Quotient
  <2>3. len + n - 1 = p + (n - 1) /\ len + 1 + n - 1 = n * (q + 1) + 0
    BY <1>1, <1>3, <1>4, <1>5
  <2> QED
    BY <1>2, <1>5, <2>1, <2>2, <2>3
<1>6. CASE r # 0
  <2>1. r - 1 \in 0..n - 1 /\ q + 1 \in Nat
    BY <1>6
  <2>2. (n * (q + 1) + (r - 1)) \div n = q + 1 /\ (n * (q + 1) + r) \div n = q + 1
    BY <2>1, Quotient
  <2>3. len + n - 1 = n * (q + 1) + (r - 1) /\ len + 1 + n - 1 = n * (q + 1) + r
    BY <1>1, <1>3, <1>4, <1>6
  <2> QED
    BY <1>2, <1>6, <2>1, <2>2, <2>3
<1> QED
  BY <1>5, <1>6

LEMMA NthCount ==
    ASSUME NEW n \in Nat, n # 0, NEW len \in Nat
    PROVE  Cardinality(Nth(n, len)) = (len + n - 1) \div n
<1> DEFINE bad == {k \in Nat : Cardinality(Nth(n, k)) # (k + n - 1) \div n}
<1>1. \A k \in Nat : IsFiniteSet(Nth(n, k)) /\ Cardinality(Nth(n, k)) \in Nat
  <2> SUFFICES ASSUME NEW k \in Nat
               PROVE  IsFiniteSet(Nth(n, k)) /\ Cardinality(Nth(n, k)) \in Nat
    OBVIOUS
  <2>1. IsFiniteSet(1..k) /\ Nth(n, k) \in SUBSET (1..k)
    BY FS_Interval DEF Nth
  <2> QED
    BY <2>1, FS_Subset, FS_CardinalityType
<1>2. bad = {}
  <2> SUFFICES ASSUME bad # {} PROVE FALSE
    OBVIOUS
  <2>1. PICK k \in bad : \A m \in bad : k <= m
    BY LeastNumber
  <2>2. k # 0
    <3> SUFFICES ASSUME k = 0 PROVE FALSE
      OBVIOUS
    <3>1. Nth(n, 0) = {}
      BY DEF Nth
    <3>2. \A q \in Nat, r \in 0..n - 1 : (n * q + r) \div n = q
      BY Quotient
    <3>3. n - 1 \in 0..n - 1 /\ 0 \in Nat /\ n * 0 + (n - 1) = 0 + n - 1
      OBVIOUS
    <3>4. (0 + n - 1) \div n = 0
      BY <3>2, <3>3
    <3> QED
      BY <2>1, <3>1, <3>4, FS_EmptySet
  <2> DEFINE m == k - 1
  <2>3. m \in Nat /\ k = m + 1
    BY <2>1, <2>2
  <2>4. Cardinality(Nth(n, m)) = (m + n - 1) \div n
    BY <2>1, <2>3
  <2>5. /\ (k + n - 1) \div n
              = IF m % n = 0 THEN (m + n - 1) \div n + 1 ELSE (m + n - 1) \div n
        /\ (m + n - 1) \div n \in Nat
    BY <2>3, NextPlace
  <2>6. Nth(n, k) = IF m % n = 0 THEN Nth(n, m) \union {k} ELSE Nth(n, m)
    <3>1. \A j \in Int : j \in 1..k <=> j \in 1..m \/ j = k
      BY <2>3
    <3>2. k - 1 = m /\ k \in Int
      BY <2>3
    <3> HIDE DEF m
    <3> QED
      BY <3>1, <3>2 DEF Nth
  <2>7. k \notin Nth(n, m)
    BY <2>3 DEF Nth
  <2>8. Cardinality(Nth(n, k))
            = IF m % n = 0 THEN Cardinality(Nth(n, m)) + 1 ELSE Cardinality(Nth(n, m))
    <3>1. IsFiniteSet(Nth(n, m))
      BY <1>1, <2>3
    <3> HIDE DEF m
    <3> QED
      BY <2>6, <2>7, <3>1, FS_AddElement
  <2> HIDE DEF m
  <2> QED
    BY <2>1, <2>4, <2>5, <2>8
<1> QED
  BY <1>2

-----------------------------------------------------------------------------
(* What the aggregates count *)

\* The sums that the reports and the properties form are sums over functions.
LEMMA DomainSumIsSum ==
    ASSUME NEW t
    PROVE  DomainSum(t) = SumOf([s \in DomainStats(tables[t]) |-> s.rows], DomainStats(tables[t]))
BY DEF DomainSum, MapThenSumSet, MapThenFoldSet, SumOf, Sums, Adds, First

LEMMA FlagsIsSum ==
    ASSUME NEW t
    PROVE  Flags(t) = SumOf(FlaggedByReason(tables[t]), DOMAIN FlaggedByReason(tables[t]))
BY DEF Flags, FlaggedByReasonOn, MapThenSumSet, MapThenFoldSet, SumOf, Sums, Adds, First

LEMMA FlaggedSumIsSum ==
    ASSUME NEW t
    PROVE  MapThenSumSet(LAMBDA d : FlaggedByDomainOn(t)[d], DOMAIN FlaggedByDomainOn(t))
             = SumOf(FlaggedByDomain(tables[t]), DOMAIN FlaggedByDomain(tables[t]))
BY DEF FlaggedByDomainOn, MapThenSumSet, MapThenFoldSet, SumOf, Sums, Adds, First

LEMMA AgesSum ==
    ASSUME NEW t, NEW now
    PROVE  FoldSeq(+, 0, AgeDistributionStatements(t, now))
             = SumOf(AgeDistribution(tables[t], now), 1..Len(AgeBounds) + 1)
<1>1. DOMAIN AgeDistribution(tables[t], now) = 1..Len(AgeBounds) + 1
  BY DEF AgeDistribution
<1> QED
  BY <1>1, FoldsAreSums DEF AgeDistributionStatements

\* Every row is in a domain and counts once in its domain's numbers.
LEMMA DomainsAddUp ==
    ASSUME NEW rows, IsFiniteSet(rows)
    PROVE  SumOf([s \in DomainStats(rows) |-> s.rows], DomainStats(rows)) = Cardinality(rows)
<1> DEFINE stat(d) == [domain |-> d,
                       rows |-> Cardinality(OfDomain(rows, d)),
                       entities |-> Cardinality(EntitiesIn(OfDomain(rows, d))),
                       total |-> Cardinality(rows)]
           S == DomainStats(rows)
           part == [r \in rows |-> stat(DomainOf[r.entity])]
           f == [s \in S |-> s.rows]
<1>1. S = {stat(d) : d \in {DomainOf[r.entity] : r \in rows}}
  BY DEF DomainStats, EntitiesIn
<1>2. \A d : stat(d).domain = d /\ stat(d).rows = Cardinality(OfDomain(rows, d))
  OBVIOUS
<1> HIDE DEF S, stat
<1>3. part \in Surjection(rows, S)
  BY <1>1 DEF Surjection
<1>4. IsFiniteSet(S)
  <2> HIDE DEF part
  <2> QED
    BY <1>3, FS_Surjection
<1>5. \A s \in S : f[s] = Cardinality(PartOf(rows, part, s))
  <2> SUFFICES ASSUME NEW s \in S PROVE f[s] = Cardinality(PartOf(rows, part, s))
    OBVIOUS
  <2>1. PICK d : s = stat(d)
    BY <1>1
  <2>2. \A r \in rows : part[r] = s <=> DomainOf[r.entity] = d
    BY <1>2, <2>1
  <2>3. PartOf(rows, part, s) = OfDomain(rows, d)
    BY <2>2 DEF OfDomain, PartOf
  <2> QED
    BY <1>2, <2>1, <2>3
<1>6. \A r \in rows : part[r] \in S
  BY <1>1
<1> HIDE DEF part, f
<1>7. SumOf(f, S) = Cardinality(rows)
  BY <1>4, <1>5, <1>6, PartsAddUp
<1> QED
  BY <1>7 DEF f, S

\* Every flagged row has one of the reasons.
LEMMA ReasonsAddUp ==
    ASSUME NEW rows, RowsOK(rows)
    PROVE  SumOf(FlaggedByReason(rows), DOMAIN FlaggedByReason(rows))
             = Cardinality(Flagged(rows))
<1> DEFINE f == FlaggedByReason(rows)
           S == {w \in UNION {r.reason : r \in rows} : KnownReason(w)}
           own == Flagged(rows)
           part == [r \in own |-> CHOOSE v : r.reason = {v}]
<1>1. f = [v \in S |-> Cardinality({r \in rows : r.reason = {v}})] /\ DOMAIN f = S
  BY DEF FlaggedByReason
<1>2. \A r \in own : \E v \in UsedReasons : r.reason = {v}
  BY DEF RowsOK, Rows, Flagged
<1>3. \A r \in own : r.reason = {part[r]} /\ part[r] \in UsedReasons
  BY <1>2
<1>4. own \in SUBSET rows /\ \A r \in rows : r \in own <=> r.reason # {}
  BY DEF Flagged, Null
<1> HIDE DEF part, own
<1>5. \A r \in own : part[r] \in S
  BY <1>3, <1>4, StoreAssumption DEF KnownReason
<1>6. IsFiniteSet(S) /\ IsFiniteSet(own)
  <2>1. PICK n \in Nat : n = 5
    OBVIOUS
  <2>2. S \in SUBSET (1..n)
    BY <2>1 DEF KnownReason, Reasons
  <2>3. IsFiniteSet(1..n)
    BY FS_Interval
  <2> HIDE DEF S
  <2> QED
    BY <1>4, <2>2, <2>3, FS_Subset DEF RowsOK
<1>7. \A v \in S : f[v] = Cardinality(PartOf(own, part, v))
  <2> SUFFICES ASSUME NEW v \in S PROVE f[v] = Cardinality(PartOf(own, part, v))
    OBVIOUS
  <2>1. PartOf(own, part, v) = {r \in rows : r.reason = {v}}
    BY <1>3, <1>4 DEF PartOf
  <2> QED
    BY <1>1, <2>1
<1> HIDE DEF f, S
<1>8. SumOf(f, S) = Cardinality(own)
  BY <1>5, <1>6, <1>7, PartsAddUp
<1> QED
  BY <1>1, <1>8 DEF f, own

LEMMA FlaggedDomainsAddUp ==
    ASSUME NEW rows, IsFiniteSet(rows)
    PROVE  SumOf(FlaggedByDomain(rows), DOMAIN FlaggedByDomain(rows))
             = Cardinality(Flagged(rows))
<1> DEFINE own == Flagged(rows)
           S == {DomainOf[r.entity] : r \in own}
           f == FlaggedByDomain(rows)
           part == [r \in own |-> DomainOf[r.entity]]
<1>1. f = [d \in S |-> Cardinality(OfDomain(own, d))] /\ DOMAIN f = S
  BY DEF FlaggedByDomain
<1>2. IsFiniteSet(own)
  BY FS_Subset DEF Flagged
<1> HIDE DEF own
<1>3. part \in Surjection(own, S)
  BY DEF Surjection
<1>4. \A r \in own : part[r] \in S
  OBVIOUS
<1>5. \A d \in S : f[d] = Cardinality(PartOf(own, part, d))
  <2> SUFFICES ASSUME NEW d \in S PROVE f[d] = Cardinality(PartOf(own, part, d))
    OBVIOUS
  <2>1. PartOf(own, part, d) = OfDomain(own, d)
    BY DEF OfDomain, PartOf
  <2> QED
    BY <1>1, <2>1
<1> HIDE DEF S, f, part
<1>6. IsFiniteSet(S)
  BY <1>2, <1>3, FS_Surjection
<1>7. SumOf(f, S) = Cardinality(own)
  BY <1>2, <1>4, <1>5, <1>6, PartsAddUp
<1> QED
  BY <1>1, <1>7 DEF f, own

\* Every time is in one bucket.
LEMMA OneBucket ==
    ASSUME NEW now \in Int, NEW ts \in Int
    PROVE  \E i \in 1..Len(AgeBounds) + 1 :
              \A j \in 1..Len(AgeBounds) + 1 : AgeBucket(j, now, ts) <=> j = i
<1> DEFINE n == Len(AgeBounds)
           late == {i \in 1..n + 1 : i <= n => ts + AgeBounds[i] >= now}
<1>1. /\ n \in Nat /\ DOMAIN AgeBounds = 1..n
      /\ \A i \in 1..n : AgeBounds[i] \in Nat
      /\ \A i, j \in 1..n : i < j => AgeBounds[i] < AgeBounds[j]
  BY RowsAssumption
<1> HIDE DEF n
<1>2. late \in SUBSET Nat /\ n + 1 \in late
  BY <1>1
<1>3. PICK i \in late : \A m \in late : i <= m
  BY <1>2, LeastNumber
<1>4. i \in 1..n + 1 /\ (i <= n => ts + AgeBounds[i] >= now)
  BY <1>3
<1>5. \A m \in 1..n : m < i => ts + AgeBounds[m] < now
  BY <1>1, <1>3
<1>6. AgeBucket(i, now, ts)
  <2>1. i > 1 => ts + AgeBounds[i - 1] < now
    BY <1>1, <1>4, <1>5
  <2> QED
    BY <1>4, <2>1 DEF AgeBucket, n
<1>7. ASSUME NEW j \in 1..n + 1, AgeBucket(j, now, ts), j # i PROVE FALSE
  <2>1. /\ j <= n => ts + AgeBounds[j] >= now
        /\ j > 1 => ts + AgeBounds[j - 1] < now
    BY <1>7 DEF AgeBucket, n
  <2>2. CASE j < i
    BY <1>1, <1>4, <1>5, <2>1, <2>2
  <2>3. CASE i < j
    <3>1. i \in 1..n /\ j - 1 \in 1..n /\ i <= j - 1
      BY <1>1, <1>4, <2>3
    <3>2. AgeBounds[i] <= AgeBounds[j - 1]
      BY <1>1, <3>1
    <3>3. ts + AgeBounds[i] >= now /\ ts + AgeBounds[j - 1] < now
      BY <1>1, <1>4, <2>1, <3>1
    <3> QED
      BY <1>1, <3>1, <3>2, <3>3
  <2> QED
    BY <1>1, <1>4, <1>7, <2>2, <2>3
<1> QED
  BY <1>4, <1>6, <1>7 DEF n

LEMMA AgesAddUp ==
    ASSUME NEW rows, IsFiniteSet(rows), \A r \in rows : r.ts \in Int, NEW now \in Int
    PROVE  SumOf(AgeDistribution(rows, now), 1..Len(AgeBounds) + 1) = Cardinality(rows)
<1> DEFINE S == 1..Len(AgeBounds) + 1
           f == AgeDistribution(rows, now)
           part == [r \in rows |-> CHOOSE i \in S :
                                     \A j \in S : AgeBucket(j, now, r.ts) <=> j = i]
<1>1. f = [i \in S |-> Cardinality({r \in rows : AgeBucket(i, now, r.ts)})]
  BY DEF AgeDistribution
<1>2. IsFiniteSet(S)
  BY FS_Interval, RowsAssumption
<1> HIDE DEF S, f
<1>3. \A r \in rows : part[r] \in S /\ \A j \in S : AgeBucket(j, now, r.ts) <=> j = part[r]
  BY OneBucket DEF S
<1> HIDE DEF part
<1>4. \A i \in S : f[i] = Cardinality(PartOf(rows, part, i))
  <2> SUFFICES ASSUME NEW i \in S PROVE f[i] = Cardinality(PartOf(rows, part, i))
    OBVIOUS
  <2>1. PartOf(rows, part, i) = {r \in rows : AgeBucket(i, now, r.ts)}
    BY <1>3 DEF PartOf
  <2> QED
    BY <1>1, <2>1
<1>5. SumOf(f, S) = Cardinality(rows)
  BY <1>2, <1>3, <1>4, PartsAddUp
<1> QED
  BY <1>5 DEF f, S

\* What is read of an entity.
LEMMA ReadsOfEntity ==
    ASSUME NEW t \in DOMAIN tables, RowsOK(tables[t]), NEW e
    PROVE  /\ Len(QueryOn(t, e, 0, MaxClock)) = CountOn(t, {e})
           /\ LatestOn(t, e) # {} <=> e \in EntitiesOn(t)
           /\ EntityProfileStatements(t, e)[1] = CountOn(t, {e})
<1> DEFINE rows == tables[t]
           own == OfEntity(rows, e)
           n == Cardinality(own)
<1>1. CountOn(t, {e}) = n
  BY DEF CountOn, Count, OfEntity
<1>2. \A r \in rows : r.ts \in 0..MaxClock
  BY DEF RowsOK, Rows
<1>3. own \in SUBSET rows /\ IsFiniteSet(own) /\ \A r \in own : r.ts \in Int
  <2>1. own \in SUBSET rows
    BY DEF OfEntity
  <2> HIDE DEF own
  <2> QED
    BY <1>2, <2>1, FS_Subset, StoreAssumption DEF RowsOK
<1>4. /\ ByTime(own) \in Seq(own) /\ Len(ByTime(own)) = n /\ n \in Nat
  <2> HIDE DEF own
  <2> QED
    BY <1>3, ByTimeIsInOrder
<1>5. Len(QueryOn(t, e, 0, MaxClock)) = n
  <2>1. {r \in OfEntity(tables[t], e) : r.ts \in 0..MaxClock} = own
    BY <1>2, <1>3
  <2>2. QueryOn(t, e, 0, MaxClock) = ByTime(own)
    <3> HIDE DEF own
    <3> QED
      BY <2>1 DEF QueryOn, Query
  <2> QED
    BY <1>4, <2>2
<1>6. LatestOn(t, e) # {} <=> own # {}
  <2>1. LatestOn(t, e) = {r \in own : r = Newest(own)[1]}
    BY DEF LatestOn, Latest
  <2>2. ASSUME own # {} PROVE Newest(own)[1] \in own
    <3> HIDE DEF own
    <3>1. n # 0
      BY <1>3, <2>2, FS_EmptySet
    <3> DEFINE seq == ByTime(own)
    <3>2. Newest(own) = [i \in 1..Len(seq) |-> seq[(Len(seq) - i) + 1]]
      BY DEF Newest, Reverse
    <3> HIDE DEF seq, n
    <3>3. Newest(own)[1] = seq[n]
      BY <1>4, <3>1, <3>2 DEF seq
    <3>4. seq[n] \in own
      BY <1>4, <3>1 DEF seq
    <3> QED
      BY <3>3, <3>4
  <2> HIDE DEF own
  <2> QED
    BY <2>1, <2>2
<1>7. own # {} <=> e \in EntitiesOn(t)
  BY DEF OfEntity, EntitiesOn, EntitiesIn
<1>8. EntityProfileStatements(t, e)[1] = n
  <2>1. EntityProfileStatements(t, e)[1] = EntityProfile(tables[t], e).rows
    BY DEF EntityProfileStatements
  <2>2. EntityProfile(tables[t], e).rows = n
    BY DEF EntityProfile
  <2> QED
    BY <2>1, <2>2
<1> HIDE DEF n, own
<1> QED
  BY <1>1, <1>5, <1>6, <1>7, <1>8

-----------------------------------------------------------------------------
(* The preview *)

\* What flagging adds to the rows, and what is left to be flagged.
LEMMA FlaggedRows ==
    ASSUME NEW old, RowsOK(old), NEW e, NEW cutoff,
           NEW hit \in SUBSET Eligible(old, e, cutoff),
           NEW v, NEW now
    PROVE  LET new == SetFlag(old, hit, v, now) IN
           /\ Cardinality(new \ old) = Cardinality(hit)
           /\ Eligible(new, e, cutoff) = Eligible(old, e, cutoff) \ hit
<1> DEFINE to(r) == [r EXCEPT !.reason = {v}, !.flaggedAt = {now}]
           image == {to(r) : r \in hit}
           new == SetFlag(old, hit, v, now)
<1>1. new = (old \ hit) \union image
  BY DEF SetFlag
<1>2. hit \in SUBSET old /\ IsFiniteSet(hit)
      /\ \A r \in hit : r.reason = Null
  <2>1. hit \in SUBSET old /\ \A r \in hit : r.reason = Null
    BY DEF Eligible, Unflagged, OfEntity, Flagged
  <2> QED
    BY <2>1, FS_Subset DEF RowsOK
<1>3. \A r \in hit : /\ to(r).reason = {v} /\ to(r).reason # Null
                     /\ Key(to(r)) = Key(r)
  <2> SUFFICES ASSUME NEW r \in Rows
               PROVE  to(r).reason = {v} /\ to(r).reason # Null /\ Key(to(r)) = Key(r)
    BY <1>2 DEF RowsOK
  <2>1. to(r).reason = {v} /\ to(r).entity = r.entity /\ to(r).ts = r.ts
        /\ to(r).state = r.state
    BY DEF Rows
  <2> QED
    BY <2>1 DEF Key, Null
<1> HIDE DEF to
<1>4. \A r \in hit : to(r) \notin old
  BY <1>2, <1>3 DEF RowsOK
<1>5. new \ old = image
  BY <1>1, <1>2, <1>4
<1>6. Cardinality(image) = Cardinality(hit)
  <2> DEFINE f == [r \in hit |-> to(r)]
  <2>1. f \in Bijection(hit, image)
    <3>1. f \in Surjection(hit, image)
      BY DEF Surjection
    <3>2. \A r, s \in hit : f[r] = f[s] => r = s
      BY <1>2, <1>3 DEF RowsOK
    <3>3. f \in [hit -> image] /\ DOMAIN f = hit
      OBVIOUS
    <3> HIDE DEF f, image
    <3>4. f \in Injection(hit, image)
      BY <3>2, <3>3 DEF Injection, IsInjective
    <3> QED
      BY <3>1, <3>4 DEF Bijection
  <2> HIDE DEF f, image
  <2> QED
    BY <1>2, <2>1, FS_Bijection DEF ExistsBijection
<1>7. Eligible(new, e, cutoff) = Eligible(old, e, cutoff) \ hit
  <2>1. \A r \in image : r \notin Eligible(new, e, cutoff)
    BY <1>3 DEF Eligible, Unflagged, OfEntity, Flagged
  <2>2. \A r \in image : r \notin old
    BY <1>4
  <2> HIDE DEF image, new
  <2>3. \A r \in old \ hit : r \in Eligible(new, e, cutoff) <=> r \in Eligible(old, e, cutoff)
    BY <1>1 DEF Eligible, Unflagged, OfEntity, Flagged
  <2>4. \A r \in Eligible(new, e, cutoff) : r \in new
    BY DEF Eligible, Unflagged, OfEntity, Flagged
  <2>5. \A r \in Eligible(old, e, cutoff) : r \in old
    BY DEF Eligible, Unflagged, OfEntity, Flagged
  <2> QED
    BY <1>1, <2>1, <2>2, <2>3, <2>4, <2>5
<1> QED
  BY <1>5, <1>6, <1>7

\* How many rows a thinning spares and leaves.
LEMMA ThinnedCount ==
    ASSUME NEW rows, IsFiniteSet(rows), \A r \in rows : r.ts \in Int, NEW n \in Nat
    PROVE  LET hit == Thinned(rows, {n})
               total == Cardinality(rows)
               kept == IF n = 0 THEN total ELSE (total + n - 1) \div n
           IN  /\ hit \in SUBSET rows
               /\ Cardinality(rows \ hit) = kept
               /\ Cardinality(hit) = total - kept
               /\ total \in Nat /\ kept \in Nat
<1> DEFINE seq == ByTime(rows)
           total == Cardinality(rows)
           places == {j \in 1..total : n = 0 \/ (j - 1) % n = 0}
           spared == {seq[i] : i \in places}
           hit == Thinned(rows, {n})
           kept == IF n = 0 THEN total ELSE (total + n - 1) \div n
<1>1. /\ total \in Nat /\ seq \in [1..total -> rows]
      /\ \A i, j \in 1..total : i < j => seq[i] # seq[j]
  BY ByTimeIsInOrder DEF InOrder
<1>2. DOMAIN seq = 1..total
  BY <1>1
<1>3. hit = rows \ spared /\ spared \subseteq rows
  <2>1. hit = {r \in rows : r \notin {seq[i] : i \in {j \in DOMAIN seq : n = 0 \/ (j - 1) % n = 0}}}
    BY DEF Thinned
  <2> HIDE DEF seq, total, hit
  <2> QED
    BY <1>1, <1>2, <2>1
<1>4. IsFiniteSet(places) /\ Cardinality(places) = kept
  <2>1. CASE n = 0
    <3>1. places = 1..total
      BY <2>1
    <3> HIDE DEF total, places
    <3>2. Cardinality(1..total) = (IF 1 > total THEN 0 ELSE total - 1 + 1)
          /\ IsFiniteSet(1..total)
      BY <1>1, FS_Interval
    <3> QED
      BY <1>1, <2>1, <3>1, <3>2
  <2>2. CASE n # 0
    <3>1. places = Nth(n, total)
      BY <2>2 DEF Nth
    <3> HIDE DEF total
    <3>2. Cardinality(places) = kept
      BY <1>1, <2>2, <3>1, NthCount
    <3>3. places \in SUBSET (1..total) /\ IsFiniteSet(1..total)
      BY <1>1, FS_Interval
    <3> QED
      BY <3>2, <3>3, FS_Subset
  <2> QED
    BY <2>1, <2>2
<1>5. Cardinality(spared) = Cardinality(places)
  <2> DEFINE f == [i \in places |-> seq[i]]
  <2>1. f \in Surjection(places, spared) /\ DOMAIN f = places
    BY DEF Surjection
  <2>2. \A i, j \in places : f[i] = f[j] => i = j
    <3> SUFFICES ASSUME NEW i \in places, NEW j \in places, f[i] = f[j] PROVE i = j
      OBVIOUS
    <3>1. i \in 1..total /\ j \in 1..total /\ seq[i] = seq[j]
      OBVIOUS
    <3> HIDE DEF total, seq, places
    <3> QED
      BY <1>1, <3>1
  <2> HIDE DEF f, spared, places
  <2>3. f \in Injection(places, spared)
    BY <2>1, <2>2 DEF Surjection, Injection, IsInjective
  <2> QED
    BY <1>4, <2>1, <2>3, FS_Bijection DEF ExistsBijection, Bijection
<1> HIDE DEF spared, hit, places, seq
<1>6. rows \ hit = spared
  BY <1>3
<1>7. kept \in Nat
  BY <1>1, NextPlace
<1>8. Cardinality(hit) = total - kept
  <2>1. IsFiniteSet(hit) /\ IsFiniteSet(spared)
    BY <1>3, FS_Subset
  <2>2. hit \intersect spared = {} /\ hit \union spared = rows
    BY <1>3
  <2>3. Cardinality(rows) = Cardinality(hit) + Cardinality(spared)
    BY <2>1, <2>2, TwoParts
  <2>4. Cardinality(hit) \in Nat
    BY <2>1, FS_CardinalityType
  <2> HIDE DEF kept
  <2> QED
    BY <1>1, <1>4, <1>5, <1>7, <2>3, <2>4
<1> QED
  BY <1>1, <1>3, <1>4, <1>5, <1>6, <1>7, <1>8 DEF hit

-----------------------------------------------------------------------------
(* Reports *)

\* The rows that the i-th statement of a report counts.
Counted(of, entity, now, i, rows) ==
    LET own == OfEntity(rows, CHOOSE e \in entity : TRUE) IN
    IF of = "age_distribution" THEN {r \in rows : AgeBucket(i, now, r.ts)}
    ELSE IF of = "entity_profile" THEN IF i = 1 THEN own ELSE Flagged(own)
    ELSE IF of = "domain_stats" THEN rows
    ELSE IF of = "flagged_summary" THEN IF i = 1 THEN Flagged(rows) ELSE rows
    ELSE IF i = 1 THEN rows ELSE Flagged(rows)

Kinds == {"db_overview", "flagged_summary", "retention_estimate",
          "domain_stats", "entity_profile", "age_distribution"}

LEMMA FindingsAreCounts ==
    ASSUME NEW of \in Kinds, NEW t, RowsOK(tables[t]), NEW entity, NEW now,
           NEW i \in 1..Size(of)
    PROVE  Findings(of, t, entity, now)[i]
             = Cardinality(Counted(of, entity, now, i, tables[t]))
<1>1. CountOn(t, {}) = Cardinality(tables[t])
  BY DEF CountOn, Count
<1>2. IsFiniteSet(tables[t])
  BY DEF RowsOK
<1>3. Flags(t) = Cardinality(Flagged(tables[t]))
  BY FlagsIsSum, ReasonsAddUp
<1>4. DomainSum(t) = Cardinality(tables[t])
  BY <1>2, DomainSumIsSum, DomainsAddUp
<1>5. CASE of = "age_distribution"
  <2>1. i \in 1..Len(AgeBounds) + 1
    BY <1>5 DEF Size
  <2>2. Findings(of, t, entity, now) = AgeDistribution(tables[t], now)
    BY <1>5 DEF Findings, AgeDistributionStatements
  <2>3. Counted(of, entity, now, i, tables[t])
           = {r \in tables[t] : AgeBucket(i, now, r.ts)}
    BY <1>5 DEF Counted
  <2> QED
    BY <2>1, <2>2, <2>3 DEF AgeDistribution
<1>6. CASE of # "age_distribution"
  <2>1. i = 1 \/ i = 2
    BY <1>6 DEF Size
  <2>2. CASE of = "entity_profile"
    <3> DEFINE e == CHOOSE f \in entity : TRUE
               own == OfEntity(tables[t], e)
               found == EntityProfileStatements(t, e)
    <3>1. found[1] = Cardinality(own) /\ found[6] = Cardinality(Flagged(own))
      BY DEF EntityProfileStatements, EntityProfile
    <3>2. Findings(of, t, entity, now) = << found[1], found[6] >>
      BY <2>2 DEF Findings
    <3>3. Counted(of, entity, now, i, tables[t]) = IF i = 1 THEN own ELSE Flagged(own)
      BY <2>2 DEF Counted
    <3> HIDE DEF own, found
    <3> QED
      BY <2>1, <3>1, <3>2, <3>3
  <2>3. CASE of = "domain_stats"
    BY <1>1, <1>4, <2>1, <2>3 DEF Findings, Counted
  <2>4. CASE of = "flagged_summary"
    BY <1>1, <1>3, <2>1, <2>4 DEF Findings, FlaggedSummary, Counted
  <2>5. CASE of \in {"db_overview", "retention_estimate"}
    BY <1>1, <1>3, <2>1, <2>5 DEF Findings, DbOverview, RetentionEstimate, Counted
  <2> QED
    BY <1>6, <2>2, <2>3, <2>4, <2>5 DEF Kinds
<1> QED
  BY <1>5, <1>6

\* More rows count more, and if none of them is flagged, no more flagged ones.
LEMMA CountsGrow ==
    ASSUME NEW rows, IsFiniteSet(rows), NEW start \in SUBSET rows,
           NEW of, NEW entity, NEW now, NEW i
    PROVE  LET few == Counted(of, entity, now, i, start)
               many == Counted(of, entity, now, i, rows)
           IN  /\ Cardinality(few) \in Nat /\ Cardinality(many) \in Nat
               /\ Cardinality(few) <= Cardinality(many)
<1> DEFINE few == Counted(of, entity, now, i, start)
           many == Counted(of, entity, now, i, rows)
<1>1. \A r \in few : r \in many
  BY DEF Counted, Flagged, OfEntity
<1>2. \A r \in many : r \in rows
  BY DEF Counted, Flagged, OfEntity
<1> HIDE DEF few, many
<1>3. IsFiniteSet(many) /\ few \in SUBSET many
  BY <1>1, <1>2, FS_Subset
<1>4. IsFiniteSet(few) /\ Cardinality(few) <= Cardinality(many)
  BY <1>3, FS_Subset
<1>5. Cardinality(few) \in Nat /\ Cardinality(many) \in Nat
  BY <1>3, <1>4, FS_CardinalityType
<1> QED
  BY <1>4, <1>5 DEF few, many

\* Sums of more are more.
LEMMA SumsGrow ==
    ASSUME NEW S, IsFiniteSet(S), NEW f, NEW h,
           \A x \in S : f[x] \in Int /\ h[x] \in Int /\ f[x] <= h[x]
    PROVE  SumOf(f, S) \in Int /\ SumOf(h, S) \in Int /\ SumOf(f, S) <= SumOf(h, S)
<1> DEFINE a == Sums(f, S)
           b == Sums(h, S)
           bad == {T \in SUBSET S : ~(a[T] \in Int /\ b[T] \in Int /\ a[T] <= b[T])}
<1>1. bad = {}
  <2> SUFFICES ASSUME bad # {} PROVE FALSE
    OBVIOUS
  <2>1. PICK T \in bad : \A x \in T : T \ {x} \notin bad
    BY Least
  <2>2. T \in SUBSET S /\ ~(a[T] \in Int /\ b[T] \in Int /\ a[T] <= b[T])
    OBVIOUS
  <2>3. T # {}
    <3>1. a[{}] = 0 /\ b[{}] = 0
      BY SumSteps
    <3> HIDE DEF a, b
    <3> QED
      BY <2>2, <3>1
  <2> DEFINE x == First(T)
             U == T \ {x}
  <2>4. x \in T /\ a[T] = f[x] + a[U] /\ b[T] = h[x] + b[U]
    BY <2>2, <2>3, SumSteps
  <2>5. a[U] \in Int /\ b[U] \in Int /\ a[U] <= b[U]
    BY <2>1, <2>2, <2>4
  <2>6. f[x] \in Int /\ h[x] \in Int /\ f[x] <= h[x]
    BY <2>2, <2>4
  <2> HIDE DEF a, b, U, x
  <2> QED
    BY <2>2, <2>4, <2>5, <2>6
<1>2. a[S] \in Int /\ b[S] \in Int /\ a[S] <= b[S]
  BY <1>1
<1> QED
  BY <1>2 DEF SumOf

\* The rows that there were when the report began are among those there are now, and
\* what came since is not flagged.  Each number that was read lies between.
Between(start) ==
    LET rows == tables[report.table]
        Now(i, s) == Cardinality(Counted(report.of, report.entity, report.now, i, s))
    IN  /\ start \subseteq rows
        /\ Flagged(start) = Flagged(rows)
        /\ report.rows = Cardinality(start)
        /\ report.got[1] = Now(1, start)
        /\ \A i \in 1..Len(report.got) :
              Now(i, start) <= report.got[i] /\ report.got[i] <= Now(i, rows)

ReportShape ==
    /\ report = [of |-> report.of, table |-> report.table, entity |-> report.entity,
                 now |-> report.now, rows |-> report.rows, swapped |-> report.swapped,
                 got |-> report.got]
    /\ report.of \in Kinds /\ report.swapped \in BOOLEAN

Reads ==
    /\ report.table \in Editable /\ report.table \in DOMAIN tables
    /\ report.now \in 0..MaxClock
    /\ report.got \in Seq(Nat) /\ Len(report.got) \in 1..Size(report.of)
    /\ \E start : Between(start)

ReportInv == report # NoReport => ReportShape /\ (~report.swapped => Reads)

\* The report of a record with the fields that there are is one.
LEMMA ShapeIsReport == ReportShape => report # NoReport
<1>1. NoReport.of = "none" /\ "none" \notin Kinds
  BY DEF NoReport, Kinds
<1> QED
  BY <1>1 DEF ReportShape

LEMMA ReportAsked ==
    ASSUME IInv, NEW of \in Reports, NEW t \in Curated, NEW entity, Ask(of, t, entity)
    PROVE  ReportInv'
<1>1. /\ t \in DOMAIN tables /\ UNCHANGED storeVars
      /\ report' = [of |-> of, table |-> t, entity |-> entity, now |-> clock,
                    rows |-> CountOn(t, {}), swapped |-> FALSE,
                    got |-> << Findings(of, t, entity, clock)[1] >>]
  BY DEF Ask
<1>2. RowsOK(tables[t]) /\ clock \in 0..MaxClock /\ t \in Editable /\ of \in Kinds
  BY <1>1, StoreAssumption, CuratorAssumption DEF IInv, TablesOK, Editable, Kinds
<1> DEFINE n == Cardinality(Counted(of, entity, clock, 1, tables[t]))
<1>3. 1 \in 1..Size(of)
  BY RowsAssumption DEF Size
<1>4. Findings(of, t, entity, clock)[1] = n
  BY <1>2, <1>3, FindingsAreCounts
<1>5. CountOn(t, {}) = Cardinality(tables[t])
  BY DEF CountOn, Count
<1>6. n \in Nat
  <2>1. IsFiniteSet(tables[t])
    BY <1>2 DEF RowsOK
  <2> QED
    BY <2>1, CountsGrow
<1> DEFINE got == << n >>
<1> HIDE DEF n
<1>7. got \in Seq(Nat) /\ Len(got) = 1 /\ got[1] = n
  BY <1>6
<1> HIDE DEF got
<1>8. report' = [of |-> of, table |-> t, entity |-> entity, now |-> clock,
                 rows |-> Cardinality(tables[t]), swapped |-> FALSE, got |-> got]
  BY <1>1, <1>4, <1>5 DEF got
<1>9. tables' = tables /\ clock' = clock
  BY <1>1 DEF storeVars
<1>10. /\ report'.of = of /\ report'.table = t /\ report'.entity = entity
       /\ report'.now = clock /\ report'.rows = Cardinality(tables[t])
       /\ report'.swapped = FALSE /\ report'.got = got
  BY <1>8
<1>11. ReportShape'
  BY <1>2, <1>8, <1>10 DEF ReportShape
<1>12. Between(tables[t])'
  <2>1. \A i \in 1..Len(got) :
           /\ Cardinality(Counted(of, entity, clock, i, tables[t])) <= got[i]
           /\ got[i] <= Cardinality(Counted(of, entity, clock, i, tables[t]))
    BY <1>6, <1>7 DEF n
  <2> QED
    BY <1>7, <1>9, <1>10, <2>1 DEF Between, n
<1>13. Reads'
  BY <1>1, <1>2, <1>3, <1>7, <1>9, <1>10, <1>12 DEF Reads
<1> QED
  BY <1>11, <1>13 DEF ReportInv

\* A statement of the report reads the numbers that there are now.
LEMMA ReportReadOn ==
    ASSUME IInv, ReportInv, ReadOn
    PROVE  ReportInv'
<1>1. /\ report # NoReport /\ Len(report.got) < Size(report.of)
      /\ UNCHANGED storeVars
  BY DEF ReadOn
<1> DEFINE k == Len(report.got) + 1
           found == Findings(report.of, report.table, report.entity, report.now)[k]
           got == Append(report.got, found)
<1>2. report' = [report EXCEPT !.got = got]
  BY DEF ReadOn
<1> HIDE DEF got
<1>3. ReportShape /\ (~report.swapped => Reads)
  BY <1>1 DEF ReportInv
<1>4. /\ report'.of = report.of /\ report'.table = report.table
      /\ report'.entity = report.entity /\ report'.now = report.now
      /\ report'.rows = report.rows /\ report'.swapped = report.swapped
      /\ report'.got = got
      /\ report' = [of |-> report.of, table |-> report.table, entity |-> report.entity,
                    now |-> report.now, rows |-> report.rows, swapped |-> report.swapped,
                    got |-> got]
  BY <1>2, <1>3 DEF ReportShape
<1>5. ReportShape'
  BY <1>3, <1>4 DEF ReportShape
<1>6. tables' = tables
  BY <1>1 DEF storeVars
<1>7. ASSUME ~report.swapped PROVE Reads'
  <2>1. /\ report.table \in Editable /\ report.table \in DOMAIN tables
        /\ report.now \in 0..MaxClock
        /\ report.got \in Seq(Nat) /\ Len(report.got) \in 1..Size(report.of)
    BY <1>3, <1>7 DEF Reads
  <2>2. PICK start : Between(start)
    BY <1>3, <1>7 DEF Reads
  <2> DEFINE rows == tables[report.table]
             Now(i, s) == Cardinality(Counted(report.of, report.entity, report.now, i, s))
  <2>3. RowsOK(rows)
    BY <2>1 DEF IInv, TablesOK
  <2>4. Size(report.of) \in Nat
    BY RowsAssumption DEF Size
  <2>5. k \in 1..Size(report.of)
    BY <1>1, <2>1, <2>4
  <2>6. found = Now(k, rows)
    BY <1>3, <2>3, <2>5, FindingsAreCounts DEF ReportShape
  <2>7. /\ start \subseteq rows /\ Flagged(start) = Flagged(rows)
        /\ report.rows = Cardinality(start)
        /\ report.got[1] = Now(1, start)
        /\ \A i \in 1..Len(report.got) :
              Now(i, start) <= report.got[i] /\ report.got[i] <= Now(i, rows)
    BY <2>2 DEF Between
  <2>8. found \in Nat /\ Now(k, start) <= found /\ found <= Now(k, rows)
    <3>1. IsFiniteSet(rows)
      BY <2>3 DEF RowsOK
    <3>2. Now(k, start) \in Nat /\ Now(k, rows) \in Nat /\ Now(k, start) <= Now(k, rows)
      BY <2>7, <3>1, CountsGrow
    <3> HIDE DEF rows, Now
    <3> QED
      BY <2>6, <3>2
  <2> HIDE DEF found, rows, Now
  <2>9. /\ got \in Seq(Nat) /\ Len(got) = k
        /\ \A i \in 1..Len(report.got) : got[i] = report.got[i]
        /\ got[k] = found
    BY <2>1, <2>8 DEF got
  <2>10. got[1] = Now(1, start)
    BY <2>1, <2>7, <2>9
  <2>11. \A i \in 1..k : Now(i, start) <= got[i] /\ got[i] <= Now(i, rows)
    <3>1. \A i \in 1..k : i \in 1..Len(report.got) \/ i = k
      BY <2>1
    <3> HIDE DEF k
    <3> QED
      BY <2>7, <2>8, <2>9, <3>1
  <2>12. Between(start)'
    BY <1>4, <1>6, <2>7, <2>9, <2>10, <2>11 DEF Between, rows, Now
  <2> QED
    BY <1>4, <1>6, <2>1, <2>5, <2>9, <2>12 DEF Reads
<1> QED
  BY <1>4, <1>5, <1>7 DEF ReportInv

\* A row is recorded under the report, or nothing happens to its table.
LEMMA ReportUnderRecord ==
    ASSUME IInv, IInv', ReportInv, report # NoReport, report' = report,
           report.table \in DOMAIN tables =>
              /\ report.table \in DOMAIN tables'
              /\ tables[report.table] \subseteq tables'[report.table]
              /\ Flagged(tables[report.table]) = Flagged(tables'[report.table])
    PROVE  ReportInv'
<1>1. ReportShape /\ (~report.swapped => Reads)
  BY DEF ReportInv
<1>2. ReportShape'
  BY <1>1 DEF ReportShape
<1>3. ASSUME ~report.swapped PROVE Reads'
  <2>1. /\ report.table \in Editable /\ report.table \in DOMAIN tables
        /\ report.now \in 0..MaxClock
        /\ report.got \in Seq(Nat) /\ Len(report.got) \in 1..Size(report.of)
    BY <1>1, <1>3 DEF Reads
  <2>2. PICK start : Between(start)
    BY <1>1, <1>3 DEF Reads
  <2> DEFINE rows == tables[report.table]
             new == tables'[report.table]
             Now(i, s) == Cardinality(Counted(report.of, report.entity, report.now, i, s))
  <2>3. /\ start \subseteq rows /\ Flagged(start) = Flagged(rows)
        /\ report.rows = Cardinality(start)
        /\ report.got[1] = Now(1, start)
        /\ \A i \in 1..Len(report.got) :
              Now(i, start) <= report.got[i] /\ report.got[i] <= Now(i, rows)
    BY <2>2 DEF Between
  <2>4. report.table \in DOMAIN tables' /\ rows \subseteq new /\ Flagged(rows) = Flagged(new)
    BY <2>1
  <2>5. IsFiniteSet(new)
    BY <2>4 DEF IInv, TablesOK, RowsOK
  <2>6. \A i : Now(i, rows) \in Nat /\ Now(i, new) \in Nat /\ Now(i, rows) <= Now(i, new)
    BY <2>4, <2>5, CountsGrow
  <2>7. \A i \in 1..Len(report.got) : report.got[i] \in Nat
    BY <2>1
  <2> HIDE DEF rows, new, Now
  <2>8. \A i \in 1..Len(report.got) : report.got[i] <= Now(i, new)
    BY <2>3, <2>6, <2>7
  <2>9. start \subseteq new /\ Flagged(start) = Flagged(new)
    BY <2>3, <2>4
  <2>10. Between(start)'
    BY <2>3, <2>8, <2>9 DEF Between, new, Now
  <2> QED
    BY <2>1, <2>4, <2>10 DEF Reads
<1> QED
  BY <1>2, <1>3 DEF ReportInv

LEMMA ReportSteps == IInv /\ IInv' /\ ReportInv /\ [Next]_vars => ReportInv'
<1> SUFFICES ASSUME IInv, IInv', ReportInv, [Next]_vars PROVE ReportInv'
  OBVIOUS
<1> USE NamesDiffer
<1>1. CASE report' = report /\ report = NoReport
  BY <1>1 DEF ReportInv
<1>2. ASSUME report' = report, report # NoReport,
             \A t \in DOMAIN tables : t \in Editable =>
                t \in DOMAIN tables' /\ tables[t] \subseteq tables'[t]
                /\ Flagged(tables[t]) = Flagged(tables'[t])
      PROVE  ReportInv'
  <2>1. CASE report.table \in Editable
    BY <1>2, <2>1, ReportUnderRecord
  <2>2. CASE report.table \notin Editable
    BY <1>2, <2>2 DEF ReportInv, ReportShape, Reads
  <2> QED
    BY <2>1, <2>2
<1>3. CASE RecordAny
  <2>1. report' = report
    BY <1>3 DEF RecordAny, curatorVars
  <2>2. PICK e \in Entities, ts \in 0..clock, s \in States :
            Write(Live, Insert(tables[Live], e, ts, s))
    BY <1>3 DEF RecordAny, Record
  <2> DEFINE new == Insert(tables[Live], e, ts, s)
  <2>3. tables' = [tables EXCEPT ![Live] = new]
    BY <2>2 DEF Write
  <2>4. tables[Live] \subseteq new /\ Flagged(tables[Live]) = Flagged(new)
    BY DEF Insert, Flagged, Null
  <2> HIDE DEF new
  <2>5. \A t \in DOMAIN tables : t \in Editable =>
            t \in DOMAIN tables' /\ tables[t] \subseteq tables'[t]
            /\ Flagged(tables[t]) = Flagged(tables'[t])
    BY <2>3, <2>4
  <2> QED
    BY <1>1, <1>2, <2>1, <2>5
<1>4. CASE Work
  <2>1. CASE Curate
    <3>1. report' = report
      BY <2>1 DEF Curate, curatorVars
    <3>2. report = NoReport
      BY <2>1 DEF Curate, CurateEntity, CurateDomain, CurateUnflag, CuratePruneFlagged,
                  CuratePrune, OpenStore, Free
    <3> QED
      BY <1>1, <3>1, <3>2
  <2>2. CASE Reporting
    <3>1. CASE ReadOn
      BY <3>1, ReportReadOn
    <3>2. CASE Return
      BY <3>2 DEF Return, ReportInv
    <3>3. CASE ~ReadOn /\ ~Return
      <4>1. PICK of \in Reports, t \in Curated,
                 entity \in {{}} \union {{e} : e \in Entities} : Ask(of, t, entity)
        BY <2>2, <3>3 DEF Reporting
      <4> QED
        BY <4>1, ReportAsked
    <3> QED
      BY <3>1, <3>2, <3>3
  <2> QED
    BY <1>4, <2>1, <2>2 DEF Work
<1>5. CASE \E own \in BOOLEAN : BeginRotation(own)
  <2>1. report' = report
    BY <1>5 DEF BeginRotation, curatorVars
  <2>2. \A t \in DOMAIN tables : t \in Editable => t \in DOMAIN tables' /\ tables'[t] = tables[t]
    BY <1>5 DEF BeginRotation, CreateNew, Editable
  <2> QED
    BY <1>1, <1>2, <2>1, <2>2
<1>6. CASE RotateOn
  <2>1. CASE (CheckPrior \/ RotationEnds) /\ UNCHANGED curatorVars
    <3>1. report' = report /\ tables' = tables
      BY <2>1 DEF CheckPrior, RotationEnds, curatorVars
    <3> QED
      BY <1>1, <1>2, <3>1
  <2>2. ASSUME NEW a \in Archives, RenameUnderReport(a) PROVE ReportInv'
    <3>1. report' = IF report = NoReport THEN NoReport ELSE [report EXCEPT !.swapped = TRUE]
      BY <2>2 DEF RenameUnderReport
    <3>2. CASE report = NoReport
      BY <3>1, <3>2 DEF ReportInv
    <3>3. CASE report # NoReport
      <4>1. ReportShape
        BY <3>3 DEF ReportInv
      <4>2. /\ report' = [of |-> report.of, table |-> report.table,
                          entity |-> report.entity, now |-> report.now,
                          rows |-> report.rows, swapped |-> TRUE, got |-> report.got]
            /\ report.of \in Kinds
        BY <3>1, <3>3, <4>1 DEF ReportShape
      <4>3. ReportShape' /\ report'.swapped
        BY <4>2 DEF ReportShape
      <4> QED
        BY <4>3 DEF ReportInv
    <3> QED
      BY <3>2, <3>3
  <2> QED
    BY <1>6, <2>1, <2>2 DEF RotateOn
<1>7. CASE Other
  <2>1. report' = report
    BY <1>7 DEF Other, curatorVars
  <2>2. \A t \in DOMAIN tables : t \in Editable => t \in DOMAIN tables' /\ tables'[t] = tables[t]
    BY <1>7 DEF Other, DropLeftover, Visible, Tick, Editable
  <2> QED
    BY <1>1, <1>2, <2>1, <2>2
<1>8. CASE UNCHANGED vars
  <2>1. report' = report /\ tables' = tables
    BY <1>8 DEF vars, storeVars, curatorVars
  <2> QED
    BY <1>1, <1>2, <2>1
<1> QED
  BY <1>3, <1>4, <1>5, <1>6, <1>7, <1>8 DEF Next

\* The numbers of an age distribution lie between those at its start and those now.
LEMMA AgesBetween ==
    ASSUME IInv, Reads, ReportShape, report.of = "age_distribution",
           Len(report.got) = Size(report.of)
    PROVE  LET sum == FoldSeq(+, 0, report.got)
           IN  report.rows <= sum /\ sum <= Cardinality(tables[report.table])
<1> DEFINE S == 1..Len(AgeBounds) + 1
           rows == tables[report.table]
           f(s) == AgeDistribution(s, report.now)
           got == report.got
<1>1. got \in Seq(Nat) /\ DOMAIN got = S /\ IsFiniteSet(S)
  BY RowsAssumption, FS_Interval DEF Reads, Size
<1>2. PICK start : Between(start)
  BY DEF Reads
<1>3. RowsOK(rows)
  BY DEF Reads, IInv, TablesOK
<1>4. IsFiniteSet(rows) /\ (\A r \in rows : r.ts \in Int) /\ report.now \in Int
  BY <1>3, StoreAssumption DEF RowsOK, Rows, Reads
<1>5. start \subseteq rows /\ report.rows = Cardinality(start)
  BY <1>2 DEF Between
<1>6. IsFiniteSet(start) /\ \A r \in start : r.ts \in Int
  BY <1>4, <1>5, FS_Subset
<1>7. /\ SumOf(f(start), S) = Cardinality(start)
      /\ SumOf(f(rows), S) = Cardinality(rows)
  <2> HIDE DEF rows
  <2> QED
    BY <1>4, <1>6, AgesAddUp
<1>8. \A s : \A i \in S :
         f(s)[i] = Cardinality(Counted(report.of, report.entity, report.now, i, s))
  BY DEF AgeDistribution, Counted
<1>9. \A i \in S : /\ f(start)[i] <= got[i] /\ got[i] <= f(rows)[i]
                   /\ f(start)[i] \in Int /\ f(rows)[i] \in Int /\ got[i] \in Int
  <2> SUFFICES ASSUME NEW i \in S
               PROVE  /\ f(start)[i] <= got[i] /\ got[i] <= f(rows)[i]
                      /\ f(start)[i] \in Int /\ f(rows)[i] \in Int /\ got[i] \in Int
    OBVIOUS
  <2> DEFINE Now(s) == Cardinality(Counted(report.of, report.entity, report.now, i, s))
  <2>1. i \in 1..Len(got) /\ got[i] \in Int
    BY <1>1
  <2>2. Now(start) <= got[i] /\ got[i] <= Now(rows)
    BY <1>2, <2>1 DEF Between
  <2>3. Now(start) \in Int /\ Now(rows) \in Int
    BY <1>4, <1>5, CountsGrow
  <2>4. f(start)[i] = Now(start) /\ f(rows)[i] = Now(rows)
    BY <1>8
  <2> HIDE DEF Now, f, S, got, rows
  <2> QED
    BY <2>1, <2>2, <2>3, <2>4
<1>10. FoldSeq(+, 0, got) = SumOf(got, S)
  BY <1>1, FoldsAreSums
<1> HIDE DEF S, f, got, rows
<1>11. /\ SumOf(f(start), S) <= SumOf(got, S)
       /\ SumOf(got, S) <= SumOf(f(rows), S)
  BY <1>1, <1>9, SumsGrow
<1> QED
  BY <1>5, <1>7, <1>10, <1>11 DEF got, rows

-----------------------------------------------------------------------------
(* The theorems *)

\* Every reachable state of the tables is well typed.
THEOREM TypeCorrect == Spec => []TypeOK
<1>1. IInv => TypeOK
  BY DEF IInv, TablesOK, RowsOK, Rows, RotationOK, TypeOK
<1> QED
  BY <1>1, Invariant, PTL

\* The replacement for the live table is empty whenever it is there
\* (mysql_store.rs: rotate_for_curation).
THEOREM ReplacementIsEmpty == Spec => []NewIsEmpty
<1>1. IInv => NewIsEmpty
  BY DEF IInv
<1> QED
  BY <1>1, Invariant, PTL

\* Every step is one of the record store as the trait describes it, the rotation with
\* its statements, failures and leftovers included (store_trait.rs, mysql_store.rs).
THEOREM Refinement == Spec => ImplementsRecordStore
BY InitRefines, StepRefines, Invariant, PTL
DEF Spec, ImplementsRecordStore, Store!Spec

\* A flag that is set stays as it is until it is removed (sqlite.rs: record,
\* flag_entity, flag_domain).
THEOREM FlagsAreKept == Spec => FlagsStick
<1>1. ASSUME IInv, [Next]_vars
      PROVE  \A t \in DOMAIN tables :
                DOMAIN tables' = DOMAIN tables =>
                  \A r \in Flagged(tables[t]), s \in tables'[t] :
                      (Key(r) = Key(s) /\ r # s) => \E u \in Curated : CurateUnflag(u)
  <2> SUFFICES ASSUME NEW t \in DOMAIN tables, DOMAIN tables' = DOMAIN tables,
                      NEW r \in Flagged(tables[t]), NEW s \in tables'[t],
                      Key(r) = Key(s), r # s
               PROVE  \E u \in Curated : CurateUnflag(u)
    OBVIOUS
  <2>1. \A q \in tables[t] : Key(q) = Key(r) => q = r
    BY <1>1 DEF IInv, TablesOK, RowsOK, Flagged
  <2>2. tables' # tables
    BY <2>1
  <2>3. PICK u \in Editable : Edited(u)
    BY <1>1, <2>2, Steps
    DEF Open, CreateNew, CheckPrior, RotationEnds, DropLeftover, Visible, Rename, Tick,
        storeVars
  <2>4. PICK new : /\ tables' = [tables EXCEPT ![u] = new]
                   /\ Sticks(tables[u], new) \/ CurateUnflag(u)
    BY <1>1, <2>3, EditedRows
  <2>5. u = t
    BY <2>1, <2>4 DEF IInv, TablesOK
  <2>6. tables'[t] = new
    BY <1>1, <2>4, <2>5 DEF IInv, TablesOK
  <2>7. CurateUnflag(t)
    BY <2>4, <2>5, <2>6 DEF Sticks
  <2> QED
    BY <2>7 DEF CurateUnflag, Free
<1> QED
  BY <1>1, Invariant, PTL DEF Spec, FlagsStick

\* A row is lost from all tables only if its flag or the row itself is old enough to
\* be pruned (sqlite.rs: prune_flagged, prune; mysql_store.rs: rotate_for_curation).
THEOREM RowsVanishRipe == Spec => OnlyRipeRowsVanish
<1>1. ASSUME IInv, [Next]_vars, NEW t \in DOMAIN tables, NEW r \in tables[t],
             \A u \in DOMAIN tables' : \A s \in tables'[u] : Key(s) # Key(r)
      PROVE  Ripe(r)
  <2> USE NamesDiffer
  <2>1. CASE \E u \in Editable : Edited(u)
    <3>1. PICK u \in Editable : Edited(u)
      BY <2>1
    <3>2. PICK new : /\ u \in DOMAIN tables
                     /\ tables' = [tables EXCEPT ![u] = new]
                     /\ Keeps(tables[u], new) \/ Pruned(u)
      BY <1>1, <3>1, EditedRows
    <3>3. u = t /\ tables'[t] = new /\ DOMAIN tables' = DOMAIN tables
      BY <1>1, <3>2 DEF IInv, TablesOK
    <3>4. Pruned(t)
      BY <1>1, <3>2, <3>3 DEF Keeps
    <3>5. r \in Rows /\ (r.reason = Null) = (r.flaggedAt = Null) /\ r \notin new
      BY <1>1, <3>3 DEF IInv, TablesOK, RowsOK
    <3>6. CASE \E h \in GraceHours : Write(t, PruneFlagged(tables[t], clock - h))
      <4>1. PICK h \in GraceHours : tables'[t] = PruneFlagged(tables[t], clock - h)
        BY <1>1, <3>3, <3>6 DEF Write, IInv, TablesOK
      <4>2. r.reason # Null /\ \A at \in r.flaggedAt : at < clock - h
        BY <1>1, <3>3, <3>5, <4>1 DEF PruneFlagged
      <4>3. PICK c \in 0..MaxClock : r.flaggedAt = {c}
        BY <3>5, <4>2 DEF Rows
      <4>4. c + h < clock
        BY <1>1, <4>2, <4>3, StoreAssumption DEF IInv
      <4> QED
        BY <4>3, <4>4 DEF Ripe
    <3>7. CASE \E h \in PruneHours : Write(t, Prune(tables[t], clock - h))
      <4>1. PICK h \in PruneHours : tables'[t] = Prune(tables[t], clock - h)
        BY <1>1, <3>3, <3>7 DEF Write, IInv, TablesOK
      <4>2. r.ts < clock - h
        BY <1>1, <3>3, <3>5, <4>1 DEF Prune
      <4>3. r.ts + h < clock
        BY <1>1, <3>5, <4>2, StoreAssumption DEF IInv, Rows
      <4> QED
        BY <4>3 DEF Ripe
    <3> QED
      BY <3>4, <3>6, <3>7 DEF Pruned
  <2>2. CASE \E a \in Archives : Rename(a)
    <3>1. PICK a \in Archives : Rename(a)
      BY <2>2
    <3>2. t # New
      BY <1>1 DEF IInv, NewIsEmpty
    <3>3. \E u \in DOMAIN tables' : r \in tables'[u]
      <4>1. CASE t = Live
        BY <3>1, <4>1 DEF Rename
      <4>2. CASE t = Curating
        BY <1>1, <3>1, <4>2 DEF Rename
      <4>3. CASE t \notin {Live, Curating}
        BY <1>1, <3>1, <3>2, <4>3 DEF Rename
      <4> QED
        BY <4>1, <4>2, <4>3
    <3> QED
      BY <1>1, <3>3
  <2>3. CASE \E u \in Curated : Open(u)
    BY <1>1, <2>3 DEF Open
  <2>4. CASE \E own \in BOOLEAN : CreateNew(own)
    BY <1>1, <2>4 DEF CreateNew
  <2>5. CASE DropLeftover
    BY <1>1, <2>5 DEF DropLeftover, Visible, IInv, NewIsEmpty
  <2>6. CASE CheckPrior \/ RotationEnds \/ Tick \/ UNCHANGED storeVars
    BY <1>1, <2>6 DEF CheckPrior, RotationEnds, Tick, storeVars
  <2> QED
    BY <1>1, <2>1, <2>2, <2>3, <2>4, <2>5, <2>6, Steps
<1>2. ASSUME IInv, [Next]_vars
      PROVE  \A t \in DOMAIN tables : \A r \in tables[t] :
                (\A u \in DOMAIN tables' : \A s \in tables'[u] : Key(s) # Key(r)) =>
                   \/ \E h \in PruneHours : r.ts + h < clock
                   \/ \E h \in GraceHours, at \in r.flaggedAt : at + h < clock
  BY <1>1, <1>2 DEF Ripe
<1> QED
  BY <1>2, Invariant, PTL DEF Spec, OnlyRipeRowsVanish

\* Each of the aggregates counts every row of its table once: by domain, by age, by
\* reason and by entity (sqlite.rs: domain_stats, age_distribution,
\* flagged_by_reason, flagged_by_domain, query, latest; mysql_store.rs).
THEOREM AggregatesAddUp == Spec => []EveryRowIsCounted
<1>1. ASSUME IInv, NEW t \in DOMAIN tables
      PROVE  /\ DomainSum(t) = CountOn(t, {})
             /\ FoldSeq(+, 0, AgeDistributionStatements(t, clock)) = CountOn(t, {})
             /\ Flags(t) = MapThenSumSet(LAMBDA d : FlaggedByDomainOn(t)[d],
                                         DOMAIN FlaggedByDomainOn(t))
             /\ \A e \in Entities :
                   /\ Len(QueryOn(t, e, 0, MaxClock)) = CountOn(t, {e})
                   /\ LatestOn(t, e) # {} <=> e \in EntitiesOn(t)
                   /\ EntityProfileStatements(t, e)[1] = CountOn(t, {e})
  <2>1. RowsOK(tables[t])
    BY <1>1 DEF IInv, TablesOK
  <2>2. IsFiniteSet(tables[t]) /\ \A r \in tables[t] : r.ts \in Int
    BY <2>1, StoreAssumption DEF RowsOK, Rows
  <2>3. CountOn(t, {}) = Cardinality(tables[t])
    BY DEF CountOn, Count
  <2>4. DomainSum(t) = CountOn(t, {})
    BY <2>2, <2>3, DomainSumIsSum, DomainsAddUp
  <2>5. clock \in Int
    BY <1>1, StoreAssumption DEF IInv
  <2>6. FoldSeq(+, 0, AgeDistributionStatements(t, clock)) = CountOn(t, {})
    <3>1. FoldSeq(+, 0, AgeDistributionStatements(t, clock))
             = SumOf(AgeDistribution(tables[t], clock), 1..Len(AgeBounds) + 1)
      BY AgesSum
    <3>2. SumOf(AgeDistribution(tables[t], clock), 1..Len(AgeBounds) + 1)
             = Cardinality(tables[t])
      BY <2>2, <2>5, AgesAddUp
    <3> QED
      BY <2>3, <3>1, <3>2
  <2>7. Flags(t) = MapThenSumSet(LAMBDA d : FlaggedByDomainOn(t)[d],
                                 DOMAIN FlaggedByDomainOn(t))
    <3>1. MapThenSumSet(LAMBDA d : FlaggedByDomainOn(t)[d], DOMAIN FlaggedByDomainOn(t))
             = SumOf(FlaggedByDomain(tables[t]), DOMAIN FlaggedByDomain(tables[t]))
      BY FlaggedSumIsSum
    <3>2. Flags(t) = Cardinality(Flagged(tables[t]))
      BY <2>1, FlagsIsSum, ReasonsAddUp
    <3>3. SumOf(FlaggedByDomain(tables[t]), DOMAIN FlaggedByDomain(tables[t]))
             = Cardinality(Flagged(tables[t]))
      BY <2>2, FlaggedDomainsAddUp
    <3> QED
      BY <3>1, <3>2, <3>3
  <2> QED
    BY <2>1, <2>4, <2>6, <2>7, ReadsOfEntity
<1>2. IInv => EveryRowIsCounted
  BY <1>1 DEF EveryRowIsCounted
<1> QED
  BY <1>2, Invariant, PTL

\* The preview of the n-th of the rows in between tells what flagging does, for any n,
\* 0 included (sqlite.rs: flag_preview, flag_entity; mysql_store.rs).
THEOREM PreviewIsTrue == Spec => []PreviewTellsWhatFlagDoes
<1>1. ASSUME IInv PROVE PreviewTellsWhatFlagDoes
  <2> SUFFICES ASSUME NEW t \in DOMAIN tables, NEW e \in Entities, NEW age \in OlderThan,
                      NEW keep \in KeepEvery \ {{}}, NEW v \in UsedReasons
               PROVE  LET preview == FlagPreviewStatements(t, e, Cutoff(age), keep)[1]
                          after == FlagEntity(tables[t], e, v, Cutoff(age), keep, clock)
                      IN  /\ preview.flag = Cardinality(after \ tables[t])
                          /\ preview.keep = Cardinality(Eligible(after, e, Cutoff(age)))
    BY DEF PreviewTellsWhatFlagDoes
  <2> DEFINE rows == tables[t]
             cutoff == Cutoff(age)
             some == Eligible(rows, e, cutoff)
             hit == Thinned(some, keep)
             after == FlagEntity(rows, e, v, cutoff, keep, clock)
             preview == FlagPreviewStatements(t, e, cutoff, keep)[1]
             total == Cardinality(some)
             n == Max({1} \union keep)
  <2>1. PICK k \in Nat : keep = {k}
    <3>1. keep \subseteq Nat /\ keep # {} /\ \A i, j \in keep : i = j
      BY StoreAssumption
    <3>2. PICK i \in keep : TRUE
      BY <3>1
    <3> QED
      BY <3>1, <3>2
  <2>2. RowsOK(rows)
    BY <1>1 DEF IInv, TablesOK
  <2>3. IsFiniteSet(some) /\ some \in SUBSET rows /\ \A r \in some : r.ts \in Int
    <3>1. some \in SUBSET rows
      BY DEF Eligible, Unflagged, OfEntity, Flagged
    <3>2. \A r \in rows : r.ts \in 0..MaxClock
      BY <2>2 DEF RowsOK, Rows
    <3> HIDE DEF some, rows
    <3> QED
      BY <2>2, <3>1, <3>2, FS_Subset, StoreAssumption DEF RowsOK
  <2> DEFINE kept == IF k = 0 THEN total ELSE (total + k - 1) \div k
  <2>4. /\ hit \in SUBSET some
        /\ Cardinality(some \ hit) = kept
        /\ Cardinality(hit) = total - kept
        /\ total \in Nat /\ kept \in Nat
    <3> HIDE DEF some
    <3> QED
      BY <2>1, <2>3, ThinnedCount
  <2>5. /\ Cardinality(after \ rows) = Cardinality(hit)
        /\ Eligible(after, e, cutoff) = some \ hit
    <3>1. after = SetFlag(rows, hit, v, clock)
      BY DEF FlagEntity
    <3> HIDE DEF after, rows, cutoff, hit
    <3> QED
      BY <2>2, <2>4, <3>1, FlaggedRows
  <2>6. preview.keep = (total + n - 1) \div n /\ preview.flag = total - (total + n - 1) \div n
    <3> HIDE DEF total, n
    <3> QED
      BY DEF FlagPreviewStatements, FlagPreview, total, n
  <2>7. n = IF k = 0 THEN 1 ELSE k
    <3> DEFINE s == {1} \union keep
    <3>1. n \in s /\ \A x \in s : n >= x
      <4>1. \E m \in s : \A x \in s : m >= x
        <5>1. CASE k = 0
          BY <2>1, <5>1
        <5>2. CASE k # 0
          BY <2>1, <5>2
        <5> QED
          BY <5>1, <5>2
      <4> HIDE DEF s
      <4> QED
        BY <4>1 DEF Max, s
    <3> HIDE DEF n
    <3> QED
      BY <2>1, <3>1
  <2>8. (total + n - 1) \div n = kept
    <3>1. CASE k = 0
      <4>1. \A a \in Nat : (a + 1 - 1) \div 1 = a
        OBVIOUS
      <4> HIDE DEF total, n
      <4> QED
        BY <2>4, <2>7, <3>1, <4>1
    <3>2. CASE k # 0
      <4> HIDE DEF total, n
      <4> QED
        BY <2>4, <2>7, <3>2
    <3> QED
      BY <3>1, <3>2
  <2> HIDE DEF total, n, kept, hit, some, after, preview
  <2>9. /\ preview.flag = Cardinality(after \ rows)
        /\ preview.keep = Cardinality(Eligible(after, e, cutoff))
    BY <2>4, <2>5, <2>6, <2>8
  <2> QED
    BY <2>9 DEF preview, after
<1> QED
  BY <1>1, Invariant, PTL

\* Of two reads of a report the numbers fit, whatever is recorded between them and
\* however far a rotation is, unless its renames come between (curator.rs: db_overview,
\* flagged_summary, domain_stats, age_distribution, entity_profile,
\* retention_estimate).
THEOREM ReportsAreConsistent == Spec => []ReportsAddUp
<1>1. ASSUME IInv, ReportInv, Finished, ~report.swapped
      PROVE  LET sum == FoldSeq(+, 0, report.got) IN
             CASE report.of \in {"db_overview", "retention_estimate", "entity_profile"} ->
                     report.got[2] <= report.got[1]
               [] report.of = "flagged_summary" -> report.got[1] <= report.got[2]
               [] report.of = "domain_stats" ->
                     report.got[1] <= report.got[2]
                     /\ report.got[2] <= CountOn(report.table, {})
               [] report.of = "age_distribution" ->
                     report.rows <= sum /\ sum <= CountOn(report.table, {})
  <2>1. ReportShape /\ Reads /\ Len(report.got) = Size(report.of)
    BY <1>1 DEF ReportInv, Finished
  <2> DEFINE rows == tables[report.table]
             Now(i, s) == Cardinality(Counted(report.of, report.entity, report.now, i, s))
             got == report.got
  <2>2. PICK start : Between(start)
    BY <2>1 DEF Reads
  <2>3. CountOn(report.table, {}) = Cardinality(rows)
    BY DEF CountOn, Count
  <2>4. /\ start \subseteq rows /\ Flagged(start) = Flagged(rows)
        /\ got[1] = Now(1, start)
        /\ \A i \in 1..Len(got) : Now(i, start) <= got[i] /\ got[i] <= Now(i, rows)
    BY <2>2 DEF Between
  <2>5. IsFiniteSet(rows)
    BY <1>1, <2>1 DEF Reads, IInv, TablesOK, RowsOK
  <2>6. \A i : Now(i, start) \in Nat /\ Now(i, rows) \in Nat
    BY <2>4, <2>5, CountsGrow
  <2>7. CASE report.of = "age_distribution"
    <3>1. LET sum == FoldSeq(+, 0, report.got)
          IN  report.rows <= sum /\ sum <= Cardinality(rows)
      BY <1>1, <2>1, <2>7, AgesBetween
    <3> QED
      BY <2>3, <2>7, <3>1
  <2>8. CASE report.of # "age_distribution"
    <3>1. Len(got) = 2 /\ got[1] \in Nat /\ got[2] \in Nat
      BY <2>1, <2>8 DEF Size, Reads
    <3>2. Now(2, start) <= got[2] /\ got[2] <= Now(2, rows)
      BY <2>4, <3>1
    <3>3. IsFiniteSet(start)
      BY <2>4, <2>5, FS_Subset
    <3>4. CASE report.of \in {"db_overview", "retention_estimate", "entity_profile"}
      <4>1. Counted(report.of, report.entity, report.now, 2, rows)
               \subseteq Counted(report.of, report.entity, report.now, 1, start)
        <5> DEFINE e == CHOOSE f \in report.entity : TRUE
        <5>1. \A r \in Flagged(OfEntity(rows, e)) : r \in OfEntity(start, e)
          BY <2>4 DEF Flagged, OfEntity
        <5>2. \A r \in Flagged(rows) : r \in start
          BY <2>4 DEF Flagged
        <5> HIDE DEF rows
        <5>3. CASE report.of = "entity_profile"
          BY <5>1, <5>3 DEF Counted
        <5>4. CASE report.of \in {"db_overview", "retention_estimate"}
          BY <5>2, <5>4 DEF Counted
        <5> QED
          BY <3>4, <5>3, <5>4
      <4>2. Now(2, rows) <= Now(1, start)
        <5>1. IsFiniteSet(Counted(report.of, report.entity, report.now, 1, start))
          <6>1. Counted(report.of, report.entity, report.now, 1, start) \subseteq start
            BY <3>4 DEF Counted, OfEntity
          <6> QED
            BY <3>3, <6>1, FS_Subset
        <5> QED
          BY <4>1, <5>1, FS_Subset
      <4>3. got[2] <= got[1]
        <5> HIDE DEF Now, rows, got
        <5> QED
          BY <2>4, <2>6, <3>1, <3>2, <4>2
      <4> QED
        BY <3>4, <4>3
    <3>5. CASE report.of = "flagged_summary"
      <4>1. Counted(report.of, report.entity, report.now, 1, start) = Flagged(start)
            /\ Counted(report.of, report.entity, report.now, 2, start) = start
        BY <3>5 DEF Counted
      <4>2. Flagged(start) \subseteq start
        BY DEF Flagged
      <4>3. Now(1, start) <= Now(2, start)
        BY <3>3, <4>1, <4>2, FS_Subset
      <4>4. got[1] <= got[2]
        <5> HIDE DEF Now, rows, got
        <5> QED
          BY <2>4, <2>6, <3>1, <3>2, <4>3
      <4> QED
        BY <3>5, <4>4
    <3>6. CASE report.of = "domain_stats"
      <4>1. \A i, s : Counted(report.of, report.entity, report.now, i, s) = s
        BY <3>6 DEF Counted
      <4>2. Now(1, start) = Now(2, start) /\ Now(2, rows) = Cardinality(rows)
        BY <4>1
      <4>3. got[1] <= got[2] /\ got[2] <= Cardinality(rows)
        <5> HIDE DEF Now, rows, got
        <5> QED
          BY <2>4, <2>6, <3>1, <3>2, <4>2
      <4> QED
        BY <2>3, <3>6, <4>3
    <3> QED
      BY <2>1, <2>8, <3>4, <3>5, <3>6 DEF ReportShape, Kinds
  <2> QED
    BY <2>7, <2>8
<1>2. IInv /\ ReportInv => ReportsAddUp
  BY <1>1 DEF ReportsAddUp
<1>3. Init => ReportInv
  BY DEF Init, CuratorInit, ReportInv
<1> QED
  BY <1>2, <1>3, ReportSteps, Invariant, PTL DEF Spec
=============================================================================
