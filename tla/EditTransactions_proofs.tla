----------------------- MODULE EditTransactions_proofs -----------------------
(* Proofs about EditTransactions, for any targets, footprints, values, runs,   *)
(* documents and journal limit.                                                *)
(*                                                                             *)
(* What a person set is safe because it is in the protection column, which no  *)
(* pruning reaches; the category is safe from backfill because the newest      *)
(* category command stays in the journal; the rules write empty slots only     *)
(* because a pending fill that is still current found its slots empty.         *)
EXTENDS EditTransactions, TLAPS, SequenceTheorems, FiniteSetTheorems

\* A sequence, whatever its elements are
IsSeq(h) == h \in Seq({h[b] : b \in DOMAIN h})

\* Everything a person ever set is in the column.
InColumn ==
    \A b \in DOMAIN history : ByPerson(history, b) =>
        column # None /\ DOMAIN history[b].now \subseteq column

\* Marks of people are never without the column.
MarksInColumn == marks # {} => column # None /\ marks \subseteq column

\* The newest category command of a person is never pruned.
CategoryRowKept ==
    (\E b \in DOMAIN history : CategoryRow(history, b)) =>
        \E b \in kept : /\ CategoryRow(history, b)
                        /\ \A c \in kept : CategoryRow(history, c) => c <= b

\* The journal gives up a row of a person only for enough newer ones.
NewerOfPeople(b) == {c \in DOMAIN history : c > b /\ ByPerson(history, c)}
PersonRowKept ==
    \A b \in DOMAIN history :
        ByPerson(history, b) /\ b \notin kept => Cardinality(NewerOfPeople(b)) >= JournalKept

\* A write in preparation, as long as it is current
PendingSound(p) ==
    /\ p = [writer |-> p.writer, run |-> p.run, base |-> p.base, again |-> p.again,
            edit |-> p.edit]
    /\ p.writer \in Writers
    /\ p.base \in Nat /\ p.base <= Version
    /\ DOMAIN p.edit \subseteq Targets
    /\ p.writer \in {"adoption", "autofill"} => Category \notin DOMAIN p.edit
    /\ p.writer # "adoption" => p.run = None
    /\ p.writer = "autofill" /\ p.base = Version => \A t \in DOMAIN p.edit : draft[t] = Empty
    /\ p.writer = "direct" /\ p.base = Version /\ column # None /\ Category \in column
         /\ Category \in DOMAIN p.edit => p.edit[Category] = draft[Category]
    /\ p.writer = "adoption" /\ p.base = Version =>
         \A b \in kept : b >= base /\ ByPerson(history, b) =>
           \A t \in DOMAIN history[b].now \cap DOMAIN p.edit : p.edit[t] = draft[t]

Store ==
    /\ IsSeq(history)
    /\ draft = [t \in Targets |-> draft[t]]
    /\ kept \subseteq DOMAIN history
    /\ column = None \/ column \subseteq Targets
    /\ InColumn
    /\ CategoryRowKept
    /\ PersonRowKept

IInv == Store /\ (pending # None => PendingSound(pending))

-------------------------------------------------------------------------------
\* Appending to a sequence of anything keeps its elements and adds one.
LEMMA Appended ==
    ASSUME NEW h, IsSeq(h), NEW row
    PROVE  /\ Len(h) \in Nat /\ DOMAIN h = 1..Len(h)
           /\ IsSeq(Append(h, row))
           /\ Len(Append(h, row)) = Len(h) + 1
           /\ DOMAIN Append(h, row) = 1..(Len(h) + 1)
           /\ \A b \in DOMAIN h : Append(h, row)[b] = h[b]
           /\ Append(h, row)[Len(h) + 1] = row
           /\ Append(h, row) # h
<1> DEFINE S == {h[b] : b \in DOMAIN h} \cup {row}
<1> DEFINE g == Append(h, row)
<1>1. h \in Seq(S)
  <2>1. {h[b] : b \in DOMAIN h} \subseteq S
    OBVIOUS
  <2> HIDE DEF S
  <2> QED
    BY <2>1, SeqMonotonic DEF IsSeq
<1>2. row \in S
  OBVIOUS
<1> HIDE DEF S
<1>3. Len(h) \in Nat /\ DOMAIN h = 1..Len(h)
  BY <1>1, LenProperties
<1>4. /\ g \in Seq(S) /\ Len(g) = Len(h) + 1
      /\ \A b \in 1..Len(h) : g[b] = h[b]
      /\ g[Len(h) + 1] = row
  BY <1>1, <1>2
<1> HIDE DEF g
<1>5. DOMAIN g = 1..(Len(h) + 1) /\ g \in [1..Len(g) -> S]
  BY <1>4, LenProperties
<1>6. g \in Seq({g[b] : b \in DOMAIN g})
  <2> DEFINE T == {g[b] : b \in DOMAIN g}
  <2>1. \A b \in 1..Len(g) : g[b] \in T
    BY <1>4, <1>5
  <2> HIDE DEF T
  <2>2. g \in [1..Len(g) -> T]
    BY <1>5, <2>1
  <2>3. Len(g) \in Nat
    BY <1>3, <1>4
  <2>4. g \in Seq(T)
    BY <2>2, <2>3, SeqDef
  <2> QED
    BY <2>4 DEF T
<1>7. g # h
  BY <1>3, <1>4
<1> QED
  BY <1>3, <1>4, <1>5, <1>6, <1>7 DEF IsSeq, g

\* The journal after a write: what was there stays as it was, the new row is last.
LEMMA Committed ==
    ASSUME Store, NEW origin, NEW r, NEW edit, Commit(origin, r, edit)
    PROVE  /\ Len(history) \in Nat
           /\ DOMAIN history = 1..Len(history) /\ DOMAIN history' = 1..Version
           /\ IsSeq(history')
           /\ Len(history') = Version /\ history' # history
           /\ \A b \in DOMAIN history : history'[b] = history[b]
           /\ history'[Version].origin = origin /\ history'[Version].run = r
           /\ history'[Version].now = edit
           /\ draft' = [t \in Targets |-> IF t \in DOMAIN edit THEN edit[t] ELSE draft[t]]
           /\ kept' = Prune(history', kept \cup {Version})
<1> DEFINE row == [origin |-> origin, run |-> r,
                   was |-> [t \in DOMAIN edit |-> draft[t]], now |-> edit]
<1>1. IsSeq(history)
  BY DEF Store
<1>2. /\ history' = Append(history, row)
      /\ draft' = [t \in Targets |-> IF t \in DOMAIN edit THEN edit[t] ELSE draft[t]]
      /\ kept' = Prune(history', kept \cup {Version})
  BY DEF Commit
<1>3. row.origin = origin /\ row.run = r /\ row.now = edit
  OBVIOUS
<1> HIDE DEF row
<1> QED
  BY <1>1, <1>2, <1>3, Appended DEF Version

\* A row of a person that was in the journal is one, and says the same.
LEMMA OldRows ==
    ASSUME NEW h, NEW g, NEW b, g[b] = h[b]
    PROVE  ByPerson(g, b) = ByPerson(h, b) /\ CategoryRow(g, b) = CategoryRow(h, b)
BY Zenon DEF ByPerson, CategoryRow

\* Every write keeps the store sound, if the writes of people go to the column and
\* the others leave it alone.
LEMMA StoreKept ==
    ASSUME Store, NEW origin, NEW r, NEW edit, Commit(origin, r, edit),
           column' = None \/ column' \subseteq Targets,
           column # None => column' # None /\ column \subseteq column',
           origin \in PersonOrigins => column' # None /\ DOMAIN edit \subseteq column'
    PROVE  Store'
<1>1. /\ Len(history) \in Nat
      /\ DOMAIN history = 1..Len(history) /\ DOMAIN history' = 1..Version
      /\ IsSeq(history')
      /\ \A b \in DOMAIN history : history'[b] = history[b]
      /\ history'[Version].origin = origin
      /\ history'[Version].now = edit
      /\ draft' = [t \in Targets |-> IF t \in DOMAIN edit THEN edit[t] ELSE draft[t]]
      /\ kept' = Prune(history', kept \cup {Version})
  BY Committed
<1>2. DOMAIN history' = DOMAIN history \cup {Version} /\ Version \notin DOMAIN history
  BY <1>1 DEF Version
<1>3. draft' = [t \in Targets |-> draft'[t]]
  BY <1>1
<1>4. kept' \subseteq DOMAIN history'
  BY <1>1, <1>2 DEF Prune, Store
<1>5. InColumn'
  <2> SUFFICES ASSUME NEW b \in DOMAIN history', ByPerson(history', b)
               PROVE  column' # None /\ DOMAIN history'[b].now \subseteq column'
    BY DEF InColumn
  <2>1. CASE b = Version
    BY <2>1, <1>1 DEF ByPerson
  <2>2. CASE b \in DOMAIN history
    <3>1. history'[b] = history[b] /\ ByPerson(history, b)
      BY <2>2, <1>1 DEF ByPerson
    <3> QED
      BY <2>2, <3>1 DEF Store, InColumn
  <2> QED
    BY <2>1, <2>2, <1>2
<1>6. CategoryRowKept'
  <2> SUFFICES ASSUME NEW a \in DOMAIN history', CategoryRow(history', a)
               PROVE  \E b \in kept' : /\ CategoryRow(history', b)
                                       /\ \A c \in kept' : CategoryRow(history', c) => c <= b
    BY DEF CategoryRowKept
  <2> DEFINE k == kept \cup {Version}
  <2> DEFINE Newest(b) == /\ b \in k /\ CategoryRow(history', b)
                          /\ \A c \in k : CategoryRow(history', c) => c <= b
  <2>1. kept \subseteq 1..Len(history) /\ k \subseteq 1..Version /\ Version \in Nat
    BY <1>1 DEF Store, Version
  <2>2. \A b : Newest(b) => b \in kept'
    BY <1>1 DEF Prune
  <2>3. \A b \in DOMAIN history : CategoryRow(history', b) = CategoryRow(history, b)
    BY <1>1, OldRows
  <2>4. \E b : Newest(b)
    <3>1. CASE CategoryRow(history', Version)
      <4>1. \A c \in k : c <= Version
        BY <2>1
      <4> QED
        BY <3>1, <4>1
    <3>2. CASE ~CategoryRow(history', Version)
      <4>1. a \in DOMAIN history /\ CategoryRow(history, a)
        BY <3>2, <1>2, <2>3
      <4>2. PICK b \in kept : /\ CategoryRow(history, b)
                              /\ \A c \in kept : CategoryRow(history, c) => c <= b
        BY <4>1 DEF Store, CategoryRowKept
      <4>3. kept \subseteq DOMAIN history
        BY DEF Store
      <4>4. Newest(b)
        BY <4>2, <4>3, <2>3, <3>2
      <4> QED
        BY <4>4
    <3> QED
      BY <3>1, <3>2
  <2>5. kept' \subseteq k
    BY <1>1 DEF Prune
  <2> QED
    BY <2>2, <2>4, <2>5
<1>7. PersonRowKept'
  <2> SUFFICES ASSUME NEW b \in DOMAIN history', ByPerson(history', b), b \notin kept'
               PROVE  Cardinality(NewerOfPeople(b)') >= JournalKept
    BY DEF PersonRowKept
  <2> DEFINE k == kept \cup {Version}
  <2> DEFINE newer == {c \in k : ByPerson(history', c) /\ c > b}
  <2>1. kept \subseteq DOMAIN history /\ k \subseteq DOMAIN history' /\ Version \in Nat
    BY <1>1, <1>2 DEF Store, Version
  <2>2. IsFiniteSet(NewerOfPeople(b)')
    <3>1. IsFiniteSet(1..Version)
      BY <2>1, FS_Interval
    <3>2. NewerOfPeople(b)' \subseteq 1..Version
      BY <1>1 DEF NewerOfPeople
    <3> QED
      BY <3>1, <3>2, FS_Subset
  <2>3. CASE b \in k
    <3>1. ~(Cardinality(newer) < JournalKept)
      BY <2>3, <1>1 DEF Prune
    <3>2. newer \subseteq NewerOfPeople(b)'
      BY <2>1 DEF NewerOfPeople
    <3> HIDE DEF newer
    <3>3. Cardinality(newer) <= Cardinality(NewerOfPeople(b)')
      BY <2>2, <3>2, FS_Subset
    <3>4. Cardinality(newer) \in Nat /\ Cardinality(NewerOfPeople(b)') \in Nat
      BY <2>2, <3>2, FS_Subset, FS_CardinalityType
    <3> QED
      BY <3>1, <3>3, <3>4, LimitAssumption
  <2>4. CASE b \notin k
    <3>1. b \in DOMAIN history /\ ByPerson(history, b) /\ b \notin kept
      BY <2>4, <1>1, <1>2, OldRows
    <3>2. Cardinality(NewerOfPeople(b)) >= JournalKept
      BY <3>1 DEF Store, PersonRowKept
    <3>3. NewerOfPeople(b) \subseteq NewerOfPeople(b)'
      BY <1>1, <1>2, OldRows DEF NewerOfPeople
    <3>4. Cardinality(NewerOfPeople(b)) <= Cardinality(NewerOfPeople(b)')
      BY <2>2, <3>3, FS_Subset
    <3>5. /\ Cardinality(NewerOfPeople(b)) \in Nat
          /\ Cardinality(NewerOfPeople(b)') \in Nat
      BY <2>2, <3>3, FS_Subset, FS_CardinalityType
    <3> QED
      BY <3>2, <3>4, <3>5, LimitAssumption
  <2> QED
    BY <2>3, <2>4
<1> QED
  BY <1>1, <1>3, <1>4, <1>5, <1>6, <1>7 DEF Store

\* What a person's targets do to the column: it is there, holds them and what it
\* held before.
LEMMA ColumnGrows ==
    ASSUME column = None \/ column \subseteq Targets,
           NEW added \in SUBSET Targets, added # {}
    PROVE  /\ Merged(added) # None /\ Merged(added) \subseteq Targets
           /\ added \subseteq Merged(added)
           /\ column # None => column \subseteq Merged(added)
<1>1. Merged(added) \in SUBSET Targets
  BY DEF Merged
<1>2. Merged(added) # None
  BY <1>1, RunAssumption
<1> QED
  BY <1>1, <1>2 DEF Merged

\* A command touches its target and what it writes.
LEMMA ScopeInFootprint ==
    ASSUME NEW t \in Targets, NEW S \in Scopes(t)
    PROVE  /\ t \in Footprint[t] /\ S \subseteq Footprint[t]
           /\ Footprint[t] \in SUBSET Targets
BY TargetAssumption DEF Scopes

\* A command of a person keeps the store sound and protects what it set.
LEMMA PersonCommand ==
    ASSUME Store, NEW origin \in PersonOrigins, NEW r, NEW t \in Targets, NEW S, NEW v,
           Apply(origin, r, t, S, v)
    PROVE  Store' /\ column' # None /\ t \in column' /\ (column # None => column \subseteq column')
<1>1. /\ S \in Scopes(t)
      /\ Commit(origin, r, [x \in S |-> v])
      /\ column' = Merged(Footprint[t])
  BY DEF Apply
<1>2. t \in Footprint[t] /\ S \subseteq Footprint[t] /\ Footprint[t] \in SUBSET Targets
  BY <1>1, ScopeInFootprint
<1>3. /\ column' # None /\ column' \subseteq Targets /\ Footprint[t] \subseteq column'
      /\ column # None => column \subseteq column'
  BY <1>1, <1>2, ColumnGrows DEF Store
<1>4. DOMAIN [x \in S |-> v] = S
  OBVIOUS
<1>5. Store'
  BY <1>1, <1>2, <1>3, <1>4, StoreKept
<1> QED
  BY <1>2, <1>3, <1>5

\* A command of a machine keeps the store sound and leaves the column alone.
LEMMA MachineCommand ==
    ASSUME Store, NEW origin \in MachineOrigins, NEW r, NEW t, NEW S, NEW v,
           Apply(origin, r, t, S, v)
    PROVE  Store' /\ UNCHANGED <<column, marks>>
<1>1. origin \notin PersonOrigins
  BY DEF MachineOrigins, RunOrigins, PersonOrigins
<1>2. Commit(origin, r, [x \in S |-> v]) /\ UNCHANGED <<column, marks>>
  BY <1>1 DEF Apply
<1>3. column = None \/ column \subseteq Targets
  BY DEF Store
<1>4. Store'
  BY <1>1, <1>2, <1>3, StoreKept
<1> QED
  BY <1>2, <1>4

\* The undo of a run is a command of a person on all it restores.
LEMMA UndoCommand ==
    ASSUME Store, NEW r, UndoRun(r)
    PROVE  Store' /\ column' # None /\ (column # None => column \subseteq column')
<1> DEFINE edit == [t \in Restored(r) |-> FirstWas(r, t)]
<1>1. /\ Commit("undo", r, edit)
      /\ Restored(r) # {} /\ column' = Merged(Touched(Restored(r)))
  BY DEF UndoRun
<1>2. Restored(r) \subseteq Targets
  BY DEF Restored
<1>3. DOMAIN edit = Restored(r)
  OBVIOUS
<1>4. /\ Restored(r) \subseteq Touched(Restored(r))
      /\ Touched(Restored(r)) \in SUBSET Targets
  BY <1>2, TargetAssumption DEF Touched
<1> HIDE DEF edit
<1>5. /\ column' # None /\ column' \subseteq Targets /\ Restored(r) \subseteq column'
      /\ column # None => column \subseteq column'
  BY <1>1, <1>4, ColumnGrows DEF Store
<1>6. Store'
  BY <1>1, <1>3, <1>5, StoreKept
<1> QED
  BY <1>5, <1>6

-------------------------------------------------------------------------------
\* A write in preparation is out of date once anything is committed.
LEMMA OutOfDate ==
    ASSUME Store, NEW origin, NEW r, NEW edit, Commit(origin, r, edit),
           pending # None => PendingSound(pending), pending' = pending
    PROVE  pending' # None => PendingSound(pending)'
<1>1. Version \in Nat /\ Version' = Version + 1
  BY Committed DEF Version
<1> HAVE pending' # None
<1>2. PendingSound(pending)
  OBVIOUS
<1>3. pending.base \in Nat /\ pending.base <= Version
  BY <1>2 DEF PendingSound
<1>4. pending'.base \in Nat /\ pending'.base <= Version' /\ pending'.base # Version'
  BY <1>1, <1>3
<1> QED
  BY <1>2, <1>4 DEF PendingSound

\* What stays as it was stays sound.
LEMMA Untouched ==
    ASSUME IInv, UNCHANGED <<draft, history, kept, column>>
    PROVE  Store' /\ (UNCHANGED <<base, pending>> => IInv')
<1>1. Store'
  BY DEF IInv, Store, IsSeq, InColumn, CategoryRowKept, PersonRowKept, NewerOfPeople,
         ByPerson, CategoryRow
<1>2. UNCHANGED <<base, pending>> => (pending' # None => PendingSound(pending)')
  BY DEF IInv, PendingSound, Version, ByPerson
<1> QED
  BY <1>1, <1>2 DEF IInv

\* The reads before a write: what they prepare is sound on the draft they saw.
LEMMA AdoptionRead ==
    ASSUME Store, NEW r \in Runs, NEW doc \in Documents, ReadForAdoption(r, doc)
    PROVE  PendingSound(pending)'
<1> DEFINE mine == Touched(PersonSince(base))
<1> DEFINE edit == [t \in Targets \ {Category} |-> IF t \in mine THEN draft[t] ELSE doc[t]]
<1>1. /\ pending' = [writer |-> "adoption", run |-> r, base |-> Version, again |-> FALSE,
                     edit |-> edit]
      /\ UNCHANGED <<draft, history, kept, column, base>>
  BY DEF ReadForAdoption, chain
<1>2. DOMAIN edit = Targets \ {Category}
  OBVIOUS
<1>3. Version \in Nat
  BY Appended DEF Version, Store
<1>4. ASSUME NEW b \in kept, b >= base, ByPerson(history, b),
             NEW t \in DOMAIN history[b].now \cap DOMAIN edit
      PROVE  edit[t] = draft[t]
  <2>1. t \in Targets /\ t \in PersonSince(base)
    BY <1>4 DEF PersonSince
  <2>2. t \in mine
    BY <2>1, TargetAssumption DEF Touched
  <2> QED
    BY <1>4, <2>2
<1> HIDE DEF edit
<1>5. /\ pending'.writer = "adoption" /\ pending'.run = r /\ pending'.base = Version
      /\ pending'.edit = edit
      /\ pending' = [writer |-> pending'.writer, run |-> pending'.run, base |-> pending'.base,
                     again |-> pending'.again, edit |-> pending'.edit]
  BY <1>1
<1> QED
  BY <1>1, <1>2, <1>3, <1>4, <1>5 DEF PendingSound, Version, ByPerson, Writers

LEMMA DirectRead ==
    ASSUME Store, NEW doc \in Documents, ReadForDirect(doc)
    PROVE  PendingSound(pending)'
<1> DEFINE edit == [t \in Targets |-> IF t = Category /\ Category \in Protected
                                     THEN draft[t] ELSE doc[t]]
<1>1. /\ pending' = [writer |-> "direct", run |-> None, base |-> Version, again |-> FALSE,
                     edit |-> edit]
      /\ UNCHANGED <<draft, history, kept, column>>
  BY DEF ReadForDirect
<1>2. DOMAIN edit = Targets
  OBVIOUS
<1>3. Version \in Nat
  BY Appended DEF Version, Store
<1>4. column # None /\ Category \in column => edit[Category] = draft[Category]
  BY TargetAssumption DEF Protected
<1> HIDE DEF edit
<1>5. /\ pending'.writer = "direct" /\ pending'.run = None /\ pending'.base = Version
      /\ pending'.edit = edit
      /\ pending' = [writer |-> pending'.writer, run |-> pending'.run, base |-> pending'.base,
                     again |-> pending'.again, edit |-> pending'.edit]
  BY <1>1
<1> QED
  BY <1>1, <1>2, <1>3, <1>4, <1>5 DEF PendingSound, Version, Writers

LEMMA FillRead ==
    ASSUME Store, NEW t \in Targets \ {Category}, NEW v, Freeze({t}, v)
    PROVE  PendingSound(pending)'
<1> DEFINE edit == [x \in {t} |-> v]
<1>1. /\ pending' = [writer |-> "autofill", run |-> None, base |-> Version, again |-> FALSE,
                     edit |-> edit]
      /\ draft[t] = Empty
      /\ UNCHANGED <<draft, history, kept, column>>
  BY DEF Freeze
<1>2. DOMAIN edit = {t}
  OBVIOUS
<1>3. Version \in Nat
  BY Appended DEF Version, Store
<1> HIDE DEF edit
<1>4. /\ pending'.writer = "autofill" /\ pending'.run = None /\ pending'.base = Version
      /\ pending'.edit = edit
      /\ pending' = [writer |-> pending'.writer, run |-> pending'.run, base |-> pending'.base,
                     again |-> pending'.again, edit |-> pending'.edit]
  BY <1>1
<1> QED
  BY <1>1, <1>2, <1>3, <1>4 DEF PendingSound, Version, Writers

LEMMA FillAgain ==
    ASSUME Store, pending # None, PendingSound(pending), Recheck
    PROVE  PendingSound(pending)'
<1> DEFINE edit == [t \in StillEmpty(pending.edit) |-> pending.edit[t]]
<1>1. /\ pending' = [pending EXCEPT !.base = Version, !.again = TRUE, !.edit = edit]
      /\ pending.writer = "autofill"
      /\ UNCHANGED <<draft, history, kept, column>>
  BY DEF Recheck
<1>2. /\ DOMAIN edit = StillEmpty(pending.edit)
      /\ DOMAIN edit \subseteq DOMAIN pending.edit
      /\ \A t \in DOMAIN edit : draft[t] = Empty
  BY DEF StillEmpty
<1>3. Version \in Nat
  BY Appended DEF Version, Store
<1> HIDE DEF edit
<1>4. /\ pending = [writer |-> pending.writer, run |-> pending.run, base |-> pending.base,
                    again |-> pending.again, edit |-> pending.edit]
      /\ pending.run = None /\ DOMAIN pending.edit \subseteq Targets
      /\ Category \notin DOMAIN pending.edit
  BY <1>1 DEF PendingSound
<1>5. pending' = [writer |-> "autofill", run |-> None, base |-> Version, again |-> TRUE,
                  edit |-> edit]
  BY <1>1, <1>4
<1>6. /\ pending'.writer = "autofill" /\ pending'.run = None /\ pending'.base = Version
      /\ pending'.edit = edit
      /\ pending' = [writer |-> pending'.writer, run |-> pending'.run, base |-> pending'.base,
                     again |-> pending'.again, edit |-> pending'.edit]
  BY <1>5
<1> QED
  BY <1>1, <1>2, <1>3, <1>4, <1>6 DEF PendingSound, Version, Writers

\* The end of a chain drops rows of runs, and none of people.
LEMMA RetentionKeepsPeople ==
    ASSUME Store, NEW r, Finalize(r)
    PROVE  Store'
<1>1. /\ kept' = {b \in kept : \A q \in Dropped(r) : ~OfRun(history, b, q)}
      /\ UNCHANGED <<draft, history, column>>
  BY DEF Finalize
<1>2. \A b \in kept : ByPerson(history, b) => b \in kept'
  BY <1>1 DEF ByPerson, OfRun, PersonOrigins, RunOrigins
<1>3. kept' \subseteq kept
  BY <1>1
<1>4. /\ \A b : ByPerson(history, b)' = ByPerson(history, b)
      /\ \A b : CategoryRow(history, b)' = CategoryRow(history, b)
      /\ \A b : NewerOfPeople(b)' = NewerOfPeople(b)
  BY <1>1 DEF ByPerson, CategoryRow, NewerOfPeople
<1>5. CategoryRowKept'
  <2> SUFFICES ASSUME \E b \in DOMAIN history : CategoryRow(history, b)
               PROVE  \E b \in kept' : /\ CategoryRow(history, b)
                                       /\ \A c \in kept' : CategoryRow(history, c) => c <= b
    BY <1>1, <1>4 DEF CategoryRowKept
  <2>1. PICK b \in kept : /\ CategoryRow(history, b)
                          /\ \A c \in kept : CategoryRow(history, c) => c <= b
    BY DEF Store, CategoryRowKept
  <2>2. b \in kept'
    BY <1>2, <2>1 DEF CategoryRow
  <2> QED
    BY <1>3, <2>1, <2>2
<1>6. PersonRowKept'
  BY <1>1, <1>2, <1>4 DEF Store, PersonRowKept
<1> QED
  BY <1>1, <1>3, <1>5, <1>6 DEF Store, IsSeq, InColumn, ByPerson

\* What is committed of a prepared write keeps the store sound.
LEMMA PendingCommitted ==
    ASSUME Store, CommitPending
    PROVE  Store'
<1>1. /\ Commit(OriginOf(pending.writer), pending.run, pending.edit)
      /\ column' = column
  BY DEF CommitPending
<1>2. OriginOf(pending.writer) \notin PersonOrigins
  BY DEF OriginOf, PersonOrigins
<1>3. column = None \/ column \subseteq Targets
  BY DEF Store
<1> QED
  BY <1>1, <1>2, <1>3, StoreKept

\* The strengthened invariant is kept by every step.
LEMMA StepKeeps ==
    IInv /\ [Next]_vars => IInv'
<1> SUFFICES ASSUME IInv, [Next]_vars PROVE IInv'
  OBVIOUS
<1> USE DEF chain
<1>0. Store
  BY DEF IInv
<1>1. ASSUME NEW t \in Targets, NEW v \in Values, Edit(t, v) PROVE IInv'
  <2>1. PICK S \in Scopes(t) : Apply("human", None, t, S, v)
    BY <1>1 DEF Edit
  <2>2. UNCHANGED <<base, pending>>
    BY <1>1 DEF Edit
  <2>3. "human" \in PersonOrigins
    BY DEF PersonOrigins
  <2>4. Store'
    BY <1>0, <2>1, <2>3, PersonCommand
  <2>5. Commit("human", None, [x \in S |-> v])
    BY <2>1 DEF Apply
  <2> QED
    BY <1>0, <2>2, <2>4, <2>5, OutOfDate DEF IInv
<1>2. ASSUME NEW r \in Runs, UndoRun(r) PROVE IInv'
  <2>1. Store'
    BY <1>0, <1>2, UndoCommand
  <2>2. /\ Commit("undo", r, [t \in Restored(r) |-> FirstWas(r, t)])
        /\ UNCHANGED <<base, pending>>
    BY <1>2 DEF UndoRun
  <2> QED
    BY <1>0, <2>1, <2>2, OutOfDate DEF IInv
<1>3. ASSUME NEW origin \in MachineOrigins, NEW r, NEW t, NEW S, NEW v,
             Apply(origin, r, t, S, v), UNCHANGED <<base, pending>>
      PROVE  IInv'
  <2>1. Store'
    BY <1>0, <1>3, MachineCommand
  <2>2. Commit(origin, r, [x \in S |-> v])
    BY <1>3 DEF Apply
  <2> QED
    BY <1>0, <1>3, <2>1, <2>2, OutOfDate DEF IInv
<1>4. ASSUME NEW r \in Runs, NEW doc \in Documents, ReadForAdoption(r, doc) PROVE IInv'
  <2>1. UNCHANGED <<draft, history, kept, column>>
    BY <1>4 DEF ReadForAdoption
  <2> QED
    BY <1>0, <1>4, <2>1, AdoptionRead, Untouched DEF IInv
<1>5. ASSUME NEW doc \in Documents, ReadForDirect(doc) PROVE IInv'
  <2>1. UNCHANGED <<draft, history, kept, column>>
    BY <1>5 DEF ReadForDirect
  <2> QED
    BY <1>0, <1>5, <2>1, DirectRead, Untouched DEF IInv
<1>6. ASSUME NEW t \in Targets \ {Category}, NEW v, Freeze({t}, v) PROVE IInv'
  <2>1. UNCHANGED <<draft, history, kept, column>>
    BY <1>6 DEF Freeze
  <2> QED
    BY <1>0, <1>6, <2>1, FillRead, Untouched DEF IInv
<1>7. ASSUME CommitPending PROVE IInv'
  <2>1. Store' /\ pending' = None
    BY <1>0, <1>7, PendingCommitted DEF CommitPending
  <2> QED
    BY <2>1 DEF IInv
<1>8. ASSUME Recheck PROVE IInv'
  <2>1. UNCHANGED <<draft, history, kept, column>> /\ pending # None
    BY <1>8 DEF Recheck
  <2>2. PendingSound(pending)'
    BY <1>0, <1>8, <2>1, FillAgain DEF IInv
  <2> QED
    BY <2>1, <2>2, Untouched DEF IInv
<1>9. ASSUME GiveUp \/ Crash PROVE IInv'
  <2>1. UNCHANGED <<draft, history, kept, column>> /\ pending' = None
    BY <1>9 DEF GiveUp, Crash
  <2> QED
    BY <2>1, Untouched DEF IInv
<1>10. ASSUME NEW r \in Runs, Finalize(r) PROVE IInv'
  <2>1. Store' /\ pending' = None
    BY <1>0, <1>10, RetentionKeepsPeople DEF Finalize
  <2> QED
    BY <2>1 DEF IInv
<1>11. ASSUME NEW r \in Runs, Start(r) \/ Summarize(r) PROVE IInv'
  <2>1. UNCHANGED <<draft, history, kept, column>> /\ pending' = None
    BY <1>11 DEF Start, Summarize
  <2> QED
    BY <2>1, Untouched DEF IInv
<1>12. ASSUME (\E r \in Runs : TakeLock(r)) \/ Cancel \/ UNCHANGED vars PROVE IInv'
  <2>1. UNCHANGED <<draft, history, kept, column, base, pending>>
    BY <1>12 DEF TakeLock, Cancel, vars
  <2> QED
    BY <2>1, Untouched
<1>13. {"cloud_repair", "answer_page_recognition", "listening_audio", "part_backfill"}
         \subseteq MachineOrigins
  BY DEF MachineOrigins, RunOrigins
<1>14. ASSUME NEW r \in Runs, NEW t, NEW v, RepairEdit(r, t, v) PROVE IInv'
  <2>1. PICK S \in Scopes(t) : Apply("cloud_repair", r, t, S, v)
    BY <1>14 DEF RepairEdit
  <2>2. UNCHANGED <<base, pending>>
    BY <1>14 DEF RepairEdit
  <2> QED
    BY <2>1, <2>2, <1>3, <1>13
<1>15. ASSUME NEW r, NEW t, NEW v, AnswerPage(r, t, v) PROVE IInv'
  BY <1>15, <1>3, <1>13 DEF AnswerPage
<1>16. ASSUME NEW t, NEW v, MirrorAudio(t, v) PROVE IInv'
  BY <1>16, <1>3, <1>13 DEF MirrorAudio
<1>17. ASSUME NEW v, Backfill(v) PROVE IInv'
  BY <1>17, <1>3, <1>13 DEF Backfill
<1> QED
  BY <1>1, <1>2, <1>4, <1>5, <1>6, <1>7, <1>8, <1>9, <1>10, <1>11, <1>12, <1>14, <1>15,
     <1>16, <1>17 DEF Next, PersonStep, MachineStep, ChainStep

LEMMA InitSound == Init => IInv
<1> SUFFICES ASSUME Init PROVE IInv
  OBVIOUS
<1>1. /\ history = << >> /\ kept = {} /\ column = None /\ pending = None
      /\ draft = [t \in Targets |-> draft[t]]
  BY DEF Init
<1>2. DOMAIN history = {} /\ IsSeq(history)
  BY <1>1 DEF IsSeq
<1> QED
  BY <1>1, <1>2 DEF IInv, Store, InColumn, CategoryRowKept, PersonRowKept

\* The strengthened invariant: what people set is in the column and in the
\* journal as far as the program relies on it, and a prepared write is sound as
\* long as it is current.
THEOREM Sound == Spec => []IInv
<1>1. Init => IInv
  BY InitSound
<1>2. IInv /\ [Next]_vars => IInv'
  BY StepKeeps
<1> QED
  BY <1>1, <1>2, PTL DEF Spec

-------------------------------------------------------------------------------
\* Who writes, and what each writer leaves alone.
ByPeople ==
    \/ NewRow.origin = "human"
    \/ \E r \in Runs : UndoRun(r) /\ NewRow.origin = "undo" /\ NewRow.run = r

ByProtected ==
    /\ NewRow.origin \in {"cloud_repair", "answer_page_recognition", "listening_audio"}
    /\ NewRow.origin = "cloud_repair" => NewRow.run # None
    /\ \A t \in Protected \cap Targets : draft'[t] = draft[t]

ByPending ==
    /\ CommitPending
    /\ NewRow.origin = OriginOf(pending.writer) /\ NewRow.run = pending.run
    /\ draft' = [t \in Targets |-> IF t \in DOMAIN pending.edit
                                   THEN pending.edit[t] ELSE draft[t]]

ByBackfill == NewRow.origin = "part_backfill" /\ ~HasHumanCategoryEdit

\* A command that enforces protection writes no protected target.
LEMMA EnforcedCommand ==
    ASSUME Store, NEW t \in Targets, NEW v, NEW r,
           NEW origin \in {"cloud_repair", "answer_page_recognition", "listening_audio"},
           Enforces(origin, r), NEW S \in Scopes(t), Apply(origin, r, t, S, v)
    PROVE  ByProtected
<1>1. /\ Commit(origin, r, [x \in S |-> v])
      /\ Footprint[t] \cap Protected = {}
  BY DEF Apply
<1>2. DOMAIN [x \in S |-> v] = S
  OBVIOUS
<1>3. S \cap Protected = {}
  BY <1>1, ScopeInFootprint
<1>4. /\ NewRow.origin = origin /\ NewRow.run = r
      /\ draft' = [x \in Targets |-> IF x \in S THEN [y \in S |-> v][x] ELSE draft[x]]
  BY <1>1, <1>2, Committed DEF NewRow
<1>5. origin = "cloud_repair" => r # None
  BY DEF Enforces
<1> QED
  BY <1>3, <1>4, <1>5 DEF ByProtected

\* Every write is that of a person, of an enforcing command, of a prepared write
\* or of the backfill.
LEMMA WriteKinds ==
    ASSUME IInv, Next, Wrote
    PROVE  ByPeople \/ ByProtected \/ ByPending \/ ByBackfill
<1>0. Store
  BY DEF IInv
<1>1. ASSUME NEW t, NEW v, Edit(t, v) PROVE ByPeople
  <2>1. PICK S : Apply("human", None, t, S, v)
    BY <1>1 DEF Edit
  <2>2. Commit("human", None, [x \in S |-> v])
    BY <2>1 DEF Apply
  <2>3. NewRow.origin = "human"
    BY <1>0, <2>2, Committed DEF NewRow
  <2> QED
    BY <2>3 DEF ByPeople
<1>2. ASSUME NEW r \in Runs, UndoRun(r) PROVE ByPeople
  <2>1. Commit("undo", r, [t \in Restored(r) |-> FirstWas(r, t)])
    BY <1>2 DEF UndoRun
  <2>2. NewRow.origin = "undo" /\ NewRow.run = r
    BY <1>0, <2>1, Committed DEF NewRow
  <2> QED
    BY <1>2, <2>2 DEF ByPeople
<1>3. ASSUME CommitPending PROVE ByPending
  <2>1. Commit(OriginOf(pending.writer), pending.run, pending.edit)
    BY <1>3 DEF CommitPending
  <2> QED
    BY <1>0, <1>3, <2>1, Committed DEF ByPending, NewRow
<1>4. ASSUME NEW r \in Runs, NEW t \in Targets \ {Category}, NEW v, RepairEdit(r, t, v)
      PROVE  ByProtected
  <2>1. PICK S \in Scopes(t) : Apply("cloud_repair", r, t, S, v)
    BY <1>4 DEF RepairEdit
  <2>2. Enforces("cloud_repair", r)
    BY RunAssumption DEF Enforces
  <2> QED
    BY <1>0, <2>1, <2>2, EnforcedCommand
<1>5. ASSUME NEW r, NEW t \in Targets \ {Category}, NEW v, AnswerPage(r, t, v)
      PROVE  ByProtected
  BY <1>0, <1>5, EnforcedCommand DEF AnswerPage, Enforces, Scopes
<1>6. ASSUME NEW t \in Targets \ {Category}, NEW v, MirrorAudio(t, v) PROVE ByProtected
  BY <1>0, <1>6, EnforcedCommand DEF MirrorAudio, Enforces, Scopes
<1>7. ASSUME NEW v, Backfill(v) PROVE ByBackfill
  <2>1. Commit("part_backfill", None, [x \in {Category} |-> v])
    BY <1>7 DEF Backfill, Apply
  <2> QED
    BY <1>0, <1>7, <2>1, Committed DEF ByBackfill, NewRow, Backfill
<1>8. ASSUME UNCHANGED history PROVE FALSE
  BY <1>8 DEF Wrote
<1>9. (\E r \in Runs, doc \in Documents : ReadForAdoption(r, doc)) => UNCHANGED history
  BY DEF ReadForAdoption
<1>10. (\E doc \in Documents : ReadForDirect(doc)) => UNCHANGED history
  BY DEF ReadForDirect
<1>11. (\E t \in Targets \ {Category}, v \in Values \ {Empty} : Freeze({t}, v))
         => UNCHANGED history
  BY DEF Freeze
<1>12. Recheck \/ GiveUp \/ Cancel \/ Crash => UNCHANGED history
  BY DEF Recheck, GiveUp, Cancel, Crash
<1>13. (\E r \in Runs : Start(r) \/ TakeLock(r) \/ Summarize(r) \/ Finalize(r))
         => UNCHANGED history
  BY DEF Start, TakeLock, Summarize, Finalize
<1> QED
  BY <1>1, <1>2, <1>3, <1>4, <1>5, <1>6, <1>7, <1>8, <1>9, <1>10, <1>11, <1>12, <1>13
     DEF Next, PersonStep, MachineStep, ChainStep

-------------------------------------------------------------------------------
\* The rules fill empty slots only (apply_patches_with_recheck): a fill is
\* committed on the version on which its slots were seen empty.
THEOREM FillIsSafe == Spec => FillTouchesOnlyEmpty
<1> DEFINE A == Wrote /\ NewRow.origin = "cloud_repair" /\ NewRow.run = None =>
                  \A t \in Targets : draft'[t] # draft[t] => draft[t] = Empty
<1>1. IInv /\ [Next]_vars => [A]_vars
  <2> SUFFICES ASSUME IInv, Next, Wrote, NewRow.origin = "cloud_repair", NewRow.run = None,
                      NEW t \in Targets, draft'[t] # draft[t]
               PROVE  draft[t] = Empty
    OBVIOUS
  <2>1. ~ByPeople /\ ~ByProtected /\ ~ByBackfill
    BY DEF ByPeople, ByProtected, ByBackfill, PersonOrigins
  <2>2. ByPending
    BY <2>1, WriteKinds
  <2>3. pending # None /\ pending.base = Version /\ OriginOf(pending.writer) = "cloud_repair"
    BY <2>2 DEF ByPending, CommitPending, Current
  <2>4. pending.writer = "autofill"
    BY <2>3 DEF OriginOf
  <2>5. \A x \in DOMAIN pending.edit : draft[x] = Empty
    BY <2>3, <2>4 DEF IInv, PendingSound
  <2>6. t \in DOMAIN pending.edit
    BY <2>2 DEF ByPending
  <2> QED
    BY <2>5, <2>6
<1> QED
  BY <1>1, Sound, PTL DEF Spec, FillTouchesOnlyEmpty

\* The category a person chose is changed by people only (human_protected_targets,
\* write_direct_canonical_inner, prune_journal): the column protects it from
\* repairs and direct documents, the kept category command from the backfill.
THEOREM CategoryIsSafe == Spec => CategoryKept
<1> DEFINE A == Wrote /\ (\E b \in DOMAIN history : CategoryRow(history, b))
                  /\ draft'[Category] # draft[Category] => NewRow.origin \in PersonOrigins
<1>1. IInv /\ [Next]_vars => [A]_vars
  <2> SUFFICES ASSUME IInv, Next, Wrote, NEW b \in DOMAIN history, CategoryRow(history, b),
                      draft'[Category] # draft[Category]
               PROVE  ByPeople
    BY DEF ByPeople, PersonOrigins
  <2>1. column # None /\ Category \in column /\ Category \in Targets
    BY TargetAssumption DEF IInv, Store, InColumn, CategoryRow
  <2>2. ~ByProtected
    BY <2>1 DEF ByProtected, Protected
  <2>3. ~ByBackfill
    BY DEF ByBackfill, HasHumanCategoryEdit, IInv, Store, CategoryRowKept
  <2>4. ~ByPending
    <3> SUFFICES ASSUME ByPending PROVE FALSE
      OBVIOUS
    <3>1. pending.base = Version /\ PendingSound(pending)
      BY DEF ByPending, CommitPending, Current, IInv
    <3>2. Category \in DOMAIN pending.edit /\ pending.edit[Category] # draft[Category]
      BY <2>1 DEF ByPending
    <3>3. pending.writer = "direct"
      BY <3>1, <3>2 DEF PendingSound, Writers
    <3> QED
      BY <2>1, <3>1, <3>2, <3>3 DEF PendingSound
  <2> QED
    BY <2>2, <2>3, <2>4, WriteKinds
<1> QED
  BY <1>1, Sound, PTL DEF Spec, CategoryKept

-------------------------------------------------------------------------------
\* Where no draft is older than the column, marks of people are in it.
LEMMA MarksAreInColumn ==
    ASSUME OldMarks \subseteq {{}}
    PROVE  Spec => []MarksInColumn
<1>1. Init => MarksInColumn
  BY DEF Init, MarksInColumn
<1>2. IInv /\ MarksInColumn /\ [Next]_vars => MarksInColumn'
  <2> SUFFICES ASSUME IInv, MarksInColumn, [Next]_vars PROVE MarksInColumn'
    OBVIOUS
  <2>0. Store
    BY DEF IInv
  <2>1. ASSUME NEW t \in Targets, NEW v \in Values, Edit(t, v) PROVE MarksInColumn'
    <3>1. PICK S \in Scopes(t) : Apply("human", None, t, S, v)
      BY <2>1 DEF Edit
    <3>2. "human" \in PersonOrigins
      BY DEF PersonOrigins
    <3>3. marks' \subseteq marks \cup {t}
      BY <3>1, <3>2 DEF Apply
    <3>4. column' # None /\ t \in column' /\ (column # None => column \subseteq column')
      BY <2>0, <3>1, <3>2, PersonCommand
    <3> QED
      BY <3>3, <3>4 DEF MarksInColumn
  <2>2. ASSUME NEW r \in Runs, UndoRun(r) PROVE MarksInColumn'
    BY <2>0, <2>2, UndoCommand DEF UndoRun, MarksInColumn
  <2>3. ASSUME marks' \subseteq marks, column' = column PROVE MarksInColumn'
    BY <2>3 DEF MarksInColumn
  <2>4. ASSUME NEW origin \in MachineOrigins, NEW r, NEW t, NEW S, NEW v,
               Apply(origin, r, t, S, v)
        PROVE  MarksInColumn'
    BY <2>0, <2>3, <2>4, MachineCommand
  <2>5. {"cloud_repair", "answer_page_recognition", "listening_audio", "part_backfill"}
          \subseteq MachineOrigins
    BY DEF MachineOrigins, RunOrigins
  <2>6. ASSUME NEW r \in Runs, NEW t, NEW v, RepairEdit(r, t, v) PROVE MarksInColumn'
    BY <2>4, <2>5, <2>6 DEF RepairEdit
  <2>7. ASSUME NEW r, NEW t, NEW v, AnswerPage(r, t, v) PROVE MarksInColumn'
    BY <2>4, <2>5, <2>7 DEF AnswerPage
  <2>8. ASSUME NEW t, NEW v, MirrorAudio(t, v) \/ Backfill(v) PROVE MarksInColumn'
    BY <2>4, <2>5, <2>8 DEF MirrorAudio, Backfill
  <2>9. ASSUME CommitPending PROVE MarksInColumn'
    BY <2>3, <2>9 DEF CommitPending
  <2>10. ASSUME \/ \E r \in Runs, doc \in Documents : ReadForAdoption(r, doc)
                \/ \E doc \in Documents : ReadForDirect(doc)
                \/ \E t \in Targets \ {Category}, v \in Values \ {Empty} : Freeze({t}, v)
                \/ Recheck \/ GiveUp \/ Cancel \/ Crash \/ UNCHANGED vars
         PROVE  MarksInColumn'
    BY <2>3, <2>10 DEF ReadForAdoption, ReadForDirect, Freeze, Recheck, GiveUp, Cancel, Crash,
                       vars
  <2>11. ASSUME NEW r \in Runs, Start(r) \/ TakeLock(r) \/ Summarize(r) \/ Finalize(r)
         PROVE  MarksInColumn'
    BY <2>3, <2>11 DEF Start, TakeLock, Summarize, Finalize
  <2> QED
    BY <2>1, <2>2, <2>6, <2>7, <2>8, <2>9, <2>10, <2>11
       DEF Next, PersonStep, MachineStep, ChainStep
<1> QED
  BY <1>1, <1>2, Sound, PTL DEF Spec

\* Repairs, answer pages and audio bindings change nothing a person ever set
\* (enforces_protection), unless a draft was marked before the column existed:
\* the column holds it all, and no pruning or undo takes anything out of it.
THEOREM PersonChoiceIsSafe ==
    ASSUME OldMarks \subseteq {{}}
    PROVE  Spec => RepairKeepsPersonChoice
<1> DEFINE A == Wrote /\ Enforces(NewRow.origin, NewRow.run) =>
                  \A t \in PersonSet : draft'[t] = draft[t]
<1>1. IInv /\ MarksInColumn /\ [Next]_vars => [A]_vars
  <2> SUFFICES ASSUME IInv, MarksInColumn, Next, Wrote, Enforces(NewRow.origin, NewRow.run),
                      NEW t \in PersonSet
               PROVE  draft'[t] = draft[t]
    OBVIOUS
  <2>1. t \in Protected \cap Targets
    BY DEF PersonSet, IInv, Store, InColumn, MarksInColumn, Protected
  <2>2. ~ByPeople /\ ~ByBackfill
    BY DEF ByPeople, ByBackfill, PersonOrigins, Enforces
  <2>3. ~ByPending
    <3> SUFFICES ASSUME ByPending PROVE FALSE
      OBVIOUS
    <3>1. pending.writer = "autofill" /\ pending.run # None
      BY DEF ByPending, OriginOf, Enforces
    <3> QED
      BY <3>1 DEF ByPending, CommitPending, IInv, PendingSound
  <2> QED
    BY <2>1, <2>2, <2>3, WriteKinds DEF ByProtected
<1> QED
  BY <1>1, Sound, MarksAreInColumn, PTL DEF Spec, RepairKeepsPersonChoice

-------------------------------------------------------------------------------
\* As long as people wrote no more than the journal keeps, all they wrote since
\* the base of the candidate is in the journal.
LEMMA LateRowsKept ==
    ASSUME Store, base \in Nat, Cardinality(LateRows) <= JournalKept
    PROVE  LateRows \subseteq kept
<1> SUFFICES ASSUME NEW b \in LateRows, b \notin kept PROVE FALSE
  OBVIOUS
<1>1. DOMAIN history = 1..Len(history) /\ Len(history) \in Nat
  BY Appended DEF Store
<1>2. IsFiniteSet(LateRows)
  <2>1. IsFiniteSet(1..Len(history))
    BY <1>1, FS_Interval
  <2> QED
    BY <1>1, <2>1, FS_Subset DEF LateRows
<1>3. b \in DOMAIN history /\ b >= base /\ ByPerson(history, b)
  BY DEF LateRows
<1>4. Cardinality(NewerOfPeople(b)) >= JournalKept
  BY <1>3 DEF Store, PersonRowKept
<1>5. NewerOfPeople(b) \cup {b} \subseteq LateRows /\ b \notin NewerOfPeople(b)
  BY <1>1, <1>3 DEF NewerOfPeople, LateRows
<1>6. /\ IsFiniteSet(NewerOfPeople(b))
      /\ Cardinality(NewerOfPeople(b)) \in Nat
      /\ Cardinality(NewerOfPeople(b) \cup {b}) <= Cardinality(LateRows)
  BY <1>2, <1>5, FS_Subset, FS_CardinalityType
<1>7. Cardinality(NewerOfPeople(b) \cup {b}) = Cardinality(NewerOfPeople(b)) + 1
  BY <1>5, <1>6, FS_AddElement
<1>8. Cardinality(LateRows) \in Nat
  BY <1>2, FS_CardinalityType
<1> QED
  BY <1>4, <1>6, <1>7, <1>8, LimitAssumption

\* The candidate's base is a version.
BaseOK == base \in Nat

\* It stays one: it is set from the version, and reset to 1.
LEMMA BaseIsVersion == Spec => []BaseOK
<1>1. Init => BaseOK
  BY DEF Init, BaseOK
<1>2. IInv /\ BaseOK /\ [Next]_vars => BaseOK'
  <2> SUFFICES ASSUME IInv, base \in Nat, [Next]_vars PROVE base' \in Nat
    BY DEF BaseOK
  <2>1. ASSUME NEW r \in Runs, Start(r) PROVE base' \in Nat
    BY <2>1, Appended DEF Start, Version, IInv, Store
  <2>2. ASSUME NEW r \in Runs, Finalize(r) PROVE base' = 1
    BY <2>2 DEF Finalize, EndChain
  <2>3. ASSUME Crash PROVE base' = 1
    BY <2>3 DEF Crash, EndChain
  <2>4. ASSUME NEW r \in Runs, TakeLock(r) \/ Summarize(r) PROVE base' = base
    BY <2>4 DEF TakeLock, Summarize
  <2>5. ASSUME PersonStep PROVE base' = base
    BY <2>5 DEF PersonStep, Edit, UndoRun, chain
  <2>6. ASSUME MachineStep PROVE base' = base
    BY <2>6 DEF MachineStep, ReadForAdoption, ReadForDirect, Freeze, CommitPending, Recheck,
                GiveUp, RepairEdit, AnswerPage, MirrorAudio, Backfill, chain
  <2>7. ASSUME Cancel \/ UNCHANGED vars PROVE base' = base
    BY <2>7 DEF Cancel, vars
  <2> QED
    BY <2>1, <2>2, <2>3, <2>4, <2>5, <2>6, <2>7 DEF Next, ChainStep
<1> QED
  BY <1>1, <1>2, Sound, PTL DEF Spec

\* The adoption of a candidate keeps what people edited since its base
\* (merge_human_edits, human_editor_commands_since): what was committed before its
\* read it put back, and nothing was committed after it.
THEOREM LateEditsAreSafe == Spec => LateEditsKept
<1> DEFINE A == Wrote /\ NewRow.origin = "cloud_candidate_adoption" /\ NewRow.run # None
                  /\ Cardinality(LateRows) <= JournalKept =>
                  \A b \in LateRows :
                    \A t \in DOMAIN history[b].now : draft'[t] = draft[t]
<1>1. IInv /\ BaseOK /\ [Next]_vars => [A]_vars
  <2> SUFFICES ASSUME IInv, base \in Nat, Next, Wrote,
                      NewRow.origin = "cloud_candidate_adoption", NewRow.run # None,
                      Cardinality(LateRows) <= JournalKept,
                      NEW b \in LateRows, NEW t \in DOMAIN history[b].now
               PROVE  draft'[t] = draft[t]
    BY DEF BaseOK
  <2>1. ~ByPeople /\ ~ByProtected /\ ~ByBackfill
    BY DEF ByPeople, ByProtected, ByBackfill, PersonOrigins
  <2>2. ByPending
    BY <2>1, WriteKinds
  <2>3. pending.base = Version /\ PendingSound(pending) /\ pending.run # None
    BY <2>2 DEF ByPending, CommitPending, Current, IInv
  <2>4. pending.writer = "adoption"
    BY <2>3 DEF PendingSound
  <2>5. b \in kept /\ b >= base /\ ByPerson(history, b) /\ b \in DOMAIN history
    BY LateRowsKept DEF IInv, LateRows
  <2>6. t \in Targets
    BY <2>5 DEF IInv, Store, InColumn
  <2>7. t \in DOMAIN pending.edit => pending.edit[t] = draft[t]
    BY <2>3, <2>4, <2>5 DEF PendingSound
  <2> QED
    BY <2>2, <2>6, <2>7 DEF ByPending
<1> QED
  BY <1>1, Sound, BaseIsVersion, PTL DEF Spec, LateEditsKept
===============================================================================
