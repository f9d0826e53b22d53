--------------------------- MODULE CloudUndo_proofs ---------------------------
(* Proofs about the undo of cloud runs in EditTransactions, for any targets,   *)
(* values and runs.                                                            *)
(*                                                                             *)
(* Undo and retention only see the journal, from which rows are dropped. They  *)
(* are right because a run's rows are dropped together and never while it may  *)
(* still write, because only one run writes at a time, so that the rows of two *)
(* runs do not interleave, and because what takes the place of a run is an     *)
(* effective row that nothing takes out of the history.                        *)
(*                                                                             *)
(* The last part proves the types of EditTransactions, for which the rows that *)
(* pruning leaves are counted.                                                 *)
EXTENDS EditTransactions_proofs, WellFoundedInduction

\* All that a run ever wrote
RowsOf(r) == {b \in DOMAIN history : OfRun(history, b, r)}

AllKept(r) == RowsOf(r) \subseteq kept

\* A row that retention lets take the place of what was written before it
TakesPlace(c) == /\ c \in DOMAIN history /\ Effective(history[c])
                 /\ history[c].run # None /\ history[c].origin \in RunOrigins

\* The rows of r are gone, and there was a reason.
Superseded(r) ==
    /\ RowsOf(r) \cap kept = {}
    /\ \/ \A b \in RowsOf(r) : ~Effective(history[b])
       \/ \E c \in DOMAIN history : TakesPlace(c) /\ \A b \in RowsOf(r) : b < c

Before(p, q) == \A b \in RowsOf(p), c \in RowsOf(q) : b < c

RunsInv ==
    /\ phase = [r \in Runs |-> phase[r]]
    /\ active # None => active \in Runs /\ AllKept(active) /\ phase[active] # "idle"
    /\ \A r \in Runs : phase[r] = "idle" => RowsOf(r) = {}
    /\ \A r \in Runs : AllKept(r) \/ Superseded(r)
    /\ active # None => \A r \in Runs \ {active} : Before(r, active)
    /\ \A p, q \in Runs : p = q \/ Before(p, q) \/ Before(q, p)
    /\ pending # None /\ pending.run # None => pending.run = active

-------------------------------------------------------------------------------
\* A set of numbers has a least element.
LEMMA LeastOf ==
    ASSUME NEW S \in SUBSET Nat, S # {}
    PROVE  \E x \in S : \A y \in S : x <= y
<1> DEFINE R == OpToRel(<, Nat)
<1>1. PICK x \in S : \A y \in S : ~(<<y, x>> \in R)
  <2>1. IsWellFoundedOn(R, Nat)
    BY NatLessThanWellFounded
  <2> HIDE DEF R
  <2> QED
    BY <2>1, WFMin
<1>2. \A y \in S : ~(y < x)
  BY <1>1 DEF OpToRel
<1> QED
  BY <1>2

\* A bounded one has a greatest.
LEMMA GreatestOf ==
    ASSUME NEW S \in SUBSET Nat, S # {}, NEW n \in Nat, \A x \in S : x <= n
    PROVE  \E x \in S : \A y \in S : y <= x
<1> DEFINE T == {n - x : x \in S}
<1>1. T \in SUBSET Nat /\ T # {}
  <2>1. \A x \in S : n - x \in Nat
    OBVIOUS
  <2> QED
    BY <2>1
<1> HIDE DEF T
<1>2. PICK m \in T : \A y \in T : m <= y
  BY <1>1, LeastOf
<1>3. PICK x \in S : m = n - x
  BY DEF T
<1>4. \A y \in S : n - y \in T
  BY DEF T
<1> QED
  BY <1>2, <1>3, <1>4

-------------------------------------------------------------------------------
\* What a write means for the rows of runs: only the active run gets a row.
LEMMA WriteRows ==
    ASSUME Store, NEW origin, NEW s, NEW edit, Commit(origin, s, edit),
           origin \in RunOrigins /\ s \in Runs => s = active
    PROVE  /\ Version \in Nat /\ DOMAIN history = 1..Len(history) /\ Len(history) \in Nat
           /\ DOMAIN history \subseteq DOMAIN history'
           /\ \A b \in DOMAIN history : b < Version /\ history'[b] = history[b]
           /\ \A r \in Runs : RowsOf(r) \subseteq RowsOf(r)'
           /\ \A r \in Runs : r # active => RowsOf(r)' = RowsOf(r)
           /\ \A r \in Runs : RowsOf(r)' \subseteq RowsOf(r) \cup {Version}
           /\ \A r \in Runs : Version \in RowsOf(r)' => Version \in kept'
           /\ \A r \in Runs : RowsOf(r) \cap kept' = RowsOf(r) \cap kept
           /\ \A c : TakesPlace(c) => TakesPlace(c)'
<1>1. /\ Len(history) \in Nat
      /\ DOMAIN history = 1..Len(history) /\ DOMAIN history' = 1..Version
      /\ \A b \in DOMAIN history : history'[b] = history[b]
      /\ history'[Version].origin = origin /\ history'[Version].run = s
      /\ kept' = Prune(history', kept \cup {Version})
  BY Committed
<1>2. /\ DOMAIN history' = DOMAIN history \cup {Version} /\ Version \in Nat
      /\ \A b \in DOMAIN history : b < Version
  BY <1>1 DEF Version
<1>3. \A r \in Runs, b \in DOMAIN history : OfRun(history', b, r) <=> OfRun(history, b, r)
  BY <1>1 DEF OfRun
<1>4. \A r \in Runs : OfRun(history', Version, r) => r = active
  BY <1>1 DEF OfRun
<1>5. \A b, r : OfRun(history', b, r) => ~ByPerson(history', b)
  BY DEF OfRun, ByPerson, RunOrigins, PersonOrigins
<1>6. \A r, b : OfRun(history', b, r) => (b \in kept' <=> b \in kept \cup {Version})
  BY <1>1, <1>5 DEF Prune
<1>7. Version \notin DOMAIN history
  BY <1>2
<1>8. \A r \in Runs : /\ RowsOf(r) \subseteq RowsOf(r)'
                      /\ r # active => RowsOf(r)' = RowsOf(r)
                      /\ RowsOf(r)' \subseteq RowsOf(r) \cup {Version}
                      /\ (Version \in RowsOf(r)' => Version \in kept')
  BY <1>2, <1>3, <1>4, <1>6 DEF RowsOf
<1>9. \A r \in Runs : RowsOf(r) \cap kept' = RowsOf(r) \cap kept
  BY <1>3, <1>6, <1>7 DEF RowsOf
<1>10. \A c : TakesPlace(c) => TakesPlace(c)'
  BY <1>1, <1>2 DEF TakesPlace, Effective, Changed
<1> QED
  BY <1>1, <1>2, <1>8, <1>9, <1>10

LEMMA WriteKeepsRuns ==
    ASSUME IInv, RunsInv, NEW origin, NEW s, NEW edit, Commit(origin, s, edit),
           origin \in RunOrigins /\ s \in Runs => s = active,
           UNCHANGED <<phase, active>>,
           pending' = pending \/ pending' = None
    PROVE  RunsInv'
<1>1. /\ Version \in Nat /\ DOMAIN history = 1..Len(history) /\ Len(history) \in Nat
      /\ DOMAIN history \subseteq DOMAIN history'
      /\ \A b \in DOMAIN history : b < Version /\ history'[b] = history[b]
      /\ \A r \in Runs : RowsOf(r) \subseteq RowsOf(r)'
      /\ \A r \in Runs : r # active => RowsOf(r)' = RowsOf(r)
      /\ \A r \in Runs : RowsOf(r)' \subseteq RowsOf(r) \cup {Version}
      /\ \A r \in Runs : Version \in RowsOf(r)' => Version \in kept'
      /\ \A r \in Runs : RowsOf(r) \cap kept' = RowsOf(r) \cap kept
      /\ \A c : TakesPlace(c) => TakesPlace(c)'
  BY WriteRows DEF IInv
<1>2. \A r \in Runs : RowsOf(r) \subseteq DOMAIN history
  BY DEF RowsOf
<1>3. \A r \in Runs : AllKept(r) => AllKept(r)'
  BY <1>1 DEF AllKept
<1>4. \A r \in Runs : r # active /\ Superseded(r) => Superseded(r)'
  BY <1>1, <1>2 DEF Superseded, Effective, Changed
<1>5. \A r \in Runs : AllKept(r)' \/ Superseded(r)'
  BY <1>3, <1>4, RunAssumption DEF RunsInv
<1>6. \A p, q \in Runs : p # active /\ Before(p, q) => Before(p, q)'
  <2> SUFFICES ASSUME NEW p \in Runs, NEW q \in Runs, p # active, Before(p, q),
                      NEW b \in RowsOf(p)', NEW c \in RowsOf(q)'
               PROVE  b < c
    BY DEF Before
  <2>1. b \in RowsOf(p) /\ b < Version
    BY <1>1, <1>2
  <2> QED
    BY <1>1, <2>1 DEF Before
<1>7. \A p, q \in Runs : p = q \/ Before(p, q)' \/ Before(q, p)'
  <2> SUFFICES ASSUME NEW p \in Runs, NEW q \in Runs, p # q
               PROVE  Before(p, q)' \/ Before(q, p)'
    OBVIOUS
  <2>1. active \in Runs => \A r \in Runs \ {active} : Before(r, active)
    BY RunAssumption DEF RunsInv
  <2>2. Before(p, q) \/ Before(q, p)
    BY DEF RunsInv
  <2> QED
    BY <1>6, <2>1, <2>2
<1>8. \A r \in Runs : phase[r] = "idle" => RowsOf(r)' = {}
  <2>1. \A r \in Runs : phase[r] = "idle" => r # active /\ RowsOf(r) = {}
    BY RunAssumption DEF RunsInv
  <2> QED
    BY <1>1, <2>1
<1> QED
  BY <1>3, <1>5, <1>6, <1>7, <1>8 DEF RunsInv

\* The journal read where it did not change
LEMMA SameRows ==
    ASSUME UNCHANGED <<history, kept>>
    PROVE  /\ \A r : RowsOf(r)' = RowsOf(r)
           /\ \A r : AllKept(r)' = AllKept(r)
           /\ \A r : Superseded(r)' = Superseded(r)
           /\ \A p, q : Before(p, q)' = Before(p, q)
<1>1. \A r : RowsOf(r)' = RowsOf(r)
  BY DEF RowsOf, OfRun
<1>2. \A r : AllKept(r)' = AllKept(r)
  BY Zenon, <1>1 DEF AllKept
<1>3. \A r : Superseded(r)' = Superseded(r)
  BY Zenon, <1>1 DEF Superseded, TakesPlace, Effective, Changed
<1>4. \A p, q : Before(p, q)' = Before(p, q)
  BY Zenon, <1>1 DEF Before
<1> QED
  BY <1>1, <1>2, <1>3, <1>4

\* A chain goes on, or a write is prepared for the run that is going on.
LEMMA ChainGoesOn ==
    ASSUME RunsInv, UNCHANGED <<history, kept, active>>,
           phase' = [r \in Runs |-> phase'[r]],
           \A r \in Runs : phase'[r] = phase[r] \/ (phase'[r] # "idle" /\ r = active),
           pending' # None /\ pending'.run # None => pending'.run = active
    PROVE  RunsInv'
<1>1. /\ \A r : RowsOf(r)' = RowsOf(r)
      /\ \A r : AllKept(r)' = AllKept(r)
      /\ \A r : Superseded(r)' = Superseded(r)
      /\ \A p, q : Before(p, q)' = Before(p, q)
  BY SameRows
<1> QED
  BY <1>1 DEF RunsInv

\* A run that starts has written nothing.
LEMMA RunStarts ==
    ASSUME RunsInv, NEW s \in Runs, Start(s)
    PROVE  RunsInv'
<1>1. /\ phase[s] = "idle" /\ phase' = [phase EXCEPT ![s] = "frozen"]
      /\ active' = s /\ pending' = pending /\ pending = None
      /\ UNCHANGED <<history, kept>>
  BY DEF Start
<1>2. /\ \A r : RowsOf(r)' = RowsOf(r)
      /\ \A r : AllKept(r)' = AllKept(r)
      /\ \A r : Superseded(r)' = Superseded(r)
      /\ \A p, q : Before(p, q)' = Before(p, q)
  BY <1>1, SameRows
<1>3. RowsOf(s) = {}
  BY <1>1 DEF RunsInv
<1>4. AllKept(s) /\ \A r \in Runs : Before(r, s)
  BY <1>3 DEF AllKept, Before
<1>5. /\ phase' = [r \in Runs |-> phase'[r]] /\ phase'[s] = "frozen"
      /\ \A r \in Runs : phase'[r] = "idle" => phase[r] = "idle"
  BY <1>1 DEF RunsInv
<1> QED
  BY <1>1, <1>2, <1>4, <1>5 DEF RunsInv

\* The end of a chain without its retention
LEMMA RunCrashes ==
    ASSUME RunsInv, Crash
    PROVE  RunsInv'
<1>1. /\ active # None /\ active' = None /\ pending' = None
      /\ phase' = [phase EXCEPT ![active] =
                     IF phase[active] = "summed" THEN "ended" ELSE "lost"]
      /\ UNCHANGED <<history, kept>>
  BY DEF Crash, EndChain
<1>2. /\ \A r : RowsOf(r)' = RowsOf(r)
      /\ \A r : AllKept(r)' = AllKept(r)
      /\ \A r : Superseded(r)' = Superseded(r)
      /\ \A p, q : Before(p, q)' = Before(p, q)
  BY <1>1, SameRows
<1>3. /\ phase' = [r \in Runs |-> phase'[r]]
      /\ \A r \in Runs : phase'[r] = "idle" => phase[r] = "idle"
  BY <1>1 DEF RunsInv
<1> QED
  BY <1>1, <1>2, <1>3 DEF RunsInv

\* Retention drops a run with all its rows, and only for an effective row that came
\* after all of them, or because none of them is effective.
LEMMA RunEnds ==
    ASSUME Store, RunsInv, NEW s \in Runs, Finalize(s)
    PROVE  RunsInv'
<1>1. /\ active = s /\ active # None /\ active' = None /\ pending = None /\ pending' = None
      /\ phase' = [phase EXCEPT ![active] =
                     IF phase[active] = "summed" THEN "ended" ELSE "lost"]
      /\ UNCHANGED history
      /\ kept' = {b \in kept : \A q \in Dropped(s) : ~OfRun(history, b, q)}
  BY RunAssumption DEF Finalize, EndChain
<1>2. /\ phase' = [r \in Runs |-> phase'[r]]
      /\ \A r \in Runs : phase'[r] = "idle" => phase[r] = "idle"
  BY <1>1 DEF RunsInv
<1>3. /\ \A r : RowsOf(r)' = RowsOf(r)
      /\ \A p, q : Before(p, q)' = Before(p, q)
      /\ \A c : TakesPlace(c)' = TakesPlace(c)
      /\ \A b : Effective(history[b])' = Effective(history[b])
  <2>1. \A r : RowsOf(r)' = RowsOf(r)
    BY <1>1 DEF RowsOf, OfRun
  <2>2. \A p, q : Before(p, q)' = Before(p, q)
    BY Zenon, <2>1 DEF Before
  <2>3. \A b : Effective(history[b])' = Effective(history[b])
    BY Zenon, <1>1 DEF Effective, Changed
  <2>4. \A c : TakesPlace(c)' = TakesPlace(c)
    BY Zenon, <1>1, <2>3 DEF TakesPlace
  <2> QED
    BY <2>1, <2>2, <2>3, <2>4
<1>4. DOMAIN history = 1..Len(history) /\ Len(history) \in Nat /\ kept \subseteq DOMAIN history
  BY Appended DEF Store
<1>5. ASSUME NEW r \in Runs, r \notin Dropped(s), AllKept(r)
      PROVE  AllKept(r)'
  <2>1. \A b \in RowsOf(r) : \A q \in Dropped(s) : ~OfRun(history, b, q)
    BY <1>5 DEF RowsOf, OfRun
  <2> QED
    BY <1>1, <1>3, <1>5, <2>1 DEF AllKept
<1>6. ASSUME NEW r \in Runs, Superseded(r)
      PROVE  Superseded(r)'
  <2>1. kept' \subseteq kept
    BY <1>1
  <2>2. RowsOf(r)' \cap kept' = {}
    BY <1>3, <1>6, <2>1 DEF Superseded
  <2>3. DOMAIN history' = DOMAIN history
    BY <1>1
  <2> QED
    BY <1>3, <1>6, <2>2, <2>3 DEF Superseded
<1>7. ASSUME NEW r \in Runs, r \in Dropped(s), AllKept(r)
      PROVE  Superseded(r)'
  <2>1. \A b \in RowsOf(r) : b \notin kept'
    BY <1>1, <1>7 DEF RowsOf
  <2>2. RunRows(r) = RowsOf(r)
    BY <1>4, <1>7 DEF RunRows, AllKept, RowsOf
  <2>3. CASE ~HasEffective(r)
    <3>1. \A b \in RowsOf(r) : ~Effective(history[b])
      BY <2>2, <2>3 DEF HasEffective
    <3> QED
      BY <1>3, <2>1, <3>1 DEF Superseded
  <2>4. CASE \E p \in Runs : HasEffective(p) /\ Newer(p, r)
    <3>1. PICK p \in Runs : HasEffective(p) /\ Newer(p, r)
      BY <2>4
    <3>2. PICK e \in RunRows(p) : Effective(history[e])
      BY <3>1 DEF HasEffective
    <3>3. PICK b \in RunRows(p) : \A c \in RunRows(r) : c < b
      BY <3>1 DEF Newer
    <3>4. RunRows(p) \subseteq RowsOf(p) /\ RunRows(p) \subseteq 1..Len(history)
      BY <1>4 DEF RunRows, RowsOf
    <3>5. p # r
      <4> SUFFICES ASSUME p = r PROVE FALSE
        OBVIOUS
      <4>1. b < b /\ b \in Nat
        BY <1>4, <3>3, <3>4
      <4> QED
        BY <4>1
    <3>6. \A c \in RowsOf(r) : c < e
      <4> SUFFICES ASSUME NEW c \in RowsOf(r) PROVE c < e
        OBVIOUS
      <4>1. c < b /\ b \in Nat /\ c \in Nat
        BY <1>4, <2>2, <3>3, <3>4 DEF RowsOf
      <4>2. ~Before(p, r)
        BY <3>3, <3>4, <4>1 DEF Before
      <4>3. Before(r, p)
        BY <3>5, <4>2 DEF RunsInv
      <4> QED
        BY <3>2, <3>4, <4>3 DEF Before
    <3>7. TakesPlace(e) /\ e \in DOMAIN history
      BY <3>2, <3>4, RunAssumption DEF TakesPlace, RowsOf, OfRun
    <3>8. DOMAIN history' = DOMAIN history
      BY <1>1
    <3> QED
      BY <1>3, <2>1, <3>6, <3>7, <3>8 DEF Superseded
  <2> QED
    BY <1>7, <2>3, <2>4 DEF Dropped
<1>8. \A r \in Runs : AllKept(r)' \/ Superseded(r)'
  BY <1>5, <1>6, <1>7 DEF RunsInv
<1> QED
  BY <1>1, <1>2, <1>3, <1>8 DEF RunsInv
LEMMA RunsStep ==
    IInv /\ RunsInv /\ [Next]_vars => RunsInv'
<1> SUFFICES ASSUME IInv, RunsInv, [Next]_vars PROVE RunsInv'
  OBVIOUS
<1> USE DEF chain
<1>0. Store /\ phase = [r \in Runs |-> phase[r]]
  BY DEF IInv, RunsInv
<1>1. ASSUME NEW t, NEW v, Edit(t, v) PROVE RunsInv'
  <2>1. PICK S : Apply("human", None, t, S, v)
    BY <1>1 DEF Edit
  <2>2. /\ Commit("human", None, [x \in S |-> v])
        /\ UNCHANGED <<phase, active, pending>>
    BY <1>1, <2>1 DEF Edit, Apply
  <2> QED
    BY <2>2, WriteKeepsRuns, RunAssumption
<1>2. ASSUME NEW r, UndoRun(r) PROVE RunsInv'
  <2>1. /\ Commit("undo", r, [t \in Restored(r) |-> FirstWas(r, t)])
        /\ UNCHANGED <<phase, active, pending>>
    BY <1>2 DEF UndoRun
  <2>2. "undo" \notin RunOrigins
    BY DEF RunOrigins
  <2> QED
    BY <2>1, <2>2, WriteKeepsRuns
<1>3. ASSUME CommitPending PROVE RunsInv'
  <2>1. /\ Commit(OriginOf(pending.writer), pending.run, pending.edit)
        /\ pending # None /\ pending' = None /\ UNCHANGED <<phase, active>>
    BY <1>3 DEF CommitPending
  <2>2. pending.run \in Runs => pending.run = active
    BY <2>1, RunAssumption DEF RunsInv
  <2> QED
    BY <2>1, <2>2, WriteKeepsRuns
<1>4. ASSUME NEW r \in Runs, NEW t, NEW v, RepairEdit(r, t, v) PROVE RunsInv'
  <2>1. PICK S : Apply("cloud_repair", r, t, S, v)
    BY <1>4 DEF RepairEdit
  <2>2. /\ Commit("cloud_repair", r, [x \in S |-> v])
        /\ active = r /\ UNCHANGED <<phase, active, pending>>
    BY <1>4, <2>1 DEF RepairEdit, Apply
  <2> QED
    BY <2>2, WriteKeepsRuns
<1>5. ASSUME NEW r \in Runs \cup {None}, NEW t, NEW v, AnswerPage(r, t, v) PROVE RunsInv'
  <2>1. /\ Commit("answer_page_recognition", r, [x \in {t} |-> v])
        /\ r # None => active = r
        /\ UNCHANGED <<phase, active, pending>>
    BY <1>5 DEF AnswerPage, Apply
  <2> QED
    BY <2>1, WriteKeepsRuns, RunAssumption
<1>6. ASSUME NEW t, NEW v, MirrorAudio(t, v) PROVE RunsInv'
  <2>1. /\ Commit("listening_audio", None, [x \in {t} |-> v])
        /\ UNCHANGED <<phase, active, pending>>
    BY <1>6 DEF MirrorAudio, Apply
  <2> QED
    BY <2>1, WriteKeepsRuns, RunAssumption
<1>7. ASSUME NEW v, Backfill(v) PROVE RunsInv'
  <2>1. /\ Commit("part_backfill", None, [x \in {Category} |-> v])
        /\ UNCHANGED <<phase, active, pending>>
    BY <1>7 DEF Backfill, Apply
  <2> QED
    BY <2>1, WriteKeepsRuns, RunAssumption
<1>8. ASSUME NEW r \in Runs, NEW doc \in Documents, ReadForAdoption(r, doc) PROVE RunsInv'
  <2>1. /\ pending'.run = r /\ active = r /\ UNCHANGED <<history, kept, phase, active>>
    BY <1>8 DEF ReadForAdoption
  <2> QED
    BY <1>0, <2>1, ChainGoesOn
<1>9. ASSUME NEW doc \in Documents, ReadForDirect(doc) PROVE RunsInv'
  <2>1. pending'.run = None /\ UNCHANGED <<history, kept, phase, active>>
    BY <1>9 DEF ReadForDirect
  <2> QED
    BY <1>0, <2>1, ChainGoesOn
<1>10. ASSUME NEW t, NEW v, Freeze({t}, v) PROVE RunsInv'
  <2>1. pending'.run = None /\ UNCHANGED <<history, kept, phase, active>>
    BY <1>10 DEF Freeze
  <2> QED
    BY <1>0, <2>1, ChainGoesOn
<1>11. ASSUME Recheck PROVE RunsInv'
  <2>1. /\ pending # None /\ pending.writer = "autofill"
        /\ UNCHANGED <<history, kept, phase, active>>
        /\ pending' = [pending EXCEPT !.base = Version, !.again = TRUE,
                         !.edit = [t \in StillEmpty(pending.edit) |-> pending.edit[t]]]
    BY <1>11 DEF Recheck
  <2>2. /\ pending = [writer |-> pending.writer, run |-> pending.run, base |-> pending.base,
                      again |-> pending.again, edit |-> pending.edit]
        /\ pending.run = None
    BY <2>1 DEF IInv, PendingSound
  <2>3. pending'.run = None
    BY <2>1, <2>2
  <2> QED
    BY <1>0, <2>1, <2>3, ChainGoesOn
<1>12. ASSUME GiveUp PROVE RunsInv'
  <2>1. pending' = None /\ UNCHANGED <<history, kept, phase, active>>
    BY <1>12 DEF GiveUp
  <2> QED
    BY <1>0, <2>1, ChainGoesOn
<1>13. ASSUME NEW r \in Runs, TakeLock(r) \/ Summarize(r) PROVE RunsInv'
  <2>1. /\ active = r /\ UNCHANGED <<history, kept, active, pending>>
        /\ \/ phase' = [phase EXCEPT ![r] = "working"]
           \/ phase' = [phase EXCEPT ![r] = "summed"]
    BY <1>13 DEF TakeLock, Summarize
  <2>2. /\ phase' = [q \in Runs |-> phase'[q]]
        /\ \A q \in Runs : phase'[q] = phase[q] \/ (phase'[q] # "idle" /\ q = active)
    BY <1>0, <2>1
  <2> QED
    BY <2>1, <2>2, ChainGoesOn DEF RunsInv
<1>14. ASSUME Cancel \/ UNCHANGED vars PROVE RunsInv'
  <2>1. UNCHANGED <<history, kept, phase, active, pending>>
    BY <1>14 DEF Cancel, vars
  <2> QED
    BY <1>0, <2>1, ChainGoesOn DEF RunsInv
<1>15. ASSUME NEW r \in Runs, Start(r) PROVE RunsInv'
  BY <1>15, RunStarts
<1>16. ASSUME NEW r \in Runs, Finalize(r) PROVE RunsInv'
  BY <1>0, <1>16, RunEnds
<1>17. ASSUME Crash PROVE RunsInv'
  BY <1>17, RunCrashes
<1> QED
  BY <1>1, <1>2, <1>3, <1>4, <1>5, <1>6, <1>7, <1>8, <1>9, <1>10, <1>11, <1>12, <1>13,
     <1>14, <1>15, <1>16, <1>17 DEF Next, PersonStep, MachineStep, ChainStep

\* The rows of a run are in the journal together or not at all, those of the
\* running one always, and the rows of two runs do not interleave.
THEOREM RunsAreSound == Spec => []RunsInv
<1>1. Init => RunsInv
  <2> SUFFICES ASSUME Init PROVE RunsInv
    OBVIOUS
  <2>1. /\ history = << >> /\ kept = {} /\ active = None /\ pending = None
        /\ phase = [r \in Runs |-> "idle"]
    BY DEF Init
  <2>2. \A r : RowsOf(r) = {}
    BY <2>1 DEF RowsOf
  <2> QED
    BY <2>1, <2>2 DEF RunsInv, AllKept, Before
<1> QED
  BY <1>1, RunsStep, Sound, PTL DEF Spec

-------------------------------------------------------------------------------
\* The newest run that changed anything keeps its rows (finalize_cloud_run_
\* retention): what would take its place does not exist.
THEOREM NewestRunIsKept == Spec => []NewestRunKept
<1>1. RunsInv => NewestRunKept
  <2> SUFFICES ASSUME RunsInv, NEW r \in Runs, NEW b \in DOMAIN history,
                      OfRun(history, b, r), Effective(history[b]),
                      \A c \in DOMAIN history :
                        c > b /\ history[c].run # None /\ history[c].origin \in RunOrigins
                          => ~Effective(history[c])
               PROVE  AllKept(r)
    BY DEF NewestRunKept, AllKept, RowsOf
  <2>1. b \in RowsOf(r)
    BY DEF RowsOf
  <2>2. \A c \in DOMAIN history : TakesPlace(c) => ~(b < c)
    BY DEF TakesPlace
  <2>3. ~Superseded(r)
    BY <2>1, <2>2 DEF Superseded
  <2> QED
    BY <2>3 DEF RunsInv
<1> QED
  BY <1>1, RunsAreSound, PTL

\* Undo is exact (undo_cloud_repair_run): the journal has all rows of a run it has
\* one of, so the first and the last row of the run that changed a target are
\* those of the whole history.
THEOREM UndoIsSafe == Spec => UndoIsExact
<1> DEFINE A == Wrote /\ NewRow.origin = "undo" /\ NewRow.run # None =>
                  \A t \in Targets : draft'[t] # draft[t] =>
                    \E first, last \in RunChanges(NewRow.run, t) :
                      /\ \A b \in RunChanges(NewRow.run, t) : first <= b /\ b <= last
                      /\ draft[t] = history[last].now[t]
                      /\ draft'[t] = history[first].was[t]
<1>1. IInv /\ RunsInv /\ [Next]_vars => [A]_vars
  <2> SUFFICES ASSUME IInv, RunsInv, Next, Wrote, NewRow.origin = "undo",
                      NEW t \in Targets, draft'[t] # draft[t]
               PROVE  \E first, last \in RunChanges(NewRow.run, t) :
                        /\ \A b \in RunChanges(NewRow.run, t) : first <= b /\ b <= last
                        /\ draft[t] = history[last].now[t]
                        /\ draft'[t] = history[first].was[t]
    OBVIOUS
  <2>1. PICK r \in Runs : UndoRun(r) /\ NewRow.run = r
    <3>1. ~ByProtected /\ ~ByBackfill /\ ~ByPending
      BY DEF ByProtected, ByBackfill, ByPending, OriginOf
    <3> QED
      BY <3>1, WriteKinds DEF ByPeople
  <2> DEFINE edit == [x \in Restored(r) |-> FirstWas(r, x)]
  <2>2. draft' = [x \in Targets |-> IF x \in DOMAIN edit THEN edit[x] ELSE draft[x]]
    BY <2>1 DEF UndoRun, Commit
  <2>3. t \in Restored(r) /\ draft'[t] = FirstWas(r, t)
    BY <2>2
  <2>4. UndoRows(r, t) # {} /\ draft[t] = LastNow(r, t)
    BY <2>3 DEF Restored
  <2>5. UndoRows(r, t) \subseteq RowsOf(r) \cap kept /\ kept \subseteq DOMAIN history
    BY DEF UndoRows, RunRows, RowsOf, IInv, Store
  <2>6. AllKept(r)
    BY <2>4, <2>5 DEF RunsInv, Superseded
  <2>7. UndoRows(r, t) = RunChanges(r, t)
    BY <2>5, <2>6 DEF UndoRows, RunRows, RunChanges, AllKept, RowsOf
  <2> DEFINE U == UndoRows(r, t)
  <2>8. U \in SUBSET Nat /\ Len(history) \in Nat /\ \A b \in U : b <= Len(history)
    BY <2>5, Appended DEF IInv, Store
  <2>9. U # {}
    BY <2>4
  <2> HIDE DEF U
  <2>10. /\ \E b \in U : \A c \in U : b <= c
         /\ \E b \in U : \A c \in U : c <= b
    BY <2>8, <2>9, LeastOf, GreatestOf
  <2> DEFINE first == CHOOSE b \in U : \A c \in U : b <= c
  <2> DEFINE last  == CHOOSE b \in U : \A c \in U : c <= b
  <2>11. /\ first \in U /\ last \in U
         /\ \A b \in U : first <= b /\ b <= last
    BY <2>10
  <2>12. FirstWas(r, t) = history[first].was[t] /\ LastNow(r, t) = history[last].now[t]
    BY DEF FirstWas, LastNow, U
  <2> HIDE DEF first, last
  <2> QED
    BY <2>1, <2>3, <2>4, <2>7, <2>11, <2>12 DEF U
<1> QED
  BY <1>1, Sound, RunsAreSound, PTL DEF Spec, UndoIsExact

-------------------------------------------------------------------------------
\* Of a finite set of numbers, those with fewer than n larger ones in the set
\* are n at most.
LEMMA FewLarger ==
    ASSUME NEW P \in SUBSET Nat, IsFiniteSet(P), NEW n \in Nat,
           NEW R \in SUBSET P, \A b \in R : Cardinality({c \in P : c > b}) < n
    PROVE  IsFiniteSet(R) /\ Cardinality(R) <= n
<1>1. IsFiniteSet(R) /\ Cardinality(R) \in Nat
  BY FS_Subset, FS_CardinalityType
<1>2. CASE R = {}
  BY <1>1, <1>2, FS_EmptySet
<1>3. CASE R # {}
  <2>1. PICK x \in R : \A y \in R : x <= y
    BY <1>3, LeastOf
  <2> DEFINE larger == {c \in P : c > x}
  <2>2. IsFiniteSet(larger) /\ Cardinality(larger) \in Nat /\ Cardinality(larger) < n
    BY FS_Subset, FS_CardinalityType
  <2>3. R \ {x} \subseteq larger
    BY <2>1
  <2> HIDE DEF larger
  <2>4. Cardinality(R \ {x}) <= Cardinality(larger)
    BY <2>2, <2>3, FS_Subset
  <2>5. Cardinality(R \ {x}) = Cardinality(R) - 1
    BY <1>1, FS_RemoveElement
  <2> QED
    BY <1>1, <2>2, <2>4, <2>5
<1> QED
  BY <1>1, <1>2, <1>3

\* What prune_journal leaves of people: as many rows as it keeps, and one, the
\* newest category command.
LEMMA PruneLeaves ==
    ASSUME NEW h, NEW k \in SUBSET Nat, IsFiniteSet(k)
    PROVE  Cardinality({b \in Prune(h, k) : ByPerson(h, b)}) <= JournalKept + 1
<1> DEFINE P == {b \in k : ByPerson(h, b)}
           newer(b) == {c \in k : ByPerson(h, c) /\ c > b}
           recent == {b \in P : Cardinality(newer(b)) < JournalKept}
           newest == {b \in P : CategoryRow(h, b) /\ \A c \in k : CategoryRow(h, c) => c <= b}
           left == {b \in Prune(h, k) : ByPerson(h, b)}
<1>1. left \subseteq recent \cup newest
  BY DEF Prune
<1>2. P \in SUBSET Nat /\ IsFiniteSet(P)
  BY FS_Subset
<1>3. IsFiniteSet(recent) /\ Cardinality(recent) <= JournalKept
  <2>1. \A b : newer(b) = {c \in P : c > b}
    OBVIOUS
  <2> QED
    BY <1>2, <2>1, FewLarger, LimitAssumption
<1>4. IsFiniteSet(newest) /\ Cardinality(newest) <= 1
  <2>1. \A b, c \in newest : b = c
    OBVIOUS
  <2>2. CASE newest = {}
    BY <2>2, FS_EmptySet
  <2>3. CASE newest # {}
    <3>1. PICK b \in newest : TRUE
      BY <2>3
    <3>2. newest = {b}
      BY <2>1, <3>1
    <3>3. IsFiniteSet({b}) /\ Cardinality({b}) = 1
      BY FS_Singleton
    <3> HIDE DEF newest
    <3> QED
      BY <3>2, <3>3
  <2> QED
    BY <2>2, <2>3
<1> HIDE DEF recent, newest, left
<1>5. /\ IsFiniteSet(recent \cup newest)
      /\ Cardinality(recent \cup newest) <= JournalKept + 1
  <2>1. /\ Cardinality(recent) \in Nat /\ Cardinality(newest) \in Nat
        /\ Cardinality(recent \cap newest) \in Nat
    BY <1>3, <1>4, FS_CardinalityType, FS_Intersection
  <2> QED
    BY <1>3, <1>4, <2>1, FS_Union, LimitAssumption
<1>6. IsFiniteSet(left) /\ Cardinality(left) <= Cardinality(recent \cup newest)
  BY <1>1, <1>5, FS_Subset
<1>7. Cardinality(left) <= JournalKept + 1
  BY <1>5, <1>6, FS_CardinalityType, LimitAssumption
<1> QED
  BY <1>7 DEF left

\* A row says of the same targets what was there and what is there now.
RowsMatch == \A b \in DOMAIN history : DOMAIN history[b].was = DOMAIN history[b].now

TypeInv == EditTypeOK /\ RowsMatch

LEMMA VersionType ==
    ASSUME TypeInv
    PROVE  /\ Len(history) \in Nat /\ DOMAIN history = 1..Len(history)
           /\ Version \in Nat \ {0}
           /\ \A b \in DOMAIN history : history[b] \in Rows
BY LenProperties, ElementOfSeq DEF TypeInv, EditTypeOK, Version

\* A constant edit, and any edit of typed values
LEMMA EditType ==
    /\ \A S \in SUBSET Targets, v \in Values : [x \in S |-> v] \in Edits
    /\ \A S \in SUBSET Targets : \A e : e = [t \in S |-> e[t]] /\ (\A t \in S : e[t] \in Values)
          => e \in Edits
<1>1. ASSUME NEW S \in SUBSET Targets, NEW e,
             e = [t \in S |-> e[t]], \A t \in S : e[t] \in Values
      PROVE  e \in Edits
  <2>1. e \in [S -> Values]
    BY <1>1
  <2> QED
    BY <2>1 DEF Edits
<1>2. ASSUME NEW S \in SUBSET Targets, NEW v \in Values
      PROVE  [x \in S |-> v] \in Edits
  <2>1. [x \in S |-> v] \in [S -> Values]
    OBVIOUS
  <2> QED
    BY <2>1 DEF Edits
<1> QED
  BY <1>1, <1>2

\* A write of typed values leaves a typed draft, a typed row, and a journal that is
\* pruned.
LEMMA WriteType ==
    ASSUME TypeInv, NEW origin \in PersonOrigins \cup MachineOrigins,
           NEW r \in Runs \cup {None}, NEW edit \in Edits, Commit(origin, r, edit)
    PROVE  /\ draft' \in [Targets -> Values]
           /\ history' \in Seq(Rows)
           /\ kept' \subseteq DOMAIN history'
           /\ Version' = Version + 1
           /\ Cardinality({b \in kept : ByPerson(history, b)}') <= JournalKept + 1
           /\ RowsMatch'
<1>0. /\ Len(history) \in Nat /\ DOMAIN history = 1..Len(history) /\ Version \in Nat \ {0}
      /\ draft \in [Targets -> Values] /\ history \in Seq(Rows) /\ kept \subseteq DOMAIN history
      /\ Version = Len(history) + 1
  BY VersionType DEF TypeInv, EditTypeOK, Version
<1>1. PICK S \in SUBSET Targets : edit \in [S -> Values]
  BY DEF Edits
<1> DEFINE was == [t \in DOMAIN edit |-> draft[t]]
           row == [origin |-> origin, run |-> r, was |-> was, now |-> edit]
<1>2. /\ history' = Append(history, row)
      /\ draft' = [t \in Targets |-> IF t \in DOMAIN edit THEN edit[t] ELSE draft[t]]
      /\ kept' = Prune(history', kept \cup {Version})
  BY DEF Commit
<1>3. draft' \in [Targets -> Values]
  BY <1>0, <1>1, <1>2
<1>4. was \in Edits /\ DOMAIN was = DOMAIN edit
  <2>1. was \in [S -> Values]
    BY <1>0, <1>1
  <2> QED
    BY <1>1, <2>1 DEF Edits
<1> HIDE DEF was
<1>5. row \in Rows /\ row.was = was /\ row.now = edit
  BY <1>4 DEF Rows
<1> HIDE DEF row
<1>6. /\ history' \in Seq(Rows) /\ Len(history') = Len(history) + 1
      /\ \A b \in 1..Len(history) : history'[b] = history[b]
      /\ history'[Len(history) + 1] = row
  BY <1>0, <1>2, <1>5, AppendProperties
<1>7. DOMAIN history' = 1..Version /\ Version' = Version + 1
  BY <1>0, <1>6, LenProperties DEF Version
<1> DEFINE k == kept \cup {Version}
<1>8. k \in SUBSET Nat /\ IsFiniteSet(k) /\ k \subseteq DOMAIN history'
  <2>1. k \subseteq 1..Version
    BY <1>0
  <2>2. IsFiniteSet(1..Version) /\ 1..Version \subseteq Nat
    BY <1>0, FS_Interval
  <2> HIDE DEF k
  <2> QED
    BY <1>7, <2>1, <2>2, FS_Subset
<1> HIDE DEF k
<1>9. kept' = Prune(history', k)
  BY <1>2 DEF k
<1>10. kept' \subseteq DOMAIN history'
  BY <1>8, <1>9 DEF Prune
<1>11. Cardinality({b \in Prune(history', k) : ByPerson(history', b)}) <= JournalKept + 1
  BY <1>8, PruneLeaves
<1>12. Cardinality({b \in kept' : ByPerson(history', b)}) <= JournalKept + 1
  BY <1>9, <1>11
<1>13. RowsMatch'
  <2> SUFFICES ASSUME NEW b \in DOMAIN history'
               PROVE  DOMAIN history'[b].was = DOMAIN history'[b].now
    BY DEF RowsMatch
  <2>1. CASE b \in DOMAIN history
    BY <1>0, <1>6, <2>1 DEF TypeInv, RowsMatch
  <2>2. CASE b = Version
    BY <1>0, <1>4, <1>5, <1>6, <2>2
  <2> QED
    BY <1>0, <1>7, <2>1, <2>2
<1> QED
  BY <1>3, <1>6, <1>7, <1>10, <1>12, <1>13 DEF ByPerson

\* What an undo puts back are values that were there.
LEMMA UndoType ==
    ASSUME TypeInv, NEW r, NEW t \in Restored(r)
    PROVE  FirstWas(r, t) \in Values
<1> DEFINE U == UndoRows(r, t)
<1>1. U # {} /\ U \subseteq DOMAIN history /\ U \subseteq Nat
  BY VersionType DEF Restored, UndoRows, RunRows, TypeInv, EditTypeOK
<1>2. \A b \in U : t \in Changed(history[b])
  BY DEF UndoRows
<1> HIDE DEF U
<1>3. \E b \in U : \A c \in U : b <= c
  BY <1>1, LeastOf
<1> DEFINE first == CHOOSE b \in U : \A c \in U : b <= c
<1>4. first \in U
  BY <1>3
<1> HIDE DEF first
<1>5. FirstWas(r, t) = history[first].was[t]
  BY DEF FirstWas, first, U
<1>6. history[first] \in Rows /\ t \in DOMAIN history[first].now
  BY <1>1, <1>2, <1>4, VersionType DEF Changed
<1>7. history[first].was \in Edits /\ t \in DOMAIN history[first].was
  BY <1>1, <1>4, <1>6 DEF Rows, TypeInv, RowsMatch
<1> QED
  BY <1>5, <1>7 DEF Edits

\* A command of any writer
LEMMA ApplyType ==
    ASSUME TypeInv, NEW origin \in PersonOrigins \cup MachineOrigins,
           NEW r \in Runs \cup {None}, NEW t \in Targets, NEW S, NEW v \in Values,
           Apply(origin, r, t, S, v), UNCHANGED <<chain, pending>>
    PROVE  TypeInv'
<1>1. /\ S \in Scopes(t) /\ Commit(origin, r, [x \in S |-> v])
      /\ \/ column' = Merged(Footprint[t]) /\ marks' = marks \cup ({t} \cap Nodes)
         \/ UNCHANGED <<column, marks>>
  BY DEF Apply
<1>2. S \in SUBSET Targets /\ Footprint[t] \in SUBSET Targets
  BY <1>1, ScopeInFootprint
<1>3. [x \in S |-> v] \in Edits
  BY <1>2, EditType
<1>4. /\ draft' \in [Targets -> Values]
      /\ history' \in Seq(Rows)
      /\ kept' \subseteq DOMAIN history'
      /\ Version' = Version + 1
      /\ Cardinality({b \in kept : ByPerson(history, b)}') <= JournalKept + 1
      /\ RowsMatch'
  BY <1>1, <1>3, WriteType
<1>5. column' = None \/ column' \subseteq Targets
  BY <1>1, <1>2 DEF Merged, TypeInv, EditTypeOK
<1>6. marks' \subseteq Nodes
  BY <1>1 DEF TypeInv, EditTypeOK
<1>7. /\ UNCHANGED <<phase, active, base, cancelled, pending>>
      /\ phase \in [Runs -> Phases] /\ active \in Runs \cup {None} /\ cancelled \in BOOLEAN
      /\ base \in 1..Version /\ Version \in Nat
      /\ pending # None => pending \in Pending /\ pending.base <= Version
  BY VersionType DEF TypeInv, EditTypeOK, chain
<1>8. /\ base' \in 1..Version'
      /\ pending' # None => pending' \in Pending /\ pending'.base <= Version'
  BY <1>4, <1>7 DEF Pending
<1> QED
  BY <1>4, <1>5, <1>6, <1>7, <1>8 DEF TypeInv, EditTypeOK

\* What stays, stays typed.
LEMMA TypeStays ==
    ASSUME TypeInv, UNCHANGED <<draft, history, column, marks>>, kept' \subseteq kept,
           phase' \in [Runs -> Phases], active' \in Runs \cup {None},
           base' \in 1..Version, cancelled' \in BOOLEAN,
           pending' # None => pending' \in Pending /\ pending'.base <= Version
    PROVE  TypeInv'
<1> DEFINE P == {b \in kept : ByPerson(history, b)}
           Q == {b \in kept' : ByPerson(history, b)}
<1>1. IsFiniteSet(P) /\ Cardinality(P) <= JournalKept + 1
  <2>1. P \subseteq 1..Len(history) /\ Len(history) \in Nat
    BY VersionType DEF TypeInv, EditTypeOK
  <2> QED
    BY <2>1, FS_Interval, FS_Subset DEF TypeInv, EditTypeOK
<1>2. Q \subseteq P
  OBVIOUS
<1> HIDE DEF P, Q
<1>3. Cardinality(Q) <= JournalKept + 1
  BY <1>1, <1>2, FS_Subset, FS_CardinalityType, LimitAssumption
<1>4. {b \in kept' : ByPerson(history', b)} = Q
  BY DEF Q, ByPerson
<1>5. Version' = Version
  BY DEF Version
<1>6. Cardinality({b \in kept : ByPerson(history, b)}') <= JournalKept + 1
  BY <1>3, <1>4
<1> QED
  BY <1>5, <1>6 DEF TypeInv, EditTypeOK, RowsMatch

LEMMA TypeStep == IInv /\ TypeInv /\ [Next]_vars => TypeInv'
<1> SUFFICES ASSUME IInv, TypeInv, [Next]_vars PROVE TypeInv'
  OBVIOUS
<1> USE DEF chain
<1>0. /\ Len(history) \in Nat /\ DOMAIN history = 1..Len(history) /\ Version \in Nat \ {0}
      /\ Version \in 1..Version
      /\ draft \in [Targets -> Values] /\ kept \subseteq DOMAIN history
      /\ phase \in [Runs -> Phases] /\ active \in Runs \cup {None} /\ base \in 1..Version
      /\ 1 \in 1..Version
      /\ pending # None => pending \in Pending /\ pending.base <= Version
      /\ cancelled \in BOOLEAN
  BY VersionType DEF TypeInv, EditTypeOK
<1>1. /\ {"human", "undo", "cloud_repair", "answer_page_recognition", "listening_audio",
          "part_backfill", "cloud_candidate_adoption"} \subseteq PersonOrigins \cup MachineOrigins
      /\ {"idle", "frozen", "working", "summed", "ended", "lost"} = Phases
      /\ {"adoption", "direct", "autofill"} = Writers
  BY DEF PersonOrigins, MachineOrigins, RunOrigins, Phases, Writers
<1>2. ASSUME NEW t \in Targets, NEW v \in Values, Edit(t, v) PROVE TypeInv'
  BY <1>1, <1>2, ApplyType DEF Edit
<1>3. ASSUME NEW r \in Runs, UndoRun(r) PROVE TypeInv'
  <2> DEFINE edit == [t \in Restored(r) |-> FirstWas(r, t)]
  <2>1. /\ Commit("undo", r, edit)
        /\ column' = Merged(Touched(Restored(r)))
        /\ UNCHANGED <<marks, phase, active, base, cancelled, pending>>
    BY <1>3 DEF UndoRun
  <2>2. Restored(r) \in SUBSET Targets /\ Touched(Restored(r)) \in SUBSET Targets
    BY TargetAssumption DEF Restored, Touched
  <2>3. edit \in [Restored(r) -> Values]
    BY UndoType
  <2>4. edit \in Edits
    BY <2>2, <2>3 DEF Edits
  <2> HIDE DEF edit
  <2>5. /\ draft' \in [Targets -> Values]
        /\ history' \in Seq(Rows)
        /\ kept' \subseteq DOMAIN history'
        /\ Version' = Version + 1
        /\ Cardinality({b \in kept : ByPerson(history, b)}') <= JournalKept + 1
        /\ RowsMatch'
    BY <1>1, <2>1, <2>4, WriteType
  <2>6. column' = None \/ column' \subseteq Targets
    BY <2>1, <2>2 DEF Merged, TypeInv, EditTypeOK
  <2>7. /\ base' \in 1..Version' /\ marks' \subseteq Nodes
        /\ pending' # None => pending' \in Pending /\ pending'.base <= Version'
    BY <1>0, <2>1, <2>5 DEF Pending, TypeInv, EditTypeOK
  <2> QED
    BY <1>0, <2>1, <2>5, <2>6, <2>7 DEF TypeInv, EditTypeOK
<1>4. ASSUME NEW r \in Runs, NEW doc \in Documents, ReadForAdoption(r, doc) PROVE TypeInv'
  <2> DEFINE edit == [t \in Targets \ {Category} |->
                        IF t \in Touched(PersonSince(base)) THEN draft[t] ELSE doc[t]]
  <2>1. /\ pending' = [writer |-> "adoption", run |-> r, base |-> Version, again |-> FALSE,
                       edit |-> edit]
        /\ UNCHANGED <<draft, history, kept, column, marks, phase, active, base, cancelled>>
    BY <1>4 DEF ReadForAdoption
  <2>2. edit \in [Targets \ {Category} -> Values]
    BY <1>0, ValueAssumption
  <2>3. edit \in Edits
    BY <2>2 DEF Edits
  <2> HIDE DEF edit
  <2>4. pending' \in Pending /\ pending'.base <= Version
    BY <1>0, <1>1, <2>1, <2>3 DEF Pending
  <2> QED
    BY <1>0, <2>1, <2>4, TypeStays
<1>5. ASSUME NEW doc \in Documents, ReadForDirect(doc) PROVE TypeInv'
  <2> DEFINE edit == [t \in Targets |-> IF t = Category /\ Category \in Protected
                                       THEN draft[t] ELSE doc[t]]
  <2>1. /\ pending' = [writer |-> "direct", run |-> None, base |-> Version, again |-> FALSE,
                       edit |-> edit]
        /\ UNCHANGED <<draft, history, kept, column, marks, phase, active, base, cancelled>>
    BY <1>5 DEF ReadForDirect
  <2>2. edit \in [Targets -> Values]
    BY <1>0, ValueAssumption
  <2>3. edit \in Edits
    BY <2>2 DEF Edits
  <2> HIDE DEF edit
  <2>4. pending' \in Pending /\ pending'.base <= Version
    BY <1>0, <1>1, <2>1, <2>3 DEF Pending
  <2> QED
    BY <1>0, <2>1, <2>4, TypeStays
<1>6. ASSUME NEW t \in Targets \ {Category}, NEW v \in Values \ {Empty}, Freeze({t}, v)
      PROVE  TypeInv'
  <2> DEFINE edit == [x \in {t} |-> v]
  <2>1. /\ pending' = [writer |-> "autofill", run |-> None, base |-> Version, again |-> FALSE,
                       edit |-> edit]
        /\ UNCHANGED <<draft, history, kept, column, marks, phase, active, base, cancelled>>
    BY <1>6 DEF Freeze
  <2>2. edit \in Edits
    BY EditType
  <2> HIDE DEF edit
  <2>3. pending' \in Pending /\ pending'.base <= Version
    BY <1>0, <1>1, <2>1, <2>2 DEF Pending
  <2> QED
    BY <1>0, <2>1, <2>3, TypeStays
<1>7. ASSUME CommitPending PROVE TypeInv'
  <2>1. /\ pending \in Pending /\ pending' = None
        /\ Commit(OriginOf(pending.writer), pending.run, pending.edit)
        /\ marks' \subseteq marks
        /\ UNCHANGED <<column, phase, active, base, cancelled>>
    BY <1>0, <1>7 DEF CommitPending
  <2>2. /\ pending.run \in Runs \cup {None} /\ pending.edit \in Edits
        /\ OriginOf(pending.writer) \in PersonOrigins \cup MachineOrigins
    BY <1>1, <2>1 DEF Pending, OriginOf
  <2>3. /\ draft' \in [Targets -> Values]
        /\ history' \in Seq(Rows)
        /\ kept' \subseteq DOMAIN history'
        /\ Version' = Version + 1
        /\ Cardinality({b \in kept : ByPerson(history, b)}') <= JournalKept + 1
        /\ RowsMatch'
    BY <2>1, <2>2, WriteType
  <2>4. base' \in 1..Version' /\ marks' \subseteq Nodes /\ (column' = None \/ column' \subseteq Targets)
    BY <1>0, <2>1, <2>3 DEF TypeInv, EditTypeOK
  <2>5. /\ pending' # None => pending' \in Pending /\ pending'.base <= Version'
        /\ phase' \in [Runs -> Phases] /\ active' \in Runs \cup {None} /\ cancelled' \in BOOLEAN
    BY <1>0, <2>1
  <2> QED
    BY <2>3, <2>4, <2>5 DEF TypeInv, EditTypeOK
<1>8. ASSUME Recheck PROVE TypeInv'
  <2> DEFINE edit == [t \in StillEmpty(pending.edit) |-> pending.edit[t]]
  <2>1. /\ pending # None
        /\ pending' = [pending EXCEPT !.base = Version, !.again = TRUE, !.edit = edit]
        /\ UNCHANGED <<draft, history, kept, column, marks, phase, active, base, cancelled>>
    BY <1>8 DEF Recheck
  <2>2. pending \in Pending /\ pending.edit \in Edits
    BY <1>0, <2>1 DEF Pending
  <2>3. edit \in [StillEmpty(pending.edit) -> Values] /\ StillEmpty(pending.edit) \in SUBSET Targets
    BY <2>2 DEF StillEmpty, Edits
  <2>4. edit \in Edits
    BY <2>3 DEF Edits
  <2> HIDE DEF edit
  <2>5. pending' \in Pending /\ pending'.base <= Version
    <3>1. /\ pending = [writer |-> pending.writer, run |-> pending.run, base |-> pending.base,
                        again |-> pending.again, edit |-> pending.edit]
          /\ pending.writer = "autofill" /\ pending.run = None
      <4>1. pending.writer = "autofill"
        BY <1>8 DEF Recheck
      <4> QED
        BY <2>1, <4>1 DEF IInv, PendingSound
    <3>2. pending' = [writer |-> "autofill", run |-> None, base |-> Version, again |-> TRUE,
                      edit |-> edit]
      BY <2>1, <3>1
    <3> QED
      BY <1>0, <1>1, <2>4, <3>2 DEF Pending
  <2>6. UNCHANGED <<draft, history, kept, column, marks, phase, active, base, cancelled>>
    BY <2>1
  <2> QED
    BY <1>0, <2>5, <2>6, TypeStays
<1>9. ASSUME GiveUp PROVE TypeInv'
  BY <1>0, <1>9, TypeStays DEF GiveUp
<1>10. ASSUME EndChain PROVE /\ phase' \in [Runs -> Phases] /\ active' \in Runs \cup {None}
                             /\ base' \in 1..Version /\ cancelled' \in BOOLEAN
  BY <1>0, <1>1, <1>10 DEF EndChain
<1>11. ASSUME Crash PROVE TypeInv'
  BY <1>0, <1>10, <1>11, TypeStays DEF Crash
<1>12. ASSUME NEW r \in Runs, Finalize(r) PROVE TypeInv'
  BY <1>0, <1>10, <1>12, TypeStays DEF Finalize
<1>13. ASSUME NEW r \in Runs, Start(r) PROVE TypeInv'
  BY <1>0, <1>1, <1>13, TypeStays DEF Start
<1>14. ASSUME NEW r \in Runs, TakeLock(r) \/ Summarize(r) PROVE TypeInv'
  BY <1>0, <1>1, <1>14, TypeStays DEF TakeLock, Summarize
<1>15. ASSUME Cancel PROVE TypeInv'
  BY <1>0, <1>15, TypeStays DEF Cancel
<1>16. ASSUME UNCHANGED vars PROVE TypeInv'
  BY <1>0, <1>16, TypeStays DEF vars
<1>17. ASSUME NEW r \in Runs, NEW t \in Targets, NEW v \in Values, RepairEdit(r, t, v)
       PROVE  TypeInv'
  BY <1>1, <1>17, ApplyType DEF RepairEdit
<1>18. ASSUME NEW r \in Runs \cup {None}, NEW t \in Targets, NEW v \in Values,
              AnswerPage(r, t, v)
       PROVE  TypeInv'
  BY <1>1, <1>18, ApplyType DEF AnswerPage
<1>19. ASSUME NEW t \in Targets, NEW v \in Values, MirrorAudio(t, v) PROVE TypeInv'
  BY <1>1, <1>19, ApplyType DEF MirrorAudio
<1>20. ASSUME NEW v \in Values, Backfill(v) PROVE TypeInv'
  BY <1>1, <1>20, ApplyType, TargetAssumption DEF Backfill
<1> QED
  BY <1>2, <1>3, <1>4, <1>5, <1>6, <1>7, <1>8, <1>9, <1>11, <1>12, <1>13, <1>14, <1>15,
     <1>16, <1>17, <1>18, <1>19, <1>20
     DEF Next, PersonStep, MachineStep, ChainStep

\* Types, with the bound of the journal: prune_journal leaves as many rows of people
\* as it is told and at most one more, the newest category command, and nothing but
\* an edit adds to them.
THEOREM EditTypes == Spec => []EditTypeOK
<1>1. Init => TypeInv
  <2> SUFFICES ASSUME Init PROVE TypeInv
    OBVIOUS
  <2>1. /\ draft = [t \in Targets |-> Empty] /\ history = << >> /\ kept = {} /\ column = None
        /\ marks \in OldMarks /\ phase = [r \in Runs |-> "idle"] /\ active = None
        /\ base = 1 /\ pending = None /\ cancelled = FALSE
    BY DEF Init
  <2>2. {b \in kept : ByPerson(history, b)} = {}
    BY <2>1
  <2>3. Cardinality({b \in kept : ByPerson(history, b)}) <= JournalKept + 1
    BY <2>2, FS_EmptySet, LimitAssumption
  <2>4. Version = 1 /\ DOMAIN history = {} /\ history \in Seq(Rows)
    BY <2>1 DEF Version
  <2>5. draft \in [Targets -> Values] /\ marks \subseteq Nodes /\ phase \in [Runs -> Phases]
    BY <2>1, ValueAssumption, TargetAssumption DEF Phases
  <2>8. kept \subseteq DOMAIN history /\ (column = None \/ column \subseteq Targets)
    BY <2>1
  <2>6. /\ active \in Runs \cup {None} /\ base \in 1..Version
        /\ pending # None => pending \in Pending /\ pending.base <= Version
    BY <2>1, <2>4
  <2>9. cancelled \in BOOLEAN
    BY <2>1
  <2>7. RowsMatch
    BY <2>4 DEF RowsMatch
  <2> QED
    BY <2>3, <2>4, <2>5, <2>6, <2>7, <2>8, <2>9 DEF TypeInv, EditTypeOK
<1>2. IInv /\ TypeInv /\ [Next]_vars => TypeInv'
  BY TypeStep
<1>3. TypeInv => EditTypeOK
  BY DEF TypeInv
<1> QED
  BY <1>1, <1>2, <1>3, Sound, PTL DEF Spec
===============================================================================
