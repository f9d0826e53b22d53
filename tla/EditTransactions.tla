--------------------------- MODULE EditTransactions ---------------------------
(* The draft of one library item and the transactions that write it           *)
(* (src-tauri/src/library/repository.rs), under every writer of the program:   *)
(* the person in the editor, cloud candidate adoption, cloud repair, answer    *)
(* pages, direct documents, rule autofill, audio bindings, category backfill.  *)
(* Writers read and commit in separate steps where they compute what they      *)
(* write from what they read; the others are one step, since a transaction     *)
(* whose base version is stale is refused and changes nothing.                 *)
(* The edit lock holds from the moment a cloud chain is queued to its end; a    *)
(* chain whose job was cancelled goes on without it. (A job with a direct       *)
(* document has the lock too; here people may edit around its write.)           *)
EXTENDS Naturals, Sequences, FiniteSets

CONSTANTS
    Targets,      \* stable identities in the draft: task groups, slots, nodes
    Nodes,        \* those a command names by nodeId (they carry user_edited)
    Category,     \* "$top:exam"
    Footprint,    \* what a command on a target touches: itself and its context
    Values, Empty,
    Documents,    \* the drafts a cloud model may return
    OldMarks,     \* sets of nodes marked user_edited before the column existed
    Runs, None,
    JournalKept,  \* the rows of people that prune_journal leaves
    MaxWrites     \* bound of the model

ASSUME TargetAssumption ==
    /\ Category \in Targets
    /\ Nodes \subseteq Targets \ {Category}
    /\ OldMarks \subseteq SUBSET Nodes
    /\ Footprint \in [Targets -> SUBSET Targets]
    /\ \A t \in Targets : t \in Footprint[t]
    /\ Footprint[Category] = {Category}
ASSUME ValueAssumption == Empty \in Values /\ Documents \subseteq [Targets -> Values]
ASSUME RunAssumption == None \notin Runs /\ \A S \in SUBSET Targets : S # None
ASSUME LimitAssumption == JournalKept \in Nat \ {0} /\ MaxWrites \in Nat

VARIABLES
    draft,      \* canonical_ds_json
    history,    \* one row per committed transaction: row b has base_version b
    kept,       \* the rows that editor_journal_v1 still holds
    column,     \* protected_edits_json, None when NULL
    marks,      \* objects with provenanceStatus user_edited
    phase,      \* of each cloud run
    active,     \* the run whose chain is going on
    base,       \* the version its candidate is made from
    pending,    \* a machine writer between its read and its commit
    cancelled   \* the job of the active run was cancelled

chain == <<phase, active, base, cancelled>>
vars == <<draft, history, kept, column, marks, phase, active, base, pending, cancelled>>

(* EditOrigin ************************************************************)

PersonOrigins  == {"human", "undo"}
RunOrigins     == {"cloud_repair", "cloud_candidate_adoption", "answer_page_recognition"}
MachineOrigins == RunOrigins \cup {"listening_audio", "part_backfill"}

\* EditOrigin::enforces_protection
Enforces(origin, r) ==
    \/ origin = "cloud_repair" /\ r # None
    \/ origin \in {"answer_page_recognition", "listening_audio"}

(* Types *****************************************************************)

Edits == UNION {[S -> Values] : S \in SUBSET Targets}
Rows  == [origin : PersonOrigins \cup MachineOrigins, run : Runs \cup {None},
          was : Edits, now : Edits]
Phases == {"idle", "frozen", "working", "summed", "ended", "lost"}
Writers == {"adoption", "direct", "autofill"}
Pending == [writer : Writers, run : Runs \cup {None}, base : Nat \ {0},
            edit : Edits, again : BOOLEAN]

\* current_edit_version: 1 when the draft is seeded, one more with each write
Version == Len(history) + 1

(* The journal ***********************************************************)

ByPerson(h, b) == h[b].origin \in PersonOrigins
OfRun(h, b, r) == h[b].run = r /\ h[b].origin \in RunOrigins
Changed(row)   == {t \in DOMAIN row.now : row.was[t] # row.now[t]}
Effective(row) == Changed(row) # {}    \* journal_change_is_effective

\* The row is a category command of a person. The undo of a run has no commands.
CategoryRow(h, b) == ByPerson(h, b) /\ h[b].run = None /\ Category \in DOMAIN h[b].now

HasHumanCategoryEdit == \E b \in kept : CategoryRow(history, b)

\* Mutant: the limit is one row too high
PruneLate(h, k) ==
    {b \in k : ByPerson(h, b) =>
        \/ Cardinality({c \in k : ByPerson(h, c) /\ c > b}) <= JournalKept
        \/ CategoryRow(h, b) /\ \A c \in k : CategoryRow(h, c) => c <= b}

\* Mutant: the newest category command may go like any other
PruneCategory(h, k) ==
    {b \in k : ByPerson(h, b) => Cardinality({c \in k : ByPerson(h, c) /\ c > b}) < JournalKept}

\* prune_journal: the newest rows of people, and the newest category command
Prune(h, k) ==
    {b \in k : ByPerson(h, b) =>
        \/ Cardinality({c \in k : ByPerson(h, c) /\ c > b}) < JournalKept
        \/ CategoryRow(h, b) /\ \A c \in k : CategoryRow(h, c) => c <= b}

RunRows(r) == {b \in kept : OfRun(history, b, r)}

(* Protection ************************************************************)

Touched(S) == UNION {Footprint[t] : t \in S}

\* What a command on t may write: t alone (setAnswer, setTaskType), or its whole
\* context (upsertTaskGroupBundle replaces a group with its slots)
Scopes(t) == {{t}, Footprint[t]}

\* human_protected_targets
Protected == IF column = None THEN marks ELSE column

\* Mutant: the targets of the last edit replace the column
MergedAlone(added) == IF added = {} THEN column ELSE added

\* merge_protected_edits: a NULL column counts as no targets
Merged(added) ==
    IF added = {} THEN column ELSE (IF column = None THEN {} ELSE column) \cup added

(* The transaction *******************************************************)

\* cloud_review_in_progress, checked inside the transaction
Locked == active # None /\ phase[active] # "frozen" /\ ~cancelled

\* cas_write_canonical, insert_journal_row, prune_journal of one transaction
Commit(origin, r, edit) ==
    LET row == [origin |-> origin, run |-> r,
                was |-> [t \in DOMAIN edit |-> draft[t]], now |-> edit]
        h   == Append(history, row)
    IN /\ Len(history) < MaxWrites
       /\ draft' = [t \in Targets |-> IF t \in DOMAIN edit THEN edit[t] ELSE draft[t]]
       /\ history' = h
       /\ kept' = Prune(h, kept \cup {Version})

\* apply_editor_commands_tx_with for a command on t that writes v to S
Apply(origin, r, t, S, v) ==
    /\ S \in Scopes(t)
    /\ origin \in PersonOrigins \cup {"part_backfill"} => ~Locked
    /\ Enforces(origin, r) => Footprint[t] \cap Protected = {}
    /\ Commit(origin, r, [x \in S |-> v])
    /\ IF origin \in PersonOrigins
       THEN column' = Merged(Footprint[t]) /\ marks' = marks \cup ({t} \cap Nodes)
       ELSE UNCHANGED <<column, marks>>

(* People ****************************************************************)

\* A save of the editor, or a decision accepted in the review panel. (A decision
\* undone there is the same transaction with the origin undo.)
Edit(t, v) ==
    /\ \E S \in Scopes(t) : Apply("human", None, t, S, v)
    /\ UNCHANGED <<chain, pending>>

\* undo_cloud_repair_run: what the kept rows of the run say of a target
UndoRows(r, t) == {b \in RunRows(r) : t \in Changed(history[b])}
FirstWas(r, t) == history[CHOOSE b \in UndoRows(r, t) :
                            \A c \in UndoRows(r, t) : b <= c].was[t]
LastNow(r, t)  == history[CHOOSE b \in UndoRows(r, t) :
                            \A c \in UndoRows(r, t) : c <= b].now[t]

\* Mutant: a later change of the target is not noticed
RestoredAnyway(r) == {t \in Targets : UndoRows(r, t) # {}}

Restored(r)    == {t \in Targets : UndoRows(r, t) # {} /\ draft[t] = LastNow(r, t)}

UndoRun(r) ==
    /\ ~Locked
    /\ RunRows(r) # {}
    /\ Restored(r) # {}
    /\ Commit("undo", r, [t \in Restored(r) |-> FirstWas(r, t)])
    /\ column' = Merged(Touched(Restored(r)))
    /\ UNCHANGED <<marks, chain, pending>>

(* The cloud chain *******************************************************)

\* The baseline of the candidate is the version before anything is recognized.
Start(r) ==
    /\ active = None /\ pending = None
    /\ phase[r] = "idle"
    /\ phase' = [phase EXCEPT ![r] = "frozen"]
    /\ active' = r /\ base' = Version
    /\ UNCHANGED <<draft, history, kept, column, marks, pending, cancelled>>

\* cloud_status becomes queued: from here people are refused
TakeLock(r) ==
    /\ active = r /\ phase[r] = "frozen"
    /\ phase' = [phase EXCEPT ![r] = "working"]
    /\ UNCHANGED <<draft, history, kept, column, marks, active, base, pending, cancelled>>

Cancel ==
    /\ active # None /\ ~cancelled
    /\ cancelled' = TRUE
    /\ UNCHANGED <<draft, history, kept, column, marks, phase, active, base, pending>>

\* Mutant: the edit made on the baseline itself is missed
PersonAfter(b) == UNION {DOMAIN history[c].now :
                           c \in {c \in kept : c > b /\ ByPerson(history, c)}}

\* Targets set by people since the candidate's base (human_editor_commands_since)
PersonSince(b) == UNION {DOMAIN history[c].now :
                           c \in {c \in kept : c >= b /\ ByPerson(history, c)}}

\* adopt_cloud_candidate up to its transaction: read the draft and the journal,
\* take the candidate's units, put back what people set (merge_human_edits)
ReadForAdoption(r, doc) ==
    LET mine == Touched(PersonSince(base))
    IN /\ active = r /\ phase[r] = "working" /\ pending = None
       /\ \A b \in DOMAIN history : ~OfRun(history, b, r)
       /\ pending' = [writer |-> "adoption", run |-> r, base |-> Version, again |-> FALSE,
                      edit |-> [t \in Targets \ {Category} |->
                                  IF t \in mine THEN draft[t] ELSE doc[t]]]
       /\ UNCHANGED <<draft, history, kept, column, marks, chain>>

\* write_direct_canonical_inner: the whole document, but for a protected exam
ReadForDirect(doc) ==
    /\ active = None /\ pending = None
    /\ pending' = [writer |-> "direct", run |-> None, base |-> Version, again |-> FALSE,
                   edit |-> [t \in Targets |->
                               IF t = Category /\ Category \in Protected
                               THEN draft[t] ELSE doc[t]]]
    /\ UNCHANGED <<draft, history, kept, column, marks, chain>>

\* The local snapshot is frozen; the rules propose answers for its empty slots.
Freeze(S, v) ==
    /\ pending = None
    /\ active # None => phase[active] = "working"
    /\ \A t \in S : draft[t] = Empty
    /\ pending' = [writer |-> "autofill", run |-> None, base |-> Version, again |-> FALSE,
                   edit |-> [t \in S |-> v]]
    /\ UNCHANGED <<draft, history, kept, column, marks, chain>>

OriginOf(writer) ==
    IF writer = "autofill" THEN "cloud_repair" ELSE "cloud_candidate_adoption"

\* The CAS of cas_write_canonical
Current(p) == p.base = Version

CommitPending ==
    /\ pending # None
    /\ Current(pending)
    /\ Commit(OriginOf(pending.writer), pending.run, pending.edit)
    /\ marks' = IF pending.writer = "autofill" THEN marks
                ELSE marks \ {t \in DOMAIN pending.edit : pending.edit[t] # draft[t]}
    /\ pending' = None
    /\ UNCHANGED <<column, chain>>

\* Mutant: the slots are not looked at again
StillProposed(edit) == DOMAIN edit

\* apply_patches_with_recheck after a conflict: only slots that are still empty
StillEmpty(edit) == {t \in DOMAIN edit : draft[t] = Empty}

Recheck ==
    /\ pending # None /\ ~Current(pending)
    /\ pending.writer = "autofill" /\ ~pending.again
    /\ StillEmpty(pending.edit) # {}
    /\ pending' = [pending EXCEPT !.base = Version, !.again = TRUE,
                     !.edit = [t \in StillEmpty(pending.edit) |-> pending.edit[t]]]
    /\ UNCHANGED <<draft, history, kept, column, marks, chain>>

\* A conflict ends an attempt; adoption and direct documents start from a new
\* read, at most three times (the model does not count), the chain may also go on.
GiveUp ==
    /\ pending # None
    /\ pending.writer = "autofill" => pending.again \/ StillEmpty(pending.edit) = {}
    /\ ~Current(pending)
    /\ pending' = None
    /\ UNCHANGED <<draft, history, kept, column, marks, chain>>

\* A tool call of the repair loop (apply_cloud_edit)
RepairEdit(r, t, v) ==
    /\ active = r /\ phase[r] = "working" /\ pending = None
    /\ \E S \in Scopes(t) : Apply("cloud_repair", r, t, S, v)
    /\ UNCHANGED <<chain, pending>>

\* run_cloud_answer_page, before or after the summary (r), and the answer page
\* asked for by a person (no run); only slots that are not protected are written
AnswerPage(r, t, v) ==
    /\ r # None => active = r /\ phase[r] \in {"working", "summed"} /\ pending = None
    /\ draft[t] # v
    /\ Apply("answer_page_recognition", r, t, {t}, v)
    /\ UNCHANGED <<chain, pending>>

\* sync_item_audio_media
MirrorAudio(t, v) ==
    /\ draft[t] # v
    /\ Apply("listening_audio", None, t, {t}, v)
    /\ UNCHANGED <<chain, pending>>

\* align_reading_part for a row whose label an old version found by itself
Backfill(v) ==
    /\ ~HasHumanCategoryEdit
    /\ draft[Category] # v
    /\ Apply("part_backfill", None, Category, {Category}, v)
    /\ UNCHANGED <<chain, pending>>

\* The final write_batch_repair: the batch row shows a terminal status.
Summarize(r) ==
    /\ active = r /\ phase[r] = "working" /\ pending = None
    /\ phase' = [phase EXCEPT ![r] = "summed"]
    /\ UNCHANGED <<draft, history, kept, column, marks, active, base, pending, cancelled>>

Terminal(r) == phase[r] \in {"summed", "ended"}
HasEffective(r) == \E b \in RunRows(r) : Effective(history[b])

\* Mutant: the runs are walked oldest first
Older(q, r) == \E b \in RunRows(r) : \A c \in RunRows(q) : c < b

\* finalize_cloud_run_retention: of the terminal runs, only the newest with an
\* effective row keeps its rows
Newer(q, r) == \E b \in RunRows(q) : \A c \in RunRows(r) : c < b
Dropped(r) ==
    LET ended == {q \in Runs : q = r \/ Terminal(q)}
    IN {q \in ended : ~HasEffective(q) \/ \E p \in ended : HasEffective(p) /\ Newer(p, q)}

\* A chain without a summary (the fetch failed) leaves no terminal status.
EndChain ==
    /\ phase' = [phase EXCEPT ![active] = IF phase[active] = "summed" THEN "ended" ELSE "lost"]
    /\ active' = None /\ base' = 1 /\ cancelled' = FALSE

Finalize(r) ==
    /\ active = r /\ phase[r] \in {"working", "summed"} /\ pending = None
    /\ kept' = {b \in kept : \A q \in Dropped(r) : ~OfRun(history, b, q)}
    /\ EndChain
    /\ UNCHANGED <<draft, history, column, marks, pending>>

\* The process dies, or the chain returns early, or the retention fails, which is
\* only logged.
Crash ==
    /\ active # None
    /\ EndChain
    /\ pending' = None
    /\ UNCHANGED <<draft, history, kept, column, marks>>

(* Specification *********************************************************)

Init ==
    /\ draft = [t \in Targets |-> Empty]
    /\ history = <<>>
    /\ kept = {}
    /\ column = None
    /\ marks \in OldMarks
    /\ phase = [r \in Runs |-> "idle"]
    /\ active = None /\ base = 1
    /\ pending = None
    /\ cancelled = FALSE

PersonStep ==
    \/ \E t \in Targets, v \in Values : Edit(t, v)
    \/ \E r \in Runs : UndoRun(r)

MachineStep ==
    \/ \E r \in Runs, doc \in Documents : ReadForAdoption(r, doc)
    \/ \E doc \in Documents : ReadForDirect(doc)
    \/ \E t \in Targets \ {Category}, v \in Values \ {Empty} : Freeze({t}, v)
    \/ CommitPending \/ Recheck \/ GiveUp
    \/ \E r \in Runs, t \in Targets \ {Category}, v \in Values : RepairEdit(r, t, v)
    \/ \E r \in Runs \cup {None}, t \in Targets \ {Category}, v \in Values \ {Empty} : AnswerPage(r, t, v)
    \/ \E t \in Targets \ {Category}, v \in Values : MirrorAudio(t, v)
    \/ \E v \in Values : Backfill(v)

ChainStep ==
    \/ \E r \in Runs : Start(r) \/ TakeLock(r) \/ Summarize(r) \/ Finalize(r)
    \/ Cancel \/ Crash

Next == PersonStep \/ MachineStep \/ ChainStep
Spec == Init /\ [][Next]_vars

(* Properties ************************************************************)

\* Every variable has its type, rows of the journal are rows that were written,
\* nothing refers to a version to come, and the journal of people is bounded: at
\* most one row, the newest category command, above the limit of prune_journal.
EditTypeOK ==
    /\ draft \in [Targets -> Values]
    /\ history \in Seq(Rows)
    /\ kept \subseteq DOMAIN history
    /\ column = None \/ column \subseteq Targets
    /\ marks \subseteq Nodes
    /\ phase \in [Runs -> Phases]
    /\ active \in Runs \cup {None}
    /\ base \in 1..Version
    /\ pending # None => pending \in Pending /\ pending.base <= Version
    /\ cancelled \in BOOLEAN
    /\ Cardinality({b \in kept : ByPerson(history, b)}) <= JournalKept + 1

\* The row that a step commits
Wrote  == history' # history
NewRow == history'[Version]

\* What a person ever set, by the history or by a mark older than it
PersonSet == marks \cup UNION {DOMAIN history[b].now :
                                  b \in {b \in DOMAIN history : ByPerson(history, b)}}

\* Cloud repair, answer pages and audio bindings change nothing that a person has
\* set, however long ago and whatever was written, undone or pruned since
\* (enforces_protection, human_protected_targets).
RepairKeepsPersonChoice ==
    [][Wrote /\ Enforces(NewRow.origin, NewRow.run) =>
         \A t \in PersonSet : draft'[t] = draft[t]]_vars

LateRows == {b \in DOMAIN history : b >= base /\ ByPerson(history, b)}

\* The adoption of a candidate keeps every edit a person made since the version
\* the candidate was made from, those made while it was being merged included
\* (merge_human_edits and the CAS), as long as the journal holds them.
LateEditsKept ==
    [][Wrote /\ NewRow.origin = "cloud_candidate_adoption" /\ NewRow.run # None
         /\ Cardinality(LateRows) <= JournalKept =>
         \A b \in LateRows :
           \A t \in DOMAIN history[b].now : draft'[t] = draft[t]]_vars

\* Once a person has chosen the category, no machine changes it: no repair, no
\* document that replaces the whole draft, no backfill of an old label after the
\* journal was pruned (write_direct_canonical_inner, prune_journal).
CategoryKept ==
    [][Wrote /\ (\E b \in DOMAIN history : CategoryRow(history, b))
         /\ draft'[Category] # draft[Category] => NewRow.origin \in PersonOrigins]_vars

\* The rules write empty slots only, also when the draft moved on between the
\* snapshot they worked from and their commit (apply_patches_with_recheck).
FillTouchesOnlyEmpty ==
    [][Wrote /\ NewRow.origin = "cloud_repair" /\ NewRow.run = None =>
         \A t \in Targets : draft'[t] # draft[t] => draft[t] = Empty]_vars

\* What a run changed of t, over everything ever written
RunChanges(r, t) == {b \in DOMAIN history : OfRun(history, b, r) /\ t \in Changed(history[b])}

\* The undo of a run gives a target back the value it had before the first change
\* of the run, and only where the run's last value still stands: it takes back no
\* later change and is not misled by rows that retention dropped
\* (undo_cloud_repair_run).
UndoIsExact ==
    [][Wrote /\ NewRow.origin = "undo" /\ NewRow.run # None =>
         \A t \in Targets : draft'[t] # draft[t] =>
           \E first, last \in RunChanges(NewRow.run, t) :
             /\ \A b \in RunChanges(NewRow.run, t) : first <= b /\ b <= last
             /\ draft[t] = history[last].now[t]
             /\ draft'[t] = history[first].was[t]]_vars

\* The newest run that changed anything keeps all its rows, whatever ended, was
\* cancelled or came to nothing after it (finalize_cloud_run_retention).
NewestRunKept ==
    \A r \in Runs, b \in DOMAIN history :
      /\ OfRun(history, b, r) /\ Effective(history[b])
      /\ \A c \in DOMAIN history :
           c > b /\ history[c].run # None /\ history[c].origin \in RunOrigins
             => ~Effective(history[c])
      => \A c \in DOMAIN history : OfRun(history, c, r) => c \in kept
===============================================================================
