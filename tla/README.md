# Specifications of IELTS-PDF2Test

The program turns PDF and Word files of IELTS papers into exam drafts. It is a
Tauri desktop application: a Rust backend (`src/src-tauri/src`) with a SQLite
database, and a React frontend (`src/src`). An imported file becomes a *library
item* and a *job*. The job is worked on in the background, by local recognition
and by calls to a cloud model, while the user may already edit the item's draft.

These TLA+ modules specify the part where the order of events decides whether
the program is right: jobs and their tasks, the writes to a draft, the editor's
save loop, and the publication of finished drafts to the library that students
read. TLC checks them on small instances; TLAPS proves for every instance what
TLC checks of them, but for liveness.

## 1. The system

| Part | State | Operations | Talks to | What makes it correct |
| --- | --- | --- | --- | --- |
| Processing queue (`processing/queue.rs`) | table `processing_jobs_v2`: stage, local, cloud and reconcile status, error code, retry count, lease owner and expiry, cancel marker, event sequence | enqueue, claim_next, renew_lease, advance_stage, set_cloud_status, two finalizations without a lease, recover_on_startup, retry, request_cancel, record_cloud_direct_fallback | scheduler, commands, repository (edit lock) | one owner per running job, no lost cancel, rows leased exactly while running, recovery after a crash |
| Scheduler (`processing/scheduler.rs`) | tasks with their local variables, the set `cancelled`, local and cloud permits, the cache gate | claim loop, `run_job_inner`, `try_cloud_direct`, spawned cloud fetch, settlement, `finish_cancelled`, `set_item_status_ready` | queue, draft, library item, model gateway | a replaced task changes nothing, chains end, cancels are honoured, permits are not held in a cycle |
| Processing commands (`processing/commands.rs`) | staged uploads | import with splitting, compensation, retry, cancel | queue, library | an import is all or nothing |
| Library repository (`library/repository.rs`) | item row: draft, edit version, protected targets; journal; recovery snapshot | edit transaction with version check, replay detection, edit lock and protection; undo of a cloud run; journal retention | editor, cloud repair, adoption, answer page, audio binding | no lost update, a human's edit is not overwritten by a machine, a request is applied once, an undo takes back no later edit |
| Canonical editor (`features/editor/useCanonicalEditor.ts`, `conflictRecovery.ts`, `remoteVersion.ts`) | draft, version, pending patches, batch with request id, recovery record in localStorage | edit, save loop, automatic rebase, retry and discard, replay of the record, reload, deferred refresh | repository, update events | no edit is lost silently, none is applied twice, no save over a draft the user has not seen |
| Update events (`api/processingClient.ts`) | highest sequence seen | emit, deduplicate | scheduler, frontend | a change is seen in the end |
| Direct cloud documents (`cloud_direct.rs`, `cloud_direct/multi.rs`) | — | build a draft from a model answer, write it under the lease, settle a batch | scheduler, repository | parent and children settle together |
| Cloud candidate, adoption, repair (`reconcile/*`, `cloud_adoption.rs`, `cloud_repair/*`) | batch rows, repair run, budgets | align, adopt, repair rounds with tools, checkpoints | scheduler, repository | writes only while announced, within budget, undoable |
| Listening audio (`listening_audio/*`) | managed files, binding | bind, mirror into the draft | repository | file and draft agree |
| Publishing (`nas_package_v2.rs`, `authoring_v2.rs`, `authoring_export.rs`) | the library on the NAS: discovery manifest, scripts, resources, releases, backups, journals | publish a batch, publish one package, legacy export, recovery, rollback | library, final version | what students find is whole, nothing a listed exam needs is lost, publications do not overwrite each other |
| Final version (`library/final_version.rs`) | status, publish record, final version row, uploaded source and physical shadow | confirm, record, freeze the evidence, delete the sources, mark them deleted | publishing, processing | sources are deleted only when their evidence is frozen and the publication confirmed |
| Migration, artifacts, cleanup | files and rows | seed, store, delete | library | nothing half written |
| Model gateway, ingest, recognition, reconciliation data | — | calls and heuristics | scheduler | data rather than control |

`PROJECT.json` lists every part with its status, and every hazard with its line.

What is hard here: tasks that outlive their lease; a user who cancels and
retries at any moment; statements of one transaction's worth of meaning issued
one by one; a process that dies between two of them; permits shared by chains of
different shape; drafts written by people and by models; an editor that goes on
while its save, a read and a notification are on their way; a publication that
replaces many files in an order, may die after any of them, and may be recovered
by a publisher that dies as well.

## 2. Modules

| Module | What it is |
| --- | --- |
| `ProcessingQueue` | the job table: one action per SQL statement or transaction |
| `JobLifecycle` | what the table promises, without its columns |
| `QueueLifecycle` | the refinement mapping from the table to `JobLifecycle` |
| `MCProcessingQueue` | instances for TLC |
| `ProcessingQueue_proofs` | theorems about `ProcessingQueue` |
| `QueueLifecycle_proofs` | the table implements `JobLifecycle` |
| `Scheduler` | the tasks, the user and the process over the table; extends `ProcessingQueue` |
| `MCScheduler` | instances for TLC |
| `Scheduler_proofs` | theorems about `Scheduler`, and that it uses the table as `ProcessingQueue` says |
| `EditTransactions` | the draft of one item, its journal and its protection, under every writer |
| `MCEditTransactions` | instances for TLC: a task group with a slot, or a slot alone, and the exam |
| `EditTransactions_proofs` | theorems about what people set and what machines may write |
| `CloudUndo_proofs` | theorems about undo and retention of cloud runs, and the types of `EditTransactions` |
| `EditorSession` | one editor window against the transaction, the reads and the notifications |
| `EditorSession_proofs` | theorems about `EditorSession` |
| `NasLibrary` | the published library and its three publishers, one file operation a step |
| `MCNasLibrary` | the instance for TLC |
| `NasLibrary_proofs` | theorems about `NasLibrary` |
| `FinalVersion` | what a publication does to the items: status, record, evidence, sources |
| `MCFinalVersion` | the instance for TLC |
| `FinalVersion_proofs` | theorems about `FinalVersion` |

### ProcessingQueue

`row[j]` is the record of job `j` (`stage`, `local`, `cloud`, `err`, `retries`,
`owner`, `live`, `cancel`); `live` says that `lease_expires_at` has not passed,
`owner = None` that `lease_owner` is NULL. `spent` is the set of uuids already
drawn by claims. `boot` is the next statement of `recover_on_startup`: the three
statements are not one transaction, and commands of the user interface may run
between them.

In this module callers are left open: any worker may issue any call of
`advance_stage` that occurs in `scheduler.rs` (the set `Calls`), whenever the
statement's own conditions allow it. What holds here holds for every scheduler.

A test of the WHERE clauses is an operator of its own (`Holds`, `Claimable`,
`MayFinalizeReady`, `MayPersist`, `EditLocked`); the SET clause of
`advance_stage` is `Advanced`: a cancel marker turns any advance into
`cancelled`, NULL arguments keep columns (`Coalesce`), settled stages release
the lease.

Left out: `reconcile_status`, `actionable_count`, `progress_json` and the
timestamps, which no guard reads (the chain that `progress_json` asks for is in
`Scheduler`), and `event_seq`.

### JobLifecycle

A job is absent, waiting, working or ended; it has one holder while it is worked
on, a wish to cancel, and only holders that never held a job before take it.
`QueueLifecycle` maps stages to phases, `owner` to `holder`, `cancel` to
`wish`, `spent` to `former`.

### Scheduler

A task is named by the uuid of its claim. `task[w].pc` is the next thing
`run_job_inner` does; a step is the code between two awaits, so anything may
happen between two steps of a task, and a task whose lease has passed keeps
running beside the one that took its job over. `Staged` is the call of
`advance` that nearly every step makes: Ok with the stage that took effect, a
lost lease, or a database error after which the row is driven to `failed` if
that write gets through.

| Chain | Steps |
| --- | --- |
| local | permit, begin, recognize, publish, open, cycle, settle |
| cloud | queue the cloud part, recognize beside the fetch, publish, open, join, await the fetch, cycle, announce, adopt, answer page, repair, late answer page, settle or finalize without a lease, open |
| direct | stage, gate, permit, call, persist (and commit a batch), settle, open; or fall back to the local chain; or fail |

`chain[j]` is the chain that `progress_json` asks for: chosen at import and
again by each retry. The flags of `ProcessingState.cancelled` are `flagged`; a
command of the user is in flight in `cmd`, because `cancel` sets the flag, then
issues two statements, and `retry_job` takes the flag down first. Of the draft
only its last machine author is kept (`author`), of the library row only its
status (`item`).

What may go wrong is a *mishap*, bounded by `MaxMishaps`: the machine sleeps
through a lease (`sleep`), a statement fails (`database`), the process dies
(`crash`). A lease whose task is gone passes without one.

### EditTransactions

The draft gives every stable identity (*target*: a task group, a slot, a node,
`$top:exam`) a value. `history` is the ghost journal of all transactions ever
committed: row `b` was written over version `b`, so `Version` is
`Len(history) + 1`, and the journal of the code is the subset `kept` of it that
pruning and retention left. A row has its origin, the cloud run it belongs to,
and the values of its targets before and after, which is what `change_json`
holds. `column` is `protected_edits_json`, `marks` the objects with
`provenanceStatus: user_edited`.

`Apply` is `apply_editor_commands_tx_with`: lock, protection, CAS, journal,
column, pruning in one step. `Footprint` is what a command touches, a constant,
since the shape of the document does not change here; what it writes is the
target alone or the whole footprint (`Scopes`).

Writers that compute from what they read have two steps, with anything in
between: cloud candidate adoption, direct documents, the rules that fill empty
slots. Between the steps the draft they read is `pending`, and the second step
has the CAS (`Current`). The others (repair tools, answer page, audio, undo,
editor) send the version they read, and a refused transaction changes nothing,
so their read and write are one step. A chain is `frozen` when its baseline
version was read, `working` once `cloud_status` took the edit lock, `summed`
when the batch row has a terminal status, and `ended` or `lost` after that;
`lost` is a chain that left no summary. `Crash` also stands for a chain that
returns early and for a retention that fails and is only logged.

What the model admits beyond the code: the lock of a direct job is left out, so
people may edit around its write; an adoption may start after a cancel; a
candidate may replace every target outside the exam. What it leaves out: request
ids and replay (an adoption is not repeated for a run that has rows), titles,
`part_source` and `part_label`, the recovery snapshot, quality checks that
refuse a write, and objects that come into being or disappear. Paths inside a
target are not told apart: undo compares whole targets.

### EditorSession

`log` is the server's side: the journal, whose row `k` has base version `k`, as
in `EditTransactions`; of what a row holds only its writer, its request id and
the numbers of its edits are kept. `Verdict` is `apply_editor_commands_tx` as the
window sees it: replay by request id first, then the version, then the lock.

`s` is the hook: the refs and the state that decide something. The draft on the
screen is known by the version it was read at (`seen`) with the session's edits
on top; `version` is the version saves are based on. A step is the code between
two awaits, so that the loop goes from an answer to its next request in one step
(`Loop`), and everything else may come while a save (`wire`, `answer`) or a read
(`reads`) is under way. There are three kinds of reads: the load effect, the
rebase of the save loop, and the rebase of "retry save". An answer may be of any
version between question and answer, and its draft may be newer than its version,
because `get_workspace_item` reads them in two statements (`Answers`).

| Code | Action |
| --- | --- |
| `enqueue`, the debounce timer, the lock shown by the page | `Type`, `Flush`, `LookAtLock` |
| `persist` with its answers | `Loop`, `Saved`, `Refused` |
| `readServerDraft`, `conflictWasMachineOnly`, `adoptRebase` | `AutoRebase` |
| `recoverFromConflict`, `discardLocalChanges` | `Recover`, `Recovered`, `Discard` |
| `noteRemoteVersion`, `decideRemoteVersionAction`, `deferRemoteVersion` | `Hear`, `StillNewer` |
| the load effect with the recovery record | `Load`, `Replayed` |
| a page closed or reloaded | `Crash` |

Mishaps, of which a run has `MaxMishaps`: a busy database, the cloud review that
takes the edit lock, a notification without a version, a manual refresh, a read
that fails, a crash of the page. Ghosts name the cases in which the code knows
less than it should, so that the properties can except exactly these: `late` are
edits typed while a rebase waits (section 4), `twice` those that "retry save" puts
under a new request id although the server has them, `behind` is set when an older
read, or one that a deferred notification has overtaken, is adopted.

Left out: titles, the undo stack of the page, a draft that is not seeded yet, and
a second instance of the hook in the same window.

### NasLibrary

A publication is a number, and the content of a file is the number of the
publication that wrote it. Students load `manifest`, and from its entry of an exam
the script (`releases/<batch>/` of a batch, `<exam>.js` in the reading root of the
other two publishers) and `resources/<exam>/`. A backup directory holds the
manifest the publication is based on, the files it moved aside, and `state.json`;
a single publication has a journal besides.

A step is one operation on the file system: the code puts its guarantees on the
order of these, since the process may die between any two. The publisher's local
variables are `op`; `op.pc` is what it does next.

| Code | Action |
| --- | --- |
| `publish_items` under the library lock: baseline, `state.json`, resources aside and in place, CAS, `releases/<batch>`, manifest, committed flag, backup removed | `BatchBaseline`, `BatchState`, `BatchNote`, `Stash`, `Place`, `BatchVerify`, `BatchRelease`, `Replace`, `BatchFlag`, `DropPart`, `Discarded` |
| its rollback | `BatchConflict`, `BatchStepFails`, `BatchUndo`, `BatchUndoFails`, `Unrelease` |
| `publish_nas_package_v2`, `commit_package` | `SingleStage` to `SingleClose` |
| the rollback of `commit_package` | `SingleHide`, `SingleClear`, `SingleDrop`, `SingleBack`, `SingleRefit`, `SingleShow`, `SingleUndoFails` |
| `recover_incomplete_transactions`: `recover_interrupted_batches`, then the journals of single publications | `RecoverBatch`, `RecoverSingle`, `Restore`, `RestoreManifest`, `Unrelease`, `Recovered`, `RecoveryRefused`, `RecoveryFails` |
| `export_nas_library`, which takes no lock | `LegacyRead`, `LegacyWrite`, `LegacyTorn` |

What lies in a staging directory is private to its publisher and is left out, as
are reports and the lock file's text. `misled` is the ghost of what recovery does
not cover, eight cases, each set where it happens (`Stranded`, `BatchUndoFails`,
`SingleHide`, `SingleUndoFails`, `DiscardFails`, `Crash`, `LegacyWrite`, `LegacyTorn`) and described in
section 4: the properties speak of everything else.

`export` is the legacy exporter: it reads the manifest (`LegacyRead`), and any steps of the
publishers may come before it renames script and manifest into place (`LegacyWrite`), so
that what was committed in between is lost, or before it dies or fails between
the renames (`LegacyTorn`), so that a file is missing. A completed write is one step: a
publisher between its two renames is not modelled.

### FinalVersion

The other half of `publish_items`: what it does to the database and to the job's
directory, with the package of `NasLibrary` as the one step `Commit`. A draft is its
version and whether it lacks a question that the source declares (`lacks`), which
is what the evidence is for: `Declared` is what the publish gate knows, from the
shadow or from the frozen evidence, the latter only of an item marked as purged.

A publication takes the snapshot of all drafts in one transaction (`Snapshot`), and only
then tries the lock of the library, once (`Lock`): those in between are `waiting`, and one
with an older snapshot may get the lock after one with a newer. `pub` is the publication
that holds the lock, with its passes over the items one by one: gate, commit, status,
record, freeze, purge and mark. There is one library: publications to two
destinations, which have a lock each, are not modelled.
Beside it the editor writes (`Edit`), and a reprocessing checks the source, reads
it and puts shadow and draft back (`Retry`, `ReadSource`, `Reprocessed`). Mishaps are crashes
and failing steps. `unmarked` is the ghost of items whose sources were deleted
without the mark, `unrecorded` that of items whose publication ended between its commit
and its record (section 4).

## 3. Runs

| Run | Instance | What it shows |
| --- | --- | --- |
| `queue` | 2 jobs, 2 claims, 1 retry, 1 automatic recovery | the table's invariants under any caller: types, leases, owners, `CancelIsNotFailure`; `CancelSticks` for every step; the table implements `JobLifecycle` (`ImplementsLifecycle`) |
| `scheduler_direct` | 1 job, 2 claims, local and direct chains, one mishap of any kind, 1 retry | types; `PermitOrder`; `LocalChainUnlocked`; a stale task neither settles a job (`OnlyOwnerSettles`) nor writes its draft (`OnlyOwnerWritesDraft`) |
| `scheduler_cloud` | 1 job, 2 claims, cloud chain, one sleep or database error | `CloudWritesAreLocked`, `LocalResultSticks` |
| `liveness` | 1 job, all three chains, one attempt, one crash | `UncancelledJobsSettle`, `ReadyItemOpens`, `LocalCancelHonoured` under fairness |
| `edits` | 3 targets, 2 values, 2 cloud runs, 3 writes, 1 kept row of people | types and the journal's bound; `RepairKeepsPersonChoice`, `LateEditsKept`, `CategoryKept` |
| `undo` | 2 targets, 3 values, 2 cloud runs, 3 writes | `FillTouchesOnlyEmpty`, `UndoIsExact`, `NewestRunKept` |
| `editor` | 2 edits, 2 commits, 1 mishap, reads that return 1 journal row | types; `EditsKept`, `StoredOnce`, `SavesSawBase`, `NoSelfConflict`, `ShowsNews`, `PeopleDecide` |
| `nas` | 2 exams, 3 publications of any kind, 2 crashes, 2 failing operations; crashes, failures and exports at most 3 together | types; `NothingLost`, `WholeAtRest`, `ScriptsStay`, `ByWholePublications` |
| `final` | 2 items, 2 publications, 1 write, 1 mishap | types; `EvidenceKept`, `GapsAreForced`, `StatusTells`, `DeletionConfirmed` |
| `cancel_stuck` | direct chain, no mishap | violation of `CancelHonoured` under fairness |
| `edit_lost` | as `editor` | violation of `NoEditLost` |
| `purge_unmarked` | as `final` | violation of `EvidenceAlways` |

Bounds. Two claims are enough for a stale task beside the owner; one mishap
makes a task stale, and what follows needs none. Two jobs are what batches and
distinct owners need. One retry lets a row go through every column twice. A
`Claim` draws from `Workers`, so a run ends when all are spent: deadlock is
still checked, because a restart is always possible in `ProcessingQueue`, and in
`Scheduler` the user may always press a button.

In `edits` and `undo`, `MaxWrites = 3` and `JournalKept = 1` (200 in the code) let a row of
a person be pruned and missed: a choice, a second one that pushes its row out,
and the machine write that would go wrong. An undo after a later edit, a second
run over the rows of a first, and the fill of a slot that a person filled first
need three writes as well. The third value of `undo` tells a restored value from
one that was set meanwhile, and a fill from what a person put there; a group and
its slot in `edits` let protection of the one be needed for the other. Writes are bounded and nobody has to write, so a
state without a step is no error: `CHECK_DEADLOCK FALSE`. `LateEditsKept` speaks
of chains during which people wrote no more rows than the journal keeps.
Symmetry is that of the runs and, in `undo`, of the answers; the module has no liveness property.

`editor`, `nas` and `final` have 1.6, 1.7 and 2.2 million distinct states. In `editor` one
commit of another writer makes a conflict and a second one a conflict during the
rebase or a read that is overtaken; one edit is sent while the second is typed;
with one journal row in an answer, the second row is the one that is missing. One
mishap at a time is what the ghosts are exact for. In `nas` a first publication makes
the baseline, a second one dies, and a third recovers it, dies as well, or fails
once more: two crashes and two failures are the least for a recovery that is itself
interrupted; the second exam is there for entries that must be merged and for
batches that are half done. The constraint `Covered` of `MCNasLibrary` ends a behaviour
with the step that sets `misled`: the ghost is never taken back and the properties then
claim no more than types, which are proved. It also bounds
crashes, failures and exports together by three, since the run would double with a fourth: an
export still meets two mishaps, and without one two crashes meet a failure, or two failures a crash. In `final` the second publication is the one that finds
frozen evidence instead of the shadow, or that has waited with a snapshot from before the
first one and puts it out over what the first one confirmed, and the second item the one whose drift must
keep the first one's sources. The writes, publications and mishaps are bounded and
nobody has to act, hence `CHECK_DEADLOCK FALSE` for these three too. Symmetry is that of the
exams and items.

Fairness (`Fairness` in `Scheduler`). The runtime polls every task and its
spawned fetch, tokio semaphores are first come first served, the claim loop
ticks, and the clock passes the lease of a task that is gone: weak fairness of
each. A cancel or retry command that was accepted ends. The user is not obliged
to act and nothing is obliged to go wrong; a task is not obliged to sleep.
`Workers` bounds the claims, so the liveness run gives enough of them for the
mishap it allows: a crash needs a second claim. It has no retries, which would need
a third one, and no database error: a chain whose last write fails is settled by the
next restart and, if its local result is stored already, by nothing else.

## 4. Disagreements between code and text

Three are runs, quoted in `PROJECT.json`: a cancel that lands just before the
commit of a direct chain waits for a restart (`cancel_stuck`); an edit typed while a rebase
waits for the newest draft is dropped without a word (`edit_lost`); a crash between the
deletion of the sources and its mark leaves an item with neither sources nor
evidence (`purge_unmarked`).

Of the scheduler and the edit transactions, met while modelling, without a run of
their own: `finalize_ready_without_lease` asks for no owner, so that a stale cloud task ends
another task's attempt, and a cloud chain goes on writing the draft of a job that
is already cancelled, because only that `advance` returned Ok is kept: therefore
`OnlyOwnerSettles` and `OnlyOwnerWritesDraft` are about local and direct chains. The first
edit of a draft from before the protection column takes the protection of its old
marks away. A run without writes removes the offered undo, if the retention of the
run before it was lost and that run was undone. A stale direct task that falls back
(its job was cancelled and retried during the model call) marks the new attempt's
cloud part as failed, since `record_cloud_direct_fallback` writes by job id alone and
`direct_fallback` ignores what `advance` says: if the new attempt is a cloud chain, its
edit lock is lifted until its repair is announced, and for the rest of the attempt if
that write fails. A direct chain that falls back while both of its writes fail, the
`advance` and the record, goes on locally under the lock of its cloud part.
When `set_cloud_status_only` is refused the task returns, although
the comment says that local recognition still completes; a cancel marked between
the first and second statement of startup recovery is requeued with its marker;
the code `interrupted` stays on rows settled later; a crash between the last
advance of a direct chain and `set_item_status_ready` leaves the item
`processing`; a chain whose fetch failed has no terminal status, so what its late
answer page wrote is never offered for undo, although its retention counts it as
terminal and deletes the older run's rows; a candidate that arrives after 200
rows of people no longer sees the first of them; the rules may fill a slot that a
person cleared, since they test only that it is empty.

Of the editor: an older read that arrives after a save puts the older draft back
on the screen, and a notification that a rebase forgets is newer than what it
read, although the comment before `adoptRebase` says that the refresh is not lost (both
`behind`). "Retry save" during a save, or after one whose answer was lost, stores its
edits twice (`twice`). Discarding and typing before the load has answered sends a
save with base 0, which conflicts with nobody. A save refused because of the lock
is not sent again when its answer comes after the page saw the lock go. A record
that is replayed over a draft which already has its batch shows it without the edits
typed after it, until they are saved.

Of publishing: a crash after the backup directory is made and before its state file
is written, or while it is being removed, makes every later recovery fail with
`nas_package_v2_recovery_state_missing` (`RecoveryRefused`), although the comment at
`nas_package_v2.rs:2309` calls recovery idempotent. A first publication that fails past
its commit point reports that it was rolled back, but stays live, as there is no
baseline to put back. Two failures in a row leave a manifest that lists removed files
(`SingleUndoFails`) or a committed batch that recovery takes for an open one
(`DiscardFails`).

The legacy exporter takes no lock. An export during a transaction
is lost or taken for the transaction's own commit (`LegacyWrite`, `Crash`). What others put into
the manifest between its read and its rename is lost: the exams of a batch committed
meanwhile disappear from the manifest, and their database says that they are published
(`LegacyWrite`). One that dies between its renames leaves the script or the manifest in its
staging directory, from where no recovery brings it back (`LegacyTorn`).

`publish_items` reads the drafts before it tries the lock. A publication whose snapshot is older
than a version that was published and confirmed meanwhile puts the older draft out. It
finds the newer version when it confirms, and reports a drift: the status of the item
still says published, and only the record tells that students have
something else. If it dies or fails before it wrote that record, nothing tells (`unrecorded`).

The proof of `NasLibrary` found more cases, beyond the bounds of the
run. A legacy export replaces the manifest while a batch moves resources, the batch
sees the conflict, and a file of its rollback cannot be put back: the backup is kept,
as the comment before the end of `rollback_batch_resources` says (`nas_package_v2.rs:2075`,
"还原未完成时保留备份与状态文件，交给下一次 recover_incomplete_transactions 重放"), but that
recovery finds a manifest that differs from the baseline, takes the batch for committed
(`manifest_replaced_since_baseline`) and removes the only copy (`BatchUndoFails`). The
backup of a batch that recovery found to be committed stays when a file of it cannot be removed;
what tells of the commit is the live manifest, and the rollback of a later single
publication takes that away before it puts the older one back: a crash in between, and
the recovery takes the older batch back; or, with the backup of a batch that was rolled
back, puts the older manifest of that backup where the missing one was (`SingleHide`,
`RestoreManifest`: `restore_manifest_baseline` replaces a manifest it cannot read,
`nas_package_v2.rs:2212`). The same backup, being
removed by a recovery that has already removed the baseline in it and then dies,
no longer says that its batch is committed (`Crash`).

While a batch runs,
students see the old manifest with resources that are new already. A package whose
publisher dies after the commit is visible without status and record. A batch is
published without asking whether a cloud review holds the edit lock. An item published for authors
only keeps its older package live. The comment that deleting the shadow makes an item
unpublishable is out of date since the evidence is frozen.

## 5. Proofs

`ProcessingQueue_proofs` proves, for any set of jobs and workers and any
`MaxRecovery`, `MaxRetries` and `Outcomes` that satisfy the assumptions of
`ProcessingQueue`:

| Theorem | Property |
| --- | --- |
| `TypeCorrect` | `TypeOK` |
| `Leases` | `LeaseIffRunning` |
| `Owners` | `OwnersAreDistinct` |
| `CancelShown` | `CancelIsNotFailure` |
| `Cancels` | `CancelSticks` |

The first four follow from one inductive invariant, `IInv` (theorem
`Invariance`). None of them is inductive alone: that a cancelled row carries no
failure code needs to know which codes an active row can carry, since a forced
cancel of `CancelQueued` keeps the code; that owners are distinct needs to know
that rows which are not running have none. `Sound(r)` gathers what is said of a
single row, `IInv` adds types and distinct owners.

The argument: an operation that replaces one row by a sound row with the same
owner or none keeps `IInv` (`OneRowStep`); one over the whole table does too
(`TableStepIInv`); `Claim` is the only one that gives a row a new owner, and
draws it from outside `spent` (`ClaimIInv`). `AdvancedSound` is the case analysis
over `Calls`. `Cancels` needs types only: `CancelKept` is what `CancelSticks`
says of a step, shown action by action.

`QueueLifecycle_proofs` proves `Refinement`: `Spec => ImplementsLifecycle`. It
needs `IInv` for one thing, that rows which are not running have no owner: then a
statement that settles or requeues a row changes the holder of running jobs only
(`Ending`, `Interrupted`), and the rest is one row seen through the mapping
(`OneRowSeen`).

`Scheduler_proofs` proves, for any number of jobs, claims, permits and mishaps:

| Theorem | Property | Chains |
| --- | --- | --- |
| `SchedulerTypes` | `SchedulerTypeOK` | all |
| `PermitsOrdered` | `PermitOrder` | all |
| `LocalResultKept` | `LocalResultSticks` | all |
| `SettledByOwner` | `OnlyOwnerSettles` | local and direct |
| `WrittenByOwner` | `OnlyOwnerWritesDraft` | local and direct |
| `CloudWritesLocked` | `CloudWritesAreLocked` | local and cloud |
| `LocalUnlocked` | `LocalChainUnlocked` | all without database errors, else local and cloud |
| `UsesQueue` | `Spec` of `ProcessingQueue`, and with it `ImplementsLifecycle` (`SchedulerLifecycle`) | all |

A task reads its row at one step and acts at a later one, so what it may do
depends on what it saw; between the two, other tasks, the user, the clock and a
restart take steps. The inductive invariant `SInv` splits that in three.
`Coherent` is about a task alone: which chain it runs and what it holds, by where
it is. `Fits` is about a task and its row *while it has the lease*: the row is
that of its chain, no local result is stored before a certain point, and the
cloud column says what the chain declared. `Suits` is about a row alone: only cloud
chains reach `reconciling`, only chains with a cloud part say so. `IInv` of the
table is a conjunct.

The proof classes every step of a task instead of going through them for each
property: `StepOK` says that a step has one of few effects on the table (`Effect`,
with what the task must be to make the call, `MayCall`), writes drafts only as
`Drafts` allows, and leaves a task that its row fits (`Own`). One lemma per action
shows it, up to `TaskStepOK`; `EffectKeeps` shows once for all effects that another
task keeps the row it holds, and `TableKeeps` the same for steps without a task.
The theorems then look at `Effect` and `Drafts` only.

The hypotheses are needed, not convenient: with cloud chains `OnlyOwnerSettles` and
`OnlyOwnerWritesDraft` are false (section 4), with direct and cloud chains together
the record of a stale fallback undoes the lock, and `LocalChainUnlocked` fails when
two database errors meet in one fallback. The run `scheduler_direct` has one
mishap and does not show that.

`EditTransactions_proofs` proves, for any targets, footprints, values, documents,
runs and journal limit:

| Theorem | Property |
| --- | --- |
| `PersonChoiceIsSafe` | `RepairKeepsPersonChoice`, if `OldMarks \subseteq {{}}` |
| `CategoryIsSafe` | `CategoryKept` |
| `LateEditsAreSafe` | `LateEditsKept` |
| `FillIsSafe` | `FillTouchesOnlyEmpty` |

Its inductive invariant (`Sound`) says where the program remembers what people
did. `InColumn`: every target of every row a person ever wrote is in the
protection column, which nothing takes anything out of. `CategoryRowKept`: the
newest category command is never pruned. `PersonRowKept`: a row of a person that
is gone made room for `JournalKept` newer ones. `PendingSound`: a prepared write
that is still current says the truth about the draft, so that the CAS is all the
commit has to test; it is out of date with every other write (`OutOfDate`).
`WriteKinds` then splits all writes into four kinds, and each theorem excludes
the kinds that could hurt. The assumption of `PersonChoiceIsSafe` excludes drafts
from before the protection column (section 4): the theorem is false without it.

`CloudUndo_proofs` proves `UndoIsSafe` (`UndoIsExact`) and `NewestRunIsKept`
(`NewestRunKept`) from `RunsInv`: the rows of a run are in the journal all
together or not at all, those of the running one are all there, the rows of two
runs do not interleave, and rows that are gone were without effect or have a
later effective row. Together they say that the first and last row the journal
has of a run are those of the whole history.

`FinalVersion_proofs` proves, for any items and any bounds:

| Theorem | Property |
| --- | --- |
| `FinalTypes` | `FinalTypeOK` |
| `EvidenceIsKept` | `EvidenceKept` |
| `GapsNeedForce` | `GapsAreForced` |
| `StatusIsTrue` | `StatusTells` |
| `DeletionIsConfirmed` | `DeletionConfirmed` |

Its invariant (`Inv`) says for each stage of a publication what the passes before it have
established and nobody can have taken away: what was let out at the gate with a gap was
forced (`GateForces`); at the status pass, the snapshot is what students have
(`SnapshotIsLive`); from then on, an item that was confirmed and says it is published has
the version that students have, as long as the publication runs (`ConfirmedStands`);
while sources are deleted, every item of the batch is recorded without drift
(`RecordsWritten`) and the evidence of the one at hand is frozen (`EvidenceFrozen`). Of the
snapshot nothing can be assumed: it may be older than a version that is confirmed. So
`StatusTells` survives the commit only because a commit puts every item it
makes visible to the status pass, which confirms the version or notes a drift, and the drift
gets into the record; a publication that ends in between goes into
`unrecorded`. The other writers keep all of it, because a write takes the claim
away and a reprocessing only adds a shadow (`WriterInv`); so does any end of a publication,
if what was deleted without a mark goes into `unmarked` (`EndInv`).

`EditorSession_proofs` proves, for any number of edits, writes, mishaps and journal
rows that a read returns:

| Theorem | Property |
| --- | --- |
| `EditorTypes` | `EditorTypeOK` |
| `NoEditIsLost` | `EditsKept` |
| `EditsOnce` | `StoredOnce` |
| `BasesAreSeen` | `SavesSawBase` |
| `ConflictsAreReal` | `NoSelfConflict` |
| `NewsShown` | `ShowsNews` |
| `MachinesOnly` | `PeopleDecide` |

What is unsaved exists in up to three copies: in the session, in the automatic
rebase that took it along (`auto`), and in the recovery that the user asked for
(`taken`). Which of them becomes the session's depends on the order in which reads and
answers come back. So the invariant (`IInv`, theorem `EditorSound`) says of *each* copy both
things that make it fit to take over: it has every edit that is not done with
(`CopiesOK`), and none that the journal has before the version it is based on
(`WorkOK`, `RebaseOK`, `Apart`). `AnswerOK` and `WireOK` tie the save under way to
the session that waits for it, through a lost answer and a second sending. The
recovery record is what the session has (`RecordOf`), or, while nothing is read yet,
all there is (`Kept`). `ViewOK` and `NewsOK` are about the screen: each version the
session counts as its own is on it, and news that is not on it waits in `deferred`, in a
read or in the save. They are required only while the ghost `behind` is false; the ghosts
`late` and `twice` are what the other parts except. The parts together are `Ready`,
with the ghosts as parameters, so that a step which changes a ghost is one
application of the same lemma.

`NasLibrary_proofs` proves, for any exams and any number of publications, crashes
and failures:

| Theorem | Property |
| --- | --- |
| `NasTypes` | `NasTypeOK` |
| `FilesAreKept` | `NothingLost` |
| `LibraryIsWhole` | `WholeAtRest` |
| `EntriesHaveScripts` | `ScriptsStay` |
| `WholePublications` | `ByWholePublications` |

The invariant (`IInv`, theorem `NasSound`) says that at most one publication `x` is open:
the publisher's own, or one that was left and is to be taken back. `BaseOf`, `ScriptIn`
and `ResIn` are the library as it is once the backup of `x` is put back, whatever part
of it is still in the backup; `Restorable` says that this library is whole, and every
step of moving aside, placing, rolling back or restoring leaves it as it is. Before
the commit point that is what the proof rests on; the commit is the step that makes the library
in place (`InPlace`) the whole one. `BatchAt`, `SingleBase` and `SingleFiles` say which
files are where at each step, `LeftBatch` and `LeftSingle` what remains of that after
a crash at any of them. `Settled` is about all other publications that were left: each
is a batch that is seen to be committed, whichever manifest may still come back
(`Sure`, `Never`), or has nothing to put back (`Harmless`). `Waiting` is about a
publisher that recovers before it begins. All of it holds unless `misled`; a step that
sets the ghost ends the obligation, and for every other one there is a
lemma. `ExportTypes` says that what
an export has read is a manifest, of which nothing more is known: it may be older than
anything that is kept. That a batch may put its baseline back when it finds no
manifest is why `Harmless` requires of a batch left behind that its manifest is there, or that
it is committed or has no baseline, and `Settled` that a recovery of a batch under way
was built on the manifest there is (`BatchKeepsManifest` is the step). The ghost had to be set in
more cases than the run reaches (section 4): with those steps the invariant cannot be kept.
`WholePublications` says of an export no more than that its entry goes over what it read, or
that it leaves no manifest.

Not proved: liveness (`UncancelledJobsSettle`, `ReadyItemOpens`, `LocalCancelHonoured`), which the
prover does not cover under fairness, and the properties of the three violation runs,
which are false.

The assumptions on constants: job ids are natural numbers (they are ordered by
`created_at`), `None` is no worker, the limits are natural numbers, `Outcomes`
are cloud statuses. In `Scheduler`, there is a permit of each kind, and `Outcomes` has
the two that chains without a cloud part report. In `EditTransactions`, a target is in its own footprint, the
category is a target whose footprint is itself, `None` is no run and no set of
targets, and the journal keeps at least one row. In `EditorSession`, `None` is no
number, no sequence and no record of those that may be missing. In `NasLibrary` the bounds
are natural numbers, and nothing is assumed of the exams: there may be none, or infinitely many.

## 6. Not modelled

Prompts, parsing, geometry, alignment, adjudication and quality checks (most of the
lines of the program: `authoring_pipeline.rs`, `auto_pipeline.rs`, `ielts_grammar/`, `pdf_geometry.rs`,
`reconcile/candidate.rs`) are functions over one document without another actor: the models
keep that they end and how, and what they return is chosen. Their correctness is a
matter of examples, which the repository has as golden fixtures. Rendering, the exam
canvas, export formats and file layout are left out.

Control that is left out:

- The gateway to the models (`llm_gateway.rs`): its retries and timeouts end in an answer
  or an error, which is all that the tasks of `Scheduler` see.
- Imports: staging copies one file, and `compensate_failed_import` is one transaction of the
  command that fails, on rows that no other actor knows of yet.
- Decisions of the review panel (`reconcile/store.rs`): accept, reject and supersede go through
  the same edit transaction as the actions of `EditTransactions`; the rows of decisions are
  read by the panel alone.
- Budgets and checkpoints of a repair: counters of one task, between two of its own steps.
- Copying audio files: the binding is in `EditTransactions`, the copy is private to its command.
- The artifact store: the one operation with a version check is called from tests only.
- Migration and schema: run before anything else has the database.
- The second publisher of writing tasks, which repeats the shape of the legacy export.
- Second failures beyond the bounds: `nas` has three disturbances, exports included, `final`, `editor` and the
  scheduler runs have one.

## 7. What is left

A joint instance of `NasLibrary` and `FinalVersion`, whose composition is stated here only
as one step standing for the other's transaction; liveness of `EditorSession` (a save in the
end, if the server answers); the decisions of the review panel; a publisher between the
two renames of a legacy export, and two libraries in `FinalVersion`; an abstract library of which `NasLibrary` is an implementation.
