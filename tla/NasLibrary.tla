---------------------------- MODULE NasLibrary ----------------------------
(***************************************************************************)
(* The published library on the NAS (nas_package_v2.rs): a discovery       *)
(* manifest that students load, scripts and resource directories it points *)
(* to, and three ways to change them:                                      *)
(*   "batch"   publish_items, the product's publish button;                *)
(*   "single"  publish_nas_package_v2, the one-package publisher;          *)
(*   "legacy"  export_nas_library, which takes no lock.                    *)
(* Batch and single publishers hold the exclusive lock of the library,     *)
(* first recover what an earlier, interrupted publisher left, and back up  *)
(* every file they replace.  A step is one file-system operation, since    *)
(* the process may die between any two of them.                            *)
(*                                                                         *)
(* A publication is a number, the content of a file is the number of the   *)
(* publication that wrote it, and 0 is a file that does not exist.  What   *)
(* lies in a staging directory is private to its publisher and is not      *)
(* modelled; neither is the content of reports and lock metadata.          *)
(***************************************************************************)
EXTENDS Naturals, FiniteSets

CONSTANTS
    Exam,          \* the exams of the library
    MaxPublish,    \* bound: publications ever started
    MaxCrashes,    \* bound: crashes of a publisher
    MaxFailures    \* bound: file-system operations that fail

ASSUME BoundsAssumption ==
    MaxPublish \in Nat /\ MaxCrashes \in Nat /\ MaxFailures \in Nat

Pubs == 1 .. MaxPublish

VARIABLES
    manifest,   \* manifest.js: the publication that wrote it, its entries
    script,     \* <exam>.js in the reading root (single and legacy)
    resources,  \* resources/<exam>/ in the reading root
    releases,   \* the batches whose releases/<batch>/ directory exists
    backup,     \* the backup directory of each publication
    journal,    \* the journal of each single publication
    kind,       \* who each publication was started by
    op,         \* the publisher that holds the lock
    export,     \* the legacy export under way: the manifest it has read
    used,       \* publications started so far
    crashes,    \* crashes so far
    failures,   \* failures so far
    misled      \* ghost: a case that recovery does not cover (Stranded,
                \* BatchUndoFails, SingleHide, SingleUndoFails, DiscardFails,
                \* Crash, LegacyWrite and LegacyTorn)

disk == <<manifest, script, resources, releases, backup, journal>>
vars == <<manifest, script, resources, releases, backup, journal, kind, op,
          export, used, crashes, failures, misled>>

Nothing == [e \in Exam |-> 0]
NoManifest == [by |-> 0, entry |-> Nothing]

\* `state` is the presence of state.json; the fields after it are its content.
NoBackup == [dir |-> FALSE, base |-> NoManifest, res |-> Nothing,
             script |-> 0, state |-> FALSE, committed |-> FALSE,
             hadManifest |-> FALSE, exams |-> {}]

\* The publisher's local variables: `rec` is the publication it is recovering
\* (0: none), `seen` those it has recovered, `noted` and `had` the exams whose
\* resources it moves and those that had some, `base` the manifest it builds on.
Idle == [pc |-> "idle", id |-> 0, exams |-> {}, base |-> NoManifest,
         rec |-> 0, seen |-> {}, todo |-> {}, cur |-> {}, noted |-> {},
         had |-> {}, live |-> FALSE, failing |-> FALSE, stuck |-> FALSE]

NoExport == [busy |-> FALSE, base |-> NoManifest]

Init ==
    /\ manifest = NoManifest
    /\ script = Nothing
    /\ resources = Nothing
    /\ releases = {}
    /\ backup = [p \in Pubs |-> NoBackup]
    /\ journal = [p \in Pubs |-> "none"]
    /\ kind = [p \in Pubs |-> "none"]
    /\ op = Idle
    /\ export = NoExport
    /\ used = 0
    /\ crashes = 0
    /\ failures = 0
    /\ misled = FALSE

\* The publication whose backup the publisher is working on.
target == IF op.rec = 0 THEN op.id ELSE op.rec

At(pc) == op.pc = pc
Goto(pc) == op' = [op EXCEPT !.pc = pc]
Fails ==
    /\ failures < MaxFailures /\ failures' = failures + 1
    /\ UNCHANGED <<kind, export, used, crashes, misled>>
Quiet == UNCHANGED <<kind, export, used, crashes, failures, misled>>

(***************************************************************************)
(* What an interrupted publisher left: a batch's backup directory with its *)
(* state file, a single publication's journal that is neither committed    *)
(* nor recovered.                                                          *)
(***************************************************************************)
BatchLeft == {p \in Pubs : kind[p] = "batch" /\ backup[p].state}
SingleLeft == {p \in Pubs : kind[p] = "single" /\ journal[p] = "open"}
Left == BatchLeft \cup SingleLeft

\* Slip: only the state file is asked.
CommittedByFlag(p) == backup[p].committed

\* Whether the batch reached its commit point, judged by the files: the state
\* says so, the live manifest differs from the baseline, or it is the one the
\* batch was about to install.
Committed(p) ==
    \/ backup[p].committed
    \/ /\ backup[p].base.by # 0
       /\ manifest.by \notin {0, backup[p].base.by}
    \/ /\ backup[p].base.by = 0 /\ ~backup[p].hadManifest
       /\ manifest.by # 0
    \/ manifest.by = p

-----------------------------------------------------------------------------
(***************************************************************************)
(* Starting: take the lock, then recover.                                  *)
(***************************************************************************)
Start(k, S) ==
    /\ At("idle") /\ used < MaxPublish
    /\ used' = used + 1
    /\ kind' = [kind EXCEPT ![used + 1] = k]
    /\ op' = [Idle EXCEPT !.pc = "recover", !.id = used + 1, !.exams = S]
    /\ UNCHANGED <<disk, export, crashes, failures, misled>>

StartBatch == \E S \in SUBSET Exam \ {{}} : Start("batch", S)
StartSingle == \E e \in Exam : Start("single", {e})

(***************************************************************************)
(* Recovery: the batches first, then the journals.  A batch past its       *)
(* commit point only loses its backup; any other gets its files back.      *)
(***************************************************************************)
RecoverBatch ==
    /\ At("recover")
    /\ \E p \in BatchLeft \ op.seen :
         op' = [op EXCEPT !.rec = p, !.seen = @ \cup {p},
                  !.pc = IF Committed(p) THEN "discard" ELSE "restore"]
    /\ UNCHANGED disk /\ Quiet

\* The first publication of a library is taken back without a manifest to put
\* back, although it had moved files aside: those an interrupted batch left.
Stranded(p) ==
    /\ manifest.by = p /\ backup[p].base.by = 0
    /\ (backup[p].res # Nothing \/ backup[p].script # 0)

RecoverSingle ==
    /\ At("recover") /\ BatchLeft \subseteq op.seen
    /\ \E p \in SingleLeft \ op.seen :
         /\ backup[p].dir => backup[p].state
         /\ op' = [op EXCEPT !.rec = p, !.seen = @ \cup {p}, !.pc = "restore"]
         /\ misled' = (misled \/ Stranded(p))
    /\ UNCHANGED <<disk, kind, export, used, crashes, failures>>

\* A backup directory without its state file fails the recovery, and with it
\* the publication.  (The other refusal, a file neither in place nor in the
\* backup, cannot arise: NothingLost.)
RecoveryRefused ==
    /\ At("recover") /\ BatchLeft \subseteq op.seen
    /\ \E p \in SingleLeft \ op.seen : backup[p].dir /\ ~backup[p].state
    /\ op' = Idle
    /\ UNCHANGED disk /\ Quiet

\* A single publication that failed past its commit point recovers in place
\* and ends; any other goes on and reads the manifest it builds on.
Recovered ==
    /\ At("recover") /\ Left \subseteq op.seen
    /\ IF op.failing THEN op' = Idle ELSE
         op' = [op EXCEPT !.base = manifest, !.seen = {}, !.pc = "stage"]
    /\ UNCHANGED disk /\ Quiet

(***************************************************************************)
(* Putting a file back: the live one is removed if the backup exists, then *)
(* the backup is renamed into place.                                       *)
(***************************************************************************)
BackupOfRes == {e \in backup[target].exams : backup[target].res[e] # 0}
BackupOfScript == {e \in backup[target].exams : backup[target].script # 0}

PutBack ==
    \/ \E e \in BackupOfRes :
         \/ /\ resources[e] # 0
            /\ resources' = [resources EXCEPT ![e] = 0]
            /\ UNCHANGED <<script, backup>>
         \/ /\ resources[e] = 0
            /\ resources' = [resources EXCEPT ![e] = backup[target].res[e]]
            /\ backup' = [backup EXCEPT ![target].res[e] = 0]
            /\ UNCHANGED script
    \/ \E e \in BackupOfScript :
         \/ /\ script[e] # 0
            /\ script' = [script EXCEPT ![e] = 0]
            /\ UNCHANGED <<resources, backup>>
         \/ /\ script[e] = 0
            /\ script' = [script EXCEPT ![e] = backup[target].script]
            /\ backup' = [backup EXCEPT ![target].script = 0]
            /\ UNCHANGED resources

Restore ==
    /\ At("restore")
    /\ PutBack
    /\ UNCHANGED <<manifest, releases, journal, op>> /\ Quiet

\* Slip: the manifest is not put back.
RestoreManifestNot ==
    /\ At("restore") /\ BackupOfRes = {} /\ BackupOfScript = {}
    /\ Goto(IF kind[target] = "batch" THEN "unrelease" ELSE "discard")
    /\ UNCHANGED <<manifest, script, resources, releases, backup, journal>> /\ Quiet

\* Then the manifest: a single publication puts its copy back over what is there,
\* a batch its baseline unless it is still in place.
RestoreManifest ==
    /\ At("restore") /\ BackupOfRes = {} /\ BackupOfScript = {}
    /\ IF /\ backup[target].base.by # 0
          /\ kind[target] = "batch" => manifest.by # backup[target].base.by
         THEN /\ manifest' = backup[target].base
              /\ backup' = [backup EXCEPT ![target].base = NoManifest]
         ELSE UNCHANGED <<manifest, backup>>
    /\ Goto(IF kind[target] = "batch" THEN "unrelease" ELSE "discard")
    /\ UNCHANGED <<script, resources, releases, journal>> /\ Quiet

\* releases/<batch> of a batch that did not commit is removed: by a recovery
\* before the backup, by the batch's own rollback after it.
Unrelease ==
    /\ At("unrelease")
    /\ releases' = releases \ {target}
    /\ IF op.rec = 0 THEN op' = Idle ELSE Goto("discard")
    /\ UNCHANGED <<manifest, script, resources, backup, journal>> /\ Quiet

(***************************************************************************)
(* Removing a backup directory takes its files one by one, in the order    *)
(* the file system lists them, then the directory.                         *)
(***************************************************************************)
DropPart ==
    /\ At("discard")
    /\ LET b == backup[target] IN
         \/ b.base.by # 0 /\ backup' = [backup EXCEPT ![target].base = NoManifest]
         \/ b.state /\ backup' = [backup EXCEPT ![target].state = FALSE]
         \/ b.res # Nothing /\ backup' = [backup EXCEPT ![target].res = Nothing]
         \/ b.script # 0 /\ backup' = [backup EXCEPT ![target].script = 0]
    /\ UNCHANGED <<manifest, script, resources, releases, journal, op>> /\ Quiet

\* Where the publisher goes once the directory is gone.
AfterDiscard ==
    IF op.rec # 0 THEN [op EXCEPT !.rec = 0, !.pc = "recover"]
    ELSE IF kind[op.id] = "batch" /\ op.failing
           THEN [op EXCEPT !.pc = "unrelease"] ELSE Idle

Discarded ==
    /\ At("discard")
    /\ LET b == backup[target] IN
         b.base.by = 0 /\ ~b.state /\ b.res = Nothing /\ b.script = 0
    /\ backup' = [backup EXCEPT ![target] = NoBackup]
    /\ journal' = IF kind[target] = "single" /\ op.rec # 0
                    THEN [journal EXCEPT ![target] = "closed"] ELSE journal
    /\ op' = AfterDiscard
    /\ UNCHANGED <<manifest, script, resources, releases>> /\ Quiet

-----------------------------------------------------------------------------
(***************************************************************************)
(* publish_items: every exam is exported and packaged in staging first.    *)
(***************************************************************************)
Batch(pc) == At(pc) /\ op.rec = 0 /\ kind[op.id] = "batch"

\* The baseline of the manifest, then the state file.
BatchBaseline ==
    /\ Batch("stage")
    /\ backup' = [backup EXCEPT ![op.id].dir = TRUE, ![op.id].base = manifest]
    /\ Goto("state")
    /\ UNCHANGED <<manifest, script, resources, releases, journal>> /\ Quiet

WriteState(noted, committed) ==
    backup' = [backup EXCEPT ![op.id].state = TRUE, ![op.id].exams = noted,
                 ![op.id].committed = committed,
                 ![op.id].hadManifest = manifest.by # 0]

BatchState ==
    /\ Batch("state")
    /\ WriteState({}, FALSE)
    /\ op' = [op EXCEPT !.todo = op.exams, !.pc = "next"]
    /\ UNCHANGED <<manifest, script, resources, releases, journal>> /\ Quiet

\* Slip: the state file does not yet name the exam whose files are moved.
BatchNoteLate ==
    /\ Batch("next")
    /\ \E e \in op.todo :
         /\ WriteState(op.noted, FALSE)
         /\ op' = [op EXCEPT !.todo = @ \ {e}, !.cur = {e},
                     !.noted = @ \cup {e},
                     !.had = IF resources[e] # 0 THEN @ \cup {e} ELSE @,
                     !.pc = IF resources[e] # 0 THEN "stash" ELSE "place"]
    /\ UNCHANGED <<manifest, script, resources, releases, journal>> /\ Quiet

\* The exam is noted in the state file before its files are touched.
BatchNote ==
    /\ Batch("next")
    /\ \E e \in op.todo :
         /\ WriteState(op.noted \cup {e}, FALSE)
         /\ op' = [op EXCEPT !.todo = @ \ {e}, !.cur = {e},
                     !.noted = @ \cup {e},
                     !.had = IF resources[e] # 0 THEN @ \cup {e} ELSE @,
                     !.pc = IF resources[e] # 0 THEN "stash" ELSE "place"]
    /\ UNCHANGED <<manifest, script, resources, releases, journal>> /\ Quiet

Stash ==
    /\ At("stash")
    /\ \E e \in op.cur :
         /\ backup' = [backup EXCEPT ![op.id].res[e] = resources[e]]
         /\ resources' = [resources EXCEPT ![e] = 0]
    /\ Goto(IF kind[op.id] = "batch" THEN "place" ELSE "exam")
    /\ UNCHANGED <<manifest, script, releases, journal>> /\ Quiet

Place ==
    /\ At("place")
    /\ \E e \in op.cur : resources' = [resources EXCEPT ![e] = op.id]
    /\ Goto(IF kind[op.id] = "batch" THEN "next" ELSE "replace")
    /\ UNCHANGED <<manifest, script, releases, backup, journal>> /\ Quiet

\* Slip: the manifest is not compared with the one read.
UnmovedUnchecked == TRUE

\* The manifest must still be the one the publication was built on.
Unmoved == manifest.by = op.base.by

BatchVerify ==
    /\ Batch("next") /\ op.todo = {}
    /\ Unmoved
    /\ Goto("release")
    /\ UNCHANGED disk /\ Quiet

BatchRelease ==
    /\ Batch("release")
    /\ releases' = releases \cup {op.id}
    /\ Goto("replace")
    /\ UNCHANGED <<manifest, script, resources, backup, journal>> /\ Quiet

\* Slip: the entries of the other exams are not merged.
ReplaceAlone ==
    /\ At("replace")
    /\ manifest' = [by |-> op.id, entry |-> [e \in op.exams |-> op.id]]
    /\ op' = [op EXCEPT !.live = TRUE, !.pc = "flag"]
    /\ UNCHANGED <<script, resources, releases, backup, journal>> /\ Quiet

\* The commit point: the manifest built from the baseline replaces the live one.
Replace ==
    /\ At("replace")
    /\ manifest' = [by |-> op.id,
                    entry |-> [e \in Exam |-> IF e \in op.exams THEN op.id
                                              ELSE op.base.entry[e]]]
    /\ op' = [op EXCEPT !.live = TRUE, !.pc = "flag"]
    /\ UNCHANGED <<script, resources, releases, backup, journal>> /\ Quiet

BatchFlag ==
    /\ Batch("flag")
    /\ WriteState(op.noted, TRUE)
    /\ Goto("discard")
    /\ UNCHANGED <<manifest, script, resources, releases, journal>> /\ Quiet

(***************************************************************************)
(* A batch that fails before its commit point rolls back: resources come   *)
(* back from the backup where there is one, and those that did not exist   *)
(* before are removed.  A rollback that cannot finish leaves the backup to *)
(* the next recovery.                                                      *)
(***************************************************************************)
BatchFail == [op EXCEPT !.failing = TRUE, !.pc = "undo"]

BatchConflict ==
    /\ Batch("next") /\ op.todo = {}
    /\ ~Unmoved
    /\ op' = BatchFail
    /\ UNCHANGED disk /\ Quiet

BatchStepFails ==
    /\ \E pc \in {"stage", "state", "next", "stash", "place", "release", "replace"} :
         Batch(pc)
    /\ Fails
    /\ op' = BatchFail
    /\ UNCHANGED disk

\* The state file past the commit point is a note: failing to write it is not.
BatchFlagFails ==
    /\ Batch("flag")
    /\ Fails
    /\ Goto("discard")
    /\ UNCHANGED disk

\* A legacy export has replaced the manifest that the transaction is built on.
Overwritten == manifest.by \notin {op.base.by, op.id}

Fresh == {e \in op.noted \ op.had : resources[e] # 0}

BatchUndo ==
    /\ Batch("undo")
    /\ \/ PutBack /\ UNCHANGED op
       \/ /\ \E e \in Fresh : resources' = [resources EXCEPT ![e] = 0]
          /\ UNCHANGED <<script, backup, op>>
       \/ /\ BackupOfRes = {} /\ Fresh = {}
          /\ Goto(IF backup[op.id].dir THEN "discard" ELSE "unrelease")
          /\ UNCHANGED <<script, resources, backup>>
    /\ UNCHANGED <<manifest, releases, journal>> /\ Quiet

\* A file that cannot be put back or removed: the backup is kept for the next
\* recovery, which takes a manifest that was overwritten for the batch's own.
BatchUndoFails ==
    /\ Batch("undo")
    /\ BackupOfRes \cup Fresh # {}
    /\ failures < MaxFailures /\ failures' = failures + 1
    /\ misled' = (misled \/ Overwritten)
    /\ Goto("unrelease")
    /\ UNCHANGED <<disk, kind, export, used, crashes>>

-----------------------------------------------------------------------------
(***************************************************************************)
(* publish_nas_package_v2: one exam, its script in the reading root.       *)
(***************************************************************************)
Single(pc) == At(pc) /\ op.rec = 0 /\ kind[op.id] = "single"

\* The journal, the package in staging, the manifest checked and merged.
SingleStage ==
    /\ Single("stage")
    /\ journal' = [journal EXCEPT ![op.id] = "open"]
    /\ IF Unmoved THEN op' = [op EXCEPT !.cur = op.exams, !.pc = "dir"]
       ELSE op' = Idle
    /\ UNCHANGED <<manifest, script, resources, releases, backup>> /\ Quiet

SingleDir ==
    /\ Single("dir")
    /\ backup' = [backup EXCEPT ![op.id].dir = TRUE]
    /\ Goto("state")
    /\ UNCHANGED <<manifest, script, resources, releases, journal>> /\ Quiet

SingleState ==
    /\ Single("state")
    /\ backup' = [backup EXCEPT ![op.id].state = TRUE, ![op.id].exams = op.exams]
    /\ Goto("copy")
    /\ UNCHANGED <<manifest, script, resources, releases, journal>> /\ Quiet

SingleCopy ==
    /\ Single("copy")
    /\ backup' = [backup EXCEPT ![op.id].base = manifest]
    /\ Goto("aside")
    /\ UNCHANGED <<manifest, script, resources, releases, journal>> /\ Quiet

SingleAside ==
    /\ Single("aside")
    /\ \E e \in op.cur :
         /\ backup' = [backup EXCEPT ![op.id].script = script[e]]
         /\ script' = [script EXCEPT ![e] = 0]
         /\ Goto(IF resources[e] # 0 THEN "stash" ELSE "exam")
    /\ UNCHANGED <<manifest, resources, releases, journal>> /\ Quiet

SingleExam ==
    /\ Single("exam")
    /\ \E e \in op.cur : script' = [script EXCEPT ![e] = op.id]
    /\ Goto("place")
    /\ UNCHANGED <<manifest, resources, releases, backup, journal>> /\ Quiet

\* The journal's manifest_committed, then the report and its committed.
SingleNote ==
    /\ Single("flag")
    /\ Goto("close")
    /\ UNCHANGED disk /\ Quiet

SingleClose ==
    /\ Single("close")
    /\ journal' = [journal EXCEPT ![op.id] = "closed"]
    /\ Goto("discard")
    /\ UNCHANGED <<manifest, script, resources, releases, backup>> /\ Quiet

(***************************************************************************)
(* Failures of a single publication: before the backup is complete the     *)
(* error leaves what there is, or puts the script back and cleans up; once *)
(* the package is being installed everything is undone; past the commit    *)
(* point the recovery runs at once.                                        *)
(***************************************************************************)
SingleStateFails ==
    /\ Single("state")
    /\ Fails
    /\ op' = Idle
    /\ UNCHANGED disk

SingleBackupFails ==
    /\ Single("copy") \/ Single("aside") \/ Single("stash")
    /\ Fails
    /\ \E e \in op.cur :
         /\ script' = [script EXCEPT ![e] =
                         IF @ = 0 THEN backup[op.id].script ELSE @]
         /\ backup' = [backup EXCEPT ![op.id].script = 0]
    /\ Goto("discard")
    /\ UNCHANGED <<manifest, resources, releases, journal>>

SingleInstallFails ==
    /\ \E pc \in {"exam", "place", "replace", "flag"} : Single(pc)
    /\ Fails
    /\ Goto("hide")
    /\ UNCHANGED disk

SingleCloseFails ==
    /\ Single("close")
    /\ Fails
    /\ op' = [op EXCEPT !.failing = TRUE, !.pc = "recover"]
    /\ UNCHANGED disk

\* The rollback's steps in order; one that fails is reported and the next one
\* is tried, but then the backup is kept for the next recovery.
UndoNext == [hide |-> "clear", clear |-> "drop", drop |-> "back",
             back |-> "refit", refit |-> "show", show |-> "discard"]

Undo(pc) ==
    /\ Single(pc)
    /\ op' = IF pc = "show" /\ op.stuck THEN Idle
             ELSE [op EXCEPT !.pc = UndoNext[pc]]
    /\ UNCHANGED <<releases, journal, kind, export, used, crashes, failures>>

\* `misled` when the backup of an older batch was kept because a file of it could
\* not be removed: with the manifest hidden, a recovery finds that the batch did
\* not commit, and puts its baseline in the manifest's place.
SingleHide ==
    /\ Undo("hide")
    /\ manifest' = IF op.live THEN NoManifest ELSE manifest
    /\ misled' = (misled \/ /\ op.live
                            /\ \E p \in BatchLeft :
                                 /\ ~backup[p].committed
                                 /\ p \in releases \/ backup[p].base.by # 0)
    /\ UNCHANGED <<script, resources, backup>>

SingleClear ==
    /\ Undo("clear")
    /\ UNCHANGED misled
    /\ \E e \in op.cur : script' = [script EXCEPT ![e] = 0]
    /\ UNCHANGED <<manifest, resources, backup>>

SingleDrop ==
    /\ Undo("drop")
    /\ UNCHANGED misled
    /\ \E e \in op.cur : resources' = [resources EXCEPT ![e] = 0]
    /\ UNCHANGED <<manifest, script, backup>>

SingleBack ==
    /\ Undo("back")
    /\ UNCHANGED misled
    /\ \E e \in op.cur :
         script' = [script EXCEPT ![e] = IF backup[op.id].script = 0 THEN @
                                         ELSE backup[op.id].script]
    /\ backup' = [backup EXCEPT ![op.id].script = 0]
    /\ UNCHANGED <<manifest, resources>>

SingleRefit ==
    /\ Undo("refit")
    /\ UNCHANGED misled
    /\ \E e \in op.cur :
         /\ resources[e] = 0 \/ backup[op.id].res[e] = 0
         /\ resources' = [resources EXCEPT ![e] = @ + backup[op.id].res[e]]
         /\ backup' = [backup EXCEPT ![op.id].res[e] = 0]
    /\ UNCHANGED <<manifest, script>>

SingleShow ==
    /\ Undo("show")
    /\ UNCHANGED misled
    /\ IF backup[op.id].base.by # 0 /\ (op.live \/ manifest.by = 0)
         THEN /\ manifest' = backup[op.id].base
              /\ backup' = [backup EXCEPT ![op.id].base = NoManifest]
         ELSE UNCHANGED <<manifest, backup>>
    /\ UNCHANGED <<script, resources>>

\* `misled` when the manifest that is live already cannot be hidden: the files
\* it names are removed all the same.  A directory cannot be renamed over one
\* that is still there.
SingleUndoFails ==
    /\ \E pc \in DOMAIN UndoNext :
         /\ Single(pc)
         /\ op' = IF pc = "show" THEN Idle
                  ELSE [op EXCEPT !.stuck = TRUE, !.pc = UndoNext[pc]]
    /\ \/ failures < MaxFailures /\ failures' = failures + 1
       \/ /\ Single("refit") /\ UNCHANGED failures
          /\ \E e \in op.cur : resources[e] # 0 /\ backup[op.id].res[e] # 0
    /\ misled' = (misled \/ (Single("hide") /\ op.live))
    /\ UNCHANGED <<disk, kind, export, used, crashes>>

-----------------------------------------------------------------------------
(***************************************************************************)
(* Faults.                                                                 *)
(***************************************************************************)
\* A file of a backup cannot be removed (it is open elsewhere): a batch, and
\* the clean-up of a single publication, ignore it, a recovery of a single
\* publication fails.  `misled` when what stays is a batch that is committed
\* by the evidence of its baseline only, without the baseline.
DiscardFails ==
    /\ At("discard")
    /\ failures < MaxFailures /\ failures' = failures + 1
    /\ op' = IF op.rec # 0 /\ kind[op.rec] = "single" THEN Idle
             ELSE AfterDiscard
    /\ misled' = (misled \/ /\ kind[target] = "batch"
                              /\ backup[target].state
                              /\ ~backup[target].committed
                              /\ backup[target].base.by = 0)
    /\ UNCHANGED <<disk, kind, export, used, crashes>>

\* The rest of a recovery that fails: the publication ends with its error.
RecoveryFails ==
    /\ op.rec # 0 /\ (At("restore") \/ At("unrelease"))
    /\ Fails
    /\ op' = Idle
    /\ UNCHANGED disk

\* The process dies.  `misled` when a legacy export had replaced the manifest
\* the transaction is built on: the recovery takes it for its own commit; and
\* when the backup of an older batch, kept by an earlier recovery, was being
\* removed and the baseline is gone that told of the commit.
Crash ==
    /\ ~At("idle")
    /\ crashes < MaxCrashes /\ crashes' = crashes + 1
    /\ op' = Idle
    /\ misled' = \/ misled
                 \/ op.rec = 0 /\ backup[op.id].dir /\ Overwritten
                 \/ /\ At("discard") /\ op.rec \in releases
                    /\ backup[op.rec].state /\ ~Committed(op.rec)
    /\ UNCHANGED <<disk, kind, export, used, failures>>

(***************************************************************************)
(* export_nas_library takes no lock and recovers nothing.  It reads the    *)
(* manifest, merges its entry into what it has read and stages both files; *)
(* then it renames the old script aside and the new one into place, and    *)
(* the manifest after it.                                                  *)
(***************************************************************************)
LegacyRead ==
    /\ ~export.busy /\ used < MaxPublish
    /\ export' = [busy |-> TRUE, base |-> manifest]
    /\ UNCHANGED <<disk, kind, op, used, crashes, failures, misled>>

\* An export is numbered when it writes.
Exports ==
    /\ export.busy /\ export' = NoExport
    /\ used < MaxPublish /\ used' = used + 1
    /\ kind' = [kind EXCEPT ![used + 1] = "legacy"]
    /\ UNCHANGED <<resources, releases, backup, journal, op, failures>>

BeforeCheck ==
    \/ At("idle") \/ At("stage") \/ (At("recover") /\ ~op.failing)
    \/ (kind[op.id] = "batch" /\ op.pc \in {"state", "next", "stash", "place"})

\* `misled` when the manifest is no longer the one that was read: what others
\* have put into it since is lost; and unless nobody publishes and nothing is
\* left to recover, or the publisher has yet to check the manifest.
LegacyWrite ==
    /\ Exports
    /\ \E e \in Exam :
         /\ script' = [script EXCEPT ![e] = used + 1]
         /\ manifest' = [by |-> used + 1,
                         entry |-> [export.base.entry EXCEPT ![e] = used + 1]]
    /\ misled' = \/ misled \/ ~BeforeCheck \/ Left \ {op.id} # {}
                 \/ manifest # export.base
    /\ UNCHANGED crashes

\* It dies between the renames, or one fails and cannot be taken back: the old
\* files are in its staging directory, where nobody looks for them.
LegacyTorn ==
    /\ Exports
    /\ crashes < MaxCrashes /\ crashes' = crashes + 1
    /\ \E e \in Exam, s \in {0, used + 1} :
         script' \in {script, [script EXCEPT ![e] = s]}
    /\ manifest' \in {manifest, NoManifest}
    /\ misled' = (misled \/ script' # script \/ manifest' # manifest)

-----------------------------------------------------------------------------
Recovery ==
    \/ RecoverBatch \/ RecoverSingle \/ RecoveryRefused \/ Recovered
    \/ Restore \/ RestoreManifest \/ Unrelease \/ DropPart \/ Discarded

BatchStep ==
    \/ BatchBaseline \/ BatchState \/ BatchNote \/ BatchVerify \/ BatchRelease
    \/ BatchFlag \/ BatchConflict \/ BatchStepFails \/ BatchFlagFails
    \/ BatchUndo \/ BatchUndoFails

SingleStep ==
    \/ SingleStage \/ SingleDir \/ SingleState \/ SingleCopy \/ SingleAside
    \/ SingleExam \/ SingleNote \/ SingleClose
    \/ SingleStateFails \/ SingleBackupFails \/ SingleInstallFails
    \/ SingleCloseFails \/ SingleHide \/ SingleClear \/ SingleDrop
    \/ SingleBack \/ SingleRefit \/ SingleShow \/ SingleUndoFails

Next ==
    \/ StartBatch \/ StartSingle \/ Recovery
    \/ BatchStep \/ SingleStep \/ Stash \/ Place \/ Replace
    \/ DiscardFails \/ RecoveryFails \/ Crash
    \/ LegacyRead \/ LegacyWrite \/ LegacyTorn

Spec == Init /\ [][Next]_vars

-----------------------------------------------------------------------------
(***************************************************************************)
(* Properties.                                                             *)
(***************************************************************************)
Publication == 0 .. MaxPublish
Manifests == [by : Publication, entry : [Exam -> Publication]]

\* Types.
NasTypeOK ==
    /\ manifest \in Manifests
    /\ script \in [Exam -> Publication]
    /\ resources \in [Exam -> Publication]
    /\ releases \subseteq Pubs
    /\ backup \in [Pubs -> [dir : BOOLEAN, base : Manifests,
                            res : [Exam -> Publication], script : Publication,
                            state : BOOLEAN, committed : BOOLEAN,
                            hadManifest : BOOLEAN, exams : SUBSET Exam]]
    /\ journal \in [Pubs -> {"none", "open", "closed"}]
    /\ kind \in [Pubs -> {"none", "batch", "single", "legacy"}]
    /\ op.id \in Publication /\ op.rec \in Publication
    /\ op.exams \subseteq Exam /\ op.cur \subseteq op.exams
    /\ export.busy \in BOOLEAN /\ export.base \in Manifests
    /\ used \in Publication

\* The manifest the library has once a recovery has run: the copy kept by an
\* interrupted single publication, or the live one.
Withdrawing == {p \in SingleLeft : backup[p].base.by # 0}
Target == IF Withdrawing = {} THEN manifest
          ELSE backup[CHOOSE p \in Withdrawing : TRUE].base

ScriptKept(e, p) ==
    IF kind[p] = "batch" THEN p \in releases
    ELSE script[e] = p \/ \E q \in SingleLeft : backup[q].script = p

ResourcesKept(e, p) ==
    \/ kind[p] = "legacy"
    \/ resources[e] = p
    \/ \E q \in Left : backup[q].res[e] = p

\* Whatever dies or fails where, the files of every listed exam still exist:
\* in place, or in a backup that the next recovery puts back (the ordering of
\* state file, renames and manifest in publish_items, commit_package and their
\* recovery).
NothingLost ==
    ~misled =>
      \A e \in Exam : LET p == Target.entry[e] IN
        p # 0 => ScriptKept(e, p) /\ ResourcesKept(e, p)

\* When nobody publishes and nothing is left to recover, every exam a student
\* finds in the manifest has script and resources of one publication: the one
\* its entry names (publish_items: never a new manifest without resources).
Whole(e) ==
    LET p == manifest.entry[e] IN
    p # 0 => /\ IF kind[p] = "batch" THEN p \in releases ELSE script[e] = p
             /\ kind[p] = "legacy" \/ resources[e] = p

WholeAtRest ==
    At("idle") /\ Left = {} /\ ~misled => \A e \in Exam : Whole(e)

\* Also while a publisher runs or after it died, a student who follows an entry
\* written by a batch finds its script ("entries point only at immutable
\* script files").
ScriptsStay ==
    \A e \in Exam : LET p == manifest.entry[e] IN
      p # 0 /\ kind[p] = "batch" /\ ~misled => p \in releases

\* The manifest changes by whole publications.  All exams of one that holds the
\* lock appear at once over the entries that were live, so it overwrites none of
\* another publisher, exports included; and a recovery only takes back a single
\* publication that has not closed its journal, never a batch that has
\* committed (verify_manifest_compare_and_swap, recovery).  An export puts its
\* own entry over those that it read, even if they are not the live ones any
\* more, or dies and leaves no manifest: nothing keeps it from either.
Appears ==
    /\ manifest'.by = op.id
    /\ \A e \in Exam : manifest'.entry[e] =
         IF e \in op.exams THEN op.id ELSE manifest.entry[e]
Exported ==
    /\ used' # used /\ manifest'.by = used'
    /\ \A e \in Exam : manifest'.entry[e] \in {used', export.base.entry[e]}
Torn == used' # used /\ manifest' = NoManifest
Withdrawn ==
    \E p \in SingleLeft :
      /\ manifest.by \in {0, p, backup[p].base.by}
      /\ manifest' \in {NoManifest, backup[p].base}

ByWholePublications ==
    [][manifest' # manifest /\ ~misled =>
         Appears \/ Exported \/ Torn \/ Withdrawn]_vars
=============================================================================
