------------------------------ MODULE Scheduler ------------------------------
(***************************************************************************)
(* The scheduler of processing/scheduler.rs over the table of              *)
(* ProcessingQueue: the claim loop, one task per claim running             *)
(* run_job_inner / try_cloud_direct with its spawned cloud fetch, the      *)
(* in-memory cancel flags, the permits and the cache-warming gate, the     *)
(* user's cancel and retry commands, and a process that may restart.       *)
(*                                                                         *)
(* A task is named by the uuid of its claim.  Its pc names the next thing  *)
(* run_job_inner does; a step is the code between two awaits.  A task may  *)
(* be stale: its lease passed to another one while it keeps running.       *)
(*                                                                         *)
(* Abstracted: the documents.  Of the canonical draft only the task that   *)
(* last put model output into it is kept (author); of the library row only *)
(* its status (item), "open" standing for both ready and action_required.  *)
(* Recognition, model calls and cycles end in any of their outcomes.       *)
(***************************************************************************)
EXTENDS ProcessingQueue

CONSTANTS
    Modes,         \* the chains jobs take: subset of {"local", "cloud", "direct"}
    LocalPermits,  \* settings.local_concurrency
    CloudPermits,  \* settings.cloud_concurrency
    MishapKinds,   \* what may go wrong: subset of {"sleep", "database", "crash"}
    MaxMishaps     \* bound on how often it does

ASSUME ModesAssumption   == Modes \subseteq {"local", "cloud", "direct"}
ASSUME PermitsAssumption == /\ LocalPermits \in Nat \ {0}
                            /\ CloudPermits \in Nat \ {0}
ASSUME MishapsAssumption == /\ MishapKinds \subseteq {"sleep", "database", "crash"}
                            /\ MaxMishaps \in Nat
ASSUME ReportsAssumption == {"failed", "not_run"} \subseteq Outcomes

VARIABLES
    chain,    \* per job, the chain that its progress_json asks for
    task,     \* per worker uuid, where its task is
    flagged,  \* ProcessingState.cancelled
    cmd,      \* per job, the command of the user in flight
    item,     \* per job, library_items_v2.status
    author,   \* per job, who last wrote model output into the canonical draft
    mishaps   \* how many things went wrong so far

queueVars == <<row, spent, boot>>
jobVars   == <<queueVars, chain>>
userVars  == <<flagged, cmd>>
draftVars == <<item, author>>
schedulerVars == <<jobVars, task, userVars, draftVars, mishaps>>

-----------------------------------------------------------------------------
(* Tasks.                                                                  *)

Pcs == {"none", "permit", "begin", "begun",
        "directStage", "directStaged", "directGate", "directPermit",
        "directCall", "directBack", "directPersist", "directCommit",
        "directSettle", "directOpen", "directOpening", "directLast",
        "directFailed", "directFailing", "directFallback", "directRecord",
        "repermit",
        "queueCloud", "recognize", "localFailed", "localFailing", "recognized",
        "publish", "open", "opening", "settleFrozen", "cycle", "cycleFailed",
        "settleLocal", "joined", "await", "announce", "adopt", "answer",
        "repairPermit", "repair", "lateAnswer", "settle", "finalize", "lastOpen",
        "lastOpening", "stop", "stopLeaseless", "unflag", "done"}

\* The spawned cloud fetch of a cloud chain: it waits for the draft, then for
\* a permit, declares itself running, calls the model, and ends.
Fetches == {"none", "draft", "permit", "start", "call", "ok", "error", "aborted"}

\* job, chain, fetch; frozen: the local snapshot was frozen; announced: the
\* advance to reconciling returned Ok; answered: the answer page has run;
\* outcome: of the direct call or of the cloud part; local, cloud, gate: what
\* the task itself holds.
Task == [pc : Pcs, job : Jobs \cup {None}, mode : Modes \cup {"local"},
         fetch : Fetches, frozen : BOOLEAN, announced : BOOLEAN,
         answered : BOOLEAN,
         outcome : {"none", "single", "batch", "error", "fallback"}
                   \cup Outcomes,
         local : BOOLEAN, cloud : BOOLEAN, gate : BOOLEAN]

NoTask == [pc |-> "none", job |-> None, mode |-> "local", fetch |-> "none",
           frozen |-> FALSE, announced |-> FALSE, answered |-> FALSE,
           outcome |-> "none", local |-> FALSE, cloud |-> FALSE, gate |-> FALSE]

SchedulerTypeOK ==
    /\ TypeOK
    /\ chain \in [Jobs -> Modes \cup {"local"}]
    /\ task \in [Workers -> Task]
    /\ flagged \subseteq Jobs
    /\ cmd \in [Jobs -> {"none", "cancel", "cancelMark", "retry"}]
    /\ item \in [Jobs -> {"none", "processing", "open", "failed"}]
    /\ author \in [Jobs -> Workers \cup {None}]
    /\ mishaps \in 0 .. MaxMishaps

SchedulerInit ==
    /\ Init
    /\ chain = [j \in Jobs |-> "local"]
    /\ task = [w \in Workers |-> NoTask]
    /\ flagged = {}
    /\ cmd = [j \in Jobs |-> "none"]
    /\ item = [j \in Jobs |-> "none"]
    /\ author = [j \in Jobs |-> None]
    /\ mishaps = 0

JobOf(w) == task[w].job

\* A task that returns drops its permits; its cloud fetch, spawned, goes on.
LiveFetch == {"draft", "permit", "start", "call"}

Ended(t) == [NoTask EXCEPT !.pc = "done",
                           !.job = IF t.fetch \in LiveFetch THEN t.job ELSE None,
                           !.fetch = IF t.fetch \in LiveFetch THEN t.fetch ELSE "none"]

To(t, pc) == IF pc = "done" THEN Ended(t) ELSE [t EXCEPT !.pc = pc]

Goto(w, pc) == task' = [task EXCEPT ![w] = To(@, pc)]

LocalFree == Cardinality({w \in Workers : task[w].local}) < LocalPermits

CloudFree == Cardinality({w \in Workers : task[w].cloud})
             + Cardinality({w \in Workers : task[w].fetch \in {"start", "call"}})
             < CloudPermits

GateFree == \A w \in Workers : ~task[w].gate

At(w, pc) == task[w].pc = pc

\* A step of w that only moves it on.
Moves(w, pc) == /\ Goto(w, pc)
                /\ UNCHANGED <<jobVars, userVars, draftVars, mishaps>>

Mishap(kind) == /\ kind \in MishapKinds
                /\ mishaps < MaxMishaps
                /\ mishaps' = mishaps + 1

\* A database error in a step whose result the task ignores, or that it
\* answers by giving up: either way it moves on.
Fails(w, pc) == /\ Mishap("database")
                /\ Goto(w, pc)
                /\ UNCHANGED <<jobVars, userVars, draftVars>>

\* advance: on Ok the caller learns the stage that took effect; Err is a lost
\* lease, or a database error after which the row is driven to failed if that
\* write gets through.
Staged(w, call, onOk, onCancelled, onErr) ==
    LET j == JobOf(w)
    IN  /\ UNCHANGED <<chain, userVars, draftVars>>
        /\ \/ /\ Advance(w, j, call)
              /\ Goto(w, IF row[j].cancel THEN onCancelled ELSE onOk)
              /\ UNCHANGED mishaps
           \/ /\ ~Holds(w, j)
              /\ Goto(w, onErr)
              /\ UNCHANGED <<jobVars, mishaps>>
           \/ /\ Holds(w, j)
              /\ Mishap("database")
              /\ Goto(w, onErr)
              /\ \/ Advance(w, j, AdvanceFailed)
                 \/ UNCHANGED queueVars

\* The checks of the in-memory flag at stage boundaries.
StopOr(w, pc) == Moves(w, IF JobOf(w) \in flagged THEN "stop" ELSE pc)

\* set_cloud_status_only returns Some
Declared(w, status) == SetCloudStatus(w, JobOf(w), status)
Refused(w) == ~Holds(w, JobOf(w)) \/ row[JobOf(w)].cancel

-----------------------------------------------------------------------------
(* The claim loop and the start of run_job_inner.                          *)

ClaimJob(w, j) ==
    /\ LocalFree
    /\ Claim(w, j)
    /\ task' = [task EXCEPT ![w] =
                  [NoTask EXCEPT !.pc = IF chain[j] = "direct" THEN "begin" ELSE "permit",
                                 !.job = j, !.mode = chain[j]]]
    /\ UNCHANGED <<chain, userVars, draftVars, mishaps>>

TakeLocalPermit(w, from, to) ==
    /\ At(w, from)
    /\ LocalFree
    /\ task' = [task EXCEPT ![w].pc = to, ![w].local = TRUE]
    /\ UNCHANGED <<jobVars, userVars, draftVars, mishaps>>

Begin(w) == At(w, "begin") /\ Staged(w, StartLocal, "begun", "unflag", "done")

Begun(w) == /\ At(w, "begun")
            /\ StopOr(w, CASE task[w].mode = "direct" -> "directStage"
                           [] task[w].mode = "cloud"  -> "queueCloud"
                           [] OTHER                   -> "recognize")

-----------------------------------------------------------------------------
(* try_cloud_direct.                                                       *)

DirectStage(w) ==
    At(w, "directStage") /\ Staged(w, StartDirect, "directStaged", "unflag", "done")

DirectStaged(w) == At(w, "directStaged") /\ StopOr(w, "directGate")

\* The gate is kept for the call by the one that finds the cache cold.
DirectGate(w) ==
    /\ At(w, "directGate")
    /\ GateFree
    /\ \E cold \in BOOLEAN :
          task' = [task EXCEPT ![w].pc = "directPermit", ![w].gate = cold]
    /\ UNCHANGED <<jobVars, userVars, draftVars, mishaps>>

DirectPermit(w) ==
    /\ At(w, "directPermit")
    /\ CloudFree
    /\ task' = [task EXCEPT ![w].pc = "directCall", ![w].cloud = TRUE]
    /\ UNCHANGED <<jobVars, userVars, draftVars, mishaps>>

\* A faulty variant: the cloud permit is kept after the call.
DirectCallKeepingPermit(w) ==
    /\ At(w, "directCall")
    /\ \E o \in {"single", "batch", "error", "fallback"} :
          task' = [task EXCEPT ![w].pc = "directBack", ![w].outcome = o,
                               ![w].gate = FALSE]
    /\ UNCHANGED <<jobVars, userVars, draftVars, mishaps>>

\* The call comes back, and with it the permit and the gate.
DirectCall(w) ==
    /\ At(w, "directCall")
    /\ \E o \in {"single", "batch", "error", "fallback"} :
          task' = [task EXCEPT ![w].pc = "directBack", ![w].outcome = o,
                               ![w].cloud = FALSE, ![w].gate = FALSE]
    /\ UNCHANGED <<jobVars, userVars, draftVars, mishaps>>

\* An unusable document is an error too; a source that is not a PDF, or no
\* model connection, falls back to local recognition.
DirectBack(w) ==
    /\ At(w, "directBack")
    /\ StopOr(w, CASE task[w].outcome = "error" -> "directFailed"
                   [] task[w].outcome = "fallback" -> "directFallback"
                   [] OTHER -> "directPersist")

\* A write of the draft sets the status of the library item as well
\* (cas_write_canonical, seed_canonical_ds).
WriteDraft(w) == /\ author' = [author EXCEPT ![JobOf(w)] = w]
                 /\ item' = [item EXCEPT ![JobOf(w)] = "open"]

\* persist_direct_documents writes the draft under the lease: always for a
\* single document, and for a batch of one whose job had a draft before.
\* What follows the write may fail still.
DirectPersist(w) ==
    /\ At(w, "directPersist")
    /\ \/ /\ MayPersist(w, JobOf(w))
          /\ WriteDraft(w)
          /\ \E next \in {"directFailed", IF task[w].outcome = "batch"
                                           THEN "directCommit" ELSE "directSettle"} :
                Goto(w, next)
          /\ UNCHANGED <<jobVars, userVars, mishaps>>
       \/ /\ task[w].outcome = "batch"
          /\ Moves(w, "directCommit")
       \/ ~MayPersist(w, JobOf(w)) /\ Moves(w, "done")
       \/ Moves(w, "directFailed")                     \* a write error

\* The transaction of a batch settles the parent and its children together.
DirectCommit(w) ==
    LET j == JobOf(w)
    IN  /\ At(w, "directCommit")
        /\ \/ \E children \in SUBSET Jobs :
                 /\ PersistBatch(w, j, children)
                 /\ item' = [k \in Jobs |-> IF k \in children \cup {j}
                                            THEN "open" ELSE item[k]]
                 /\ author' = [k \in Jobs |->
                                 IF k \in children \/ (k = j /\ author[j] = None)
                                 THEN w ELSE author[k]]
                 /\ \E next \in {"unflag", "directFailed"} : Goto(w, next)
                 /\ UNCHANGED <<chain, userVars, mishaps>>
           \/ ~MayPersist(w, j) /\ Moves(w, "done")
           \/ Moves(w, "directFailed")

DirectSettle(w) ==
    At(w, "directSettle") /\ Staged(w, DirectReady, "directOpen", "done", "done")

DirectLast(w) == At(w, "directLast") /\ StopOr(w, "done")

\* fail_direct_job
DirectFail(w) ==
    At(w, "directFailed") /\ Staged(w, DirectFailed, "directFailing", "done", "done")

\* direct_fallback: the result of advance is ignored
DirectFallback(w) ==
    /\ At(w, "directFallback")
    /\ Staged(w, DirectToLocal, "directRecord", "directRecord", "directRecord")

DirectRecord(w) ==
    /\ At(w, "directRecord")
    /\ \/ RecordDirectFallback(JobOf(w)) /\ UNCHANGED mishaps
       \/ Mishap("database") /\ UNCHANGED queueVars
    /\ task' = [task EXCEPT ![w].pc = "repermit", ![w].mode = "local"]
    /\ UNCHANGED <<chain, userVars, draftVars>>

-----------------------------------------------------------------------------
(* Local recognition, and the cloud fetch running beside it.               *)

QueueCloud(w) ==
    /\ At(w, "queueCloud")
    /\ \/ /\ Declared(w, "queued")
          /\ task' = [task EXCEPT ![w].pc = "recognize", ![w].fetch = "draft"]
          /\ UNCHANGED <<chain, userVars, draftVars, mishaps>>
       \/ Refused(w) /\ Moves(w, "done")
       \/ Fails(w, "done")

\* A fetch that waits for the draft goes on with it, or gives up.
Signalled(fetch, ok) == IF fetch = "draft" THEN (IF ok THEN "permit" ELSE "aborted")
                                           ELSE fetch

\* run_auto_pipeline_core returns and signals the waiting fetch.
Recognize(w) ==
    /\ At(w, "recognize")
    /\ \E ok \in BOOLEAN :
          task' = [task EXCEPT
                     ![w].pc = IF ok THEN "recognized" ELSE "localFailed",
                     ![w].local = FALSE,
                     ![w].fetch = Signalled(@, ok)]
    /\ UNCHANGED <<jobVars, userVars, draftVars, mishaps>>

FetchMoves(w, from, to) ==
    /\ task[w].fetch = from
    /\ task' = [task EXCEPT ![w].fetch = to]
    /\ UNCHANGED <<jobVars, userVars, draftVars, mishaps>>

Fetch(w) ==
    \/ CloudFree /\ FetchMoves(w, "permit", "start")
    \/ /\ task[w].fetch = "start"
       /\ Declared(w, "running")
       /\ task' = [task EXCEPT ![w].fetch = "call"]
       /\ UNCHANGED <<chain, userVars, draftVars, mishaps>>
    \/ FetchMoves(w, "start", "aborted") /\ Refused(w)
    \/ /\ task[w].fetch = "start"
       /\ Mishap("database")
       /\ task' = [task EXCEPT ![w].fetch = "aborted"]
       /\ UNCHANGED <<jobVars, userVars, draftVars>>
    \/ FetchMoves(w, "call", "ok")
    \/ FetchMoves(w, "call", "error")

LocalFail(w) ==
    At(w, "localFailed") /\ Staged(w, LocalFailed, "localFailing", "done", "done")

\* fail_job and fail_direct_job mark the item in a statement of its own.
MarkItemFailed(w) ==
    /\ task[w].pc \in {"localFailing", "directFailing"}
    /\ \/ /\ item' = [item EXCEPT ![JobOf(w)] = "failed"]
          /\ Goto(w, "done")
          /\ UNCHANGED <<jobVars, userVars, author, mishaps>>
       \/ Fails(w, "done")

Recognized(w) == At(w, "recognized") /\ StopOr(w, "publish")

\* The draft is seeded (a no-op when there is one) and the local snapshot
\* frozen, which may fail; a cloud chain then declares the local part done
\* and ignores what advance answers.
Publish(w) ==
    /\ At(w, "publish")
    /\ \E frozen \in BOOLEAN :
          IF task[w].mode = "cloud"
          THEN /\ UNCHANGED <<chain, userVars, draftVars>>
               /\ task' = [task EXCEPT ![w].pc = "open", ![w].frozen = frozen]
               /\ \/ Advance(w, JobOf(w), LocalDone) /\ UNCHANGED mishaps
                  \/ ~Holds(w, JobOf(w)) /\ UNCHANGED <<jobVars, mishaps>>
                  \/ /\ Holds(w, JobOf(w))
                     /\ Mishap("database")
                     /\ \/ Advance(w, JobOf(w), AdvanceFailed)
                        \/ UNCHANGED queueVars
          ELSE /\ task' = [task EXCEPT ![w].pc = "open", ![w].frozen = frozen]
               /\ UNCHANGED <<jobVars, userVars, draftVars, mishaps>>

\* A faulty variant: the library row waits for the job row to be settled.
ReadStageSettled(w, from, write, skip) ==
    /\ At(w, from)
    /\ Moves(w, IF row[JobOf(w)].stage = "ready_for_review" THEN write ELSE skip)

\* set_item_status_ready reads the stage, then writes the library row.
ReadStage(w, from, write, skip) ==
    /\ At(w, from)
    /\ Moves(w, IF row[JobOf(w)].stage \in {"cancelled", "failed"}
                THEN skip ELSE write)

OpenItem(w, from, to) ==
    /\ At(w, from)
    /\ \/ /\ item' = [item EXCEPT ![JobOf(w)] = "open"]
          /\ Goto(w, to)
          /\ UNCHANGED <<jobVars, userVars, author, mishaps>>
       \/ Fails(w, to)

AfterOpen(w) == CASE task[w].mode = "cloud" -> "joined"
                  [] task[w].mode # "cloud" /\ task[w].frozen -> "cycle"
                  [] OTHER -> "settleFrozen"

-----------------------------------------------------------------------------
(* The cycle and the settlement of a local chain.                          *)

SettleFrozen(w) ==
    At(w, "settleFrozen")
    /\ Staged(w, Ready("not_run", "failed"), "lastOpen", "done", "done")

\* run_local_only_recognition_cycle_for_batch; then, in a cloud chain, the
\* fetched candidate is given its identity, which may fail too.
Cycle(w) ==
    /\ At(w, "cycle")
    /\ \/ Moves(w, "cycleFailed")
       \/ task[w].mode # "cloud" /\ Moves(w, "settleLocal")
       \/ /\ task[w].mode = "cloud"
          /\ task[w].fetch = "ok" /\ task[w].frozen
          /\ Moves(w, "announce")
       \/ /\ task[w].mode = "cloud"
          /\ task' = [task EXCEPT ![w].pc = "lateAnswer", ![w].outcome = "failed"]
          /\ UNCHANGED <<jobVars, userVars, draftVars, mishaps>>

\* A faulty variant: a flagged task just ends.
CycleFailDropping(w) ==
    /\ At(w, "cycleFailed")
    /\ IF JobOf(w) \in flagged THEN Moves(w, "done")
       ELSE Staged(w, CycleFailed, "done", "done", "done")

\* settle_cycle_failure; a lost lease is left to startup recovery
CycleFail(w) ==
    /\ At(w, "cycleFailed")
    /\ IF JobOf(w) \in flagged THEN Moves(w, "stop")
       ELSE Staged(w, CycleFailed, "done", "done", "done")

SettleLocal(w) ==
    At(w, "settleLocal")
    /\ Staged(w, Ready("not_run", "keep"), "lastOpen", "lastOpen", "done")

-----------------------------------------------------------------------------
(* The rest of a cloud chain: candidate, adoption, repair, settlement.     *)

Joined(w) == At(w, "joined") /\ StopOr(w, "await")

\* A faulty variant: only a good answer is waited for.
AwaitSuccess(w) ==
    /\ At(w, "await")
    /\ ~task[w].frozen \/ task[w].fetch = "ok"
    /\ Moves(w, "cycle")

\* The fetch is awaited, unless freezing failed: then it is left detached.
Await(w) ==
    /\ At(w, "await")
    /\ ~task[w].frozen \/ task[w].fetch \in {"ok", "error", "aborted"}
    /\ Moves(w, "cycle")

\* What is kept is that advance returned Ok, not the stage it returned.
Announce(w) ==
    /\ At(w, "announce")
    /\ Staged(w, StartRepair, "adopt", "adopt", "repairPermit")

Adopt(w) ==
    /\ At(w, "adopt")
    /\ WriteDraft(w) \/ UNCHANGED draftVars
    /\ task' = [task EXCEPT ![w].pc = IF JobOf(w) \in flagged
                                      THEN "repairPermit" ELSE "answer",
                            ![w].announced = TRUE]
    /\ UNCHANGED <<jobVars, userVars, mishaps>>

\* run_cloud_answer_page: under a permit, and the flag is probed before a
\* write.  It runs once: before the repair of an announced chain, or else
\* after it, when the snapshot was frozen, announced or not.
RunAnswerPage(w, next) ==
    /\ CloudFree
    /\ \/ JobOf(w) \notin flagged /\ WriteDraft(w)
       \/ UNCHANGED draftVars
    /\ task' = [task EXCEPT ![w].pc = next, ![w].answered = TRUE]
    /\ UNCHANGED <<jobVars, userVars, mishaps>>

AnswerPage(w) == At(w, "answer") /\ RunAnswerPage(w, "repairPermit")

LateAnswerPage(w) ==
    /\ At(w, "lateAnswer")
    /\ IF task[w].answered \/ ~task[w].frozen \/ JobOf(w) \in flagged
       THEN Moves(w, "settle")
       ELSE RunAnswerPage(w, "settle")

TakeRepairPermit(w) ==
    /\ At(w, "repairPermit")
    /\ CloudFree
    /\ task' = [task EXCEPT ![w].pc = "repair", ![w].cloud = TRUE]
    /\ UNCHANGED <<jobVars, userVars, draftVars, mishaps>>

\* run_repair_loop: rounds that write while the flag is down, then an end.
RepairRound(w) ==
    /\ At(w, "repair")
    /\ task[w].announced
    /\ JobOf(w) \notin flagged
    /\ author[JobOf(w)] # w
    /\ WriteDraft(w)
    /\ UNCHANGED <<jobVars, task, userVars, mishaps>>

RepairEnd(w) ==
    /\ At(w, "repair")
    /\ \E o \in IF task[w].announced THEN Outcomes ELSE {"failed"} :
          task' = [task EXCEPT ![w].pc = "lateAnswer", ![w].cloud = FALSE,
                               ![w].outcome = o]
    /\ UNCHANGED <<jobVars, userVars, draftVars, mishaps>>

Settle(w) ==
    /\ At(w, "settle")
    /\ \E e \in {"keep", "failed"} :
          Staged(w, Ready(task[w].outcome, e), "lastOpen", "lastOpen", "finalize")

Finalize(w) ==
    /\ At(w, "finalize")
    /\ \/ /\ FinalizeReadyWithoutLease(JobOf(w), task[w].outcome)
          /\ Goto(w, "lastOpen")
          /\ UNCHANGED <<chain, userVars, draftVars, mishaps>>
       \/ ~MayFinalizeReady(JobOf(w)) /\ Moves(w, "done")
       \/ Fails(w, "done")

-----------------------------------------------------------------------------
(* finish_cancelled.                                                       *)

StopJob(w) == At(w, "stop") /\ Staged(w, Stop, "unflag", "unflag", "stopLeaseless")

StopLeaseless(w) ==
    /\ At(w, "stopLeaseless")
    /\ \/ /\ FinalizeCancelledWithoutLease(JobOf(w))
          /\ Goto(w, "unflag")
          /\ UNCHANGED <<chain, userVars, draftVars, mishaps>>
       \/ ~MayFinalizeCancelled(JobOf(w)) /\ Moves(w, "unflag")
       \/ Fails(w, "unflag")

Unflag(w) ==
    /\ At(w, "unflag")
    /\ flagged' = flagged \ {JobOf(w)}
    /\ Goto(w, "done")
    /\ UNCHANGED <<jobVars, cmd, draftVars, mishaps>>

-----------------------------------------------------------------------------
(* The user, the import, the clock and the process.                        *)

\* queue_import: the library item and its job in one transaction
Import(j) == /\ Enqueue(j)
             /\ \E m \in Modes : chain' = [chain EXCEPT ![j] = m]
             /\ item' = [item EXCEPT ![j] = "processing"]
             /\ UNCHANGED <<task, userVars, author, mishaps>>

\* cancel: the flag first, then the two statements of request_cancel, whose
\* answer is ignored; an error takes the flag down again.
PressCancel(j) ==
    /\ cmd[j] = "none"
    /\ row[j].stage # "absent"
    /\ flagged' = flagged \cup {j}
    /\ cmd' = [cmd EXCEPT ![j] = "cancel"]
    /\ UNCHANGED <<jobVars, task, draftVars, mishaps>>

CancelStatement(j) ==
    /\ \/ /\ cmd[j] = "cancel"
          /\ \/ CancelQueued(j) /\ cmd' = [cmd EXCEPT ![j] = "none"]
             \/ /\ row[j].stage # "queued"
                /\ cmd' = [cmd EXCEPT ![j] = "cancelMark"]
                /\ UNCHANGED queueVars
       \/ /\ cmd[j] = "cancelMark"
          /\ \/ MarkCancel(j)
             \/ row[j].stage \notin Running /\ UNCHANGED queueVars
          /\ cmd' = [cmd EXCEPT ![j] = "none"]
    /\ UNCHANGED <<chain, task, flagged, draftVars, mishaps>>

CancelError(j) ==
    /\ cmd[j] \in {"cancel", "cancelMark"}
    /\ Mishap("database")
    /\ flagged' = flagged \ {j}
    /\ cmd' = [cmd EXCEPT ![j] = "none"]
    /\ UNCHANGED <<jobVars, task, draftVars>>

\* retry_job: the flag comes down first
PressRetry(j) ==
    /\ cmd[j] = "none"
    /\ row[j].stage # "absent"
    /\ row[j].retries < MaxRetries
    /\ flagged' = flagged \ {j}
    /\ cmd' = [cmd EXCEPT ![j] = "retry"]
    /\ UNCHANGED <<jobVars, task, draftVars, mishaps>>

\* A retry takes over the model settings of the moment, and with them the chain.
RetryStatement(j) ==
    /\ cmd[j] = "retry"
    /\ \/ /\ Retry(j)
          /\ \E m \in Modes : chain' = [chain EXCEPT ![j] = m]
          /\ UNCHANGED mishaps
       \/ /\ row[j].stage \notin Settled \/ row[j].retries >= MaxRetries
          /\ UNCHANGED <<jobVars, mishaps>>
       \/ Mishap("database") /\ UNCHANGED jobVars
    /\ cmd' = [cmd EXCEPT ![j] = "none"]
    /\ UNCHANGED <<task, flagged, draftVars>>

Alive(w) == task[w].pc \notin {"none", "done"}

\* A lease passes: its task is gone and its heartbeat with it, or, a mishap,
\* the machine slept and no renewal came in time.
LeasePasses(j) ==
    /\ Expire(j)
    /\ IF row[j].owner \in Workers /\ Alive(row[j].owner) THEN Mishap("sleep")
                                                          ELSE UNCHANGED mishaps
    /\ UNCHANGED <<chain, task, userVars, draftVars>>

\* The process dies: tasks, flags and commands are gone, rows are not.
Crash ==
    /\ Mishap("crash")
    /\ Restart
    /\ task' = [w \in Workers |->
                  IF task[w].pc = "none" THEN task[w]
                  ELSE [NoTask EXCEPT !.pc = "done"]]
    /\ flagged' = {}
    /\ cmd' = [j \in Jobs |-> "none"]
    /\ UNCHANGED <<chain, draftVars>>

StartUp ==
    /\ \/ (RecoverCancelled \/ RecoverRequeue \/ RecoverExhausted) /\ UNCHANGED mishaps
       \/ RecoverError /\ Mishap("database")
    /\ UNCHANGED <<chain, task, userVars, draftVars>>

-----------------------------------------------------------------------------
DirectStep(w) ==
    \/ DirectStage(w) \/ DirectStaged(w) \/ DirectGate(w) \/ DirectPermit(w)
    \/ DirectCall(w) \/ DirectBack(w) \/ DirectPersist(w) \/ DirectCommit(w)
    \/ DirectSettle(w)
    \/ ReadStage(w, "directOpen", "directOpening", "directLast")
    \/ OpenItem(w, "directOpening", "directLast")
    \/ DirectLast(w) \/ DirectFail(w) \/ DirectFallback(w) \/ DirectRecord(w)
    \/ TakeLocalPermit(w, "repermit", "recognize")

LocalStep(w) ==
    \/ TakeLocalPermit(w, "permit", "begin")
    \/ Begin(w) \/ Begun(w) \/ QueueCloud(w) \/ Recognize(w) \/ LocalFail(w)
    \/ MarkItemFailed(w) \/ Recognized(w) \/ Publish(w)
    \/ ReadStage(w, "open", "opening", AfterOpen(w))
    \/ OpenItem(w, "opening", AfterOpen(w))
    \/ SettleFrozen(w) \/ Cycle(w) \/ CycleFail(w) \/ SettleLocal(w)
    \/ StopJob(w) \/ StopLeaseless(w) \/ Unflag(w)

CloudStep(w) ==
    \/ Joined(w) \/ Await(w) \/ Announce(w) \/ Adopt(w) \/ AnswerPage(w)
    \/ TakeRepairPermit(w) \/ RepairRound(w) \/ RepairEnd(w)
    \/ LateAnswerPage(w) \/ Settle(w) \/ Finalize(w)
    \/ ReadStage(w, "lastOpen", "lastOpening", "done")
    \/ OpenItem(w, "lastOpening", "done")

TaskStep(w) == DirectStep(w) \/ LocalStep(w) \/ CloudStep(w) \/ Fetch(w)

ClaimStep == \E w \in Workers, j \in Jobs : ClaimJob(w, j)

UserStep(j) == \/ Import(j) \/ PressCancel(j) \/ CancelStatement(j)
               \/ CancelError(j) \/ PressRetry(j) \/ RetryStatement(j)

SchedulerNext == \/ ClaimStep
                 \/ \E w \in Workers : TaskStep(w)
                 \/ \E j \in Jobs : UserStep(j) \/ LeasePasses(j)
                 \/ StartUp
                 \/ Crash

SchedulerSpec == SchedulerInit /\ [][SchedulerNext]_schedulerVars

(* Fairness: the runtime polls every task and lets the loops go on, tokio   *)
(* semaphores are first come first served, and the clock passes the lease  *)
(* of a task that is gone.  Nothing makes the user act or things go wrong. *)
Fairness ==
    /\ \A w \in Workers :
          /\ WF_schedulerVars(DirectStep(w) \/ LocalStep(w) \/ CloudStep(w))
          /\ WF_schedulerVars(Fetch(w))
    /\ WF_schedulerVars(ClaimStep)
    /\ WF_schedulerVars(StartUp /\ UNCHANGED mishaps)
    /\ \A j \in Jobs :
          /\ WF_schedulerVars(CancelStatement(j))
          /\ WF_schedulerVars(RetryStatement(j))
          /\ WF_schedulerVars(LeasePasses(j) /\ UNCHANGED mishaps)

FairSchedulerSpec == SchedulerSpec /\ Fairness

-----------------------------------------------------------------------------
(* Properties.                                                             *)

\* "The late result of an expired worker must not be committed" (the header
\* of scheduler.rs): while a job is under a live lease, only its owner's task
\* ends the attempt as ready or failed.  A stale task may be anywhere.  This is
\* for local and direct chains: finalize_ready_without_lease asks for no owner.
OnlyOwnerSettles ==
    [][\A j \in Jobs :
          row[j].live /\ row'[j].stage \in {"ready_for_review", "failed"}
          => \A w \in Workers : task'[w] # task[w] => w = row[j].owner
      ]_schedulerVars

\* The same of the draft: model output goes into the draft of a job only
\* from the task that owns its running row (a batch also fills new jobs).  For
\* the same chains: one with a cloud part goes on when its row was cancelled.
OnlyOwnerWritesDraft ==
    [][\A j \in Jobs :
          author'[j] # author[j]
          => \/ row[j].stage = "absent"
             \/ row[j].stage \in Running /\ row[j].owner = author'[j]
      ]_schedulerVars

\* A local result once stored is not lost to a rerun of the same attempt:
\* no reclaim, late start or fallback of another task sets the local column
\* of a running row back, only startup recovery gives the row up.
LocalResultSticks ==
    [][\A j \in Jobs :
          row[j].stage \in Running /\ row[j].local = "succeeded"
          => row'[j].local = "succeeded" \/ boot # "up"]_schedulerVars

\* Human edits are refused for as long as the task that owns the job may put
\* the cloud candidate or a repair into the draft (cancelling lifts that).
CloudWritesAreLocked ==
    \A w \in Workers :
        /\ task[w].pc \in {"adopt", "answer", "repairPermit", "repair"}
        /\ Holds(w, JobOf(w))
        => EditLocked(JobOf(w)) \/ row[JobOf(w)].cancel

\* No cycle of waiting tasks: who waits for the cache gate or a local permit
\* holds nothing, and who waits for a cloud permit holds the gate at most.
PermitOrder ==
    \A w \in Workers :
        /\ task[w].pc \in {"permit", "directGate", "repermit"}
           => ~task[w].local /\ ~task[w].cloud /\ ~task[w].gate
        /\ task[w].pc \in {"directPermit", "answer", "repairPermit", "lateAnswer"}
           => ~task[w].local /\ ~task[w].cloud

\* "When the cloud is off, failed, fell back or ended, editing unlocks": a
\* chain that runs without a cloud part does not keep the editor locked.
LocalChainUnlocked ==
    \A w \in Workers :
        /\ task[w].mode = "local"
        /\ task[w].pc \in {"recognize", "recognized", "publish", "open", "cycle"}
        /\ Holds(w, JobOf(w))
        => ~EditLocked(JobOf(w))

\* "A cancel must not be honoured by a restart alone" (finish_cancelled): a
\* running row with a cancel marker stops running.
CancelHonoured ==
    \A j \in Jobs : (row[j].stage \in Running /\ row[j].cancel)
                    ~> row[j].stage \notin Running

\* A cancel of a running local chain stops it, at whatever step, across a crash
\* and a restart, unless the row goes over to another chain meanwhile.
LocalCancelHonoured ==
    \A j \in Jobs :
        (row[j].stage \in Running /\ row[j].cancel /\ chain[j] = "local")
        ~> row[j].stage \notin Running \/ chain[j] # "local"

\* A job that the user lets run is settled, across a restart of the process.
UncancelledJobsSettle ==
    \A j \in Jobs : row[j].stage \in Active
                    ~> row[j].stage \in Settled \/ row[j].cancel

\* A job that came out ready for review does not leave its library item
\* behind as still processing; one that startup recovery gave up on says so
\* by its local column, which the library page reads instead.
ReadyItemOpens ==
    \A j \in Jobs :
        row[j].stage = "ready_for_review" /\ row[j].local # "action_required"
        ~> item[j] # "processing" \/ row[j].stage # "ready_for_review"
=============================================================================
