--------------------------- MODULE ProcessingQueue ---------------------------
(***************************************************************************)
(* The durable job table `processing_jobs_v2` and every operation of       *)
(* processing/queue.rs on it, with the transaction of cloud_direct/multi.rs*)
(* that settles a whole batch of direct documents.                         *)
(*                                                                         *)
(* One action is one SQLite statement or transaction: what the code does   *)
(* in two statements (startup recovery) is several actions, so another     *)
(* connection may run in between.  The callers are left open: any worker   *)
(* may issue any stage advance a call site of scheduler.rs can issue, at   *)
(* any time.  Scheduler.tla closes them.                                   *)
(*                                                                         *)
(* Abstracted: reconcile_status, actionable_count, progress_json and the   *)
(* timestamps are payload no guard reads; event_seq is a sequence number   *)
(* for the user interface; a failure code is the one value "failed".       *)
(***************************************************************************)
EXTENDS Naturals, FiniteSets

CONSTANTS
    Jobs,         \* job ids, numbered by created_at
    Workers,      \* the uuids that claims draw from, each used once
    None,         \* SQL NULL
    MaxRecovery,  \* MAX_AUTO_RECOVERY
    MaxRetries,   \* bound on retry_count: the user stops retrying there
    Outcomes      \* what a finished attempt may say of its cloud part

ASSUME JobsAssumption     == Jobs \subseteq Nat
ASSUME NoneAssumption     == None \notin Workers
ASSUME RecoveryAssumption == MaxRecovery \in Nat
ASSUME RetriesAssumption  == MaxRetries \in Nat
ASSUME OutcomesAssumption ==
    Outcomes \subseteq {"succeeded", "partial", "failed", "not_run"}

VARIABLES
    row,    \* the table, a record per job
    spent,  \* the worker uuids already drawn
    boot    \* the next statement of recover_on_startup, or "up"

vars == <<row, spent, boot>>

Running == {"running", "local_recognition", "cloud_recognition", "reconciling"}
Settled == {"ready_for_review", "failed", "cancelled"}
Stages  == {"absent", "queued"} \cup Running \cup Settled

LocalStatus == {"not_started", "running", "succeeded", "failed", "not_run",
                "action_required"}
CloudStatus == {"not_started", "queued", "running", "succeeded", "partial",
                "failed", "not_run", "skipped"}
ErrorCode   == {"none", "interrupted", "retry_exhausted", "cancelled", "failed"}

Row == [stage : Stages, local : LocalStatus, cloud : CloudStatus,
        err : ErrorCode, retries : Nat, owner : Workers \cup {None},
        live : BOOLEAN, cancel : BOOLEAN]

NoRow == [stage |-> "absent", local |-> "not_started", cloud |-> "not_started",
          err |-> "none", retries |-> 0, owner |-> None, live |-> FALSE,
          cancel |-> FALSE]

TypeOK == /\ row \in [Jobs -> Row]
          /\ spent \subseteq Workers
          /\ boot \in {"cancelled", "requeue", "exhausted", "up"}

Init == /\ row = [j \in Jobs |-> NoRow]
        /\ spent = {}
        /\ boot = "cancelled"

-----------------------------------------------------------------------------
(* What the WHERE clauses test.                                            *)

\* A faulty variant: the lease is tested, but not whose it is.
HoldsUnowned(w, j) == row[j].live

\* lease_owner = w AND lease_expires_at >= now
Holds(w, j) == row[j].owner = w /\ row[j].live

\* A faulty variant: a cancelled row is taken over.
ClaimableCancelled(j) == \/ row[j].stage = "queued"
                         \/ /\ row[j].stage \in Running
                            /\ ~row[j].live
                            /\ row[j].local # "succeeded"
                            /\ row[j].cloud # "succeeded"

\* A faulty variant: a row with a stored result is taken over.
ClaimableStored(j) == \/ row[j].stage = "queued"
                      \/ /\ row[j].stage \in Running
                         /\ ~row[j].live
                         /\ ~row[j].cancel

\* What claim_next takes: a queued row, or a running one whose lease passed,
\* with no cancel marker and no result stored yet.
Claimable(j) == \/ row[j].stage = "queued"
                \/ /\ row[j].stage \in Running
                   /\ ~row[j].live
                   /\ ~row[j].cancel
                   /\ row[j].local # "succeeded"
                   /\ row[j].cloud # "succeeded"

\* A faulty variant: one uuid for the whole process.
FreshPerProcess(w) == TRUE

\* The scheduler draws a new uuid for every claim.
Fresh(w) == w \notin spent

\* A faulty variant: the cancel marker is not looked at.
MayFinalizeReadyCancelled(j) == row[j].stage \in Running /\ row[j].local = "succeeded"

\* What the finalizations without a lease test: not the owner.
MayFinalizeReady(j) == /\ row[j].stage \in Running
                       /\ row[j].local = "succeeded"
                       /\ ~row[j].cancel

MayFinalizeCancelled(j) == row[j].stage \in Running /\ row[j].cancel

\* A faulty variant: a task that lost its lease may still commit.
MayPersistUnowned(w, j) == row[j].stage \in Running /\ ~row[j].cancel

\* check_direct_lease, run inside the transaction it guards
MayPersist(w, j) == Holds(w, j) /\ row[j].stage \in Running /\ ~row[j].cancel

\* A faulty variant: the last stage of a cloud chain is not listed.
EditLockedWhileFetching(j) ==
    /\ ~row[j].cancel
    /\ row[j].stage \in {"queued", "running", "local_recognition", "cloud_recognition"}
    /\ row[j].cloud \in {"queued", "running"}

\* cloud_review_in_progress: human edits are refused meanwhile
EditLocked(j) == /\ ~row[j].cancel
                 /\ row[j].stage \in {"queued"} \cup Running
                 /\ \/ row[j].cloud \in {"queued", "running"}
                    \/ row[j].stage = "reconciling"

-----------------------------------------------------------------------------
(* The calls of advance_stage: the stage to move to, and the columns it    *)
(* writes, "keep" standing for a NULL argument under COALESCE.             *)

Call(stage, local, cloud, err) ==
    [stage |-> stage, local |-> local, cloud |-> cloud, err |-> err]

StartLocal     == Call("local_recognition", "running", "keep", "keep")
StartDirect    == Call("cloud_recognition", "not_run", "running", "keep")
DirectFailed   == Call("failed", "not_run", "failed", "failed")
DirectToLocal  == Call("local_recognition", "running", "failed", "keep")
DirectReady    == Call("ready_for_review", "not_run", "succeeded", "keep")
LocalFailed    == Call("failed", "failed", "skipped", "failed")
LocalDone      == Call("cloud_recognition", "succeeded", "keep", "keep")
StartRepair    == Call("reconciling", "keep", "running", "keep")
CycleFailed    == Call("failed", "succeeded", "failed", "failed")
Ready(cloud, err) == Call("ready_for_review", "succeeded", cloud, err)
Stop           == Call("cancelled", "keep", "keep", "keep")
AdvanceFailed  == Call("failed", "keep", "keep", "failed")

Calls == {StartLocal, StartDirect, DirectFailed, DirectToLocal, DirectReady,
          LocalFailed, LocalDone, StartRepair, CycleFailed, Stop, AdvanceFailed}
         \cup {Ready(c, e) : c \in Outcomes, e \in {"keep", "failed"}}

\* A faulty variant: a NULL argument is stored.
CoalesceMissing(new, old) == new

Coalesce(new, old) == IF new = "keep" THEN old ELSE new

\* A faulty variant: the lease is released by the stage asked for.
AdvancedByAsked(r, c) ==
    LET stage   == IF r.cancel THEN "cancelled" ELSE c.stage
        release == c.stage \in Settled
    IN  [r EXCEPT !.stage = stage,
                  !.local = Coalesce(c.local, @),
                  !.cloud = Coalesce(c.cloud, @),
                  !.err   = IF r.cancel THEN "cancelled" ELSE Coalesce(c.err, @),
                  !.owner = IF release THEN None ELSE @,
                  !.live  = ~release]

\* A faulty variant: the error code follows the arguments alone.
AdvancedKeepingError(r, c) ==
    LET stage   == IF r.cancel THEN "cancelled" ELSE c.stage
        release == stage \in Settled
    IN  [r EXCEPT !.stage = stage,
                  !.local = Coalesce(c.local, @),
                  !.cloud = Coalesce(c.cloud, @),
                  !.err   = Coalesce(c.err, @),
                  !.owner = IF release THEN None ELSE @,
                  !.live  = ~release]

\* The SET clause of advance_stage: a row with a cancel marker goes to
\* cancelled whatever was asked, and a settled row keeps no lease.
Advanced(r, c) ==
    LET stage   == IF r.cancel THEN "cancelled" ELSE c.stage
        release == stage \in Settled
    IN  [stage   |-> stage,
         local   |-> Coalesce(c.local, r.local),
         cloud   |-> Coalesce(c.cloud, r.cloud),
         err     |-> IF r.cancel THEN "cancelled" ELSE Coalesce(c.err, r.err),
         retries |-> r.retries,
         owner   |-> IF release THEN None ELSE r.owner,
         live    |-> ~release,
         cancel  |-> r.cancel]

-----------------------------------------------------------------------------
(* queue.rs, one action per statement or transaction.                      *)

\* lease_owner = NULL, lease_expires_at = NULL, written with every stage that
\* is not worked on.
Released(r, stage) == [r EXCEPT !.stage = stage, !.owner = None, !.live = FALSE]

\* enqueue: INSERT OR IGNORE.  Ids are drawn in the order of created_at.
Enqueue(j) ==
    /\ row[j].stage = "absent"
    /\ \A k \in Jobs : k < j => row[k].stage # "absent"
    /\ row' = [row EXCEPT ![j] = [@ EXCEPT !.stage = "queued"]]
    /\ UNCHANGED <<spent, boot>>

\* claim_next: the scheduler loop starts only after recovery has returned.
Claim(w, j) ==
    /\ boot = "up"
    /\ Fresh(w)
    /\ Claimable(j)
    /\ \A k \in Jobs : k < j => ~Claimable(k)
    /\ spent' = spent \cup {w}
    /\ row' = [row EXCEPT ![j] =
                  [@ EXCEPT !.stage = "running", !.owner = w, !.live = TRUE,
                            !.local = IF row[j].stage = "running"
                                      THEN row[j].local ELSE "running"]]
    /\ UNCHANGED boot

\* Time passes lease_expires_at: no renew_lease came for LEASE_SECONDS (the
\* machine slept, or the owner is gone).  A renewal in time changes nothing
\* here, and renew_lease refuses what Holds refuses.
Expire(j) ==
    /\ row[j].live
    /\ row' = [row EXCEPT ![j] = [@ EXCEPT !.live = FALSE]]
    /\ UNCHANGED <<spent, boot>>

Advance(w, j, c) ==
    /\ Holds(w, j)
    /\ row' = [row EXCEPT ![j] = Advanced(@, c)]
    /\ UNCHANGED <<spent, boot>>

SetCloudStatus(w, j, status) ==
    /\ Holds(w, j)
    /\ ~row[j].cancel
    /\ row' = [row EXCEPT ![j] = [@ EXCEPT !.cloud = status]]
    /\ UNCHANGED <<spent, boot>>

FinalizeReadyWithoutLease(j, cloud) ==
    /\ MayFinalizeReady(j)
    /\ row' = [row EXCEPT ![j] =
                  [Released(@, "ready_for_review") EXCEPT !.cloud = cloud]]
    /\ UNCHANGED <<spent, boot>>

FinalizeCancelledWithoutLease(j) ==
    /\ MayFinalizeCancelled(j)
    /\ row' = [row EXCEPT ![j] = [Released(@, "cancelled") EXCEPT !.err = "cancelled"]]
    /\ UNCHANGED <<spent, boot>>

\* record_cloud_direct_fallback: by job id alone
RecordDirectFallback(j) ==
    /\ row[j].stage # "absent"
    /\ row' = [row EXCEPT ![j] = [@ EXCEPT !.cloud = "failed"]]
    /\ UNCHANGED <<spent, boot>>

\* persist_direct_documents, a batch: the lease is checked in the
\* transaction that settles the parent and inserts the children settled.
PersistBatch(w, j, children) ==
    /\ MayPersist(w, j)
    /\ \A k \in children : row[k].stage = "absent"
    /\ \A k \in children, i \in Jobs :
          i < k => i \in children \/ row[i].stage # "absent"
    /\ row' = [k \in Jobs |->
                 IF k \in children \cup {j}
                 THEN [Released(row[k], "ready_for_review")
                         EXCEPT !.local = "not_run", !.cloud = "succeeded"]
                 ELSE row[k]]
    /\ UNCHANGED <<spent, boot>>

\* request_cancel, the first statement
CancelQueued(j) ==
    /\ row[j].stage = "queued"
    /\ row' = [row EXCEPT ![j] = [Released(@, "cancelled") EXCEPT !.cancel = TRUE]]
    /\ UNCHANGED <<spent, boot>>

\* request_cancel, the second: the owner settles the row later
MarkCancel(j) ==
    /\ row[j].stage \in Running
    /\ row' = [row EXCEPT ![j] = [@ EXCEPT !.cancel = TRUE]]
    /\ UNCHANGED <<spent, boot>>

\* A faulty variant: the cloud column of the ended attempt stays.
RetryKeepingCloud(j) ==
    /\ row[j].stage \in Settled
    /\ row[j].retries < MaxRetries
    /\ row' = [row EXCEPT ![j] = [NoRow EXCEPT !.stage = "queued",
                                               !.cloud = row[j].cloud,
                                               !.retries = row[j].retries + 1]]
    /\ UNCHANGED <<spent, boot>>

\* retry and retry_with_cloud
Retry(j) ==
    /\ row[j].stage \in Settled
    /\ row[j].retries < MaxRetries
    /\ row' = [row EXCEPT ![j] = [NoRow EXCEPT !.stage = "queued",
                                               !.retries = row[j].retries + 1]]
    /\ UNCHANGED <<spent, boot>>

-----------------------------------------------------------------------------
(* recover_on_startup: three statements over the whole table.  Commands of *)
(* the user interface may run between them; the claim loop may not.        *)

RecoverCancelled ==
    /\ boot = "cancelled"
    /\ row' = [j \in Jobs |->
                 IF row[j].stage \in Running /\ row[j].cancel
                 THEN [Released(row[j], "cancelled") EXCEPT !.err = "cancelled"]
                 ELSE row[j]]
    /\ boot' = "requeue"
    /\ UNCHANGED spent

RecoverRequeue ==
    /\ boot = "requeue"
    /\ row' = [j \in Jobs |->
                 IF row[j].stage \in Running /\ row[j].retries < MaxRecovery
                 THEN [Released(row[j], "queued") EXCEPT !.err = "interrupted",
                                                         !.retries = @ + 1]
                 ELSE row[j]]
    /\ boot' = "exhausted"
    /\ UNCHANGED spent

RecoverExhausted ==
    /\ boot = "exhausted"
    /\ row' = [j \in Jobs |->
                 IF row[j].stage \in Running /\ row[j].retries >= MaxRecovery
                 THEN [Released(row[j], "ready_for_review")
                         EXCEPT !.local = "action_required", !.err = "retry_exhausted"]
                 ELSE row[j]]
    /\ boot' = "up"
    /\ UNCHANGED spent

\* A statement fails: the rest is skipped, the loop starts all the same.
RecoverError == /\ boot # "up"
                /\ boot' = "up"
                /\ UNCHANGED <<row, spent>>

\* The process dies and is started again.
Restart == /\ boot' = "cancelled"
           /\ UNCHANGED <<row, spent>>

-----------------------------------------------------------------------------
Recovery == RecoverCancelled \/ RecoverRequeue \/ RecoverExhausted \/ RecoverError

WorkerStep(w, j) ==
    \/ Claim(w, j)
    \/ \E c \in Calls : Advance(w, j, c)
    \/ \E s \in {"queued", "running"} : SetCloudStatus(w, j, s)
    \/ \E children \in SUBSET Jobs : PersistBatch(w, j, children)

TableStep(j) ==
    \/ Enqueue(j)
    \/ Expire(j)
    \/ \E c \in Outcomes : FinalizeReadyWithoutLease(j, c)
    \/ FinalizeCancelledWithoutLease(j)
    \/ RecordDirectFallback(j)
    \/ CancelQueued(j)
    \/ MarkCancel(j)
    \/ Retry(j)

Next == \/ \E w \in Workers, j \in Jobs : WorkerStep(w, j)
        \/ \E j \in Jobs : TableStep(j)
        \/ Recovery
        \/ Restart

Spec == Init /\ [][Next]_vars
-----------------------------------------------------------------------------
(* Properties.                                                             *)

Active == {"queued"} \cup Running

\* A row is leased exactly while a worker is to move it on: no operation
\* leaves a settled or queued row with an owner (a late renewal or advance
\* would then match it), and none leaves a running row without one.
LeaseIffRunning ==
    \A j \in Jobs : /\ row[j].owner # None <=> row[j].stage \in Running
                    /\ row[j].live => row[j].owner # None

\* The uuid of a claim owns at most that one job, ever: the owner column
\* alone tells a live worker from the one it took the job from.
OwnersAreDistinct ==
    \A i, j \in Jobs : row[i].owner # None
        => /\ row[i].owner \in spent
           /\ row[i].owner = row[j].owner => i = j

\* A job the user cancelled is never shown as failed: neither the forced
\* cancel of advance_stage, nor the leaseless one, nor recovery, nor the
\* cancel of a queued job leaves a failure code of an earlier attempt.
CancelIsNotFailure ==
    \A j \in Jobs : row[j].stage = "cancelled"
                    => row[j].err \notin {"failed", "retry_exhausted"}

\* A cancel marker on an active row is kept until the row is cancelled:
\* no late result, reclaim, leaseless finalization or batch commit gets
\* past it.  The one way out is the last statement of startup recovery,
\* when the marker arrives after the first.
CancelSticks ==
    [][\A j \in Jobs :
          row[j].cancel /\ row[j].stage \in Active
          => /\ row'[j].cancel
             /\ \/ row'[j].stage \in Active \cup {"cancelled"}
                \/ boot = "exhausted" /\ boot' = "up"]_vars
=============================================================================
