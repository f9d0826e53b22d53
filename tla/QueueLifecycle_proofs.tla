------------------------ MODULE QueueLifecycle_proofs ------------------------
(***************************************************************************)
(* The job table implements the life of a job, for any set of jobs and     *)
(* workers and any limits.                                                 *)
(*                                                                         *)
(* A step that settles, requeues or takes a row is a step of the lifecycle *)
(* because sound rows that are not running have no owner: then releasing   *)
(* the lease is all that happens to the holder.                            *)
(***************************************************************************)
EXTENDS QueueLifecycle, ProcessingQueue_proofs

LEMMA PhaseValues ==
    /\ PhaseOf("absent") = "absent" /\ PhaseOf("queued") = "waiting"
    /\ \A s \in Running : PhaseOf(s) = "working"
    /\ PhaseOf("ready_for_review") = "ready" /\ PhaseOf("failed") = "failed"
    /\ PhaseOf("cancelled") = "cancelled"
    /\ \A s \in Settled : PhaseOf(s) \in Lifecycle!Ended
BY DEF PhaseOf, Running, Settled, Lifecycle!Ended

\* A step that replaces the row of j, seen from outside.
LEMMA OneRowSeen ==
    ASSUME TypeOK, NEW j \in Jobs, NEW r, row' = [row EXCEPT ![j] = r]
    PROVE  /\ phaseOfJob' = Lifecycle!Set(phaseOfJob, {j}, PhaseOf(r.stage))
           /\ holderOfJob' = Lifecycle!Set(holderOfJob, {j}, r.owner)
           /\ wishOfJob' = Lifecycle!Set(wishOfJob, {j}, r.cancel)
           /\ PhaseOf(r.stage) = phaseOfJob[j] => phaseOfJob' = phaseOfJob
           /\ r.owner = row[j].owner => holderOfJob' = holderOfJob
           /\ (r.cancel = row[j].cancel) => wishOfJob' = wishOfJob
<1>1. row'[j] = r /\ \A k \in Jobs \ {j} : row'[k] = row[k]
  BY DEF TypeOK
<1>2. phaseOfJob' = Lifecycle!Set(phaseOfJob, {j}, PhaseOf(r.stage))
  BY <1>1 DEF phaseOfJob, Lifecycle!Set
<1>3. holderOfJob' = Lifecycle!Set(holderOfJob, {j}, r.owner)
  BY <1>1 DEF holderOfJob, Lifecycle!Set
<1>4. wishOfJob' = Lifecycle!Set(wishOfJob, {j}, r.cancel)
  BY <1>1 DEF wishOfJob, Lifecycle!Set
<1>5. PhaseOf(r.stage) = phaseOfJob[j] => phaseOfJob' = phaseOfJob
  BY <1>1 DEF phaseOfJob
<1>6. r.owner = row[j].owner => holderOfJob' = holderOfJob
  BY <1>1 DEF holderOfJob
<1>7. (r.cancel = row[j].cancel) => wishOfJob' = wishOfJob
  BY <1>1 DEF wishOfJob
<1> QED
  BY <1>2, <1>3, <1>4, <1>5, <1>6, <1>7

\* What the step relation says of a single step.
Seen == [Lifecycle!Next]_(Lifecycle!vars)

\* A step that leaves the phase, the owner and the marker of its row alone is none.
LEMMA Unseen ==
    ASSUME TypeOK, NEW j \in Jobs, NEW r, row' = [row EXCEPT ![j] = r], spent' = spent,
           PhaseOf(r.stage) = phaseOfJob[j], r.owner = row[j].owner, r.cancel = row[j].cancel
    PROVE  Seen
BY OneRowSeen DEF Seen, Lifecycle!vars

\* Work that ends with its row alone.
LEMMA Ending ==
    ASSUME IInv, NEW j \in Jobs, NEW r, row' = [row EXCEPT ![j] = r], spent' = spent,
           row[j].stage \in Running, r.stage \in Settled, r.owner = None,
           r.cancel = row[j].cancel, row[j].cancel => r.stage = "cancelled"
    PROVE  Seen
<1> DEFINE o == PhaseOf(r.stage)
<1>1. TypeOK
  BY DEF IInv
<1>2. /\ phaseOfJob' = Lifecycle!Set(phaseOfJob, {j}, o)
      /\ holderOfJob' = Lifecycle!Set(holderOfJob, {j}, None)
      /\ wishOfJob' = wishOfJob
  BY <1>1, OneRowSeen
<1>3. o \in Lifecycle!Ended /\ (row[j].cancel => o = "cancelled")
  BY PhaseValues
<1>4. phaseOfJob[j] = "working" /\ wishOfJob[j] = row[j].cancel
  BY PhaseValues DEF phaseOfJob, wishOfJob
<1>5. Lifecycle!Set(phaseOfJob, {}, "ready") = phaseOfJob
  BY DEF Lifecycle!Set, phaseOfJob
<1> HIDE DEF o
<1>6. Lifecycle!End(j, o, {})
  BY <1>2, <1>3, <1>4, <1>5 DEF Lifecycle!End
<1> QED
  BY <1>3, <1>6 DEF Seen, Lifecycle!Next
-----------------------------------------------------------------------------
LEMMA ClaimSeen ==
    ASSUME IInv, NEW w \in Workers, NEW j \in Jobs, Claim(w, j)
    PROVE  Seen
<1> DEFINE r == [row[j] EXCEPT !.stage = "running", !.owner = w, !.live = TRUE,
                               !.local = IF row[j].stage = "running"
                                         THEN row[j].local ELSE "running"]
<1>1. TypeOK /\ row[j] \in Row
  BY DEF IInv, TypeOK
<1>2. row' = [row EXCEPT ![j] = r] /\ spent' = spent \cup {w} /\ w \notin spent
  BY DEF Claim, Fresh
<1>3. r.stage = "running" /\ r.owner = w
  BY <1>1 DEF Row
<1>4. r.cancel = row[j].cancel
  BY Zenon, <1>1 DEF Row
<1> HIDE DEF r
<1>5. "running" \in Running
  BY DEF Running
<1>6. /\ phaseOfJob' = Lifecycle!Set(phaseOfJob, {j}, "working")
      /\ holderOfJob' = Lifecycle!Set(holderOfJob, {j}, w)
      /\ wishOfJob' = wishOfJob
  BY <1>1, <1>2, <1>3, <1>4, <1>5, OneRowSeen, PhaseValues
<1>7. \/ phaseOfJob[j] = "waiting"
      \/ phaseOfJob[j] = "working" /\ ~wishOfJob[j]
  BY PhaseValues DEF Claim, Claimable, phaseOfJob, wishOfJob
<1>8. Lifecycle!Take(j, w)
  BY <1>2, <1>6, <1>7 DEF Lifecycle!Take
<1> QED
  BY <1>8 DEF Seen, Lifecycle!Next

LEMMA AdvanceSeen ==
    ASSUME IInv, NEW w \in Workers, NEW j \in Jobs, NEW c \in Calls, Advance(w, j, c)
    PROVE  Seen
<1> DEFINE r == Advanced(row[j], c)
<1>1. TypeOK /\ row[j] \in Row /\ Sound(row[j]) /\ row[j].live
  BY DEF IInv, TypeOK, Advance, Holds
<1>2. row' = [row EXCEPT ![j] = r] /\ spent' = spent
  BY DEF Advance
<1>3. row[j].stage \in Running
  BY <1>1 DEF Sound
<1>4. c.stage \in Running \cup Settled
  BY OutcomesAssumption
     DEF Calls, Call, StartLocal, StartDirect, DirectFailed, DirectToLocal,
         DirectReady, LocalFailed, LocalDone, StartRepair, CycleFailed, Ready,
         Stop, AdvanceFailed, Running, Settled
<1>5. /\ r.stage = IF row[j].cancel THEN "cancelled" ELSE c.stage
      /\ r.owner = IF r.stage \in Settled THEN None ELSE row[j].owner
  BY DEF Advanced
<1>6. r.cancel = row[j].cancel
  BY Zenon DEF Advanced
<1> HIDE DEF r
<1>7. CASE r.stage \in Settled
  BY <1>2, <1>3, <1>5, <1>6, <1>7, Ending
<1>8. CASE r.stage \notin Settled
  <2>1. r.stage \in Running /\ r.owner = row[j].owner
    BY <1>4, <1>5, <1>8 DEF Settled
  <2>2. PhaseOf(r.stage) = phaseOfJob[j]
    BY <1>3, <2>1, PhaseValues DEF phaseOfJob
  <2> QED
    BY <1>1, <1>2, <1>6, <2>1, <2>2, Unseen
<1> QED
  BY <1>7, <1>8

\* Statements that write other columns
LEMMA CloudColumnSeen ==
    ASSUME IInv, NEW j \in Jobs, NEW cloud, spent' = spent,
           row' = [row EXCEPT ![j] = [@ EXCEPT !.cloud = cloud]]
    PROVE  Seen
<1> DEFINE r == [row[j] EXCEPT !.cloud = cloud]
<1>1. TypeOK /\ row[j] \in Row
  BY DEF IInv, TypeOK
<1>2. row' = [row EXCEPT ![j] = r]
  OBVIOUS
<1>3. r.stage = row[j].stage /\ r.owner = row[j].owner
  BY <1>1 DEF Row
<1>4. r.cancel = row[j].cancel
  BY Zenon, <1>1 DEF Row
<1> HIDE DEF r
<1> QED
  BY <1>1, <1>2, <1>3, <1>4, Unseen DEF phaseOfJob

\* A batch ends the parent and delivers the children.
LEMMA PersistBatchSeen ==
    ASSUME IInv, NEW w \in Workers, NEW j \in Jobs, NEW children \in SUBSET Jobs,
           PersistBatch(w, j, children)
    PROVE  Seen
<1> DEFINE next(k) == [Released(row[k], "ready_for_review")
                         EXCEPT !.local = "not_run", !.cloud = "succeeded"]
<1>1. \A k \in Jobs : row[k] \in Row /\ Sound(row[k])
  BY DEF IInv, TypeOK
<1>2. /\ row' = [k \in Jobs |-> IF k \in children \cup {j} THEN next(k) ELSE row[k]]
      /\ spent' = spent
      /\ row[j].stage \in Running /\ ~row[j].cancel
      /\ \A k \in children : row[k].stage = "absent"
  BY DEF PersistBatch, MayPersist
<1>3. ASSUME NEW k \in Jobs
      PROVE  next(k).stage = "ready_for_review" /\ next(k).owner = None
  BY <1>1 DEF Released, Row
<1>4. ASSUME NEW k \in Jobs PROVE next(k).cancel = row[k].cancel
  BY Zenon, <1>1 DEF Released, Row
<1> HIDE DEF next
<1>5. phaseOfJob' = Lifecycle!Set(Lifecycle!Set(phaseOfJob, children, "ready"), {j}, "ready")
  BY <1>2, <1>3, PhaseValues DEF phaseOfJob, Lifecycle!Set
<1>6. \A k \in children : row[k].owner = None
  BY <1>1, <1>2 DEF Sound, Running
<1>7. holderOfJob' = Lifecycle!Set(holderOfJob, {j}, None)
  BY <1>2, <1>3, <1>6 DEF holderOfJob, Lifecycle!Set
<1>8. wishOfJob' = wishOfJob
  BY <1>2, <1>4 DEF wishOfJob
<1>9. /\ phaseOfJob[j] = "working" /\ ~wishOfJob[j]
      /\ \A k \in children : phaseOfJob[k] = "absent"
  BY <1>2, PhaseValues DEF phaseOfJob, wishOfJob
<1>10. Lifecycle!End(j, "ready", children)
  BY <1>2, <1>5, <1>7, <1>8, <1>9 DEF Lifecycle!End
<1>11. "ready" \in Lifecycle!Ended
  BY DEF Lifecycle!Ended
<1>12. CASE children = {}
  BY <1>10, <1>11, <1>12 DEF Seen, Lifecycle!Next
<1>13. CASE children # {}
  BY <1>10, <1>13 DEF Seen, Lifecycle!Next
<1> QED
  BY <1>12, <1>13

LEMMA WorkerSeen ==
    ASSUME IInv, NEW w \in Workers, NEW j \in Jobs, WorkerStep(w, j)
    PROVE  Seen
<1>1. CASE Claim(w, j)
  BY <1>1, ClaimSeen
<1>2. CASE \E c \in Calls : Advance(w, j, c)
  BY <1>2, AdvanceSeen
<1>3. CASE \E s \in {"queued", "running"} : SetCloudStatus(w, j, s)
  BY <1>3, CloudColumnSeen DEF SetCloudStatus
<1>4. CASE \E children \in SUBSET Jobs : PersistBatch(w, j, children)
  BY <1>4, PersistBatchSeen
<1> QED
  BY <1>1, <1>2, <1>3, <1>4 DEF WorkerStep
-----------------------------------------------------------------------------
LEMMA TableSeen ==
    ASSUME IInv, NEW j \in Jobs, TableStep(j)
    PROVE  Seen
<1>0. TypeOK /\ row[j] \in Row /\ Sound(row[j])
  BY DEF IInv, TypeOK
<1>1. CASE Enqueue(j)
  <2> DEFINE r == [row[j] EXCEPT !.stage = "queued"]
  <2>1. row' = [row EXCEPT ![j] = r] /\ spent' = spent /\ row[j].stage = "absent"
    BY <1>1 DEF Enqueue
  <2>2. r.stage = "queued" /\ r.owner = row[j].owner
    BY <1>0 DEF Row
  <2>3. r.cancel = row[j].cancel
    BY Zenon, <1>0 DEF Row
  <2> HIDE DEF r
  <2>4. /\ phaseOfJob' = Lifecycle!Set(phaseOfJob, {j}, PhaseOf(r.stage))
        /\ UNCHANGED <<holderOfJob, wishOfJob>>
    BY <1>0, <2>1, <2>2, <2>3, OneRowSeen
  <2>5. phaseOfJob[j] = "absent" /\ PhaseOf(r.stage) = "waiting"
    BY <2>1, <2>2, PhaseValues DEF phaseOfJob
  <2>6. Lifecycle!Submit(j)
    BY <2>1, <2>4, <2>5 DEF Lifecycle!Submit
  <2> QED
    BY <2>6 DEF Seen, Lifecycle!Next
<1>2. CASE Expire(j)
  <2> DEFINE r == [row[j] EXCEPT !.live = FALSE]
  <2>1. row' = [row EXCEPT ![j] = r] /\ spent' = spent
    BY <1>2 DEF Expire
  <2>2. r.stage = row[j].stage /\ r.owner = row[j].owner
    BY <1>0 DEF Row
  <2>3. r.cancel = row[j].cancel
    BY Zenon, <1>0 DEF Row
  <2> HIDE DEF r
  <2> QED
    BY <1>0, <2>1, <2>2, <2>3, Unseen DEF phaseOfJob
<1>3. ASSUME NEW c \in Outcomes, FinalizeReadyWithoutLease(j, c) PROVE Seen
  <2> DEFINE r == [Released(row[j], "ready_for_review") EXCEPT !.cloud = c]
  <2>1. /\ row' = [row EXCEPT ![j] = r] /\ spent' = spent
        /\ row[j].stage \in Running /\ ~row[j].cancel
    BY <1>3 DEF FinalizeReadyWithoutLease, MayFinalizeReady
  <2>2. r.stage = "ready_for_review" /\ r.owner = None
    BY <1>0 DEF Released, Row
  <2>3. r.cancel = row[j].cancel
    BY Zenon, <1>0 DEF Released, Row
  <2> HIDE DEF r
  <2>4. r.stage \in Settled
    BY <2>2 DEF Settled
  <2> QED
    BY <2>1, <2>2, <2>3, <2>4, Ending
<1>4. CASE FinalizeCancelledWithoutLease(j)
  <2> DEFINE r == [Released(row[j], "cancelled") EXCEPT !.err = "cancelled"]
  <2>1. row' = [row EXCEPT ![j] = r] /\ spent' = spent /\ row[j].stage \in Running
    BY <1>4 DEF FinalizeCancelledWithoutLease, MayFinalizeCancelled
  <2>2. r.stage = "cancelled" /\ r.owner = None
    BY <1>0 DEF Released, Row
  <2>3. r.cancel = row[j].cancel
    BY Zenon, <1>0 DEF Released, Row
  <2> HIDE DEF r
  <2>4. r.stage \in Settled
    BY <2>2 DEF Settled
  <2> QED
    BY <2>1, <2>2, <2>3, <2>4, Ending
<1>5. CASE RecordDirectFallback(j)
  BY <1>5, CloudColumnSeen DEF RecordDirectFallback
<1>6. CASE CancelQueued(j)
  <2> DEFINE r == [Released(row[j], "cancelled") EXCEPT !.cancel = TRUE]
  <2>1. row' = [row EXCEPT ![j] = r] /\ spent' = spent /\ row[j].stage = "queued"
    BY <1>6 DEF CancelQueued
  <2>2. r.stage = "cancelled" /\ r.owner = None /\ row[j].owner = None
    BY <1>0, <2>1 DEF Released, Row, Sound, Running
  <2>3. r.cancel = TRUE
    BY Zenon, <1>0 DEF Released, Row
  <2> HIDE DEF r
  <2>4. /\ phaseOfJob' = Lifecycle!Set(phaseOfJob, {j}, PhaseOf(r.stage))
        /\ wishOfJob' = Lifecycle!Set(wishOfJob, {j}, r.cancel)
        /\ UNCHANGED holderOfJob
    BY <1>0, <2>1, <2>2, OneRowSeen
  <2>5. phaseOfJob[j] = "waiting" /\ PhaseOf(r.stage) = "cancelled"
    BY <2>1, <2>2, PhaseValues DEF phaseOfJob
  <2>6. Lifecycle!Cancel(j)
    BY <2>1, <2>3, <2>4, <2>5 DEF Lifecycle!Cancel
  <2> QED
    BY <2>6 DEF Seen, Lifecycle!Next
<1>7. CASE MarkCancel(j)
  <2> DEFINE r == [row[j] EXCEPT !.cancel = TRUE]
  <2>1. row' = [row EXCEPT ![j] = r] /\ spent' = spent /\ row[j].stage \in Running
    BY <1>7 DEF MarkCancel
  <2>2. r.stage = row[j].stage /\ r.owner = row[j].owner
    BY <1>0 DEF Row
  <2>3. r.cancel = TRUE
    BY Zenon, <1>0 DEF Row
  <2> HIDE DEF r
  <2>4. Lifecycle!AskCancel(j)
    BY <1>0, <2>1, <2>2, <2>3, OneRowSeen, PhaseValues DEF Lifecycle!AskCancel, phaseOfJob
  <2> QED
    BY <2>4 DEF Seen, Lifecycle!Next
<1>8. CASE Retry(j)
  <2> DEFINE r == [NoRow EXCEPT !.stage = "queued", !.retries = row[j].retries + 1]
  <2>1. row' = [row EXCEPT ![j] = r] /\ spent' = spent /\ row[j].stage \in Settled
    BY <1>8 DEF Retry
  <2>2. r.stage = "queued" /\ r.owner = None
    BY DEF NoRow
  <2>3. r.cancel = FALSE
    BY DEF NoRow
  <2>4. row[j].owner = None
    BY <1>0, <2>1 DEF Sound, Running, Settled
  <2> HIDE DEF r
  <2>5. /\ phaseOfJob' = Lifecycle!Set(phaseOfJob, {j}, PhaseOf(r.stage))
        /\ wishOfJob' = Lifecycle!Set(wishOfJob, {j}, r.cancel)
        /\ UNCHANGED holderOfJob
    BY <1>0, <2>1, <2>2, <2>4, OneRowSeen
  <2>6. phaseOfJob[j] \in Lifecycle!Ended /\ PhaseOf(r.stage) = "waiting"
    BY <2>1, <2>2, PhaseValues DEF phaseOfJob
  <2>7. Lifecycle!Again(j)
    BY <2>1, <2>3, <2>5, <2>6 DEF Lifecycle!Again
  <2> QED
    BY <2>7 DEF Seen, Lifecycle!Next
<1> QED
  BY <1>1, <1>2, <1>3, <1>4, <1>5, <1>6, <1>7, <1>8 DEF TableStep

-----------------------------------------------------------------------------
\* A statement of recovery takes the jobs of S, all running, out of work.
LEMMA Interrupted ==
    ASSUME IInv, NEW S \in SUBSET Jobs,
           NEW stage \in {"queued", "ready_for_review", "cancelled"},
           row' \in [Jobs -> Row], spent' = spent,
           \A k \in S : /\ row[k].stage \in Running
                        /\ stage = "cancelled" => row[k].cancel
                        /\ row'[k].stage = stage /\ row'[k].owner = None
                        /\ (row'[k].cancel = row[k].cancel),
           \A k \in Jobs \ S : row'[k] = row[k]
    PROVE  Seen
<1> DEFINE p == PhaseOf(stage)
<1>1. phaseOfJob' = Lifecycle!Set(phaseOfJob, S, p)
  BY DEF phaseOfJob, Lifecycle!Set
<1>2. holderOfJob' = Lifecycle!Set(holderOfJob, S, None)
  BY DEF holderOfJob, Lifecycle!Set
<1>3. wishOfJob' = wishOfJob
  BY DEF wishOfJob
<1>4. p \in {"waiting", "ready", "cancelled"} /\ (p = "cancelled" => stage = "cancelled")
  BY PhaseValues
<1>5. \A k \in S : phaseOfJob[k] = "working" /\ (p = "cancelled" => wishOfJob[k])
  BY <1>4, PhaseValues DEF phaseOfJob, wishOfJob
<1>6. CASE S = {}
  <2>1. phaseOfJob' = phaseOfJob /\ holderOfJob' = holderOfJob
    BY <1>6 DEF phaseOfJob, holderOfJob
  <2> QED
    BY <1>3, <2>1 DEF Seen, Lifecycle!vars
<1>7. CASE S # {}
  <2> HIDE DEF p
  <2>1. Lifecycle!Interrupt(S, p)
    BY <1>1, <1>2, <1>3, <1>5 DEF Lifecycle!Interrupt
  <2> QED
    BY <1>4, <1>7, <2>1 DEF Seen, Lifecycle!Next
<1> QED
  BY <1>6, <1>7

LEMMA RecoverySeen ==
    ASSUME IInv, IInv', Recovery
    PROVE  Seen
<1>0. /\ \A k \in Jobs : row[k] \in Row
      /\ row' \in [Jobs -> Row]
  BY DEF IInv, TypeOK
<1>1. CASE RecoverCancelled
  <2> DEFINE S == {k \in Jobs : row[k].stage \in Running /\ row[k].cancel}
  <2> DEFINE next(k) == [Released(row[k], "cancelled") EXCEPT !.err = "cancelled"]
  <2>1. row' = [k \in Jobs |-> IF k \in S THEN next(k) ELSE row[k]] /\ spent' = spent
    BY <1>1 DEF RecoverCancelled
  <2>2. \A k \in Jobs : next(k).stage = "cancelled" /\ next(k).owner = None
    BY <1>0 DEF Released, Row
  <2>3. ASSUME NEW k \in Jobs PROVE next(k).cancel = row[k].cancel
    BY Zenon, <1>0 DEF Released, Row
  <2> HIDE DEF next
  <2>4. \A k \in S : /\ row'[k].stage = "cancelled" /\ row'[k].owner = None
                     /\ (row'[k].cancel = row[k].cancel)
    BY <2>1, <2>2, <2>3
  <2>5. \A k \in Jobs \ S : row'[k] = row[k]
    BY <2>1
  <2> QED
    BY <1>0, <2>1, <2>4, <2>5, Interrupted
<1>2. CASE RecoverRequeue
  <2> DEFINE S == {k \in Jobs : row[k].stage \in Running /\ row[k].retries < MaxRecovery}
  <2> DEFINE next(k) == [Released(row[k], "queued") EXCEPT !.err = "interrupted",
                                                           !.retries = @ + 1]
  <2>1. row' = [k \in Jobs |-> IF k \in S THEN next(k) ELSE row[k]] /\ spent' = spent
    BY <1>2 DEF RecoverRequeue
  <2>2. \A k \in Jobs : next(k).stage = "queued" /\ next(k).owner = None
    BY <1>0 DEF Released, Row
  <2>3. ASSUME NEW k \in Jobs PROVE next(k).cancel = row[k].cancel
    BY Zenon, <1>0 DEF Released, Row
  <2> HIDE DEF next
  <2>4. \A k \in S : /\ row'[k].stage = "queued" /\ row'[k].owner = None
                     /\ (row'[k].cancel = row[k].cancel)
    BY <2>1, <2>2, <2>3
  <2>5. \A k \in Jobs \ S : row'[k] = row[k]
    BY <2>1
  <2> QED
    BY <1>0, <2>1, <2>4, <2>5, Interrupted
<1>3. CASE RecoverExhausted
  <2> DEFINE S == {k \in Jobs : row[k].stage \in Running /\ row[k].retries >= MaxRecovery}
  <2> DEFINE next(k) == [Released(row[k], "ready_for_review")
                           EXCEPT !.local = "action_required", !.err = "retry_exhausted"]
  <2>1. row' = [k \in Jobs |-> IF k \in S THEN next(k) ELSE row[k]] /\ spent' = spent
    BY <1>3 DEF RecoverExhausted
  <2>2. \A k \in Jobs : next(k).stage = "ready_for_review" /\ next(k).owner = None
    BY <1>0 DEF Released, Row
  <2>3. ASSUME NEW k \in Jobs PROVE next(k).cancel = row[k].cancel
    BY Zenon, <1>0 DEF Released, Row
  <2> HIDE DEF next
  <2>4. \A k \in S : /\ row'[k].stage = "ready_for_review" /\ row'[k].owner = None
                     /\ (row'[k].cancel = row[k].cancel)
    BY <2>1, <2>2, <2>3
  <2>5. \A k \in Jobs \ S : row'[k] = row[k]
    BY <2>1
  <2> QED
    BY <1>0, <2>1, <2>4, <2>5, Interrupted
<1>4. CASE RecoverError
  BY <1>4 DEF RecoverError, Seen, Lifecycle!vars, phaseOfJob, holderOfJob, wishOfJob
<1> QED
  BY <1>1, <1>2, <1>3, <1>4 DEF Recovery

-----------------------------------------------------------------------------
\* The job table implements the life of a job: every statement of queue.rs, in
\* whatever order workers, user and startup issue them, is one step of it or none.
THEOREM Refinement == Spec => ImplementsLifecycle
<1>1. Init => Lifecycle!Init
  BY NoRowSound, PhaseValues
     DEF Init, Lifecycle!Init, phaseOfJob, holderOfJob, wishOfJob, NoRow
<1>2. IInv /\ IInv' /\ [Next]_vars => [Lifecycle!Next]_(Lifecycle!vars)
  <2> SUFFICES ASSUME IInv, IInv', [Next]_vars PROVE Seen
    BY DEF Seen
  <2>1. CASE Restart \/ UNCHANGED vars
    BY <2>1 DEF Restart, vars, Seen, Lifecycle!vars, phaseOfJob, holderOfJob, wishOfJob
  <2> QED
    BY <2>1, WorkerSeen, TableSeen, RecoverySeen DEF Next
<1> QED
  BY <1>1, <1>2, Invariance, PTL DEF Spec, ImplementsLifecycle, Lifecycle!Spec
=============================================================================
