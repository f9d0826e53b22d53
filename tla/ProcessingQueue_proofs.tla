------------------------ MODULE ProcessingQueue_proofs ------------------------
(***************************************************************************)
(* Proofs about ProcessingQueue, for any set of jobs, any number of claims *)
(* and any recovery and retry limits.                                      *)
(*                                                                         *)
(* The invariants are not inductive one by one.  That a cancelled row has  *)
(* no failure code needs to know what code a row may have while it is      *)
(* still active, and that owners are distinct needs to know that a row     *)
(* which is not running has none.  Sound gathers what is said of a single  *)
(* row; IInv adds the one fact that relates two rows.                      *)
(***************************************************************************)
EXTENDS ProcessingQueue, TLAPS

\* A row is consistent by itself.
Sound(r) ==
    /\ r.owner # None <=> r.stage \in Running
    /\ r.live => r.owner # None
    /\ r.stage \in {"absent", "queued"} \cup Running => r.err \in {"none", "interrupted"}
    /\ r.stage = "cancelled" => r.err \notin {"failed", "retry_exhausted"}

IInv == /\ TypeOK
        /\ \A j \in Jobs : Sound(row[j])
        /\ OwnersAreDistinct

-----------------------------------------------------------------------------
\* What every call of advance_stage makes of a sound leased row is a sound
\* row again, with the owner it had or none.
LEMMA AdvancedSound ==
    ASSUME NEW r \in Row, NEW c \in Calls, Sound(r), r.live
    PROVE  /\ Advanced(r, c) \in Row
           /\ Sound(Advanced(r, c))
           /\ Advanced(r, c).owner \in {r.owner, None}
<1> DEFINE stage == IF r.cancel THEN "cancelled" ELSE c.stage
<1>1. /\ c.stage \in (Running \ {"running"}) \cup Settled
      /\ c.local \in LocalStatus \cup {"keep"}
      /\ c.cloud \in CloudStatus \cup {"keep"}
      /\ c.err \in {"keep", "failed"}
      /\ c.err = "failed" => c.stage \in {"failed", "ready_for_review"}
  BY OutcomesAssumption
     DEF Calls, Call, StartLocal, StartDirect, DirectFailed, DirectToLocal,
         DirectReady, LocalFailed, LocalDone, StartRepair, CycleFailed, Ready,
         Stop, AdvanceFailed, Running, Settled, LocalStatus, CloudStatus
<1>2. /\ r.stage \in Running
      /\ r.owner \in Workers
      /\ r.err \in {"none", "interrupted"}
  BY DEF Sound, Row, Running
<1>3. Advanced(r, c) =
        [stage |-> stage, local |-> Coalesce(c.local, r.local),
         cloud |-> Coalesce(c.cloud, r.cloud),
         err |-> IF r.cancel THEN "cancelled" ELSE Coalesce(c.err, r.err),
         retries |-> r.retries,
         owner |-> IF stage \in Settled THEN None ELSE r.owner,
         live |-> stage \notin Settled, cancel |-> r.cancel]
  BY DEF Advanced
<1>4. Advanced(r, c) \in Row
  BY <1>1, <1>2, <1>3 DEF Row, Coalesce, Stages, Running, Settled, LocalStatus,
                          CloudStatus, ErrorCode
<1>5. Sound(Advanced(r, c))
  <2>1. stage \in Running \/ stage \in Settled
    BY <1>1 DEF Settled
  <2>2. stage \in Running => stage \notin Settled
    BY DEF Running, Settled
  <2>3. /\ Advanced(r, c).stage = stage
        /\ Advanced(r, c).owner = IF stage \in Settled THEN None ELSE r.owner
        /\ Advanced(r, c).err = IF r.cancel THEN "cancelled" ELSE Coalesce(c.err, r.err)
    BY <1>3
  <2>4. Advanced(r, c).live <=> stage \notin Settled
    BY Zenon DEF Advanced
  <2>5. stage \in Running \/ stage = "cancelled"
        => IF r.cancel THEN stage = "cancelled" ELSE Coalesce(c.err, r.err) = r.err
    BY <1>1, <2>2 DEF Coalesce, Settled, Running
  <2>6. /\ Advanced(r, c).owner # None <=> Advanced(r, c).stage \in Running
        /\ Advanced(r, c).live => Advanced(r, c).owner # None
    BY <1>2, <2>1, <2>2, <2>3, <2>4, NoneAssumption
  <2>7. Advanced(r, c).stage \in {"absent", "queued"} \cup Running
        => Advanced(r, c).err \in {"none", "interrupted"}
    BY <1>2, <2>1, <2>3, <2>5 DEF Settled, Running
  <2>8. Advanced(r, c).stage = "cancelled"
        => Advanced(r, c).err \notin {"failed", "retry_exhausted"}
    BY <1>2, <2>3, <2>5
  <2> QED
    BY <2>6, <2>7, <2>8 DEF Sound
<1>6. Advanced(r, c).owner \in {r.owner, None}
  BY <1>3
<1> QED
  BY <1>4, <1>5, <1>6
-----------------------------------------------------------------------------
(* The fields of a row that the statements write, one at a time or released. *)

\* A released row keeps everything but its stage and lease.
LEMMA ReleasedRow ==
    ASSUME NEW r \in Row, NEW stage \in Stages
    PROVE  /\ Released(r, stage) \in Row
           /\ Released(r, stage).stage = stage
           /\ Released(r, stage).owner = None
           /\ Released(r, stage).live = FALSE
           /\ Released(r, stage).err = r.err
           /\ Released(r, stage).retries = r.retries
           /\ Released(r, stage).cancel = r.cancel
  BY DEF Released, Row

\* A step that puts one sound row in the place of another, with the same
\* owner or none, keeps the invariant.
LEMMA OneRowStep ==
    ASSUME IInv, NEW j \in Jobs, NEW r \in Row,
           row' = [row EXCEPT ![j] = r], spent' = spent, boot' = boot,
           Sound(r), r.owner \in {row[j].owner, None}
    PROVE  IInv'
<1>1. /\ row'[j] = r
      /\ \A k \in Jobs \ {j} : row'[k] = row[k]
  BY DEF IInv, TypeOK
<1>2. TypeOK'
  BY DEF IInv, TypeOK
<1>3. \A k \in Jobs : Sound(row'[k])
  BY <1>1 DEF IInv
<1>4. OwnersAreDistinct'
  BY <1>1 DEF IInv, OwnersAreDistinct
<1> QED
  BY <1>2, <1>3, <1>4 DEF IInv, Sound
-----------------------------------------------------------------------------
(* One lemma per operation.                                                *)

LEMMA NoRowSound ==
    /\ NoRow \in Row
    /\ NoRow.owner = None /\ NoRow.err = "none" /\ NoRow.live = FALSE
    /\ NoRow.stage = "absent"
  BY DEF NoRow, Row, Stages, LocalStatus, CloudStatus, ErrorCode

LEMMA InitIInv == Init => IInv
<1> SUFFICES ASSUME Init PROVE IInv
  OBVIOUS
<1>1. Sound(NoRow)
  BY NoRowSound DEF Sound, Running
<1> QED
  BY <1>1, NoRowSound DEF Init, IInv, TypeOK, OwnersAreDistinct

LEMMA EnqueueIInv ==
    ASSUME IInv, NEW j \in Jobs, Enqueue(j)
    PROVE  IInv'
<1> DEFINE r == [row[j] EXCEPT !.stage = "queued"]
<1>1. row[j] \in Row /\ Sound(row[j]) /\ row[j].stage = "absent"
  BY DEF IInv, TypeOK, Enqueue
<1>2. r \in Row /\ r.owner = row[j].owner
  BY <1>1 DEF Row, Stages
<1>3. Sound(r)
  BY <1>1 DEF Sound, Row, Running
<1>4. row' = [row EXCEPT ![j] = r] /\ spent' = spent /\ boot' = boot
  BY DEF Enqueue
<1> QED
  BY <1>2, <1>3, <1>4, OneRowStep

LEMMA ExpireIInv ==
    ASSUME IInv, NEW j \in Jobs, Expire(j)
    PROVE  IInv'
<1> DEFINE r == [row[j] EXCEPT !.live = FALSE]
<1>1. row[j] \in Row /\ Sound(row[j])
  BY DEF IInv, TypeOK
<1>2. r \in Row /\ r.owner = row[j].owner
  BY <1>1 DEF Row
<1>3. Sound(r)
  BY <1>1 DEF Sound, Row
<1>4. row' = [row EXCEPT ![j] = r] /\ spent' = spent /\ boot' = boot
  BY DEF Expire
<1> QED
  BY <1>2, <1>3, <1>4, OneRowStep

LEMMA AdvanceIInv ==
    ASSUME IInv, NEW w \in Workers, NEW j \in Jobs, NEW c \in Calls, Advance(w, j, c)
    PROVE  IInv'
<1>1. row[j] \in Row /\ Sound(row[j]) /\ row[j].live
  BY DEF IInv, TypeOK, Advance, Holds
<1>2. /\ Advanced(row[j], c) \in Row
      /\ Sound(Advanced(row[j], c))
      /\ Advanced(row[j], c).owner \in {row[j].owner, None}
  BY <1>1, AdvancedSound
<1>3. /\ row' = [row EXCEPT ![j] = Advanced(row[j], c)]
      /\ spent' = spent /\ boot' = boot
  BY DEF Advance
<1> QED
  BY <1>2, <1>3, OneRowStep

\* A statement that writes the cloud column alone.
LEMMA CloudColumnIInv ==
    ASSUME IInv, NEW j \in Jobs, NEW cloud \in CloudStatus,
           row' = [row EXCEPT ![j] = [@ EXCEPT !.cloud = cloud]],
           spent' = spent, boot' = boot
    PROVE  IInv'
<1> DEFINE r == [row[j] EXCEPT !.cloud = cloud]
<1>1. row[j] \in Row /\ Sound(row[j])
  BY DEF IInv, TypeOK
<1>2. r \in Row /\ r.owner = row[j].owner
  BY <1>1 DEF Row
<1>3. Sound(r)
  BY <1>1 DEF Sound, Row
<1>4. row' = [row EXCEPT ![j] = r]
  OBVIOUS
<1> QED
  BY <1>2, <1>3, <1>4, OneRowStep

LEMMA FinalizeReadyIInv ==
    ASSUME IInv, NEW j \in Jobs, NEW cloud \in Outcomes,
           FinalizeReadyWithoutLease(j, cloud)
    PROVE  IInv'
<1> DEFINE q == Released(row[j], "ready_for_review")
           r == [q EXCEPT !.cloud = cloud]
<1>1. row[j] \in Row /\ cloud \in CloudStatus /\ "ready_for_review" \in Stages
  BY OutcomesAssumption DEF IInv, TypeOK, CloudStatus, Stages, Settled
<1>2. q \in Row /\ q.stage = "ready_for_review" /\ q.owner = None /\ q.live = FALSE
  BY <1>1, ReleasedRow
<1>3. r \in Row /\ r.owner = None
  BY <1>1, <1>2 DEF Row
<1>4. Sound(r)
  BY <1>2 DEF Sound, Row, Running
<1>5. row' = [row EXCEPT ![j] = r] /\ spent' = spent /\ boot' = boot
  BY DEF FinalizeReadyWithoutLease
<1> QED
  BY <1>3, <1>4, <1>5, OneRowStep

LEMMA FinalizeCancelledIInv ==
    ASSUME IInv, NEW j \in Jobs, FinalizeCancelledWithoutLease(j)
    PROVE  IInv'
<1> DEFINE q == Released(row[j], "cancelled")
           r == [q EXCEPT !.err = "cancelled"]
<1>1. row[j] \in Row /\ "cancelled" \in Stages
  BY DEF IInv, TypeOK, Stages, Settled
<1>2. q \in Row /\ q.stage = "cancelled" /\ q.owner = None /\ q.live = FALSE
  BY <1>1, ReleasedRow
<1>3. r \in Row /\ r.owner = None
  BY <1>2 DEF Row, ErrorCode
<1>4. Sound(r)
  BY <1>2 DEF Sound, Row, Running
<1>5. row' = [row EXCEPT ![j] = r] /\ spent' = spent /\ boot' = boot
  BY DEF FinalizeCancelledWithoutLease
<1> QED
  BY <1>3, <1>4, <1>5, OneRowStep

LEMMA CancelQueuedIInv ==
    ASSUME IInv, NEW j \in Jobs, CancelQueued(j)
    PROVE  IInv'
<1> DEFINE q == Released(row[j], "cancelled")
           r == [q EXCEPT !.cancel = TRUE]
<1>1. /\ row[j] \in Row /\ "cancelled" \in Stages
      /\ row[j].err \in {"none", "interrupted"}
  BY DEF IInv, TypeOK, Stages, Settled, Sound, CancelQueued
<1>2. /\ q \in Row /\ q.stage = "cancelled" /\ q.owner = None /\ q.live = FALSE
      /\ q.err = row[j].err
  BY <1>1, ReleasedRow
<1>3. r \in Row /\ r.owner = None
  BY <1>2 DEF Row
<1>4. Sound(r)
  BY <1>1, <1>2 DEF Sound, Row, Running
<1>5. row' = [row EXCEPT ![j] = r] /\ spent' = spent /\ boot' = boot
  BY DEF CancelQueued
<1> QED
  BY <1>3, <1>4, <1>5, OneRowStep

LEMMA MarkCancelIInv ==
    ASSUME IInv, NEW j \in Jobs, MarkCancel(j)
    PROVE  IInv'
<1> DEFINE r == [row[j] EXCEPT !.cancel = TRUE]
<1>1. row[j] \in Row /\ Sound(row[j])
  BY DEF IInv, TypeOK
<1>2. r \in Row /\ r.owner = row[j].owner
  BY <1>1 DEF Row
<1>3. Sound(r)
  BY <1>1 DEF Sound, Row
<1>4. row' = [row EXCEPT ![j] = r] /\ spent' = spent /\ boot' = boot
  BY DEF MarkCancel
<1> QED
  BY <1>2, <1>3, <1>4, OneRowStep

LEMMA RetryIInv ==
    ASSUME IInv, NEW j \in Jobs, Retry(j)
    PROVE  IInv'
<1> DEFINE r == [NoRow EXCEPT !.stage = "queued", !.retries = row[j].retries + 1]
<1>1. row[j].retries + 1 \in Nat
  <2>1. row[j].retries \in Nat
    BY DEF IInv, TypeOK, Row
  <2> QED
    BY <2>1
<1>2. /\ NoRow \in Row /\ NoRow.owner = None /\ NoRow.err = "none"
      /\ NoRow.live = FALSE
  BY NoRowSound
<1>3. \A n \in Nat : [NoRow EXCEPT !.stage = "queued", !.retries = n] \in Row
  BY <1>2 DEF Row, Stages
<1>4. r \in Row
  BY Zenon, <1>1, <1>3
<1>5. r.owner = None /\ r.live = FALSE /\ r.stage = "queued" /\ r.err = "none"
  BY <1>2 DEF Row
<1>6. Sound(r)
  BY <1>5 DEF Sound, Running
<1>7. row' = [row EXCEPT ![j] = r] /\ spent' = spent /\ boot' = boot
  BY DEF Retry
<1> QED
  BY <1>4, <1>5, <1>6, <1>7, OneRowStep

\* A claim draws an owner that no other row has.
LEMMA ClaimIInv ==
    ASSUME IInv, NEW w \in Workers, NEW j \in Jobs, Claim(w, j)
    PROVE  IInv'
<1> DEFINE r == [row[j] EXCEPT !.stage = "running", !.owner = w, !.live = TRUE,
                               !.local = IF row[j].stage = "running"
                                         THEN row[j].local ELSE "running"]
<1>1. /\ row[j] \in Row
      /\ row[j].err \in {"none", "interrupted"}
      /\ w \notin spent
  BY DEF IInv, TypeOK, Sound, Claim, Claimable, Fresh
<1>2. row' = [row EXCEPT ![j] = r] /\ spent' = spent \cup {w} /\ boot' = boot
  BY DEF Claim
<1>3. r \in Row
  BY <1>1 DEF Row, Stages, Running, LocalStatus
<1>4. r.stage = "running" /\ r.owner = w /\ r.err = row[j].err
  BY <1>1 DEF Row
<1>5. Sound(r)
  BY <1>1, <1>4, NoneAssumption DEF Sound, Running
<1> HIDE DEF r
<1>6. row'[j] = r /\ \A k \in Jobs \ {j} : row'[k] = row[k]
  BY <1>2 DEF IInv, TypeOK
<1>7. TypeOK'
  BY <1>2, <1>3 DEF IInv, TypeOK
<1>8. \A k \in Jobs : Sound(row'[k])
  BY <1>5, <1>6 DEF IInv
<1>9. OwnersAreDistinct'
  <2> SUFFICES ASSUME NEW i \in Jobs, NEW k \in Jobs, row'[i].owner # None
               PROVE  /\ row'[i].owner \in spent'
                      /\ row'[i].owner = row'[k].owner => i = k
    BY DEF OwnersAreDistinct
  <2>1. \A l \in Jobs : row[l].owner # None => row[l].owner \in spent
    BY DEF IInv, OwnersAreDistinct
  <2>2. \A l \in Jobs \ {j} : row'[l].owner # w
    BY <1>1, <1>6, <2>1, NoneAssumption
  <2>3. CASE i = j
    BY <1>2, <1>4, <1>6, <2>2, <2>3
  <2>4. CASE i # j
    <3>1. row'[i] = row[i] /\ row[i].owner \in spent
      BY <1>6, <2>1, <2>4
    <3>2. \A l \in Jobs : row[i].owner = row[l].owner => i = l
      BY <3>1 DEF IInv, OwnersAreDistinct
    <3>3. CASE k = j
      BY <1>2, <1>4, <1>6, <2>2, <2>4, <3>1, <3>3
    <3>4. CASE k # j
      BY <1>2, <1>6, <3>1, <3>2, <3>4
    <3> QED
      BY <3>3, <3>4
  <2> QED
    BY <2>3, <2>4
<1> QED
  BY <1>7, <1>8, <1>9 DEF IInv, Sound

\* A step over the whole table keeps the invariant when each row it leaves
\* behind is sound and keeps its owner or has none.
LEMMA TableStepIInv ==
    ASSUME IInv, row' \in [Jobs -> Row], spent' = spent,
           boot' \in {"cancelled", "requeue", "exhausted", "up"},
           \A k \in Jobs : /\ Sound(row'[k])
                           /\ row'[k].owner \in {row[k].owner, None}
    PROVE  IInv'
<1>1. TypeOK'
  BY DEF IInv, TypeOK
<1>2. OwnersAreDistinct'
  BY DEF IInv, OwnersAreDistinct
<1> QED
  BY <1>1, <1>2 DEF IInv, Sound

LEMMA PersistBatchIInv ==
    ASSUME IInv, NEW w \in Workers, NEW j \in Jobs, NEW children \in SUBSET Jobs,
           PersistBatch(w, j, children)
    PROVE  IInv'
<1> DEFINE next(k) == [Released(row[k], "ready_for_review")
                         EXCEPT !.local = "not_run", !.cloud = "succeeded"]
<1>1. \A k \in Jobs : row[k] \in Row /\ Sound(row[k])
  BY DEF IInv, TypeOK
<1>2. ASSUME NEW k \in Jobs
      PROVE  next(k) \in Row /\ Sound(next(k)) /\ next(k).owner = None
  <2> DEFINE q == Released(row[k], "ready_for_review")
  <2>0. "ready_for_review" \in Stages
    BY DEF Stages, Settled
  <2>1. q \in Row /\ q.stage = "ready_for_review" /\ q.owner = None /\ q.live = FALSE
    BY <1>1, <2>0, ReleasedRow
  <2> HIDE DEF q
  <2>2. next(k) = [q EXCEPT !.local = "not_run", !.cloud = "succeeded"]
    BY DEF q
  <2>3. next(k) \in Row
    BY <2>1, <2>2 DEF Row, LocalStatus, CloudStatus
  <2>4. next(k).stage = "ready_for_review" /\ next(k).owner = None /\ next(k).live = FALSE
    BY <2>1, <2>2 DEF Row
  <2> QED
    BY <2>3, <2>4 DEF Sound, Running
<1>3. /\ row' = [k \in Jobs |-> IF k \in children \cup {j} THEN next(k) ELSE row[k]]
      /\ spent' = spent /\ boot' = boot
  BY DEF PersistBatch
<1> HIDE DEF next
<1> QED
  BY <1>1, <1>2, <1>3, TableStepIInv DEF IInv, TypeOK

LEMMA RecoverCancelledIInv == IInv /\ RecoverCancelled => IInv'
<1> SUFFICES ASSUME IInv, RecoverCancelled PROVE IInv'
  OBVIOUS
<1> DEFINE next(k) == [Released(row[k], "cancelled") EXCEPT !.err = "cancelled"]
<1>1. \A k \in Jobs : row[k] \in Row /\ Sound(row[k])
  BY DEF IInv, TypeOK
<1>2. ASSUME NEW k \in Jobs
      PROVE  next(k) \in Row /\ Sound(next(k)) /\ next(k).owner = None
  <2> DEFINE q == Released(row[k], "cancelled")
  <2>0. "cancelled" \in Stages
    BY DEF Stages, Settled
  <2>1. q \in Row /\ q.stage = "cancelled" /\ q.owner = None /\ q.live = FALSE
    BY <1>1, <2>0, ReleasedRow
  <2> HIDE DEF q
  <2>2. next(k) = [q EXCEPT !.err = "cancelled"]
    BY DEF q
  <2>3. /\ next(k) \in Row
        /\ next(k).stage = "cancelled" /\ next(k).owner = None
        /\ next(k).live = FALSE /\ next(k).err = "cancelled"
    BY <2>1, <2>2 DEF Row, ErrorCode
  <2> QED
    BY <2>3 DEF Sound, Running
<1>3. /\ row' = [k \in Jobs |-> IF row[k].stage \in Running /\ row[k].cancel
                               THEN next(k) ELSE row[k]]
      /\ spent' = spent /\ boot' = "requeue"
  BY DEF RecoverCancelled
<1> HIDE DEF next
<1>4. row' \in [Jobs -> Row]
  BY <1>1, <1>2, <1>3
<1>5. \A k \in Jobs : Sound(row'[k]) /\ row'[k].owner \in {row[k].owner, None}
  BY <1>1, <1>2, <1>3
<1> QED
  BY <1>3, <1>4, <1>5, TableStepIInv

LEMMA RecoverRequeueIInv == IInv /\ RecoverRequeue => IInv'
<1> SUFFICES ASSUME IInv, RecoverRequeue PROVE IInv'
  OBVIOUS
<1> DEFINE next(k) == [Released(row[k], "queued") EXCEPT !.err = "interrupted",
                                                         !.retries = @ + 1]
<1>1. \A k \in Jobs : row[k] \in Row /\ Sound(row[k])
  BY DEF IInv, TypeOK
<1>2. ASSUME NEW k \in Jobs
      PROVE  next(k) \in Row /\ Sound(next(k)) /\ next(k).owner = None
  <2> DEFINE q == Released(row[k], "queued")
  <2>0. "queued" \in Stages
    BY DEF Stages
  <2>1. q \in Row /\ q.stage = "queued" /\ q.owner = None /\ q.live = FALSE
    BY <1>1, <2>0, ReleasedRow
  <2> HIDE DEF q
  <2>2. next(k) = [q EXCEPT !.err = "interrupted", !.retries = q.retries + 1]
    BY DEF q
  <2>3. q.retries + 1 \in Nat
    <3>1. q.retries \in Nat
      BY <2>1 DEF Row
    <3> QED
      BY <3>1
  <2>4. /\ next(k) \in Row
        /\ next(k).stage = "queued" /\ next(k).owner = None
        /\ next(k).live = FALSE /\ next(k).err = "interrupted"
    BY <2>1, <2>2, <2>3 DEF Row, ErrorCode
  <2> QED
    BY <2>4 DEF Sound, Running
<1>3. /\ row' = [k \in Jobs |-> IF row[k].stage \in Running
                                  /\ row[k].retries < MaxRecovery
                               THEN next(k) ELSE row[k]]
      /\ spent' = spent /\ boot' = "exhausted"
  BY DEF RecoverRequeue
<1> HIDE DEF next
<1>4. row' \in [Jobs -> Row]
  BY <1>1, <1>2, <1>3
<1>5. \A k \in Jobs : Sound(row'[k]) /\ row'[k].owner \in {row[k].owner, None}
  BY <1>1, <1>2, <1>3
<1> QED
  BY <1>3, <1>4, <1>5, TableStepIInv

LEMMA RecoverExhaustedIInv == IInv /\ RecoverExhausted => IInv'
<1> SUFFICES ASSUME IInv, RecoverExhausted PROVE IInv'
  OBVIOUS
<1> DEFINE next(k) == [Released(row[k], "ready_for_review")
                         EXCEPT !.local = "action_required", !.err = "retry_exhausted"]
<1>1. \A k \in Jobs : row[k] \in Row /\ Sound(row[k])
  BY DEF IInv, TypeOK
<1>2. ASSUME NEW k \in Jobs
      PROVE  next(k) \in Row /\ Sound(next(k)) /\ next(k).owner = None
  <2> DEFINE q == Released(row[k], "ready_for_review")
  <2>0. "ready_for_review" \in Stages
    BY DEF Stages, Settled
  <2>1. q \in Row /\ q.stage = "ready_for_review" /\ q.owner = None /\ q.live = FALSE
    BY <1>1, <2>0, ReleasedRow
  <2> HIDE DEF q
  <2>2. next(k) = [q EXCEPT !.local = "action_required", !.err = "retry_exhausted"]
    BY DEF q
  <2>3. /\ next(k) \in Row
        /\ next(k).stage = "ready_for_review" /\ next(k).owner = None
        /\ next(k).live = FALSE
    BY <2>1, <2>2 DEF Row, ErrorCode, LocalStatus
  <2> QED
    BY <2>3 DEF Sound, Running
<1>3. /\ row' = [k \in Jobs |-> IF row[k].stage \in Running
                                  /\ row[k].retries >= MaxRecovery
                               THEN next(k) ELSE row[k]]
      /\ spent' = spent /\ boot' = "up"
  BY DEF RecoverExhausted
<1> HIDE DEF next
<1>4. row' \in [Jobs -> Row]
  BY <1>1, <1>2, <1>3
<1>5. \A k \in Jobs : Sound(row'[k]) /\ row'[k].owner \in {row[k].owner, None}
  BY <1>1, <1>2, <1>3
<1> QED
  BY <1>3, <1>4, <1>5, TableStepIInv
-----------------------------------------------------------------------------
(* The invariant, and what follows from it.                                *)

LEMMA NextIInv == IInv /\ [Next]_vars => IInv'
<1> SUFFICES ASSUME IInv, [Next]_vars PROVE IInv'
  OBVIOUS
<1>1. ASSUME NEW w \in Workers, NEW j \in Jobs, WorkerStep(w, j) PROVE IInv'
  <2>1. CASE Claim(w, j)
    BY <2>1, ClaimIInv
  <2>2. CASE \E c \in Calls : Advance(w, j, c)
    BY <2>2, AdvanceIInv
  <2>3. ASSUME NEW s \in {"queued", "running"}, SetCloudStatus(w, j, s) PROVE IInv'
    BY <2>3, CloudColumnIInv DEF SetCloudStatus, CloudStatus
  <2>4. CASE \E children \in SUBSET Jobs : PersistBatch(w, j, children)
    BY <2>4, PersistBatchIInv
  <2> QED
    BY <1>1, <2>1, <2>2, <2>3, <2>4 DEF WorkerStep
<1>2. ASSUME NEW j \in Jobs, TableStep(j) PROVE IInv'
  <2>1. CASE Enqueue(j)
    BY <2>1, EnqueueIInv
  <2>2. CASE Expire(j)
    BY <2>2, ExpireIInv
  <2>3. CASE \E c \in Outcomes : FinalizeReadyWithoutLease(j, c)
    BY <2>3, FinalizeReadyIInv
  <2>4. CASE FinalizeCancelledWithoutLease(j)
    BY <2>4, FinalizeCancelledIInv
  <2>5. CASE RecordDirectFallback(j)
    BY <2>5, CloudColumnIInv DEF RecordDirectFallback, CloudStatus
  <2>6. CASE CancelQueued(j)
    BY <2>6, CancelQueuedIInv
  <2>7. CASE MarkCancel(j)
    BY <2>7, MarkCancelIInv
  <2>8. CASE Retry(j)
    BY <2>8, RetryIInv
  <2> QED
    BY <1>2, <2>1, <2>2, <2>3, <2>4, <2>5, <2>6, <2>7, <2>8 DEF TableStep
<1>3. CASE Recovery
  <2>1. CASE RecoverError
    BY <2>1, TableStepIInv DEF RecoverError, IInv, TypeOK
  <2> QED
    BY <1>3, <2>1, RecoverCancelledIInv, RecoverRequeueIInv, RecoverExhaustedIInv
       DEF Recovery
<1>4. CASE Restart
  BY <1>4, TableStepIInv DEF Restart, IInv, TypeOK
<1>5. CASE UNCHANGED vars
  BY <1>5, TableStepIInv DEF vars, IInv, TypeOK
<1> QED
  BY <1>1, <1>2, <1>3, <1>4, <1>5 DEF Next

\* The queue keeps its inductive invariant, whatever its callers do.
THEOREM Invariance == Spec => []IInv
  BY InitIInv, NextIInv, PTL DEF Spec

\* Every row stays of its type through every statement of queue.rs.
THEOREM TypeCorrect == Spec => []TypeOK
<1>1. IInv => TypeOK
  BY DEF IInv
<1> QED
  BY <1>1, Invariance, PTL

\* Rows are leased exactly while a worker is to move them on.
THEOREM Leases == Spec => []LeaseIffRunning
<1>1. IInv => LeaseIffRunning
  BY DEF IInv, Sound, LeaseIffRunning
<1> QED
  BY <1>1, Invariance, PTL

\* The uuid of a claim owns one job at most.
THEOREM Owners == Spec => []OwnersAreDistinct
<1>1. IInv => OwnersAreDistinct
  BY DEF IInv
<1> QED
  BY <1>1, Invariance, PTL

\* No order of the queue's statements shows a cancelled job as failed.
THEOREM CancelShown == Spec => []CancelIsNotFailure
<1>1. IInv => CancelIsNotFailure
  BY DEF IInv, Sound, CancelIsNotFailure
<1> QED
  BY <1>1, Invariance, PTL
-----------------------------------------------------------------------------
(* Cancel markers.                                                         *)

\* What CancelSticks says of one step.
CancelKept ==
    \A j \in Jobs :
       row[j].cancel /\ row[j].stage \in Active
       => /\ row'[j].cancel
          /\ \/ row'[j].stage \in Active \cup {"cancelled"}
             \/ boot = "exhausted" /\ boot' = "up"

LEMMA OneRowKeepsCancel ==
    ASSUME TypeOK, NEW j \in Jobs, NEW r,
           row' = [row EXCEPT ![j] = r],
           row[j].cancel /\ row[j].stage \in Active
           => r.cancel /\ r.stage \in Active \cup {"cancelled"}
    PROVE  CancelKept
<1>1. row'[j] = r /\ \A k \in Jobs \ {j} : row'[k] = row[k]
  BY DEF TypeOK
<1> QED
  BY <1>1 DEF CancelKept

LEMMA WorkerKeepsCancel ==
    ASSUME TypeOK, NEW w \in Workers, NEW j \in Jobs, WorkerStep(w, j)
    PROVE  CancelKept
<1>1. row[j] \in Row
  BY DEF TypeOK
<1>2. CASE Claim(w, j)
  <2> DEFINE r == [row[j] EXCEPT !.stage = "running", !.owner = w, !.live = TRUE,
                                 !.local = IF row[j].stage = "running"
                                           THEN row[j].local ELSE "running"]
  <2>1. row' = [row EXCEPT ![j] = r]
    BY <1>2 DEF Claim
  <2>2. r.stage = "running" /\ r.cancel = row[j].cancel
    BY <1>1 DEF Row
  <2> HIDE DEF r
  <2> QED
    BY <2>1, <2>2, OneRowKeepsCancel DEF Active, Running
<1>3. ASSUME NEW c \in Calls, Advance(w, j, c) PROVE CancelKept
  <2>1. row' = [row EXCEPT ![j] = Advanced(row[j], c)]
    BY <1>3 DEF Advance
  <2>2. row[j].cancel => Advanced(row[j], c).stage = "cancelled"
    BY DEF Advanced
  <2>3. row[j].cancel => Advanced(row[j], c).cancel
    BY Zenon DEF Advanced
  <2> QED
    BY <2>1, <2>2, <2>3, OneRowKeepsCancel
<1>4. ASSUME NEW s \in {"queued", "running"}, SetCloudStatus(w, j, s) PROVE CancelKept
  <2>1. row' = [row EXCEPT ![j] = [row[j] EXCEPT !.cloud = s]] /\ ~row[j].cancel
    BY <1>4 DEF SetCloudStatus
  <2> QED
    BY <2>1, OneRowKeepsCancel
<1>5. ASSUME NEW children \in SUBSET Jobs, PersistBatch(w, j, children) PROVE CancelKept
  <2>1. \A k \in children \cup {j} : ~(row[k].cancel /\ row[k].stage \in Active)
    BY <1>5 DEF PersistBatch, MayPersist, Active, Running
  <2>2. \A k \in Jobs \ (children \cup {j}) : row'[k] = row[k]
    BY <1>5 DEF PersistBatch
  <2> QED
    BY <2>1, <2>2 DEF CancelKept
<1> QED
  BY <1>2, <1>3, <1>4, <1>5 DEF WorkerStep

LEMMA TableKeepsCancel ==
    ASSUME TypeOK, NEW j \in Jobs, TableStep(j)
    PROVE  CancelKept
<1>1. row[j] \in Row
  BY DEF TypeOK
<1>2. CASE Enqueue(j)
  <2>1. row' = [row EXCEPT ![j] = [row[j] EXCEPT !.stage = "queued"]]
    BY <1>2 DEF Enqueue
  <2>2. row[j].stage \notin Active
    BY <1>2 DEF Enqueue, Active, Running
  <2> QED
    BY <2>1, <2>2, OneRowKeepsCancel
<1>3. CASE Expire(j)
  <2>1. row' = [row EXCEPT ![j] = [row[j] EXCEPT !.live = FALSE]]
    BY <1>3 DEF Expire
  <2> QED
    BY <1>1, <2>1, OneRowKeepsCancel DEF Row
<1>4. ASSUME NEW c \in Outcomes, FinalizeReadyWithoutLease(j, c) PROVE CancelKept
  <2>1. row' = [row EXCEPT ![j] = [Released(row[j], "ready_for_review")
                                     EXCEPT !.cloud = c]]
    BY <1>4 DEF FinalizeReadyWithoutLease
  <2>2. ~row[j].cancel
    BY <1>4 DEF FinalizeReadyWithoutLease, MayFinalizeReady
  <2> QED
    BY <2>1, <2>2, OneRowKeepsCancel
<1>5. CASE FinalizeCancelledWithoutLease(j)
  <2> DEFINE r == [Released(row[j], "cancelled") EXCEPT !.err = "cancelled"]
  <2>1. row' = [row EXCEPT ![j] = r]
    BY <1>5 DEF FinalizeCancelledWithoutLease
  <2>2. r.stage = "cancelled" /\ r.cancel = row[j].cancel
    BY <1>1 DEF Released, Row
  <2> HIDE DEF r
  <2> QED
    BY <2>1, <2>2, OneRowKeepsCancel
<1>6. CASE RecordDirectFallback(j)
  <2>1. row' = [row EXCEPT ![j] = [row[j] EXCEPT !.cloud = "failed"]]
    BY <1>6 DEF RecordDirectFallback
  <2> QED
    BY <1>1, <2>1, OneRowKeepsCancel DEF Row
<1>7. CASE CancelQueued(j)
  <2> DEFINE r == [Released(row[j], "cancelled") EXCEPT !.cancel = TRUE]
  <2>1. row' = [row EXCEPT ![j] = r]
    BY <1>7 DEF CancelQueued
  <2>2. r.stage = "cancelled" /\ r.cancel
    BY <1>1 DEF Released, Row
  <2> HIDE DEF r
  <2> QED
    BY <2>1, <2>2, OneRowKeepsCancel
<1>8. CASE MarkCancel(j)
  <2>1. row' = [row EXCEPT ![j] = [row[j] EXCEPT !.cancel = TRUE]]
    BY <1>8 DEF MarkCancel
  <2> QED
    BY <1>1, <2>1, OneRowKeepsCancel DEF Row
<1>9. CASE Retry(j)
  <2>1. row' = [row EXCEPT ![j] = [NoRow EXCEPT !.stage = "queued",
                                                !.retries = row[j].retries + 1]]
    BY <1>9 DEF Retry
  <2>2. row[j].stage \notin Active
    BY <1>9 DEF Retry, Active, Running, Settled
  <2> QED
    BY <2>1, <2>2, OneRowKeepsCancel
<1> QED
  BY <1>2, <1>3, <1>4, <1>5, <1>6, <1>7, <1>8, <1>9 DEF TableStep

LEMMA RecoveryKeepsCancel == TypeOK /\ Recovery => CancelKept
<1> SUFFICES ASSUME TypeOK, Recovery PROVE CancelKept
  OBVIOUS
<1>1. \A k \in Jobs : row[k] \in Row
  BY DEF TypeOK
<1>2. \A k \in Jobs, stage \in Stages :
         /\ Released(row[k], stage) \in Row
         /\ Released(row[k], stage).stage = stage
         /\ Released(row[k], stage).cancel = row[k].cancel
  BY <1>1, ReleasedRow
<1>3. CASE RecoverCancelled
  <2> DEFINE r(k) == [Released(row[k], "cancelled") EXCEPT !.err = "cancelled"]
  <2>1. \A k \in Jobs : r(k).stage = "cancelled" /\ r(k).cancel = row[k].cancel
    BY <1>2 DEF Row, Stages, Settled
  <2>2. \A k \in Jobs : row'[k] \in {r(k), row[k]}
    BY <1>3 DEF RecoverCancelled
  <2> HIDE DEF r
  <2> QED
    BY <2>1, <2>2 DEF CancelKept
<1>4. CASE RecoverRequeue
  <2> DEFINE r(k) == [Released(row[k], "queued") EXCEPT !.err = "interrupted",
                                                        !.retries = @ + 1]
  <2>1. \A k \in Jobs : r(k).stage = "queued" /\ r(k).cancel = row[k].cancel
    BY <1>2 DEF Row, Stages
  <2>2. \A k \in Jobs : row'[k] \in {r(k), row[k]}
    BY <1>4 DEF RecoverRequeue
  <2> HIDE DEF r
  <2> QED
    BY <2>1, <2>2 DEF CancelKept, Active
<1>5. CASE RecoverExhausted
  <2> DEFINE r(k) == [Released(row[k], "ready_for_review")
                        EXCEPT !.local = "action_required", !.err = "retry_exhausted"]
  <2>1. \A k \in Jobs : r(k).cancel = row[k].cancel
    BY <1>2 DEF Row, Stages, Settled
  <2>2. \A k \in Jobs : row'[k] \in {r(k), row[k]}
    BY <1>5 DEF RecoverExhausted
  <2>3. boot = "exhausted" /\ boot' = "up"
    BY <1>5 DEF RecoverExhausted
  <2> HIDE DEF r
  <2> QED
    BY <2>1, <2>2, <2>3 DEF CancelKept
<1>6. CASE RecoverError
  BY <1>6 DEF RecoverError, CancelKept
<1> QED
  BY <1>3, <1>4, <1>5, <1>6 DEF Recovery

\* A cancel marker on an active row is kept until the row is cancelled, for
\* any number of jobs, workers, retries and restarts.
THEOREM Cancels == Spec => CancelSticks
<1>1. TypeOK /\ [Next]_vars => [CancelKept]_vars
  <2> SUFFICES ASSUME TypeOK, Next PROVE CancelKept
    OBVIOUS
  <2>1. CASE Restart
    BY <2>1 DEF Restart, CancelKept
  <2> QED
    BY <2>1, WorkerKeepsCancel, TableKeepsCancel, RecoveryKeepsCancel DEF Next
<1>2. Spec => [][CancelKept]_vars
  BY <1>1, TypeCorrect, PTL DEF Spec
<1> QED
  BY <1>2 DEF CancelSticks, CancelKept
=============================================================================
