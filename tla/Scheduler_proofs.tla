--------------------------- MODULE Scheduler_proofs ---------------------------
(***************************************************************************)
(* Proofs about Scheduler, for any number of jobs, tasks, permits and      *)
(* mishaps, whatever chains the jobs take.                                 *)
(*                                                                         *)
(* A task reads its row at one step and acts on it at a later one, so what *)
(* it may do at a step depends on what it saw before.  Coherent says what  *)
(* a task is by where it is (what it holds, which chain it runs); Fits     *)
(* says what its row still is while it has the lease, because only the     *)
(* holder moves it; Suits relates a row to the chain it was queued for.    *)
(* Every step of a task is then classed by its effect on the table.        *)
(***************************************************************************)
EXTENDS Scheduler, QueueLifecycle_proofs

\* Where a task runs a chain of one kind only.
CloudPcs  == {"queueCloud", "joined", "await", "announce", "adopt", "answer",
              "repairPermit", "repair", "lateAnswer", "settle", "finalize"}
DirectPcs == {"directStage", "directStaged", "directGate", "directPermit",
              "directCall", "directBack", "directPersist", "directCommit",
              "directSettle", "directOpen", "directOpening", "directLast",
              "directFailed", "directFailing", "directFallback", "directRecord"}
HeldLocal == {"begin", "begun", "queueCloud", "recognize", "stop",
              "stopLeaseless", "unflag"}

\* A task is as t and stands at x.
CoherentAt(t, x) ==
    /\ x \notin {"none", "done"} \/ t.fetch \in LiveFetch => t.job \in Jobs
    /\ x \in CloudPcs => t.mode = "cloud"
    /\ x \in DirectPcs => t.mode = "direct"
    /\ x = "permit" => t.mode # "direct"
    /\ x = "repermit" => t.mode = "local"
    /\ x \in {"lateAnswer", "settle", "finalize"} => t.outcome \in Outcomes
    /\ t.local => x \in HeldLocal /\ (x \in {"begin", "begun"} => t.mode # "direct")
    /\ t.cloud => x \in {"directCall", "repair"}
    /\ t.gate => x \in {"directPermit", "directCall"}

Coherent(t) == CoherentAt(t, t.pc)

\* No local result is stored yet.
Unstored == {"permit", "begin", "begun", "queueCloud", "recognize", "localFailed",
             "repermit", "directStage", "directStaged", "directGate",
             "directPermit", "directCall", "directBack", "directPersist",
             "directCommit", "directSettle", "directFailed", "directFallback",
             "directRecord"}

\* The cloud part of a cloud chain is declared queued or running.
CloudDeclared == {"recognize", "recognized", "publish", "open", "opening",
                  "joined", "await", "cycle", "announce", "adopt", "answer",
                  "repairPermit", "repair"}

\* A direct chain that fell back has declared its cloud part failed.
FallenBack == {"permit", "begin", "begun", "repermit", "recognize", "recognized",
               "publish", "open", "opening", "cycle"}

\* What the leased row r of a job queued for the chain ch is to a task t at x.
FitsAt(t, x, r, ch) ==
    /\ x \notin {"none", "done"} => t.mode = ch \/ (t.mode = "local" /\ ch = "direct")
    /\ t.fetch \in LiveFetch => ch = "cloud"
    /\ x \in Unstored => r.local # "succeeded"
    /\ "direct" \notin Modes /\ t.mode = "cloud" /\ x \in CloudDeclared
       => r.cloud \in {"queued", "running"}
    /\ "database" \notin MishapKinds /\ t.mode = "local" /\ ch = "direct"
       /\ x \in FallenBack
       => r.cloud \notin {"queued", "running"}

Fits(t, r, ch) == FitsAt(t, t.pc, r, ch)

\* What any row of a job queued for the chain ch is.
Suits(r, ch) == /\ r.stage = "reconciling" => ch = "cloud"
                /\ ch = "local" \/ r.stage = "absent"
                   => r.cloud \notin {"queued", "running"}

HeldBy(r, w) == r.owner = w /\ r.live

SInv == /\ IInv
        /\ SchedulerTypeOK
        /\ \A w \in Workers : Coherent(task[w])
        /\ \A w \in Workers \ spent : task[w] = NoTask
        /\ \A j \in Jobs : Suits(row[j], chain[j])
        /\ \A w \in Workers :
              JobOf(w) \in Jobs /\ HeldBy(row[JobOf(w)], w)
              => Fits(task[w], row[JobOf(w)], chain[JobOf(w)])
-----------------------------------------------------------------------------
(* A task that moves on.                                                   *)

\* t may be put at x.
Placed(t, x) == x = "done" \/ (x # "none" /\ CoherentAt(t, x))

\* What fits t where it is fits it at x.
Carries(t, x) ==
    /\ x # "done" => t.pc \notin {"none", "done"}
    /\ x \in Unstored => t.pc \in Unstored
    /\ t.mode = "cloud" /\ x \in CloudDeclared => t.pc \in CloudDeclared
    /\ t.mode = "local" /\ x \in FallenBack => t.pc \in FallenBack

LEMMA CarriedFits ==
    ASSUME NEW t, NEW x, NEW r, NEW ch, Fits(t, r, ch), Carries(t, x)
    PROVE  FitsAt(t, x, r, ch)
BY DEF Fits, FitsAt, Carries, Unstored, CloudDeclared, FallenBack

\* A task that returns keeps its cloud fetch and nothing else.
LEMMA EndedTask ==
    ASSUME NEW t \in Task, Coherent(t)
    PROVE  /\ Ended(t) \in Task
           /\ Coherent(Ended(t))
           /\ Ended(t).job = t.job \/ \A r, ch : Fits(Ended(t), r, ch)
           /\ \A r, ch : FitsAt(t, "done", r, ch) => Fits(Ended(t), r, ch)
<1> DEFINE f == IF t.fetch \in LiveFetch THEN t.fetch ELSE "none"
           j == IF t.fetch \in LiveFetch THEN t.job ELSE None
<1>1. /\ Ended(t) = [NoTask EXCEPT !.pc = "done", !.job = j, !.fetch = f]
      /\ NoTask \in Task
      /\ NoTask.local = FALSE /\ NoTask.cloud = FALSE /\ NoTask.gate = FALSE
      /\ NoTask.mode = "local"
  BY DEF Ended, NoTask, Task, Pcs, Fetches
<1>2. f \in Fetches /\ j \in Jobs \cup {None}
  BY DEF Task, Fetches
<1>3. t.fetch \in LiveFetch => t.job \in Jobs
  BY DEF Coherent, CoherentAt
<1>4. /\ Ended(t).pc = "done" /\ Ended(t).fetch = f /\ Ended(t).job = j
      /\ Ended(t).mode = "local"
  BY <1>1 DEF Task
<1>5. Ended(t).local = FALSE /\ Ended(t).cloud = FALSE /\ Ended(t).gate = FALSE
  BY <1>1 DEF Task
<1>6. Ended(t) \in Task
  BY <1>1, <1>2 DEF Task, Pcs
<1>7. Coherent(Ended(t))
  <2>1. f \in LiveFetch => j \in Jobs
    BY <1>3 DEF LiveFetch
  <2> HIDE DEF f, j
  <2> QED
    BY <1>4, <1>5, <2>1 DEF Coherent, CoherentAt, CloudPcs, DirectPcs
<1>8. \A r, ch : Fits(Ended(t), r, ch) <=> (f \in LiveFetch => ch = "cloud")
  <2> HIDE DEF f, j
  <2> QED
    BY <1>4 DEF Fits, FitsAt, Unstored, CloudDeclared, FallenBack
<1>9. Ended(t).job = t.job \/ \A r, ch : Fits(Ended(t), r, ch)
  <2>1. CASE t.fetch \in LiveFetch
    BY <1>4, <2>1
  <2>2. CASE t.fetch \notin LiveFetch
    BY <1>8, <2>2 DEF LiveFetch
  <2> QED
    BY <2>1, <2>2
<1>10. \A r, ch : FitsAt(t, "done", r, ch) => Fits(Ended(t), r, ch)
  BY <1>8 DEF FitsAt, LiveFetch
<1> QED
  BY <1>6, <1>7, <1>9, <1>10

LEMMA MovedTask ==
    ASSUME NEW t \in Task, NEW x \in Pcs, Coherent(t), Placed(t, x)
    PROVE  /\ To(t, x) \in Task
           /\ Coherent(To(t, x))
           /\ To(t, x).job = t.job \/ \A r, ch : Fits(To(t, x), r, ch)
           /\ \A r, ch : FitsAt(t, x, r, ch) => Fits(To(t, x), r, ch)
<1>1. CASE x = "done"
  BY <1>1, EndedTask DEF To
<1>2. CASE x # "done"
  <2> DEFINE u == [t EXCEPT !.pc = x]
  <2>1. To(t, x) = u
    BY <1>2 DEF To
  <2>2. u \in Task
    BY DEF Task
  <2>3. /\ u.pc = x /\ u.job = t.job /\ u.mode = t.mode /\ u.fetch = t.fetch
        /\ u.outcome = t.outcome
    BY DEF Task
  <2>4. (u.local => t.local) /\ (u.cloud => t.cloud) /\ (u.gate => t.gate)
    BY Zenon DEF Task
  <2>5. CoherentAt(t, x)
    BY <1>2 DEF Placed
  <2> HIDE DEF u
  <2>6. Coherent(u)
    BY <2>3, <2>4, <2>5 DEF Coherent, CoherentAt
  <2>7. \A r, ch : FitsAt(t, x, r, ch) => Fits(u, r, ch)
    BY <2>3 DEF Fits, FitsAt
  <2> QED
    BY <2>1, <2>2, <2>3, <2>6, <2>7
<1> QED
  BY <1>1, <1>2
-----------------------------------------------------------------------------
(* What a step of a task does, to the table and to itself.                 *)

\* The calls of advance_stage that a task makes where it is.
MayCall(t, c) ==
    /\ t.pc \notin {"none", "done"}
    /\ c.cloud = "running" => t.mode # "local"
    /\ c.stage = "reconciling" => t.mode = "cloud"
    /\ c.local \notin {"keep", "succeeded"} => t.pc \in Unstored

Effect(w, j) ==
    \/ UNCHANGED queueVars
    \/ /\ j \in Jobs
       /\ \/ \E c \in Calls : MayCall(task[w], c) /\ Advance(w, j, c)
          \/ \E s \in {"queued", "running"} :
                /\ task[w].pc = "queueCloud" \/ task[w].fetch = "start"
                /\ SetCloudStatus(w, j, s)
          \/ \E c \in Outcomes :
                task[w].pc = "finalize" /\ FinalizeReadyWithoutLease(j, c)
          \/ FinalizeCancelledWithoutLease(j)
          \/ task[w].pc = "directRecord" /\ RecordDirectFallback(j)
          \/ \E children \in SUBSET Jobs :
                task[w].pc = "directCommit" /\ PersistBatch(w, j, children)

\* Model output goes into the draft of the job, or into those a batch inserts.
Drafts(w, j) ==
    \/ author' = author
    \/ /\ task[w].mode = "cloud" \/ MayPersist(w, j)
       /\ \A k \in Jobs : author'[k] # author[k]
                          => author'[k] = w /\ (k = j \/ row[k].stage = "absent")

\* The task goes over into one that its row fits.
Own(w) ==
    \E u \in Task :
       /\ task' = [task EXCEPT ![w] = u]
       /\ Coherent(u)
       /\ u.job \in Jobs /\ HeldBy(row'[u.job], w) => Fits(u, row'[u.job], chain'[u.job])

RestTyped ==
    /\ chain' = chain
    /\ flagged' \subseteq Jobs
    /\ cmd' \in [Jobs -> {"none", "cancel", "cancelMark", "retry"}]
    /\ item' \in [Jobs -> {"none", "processing", "open", "failed"}]
    /\ author' \in [Jobs -> Workers \cup {None}]
    /\ mishaps' \in 0 .. MaxMishaps

StepOK(w) == /\ task[w] # NoTask
             /\ Effect(w, JobOf(w))
             /\ Drafts(w, JobOf(w))
             /\ Own(w)
             /\ RestTyped

Busy(w) == task[w].pc \notin {"none", "done"}

\* What is known of a task that has something to do.
LEMMA BusyTask ==
    ASSUME SInv, NEW w \in Workers, Busy(w)
    PROVE  /\ task[w] \in Task /\ Coherent(task[w]) /\ task[w] # NoTask
           /\ JobOf(w) \in Jobs
           /\ HeldBy(row[JobOf(w)], w)
              => Fits(task[w], row[JobOf(w)], chain[JobOf(w)])
<1>1. task[w] \in Task /\ Coherent(task[w])
  BY DEF SInv, SchedulerTypeOK
<1>2. task[w] # NoTask
  BY DEF Busy, NoTask
<1>3. JobOf(w) \in Jobs
  BY <1>1 DEF Busy, Coherent, CoherentAt, JobOf
<1> QED
  BY <1>1, <1>2, <1>3 DEF SInv

LEMMA MishapTyped ==
    ASSUME SInv, NEW kind, Mishap(kind)
    PROVE  mishaps' \in 0 .. MaxMishaps
BY MishapsAssumption DEF SInv, SchedulerTypeOK, Mishap

\* A step that writes no row.
LEMMA QuietOwn ==
    ASSUME SInv, NEW w \in Workers, Busy(w), NEW u \in Task, Coherent(u),
           task' = [task EXCEPT ![w] = u], row' = row, chain' = chain,
           u.job = task[w].job \/ \A r, ch : Fits(u, r, ch),
           \A r, ch : Fits(task[w], r, ch) => Fits(u, r, ch)
    PROVE  Own(w)
<1>1. /\ JobOf(w) \in Jobs
      /\ HeldBy(row[JobOf(w)], w) => Fits(task[w], row[JobOf(w)], chain[JobOf(w)])
  BY BusyTask
<1>2. u.job \in Jobs /\ HeldBy(row'[u.job], w) => Fits(u, row'[u.job], chain'[u.job])
  BY <1>1 DEF JobOf
<1> QED
  BY <1>2 DEF Own

LEMMA GotoOwn ==
    ASSUME SInv, NEW w \in Workers, NEW x \in Pcs, Busy(w), Goto(w, x),
           row' = row, chain' = chain, Placed(task[w], x), Carries(task[w], x)
    PROVE  Own(w)
<1> DEFINE u == To(task[w], x)
<1>1. task[w] \in Task /\ Coherent(task[w])
  BY BusyTask
<1>2. /\ u \in Task
      /\ Coherent(u)
      /\ u.job = task[w].job \/ \A r, ch : Fits(u, r, ch)
      /\ \A r, ch : FitsAt(task[w], x, r, ch) => Fits(u, r, ch)
  BY <1>1, MovedTask
<1>3. \A r, ch : Fits(task[w], r, ch) => Fits(u, r, ch)
  BY <1>2, CarriedFits
<1>4. task' = [task EXCEPT ![w] = u]
  BY DEF Goto
<1> HIDE DEF u
<1> QED
  BY <1>2, <1>3, <1>4, QuietOwn

LEMMA MovesStep ==
    ASSUME SInv, NEW w \in Workers, NEW x \in Pcs, Busy(w), Moves(w, x),
           Placed(task[w], x), Carries(task[w], x)
    PROVE  StepOK(w)
<1>1. /\ Goto(w, x) /\ UNCHANGED queueVars /\ row' = row /\ chain' = chain
      /\ flagged' = flagged /\ cmd' = cmd /\ item' = item /\ author' = author
      /\ mishaps' = mishaps
  BY DEF Moves, jobVars, queueVars, userVars, draftVars
<1>2. Own(w) /\ task[w] # NoTask
  BY <1>1, GotoOwn, BusyTask
<1>3. RestTyped
  BY <1>1 DEF SInv, SchedulerTypeOK, RestTyped
<1> QED
  BY <1>1, <1>2, <1>3 DEF StepOK, Effect, Drafts

LEMMA FailsStep ==
    ASSUME SInv, NEW w \in Workers, NEW x \in Pcs, Busy(w), Fails(w, x),
           Placed(task[w], x), Carries(task[w], x)
    PROVE  StepOK(w)
<1>1. /\ Goto(w, x) /\ UNCHANGED queueVars /\ row' = row /\ chain' = chain
      /\ flagged' = flagged /\ cmd' = cmd /\ item' = item /\ author' = author
      /\ mishaps' \in 0 .. MaxMishaps
  BY MishapTyped DEF Fails, jobVars, queueVars, userVars, draftVars
<1>2. Own(w) /\ task[w] # NoTask
  BY <1>1, GotoOwn, BusyTask
<1>3. RestTyped
  BY <1>1 DEF SInv, SchedulerTypeOK, RestTyped
<1> QED
  BY <1>1, <1>2, <1>3 DEF StepOK, Effect, Drafts

\* A step that writes no row and at most the draft of its own job, which it
\* may: it runs a cloud chain, or checked the lease.
LEMMA QuietStep ==
    ASSUME SInv, NEW w \in Workers, Busy(w), Own(w),
           UNCHANGED <<jobVars, userVars, mishaps>>,
           \/ UNCHANGED draftVars
           \/ WriteDraft(w) /\ (task[w].mode = "cloud" \/ MayPersist(w, JobOf(w)))
    PROVE  StepOK(w)
<1>1. /\ UNCHANGED queueVars /\ chain' = chain /\ flagged' = flagged /\ cmd' = cmd
      /\ mishaps' = mishaps
  BY DEF jobVars, queueVars, userVars
<1>2. task[w] # NoTask /\ JobOf(w) \in Jobs
  BY BusyTask
<1>3. /\ item' \in [Jobs -> {"none", "processing", "open", "failed"}]
      /\ author' \in [Jobs -> Workers \cup {None}]
      /\ Drafts(w, JobOf(w))
  <2>1. CASE UNCHANGED draftVars
    BY <2>1 DEF SInv, SchedulerTypeOK, draftVars, Drafts
  <2>2. CASE /\ WriteDraft(w)
             /\ task[w].mode = "cloud" \/ MayPersist(w, JobOf(w))
    BY <1>2, <2>2 DEF SInv, SchedulerTypeOK, WriteDraft, Drafts
  <2> QED
    BY <2>1, <2>2
<1>4. RestTyped
  BY <1>1, <1>3 DEF SInv, SchedulerTypeOK, RestTyped
<1> QED
  BY <1>1, <1>2, <1>3, <1>4 DEF StepOK, Effect

\* A step that writes the row of the task's job.
LEMMA RowOwn ==
    ASSUME SInv, NEW w \in Workers, Busy(w), NEW u \in Task, Coherent(u),
           NEW r, row' = [row EXCEPT ![JobOf(w)] = r],
           task' = [task EXCEPT ![w] = u], chain' = chain,
           u.job = task[w].job \/ \A q, ch : Fits(u, q, ch),
           /\ HeldBy(row[JobOf(w)], w) /\ Fits(task[w], row[JobOf(w)], chain[JobOf(w)])
           /\ HeldBy(r, w)
           => Fits(u, r, chain[JobOf(w)]),
           HeldBy(r, w) => HeldBy(row[JobOf(w)], w)
    PROVE  Own(w)
<1>1. /\ JobOf(w) \in Jobs
      /\ HeldBy(row[JobOf(w)], w) => Fits(task[w], row[JobOf(w)], chain[JobOf(w)])
  BY BusyTask
<1>2. row'[JobOf(w)] = r
  BY <1>1 DEF SInv, SchedulerTypeOK, TypeOK
<1>3. u.job \in Jobs /\ HeldBy(row'[u.job], w) => Fits(u, row'[u.job], chain'[u.job])
  BY <1>1, <1>2 DEF JobOf
<1> QED
  BY <1>3 DEF Own

\* What advance_stage makes of the columns that matter here.
LEMMA AdvancedColumns ==
    ASSUME NEW r, NEW c
    PROVE  /\ Advanced(r, c).stage = IF r.cancel THEN "cancelled" ELSE c.stage
           /\ Advanced(r, c).local = Coalesce(c.local, r.local)
           /\ Advanced(r, c).cloud = Coalesce(c.cloud, r.cloud)
           /\ Advanced(r, c).live => Advanced(r, c).stage \notin Settled
<1>1. /\ Advanced(r, c).stage = IF r.cancel THEN "cancelled" ELSE c.stage
      /\ Advanced(r, c).local = Coalesce(c.local, r.local)
      /\ Advanced(r, c).cloud = Coalesce(c.cloud, r.cloud)
  BY DEF Advanced
<1>2. Advanced(r, c).live => Advanced(r, c).stage \notin Settled
  BY Zenon DEF Advanced
<1> QED
  BY <1>1, <1>2

\* What fits t still fits it at x after the call c was taken as asked.
Follows(t, c, x) ==
    \/ c.stage \in Settled
    \/ /\ x # "none"
       /\ x \in Unstored => c.local \notin {"keep", "succeeded"}
       /\ t.mode = "cloud" /\ x \in CloudDeclared
          => c.cloud = "running" \/ (c.cloud = "keep" /\ t.pc \in CloudDeclared)
       /\ t.mode = "local" /\ x \in FallenBack => c.cloud = "keep" /\ t.pc \in FallenBack

LEMMA AdvancedFits ==
    ASSUME NEW t, t.pc \notin {"none", "done"}, NEW c, NEW x, NEW r, NEW ch,
           Fits(t, r, ch), Follows(t, c, x), ~r.cancel, c.stage \notin Settled
    PROVE  FitsAt(t, x, Advanced(r, c), ch)
<1>1. /\ Advanced(r, c).local = Coalesce(c.local, r.local)
      /\ Advanced(r, c).cloud = Coalesce(c.cloud, r.cloud)
  BY AdvancedColumns
<1>2. /\ c.local \notin {"keep", "succeeded"} => Advanced(r, c).local # "succeeded"
      /\ c.cloud = "running" => Advanced(r, c).cloud = "running"
      /\ c.cloud = "keep" => Advanced(r, c).cloud = r.cloud
  BY <1>1 DEF Coalesce
<1> QED
  BY <1>2 DEF Fits, FitsAt, Follows

\* An advance that fails moves the row to failed at most.
LEMMA FailedCall ==
    ASSUME NEW t, t.pc \notin {"none", "done"}
    PROVE  AdvanceFailed \in Calls /\ MayCall(t, AdvanceFailed) /\ AdvanceFailed.stage \in Settled
BY DEF Calls, MayCall, AdvanceFailed, Call, Settled

LEMMA AdvanceOwn ==
    ASSUME SInv, NEW w \in Workers, NEW c \in Calls, NEW a \in Pcs, NEW b \in Pcs,
           Busy(w), Advance(w, JobOf(w), c), chain' = chain,
           Goto(w, IF row[JobOf(w)].cancel THEN b ELSE a),
           Placed(task[w], a), Placed(task[w], b), Follows(task[w], c, a)
    PROVE  Own(w)
<1> DEFINE j == JobOf(w)
           t == task[w]
           x == IF row[j].cancel THEN b ELSE a
           u == To(t, x)
           r == Advanced(row[j], c)
<1>1. /\ t \in Task /\ Coherent(t) /\ j \in Jobs
      /\ HeldBy(row[j], w) => Fits(t, row[j], chain[j])
  BY BusyTask
<1>2. x \in Pcs /\ Placed(t, x)
  OBVIOUS
<1>3. row' = [row EXCEPT ![j] = r] /\ HeldBy(row[j], w)
  BY DEF Advance, Holds, HeldBy
<1>4. task' = [task EXCEPT ![w] = u]
  BY DEF Goto
<1>5. HeldBy(r, w) => ~row[j].cancel /\ c.stage \notin Settled
  BY AdvancedColumns DEF HeldBy, Settled
<1>6. t.pc \notin {"none", "done"}
  BY DEF Busy
<1>7. HeldBy(r, w) => x = a
  BY <1>5
<1> HIDE DEF x
<1>8. /\ u \in Task
      /\ Coherent(u)
      /\ u.job = t.job \/ \A q, ch : Fits(u, q, ch)
      /\ \A q, ch : FitsAt(t, x, q, ch) => Fits(u, q, ch)
  BY <1>1, <1>2, MovedTask
<1> HIDE DEF u
<1>9. HeldBy(r, w) => Fits(u, r, chain[j])
  BY <1>1, <1>3, <1>5, <1>6, <1>7, <1>8, AdvancedFits
<1> HIDE DEF r
<1> QED
  BY <1>3, <1>4, <1>8, <1>9, RowOwn

LEMMA StagedStep ==
    ASSUME SInv, NEW w \in Workers, NEW c \in Calls,
           NEW a \in Pcs, NEW b \in Pcs, NEW e \in Pcs, Busy(w),
           Staged(w, c, a, b, e), MayCall(task[w], c),
           Placed(task[w], a), Placed(task[w], b), Placed(task[w], e),
           Follows(task[w], c, a), Carries(task[w], e)
    PROVE  StepOK(w)
<1> DEFINE j == JobOf(w)
<1>1. /\ chain' = chain /\ flagged' = flagged /\ cmd' = cmd /\ item' = item
      /\ author' = author
  BY DEF Staged, userVars, draftVars
<1>2. task[w] # NoTask /\ j \in Jobs /\ task[w].pc \notin {"none", "done"}
  BY BusyTask DEF Busy
<1>3. mishaps' \in 0 .. MaxMishaps
  <2>1. mishaps \in 0 .. MaxMishaps
    BY DEF SInv, SchedulerTypeOK
  <2>2. mishaps' = mishaps \/ Mishap("database")
    BY DEF Staged
  <2> QED
    BY <2>1, <2>2, MishapTyped
<1>4. RestTyped
  BY <1>1, <1>3 DEF SInv, SchedulerTypeOK, RestTyped
<1>5. ASSUME Advance(w, j, c), Goto(w, IF row[j].cancel THEN b ELSE a)
      PROVE  Effect(w, j) /\ Own(w)
  BY <1>1, <1>2, <1>5, AdvanceOwn DEF Effect
<1>6. ASSUME UNCHANGED queueVars, Goto(w, e)
      PROVE  Effect(w, j) /\ Own(w)
  BY <1>1, <1>6, GotoOwn DEF Effect, queueVars
<1>7. ASSUME Advance(w, j, AdvanceFailed), Goto(w, e)
      PROVE  Effect(w, j) /\ Own(w)
  <2>1. /\ AdvanceFailed \in Calls /\ MayCall(task[w], AdvanceFailed)
        /\ Follows(task[w], AdvanceFailed, e)
    BY <1>2, FailedCall DEF Follows
  <2>2. Goto(w, IF row[j].cancel THEN e ELSE e)
    BY <1>7
  <2> QED
    BY <1>1, <1>2, <1>7, <2>1, <2>2, AdvanceOwn DEF Effect
<1>8. \/ Advance(w, j, c) /\ Goto(w, IF row[j].cancel THEN b ELSE a)
      \/ UNCHANGED queueVars /\ Goto(w, e)
      \/ Advance(w, j, AdvanceFailed) /\ Goto(w, e)
  BY DEF Staged, jobVars
<1>9. Effect(w, j) /\ Own(w)
  BY <1>5, <1>6, <1>7, <1>8
<1> QED
  BY <1>1, <1>2, <1>4, <1>9 DEF StepOK, Drafts
-----------------------------------------------------------------------------
(* The steps of tasks, one by one.                                         *)

\* Where a task goes from where it is, when that says enough.
Following(x) ==
    CASE x = "directStage"   -> {"directStaged"}
      [] x = "directStaged"  -> {"directGate"}
      [] x = "directBack"    -> {"directFailed", "directFallback", "directPersist"}
      [] x = "directPersist" -> {"directCommit", "directSettle", "directFailed"}
      [] x = "directCommit"  -> {"directFailed"}
      [] x = "directSettle"  -> {"directOpen"}
      [] x = "directOpen"    -> {"directOpening", "directLast"}
      [] x = "directOpening" -> {"directLast"}
      [] x = "directFailed"  -> {"directFailing"}
      [] x = "directFallback" -> {"directRecord"}
      [] x = "localFailed"   -> {"localFailing"}
      [] x = "recognized"    -> {"publish"}
      [] x = "open"          -> {"opening"}
      [] x = "settleFrozen"  -> {"lastOpen"}
      [] x = "cycle"         -> {"cycleFailed", "settleLocal"}
      [] x = "settleLocal"   -> {"lastOpen"}
      [] x = "lastOpen"      -> {"lastOpening"}
      [] x = "joined"        -> {"await"}
      [] x = "await"         -> {"cycle"}
      [] x = "announce"      -> {"adopt", "repairPermit"}
      [] x = "adopt"         -> {"answer", "repairPermit"}
      [] x = "answer"        -> {"repairPermit"}
      [] x = "lateAnswer"    -> {"settle"}
      [] x = "settle"        -> {"finalize", "lastOpen"}
      [] x = "finalize"      -> {"lastOpen"}
      [] x = "begin"         -> {"begun"}
      [] OTHER               -> {}

LEMMA Hop ==
    ASSUME NEW t \in Task, Coherent(t), NEW x \in Following(t.pc)
    PROVE  x \in Pcs /\ Placed(t, x) /\ Carries(t, x)
BY DEF Following, Pcs, Placed, Carries, Coherent, CoherentAt, CloudPcs, DirectPcs,
       HeldLocal, Unstored, CloudDeclared, FallenBack

\* A task may return from anywhere, and stop while it holds no permit of the cloud.
LEMMA HopOff ==
    ASSUME NEW t \in Task, Coherent(t), t.pc \notin {"none", "done"},
           NEW x \in {"done", "stop", "stopLeaseless", "unflag"},
           x # "done" => t.pc \notin {"directPermit", "directCall", "repair"}
    PROVE  x \in Pcs /\ Placed(t, x) /\ Carries(t, x)
BY DEF Pcs, Placed, Carries, Coherent, CoherentAt, CloudPcs, DirectPcs,
       HeldLocal, Unstored, CloudDeclared, FallenBack

\* A step to where a task may go.
LEMMA MovesOn ==
    ASSUME SInv, NEW w \in Workers, Busy(w), NEW x, Moves(w, x) \/ Fails(w, x),
           \/ x \in Following(task[w].pc)
           \/ /\ x \in {"done", "stop", "stopLeaseless", "unflag"}
              /\ x # "done" => task[w].pc \notin {"directPermit", "directCall", "repair"}
    PROVE  StepOK(w)
<1>1. task[w] \in Task /\ Coherent(task[w]) /\ task[w].pc \notin {"none", "done"}
  BY BusyTask DEF Busy
<1>2. x \in Pcs /\ Placed(task[w], x) /\ Carries(task[w], x)
  BY <1>1, Hop, HopOff
<1> QED
  BY <1>2, MovesStep, FailsStep

\* advance, from where a task may make the call and go where it says.
LEMMA StagedOn ==
    ASSUME SInv, NEW w \in Workers, Busy(w), NEW c \in Calls, NEW a, NEW b, NEW e,
           Staged(w, c, a, b, e), MayCall(task[w], c), Follows(task[w], c, a),
           \A x \in {a, b, e} :
              \/ x \in Following(task[w].pc)
              \/ /\ x \in {"done", "stop", "stopLeaseless", "unflag"}
                 /\ x # "done" => task[w].pc \notin {"directPermit", "directCall", "repair"}
    PROVE  StepOK(w)
<1>1. task[w] \in Task /\ Coherent(task[w]) /\ task[w].pc \notin {"none", "done"}
  BY BusyTask DEF Busy
<1>2. \A x \in {a, b, e} : x \in Pcs /\ Placed(task[w], x) /\ Carries(task[w], x)
  BY <1>1, Hop, HopOff
<1> QED
  BY <1>2, StagedStep

LEMMA SettlingCalls ==
    /\ \A c \in {DirectFailed, DirectReady, LocalFailed, CycleFailed, Stop} :
          c \in Calls /\ c.stage \in Settled
    /\ \A o \in Outcomes, e \in {"keep", "failed"} :
          Ready(o, e) \in Calls /\ Ready(o, e).stage \in Settled
<1>1. \A c \in {DirectFailed, DirectReady, LocalFailed, CycleFailed, Stop} :
         c \in Calls
  BY DEF Calls
<1>2. \A c \in {DirectFailed, DirectReady, LocalFailed, CycleFailed, Stop} :
         c.stage \in Settled
  BY DEF Call, DirectFailed, DirectReady, LocalFailed, CycleFailed, Stop, Settled
<1>3. \A o \in Outcomes, e \in {"keep", "failed"} : Ready(o, e) \in Calls
  BY DEF Calls
<1>4. \A o, e : Ready(o, e).stage \in Settled
  BY DEF Call, Ready, Settled
<1> QED
  BY <1>1, <1>2, <1>3, <1>4

LEMMA BeginOK == ASSUME SInv, NEW w \in Workers, Begin(w) PROVE StepOK(w)
<1>1. task[w].pc = "begin" /\ Busy(w)
  BY DEF Begin, At, Busy
<1>2. /\ StartLocal \in Calls
      /\ MayCall(task[w], StartLocal)
      /\ Follows(task[w], StartLocal, "begun")
  BY <1>1 DEF Calls, MayCall, Follows, StartLocal, Call, Unstored, CloudDeclared,
              FallenBack
<1>3. Staged(w, StartLocal, "begun", "unflag", "done")
  BY DEF Begin
<1>8. Following(task[w].pc) = {"begun"}
  BY <1>1 DEF Following
<1> QED
  BY <1>8, <1>1, <1>2, <1>3, StagedOn

LEMMA BegunOK == ASSUME SInv, NEW w \in Workers, Begun(w) PROVE StepOK(w)
<1> DEFINE x == CASE task[w].mode = "direct" -> "directStage"
                  [] task[w].mode = "cloud"  -> "queueCloud"
                  [] OTHER                   -> "recognize"
<1>1. task[w].pc = "begun" /\ Busy(w)
  BY DEF Begun, At, Busy
<1>2. Moves(w, "stop") \/ Moves(w, x)
  BY DEF Begun, StopOr
<1>3. task[w] \in Task /\ Coherent(task[w])
  BY <1>1, BusyTask
<1>4. x \in Pcs /\ Placed(task[w], x) /\ Carries(task[w], x)
  <2>1. task[w].mode \in {"local", "cloud", "direct"}
    BY <1>3, ModesAssumption DEF Task
  <2> QED
    BY <1>1, <1>3, <2>1
       DEF Pcs, Placed, Carries, Coherent, CoherentAt, CloudPcs, DirectPcs,
           HeldLocal, Unstored, CloudDeclared, FallenBack
<1> HIDE DEF x
<1> QED
  BY <1>1, <1>2, <1>4, MovesOn, MovesStep

\* Calls that settle the row need nothing of the task but where it is.
LEMMA SettlingOn ==
    ASSUME SInv, NEW w \in Workers, Busy(w), NEW c \in Calls, NEW a, NEW b, NEW e,
           Staged(w, c, a, b, e), c.stage \in Settled, MayCall(task[w], c),
           \A x \in {a, b, e} :
              \/ x \in Following(task[w].pc)
              \/ /\ x \in {"done", "stop", "stopLeaseless", "unflag"}
                 /\ x # "done" => task[w].pc \notin {"directPermit", "directCall", "repair"}
    PROVE  StepOK(w)
BY StagedOn DEF Follows
-----------------------------------------------------------------------------
(* Direct chains.                                                          *)

LEMMA DirectWait ==
    ASSUME SInv, NEW w \in Workers,
           \/ DirectStaged(w) \/ DirectBack(w) \/ DirectLast(w)
           \/ ReadStage(w, "directOpen", "directOpening", "directLast")
    PROVE  StepOK(w)
<1>1. CASE DirectStaged(w)
  <2>1. task[w].pc = "directStaged" /\ Busy(w)
    BY <1>1 DEF DirectStaged, At, Busy
  <2>2. Moves(w, "stop") \/ Moves(w, "directGate")
    BY <1>1 DEF DirectStaged, StopOr
  <2> QED
    BY <2>1, <2>2, MovesOn DEF Following
<1>2. CASE DirectBack(w)
  <2>1. task[w].pc = "directBack" /\ Busy(w)
    BY <1>2 DEF DirectBack, At, Busy
  <2>2. \E x \in {"stop", "directFailed", "directFallback", "directPersist"} : Moves(w, x)
    BY <1>2 DEF DirectBack, StopOr
  <2> QED
    BY <2>1, <2>2, MovesOn DEF Following
<1>3. CASE DirectLast(w)
  <2>1. task[w].pc = "directLast" /\ Busy(w)
    BY <1>3 DEF DirectLast, At, Busy
  <2>2. Moves(w, "stop") \/ Moves(w, "done")
    BY <1>3 DEF DirectLast, StopOr
  <2> QED
    BY <2>1, <2>2, MovesOn
<1>4. CASE ReadStage(w, "directOpen", "directOpening", "directLast")
  <2>1. task[w].pc = "directOpen" /\ Busy(w)
    BY <1>4 DEF ReadStage, At, Busy
  <2>2. Moves(w, "directOpening") \/ Moves(w, "directLast")
    BY <1>4 DEF ReadStage
  <2> QED
    BY <2>1, <2>2, MovesOn DEF Following
<1> QED
  BY <1>1, <1>2, <1>3, <1>4

LEMMA DirectCalls ==
    ASSUME SInv, NEW w \in Workers,
           DirectStage(w) \/ DirectSettle(w) \/ DirectFail(w) \/ DirectFallback(w)
    PROVE  StepOK(w)
<1>1. CASE DirectStage(w)
  <2>1. task[w].pc = "directStage" /\ Busy(w)
    BY <1>1 DEF DirectStage, At, Busy
  <2>2. task[w].mode = "direct"
    BY <2>1, BusyTask DEF Coherent, CoherentAt, DirectPcs
  <2>3. /\ StartDirect \in Calls
        /\ MayCall(task[w], StartDirect)
        /\ Follows(task[w], StartDirect, "directStaged")
    BY <2>1, <2>2 DEF Calls, MayCall, Follows, StartDirect, Call, Unstored,
                      CloudDeclared, FallenBack
  <2>4. Staged(w, StartDirect, "directStaged", "unflag", "done")
    BY <1>1 DEF DirectStage
  <2>8. Following(task[w].pc) = {"directStaged"}
    BY <2>1 DEF Following
  <2> QED
    BY <2>8, <2>1, <2>3, <2>4, StagedOn
<1>2. CASE DirectSettle(w)
  <2>1. task[w].pc = "directSettle" /\ Busy(w)
    BY <1>2 DEF DirectSettle, At, Busy
  <2>2. MayCall(task[w], DirectReady)
    BY <2>1 DEF MayCall, DirectReady, Call, Unstored
  <2>3. Staged(w, DirectReady, "directOpen", "done", "done")
    BY <1>2 DEF DirectSettle
  <2>8. Following(task[w].pc) = {"directOpen"}
    BY <2>1 DEF Following
  <2> QED
    BY <2>8, <2>1, <2>2, <2>3, SettlingCalls, SettlingOn
<1>3. CASE DirectFail(w)
  <2>1. task[w].pc = "directFailed" /\ Busy(w)
    BY <1>3 DEF DirectFail, At, Busy
  <2>2. MayCall(task[w], DirectFailed)
    BY <2>1 DEF MayCall, DirectFailed, Call, Unstored
  <2>3. Staged(w, DirectFailed, "directFailing", "done", "done")
    BY <1>3 DEF DirectFail
  <2>8. Following(task[w].pc) = {"directFailing"}
    BY <2>1 DEF Following
  <2> QED
    BY <2>8, <2>1, <2>2, <2>3, SettlingCalls, SettlingOn
<1>4. CASE DirectFallback(w)
  <2>1. task[w].pc = "directFallback" /\ Busy(w)
    BY <1>4 DEF DirectFallback, At, Busy
  <2>2. MayCall(task[w], DirectToLocal)
    BY <2>1 DEF MayCall, DirectToLocal, Call, Unstored
  <2>5. Follows(task[w], DirectToLocal, "directRecord")
    BY <2>1 DEF Follows, DirectToLocal, Call, CloudDeclared, FallenBack
  <2>6. DirectToLocal \in Calls
    BY DEF Calls
  <2>3. Staged(w, DirectToLocal, "directRecord", "directRecord", "directRecord")
    BY <1>4 DEF DirectFallback
  <2>8. Following(task[w].pc) = {"directRecord"}
    BY <2>1 DEF Following
  <2> QED
    BY <2>8, <2>1, <2>2, <2>3, <2>5, <2>6, StagedOn
<1> QED
  BY <1>1, <1>2, <1>3, <1>4

\* A task that changes what it holds or knows as it moves on.
LEMMA UpdatedOwn ==
    ASSUME SInv, NEW w \in Workers, Busy(w), NEW u \in Task, Coherent(u),
           task' = [task EXCEPT ![w] = u], row' = row, chain' = chain,
           u.job = task[w].job, u.mode = task[w].mode,
           u.fetch \in LiveFetch => task[w].fetch \in LiveFetch,
           Carries(task[w], u.pc)
    PROVE  Own(w)
<1>1. \A r, ch : Fits(task[w], r, ch) => FitsAt(task[w], u.pc, r, ch)
  BY CarriedFits
<1>2. \A r, ch : FitsAt(task[w], u.pc, r, ch) => Fits(u, r, ch)
  BY DEF Fits, FitsAt
<1>3. \A r, ch : Fits(task[w], r, ch) => Fits(u, r, ch)
  BY <1>1, <1>2
<1> QED
  BY <1>3, QuietOwn

LEMMA UpdatedStep ==
    ASSUME SInv, NEW w \in Workers, Busy(w), NEW u \in Task, Coherent(u),
           task' = [task EXCEPT ![w] = u],
           UNCHANGED <<jobVars, userVars, draftVars, mishaps>>,
           u.job = task[w].job, u.mode = task[w].mode,
           u.fetch \in LiveFetch => task[w].fetch \in LiveFetch,
           Carries(task[w], u.pc)
    PROVE  StepOK(w)
<1>1. row' = row /\ chain' = chain
  BY DEF jobVars, queueVars
<1>2. Own(w)
  BY <1>1, UpdatedOwn
<1> QED
  BY <1>2, QuietStep

LEMMA DirectGateOK == ASSUME SInv, NEW w \in Workers, DirectGate(w) PROVE StepOK(w)
<1> DEFINE t == task[w]
<1>1. t.pc = "directGate" /\ Busy(w)
  BY DEF DirectGate, At, Busy
<1>2. t \in Task /\ Coherent(t)
  BY <1>1, BusyTask
<1>3. PICK cold \in BOOLEAN :
         task' = [task EXCEPT ![w].pc = "directPermit", ![w].gate = cold]
  BY DEF DirectGate
<1> DEFINE u == [t EXCEPT !.pc = "directPermit", !.gate = cold]
<1>4. task' = [task EXCEPT ![w] = u]
  BY <1>3 DEF SInv, SchedulerTypeOK
<1>5. u \in Task
  BY <1>2 DEF Task, Pcs
<1>6. /\ u.pc = "directPermit" /\ u.job = t.job /\ u.mode = t.mode
      /\ u.fetch = t.fetch /\ u.outcome = t.outcome
  BY <1>2 DEF Task
<1>7. (u.local => t.local) /\ (u.cloud => t.cloud)
  BY Zenon, <1>2 DEF Task
<1> HIDE DEF u
<1>8. Coherent(u) /\ Carries(t, u.pc)
  BY <1>1, <1>2, <1>6, <1>7
     DEF Coherent, CoherentAt, Carries, CloudPcs, DirectPcs, HeldLocal, Unstored,
         CloudDeclared, FallenBack
<1> QED
  BY <1>1, <1>4, <1>5, <1>6, <1>8, UpdatedStep DEF DirectGate

LEMMA DirectPermitOK == ASSUME SInv, NEW w \in Workers, DirectPermit(w) PROVE StepOK(w)
<1> DEFINE t == task[w]
           u == [t EXCEPT !.pc = "directCall", !.cloud = TRUE]
<1>1. t.pc = "directPermit" /\ Busy(w)
  BY DEF DirectPermit, At, Busy
<1>2. t \in Task /\ Coherent(t)
  BY <1>1, BusyTask
<1>3. task' = [task EXCEPT ![w] = u]
  BY DEF DirectPermit, SInv, SchedulerTypeOK
<1>4. u \in Task
  BY <1>2 DEF Task, Pcs
<1>5. /\ u.pc = "directCall" /\ u.job = t.job /\ u.mode = t.mode
      /\ u.fetch = t.fetch /\ u.outcome = t.outcome
  BY <1>2 DEF Task
<1>6. u.local => t.local
  BY Zenon, <1>2 DEF Task
<1> HIDE DEF u
<1>7. Coherent(u) /\ Carries(t, u.pc)
  BY <1>1, <1>2, <1>5, <1>6
     DEF Coherent, CoherentAt, Carries, CloudPcs, DirectPcs, HeldLocal, Unstored,
         CloudDeclared, FallenBack
<1> QED
  BY <1>1, <1>3, <1>4, <1>5, <1>7, UpdatedStep DEF DirectPermit

LEMMA DirectCallOK == ASSUME SInv, NEW w \in Workers, DirectCall(w) PROVE StepOK(w)
<1> DEFINE t == task[w]
<1>1. t.pc = "directCall" /\ Busy(w)
  BY DEF DirectCall, At, Busy
<1>2. t \in Task /\ Coherent(t)
  BY <1>1, BusyTask
<1>3. PICK o \in {"single", "batch", "error", "fallback"} :
         task' = [task EXCEPT ![w].pc = "directBack", ![w].outcome = o,
                              ![w].cloud = FALSE, ![w].gate = FALSE]
  BY DEF DirectCall
<1> DEFINE u == [t EXCEPT !.pc = "directBack", !.outcome = o, !.cloud = FALSE,
                          !.gate = FALSE]
<1>4. task' = [task EXCEPT ![w] = u]
  BY <1>3 DEF SInv, SchedulerTypeOK
<1>5. u \in Task
  BY <1>2 DEF Task, Pcs
<1>6. /\ u.pc = "directBack" /\ u.job = t.job /\ u.mode = t.mode
      /\ u.fetch = t.fetch
      /\ u.cloud = FALSE /\ u.gate = FALSE
  BY <1>2 DEF Task
<1>7. u.local => t.local
  BY Zenon, <1>2 DEF Task
<1> HIDE DEF u
<1>8. Coherent(u) /\ Carries(t, u.pc)
  BY <1>1, <1>2, <1>6, <1>7
     DEF Coherent, CoherentAt, Carries, CloudPcs, DirectPcs, HeldLocal, Unstored,
         CloudDeclared, FallenBack
<1> QED
  BY <1>1, <1>4, <1>5, <1>6, <1>8, UpdatedStep DEF DirectCall

LEMMA LocalPermitOK ==
    ASSUME SInv, NEW w \in Workers,
           \/ TakeLocalPermit(w, "permit", "begin")
           \/ TakeLocalPermit(w, "repermit", "recognize")
    PROVE  StepOK(w)
<1>0. PICK from, to : /\ TakeLocalPermit(w, from, to)
                      /\ \/ from = "permit" /\ to = "begin"
                         \/ from = "repermit" /\ to = "recognize"
  OBVIOUS
<1> DEFINE t == task[w]
           u == [t EXCEPT !.pc = to, !.local = TRUE]
<1>1. t.pc = from /\ Busy(w)
  BY <1>0 DEF TakeLocalPermit, At, Busy
<1>2. t \in Task /\ Coherent(t)
  BY <1>1, BusyTask
<1>3. task' = [task EXCEPT ![w] = u]
  BY <1>0 DEF TakeLocalPermit, SInv, SchedulerTypeOK
<1>4. u \in Task
  BY <1>0, <1>2 DEF Task, Pcs
<1>5. /\ u.pc = to /\ u.job = t.job /\ u.mode = t.mode
      /\ u.fetch = t.fetch /\ u.outcome = t.outcome
  BY <1>2 DEF Task
<1>6. (u.cloud => t.cloud) /\ (u.gate => t.gate)
  BY Zenon, <1>2 DEF Task
<1> HIDE DEF u
<1>7. Coherent(u) /\ Carries(t, u.pc)
  BY <1>0, <1>1, <1>2, <1>5, <1>6
     DEF Coherent, CoherentAt, Carries, CloudPcs, DirectPcs, HeldLocal, Unstored,
         CloudDeclared, FallenBack
<1> QED
  BY <1>0, <1>1, <1>3, <1>4, <1>5, <1>7, UpdatedStep DEF TakeLocalPermit

\* A step that writes the library row alone and goes on.
LEMMA ItemStep ==
    ASSUME SInv, NEW w \in Workers, Busy(w), NEW x, NEW status \in {"open", "failed"},
           \/ /\ item' = [item EXCEPT ![JobOf(w)] = status]
              /\ Goto(w, x)
              /\ UNCHANGED <<jobVars, userVars, author, mishaps>>
           \/ Fails(w, x),
           x \in Pcs, Placed(task[w], x), Carries(task[w], x)
    PROVE  StepOK(w)
<1>1. CASE Fails(w, x)
  BY <1>1, FailsStep
<1>2. CASE /\ item' = [item EXCEPT ![JobOf(w)] = status]
           /\ Goto(w, x)
           /\ UNCHANGED <<jobVars, userVars, author, mishaps>>
  <2>1. /\ UNCHANGED queueVars /\ row' = row /\ chain' = chain /\ flagged' = flagged
        /\ cmd' = cmd /\ author' = author /\ mishaps' = mishaps
    BY <1>2 DEF jobVars, queueVars, userVars
  <2>2. task[w] # NoTask /\ JobOf(w) \in Jobs /\ Own(w)
    BY <1>2, <2>1, BusyTask, GotoOwn
  <2>3. RestTyped
    BY <1>2, <2>1, <2>2 DEF SInv, SchedulerTypeOK, RestTyped
  <2> QED
    BY <2>1, <2>2, <2>3 DEF StepOK, Effect, Drafts
<1> QED
  BY <1>1, <1>2

LEMMA DirectItems ==
    ASSUME SInv, NEW w \in Workers,
           MarkItemFailed(w) \/ OpenItem(w, "directOpening", "directLast")
    PROVE  StepOK(w)
<1>1. CASE MarkItemFailed(w)
  <2>1. Busy(w)
    BY <1>1 DEF MarkItemFailed, Busy
  <2>2. "done" \in Pcs /\ Placed(task[w], "done") /\ Carries(task[w], "done")
    BY <2>1, BusyTask, HopOff DEF Busy
  <2> QED
    BY <1>1, <2>1, <2>2, ItemStep DEF MarkItemFailed
<1>2. CASE OpenItem(w, "directOpening", "directLast")
  <2>1. task[w].pc = "directOpening" /\ Busy(w)
    BY <1>2 DEF OpenItem, At, Busy
  <2>2. /\ "directLast" \in Pcs /\ Placed(task[w], "directLast")
        /\ Carries(task[w], "directLast")
    BY <2>1, BusyTask, Hop DEF Following
  <2> QED
    BY <1>2, <2>1, <2>2, ItemStep DEF OpenItem
<1> QED
  BY <1>1, <1>2

LEMMA DirectPersistOK == ASSUME SInv, NEW w \in Workers, DirectPersist(w) PROVE StepOK(w)
<1>1. task[w].pc = "directPersist" /\ Busy(w)
  BY DEF DirectPersist, At, Busy
<1>2. ASSUME MayPersist(w, JobOf(w)), WriteDraft(w),
             NEW x \in {"directFailed", "directCommit", "directSettle"},
             Goto(w, x), UNCHANGED <<jobVars, userVars, mishaps>>
      PROVE  StepOK(w)
  <2>1. x \in Pcs /\ Placed(task[w], x) /\ Carries(task[w], x)
    BY <1>1, BusyTask, Hop DEF Following
  <2>2. row' = row /\ chain' = chain
    BY <1>2 DEF jobVars, queueVars
  <2>3. Own(w)
    BY <1>1, <1>2, <2>1, <2>2, GotoOwn
  <2> QED
    BY <1>1, <1>2, <2>3, QuietStep
<1>3. ASSUME NEW x \in {"directCommit", "done", "directFailed"}, Moves(w, x)
      PROVE  StepOK(w)
  BY <1>1, <1>3, MovesOn DEF Following
<1> QED
  BY <1>2, <1>3 DEF DirectPersist

LEMMA DirectCommitOK == ASSUME SInv, NEW w \in Workers, DirectCommit(w) PROVE StepOK(w)
<1> DEFINE t == task[w]
           j == JobOf(w)
<1>1. t.pc = "directCommit" /\ Busy(w)
  BY DEF DirectCommit, At, Busy
<1>2. t \in Task /\ Coherent(t) /\ j \in Jobs /\ t # NoTask
  BY <1>1, BusyTask
<1>3. ASSUME NEW children \in SUBSET Jobs, PersistBatch(w, j, children),
             item' = [k \in Jobs |-> IF k \in children \cup {j} THEN "open" ELSE item[k]],
             author' = [k \in Jobs |-> IF k \in children \/ (k = j /\ author[j] = None)
                                       THEN w ELSE author[k]],
             NEW x \in {"unflag", "directFailed"}, Goto(w, x),
             UNCHANGED <<chain, userVars, mishaps>>
      PROVE  StepOK(w)
  <2> DEFINE u == To(t, x)
  <2>1. x \in Pcs /\ Placed(t, x)
    BY <1>1, <1>2, Hop, HopOff DEF Following
  <2>2. /\ u \in Task
        /\ Coherent(u)
        /\ u.job = t.job \/ \A r, ch : Fits(u, r, ch)
    BY <1>2, <2>1, MovedTask
  <2>3. task' = [task EXCEPT ![w] = u]
    BY <1>3 DEF Goto
  <2> HIDE DEF u
  <2>4. ~HeldBy(row'[j], w)
    <3>1. row[j] \in Row /\ "ready_for_review" \in Stages
      BY <1>2 DEF SInv, SchedulerTypeOK, TypeOK, Stages, Settled
    <3> DEFINE q == Released(row[j], "ready_for_review")
    <3>2. q \in Row /\ q.owner = None
      BY <3>1, ReleasedRow
    <3>3. row'[j] = [q EXCEPT !.local = "not_run", !.cloud = "succeeded"]
      BY <1>2, <1>3 DEF PersistBatch
    <3> HIDE DEF q
    <3>4. row'[j].owner = None
      BY <3>2, <3>3 DEF Row
    <3> QED
      BY <3>4, NoneAssumption DEF HeldBy
  <2>5. Own(w)
    BY <2>2, <2>3, <2>4 DEF Own, JobOf
  <2>6. RestTyped
    <3>1. flagged' = flagged /\ cmd' = cmd /\ chain' = chain /\ mishaps' = mishaps
      BY <1>3 DEF userVars
    <3>2. item' \in [Jobs -> {"none", "processing", "open", "failed"}]
      BY <1>3 DEF SInv, SchedulerTypeOK
    <3>3. author' \in [Jobs -> Workers \cup {None}]
      BY <1>3 DEF SInv, SchedulerTypeOK
    <3> QED
      BY <3>1, <3>2, <3>3 DEF SInv, SchedulerTypeOK, RestTyped
  <2>7. Effect(w, j)
    BY <1>1, <1>2, <1>3 DEF Effect
  <2>8. Drafts(w, j)
    BY <1>3 DEF Drafts, PersistBatch
  <2> QED
    BY <1>2, <2>5, <2>6, <2>7, <2>8 DEF StepOK
<1>4. ASSUME NEW x \in {"done", "directFailed"}, Moves(w, x) PROVE StepOK(w)
  BY <1>1, <1>4, MovesOn DEF Following
<1> QED
  BY <1>3, <1>4 DEF DirectCommit

LEMMA DirectRecordOK == ASSUME SInv, NEW w \in Workers, DirectRecord(w) PROVE StepOK(w)
<1> DEFINE t == task[w]
           j == JobOf(w)
           u == [t EXCEPT !.pc = "repermit", !.mode = "local"]
<1>1. t.pc = "directRecord" /\ Busy(w)
  BY DEF DirectRecord, At, Busy
<1>2. /\ t \in Task /\ Coherent(t) /\ j \in Jobs /\ t # NoTask
      /\ HeldBy(row[j], w) => Fits(t, row[j], chain[j])
  BY <1>1, BusyTask
<1>3. /\ task' = [task EXCEPT ![w] = u]
      /\ chain' = chain /\ flagged' = flagged /\ cmd' = cmd /\ item' = item
      /\ author' = author
  BY DEF DirectRecord, SInv, SchedulerTypeOK, userVars, draftVars
<1>4. u \in Task
  BY <1>2 DEF Task, Pcs
<1>5. /\ u.pc = "repermit" /\ u.job = j /\ u.mode = "local" /\ u.fetch = t.fetch
  BY <1>2 DEF Task, JobOf
<1>6. (u.local => t.local) /\ (u.cloud => t.cloud) /\ (u.gate => t.gate)
  BY Zenon, <1>2 DEF Task
<1> HIDE DEF u
<1>7. t.job = j /\ t.mode = "direct"
  BY <1>1, <1>2 DEF JobOf, Coherent, CoherentAt, DirectPcs
<1>8. Coherent(u)
  BY <1>1, <1>2, <1>5, <1>6, <1>7
     DEF Coherent, CoherentAt, CloudPcs, DirectPcs, HeldLocal
<1>9. \A r, q : Fits(t, r, chain[j]) /\ q.local = r.local
                /\ ("database" \notin MishapKinds => q.cloud = "failed")
                => Fits(u, q, chain[j])
  BY <1>1, <1>5, <1>7 DEF Fits, FitsAt, Unstored, CloudDeclared
<1>10. CASE RecordDirectFallback(j) /\ UNCHANGED mishaps
  <2>1. row[j] \in Row
    BY <1>2 DEF SInv, SchedulerTypeOK, TypeOK
  <2>2. row'[j] = [row[j] EXCEPT !.cloud = "failed"]
    BY <1>2, <1>10 DEF RecordDirectFallback, SInv, SchedulerTypeOK, TypeOK
  <2>3. row'[j].local = row[j].local /\ row'[j].cloud = "failed"
        /\ row'[j].owner = row[j].owner
    BY <2>1, <2>2 DEF Row
  <2>4. row'[j].live => row[j].live
    BY Zenon, <2>1, <2>2 DEF Row
  <2>5. HeldBy(row'[j], w) => Fits(u, row'[j], chain'[j])
    BY <1>2, <1>3, <1>9, <2>3, <2>4 DEF HeldBy
  <2>6. Own(w)
    BY <1>3, <1>4, <1>5, <1>8, <2>5 DEF Own
  <2>7. Effect(w, j) /\ Drafts(w, j) /\ RestTyped
    BY <1>1, <1>2, <1>3, <1>10 DEF Effect, Drafts, SInv, SchedulerTypeOK, RestTyped
  <2> QED
    BY <1>2, <2>6, <2>7 DEF StepOK
<1>11. CASE Mishap("database") /\ UNCHANGED queueVars
  <2>1. row' = row /\ "database" \in MishapKinds /\ mishaps' \in 0 .. MaxMishaps
    BY <1>11, MishapTyped DEF queueVars, Mishap
  <2>2. HeldBy(row'[j], w) => Fits(u, row'[j], chain'[j])
    BY <1>2, <1>3, <1>9, <2>1
  <2>3. Own(w)
    BY <1>3, <1>4, <1>5, <1>8, <2>2 DEF Own
  <2>4. Effect(w, j) /\ Drafts(w, j) /\ RestTyped
    BY <1>3, <1>11, <2>1 DEF Effect, Drafts, SInv, SchedulerTypeOK, RestTyped
  <2> QED
    BY <1>2, <2>3, <2>4 DEF StepOK
<1> QED
  BY <1>10, <1>11 DEF DirectRecord

LEMMA DirectOK == ASSUME SInv, NEW w \in Workers, DirectStep(w) PROVE StepOK(w)
<1>1. CASE MarkItemFailed(w) \/ OpenItem(w, "directOpening", "directLast")
  BY <1>1, DirectItems
<1>2. CASE TakeLocalPermit(w, "repermit", "recognize")
  BY <1>2, LocalPermitOK
<1> QED
  BY <1>1, <1>2, DirectWait, DirectCalls, DirectGateOK, DirectPermitOK, DirectCallOK,
     DirectPersistOK, DirectCommitOK, DirectRecordOK DEF DirectStep
-----------------------------------------------------------------------------
(* Local chains, and the end of a task.                                    *)

LEMMA QueueCloudOK == ASSUME SInv, NEW w \in Workers, QueueCloud(w) PROVE StepOK(w)
<1> DEFINE t == task[w]
           j == JobOf(w)
           u == [t EXCEPT !.pc = "recognize", !.fetch = "draft"]
<1>1. t.pc = "queueCloud" /\ Busy(w)
  BY DEF QueueCloud, At, Busy
<1>2. /\ t \in Task /\ Coherent(t) /\ j \in Jobs /\ t # NoTask
      /\ HeldBy(row[j], w) => Fits(t, row[j], chain[j])
  BY <1>1, BusyTask
<1>3. CASE Moves(w, "done") \/ Fails(w, "done")
  BY <1>1, <1>3, MovesOn
<1>4. CASE /\ Declared(w, "queued")
           /\ task' = [task EXCEPT ![w].pc = "recognize", ![w].fetch = "draft"]
           /\ UNCHANGED <<chain, userVars, draftVars, mishaps>>
  <2>1. /\ chain' = chain /\ flagged' = flagged /\ cmd' = cmd /\ item' = item
        /\ author' = author /\ mishaps' = mishaps
    BY <1>4 DEF userVars, draftVars
  <2>2. task' = [task EXCEPT ![w] = u]
    BY <1>4 DEF SInv, SchedulerTypeOK
  <2>3. u \in Task
    <3>1. "recognize" \in Pcs /\ "draft" \in Fetches
      BY DEF Pcs, Fetches
    <3> QED
      BY <1>2, <3>1 DEF Task
  <2>4. u.pc = "recognize" /\ u.job = j /\ u.mode = t.mode /\ u.fetch = "draft"
    BY <1>2 DEF Task, JobOf
  <2>5. (u.cloud => t.cloud) /\ (u.gate => t.gate)
    BY Zenon, <1>2 DEF Task
  <2>6. t.mode = "cloud"
    BY <1>1, <1>2 DEF Coherent, CoherentAt, CloudPcs
  <2> HIDE DEF u
  <2>7. Coherent(u)
    BY <1>1, <1>2, <2>4, <2>5, <2>6
       DEF Coherent, CoherentAt, CloudPcs, DirectPcs, HeldLocal
  <2>8. row[j] \in Row /\ row'[j] = [row[j] EXCEPT !.cloud = "queued"] /\ HeldBy(row[j], w)
    BY <1>2, <1>4 DEF Declared, SetCloudStatus, SInv, SchedulerTypeOK, TypeOK, HeldBy, Holds
  <2>9. row'[j].local = row[j].local /\ row'[j].cloud = "queued"
    BY <2>8 DEF Row
  <2>10. Fits(u, row'[j], chain'[j])
    BY <1>1, <1>2, <2>1, <2>4, <2>6, <2>8, <2>9 DEF Fits, FitsAt, Unstored
  <2>11. Own(w)
    BY <2>2, <2>3, <2>4, <2>7, <2>10 DEF Own
  <2>12. Effect(w, j)
    BY <1>1, <1>2, <1>4 DEF Effect, Declared
  <2>13. Drafts(w, j) /\ RestTyped
    BY <2>1 DEF Drafts, SInv, SchedulerTypeOK, RestTyped
  <2> QED
    BY <1>2, <2>11, <2>12, <2>13 DEF StepOK
<1> QED
  BY <1>3, <1>4 DEF QueueCloud

LEMMA RecognizeOK == ASSUME SInv, NEW w \in Workers, Recognize(w) PROVE StepOK(w)
<1> DEFINE t == task[w]
<1>1. t.pc = "recognize" /\ Busy(w)
  BY DEF Recognize, At, Busy
<1>2. t \in Task /\ Coherent(t)
  BY <1>1, BusyTask
<1>3. PICK ok \in BOOLEAN :
         task' = [task EXCEPT
                    ![w].pc = IF ok THEN "recognized" ELSE "localFailed",
                    ![w].local = FALSE,
                    ![w].fetch = Signalled(@, ok)]
  BY DEF Recognize
<1> DEFINE p == IF ok THEN "recognized" ELSE "localFailed"
           f == Signalled(t.fetch, ok)
           u == [t EXCEPT !.pc = p, !.local = FALSE, !.fetch = f]
<1>4. task' = [task EXCEPT ![w] = u]
  BY <1>3 DEF SInv, SchedulerTypeOK
<1>5. /\ p \in {"recognized", "localFailed"}
      /\ f \in Fetches
      /\ f \in LiveFetch => t.fetch \in LiveFetch
  BY <1>2 DEF Task, Fetches, LiveFetch, Signalled
<1> HIDE DEF p, f
<1>6. u \in Task
  BY <1>2, <1>5 DEF Task, Pcs
<1>7. u.pc = p /\ u.job = t.job /\ u.mode = t.mode /\ u.fetch = f /\ u.local = FALSE
  BY <1>2 DEF Task
<1>8. (u.cloud => t.cloud) /\ (u.gate => t.gate)
  BY Zenon, <1>2 DEF Task
<1> HIDE DEF u
<1>9. Coherent(u) /\ Carries(t, u.pc)
  BY <1>1, <1>2, <1>5, <1>7, <1>8
     DEF Coherent, CoherentAt, Carries, CloudPcs, DirectPcs, HeldLocal, Unstored,
         CloudDeclared, FallenBack
<1> QED
  BY <1>1, <1>4, <1>5, <1>6, <1>7, <1>9, UpdatedStep DEF Recognize

LEMMA LocalCalls ==
    ASSUME SInv, NEW w \in Workers,
           LocalFail(w) \/ SettleFrozen(w) \/ CycleFail(w) \/ SettleLocal(w) \/ StopJob(w)
    PROVE  StepOK(w)
<1>1. CASE LocalFail(w)
  <2>1. task[w].pc = "localFailed" /\ Busy(w)
    BY <1>1 DEF LocalFail, At, Busy
  <2>2. MayCall(task[w], LocalFailed)
    BY <2>1 DEF MayCall, LocalFailed, Call, Unstored
  <2>3. Staged(w, LocalFailed, "localFailing", "done", "done")
    BY <1>1 DEF LocalFail
  <2>8. Following(task[w].pc) = {"localFailing"}
    BY <2>1 DEF Following
  <2> QED
    BY <2>8, <2>1, <2>2, <2>3, SettlingCalls, SettlingOn
<1>2. CASE SettleFrozen(w)
  <2>1. task[w].pc = "settleFrozen" /\ Busy(w)
    BY <1>2 DEF SettleFrozen, At, Busy
  <2>2. MayCall(task[w], Ready("not_run", "failed"))
    BY <2>1 DEF MayCall, Ready, Call
  <2>3. Staged(w, Ready("not_run", "failed"), "lastOpen", "done", "done")
    BY <1>2 DEF SettleFrozen
  <2>8. Following(task[w].pc) = {"lastOpen"}
    BY <2>1 DEF Following
  <2> QED
    BY <2>8, <2>1, <2>2, <2>3, SettlingCalls, SettlingOn, ReportsAssumption
<1>3. CASE CycleFail(w)
  <2>1. task[w].pc = "cycleFailed" /\ Busy(w)
    BY <1>3 DEF CycleFail, At, Busy
  <2>2. MayCall(task[w], CycleFailed)
    BY <2>1 DEF MayCall, CycleFailed, Call
  <2>3. Moves(w, "stop") \/ Staged(w, CycleFailed, "done", "done", "done")
    BY <1>3 DEF CycleFail
  <2> QED
    BY <2>1, <2>2, <2>3, MovesOn, SettlingCalls, SettlingOn
<1>4. CASE SettleLocal(w)
  <2>1. task[w].pc = "settleLocal" /\ Busy(w)
    BY <1>4 DEF SettleLocal, At, Busy
  <2>2. MayCall(task[w], Ready("not_run", "keep"))
    BY <2>1 DEF MayCall, Ready, Call
  <2>3. Staged(w, Ready("not_run", "keep"), "lastOpen", "lastOpen", "done")
    BY <1>4 DEF SettleLocal
  <2>8. Following(task[w].pc) = {"lastOpen"}
    BY <2>1 DEF Following
  <2> QED
    BY <2>8, <2>1, <2>2, <2>3, SettlingCalls, SettlingOn, ReportsAssumption
<1>5. CASE StopJob(w)
  <2>1. task[w].pc = "stop" /\ Busy(w)
    BY <1>5 DEF StopJob, At, Busy
  <2>2. MayCall(task[w], Stop)
    BY <2>1 DEF MayCall, Stop, Call
  <2>3. Staged(w, Stop, "unflag", "unflag", "stopLeaseless")
    BY <1>5 DEF StopJob
  <2> QED
    BY <2>1, <2>2, <2>3, SettlingCalls, SettlingOn
<1> QED
  BY <1>1, <1>2, <1>3, <1>4, <1>5

LEMMA AfterOpenHop ==
    ASSUME SInv, NEW w \in Workers, task[w].pc \in {"open", "opening"}
    PROVE  /\ Busy(w)
           /\ AfterOpen(w) \in Pcs
           /\ Placed(task[w], AfterOpen(w)) /\ Carries(task[w], AfterOpen(w))
<1> DEFINE t == task[w]
           x == AfterOpen(w)
<1>1. Busy(w)
  BY DEF Busy
<1>2. t \in Task /\ Coherent(t)
  BY <1>1, BusyTask
<1>3. \/ x = "joined" /\ t.mode = "cloud"
      \/ x \in {"cycle", "settleFrozen"} /\ t.mode # "cloud"
  <2>1. t.frozen \in BOOLEAN
    BY <1>2 DEF Task
  <2> QED
    BY <2>1 DEF AfterOpen
<1> HIDE DEF x
<1>4. x \in Pcs /\ Placed(t, x) /\ Carries(t, x)
  BY <1>2, <1>3
     DEF Pcs, Placed, Carries, Coherent, CoherentAt, CloudPcs, DirectPcs,
         HeldLocal, Unstored, CloudDeclared, FallenBack
<1> QED
  BY <1>1, <1>4 DEF x

LEMMA LocalWait ==
    ASSUME SInv, NEW w \in Workers,
           \/ Recognized(w)
           \/ ReadStage(w, "open", "opening", AfterOpen(w))
           \/ OpenItem(w, "opening", AfterOpen(w))
    PROVE  StepOK(w)
<1>1. CASE Recognized(w)
  <2>1. task[w].pc = "recognized" /\ Busy(w)
    BY <1>1 DEF Recognized, At, Busy
  <2>2. Moves(w, "stop") \/ Moves(w, "publish")
    BY <1>1 DEF Recognized, StopOr
  <2> QED
    BY <2>1, <2>2, MovesOn DEF Following
<1>2. CASE ReadStage(w, "open", "opening", AfterOpen(w))
  <2>1. task[w].pc = "open"
    BY <1>2 DEF ReadStage, At
  <2>2. Moves(w, AfterOpen(w)) \/ Moves(w, "opening")
    BY <1>2 DEF ReadStage
  <2> QED
    BY <2>1, <2>2, AfterOpenHop, MovesOn, MovesStep DEF Following
<1>3. CASE OpenItem(w, "opening", AfterOpen(w))
  <2>1. task[w].pc = "opening"
    BY <1>3 DEF OpenItem, At
  <2> QED
    BY <1>3, <2>1, AfterOpenHop, ItemStep DEF OpenItem
<1> QED
  BY <1>1, <1>2, <1>3

LEMMA PublishOK == ASSUME SInv, NEW w \in Workers, Publish(w) PROVE StepOK(w)
<1> DEFINE t == task[w]
           j == JobOf(w)
<1>1. t.pc = "publish" /\ Busy(w)
  BY DEF Publish, At, Busy
<1>2. t \in Task /\ Coherent(t) /\ j \in Jobs /\ t # NoTask
  BY <1>1, BusyTask
<1>3. PICK frozen \in BOOLEAN :
        /\ task' = [task EXCEPT ![w].pc = "open", ![w].frozen = frozen]
        /\ \/ UNCHANGED <<jobVars, userVars, draftVars, mishaps>>
           \/ /\ UNCHANGED <<chain, userVars, draftVars>>
              /\ \/ Advance(w, j, LocalDone) /\ UNCHANGED mishaps
                 \/ UNCHANGED <<jobVars, mishaps>>
                 \/ Mishap("database") /\ Advance(w, j, AdvanceFailed)
                 \/ Mishap("database") /\ UNCHANGED queueVars
  BY DEF Publish
<1> DEFINE u == [t EXCEPT !.pc = "open", !.frozen = frozen]
<1>4. task' = [task EXCEPT ![w] = u]
  BY <1>3 DEF SInv, SchedulerTypeOK
<1>5. u \in Task
  BY <1>2 DEF Task, Pcs
<1>6. /\ u.pc = "open" /\ u.job = t.job /\ u.mode = t.mode
      /\ u.fetch = t.fetch /\ u.outcome = t.outcome
  BY <1>2 DEF Task
<1>7. (u.local => t.local) /\ (u.cloud => t.cloud) /\ (u.gate => t.gate)
  BY Zenon, <1>2 DEF Task
<1> HIDE DEF u
<1>8. Coherent(u) /\ Carries(t, u.pc)
  BY <1>1, <1>2, <1>6, <1>7
     DEF Coherent, CoherentAt, Carries, CloudPcs, DirectPcs, HeldLocal, Unstored,
         CloudDeclared, FallenBack
<1>9. /\ chain' = chain /\ flagged' = flagged /\ cmd' = cmd /\ item' = item
      /\ author' = author
  BY <1>3 DEF jobVars, userVars, draftVars
<1>10. mishaps' = mishaps \/ Mishap("database")
  BY <1>3
<1>11. Drafts(w, j) /\ RestTyped
  BY <1>9, <1>10, MishapTyped DEF Drafts, SInv, SchedulerTypeOK, RestTyped
<1>12. ASSUME NEW c \in Calls, MayCall(t, c), Follows(t, c, "open"), Advance(w, j, c)
       PROVE  Effect(w, j) /\ Own(w)
  <2> DEFINE r == Advanced(row[j], c)
  <2>1. row' = [row EXCEPT ![j] = r] /\ HeldBy(row[j], w)
    BY <1>12 DEF Advance, Holds, HeldBy
  <2>2. HeldBy(r, w) => ~row[j].cancel /\ c.stage \notin Settled
    BY AdvancedColumns DEF HeldBy, Settled
  <2>3. HeldBy(r, w) /\ Fits(t, row[j], chain[j]) => FitsAt(t, "open", r, chain[j])
    BY <1>1, <1>12, <2>2, AdvancedFits
  <2> HIDE DEF r
  <2>4. HeldBy(r, w) /\ Fits(t, row[j], chain[j]) => Fits(u, r, chain[j])
    BY <1>6, <2>3 DEF Fits, FitsAt
  <2>5. Own(w)
    BY <1>1, <1>4, <1>5, <1>6, <1>8, <1>9, <2>1, <2>4, RowOwn
  <2> QED
    BY <1>2, <1>12, <2>5 DEF Effect
<1>13. CASE UNCHANGED queueVars
  <2>1. Own(w)
    BY <1>1, <1>4, <1>5, <1>6, <1>8, <1>9, <1>13, UpdatedOwn DEF queueVars
  <2> QED
    BY <1>2, <1>11, <1>13, <2>1 DEF StepOK, Effect
<1>14. CASE Advance(w, j, LocalDone)
  <2>1. LocalDone \in Calls
    BY DEF Calls
  <2>2. MayCall(t, LocalDone)
    BY <1>1 DEF MayCall, LocalDone, Call
  <2>3. Follows(t, LocalDone, "open")
    BY <1>1 DEF Follows, LocalDone, Call, Unstored, CloudDeclared, FallenBack
  <2> QED
    BY <1>2, <1>11, <1>12, <1>14, <2>1, <2>2, <2>3 DEF StepOK
<1>15. CASE Advance(w, j, AdvanceFailed)
  <2>1. /\ AdvanceFailed \in Calls /\ MayCall(t, AdvanceFailed)
        /\ Follows(t, AdvanceFailed, "open")
    BY <1>1, FailedCall DEF Follows
  <2> QED
    BY <1>2, <1>11, <1>12, <1>15, <2>1 DEF StepOK
<1> QED
  BY <1>3, <1>13, <1>14, <1>15 DEF jobVars

LEMMA CycleOK == ASSUME SInv, NEW w \in Workers, Cycle(w) PROVE StepOK(w)
<1> DEFINE t == task[w]
           u == [t EXCEPT !.pc = "lateAnswer", !.outcome = "failed"]
<1>1. t.pc = "cycle" /\ Busy(w)
  BY DEF Cycle, At, Busy
<1>2. t \in Task /\ Coherent(t)
  BY <1>1, BusyTask
<1>3. CASE Moves(w, "cycleFailed") \/ Moves(w, "settleLocal")
  BY <1>1, <1>3, MovesOn DEF Following
<1>4. CASE t.mode = "cloud" /\ Moves(w, "announce")
  <2>1. "announce" \in Pcs /\ Placed(t, "announce") /\ Carries(t, "announce")
    BY <1>1, <1>2, <1>4
       DEF Pcs, Placed, Carries, Coherent, CoherentAt, CloudPcs, DirectPcs,
           HeldLocal, Unstored, CloudDeclared, FallenBack
  <2> QED
    BY <1>1, <1>4, <2>1, MovesStep
<1>5. CASE /\ t.mode = "cloud"
           /\ task' = [task EXCEPT ![w].pc = "lateAnswer", ![w].outcome = "failed"]
           /\ UNCHANGED <<jobVars, userVars, draftVars, mishaps>>
  <2>1. task' = [task EXCEPT ![w] = u]
    BY <1>5 DEF SInv, SchedulerTypeOK
  <2>2. u \in Task
    BY <1>2, ReportsAssumption DEF Task, Pcs
  <2>3. /\ u.pc = "lateAnswer" /\ u.job = t.job /\ u.mode = t.mode
        /\ u.fetch = t.fetch /\ u.outcome = "failed"
    BY <1>2 DEF Task
  <2>4. (u.local => t.local) /\ (u.cloud => t.cloud) /\ (u.gate => t.gate)
    BY Zenon, <1>2 DEF Task
  <2> HIDE DEF u
  <2>5. Coherent(u) /\ Carries(t, u.pc)
    BY <1>1, <1>2, <1>5, <2>3, <2>4, ReportsAssumption
       DEF Coherent, CoherentAt, Carries, CloudPcs, DirectPcs, HeldLocal, Unstored,
           CloudDeclared, FallenBack
  <2> QED
    BY <1>1, <1>5, <2>1, <2>2, <2>3, <2>5, UpdatedStep
<1> QED
  BY <1>3, <1>4, <1>5 DEF Cycle

\* A row that the step released from its lease is nobody's.
LEMMA ReleasedOwn ==
    ASSUME SInv, NEW w \in Workers, NEW x \in Pcs, Busy(w), Goto(w, x),
           NEW r, row' = [row EXCEPT ![JobOf(w)] = r], r.owner = None,
           chain' = chain, Placed(task[w], x)
    PROVE  Own(w)
<1> DEFINE u == To(task[w], x)
<1>1. task[w] \in Task /\ Coherent(task[w])
  BY BusyTask
<1>2. /\ u \in Task
      /\ Coherent(u)
      /\ u.job = task[w].job \/ \A q, ch : Fits(u, q, ch)
  BY <1>1, MovedTask
<1>3. task' = [task EXCEPT ![w] = u]
  BY DEF Goto
<1> HIDE DEF u
<1>4. ~HeldBy(r, w)
  BY NoneAssumption DEF HeldBy
<1> QED
  BY <1>2, <1>3, <1>4, RowOwn

LEMMA StopLeaselessOK == ASSUME SInv, NEW w \in Workers, StopLeaseless(w) PROVE StepOK(w)
<1> DEFINE j == JobOf(w)
           q == Released(row[j], "cancelled")
           r == [q EXCEPT !.err = "cancelled"]
<1>1. task[w].pc = "stopLeaseless" /\ Busy(w)
  BY DEF StopLeaseless, At, Busy
<1>2. /\ task[w] \in Task /\ Coherent(task[w]) /\ j \in Jobs /\ task[w] # NoTask
      /\ row[j] \in Row /\ "cancelled" \in Stages
  BY <1>1, BusyTask DEF SInv, SchedulerTypeOK, TypeOK, Stages, Settled
<1>3. CASE Moves(w, "unflag") \/ Fails(w, "unflag")
  BY <1>1, <1>3, MovesOn
<1>4. CASE /\ FinalizeCancelledWithoutLease(j)
           /\ Goto(w, "unflag")
           /\ UNCHANGED <<chain, userVars, draftVars, mishaps>>
  <2>1. /\ chain' = chain /\ flagged' = flagged /\ cmd' = cmd /\ item' = item
        /\ author' = author /\ mishaps' = mishaps
    BY <1>4 DEF userVars, draftVars
  <2>2. row' = [row EXCEPT ![j] = r]
    BY <1>4 DEF FinalizeCancelledWithoutLease
  <2>3. r.owner = None
    <3>1. q \in Row /\ q.owner = None
      BY <1>2, ReleasedRow
    <3> HIDE DEF q
    <3> QED
      BY <3>1 DEF Row
  <2> HIDE DEF r
  <2>4. "unflag" \in Pcs /\ Placed(task[w], "unflag")
    BY <1>1, <1>2, HopOff
  <2>5. Own(w)
    BY <1>1, <1>4, <2>1, <2>2, <2>3, <2>4, ReleasedOwn
  <2>6. Effect(w, j) /\ Drafts(w, j) /\ RestTyped
    BY <1>2, <1>4, <2>1 DEF Effect, Drafts, SInv, SchedulerTypeOK, RestTyped
  <2> QED
    BY <1>2, <2>5, <2>6 DEF StepOK
<1> QED
  BY <1>3, <1>4 DEF StopLeaseless

LEMMA UnflagOK == ASSUME SInv, NEW w \in Workers, Unflag(w) PROVE StepOK(w)
<1>1. task[w].pc = "unflag" /\ Busy(w)
  BY DEF Unflag, At, Busy
<1>2. /\ UNCHANGED queueVars /\ row' = row /\ chain' = chain /\ cmd' = cmd
      /\ item' = item /\ author' = author /\ mishaps' = mishaps
      /\ flagged' = flagged \ {JobOf(w)} /\ Goto(w, "done")
  BY DEF Unflag, jobVars, queueVars, draftVars
<1>3. "done" \in Pcs /\ Placed(task[w], "done") /\ Carries(task[w], "done")
  BY <1>1, BusyTask, HopOff
<1>4. Own(w) /\ task[w] # NoTask
  BY <1>1, <1>2, <1>3, GotoOwn, BusyTask
<1>5. RestTyped
  BY <1>2 DEF SInv, SchedulerTypeOK, RestTyped
<1> QED
  BY <1>2, <1>4, <1>5 DEF StepOK, Effect, Drafts

LEMMA LocalOK == ASSUME SInv, NEW w \in Workers, LocalStep(w) PROVE StepOK(w)
<1>1. CASE TakeLocalPermit(w, "permit", "begin")
  BY <1>1, LocalPermitOK
<1>2. CASE MarkItemFailed(w)
  BY <1>2, DirectItems
<1>3. CASE ReadStage(w, "open", "opening", AfterOpen(w)) \/ OpenItem(w, "opening", AfterOpen(w))
  BY <1>3, LocalWait
<1> QED
  BY <1>1, <1>2, <1>3, BeginOK, BegunOK, QueueCloudOK, RecognizeOK, LocalCalls, LocalWait,
     PublishOK, CycleOK, StopLeaselessOK, UnflagOK DEF LocalStep
-----------------------------------------------------------------------------
(* Cloud chains, and the fetch beside them.                                *)

LEMMA CloudWait ==
    ASSUME SInv, NEW w \in Workers,
           Joined(w) \/ Await(w) \/ ReadStage(w, "lastOpen", "lastOpening", "done")
           \/ OpenItem(w, "lastOpening", "done")
    PROVE  StepOK(w)
<1>1. CASE Joined(w)
  <2>1. task[w].pc = "joined" /\ Busy(w)
    BY <1>1 DEF Joined, At, Busy
  <2>2. Moves(w, "stop") \/ Moves(w, "await")
    BY <1>1 DEF Joined, StopOr
  <2> QED
    BY <2>1, <2>2, MovesOn DEF Following
<1>2. CASE Await(w)
  <2>1. task[w].pc = "await" /\ Busy(w)
    BY <1>2 DEF Await, At, Busy
  <2>2. Moves(w, "cycle")
    BY <1>2 DEF Await
  <2> QED
    BY <2>1, <2>2, MovesOn DEF Following
<1>3. CASE ReadStage(w, "lastOpen", "lastOpening", "done")
  <2>1. task[w].pc = "lastOpen" /\ Busy(w)
    BY <1>3 DEF ReadStage, At, Busy
  <2>2. Moves(w, "lastOpening") \/ Moves(w, "done")
    BY <1>3 DEF ReadStage
  <2> QED
    BY <2>1, <2>2, MovesOn DEF Following
<1>4. CASE OpenItem(w, "lastOpening", "done")
  <2>1. task[w].pc = "lastOpening" /\ Busy(w)
    BY <1>4 DEF OpenItem, At, Busy
  <2>2. "done" \in Pcs /\ Placed(task[w], "done") /\ Carries(task[w], "done")
    BY <2>1, BusyTask, HopOff
  <2> QED
    BY <1>4, <2>1, <2>2, ItemStep DEF OpenItem
<1> QED
  BY <1>1, <1>2, <1>3, <1>4

LEMMA CloudCalls ==
    ASSUME SInv, NEW w \in Workers, Announce(w) \/ Settle(w)
    PROVE  StepOK(w)
<1>1. CASE Announce(w)
  <2>1. task[w].pc = "announce" /\ Busy(w)
    BY <1>1 DEF Announce, At, Busy
  <2>2. task[w].mode = "cloud"
    BY <2>1, BusyTask DEF Coherent, CoherentAt, CloudPcs
  <2>3. MayCall(task[w], StartRepair)
    BY <2>1, <2>2 DEF MayCall, StartRepair, Call
  <2>4. Follows(task[w], StartRepair, "adopt")
    BY <2>2 DEF Follows, StartRepair, Call, Unstored
  <2>5. StartRepair \in Calls /\ Staged(w, StartRepair, "adopt", "adopt", "repairPermit")
    BY <1>1 DEF Calls, Announce
  <2>6. Following(task[w].pc) = {"adopt", "repairPermit"}
    BY <2>1 DEF Following
  <2> QED
    BY <2>1, <2>3, <2>4, <2>5, <2>6, StagedOn
<1>2. CASE Settle(w)
  <2>1. task[w].pc = "settle" /\ Busy(w)
    BY <1>2 DEF Settle, At, Busy
  <2>2. task[w].outcome \in Outcomes
    BY <2>1, BusyTask DEF Coherent, CoherentAt
  <2>3. PICK e \in {"keep", "failed"} :
           Staged(w, Ready(task[w].outcome, e), "lastOpen", "lastOpen", "finalize")
    BY <1>2 DEF Settle
  <2>4. MayCall(task[w], Ready(task[w].outcome, e))
    BY <2>1, <2>2, OutcomesAssumption DEF MayCall, Ready, Call
  <2>5. /\ Ready(task[w].outcome, e) \in Calls
        /\ Ready(task[w].outcome, e).stage \in Settled
    BY <2>2, SettlingCalls
  <2>6. Following(task[w].pc) = {"finalize", "lastOpen"}
    BY <2>1 DEF Following
  <2> QED
    BY <2>1, <2>3, <2>4, <2>5, <2>6, SettlingOn
<1> QED
  BY <1>1, <1>2

LEMMA AdoptOK == ASSUME SInv, NEW w \in Workers, Adopt(w) PROVE StepOK(w)
<1> DEFINE t == task[w]
           x == IF JobOf(w) \in flagged THEN "repairPermit" ELSE "answer"
           u == [t EXCEPT !.pc = x, !.announced = TRUE]
<1>1. t.pc = "adopt" /\ Busy(w)
  BY DEF Adopt, At, Busy
<1>2. t \in Task /\ Coherent(t) /\ t.mode = "cloud"
  BY <1>1, BusyTask DEF Coherent, CoherentAt, CloudPcs
<1>3. task' = [task EXCEPT ![w] = u]
  BY DEF Adopt, SInv, SchedulerTypeOK
<1>4. x \in {"repairPermit", "answer"}
  OBVIOUS
<1> HIDE DEF x
<1>5. u \in Task
  BY <1>2, <1>4 DEF Task, Pcs
<1>6. /\ u.pc = x /\ u.job = t.job /\ u.mode = t.mode /\ u.fetch = t.fetch
  BY <1>2 DEF Task
<1>7. (u.local => t.local) /\ (u.cloud => t.cloud) /\ (u.gate => t.gate)
  BY Zenon, <1>2 DEF Task
<1> HIDE DEF u
<1>8. Coherent(u) /\ Carries(t, u.pc)
  BY <1>1, <1>2, <1>4, <1>6, <1>7
     DEF Coherent, CoherentAt, Carries, CloudPcs, DirectPcs, HeldLocal, Unstored,
         CloudDeclared, FallenBack
<1>9. row' = row /\ chain' = chain
  BY DEF Adopt, jobVars, queueVars
<1>10. Own(w)
  BY <1>1, <1>3, <1>5, <1>6, <1>8, <1>9, UpdatedOwn
<1> QED
  BY <1>1, <1>2, <1>10, QuietStep DEF Adopt

LEMMA AnswerOK ==
    ASSUME SInv, NEW w \in Workers, NEW from, NEW next,
           \/ from = "answer" /\ next = "repairPermit"
           \/ from = "lateAnswer" /\ next = "settle",
           task[w].pc = from, RunAnswerPage(w, next)
    PROVE  StepOK(w)
<1> DEFINE t == task[w]
           u == [t EXCEPT !.pc = next, !.answered = TRUE]
<1>1. Busy(w)
  BY DEF Busy
<1>2. t \in Task /\ Coherent(t) /\ t.mode = "cloud"
  BY <1>1, BusyTask DEF Coherent, CoherentAt, CloudPcs
<1>3. task' = [task EXCEPT ![w] = u]
  BY DEF RunAnswerPage, SInv, SchedulerTypeOK
<1>4. u \in Task
  BY <1>2 DEF Task, Pcs
<1>5. /\ u.pc = next /\ u.job = t.job /\ u.mode = t.mode /\ u.fetch = t.fetch
      /\ u.outcome = t.outcome
  BY <1>2 DEF Task
<1>6. (u.local => t.local) /\ (u.cloud => t.cloud) /\ (u.gate => t.gate)
  BY Zenon, <1>2 DEF Task
<1> HIDE DEF u
<1>7. Coherent(u) /\ Carries(t, u.pc)
  BY <1>1, <1>2, <1>5, <1>6
     DEF Coherent, CoherentAt, Carries, CloudPcs, DirectPcs, HeldLocal, Unstored,
         CloudDeclared, FallenBack
<1>8. row' = row /\ chain' = chain
  BY DEF RunAnswerPage, jobVars, queueVars
<1>9. Own(w)
  BY <1>1, <1>3, <1>4, <1>5, <1>7, <1>8, UpdatedOwn
<1> QED
  BY <1>1, <1>2, <1>9, QuietStep DEF RunAnswerPage

LEMMA AnswerPages ==
    ASSUME SInv, NEW w \in Workers, AnswerPage(w) \/ LateAnswerPage(w)
    PROVE  StepOK(w)
<1>1. CASE AnswerPage(w)
  BY <1>1, AnswerOK DEF AnswerPage, At
<1>2. CASE LateAnswerPage(w)
  <2>1. task[w].pc = "lateAnswer" /\ Busy(w)
    BY <1>2 DEF LateAnswerPage, At, Busy
  <2>2. Moves(w, "settle") \/ RunAnswerPage(w, "settle")
    BY <1>2 DEF LateAnswerPage
  <2> QED
    BY <2>1, <2>2, AnswerOK, MovesOn DEF Following
<1> QED
  BY <1>1, <1>2

LEMMA RepairOK ==
    ASSUME SInv, NEW w \in Workers, TakeRepairPermit(w) \/ RepairRound(w) \/ RepairEnd(w)
    PROVE  StepOK(w)
<1> DEFINE t == task[w]
<1>0. t.pc \in {"repairPermit", "repair"} /\ Busy(w)
  BY DEF TakeRepairPermit, RepairRound, RepairEnd, At, Busy
<1>1. t \in Task /\ Coherent(t) /\ t.mode = "cloud"
  BY <1>0, BusyTask DEF Coherent, CoherentAt, CloudPcs
<1>2. CASE TakeRepairPermit(w)
  <2> DEFINE u == [t EXCEPT !.pc = "repair", !.cloud = TRUE]
  <2>1. task' = [task EXCEPT ![w] = u]
    BY <1>2 DEF TakeRepairPermit, SInv, SchedulerTypeOK
  <2>2. u \in Task
    BY <1>1 DEF Task, Pcs
  <2>3. /\ u.pc = "repair" /\ u.job = t.job /\ u.mode = t.mode
        /\ u.fetch = t.fetch
    BY <1>1 DEF Task
  <2>4. (u.local => t.local) /\ (u.gate => t.gate)
    BY Zenon, <1>1 DEF Task
  <2> HIDE DEF u
  <2>5. t.pc = "repairPermit"
    BY <1>2 DEF TakeRepairPermit, At
  <2>6. Coherent(u) /\ Carries(t, u.pc)
    BY <1>1, <2>3, <2>4, <2>5
       DEF Coherent, CoherentAt, Carries, CloudPcs, DirectPcs, HeldLocal, Unstored,
           CloudDeclared, FallenBack
  <2> QED
    BY <1>0, <1>2, <2>1, <2>2, <2>3, <2>6, UpdatedStep DEF TakeRepairPermit
<1>3. CASE RepairRound(w)
  <2>1. /\ task' = [task EXCEPT ![w] = t] /\ row' = row /\ chain' = chain
        /\ UNCHANGED <<jobVars, userVars, mishaps>> /\ WriteDraft(w)
    BY <1>3 DEF RepairRound, SInv, SchedulerTypeOK, jobVars, queueVars
  <2>2. Own(w)
    BY <1>0, <1>1, <2>1, QuietOwn
  <2> QED
    BY <1>0, <1>1, <2>1, <2>2, QuietStep
<1>4. CASE RepairEnd(w)
  <2>1. PICK o \in Outcomes :
           task' = [task EXCEPT ![w].pc = "lateAnswer", ![w].cloud = FALSE,
                                ![w].outcome = o]
    BY <1>4, ReportsAssumption DEF RepairEnd
  <2> DEFINE u == [t EXCEPT !.pc = "lateAnswer", !.cloud = FALSE, !.outcome = o]
  <2>2. task' = [task EXCEPT ![w] = u]
    BY <2>1 DEF SInv, SchedulerTypeOK
  <2>3. u \in Task
    BY <1>1 DEF Task, Pcs
  <2>4. /\ u.pc = "lateAnswer" /\ u.job = t.job /\ u.mode = t.mode
        /\ u.fetch = t.fetch /\ u.outcome = o /\ u.cloud = FALSE
    BY <1>1 DEF Task
  <2>5. (u.local => t.local) /\ (u.gate => t.gate)
    BY Zenon, <1>1 DEF Task
  <2> HIDE DEF u
  <2>6. t.pc = "repair"
    BY <1>4 DEF RepairEnd, At
  <2>7. Coherent(u) /\ Carries(t, u.pc)
    BY <1>1, <2>4, <2>5, <2>6
       DEF Coherent, CoherentAt, Carries, CloudPcs, DirectPcs, HeldLocal, Unstored,
           CloudDeclared, FallenBack
  <2> QED
    BY <1>0, <1>4, <2>2, <2>3, <2>4, <2>7, UpdatedStep DEF RepairEnd
<1> QED
  BY <1>2, <1>3, <1>4

LEMMA FinalizeOK == ASSUME SInv, NEW w \in Workers, Finalize(w) PROVE StepOK(w)
<1> DEFINE j == JobOf(w)
           o == task[w].outcome
           q == Released(row[j], "ready_for_review")
           r == [q EXCEPT !.cloud = o]
<1>1. task[w].pc = "finalize" /\ Busy(w)
  BY DEF Finalize, At, Busy
<1>2. /\ task[w] \in Task /\ Coherent(task[w]) /\ j \in Jobs /\ task[w] # NoTask
      /\ row[j] \in Row /\ "ready_for_review" \in Stages
  BY <1>1, BusyTask DEF SInv, SchedulerTypeOK, TypeOK, Stages, Settled
<1>3. CASE Moves(w, "done") \/ Fails(w, "done")
  BY <1>1, <1>3, MovesOn
<1>4. CASE /\ FinalizeReadyWithoutLease(j, o)
           /\ Goto(w, "lastOpen")
           /\ UNCHANGED <<chain, userVars, draftVars, mishaps>>
  <2>1. /\ chain' = chain /\ flagged' = flagged /\ cmd' = cmd /\ item' = item
        /\ author' = author /\ mishaps' = mishaps
    BY <1>4 DEF userVars, draftVars
  <2>2. row' = [row EXCEPT ![j] = r]
    BY <1>4 DEF FinalizeReadyWithoutLease
  <2>3. r.owner = None
    <3>1. q \in Row /\ q.owner = None
      BY <1>2, ReleasedRow
    <3> HIDE DEF q
    <3> QED
      BY <3>1 DEF Row
  <2> HIDE DEF r
  <2>4. Following(task[w].pc) = {"lastOpen"}
    BY <1>1 DEF Following
  <2>5. "lastOpen" \in Pcs /\ Placed(task[w], "lastOpen")
    BY <1>2, <2>4, Hop
  <2>6. Own(w)
    BY <1>1, <1>4, <2>1, <2>2, <2>3, <2>5, ReleasedOwn
  <2>7. o \in Outcomes
    BY <1>1, <1>2 DEF Coherent, CoherentAt
  <2>8. Effect(w, j) /\ Drafts(w, j) /\ RestTyped
    BY <1>1, <1>2, <1>4, <2>1, <2>7 DEF Effect, Drafts, SInv, SchedulerTypeOK, RestTyped
  <2> QED
    BY <1>2, <2>6, <2>8 DEF StepOK
<1> QED
  BY <1>3, <1>4 DEF Finalize

LEMMA CloudOK == ASSUME SInv, NEW w \in Workers, CloudStep(w) PROVE StepOK(w)
BY CloudWait, CloudCalls, AdoptOK, AnswerPages, RepairOK, FinalizeOK DEF CloudStep

\* The fetch may outlive the task it belongs to.
LEMMA FetchOK == ASSUME SInv, NEW w \in Workers, Fetch(w) PROVE StepOK(w)
<1> DEFINE t == task[w]
           j == JobOf(w)
<1>1. PICK x \in {"start", "call", "ok", "error", "aborted"} :
         /\ task' = [task EXCEPT ![w].fetch = x]
         /\ t.fetch \in {"permit", "start", "call"}
         /\ \/ UNCHANGED <<jobVars, userVars, draftVars>>
            \/ /\ t.fetch = "start" /\ SetCloudStatus(w, j, "running")
               /\ UNCHANGED <<chain, userVars, draftVars>>
         /\ mishaps' = mishaps \/ Mishap("database")
  BY DEF Fetch, FetchMoves, Declared
<1>2. t \in Task /\ Coherent(t)
  BY DEF SInv, SchedulerTypeOK
<1>3. t.fetch \in LiveFetch /\ j \in Jobs
  BY <1>1, <1>2 DEF LiveFetch, Coherent, CoherentAt, JobOf
<1>4. t # NoTask
  BY <1>1 DEF NoTask
<1> DEFINE u == [t EXCEPT !.fetch = x]
<1>5. task' = [task EXCEPT ![w] = u]
  BY <1>1 DEF SInv, SchedulerTypeOK
<1>6. u \in Task
  <2>1. x \in Fetches
    BY DEF Fetches
  <2> QED
    BY <1>2, <2>1 DEF Task
<1>7. /\ u.pc = t.pc /\ u.job = t.job /\ u.mode = t.mode /\ u.outcome = t.outcome
  BY <1>2 DEF Task
<1>8. (u.local => t.local) /\ (u.cloud => t.cloud) /\ (u.gate => t.gate)
  BY Zenon, <1>2 DEF Task
<1> HIDE DEF u
<1>9. Coherent(u)
  BY <1>2, <1>3, <1>7, <1>8 DEF Coherent, CoherentAt, JobOf
<1>10. \A r, q, ch : Fits(t, r, ch) /\ q.local = r.local
                     /\ (q.cloud = r.cloud \/ q.cloud = "running")
                     => Fits(u, q, ch)
  BY <1>3, <1>7 DEF Fits, FitsAt, FallenBack
<1>11. /\ chain' = chain /\ flagged' = flagged /\ cmd' = cmd /\ item' = item
       /\ author' = author
  BY <1>1 DEF jobVars, userVars, draftVars
<1>12. Drafts(w, j) /\ RestTyped
  BY <1>1, <1>11, MishapTyped DEF Drafts, SInv, SchedulerTypeOK, RestTyped
<1>13. HeldBy(row[j], w) => Fits(t, row[j], chain[j])
  BY <1>3 DEF SInv
<1>14. Effect(w, j)
  BY <1>1, <1>3 DEF Effect, jobVars
<1>15. HeldBy(row'[j], w) => Fits(u, row'[j], chain'[j])
  <2>1. CASE UNCHANGED queueVars
    BY <1>10, <1>11, <1>13, <2>1 DEF queueVars
  <2>2. CASE SetCloudStatus(w, j, "running")
    <3>1. row[j] \in Row /\ row'[j] = [row[j] EXCEPT !.cloud = "running"] /\ HeldBy(row[j], w)
      BY <1>3, <2>2 DEF SetCloudStatus, SInv, SchedulerTypeOK, TypeOK, HeldBy, Holds
    <3>2. row'[j].local = row[j].local /\ row'[j].cloud = "running"
      BY <3>1 DEF Row
    <3> QED
      BY <1>10, <1>11, <1>13, <3>1, <3>2
  <2> QED
    BY <1>1, <2>1, <2>2 DEF jobVars
<1>16. Own(w)
  BY <1>5, <1>6, <1>7, <1>9, <1>15 DEF Own, JobOf
<1> QED
  BY <1>4, <1>12, <1>14, <1>16 DEF StepOK

LEMMA TaskStepOK == ASSUME SInv, NEW w \in Workers, TaskStep(w) PROVE StepOK(w)
BY DirectOK, LocalOK, CloudOK, FetchOK DEF TaskStep
-----------------------------------------------------------------------------
(* What a step of one task leaves the others with.                         *)

\* What is left of the row r for its holder v is q.
Kept(r, q, v) ==
    HeldBy(q, v) => /\ HeldBy(r, v)
                    /\ q.local = r.local
                    /\ q.cloud = r.cloud \/ (q.cloud = "failed" /\ "direct" \in Modes)

LEMMA KeptFits ==
    ASSUME NEW t, NEW r, NEW q, NEW v, NEW ch, Kept(r, q, v), HeldBy(q, v), Fits(t, r, ch)
    PROVE  HeldBy(r, v) /\ Fits(t, q, ch)
BY DEF Kept, Fits, FitsAt

LEMMA CallColumns ==
    \A c \in Calls : c.cloud # "queued" /\ c.stage # "absent"
BY OutcomesAssumption
   DEF Calls, Call, StartLocal, StartDirect, DirectFailed, DirectToLocal,
       DirectReady, LocalFailed, LocalDone, StartRepair, CycleFailed, Ready,
       Stop, AdvanceFailed

\* The step of w leaves every other task with its row, and rows that suit.
LEMMA EffectKeeps ==
    ASSUME SInv, NEW w \in Workers, task[w] # NoTask, Effect(w, JobOf(w))
    PROVE  /\ \A k \in Jobs, v \in Workers \ {w} : Kept(row[k], row'[k], v)
           /\ \A k \in Jobs : Suits(row'[k], chain[k])
           /\ spent' = spent
<1> DEFINE j == JobOf(w)
           t == task[w]
           Left(k) == (\A v \in Workers \ {w} : Kept(row[k], row'[k], v))
                      /\ Suits(row'[k], chain[k])
<1>1. \A k \in Jobs : row[k] \in Row /\ Sound(row[k]) /\ Suits(row[k], chain[k])
  BY DEF SInv, IInv, TypeOK
<1>2. t \in Task /\ Coherent(t)
  BY DEF SInv, SchedulerTypeOK
<1>3. \A k \in Jobs : row'[k] = row[k] => Left(k)
  BY <1>1 DEF Kept
<1>4. ASSUME j \in Jobs, NEW q, row' = [row EXCEPT ![j] = q], spent' = spent,
             \A v \in Workers \ {w} : Kept(row[j], q, v), Suits(q, chain[j])
      PROVE  (\A k \in Jobs : Left(k)) /\ spent' = spent
  <2>1. row'[j] = q /\ \A k \in Jobs \ {j} : row'[k] = row[k]
    BY <1>4 DEF SInv, SchedulerTypeOK, TypeOK
  <2> QED
    BY <1>3, <1>4, <2>1
<1>5. CASE UNCHANGED queueVars
  BY <1>3, <1>5 DEF queueVars
<1>6. ASSUME j \in Jobs, NEW c \in Calls, MayCall(t, c), Advance(w, j, c)
      PROVE  (\A k \in Jobs : Left(k)) /\ spent' = spent
  <2> DEFINE q == Advanced(row[j], c)
  <2>1. row' = [row EXCEPT ![j] = q] /\ spent' = spent /\ HeldBy(row[j], w)
    BY <1>6 DEF Advance, Holds, HeldBy
  <2>2. q.owner \in {row[j].owner, None}
    BY <1>1, <1>6, <2>1, AdvancedSound DEF HeldBy
  <2>3. Fits(t, row[j], chain[j])
    BY <1>6, <2>1 DEF SInv
  <2>4. t.mode = chain[j] \/ (t.mode = "local" /\ chain[j] = "direct")
    BY <1>6, <2>3 DEF MayCall, Fits, FitsAt
  <2>5. q.stage = (IF row[j].cancel THEN "cancelled" ELSE c.stage)
        /\ q.cloud = Coalesce(c.cloud, row[j].cloud)
    BY AdvancedColumns
  <2> HIDE DEF q
  <2>6. \A v \in Workers \ {w} : Kept(row[j], q, v)
    BY <2>1, <2>2, NoneAssumption DEF Kept, HeldBy
  <2>7. c.cloud # "queued" /\ c.stage # "absent"
    BY <1>6, CallColumns
  <2>8. Suits(q, chain[j])
    BY <1>1, <1>6, <2>4, <2>5, <2>7 DEF Suits, Coalesce, MayCall
  <2> QED
    BY <1>4, <1>6, <2>1, <2>6, <2>8
<1>7. ASSUME j \in Jobs, NEW s \in {"queued", "running"}, SetCloudStatus(w, j, s),
             t.pc = "queueCloud" \/ t.fetch = "start"
      PROVE  (\A k \in Jobs : Left(k)) /\ spent' = spent
  <2> DEFINE q == [row[j] EXCEPT !.cloud = s]
  <2>1. row' = [row EXCEPT ![j] = q] /\ spent' = spent /\ HeldBy(row[j], w)
    BY <1>7 DEF SetCloudStatus, Holds, HeldBy
  <2>2. q.owner = row[j].owner /\ q.stage = row[j].stage /\ q.cloud = s
    BY <1>1, <1>7 DEF Row
  <2>3. Fits(t, row[j], chain[j])
    BY <1>7, <2>1 DEF SInv
  <2>4. chain[j] = "cloud"
    BY <1>2, <1>7, <2>3
       DEF Fits, FitsAt, Coherent, CoherentAt, CloudPcs, LiveFetch
  <2>5. row[j].stage # "absent"
    BY <1>1, <1>7, <2>1, NoneAssumption DEF Sound, HeldBy, Running
  <2> HIDE DEF q
  <2>6. \A v \in Workers \ {w} : Kept(row[j], q, v)
    BY <2>1, <2>2 DEF Kept, HeldBy
  <2>7. Suits(q, chain[j])
    BY <2>2, <2>4, <2>5 DEF Suits
  <2> QED
    BY <1>4, <1>7, <2>1, <2>6, <2>7
<1>8. ASSUME j \in Jobs, NEW c \in Outcomes, FinalizeReadyWithoutLease(j, c)
      PROVE  (\A k \in Jobs : Left(k)) /\ spent' = spent
  <2> DEFINE p == Released(row[j], "ready_for_review")
             q == [p EXCEPT !.cloud = c]
  <2>0. "ready_for_review" \in Stages
    BY DEF Stages, Settled
  <2>1. p \in Row /\ p.stage = "ready_for_review" /\ p.owner = None
    BY <1>1, <1>8, <2>0, ReleasedRow
  <2> HIDE DEF p
  <2>2. q.owner = None /\ q.stage = "ready_for_review" /\ q.cloud = c
    BY <2>1 DEF Row
  <2>3. row' = [row EXCEPT ![j] = q] /\ spent' = spent
    BY <1>8 DEF FinalizeReadyWithoutLease, p
  <2> HIDE DEF q
  <2>4. Suits(q, chain[j])
    BY <1>8, <2>2, OutcomesAssumption DEF Suits
  <2>5. \A v \in Workers \ {w} : Kept(row[j], q, v)
    BY <2>2, NoneAssumption DEF Kept, HeldBy
  <2> QED
    BY <1>4, <1>8, <2>3, <2>4, <2>5
<1>9. ASSUME j \in Jobs, FinalizeCancelledWithoutLease(j)
      PROVE  (\A k \in Jobs : Left(k)) /\ spent' = spent
  <2> DEFINE p == Released(row[j], "cancelled")
             q == [p EXCEPT !.err = "cancelled"]
  <2>0. "cancelled" \in Stages
    BY DEF Stages, Settled
  <2>1. p \in Row /\ p.stage = "cancelled" /\ p.owner = None
    BY <1>1, <1>9, <2>0, ReleasedRow
  <2>2. p.cloud = row[j].cloud
    BY <1>1, <1>9 DEF Released, Row
  <2> HIDE DEF p
  <2>3. q.owner = None /\ q.stage = "cancelled" /\ q.cloud = row[j].cloud
    BY <2>1, <2>2 DEF Row
  <2>4. row' = [row EXCEPT ![j] = q] /\ spent' = spent
    BY <1>9 DEF FinalizeCancelledWithoutLease, p
  <2> HIDE DEF q
  <2>5. Suits(q, chain[j])
    BY <1>1, <1>9, <2>3 DEF Suits
  <2>6. \A v \in Workers \ {w} : Kept(row[j], q, v)
    BY <2>3, NoneAssumption DEF Kept, HeldBy
  <2> QED
    BY <1>4, <1>9, <2>4, <2>5, <2>6
<1>10. ASSUME j \in Jobs, t.pc = "directRecord", RecordDirectFallback(j)
       PROVE  (\A k \in Jobs : Left(k)) /\ spent' = spent
  <2> DEFINE q == [row[j] EXCEPT !.cloud = "failed"]
  <2>1. row' = [row EXCEPT ![j] = q] /\ spent' = spent
    BY <1>10 DEF RecordDirectFallback
  <2>2. /\ q.owner = row[j].owner /\ q.stage = row[j].stage /\ q.cloud = "failed"
        /\ q.local = row[j].local
    BY <1>1, <1>10 DEF Row
  <2>3. q.live => row[j].live
    BY Zenon, <1>1, <1>10 DEF Row
  <2>4. "direct" \in Modes
    BY <1>2, <1>10 DEF Task, Coherent, CoherentAt, DirectPcs
  <2> HIDE DEF q
  <2>5. \A v \in Workers \ {w} : Kept(row[j], q, v)
    BY <2>2, <2>3, <2>4 DEF Kept, HeldBy
  <2>6. Suits(q, chain[j])
    BY <1>1, <1>10, <2>2 DEF Suits
  <2> QED
    BY <1>4, <1>10, <2>1, <2>5, <2>6
<1>11. ASSUME j \in Jobs, NEW children \in SUBSET Jobs, PersistBatch(w, j, children)
       PROVE  (\A k \in Jobs : Left(k)) /\ spent' = spent
  <2> DEFINE next(k) == [Released(row[k], "ready_for_review")
                           EXCEPT !.local = "not_run", !.cloud = "succeeded"]
  <2>0. "ready_for_review" \in Stages
    BY DEF Stages, Settled
  <2>1. ASSUME NEW k \in Jobs
        PROVE  /\ next(k).owner = None /\ next(k).stage = "ready_for_review"
               /\ next(k).cloud = "succeeded"
    <3> DEFINE p == Released(row[k], "ready_for_review")
    <3>1. p \in Row /\ p.stage = "ready_for_review" /\ p.owner = None
      BY <1>1, <2>0, ReleasedRow
    <3> HIDE DEF p
    <3>2. next(k) = [p EXCEPT !.local = "not_run", !.cloud = "succeeded"]
      BY DEF p
    <3> QED
      BY <3>1, <3>2 DEF Row
  <2>2. \A k \in Jobs : row'[k] = next(k) \/ row'[k] = row[k]
    BY <1>11 DEF PersistBatch
  <2> HIDE DEF next
  <2>3. ASSUME NEW k \in Jobs, row'[k] = next(k) PROVE Left(k)
    BY <2>1, <2>3, NoneAssumption DEF Kept, HeldBy, Suits
  <2> QED
    BY <1>3, <1>11, <2>2, <2>3 DEF PersistBatch
<1> QED
  BY <1>5, <1>6, <1>7, <1>8, <1>9, <1>10, <1>11 DEF Effect
-----------------------------------------------------------------------------
(* Every step is one of the table or leaves it alone.                      *)

LEMMA EffectNext ==
    ASSUME NEW w \in Workers, Effect(w, JobOf(w))
    PROVE  [Next]_vars
<1> DEFINE j == JobOf(w)
<1>1. CASE UNCHANGED queueVars
  BY <1>1 DEF queueVars, vars
<1>2. ASSUME j \in Jobs,
             \/ \E c \in Calls : Advance(w, j, c)
             \/ \E s \in {"queued", "running"} : SetCloudStatus(w, j, s)
             \/ \E children \in SUBSET Jobs : PersistBatch(w, j, children)
      PROVE  Next
  BY <1>2 DEF Next, WorkerStep
<1>3. ASSUME j \in Jobs,
             \/ \E c \in Outcomes : FinalizeReadyWithoutLease(j, c)
             \/ FinalizeCancelledWithoutLease(j)
             \/ RecordDirectFallback(j)
      PROVE  Next
  BY <1>3 DEF Next, TableStep
<1> QED
  BY <1>1, <1>2, <1>3 DEF Effect

LEMMA CancelNext ==
    ASSUME NEW j \in Jobs, CancelStatement(j)
    PROVE  [Next]_vars
BY DEF CancelStatement, Next, TableStep, queueVars, vars

LEMMA RetryNext ==
    ASSUME NEW j \in Jobs, RetryStatement(j)
    PROVE  [Next]_vars
BY DEF RetryStatement, Next, TableStep, jobVars, queueVars, vars

LEMMA UserNext ==
    ASSUME NEW j \in Jobs, UserStep(j)
    PROVE  [Next]_vars
<1>1. CASE Import(j)
  BY <1>1 DEF Import, Next, TableStep
<1>2. CASE PressCancel(j) \/ CancelError(j) \/ PressRetry(j)
  BY <1>2 DEF PressCancel, CancelError, PressRetry, jobVars, queueVars, vars
<1> QED
  BY <1>1, <1>2, CancelNext, RetryNext DEF UserStep

LEMMA SchedulerStepNext == SInv /\ [SchedulerNext]_schedulerVars => [Next]_vars
<1> SUFFICES ASSUME SInv, [SchedulerNext]_schedulerVars PROVE [Next]_vars
  OBVIOUS
<1>1. CASE UNCHANGED schedulerVars
  BY <1>1 DEF schedulerVars, jobVars, queueVars, vars
<1>2. CASE ClaimStep
  BY <1>2 DEF ClaimStep, ClaimJob, Next, WorkerStep
<1>3. CASE \E w \in Workers : TaskStep(w)
  BY <1>3, TaskStepOK, EffectNext DEF StepOK
<1>4. ASSUME NEW j \in Jobs, LeasePasses(j) PROVE Next
  BY <1>4 DEF LeasePasses, Next, TableStep
<1>5. CASE StartUp
  BY <1>5 DEF StartUp, Next, Recovery
<1>6. CASE Crash
  BY <1>6 DEF Crash, Next
<1> QED
  BY <1>1, <1>2, <1>3, <1>4, <1>5, <1>6, UserNext DEF SchedulerNext
-----------------------------------------------------------------------------
(* The invariant.                                                          *)

LEMMA InitSInv == SchedulerInit => SInv
<1> SUFFICES ASSUME SchedulerInit PROVE SInv
  OBVIOUS
<1>1. IInv
  BY InitIInv DEF SchedulerInit
<1>2. /\ NoTask \in Task
      /\ NoTask.pc = "none" /\ NoTask.job = None /\ NoTask.fetch = "none"
      /\ NoTask.mode = "local"
      /\ NoTask.local = FALSE /\ NoTask.cloud = FALSE /\ NoTask.gate = FALSE
  BY DEF NoTask, Task, Pcs, Fetches
<1>3. SchedulerTypeOK
  BY <1>1, <1>2, MishapsAssumption DEF SchedulerTypeOK, SchedulerInit, IInv
<1>4. Coherent(NoTask)
  BY <1>2 DEF Coherent, CoherentAt, CloudPcs, DirectPcs, LiveFetch
<1>5. \A j \in Jobs : Suits(row[j], chain[j])
  BY DEF SchedulerInit, Init, NoRow, Suits
<1>6. \A r, ch : Fits(NoTask, r, ch)
  BY <1>2 DEF Fits, FitsAt, Unstored, CloudDeclared, FallenBack, LiveFetch
<1> QED
  BY <1>1, <1>3, <1>4, <1>5, <1>6 DEF SInv, SchedulerInit, JobOf

\* A step of one task.
LEMMA TaskKeeps ==
    ASSUME SInv, NEW w \in Workers, StepOK(w)
    PROVE  SInv'
<1>1. IInv'
  BY EffectNext, NextIInv DEF StepOK, SInv
<1>2. PICK u \in Task :
         /\ task' = [task EXCEPT ![w] = u]
         /\ Coherent(u)
         /\ u.job \in Jobs /\ HeldBy(row'[u.job], w)
            => Fits(u, row'[u.job], chain'[u.job])
  BY DEF StepOK, Own
<1>3. task'[w] = u /\ \A v \in Workers \ {w} : task'[v] = task[v]
  BY <1>2 DEF SInv, SchedulerTypeOK
<1>4. /\ \A k \in Jobs, v \in Workers \ {w} : Kept(row[k], row'[k], v)
      /\ \A k \in Jobs : Suits(row'[k], chain[k])
      /\ spent' = spent
  BY EffectKeeps DEF StepOK
<1>5. chain' = chain /\ w \in spent
  BY DEF StepOK, RestTyped, SInv
<1>6. SchedulerTypeOK'
  BY <1>1, <1>2, <1>5 DEF SchedulerTypeOK, IInv, SInv, StepOK, RestTyped
<1>7. ASSUME NEW v \in Workers PROVE Coherent(task'[v])
  BY <1>2, <1>3 DEF SInv
<1>8. ASSUME NEW v \in Workers \ spent' PROVE task'[v] = NoTask
  BY <1>3, <1>4, <1>5 DEF SInv
<1>9. ASSUME NEW v \in Workers, task'[v].job \in Jobs,
             HeldBy(row'[task'[v].job], v)
      PROVE  Fits(task'[v], row'[task'[v].job], chain'[task'[v].job])
  <2>1. CASE v = w
    BY <1>2, <1>3, <1>9, <2>1
  <2>2. CASE v # w
    <3> DEFINE k == task[v].job
    <3>1. task'[v] = task[v] /\ k \in Jobs /\ HeldBy(row'[k], v)
      BY <1>3, <1>9, <2>2
    <3>2. Kept(row[k], row'[k], v)
      BY <1>4, <2>2, <3>1
    <3>3. HeldBy(row[k], v)
      BY <3>1, <3>2 DEF Kept
    <3>4. Fits(task[v], row[k], chain[k])
      BY <3>1, <3>3 DEF SInv, JobOf
    <3>5. Fits(task[v], row'[k], chain[k])
      BY <3>1, <3>2, <3>4, KeptFits
    <3> QED
      BY <1>5, <3>1, <3>5
  <2> QED
    BY <2>1, <2>2
<1> QED
  BY <1>1, <1>4, <1>5, <1>6, <1>7, <1>8, <1>9 DEF SInv, JobOf

\* A step that moves no task: whoever still holds a row holds what it held.
LEMMA TableKeeps ==
    ASSUME SInv, [Next]_vars, task' = task, spent' = spent,
           chain' \in [Jobs -> Modes \cup {"local"}], flagged' \subseteq Jobs,
           cmd' \in [Jobs -> {"none", "cancel", "cancelMark", "retry"}],
           item' \in [Jobs -> {"none", "processing", "open", "failed"}],
           author' = author, mishaps' \in 0 .. MaxMishaps,
           \A k \in Jobs : /\ Suits(row'[k], chain'[k])
                           /\ \/ row'[k].owner = None
                              \/ /\ chain'[k] = chain[k]
                                 /\ \A v \in Workers : Kept(row[k], row'[k], v)
    PROVE  SInv'
<1>1. IInv'
  BY NextIInv DEF SInv
<1>2. SchedulerTypeOK'
  BY <1>1 DEF SchedulerTypeOK, IInv, SInv
<1>3. ASSUME NEW v \in Workers, task'[v].job \in Jobs,
             HeldBy(row'[task'[v].job], v)
      PROVE  Fits(task'[v], row'[task'[v].job], chain'[task'[v].job])
  <2> DEFINE k == task[v].job
  <2>1. row'[k].owner # None
    BY <1>3, NoneAssumption DEF HeldBy
  <2>2. chain'[k] = chain[k] /\ Kept(row[k], row'[k], v)
    BY <1>3, <2>1
  <2>3. HeldBy(row[k], v)
    BY <1>3, <2>2 DEF Kept
  <2>4. Fits(task[v], row[k], chain[k])
    BY <1>3, <2>3 DEF SInv, JobOf
  <2>5. Fits(task[v], row'[k], chain[k])
    BY <1>3, <2>2, <2>4, KeptFits
  <2> QED
    BY <1>3, <2>2, <2>5
<1> QED
  BY <1>1, <1>2, <1>3 DEF SInv, JobOf

\* The row of one job is written, for no holder or for the one it had.
LEMMA RowKeeps ==
    ASSUME SInv, NEW j \in Jobs, NEW q, row' = [row EXCEPT ![j] = q],
           [Next]_vars, task' = task, spent' = spent, chain' = chain,
           flagged' \subseteq Jobs,
           cmd' \in [Jobs -> {"none", "cancel", "cancelMark", "retry"}],
           item' \in [Jobs -> {"none", "processing", "open", "failed"}],
           author' = author, mishaps' \in 0 .. MaxMishaps,
           q.stage \notin {"reconciling", "absent"} \/ q.stage = row[j].stage,
           q.cloud = row[j].cloud,
           q.owner = None \/ (q.owner = row[j].owner /\ q.local = row[j].local
                              /\ (q.live => row[j].live))
    PROVE  SInv'
<1>1. row'[j] = q /\ \A k \in Jobs \ {j} : row'[k] = row[k]
  BY DEF SInv, IInv, TypeOK
<1>2. ASSUME NEW k \in Jobs
      PROVE  /\ Suits(row'[k], chain[k])
             /\ row'[k].owner = None \/ \A v \in Workers : Kept(row[k], row'[k], v)
  <2>1. Suits(row[k], chain[k])
    BY DEF SInv
  <2>2. CASE k # j
    BY <1>1, <2>1, <2>2 DEF Kept
  <2>3. CASE k = j
    BY <1>1, <2>1, <2>3 DEF Kept, HeldBy, Suits
  <2> QED
    BY <2>2, <2>3
<1>3. chain' \in [Jobs -> Modes \cup {"local"}]
  BY DEF SInv, SchedulerTypeOK
<1> HIDE DEF SInv
<1> QED
  BY <1>2, <1>3, TableKeeps

LEMMA ImportKeeps == ASSUME SInv, NEW j \in Jobs, Import(j) PROVE SInv'
<1>1. [Next]_vars
  BY UserNext DEF UserStep
<1>2. PICK m \in Modes : chain' = [chain EXCEPT ![j] = m]
  BY DEF Import
<1> DEFINE q == [row[j] EXCEPT !.stage = "queued"]
<1>3. row[j] \in Row /\ Sound(row[j]) /\ Suits(row[j], chain[j]) /\ row[j].stage = "absent"
  BY DEF SInv, IInv, TypeOK, Import, Enqueue
<1>4. q.stage = "queued" /\ q.owner = None /\ q.cloud = row[j].cloud
  BY <1>3 DEF Row, Sound, Running
<1>5. row' = [row EXCEPT ![j] = q] /\ spent' = spent
  BY DEF Import, Enqueue
<1> HIDE DEF q
<1>6. /\ row'[j] = q /\ \A k \in Jobs \ {j} : row'[k] = row[k] /\ chain'[k] = chain[k]
      /\ chain' \in [Jobs -> Modes \cup {"local"}]
  BY <1>2, <1>5 DEF SInv, SchedulerTypeOK, TypeOK
<1>7. ASSUME NEW k \in Jobs
      PROVE  /\ Suits(row'[k], chain'[k])
             /\ \/ row'[k].owner = None
                \/ /\ chain'[k] = chain[k]
                   /\ \A v \in Workers : Kept(row[k], row'[k], v)
  <2>1. CASE k # j
    BY <1>6, <2>1 DEF Kept, SInv
  <2>2. CASE k = j
    BY <1>3, <1>4, <1>6, <2>2 DEF Suits
  <2> QED
    BY <2>1, <2>2
<1>8. /\ task' = task /\ flagged' = flagged /\ cmd' = cmd /\ author' = author
      /\ mishaps' = mishaps /\ item' = [item EXCEPT ![j] = "processing"]
  BY DEF Import, userVars
<1>9. /\ flagged' \subseteq Jobs
      /\ cmd' \in [Jobs -> {"none", "cancel", "cancelMark", "retry"}]
      /\ item' \in [Jobs -> {"none", "processing", "open", "failed"}]
      /\ mishaps' \in 0 .. MaxMishaps
  BY <1>8 DEF SInv, SchedulerTypeOK
<1> QED
  BY <1>1, <1>5, <1>6, <1>7, <1>8, <1>9, TableKeeps

\* Commands that are only noted.
LEMMA PressKeeps ==
    ASSUME SInv, NEW j \in Jobs, PressCancel(j) \/ CancelError(j) \/ PressRetry(j)
    PROVE  SInv'
<1>1. [Next]_vars
  BY UserNext DEF UserStep
<1>2. /\ row' = row /\ spent' = spent /\ chain' = chain /\ task' = task
      /\ item' = item /\ author' = author
  BY DEF PressCancel, CancelError, PressRetry, jobVars, queueVars, draftVars
<1>3. /\ flagged' \subseteq Jobs
      /\ cmd' \in [Jobs -> {"none", "cancel", "cancelMark", "retry"}]
  BY DEF PressCancel, CancelError, PressRetry, SInv, SchedulerTypeOK
<1>4. mishaps' \in 0 .. MaxMishaps
  <2>1. mishaps' = mishaps \/ Mishap("database")
    BY DEF PressCancel, CancelError, PressRetry
  <2> QED
    BY <2>1, MishapTyped DEF SInv, SchedulerTypeOK
<1>5. \A k \in Jobs : Suits(row[k], chain[k])
  BY DEF SInv
<1>6. /\ chain' \in [Jobs -> Modes \cup {"local"}]
      /\ item' \in [Jobs -> {"none", "processing", "open", "failed"}]
  BY <1>2 DEF SInv, SchedulerTypeOK
<1>7. \A k \in Jobs : /\ Suits(row'[k], chain'[k]) /\ chain'[k] = chain[k]
                      /\ \A v \in Workers : Kept(row[k], row'[k], v)
  BY <1>2, <1>5 DEF Kept
<1> HIDE DEF SInv
<1> QED
  BY <1>1, <1>2, <1>3, <1>4, <1>6, <1>7, TableKeeps

LEMMA CancelKeeps == ASSUME SInv, NEW j \in Jobs, CancelStatement(j) PROVE SInv'
<1>1. [Next]_vars
  BY CancelNext
<1>2. /\ chain' = chain /\ task' = task /\ flagged' = flagged /\ item' = item
      /\ author' = author /\ mishaps' = mishaps
  BY DEF CancelStatement, draftVars
<1>3. /\ chain' \in [Jobs -> Modes \cup {"local"}] /\ flagged' \subseteq Jobs
      /\ cmd' \in [Jobs -> {"none", "cancel", "cancelMark", "retry"}]
      /\ item' \in [Jobs -> {"none", "processing", "open", "failed"}]
      /\ mishaps' \in 0 .. MaxMishaps
  BY <1>2 DEF CancelStatement, SInv, SchedulerTypeOK
<1>4. row[j] \in Row
  BY DEF SInv, IInv, TypeOK
<1>5. CASE CancelQueued(j)
  <2> DEFINE p == Released(row[j], "cancelled")
             q == [p EXCEPT !.cancel = TRUE]
  <2>1. "cancelled" \in Stages
    BY DEF Stages, Settled
  <2>2. p \in Row /\ p.stage = "cancelled" /\ p.owner = None
    BY <1>4, <2>1, ReleasedRow
  <2>3. p.cloud = row[j].cloud
    BY <1>4 DEF Released, Row
  <2> HIDE DEF p
  <2>4. q.stage = "cancelled" /\ q.owner = None /\ q.cloud = row[j].cloud
    BY <2>2, <2>3 DEF Row
  <2>5. row' = [row EXCEPT ![j] = q] /\ spent' = spent
    BY <1>5 DEF CancelQueued, p
  <2> HIDE DEF q
  <2> QED
    BY <1>1, <1>2, <1>3, <2>4, <2>5, RowKeeps
<1>6. CASE MarkCancel(j)
  <2> DEFINE q == [row[j] EXCEPT !.cancel = TRUE]
  <2>1. /\ q.stage = row[j].stage /\ q.owner = row[j].owner
        /\ q.cloud = row[j].cloud /\ q.local = row[j].local
    BY <1>4 DEF Row
  <2>2. q.live => row[j].live
    BY Zenon, <1>4 DEF Row
  <2>3. row' = [row EXCEPT ![j] = q] /\ spent' = spent
    BY <1>6 DEF MarkCancel
  <2> HIDE DEF q
  <2> QED
    BY <1>1, <1>2, <1>3, <2>1, <2>2, <2>3, RowKeeps
<1>7. CASE UNCHANGED queueVars
  <2>1. row' = row /\ spent' = spent
    BY <1>7 DEF queueVars
  <2>2. row' = [row EXCEPT ![j] = row[j]]
    BY <2>1 DEF SInv, IInv, TypeOK
  <2> QED
    BY <1>1, <1>2, <1>3, <2>1, <2>2, RowKeeps
<1> QED
  BY <1>5, <1>6, <1>7 DEF CancelStatement

LEMMA RetryKeeps == ASSUME SInv, NEW j \in Jobs, RetryStatement(j) PROVE SInv'
<1>1. [Next]_vars
  BY RetryNext
<1>2. /\ task' = task /\ flagged' = flagged /\ item' = item /\ author' = author
      /\ cmd' = [cmd EXCEPT ![j] = "none"]
  BY DEF RetryStatement, draftVars
<1>3. mishaps' \in 0 .. MaxMishaps
  <2>1. mishaps' = mishaps \/ Mishap("database")
    BY DEF RetryStatement
  <2> QED
    BY <2>1, MishapTyped DEF SInv, SchedulerTypeOK
<1>4. /\ flagged' \subseteq Jobs
      /\ cmd' \in [Jobs -> {"none", "cancel", "cancelMark", "retry"}]
      /\ item' \in [Jobs -> {"none", "processing", "open", "failed"}]
  BY <1>2 DEF SInv, SchedulerTypeOK
<1>5. CASE Retry(j) /\ \E m \in Modes : chain' = [chain EXCEPT ![j] = m]
  <2>1. PICK m \in Modes : chain' = [chain EXCEPT ![j] = m]
    BY <1>5
  <2> DEFINE q == [NoRow EXCEPT !.stage = "queued", !.retries = row[j].retries + 1]
  <2>2. q.stage = "queued" /\ q.owner = None /\ q.cloud = "not_started"
    BY DEF NoRow
  <2>3. row' = [row EXCEPT ![j] = q] /\ spent' = spent
    BY <1>5 DEF Retry
  <2> HIDE DEF q
  <2>4. /\ row'[j] = q /\ \A k \in Jobs \ {j} : row'[k] = row[k] /\ chain'[k] = chain[k]
        /\ chain' \in [Jobs -> Modes \cup {"local"}]
    BY <2>1, <2>3 DEF SInv, IInv, SchedulerTypeOK, TypeOK
  <2>5. ASSUME NEW k \in Jobs
        PROVE  /\ Suits(row'[k], chain'[k])
               /\ \/ row'[k].owner = None
                  \/ /\ chain'[k] = chain[k]
                     /\ \A v \in Workers : Kept(row[k], row'[k], v)
    <3>1. CASE k # j
      BY <2>4, <3>1 DEF Kept, SInv
    <3>2. CASE k = j
      BY <2>2, <2>4, <3>2 DEF Suits
    <3> QED
      BY <3>1, <3>2
  <2> HIDE DEF SInv
  <2> QED
    BY <1>1, <1>2, <1>3, <1>4, <2>3, <2>4, <2>5, TableKeeps
<1>6. CASE UNCHANGED jobVars
  <2>1. row' = row /\ spent' = spent /\ chain' = chain
    BY <1>6 DEF jobVars, queueVars
  <2>2. row' = [row EXCEPT ![j] = row[j]]
    BY <2>1 DEF SInv, IInv, TypeOK
  <2> HIDE DEF SInv
  <2> QED
    BY <1>1, <1>2, <1>3, <1>4, <2>1, <2>2, RowKeeps
<1> QED
  BY <1>5, <1>6 DEF RetryStatement, jobVars

LEMMA UserKeeps == ASSUME SInv, NEW j \in Jobs, UserStep(j) PROVE SInv'
BY ImportKeeps, PressKeeps, CancelKeeps, RetryKeeps DEF UserStep

LEMMA LeaseKeeps == ASSUME SInv, NEW j \in Jobs, LeasePasses(j) PROVE SInv'
<1>1. [Next]_vars
  BY DEF LeasePasses, Next, TableStep
<1>2. /\ chain' = chain /\ task' = task /\ flagged' = flagged /\ cmd' = cmd
      /\ item' = item /\ author' = author
  BY DEF LeasePasses, userVars, draftVars
<1>3. mishaps' \in 0 .. MaxMishaps
  <2>1. mishaps' = mishaps \/ Mishap("sleep")
    BY DEF LeasePasses
  <2> QED
    BY <2>1, MishapTyped DEF SInv, SchedulerTypeOK
<1>4. /\ flagged' \subseteq Jobs
      /\ cmd' \in [Jobs -> {"none", "cancel", "cancelMark", "retry"}]
      /\ item' \in [Jobs -> {"none", "processing", "open", "failed"}]
  BY <1>2 DEF SInv, SchedulerTypeOK
<1> DEFINE q == [row[j] EXCEPT !.live = FALSE]
<1>5. row[j] \in Row
  BY DEF SInv, IInv, TypeOK
<1>6. /\ q.stage = row[j].stage /\ q.owner = row[j].owner
      /\ q.cloud = row[j].cloud /\ q.local = row[j].local
  BY <1>5 DEF Row
<1>7. q.live => row[j].live
  BY Zenon, <1>5 DEF Row
<1>8. row' = [row EXCEPT ![j] = q] /\ spent' = spent
  BY DEF LeasePasses, Expire
<1> HIDE DEF q, SInv
<1> QED
  BY <1>1, <1>2, <1>3, <1>4, <1>6, <1>7, <1>8, RowKeeps

\* What a statement of startup recovery makes of a row, if it takes it.
Requeued(r)  == [Released(r, "queued") EXCEPT !.err = "interrupted", !.retries = @ + 1]
Exhausted(r) == [Released(r, "ready_for_review")
                   EXCEPT !.local = "action_required", !.err = "retry_exhausted"]
Dropped(r)   == [Released(r, "cancelled") EXCEPT !.err = "cancelled"]

LEMMA RecoveredRow ==
    ASSUME NEW r \in Row, NEW q \in {Requeued(r), Exhausted(r), Dropped(r)}
    PROVE  /\ q.owner = None /\ q.cloud = r.cloud
           /\ q.stage \in {"queued", "ready_for_review", "cancelled"}
<1>1. ASSUME NEW stage \in {"queued", "ready_for_review", "cancelled"}
      PROVE  /\ Released(r, stage) \in Row /\ Released(r, stage).stage = stage
             /\ Released(r, stage).owner = None /\ Released(r, stage).cloud = r.cloud
  <2>1. stage \in Stages
    BY DEF Stages, Settled
  <2>2. Released(r, stage).cloud = r.cloud
    BY DEF Released, Row
  <2> QED
    BY <2>1, <2>2, ReleasedRow
<1>2. CASE q = Requeued(r)
  <2> DEFINE p == Released(r, "queued")
  <2>1. p \in Row /\ p.stage = "queued" /\ p.owner = None /\ p.cloud = r.cloud
    BY <1>1
  <2>2. q = [p EXCEPT !.err = "interrupted", !.retries = @ + 1]
    BY <1>2 DEF Requeued
  <2> HIDE DEF p
  <2> QED
    BY <2>1, <2>2 DEF Row
<1>3. CASE q = Exhausted(r)
  <2> DEFINE p == Released(r, "ready_for_review")
  <2>1. p \in Row /\ p.stage = "ready_for_review" /\ p.owner = None /\ p.cloud = r.cloud
    BY <1>1
  <2>2. q = [p EXCEPT !.local = "action_required", !.err = "retry_exhausted"]
    BY <1>3 DEF Exhausted
  <2> HIDE DEF p
  <2> QED
    BY <2>1, <2>2 DEF Row
<1>4. CASE q = Dropped(r)
  <2> DEFINE p == Released(r, "cancelled")
  <2>1. p \in Row /\ p.stage = "cancelled" /\ p.owner = None /\ p.cloud = r.cloud
    BY <1>1
  <2>2. q = [p EXCEPT !.err = "cancelled"]
    BY <1>4 DEF Dropped
  <2> HIDE DEF p
  <2> QED
    BY <2>1, <2>2 DEF Row
<1> QED
  BY <1>2, <1>3, <1>4

LEMMA StartUpKeeps == SInv /\ StartUp => SInv'
<1> SUFFICES ASSUME SInv, StartUp PROVE SInv'
  OBVIOUS
<1>1. [Next]_vars
  BY DEF StartUp, Next, Recovery
<1>2. /\ chain' = chain /\ task' = task /\ flagged' = flagged /\ cmd' = cmd
      /\ item' = item /\ author' = author
  BY DEF StartUp, userVars, draftVars
<1>3. mishaps' \in 0 .. MaxMishaps
  <2>1. mishaps' = mishaps \/ Mishap("database")
    BY DEF StartUp
  <2> QED
    BY <2>1, MishapTyped DEF SInv, SchedulerTypeOK
<1>4. /\ flagged' \subseteq Jobs
      /\ cmd' \in [Jobs -> {"none", "cancel", "cancelMark", "retry"}]
      /\ item' \in [Jobs -> {"none", "processing", "open", "failed"}]
      /\ chain' \in [Jobs -> Modes \cup {"local"}]
  BY <1>2 DEF SInv, SchedulerTypeOK
<1>6. \A k \in Jobs : row[k] \in Row /\ Suits(row[k], chain[k])
  BY DEF SInv, IInv, TypeOK
<1> DEFINE Taken == \A k \in Jobs : row'[k] \in {row[k], Requeued(row[k]),
                                               Exhausted(row[k]), Dropped(row[k])}
<1>5. ASSUME RecoverCancelled PROVE Taken /\ spent' = spent
  <2>1. \A k \in Jobs : row'[k] = Dropped(row[k]) \/ row'[k] = row[k]
    BY Zenon, <1>5 DEF RecoverCancelled, Dropped
  <2>2. spent' = spent
    BY Zenon, <1>5 DEF RecoverCancelled
  <2> QED
    BY <2>1, <2>2
<1>7. ASSUME RecoverRequeue PROVE Taken /\ spent' = spent
  <2>1. \A k \in Jobs : row'[k] = Requeued(row[k]) \/ row'[k] = row[k]
    BY Zenon, <1>7 DEF RecoverRequeue, Requeued
  <2>2. spent' = spent
    BY Zenon, <1>7 DEF RecoverRequeue
  <2> QED
    BY <2>1, <2>2
<1>9. ASSUME RecoverExhausted PROVE Taken /\ spent' = spent
  <2>1. \A k \in Jobs : row'[k] = Exhausted(row[k]) \/ row'[k] = row[k]
    BY Zenon, <1>9 DEF RecoverExhausted, Exhausted
  <2>2. spent' = spent
    BY Zenon, <1>9 DEF RecoverExhausted
  <2> QED
    BY <2>1, <2>2
<1>10. ASSUME RecoverError PROVE Taken /\ spent' = spent
  BY <1>10 DEF RecoverError
<1>11. Taken /\ spent' = spent
  BY <1>5, <1>7, <1>9, <1>10 DEF StartUp
<1>8. ASSUME NEW k \in Jobs
      PROVE  /\ Suits(row'[k], chain'[k])
             /\ \/ row'[k].owner = None
                \/ /\ chain'[k] = chain[k]
                   /\ \A v \in Workers : Kept(row[k], row'[k], v)
  <2>1. CASE row'[k] = row[k]
    BY <1>2, <1>6, <2>1 DEF Kept
  <2>2. CASE row'[k] # row[k]
    BY <1>2, <1>6, <1>11, <2>2, RecoveredRow DEF Suits
  <2> QED
    BY <2>1, <2>2
<1> HIDE DEF SInv
<1> QED
  BY <1>1, <1>2, <1>3, <1>4, <1>8, <1>11, TableKeeps

\* A claim starts a task under a fresh uuid.
LEMMA ClaimKeeps == ASSUME SInv, NEW w \in Workers, NEW j \in Jobs, ClaimJob(w, j) PROVE SInv'
<1> DEFINE x == IF chain[j] = "direct" THEN "begin" ELSE "permit"
           u == [NoTask EXCEPT !.pc = x, !.job = j, !.mode = chain[j]]
           q == [row[j] EXCEPT !.stage = "running", !.owner = w, !.live = TRUE,
                               !.local = IF row[j].stage = "running"
                                         THEN row[j].local ELSE "running"]
<1>1. IInv'
  BY NextIInv DEF SInv, ClaimJob, Next, WorkerStep
<1>2. /\ row' = [row EXCEPT ![j] = q] /\ spent' = spent \cup {w}
      /\ task' = [task EXCEPT ![w] = u] /\ Claimable(j) /\ w \notin spent
  BY DEF ClaimJob, Claim, Fresh
<1>3. row[j] \in Row /\ Suits(row[j], chain[j]) /\ chain[j] \in Modes \cup {"local"}
  BY DEF SInv, IInv, TypeOK, SchedulerTypeOK
<1>4. /\ q.stage = "running" /\ q.owner = w /\ q.cloud = row[j].cloud
      /\ q.local = IF row[j].stage = "running" THEN row[j].local ELSE "running"
  BY <1>3 DEF Row
<1>5. q.local # "succeeded"
  BY <1>2, <1>4 DEF Claimable
<1>6. row[j].stage # "absent"
  BY <1>2 DEF Claimable, Running
<1> HIDE DEF q
<1>7. x \in Pcs /\ x \in {"begin", "permit"} /\ (x = "permit" => chain[j] # "direct")
  BY DEF Pcs
<1> HIDE DEF x
<1>8. NoTask \in Task /\ NoTask.fetch = "none"
  BY DEF NoTask, Task, Pcs, Fetches
<1>9. u \in Task
  BY <1>3, <1>7, <1>8 DEF Task
<1>10. /\ u.pc = x /\ u.job = j /\ u.mode = chain[j] /\ u.fetch = "none"
       /\ u.local = FALSE /\ u.cloud = FALSE /\ u.gate = FALSE
  BY DEF NoTask
<1> HIDE DEF u
<1>11. Coherent(u)
  BY <1>7, <1>10 DEF Coherent, CoherentAt, CloudPcs, DirectPcs, LiveFetch
<1>12. Fits(u, q, chain[j])
  BY <1>5, <1>7, <1>10 DEF Fits, FitsAt, LiveFetch, CloudDeclared
<1>13. /\ task'[w] = u /\ \A v \in Workers \ {w} : task'[v] = task[v]
       /\ row'[j] = q /\ \A k \in Jobs \ {j} : row'[k] = row[k]
  BY <1>2 DEF SInv, IInv, TypeOK, SchedulerTypeOK
<1>14. /\ chain' = chain /\ flagged' = flagged /\ cmd' = cmd /\ item' = item
       /\ author' = author /\ mishaps' = mishaps
  BY DEF ClaimJob, userVars, draftVars
<1>15. SchedulerTypeOK'
  BY <1>1, <1>2, <1>9, <1>14 DEF SchedulerTypeOK, IInv, SInv
<1>16. ASSUME NEW v \in Workers PROVE Coherent(task'[v])
  BY <1>11, <1>13 DEF SInv
<1>17. ASSUME NEW v \in Workers \ spent' PROVE task'[v] = NoTask
  BY <1>2, <1>13 DEF SInv
<1>18. ASSUME NEW k \in Jobs PROVE Suits(row'[k], chain'[k])
  <2>1. Suits(q, chain[j])
    BY <1>3, <1>4, <1>6 DEF Suits
  <2> QED
    BY <1>13, <1>14, <2>1 DEF SInv
<1>19. ASSUME NEW v \in Workers, task'[v].job \in Jobs,
              HeldBy(row'[task'[v].job], v)
       PROVE  Fits(task'[v], row'[task'[v].job], chain'[task'[v].job])
  <2>1. CASE v = w
    BY <1>10, <1>12, <1>13, <1>14, <2>1
  <2>2. CASE v # w
    <3> DEFINE k == task[v].job
    <3>1. task'[v] = task[v] /\ k \in Jobs /\ HeldBy(row'[k], v)
      BY <1>13, <1>19, <2>2
    <3>2. k # j
      BY <1>4, <1>13, <2>2, <3>1 DEF HeldBy
    <3>3. row'[k] = row[k] /\ HeldBy(row[k], v)
      BY <1>13, <3>1, <3>2
    <3>4. Fits(task[v], row[k], chain[k])
      BY <3>1, <3>3 DEF SInv, JobOf
    <3> QED
      BY <1>14, <3>1, <3>3, <3>4
  <2> QED
    BY <2>1, <2>2
<1> QED
  BY <1>1, <1>15, <1>16, <1>17, <1>18, <1>19 DEF SInv, JobOf

LEMMA CrashKeeps == SInv /\ Crash => SInv'
<1> SUFFICES ASSUME SInv, Crash PROVE SInv'
  OBVIOUS
<1> DEFINE u == [NoTask EXCEPT !.pc = "done"]
<1>1. IInv'
  BY NextIInv DEF SInv, Crash, Next
<1>2. /\ row' = row /\ spent' = spent /\ chain' = chain /\ item' = item
      /\ author' = author /\ flagged' = {} /\ cmd' = [k \in Jobs |-> "none"]
      /\ task' = [v \in Workers |-> IF task[v].pc = "none" THEN task[v] ELSE u]
  BY DEF Crash, Restart, draftVars
<1>3. mishaps' \in 0 .. MaxMishaps
  BY MishapTyped DEF Crash
<1>4. u \in Task
  BY DEF NoTask, Task, Pcs, Fetches
<1>5. /\ u.pc = "done" /\ u.fetch = "none" /\ u.mode = "local"
      /\ u.local = FALSE /\ u.cloud = FALSE /\ u.gate = FALSE
  BY DEF NoTask
<1> HIDE DEF u
<1>6. Coherent(u) /\ \A r, ch : Fits(u, r, ch)
  BY <1>5 DEF Coherent, CoherentAt, CloudPcs, DirectPcs, LiveFetch, Fits, FitsAt,
              Unstored, CloudDeclared, FallenBack
<1>7. \A v \in Workers : task'[v] = task[v] \/ task'[v] = u
  BY <1>2
<1>8. \A v \in Workers \ spent : task'[v] = NoTask
  <2>1. NoTask.pc = "none"
    BY DEF NoTask
  <2> QED
    BY <1>2, <2>1 DEF SInv
<1>9. SchedulerTypeOK'
  <2>1. task' \in [Workers -> Task]
    BY <1>2, <1>4 DEF SInv, SchedulerTypeOK
  <2> QED
    BY <1>1, <1>2, <1>3, <2>1 DEF SchedulerTypeOK, IInv, SInv
<1>10. ASSUME NEW v \in Workers, task'[v].job \in Jobs,
              HeldBy(row'[task'[v].job], v)
       PROVE  Fits(task'[v], row'[task'[v].job], chain'[task'[v].job])
  <2>1. CASE task'[v] = u
    BY <1>6, <2>1
  <2>2. CASE task'[v] = task[v]
    BY <1>2, <1>10, <2>2 DEF SInv, JobOf
  <2> QED
    BY <1>7, <2>1, <2>2
<1>11. \A v \in Workers : Coherent(task'[v])
  BY <1>6, <1>7 DEF SInv
<1>12. \A k \in Jobs : Suits(row'[k], chain'[k])
  BY <1>2 DEF SInv
<1> QED
  BY <1>1, <1>2, <1>8, <1>9, <1>10, <1>11, <1>12 DEF SInv, JobOf

LEMMA NextSInv == SInv /\ [SchedulerNext]_schedulerVars => SInv'
<1> SUFFICES ASSUME SInv, [SchedulerNext]_schedulerVars PROVE SInv'
  OBVIOUS
<1>1. CASE UNCHANGED schedulerVars
  <2>1. /\ row' = row /\ spent' = spent /\ boot' = boot /\ chain' = chain /\ task' = task
        /\ flagged' = flagged /\ cmd' = cmd /\ item' = item /\ author' = author
        /\ mishaps' = mishaps
    BY <1>1 DEF schedulerVars, jobVars, queueVars, userVars, draftVars
  <2> QED
    BY <2>1 DEF SInv, IInv, TypeOK, OwnersAreDistinct, SchedulerTypeOK, JobOf
<1>2. CASE ClaimStep
  BY <1>2, ClaimKeeps DEF ClaimStep
<1>3. CASE \E w \in Workers : TaskStep(w)
  BY <1>3, TaskStepOK, TaskKeeps
<1>4. ASSUME NEW j \in Jobs, UserStep(j) \/ LeasePasses(j) PROVE SInv'
  BY <1>4, UserKeeps, LeaseKeeps
<1> QED
  BY <1>1, <1>2, <1>3, <1>4, StartUpKeeps, CrashKeeps DEF SchedulerNext
-----------------------------------------------------------------------------
(* Theorems.                                                               *)

\* The scheduler keeps its inductive invariant: what a task knows of the row
\* it holds stays true, whatever other tasks, the user and the clock do.
THEOREM SchedulerInvariance == SchedulerSpec => []SInv
  BY InitSInv, NextSInv, PTL DEF SchedulerSpec

\* Tasks, flags, commands, library rows and drafts stay of their types.
THEOREM SchedulerTypes == SchedulerSpec => []SchedulerTypeOK
<1>1. SInv => SchedulerTypeOK
  BY DEF SInv
<1> QED
  BY <1>1, SchedulerInvariance, PTL

\* The scheduler uses the job table as ProcessingQueue describes it: every
\* step of a task, of the user, of the clock and of a restart is a statement
\* of queue.rs, or leaves the table alone.
THEOREM UsesQueue == SchedulerSpec => Spec
<1>1. SchedulerInit => Init
  BY DEF SchedulerInit
<1> QED
  BY <1>1, SchedulerInvariance, SchedulerStepNext, PTL DEF SchedulerSpec, Spec

\* So the jobs of the scheduler live as JobLifecycle says.
THEOREM SchedulerLifecycle == SchedulerSpec => ImplementsLifecycle
  BY UsesQueue, Refinement, PTL

\* Who waits for a permit or for the gate holds nothing that another one,
\* waiting in turn, could be waiting for: no cycle of waits in scheduler.rs.
THEOREM PermitsOrdered == SchedulerSpec => []PermitOrder
<1>1. SInv => PermitOrder
  <2> SUFFICES ASSUME SInv, NEW w \in Workers
               PROVE  /\ task[w].pc \in {"permit", "directGate", "repermit"}
                         => ~task[w].local /\ ~task[w].cloud /\ ~task[w].gate
                      /\ task[w].pc \in {"directPermit", "answer", "repairPermit", "lateAnswer"}
                         => ~task[w].local /\ ~task[w].cloud
    BY DEF PermitOrder
  <2>1. Coherent(task[w])
    BY DEF SInv
  <2> QED
    BY <2>1 DEF Coherent, CoherentAt, HeldLocal
<1> QED
  BY <1>1, SchedulerInvariance, PTL

\* Without direct chains, human edits are refused for as long as the task that
\* owns the row of a job may write model output into its draft.  (A direct
\* chain that lost its row records its fallback by the job id alone, and with
\* it takes the declaration of a later cloud chain back.)
THEOREM CloudWritesLocked ==
    ASSUME "direct" \notin Modes
    PROVE  SchedulerSpec => []CloudWritesAreLocked
<1>1. SInv => CloudWritesAreLocked
  <2> SUFFICES ASSUME SInv, NEW w \in Workers,
                      task[w].pc \in {"adopt", "answer", "repairPermit", "repair"},
                      Holds(w, JobOf(w))
               PROVE  EditLocked(JobOf(w)) \/ row[JobOf(w)].cancel
    BY DEF CloudWritesAreLocked
  <2> DEFINE j == JobOf(w)
  <2>1. /\ Coherent(task[w]) /\ j \in Jobs
        /\ Fits(task[w], row[j], chain[j])
    BY BusyTask DEF Busy, Holds, HeldBy
  <2>2. task[w].mode = "cloud"
    BY <2>1 DEF Coherent, CoherentAt, CloudPcs
  <2>3. row[j].cloud \in {"queued", "running"}
    BY <2>1, <2>2 DEF Fits, FitsAt, CloudDeclared
  <2>4. row[j].stage \in Running
    BY <2>1, NoneAssumption DEF SInv, IInv, Sound, Holds
  <2> QED
    BY <2>3, <2>4 DEF EditLocked
<1> QED
  BY <1>1, SchedulerInvariance, PTL

\* A chain that runs without a cloud part does not keep the editor locked, if
\* no direct chain falls back or the two writes that say so do not both fail.
THEOREM LocalUnlocked ==
    ASSUME "direct" \notin Modes \/ "database" \notin MishapKinds
    PROVE  SchedulerSpec => []LocalChainUnlocked
<1>1. SInv => LocalChainUnlocked
  <2> SUFFICES ASSUME SInv, NEW w \in Workers, task[w].mode = "local",
                      task[w].pc \in {"recognize", "recognized", "publish", "open", "cycle"},
                      Holds(w, JobOf(w))
               PROVE  ~EditLocked(JobOf(w))
    BY DEF LocalChainUnlocked
  <2> DEFINE j == JobOf(w)
  <2>1. /\ j \in Jobs /\ Fits(task[w], row[j], chain[j])
        /\ chain[j] \in Modes \cup {"local"} /\ Suits(row[j], chain[j])
    BY BusyTask DEF Busy, Holds, HeldBy, SInv, SchedulerTypeOK
  <2>2. chain[j] \in {"local", "direct"}
    BY <2>1 DEF Fits, FitsAt
  <2>3. row[j].stage # "reconciling"
    BY <2>1, <2>2 DEF Suits
  <2>4. row[j].cloud \notin {"queued", "running"}
    <3>1. CASE chain[j] = "local"
      BY <2>1, <3>1 DEF Suits
    <3>2. CASE chain[j] = "direct"
      BY <2>1, <3>2 DEF Fits, FitsAt, FallenBack
    <3> QED
      BY <2>2, <3>1, <3>2
  <2> QED
    BY <2>3, <2>4 DEF EditLocked
<1> QED
  BY <1>1, SchedulerInvariance, PTL
-----------------------------------------------------------------------------
(* What one step may not do.                                               *)

\* What LocalResultSticks says of one step.
ResultKept == \A j \in Jobs : row[j].stage \in Running /\ row[j].local = "succeeded"
                            => row'[j].local = "succeeded" \/ boot # "up"

\* The row of one job is written, and not its local result.
LEMMA OneRowKeepsResult ==
    ASSUME SInv, NEW j \in Jobs, NEW q, row' = [row EXCEPT ![j] = q],
           row[j].stage \in Running /\ row[j].local = "succeeded" => q.local = "succeeded"
    PROVE  ResultKept
<1>1. row'[j] = q /\ \A k \in Jobs \ {j} : row'[k] = row[k]
  BY DEF SInv, IInv, TypeOK
<1> QED
  BY <1>1 DEF ResultKept

\* What is written with a released row besides the lease and the stage.
LEMMA ReleasedKeepsLocal ==
    ASSUME NEW r \in Row, NEW stage \in Stages, NEW e, NEW c
    PROVE  /\ [Released(r, stage) EXCEPT !.err = e].local = r.local
           /\ [Released(r, stage) EXCEPT !.cloud = c].local = r.local
           /\ [Released(r, stage) EXCEPT !.cancel = c].local = r.local
<1> DEFINE p == Released(r, stage)
<1>1. p \in Row
  BY ReleasedRow
<1>2. p.local = r.local
  BY DEF Released, Row
<1> HIDE DEF p
<1>3. /\ [p EXCEPT !.err = e].local = r.local
      /\ [p EXCEPT !.cloud = c].local = r.local
      /\ [p EXCEPT !.cancel = c].local = r.local
  BY <1>1, <1>2 DEF Row
<1> QED
  BY <1>3 DEF p

LEMMA TaskKeepsResult == ASSUME SInv, NEW w \in Workers, StepOK(w) PROVE ResultKept
<1> DEFINE j == JobOf(w)
<1>1. \A k \in Jobs : row[k] \in Row
  BY DEF SInv, IInv, TypeOK
<1>2. CASE UNCHANGED queueVars
  BY <1>2 DEF queueVars, ResultKept
<1>3. ASSUME j \in Jobs, NEW c \in Calls, MayCall(task[w], c), Advance(w, j, c)
      PROVE  ResultKept
  <2> DEFINE q == Advanced(row[j], c)
  <2>1. row' = [row EXCEPT ![j] = q] /\ HeldBy(row[j], w)
    BY <1>3 DEF Advance, Holds, HeldBy
  <2>2. Fits(task[w], row[j], chain[j])
    BY <1>3, <2>1 DEF SInv
  <2>3. q.local = Coalesce(c.local, row[j].local)
    BY AdvancedColumns
  <2> HIDE DEF q
  <2>4. row[j].local = "succeeded" => q.local = "succeeded"
    BY <1>3, <2>2, <2>3 DEF MayCall, Fits, FitsAt, Coalesce
  <2> QED
    BY <1>3, <2>1, <2>4, OneRowKeepsResult
<1>4. ASSUME j \in Jobs, NEW s, SetCloudStatus(w, j, s) \/ RecordDirectFallback(j)
      PROVE  ResultKept
  <2> DEFINE q(c) == [row[j] EXCEPT !.cloud = c]
  <2>1. \A c : q(c).local = row[j].local
    BY <1>1, <1>4 DEF Row
  <2>2. \E c : row' = [row EXCEPT ![j] = q(c)]
    BY <1>4 DEF SetCloudStatus, RecordDirectFallback
  <2> HIDE DEF q
  <2> QED
    BY <1>4, <2>1, <2>2, OneRowKeepsResult
<1>5. ASSUME j \in Jobs, NEW c, FinalizeReadyWithoutLease(j, c)
      PROVE  ResultKept
  <2> DEFINE q == [Released(row[j], "ready_for_review") EXCEPT !.cloud = c]
  <2>1. row' = [row EXCEPT ![j] = q]
    BY <1>5 DEF FinalizeReadyWithoutLease
  <2>2. q.local = row[j].local
    BY <1>1, <1>5, ReleasedKeepsLocal DEF Stages, Settled
  <2> HIDE DEF q
  <2> QED
    BY <1>5, <2>1, <2>2, OneRowKeepsResult
<1>6. ASSUME j \in Jobs, FinalizeCancelledWithoutLease(j)
      PROVE  ResultKept
  <2> DEFINE q == [Released(row[j], "cancelled") EXCEPT !.err = "cancelled"]
  <2>1. row' = [row EXCEPT ![j] = q]
    BY <1>6 DEF FinalizeCancelledWithoutLease
  <2>2. q.local = row[j].local
    BY <1>1, <1>6, ReleasedKeepsLocal DEF Stages, Settled
  <2> HIDE DEF q
  <2> QED
    BY <1>6, <2>1, <2>2, OneRowKeepsResult
<1>7. ASSUME j \in Jobs, NEW children \in SUBSET Jobs, task[w].pc = "directCommit",
             PersistBatch(w, j, children)
      PROVE  ResultKept
  <2>1. HeldBy(row[j], w)
    BY Zenon, <1>7 DEF PersistBatch, MayPersist, Holds, HeldBy
  <2>2. row[j].local # "succeeded"
    BY <1>7, <2>1 DEF SInv, Fits, FitsAt, Unstored
  <2>3. \A k \in children : row[k].stage \notin Running
    <3>1. \A k \in children : row[k].stage = "absent"
      BY Zenon, <1>7 DEF PersistBatch
    <3> QED
      BY <3>1 DEF Running
  <2>4. \A k \in Jobs : k \notin children \cup {j} => row'[k] = row[k]
    BY Zenon, <1>7 DEF PersistBatch
  <2> QED
    BY <2>2, <2>3, <2>4 DEF ResultKept
<1> QED
  BY <1>2, <1>3, <1>4, <1>5, <1>6, <1>7 DEF StepOK, Effect

LEMMA UserKeepsResult == ASSUME SInv, NEW j \in Jobs, UserStep(j) PROVE ResultKept
<1>1. row[j] \in Row
  BY DEF SInv, IInv, TypeOK
<1>2. CASE UNCHANGED row
  BY <1>2 DEF ResultKept
<1>3. CASE Enqueue(j) \/ Retry(j)
  <2>1. row[j].stage \notin Running
    BY <1>3 DEF Enqueue, Retry, Running, Settled
  <2>2. \E q : row' = [row EXCEPT ![j] = q]
    BY <1>3 DEF Enqueue, Retry
  <2> QED
    BY <2>1, <2>2, OneRowKeepsResult
<1>4. CASE CancelQueued(j)
  <2>1. row[j].stage \notin Running
    BY <1>4 DEF CancelQueued, Running
  <2>2. \E q : row' = [row EXCEPT ![j] = q]
    BY <1>4 DEF CancelQueued
  <2> QED
    BY <2>1, <2>2, OneRowKeepsResult
<1>5. CASE MarkCancel(j)
  <2> DEFINE q == [row[j] EXCEPT !.cancel = TRUE]
  <2>1. row' = [row EXCEPT ![j] = q] /\ q.local = row[j].local
    BY <1>1, <1>5 DEF MarkCancel, Row
  <2> HIDE DEF q
  <2> QED
    BY <2>1, OneRowKeepsResult
<1> QED
  BY <1>2, <1>3, <1>4, <1>5
     DEF UserStep, Import, PressCancel, CancelStatement, CancelError, PressRetry,
         RetryStatement, jobVars, queueVars

LEMMA StepKeepsResult == SInv /\ [SchedulerNext]_schedulerVars => [ResultKept]_schedulerVars
<1> SUFFICES ASSUME SInv, SchedulerNext PROVE ResultKept
  OBVIOUS
<1>1. ASSUME NEW w \in Workers, NEW j \in Jobs, ClaimJob(w, j) PROVE ResultKept
  <2>1. Claimable(j) /\ \E q : row' = [row EXCEPT ![j] = q]
    BY <1>1 DEF ClaimJob, Claim
  <2>2. ~(row[j].stage \in Running /\ row[j].local = "succeeded")
    BY <2>1 DEF Claimable, Running
  <2> QED
    BY <2>1, <2>2, OneRowKeepsResult
<1>2. ASSUME NEW j \in Jobs, LeasePasses(j) PROVE ResultKept
  <2> DEFINE q == [row[j] EXCEPT !.live = FALSE]
  <2>1. row' = [row EXCEPT ![j] = q]
    BY <1>2 DEF LeasePasses, Expire
  <2>2. q.local = row[j].local
    BY DEF SInv, IInv, TypeOK, Row
  <2> HIDE DEF q
  <2> QED
    BY <2>1, <2>2, OneRowKeepsResult
<1>3. CASE StartUp
  <2>1. boot # "up"
    <3>1. boot \in {"cancelled", "requeue", "exhausted"} \/ boot # "up"
      BY Zenon, <1>3
         DEF StartUp, RecoverCancelled, RecoverRequeue, RecoverExhausted, RecoverError
    <3> QED
      BY <3>1
  <2> QED
    BY <2>1 DEF ResultKept
<1>4. CASE Crash
  BY <1>4 DEF Crash, Restart, ResultKept
<1> QED
  BY <1>1, <1>2, <1>3, <1>4, TaskStepOK, TaskKeepsResult, UserKeepsResult
     DEF SchedulerNext, ClaimStep

\* A stored local result is not lost to a rerun of the attempt, in any chain:
\* no reclaim, late start or fallback of another task sets it back.
THEOREM LocalResultKept == SchedulerSpec => LocalResultSticks
<1>1. SchedulerSpec => [][ResultKept]_schedulerVars
  BY StepKeepsResult, SchedulerInvariance, PTL DEF SchedulerSpec
<1> QED
  BY <1>1 DEF LocalResultSticks, ResultKept

\* What OnlyOwnerSettles says of one step.
SettledByItsOwner ==
    \A j \in Jobs :
       row[j].live /\ row'[j].stage \in {"ready_for_review", "failed"}
       => \A w \in Workers : task'[w] # task[w] => w = row[j].owner

\* In the table a task that is not in a cloud chain settles the row it holds.
LEMMA EffectSettles ==
    ASSUME SInv, "cloud" \notin Modes, NEW w \in Workers, StepOK(w), NEW k \in Jobs,
           row[k].live, row'[k].stage \in {"ready_for_review", "failed"}
    PROVE  w = row[k].owner
<1> DEFINE j == JobOf(w)
<1>1. row[k] \in Row /\ row[k].stage \in Running
  BY DEF SInv, IInv, TypeOK, Sound
<1>2. row'[k] # row[k]
  BY <1>1 DEF Running
<1>3. task[w].pc # "finalize"
  BY DEF SInv, SchedulerTypeOK, Task, Coherent, CoherentAt, CloudPcs
<1>4. ASSUME j \in Jobs, NEW q, row' = [row EXCEPT ![j] = q] PROVE k = j /\ row'[k] = q
  BY <1>2, <1>4 DEF SInv, IInv, TypeOK
<1>5. CASE UNCHANGED queueVars
  BY <1>2, <1>5 DEF queueVars
<1>6. ASSUME j \in Jobs, NEW c, Advance(w, j, c) PROVE w = row[k].owner
  BY <1>4, <1>6 DEF Advance, Holds
<1>7. ASSUME j \in Jobs, NEW s, SetCloudStatus(w, j, s) PROVE w = row[k].owner
  BY <1>4, <1>7 DEF SetCloudStatus, Holds
<1>8. ASSUME j \in Jobs, FinalizeCancelledWithoutLease(j) PROVE FALSE
  <2> DEFINE p == Released(row[j], "cancelled")
             q == [p EXCEPT !.err = "cancelled"]
  <2>1. row' = [row EXCEPT ![j] = q]
    BY <1>8 DEF FinalizeCancelledWithoutLease
  <2>2. k = j /\ row'[k] = q
    BY <1>4, <1>8, <2>1
  <2>3. p \in Row /\ p.stage = "cancelled"
    BY <1>1, <2>2, ReleasedRow DEF Stages, Settled
  <2> HIDE DEF p
  <2>4. q.stage = "cancelled"
    BY <2>3 DEF Row
  <2> QED
    BY <2>2, <2>4
<1>9. ASSUME j \in Jobs, RecordDirectFallback(j) PROVE FALSE
  <2> DEFINE q == [row[j] EXCEPT !.cloud = "failed"]
  <2>1. k = j /\ row'[k] = q
    BY <1>4, <1>9 DEF RecordDirectFallback
  <2>2. q.stage = row[k].stage
    BY <1>1, <2>1 DEF Row
  <2> HIDE DEF q
  <2> QED
    BY <1>1, <2>1, <2>2 DEF Running
<1>10. ASSUME j \in Jobs, NEW children \in SUBSET Jobs, PersistBatch(w, j, children)
       PROVE  w = row[k].owner
  <2>1. k \in children => row[k].stage = "absent"
    BY Zenon, <1>10 DEF PersistBatch
  <2>2. k \notin children \cup {j} => row'[k] = row[k]
    BY Zenon, <1>10 DEF PersistBatch
  <2>3. row[j].owner = w
    BY Zenon, <1>10 DEF PersistBatch, MayPersist, Holds
  <2> QED
    BY <1>1, <1>2, <2>1, <2>2, <2>3 DEF Running
<1> QED
  BY <1>3, <1>5, <1>6, <1>7, <1>8, <1>9, <1>10 DEF StepOK, Effect

\* Only tasks, claims and a crash move tasks.
LEMMA OthersRest ==
    ASSUME SchedulerNext
    PROVE  \/ \E w \in Workers : TaskStep(w)
           \/ \E w \in Workers, j \in Jobs : ClaimJob(w, j) /\ author' = author
           \/ Crash /\ author' = author
           \/ task' = task /\ author' = author
<1>1. ASSUME NEW j \in Jobs, UserStep(j) \/ LeasePasses(j)
      PROVE  task' = task /\ author' = author
  BY <1>1 DEF UserStep, LeasePasses, Import, PressCancel, CancelStatement, CancelError,
              PressRetry, RetryStatement, draftVars
<1>2. StartUp => task' = task /\ author' = author
  BY Zenon DEF StartUp, draftVars
<1>3. ASSUME NEW w \in Workers, NEW j \in Jobs, ClaimJob(w, j) PROVE author' = author
  BY <1>3 DEF ClaimJob, draftVars
<1>4. Crash => author' = author
  BY DEF Crash, draftVars
<1> QED
  BY <1>1, <1>2, <1>3, <1>4 DEF SchedulerNext, ClaimStep

LEMMA StepSettles ==
    ASSUME "cloud" \notin Modes
    PROVE  SInv /\ [SchedulerNext]_schedulerVars => [SettledByItsOwner]_schedulerVars
<1> SUFFICES ASSUME SInv, SchedulerNext, NEW j \in Jobs, row[j].live,
                    row'[j].stage \in {"ready_for_review", "failed"},
                    NEW v \in Workers, task'[v] # task[v]
             PROVE  v = row[j].owner
  BY DEF SettledByItsOwner
<1>1. row[j].stage \in Running
  BY DEF SInv, IInv, TypeOK, Sound
<1>2. ASSUME NEW w \in Workers, TaskStep(w) PROVE v = row[j].owner
  <2>1. StepOK(w)
    BY <1>2, TaskStepOK
  <2>2. v = w
    BY <2>1 DEF StepOK, Own, SInv, SchedulerTypeOK
  <2> QED
    BY <2>1, <2>2, EffectSettles
<1>3. ASSUME NEW w \in Workers, NEW k \in Jobs, ClaimJob(w, k) PROVE FALSE
  <2> DEFINE q == [row[k] EXCEPT !.stage = "running", !.owner = w, !.live = TRUE,
                                 !.local = IF row[k].stage = "running"
                                           THEN row[k].local ELSE "running"]
  <2>1. row' = [row EXCEPT ![k] = q]
    BY <1>3 DEF ClaimJob, Claim
  <2>2. q.stage = "running"
    BY DEF SInv, IInv, TypeOK, Row
  <2> HIDE DEF q
  <2>3. row'[j] = row[j] \/ row'[j] = q
    BY <2>1 DEF SInv, IInv, TypeOK
  <2> QED
    BY <1>1, <2>2, <2>3 DEF Running
<1>4. CASE Crash
  BY <1>1, <1>4 DEF Crash, Restart, Running
<1> QED
  BY <1>2, <1>3, <1>4, OthersRest

\* "The late result of an expired worker must not be committed": in local and
\* direct chains, for any number of claims that outlive their lease.
THEOREM SettledByOwner ==
    ASSUME "cloud" \notin Modes
    PROVE  SchedulerSpec => OnlyOwnerSettles
<1>1. SchedulerSpec => [][SettledByItsOwner]_schedulerVars
  BY StepSettles, SchedulerInvariance, PTL DEF SchedulerSpec
<1> QED
  BY <1>1 DEF OnlyOwnerSettles, SettledByItsOwner

\* What OnlyOwnerWritesDraft says of one step.
WrittenByItsOwner ==
    \A j \in Jobs :
       author'[j] # author[j]
       => \/ row[j].stage = "absent"
          \/ row[j].stage \in Running /\ row[j].owner = author'[j]

LEMMA StepWrites ==
    ASSUME "cloud" \notin Modes
    PROVE  SInv /\ [SchedulerNext]_schedulerVars => [WrittenByItsOwner]_schedulerVars
<1> SUFFICES ASSUME SInv, SchedulerNext PROVE WrittenByItsOwner
  OBVIOUS
<1>1. ASSUME NEW w \in Workers, TaskStep(w) PROVE WrittenByItsOwner
  <2>1. StepOK(w)
    BY <1>1, TaskStepOK
  <2>2. task[w].mode # "cloud"
    BY DEF SInv, SchedulerTypeOK, Task
  <2>3. \/ author' = author
        \/ /\ MayPersist(w, JobOf(w))
           /\ \A k \in Jobs : author'[k] # author[k]
                 => author'[k] = w /\ (k = JobOf(w) \/ row[k].stage = "absent")
    BY <2>1, <2>2 DEF StepOK, Drafts
  <2> QED
    BY <2>3 DEF WrittenByItsOwner, MayPersist, Holds
<1>2. CASE author' = author
  BY <1>2 DEF WrittenByItsOwner
<1> QED
  BY <1>1, <1>2, OthersRest

\* In the same chains a task whose lease passed writes no model output.
THEOREM WrittenByOwner ==
    ASSUME "cloud" \notin Modes
    PROVE  SchedulerSpec => OnlyOwnerWritesDraft
<1>1. SchedulerSpec => [][WrittenByItsOwner]_schedulerVars
  BY StepWrites, SchedulerInvariance, PTL DEF SchedulerSpec
<1> QED
  BY <1>1 DEF OnlyOwnerWritesDraft, WrittenByItsOwner
=============================================================================
