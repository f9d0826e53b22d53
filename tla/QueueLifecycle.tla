---------------------------- MODULE QueueLifecycle ----------------------------
(***************************************************************************)
(* The job table seen as the life of its jobs: the refinement mapping from *)
(* ProcessingQueue to JobLifecycle.                                        *)
(***************************************************************************)
EXTENDS ProcessingQueue

PhaseOf(stage) == CASE stage = "absent" -> "absent"
                    [] stage = "queued" -> "waiting"
                    [] stage \in Running -> "working"
                    [] stage = "ready_for_review" -> "ready"
                    [] stage = "failed" -> "failed"
                    [] stage = "cancelled" -> "cancelled"

phaseOfJob  == [j \in Jobs |-> PhaseOf(row[j].stage)]
holderOfJob == [j \in Jobs |-> row[j].owner]
wishOfJob   == [j \in Jobs |-> row[j].cancel]

Lifecycle == INSTANCE JobLifecycle
               WITH Holders <- Workers, Nobody <- None,
                    phase  <- phaseOfJob,
                    holder <- holderOfJob,
                    wish   <- wishOfJob,
                    former <- spent

\* The table implements the job lifecycle: every statement of the queue,
\* in whatever order callers issue them, is one step of it or none.
ImplementsLifecycle == Lifecycle!Spec
=============================================================================
