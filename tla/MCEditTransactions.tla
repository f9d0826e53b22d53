-------------------------- MODULE MCEditTransactions --------------------------
(* Instances of EditTransactions for TLC: a task group with one slot, or a slot *)
(* alone, and the category of the exam.                                        *)
EXTENDS EditTransactions, TLC

GroupAndSlot == "group" :> {"group", "slot"} @@ "slot" :> {"slot"} @@ "exam" :> {"exam"}

SlotAlone == "slot" :> {"slot"} @@ "exam" :> {"exam"}

\* A model's answer is the same value everywhere.
UniformDocuments == {[t \in Targets |-> v] : v \in Values \ {Empty}}

NoOldMarks == {{}}

RunSymmetry == Permutations(Runs)
ValueSymmetry == Permutations(Runs) \cup Permutations(Values \ {Empty})
===============================================================================
