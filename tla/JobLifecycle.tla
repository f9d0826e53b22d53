---------------------------- MODULE JobLifecycle ----------------------------
(***************************************************************************)
(* What the processing queue promises to the rest of the program, without  *)
(* its columns: a job waits, is worked on by one holder at a time, and     *)
(* ends; only the user starts an ended job again; a wish to cancel is      *)
(* kept until the job ends cancelled; a holder is replaced only by one     *)
(* that never held a job before, and never after a wish to cancel.         *)
(***************************************************************************)
CONSTANTS Jobs, Holders, Nobody

VARIABLES
    phase,   \* where the job is
    holder,  \* who works on it
    wish,    \* the user asked to cancel it
    former   \* everybody who has held a job

vars == <<phase, holder, wish, former>>

Ended == {"ready", "failed", "cancelled"}

Init == /\ phase = [j \in Jobs |-> "absent"]
        /\ holder = [j \in Jobs |-> Nobody]
        /\ wish = [j \in Jobs |-> FALSE]
        /\ former = {}

\* phase p, holder h and wish x for the jobs of S, the others as they were
Set(f, S, v) == [j \in Jobs |-> IF j \in S THEN v ELSE f[j]]

Submit(j) == /\ phase[j] = "absent"
             /\ phase' = Set(phase, {j}, "waiting")
             /\ UNCHANGED <<holder, wish, former>>

Take(j, h) == /\ h \notin former
              /\ \/ phase[j] = "waiting"
                 \/ phase[j] = "working" /\ ~wish[j]
              /\ former' = former \cup {h}
              /\ holder' = Set(holder, {j}, h)
              /\ phase' = Set(phase, {j}, "working")
              /\ UNCHANGED wish

\* The work ends; a good end may deliver further jobs already done.
End(j, outcome, delivered) ==
    /\ phase[j] = "working"
    /\ wish[j] => outcome = "cancelled"
    /\ \A k \in delivered : phase[k] = "absent"
    /\ holder' = Set(holder, {j}, Nobody)
    /\ phase' = Set(Set(phase, delivered, "ready"), {j}, outcome)
    /\ UNCHANGED <<wish, former>>

Cancel(j) == /\ phase[j] = "waiting"
             /\ phase' = Set(phase, {j}, "cancelled")
             /\ wish' = Set(wish, {j}, TRUE)
             /\ UNCHANGED <<holder, former>>

AskCancel(j) == /\ phase[j] = "working"
                /\ wish' = Set(wish, {j}, TRUE)
                /\ UNCHANGED <<phase, holder, former>>

Again(j) == /\ phase[j] \in Ended
            /\ phase' = Set(phase, {j}, "waiting")
            /\ wish' = Set(wish, {j}, FALSE)
            /\ UNCHANGED <<holder, former>>

\* A restart withdraws, requeues or gives up any set of interrupted jobs.
Interrupt(S, p) ==
    /\ \A j \in S : /\ phase[j] = "working"
                    /\ p = "cancelled" => wish[j]
    /\ holder' = Set(holder, S, Nobody)
    /\ phase' = Set(phase, S, p)
    /\ UNCHANGED <<wish, former>>

Next == \/ \E j \in Jobs : \/ Submit(j)
                           \/ \E h \in Holders : Take(j, h)
                           \/ \E o \in Ended : End(j, o, {})
                           \/ \E D \in (SUBSET Jobs) \ {{}} : End(j, "ready", D)
                           \/ Cancel(j)
                           \/ AskCancel(j)
                           \/ Again(j)
        \/ \E S \in (SUBSET Jobs) \ {{}}, p \in {"waiting", "ready", "cancelled"} :
              Interrupt(S, p)

Spec == Init /\ [][Next]_vars
=============================================================================
