------------------------- MODULE FinalVersion_proofs -------------------------
(* Proofs about FinalVersion, for any items and any bounds.                   *)
(*                                                                            *)
(* The invariant says, for each stage of a publication, what the steps before *)
(* it have established and what no other writer can have taken away since.    *)
EXTENDS FinalVersion, TLAPS

Stages == {"idle", "gate", "status", "record", "freeze", "purge", "mark"}
Snapshots == [Item -> [version : Versions, lacks : BOOLEAN]]
Publications ==
    [pc : Stages, forced : BOOLEAN, items : SUBSET Item, todo : SUBSET Item,
     snap : Snapshots, out : SUBSET Item, overridden : SUBSET Item,
     closed : SUBSET Item, drift : SUBSET Item, cur : SUBSET Item]

PubTypes ==
    /\ pub \in Publications
    /\ pub.out \subseteq pub.items /\ pub.todo \subseteq pub.items

Types ==
    /\ FinalTypeOK
    /\ PubTypes
    /\ writes \in 0 .. MaxWrites
    /\ \A i \in Item : draft[i].version <= writes + 1

\* Which items the passes treat: one at a time, and only published ones.
Passes ==
    /\ ~At("gate") => pub.todo \subseteq pub.out
    /\ pub.cur \subseteq pub.out
    /\ pub.drift \subseteq pub.out
    /\ ~At("status") /\ ~At("record") => pub.drift = {}
    /\ \A i, j \in pub.cur : i = j

Claims(i) == status[i] \in {"published", "forced"}

\* What the gate lets out with a gap was forced.
GateForces ==
    At("gate") => \A i \in pub.out \ unmarked : pub.snap[i].lacks => i \in pub.overridden

\* Between commit and status students get the snapshot.
SnapshotIsLive ==
    At("status") =>
      \A i \in pub.out \ pub.closed : visible[i].version = pub.snap[i].version

\* What a publication has confirmed is so until it ends, or is written again.
ConfirmedStands ==
    At("status") \/ At("record") =>
      \A i \in pub.out \ pub.drift :
        /\ Claims(i)
        /\ At("status") => i \notin pub.todo
        => visible[i].version = draft[i].version

Recorded(i) ==
    /\ record[i].version = pub.snap[i].version
    /\ record[i].status = IF i \in pub.drift THEN "drift" ELSE Conclusion(i)

Deleting == At("freeze") \/ At("purge") \/ At("mark")

RecordsWritten ==
    /\ At("record") => \A i \in pub.out \ pub.todo : Recorded(i)
    /\ Deleting => pub.drift = {} /\ \A i \in pub.out : Recorded(i)

\* What is about to be deleted is frozen.
EvidenceFrozen ==
    At("purge") \/ At("mark") =>
      \A i \in pub.cur : /\ final[i].version = pub.snap[i].version
                         /\ i \notin unmarked => final[i].declared

Inv ==
    /\ Types /\ Passes /\ GateForces /\ SnapshotIsLive /\ ConfirmedStands
    /\ RecordsWritten /\ EvidenceFrozen
    /\ EvidenceKept /\ GapsAreForced /\ StatusTells

USE BoundsAssumption DEF ghosts

-------------------------------------------------------------------------------
(* Types: the publication.                                                    *)

LEMMA LockPub ==
    ASSUME Types, Lock, At("idle")
    PROVE  /\ PubTypes'
           /\ pub'.pc = "gate" /\ pub'.out = {} /\ pub'.cur = {} /\ pub'.drift = {}
<1>1. PICK w \in waiting :
         pub' = [Idle EXCEPT !.pc = "gate", !.forced = w.forced,
                   !.items = w.items, !.todo = w.items, !.snap = w.snap]
  BY DEF Lock
<1>2. pub' = [pc |-> "gate", forced |-> w.forced, items |-> w.items,
              todo |-> w.items, snap |-> w.snap, out |-> {}, overridden |-> {},
              closed |-> {}, drift |-> {}, cur |-> {}]
  BY <1>1 DEF Idle
<1>3. w.items \in SUBSET Item /\ w.forced \in BOOLEAN /\ w.snap \in Snapshots
  BY DEF Types, FinalTypeOK, Snapshots
<1> QED
  BY <1>2, <1>3 DEF PubTypes, Publications, Stages

LEMMA IdlePub ==
    ASSUME Types, pub' = Idle
    PROVE  PubTypes' /\ pub'.pc = "idle" /\ pub'.out = {} /\ pub'.todo = {} /\ pub'.cur = {}
           /\ pub'.drift = {}
BY DEF Types, PubTypes, Idle, Publications, Snapshots, Stages, Versions

LEMMA GatePub ==
    ASSUME PubTypes, Gate
    PROVE  /\ PubTypes'
           /\ pub'.pc = "gate" /\ pub'.cur = pub.cur /\ pub'.snap = pub.snap
           /\ pub'.drift = pub.drift
           /\ pub.out \subseteq pub'.out
           /\ pub.overridden \subseteq pub'.overridden
           /\ \A i \in pub'.out \ pub.out : Blocked(i) => i \in pub'.overridden
<1>1. PICK i \in pub.todo :
         \/ /\ Blocked(i) /\ ~pub.forced
            /\ pub' = [pub EXCEPT !.todo = @ \ {i}]
         \/ \E loadable \in {TRUE, ~pub.forced} :
              /\ Blocked(i) => pub.forced
              /\ pub' = [pub EXCEPT !.todo = @ \ {i}, !.out = @ \cup {i},
                     !.overridden = IF Blocked(i) THEN @ \cup {i} ELSE @,
                     !.closed = IF loadable THEN @ ELSE @ \cup {i}]
  BY DEF Gate
<1>2. At("gate")
  BY DEF Gate
<1>3. CASE pub' = [pub EXCEPT !.todo = @ \ {i}]
  BY <1>2, <1>3 DEF At, PubTypes, Publications
<1>4. ASSUME NEW loadable \in {TRUE, ~pub.forced}, Blocked(i) => pub.forced,
             pub' = [pub EXCEPT !.todo = @ \ {i}, !.out = @ \cup {i},
                     !.overridden = IF Blocked(i) THEN @ \cup {i} ELSE @,
                     !.closed = IF loadable THEN @ ELSE @ \cup {i}]
      PROVE  /\ PubTypes'
             /\ pub'.pc = "gate" /\ pub'.cur = pub.cur /\ pub'.snap = pub.snap
           /\ pub'.drift = pub.drift
             /\ pub.out \subseteq pub'.out
             /\ pub.overridden \subseteq pub'.overridden
             /\ \A j \in pub'.out \ pub.out : Blocked(j) => j \in pub'.overridden
  <2> DEFINE O == IF Blocked(i) THEN pub.overridden \cup {i} ELSE pub.overridden
             C == IF loadable THEN pub.closed ELSE pub.closed \cup {i}
  <2>1. /\ O \in SUBSET Item /\ C \in SUBSET Item /\ pub.overridden \subseteq O
        /\ Blocked(i) => i \in O
    BY DEF PubTypes, Publications
  <2>2. pub' = [pub EXCEPT !.todo = pub.todo \ {i}, !.out = pub.out \cup {i},
                  !.overridden = O, !.closed = C]
    BY <1>4
  <2> HIDE DEF O, C
  <2> QED
    BY <1>2, <2>1, <2>2 DEF At, PubTypes, Publications
<1> QED
  BY <1>1, <1>3, <1>4

\* The other steps set these fields; the rest stands.
Rest == /\ pub'.snap = pub.snap /\ pub'.out = pub.out /\ pub'.drift = pub.drift
        /\ pub'.closed = pub.closed /\ pub'.overridden = pub.overridden

LEMMA SameConclusion == Rest => \A i : Conclusion(i)' = Conclusion(i)
BY DEF Rest, Conclusion

-------------------------------------------------------------------------------
(* The other writers, and the ends of a publication.                          *)

LEMMA WriterInv ==
    ASSUME Inv, Types', pub' = pub, record' = record, final' = final,
           visible' = visible, unmarked' = unmarked, unrecorded' = unrecorded,
           \A i \in Item : files[i].shadow => files'[i].shadow,
           \A i \in Item : \/ draft'[i] = draft[i] /\ status'[i] = status[i]
                          \/ status'[i] = "ready"
    PROVE  Inv'
<1>1. Passes' /\ GateForces' /\ SnapshotIsLive' /\ EvidenceFrozen'
  BY DEF Inv, Passes, GateForces, SnapshotIsLive, EvidenceFrozen, At
<1>5. ConfirmedStands'
  <2>1. pub.out \subseteq Item
    BY DEF Inv, Types, PubTypes, Publications
  <2> QED
    BY <2>1 DEF Inv, ConfirmedStands, Claims, At
<1>2. RecordsWritten'
  BY DEF Inv, RecordsWritten, Deleting, Recorded, Conclusion, At
<1>3. StatusTells'
  BY DEF Inv, StatusTells, At
<1>4. EvidenceKept' /\ GapsAreForced'
  BY DEF Inv, EvidenceKept, GapsAreForced, Declared, Frozen, At
<1> QED
  BY <1>1, <1>2, <1>3, <1>4, <1>5 DEF Inv

LEMMA EndInv ==
    ASSUME Inv, Types', pub' = Idle, UNCHANGED store, files' = files,
           visible' = visible, unmarked' = unmarked \cup Unmarked,
           unrecorded' = unrecorded \cup Unrecorded
    PROVE  Inv'
<1> USE DEF store
<1>1. /\ Types /\ pub'.pc = "idle" /\ pub'.out = {} /\ pub'.todo = {} /\ pub'.cur = {}
      /\ pub'.drift = {}
  BY IdlePub DEF Inv
<1>2. Passes' /\ GateForces' /\ SnapshotIsLive' /\ ConfirmedStands' /\ EvidenceFrozen'
      /\ RecordsWritten'
  BY <1>1 DEF Passes, GateForces, SnapshotIsLive, ConfirmedStands, Claims, EvidenceFrozen,
              RecordsWritten, Deleting, At
<1>3. GapsAreForced'
  BY DEF Inv, GapsAreForced
<1>5. StatusTells'
  <2> SUFFICES ASSUME NEW i \in Item, i \notin unrecorded, i \notin Unrecorded,
                      status[i] \in {"published", "forced"},
                      visible[i].version # draft[i].version
               PROVE  record[i].status = "drift"
    BY DEF StatusTells
  <2>1. \/ record[i].status = "drift"
        \/ i \in pub.drift \/ (At("status") /\ i \in pub.todo)
    BY DEF Inv, StatusTells
  <2>2. ~At("status") \/ i \notin pub.out
    BY DEF Unrecorded
  <2>3. At("status") => i \notin pub.todo /\ i \notin pub.drift
    BY <2>2 DEF Inv, Passes, At
  <2>4. i \in pub.drift => At("record") /\ i \in pub.out \ pub.todo
    BY <2>3 DEF Inv, Passes, Unrecorded, At
  <2>5. i \in pub.drift => record[i].status = "drift"
    BY <2>4 DEF Inv, RecordsWritten, Recorded
  <2> QED
    BY <2>1, <2>3, <2>5
<1>4. EvidenceKept'
  <2> SUFFICES ASSUME NEW i \in Item, i \notin unmarked, i \notin Unmarked
               PROVE  Declared(i)
    BY DEF EvidenceKept, Declared, Frozen
  <2>1. At("mark") /\ i \in pub.cur => Declared(i)
    BY DEF Inv, EvidenceFrozen, Unmarked, Declared, Frozen
  <2> QED
    BY <2>1 DEF Inv, EvidenceKept
<1> QED
  BY <1>2, <1>3, <1>4, <1>5 DEF Inv

-------------------------------------------------------------------------------
(* The steps of a publication.                                                *)

LEMMA LockInv == ASSUME Inv, Lock PROVE Inv'
<1>1. UNCHANGED <<store, files, visible, retry, writes, ghosts>>
  BY DEF Lock
<1>2. waiting' \subseteq waiting
  BY DEF Lock
<1>3. CASE ~At("idle")
  <2>1. pub' = pub
    BY <1>3 DEF Lock
  <2>2. Types'
    BY <1>1, <1>2, <2>1 DEF Inv, Types, FinalTypeOK, PubTypes, store, Publications,
                            Snapshots
  <2> QED
    BY <1>1, <2>1, <2>2, WriterInv DEF store
<1>4. CASE At("idle")
  <2>1. /\ PubTypes' /\ pub'.pc = "gate" /\ pub'.out = {} /\ pub'.cur = {}
        /\ pub'.drift = {}
    BY <1>4, LockPub DEF Inv
  <2>2. Types'
    BY <1>1, <1>2, <2>1 DEF Inv, Types, FinalTypeOK, PubTypes, store, Publications,
                            Snapshots
  <2>3. Passes' /\ GateForces' /\ SnapshotIsLive' /\ ConfirmedStands' /\ RecordsWritten'
        /\ EvidenceFrozen'
    BY <2>1 DEF Passes, GateForces, SnapshotIsLive, ConfirmedStands, Claims,
                RecordsWritten, EvidenceFrozen, Deleting, At
  <2>4. EvidenceKept' /\ GapsAreForced' /\ StatusTells'
    BY <1>1, <1>4, <2>1 DEF Inv, Passes, EvidenceKept, GapsAreForced, StatusTells, Declared,
                        Frozen, At, store
  <2> QED
    BY <2>2, <2>3, <2>4 DEF Inv
<1> QED
  BY <1>3, <1>4

\* A snapshot disturbs nothing.
LEMMA SnapshotInv == ASSUME Inv, Snapshot PROVE Inv'
<1>1. UNCHANGED <<store, files, visible, retry, pub, writes, ghosts>>
  BY DEF Snapshot
<1>2. draft \in Snapshots
  BY DEF Inv, Types, FinalTypeOK, Snapshots
<1>3. \A w \in waiting' : /\ w.items \subseteq Item /\ w.forced \in BOOLEAN
                          /\ w.snap \in Snapshots
  <2>1. \A w \in waiting : /\ w.items \subseteq Item /\ w.forced \in BOOLEAN
                           /\ w.snap \in Snapshots
    BY DEF Inv, Types, FinalTypeOK, Snapshots
  <2>2. PICK S \in SUBSET Item \ {{}}, forced \in BOOLEAN :
           waiting' = waiting \cup {[items |-> S, forced |-> forced, snap |-> draft]}
    BY DEF Snapshot
  <2> QED
    BY <1>2, <2>1, <2>2
<1>4. Types'
  BY <1>1, <1>3 DEF Inv, Types, FinalTypeOK, PubTypes, store, Publications, Snapshots
<1> QED
  BY <1>1, <1>4, WriterInv DEF store

LEMMA GateInv == ASSUME Inv, Gate PROVE Inv'
<1>1. /\ PubTypes' /\ At("gate") /\ pub'.pc = "gate" /\ pub'.cur = pub.cur
      /\ pub'.drift = pub.drift /\ pub'.snap = pub.snap /\ pub.out \subseteq pub'.out
      /\ pub.overridden \subseteq pub'.overridden
      /\ \A i \in pub'.out \ pub.out : Blocked(i) => i \in pub'.overridden
      /\ UNCHANGED <<store, files, visible, retry, waiting, writes, ghosts>>
  <2>1. At("gate") /\ UNCHANGED <<store, files, visible, retry, waiting, writes, ghosts>>
    BY DEF Gate
  <2>2. PubTypes
    BY DEF Inv, Types
  <2> QED
    BY <2>1, <2>2, GatePub
<1>2. Types'
  BY <1>1 DEF Inv, Types, FinalTypeOK, PubTypes, store, Publications, Snapshots
<1>3. Passes' /\ SnapshotIsLive' /\ ConfirmedStands' /\ RecordsWritten' /\ EvidenceFrozen'
  BY <1>1 DEF Inv, Passes, SnapshotIsLive, ConfirmedStands, Claims, RecordsWritten,
              EvidenceFrozen, Deleting, At, store
<1>4. EvidenceKept' /\ GapsAreForced' /\ StatusTells'
  BY <1>1 DEF Inv, EvidenceKept, GapsAreForced, StatusTells, Declared, Frozen, At, Rest,
                    store
<1>5. GateForces'
  <2> SUFFICES ASSUME NEW i \in pub'.out, i \notin unmarked, pub.snap[i].lacks
               PROVE  i \in pub'.overridden
    BY <1>1 DEF GateForces
  <2>1. i \in Item
    BY <1>1 DEF PubTypes, Publications
  <2>2. Declared(i)
    BY <1>1, <2>1 DEF Inv, EvidenceKept, At
  <2>3. Blocked(i)
    BY <2>2 DEF Blocked
  <2> QED
    BY <1>1, <2>3 DEF Inv, GateForces
<1> QED
  BY <1>2, <1>3, <1>4, <1>5 DEF Inv

LEMMA CommitInv == ASSUME Inv, Commit PROVE Inv'
<1>1. /\ At("gate") /\ pub' = [pub EXCEPT !.pc = "status", !.todo = pub.out]
      /\ UNCHANGED <<store, files, retry, waiting, writes, ghosts>>
      /\ visible' = [i \in Item |-> IF i \in pub.out \ pub.closed
                      THEN [version |-> pub.snap[i].version,
                            lacks |-> pub.snap[i].lacks,
                            forced |-> i \in pub.overridden]
                      ELSE visible[i]]
  BY DEF Commit
<1>2. Types
  BY DEF Inv
<1>3. /\ PubTypes' /\ pub'.pc = "status" /\ pub'.todo = pub.out /\ pub'.cur = pub.cur
      /\ pub'.snap = pub.snap /\ pub'.out = pub.out /\ pub'.closed = pub.closed
      /\ pub'.drift = pub.drift
  BY <1>1, <1>2 DEF Types, PubTypes, Publications, Stages
<1>4. Types'
  <2>1. visible' \in [Item -> [version : Versions, lacks : BOOLEAN, forced : BOOLEAN]]
    BY <1>1, <1>2 DEF Types, FinalTypeOK, Snapshots
  <2> QED
    BY <1>1, <1>2, <1>3, <2>1 DEF Types, FinalTypeOK, PubTypes, store, Publications,
                                  Snapshots
<1>5. SnapshotIsLive' /\ ConfirmedStands'
  BY <1>1, <1>3 DEF SnapshotIsLive, ConfirmedStands, PubTypes, Publications, At
<1>6. Passes' /\ GateForces' /\ RecordsWritten' /\ EvidenceFrozen'
  BY <1>1, <1>3 DEF Inv, Passes, GateForces, RecordsWritten, EvidenceFrozen,
                    Deleting, At
<1>7. EvidenceKept'
  BY <1>1, <1>3 DEF Inv, EvidenceKept, Declared, Frozen, At, store
<1>8. GapsAreForced'
  BY <1>1 DEF Inv, GapsAreForced, GateForces
<1>9. StatusTells'
  <2>1. \A i \in Item : \/ visible'[i] = visible[i]
                         \/ i \in pub'.todo
    BY <1>1, <1>3
  <2> QED
    BY <1>1, <1>3, <2>1 DEF Inv, StatusTells, At, store
<1> QED
  BY <1>4, <1>5, <1>6, <1>7, <1>8, <1>9 DEF Inv

LEMMA ConfirmStatusInv == ASSUME Inv, ConfirmStatus PROVE Inv'
<1>1. PICK i \in pub.todo :
         \/ /\ pub' = [pub EXCEPT !.todo = @ \ {i}]
            /\ draft[i].version = pub.snap[i].version
            /\ status' = [status EXCEPT ![i] = Conclusion(i)]
         \/ /\ pub' = [pub EXCEPT !.todo = @ \ {i}, !.drift = @ \cup {i}]
            /\ UNCHANGED status
  BY DEF ConfirmStatus
<1>2. /\ At("status")
      /\ UNCHANGED <<draft, record, final, files, visible, retry, waiting, writes, ghosts>>
  BY DEF ConfirmStatus
<1>3. Types
  BY DEF Inv
<1>4. i \in pub.out /\ i \in Item /\ PubTypes
  BY <1>1, <1>2, <1>3 DEF Inv, Passes, At, Types, PubTypes, Publications
<1>5. /\ PubTypes' /\ pub'.pc = "status" /\ pub'.todo = pub.todo \ {i}
      /\ pub'.cur = pub.cur /\ pub'.snap = pub.snap /\ pub'.out = pub.out
      /\ pub'.closed = pub.closed /\ pub.drift \subseteq pub'.drift
      /\ pub'.drift \subseteq pub.drift \cup {i}
      /\ \/ i \in pub'.drift /\ UNCHANGED status
         \/ /\ draft[i].version = pub.snap[i].version
            /\ status' = [status EXCEPT ![i] = Conclusion(i)]
  <2>1. CASE /\ pub' = [pub EXCEPT !.todo = @ \ {i}]
             /\ draft[i].version = pub.snap[i].version
             /\ status' = [status EXCEPT ![i] = Conclusion(i)]
    BY <1>2, <1>4, <2>1 DEF PubTypes, Publications, At
  <2>2. CASE /\ pub' = [pub EXCEPT !.todo = @ \ {i}, !.drift = @ \cup {i}]
             /\ UNCHANGED status
    BY <1>2, <1>4, <2>2 DEF PubTypes, Publications, At
  <2> QED
    BY <1>1, <2>1, <2>2
<1>6. Conclusion(i) \in Conclusions
  BY DEF Conclusion, Conclusions
<1>7. Types'
  <2>1. status' \in [Item -> {"ready"} \cup Conclusions]
    BY <1>1, <1>3, <1>6 DEF Types, FinalTypeOK
  <2> QED
    BY <1>2, <1>3, <1>5, <2>1 DEF Types, FinalTypeOK, PubTypes, Publications, Snapshots
<1>8. Passes' /\ GateForces' /\ SnapshotIsLive' /\ RecordsWritten' /\ EvidenceFrozen'
  BY <1>2, <1>4, <1>5 DEF Inv, Passes, GateForces, SnapshotIsLive,
                    RecordsWritten, EvidenceFrozen, Deleting, At
<1>9. EvidenceKept' /\ GapsAreForced'
  BY <1>2, <1>5 DEF Inv, EvidenceKept, GapsAreForced, Declared, Frozen, At
<1>10. i \in pub'.drift \/ (Claims(i)' => visible[i].version = draft[i].version)
  <2> SUFFICES ASSUME i \notin pub'.drift, Claims(i)'
               PROVE  visible[i].version = draft[i].version
    OBVIOUS
  <2>1. draft[i].version = pub.snap[i].version /\ status'[i] = Conclusion(i)
    BY <1>3, <1>4, <1>5 DEF Types, FinalTypeOK
  <2>2. i \notin pub.closed
    BY <2>1 DEF Claims, Conclusion
  <2> QED
    BY <1>2, <1>4, <2>1, <2>2 DEF Inv, SnapshotIsLive
<1>11. \A j \in Item : j # i => (Claims(j)' <=> Claims(j))
  BY <1>3, <1>5 DEF Claims, Types, FinalTypeOK
<1>12. StatusTells'
  BY <1>2, <1>5, <1>10, <1>11 DEF Inv, StatusTells, Claims, At
<1>13. ConfirmedStands'
  <2>1. pub.out \subseteq Item
    BY <1>4 DEF PubTypes, Publications
  <2> QED
    BY <1>2, <1>5, <1>10, <1>11, <2>1 DEF Inv, ConfirmedStands, At
<1> QED
  BY <1>7, <1>8, <1>9, <1>12, <1>13 DEF Inv

LEMMA StatusDoneInv == ASSUME Inv, StatusDone PROVE Inv'
<1>1. /\ At("status") /\ pub.todo = {}
      /\ UNCHANGED <<store, files, visible, retry, waiting, writes, ghosts>>
  BY DEF StatusDone
<1>2. /\ PubTypes' /\ pub'.pc = "record" /\ pub'.todo = pub.out /\ pub'.cur = pub.cur
      /\ Rest
  BY DEF StatusDone, Inv, Types, PubTypes, Publications, Stages, Rest
<1>3. Types'
  BY <1>1, <1>2 DEF Inv, Types, FinalTypeOK, PubTypes, store, Publications, Snapshots
<1>4. Passes' /\ GateForces' /\ SnapshotIsLive' /\ RecordsWritten' /\ EvidenceFrozen'
  BY <1>1, <1>2 DEF Inv, Passes, GateForces, SnapshotIsLive,
                    RecordsWritten, EvidenceFrozen, Deleting, At, Rest
<1>6. ConfirmedStands'
  BY <1>1, <1>2 DEF Inv, ConfirmedStands, Claims, At, Rest, store
<1>5. EvidenceKept' /\ GapsAreForced' /\ StatusTells'
  BY <1>1, <1>2 DEF Inv, EvidenceKept, GapsAreForced, StatusTells, Declared, Frozen, At,
                    Rest,
                    store
<1> QED
  BY <1>3, <1>4, <1>5, <1>6 DEF Inv

LEMMA WriteRecordInv == ASSUME Inv, WriteRecord PROVE Inv'
<1>1. PICK i \in pub.todo :
         /\ record' = [record EXCEPT ![i] =
                [version |-> pub.snap[i].version,
                 status |-> IF i \in pub.drift THEN "drift" ELSE Conclusion(i)]]
         /\ pub' = [pub EXCEPT !.todo = @ \ {i}]
  BY DEF WriteRecord
<1>2. /\ At("record")
      /\ UNCHANGED <<draft, status, final, files, visible, retry, waiting, writes, ghosts>>
  BY DEF WriteRecord
<1>3. Types /\ PubTypes /\ i \in Item
  BY <1>1 DEF Inv, Types, PubTypes, Publications
<1>4. /\ PubTypes' /\ pub'.pc = "record" /\ pub'.todo = pub.todo \ {i}
      /\ pub'.cur = pub.cur /\ Rest
  BY <1>1, <1>2, <1>3 DEF PubTypes, Publications, Rest, At
<1>5. Conclusion(i) \in Conclusions
  BY DEF Conclusion, Conclusions
<1>6. Types'
  <2>1. record' \in [Item -> [version : Versions,
                              status : {"none", "drift"} \cup Conclusions]]
    BY <1>1, <1>3, <1>5 DEF Types, FinalTypeOK, PubTypes, Publications, Snapshots
  <2> QED
    BY <1>2, <1>3, <1>4, <2>1 DEF Types, FinalTypeOK, PubTypes, Publications, Snapshots
<1>7. RecordsWritten'
  <2>1. \A j \in Item : Recorded(j) => Recorded(j)'
    BY <1>1, <1>3, <1>4, SameConclusion DEF Recorded, Rest, Types, FinalTypeOK
  <2>2. Recorded(i)'
    BY <1>1, <1>3, <1>4, SameConclusion DEF Recorded, Rest, Types, FinalTypeOK
  <2>3. pub.out \subseteq Item
    BY <1>3 DEF PubTypes, Publications
  <2> QED
    BY <1>2, <1>4, <2>1, <2>2, <2>3 DEF Inv, RecordsWritten, Deleting, At, Rest
<1>8. Passes' /\ GateForces' /\ SnapshotIsLive' /\ ConfirmedStands' /\ EvidenceFrozen'
  BY <1>2, <1>4 DEF Inv, Passes, GateForces, SnapshotIsLive, ConfirmedStands, Claims,
                    EvidenceFrozen, At, Rest
<1>9. EvidenceKept' /\ GapsAreForced'
  BY <1>2, <1>4 DEF Inv, EvidenceKept, GapsAreForced, Declared, Frozen, At
<1>10. StatusTells'
  <2>1. \A j \in Item : j # i => record'[j] = record[j]
    BY <1>1, <1>3 DEF Types, FinalTypeOK
  <2>2. i \in pub.out /\ pub'.drift = pub.drift
    BY <1>1, <1>2, <1>4 DEF Inv, Passes, At, Rest
  <2>3. i \in pub.drift \/ (Claims(i) => visible[i].version = draft[i].version)
    BY <1>2, <2>2 DEF Inv, ConfirmedStands, Claims, At
  <2> QED
    BY <1>2, <1>4, <2>1, <2>2, <2>3 DEF Inv, StatusTells, Claims, At
<1> QED
  BY <1>6, <1>7, <1>8, <1>9, <1>10 DEF Inv

LEMMA RecordDoneInv == ASSUME Inv, RecordDone PROVE Inv'
<1>1. /\ At("record") /\ pub.todo = {}
      /\ UNCHANGED <<store, files, visible, retry, waiting, writes, ghosts>>
  BY DEF RecordDone
<1>2. CASE pub' = Idle
  <2>1. Unmarked = {} /\ Unrecorded = {}
    BY <1>1 DEF At, Unmarked, Unrecorded
  <2>2. Types'
    BY <1>1, <1>2, IdlePub DEF Inv, Types, FinalTypeOK, PubTypes, store, Publications,
                               Snapshots
  <2> QED
    BY <1>1, <1>2, <2>1, <2>2, EndInv
<1>3. CASE pub.drift = {} /\ pub' = [pub EXCEPT !.pc = "freeze", !.todo = pub.out]
  <2>1. /\ PubTypes' /\ pub'.pc = "freeze" /\ pub'.todo = pub.out /\ pub'.cur = pub.cur
        /\ Rest
    BY <1>3 DEF Inv, Types, PubTypes, Publications, Stages, Rest
  <2>2. Types'
    BY <1>1, <2>1 DEF Inv, Types, FinalTypeOK, PubTypes, store, Publications, Snapshots
  <2>3. RecordsWritten'
    BY <1>1, <1>3, <2>1, SameConclusion
       DEF Inv, RecordsWritten, Recorded, Deleting, At, Rest, store
  <2>4. Passes' /\ GateForces' /\ SnapshotIsLive' /\ ConfirmedStands' /\ EvidenceFrozen'
    BY <1>1, <1>3, <2>1 DEF Inv, Passes, GateForces, SnapshotIsLive, ConfirmedStands,
                            Claims,
                      EvidenceFrozen, At, Rest
  <2>5. EvidenceKept' /\ GapsAreForced' /\ StatusTells'
    BY <1>1, <2>1 DEF Inv, EvidenceKept, GapsAreForced, StatusTells, Declared, Frozen, At,
                      Rest,
                      store
  <2> QED
    BY <2>2, <2>3, <2>4, <2>5 DEF Inv
<1> QED
  BY <1>2, <1>3 DEF RecordDone

LEMMA FreezeInv == ASSUME Inv, Freeze PROVE Inv'
<1>1. PICK i \in pub.todo :
         /\ final' = [final EXCEPT ![i].version = pub.snap[i].version,
                        ![i].declared = files[i].shadow \/ @]
         /\ pub' = [pub EXCEPT !.pc = "purge", !.todo = @ \ {i}, !.cur = {i}]
  BY Zenon DEF Freeze
<1>2. /\ At("freeze")
      /\ UNCHANGED <<draft, status, record, files, visible, retry, waiting, writes, ghosts>>
  BY DEF Freeze
<1>3. Types /\ PubTypes /\ i \in Item /\ i \in pub.out
  BY <1>1, <1>2 DEF Inv, Passes, At, Types, PubTypes, Publications
<1>4. /\ PubTypes' /\ pub'.pc = "purge" /\ pub'.todo = pub.todo \ {i}
      /\ pub'.cur = {i} /\ Rest
  BY <1>1, <1>2, <1>3 DEF PubTypes, Publications, Stages, Rest, At
<1>5. /\ final' \in [Item -> [version : Versions, declared : BOOLEAN, purged : BOOLEAN]]
      /\ final'[i].version = pub.snap[i].version
      /\ final'[i].declared <=> files[i].shadow \/ final[i].declared
      /\ \A j \in Item : final[j].purged /\ final[j].declared
                          => final'[j].purged /\ final'[j].declared
  <2> DEFINE d == files[i].shadow \/ final[i].declared
  <2>1. final' = [final EXCEPT ![i] = [@ EXCEPT !.version = pub.snap[i].version,
                                                !.declared = d]]
    BY Zenon, <1>1
  <2>2. d \in BOOLEAN /\ pub.snap[i].version \in Versions
    BY <1>3 DEF PubTypes, Publications, Snapshots
  <2>3. final \in [Item -> [version : Versions, declared : BOOLEAN, purged : BOOLEAN]]
    BY <1>3 DEF Types, FinalTypeOK
  <2>4. final[i].declared => d
    OBVIOUS
  <2>5. d <=> files[i].shadow \/ final[i].declared
    OBVIOUS
  <2> HIDE DEF d
  <2>6. /\ final' \in [Item -> [version : Versions, declared : BOOLEAN, purged : BOOLEAN]]
        /\ final'[i].version = pub.snap[i].version /\ final'[i].declared = d
        /\ final'[i].purged = final[i].purged
        /\ \A j \in Item : j # i => final'[j] = final[j]
    BY <1>3, <2>1, <2>2, <2>3
  <2> QED
    BY <2>4, <2>5, <2>6
<1>6. Types'
  BY <1>2, <1>3, <1>4, <1>5 DEF Types, FinalTypeOK, PubTypes, Publications, Snapshots
<1>7. EvidenceFrozen'
  BY <1>2, <1>3, <1>4, <1>5 DEF Inv, EvidenceFrozen, EvidenceKept, Declared, Frozen, At,
                                Rest
<1>8. RecordsWritten'
  BY <1>2, <1>4, SameConclusion DEF Inv, RecordsWritten, Recorded, Deleting, At, Rest
<1>9. Passes' /\ GateForces' /\ SnapshotIsLive' /\ ConfirmedStands'
  BY <1>2, <1>3, <1>4 DEF Inv, Passes, GateForces, SnapshotIsLive, ConfirmedStands, Claims,
                          At, Rest
<1>10. EvidenceKept'
  <2>1. files' = files /\ unmarked' = unmarked
    BY <1>2
  <2>2. \A j \in Item \ unmarked : files[j].shadow \/ (final[j].purged /\ final[j].declared)
    BY <1>2 DEF Inv, EvidenceKept, Declared, Frozen, At
  <2>3. \A j \in Item \ unmarked : files[j].shadow \/ (final'[j].purged
        /\ final'[j].declared)
    BY <1>5, <2>2
  <2> QED
    BY Zenon, <2>1, <2>3 DEF EvidenceKept, Declared, Frozen
<1>11. GapsAreForced' /\ StatusTells'
  BY <1>2, <1>4 DEF Inv, GapsAreForced, StatusTells, Rest, At
<1> QED
  BY <1>6, <1>7, <1>8, <1>9, <1>10, <1>11 DEF Inv

\* Steps that treat no further item.
LEMMA SameStageInv ==
    ASSUME Inv, UNCHANGED <<store, files, visible, retry, waiting, writes, ghosts>>,
           At("freeze"), NEW i \in Item, pub' = [pub EXCEPT !.todo = @ \ {i}]
    PROVE  Inv'
<1>1. /\ PubTypes' /\ pub'.pc = "freeze" /\ pub'.todo \subseteq pub.todo
      /\ pub'.cur = pub.cur /\ Rest
  BY DEF Inv, Types, PubTypes, Publications, Rest, At
<1>2. Types'
  BY <1>1 DEF Inv, Types, FinalTypeOK, PubTypes, store, Publications, Snapshots
<1>3. Passes' /\ GateForces' /\ SnapshotIsLive' /\ ConfirmedStands' /\ EvidenceFrozen'
  BY <1>1 DEF Inv, Passes, GateForces, SnapshotIsLive, ConfirmedStands, Claims,
              EvidenceFrozen, At, Rest
<1>4. RecordsWritten'
  BY <1>1, SameConclusion DEF Inv, RecordsWritten, Recorded, Deleting, At, Rest, store
<1>5. EvidenceKept' /\ GapsAreForced' /\ StatusTells'
  BY <1>1 DEF Inv, EvidenceKept, GapsAreForced, StatusTells, Declared, Frozen, At, Rest,
                    store
<1> QED
  BY <1>2, <1>3, <1>4, <1>5 DEF Inv

LEMMA PurgeInv == ASSUME Inv, Purge PROVE Inv'
<1>1. PICK i \in pub.cur, kept \in SUBSET {"source", "shadow"} : Delete(i, kept)
  BY DEF Purge
<1>2. /\ At("purge") /\ UNCHANGED <<store, visible, retry, waiting, writes, ghosts>>
      /\ pub' = [pub EXCEPT !.pc = "mark"]
  BY DEF Purge
<1>3. Types /\ PubTypes /\ i \in Item /\ i \in pub.out
  BY <1>1, <1>2 DEF Inv, Passes, At, Types, PubTypes, Publications
<1>4. /\ PubTypes' /\ pub'.pc = "mark" /\ pub'.todo = pub.todo /\ pub'.cur = pub.cur
      /\ Rest
  BY <1>2, <1>3 DEF PubTypes, Publications, Stages, Rest
<1>5. /\ files' \in [Item -> [source : BOOLEAN, shadow : BOOLEAN]]
      /\ \A j \in Item : j # i => files'[j] = files[j]
  BY <1>1, <1>3 DEF Delete, Types, FinalTypeOK
<1>6. Types'
  BY <1>2, <1>3, <1>4, <1>5 DEF Types, FinalTypeOK, PubTypes, Publications, Snapshots, store
<1>7. RecordsWritten'
  BY <1>2, <1>4, SameConclusion DEF Inv, RecordsWritten, Recorded, Deleting, At, Rest, store
<1>8. Passes' /\ GateForces' /\ SnapshotIsLive' /\ ConfirmedStands' /\ EvidenceFrozen'
  BY <1>2, <1>4 DEF Inv, Passes, GateForces, SnapshotIsLive, ConfirmedStands, Claims,
                    EvidenceFrozen,
                    At, Rest, store
<1>9. EvidenceKept' /\ GapsAreForced' /\ StatusTells'
  BY <1>1, <1>2, <1>4, <1>5 DEF Inv, EvidenceKept, GapsAreForced, StatusTells, Declared,
                    Frozen, At, Rest, store
<1> QED
  BY <1>6, <1>7, <1>8, <1>9 DEF Inv

\* The mark, or what is left without it.
LEMMA MarkedInv ==
    ASSUME Inv, At("mark"), pub' = [pub EXCEPT !.pc = "freeze", !.cur = {}],
           UNCHANGED <<draft, status, record, files, visible, retry, waiting, writes,
           unrecorded>>,
           \/ final' = final /\ unmarked' = unmarked \cup Unmarked
           \/ /\ unmarked' = unmarked
              /\ \E i \in pub.cur : final' = [final EXCEPT ![i].purged = TRUE]
    PROVE  Inv'
<1>1. /\ PubTypes' /\ pub'.pc = "freeze" /\ pub'.todo = pub.todo /\ pub'.cur = {}
      /\ Rest
  BY DEF Inv, Types, PubTypes, Publications, Stages, Rest
<1>2. /\ final' \in [Item -> [version : Versions, declared : BOOLEAN, purged : BOOLEAN]]
      /\ unmarked' \in SUBSET Item /\ unmarked \subseteq unmarked'
      /\ \A i \in Item \ unmarked' :
           /\ final'[i].declared <=> final[i].declared
           /\ final[i].purged => final'[i].purged
           /\ i \in pub.cur => final'[i].purged
  <2>1. /\ final \in [Item -> [version : Versions, declared : BOOLEAN, purged : BOOLEAN]]
        /\ unmarked \in SUBSET Item /\ pub.cur \in SUBSET Item
        /\ \A i, j \in pub.cur : i = j
    BY DEF Inv, Types, FinalTypeOK, PubTypes, Publications, Passes
  <2>2. CASE final' = final /\ unmarked' = unmarked \cup Unmarked
    <3>1. Unmarked \in SUBSET Item /\ \A i \in pub.cur \ Unmarked : final[i].purged
      BY <2>1 DEF Unmarked
    <3> QED
      BY <2>1, <2>2, <3>1
  <2>3. ASSUME unmarked' = unmarked, NEW i \in pub.cur,
               final' = [final EXCEPT ![i].purged = TRUE]
        PROVE  /\ final' \in
                    [Item -> [version : Versions, declared : BOOLEAN, purged : BOOLEAN]]
               /\ \A j \in Item : /\ final'[j].declared = final[j].declared
                                  /\ final[j].purged => final'[j].purged
                                  /\ j \in pub.cur => final'[j].purged
    BY <2>1, <2>3
  <2> QED
    BY <2>1, <2>2, <2>3
<1>3. Types'
  BY <1>1, <1>2 DEF Inv, Types, FinalTypeOK, PubTypes, Publications, Snapshots
<1>4. RecordsWritten'
  BY <1>1, SameConclusion DEF Inv, RecordsWritten, Recorded, Deleting, At, Rest
<1>5. Passes' /\ GateForces' /\ SnapshotIsLive' /\ ConfirmedStands' /\ EvidenceFrozen'
  BY <1>1 DEF Inv, Passes, GateForces, SnapshotIsLive, ConfirmedStands, Claims,
              EvidenceFrozen, At, Rest
<1>6. EvidenceKept' /\ GapsAreForced' /\ StatusTells'
  BY <1>1, <1>2 DEF Inv, EvidenceKept, EvidenceFrozen, GapsAreForced, StatusTells, Declared,
                    Frozen, At, Rest
<1> QED
  BY <1>3, <1>4, <1>5, <1>6 DEF Inv

-------------------------------------------------------------------------------
(* Every step.                                                                *)

LEMMA WritersInv ==
    ASSUME Inv, Edit \/ Retry \/ ReadSource \/ Reprocessed
    PROVE  Inv'
<1>0. Types /\ FinalTypeOK /\ PubTypes
  BY DEF Inv, Types
<1>1. ASSUME NEW i \in Item, NEW lacks \in BOOLEAN, WriteDraft(i, lacks)
      PROVE  /\ writes' \in 0 .. MaxWrites
             /\ draft' \in [Item -> [version : Versions, lacks : BOOLEAN]]
             /\ status' \in [Item -> {"ready"} \cup Conclusions]
             /\ \A j \in Item : draft'[j].version <= writes' + 1
             /\ \A j \in Item : \/ draft'[j] = draft[j] /\ status'[j] = status[j]
                                \/ status'[j] = "ready"
  BY <1>0, <1>1 DEF WriteDraft, Types, FinalTypeOK, Versions
<1>2. CASE Edit
  <2>1. /\ pub' = pub /\ UNCHANGED <<record, final, files, visible, retry, waiting, ghosts>>
        /\ \E i \in Item, lacks \in BOOLEAN : WriteDraft(i, lacks)
    BY <1>2 DEF Edit
  <2>2. Types'
    BY <1>0, <1>1, <2>1 DEF Types, FinalTypeOK, PubTypes, Publications, Snapshots
  <2> QED
    BY <1>1, <2>1, <2>2, WriterInv
<1>3. CASE Retry \/ ReadSource
  <2>1. /\ UNCHANGED <<store, files, visible, waiting, pub, writes, ghosts>>
        /\ retry' \in [Item -> {"no", "asked", "read"}]
    BY <1>0, <1>3 DEF Retry, ReadSource, FinalTypeOK
  <2>2. Types'
    BY <1>0, <2>1 DEF Types, FinalTypeOK, PubTypes, Publications, Snapshots, store
  <2> QED
    BY <2>1, <2>2, WriterInv DEF store
<1>4. CASE Reprocessed
  <2>1. PICK i \in Item :
           /\ retry' = [retry EXCEPT ![i] = "no"]
           /\ files' = [files EXCEPT ![i].shadow = TRUE]
           /\ WriteDraft(i, FALSE) \/ UNCHANGED <<draft, status, writes>>
    BY <1>4 DEF Reprocessed
  <2>2. UNCHANGED <<record, final, visible, waiting, pub, ghosts>>
    BY <1>4 DEF Reprocessed
  <2>3. /\ retry' \in [Item -> {"no", "asked", "read"}]
        /\ files' \in [Item -> [source : BOOLEAN, shadow : BOOLEAN]]
        /\ \A j \in Item : files[j].shadow => files'[j].shadow
    BY <1>0, <2>1 DEF FinalTypeOK
  <2>4. /\ writes' \in 0 .. MaxWrites
        /\ draft' \in [Item -> [version : Versions, lacks : BOOLEAN]]
        /\ status' \in [Item -> {"ready"} \cup Conclusions]
        /\ \A j \in Item : draft'[j].version <= writes' + 1
        /\ \A j \in Item : \/ draft'[j] = draft[j] /\ status'[j] = status[j]
                           \/ status'[j] = "ready"
    BY <1>0, <1>1, <2>1 DEF Types, FinalTypeOK
  <2>5. Types'
    BY <1>0, <2>2, <2>3, <2>4 DEF Types, FinalTypeOK, PubTypes, Publications, Snapshots
  <2> QED
    BY <2>2, <2>3, <2>4, <2>5, WriterInv
<1> QED
  BY <1>2, <1>3, <1>4

LEMMA EndsInv ==
    ASSUME Inv, Done \/ PublishFails \/ Crash
    PROVE  Inv'
<1>1. /\ pub' = Idle /\ UNCHANGED <<store, files, visible, writes>>
      /\ unmarked' = unmarked \cup Unmarked /\ unrecorded' = unrecorded \cup Unrecorded
      /\ waiting' \subseteq waiting
      /\ Types => retry' \in [Item -> {"no", "asked", "read"}]
  <2>1. Unmarked = {} \/ At("mark")
    BY DEF Unmarked
  <2>2. Unrecorded = {} \/ At("status") \/ At("record")
    BY DEF Unrecorded
  <2> QED
    BY <2>1, <2>2 DEF Done, PublishFails, Crash, At, Types, FinalTypeOK
<1>2. Unmarked \in SUBSET Item /\ Unrecorded \in SUBSET Item
  BY DEF Inv, Types, PubTypes, Publications, Unmarked, Unrecorded
<1>3. Types'
  BY <1>1, <1>2, IdlePub DEF Inv, Types, FinalTypeOK, PubTypes, store, Publications,
                             Snapshots
<1> QED
  BY <1>1, <1>3, EndInv

LEMMA InitInv == Init => Inv
<1> SUFFICES ASSUME Init PROVE Inv
  OBVIOUS
<1>1. Types
  BY DEF Init, Types, PubTypes, FinalTypeOK, Publications, Idle, Stages, Snapshots,
         Versions,
         NoRecord, NoFinal, NoVisible, Conclusions
<1>2. /\ Passes /\ GateForces /\ SnapshotIsLive /\ ConfirmedStands
      /\ RecordsWritten /\ EvidenceFrozen
  BY DEF Init, Idle, At, Passes, GateForces, SnapshotIsLive, ConfirmedStands, Claims,
         RecordsWritten, EvidenceFrozen, Deleting
<1>3. EvidenceKept /\ GapsAreForced /\ StatusTells
  BY DEF Init, EvidenceKept, Declared, GapsAreForced, NoVisible, StatusTells
<1> QED
  BY <1>1, <1>2, <1>3 DEF Inv

LEMMA NextInv == Inv /\ [Next]_vars => Inv'
<1> SUFFICES ASSUME Inv, [Next]_vars PROVE Inv'
  OBVIOUS
<1>1. CASE UNCHANGED vars
  <2>1. Types'
    BY <1>1 DEF Inv, Types, FinalTypeOK, PubTypes, Publications, Snapshots, vars, store
  <2> QED
    BY <1>1, <2>1, WriterInv DEF vars, store
<1>2. CASE FreezeFails
  BY <1>2, SameStageInv DEF FreezeFails, Inv, Types, PubTypes, Publications
<1>3. CASE Mark \/ MarkFails
  BY <1>3, MarkedInv DEF Mark, MarkFails, store
<1> QED
  BY <1>1, <1>2, <1>3, WritersInv, EndsInv, SnapshotInv, GateInv, CommitInv,
     ConfirmStatusInv, StatusDoneInv, WriteRecordInv, RecordDoneInv, FreezeInv, PurgeInv,
     LockInv
     DEF Next

-------------------------------------------------------------------------------
(* The theorems.                                                              *)

THEOREM Invariance == Spec => []Inv
BY InitInv, NextInv, PTL DEF Spec

\* Types: a version beyond the writes that were made occurs nowhere.
THEOREM FinalTypes == Spec => []FinalTypeOK
<1>1. Inv => FinalTypeOK
  BY DEF Inv, Types
<1> QED
  BY <1>1, Invariance, PTL

\* For any number of items, publications, writes and mishaps, what the sources
\* declare is known from the shadow or from frozen evidence.
THEOREM EvidenceIsKept == Spec => []EvidenceKept
<1>1. Inv => EvidenceKept
  BY DEF Inv
<1> QED
  BY <1>1, Invariance, PTL

\* A draft with a gap reaches students only by force.
THEOREM GapsNeedForce == Spec => []GapsAreForced
<1>1. Inv => GapsAreForced
  BY DEF Inv
<1> QED
  BY <1>1, Invariance, PTL

\* An item that says it is published is, at the version the library holds, or the
\* last publication on record reports a drift: for any number of publications that
\* took their snapshots one before the other and the lock in any order.
THEOREM StatusIsTrue == Spec => []StatusTells
<1>1. Inv => StatusTells
  BY DEF Inv
<1> QED
  BY <1>1, Invariance, PTL

\* Sources are deleted only for a publication that is recorded, without drift
\* in any item of its batch.
THEOREM DeletionIsConfirmed == Spec => DeletionConfirmed
<1> DEFINE Confirmed(i) ==
      /\ final[i].version = record[i].version
      /\ record[i].version = pub.snap[i].version
      /\ \A j \in pub.out : record[j].status \notin {"none", "drift"}
<1>1. ASSUME Inv, Purge, NEW i \in pub.cur PROVE Confirmed(i)
  <2>1. /\ At("purge") /\ i \in pub.out
    BY <1>1 DEF Purge, Inv, Passes
  <2>2. pub.drift = {} /\ \A j \in pub.out : Recorded(j)
    BY <1>1, <2>1 DEF Inv, RecordsWritten, Deleting
  <2>3. \A j \in pub.out : record[j].status \notin {"none", "drift"}
    BY <2>2 DEF Recorded, Conclusion
  <2>4. final[i].version = pub.snap[i].version
    BY <1>1, <2>1 DEF Inv, EvidenceFrozen
  <2> QED
    BY <2>1, <2>2, <2>3, <2>4 DEF Recorded
<1>2. ASSUME Inv, [Next]_vars, NEW i \in Item, files'[i] # files[i], ~files'[i].shadow
      PROVE  Confirmed(i)
  <2>1. Types
    BY <1>2 DEF Inv
  <2>2. CASE Purge
    <3>1. PICK j \in pub.cur, kept \in SUBSET {"source", "shadow"} : Delete(j, kept)
      BY <2>2 DEF Purge
    <3>2. i = j
      BY <1>2, <2>1, <3>1 DEF Delete, Types, FinalTypeOK
    <3> QED
      BY <1>1, <1>2, <2>2, <3>2
  <2>3. CASE Reprocessed
    BY <1>2, <2>1, <2>3 DEF Reprocessed, Types, FinalTypeOK
  <2>4. Purge \/ Reprocessed \/ files' = files
    BY <1>2 DEF Next, vars, Edit, Retry, ReadSource, Snapshot, Lock, Gate, Commit,
                ConfirmStatus, StatusDone, WriteRecord, RecordDone, Freeze, FreezeFails,
                Mark, MarkFails,
                Done, PublishFails, Crash
  <2> QED
    BY <1>2, <2>2, <2>3, <2>4
<1>3. Inv /\ [Next]_vars =>
        [\A i \in Item : files'[i] # files[i] /\ ~files'[i].shadow => Confirmed(i)]_vars
  BY <1>2
<1> QED
  BY <1>3, Invariance, PTL DEF Spec, DeletionConfirmed
====
