--------------------------- MODULE FinalVersion ---------------------------
(***************************************************************************)
(* What publish_items does to the library items (nas_package_v2.rs,        *)
(* library/final_version.rs): it publishes a snapshot of their drafts      *)
(* while people go on editing them, confirms the version it published,     *)
(* records it, freezes the evidence of the source documents and deletes    *)
(* the sources.  It does so under the lock of the library, but takes the   *)
(* lock only after the snapshot.  The package itself is the module         *)
(* NasLibrary; here its commit is one step.                                *)
(*                                                                         *)
(* Of a draft the model keeps its version and whether it lacks a question  *)
(* that the source document declares: that is what the evidence is for.    *)
(***************************************************************************)
EXTENDS Naturals

CONSTANTS
    Item,          \* the library items
    MaxWrites,     \* bound: writes to a draft after the first version
    MaxPublishes,  \* bound: publications started
    MaxMishaps     \* bound: crashes, failing writes and failing removals

ASSUME BoundsAssumption ==
    MaxWrites \in Nat /\ MaxPublishes \in Nat /\ MaxMishaps \in Nat

VARIABLES
    draft,      \* per item: current_edit_version and the draft
    status,     \* library_items_v2.status
    record,     \* the last row of publish_records_v2
    final,      \* the row of library_final_versions_v2
    files,      \* the job directory: uploaded source, physical shadow
    visible,    \* the published draft that students get, version 0 for none
    retry,      \* per item: a reprocessing that was asked for, or has read
    waiting,    \* the publications that have a snapshot and not yet the lock
    pub,        \* the publication that holds the lock
    writes, publishes, mishaps,
    unmarked,   \* ghost: items whose sources were deleted unmarked (see Mark)
    unrecorded  \* ghost: items that a publication committed and did not record

store == <<draft, status, record, final>>
ghosts == <<unmarked, unrecorded>>
vars == <<store, files, visible, retry, waiting, pub,
          writes, publishes, mishaps, ghosts>>

NoRecord == [version |-> 0, status |-> "none"]
NoVisible == [version |-> 0, lacks |-> FALSE, forced |-> FALSE]
NoFinal == [version |-> 0, declared |-> FALSE, purged |-> FALSE]

\* The publication's local variables: its mode, the snapshot of the drafts, the
\* items that pass the gate with forced and loadable, those whose status could
\* not be confirmed, and the items the current pass has still to treat.
Idle == [pc |-> "idle", forced |-> FALSE, items |-> {}, todo |-> {},
         snap |-> [i \in Item |-> [version |-> 0, lacks |-> FALSE]],
         out |-> {}, overridden |-> {}, closed |-> {}, drift |-> {}, cur |-> {}]

Init ==
    /\ draft = [i \in Item |-> [version |-> 1, lacks |-> FALSE]]
    /\ status = [i \in Item |-> "ready"]
    /\ record = [i \in Item |-> NoRecord]
    /\ final = [i \in Item |-> NoFinal]
    /\ files = [i \in Item |-> [source |-> TRUE, shadow |-> TRUE]]
    /\ visible = [i \in Item |-> NoVisible]
    /\ retry = [i \in Item |-> "no"]
    /\ waiting = {} /\ pub = Idle
    /\ writes = 0 /\ publishes = 0 /\ mishaps = 0
    /\ unmarked = {} /\ unrecorded = {}

Mishap == mishaps < MaxMishaps /\ mishaps' = mishaps + 1
At(pc) == pub.pc = pc

-----------------------------------------------------------------------------
(***************************************************************************)
(* The evidence: the shadow of the source document while it exists, then   *)
(* what was frozen, but only for an item marked as purged.                 *)
(***************************************************************************)
Frozen(i) == final[i].purged /\ final[i].declared
Declared(i) == files[i].shadow \/ Frozen(i)

\* Slip: the frozen evidence is not asked.
BlockedByShadow(i) == files[i].shadow /\ pub.snap[i].lacks

\* The coverage check of the publish gate: a declared question is missing.
Blocked(i) == Declared(i) /\ pub.snap[i].lacks

Purged(i) == final[i].purged

-----------------------------------------------------------------------------
(***************************************************************************)
(* The other writers of a draft: the editor, and a reprocessing that       *)
(* checks the sources when it is asked for and reads them when it runs.    *)
(***************************************************************************)
WriteDraft(i, lacks) ==
    /\ writes < MaxWrites /\ writes' = writes + 1
    /\ draft' = [draft EXCEPT ![i] = [version |-> @.version + 1, lacks |-> lacks]]
    /\ status' = [status EXCEPT ![i] = "ready"]

Edit ==
    /\ \E i \in Item, lacks \in BOOLEAN : WriteDraft(i, lacks)
    /\ UNCHANGED <<record, final, files, visible, retry, waiting, pub,
                   publishes, mishaps, ghosts>>

Retry ==
    /\ \E i \in Item : /\ retry[i] = "no" /\ ~Purged(i)
                       /\ retry' = [retry EXCEPT ![i] = "asked"]
    /\ UNCHANGED <<store, files, visible, waiting, pub, writes, publishes,
                   mishaps, ghosts>>

\* It runs later, and without the source there is nothing to read.
ReadSource ==
    /\ \E i \in Item : /\ retry[i] = "asked"
                       /\ retry' = [retry EXCEPT ![i] =
                                      IF files[i].source THEN "read" ELSE "no"]
    /\ UNCHANGED <<store, files, visible, waiting, pub, writes, publishes,
                   mishaps, ghosts>>

Reprocessed ==
    /\ \E i \in Item :
         /\ retry[i] = "read"
         /\ retry' = [retry EXCEPT ![i] = "no"]
         /\ files' = [files EXCEPT ![i].shadow = TRUE]
         /\ WriteDraft(i, FALSE) \/ UNCHANGED <<draft, status, writes>>
    /\ UNCHANGED <<record, final, visible, waiting, pub, publishes, mishaps,
                   ghosts>>

-----------------------------------------------------------------------------
(***************************************************************************)
(* publish_items_core.                                                     *)
(***************************************************************************)
\* The snapshot of all drafts in one transaction; the directories are made next,
\* and nothing keeps a second publication from getting as far.
Snapshot ==
    /\ publishes < MaxPublishes
    /\ publishes' = publishes + 1
    /\ \E S \in SUBSET Item \ {{}}, forced \in BOOLEAN :
         waiting' = waiting \cup {[items |-> S, forced |-> forced, snap |-> draft]}
    /\ UNCHANGED <<store, files, visible, retry, pub, writes, mishaps, ghosts>>

\* The lock is tried once: a publication that finds it taken ends with an error.
Lock ==
    /\ \E w \in waiting :
         /\ waiting' = waiting \ {w}
         /\ pub' = IF At("idle")
                     THEN [Idle EXCEPT !.pc = "gate", !.forced = w.forced,
                             !.items = w.items, !.todo = w.items, !.snap = w.snap]
                     ELSE pub
    /\ UNCHANGED <<store, files, visible, retry, writes, publishes, mishaps,
                   ghosts>>

\* One item through the gate: strict publishing fails a blocked item alone,
\* forced publishing sends it out.  An item that cannot be packaged fails the
\* batch, or is published for authors only if the click was forced.
Gate ==
    /\ At("gate")
    /\ \E i \in pub.todo :
         \/ /\ Blocked(i) /\ ~pub.forced
            /\ pub' = [pub EXCEPT !.todo = @ \ {i}]
         \/ \E loadable \in {TRUE, ~pub.forced} :
              /\ Blocked(i) => pub.forced
              /\ pub' = [pub EXCEPT !.todo = @ \ {i}, !.out = @ \cup {i},
                     !.overridden = IF Blocked(i) THEN @ \cup {i} ELSE @,
                     !.closed = IF loadable THEN @ ELSE @ \cup {i}]
    /\ UNCHANGED <<store, files, visible, retry, waiting, writes, publishes,
                   mishaps, ghosts>>

\* The replacement of the manifest makes all packages visible.
Commit ==
    /\ At("gate") /\ pub.todo = {}
    /\ visible' = [i \in Item |-> IF i \in pub.out \ pub.closed
                    THEN [version |-> pub.snap[i].version,
                          lacks |-> pub.snap[i].lacks,
                          forced |-> i \in pub.overridden]
                    ELSE visible[i]]
    /\ pub' = [pub EXCEPT !.pc = "status", !.todo = pub.out]
    /\ UNCHANGED <<store, files, retry, waiting, writes, publishes, mishaps,
                   ghosts>>

Conclusion(i) ==
    IF i \in pub.closed
      THEN IF i \in pub.overridden THEN "forced_closed" ELSE "closed"
      ELSE IF i \in pub.overridden THEN "forced" ELSE "published"

\* Slip: the version is not compared.
ConfirmStatusAnyway ==
    /\ At("status")
    /\ \E i \in pub.todo :
         /\ status' = [status EXCEPT ![i] = Conclusion(i)]
         /\ pub' = [pub EXCEPT !.todo = @ \ {i}]
    /\ UNCHANGED <<draft, record, final, files, visible, retry, waiting,
                   writes, publishes, mishaps, ghosts>>

\* The status, only if the draft is still at the version that was published; an
\* update that fails counts as a drift too.
ConfirmStatus ==
    /\ At("status")
    /\ \E i \in pub.todo :
         \/ /\ draft[i].version = pub.snap[i].version
            /\ status' = [status EXCEPT ![i] = Conclusion(i)]
            /\ pub' = [pub EXCEPT !.todo = @ \ {i}]
            /\ UNCHANGED mishaps
         \/ /\ IF draft[i].version = pub.snap[i].version THEN Mishap
               ELSE UNCHANGED mishaps
            /\ pub' = [pub EXCEPT !.todo = @ \ {i}, !.drift = @ \cup {i}]
            /\ UNCHANGED status
    /\ UNCHANGED <<draft, record, final, files, visible, retry, waiting,
                   writes, publishes, ghosts>>

StatusDone ==
    /\ At("status") /\ pub.todo = {}
    /\ pub' = [pub EXCEPT !.pc = "record", !.todo = pub.out]
    /\ UNCHANGED <<store, files, visible, retry, waiting, writes, publishes,
                   mishaps, ghosts>>

\* Slip: the record takes the status of the item as it is.
WriteRecordOfItem ==
    /\ At("record")
    /\ \E i \in pub.todo :
         /\ record' = [record EXCEPT ![i] =
                [version |-> pub.snap[i].version, status |-> status[i]]]
         /\ pub' = [pub EXCEPT !.todo = @ \ {i}]
    /\ UNCHANGED <<draft, status, final, files, visible, retry, waiting,
                   writes, publishes, mishaps, ghosts>>

WriteRecord ==
    /\ At("record")
    /\ \E i \in pub.todo :
         /\ record' = [record EXCEPT ![i] =
                [version |-> pub.snap[i].version,
                 status |-> IF i \in pub.drift THEN "drift" ELSE Conclusion(i)]]
         /\ pub' = [pub EXCEPT !.todo = @ \ {i}]
    /\ UNCHANGED <<draft, status, final, files, visible, retry, waiting,
                   writes, publishes, mishaps, ghosts>>

\* Slip: a drift is recorded but does not end the publication.
RecordDoneAnyway ==
    /\ At("record") /\ pub.todo = {}
    /\ pub' = [pub EXCEPT !.pc = "freeze", !.todo = pub.out]
    /\ UNCHANGED <<store, files, visible, retry, waiting, writes, publishes,
                   mishaps, ghosts>>

\* A drift of one item ends the publication for all of them: nothing is frozen
\* and nothing deleted.
RecordDone ==
    /\ At("record") /\ pub.todo = {}
    /\ pub' = IF pub.drift # {} \/ pub.out = {} THEN Idle
              ELSE [pub EXCEPT !.pc = "freeze", !.todo = pub.out]
    /\ UNCHANGED <<store, files, visible, retry, waiting, writes, publishes,
                   mishaps, ghosts>>

(***************************************************************************)
(* Freezing: from the shadow, or carried over from the last publication.   *)
(***************************************************************************)
\* Slip: the evidence of the last publication is not carried over.
FreezeShadowOnly ==
    /\ At("freeze")
    /\ \E i \in pub.todo :
         /\ final' = [final EXCEPT ![i].version = pub.snap[i].version,
                        ![i].declared = files[i].shadow]
         /\ pub' = [pub EXCEPT !.pc = "purge", !.todo = @ \ {i}, !.cur = {i}]
    /\ UNCHANGED <<draft, status, record, files, visible, retry, waiting,
                   writes, publishes, mishaps, ghosts>>

Freeze ==
    /\ At("freeze")
    /\ \E i \in pub.todo :
         /\ final' = [final EXCEPT ![i].version = pub.snap[i].version,
                        ![i].declared = files[i].shadow \/ @]
         /\ pub' = [pub EXCEPT !.pc = "purge", !.todo = @ \ {i}, !.cur = {i}]
    /\ UNCHANGED <<draft, status, record, files, visible, retry, waiting,
                   writes, publishes, mishaps, ghosts>>

\* Without frozen evidence nothing is deleted.
FreezeFails ==
    /\ At("freeze") /\ Mishap
    /\ \E i \in pub.todo : pub' = [pub EXCEPT !.todo = @ \ {i}]
    /\ UNCHANGED <<store, files, visible, retry, waiting, writes, publishes,
                   ghosts>>

\* The sources are deleted file by file, each as far as that succeeds; only
\* the report knows which were left.
Delete(i, kept) ==
    files' = [files EXCEPT ![i] = [source |-> @.source /\ "source" \in kept,
                                   shadow |-> @.shadow /\ "shadow" \in kept]]

Purge ==
    /\ At("purge")
    /\ \E i \in pub.cur, kept \in SUBSET {"source", "shadow"} :
         /\ Delete(i, kept)
         /\ IF kept = {} THEN UNCHANGED mishaps ELSE Mishap
    /\ pub' = [pub EXCEPT !.pc = "mark"]
    /\ UNCHANGED <<store, visible, retry, waiting, writes, publishes, ghosts>>

Mark ==
    /\ At("mark")
    /\ \E i \in pub.cur : final' = [final EXCEPT ![i].purged = TRUE]
    /\ pub' = [pub EXCEPT !.pc = "freeze", !.cur = {}]
    /\ UNCHANGED <<draft, status, record, files, visible, retry, waiting,
                   writes, publishes, mishaps, ghosts>>

\* The mark is one more statement: if it fails, or the process dies before it,
\* the sources are gone and the item does not know.
Unmarked == IF At("mark") THEN {i \in pub.cur : ~final[i].purged} ELSE {}

MarkFails ==
    /\ At("mark") /\ Mishap
    /\ pub' = [pub EXCEPT !.pc = "freeze", !.cur = {}]
    /\ unmarked' = unmarked \cup Unmarked
    /\ UNCHANGED <<store, files, visible, retry, waiting, writes, publishes,
                   unrecorded>>

Done ==
    /\ At("freeze") /\ pub.todo = {}
    /\ pub' = Idle
    /\ UNCHANGED <<store, files, visible, retry, waiting, writes, publishes,
                   mishaps, ghosts>>

\* Before the commit a failure undoes everything; afterwards a status that cannot
\* be read back or a record that cannot be written ends it with an error.
Unrecorded == IF At("status") THEN pub.out
              ELSE IF At("record") THEN pub.todo ELSE {}

PublishFails ==
    /\ At("gate") \/ ((At("status") \/ At("record")) /\ pub.todo # {})
    /\ Mishap
    /\ pub' = Idle
    /\ unrecorded' = unrecorded \cup Unrecorded
    /\ UNCHANGED <<store, files, visible, retry, waiting, writes, publishes,
                   unmarked>>

\* A reprocessing that is a queued job survives the restart, a direct one not.
Crash ==
    /\ ~At("idle") \/ waiting # {} \/ \E i \in Item : retry[i] # "no"
    /\ Mishap
    /\ pub' = Idle
    /\ waiting' = {}
    /\ \E S \in SUBSET Item :
         retry' = [i \in Item |-> IF retry[i] # "no" /\ i \in S THEN "asked"
                                  ELSE "no"]
    /\ unmarked' = unmarked \cup Unmarked
    /\ unrecorded' = unrecorded \cup Unrecorded
    /\ UNCHANGED <<store, files, visible, writes, publishes>>

Next ==
    \/ Edit \/ Retry \/ ReadSource \/ Reprocessed
    \/ Snapshot \/ Lock \/ Gate \/ Commit \/ ConfirmStatus \/ StatusDone
    \/ WriteRecord \/ RecordDone
    \/ Freeze \/ FreezeFails \/ Purge \/ Mark \/ MarkFails \/ Done
    \/ PublishFails \/ Crash

Spec == Init /\ [][Next]_vars

-----------------------------------------------------------------------------
(***************************************************************************)
(* Properties.                                                             *)
(***************************************************************************)
Versions == 0 .. MaxWrites + 1
Conclusions == {"published", "forced", "closed", "forced_closed"}

\* Types.
FinalTypeOK ==
    /\ draft \in [Item -> [version : Versions, lacks : BOOLEAN]]
    /\ status \in [Item -> {"ready"} \cup Conclusions]
    /\ record \in [Item -> [version : Versions,
                            status : {"none", "drift"} \cup Conclusions]]
    /\ final \in [Item -> [version : Versions, declared : BOOLEAN, purged : BOOLEAN]]
    /\ files \in [Item -> [source : BOOLEAN, shadow : BOOLEAN]]
    /\ visible \in [Item -> [version : Versions, lacks : BOOLEAN, forced : BOOLEAN]]
    /\ retry \in [Item -> {"no", "asked", "read"}]
    /\ pub.snap \in [Item -> [version : Versions, lacks : BOOLEAN]]
    /\ pub.out \subseteq pub.items /\ pub.todo \subseteq pub.items
    /\ \A w \in waiting : /\ w.items \subseteq Item /\ w.forced \in BOOLEAN
                          /\ w.snap \in [Item -> [version : Versions, lacks : BOOLEAN]]
    /\ unmarked \subseteq Item /\ unrecorded \subseteq Item

\* Deleting the sources never takes away what the gate checks a draft against:
\* outside the moment between deletion and mark, the declared questions are
\* known from the shadow or from frozen evidence, also after any number of
\* further publications (freeze_final_version carries the evidence over).
EvidenceKept ==
    \A i \in Item \ unmarked : Declared(i) \/ (At("mark") /\ i \in pub.cur)

\* Students get a draft that lacks a declared question only if somebody forced
\* its publication ("question numbers are still checked one by one").
GapsAreForced ==
    \A i \in Item \ unmarked : visible[i].lacks => visible[i].forced

\* An item that says it is published is, at the version that the library holds,
\* whoever wrote while the package was on its way, or the last publication on
\* record says that it is not: a publication that took its snapshot before can
\* put an older draft out over a newer one that was confirmed, and then reports
\* a drift, unless it ended before it could (commit_published_status,
\* write_publish_records).
StatusTells ==
    \A i \in Item \ unrecorded :
      status[i] \in {"published", "forced"} =>
        \/ visible[i].version = draft[i].version
        \/ record[i].status = "drift"
        \/ i \in pub.drift \/ (At("status") /\ i \in pub.todo)

\* Sources are deleted only for a publication that is confirmed as a whole:
\* recorded without drift, for this item and all others of the batch, with the
\* evidence frozen for the version on record.
DeletionConfirmed ==
    [][\A i \in Item : files'[i] # files[i] /\ ~files'[i].shadow =>
         /\ final[i].version = record[i].version
         /\ record[i].version = pub.snap[i].version
         /\ \A j \in pub.out : record[j].status \notin {"none", "drift"}]_vars

\* The module's promise without the exception: when no publication runs, the
\* gate knows what every source declares ("evaluation uses the frozen evidence
\* once the sources are deleted").
EvidenceAlways == At("idle") => \A i \in Item : Declared(i)
=============================================================================
