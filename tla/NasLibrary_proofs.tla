-------------------------- MODULE NasLibrary_proofs --------------------------
(* Proofs about NasLibrary, for any set of exams and any number of             *)
(* publications, crashes and failures.                                         *)
(*                                                                             *)
(* At most one publication is open: the publisher's own, or one that was left  *)
(* and that a recovery has still to take back.  Putting its backup back gives  *)
(* a library in which every listed exam is whole.  Everything else that was    *)
(* left is settled: a batch that committed, and is seen to have whatever       *)
(* happens to the manifest, or one that has nothing to put back.  A recovery   *)
(* ends only when nothing is open, so that a publisher builds on a whole       *)
(* library.                                                                    *)
EXTENDS NasLibrary, TLAPS

(***************************************************************************)
(* Types.  Publications are numbered in the order they start, and those    *)
(* still to start have left nothing.                                       *)
(***************************************************************************)
Ids     == 0 .. used
Written == [by : Ids, entry : [Exam -> Ids]]
Backups == [dir : BOOLEAN, base : Written, res : [Exam -> Ids], script : Ids,
            state : BOOLEAN, committed : BOOLEAN, hadManifest : BOOLEAN,
            exams : SUBSET Exam]

OwnSteps == {"stage", "state", "next", "stash", "place", "release", "replace",
             "flag", "undo", "dir", "copy", "aside", "exam", "close",
             "hide", "clear", "drop", "back", "refit", "show"}
Steps    == {"idle", "recover", "restore", "discard", "unrelease"} \cup OwnSteps

Ops == [pc : Steps, id : Ids, exams : SUBSET Exam, base : Written,
        rec : Ids, seen : SUBSET Pubs, todo : SUBSET Exam, cur : SUBSET Exam,
        noted : SUBSET Exam, had : SUBSET Exam, live : BOOLEAN,
        failing : BOOLEAN, stuck : BOOLEAN]

Blank(p) == kind[p] = "none" /\ backup[p] = NoBackup /\ journal[p] = "none"

DiskTypes ==
    /\ used \in Publication
    /\ manifest \in Written /\ (manifest.by = 0 => manifest = NoManifest)
    /\ script \in [Exam -> Ids] /\ resources \in [Exam -> Ids]
    /\ releases \subseteq Pubs /\ \A p \in releases : kind[p] = "batch"
    /\ backup \in [Pubs -> Backups]
    /\ journal \in [Pubs -> {"none", "open", "closed"}]
    /\ kind \in [Pubs -> {"none", "batch", "single", "legacy"}]
    /\ \A p \in Pubs : p > used => Blank(p)
    /\ \A p \in Pubs : kind[p] = "batch" => backup[p].script = 0 /\ journal[p] = "none"

\* Where a publisher is, and whose files it works on
Placed(o) ==
    /\ o.cur \subseteq o.exams /\ o.todo \subseteq o.exams
    /\ o.pc = "idle" => o = Idle
    /\ o.pc # "idle" => o.id # 0 /\ kind[o.id] \in {"batch", "single"}
    /\ o.pc \in OwnSteps \cup {"recover"} => o.rec = 0
    /\ o.pc = "restore" => o.rec # 0
    /\ o.rec # 0 => kind[o.rec] \in {"batch", "single"}
    /\ o.pc = "unrelease" => kind[IF o.rec = 0 THEN o.id ELSE o.rec] = "batch"

Types == DiskTypes /\ op \in Ops /\ Placed(op)

\* What the legacy export has read
ExportTypes == export.busy \in BOOLEAN /\ export.base \in Written

(***************************************************************************)
(* What the library holds once the backup of publication x is put back;    *)
(* nothing is to be put back when x is 0.                                  *)
(***************************************************************************)
ScriptIn(x, e) ==
    IF x # 0 /\ e \in backup[x].exams /\ backup[x].script # 0
      THEN backup[x].script ELSE script[e]
ResIn(x, e) ==
    IF x # 0 /\ backup[x].res[e] # 0 THEN backup[x].res[e] ELSE resources[e]
BaseOf(x) ==
    IF x # 0 /\ kind[x] = "single" /\ backup[x].base.by # 0
      THEN backup[x].base ELSE manifest

\* The entry p of an exam is whole with this script and these resources.
Fits(p, scr, res) ==
    p # 0 => /\ IF kind[p] = "batch" THEN p \in releases ELSE scr = p
             /\ kind[p] = "legacy" \/ res = p

InPlace       == \A e \in Exam : Fits(manifest.entry[e], script[e], resources[e])
Restorable(x) == \A e \in Exam : Fits(BaseOf(x).entry[e], ScriptIn(x, e), ResIn(x, e))
Foreign(x, m) == m.by # x /\ \A e \in Exam : m.entry[e] # x

(***************************************************************************)
(* The batches that are settled though their state file is still there.    *)
(***************************************************************************)
Own        == op.pc \in OwnSteps \/ (op.pc \in {"discard", "unrelease"} /\ op.rec = 0)
Recovering == ~Own /\ op.pc # "idle"
Ahead(p)   == op.pc = "idle" \/ (Recovering /\ p \notin op.seen)

\* The baseline b is not the manifest, and none that can come back is.
Never(b, x) ==
    /\ b # manifest.by /\ b # BaseOf(x).by
    /\ ~op.live => b # op.base.by /\ b # op.id

Sure(p, x) ==
    /\ p \in releases
    /\ \/ backup[p].committed
       \/ /\ manifest.by # 0
          /\ \/ backup[p].base.by # 0 /\ Never(backup[p].base.by, x)
             \/ backup[p].base.by = 0 /\ ~backup[p].hadManifest
             \/ backup[p].base.by = 0 /\ At("discard") /\ target = p
             \/ backup[p].base.by = 0 /\ manifest.by = p /\ BaseOf(x).by = p /\ Ahead(p)

\* Nothing to put back: no files, nor a baseline over a missing manifest.
Harmless(p, x) ==
    /\ backup[p].res = Nothing
    /\ backup[p].base.by = 0 \/ backup[p].committed \/ manifest.by # 0
    /\ \A e \in Exam : manifest.entry[e] # p /\ BaseOf(x).entry[e] # p

Settled(x) ==
    /\ \A p \in Left : p # x => kind[p] = "batch" /\ (Sure(p, x) \/ Harmless(p, x))
    /\ op.pc \in {"restore", "unrelease"} /\ op.rec \notin {0, x} =>
         /\ kind[op.rec] = "batch" /\ Harmless(op.rec, x)
         /\ op.pc = "restore" => backup[op.rec].base.by \in {0, manifest.by}

(***************************************************************************)
(* The publisher's own publication, as long as it is open.                 *)
(***************************************************************************)
Noted(x) ==
    \A e \in Exam : backup[x].res[e] # 0 => e \in backup[x].exams /\ backup[x].state

\* A batch: what holds at every step
BatchKeeps(x) ==
    LET b == backup[x] IN
    /\ ~op.live /\ Foreign(x, manifest) /\ Foreign(x, op.base)
    /\ ~b.committed /\ Noted(x) /\ Restorable(x)
    /\ b.dir \/ b = NoBackup
    /\ manifest.by = 0 => b.base.by = 0
    /\ manifest.by = op.base.by => manifest = op.base
    /\ manifest.by = op.base.by /\ b.state => (b.hadManifest <=> op.base.by # 0)
    /\ \A e \in op.noted \ op.had : resources[e] \in {0, x}
    /\ \A e \in Exam : b.res[e] # 0 => e \in op.had
    /\ op.todo \cap op.noted = {}

\* and where it is
BatchAt(x) ==
    LET b == backup[x] IN
    /\ op.pc \in {"stage", "state", "next", "stash", "place", "release", "replace",
                  "undo", "discard", "unrelease"}
    /\ op.failing <=> op.pc \in {"undo", "discard", "unrelease"}
    /\ op.pc = "stage" => b = NoBackup
    /\ op.pc \in {"stage", "state"} => op.noted = {} /\ b.res = Nothing /\ ~b.state
    /\ op.pc \notin {"stage", "undo", "unrelease"} => b.dir
    /\ b.dir /\ manifest.by = op.base.by /\ (op.pc \in {"discard", "unrelease"} => b.res # Nothing) =>
         b.base = op.base
    /\ op.pc \in {"next", "stash", "place", "release", "replace"} =>
         /\ b.state /\ b.exams = op.noted /\ op.todo \cup op.noted = op.exams
         /\ \A e \in op.noted : resources[e] = x \/ (op.pc \in {"stash", "place"} /\ e \in op.cur)
    /\ op.pc \in {"stash", "place"} => \E e \in op.noted : op.cur = {e}
    /\ op.pc = "stash" => \A e \in op.cur : b.res[e] = 0 /\ resources[e] # 0 /\ e \in op.had
    /\ op.pc = "place" => \A e \in op.cur : resources[e] = 0
    /\ op.pc \in {"release", "replace"} => op.todo = {} /\ manifest.by = op.base.by
    /\ op.pc = "replace" => x \in releases
    /\ op.pc = "discard" => b.res = Nothing
    /\ op.pc = "unrelease" /\ b.res # Nothing => manifest.by = op.base.by

\* A single publication: what holds at every step.  Its own manifest gives way
\* to the one before it, or stays when there was none.
SingleKeeps(x) ==
    /\ journal[x] = (IF op.pc = "stage" THEN "none" ELSE "open")
    /\ ~op.failing /\ Foreign(x, op.base) /\ Noted(x)
    /\ \E e \in Exam : op.exams = {e}
    /\ op.pc # "stage" => op.cur = op.exams
    /\ IF Stranded(x) THEN InPlace ELSE Restorable(x)

\* the manifest and its copy,
SingleBase(x) ==
    LET b == backup[x] IN
    /\ op.pc = "stage" => Foreign(x, manifest) /\ (manifest.by = op.base.by => manifest = op.base)
    /\ ~op.live /\ op.pc # "stage" => manifest = op.base
    /\ op.live => op.pc \in {"flag", "close", "discard", "hide", "clear", "drop", "back", "refit", "show"}
    /\ op.live /\ op.pc \in {"flag", "close", "hide"} =>
         /\ manifest.by = x
         /\ \A e \in Exam : manifest.entry[e] = IF e \in op.exams THEN x ELSE op.base.entry[e]
    /\ op.live /\ op.pc \in {"clear", "drop", "back", "refit", "show"} => manifest = NoManifest
    /\ op.pc \in {"flag", "close"} => op.live /\ InPlace
    /\ op.pc \in {"stage", "dir", "state", "copy"} => b.base = NoManifest
    /\ op.pc \notin {"stage", "dir", "state", "copy", "discard"} => b.base = op.base
    /\ op.pc = "discard" /\ b.base.by # 0 => manifest = b.base

\* and the files of its exam.
SingleFiles(x) ==
    LET b == backup[x] IN
    /\ op.pc \in {"stage", "dir", "state", "copy", "aside", "stash", "exam", "place", "replace",
                  "flag", "close", "discard", "hide", "clear", "drop", "back", "refit", "show"}
    /\ op.pc \in {"stage", "dir"} => b = NoBackup
    /\ op.pc \in {"state", "copy", "aside", "discard"} => b.script = 0
    /\ op.pc \in {"state", "copy", "aside", "stash", "discard"} => b.res = Nothing
    /\ op.pc = "state" => b.dir
    /\ op.pc \notin {"stage", "dir", "state", "discard"} => b.dir /\ b.state /\ b.exams = op.exams
    /\ op.pc \in {"refit", "show"} /\ ~op.stuck => b.script = 0
    /\ op.pc = "show" /\ ~op.stuck => b.res = Nothing
    /\ \A e \in op.exams :
         /\ op.pc \in {"stash", "exam"} => script[e] = 0
         /\ op.pc \in {"exam", "place"} => resources[e] = 0
         /\ op.pc \in {"place", "replace", "flag", "close"} => script[e] = x
         /\ op.pc \in {"replace", "flag", "close"} => resources[e] = x
         /\ op.pc \in {"hide", "clear"} => script[e] \in {0, x}
         /\ op.pc \in {"hide", "clear", "drop"} => resources[e] \in {0, x}

OwnOpen(x) ==
    /\ x = op.id
    /\ IF kind[x] = "batch" THEN BatchKeeps(x) /\ BatchAt(x)
       ELSE SingleKeeps(x) /\ SingleBase(x) /\ SingleFiles(x)

\* Past the commit point
OwnDone ==
    /\ op.live /\ ~op.failing /\ InPlace
    /\ IF kind[op.id] = "batch"
         THEN op.pc \in {"flag", "discard"} /\ manifest.by = op.id /\ op.id \in releases
         ELSE op.pc = "discard" /\ journal[op.id] = "closed"

(***************************************************************************)
(* What an interrupted publisher left, and a recovery has still to take    *)
(* back.                                                                   *)
(***************************************************************************)
LeftBatch(x) ==
    LET b == backup[x] IN
    /\ ~b.committed /\ Foreign(x, manifest) /\ Noted(x) /\ Restorable(x)
    /\ IF b.base.by # 0 THEN manifest.by = b.base.by ELSE b.hadManifest \/ manifest.by = 0
    /\ op.rec = x => op.pc = "restore"

LeftSingle(x) ==
    LET b == backup[x] IN
    /\ Noted(x)
    /\ b.base.by # 0 =>
         \/ manifest = b.base
         \/ manifest = NoManifest
         \/ manifest.by = x /\ \A e \in Exam : manifest.entry[e] \in {x, b.base.entry[e]}
    /\ b.script # 0 => \E e \in Exam : b.exams = {e}
    /\ IF Stranded(x) THEN InPlace /\ op.rec # x ELSE Restorable(x)
    /\ op.rec = x => op.pc \in {"restore", "discard"}
    /\ op.rec = x /\ op.pc = "discard" => b.base.by = 0 /\ b.script = 0 /\ b.res = Nothing

LeftOpen(x) ==
    /\ x \in Left
    /\ op.pc # "idle" => op.rec = x \/ x \notin op.seen
    /\ IF kind[x] = "batch" THEN LeftBatch(x) ELSE LeftSingle(x)

\* The publication that recovers first: it has done nothing yet, or it is a
\* single one past its commit point whose journal could not be closed.
Waiting(x) ==
    IF op.failing
      THEN op.live /\ kind[op.id] = "single" /\ (x = op.id \/ journal[op.id] = "closed")
      ELSE /\ ~op.live /\ backup[op.id] = NoBackup /\ journal[op.id] = "none"
           /\ op.id \notin op.seen
           /\ Foreign(op.id, manifest) /\ Foreign(op.id, BaseOf(x))
           /\ kind[op.id] = "single" => \E e \in Exam : op.exams = {e}
           /\ op.base = NoManifest /\ op.cur = {} /\ op.noted = {} /\ op.had = {} /\ op.todo = {}

Open(x) ==
    /\ op.rec # 0 => op.rec \in op.seen
    /\ Own /\ x = 0 => OwnDone
    /\ Own /\ x # 0 => OwnOpen(x)
    /\ Own => op.seen = {}
    /\ ~Own /\ x = 0 => InPlace
    /\ ~Own /\ x # 0 => LeftOpen(x)
    /\ Recovering => Waiting(x)

Good(x) == x \in Ids /\ Open(x) /\ Settled(x)
Safe == ~misled => \E x \in Ids : Good(x)

IInv == Types /\ ExportTypes /\ Safe

-------------------------------------------------------------------------------
(* The records *)

LEMMA BoundFacts ==
    ASSUME DiskTypes
    PROVE  /\ used \in Nat /\ MaxPublish \in Nat /\ used <= MaxPublish
           /\ Ids \subseteq Publication /\ 0 \in Ids
           /\ \A p \in Ids : p = 0 \/ p \in Pubs
           /\ \A p \in Ids : p <= used /\ p \in Nat
           /\ Nothing \in [Exam -> Ids] /\ NoManifest \in Written
           /\ NoBackup \in Backups
           /\ \A e \in Exam : Nothing[e] = 0
<1>1. used \in Nat /\ MaxPublish \in Nat /\ used <= MaxPublish
  BY BoundsAssumption DEF DiskTypes, Publication
<1>2. /\ Ids \subseteq Publication /\ 0 \in Ids
      /\ \A p \in Ids : (p = 0 \/ p \in Pubs) /\ p <= used /\ p \in Nat
  BY <1>1 DEF Ids, Publication, Pubs
<1>3. Nothing \in [Exam -> Ids] /\ \A e \in Exam : Nothing[e] = 0
  BY <1>2 DEF Nothing
<1>4. NoManifest \in Written
  BY <1>2, <1>3 DEF NoManifest, Written
<1>5. NoBackup \in Backups
  BY <1>2, <1>3, <1>4 DEF NoBackup, Backups
<1> QED
  BY <1>1, <1>2, <1>3, <1>4, <1>5

\* The publisher's record, field by field
Alike(o, q) ==
    /\ o.id = q.id /\ o.exams = q.exams /\ o.base = q.base
    /\ o.had = q.had /\ o.noted = q.noted /\ o.todo = q.todo

LEMMA IdleFacts ==
    /\ Idle.pc = "idle" /\ Idle.id = 0 /\ Idle.exams = {} /\ Idle.base = NoManifest
    /\ Idle.rec = 0 /\ Idle.seen = {} /\ Idle.todo = {} /\ Idle.cur = {} /\ Idle.noted = {}
    /\ Idle.had = {} /\ Idle.live = FALSE /\ Idle.failing = FALSE /\ Idle.stuck = FALSE
BY DEF Idle

LEMMA IdleType == ASSUME DiskTypes PROVE Idle \in Ops
BY BoundFacts DEF Idle, Ops, Steps, OwnSteps

LEMMA GotoIs ==
    ASSUME op \in Ops, NEW pc \in Steps, op' = [op EXCEPT !.pc = pc]
    PROVE  /\ op' \in Ops /\ op'.pc = pc /\ Alike(op', op) /\ op'.cur = op.cur
           /\ op'.rec = op.rec /\ op'.seen = op.seen
           /\ op'.live = op.live /\ op'.failing = op.failing /\ op'.stuck = op.stuck
<1>1. op' \in Ops
  BY DEF Ops
<1> QED
  BY <1>1 DEF Ops, Alike

\* A publication to recover is picked.
LEMMA PickIs ==
    ASSUME op \in Ops, NEW p \in Ids, p \in Pubs, NEW pc \in Steps,
           op' = [op EXCEPT !.rec = p, !.seen = @ \cup {p}, !.pc = pc]
    PROVE  /\ op' \in Ops /\ op'.pc = pc /\ Alike(op', op) /\ op'.cur = op.cur
           /\ op'.rec = p /\ op'.seen = op.seen \cup {p}
           /\ op'.live = op.live /\ op'.failing = op.failing /\ op'.stuck = op.stuck
<1>1. op' \in Ops
  BY DEF Ops
<1> QED
  BY <1>1 DEF Ops, Alike

\* A recovery goes on with the next publication.
LEMMA ReturnIs ==
    ASSUME op \in Ops, 0 \in Ids, op' = [op EXCEPT !.rec = 0, !.pc = "recover"]
    PROVE  /\ op' \in Ops /\ op'.pc = "recover" /\ Alike(op', op) /\ op'.cur = op.cur
           /\ op'.rec = 0 /\ op'.seen = op.seen
           /\ op'.live = op.live /\ op'.failing = op.failing /\ op'.stuck = op.stuck
<1>1. "recover" \in Steps
  BY DEF Steps
<1>2. op' \in Ops
  BY <1>1 DEF Ops
<1> QED
  BY <1>2 DEF Ops, Alike

LEMMA StartIs ==
    ASSUME DiskTypes, NEW n \in Nat, NEW S \in SUBSET Exam,
           op' = [Idle EXCEPT !.pc = "recover", !.id = n, !.exams = S]
    PROVE  /\ op'.pc = "recover" /\ op'.id = n /\ op'.exams = S /\ op'.base = NoManifest
           /\ op'.rec = 0 /\ op'.seen = {} /\ op'.todo = {} /\ op'.cur = {} /\ op'.noted = {}
           /\ op'.had = {} /\ op'.live = FALSE /\ op'.failing = FALSE /\ op'.stuck = FALSE
           /\ op' = [pc |-> "recover", id |-> n, exams |-> S, base |-> NoManifest,
                     rec |-> 0, seen |-> {}, todo |-> {}, cur |-> {}, noted |-> {},
                     had |-> {}, live |-> FALSE, failing |-> FALSE, stuck |-> FALSE]
BY DEF Idle

\* The publisher reads the manifest it builds on.
LEMMA ReadyIs ==
    ASSUME op \in Ops, manifest \in Written,
           op' = [op EXCEPT !.base = manifest, !.seen = {}, !.pc = "stage"]
    PROVE  /\ op' \in Ops /\ op'.pc = "stage" /\ op'.id = op.id /\ op'.exams = op.exams
           /\ op'.base = manifest /\ op'.rec = op.rec /\ op'.seen = {}
           /\ op'.had = op.had /\ op'.noted = op.noted /\ op'.todo = op.todo /\ op'.cur = op.cur
           /\ op'.live = op.live /\ op'.failing = op.failing /\ op'.stuck = op.stuck
<1>1. "stage" \in Steps
  BY DEF Steps, OwnSteps
<1>2. op' \in Ops
  BY <1>1 DEF Ops
<1> QED
  BY <1>2 DEF Ops

LEMMA TodoIs ==
    ASSUME op \in Ops, op' = [op EXCEPT !.todo = op.exams, !.pc = "next"]
    PROVE  /\ op' \in Ops /\ op'.pc = "next" /\ op'.id = op.id /\ op'.exams = op.exams
           /\ op'.base = op.base /\ op'.rec = op.rec /\ op'.seen = op.seen
           /\ op'.had = op.had /\ op'.noted = op.noted /\ op'.todo = op.exams
           /\ op'.cur = op.cur
           /\ op'.live = op.live /\ op'.failing = op.failing /\ op'.stuck = op.stuck
<1>1. "next" \in Steps
  BY DEF Steps, OwnSteps
<1>2. op' \in Ops
  BY <1>1 DEF Ops
<1> QED
  BY <1>2 DEF Ops

LEMMA NoteIs ==
    ASSUME op \in Ops, NEW e \in Exam, NEW h \in SUBSET Exam, NEW pc \in Steps,
           op' = [op EXCEPT !.todo = @ \ {e}, !.cur = {e}, !.noted = @ \cup {e},
                            !.had = h, !.pc = pc]
    PROVE  /\ op' \in Ops /\ op'.pc = pc /\ op'.id = op.id /\ op'.exams = op.exams
           /\ op'.base = op.base /\ op'.rec = op.rec /\ op'.seen = op.seen
           /\ op'.had = h /\ op'.noted = op.noted \cup {e} /\ op'.todo = op.todo \ {e}
           /\ op'.cur = {e}
           /\ op'.live = op.live /\ op'.failing = op.failing /\ op'.stuck = op.stuck
<1>1. op.todo \ {e} \in SUBSET Exam /\ op.noted \cup {e} \in SUBSET Exam /\ {e} \in SUBSET Exam
  BY DEF Ops
<1>2. op' \in Ops
  BY <1>1 DEF Ops
<1> QED
  BY <1>2 DEF Ops

LEMMA LiveIs ==
    ASSUME op \in Ops, op' = [op EXCEPT !.live = TRUE, !.pc = "flag"]
    PROVE  /\ op' \in Ops /\ op'.pc = "flag" /\ Alike(op', op) /\ op'.cur = op.cur
           /\ op'.rec = op.rec /\ op'.seen = op.seen
           /\ op'.live = TRUE /\ op'.failing = op.failing /\ op'.stuck = op.stuck
<1>1. "flag" \in Steps
  BY DEF Steps, OwnSteps
<1>2. op' \in Ops
  BY <1>1 DEF Ops
<1> QED
  BY <1>2 DEF Ops, Alike

LEMMA FailIs ==
    ASSUME op \in Ops, NEW pc \in Steps, op' = [op EXCEPT !.failing = TRUE, !.pc = pc]
    PROVE  /\ op' \in Ops /\ op'.pc = pc /\ Alike(op', op) /\ op'.cur = op.cur
           /\ op'.rec = op.rec /\ op'.seen = op.seen
           /\ op'.live = op.live /\ op'.failing = TRUE /\ op'.stuck = op.stuck
<1>1. op' \in Ops
  BY DEF Ops
<1> QED
  BY <1>1 DEF Ops, Alike

LEMMA CurIs ==
    ASSUME op \in Ops, op' = [op EXCEPT !.cur = op.exams, !.pc = "dir"]
    PROVE  /\ op' \in Ops /\ op'.pc = "dir" /\ Alike(op', op) /\ op'.cur = op.exams
           /\ op'.rec = op.rec /\ op'.seen = op.seen
           /\ op'.live = op.live /\ op'.failing = op.failing /\ op'.stuck = op.stuck
<1>1. "dir" \in Steps
  BY DEF Steps, OwnSteps
<1>2. op' \in Ops
  BY <1>1 DEF Ops
<1> QED
  BY <1>2 DEF Ops, Alike

LEMMA StuckIs ==
    ASSUME op \in Ops, NEW pc \in Steps, op' = [op EXCEPT !.stuck = TRUE, !.pc = pc]
    PROVE  /\ op' \in Ops /\ op'.pc = pc /\ Alike(op', op) /\ op'.cur = op.cur
           /\ op'.rec = op.rec /\ op'.seen = op.seen
           /\ op'.live = op.live /\ op'.failing = op.failing /\ op'.stuck = TRUE
<1>1. op' \in Ops
  BY DEF Ops
<1> QED
  BY <1>1 DEF Ops, Alike

-------------------------------------------------------------------------------
(* What a step changes *)

Stays ==
    /\ Alike(op', op) /\ op'.cur = op.cur /\ op'.rec = op.rec /\ op'.seen = op.seen
    /\ op'.live = op.live /\ op'.failing = op.failing /\ op'.stuck = op.stuck

Went(pc) == op' \in Ops /\ op'.pc = pc /\ Stays

\* Only the backup of publication x changes.
Only(x) ==
    /\ backup' \in [Pubs -> Backups]
    /\ \A p \in Pubs : p # x => backup'[p] = backup[p]

LEMMA GoesTo ==
    ASSUME op \in Ops, NEW pc \in Steps, Goto(pc)
    PROVE  Went(pc)
BY GotoIs DEF Goto, Went, Stays

LEMMA OwnPub ==
    ASSUME Types, op.pc # "idle"
    PROVE  /\ op.id \in Pubs /\ op.id \in Ids /\ op.id # 0 /\ op.id <= used
           /\ kind[op.id] \in {"batch", "single"}
           /\ target \in Pubs /\ target \in Ids /\ target # 0 /\ target <= used
           /\ kind[target] \in {"batch", "single"}
<1>1. op.id \in Ids /\ op.rec \in Ids
  BY DEF Types, Ops
<1>2. op.id # 0 /\ kind[op.id] \in {"batch", "single"}
      /\ (op.rec # 0 => kind[op.rec] \in {"batch", "single"})
  BY DEF Types, Placed
<1>3. \A p \in Ids : (p = 0 \/ p \in Pubs) /\ p <= used
  BY BoundFacts DEF Types
<1> QED
  BY <1>1, <1>2, <1>3 DEF target

\* The disk keeps its types when one publication that was started changes it.
LEMMA DiskStep ==
    ASSUME DiskTypes, used' = used, kind' = kind,
           manifest' \in Written, manifest'.by = 0 => manifest' = NoManifest,
           script' \in [Exam -> Ids], resources' \in [Exam -> Ids],
           releases' \subseteq Pubs, \A p \in releases' : kind[p] = "batch",
           journal' \in [Pubs -> {"none", "open", "closed"}],
           NEW t \in Pubs, t <= used, Only(t),
           \A p \in Pubs : p # t => journal'[p] = journal[p],
           kind[t] = "batch" => backup'[t].script = 0 /\ journal'[t] = "none"
    PROVE  DiskTypes'
<1>1. used \in Nat
  BY BoundFacts
<1>2. \A p \in Pubs : p > used => p # t
  BY <1>1 DEF Pubs
<1>3. \A p \in Pubs : p > used => Blank(p)'
  BY <1>2 DEF Blank, Only, DiskTypes
<1>4. \A p \in Pubs : kind[p] = "batch" => backup'[p].script = 0 /\ journal'[p] = "none"
  BY DEF Only, DiskTypes
<1>5. Ids' = Ids /\ Written' = Written /\ Backups' = Backups
  BY DEF Ids, Written, Backups
<1> QED
  BY <1>3, <1>4, <1>5 DEF DiskTypes, Only, Pubs

LEMMA DiskSame == ASSUME DiskTypes, UNCHANGED <<disk, used, kind>> PROVE DiskTypes'
BY DEF DiskTypes, disk, Blank, Ids, Written, Backups

\* The publisher's record keeps its types when it goes from step to step.
LEMMA PlacedStep ==
    ASSUME Types, used' = used, kind' = kind, op.pc # "idle", NEW pc \in Steps, Went(pc),
           pc # "idle",
           pc \in OwnSteps \cup {"recover"} => op.rec = 0,
           pc = "restore" => op.rec # 0,
           pc = "unrelease" => kind[target] = "batch"
    PROVE  op' \in Ops' /\ Placed(op)'
<1>1. Ops' = Ops
  BY DEF Ops, Written, Ids
<1> QED
  BY <1>1 DEF Types, Placed, Went, Stays, Alike, target

LEMMA IdleStep ==
    ASSUME Types, used' = used, op' = Idle
    PROVE  op' \in Ops' /\ Placed(op)'
<1>1. Idle \in Ops
  BY IdleType DEF Types
<1>2. Ops' = Ops
  BY DEF Ops, Written, Ids
<1>3. Placed(Idle)'
  BY IdleFacts DEF Placed, OwnSteps
<1> QED
  BY <1>1, <1>2, <1>3 DEF Placed

-------------------------------------------------------------------------------
(* The steps of a recovery *)

StartIsOf(k, S) ==
    /\ op = Idle /\ used' = used + 1 /\ used + 1 \in Pubs /\ Blank(used + 1)
    /\ kind' = [kind EXCEPT ![used + 1] = k]
    /\ op'.pc = "recover" /\ op'.id = used + 1 /\ op'.exams = S /\ op'.base = NoManifest
    /\ op'.rec = 0 /\ op'.seen = {} /\ op'.todo = {} /\ op'.cur = {} /\ op'.noted = {}
    /\ op'.had = {} /\ op'.live = FALSE /\ op'.failing = FALSE
    /\ UNCHANGED disk /\ misled' = misled

\* A publication starts under the next number; nothing is on the disk of it.
LEMMA MoreTypes ==
    ASSUME DiskTypes, used' = used + 1, used < MaxPublish, NEW k \in {"batch", "single", "legacy"},
           kind' = [kind EXCEPT ![used + 1] = k],
           UNCHANGED <<releases, backup, journal>>,
           manifest' \in Written', manifest'.by = 0 => manifest' = NoManifest,
           script' \in [Exam -> Ids'], resources' \in [Exam -> Ids']
    PROVE  /\ DiskTypes' /\ used + 1 \in Pubs /\ Blank(used + 1) /\ used + 1 \in Ids'
           /\ Ids \subseteq Ids' /\ Written \subseteq Written' /\ Backups \subseteq Backups'
           /\ \A p \in Pubs : p # used + 1 => kind'[p] = kind[p]
           /\ kind'[used + 1] = k
           /\ \A p \in Ids : p # used + 1
<1>1. used \in Nat /\ MaxPublish \in Nat
  BY BoundFacts
<1>2. used + 1 \in Pubs /\ used' \in Publication
  BY <1>1 DEF Pubs, Publication
<1>3. Blank(used + 1)
  BY <1>1, <1>2 DEF DiskTypes
<1>4. Ids \subseteq Ids' /\ used + 1 \in Ids' /\ \A p \in Ids : p # used + 1
  BY <1>1 DEF Ids
<1>5. Written \subseteq Written'
  BY <1>4 DEF Written
<1>6. Backups \subseteq Backups'
  BY <1>4, <1>5 DEF Backups
<1>7. /\ kind' \in [Pubs -> {"none", "batch", "single", "legacy"}]
      /\ \A p \in Pubs : p # used + 1 => kind'[p] = kind[p]
      /\ kind'[used + 1] = k
  BY <1>2 DEF DiskTypes
<1>8. \A p \in Pubs : p > used + 1 => p > used /\ p # used + 1
  BY <1>1 DEF Pubs
<1>9. \A p \in Pubs : p > used' => Blank(p)'
  BY <1>7, <1>8 DEF DiskTypes, Blank
<1>10. releases' \subseteq Pubs /\ \A p \in releases' : kind'[p] = "batch"
  <2> SUFFICES ASSUME NEW p \in releases
               PROVE  p \in Pubs /\ kind'[p] = "batch"
    OBVIOUS
  <2>1. p \in Pubs /\ kind[p] = "batch" /\ p # used + 1
    BY <1>3 DEF DiskTypes, Blank
  <2> QED
    BY <2>1, <1>7
<1>11. \A p \in Pubs : kind'[p] = "batch" => backup'[p].script = 0 /\ journal'[p] = "none"
  <2>1. NoBackup.script = 0
    BY DEF NoBackup
  <2> QED
    BY <2>1, <1>3, <1>7 DEF DiskTypes, Blank
<1>12. backup' \in [Pubs -> Backups'] /\ journal' \in [Pubs -> {"none", "open", "closed"}]
  BY <1>6 DEF DiskTypes
<1>13. DiskTypes'
  BY <1>2, <1>7, <1>9, <1>10, <1>11, <1>12 DEF DiskTypes
<1> QED
  BY <1>2, <1>3, <1>4, <1>5, <1>6, <1>7, <1>13

LEMMA WidenOps ==
    ASSUME Ids \subseteq Ids', Written \subseteq Written'
    PROVE  Ops \subseteq Ops'
BY DEF Ops

LEMMA StartTypes ==
    ASSUME Types, NEW k \in {"batch", "single"}, NEW S \in SUBSET Exam, Start(k, S)
    PROVE  StartIsOf(k, S) /\ Types'
<1>1. used \in Nat /\ MaxPublish \in Nat /\ used + 1 \in Nat
  BY BoundFacts DEF Types
<1>2. /\ op = Idle /\ used' = used + 1 /\ used < MaxPublish /\ kind' = [kind EXCEPT ![used + 1] = k]
      /\ op' = [Idle EXCEPT !.pc = "recover", !.id = used + 1, !.exams = S]
      /\ UNCHANGED disk /\ misled' = misled
  BY DEF Start, Types, Placed, At
<1>3. Ids \subseteq Ids' /\ Written \subseteq Written'
  <2>1. Ids \subseteq Ids'
    BY <1>1, <1>2 DEF Ids
  <2> QED
    BY <2>1 DEF Written
<1>4. /\ manifest' \in Written' /\ (manifest'.by = 0 => manifest' = NoManifest)
      /\ script' \in [Exam -> Ids'] /\ resources' \in [Exam -> Ids']
  BY <1>2, <1>3 DEF Types, DiskTypes, disk
<1>5. /\ DiskTypes' /\ used + 1 \in Pubs /\ Blank(used + 1) /\ used + 1 \in Ids'
      /\ kind'[used + 1] = k /\ Written \subseteq Written'
  BY <1>2, <1>4, MoreTypes DEF Types, disk
<1>6. /\ op'.pc = "recover" /\ op'.id = used + 1 /\ op'.exams = S /\ op'.base = NoManifest
      /\ op'.rec = 0 /\ op'.seen = {} /\ op'.todo = {} /\ op'.cur = {} /\ op'.noted = {}
      /\ op'.had = {} /\ op'.live = FALSE /\ op'.failing = FALSE
      /\ op' = [pc |-> "recover", id |-> used + 1, exams |-> S, base |-> NoManifest,
                     rec |-> 0, seen |-> {}, todo |-> {}, cur |-> {}, noted |-> {},
                     had |-> {}, live |-> FALSE, failing |-> FALSE, stuck |-> FALSE]
  BY <1>1, <1>2, StartIs, ZenonT(60) DEF Types
<1>7. NoManifest \in Written' /\ 0 \in Ids'
  BY <1>3, BoundFacts DEF Types
<1>8. op' \in Ops'
  BY <1>5, <1>6, <1>7 DEF Ops, Steps
<1>9. Placed(op)'
  BY <1>1, <1>5, <1>6 DEF Placed, OwnSteps
<1> QED
  BY <1>2, <1>5, <1>6, <1>8, <1>9 DEF StartIsOf, Types

Picks(p, pc) ==
    /\ op.pc = "recover" /\ op.rec = 0 /\ p \in Pubs /\ p \in Ids /\ p \notin op.seen
    /\ op' \in Ops /\ op'.pc = pc /\ Alike(op', op) /\ op'.cur = op.cur
    /\ op'.rec = p /\ op'.seen = op.seen \cup {p}
    /\ op'.live = op.live /\ op'.failing = op.failing
    /\ UNCHANGED <<disk, kind, used>>

\* Only what was started can be left.
LEMMA LeftFacts ==
    ASSUME Types
    PROVE  /\ \A p \in Left : p \in Pubs /\ p \in Ids /\ p # 0 /\ kind[p] \in {"batch", "single"}
           /\ \A p \in BatchLeft : p \in Left /\ kind[p] = "batch" /\ backup[p].state
           /\ \A p \in SingleLeft : p \in Left /\ kind[p] = "single" /\ journal[p] = "open"
<1>1. used \in Nat
  BY BoundFacts DEF Types
<1>2. \A p \in Pubs : kind[p] \in {"batch", "single"} => p \in Ids /\ p # 0
  <2> SUFFICES ASSUME NEW p \in Pubs, kind[p] \in {"batch", "single"}
               PROVE  p \in Ids /\ p # 0
    OBVIOUS
  <2>1. ~(p > used)
    BY DEF Types, DiskTypes, Blank
  <2> QED
    BY <1>1, <2>1 DEF Pubs, Ids
<1> QED
  BY <1>2 DEF Left, BatchLeft, SingleLeft

LEMMA PickTypes ==
    ASSUME Types, NEW p, NEW pc \in {"discard", "restore"}, Picks(p, pc),
           kind[p] \in {"batch", "single"}
    PROVE  Types'
<1>1. DiskTypes'
  BY DiskSame DEF Types, Picks
<1>2. Ops' = Ops
  BY DEF Ops, Written, Ids, Picks
<1>3. op.id # 0 /\ kind[op.id] \in {"batch", "single"} /\ p # 0
  BY OwnPub DEF Picks, Pubs
<1>4. Placed(op)'
  BY <1>3 DEF Types, Placed, Picks, Alike, OwnSteps
<1> QED
  BY <1>1, <1>2, <1>4 DEF Types, Picks

LEMMA RecoverBatchTypes ==
    ASSUME Types, RecoverBatch
    PROVE  /\ Types' /\ misled' = misled
           /\ \E p \in BatchLeft : Picks(p, IF Committed(p) THEN "discard" ELSE "restore")
<1>1. PICK p \in BatchLeft \ op.seen :
        op' = [op EXCEPT !.rec = p, !.seen = @ \cup {p},
                         !.pc = IF Committed(p) THEN "discard" ELSE "restore"]
  BY DEF RecoverBatch
<1>2. PICK pc : pc = IF Committed(p) THEN "discard" ELSE "restore"
  OBVIOUS
<1>3. pc \in {"discard", "restore"} /\ pc \in Steps
  BY <1>2 DEF Steps
<1>4. p \in Pubs /\ p \in Ids /\ p \notin op.seen /\ kind[p] = "batch"
  BY LeftFacts, <1>1
<1>5. op' = [op EXCEPT !.rec = p, !.seen = @ \cup {p}, !.pc = pc]
  BY <1>1, <1>2
<1>6. op.pc = "recover" /\ op.rec = 0 /\ op \in Ops
  BY DEF RecoverBatch, At, Types, Placed
<1>7. Picks(p, pc)
  BY <1>3, <1>4, <1>5, <1>6, PickIs, ZenonT(60) DEF RecoverBatch, Quiet, Picks
<1>8. Types'
  BY <1>3, <1>4, <1>7, PickTypes
<1> QED
  BY <1>1, <1>2, <1>7, <1>8 DEF RecoverBatch, Quiet

LEMMA RecoverSingleTypes ==
    ASSUME Types, RecoverSingle
    PROVE  /\ Types'
           /\ \E p \in SingleLeft : Picks(p, "restore") /\ (~misled' => ~misled /\ ~Stranded(p))
<1>1. PICK p \in SingleLeft \ op.seen :
        /\ op' = [op EXCEPT !.rec = p, !.seen = @ \cup {p}, !.pc = "restore"]
        /\ misled' = (misled \/ Stranded(p))
  BY DEF RecoverSingle
<1>2. "restore" \in Steps /\ "restore" \in {"discard", "restore"}
  BY DEF Steps
<1>3. p \in Pubs /\ p \in Ids /\ p \notin op.seen /\ kind[p] = "single"
  BY LeftFacts, <1>1
<1>4. op.pc = "recover" /\ op.rec = 0 /\ op \in Ops
  BY DEF RecoverSingle, At, Types, Placed
<1>5. Picks(p, "restore")
  BY <1>1, <1>2, <1>3, <1>4, PickIs DEF RecoverSingle, Picks
<1>6. Types'
  BY <1>2, <1>3, <1>5, PickTypes
<1> QED
  BY <1>1, <1>5, <1>6

\* A publisher ends, by itself or by a crash: the disk is left as it is.
LEMMA EndTypes ==
    ASSUME Types, op' = Idle, UNCHANGED <<disk, kind, used>>
    PROVE  Types'
BY DiskSame, IdleStep DEF Types

LEMMA RecoveredTypes ==
    ASSUME Types, Recovered
    PROVE  /\ Types' /\ misled' = misled /\ UNCHANGED <<disk, kind, used>>
           /\ op.pc = "recover" /\ op.rec = 0 /\ Left \subseteq op.seen
           /\ op.failing => op' = Idle
           /\ ~op.failing =>
                /\ op'.pc = "stage" /\ op'.id = op.id /\ op'.exams = op.exams
                /\ op'.base = manifest /\ op'.rec = 0 /\ op'.seen = {}
                /\ op'.had = op.had /\ op'.noted = op.noted /\ op'.todo = op.todo
                /\ op'.cur = op.cur /\ op'.live = op.live /\ op'.failing = op.failing
<1>1. /\ op.pc = "recover" /\ op.rec = 0 /\ op \in Ops /\ manifest \in Written
      /\ Left \subseteq op.seen /\ misled' = misled /\ UNCHANGED <<disk, kind, used>>
  BY DEF Recovered, At, Quiet, Types, DiskTypes, Placed
<1>2. CASE op.failing
  <2>1. op' = Idle
    BY <1>2 DEF Recovered
  <2> QED
    BY <1>1, <1>2, <2>1, EndTypes
<1>3. CASE ~op.failing
  <2>1. /\ op' \in Ops /\ op'.pc = "stage" /\ op'.id = op.id /\ op'.exams = op.exams
        /\ op'.base = manifest /\ op'.rec = op.rec /\ op'.seen = {}
        /\ op'.had = op.had /\ op'.noted = op.noted /\ op'.todo = op.todo /\ op'.cur = op.cur
        /\ op'.live = op.live /\ op'.failing = op.failing
    BY <1>1, <1>3, ReadyIs DEF Recovered
  <2>2. DiskTypes'
    BY <1>1, DiskSame DEF Types
  <2>3. Ops' = Ops
    BY <1>1 DEF Ops, Written, Ids
  <2>4. op.id # 0 /\ kind[op.id] \in {"batch", "single"}
    BY <1>1, OwnPub
  <2>5. Placed(op)'
    BY <1>1, <2>1, <2>4 DEF Types, Placed, OwnSteps
  <2> QED
    BY <1>1, <1>3, <2>1, <2>2, <2>3, <2>5 DEF Types
<1> QED
  BY <1>2, <1>3

\* A file of the backup of publication t is put back, or the one in its place
\* is removed.
PutsBack(t) ==
    LET b == backup[t]
        c == backup'[t] IN
    /\ Only(t) /\ c.dir = b.dir /\ c.base = b.base /\ c.state = b.state
    /\ c.committed = b.committed /\ c.hadManifest = b.hadManifest /\ c.exams = b.exams
    /\ \/ /\ script' = script /\ c.script = b.script
          /\ \E e \in b.exams :
               /\ b.res[e] # 0
               /\ \A d \in Exam : d # e => c.res[d] = b.res[d] /\ resources'[d] = resources[d]
               /\ \/ c.res[e] = b.res[e] /\ resources'[e] = 0
                  \/ c.res[e] = 0 /\ resources'[e] = b.res[e]
       \/ /\ resources' = resources /\ c.res = b.res
          /\ \E e \in b.exams :
               /\ b.script # 0
               /\ \A d \in Exam : d # e => script'[d] = script[d]
               /\ \/ c.script = b.script /\ script'[e] = 0
                  \/ c.script = 0 /\ script'[e] = b.script

LEMMA RecordFacts ==
    ASSUME Types, NEW p \in Pubs
    PROVE  /\ backup[p] \in Backups /\ backup[p].res \in [Exam -> Ids] /\ backup[p].script \in Ids
           /\ backup[p].base \in Written /\ backup[p].exams \subseteq Exam
           /\ backup[p].state \in BOOLEAN /\ backup[p].dir \in BOOLEAN
           /\ backup[p].committed \in BOOLEAN /\ backup[p].hadManifest \in BOOLEAN
BY DEF Types, DiskTypes, Backups

LEMMA PutBackTypes ==
    ASSUME Types, op.pc # "idle", PutBack, UNCHANGED <<manifest, releases, journal, kind, used>>
    PROVE  PutsBack(target) /\ DiskTypes'
<1>1. PICK t : t = target
  OBVIOUS
<1>2. t \in Pubs /\ t <= used /\ kind[t] \in {"batch", "single"}
  BY <1>1, OwnPub
<1>3. /\ backup[t] \in Backups /\ backup[t].res \in [Exam -> Ids] /\ backup[t].script \in Ids
      /\ backup[t].exams \subseteq Exam
      /\ backup \in [Pubs -> Backups]
  BY <1>2, RecordFacts DEF Types, DiskTypes
<1>4. 0 \in Ids
  BY BoundFacts DEF Types
<1>5. script \in [Exam -> Ids] /\ resources \in [Exam -> Ids]
  BY DEF Types, DiskTypes
<1>6. /\ PutsBack(t) /\ script' \in [Exam -> Ids] /\ resources' \in [Exam -> Ids]
      /\ backup'[t].script \in {0, backup[t].script}
  <2>1. CASE \E e \in BackupOfRes :
               /\ resources[e] # 0
               /\ resources' = [resources EXCEPT ![e] = 0]
               /\ UNCHANGED <<script, backup>>
    <3>1. PICK e \in backup[t].exams :
             /\ backup[t].res[e] # 0 /\ resources' = [resources EXCEPT ![e] = 0]
             /\ UNCHANGED <<script, backup>>
      BY <1>1, <2>1 DEF BackupOfRes
    <3>2. /\ resources' \in [Exam -> Ids] /\ resources'[e] = 0
          /\ \A d \in Exam : d # e => resources'[d] = resources[d]
      BY <1>3, <1>4, <1>5, <3>1
    <3> QED
      BY <1>3, <1>5, <3>1, <3>2 DEF PutsBack, Only
  <2>2. CASE \E e \in BackupOfRes :
               /\ resources[e] = 0
               /\ resources' = [resources EXCEPT ![e] = backup[target].res[e]]
               /\ backup' = [backup EXCEPT ![target].res[e] = 0]
               /\ UNCHANGED script
    <3>1. PICK e \in backup[t].exams :
             /\ backup[t].res[e] # 0 /\ resources' = [resources EXCEPT ![e] = backup[t].res[e]]
             /\ backup' = [backup EXCEPT ![t].res[e] = 0]
             /\ UNCHANGED script
      BY <1>1, <2>2 DEF BackupOfRes
    <3>2. /\ resources' \in [Exam -> Ids] /\ resources'[e] = backup[t].res[e]
          /\ \A d \in Exam : d # e => resources'[d] = resources[d]
      BY <1>3, <1>4, <1>5, <3>1
    <3>3. /\ Only(t) /\ backup'[t].res = [backup[t].res EXCEPT ![e] = 0]
          /\ backup'[t].dir = backup[t].dir /\ backup'[t].base = backup[t].base
          /\ backup'[t].state = backup[t].state /\ backup'[t].committed = backup[t].committed
          /\ backup'[t].hadManifest = backup[t].hadManifest /\ backup'[t].exams = backup[t].exams
          /\ backup'[t].script = backup[t].script
      BY <1>2, <1>3, <1>4, <3>1 DEF Only, Backups
    <3> QED
      BY <1>3, <1>5, <3>1, <3>2, <3>3 DEF PutsBack
  <2>3. CASE \E e \in BackupOfScript :
               /\ script[e] # 0
               /\ script' = [script EXCEPT ![e] = 0]
               /\ UNCHANGED <<resources, backup>>
    <3>1. PICK e \in backup[t].exams :
             /\ backup[t].script # 0 /\ script' = [script EXCEPT ![e] = 0]
             /\ UNCHANGED <<resources, backup>>
      BY <1>1, <2>3 DEF BackupOfScript
    <3>2. /\ script' \in [Exam -> Ids] /\ script'[e] = 0
          /\ \A d \in Exam : d # e => script'[d] = script[d]
      BY <1>3, <1>4, <1>5, <3>1
    <3> QED
      BY <1>3, <1>5, <3>1, <3>2 DEF PutsBack, Only
  <2>4. CASE \E e \in BackupOfScript :
               /\ script[e] = 0
               /\ script' = [script EXCEPT ![e] = backup[target].script]
               /\ backup' = [backup EXCEPT ![target].script = 0]
               /\ UNCHANGED resources
    <3>1. PICK e \in backup[t].exams :
             /\ backup[t].script # 0 /\ script' = [script EXCEPT ![e] = backup[t].script]
             /\ backup' = [backup EXCEPT ![t].script = 0]
             /\ UNCHANGED resources
      BY <1>1, <2>4 DEF BackupOfScript
    <3>2. /\ script' \in [Exam -> Ids] /\ script'[e] = backup[t].script
          /\ \A d \in Exam : d # e => script'[d] = script[d]
      BY <1>3, <1>4, <1>5, <3>1
    <3>3. /\ Only(t) /\ backup'[t].res = backup[t].res /\ backup'[t].script = 0
          /\ backup'[t].dir = backup[t].dir /\ backup'[t].base = backup[t].base
          /\ backup'[t].state = backup[t].state /\ backup'[t].committed = backup[t].committed
          /\ backup'[t].hadManifest = backup[t].hadManifest /\ backup'[t].exams = backup[t].exams
      BY <1>2, <1>3, <1>4, <3>1 DEF Only, Backups
    <3> QED
      BY <1>3, <1>5, <3>1, <3>2, <3>3 DEF PutsBack
  <2> QED
    BY <2>1, <2>2, <2>3, <2>4 DEF PutBack
<1>7. kind[t] = "batch" => backup'[t].script = 0 /\ journal'[t] = "none"
  BY <1>2, <1>6 DEF Types, DiskTypes
<1>8. /\ manifest' \in Written /\ (manifest'.by = 0 => manifest' = NoManifest)
      /\ releases' \subseteq Pubs /\ (\A p \in releases' : kind[p] = "batch")
      /\ journal' \in [Pubs -> {"none", "open", "closed"}]
      /\ \A p \in Pubs : journal'[p] = journal[p]
  BY DEF Types, DiskTypes
<1>9. DiskTypes'
  <2>1. Only(t)
    BY <1>6 DEF PutsBack
  <2> QED
    BY <1>2, <1>6, <1>7, <1>8, <2>1, DiskStep DEF Types
<1> QED
  BY <1>1, <1>6, <1>9

LEMMA RestoreTypes ==
    ASSUME Types, Restore
    PROVE  /\ Types' /\ PutsBack(op.rec) /\ op.pc = "restore" /\ op.rec # 0 /\ target = op.rec
           /\ op' = op /\ UNCHANGED <<manifest, releases, journal, kind, used, misled>>
<1>1. /\ op.pc = "restore" /\ op.rec # 0 /\ PutBack /\ op' = op
      /\ UNCHANGED <<manifest, releases, journal, kind, used, misled>>
  BY DEF Restore, At, Quiet, Types, Placed
<1>2. PutsBack(target) /\ DiskTypes'
  BY <1>1, PutBackTypes
<1>3. Ops' = Ops /\ Placed(op)'
  BY <1>1 DEF Ops, Written, Ids, Placed, Types
<1> QED
  BY <1>1, <1>2, <1>3 DEF Types, target

\* The backup of publication t loses its copy of the manifest, or keeps it;
\* nothing else of it changes.
SameButBase(t) ==
    LET b == backup[t]
        c == backup'[t] IN
    /\ Only(t) /\ c.dir = b.dir /\ c.res = b.res /\ c.script = b.script /\ c.state = b.state
    /\ c.committed = b.committed /\ c.hadManifest = b.hadManifest /\ c.exams = b.exams

\* The copy of the manifest goes back: a single publication's always, a batch's
\* baseline unless it is what is there.
PutsBase(t) ==
    /\ backup[t].base.by # 0
    /\ kind[t] = "batch" => manifest.by # backup[t].base.by

LEMMA RestoreManifestTypes ==
    ASSUME Types, RestoreManifest
    PROVE  /\ Types' /\ op.pc = "restore" /\ op.rec # 0 /\ op.rec \in Pubs /\ target = op.rec
           /\ op'.pc = (IF kind[op.rec] = "batch" THEN "unrelease" ELSE "discard") /\ Stays
           /\ SameButBase(op.rec)
           /\ IF PutsBase(op.rec)
                THEN manifest' = backup[op.rec].base /\ backup'[op.rec].base = NoManifest
                ELSE manifest' = manifest /\ backup' = backup
           /\ \A e \in backup[op.rec].exams : backup[op.rec].res[e] = 0 /\ backup[op.rec].script = 0
           /\ UNCHANGED <<script, resources, releases, journal, kind, used, misled>>
<1>1. PICK t : t = target
  OBVIOUS
<1>2. /\ op.pc = "restore" /\ op.rec # 0 /\ op.rec = t
      /\ UNCHANGED <<script, resources, releases, journal, kind, used, misled>>
  BY <1>1 DEF RestoreManifest, At, Quiet, Types, Placed, target
<1>3. t \in Pubs /\ t <= used /\ kind[t] \in {"batch", "single"}
  BY <1>1, <1>2, OwnPub
<1>4. \A e \in backup[t].exams : backup[t].res[e] = 0 /\ backup[t].script = 0
  BY <1>1 DEF RestoreManifest, BackupOfRes, BackupOfScript
<1>5. PICK pc : pc = IF kind[t] = "batch" THEN "unrelease" ELSE "discard"
  OBVIOUS
<1>6. pc \in Steps /\ pc \in {"unrelease", "discard"} /\ Goto(pc)
  BY <1>1, <1>5 DEF RestoreManifest, Steps
<1>7. Went(pc)
  BY <1>6, GoesTo DEF Types
<1>8. /\ backup \in [Pubs -> Backups] /\ backup[t] \in Backups /\ NoManifest \in Written
      /\ backup[t].base \in Written
      /\ manifest \in Written /\ (manifest.by = 0 => manifest = NoManifest)
  BY <1>3, RecordFacts, BoundFacts DEF Types, DiskTypes
<1>9. /\ SameButBase(t) /\ manifest' \in Written /\ (manifest'.by = 0 => manifest' = NoManifest)
      /\ IF PutsBase(t)
           THEN manifest' = backup[t].base /\ backup'[t].base = NoManifest
           ELSE manifest' = manifest /\ backup' = backup
  <2>1. CASE PutsBase(t)
    <3>1. /\ manifest' = backup[t].base /\ backup' = [backup EXCEPT ![t].base = NoManifest]
          /\ backup[t].base.by # 0
      BY <1>1, <2>1 DEF RestoreManifest, PutsBase
    <3> QED
      BY <1>3, <1>8, <2>1, <3>1 DEF SameButBase, Only, Backups
  <2>2. CASE ~PutsBase(t)
    <3>1. manifest' = manifest /\ backup' = backup
      BY <1>1, <2>2 DEF RestoreManifest, PutsBase
    <3> QED
      BY <1>3, <1>8, <2>2, <3>1 DEF SameButBase, Only, Backups
  <2> QED
    BY <2>1, <2>2
<1>10. /\ script' \in [Exam -> Ids] /\ resources' \in [Exam -> Ids]
       /\ releases' \subseteq Pubs /\ (\A p \in releases' : kind[p] = "batch")
       /\ journal' \in [Pubs -> {"none", "open", "closed"}]
       /\ \A p \in Pubs : journal'[p] = journal[p]
       /\ kind[t] = "batch" => backup'[t].script = 0 /\ journal'[t] = "none"
  BY <1>2, <1>3, <1>9 DEF Types, DiskTypes, SameButBase
<1>11. DiskTypes'
  BY <1>2, <1>3, <1>9, <1>10, DiskStep DEF Types, SameButBase
<1>12. op' \in Ops' /\ Placed(op)'
  BY <1>1, <1>2, <1>5, <1>6, <1>7, PlacedStep DEF OwnSteps
<1> QED
  BY <1>1, <1>2, <1>3, <1>4, <1>5, <1>7, <1>9, <1>11, <1>12 DEF Types, Went

LEMMA UnreleaseTypes ==
    ASSUME Types, Unrelease
    PROVE  /\ Types' /\ op.pc = "unrelease" /\ kind[target] = "batch"
           /\ releases' = releases \ {target}
           /\ op.rec = 0 => op' = Idle
           /\ op.rec # 0 => op'.pc = "discard" /\ Stays
           /\ UNCHANGED <<manifest, script, resources, backup, journal, kind, used, misled>>
<1>1. /\ op.pc = "unrelease" /\ kind[target] = "batch" /\ releases' = releases \ {target}
      /\ UNCHANGED <<manifest, script, resources, backup, journal, kind, used, misled>>
  BY DEF Unrelease, At, Quiet, Types, Placed, target
<1>2. DiskTypes'
  BY <1>1 DEF Types, DiskTypes, Blank, Ids, Written, Backups
<1>3. CASE op.rec = 0
  <2>1. op' = Idle
    BY <1>3 DEF Unrelease
  <2> QED
    BY <1>1, <1>2, <1>3, <2>1, IdleStep DEF Types
<1>4. CASE op.rec # 0
  <2>1. "discard" \in Steps
    BY DEF Steps
  <2>2. Went("discard")
    BY <1>4, <2>1, GoesTo DEF Unrelease, Types
  <2>3. op' \in Ops' /\ Placed(op)'
    BY <1>1, <2>1, <2>2, PlacedStep DEF OwnSteps
  <2> QED
    BY <1>1, <1>2, <1>4, <2>2, <2>3 DEF Types, Went
<1> QED
  BY <1>3, <1>4

\* The backup of publication t loses one of its parts.
DropsPart(t) ==
    LET b == backup[t]
        c == backup'[t] IN
    /\ Only(t) /\ c.dir = b.dir /\ c.committed = b.committed
    /\ c.hadManifest = b.hadManifest /\ c.exams = b.exams
    /\ \/ c.base = NoManifest /\ c.state = b.state /\ c.res = b.res /\ c.script = b.script
       \/ c.base = b.base /\ c.state = FALSE /\ c.res = b.res /\ c.script = b.script
       \/ c.base = b.base /\ c.state = b.state /\ c.res = Nothing /\ c.script = b.script
       \/ c.base = b.base /\ c.state = b.state /\ c.res = b.res /\ c.script = 0

LEMMA DropPartTypes ==
    ASSUME Types, DropPart
    PROVE  /\ Types' /\ op.pc = "discard" /\ DropsPart(target) /\ op' = op
           /\ UNCHANGED <<manifest, script, resources, releases, journal, kind, used, misled>>
<1>1. PICK t : t = target
  OBVIOUS
<1>2. /\ op.pc = "discard" /\ op' = op
      /\ UNCHANGED <<manifest, script, resources, releases, journal, kind, used, misled>>
  BY <1>1 DEF DropPart, At, Quiet
<1>3. t \in Pubs /\ t <= used
  BY <1>1, <1>2, OwnPub
<1>4. /\ backup \in [Pubs -> Backups] /\ backup[t] \in Backups /\ NoManifest \in Written
      /\ Nothing \in [Exam -> Ids] /\ 0 \in Ids
  BY <1>3, RecordFacts, BoundFacts DEF Types, DiskTypes
<1>5. \/ backup' = [backup EXCEPT ![t].base = NoManifest]
      \/ backup' = [backup EXCEPT ![t].state = FALSE]
      \/ backup' = [backup EXCEPT ![t].res = Nothing]
      \/ backup' = [backup EXCEPT ![t].script = 0]
  BY <1>1 DEF DropPart
<1>6. DropsPart(t)
  <2>1. CASE backup' = [backup EXCEPT ![t].base = NoManifest]
    <3>1. /\ Only(t) /\ backup'[t].base = NoManifest
          /\ backup'[t].dir = backup[t].dir /\ backup'[t].res = backup[t].res
          /\ backup'[t].script = backup[t].script /\ backup'[t].state = backup[t].state
          /\ backup'[t].committed = backup[t].committed /\ backup'[t].hadManifest = backup[t].hadManifest
          /\ backup'[t].exams = backup[t].exams
      BY <1>3, <1>4, <2>1 DEF Only, Backups
    <3> QED
      BY <3>1 DEF DropsPart
  <2>2. CASE backup' = [backup EXCEPT ![t].state = FALSE]
    <3>1. /\ Only(t) /\ backup'[t].state = FALSE
          /\ backup'[t].dir = backup[t].dir /\ backup'[t].base = backup[t].base
          /\ backup'[t].res = backup[t].res /\ backup'[t].script = backup[t].script
          /\ backup'[t].committed = backup[t].committed /\ backup'[t].hadManifest = backup[t].hadManifest
          /\ backup'[t].exams = backup[t].exams
      BY <1>3, <1>4, <2>2 DEF Only, Backups
    <3> QED
      BY <3>1 DEF DropsPart
  <2>3. CASE backup' = [backup EXCEPT ![t].res = Nothing]
    <3>1. /\ Only(t) /\ backup'[t].res = Nothing
          /\ backup'[t].dir = backup[t].dir /\ backup'[t].base = backup[t].base
          /\ backup'[t].script = backup[t].script /\ backup'[t].state = backup[t].state
          /\ backup'[t].committed = backup[t].committed /\ backup'[t].hadManifest = backup[t].hadManifest
          /\ backup'[t].exams = backup[t].exams
      BY <1>3, <1>4, <2>3 DEF Only, Backups
    <3> QED
      BY <3>1 DEF DropsPart
  <2>4. CASE backup' = [backup EXCEPT ![t].script = 0]
    <3>1. /\ Only(t) /\ backup'[t].script = 0
          /\ backup'[t].dir = backup[t].dir /\ backup'[t].base = backup[t].base
          /\ backup'[t].res = backup[t].res /\ backup'[t].state = backup[t].state
          /\ backup'[t].committed = backup[t].committed /\ backup'[t].hadManifest = backup[t].hadManifest
          /\ backup'[t].exams = backup[t].exams
      BY <1>3, <1>4, <2>4 DEF Only, Backups
    <3> QED
      BY <3>1 DEF DropsPart
  <2> QED
    BY <1>5, <2>1, <2>2, <2>3, <2>4
<1>7. kind[t] = "batch" => backup'[t].script = 0 /\ journal'[t] = "none"
  BY <1>2, <1>3, <1>6 DEF DropsPart, Types, DiskTypes
<1>8. /\ manifest' \in Written /\ (manifest'.by = 0 => manifest' = NoManifest)
      /\ script' \in [Exam -> Ids] /\ resources' \in [Exam -> Ids]
      /\ releases' \subseteq Pubs /\ (\A p \in releases' : kind[p] = "batch")
      /\ journal' \in [Pubs -> {"none", "open", "closed"}]
      /\ \A p \in Pubs : journal'[p] = journal[p]
  BY <1>2 DEF Types, DiskTypes
<1>9. DiskTypes'
  BY <1>2, <1>3, <1>6, <1>7, <1>8, DiskStep DEF Types, DropsPart
<1>10. Ops' = Ops /\ Placed(op)'
  BY <1>2 DEF Ops, Written, Ids, Placed, Types
<1> QED
  BY <1>1, <1>2, <1>6, <1>9, <1>10 DEF Types

\* The step after the removal of a backup directory
LEMMA AfterTypes ==
    ASSUME Types, op.pc = "discard", op' = AfterDiscard, used' = used, kind' = kind
    PROVE  /\ op' \in Ops' /\ Placed(op)'
           /\ op.rec # 0 => op'.pc = "recover" /\ Alike(op', op) /\ op'.rec = 0 /\ op'.cur = op.cur
                            /\ op'.seen = op.seen /\ op'.live = op.live /\ op'.failing = op.failing
           /\ op.rec = 0 /\ kind[op.id] = "batch" /\ op.failing => op'.pc = "unrelease" /\ Stays
           /\ op.rec = 0 /\ ~(kind[op.id] = "batch" /\ op.failing) => op' = Idle
<1>1. op.id # 0 /\ kind[op.id] \in {"batch", "single"} /\ 0 \in Ids /\ op \in Ops
  BY OwnPub, BoundFacts DEF Types
<1>2. Ops' = Ops
  BY DEF Ops, Written, Ids
<1>3. CASE op.rec # 0
  <2>1. op' = [op EXCEPT !.rec = 0, !.pc = "recover"]
    BY <1>3 DEF AfterDiscard
  <2>2. /\ op' \in Ops /\ op'.pc = "recover" /\ Alike(op', op) /\ op'.rec = 0 /\ op'.cur = op.cur
        /\ op'.seen = op.seen /\ op'.live = op.live /\ op'.failing = op.failing
    BY <1>1, <2>1, ReturnIs
  <2>3. Placed(op)'
    BY <1>1, <2>2 DEF Types, Placed, Alike, OwnSteps
  <2> QED
    BY <1>2, <1>3, <2>2, <2>3
<1>4. CASE op.rec = 0 /\ kind[op.id] = "batch" /\ op.failing
  <2>1. op' = [op EXCEPT !.pc = "unrelease"] /\ "unrelease" \in Steps
    BY <1>4 DEF AfterDiscard, Steps
  <2>2. Went("unrelease")
    BY <1>1, <2>1, GoesTo DEF Goto
  <2>3. op' \in Ops' /\ Placed(op)'
    BY <1>4, <2>1, <2>2, PlacedStep DEF OwnSteps, target
  <2> QED
    BY <1>4, <2>2, <2>3 DEF Went
<1>5. CASE op.rec = 0 /\ ~(kind[op.id] = "batch" /\ op.failing)
  <2>1. op' = Idle
    BY <1>5 DEF AfterDiscard
  <2> QED
    BY <1>5, <2>1, IdleStep
<1> QED
  BY <1>3, <1>4, <1>5

LEMMA DiscardedTypes ==
    ASSUME Types, Discarded
    PROVE  /\ Types' /\ op.pc = "discard" /\ op' = AfterDiscard
           /\ Only(target) /\ backup'[target] = NoBackup
           /\ backup[target].base.by = 0 /\ backup[target].res = Nothing
           /\ backup[target].script = 0 /\ ~backup[target].state
           /\ \A p \in Pubs : p # target => journal'[p] = journal[p]
           /\ journal'[target] = (IF kind[target] = "single" /\ op.rec # 0 THEN "closed"
                                  ELSE journal[target])
           /\ UNCHANGED <<manifest, script, resources, releases, kind, used, misled>>
<1>1. PICK t : t = target
  OBVIOUS
<1>2. /\ op.pc = "discard" /\ op' = AfterDiscard
      /\ backup[t].base.by = 0 /\ backup[t].res = Nothing
      /\ backup[t].script = 0 /\ ~backup[t].state
      /\ backup' = [backup EXCEPT ![t] = NoBackup]
      /\ journal' = IF kind[t] = "single" /\ op.rec # 0
                    THEN [journal EXCEPT ![t] = "closed"] ELSE journal
      /\ UNCHANGED <<manifest, script, resources, releases, kind, used, misled>>
  BY <1>1 DEF Discarded, At, Quiet
<1>3. t \in Pubs /\ t <= used
  BY <1>1, <1>2, OwnPub
<1>4. /\ backup \in [Pubs -> Backups] /\ NoBackup \in Backups
      /\ journal \in [Pubs -> {"none", "open", "closed"}]
  BY BoundFacts DEF Types, DiskTypes
<1>5. Only(t) /\ backup'[t] = NoBackup
  BY <1>2, <1>3, <1>4 DEF Only
<1>6. /\ journal' \in [Pubs -> {"none", "open", "closed"}]
      /\ \A p \in Pubs : p # t => journal'[p] = journal[p]
      /\ journal'[t] = (IF kind[t] = "single" /\ op.rec # 0 THEN "closed" ELSE journal[t])
  BY <1>2, <1>3, <1>4
<1>7. kind[t] = "batch" => backup'[t].script = 0 /\ journal'[t] = "none"
  BY <1>3, <1>5, <1>6 DEF Types, DiskTypes, NoBackup
<1>8. /\ manifest' \in Written /\ (manifest'.by = 0 => manifest' = NoManifest)
      /\ script' \in [Exam -> Ids] /\ resources' \in [Exam -> Ids]
      /\ releases' \subseteq Pubs /\ (\A p \in releases' : kind[p] = "batch")
  BY <1>2 DEF Types, DiskTypes
<1>9. DiskTypes'
  BY <1>2, <1>3, <1>5, <1>6, <1>7, <1>8, DiskStep DEF Types
<1>10. op' \in Ops' /\ Placed(op)'
  BY <1>2, AfterTypes
<1> QED
  BY <1>1, <1>2, <1>5, <1>6, <1>9, <1>10 DEF Types

LEMMA DiscardFailsTypes ==
    ASSUME Types, DiscardFails
    PROVE  /\ Types' /\ op.pc = "discard" /\ UNCHANGED <<disk, kind, used>>
           /\ IF op.rec # 0 /\ kind[op.rec] = "single" THEN op' = Idle ELSE op' = AfterDiscard
           /\ ~misled' => /\ ~misled
                          /\ kind[target] = "batch" /\ backup[target].state =>
                               backup[target].committed \/ backup[target].base.by # 0
<1>1. /\ op.pc = "discard" /\ UNCHANGED <<disk, kind, used>>
      /\ IF op.rec # 0 /\ kind[op.rec] = "single" THEN op' = Idle ELSE op' = AfterDiscard
      /\ ~misled' => /\ ~misled
                     /\ kind[target] = "batch" /\ backup[target].state =>
                          backup[target].committed \/ backup[target].base.by # 0
  BY DEF DiscardFails, At
<1>2. op' \in Ops' /\ Placed(op)'
  BY <1>1, AfterTypes, IdleStep
<1> QED
  BY <1>1, <1>2, DiskSame DEF Types

LEMMA RecoveryFailsTypes ==
    ASSUME Types, RecoveryFails
    PROVE  /\ Types' /\ op' = Idle /\ op.rec # 0 /\ op.pc \in {"restore", "unrelease"}
           /\ UNCHANGED <<disk, kind, used, misled>>
<1>1. /\ op' = Idle /\ op.rec # 0 /\ op.pc \in {"restore", "unrelease"}
      /\ UNCHANGED <<disk, kind, misled>> /\ used' = used
  BY DEF RecoveryFails, At, Fails
<1> QED
  BY <1>1, EndTypes

LEMMA RefusedTypes ==
    ASSUME Types, RecoveryRefused
    PROVE  /\ Types' /\ op' = Idle /\ op.pc = "recover" /\ op.rec = 0
           /\ UNCHANGED <<disk, kind, used, misled>>
<1>1. /\ op' = Idle /\ op.pc = "recover" /\ op.rec = 0
      /\ UNCHANGED <<disk, kind, used, misled>>
  BY DEF RecoveryRefused, At, Quiet, Types, Placed
<1> QED
  BY <1>1, EndTypes

LEMMA CrashTypes ==
    ASSUME Types, Crash
    PROVE  /\ Types' /\ op' = Idle /\ op.pc # "idle" /\ UNCHANGED <<disk, kind, used>>
           /\ ~misled' => /\ ~misled
                          /\ op.rec = 0 /\ backup[op.id].dir => manifest.by \in {op.base.by, op.id}
                          /\ op.pc = "discard" /\ op.rec \in releases /\ backup[op.rec].state =>
                               Committed(op.rec)
<1>1. /\ op' = Idle /\ op.pc # "idle" /\ UNCHANGED <<disk, kind, used>>
      /\ misled' = \/ misled
                   \/ op.rec = 0 /\ backup[op.id].dir /\ Overwritten
                   \/ /\ At("discard") /\ op.rec \in releases
                      /\ backup[op.rec].state /\ ~Committed(op.rec)
  BY DEF Crash, At
<1> QED
  BY <1>1, EndTypes DEF Overwritten, At

-------------------------------------------------------------------------------
(* The steps of a batch *)

LEMMA FilesStep ==
    ASSUME Types, UNCHANGED <<manifest, releases, backup, journal, used, kind>>,
           script' \in [Exam -> Ids], resources' \in [Exam -> Ids]
    PROVE  DiskTypes'
BY DEF Types, DiskTypes, Blank, Ids, Written, Backups

LEMMA BackupStep ==
    ASSUME Types, op.pc # "idle", Only(op.id),
           script' \in [Exam -> Ids], resources' \in [Exam -> Ids],
           UNCHANGED <<manifest, releases, journal, used, kind>>,
           kind[op.id] = "batch" => backup'[op.id].script = 0
    PROVE  DiskTypes'
<1>1. op.id \in Pubs /\ op.id <= used
  BY OwnPub
<1>2. /\ manifest' \in Written /\ (manifest'.by = 0 => manifest' = NoManifest)
      /\ releases' \subseteq Pubs /\ (\A p \in releases' : kind[p] = "batch")
      /\ journal' \in [Pubs -> {"none", "open", "closed"}]
      /\ \A p \in Pubs : journal'[p] = journal[p]
      /\ kind[op.id] = "batch" => journal'[op.id] = "none"
  BY <1>1 DEF Types, DiskTypes
<1> QED
  BY <1>1, <1>2, DiskStep DEF Types

\* What a batch knows of itself at its step pc
InBatch(pc) ==
    /\ op.pc = pc /\ op.rec = 0 /\ kind[op.id] = "batch" /\ op \in Ops
    /\ op.id \in Pubs /\ op.id \in Ids /\ op.id # 0 /\ op.id <= used /\ target = op.id
    /\ backup[op.id] \in Backups /\ backup[op.id].script = 0 /\ journal[op.id] = "none"

LEMMA BatchIs ==
    ASSUME Types, NEW pc \in OwnSteps \cup {"discard", "unrelease"}, Batch(pc)
    PROVE  InBatch(pc)
<1>1. op.pc = pc /\ op.rec = 0 /\ kind[op.id] = "batch" /\ op.pc # "idle" /\ op \in Ops
  BY DEF Batch, At, OwnSteps, Types
<1>2. op.id \in Pubs /\ op.id \in Ids /\ op.id # 0 /\ op.id <= used
  BY <1>1, OwnPub
<1>3. backup[op.id] \in Backups
  BY <1>2, RecordFacts
<1>4. backup[op.id].script = 0 /\ journal[op.id] = "none"
  BY <1>1, <1>2 DEF Types, DiskTypes
<1> QED
  BY <1>1, <1>2, <1>3, <1>4 DEF InBatch, target

\* A step that changes no file
LEMMA QuietStep ==
    ASSUME Types, op.pc # "idle", UNCHANGED <<disk, used, kind>>, op' \in Ops', Placed(op)'
    PROVE  Types'
BY DiskSame DEF Types

LEMMA OwnPlaced ==
    ASSUME Types, op.pc # "idle", op.rec = 0, used' = used, kind' = kind,
           NEW pc \in OwnSteps \cup {"discard", "recover"}, Went(pc)
    PROVE  op' \in Ops' /\ Placed(op)'
<1>1. pc \in Steps /\ pc # "idle" /\ pc # "restore" /\ pc # "unrelease"
  BY DEF Steps, OwnSteps
<1> QED
  BY <1>1, PlacedStep

LEMMA BatchBaselineTypes ==
    ASSUME Types, BatchBaseline
    PROVE  /\ Types' /\ InBatch("stage") /\ Went("state") /\ Only(op.id)
           /\ backup'[op.id].dir = TRUE /\ backup'[op.id].base = manifest
           /\ backup'[op.id].res = backup[op.id].res
           /\ backup'[op.id].script = backup[op.id].script
           /\ backup'[op.id].state = backup[op.id].state
           /\ backup'[op.id].committed = backup[op.id].committed
           /\ UNCHANGED <<manifest, script, resources, releases, journal, kind, used, misled>>
<1>1. InBatch("stage") /\ op.pc # "idle" /\ op.rec = 0
  BY BatchIs DEF BatchBaseline, OwnSteps, InBatch
<1>2. PICK x : x = op.id
  OBVIOUS
<1>3. /\ backup' = [backup EXCEPT ![x].dir = TRUE, ![x].base = manifest]
      /\ Goto("state") /\ "state" \in Steps /\ "state" \in OwnSteps
      /\ UNCHANGED <<manifest, script, resources, releases, journal, kind, used, misled>>
  BY <1>2 DEF BatchBaseline, Quiet, Steps, OwnSteps
<1>4. Went("state")
  BY <1>3, GoesTo DEF Types
<1>5. /\ backup \in [Pubs -> Backups] /\ manifest \in Written /\ x \in Pubs
      /\ backup[x] \in Backups
      /\ script' \in [Exam -> Ids] /\ resources' \in [Exam -> Ids]
  BY <1>1, <1>2, <1>3 DEF Types, DiskTypes, InBatch
<1>6. /\ Only(x) /\ backup'[x].dir = TRUE /\ backup'[x].base = manifest
      /\ backup'[x].res = backup[x].res /\ backup'[x].script = backup[x].script
      /\ backup'[x].state = backup[x].state /\ backup'[x].committed = backup[x].committed
  BY <1>3, <1>5 DEF Only, Backups
<1>7. DiskTypes'
  BY <1>1, <1>2, <1>3, <1>5, <1>6, BackupStep DEF InBatch
<1>8. op' \in Ops' /\ Placed(op)'
  BY <1>1, <1>3, <1>4, OwnPlaced
<1> QED
  BY <1>1, <1>2, <1>3, <1>4, <1>6, <1>7, <1>8 DEF Types

\* The state file is written.
WritesState(N, c) ==
    /\ Only(op.id)
    /\ backup'[op.id].state = TRUE /\ backup'[op.id].exams = N
    /\ backup'[op.id].committed = c
    /\ (backup'[op.id].hadManifest <=> manifest.by # 0)
    /\ backup'[op.id].dir = backup[op.id].dir /\ backup'[op.id].base = backup[op.id].base
    /\ backup'[op.id].res = backup[op.id].res /\ backup'[op.id].script = backup[op.id].script

LEMMA WriteStateIs ==
    ASSUME Types, op.pc # "idle", NEW N \in SUBSET Exam, NEW c \in BOOLEAN, WriteState(N, c)
    PROVE  WritesState(N, c)
<1>1. PICK x, h : x = op.id /\ h = (manifest.by # 0)
  OBVIOUS
<1>2. h \in BOOLEAN /\ (h <=> manifest.by # 0)
  BY <1>1
<1>3. backup' = [backup EXCEPT ![x].state = TRUE, ![x].exams = N, ![x].committed = c,
                               ![x].hadManifest = h]
  BY <1>1 DEF WriteState
<1>4. x \in Pubs
  BY <1>1, OwnPub
<1>5. backup \in [Pubs -> Backups] /\ backup[x] \in Backups
  BY <1>4 DEF Types, DiskTypes
<1>6. /\ Only(x) /\ backup'[x].state = TRUE /\ backup'[x].exams = N
      /\ backup'[x].committed = c /\ backup'[x].hadManifest = h
      /\ backup'[x].dir = backup[x].dir /\ backup'[x].base = backup[x].base
      /\ backup'[x].res = backup[x].res /\ backup'[x].script = backup[x].script
  BY <1>2, <1>3, <1>4, <1>5 DEF Only, Backups
<1> QED
  BY <1>1, <1>2, <1>6 DEF WritesState

LEMMA BatchStateTypes ==
    ASSUME Types, BatchState
    PROVE  /\ Types' /\ InBatch("state") /\ WritesState({}, FALSE)
           /\ op'.pc = "next" /\ op'.id = op.id /\ op'.exams = op.exams
           /\ op'.base = op.base /\ op'.rec = op.rec /\ op'.seen = op.seen
           /\ op'.had = op.had /\ op'.noted = op.noted /\ op'.todo = op.exams
           /\ op'.cur = op.cur /\ op'.live = op.live /\ op'.failing = op.failing
           /\ UNCHANGED <<manifest, script, resources, releases, journal, kind, used, misled>>
<1>1. InBatch("state") /\ op.pc # "idle" /\ op.rec = 0
  BY BatchIs DEF BatchState, OwnSteps, InBatch
<1>2. /\ WriteState({}, FALSE) /\ op' = [op EXCEPT !.todo = op.exams, !.pc = "next"]
      /\ UNCHANGED <<manifest, script, resources, releases, journal, kind, used, misled>>
  BY DEF BatchState, Quiet
<1>3. WritesState({}, FALSE)
  <2>1. {} \in SUBSET Exam /\ FALSE \in BOOLEAN
    OBVIOUS
  <2> QED
    BY <1>1, <1>2, <2>1, WriteStateIs
<1>4. /\ op' \in Ops /\ op'.pc = "next" /\ op'.id = op.id /\ op'.exams = op.exams
      /\ op'.base = op.base /\ op'.rec = op.rec /\ op'.seen = op.seen
      /\ op'.had = op.had /\ op'.noted = op.noted /\ op'.todo = op.exams
      /\ op'.cur = op.cur /\ op'.live = op.live /\ op'.failing = op.failing
  BY <1>2, TodoIs DEF Types
<1>5. DiskTypes'
  <2>1. script' \in [Exam -> Ids] /\ resources' \in [Exam -> Ids]
    BY <1>2 DEF Types, DiskTypes
  <2>2. backup'[op.id].script = 0 /\ Only(op.id)
    BY <1>1, <1>3 DEF WritesState, InBatch
  <2> QED
    BY <1>1, <1>2, <2>1, <2>2, BackupStep
<1>6. Ops' = Ops /\ Placed(op)'
  BY <1>1, <1>2, <1>4 DEF Ops, Written, Ids, Types, Placed, OwnSteps
<1> QED
  BY <1>1, <1>2, <1>3, <1>4, <1>5, <1>6 DEF Types

LEMMA BatchNoteTypes ==
    ASSUME Types, BatchNote
    PROVE  /\ Types' /\ InBatch("next")
           /\ \E e \in op.todo :
                /\ WritesState(op.noted \cup {e}, FALSE)
                /\ op'.noted = op.noted \cup {e} /\ op'.todo = op.todo \ {e} /\ op'.cur = {e}
                /\ op'.had = (IF resources[e] # 0 THEN op.had \cup {e} ELSE op.had)
                /\ op'.pc = (IF resources[e] # 0 THEN "stash" ELSE "place")
           /\ op'.id = op.id /\ op'.exams = op.exams /\ op'.base = op.base /\ op'.rec = op.rec
           /\ op'.seen = op.seen /\ op'.live = op.live /\ op'.failing = op.failing
           /\ UNCHANGED <<manifest, script, resources, releases, journal, kind, used, misled>>
<1>1. InBatch("next") /\ op.pc # "idle" /\ op.rec = 0 /\ op \in Ops
  BY BatchIs DEF BatchNote, OwnSteps, InBatch
<1>2. PICK e \in op.todo :
         /\ WriteState(op.noted \cup {e}, FALSE)
         /\ op' = [op EXCEPT !.todo = @ \ {e}, !.cur = {e},
                     !.noted = @ \cup {e},
                     !.had = IF resources[e] # 0 THEN @ \cup {e} ELSE @,
                     !.pc = IF resources[e] # 0 THEN "stash" ELSE "place"]
  BY DEF BatchNote
<1>3. UNCHANGED <<manifest, script, resources, releases, journal, kind, used, misled>>
  BY DEF BatchNote, Quiet
<1>4. e \in Exam /\ op.noted \cup {e} \in SUBSET Exam /\ op.had \cup {e} \in SUBSET Exam
      /\ op.had \in SUBSET Exam /\ op.todo \subseteq op.exams
  BY <1>1, <1>2 DEF Ops, Types, Placed
<1>5. WritesState(op.noted \cup {e}, FALSE)
  BY <1>1, <1>2, <1>4, WriteStateIs
<1>6. PICK h, pc : /\ h = IF resources[e] # 0 THEN op.had \cup {e} ELSE op.had
                   /\ pc = IF resources[e] # 0 THEN "stash" ELSE "place"
  OBVIOUS
<1>7. h \in SUBSET Exam /\ pc \in Steps /\ pc \in {"stash", "place"}
  BY <1>4, <1>6 DEF Steps, OwnSteps
<1>8. op' = [op EXCEPT !.todo = @ \ {e}, !.cur = {e}, !.noted = @ \cup {e}, !.had = h, !.pc = pc]
  BY <1>2, <1>6
<1>9. /\ op' \in Ops /\ op'.pc = pc /\ op'.id = op.id /\ op'.exams = op.exams
      /\ op'.base = op.base /\ op'.rec = op.rec /\ op'.seen = op.seen
      /\ op'.had = h /\ op'.noted = op.noted \cup {e} /\ op'.todo = op.todo \ {e}
      /\ op'.cur = {e} /\ op'.live = op.live /\ op'.failing = op.failing
  BY <1>1, <1>4, <1>7, <1>8, NoteIs
<1>10. DiskTypes'
  <2>1. script' \in [Exam -> Ids] /\ resources' \in [Exam -> Ids]
    BY <1>3 DEF Types, DiskTypes
  <2>2. backup'[op.id].script = 0 /\ Only(op.id)
    BY <1>1, <1>5 DEF WritesState, InBatch
  <2> QED
    BY <1>1, <1>3, <2>1, <2>2, BackupStep
<1>11. Ops' = Ops /\ Placed(op)'
  BY <1>1, <1>2, <1>3, <1>4, <1>7, <1>9 DEF Ops, Written, Ids, Types, Placed, OwnSteps
<1> QED
  BY <1>1, <1>2, <1>3, <1>5, <1>6, <1>9, <1>10, <1>11 DEF Types

\* The resources of the exam are moved to the backup.
LEMMA StashTypes ==
    ASSUME Types, Stash
    PROVE  /\ Types' /\ op.pc = "stash" /\ op.rec = 0
           /\ Went(IF kind[op.id] = "batch" THEN "place" ELSE "exam")
           /\ Only(op.id)
           /\ \E e \in op.cur :
                /\ e \in Exam
                /\ backup'[op.id].res[e] = resources[e] /\ resources'[e] = 0
                /\ \A d \in Exam : d # e => /\ backup'[op.id].res[d] = backup[op.id].res[d]
                                            /\ resources'[d] = resources[d]
           /\ backup'[op.id].dir = backup[op.id].dir
           /\ backup'[op.id].base = backup[op.id].base
           /\ backup'[op.id].script = backup[op.id].script
           /\ backup'[op.id].state = backup[op.id].state
           /\ backup'[op.id].committed = backup[op.id].committed
           /\ backup'[op.id].hadManifest = backup[op.id].hadManifest
           /\ backup'[op.id].exams = backup[op.id].exams
           /\ UNCHANGED <<manifest, script, releases, journal, kind, used, misled>>
<1>1. op.pc = "stash" /\ op.rec = 0 /\ op \in Ops
  BY DEF Stash, At, Types, Placed, OwnSteps
<1>2. PICK x : x = op.id
  OBVIOUS
<1>3. x \in Pubs
  BY <1>1, <1>2, OwnPub
<1>4. PICK e \in op.cur : /\ backup' = [backup EXCEPT ![x].res[e] = resources[e]]
                          /\ resources' = [resources EXCEPT ![e] = 0]
  BY <1>2 DEF Stash
<1>5. UNCHANGED <<manifest, script, releases, journal, kind, used, misled>>
  BY DEF Stash, Quiet
<1>6. PICK pc : pc = IF kind[op.id] = "batch" THEN "place" ELSE "exam"
  OBVIOUS
<1>7. pc \in Steps /\ pc \in OwnSteps /\ Goto(pc)
  BY <1>6 DEF Stash, Steps, OwnSteps
<1>8. Went(pc)
  BY <1>1, <1>7, GoesTo
<1>9. e \in Exam
  BY <1>1 DEF Ops
<1>10. /\ backup \in [Pubs -> Backups] /\ backup[x] \in Backups /\ backup[x].res \in [Exam -> Ids]
       /\ resources \in [Exam -> Ids] /\ 0 \in Ids /\ script \in [Exam -> Ids]
  BY <1>3, RecordFacts, BoundFacts DEF Types, DiskTypes
<1>11. /\ Only(x) /\ backup'[x].res = [backup[x].res EXCEPT ![e] = resources[e]]
       /\ backup'[x].dir = backup[x].dir /\ backup'[x].base = backup[x].base
       /\ backup'[x].script = backup[x].script /\ backup'[x].state = backup[x].state
       /\ backup'[x].committed = backup[x].committed
       /\ backup'[x].hadManifest = backup[x].hadManifest /\ backup'[x].exams = backup[x].exams
  BY <1>3, <1>4, <1>9, <1>10 DEF Only, Backups
<1>12. /\ backup'[x].res[e] = resources[e] /\ resources'[e] = 0
       /\ \A d \in Exam : d # e => /\ backup'[x].res[d] = backup[x].res[d]
                                   /\ resources'[d] = resources[d]
       /\ script' \in [Exam -> Ids] /\ resources' \in [Exam -> Ids]
  BY <1>4, <1>5, <1>9, <1>10, <1>11
<1>13. DiskTypes'
  <2>1. kind[x] = "batch" => backup'[x].script = 0
    BY <1>3, <1>11 DEF Types, DiskTypes
  <2> QED
    BY <1>1, <1>2, <1>5, <1>11, <1>12, <2>1, BackupStep
<1>14. op' \in Ops' /\ Placed(op)'
  BY <1>1, <1>5, <1>7, <1>8, OwnPlaced
<1>15. \E d \in op.cur :
         /\ d \in Exam
         /\ backup'[op.id].res[d] = resources[d] /\ resources'[d] = 0
         /\ \A f \in Exam : f # d => /\ backup'[op.id].res[f] = backup[op.id].res[f]
                                     /\ resources'[f] = resources[f]
  BY <1>2, <1>9, <1>12
<1> QED
  BY <1>1, <1>2, <1>5, <1>6, <1>8, <1>11, <1>13, <1>14, <1>15 DEF Types

\* The new resources are moved into place.
LEMMA PlaceTypes ==
    ASSUME Types, Place
    PROVE  /\ Types' /\ op.pc = "place" /\ op.rec = 0
           /\ Went(IF kind[op.id] = "batch" THEN "next" ELSE "replace")
           /\ \E e \in op.cur :
                /\ e \in Exam /\ resources'[e] = op.id
                /\ \A d \in Exam : d # e => resources'[d] = resources[d]
           /\ UNCHANGED <<manifest, script, releases, backup, journal, kind, used, misled>>
<1>1. op.pc = "place" /\ op.rec = 0 /\ op \in Ops
  BY DEF Place, At, Types, Placed, OwnSteps
<1>2. op.id \in Ids
  BY <1>1, OwnPub
<1>3. PICK e \in op.cur : resources' = [resources EXCEPT ![e] = op.id]
  BY DEF Place
<1>4. UNCHANGED <<manifest, script, releases, backup, journal, kind, used, misled>>
  BY DEF Place, Quiet
<1>5. PICK pc : pc = IF kind[op.id] = "batch" THEN "next" ELSE "replace"
  OBVIOUS
<1>6. pc \in Steps /\ pc \in OwnSteps /\ Goto(pc)
  BY <1>5 DEF Place, Steps, OwnSteps
<1>7. Went(pc)
  BY <1>1, <1>6, GoesTo
<1>8. e \in Exam
  BY <1>1 DEF Ops
<1>9. /\ resources'[e] = op.id /\ \A d \in Exam : d # e => resources'[d] = resources[d]
      /\ script' \in [Exam -> Ids] /\ resources' \in [Exam -> Ids]
  BY <1>2, <1>3, <1>4, <1>8 DEF Types, DiskTypes
<1>10. DiskTypes'
  BY <1>4, <1>9, FilesStep
<1>11. op' \in Ops' /\ Placed(op)'
  BY <1>1, <1>4, <1>6, <1>7, OwnPlaced
<1> QED
  BY <1>1, <1>4, <1>5, <1>7, <1>8, <1>9, <1>10, <1>11 DEF Types

LEMMA BatchVerifyTypes ==
    ASSUME Types, BatchVerify
    PROVE  /\ Types' /\ InBatch("next") /\ Went("release") /\ op.todo = {}
           /\ manifest.by = op.base.by /\ UNCHANGED <<disk, kind, used, misled>>
<1>1. InBatch("next") /\ op.pc # "idle" /\ op.rec = 0 /\ op \in Ops
  BY BatchIs DEF BatchVerify, OwnSteps, InBatch
<1>2. /\ op.todo = {} /\ manifest.by = op.base.by /\ Goto("release")
      /\ UNCHANGED <<disk, kind, used, misled>>
  BY DEF BatchVerify, Unmoved, Quiet
<1>3. "release" \in Steps /\ "release" \in OwnSteps
  BY DEF Steps, OwnSteps
<1>4. Went("release")
  BY <1>1, <1>2, <1>3, GoesTo
<1>5. op' \in Ops' /\ Placed(op)'
  BY <1>1, <1>2, <1>3, <1>4, OwnPlaced
<1> QED
  BY <1>1, <1>2, <1>4, <1>5, QuietStep

LEMMA BatchReleaseTypes ==
    ASSUME Types, BatchRelease
    PROVE  /\ Types' /\ InBatch("release") /\ Went("replace")
           /\ releases' = releases \cup {op.id}
           /\ UNCHANGED <<manifest, script, resources, backup, journal, kind, used, misled>>
<1>1. InBatch("release") /\ op.pc # "idle" /\ op.rec = 0 /\ op \in Ops
  BY BatchIs DEF BatchRelease, OwnSteps, InBatch
<1>2. /\ Goto("replace") /\ releases' = releases \cup {op.id}
      /\ UNCHANGED <<manifest, script, resources, backup, journal, kind, used, misled>>
  BY DEF BatchRelease, Quiet
<1>3. "replace" \in Steps /\ "replace" \in OwnSteps
  BY DEF Steps, OwnSteps
<1>4. Went("replace")
  BY <1>1, <1>2, <1>3, GoesTo
<1>5. op' \in Ops' /\ Placed(op)'
  BY <1>1, <1>2, <1>3, <1>4, OwnPlaced
<1>6. DiskTypes'
  BY <1>1, <1>2 DEF Types, DiskTypes, Blank, Ids, Written, Backups, InBatch
<1> QED
  BY <1>1, <1>2, <1>4, <1>5, <1>6 DEF Types

LEMMA ReplaceTypes ==
    ASSUME Types, Replace
    PROVE  /\ Types' /\ op.pc = "replace" /\ op.rec = 0
           /\ manifest'.by = op.id
           /\ \A e \in Exam : manifest'.entry[e] =
                                IF e \in op.exams THEN op.id ELSE op.base.entry[e]
           /\ op'.pc = "flag" /\ Alike(op', op) /\ op'.cur = op.cur /\ op'.rec = op.rec
           /\ op'.seen = op.seen /\ op'.live = TRUE /\ op'.failing = op.failing
           /\ UNCHANGED <<script, resources, releases, backup, journal, kind, used, misled>>
<1>1. op.pc = "replace" /\ op.rec = 0 /\ op \in Ops
  BY DEF Replace, At, Types, Placed, OwnSteps
<1>2. /\ manifest' = [by |-> op.id,
                      entry |-> [e \in Exam |-> IF e \in op.exams THEN op.id
                                                ELSE op.base.entry[e]]]
      /\ op' = [op EXCEPT !.live = TRUE, !.pc = "flag"]
      /\ UNCHANGED <<script, resources, releases, backup, journal, kind, used, misled>>
  BY DEF Replace, Quiet
<1>3. op.id \in Ids /\ op.id # 0 /\ op.base \in Written
  BY <1>1, OwnPub DEF Ops
<1>4. /\ manifest'.by = op.id /\ manifest' \in Written
      /\ \A e \in Exam : manifest'.entry[e] =
                           IF e \in op.exams THEN op.id ELSE op.base.entry[e]
  BY <1>2, <1>3 DEF Written
<1>5. /\ op' \in Ops /\ op'.pc = "flag" /\ Alike(op', op) /\ op'.cur = op.cur
      /\ op'.rec = op.rec /\ op'.seen = op.seen
      /\ op'.live = TRUE /\ op'.failing = op.failing
  BY <1>1, <1>2, LiveIs
<1>6. DiskTypes'
  BY <1>2, <1>3, <1>4 DEF Types, DiskTypes, Blank, Ids, Written, Backups
<1>7. Ops' = Ops /\ Placed(op)'
  BY <1>1, <1>2, <1>5 DEF Ops, Written, Ids, Types, Placed, OwnSteps, Alike
<1> QED
  BY <1>1, <1>2, <1>4, <1>5, <1>6, <1>7 DEF Types

LEMMA BatchFlagTypes ==
    ASSUME Types, BatchFlag
    PROVE  /\ Types' /\ InBatch("flag") /\ Went("discard") /\ WritesState(op.noted, TRUE)
           /\ UNCHANGED <<manifest, script, resources, releases, journal, kind, used, misled>>
<1>1. InBatch("flag") /\ op.pc # "idle" /\ op.rec = 0 /\ op \in Ops
  BY BatchIs DEF BatchFlag, OwnSteps, InBatch
<1>2. /\ WriteState(op.noted, TRUE) /\ Goto("discard")
      /\ UNCHANGED <<manifest, script, resources, releases, journal, kind, used, misled>>
  BY DEF BatchFlag, Quiet
<1>3. WritesState(op.noted, TRUE)
  <2>1. op.noted \in SUBSET Exam /\ TRUE \in BOOLEAN
    BY <1>1 DEF Ops
  <2> QED
    BY <1>1, <1>2, <2>1, WriteStateIs
<1>4. "discard" \in Steps
  BY DEF Steps
<1>5. Went("discard")
  BY <1>1, <1>2, <1>4, GoesTo
<1>6. op' \in Ops' /\ Placed(op)'
  BY <1>1, <1>2, <1>5, OwnPlaced
<1>7. DiskTypes'
  <2>1. script' \in [Exam -> Ids] /\ resources' \in [Exam -> Ids]
    BY <1>2 DEF Types, DiskTypes
  <2>2. backup'[op.id].script = 0 /\ Only(op.id)
    BY <1>1, <1>3 DEF WritesState, InBatch
  <2> QED
    BY <1>1, <1>2, <2>1, <2>2, BackupStep
<1> QED
  BY <1>1, <1>2, <1>3, <1>5, <1>6, <1>7 DEF Types

\* A batch before its commit point fails.
LEMMA BatchFailTypes ==
    ASSUME Types, NEW pc \in OwnSteps, InBatch(pc), op' = BatchFail, UNCHANGED <<disk, kind, used>>
    PROVE  /\ Types' /\ op'.pc = "undo" /\ Alike(op', op) /\ op'.cur = op.cur
           /\ op'.rec = op.rec /\ op'.seen = op.seen
           /\ op'.live = op.live /\ op'.failing = TRUE
<1>1. op.pc # "idle" /\ op.rec = 0 /\ op \in Ops /\ "undo" \in Steps
  BY DEF InBatch, OwnSteps, Steps
<1>2. /\ op' \in Ops /\ op'.pc = "undo" /\ Alike(op', op) /\ op'.cur = op.cur
      /\ op'.rec = op.rec /\ op'.seen = op.seen
      /\ op'.live = op.live /\ op'.failing = TRUE
  BY <1>1, FailIs DEF BatchFail
<1>3. Ops' = Ops /\ Placed(op)'
  BY <1>1, <1>2 DEF Ops, Written, Ids, Types, Placed, OwnSteps, Alike
<1> QED
  BY <1>1, <1>2, <1>3, QuietStep

BatchGivesUp(pc) ==
    /\ InBatch(pc) /\ op'.pc = "undo" /\ Alike(op', op) /\ op'.cur = op.cur
    /\ op'.rec = op.rec /\ op'.seen = op.seen
    /\ op'.live = op.live /\ op'.failing = TRUE
    /\ UNCHANGED <<disk, kind, used, misled>>

LEMMA BatchConflictTypes ==
    ASSUME Types, BatchConflict
    PROVE  Types' /\ BatchGivesUp("next")
<1>1. InBatch("next") /\ "next" \in OwnSteps
  BY BatchIs DEF BatchConflict, OwnSteps
<1>2. op' = BatchFail /\ UNCHANGED <<disk, kind, used, misled>>
  BY DEF BatchConflict, Quiet
<1> QED
  BY <1>1, <1>2, BatchFailTypes DEF BatchGivesUp

LEMMA BatchStepFailsTypes ==
    ASSUME Types, BatchStepFails
    PROVE  /\ Types'
           /\ \E pc \in {"stage", "state", "next", "stash", "place", "release", "replace"} :
                BatchGivesUp(pc)
<1>1. PICK pc \in {"stage", "state", "next", "stash", "place", "release", "replace"} : Batch(pc)
  BY DEF BatchStepFails
<1>2. pc \in OwnSteps
  BY DEF OwnSteps
<1>3. InBatch(pc)
  BY <1>1, <1>2, BatchIs
<1>4. op' = BatchFail /\ UNCHANGED <<disk, kind, used, misled>>
  BY DEF BatchStepFails, Fails
<1> QED
  BY <1>2, <1>3, <1>4, BatchFailTypes DEF BatchGivesUp

LEMMA BatchFlagFailsTypes ==
    ASSUME Types, BatchFlagFails
    PROVE  /\ Types' /\ InBatch("flag") /\ Went("discard") /\ UNCHANGED <<disk, kind, used, misled>>
<1>1. InBatch("flag") /\ op.pc # "idle" /\ op.rec = 0 /\ op \in Ops
  BY BatchIs DEF BatchFlagFails, OwnSteps, InBatch
<1>2. Goto("discard") /\ UNCHANGED <<disk, kind, used, misled>> /\ "discard" \in Steps
  BY DEF BatchFlagFails, Fails, Steps
<1>3. Went("discard")
  BY <1>1, <1>2, GoesTo
<1>4. op' \in Ops' /\ Placed(op)'
  BY <1>1, <1>2, <1>3, OwnPlaced
<1> QED
  BY <1>1, <1>2, <1>3, <1>4, QuietStep

LEMMA BatchUndoTypes ==
    ASSUME Types, BatchUndo
    PROVE  /\ Types' /\ InBatch("undo")
           /\ \/ PutsBack(op.id) /\ op' = op
              \/ /\ op' = op /\ UNCHANGED <<script, backup>>
                 /\ \E e \in op.noted \ op.had :
                      /\ e \in Exam /\ resources[e] # 0 /\ resources'[e] = 0
                      /\ \A d \in Exam : d # e => resources'[d] = resources[d]
              \/ /\ UNCHANGED <<script, resources, backup>>
                 /\ \A e \in backup[op.id].exams : backup[op.id].res[e] = 0
                 /\ Stays /\ op'.pc = (IF backup[op.id].dir THEN "discard" ELSE "unrelease")
           /\ UNCHANGED <<manifest, releases, journal, kind, used, misled>>
<1>1. InBatch("undo") /\ op.pc # "idle" /\ op.rec = 0 /\ op \in Ops /\ target = op.id
  BY BatchIs DEF BatchUndo, OwnSteps, InBatch
<1>2. UNCHANGED <<manifest, releases, journal, kind, used, misled>>
  BY DEF BatchUndo, Quiet
<1>3. Ops' = Ops
  BY <1>2 DEF Ops, Written, Ids
<1>4. CASE PutBack /\ UNCHANGED op
  <2>1. PutsBack(op.id) /\ DiskTypes'
    BY <1>1, <1>2, <1>4, PutBackTypes
  <2>2. Placed(op)'
    BY <1>2, <1>4 DEF Types, Placed
  <2> QED
    BY <1>1, <1>2, <1>3, <1>4, <2>1, <2>2 DEF Types
<1>5. CASE /\ \E e \in Fresh : resources' = [resources EXCEPT ![e] = 0]
           /\ UNCHANGED <<script, backup, op>>
  <2>1. PICK e \in Fresh : resources' = [resources EXCEPT ![e] = 0]
    BY <1>5
  <2>2. e \in op.noted \ op.had /\ e \in Exam /\ resources[e] # 0
    BY <1>1 DEF Fresh, Ops
  <2>3. 0 \in Ids
    BY BoundFacts DEF Types
  <2>4. /\ resources'[e] = 0 /\ \A d \in Exam : d # e => resources'[d] = resources[d]
        /\ script' \in [Exam -> Ids] /\ resources' \in [Exam -> Ids]
    BY <1>5, <2>1, <2>2, <2>3 DEF Types, DiskTypes
  <2>5. DiskTypes'
    BY <1>2, <1>5, <2>4, FilesStep
  <2>6. Placed(op)'
    BY <1>2, <1>5 DEF Types, Placed
  <2> QED
    BY <1>1, <1>2, <1>3, <1>5, <2>2, <2>4, <2>5, <2>6 DEF Types
<1>6. CASE /\ BackupOfRes = {} /\ Fresh = {}
           /\ Goto(IF backup[op.id].dir THEN "discard" ELSE "unrelease")
           /\ UNCHANGED <<script, resources, backup>>
  <2>1. PICK pc : pc = IF backup[op.id].dir THEN "discard" ELSE "unrelease"
    OBVIOUS
  <2>2. pc \in Steps /\ pc \in {"discard", "unrelease"} /\ Goto(pc)
    BY <1>6, <2>1 DEF Steps
  <2>3. Went(pc)
    BY <1>1, <2>2, GoesTo
  <2>4. kind[target] = "batch"
    BY <1>1 DEF InBatch
  <2>5. op' \in Ops' /\ Placed(op)'
    BY <1>1, <1>2, <2>2, <2>3, <2>4, PlacedStep DEF OwnSteps
  <2>6. \A e \in backup[op.id].exams : backup[op.id].res[e] = 0
    BY <1>1, <1>6 DEF BackupOfRes
  <2>7. Types'
    BY <1>1, <1>2, <1>6, <2>5, QuietStep DEF disk
  <2> QED
    BY <1>1, <1>2, <1>6, <2>1, <2>3, <2>6, <2>7 DEF Went
<1> QED
  BY <1>4, <1>5, <1>6 DEF BatchUndo

LEMMA BatchUndoFailsTypes ==
    ASSUME Types, BatchUndoFails
    PROVE  /\ Types' /\ InBatch("undo") /\ Went("unrelease") /\ UNCHANGED <<disk, kind, used>>
           /\ ~misled' => ~misled /\ manifest.by \in {op.base.by, op.id}
<1>1. InBatch("undo") /\ op.pc # "idle" /\ op.rec = 0 /\ op \in Ops
  BY BatchIs DEF BatchUndoFails, OwnSteps, InBatch
<1>2. /\ Goto("unrelease") /\ UNCHANGED <<disk, kind, used>> /\ "unrelease" \in Steps
      /\ ~misled' => ~misled /\ manifest.by \in {op.base.by, op.id}
  BY DEF BatchUndoFails, Overwritten, Steps
<1>3. Went("unrelease")
  BY <1>1, <1>2, GoesTo
<1>4. kind[target] = "batch"
  BY <1>1 DEF InBatch
<1>5. op' \in Ops' /\ Placed(op)'
  BY <1>1, <1>2, <1>3, <1>4, PlacedStep DEF OwnSteps
<1> QED
  BY <1>1, <1>2, <1>3, <1>5, QuietStep

-------------------------------------------------------------------------------
(* The steps of a single publication *)

InSingle(pc) ==
    /\ op.pc = pc /\ op.pc # "idle" /\ op.rec = 0 /\ kind[op.id] = "single" /\ op \in Ops
    /\ op.id \in Pubs /\ op.id \in Ids /\ op.id # 0 /\ op.id <= used /\ target = op.id
    /\ backup[op.id] \in Backups /\ op.cur \subseteq Exam

LEMMA SingleIs ==
    ASSUME Types, NEW pc \in OwnSteps, Single(pc)
    PROVE  InSingle(pc)
<1>1. op.pc = pc /\ op.rec = 0 /\ kind[op.id] = "single" /\ op.pc # "idle" /\ op \in Ops
  BY DEF Single, At, OwnSteps, Types
<1>2. op.id \in Pubs /\ op.id \in Ids /\ op.id # 0 /\ op.id <= used
  BY <1>1, OwnPub
<1>3. backup[op.id] \in Backups /\ op.cur \subseteq Exam
  BY <1>1, <1>2, RecordFacts DEF Ops
<1> QED
  BY <1>1, <1>2, <1>3 DEF InSingle, target

\* Only the backup of a single publication changes, and the files of its exam.
LEMMA SingleMoves ==
    ASSUME Types, NEW pc \in OwnSteps, InSingle(pc), NEW n \in OwnSteps \cup {"discard"}, Goto(n),
           Only(op.id), script' \in [Exam -> Ids], resources' \in [Exam -> Ids],
           UNCHANGED <<manifest, releases, journal, kind, used>>
    PROVE  Types' /\ Went(n)
<1>1. n \in Steps
  BY DEF Steps
<1>2. Went(n)
  BY <1>1, GoesTo DEF InSingle
<1>3. op' \in Ops' /\ Placed(op)'
  BY <1>2, OwnPlaced DEF InSingle
<1>4. DiskTypes'
  BY BackupStep DEF InSingle
<1> QED
  BY <1>2, <1>3, <1>4 DEF Types

LEMMA SameFiles ==
    ASSUME Types
    PROVE  /\ UNCHANGED script => script' \in [Exam -> Ids]
           /\ UNCHANGED resources => resources' \in [Exam -> Ids]
           /\ UNCHANGED backup => \A x \in Pubs : Only(x)
           /\ backup \in [Pubs -> Backups]
BY DEF Types, DiskTypes, Only

LEMMA SingleStageTypes ==
    ASSUME Types, SingleStage
    PROVE  /\ Types' /\ InSingle("stage")
           /\ journal'[op.id] = "open" /\ \A p \in Pubs : p # op.id => journal'[p] = journal[p]
           /\ UNCHANGED <<manifest, script, resources, releases, backup, kind, used, misled>>
           /\ \/ /\ manifest.by = op.base.by /\ op'.pc = "dir" /\ Alike(op', op)
                 /\ op'.cur = op.exams /\ op'.rec = op.rec /\ op'.seen = op.seen
                 /\ op'.live = op.live /\ op'.failing = op.failing
              \/ op' = Idle
<1>1. InSingle("stage") /\ op.pc # "idle" /\ op.rec = 0 /\ op \in Ops
  BY SingleIs DEF SingleStage, OwnSteps, InSingle
<1>2. /\ journal' = [journal EXCEPT ![op.id] = "open"]
      /\ UNCHANGED <<manifest, script, resources, releases, backup, kind, used, misled>>
  BY DEF SingleStage, Quiet
<1>3. /\ journal'[op.id] = "open" /\ \A p \in Pubs : p # op.id => journal'[p] = journal[p]
      /\ journal' \in [Pubs -> {"none", "open", "closed"}]
  BY <1>1, <1>2 DEF InSingle, Types, DiskTypes
<1>4. DiskTypes'
  <2>1. Only(op.id)
    BY <1>1, <1>2, SameFiles DEF InSingle
  <2>2. kind[op.id] # "batch"
    BY <1>1 DEF InSingle
  <2>3. /\ manifest' \in Written /\ (manifest'.by = 0 => manifest' = NoManifest)
        /\ script' \in [Exam -> Ids] /\ resources' \in [Exam -> Ids]
        /\ releases' \subseteq Pubs /\ (\A p \in releases' : kind[p] = "batch")
    BY <1>2 DEF Types, DiskTypes
  <2> QED
    BY <1>1, <1>2, <1>3, <2>1, <2>2, <2>3, DiskStep DEF InSingle, Types
<1>5. CASE Unmoved
  <2>1. op' = [op EXCEPT !.cur = op.exams, !.pc = "dir"] /\ manifest.by = op.base.by
    BY <1>5 DEF SingleStage, Unmoved
  <2>2. /\ op' \in Ops /\ op'.pc = "dir" /\ Alike(op', op) /\ op'.cur = op.exams
        /\ op'.rec = op.rec /\ op'.seen = op.seen
        /\ op'.live = op.live /\ op'.failing = op.failing
    BY <1>1, <2>1, CurIs
  <2>3. Ops' = Ops /\ Placed(op)'
    BY <1>1, <1>2, <2>2 DEF Ops, Written, Ids, Types, Placed, OwnSteps, Alike
  <2> QED
    BY <1>1, <1>2, <1>3, <1>4, <2>1, <2>2, <2>3 DEF Types
<1>6. CASE ~Unmoved
  <2>1. op' = Idle
    BY <1>6 DEF SingleStage
  <2>2. op' \in Ops' /\ Placed(op)'
    BY <1>2, <2>1, IdleStep
  <2> QED
    BY <1>1, <1>2, <1>3, <1>4, <2>1, <2>2 DEF Types
<1> QED
  BY <1>5, <1>6

LEMMA SingleDirTypes ==
    ASSUME Types, SingleDir
    PROVE  /\ Types' /\ InSingle("dir") /\ Went("state") /\ Only(op.id)
           /\ backup'[op.id].dir = TRUE
           /\ backup'[op.id].base = backup[op.id].base /\ backup'[op.id].res = backup[op.id].res
           /\ backup'[op.id].script = backup[op.id].script
           /\ backup'[op.id].state = backup[op.id].state
           /\ UNCHANGED <<manifest, script, resources, releases, journal, kind, used, misled>>
<1>1. InSingle("dir") /\ op.id \in Pubs /\ "dir" \in OwnSteps /\ "state" \in OwnSteps
  BY SingleIs DEF SingleDir, OwnSteps, InSingle
<1>2. PICK x : x = op.id
  OBVIOUS
<1>3. /\ backup' = [backup EXCEPT ![x].dir = TRUE] /\ Goto("state")
      /\ UNCHANGED <<manifest, script, resources, releases, journal, kind, used, misled>>
  BY <1>2 DEF SingleDir, Quiet
<1>4. x \in Pubs /\ backup \in [Pubs -> Backups] /\ backup[x] \in Backups
  BY <1>1, <1>2, SameFiles DEF InSingle
<1>5. /\ Only(x) /\ backup'[x].dir = TRUE
      /\ backup'[x].base = backup[x].base /\ backup'[x].res = backup[x].res
      /\ backup'[x].script = backup[x].script /\ backup'[x].state = backup[x].state
  BY <1>3, <1>4 DEF Only, Backups
<1> QED
  BY <1>1, <1>2, <1>3, <1>5, SameFiles, SingleMoves

LEMMA SingleStateTypes ==
    ASSUME Types, SingleState
    PROVE  /\ Types' /\ InSingle("state") /\ Went("copy") /\ Only(op.id)
           /\ backup'[op.id].state = TRUE /\ backup'[op.id].exams = op.exams
           /\ backup'[op.id].dir = backup[op.id].dir /\ backup'[op.id].base = backup[op.id].base
           /\ backup'[op.id].res = backup[op.id].res
           /\ backup'[op.id].script = backup[op.id].script
           /\ UNCHANGED <<manifest, script, resources, releases, journal, kind, used, misled>>
<1>1. InSingle("state") /\ op.id \in Pubs /\ "state" \in OwnSteps /\ "copy" \in OwnSteps
  BY SingleIs DEF SingleState, OwnSteps, InSingle
<1>2. PICK x, S : x = op.id /\ S = op.exams
  OBVIOUS
<1>3. /\ backup' = [backup EXCEPT ![x].state = TRUE, ![x].exams = S] /\ Goto("copy")
      /\ UNCHANGED <<manifest, script, resources, releases, journal, kind, used, misled>>
  BY <1>2 DEF SingleState, Quiet
<1>4. S \in SUBSET Exam /\ x \in Pubs /\ backup \in [Pubs -> Backups] /\ backup[x] \in Backups
  BY <1>1, <1>2, SameFiles DEF InSingle, Ops
<1>5. /\ Only(x) /\ backup'[x].state = TRUE /\ backup'[x].exams = S
      /\ backup'[x].dir = backup[x].dir /\ backup'[x].base = backup[x].base
      /\ backup'[x].res = backup[x].res /\ backup'[x].script = backup[x].script
  BY <1>3, <1>4 DEF Only, Backups
<1> QED
  BY <1>1, <1>2, <1>3, <1>5, SameFiles, SingleMoves

LEMMA SingleCopyTypes ==
    ASSUME Types, SingleCopy
    PROVE  /\ Types' /\ InSingle("copy") /\ Went("aside") /\ Only(op.id)
           /\ backup'[op.id].base = manifest
           /\ backup'[op.id].state = backup[op.id].state
           /\ backup'[op.id].exams = backup[op.id].exams
           /\ backup'[op.id].dir = backup[op.id].dir
           /\ backup'[op.id].res = backup[op.id].res
           /\ backup'[op.id].script = backup[op.id].script
           /\ UNCHANGED <<manifest, script, resources, releases, journal, kind, used, misled>>
<1>1. InSingle("copy") /\ op.id \in Pubs /\ "copy" \in OwnSteps /\ "aside" \in OwnSteps
  BY SingleIs DEF SingleCopy, OwnSteps, InSingle
<1>2. PICK x : x = op.id
  OBVIOUS
<1>3. /\ backup' = [backup EXCEPT ![x].base = manifest] /\ Goto("aside")
      /\ UNCHANGED <<manifest, script, resources, releases, journal, kind, used, misled>>
  BY <1>2 DEF SingleCopy, Quiet
<1>4. /\ manifest \in Written /\ x \in Pubs /\ backup \in [Pubs -> Backups]
      /\ backup[x] \in Backups
  BY <1>1, <1>2, SameFiles DEF InSingle, Types, DiskTypes
<1>5. /\ Only(x) /\ backup'[x].base = manifest
      /\ backup'[x].state = backup[x].state /\ backup'[x].exams = backup[x].exams
      /\ backup'[x].dir = backup[x].dir
      /\ backup'[x].res = backup[x].res /\ backup'[x].script = backup[x].script
  BY <1>3, <1>4 DEF Only, Backups
<1> QED
  BY <1>1, <1>2, <1>3, <1>5, SameFiles, SingleMoves

\* The script of the exam is moved to the backup.
LEMMA SingleAsideTypes ==
    ASSUME Types, SingleAside
    PROVE  /\ Types' /\ InSingle("aside") /\ Only(op.id)
           /\ \E e \in op.cur :
                /\ e \in Exam
                /\ backup'[op.id].script = script[e] /\ script'[e] = 0
                /\ \A d \in Exam : d # e => script'[d] = script[d]
                /\ Went(IF resources[e] # 0 THEN "stash" ELSE "exam")
           /\ backup'[op.id].base = backup[op.id].base
           /\ backup'[op.id].state = backup[op.id].state
           /\ backup'[op.id].exams = backup[op.id].exams
           /\ backup'[op.id].dir = backup[op.id].dir
           /\ backup'[op.id].res = backup[op.id].res
           /\ UNCHANGED <<manifest, resources, releases, journal, kind, used, misled>>
<1>1. InSingle("aside") /\ op.id \in Pubs /\ "aside" \in OwnSteps
  BY SingleIs DEF SingleAside, OwnSteps, InSingle
<1>2. PICK x : x = op.id
  OBVIOUS
<1>3. PICK e \in op.cur :
         /\ backup' = [backup EXCEPT ![x].script = script[e]]
         /\ script' = [script EXCEPT ![e] = 0]
         /\ Goto(IF resources[e] # 0 THEN "stash" ELSE "exam")
  BY <1>2 DEF SingleAside
<1>4. UNCHANGED <<manifest, resources, releases, journal, kind, used, misled>>
  BY DEF SingleAside, Quiet
<1>5. PICK pc : pc = IF resources[e] # 0 THEN "stash" ELSE "exam"
  OBVIOUS
<1>6. pc \in OwnSteps /\ Goto(pc)
  BY <1>3, <1>5 DEF OwnSteps
<1>7. /\ e \in Exam /\ script[e] \in Ids /\ 0 \in Ids /\ script \in [Exam -> Ids]
      /\ x \in Pubs /\ backup \in [Pubs -> Backups] /\ backup[x] \in Backups
  BY <1>1, <1>2, SameFiles, BoundFacts DEF InSingle, Types, DiskTypes
<1>8. /\ Only(x) /\ backup'[x].script = script[e]
      /\ backup'[x].base = backup[x].base /\ backup'[x].res = backup[x].res
      /\ backup'[x].state = backup[x].state /\ backup'[x].exams = backup[x].exams
      /\ backup'[x].dir = backup[x].dir
  BY <1>3, <1>7 DEF Only, Backups
<1>9. /\ script' \in [Exam -> Ids] /\ script'[e] = 0
      /\ \A d \in Exam : d # e => script'[d] = script[d]
  BY <1>3, <1>7
<1>10. Types' /\ Went(pc)
  BY <1>1, <1>2, <1>4, <1>6, <1>8, <1>9, SameFiles, SingleMoves
<1> QED
  BY <1>1, <1>2, <1>4, <1>5, <1>7, <1>8, <1>9, <1>10

LEMMA SingleExamTypes ==
    ASSUME Types, SingleExam
    PROVE  /\ Types' /\ InSingle("exam") /\ Went("place")
           /\ \E e \in op.cur :
                /\ e \in Exam /\ script'[e] = op.id
                /\ \A d \in Exam : d # e => script'[d] = script[d]
           /\ UNCHANGED <<manifest, resources, releases, backup, journal, kind, used, misled>>
<1>1. InSingle("exam") /\ op.id \in Pubs /\ "exam" \in OwnSteps /\ "place" \in OwnSteps
  BY SingleIs DEF SingleExam, OwnSteps, InSingle
<1>2. PICK e \in op.cur : script' = [script EXCEPT ![e] = op.id]
  BY DEF SingleExam
<1>3. UNCHANGED <<manifest, resources, releases, backup, journal, kind, used, misled>> /\ Goto("place")
  BY DEF SingleExam, Quiet
<1>4. e \in Exam /\ op.id \in Ids /\ script \in [Exam -> Ids]
  BY <1>1 DEF InSingle, Types, DiskTypes
<1>5. /\ script' \in [Exam -> Ids] /\ script'[e] = op.id
      /\ \A d \in Exam : d # e => script'[d] = script[d]
  BY <1>2, <1>4
<1>6. Types' /\ Went("place")
  BY <1>1, <1>3, <1>5, SameFiles, SingleMoves
<1> QED
  BY <1>1, <1>3, <1>4, <1>5, <1>6

LEMMA SingleNoteTypes ==
    ASSUME Types, SingleNote
    PROVE  /\ Types' /\ InSingle("flag") /\ Went("close") /\ UNCHANGED <<disk, kind, used, misled>>
<1>1. InSingle("flag") /\ op.id \in Pubs /\ "flag" \in OwnSteps /\ "close" \in OwnSteps
  BY SingleIs DEF SingleNote, OwnSteps, InSingle
<1>2. Goto("close") /\ UNCHANGED <<disk, kind, used, misled>>
  BY DEF SingleNote, Quiet
<1> QED
  BY <1>1, <1>2, SameFiles, SingleMoves DEF disk

LEMMA SingleCloseTypes ==
    ASSUME Types, SingleClose
    PROVE  /\ Types' /\ InSingle("close") /\ Went("discard")
           /\ journal'[op.id] = "closed" /\ \A p \in Pubs : p # op.id => journal'[p] = journal[p]
           /\ UNCHANGED <<manifest, script, resources, releases, backup, kind, used, misled>>
<1>1. InSingle("close") /\ op.pc # "idle" /\ op.rec = 0 /\ op \in Ops
  BY SingleIs DEF SingleClose, OwnSteps, InSingle
<1>2. /\ journal' = [journal EXCEPT ![op.id] = "closed"] /\ Goto("discard") /\ "discard" \in Steps
      /\ UNCHANGED <<manifest, script, resources, releases, backup, kind, used, misled>>
  BY DEF SingleClose, Quiet, Steps
<1>3. /\ journal'[op.id] = "closed" /\ \A p \in Pubs : p # op.id => journal'[p] = journal[p]
      /\ journal' \in [Pubs -> {"none", "open", "closed"}]
  BY <1>1, <1>2 DEF InSingle, Types, DiskTypes
<1>4. DiskTypes'
  <2>1. Only(op.id)
    BY <1>1, <1>2, SameFiles DEF InSingle
  <2>2. kind[op.id] # "batch"
    BY <1>1 DEF InSingle
  <2>3. /\ manifest' \in Written /\ (manifest'.by = 0 => manifest' = NoManifest)
        /\ script' \in [Exam -> Ids] /\ resources' \in [Exam -> Ids]
        /\ releases' \subseteq Pubs /\ (\A p \in releases' : kind[p] = "batch")
    BY <1>2 DEF Types, DiskTypes
  <2> QED
    BY <1>1, <1>2, <1>3, <2>1, <2>2, <2>3, DiskStep DEF InSingle, Types
<1>5. Went("discard")
  BY <1>1, <1>2, GoesTo
<1>6. op' \in Ops' /\ Placed(op)'
  BY <1>1, <1>2, <1>5, OwnPlaced
<1> QED
  BY <1>1, <1>2, <1>3, <1>4, <1>5, <1>6 DEF Types

LEMMA SingleStateFailsTypes ==
    ASSUME Types, SingleStateFails
    PROVE  Types' /\ InSingle("state") /\ op' = Idle /\ UNCHANGED <<disk, kind, used, misled>>
<1>1. InSingle("state")
  BY SingleIs DEF SingleStateFails, OwnSteps
<1>2. op' = Idle /\ UNCHANGED <<disk, kind, used, misled>>
  BY DEF SingleStateFails, Fails
<1> QED
  BY <1>1, <1>2, EndTypes

\* The script comes back from the backup if it is there.
LEMMA SingleBackupFailsTypes ==
    ASSUME Types, SingleBackupFails
    PROVE  /\ Types' /\ (InSingle("copy") \/ InSingle("aside") \/ InSingle("stash"))
           /\ Went("discard") /\ Only(op.id)
           /\ \E e \in op.cur :
                /\ e \in Exam
                /\ script'[e] = (IF script[e] = 0 THEN backup[op.id].script ELSE script[e])
                /\ \A d \in Exam : d # e => script'[d] = script[d]
           /\ backup'[op.id].script = 0 /\ backup'[op.id].base = backup[op.id].base
           /\ backup'[op.id].state = backup[op.id].state
           /\ backup'[op.id].exams = backup[op.id].exams
           /\ backup'[op.id].dir = backup[op.id].dir
           /\ backup'[op.id].res = backup[op.id].res
           /\ UNCHANGED <<manifest, resources, releases, journal, kind, used, misled>>
<1>1. PICK pc \in {"copy", "aside", "stash"} : Single(pc)
  BY DEF SingleBackupFails
<1>2. pc \in OwnSteps /\ "discard" \in OwnSteps \cup {"discard"}
  BY DEF OwnSteps
<1>3. InSingle(pc)
  BY <1>1, <1>2, SingleIs
<1>4. PICK x : x = op.id
  OBVIOUS
<1>5. PICK e \in op.cur :
         /\ script' = [script EXCEPT ![e] = IF @ = 0 THEN backup[x].script ELSE @]
         /\ backup' = [backup EXCEPT ![x].script = 0]
  BY <1>4 DEF SingleBackupFails
<1>6. UNCHANGED <<manifest, resources, releases, journal, kind, used, misled>> /\ Goto("discard")
  BY DEF SingleBackupFails, Fails
<1>7. /\ e \in Exam /\ script \in [Exam -> Ids] /\ script[e] \in Ids /\ 0 \in Ids
      /\ x \in Pubs /\ backup \in [Pubs -> Backups] /\ backup[x] \in Backups
      /\ backup[x].script \in Ids
  BY <1>3, <1>4, SameFiles, RecordFacts, BoundFacts DEF InSingle, Types, DiskTypes
<1>8. PICK v : v = IF script[e] = 0 THEN backup[x].script ELSE script[e]
  OBVIOUS
<1>9. /\ script' = [script EXCEPT ![e] = v] /\ v \in Ids
  BY <1>5, <1>7, <1>8
<1>10. /\ script' \in [Exam -> Ids] /\ script'[e] = v
       /\ \A d \in Exam : d # e => script'[d] = script[d]
  BY <1>7, <1>9
<1>11. /\ Only(x) /\ backup'[x].script = 0
       /\ backup'[x].base = backup[x].base /\ backup'[x].res = backup[x].res
       /\ backup'[x].state = backup[x].state /\ backup'[x].exams = backup[x].exams
       /\ backup'[x].dir = backup[x].dir
  BY <1>5, <1>7 DEF Only, Backups
<1>12. Types' /\ Went("discard")
  BY <1>2, <1>3, <1>4, <1>6, <1>10, <1>11, SameFiles, SingleMoves
<1>13. \E d \in op.cur :
          /\ d \in Exam
          /\ script'[d] = (IF script[d] = 0 THEN backup[op.id].script ELSE script[d])
          /\ \A f \in Exam : f # d => script'[f] = script[f]
  BY <1>4, <1>7, <1>8, <1>10
<1>14. InSingle("copy") \/ InSingle("aside") \/ InSingle("stash")
  BY <1>3
<1> QED
  BY <1>4, <1>6, <1>11, <1>12, <1>13, <1>14

LEMMA SingleInstallFailsTypes ==
    ASSUME Types, SingleInstallFails
    PROVE  /\ Types' /\ \E pc \in {"exam", "place", "replace", "flag"} : InSingle(pc)
           /\ Went("hide") /\ UNCHANGED <<disk, kind, used, misled>>
<1>1. PICK pc \in {"exam", "place", "replace", "flag"} : Single(pc)
  BY DEF SingleInstallFails
<1>2. pc \in OwnSteps /\ "hide" \in OwnSteps
  BY DEF OwnSteps
<1>3. InSingle(pc) /\ op.id \in Pubs
  BY <1>1, <1>2, SingleIs DEF InSingle
<1>4. UNCHANGED <<disk, kind, used, misled>> /\ Goto("hide")
  BY DEF SingleInstallFails, Fails
<1> QED
  BY <1>2, <1>3, <1>4, SameFiles, SingleMoves DEF disk

LEMMA SingleCloseFailsTypes ==
    ASSUME Types, SingleCloseFails
    PROVE  /\ Types' /\ InSingle("close") /\ op'.pc = "recover" /\ Alike(op', op)
           /\ op'.cur = op.cur /\ op'.rec = op.rec /\ op'.seen = op.seen
           /\ op'.live = op.live /\ op'.failing = TRUE
           /\ UNCHANGED <<disk, kind, used, misled>>
<1>1. InSingle("close") /\ op.pc # "idle" /\ op.rec = 0 /\ op \in Ops /\ "recover" \in Steps
  BY SingleIs DEF SingleCloseFails, OwnSteps, InSingle, Steps
<1>2. op' = [op EXCEPT !.failing = TRUE, !.pc = "recover"] /\ UNCHANGED <<disk, kind, used, misled>>
  BY DEF SingleCloseFails, Fails
<1>3. /\ op' \in Ops /\ op'.pc = "recover" /\ Alike(op', op) /\ op'.cur = op.cur
      /\ op'.rec = op.rec /\ op'.seen = op.seen
      /\ op'.live = op.live /\ op'.failing = TRUE
  BY <1>1, <1>2, FailIs
<1>4. Ops' = Ops /\ Placed(op)'
  BY <1>1, <1>2, <1>3 DEF Ops, Written, Ids, Types, Placed, OwnSteps, Alike
<1> QED
  BY <1>1, <1>2, <1>3, <1>4, QuietStep

\* The steps of the rollback
LEMMA UndoIs ==
    ASSUME Types, NEW pc \in DOMAIN UndoNext, Undo(pc)
    PROVE  /\ InSingle(pc) /\ pc \in OwnSteps
           /\ UNCHANGED <<releases, journal, kind, used>>
           /\ ~(pc = "show" /\ op.stuck) => /\ Goto(UndoNext[pc])
                                            /\ UndoNext[pc] \in OwnSteps \cup {"discard"}
           /\ pc = "show" /\ op.stuck => op' = Idle
           /\ pc = "hide" => UndoNext[pc] = "clear"
           /\ pc = "clear" => UndoNext[pc] = "drop"
           /\ pc = "drop" => UndoNext[pc] = "back"
           /\ pc = "back" => UndoNext[pc] = "refit"
           /\ pc = "refit" => UndoNext[pc] = "show"
           /\ pc = "show" => UndoNext[pc] = "discard"
<1>1. pc \in {"hide", "clear", "drop", "back", "refit", "show"}
  BY DEF UndoNext
<1>2. pc \in OwnSteps
  BY <1>1 DEF OwnSteps
<1>3. InSingle(pc)
  BY <1>2, SingleIs DEF Undo
<1>4. /\ pc = "hide" => UndoNext[pc] = "clear"
      /\ pc = "clear" => UndoNext[pc] = "drop"
      /\ pc = "drop" => UndoNext[pc] = "back"
      /\ pc = "back" => UndoNext[pc] = "refit"
      /\ pc = "refit" => UndoNext[pc] = "show"
      /\ pc = "show" => UndoNext[pc] = "discard"
  BY DEF UndoNext
<1>5. UndoNext[pc] \in OwnSteps \cup {"discard"}
  BY <1>1, <1>4 DEF OwnSteps
<1> QED
  BY <1>2, <1>3, <1>4, <1>5 DEF Undo, Goto

LEMMA SingleHideTypes ==
    ASSUME Types, SingleHide
    PROVE  /\ Types' /\ InSingle("hide") /\ Went("clear")
           /\ manifest' = IF op.live THEN NoManifest ELSE manifest
           /\ ~misled' => /\ ~misled
                          /\ op.live => \A p \in BatchLeft :
                               \/ backup[p].committed
                               \/ p \notin releases /\ backup[p].base.by = 0
           /\ UNCHANGED <<script, resources, releases, backup, journal, kind, used>>
<1>1. "hide" \in DOMAIN UndoNext /\ Undo("hide")
  BY DEF UndoNext, SingleHide
<1>2. /\ InSingle("hide") /\ Goto("clear") /\ op.pc # "idle" /\ op.rec = 0 /\ op \in Ops
      /\ UNCHANGED <<releases, journal, kind, used>>
  BY <1>1, UndoIs DEF InSingle
<1>3. /\ manifest' = IF op.live THEN NoManifest ELSE manifest
      /\ ~misled' => /\ ~misled
                     /\ op.live => \A p \in BatchLeft :
                          \/ backup[p].committed
                          \/ p \notin releases /\ backup[p].base.by = 0
      /\ UNCHANGED <<script, resources, backup>>
  BY DEF SingleHide
<1>4. Went("clear") /\ "clear" \in OwnSteps
  BY <1>2, GoesTo DEF Steps, OwnSteps
<1>5. op' \in Ops' /\ Placed(op)'
  BY <1>2, <1>4, OwnPlaced
<1>6. manifest' \in Written /\ (manifest'.by = 0 => manifest' = NoManifest)
  BY <1>3, BoundFacts DEF Types, DiskTypes
<1>7. DiskTypes'
  BY <1>2, <1>3, <1>6 DEF Types, DiskTypes, Blank, Ids, Written, Backups
<1> QED
  BY <1>2, <1>3, <1>4, <1>5, <1>7 DEF Types

LEMMA SingleClearTypes ==
    ASSUME Types, SingleClear
    PROVE  /\ Types' /\ InSingle("clear") /\ Went("drop")
           /\ \E e \in op.cur :
                /\ e \in Exam /\ script'[e] = 0
                /\ \A d \in Exam : d # e => script'[d] = script[d]
           /\ UNCHANGED <<manifest, resources, releases, backup, journal, kind, used, misled>>
<1>1. "clear" \in DOMAIN UndoNext /\ Undo("clear") /\ "drop" \in OwnSteps
  BY DEF UndoNext, SingleClear, OwnSteps
<1>2. /\ InSingle("clear") /\ Goto("drop") /\ op.id \in Pubs /\ "clear" \in OwnSteps
      /\ UNCHANGED <<releases, journal, kind, used>>
  BY <1>1, UndoIs DEF InSingle
<1>3. PICK e \in op.cur : script' = [script EXCEPT ![e] = 0]
  BY DEF SingleClear
<1>4. UNCHANGED <<manifest, resources, backup, misled>>
  BY DEF SingleClear
<1>5. e \in Exam /\ 0 \in Ids /\ script \in [Exam -> Ids]
  BY <1>2, BoundFacts DEF InSingle, Types, DiskTypes
<1>6. /\ script' \in [Exam -> Ids] /\ script'[e] = 0
      /\ \A d \in Exam : d # e => script'[d] = script[d]
  BY <1>3, <1>5
<1>7. Types' /\ Went("drop")
  BY <1>1, <1>2, <1>4, <1>6, SameFiles, SingleMoves
<1> QED
  BY <1>2, <1>4, <1>5, <1>6, <1>7

LEMMA SingleDropTypes ==
    ASSUME Types, SingleDrop
    PROVE  /\ Types' /\ InSingle("drop") /\ Went("back")
           /\ \E e \in op.cur :
                /\ e \in Exam /\ resources'[e] = 0
                /\ \A d \in Exam : d # e => resources'[d] = resources[d]
           /\ UNCHANGED <<manifest, script, releases, backup, journal, kind, used, misled>>
<1>1. "drop" \in DOMAIN UndoNext /\ Undo("drop") /\ "back" \in OwnSteps
  BY DEF UndoNext, SingleDrop, OwnSteps
<1>2. /\ InSingle("drop") /\ Goto("back") /\ op.id \in Pubs /\ "drop" \in OwnSteps
      /\ UNCHANGED <<releases, journal, kind, used>>
  BY <1>1, UndoIs DEF InSingle
<1>3. PICK e \in op.cur : resources' = [resources EXCEPT ![e] = 0]
  BY DEF SingleDrop
<1>4. UNCHANGED <<manifest, script, backup, misled>>
  BY DEF SingleDrop
<1>5. e \in Exam /\ 0 \in Ids /\ resources \in [Exam -> Ids]
  BY <1>2, BoundFacts DEF InSingle, Types, DiskTypes
<1>6. /\ resources' \in [Exam -> Ids] /\ resources'[e] = 0
      /\ \A d \in Exam : d # e => resources'[d] = resources[d]
  BY <1>3, <1>5
<1>7. Types' /\ Went("back")
  BY <1>1, <1>2, <1>4, <1>6, SameFiles, SingleMoves
<1> QED
  BY <1>2, <1>4, <1>5, <1>6, <1>7

LEMMA SingleBackTypes ==
    ASSUME Types, SingleBack
    PROVE  /\ Types' /\ InSingle("back") /\ Went("refit") /\ Only(op.id)
           /\ \E e \in op.cur :
                /\ e \in Exam
                /\ script'[e] = (IF backup[op.id].script = 0 THEN script[e] ELSE backup[op.id].script)
                /\ \A d \in Exam : d # e => script'[d] = script[d]
           /\ backup'[op.id].script = 0 /\ backup'[op.id].base = backup[op.id].base
           /\ backup'[op.id].state = backup[op.id].state
           /\ backup'[op.id].exams = backup[op.id].exams
           /\ backup'[op.id].dir = backup[op.id].dir
           /\ backup'[op.id].res = backup[op.id].res
           /\ UNCHANGED <<manifest, resources, releases, journal, kind, used, misled>>
<1>1. "back" \in DOMAIN UndoNext /\ Undo("back") /\ "refit" \in OwnSteps
  BY DEF UndoNext, SingleBack, OwnSteps
<1>2. /\ InSingle("back") /\ Goto("refit") /\ op.id \in Pubs /\ "back" \in OwnSteps
      /\ UNCHANGED <<releases, journal, kind, used>>
  BY <1>1, UndoIs DEF InSingle
<1>3. PICK x : x = op.id
  OBVIOUS
<1>4. PICK e \in op.cur :
         script' = [script EXCEPT ![e] = IF backup[x].script = 0 THEN @ ELSE backup[x].script]
  BY <1>3 DEF SingleBack
<1>5. backup' = [backup EXCEPT ![x].script = 0] /\ UNCHANGED <<manifest, resources, misled>>
  BY <1>3 DEF SingleBack
<1>6. /\ e \in Exam /\ 0 \in Ids /\ script \in [Exam -> Ids] /\ script[e] \in Ids
      /\ x \in Pubs /\ backup \in [Pubs -> Backups] /\ backup[x] \in Backups
      /\ backup[x].script \in Ids
  BY <1>2, <1>3, SameFiles, RecordFacts, BoundFacts DEF InSingle, Types, DiskTypes
<1>7. PICK v : v = IF backup[x].script = 0 THEN script[e] ELSE backup[x].script
  OBVIOUS
<1>8. script' = [script EXCEPT ![e] = v] /\ v \in Ids
  BY <1>4, <1>6, <1>7
<1>9. /\ script' \in [Exam -> Ids] /\ script'[e] = v
      /\ \A d \in Exam : d # e => script'[d] = script[d]
  BY <1>6, <1>8
<1>10. /\ Only(x) /\ backup'[x].script = 0
       /\ backup'[x].base = backup[x].base /\ backup'[x].res = backup[x].res
       /\ backup'[x].state = backup[x].state /\ backup'[x].exams = backup[x].exams
       /\ backup'[x].dir = backup[x].dir
  BY <1>5, <1>6 DEF Only, Backups
<1>11. Types' /\ Went("refit")
  BY <1>1, <1>2, <1>3, <1>5, <1>9, <1>10, SameFiles, SingleMoves
<1>12. \E d \in op.cur :
          /\ d \in Exam
          /\ script'[d] = (IF backup[op.id].script = 0 THEN script[d] ELSE backup[op.id].script)
          /\ \A f \in Exam : f # d => script'[f] = script[f]
  BY <1>3, <1>6, <1>7, <1>9
<1> QED
  BY <1>2, <1>3, <1>5, <1>10, <1>11, <1>12

\* A directory is renamed from the backup to a place that is free.
LEMMA SingleRefitTypes ==
    ASSUME Types, SingleRefit
    PROVE  /\ Types' /\ InSingle("refit") /\ Went("show") /\ Only(op.id)
           /\ \E e \in op.cur :
                /\ e \in Exam
                /\ resources'[e] = (IF backup[op.id].res[e] = 0 THEN resources[e]
                                    ELSE backup[op.id].res[e])
                /\ backup'[op.id].res[e] = 0
                /\ \A d \in Exam : d # e => /\ resources'[d] = resources[d]
                                            /\ backup'[op.id].res[d] = backup[op.id].res[d]
           /\ backup'[op.id].script = backup[op.id].script
           /\ backup'[op.id].base = backup[op.id].base
           /\ backup'[op.id].state = backup[op.id].state
           /\ backup'[op.id].exams = backup[op.id].exams
           /\ backup'[op.id].dir = backup[op.id].dir
           /\ UNCHANGED <<manifest, script, releases, journal, kind, used, misled>>
<1>1. "refit" \in DOMAIN UndoNext /\ Undo("refit") /\ "show" \in OwnSteps
  BY DEF UndoNext, SingleRefit, OwnSteps
<1>2. /\ InSingle("refit") /\ Goto("show") /\ op.id \in Pubs /\ "refit" \in OwnSteps
      /\ UNCHANGED <<releases, journal, kind, used>>
  BY <1>1, UndoIs DEF InSingle
<1>3. PICK x : x = op.id
  OBVIOUS
<1>4. PICK e \in op.cur :
         /\ resources[e] = 0 \/ backup[x].res[e] = 0
         /\ resources' = [resources EXCEPT ![e] = @ + backup[x].res[e]]
         /\ backup' = [backup EXCEPT ![x].res[e] = 0]
  BY <1>3 DEF SingleRefit
<1>5. UNCHANGED <<manifest, script, misled>>
  BY DEF SingleRefit
<1>6. /\ e \in Exam /\ 0 \in Ids /\ resources \in [Exam -> Ids] /\ resources[e] \in Ids
      /\ x \in Pubs /\ backup \in [Pubs -> Backups] /\ backup[x] \in Backups
      /\ backup[x].res \in [Exam -> Ids] /\ backup[x].res[e] \in Ids
  BY <1>2, <1>3, SameFiles, RecordFacts, BoundFacts DEF InSingle, Types, DiskTypes
<1>7. resources[e] \in Nat /\ backup[x].res[e] \in Nat
  BY <1>6, BoundFacts DEF Types
<1>8. PICK v : v = IF backup[x].res[e] = 0 THEN resources[e] ELSE backup[x].res[e]
  OBVIOUS
<1>9. resources' = [resources EXCEPT ![e] = v] /\ v \in Ids
  <2>1. resources[e] + backup[x].res[e] = v
    BY <1>4, <1>7, <1>8
  <2>2. resources' = [resources EXCEPT ![e] = resources[e] + backup[x].res[e]]
    BY <1>4
  <2> QED
    BY <1>6, <1>8, <2>1, <2>2
<1>10. /\ resources' \in [Exam -> Ids] /\ resources'[e] = v
       /\ \A d \in Exam : d # e => resources'[d] = resources[d]
  BY <1>6, <1>9
<1>11. /\ Only(x) /\ backup'[x].res = [backup[x].res EXCEPT ![e] = 0]
       /\ backup'[x].script = backup[x].script /\ backup'[x].base = backup[x].base
       /\ backup'[x].state = backup[x].state /\ backup'[x].exams = backup[x].exams
       /\ backup'[x].dir = backup[x].dir
  BY <1>4, <1>6 DEF Only, Backups
<1>12. Types' /\ Went("show")
  BY <1>1, <1>2, <1>3, <1>5, <1>10, <1>11, SameFiles, SingleMoves
<1>13. \E d \in op.cur :
          /\ d \in Exam
          /\ resources'[d] = (IF backup[op.id].res[d] = 0 THEN resources[d]
                              ELSE backup[op.id].res[d])
          /\ backup'[op.id].res[d] = 0
          /\ \A f \in Exam : f # d => /\ resources'[f] = resources[f]
                                      /\ backup'[op.id].res[f] = backup[op.id].res[f]
  BY <1>3, <1>6, <1>8, <1>10, <1>11
<1> QED
  BY <1>2, <1>3, <1>5, <1>11, <1>12, <1>13

LEMMA SingleShowTypes ==
    ASSUME Types, SingleShow
    PROVE  /\ Types' /\ InSingle("show") /\ SameButBase(op.id)
           /\ IF op.stuck THEN op' = Idle ELSE op'.pc = "discard" /\ Stays
           /\ IF backup[op.id].base.by # 0 /\ (op.live \/ manifest.by = 0)
                THEN manifest' = backup[op.id].base /\ backup'[op.id].base = NoManifest
                ELSE manifest' = manifest /\ backup' = backup
           /\ UNCHANGED <<script, resources, releases, journal, kind, used, misled>>
<1>1. "show" \in DOMAIN UndoNext /\ Undo("show")
  BY DEF UndoNext, SingleShow
<1>2. /\ InSingle("show") /\ op.pc # "idle" /\ op.rec = 0 /\ op \in Ops
      /\ UNCHANGED <<releases, journal, kind, used>>
      /\ IF op.stuck THEN op' = Idle ELSE Goto("discard")
  BY <1>1, UndoIs DEF InSingle
<1>3. PICK x : x = op.id
  OBVIOUS
<1>4. UNCHANGED <<script, resources, misled>>
  BY DEF SingleShow
<1>5. /\ x \in Pubs /\ x <= used /\ kind[x] # "batch"
      /\ backup \in [Pubs -> Backups] /\ backup[x] \in Backups /\ NoManifest \in Written
      /\ backup[x].base \in Written
      /\ manifest \in Written /\ (manifest.by = 0 => manifest = NoManifest)
  BY <1>2, <1>3, RecordFacts, BoundFacts DEF InSingle, Types, DiskTypes
<1>6. /\ SameButBase(x) /\ manifest' \in Written /\ (manifest'.by = 0 => manifest' = NoManifest)
      /\ IF backup[x].base.by # 0 /\ (op.live \/ manifest.by = 0)
           THEN manifest' = backup[x].base /\ backup'[x].base = NoManifest
           ELSE manifest' = manifest /\ backup' = backup
  <2>1. CASE backup[x].base.by # 0 /\ (op.live \/ manifest.by = 0)
    <3>1. manifest' = backup[x].base /\ backup' = [backup EXCEPT ![x].base = NoManifest]
      BY <1>3, <2>1 DEF SingleShow
    <3> QED
      BY <1>5, <2>1, <3>1 DEF SameButBase, Only, Backups
  <2>2. CASE ~(backup[x].base.by # 0 /\ (op.live \/ manifest.by = 0))
    <3>1. manifest' = manifest /\ backup' = backup
      BY <1>3, <2>2 DEF SingleShow
    <3> QED
      BY <1>5, <2>2, <3>1 DEF SameButBase, Only
  <2> QED
    BY <2>1, <2>2
<1>7. DiskTypes'
  <2>1. /\ script' \in [Exam -> Ids] /\ resources' \in [Exam -> Ids]
        /\ releases' \subseteq Pubs /\ (\A p \in releases' : kind[p] = "batch")
        /\ journal' \in [Pubs -> {"none", "open", "closed"}]
        /\ \A p \in Pubs : journal'[p] = journal[p]
    BY <1>2, <1>4 DEF Types, DiskTypes
  <2> QED
    BY <1>2, <1>5, <1>6, <2>1, DiskStep DEF Types, SameButBase
<1>8. CASE op.stuck
  <2>1. op' \in Ops' /\ Placed(op)' /\ op' = Idle
    BY <1>2, <1>8, IdleStep
  <2> QED
    BY <1>2, <1>3, <1>4, <1>6, <1>7, <1>8, <2>1 DEF Types
<1>9. CASE ~op.stuck
  <2>1. Went("discard")
    BY <1>2, <1>9, GoesTo DEF Steps
  <2>2. op' \in Ops' /\ Placed(op)'
    BY <1>2, <2>1, OwnPlaced
  <2> QED
    BY <1>2, <1>3, <1>4, <1>6, <1>7, <1>9, <2>1, <2>2 DEF Types, Went
<1> QED
  BY <1>8, <1>9

LEMMA SingleUndoFailsTypes ==
    ASSUME Types, SingleUndoFails
    PROVE  /\ Types' /\ UNCHANGED <<disk, kind, used>>
           /\ ~misled' => ~misled /\ ~(op.pc = "hide" /\ op.live)
           /\ \E pc \in {"hide", "clear", "drop", "back", "refit", "show"} :
                /\ InSingle(pc)
                /\ IF pc = "show" THEN op' = Idle
                   ELSE /\ op'.pc = UndoNext[pc] /\ Alike(op', op) /\ op'.cur = op.cur
                        /\ op'.rec = op.rec /\ op'.seen = op.seen
                        /\ op'.live = op.live /\ op'.failing = op.failing /\ op'.stuck = TRUE
<1>1. PICK pc \in DOMAIN UndoNext :
         /\ Single(pc)
         /\ op' = IF pc = "show" THEN Idle
                  ELSE [op EXCEPT !.stuck = TRUE, !.pc = UndoNext[pc]]
  BY DEF SingleUndoFails
<1>2. pc \in {"hide", "clear", "drop", "back", "refit", "show"} /\ pc \in OwnSteps
  BY DEF UndoNext, OwnSteps
<1>3. InSingle(pc) /\ op.pc # "idle" /\ op.rec = 0 /\ op \in Ops /\ op.pc = pc
  BY <1>1, <1>2, SingleIs DEF InSingle
<1>4. /\ UNCHANGED <<disk, kind, used>>
      /\ misled' = (misled \/ (Single("hide") /\ op.live))
  BY DEF SingleUndoFails
<1>5. ~misled' => ~misled /\ ~(op.pc = "hide" /\ op.live)
  BY <1>3, <1>4 DEF Single, At, InSingle
<1>6. CASE pc = "show"
  <2>1. op' = Idle
    BY <1>1, <1>6
  <2> QED
    BY <1>2, <1>3, <1>4, <1>5, <1>6, <2>1, EndTypes
<1>7. CASE pc # "show"
  <2>1. UndoNext[pc] \in Steps /\ UndoNext[pc] \in OwnSteps
    BY <1>2, <1>7 DEF UndoNext, Steps, OwnSteps
  <2>2. op' = [op EXCEPT !.stuck = TRUE, !.pc = UndoNext[pc]]
    BY <1>1, <1>7
  <2>3. /\ op' \in Ops /\ op'.pc = UndoNext[pc] /\ Alike(op', op) /\ op'.cur = op.cur
        /\ op'.rec = op.rec /\ op'.seen = op.seen
        /\ op'.live = op.live /\ op'.failing = op.failing /\ op'.stuck = TRUE
    BY <1>3, <2>1, <2>2, StuckIs
  <2>4. Ops' = Ops /\ Placed(op)'
    BY <1>3, <1>4, <2>1, <2>3 DEF Ops, Written, Ids, Types, Placed, OwnSteps, Alike
  <2>5. Types'
    BY <1>3, <1>4, <2>3, <2>4, QuietStep
  <2> QED
    BY <1>2, <1>3, <1>4, <1>5, <1>7, <2>3, <2>5
<1> QED
  BY <1>6, <1>7

-------------------------------------------------------------------------------
(* The exporter without a lock *)

\* A number is given to the export as it ends; the disk is typed again with it.
LEMMA ExportsIs ==
    ASSUME Types, Exports, script' \in [Exam -> Ids'], manifest' \in Written',
           manifest'.by = 0 => manifest' = NoManifest
    PROVE  /\ Types' /\ used' = used + 1 /\ used + 1 \in Pubs /\ Blank(used + 1)
           /\ kind'[used + 1] = "legacy"
           /\ \A p \in Pubs : p # used + 1 => kind'[p] = kind[p]
           /\ \A p \in Ids : p # used + 1
           /\ op' = op /\ UNCHANGED <<resources, releases, backup, journal>>
<1>1. /\ used' = used + 1 /\ used < MaxPublish /\ kind' = [kind EXCEPT ![used + 1] = "legacy"]
      /\ op' = op /\ UNCHANGED <<resources, releases, backup, journal>>
  BY DEF Exports
<1>2. used \in Nat
  BY BoundFacts DEF Types
<1>3. Ids \subseteq Ids'
  BY <1>1, <1>2 DEF Ids
<1>4. resources' \in [Exam -> Ids']
  BY <1>1, <1>3 DEF Types, DiskTypes
<1>5. /\ DiskTypes' /\ used + 1 \in Pubs /\ Blank(used + 1)
      /\ Written \subseteq Written'
      /\ \A p \in Pubs : p # used + 1 => kind'[p] = kind[p]
      /\ kind'[used + 1] = "legacy" /\ \A p \in Ids : p # used + 1
  BY <1>1, <1>4, MoreTypes DEF Types
<1>6. op' \in Ops'
  BY <1>1, <1>3, <1>5, WidenOps DEF Types
<1>7. Placed(op)'
  <2>1. op.id \in Ids /\ op.rec \in Ids
    BY DEF Types, Ops
  <2>2. /\ op.id # 0 => kind'[op.id] = kind[op.id]
        /\ op.rec # 0 => kind'[op.rec] = kind[op.rec]
    BY <1>5, <2>1, BoundFacts DEF Types
  <2>3. op.pc = "unrelease" => op.id # 0
    BY OwnPub
  <2> QED
    BY <1>1, <2>2, <2>3 DEF Types, Placed
<1> QED
  BY <1>1, <1>5, <1>6, <1>7 DEF Types

LEMMA LegacyTypes ==
    ASSUME Types, ExportTypes, LegacyWrite
    PROVE  /\ Types' /\ used' = used + 1 /\ used + 1 \in Pubs /\ Blank(used + 1)
           /\ kind'[used + 1] = "legacy"
           /\ \A p \in Pubs : p # used + 1 => kind'[p] = kind[p]
           /\ \A p \in Ids : p # used + 1
           /\ manifest'.by = used + 1
           /\ \E e \in Exam :
                /\ script'[e] = used + 1 /\ manifest'.entry[e] = used + 1
                /\ \A d \in Exam : d # e => /\ script'[d] = script[d]
                                            /\ manifest'.entry[d] = export.base.entry[d]
           /\ ~misled' => /\ ~misled /\ BeforeCheck /\ \A p \in Left : p = op.id
                          /\ manifest = export.base
           /\ op' = op /\ UNCHANGED <<resources, releases, backup, journal>>
<1>1. PICK e \in Exam :
         /\ script' = [script EXCEPT ![e] = used + 1]
         /\ manifest' = [by |-> used + 1, entry |-> [export.base.entry EXCEPT ![e] = used + 1]]
  BY DEF LegacyWrite
<1>2. /\ Exports /\ used' = used + 1
      /\ misled' = (misled \/ ~BeforeCheck \/ Left \ {op.id} # {} \/ manifest # export.base)
  BY DEF LegacyWrite, Exports
<1>3. used \in Nat
  BY BoundFacts DEF Types
<1>4. Ids \subseteq Ids' /\ used + 1 \in Ids' /\ used + 1 # 0
  BY <1>2, <1>3 DEF Ids
<1>5. export.base.entry \in [Exam -> Ids] /\ script \in [Exam -> Ids]
  BY DEF Types, DiskTypes, ExportTypes, Written
<1>6. /\ script'[e] = used + 1 /\ manifest'.entry[e] = used + 1 /\ manifest'.by = used + 1
      /\ \A d \in Exam : d # e => /\ script'[d] = script[d]
                                  /\ manifest'.entry[d] = export.base.entry[d]
  BY <1>1, <1>5
<1>7. script' \in [Exam -> Ids']
  BY <1>1, <1>4, <1>5
<1>8. manifest' \in Written'
  <2>1. [export.base.entry EXCEPT ![e] = used + 1] \in [Exam -> Ids']
    BY <1>4, <1>5
  <2> QED
    BY <1>1, <1>4, <2>1 DEF Written
<1>9. /\ Types' /\ used' = used + 1 /\ used + 1 \in Pubs /\ Blank(used + 1)
      /\ kind'[used + 1] = "legacy"
      /\ \A p \in Pubs : p # used + 1 => kind'[p] = kind[p]
      /\ \A p \in Ids : p # used + 1
      /\ op' = op /\ UNCHANGED <<resources, releases, backup, journal>>
  BY <1>2, <1>4, <1>6, <1>7, <1>8, ExportsIs
<1>10. ~misled' => /\ ~misled /\ BeforeCheck /\ \A p \in Left : p = op.id
                   /\ manifest = export.base
  BY <1>2
<1> QED
  BY <1>6, <1>9, <1>10

LEMMA TornTypes ==
    ASSUME Types, LegacyTorn
    PROVE  /\ Types' /\ used' = used + 1 /\ used + 1 \in Pubs /\ Blank(used + 1)
           /\ kind'[used + 1] = "legacy"
           /\ \A p \in Pubs : p # used + 1 => kind'[p] = kind[p]
           /\ \A p \in Ids : p # used + 1
           /\ manifest' \in {manifest, NoManifest}
           /\ ~misled' => ~misled /\ script' = script /\ manifest' = manifest
           /\ op' = op /\ UNCHANGED <<resources, releases, backup, journal>>
<1>1. PICK e \in Exam, s \in {0, used + 1} :
         script' \in {script, [script EXCEPT ![e] = s]}
  BY DEF LegacyTorn
<1>2. /\ Exports /\ used' = used + 1 /\ manifest' \in {manifest, NoManifest}
      /\ misled' = (misled \/ script' # script \/ manifest' # manifest)
  BY DEF LegacyTorn, Exports
<1>3. used \in Nat /\ 0 \in Ids /\ NoManifest \in Written
  BY BoundFacts DEF Types
<1>4. Ids \subseteq Ids' /\ used + 1 \in Ids' /\ s \in Ids'
  BY <1>1, <1>2, <1>3 DEF Ids
<1>5. script' \in [Exam -> Ids']
  BY <1>1, <1>4 DEF Types, DiskTypes
<1>6. manifest' \in Written' /\ (manifest'.by = 0 => manifest' = NoManifest)
  <2>1. Written \subseteq Written'
    BY <1>4 DEF Written
  <2> QED
    BY <1>2, <1>3, <2>1 DEF Types, DiskTypes
<1>7. /\ Types' /\ used' = used + 1 /\ used + 1 \in Pubs /\ Blank(used + 1)
      /\ kind'[used + 1] = "legacy"
      /\ \A p \in Pubs : p # used + 1 => kind'[p] = kind[p]
      /\ \A p \in Ids : p # used + 1
      /\ op' = op /\ UNCHANGED <<resources, releases, backup, journal>>
  BY <1>2, <1>5, <1>6, ExportsIs
<1> QED
  BY <1>2, <1>7

\* An export that only reads leaves everything else as it is.
LEMMA ReadIs ==
    ASSUME LegacyRead
    PROVE  /\ UNCHANGED <<manifest, script, resources, releases, backup, journal>>
           /\ UNCHANGED <<kind, op, used, misled>>
BY DEF LegacyRead, disk

-------------------------------------------------------------------------------
(* The types hold *)

LEMMA InitTypes == Init => Types
<1> SUFFICES ASSUME Init
             PROVE  Types
  OBVIOUS
<1>1. used = 0 /\ MaxPublish \in Nat
  BY BoundsAssumption DEF Init
<1>2. Ids = {0} /\ used \in Publication
  BY <1>1 DEF Ids, Publication
<1>3. Nothing \in [Exam -> Ids]
  BY <1>2 DEF Nothing
<1>4. NoManifest \in Written /\ NoManifest.by = 0
  BY <1>2, <1>3 DEF NoManifest, Written
<1>5. NoBackup \in Backups /\ NoBackup.script = 0
  BY <1>2, <1>3, <1>4 DEF NoBackup, Backups
<1>6. /\ manifest = NoManifest /\ script = Nothing /\ resources = Nothing /\ releases = {}
      /\ backup = [p \in Pubs |-> NoBackup] /\ journal = [p \in Pubs |-> "none"]
      /\ kind = [p \in Pubs |-> "none"] /\ op = Idle
  BY DEF Init
<1>7. \A p \in Pubs : Blank(p)
  BY <1>6 DEF Blank
<1>8. DiskTypes
  BY <1>2, <1>3, <1>4, <1>5, <1>6, <1>7 DEF DiskTypes
<1>9. Idle \in Ops /\ Placed(Idle)
  BY <1>8, IdleType, IdleFacts DEF Placed, OwnSteps
<1> QED
  BY <1>6, <1>8, <1>9 DEF Types

\* Only the export itself changes what it has read, and numbers only grow.
LEMMA ExportMoves ==
    ASSUME Types, [Next]_vars
    PROVE  /\ LegacyRead \/ Exports \/ UNCHANGED export
           /\ used' \in {used, used + 1}
<1>1. CASE StartBatch \/ StartSingle
  BY <1>1, ZenonT(60) DEF StartBatch, StartSingle, Start
<1>2. CASE Recovery
  BY <1>2 DEF Recovery, RecoverBatch, RecoverSingle, RecoveryRefused, Recovered, Restore,
     RestoreManifest, Unrelease, DropPart, Discarded, Quiet
<1>3. CASE BatchStep
  BY <1>3, ZenonT(60) DEF BatchStep, BatchBaseline, BatchState, BatchNote, BatchVerify,
     BatchRelease, BatchFlag, BatchConflict, BatchStepFails, BatchFlagFails, BatchUndo,
     BatchUndoFails, Quiet, Fails
<1>4. CASE SingleStep
  BY <1>4, ZenonT(60) DEF SingleStep, SingleStage, SingleDir, SingleState, SingleCopy,
     SingleAside, SingleExam, SingleNote, SingleClose, SingleStateFails, SingleBackupFails,
     SingleInstallFails, SingleCloseFails, SingleHide, SingleClear, SingleDrop, SingleBack,
     SingleRefit, SingleShow, SingleUndoFails, Undo, Quiet, Fails
<1>5. CASE Stash \/ Place \/ Replace
  BY <1>5 DEF Stash, Place, Replace, Quiet
<1>6. CASE DiscardFails \/ RecoveryFails \/ Crash
  BY <1>6 DEF DiscardFails, RecoveryFails, Crash, Fails
<1>7. CASE LegacyRead \/ LegacyWrite \/ LegacyTorn
  BY <1>7 DEF LegacyRead, LegacyWrite, LegacyTorn, Exports
<1>8. CASE UNCHANGED vars
  BY <1>8 DEF vars
<1> QED
  BY <1>1, <1>2, <1>3, <1>4, <1>5, <1>6, <1>7, <1>8 DEF Next

LEMMA NextExport == Types /\ ExportTypes /\ [Next]_vars => ExportTypes'
<1> SUFFICES ASSUME Types, ExportTypes, [Next]_vars
             PROVE  ExportTypes'
  OBVIOUS
<1>1. LegacyRead \/ Exports \/ UNCHANGED export
  BY ExportMoves
<1>2. used \in Nat /\ used' \in {used, used + 1} /\ NoManifest \in Written
  BY ExportMoves, BoundFacts DEF Types
<1>3. Written \subseteq Written'
  <2>1. Ids \subseteq Ids'
    BY <1>2 DEF Ids
  <2> QED
    BY <2>1 DEF Written
<1>4. manifest \in Written
  BY DEF Types, DiskTypes
<1>5. CASE LegacyRead
  BY <1>3, <1>4, <1>5 DEF LegacyRead, ExportTypes
<1>6. CASE Exports
  BY <1>2, <1>3, <1>6 DEF Exports, NoExport, ExportTypes
<1>7. CASE UNCHANGED export
  BY <1>3, <1>7 DEF ExportTypes
<1> QED
  BY <1>1, <1>5, <1>6, <1>7

LEMMA NextTypes == Types /\ ExportTypes /\ [Next]_vars => Types'
<1> SUFFICES ASSUME Types, ExportTypes, [Next]_vars
             PROVE  Types'
  OBVIOUS
<1>1. CASE StartBatch
  <2>1. PICK S \in SUBSET Exam \ {{}} : Start("batch", S)
    BY <1>1 DEF StartBatch
  <2> QED
    BY <2>1, StartTypes
<1>2. CASE StartSingle
  <2>1. PICK e \in Exam : Start("single", {e})
    BY <1>2 DEF StartSingle
  <2>2. {e} \in SUBSET Exam
    OBVIOUS
  <2> QED
    BY <2>1, <2>2, StartTypes
<1>3. CASE Recovery
  BY <1>3, RecoverBatchTypes, RecoverSingleTypes, RefusedTypes, RecoveredTypes, RestoreTypes,
     RestoreManifestTypes, UnreleaseTypes, DropPartTypes, DiscardedTypes DEF Recovery
<1>4. CASE BatchStep
  BY <1>4, BatchBaselineTypes, BatchStateTypes, BatchNoteTypes, BatchVerifyTypes,
     BatchReleaseTypes, BatchFlagTypes, BatchConflictTypes, BatchStepFailsTypes,
     BatchFlagFailsTypes, BatchUndoTypes, BatchUndoFailsTypes DEF BatchStep
<1>5. CASE SingleStep
  BY <1>5, SingleStageTypes, SingleDirTypes, SingleStateTypes, SingleCopyTypes, SingleAsideTypes,
     SingleExamTypes, SingleNoteTypes, SingleCloseTypes, SingleStateFailsTypes,
     SingleBackupFailsTypes, SingleInstallFailsTypes, SingleCloseFailsTypes, SingleHideTypes,
     SingleClearTypes, SingleDropTypes, SingleBackTypes, SingleRefitTypes, SingleShowTypes,
     SingleUndoFailsTypes DEF SingleStep
<1>6. CASE Stash \/ Place \/ Replace
  BY <1>6, StashTypes, PlaceTypes, ReplaceTypes
<1>7. CASE DiscardFails \/ RecoveryFails \/ Crash \/ LegacyWrite \/ LegacyTorn
  BY <1>7, DiscardFailsTypes, RecoveryFailsTypes, CrashTypes, LegacyTypes, TornTypes
<1>8. CASE LegacyRead \/ UNCHANGED vars
  <2>1. UNCHANGED <<disk, used, kind, op>>
    BY <1>8, ReadIs DEF vars, disk
  <2>2. Ops' = Ops /\ Placed(op)'
    BY <2>1 DEF Ops, Written, Ids, Placed, Types
  <2> QED
    BY <2>1, <2>2, DiskSame DEF Types
<1> QED
  BY <1>1, <1>2, <1>3, <1>4, <1>5, <1>6, <1>7, <1>8 DEF Next

-------------------------------------------------------------------------------
(* What is open and what is settled *)

\* A file where there was none does not disturb an entry.
LEMMA RestorableKept ==
    ASSUME NEW x, Restorable(x), kind' = kind, releases \subseteq releases',
           \A e \in Exam : BaseOf(x)'.entry[e] = BaseOf(x).entry[e],
           \A e \in Exam : ScriptIn(x, e)' = ScriptIn(x, e) \/ ScriptIn(x, e) = 0,
           \A e \in Exam : ResIn(x, e)' = ResIn(x, e) \/ ResIn(x, e) = 0
    PROVE  Restorable(x)'
BY DEF Restorable, Fits

LEMMA InPlaceKept ==
    ASSUME InPlace, UNCHANGED <<kind, manifest, script, resources>>, releases \subseteq releases'
    PROVE  InPlace'
BY DEF InPlace, Fits

LEMMA OwnFacts ==
    ASSUME Types, Own
    PROVE  /\ op.rec = 0 /\ op.pc # "idle" /\ op.pc # "recover" /\ op.pc # "restore"
           /\ target = op.id /\ op.id \in Pubs /\ op.id \in Ids /\ op.id # 0
           /\ ~Recovering /\ \A p : ~Ahead(p)
<1>1. op.rec = 0 /\ op.pc # "idle" /\ op.pc # "recover" /\ op.pc # "restore"
  BY DEF Own, OwnSteps, Types, Placed
<1> QED
  BY <1>1, OwnPub DEF target, Recovering, Ahead

\* The publisher of publication x takes a step that leaves the manifest, or
\* puts the one it built on back.
LEMMA SettledOwn ==
    ASSUME Types, Types', NEW x \in Ids, Settled(x), Own, Own', x = op.id,
           kind' = kind, manifest' = manifest \/ (manifest' = BaseOf(x) /\ manifest'.by # 0),
           BaseOf(x)' = BaseOf(x), releases \subseteq releases',
           \A p \in Pubs : p # x => backup'[p] = backup[p] /\ journal'[p] = journal[p],
           op'.live = op.live, op'.base = op.base, op'.id = op.id
    PROVE  Settled(x)'
<1>1. /\ op.rec = 0 /\ target = x /\ op'.rec = 0 /\ target' = x
      /\ op'.pc # "restore"
      /\ \A p : ~Ahead(p) /\ ~Ahead(p)'
  <2>1. op.rec = 0 /\ target = x /\ \A p : ~Ahead(p)
    BY OwnFacts
  <2>2. op'.rec = 0 /\ op'.pc # "restore" /\ op'.pc # "idle"
    BY DEF Own, OwnSteps, Types, Placed
  <2>3. target' = x /\ \A p : ~Ahead(p)'
    BY <2>2 DEF target, Ahead, Recovering
  <2> QED
    BY <2>1, <2>2, <2>3
<1>2. ASSUME NEW p \in Left', p # x
      PROVE  kind'[p] = "batch" /\ (Sure(p, x)' \/ Harmless(p, x)')
  <2>1. p \in Pubs /\ backup'[p] = backup[p] /\ journal'[p] = journal[p] /\ p \in Left
    BY <1>2 DEF Left, BatchLeft, SingleLeft
  <2>2. kind[p] = "batch" /\ (Sure(p, x) \/ Harmless(p, x))
    BY <1>2, <2>1 DEF Settled
  <2>3. CASE Sure(p, x)
    <3>1. /\ p \in releases'
          /\ \/ backup[p].committed
             \/ /\ manifest'.by # 0
                /\ \/ backup[p].base.by # 0 /\ Never(backup[p].base.by, x)
                   \/ backup[p].base.by = 0 /\ ~backup[p].hadManifest
      BY <1>1, <1>2, <2>3 DEF Sure
    <3>2. ASSUME Never(backup[p].base.by, x)
          PROVE  Never(backup[p].base.by, x)'
      BY <2>1, <3>2 DEF Never
    <3>3. Sure(p, x)'
      BY <2>1, <3>1, <3>2 DEF Sure
    <3> QED
      BY <2>2, <3>3
  <2>4. CASE Harmless(p, x)
    BY <2>1, <2>2, <2>4 DEF Harmless, Nothing
  <2> QED
    BY <2>2, <2>3, <2>4
<1> QED
  BY <1>1, <1>2 DEF Settled

LEMMA OwnGood ==
    ASSUME Types, Types', NEW x \in Ids, Good(x), Own, Own', x = op.id,
           kind' = kind, used' = used, BaseOf(x)' = BaseOf(x),
           manifest' = manifest \/ (manifest' = BaseOf(x) /\ manifest'.by # 0),
           releases \subseteq releases',
           \A p \in Pubs : p # x => backup'[p] = backup[p] /\ journal'[p] = journal[p],
           op'.live = op.live, op'.base = op.base, op'.id = op.id, op'.seen = op.seen,
           OwnOpen(x)'
    PROVE  Good(x)'
<1>1. Settled(x)'
  BY SettledOwn DEF Good
<1>2. op'.rec = 0 /\ ~Recovering' /\ x # 0
  <2>1. op'.rec = 0 /\ ~Recovering'
    BY DEF Own, OwnSteps, Types, Placed, Recovering
  <2> QED
    BY <2>1, OwnFacts
<1>3. op'.seen = {}
  BY DEF Good, Open
<1>4. Open(x)'
  BY <1>2, <1>3 DEF Open
<1> QED
  BY <1>1, <1>4 DEF Good, Ids

\* The publication of a batch is open until its commit point.
LEMMA BatchOpen ==
    ASSUME Types, NEW x \in Ids, Good(x), NEW pc, InBatch(pc),
           pc \in {"stage", "state", "next", "stash", "place", "release", "replace", "undo"}
    PROVE  /\ x = op.id /\ x # 0 /\ x \in Pubs /\ Own /\ BatchKeeps(x) /\ BatchAt(x) /\ Settled(x)
           /\ op.seen = {} /\ kind[x] = "batch"
<1>1. Own
  BY DEF InBatch, Own, OwnSteps
<1>2. x # 0
  BY <1>1 DEF Good, Open, OwnDone, InBatch
<1> QED
  BY <1>1, <1>2 DEF Good, Open, OwnOpen, InBatch

LEMMA SingleOpen ==
    ASSUME Types, NEW x \in Ids, Good(x), NEW pc \in OwnSteps, InSingle(pc)
    PROVE  /\ x = op.id /\ x # 0 /\ x \in Pubs /\ Own /\ SingleKeeps(x) /\ SingleBase(x)
           /\ SingleFiles(x) /\ Settled(x) /\ op.seen = {} /\ kind[x] = "single"
<1>1. Own
  BY DEF InSingle, Own
<1>2. x # 0
  BY <1>1 DEF Good, Open, OwnDone, InSingle, OwnSteps
<1> QED
  BY <1>1, <1>2 DEF Good, Open, OwnOpen, InSingle

-------------------------------------------------------------------------------
(* The steps of a batch before its commit point *)

\* The backup of an open batch, field by field
LEMMA BatchParts ==
    ASSUME NEW x, BatchKeeps(x), BatchAt(x)
    PROVE  /\ ~op.live /\ Foreign(x, manifest) /\ Foreign(x, op.base) /\ ~backup[x].committed
           /\ Noted(x) /\ Restorable(x)
           /\ backup[x].dir \/ backup[x] = NoBackup
           /\ manifest.by = op.base.by => manifest = op.base
           /\ op.todo \cap op.noted = {}
           /\ op.failing <=> op.pc \in {"undo", "discard", "unrelease"}
BY DEF BatchKeeps, BatchAt

\* A step that leaves the files in place and those of the backup.
LEMMA SameBack ==
    ASSUME NEW x, Noted(x), Restorable(x), kind' = kind, manifest' = manifest,
           script' = script, resources' = resources, releases \subseteq releases',
           kind[x] = "batch", backup[x].script = 0, backup'[x].script = 0,
           backup'[x].res = backup[x].res
    PROVE  Restorable(x)' /\ BaseOf(x)' = BaseOf(x)
<1>1. BaseOf(x)' = BaseOf(x)
  BY DEF BaseOf
<1>2. \A e \in Exam : ScriptIn(x, e)' = ScriptIn(x, e) /\ ResIn(x, e)' = ResIn(x, e)
  BY DEF ScriptIn, ResIn
<1> QED
  BY <1>1, <1>2, RestorableKept

LEMMA BatchBaselineGood ==
    ASSUME Types, NEW x \in Ids, Good(x), BatchBaseline
    PROVE  Good(x)'
<1>1. /\ Types' /\ InBatch("stage") /\ Went("state") /\ Only(op.id)
      /\ backup'[op.id].dir = TRUE /\ backup'[op.id].base = manifest
      /\ backup'[op.id].res = backup[op.id].res
      /\ backup'[op.id].script = backup[op.id].script
      /\ backup'[op.id].state = backup[op.id].state
      /\ backup'[op.id].committed = backup[op.id].committed
      /\ UNCHANGED <<manifest, script, resources, releases, journal, kind, used, misled>>
  BY BatchBaselineTypes
<1>2. /\ x = op.id /\ x # 0 /\ x \in Pubs /\ Own /\ BatchKeeps(x) /\ BatchAt(x)
      /\ op.seen = {} /\ kind[x] = "batch"
  BY <1>1, BatchOpen
<1>3. op.pc = "stage" /\ op'.pc = "state" /\ Stays /\ Alike(op', op) /\ backup[x].script = 0
  BY <1>1, <1>2 DEF InBatch, Went, Stays
<1>4. /\ backup[x] = NoBackup /\ op.noted = {} /\ backup[x].res = Nothing /\ ~backup[x].state
  BY <1>2, <1>3 DEF BatchAt
<1>5. Restorable(x)' /\ BaseOf(x)' = BaseOf(x)
  BY <1>1, <1>2, <1>3, BatchParts, SameBack
<1>6. BatchKeeps(x)'
  BY <1>1, <1>2, <1>3, <1>4, <1>5 DEF BatchKeeps, Foreign, Noted, Stays, Alike
<1>7. BatchAt(x)'
  BY <1>1, <1>2, <1>3, <1>4 DEF BatchAt, BatchKeeps, Stays, Alike
<1>8. Own' /\ OwnOpen(x)'
  BY <1>1, <1>2, <1>3, <1>6, <1>7 DEF Own, OwnSteps, OwnOpen, Alike
<1> QED
  BY <1>1, <1>2, <1>3, <1>5, <1>8, OwnGood DEF Stays, Alike, Only

LEMMA BatchStateGood ==
    ASSUME Types, NEW x \in Ids, Good(x), BatchState
    PROVE  Good(x)'
<1>1. /\ Types' /\ InBatch("state") /\ WritesState({}, FALSE)
      /\ op'.pc = "next" /\ op'.id = op.id /\ op'.exams = op.exams
      /\ op'.base = op.base /\ op'.rec = op.rec /\ op'.seen = op.seen
      /\ op'.had = op.had /\ op'.noted = op.noted /\ op'.todo = op.exams
      /\ op'.cur = op.cur /\ op'.live = op.live /\ op'.failing = op.failing
      /\ UNCHANGED <<manifest, script, resources, releases, journal, kind, used, misled>>
  BY BatchStateTypes
<1>2. /\ x = op.id /\ x # 0 /\ x \in Pubs /\ Own /\ BatchKeeps(x) /\ BatchAt(x)
      /\ op.seen = {} /\ kind[x] = "batch"
  BY <1>1, BatchOpen
<1>3. op.pc = "state" /\ backup[x].script = 0
  BY <1>1, <1>2 DEF InBatch
<1>4. /\ Only(x) /\ backup'[x].state = TRUE /\ backup'[x].exams = {}
      /\ backup'[x].committed = FALSE /\ (backup'[x].hadManifest <=> manifest.by # 0)
      /\ backup'[x].dir = backup[x].dir /\ backup'[x].base = backup[x].base
      /\ backup'[x].res = backup[x].res /\ backup'[x].script = backup[x].script
  BY <1>1, <1>2 DEF WritesState
<1>5. op.noted = {} /\ backup[x].res = Nothing /\ backup[x].dir
  BY <1>2, <1>3 DEF BatchAt
<1>6. Restorable(x)' /\ BaseOf(x)' = BaseOf(x)
  BY <1>1, <1>2, <1>3, <1>4, BatchParts, SameBack
<1>7. Noted(x)'
  BY <1>4, <1>5 DEF Noted, Nothing
<1>8. BatchKeeps(x)'
  BY <1>1, <1>2, <1>4, <1>5, <1>6, <1>7 DEF BatchKeeps, Foreign
<1>9. BatchAt(x)'
  BY <1>1, <1>2, <1>3, <1>4, <1>5 DEF BatchAt, BatchKeeps
<1>10. Own' /\ OwnOpen(x)'
  BY <1>1, <1>2, <1>3, <1>8, <1>9 DEF Own, OwnSteps, OwnOpen
<1> QED
  BY <1>1, <1>2, <1>3, <1>4, <1>6, <1>10, OwnGood DEF Only

LEMMA BatchNoteGood ==
    ASSUME Types, NEW x \in Ids, Good(x), BatchNote
    PROVE  Good(x)'
<1>1. /\ Types' /\ InBatch("next")
      /\ op'.id = op.id /\ op'.exams = op.exams /\ op'.base = op.base /\ op'.rec = op.rec
      /\ op'.seen = op.seen /\ op'.live = op.live /\ op'.failing = op.failing
      /\ UNCHANGED <<manifest, script, resources, releases, journal, kind, used, misled>>
  BY BatchNoteTypes
<1>2. PICK e \in op.todo :
         /\ WritesState(op.noted \cup {e}, FALSE)
         /\ op'.noted = op.noted \cup {e} /\ op'.todo = op.todo \ {e} /\ op'.cur = {e}
         /\ op'.had = (IF resources[e] # 0 THEN op.had \cup {e} ELSE op.had)
         /\ op'.pc = (IF resources[e] # 0 THEN "stash" ELSE "place")
  BY BatchNoteTypes
<1>3. /\ x = op.id /\ x # 0 /\ x \in Pubs /\ Own /\ BatchKeeps(x) /\ BatchAt(x)
      /\ op.seen = {} /\ kind[x] = "batch"
  BY <1>1, BatchOpen
<1>4. /\ op.pc = "next" /\ backup[x].script = 0 /\ e \in Exam
  BY <1>1, <1>2, <1>3 DEF InBatch, Ops
<1>5. /\ Only(x) /\ backup'[x].state = TRUE /\ backup'[x].exams = op.noted \cup {e}
      /\ backup'[x].committed = FALSE /\ (backup'[x].hadManifest <=> manifest.by # 0)
      /\ backup'[x].dir = backup[x].dir /\ backup'[x].base = backup[x].base
      /\ backup'[x].res = backup[x].res /\ backup'[x].script = backup[x].script
  BY <1>2, <1>3 DEF WritesState
<1>6. /\ backup[x].dir /\ backup[x].state /\ backup[x].exams = op.noted
      /\ op.todo \cup op.noted = op.exams
      /\ \A d \in op.noted : resources[d] = x
      /\ ~op.failing
  BY <1>3, <1>4 DEF BatchAt
<1>7. Restorable(x)' /\ BaseOf(x)' = BaseOf(x)
  BY <1>1, <1>3, <1>4, <1>5, BatchParts, SameBack
<1>8. e \notin op.noted /\ Noted(x) /\ op.todo \cap op.noted = {}
  BY <1>2, <1>3, BatchParts
<1>9. Noted(x)' /\ backup[x].res[e] = 0
  BY <1>4, <1>5, <1>6, <1>8 DEF Noted
<1>10. /\ \A d \in op'.noted \ op'.had : resources'[d] \in {0, x}
       /\ op'.todo \cap op'.noted = {}
       /\ \A d \in Exam : backup'[x].res[d] # 0 => d \in op'.had
  <2>1. /\ \A d \in op.noted \ op.had : resources[d] \in {0, x}
        /\ \A d \in Exam : backup[x].res[d] # 0 => d \in op.had
    BY <1>3 DEF BatchKeeps
  <2> QED
    BY <1>1, <1>2, <1>5, <1>8, <2>1
<1>11. BatchKeeps(x)'
  BY <1>1, <1>2, <1>3, <1>5, <1>6, <1>7, <1>9, <1>10 DEF BatchKeeps, Foreign
<1>12. BatchAt(x)'
  <2>1. op'.pc \in {"stash", "place"} /\ (op'.pc = "stash" => resources[e] # 0)
        /\ (op'.pc = "place" => resources[e] = 0)
    BY <1>2
  <2>2. backup[x].dir /\ manifest.by = op.base.by => backup[x].base = op.base
    BY <1>3, <1>4 DEF BatchAt
  <2>3. op'.todo \cup op'.noted = op'.exams
    BY <1>1, <1>2, <1>6
  <2>4. op'.pc = "stash" => e \in op'.had
    BY <1>2
  <2>5. \E d \in op'.noted : op'.cur = {d}
    BY <1>2
  <2>6. \A d \in op'.noted : resources'[d] = x \/ d \in op'.cur
    BY <1>1, <1>2, <1>6
  <2> QED
    BY <1>1, <1>2, <1>5, <1>6, <1>9, <2>1, <2>2, <2>3, <2>4, <2>5, <2>6 DEF BatchAt
<1>13. Own' /\ OwnOpen(x)'
  BY <1>1, <1>2, <1>3, <1>11, <1>12 DEF Own, OwnSteps, OwnOpen
<1> QED
  BY <1>1, <1>3, <1>4, <1>5, <1>7, <1>13, OwnGood DEF Only

\* A step that moves files leaves what the backup and they hold together.
LEMMA FilesKept ==
    ASSUME NEW x, x # 0, Restorable(x), kind' = kind, manifest' = manifest,
           releases \subseteq releases', backup'[x].base = backup[x].base,
           \A e \in Exam : ScriptIn(x, e)' = ScriptIn(x, e) \/ ScriptIn(x, e) = 0,
           \A e \in Exam : ResIn(x, e)' = ResIn(x, e) \/ ResIn(x, e) = 0
    PROVE  Restorable(x)' /\ BaseOf(x)' = BaseOf(x)
<1>1. BaseOf(x)' = BaseOf(x)
  BY DEF BaseOf
<1> QED
  BY <1>1, RestorableKept

\* What an open batch has stashed: the resources of the exam are in the backup.
LEMMA BatchStashGood ==
    ASSUME Types, NEW x \in Ids, Good(x), Stash, kind[op.id] = "batch"
    PROVE  Good(x)'
<1>1. /\ Types' /\ op.pc = "stash" /\ op.rec = 0 /\ Went("place") /\ Only(op.id)
      /\ backup'[op.id].dir = backup[op.id].dir
      /\ backup'[op.id].base = backup[op.id].base
      /\ backup'[op.id].script = backup[op.id].script
      /\ backup'[op.id].state = backup[op.id].state
      /\ backup'[op.id].committed = backup[op.id].committed
      /\ backup'[op.id].hadManifest = backup[op.id].hadManifest
      /\ backup'[op.id].exams = backup[op.id].exams
      /\ UNCHANGED <<manifest, script, releases, journal, kind, used, misled>>
  BY StashTypes
<1>2. InBatch("stash")
  BY <1>1, BatchIs DEF Batch, At, OwnSteps
<1>3. /\ x = op.id /\ x # 0 /\ x \in Pubs /\ Own /\ BatchKeeps(x) /\ BatchAt(x)
      /\ op.seen = {} /\ kind[x] = "batch" /\ backup[x].script = 0
  BY <1>2, BatchOpen DEF InBatch
<1>4. PICK e \in op.cur :
         /\ e \in Exam /\ backup'[x].res[e] = resources[e] /\ resources'[e] = 0
         /\ \A d \in Exam : d # e => /\ backup'[x].res[d] = backup[x].res[d]
                                     /\ resources'[d] = resources[d]
  BY <1>3, StashTypes
<1>5. op'.pc = "place" /\ Stays /\ Alike(op', op)
  BY <1>1 DEF Went, Stays
<1>6. /\ backup[x].dir /\ backup[x].state /\ backup[x].exams = op.noted /\ ~op.failing
      /\ op.todo \cup op.noted = op.exams /\ op.cur = {e} /\ e \in op.noted
      /\ \A d \in op.noted : resources[d] = x \/ d \in op.cur
      /\ backup[x].res[e] = 0 /\ resources[e] # 0 /\ e \in op.had
  BY <1>1, <1>3, <1>4 DEF BatchAt
<1>7. \A d \in Exam : ScriptIn(x, d)' = ScriptIn(x, d)
  BY <1>1, <1>3 DEF ScriptIn
<1>8. \A d \in Exam : ResIn(x, d)' = ResIn(x, d)
  <2> SUFFICES ASSUME NEW d \in Exam
               PROVE  ResIn(x, d)' = ResIn(x, d)
    OBVIOUS
  <2>1. CASE d = e
    BY <1>3, <1>4, <1>6, <2>1 DEF ResIn
  <2>2. CASE d # e
    BY <1>3, <1>4, <2>2 DEF ResIn
  <2> QED
    BY <2>1, <2>2
<1>9. Restorable(x)' /\ BaseOf(x)' = BaseOf(x)
  BY <1>1, <1>3, <1>7, <1>8, BatchParts, FilesKept
<1>10. /\ Noted(x) /\ Foreign(x, manifest) /\ Foreign(x, op.base)
       /\ \A d \in op.noted \ op.had : resources[d] \in {0, x}
       /\ \A d \in Exam : backup[x].res[d] # 0 => d \in op.had
       /\ op.noted \subseteq Exam
  BY <1>2, <1>3 DEF BatchKeeps, InBatch, Ops
<1>11. Noted(x)'
  BY <1>1, <1>3, <1>4, <1>6, <1>10, ZenonT(60) DEF Noted
<1>12. /\ \A d \in op'.noted \ op'.had : resources'[d] \in {0, x}
       /\ \A d \in Exam : backup'[x].res[d] # 0 => d \in op'.had
  BY <1>4, <1>5, <1>6, <1>10 DEF Alike
<1>13. BatchKeeps(x)'
  BY <1>1, <1>3, <1>5, <1>6, <1>9, <1>10, <1>11, <1>12, ZenonT(60) DEF BatchKeeps, Foreign, Stays, Alike
<1>14. BatchAt(x)'
  <2>1. backup[x].dir /\ manifest.by = op.base.by => backup[x].base = op.base
    BY <1>1, <1>3 DEF BatchAt
  <2>2. \A d \in op'.noted : resources'[d] = x \/ d \in op'.cur
    BY <1>4, <1>5, <1>6, <1>10 DEF Stays, Alike
  <2>3. \A d \in op'.cur : resources'[d] = 0
    BY <1>4, <1>5, <1>6 DEF Stays
  <2>4. \E d \in op'.noted : op'.cur = {d}
    BY <1>5, <1>6 DEF Stays, Alike
  <2> QED
    BY <1>1, <1>3, <1>5, <1>6, <2>1, <2>2, <2>3, <2>4, ZenonT(60) DEF BatchAt, Stays, Alike
<1>15. Own' /\ OwnOpen(x)'
  BY <1>1, <1>3, <1>5, <1>13, <1>14 DEF Own, OwnSteps, OwnOpen, Stays, Alike
<1> QED
  BY <1>1, <1>3, <1>5, <1>9, <1>15, OwnGood DEF Only, Stays, Alike

\* New resources fit where there were none.
LEMMA BatchPlaceGood ==
    ASSUME Types, NEW x \in Ids, Good(x), Place, kind[op.id] = "batch"
    PROVE  Good(x)'
<1>1. /\ Types' /\ op.pc = "place" /\ op.rec = 0 /\ Went("next")
      /\ UNCHANGED <<manifest, script, releases, backup, journal, kind, used, misled>>
  BY PlaceTypes
<1>2. InBatch("place")
  BY <1>1, BatchIs DEF Batch, At, OwnSteps
<1>3. /\ x = op.id /\ x # 0 /\ x \in Pubs /\ Own /\ BatchKeeps(x) /\ BatchAt(x)
      /\ op.seen = {} /\ kind[x] = "batch" /\ backup[x].script = 0
  BY <1>2, BatchOpen DEF InBatch
<1>4. PICK e \in op.cur :
         /\ e \in Exam /\ resources'[e] = x
         /\ \A d \in Exam : d # e => resources'[d] = resources[d]
  BY <1>3, PlaceTypes
<1>5. op'.pc = "next" /\ Stays /\ Alike(op', op)
  BY <1>1 DEF Went, Stays
<1>6. /\ backup[x].dir /\ backup[x].state /\ backup[x].exams = op.noted /\ ~op.failing
      /\ op.todo \cup op.noted = op.exams /\ op.cur = {e} /\ e \in op.noted
      /\ \A d \in op.noted : resources[d] = x \/ d \in op.cur
      /\ resources[e] = 0
  BY <1>1, <1>3, <1>4 DEF BatchAt
<1>7. /\ Noted(x) /\ Foreign(x, manifest) /\ Foreign(x, op.base) /\ Restorable(x)
      /\ \A d \in op.noted \ op.had : resources[d] \in {0, x}
      /\ \A d \in Exam : backup[x].res[d] # 0 => d \in op.had
      /\ op.noted \subseteq Exam
  BY <1>2, <1>3 DEF BatchKeeps, InBatch, Ops
<1>8. \A d \in Exam : ScriptIn(x, d)' = ScriptIn(x, d)
  BY <1>1 DEF ScriptIn
<1>9. \A d \in Exam : ResIn(x, d)' = ResIn(x, d) \/ ResIn(x, d) = 0
  BY <1>1, <1>3, <1>4, <1>6 DEF ResIn
<1>10. Restorable(x)' /\ BaseOf(x)' = BaseOf(x)
  BY <1>1, <1>3, <1>7, <1>8, <1>9, FilesKept
<1>11. \A d \in op'.noted \ op'.had : resources'[d] \in {0, x}
  BY <1>4, <1>5, <1>6, <1>7 DEF Alike
<1>12. BatchKeeps(x)'
  BY <1>1, <1>3, <1>5, <1>6, <1>7, <1>10, <1>11 DEF BatchKeeps, Foreign, Noted, Stays, Alike
<1>13. BatchAt(x)'
  <2>1. backup[x].dir /\ manifest.by = op.base.by => backup[x].base = op.base
    BY <1>1, <1>3 DEF BatchAt
  <2>2. \A d \in op'.noted : resources'[d] = x
    BY <1>4, <1>5, <1>6, <1>7 DEF Stays, Alike
  <2> QED
    BY <1>1, <1>3, <1>5, <1>6, <2>1, <2>2 DEF BatchAt, Stays, Alike
<1>14. Own' /\ OwnOpen(x)'
  BY <1>1, <1>3, <1>5, <1>12, <1>13 DEF Own, OwnSteps, OwnOpen, Stays, Alike
<1> QED
  BY <1>1, <1>3, <1>5, <1>10, <1>14, OwnGood DEF Only, Stays, Alike


\* An open batch goes on and leaves every file and its backup.
LEMMA BatchGoesOn ==
    ASSUME Types, Types', NEW x \in Ids, Good(x), NEW pc, InBatch(pc),
           pc \in {"stage", "state", "next", "stash", "place", "release", "replace", "undo"},
           UNCHANGED <<manifest, script, resources, backup, journal, kind, used>>,
           releases \subseteq releases', Alike(op', op), op'.rec = op.rec, op'.seen = op.seen,
           op'.live = op.live, BatchAt(x)'
    PROVE  Good(x)'
<1>1. /\ x = op.id /\ x # 0 /\ x \in Pubs /\ Own /\ BatchKeeps(x) /\ BatchAt(x)
      /\ kind[x] = "batch" /\ backup[x].script = 0 /\ op.rec = 0
  BY BatchOpen DEF InBatch
<1>2. Restorable(x)' /\ BaseOf(x)' = BaseOf(x)
  BY <1>1, BatchParts, SameBack
<1>3. BatchKeeps(x)'
  BY <1>1, <1>2 DEF BatchKeeps, Foreign, Noted, Alike
<1>4. Own' /\ OwnOpen(x)'
  BY <1>1, <1>3 DEF BatchAt, Own, OwnSteps, OwnOpen, Alike
<1> QED
  BY <1>1, <1>2, <1>4, OwnGood DEF Alike

LEMMA BatchVerifyGood ==
    ASSUME Types, NEW x \in Ids, Good(x), BatchVerify
    PROVE  Good(x)'
<1>1. /\ Types' /\ InBatch("next") /\ Went("release") /\ op.todo = {}
      /\ manifest.by = op.base.by /\ UNCHANGED <<disk, kind, used, misled>>
  BY BatchVerifyTypes
<1>2. x = op.id /\ BatchAt(x) /\ op.pc = "next" /\ op'.pc = "release" /\ Stays /\ Alike(op', op)
  BY <1>1, BatchOpen DEF InBatch, Went, Stays
<1>3. BatchAt(x)'
  BY <1>1, <1>2 DEF BatchAt, disk, Stays, Alike
<1> QED
  BY <1>1, <1>2, <1>3, BatchGoesOn DEF disk, Stays

LEMMA BatchReleaseGood ==
    ASSUME Types, NEW x \in Ids, Good(x), BatchRelease
    PROVE  Good(x)'
<1>1. /\ Types' /\ InBatch("release") /\ Went("replace") /\ releases' = releases \cup {op.id}
      /\ UNCHANGED <<manifest, script, resources, backup, journal, kind, used, misled>>
  BY BatchReleaseTypes
<1>2. x = op.id /\ BatchAt(x) /\ op.pc = "release" /\ op'.pc = "replace" /\ Stays /\ Alike(op', op)
  BY <1>1, BatchOpen DEF InBatch, Went, Stays
<1>3. BatchAt(x)'
  BY <1>1, <1>2 DEF BatchAt, Stays, Alike
<1> QED
  BY <1>1, <1>2, <1>3, BatchGoesOn DEF Stays

\* A conflict, or a file-system operation that fails: the rollback starts.
LEMMA BatchGivesUpGood ==
    ASSUME Types, Types', NEW x \in Ids, Good(x),
           NEW pc \in {"stage", "state", "next", "stash", "place", "release", "replace"},
           BatchGivesUp(pc)
    PROVE  Good(x)'
<1>1. /\ InBatch(pc) /\ op'.pc = "undo" /\ Alike(op', op) /\ op'.cur = op.cur
      /\ op'.rec = op.rec /\ op'.seen = op.seen /\ op'.live = op.live /\ op'.failing = TRUE
      /\ UNCHANGED <<disk, kind, used>>
  BY DEF BatchGivesUp
<1>2. x = op.id /\ BatchAt(x) /\ op.pc = pc
  BY <1>1, BatchOpen DEF InBatch
<1>3. BatchAt(x)'
  BY <1>1, <1>2 DEF BatchAt, disk, Alike
<1> QED
  BY <1>1, <1>2, <1>3, BatchGoesOn DEF disk

\* The rollback: a file comes back from the backup, resources that were new
\* are removed, or everything is done.
LEMMA BatchUndoGood ==
    ASSUME Types, NEW x \in Ids, Good(x), BatchUndo
    PROVE  Good(x)'
<1>1. /\ Types' /\ InBatch("undo")
      /\ UNCHANGED <<manifest, releases, journal, kind, used, misled>>
  BY BatchUndoTypes
<1>2. /\ x = op.id /\ x # 0 /\ x \in Pubs /\ Own /\ BatchKeeps(x) /\ BatchAt(x)
      /\ kind[x] = "batch" /\ backup[x].script = 0 /\ op.rec = 0 /\ op.pc = "undo"
  BY <1>1, BatchOpen DEF InBatch
<1>3. /\ backup[x].res \in [Exam -> Ids] /\ resources \in [Exam -> Ids] /\ script \in [Exam -> Ids]
      /\ resources' \in [Exam -> Ids] /\ op.noted \subseteq Exam
  BY <1>1, <1>2, RecordFacts DEF Types, DiskTypes, InBatch, Ops, Ids
<1>4. CASE PutsBack(op.id) /\ op' = op
  <2>1. /\ Only(x) /\ backup'[x].dir = backup[x].dir /\ backup'[x].base = backup[x].base
        /\ backup'[x].state = backup[x].state /\ backup'[x].committed = backup[x].committed
        /\ backup'[x].hadManifest = backup[x].hadManifest /\ backup'[x].exams = backup[x].exams
        /\ script' = script /\ backup'[x].script = 0
    BY <1>2, <1>4 DEF PutsBack
  <2>2. PICK e \in backup[x].exams :
          /\ backup[x].res[e] # 0
          /\ \A d \in Exam : d # e => /\ backup'[x].res[d] = backup[x].res[d]
                                      /\ resources'[d] = resources[d]
          /\ \/ backup'[x].res[e] = backup[x].res[e] /\ resources'[e] = 0
             \/ backup'[x].res[e] = 0 /\ resources'[e] = backup[x].res[e]
    BY <1>2, <1>4 DEF PutsBack
  <2>3. e \in Exam /\ e \in op.had
    BY <1>1, <1>2, <2>2 DEF BatchKeeps, InBatch, Backups
  <2>4. \A d \in Exam : ScriptIn(x, d)' = ScriptIn(x, d) /\ ResIn(x, d)' = ResIn(x, d)
    <3> SUFFICES ASSUME NEW d \in Exam
                 PROVE  ScriptIn(x, d)' = ScriptIn(x, d) /\ ResIn(x, d)' = ResIn(x, d)
      OBVIOUS
    <3>1. ScriptIn(x, d)' = ScriptIn(x, d)
      BY <1>2, <2>1 DEF ScriptIn
    <3>2. CASE d = e
      BY <1>2, <2>2, <3>1, <3>2 DEF ResIn
    <3>3. CASE d # e
      BY <1>2, <2>2, <3>1, <3>3 DEF ResIn
    <3> QED
      BY <3>2, <3>3
  <2>5. Restorable(x)' /\ BaseOf(x)' = BaseOf(x)
    BY <1>1, <1>2, <2>1, <2>4, BatchParts, FilesKept
  <2>6. /\ \A d \in Exam : backup'[x].res[d] # 0 => backup[x].res[d] # 0
        /\ \A d \in op.noted \ op.had : resources'[d] = resources[d]
    BY <1>3, <2>2, <2>3
  <2>7. Noted(x)'
    BY <1>2, <2>1, <2>6 DEF BatchKeeps, Noted
  <2>8. backup[x].dir
    BY <1>2, <2>2, <2>3, BatchParts DEF NoBackup, Nothing
  <2>9. BatchKeeps(x)'
    BY <1>1, <1>2, <1>4, <2>1, <2>5, <2>6, <2>7, <2>8 DEF BatchKeeps, Foreign
  <2>10. BatchAt(x)'
    BY <1>1, <1>2, <1>4, <2>1 DEF BatchAt
  <2>11. Own' /\ OwnOpen(x)'
    BY <1>1, <1>2, <1>4, <2>9, <2>10 DEF Own, OwnSteps, OwnOpen
  <2> QED
    BY <1>1, <1>2, <1>4, <2>1, <2>5, <2>11, OwnGood DEF Only
<1>5. ASSUME op' = op, UNCHANGED <<script, backup>>, NEW e \in op.noted \ op.had,
             e \in Exam, resources[e] # 0, resources'[e] = 0,
             \A d \in Exam : d # e => resources'[d] = resources[d]
      PROVE  Good(x)'
  <2>1. /\ BaseOf(x) = manifest /\ BaseOf(x)' = manifest
        /\ \A d \in Exam : ScriptIn(x, d) = script[d] /\ ScriptIn(x, d)' = script[d]
    BY <1>1, <1>2, <1>5 DEF BaseOf, ScriptIn
  <2>2. backup[x].res[e] = 0 /\ resources[e] = x /\ manifest.entry[e] # x
    BY <1>2, <1>5 DEF BatchKeeps, Foreign
  <2>3. ResIn(x, e) = x /\ ResIn(x, e)' = 0
    BY <1>2, <1>5, <2>2 DEF ResIn
  <2>4. \A d \in Exam : d # e => ResIn(x, d)' = ResIn(x, d)
    BY <1>5 DEF ResIn
  <2>5. Restorable(x)'
    <3>1. \A d \in Exam : Fits(manifest.entry[d], script[d], ResIn(x, d))
      BY <1>2, <2>1 DEF BatchKeeps, Restorable
    <3>2. \A d \in Exam : d # e => Fits(BaseOf(x).entry[d], ScriptIn(x, d), ResIn(x, d))'
      BY <1>1, <2>1, <2>4, <3>1 DEF Fits
    <3>3. Fits(BaseOf(x).entry[e], ScriptIn(x, e), ResIn(x, e))'
      BY <1>1, <1>5, <2>1, <2>2, <2>3, <3>1 DEF Fits
    <3> QED
      BY <3>2, <3>3 DEF Restorable
  <2>6. BatchKeeps(x)'
    BY <1>1, <1>2, <1>3, <1>5, <2>5 DEF BatchKeeps, Foreign, Noted
  <2>7. BatchAt(x)'
    BY <1>1, <1>2, <1>5 DEF BatchAt
  <2>8. Own' /\ OwnOpen(x)'
    BY <1>1, <1>2, <1>5, <2>6, <2>7 DEF Own, OwnSteps, OwnOpen
  <2> QED
    BY <1>1, <1>2, <1>5, <2>1, <2>8, OwnGood
<1>6. CASE /\ UNCHANGED <<script, resources, backup>>
           /\ \A e \in backup[op.id].exams : backup[op.id].res[e] = 0
           /\ Stays /\ op'.pc = (IF backup[op.id].dir THEN "discard" ELSE "unrelease")
  <2>1. backup[x].res = Nothing
    <3>1. \A e \in Exam : backup[x].res[e] = 0
      BY <1>2, <1>6 DEF BatchKeeps, Noted
    <3> QED
      BY <1>3, <3>1 DEF Nothing
  <2>2. op'.pc \in {"discard", "unrelease"} /\ (op'.pc = "discard" => backup[x].dir)
    BY <1>2, <1>6
  <2>3. BatchAt(x)'
    BY <1>1, <1>2, <1>6, <2>1, <2>2 DEF BatchAt, Stays, Alike
  <2> QED
    BY <1>1, <1>2, <1>6, <2>3, BatchGoesOn DEF Stays
<1> QED
  BY <1>4, <1>5, <1>6, BatchUndoTypes

\* The rollback cannot finish; the next recovery will, unless a legacy export
\* has replaced the manifest.
LEMMA BatchUndoFailsGood ==
    ASSUME Types, NEW x \in Ids, Good(x), ~misled', BatchUndoFails
    PROVE  Good(x)'
<1>1. /\ Types' /\ InBatch("undo") /\ Went("unrelease") /\ UNCHANGED <<disk, kind, used>>
      /\ manifest.by \in {op.base.by, op.id}
  BY BatchUndoFailsTypes
<1>2. x = op.id /\ BatchKeeps(x) /\ BatchAt(x) /\ op.pc = "undo" /\ op'.pc = "unrelease"
      /\ Stays /\ Alike(op', op)
  BY <1>1, BatchOpen DEF InBatch, Went, Stays
<1>3. manifest.by = op.base.by
  BY <1>1, <1>2, BatchParts DEF Foreign
<1>4. BatchAt(x)'
  BY <1>1, <1>2, <1>3 DEF BatchAt, disk, Stays, Alike
<1> QED
  BY <1>1, <1>2, <1>4, BatchGoesOn DEF disk, Stays

-------------------------------------------------------------------------------
(* The commit point *)

\* The files of the exams that a publication does not touch are in place.
LEMMA Untouched ==
    ASSUME NEW x, x # 0, Noted(x), Restorable(x), NEW e \in Exam, e \notin backup[x].exams
    PROVE  Fits(BaseOf(x).entry[e], script[e], resources[e])
BY DEF Noted, Restorable, ScriptIn, ResIn

\* The other batches stay settled when the manifest built on x's baseline
\* becomes the live one; y is what is open then.
LEMMA SettledReplace ==
    ASSUME Types, Types', NEW x \in Ids, Settled(x), x # 0, Own, x = op.id, Replace, ~op.live,
           manifest = op.base, NEW y, BaseOf(y)' = op.base \/ BaseOf(y)' = manifest',
           NEW p \in Left, p # x
    PROVE  kind'[p] = "batch" /\ (Sure(p, y)' \/ Harmless(p, y)')
<1>1. /\ op.pc = "replace" /\ op.rec = 0 /\ manifest'.by = x
      /\ \A e \in Exam : manifest'.entry[e] = IF e \in op.exams THEN x ELSE op.base.entry[e]
      /\ op'.pc = "flag" /\ op'.live = TRUE
      /\ UNCHANGED <<releases, backup, kind>>
  BY ReplaceTypes
<1>2. /\ p \in Pubs /\ kind[p] = "batch" /\ (Sure(p, x) \/ Harmless(p, x))
      /\ \A q : ~Ahead(q)
  BY LeftFacts, OwnFacts DEF Settled
<1>3. CASE Sure(p, x)
  <2>1. /\ p \in releases
        /\ \/ backup[p].committed
           \/ /\ manifest.by # 0
              /\ \/ backup[p].base.by # 0 /\ Never(backup[p].base.by, x)
                 \/ backup[p].base.by = 0 /\ ~backup[p].hadManifest
    BY <1>1, <1>2, <1>3 DEF Sure, At
  <2>2. ASSUME Never(backup[p].base.by, x)
        PROVE  Never(backup[p].base.by, y)'
    BY <1>1, <2>2 DEF Never
  <2>3. Sure(p, y)'
    BY <1>1, <2>1, <2>2 DEF Sure
  <2> QED
    BY <1>1, <1>2, <2>3
<1>4. CASE Harmless(p, x)
  <2>1. backup'[p].res = Nothing /\ \A e \in Exam : manifest'.entry[e] # p /\ op.base.entry[e] # p
    BY <1>1, <1>4 DEF Harmless, Nothing
  <2>2. Harmless(p, y)'
    BY <1>1, <2>1 DEF Harmless, Nothing
  <2> QED
    BY <1>1, <1>2, <2>2
<1> QED
  BY <1>2, <1>3, <1>4

\* A batch commits.
LEMMA BatchReplaceGood ==
    ASSUME Types, NEW x \in Ids, Good(x), Replace, kind[op.id] = "batch"
    PROVE  Good(0)'
<1>1. /\ Types' /\ op.pc = "replace" /\ op.rec = 0 /\ manifest'.by = op.id
      /\ \A e \in Exam : manifest'.entry[e] = IF e \in op.exams THEN op.id ELSE op.base.entry[e]
      /\ op'.pc = "flag" /\ Alike(op', op) /\ op'.cur = op.cur /\ op'.rec = op.rec
      /\ op'.seen = op.seen /\ op'.live = TRUE /\ op'.failing = op.failing
      /\ UNCHANGED <<script, resources, releases, backup, journal, kind, used, misled>>
  BY ReplaceTypes
<1>2. InBatch("replace")
  BY <1>1, BatchIs DEF Batch, At, OwnSteps
<1>3. /\ x = op.id /\ x # 0 /\ x \in Pubs /\ Own /\ BatchKeeps(x) /\ BatchAt(x) /\ Settled(x)
      /\ op.seen = {} /\ kind[x] = "batch" /\ backup[x].script = 0 /\ ~op.live
  BY <1>2, BatchOpen, BatchParts DEF InBatch
<1>4. /\ backup[x].state /\ backup[x].exams = op.noted /\ op.noted = op.exams /\ ~op.failing
      /\ \A e \in op.noted : resources[e] = x
      /\ manifest.by = op.base.by /\ x \in releases /\ backup[x].dir
  BY <1>1, <1>3 DEF BatchAt
<1>5. manifest = op.base /\ Foreign(x, op.base) /\ Noted(x) /\ Restorable(x) /\ BaseOf(x) = manifest
  BY <1>3, <1>4, BatchParts DEF BaseOf
<1>6. /\ backup[x].base = op.base
      /\ backup[x].hadManifest <=> op.base.by # 0
  BY <1>1, <1>3, <1>4 DEF BatchAt, BatchKeeps
<1>7. BaseOf(0)' = manifest'
  BY DEF BaseOf
<1>8. Sure(x, 0)'
  BY <1>1, <1>3, <1>4, <1>5, <1>6, <1>7 DEF Sure, Never, Foreign
<1>9. \A p \in Left : p # x => kind'[p] = "batch" /\ (Sure(p, 0)' \/ Harmless(p, 0)')
  BY <1>1, <1>3, <1>5, <1>7, SettledReplace
<1>10. Left' = Left
  BY <1>1 DEF Left, BatchLeft, SingleLeft
<1>11. Settled(0)'
  BY <1>1, <1>3, <1>8, <1>9, <1>10 DEF Settled
<1>12. InPlace'
  <2> SUFFICES ASSUME NEW e \in Exam
               PROVE  Fits(manifest.entry[e], script[e], resources[e])'
    BY DEF InPlace
  <2>1. CASE e \in op.exams
    BY <1>1, <1>3, <1>4, <2>1 DEF Fits
  <2>2. CASE e \notin op.exams
    <3>1. Fits(manifest.entry[e], script[e], resources[e])
      BY <1>3, <1>4, <1>5, <2>2, Untouched
    <3> QED
      BY <1>1, <1>5, <2>2, <3>1 DEF Fits
  <2> QED
    BY <2>1, <2>2
<1>13. OwnDone' /\ Own'
  BY <1>1, <1>3, <1>4, <1>12 DEF OwnDone, Own, OwnSteps, Alike
<1>14. Open(0)'
  BY <1>1, <1>3, <1>13 DEF Open, Recovering
<1> QED
  BY <1>1, <1>11, <1>14, BoundFacts DEF Good, Types, Ids

\* A single publication commits; it can still be taken back.
LEMMA SingleReplaceGood ==
    ASSUME Types, NEW x \in Ids, Good(x), Replace, kind[op.id] = "single"
    PROVE  Good(x)'
<1>1. /\ Types' /\ op.pc = "replace" /\ op.rec = 0 /\ manifest'.by = op.id
      /\ \A e \in Exam : manifest'.entry[e] = IF e \in op.exams THEN op.id ELSE op.base.entry[e]
      /\ op'.pc = "flag" /\ Alike(op', op) /\ op'.cur = op.cur /\ op'.rec = op.rec
      /\ op'.seen = op.seen /\ op'.live = TRUE /\ op'.failing = op.failing
      /\ UNCHANGED <<script, resources, releases, backup, journal, kind, used, misled>>
  BY ReplaceTypes
<1>2. InSingle("replace")
  BY <1>1, SingleIs DEF Single, At, OwnSteps
<1>3. /\ x = op.id /\ x # 0 /\ x \in Pubs /\ Own /\ SingleKeeps(x) /\ SingleBase(x)
      /\ SingleFiles(x) /\ Settled(x) /\ op.seen = {} /\ kind[x] = "single"
  BY <1>2, SingleOpen DEF OwnSteps
<1>4. /\ ~op.live /\ manifest = op.base /\ backup[x].base = op.base
  BY <1>1, <1>3 DEF SingleBase
<1>5. /\ backup[x].exams = op.exams /\ backup[x].dir /\ backup[x].state
      /\ \A e \in op.exams : script[e] = x /\ resources[e] = x
  BY <1>1, <1>3 DEF SingleFiles
<1>6. /\ Foreign(x, op.base) /\ Noted(x) /\ ~Stranded(x) /\ Restorable(x)
      /\ journal[x] = "open" /\ ~op.failing /\ op.cur = op.exams /\ \E e \in Exam : op.exams = {e}
  BY <1>1, <1>3, <1>4 DEF SingleKeeps, Stranded, Foreign
<1>7. BaseOf(x) = op.base
  BY <1>3, <1>4 DEF BaseOf
<1>8. InPlace'
  <2> SUFFICES ASSUME NEW e \in Exam
               PROVE  Fits(manifest.entry[e], script[e], resources[e])'
    BY DEF InPlace
  <2>1. CASE e \in op.exams
    BY <1>1, <1>3, <1>5, <2>1 DEF Fits
  <2>2. CASE e \notin op.exams
    <3>1. Fits(BaseOf(x).entry[e], script[e], resources[e])
      BY <1>3, <1>5, <1>6, <2>2, Untouched
    <3> QED
      BY <1>1, <1>7, <2>2, <3>1 DEF Fits
  <2> QED
    BY <2>1, <2>2
<1>9. BaseOf(x)' = op.base \/ BaseOf(x)' = manifest'
  BY <1>1, <1>4 DEF BaseOf
<1>10. ~Stranded(x)' => Restorable(x)'
  <2>1. CASE op.base.by # 0
    <3>1. BaseOf(x)' = BaseOf(x)
      BY <1>1, <1>3, <1>4, <1>7, <2>1 DEF BaseOf
    <3>2. \A e \in Exam : ScriptIn(x, e)' = ScriptIn(x, e) /\ ResIn(x, e)' = ResIn(x, e)
      BY <1>1 DEF ScriptIn, ResIn
    <3> QED
      BY <1>1, <1>6, <3>1, <3>2, RestorableKept
  <2>2. CASE op.base.by = 0
    <3>1. BaseOf(x)' = manifest'
      BY <1>1, <1>4, <2>2 DEF BaseOf
    <3>2. ASSUME ~Stranded(x)'
          PROVE  backup[x].res = Nothing /\ backup[x].script = 0
      BY <1>1, <1>3, <1>4, <2>2, <3>2 DEF Stranded
    <3>3. ASSUME ~Stranded(x)'
          PROVE  \A e \in Exam : ScriptIn(x, e)' = script[e] /\ ResIn(x, e)' = resources[e]
      BY <1>1, <3>2, <3>3 DEF ScriptIn, ResIn, Nothing
    <3> QED
      BY <1>1, <1>8, <3>1, <3>3 DEF InPlace, Restorable
  <2> QED
    BY <2>1, <2>2
<1>11. SingleKeeps(x)'
  BY <1>1, <1>3, <1>6, <1>8, <1>10 DEF SingleKeeps, Noted, Foreign, Alike
<1>12. SingleBase(x)'
  BY <1>1, <1>3, <1>4, <1>8 DEF SingleBase, Alike
<1>13. SingleFiles(x)'
  BY <1>1, <1>3, <1>5 DEF SingleFiles, Alike
<1>14. OwnOpen(x)' /\ Own'
  BY <1>1, <1>3, <1>11, <1>12, <1>13 DEF OwnOpen, Own, OwnSteps, Alike
<1>15. Left' = Left
  BY <1>1 DEF Left, BatchLeft, SingleLeft
<1>16. Settled(x)'
  <2>1. \A p \in Left : p # x => kind'[p] = "batch" /\ (Sure(p, x)' \/ Harmless(p, x)')
    BY <1>1, <1>3, <1>4, <1>9, SettledReplace
  <2> QED
    BY <1>1, <1>15, <2>1 DEF Settled
<1>17. Open(x)'
  BY <1>1, <1>3, <1>14 DEF Open, Recovering
<1> QED
  BY <1>1, <1>16, <1>17 DEF Good, Ids

\* Past its commit point, a batch notes so and removes its backup.
LEMMA SettledDone ==
    ASSUME Types, Types', Settled(0), Own, Own',
           UNCHANGED <<kind, manifest, releases>>,
           \A p \in Pubs : p # op.id => backup'[p] = backup[p] /\ journal'[p] = journal[p],
           op'.live = op.live, op'.base = op.base, op'.id = op.id,
           NEW x, x = op.id,
           x \in Left' => kind[x] = "batch" /\ (Sure(x, 0)' \/ Harmless(x, 0)')
    PROVE  Settled(0)'
<1>1. /\ op.rec = 0 /\ target = op.id /\ op'.rec = 0 /\ op'.pc # "restore"
      /\ \A p : ~Ahead(p)
      /\ BaseOf(0)' = BaseOf(0)
  <2>1. op.rec = 0 /\ target = op.id /\ \A p : ~Ahead(p)
    BY OwnFacts
  <2>2. op'.rec = 0 /\ op'.pc # "restore" /\ op'.pc # "idle"
    BY DEF Own, OwnSteps, Types, Placed
  <2> QED
    BY <2>1, <2>2 DEF BaseOf
<1>2. ASSUME NEW p \in Left', p # 0, p # op.id
      PROVE  kind'[p] = "batch" /\ (Sure(p, 0)' \/ Harmless(p, 0)')
  <2>1. p \in Pubs /\ backup'[p] = backup[p] /\ journal'[p] = journal[p] /\ p \in Left
    BY <1>2 DEF Left, BatchLeft, SingleLeft
  <2>2. kind[p] = "batch" /\ (Sure(p, 0) \/ Harmless(p, 0))
    BY <1>2, <2>1 DEF Settled
  <2>3. CASE Sure(p, 0)
    <3>1. Sure(p, 0)'
      BY <1>1, <1>2, <2>1, <2>3 DEF Sure, Never
    <3> QED
      BY <2>2, <3>1
  <2>4. CASE Harmless(p, 0)
    BY <1>1, <2>1, <2>2, <2>4 DEF Harmless
  <2> QED
    BY <2>2, <2>3, <2>4
<1> QED
  BY <1>1, <1>2 DEF Settled

LEMMA BatchDone ==
    ASSUME Types, NEW x \in Ids, Good(x), InBatch("flag")
    PROVE  x = 0 /\ Own /\ OwnDone /\ Settled(0) /\ op.seen = {}
<1>1. Own
  BY DEF InBatch, Own, OwnSteps
<1>2. x = 0
  BY <1>1 DEF Good, Open, OwnOpen, BatchAt, InBatch
<1> QED
  BY <1>1, <1>2 DEF Good, Open

LEMMA BatchFlagGood ==
    ASSUME Types, NEW x \in Ids, Good(x), BatchFlag \/ BatchFlagFails
    PROVE  Good(0)'
<1>1. /\ Types' /\ InBatch("flag") /\ Went("discard")
      /\ UNCHANGED <<manifest, script, resources, releases, journal, kind, used, misled>>
      /\ WritesState(op.noted, TRUE) \/ UNCHANGED backup
  BY BatchFlagTypes, BatchFlagFailsTypes DEF disk
<1>2. x = 0 /\ Own /\ OwnDone /\ Settled(0) /\ op.seen = {}
  BY <1>1, BatchDone
<1>3. op.pc = "flag" /\ op.rec = 0 /\ op'.pc = "discard" /\ Stays /\ Alike(op', op)
      /\ kind[op.id] = "batch" /\ op.id # 0 /\ op.id \in Pubs
  BY <1>1 DEF InBatch, Went, Stays
<1>4. /\ op.live /\ ~op.failing /\ InPlace /\ manifest.by = op.id /\ op.id \in releases
  BY <1>2, <1>3 DEF OwnDone
<1>5. Own' /\ OwnDone'
  BY <1>1, <1>3, <1>4, InPlaceKept DEF Own, OwnDone, Stays, Alike
<1>6. \A p \in Pubs : p # op.id => backup'[p] = backup[p]
  BY <1>1 DEF WritesState, Only
<1>7. PICK y : y = op.id
  OBVIOUS
<1>8. y \in Left' => Sure(y, 0)' \/ Harmless(y, 0)'
  <2>1. CASE WritesState(op.noted, TRUE)
    BY <1>1, <1>4, <1>7, <2>1 DEF WritesState, Sure
  <2>2. CASE UNCHANGED backup
    <3>1. y \in Left' => y \in Left
      BY <1>1, <2>2 DEF Left, BatchLeft, SingleLeft
    <3>2. y \in Left => Sure(y, 0) \/ Harmless(y, 0)
      BY <1>2, <1>3, <1>7 DEF Settled
    <3>3. Sure(y, 0) => Sure(y, 0)'
      <4>1. ~Ahead(y) /\ ~At("discard")
        BY <1>2, <1>3, OwnFacts DEF At
      <4> QED
        BY <1>1, <1>3, <2>2, <4>1 DEF Sure, Never, BaseOf, Stays, Alike
    <3>4. Harmless(y, 0) => Harmless(y, 0)'
      BY <1>1, <2>2 DEF Harmless, BaseOf, Nothing
    <3> QED
      BY <3>1, <3>2, <3>3, <3>4
  <2> QED
    BY <1>1, <2>1, <2>2
<1>9. Settled(0)'
  BY <1>1, <1>2, <1>3, <1>5, <1>6, <1>7, <1>8, SettledDone DEF Stays, Alike
<1>10. Open(0)'
  BY <1>2, <1>3, <1>5 DEF Open, Recovering, Stays
<1> QED
  BY <1>1, <1>9, <1>10, BoundFacts DEF Good, Types, Ids

-------------------------------------------------------------------------------
(* A publisher ends *)

\* What was settled stays settled when x was open before the publisher ended
\* and y is after; t is the publication whose backup it worked on.
LEMMA SettledEnd ==
    ASSUME Types, NEW x, NEW y, NEW t, Settled(x), op.pc # "idle", op' = Idle, kind' = kind,
           manifest' = manifest \/ (manifest' = BaseOf(x) /\ manifest'.by # 0),
           BaseOf(y)' = BaseOf(x), op.pc = "discard" => t = target,
           \A p \in Pubs : p # t => /\ backup'[p] = backup[p] /\ journal'[p] = journal[p]
                                    /\ p \in releases => p \in releases',
           \A p \in {t, x} : p \in Left' /\ p # y =>
             kind[p] = "batch" /\ (Sure(p, y)' \/ Harmless(p, y)')
    PROVE  Settled(y)'
<1>1. op'.pc = "idle" /\ op'.live = FALSE /\ op'.base = NoManifest /\ op'.id = 0
  BY IdleFacts
<1>2. ASSUME NEW p \in Left', p # y, p # x, p # t
      PROVE  kind'[p] = "batch" /\ (Sure(p, y)' \/ Harmless(p, y)')
  <2>1. /\ p \in Pubs /\ backup'[p] = backup[p] /\ journal'[p] = journal[p]
        /\ p \in releases => p \in releases'
    BY <1>2 DEF Left, BatchLeft, SingleLeft
  <2>2. p \in Left
    BY <1>2, <2>1 DEF Left, BatchLeft, SingleLeft
  <2>3. kind[p] = "batch" /\ (Sure(p, x) \/ Harmless(p, x))
    BY <1>2, <2>2 DEF Settled
  <2>4. CASE Sure(p, x)
    <3>1. p \in releases' /\ (backup[p].committed \/ manifest'.by # 0)
      BY <2>1, <2>4 DEF Sure
    <3>2. ASSUME backup[p].base.by # 0, Never(backup[p].base.by, x)
          PROVE  Never(backup[p].base.by, y)'
      BY <1>1, <2>1, <3>2 DEF Never, NoManifest
    <3>3. ASSUME manifest.by = p, BaseOf(x).by = p
          PROVE  manifest'.by = p /\ BaseOf(y)'.by = p /\ Ahead(p)'
      BY <1>1, <3>3 DEF Ahead
    <3>4. Sure(p, y)'
      BY <1>2, <2>1, <2>4, <3>1, <3>2, <3>3 DEF Sure, At
    <3> QED
      BY <2>3, <3>4
  <2>5. CASE Harmless(p, x)
    BY <2>1, <2>3, <2>5 DEF Harmless, Nothing
  <2> QED
    BY <2>3, <2>4, <2>5
<1> QED
  BY <1>1, <1>2 DEF Settled

\* Nobody publishes.
LEMMA IdleGood ==
    ASSUME NEW y \in Ids, used' = used, op' = Idle, Settled(y)', y = 0 => InPlace',
           y # 0 => y \in Left' /\ (IF kind'[y] = "batch" THEN LeftBatch(y)' ELSE LeftSingle(y)')
    PROVE  Good(y)'
<1>1. op'.pc = "idle" /\ op'.rec = 0
  BY IdleFacts
<1>2. ~Own' /\ ~Recovering'
  BY <1>1 DEF Own, Recovering, OwnSteps
<1>3. Open(y)'
  BY <1>1, <1>2 DEF Open, LeftOpen
<1> QED
  BY <1>3 DEF Good, Ids

\* A publisher that was recovering ends and leaves the disk as it is.
LEMMA StopGood ==
    ASSUME Types, NEW x \in Ids, Good(x), Recovering, op' = Idle, UNCHANGED <<disk, kind, used>>,
           op.pc = "discard" /\ kind[op.rec] = "batch" /\ op.rec \in releases /\ backup[op.rec].state =>
             Committed(op.rec)
    PROVE  Good(x)'
<1>1. /\ UNCHANGED <<manifest, script, resources, releases, backup, journal>>
      /\ op'.pc = "idle" /\ op'.rec = 0 /\ op'.live = FALSE /\ op'.base = NoManifest /\ op'.id = 0
  BY IdleFacts DEF disk
<1>2. ~Own /\ op.pc # "idle" /\ (op.pc = "discard" => op.rec # 0 /\ target = op.rec)
      /\ op.pc \notin OwnSteps
  BY DEF Recovering, Own, target
<1>3. BaseOf(x)' = BaseOf(x) /\ Left' = Left
  BY <1>1 DEF BaseOf, Left, BatchLeft, SingleLeft
<1>4. x # 0 => x \in Left /\ (IF kind[x] = "batch" THEN LeftBatch(x) ELSE LeftSingle(x))
  BY <1>2 DEF Good, Open, LeftOpen
<1>5. ASSUME NEW t, t = op.rec, t \in Left, t # x
      PROVE  kind[t] = "batch" /\ (Sure(t, x)' \/ Harmless(t, x)')
  <2>1. kind[t] = "batch" /\ (Sure(t, x) \/ Harmless(t, x)) /\ backup[t].state /\ t # 0
    BY <1>5, LeftFacts DEF Good, Settled, Left
  <2>2. CASE Sure(t, x)
    <3>1. Never(backup[t].base.by, x) /\ backup[t].base.by # 0 => Never(backup[t].base.by, x)'
      BY <1>1, <1>3 DEF Never, NoManifest
    <3>2. ASSUME manifest.by = t
          PROVE  BaseOf(x).by = t
      BY <1>4, <1>5, <2>1, <3>2 DEF BaseOf, LeftSingle, NoManifest
    <3>3. op.pc = "discard" => Committed(t)
      BY <1>5, <2>1, <2>2 DEF Sure
    <3>4. Sure(t, x)'
      BY <1>1, <1>2, <1>3, <2>1, <2>2, <3>1, <3>2, <3>3 DEF Sure, Committed, Ahead, At
    <3> QED
      BY <2>1, <3>4
  <2>3. CASE Harmless(t, x)
    BY <1>1, <1>3, <2>1, <2>3 DEF Harmless
  <2> QED
    BY <2>1, <2>2, <2>3
<1>6. Settled(x)'
  <2>1. PICK t : t = op.rec
    OBVIOUS
  <2> QED
    BY <1>1, <1>2, <1>3, <1>5, <2>1, SettledEnd DEF Good
<1>7. x = 0 => InPlace'
  BY <1>1, <1>2, InPlaceKept DEF Good, Open
<1>8. x # 0 => x \in Left' /\ (IF kind'[x] = "batch" THEN LeftBatch(x)' ELSE LeftSingle(x)')
  <2> SUFFICES ASSUME x # 0
               PROVE  IF kind'[x] = "batch" THEN LeftBatch(x)' ELSE LeftSingle(x)'
    BY <1>3, <1>4
  <2>1. Restorable(x) => Restorable(x)'
    BY <1>1, <1>3, RestorableKept DEF ScriptIn, ResIn
  <2>2. CASE kind[x] = "batch"
    BY <1>1, <1>4, <2>1, <2>2 DEF LeftBatch, Foreign, Noted
  <2>3. CASE kind[x] # "batch"
    <3>1. InPlace => InPlace'
      BY <1>1, InPlaceKept
    <3> QED
      BY <1>1, <1>4, <2>1, <2>3, <3>1 DEF LeftSingle, Stranded, Noted
  <2> QED
    BY <2>2, <2>3
<1> QED
  BY <1>6, <1>7, <1>8, IdleGood

\* A publisher that was past its commit point ends.
LEMMA DoneEnds ==
    ASSUME Types, Types', Settled(0), Own, OwnDone, op' = Idle,
           UNCHANGED <<manifest, script, resources, releases, journal, kind, used>>,
           backup' = backup \/ (Only(op.id) /\ ~backup'[op.id].state)
    PROVE  Good(0)'
<1>1. /\ op'.pc = "idle" /\ op'.rec = 0 /\ op'.live = FALSE /\ op'.base = NoManifest /\ op'.id = 0
      /\ BaseOf(0)' = manifest /\ BaseOf(0) = manifest
  BY IdleFacts DEF BaseOf
<1>2. PICK t : t = op.id
  OBVIOUS
<1>3. op.pc # "idle" /\ target = t /\ t \in Pubs /\ t # 0
  BY <1>2, OwnFacts
<1>4. \A p \in Pubs : p # t => backup'[p] = backup[p]
  BY <1>2 DEF Only
<1>5. ASSUME t \in Left'
      PROVE  kind[t] = "batch" /\ (Sure(t, 0)' \/ Harmless(t, 0)')
  <2>1. kind[t] = "batch" /\ backup'[t].state
    BY <1>2, <1>5 DEF Left, BatchLeft, SingleLeft, OwnDone
  <2>2. backup' = backup /\ t \in Left
    BY <1>2, <1>5, <2>1 DEF Left, BatchLeft, SingleLeft
  <2>3. Sure(t, 0) \/ Harmless(t, 0)
    BY <1>3, <2>2 DEF Settled
  <2>4. manifest.by = t
    BY <1>2, <2>1 DEF OwnDone
  <2>5. backup[t].base.by # 0 /\ Never(backup[t].base.by, 0) => Never(backup[t].base.by, 0)'
    BY <1>1, <2>2 DEF Never, NoManifest
  <2>6. Sure(t, 0) => Sure(t, 0)'
    BY <1>1, <1>3, <2>2, <2>4, <2>5 DEF Sure, Ahead
  <2>7. Harmless(t, 0) => Harmless(t, 0)'
    BY <1>1, <2>2 DEF Harmless, Nothing
  <2> QED
    BY <2>1, <2>3, <2>6, <2>7
<1>6. 0 \notin Left'
  BY DEF Left, BatchLeft, SingleLeft, Pubs
<1>7. Settled(0)'
  BY <1>1, <1>3, <1>4, <1>5, <1>6, SettledEnd, ZenonT(60)
<1>8. InPlace'
  BY InPlaceKept DEF OwnDone
<1> QED
  BY <1>7, <1>8, IdleGood, BoundFacts DEF Types

\* An open batch ends: what it leaves is open if it can be put back, and
\* harmless if there is nothing to put back.
LEMMA BatchEnds ==
    ASSUME Types, Types', NEW x \in Ids, Good(x), Own, x # 0, kind[op.id] = "batch", op' = Idle,
           UNCHANGED <<manifest, script, resources, backup, journal, kind, used>>,
           releases' = releases \/ releases' = releases \ {x},
           backup[op.id].dir => manifest.by \in {op.base.by, op.id} \/ op.pc = "unrelease"
    PROVE  \E y \in Ids : Good(y)'
<1>1. /\ op'.pc = "idle" /\ op'.rec = 0 /\ op'.live = FALSE /\ op'.base = NoManifest /\ op'.id = 0
  BY IdleFacts
<1>2. /\ x = op.id /\ BatchKeeps(x) /\ BatchAt(x) /\ Settled(x) /\ kind[x] = "batch"
  BY DEF Good, Open, OwnOpen
<1>3. op.pc # "idle" /\ target = x /\ x \in Pubs
  BY <1>2, OwnFacts
<1>4. /\ Foreign(x, manifest) /\ Foreign(x, op.base) /\ Noted(x) /\ Restorable(x)
      /\ ~backup[x].committed /\ backup[x].script = 0 /\ backup[x].res \in [Exam -> Ids]
      /\ backup[x].dir \/ backup[x] = NoBackup
  BY <1>2, <1>3, BatchParts, RecordFacts DEF Types, DiskTypes
<1>5. /\ BaseOf(x) = manifest /\ BaseOf(x)' = manifest /\ BaseOf(0)' = manifest
      /\ \A e \in Exam : manifest.entry[e] # x
  BY <1>2, <1>4 DEF BaseOf, Foreign
<1>6. \A p \in Pubs : p # x /\ p \in releases => p \in releases'
  OBVIOUS
<1>7. Restorable(x)'
  BY <1>4, <1>5 DEF Restorable, Fits, ScriptIn, ResIn
<1>8. CASE backup[x].res = Nothing
  <2>1. InPlace'
    <3>1. \A e \in Exam : backup'[x].res[e] = 0 /\ backup'[x].script = 0
      BY <1>4, <1>8 DEF Nothing
    <3>2. \A e \in Exam : ScriptIn(x, e)' = script'[e] /\ ResIn(x, e)' = resources'[e]
      BY <3>1 DEF ScriptIn, ResIn
    <3> QED
      BY <1>5, <1>7, <3>2 DEF InPlace, Restorable
  <2>2. Harmless(x, 0)'
    BY <1>2, <1>5, <1>8 DEF Harmless, BatchKeeps, Nothing
  <2>3. Settled(0)'
    BY <1>1, <1>2, <1>3, <1>5, <1>6, <2>2, SettledEnd
  <2> QED
    BY <2>1, <2>3, IdleGood, BoundFacts DEF Types
<1>9. CASE backup[x].res # Nothing
  <2>1. \E e \in Exam : backup[x].res[e] # 0
    BY <1>4, <1>9 DEF Nothing
  <2>2. backup[x].state /\ x \in Left
    BY <1>2, <1>3, <1>4, <2>1 DEF Noted, Left, BatchLeft
  <2>3. backup[x].dir /\ manifest.by = op.base.by
    BY <1>2, <1>4, <1>9 DEF Foreign, NoBackup, BatchAt
  <2>4. backup[x].base = op.base
    BY <1>2, <1>9, <2>3 DEF BatchAt
  <2>5. LeftBatch(x)'
    BY <1>1, <1>4, <1>5, <1>7, <2>3, <2>4 DEF LeftBatch, Foreign, Noted
  <2>6. Settled(x)'
    BY <1>1, <1>2, <1>3, <1>5, <1>6, SettledEnd
  <2>7. x \in Left'
    BY <2>2 DEF Left, BatchLeft, SingleLeft
  <2> QED
    BY <1>2, <2>5, <2>6, <2>7, IdleGood
<1> QED
  BY <1>8, <1>9

\* What a single publication has done so far can be taken back.
LEMMA SingleLeaves ==
    ASSUME Types, NEW x, SingleKeeps(x), SingleBase(x), SingleFiles(x), op.pc # "stage", op.rec # x
    PROVE  LeftSingle(x)
<1>1. Noted(x) /\ (IF Stranded(x) THEN InPlace ELSE Restorable(x))
  BY DEF SingleKeeps
<1>2. backup[x].script # 0 => \E e \in Exam : backup[x].exams = {e}
  BY DEF SingleKeeps, SingleFiles, NoBackup
<1>3. ASSUME backup[x].base.by # 0
      PROVE  \/ manifest = backup[x].base
             \/ manifest = NoManifest
             \/ manifest.by = x /\ \A e \in Exam : manifest.entry[e] \in {x, backup[x].base.entry[e]}
  <2>1. op.pc \notin {"stage", "dir", "state", "copy"}
    BY <1>3 DEF SingleBase, NoManifest
  <2>2. CASE op.pc = "discard"
    BY <1>3, <2>2 DEF SingleBase
  <2>3. CASE op.pc # "discard"
    <3>1. backup[x].base = op.base
      BY <2>1, <2>3 DEF SingleBase
    <3>2. CASE op.live /\ op.pc \in {"flag", "close", "hide"}
      BY <3>1, <3>2 DEF SingleBase
    <3>3. CASE op.live /\ op.pc \notin {"flag", "close", "hide"}
      BY <2>3, <3>3 DEF SingleBase
    <3>4. CASE ~op.live
      BY <2>1, <3>1, <3>4 DEF SingleBase
    <3> QED
      BY <3>2, <3>3, <3>4
  <2> QED
    BY <2>2, <2>3
<1> QED
  BY <1>1, <1>2, <1>3 DEF LeftSingle

\* A single publication ends before its journal is closed.
LEMMA SingleEnds ==
    ASSUME Types, Types', NEW x \in Ids, Good(x), Own, x # 0, kind[op.id] = "single", op' = Idle,
           UNCHANGED <<disk, kind, used>>
    PROVE  \E y \in Ids : Good(y)'
<1>1. /\ UNCHANGED <<manifest, script, resources, releases, backup, journal>>
      /\ op'.pc = "idle" /\ op'.rec = 0 /\ op'.live = FALSE /\ op'.base = NoManifest /\ op'.id = 0
  BY IdleFacts DEF disk
<1>2. /\ x = op.id /\ SingleKeeps(x) /\ SingleBase(x) /\ SingleFiles(x) /\ Settled(x)
      /\ kind[x] = "single"
  BY DEF Good, Open, OwnOpen
<1>3. op.pc # "idle" /\ target = x /\ x \in Pubs /\ op.rec # x
  BY <1>2, OwnFacts
<1>4. Left' = Left /\ BaseOf(x)' = BaseOf(x)
  BY <1>1 DEF Left, BatchLeft, SingleLeft, BaseOf
<1>5. CASE op.pc = "stage"
  <2>1. backup[x] = NoBackup /\ journal[x] = "none"
    BY <1>2, <1>5 DEF SingleFiles, SingleKeeps
  <2>2. /\ x \notin Left
        /\ backup[x].res = Nothing /\ backup[x].script = 0 /\ backup[x].base = NoManifest
    BY <1>2, <2>1 DEF Left, BatchLeft, SingleLeft, NoBackup
  <2>3. BaseOf(x) = manifest /\ BaseOf(0)' = manifest /\ Restorable(x)
    BY <1>1, <1>2, <2>2 DEF BaseOf, SingleKeeps, Stranded, NoManifest
  <2>4. InPlace'
    BY <1>1, <2>2, <2>3 DEF InPlace, Restorable, Fits, ScriptIn, ResIn, Nothing
  <2>5. Settled(0)'
    BY <1>1, <1>2, <1>3, <1>4, <2>2, <2>3, SettledEnd
  <2> QED
    BY <2>4, <2>5, IdleGood, BoundFacts DEF Types
<1>6. CASE op.pc # "stage"
  <2>1. LeftSingle(x)
    BY <1>2, <1>3, <1>6, SingleLeaves
  <2>2. Restorable(x) => Restorable(x)'
    BY <1>1, <1>4, RestorableKept DEF ScriptIn, ResIn
  <2>3. InPlace => InPlace'
    BY <1>1, InPlaceKept
  <2>4. LeftSingle(x)'
    BY <1>1, <1>2, <2>1, <2>2, <2>3 DEF LeftSingle, Stranded, Noted
  <2>5. Settled(x)'
    BY <1>1, <1>2, <1>3, <1>4, SettledEnd
  <2>6. x \in Left'
    BY <1>2, <1>3, <1>4, <1>6 DEF Left, SingleLeft, SingleKeeps
  <2> QED
    BY <1>2, <2>4, <2>5, <2>6, IdleGood
<1> QED
  BY <1>5, <1>6

-------------------------------------------------------------------------------
(* A publication starts and recovers what was left *)

\* x was open before a step of a recovery and y is after; t is the publication
\* whose backup the step works on.
LEMMA SettledRec ==
    ASSUME NEW x, NEW y, NEW t, Settled(x), Recovering, Recovering', kind' = kind,
           manifest' = manifest \/ (manifest' = BaseOf(x) /\ manifest'.by # 0),
           BaseOf(y)' = BaseOf(x), op.pc = "discard" => t = target,
           op'.live = op.live, op'.base = op.base, op'.id = op.id,
           \A p \in Pubs : p # t => /\ backup'[p] = backup[p] /\ journal'[p] = journal[p]
                                    /\ p \in releases => p \in releases'
                                    /\ p \in op'.seen => p \in op.seen,
           \A p \in {t, x} : p \in Left' /\ p # y =>
             kind[p] = "batch" /\ (Sure(p, y)' \/ Harmless(p, y)'),
           op'.pc \in {"restore", "unrelease"} /\ op'.rec \notin {0, y} =>
             /\ kind[op'.rec] = "batch" /\ Harmless(op.rec, y)'
             /\ op'.pc = "restore" => backup'[op'.rec].base.by \in {0, manifest'.by}
    PROVE  Settled(y)'
<1>1. ASSUME NEW p \in Left', p # y, p # x, p # t
      PROVE  kind'[p] = "batch" /\ (Sure(p, y)' \/ Harmless(p, y)')
  <2>1. /\ p \in Pubs /\ backup'[p] = backup[p] /\ journal'[p] = journal[p]
        /\ p \in releases => p \in releases'
        /\ p \in op'.seen => p \in op.seen
    BY <1>1 DEF Left, BatchLeft, SingleLeft
  <2>2. p \in Left
    BY <1>1, <2>1 DEF Left, BatchLeft, SingleLeft
  <2>3. kind[p] = "batch" /\ (Sure(p, x) \/ Harmless(p, x))
    BY <1>1, <2>2 DEF Settled
  <2>4. CASE Sure(p, x)
    <3>1. p \in releases' /\ (backup[p].committed \/ manifest'.by # 0)
      BY <2>1, <2>4 DEF Sure
    <3>2. ASSUME backup[p].base.by # 0, Never(backup[p].base.by, x)
          PROVE  Never(backup[p].base.by, y)'
      BY <2>1, <3>2 DEF Never
    <3>3. ASSUME manifest.by = p, BaseOf(x).by = p, Ahead(p)
          PROVE  manifest'.by = p /\ BaseOf(y)'.by = p /\ Ahead(p)'
      BY <2>1, <3>3 DEF Ahead, Recovering
    <3>4. Sure(p, y)'
      BY <1>1, <2>1, <2>4, <3>1, <3>2, <3>3 DEF Sure, At
    <3> QED
      BY <2>3, <3>4
  <2>5. CASE Harmless(p, x)
    BY <2>1, <2>3, <2>5 DEF Harmless, Nothing
  <2> QED
    BY <2>3, <2>4, <2>5
<1> QED
  BY <1>1 DEF Settled

\* A recovery goes on.
LEMMA RecGood ==
    ASSUME NEW y \in Ids, used' = used, Recovering', Settled(y)', Waiting(y)',
           op'.rec # 0 => op'.rec \in op'.seen,
           y = 0 => InPlace',
           y # 0 => /\ y \in Left' /\ (op'.rec = y \/ y \notin op'.seen)
                    /\ IF kind'[y] = "batch" THEN LeftBatch(y)' ELSE LeftSingle(y)'
    PROVE  Good(y)'
<1>1. ~Own'
  BY DEF Recovering
<1>2. Open(y)'
  BY <1>1 DEF Open, LeftOpen
<1> QED
  BY <1>2 DEF Good, Ids

\* What is known while a recovery runs
LEMMA RecOpen ==
    ASSUME Types, NEW x \in Ids, Good(x), Recovering
    PROVE  /\ Settled(x) /\ Waiting(x) /\ (op.rec # 0 => op.rec \in op.seen)
           /\ x = 0 => InPlace
           /\ x # 0 => /\ x \in Left /\ x \in Pubs /\ (op.rec = x \/ x \notin op.seen)
                       /\ IF kind[x] = "batch" THEN LeftBatch(x) ELSE LeftSingle(x)
           /\ op.id # 0 /\ op.id \in Pubs /\ kind[op.id] \in {"batch", "single"}
           /\ ~op.failing => op.id \notin Left
<1>1. ~Own /\ op.pc # "idle"
  BY DEF Recovering
<1>2. op.id # 0 /\ op.id \in Pubs /\ kind[op.id] \in {"batch", "single"}
  BY <1>1, OwnPub
<1>3. /\ Settled(x) /\ Waiting(x) /\ (op.rec # 0 => op.rec \in op.seen)
      /\ x = 0 => InPlace
      /\ x # 0 => LeftOpen(x)
  BY <1>1 DEF Good, Open
<1>4. ~op.failing => op.id \notin Left
  BY <1>3 DEF Waiting, Left, BatchLeft, SingleLeft, NoBackup
<1> QED
  BY <1>1, <1>2, <1>3, <1>4, LeftFacts DEF LeftOpen

LEMMA StartGood ==
    ASSUME Types, NEW x \in Ids, Good(x), NEW k \in {"batch", "single"}, NEW S \in SUBSET Exam,
           Start(k, S), k = "single" => \E e \in Exam : S = {e}
    PROVE  Good(x)'
<1>1. /\ op = Idle /\ used' = used + 1 /\ used + 1 \in Pubs /\ Blank(used + 1)
      /\ kind' = [kind EXCEPT ![used + 1] = k]
      /\ op'.pc = "recover" /\ op'.id = used + 1 /\ op'.exams = S /\ op'.base = NoManifest
      /\ op'.rec = 0 /\ op'.seen = {} /\ op'.todo = {} /\ op'.cur = {} /\ op'.noted = {}
      /\ op'.had = {} /\ op'.live = FALSE /\ op'.failing = FALSE
      /\ UNCHANGED <<manifest, script, resources, releases, backup, journal>>
  BY StartTypes DEF StartIsOf, disk
<1>2. PICK n : n = used + 1
  OBVIOUS
<1>3. /\ n \in Pubs /\ Blank(n) /\ kind'[n] = k /\ n # 0 /\ n \notin Ids
      /\ \A p : p # n => kind'[p] = kind[p]
      /\ used \in Nat
  <2>1. used \in Nat /\ kind \in [Pubs -> {"none", "batch", "single", "legacy"}]
    BY BoundFacts DEF Types, DiskTypes
  <2>2. n \notin Ids /\ n # 0 /\ n \in Pubs
    BY <1>1, <1>2, <2>1 DEF Ids
  <2> QED
    BY <1>1, <1>2, <2>1, <2>2
<1>4. x # n /\ x \in Ids'
  BY <1>1, <1>2, <1>3 DEF Ids
<1>5. /\ op.pc = "idle" /\ op.rec = 0 /\ ~op.live /\ op.base = NoManifest
      /\ ~Own /\ ~Recovering /\ ~Own' /\ Recovering'
  BY <1>1, IdleFacts DEF Own, Recovering, OwnSteps
<1>6. BaseOf(x)' = BaseOf(x)
  BY <1>1, <1>3, <1>4 DEF BaseOf
<1>7. /\ manifest \in Written /\ BaseOf(x) \in Written
      /\ \A e \in Exam : manifest.entry[e] \in Ids /\ BaseOf(x).entry[e] \in Ids
      /\ manifest.by \in Ids /\ BaseOf(x).by \in Ids
  <2>1. manifest \in Written
    BY DEF Types, DiskTypes
  <2>2. x # 0 => backup[x].base \in Written
    BY RecordFacts, BoundFacts DEF Types
  <2>3. BaseOf(x) \in Written
    BY <2>1, <2>2 DEF BaseOf
  <2> QED
    BY <2>1, <2>3 DEF Written
<1>8. Left' = Left /\ n \notin Left
  BY <1>1, <1>3 DEF Left, BatchLeft, SingleLeft, Blank, NoBackup
<1>9. Settled(x) /\ (x = 0 => InPlace) /\ (x # 0 => LeftOpen(x))
  BY <1>5 DEF Good, Open
<1>10. Settled(x)'
  <2>1. ASSUME NEW p \in Left', p # x
        PROVE  kind'[p] = "batch" /\ (Sure(p, x)' \/ Harmless(p, x)')
    <3>1. /\ p \in Left /\ p \in Pubs /\ kind'[p] = kind[p] /\ kind[p] = "batch"
          /\ Sure(p, x) \/ Harmless(p, x)
      BY <1>3, <1>8, <1>9, <2>1, LeftFacts DEF Settled
    <3>2. backup[p].base.by # n
      BY <1>3, <3>1, RecordFacts DEF Written
    <3>3. CASE Sure(p, x)
      <4>1. Never(backup[p].base.by, x) /\ backup[p].base.by # 0 => Never(backup[p].base.by, x)'
        BY <1>1, <1>2, <1>6, <3>2 DEF Never, NoManifest
      <4>2. Ahead(p)'
        BY <1>1, <1>5 DEF Ahead
      <4>3. Sure(p, x)'
        BY <1>1, <1>5, <1>6, <3>3, <4>1, <4>2 DEF Sure, At
      <4> QED
        BY <3>1, <4>3
    <3>4. CASE Harmless(p, x)
      BY <1>1, <1>6, <3>1, <3>4 DEF Harmless, Nothing
    <3> QED
      BY <3>1, <3>3, <3>4
  <2> QED
    BY <1>1, <2>1 DEF Settled
<1>11. Waiting(x)'
  <2>1. backup[n] = NoBackup /\ journal[n] = "none"
    BY <1>3 DEF Blank
  <2>2. Foreign(n, manifest) /\ Foreign(n, BaseOf(x))
    BY <1>3, <1>7 DEF Foreign
  <2>3. Foreign(n, manifest)' /\ Foreign(n, BaseOf(x))'
    BY <1>1, <1>6, <2>2 DEF Foreign
  <2>4. k = "single" => \E e \in Exam : S = {e}
    OBVIOUS
  <2> QED
    BY <1>1, <1>2, <1>3, <2>1, <2>3, <2>4 DEF Waiting
<1>12. (InPlace => InPlace') /\ (Restorable(x) => Restorable(x)')
  <2>1. \A e \in Exam : kind'[manifest.entry[e]] = kind[manifest.entry[e]]
                        /\ kind'[BaseOf(x).entry[e]] = kind[BaseOf(x).entry[e]]
    BY <1>3, <1>7
  <2>2. \A e \in Exam : ScriptIn(x, e)' = ScriptIn(x, e) /\ ResIn(x, e)' = ResIn(x, e)
    BY <1>1 DEF ScriptIn, ResIn
  <2>3. InPlace => InPlace'
    BY <1>1, <2>1 DEF InPlace, Fits
  <2>4. Restorable(x) => Restorable(x)'
    BY <1>1, <1>6, <2>1, <2>2 DEF Restorable, Fits
  <2> QED
    BY <2>3, <2>4
<1>13. x # 0 => LeftOpen(x)'
  <2> SUFFICES ASSUME x # 0
               PROVE  LeftOpen(x)'
    OBVIOUS
  <2>1. /\ x \in Left' /\ kind'[x] = kind[x]
        /\ IF kind[x] = "batch" THEN LeftBatch(x) ELSE LeftSingle(x)
    BY <1>3, <1>4, <1>8, <1>9 DEF LeftOpen
  <2>2. CASE kind[x] = "batch"
    <3>1. LeftBatch(x)'
      BY <1>1, <1>6, <1>12, <2>1, <2>2 DEF LeftBatch, Foreign, Noted
    <3> QED
      BY <1>1, <2>1, <2>2, <3>1 DEF LeftOpen
  <2>3. CASE kind[x] # "batch"
    <3>1. LeftSingle(x)'
      BY <1>1, <1>12, <2>1, <2>3 DEF LeftSingle, Stranded, Noted
    <3> QED
      BY <1>1, <2>1, <2>3, <3>1 DEF LeftOpen
  <2> QED
    BY <2>2, <2>3
<1>14. Open(x)'
  BY <1>1, <1>5, <1>9, <1>11, <1>12, <1>13 DEF Open
<1> QED
  BY <1>4, <1>10, <1>14 DEF Good

\* The recovery of one publication begins: a batch that did not commit and
\* something of which is still in the backup is the one that is open.
LEMMA PickGood ==
    ASSUME Types, NEW x \in Ids, Good(x), NEW p \in Left, NEW pc, Picks(p, pc),
           IF kind[p] = "batch" THEN pc = IF Committed(p) THEN "discard" ELSE "restore"
           ELSE pc = "restore" /\ ~Stranded(p)
    PROVE  Good(x)'
<1>1. /\ op.pc = "recover" /\ op.rec = 0 /\ p \in Pubs /\ p \in Ids /\ p \notin op.seen
      /\ op'.pc = pc /\ Alike(op', op) /\ op'.cur = op.cur
      /\ op'.rec = p /\ op'.seen = op.seen \cup {p}
      /\ op'.live = op.live /\ op'.failing = op.failing
      /\ UNCHANGED <<manifest, script, resources, releases, backup, journal, kind, used>>
  BY DEF Picks, disk
<1>2. Recovering /\ Recovering' /\ p # 0 /\ ~At("discard") /\ pc \in {"discard", "restore"}
  BY <1>1, LeftFacts DEF Recovering, Own, OwnSteps, At
<1>3. /\ Settled(x) /\ Waiting(x)
      /\ x = 0 => InPlace
      /\ x # 0 => /\ x \in Left /\ x \in Pubs /\ x \notin op.seen
                  /\ IF kind[x] = "batch" THEN LeftBatch(x) ELSE LeftSingle(x)
      /\ ~op.failing => op.id # p
  BY <1>1, <1>2, RecOpen
<1>4. BaseOf(x)' = BaseOf(x) /\ Left' = Left
  BY <1>1 DEF BaseOf, Left, BatchLeft, SingleLeft
<1>5. CASE p # x
  <2>1. kind[p] = "batch" /\ (Sure(p, x) \/ Harmless(p, x))
    BY <1>3, <1>5 DEF Settled
  <2>2. Sure(p, x) => Committed(p)
    BY <1>2 DEF Sure, Never, Committed
  <2>3. pc = "restore" => Harmless(p, x)
    BY <2>1, <2>2
  <2>4. Harmless(p, x) => Harmless(p, x)'
    BY <1>1, <1>4 DEF Harmless, Nothing
  <2>5. ASSUME Sure(p, x), pc = "discard"
        PROVE  Sure(p, x)'
    <3>1. Never(backup[p].base.by, x) => Never(backup[p].base.by, x)'
      BY <1>1, <1>4 DEF Never, Alike
    <3>2. At("discard")' /\ target' = p
      BY <1>1, <1>2, <2>5 DEF At, target
    <3> QED
      BY <1>1, <2>5, <3>1, <3>2 DEF Sure
  <2>6. Sure(p, x)' \/ Harmless(p, x)'
    BY <1>2, <2>1, <2>3, <2>4, <2>5
  <2>7. /\ op'.rec = p /\ (op'.pc \in {"restore", "unrelease"} => Harmless(op.rec, x)')
        /\ op'.pc = "restore" => backup'[op'.rec].base.by \in {0, manifest'.by}
    <3>1. pc = "restore" => backup[p].base.by \in {0, manifest.by}
      BY <2>1, <2>3 DEF Harmless, Committed
    <3> QED
      BY <1>1, <1>2, <2>3, <2>4, <3>1
  <2>8. Settled(x)'
    BY <1>1, <1>2, <1>3, <1>4, <2>1, <2>6, <2>7, SettledRec, ZenonT(60) DEF At, Alike
  <2>9. Waiting(x)'
    BY <1>1, <1>3, <1>4 DEF Waiting, Alike, Foreign
  <2>10. (InPlace => InPlace') /\ (Restorable(x) => Restorable(x)')
    BY <1>1, <1>4, InPlaceKept, RestorableKept DEF ScriptIn, ResIn
  <2>11. ASSUME x # 0
         PROVE  IF kind'[x] = "batch" THEN LeftBatch(x)' ELSE LeftSingle(x)'
    <3>1. CASE kind[x] = "batch"
      BY <1>1, <1>3, <1>5, <2>10, <2>11, <3>1 DEF LeftBatch, Foreign, Noted
    <3>2. CASE kind[x] # "batch"
      BY <1>1, <1>3, <1>5, <2>10, <2>11, <3>2 DEF LeftSingle, Stranded, Noted
    <3> QED
      BY <3>1, <3>2
  <2> QED
    BY <1>1, <1>2, <1>3, <1>4, <1>5, <2>8, <2>9, <2>10, <2>11, RecGood
<1>6. CASE p = x
  <2>1. IF kind[x] = "batch" THEN LeftBatch(x) ELSE LeftSingle(x)
    BY <1>2, <1>3, <1>6
  <2>2. pc = "restore"
    <3>1. CASE kind[x] = "batch"
      <4>1. ~Committed(x)
        BY <2>1, <3>1 DEF LeftBatch, Foreign, Committed
      <4> QED
        BY <1>6, <3>1, <4>1
    <3>2. CASE kind[x] # "batch"
      BY <1>6, <3>2
    <3> QED
      BY <3>1, <3>2
  <2>3. Settled(x)'
    BY <1>1, <1>2, <1>3, <1>4, <1>6, SettledRec DEF At, Alike
  <2>4. Waiting(x)'
    BY <1>1, <1>3, <1>4, <1>6 DEF Waiting, Alike, Foreign
  <2>5. (InPlace => InPlace') /\ (Restorable(x) => Restorable(x)')
    BY <1>1, <1>4, InPlaceKept, RestorableKept DEF ScriptIn, ResIn
  <2>6. IF kind'[x] = "batch" THEN LeftBatch(x)' ELSE LeftSingle(x)'
    <3>1. CASE kind[x] = "batch"
      BY <1>1, <2>1, <2>2, <2>5, <3>1 DEF LeftBatch, Foreign, Noted
    <3>2. CASE kind[x] # "batch"
      <4>1. ~Stranded(x) /\ ~Stranded(x)'
        BY <1>1, <1>6, <3>2 DEF Stranded
      <4> QED
        BY <1>1, <2>1, <2>2, <2>5, <3>2, <4>1 DEF LeftSingle, Noted
    <3> QED
      BY <3>1, <3>2
  <2> QED
    BY <1>1, <1>2, <1>3, <1>4, <1>6, <2>3, <2>4, <2>6, RecGood
<1> QED
  BY <1>5, <1>6

LEMMA RecoverBatchGood ==
    ASSUME Types, NEW x \in Ids, Good(x), RecoverBatch
    PROVE  Good(x)'
<1>1. PICK p \in BatchLeft : Picks(p, IF Committed(p) THEN "discard" ELSE "restore")
  BY RecoverBatchTypes
<1> QED
  BY <1>1, LeftFacts, PickGood

LEMMA RecoverSingleGood ==
    ASSUME Types, NEW x \in Ids, Good(x), RecoverSingle, ~misled'
    PROVE  Good(x)'
<1>1. PICK p \in SingleLeft : Picks(p, "restore") /\ ~Stranded(p)
  BY RecoverSingleTypes
<1> QED
  BY <1>1, LeftFacts, PickGood

\* Everything that was left is recovered: the library is whole, and the
\* publisher builds on it.
LEMMA RecoveredGood ==
    ASSUME Types, NEW x \in Ids, Good(x), Recovered
    PROVE  \E y \in Ids : Good(y)'
<1>1. /\ Types' /\ UNCHANGED <<disk, kind, used>>
      /\ UNCHANGED <<manifest, script, resources, releases, backup, journal>>
      /\ op.pc = "recover" /\ op.rec = 0 /\ Left \subseteq op.seen
      /\ op.failing => op' = Idle
      /\ ~op.failing => /\ op'.pc = "stage" /\ op'.id = op.id /\ op'.exams = op.exams
                        /\ op'.base = manifest /\ op'.rec = 0 /\ op'.seen = {}
                        /\ op'.had = op.had /\ op'.noted = op.noted /\ op'.todo = op.todo
                        /\ op'.cur = op.cur /\ op'.live = op.live /\ op'.failing = op.failing
  BY RecoveredTypes DEF disk
<1>2. Recovering /\ op.pc # "discard"
  BY <1>1 DEF Recovering, Own, OwnSteps
<1>3. /\ Settled(x) /\ Waiting(x) /\ (x = 0 => InPlace)
      /\ x # 0 => x \in Left /\ x \notin op.seen
      /\ op.id # 0 /\ op.id \in Pubs /\ kind[op.id] \in {"batch", "single"}
  BY <1>1, <1>2, RecOpen
<1>4. x = 0 /\ InPlace
  BY <1>1, <1>3
<1>5. CASE op.failing
  BY <1>1, <1>2, <1>5, StopGood
<1>6. CASE ~op.failing
  <2>1. PICK y : y = op.id
    OBVIOUS
  <2>2. /\ ~op.live /\ backup[y] = NoBackup /\ journal[y] = "none" /\ Foreign(y, manifest)
        /\ kind[y] = "single" => \E e \in Exam : op.exams = {e}
        /\ op.noted = {} /\ op.had = {} /\ op.todo = {} /\ y # 0 /\ y \in Ids
        /\ kind[y] \in {"batch", "single"}
    BY <1>2, <1>3, <1>6, <2>1, OwnPub DEF Waiting, Recovering
  <2>3. /\ backup[y].res = Nothing /\ backup[y].script = 0 /\ backup[y].base = NoManifest
        /\ ~backup[y].dir /\ ~backup[y].state /\ ~backup[y].committed
    BY <2>2 DEF NoBackup
  <2>4. BaseOf(y)' = manifest /\ BaseOf(0) = manifest
    BY <1>1, <2>3 DEF BaseOf, NoManifest
  <2>5. \A e \in Exam : ScriptIn(y, e)' = script[e] /\ ResIn(y, e)' = resources[e]
    BY <1>1, <2>3 DEF ScriptIn, ResIn, Nothing
  <2>6. Restorable(y)' /\ Noted(y)'
    BY <1>1, <1>4, <2>3, <2>4, <2>5 DEF Restorable, InPlace, Fits, Noted, Nothing
  <2>7. Foreign(y, manifest)' /\ Foreign(y, op.base)'
    BY <1>1, <1>6, <2>2 DEF Foreign
  <2>8. OwnOpen(y)'
    <3>1. CASE kind[y] = "batch"
      <4>1. BatchKeeps(y)'
        BY <1>1, <1>6, <2>2, <2>3, <2>6, <2>7 DEF BatchKeeps, NoManifest, Nothing
      <4>2. BatchAt(y)'
        BY <1>1, <1>6, <2>2, <2>3 DEF BatchAt
      <4> QED
        BY <1>1, <1>6, <2>1, <3>1, <4>1, <4>2 DEF OwnOpen
    <3>2. CASE kind[y] = "single"
      <4>1. ~Stranded(y)'
        BY <1>1, <2>3 DEF Stranded
      <4>2. SingleKeeps(y)'
        BY <1>1, <1>6, <2>2, <2>6, <2>7, <3>2, <4>1 DEF SingleKeeps
      <4>3. SingleBase(y)'
        BY <1>1, <1>6, <2>2, <2>3, <2>7 DEF SingleBase
      <4>4. SingleFiles(y)'
        BY <1>1, <1>6, <2>2, <2>3 DEF SingleFiles
      <4> QED
        BY <1>1, <1>6, <2>1, <3>2, <4>2, <4>3, <4>4 DEF OwnOpen
    <3> QED
      BY <2>2, <3>1, <3>2
  <2>9. Own' /\ ~Recovering' /\ op'.rec = 0
    BY <1>1, <1>6 DEF Own, OwnSteps, Recovering
  <2>10. ASSUME NEW p \in Left', p # y
         PROVE  kind'[p] = "batch" /\ (Sure(p, y)' \/ Harmless(p, y)')
    <3>1. p \in Left /\ p \in op.seen /\ p # 0
      BY <1>1, <2>10, LeftFacts DEF Left, BatchLeft, SingleLeft
    <3>2. kind[p] = "batch" /\ (Sure(p, 0) \/ Harmless(p, 0)) /\ ~Ahead(p) /\ ~At("discard")
      BY <1>1, <1>3, <1>4, <3>1 DEF Settled, Ahead, At
    <3>3. CASE Sure(p, 0)
      <4>1. Never(backup[p].base.by, 0) => Never(backup[p].base.by, y)'
        BY <1>1, <1>6, <2>1, <2>2, <2>4 DEF Never
      <4>2. Sure(p, y)'
        BY <1>1, <3>2, <3>3, <4>1 DEF Sure
      <4> QED
        BY <1>1, <3>2, <4>2
    <3>4. CASE Harmless(p, 0)
      BY <1>1, <2>4, <3>2, <3>4 DEF Harmless, Nothing
    <3> QED
      BY <3>2, <3>3, <3>4
  <2>11. Settled(y)'
    BY <1>1, <1>6, <2>10 DEF Settled
  <2>12. Open(y)'
    BY <1>1, <1>6, <2>2, <2>8, <2>9 DEF Open
  <2> QED
    BY <1>1, <2>2, <2>11, <2>12 DEF Good, Ids
<1> QED
  BY <1>5, <1>6

\* Putting files back leaves what the backup and the files hold together.
LEMMA PutsBackKeeps ==
    ASSUME Types, NEW x \in Pubs, x # 0, PutsBack(x),
           backup[x].script # 0 => \E e \in Exam : backup[x].exams = {e}
    PROVE  /\ \A d \in Exam : ScriptIn(x, d)' = ScriptIn(x, d) /\ ResIn(x, d)' = ResIn(x, d)
           /\ \A d \in Exam : backup'[x].res[d] # 0 => backup[x].res[d] # 0
           /\ backup'[x].script # 0 => backup[x].script # 0
           /\ \E d \in backup[x].exams : backup[x].res[d] # 0 \/ backup[x].script # 0
<1>1. backup'[x].exams = backup[x].exams
  BY DEF PutsBack
<1>2. CASE script' = script /\ backup'[x].script = backup[x].script
  <2>1. \A d \in Exam : ScriptIn(x, d)' = ScriptIn(x, d)
    BY <1>1, <1>2 DEF ScriptIn
  <2>2. CASE \E e \in backup[x].exams :
               /\ backup[x].res[e] # 0
               /\ \A d \in Exam : d # e => /\ backup'[x].res[d] = backup[x].res[d]
                                           /\ resources'[d] = resources[d]
               /\ \/ backup'[x].res[e] = backup[x].res[e] /\ resources'[e] = 0
                  \/ backup'[x].res[e] = 0 /\ resources'[e] = backup[x].res[e]
    <3>1. PICK e \in backup[x].exams :
               /\ backup[x].res[e] # 0
               /\ \A d \in Exam : d # e => /\ backup'[x].res[d] = backup[x].res[d]
                                           /\ resources'[d] = resources[d]
               /\ \/ backup'[x].res[e] = backup[x].res[e] /\ resources'[e] = 0
                  \/ backup'[x].res[e] = 0 /\ resources'[e] = backup[x].res[e]
      BY <2>2
    <3>2. ASSUME NEW d \in Exam
          PROVE  ResIn(x, d)' = ResIn(x, d) /\ (backup'[x].res[d] # 0 => backup[x].res[d] # 0)
      <4>1. CASE d = e
        BY <3>1, <4>1 DEF ResIn
      <4>2. CASE d # e
        BY <3>1, <4>2 DEF ResIn
      <4> QED
        BY <4>1, <4>2
    <3> QED
      BY <1>2, <2>1, <3>1, <3>2
  <2>3. CASE resources' = resources /\ backup'[x].res = backup[x].res
             /\ \E e \in backup[x].exams :
                  /\ backup[x].script # 0
                  /\ \A d \in Exam : d # e => script'[d] = script[d]
                  /\ \/ backup'[x].script = backup[x].script /\ script'[e] = 0
                     \/ backup'[x].script = 0 /\ script'[e] = backup[x].script
    BY <1>2, <2>1, <2>3 DEF ResIn
  <2> QED
    BY <1>2, <2>2, <2>3 DEF PutsBack
<1>3. CASE ~(script' = script /\ backup'[x].script = backup[x].script)
  <2>1. resources' = resources /\ backup'[x].res = backup[x].res
    BY <1>3 DEF PutsBack
  <2>2. PICK e \in backup[x].exams :
               /\ backup[x].script # 0
               /\ \A d \in Exam : d # e => script'[d] = script[d]
               /\ \/ backup'[x].script = backup[x].script /\ script'[e] = 0
                  \/ backup'[x].script = 0 /\ script'[e] = backup[x].script
    BY <1>3 DEF PutsBack
  <2>3. backup[x].exams = {e}
    BY <2>2
  <2>4. ASSUME NEW d \in Exam
        PROVE  ScriptIn(x, d)' = ScriptIn(x, d)
    <3>1. CASE d = e
      BY <1>1, <2>2, <2>3, <3>1 DEF ScriptIn
    <3>2. CASE d # e
      BY <1>1, <2>2, <2>3, <3>2 DEF ScriptIn
    <3> QED
      BY <3>1, <3>2
  <2> QED
    BY <2>1, <2>2, <2>4 DEF ResIn
<1> QED
  BY <1>2, <1>3

\* A publication that a recovery puts back, and that is not the open one, has
\* nothing to put back.
LEMMA RestoreOpen ==
    ASSUME Types, NEW x \in Ids, Good(x), op.pc = "restore", op.rec # 0
    PROVE  /\ Recovering /\ op.rec \in Pubs /\ target = op.rec
           /\ op.rec = x => IF kind[x] = "batch" THEN LeftBatch(x) ELSE LeftSingle(x) /\ ~Stranded(x)
           /\ op.rec # x => kind[op.rec] = "batch" /\ Harmless(op.rec, x) /\ backup[op.rec].script = 0
<1>1. Recovering /\ op.rec \in Pubs /\ target = op.rec
  BY OwnPub DEF Recovering, Own, OwnSteps, target
<1>2. op.rec = x => IF kind[x] = "batch" THEN LeftBatch(x) ELSE LeftSingle(x) /\ ~Stranded(x)
  BY <1>1, RecOpen DEF LeftSingle
<1>3. op.rec # x => kind[op.rec] = "batch" /\ Harmless(op.rec, x)
  BY <1>1, RecOpen DEF Settled
<1> QED
  BY <1>1, <1>2, <1>3 DEF Types, DiskTypes

LEMMA RestoreGood ==
    ASSUME Types, NEW x \in Ids, Good(x), Restore
    PROVE  Good(x)'
<1>1. /\ Types' /\ PutsBack(op.rec) /\ op.pc = "restore" /\ op.rec # 0 /\ target = op.rec
      /\ op' = op /\ UNCHANGED <<manifest, releases, journal, kind, used>>
  BY RestoreTypes
<1>2. /\ Recovering /\ Recovering' /\ op.rec \in Pubs
      /\ op.rec = x => IF kind[x] = "batch" THEN LeftBatch(x) ELSE LeftSingle(x) /\ ~Stranded(x)
      /\ op.rec # x => kind[op.rec] = "batch" /\ Harmless(op.rec, x) /\ backup[op.rec].script = 0
  BY <1>1, RestoreOpen DEF Recovering, Own
<1>3. op.rec = x
  <2> SUFFICES ASSUME op.rec # x
               PROVE  FALSE
    OBVIOUS
  <2>1. backup[op.rec].script = 0 /\ backup[op.rec].res = Nothing /\ backup[op.rec].exams \subseteq Exam
    BY <1>2, RecordFacts DEF Harmless
  <2> QED
    BY <1>1, <1>2, <2>1 DEF PutsBack, Nothing
<1>4. /\ Settled(x) /\ Waiting(x) /\ x # 0 /\ x \in Left /\ x \in Pubs /\ op.rec \in op.seen
      /\ ~op.failing => op.id # x
  BY <1>1, <1>2, <1>3, RecOpen
<1>5. backup[x].script # 0 => \E e \in Exam : backup[x].exams = {e}
  BY <1>1, <1>2, <1>3, <1>4 DEF LeftSingle, Types, DiskTypes
<1>6. /\ \A d \in Exam : ScriptIn(x, d)' = ScriptIn(x, d) /\ ResIn(x, d)' = ResIn(x, d)
      /\ \A d \in Exam : backup'[x].res[d] # 0 => backup[x].res[d] # 0
      /\ backup'[x].script # 0 => backup[x].script # 0
  BY <1>1, <1>3, <1>4, <1>5, PutsBackKeeps
<1>7. /\ Only(x) /\ backup'[x].dir = backup[x].dir /\ backup'[x].base = backup[x].base
      /\ backup'[x].state = backup[x].state /\ backup'[x].committed = backup[x].committed
      /\ backup'[x].hadManifest = backup[x].hadManifest /\ backup'[x].exams = backup[x].exams
  BY <1>1, <1>3 DEF PutsBack
<1>8. /\ BaseOf(x)' = BaseOf(x) /\ x \in Left'
      /\ \A p \in Pubs : p # x => backup'[p] = backup[p]
  BY <1>1, <1>4, <1>7 DEF BaseOf, Left, BatchLeft, SingleLeft, Only
<1>9. (Restorable(x) => Restorable(x)') /\ (Noted(x) => Noted(x)')
  BY <1>1, <1>6, <1>7, <1>8, RestorableKept DEF Noted
<1>10. Settled(x)'
  BY <1>1, <1>2, <1>3, <1>4, <1>8, SettledRec
<1>11. Waiting(x)'
  BY <1>1, <1>4, <1>8, RecOpen, <1>2 DEF Waiting, Foreign
<1>12. IF kind'[x] = "batch" THEN LeftBatch(x)' ELSE LeftSingle(x)'
  <2>1. CASE kind[x] = "batch"
    BY <1>1, <1>2, <1>3, <1>7, <1>9, <2>1 DEF LeftBatch, Foreign
  <2>2. CASE kind[x] # "batch"
    <3>1. backup'[x].res \in [Exam -> Ids] /\ backup[x].res \in [Exam -> Ids]
      BY <1>4, <1>7, RecordFacts DEF Only, Backups
    <3>2. backup'[x].res # Nothing => backup[x].res # Nothing
      BY <1>6, <3>1 DEF Nothing
    <3>3. ~Stranded(x)'
      BY <1>1, <1>2, <1>3, <1>6, <1>7, <2>2, <3>2 DEF Stranded
    <3>4. LeftSingle(x) /\ Restorable(x)'
      BY <1>2, <1>3, <1>9, <2>2 DEF LeftSingle
    <3> QED
      BY <1>1, <1>3, <1>6, <1>7, <1>9, <2>2, <3>3, <3>4 DEF LeftSingle
  <2> QED
    BY <2>1, <2>2
<1> QED
  BY <1>1, <1>2, <1>3, <1>4, <1>8, <1>10, <1>11, <1>12, RecGood

\* What did not commit has nothing to put back over the manifest.
LEMMA BatchKeepsManifest ==
    ASSUME Types, NEW x \in Ids, Good(x), op.pc = "restore", op.rec # 0, kind[op.rec] = "batch"
    PROVE  ~PutsBase(op.rec)
<1>1. CASE op.rec = x
  BY <1>1, RestoreOpen DEF LeftBatch, PutsBase
<1>2. CASE op.rec # x
  BY <1>2 DEF Good, Settled, PutsBase
<1> QED
  BY <1>1, <1>2

LEMMA RestoreManifestGood ==
    ASSUME Types, NEW x \in Ids, Good(x), RestoreManifest
    PROVE  \E y \in Ids : Good(y)'
<1>1. /\ Types' /\ op.pc = "restore" /\ op.rec # 0 /\ op.rec \in Pubs
      /\ op'.pc = (IF kind[op.rec] = "batch" THEN "unrelease" ELSE "discard") /\ Stays
      /\ SameButBase(op.rec)
      /\ IF PutsBase(op.rec)
           THEN manifest' = backup[op.rec].base /\ backup'[op.rec].base = NoManifest
           ELSE manifest' = manifest /\ backup' = backup
      /\ \A e \in backup[op.rec].exams : backup[op.rec].res[e] = 0 /\ backup[op.rec].script = 0
      /\ UNCHANGED <<script, resources, releases, journal, kind, used>>
  BY RestoreManifestTypes
<1>2. /\ Recovering
      /\ op.rec = x => IF kind[x] = "batch" THEN LeftBatch(x) ELSE LeftSingle(x) /\ ~Stranded(x)
      /\ op.rec # x => kind[op.rec] = "batch" /\ Harmless(op.rec, x) /\ backup[op.rec].script = 0
  BY <1>1, RestoreOpen
<1>3. /\ Settled(x) /\ Waiting(x) /\ op.rec \in op.seen
      /\ x = 0 => InPlace
      /\ x # 0 => /\ x \in Left /\ x \in Pubs /\ (op.rec = x \/ x \notin op.seen)
                  /\ IF kind[x] = "batch" THEN LeftBatch(x) ELSE LeftSingle(x)
      /\ op.id # 0 /\ op.id \in Pubs
      /\ ~op.failing => op.id \notin Left
  BY <1>1, <1>2, RecOpen
<1>4. /\ Alike(op', op) /\ op'.rec = op.rec /\ op'.seen = op.seen /\ op'.live = op.live
      /\ op'.failing = op.failing /\ op'.cur = op.cur
      /\ Recovering' /\ kind[op.rec] \in {"batch", "single"}
      /\ op.pc # "discard"
  <2>1. kind[op.rec] \in {"batch", "single"}
    BY <1>1 DEF Types, Placed
  <2> QED
    BY <1>1, <2>1 DEF Stays, Recovering, Own, OwnSteps
<1>8. kind[op.rec] = "batch" => UNCHANGED <<manifest, backup>>
  BY <1>1, BatchKeepsManifest
<1>9. kind[op.rec] = "single" => (PutsBase(op.rec) <=> backup[op.rec].base.by # 0)
  BY DEF PutsBase
<1>5. CASE kind[op.rec] = "batch" /\ op.rec # x
  <2>1. /\ UNCHANGED <<manifest, backup>> /\ op'.pc = "unrelease"
        /\ BaseOf(x)' = BaseOf(x) /\ Left' = Left
    BY <1>1, <1>5, <1>8 DEF BaseOf, Left, BatchLeft, SingleLeft
  <2>2. Harmless(op.rec, x)'
    BY <1>1, <1>2, <1>4, <1>5, <2>1 DEF Harmless, Nothing
  <2>3. Settled(x)'
    BY <1>1, <1>2, <1>3, <1>4, <1>5, <2>1, <2>2, SettledRec, ZenonT(60) DEF Alike
  <2>4. Waiting(x)'
    BY <1>1, <1>3, <1>4, <2>1 DEF Waiting, Alike, Foreign
  <2>5. (InPlace => InPlace') /\ (Restorable(x) => Restorable(x)')
    BY <1>1, <2>1, InPlaceKept, RestorableKept DEF ScriptIn, ResIn
  <2>6. ASSUME x # 0
        PROVE  IF kind'[x] = "batch" THEN LeftBatch(x)' ELSE LeftSingle(x)'
    <3>1. CASE kind[x] = "batch"
      BY <1>1, <1>3, <1>4, <1>5, <2>1, <2>5, <2>6, <3>1 DEF LeftBatch, Foreign, Noted
    <3>2. CASE kind[x] # "batch"
      BY <1>1, <1>3, <1>4, <1>5, <2>1, <2>5, <2>6, <3>2 DEF LeftSingle, Stranded, Noted
    <3> QED
      BY <3>1, <3>2
  <2>7. Good(x)'
    BY <1>1, <1>3, <1>4, <1>5, <2>1, <2>3, <2>4, <2>5, <2>6, RecGood
  <2> QED
    BY <1>1, <2>7 DEF Ids
<1>6. CASE kind[op.rec] = "batch" /\ op.rec = x
  <2>1. /\ UNCHANGED <<manifest, backup>> /\ op'.pc = "unrelease" /\ x # 0 /\ x \in Pubs
        /\ LeftBatch(x) /\ backup[x].script = 0 /\ (x # op.id \/ op.failing)
    BY <1>1, <1>2, <1>3, <1>6, <1>8 DEF Types, DiskTypes
  <2>2. /\ Restorable(x) /\ Noted(x) /\ Foreign(x, manifest)
        /\ BaseOf(x) = manifest /\ BaseOf(0)' = manifest
    BY <1>6, <2>1 DEF LeftBatch, BaseOf
  <2>3. backup[x].res = Nothing
    <3>1. \A e \in Exam : backup[x].res[e] = 0
      BY <1>1, <1>6, <2>2 DEF Noted
    <3> QED
      BY <2>1, <3>1, RecordFacts DEF Nothing
  <2>4. InPlace
    <3>1. \A e \in Exam : ScriptIn(x, e) = script[e] /\ ResIn(x, e) = resources[e]
      BY <2>1, <2>3 DEF ScriptIn, ResIn, Nothing
    <3> QED
      BY <2>2, <3>1 DEF InPlace, Restorable
  <2>5. InPlace'
    BY <1>1, <2>1, <2>4, InPlaceKept
  <2>6. Harmless(x, 0)'
    BY <2>1, <2>2, <2>3 DEF Harmless, Foreign, LeftBatch, Nothing
  <2>7. Settled(0)'
    <3>1. /\ UNCHANGED <<manifest, backup, releases, journal, kind>> /\ op'.seen = op.seen
          /\ Settled(x) /\ op'.rec = x /\ kind[x] = "batch" /\ op.rec = x
      BY <1>1, <1>3, <1>4, <1>6, <2>1
    <3>2. Harmless(op.rec, 0)'
      BY <2>6, <3>1 DEF Harmless, Nothing
    <3>3. BaseOf(0)' = BaseOf(x)
      BY <2>2
    <3> QED
      BY <1>2, <1>4, <2>1, <2>6, <3>1, <3>2, <3>3, SettledRec, ZenonT(60) DEF Alike
  <2>8. Waiting(0)'
    <3>1. op.failing => kind[op.id] = "single" /\ journal[op.id] = "closed"
      BY <1>3, <1>6 DEF Waiting
    <3>2. ~op.failing => Foreign(op.id, manifest)
      BY <1>3 DEF Waiting
    <3> QED
      BY <1>1, <1>3, <1>4, <2>1, <2>2, <3>1, <3>2 DEF Waiting, Alike, Foreign
  <2>9. Good(0)'
    BY <1>1, <1>3, <1>4, <2>5, <2>7, <2>8, RecGood, BoundFacts DEF Types
  <2> QED
    BY <1>1, <2>9, BoundFacts DEF Types, Ids
<1>7. CASE kind[op.rec] = "single"
  <2>1. /\ op.rec = x /\ x # 0 /\ x \in Pubs /\ x \in Left /\ LeftSingle(x) /\ ~Stranded(x)
        /\ op'.pc = "discard" /\ kind[x] = "single"
        /\ ~op.failing => op.id # x
    BY <1>1, <1>2, <1>3, <1>7
  <2>2. Restorable(x) /\ Noted(x)
    BY <2>1 DEF LeftSingle
  <2>3. backup[x].res = Nothing /\ backup[x].script = 0
    <3>1. \A e \in Exam : backup[x].res[e] = 0
      BY <1>1, <2>1, <2>2 DEF Noted
    <3>2. backup[x].script = 0
      BY <1>1, <2>1 DEF LeftSingle
    <3> QED
      BY <2>1, <3>1, <3>2, RecordFacts DEF Nothing
  <2>4. /\ backup'[x].res = Nothing /\ backup'[x].script = 0 /\ backup'[x].base.by = 0
        /\ \A p \in Pubs : p # x => backup'[p] = backup[p]
        /\ x \in Left'
    BY <1>1, <1>9, <2>1, <2>3 DEF SameButBase, Only, NoManifest, Left, BatchLeft, SingleLeft
  <2>5. /\ BaseOf(x)' = BaseOf(x) /\ manifest' = BaseOf(x)
        /\ manifest' = manifest \/ manifest'.by # 0
    <3>1. CASE backup[x].base.by # 0
      BY <1>1, <1>9, <2>1, <2>4, <3>1 DEF BaseOf
    <3>2. CASE backup[x].base.by = 0
      BY <1>1, <1>9, <2>1, <2>4, <3>2 DEF BaseOf
    <3> QED
      BY <3>1, <3>2
  <2>6. Restorable(x)'
    <3>1. \A e \in Exam : ScriptIn(x, e)' = ScriptIn(x, e) /\ ResIn(x, e)' = ResIn(x, e)
      BY <1>1, <2>3, <2>4 DEF ScriptIn, ResIn, Nothing
    <3> QED
      BY <1>1, <2>2, <2>5, <3>1, RestorableKept
  <2>7. LeftSingle(x)'
    BY <1>1, <2>1, <2>4, <2>6 DEF LeftSingle, Stranded, Noted, Nothing
  <2>8. Settled(x)'
    <3>1. /\ UNCHANGED <<releases, journal, kind>> /\ op'.seen = op.seen /\ Settled(x)
          /\ op'.pc = "discard"
      BY <1>1, <1>3, <1>4, <2>1
    <3>2. manifest' = manifest \/ (manifest' = BaseOf(x) /\ manifest'.by # 0)
      BY <2>5
    <3> QED
      BY <1>2, <1>4, <2>4, <2>5, <3>1, <3>2, SettledRec DEF Alike
  <2>9. Waiting(x)'
    BY <1>1, <1>3, <1>4, <2>1, <2>4, <2>5 DEF Waiting, Alike, Foreign
  <2>10. Good(x)'
    BY <1>1, <1>3, <1>4, <2>1, <2>4, <2>7, <2>8, <2>9, RecGood
  <2> QED
    BY <1>1, <2>10 DEF Ids
<1> QED
  BY <1>4, <1>5, <1>6, <1>7

\* The scripts of a batch that did not commit are removed: no entry names it.
LEMMA UnreleaseGood ==
    ASSUME Types, NEW x \in Ids, Good(x), Unrelease
    PROVE  \E y \in Ids : Good(y)'
<1>1. /\ Types' /\ op.pc = "unrelease" /\ kind[target] = "batch"
      /\ releases' = releases \ {target}
      /\ op.rec = 0 => op' = Idle
      /\ op.rec # 0 => op'.pc = "discard" /\ Stays
      /\ UNCHANGED <<manifest, script, resources, backup, journal, kind, used>>
  BY UnreleaseTypes
<1>2. CASE op.rec = 0
  <2>1. Own /\ target = op.id /\ kind[op.id] = "batch"
    BY <1>1, <1>2 DEF Own, target
  <2>2. x # 0 /\ x = op.id
    BY <1>1, <2>1 DEF Good, Open, OwnDone, OwnOpen
  <2> QED
    BY <1>1, <1>2, <2>1, <2>2, BatchEnds
<1>3. CASE op.rec # 0
  <2>1. /\ Recovering /\ Recovering' /\ target = op.rec /\ kind[op.rec] = "batch"
        /\ Alike(op', op) /\ op'.rec = op.rec /\ op'.seen = op.seen /\ op'.live = op.live
        /\ op'.failing = op.failing /\ op'.cur = op.cur /\ op'.pc = "discard"
        /\ op.pc # "discard"
    BY <1>1, <1>3 DEF Recovering, Own, OwnSteps, target, Stays
  <2>2. /\ Settled(x) /\ Waiting(x) /\ op.rec \in op.seen
        /\ x = 0 => InPlace
        /\ x # 0 => /\ x \in Left /\ x \in Pubs /\ (op.rec = x \/ x \notin op.seen)
                    /\ IF kind[x] = "batch" THEN LeftBatch(x) ELSE LeftSingle(x)
        /\ op.id # 0 /\ op.id \in Pubs
    BY <1>3, <2>1, RecOpen
  <2>3. op.rec # x
    BY <1>1, <1>3, <2>1, <2>2 DEF LeftBatch
  <2>4. Harmless(op.rec, x)
    BY <1>1, <1>3, <2>2, <2>3 DEF Settled
  <2>5. BaseOf(x)' = BaseOf(x) /\ Left' = Left
    BY <1>1 DEF BaseOf, Left, BatchLeft, SingleLeft
  <2>6. \A e \in Exam : manifest.entry[e] # op.rec /\ BaseOf(x).entry[e] # op.rec
    BY <2>4 DEF Harmless
  <2>7. InPlace => InPlace'
    BY <1>1, <2>1, <2>6 DEF InPlace, Fits
  <2>8. Restorable(x) => Restorable(x)'
    BY <1>1, <2>1, <2>5, <2>6 DEF Restorable, Fits, ScriptIn, ResIn
  <2>9. PICK t : t = op.rec
    OBVIOUS
  <2>10. Harmless(t, x)'
    BY <1>1, <2>4, <2>5, <2>9 DEF Harmless, Nothing
  <2>11. Settled(x)'
    BY <1>1, <2>1, <2>2, <2>3, <2>5, <2>9, <2>10, SettledRec, ZenonT(60) DEF Alike
  <2>12. Waiting(x)'
    BY <1>1, <2>1, <2>2, <2>5 DEF Waiting, Alike, Foreign
  <2>13. ASSUME x # 0
         PROVE  IF kind'[x] = "batch" THEN LeftBatch(x)' ELSE LeftSingle(x)'
    <3>1. CASE kind[x] = "batch"
      BY <1>1, <2>1, <2>2, <2>3, <2>8, <2>13, <3>1 DEF LeftBatch, Foreign, Noted
    <3>2. CASE kind[x] # "batch"
      BY <1>1, <2>1, <2>2, <2>3, <2>7, <2>8, <2>13, <3>2 DEF LeftSingle, Stranded, Noted
    <3> QED
      BY <3>1, <3>2
  <2>14. Good(x)'
    BY <1>1, <2>1, <2>2, <2>3, <2>5, <2>7, <2>11, <2>12, <2>13, RecGood
  <2> QED
    BY <1>1, <2>14 DEF Ids
<1> QED
  BY <1>2, <1>3

-------------------------------------------------------------------------------
(* A backup directory is removed *)

\* The publisher removes the backup of its own publication.
LEMMA OwnDiscard ==
    ASSUME Types, NEW x \in Ids, Good(x), op.pc = "discard", op.rec = 0
    PROVE  /\ Own /\ target = op.id /\ op.id \in Pubs /\ op.id \in Ids /\ op.id # 0
           /\ Settled(x) /\ op.seen = {}
           /\ x = 0 => OwnDone
           /\ x # 0 => x = op.id /\ OwnOpen(x)
<1>1. Own
  BY DEF Own
<1> QED
  BY <1>1, OwnFacts DEF Good, Open, OwnOpen

\* The publisher removes the backup of a publication it recovers: one that is
\* taken back entirely, or one that is not open.
LEMMA RecDiscard ==
    ASSUME Types, NEW x \in Ids, Good(x), op.pc = "discard", op.rec # 0
    PROVE  /\ Recovering /\ target = op.rec /\ op.rec \in Pubs /\ op.rec \in op.seen
           /\ op.rec = x => /\ kind[x] = "single" /\ LeftSingle(x)
                            /\ backup[x].base.by = 0 /\ backup[x].script = 0 /\ backup[x].res = Nothing
<1>1. Recovering /\ target = op.rec /\ op.rec \in Pubs /\ kind[op.rec] \in {"batch", "single"}
  BY OwnPub DEF Recovering, Own, OwnSteps, target
<1>2. op.rec \in op.seen
  BY <1>1, RecOpen
<1>3. op.rec = x => IF kind[x] = "batch" THEN LeftBatch(x) ELSE LeftSingle(x)
  BY <1>1, RecOpen
<1>4. op.rec = x => kind[x] # "batch"
  BY <1>3 DEF LeftBatch
<1> QED
  BY <1>1, <1>2, <1>3, <1>4 DEF LeftSingle

LEMMA DropPartGood ==
    ASSUME Types, NEW x \in Ids, Good(x), DropPart
    PROVE  Good(x)'
<1>1. /\ Types' /\ op.pc = "discard" /\ DropsPart(target) /\ op' = op
      /\ UNCHANGED <<manifest, script, resources, releases, journal, kind, used>>
  BY DropPartTypes
<1>2. PICK t : t = target
  OBVIOUS
<1>3. /\ Only(t) /\ backup'[t].dir = backup[t].dir /\ backup'[t].committed = backup[t].committed
      /\ backup'[t].hadManifest = backup[t].hadManifest /\ backup'[t].exams = backup[t].exams
      /\ backup'[t].state => backup[t].state
      /\ backup'[t].base = backup[t].base \/ backup'[t].base = NoManifest
      /\ backup'[t].res = backup[t].res \/ backup'[t].res = Nothing
      /\ backup'[t].script = backup[t].script \/ backup'[t].script = 0
      /\ \A p \in Pubs : p # t => backup'[p] = backup[p]
  BY <1>1, <1>2 DEF DropsPart, Only
<1>4. CASE op.rec = 0 /\ x = 0
  <2>1. /\ Own /\ t = op.id /\ t \in Pubs /\ t \in Ids /\ t # 0 /\ Settled(0) /\ op.seen = {} /\ OwnDone
    BY <1>1, <1>2, <1>4, OwnDiscard
  <2>2. Own' /\ OwnDone'
    BY <1>1, <2>1, InPlaceKept DEF Own, OwnDone
  <2>3. ASSUME t \in Left'
        PROVE  kind[t] = "batch" /\ (Sure(t, 0)' \/ Harmless(t, 0)')
    <3>1. kind[t] = "batch" /\ backup'[t].state /\ t \in Left /\ manifest.by = t
      BY <1>1, <1>3, <2>1, <2>3 DEF Left, BatchLeft, SingleLeft, OwnDone
    <3>2. Sure(t, 0) \/ Harmless(t, 0)
      BY <2>1, <3>1 DEF Settled
    <3>3. At("discard")' /\ target' = t /\ BaseOf(0)' = BaseOf(0)
      BY <1>1, <1>2 DEF At, target, BaseOf
    <3>4. Sure(t, 0) => Sure(t, 0)'
      BY <1>1, <1>3, <3>3 DEF Sure, Never, NoManifest
    <3>5. Harmless(t, 0) => Harmless(t, 0)'
      BY <1>1, <1>3, <3>3 DEF Harmless, NoManifest, Nothing
    <3> QED
      BY <3>1, <3>2, <3>4, <3>5
  <2>4. Settled(0)'
    BY <1>1, <1>3, <2>1, <2>2, <2>3, SettledDone
  <2>5. Open(0)'
    BY <1>1, <2>1, <2>2, <1>4 DEF Open, Recovering
  <2> QED
    BY <1>1, <1>4, <2>4, <2>5, BoundFacts DEF Good, Types, Ids
<1>5. CASE op.rec = 0 /\ x # 0
  <2>1. /\ Own /\ t = x /\ x = op.id /\ x \in Pubs /\ OwnOpen(x) /\ kind[x] \in {"batch", "single"}
        /\ backup[x].res \in [Exam -> Ids]
    BY <1>1, <1>2, <1>5, OwnDiscard, OwnFacts, RecordFacts, OwnPub
  <2>2. CASE kind[x] = "batch"
    <3>1. BatchKeeps(x) /\ BatchAt(x) /\ backup[x].res = Nothing /\ backup[x].dir /\ backup[x].script = 0
      BY <1>1, <2>1, <2>2 DEF OwnOpen, BatchAt, Types, DiskTypes
    <3>2. backup'[x].res = Nothing /\ backup'[x].script = 0 /\ backup'[x].dir
      BY <1>3, <2>1, <3>1
    <3>3. Restorable(x)' /\ BaseOf(x)' = BaseOf(x)
      BY <1>1, <2>2, <3>1, <3>2, BatchParts, SameBack
    <3>4. Noted(x)'
      BY <3>2 DEF Noted, Nothing
    <3>5. BatchKeeps(x)'
      BY <1>1, <1>3, <2>1, <3>1, <3>2, <3>3, <3>4
         DEF BatchKeeps, Foreign, NoManifest, Nothing
    <3>6. BatchAt(x)'
      BY <1>1, <3>1, <3>2 DEF BatchAt
    <3>7. Own' /\ OwnOpen(x)'
      BY <1>1, <2>1, <2>2, <3>5, <3>6 DEF Own, OwnOpen
    <3> QED
      BY <1>1, <1>3, <2>1, <3>3, <3>7, OwnGood
  <2>3. CASE kind[x] = "single"
    <3>1. /\ SingleKeeps(x) /\ SingleBase(x) /\ SingleFiles(x)
          /\ backup[x].res = Nothing /\ backup[x].script = 0
          /\ backup[x].base.by # 0 => manifest = backup[x].base
      BY <1>1, <2>1, <2>3 DEF OwnOpen, SingleBase, SingleFiles
    <3>2. backup'[x].res = Nothing /\ backup'[x].script = 0
      BY <1>3, <2>1, <3>1
    <3>3. /\ ~Stranded(x) /\ ~Stranded(x)' /\ Restorable(x) /\ BaseOf(x) = manifest
          /\ BaseOf(x)' = manifest
      BY <1>1, <1>3, <2>1, <3>1, <3>2 DEF Stranded, SingleKeeps, BaseOf, NoManifest
    <3>4. \A e \in Exam : ScriptIn(x, e)' = ScriptIn(x, e) /\ ResIn(x, e)' = ResIn(x, e)
      BY <1>1, <3>1, <3>2 DEF ScriptIn, ResIn, Nothing
    <3>5. Restorable(x)' /\ Noted(x)'
      BY <1>1, <3>2, <3>3, <3>4, RestorableKept DEF Noted, Nothing
    <3>6. SingleKeeps(x)'
      BY <1>1, <3>1, <3>3, <3>5 DEF SingleKeeps, Foreign
    <3>7. SingleBase(x)'
      BY <1>1, <1>3, <2>1, <3>1 DEF SingleBase, NoManifest
    <3>8. SingleFiles(x)'
      BY <1>1, <3>1, <3>2 DEF SingleFiles
    <3>9. Own' /\ OwnOpen(x)'
      BY <1>1, <2>1, <2>3, <3>6, <3>7, <3>8 DEF Own, OwnOpen
    <3> QED
      BY <1>1, <1>3, <2>1, <3>3, <3>9, OwnGood
  <2> QED
    BY <2>1, <2>2, <2>3
<1>6. CASE op.rec # 0
  <2>1. /\ Recovering /\ t = op.rec /\ t \in Pubs /\ op.rec \in op.seen /\ Recovering'
        /\ t = x => /\ kind[x] = "single" /\ LeftSingle(x)
                    /\ backup[x].base.by = 0 /\ backup[x].script = 0 /\ backup[x].res = Nothing
    BY <1>1, <1>2, <1>6, RecDiscard DEF Recovering, Own
  <2>2. /\ Settled(x) /\ Waiting(x)
        /\ x = 0 => InPlace
        /\ x # 0 => /\ x \in Left /\ x \in Pubs /\ (op.rec = x \/ x \notin op.seen)
                    /\ IF kind[x] = "batch" THEN LeftBatch(x) ELSE LeftSingle(x)
        /\ op.id \in Pubs /\ (~op.failing => op.id \notin Left)
    BY <2>1, RecOpen
  <2>3. /\ t = x => backup'[x].base.by = 0 /\ backup'[x].script = 0 /\ backup'[x].res = Nothing
    BY <1>3, <2>1 DEF NoManifest
  <2>4. BaseOf(x)' = BaseOf(x)
    BY <1>1, <1>3, <2>1, <2>2, <2>3 DEF BaseOf
  <2>5. \A e \in Exam : ScriptIn(x, e)' = ScriptIn(x, e) /\ ResIn(x, e)' = ResIn(x, e)
    BY <1>1, <1>3, <2>1, <2>2, <2>3 DEF ScriptIn, ResIn, Nothing
  <2>6. (InPlace => InPlace') /\ (Restorable(x) => Restorable(x)')
    BY <1>1, <2>4, <2>5, InPlaceKept, RestorableKept
  <2>7. ASSUME t \in Left', t # x
        PROVE  kind[t] = "batch" /\ (Sure(t, x)' \/ Harmless(t, x)')
    <3>1. t \in Left
      BY <1>1, <1>3, <2>7 DEF Left, BatchLeft, SingleLeft
    <3>2. kind[t] = "batch" /\ (Sure(t, x) \/ Harmless(t, x))
      BY <2>2, <2>7, <3>1 DEF Settled
    <3>3. At("discard")' /\ target' = t
      BY <1>1, <1>2 DEF At, target
    <3>4. Sure(t, x) => Sure(t, x)'
      BY <1>1, <1>3, <2>4, <3>3 DEF Sure, Never, NoManifest
    <3>5. Harmless(t, x) => Harmless(t, x)'
      BY <1>1, <1>3, <2>4 DEF Harmless, NoManifest, Nothing
    <3> QED
      BY <3>2, <3>4, <3>5
  <2>8. Settled(x)'
    BY <1>1, <1>2, <1>3, <2>1, <2>2, <2>4, <2>7, SettledRec
  <2>9. Waiting(x)'
    <3>1. ~op.failing => backup'[op.id] = NoBackup
      <4>1. ~op.failing => backup[op.id] = NoBackup
        BY <2>2 DEF Waiting
      <4>2. CASE op.id = t
        <5>1. ~op.failing => op.id \notin op.seen
          BY <2>2 DEF Waiting
        <5> QED
          BY <2>1, <4>2, <5>1
      <4> QED
        BY <1>3, <2>2, <4>1, <4>2
    <3> QED
      BY <1>1, <2>2, <2>4, <3>1 DEF Waiting, Foreign
  <2>10. ASSUME x # 0
         PROVE  x \in Left' /\ IF kind'[x] = "batch" THEN LeftBatch(x)' ELSE LeftSingle(x)'
    <3>1. CASE t = x
      <4>1. LeftSingle(x) /\ x \in Left /\ kind[x] = "single"
        BY <2>1, <2>2, <2>10, <3>1
      <4>2. ~Stranded(x) /\ ~Stranded(x)' /\ Restorable(x)'
        BY <1>1, <2>1, <2>3, <2>6, <3>1, <4>1 DEF Stranded, LeftSingle
      <4>3. LeftSingle(x)'
        BY <1>1, <2>3, <3>1, <4>1, <4>2 DEF LeftSingle, Noted, Nothing
      <4>4. x \in Left'
        BY <1>1, <4>1 DEF Left, SingleLeft, BatchLeft
      <4> QED
        BY <1>1, <4>1, <4>3, <4>4
    <3>2. CASE t # x
      <4>1. backup'[x] = backup[x] /\ x \in Left'
        BY <1>1, <1>3, <2>2, <2>10, <3>2 DEF Left, SingleLeft, BatchLeft
      <4>2. CASE kind[x] = "batch"
        BY <1>1, <2>2, <2>6, <2>10, <4>1, <4>2 DEF LeftBatch, Foreign, Noted
      <4>3. CASE kind[x] # "batch"
        BY <1>1, <2>2, <2>6, <2>10, <4>1, <4>3 DEF LeftSingle, Stranded, Noted
      <4> QED
        BY <4>1, <4>2, <4>3
    <3> QED
      BY <3>1, <3>2
  <2> QED
    BY <1>1, <2>1, <2>2, <2>6, <2>8, <2>9, <2>10, RecGood
<1> QED
  BY <1>4, <1>5, <1>6

\* The backup of what was left is gone: its recovery is over.
LEMMA RecDiscardedGood ==
    ASSUME Types, NEW x \in Ids, Good(x), Discarded, op.rec # 0
    PROVE  \E y \in Ids : Good(y)'
<1>1. /\ Types' /\ op.pc = "discard" /\ op' = AfterDiscard
      /\ Only(target) /\ backup'[target] = NoBackup
      /\ \A p \in Pubs : p # target => journal'[p] = journal[p]
      /\ journal'[target] = (IF kind[target] = "single" /\ op.rec # 0 THEN "closed"
                             ELSE journal[target])
      /\ UNCHANGED <<manifest, script, resources, releases, kind, used>>
  BY DiscardedTypes
<1>2. /\ op'.pc = "recover" /\ Alike(op', op) /\ op'.rec = 0 /\ op'.cur = op.cur
      /\ op'.seen = op.seen /\ op'.live = op.live /\ op'.failing = op.failing
  BY <1>1, AfterTypes
<1>3. PICK t : t = op.rec
  OBVIOUS
<1>4. /\ Recovering /\ target = t /\ t \in Pubs /\ t \in op.seen /\ t # 0 /\ kind[t] \in {"batch", "single"}
      /\ t = x => /\ kind[x] = "single" /\ LeftSingle(x)
                  /\ backup[x].base.by = 0 /\ backup[x].script = 0 /\ backup[x].res = Nothing
  BY <1>1, <1>3, RecDiscard DEF Types, Placed
<1>5. /\ Settled(x) /\ Waiting(x)
      /\ x = 0 => InPlace
      /\ x # 0 => /\ x \in Left /\ x \in Pubs /\ (t = x \/ x \notin op.seen)
                  /\ IF kind[x] = "batch" THEN LeftBatch(x) ELSE LeftSingle(x)
      /\ op.id \in Pubs /\ (~op.failing => op.id \notin Left)
  BY <1>3, <1>4, RecOpen
<1>6. Recovering'
  BY <1>2 DEF Recovering, Own, OwnSteps
<1>7. /\ backup'[t] = NoBackup /\ (kind[t] = "single" => journal'[t] = "closed")
      /\ \A p \in Pubs : p # t => backup'[p] = backup[p] /\ journal'[p] = journal[p]
      /\ t \notin Left'
  <2>1. /\ backup'[t] = NoBackup /\ (kind[t] = "single" => journal'[t] = "closed")
        /\ \A p \in Pubs : p # t => backup'[p] = backup[p] /\ journal'[p] = journal[p]
    BY <1>1, <1>3, <1>4 DEF Only
  <2> QED
    BY <1>1, <1>4, <2>1 DEF Left, BatchLeft, SingleLeft, NoBackup
<1>8. InPlace => InPlace'
  BY <1>1, InPlaceKept
<1>9. ~op.failing => /\ op.id # t /\ backup'[op.id] = backup[op.id] /\ journal'[op.id] = journal[op.id]
  BY <1>4, <1>5, <1>7 DEF Waiting
<1>10. CASE t = x
  <2>1. /\ x # 0 /\ kind[x] = "single" /\ ~Stranded(x) /\ BaseOf(x) = manifest /\ BaseOf(0)' = manifest
        /\ Restorable(x)
    BY <1>1, <1>4, <1>10 DEF Stranded, LeftSingle, BaseOf
  <2>2. \A e \in Exam : ScriptIn(x, e) = script[e] /\ ResIn(x, e) = resources[e]
    BY <1>4, <1>10 DEF ScriptIn, ResIn, Nothing
  <2>3. InPlace
    BY <2>1, <2>2 DEF InPlace, Restorable
  <2>4. Settled(0)'
    <3>1. /\ UNCHANGED <<manifest, releases, kind>> /\ op'.pc = "recover" /\ op'.seen = op.seen
          /\ op'.live = op.live /\ op'.base = op.base /\ op'.id = op.id
      BY <1>1, <1>2 DEF Alike
    <3>2. /\ Settled(x) /\ BaseOf(0)' = BaseOf(x) /\ target = x /\ x \notin Left'
          /\ \A p \in Pubs : p # x => backup'[p] = backup[p] /\ journal'[p] = journal[p]
      BY <1>4, <1>5, <1>7, <1>10, <2>1
    <3> QED
      BY <1>4, <1>6, <3>1, <3>2, SettledRec, ZenonT(60)
  <2>5. Waiting(0)'
    <3>1. op.failing => op.live /\ kind[op.id] = "single" /\ journal'[op.id] = "closed"
      BY <1>4, <1>5, <1>7, <1>10 DEF Waiting
    <3> QED
      BY <1>1, <1>2, <1>5, <1>9, <2>1, <3>1 DEF Waiting, Alike, Foreign
  <2>6. Good(0)'
    BY <1>1, <1>2, <1>6, <1>8, <2>3, <2>4, <2>5, RecGood, BoundFacts DEF Types
  <2> QED
    BY <1>1, <2>6, BoundFacts DEF Types, Ids
<1>11. CASE t # x
  <2>1. /\ BaseOf(x)' = BaseOf(x)
        /\ x # 0 => backup'[x] = backup[x] /\ journal'[x] = journal[x] /\ x \in Left'
    <3>1. x # 0 => backup'[x] = backup[x] /\ journal'[x] = journal[x]
      BY <1>5, <1>7, <1>11
    <3> QED
      BY <1>1, <1>5, <3>1 DEF BaseOf, Left, BatchLeft, SingleLeft
  <2>2. \A e \in Exam : ScriptIn(x, e)' = ScriptIn(x, e) /\ ResIn(x, e)' = ResIn(x, e)
    BY <1>1, <2>1 DEF ScriptIn, ResIn
  <2>3. Restorable(x) => Restorable(x)'
    BY <1>1, <2>1, <2>2, RestorableKept
  <2>4. Settled(x)'
    BY <1>1, <1>2, <1>4, <1>5, <1>6, <1>7, <1>11, <2>1, SettledRec DEF Alike
  <2>5. Waiting(x)'
    <3>1. op.failing => x = op.id \/ journal'[op.id] = "closed"
      BY <1>5, <1>7 DEF Waiting
    <3> QED
      BY <1>1, <1>2, <1>5, <1>9, <2>1, <3>1 DEF Waiting, Alike, Foreign
  <2>6. ASSUME x # 0
        PROVE  IF kind'[x] = "batch" THEN LeftBatch(x)' ELSE LeftSingle(x)'
    <3>1. CASE kind[x] = "batch"
      BY <1>1, <1>2, <1>3, <1>5, <1>11, <2>1, <2>3, <2>6, <3>1 DEF LeftBatch, Foreign, Noted
    <3>2. CASE kind[x] # "batch"
      BY <1>1, <1>2, <1>3, <1>5, <1>8, <1>11, <2>1, <2>3, <2>6, <3>2 DEF LeftSingle, Stranded, Noted
    <3> QED
      BY <3>1, <3>2
  <2>7. Good(x)'
    BY <1>1, <1>2, <1>5, <1>6, <1>8, <1>11, <2>1, <2>4, <2>5, <2>6, RecGood
  <2> QED
    BY <1>1, <2>7 DEF Ids
<1> QED
  BY <1>10, <1>11

\* The backup of the publisher's own publication is gone.
LEMMA OwnDiscardedGood ==
    ASSUME Types, NEW x \in Ids, Good(x), Discarded, op.rec = 0
    PROVE  \E y \in Ids : Good(y)'
<1>1. /\ Types' /\ op.pc = "discard" /\ op' = AfterDiscard
      /\ Only(target) /\ backup'[target] = NoBackup
      /\ backup[target].base.by = 0 /\ backup[target].res = Nothing
      /\ backup[target].script = 0 /\ ~backup[target].state
      /\ \A p \in Pubs : p # target => journal'[p] = journal[p]
      /\ journal'[target] = journal[target]
      /\ UNCHANGED <<manifest, script, resources, releases, kind, used>>
  BY DiscardedTypes
<1>2. /\ kind[op.id] = "batch" /\ op.failing => op'.pc = "unrelease" /\ Stays
      /\ ~(kind[op.id] = "batch" /\ op.failing) => op' = Idle
  BY <1>1, AfterTypes
<1>3. /\ Own /\ target = op.id /\ op.id \in Pubs /\ op.id \in Ids /\ op.id # 0
      /\ Settled(x) /\ op.seen = {} /\ kind[op.id] \in {"batch", "single"}
      /\ x = 0 => OwnDone
      /\ x # 0 => x = op.id /\ OwnOpen(x)
  BY <1>1, OwnDiscard, OwnPub
<1>4. UNCHANGED journal
  BY <1>1 DEF Types, DiskTypes
<1>5. backup'[op.id] = NoBackup /\ \A p \in Pubs : p # op.id => backup'[p] = backup[p]
  BY <1>1, <1>3 DEF Only
<1>6. CASE x = 0
  <2>1. op' = Idle
    BY <1>2, <1>3, <1>6 DEF OwnDone
  <2>2. Good(0)'
    BY <1>1, <1>3, <1>4, <1>5, <1>6, <2>1, DoneEnds DEF NoBackup
  <2> QED
    BY <1>1, <2>2, BoundFacts DEF Types, Ids
<1>7. CASE x # 0 /\ kind[op.id] = "batch"
  <2>1. /\ BatchKeeps(x) /\ BatchAt(x) /\ x = op.id /\ kind[x] = "batch" /\ x \in Pubs
        /\ backup[x].script = 0 /\ backup[x].res = Nothing /\ op.rec = 0
    BY <1>1, <1>3, <1>7 DEF OwnOpen
  <2>2. op.failing /\ op'.pc = "unrelease" /\ Stays /\ Alike(op', op)
    BY <1>1, <1>2, <1>7, <2>1 DEF BatchAt, Stays
  <2>3. /\ backup'[x].res = Nothing /\ backup'[x].script = 0 /\ backup'[x] = NoBackup
        /\ ~backup'[x].dir /\ ~backup'[x].state /\ ~backup'[x].committed
    BY <1>5, <2>1 DEF NoBackup
  <2>4. Restorable(x)' /\ BaseOf(x)' = BaseOf(x)
    BY <1>1, <2>1, <2>3, BatchParts, SameBack
  <2>5. Noted(x)'
    BY <2>3 DEF Noted, Nothing
  <2>6. BatchKeeps(x)'
    BY <1>1, <2>1, <2>2, <2>3, <2>4, <2>5
       DEF BatchKeeps, Foreign, NoBackup, NoManifest, Nothing, Stays, Alike
  <2>7. BatchAt(x)'
    BY <1>1, <2>1, <2>2, <2>3 DEF BatchAt, Stays, Alike
  <2>8. Own' /\ OwnOpen(x)'
    BY <1>1, <2>1, <2>2, <2>6, <2>7 DEF Own, OwnOpen, Stays, Alike
  <2>9. Good(x)'
    BY <1>1, <1>3, <1>4, <1>5, <2>1, <2>2, <2>4, <2>8, OwnGood DEF Stays, Alike
  <2> QED
    BY <1>1, <2>9 DEF Ids
<1>8. CASE x # 0 /\ kind[op.id] = "single"
  <2>1. /\ SingleKeeps(x) /\ SingleBase(x) /\ SingleFiles(x) /\ x = op.id /\ kind[x] = "single"
        /\ x \in Pubs /\ op' = Idle /\ op.pc # "idle" /\ target = x
        /\ backup[x].script = 0 /\ backup[x].res = Nothing /\ backup[x].base.by = 0
    BY <1>1, <1>2, <1>3, <1>8 DEF OwnOpen
  <2>2. /\ backup'[x].res = Nothing /\ backup'[x].script = 0 /\ backup'[x].base = NoManifest
        /\ backup'[x].base.by = 0
    BY <1>5, <2>1 DEF NoBackup, NoManifest
  <2>3. BaseOf(x)' = BaseOf(x) /\ ~Stranded(x) /\ ~Stranded(x)' /\ Restorable(x)
    BY <1>1, <2>1, <2>2 DEF BaseOf, Stranded, SingleKeeps
  <2>4. \A e \in Exam : ScriptIn(x, e)' = ScriptIn(x, e) /\ ResIn(x, e)' = ResIn(x, e)
    BY <1>1, <2>1, <2>2 DEF ScriptIn, ResIn, Nothing
  <2>5. Restorable(x)'
    BY <1>1, <2>3, <2>4, RestorableKept
  <2>6. op'.rec = 0
    BY <2>1, IdleFacts
  <2>7. LeftSingle(x)'
    BY <1>3, <1>8, <2>2, <2>3, <2>5, <2>6 DEF LeftSingle, Noted, Nothing
  <2>8. x \in Left'
    BY <1>1, <1>4, <2>1 DEF Left, SingleLeft, SingleKeeps
  <2>9. Settled(x)'
    BY <1>1, <1>3, <1>4, <1>5, <2>1, <2>3, SettledEnd
  <2>10. Good(x)'
    BY <1>1, <1>8, <2>1, <2>7, <2>8, <2>9, IdleGood
  <2> QED
    BY <1>1, <2>10 DEF Ids
<1> QED
  BY <1>3, <1>6, <1>7, <1>8

\* A file of a backup cannot be removed.
LEMMA DiscardFailsGood ==
    ASSUME Types, NEW x \in Ids, Good(x), DiscardFails, ~misled'
    PROVE  \E y \in Ids : Good(y)'
<1>1. /\ Types' /\ op.pc = "discard" /\ UNCHANGED <<disk, kind, used>>
      /\ UNCHANGED <<manifest, script, resources, releases, backup, journal>>
      /\ IF op.rec # 0 /\ kind[op.rec] = "single" THEN op' = Idle ELSE op' = AfterDiscard
      /\ kind[target] = "batch" /\ backup[target].state =>
           backup[target].committed \/ backup[target].base.by # 0
  BY DiscardFailsTypes DEF disk
<1>2. CASE op.rec = 0
  <2>1. /\ Own /\ op.id \in Pubs /\ op.id \in Ids /\ op.id # 0
        /\ Settled(x) /\ op.seen = {} /\ kind[op.id] \in {"batch", "single"}
        /\ x = 0 => OwnDone
        /\ x # 0 => x = op.id /\ OwnOpen(x)
    BY <1>1, <1>2, OwnDiscard, OwnPub
  <2>2. /\ kind[op.id] = "batch" /\ op.failing => op'.pc = "unrelease" /\ Stays
        /\ ~(kind[op.id] = "batch" /\ op.failing) => op' = Idle
    BY <1>1, <1>2, AfterTypes
  <2>3. CASE x = 0
    <3>1. op' = Idle
      BY <2>1, <2>2, <2>3 DEF OwnDone
    <3>2. Good(0)'
      BY <1>1, <2>1, <2>3, <3>1, DoneEnds
    <3> QED
      BY <1>1, <3>2, BoundFacts DEF Types, Ids
  <2>4. CASE x # 0 /\ kind[op.id] = "batch"
    <3>1. /\ BatchKeeps(x) /\ BatchAt(x) /\ x = op.id /\ kind[x] = "batch" /\ x \in Pubs
          /\ backup[x].script = 0 /\ backup[x].res = Nothing /\ op.rec = 0
      BY <1>1, <1>2, <2>1, <2>4 DEF OwnOpen, BatchAt, Types, DiskTypes
    <3>2. op.failing /\ op'.pc = "unrelease" /\ Stays /\ Alike(op', op)
      BY <1>1, <2>2, <2>4, <3>1 DEF BatchAt, Stays
    <3>3. Restorable(x)' /\ BaseOf(x)' = BaseOf(x)
      BY <1>1, <3>1, BatchParts, SameBack
    <3>4. BatchKeeps(x)'
      BY <1>1, <3>1, <3>2, <3>3 DEF BatchKeeps, Foreign, Noted, Stays, Alike
    <3>5. BatchAt(x)'
      BY <1>1, <3>1, <3>2 DEF BatchAt, Stays, Alike
    <3>6. Own' /\ OwnOpen(x)'
      BY <1>1, <3>1, <3>2, <3>4, <3>5 DEF Own, OwnOpen, Stays, Alike
    <3>7. Good(x)'
      BY <1>1, <2>1, <3>1, <3>2, <3>3, <3>6, OwnGood DEF Stays, Alike
    <3> QED
      BY <1>1, <3>7 DEF Ids
  <2>5. CASE x # 0 /\ kind[op.id] = "single"
    BY <1>1, <2>1, <2>2, <2>5, SingleEnds
  <2> QED
    BY <2>1, <2>3, <2>4, <2>5
<1>3. CASE op.rec # 0 /\ kind[op.rec] = "single"
  <2>1. Recovering
    BY <1>1, <1>3, RecDiscard
  <2>2. Good(x)'
    BY <1>1, <1>3, <2>1, StopGood
  <2> QED
    BY <1>1, <2>2 DEF Ids
<1>4. CASE op.rec # 0 /\ kind[op.rec] # "single"
  <2>1. PICK t : t = op.rec
    OBVIOUS
  <2>2. /\ Recovering /\ target = t /\ t \in Pubs /\ t \in op.seen /\ t # 0 /\ t # x
    BY <1>1, <1>4, <2>1, RecDiscard
  <2>3. /\ op'.pc = "recover" /\ Alike(op', op) /\ op'.rec = 0 /\ op'.cur = op.cur
        /\ op'.seen = op.seen /\ op'.live = op.live /\ op'.failing = op.failing
    BY <1>1, <1>4, AfterTypes
  <2>4. /\ Settled(x) /\ Waiting(x)
        /\ x = 0 => InPlace
        /\ x # 0 => /\ x \in Left /\ x \in Pubs /\ x \notin op.seen
                    /\ IF kind[x] = "batch" THEN LeftBatch(x) ELSE LeftSingle(x)
    BY <1>4, <2>1, <2>2, RecOpen
  <2>5. Recovering'
    BY <2>3 DEF Recovering, Own, OwnSteps
  <2>6. BaseOf(x)' = BaseOf(x) /\ Left' = Left
    BY <1>1 DEF BaseOf, Left, BatchLeft, SingleLeft
  <2>7. ASSUME t \in Left
        PROVE  kind[t] = "batch" /\ (Sure(t, x)' \/ Harmless(t, x)')
    <3>1. kind[t] = "batch" /\ (Sure(t, x) \/ Harmless(t, x)) /\ backup[t].state
      BY <2>2, <2>4, <2>7, LeftFacts DEF Settled, Left
    <3>2. backup[t].committed \/ backup[t].base.by # 0
      BY <1>1, <2>2, <3>1
    <3>3. Sure(t, x) => Sure(t, x)'
      BY <1>1, <2>3, <2>6, <3>2 DEF Sure, Never, Alike
    <3>4. Harmless(t, x) => Harmless(t, x)'
      BY <1>1, <2>6 DEF Harmless, Nothing
    <3> QED
      BY <3>1, <3>3, <3>4
  <2>8. Settled(x)'
    BY <1>1, <2>2, <2>3, <2>4, <2>5, <2>6, <2>7, SettledRec DEF Alike
  <2>9. Waiting(x)'
    BY <1>1, <2>3, <2>4, <2>6 DEF Waiting, Alike, Foreign
  <2>10. (InPlace => InPlace') /\ (Restorable(x) => Restorable(x)')
    BY <1>1, <2>6, InPlaceKept, RestorableKept DEF ScriptIn, ResIn
  <2>11. ASSUME x # 0
         PROVE  IF kind'[x] = "batch" THEN LeftBatch(x)' ELSE LeftSingle(x)'
    <3>1. CASE kind[x] = "batch"
      BY <1>1, <2>1, <2>2, <2>3, <2>4, <2>10, <2>11, <3>1 DEF LeftBatch, Foreign, Noted
    <3>2. CASE kind[x] # "batch"
      BY <1>1, <2>1, <2>2, <2>3, <2>4, <2>10, <2>11, <3>2 DEF LeftSingle, Stranded, Noted
    <3> QED
      BY <3>1, <3>2
  <2>12. Good(x)'
    BY <1>1, <2>3, <2>4, <2>5, <2>6, <2>8, <2>9, <2>10, <2>11, RecGood
  <2> QED
    BY <1>1, <2>12 DEF Ids
<1> QED
  BY <1>2, <1>3, <1>4

LEMMA RecoveryEndsGood ==
    ASSUME Types, NEW x \in Ids, Good(x), RecoveryFails \/ RecoveryRefused
    PROVE  Good(x)'
<1>1. /\ op' = Idle /\ op.pc \in {"restore", "unrelease", "recover"} /\ UNCHANGED <<disk, kind, used>>
      /\ op.pc = "unrelease" => op.rec # 0
  BY RecoveryFailsTypes, RefusedTypes
<1>2. Recovering
  BY <1>1 DEF Recovering, Own, OwnSteps
<1> QED
  BY <1>1, <1>2, StopGood

\* The process dies.
LEMMA CrashGood ==
    ASSUME Types, NEW x \in Ids, Good(x), Crash, ~misled'
    PROVE  \E y \in Ids : Good(y)'
<1>1. /\ Types' /\ op' = Idle /\ op.pc # "idle" /\ UNCHANGED <<disk, kind, used>>
      /\ UNCHANGED <<manifest, script, resources, releases, backup, journal>>
      /\ op.rec = 0 /\ backup[op.id].dir => manifest.by \in {op.base.by, op.id}
      /\ op.pc = "discard" /\ op.rec \in releases /\ backup[op.rec].state => Committed(op.rec)
  BY CrashTypes DEF disk
<1>2. CASE ~Own
  <2>1. Recovering
    BY <1>1, <1>2 DEF Recovering
  <2>2. Good(x)'
    BY <1>1, <2>1, StopGood
  <2> QED
    BY <1>1, <2>2 DEF Ids
<1>3. CASE Own /\ x = 0
  <2>1. Good(0)'
    BY <1>1, <1>3, DoneEnds DEF Good, Open
  <2> QED
    BY <1>1, <2>1, BoundFacts DEF Types, Ids
<1>4. CASE Own /\ x # 0
  <2>1. op.rec = 0 /\ kind[op.id] \in {"batch", "single"}
    BY <1>4, OwnFacts, OwnPub
  <2>2. CASE kind[op.id] = "batch"
    BY <1>1, <1>4, <2>1, <2>2, BatchEnds
  <2>3. CASE kind[op.id] = "single"
    BY <1>1, <1>4, <2>3, SingleEnds
  <2> QED
    BY <2>1, <2>2, <2>3
<1> QED
  BY <1>2, <1>3, <1>4

-------------------------------------------------------------------------------
(* The steps of a single publication *)

\* The parts of an open single publication
LEMMA SingleParts ==
    ASSUME Types, NEW x \in Ids, Good(x), NEW pc \in OwnSteps, InSingle(pc), pc # "stage"
    PROVE  /\ x = op.id /\ x # 0 /\ x \in Pubs /\ Own /\ kind[x] = "single" /\ op.pc = pc /\ op.rec = 0
           /\ SingleKeeps(x) /\ SingleBase(x) /\ SingleFiles(x) /\ Settled(x) /\ op.seen = {}
           /\ journal[x] = "open" /\ ~op.failing /\ Foreign(x, op.base) /\ Noted(x)
           /\ \E e \in Exam : op.exams = {e} /\ op.cur = {e}
           /\ pc \notin {"flag", "close", "hide"} =>
                manifest.by # x /\ ~Stranded(x) /\ Restorable(x)
           /\ backup[x].res \in [Exam -> Ids] /\ resources \in [Exam -> Ids] /\ script \in [Exam -> Ids]
<1>1. /\ x = op.id /\ x # 0 /\ x \in Pubs /\ Own /\ SingleKeeps(x) /\ SingleBase(x)
      /\ SingleFiles(x) /\ Settled(x) /\ op.seen = {} /\ kind[x] = "single" /\ op.pc = pc /\ op.rec = 0
  BY SingleOpen DEF InSingle
<1>2. /\ journal[x] = "open" /\ ~op.failing /\ Foreign(x, op.base) /\ Noted(x)
      /\ \E e \in Exam : op.exams = {e} /\ op.cur = {e}
      /\ IF Stranded(x) THEN InPlace ELSE Restorable(x)
  BY <1>1 DEF SingleKeeps
<1>3. pc \notin {"flag", "close", "hide"} => manifest.by # x
  <2> SUFFICES ASSUME pc \notin {"flag", "close", "hide"}
               PROVE  manifest.by # x
    OBVIOUS
  <2>1. CASE ~op.live
    BY <1>1, <1>2, <2>1 DEF SingleBase, Foreign
  <2>2. CASE op.live
    <3>1. op.pc \in {"clear", "drop", "back", "refit", "show"}
      BY <1>1, <2>2 DEF SingleBase, OwnSteps
    <3> QED
      BY <1>1, <2>2, <3>1 DEF SingleBase, NoManifest
  <2> QED
    BY <2>1, <2>2
<1> QED
  BY <1>1, <1>2, <1>3, RecordFacts DEF Stranded, Types, DiskTypes

\* An open single publication goes on; its manifests stay, or the copy of the
\* one it built on is put back.
LEMMA SingleGoesOn ==
    ASSUME Types, Types', NEW x \in Ids, Good(x), NEW pc \in OwnSteps, InSingle(pc),
           op'.pc \in OwnSteps \cup {"discard"}, Stays, UNCHANGED <<releases, kind, used>>,
           \A p \in Pubs : p # x => backup'[p] = backup[p] /\ journal'[p] = journal[p],
           BaseOf(x)' = BaseOf(x),
           manifest' = manifest \/ (manifest' = BaseOf(x) /\ manifest'.by # 0),
           SingleKeeps(x)', SingleBase(x)', SingleFiles(x)'
    PROVE  Good(x)'
<1>1. x = op.id /\ Own /\ kind[x] = "single" /\ op.rec = 0
  BY SingleOpen DEF InSingle
<1>2. /\ Alike(op', op) /\ op'.rec = op.rec /\ op'.seen = op.seen /\ op'.live = op.live
      /\ op'.id = op.id /\ op'.base = op.base
  BY DEF Stays, Alike
<1>3. Own' /\ OwnOpen(x)'
  BY <1>1, <1>2 DEF Own, OwnOpen
<1> QED
  BY <1>1, <1>2, <1>3, OwnGood

\* What holds at every step, after one that leaves the manifests
LEMMA SingleKeepsOn ==
    ASSUME NEW x, SingleKeeps(x), op.pc # "stage", op'.pc # "stage", Stays, journal' = journal,
           ~Stranded(x)', Restorable(x)', Noted(x)'
    PROVE  SingleKeeps(x)'
BY DEF SingleKeeps, Stays, Alike, Foreign

LEMMA SingleStageGood ==
    ASSUME Types, NEW x \in Ids, Good(x), SingleStage
    PROVE  Good(x)'
<1>1. /\ Types' /\ InSingle("stage")
      /\ journal'[op.id] = "open" /\ \A p \in Pubs : p # op.id => journal'[p] = journal[p]
      /\ UNCHANGED <<manifest, script, resources, releases, backup, kind, used>>
  BY SingleStageTypes
<1>2. /\ x = op.id /\ x # 0 /\ x \in Pubs /\ Own /\ SingleKeeps(x) /\ SingleBase(x)
      /\ SingleFiles(x) /\ Settled(x) /\ op.seen = {} /\ kind[x] = "single"
      /\ op.pc = "stage" /\ op.rec = 0
  BY <1>1, SingleOpen DEF InSingle, OwnSteps
<1>3. /\ backup[x] = NoBackup /\ backup[x].res = Nothing /\ backup[x].script = 0
      /\ backup[x].base = NoManifest /\ backup[x].base.by = 0
      /\ Foreign(x, manifest) /\ (manifest.by = op.base.by => manifest = op.base)
  BY <1>2 DEF SingleFiles, SingleBase, NoBackup, NoManifest
<1>4. ~Stranded(x) /\ ~Stranded(x)' /\ Restorable(x) /\ Noted(x)
  BY <1>1, <1>2, <1>3 DEF Stranded, SingleKeeps
<1>5. BaseOf(x)' = BaseOf(x) /\ Restorable(x)' /\ Noted(x)'
  <2>1. BaseOf(x)' = BaseOf(x)
    BY <1>1 DEF BaseOf
  <2>2. Restorable(x)'
    BY <1>1, <1>4, <2>1, RestorableKept DEF ScriptIn, ResIn
  <2> QED
    BY <1>1, <1>4, <2>1, <2>2 DEF Noted
<1>6. CASE /\ manifest.by = op.base.by /\ op'.pc = "dir" /\ Alike(op', op)
           /\ op'.cur = op.exams /\ op'.rec = op.rec /\ op'.seen = op.seen
           /\ op'.live = op.live /\ op'.failing = op.failing
  <2>1. SingleKeeps(x)'
    BY <1>1, <1>2, <1>4, <1>5, <1>6 DEF SingleKeeps, Alike, Foreign
  <2>2. SingleBase(x)'
    BY <1>1, <1>2, <1>3, <1>6 DEF SingleBase, Alike
  <2>3. SingleFiles(x)'
    BY <1>1, <1>3, <1>6 DEF SingleFiles, Alike
  <2>4. Own' /\ OwnOpen(x)'
    BY <1>1, <1>2, <1>6, <2>1, <2>2, <2>3 DEF Own, OwnSteps, OwnOpen, Alike
  <2> QED
    BY <1>1, <1>2, <1>5, <1>6, <2>4, OwnGood DEF Alike
<1>7. CASE op' = Idle
  <2>1. op'.rec = 0
    BY <1>7, IdleFacts
  <2>2. LeftSingle(x)'
    BY <1>1, <1>2, <1>3, <1>4, <1>5, <2>1 DEF LeftSingle
  <2>3. x \in Left'
    BY <1>1, <1>2 DEF Left, SingleLeft
  <2>4. Settled(x)'
    BY <1>1, <1>2, <1>5, <1>7, SettledEnd
  <2> QED
    BY <1>1, <1>2, <1>7, <2>2, <2>3, <2>4, IdleGood
<1> QED
  BY <1>6, <1>7, SingleStageTypes

LEMMA SingleDirGood ==
    ASSUME Types, NEW x \in Ids, Good(x), SingleDir
    PROVE  Good(x)'
<1>1. /\ Types' /\ InSingle("dir") /\ op'.pc = "state" /\ Stays /\ Only(op.id)
      /\ backup'[op.id].dir = TRUE
      /\ backup'[op.id].base = backup[op.id].base /\ backup'[op.id].res = backup[op.id].res
      /\ backup'[op.id].script = backup[op.id].script
      /\ backup'[op.id].state = backup[op.id].state
      /\ UNCHANGED <<manifest, script, resources, releases, journal, kind, used>>
  BY SingleDirTypes DEF Went
<1>2. /\ x = op.id /\ x # 0 /\ x \in Pubs /\ kind[x] = "single" /\ op.pc = "dir"
      /\ SingleKeeps(x) /\ SingleBase(x) /\ SingleFiles(x) /\ Noted(x)
      /\ ~Stranded(x) /\ Restorable(x) /\ manifest.by # x
  BY <1>1, SingleParts DEF OwnSteps
<1>3. /\ backup[x].res = Nothing /\ backup[x].script = 0 /\ backup[x].base = NoManifest
  BY <1>2 DEF SingleFiles, NoBackup
<1>4. BaseOf(x)' = BaseOf(x) /\ ~Stranded(x)'
  BY <1>1, <1>2 DEF BaseOf, Stranded
<1>5. \A e \in Exam : ScriptIn(x, e)' = ScriptIn(x, e) /\ ResIn(x, e)' = ResIn(x, e)
  BY <1>1, <1>2, <1>3 DEF ScriptIn, ResIn, Nothing
<1>6. Restorable(x)' /\ Noted(x)'
  BY <1>1, <1>2, <1>3, <1>4, <1>5, RestorableKept DEF Noted, Nothing
<1>7. SingleKeeps(x)'
  BY <1>1, <1>2, <1>4, <1>6, SingleKeepsOn
<1>8. SingleBase(x)'
  BY <1>1, <1>2 DEF SingleBase, Stays, Alike
<1>9. SingleFiles(x)'
  BY <1>1, <1>2, <1>3 DEF SingleFiles, Stays, Alike
<1> QED
  BY <1>1, <1>2, <1>4, <1>7, <1>8, <1>9, SingleGoesOn DEF OwnSteps, Only

LEMMA SingleStateGood ==
    ASSUME Types, NEW x \in Ids, Good(x), SingleState
    PROVE  Good(x)'
<1>1. /\ Types' /\ InSingle("state") /\ op'.pc = "copy" /\ Stays /\ Only(op.id)
      /\ backup'[op.id].state = TRUE /\ backup'[op.id].exams = op.exams
      /\ backup'[op.id].dir = backup[op.id].dir /\ backup'[op.id].base = backup[op.id].base
      /\ backup'[op.id].res = backup[op.id].res
      /\ backup'[op.id].script = backup[op.id].script
      /\ UNCHANGED <<manifest, script, resources, releases, journal, kind, used>>
  BY SingleStateTypes DEF Went
<1>2. /\ x = op.id /\ x # 0 /\ x \in Pubs /\ kind[x] = "single" /\ op.pc = "state"
      /\ SingleKeeps(x) /\ SingleBase(x) /\ SingleFiles(x) /\ Noted(x)
      /\ ~Stranded(x) /\ Restorable(x) /\ manifest.by # x
  BY <1>1, SingleParts DEF OwnSteps
<1>3. backup[x].res = Nothing /\ backup[x].script = 0
  BY <1>2 DEF SingleFiles
<1>4. BaseOf(x)' = BaseOf(x) /\ ~Stranded(x)'
  BY <1>1, <1>2 DEF BaseOf, Stranded
<1>5. \A e \in Exam : ScriptIn(x, e)' = ScriptIn(x, e) /\ ResIn(x, e)' = ResIn(x, e)
  BY <1>1, <1>2, <1>3 DEF ScriptIn, ResIn, Nothing
<1>6. Restorable(x)' /\ Noted(x)'
  BY <1>1, <1>2, <1>3, <1>4, <1>5, RestorableKept DEF Noted, Nothing
<1>7. SingleKeeps(x)'
  BY <1>1, <1>2, <1>4, <1>6, SingleKeepsOn
<1>8. SingleBase(x)'
  BY <1>1, <1>2 DEF SingleBase, Stays, Alike
<1>9. backup[x].dir
  BY <1>2 DEF SingleFiles
<1>10. SingleFiles(x)'
  BY <1>1, <1>2, <1>3, <1>9 DEF SingleFiles, Stays, Alike
<1> QED
  BY <1>1, <1>2, <1>4, <1>7, <1>8, <1>10, SingleGoesOn DEF OwnSteps, Only

\* The library to come back to lists nothing of an open single publication.
LEMMA BaseIsForeign ==
    ASSUME NEW x, SingleBase(x), Foreign(x, op.base),
           op.pc \notin {"stage", "flag", "close", "hide", "discard"}, x # 0
    PROVE  \A e \in Exam : BaseOf(x).entry[e] # x
<1>1. BaseOf(x) = op.base \/ BaseOf(x) = NoManifest
  <2>1. manifest = op.base \/ manifest = NoManifest
    BY DEF SingleBase
  <2>2. backup[x].base = op.base \/ backup[x].base = NoManifest
    BY DEF SingleBase
  <2> QED
    BY <2>1, <2>2 DEF BaseOf
<1> QED
  BY <1>1 DEF Foreign, NoManifest, Nothing

\* An open single publication moves a file: what the backup and the files hold
\* together stays, or there was nothing, or a file of its own.
LEMMA SingleMovesOn ==
    ASSUME Types, Types', NEW x \in Ids, Good(x), NEW pc \in OwnSteps, InSingle(pc),
           pc \notin {"stage", "flag", "close", "hide"},
           op'.pc \in OwnSteps \cup {"discard"}, op'.pc # "stage", Stays,
           UNCHANGED <<manifest, releases, journal, kind, used>>,
           \A p \in Pubs : p # x => backup'[p] = backup[p],
           BaseOf(x)' = BaseOf(x), Noted(x)',
           \A e \in Exam : ScriptIn(x, e)' = ScriptIn(x, e) \/ ScriptIn(x, e) \in {0, x},
           \A e \in Exam : ResIn(x, e)' = ResIn(x, e) \/ ResIn(x, e) \in {0, x},
           SingleBase(x)', SingleFiles(x)'
    PROVE  Good(x)'
<1>1. SingleKeeps(x) /\ manifest.by # x /\ Restorable(x) /\ op.pc = pc
  BY SingleParts
<1>2. ~Stranded(x)'
  BY <1>1 DEF Stranded
<1>3. Restorable(x)'
  <2>1. \A e \in Exam : BaseOf(x).entry[e] # x
    <3>1. SingleBase(x) /\ Foreign(x, op.base) /\ x # 0
      BY SingleParts
    <3> QED
      BY <1>1, <3>1, BaseIsForeign DEF OwnSteps
  <2> SUFFICES ASSUME NEW e \in Exam
               PROVE  Fits(BaseOf(x).entry[e], ScriptIn(x, e), ResIn(x, e))'
    BY DEF Restorable
  <2>2. Fits(BaseOf(x).entry[e], ScriptIn(x, e), ResIn(x, e))
    BY <1>1 DEF Restorable
  <2> QED
    BY <2>1, <2>2 DEF Fits
<1>4. SingleKeeps(x)'
  BY <1>1, <1>2, <1>3, SingleKeepsOn
<1> QED
  BY <1>4, SingleGoesOn

LEMMA SingleCopyGood ==
    ASSUME Types, NEW x \in Ids, Good(x), SingleCopy
    PROVE  Good(x)'
<1>1. /\ Types' /\ InSingle("copy") /\ op'.pc = "aside" /\ Stays /\ Only(op.id)
      /\ backup'[op.id].base = manifest
      /\ backup'[op.id].state = backup[op.id].state
      /\ backup'[op.id].exams = backup[op.id].exams
      /\ backup'[op.id].dir = backup[op.id].dir
      /\ backup'[op.id].res = backup[op.id].res
      /\ backup'[op.id].script = backup[op.id].script
      /\ UNCHANGED <<manifest, script, resources, releases, journal, kind, used>>
  BY SingleCopyTypes DEF Went
<1>2. /\ x = op.id /\ x # 0 /\ x \in Pubs /\ kind[x] = "single" /\ op.pc = "copy"
      /\ SingleBase(x) /\ SingleFiles(x) /\ Noted(x)
  BY <1>1, SingleParts DEF OwnSteps
<1>3. /\ backup[x].base = NoManifest /\ ~op.live /\ manifest = op.base
      /\ backup[x].script = 0 /\ backup[x].res = Nothing
      /\ backup[x].dir /\ backup[x].state /\ backup[x].exams = op.exams
  BY <1>2 DEF SingleBase, SingleFiles
<1>4. BaseOf(x)' = BaseOf(x)
  BY <1>1, <1>2, <1>3 DEF BaseOf, NoManifest
<1>5. \A e \in Exam : ScriptIn(x, e)' = ScriptIn(x, e) /\ ResIn(x, e)' = ResIn(x, e)
  BY <1>1, <1>2 DEF ScriptIn, ResIn
<1>6. Noted(x)'
  BY <1>1, <1>2 DEF Noted
<1>7. SingleBase(x)'
  BY <1>1, <1>2, <1>3 DEF SingleBase, Stays, Alike
<1>8. SingleFiles(x)'
  BY <1>1, <1>2, <1>3, ZenonT(60) DEF SingleFiles, Stays, Alike
<1> QED
  BY <1>1, <1>2, <1>4, <1>5, <1>6, <1>7, <1>8, SingleMovesOn DEF OwnSteps, Only

LEMMA SingleAsideGood ==
    ASSUME Types, NEW x \in Ids, Good(x), SingleAside
    PROVE  Good(x)'
<1>1. /\ Types' /\ InSingle("aside") /\ Only(op.id)
      /\ backup'[op.id].base = backup[op.id].base
      /\ backup'[op.id].state = backup[op.id].state
      /\ backup'[op.id].exams = backup[op.id].exams
      /\ backup'[op.id].dir = backup[op.id].dir
      /\ backup'[op.id].res = backup[op.id].res
      /\ UNCHANGED <<manifest, resources, releases, journal, kind, used>>
  BY SingleAsideTypes
<1>2. /\ x = op.id /\ x # 0 /\ x \in Pubs /\ kind[x] = "single" /\ op.pc = "aside"
      /\ SingleBase(x) /\ SingleFiles(x) /\ Noted(x)
      /\ \E e \in Exam : op.exams = {e} /\ op.cur = {e}
  BY <1>1, SingleParts DEF OwnSteps
<1>3. PICK e \in op.cur :
         /\ e \in Exam /\ backup'[x].script = script[e] /\ script'[e] = 0
         /\ \A d \in Exam : d # e => script'[d] = script[d]
         /\ Went(IF resources[e] # 0 THEN "stash" ELSE "exam")
  BY <1>2, SingleAsideTypes
<1>4. op.exams = {e} /\ op.cur = {e}
  BY <1>2, <1>3
<1>5. /\ ~op.live /\ manifest = op.base /\ backup[x].base = op.base
      /\ backup[x].script = 0 /\ backup[x].res = Nothing
      /\ backup[x].dir /\ backup[x].state /\ backup[x].exams = {e}
  BY <1>2, <1>4 DEF SingleBase, SingleFiles
<1>6. /\ Stays /\ op'.pc \in {"stash", "exam"} /\ (op'.pc = "exam" => resources[e] = 0)
  BY <1>3 DEF Went
<1>7. BaseOf(x)' = BaseOf(x)
  BY <1>1, <1>2 DEF BaseOf
<1>8. \A d \in Exam : ResIn(x, d)' = ResIn(x, d)
  BY <1>1, <1>2 DEF ResIn
<1>9. \A d \in Exam : ScriptIn(x, d)' = ScriptIn(x, d)
  <2> SUFFICES ASSUME NEW d \in Exam
               PROVE  ScriptIn(x, d)' = ScriptIn(x, d)
    OBVIOUS
  <2>1. CASE d = e
    BY <1>1, <1>2, <1>3, <1>5, <2>1 DEF ScriptIn
  <2>2. CASE d # e
    BY <1>1, <1>2, <1>3, <1>5, <2>2 DEF ScriptIn
  <2> QED
    BY <2>1, <2>2
<1>10. Noted(x)'
  BY <1>1, <1>2 DEF Noted
<1>11. SingleBase(x)'
  BY <1>1, <1>2, <1>5, <1>6 DEF SingleBase, Stays, Alike
<1>12. SingleFiles(x)'
  <2>1. /\ backup'[x].res = Nothing /\ backup'[x].dir /\ backup'[x].state
        /\ backup'[x].exams = op'.exams
    BY <1>1, <1>2, <1>4, <1>5, <1>6, ZenonT(60) DEF Stays, Alike
  <2>2. \A d \in op'.exams : script'[d] = 0 /\ (op'.pc = "exam" => resources'[d] = 0)
    BY <1>1, <1>3, <1>4, <1>6 DEF Stays, Alike
  <2> QED
    BY <1>6, <2>1, <2>2 DEF SingleFiles
<1> QED
  BY <1>1, <1>2, <1>6, <1>7, <1>8, <1>9, <1>10, <1>11, <1>12, SingleMovesOn DEF OwnSteps, Only

LEMMA SingleStashGood ==
    ASSUME Types, NEW x \in Ids, Good(x), Stash, kind[op.id] = "single"
    PROVE  Good(x)'
<1>1. /\ Types' /\ op.pc = "stash" /\ op.rec = 0 /\ op'.pc = "exam" /\ Stays /\ Only(op.id)
      /\ backup'[op.id].dir = backup[op.id].dir
      /\ backup'[op.id].base = backup[op.id].base
      /\ backup'[op.id].script = backup[op.id].script
      /\ backup'[op.id].state = backup[op.id].state
      /\ backup'[op.id].exams = backup[op.id].exams
      /\ UNCHANGED <<manifest, script, releases, journal, kind, used>>
  BY StashTypes DEF Went
<1>2. InSingle("stash")
  BY <1>1, SingleIs DEF Single, At, OwnSteps
<1>3. /\ x = op.id /\ x # 0 /\ x \in Pubs /\ kind[x] = "single"
      /\ SingleBase(x) /\ SingleFiles(x)
      /\ \E e \in Exam : op.exams = {e} /\ op.cur = {e}
  BY <1>2, SingleParts DEF OwnSteps
<1>4. PICK e \in op.cur :
         /\ e \in Exam /\ backup'[x].res[e] = resources[e] /\ resources'[e] = 0
         /\ \A d \in Exam : d # e => /\ backup'[x].res[d] = backup[x].res[d]
                                     /\ resources'[d] = resources[d]
  BY <1>3, StashTypes
<1>5. op.exams = {e} /\ op.cur = {e}
  BY <1>3, <1>4
<1>6. /\ ~op.live /\ manifest = op.base /\ backup[x].base = op.base
      /\ \A d \in Exam : backup[x].res[d] = 0
      /\ backup[x].dir /\ backup[x].state /\ backup[x].exams = {e} /\ script[e] = 0
  BY <1>1, <1>3, <1>5 DEF SingleBase, SingleFiles, Nothing
<1>7. BaseOf(x)' = BaseOf(x)
  BY <1>1, <1>3 DEF BaseOf
<1>8. \A d \in Exam : ScriptIn(x, d)' = ScriptIn(x, d)
  BY <1>1, <1>3 DEF ScriptIn
<1>9. \A d \in Exam : ResIn(x, d)' = ResIn(x, d)
  <2> SUFFICES ASSUME NEW d \in Exam
               PROVE  ResIn(x, d)' = ResIn(x, d)
    OBVIOUS
  <2>1. CASE d = e
    BY <1>3, <1>4, <1>6, <2>1 DEF ResIn
  <2>2. CASE d # e
    BY <1>3, <1>4, <1>6, <2>2 DEF ResIn
  <2> QED
    BY <2>1, <2>2
<1>10. Noted(x)'
  <2>1. backup'[x].exams = {e} /\ backup'[x].state
    BY <1>1, <1>3, <1>6
  <2>2. \A d \in Exam : d # e => backup'[x].res[d] = 0
    BY <1>4, <1>6
  <2> QED
    BY <2>1, <2>2 DEF Noted
<1>11. SingleBase(x)'
  BY <1>1, <1>3, <1>6 DEF SingleBase, Stays, Alike
<1>12. SingleFiles(x)'
  <2>1. backup'[x].dir /\ backup'[x].state /\ backup'[x].exams = op'.exams
    <3>1. /\ backup'[x].dir = backup[x].dir /\ backup'[x].state = backup[x].state
          /\ backup'[x].exams = backup[x].exams
      BY <1>1, <1>3
    <3>2. op'.exams = op.exams
      BY <1>1 DEF Stays, Alike
    <3> QED
      BY <1>5, <1>6, <3>1, <3>2
  <2>2. \A d \in op'.exams : script'[d] = 0 /\ resources'[d] = 0
    BY <1>1, <1>4, <1>5, <1>6 DEF Stays, Alike
  <2> QED
    BY <1>1, <2>1, <2>2 DEF SingleFiles
<1> QED
  BY <1>1, <1>2, <1>3, <1>7, <1>8, <1>9, <1>10, <1>11, <1>12, SingleMovesOn DEF OwnSteps, Only

\* The script of the package takes its place; the one before it is in the backup,
LEMMA SingleExamGood ==
    ASSUME Types, NEW x \in Ids, Good(x), SingleExam
    PROVE  Good(x)'
<1>1. /\ Types' /\ InSingle("exam") /\ op'.pc = "place" /\ Stays
      /\ UNCHANGED <<manifest, resources, releases, backup, journal, kind, used>>
  BY SingleExamTypes DEF Went
<1>2. /\ x = op.id /\ x # 0 /\ x \in Pubs /\ kind[x] = "single" /\ op.pc = "exam"
      /\ SingleBase(x) /\ SingleFiles(x) /\ Noted(x)
      /\ \E e \in Exam : op.exams = {e} /\ op.cur = {e}
  BY <1>1, SingleParts DEF OwnSteps
<1>3. PICK e \in op.cur :
         /\ e \in Exam /\ script'[e] = x /\ \A d \in Exam : d # e => script'[d] = script[d]
  BY <1>2, SingleExamTypes
<1>4. op.exams = {e} /\ op.cur = {e}
  BY <1>2, <1>3
<1>5. /\ ~op.live /\ manifest = op.base /\ backup[x].base = op.base
      /\ backup[x].dir /\ backup[x].state /\ backup[x].exams = {e}
      /\ script[e] = 0 /\ resources[e] = 0
  BY <1>2, <1>4 DEF SingleBase, SingleFiles
<1>6. BaseOf(x)' = BaseOf(x)
  BY <1>1 DEF BaseOf
<1>7. \A d \in Exam : ResIn(x, d)' = ResIn(x, d)
  BY <1>1 DEF ResIn
<1>8. \A d \in Exam : ScriptIn(x, d)' = ScriptIn(x, d) \/ ScriptIn(x, d) = 0
  <2> SUFFICES ASSUME NEW d \in Exam
               PROVE  ScriptIn(x, d)' = ScriptIn(x, d) \/ ScriptIn(x, d) = 0
    OBVIOUS
  <2>1. CASE d = e
    BY <1>1, <1>5, <2>1 DEF ScriptIn
  <2>2. CASE d # e
    BY <1>1, <1>3, <2>2 DEF ScriptIn
  <2> QED
    BY <2>1, <2>2
<1>9. Noted(x)'
  BY <1>1, <1>2 DEF Noted
<1>10. SingleBase(x)'
  BY <1>1, <1>2, <1>5 DEF SingleBase, Stays, Alike
<1>11. SingleFiles(x)'
  BY <1>1, <1>2, <1>3, <1>4, <1>5 DEF SingleFiles, Stays, Alike
<1> QED
  BY <1>1, <1>2, <1>6, <1>7, <1>8, <1>9, <1>10, <1>11, SingleMovesOn DEF OwnSteps

\* then its resources.
LEMMA SinglePlaceGood ==
    ASSUME Types, NEW x \in Ids, Good(x), Place, kind[op.id] = "single"
    PROVE  Good(x)'
<1>1. /\ Types' /\ op.pc = "place" /\ op.rec = 0 /\ op'.pc = "replace" /\ Stays
      /\ UNCHANGED <<manifest, script, releases, backup, journal, kind, used>>
  BY PlaceTypes DEF Went
<1>2. InSingle("place")
  BY <1>1, SingleIs DEF Single, At, OwnSteps
<1>3. /\ x = op.id /\ x # 0 /\ x \in Pubs /\ kind[x] = "single"
      /\ SingleBase(x) /\ SingleFiles(x) /\ Noted(x)
      /\ \E e \in Exam : op.exams = {e} /\ op.cur = {e}
  BY <1>2, SingleParts DEF OwnSteps
<1>4. PICK e \in op.cur :
         /\ e \in Exam /\ resources'[e] = x /\ \A d \in Exam : d # e => resources'[d] = resources[d]
  BY <1>3, PlaceTypes
<1>5. op.exams = {e} /\ op.cur = {e}
  BY <1>3, <1>4
<1>6. /\ ~op.live /\ manifest = op.base /\ backup[x].base = op.base
      /\ backup[x].dir /\ backup[x].state /\ backup[x].exams = {e}
      /\ script[e] = x /\ resources[e] = 0
  BY <1>1, <1>3, <1>5 DEF SingleBase, SingleFiles
<1>7. BaseOf(x)' = BaseOf(x)
  BY <1>1 DEF BaseOf
<1>8. \A d \in Exam : ScriptIn(x, d)' = ScriptIn(x, d)
  BY <1>1 DEF ScriptIn
<1>9. \A d \in Exam : ResIn(x, d)' = ResIn(x, d) \/ ResIn(x, d) = 0
  <2> SUFFICES ASSUME NEW d \in Exam
               PROVE  ResIn(x, d)' = ResIn(x, d) \/ ResIn(x, d) = 0
    OBVIOUS
  <2>1. CASE d = e
    BY <1>1, <1>6, <2>1 DEF ResIn
  <2>2. CASE d # e
    BY <1>1, <1>4, <2>2 DEF ResIn
  <2> QED
    BY <2>1, <2>2
<1>10. Noted(x)'
  BY <1>1, <1>3 DEF Noted
<1>11. SingleBase(x)'
  BY <1>1, <1>3, <1>6 DEF SingleBase, Stays, Alike
<1>12. SingleFiles(x)'
  BY <1>1, <1>3, <1>4, <1>5, <1>6 DEF SingleFiles, Stays, Alike
<1> QED
  BY <1>1, <1>2, <1>3, <1>7, <1>8, <1>9, <1>10, <1>11, <1>12, SingleMovesOn DEF OwnSteps

LEMMA SingleNoteGood ==
    ASSUME Types, NEW x \in Ids, Good(x), SingleNote
    PROVE  Good(x)'
<1>1. /\ Types' /\ InSingle("flag") /\ op'.pc = "close" /\ Stays /\ UNCHANGED <<disk, kind, used>>
  BY SingleNoteTypes DEF Went
<1>2. /\ op.pc = "flag" /\ SingleKeeps(x) /\ SingleBase(x) /\ SingleFiles(x) /\ x # 0
  BY <1>1, SingleOpen DEF OwnSteps, InSingle
<1>3. /\ Stranded(x)' = Stranded(x) /\ BaseOf(x)' = BaseOf(x)
      /\ \A e \in Exam : ScriptIn(x, e)' = ScriptIn(x, e) /\ ResIn(x, e)' = ResIn(x, e)
  BY <1>1 DEF Stranded, BaseOf, ScriptIn, ResIn, disk
<1>4. (InPlace => InPlace') /\ (Restorable(x) => Restorable(x)')
  BY <1>1, <1>3, InPlaceKept, RestorableKept DEF disk
<1>5. SingleKeeps(x)'
  BY <1>1, <1>2, <1>3, <1>4 DEF SingleKeeps, Noted, Foreign, Stays, Alike, disk
<1>6. SingleBase(x)'
  BY <1>1, <1>2, <1>4 DEF SingleBase, Stays, Alike, disk
<1>7. SingleFiles(x)'
  BY <1>1, <1>2 DEF SingleFiles, Stays, Alike, disk
<1> QED
  BY <1>1, <1>3, <1>5, <1>6, <1>7, SingleGoesOn DEF OwnSteps, disk

\* A backup that fails puts the script back, and leaves nothing to put back.
LEMMA SingleBackupFailsGood ==
    ASSUME Types, NEW x \in Ids, Good(x), SingleBackupFails
    PROVE  Good(x)'
<1>1. /\ Types' /\ \E pc \in {"copy", "aside", "stash"} : InSingle(pc)
      /\ op'.pc = "discard" /\ Stays /\ Only(op.id)
      /\ backup'[op.id].script = 0 /\ backup'[op.id].base = backup[op.id].base
      /\ backup'[op.id].state = backup[op.id].state
      /\ backup'[op.id].exams = backup[op.id].exams
      /\ backup'[op.id].dir = backup[op.id].dir
      /\ backup'[op.id].res = backup[op.id].res
      /\ UNCHANGED <<manifest, resources, releases, journal, kind, used>>
  BY SingleBackupFailsTypes DEF Went
<1>2. PICK pc \in {"copy", "aside", "stash"} : InSingle(pc)
  BY <1>1
<1>3. /\ x = op.id /\ x # 0 /\ x \in Pubs /\ kind[x] = "single" /\ op.pc = pc
      /\ SingleBase(x) /\ SingleFiles(x) /\ Noted(x)
      /\ \E e \in Exam : op.exams = {e} /\ op.cur = {e}
  BY <1>2, SingleParts DEF OwnSteps
<1>4. PICK e \in op.cur :
         /\ e \in Exam
         /\ script'[e] = (IF script[e] = 0 THEN backup[x].script ELSE script[e])
         /\ \A d \in Exam : d # e => script'[d] = script[d]
  BY <1>3, SingleBackupFailsTypes
<1>5. op.exams = {e} /\ op.cur = {e}
  BY <1>3, <1>4
<1>6. /\ ~op.live /\ manifest = op.base
      /\ backup[x].base = op.base \/ backup[x].base = NoManifest
      /\ backup[x].res = Nothing
      /\ backup[x].script = 0 \/ (script[e] = 0 /\ backup[x].exams = {e})
  BY <1>2, <1>3, <1>5 DEF SingleBase, SingleFiles
<1>7. BaseOf(x)' = BaseOf(x)
  BY <1>1, <1>3 DEF BaseOf
<1>8. \A d \in Exam : ResIn(x, d)' = ResIn(x, d)
  BY <1>1, <1>3 DEF ResIn
<1>9. \A d \in Exam : ScriptIn(x, d)' = ScriptIn(x, d)
  <2> SUFFICES ASSUME NEW d \in Exam
               PROVE  ScriptIn(x, d)' = ScriptIn(x, d)
    OBVIOUS
  <2>1. CASE d = e
    BY <1>1, <1>3, <1>4, <1>6, <2>1 DEF ScriptIn
  <2>2. CASE d # e
    BY <1>1, <1>3, <1>4, <1>6, <2>2 DEF ScriptIn
  <2> QED
    BY <2>1, <2>2
<1>10. Noted(x)'
  BY <1>1, <1>3 DEF Noted
<1>11. SingleBase(x)'
  BY <1>1, <1>3, <1>6 DEF SingleBase, Stays, Alike, NoManifest
<1>12. SingleFiles(x)'
  BY <1>1, <1>3, <1>6 DEF SingleFiles, Stays, Alike
<1> QED
  BY <1>1, <1>2, <1>3, <1>7, <1>8, <1>9, <1>10, <1>11, <1>12, SingleMovesOn DEF OwnSteps, Only

\* A package that cannot be installed is taken back.
LEMMA SingleInstallFailsGood ==
    ASSUME Types, NEW x \in Ids, Good(x), SingleInstallFails
    PROVE  Good(x)'
<1>1. /\ Types' /\ \E pc \in {"exam", "place", "replace", "flag"} : InSingle(pc)
      /\ op'.pc = "hide" /\ Stays /\ UNCHANGED <<disk, kind, used>>
  BY SingleInstallFailsTypes DEF Went
<1>2. PICK pc \in {"exam", "place", "replace", "flag"} : InSingle(pc)
  BY <1>1
<1>3. /\ op.pc = pc /\ SingleKeeps(x) /\ SingleBase(x) /\ SingleFiles(x) /\ x # 0
  BY <1>2, SingleOpen DEF OwnSteps, InSingle
<1>4. /\ Stranded(x)' = Stranded(x) /\ BaseOf(x)' = BaseOf(x)
      /\ \A e \in Exam : ScriptIn(x, e)' = ScriptIn(x, e) /\ ResIn(x, e)' = ResIn(x, e)
  BY <1>1 DEF Stranded, BaseOf, ScriptIn, ResIn, disk
<1>5. (InPlace => InPlace') /\ (Restorable(x) => Restorable(x)')
  BY <1>1, <1>4, InPlaceKept, RestorableKept DEF disk
<1>6. SingleKeeps(x)'
  BY <1>1, <1>3, <1>4, <1>5 DEF SingleKeeps, Noted, Foreign, Stays, Alike, disk
<1>7. SingleBase(x)'
  BY <1>1, <1>3 DEF SingleBase, Stays, Alike, disk
<1>8. SingleFiles(x)'
  <2>1. \A e \in op.exams : script[e] \in {0, x} /\ resources[e] \in {0, x}
    BY <1>3 DEF SingleFiles
  <2>2. backup[x].dir /\ backup[x].state /\ backup[x].exams = op.exams
    BY <1>3 DEF SingleFiles
  <2> QED
    BY <1>1, <2>1, <2>2 DEF SingleFiles, Stays, Alike, disk
<1> QED
  BY <1>1, <1>2, <1>4, <1>6, <1>7, <1>8, SingleGoesOn DEF OwnSteps, disk

\* The journal is closed: nothing is open any more.
LEMMA SingleCloseGood ==
    ASSUME Types, NEW x \in Ids, Good(x), SingleClose
    PROVE  Good(0)'
<1>1. /\ Types' /\ InSingle("close") /\ op'.pc = "discard" /\ Stays
      /\ journal'[op.id] = "closed" /\ \A p \in Pubs : p # op.id => journal'[p] = journal[p]
      /\ UNCHANGED <<manifest, script, resources, releases, backup, kind, used>>
  BY SingleCloseTypes DEF Went
<1>2. /\ x = op.id /\ x # 0 /\ x \in Pubs /\ Own /\ kind[x] = "single" /\ op.pc = "close"
      /\ op.rec = 0 /\ SingleKeeps(x) /\ SingleBase(x) /\ Settled(x) /\ op.seen = {}
  BY <1>1, SingleOpen DEF OwnSteps, InSingle
<1>3. op.live /\ InPlace /\ ~op.failing
  BY <1>2 DEF SingleBase, SingleKeeps
<1>4. /\ op'.id = x /\ op'.live /\ ~op'.failing /\ op'.rec = 0 /\ op'.seen = {}
      /\ op'.base = op.base
  BY <1>1, <1>2, <1>3 DEF Stays, Alike
<1>5. InPlace'
  BY <1>1, <1>3, InPlaceKept
<1>6. Own' /\ OwnDone'
  BY <1>1, <1>2, <1>4, <1>5 DEF Own, OwnDone
<1>7. \A p \in Left' : p \in Left /\ p # x
  BY <1>1, <1>2 DEF Left, BatchLeft, SingleLeft
<1>8. BaseOf(0)' = manifest /\ BaseOf(0)' = manifest' /\ \A p : ~Ahead(p)
  BY <1>1, <1>2, OwnFacts DEF BaseOf
<1>9. Settled(0)'
  <2>1. ASSUME NEW p \in Left'
        PROVE  kind'[p] = "batch" /\ (Sure(p, 0)' \/ Harmless(p, 0)')
    <3>1. kind[p] = "batch" /\ (Sure(p, x) \/ Harmless(p, x))
      BY <1>2, <1>7, <2>1 DEF Settled
    <3>2. Harmless(p, x) => Harmless(p, 0)'
      BY <1>1, <1>8 DEF Harmless
    <3>3. Sure(p, x) => Sure(p, 0)'
      BY <1>1, <1>2, <1>4, <1>8 DEF Sure, Never, At
    <3> QED
      BY <1>1, <3>1, <3>2, <3>3
  <2> QED
    BY <1>1, <2>1 DEF Settled
<1>10. Open(0)'
  BY <1>4, <1>6 DEF Open, Recovering
<1> QED
  BY <1>1, <1>9, <1>10, BoundFacts DEF Good, Types, Ids

\* The journal cannot be closed: the publisher recovers its own publication.
LEMMA SingleCloseFailsGood ==
    ASSUME Types, NEW x \in Ids, Good(x), SingleCloseFails
    PROVE  Good(x)'
<1>1. /\ Types' /\ InSingle("close") /\ op'.pc = "recover" /\ Alike(op', op)
      /\ op'.rec = op.rec /\ op'.seen = op.seen
      /\ op'.live = op.live /\ op'.failing = TRUE /\ UNCHANGED <<disk, kind, used>>
  BY SingleCloseFailsTypes
<1>2. /\ x = op.id /\ x # 0 /\ x \in Pubs /\ Own /\ kind[x] = "single" /\ op.pc = "close"
      /\ op.rec = 0 /\ SingleKeeps(x) /\ SingleBase(x) /\ SingleFiles(x) /\ Settled(x)
      /\ op.seen = {}
  BY <1>1, SingleOpen DEF OwnSteps, InSingle
<1>3. op.live /\ journal[x] = "open"
  BY <1>2 DEF SingleBase, SingleKeeps
<1>4. LeftSingle(x)
  BY <1>2, SingleLeaves
<1>5. /\ Stranded(x)' = Stranded(x) /\ BaseOf(x)' = BaseOf(x) /\ Left' = Left
      /\ \A e \in Exam : ScriptIn(x, e)' = ScriptIn(x, e) /\ ResIn(x, e)' = ResIn(x, e)
  BY <1>1 DEF Stranded, BaseOf, ScriptIn, ResIn, Left, BatchLeft, SingleLeft, disk
<1>6. (InPlace => InPlace') /\ (Restorable(x) => Restorable(x)')
  BY <1>1, <1>5, InPlaceKept, RestorableKept DEF disk
<1>7. op'.rec = 0 /\ op'.seen = {} /\ op'.id = x /\ op'.live
  BY <1>1, <1>2, <1>3 DEF Alike
<1>8. LeftSingle(x)'
  BY <1>1, <1>2, <1>4, <1>5, <1>6, <1>7 DEF LeftSingle, Noted, disk
<1>9. x \in Left
  BY <1>2, <1>3 DEF Left, SingleLeft
<1>10. ~Own' /\ LeftOpen(x)' /\ Waiting(x)'
  BY <1>1, <1>2, <1>5, <1>7, <1>8, <1>9 DEF Own, OwnSteps, LeftOpen, Waiting, disk
<1>11. Settled(x)'
  <2>1. \A p : ~Ahead(p)
    BY <1>2, OwnFacts
  <2>2. ASSUME NEW p \in Left', p # x
        PROVE  kind'[p] = "batch" /\ (Sure(p, x)' \/ Harmless(p, x)')
    <3>1. kind[p] = "batch" /\ (Sure(p, x) \/ Harmless(p, x))
      BY <1>2, <1>5, <2>2 DEF Settled
    <3>2. Harmless(p, x) => Harmless(p, x)'
      BY <1>1, <1>5 DEF Harmless, disk
    <3>3. Sure(p, x) => Sure(p, x)'
      BY <1>1, <1>2, <1>5, <1>7, <2>1 DEF Sure, Never, At, Alike, disk
    <3> QED
      BY <1>1, <3>1, <3>2, <3>3
  <2> QED
    BY <1>1, <2>2 DEF Settled
<1>12. Open(x)'
  BY <1>2, <1>7, <1>10 DEF Open
<1> QED
  BY <1>1, <1>11, <1>12 DEF Good, Ids

\* The rollback: its own manifest is hidden,
LEMMA SingleHideGood ==
    ASSUME Types, NEW x \in Ids, Good(x), SingleHide, ~misled'
    PROVE  Good(x)'
<1>1. /\ Types' /\ InSingle("hide") /\ op'.pc = "clear" /\ Stays
      /\ manifest' = IF op.live THEN NoManifest ELSE manifest
      /\ op.live => \A p \in BatchLeft :
           \/ backup[p].committed
           \/ p \notin releases /\ backup[p].base.by = 0
      /\ UNCHANGED <<script, resources, releases, backup, journal, kind, used>>
  BY SingleHideTypes DEF Went
<1>2. /\ x = op.id /\ x # 0 /\ x \in Pubs /\ Own /\ kind[x] = "single" /\ op.pc = "hide"
      /\ op.rec = 0 /\ SingleKeeps(x) /\ SingleBase(x) /\ SingleFiles(x) /\ Settled(x)
      /\ op.seen = {}
  BY <1>1, SingleOpen DEF OwnSteps, InSingle
<1>3. /\ backup[x].base = op.base /\ Foreign(x, op.base)
      /\ IF Stranded(x) THEN InPlace ELSE Restorable(x)
  BY <1>2 DEF SingleBase, SingleKeeps
<1>4. SingleFiles(x)'
  BY <1>1, <1>2 DEF SingleFiles, Stays, Alike
<1>5. \A e \in Exam : ScriptIn(x, e)' = ScriptIn(x, e) /\ ResIn(x, e)' = ResIn(x, e)
  BY <1>1 DEF ScriptIn, ResIn
<1>6. manifest'.by # x
  BY <1>1, <1>2, <1>3 DEF SingleBase, NoManifest, Foreign
<1>7. BaseOf(x)' = BaseOf(x) \/ (op.live /\ BaseOf(x)' = NoManifest)
  BY <1>1 DEF BaseOf
<1>8. Restorable(x)'
  <2>1. CASE BaseOf(x)' = BaseOf(x) /\ ~Stranded(x)
    BY <1>1, <1>3, <1>5, <2>1, RestorableKept
  <2>2. CASE BaseOf(x)' = NoManifest
    BY <2>2 DEF Restorable, NoManifest, Fits, Nothing
  <2>3. CASE Stranded(x)
    <3>1. op.live
      BY <1>2, <1>3, <2>3 DEF Stranded, SingleBase, Foreign
    <3>2. BaseOf(x)' = NoManifest
      BY <1>1, <2>3, <3>1 DEF BaseOf, Stranded
    <3> QED
      BY <2>2, <3>2
  <2> QED
    BY <1>7, <2>1, <2>2, <2>3
<1>9. SingleKeeps(x)'
  BY <1>1, <1>2, <1>6, <1>8 DEF SingleKeeps, Stranded, Noted, Foreign, Stays, Alike
<1>10. SingleBase(x)'
  BY <1>1, <1>2, <1>3 DEF SingleBase, Stays, Alike
<1>11. CASE ~op.live
  <2>1. manifest' = manifest /\ BaseOf(x)' = BaseOf(x)
    BY <1>1, <1>7, <1>11
  <2> QED
    BY <1>1, <1>4, <1>9, <1>10, <2>1, SingleGoesOn DEF OwnSteps
<1>12. CASE op.live
  <2>1. Own' /\ OwnOpen(x)' /\ op'.seen = {} /\ op'.rec = 0
    BY <1>1, <1>2, <1>4, <1>9, <1>10 DEF Own, OwnSteps, OwnOpen, Stays, Alike
  <2>2. \A e \in Exam : manifest'.entry[e] = 0
    BY <1>1, <1>12 DEF NoManifest, Nothing
  <2>3. \A p : \A e \in Exam : BaseOf(x).entry[e] # p /\ p # 0 => BaseOf(x)'.entry[e] # p
    BY <1>7 DEF NoManifest, Nothing
  <2>4. ASSUME NEW p \in Left', p # x
        PROVE  kind'[p] = "batch" /\ (Sure(p, x)' \/ Harmless(p, x)')
    <3>1. kind[p] = "batch" /\ p \in Left /\ p \in Pubs /\ p # 0
      BY <1>1, <1>2, <2>4 DEF Settled, Left, BatchLeft, SingleLeft, Pubs
    <3>2. p \in BatchLeft
      BY <3>1 DEF Left, SingleLeft
    <3>3. Sure(p, x) => Sure(p, x)'
      BY <1>1, <1>12, <3>2 DEF Sure
    <3>4. Harmless(p, x) => Harmless(p, x)'
      BY <1>1, <1>12, <2>2, <2>3, <3>1, <3>2 DEF Harmless
    <3> QED
      BY <1>1, <1>2, <2>4, <3>1, <3>3, <3>4 DEF Settled
  <2>5. Settled(x)'
    BY <1>1, <2>4 DEF Settled
  <2>6. Open(x)'
    BY <1>2, <2>1 DEF Open, Recovering
  <2> QED
    BY <1>1, <2>5, <2>6 DEF Good, Ids
<1> QED
  BY <1>11, <1>12

\* its script and its resources are removed,
LEMMA SingleClearGood ==
    ASSUME Types, NEW x \in Ids, Good(x), SingleClear
    PROVE  Good(x)'
<1>1. /\ Types' /\ InSingle("clear") /\ op'.pc = "drop" /\ Stays
      /\ UNCHANGED <<manifest, resources, releases, backup, journal, kind, used>>
  BY SingleClearTypes DEF Went
<1>2. /\ x = op.id /\ x # 0 /\ x \in Pubs /\ kind[x] = "single" /\ op.pc = "clear"
      /\ SingleBase(x) /\ SingleFiles(x) /\ Noted(x)
      /\ \E e \in Exam : op.exams = {e} /\ op.cur = {e}
  BY <1>1, SingleParts DEF OwnSteps
<1>3. PICK e \in op.cur :
         /\ e \in Exam /\ script'[e] = 0 /\ \A d \in Exam : d # e => script'[d] = script[d]
  BY SingleClearTypes
<1>4. script[e] \in {0, x}
  BY <1>2, <1>3 DEF SingleFiles
<1>5. BaseOf(x)' = BaseOf(x)
  BY <1>1 DEF BaseOf
<1>6. \A d \in Exam : ResIn(x, d)' = ResIn(x, d)
  BY <1>1 DEF ResIn
<1>7. \A d \in Exam : ScriptIn(x, d)' = ScriptIn(x, d) \/ ScriptIn(x, d) \in {0, x}
  BY <1>1, <1>3, <1>4 DEF ScriptIn
<1>8. Noted(x)'
  BY <1>1, <1>2 DEF Noted
<1>9. SingleBase(x)'
  BY <1>1, <1>2 DEF SingleBase, Stays, Alike
<1>10. SingleFiles(x)'
  BY <1>1, <1>2 DEF SingleFiles, Stays, Alike
<1> QED
  BY <1>1, <1>2, <1>5, <1>6, <1>7, <1>8, <1>9, <1>10, SingleMovesOn DEF OwnSteps

LEMMA SingleDropGood ==
    ASSUME Types, NEW x \in Ids, Good(x), SingleDrop
    PROVE  Good(x)'
<1>1. /\ Types' /\ InSingle("drop") /\ op'.pc = "back" /\ Stays
      /\ UNCHANGED <<manifest, script, releases, backup, journal, kind, used>>
  BY SingleDropTypes DEF Went
<1>2. /\ x = op.id /\ x # 0 /\ x \in Pubs /\ kind[x] = "single" /\ op.pc = "drop"
      /\ SingleBase(x) /\ SingleFiles(x) /\ Noted(x)
      /\ \E e \in Exam : op.exams = {e} /\ op.cur = {e}
  BY <1>1, SingleParts DEF OwnSteps
<1>3. PICK e \in op.cur :
         /\ e \in Exam /\ resources'[e] = 0 /\ \A d \in Exam : d # e => resources'[d] = resources[d]
  BY SingleDropTypes
<1>4. resources[e] \in {0, x}
  BY <1>2, <1>3 DEF SingleFiles
<1>5. BaseOf(x)' = BaseOf(x)
  BY <1>1 DEF BaseOf
<1>6. \A d \in Exam : ScriptIn(x, d)' = ScriptIn(x, d)
  BY <1>1 DEF ScriptIn
<1>7. \A d \in Exam : ResIn(x, d)' = ResIn(x, d) \/ ResIn(x, d) \in {0, x}
  BY <1>1, <1>3, <1>4 DEF ResIn
<1>8. Noted(x)'
  BY <1>1, <1>2 DEF Noted
<1>9. SingleBase(x)'
  BY <1>1, <1>2 DEF SingleBase, Stays, Alike
<1>10. SingleFiles(x)'
  BY <1>1, <1>2 DEF SingleFiles, Stays, Alike
<1> QED
  BY <1>1, <1>2, <1>5, <1>6, <1>7, <1>8, <1>9, <1>10, SingleMovesOn DEF OwnSteps

\* and those of the backup are put back,
LEMMA SingleBackGood ==
    ASSUME Types, NEW x \in Ids, Good(x), SingleBack
    PROVE  Good(x)'
<1>1. /\ Types' /\ InSingle("back") /\ op'.pc = "refit" /\ Stays /\ Only(op.id)
      /\ backup'[op.id].script = 0 /\ backup'[op.id].base = backup[op.id].base
      /\ backup'[op.id].state = backup[op.id].state
      /\ backup'[op.id].exams = backup[op.id].exams
      /\ backup'[op.id].dir = backup[op.id].dir
      /\ backup'[op.id].res = backup[op.id].res
      /\ UNCHANGED <<manifest, resources, releases, journal, kind, used>>
  BY SingleBackTypes DEF Went
<1>2. /\ x = op.id /\ x # 0 /\ x \in Pubs /\ kind[x] = "single" /\ op.pc = "back"
      /\ SingleBase(x) /\ SingleFiles(x) /\ Noted(x)
      /\ \E e \in Exam : op.exams = {e} /\ op.cur = {e}
  BY <1>1, SingleParts DEF OwnSteps
<1>3. PICK e \in op.cur :
         /\ e \in Exam
         /\ script'[e] = (IF backup[x].script = 0 THEN script[e] ELSE backup[x].script)
         /\ \A d \in Exam : d # e => script'[d] = script[d]
  BY <1>2, SingleBackTypes
<1>4. op.exams = {e} /\ op.cur = {e}
  BY <1>2, <1>3
<1>5. backup[x].exams = {e} /\ backup[x].dir /\ backup[x].state
  BY <1>2, <1>4 DEF SingleFiles
<1>6. BaseOf(x)' = BaseOf(x)
  BY <1>1, <1>2 DEF BaseOf
<1>7. \A d \in Exam : ResIn(x, d)' = ResIn(x, d)
  BY <1>1, <1>2 DEF ResIn
<1>8. \A d \in Exam : ScriptIn(x, d)' = ScriptIn(x, d)
  <2> SUFFICES ASSUME NEW d \in Exam
               PROVE  ScriptIn(x, d)' = ScriptIn(x, d)
    OBVIOUS
  <2>1. CASE d = e
    BY <1>1, <1>2, <1>3, <1>5, <2>1 DEF ScriptIn
  <2>2. CASE d # e
    BY <1>1, <1>2, <1>3, <1>5, <2>2 DEF ScriptIn
  <2> QED
    BY <2>1, <2>2
<1>9. Noted(x)'
  BY <1>1, <1>2 DEF Noted
<1>10. SingleBase(x)'
  BY <1>1, <1>2 DEF SingleBase, Stays, Alike
<1>11. SingleFiles(x)'
  BY <1>1, <1>2 DEF SingleFiles, Stays, Alike
<1> QED
  BY <1>1, <1>2, <1>6, <1>7, <1>8, <1>9, <1>10, <1>11, SingleMovesOn DEF OwnSteps, Only

LEMMA SingleRefitGood ==
    ASSUME Types, NEW x \in Ids, Good(x), SingleRefit
    PROVE  Good(x)'
<1>1. /\ Types' /\ InSingle("refit") /\ op'.pc = "show" /\ Stays /\ Only(op.id)
      /\ backup'[op.id].script = backup[op.id].script
      /\ backup'[op.id].base = backup[op.id].base
      /\ backup'[op.id].state = backup[op.id].state
      /\ backup'[op.id].exams = backup[op.id].exams
      /\ backup'[op.id].dir = backup[op.id].dir
      /\ UNCHANGED <<manifest, script, releases, journal, kind, used>>
  BY SingleRefitTypes DEF Went
<1>2. /\ x = op.id /\ x # 0 /\ x \in Pubs /\ kind[x] = "single" /\ op.pc = "refit"
      /\ SingleBase(x) /\ SingleFiles(x) /\ Noted(x)
      /\ \E e \in Exam : op.exams = {e} /\ op.cur = {e}
  BY <1>1, SingleParts DEF OwnSteps
<1>3. PICK e \in op.cur :
         /\ e \in Exam
         /\ resources'[e] = (IF backup[x].res[e] = 0 THEN resources[e] ELSE backup[x].res[e])
         /\ backup'[x].res[e] = 0
         /\ \A d \in Exam : d # e => /\ resources'[d] = resources[d]
                                     /\ backup'[x].res[d] = backup[x].res[d]
  BY <1>2, SingleRefitTypes
<1>4. op.exams = {e} /\ op.cur = {e}
  BY <1>2, <1>3
<1>5. backup[x].exams = {e} /\ backup[x].dir /\ backup[x].state
  BY <1>2, <1>4 DEF SingleFiles
<1>6. BaseOf(x)' = BaseOf(x)
  BY <1>1, <1>2 DEF BaseOf
<1>7. \A d \in Exam : ScriptIn(x, d)' = ScriptIn(x, d)
  BY <1>1, <1>2 DEF ScriptIn
<1>8. \A d \in Exam : ResIn(x, d)' = ResIn(x, d)
  <2> SUFFICES ASSUME NEW d \in Exam
               PROVE  ResIn(x, d)' = ResIn(x, d)
    OBVIOUS
  <2>1. CASE d = e
    BY <1>2, <1>3, <2>1 DEF ResIn
  <2>2. CASE d # e
    BY <1>2, <1>3, <2>2 DEF ResIn
  <2> QED
    BY <2>1, <2>2
<1>9. \A d \in Exam : backup'[x].res[d] = 0
  BY <1>2, <1>3, <1>5 DEF Noted
<1>10. Noted(x)'
  BY <1>9 DEF Noted
<1>11. SingleBase(x)'
  BY <1>1, <1>2 DEF SingleBase, Stays, Alike
<1>12. backup'[x].res = Nothing
  <2>1. backup'[x].res \in [Exam -> Ids]
    BY <1>1, <1>2 DEF Only, Backups
  <2> QED
    BY <1>9, <2>1 DEF Nothing
<1>13. SingleFiles(x)'
  BY <1>1, <1>2, <1>12 DEF SingleFiles, Stays, Alike
<1> QED
  BY <1>1, <1>2, <1>6, <1>7, <1>8, <1>10, <1>11, <1>13, SingleMovesOn DEF OwnSteps, Only

\* then the manifest.
LEMMA SingleShowGood ==
    ASSUME Types, NEW x \in Ids, Good(x), SingleShow
    PROVE  Good(x)'
<1>1. /\ Types' /\ InSingle("show") /\ SameButBase(op.id)
      /\ UNCHANGED <<script, resources, releases, journal, kind, used>>
  BY SingleShowTypes
<1>2. /\ x = op.id /\ x # 0 /\ x \in Pubs /\ Own /\ kind[x] = "single" /\ op.pc = "show"
      /\ op.rec = 0 /\ SingleKeeps(x) /\ SingleBase(x) /\ SingleFiles(x) /\ Settled(x)
      /\ Foreign(x, op.base) /\ Noted(x) /\ Restorable(x) /\ manifest.by # x
      /\ \E e \in Exam : op.exams = {e} /\ op.cur = {e}
  BY <1>1, SingleParts DEF OwnSteps
<1>3. /\ backup[x].base = op.base /\ backup[x].exams = op.exams /\ backup[x].state
      /\ op.live => manifest = NoManifest
      /\ ~op.live => manifest = op.base
      /\ op.stuck \/ (backup[x].script = 0 /\ backup[x].res = Nothing)
  BY <1>2 DEF SingleBase, SingleFiles
<1>4. \/ manifest' = op.base /\ backup'[x].base = NoManifest /\ op.base.by # 0
      \/ manifest' = manifest /\ backup'[x].base = op.base /\ (op.live => op.base.by = 0)
  BY <1>1, <1>2, <1>3, SingleShowTypes
<1>5. /\ BaseOf(x)' = BaseOf(x)
      /\ manifest' = manifest \/ (manifest' = BaseOf(x) /\ manifest'.by # 0)
  BY <1>1, <1>2, <1>3, <1>4 DEF BaseOf, NoManifest
<1>6. /\ backup'[x].script = backup[x].script /\ backup'[x].res = backup[x].res
      /\ backup'[x].exams = backup[x].exams /\ backup'[x].state = backup[x].state
      /\ \A p \in Pubs : p # x => backup'[p] = backup[p]
  BY <1>1, <1>2 DEF SameButBase, Only
<1>7. \A e \in Exam : ScriptIn(x, e)' = ScriptIn(x, e) /\ ResIn(x, e)' = ResIn(x, e)
  BY <1>1, <1>6 DEF ScriptIn, ResIn
<1>8. Restorable(x)' /\ Noted(x)'
  <2>1. Restorable(x)'
    BY <1>1, <1>2, <1>5, <1>7, RestorableKept
  <2> QED
    BY <1>2, <1>6, <2>1 DEF Noted
<1>9. manifest'.by # x
  BY <1>2, <1>4 DEF Foreign
<1>10. CASE ~op.stuck
  <2>1. op'.pc = "discard" /\ Stays
    BY <1>10, SingleShowTypes
  <2>2. ~Stranded(x)'
    BY <1>9 DEF Stranded
  <2>3. SingleKeeps(x)'
    BY <1>1, <1>2, <1>8, <2>1, <2>2, SingleKeepsOn
  <2>4. SingleBase(x)'
    BY <1>3, <1>4, <2>1 DEF SingleBase, Stays, Alike, NoManifest
  <2>5. SingleFiles(x)'
    BY <1>3, <1>6, <1>10, <2>1 DEF SingleFiles, Stays, Alike
  <2> QED
    BY <1>1, <1>5, <1>6, <2>1, <2>3, <2>4, <2>5, SingleGoesOn DEF OwnSteps
<1>11. CASE op.stuck
  <2>1. op' = Idle
    BY <1>11, SingleShowTypes
  <2>2. op'.rec = 0
    BY <2>1, IdleFacts
  <2>3. backup'[x].base.by # 0 => manifest' = backup'[x].base
    BY <1>3, <1>4 DEF NoManifest
  <2>4. LeftSingle(x)'
    BY <1>2, <1>3, <1>6, <1>8, <1>9, <2>2, <2>3 DEF LeftSingle, Stranded
  <2>5. Settled(x)'
    BY <1>1, <1>2, <1>5, <1>6, <2>1, SettledEnd, ZenonT(60)
  <2>6. x \in Left'
    BY <1>1, <1>2 DEF Left, SingleLeft, SingleKeeps
  <2> QED
    BY <1>1, <1>2, <2>1, <2>4, <2>5, <2>6, IdleGood
<1> QED
  BY <1>10, <1>11

\* A step of the rollback fails: the next one is tried, and the backup kept.
LEMMA SingleUndoFailsGood ==
    ASSUME Types, NEW x \in Ids, Good(x), SingleUndoFails, ~misled'
    PROVE  \E y \in Ids : Good(y)'
<1>1. Types' /\ UNCHANGED <<disk, kind, used>> /\ ~(op.pc = "hide" /\ op.live)
  BY SingleUndoFailsTypes
<1>2. PICK pc \in {"hide", "clear", "drop", "back", "refit", "show"} :
         /\ InSingle(pc)
         /\ IF pc = "show" THEN op' = Idle
            ELSE /\ op'.pc = UndoNext[pc] /\ Alike(op', op) /\ op'.cur = op.cur
                 /\ op'.rec = op.rec /\ op'.seen = op.seen
                 /\ op'.live = op.live /\ op'.failing = op.failing /\ op'.stuck = TRUE
  BY SingleUndoFailsTypes
<1>3. /\ x = op.id /\ x # 0 /\ x \in Pubs /\ Own /\ kind[x] = "single" /\ op.pc = pc
      /\ SingleKeeps(x) /\ SingleBase(x) /\ SingleFiles(x)
  BY <1>2, SingleOpen DEF OwnSteps, InSingle
<1>4. CASE pc = "show"
  BY <1>1, <1>2, <1>3, <1>4, SingleEnds
<1>5. CASE pc # "show"
  <2>1. /\ pc = "hide" => op'.pc = "clear"
        /\ pc = "clear" => op'.pc = "drop"
        /\ pc = "drop" => op'.pc = "back"
        /\ pc = "back" => op'.pc = "refit"
        /\ pc = "refit" => op'.pc = "show"
    BY <1>2, <1>5 DEF UndoNext
  <2>2. /\ Alike(op', op) /\ op'.cur = op.cur /\ op'.rec = op.rec /\ op'.seen = op.seen
        /\ op'.live = op.live /\ op'.failing = op.failing /\ op'.stuck
        /\ op'.pc \in {"clear", "drop", "back", "refit", "show"}
    BY <1>2, <1>5, <2>1
  <2>3. /\ Stranded(x)' = Stranded(x) /\ BaseOf(x)' = BaseOf(x)
        /\ \A e \in Exam : ScriptIn(x, e)' = ScriptIn(x, e) /\ ResIn(x, e)' = ResIn(x, e)
    BY <1>1 DEF Stranded, BaseOf, ScriptIn, ResIn, disk
  <2>4. (InPlace => InPlace') /\ (Restorable(x) => Restorable(x)')
    BY <1>1, <2>3, InPlaceKept, RestorableKept DEF disk
  <2>5. SingleKeeps(x)'
    BY <1>1, <1>3, <1>5, <2>2, <2>3, <2>4 DEF SingleKeeps, Noted, Foreign, Alike, disk
  <2>6. SingleBase(x)'
    BY <1>1, <1>3, <1>5, <2>2 DEF SingleBase, Alike, disk
  <2>7. SingleFiles(x)'
    <3>1. backup[x].dir /\ backup[x].state /\ backup[x].exams = op.exams
      BY <1>3 DEF SingleFiles
    <3>2. \A e \in op.exams : /\ op'.pc = "clear" => script[e] \in {0, x}
                              /\ op'.pc \in {"clear", "drop"} => resources[e] \in {0, x}
      BY <1>3, <1>5, <2>1 DEF SingleFiles
    <3> QED
      BY <1>1, <2>2, <3>1, <3>2 DEF SingleFiles, Alike, disk
  <2>8. Own' /\ OwnOpen(x)'
    BY <1>1, <1>3, <2>2, <2>5, <2>6, <2>7 DEF Own, OwnSteps, OwnOpen, Alike
  <2>9. Good(x)'
    BY <1>1, <1>3, <2>2, <2>3, <2>8, OwnGood DEF Alike, disk
  <2> QED
    BY <2>9
<1> QED
  BY <1>4, <1>5

-------------------------------------------------------------------------------
(* The exporter without a lock *)

\* An exam that the export adds is whole, and the others stay.
LEMMA LegacyFits ==
    ASSUME Types, ExportTypes, LegacyWrite, manifest = export.base
    PROVE  \A e \in Exam : \A r : Fits(manifest.entry[e], script[e], r) =>
             LET p == manifest'.entry[e] IN
             p # 0 => /\ IF kind'[p] = "batch" THEN p \in releases' ELSE script'[e] = p
                      /\ kind'[p] = "legacy" \/ r = p
<1>1. /\ kind'[used + 1] = "legacy" /\ UNCHANGED releases
      /\ \A p \in Ids : p = 0 \/ kind'[p] = kind[p]
      /\ \A e \in Exam : manifest.entry[e] \in Ids
  <2>1. /\ kind'[used + 1] = "legacy" /\ UNCHANGED releases
        /\ \A p \in Pubs : p # used + 1 => kind'[p] = kind[p]
        /\ \A p \in Ids : p # used + 1
    BY LegacyTypes
  <2>2. \A p \in Ids : p = 0 \/ p \in Pubs
    BY BoundFacts DEF Types
  <2>3. \A e \in Exam : manifest.entry[e] \in Ids
    BY DEF Types, DiskTypes, Written
  <2> QED
    BY <2>1, <2>2, <2>3
<1>2. PICK d \in Exam :
         /\ script'[d] = used + 1 /\ manifest'.entry[d] = used + 1
         /\ \A e \in Exam : e # d => script'[e] = script[e] /\ manifest'.entry[e] = manifest.entry[e]
  BY LegacyTypes
<1> SUFFICES ASSUME NEW e \in Exam, NEW r, Fits(manifest.entry[e], script[e], r),
                    manifest'.entry[e] # 0
             PROVE  /\ IF kind'[manifest'.entry[e]] = "batch" THEN manifest'.entry[e] \in releases'
                       ELSE script'[e] = manifest'.entry[e]
                    /\ kind'[manifest'.entry[e]] = "legacy" \/ r = manifest'.entry[e]
  OBVIOUS
<1>3. CASE e = d
  BY <1>1, <1>2, <1>3
<1>4. CASE e # d
  <2>1. manifest'.entry[e] = manifest.entry[e] /\ script'[e] = script[e]
    BY <1>2, <1>4
  <2>2. kind'[manifest.entry[e]] = kind[manifest.entry[e]]
    BY <1>1, <2>1
  <2> QED
    BY <1>1, <2>1, <2>2 DEF Fits
<1> QED
  BY <1>3, <1>4

LEMMA LegacyGood ==
    ASSUME Types, ExportTypes, NEW x \in Ids, Good(x), LegacyWrite, ~misled'
    PROVE  Good(x)'
<1>1. PICK n : n = used + 1
  OBVIOUS
<1>2. /\ Types' /\ used' = n /\ n \in Pubs
      /\ \A p \in Pubs : p # n => kind'[p] = kind[p]
      /\ \A p \in Ids : p # n
      /\ manifest'.by = n
      /\ \A e \in Exam : manifest'.entry[e] \in {n, manifest.entry[e]}
      /\ op' = op /\ UNCHANGED <<resources, releases, backup, journal>>
      /\ BeforeCheck /\ (\A p \in Left : p = op.id) /\ manifest = export.base
  BY <1>1, LegacyTypes
<1>3. x # n /\ op.id # n /\ op.base.by # n /\ op.id \in Ids /\ op.rec \in Ids
  BY <1>2 DEF Types, Ops, Written
<1>4. x \in Ids'
  BY <1>1, <1>2, BoundFacts DEF Ids, Types
<1>5. \A p \in Ids : p # 0 => p \in Pubs /\ kind'[p] = kind[p]
  BY <1>2, BoundFacts DEF Types
<1>6. Blank(n)
  BY <1>1, LegacyTypes
<1>7. Left' = Left
  <2>1. n \notin Left /\ n \notin Left'
    BY <1>2, <1>6 DEF Left, BatchLeft, SingleLeft, Blank, NoBackup
  <2> QED
    BY <1>2, <2>1 DEF Left, BatchLeft, SingleLeft
<1>8. Own' = Own /\ Recovering' = Recovering
  BY <1>2 DEF Own, Recovering
<1>9. \A e \in Exam : \A r : Fits(manifest.entry[e], script[e], r) =>
             LET p == manifest'.entry[e] IN
             p # 0 => /\ IF kind'[p] = "batch" THEN p \in releases' ELSE script'[e] = p
                      /\ kind'[p] = "legacy" \/ r = p
  BY <1>2, LegacyFits
<1>10. \A p : Foreign(p, manifest) /\ p # n => Foreign(p, manifest)'
  BY <1>2 DEF Foreign
<1>11. CASE ~Own
  <2>1. op.pc = "idle" \/ (op.pc = "recover" /\ ~op.failing)
    BY <1>2, <1>11 DEF BeforeCheck, At, Own, OwnSteps
  <2>2. op.rec = 0
    BY <2>1, IdleFacts DEF Types, Placed
  <2>3. op.pc = "recover" => /\ Waiting(x) /\ backup[op.id] = NoBackup /\ journal[op.id] = "none"
                             /\ op.id # 0
    BY <1>11, <2>1 DEF Good, Open, Recovering, Waiting, Types, Placed
  <2>4. op.pc = "idle" => op.id = 0
    BY IdleFacts DEF Types, Placed
  <2>5. op.id \notin Left
    BY <2>1, <2>3, <2>4 DEF Left, BatchLeft, SingleLeft, NoBackup, Pubs
  <2>6. Left = {} /\ x = 0
    BY <1>2, <1>11, <2>5 DEF Good, Open, LeftOpen
  <2>7. InPlace
    BY <1>11, <2>6 DEF Good, Open
  <2>8. InPlace'
    BY <1>2, <1>9, <2>7 DEF InPlace, Fits
  <2>9. Settled(0)'
    BY <1>2, <1>7, <2>1, <2>6 DEF Settled
  <2>10. Recovering => Waiting(0)'
    <3> SUFFICES ASSUME Recovering
                 PROVE  Waiting(0)'
      OBVIOUS
    <3>1. op.pc = "recover" /\ ~op.failing
      BY <2>1 DEF Recovering
    <3>2. Waiting(0) /\ op.id # 0
      BY <2>3, <2>6, <3>1
    <3>3. kind'[op.id] = kind[op.id]
      BY <1>3, <1>5, <3>2
    <3>4. BaseOf(0) = manifest /\ BaseOf(0)' = manifest'
      BY DEF BaseOf
    <3>5. /\ Foreign(op.id, manifest)
          /\ manifest'.by # op.id /\ \A e \in Exam : manifest'.entry[e] # op.id
      BY <1>2, <1>3, <3>1, <3>2 DEF Waiting, Foreign
    <3>6. ~op'.failing
      BY <1>2, <3>1
    <3> QED
      BY <1>2, <3>1, <3>2, <3>3, <3>4, <3>5, <3>6 DEF Waiting, Foreign
  <2>11. Open(0)'
    BY <1>2, <1>8, <1>11, <2>2, <2>8, <2>10 DEF Open
  <2> QED
    BY <1>4, <2>6, <2>9, <2>11 DEF Good
<1>12. CASE Own
  <2>1. op.pc = "stage" \/ (kind[op.id] = "batch" /\ op.pc \in {"state", "next", "stash", "place"})
    BY <1>2, <1>12, OwnFacts DEF BeforeCheck, At
  <2>2. x # 0
    BY <1>12, <2>1 DEF Good, Open, OwnDone
  <2>3. x = op.id /\ OwnOpen(x) /\ op.seen = {} /\ x \in Pubs /\ kind'[x] = kind[x]
    BY <1>5, <1>12, <2>2 DEF Good, Open, OwnOpen
  <2>4. \A p \in Left' : p = x
    BY <1>2, <1>7, <2>3
  <2>5. Settled(x)'
    BY <1>2, <2>1, <2>4 DEF Settled
  <2>6. CASE kind[x] = "batch"
    <3>1. BatchKeeps(x) /\ BatchAt(x) /\ backup[x].script = 0
      BY <2>3, <2>6 DEF OwnOpen, Types, DiskTypes
    <3>2. BaseOf(x) = manifest /\ BaseOf(x)' = manifest'
      BY <2>3, <2>6 DEF BaseOf
    <3>3. /\ \A e \in Exam : ScriptIn(x, e) = script[e] /\ ScriptIn(x, e)' = script'[e]
          /\ \A e \in Exam : ResIn(x, e)' = ResIn(x, e)
      BY <1>2, <3>1 DEF ScriptIn, ResIn
    <3>4. Restorable(x)'
      BY <1>9, <3>1, <3>2, <3>3 DEF BatchKeeps, Restorable, Fits
    <3>5. Foreign(x, manifest)' /\ Foreign(x, op.base)'
      BY <1>2, <1>3, <1>10, <3>1 DEF BatchKeeps, Foreign
    <3>6. BatchKeeps(x)'
      BY <1>2, <1>3, <3>1, <3>4, <3>5 DEF BatchKeeps, Noted, Pubs
    <3>7. BatchAt(x)'
      BY <1>2, <1>3, <2>1, <2>3, <3>1 DEF BatchAt
    <3>8. OwnOpen(x)'
      BY <1>2, <2>3, <2>6, <3>6, <3>7 DEF OwnOpen
    <3>9. Open(x)'
      BY <1>2, <1>8, <1>12, <2>2, <2>3, <3>8, OwnFacts DEF Open, Recovering
    <3> QED
      BY <1>4, <2>5, <3>9 DEF Good
  <2>7. CASE kind[x] # "batch"
    <3>1. /\ op.pc = "stage" /\ SingleKeeps(x) /\ SingleBase(x) /\ SingleFiles(x)
      BY <2>1, <2>3, <2>7 DEF OwnOpen
    <3>2. /\ backup[x] = NoBackup /\ backup[x].res = Nothing /\ backup[x].script = 0
          /\ backup[x].base.by = 0
      BY <3>1 DEF SingleFiles, NoBackup, NoManifest
    <3>3. ~Stranded(x) /\ ~Stranded(x)'
      BY <1>2, <1>3, <3>1 DEF Stranded, SingleBase, Foreign
    <3>4. BaseOf(x) = manifest /\ BaseOf(x)' = manifest'
      BY <1>2, <3>2 DEF BaseOf
    <3>5. \A e \in Exam : backup[x].res[e] = 0
      BY <3>2 DEF Nothing
    <3>6. /\ \A e \in Exam : ScriptIn(x, e) = script[e] /\ ScriptIn(x, e)' = script'[e]
          /\ \A e \in Exam : ResIn(x, e)' = ResIn(x, e)
      BY <1>2, <3>2 DEF ScriptIn, ResIn
    <3>7. Restorable(x)'
      BY <1>9, <3>1, <3>3, <3>4, <3>6 DEF SingleKeeps, Restorable, Fits
    <3>8. SingleKeeps(x)'
      BY <1>2, <3>1, <3>3, <3>7 DEF SingleKeeps, Noted, Foreign
    <3>9. Foreign(x, manifest)'
      BY <1>3, <1>10, <3>1 DEF SingleBase
    <3>10. SingleBase(x)'
      BY <1>2, <1>3, <3>1, <3>9 DEF SingleBase
    <3>11. SingleFiles(x)'
      BY <1>2, <3>1 DEF SingleFiles
    <3>12. OwnOpen(x)'
      BY <1>2, <2>3, <2>7, <3>8, <3>10, <3>11 DEF OwnOpen
    <3>13. Open(x)'
      BY <1>2, <1>8, <1>12, <2>2, <2>3, <3>12, OwnFacts DEF Open, Recovering
    <3> QED
      BY <1>4, <2>5, <3>13 DEF Good
  <2> QED
    BY <2>6, <2>7
<1> QED
  BY <1>11, <1>12

\* An export dies and has changed nothing.
LEMMA TornGood ==
    ASSUME Types, NEW x \in Ids, Good(x), LegacyTorn, ~misled'
    PROVE  Good(x)'
<1>1. PICK n : n = used + 1
  OBVIOUS
<1>2. /\ used' = n /\ n \in Pubs /\ Blank(n) /\ kind'[n] = "legacy"
      /\ \A p \in Pubs : p # n => kind'[p] = kind[p]
      /\ \A p \in Ids : p # n
      /\ op' = op /\ UNCHANGED <<manifest, script, resources, releases, backup, journal>>
  BY <1>1, TornTypes
<1>3. \A p \in Ids : p = 0 \/ (p \in Pubs /\ kind'[p] = kind[p])
  BY <1>2, BoundFacts DEF Types
<1>4. x \in Ids' /\ op.id \in Ids /\ op.rec \in Ids
  BY <1>1, <1>2, BoundFacts DEF Ids, Types, Ops
<1>5. x = 0 \/ kind'[x] = kind[x]
  BY <1>3
<1>6. Left' = Left /\ \A p \in Left : kind'[p] = kind[p]
  <2>1. n \notin Left /\ n \notin Left'
    BY <1>2 DEF Left, BatchLeft, SingleLeft, Blank, NoBackup
  <2> QED
    BY <1>2, <2>1 DEF Left, BatchLeft, SingleLeft
<1>7. /\ BaseOf(x)' = BaseOf(x) /\ Stranded(x)' = Stranded(x)
      /\ \A e \in Exam : ScriptIn(x, e)' = ScriptIn(x, e) /\ ResIn(x, e)' = ResIn(x, e)
  BY <1>2, <1>5 DEF BaseOf, Stranded, ScriptIn, ResIn
<1>8. ASSUME NEW p \in Ids, NEW s, NEW r
      PROVE  Fits(p, s, r)' <=> Fits(p, s, r)
  BY <1>2, <1>3 DEF Fits
<1>9. \A e \in Exam : manifest.entry[e] \in Ids /\ BaseOf(x).entry[e] \in Ids
  <2>1. manifest \in Written /\ (x # 0 => backup[x].base \in Written)
    BY <1>3 DEF Types, DiskTypes, Backups
  <2> QED
    BY <2>1 DEF BaseOf, Written
<1>10. (InPlace => InPlace') /\ (Restorable(x) => Restorable(x)')
  BY <1>2, <1>7, <1>8, <1>9 DEF InPlace, Restorable
<1>11. Own' = Own /\ Recovering' = Recovering
  BY <1>2 DEF Own, Recovering
<1>12. op.id = 0 \/ kind'[op.id] = kind[op.id]
  BY <1>3, <1>4
<1>13. OwnOpen(x) /\ x # 0 => OwnOpen(x)'
  BY <1>2, <1>5, <1>7, <1>10
     DEF OwnOpen, BatchKeeps, BatchAt, SingleKeeps, SingleBase, SingleFiles, Noted, Foreign
<1>14. LeftOpen(x) => LeftOpen(x)'
  BY <1>2, <1>5, <1>6, <1>7, <1>10 DEF LeftOpen, LeftBatch, LeftSingle, Noted, Foreign, Left,
     BatchLeft, SingleLeft, Pubs
<1>15. op.id # 0 /\ Waiting(x) => Waiting(x)'
  BY <1>2, <1>7, <1>12 DEF Waiting, Foreign
<1>16. op.id # 0 /\ OwnDone => OwnDone'
  BY <1>2, <1>10, <1>12 DEF OwnDone
<1>17. Own \/ Recovering => op.id # 0
  BY DEF Own, Recovering, OwnSteps, Types, Placed
<1>18. Open(x)'
  BY <1>2, <1>10, <1>11, <1>13, <1>14, <1>15, <1>16, <1>17 DEF Good, Open
<1>19. Settled(x)'
  <2>1. \A p : /\ Sure(p, x)' <=> Sure(p, x)
               /\ Harmless(p, x)' <=> Harmless(p, x)
    BY <1>2, <1>7 DEF Sure, Harmless, Never, Ahead, Recovering, Own, At, target
  <2>2. op.rec = 0 \/ kind'[op.rec] = kind[op.rec]
    BY <1>3, <1>4
  <2> QED
    BY <1>2, <1>6, <2>1, <2>2 DEF Good, Settled
<1> QED
  BY <1>4, <1>18, <1>19 DEF Good

\* Nothing changes, except perhaps what an export has read.
LEMMA SameGood ==
    ASSUME NEW x, Good(x), LegacyRead \/ UNCHANGED vars
    PROVE  Good(x)'
<1>1. /\ UNCHANGED <<manifest, script, resources, releases, backup, journal, kind, op, used>>
  BY ReadIs DEF vars
<1>2. /\ BaseOf(x)' = BaseOf(x) /\ Stranded(x)' = Stranded(x) /\ Left' = Left /\ Own' = Own
      /\ \A e \in Exam : ScriptIn(x, e)' = ScriptIn(x, e) /\ ResIn(x, e)' = ResIn(x, e)
  BY <1>1 DEF BaseOf, Stranded, Left, BatchLeft, SingleLeft, Own, ScriptIn, ResIn
<1>3. (InPlace => InPlace') /\ (Restorable(x) => Restorable(x)')
  BY <1>1, <1>2, InPlaceKept, RestorableKept
<1>4. OwnOpen(x) => OwnOpen(x)'
  BY <1>1, <1>2, <1>3 DEF OwnOpen, BatchKeeps, BatchAt, SingleKeeps, SingleBase, SingleFiles, Noted, Foreign
<1>5. LeftOpen(x) => LeftOpen(x)'
  BY <1>1, <1>2, <1>3 DEF LeftOpen, LeftBatch, LeftSingle, Noted, Foreign
<1>6. Waiting(x) => Waiting(x)'
  BY <1>1, <1>2 DEF Waiting, Foreign
<1>7. OwnDone => OwnDone'
  BY <1>1, <1>3 DEF OwnDone
<1>8. Open(x)'
  BY <1>1, <1>2, <1>3, <1>4, <1>5, <1>6, <1>7 DEF Good, Open, Recovering
<1>9. Settled(x)'
  BY <1>1, <1>2 DEF Good, Settled, Sure, Harmless, Never, Ahead, Recovering, Own, At, target
<1> QED
  BY <1>1, <1>8, <1>9 DEF Good, Ids

-------------------------------------------------------------------------------
(* The invariant *)

LEMMA InitSafe == Init => Safe
<1> SUFFICES ASSUME Init
             PROVE  Good(0)
  BY BoundFacts, InitTypes DEF Safe, Types
<1>1. /\ manifest = NoManifest /\ op = Idle /\ op.pc = "idle" /\ op.rec = 0
      /\ backup = [p \in Pubs |-> NoBackup] /\ journal = [p \in Pubs |-> "none"]
  BY IdleFacts DEF Init
<1>2. Left = {}
  BY <1>1 DEF Left, BatchLeft, SingleLeft, NoBackup
<1>3. InPlace
  BY <1>1 DEF InPlace, Fits, NoManifest, Nothing
<1>4. ~Own /\ ~Recovering
  BY <1>1 DEF Own, Recovering, OwnSteps
<1>5. Settled(0)
  BY <1>1, <1>2 DEF Settled
<1>6. Open(0)
  BY <1>1, <1>3, <1>4 DEF Open
<1> QED
  BY <1>5, <1>6, BoundFacts, InitTypes DEF Good, Types

\* What misled recovery stays.
LEMMA StaysMisled == [Next]_vars /\ ~misled' => ~misled
<1> SUFFICES ASSUME [Next]_vars, ~misled'
             PROVE  ~misled
  OBVIOUS
<1>1. CASE StartBatch \/ StartSingle
  BY <1>1, ZenonT(60) DEF StartBatch, StartSingle, Start
<1>2. CASE Recovery
  BY <1>2 DEF Recovery, RecoverBatch, RecoverSingle, RecoveryRefused, Recovered, Restore,
     RestoreManifest, Unrelease, DropPart, Discarded, Quiet
<1>3. CASE BatchStep
  BY <1>3, ZenonT(60) DEF BatchStep, BatchBaseline, BatchState, BatchNote, BatchVerify,
     BatchRelease, BatchFlag, BatchConflict, BatchStepFails, BatchFlagFails, BatchUndo, BatchUndoFails, Quiet, Fails
<1>4. CASE SingleStep
  BY <1>4 DEF SingleStep, SingleStage, SingleDir, SingleState, SingleCopy, SingleAside, SingleExam,
     SingleNote, SingleClose, SingleStateFails, SingleBackupFails, SingleInstallFails,
     SingleCloseFails, SingleHide, SingleClear, SingleDrop, SingleBack, SingleRefit, SingleShow,
     SingleUndoFails, Quiet, Fails
<1>5. CASE Stash \/ Place \/ Replace
  BY <1>5 DEF Stash, Place, Replace, Quiet
<1>6. CASE DiscardFails \/ RecoveryFails \/ Crash \/ LegacyRead \/ LegacyWrite \/ LegacyTorn
  BY <1>6 DEF DiscardFails, RecoveryFails, Crash, LegacyRead, LegacyWrite, LegacyTorn, Fails
<1>7. CASE UNCHANGED vars
  BY <1>7 DEF vars
<1> QED
  BY <1>1, <1>2, <1>3, <1>4, <1>5, <1>6, <1>7 DEF Next

LEMMA RecoveryStepGood ==
    ASSUME Types, NEW x \in Ids, Good(x), Recovery, ~misled'
    PROVE  \E y \in Ids : Good(y)'
<1>1. CASE RecoverBatch
  BY <1>1, RecoverBatchGood
<1>2. CASE RecoverSingle
  BY <1>2, RecoverSingleGood
<1>3. CASE RecoveryRefused
  BY <1>3, RecoveryEndsGood
<1>4. CASE Recovered
  BY <1>4, RecoveredGood
<1>5. CASE Restore
  BY <1>5, RestoreGood
<1>6. CASE RestoreManifest
  BY <1>6, RestoreManifestGood
<1>7. CASE Unrelease
  BY <1>7, UnreleaseGood
<1>8. CASE DropPart
  BY <1>8, DropPartGood
<1>9. CASE Discarded
  BY <1>9, RecDiscardedGood, OwnDiscardedGood
<1> QED
  BY <1>1, <1>2, <1>3, <1>4, <1>5, <1>6, <1>7, <1>8, <1>9 DEF Recovery

LEMMA BatchStepGood ==
    ASSUME Types, NEW x \in Ids, Good(x), BatchStep, ~misled'
    PROVE  \E y \in Ids : Good(y)'
<1>1. 0 \in Ids
  BY BoundFacts DEF Types
<1>2. CASE BatchBaseline
  BY <1>2, BatchBaselineGood
<1>3. CASE BatchState
  BY <1>3, BatchStateGood
<1>4. CASE BatchNote
  BY <1>4, BatchNoteGood
<1>5. CASE BatchVerify
  BY <1>5, BatchVerifyGood
<1>6. CASE BatchRelease
  BY <1>6, BatchReleaseGood
<1>7. CASE BatchFlag \/ BatchFlagFails
  BY <1>1, <1>7, BatchFlagGood
<1>8. CASE BatchConflict
  BY <1>8, BatchConflictTypes, BatchGivesUpGood
<1>9. CASE BatchStepFails
  BY <1>9, BatchStepFailsTypes, BatchGivesUpGood
<1>10. CASE BatchUndo
  BY <1>10, BatchUndoGood
<1>11. CASE BatchUndoFails
  BY <1>11, BatchUndoFailsGood
<1> QED
  BY <1>2, <1>3, <1>4, <1>5, <1>6, <1>7, <1>8, <1>9, <1>10, <1>11 DEF BatchStep

LEMMA SingleStepGood ==
    ASSUME Types, NEW x \in Ids, Good(x), SingleStep, ~misled'
    PROVE  \E y \in Ids : Good(y)'
<1>1. 0 \in Ids
  BY BoundFacts DEF Types
<1>2. CASE SingleStage \/ SingleDir \/ SingleState \/ SingleCopy \/ SingleAside \/ SingleExam \/ SingleNote
  BY <1>2, SingleStageGood, SingleDirGood, SingleStateGood, SingleCopyGood, SingleAsideGood,
     SingleExamGood, SingleNoteGood
<1>3. CASE SingleClose
  BY <1>1, <1>3, SingleCloseGood
<1>4. CASE SingleStateFails
  <2>1. Types' /\ InSingle("state") /\ op' = Idle /\ UNCHANGED <<disk, kind, used>>
    BY <1>4, SingleStateFailsTypes
  <2>2. Own /\ x # 0 /\ kind[op.id] = "single"
    BY <2>1, SingleOpen DEF OwnSteps, InSingle
  <2> QED
    BY <2>1, <2>2, SingleEnds
<1>5. CASE SingleBackupFails \/ SingleInstallFails \/ SingleCloseFails
  BY <1>5, SingleBackupFailsGood, SingleInstallFailsGood, SingleCloseFailsGood
<1>6. CASE SingleHide \/ SingleClear \/ SingleDrop \/ SingleBack \/ SingleRefit \/ SingleShow
  BY <1>6, SingleHideGood, SingleClearGood, SingleDropGood, SingleBackGood, SingleRefitGood,
     SingleShowGood
<1>7. CASE SingleUndoFails
  BY <1>7, SingleUndoFailsGood
<1> QED
  BY <1>2, <1>3, <1>4, <1>5, <1>6, <1>7 DEF SingleStep

LEMMA FilesStepGood ==
    ASSUME Types, NEW x \in Ids, Good(x), Stash \/ Place \/ Replace
    PROVE  \E y \in Ids : Good(y)'
<1>1. 0 \in Ids
  BY BoundFacts DEF Types
<1>2. kind[op.id] \in {"batch", "single"}
  <2>1. op.pc # "idle"
    BY StashTypes, PlaceTypes, ReplaceTypes
  <2> QED
    BY <2>1 DEF Types, Placed
<1>3. CASE Stash
  BY <1>2, <1>3, BatchStashGood, SingleStashGood
<1>4. CASE Place
  BY <1>2, <1>4, BatchPlaceGood, SinglePlaceGood
<1>5. CASE Replace
  BY <1>1, <1>2, <1>5, BatchReplaceGood, SingleReplaceGood
<1> QED
  BY <1>3, <1>4, <1>5

LEMMA NextSafe == Types /\ ExportTypes /\ Safe /\ [Next]_vars => Safe'
<1> SUFFICES ASSUME Types, ExportTypes, Safe, [Next]_vars, ~misled'
             PROVE  (\E y \in Ids : Good(y))'
  BY DEF Safe
<1>1. Types' /\ ~misled
  BY NextTypes, StaysMisled
<1>2. PICK x \in Ids : Good(x)
  BY <1>1 DEF Safe
<1>3. \E y : Good(y)'
  <2>1. CASE StartBatch
    <3>1. PICK S \in SUBSET Exam \ {{}} : Start("batch", S)
      BY <2>1 DEF StartBatch
    <3> QED
      BY <1>2, <3>1, StartGood
  <2>2. CASE StartSingle
    <3>1. PICK e \in Exam : Start("single", {e})
      BY <2>2 DEF StartSingle
    <3>2. {e} \in SUBSET Exam /\ \E d \in Exam : {e} = {d}
      OBVIOUS
    <3> QED
      BY <1>2, <3>1, <3>2, StartGood
  <2>3. CASE Recovery
    BY <1>2, <2>3, RecoveryStepGood
  <2>4. CASE BatchStep
    BY <1>2, <2>4, BatchStepGood
  <2>5. CASE SingleStep
    BY <1>2, <2>5, SingleStepGood
  <2>6. CASE Stash \/ Place \/ Replace
    BY <1>2, <2>6, FilesStepGood
  <2>7. CASE DiscardFails
    BY <1>2, <2>7, DiscardFailsGood
  <2>8. CASE RecoveryFails
    BY <1>2, <2>8, RecoveryEndsGood
  <2>9. CASE Crash
    BY <1>2, <2>9, CrashGood
  <2>10. CASE LegacyWrite \/ LegacyTorn
    BY <1>2, <2>10, LegacyGood, TornGood
  <2>11. CASE LegacyRead \/ UNCHANGED vars
    BY <1>2, <2>11, SameGood
  <2> QED
    BY <2>1, <2>2, <2>3, <2>4, <2>5, <2>6, <2>7, <2>8, <2>9, <2>10, <2>11 DEF Next
<1> QED
  BY <1>3 DEF Good

-------------------------------------------------------------------------------
(* The theorems *)

\* Whatever dies, fails or exports where, unless it is misled: at most one
\* publication is open, and putting its backup back, or nothing, leaves a
\* library whose exams are whole; every other one that was left is settled
\* (publish_items, publish_nas_package_v2, recover_incomplete_transactions).
THEOREM NasSound == Spec => []IInv
<1>1. Init => IInv
  <2>1. Init => ExportTypes
    BY InitTypes, BoundFacts DEF Init, NoExport, ExportTypes, Types
  <2> QED
    BY <2>1, InitTypes, InitSafe DEF IInv
<1>2. IInv /\ [Next]_vars => IInv'
  BY NextTypes, NextExport, NextSafe DEF IInv
<1> QED
  BY <1>1, <1>2, PTL DEF Spec

\* The model keeps its types: publications are numbered up to the bound, and
\* what is moved belongs to the exams of the publication that runs.
THEOREM NasTypes == Spec => []NasTypeOK
<1>1. IInv => NasTypeOK
  <2> SUFFICES ASSUME Types, ExportTypes
               PROVE  NasTypeOK
    BY DEF IInv
  <2>1. Ids \subseteq Publication
    BY BoundFacts DEF Types
  <2>2. Written \subseteq Manifests
    BY <2>1 DEF Written, Manifests
  <2>3. Backups \subseteq [dir : BOOLEAN, base : Manifests,
                           res : [Exam -> Publication], script : Publication,
                           state : BOOLEAN, committed : BOOLEAN,
                           hadManifest : BOOLEAN, exams : SUBSET Exam]
    BY <2>1, <2>2 DEF Backups
  <2>4. manifest \in Manifests /\ script \in [Exam -> Publication] /\ resources \in [Exam -> Publication]
    BY <2>1, <2>2 DEF Types, DiskTypes
  <2>5. backup \in [Pubs -> [dir : BOOLEAN, base : Manifests,
                             res : [Exam -> Publication], script : Publication,
                             state : BOOLEAN, committed : BOOLEAN,
                             hadManifest : BOOLEAN, exams : SUBSET Exam]]
    BY <2>3 DEF Types, DiskTypes
  <2>6. /\ op.id \in Publication /\ op.rec \in Publication
        /\ op.exams \subseteq Exam /\ op.cur \subseteq op.exams
    BY <2>1 DEF Types, Ops, Placed
  <2> QED
    BY <2>2, <2>4, <2>5, <2>6 DEF Types, DiskTypes, ExportTypes, NasTypeOK
<1> QED
  BY <1>1, NasSound, PTL

\* What the open publication x says about the library.
LEMMA GoodMeans ==
    ASSUME Types, NEW x, Good(x)
    PROVE  /\ \A p \in SingleLeft : p = x
           /\ (InPlace /\ BaseOf(x) = manifest) \/ (x # 0 /\ Restorable(x))
           /\ x # 0 => /\ x \in Pubs
                       /\ \A e \in Exam : backup[x].res[e] # 0 => x \in Left
                       /\ backup[x].script # 0 => x \in SingleLeft
                       /\ kind[x] = "single" /\ backup[x].base.by # 0 =>
                            /\ x \in SingleLeft
                            /\ \/ manifest = backup[x].base
                               \/ manifest = NoManifest
                               \/ /\ manifest.by = x
                                  /\ \A e \in Exam : manifest.entry[e] \in {x, backup[x].base.entry[e]}
<1>1. \A p \in SingleLeft : p = x
  BY DEF Good, Settled, Left, SingleLeft
<1>2. CASE x = 0
  <2>1. InPlace
    BY <1>2 DEF Good, Open, OwnDone
  <2> QED
    BY <1>1, <1>2, <2>1 DEF BaseOf
<1>3. CASE x # 0
  <2>1. x \in Pubs /\ (kind[x] = "batch" => backup[x].script = 0)
    BY <1>3, BoundFacts DEF Good, Types, DiskTypes
  <2>2. CASE Own
    <3>1. x = op.id /\ OwnOpen(x) /\ op.rec = 0
      BY <1>3, <2>2, OwnFacts DEF Good, Open, OwnOpen
    <3>2. kind[x] \in {"batch", "single"}
      BY <2>2, <3>1, OwnFacts DEF Types, Placed
    <3>3. CASE kind[x] = "batch"
      <4>1. Noted(x) /\ Restorable(x)
        BY <3>1, <3>3 DEF OwnOpen, BatchKeeps
      <4>2. \A e \in Exam : backup[x].res[e] # 0 => x \in Left
        BY <2>1, <3>3, <4>1 DEF Noted, Left, BatchLeft
      <4> QED
        BY <1>1, <1>3, <2>1, <3>3, <4>1, <4>2
    <3>4. CASE kind[x] = "single"
      <4>1. SingleKeeps(x) /\ SingleBase(x) /\ SingleFiles(x)
        BY <3>1, <3>4 DEF OwnOpen
      <4>2. (InPlace /\ BaseOf(x) = manifest) \/ Restorable(x)
        BY <4>1 DEF SingleKeeps, Stranded, BaseOf
      <4>3. CASE op.pc = "stage"
        <5>1. /\ \A e \in Exam : backup[x].res[e] = 0
              /\ backup[x].script = 0 /\ backup[x].base.by = 0
          BY <4>1, <4>3 DEF SingleFiles, NoBackup, NoManifest, Nothing
        <5> QED
          BY <1>1, <1>3, <2>1, <4>2, <5>1
      <4>4. CASE op.pc # "stage"
        <5>1. x \in SingleLeft
          BY <2>1, <3>4, <4>1, <4>4 DEF SingleKeeps, SingleLeft
        <5>2. LeftSingle(x)
          BY <1>3, <3>1, <4>1, <4>4, SingleLeaves
        <5> QED
          BY <1>1, <1>3, <2>1, <4>2, <5>1, <5>2 DEF LeftSingle, Left
      <4> QED
        BY <4>3, <4>4
    <3> QED
      BY <3>2, <3>3, <3>4
  <2>3. CASE ~Own
    <3>1. LeftOpen(x) /\ x \in Left
      BY <1>3, <2>3 DEF Good, Open, LeftOpen
    <3>2. CASE kind[x] = "batch"
      <4>1. Restorable(x)
        BY <3>1, <3>2 DEF LeftOpen, LeftBatch
      <4> QED
        BY <1>1, <1>3, <2>1, <3>1, <3>2, <4>1
    <3>3. CASE kind[x] # "batch"
      <4>1. LeftSingle(x) /\ x \in SingleLeft
        BY <3>1, <3>3 DEF LeftOpen, Left, BatchLeft
      <4>2. (InPlace /\ BaseOf(x) = manifest) \/ Restorable(x)
        BY <4>1 DEF LeftSingle, Stranded, BaseOf
      <4> QED
        BY <1>1, <1>3, <2>1, <3>1, <4>1, <4>2 DEF LeftSingle
    <3> QED
      BY <3>2, <3>3
  <2> QED
    BY <2>2, <2>3
<1> QED
  BY <1>2, <1>3

\* Whatever dies or fails where, the files of every listed exam still exist, in
\* place or in a backup that the next recovery puts back.
THEOREM FilesAreKept == Spec => []NothingLost
<1>1. IInv => NothingLost
  <2> SUFFICES ASSUME Types, Safe, ~misled, NEW e \in Exam, Target.entry[e] # 0
               PROVE  ScriptKept(e, Target.entry[e]) /\ ResourcesKept(e, Target.entry[e])
    BY DEF IInv, NothingLost
  <2>1. PICK x \in Ids : Good(x)
    BY DEF Safe
  <2>2. Target = BaseOf(x)
    <3>1. CASE Withdrawing = {}
      BY <2>1, <3>1, GoodMeans DEF Target, BaseOf, Withdrawing
    <3>2. CASE Withdrawing # {}
      <4>1. Withdrawing = {x}
        BY <2>1, <3>2, GoodMeans DEF Withdrawing
      <4>2. (CHOOSE p \in Withdrawing : TRUE) = x
        BY <4>1
      <4>3. x # 0 /\ kind[x] = "single" /\ backup[x].base.by # 0
        BY <4>1 DEF Withdrawing, SingleLeft, Pubs
      <4> QED
        BY <3>2, <4>2, <4>3 DEF Target, BaseOf
    <3> QED
      BY <3>1, <3>2
  <2>3. PICK p : p = BaseOf(x).entry[e]
    OBVIOUS
  <2>4. p # 0
    BY <2>2, <2>3
  <2>5. CASE InPlace /\ BaseOf(x) = manifest
    BY <2>2, <2>3, <2>4, <2>5 DEF InPlace, Fits, ScriptKept, ResourcesKept
  <2>6. CASE x # 0 /\ Restorable(x)
    <3>1. Fits(p, ScriptIn(x, e), ResIn(x, e))
      BY <2>3, <2>6 DEF Restorable
    <3>2. \/ ScriptIn(x, e) = script[e]
          \/ x \in SingleLeft /\ ScriptIn(x, e) = backup[x].script
      BY <2>1, <2>6, GoodMeans DEF ScriptIn
    <3>3. \/ ResIn(x, e) = resources[e]
          \/ x \in Left /\ ResIn(x, e) = backup[x].res[e]
      BY <2>1, <2>6, GoodMeans DEF ResIn
    <3>4. ScriptKept(e, p)
      BY <2>4, <3>1, <3>2 DEF Fits, ScriptKept
    <3>5. ResourcesKept(e, p)
      BY <2>4, <3>1, <3>3 DEF Fits, ResourcesKept
    <3> QED
      BY <2>2, <2>3, <3>4, <3>5
  <2> QED
    BY <2>1, <2>5, <2>6, GoodMeans
<1> QED
  BY <1>1, NasSound, PTL

\* When nobody publishes and nothing is left to recover, every listed exam has
\* script and resources of the publication its entry names.
THEOREM LibraryIsWhole == Spec => []WholeAtRest
<1>1. IInv => WholeAtRest
  <2> SUFFICES ASSUME Types, Safe, ~misled, op.pc = "idle", Left = {}, NEW e \in Exam
               PROVE  Whole(e)
    BY DEF IInv, WholeAtRest, At
  <2>1. PICK x \in Ids : Good(x)
    BY DEF Safe
  <2>2. x = 0 /\ ~Own
    BY <2>1 DEF Good, Open, LeftOpen, Own, OwnSteps
  <2>3. InPlace
    BY <2>1, <2>2 DEF Good, Open
  <2> QED
    BY <2>3 DEF InPlace, Fits, Whole
<1> QED
  BY <1>1, NasSound, PTL

\* A student who follows an entry written by a batch finds its script, also
\* while a publisher runs or after it died.
THEOREM EntriesHaveScripts == Spec => []ScriptsStay
<1>1. IInv => ScriptsStay
  <2> SUFFICES ASSUME Types, Safe, ~misled, NEW e \in Exam, NEW p, p = manifest.entry[e],
                      p # 0, kind[p] = "batch"
               PROVE  p \in releases
    BY DEF IInv, ScriptsStay
  <2>1. PICK x \in Ids : Good(x)
    BY DEF Safe
  <2>2. \/ InPlace /\ BaseOf(x) = manifest
        \/ Restorable(x)
    BY <2>1, GoodMeans
  <2>3. BaseOf(x).entry[e] = p => p \in releases
    BY <2>2 DEF InPlace, Restorable, Fits
  <2>4. CASE BaseOf(x) = manifest
    BY <2>3, <2>4
  <2>5. CASE BaseOf(x) # manifest
    <3>1. x # 0 /\ kind[x] = "single" /\ backup[x].base.by # 0 /\ BaseOf(x) = backup[x].base
      BY <2>5 DEF BaseOf
    <3>2. \/ manifest = NoManifest
          \/ \A d \in Exam : manifest.entry[d] \in {x, backup[x].base.entry[d]}
      BY <2>1, <2>5, <3>1, GoodMeans
    <3>3. manifest # NoManifest
      BY DEF NoManifest, Nothing
    <3>4. p \in {x, BaseOf(x).entry[e]}
      BY <3>1, <3>2, <3>3
    <3> QED
      BY <2>3, <3>1, <3>4
  <2> QED
    BY <2>4, <2>5
<1> QED
  BY <1>1, NasSound, PTL

\* The steps that write the manifest.
LEMMA ManifestMoves ==
    ASSUME [Next]_vars, manifest' # manifest
    PROVE  \/ Replace \/ RestoreManifest \/ SingleHide \/ SingleShow
           \/ LegacyWrite \/ LegacyTorn
<1>1. ~(StartBatch \/ StartSingle)
  BY ZenonT(60) DEF StartBatch, StartSingle, Start, disk
<1>2. Recovery => RestoreManifest
  BY DEF Recovery, RecoverBatch, RecoverSingle, RecoveryRefused, Recovered, Restore,
     Unrelease, DropPart, Discarded, disk
<1>3. ~BatchStep
  BY ZenonT(60) DEF BatchStep, BatchBaseline, BatchState, BatchNote, BatchVerify,
     BatchRelease, BatchFlag, BatchConflict, BatchStepFails, BatchFlagFails, BatchUndo, BatchUndoFails, disk
<1>4. SingleStep => SingleHide \/ SingleShow
  BY DEF SingleStep, SingleStage, SingleDir, SingleState, SingleCopy, SingleAside, SingleExam,
     SingleNote, SingleClose, SingleStateFails, SingleBackupFails, SingleInstallFails,
     SingleCloseFails, SingleClear, SingleDrop, SingleBack, SingleRefit, SingleUndoFails, disk
<1>5. ~(Stash \/ Place)
  BY DEF Stash, Place
<1>6. ~(DiscardFails \/ RecoveryFails \/ Crash)
  BY DEF DiscardFails, RecoveryFails, Crash, disk
<1>7. ~(UNCHANGED vars) /\ ~LegacyRead
  BY ReadIs DEF vars
<1> QED
  BY <1>1, <1>2, <1>3, <1>4, <1>5, <1>6, <1>7 DEF Next

ByWhole == manifest' # manifest /\ ~misled => Appears \/ Exported \/ Torn \/ Withdrawn

LEMMA MovesByWhole == IInv /\ [Next]_vars => ByWhole
<1> SUFFICES ASSUME Types, ExportTypes, Safe, [Next]_vars, manifest' # manifest, ~misled
             PROVE  Appears \/ Exported \/ Torn \/ Withdrawn
  BY DEF IInv, ByWhole
<1>1. PICK x \in Ids : Good(x)
  BY DEF Safe
<1>2. CASE Replace
  <2>1. /\ op.pc = "replace" /\ op.rec = 0 /\ manifest'.by = op.id
        /\ \A e \in Exam : manifest'.entry[e] = IF e \in op.exams THEN op.id ELSE op.base.entry[e]
    BY <1>2, ReplaceTypes
  <2>2. Own /\ kind[op.id] \in {"batch", "single"}
    BY <2>1 DEF Own, OwnSteps, Types, Placed
  <2>3. x # 0
    BY <1>1, <2>1, <2>2 DEF Good, Open, OwnDone
  <2>4. OwnOpen(x) /\ x = op.id
    BY <1>1, <2>2, <2>3 DEF Good, Open, OwnOpen
  <2>5. manifest = op.base
    <3>1. CASE kind[x] = "batch"
      BY <2>1, <2>4, <3>1 DEF OwnOpen, BatchKeeps, BatchAt
    <3>2. CASE kind[x] # "batch"
      BY <2>1, <2>4, <3>2 DEF OwnOpen, SingleBase
    <3> QED
      BY <3>1, <3>2
  <2> QED
    BY <2>1, <2>5 DEF Appears
<1>3. CASE LegacyWrite
  <2>1. /\ used' = used + 1 /\ manifest'.by = used'
        /\ \A e \in Exam : manifest'.entry[e] \in {used', export.base.entry[e]}
    BY <1>3, LegacyTypes
  <2>2. used' # used
    BY <2>1, BoundFacts DEF Types
  <2> QED
    BY <2>1, <2>2 DEF Exported
<1>4. ASSUME NEW p, p # 0, p = x, kind[p] = "single", backup[p].base.by # 0, manifest' = backup[p].base
      PROVE  Withdrawn
  <2>1. /\ p \in SingleLeft
        /\ manifest = backup[p].base \/ manifest = NoManifest \/ manifest.by = p
    BY <1>1, <1>4, GoodMeans
  <2>2. manifest.by \in {0, p, backup[p].base.by}
    BY <2>1 DEF NoManifest
  <2> QED
    BY <1>4, <2>1, <2>2 DEF Withdrawn
<1>5. CASE RestoreManifest
  <2>1. op.pc = "restore" /\ op.rec # 0
    BY <1>5 DEF RestoreManifest, At, Types, Placed
  <2>2. target = op.rec
    BY <2>1 DEF target
  <2>3. kind[op.rec] = "single" /\ backup[op.rec].base.by # 0 /\ manifest' = backup[op.rec].base
    <3>1. PutsBase(op.rec) /\ manifest' = backup[op.rec].base
      BY <1>5, RestoreManifestTypes
    <3>2. kind[op.rec] \in {"batch", "single"}
      BY <2>1 DEF Types, Placed
    <3> QED
      BY <1>1, <2>1, <3>1, <3>2, BatchKeepsManifest DEF PutsBase
  <2>4. op.rec = x
    BY <1>1, <2>1, <2>3, RestoreOpen
  <2> QED
    BY <1>4, <2>1, <2>3, <2>4
<1>6. CASE SingleHide
  <2>1. InSingle("hide") /\ op.live /\ manifest' = NoManifest
    BY <1>6, SingleHideTypes
  <2>2. /\ x \in Pubs /\ kind[x] = "single" /\ op.pc = "hide" /\ SingleBase(x) /\ journal[x] = "open"
    BY <1>1, <2>1, SingleParts DEF OwnSteps
  <2>3. x \in SingleLeft /\ manifest.by = x
    BY <2>1, <2>2 DEF SingleLeft, SingleBase
  <2> QED
    BY <2>1, <2>3 DEF Withdrawn
<1>7. CASE SingleShow
  <2>1. InSingle("show") /\ backup[op.id].base.by # 0 /\ manifest' = backup[op.id].base
    BY <1>7, SingleShowTypes
  <2>2. x = op.id /\ x # 0 /\ kind[x] = "single"
    BY <1>1, <2>1, SingleOpen DEF OwnSteps
  <2> QED
    BY <1>4, <2>1, <2>2
<1>8. CASE LegacyTorn
  <2>1. used' = used + 1 /\ manifest' = NoManifest
    BY <1>8, TornTypes
  <2>2. used' # used
    BY <2>1, BoundFacts DEF Types
  <2> QED
    BY <2>1, <2>2 DEF Torn
<1> QED
  BY <1>2, <1>3, <1>5, <1>6, <1>7, <1>8, ManifestMoves

\* The manifest changes by whole publications: a publisher that holds the lock
\* builds on the entries that are live, whatever exports there are, and a
\* recovery takes back only a single publication, never a committed batch.  An
\* export puts its entry over what it read, or leaves no manifest when it dies.
THEOREM WholePublications == Spec => ByWholePublications
<1>1. [ByWhole]_vars =>
        [manifest' # manifest /\ ~misled => Appears \/ Exported \/ Torn \/ Withdrawn]_vars
  BY DEF ByWhole
<1>2. Spec => [][ByWhole]_vars
  <2>1. IInv /\ [Next]_vars => [ByWhole]_vars
    BY MovesByWhole
  <2> QED
    BY <2>1, NasSound, PTL DEF Spec
<1> QED
  BY <1>1, <1>2, PTL DEF ByWholePublications
===============================================================================
