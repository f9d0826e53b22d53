--------------------------- MODULE EditorSession ---------------------------
(* One editor window on one library item (useCanonicalEditor.ts with          *)
(* conflictRecovery.ts and remoteVersion.ts) against the transaction that      *)
(* takes its saves and the reads that answer its loads (repository.rs,         *)
(* library/commands.rs), while machines and another window write too.          *)
(* A patch is an edit with a number; whether it still applies to a newer draft *)
(* is a choice.  The draft on the screen is known by the version it was read   *)
(* at, with the edits of the session on top.  Titles, the undo stack and a draft that *)
(* is not seeded yet are left out.  JavaScript runs to the next await, so that *)
(* the save loop goes from an answer to its next request in one step.          *)
EXTENDS Naturals, Sequences, SequencesExt

CONSTANTS
    None,
    RecentKept,                       \* rows of the journal that a read returns
    MaxEdits, MaxWrites, MaxMishaps   \* bounds of the model

ASSUME EditorAssumption ==
    RecentKept \in Nat /\ MaxEdits \in Nat /\ MaxWrites \in Nat /\ MaxMishaps \in Nat

\* None is none of the values that may be missing.
SomeBatch == [base : Nat, req : Nat, edits : Seq(Nat)]
ASSUME NoneAssumption ==
    /\ None \notin Nat \cup Seq(Nat) \cup SomeBatch \cup [base : Nat, edits : Seq(Nat)]
    /\ None \notin [version : Nat, pending : Seq(Nat), batch : SomeBatch \cup {None}]

VARIABLES
    log,        \* the committed transactions: row k has base_version k
    locked,     \* cloud_review_in_progress: "no", "yes", "over"
    heard,      \* the newest version that a notification told of
    wire,       \* saves on their way to the server
    answer,     \* what the server said to the save that the page waits for
    reads,      \* reads of the item under way, by the version they were asked at
    s,          \* the refs and the state of the hook
    stored,     \* the recovery record in localStorage
    mishaps,    \* what seldom happens, so far
    made,       \* edits made so far
    late,       \* of those: made while a rebase waited for the newest draft
    gone,       \* of those: given up by the user, or reported as not applied
    twice,      \* of those: replayed by recoverFromConflict though stored
    behind      \* the draft comes from a read that was overtaken

serverVars == <<log, locked, heard>>
netVars    == <<wire, answer, reads>>
ghosts     == <<made, late, gone, twice, behind>>
vars == <<serverVars, netVars, s, stored, mishaps, ghosts>>

(* The journal and the drafts it leads to ***********************************)

Edits    == 1 .. MaxEdits
Versions == 1 .. MaxWrites + 1
Version  == Len(log) + 1

StoredEdits == UNION {ToSet(log[k].edits) : k \in DOMAIN log}
SentEdits   == UNION {ToSet(q.batch.edits) : q \in {q \in wire : q.mine}}

\* A draft that was read at version `seen` has the commits of others below v.
Shows(seen, v) == \A k \in 1 .. v - 1 : k < seen \/ log[k].by = "session"

(* The session **************************************************************)

\* outstandingCommands: the batch that was sent, then what came after it
OutstandingOf(x) == (IF x.batch = None THEN <<>> ELSE x.batch.edits) \o x.pending
Outstanding      == OutstandingOf(s)

Loaded  == s.seen # None
NoReads == [load |-> None, rebase |-> None, recover |-> None]

Mounted ==
    [seen |-> None, version |-> 0, pending |-> <<>>, batch |-> None,
     persist |-> "idle", tried |-> FALSE, expected |-> 0, held |-> FALSE,
     deferred |-> None, saveState |-> "saved", auto |-> None, taken |-> None,
     sawLock |-> FALSE]

Init ==
    /\ log = <<>> /\ locked = "no" /\ heard = Version
    /\ wire = {} /\ answer = "none" /\ reads = [NoReads EXCEPT !.load = Version]
    /\ s = Mounted /\ stored = None /\ mishaps = 0
    /\ made = 0 /\ late = {} /\ gone = {} /\ twice = {} /\ behind = FALSE

\* What is seldom happens MaxMishaps times at most.
Mishap == mishaps < MaxMishaps /\ mishaps' = mishaps + 1
MishapIf(p) == IF p THEN Mishap ELSE UNCHANGED mishaps

\* checkpoint: what is not accepted yet goes into localStorage
Checkpoint(x) ==
    /\ s' = x
    /\ stored' = IF x.seen # None /\ OutstandingOf(x) # <<>>
                 THEN [version |-> x.version, pending |-> x.pending, batch |-> x.batch]
                 ELSE None

\* deferRemoteVersion: 0 is a version that could not be read
Deferring(x, v) ==
    [x EXCEPT !.deferred = CASE @ = None -> v
                             [] v = 0 \/ @ = 0 -> 0
                             [] @ \notin {None, 0} /\ v > @ -> v
                             [] OTHER -> @]

\* requestReload: the answer to an older load no longer counts
Reloading(x) ==
    /\ s' = [x EXCEPT !.deferred = None]
    /\ reads' = [reads EXCEPT !.load = Version]

(* The server ***************************************************************)

Commit(by, req, edits) ==
    /\ Version <= MaxWrites
    /\ log' = Append(log, [by |-> by, req |-> req, edits |-> edits])

\* Machines write under the lock as well, people do not.
OtherWrite(by) ==
    /\ by = "window" => locked # "yes"
    /\ Commit(by, 0, <<>>)
    /\ UNCHANGED <<locked, heard, netVars, s, stored, mishaps, ghosts>>

\* One cloud review
SwitchLock ==
    /\ \/ locked = "no" /\ locked' = "yes" /\ Mishap
       \/ locked = "yes" /\ locked' = "over" /\ UNCHANGED mishaps
    /\ UNCHANGED <<log, heard, netVars, s, stored, ghosts>>

\* Mutant: the journal is not asked for the request
ServedNever(req) == {}

\* The row of a request that was committed already
Served(req) == {k \in DOMAIN log : log[k].req = req}

\* apply_editor_commands_tx: the request was served already, or the version
\* is another one, or people are locked out
Verdict(b) ==
    IF Served(b.req) # {}
    THEN IF \A k \in Served(b.req) : k = b.base /\ log[k].edits = b.edits
         THEN "replayed" ELSE "reused"
    ELSE IF b.base # Version THEN "conflict"
    ELSE IF locked = "yes" THEN "locked" ELSE "committed"

\* The save of a page that is gone is served too, but nobody hears the answer.
Serve(q) ==
    /\ wire' = wire \ {q}
    /\ \E verdict \in {Verdict(q.batch), "busy"} :
          /\ MishapIf(verdict = "busy")
          /\ IF verdict = "committed" THEN Commit("session", q.batch.req, q.batch.edits)
             ELSE UNCHANGED log
          /\ answer' = IF q.mine THEN verdict ELSE answer
    /\ UNCHANGED <<locked, heard, reads, s, stored, ghosts>>

\* Mutant: the draft is read before the version
AnswersDraftFirst(r) ==
    IF reads[r] = None THEN {}
    ELSE {read \in [version : reads[r] .. Version, seen : reads[r] .. Version] :
            read.seen <= read.version}

\* get_workspace_item reads the row with its version, then the draft, at some
\* time between question and answer.
Answers(r) ==
    IF reads[r] = None THEN {}
    ELSE {read \in [version : reads[r] .. Version, seen : reads[r] .. Version] :
            read.version <= read.seen}

(* The save loop ************************************************************)

\* crypto.randomUUID: an id that nothing has
FreshId == CHOOSE n \in 1 .. MaxWrites + MaxMishaps + 3 :
    /\ \A k \in DOMAIN log : log[k].req # n
    /\ \A q \in wire : q.batch.req # n

\* Mutant: a version that could not be read is no reason to read again
StillNewerKnown(x) == x.deferred # None /\ x.deferred > x.version

\* shouldApplyDeferredRemoteRefresh
StillNewer(x) == x.deferred # None /\ (x.deferred = 0 \/ x.deferred > x.version)

\* persist: the loop sends the batch, a new one when there is none.  When
\* nothing is left it ends, and what was put off meanwhile is read.
Loop(x, asked) ==
    IF OutstandingOf(x) # <<>>
    THEN LET b == IF x.batch # None THEN x.batch
                  ELSE [base |-> x.version, req |-> FreshId, edits |-> x.pending]
         IN  /\ Checkpoint([x EXCEPT !.batch = b, !.persist = "sent", !.saveState = "saving",
                                     !.expected = b.base + 1,
                                     !.pending = IF x.batch = None THEN <<>> ELSE @])
             /\ wire' = wire \cup {[batch |-> b, mine |-> TRUE]}
             /\ reads' = asked
    ELSE /\ s' = [x EXCEPT !.persist = "idle", !.tried = FALSE, !.saveState = "saved",
                           !.deferred = None, !.taken = IF asked.recover = None THEN None ELSE @]
         /\ stored' = IF x.seen = None THEN stored ELSE None
         /\ reads' = IF StillNewer(x) THEN [asked EXCEPT !.load = Version] ELSE asked
         /\ UNCHANGED wire

\* A caller of persist starts the loop, or joins the one that runs.
Persist(x, asked) ==
    IF x.persist = "idle" THEN Loop(x, asked)
    ELSE Checkpoint(x) /\ reads' = asked /\ UNCHANGED wire

Saved ==
    /\ s.persist = "sent" /\ answer \in {"committed", "replayed"}
    /\ Loop([s EXCEPT !.version = s.expected, !.expected = 0, !.batch = None,
                     !.held = FALSE], reads)
    /\ answer' = "none"
    /\ UNCHANGED <<serverVars, mishaps, ghosts>>

\* Mutants: the save that was refused is forgotten; the rebase is not ended
FailedDropping(x, state) ==
    [x EXCEPT !.persist = "idle", !.tried = FALSE, !.auto = None, !.batch = None,
              !.saveState = state]
FailedInRebase(x, state) == [x EXCEPT !.persist = "idle", !.tried = FALSE, !.saveState = state]

\* The loop ends with an error, for which there are buttons ("conflict" and
\* "failed" differ in wording only), or to wait for the end of the review;
\* recoverFromConflict reports every error of its save as "failed".
Failed(x, state) ==
    LET recovering == x.taken # None /\ reads.recover = None IN
    [x EXCEPT !.persist = "idle", !.tried = FALSE, !.auto = None,
              !.taken = IF recovering THEN None ELSE @,
              !.saveState = IF recovering THEN "failed" ELSE state]

\* A notification held back during a save that failed is another writer's.
Unheld(x) ==
    [(IF x.held /\ x.expected > x.version THEN Deferring(x, x.expected) ELSE x)
        EXCEPT !.held = FALSE, !.expected = 0]

Refused ==
    /\ s.persist = "sent" /\ answer \in {"conflict", "locked", "busy", "reused"}
    /\ answer' = "none"
    /\ IF answer = "conflict" /\ ~s.tried
       THEN /\ s' = [Unheld(s) EXCEPT
                       !.persist = "rebase", !.tried = TRUE,
                       !.auto = [base |-> IF s.batch = None THEN s.version ELSE s.batch.base,
                                 edits |-> Outstanding]]
            /\ reads' = [reads EXCEPT !.rebase = Version]
            /\ UNCHANGED stored
       ELSE /\ Checkpoint(Failed(Unheld(s), IF answer = "locked" THEN "locked" ELSE "failed"))
            /\ UNCHANGED reads
    /\ UNCHANGED <<serverVars, wire, mishaps, ghosts>>

(* Rebase *******************************************************************)

\* A read that is adopted though it is older than what the session has, or
\* than a notification that is put off and forgotten with it, or while the
\* save loop runs
Overtaken(x, read) ==
    \/ read.version < x.version
    \/ x.seen # None /\ read.seen < x.seen
    \/ x.deferred # None /\ read.version < heard
    \/ x.persist # "idle"

\* rebasePendingPatches: the edits are applied up to the first that no longer
\* fits the draft that was read.
Fitting(x, read, edits) ==
    {n \in 0 .. Len(edits) : read.seen = x.seen => n = Len(edits)}

\* adoptRebase: the user is told of the edits that were not applied.
Adopted(x, read, edits, n) ==
    [x EXCEPT !.seen = read.seen, !.version = read.version, !.deferred = None,
              !.batch = None, !.pending = SubSeq(edits, 1, n)]

Adopt(x, read, edits, asked) ==
    \E n \in Fitting(x, read, edits) :
        /\ Persist(Adopted(x, read, edits, n), asked)
        /\ gone' = gone \cup ToSet(SubSeq(edits, n + 1, Len(edits)))
        /\ behind' = (behind \/ Overtaken(x, read))

Recent(read) == {k \in DOMAIN log : k < read.seen /\ k + RecentKept >= read.seen}

\* Mutant: rows that are missing count as machine rows
MachineOnlyOfKnown(base, read) ==
    /\ read.version > base
    /\ \A k \in Recent(read) : k \in base .. read.version - 1 => log[k].by = "machine"

\* conflictWasMachineOnly: a row that is missing proves nothing
MachineOnly(base, read) ==
    /\ read.version > base
    /\ \A k \in base .. read.version - 1 : k \in Recent(read) /\ log[k].by = "machine"

\* The loop goes on when only machines wrote; the user decides otherwise, or
\* when the draft could not be read.
AutoRebase ==
    LET asked == [reads EXCEPT !.rebase = None] IN
    /\ s.persist = "rebase"
    /\ \/ \E read \in Answers("rebase") :
             /\ MachineOnly(s.auto.base, read)
             /\ Adopt([s EXCEPT !.persist = "idle", !.auto = None], read, s.auto.edits, asked)
             /\ UNCHANGED mishaps
       \/ /\ MishapIf(\A read \in Answers("rebase") : MachineOnly(s.auto.base, read))
          /\ Checkpoint(Failed(s, "failed")) /\ reads' = asked
          /\ UNCHANGED <<wire, gone, behind>>
    /\ UNCHANGED <<serverVars, answer, made, late, twice>>

\* The buttons for a failed save
Buttons == s.saveState = "failed" /\ s.taken = None

\* recoverFromConflict, until it has asked for the item
Recover ==
    /\ Buttons
    /\ s' = [s EXCEPT !.taken = Outstanding]
    /\ reads' = [reads EXCEPT !.recover = Version]
    /\ UNCHANGED <<serverVars, wire, answer, stored, mishaps, ghosts>>

Recovered ==
    LET asked == [reads EXCEPT !.recover = None] IN
    /\ reads.recover # None
    /\ \/ /\ \E read \in Answers("recover") :
                Adopt([s EXCEPT !.saveState = "saved", !.taken = <<>>], read, s.taken, asked)
          /\ twice' = twice \cup (ToSet(s.taken) \cap (StoredEdits \cup SentEdits))
          /\ UNCHANGED mishaps
       \/ /\ Mishap
          /\ s' = [s EXCEPT !.saveState = "failed", !.taken = None] /\ reads' = asked
          /\ UNCHANGED <<wire, stored, gone, behind, twice>>
    /\ UNCHANGED <<serverVars, answer, made, late>>

\* discardLocalChanges
Discard ==
    /\ Buttons
    /\ s' = [s EXCEPT !.batch = None, !.pending = <<>>, !.version = 0,
                      !.saveState = "saved", !.deferred = None]
    /\ stored' = None
    /\ reads' = [reads EXCEPT !.load = Version]
    /\ gone' = gone \cup ToSet(Outstanding)
    /\ UNCHANGED <<serverVars, wire, answer, mishaps, made, late, twice, behind>>

(* Loads and notifications **************************************************)

\* Mutant: the edits of the record are queued anew on the draft that was read
ReplayedAnew(x, read) ==
    Persist([x EXCEPT !.version = read.version, !.pending = OutstandingOf(stored),
                      !.batch = None],
            [reads EXCEPT !.load = None])

\* What the recovery record holds is sent again as it was sent.
Replayed(x, read) ==
    Persist([x EXCEPT !.version = stored.version, !.pending = stored.pending,
                      !.batch = stored.batch, !.saveState = "failed"],
            [reads EXCEPT !.load = None])

\* The load effect
Load ==
    /\ \E read \in Answers("load") :
         LET x == [s EXCEPT !.seen = read.seen] IN
         /\ behind' = (behind \/ Overtaken(s, read))
         /\ IF stored # None THEN Replayed(x, read)
            ELSE /\ Checkpoint([x EXCEPT !.version = read.version])
                 /\ reads' = [reads EXCEPT !.load = None]
                 /\ UNCHANGED wire
    /\ UNCHANGED <<serverVars, answer, mishaps, made, late, gone, twice>>

\* decideRemoteVersionAction
Ignores(v) == v # 0 /\ v <= s.version

\* noteRemoteVersion: an event carries a version, or none when it could not be
\* read.  Events that are overtaken are dropped (acceptProcessingUpdate).
Hear(v) ==
    /\ v \in heard + 1 .. Version /\ heard' = v
    /\ \E incoming \in {0, v} :
          /\ MishapIf(incoming = 0)
          /\ IF ~Loaded THEN Reloading(s)
             ELSE IF s.persist = "sent" /\ incoming = s.expected
             THEN s' = [s EXCEPT !.held = TRUE] /\ UNCHANGED reads
             ELSE IF Ignores(incoming) THEN UNCHANGED <<s, reads>>
             ELSE IF Outstanding = <<>> THEN Reloading(s)
             ELSE s' = Deferring(s, incoming) /\ UNCHANGED reads
    /\ UNCHANGED <<log, locked, wire, answer, stored, ghosts>>

(* The user and the page ****************************************************)

\* enqueue; the page shows no controls while it knows of the cloud review
Type ==
    LET e == made + 1 IN
    /\ Loaded /\ ~s.sawLock /\ made < MaxEdits
    /\ made' = e
    /\ Checkpoint([s EXCEPT !.pending = Append(@, e), !.saveState = "saving"])
    /\ late' = IF reads.rebase # None \/ reads.recover # None THEN late \cup {e} ELSE late
    /\ UNCHANGED <<serverVars, netVars, mishaps, gone, twice, behind>>

\* The debounce timer, or a button that saves first (publish, preview, back)
Flush ==
    /\ Loaded /\ s.persist = "idle" /\ Outstanding # <<>>
    /\ Loop(s, reads)
    /\ UNCHANGED <<serverVars, answer, mishaps, ghosts>>

\* reload, once what is unsaved is saved
Refresh ==
    /\ Loaded /\ s.persist = "idle" /\ Outstanding = <<>>
    /\ Reloading(s)
    /\ Mishap
    /\ UNCHANGED <<serverVars, wire, answer, stored, ghosts>>

\* The page reads the state of the job; when the review ended it flushes.
LookAtLock ==
    LET x == [s EXCEPT !.sawLock = ~@] IN
    /\ s.sawLock # (locked = "yes")
    /\ IF s.sawLock THEN Persist(x, reads) ELSE s' = x /\ UNCHANGED <<reads, wire, stored>>
    /\ UNCHANGED <<serverVars, answer, mishaps, ghosts>>

\* The page is opened anew: when only the web view was reloaded, what was sent
\* is served still.
Crash ==
    /\ Mishap
    /\ s' = Mounted
    /\ reads' = [NoReads EXCEPT !.load = Version]
    /\ answer' = "none"
    /\ wire' \in {{}, {[q EXCEPT !.mine = FALSE] : q \in wire}}
    /\ heard' \in {heard, Version}
    /\ behind' = FALSE
    /\ UNCHANGED <<log, locked, stored, made, late, gone, twice>>

Next ==
    \/ \E by \in {"machine", "window"} : OtherWrite(by)
    \/ SwitchLock
    \/ \E q \in wire : Serve(q)
    \/ Saved \/ Refused
    \/ AutoRebase \/ Recover \/ Recovered \/ Discard
    \/ Load \/ \E v \in Versions : Hear(v)
    \/ Type \/ Flush \/ Refresh \/ LookAtLock \/ Crash

EditorSpec == Init /\ [][Next]_vars

(* Properties ***************************************************************)

Batch(b) == b.base \in 0 .. MaxWrites + 1 /\ b.req \in Nat /\ b.edits \in Seq(Edits)

\* Types; a rebase is under way exactly while the loop waits for one, and a save
\* is awaited exactly while a version is expected from it (persist).
EditorTypeOK ==
    /\ locked \in {"no", "yes", "over"} /\ heard \in Versions
    /\ \A q \in wire : Batch(q.batch) /\ q.mine \in BOOLEAN
    /\ s.version \in 0 .. MaxWrites + 1
    /\ s.pending \in Seq(Edits)
    /\ s.batch # None => Batch(s.batch)
    /\ (s.persist = "rebase") <=> (s.auto # None)
    /\ (s.persist = "rebase") <=> (reads.rebase # None)
    /\ (s.persist = "sent") <=> (s.expected > 0)
    /\ s.saveState \in {"saved", "saving", "failed", "locked"}

\* An edit is stored, given up by the user, reported as not applied, or still
\* there to be saved; `excused` are the edits this is not said of.
EditsKeptBut(excused) ==
    \A e \in 1 .. made :
        \/ e \in StoredEdits \cup gone \cup excused
        \/ e \in ToSet(Outstanding)
        \/ stored # None /\ e \in ToSet(OutstandingOf(stored))

\* No edit is lost silently: "绝不静默丢弃本地修改" (recoverFromConflict)
NoEditLost == EditsKeptBut({})

\* No edit is lost but one that was made while a rebase waited for the newest
\* draft: not by a refused save, a crash with a save on its way, a reload, a
\* rebase, or a notification.
EditsKept == EditsKeptBut(late)

\* An edit is stored once, however often its save was sent again after a crash,
\* an error or a conflict, unless recoverFromConflict put edits under a new
\* request id that the server had or was about to have.
StoredOnce ==
    \A j, k \in DOMAIN log :
        j # k => ToSet(log[j].edits) \cap ToSet(log[k].edits) \subseteq twice

\* A save is based on a version only if the commits of others below it are on
\* the screen: what the user cannot see is not overwritten.
SavesSawBase == s.batch # None /\ ~behind => Shows(s.seen, s.batch.base)

\* A conflict is never one of a save with itself: a save that was stored and is
\* sent again is acknowledged (apply_editor_commands_tx_with).
NoSelfConflict ==
    answer = "conflict" /\ s.batch # None /\ s.batch.base > 0
    => \E k \in DOMAIN log : k >= s.batch.base /\ log[k].req # s.batch.req

\* When all is quiet and nothing is unsaved, the screen shows what was heard of,
\* or says that the server has something newer (noteRemoteVersion).
ShowsNews ==
    Loaded /\ s.persist = "idle" /\ Outstanding = <<>> /\ reads = NoReads /\ ~behind
    => Shows(s.seen, heard) \/ s.deferred # None

\* The loop rebases by itself over commits of machines only, also over those
\* whose journal rows the answer did not have (conflictWasMachineOnly).
PeopleDecide ==
    [][s.auto # None /\ s'.auto = None /\ s'.seen # None /\ s'.saveState # "failed"
       => \A k \in s.auto.base .. s'.version - 1 : log[k].by = "machine"]_vars
=============================================================================
