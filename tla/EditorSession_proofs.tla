------------------------- MODULE EditorSession_proofs -------------------------
(* Proofs about EditorSession, for any number of edits, writes, mishaps and    *)
(* journal rows that a read returns.                                           *)
(*                                                                             *)
(* What is unsaved exists in up to three copies: the session's own, the edits  *)
(* that an automatic rebase took with it, and those that the user's recovery   *)
(* took with it.  No edit is lost because each of the copies that may come to  *)
(* be the session's holds everything that is not done with; no edit is stored  *)
(* twice because none of the copies has anything that the journal had before   *)
(* the version it is based on; and the screen and the news agree because every *)
(* version the session counts as its own, the one expected from a save on its  *)
(* way included, is on the screen but for its own commits.                     *)
EXTENDS EditorSession, TLAPS, SequenceTheorems, FiniteSetTheorems

Fields == DOMAIN Mounted
Asked  == DOMAIN NoReads
Known  == 1 .. made
Done   == late \cup StoredEdits \cup gone

Batches == [base : Nat, req : Nat \ {0}, edits : Seq(Edits) \ {<<>>}]
Rows    == [by : {"session", "machine", "window"}, req : Nat, edits : Seq(Edits)]

\* The journal: only the session's rows have edits and a request.
ServerOK ==
    /\ log \in Seq(Rows) /\ Len(log) <= MaxWrites
    /\ \A k \in DOMAIN log : log[k].by # "session" => log[k].req = 0 /\ log[k].edits = <<>>
    /\ StoredEdits \subseteq Known
    /\ locked \in {"no", "yes", "over"}
    /\ heard \in 1 .. Version
    /\ made \in 0 .. MaxEdits
    /\ mishaps \in 0 .. MaxMishaps

\* None of the edits E is in the journal before row v, unless it is excused.
Apart(E, v, excused) ==
    \A k \in DOMAIN log : k < v => E \cap ToSet(log[k].edits) \subseteq excused

OnceOK(excused) ==
    \A j, k \in DOMAIN log :
        j # k => ToSet(log[j].edits) \cap ToSet(log[k].edits) \subseteq excused

\* A save on its way is based on a version that was there; there are as many as
\* pages were left with one, and the one that this page waits for.
WireOK(excused) ==
    /\ \A q \in wire : /\ q \in [batch : Batches, mine : BOOLEAN]
                       /\ q.batch.base <= Version
                       /\ ToSet(q.batch.edits) \subseteq Known
                       /\ Apart(ToSet(q.batch.edits), q.batch.base, excused)
    /\ \A p, q \in wire : p.mine /\ q.mine => p = q
    /\ IsFiniteSet(wire)
    /\ Cardinality(wire) <= mishaps + 1
    /\ (\A q \in wire : ~q.mine) => Cardinality(wire) <= mishaps

\* What is to be saved, in the session and in the recovery record: none of it is
\* in the journal before the version it is based on.
WorkOK(w, excused) ==
    /\ w.version \in 0 .. Version
    /\ w.pending \in Seq(Edits) /\ ToSet(w.pending) \subseteq Known
    /\ Apart(ToSet(w.pending), w.version, excused)
    /\ w.batch # None =>
         /\ w.batch \in Batches /\ w.batch.base = w.version
         /\ ToSet(w.batch.edits) \subseteq Known
         /\ Apart(ToSet(w.batch.edits), w.version, excused)
         /\ ToSet(w.pending) \cap ToSet(w.batch.edits) \subseteq excused

\* The hook: its phases, and what is set in each of them
HookOK(x, r) ==
    /\ DOMAIN x = Fields /\ DOMAIN r = Asked
    /\ x.seen = None \/ x.seen \in Nat
    /\ x.deferred = None \/ x.deferred \in Nat
    /\ \A f \in Asked : r[f] = None \/ r[f] \in 1 .. Version
    /\ x.persist \in {"idle", "sent", "rebase"}
    /\ x.saveState \in {"saved", "saving", "failed", "locked"}
    /\ x.expected \in Nat
    /\ x.persist = "sent" <=> x.expected > 0
    /\ x.persist = "rebase" <=> x.auto # None
    /\ x.persist = "rebase" <=> r.rebase # None
    /\ x.held => x.persist = "sent"
    /\ x.taken # None => x.taken \in Seq(Edits) /\ ToSet(x.taken) \subseteq Known
    /\ r.recover # None => x.taken # None
    /\ x.seen = None => x.batch = None /\ x.pending = <<>> /\ x.version = 0
                        /\ x.persist = "idle" /\ x.saveState = "saved" /\ x.taken = None

\* A rebase takes with it what was unsaved at the conflict.
RebaseOK(x, excused) ==
    x.auto # None =>
      /\ x.auto.base \in 0 .. Version
      /\ x.auto.edits \in Seq(Edits) /\ ToSet(x.auto.edits) \subseteq Known
      /\ Apart(ToSet(x.auto.edits), x.auto.base, excused)

\* The save under way, by the version that is expected from it
SentOK(x, excused) ==
    x.persist = "sent" =>
      /\ x.expected <= Version + 1
      /\ x.batch # None => x.expected = x.version + 1
      /\ Apart(ToSet(x.pending), x.expected - 1, excused)

\* The answer to it, once there is one
AnswerOK(x, ans, excused) ==
    /\ ans \in {"none", "committed", "replayed", "conflict", "locked", "busy", "reused"}
    /\ ans # "none" => x.persist = "sent"
    /\ \A q \in wire : q.mine =>
         /\ x.persist = "sent" /\ ans = "none"
         /\ x.expected = q.batch.base + 1
         /\ x.batch # None => x.batch = q.batch
         /\ ToSet(x.pending) \cap ToSet(q.batch.edits) \subseteq excused
    /\ ans \in {"committed", "replayed"} =>
         /\ x.expected - 1 \in DOMAIN log
         /\ log[x.expected - 1].by = "session"
         /\ ToSet(x.pending) \cap ToSet(log[x.expected - 1].edits) \subseteq excused
         /\ x.batch # None => log[x.expected - 1].edits = x.batch.edits
    /\ ans = "conflict" /\ x.batch # None =>
         /\ x.batch.base < Version
         /\ x.batch.base > 0 => log[x.batch.base].req # x.batch.req

\* All edits are done with or in each of the copies that may take the place of
\* what is unsaved.
CopiesOK(x, r, done) ==
    /\ x.seen # None => Known \subseteq ToSet(OutstandingOf(x)) \cup done
    /\ x.auto # None => Known \subseteq ToSet(x.auto.edits) \cup done
    /\ r.recover # None => Known \subseteq ToSet(x.taken) \cup done

\* While nothing is read yet, the recovery record alone has what is not done with.
Kept(r, excused, done) ==
    /\ stored # None => /\ WorkOK(stored, excused) /\ OutstandingOf(stored) # <<>>
                        /\ r.load # None => stored.version <= r.load
                        /\ Known \subseteq ToSet(OutstandingOf(stored)) \cup done
    /\ stored = None => Known \subseteq done

\* Afterwards it says what the session has.
RecordOf(x) ==
    IF OutstandingOf(x) = <<>> THEN None
    ELSE [version |-> x.version, pending |-> x.pending, batch |-> x.batch]

StoredOK(x, r, excused, done) ==
    IF x.seen = None THEN Kept(r, excused, done) ELSE stored = RecordOf(x)

\* The screen shows what the session counts as read.
ViewOK(x) ==
    x.seen # None => /\ Shows(x.seen, x.version)
                     /\ x.persist = "sent" => Shows(x.seen, x.expected - 1)

\* What was heard of is on the screen, or something is left that will lead to it.
NewsOK(x, r) ==
    \/ x.seen # None /\ Shows(x.seen, heard)
    \/ x.seen # None /\ x.deferred # None /\ (x.deferred = 0 \/ x.deferred >= heard)
    \/ x.held /\ x.expected >= heard
    \/ r.load # None /\ r.load >= heard

\* The session x with the reads r, the answer ans, the excused edits and the edits
\* done with, when the draft on the screen is behind or not
Ready(x, r, ans, excused, done, stale) ==
    /\ WireOK(excused) /\ OnceOK(excused)
    /\ WorkOK(x, excused) /\ HookOK(x, r) /\ RebaseOK(x, excused) /\ SentOK(x, excused)
    /\ AnswerOK(x, ans, excused) /\ CopiesOK(x, r, done)
    /\ ~stale => ViewOK(x) /\ NewsOK(x, r)

IInv ==
    /\ ServerOK
    /\ Ready(s, reads, answer, twice, Done, behind)
    /\ StoredOK(s, reads, twice, Done)

-------------------------------------------------------------------------------
(* Sequences and the sets of what is in them *)

LEMMA ToSetEmpty == ToSet(<<>>) = {}
BY DEF ToSet

LEMMA ToSetAppend ==
    ASSUME NEW S, NEW q \in Seq(S), NEW e \in S
    PROVE  Append(q, e) \in Seq(S) /\ ToSet(Append(q, e)) = ToSet(q) \cup {e}
<1>1. Len(q) \in Nat /\ DOMAIN q = 1 .. Len(q)
  BY LenProperties
<1> DEFINE a == Append(q, e)
<1>2. /\ a \in Seq(S) /\ Len(a) = Len(q) + 1 /\ a[Len(q) + 1] = e
      /\ \A i \in 1 .. Len(q) : a[i] = q[i]
  BY <1>1, AppendProperties
<1>3. DOMAIN a = 1 .. Len(q) + 1
  BY <1>2, LenProperties
<1> HIDE DEF a
<1>4. ToSet(a) = ToSet(q) \cup {e}
  BY <1>1, <1>2, <1>3 DEF ToSet
<1> QED
  BY <1>2, <1>4 DEF a

LEMMA ToSetConcat ==
    ASSUME NEW S, NEW p \in Seq(S), NEW q \in Seq(S)
    PROVE  /\ p \o q \in Seq(S) /\ ToSet(p \o q) = ToSet(p) \cup ToSet(q)
           /\ p \o q = <<>> => p = <<>> /\ q = <<>>
           /\ <<>> \o q = q
<1>1. /\ Len(p) \in Nat /\ DOMAIN p = 1 .. Len(p)
      /\ Len(q) \in Nat /\ DOMAIN q = 1 .. Len(q)
  BY LenProperties
<1> DEFINE c == p \o q
<1>2. /\ c \in Seq(S) /\ Len(c) = Len(p) + Len(q)
      /\ \A i \in 1 .. Len(p) + Len(q) : c[i] = IF i <= Len(p) THEN p[i] ELSE q[i - Len(p)]
  BY ConcatProperties
<1>3. DOMAIN c = 1 .. Len(p) + Len(q)
  BY <1>2, LenProperties
<1> HIDE DEF c
<1>4. ToSet(c) \subseteq ToSet(p) \cup ToSet(q)
  <2> SUFFICES ASSUME NEW i \in 1 .. Len(p) + Len(q) PROVE c[i] \in ToSet(p) \cup ToSet(q)
    BY <1>3 DEF ToSet
  <2>1. CASE i <= Len(p)
    BY <1>1, <1>2, <2>1 DEF ToSet
  <2>2. CASE i > Len(p)
    <3>1. i - Len(p) \in DOMAIN q /\ c[i] = q[i - Len(p)]
      BY <1>1, <1>2, <2>2
    <3> QED
      BY <3>1 DEF ToSet
  <2> QED
    BY <1>1, <2>1, <2>2
<1>5. ToSet(p) \subseteq ToSet(c)
  BY <1>1, <1>2, <1>3 DEF ToSet
<1>6. ToSet(q) \subseteq ToSet(c)
  <2> SUFFICES ASSUME NEW i \in 1 .. Len(q) PROVE q[i] \in ToSet(c)
    BY <1>1 DEF ToSet
  <2>1. i + Len(p) \in DOMAIN c /\ c[i + Len(p)] = q[i]
    BY <1>1, <1>2, <1>3
  <2> QED
    BY <2>1 DEF ToSet
<1>7. p \o q = <<>> => p = <<>> /\ q = <<>>
  BY ConcatSimplifications
<1>8. <<>> \o q = q
  BY ConcatEmptySeq
<1> QED
  BY <1>2, <1>4, <1>5, <1>6, <1>7, <1>8 DEF c

\* A sequence cut in two
LEMMA ToSetCut ==
    ASSUME NEW S, NEW q \in Seq(S), NEW n \in 0 .. Len(q)
    PROVE  /\ SubSeq(q, 1, n) \in Seq(S)
           /\ ToSet(q) = ToSet(SubSeq(q, 1, n)) \cup ToSet(SubSeq(q, n + 1, Len(q)))
<1>1. Len(q) \in Nat /\ DOMAIN q = 1 .. Len(q) /\ \A i \in 1 .. Len(q) : q[i] \in S
  BY LenProperties, ElementOfSeq
<1> DEFINE a == SubSeq(q, 1, n)
           b == SubSeq(q, n + 1, Len(q))
<1>2. /\ a \in Seq(S) /\ Len(a) = n /\ \A i \in 1 .. n : a[i] = q[i]
  <2>1. \A i \in 1 .. n : q[i] \in S
    BY <1>1
  <2>2. /\ a \in Seq(S) /\ Len(a) = IF 1 <= n THEN n - 1 + 1 ELSE 0
        /\ \A i \in 1 .. n - 1 + 1 : a[i] = q[1 + i - 1]
    BY <1>1, <2>1, SubSeqProperties
  <2> HIDE DEF a
  <2> QED
    BY <2>2, <1>1
<1>3. /\ b \in Seq(S) /\ Len(b) = Len(q) - n /\ \A i \in 1 .. Len(q) - n : b[i] = q[n + i]
  <2>1. \A i \in n + 1 .. Len(q) : q[i] \in S
    BY <1>1
  <2>2. /\ b \in Seq(S) /\ Len(b) = IF n + 1 <= Len(q) THEN Len(q) - (n + 1) + 1 ELSE 0
        /\ \A i \in 1 .. Len(q) - (n + 1) + 1 : b[i] = q[n + 1 + i - 1]
    BY <1>1, <2>1, SubSeqProperties
  <2> HIDE DEF b
  <2>3. Len(q) - (n + 1) + 1 = Len(q) - n /\ \A i \in 1 .. Len(q) - n : n + 1 + i - 1 = n + i
    BY <1>1
  <2>4. Len(b) = IF n + 1 <= Len(q) THEN Len(q) - (n + 1) + 1 ELSE 0
    BY <2>2
  <2>5. Len(q) \in Nat /\ n \in Nat /\ n <= Len(q)
    BY <1>1
  <2>6. Len(b) = Len(q) - n
    <3>1. CASE n + 1 <= Len(q)
      BY <2>3, <2>4, <3>1
    <3>2. CASE ~(n + 1 <= Len(q))
      BY <2>4, <2>5, <3>2
    <3> QED
      BY <3>1, <3>2
  <2> QED
    BY <2>2, <2>3, <2>6
<1>4. DOMAIN a = 1 .. n /\ DOMAIN b = 1 .. Len(q) - n
  BY <1>2, <1>3, LenProperties
<1> HIDE DEF a, b
<1>5. ToSet(a) \cup ToSet(b) \subseteq ToSet(q)
  <2>1. \A i \in 1 .. Len(q) - n : n + i \in 1 .. Len(q)
    BY <1>1
  <2> QED
    BY <1>1, <1>2, <1>3, <1>4, <2>1 DEF ToSet
<1>6. ToSet(q) \subseteq ToSet(a) \cup ToSet(b)
  <2> SUFFICES ASSUME NEW i \in 1 .. Len(q) PROVE q[i] \in ToSet(a) \cup ToSet(b)
    BY <1>1 DEF ToSet
  <2>1. CASE i <= n
    BY <1>2, <1>4, <2>1 DEF ToSet
  <2>2. CASE i > n
    <3>1. i - n \in DOMAIN b /\ b[i - n] = q[i]
      BY <1>1, <1>3, <1>4, <2>2
    <3> QED
      BY <3>1 DEF ToSet
  <2> QED
    BY <1>1, <2>1, <2>2
<1> QED
  BY <1>2, <1>5, <1>6 DEF a, b

\* A sequence of edits is what is in it, and numbers.
LEMMA EditSeqs ==
    /\ <<>> \in Seq(Edits)
    /\ \A q \in Seq(Edits) : q \in Seq(Nat) /\ q # None
    /\ \A n \in Nat : n # None
    /\ Batches \subseteq SomeBatch /\ None \notin Batches
    /\ \A n \in Nat, q \in Seq(Edits) : [base |-> n, edits |-> q] # None
    /\ \A n \in Nat, q \in Seq(Edits), b \in Batches \cup {None} :
         [version |-> n, pending |-> q, batch |-> b] # None
<1>1. Edits \subseteq Nat
  BY EditorAssumption DEF Edits
<1>2. \A q \in Seq(Edits) : q \in Seq(Nat)
  BY <1>1, SeqMonotonic
<1>3. Batches \subseteq SomeBatch
  BY <1>2 DEF Batches, SomeBatch
<1>4. /\ None \notin Nat /\ None \notin Seq(Nat) /\ None \notin SomeBatch
      /\ None \notin [base : Nat, edits : Seq(Nat)]
      /\ None \notin [version : Nat, pending : Seq(Nat), batch : SomeBatch \cup {None}]
  BY NoneAssumption
<1>5. \A n \in Nat, q \in Seq(Edits) :
        [base |-> n, edits |-> q] \in [base : Nat, edits : Seq(Nat)]
  BY <1>2
<1>6. \A n \in Nat, q \in Seq(Edits), b \in Batches \cup {None} :
        [version |-> n, pending |-> q, batch |-> b]
          \in [version : Nat, pending : Seq(Nat), batch : SomeBatch \cup {None}]
  BY <1>2, <1>3
<1> QED
  BY <1>2, <1>3, <1>4, <1>5, <1>6, EmptySeq

-------------------------------------------------------------------------------
(* The fields of the hook's record and of the reads *)

LEMMA FieldNames ==
    /\ Fields = {"seen", "version", "pending", "batch", "persist", "tried", "expected", "held",
                 "deferred", "saveState", "auto", "taken", "sawLock"}
    /\ Asked = {"load", "rebase", "recover"}
BY DEF Fields, Mounted, Asked, NoReads

\* The journal and its numbers
LEMMA LogFacts ==
    ASSUME ServerOK
    PROVE  /\ Len(log) \in Nat /\ DOMAIN log = 1 .. Len(log) /\ Version = Len(log) + 1
           /\ \A k \in 1 .. Len(log) : /\ log[k] \in Rows
                                       /\ ToSet(log[k].edits) \subseteq StoredEdits
           /\ made \in Nat /\ Known \subseteq Edits /\ heard \in Nat /\ heard <= Version
           /\ mishaps \in Nat /\ mishaps <= MaxMishaps /\ Version <= MaxWrites + 1
<1>1. log \in Seq(Rows)
  BY DEF ServerOK
<1>2. Len(log) \in Nat /\ DOMAIN log = 1 .. Len(log) /\ \A k \in 1 .. Len(log) : log[k] \in Rows
  BY <1>1, LenProperties, ElementOfSeq
<1>3. \A k \in 1 .. Len(log) : ToSet(log[k].edits) \subseteq StoredEdits
  BY <1>2 DEF StoredEdits
<1>4. Version = Len(log) + 1
  BY DEF Version
<1>5. made \in Nat /\ Known \subseteq Edits
  BY EditorAssumption DEF ServerOK, Known, Edits
<1>6. heard \in Nat /\ heard <= Version /\ mishaps \in Nat /\ mishaps <= MaxMishaps
  BY <1>2, <1>4, EditorAssumption DEF ServerOK
<1>7. Version <= MaxWrites + 1
  BY <1>2, <1>4, EditorAssumption DEF ServerOK
<1> QED
  BY <1>2, <1>3, <1>4, <1>5, <1>6, <1>7

\* What is outstanding is what was sent, then what came after it.
LEMMA OutstandingFacts ==
    ASSUME NEW w, NEW excused, WorkOK(w, excused)
    PROVE  /\ OutstandingOf(w) \in Seq(Edits)
           /\ ToSet(OutstandingOf(w)) =
                (IF w.batch = None THEN {} ELSE ToSet(w.batch.edits)) \cup ToSet(w.pending)
           /\ OutstandingOf(w) = <<>> <=> w.batch = None /\ w.pending = <<>>
           /\ w.batch = None => OutstandingOf(w) = w.pending
           /\ ToSet(OutstandingOf(w)) \subseteq Known
<1>1. w.pending \in Seq(Edits) /\ ToSet(w.pending) \subseteq Known
  BY DEF WorkOK
<1>2. CASE w.batch = None
  <2>1. OutstandingOf(w) = <<>> \o w.pending
    BY <1>2 DEF OutstandingOf
  <2>2. OutstandingOf(w) = w.pending
    BY <1>1, <2>1, ConcatEmptySeq
  <2> QED
    BY <1>1, <1>2, <2>2
<1>3. CASE w.batch # None
  <2>1. w.batch.edits \in Seq(Edits) /\ w.batch.edits # <<>> /\ ToSet(w.batch.edits) \subseteq Known
    BY <1>3 DEF WorkOK, Batches
  <2>2. OutstandingOf(w) = w.batch.edits \o w.pending
    BY <1>3 DEF OutstandingOf
  <2>3. /\ OutstandingOf(w) \in Seq(Edits)
        /\ ToSet(OutstandingOf(w)) = ToSet(w.batch.edits) \cup ToSet(w.pending)
        /\ OutstandingOf(w) # <<>>
    BY <1>1, <2>1, <2>2, ToSetConcat
  <2> QED
    BY <1>1, <1>3, <2>1, <2>3
<1> QED
  BY <1>2, <1>3


-------------------------------------------------------------------------------
(* The journal and the versions as they stay and as they grow *)

LEMMA ShowsLess ==
    ASSUME NEW seen, NEW v \in Nat, NEW w \in Nat, w <= v, Shows(seen, v)
    PROVE  Shows(seen, w)
BY DEF Shows

LEMMA ShowsMore ==
    ASSUME NEW seen \in Nat, NEW n \in Nat, seen <= n, NEW v \in Nat, Shows(seen, v) \/ v <= n
    PROVE  Shows(n, v)
BY DEF Shows

\* What is said of a session stays true while the journal, the news and the
\* edits made stay.
LEMMA WorldStays ==
    ASSUME UNCHANGED <<log, heard, made>>
    PROVE  /\ Version' = Version /\ StoredEdits' = StoredEdits /\ Known' = Known
           /\ \A x, t : WorkOK(x, t) => WorkOK(x, t)'
           /\ \A x, r : HookOK(x, r) => HookOK(x, r)'
           /\ \A x, t : RebaseOK(x, t) => RebaseOK(x, t)'
           /\ \A x, t : SentOK(x, t) => SentOK(x, t)'
           /\ \A x, r, d : CopiesOK(x, r, d) => CopiesOK(x, r, d)'
           /\ \A x : ViewOK(x) => ViewOK(x)'
           /\ \A x, r : NewsOK(x, r) => NewsOK(x, r)'
           /\ \A t : OnceOK(t) => OnceOK(t)'
<1>1. log' = log /\ heard' = heard /\ made' = made
  OBVIOUS
<1>2. Version' = Version /\ StoredEdits' = StoredEdits /\ Known' = Known
  BY <1>1 DEF Version, StoredEdits, Known
<1>3. \A E, v, t : Apart(E, v, t) => Apart(E, v, t)'
  BY <1>1 DEF Apart
<1>4. \A n, v : Shows(n, v) => Shows(n, v)'
  BY <1>1 DEF Shows
<1>5. \A x, t : WorkOK(x, t) => WorkOK(x, t)'
  BY <1>2, <1>3 DEF WorkOK
<1>6. \A x, r : HookOK(x, r) => HookOK(x, r)'
  BY <1>2 DEF HookOK
<1>7. \A x, t : RebaseOK(x, t) => RebaseOK(x, t)'
  BY <1>2, <1>3 DEF RebaseOK
<1>8. \A x, t : SentOK(x, t) => SentOK(x, t)'
  BY <1>2, <1>3 DEF SentOK
<1>9. \A x, r, d : CopiesOK(x, r, d) => CopiesOK(x, r, d)'
  BY <1>2 DEF CopiesOK
<1>10. \A x : ViewOK(x) => ViewOK(x)'
  BY <1>4 DEF ViewOK
<1>11. \A x, r : NewsOK(x, r) => NewsOK(x, r)'
  BY <1>1, <1>4 DEF NewsOK
<1>12. \A t : OnceOK(t) => OnceOK(t)'
  BY <1>1 DEF OnceOK
<1> QED
  BY <1>2, <1>5, <1>6, <1>7, <1>8, <1>9, <1>10, <1>11, <1>12

LEMMA MishapsGrow ==
    ASSUME ServerOK, NEW p, MishapIf(p) \/ Mishap \/ UNCHANGED mishaps
    PROVE  mishaps' \in 0 .. MaxMishaps /\ mishaps' >= mishaps
BY EditorAssumption DEF ServerOK, MishapIf, Mishap

LEMMA WireStays ==
    ASSUME ServerOK, UNCHANGED <<log, made, wire>>, mishaps' \in Nat, mishaps' >= mishaps
    PROVE  /\ \A t : WireOK(t) => WireOK(t)'
           /\ \A x, a, t : AnswerOK(x, a, t) => AnswerOK(x, a, t)'
<1>1. log' = log /\ made' = made /\ wire' = wire /\ mishaps \in Nat
  BY LogFacts
<1>2. Version' = Version /\ Known' = Known
  BY <1>1 DEF Version, Known
<1>3. \A E, v, t : Apart(E, v, t) => Apart(E, v, t)'
  BY <1>1 DEF Apart
<1>4. \A t : WireOK(t) => WireOK(t)'
  <2> SUFFICES ASSUME NEW t, WireOK(t) PROVE WireOK(t)'
    OBVIOUS
  <2>1. IsFiniteSet(wire) /\ Cardinality(wire) \in Nat
    BY FS_CardinalityType DEF WireOK
  <2>2. /\ Cardinality(wire) <= mishaps' + 1
        /\ (\A q \in wire : ~q.mine) => Cardinality(wire) <= mishaps'
    BY <1>1, <2>1 DEF WireOK
  <2> QED
    BY <1>1, <1>2, <1>3, <2>1, <2>2 DEF WireOK
<1>5. \A x, a, t : AnswerOK(x, a, t) => AnswerOK(x, a, t)'
  BY <1>1, <1>2 DEF AnswerOK
<1> QED
  BY <1>4, <1>5

LEMMA ServerStays ==
    ASSUME ServerOK, UNCHANGED <<log, locked, heard, made>>, mishaps' \in 0 .. MaxMishaps
    PROVE  ServerOK'
BY DEF ServerOK, StoredEdits, Known, Version

\* The recovery record of a session that is not there yet, or that is
LEMMA StoredStays ==
    ASSUME UNCHANGED <<log, heard, made, stored>>
    PROVE  /\ \A r, t, d : Kept(r, t, d) => Kept(r, t, d)'
           /\ \A x, r, t, d : StoredOK(x, r, t, d) => StoredOK(x, r, t, d)'
<1>1. PICK rec : rec = stored
  OBVIOUS
<1>2. stored' = rec /\ Known' = Known /\ \A t : WorkOK(rec, t) => WorkOK(rec, t)'
  BY <1>1, WorldStays
<1>3. \A t : WorkOK(stored, t) => WorkOK(stored, t)'
  BY <1>1, <1>2
<1>4. \A r, t, d : Kept(r, t, d) => Kept(r, t, d)'
  BY <1>1, <1>2, <1>3 DEF Kept, OutstandingOf
<1>5. \A x, r, t, d : StoredOK(x, r, t, d) => StoredOK(x, r, t, d)'
  BY <1>1, <1>2, <1>4 DEF StoredOK, RecordOf, OutstandingOf
<1> QED
  BY <1>4, <1>5

\* A step of the page that leaves the server and the saves on their way alone
LEMMA PageStep ==
    ASSUME ServerOK, UNCHANGED <<log, locked, heard, made, wire>>,
           mishaps' \in 0 .. MaxMishaps, mishaps' >= mishaps,
           NEW x, NEW r, NEW a, NEW t, NEW d, NEW bh, Ready(x, r, a, t, d, bh),
           s' = x, reads' = r, answer' = a, twice' = t, Done' = d, behind' = bh,
           StoredOK(x, r, t, d)'
    PROVE  IInv'
<1>1. ServerOK'
  BY ServerStays
<1>2. mishaps' \in Nat
  BY EditorAssumption
<1>3. /\ WireOK(t)' /\ OnceOK(t)' /\ AnswerOK(x, a, t)'
      /\ WorkOK(x, t)' /\ HookOK(x, r)' /\ RebaseOK(x, t)' /\ SentOK(x, t)' /\ CopiesOK(x, r, d)'
      /\ ~bh => ViewOK(x)' /\ NewsOK(x, r)'
  BY <1>2, WorldStays, WireStays DEF Ready
<1>4. Ready(x, r, a, t, d, bh)'
  BY <1>3 DEF Ready
<1> QED
  BY <1>1, <1>4 DEF IInv

-------------------------------------------------------------------------------
(* Saves on their way, and the request of a new one *)

LEMMA ImageFinite ==
    ASSUME NEW S, IsFiniteSet(S), NEW T, NEW f \in [S -> T], \A e \in T : \E i \in S : f[i] = e
    PROVE  IsFiniteSet(T) /\ Cardinality(T) \in Nat /\ Cardinality(T) <= Cardinality(S)
<1>1. f \in Surjection(S, T)
  BY DEF Surjection
<1>2. IsFiniteSet(T) /\ Cardinality(T) <= Cardinality(S)
  BY <1>1, FS_Surjection
<1> QED
  BY <1>2, FS_CardinalityType

LEMMA CountedFromOne ==
    ASSUME NEW n \in Nat
    PROVE  IsFiniteSet(1 .. n) /\ Cardinality(1 .. n) = n
<1>1. 1 \in Int /\ n \in Int
  OBVIOUS
<1>2. IsFiniteSet(1 .. n) /\ Cardinality(1 .. n) = IF 1 > n THEN 0 ELSE n - 1 + 1
  BY <1>1, FS_Interval
<1>3. (IF 1 > n THEN 0 ELSE n - 1 + 1) = n
  OBVIOUS
<1> QED
  BY <1>2, <1>3

\* There are fewer requests in use than there are to choose from.
LEMMA FreshIdType ==
    ASSUME ServerOK, NEW t, WireOK(t)
    PROVE  FreshId \in Nat \ {0}
<1> DEFINE Ids  == 1 .. MaxWrites + MaxMishaps + 3
           Rq   == {log[k].req : k \in DOMAIN log}
           Wq   == {q.batch.req : q \in wire}
           Free(n) == (\A k \in DOMAIN log : log[k].req # n) /\ (\A q \in wire : q.batch.req # n)
<1>1. /\ Len(log) \in Nat /\ Len(log) <= MaxWrites /\ DOMAIN log = 1 .. Len(log)
      /\ mishaps \in Nat /\ mishaps <= MaxMishaps
      /\ MaxWrites \in Nat /\ MaxMishaps \in Nat
  BY LogFacts, EditorAssumption DEF ServerOK
<1>2. IsFiniteSet(Rq) /\ Cardinality(Rq) \in Nat /\ Cardinality(Rq) <= Len(log)
  <2>1. IsFiniteSet(1 .. Len(log)) /\ Cardinality(1 .. Len(log)) = Len(log)
    BY <1>1, CountedFromOne
  <2> DEFINE f == [k \in 1 .. Len(log) |-> log[k].req]
  <2>2. f \in [1 .. Len(log) -> Rq] /\ \A e \in Rq : \E k \in 1 .. Len(log) : f[k] = e
    BY <1>1
  <2> HIDE DEF f, Rq
  <2> QED
    BY <2>1, <2>2, ImageFinite
<1>3. IsFiniteSet(Wq) /\ Cardinality(Wq) \in Nat /\ Cardinality(Wq) <= MaxMishaps + 1
  <2>1. IsFiniteSet(wire) /\ Cardinality(wire) \in Nat /\ Cardinality(wire) <= MaxMishaps + 1
    BY <1>1, FS_CardinalityType DEF WireOK
  <2> DEFINE f == [q \in wire |-> q.batch.req]
  <2>2. f \in [wire -> Wq] /\ \A e \in Wq : \E q \in wire : f[q] = e
    OBVIOUS
  <2> HIDE DEF f, Wq
  <2>3. Cardinality(Wq) \in Nat /\ IsFiniteSet(Wq) /\ Cardinality(Wq) <= Cardinality(wire)
    BY <2>1, <2>2, ImageFinite
  <2> QED
    BY <1>1, <2>1, <2>3
<1>4. IsFiniteSet(Ids) /\ Cardinality(Ids) = MaxWrites + MaxMishaps + 3
  <2>1. MaxWrites + MaxMishaps + 3 \in Nat
    BY <1>1
  <2> QED
    BY <2>1, CountedFromOne
<1>5. \E n \in Ids : Free(n)
  <2> SUFFICES ASSUME \A n \in Ids : ~Free(n) PROVE FALSE
    OBVIOUS
  <2>1. Ids \subseteq Rq \cup Wq
    OBVIOUS
  <2> HIDE DEF Ids, Rq, Wq
  <2>2. /\ IsFiniteSet(Rq \cup Wq) /\ Cardinality(Rq \cup Wq) \in Nat
        /\ Cardinality(Rq \cup Wq) <= Cardinality(Rq) + Cardinality(Wq)
    <3>1. /\ IsFiniteSet(Rq \cup Wq) /\ IsFiniteSet(Rq \cap Wq)
          /\ Cardinality(Rq \cup Wq) =
               Cardinality(Rq) + Cardinality(Wq) - Cardinality(Rq \cap Wq)
      BY <1>2, <1>3, FS_Union, FS_Intersection
    <3>2. Cardinality(Rq \cup Wq) \in Nat /\ Cardinality(Rq \cap Wq) \in Nat
      BY <3>1, FS_CardinalityType
    <3> QED
      BY <1>2, <1>3, <3>1, <3>2
  <2>3. Cardinality(Ids) <= Cardinality(Rq \cup Wq)
    BY <2>1, <2>2, FS_Subset
  <2> QED
    BY <1>1, <1>2, <1>3, <1>4, <2>2, <2>3
<1>6. FreshId = CHOOSE n \in Ids : Free(n)
  BY DEF FreshId
<1>7. FreshId \in Ids
  BY <1>5, <1>6
<1> QED
  BY <1>1, <1>7

-------------------------------------------------------------------------------
(* The save loop *)

\* The loop sends a batch.
LEMMA LoopSends ==
    ASSUME ServerOK, UNCHANGED <<log, locked, heard, made, mishaps>>,
           NEW x, NEW y, NEW r, NEW t, NEW d, NEW bh,
           DOMAIN x = Fields, \A f \in Fields \ {"persist"} : x[f] = y[f], y.persist = "idle",
           Ready(y, r, "none", t, d, bh), OutstandingOf(x) # <<>>, Loop(x, r),
           answer' = "none", twice' = t, Done' = d, behind' = bh
    PROVE  IInv'
<1>1. /\ x.seen = y.seen /\ x.version = y.version /\ x.pending = y.pending /\ x.batch = y.batch
      /\ x.held = y.held /\ x.deferred = y.deferred /\ x.auto = y.auto /\ x.taken = y.taken
  BY FieldNames
<1>2. /\ WireOK(t) /\ OnceOK(t) /\ WorkOK(y, t) /\ HookOK(y, r) /\ RebaseOK(y, t)
      /\ SentOK(y, t) /\ AnswerOK(y, "none", t) /\ CopiesOK(y, r, d)
      /\ ~bh => ViewOK(y) /\ NewsOK(y, r)
  BY DEF Ready
<1>3. /\ OutstandingOf(x) = OutstandingOf(y)
      /\ OutstandingOf(y) \in Seq(Edits) /\ OutstandingOf(y) # <<>>
      /\ ToSet(OutstandingOf(y)) =
           (IF y.batch = None THEN {} ELSE ToSet(y.batch.edits)) \cup ToSet(y.pending)
      /\ y.batch = None => OutstandingOf(y) = y.pending
      /\ y.batch # None \/ y.pending # <<>>
  BY <1>1, <1>2, OutstandingFacts DEF OutstandingOf
<1>4. /\ y.version \in Nat /\ y.version <= Version /\ Version \in Nat
      /\ y.pending \in Seq(Edits) /\ ToSet(y.pending) \subseteq Known
      /\ Apart(ToSet(y.pending), y.version, t)
      /\ y.batch # None => /\ y.batch \in Batches /\ y.batch.base = y.version
                           /\ ToSet(y.batch.edits) \subseteq Known
                           /\ Apart(ToSet(y.batch.edits), y.version, t)
                           /\ ToSet(y.pending) \cap ToSet(y.batch.edits) \subseteq t
  BY <1>2, LogFacts DEF WorkOK
<1>5. /\ y.seen \in Nat /\ y.seen # None /\ y.auto = None /\ r.rebase = None /\ ~y.held
      /\ DOMAIN r = Asked /\ (y.deferred = None \/ y.deferred \in Nat)
      /\ \A f \in Asked : r[f] = None \/ r[f] \in 1 .. Version
      /\ y.taken # None => y.taken \in Seq(Edits) /\ ToSet(y.taken) \subseteq Known
      /\ r.recover # None => y.taken # None
  BY <1>2, <1>3 DEF HookOK
<1>6. PICK b : b = IF x.batch # None THEN x.batch
                   ELSE [base |-> x.version, req |-> FreshId, edits |-> x.pending]
  OBVIOUS
<1>7. PICK z : z = [x EXCEPT !.batch = b, !.persist = "sent", !.saveState = "saving",
                             !.expected = b.base + 1,
                             !.pending = IF x.batch = None THEN <<>> ELSE @]
  OBVIOUS
<1>8. s' = z /\ Checkpoint(z) /\ wire' = wire \cup {[batch |-> b, mine |-> TRUE]} /\ reads' = r
  BY <1>6, <1>7 DEF Loop, Checkpoint
<1>9. /\ b \in Batches /\ b.base = y.version /\ ToSet(b.edits) \subseteq Known
      /\ Apart(ToSet(b.edits), y.version, t)
      /\ y.batch # None => b = y.batch
      /\ y.batch = None => b.edits = y.pending
  <2>1. CASE y.batch # None
    BY <1>1, <1>4, <1>6, <2>1
  <2>2. CASE y.batch = None
    <3>1. FreshId \in Nat \ {0}
      BY <1>2, FreshIdType
    <3>2. b = [base |-> y.version, req |-> FreshId, edits |-> y.pending]
      BY <1>1, <1>6, <2>2
    <3>3. y.pending \in Seq(Edits) \ {<<>>}
      BY <1>3, <1>4, <2>2
    <3>4. b \in Batches
      BY <1>4, <3>1, <3>2, <3>3 DEF Batches
    <3> QED
      BY <1>4, <2>2, <3>2, <3>4
  <2> QED
    BY <2>1, <2>2
<1>10. b # None
  BY <1>9, EditSeqs
<1>11. /\ DOMAIN z = Fields
       /\ z.seen = y.seen /\ z.version = y.version /\ z.batch = b
       /\ z.pending = IF y.batch = None THEN <<>> ELSE y.pending
       /\ z.persist = "sent" /\ z.saveState = "saving" /\ z.expected = y.version + 1
       /\ z.held = y.held /\ z.deferred = y.deferred /\ z.auto = y.auto /\ z.taken = y.taken
  BY <1>1, <1>7, <1>9, FieldNames
<1>12. WorkOK(z, t)
  <2>1. z.pending \in Seq(Edits) /\ ToSet(z.pending) \subseteq ToSet(y.pending)
    BY <1>4, <1>11, EditSeqs, ToSetEmpty
  <2>2. Apart(ToSet(z.pending), y.version, t)
    BY <1>4, <2>1 DEF Apart
  <2>3. ToSet(z.pending) \cap ToSet(b.edits) \subseteq t
    BY <1>4, <1>9, <1>11, ToSetEmpty
  <2> QED
    BY <1>4, <1>9, <1>11, <2>1, <2>2, <2>3 DEF WorkOK
<1>13. HookOK(z, r)
  BY <1>4, <1>5, <1>11 DEF HookOK
<1>14. RebaseOK(z, t)
  BY <1>5, <1>11 DEF RebaseOK
<1>15. SentOK(z, t)
  <2>1. z.expected - 1 = z.version /\ z.expected <= Version + 1
    BY <1>4, <1>11
  <2> QED
    BY <1>4, <1>11, <1>12, <2>1 DEF SentOK, WorkOK
<1>16. CopiesOK(z, r, d)
  <2>1. ToSet(OutstandingOf(z)) = ToSet(OutstandingOf(y))
    <3>1. ToSet(OutstandingOf(z)) = ToSet(b.edits) \cup ToSet(z.pending)
      BY <1>10, <1>11, <1>12, OutstandingFacts
    <3>2. CASE y.batch = None
      BY <1>3, <1>9, <1>11, <3>1, <3>2, ToSetEmpty
    <3>3. CASE y.batch # None
      BY <1>3, <1>9, <1>11, <3>1, <3>3
    <3> QED
      BY <3>2, <3>3
  <2> QED
    BY <1>2, <1>11, <2>1 DEF CopiesOK
<1>17. ~bh => ViewOK(z) /\ NewsOK(z, r)
  <2> SUFFICES ASSUME ~bh PROVE ViewOK(z) /\ NewsOK(z, r)
    OBVIOUS
  <2>1. ViewOK(y) /\ NewsOK(y, r)
    BY <1>2
  <2>2. z.expected - 1 = y.version
    BY <1>4, <1>11
  <2>3. ViewOK(z)
    BY <1>5, <1>11, <2>1, <2>2 DEF ViewOK
  <2>4. NewsOK(z, r)
    BY <1>5, <1>11, <2>1 DEF NewsOK
  <2> QED
    BY <2>3, <2>4
<1> DEFINE n == [batch |-> b, mine |-> TRUE]
<1>18. n.batch = b /\ n.mine = TRUE /\ \A q \in wire : ~q.mine
  BY <1>2 DEF AnswerOK
<1>19. WireOK(t)'
  <2>1. log' = log /\ Version' = Version /\ Known' = Known /\ mishaps' = mishaps /\ mishaps \in Nat
    BY WorldStays, LogFacts
  <2>2. \A E, v : Apart(E, v, t) => Apart(E, v, t)'
    BY <2>1 DEF Apart
  <2>3. \A q \in wire' : /\ q \in [batch : Batches, mine : BOOLEAN]
                         /\ q.batch.base <= Version
                         /\ ToSet(q.batch.edits) \subseteq Known
                         /\ Apart(ToSet(q.batch.edits), q.batch.base, t)
    BY <1>2, <1>4, <1>8, <1>9, <1>18 DEF WireOK
  <2>4. \A p, q \in wire' : p.mine /\ q.mine => p = q
    BY <1>8, <1>18
  <2>5. /\ IsFiniteSet(wire) /\ Cardinality(wire) \in Nat /\ Cardinality(wire) <= mishaps
    BY <1>2, <1>18, FS_CardinalityType DEF WireOK
  <2>6. IsFiniteSet(wire') /\ Cardinality(wire') <= mishaps + 1
    <3> HIDE DEF n
    <3>1. wire' = wire \cup {n}
      BY <1>8 DEF n
    <3>2. /\ IsFiniteSet(wire \cup {n})
          /\ Cardinality(wire \cup {n}) = IF n \in wire THEN Cardinality(wire)
                                          ELSE Cardinality(wire) + 1
      BY <2>5, FS_AddElement
    <3> QED
      BY <2>1, <2>5, <3>1, <3>2
  <2>7. n \in wire' /\ n.mine
    BY <1>8, <1>18
  <2> HIDE DEF n
  <2> QED
    BY <2>1, <2>2, <2>3, <2>4, <2>6, <2>7 DEF WireOK
<1>20. AnswerOK(z, "none", t)'
  <2>1. ToSet(z.pending) \cap ToSet(b.edits) \subseteq t
    BY <1>10, <1>11, <1>12 DEF WorkOK
  <2>2. \A q \in wire' : q.mine => q.batch = b
    BY <1>8, <1>18
  <2> QED
    BY <1>9, <1>11, <2>1, <2>2 DEF AnswerOK
<1>21. Ready(z, r, "none", t, d, bh)'
  BY <1>2, <1>12, <1>13, <1>14, <1>15, <1>16, <1>17, <1>19, <1>20, WorldStays DEF Ready
<1>22. StoredOK(z, r, t, d)'
  <2>1. OutstandingOf(z) # <<>> /\ z.seen # None
    BY <1>5, <1>10, <1>11, <1>12, OutstandingFacts
  <2> QED
    BY <1>8, <2>1 DEF Checkpoint, StoredOK, RecordOf, OutstandingOf
<1>23. ServerOK'
  BY ServerStays DEF ServerOK
<1> QED
  BY <1>8, <1>21, <1>22, <1>23 DEF IInv

\* The loop has nothing to send: what was put off is read, unless the session has it.
LEMMA LoopEnds ==
    ASSUME ServerOK, UNCHANGED <<log, locked, heard, made, mishaps>>,
           NEW x, NEW y, NEW r, NEW t, NEW d, NEW bh,
           DOMAIN x = Fields, \A f \in Fields \ {"persist"} : x[f] = y[f], y.persist = "idle",
           Ready(y, r, "none", t, d, bh), x.seen = None => Kept(r, t, d),
           OutstandingOf(x) = <<>>, Loop(x, r),
           answer' = "none", twice' = t, Done' = d, behind' = bh
    PROVE  IInv'
<1>1. /\ x.seen = y.seen /\ x.version = y.version /\ x.pending = y.pending /\ x.batch = y.batch
      /\ x.held = y.held /\ x.deferred = y.deferred /\ x.auto = y.auto /\ x.taken = y.taken
      /\ x.expected = y.expected
  BY FieldNames
<1>2. /\ WireOK(t) /\ OnceOK(t) /\ WorkOK(y, t) /\ HookOK(y, r) /\ RebaseOK(y, t)
      /\ SentOK(y, t) /\ AnswerOK(y, "none", t) /\ CopiesOK(y, r, d)
      /\ ~bh => ViewOK(y) /\ NewsOK(y, r)
  BY DEF Ready
<1>3. y.batch = None /\ y.pending = <<>> /\ OutstandingOf(y) = <<>>
  <2>1. OutstandingOf(y) = <<>>
    BY <1>1 DEF OutstandingOf
  <2> QED
    BY <1>2, <2>1, OutstandingFacts
<1>4. PICK z : z = [x EXCEPT !.persist = "idle", !.tried = FALSE, !.saveState = "saved",
                             !.deferred = None,
                             !.taken = IF r.recover = None THEN None ELSE @]
  OBVIOUS
<1>5. PICK u : u = IF StillNewer(x) THEN [r EXCEPT !.load = Version] ELSE r
  OBVIOUS
<1>6. /\ s' = z /\ reads' = u /\ wire' = wire
      /\ stored' = IF x.seen = None THEN stored ELSE None
  BY <1>4, <1>5 DEF Loop
<1>7. /\ DOMAIN z = Fields
      /\ z.seen = y.seen /\ z.version = y.version /\ z.batch = None /\ z.pending = <<>>
      /\ z.persist = "idle" /\ z.saveState = "saved" /\ z.expected = y.expected
      /\ z.held = y.held /\ z.deferred = None /\ z.auto = y.auto
      /\ z.taken = IF r.recover = None THEN None ELSE y.taken
  BY <1>1, <1>3, <1>4, FieldNames
<1>8. Version \in Nat /\ Version >= 1 /\ heard \in Nat /\ heard <= Version /\ mishaps \in Nat
  BY LogFacts DEF ServerOK
<1>9. /\ DOMAIN u = Asked /\ u.rebase = r.rebase /\ u.recover = r.recover
      /\ \A f \in Asked : u[f] = None \/ u[f] \in 1 .. Version
      /\ u.load = IF StillNewer(x) THEN Version ELSE r.load
  <2>1. DOMAIN r = Asked /\ \A f \in Asked : r[f] = None \/ r[f] \in 1 .. Version
    BY <1>2 DEF HookOK
  <2> QED
    BY <1>5, <1>8, <2>1, FieldNames
<1>10. WorkOK(z, t)
  BY <1>2, <1>3, <1>7 DEF WorkOK
<1>11. HookOK(z, u)
  BY <1>2, <1>3, <1>7, <1>9 DEF HookOK
<1>12. RebaseOK(z, t) /\ SentOK(z, t) /\ AnswerOK(z, "none", t)
  <2>1. \A q \in wire : ~q.mine
    BY <1>2 DEF AnswerOK
  <2> QED
    BY <1>2, <1>7, <2>1 DEF HookOK, RebaseOK, SentOK, AnswerOK
<1>13. CopiesOK(z, u, d)
  <2>1. OutstandingOf(z) = OutstandingOf(y)
    BY <1>3, <1>7 DEF OutstandingOf
  <2> QED
    BY <1>2, <1>7, <1>9, <2>1 DEF CopiesOK
<1>14. ~bh => ViewOK(z) /\ NewsOK(z, u)
  <2> SUFFICES ASSUME ~bh PROVE ViewOK(z) /\ NewsOK(z, u)
    OBVIOUS
  <2>1. ViewOK(y) /\ NewsOK(y, r)
    BY <1>2
  <2>2. ViewOK(z)
    BY <1>7, <2>1 DEF ViewOK
  <2>3. CASE StillNewer(x)
    <3>1. u.load = Version
      BY <1>9, <2>3
    <3>2. u.load # None
      BY <1>8, <3>1, EditSeqs
    <3> QED
      BY <1>8, <2>2, <3>1, <3>2 DEF NewsOK
  <2>4. CASE ~StillNewer(x)
    <3>1. u.load = r.load /\ ~y.held
      BY <1>2, <1>9, <2>4 DEF HookOK
    <3>2. CASE y.seen # None /\ y.deferred # None /\ (y.deferred = 0 \/ y.deferred >= heard)
      <4>1. y.deferred \in Nat /\ y.version \in Nat
        BY <1>2, <1>8, <3>2 DEF HookOK, WorkOK
      <4>2. heard <= y.version
        BY <1>1, <1>8, <2>4, <3>2, <4>1 DEF StillNewer
      <4>3. Shows(y.seen, y.version)
        BY <2>1, <3>2 DEF ViewOK
      <4>4. Shows(y.seen, heard)
        BY <1>8, <4>1, <4>2, <4>3, ShowsLess
      <4> QED
        BY <1>7, <2>2, <3>2, <4>4 DEF NewsOK
    <3> QED
      BY <1>7, <2>1, <2>2, <3>1, <3>2 DEF NewsOK
  <2> QED
    BY <2>3, <2>4
<1>15. Ready(z, u, "none", t, d, bh)
  BY <1>2, <1>10, <1>11, <1>12, <1>13, <1>14 DEF Ready
<1>16. StoredOK(z, u, t, d)'
  <2>1. CASE x.seen # None
    <3>1. stored' = None /\ OutstandingOf(z) = <<>>
      BY <1>3, <1>6, <1>7, <2>1 DEF OutstandingOf
    <3> QED
      BY <1>1, <1>7, <2>1, <3>1 DEF StoredOK, RecordOf, OutstandingOf
  <2>2. CASE x.seen = None
    <3>1. stored' = stored /\ Kept(r, t, d)
      BY <1>6, <2>2
    <3>2. Kept(u, t, d)
      <4>1. stored # None => stored.version \in Nat /\ stored.version <= Version
        BY <1>8, <3>1 DEF Kept, WorkOK
      <4> QED
        BY <1>9, <3>1, <4>1 DEF Kept
    <3>3. Kept(u, t, d)'
      BY <3>1, <3>2, StoredStays
    <3> QED
      BY <1>1, <1>7, <2>2, <3>3 DEF StoredOK
  <2> QED
    BY <2>1, <2>2
<1>17. mishaps' \in 0 .. MaxMishaps /\ mishaps' >= mishaps
  BY <1>8 DEF ServerOK
<1> QED
  BY <1>6, <1>15, <1>16, <1>17, PageStep

\* What persist does to a session that is ready leaves it ready; asked are the reads
\* that its caller leaves under way.
LEMMA PersistKeeps ==
    ASSUME ServerOK, UNCHANGED <<log, locked, heard, made, mishaps>>,
           NEW x, NEW r, NEW a, NEW t, NEW d, NEW bh,
           Ready(x, r, a, t, d, bh), x.seen = None => Kept(r, t, d), Persist(x, r),
           answer' = a, twice' = t, Done' = d, behind' = bh
    PROVE  IInv'
<1>1. DOMAIN x = Fields /\ AnswerOK(x, a, t) /\ (x.seen = None => x.persist = "idle")
  BY DEF Ready, HookOK
<1>2. CASE x.persist = "idle"
  <2>1. a = "none" /\ Loop(x, r)
    BY <1>1, <1>2 DEF AnswerOK, Persist
  <2>2. CASE OutstandingOf(x) = <<>>
    BY <1>1, <1>2, <2>1, <2>2, LoopEnds
  <2>3. CASE OutstandingOf(x) # <<>>
    BY <1>1, <1>2, <2>1, <2>3, LoopSends
  <2> QED
    BY <2>2, <2>3
<1>3. CASE x.persist # "idle"
  <2>1. Checkpoint(x) /\ reads' = r /\ UNCHANGED wire
    BY <1>3 DEF Persist
  <2>2. StoredOK(x, r, t, d)'
    BY <1>1, <1>3, <2>1 DEF Checkpoint, StoredOK, RecordOf, OutstandingOf
  <2>3. mishaps' \in 0 .. MaxMishaps /\ mishaps' >= mishaps
    BY EditorAssumption DEF ServerOK
  <2> QED
    BY <2>1, <2>2, <2>3, PageStep DEF Checkpoint
<1> QED
  BY <1>2, <1>3

-------------------------------------------------------------------------------
(* The steps of the save loop *)

LEMMA Parts ==
    ASSUME IInv
    PROVE  /\ ServerOK /\ WireOK(twice) /\ OnceOK(twice)
           /\ WorkOK(s, twice) /\ HookOK(s, reads) /\ RebaseOK(s, twice) /\ SentOK(s, twice)
           /\ AnswerOK(s, answer, twice) /\ CopiesOK(s, reads, Done)
           /\ ~behind => ViewOK(s) /\ NewsOK(s, reads)
           /\ StoredOK(s, reads, twice, Done)
BY DEF IInv, Ready

\* The fields of a session, their types and what they say to each other
LEMMA HookFacts ==
    ASSUME NEW x, NEW r, HookOK(x, r)
    PROVE  /\ DOMAIN x = Fields /\ DOMAIN r = Asked
           /\ x.seen = None \/ x.seen \in Nat
           /\ x.deferred = None \/ x.deferred \in Nat
           /\ \A f \in Asked : r[f] = None \/ r[f] \in 1 .. Version
           /\ x.persist \in {"idle", "sent", "rebase"} /\ x.expected \in Nat
           /\ x.persist = "sent" <=> x.expected > 0
           /\ x.persist = "rebase" <=> x.auto # None
           /\ x.persist = "rebase" <=> r.rebase # None
           /\ x.held => x.persist = "sent"
           /\ x.taken # None => x.taken \in Seq(Edits) /\ ToSet(x.taken) \subseteq Known
           /\ r.recover # None => x.taken # None
           /\ x.seen = None => x.batch = None /\ x.pending = <<>> /\ x.version = 0
                               /\ x.persist = "idle" /\ x.saveState = "saved" /\ x.taken = None
BY DEF HookOK

LEMMA DoneStays == UNCHANGED <<log, late, gone>> => Done' = Done
BY DEF Done, StoredEdits

\* Saved: what was sent is in the journal, and what came after it is based on that.
LEMMA SavedKeeps == ASSUME IInv, Saved PROVE IInv'
<1>1. /\ ServerOK /\ WireOK(twice) /\ OnceOK(twice)
      /\ WorkOK(s, twice) /\ HookOK(s, reads) /\ RebaseOK(s, twice) /\ SentOK(s, twice)
      /\ AnswerOK(s, answer, twice) /\ CopiesOK(s, reads, Done)
      /\ ~behind => ViewOK(s) /\ NewsOK(s, reads)
  BY Parts
<1>2. PICK x : x = [s EXCEPT !.version = s.expected, !.expected = 0, !.batch = None,
                             !.held = FALSE]
  OBVIOUS
<1>3. PICK y : y = [x EXCEPT !.persist = "idle"]
  OBVIOUS
<1>4. /\ s.persist = "sent" /\ answer \in {"committed", "replayed"} /\ Loop(x, reads)
      /\ answer' = "none" /\ UNCHANGED <<log, locked, heard, made, mishaps, late, gone>>
      /\ twice' = twice /\ behind' = behind
  BY <1>2 DEF Saved, serverVars, ghosts
<1>5. /\ DOMAIN s = Fields /\ DOMAIN reads = Asked /\ s.expected \in Nat /\ s.expected > 0
      /\ s.seen \in Nat /\ s.seen # None /\ s.auto = None /\ reads.rebase = None
      /\ (s.deferred = None \/ s.deferred \in Nat)
  BY <1>1, <1>4, HookFacts
<1>6. /\ DOMAIN y = Fields /\ DOMAIN x = Fields /\ y.persist = "idle"
      /\ \A f \in Fields \ {"persist"} : x[f] = y[f]
  BY <1>2, <1>3, <1>5, FieldNames
<1>7. /\ y.seen = s.seen /\ y.version = s.expected /\ y.pending = s.pending /\ y.batch = None
      /\ y.expected = 0 /\ y.held = FALSE /\ y.deferred = s.deferred /\ y.auto = s.auto
      /\ y.taken = s.taken /\ y.saveState = s.saveState /\ x.seen = s.seen
  BY <1>2, <1>3, <1>5, FieldNames
<1>8. /\ Len(log) \in Nat /\ DOMAIN log = 1 .. Len(log) /\ Version = Len(log) + 1
      /\ heard \in Nat /\ heard <= Version
  BY <1>1, LogFacts
<1>9. /\ s.expected - 1 \in DOMAIN log /\ log[s.expected - 1].by = "session"
      /\ ToSet(s.pending) \cap ToSet(log[s.expected - 1].edits) \subseteq twice
      /\ s.batch # None => log[s.expected - 1].edits = s.batch.edits
      /\ \A q \in wire : ~q.mine
  BY <1>1, <1>4 DEF AnswerOK
<1>10. Apart(ToSet(s.pending), s.expected, twice)
  <2>1. Apart(ToSet(s.pending), s.expected - 1, twice)
    BY <1>1, <1>4 DEF SentOK
  <2> SUFFICES ASSUME NEW k \in DOMAIN log, k < s.expected
               PROVE  ToSet(s.pending) \cap ToSet(log[k].edits) \subseteq twice
    BY DEF Apart
  <2>2. k < s.expected - 1 \/ k = s.expected - 1
    BY <1>5, <1>8
  <2> QED
    BY <1>9, <2>1, <2>2 DEF Apart
<1>11. WorkOK(y, twice)
  BY <1>1, <1>5, <1>7, <1>8, <1>9, <1>10 DEF WorkOK
<1>12. HookOK(y, reads)
  BY <1>1, <1>5, <1>6, <1>7 DEF HookOK
<1>13. RebaseOK(y, twice) /\ SentOK(y, twice) /\ AnswerOK(y, "none", twice)
  BY <1>5, <1>6, <1>7, <1>9 DEF RebaseOK, SentOK, AnswerOK
<1>14. CopiesOK(y, reads, Done)
  <2>1. ToSet(OutstandingOf(s)) \subseteq ToSet(OutstandingOf(y)) \cup Done
    <3>1. OutstandingOf(y) = y.pending
      BY <1>7, <1>11, OutstandingFacts
    <3>2. s.batch # None => ToSet(s.batch.edits) \subseteq Done
      BY <1>8, <1>9, <1>1, LogFacts DEF Done
    <3> QED
      BY <1>1, <1>7, <3>1, <3>2, OutstandingFacts
  <2> QED
    BY <1>1, <1>5, <1>7, <2>1 DEF CopiesOK
<1>15. ~behind => ViewOK(y) /\ NewsOK(y, reads)
  <2> SUFFICES ASSUME ~behind PROVE ViewOK(y) /\ NewsOK(y, reads)
    OBVIOUS
  <2>1. Shows(s.seen, s.expected)
    <3>1. Shows(s.seen, s.expected - 1)
      BY <1>1, <1>4, <1>5 DEF ViewOK
    <3>2. \A k \in 1 .. s.expected - 1 : k \in 1 .. s.expected - 1 - 1 \/ k = s.expected - 1
      BY <1>5
    <3> QED
      BY <1>9, <3>1, <3>2 DEF Shows
  <2>2. ViewOK(y)
    BY <1>6, <1>7, <2>1 DEF ViewOK
  <2>3. s.held /\ s.expected >= heard => Shows(s.seen, heard)
    BY <1>5, <1>8, <2>1, ShowsLess
  <2>4. NewsOK(y, reads)
    BY <1>1, <1>5, <1>7, <2>3 DEF NewsOK
  <2> QED
    BY <2>2, <2>4
<1>16. Ready(y, reads, "none", twice, Done, behind)
  BY <1>1, <1>11, <1>12, <1>13, <1>14, <1>15 DEF Ready
<1>17. Done' = Done /\ x.seen # None
  BY <1>4, <1>5, <1>7, DoneStays
<1>18. PICK r, t, d, bh : r = reads /\ t = twice /\ d = Done /\ bh = behind
  OBVIOUS
<1>19. CASE OutstandingOf(x) = <<>>
  BY <1>1, <1>4, <1>6, <1>16, <1>17, <1>18, <1>19, LoopEnds
<1>20. CASE OutstandingOf(x) # <<>>
  BY <1>1, <1>4, <1>6, <1>16, <1>17, <1>18, <1>20, LoopSends
<1> QED
  BY <1>19, <1>20

\* The loop is started with what is unsaved.
LEMMA FlushKeeps == ASSUME IInv, Flush PROVE IInv'
<1>1. PICK x, r, a, t, d, bh :
        x = s /\ r = reads /\ a = answer /\ t = twice /\ d = Done /\ bh = behind
  OBVIOUS
<1>2. /\ Persist(x, r) /\ x.seen # None
      /\ UNCHANGED <<log, locked, heard, made, mishaps, late, gone>>
      /\ answer' = a /\ twice' = t /\ behind' = bh
  BY <1>1 DEF Flush, Persist, Loaded, serverVars, ghosts
<1>3. ServerOK /\ Ready(x, r, a, t, d, bh) /\ Done' = d
  BY <1>1, <1>2, DoneStays DEF IInv
<1> QED
  BY <1>2, <1>3, PersistKeeps

\* The page knows or no longer knows of the review, and flushes when it ended.
LEMMA LookAtLockKeeps == ASSUME IInv, LookAtLock PROVE IInv'
<1>1. PICK x, r, a, t, d, bh : /\ x = [s EXCEPT !.sawLock = ~@] /\ r = reads /\ a = answer
                               /\ t = twice /\ d = Done /\ bh = behind
  OBVIOUS
<1>2. /\ Persist(x, r) \/ (s' = x /\ UNCHANGED <<reads, wire, stored>>)
      /\ UNCHANGED <<log, locked, heard, made, mishaps, late, gone>>
      /\ answer' = a /\ twice' = t /\ behind' = bh
  BY <1>1 DEF LookAtLock, serverVars, ghosts
<1>3. /\ ServerOK /\ Ready(s, r, a, t, d, bh) /\ StoredOK(s, r, t, d) /\ Done' = d
      /\ DOMAIN s = Fields
  BY <1>1, <1>2, DoneStays DEF IInv, Ready, HookOK
<1>4. DOMAIN x = Fields /\ \A f \in Fields \ {"sawLock"} : x[f] = s[f]
  BY <1>1, <1>3, FieldNames
<1>5. /\ x.seen = s.seen /\ x.version = s.version /\ x.pending = s.pending /\ x.batch = s.batch
      /\ x.persist = s.persist /\ x.expected = s.expected /\ x.held = s.held
      /\ x.deferred = s.deferred /\ x.saveState = s.saveState /\ x.auto = s.auto
      /\ x.taken = s.taken
  BY <1>4, FieldNames
<1>6. Ready(x, r, a, t, d, bh)
  <2>1. WorkOK(x, t)
    BY <1>3, <1>5 DEF Ready, WorkOK
  <2>2. HookOK(x, r)
    BY <1>3, <1>4, <1>5 DEF Ready, HookOK
  <2>3. RebaseOK(x, t) /\ SentOK(x, t)
    BY <1>3, <1>5 DEF Ready, RebaseOK, SentOK
  <2>4. AnswerOK(x, a, t)
    BY <1>3, <1>5 DEF Ready, AnswerOK
  <2>5. CopiesOK(x, r, d)
    BY <1>3, <1>5 DEF Ready, CopiesOK, OutstandingOf
  <2>6. ~bh => ViewOK(x) /\ NewsOK(x, r)
    BY <1>3, <1>5 DEF Ready, ViewOK, NewsOK
  <2> QED
    BY <1>3, <2>1, <2>2, <2>3, <2>4, <2>5, <2>6 DEF Ready
<1>7. StoredOK(x, r, t, d)
  BY <1>3, <1>5 DEF StoredOK, RecordOf, OutstandingOf
<1>8. CASE Persist(x, r)
  <2>1. x.seen = None => Kept(r, t, d)
    BY <1>7 DEF StoredOK
  <2> QED
    BY <1>2, <1>3, <1>6, <1>8, <2>1, PersistKeeps
<1>9. CASE s' = x /\ UNCHANGED <<reads, wire, stored>>
  <2>1. StoredOK(x, r, t, d)'
    BY <1>2, <1>7, <1>9, StoredStays
  <2>2. mishaps' \in 0 .. MaxMishaps /\ mishaps' >= mishaps
    BY <1>2, <1>3, EditorAssumption DEF ServerOK
  <2> QED
    BY <1>1, <1>2, <1>3, <1>6, <1>9, <2>1, <2>2, PageStep
<1> QED
  BY <1>2, <1>8, <1>9

\* What is put off is never forgotten when more is put off.
LEMMA DeferringFacts ==
    ASSUME NEW x, DOMAIN x = Fields, x.deferred = None \/ x.deferred \in Nat, NEW v \in Nat
    PROVE  /\ DOMAIN Deferring(x, v) = Fields
           /\ \A f \in Fields \ {"deferred"} : Deferring(x, v)[f] = x[f]
           /\ Deferring(x, v).deferred \in Nat
           /\ Deferring(x, v).deferred = 0 \/ Deferring(x, v).deferred >= v
           /\ x.deferred # None =>
                Deferring(x, v).deferred = 0 \/ Deferring(x, v).deferred >= x.deferred
<1>1. PICK n : n = CASE x.deferred = None -> v
                     [] v = 0 \/ x.deferred = 0 -> 0
                     [] x.deferred \notin {None, 0} /\ v > x.deferred -> v
                     [] OTHER -> x.deferred
  OBVIOUS
<1>2. Deferring(x, v) = [x EXCEPT !.deferred = n]
  BY <1>1 DEF Deferring
<1>3. /\ DOMAIN Deferring(x, v) = Fields
      /\ \A f \in Fields \ {"deferred"} : Deferring(x, v)[f] = x[f]
      /\ Deferring(x, v).deferred = n
  BY <1>2, FieldNames
<1>4. /\ n \in Nat /\ (n = 0 \/ n >= v)
      /\ x.deferred # None => n = 0 \/ n >= x.deferred
  <2>1. CASE x.deferred = None
    BY <1>1, <2>1
  <2>2. CASE x.deferred # None /\ (v = 0 \/ x.deferred = 0)
    <3>1. n = 0
      BY <1>1, <2>2, EditSeqs
    <3> QED
      BY <3>1
  <2>3. CASE x.deferred # None /\ ~(v = 0 \/ x.deferred = 0) /\ v > x.deferred
    <3>1. x.deferred \notin {None, 0}
      BY <2>3
    <3>2. n = v
      BY <1>1, <2>3, <3>1
    <3> QED
      BY <2>3, <3>2
  <2>4. CASE x.deferred # None /\ ~(v = 0 \/ x.deferred = 0) /\ ~(v > x.deferred)
    <3>1. n = x.deferred
      BY <1>1, <2>4
    <3> QED
      BY <2>4, <3>1
  <2> QED
    BY <2>1, <2>2, <2>3, <2>4
<1> QED
  BY <1>3, <1>4

\* A notification that was held back during the save is put off.
LEMMA UnheldFacts ==
    ASSUME ServerOK, NEW x, NEW r, HookOK(x, r), x.version \in Nat, NEW u, u = Unheld(x)
    PROVE  /\ DOMAIN u = Fields
           /\ \A f \in Fields \ {"deferred", "held", "expected"} : u[f] = x[f]
           /\ u.held = FALSE /\ u.expected = 0
           /\ u.deferred = None \/ u.deferred \in Nat
           /\ ViewOK(x) /\ NewsOK(x, r) =>
                NewsOK([x EXCEPT !.deferred = u.deferred, !.held = FALSE, !.expected = 0], r)
<1>1. PICK y : y = IF x.held /\ x.expected > x.version THEN Deferring(x, x.expected) ELSE x
  OBVIOUS
<1>2. u = [y EXCEPT !.held = FALSE, !.expected = 0]
  BY <1>1 DEF Unheld
<1>3. DOMAIN x = Fields /\ (x.deferred = None \/ x.deferred \in Nat) /\ x.expected \in Nat
  BY DEF HookOK
<1>4. /\ DOMAIN y = Fields /\ \A f \in Fields \ {"deferred"} : y[f] = x[f]
      /\ y.deferred = None \/ y.deferred \in Nat
  BY <1>1, <1>3, DeferringFacts
<1>5. /\ DOMAIN u = Fields
      /\ \A f \in Fields \ {"deferred", "held", "expected"} : u[f] = x[f]
      /\ u.held = FALSE /\ u.expected = 0 /\ u.deferred = y.deferred
  BY <1>2, <1>4, FieldNames
<1>6. ASSUME ViewOK(x), NewsOK(x, r)
      PROVE  NewsOK([x EXCEPT !.deferred = u.deferred, !.held = FALSE, !.expected = 0], r)
  <2>1. PICK z : z = [x EXCEPT !.deferred = u.deferred, !.held = FALSE, !.expected = 0]
    OBVIOUS
  <2>2. z.seen = x.seen /\ z.deferred = y.deferred
    BY <1>3, <1>5, <2>1, FieldNames
  <2>3. heard \in Nat
    BY LogFacts
  <2>4. CASE x.seen # None /\ Shows(x.seen, heard)
    BY <2>1, <2>2, <2>4 DEF NewsOK
  <2>5. CASE x.seen # None /\ x.deferred # None /\ (x.deferred = 0 \/ x.deferred >= heard)
    <3>1. y.deferred \in Nat /\ (y.deferred = 0 \/ y.deferred >= heard)
      <4>1. CASE x.held /\ x.expected > x.version
        <5>1. y.deferred \in Nat /\ (y.deferred = 0 \/ y.deferred >= x.deferred \/ x.deferred = 0)
          BY <1>1, <1>3, <2>5, <4>1, DeferringFacts
        <5>2. x.deferred = 0 => y.deferred = 0 \/ y.deferred >= heard
          BY <1>1, <1>3, <2>5, <4>1, EditSeqs DEF Deferring
        <5> QED
          BY <1>3, <2>3, <2>5, <5>1, <5>2
      <4>2. CASE ~(x.held /\ x.expected > x.version)
        BY <1>1, <1>3, <2>5, <4>2
      <4> QED
        BY <4>1, <4>2
    <3>2. y.deferred # None
      BY <3>1, EditSeqs
    <3> QED
      BY <2>1, <2>2, <2>5, <3>1, <3>2 DEF NewsOK
  <2>6. CASE x.held /\ x.expected >= heard
    <3>1. x.persist = "sent" /\ x.seen # None
      BY <2>6 DEF HookOK
    <3>2. CASE x.expected > x.version
      <4>1. y.deferred \in Nat /\ (y.deferred = 0 \/ y.deferred >= x.expected)
        BY <1>1, <1>3, <2>6, <3>2, DeferringFacts
      <4>2. y.deferred # None /\ (y.deferred = 0 \/ y.deferred >= heard)
        BY <1>3, <2>3, <2>6, <4>1, EditSeqs
      <4> QED
        BY <2>1, <2>2, <3>1, <4>2 DEF NewsOK
    <3>3. CASE ~(x.expected > x.version)
      <4>1. heard <= x.version
        BY <1>3, <2>3, <2>6, <3>3
      <4>2. Shows(x.seen, heard)
        BY <1>6, <2>3, <3>1, <4>1, ShowsLess DEF ViewOK
      <4> QED
        BY <2>1, <2>2, <3>1, <4>2 DEF NewsOK
    <3> QED
      BY <3>2, <3>3
  <2>7. CASE r.load # None /\ r.load >= heard
    BY <2>1, <2>7 DEF NewsOK
  <2> QED
    BY <1>6, <2>4, <2>5, <2>6, <2>7 DEF NewsOK
<1> QED
  BY <1>4, <1>5, <1>6

\* A session whose save was refused still has what it sent and what came after it.
LEMMA RefusedSession ==
    ASSUME IInv, s.persist = "sent", answer # "none",
           NEW x, NEW r, DOMAIN x = Fields, HookOK(x, r), RebaseOK(x, twice),
           x.persist # "sent", x.seen = s.seen, x.version = s.version,
           x.pending = s.pending, x.batch = s.batch, r.recover = reads.recover,
           r.recover # None => x.taken = s.taken,
           x.auto # None => x.auto.edits = Outstanding,
           ~behind => NewsOK(x, r)
    PROVE  Ready(x, r, "none", twice, Done, behind)
<1>1. /\ WireOK(twice) /\ OnceOK(twice) /\ WorkOK(s, twice) /\ HookOK(s, reads)
      /\ AnswerOK(s, answer, twice) /\ CopiesOK(s, reads, Done)
      /\ ~behind => ViewOK(s)
      /\ s.seen # None
  BY Parts, HookFacts
<1>2. WorkOK(x, twice)
  BY <1>1 DEF WorkOK
<1>3. SentOK(x, twice)
  BY DEF SentOK
<1>4. AnswerOK(x, "none", twice)
  BY <1>1 DEF AnswerOK
<1>5. CopiesOK(x, r, Done)
  <2>1. OutstandingOf(x) = Outstanding
    BY DEF OutstandingOf, Outstanding
  <2> QED
    BY <1>1, <2>1 DEF CopiesOK, Outstanding
<1>6. ~behind => ViewOK(x)
  BY <1>1 DEF ViewOK
<1> QED
  BY <1>1, <1>2, <1>3, <1>4, <1>5, <1>6 DEF Ready

LEMMA RefusedKeeps == ASSUME IInv, Refused PROVE IInv'
<1>1. /\ ServerOK /\ WorkOK(s, twice) /\ HookOK(s, reads) /\ AnswerOK(s, answer, twice)
      /\ ~behind => ViewOK(s) /\ NewsOK(s, reads)
      /\ StoredOK(s, reads, twice, Done)
  BY Parts
<1>2. /\ s.persist = "sent" /\ answer \in {"conflict", "locked", "busy", "reused"}
      /\ answer' = "none" /\ UNCHANGED <<log, locked, heard, made, wire, mishaps, late, gone>>
      /\ twice' = twice /\ behind' = behind
  BY DEF Refused, serverVars, ghosts
<1>3. /\ DOMAIN s = Fields /\ DOMAIN reads = Asked /\ s.expected \in Nat
      /\ s.seen \in Nat /\ s.seen # None /\ s.auto = None /\ reads.rebase = None
      /\ s.saveState \in {"saved", "saving", "failed", "locked"}
      /\ s.taken # None => s.taken \in Seq(Edits) /\ ToSet(s.taken) \subseteq Known
      /\ reads.recover # None => s.taken # None
      /\ \A f \in Asked : reads[f] = None \/ reads[f] \in 1 .. Version
  BY <1>1, <1>2 DEF HookOK
<1>4. Version \in Nat /\ Version >= 1 /\ s.version \in Nat /\ s.version <= Version
  BY <1>1, LogFacts DEF WorkOK
<1>5. PICK u : u = Unheld(s)
  OBVIOUS
<1>6. /\ DOMAIN u = Fields
      /\ \A f \in Fields \ {"deferred", "held", "expected"} : u[f] = s[f]
      /\ u.held = FALSE /\ u.expected = 0 /\ (u.deferred = None \/ u.deferred \in Nat)
  BY <1>1, <1>4, <1>5, UnheldFacts
<1>7. ~behind => NewsOK([s EXCEPT !.deferred = u.deferred, !.held = FALSE, !.expected = 0], reads)
  BY <1>1, <1>4, <1>5, UnheldFacts
<1>8. /\ u.seen = s.seen /\ u.version = s.version /\ u.pending = s.pending /\ u.batch = s.batch
      /\ u.auto = None /\ u.taken = s.taken
  BY <1>3, <1>6, FieldNames
<1>9. ASSUME NEW x, NEW r, x.seen = s.seen, x.deferred = u.deferred, r.load = reads.load, ~behind
      PROVE  NewsOK(x, r)
  <2>1. PICK z : z = [s EXCEPT !.deferred = u.deferred, !.held = FALSE, !.expected = 0]
    OBVIOUS
  <2>2. z.seen = s.seen /\ z.deferred = u.deferred /\ z.held = FALSE
    BY <1>3, <2>1, FieldNames
  <2>3. NewsOK(z, reads)
    BY <1>7, <1>9, <2>1
  <2> QED
    BY <1>9, <2>2, <2>3 DEF NewsOK
<1>10. Done' = Done /\ mishaps' \in 0 .. MaxMishaps /\ mishaps' >= mishaps
  BY <1>1, <1>2, DoneStays, EditorAssumption DEF ServerOK
<1>11. PICK t, d, bh : t = twice /\ d = Done /\ bh = behind
  OBVIOUS
<1>12. CASE answer = "conflict" /\ ~s.tried
  <2>1. PICK b : b = [base |-> IF s.batch = None THEN s.version ELSE s.batch.base,
                      edits |-> Outstanding]
    OBVIOUS
  <2>2. PICK x, r : /\ x = [u EXCEPT !.persist = "rebase", !.tried = TRUE, !.auto = b]
                    /\ r = [reads EXCEPT !.rebase = Version]
    OBVIOUS
  <2>3. s' = x /\ reads' = r /\ stored' = stored
    BY <1>5, <1>12, <2>1, <2>2 DEF Refused
  <2>4. /\ DOMAIN x = Fields /\ x.persist = "rebase" /\ x.auto = b
        /\ \A f \in Fields \ {"persist", "tried", "auto"} : x[f] = u[f]
    BY <1>6, <2>2, FieldNames
  <2>5. /\ x.seen = s.seen /\ x.version = s.version /\ x.pending = s.pending
        /\ x.batch = s.batch /\ x.taken = s.taken /\ x.deferred = u.deferred
        /\ x.held = FALSE /\ x.expected = 0 /\ x.saveState = s.saveState
    BY <1>6, <2>4, FieldNames
  <2>6. /\ DOMAIN r = Asked /\ r.load = reads.load /\ r.recover = reads.recover
        /\ r.rebase = Version
        /\ \A f \in Asked : r[f] = None \/ r[f] \in 1 .. Version
    BY <1>3, <1>4, <2>2, FieldNames
  <2>7. /\ b.base = s.version /\ b.edits = Outstanding
        /\ Outstanding \in Seq(Edits) /\ ToSet(Outstanding) \subseteq Known
        /\ Apart(ToSet(Outstanding), s.version, twice)
    <3>1. b.base = s.version /\ b.edits = Outstanding
      BY <1>1, <2>1 DEF WorkOK
    <3>2. /\ Outstanding \in Seq(Edits) /\ ToSet(Outstanding) \subseteq Known
          /\ ToSet(Outstanding) = (IF s.batch = None THEN {} ELSE ToSet(s.batch.edits))
                                    \cup ToSet(s.pending)
      BY <1>1, OutstandingFacts DEF Outstanding
    <3>3. Apart(ToSet(Outstanding), s.version, twice)
      BY <1>1, <3>2 DEF WorkOK, Apart
    <3> QED
      BY <3>1, <3>2, <3>3
  <2>8. b # None
    BY <1>4, <2>1, <2>7, EditSeqs
  <2>9. HookOK(x, r)
    <3>1. r.rebase # None
      BY <1>4, <2>6, EditSeqs
    <3> QED
      BY <1>3, <1>6, <2>4, <2>5, <2>6, <2>8, <3>1 DEF HookOK
  <2>10. RebaseOK(x, twice)
    BY <1>4, <2>4, <2>7 DEF RebaseOK
  <2>11. ~behind => NewsOK(x, r)
    BY <1>9, <2>5, <2>6
  <2>12. Ready(x, r, "none", twice, Done, behind)
    BY <1>2, <2>4, <2>5, <2>6, <2>7, <2>9, <2>10, <2>11, RefusedSession
  <2>13. StoredOK(x, r, t, d)
    BY <1>1, <1>3, <2>5 DEF StoredOK, RecordOf, OutstandingOf
  <2>14. StoredOK(x, r, t, d)'
    BY <1>2, <2>3, <2>13, StoredStays
  <2> QED
    BY <1>1, <1>2, <1>10, <1>11, <2>3, <2>12, <2>14, PageStep
<1>13. CASE ~(answer = "conflict" /\ ~s.tried)
  <2>1. PICK state : state = IF answer = "locked" THEN "locked" ELSE "failed"
    OBVIOUS
  <2>2. PICK x : x = Failed(u, state)
    OBVIOUS
  <2>3. s' = x /\ reads' = reads /\ Checkpoint(x)
    BY <1>5, <1>13, <2>1, <2>2 DEF Refused, Checkpoint
  <2>4. /\ DOMAIN x = Fields /\ x.persist = "idle" /\ x.auto = None
        /\ \A f \in Fields \ {"persist", "tried", "auto", "taken", "saveState"} : x[f] = u[f]
        /\ x.taken = IF u.taken # None /\ reads.recover = None THEN None ELSE u.taken
        /\ x.saveState \in {"failed", "locked"}
    BY <1>6, <2>1, <2>2, FieldNames DEF Failed
  <2>5. /\ x.seen = s.seen /\ x.version = s.version /\ x.pending = s.pending
        /\ x.batch = s.batch /\ x.deferred = u.deferred
        /\ x.held = FALSE /\ x.expected = 0
        /\ x.taken = IF s.taken # None /\ reads.recover = None THEN None ELSE s.taken
    BY <1>6, <1>8, <2>4, FieldNames
  <2>6. HookOK(x, reads)
    BY <1>3, <1>6, <2>4, <2>5 DEF HookOK
  <2>7. RebaseOK(x, twice)
    BY <2>4 DEF RebaseOK
  <2>8. ~behind => NewsOK(x, reads)
    BY <1>9, <2>5
  <2>9. Ready(x, reads, "none", twice, Done, behind)
    BY <1>2, <2>4, <2>5, <2>6, <2>7, <2>8, RefusedSession
  <2>10. PICK r : r = reads
    OBVIOUS
  <2>11. StoredOK(x, r, t, d)'
    BY <1>3, <2>3, <2>5 DEF Checkpoint, StoredOK, RecordOf, OutstandingOf
  <2> QED
    BY <1>1, <1>2, <1>10, <1>11, <2>3, <2>9, <2>10, <2>11, PageStep
<1> QED
  BY <1>12, <1>13

-------------------------------------------------------------------------------
(* Reads that are adopted *)

LEMMA AnswersFacts ==
    ASSUME ServerOK, NEW f, reads[f] = None \/ reads[f] \in 1 .. Version,
           NEW read \in Answers(f)
    PROVE  /\ reads[f] # None /\ reads[f] \in Nat /\ reads[f] <= read.version
           /\ read.version \in Nat /\ read.seen \in Nat
           /\ read.version <= read.seen /\ read.seen <= Version
           /\ Shows(read.seen, read.version)
<1>1. Version \in Nat
  BY LogFacts
<1>2. reads[f] # None
  BY DEF Answers
<1>3. reads[f] \in Nat
  BY <1>1, <1>2
<1>4. /\ read \in [version : reads[f] .. Version, seen : reads[f] .. Version]
      /\ read.version <= read.seen
  BY <1>2 DEF Answers
<1>5. /\ read.version \in reads[f] .. Version /\ read.seen \in reads[f] .. Version
  BY <1>4
<1>6. /\ reads[f] <= read.version /\ read.version \in Nat /\ read.seen \in Nat
      /\ read.seen <= Version
  BY <1>1, <1>3, <1>5
<1>7. Shows(read.seen, read.version)
  BY <1>4, <1>6 DEF Shows
<1> QED
  BY <1>2, <1>3, <1>4, <1>6, <1>7

\* A read that is not overtaken shows what was heard of, unless that is put off.
LEMMA FreshRead ==
    ASSUME ServerOK, NEW x, HookOK(x, reads), NewsOK(x, reads),
           NEW f, NEW read \in Answers(f), f \in {"load", "rebase", "recover"},
           x.seen # None => x.seen <= read.seen, x.persist # "sent"
    PROVE  \/ Shows(read.seen, heard)
           \/ x.seen # None /\ x.deferred # None /\ (x.deferred = 0 \/ x.deferred >= heard)
           \/ reads.load # None /\ reads.load >= heard
<1>1. /\ DOMAIN reads = Asked
      /\ x.seen = None \/ x.seen \in Nat
      /\ \A g \in Asked : reads[g] = None \/ reads[g] \in 1 .. Version
      /\ ~x.held
  BY DEF HookOK
<1>2. read.seen \in Nat /\ heard \in Nat
  BY <1>1, FieldNames, AnswersFacts, LogFacts
<1>3. x.seen # None /\ Shows(x.seen, heard) => Shows(read.seen, heard)
  BY <1>1, <1>2, ShowsMore
<1> QED
  BY <1>1, <1>3 DEF NewsOK

\* A session that gives up the end of what it has to send
LEMMA CutReady ==
    ASSUME ServerOK, NEW y, NEW r, NEW a, NEW t, NEW d, NEW bh, Ready(y, r, a, t, d, bh),
           y.batch = None, y.seen # None, NEW n \in 0 .. Len(y.pending),
           NEW z, z = [y EXCEPT !.pending = SubSeq(y.pending, 1, n)]
    PROVE  Ready(z, r, a, t, d \cup ToSet(SubSeq(y.pending, n + 1, Len(y.pending))), bh)
<1>1. /\ WireOK(t) /\ OnceOK(t) /\ WorkOK(y, t) /\ HookOK(y, r) /\ RebaseOK(y, t)
      /\ SentOK(y, t) /\ AnswerOK(y, a, t) /\ CopiesOK(y, r, d)
      /\ ~bh => ViewOK(y) /\ NewsOK(y, r)
  BY DEF Ready
<1>2. DOMAIN y = Fields
  BY <1>1 DEF HookOK
<1>3. /\ DOMAIN z = Fields /\ z.pending = SubSeq(y.pending, 1, n)
      /\ \A f \in Fields \ {"pending"} : z[f] = y[f]
  BY <1>2, FieldNames
<1>4. /\ z.seen = y.seen /\ z.version = y.version /\ z.batch = None /\ z.persist = y.persist
      /\ z.expected = y.expected /\ z.held = y.held /\ z.deferred = y.deferred
      /\ z.saveState = y.saveState /\ z.auto = y.auto /\ z.taken = y.taken
  BY <1>3, FieldNames
<1>5. y.pending \in Seq(Edits) /\ ToSet(y.pending) \subseteq Known
  BY <1>1 DEF WorkOK
<1> DEFINE rest == ToSet(SubSeq(y.pending, n + 1, Len(y.pending)))
<1>6. /\ z.pending \in Seq(Edits)
      /\ ToSet(y.pending) = ToSet(z.pending) \cup rest
  BY <1>3, <1>5, ToSetCut
<1> HIDE DEF rest
<1>7. WorkOK(z, t)
  BY <1>1, <1>4, <1>5, <1>6 DEF WorkOK, Apart
<1>8. HookOK(z, r)
  <2>1. z.seen # None
    BY <1>4
  <2> QED
    BY <1>1, <1>3, <1>4, <2>1 DEF HookOK
<1>9. RebaseOK(z, t)
  BY <1>1, <1>4 DEF RebaseOK
<1>10. SentOK(z, t)
  BY <1>1, <1>4, <1>6 DEF SentOK, Apart
<1>11. AnswerOK(z, a, t)
  BY <1>1, <1>4, <1>6 DEF AnswerOK
<1>12. CopiesOK(z, r, d \cup rest)
  <2>1. OutstandingOf(z) = z.pending /\ OutstandingOf(y) = y.pending
    BY <1>1, <1>4, <1>7, OutstandingFacts
  <2> QED
    BY <1>1, <1>4, <1>6, <2>1 DEF CopiesOK
<1>13. ~bh => ViewOK(z) /\ NewsOK(z, r)
  BY <1>1, <1>4 DEF ViewOK, NewsOK
<1> QED
  BY <1>1, <1>7, <1>8, <1>9, <1>10, <1>11, <1>12, <1>13 DEF Ready, rest

\* The read is adopted with the edits that apply to it: y is the session in which all do.
LEMMA AdoptKeeps ==
    ASSUME ServerOK, UNCHANGED <<log, locked, heard, made, mishaps, late>>,
           NEW x, NEW read, NEW edits \in Seq(Edits), DOMAIN x = Fields,
           NEW y, y = [x EXCEPT !.seen = read.seen, !.version = read.version,
                                !.deferred = None, !.batch = None, !.pending = edits],
           NEW r, NEW a, NEW t, NEW bh, Ready(y, r, a, t, Done, bh), read.seen # None,
           Adopt(x, read, edits, r), answer' = a, twice' = t, behind' = bh
    PROVE  IInv'
<1>1. PICK n \in Fitting(x, read, edits) :
        /\ Persist(Adopted(x, read, edits, n), r)
        /\ gone' = gone \cup ToSet(SubSeq(edits, n + 1, Len(edits)))
  BY DEF Adopt
<1>2. n \in 0 .. Len(edits)
  BY DEF Fitting
<1>3. PICK z : z = Adopted(x, read, edits, n)
  OBVIOUS
<1>4. /\ DOMAIN y = Fields /\ y.pending = edits /\ y.batch = None /\ y.seen = read.seen
  BY FieldNames
<1>5. z = [y EXCEPT !.pending = SubSeq(edits, 1, n)]
  <2>1. z = [x EXCEPT !.seen = read.seen, !.version = read.version, !.deferred = None,
                      !.batch = None, !.pending = SubSeq(edits, 1, n)]
    BY <1>3 DEF Adopted
  <2> QED
    BY <2>1, FieldNames
<1>6. PICK rest : rest = ToSet(SubSeq(edits, n + 1, Len(edits)))
  OBVIOUS
<1>7. PICK d : d = Done \cup rest
  OBVIOUS
<1>8. Done' = d
  BY <1>1, <1>6, <1>7 DEF Done, StoredEdits
<1>9. Ready(z, r, a, t, d, bh)
  BY <1>2, <1>4, <1>5, <1>6, <1>7, CutReady
<1>10. z.seen # None
  BY <1>4, <1>5, FieldNames
<1> QED
  BY <1>1, <1>3, <1>8, <1>9, <1>10, PersistKeeps

\* The rows from the base of a rebase up to what it read are of machines, and have no edits.
LEMMA MachineRows ==
    ASSUME ServerOK, NEW base \in Nat, NEW read, read.version \in Nat, MachineOnly(base, read),
           NEW E, NEW t, Apart(E, base, t)
    PROVE  Apart(E, read.version, t)
<1>1. /\ Len(log) \in Nat /\ DOMAIN log = 1 .. Len(log)
  BY LogFacts
<1> SUFFICES ASSUME NEW k \in DOMAIN log, k < read.version
             PROVE  E \cap ToSet(log[k].edits) \subseteq t
  BY DEF Apart
<1>2. CASE k < base
  BY <1>2 DEF Apart
<1>3. CASE k >= base
  <2>1. k \in base .. read.version - 1
    BY <1>1, <1>3
  <2>2. log[k].by = "machine"
    BY <2>1 DEF MachineOnly
  <2>3. ToSet(log[k].edits) = {}
    BY <2>2, ToSetEmpty DEF ServerOK
  <2> QED
    BY <2>3
<1> QED
  BY <1>1, <1>2, <1>3

\* A rebase by itself: what it took with it is adopted over the rows of machines.
LEMMA AutoRebaseAdopts ==
    ASSUME IInv, s.persist = "rebase",
           NEW read \in Answers("rebase"), MachineOnly(s.auto.base, read),
           Adopt([s EXCEPT !.persist = "idle", !.auto = None], read, s.auto.edits,
                 [reads EXCEPT !.rebase = None]),
           UNCHANGED <<log, locked, heard, made, mishaps, late, answer, twice>>
    PROVE  IInv'
<1>1. /\ ServerOK /\ WireOK(twice) /\ OnceOK(twice)
      /\ WorkOK(s, twice) /\ HookOK(s, reads) /\ RebaseOK(s, twice)
      /\ AnswerOK(s, answer, twice) /\ CopiesOK(s, reads, Done)
      /\ ~behind => ViewOK(s) /\ NewsOK(s, reads)
  BY Parts
<1>2. PICK x, r : /\ x = [s EXCEPT !.persist = "idle", !.auto = None]
                  /\ r = [reads EXCEPT !.rebase = None]
  OBVIOUS
<1>3. PICK edits, a, t, bh : edits = s.auto.edits /\ a = answer /\ t = twice /\ bh = behind'
  OBVIOUS
<1>4. PICK y : y = [x EXCEPT !.seen = read.seen, !.version = read.version,
                             !.deferred = None, !.batch = None, !.pending = edits]
  OBVIOUS
<1>5. /\ DOMAIN s = Fields /\ DOMAIN reads = Asked /\ s.expected = 0 /\ s.auto # None
      /\ s.seen \in Nat /\ s.seen # None /\ ~s.held
      /\ s.saveState \in {"saved", "saving", "failed", "locked"}
      /\ s.taken # None => s.taken \in Seq(Edits) /\ ToSet(s.taken) \subseteq Known
      /\ reads.recover # None => s.taken # None
      /\ \A f \in Asked : reads[f] = None \/ reads[f] \in 1 .. Version
  BY <1>1 DEF HookOK
<1>6. /\ DOMAIN x = Fields /\ x.persist = "idle" /\ x.auto = None /\ x.seen = s.seen
      /\ x.version = s.version /\ x.deferred = s.deferred
      /\ \A f \in Fields \ {"persist", "auto"} : x[f] = s[f]
  BY <1>2, <1>5, FieldNames
<1>7. /\ DOMAIN y = Fields /\ y.seen = read.seen /\ y.version = read.version
      /\ y.deferred = None /\ y.batch = None /\ y.pending = edits
      /\ y.persist = "idle" /\ y.auto = None /\ y.expected = 0 /\ ~y.held
      /\ y.saveState = s.saveState /\ y.taken = s.taken
  BY <1>4, <1>5, <1>6, FieldNames
<1>8. /\ DOMAIN r = Asked /\ r.load = reads.load /\ r.recover = reads.recover /\ r.rebase = None
      /\ \A f \in Asked : r[f] = None \/ r[f] \in 1 .. Version
  BY <1>2, <1>5, FieldNames
<1>9. /\ read.version \in Nat /\ read.seen \in Nat /\ read.version <= Version
      /\ read.version <= read.seen /\ Shows(read.seen, read.version)
  <2>1. reads["rebase"] = None \/ reads["rebase"] \in 1 .. Version
    BY <1>5, FieldNames
  <2>2. Version \in Nat
    BY <1>1, LogFacts
  <2> QED
    BY <1>1, <2>1, <2>2, AnswersFacts
<1>10. read.seen # None
  BY <1>9, EditSeqs
<1>11. /\ edits \in Seq(Edits) /\ ToSet(edits) \subseteq Known
       /\ Apart(ToSet(edits), read.version, twice)
  <2>1. /\ s.auto.base \in Nat /\ edits \in Seq(Edits) /\ ToSet(edits) \subseteq Known
        /\ Apart(ToSet(edits), s.auto.base, twice)
    BY <1>1, <1>3, <1>5, LogFacts DEF RebaseOK
  <2> QED
    BY <1>1, <1>9, <2>1, MachineRows
<1>12. WorkOK(y, twice)
  BY <1>1, <1>7, <1>9, <1>11, LogFacts DEF WorkOK
<1>13. HookOK(y, r)
  BY <1>5, <1>7, <1>8, <1>9, <1>10 DEF HookOK
<1>14. RebaseOK(y, twice) /\ SentOK(y, twice)
  BY <1>7 DEF RebaseOK, SentOK
<1>15. AnswerOK(y, answer, twice)
  <2>1. answer = "none" /\ \A q \in wire : ~q.mine
    BY <1>1 DEF AnswerOK
  <2> QED
    BY <2>1 DEF AnswerOK
<1>16. CopiesOK(y, r, Done)
  <2>1. OutstandingOf(y) = edits
    BY <1>7, <1>12, OutstandingFacts
  <2> QED
    BY <1>1, <1>3, <1>5, <1>7, <1>8, <2>1 DEF CopiesOK
<1>17. ~bh => ViewOK(y) /\ NewsOK(y, r)
  <2> SUFFICES ASSUME ~bh PROVE ViewOK(y) /\ NewsOK(y, r)
    OBVIOUS
  <2>1. ~behind /\ ~Overtaken(x, read)
    BY <1>2, <1>3 DEF Adopt
  <2>2. /\ ~(read.seen < s.seen)
        /\ s.deferred # None => ~(read.version < heard)
    BY <1>5, <1>6, <2>1 DEF Overtaken
  <2>3. ViewOK(y)
    BY <1>7, <1>9 DEF ViewOK
  <2>4. heard \in Nat
    BY <1>1, LogFacts
  <2>5. \/ Shows(read.seen, heard)
        \/ s.seen # None /\ s.deferred # None /\ (s.deferred = 0 \/ s.deferred >= heard)
        \/ reads.load # None /\ reads.load >= heard
    BY <1>1, <1>5, <1>9, <2>1, <2>2, FreshRead
  <2>6. s.deferred # None => Shows(read.seen, heard)
    <3>1. s.deferred # None => heard <= read.seen
      BY <1>9, <2>2, <2>4
    <3> QED
      BY <1>5, <1>9, <2>4, <3>1, ShowsMore
  <2> QED
    BY <1>7, <1>8, <1>10, <2>3, <2>5, <2>6 DEF NewsOK
<1>18. Ready(y, r, a, t, Done, bh)
  BY <1>1, <1>3, <1>12, <1>13, <1>14, <1>15, <1>16, <1>17 DEF Ready
<1>19. Adopt(x, read, edits, r)
  BY <1>2, <1>3
<1> QED
  BY <1>1, <1>3, <1>4, <1>6, <1>10, <1>11, <1>18, <1>19, AdoptKeeps

\* The rebase is given up: what was unsaved waits for the user.
LEMMA RebaseFails ==
    ASSUME IInv, s.persist = "rebase", Checkpoint(Failed(s, "failed")),
           reads' = [reads EXCEPT !.rebase = None],
           MishapIf(\A read \in Answers("rebase") : MachineOnly(s.auto.base, read)),
           UNCHANGED <<log, locked, heard, made, late, gone, wire, answer, twice, behind>>
    PROVE  IInv'
<1>1. /\ ServerOK /\ WireOK(twice) /\ OnceOK(twice)
      /\ WorkOK(s, twice) /\ HookOK(s, reads)
      /\ AnswerOK(s, answer, twice) /\ CopiesOK(s, reads, Done)
      /\ ~behind => ViewOK(s) /\ NewsOK(s, reads)
  BY Parts
<1>2. PICK x, r : x = Failed(s, "failed") /\ r = [reads EXCEPT !.rebase = None]
  OBVIOUS
<1>3. PICK a, t, d, bh : a = answer /\ t = twice /\ d = Done /\ bh = behind
  OBVIOUS
<1>4. /\ DOMAIN s = Fields /\ DOMAIN reads = Asked /\ s.expected = 0
      /\ s.seen \in Nat /\ s.seen # None /\ ~s.held
      /\ s.deferred = None \/ s.deferred \in Nat
      /\ s.taken # None => s.taken \in Seq(Edits) /\ ToSet(s.taken) \subseteq Known
      /\ reads.recover # None => s.taken # None
      /\ \A f \in Asked : reads[f] = None \/ reads[f] \in 1 .. Version
  BY <1>1 DEF HookOK
<1>5. /\ DOMAIN x = Fields /\ x.persist = "idle" /\ x.auto = None
      /\ \A f \in Fields \ {"persist", "tried", "auto", "taken", "saveState"} : x[f] = s[f]
      /\ x.taken = IF s.taken # None /\ reads.recover = None THEN None ELSE s.taken
      /\ x.saveState = "failed"
  BY <1>2, <1>4, FieldNames DEF Failed
<1>6. /\ x.seen = s.seen /\ x.version = s.version /\ x.pending = s.pending /\ x.batch = s.batch
      /\ x.deferred = s.deferred /\ ~x.held /\ x.expected = 0
  BY <1>4, <1>5, FieldNames
<1>7. /\ DOMAIN r = Asked /\ r.load = reads.load /\ r.recover = reads.recover /\ r.rebase = None
      /\ \A f \in Asked : r[f] = None \/ r[f] \in 1 .. Version
  BY <1>2, <1>4, FieldNames
<1>8. WorkOK(x, twice)
  BY <1>1, <1>6 DEF WorkOK
<1>9. HookOK(x, r)
  BY <1>4, <1>5, <1>6, <1>7 DEF HookOK
<1>10. RebaseOK(x, twice) /\ SentOK(x, twice)
  BY <1>5 DEF RebaseOK, SentOK
<1>11. AnswerOK(x, answer, twice)
  <2>1. answer = "none" /\ \A q \in wire : ~q.mine
    BY <1>1 DEF AnswerOK
  <2> QED
    BY <2>1 DEF AnswerOK
<1>12. CopiesOK(x, r, Done)
  <2>1. OutstandingOf(x) = OutstandingOf(s)
    BY <1>6 DEF OutstandingOf
  <2> QED
    BY <1>1, <1>4, <1>5, <1>6, <1>7, <2>1 DEF CopiesOK
<1>13. ~behind => ViewOK(x) /\ NewsOK(x, r)
  BY <1>1, <1>4, <1>5, <1>6, <1>7 DEF ViewOK, NewsOK
<1>14. Ready(x, r, a, t, d, bh)
  BY <1>1, <1>3, <1>8, <1>9, <1>10, <1>11, <1>12, <1>13 DEF Ready
<1>15. s' = x /\ reads' = r /\ Checkpoint(x)
  BY <1>2 DEF Checkpoint
<1>16. StoredOK(x, r, t, d)'
  BY <1>4, <1>6, <1>15 DEF Checkpoint, StoredOK, RecordOf, OutstandingOf
<1>17. Done' = d /\ mishaps' \in 0 .. MaxMishaps /\ mishaps' >= mishaps
  BY <1>1, <1>3, DoneStays, MishapsGrow
<1> QED
  BY <1>1, <1>3, <1>14, <1>15, <1>16, <1>17, PageStep

LEMMA AutoRebaseKeeps == ASSUME IInv, AutoRebase PROVE IInv'
<1>1. s.persist = "rebase" /\ UNCHANGED <<log, locked, heard, made, late, answer, twice>>
  BY DEF AutoRebase, serverVars
<1>2. CASE \E read \in Answers("rebase") :
             /\ MachineOnly(s.auto.base, read)
             /\ Adopt([s EXCEPT !.persist = "idle", !.auto = None], read, s.auto.edits,
                      [reads EXCEPT !.rebase = None])
             /\ UNCHANGED mishaps
  BY <1>1, <1>2, AutoRebaseAdopts
<1>3. CASE /\ MishapIf(\A read \in Answers("rebase") : MachineOnly(s.auto.base, read))
           /\ Checkpoint(Failed(s, "failed")) /\ reads' = [reads EXCEPT !.rebase = None]
           /\ UNCHANGED <<wire, gone, behind>>
  BY <1>1, <1>3, RebaseFails
<1> QED
  BY <1>2, <1>3 DEF AutoRebase

\* What is said with some edits excused is so with more of them excused.
LEMMA MoreExcused ==
    ASSUME NEW t, NEW u, t \subseteq u
    PROVE  /\ WireOK(t) => WireOK(u)
           /\ OnceOK(t) => OnceOK(u)
           /\ \A x : RebaseOK(x, t) => RebaseOK(x, u)
<1>1. \A E, v : Apart(E, v, t) => Apart(E, v, u)
  BY DEF Apart
<1>2. WireOK(t) => WireOK(u)
  BY <1>1 DEF WireOK
<1>3. OnceOK(t) => OnceOK(u)
  BY DEF OnceOK
<1>4. \A x : RebaseOK(x, t) => RebaseOK(x, u)
  BY <1>1 DEF RebaseOK
<1> QED
  BY <1>2, <1>3, <1>4

\* The user's recovery takes with it what is unsaved.
LEMMA RecoverKeeps == ASSUME IInv, Recover PROVE IInv'
<1>1. /\ ServerOK /\ WireOK(twice) /\ OnceOK(twice)
      /\ WorkOK(s, twice) /\ HookOK(s, reads) /\ RebaseOK(s, twice) /\ SentOK(s, twice)
      /\ AnswerOK(s, answer, twice) /\ CopiesOK(s, reads, Done)
      /\ ~behind => ViewOK(s) /\ NewsOK(s, reads)
      /\ StoredOK(s, reads, twice, Done)
  BY Parts
<1>2. PICK x, r : x = [s EXCEPT !.taken = Outstanding] /\ r = [reads EXCEPT !.recover = Version]
  OBVIOUS
<1>3. PICK a, t, d, bh : a = answer /\ t = twice /\ d = Done /\ bh = behind
  OBVIOUS
<1>4. /\ s.saveState = "failed" /\ s' = x /\ reads' = r
      /\ UNCHANGED <<log, locked, heard, made, wire, late, gone, stored>>
      /\ mishaps' = mishaps /\ answer' = a /\ twice' = t /\ behind' = bh
  BY <1>2, <1>3 DEF Recover, Buttons, serverVars, ghosts
<1>5. /\ DOMAIN s = Fields /\ DOMAIN reads = Asked /\ s.seen # None
      /\ \A f \in Asked : reads[f] = None \/ reads[f] \in 1 .. Version
      /\ Version \in Nat /\ Version >= 1
  BY <1>1, <1>4, LogFacts DEF HookOK
<1>6. /\ DOMAIN x = Fields /\ x.taken = Outstanding
      /\ \A f \in Fields \ {"taken"} : x[f] = s[f]
  BY <1>2, <1>5, FieldNames
<1>7. /\ x.seen = s.seen /\ x.version = s.version /\ x.pending = s.pending /\ x.batch = s.batch
      /\ x.persist = s.persist /\ x.expected = s.expected /\ x.held = s.held
      /\ x.deferred = s.deferred /\ x.saveState = s.saveState /\ x.auto = s.auto
  BY <1>6, FieldNames
<1>8. /\ DOMAIN r = Asked /\ r.load = reads.load /\ r.rebase = reads.rebase
      /\ \A f \in Asked : r[f] = None \/ r[f] \in 1 .. Version
  BY <1>2, <1>5, FieldNames
<1>9. /\ Outstanding \in Seq(Edits) /\ ToSet(Outstanding) \subseteq Known /\ Outstanding # None
  BY <1>1, OutstandingFacts, EditSeqs DEF Outstanding
<1>10. WorkOK(x, t)
  BY <1>1, <1>3, <1>7 DEF WorkOK
<1>11. HookOK(x, r)
  BY <1>1, <1>5, <1>6, <1>7, <1>8, <1>9 DEF HookOK
<1>12. RebaseOK(x, t) /\ SentOK(x, t)
  BY <1>1, <1>3, <1>7 DEF RebaseOK, SentOK
<1>13. AnswerOK(x, a, t)
  BY <1>1, <1>3, <1>7 DEF AnswerOK
<1>14. CopiesOK(x, r, d)
  <2>1. OutstandingOf(x) = OutstandingOf(s)
    BY <1>7 DEF OutstandingOf
  <2> QED
    BY <1>1, <1>3, <1>5, <1>6, <1>7, <2>1 DEF CopiesOK, Outstanding
<1>15. ~bh => ViewOK(x) /\ NewsOK(x, r)
  BY <1>1, <1>3, <1>7, <1>8 DEF ViewOK, NewsOK
<1>16. Ready(x, r, a, t, d, bh)
  BY <1>1, <1>3, <1>10, <1>11, <1>12, <1>13, <1>14, <1>15 DEF Ready
<1>17. StoredOK(x, r, t, d)
  BY <1>1, <1>5, <1>7 DEF StoredOK, RecordOf, OutstandingOf
<1>18. StoredOK(x, r, t, d)'
  BY <1>4, <1>17, StoredStays
<1>19. Done' = d /\ mishaps' \in 0 .. MaxMishaps /\ mishaps' >= mishaps
  BY <1>1, <1>3, <1>4, DoneStays, MishapsGrow
<1> QED
  BY <1>1, <1>4, <1>16, <1>18, <1>19, PageStep

\* What the recovery took with it is adopted: what the journal has or may come to
\* have of it is excused.
LEMMA RecoveryAdopts ==
    ASSUME IInv, reads.recover # None, NEW read \in Answers("recover"),
           Adopt([s EXCEPT !.saveState = "saved", !.taken = <<>>], read, s.taken,
                 [reads EXCEPT !.recover = None]),
           twice' = twice \cup (ToSet(s.taken) \cap (StoredEdits \cup SentEdits)),
           UNCHANGED <<log, locked, heard, made, mishaps, late, answer>>
    PROVE  IInv'
<1>1. /\ ServerOK /\ WireOK(twice) /\ OnceOK(twice)
      /\ WorkOK(s, twice) /\ HookOK(s, reads) /\ RebaseOK(s, twice) /\ SentOK(s, twice)
      /\ AnswerOK(s, answer, twice) /\ CopiesOK(s, reads, Done)
      /\ ~behind => ViewOK(s) /\ NewsOK(s, reads)
  BY Parts
<1>2. PICK x, r : /\ x = [s EXCEPT !.saveState = "saved", !.taken = <<>>]
                  /\ r = [reads EXCEPT !.recover = None]
  OBVIOUS
<1>3. PICK edits, a, t, bh : edits = s.taken /\ a = answer /\ t = twice' /\ bh = behind'
  OBVIOUS
<1>4. PICK y : y = [x EXCEPT !.seen = read.seen, !.version = read.version,
                             !.deferred = None, !.batch = None, !.pending = edits]
  OBVIOUS
<1>5. /\ DOMAIN s = Fields /\ DOMAIN reads = Asked /\ s.taken # None
      /\ s.seen \in Nat /\ s.seen # None
      /\ edits \in Seq(Edits) /\ ToSet(edits) \subseteq Known
      /\ \A f \in Asked : reads[f] = None \/ reads[f] \in 1 .. Version
  BY <1>1, <1>3 DEF HookOK
<1>6. /\ DOMAIN x = Fields /\ x.seen = s.seen /\ x.version = s.version
      /\ x.deferred = s.deferred /\ x.persist = s.persist
      /\ \A f \in Fields \ {"saveState", "taken"} : x[f] = s[f]
      /\ x.saveState = "saved" /\ x.taken = <<>>
  BY <1>2, <1>5, FieldNames
<1>7. /\ DOMAIN y = Fields /\ y.seen = read.seen /\ y.version = read.version
      /\ y.deferred = None /\ y.batch = None /\ y.pending = edits
      /\ y.persist = s.persist /\ y.auto = s.auto /\ y.expected = s.expected /\ y.held = s.held
      /\ y.saveState = "saved" /\ y.taken = <<>>
  BY <1>4, <1>6, FieldNames
<1>8. /\ DOMAIN r = Asked /\ r.load = reads.load /\ r.rebase = reads.rebase /\ r.recover = None
      /\ \A f \in Asked : r[f] = None \/ r[f] \in 1 .. Version
  BY <1>2, <1>5, FieldNames
<1>9. /\ read.version \in Nat /\ read.seen \in Nat /\ read.version <= Version
      /\ read.version <= read.seen /\ Shows(read.seen, read.version)
  <2>1. reads["recover"] = None \/ reads["recover"] \in 1 .. Version
    BY <1>5, FieldNames
  <2>2. Version \in Nat
    BY <1>1, LogFacts
  <2> QED
    BY <1>1, <2>1, <2>2, AnswersFacts
<1>10. read.seen # None
  BY <1>9, EditSeqs
<1>11. WireOK(t) /\ OnceOK(t) /\ RebaseOK(s, t) /\ twice \subseteq t
  BY <1>1, <1>3, MoreExcused
<1>12. /\ \A k \in DOMAIN log : ToSet(edits) \cap ToSet(log[k].edits) \subseteq t
       /\ \A q \in wire : q.mine => ToSet(edits) \cap ToSet(q.batch.edits) \subseteq t
  BY <1>3 DEF StoredEdits, SentEdits
<1>13. WorkOK(y, t)
  BY <1>5, <1>7, <1>9, <1>12, <1>1, LogFacts DEF WorkOK, Apart
<1>14. HookOK(y, r)
  <2>1. ToSet(<<>>) \subseteq Known /\ <<>> \in Seq(Edits)
    BY ToSetEmpty, EditSeqs
  <2> QED
    BY <1>1, <1>7, <1>8, <1>9, <1>10, <2>1 DEF HookOK
<1>15. RebaseOK(y, t)
  BY <1>7, <1>11 DEF RebaseOK
<1>16. SentOK(y, t)
  BY <1>1, <1>7, <1>12 DEF SentOK, Apart
<1>17. AnswerOK(y, a, t)
  BY <1>1, <1>3, <1>7, <1>12 DEF AnswerOK
<1>18. CopiesOK(y, r, Done)
  <2>1. OutstandingOf(y) = edits
    BY <1>7, <1>13, OutstandingFacts
  <2> QED
    BY <1>1, <1>3, <1>7, <1>8, <2>1 DEF CopiesOK
<1>19. ~bh => ViewOK(y) /\ NewsOK(y, r)
  <2> SUFFICES ASSUME ~bh PROVE ViewOK(y) /\ NewsOK(y, r)
    OBVIOUS
  <2>1. ~behind /\ ~Overtaken(x, read)
    BY <1>2, <1>3 DEF Adopt
  <2>2. /\ ~(read.seen < s.seen) /\ s.persist = "idle"
        /\ s.deferred # None => ~(read.version < heard)
    BY <1>5, <1>6, <2>1 DEF Overtaken
  <2>3. ViewOK(y)
    BY <1>7, <1>9, <2>2 DEF ViewOK
  <2>4. heard \in Nat
    BY <1>1, LogFacts
  <2>5. \/ Shows(read.seen, heard)
        \/ s.seen # None /\ s.deferred # None /\ (s.deferred = 0 \/ s.deferred >= heard)
        \/ reads.load # None /\ reads.load >= heard
    BY <1>1, <1>5, <1>9, <2>1, <2>2, FreshRead
  <2>6. s.deferred # None => Shows(read.seen, heard)
    <3>1. s.deferred # None => heard <= read.seen
      BY <1>9, <2>2, <2>4
    <3> QED
      BY <1>5, <1>9, <2>4, <3>1, ShowsMore
  <2> QED
    BY <1>7, <1>8, <1>10, <2>3, <2>5, <2>6 DEF NewsOK
<1>20. Ready(y, r, a, t, Done, bh)
  BY <1>11, <1>13, <1>14, <1>15, <1>16, <1>17, <1>18, <1>19 DEF Ready
<1>21. Adopt(x, read, edits, r)
  BY <1>2, <1>3
<1> QED
  BY <1>1, <1>3, <1>4, <1>5, <1>6, <1>10, <1>20, <1>21, AdoptKeeps

\* The recovery could not read the draft: what is unsaved waits for the user again.
LEMMA RecoveryFails ==
    ASSUME IInv, reads.recover # None, Mishap,
           s' = [s EXCEPT !.saveState = "failed", !.taken = None],
           reads' = [reads EXCEPT !.recover = None],
           UNCHANGED <<log, locked, heard, made, late, gone, wire, stored, answer, twice, behind>>
    PROVE  IInv'
<1>1. /\ ServerOK /\ WireOK(twice) /\ OnceOK(twice)
      /\ WorkOK(s, twice) /\ HookOK(s, reads) /\ RebaseOK(s, twice) /\ SentOK(s, twice)
      /\ AnswerOK(s, answer, twice) /\ CopiesOK(s, reads, Done)
      /\ ~behind => ViewOK(s) /\ NewsOK(s, reads)
      /\ StoredOK(s, reads, twice, Done)
  BY Parts
<1>2. PICK x, r : /\ x = [s EXCEPT !.saveState = "failed", !.taken = None]
                  /\ r = [reads EXCEPT !.recover = None]
  OBVIOUS
<1>3. PICK a, t, d, bh : a = answer /\ t = twice /\ d = Done /\ bh = behind
  OBVIOUS
<1>4. /\ DOMAIN s = Fields /\ DOMAIN reads = Asked /\ s.seen # None
      /\ \A f \in Asked : reads[f] = None \/ reads[f] \in 1 .. Version
  BY <1>1 DEF HookOK
<1>5. /\ DOMAIN x = Fields /\ x.saveState = "failed" /\ x.taken = None
      /\ \A f \in Fields \ {"saveState", "taken"} : x[f] = s[f]
  BY <1>2, <1>4, FieldNames
<1>6. /\ x.seen = s.seen /\ x.version = s.version /\ x.pending = s.pending /\ x.batch = s.batch
      /\ x.persist = s.persist /\ x.expected = s.expected /\ x.held = s.held
      /\ x.deferred = s.deferred /\ x.auto = s.auto
  BY <1>5, FieldNames
<1>7. /\ DOMAIN r = Asked /\ r.load = reads.load /\ r.rebase = reads.rebase /\ r.recover = None
      /\ \A f \in Asked : r[f] = None \/ r[f] \in 1 .. Version
  BY <1>2, <1>4, FieldNames
<1>8. WorkOK(x, t)
  BY <1>1, <1>3, <1>6 DEF WorkOK
<1>9. HookOK(x, r)
  BY <1>1, <1>4, <1>5, <1>6, <1>7 DEF HookOK
<1>10. RebaseOK(x, t) /\ SentOK(x, t)
  BY <1>1, <1>3, <1>6 DEF RebaseOK, SentOK
<1>11. AnswerOK(x, a, t)
  BY <1>1, <1>3, <1>6 DEF AnswerOK
<1>12. CopiesOK(x, r, d)
  <2>1. OutstandingOf(x) = OutstandingOf(s)
    BY <1>6 DEF OutstandingOf
  <2> QED
    BY <1>1, <1>3, <1>6, <1>7, <2>1 DEF CopiesOK
<1>13. ~bh => ViewOK(x) /\ NewsOK(x, r)
  BY <1>1, <1>3, <1>6, <1>7 DEF ViewOK, NewsOK
<1>14. Ready(x, r, a, t, d, bh)
  BY <1>1, <1>3, <1>8, <1>9, <1>10, <1>11, <1>12, <1>13 DEF Ready
<1>15. StoredOK(x, r, t, d)'
  <2>1. StoredOK(x, r, t, d)
    BY <1>1, <1>4, <1>6 DEF StoredOK, RecordOf, OutstandingOf
  <2> QED
    BY <2>1, StoredStays
<1>16. Done' = d /\ mishaps' \in 0 .. MaxMishaps /\ mishaps' >= mishaps
  BY <1>1, <1>3, DoneStays, MishapsGrow
<1> QED
  BY <1>1, <1>2, <1>3, <1>14, <1>15, <1>16, PageStep

LEMMA RecoveredKeeps == ASSUME IInv, Recovered PROVE IInv'
<1>1. reads.recover # None /\ UNCHANGED <<log, locked, heard, made, late, answer>>
  BY DEF Recovered, serverVars
<1>2. CASE /\ \E read \in Answers("recover") :
                Adopt([s EXCEPT !.saveState = "saved", !.taken = <<>>], read, s.taken,
                      [reads EXCEPT !.recover = None])
           /\ twice' = twice \cup (ToSet(s.taken) \cap (StoredEdits \cup SentEdits))
           /\ UNCHANGED mishaps
  BY <1>1, <1>2, RecoveryAdopts
<1>3. CASE /\ Mishap
           /\ s' = [s EXCEPT !.saveState = "failed", !.taken = None]
           /\ reads' = [reads EXCEPT !.recover = None]
           /\ UNCHANGED <<wire, stored, gone, behind, twice>>
  BY <1>1, <1>3, RecoveryFails
<1> QED
  BY <1>2, <1>3 DEF Recovered

\* The user gives up what is unsaved; the item is read anew.
LEMMA DiscardKeeps == ASSUME IInv, Discard PROVE IInv'
<1>1. /\ ServerOK /\ WireOK(twice) /\ OnceOK(twice)
      /\ WorkOK(s, twice) /\ HookOK(s, reads) /\ RebaseOK(s, twice) /\ SentOK(s, twice)
      /\ AnswerOK(s, answer, twice) /\ CopiesOK(s, reads, Done)
      /\ ~behind => ViewOK(s) /\ NewsOK(s, reads)
  BY Parts
<1>2. PICK x, r : /\ x = [s EXCEPT !.batch = None, !.pending = <<>>, !.version = 0,
                                   !.saveState = "saved", !.deferred = None]
                  /\ r = [reads EXCEPT !.load = Version]
  OBVIOUS
<1>3. PICK a, t, d, bh : /\ a = answer /\ t = twice /\ bh = behind
                         /\ d = Done \cup ToSet(Outstanding)
  OBVIOUS
<1>4. /\ s.saveState = "failed" /\ s' = x /\ reads' = r /\ stored' = None
      /\ gone' = gone \cup ToSet(Outstanding)
      /\ UNCHANGED <<log, locked, heard, made, wire, late, mishaps>>
      /\ answer' = a /\ twice' = t /\ behind' = bh
  BY <1>2, <1>3 DEF Discard, Buttons, serverVars
<1>5. /\ DOMAIN s = Fields /\ DOMAIN reads = Asked /\ s.seen # None
      /\ \A f \in Asked : reads[f] = None \/ reads[f] \in 1 .. Version
      /\ Version \in Nat /\ Version >= 1 /\ heard \in Nat /\ heard <= Version
  BY <1>1, <1>4, LogFacts DEF HookOK, ServerOK
<1>6. /\ DOMAIN x = Fields /\ x.batch = None /\ x.pending = <<>> /\ x.version = 0
      /\ x.saveState = "saved" /\ x.deferred = None
      /\ \A f \in Fields \ {"batch", "pending", "version", "saveState", "deferred"} : x[f] = s[f]
  BY <1>2, <1>5, FieldNames
<1>7. /\ x.seen = s.seen /\ x.persist = s.persist /\ x.expected = s.expected
      /\ x.held = s.held /\ x.auto = s.auto /\ x.taken = s.taken
  BY <1>6, FieldNames
<1>8. /\ DOMAIN r = Asked /\ r.load = Version /\ r.rebase = reads.rebase
      /\ r.recover = reads.recover /\ \A f \in Asked : r[f] = None \/ r[f] \in 1 .. Version
  BY <1>2, <1>5, FieldNames
<1>9. /\ ToSet(x.pending) = {} /\ x.pending \in Seq(Edits)
      /\ \A v : Apart(ToSet(x.pending), v, t)
  BY <1>6, ToSetEmpty, EditSeqs DEF Apart
<1>10. WorkOK(x, t)
  BY <1>5, <1>6, <1>9 DEF WorkOK
<1>11. HookOK(x, r)
  BY <1>1, <1>5, <1>6, <1>7, <1>8 DEF HookOK
<1>12. RebaseOK(x, t) /\ SentOK(x, t)
  BY <1>1, <1>3, <1>6, <1>7, <1>9 DEF RebaseOK, SentOK
<1>13. AnswerOK(x, a, t)
  BY <1>1, <1>3, <1>6, <1>7, <1>9 DEF AnswerOK
<1>14. CopiesOK(x, r, d)
  BY <1>1, <1>3, <1>5, <1>7, <1>8 DEF CopiesOK, Outstanding
<1>15. ~bh => ViewOK(x) /\ NewsOK(x, r)
  <2> SUFFICES ASSUME ~bh PROVE ViewOK(x) /\ NewsOK(x, r)
    OBVIOUS
  <2>1. Shows(x.seen, 0)
    BY DEF Shows
  <2>2. ViewOK(x)
    BY <1>1, <1>3, <1>6, <1>7, <2>1 DEF ViewOK
  <2>3. r.load # None
    BY <1>5, <1>8, EditSeqs
  <2> QED
    BY <1>5, <1>8, <2>2, <2>3 DEF NewsOK
<1>16. Ready(x, r, a, t, d, bh)
  BY <1>1, <1>3, <1>10, <1>11, <1>12, <1>13, <1>14, <1>15 DEF Ready
<1>17. StoredOK(x, r, t, d)'
  <2>1. OutstandingOf(x) = <<>> /\ x.seen # None
    BY <1>5, <1>6, <1>7, <1>10, OutstandingFacts
  <2> QED
    BY <1>4, <2>1 DEF StoredOK, RecordOf, OutstandingOf
<1>18. Done' = d
  BY <1>3, <1>4 DEF Done, StoredEdits
<1>19. mishaps' \in 0 .. MaxMishaps /\ mishaps' >= mishaps
  BY <1>1, <1>4, MishapsGrow
<1> QED
  BY <1>1, <1>4, <1>16, <1>17, <1>18, <1>19, PageStep

\* A load that is not overtaken shows what was heard of, unless that is put off.
LEMMA LoadedNews ==
    ASSUME ServerOK, HookOK(s, reads), NewsOK(s, reads), NEW read \in Answers("load"),
           ~Overtaken(s, read), NEW z, z.seen = read.seen, z.deferred = s.deferred, NEW r
    PROVE  NewsOK(z, r)
<1>1. /\ DOMAIN reads = Asked
      /\ s.seen = None \/ s.seen \in Nat
      /\ \A f \in Asked : reads[f] = None \/ reads[f] \in 1 .. Version
  BY DEF HookOK
<1>2. /\ reads["load"] \in Nat /\ reads["load"] <= read.version
      /\ read.version \in Nat /\ read.seen \in Nat /\ read.version <= read.seen
  BY <1>1, FieldNames, AnswersFacts
<1>3. read.seen # None /\ heard \in Nat
  BY <1>2, EditSeqs, LogFacts
<1>4. s.persist = "idle" /\ (s.seen # None => s.seen <= read.seen)
  BY <1>1, <1>2 DEF Overtaken
<1>5. \/ Shows(read.seen, heard)
      \/ s.seen # None /\ s.deferred # None /\ (s.deferred = 0 \/ s.deferred >= heard)
      \/ reads.load # None /\ reads.load >= heard
  BY <1>4, FreshRead
<1>6. CASE reads.load # None /\ reads.load >= heard
  <2>1. heard <= read.seen
    BY <1>2, <1>3, <1>6
  <2>2. Shows(read.seen, heard)
    BY <1>2, <1>3, <2>1 DEF Shows
  <2> QED
    BY <1>3, <2>2 DEF NewsOK
<1> QED
  BY <1>3, <1>5, <1>6 DEF NewsOK

\* A load with nothing to send again
LEMMA LoadsClean ==
    ASSUME IInv, NEW read \in Answers("load"), stored = None,
           Checkpoint([s EXCEPT !.seen = read.seen, !.version = read.version]),
           reads' = [reads EXCEPT !.load = None], behind' = (behind \/ Overtaken(s, read)),
           UNCHANGED <<log, locked, heard, wire, answer, mishaps, made, late, gone, twice>>
    PROVE  IInv'
<1>1. /\ ServerOK /\ WireOK(twice) /\ OnceOK(twice)
      /\ WorkOK(s, twice) /\ HookOK(s, reads) /\ RebaseOK(s, twice) /\ SentOK(s, twice)
      /\ AnswerOK(s, answer, twice) /\ CopiesOK(s, reads, Done)
      /\ ~behind => ViewOK(s) /\ NewsOK(s, reads)
      /\ StoredOK(s, reads, twice, Done)
  BY Parts
<1>2. PICK x, r : /\ x = [s EXCEPT !.seen = read.seen, !.version = read.version]
                  /\ r = [reads EXCEPT !.load = None]
  OBVIOUS
<1>3. PICK a, t, d, bh : a = answer /\ t = twice /\ d = Done /\ bh = behind'
  OBVIOUS
<1>4. /\ DOMAIN s = Fields /\ DOMAIN reads = Asked
      /\ \A f \in Asked : reads[f] = None \/ reads[f] \in 1 .. Version
      /\ Version \in Nat
  BY <1>1, LogFacts DEF HookOK
<1>5. s.batch = None /\ s.pending = <<>> /\ Known \subseteq Done
  <2>1. CASE s.seen = None
    BY <1>1, <2>1 DEF HookOK, StoredOK, Kept
  <2>2. CASE s.seen # None
    <3>1. \A n \in Nat, q \in Seq(Edits), b \in Batches \cup {None} :
             [version |-> n, pending |-> q, batch |-> b] # None
      BY EditSeqs
    <3>2. /\ s.version \in Nat /\ s.pending \in Seq(Edits) /\ s.batch \in Batches \cup {None}
      BY <1>1, <1>4 DEF WorkOK
    <3>3. OutstandingOf(s) = <<>>
      BY <1>1, <2>2, <3>1, <3>2 DEF StoredOK, RecordOf
    <3>4. s.batch = None /\ s.pending = <<>> /\ ToSet(OutstandingOf(s)) = {}
      BY <1>1, <3>3, OutstandingFacts, ToSetEmpty
    <3> QED
      BY <1>1, <2>2, <3>4 DEF CopiesOK
  <2> QED
    BY <2>1, <2>2
<1>6. /\ DOMAIN x = Fields /\ x.seen = read.seen /\ x.version = read.version
      /\ \A f \in Fields \ {"seen", "version"} : x[f] = s[f]
  BY <1>2, <1>4, FieldNames
<1>7. /\ x.pending = <<>> /\ x.batch = None
      /\ x.persist = s.persist /\ x.expected = s.expected /\ x.held = s.held
      /\ x.deferred = s.deferred /\ x.saveState = s.saveState /\ x.auto = s.auto
      /\ x.taken = s.taken
  BY <1>5, <1>6, FieldNames
<1>8. /\ DOMAIN r = Asked /\ r.load = None /\ r.rebase = reads.rebase
      /\ r.recover = reads.recover /\ \A f \in Asked : r[f] = None \/ r[f] \in 1 .. Version
  BY <1>2, <1>4, FieldNames
<1>9. /\ read.version \in Nat /\ read.seen \in Nat /\ read.version <= Version
      /\ Shows(read.seen, read.version) /\ read.seen # None
  <2>1. reads["load"] = None \/ reads["load"] \in 1 .. Version
    BY <1>4, FieldNames
  <2>2. /\ read.version \in Nat /\ read.seen \in Nat /\ read.version <= read.seen
        /\ read.seen <= Version /\ Shows(read.seen, read.version)
    BY <1>1, <2>1, AnswersFacts
  <2> QED
    BY <1>4, <2>2, EditSeqs
<1>10. /\ ToSet(x.pending) = {} /\ x.pending \in Seq(Edits)
       /\ \A v : Apart(ToSet(x.pending), v, t)
  BY <1>7, ToSetEmpty, EditSeqs DEF Apart
<1>11. WorkOK(x, t)
  BY <1>4, <1>6, <1>7, <1>9, <1>10 DEF WorkOK
<1>12. HookOK(x, r)
  BY <1>1, <1>6, <1>7, <1>8, <1>9 DEF HookOK
<1>13. RebaseOK(x, t) /\ SentOK(x, t)
  BY <1>1, <1>3, <1>7, <1>10 DEF RebaseOK, SentOK
<1>14. AnswerOK(x, a, t)
  BY <1>1, <1>3, <1>7, <1>10 DEF AnswerOK
<1>15. CopiesOK(x, r, d)
  BY <1>1, <1>3, <1>5, <1>7, <1>8 DEF CopiesOK
<1>16. ~bh => ViewOK(x) /\ NewsOK(x, r)
  <2> SUFFICES ASSUME ~bh PROVE ViewOK(x) /\ NewsOK(x, r)
    OBVIOUS
  <2>1. ~behind /\ ~Overtaken(s, read)
    BY <1>3
  <2>2. s.persist = "idle"
    BY <2>1 DEF Overtaken
  <2>3. ViewOK(x)
    BY <1>6, <1>7, <1>9, <2>2 DEF ViewOK
  <2>4. NewsOK(x, r)
    BY <1>1, <1>6, <1>7, <2>1, LoadedNews
  <2> QED
    BY <2>3, <2>4
<1>17. Ready(x, r, a, t, d, bh)
  BY <1>1, <1>3, <1>11, <1>12, <1>13, <1>14, <1>15, <1>16 DEF Ready
<1>18. s' = x /\ reads' = r /\ Checkpoint(x)
  BY <1>2 DEF Checkpoint
<1>19. StoredOK(x, r, t, d)'
  BY <1>6, <1>9, <1>18 DEF Checkpoint, StoredOK, RecordOf, OutstandingOf
<1>20. Done' = d /\ mishaps' \in 0 .. MaxMishaps /\ mishaps' >= mishaps
  BY <1>1, <1>3, DoneStays, MishapsGrow
<1> QED
  BY <1>1, <1>3, <1>17, <1>18, <1>19, <1>20, PageStep

\* A load that sends what the recovery record holds again
LEMMA LoadReplays ==
    ASSUME IInv, NEW read \in Answers("load"), stored # None,
           Replayed([s EXCEPT !.seen = read.seen], read),
           behind' = (behind \/ Overtaken(s, read)),
           UNCHANGED <<log, locked, heard, answer, mishaps, made, late, gone, twice>>
    PROVE  IInv'
<1>1. /\ ServerOK /\ WireOK(twice) /\ OnceOK(twice)
      /\ WorkOK(s, twice) /\ HookOK(s, reads) /\ RebaseOK(s, twice) /\ SentOK(s, twice)
      /\ AnswerOK(s, answer, twice) /\ CopiesOK(s, reads, Done)
      /\ ~behind => ViewOK(s) /\ NewsOK(s, reads)
      /\ StoredOK(s, reads, twice, Done)
  BY Parts
<1>2. PICK x, r : /\ x = [[s EXCEPT !.seen = read.seen]
                            EXCEPT !.version = stored.version, !.pending = stored.pending,
                                   !.batch = stored.batch, !.saveState = "failed"]
                  /\ r = [reads EXCEPT !.load = None]
  OBVIOUS
<1>3. PICK a, t, d, bh : a = answer /\ t = twice /\ d = Done /\ bh = behind'
  OBVIOUS
<1>4. /\ DOMAIN s = Fields /\ DOMAIN reads = Asked
      /\ s.seen = None \/ s.seen \in Nat
      /\ \A f \in Asked : reads[f] = None \/ reads[f] \in 1 .. Version
      /\ Version \in Nat
  BY <1>1, LogFacts DEF HookOK
<1>5. /\ DOMAIN x = Fields /\ x.seen = read.seen /\ x.version = stored.version
      /\ x.pending = stored.pending /\ x.batch = stored.batch /\ x.saveState = "failed"
      /\ \A f \in Fields \ {"seen", "version", "pending", "batch", "saveState"} : x[f] = s[f]
  BY <1>2, <1>4, FieldNames
<1>6. /\ x.persist = s.persist /\ x.expected = s.expected /\ x.held = s.held
      /\ x.deferred = s.deferred /\ x.auto = s.auto /\ x.taken = s.taken
  BY <1>5, FieldNames
<1>7. /\ DOMAIN r = Asked /\ r.load = None /\ r.rebase = reads.rebase
      /\ r.recover = reads.recover /\ \A f \in Asked : r[f] = None \/ r[f] \in 1 .. Version
  BY <1>2, <1>4, FieldNames
<1>8. /\ reads.load # None /\ reads.load <= read.version /\ reads.load \in Nat
      /\ read.version \in Nat /\ read.seen \in Nat /\ read.version <= read.seen
      /\ read.seen # None
  <2>1. reads["load"] = None \/ reads["load"] \in 1 .. Version
    BY <1>4, FieldNames
  <2> QED
    BY <1>1, <2>1, AnswersFacts, EditSeqs
<1>9. s.seen # None => /\ stored.version = s.version /\ stored.pending = s.pending
                       /\ stored.batch = s.batch
  <2> SUFFICES ASSUME s.seen # None
               PROVE  /\ stored.version = s.version /\ stored.pending = s.pending
                      /\ stored.batch = s.batch
    OBVIOUS
  <2>1. stored = [version |-> s.version, pending |-> s.pending, batch |-> s.batch]
    BY <1>1 DEF StoredOK, RecordOf
  <2> QED
    BY <2>1
<1>10. s.seen = None => /\ WorkOK(stored, twice) /\ stored.version <= reads.load
                        /\ Known \subseteq ToSet(OutstandingOf(stored)) \cup Done
                        /\ s.persist = "idle" /\ s.taken = None
  BY <1>1, <1>8 DEF StoredOK, Kept, HookOK
<1>11. WorkOK(x, t)
  <2>1. CASE s.seen # None
    BY <1>1, <1>3, <1>5, <1>9, <2>1 DEF WorkOK
  <2>2. CASE s.seen = None
    BY <1>3, <1>5, <1>10, <2>2 DEF WorkOK
  <2> QED
    BY <2>1, <2>2
<1>12. HookOK(x, r)
  BY <1>1, <1>5, <1>6, <1>7, <1>8 DEF HookOK
<1>13. RebaseOK(x, t)
  BY <1>1, <1>3, <1>6 DEF RebaseOK
<1>14. SentOK(x, t)
  BY <1>1, <1>3, <1>5, <1>6, <1>9, <1>10 DEF SentOK
<1>15. AnswerOK(x, a, t)
  <2>1. CASE s.seen # None
    BY <1>1, <1>3, <1>5, <1>6, <1>9, <2>1 DEF AnswerOK
  <2>2. CASE s.seen = None
    <3>1. answer = "none" /\ \A q \in wire : ~q.mine
      BY <1>1, <1>10, <2>2 DEF AnswerOK
    <3> QED
      BY <1>3, <3>1 DEF AnswerOK
  <2> QED
    BY <2>1, <2>2
<1>16. CopiesOK(x, r, d)
  <2>1. Known \subseteq ToSet(OutstandingOf(x)) \cup Done
    <3>1. CASE s.seen # None
      <4>1. OutstandingOf(x) = OutstandingOf(s)
        BY <1>5, <1>9, <3>1 DEF OutstandingOf
      <4> QED
        BY <1>1, <3>1, <4>1 DEF CopiesOK
    <3>2. CASE s.seen = None
      <4>1. OutstandingOf(x) = OutstandingOf(stored)
        BY <1>5 DEF OutstandingOf
      <4> QED
        BY <1>10, <3>2, <4>1
    <3> QED
      BY <3>1, <3>2
  <2> QED
    BY <1>1, <1>3, <1>6, <1>7, <2>1 DEF CopiesOK
<1>17. ~bh => ViewOK(x) /\ NewsOK(x, r)
  <2> SUFFICES ASSUME ~bh PROVE ViewOK(x) /\ NewsOK(x, r)
    OBVIOUS
  <2>1. ~behind /\ ~Overtaken(s, read)
    BY <1>3
  <2>2. s.persist = "idle" /\ (s.seen # None => s.seen <= read.seen)
    BY <1>4, <1>8, <2>1 DEF Overtaken
  <2>3. x.version \in Nat
    BY <1>4, <1>11 DEF WorkOK
  <2>4. Shows(read.seen, x.version)
    <3>1. CASE s.seen # None
      <4>1. Shows(s.seen, x.version)
        BY <1>1, <1>5, <1>9, <2>1, <3>1 DEF ViewOK
      <4> QED
        BY <1>4, <1>8, <2>2, <2>3, <3>1, <4>1, ShowsMore
    <3>2. CASE s.seen = None
      <4>1. x.version <= read.seen
        BY <1>5, <1>8, <1>10, <2>3, <3>2
      <4> QED
        BY <1>8, <2>3, <4>1 DEF Shows
    <3> QED
      BY <3>1, <3>2
  <2>5. ViewOK(x)
    BY <1>5, <1>6, <2>2, <2>4 DEF ViewOK
  <2>6. NewsOK(x, r)
    BY <1>1, <1>5, <1>6, <2>1, LoadedNews
  <2> QED
    BY <2>5, <2>6
<1>18. Ready(x, r, a, t, d, bh)
  BY <1>1, <1>3, <1>11, <1>12, <1>13, <1>14, <1>15, <1>16, <1>17 DEF Ready
<1>19. Persist(x, r)
  BY <1>2 DEF Replayed
<1>20. Done' = d /\ x.seen # None
  BY <1>3, <1>5, <1>8, DoneStays
<1> QED
  BY <1>1, <1>3, <1>18, <1>19, <1>20, PersistKeeps

LEMMA LoadKeeps == ASSUME IInv, Load PROVE IInv'
<1>1. PICK read \in Answers("load") :
        /\ behind' = (behind \/ Overtaken(s, read))
        /\ IF stored # None THEN Replayed([s EXCEPT !.seen = read.seen], read)
           ELSE /\ Checkpoint([[s EXCEPT !.seen = read.seen] EXCEPT !.version = read.version])
                /\ reads' = [reads EXCEPT !.load = None]
                /\ UNCHANGED wire
  BY DEF Load
<1>2. UNCHANGED <<log, locked, heard, answer, mishaps, made, late, gone, twice>>
  BY DEF Load, serverVars
<1>3. CASE stored # None
  BY <1>1, <1>2, <1>3, LoadReplays
<1>4. CASE stored = None
  <2>1. [[s EXCEPT !.seen = read.seen] EXCEPT !.version = read.version]
          = [s EXCEPT !.seen = read.seen, !.version = read.version]
    OBVIOUS
  <2> QED
    BY <1>1, <1>2, <1>4, <2>1, LoadsClean
<1> QED
  BY <1>3, <1>4

-------------------------------------------------------------------------------
(* Notifications, the user and the page *)

\* requestReload leaves a session that will hear of everything.
LEMMA ReloadingReady ==
    ASSUME IInv, NEW x, NEW r, x = [s EXCEPT !.deferred = None],
           r = [reads EXCEPT !.load = Version]
    PROVE  /\ DOMAIN x = Fields
           /\ x.seen = s.seen /\ x.version = s.version /\ x.pending = s.pending
           /\ x.batch = s.batch
           /\ WorkOK(x, twice) /\ HookOK(x, r) /\ RebaseOK(x, twice) /\ SentOK(x, twice)
           /\ AnswerOK(x, answer, twice) /\ CopiesOK(x, r, Done)
           /\ ~behind => ViewOK(x)
           /\ r.load = Version /\ r.load # None
           /\ StoredOK(x, r, twice, Done)
<1>1. /\ ServerOK /\ WorkOK(s, twice) /\ HookOK(s, reads) /\ RebaseOK(s, twice)
      /\ SentOK(s, twice) /\ AnswerOK(s, answer, twice) /\ CopiesOK(s, reads, Done)
      /\ ~behind => ViewOK(s)
      /\ StoredOK(s, reads, twice, Done)
  BY Parts
<1>2. /\ DOMAIN s = Fields /\ DOMAIN reads = Asked
      /\ \A f \in Asked : reads[f] = None \/ reads[f] \in 1 .. Version
      /\ Version \in Nat /\ Version >= 1
  BY <1>1, LogFacts DEF HookOK
<1>3. /\ DOMAIN x = Fields /\ x.deferred = None
      /\ \A f \in Fields \ {"deferred"} : x[f] = s[f]
  BY <1>2, FieldNames
<1>4. /\ x.seen = s.seen /\ x.version = s.version /\ x.pending = s.pending /\ x.batch = s.batch
      /\ x.persist = s.persist /\ x.expected = s.expected /\ x.held = s.held
      /\ x.saveState = s.saveState /\ x.auto = s.auto /\ x.taken = s.taken
  BY <1>3, FieldNames
<1>5. /\ DOMAIN r = Asked /\ r.load = Version /\ r.rebase = reads.rebase
      /\ r.recover = reads.recover /\ \A f \in Asked : r[f] = None \/ r[f] \in 1 .. Version
  BY <1>2, FieldNames
<1>6. WorkOK(x, twice)
  BY <1>1, <1>4 DEF WorkOK
<1>7. HookOK(x, r)
  BY <1>1, <1>3, <1>4, <1>5 DEF HookOK
<1>8. RebaseOK(x, twice) /\ SentOK(x, twice)
  BY <1>1, <1>4 DEF RebaseOK, SentOK
<1>9. AnswerOK(x, answer, twice)
  BY <1>1, <1>4 DEF AnswerOK
<1>10. CopiesOK(x, r, Done)
  BY <1>1, <1>4, <1>5 DEF CopiesOK, OutstandingOf
<1>11. ~behind => ViewOK(x)
  BY <1>1, <1>4 DEF ViewOK
<1>12. r.load # None
  BY <1>2, <1>5, EditSeqs
<1>13. StoredOK(x, r, twice, Done)
  <2>1. CASE s.seen = None
    <3>1. stored # None => stored.version <= Version
      BY <1>1, <1>2, <2>1 DEF StoredOK, Kept, WorkOK
    <3> QED
      BY <1>1, <1>4, <1>5, <2>1, <3>1 DEF StoredOK, Kept
  <2>2. CASE s.seen # None
    BY <1>1, <1>4, <2>2 DEF StoredOK, RecordOf, OutstandingOf
  <2> QED
    BY <2>1, <2>2
<1> QED
  BY <1>3, <1>4, <1>5, <1>6, <1>7, <1>8, <1>9, <1>10, <1>11, <1>12, <1>13

LEMMA RefreshKeeps == ASSUME IInv, Refresh PROVE IInv'
<1>1. ServerOK /\ WireOK(twice) /\ OnceOK(twice)
  BY Parts
<1>2. PICK x, r : x = [s EXCEPT !.deferred = None] /\ r = [reads EXCEPT !.load = Version]
  OBVIOUS
<1>3. PICK a, t, d, bh : a = answer /\ t = twice /\ d = Done /\ bh = behind
  OBVIOUS
<1>4. /\ s' = x /\ reads' = r /\ Mishap
      /\ UNCHANGED <<log, locked, heard, made, wire, late, gone, stored>>
      /\ answer' = a /\ twice' = t /\ behind' = bh
  BY <1>2, <1>3 DEF Refresh, Reloading, serverVars, ghosts
<1>5. /\ WorkOK(x, t) /\ HookOK(x, r) /\ RebaseOK(x, t) /\ SentOK(x, t)
      /\ AnswerOK(x, a, t) /\ CopiesOK(x, r, d)
      /\ ~bh => ViewOK(x)
      /\ r.load = Version /\ r.load # None
      /\ StoredOK(x, r, t, d)
  BY <1>2, <1>3, ReloadingReady
<1>6. NewsOK(x, r)
  <2>1. Version >= heard
    BY <1>1, LogFacts
  <2> QED
    BY <1>5, <2>1 DEF NewsOK
<1>7. Ready(x, r, a, t, d, bh)
  BY <1>1, <1>3, <1>5, <1>6 DEF Ready
<1>8. StoredOK(x, r, t, d)'
  BY <1>4, <1>5, StoredStays
<1>9. Done' = d /\ mishaps' \in 0 .. MaxMishaps /\ mishaps' >= mishaps
  BY <1>1, <1>3, <1>4, DoneStays, MishapsGrow
<1> QED
  BY <1>1, <1>4, <1>7, <1>8, <1>9, PageStep

\* What was heard of does not matter but for the news.
LEMMA HeardStep ==
    ASSUME ServerOK, heard' \in heard .. Version, UNCHANGED <<log, locked, made, wire, stored>>,
           mishaps' \in 0 .. MaxMishaps, mishaps' >= mishaps,
           NEW x, NEW r, NEW a, NEW t, NEW d, NEW bh,
           WireOK(t), OnceOK(t), WorkOK(x, t), HookOK(x, r), RebaseOK(x, t), SentOK(x, t),
           AnswerOK(x, a, t), CopiesOK(x, r, d), ~bh => ViewOK(x) /\ NewsOK(x, r)',
           s' = x, reads' = r, answer' = a, twice' = t, Done' = d, behind' = bh,
           StoredOK(x, r, t, d)
    PROVE  IInv'
<1>1. /\ log' = log /\ Version' = Version /\ StoredEdits' = StoredEdits /\ Known' = Known
      /\ Version \in Nat /\ heard \in Nat /\ heard >= 1
  BY LogFacts DEF Version, StoredEdits, Known, ServerOK
<1>2. \A E, v : Apart(E, v, t) => Apart(E, v, t)'
  BY <1>1 DEF Apart
<1>3. \A n, v : Shows(n, v) => Shows(n, v)'
  BY <1>1 DEF Shows
<1>4. ServerOK'
  <2>1. heard' \in 1 .. Version'
    BY <1>1
  <2> QED
    BY <1>1, <2>1 DEF ServerOK
<1>5. WireOK(t)' /\ AnswerOK(x, a, t)'
  <2>1. mishaps' \in Nat
    BY EditorAssumption
  <2> QED
    BY <2>1, WireStays
<1>6. OnceOK(t)' /\ WorkOK(x, t)' /\ RebaseOK(x, t)' /\ SentOK(x, t)'
  BY <1>1, <1>2 DEF OnceOK, WorkOK, RebaseOK, SentOK
<1>7. HookOK(x, r)' /\ CopiesOK(x, r, d)' /\ (~bh => ViewOK(x)')
  BY <1>1, <1>3 DEF HookOK, CopiesOK, ViewOK
<1>8. Ready(x, r, a, t, d, bh)'
  BY <1>5, <1>6, <1>7 DEF Ready
<1>9. StoredOK(x, r, t, d)'
  <2>1. PICK rec : rec = stored
    OBVIOUS
  <2>2. stored' = rec /\ (WorkOK(rec, t) => WorkOK(rec, t)')
    BY <1>1, <1>2, <2>1 DEF WorkOK
  <2>3. WorkOK(stored, t) => WorkOK(stored, t)'
    BY <2>1, <2>2
  <2> QED
    BY <1>1, <2>1, <2>2, <2>3 DEF StoredOK, Kept, RecordOf, OutstandingOf
<1> QED
  BY <1>4, <1>8, <1>9 DEF IInv

\* A notification leads to a load, is put off or held back, or is of what is read.
LEMMA HearKeeps == ASSUME IInv, NEW v \in Versions, Hear(v) PROVE IInv'
<1>1. /\ ServerOK /\ WireOK(twice) /\ OnceOK(twice)
      /\ WorkOK(s, twice) /\ HookOK(s, reads) /\ RebaseOK(s, twice) /\ SentOK(s, twice)
      /\ AnswerOK(s, answer, twice) /\ CopiesOK(s, reads, Done)
      /\ ~behind => ViewOK(s) /\ NewsOK(s, reads)
      /\ StoredOK(s, reads, twice, Done)
  BY Parts
<1>2. PICK incoming \in {0, v} :
        /\ MishapIf(incoming = 0)
        /\ IF ~Loaded THEN Reloading(s)
           ELSE IF s.persist = "sent" /\ incoming = s.expected
           THEN s' = [s EXCEPT !.held = TRUE] /\ UNCHANGED reads
           ELSE IF Ignores(incoming) THEN UNCHANGED <<s, reads>>
           ELSE IF Outstanding = <<>> THEN Reloading(s)
           ELSE s' = Deferring(s, incoming) /\ UNCHANGED reads
  BY DEF Hear
<1>3. /\ v \in heard + 1 .. Version /\ heard' = v
      /\ UNCHANGED <<log, locked, made, wire, late, gone, stored, answer, twice, behind>>
  BY DEF Hear, ghosts
<1>4. PICK a, t, d, bh : a = answer /\ t = twice /\ d = Done /\ bh = behind
  OBVIOUS
<1>5. /\ Version \in Nat /\ heard \in Nat /\ v \in Nat /\ v <= Version /\ v > 0
      /\ heard' \in heard .. Version
  <2>1. Version \in Nat /\ heard \in Nat
    BY <1>1, LogFacts
  <2> QED
    BY <1>3, <2>1
<1>6. Done' = d /\ mishaps' \in 0 .. MaxMishaps /\ mishaps' >= mishaps
  BY <1>1, <1>2, <1>3, <1>4, DoneStays, MishapsGrow
<1>7. /\ DOMAIN s = Fields /\ (s.deferred = None \/ s.deferred \in Nat)
      /\ s.persist = "sent" => s.expected > 0
      /\ s.expected \in Nat
  BY <1>1 DEF HookOK
<1>8. \A x, r : \/ x.seen # None /\ Shows(x.seen, v)
                \/ x.seen # None /\ x.deferred # None /\ (x.deferred = 0 \/ x.deferred >= v)
                \/ x.held /\ x.expected >= v
                \/ r.load # None /\ r.load >= v
                => NewsOK(x, r)'
  BY <1>3 DEF NewsOK, Shows
<1>9. CASE Reloading(s)
  <2>1. PICK x, r : x = [s EXCEPT !.deferred = None] /\ r = [reads EXCEPT !.load = Version]
    OBVIOUS
  <2>2. s' = x /\ reads' = r
    BY <1>9, <2>1 DEF Reloading
  <2>3. /\ WorkOK(x, t) /\ HookOK(x, r) /\ RebaseOK(x, t) /\ SentOK(x, t)
        /\ AnswerOK(x, a, t) /\ CopiesOK(x, r, d)
        /\ ~bh => ViewOK(x)
        /\ r.load = Version /\ r.load # None
        /\ StoredOK(x, r, t, d)
    BY <1>4, <2>1, ReloadingReady
  <2>4. NewsOK(x, r)'
    BY <1>5, <1>8, <2>3
  <2> QED
    BY <1>1, <1>3, <1>4, <1>5, <1>6, <2>2, <2>3, <2>4, HeardStep
<1>10. CASE Loaded /\ s.persist = "sent" /\ incoming = s.expected
            /\ s' = [s EXCEPT !.held = TRUE] /\ UNCHANGED reads
  <2>1. PICK x, r : x = [s EXCEPT !.held = TRUE] /\ r = reads
    OBVIOUS
  <2>2. DOMAIN x = Fields /\ x.held = TRUE /\ \A f \in Fields \ {"held"} : x[f] = s[f]
    BY <1>7, <2>1, FieldNames
  <2>3. /\ x.seen = s.seen /\ x.version = s.version /\ x.pending = s.pending
        /\ x.batch = s.batch /\ x.persist = s.persist /\ x.expected = s.expected
        /\ x.deferred = s.deferred /\ x.saveState = s.saveState /\ x.auto = s.auto
        /\ x.taken = s.taken
    BY <2>2, FieldNames
  <2>4. WorkOK(x, t) /\ RebaseOK(x, t) /\ SentOK(x, t)
    BY <1>1, <1>4, <2>3 DEF WorkOK, RebaseOK, SentOK
  <2>5. HookOK(x, r)
    BY <1>1, <1>10, <2>1, <2>2, <2>3 DEF HookOK
  <2>6. AnswerOK(x, a, t)
    BY <1>1, <1>4, <2>3 DEF AnswerOK
  <2>7. CopiesOK(x, r, d) /\ (~bh => ViewOK(x))
    BY <1>1, <1>4, <2>1, <2>3 DEF CopiesOK, OutstandingOf, ViewOK
  <2>8. NewsOK(x, r)'
    BY <1>5, <1>7, <1>8, <1>10, <2>2, <2>3
  <2>9. StoredOK(x, r, t, d)
    BY <1>1, <1>4, <2>1, <2>3 DEF StoredOK, RecordOf, OutstandingOf
  <2> QED
    BY <1>1, <1>3, <1>4, <1>5, <1>6, <1>10, <2>1, <2>4, <2>5, <2>6, <2>7, <2>8, <2>9, HeardStep
<1>11. CASE Loaded /\ Ignores(incoming) /\ UNCHANGED <<s, reads>>
  <2>1. PICK x, r : x = s /\ r = reads
    OBVIOUS
  <2>2. incoming = v /\ v <= x.version /\ x.seen # None
    BY <1>11, <2>1 DEF Ignores, Loaded
  <2>3. x.version \in Nat
    BY <1>1, <1>5, <2>1 DEF WorkOK
  <2>4. ~bh => NewsOK(x, r)'
    <3> SUFFICES ASSUME ~bh PROVE NewsOK(x, r)'
      OBVIOUS
    <3>1. Shows(x.seen, x.version)
      BY <1>1, <1>4, <2>1, <2>2 DEF ViewOK
    <3>2. Shows(x.seen, v)
      BY <1>5, <2>2, <2>3, <3>1, ShowsLess
    <3> QED
      BY <1>8, <2>2, <3>2
  <2> QED
    BY <1>1, <1>3, <1>4, <1>5, <1>6, <1>11, <2>1, <2>4, HeardStep
<1>12. CASE Loaded /\ s' = Deferring(s, incoming) /\ UNCHANGED reads
  <2>1. PICK x, r : x = Deferring(s, incoming) /\ r = reads
    OBVIOUS
  <2>2. incoming \in Nat
    BY <1>5
  <2>3. /\ DOMAIN x = Fields /\ \A f \in Fields \ {"deferred"} : x[f] = s[f]
        /\ x.deferred \in Nat /\ (x.deferred = 0 \/ x.deferred >= incoming)
    BY <1>7, <2>1, <2>2, DeferringFacts
  <2>4. /\ x.seen = s.seen /\ x.version = s.version /\ x.pending = s.pending
        /\ x.batch = s.batch /\ x.persist = s.persist /\ x.expected = s.expected
        /\ x.held = s.held /\ x.saveState = s.saveState /\ x.auto = s.auto
        /\ x.taken = s.taken
    BY <2>3, FieldNames
  <2>5. x.deferred # None /\ (x.deferred = 0 \/ x.deferred >= v)
    <3>1. CASE incoming = v
      BY <2>3, <3>1, EditSeqs
    <3>2. CASE incoming = 0
      <4>1. x.deferred = 0
        BY <1>7, <2>1, <3>2, FieldNames DEF Deferring
      <4> QED
        BY <4>1, EditSeqs
    <3> QED
      BY <3>1, <3>2
  <2>6. WorkOK(x, t) /\ RebaseOK(x, t) /\ SentOK(x, t)
    BY <1>1, <1>4, <2>4 DEF WorkOK, RebaseOK, SentOK
  <2>7. HookOK(x, r)
    BY <1>1, <2>1, <2>3, <2>4 DEF HookOK
  <2>8. AnswerOK(x, a, t)
    BY <1>1, <1>4, <2>4 DEF AnswerOK
  <2>9. CopiesOK(x, r, d) /\ (~bh => ViewOK(x))
    BY <1>1, <1>4, <2>1, <2>4 DEF CopiesOK, OutstandingOf, ViewOK
  <2>10. NewsOK(x, r)'
    BY <1>8, <1>12, <2>4, <2>5 DEF Loaded
  <2>11. StoredOK(x, r, t, d)
    BY <1>1, <1>4, <2>1, <2>4 DEF StoredOK, RecordOf, OutstandingOf
  <2> QED
    BY <1>1, <1>3, <1>4, <1>5, <1>6, <1>12, <2>1, <2>6, <2>7, <2>8, <2>9, <2>10, <2>11, HeardStep
<1> QED
  BY <1>2, <1>9, <1>10, <1>11, <1>12

\* A new edit is in no row, in no save and in no other copy.
LEMMA TypeKeeps == ASSUME IInv, Type PROVE IInv'
<1>1. /\ ServerOK /\ WireOK(twice) /\ OnceOK(twice)
      /\ WorkOK(s, twice) /\ HookOK(s, reads) /\ RebaseOK(s, twice) /\ SentOK(s, twice)
      /\ AnswerOK(s, answer, twice) /\ CopiesOK(s, reads, Done)
      /\ ~behind => ViewOK(s) /\ NewsOK(s, reads)
  BY Parts
<1>2. PICK e : e = made + 1
  OBVIOUS
<1>3. PICK x, r : x = [s EXCEPT !.pending = Append(@, e), !.saveState = "saving"] /\ r = reads
  OBVIOUS
<1>4. PICK a, t, d, bh : a = answer /\ t = twice /\ d = Done' /\ bh = behind
  OBVIOUS
<1>5. /\ s.seen # None /\ made < MaxEdits /\ made' = e /\ Checkpoint(x) /\ s' = x /\ reads' = r
      /\ UNCHANGED <<log, locked, heard, wire, mishaps, gone>>
      /\ answer' = a /\ twice' = t /\ behind' = bh
      /\ late' = IF reads.rebase # None \/ reads.recover # None THEN late \cup {e} ELSE late
  BY <1>2, <1>3, <1>4 DEF Type, Checkpoint, Loaded, serverVars, netVars
<1>6. /\ made \in Nat /\ e \in Nat /\ e \in Edits /\ e \notin Known /\ Known' = Known \cup {e}
      /\ Version' = Version /\ StoredEdits' = StoredEdits /\ StoredEdits \subseteq Known
      /\ \A k \in DOMAIN log : ToSet(log[k].edits) \subseteq StoredEdits
      /\ log' = log /\ wire' = wire /\ heard' = heard /\ mishaps' = mishaps
  BY <1>1, <1>2, <1>5, LogFacts, EditorAssumption
     DEF ServerOK, Known, Edits, Version, StoredEdits
<1>7. /\ DOMAIN s = Fields /\ DOMAIN reads = Asked
      /\ s.pending \in Seq(Edits) /\ ToSet(s.pending) \subseteq Known
  BY <1>1 DEF HookOK, WorkOK
<1>8. /\ DOMAIN x = Fields /\ x.pending = Append(s.pending, e) /\ x.saveState = "saving"
      /\ \A f \in Fields \ {"pending", "saveState"} : x[f] = s[f]
  BY <1>3, <1>7, FieldNames
<1>9. /\ x.seen = s.seen /\ x.version = s.version /\ x.batch = s.batch
      /\ x.persist = s.persist /\ x.expected = s.expected /\ x.held = s.held
      /\ x.deferred = s.deferred /\ x.auto = s.auto /\ x.taken = s.taken
  BY <1>8, FieldNames
<1>10. x.pending \in Seq(Edits) /\ ToSet(x.pending) = ToSet(s.pending) \cup {e}
  BY <1>6, <1>7, <1>8, ToSetAppend
<1>11. /\ \A E, v : Apart(E, v, t) => Apart(E, v, t)'
       /\ \A E, v : Apart(E, v, t) => Apart(E \cup {e}, v, t)'
  BY <1>6 DEF Apart
<1>12. \A n, v : Shows(n, v) => Shows(n, v)'
  BY <1>6 DEF Shows
<1>13. ServerOK'
  <2>1. made' \in 0 .. MaxEdits
    BY <1>2, <1>5, <1>6, EditorAssumption
  <2> QED
    BY <1>1, <1>5, <1>6, <2>1 DEF ServerOK
<1>14. WireOK(t)' /\ OnceOK(t)'
  BY <1>1, <1>4, <1>6, <1>11 DEF WireOK, OnceOK
<1>15. WorkOK(x, t)'
  <2>1. x.batch # None => ToSet(x.pending) \cap ToSet(x.batch.edits) \subseteq t
    BY <1>1, <1>4, <1>6, <1>9, <1>10 DEF WorkOK
  <2>2. Apart(ToSet(x.pending), x.version, t)'
    BY <1>1, <1>4, <1>9, <1>10, <1>11 DEF WorkOK
  <2> QED
    BY <1>1, <1>4, <1>6, <1>7, <1>9, <1>10, <1>11, <2>1, <2>2 DEF WorkOK
<1>16. HookOK(x, r)'
  BY <1>1, <1>3, <1>5, <1>6, <1>8, <1>9 DEF HookOK
<1>17. RebaseOK(x, t)'
  BY <1>1, <1>4, <1>6, <1>9, <1>11 DEF RebaseOK
<1>18. SentOK(x, t)'
  BY <1>1, <1>4, <1>6, <1>9, <1>10, <1>11 DEF SentOK
<1>19. AnswerOK(x, a, t)'
  <2>1. \A q \in wire : e \notin ToSet(q.batch.edits)
    BY <1>1, <1>6 DEF WireOK
  <2>2. \A q \in wire : ToSet(x.pending) \cap ToSet(q.batch.edits)
                          = ToSet(s.pending) \cap ToSet(q.batch.edits)
    BY <1>10, <2>1
  <2>3. \A k \in DOMAIN log : ToSet(x.pending) \cap ToSet(log[k].edits)
                                = ToSet(s.pending) \cap ToSet(log[k].edits)
    BY <1>6, <1>10
  <2> QED
    BY <1>1, <1>4, <1>6, <1>9, <2>2, <2>3 DEF AnswerOK
<1>20. Done \subseteq d /\ (reads.rebase # None \/ reads.recover # None => e \in d)
  BY <1>4, <1>5, <1>6 DEF Done
<1>21. CopiesOK(x, r, d)'
  <2>1. ToSet(OutstandingOf(x)) = ToSet(OutstandingOf(s)) \cup {e}
    <3>1. /\ ToSet(OutstandingOf(s)) = (IF s.batch = None THEN {} ELSE ToSet(s.batch.edits))
                                         \cup ToSet(s.pending)
      BY <1>1, OutstandingFacts
    <3>2. CASE s.batch = None
      <4>1. OutstandingOf(x) = x.pending
        BY <1>9, <1>10, <3>2, ConcatEmptySeq DEF OutstandingOf
      <4> QED
        BY <1>10, <3>1, <3>2, <4>1
    <3>3. CASE s.batch # None
      <4>1. s.batch.edits \in Seq(Edits)
        BY <1>1, <3>3 DEF WorkOK, Batches
      <4>2. OutstandingOf(x) = s.batch.edits \o x.pending
        BY <1>9, <3>3 DEF OutstandingOf
      <4>3. ToSet(OutstandingOf(x)) = ToSet(s.batch.edits) \cup ToSet(x.pending)
        BY <1>10, <4>1, <4>2, ToSetConcat
      <4> QED
        BY <1>10, <3>1, <3>3, <4>3
    <3> QED
      BY <3>2, <3>3
  <2>2. x.auto # None => reads.rebase # None
    BY <1>1, <1>9 DEF HookOK
  <2> QED
    BY <1>1, <1>3, <1>6, <1>9, <1>20, <2>1, <2>2 DEF CopiesOK
<1>22. ~bh => ViewOK(x)' /\ NewsOK(x, r)'
  BY <1>1, <1>3, <1>4, <1>6, <1>9, <1>12 DEF ViewOK, NewsOK
<1>23. Ready(x, r, a, t, d, bh)'
  BY <1>14, <1>15, <1>16, <1>17, <1>18, <1>19, <1>21, <1>22 DEF Ready
<1>24. StoredOK(x, r, t, d)'
  BY <1>5, <1>9 DEF Checkpoint, StoredOK, RecordOf, OutstandingOf
<1> QED
  BY <1>4, <1>5, <1>13, <1>23, <1>24 DEF IInv

LEMMA MountedFields ==
    /\ DOMAIN Mounted = Fields /\ Mounted.seen = None /\ Mounted.version = 0
    /\ Mounted.pending = <<>> /\ Mounted.batch = None /\ Mounted.persist = "idle"
    /\ Mounted.expected = 0 /\ Mounted.held = FALSE /\ Mounted.deferred = None
    /\ Mounted.saveState = "saved" /\ Mounted.auto = None /\ Mounted.taken = None
BY DEF Mounted, Fields

\* The saves that a page left behind are nobody's; there are no more of them.
LEMMA LeftBehind ==
    ASSUME ServerOK, NEW t, WireOK(t), NEW w,
           w = {} \/ w = {[q EXCEPT !.mine = FALSE] : q \in wire}
    PROVE  /\ \A q \in w : /\ q \in [batch : Batches, mine : BOOLEAN]
                           /\ ~q.mine /\ q.batch.base <= Version
                           /\ ToSet(q.batch.edits) \subseteq Known
                           /\ Apart(ToSet(q.batch.edits), q.batch.base, t)
           /\ IsFiniteSet(w) /\ Cardinality(w) <= mishaps + 1
<1>1. mishaps \in Nat
  BY LogFacts
<1>2. CASE w = {}
  BY <1>1, <1>2, FS_EmptySet
<1>3. CASE w = {[q EXCEPT !.mine = FALSE] : q \in wire}
  <2>1. \A q \in wire : /\ [q EXCEPT !.mine = FALSE] \in [batch : Batches, mine : BOOLEAN]
                         /\ [q EXCEPT !.mine = FALSE].batch = q.batch
                         /\ ~[q EXCEPT !.mine = FALSE].mine
    <3> SUFFICES ASSUME NEW q \in wire
                 PROVE  /\ [q EXCEPT !.mine = FALSE] \in [batch : Batches, mine : BOOLEAN]
                        /\ [q EXCEPT !.mine = FALSE].batch = q.batch
                        /\ ~[q EXCEPT !.mine = FALSE].mine
      OBVIOUS
    <3>1. q \in [batch : Batches, mine : BOOLEAN]
      BY DEF WireOK
    <3>2. [q EXCEPT !.mine = FALSE] \in [batch : Batches, mine : BOOLEAN]
      BY <3>1
    <3>3. [q EXCEPT !.mine = FALSE].batch = q.batch
      BY <3>1
    <3>4. ~[q EXCEPT !.mine = FALSE].mine
      BY <3>1
    <3> QED
      BY <3>2, <3>3, <3>4
  <2>2. \A q \in w : \E p \in wire : /\ q \in [batch : Batches, mine : BOOLEAN]
                                     /\ q.batch = p.batch /\ ~q.mine
    BY <1>3, <2>1
  <2>3. IsFiniteSet(w) /\ Cardinality(w) <= mishaps + 1
    <3>1. /\ IsFiniteSet(wire) /\ Cardinality(wire) \in Nat /\ Cardinality(wire) <= mishaps + 1
      BY FS_CardinalityType DEF WireOK
    <3> DEFINE f == [q \in wire |-> [q EXCEPT !.mine = FALSE]]
    <3>2. f \in [wire -> w] /\ \A e \in w : \E q \in wire : f[q] = e
      BY <1>3
    <3> HIDE DEF f
    <3>3. IsFiniteSet(w) /\ Cardinality(w) \in Nat /\ Cardinality(w) <= Cardinality(wire)
      BY <3>1, <3>2, ImageFinite
    <3> QED
      BY <1>1, <3>1, <3>3
  <2> QED
    BY <2>2, <2>3 DEF WireOK
<1> QED
  BY <1>2, <1>3

\* A page that is opened anew has nothing but the recovery record.
LEMMA CrashKeeps == ASSUME IInv, Crash PROVE IInv'
<1>1. /\ ServerOK /\ WireOK(twice) /\ OnceOK(twice)
      /\ WorkOK(s, twice) /\ HookOK(s, reads) /\ CopiesOK(s, reads, Done)
      /\ StoredOK(s, reads, twice, Done)
  BY Parts
<1>2. PICK x, r : x = Mounted /\ r = [NoReads EXCEPT !.load = Version]
  OBVIOUS
<1>3. PICK t, d, w : t = twice /\ d = Done /\ w = wire'
  OBVIOUS
<1>4. /\ Mishap /\ s' = x /\ reads' = r /\ answer' = "none" /\ behind' = FALSE
      /\ w = {} \/ w = {[q EXCEPT !.mine = FALSE] : q \in wire}
      /\ heard' \in {heard, Version} /\ twice' = t
      /\ UNCHANGED <<log, locked, stored, made, late, gone>>
  BY <1>2, <1>3 DEF Crash
<1>5. /\ log' = log /\ Version' = Version /\ StoredEdits' = StoredEdits /\ Known' = Known
      /\ Done' = d /\ made' = made /\ locked' = locked
  BY <1>3, <1>4, DoneStays DEF Version, StoredEdits, Known
<1>6. /\ Version \in Nat /\ Version >= 1 /\ heard \in 1 .. Version /\ heard' \in 1 .. Version
      /\ mishaps \in Nat /\ mishaps' = mishaps + 1 /\ mishaps' \in 0 .. MaxMishaps
  <2>1. /\ Version \in Nat /\ heard \in 1 .. Version /\ mishaps \in Nat
    BY <1>1, LogFacts DEF ServerOK
  <2> QED
    BY <1>1, <1>4, <2>1, MishapsGrow DEF Mishap
<1>7. /\ DOMAIN x = Fields /\ x.seen = None /\ x.version = 0 /\ x.pending = <<>>
      /\ x.batch = None /\ x.persist = "idle" /\ x.expected = 0 /\ x.held = FALSE
      /\ x.deferred = None /\ x.saveState = "saved" /\ x.auto = None /\ x.taken = None
  BY <1>2, MountedFields
<1>8. /\ DOMAIN r = Asked /\ r.load = Version /\ r.rebase = None /\ r.recover = None
      /\ r.load # None
  BY <1>2, <1>6, EditSeqs DEF NoReads, Asked
<1>9. /\ ToSet(x.pending) = {} /\ x.pending \in Seq(Edits)
      /\ \A v : Apart(ToSet(x.pending), v, t)'
  BY <1>7, ToSetEmpty, EditSeqs DEF Apart
<1>10. \A E, v : Apart(E, v, t) => Apart(E, v, t)'
  BY <1>5 DEF Apart
<1>11. ServerOK'
  BY <1>1, <1>5, <1>6 DEF ServerOK
<1>12. /\ \A q \in w : /\ q \in [batch : Batches, mine : BOOLEAN]
                       /\ ~q.mine /\ q.batch.base <= Version
                       /\ ToSet(q.batch.edits) \subseteq Known
                       /\ Apart(ToSet(q.batch.edits), q.batch.base, t)
       /\ IsFiniteSet(w) /\ Cardinality(w) <= mishaps + 1
  BY <1>1, <1>3, <1>4, LeftBehind
<1>13. WireOK(t)'
  <2>1. Cardinality(w) <= mishaps' /\ Cardinality(w) <= mishaps' + 1
    <3>1. Cardinality(w) \in Nat
      BY <1>12, FS_CardinalityType
    <3> QED
      BY <1>6, <1>12, <3>1
  <2> QED
    BY <1>3, <1>5, <1>10, <1>12, <2>1 DEF WireOK
<1>14. OnceOK(t)'
  BY <1>1, <1>3, <1>5 DEF OnceOK
<1>15. WorkOK(x, t)'
  BY <1>5, <1>6, <1>7, <1>9 DEF WorkOK
<1>16. HookOK(x, r)'
  BY <1>5, <1>6, <1>7, <1>8, FieldNames DEF HookOK
<1>17. RebaseOK(x, t)' /\ SentOK(x, t)' /\ AnswerOK(x, "none", t)'
  BY <1>3, <1>7, <1>12 DEF RebaseOK, SentOK, AnswerOK
<1>18. CopiesOK(x, r, d)' /\ ViewOK(x)' /\ NewsOK(x, r)'
  BY <1>6, <1>7, <1>8 DEF CopiesOK, ViewOK, NewsOK
<1>19. Ready(x, r, "none", t, d, FALSE)'
  BY <1>13, <1>14, <1>15, <1>16, <1>17, <1>18 DEF Ready
<1>20. Kept(r, t, d)
  <2>1. CASE s.seen = None
    <3>1. Kept(reads, t, d)
      BY <1>1, <1>3, <2>1 DEF StoredOK
    <3>2. stored # None => stored.version <= Version
      BY <1>6, <3>1 DEF Kept, WorkOK
    <3> QED
      BY <1>8, <3>1, <3>2 DEF Kept
  <2>2. CASE s.seen # None
    <3>1. stored = RecordOf(s) /\ Known \subseteq ToSet(OutstandingOf(s)) \cup d
      BY <1>1, <1>3, <2>2 DEF StoredOK, CopiesOK
    <3>2. CASE OutstandingOf(s) = <<>>
      BY <3>1, <3>2, ToSetEmpty DEF RecordOf, Kept
    <3>3. CASE OutstandingOf(s) # <<>>
      <4>1. stored = [version |-> s.version, pending |-> s.pending, batch |-> s.batch]
        BY <3>1, <3>3 DEF RecordOf
      <4>2. /\ stored.version = s.version /\ stored.pending = s.pending
            /\ stored.batch = s.batch
        BY <4>1
      <4>3. OutstandingOf(stored) = OutstandingOf(s) /\ WorkOK(stored, t)
        BY <1>1, <1>3, <4>2 DEF OutstandingOf, WorkOK
      <4>4. stored.version <= Version /\ stored # None
        <5>1. /\ s.version \in Nat /\ s.version <= Version /\ s.pending \in Seq(Edits)
              /\ s.batch \in Batches \cup {None}
          BY <1>1, <1>6 DEF WorkOK
        <5> QED
          BY <4>1, <4>2, <5>1, EditSeqs
      <4> QED
        BY <1>8, <3>1, <3>3, <4>3, <4>4 DEF Kept
    <3> QED
      BY <3>2, <3>3
  <2> QED
    BY <2>1, <2>2
<1>21. StoredOK(x, r, t, d)'
  <2>1. PICK rec : rec = stored
    OBVIOUS
  <2>2. stored' = rec /\ (WorkOK(rec, t) => WorkOK(rec, t)')
    BY <1>4, <1>5, <1>10, <2>1 DEF WorkOK
  <2>3. WorkOK(stored, t) => WorkOK(stored, t)'
    BY <2>1, <2>2
  <2> QED
    BY <1>5, <1>7, <1>20, <2>1, <2>2, <2>3 DEF StoredOK, Kept, OutstandingOf
<1> QED
  BY <1>3, <1>4, <1>5, <1>11, <1>19, <1>21 DEF IInv

-------------------------------------------------------------------------------
(* The server *)

\* What a new row leaves as it was: all that is said of rows and versions that
\* were there.
LEMMA LogGrows ==
    ASSUME ServerOK, Version <= MaxWrites, NEW row \in Rows, log' = Append(log, row),
           row.by # "session" => row.req = 0 /\ row.edits = <<>>,
           ToSet(row.edits) \subseteq Known,
           UNCHANGED <<locked, heard, made>>, mishaps' \in 0 .. MaxMishaps
    PROVE  /\ ServerOK' /\ Version' = Version + 1 /\ Version \in Nat /\ Known' = Known
           /\ DOMAIN log = 1 .. Version - 1 /\ DOMAIN log' = 1 .. Version
           /\ \A k \in DOMAIN log : log'[k] = log[k]
           /\ log'[Version] = row
           /\ StoredEdits \subseteq StoredEdits'
           /\ \A E, t, v : v \in Nat /\ v <= Version /\ Apart(E, v, t) => Apart(E, v, t)'
           /\ \A n, v : v \in Nat /\ v <= Version /\ Shows(n, v) => Shows(n, v)'
<1>1. /\ Len(log) \in Nat /\ DOMAIN log = 1 .. Len(log) /\ Version = Len(log) + 1
      /\ Version \in Nat /\ log \in Seq(Rows)
  BY LogFacts DEF ServerOK
<1>2. /\ log' \in Seq(Rows) /\ Len(log') = Len(log) + 1
      /\ \A k \in 1 .. Len(log) : log'[k] = log[k]
      /\ log'[Len(log) + 1] = row
  BY <1>1, AppendProperties
<1>3. DOMAIN log' = 1 .. Len(log) + 1
  BY <1>2, LenProperties
<1>4. Version' = Version + 1 /\ Known' = Known
  BY <1>1, <1>2 DEF Version, Known
<1>5. /\ DOMAIN log = 1 .. Version - 1 /\ DOMAIN log' = 1 .. Version
      /\ \A k \in DOMAIN log : log'[k] = log[k]
      /\ log'[Version] = row
      /\ \A k \in DOMAIN log' : k \in DOMAIN log \/ k = Version
  BY <1>1, <1>2, <1>3
<1>6. StoredEdits' = StoredEdits \cup ToSet(row.edits)
  <2>1. \A k \in DOMAIN log : log'[k] = log[k] /\ k \in DOMAIN log'
    BY <1>1, <1>5
  <2>2. Version \in DOMAIN log'
    BY <1>1, <1>5
  <2> QED
    BY <1>5, <2>1, <2>2 DEF StoredEdits
<1>7. \A E, t, v : v \in Nat /\ v <= Version /\ Apart(E, v, t) => Apart(E, v, t)'
  <2> SUFFICES ASSUME NEW E, NEW t, NEW v \in Nat, v <= Version, Apart(E, v, t),
                      NEW k \in DOMAIN log', k < v
               PROVE  E \cap ToSet(log'[k].edits) \subseteq t
    BY DEF Apart
  <2>1. k \in DOMAIN log
    BY <1>1, <1>5
  <2> QED
    BY <1>5, <2>1 DEF Apart
<1>8. \A n, v : v \in Nat /\ v <= Version /\ Shows(n, v) => Shows(n, v)'
  <2> SUFFICES ASSUME NEW n, NEW v \in Nat, v <= Version, Shows(n, v), NEW k \in 1 .. v - 1
               PROVE  k < n \/ log'[k].by = "session"
    BY DEF Shows
  <2>1. k \in DOMAIN log
    BY <1>1, <1>5
  <2> QED
    BY <1>5, <2>1 DEF Shows
<1>9. ServerOK'
  <2>1. Len(log') <= MaxWrites /\ heard' \in 1 .. Version'
    BY <1>1, <1>2, <1>4 DEF ServerOK
  <2>2. \A k \in DOMAIN log' : log'[k].by # "session" => log'[k].req = 0 /\ log'[k].edits = <<>>
    BY <1>5 DEF ServerOK
  <2>3. StoredEdits' \subseteq Known'
    BY <1>4, <1>6 DEF ServerOK
  <2> QED
    BY <1>2, <2>1, <2>2, <2>3 DEF ServerOK
<1> QED
  BY <1>1, <1>4, <1>5, <1>6, <1>7, <1>8, <1>9

\* A session that stays while the journal grows
LEMMA SessionGrows ==
    ASSUME IInv, Version <= MaxWrites, NEW row \in Rows, log' = Append(log, row),
           row.by # "session" => row.req = 0 /\ row.edits = <<>>,
           ToSet(row.edits) \subseteq Known,
           UNCHANGED <<locked, heard, made, s, reads, stored, twice, late, gone, behind>>,
           mishaps' \in 0 .. MaxMishaps,
           WireOK(twice)', OnceOK(twice)', AnswerOK(s, answer, twice)'
    PROVE  IInv'
<1>1. /\ ServerOK /\ WorkOK(s, twice) /\ HookOK(s, reads) /\ RebaseOK(s, twice)
      /\ SentOK(s, twice) /\ CopiesOK(s, reads, Done)
      /\ ~behind => ViewOK(s) /\ NewsOK(s, reads)
      /\ StoredOK(s, reads, twice, Done)
  BY Parts
<1>2. PICK x, r, t, bh, rec : x = s /\ r = reads /\ t = twice /\ bh = behind /\ rec = stored
  OBVIOUS
<1>3. /\ s' = x /\ reads' = r /\ twice' = t /\ behind' = bh /\ stored' = rec
      /\ heard' = heard
  BY <1>2
<1>4. /\ ServerOK' /\ Version' = Version + 1 /\ Version \in Nat /\ Known' = Known
      /\ StoredEdits \subseteq StoredEdits'
      /\ \A E, v : v \in Nat /\ v <= Version /\ Apart(E, v, t) => Apart(E, v, t)'
      /\ \A n, v : v \in Nat /\ v <= Version /\ Shows(n, v) => Shows(n, v)'
  BY <1>1, LogGrows
<1>5. PICK d : d = Done' /\ Done \subseteq d
  BY <1>4 DEF Done
<1>6. \A y : WorkOK(y, t) => WorkOK(y, t)'
  <2> SUFFICES ASSUME NEW y, WorkOK(y, t) PROVE WorkOK(y, t)'
    OBVIOUS
  <2>1. y.version \in Nat /\ y.version <= Version /\ y.version \in 0 .. Version'
    BY <1>4 DEF WorkOK
  <2>2. Apart(ToSet(y.pending), y.version, t)'
    BY <1>4, <2>1 DEF WorkOK
  <2>3. y.batch # None => Apart(ToSet(y.batch.edits), y.version, t)'
    BY <1>4, <2>1 DEF WorkOK
  <2> QED
    BY <1>4, <2>1, <2>2, <2>3 DEF WorkOK
<1>7. HookOK(x, r)'
  BY <1>1, <1>2, <1>4 DEF HookOK
<1>8. RebaseOK(x, t)'
  BY <1>1, <1>2, <1>4 DEF RebaseOK
<1>9. SentOK(x, t)'
  <2> SUFFICES ASSUME x.persist = "sent"
               PROVE  /\ x.expected <= Version' + 1
                      /\ x.batch # None => x.expected = x.version + 1
                      /\ Apart(ToSet(x.pending), x.expected - 1, t)'
    BY DEF SentOK
  <2>1. x.expected \in Nat /\ x.expected > 0 /\ x.expected <= Version + 1
        /\ (x.batch # None => x.expected = x.version + 1)
        /\ Apart(ToSet(x.pending), x.expected - 1, t)
    BY <1>1, <1>2 DEF HookOK, SentOK
  <2>2. x.expected - 1 \in Nat /\ x.expected - 1 <= Version /\ x.expected <= Version' + 1
    BY <1>4, <2>1
  <2> QED
    BY <1>4, <2>1, <2>2
<1>10. CopiesOK(x, r, d)'
  BY <1>1, <1>2, <1>4, <1>5 DEF CopiesOK
<1>11. ~bh => ViewOK(x)' /\ NewsOK(x, r)'
  <2> SUFFICES ASSUME ~bh PROVE ViewOK(x)' /\ NewsOK(x, r)'
    OBVIOUS
  <2>1. ViewOK(x) /\ NewsOK(x, r) /\ heard \in Nat /\ heard <= Version
    BY <1>1, <1>2, LogFacts
  <2>2. x.version \in Nat /\ x.version <= Version
    BY <1>1, <1>2, <1>4 DEF WorkOK
  <2>3. x.persist = "sent" => x.expected - 1 \in Nat /\ x.expected - 1 <= Version
    BY <1>1, <1>2, <1>4 DEF HookOK, SentOK
  <2>4. ViewOK(x)'
    BY <1>4, <2>1, <2>2, <2>3 DEF ViewOK
  <2>5. NewsOK(x, r)'
    BY <1>3, <1>4, <2>1 DEF NewsOK
  <2> QED
    BY <2>4, <2>5
<1>12. Ready(s, reads, answer, twice, Done, behind)'
  <2>1. WorkOK(x, t)'
    BY <1>1, <1>2, <1>6
  <2>2. /\ WorkOK(s, twice)' /\ HookOK(s, reads)' /\ RebaseOK(s, twice)' /\ SentOK(s, twice)'
        /\ ~behind' => ViewOK(s)' /\ NewsOK(s, reads)'
    BY <1>3, <1>7, <1>8, <1>9, <1>11, <2>1
  <2>3. CopiesOK(s, reads, Done)'
    BY <1>3, <1>5, <1>10
  <2> QED
    BY <2>2, <2>3 DEF Ready
<1>13. StoredOK(s, reads, twice, Done)'
  <2>1. WorkOK(stored, twice) => WorkOK(stored, twice)'
    BY <1>2, <1>3, <1>6
  <2>2. CASE s.seen = None
    <3>1. Kept(reads, twice, Done)
      BY <1>1, <2>2 DEF StoredOK
    <3>2. Kept(reads, twice, Done)'
      BY <1>2, <1>3, <1>4, <1>5, <2>1, <3>1 DEF Kept, OutstandingOf
    <3> QED
      BY <2>2, <3>2 DEF StoredOK
  <2>3. CASE s.seen # None
    BY <1>1, <2>3 DEF StoredOK, RecordOf, OutstandingOf
  <2> QED
    BY <2>2, <2>3
<1> QED
  BY <1>4, <1>12, <1>13 DEF IInv

\* What was said of saves, rows and answers holds of a longer journal too.
LEMMA RowsGrow ==
    ASSUME IInv, Version <= MaxWrites, NEW row \in Rows, log' = Append(log, row),
           row.by # "session" => row.req = 0 /\ row.edits = <<>>,
           ToSet(row.edits) \subseteq Known, Apart(ToSet(row.edits), Version, twice),
           UNCHANGED <<locked, heard, made, s, twice>>, mishaps' \in 0 .. MaxMishaps
    PROVE  /\ OnceOK(twice)'
           /\ \A q \in wire : /\ q \in [batch : Batches, mine : BOOLEAN]
                              /\ q.batch.base <= Version'
                              /\ ToSet(q.batch.edits) \subseteq Known'
                              /\ Apart(ToSet(q.batch.edits), q.batch.base, twice)'
           /\ wire' \subseteq wire /\ answer' = answer => AnswerOK(s, answer, twice)'
<1>1. ServerOK /\ WireOK(twice) /\ OnceOK(twice) /\ AnswerOK(s, answer, twice)
  BY Parts
<1>2. PICK x, t, a : x = s /\ t = twice /\ a = answer
  OBVIOUS
<1>3. s' = x /\ twice' = t
  BY <1>2
<1>4. /\ Version' = Version + 1 /\ Version \in Nat /\ Known' = Known
      /\ DOMAIN log = 1 .. Version - 1 /\ DOMAIN log' = 1 .. Version
      /\ \A k \in DOMAIN log : log'[k] = log[k]
      /\ log'[Version] = row
      /\ \A E, v : v \in Nat /\ v <= Version /\ Apart(E, v, t) => Apart(E, v, t)'
  BY <1>1, LogGrows
<1>5. OnceOK(t)'
  <2> SUFFICES ASSUME NEW j \in DOMAIN log', NEW k \in DOMAIN log', j # k
               PROVE  ToSet(log'[j].edits) \cap ToSet(log'[k].edits) \subseteq t
    BY DEF OnceOK
  <2>1. \A i \in DOMAIN log : ToSet(row.edits) \cap ToSet(log[i].edits) \subseteq t
    BY <1>2, <1>4 DEF Apart
  <2>2. CASE j = Version
    <3>1. k \in DOMAIN log
      BY <1>4, <2>2
    <3> QED
      BY <1>4, <2>1, <2>2, <3>1
  <2>3. CASE k = Version
    <3>1. j \in DOMAIN log
      BY <1>4, <2>3
    <3> QED
      BY <1>4, <2>1, <2>3, <3>1
  <2>4. CASE j # Version /\ k # Version
    <3>1. j \in DOMAIN log /\ k \in DOMAIN log
      BY <1>4, <2>4
    <3> QED
      BY <1>1, <1>2, <1>4, <3>1 DEF OnceOK
  <2> QED
    BY <2>2, <2>3, <2>4
<1>6. \A q \in wire : /\ q \in [batch : Batches, mine : BOOLEAN]
                      /\ q.batch.base <= Version'
                      /\ ToSet(q.batch.edits) \subseteq Known'
                      /\ Apart(ToSet(q.batch.edits), q.batch.base, t)'
  <2> SUFFICES ASSUME NEW q \in wire
               PROVE  /\ q \in [batch : Batches, mine : BOOLEAN]
                      /\ q.batch.base <= Version'
                      /\ ToSet(q.batch.edits) \subseteq Known'
                      /\ Apart(ToSet(q.batch.edits), q.batch.base, t)'
    OBVIOUS
  <2>1. /\ q \in [batch : Batches, mine : BOOLEAN] /\ q.batch.base <= Version
        /\ ToSet(q.batch.edits) \subseteq Known
        /\ Apart(ToSet(q.batch.edits), q.batch.base, t)
    BY <1>1, <1>2 DEF WireOK
  <2>2. q.batch.base \in Nat /\ q.batch.base <= Version'
    BY <1>4, <2>1 DEF Batches
  <2> QED
    BY <1>4, <2>1, <2>2
<1>7. ASSUME wire' \subseteq wire PROVE AnswerOK(x, a, t)'
  <2>1. /\ a \in {"none", "committed", "replayed", "conflict", "locked", "busy", "reused"}
        /\ a # "none" => x.persist = "sent"
        /\ \A q \in wire' : q.mine =>
             /\ x.persist = "sent" /\ a = "none"
             /\ x.expected = q.batch.base + 1
             /\ x.batch # None => x.batch = q.batch
             /\ ToSet(x.pending) \cap ToSet(q.batch.edits) \subseteq t
    BY <1>1, <1>2, <1>7 DEF AnswerOK
  <2>2. a \in {"committed", "replayed"} =>
             /\ x.expected - 1 \in DOMAIN log'
             /\ log'[x.expected - 1].by = "session"
             /\ ToSet(x.pending) \cap ToSet(log'[x.expected - 1].edits) \subseteq t
             /\ x.batch # None => log'[x.expected - 1].edits = x.batch.edits
    <3> SUFFICES ASSUME a \in {"committed", "replayed"}
                 PROVE  /\ x.expected - 1 \in DOMAIN log'
                        /\ log'[x.expected - 1].by = "session"
                        /\ ToSet(x.pending) \cap ToSet(log'[x.expected - 1].edits) \subseteq t
                        /\ x.batch # None => log'[x.expected - 1].edits = x.batch.edits
      OBVIOUS
    <3>1. /\ x.expected - 1 \in DOMAIN log
          /\ log[x.expected - 1].by = "session"
          /\ ToSet(x.pending) \cap ToSet(log[x.expected - 1].edits) \subseteq t
          /\ x.batch # None => log[x.expected - 1].edits = x.batch.edits
      BY <1>1, <1>2 DEF AnswerOK
    <3>2. \A k \in DOMAIN log : k \in DOMAIN log' /\ log'[k] = log[k]
      BY <1>4
    <3> QED
      BY <3>1, <3>2
  <2>3. a = "conflict" /\ x.batch # None =>
             /\ x.batch.base < Version'
             /\ x.batch.base > 0 => log'[x.batch.base].req # x.batch.req
    <3> SUFFICES ASSUME a = "conflict", x.batch # None
                 PROVE  /\ x.batch.base < Version'
                        /\ x.batch.base > 0 => log'[x.batch.base].req # x.batch.req
      OBVIOUS
    <3>1. /\ x.batch.base < Version
          /\ x.batch.base > 0 => log[x.batch.base].req # x.batch.req
      BY <1>1, <1>2 DEF AnswerOK
    <3>2. x.batch.base \in Nat
      BY <1>1, <1>2, Parts DEF WorkOK, Batches
    <3>3. x.batch.base > 0 => x.batch.base \in DOMAIN log
      BY <1>4, <3>1, <3>2
    <3> QED
      BY <1>4, <3>1, <3>2, <3>3
  <2> QED
    BY <2>1, <2>2, <2>3 DEF AnswerOK
<1> QED
  BY <1>2, <1>3, <1>5, <1>6, <1>7

LEMMA OtherWriteKeeps ==
    ASSUME IInv, NEW by \in {"machine", "window"}, OtherWrite(by)
    PROVE  IInv'
<1>1. ServerOK /\ WireOK(twice)
  BY Parts
<1> DEFINE row == [by |-> by, req |-> 0, edits |-> <<>>]
<1>2. /\ Version <= MaxWrites /\ log' = Append(log, row)
      /\ UNCHANGED <<locked, heard, made, s, reads, stored, twice, late, gone, behind>>
      /\ UNCHANGED <<wire, answer, mishaps>>
  BY DEF OtherWrite, Commit, netVars, ghosts
<1>3. row \in Rows /\ row.req = 0 /\ row.edits = <<>> /\ ToSet(row.edits) = {}
  BY EditSeqs, ToSetEmpty DEF Rows
<1> HIDE DEF row
<1>4. Apart(ToSet(row.edits), Version, twice) /\ ToSet(row.edits) \subseteq Known
  BY <1>3 DEF Apart
<1>5. mishaps' \in 0 .. MaxMishaps
  BY <1>1, <1>2 DEF ServerOK
<1>6. /\ OnceOK(twice)' /\ AnswerOK(s, answer, twice)'
      /\ \A q \in wire : /\ q \in [batch : Batches, mine : BOOLEAN]
                         /\ q.batch.base <= Version'
                         /\ ToSet(q.batch.edits) \subseteq Known'
                         /\ Apart(ToSet(q.batch.edits), q.batch.base, twice)'
  BY <1>2, <1>3, <1>4, <1>5, RowsGrow
<1>7. WireOK(twice)'
  <2>1. PICK t : t = twice /\ twice' = t
    BY <1>2
  <2>2. WireOK(t)'
    BY <1>1, <1>2, <1>6, <2>1 DEF WireOK
  <2> QED
    BY <2>1, <2>2
<1> QED
  BY <1>2, <1>3, <1>4, <1>5, <1>6, <1>7, SessionGrows

LEMMA SwitchLockKeeps == ASSUME IInv, SwitchLock PROVE IInv'
<1>1. /\ ServerOK /\ Ready(s, reads, answer, twice, Done, behind)
      /\ StoredOK(s, reads, twice, Done)
  BY DEF IInv
<1>2. PICK x, r, a, t, d, bh : /\ x = s /\ r = reads /\ a = answer /\ t = twice /\ d = Done
                               /\ bh = behind
  OBVIOUS
<1>3. /\ locked' \in {"yes", "over"} /\ (Mishap \/ UNCHANGED mishaps)
      /\ UNCHANGED <<log, heard, made, wire, stored>>
      /\ s' = x /\ reads' = r /\ answer' = a /\ twice' = t /\ behind' = bh
      /\ UNCHANGED <<late, gone>>
  BY <1>2 DEF SwitchLock, netVars, ghosts
<1>4. mishaps' \in 0 .. MaxMishaps /\ mishaps' >= mishaps /\ mishaps' \in Nat
  BY <1>1, <1>3, MishapsGrow, EditorAssumption
<1>5. ServerOK'
  <2>1. /\ log' = log /\ made' = made /\ heard' = heard
        /\ Version' = Version /\ StoredEdits' = StoredEdits /\ Known' = Known
    BY <1>3, WorldStays
  <2> QED
    BY <1>1, <1>3, <1>4, <2>1 DEF ServerOK
<1>6. Done' = d
  BY <1>2, <1>3, DoneStays
<1>7. Ready(x, r, a, t, d, bh)'
  BY <1>1, <1>2, <1>3, <1>4, WorldStays, WireStays DEF Ready
<1>8. StoredOK(x, r, t, d)'
  BY <1>1, <1>2, <1>3, StoredStays
<1> QED
  BY <1>3, <1>5, <1>6, <1>7, <1>8 DEF IInv

\* What the server says of a save that it did not take
LEMMA VerdictFacts ==
    ASSUME IInv, NEW q \in wire
    PROVE  /\ q \in [batch : Batches, mine : BOOLEAN] /\ q.batch.base \in Nat
           /\ Verdict(q.batch) \in {"committed", "replayed", "conflict", "locked", "reused"}
           /\ Verdict(q.batch) = "committed" => q.batch.base = Version
           /\ Verdict(q.batch) = "replayed" =>
                /\ q.batch.base \in DOMAIN log /\ log[q.batch.base].by = "session"
                /\ log[q.batch.base].edits = q.batch.edits
           /\ Verdict(q.batch) = "conflict" =>
                /\ q.batch.base < Version
                /\ q.batch.base > 0 => log[q.batch.base].req # q.batch.req
<1>1. ServerOK /\ WireOK(twice)
  BY Parts
<1>2. /\ q \in [batch : Batches, mine : BOOLEAN] /\ q.batch.base <= Version
  BY <1>1 DEF WireOK
<1>3. q.batch.base \in Nat /\ q.batch.req # 0
  BY <1>2 DEF Batches
<1>4. /\ Len(log) \in Nat /\ DOMAIN log = 1 .. Len(log) /\ Version = Len(log) + 1
  BY <1>1, LogFacts
<1>5. PICK b : b = q.batch
  OBVIOUS
<1>6. CASE Served(b.req) # {} /\ \A k \in Served(b.req) : k = b.base /\ log[k].edits = b.edits
  <2>1. Verdict(b) = "replayed"
    BY <1>6 DEF Verdict
  <2>2. b.base \in Served(b.req) /\ log[b.base].edits = b.edits
    BY <1>6
  <2>3. b.base \in DOMAIN log /\ log[b.base].req = b.req
    BY <2>2 DEF Served
  <2>4. log[b.base].by = "session"
    BY <1>1, <1>3, <1>5, <2>3 DEF ServerOK
  <2> QED
    BY <1>2, <1>3, <1>5, <2>1, <2>2, <2>3, <2>4
<1>7. CASE Served(b.req) # {} /\ ~\A k \in Served(b.req) : k = b.base /\ log[k].edits = b.edits
  <2>1. Verdict(b) = "reused"
    BY <1>7 DEF Verdict
  <2> QED
    BY <1>2, <1>3, <1>5, <2>1
<1>8. CASE Served(b.req) = {} /\ b.base # Version
  <2>1. Verdict(b) = "conflict"
    BY <1>8 DEF Verdict
  <2>2. b.base < Version
    BY <1>2, <1>3, <1>4, <1>5, <1>8
  <2>3. b.base > 0 => b.base \in DOMAIN log
    BY <1>3, <1>4, <1>5, <2>2
  <2>4. b.base > 0 => log[b.base].req # b.req
    BY <1>8, <2>3 DEF Served
  <2> QED
    BY <1>2, <1>3, <1>5, <2>1, <2>2, <2>4
<1>9. CASE Served(b.req) = {} /\ b.base = Version
  <2>1. Verdict(b) \in {"locked", "committed"}
    BY <1>9 DEF Verdict
  <2> QED
    BY <1>2, <1>3, <1>5, <1>9, <2>1
<1> QED
  BY <1>6, <1>7, <1>8, <1>9

\* One save less is on its way, and that makes room for a mishap.
LEMMA OneServed ==
    ASSUME IInv, NEW q \in wire, wire' = wire \ {q}, mishaps' \in Nat, mishaps' >= mishaps
    PROVE  /\ IsFiniteSet(wire') /\ Cardinality(wire') <= mishaps'
           /\ Cardinality(wire') <= mishaps' + 1
<1>1. /\ IsFiniteSet(wire) /\ Cardinality(wire) \in Nat /\ Cardinality(wire) <= mishaps + 1
      /\ mishaps \in Nat
  BY Parts, FS_CardinalityType, LogFacts DEF WireOK
<1>2. IsFiniteSet(wire \ {q}) /\ Cardinality(wire \ {q}) = Cardinality(wire) - 1
  BY <1>1, FS_RemoveElement
<1> QED
  BY <1>1, <1>2

LEMMA ServeKeeps == ASSUME IInv, NEW q \in wire, Serve(q) PROVE IInv'
<1>1. /\ ServerOK /\ Ready(s, reads, answer, twice, Done, behind)
      /\ StoredOK(s, reads, twice, Done)
  BY DEF IInv
<1>2. /\ WireOK(twice) /\ AnswerOK(s, answer, twice)
  BY Parts
<1>3. PICK verdict \in {Verdict(q.batch), "busy"} :
        /\ MishapIf(verdict = "busy")
        /\ IF verdict = "committed" THEN Commit("session", q.batch.req, q.batch.edits)
           ELSE UNCHANGED log
        /\ answer' = IF q.mine THEN verdict ELSE answer
  BY DEF Serve
<1>4. /\ wire' = wire \ {q} /\ UNCHANGED <<locked, heard, reads, s, stored>>
      /\ UNCHANGED <<made, late, gone, twice, behind>>
  BY DEF Serve, ghosts
<1>5. mishaps' \in 0 .. MaxMishaps /\ mishaps' >= mishaps /\ mishaps' \in Nat
  BY <1>1, <1>3, MishapsGrow, EditorAssumption
<1>6. PICK x, t, a : x = s /\ t = twice /\ a = answer
  OBVIOUS
<1>7. s' = x /\ twice' = t
  BY <1>4, <1>6
<1>8. /\ IsFiniteSet(wire') /\ Cardinality(wire') <= mishaps' + 1 /\ Cardinality(wire') <= mishaps'
      /\ \A p, o \in wire' : p.mine /\ o.mine => p = o
      /\ wire' \subseteq wire
      /\ q.mine => \A p \in wire' : ~p.mine
  BY <1>2, <1>4, <1>5, OneServed DEF WireOK
<1>9. /\ q \in [batch : Batches, mine : BOOLEAN] /\ q.batch.base <= Version
      /\ ToSet(q.batch.edits) \subseteq Known
      /\ Apart(ToSet(q.batch.edits), q.batch.base, t)
  BY <1>2, <1>6 DEF WireOK
<1>10. /\ q.batch.base \in Nat
       /\ Verdict(q.batch) \in {"committed", "replayed", "conflict", "locked", "reused"}
       /\ Verdict(q.batch) = "committed" => q.batch.base = Version
       /\ Verdict(q.batch) = "replayed" =>
            /\ q.batch.base \in DOMAIN log /\ log[q.batch.base].by = "session"
            /\ log[q.batch.base].edits = q.batch.edits
       /\ Verdict(q.batch) = "conflict" =>
            /\ q.batch.base < Version
            /\ q.batch.base > 0 => log[q.batch.base].req # q.batch.req
  BY VerdictFacts
<1>11. q.mine => /\ x.persist = "sent" /\ x.expected = q.batch.base + 1
                 /\ x.batch # None => x.batch = q.batch
                 /\ ToSet(x.pending) \cap ToSet(q.batch.edits) \subseteq t
  BY <1>2, <1>6 DEF AnswerOK
<1>12. x.expected - 1 = q.batch.base \/ ~q.mine
  BY <1>10, <1>11
<1>13. CASE verdict = "committed"
  <2> DEFINE row == [by |-> "session", req |-> q.batch.req, edits |-> q.batch.edits]
  <2>1. Version <= MaxWrites /\ log' = Append(log, row) /\ q.batch.base = Version
    BY <1>3, <1>10, <1>13 DEF Commit
  <2>2. row \in Rows /\ row.by = "session" /\ row.edits = q.batch.edits
    <3>1. q.batch.req \in Nat /\ q.batch.edits \in Seq(Edits)
      BY <1>9 DEF Batches
    <3> QED
      BY <3>1 DEF Rows
  <2> HIDE DEF row
  <2>3. ToSet(row.edits) \subseteq Known /\ Apart(ToSet(row.edits), Version, twice)
    BY <1>6, <1>9, <2>1, <2>2
  <2>4. /\ OnceOK(twice)'
        /\ \A p \in wire : /\ p \in [batch : Batches, mine : BOOLEAN]
                           /\ p.batch.base <= Version'
                           /\ ToSet(p.batch.edits) \subseteq Known'
                           /\ Apart(ToSet(p.batch.edits), p.batch.base, twice)'
        /\ wire' \subseteq wire /\ answer' = answer => AnswerOK(s, answer, twice)'
    BY <1>4, <1>5, <2>1, <2>2, <2>3, RowsGrow
  <2>5. WireOK(t)'
    BY <1>7, <1>8, <2>4 DEF WireOK
  <2>6. AnswerOK(s, answer, twice)'
    <3>1. CASE ~q.mine
      BY <1>3, <1>8, <2>4, <3>1
    <3>2. CASE q.mine
      <4>1. answer' = "committed"
        BY <1>3, <1>13, <3>2
      <4>2. Version \in DOMAIN log' /\ log'[Version] = row
        <5>1. Version \in Nat /\ Version >= 1
          BY <1>1, LogFacts
        <5>2. DOMAIN log' = 1 .. Version /\ log'[Version] = row
          BY <1>1, <1>4, <1>5, <2>1, <2>2, <2>3, LogGrows
        <5> QED
          BY <5>1, <5>2
      <4>3. x.expected - 1 = Version
        BY <1>12, <2>1, <3>2
      <4>4. AnswerOK(x, "committed", t)'
        BY <1>8, <1>11, <2>2, <3>2, <4>2, <4>3 DEF AnswerOK
      <4> QED
        BY <1>7, <4>1, <4>4
    <3> QED
      BY <3>1, <3>2
  <2> QED
    BY <1>4, <1>5, <1>7, <2>1, <2>2, <2>3, <2>4, <2>5, <2>6, SessionGrows
<1>14. CASE verdict # "committed"
  <2>1. log' = log /\ UNCHANGED <<log, heard, made, stored>>
    BY <1>3, <1>4, <1>14
  <2>2. PICK r, d, bh : r = reads /\ d = Done /\ bh = behind
    OBVIOUS
  <2>3. /\ ServerOK' /\ Version' = Version /\ Known' = Known
        /\ Done' = d /\ reads' = r /\ behind' = bh
    BY <1>1, <1>4, <1>5, <2>1, <2>2, ServerStays, WorldStays, DoneStays
  <2>4. WireOK(t)'
    <3>1. \A E, v : Apart(E, v, t) => Apart(E, v, t)'
      BY <2>1 DEF Apart
    <3>2. \A p \in wire' : /\ p \in [batch : Batches, mine : BOOLEAN] /\ p.batch.base <= Version'
                           /\ ToSet(p.batch.edits) \subseteq Known'
                           /\ Apart(ToSet(p.batch.edits), p.batch.base, t)'
      BY <1>2, <1>6, <1>8, <2>3, <3>1 DEF WireOK
    <3> QED
      BY <1>8, <3>2 DEF WireOK
  <2>5. AnswerOK(s, answer, twice)'
    <3>1. CASE ~q.mine
      <4>1. AnswerOK(x, a, t)'
        BY <1>2, <1>6, <1>8, <2>1, <2>3 DEF AnswerOK
      <4> QED
        BY <1>3, <1>6, <1>7, <3>1, <4>1
    <3>2. CASE q.mine
      <4>1. PICK v : v = verdict
        OBVIOUS
      <4>2. answer' = v /\ v # "committed"
        BY <1>3, <1>14, <3>2, <4>1
      <4>3. v \in {"replayed", "conflict", "locked", "busy", "reused"}
        BY <1>3, <1>10, <1>14, <4>1
      <4>4. v = "replayed" =>
              /\ x.expected - 1 \in DOMAIN log'
              /\ log'[x.expected - 1].by = "session"
              /\ ToSet(x.pending) \cap ToSet(log'[x.expected - 1].edits) \subseteq t
              /\ x.batch # None => log'[x.expected - 1].edits = x.batch.edits
        BY <1>3, <1>10, <1>11, <1>12, <2>1, <3>2, <4>1
      <4>5. v = "conflict" /\ x.batch # None =>
              /\ x.batch.base < Version'
              /\ x.batch.base > 0 => log'[x.batch.base].req # x.batch.req
        BY <1>3, <1>10, <1>11, <2>1, <2>3, <3>2, <4>1
      <4>6. AnswerOK(x, v, t)'
        BY <1>8, <1>11, <3>2, <4>3, <4>4, <4>5 DEF AnswerOK
      <4> QED
        BY <1>7, <4>2, <4>6
    <3> QED
      BY <3>1, <3>2
  <2>6. /\ OnceOK(t)' /\ WorkOK(x, t)' /\ HookOK(x, r)' /\ RebaseOK(x, t)' /\ SentOK(x, t)'
        /\ CopiesOK(x, r, d)'
        /\ ~bh => ViewOK(x)' /\ NewsOK(x, r)'
    <3>1. /\ OnceOK(t) /\ WorkOK(x, t) /\ HookOK(x, r) /\ RebaseOK(x, t) /\ SentOK(x, t)
          /\ CopiesOK(x, r, d)
      BY <1>1, <1>6, <2>2 DEF Ready
    <3>2. ~bh => ViewOK(x) /\ NewsOK(x, r)
      BY <1>1, <1>6, <2>2 DEF Ready
    <3>3. ~bh => ViewOK(x)' /\ NewsOK(x, r)'
      BY <2>1, <3>2, WorldStays
    <3> QED
      BY <2>1, <3>1, <3>3, WorldStays
  <2>7. StoredOK(x, r, t, d)'
    BY <1>1, <1>6, <2>1, <2>2, StoredStays
  <2>9. Ready(s, reads, answer, twice, Done, behind)'
    BY <1>7, <2>3, <2>4, <2>5, <2>6 DEF Ready
  <2> QED
    BY <1>7, <2>3, <2>7, <2>9 DEF IInv
<1> QED
  BY <1>13, <1>14

-------------------------------------------------------------------------------
(* The specification *)

\* The page is opened, and nothing was written or typed yet.
LEMMA InitKeeps == ASSUME Init PROVE IInv
<1>1. /\ log = <<>> /\ locked = "no" /\ heard = Version
      /\ wire = {} /\ answer = "none" /\ s = Mounted /\ stored = None /\ mishaps = 0
      /\ made = 0 /\ late = {} /\ gone = {} /\ twice = {} /\ behind = FALSE
  BY DEF Init
<1>2. PICK x, r : x = Mounted /\ r = [NoReads EXCEPT !.load = Version]
  OBVIOUS
<1>3. s = x /\ reads = r
  BY <1>2 DEF Init
<1>4. log \in Seq(Rows) /\ Len(log) = 0 /\ DOMAIN log = {} /\ Version = 1
  BY <1>1, EmptySeq DEF Version
<1>5. StoredEdits = {} /\ Known = {} /\ Done = {}
  BY <1>1, <1>4 DEF StoredEdits, Known, Done
<1>6. /\ DOMAIN x = Fields /\ x.seen = None /\ x.version = 0 /\ x.pending = <<>>
      /\ x.batch = None /\ x.persist = "idle" /\ x.expected = 0 /\ x.held = FALSE
      /\ x.deferred = None /\ x.saveState = "saved" /\ x.auto = None /\ x.taken = None
  BY <1>2, MountedFields
<1>7. /\ DOMAIN r = Asked /\ r.load = 1 /\ r.rebase = None /\ r.recover = None
      /\ r.load # None
  BY <1>2, <1>4, EditSeqs DEF NoReads, Asked
<1>8. ToSet(x.pending) = {} /\ x.pending \in Seq(Edits)
  BY <1>6, ToSetEmpty, EditSeqs
<1>9. ServerOK
  <2>1. heard \in 1 .. Version /\ mishaps \in 0 .. MaxMishaps /\ made \in 0 .. MaxEdits
        /\ Len(log) <= MaxWrites
    BY <1>1, <1>4, EditorAssumption
  <2> QED
    BY <1>1, <1>4, <1>5, <2>1 DEF ServerOK
<1>10. WireOK({}) /\ OnceOK({})
  <2>1. IsFiniteSet(wire) /\ Cardinality(wire) = 0
    BY <1>1, FS_EmptySet
  <2> QED
    BY <1>1, <1>4, <2>1 DEF WireOK, OnceOK
<1>11. WorkOK(x, {})
  BY <1>4, <1>5, <1>6, <1>8 DEF WorkOK, Apart
<1>12. HookOK(x, r)
  BY <1>4, <1>6, <1>7, FieldNames DEF HookOK
<1>13. RebaseOK(x, {}) /\ SentOK(x, {}) /\ AnswerOK(x, "none", {})
  BY <1>1, <1>6 DEF RebaseOK, SentOK, AnswerOK
<1>14. CopiesOK(x, r, {}) /\ ViewOK(x) /\ NewsOK(x, r)
  BY <1>1, <1>4, <1>6, <1>7 DEF CopiesOK, ViewOK, NewsOK
<1>15. Ready(x, r, "none", {}, {}, FALSE)
  BY <1>10, <1>11, <1>12, <1>13, <1>14 DEF Ready
<1>16. StoredOK(x, r, {}, {})
  BY <1>1, <1>5, <1>6 DEF StoredOK, Kept
<1> QED
  BY <1>1, <1>3, <1>5, <1>9, <1>15, <1>16 DEF IInv

LEMMA StutterKeeps == ASSUME IInv, UNCHANGED vars PROVE IInv'
<1>1. /\ ServerOK /\ Ready(s, reads, answer, twice, Done, behind)
      /\ StoredOK(s, reads, twice, Done)
  BY DEF IInv
<1>2. PICK x, r, a, t, d, bh : /\ x = s /\ r = reads /\ a = answer /\ t = twice /\ d = Done
                               /\ bh = behind
  OBVIOUS
<1>3. /\ UNCHANGED <<log, locked, heard, made, wire, stored, mishaps, late, gone>>
      /\ s' = x /\ reads' = r /\ answer' = a /\ twice' = t /\ behind' = bh
  BY <1>2 DEF vars, serverVars, netVars, ghosts
<1>4. mishaps' \in 0 .. MaxMishaps /\ mishaps' >= mishaps
  <2>1. mishaps \in 0 .. MaxMishaps
    BY <1>1 DEF ServerOK
  <2> QED
    BY <1>3, <2>1, EditorAssumption
<1>5. Done' = d
  BY <1>2, <1>3, DoneStays
<1>6. StoredOK(x, r, t, d)'
  BY <1>1, <1>2, <1>3, StoredStays
<1> QED
  BY <1>1, <1>2, <1>3, <1>4, <1>5, <1>6, PageStep

LEMMA StepKeeps == IInv /\ [Next]_vars => IInv'
<1> SUFFICES ASSUME IInv, [Next]_vars PROVE IInv'
  OBVIOUS
<1>1. ASSUME NEW by \in {"machine", "window"}, OtherWrite(by) PROVE IInv'
  BY <1>1, OtherWriteKeeps
<1>2. CASE SwitchLock
  BY <1>2, SwitchLockKeeps
<1>3. ASSUME NEW q \in wire, Serve(q) PROVE IInv'
  BY <1>3, ServeKeeps
<1>4. CASE Saved
  BY <1>4, SavedKeeps
<1>5. CASE Refused
  BY <1>5, RefusedKeeps
<1>6. CASE AutoRebase
  BY <1>6, AutoRebaseKeeps
<1>7. CASE Recover
  BY <1>7, RecoverKeeps
<1>8. CASE Recovered
  BY <1>8, RecoveredKeeps
<1>9. CASE Discard
  BY <1>9, DiscardKeeps
<1>10. CASE Load
  BY <1>10, LoadKeeps
<1>11. ASSUME NEW v \in Versions, Hear(v) PROVE IInv'
  BY <1>11, HearKeeps
<1>12. CASE Type
  BY <1>12, TypeKeeps
<1>13. CASE Flush
  BY <1>13, FlushKeeps
<1>14. CASE Refresh
  BY <1>14, RefreshKeeps
<1>15. CASE LookAtLock
  BY <1>15, LookAtLockKeeps
<1>16. CASE Crash
  BY <1>16, CrashKeeps
<1>17. CASE UNCHANGED vars
  BY <1>17, StutterKeeps
<1> QED
  BY <1>1, <1>2, <1>3, <1>4, <1>5, <1>6, <1>7, <1>8, <1>9, <1>10, <1>11, <1>12, <1>13,
     <1>14, <1>15, <1>16, <1>17 DEF Next

\* The inductive invariant holds of every state of the editor and the server.
THEOREM EditorSound == EditorSpec => []IInv
BY InitKeeps, StepKeeps, PTL DEF EditorSpec

LEMMA TypesHold == ASSUME IInv PROVE EditorTypeOK
<1>1. /\ ServerOK /\ WireOK(twice) /\ WorkOK(s, twice) /\ HookOK(s, reads)
  BY Parts
<1>2. /\ Version \in Nat /\ Version <= MaxWrites + 1 /\ MaxWrites \in Nat
      /\ heard \in 1 .. Version
  BY <1>1, LogFacts, EditorAssumption DEF ServerOK
<1>3. locked \in {"no", "yes", "over"} /\ heard \in Versions
  BY <1>1, <1>2 DEF ServerOK, Versions
<1>4. \A b \in Batches : b.base <= Version => Batch(b)
  BY <1>2 DEF Batches, Batch
<1>5. \A q \in wire : Batch(q.batch) /\ q.mine \in BOOLEAN
  <2> SUFFICES ASSUME NEW q \in wire PROVE Batch(q.batch) /\ q.mine \in BOOLEAN
    OBVIOUS
  <2>1. q \in [batch : Batches, mine : BOOLEAN] /\ q.batch.base <= Version
    BY <1>1 DEF WireOK
  <2>2. q.batch \in Batches
    BY <2>1
  <2>3. q.mine \in BOOLEAN
    BY <2>1
  <2> QED
    BY <1>4, <2>1, <2>2, <2>3
<1>6. s.version \in 0 .. MaxWrites + 1 /\ s.pending \in Seq(Edits)
  BY <1>1, <1>2 DEF WorkOK
<1>7. s.batch # None => Batch(s.batch)
  <2>1. s.batch # None => s.batch \in Batches /\ s.batch.base <= Version
    BY <1>1, <1>2 DEF WorkOK
  <2> QED
    BY <1>4, <2>1
<1>8. /\ (s.persist = "rebase") <=> (s.auto # None)
      /\ (s.persist = "rebase") <=> (reads.rebase # None)
      /\ (s.persist = "sent") <=> (s.expected > 0)
      /\ s.saveState \in {"saved", "saving", "failed", "locked"}
  BY <1>1 DEF HookOK
<1> QED
  BY <1>3, <1>5, <1>6, <1>7, <1>8 DEF EditorTypeOK

\* Types; a rebase is under way exactly while the loop waits for one, and a save
\* is awaited exactly while a version is expected from it.
THEOREM EditorTypes == EditorSpec => []EditorTypeOK
BY EditorSound, TypesHold, PTL

LEMMA EditsAreKept == ASSUME IInv PROVE EditsKept
<1>1. CopiesOK(s, reads, Done) /\ StoredOK(s, reads, twice, Done)
  BY Parts
<1>2. CASE s.seen # None
  <2>1. Known \subseteq ToSet(OutstandingOf(s)) \cup Done
    BY <1>1, <1>2 DEF CopiesOK
  <2> QED
    BY <2>1 DEF EditsKept, EditsKeptBut, Outstanding, Known, Done
<1>3. CASE s.seen = None
  <2>1. Kept(reads, twice, Done)
    BY <1>1, <1>3 DEF StoredOK
  <2>2. CASE stored = None
    <3>1. Known \subseteq Done
      BY <2>1, <2>2 DEF Kept
    <3> QED
      BY <3>1 DEF EditsKept, EditsKeptBut, Known, Done
  <2>3. CASE stored # None
    <3>1. Known \subseteq ToSet(OutstandingOf(stored)) \cup Done
      BY <2>1, <2>3 DEF Kept
    <3> QED
      BY <2>3, <3>1 DEF EditsKept, EditsKeptBut, Known, Done
  <2> QED
    BY <2>2, <2>3
<1> QED
  BY <1>2, <1>3

\* No edit is lost but one made while a rebase waited for the newest draft: it
\* is stored, given up, reported as not applied, or still there to be saved,
\* whatever refusals, crashes, reloads, rebases and notifications there were.
THEOREM NoEditIsLost == EditorSpec => []EditsKept
BY EditorSound, EditsAreKept, PTL

LEMMA EditsStoredOnce == ASSUME IInv PROVE StoredOnce
BY Parts DEF OnceOK, StoredOnce

\* An edit is stored once, however often its save was sent, but for the edits
\* that recoverFromConflict put under a new request id though the server had them.
THEOREM EditsOnce == EditorSpec => []StoredOnce
BY EditorSound, EditsStoredOnce, PTL

LEMMA BaseIsSeen == ASSUME IInv PROVE SavesSawBase
<1>1. /\ WorkOK(s, twice) /\ HookOK(s, reads)
      /\ ~behind => ViewOK(s)
  BY Parts
<1>2. s.batch # None => s.batch.base = s.version /\ s.seen # None
  BY <1>1, Parts DEF WorkOK, HookOK
<1> QED
  BY <1>1, <1>2 DEF SavesSawBase, ViewOK

\* A save is based on a version only if the commits of others below it are on the
\* screen, unless the screen shows a read that was overtaken.
THEOREM BasesAreSeen == EditorSpec => []SavesSawBase
BY EditorSound, BaseIsSeen, PTL

LEMMA ConflictIsReal == ASSUME IInv PROVE NoSelfConflict
<1> SUFFICES ASSUME answer = "conflict", s.batch # None, s.batch.base > 0
             PROVE  \E k \in DOMAIN log : k >= s.batch.base /\ log[k].req # s.batch.req
  BY DEF NoSelfConflict
<1>1. /\ s.batch.base < Version /\ log[s.batch.base].req # s.batch.req
      /\ s.batch.base \in Nat
  BY Parts DEF AnswerOK, WorkOK, Batches
<1>2. DOMAIN log = 1 .. Len(log) /\ Len(log) \in Nat /\ Version = Len(log) + 1
  BY Parts, LogFacts
<1>3. s.batch.base \in DOMAIN log /\ s.batch.base >= s.batch.base
  BY <1>1, <1>2
<1> QED
  BY <1>1, <1>3

\* The server answers with a conflict only when a transaction that is not the
\* save itself took its version: a save that was stored and is sent again is
\* acknowledged (apply_editor_commands_tx_with).
THEOREM ConflictsAreReal == EditorSpec => []NoSelfConflict
BY EditorSound, ConflictIsReal, PTL

LEMMA NewsAreShown == ASSUME IInv PROVE ShowsNews
<1> SUFFICES ASSUME s.persist = "idle", reads = NoReads, ~behind
             PROVE  Shows(s.seen, heard) \/ s.deferred # None
  BY DEF ShowsNews
<1>1. HookOK(s, reads) /\ NewsOK(s, reads)
  BY Parts
<1>2. ~s.held
  BY <1>1 DEF HookOK
<1>3. reads.load = None
  BY DEF NoReads
<1> QED
  BY <1>1, <1>2, <1>3 DEF NewsOK

\* When all is quiet and nothing is unsaved, the screen shows every commit that
\* was heard of, or the page has put the news off (noteRemoteVersion).
THEOREM NewsShown == EditorSpec => []ShowsNews
BY EditorSound, NewsAreShown, PTL

-------------------------------------------------------------------------------
(* The end of a rebase *)

\* Starting the save loop, or joining it, leaves the rebase, its version and its
\* draft as they are; the loop that runs is only joined.
LEMMA PersistFields ==
    ASSUME NEW x, NEW asked, DOMAIN x = Fields, Persist(x, asked)
    PROVE  s'.auto = x.auto /\ s'.version = x.version /\ s'.seen = x.seen
<1>1. CASE x.persist = "idle" /\ OutstandingOf(x) # <<>>
  <2>1. PICK b, p : /\ b = IF x.batch # None THEN x.batch
                           ELSE [base |-> x.version, req |-> FreshId, edits |-> x.pending]
                    /\ p = IF x.batch = None THEN <<>> ELSE x.pending
    OBVIOUS
  <2>2. s' = [x EXCEPT !.batch = b, !.persist = "sent", !.saveState = "saving",
                       !.expected = b.base + 1, !.pending = p]
    BY <1>1, <2>1 DEF Persist, Loop, Checkpoint
  <2> QED
    BY <2>2, FieldNames
<1>2. CASE x.persist = "idle" /\ OutstandingOf(x) = <<>>
  <2>1. PICK k : s' = [x EXCEPT !.persist = "idle", !.tried = FALSE, !.saveState = "saved",
                                !.deferred = None, !.taken = k]
    BY <1>2 DEF Persist, Loop
  <2> QED
    BY <2>1, FieldNames
<1>3. CASE x.persist # "idle"
  BY <1>3 DEF Persist, Checkpoint
<1> QED
  BY <1>1, <1>2, <1>3

\* A draft that is adopted brings its version with it, and leaves the rebase.
LEMMA AdoptFields ==
    ASSUME NEW x, NEW read, NEW edits, NEW asked, DOMAIN x = Fields, Adopt(x, read, edits, asked)
    PROVE  s'.auto = x.auto /\ s'.version = read.version
<1>1. PICK n : Persist(Adopted(x, read, edits, n), asked)
  BY DEF Adopt
<1>2. PICK y : y = Adopted(x, read, edits, n)
  OBVIOUS
<1>3. DOMAIN y = Fields /\ y.auto = x.auto /\ y.version = read.version
  BY <1>2, FieldNames DEF Adopted
<1> QED
  BY <1>1, <1>2, <1>3, PersistFields

\* No step but the rebase's own ends it while the page is open.
LEMMA RebaseStays ==
    ASSUME IInv, Next, s.auto # None, ~AutoRebase, s'.seen # None
    PROVE  s'.auto = s.auto
<1>1. /\ DOMAIN s = Fields /\ s.persist = "rebase"
      /\ s.deferred = None \/ s.deferred \in Nat
  BY Parts DEF HookOK
<1>2. CASE s' = s
  BY <1>2
<1>3. CASE Recover \/ Discard \/ Refresh
  BY <1>1, <1>3, FieldNames DEF Recover, Discard, Refresh
<1>4. CASE Recovered
  <2>1. CASE \E read \in Answers("recover") :
                Adopt([s EXCEPT !.saveState = "saved", !.taken = <<>>], read, s.taken,
                      [reads EXCEPT !.recover = None])
    <3>1. PICK x : x = [s EXCEPT !.saveState = "saved", !.taken = <<>>]
      OBVIOUS
    <3>2. DOMAIN x = Fields /\ x.auto = s.auto
      BY <1>1, <3>1, FieldNames
    <3> QED
      BY <2>1, <3>1, <3>2, AdoptFields
  <2>2. CASE s' = [s EXCEPT !.saveState = "failed", !.taken = None]
    BY <1>1, <2>2, FieldNames
  <2> QED
    BY <1>4, <2>1, <2>2 DEF Recovered
<1>5. CASE Load
  <2>1. PICK read : IF stored # None THEN Replayed([s EXCEPT !.seen = read.seen], read)
                    ELSE Checkpoint([[s EXCEPT !.seen = read.seen] EXCEPT !.version = read.version])
    BY <1>5 DEF Load
  <2>2. CASE stored # None
    <3>1. PICK x : x = [[s EXCEPT !.seen = read.seen] EXCEPT
                          !.version = stored.version, !.pending = stored.pending,
                          !.batch = stored.batch, !.saveState = "failed"]
      OBVIOUS
    <3>2. DOMAIN x = Fields /\ x.auto = s.auto
      BY <1>1, <3>1, FieldNames
    <3> QED
      BY <2>1, <2>2, <3>1, <3>2, PersistFields DEF Replayed
  <2>3. CASE stored = None
    <3>1. s' = [[s EXCEPT !.seen = read.seen] EXCEPT !.version = read.version]
      BY <2>1, <2>3 DEF Checkpoint
    <3> QED
      BY <1>1, <3>1, FieldNames
  <2> QED
    BY <2>2, <2>3
<1>6. ASSUME NEW v \in Versions, Hear(v) PROVE s'.auto = s.auto
  <2>1. \/ s' = s \/ s' = [s EXCEPT !.deferred = None] \/ s' = [s EXCEPT !.held = TRUE]
        \/ \E i \in {0, v} : s' = Deferring(s, i)
    BY <1>6 DEF Hear, Reloading
  <2>2. v \in Nat /\ 0 \in Nat
    BY EditorAssumption DEF Versions
  <2>3. \A i \in {0, v} : Deferring(s, i).auto = s.auto
    <3> SUFFICES ASSUME NEW i \in {0, v} PROVE Deferring(s, i).auto = s.auto
      OBVIOUS
    <3>1. i \in Nat
      BY <2>2
    <3>2. \A f \in Fields \ {"deferred"} : Deferring(s, i)[f] = s[f]
      BY <1>1, <3>1, DeferringFacts
    <3> QED
      BY <3>2, FieldNames
  <2> QED
    BY <1>1, <2>1, <2>3, FieldNames
<1>7. CASE Type
  <2>1. PICK p : s' = [s EXCEPT !.pending = p, !.saveState = "saving"]
    BY <1>7 DEF Type, Checkpoint
  <2> QED
    BY <1>1, <2>1, FieldNames
<1>8. CASE LookAtLock
  <2>1. PICK x : x = [s EXCEPT !.sawLock = ~@] /\ (Persist(x, reads) \/ s' = x)
    BY <1>8 DEF LookAtLock
  <2>2. DOMAIN x = Fields /\ x.auto = s.auto
    BY <1>1, <2>1, FieldNames
  <2> QED
    BY <2>1, <2>2, PersistFields
<1>9. ~Saved /\ ~Refused /\ ~Flush
  BY <1>1 DEF Saved, Refused, Flush
<1>10. ~Crash
  BY MountedFields DEF Crash
<1>11. (\E by \in {"machine", "window"} : OtherWrite(by)) \/ SwitchLock \/ (\E q \in wire : Serve(q))
       => s' = s
  BY DEF OtherWrite, SwitchLock, Serve
<1> QED
  BY <1>2, <1>3, <1>4, <1>5, <1>6, <1>7, <1>8, <1>9, <1>10, <1>11 DEF Next

Decided ==
    s.auto # None /\ s'.auto = None /\ s'.seen # None /\ s'.saveState # "failed"
    => \A k \in s.auto.base .. s'.version - 1 : log[k].by = "machine"

LEMMA StepsDecide == IInv /\ [Next]_vars => [Decided]_vars
<1> SUFFICES ASSUME IInv, Next, s.auto # None, s'.auto = None, s'.seen # None,
                    s'.saveState # "failed"
             PROVE  \A k \in s.auto.base .. s'.version - 1 : log[k].by = "machine"
  BY DEF Decided
<1>1. AutoRebase
  BY RebaseStays
<1>2. DOMAIN s = Fields
  BY Parts DEF HookOK
<1>3. CASE \E read \in Answers("rebase") :
             /\ MachineOnly(s.auto.base, read)
             /\ Adopt([s EXCEPT !.persist = "idle", !.auto = None], read, s.auto.edits,
                      [reads EXCEPT !.rebase = None])
  <2>1. PICK read \in Answers("rebase") :
             /\ MachineOnly(s.auto.base, read)
             /\ Adopt([s EXCEPT !.persist = "idle", !.auto = None], read, s.auto.edits,
                      [reads EXCEPT !.rebase = None])
    BY <1>3
  <2>2. PICK x : x = [s EXCEPT !.persist = "idle", !.auto = None]
    OBVIOUS
  <2>3. DOMAIN x = Fields
    BY <1>2, <2>2
  <2>4. s'.version = read.version
    BY <2>1, <2>2, <2>3, AdoptFields
  <2> QED
    BY <2>1, <2>4 DEF MachineOnly
<1>4. CASE Checkpoint(Failed(s, "failed"))
  <2>1. PICK k : s' = [s EXCEPT !.persist = "idle", !.tried = FALSE, !.auto = None,
                                !.taken = k, !.saveState = "failed"]
    BY <1>4 DEF Checkpoint, Failed
  <2>2. s'.saveState = "failed"
    BY <1>2, <2>1, FieldNames
  <2> QED
    BY <2>2
<1> QED
  BY <1>1, <1>3, <1>4 DEF AutoRebase

\* The loop rebases by itself only over commits of machines, every one of which
\* the journal rows of the answer named (conflictWasMachineOnly).
THEOREM MachinesOnly == EditorSpec => PeopleDecide
<1>1. EditorSpec => [][Decided]_vars
  BY EditorSound, StepsDecide, PTL DEF EditorSpec
<1> QED
  BY <1>1 DEF PeopleDecide, Decided
===============================================================================
