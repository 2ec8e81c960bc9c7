--------------------------- MODULE RssFeedsProofs ---------------------------
(***************************************************************************)
(* Proofs about RssFeeds: no error is dropped and no request undone,       *)
(* whatever sessions overlap, for any number of processes and feeds.       *)
(* And no error is stored twice, whatever fails.                           *)
(***************************************************************************)
EXTENDS RssFeeds, SequenceTheorems, FiniteSetTheorems, TLAPS

AnySession ==
  [pc : {"none", "load", "work", "write"}, kind : {"update", "request", "start"},
   lst : List, err : Seq(Nat), loaded : Nat, modified : Time,
   errorsOnly : BOOLEAN, last : BOOLEAN, base : List, fresh : BOOLEAN]

Typing ==
  /\ now \in 0..MaxTime
  /\ file \in [lst : List, err : Seq(Nat), mtime : Time]
  /\ session \in [Proc -> AnySession]
  /\ raised \in Nat /\ want \in List
  /\ unseen \in BOOLEAN /\ clobber \in BOOLEAN /\ fault \in BOOLEAN

\* The file is not newer than the clock, and no session is newer than the file.
InOrder ==
  /\ file.mtime = Never \/ file.mtime <= now
  /\ \A p \in Proc :
       /\ session[p].modified # Never =>
            file.mtime # Never /\ session[p].modified <= file.mtime
       /\ ~Active(p) => session[p] = NoSession

\* A session that loads, or works with what it loaded.
Loads(s) == s.pc \in {"load", "work"}

\* What a session knows of the file f as long as nobody else has saved, when the
\* errors rep are reported and flt says whether there was a failure.
UpToDate(s, f, rep, flt) ==
  /\ s.kind = "update" => s.lst = f.lst
  /\ flt \/ ToSet(f.err) \subseteq ToSet(s.err) \cup (IF s.pc = "write" THEN rep ELSE {})

\* Only requests change the list, and only updates save without it.
Sound(s, f, rep, flt) ==
  /\ Loads(s) => s.loaded <= Len(s.err)
  /\ s.kind = "start" => s.lst = s.base
  /\ s.pc = "write" => (s.errorsOnly <=> s.kind = "update")
  /\ s.fresh => UpToDate(s, f, rep, flt)

UnsavedOf(s) == IF s.pc = "write" THEN ToSet(s.err) ELSE ToSet(NewErrors(s))

FeedsInv ==
  /\ Typing /\ InOrder
  /\ unseen \/ /\ \A p \in Proc : Active(p) => Sound(session[p], file, reported, fault)
               /\ ErrorsKept /\ ListKept

USE RssFeedsAssumption

-----------------------------------------------------------------------------

LEMMA ToSetIs == ASSUME NEW q \in Seq(Nat) PROVE ToSet(q) = {q[i] : i \in 1..Len(q)}
<1>1. DOMAIN q = 1..Len(q)
  OBVIOUS
<1> QED
  BY <1>1 DEF ToSet

LEMMA Elements ==
  ASSUME NEW s \in Seq(Nat), NEW t \in Seq(Nat)
  PROVE  s \o t \in Seq(Nat) /\ ToSet(s \o t) = ToSet(s) \cup ToSet(t)
<1>1. s \o t \in Seq(Nat) /\ Len(s \o t) = Len(s) + Len(t)
  OBVIOUS
<1>2. \A i \in 1..Len(s) : (s \o t)[i] = s[i]
  OBVIOUS
<1>3. \A i \in 1..Len(t) : (s \o t)[Len(s) + i] = t[i]
  OBVIOUS
<1>4. /\ ToSet(s) = {s[i] : i \in 1..Len(s)} /\ ToSet(t) = {t[i] : i \in 1..Len(t)}
      /\ ToSet(s \o t) = {(s \o t)[i] : i \in 1..Len(s \o t)}
  BY <1>1, ToSetIs
<1>5. ASSUME NEW i \in 1..Len(s \o t) PROVE (s \o t)[i] \in ToSet(s) \cup ToSet(t)
  <2>1. CASE i <= Len(s)
    BY <2>1, <1>2, <1>4
  <2>2. CASE i > Len(s)
    <3>1. i - Len(s) \in 1..Len(t) /\ i = Len(s) + (i - Len(s))
      BY <2>2, <1>1
    <3>2. (s \o t)[i] = t[i - Len(s)]
      BY <3>1, <1>3
    <3> QED
      BY <3>1, <3>2, <1>4
  <2> QED
    BY <2>1, <2>2
<1>6. ASSUME NEW i \in 1..Len(s) PROVE s[i] \in ToSet(s \o t)
  <2>1. i \in 1..Len(s \o t)
    BY <1>1
  <2> QED
    BY <2>1, <1>2, <1>4
<1>7. ASSUME NEW i \in 1..Len(t) PROVE t[i] \in ToSet(s \o t)
  <2>1. Len(s) + i \in 1..Len(s \o t)
    BY <1>1
  <2> QED
    BY <2>1, <1>3, <1>4
<1> QED
  BY <1>1, <1>4, <1>5, <1>6, <1>7

\* The end of a sequence from some place on, as NewErrors() takes it.
LEMMA SuffixIs ==
  ASSUME NEW q \in Seq(Nat), NEW k \in Nat
  PROVE  /\ SubSeq(q, k + 1, Len(q)) \in Seq(Nat)
         /\ ToSet(SubSeq(q, k + 1, Len(q))) = {q[i] : i \in k + 1 .. Len(q)}
<1> DEFINE r == SubSeq(q, k + 1, Len(q))
<1>1. k + 1 \in Int /\ Len(q) \in Int /\ Len(q) \in Nat /\ \A i \in k + 1 .. Len(q) : q[i] \in Nat
  OBVIOUS
<1>2. /\ r \in Seq(Nat)
      /\ Len(r) = IF k + 1 <= Len(q) THEN Len(q) - (k + 1) + 1 ELSE 0
      /\ \A i \in 1 .. Len(q) - (k + 1) + 1 : r[i] = q[k + 1 + i - 1]
  BY <1>1, SubSeqProperties
<1>3. ASSUME NEW i \in 1..Len(r) PROVE k + i \in k + 1 .. Len(q) /\ r[i] = q[k + i]
  <2>1. i \in 1 .. Len(q) - (k + 1) + 1 /\ k + 1 + i - 1 = k + i /\ k + i \in k + 1 .. Len(q)
    BY <1>1, <1>2
  <2> QED
    BY <2>1, <1>2
<1>4. ASSUME NEW i \in k + 1 .. Len(q) PROVE i - k \in 1..Len(r) /\ r[i - k] = q[i]
  <2>1. i - k \in 1..Len(r) /\ k + (i - k) = i
    BY <1>1, <1>2
  <2> QED
    BY <2>1, <1>3
<1>5. ToSet(r) = {r[i] : i \in 1..Len(r)}
  BY <1>2, ToSetIs
<1> HIDE DEF r
<1>6. ToSet(r) \subseteq {q[i] : i \in k + 1 .. Len(q)}
  BY <1>3, <1>5
<1>7. {q[i] : i \in k + 1 .. Len(q)} \subseteq ToSet(r)
  BY <1>4, <1>5
<1> QED
  BY <1>2, <1>6, <1>7 DEF r

LEMMA Suffix ==
  ASSUME NEW q \in Seq(Nat), NEW k \in Nat
  PROVE  /\ SubSeq(q, k + 1, Len(q)) \in Seq(Nat)
         /\ ToSet(SubSeq(q, k + 1, Len(q))) \subseteq ToSet(q)
<1>1. \A i \in k + 1 .. Len(q) : i \in 1..Len(q)
  OBVIOUS
<1> QED
  BY <1>1, SuffixIs, ToSetIs

LEMMA OneMore ==
  ASSUME NEW q \in Seq(Nat), NEW k \in Nat, k <= Len(q), NEW e \in Nat
  PROVE  LET a == Append(q, e)
         IN /\ a \in Seq(Nat) /\ Len(a) = Len(q) + 1
            /\ ToSet(a) = ToSet(q) \cup {e}
            /\ ToSet(SubSeq(a, k + 1, Len(a))) = ToSet(SubSeq(q, k + 1, Len(q))) \cup {e}
<1> DEFINE a == Append(q, e)
<1>1. /\ a \in Seq(Nat) /\ Len(a) = Len(q) + 1 /\ Len(q) \in Nat
      /\ \A i \in 1..Len(q) : a[i] = q[i]
      /\ a[Len(q) + 1] = e
  OBVIOUS
<1>2. 1..Len(a) = 1..Len(q) \cup {Len(a)} /\ k + 1 .. Len(a) = (k + 1 .. Len(q)) \cup {Len(a)}
  BY <1>1
<1>3. k + 1 .. Len(q) \subseteq 1..Len(q)
  OBVIOUS
<1>4. ToSet(a) = {a[i] : i \in 1..Len(a)} /\ ToSet(q) = {q[i] : i \in 1..Len(q)}
  BY <1>1, ToSetIs
<1>5. /\ ToSet(SubSeq(a, k + 1, Len(a))) = {a[i] : i \in k + 1 .. Len(a)}
      /\ ToSet(SubSeq(q, k + 1, Len(q))) = {q[i] : i \in k + 1 .. Len(q)}
  BY <1>1, SuffixIs
<1>6. ToSet(a) = ToSet(q) \cup {e}
  BY <1>1, <1>2, <1>4
<1>7. ToSet(SubSeq(a, k + 1, Len(a))) = ToSet(SubSeq(q, k + 1, Len(q))) \cup {e}
  BY <1>1, <1>2, <1>3, <1>5
<1> HIDE DEF a
<1> QED
  BY <1>1, <1>6, <1>7 DEF a

-----------------------------------------------------------------------------

LEMMA RecordFacts ==
  ASSUME NEW s \in AnySession
  PROVE  /\ NewErrors(s) \in Seq(Nat)
         /\ UnsavedOf(s) \subseteq ToSet(s.err)
<1>1. s.err \in Seq(Nat) /\ s.loaded \in Nat
  BY DEF AnySession
<1> QED
  BY <1>1, Suffix DEF NewErrors, UnsavedOf

LEMMA NoSessionFacts ==
  NoSession \in AnySession /\ UnsavedOf(NoSession) = {}
<1>1. << >> \in Seq(Nat) /\ ToSet(<< >>) = {}
  BY DEF ToSet
<1>2. NoFile.lst \in List /\ Never \in Time
  BY DEF NoFile, List, Never, Time
<1>3. NoSession \in AnySession /\ NoSession.err = << >>
  BY <1>1, <1>2 DEF NoSession, AnySession
<1> QED
  BY <1>1, <1>3, RecordFacts

\* A step of session p that leaves the file alone.
LEMMA LocalStep ==
  ASSUME FeedsInv, NEW p \in Proc, NEW t \in AnySession,
         session' = [session EXCEPT ![p] = t],
         UNCHANGED <<now, file, want, clobber>>,
         raised' \in Nat, unseen' \in BOOLEAN, fault' \in BOOLEAN,
         unseen => unseen', fault => fault', reported \subseteq reported',
         t.pc = "none" => t = NoSession,
         t.modified # Never => file.mtime # Never /\ t.modified <= file.mtime,
         unseen' \/ t.pc = "none" \/ Sound(t, file, reported', fault'),
         unseen' \/ fault' \/
           /\ 1..raised' \subseteq 1..raised \cup UnsavedOf(t)
           /\ UnsavedOf(session[p]) \subseteq reported' \cup UnsavedOf(t)
  PROVE  FeedsInv'
<1>1. session'[p] = t /\ \A q \in Proc \ {p} : session'[q] = session[q]
  BY DEF FeedsInv, Typing
<1>2. Typing'
  BY DEF FeedsInv, Typing
<1>3. InOrder'
  BY <1>1, NoSessionFacts DEF FeedsInv, InOrder, Active, NoSession
<1>4. ASSUME ~unseen', NEW q \in Proc, Active(q)'
      PROVE  Sound(session'[q], file', reported', fault')
  <2>1. CASE q = p
    BY <2>1, <1>1, <1>4 DEF Active
  <2>2. CASE q # p
    BY <2>2, <1>1, <1>4 DEF Active, FeedsInv, Sound, UpToDate
  <2> QED
    BY <2>1, <2>2
<1>5. ~unseen' => ErrorsKept'
  <2> SUFFICES ASSUME ~unseen', ~fault', NEW e \in 1..raised'
               PROVE  e \in reported' \cup ToSet(file.err) \cup UNION {UnsavedOf(session'[q]) : q \in Proc}
    BY DEF ErrorsKept, UnsavedOf, Unsaved
  <2>1. CASE e \in UnsavedOf(t)
    BY <2>1, <1>1
  <2>2. CASE e \in 1..raised
    <3>1. e \in reported \cup ToSet(file.err) \/ \E q \in Proc : e \in UnsavedOf(session[q])
      BY <2>2 DEF FeedsInv, ErrorsKept, UnsavedOf, Unsaved
    <3> QED
      BY <3>1, <1>1
  <2> QED
    BY <2>1, <2>2
<1>6. ~unseen' => ListKept'
  BY DEF FeedsInv, ListKept
<1> QED
  BY <1>2, <1>3, <1>4, <1>5, <1>6 DEF FeedsInv

\* saveState() as far as the merge, when the session in the state s had changed
\* nothing of what it loaded but by its request and its errors.
LEMMA SaveStep ==
  ASSUME FeedsInv, NEW p \in Proc, NEW s \in AnySession,
         NEW errorsOnly \in BOOLEAN, NEW last \in BOOLEAN, Save(p, s, errorsOnly, last),
         UNCHANGED <<now, file, raised, want, clobber, fault>>,
         reported \subseteq reported',
         Active(p), session[p].pc = "work",
         s = [session[p] EXCEPT !.lst = s.lst, !.err = s.err],
         s.kind # "request" => s.lst = session[p].lst,
         errorsOnly <=> s.kind = "update",
         ToSet(session[p].err) \subseteq ToSet(s.err) \cup reported',
         ToSet(NewErrors(session[p])) \subseteq ToSet(NewErrors(s)) \cup reported'
  PROVE  FeedsInv'
<1> DEFINE saved == [s EXCEPT !.pc = "write", !.errorsOnly = errorsOnly, !.last = last,
                              !.fresh = TRUE]
           t == IF ModifiedSince(s) THEN Merged(saved) ELSE saved
<1>1. /\ session' = [session EXCEPT ![p] = t]
      /\ unseen' = (unseen \/ (~s.fresh /\ s.modified \in {Never, file.mtime}))
  BY DEF Save
<1>2. /\ session[p] \in AnySession /\ file.err \in Seq(Nat) /\ file.lst \in List
      /\ file.mtime \in Time
  BY DEF FeedsInv, Typing
<1>3. /\ s.kind = session[p].kind /\ s.modified = session[p].modified
      /\ s.base = session[p].base /\ s.fresh = session[p].fresh
  BY <1>2 DEF AnySession
<1>4. /\ saved \in AnySession /\ saved.pc = "write" /\ saved.kind = s.kind
      /\ saved.lst = s.lst /\ saved.err = s.err /\ saved.loaded = s.loaded
      /\ saved.modified = s.modified /\ saved.base = s.base
      /\ saved.errorsOnly = errorsOnly
  BY DEF AnySession
<1>5. NewErrors(saved) = NewErrors(s) /\ NewErrors(s) \in Seq(Nat)
  BY <1>4, RecordFacts DEF NewErrors
<1>6. /\ file.err \o NewErrors(s) \in Seq(Nat)
      /\ ToSet(file.err \o NewErrors(s)) = ToSet(file.err) \cup ToSet(NewErrors(s))
  BY <1>2, <1>5, Elements
<1> HIDE DEF saved
<1>a. LET m == Merged(saved)
      IN /\ m \in AnySession /\ m.pc = "write" /\ m.kind = s.kind
         /\ m.modified = s.modified /\ m.base = s.base /\ m.errorsOnly = errorsOnly
         /\ m.lst = IF errorsOnly THEN file.lst ELSE s.lst
         /\ m.err = file.err \o NewErrors(s)
  BY <1>2, <1>4, <1>5, <1>6 DEF Merged, AnySession
<1>7. /\ t \in AnySession /\ t.pc = "write" /\ t.kind = s.kind
      /\ t.modified = s.modified /\ t.base = s.base /\ t.errorsOnly = errorsOnly
      /\ t.lst = IF ModifiedSince(s) /\ errorsOnly THEN file.lst ELSE s.lst
      /\ t.err = IF ModifiedSince(s) THEN file.err \o NewErrors(s) ELSE s.err
  BY <1>4, <1>a
<1> HIDE DEF t
<1>8. ASSUME ~unseen', ~ModifiedSince(s) PROVE s.fresh
  <2>1. CASE s.modified = Never
    BY <2>1, <1>1, <1>8
  <2>2. CASE s.modified # Never
    <3>1. s.modified <= file.mtime /\ ~(s.modified < file.mtime)
      BY <2>2, <1>3, <1>8 DEF ModifiedSince, FeedsInv, InOrder
    <3>2. s.modified \in Int /\ file.mtime \in Int
      BY <1>2 DEF AnySession, Time, Never
    <3>3. s.modified = file.mtime
      BY <3>1, <3>2
    <3> QED
      BY <3>3, <1>1, <1>8, Zenon
  <2> QED
    BY <2>1, <2>2
<1>9. ~unseen' => Sound(session[p], file, reported, fault)
  BY <1>1 DEF FeedsInv
<1>10. ToSet(NewErrors(s)) \subseteq ToSet(t.err)
  BY <1>6, <1>7, <1>4, RecordFacts, Suffix DEF NewErrors, AnySession
<1>11. ASSUME ~unseen' PROVE Sound(t, file, reported', fault')
  <2>1. t.kind = "start" => t.lst = t.base
    BY <1>3, <1>7, <1>9, <1>11 DEF Sound
  <2>2. t.kind = "update" => t.lst = file.lst
    BY <1>3, <1>7, <1>8, <1>9, <1>11 DEF Sound, UpToDate
  <2>3. fault \/ ToSet(file.err) \subseteq ToSet(t.err) \cup reported'
    BY <1>3, <1>6, <1>7, <1>8, <1>9, <1>11 DEF Sound, UpToDate
  <2> QED
    BY <2>1, <2>2, <2>3, <1>7 DEF Sound, UpToDate, Loads
<1>12. UnsavedOf(session[p]) \subseteq reported' \cup UnsavedOf(t)
  BY <1>7, <1>10 DEF UnsavedOf
<1>13. t.modified # Never => file.mtime # Never /\ t.modified <= file.mtime
  BY <1>3, <1>7 DEF FeedsInv, InOrder
<1>14. unseen' \in BOOLEAN /\ fault' \in BOOLEAN /\ raised' \in Nat
  BY <1>1 DEF FeedsInv, Typing
<1> QED
  BY <1>1, <1>7, <1>11, <1>12, <1>13, <1>14, LocalStep

LEMMA StartStep ==
  ASSUME FeedsInv, NEW p \in Proc, NEW kind \in {"update", "request", "start"}, Start(p, kind)
  PROVE  FeedsInv'
<1> DEFINE t == Loaded(kind)
<1>1. file.err \in Seq(Nat) /\ file.lst \in List /\ file.mtime \in Time /\ Len(file.err) \in Nat
  BY DEF FeedsInv, Typing
<1>2. /\ t \in AnySession /\ t.pc \in {"load", "work"} /\ t.lst = file.lst /\ t.base = file.lst
      /\ t.err = file.err /\ t.loaded = Len(file.err) /\ t.modified = Never
  BY <1>1 DEF Loaded, AnySession, Time, Never
<1>3. UnsavedOf(session[p]) = {}
  BY NoSessionFacts DEF FeedsInv, InOrder, Start
<1>4. Sound(t, file, reported, fault)
  BY <1>1, <1>2 DEF Sound, UpToDate, Loads
<1> HIDE DEF t
<1>5. session' = [session EXCEPT ![p] = t] /\ UNCHANGED <<now, file, ghosts>>
  BY DEF Start, t
<1>6. raised \in Nat /\ unseen \in BOOLEAN /\ fault \in BOOLEAN
  BY DEF FeedsInv, Typing
<1> QED
  BY <1>2, <1>3, <1>4, <1>5, <1>6, LocalStep DEF ghosts

\* What a session read stays; only its age may be that of a later file.
LEMMA StatStep ==
  ASSUME FeedsInv, NEW p \in Proc, Stat(p)
  PROVE  FeedsInv'
<1> DEFINE s == session[p]
           t == [s EXCEPT !.pc = "work", !.modified = file.mtime]
<1>1. s \in AnySession /\ file.mtime \in Time /\ s.pc = "load"
  BY DEF FeedsInv, Typing, Stat
<1>2. /\ t \in AnySession /\ t.pc = "work" /\ t.modified = file.mtime /\ t.kind = s.kind
      /\ t.lst = s.lst /\ t.base = s.base /\ t.err = s.err /\ t.loaded = s.loaded
      /\ t.fresh = s.fresh
  BY <1>1 DEF AnySession
<1>3. session' = [session EXCEPT ![p] = t] /\ UNCHANGED <<now, file, ghosts>>
  BY DEF Stat
<1>4. UnsavedOf(t) = UnsavedOf(s)
  BY <1>1, <1>2 DEF UnsavedOf, NewErrors
<1> HIDE DEF t
<1>5. unseen \/ Sound(t, file, reported, fault)
  <2> SUFFICES ASSUME ~unseen PROVE Sound(t, file, reported, fault)
    OBVIOUS
  <2>1. Sound(s, file, reported, fault)
    BY <1>1 DEF FeedsInv, Active
  <2> QED
    BY <2>1, <1>1, <1>2 DEF Sound, UpToDate, Loads
<1>6. t.modified # Never => file.mtime # Never /\ t.modified <= file.mtime
  BY <1>1, <1>2 DEF Time, Never
<1>7. raised \in Nat /\ unseen \in BOOLEAN /\ fault \in BOOLEAN
  BY DEF FeedsInv, Typing
<1> QED
  BY <1>2, <1>3, <1>4, <1>5, <1>6, <1>7, LocalStep DEF ghosts

LEMMA RaiseStep ==
  ASSUME FeedsInv, NEW p \in Proc, Raise(p)
  PROVE  FeedsInv'
<1> DEFINE s == session[p]
           e == raised + 1
           t == [s EXCEPT !.err = Append(s.err, e)]
<1>1. /\ s \in AnySession /\ s.err \in Seq(Nat) /\ s.loaded \in Nat
      /\ raised \in Nat /\ e \in Nat /\ unseen \in BOOLEAN /\ fault \in BOOLEAN
  BY DEF FeedsInv, Typing, AnySession
<1>2. /\ s.pc = "work" /\ Active(p) /\ raised' = e
      /\ session' = [session EXCEPT ![p] = t]
      /\ UNCHANGED <<now, file, reported, want, unseen, clobber, fault>>
  BY DEF Raise, Active
<1>3. t.err = Append(s.err, e) /\ Append(s.err, e) \in Seq(Nat)
  BY <1>1
<1>4. /\ t \in AnySession /\ t.pc = s.pc /\ t.kind = s.kind /\ t.lst = s.lst
      /\ t.loaded = s.loaded /\ t.base = s.base /\ t.fresh = s.fresh
      /\ t.modified = s.modified
  BY <1>1, <1>3 DEF AnySession
<1> HIDE DEF t
<1>5. ASSUME ~unseen
      PROVE  /\ Len(t.err) = Len(s.err) + 1
             /\ ToSet(t.err) = ToSet(s.err) \cup {e}
             /\ ToSet(NewErrors(t)) = ToSet(NewErrors(s)) \cup {e}
  <2> DEFINE a == Append(s.err, e)
  <2>1. s.loaded <= Len(s.err)
    BY <1>2, <1>5 DEF FeedsInv, Sound, Loads
  <2>2. /\ Len(a) = Len(s.err) + 1 /\ ToSet(a) = ToSet(s.err) \cup {e}
        /\ ToSet(SubSeq(a, s.loaded + 1, Len(a))) =
             ToSet(SubSeq(s.err, s.loaded + 1, Len(s.err))) \cup {e}
    <3> HIDE DEF s, e
    <3> QED
      BY <2>1, <1>1, OneMore
  <2>3. t.err = a /\ t.loaded = s.loaded
    BY <1>3, <1>4
  <2> HIDE DEF a, s, e
  <2> QED
    BY <2>2, <2>3 DEF NewErrors
<1>6. ASSUME ~unseen PROVE Sound(t, file, reported, fault)
  <2>1. Sound(s, file, reported, fault)
    BY <1>2, <1>6 DEF FeedsInv
  <2>2. s.loaded <= Len(s.err) + 1
    BY <2>1, <1>1, <1>2 DEF Sound, Loads
  <2> QED
    BY <2>1, <2>2, <1>2, <1>4, <1>5, <1>6 DEF Sound, UpToDate
<1>7. 1..e = 1..raised \cup {e}
  BY <1>1
<1>8. ~unseen => /\ 1..raised' \subseteq 1..raised \cup UnsavedOf(t)
                 /\ UnsavedOf(s) \subseteq reported' \cup UnsavedOf(t)
  BY <1>2, <1>4, <1>5, <1>7 DEF UnsavedOf
<1>9. t.modified # Never => file.mtime # Never /\ t.modified <= file.mtime
  BY <1>4 DEF FeedsInv, InOrder
<1> QED
  BY <1>1, <1>2, <1>4, <1>6, <1>8, <1>9, LocalStep

LEMMA EditStep ==
  ASSUME FeedsInv, NEW p \in Proc, NEW lst \in List, Edit(p, lst)
  PROVE  FeedsInv'
<1> DEFINE s == [session[p] EXCEPT !.lst = lst]
<1>1. session[p] \in AnySession
  BY DEF FeedsInv, Typing
<1>2. /\ s \in AnySession /\ s.kind = "request" /\ s.err = session[p].err
      /\ s.loaded = session[p].loaded
      /\ s = [session[p] EXCEPT !.lst = s.lst, !.err = s.err]
  BY <1>1 DEF AnySession, Edit
<1>3. NewErrors(s) = NewErrors(session[p])
  BY <1>2 DEF NewErrors
<1>4. /\ Save(p, s, FALSE, FALSE) /\ session[p].pc = "work" /\ Active(p)
      /\ UNCHANGED <<now, file, raised, reported, want, clobber, fault>>
  BY DEF Edit, Active
<1> HIDE DEF s
<1> QED
  BY <1>2, <1>3, <1>4, SaveStep

\* The ends of a session that saves what it has.
LEMMA PlainSave ==
  ASSUME FeedsInv, NEW p \in Proc, session[p].pc = "work", NEW errorsOnly \in BOOLEAN,
         Save(p, session[p], errorsOnly, TRUE), errorsOnly <=> session[p].kind = "update",
         UNCHANGED <<now, file, raised, reported, want, clobber, fault>>
  PROVE  FeedsInv'
<1> DEFINE s == session[p]
<1>1. s \in AnySession
  BY DEF FeedsInv, Typing
<1>2. s = [session[p] EXCEPT !.lst = s.lst, !.err = s.err]
  BY <1>1 DEF AnySession
<1>3. Active(p)
  BY DEF Active
<1> QED
  BY <1>1, <1>2, <1>3, SaveStep

\* The end of a session whose errors are all saved or reported.
LEMMA QuietEnd ==
  ASSUME FeedsInv, NEW p \in Proc, session' = [session EXCEPT ![p] = NoSession],
         UNCHANGED <<now, file, raised, want, unseen, clobber, fault>>,
         reported \subseteq reported',
         unseen \/ UnsavedOf(session[p]) \subseteq reported'
  PROVE  FeedsInv'
<1>1. raised \in Nat /\ unseen \in BOOLEAN /\ fault \in BOOLEAN
  BY DEF FeedsInv, Typing
<1>2. NoSession.pc = "none" /\ NoSession.modified = Never
  BY DEF NoSession
<1> QED
  BY <1>1, <1>2, NoSessionFacts, LocalStep

LEMMA ReportStep ==
  ASSUME FeedsInv, NEW p \in Proc, Report(p)
  PROVE  FeedsInv'
<1> DEFINE s == [session[p] EXCEPT !.err = << >>]
<1>1. session[p] \in AnySession /\ session[p].err \in Seq(Nat)
  BY DEF FeedsInv, Typing, AnySession
<1>2. /\ session[p].pc = "work" /\ session[p].kind = "request"
      /\ reported' = reported \cup ToSet(session[p].err)
      /\ End(p, session[p].err # << >>, s)
      /\ UNCHANGED <<now, file, raised, want, clobber, fault>>
  BY DEF Report
<1>3. /\ s \in AnySession /\ s.kind = "request" /\ s.lst = session[p].lst
      /\ s = [session[p] EXCEPT !.lst = s.lst, !.err = s.err]
  <2>1. << >> \in Seq(Nat)
    OBVIOUS
  <2> QED
    BY <1>1, <1>2, <2>1 DEF AnySession
<1>4. /\ ToSet(session[p].err) \subseteq reported'
      /\ ToSet(NewErrors(session[p])) \subseteq reported'
  BY <1>1, <1>2, Suffix DEF NewErrors, AnySession
<1> HIDE DEF s
<1>5. CASE session[p].err # << >>
  BY <1>2, <1>3, <1>4, <1>5, SaveStep DEF End, Active
<1>6. CASE session[p].err = << >>
  <2>1. UnsavedOf(session[p]) \subseteq reported'
    BY <1>1, <1>4, RecordFacts
  <2> QED
    BY <2>1, <1>2, <1>6, QuietEnd DEF End
<1> QED
  BY <1>5, <1>6

LEMMA AbortedStep ==
  ASSUME FeedsInv, NEW p \in Proc, Aborted(p)
  PROVE  FeedsInv'
<1>1. /\ session[p].pc = "work" /\ session[p].kind = "request"
      /\ End(p, NewErrors(session[p]) # << >>, session[p])
      /\ UNCHANGED <<now, file, raised, reported, want, clobber, fault>>
  BY DEF Aborted
<1>2. CASE NewErrors(session[p]) # << >>
  BY <1>1, <1>2, PlainSave DEF End
<1>3. CASE NewErrors(session[p]) = << >>
  <2>1. UnsavedOf(session[p]) = {}
    BY <1>1, <1>3 DEF UnsavedOf, ToSet
  <2> QED
    BY <2>1, <1>1, <1>3, QuietEnd DEF End
<1> QED
  BY <1>2, <1>3

\* A session after its save: its record, and that it owes nothing.
LEMMA SavedFacts ==
  ASSUME Typing, NEW p \in Proc
  PROVE  LET s == session[p]
             t == IF s.last THEN NoSession ELSE Saved(s)
         IN /\ t \in AnySession /\ t.pc \in {"none", "work"} /\ UnsavedOf(t) = {}
            /\ ~s.last => /\ t.pc = "work" /\ t.kind = s.kind /\ t.lst = s.lst
                          /\ t.err = s.err /\ t.base = s.lst /\ t.loaded = Len(s.err)
                          /\ t.modified = s.modified /\ t.fresh = s.fresh
<1> DEFINE s == session[p]
<1>1. s \in AnySession /\ s.err \in Seq(Nat) /\ Len(s.err) \in Nat /\ s.lst \in List
  BY DEF Typing, AnySession
<1>2. CASE s.last
  BY <1>2, NoSessionFacts DEF NoSession
<1>3. CASE ~s.last
  <2> DEFINE t == Saved(s)
  <2>1. /\ t \in AnySession /\ t.pc = "work" /\ t.kind = s.kind /\ t.lst = s.lst
        /\ t.err = s.err /\ t.base = s.lst /\ t.loaded = Len(s.err)
        /\ t.modified = s.modified /\ t.fresh = s.fresh
    BY <1>1, <1>3 DEF Saved, AnySession
  <2> HIDE DEF t
  <2>2. Len(s.err) + 1 .. Len(s.err) = {}
    BY <1>1
  <2>3. UnsavedOf(t) = {}
    BY <1>1, <2>1, <2>2, SuffixIs DEF UnsavedOf, NewErrors
  <2> QED
    BY <2>1, <2>3, <1>3 DEF t
<1> QED
  BY <1>2, <1>3

LEMMA WriteStep ==
  ASSUME FeedsInv, NEW p \in Proc, Write(p)
  PROVE  FeedsInv'
<1> DEFINE s == session[p]
           t == IF s.last THEN NoSession ELSE Saved(s)
<1>1. /\ s \in AnySession /\ s.err \in Seq(Nat) /\ s.lst \in List /\ s.fresh \in BOOLEAN
      /\ now \in 0..MaxTime /\ now \in Time /\ now # Never
  BY DEF FeedsInv, Typing, AnySession, Time, Never
<1>2. /\ s.pc = "write" /\ Active(p)
      /\ file' = [lst |-> s.lst, err |-> s.err, mtime |-> now]
      /\ session' = [q \in Proc |->
           IF q # p THEN [session[q] EXCEPT !.fresh = ~Active(q)] ELSE t]
      /\ want' = IF s.kind = "request" THEN s.lst ELSE want
      /\ clobber' = (clobber \/ (~s.errorsOnly /\ s.base # file.lst))
      /\ unseen' = (unseen \/ ~s.fresh)
      /\ UNCHANGED <<now, raised, reported, fault>>
  BY DEF Write, Active
<1>3. /\ t \in AnySession /\ t.pc \in {"none", "work"} /\ UnsavedOf(t) = {}
      /\ ~s.last => /\ t.pc = "work" /\ t.kind = s.kind /\ t.lst = s.lst
                    /\ t.err = s.err /\ t.base = s.lst /\ t.loaded = Len(s.err)
                    /\ t.modified = s.modified /\ t.fresh = s.fresh
      /\ s.last => t = NoSession
  BY SavedFacts DEF FeedsInv
<1>4. file'.lst = s.lst /\ file'.err = s.err /\ file'.mtime = now
  BY <1>2
<1>5. session'[p] = t
  BY <1>2
<1>6. ASSUME NEW q \in Proc \ {p}
      PROVE  /\ session'[q] \in AnySession
             /\ session'[q] = [session[q] EXCEPT !.fresh = ~Active(q)]
             /\ session'[q].pc = session[q].pc /\ session'[q].kind = session[q].kind
             /\ session'[q].lst = session[q].lst /\ session'[q].err = session[q].err
             /\ session'[q].loaded = session[q].loaded /\ session'[q].base = session[q].base
             /\ session'[q].modified = session[q].modified
             /\ session'[q].errorsOnly = session[q].errorsOnly
             /\ session'[q].fresh = ~Active(q)
  <2>1. session[q] \in AnySession /\ Active(q) \in BOOLEAN
    BY DEF FeedsInv, Typing, Active
  <2>2. session'[q] = [session[q] EXCEPT !.fresh = ~Active(q)]
    BY <1>2
  <2> QED
    BY <2>1, <2>2 DEF AnySession
<1> HIDE DEF t
<1>7. Typing'
  <2>1. session' \in [Proc -> AnySession]
    BY <1>2, <1>3, <1>5, <1>6
  <2> QED
    BY <2>1, <1>1, <1>2 DEF FeedsInv, Typing
<1>8. InOrder'
  <2>1. file'.mtime # Never /\ file'.mtime <= now'
    BY <1>1, <1>2, <1>4
  <2>2. ASSUME NEW q \in Proc, session[q].modified # Never PROVE session[q].modified <= now
    <3>1. /\ file.mtime # Never /\ session[q].modified <= file.mtime
          /\ file.mtime <= now
      BY <2>2 DEF FeedsInv, InOrder
    <3>2. session[q].modified \in Int /\ file.mtime \in Int /\ now \in Int
      BY DEF FeedsInv, Typing, AnySession, Time, Never
    <3> QED
      BY <3>1, <3>2
  <2>3. ASSUME NEW q \in Proc, session'[q].modified # Never PROVE session'[q].modified <= now
    <3>1. NoSession.modified = Never
      BY DEF NoSession
    <3>2. session'[q].modified = session[q].modified
      BY <3>1, <2>3, <1>3, <1>5, <1>6
    <3> QED
      BY <3>2, <2>2, <2>3
  <2>4. ASSUME NEW q \in Proc, session'[q].pc = "none" PROVE session'[q] = NoSession
    <3>1. CASE q = p
      BY <3>1, <2>4, <1>3, <1>5
    <3>2. CASE q # p
      <4>1. ~Active(q) /\ session[q] = NoSession
        BY <3>2, <2>4, <1>6 DEF FeedsInv, InOrder, Active
      <4>2. session'[q] = [NoSession EXCEPT !.fresh = TRUE]
        BY <3>2, <4>1, <1>6
      <4> QED
        BY <4>2 DEF NoSession
    <3> QED
      BY <3>1, <3>2
  <2> QED
    BY <2>1, <2>3, <2>4, <1>1, <1>2, <1>4 DEF InOrder, Active
<1>9. ASSUME ~unseen'
      PROVE  /\ ~unseen /\ s.fresh /\ Sound(s, file, reported, fault) /\ ErrorsKept /\ ListKept
             /\ \A q \in Proc : Active(q) => Sound(session[q], file, reported, fault)
  BY <1>1, <1>2, <1>9 DEF FeedsInv
<1>10. ASSUME ~unseen', NEW q \in Proc, Active(q)'
       PROVE  Sound(session'[q], file', reported', fault')
  <2>1. CASE q = p
    <3>1. t.pc # "none" /\ ~s.last
      BY <2>1, <1>3, <1>5, <1>10 DEF Active, NoSession
    <3>2. Len(s.err) <= Len(s.err)
      BY <1>1
    <3> QED
      BY <2>1, <3>1, <3>2, <1>3, <1>4, <1>5 DEF Sound, UpToDate
  <2>2. CASE q # p
    <3>1. Active(q) /\ ~session'[q].fresh
      BY <2>2, <1>6, <1>10 DEF Active
    <3>2. Sound(session[q], file, reported, fault)
      BY <3>1, <1>9, <1>10
    <3> QED
      BY <2>2, <3>1, <3>2, <1>6 DEF Sound, Loads
  <2> QED
    BY <2>1, <2>2
<1>11. ASSUME ~unseen' PROVE ErrorsKept'
  <2> SUFFICES ASSUME ~fault, NEW e \in 1..raised
               PROVE  e \in reported \cup ToSet(file'.err) \cup UNION {UnsavedOf(session'[q]) : q \in Proc}
    BY <1>2 DEF ErrorsKept, UnsavedOf, Unsaved
  <2>1. ToSet(file.err) \subseteq ToSet(file'.err) \cup reported
    BY <1>2, <1>4, <1>9, <1>11 DEF Sound, UpToDate
  <2>2. UnsavedOf(s) \subseteq ToSet(file'.err)
    BY <1>1, <1>4, RecordFacts
  <2>3. \A q \in Proc \ {p} : UnsavedOf(session'[q]) = UnsavedOf(session[q])
    BY <1>6 DEF UnsavedOf, NewErrors
  <2>4. e \in reported \cup ToSet(file.err) \/ \E q \in Proc : e \in UnsavedOf(session[q])
    BY <1>9, <1>11 DEF ErrorsKept, UnsavedOf, Unsaved
  <2> QED
    BY <2>1, <2>2, <2>3, <2>4
<1>12. ASSUME ~unseen' PROVE ListKept'
  <2> SUFFICES ASSUME ~clobber' PROVE s.lst = want'
    BY <1>4 DEF ListKept
  <2>1. ~clobber /\ file.lst = want
    BY <1>2, <1>9, <1>12 DEF ListKept
  <2>2. s.kind \in {"update", "request", "start"}
    BY <1>1 DEF AnySession
  <2>3. CASE s.kind = "request"
    BY <2>3, <1>2
  <2>4. CASE s.kind = "update"
    BY <2>1, <2>4, <1>2, <1>9, <1>12 DEF Sound, UpToDate
  <2>5. CASE s.kind = "start"
    BY <2>1, <2>5, <1>2, <1>9, <1>12 DEF Sound
  <2> QED
    BY <2>2, <2>3, <2>4, <2>5
<1> QED
  BY <1>7, <1>8, <1>10, <1>11, <1>12 DEF FeedsInv

LEMMA WriteFailsStep ==
  ASSUME FeedsInv, NEW p \in Proc, WriteFails(p)
  PROVE  FeedsInv'
<1> DEFINE s == session[p]
           t == IF s.last THEN NoSession ELSE Saved(s)
<1>1. /\ s.pc = "write" /\ Active(p) /\ session' = [session EXCEPT ![p] = t]
      /\ fault' = TRUE /\ UNCHANGED <<now, file, raised, reported, want, unseen, clobber>>
  BY DEF WriteFails, Active
<1>2. /\ s \in AnySession /\ s.err \in Seq(Nat) /\ Len(s.err) \in Nat
      /\ raised \in Nat /\ unseen \in BOOLEAN
  BY DEF FeedsInv, Typing, AnySession
<1>3. /\ t \in AnySession /\ t.pc \in {"none", "work"}
      /\ ~s.last => /\ t.pc = "work" /\ t.kind = s.kind /\ t.lst = s.lst
                    /\ t.err = s.err /\ t.base = s.lst /\ t.loaded = Len(s.err)
                    /\ t.modified = s.modified /\ t.fresh = s.fresh
      /\ s.last => t = NoSession
  BY SavedFacts DEF FeedsInv
<1> HIDE DEF t
<1>4. t.pc = "none" => t = NoSession
  BY <1>3
<1>5. t.modified # Never => file.mtime # Never /\ t.modified <= file.mtime
  BY <1>3 DEF FeedsInv, InOrder, NoSession
<1>6. unseen' \/ t.pc = "none" \/ Sound(t, file, reported', fault')
  <2> SUFFICES ASSUME ~unseen, t.pc # "none" PROVE Sound(t, file, reported', fault')
    BY <1>1
  <2>1. ~s.last
    BY <1>3 DEF NoSession
  <2>2. Sound(s, file, reported, fault)
    BY <1>1 DEF FeedsInv
  <2>3. Len(s.err) <= Len(s.err)
    BY <1>2
  <2> QED
    BY <2>1, <2>2, <2>3, <1>1, <1>3 DEF Sound, UpToDate
<1> QED
  BY <1>1, <1>2, <1>3, <1>4, <1>5, <1>6, LocalStep

LEMMA CrashStep ==
  ASSUME FeedsInv, NEW p \in Proc, Crash(p)
  PROVE  FeedsInv'
<1>1. raised \in Nat /\ unseen \in BOOLEAN
  BY DEF FeedsInv, Typing
<1>2. NoSession.pc = "none" /\ NoSession.modified = Never
  BY DEF NoSession
<1> QED
  BY <1>1, <1>2, NoSessionFacts, LocalStep DEF Crash

-----------------------------------------------------------------------------

LEMMA FeedsInitially == Init => FeedsInv
<1> SUFFICES ASSUME Init PROVE FeedsInv
  OBVIOUS
<1>1. << >> \in Seq(Nat) /\ NoFile.lst \in List /\ Never \in Time
  BY DEF NoFile, List, Never, Time
<1>2. /\ file = NoFile /\ file.lst = NoFile.lst /\ file.err = << >> /\ file.mtime = Never
      /\ file \in [lst : List, err : Seq(Nat), mtime : Time]
  BY <1>1 DEF Init, NoFile
<1>3. \A p \in Proc : session[p] = NoSession
  BY DEF Init
<1>4. Typing
  <2>1. session \in [Proc -> AnySession]
    BY NoSessionFacts DEF Init
  <2>2. now \in 0..MaxTime /\ raised \in Nat /\ want \in List
    BY <1>1 DEF Init
  <2>3. unseen \in BOOLEAN /\ clobber \in BOOLEAN /\ fault \in BOOLEAN
    BY DEF Init
  <2> QED
    BY <1>2, <2>1, <2>2, <2>3 DEF Typing
<1>5. InOrder
  <2>1. NoSession.modified = Never
    BY DEF NoSession
  <2> QED
    BY <1>2, <1>3, <2>1 DEF InOrder
<1>6. ErrorsKept
  <2>1. 1..raised = {}
    BY DEF Init
  <2> QED
    BY <2>1 DEF ErrorsKept
<1>7. ListKept
  BY <1>2 DEF Init, ListKept
<1>8. \A p \in Proc : ~Active(p)
  BY <1>3 DEF Active, NoSession
<1> QED
  BY <1>4, <1>5, <1>6, <1>7, <1>8 DEF FeedsInv

LEMMA FeedsPreserved == FeedsInv /\ [Next]_vars => FeedsInv'
<1> SUFFICES ASSUME FeedsInv, [Next]_vars PROVE FeedsInv'
  OBVIOUS
<1>1. ASSUME NEW p \in Proc, NEW kind \in {"update", "request", "start"}, Start(p, kind)
      PROVE  FeedsInv'
  BY <1>1, StartStep
<1>2. ASSUME NEW p \in Proc, Raise(p) \/ Stat(p) PROVE FeedsInv'
  BY <1>2, RaiseStep, StatStep
<1>3. ASSUME NEW p \in Proc, NEW lst \in List, Edit(p, lst) PROVE FeedsInv'
  BY <1>3, EditStep
<1>4. ASSUME NEW p \in Proc, EndUpdate(p) PROVE FeedsInv'
  BY <1>4, PlainSave DEF EndUpdate
<1>5. ASSUME NEW p \in Proc, EndStart(p) PROVE FeedsInv'
  BY <1>5, PlainSave DEF EndStart
<1>6. ASSUME NEW p \in Proc, Report(p) PROVE FeedsInv'
  BY <1>6, ReportStep
<1>7. ASSUME NEW p \in Proc, Aborted(p) PROVE FeedsInv'
  BY <1>7, AbortedStep
<1>8. ASSUME NEW p \in Proc, Write(p) PROVE FeedsInv'
  BY <1>8, WriteStep
<1>9. ASSUME NEW p \in Proc, WriteFails(p) PROVE FeedsInv'
  BY <1>9, WriteFailsStep
<1>10. ASSUME NEW p \in Proc, Crash(p) PROVE FeedsInv'
  BY <1>10, CrashStep
<1>11. CASE Tick
  <2>1. UNCHANGED <<file, session, raised, reported, want, unseen, clobber, fault>> /\ now < MaxTime /\ now' = now + 1
    BY <1>11 DEF Tick, ghosts
  <2>2. Typing'
    BY <2>1 DEF FeedsInv, Typing
  <2>3. file.mtime = Never \/ file.mtime <= now + 1
    BY DEF FeedsInv, InOrder, Typing, Time, Never
  <2>4. InOrder'
    BY <2>1, <2>3 DEF FeedsInv, InOrder, Active
  <2> QED
    BY <2>1, <2>2, <2>4 DEF FeedsInv, ErrorsKept, ListKept, Unsaved, NewErrors, Sound, UpToDate, Active
<1>12. CASE UNCHANGED vars
  BY <1>12 DEF vars, ghosts, FeedsInv, Typing, InOrder, ErrorsKept, ListKept, Unsaved, NewErrors,
               Sound, UpToDate, Active
<1> QED
  BY <1>1, <1>2, <1>3, <1>4, <1>5, <1>6, <1>7, <1>8, <1>9, <1>10, <1>11, <1>12 DEF Next

\* No error is dropped before the user got it.
THEOREM FeedsKeepErrors == Spec => []ErrorsKept
<1>1. FeedsInv => ErrorsKept
  BY DEF FeedsInv, ErrorsKept
<1> QED
  BY <1>1, FeedsInitially, FeedsPreserved, PTL DEF Spec

\* No request is undone by a session that overlaps with it, but for one that is
\* itself a request or the start of the plugin.
THEOREM FeedsKeepList == Spec => []ListKept
<1>1. FeedsInv => ListKept
  BY DEF FeedsInv, ListKept
<1> QED
  BY <1>1, FeedsInitially, FeedsPreserved, PTL DEF Spec
-----------------------------------------------------------------------------
(***************************************************************************)
(* Types, and that no error is stored twice.  What is inductive is that    *)
(* the errors a session has added since it last saved are its own: neither *)
(* the file nor another session has them, so that a merge, which puts them *)
(* behind those of the file, adds none a second time.  It holds whatever   *)
(* fails.  The bound on the counters is then that of the numbers given.    *)
(***************************************************************************)

Distinct(q) == \A i, j \in 1..Len(q) : q[i] = q[j] => i = j

New(s) == ToSet(NewErrors(s))

\* What a session may hold of the numbers given so far.
Numbered(s, n) == ToSet(s.err) \subseteq 1..n /\ Distinct(s.err) /\ s.loaded <= MaxErr

OnceInv ==
  /\ raised <= MaxErr /\ reported \subseteq 1..raised
  /\ ToSet(file.err) \subseteq 1..raised /\ Distinct(file.err)
  /\ \A p \in Proc : Numbered(session[p], raised)
  /\ \A p \in Proc : Loads(session[p]) =>
       /\ session[p].loaded <= Len(session[p].err)
       /\ New(session[p]) \cap ToSet(file.err) = {}
       /\ \A q \in Proc \ {p} : New(session[p]) \cap ToSet(session[q].err) = {}

LEMMA DistinctConcat ==
  ASSUME NEW s \in Seq(Nat), NEW t \in Seq(Nat), Distinct(s), Distinct(t),
         ToSet(s) \cap ToSet(t) = {}
  PROVE  Distinct(s \o t)
<1>1. /\ Len(s \o t) = Len(s) + Len(t) /\ Len(s) \in Nat /\ Len(t) \in Nat
      /\ \A i \in 1..Len(s) : (s \o t)[i] = s[i]
  OBVIOUS
<1>2. \A i \in 1..Len(t) : (s \o t)[Len(s) + i] = t[i]
  OBVIOUS
<1>3. ASSUME NEW i \in 1..Len(s \o t), ~(i \in 1..Len(s))
      PROVE  i - Len(s) \in 1..Len(t) /\ (s \o t)[i] = t[i - Len(s)]
  <2>1. i - Len(s) \in 1..Len(t) /\ Len(s) + (i - Len(s)) = i
    BY <1>1, <1>3
  <2> QED
    BY <2>1, <1>2
<1>4. \A i \in 1..Len(s), j \in 1..Len(t) : s[i] # t[j]
  BY ToSetIs
<1> SUFFICES ASSUME NEW i \in 1..Len(s \o t), NEW j \in 1..Len(s \o t),
                    (s \o t)[i] = (s \o t)[j]
             PROVE  i = j
  BY DEF Distinct
<1> DEFINE u == s \o t
<1> HIDE DEF u
<1>5. CASE i \in 1..Len(s) /\ j \in 1..Len(s)
  BY <1>1, <1>5 DEF Distinct
<1>6. CASE ~(i \in 1..Len(s)) /\ ~(j \in 1..Len(s))
  <2>1. i - Len(s) = j - Len(s)
    BY <1>3, <1>6 DEF Distinct
  <2> QED
    BY <2>1, <1>1
<1>7. CASE i \in 1..Len(s) /\ ~(j \in 1..Len(s))
  BY <1>1, <1>3, <1>4, <1>7
<1>8. CASE ~(i \in 1..Len(s)) /\ j \in 1..Len(s)
  BY <1>1, <1>3, <1>4, <1>8
<1> QED
  BY <1>5, <1>6, <1>7, <1>8

LEMMA DistinctSuffix ==
  ASSUME NEW q \in Seq(Nat), NEW k \in Nat, Distinct(q)
  PROVE  Distinct(SubSeq(q, k + 1, Len(q)))
<1> DEFINE r == SubSeq(q, k + 1, Len(q))
<1>1. k + 1 \in Int /\ Len(q) \in Int /\ Len(q) \in Nat /\ \A i \in k + 1 .. Len(q) : q[i] \in Nat
  OBVIOUS
<1>2. /\ Len(r) = IF k + 1 <= Len(q) THEN Len(q) - (k + 1) + 1 ELSE 0
      /\ \A i \in 1 .. Len(q) - (k + 1) + 1 : r[i] = q[k + 1 + i - 1]
  BY <1>1, SubSeqProperties
<1>3. ASSUME NEW i \in 1..Len(r) PROVE k + i \in 1..Len(q) /\ r[i] = q[k + i]
  <2>1. i \in 1 .. Len(q) - (k + 1) + 1 /\ k + 1 + i - 1 = k + i /\ k + i \in 1..Len(q)
    BY <1>1, <1>2
  <2> QED
    BY <2>1, <1>2
<1> HIDE DEF r
<1> SUFFICES ASSUME NEW i \in 1..Len(r), NEW j \in 1..Len(r), r[i] = r[j] PROVE i = j
  BY DEF Distinct, r
<1>4. k + i = k + j
  BY <1>3 DEF Distinct
<1> QED
  BY <1>4, <1>2

LEMMA DistinctAppend ==
  ASSUME NEW q \in Seq(Nat), NEW e \in Nat, Distinct(q), e \notin ToSet(q)
  PROVE  Distinct(Append(q, e))
<1>1. /\ Len(Append(q, e)) = Len(q) + 1 /\ Len(q) \in Nat
      /\ \A i \in 1..Len(q) : Append(q, e)[i] = q[i]
      /\ Append(q, e)[Len(q) + 1] = e
  OBVIOUS
<1>2. \A i \in 1..Len(q) : q[i] # e
  BY ToSetIs
<1> SUFFICES ASSUME NEW i \in 1..Len(Append(q, e)), NEW j \in 1..Len(Append(q, e)),
                    Append(q, e)[i] = Append(q, e)[j]
             PROVE  i = j
  BY DEF Distinct
<1>3. (i \in 1..Len(q) \/ i = Len(q) + 1) /\ (j \in 1..Len(q) \/ j = Len(q) + 1)
  BY <1>1
<1> QED
  BY <1>1, <1>2, <1>3 DEF Distinct

\* A sequence of different numbers up to n has at most n places.
LEMMA DistinctShort ==
  ASSUME NEW n \in Nat, NEW q \in Seq(Nat), ToSet(q) \subseteq 1..n, Distinct(q)
  PROVE  Len(q) \in Nat /\ Len(q) <= n
<1>1. Len(q) \in Nat /\ DOMAIN q = 1..Len(q) /\ q \in [1..Len(q) -> Nat]
  OBVIOUS
<1>2. q \in Injection(1..Len(q), 1..n)
  <2>1. \A i \in 1..Len(q) : q[i] \in 1..n
    BY ToSetIs
  <2>2. q \in [1..Len(q) -> 1..n]
    BY <1>1, <2>1
  <2> QED
    BY <2>2 DEF Injection, IsInjective, Distinct
<1>3. IsFiniteSet(1..n) /\ Cardinality(1..n) = n /\ Cardinality(1..Len(q)) = Len(q)
  <2>1. ASSUME NEW m \in Nat PROVE IsFiniteSet(1..m) /\ Cardinality(1..m) = m
    <3>1. 1 \in Int /\ m \in Int
      OBVIOUS
    <3>2. IsFiniteSet(1..m) /\ Cardinality(1..m) = IF 1 > m THEN 0 ELSE m - 1 + 1
      BY ONLY <3>1, FS_Interval
    <3>3. (IF 1 > m THEN 0 ELSE m - 1 + 1) = m
      OBVIOUS
    <3> QED
      BY <3>2, <3>3
  <2> QED
    BY <1>1, <2>1
<1>4. Cardinality(1..Len(q)) <= Cardinality(1..n)
  BY ONLY <1>2, <1>3, FS_Injection
<1> QED
  BY <1>1, <1>3, <1>4

-----------------------------------------------------------------------------

\* The errors a session has added are among those it has, and none if it counts
\* them from the end.
LEMMA NewFacts ==
  ASSUME NEW s \in AnySession
  PROVE  /\ NewErrors(s) \in Seq(Nat) /\ New(s) \subseteq ToSet(s.err)
         /\ Distinct(s.err) => Distinct(NewErrors(s))
         /\ s.loaded >= Len(s.err) => New(s) = {}
<1>1. s.err \in Seq(Nat) /\ s.loaded \in Nat /\ Len(s.err) \in Nat
  BY DEF AnySession
<1>2. NewErrors(s) \in Seq(Nat) /\ New(s) \subseteq ToSet(s.err)
  BY <1>1, Suffix DEF NewErrors, New
<1>3. Distinct(s.err) => Distinct(NewErrors(s))
  BY <1>1, DistinctSuffix DEF NewErrors
<1>4. ASSUME s.loaded >= Len(s.err) PROVE New(s) = {}
  <2>1. s.loaded + 1 .. Len(s.err) = {}
    BY <1>1, <1>4
  <2>2. New(s) = {s.err[i] : i \in s.loaded + 1 .. Len(s.err)}
    BY <1>1, SuffixIs DEF New, NewErrors
  <2> QED
    BY <2>1, <2>2
<1> QED
  BY <1>2, <1>3, <1>4

\* A step of session p that leaves the file alone and gives the numbers up to
\* raised', of which p gets those that are new.
LEMMA OnceLocal ==
  ASSUME Typing, OnceInv, NEW p \in Proc, NEW t \in AnySession,
         session' = [session EXCEPT ![p] = t], file' = file,
         raised' \in Nat, raised <= raised', raised' <= MaxErr, reported' \subseteq 1..raised',
         Numbered(t, raised'),
         ToSet(t.err) \subseteq ToSet(file.err) \cup ToSet(session[p].err) \cup raised + 1 .. raised',
         Loads(t) =>
           /\ t.loaded <= Len(t.err)
           /\ New(t) # {} => Loads(session[p])
           /\ New(t) \subseteq New(session[p]) \cup raised + 1 .. raised'
  PROVE  OnceInv'
<1>1. session'[p] = t /\ \A q \in Proc \ {p} : session'[q] = session[q]
  BY DEF Typing
<1>2. 1..raised \subseteq 1..raised' /\ raised + 1 .. raised' \cap 1..raised = {}
  BY DEF Typing
<1>3. \A q \in Proc : Numbered(session'[q], raised')
  BY <1>1, <1>2 DEF OnceInv, Numbered
<1>4. \A q \in Proc : session[q] \in AnySession /\ New(session[q]) \subseteq 1..raised
  BY NewFacts DEF Typing, OnceInv, Numbered
<1>5. ASSUME NEW q \in Proc, Loads(session'[q])
      PROVE  /\ session'[q].loaded <= Len(session'[q].err)
             /\ New(session'[q]) \cap ToSet(file.err) = {}
             /\ \A r \in Proc \ {q} : New(session'[q]) \cap ToSet(session'[r].err) = {}
  <2>1. ToSet(file.err) \subseteq 1..raised /\ \A r \in Proc : ToSet(session[r].err) \subseteq 1..raised
    BY DEF OnceInv, Numbered
  <2>2. CASE q # p
    <3>1. /\ session'[q] = session[q] /\ Loads(session[q])
          /\ session[q].loaded <= Len(session[q].err)
          /\ New(session[q]) \cap ToSet(file.err) = {}
          /\ \A r \in Proc \ {q} : New(session[q]) \cap ToSet(session[r].err) = {}
      BY <1>1, <1>5, <2>2 DEF OnceInv
    <3>2. New(session[q]) \cap ToSet(t.err) = {}
      BY <1>2, <1>4, <2>2, <3>1
    <3> QED
      BY <1>1, <3>1, <3>2
  <2>3. CASE q = p
    <3>1. t.loaded <= Len(t.err) /\ New(t) \subseteq New(session[p]) \cup raised + 1 .. raised'
      BY <1>1, <1>5, <2>3
    <3>2. CASE New(t) = {}
      BY <1>1, <2>3, <3>1, <3>2
    <3>3. CASE New(t) # {}
      <4>1. /\ New(session[p]) \cap ToSet(file.err) = {}
            /\ \A r \in Proc \ {p} : New(session[p]) \cap ToSet(session[r].err) = {}
        BY <1>1, <1>5, <2>3, <3>3 DEF OnceInv
      <4>2. New(t) \cap ToSet(file.err) = {}
        BY <1>2, <2>1, <3>1, <4>1
      <4>3. ASSUME NEW r \in Proc \ {p} PROVE New(t) \cap ToSet(session[r].err) = {}
        BY <1>2, <2>1, <3>1, <4>1
      <4> QED
        BY <1>1, <2>3, <3>1, <4>2, <4>3
    <3> QED
      BY <3>2, <3>3
  <2> QED
    BY <2>2, <2>3
<1>6. ToSet(file.err) \subseteq 1..raised' /\ Distinct(file.err)
  BY <1>2 DEF OnceInv
<1> QED
  BY <1>3, <1>5, <1>6 DEF OnceInv

\* What every session has for the others.
LEMMA OnceFacts ==
  ASSUME Typing, OnceInv, NEW p \in Proc
  PROVE  LET s == session[p]
         IN /\ s \in AnySession /\ s.err \in Seq(Nat) /\ s.loaded \in Nat
            /\ Len(s.err) \in Nat /\ Len(s.err) <= MaxErr
            /\ Numbered(s, raised) /\ raised \in Nat /\ raised <= MaxErr
            /\ file.err \in Seq(Nat) /\ Len(file.err) \in Nat /\ Len(file.err) <= MaxErr
<1>1. /\ session[p] \in AnySession /\ session[p].err \in Seq(Nat) /\ session[p].loaded \in Nat
      /\ raised \in Nat /\ file.err \in Seq(Nat)
  BY DEF Typing, AnySession
<1>2. raised <= MaxErr /\ Numbered(session[p], raised)
  BY DEF OnceInv
<1>3. Len(session[p].err) \in Nat /\ Len(session[p].err) <= raised
  BY <1>1, <1>2, DistinctShort DEF Numbered
<1>4. Len(file.err) \in Nat /\ Len(file.err) <= raised
  BY <1>1, DistinctShort DEF OnceInv
<1> QED
  BY <1>1, <1>2, <1>3, <1>4

\* NoSession holds nothing.
LEMMA OnceEnds ==
  ASSUME Typing, OnceInv, NEW p \in Proc, session' = [session EXCEPT ![p] = NoSession],
         file' = file, raised' = raised, reported' \subseteq 1..raised
  PROVE  OnceInv'
<1>1. NoSession \in AnySession /\ NoSession.pc = "none" /\ NoSession.err = << >> /\ NoSession.loaded = 0
  BY NoSessionFacts DEF NoSession
<1>2. ToSet(<< >>) = {} /\ Distinct(<< >>)
  BY DEF ToSet, Distinct
<1>3. Numbered(NoSession, raised) /\ raised \in Nat /\ raised <= MaxErr
  BY <1>1, <1>2 DEF Numbered, Typing, OnceInv
<1>4. raised' \in Nat /\ raised <= raised' /\ raised' <= MaxErr
  BY <1>3
<1> QED
  BY <1>1, <1>2, <1>3, <1>4, OnceLocal DEF Loads

\* The merge puts the session's own errors behind those of the file.
LEMMA OnceSave ==
  ASSUME Typing, OnceInv, NEW p \in Proc, NEW s \in AnySession,
         NEW errorsOnly \in BOOLEAN, NEW last \in BOOLEAN, Save(p, s, errorsOnly, last),
         session[p].pc = "work", UNCHANGED <<file, raised>>, reported' \subseteq 1..raised,
         s.loaded = session[p].loaded, s.err = session[p].err \/ s.err = << >>
  PROVE  OnceInv'
<1> DEFINE saved == [s EXCEPT !.pc = "write", !.errorsOnly = errorsOnly, !.last = last,
                              !.fresh = TRUE]
           t == IF ModifiedSince(s) THEN Merged(saved) ELSE saved
<1>1. session' = [session EXCEPT ![p] = t]
  BY DEF Save
<1>2. /\ file.err \in Seq(Nat) /\ file.lst \in List /\ raised \in Nat /\ raised <= MaxErr
      /\ Numbered(session[p], raised) /\ s.err \in Seq(Nat)
      /\ ToSet(file.err) \subseteq 1..raised /\ Distinct(file.err)
  BY DEF Typing, OnceInv, AnySession
<1>3. /\ ToSet(s.err) \subseteq ToSet(session[p].err) /\ Distinct(s.err)
      /\ NewErrors(s) \in Seq(Nat) /\ Distinct(NewErrors(s))
      /\ New(s) \subseteq ToSet(s.err)
      /\ New(s) \cap ToSet(file.err) = {}
  <2>1. ToSet(<< >>) = {} /\ Distinct(<< >>)
    BY DEF ToSet, Distinct
  <2>2. ToSet(s.err) \subseteq ToSet(session[p].err) /\ Distinct(s.err)
    BY <1>2, <2>1 DEF Numbered
  <2>3. New(s) \subseteq ToSet(s.err) /\ NewErrors(s) \in Seq(Nat) /\ Distinct(NewErrors(s))
    BY <2>2, NewFacts
  <2>4. CASE s.err = << >>
    BY <2>1, <2>2, <2>3, <2>4
  <2>5. CASE s.err = session[p].err
    <3>1. New(s) = New(session[p])
      BY <2>5 DEF New, NewErrors
    <3> QED
      BY <2>2, <2>3, <3>1 DEF OnceInv, Loads
  <2> QED
    BY <2>4, <2>5
<1>4. /\ saved \in AnySession /\ saved.pc = "write" /\ saved.lst = s.lst /\ saved.err = s.err
      /\ saved.loaded = s.loaded
  BY DEF AnySession
<1>5. NewErrors(saved) = NewErrors(s)
  BY <1>4 DEF NewErrors
<1>6. LET m == file.err \o NewErrors(s)
      IN m \in Seq(Nat) /\ ToSet(m) = ToSet(file.err) \cup New(s) /\ Distinct(m)
  BY <1>2, <1>3, Elements, DistinctConcat DEF New
<1> HIDE DEF saved
<1>7. LET m == Merged(saved)
      IN /\ m \in AnySession /\ m.pc = "write" /\ m.loaded = s.loaded
         /\ m.err = file.err \o NewErrors(s)
  BY <1>2, <1>4, <1>5, <1>6 DEF Merged, AnySession
<1>8. /\ t \in AnySession /\ t.pc = "write" /\ t.loaded = s.loaded
      /\ t.err = s.err \/ t.err = file.err \o NewErrors(s)
  BY <1>4, <1>7
<1> HIDE DEF t
<1>9. ToSet(t.err) \subseteq ToSet(file.err) \cup ToSet(session[p].err) /\ Distinct(t.err)
  BY <1>3, <1>6, <1>8
<1>10. Numbered(t, raised)
  BY <1>2, <1>8, <1>9 DEF Numbered
<1>11. raised' \in Nat /\ raised <= raised' /\ raised' <= MaxErr
  BY <1>2
<1> QED
  BY <1>1, <1>8, <1>9, <1>10, <1>11, OnceLocal DEF Loads

\* A session after its save counts from what it saved.
LEMMA OnceSaved ==
  ASSUME Typing, OnceInv, NEW p \in Proc
  PROVE  LET s == session[p]
             t == IF s.last THEN NoSession ELSE Saved(s)
         IN /\ t \in AnySession /\ Numbered(t, raised) /\ ToSet(t.err) \subseteq ToSet(s.err)
            /\ New(t) = {} /\ t.loaded <= Len(t.err)
<1> DEFINE s == session[p]
           t == IF s.last THEN NoSession ELSE Saved(s)
<1>1. /\ s \in AnySession /\ s.err \in Seq(Nat) /\ Len(s.err) \in Nat /\ Len(s.err) <= MaxErr
      /\ Numbered(s, raised)
  BY OnceFacts
<1>2. ToSet(<< >>) = {} /\ Distinct(<< >>) /\ Len(<< >>) = 0
  BY DEF ToSet, Distinct
<1>3. CASE s.last
  <2>1. t = NoSession /\ NoSession \in AnySession /\ NoSession.err = << >> /\ NoSession.loaded = 0
    BY <1>3, NoSessionFacts DEF NoSession
  <2> HIDE DEF t
  <2>2. New(t) \subseteq ToSet(t.err)
    BY <2>1, NewFacts
  <2> QED
    BY <1>2, <2>1, <2>2 DEF Numbered, t
<1>4. CASE ~s.last
  <2>1. /\ t \in AnySession /\ t.err = s.err /\ t.loaded = Len(s.err)
    BY <1>4, SavedFacts
  <2>2. t.loaded >= Len(t.err)
    BY <1>1, <2>1
  <2> HIDE DEF t
  <2>3. New(t) = {}
    BY <2>1, <2>2, NewFacts
  <2> QED
    BY <1>1, <2>1, <2>3 DEF Numbered, t
<1> QED
  BY <1>3, <1>4

LEMMA OnceWrite ==
  ASSUME Typing, OnceInv, NEW p \in Proc, Write(p)
  PROVE  OnceInv'
<1> DEFINE s == session[p]
           t == IF s.last THEN NoSession ELSE Saved(s)
<1>1. /\ file'.err = s.err /\ session'[p] = t /\ UNCHANGED <<raised, reported>>
      /\ \A q \in Proc \ {p} : session'[q] = [session[q] EXCEPT !.fresh = ~Active(q)]
  BY DEF Write
<1>2. \A q \in Proc \ {p} :
        /\ session'[q].pc = session[q].pc /\ session'[q].err = session[q].err
        /\ session'[q].loaded = session[q].loaded
        /\ New(session'[q]) = New(session[q])
  <2> SUFFICES ASSUME NEW q \in Proc \ {p}
               PROVE  /\ session'[q].pc = session[q].pc /\ session'[q].err = session[q].err
                      /\ session'[q].loaded = session[q].loaded
                      /\ New(session'[q]) = New(session[q])
    OBVIOUS
  <2>1. session[q] \in AnySession /\ session'[q] = [session[q] EXCEPT !.fresh = ~Active(q)]
    BY <1>1 DEF Typing
  <2>2. /\ session'[q].pc = session[q].pc /\ session'[q].err = session[q].err
        /\ session'[q].loaded = session[q].loaded
    BY <2>1 DEF AnySession
  <2> QED
    BY <2>2 DEF New, NewErrors
<1>3. /\ Numbered(t, raised) /\ ToSet(t.err) \subseteq ToSet(s.err)
      /\ New(t) = {} /\ t.loaded <= Len(t.err)
  BY OnceSaved
<1>4. Numbered(s, raised)
  BY OnceFacts
<1> HIDE DEF s, t
<1>5. ASSUME NEW q \in Proc PROVE Numbered(session'[q], raised)
  <2>1. CASE q = p
    BY <1>1, <1>3, <2>1
  <2>2. CASE q # p
    <3>1. Numbered(session[q], raised)
      BY DEF OnceInv
    <3> QED
      BY <1>2, <2>2, <3>1 DEF Numbered
  <2> QED
    BY <2>1, <2>2
<1>6. ASSUME NEW q \in Proc, Loads(session'[q])
      PROVE  /\ session'[q].loaded <= Len(session'[q].err)
             /\ New(session'[q]) \cap ToSet(s.err) = {}
             /\ \A r \in Proc \ {q} : New(session'[q]) \cap ToSet(session'[r].err) = {}
  <2>1. CASE q = p
    BY <1>1, <1>3, <2>1
  <2>2. CASE q # p
    <3>1. /\ session[q].loaded <= Len(session[q].err)
          /\ \A r \in Proc \ {q} : New(session[q]) \cap ToSet(session[r].err) = {}
      BY <1>2, <1>6, <2>2 DEF OnceInv, Loads
    <3>2. New(session[q]) \cap ToSet(s.err) = {}
      BY <2>2, <3>1 DEF s
    <3>3. New(session[q]) \cap ToSet(t.err) = {}
      BY <1>3, <3>2
    <3>4. ASSUME NEW r \in Proc \ {q} PROVE New(session[q]) \cap ToSet(session'[r].err) = {}
      BY <1>1, <1>2, <3>1, <3>3
    <3> QED
      BY <1>2, <2>2, <3>1, <3>2, <3>4
  <2> QED
    BY <2>1, <2>2
<1> QED
  BY <1>1, <1>4, <1>5, <1>6 DEF OnceInv, Numbered

LEMMA OnceWriteFails ==
  ASSUME Typing, OnceInv, NEW p \in Proc, WriteFails(p)
  PROVE  OnceInv'
<1> DEFINE t == IF session[p].last THEN NoSession ELSE Saved(session[p])
<1>1. /\ session' = [session EXCEPT ![p] = t] /\ UNCHANGED <<file, raised, reported>>
  BY DEF WriteFails
<1>2. /\ t \in AnySession /\ Numbered(t, raised) /\ ToSet(t.err) \subseteq ToSet(session[p].err)
      /\ New(t) = {} /\ t.loaded <= Len(t.err)
  BY OnceSaved
<1>3. raised' \in Nat /\ raised <= raised' /\ raised' <= MaxErr /\ reported' \subseteq 1..raised'
  BY <1>1 DEF Typing, OnceInv
<1> HIDE DEF t
<1> QED
  BY <1>1, <1>2, <1>3, OnceLocal

LEMMA OnceStart ==
  ASSUME Typing, OnceInv, NEW p \in Proc, NEW kind \in {"update", "request", "start"},
         Start(p, kind)
  PROVE  OnceInv'
<1> DEFINE t == Loaded(kind)
<1>1. /\ file.err \in Seq(Nat) /\ Len(file.err) \in Nat /\ Len(file.err) <= MaxErr
      /\ raised \in Nat /\ raised <= MaxErr /\ file.lst \in List /\ file.mtime \in Time
  BY OnceFacts DEF Typing
<1>2. t \in AnySession /\ t.err = file.err /\ t.loaded = Len(file.err)
  BY <1>1 DEF Loaded, AnySession, Time, Never
<1>3. session' = [session EXCEPT ![p] = t] /\ UNCHANGED <<file, raised, reported>>
  BY DEF Start, ghosts
<1> HIDE DEF t
<1>4. t.loaded >= Len(t.err) /\ t.loaded <= Len(t.err)
  BY <1>1, <1>2
<1>5. New(t) = {}
  BY <1>2, <1>4, NewFacts
<1>6. Numbered(t, raised)
  BY <1>1, <1>2 DEF Numbered, OnceInv
<1>7. raised' \in Nat /\ raised <= raised' /\ raised' <= MaxErr /\ reported' \subseteq 1..raised'
  BY <1>1, <1>3 DEF OnceInv
<1> QED
  BY <1>2, <1>3, <1>4, <1>5, <1>6, <1>7, OnceLocal

LEMMA OnceStat ==
  ASSUME Typing, OnceInv, NEW p \in Proc, Stat(p)
  PROVE  OnceInv'
<1> DEFINE s == session[p]
           t == [s EXCEPT !.pc = "work", !.modified = file.mtime]
<1>1. /\ s \in AnySession /\ file.mtime \in Time /\ Numbered(s, raised)
      /\ raised \in Nat /\ raised <= MaxErr
  BY OnceFacts DEF Typing
<1>2. t \in AnySession /\ t.err = s.err /\ t.loaded = s.loaded
  BY <1>1 DEF AnySession
<1>3. /\ session' = [session EXCEPT ![p] = t] /\ UNCHANGED <<file, raised, reported>>
      /\ Loads(s)
  BY DEF Stat, ghosts, Loads
<1> HIDE DEF t
<1>4. New(t) = New(s) /\ Numbered(t, raised)
  BY <1>1, <1>2 DEF New, NewErrors, Numbered
<1>5. t.loaded <= Len(t.err)
  BY <1>2, <1>3 DEF OnceInv
<1>6. raised' \in Nat /\ raised <= raised' /\ raised' <= MaxErr /\ reported' \subseteq 1..raised'
  BY <1>1, <1>3 DEF OnceInv
<1> QED
  BY <1>2, <1>3, <1>4, <1>5, <1>6, OnceLocal

\* An error is numbered when it is raised, so it is none that anybody has.
LEMMA OnceRaise ==
  ASSUME Typing, OnceInv, NEW p \in Proc, Raise(p)
  PROVE  OnceInv'
<1> DEFINE s == session[p]
           e == raised + 1
           t == [s EXCEPT !.err = Append(s.err, e)]
<1>1. /\ s.pc = "work" /\ raised < MaxErr /\ raised' = e
      /\ session' = [session EXCEPT ![p] = t] /\ UNCHANGED <<file, reported>>
  BY DEF Raise
<1>2. /\ s \in AnySession /\ s.err \in Seq(Nat) /\ s.loaded \in Nat /\ Len(s.err) \in Nat
      /\ Numbered(s, raised) /\ raised \in Nat
  BY OnceFacts
<1>3. s.loaded <= Len(s.err)
  BY <1>1 DEF OnceInv, Loads
<1>4. e \in Nat /\ e \notin 1..raised /\ raised + 1 .. e = {e} /\ 1..e = 1..raised \cup {e}
  BY <1>2
<1> HIDE DEF s, e
<1>5. LET a == Append(s.err, e)
      IN /\ a \in Seq(Nat) /\ Len(a) = Len(s.err) + 1 /\ ToSet(a) = ToSet(s.err) \cup {e}
         /\ ToSet(SubSeq(a, s.loaded + 1, Len(a)))
              = ToSet(SubSeq(s.err, s.loaded + 1, Len(s.err))) \cup {e}
  <2> DEFINE old == s.err
             k == s.loaded
  <2>1. old \in Seq(Nat) /\ k \in Nat /\ k <= Len(old) /\ e \in Nat
    BY <1>2, <1>3, <1>4
  <2> HIDE DEF old, k
  <2>2. LET a == Append(old, e)
        IN /\ a \in Seq(Nat) /\ Len(a) = Len(old) + 1 /\ ToSet(a) = ToSet(old) \cup {e}
           /\ ToSet(SubSeq(a, k + 1, Len(a))) = ToSet(SubSeq(old, k + 1, Len(old))) \cup {e}
    BY ONLY <2>1, OneMore
  <2> QED
    BY <2>2 DEF old, k
<1>6. Distinct(Append(s.err, e))
  BY <1>2, <1>4, DistinctAppend DEF Numbered
<1>7. t \in AnySession /\ t.err = Append(s.err, e) /\ t.loaded = s.loaded /\ t.pc = s.pc
  BY <1>2, <1>5 DEF AnySession
<1> HIDE DEF t
<1>8. New(t) = New(s) \cup {e}
  BY <1>5, <1>7 DEF New, NewErrors
<1>9. Numbered(t, e)
  BY <1>2, <1>4, <1>5, <1>6, <1>7 DEF Numbered
<1>10. raised' \in Nat /\ raised <= raised' /\ raised' <= MaxErr
  BY <1>1, <1>2, <1>4 DEF e
<1>11. reported' \subseteq 1..raised'
  BY <1>1, <1>4 DEF OnceInv
<1>12. t.loaded <= Len(t.err)
  BY <1>2, <1>3, <1>5, <1>7
<1>13. ToSet(t.err) \subseteq ToSet(s.err) \cup {e}
  BY <1>5, <1>7
<1>14. session[p] = s
  BY DEF s
<1> QED
  BY <1>1, <1>4, <1>7, <1>8, <1>9, <1>10, <1>11, <1>12, <1>13, <1>14, OnceLocal DEF Loads

LEMMA OnceStep == Typing /\ OnceInv /\ [Next]_vars => OnceInv'
<1> SUFFICES ASSUME Typing, OnceInv, [Next]_vars PROVE OnceInv'
  OBVIOUS
<1>1. ASSUME NEW p \in Proc, NEW lst \in List, Edit(p, lst) PROVE OnceInv'
  <2> DEFINE s == [session[p] EXCEPT !.lst = lst]
  <2>1. session[p] \in AnySession
    BY DEF Typing
  <2>2. s \in AnySession /\ s.err = session[p].err /\ s.loaded = session[p].loaded
    BY <2>1 DEF AnySession
  <2>3. /\ session[p].pc = "work" /\ Save(p, s, FALSE, FALSE)
        /\ UNCHANGED <<file, raised>> /\ reported' = reported
    BY <1>1 DEF Edit
  <2> HIDE DEF s
  <2> QED
    BY <2>2, <2>3, OnceSave DEF OnceInv
<1>2. ASSUME NEW p \in Proc, EndUpdate(p) \/ EndStart(p) PROVE OnceInv'
  BY <1>2, OnceSave DEF EndUpdate, EndStart, OnceInv, Typing
<1>3. ASSUME NEW p \in Proc, Report(p) PROVE OnceInv'
  <2> DEFINE s == [session[p] EXCEPT !.err = << >>]
  <2>1. session[p] \in AnySession /\ << >> \in Seq(Nat)
    BY DEF Typing
  <2>2. s \in AnySession /\ s.err = << >> /\ s.loaded = session[p].loaded
    BY <2>1 DEF AnySession
  <2>3. /\ session[p].pc = "work" /\ End(p, session[p].err # << >>, s)
        /\ UNCHANGED <<file, raised>> /\ reported' = reported \cup ToSet(session[p].err)
    BY <1>3 DEF Report
  <2>4. reported' \subseteq 1..raised
    BY <2>3 DEF OnceInv, Numbered
  <2> HIDE DEF s
  <2> QED
    BY <2>2, <2>3, <2>4, OnceSave, OnceEnds DEF End
<1>4. ASSUME NEW p \in Proc, Aborted(p) PROVE OnceInv'
  <2>1. session[p] \in AnySession
    BY DEF Typing
  <2>2. /\ session[p].pc = "work" /\ End(p, NewErrors(session[p]) # << >>, session[p])
        /\ UNCHANGED <<file, raised>> /\ reported' = reported
    BY <1>4 DEF Aborted
  <2>3. reported' \subseteq 1..raised
    BY <2>2 DEF OnceInv
  <2> QED
    BY <2>1, <2>2, <2>3, OnceSave, OnceEnds DEF End
<1>5. ASSUME NEW p \in Proc, Crash(p) PROVE OnceInv'
  BY <1>5, OnceEnds DEF Crash, OnceInv
<1>6. CASE Tick \/ UNCHANGED vars
  <2>1. UNCHANGED <<file, session, raised, reported>>
    BY <1>6 DEF Tick, vars, ghosts
  <2> QED
    BY <2>1 DEF OnceInv, Numbered, New, NewErrors
<1> QED
  BY <1>1, <1>2, <1>3, <1>4, <1>5, <1>6, OnceStart, OnceStat, OnceRaise, OnceWrite,
     OnceWriteFails DEF Next

LEMMA OnceInvariant == Spec => [](Typing /\ OnceInv)
<1>1. Init => OnceInv
  <2> SUFFICES ASSUME Init PROVE OnceInv
    OBVIOUS
  <2>1. ToSet(<< >>) = {} /\ Distinct(<< >>)
    BY DEF ToSet, Distinct
  <2>2. /\ file.err = << >> /\ raised = 0 /\ reported = {}
        /\ \A p \in Proc : /\ session[p].err = << >> /\ session[p].loaded = 0
                           /\ session[p].pc = "none"
    BY DEF Init, NoFile, NoSession
  <2> QED
    BY <2>1, <2>2 DEF OnceInv, Numbered
<1>2. FeedsInv => Typing
  BY DEF FeedsInv
<1> QED
  BY <1>1, <1>2, FeedsInitially, FeedsPreserved, OnceStep, PTL DEF Spec

\* A sequence of numbers of which none is greater than MaxErr.
LEMMA ErrorsOf ==
  ASSUME NEW q \in Seq(Nat), ToSet(q) \subseteq 1..MaxErr
  PROVE  q \in Seq(Error)
<1>1. \A i \in 1..Len(q) : q[i] \in Error
  BY ToSetIs DEF Error
<1> QED
  BY <1>1

\* The variables have their types; the errors stored are no more than were raised.
THEOREM FeedsTypeCorrect == Spec => []TypeOK
<1>1. Typing /\ OnceInv => TypeOK
  <2> SUFFICES ASSUME Typing, OnceInv PROVE TypeOK
    OBVIOUS
  <2>1. 1..raised \subseteq 1..MaxErr /\ raised \in 0..MaxErr
    BY DEF Typing, OnceInv
  <2>2. file.err \in Seq(Error) /\ reported \subseteq Error
    BY <2>1, ErrorsOf DEF Typing, OnceInv, Error
  <2>3. file \in [lst : List, err : Seq(Error), mtime : Time]
    BY <2>2 DEF Typing
  <2>4. ASSUME NEW p \in Proc PROVE session[p] \in Session
    <3>1. /\ session[p] \in AnySession /\ session[p].err \in Seq(Nat)
          /\ session[p].loaded \in 0..MaxErr /\ ToSet(session[p].err) \subseteq 1..MaxErr
      <4>1. /\ session[p] \in AnySession /\ session[p].err \in Seq(Nat)
            /\ session[p].loaded \in Nat /\ Numbered(session[p], raised)
        BY OnceFacts
      <4> QED
        BY <2>1, <4>1 DEF Numbered
    <3>2. session[p].err \in Seq(Error)
      BY <3>1, ErrorsOf
    <3> QED
      BY <3>1, <3>2 DEF AnySession, Session
  <2>5. session \in [Proc -> Session]
    BY <2>4 DEF Typing
  <2> QED
    BY <2>1, <2>2, <2>3, <2>5 DEF Typing, TypeOK
<1> QED
  BY <1>1, OnceInvariant, PTL

\* No error is stored twice, however often sessions save and merge, and whatever
\* fails (rRSSMetaList::merge(), resetErrors()).
THEOREM FeedsStoreOnce == Spec => []ErrorsOnce
<1>1. Typing /\ OnceInv => ErrorsOnce
  <2> SUFFICES ASSUME Typing, OnceInv PROVE ErrorsOnce
    OBVIOUS
  <2>1. file.err \in Seq(Nat) /\ DOMAIN file.err = 1..Len(file.err)
    BY DEF Typing
  <2> QED
    BY <2>1 DEF OnceInv, Distinct, ErrorsOnce
<1> QED
  BY <1>1, OnceInvariant, PTL
=============================================================================
