--------------------------- MODULE RssHistoryProofs ---------------------------
(***************************************************************************)
(* Proofs about RssHistory, for any feeds, items, filters and processes:   *)
(* what is owed a record has one, and a session that has missed no save    *)
(* neither loads an item twice nor applies a filter too often, even when   *)
(* files cannot be stored and processes are killed.                        *)
(***************************************************************************)
EXTENDS RssHistory, TLAPS

USE RssHistoryAssumption

\* An item without a record has no failures either, so that the first failure
\* is counted as one.
SoundEntry == {e \in Entry : e.hash = "none" => e.cnt = 0}

SoundHistory == [Url -> SoundEntry]

\* The session will save its changes: updateRSS() saves after a feed, not at the end.
Saves(s) == s.kind # "none" /\ s.changed /\ (s.kind = "refresh" => s.feed # NoFeed)

\* The uses of filters that the session is going to write: setFilters() leaves the
\* filters it removed out.
UsesToSave(s) ==
  {a \in UsesIn(s.ftime) : s.kind = "setfilters" => a[1] \in s.filters}

\* Only loadtorrents has items the user asked for, and no session is no work; and
\* what a session has done since its last save it is going to save.
SoundSession(s) ==
  /\ s \in Session /\ s.hist \in SoundHistory
  /\ s.asked # {} => s.kind = "manual"
  /\ s.kind = "none" => s.feed = NoFeed /\ s.todo = {}
  /\ s.loads \subseteq LoadsIn(s.hist)
  /\ s.uses \subseteq UsesToSave(s)
  /\ s.loads # {} \/ s.uses # {} => Saves(s)

\* The variables other than those of the histories and sessions.
WorldTyped ==
  /\ stamp \in [Url -> 1..MaxStamp]
  /\ listed \in [Feed -> SUBSET Url]
  /\ cached \in [Feed -> [Url -> Time]]
  /\ filters \subseteq Filter

GhostsTyped == got \subseteq Url \X Time /\ applied \subseteq Filter \X Use /\ lost \in BOOLEAN

TypeInv ==
  /\ WorldTyped /\ GhostsTyped
  /\ hist \in SoundHistory /\ ftime \in FilterTimes
  /\ session \in [Proc -> Session] /\ \A p \in Proc : SoundSession(session[p])

-----------------------------------------------------------------------------
(* The operators on histories *)

LEMMA AbsentSound == Absent \in SoundEntry
BY DEF Absent, SoundEntry, Entry, Time

LEMMA SoundIsHistory == SoundHistory \subseteq History
BY DEF SoundHistory, SoundEntry, History

\* add(): one record changes; the count stays within its bound as long as what has
\* failed too often is not tried again.
LEMMA AddedSound ==
  ASSUME NEW h \in SoundHistory, NEW u \in Url, NEW hash \in {"Loaded", "Failed"},
         NEW time \in Time, hash = "Failed" => h[u].cnt <= MaxTry
  PROVE  /\ Added(h, u, hash, time) \in SoundHistory
         /\ Added(h, u, hash, time)[u].hash = hash
         /\ Added(h, u, hash, time)[u].time = time
         /\ \A v \in Url \ {u} : Added(h, u, hash, time)[v] = h[v]
<1> DEFINE cnt == IF h[u].time = time THEN h[u].cnt ELSE 0
           e == [hash |-> hash, time |-> time,
                 cnt |-> IF hash = "Failed" THEN cnt + 1 ELSE cnt]
<1>1. h[u] \in Entry
  BY DEF SoundHistory, SoundEntry
<1>2. cnt \in 0..MaxTry+1 /\ (hash = "Failed" => cnt \in 0..MaxTry)
  BY <1>1 DEF Entry
<1> HIDE DEF cnt
<1>3. (IF hash = "Failed" THEN cnt + 1 ELSE cnt) \in 0..MaxTry+1
  BY <1>2
<1>4. e \in Entry /\ e.hash = hash /\ e.time = time /\ hash # "none"
  BY <1>3 DEF Entry
<1>5. e \in SoundEntry
  BY <1>4 DEF SoundEntry
<1>6. Added(h, u, hash, time) = [h EXCEPT ![u] = e]
  BY DEF Added, cnt
<1> HIDE DEF e
<1> QED
  BY <1>4, <1>5, <1>6 DEF SoundHistory

\* The loads a history records after one record has changed.
LEMMA OneRecord ==
  ASSUME NEW h, NEW h2, NEW u \in Url, \A v \in Url \ {u} : h2[v] = h[v]
  PROVE  /\ LoadsIn(h) \ LoadsOf(u) \subseteq LoadsIn(h2)
         /\ h[u].hash # "Loaded" => LoadsIn(h) \subseteq LoadsIn(h2)
         /\ h2[u].hash = "Loaded" /\ h2[u].time \in Time => <<u, h2[u].time>> \in LoadsIn(h2)
<1>1. ASSUME NEW g \in LoadsIn(h), g[1] # u PROVE g \in LoadsIn(h2)
  BY <1>1 DEF LoadsIn
<1>2. ASSUME NEW g \in LoadsIn(h), g[1] = u PROVE g \in LoadsOf(u) /\ h[u].hash = "Loaded"
  BY <1>2 DEF LoadsIn, LoadsOf
<1>3. ASSUME h2[u].hash = "Loaded", h2[u].time \in Time
      PROVE  <<u, h2[u].time>> \in LoadsIn(h2)
  BY <1>3 DEF LoadsIn
<1> QED
  BY <1>1, <1>2, <1>3

\* correct(): a record stays or is gone, and gone is no load but an outdated one.
LEMMA CorrectedSound ==
  ASSUME NEW h \in SoundHistory, NEW f \in Feed
  PROVE  /\ Corrected(h, Served(f)) \in SoundHistory
         /\ LoadsIn(h) \ Outdated(f) \subseteq LoadsIn(Corrected(h, Served(f)))
<1>1. Corrected(h, Served(f)) \in SoundHistory
  BY AbsentSound DEF Corrected, SoundHistory
<1>2. ASSUME NEW g \in LoadsIn(h), g \notin Outdated(f)
      PROVE  g \in LoadsIn(Corrected(h, Served(f)))
  <2>1. g \in Url \X Time /\ g[1] \in Url /\ h[g[1]].hash = "Loaded" /\ h[g[1]].time = g[2]
    BY DEF LoadsIn
  <2>2. Served(f)[g[1]] = 0 \/ Served(f)[g[1]] = g[2]
    BY <1>2, <2>1 DEF Outdated
  <2>3. Corrected(h, Served(f))[g[1]] = h[g[1]]
    BY <2>1, <2>2 DEF Corrected
  <2> QED
    BY <2>1, <2>3 DEF LoadsIn
<1> QED
  BY <1>1, <1>2

LEMMA PrunedSound ==
  ASSUME NEW h \in SoundHistory
  PROVE  /\ Pruned(h) \in SoundHistory
         /\ LoadsIn(h) \ OutOfFeeds(h) \subseteq LoadsIn(Pruned(h))
<1>1. Pruned(h) \in SoundHistory
  <2>1. \A u \in Url : Pruned(h)[u] = Absent \/ Pruned(h)[u] = h[u]
    BY DEF Pruned
  <2> QED
    BY <2>1, AbsentSound DEF SoundHistory, Pruned
<1>2. ASSUME NEW g \in LoadsIn(h), g \notin OutOfFeeds(h) PROVE g \in LoadsIn(Pruned(h))
  <2>1. g \in Url \X Time /\ g[1] \in Url /\ h[g[1]].hash = "Loaded" /\ h[g[1]].time = g[2]
    BY DEF LoadsIn
  <2>2. ~(Overflow(h) /\ Listed # {} /\ g[1] \notin Listed)
    BY <1>2, <2>1 DEF OutOfFeeds
  <2>3. Pruned(h)[g[1]] = h[g[1]]
    BY <2>1, <2>2 DEF Pruned
  <2> QED
    BY <2>1, <2>3 DEF LoadsIn
<1> QED
  BY <1>1, <1>2

-----------------------------------------------------------------------------
(* Types *)

LEMMA NoSessionSound == SoundSession(NoSession) /\ NoSession.kind = "none"
<1>1. [u \in Url |-> Absent] \in SoundHistory
  BY AbsentSound DEF SoundHistory
<1>2. [u \in Url |-> Absent] \in History
  BY <1>1, SoundIsHistory
<1>3. [u \in Url |-> 0] \in [Url -> Time]
  BY DEF Time
<1>4. [f \in Filter |-> "never"] \in FilterTimes
  BY DEF FilterTimes
<1>5. NoSession \in Session
  BY <1>2, <1>3, <1>4 DEF NoSession, Session
<1>6. NoSession.loads = {} /\ NoSession.uses = {} /\ NoSession.asked = {}
      /\ NoSession.feed = NoFeed /\ NoSession.todo = {} /\ NoSession.kind = "none"
      /\ NoSession.hist = [u \in Url |-> Absent]
  BY DEF NoSession
<1> QED
  BY <1>1, <1>5, <1>6 DEF SoundSession

LEMMA LoadedFacts ==
  ASSUME TypeInv, NEW kind \in {"update", "refresh", "setfilters", "edit", "manual"},
         NEW feeds \in SUBSET Feed
  PROVE  /\ SoundSession(Loaded(kind, feeds))
         /\ Loaded(kind, feeds).kind = kind
         /\ Loaded(kind, feeds).hist = hist
         /\ Loaded(kind, feeds).ftime = ftime
         /\ Loaded(kind, feeds).loads = {}
         /\ Loaded(kind, feeds).uses = {}
<1> DEFINE t == Loaded(kind, feeds)
<1>1. NoSession \in Session /\ hist \in History /\ ftime \in FilterTimes /\ filters \subseteq Filter
  BY NoSessionSound, SoundIsHistory DEF SoundSession, TypeInv, WorldTyped
<1>2. /\ t \in Session /\ t.kind = kind /\ t.feed = NoFeed
      /\ t.asked = {} /\ t.hist = hist /\ t.ftime = ftime /\ t.loads = {} /\ t.uses = {}
  <2>1. NoSession.feed = NoFeed /\ NoSession.asked = {} /\ NoSession.loads = {}
        /\ NoSession.uses = {}
    BY DEF NoSession
  <2> QED
    BY <1>1, <2>1 DEF Loaded, Session
<1> HIDE DEF t
<1>3. SoundSession(t)
  BY <1>2 DEF SoundSession, TypeInv
<1> QED
  BY <1>2, <1>3 DEF t

-----------------------------------------------------------------------------
(***************************************************************************)
(* Remembering, as sets: what is owed a record is in the stored copy or    *)
(* among what some session has done since its last save, and so has every  *)
(* session whose copy is current, and may thus replace the stored one.     *)
(* The same holds of the items loaded and of the uses of filters.          *)
(***************************************************************************)

Brought(mine) == UNION {mine[q] : q \in Proc}

Kept(owed, stored, copy, mine, current) ==
  /\ owed \subseteq stored \cup Brought(mine)
  /\ \A p \in current : owed \subseteq copy[p] \cup Brought(mine)

\* Session p changes its own copy: what it drops is not owed any more, and what
\* comes to be owed it will save.
LEMMA KeptLocally ==
  ASSUME NEW owed, NEW stored, NEW copy, NEW mine, NEW current,
         NEW owed2, NEW copy2, NEW mine2, NEW current2, NEW p \in Proc,
         Kept(owed, stored, copy, mine, current),
         \A q \in Proc \ {p} : copy2[q] = copy[q] /\ mine2[q] = mine[q],
         current2 \subseteq Proc, \A q \in current2 \ {p} : q \in current,
         owed2 \subseteq owed \cup mine2[p], mine[p] \cap owed2 \subseteq mine2[p],
         p \in current2 => \/ p \in current /\ copy[p] \cap owed2 \subseteq copy2[p]
                           \/ stored \cap owed2 \subseteq copy2[p]
  PROVE  Kept(owed2, stored, copy2, mine2, current2)
<1>1. ASSUME NEW x \in owed2, x \in Brought(mine) PROVE x \in Brought(mine2)
  <2>1. PICK q \in Proc : x \in mine[q]
    BY <1>1 DEF Brought
  <2>2. x \in mine2[q]
    BY <2>1
  <2> QED
    BY <2>2 DEF Brought
<1>2. ASSUME NEW x \in owed2, x \notin owed PROVE x \in Brought(mine2)
  BY <1>2 DEF Brought
<1>3. owed \subseteq stored \cup Brought(mine)
      /\ \A q \in current : owed \subseteq copy[q] \cup Brought(mine)
  BY DEF Kept
<1>4. owed2 \subseteq stored \cup Brought(mine2)
  BY <1>1, <1>2, <1>3
<1>5. ASSUME NEW q \in current2, NEW x \in owed2 PROVE x \in copy2[q] \cup Brought(mine2)
  <2>1. CASE q # p
    BY <1>1, <1>2, <1>3, <2>1
  <2>2. CASE q = p
    BY <1>1, <1>2, <1>3, <2>2
  <2> QED
    BY <2>1, <2>2
<1> QED
  BY <1>4, <1>5 DEF Kept

\* Session p, whose copy is current, replaces the stored copy by its own.
LEMMA KeptBySaving ==
  ASSUME NEW owed, NEW stored, NEW copy, NEW mine, NEW current,
         NEW owed2, NEW stored2, NEW copy2, NEW mine2, NEW current2, NEW p \in current,
         Kept(owed, stored, copy, mine, current),
         owed2 \subseteq owed, copy[p] \cap owed2 \subseteq stored2, mine[p] \subseteq copy[p],
         \A q \in Proc \ {p} : mine2[q] = mine[q],
         \A q \in current2 : stored2 \cap owed2 \subseteq copy2[q]
  PROVE  Kept(owed2, stored2, copy2, mine2, current2)
<1>1. ASSUME NEW x \in owed2 PROVE x \in stored2 \cup Brought(mine2)
  <2>1. x \in copy[p] \cup Brought(mine)
    BY DEF Kept
  <2>2. CASE x \in copy[p]
    BY <2>2
  <2>3. CASE x \notin copy[p]
    <3>1. PICK q \in Proc : x \in mine[q]
      BY <2>1, <2>3 DEF Brought
    <3>2. q # p /\ x \in mine2[q]
      BY <2>3, <3>1
    <3> QED
      BY <3>2 DEF Brought
  <2> QED
    BY <2>2, <2>3
<1> QED
  BY <1>1 DEF Kept

-----------------------------------------------------------------------------
(* The invariant *)

Current == {p \in Proc : session[p].kind # "none" /\ session[p].fresh}

CopyLoads == [p \in Proc |-> LoadsIn(session[p].hist)]
CopyUses == [p \in Proc |-> UsesToSave(session[p])]
MyLoads == [p \in Proc |-> session[p].loads]
MyUses == [p \in Proc |-> session[p].uses]

Remembered ==
  /\ Kept(got, LoadsIn(hist), CopyLoads, MyLoads, Current)
  /\ Kept(applied, UsesIn(ftime), CopyUses, MyUses, Current)

RssInv == TypeInv /\ (lost \/ Remembered)

\* How a session that goes from s to t changes its copy, so that what it has
\* dropped is not in the sets g and a, and what is new in these it will save.
Honest(s, t, g, a) ==
  /\ g \subseteq got \cup t.loads /\ s.loads \cap g \subseteq t.loads
  /\ a \subseteq applied \cup t.uses /\ s.uses \cap a \subseteq t.uses
  /\ s.kind # "none" /\ t.kind # "none" =>
       /\ LoadsIn(s.hist) \cap g \subseteq LoadsIn(t.hist)
       /\ UsesToSave(s) \cap a \subseteq UsesToSave(t)
       /\ t.fresh => s.fresh
  /\ s.kind = "none" /\ t.kind # "none" =>
       /\ LoadsIn(hist) \cap g \subseteq LoadsIn(t.hist)
       /\ UsesIn(ftime) \cap a \subseteq UsesToSave(t)

\* A step of session p that leaves the stored history alone.
LEMMA LocalStep ==
  ASSUME RssInv, NEW p \in Proc, NEW t, SoundSession(t),
         session' = [session EXCEPT ![p] = t], UNCHANGED <<hist, ftime, lost>>,
         WorldTyped', GhostsTyped', Honest(session[p], t, got', applied')
  PROVE  RssInv'
<1>1. session'[p] = t /\ \A q \in Proc \ {p} : session'[q] = session[q]
  BY DEF RssInv, TypeInv
<1>2. TypeInv'
  <2>1. t \in Session
    BY DEF SoundSession
  <2>2. session' \in [Proc -> Session]
    BY <2>1 DEF RssInv, TypeInv
  <2>3. \A q \in Proc : SoundSession(session'[q])
    BY <1>1 DEF RssInv, TypeInv
  <2>4. (\A q \in Proc : SoundSession(session[q]))'
    BY <2>3
  <2> QED
    BY <2>2, <2>4 DEF RssInv, TypeInv
<1> SUFFICES ASSUME ~lost' PROVE Remembered'
  BY <1>2 DEF RssInv
<1>3. Remembered
  BY DEF RssInv
<1>4. /\ \A q \in Proc \ {p} : CopyLoads'[q] = CopyLoads[q] /\ CopyUses'[q] = CopyUses[q]
                               /\ MyLoads'[q] = MyLoads[q] /\ MyUses'[q] = MyUses[q]
      /\ CopyLoads[p] = LoadsIn(session[p].hist) /\ CopyLoads'[p] = LoadsIn(t.hist)
      /\ CopyUses[p] = UsesToSave(session[p]) /\ CopyUses'[p] = UsesToSave(t)
      /\ MyLoads[p] = session[p].loads /\ MyLoads'[p] = t.loads
      /\ MyUses[p] = session[p].uses /\ MyUses'[p] = t.uses
  BY <1>1 DEF CopyLoads, CopyUses, MyLoads, MyUses
<1>5. /\ Current' \subseteq Proc
      /\ \A q \in Current' \ {p} : q \in Current
      /\ p \in Current <=> session[p].kind # "none" /\ session[p].fresh
      /\ p \in Current' <=> t.kind # "none" /\ t.fresh
  BY <1>1 DEF Current
<1>6. Kept(got, LoadsIn(hist), CopyLoads, MyLoads, Current)'
  <2>1. got' \subseteq got \cup MyLoads'[p] /\ MyLoads[p] \cap got' \subseteq MyLoads'[p]
    BY <1>4 DEF Honest
  <2>2. p \in Current' => \/ p \in Current /\ CopyLoads[p] \cap got' \subseteq CopyLoads'[p]
                          \/ LoadsIn(hist) \cap got' \subseteq CopyLoads'[p]
    BY <1>4, <1>5 DEF Honest
  <2>3. Kept(got, LoadsIn(hist), CopyLoads, MyLoads, Current)
    BY <1>3 DEF Remembered
  <2>4. \A q \in Proc \ {p} : CopyLoads'[q] = CopyLoads[q] /\ MyLoads'[q] = MyLoads[q]
    BY <1>4
  <2>5. Kept(got', LoadsIn(hist), CopyLoads', MyLoads', Current')
    BY ONLY p \in Proc, <1>5, <2>1, <2>2, <2>3, <2>4, KeptLocally
  <2>6. LoadsIn(hist)' = LoadsIn(hist)
    BY DEF LoadsIn
  <2> QED
    BY <2>5, <2>6
<1>7. Kept(applied, UsesIn(ftime), CopyUses, MyUses, Current)'
  <2>1. applied' \subseteq applied \cup MyUses'[p] /\ MyUses[p] \cap applied' \subseteq MyUses'[p]
    BY <1>4 DEF Honest
  <2>2. p \in Current' => \/ p \in Current /\ CopyUses[p] \cap applied' \subseteq CopyUses'[p]
                          \/ UsesIn(ftime) \cap applied' \subseteq CopyUses'[p]
    BY <1>4, <1>5 DEF Honest
  <2>3. Kept(applied, UsesIn(ftime), CopyUses, MyUses, Current)
    BY <1>3 DEF Remembered
  <2>4. \A q \in Proc \ {p} : CopyUses'[q] = CopyUses[q] /\ MyUses'[q] = MyUses[q]
    BY <1>4
  <2>5. Kept(applied', UsesIn(ftime), CopyUses', MyUses', Current')
    BY ONLY p \in Proc, <1>5, <2>1, <2>2, <2>3, <2>4, KeptLocally
  <2>6. UsesIn(ftime)' = UsesIn(ftime)
    BY DEF UsesIn
  <2> QED
    BY <2>5, <2>6
<1> QED
  BY <1>6, <1>7 DEF Remembered

-----------------------------------------------------------------------------
(* Sessions begin *)

LEMMA BeginStep ==
  ASSUME RssInv, NEW p \in Proc, ~Active(p), NEW t, SoundSession(t),
         session' = [session EXCEPT ![p] = t], UNCHANGED <<hist, ftime, lost>>,
         WorldTyped', GhostsTyped',
         got' \subseteq got \cup t.loads, applied' \subseteq applied,
         LoadsIn(hist) \cap got' \subseteq LoadsIn(t.hist),
         UsesIn(ftime) \cap applied' \subseteq UsesToSave(t)
  PROVE  RssInv'
<1>1. session[p].kind = "none"
  BY DEF Active
<1>2. session[p].loads = {} /\ session[p].uses = {}
  BY <1>1 DEF RssInv, TypeInv, SoundSession, Saves
<1>3. Honest(session[p], t, got', applied')
  BY <1>1, <1>2 DEF Honest
<1> QED
  BY <1>3, LocalStep

\* StartUpdate, StartRefresh: the copies are those of the files.
LEMMA StartStep ==
  ASSUME RssInv, NEW p \in Proc, StartUpdate(p) \/ StartRefresh(p)
  PROVE  RssInv'
<1>1. /\ ~Active(p) /\ UNCHANGED <<stamp, listed, files, ghosts>>
      /\ \E kind \in {"update", "refresh"}, feeds \in SUBSET Feed :
           session' = [session EXCEPT ![p] = Loaded(kind, feeds)]
  BY DEF StartUpdate, StartRefresh
<1>2. PICK kind \in {"update", "refresh"}, feeds \in SUBSET Feed :
        session' = [session EXCEPT ![p] = Loaded(kind, feeds)]
  BY <1>1
<1>3. /\ SoundSession(Loaded(kind, feeds)) /\ Loaded(kind, feeds).hist = hist
      /\ Loaded(kind, feeds).ftime = ftime /\ Loaded(kind, feeds).kind = kind
  <2>1. kind \in {"update", "refresh", "setfilters", "edit", "manual"} /\ TypeInv
    BY DEF RssInv
  <2> QED
    BY <2>1, LoadedFacts
<1>4. WorldTyped' /\ GhostsTyped' /\ UNCHANGED <<hist, ftime, got, applied, lost>>
  BY <1>1 DEF RssInv, TypeInv, WorldTyped, GhostsTyped, files, ghosts
<1>5. UsesIn(ftime) \cap applied' \subseteq UsesToSave(Loaded(kind, feeds))
  BY <1>3 DEF UsesToSave
<1> QED
  BY <1>1, <1>2, <1>3, <1>4, <1>5, BeginStep

\* SetFilters: the uses of the filters that are gone are not owed any more.
LEMMA SetFiltersStep ==
  ASSUME RssInv, NEW p \in Proc, SetFilters(p)
  PROVE  RssInv'
<1>1. PICK fs \in SUBSET Filter :
        /\ filters' \in {fs, filters}
        /\ session' = [session EXCEPT
                         ![p] = [Loaded("setfilters", Feed) EXCEPT !.filters = fs]]
        /\ applied' = applied \cap (fs \X Use)
  BY DEF SetFilters
<1> DEFINE l == Loaded("setfilters", Feed)
           t == [l EXCEPT !.filters = fs]
<1>2. SoundSession(l) /\ l.hist = hist /\ l.ftime = ftime /\ l.kind = "setfilters"
      /\ l.loads = {} /\ l.uses = {}
  BY LoadedFacts DEF RssInv
<1> HIDE DEF l
<1>3. /\ SoundSession(t) /\ t.hist = hist /\ t.ftime = ftime /\ t.filters = fs /\ t.loads = {}
  BY <1>2 DEF SoundSession, Session
<1>4. /\ ~Active(p) /\ UNCHANGED <<hist, ftime, got, lost>> /\ WorldTyped' /\ GhostsTyped'
  BY <1>1 DEF SetFilters, RssInv, TypeInv, WorldTyped, GhostsTyped
<1>5. session' = [session EXCEPT ![p] = t]
  BY <1>1 DEF l
<1> HIDE DEF t
<1>6. applied' \subseteq applied /\ UsesIn(ftime) \cap applied' \subseteq UsesToSave(t)
  BY <1>1, <1>3 DEF UsesToSave
<1> QED
  BY <1>3, <1>4, <1>5, <1>6, BeginStep

LEMMA ManualStep ==
  ASSUME RssInv, NEW p \in Proc, StartManual(p)
  PROVE  RssInv'
<1>1. PICK f \in Feed, us \in SUBSET Url \ {{}} :
        session' = [session EXCEPT ![p] = [Loaded("manual", {}) EXCEPT
          !.filters = {}, !.feed = f, !.items = cached[f], !.asked = us]]
  BY DEF StartManual
<1> DEFINE l == Loaded("manual", {})
           t == [l EXCEPT !.filters = {}, !.feed = f, !.items = cached[f], !.asked = us]
<1>2. SoundSession(l) /\ l.hist = hist /\ l.ftime = ftime /\ l.kind = "manual"
      /\ l.loads = {} /\ l.uses = {}
  BY LoadedFacts DEF RssInv
<1>3. cached[f] \in [Url -> Time]
  BY DEF RssInv, TypeInv, WorldTyped
<1> HIDE DEF l
<1>4. SoundSession(t) /\ t.hist = hist /\ t.ftime = ftime /\ t.kind = "manual" /\ t.loads = {}
  BY <1>2, <1>3 DEF SoundSession, Session
<1>5. /\ ~Active(p) /\ WorldTyped' /\ GhostsTyped'
      /\ UNCHANGED <<hist, ftime, got, applied, lost>>
  BY DEF StartManual, RssInv, TypeInv, WorldTyped, GhostsTyped, files, ghosts
<1>6. session' = [session EXCEPT ![p] = t]
  BY <1>1 DEF l
<1> HIDE DEF t
<1>7. UsesIn(ftime) \cap applied' \subseteq UsesToSave(t)
  BY <1>4 DEF UsesToSave
<1> QED
  BY <1>4, <1>5, <1>6, <1>7, BeginStep

\* A request that edits the history: what it drops is not owed any more.
LEMMA EditStep ==
  ASSUME RssInv, NEW p \in Proc, NEW h \in SoundHistory, NEW ft \in FilterTimes,
         NEW changed \in BOOLEAN, NEW loads \in SUBSET (Url \X Time),
         StartEdit(p, h, ft, changed, loads), GhostsTyped',
         loads \subseteq LoadsIn(h), loads # {} => changed,
         got' \subseteq got \cup loads, applied' \subseteq applied,
         LoadsIn(hist) \cap got' \subseteq LoadsIn(h),
         UsesIn(ftime) \cap applied' \subseteq UsesIn(ft)
  PROVE  RssInv'
<1> DEFINE l == Loaded("edit", {})
           t == [l EXCEPT !.hist = h, !.ftime = ft, !.changed = changed, !.loads = loads]
<1>1. /\ ~Active(p) /\ session' = [session EXCEPT ![p] = t]
      /\ UNCHANGED <<stamp, listed, files, lost>>
  BY DEF StartEdit
<1>2. SoundSession(l) /\ l.kind = "edit" /\ l.uses = {}
  BY LoadedFacts DEF RssInv
<1>3. h \in History
  BY SoundIsHistory
<1> HIDE DEF l
<1>4. /\ t \in Session /\ t.hist = h /\ t.ftime = ft /\ t.kind = "edit" /\ t.loads = loads
      /\ t.uses = {} /\ t.changed = changed /\ t.asked = l.asked
  BY <1>2, <1>3 DEF SoundSession, Session
<1>5. WorldTyped' /\ UNCHANGED <<hist, ftime, lost>>
  BY <1>1 DEF RssInv, TypeInv, WorldTyped, files
<1> HIDE DEF t
<1>6. SoundSession(t)
  BY <1>2, <1>4 DEF SoundSession, Saves
<1>7. UsesIn(ftime) \cap applied' \subseteq UsesToSave(t)
  BY <1>4 DEF UsesToSave
<1> QED
  BY <1>1, <1>4, <1>5, <1>6, <1>7, BeginStep

LEMMA EditsStep ==
  ASSUME RssInv, NEW p \in Proc,
         \/ ClearHistory(p)
         \/ \E u \in Url : MarkLoaded(p, u) \/ MarkUnloaded(p, u)
         \/ \E f \in Filter : ClearFilterTime(p, f)
  PROVE  RssInv'
<1>0. hist \in SoundHistory /\ ftime \in FilterTimes /\ GhostsTyped
  BY DEF RssInv, TypeInv
<1>1. CASE ClearHistory(p)
  <2> DEFINE cleared == [u \in Url |-> Absent]
             changed == hist # cleared
  <2>1. cleared \in SoundHistory /\ changed \in BOOLEAN
    BY AbsentSound DEF SoundHistory
  <2>2. /\ StartEdit(p, cleared, ftime, changed, {}) /\ got' = {} /\ applied' = applied
        /\ lost' = lost
    BY <1>1 DEF ClearHistory, StartEdit
  <2> HIDE DEF cleared, changed
  <2>3. GhostsTyped'
    BY <1>0, <2>2 DEF GhostsTyped
  <2>4. {} \in SUBSET (Url \X Time)
    OBVIOUS
  <2> QED
    BY <1>0, <2>1, <2>2, <2>3, <2>4, EditStep
<1>2. ASSUME NEW u \in Url, MarkLoaded(p, u) PROVE RssInv'
  <2>1. PICK f \in Feed :
          /\ StartEdit(p, Added(hist, u, "Loaded", cached[f][u]), ftime, TRUE,
                       {<<u, cached[f][u]>>} \ got)
          /\ got' = (got \ LoadsOf(u)) \cup {<<u, cached[f][u]>>}
          /\ applied' = applied
    BY <1>2 DEF MarkLoaded
  <2>2. PICK time \in Time : time = cached[f][u]
    BY DEF RssInv, TypeInv, WorldTyped
  <2> DEFINE h == Added(hist, u, "Loaded", time)
             load == <<u, time>>
             loads == {load} \ got
  <2>3. /\ h \in SoundHistory /\ h[u].hash = "Loaded" /\ h[u].time = time
        /\ \A v \in Url \ {u} : h[v] = hist[v]
    <3>1. "Loaded" \in {"Loaded", "Failed"} /\ "Loaded" # "Failed"
      OBVIOUS
    <3> QED
      BY <1>0, <3>1, AddedSound
  <2>4. /\ StartEdit(p, h, ftime, TRUE, loads)
        /\ got' = (got \ LoadsOf(u)) \cup {load} /\ applied' = applied /\ lost' = lost
    BY <2>1, <2>2 DEF StartEdit
  <2> HIDE DEF h
  <2>5. LoadsIn(hist) \ LoadsOf(u) \subseteq LoadsIn(h) /\ load \in LoadsIn(h)
    BY <2>3, OneRecord
  <2>6. load \in Url \X Time
    OBVIOUS
  <2> HIDE DEF load
  <2>7. GhostsTyped' /\ loads \in SUBSET (Url \X Time) /\ loads \subseteq LoadsIn(h)
        /\ got' \subseteq got \cup loads
    BY <1>0, <2>4, <2>5, <2>6 DEF GhostsTyped
  <2>8. LoadsIn(hist) \cap got' \subseteq LoadsIn(h)
    BY <2>4, <2>5
  <2> HIDE DEF loads
  <2> QED
    BY <1>0, <2>3, <2>4, <2>7, <2>8, EditStep
<1>3. ASSUME NEW u \in Url, MarkUnloaded(p, u) PROVE RssInv'
  <2> DEFINE h == [hist EXCEPT ![u] = Absent]
             changed == hist[u] # Absent
  <2>1. h \in SoundHistory /\ (\A v \in Url \ {u} : h[v] = hist[v]) /\ changed \in BOOLEAN
    BY <1>0, AbsentSound DEF SoundHistory
  <2>2. /\ StartEdit(p, h, ftime, changed, {}) /\ got' = got \ LoadsOf(u)
        /\ applied' = applied /\ lost' = lost
    BY <1>3 DEF MarkUnloaded, StartEdit
  <2> HIDE DEF h, changed
  <2>3. LoadsIn(hist) \cap got' \subseteq LoadsIn(h)
    BY <2>1, <2>2, OneRecord
  <2>4. GhostsTyped' /\ {} \in SUBSET (Url \X Time)
    BY <1>0, <2>2 DEF GhostsTyped
  <2> QED
    BY <1>0, <2>1, <2>2, <2>3, <2>4, EditStep
<1>4. ASSUME NEW f \in Filter, ClearFilterTime(p, f) PROVE RssInv'
  <2> DEFINE ft == [ftime EXCEPT ![f] = "never"]
             changed == ftime[f] # "never"
  <2>1. ft \in FilterTimes /\ (\A g \in Filter \ {f} : ft[g] = ftime[g]) /\ changed \in BOOLEAN
    BY <1>0 DEF FilterTimes
  <2>2. /\ StartEdit(p, hist, ft, changed, {}) /\ applied' = applied \ ({f} \X Use)
        /\ got' = got /\ lost' = lost
    BY <1>4 DEF ClearFilterTime, StartEdit
  <2> HIDE DEF ft, changed
  <2>3. UsesIn(ftime) \cap applied' \subseteq UsesIn(ft)
    <3>1. ASSUME NEW a \in UsesIn(ftime), a \in applied' PROVE a \in UsesIn(ft)
      <4>1. a \in Filter \X Use /\ a[1] \in Filter \ {f}
        BY <2>2, <3>1 DEF UsesIn
      <4> QED
        BY <2>1, <4>1 DEF UsesIn
    <3> QED
      BY <3>1
  <2>4. GhostsTyped' /\ {} \in SUBSET (Url \X Time)
    BY <1>0, <2>2 DEF GhostsTyped
  <2> QED
    BY <1>0, <2>1, <2>2, <2>3, <2>4, EditStep
<1> QED
  BY <1>1, <1>2, <1>3, <1>4

-----------------------------------------------------------------------------
(* Sessions at work *)

\* A session carries on: it drops from its copy only what is not owed any more.
LEMMA CarryOnStep ==
  ASSUME RssInv, NEW p \in Proc, NEW t, SoundSession(t),
         session' = [session EXCEPT ![p] = t], UNCHANGED <<hist, ftime, lost>>,
         WorldTyped', got' \subseteq got, applied' = applied,
         t.kind = session[p].kind, t.kind # "none", t.filters = session[p].filters,
         t.ftime = session[p].ftime, t.fresh = session[p].fresh,
         t.uses = session[p].uses, session[p].loads \cap got' \subseteq t.loads,
         LoadsIn(session[p].hist) \cap got' \subseteq LoadsIn(t.hist)
  PROVE  RssInv'
<1>1. UsesToSave(t) = UsesToSave(session[p])
  BY DEF UsesToSave
<1>2. Honest(session[p], t, got', applied')
  BY <1>1 DEF Honest
<1>3. GhostsTyped'
  BY DEF RssInv, TypeInv, GhostsTyped
<1> QED
  BY <1>2, <1>3, LocalStep

\* The session that visits feed f next, its history corrected to h.
LEMMA VisitFacts ==
  ASSUME RssInv, NEW p \in Proc, NEW f \in Feed, NEW items \in [Url -> Time],
         NEW h \in SoundHistory, NEW outdated, Visit(p, f, items, h, outdated),
         LoadsIn(session[p].hist) \ outdated \subseteq LoadsIn(h)
  PROVE  \E t : /\ SoundSession(t) /\ session' = [session EXCEPT ![p] = t]
                /\ t.kind = session[p].kind /\ t.kind # "none"
                /\ t.filters = session[p].filters
                /\ t.ftime = session[p].ftime /\ t.fresh = session[p].fresh
                /\ t.uses = session[p].uses /\ t.loads = session[p].loads \ outdated
                /\ t.hist = h
<1> DEFINE s == session[p]
           c == s.changed \/ h # s.hist
           ls == s.loads \ outdated
           t == [s EXCEPT !.todo = @ \ {f}, !.feed = f, !.items = items, !.pos = <<0, 0>>,
                          !.hist = h, !.changed = c, !.loads = ls]
<1>1. SoundSession(s) /\ s.todo # {}
  BY DEF RssInv, TypeInv, Visit
<1>2. s.kind # "none" /\ h \in History /\ c \in BOOLEAN /\ ls \subseteq LoadsIn(h)
      /\ ls \in SUBSET (Url \X Time)
  BY <1>1, SoundIsHistory DEF SoundSession, Session
<1>3. session' = [session EXCEPT ![p] = t] /\ (s.changed => c) /\ (ls # {} => s.loads # {})
  BY DEF Visit
<1>4. ls = session[p].loads \ outdated
  OBVIOUS
<1> HIDE DEF c, s, ls
<1>5. /\ t \in Session /\ t.kind = s.kind /\ t.ftime = s.ftime /\ t.fresh = s.fresh
      /\ t.feed = f /\ t.hist = h /\ t.changed = c /\ t.filters = s.filters
      /\ t.loads = ls /\ t.uses = s.uses /\ t.asked = s.asked
  BY <1>1, <1>2 DEF SoundSession, Session
<1> HIDE DEF t
<1>6. SoundSession(t)
  <2>1. UsesToSave(t) = UsesToSave(s)
    BY <1>5 DEF UsesToSave
  <2>2. t.loads # {} \/ t.uses # {} => Saves(s)
    BY <1>1, <1>3, <1>5 DEF SoundSession
  <2>3. Saves(s) => Saves(t)
    BY <1>3, <1>5 DEF Saves
  <2> QED
    BY <1>1, <1>2, <1>5, <2>1, <2>2, <2>3 DEF SoundSession
<1> QED
  BY <1>2, <1>3, <1>4, <1>5, <1>6 DEF s

LEMMA ServedType ==
  ASSUME RssInv, NEW f \in Feed
  PROVE  Served(f) \in [Url -> Time]
<1>1. stamp \in [Url -> 1..MaxStamp]
  BY DEF RssInv, TypeInv, WorldTyped
<1>2. \A u \in Url : stamp[u] \in Time /\ 0 \in Time
  BY <1>1 DEF Time
<1> QED
  BY <1>2 DEF Served

\* The sessions that correct their history while they fetch, whether or not the
\* feed can be cached.
LEMMA FetchStep ==
  ASSUME RssInv, NEW p \in Proc, NEW f \in Feed, NEW stored \in BOOLEAN, FetchOK(p, f, stored)
  PROVE  RssInv'
<1> DEFINE s == session[p]
           h == Corrected(s.hist, Served(f))
<1>1. s.hist \in SoundHistory
  BY DEF RssInv, TypeInv, SoundSession
<1>2. h \in SoundHistory /\ LoadsIn(s.hist) \ Outdated(f) \subseteq LoadsIn(h)
  BY <1>1, CorrectedSound
<1>3. Visit(p, f, Served(f), h, Outdated(f)) /\ got' = got \ Outdated(f)
  BY DEF FetchOK
<1> HIDE DEF h
<1>4. PICK t : /\ SoundSession(t) /\ session' = [session EXCEPT ![p] = t]
               /\ t.kind = session[p].kind /\ t.kind # "none"
               /\ t.filters = session[p].filters
               /\ t.ftime = session[p].ftime /\ t.fresh = session[p].fresh
               /\ t.uses = session[p].uses /\ t.loads = session[p].loads \ Outdated(f)
               /\ t.hist = h
  BY <1>2, <1>3, ServedType, VisitFacts
<1>5. /\ LoadsIn(session[p].hist) \cap got' \subseteq LoadsIn(t.hist)
      /\ session[p].loads \cap got' \subseteq t.loads
  BY <1>2, <1>3, <1>4
<1>6. UNCHANGED <<hist, ftime, lost, applied>> /\ got' \subseteq got
  BY <1>3 DEF FetchOK
<1>7. WorldTyped'
  <2>1. /\ cached' = IF stored THEN [cached EXCEPT ![f] = Served(f)] ELSE cached
        /\ UNCHANGED <<stamp, listed, filters>>
    BY DEF FetchOK
  <2> QED
    BY <2>1, ServedType DEF RssInv, TypeInv, WorldTyped
<1> QED
  BY <1>4, <1>5, <1>6, <1>7, CarryOnStep

LEMMA UseCachedStep ==
  ASSUME RssInv, NEW p \in Proc, NEW f \in Feed, UseCached(p, f)
  PROVE  RssInv'
<1>1. PICK h, items, none : h = session[p].hist /\ items = cached[f] /\ none = {}
  OBVIOUS
<1>2. h \in SoundHistory /\ items \in [Url -> Time]
  BY <1>1 DEF RssInv, TypeInv, SoundSession, WorldTyped
<1>3. Visit(p, f, items, h, none) /\ LoadsIn(session[p].hist) \ none \subseteq LoadsIn(h)
  BY <1>1 DEF UseCached
<1>4. PICK t : /\ SoundSession(t) /\ session' = [session EXCEPT ![p] = t]
               /\ t.kind = session[p].kind /\ t.kind # "none"
               /\ t.filters = session[p].filters
               /\ t.ftime = session[p].ftime /\ t.fresh = session[p].fresh
               /\ t.uses = session[p].uses /\ t.loads = session[p].loads \ none
               /\ t.hist = h
  BY <1>2, <1>3, VisitFacts
<1>5. UNCHANGED <<hist, ftime, lost, applied, got>> /\ WorldTyped'
  BY DEF UseCached, files, ghosts, RssInv, TypeInv, WorldTyped
<1> QED
  BY <1>1, <1>4, <1>5, CarryOnStep

LEMMA FetchFailsStep ==
  ASSUME RssInv, NEW p \in Proc, NEW f \in Feed, FetchFails(p, f)
  PROVE  RssInv'
<1> DEFINE s == session[p]
           t == [s EXCEPT !.todo = @ \ {f}]
<1>1. session' = [session EXCEPT ![p] = t] /\ SoundSession(s) /\ s.kind # "none"
  BY DEF FetchFails, RssInv, TypeInv
<1>2. UNCHANGED <<hist, ftime, lost, applied, got>> /\ WorldTyped'
  BY DEF FetchFails, files, ghosts, RssInv, TypeInv, WorldTyped
<1> HIDE DEF s
<1>3. /\ t \in Session /\ t.kind = s.kind /\ t.ftime = s.ftime /\ t.fresh = s.fresh
      /\ t.feed = s.feed /\ t.hist = s.hist /\ t.changed = s.changed /\ t.asked = s.asked
      /\ t.loads = s.loads /\ t.uses = s.uses /\ t.filters = s.filters
  BY <1>1 DEF SoundSession, Session
<1> HIDE DEF t
<1>4. SoundSession(t)
  BY <1>1, <1>3 DEF SoundSession, Saves, UsesToSave
<1> QED
  BY <1>1, <1>2, <1>3, <1>4, CarryOnStep DEF s

\* What a refreshing session has loaded it has saved before it fetches again, so
\* nothing it is owed goes unsaved when the feed cannot be cached.
LEMMA CachingFailsStep ==
  ASSUME RssInv, NEW p \in Proc, NEW f \in Feed, CachingFails(p, f)
  PROVE  RssInv'
<1> DEFINE s == session[p]
           h == Corrected(s.hist, Served(f))
           ls == s.loads \ Outdated(f)
           t == [s EXCEPT !.todo = @ \ {f}, !.hist = h, !.changed = TRUE, !.loads = ls]
<1>1. SoundSession(s) /\ s.kind # "none"
  BY DEF CachingFails, RssInv, TypeInv
<1>2. /\ h \in SoundHistory /\ h \in History
      /\ LoadsIn(s.hist) \ Outdated(f) \subseteq LoadsIn(h)
  BY <1>1, CorrectedSound, SoundIsHistory DEF SoundSession
<1>3. session' = [session EXCEPT ![p] = t] /\ got' = got \ Outdated(f)
  BY DEF CachingFails
<1>4. UNCHANGED <<hist, ftime, lost, applied>> /\ WorldTyped' /\ got' \subseteq got
  BY <1>3 DEF CachingFails, files, RssInv, TypeInv, WorldTyped
<1>5. ls \subseteq LoadsIn(h) /\ ls \in SUBSET (Url \X Time) /\ ls \subseteq s.loads
      /\ s.loads \cap got' \subseteq ls
  BY <1>1, <1>2, <1>3 DEF SoundSession, Session
<1> HIDE DEF s, h, ls
<1>6. /\ t \in Session /\ t.kind = s.kind /\ t.ftime = s.ftime /\ t.fresh = s.fresh
      /\ t.feed = s.feed /\ t.hist = h /\ t.changed /\ t.asked = s.asked
      /\ t.loads = ls /\ t.uses = s.uses /\ t.filters = s.filters
  BY <1>1, <1>2, <1>5 DEF SoundSession, Session
<1> HIDE DEF t
<1>7. SoundSession(t)
  <2>1. UsesToSave(t) = UsesToSave(s)
    BY <1>6 DEF UsesToSave
  <2>2. Saves(s) => Saves(t)
    BY <1>6 DEF Saves
  <2>3. t.loads # {} \/ t.uses # {} => Saves(s)
    BY <1>1, <1>5, <1>6 DEF SoundSession
  <2> QED
    BY <1>1, <1>2, <1>5, <1>6, <2>1, <2>2, <2>3 DEF SoundSession
<1>8. LoadsIn(s.hist) \cap got' \subseteq LoadsIn(t.hist)
  BY <1>2, <1>3, <1>6
<1> QED
  BY <1>1, <1>3, <1>4, <1>5, <1>6, <1>7, <1>8, CarryOnStep DEF s

\* Taking another time for a filter that is used now drops no use of a filter.
LEMMA UsedFilter ==
  ASSUME NEW ft \in FilterTimes, NEW f \in Filter, NEW ft2,
         ft2 = [ft EXCEPT ![f] = "recent"]
  PROVE  UsesIn(ft) \cup ({f} \X Use) \subseteq UsesIn(ft2)
<1>1. ft2[f] = "recent" /\ \A g \in Filter \ {f} : ft2[g] = ft[g]
  BY DEF FilterTimes
<1>2. ASSUME NEW a \in UsesIn(ft) PROVE a \in UsesIn(ft2)
  <2>1. a \in Filter \X Use /\ a[1] \in Filter
    BY DEF UsesIn
  <2> QED
    BY <1>1, <2>1 DEF UsesIn
<1>3. ASSUME NEW a \in {f} \X Use PROVE a \in UsesIn(ft2)
  <2>1. a \in Filter \X Use /\ a[1] = f
    OBVIOUS
  <2> QED
    BY <1>1, <2>1 DEF UsesIn
<1> QED
  BY <1>2, <1>3

\* checkFilters(): the item and the filter come to be owed a record, which the
\* session has and will save.
LEMMA LoadItemStep ==
  ASSUME RssInv, NEW p \in Proc, NEW x \in Filter \X Url,
         NEW hash \in {"Loaded", "Failed"}, LoadItem(p, x, hash)
  PROVE  RssInv'
<1> DEFINE s == session[p]
           load == IF hash = "Loaded" THEN {<<x[2], s.items[x[2]]>>} ELSE {}
           used == {x[1]} \X Use
           ls == s.loads \cup (load \ got)
           us == s.uses \cup (used \ applied)
           h == Added(s.hist, x[2], hash, s.items[x[2]])
           ft == [s.ftime EXCEPT ![x[1]] = "recent"]
           t == [s EXCEPT !.pos = x, !.changed = TRUE, !.ftime = ft, !.hist = h,
                          !.loads = ls, !.uses = us]
<1>1. SoundSession(s) /\ s.feed # NoFeed /\ s.kind # "none"
  BY DEF LoadItem, Visiting, RssInv, TypeInv, SoundSession
<1>2. session' = [session EXCEPT ![p] = t]
  BY DEF LoadItem
<1>3. /\ got' = got \cup load /\ applied' = applied \cup used
      /\ UNCHANGED <<hist, ftime, lost>> /\ WorldTyped'
  BY DEF LoadItem, files, RssInv, TypeInv, WorldTyped
<1>4. ~WasLoaded(s.hist, x[2]) /\ x \in s.filters \X Url
  BY DEF LoadItem, Wanted
<1> HIDE DEF s
<1>5. PICK f \in Filter, u \in Url, time \in Time :
        f = x[1] /\ u = x[2] /\ time = s.items[x[2]]
  BY <1>1 DEF SoundSession, Session
<1>6. s.hist \in SoundHistory /\ s.hist[u] \in SoundEntry /\ s.ftime \in FilterTimes
      /\ s.loads \subseteq LoadsIn(s.hist) /\ s.uses \subseteq UsesToSave(s)
      /\ s.loads \subseteq Url \X Time /\ s.uses \subseteq Filter \X Use
  BY <1>1 DEF SoundSession, SoundHistory, Session
<1>7. s.hist[u].hash # "Loaded" /\ (hash = "Failed" => s.hist[u].cnt <= MaxTry)
  <2>1. /\ s.hist[u].hash # "Loaded"
        /\ s.hist[u].hash = "Failed" => ~(s.hist[u].cnt > MaxTry)
    BY <1>4, <1>5 DEF WasLoaded
  <2>2. /\ s.hist[u].cnt \in 0..MaxTry+1 /\ s.hist[u].hash \in {"none", "Failed", "Loaded"}
        /\ s.hist[u].hash = "none" => s.hist[u].cnt = 0
    BY <1>6 DEF SoundEntry, Entry
  <2> QED
    BY <2>1, <2>2
<1>8. load = IF hash = "Loaded" THEN {<<u, time>>} ELSE {}
  BY <1>5
<1>9. h = Added(s.hist, u, hash, time)
  BY <1>5
<1> HIDE DEF h, load
<1>10. /\ h \in SoundHistory /\ h[u].hash = hash /\ h[u].time = time
      /\ \A v \in Url \ {u} : h[v] = s.hist[v]
  BY <1>6, <1>7, <1>9, AddedSound
<1>11. LoadsIn(s.hist) \subseteq LoadsIn(h) /\ load \subseteq LoadsIn(h)
  <2>1. /\ LoadsIn(s.hist) \subseteq LoadsIn(h)
        /\ hash = "Loaded" => <<u, time>> \in LoadsIn(h)
    BY <1>7, <1>10, OneRecord
  <2> QED
    BY <1>8, <2>1
<1>12. ft \in FilterTimes /\ UsesIn(s.ftime) \cup used \subseteq UsesIn(ft)
  <2>1. ft \in FilterTimes
    BY <1>5, <1>6 DEF FilterTimes
  <2>2. ft = [s.ftime EXCEPT ![f] = "recent"] /\ used = {f} \X Use
    BY <1>5
  <2> QED
    BY <1>6, <2>1, <2>2, UsedFilter
<1>13. load \subseteq Url \X Time /\ used \subseteq Filter \X Use
       /\ \A a \in used : a[1] \in s.filters
  BY <1>4, <1>5, <1>8
<1> HIDE DEF ft, used
<1>14. /\ ls \in SUBSET (Url \X Time) /\ us \in SUBSET (Filter \X Use)
       /\ ls \subseteq LoadsIn(h)
       /\ s.loads \subseteq ls /\ got' \subseteq got \cup ls
       /\ s.uses \subseteq us /\ applied' \subseteq applied \cup us
  BY <1>3, <1>6, <1>11, <1>13
<1>15. h \in History /\ x \in {<<0, 0>>} \cup (Filter \X Url)
  BY <1>10, SoundIsHistory
<1>16. \A a \in us : a \in s.uses \/ a \in used
  OBVIOUS
<1> HIDE DEF ls, us
<1>17. /\ t \in Session /\ t.kind = s.kind /\ t.fresh = s.fresh /\ t.feed = s.feed
       /\ t.hist = h /\ t.ftime = ft /\ t.changed /\ t.asked = s.asked
       /\ t.loads = ls /\ t.uses = us /\ t.filters = s.filters
  BY <1>1, <1>12, <1>14, <1>15 DEF SoundSession, Session
<1> HIDE DEF t
<1>18. UsesToSave(s) \subseteq UsesToSave(t)
  BY <1>12, <1>17 DEF UsesToSave
<1>19. us \subseteq UsesToSave(t)
  <2>1. ASSUME NEW a \in used PROVE a \in UsesToSave(t)
    BY <1>12, <1>13, <1>17, <2>1 DEF UsesToSave
  <2> QED
    BY <1>6, <1>16, <1>18, <2>1
<1>20. SoundSession(t)
  <2>1. Saves(t)
    BY <1>1, <1>17 DEF Saves
  <2> QED
    BY <1>1, <1>10, <1>14, <1>17, <1>19, <2>1 DEF SoundSession
<1>21. Honest(s, t, got', applied')
  BY <1>1, <1>11, <1>14, <1>17, <1>18 DEF Honest
<1>22. GhostsTyped'
  BY <1>3, <1>13 DEF RssInv, TypeInv, GhostsTyped
<1> QED
  BY <1>2, <1>3, <1>20, <1>21, <1>22, LocalStep DEF s

LEMMA LoadAskedStep ==
  ASSUME RssInv, NEW p \in Proc, NEW u \in Url,
         NEW hash \in {"Loaded", "Failed"}, LoadAsked(p, u, hash)
  PROVE  RssInv'
<1> DEFINE s == session[p]
           load == IF hash = "Loaded" THEN {<<u, s.items[u]>>} ELSE {}
           other == LoadsOf(u) \ load
           ls == (s.loads \ other) \cup (load \ got)
           h == Added(s.hist, u, hash, s.items[u])
           t == [s EXCEPT !.asked = @ \ {u}, !.changed = TRUE, !.hist = h, !.loads = ls]
<1>1. SoundSession(s) /\ s.kind = "manual" /\ (hash = "Failed" => s.hist[u].cnt <= MaxTry)
  BY DEF LoadAsked, RssInv, TypeInv, SoundSession
<1>2. session' = [session EXCEPT ![p] = t]
  BY DEF LoadAsked
<1>3. /\ got' = (got \ other) \cup load
      /\ UNCHANGED <<hist, ftime, lost, applied>> /\ WorldTyped'
  BY DEF LoadAsked, files, RssInv, TypeInv, WorldTyped
<1> HIDE DEF s
<1>4. PICK time \in Time : time = s.items[u]
  BY <1>1 DEF SoundSession, Session
<1>5. s.hist \in SoundHistory /\ s.loads \subseteq LoadsIn(s.hist) /\ s.loads \subseteq Url \X Time
  BY <1>1 DEF SoundSession, Session
<1>6. h = Added(s.hist, u, hash, time)
  BY <1>4
<1>7. load = IF hash = "Loaded" THEN {<<u, time>>} ELSE {}
  BY <1>4
<1> HIDE DEF h, load
<1>8. /\ h \in SoundHistory /\ h[u].hash = hash /\ h[u].time = time
      /\ \A v \in Url \ {u} : h[v] = s.hist[v]
  BY <1>1, <1>5, <1>6, AddedSound
<1>9. LoadsIn(s.hist) \ LoadsOf(u) \subseteq LoadsIn(h) /\ load \subseteq LoadsIn(h)
      /\ load \subseteq Url \X Time
  <2>1. /\ LoadsIn(s.hist) \ LoadsOf(u) \subseteq LoadsIn(h)
        /\ hash = "Loaded" => <<u, time>> \in LoadsIn(h)
    BY <1>8, OneRecord
  <2> QED
    BY <1>7, <2>1
<1>10. LoadsIn(s.hist) \ other \subseteq LoadsIn(h) /\ load \cap other = {}
  BY <1>9
<1> HIDE DEF other
<1>11. /\ ls \in SUBSET (Url \X Time) /\ ls \subseteq LoadsIn(h)
       /\ got' \subseteq got \cup ls
  BY <1>3, <1>5, <1>9, <1>10
<1>12. s.loads \cap got' \subseteq ls
  BY <1>3, <1>10
<1>13. h \in History
  BY <1>8, SoundIsHistory
<1> HIDE DEF ls
<1>14. /\ t \in Session /\ t.kind = s.kind /\ t.fresh = s.fresh /\ t.feed = s.feed
       /\ t.hist = h /\ t.ftime = s.ftime /\ t.changed /\ t.filters = s.filters
       /\ t.loads = ls /\ t.uses = s.uses
  BY <1>1, <1>11, <1>13 DEF SoundSession, Session
<1> HIDE DEF t
<1>15. UsesToSave(t) = UsesToSave(s)
  BY <1>14 DEF UsesToSave
<1>16. SoundSession(t)
  <2>1. Saves(t)
    BY <1>1, <1>14 DEF Saves
  <2> QED
    BY <1>1, <1>8, <1>11, <1>14, <1>15, <2>1 DEF SoundSession
<1>17. LoadsIn(s.hist) \cap got' \subseteq LoadsIn(h)
  BY <1>3, <1>9, <1>10
<1>18. Honest(s, t, got', applied')
  BY <1>1, <1>3, <1>11, <1>12, <1>14, <1>15, <1>17 DEF Honest
<1>19. GhostsTyped'
  BY <1>3, <1>9 DEF RssInv, TypeInv, GhostsTyped
<1> QED
  BY <1>2, <1>3, <1>16, <1>18, <1>19, LocalStep DEF s

-----------------------------------------------------------------------------
(* Saving *)

\* The session as it is after another one has saved: no more than fresh changes.
LEMMA OvertakenSound ==
  ASSUME NEW s, SoundSession(s), NEW b \in BOOLEAN, NEW r, r = [s EXCEPT !.fresh = b]
  PROVE  /\ SoundSession(r) /\ r.fresh = b
         /\ r.kind = s.kind /\ r.hist = s.hist /\ r.ftime = s.ftime /\ r.filters = s.filters
         /\ r.loads = s.loads /\ r.uses = s.uses
<1>1. /\ r \in Session /\ r.fresh = b /\ r.kind = s.kind /\ r.hist = s.hist
      /\ r.ftime = s.ftime /\ r.filters = s.filters /\ r.loads = s.loads /\ r.uses = s.uses
      /\ r.asked = s.asked /\ r.feed = s.feed /\ r.todo = s.todo /\ r.changed = s.changed
  BY DEF SoundSession, Session
<1>2. UsesToSave(r) = UsesToSave(s) /\ (Saves(s) <=> Saves(r))
  BY <1>1 DEF UsesToSave, Saves
<1> QED
  BY <1>1, <1>2 DEF SoundSession

\* Session s with its copy saved as h: it has nothing of its own that it has not saved.
SavedAs(s, h) == [s EXCEPT !.hist = h, !.changed = FALSE, !.loads = {}, !.uses = {}]

LEMMA SavedSound ==
  ASSUME NEW s \in Session, s.kind # "none", s.asked # {} => s.kind = "manual",
         NEW h \in SoundHistory, NEW r, r = SavedAs(s, h)
  PROVE  /\ SoundSession(r) /\ r.hist = h /\ r.loads = {} /\ r.uses = {}
         /\ r.kind = s.kind /\ r.ftime = s.ftime /\ r.filters = s.filters /\ r.fresh = s.fresh
<1>1. h \in History
  BY SoundIsHistory
<1>2. /\ r \in Session /\ r.hist = h /\ r.loads = {} /\ r.uses = {}
      /\ r.kind = s.kind /\ r.ftime = s.ftime /\ r.filters = s.filters /\ r.fresh = s.fresh
      /\ r.asked = s.asked
  BY <1>1 DEF Session, SavedAs
<1> QED
  BY <1>2 DEF SoundSession

\* What a process that is about to save, and to go on as next, has of its session:
\* s is its session, except for what setFilters() leaves out of the times.
Saving(p, s, next) ==
  /\ SoundSession(s) /\ s.kind # "none"
  /\ s.kind = session[p].kind /\ s.fresh = session[p].fresh /\ s.hist = session[p].hist
  /\ s.loads = session[p].loads /\ s.uses = session[p].uses
  /\ UsesIn(s.ftime) = UsesToSave(session[p])
  /\ \/ next = NoSession
     \/ /\ next \in Session /\ next.kind # "none"
        /\ next.asked # {} => next.kind = "manual"
        /\ next.hist = s.hist /\ next.fresh = s.fresh /\ UsesToSave(next) = UsesIn(s.ftime)
        /\ ~s.changed => next.loads = {} /\ next.uses = {}

\* The session after its save: gone, or with the copy as it was saved.
Saved(s, next) ==
  IF next = NoSession THEN next
  ELSE SavedAs(next, Pruned(s.hist))

LEMMA SavedFacts ==
  ASSUME RssInv, NEW p \in Proc, NEW s, NEW next, Saving(p, s, next), NEW n, n = Saved(s, next)
  PROVE  /\ SoundSession(n) /\ n.loads = {} /\ n.uses = {}
         /\ n.kind # "none" => /\ n.hist = Pruned(s.hist) /\ n.fresh = s.fresh
                               /\ UsesToSave(n) = UsesIn(s.ftime)
<1>1. NoSession.loads = {} /\ NoSession.uses = {}
  BY DEF NoSession
<1>2. CASE next = NoSession
  BY <1>1, <1>2, NoSessionSound DEF Saved
<1>3. CASE next # NoSession
  <2>1. PICK h \in SoundHistory : h = Pruned(s.hist)
    BY PrunedSound DEF Saving, SoundSession
  <2>2. n = SavedAs(next, h)
    BY <1>3, <2>1 DEF Saved
  <2>3. /\ next \in Session /\ next.kind # "none" /\ (next.asked # {} => next.kind = "manual")
        /\ next.fresh = s.fresh /\ UsesToSave(next) = UsesIn(s.ftime)
    BY <1>3 DEF Saving
  <2>4. /\ SoundSession(n) /\ n.hist = h /\ n.loads = {} /\ n.uses = {}
        /\ n.kind = next.kind /\ n.ftime = next.ftime /\ n.filters = next.filters
        /\ n.fresh = next.fresh
    BY ONLY <2>1, <2>2, <2>3, SavedSound
  <2>5. UsesToSave(n) = UsesToSave(next)
    BY <2>4 DEF UsesToSave
  <2> QED
    BY <2>1, <2>3, <2>4, <2>5
<1> QED
  BY <1>2, <1>3

\* saveHistory() that stores nothing: because nothing has changed, or because the
\* store fails, and then what the session had not saved is not owed any more.
LEMMA NothingStored ==
  ASSUME RssInv, NEW p \in Proc, NEW s, NEW next, Saving(p, s, next),
         NEW stored \in BOOLEAN, ~stored \/ ~(s.changed \/ Pruned(s.hist) # s.hist),
         SaveHistory(p, s, next, stored), WorldTyped'
  PROVE  RssInv'
<1>1. s.loads \subseteq LoadsIn(s.hist) /\ s.uses \subseteq UsesToSave(session[p])
      /\ (s.loads # {} \/ s.uses # {} => s.changed)
  BY DEF Saving, SoundSession, Saves, RssInv, TypeInv
<1>2. CASE ~(s.changed \/ Pruned(s.hist) # s.hist)
  <2>1. session' = [session EXCEPT ![p] = next] /\ UNCHANGED <<hist, ftime, lost, got, applied>>
    BY <1>2 DEF SaveHistory, ghosts
  <2>2. SoundSession(next) /\ NoSession.kind = "none"
    BY <1>2, NoSessionSound DEF Saving, SoundSession
  <2>3. GhostsTyped'
    BY <2>1 DEF RssInv, TypeInv, GhostsTyped
  <2>4. session[p].loads = {} /\ session[p].uses = {}
    BY <1>1, <1>2 DEF Saving
  <2>5. Honest(session[p], next, got', applied')
    BY <1>2, <2>1, <2>2, <2>4 DEF Honest, Saving
  <2> QED
    BY <2>1, <2>2, <2>3, <2>5, LocalStep
<1>3. CASE s.changed \/ Pruned(s.hist) # s.hist
  <2>1. SaveHistory(p, s, next, FALSE)
    BY <1>3
  <2>2. PICK n : n = Saved(s, next)
    OBVIOUS
  <2>3. /\ session' = [q \in Proc |->
               IF q # p THEN [session[q] EXCEPT !.fresh = @ /\ ~(FALSE /\ Active(q))] ELSE n]
        /\ hist' = hist /\ ftime' = ftime /\ lost' = (lost \/ (FALSE /\ ~s.fresh))
        /\ got' = got \ (OutOfFeeds(s.hist) \cup s.loads)
        /\ applied' = applied \ s.uses
    BY <1>3, <2>1, <2>2 DEF SaveHistory, Saved, SavedAs
  <2>4. lost' = lost
    BY <2>3 DEF RssInv, TypeInv, GhostsTyped
  <2>5. session' = [session EXCEPT ![p] = n]
    <3>1. ASSUME NEW q \in Proc \ {p}
          PROVE  [session[q] EXCEPT !.fresh = @ /\ ~(FALSE /\ Active(q))] = session[q]
      <4>1. session[q] \in Session
        BY DEF RssInv, TypeInv
      <4>2. PICK o : o = session[q]
        OBVIOUS
      <4>3. o.fresh \in BOOLEAN
        BY <4>1, <4>2 DEF Session
      <4>4. (o.fresh /\ ~(FALSE /\ Active(q))) = o.fresh
        BY <4>3
      <4>5. [o EXCEPT !.fresh = o.fresh] = o
        BY <4>1, <4>2 DEF Session
      <4> QED
        BY <4>2, <4>4, <4>5
    <3> QED
      BY <2>3, <3>1 DEF RssInv, TypeInv
  <2>6. /\ SoundSession(n) /\ n.loads = {} /\ n.uses = {}
        /\ n.kind # "none" => /\ n.hist = Pruned(s.hist) /\ n.fresh = s.fresh
                              /\ UsesToSave(n) = UsesIn(s.ftime)
    BY <2>2, SavedFacts
  <2>7. GhostsTyped'
    BY <2>3, <2>4 DEF RssInv, TypeInv, GhostsTyped
  <2>8. LoadsIn(s.hist) \cap got' \subseteq LoadsIn(Pruned(s.hist))
    <3>1. LoadsIn(s.hist) \ OutOfFeeds(s.hist) \subseteq LoadsIn(Pruned(s.hist))
      BY PrunedSound DEF Saving, SoundSession
    <3> QED
      BY <2>3, <3>1
  <2>9. got' \subseteq got /\ applied' \subseteq applied
        /\ session[p].loads \cap got' = {} /\ session[p].uses \cap applied' = {}
    BY <2>3 DEF Saving
  <2>10. Honest(session[p], n, got', applied')
    BY <2>6, <2>8, <2>9 DEF Honest, Saving
  <2> QED
    BY <2>3, <2>4, <2>5, <2>6, <2>7, <2>10, LocalStep
<1> QED
  BY <1>2, <1>3

\* saveHistory(): the copy replaces the stored one.  Unless the session missed
\* the save of another, all that is owed a record is in the copy or is brought by
\* another session; and from now on every other session counts as overtaken.
LEMMA SaveStep ==
  ASSUME RssInv, NEW p \in Proc, NEW s, NEW next, Saving(p, s, next),
         NEW stored \in BOOLEAN, SaveHistory(p, s, next, stored), WorldTyped'
  PROVE  RssInv'
<1>1. CASE ~stored \/ ~(s.changed \/ Pruned(s.hist) # s.hist)
  BY <1>1, NothingStored
<1>2. CASE stored /\ (s.changed \/ Pruned(s.hist) # s.hist)
  <2>1. PICK h, n : h = Pruned(s.hist) /\ n = Saved(s, next)
    OBVIOUS
  <2>2. /\ hist' = h /\ ftime' = s.ftime /\ lost' = (lost \/ ~s.fresh)
        /\ got' = got \ OutOfFeeds(s.hist) /\ applied' = applied
        /\ session' = [q \in Proc |->
             IF q # p THEN [session[q] EXCEPT !.fresh = @ /\ ~(stored /\ Active(q))] ELSE n]
    BY <1>2, <2>1 DEF SaveHistory, Saved, SavedAs
  <2>3. h \in SoundHistory /\ LoadsIn(s.hist) \ OutOfFeeds(s.hist) \subseteq LoadsIn(h)
    BY <2>1, PrunedSound DEF Saving, SoundSession
  <2>4. /\ SoundSession(n) /\ n.loads = {} /\ n.uses = {}
        /\ n.kind # "none" => n.hist = h /\ UsesToSave(n) = UsesIn(s.ftime)
    BY <2>1, SavedFacts
  <2>5. session'[p] = n
    BY <2>2
  <2>6. ASSUME NEW q \in Proc \ {p}
        PROVE  /\ SoundSession(session'[q])
               /\ session'[q].kind # "none" => ~session'[q].fresh
               /\ session'[q].loads = session[q].loads
               /\ session'[q].uses = session[q].uses
    <3>1. session[q].fresh \in BOOLEAN
      BY DEF RssInv, TypeInv, Session
    <3>2. PICK b \in BOOLEAN : b = (session[q].fresh /\ ~(stored /\ Active(q)))
      BY <3>1
    <3>3. PICK r, o : r = session'[q] /\ o = session[q]
      OBVIOUS
    <3>4. r = [o EXCEPT !.fresh = b] /\ SoundSession(o)
      BY <2>2, <3>2, <3>3 DEF RssInv, TypeInv
    <3>5. /\ SoundSession(r) /\ r.fresh = b /\ r.kind = o.kind
          /\ r.loads = o.loads /\ r.uses = o.uses
      BY ONLY <3>4, b \in BOOLEAN, OvertakenSound
    <3>6. o.kind # "none" => ~b
      BY <1>2, <3>2, <3>3 DEF Active
    <3> QED
      BY <3>3, <3>5, <3>6
  <2>7. TypeInv'
    <3>1. \A q \in Proc : SoundSession(session'[q])
      BY <2>4, <2>5, <2>6
    <3>2. session' \in [Proc -> Session]
      <4>1. \A q \in Proc : session'[q] \in Session
        BY <3>1 DEF SoundSession
      <4> QED
        BY <2>2, <4>1
    <3>3. hist' \in SoundHistory /\ ftime' \in FilterTimes
      BY <2>2, <2>3 DEF Saving, SoundSession, Session
    <3>4. s.fresh \in BOOLEAN
      BY DEF Saving, SoundSession, Session
    <3>5. GhostsTyped'
      BY <2>2, <3>4 DEF RssInv, TypeInv, GhostsTyped
    <3>6. (\A q \in Proc : SoundSession(session[q]))'
      BY <3>1
    <3> QED
      BY <3>2, <3>3, <3>5, <3>6 DEF TypeInv
  <2> SUFFICES ASSUME ~lost' PROVE Remembered'
    BY <2>7 DEF RssInv
  <2>8. Remembered /\ p \in Current
    BY <2>2 DEF RssInv, Current, Saving
  <2>9. \A q \in Proc \ {p} : MyLoads'[q] = MyLoads[q] /\ MyUses'[q] = MyUses[q]
    BY <2>6 DEF MyLoads, MyUses
  <2>10. \A q \in Current' : q = p /\ n.kind # "none"
    BY <2>5, <2>6 DEF Current
  <2>11. /\ CopyLoads[p] = LoadsIn(s.hist) /\ CopyUses[p] = UsesIn(s.ftime)
         /\ CopyLoads'[p] = LoadsIn(n.hist) /\ CopyUses'[p] = UsesToSave(n)
    BY <2>5 DEF CopyLoads, CopyUses, Saving
  <2>12. MyLoads[p] \subseteq CopyLoads[p] /\ MyUses[p] \subseteq CopyUses[p]
    BY DEF MyLoads, MyUses, CopyLoads, CopyUses, RssInv, TypeInv, SoundSession
  <2>13. LoadsIn(hist)' = LoadsIn(h) /\ UsesIn(ftime)' = UsesIn(s.ftime)
    BY <2>2 DEF LoadsIn, UsesIn
  <2>14. Kept(got, LoadsIn(hist), CopyLoads, MyLoads, Current)'
    <3>1. got' \subseteq got /\ CopyLoads[p] \cap got' \subseteq LoadsIn(h)
      BY <2>2, <2>3, <2>11
    <3>2. \A q \in Current' : LoadsIn(h) \cap got' \subseteq CopyLoads'[q]
      BY <2>4, <2>10, <2>11
    <3>3. Kept(got, LoadsIn(hist), CopyLoads, MyLoads, Current)
      BY <2>8 DEF Remembered
    <3>4. Kept(got', LoadsIn(h), CopyLoads', MyLoads', Current')
      BY ONLY <2>8, <2>9, <2>12, <3>1, <3>2, <3>3, KeptBySaving
    <3> QED
      BY <2>13, <3>4
  <2>15. Kept(applied, UsesIn(ftime), CopyUses, MyUses, Current)'
    <3>1. applied' \subseteq applied /\ CopyUses[p] \cap applied' \subseteq UsesIn(s.ftime)
      BY <2>2, <2>11
    <3>2. \A q \in Current' : UsesIn(s.ftime) \cap applied' \subseteq CopyUses'[q]
      BY <2>4, <2>10, <2>11
    <3>3. Kept(applied, UsesIn(ftime), CopyUses, MyUses, Current)
      BY <2>8 DEF Remembered
    <3>4. Kept(applied', UsesIn(s.ftime), CopyUses', MyUses', Current')
      BY ONLY <2>8, <2>9, <2>12, <3>1, <3>2, <3>3, KeptBySaving
    <3> QED
      BY <2>13, <3>4
  <2> QED
    BY <2>14, <2>15 DEF Remembered
<1> QED
  BY <1>1, <1>2

\* FinishFeed: updateRSS() saves, the others keep their changes for the end.
LEMMA FinishFeedStep ==
  ASSUME RssInv, NEW p \in Proc, NEW stored \in BOOLEAN, FinishFeed(p, stored)
  PROVE  RssInv'
<1> DEFINE s == session[p]
           next == [s EXCEPT !.feed = NoFeed, !.items = NoSession.items, !.pos = <<0, 0>>]
<1>1. SoundSession(s) /\ s.kind # "none"
  BY DEF FinishFeed, Visiting, RssInv, TypeInv, SoundSession
<1>2. NoSession.items \in [Url -> Time]
  BY NoSessionSound DEF SoundSession, Session
<1>3. IF s.kind = "refresh" THEN SaveHistory(p, s, next, stored)
      ELSE /\ session' = [session EXCEPT ![p] = next]
           /\ UNCHANGED <<hist, ftime, ghosts>>
  BY DEF FinishFeed
<1>4. WorldTyped'
  BY DEF FinishFeed, RssInv, TypeInv, WorldTyped
<1>5. UNCHANGED ghosts => UNCHANGED <<got, applied, lost>>
  BY DEF ghosts
<1> HIDE DEF s
<1>6. /\ next \in Session /\ next.kind = s.kind /\ next.ftime = s.ftime
      /\ next.fresh = s.fresh /\ next.hist = s.hist /\ next.changed = s.changed
      /\ next.loads = s.loads /\ next.uses = s.uses /\ next.filters = s.filters
      /\ next.asked = s.asked /\ next.todo = s.todo /\ next.feed = NoFeed
  BY <1>1, <1>2 DEF SoundSession, Session
<1> HIDE DEF next
<1>7. UsesToSave(next) = UsesToSave(s)
  BY <1>6 DEF UsesToSave
<1>8. CASE s.kind = "refresh"
  <2>1. UsesToSave(s) = UsesIn(s.ftime)
    BY <1>8 DEF UsesToSave, UsesIn
  <2>2. s.loads # {} \/ s.uses # {} => s.changed
    BY <1>1 DEF SoundSession, Saves
  <2>3. Saving(p, s, next)
    BY <1>1, <1>6, <1>7, <2>1, <2>2 DEF Saving, SoundSession, s
  <2> QED
    BY <1>3, <1>4, <1>8, <2>3, SaveStep
<1>9. CASE s.kind # "refresh"
  <2>1. SoundSession(next)
    BY <1>1, <1>6, <1>7, <1>9 DEF SoundSession, Saves
  <2> QED
    BY <1>1, <1>3, <1>4, <1>5, <1>6, <1>9, <2>1, CarryOnStep DEF s
<1> QED
  BY <1>8, <1>9

\* Finish: setFilters() saves without the times of the filters it removed.
LEMMA FinishStep ==
  ASSUME RssInv, NEW p \in Proc, NEW stored \in BOOLEAN, Finish(p, stored)
  PROVE  RssInv'
<1> DEFINE s == session[p]
           ft == IF s.kind = "setfilters" THEN WithoutOldFilters(s.ftime, s.filters)
                 ELSE s.ftime
           c == s.changed \/ ft # s.ftime
           t == [s EXCEPT !.ftime = ft, !.changed = c]
<1>1. SoundSession(s) /\ s.kind # "none" /\ s.feed = NoFeed
  BY DEF Finish, Active, Visiting, RssInv, TypeInv
<1>2. IF s.kind = "refresh"
      THEN /\ session' = [session EXCEPT ![p] = NoSession]
           /\ UNCHANGED <<hist, ftime, ghosts>>
      ELSE SaveHistory(p, t, NoSession, stored)
  BY DEF Finish
<1>3. WorldTyped' /\ UNCHANGED filters
  BY DEF Finish, RssInv, TypeInv, WorldTyped
<1>4. CASE s.kind = "refresh"
  <2>1. s.loads = {} /\ s.uses = {}
    BY <1>1, <1>4 DEF SoundSession, Saves
  <2>2. session' = [session EXCEPT ![p] = NoSession]
        /\ UNCHANGED <<hist, ftime, got, applied, lost>>
    BY <1>2, <1>4 DEF ghosts
  <2>3. GhostsTyped'
    BY <2>2 DEF RssInv, TypeInv, GhostsTyped
  <2>4. Honest(s, NoSession, got', applied')
    BY <2>1, <2>2, NoSessionSound DEF Honest
  <2> QED
    BY <1>3, <2>2, <2>3, <2>4, NoSessionSound, LocalStep
<1>5. CASE s.kind # "refresh"
  <2>1. SaveHistory(p, t, NoSession, stored)
    BY <1>2, <1>5
  <2>2. UsesIn(ft) = UsesToSave(s)
    <3>1. s.ftime \in FilterTimes /\ s.filters \subseteq Filter
      BY <1>1 DEF SoundSession, Session
    <3>2. CASE s.kind = "setfilters"
      <4>1. ft = [f \in Filter |-> IF f \in s.filters THEN s.ftime[f] ELSE "never"]
        BY <3>2 DEF WithoutOldFilters
      <4> HIDE DEF ft, s
      <4>2. ASSUME NEW a \in Filter \X Use
            PROVE  a \in UsesIn(ft) <=> a \in UsesIn(s.ftime) /\ a[1] \in s.filters
        <5>1. a[1] \in Filter
          OBVIOUS
        <5>2. ft[a[1]] = IF a[1] \in s.filters THEN s.ftime[a[1]] ELSE "never"
          BY <4>1, <5>1
        <5> QED
          BY <5>2 DEF UsesIn
      <4>3. UsesIn(ft) \subseteq Filter \X Use /\ UsesToSave(s) \subseteq Filter \X Use
        BY DEF UsesIn, UsesToSave
      <4>4. \A a : a \in UsesToSave(s) <=> a \in UsesIn(s.ftime) /\ a[1] \in s.filters
        BY <3>2 DEF UsesToSave
      <4> QED
        BY <4>2, <4>3, <4>4
    <3>3. CASE s.kind # "setfilters"
      BY <3>3 DEF UsesToSave, UsesIn
    <3> QED
      BY <3>2, <3>3
  <2>3. ft \in FilterTimes
    BY <1>1 DEF SoundSession, Session, WithoutOldFilters, FilterTimes
  <2>4. c \in BOOLEAN /\ (s.changed => c) /\ session[p] = s
    BY <1>1 DEF SoundSession, Session
  <2> HIDE DEF s, ft, c
  <2>5. /\ t \in Session /\ t.kind = s.kind /\ t.fresh = s.fresh /\ t.hist = s.hist
        /\ t.ftime = ft /\ t.changed = c /\ t.loads = s.loads /\ t.uses = s.uses
        /\ t.asked = s.asked /\ t.feed = s.feed /\ t.todo = s.todo /\ t.filters = s.filters
    BY <1>1, <2>3, <2>4 DEF SoundSession, Session
  <2> HIDE DEF t
  <2>6. UsesToSave(t) = UsesIn(ft)
    BY <2>2, <2>5 DEF UsesToSave
  <2>7. SoundSession(t)
    BY <1>1, <2>2, <2>4, <2>5, <2>6 DEF SoundSession, Saves
  <2>8. Saving(p, t, NoSession)
    BY <1>1, <2>2, <2>4, <2>5, <2>7 DEF Saving
  <2> QED
    BY <1>3, <2>1, <2>8, SaveStep
<1> QED
  BY <1>4, <1>5

\* Crash: what dies unsaved is not owed any more.
LEMMA CrashStep ==
  ASSUME RssInv, NEW p \in Proc, Crash(p)
  PROVE  RssInv'
<1>1. /\ session' = [session EXCEPT ![p] = NoSession]
      /\ got' = got \ session[p].loads /\ applied' = applied \ session[p].uses
      /\ UNCHANGED <<hist, ftime, lost>> /\ WorldTyped'
  BY DEF Crash, files, RssInv, TypeInv, WorldTyped
<1>2. Honest(session[p], NoSession, got', applied')
  BY <1>1, NoSessionSound DEF Honest
<1>3. GhostsTyped'
  BY <1>1 DEF RssInv, TypeInv, GhostsTyped
<1> QED
  BY <1>1, <1>2, <1>3, NoSessionSound, LocalStep

-----------------------------------------------------------------------------
(* The rest of the world *)

\* Remembering is about the histories and the sessions alone.
LEMMA WorldKeeps ==
  ASSUME RssInv, WorldTyped', UNCHANGED <<hist, ftime, session, ghosts>>
  PROVE  RssInv'
<1>1. UNCHANGED <<hist, ftime, session, got, applied, lost>>
  BY DEF ghosts
<1>2. TypeInv'
  BY <1>1 DEF RssInv, TypeInv, GhostsTyped, SoundSession, Saves, UsesToSave, UsesIn, LoadsIn
<1>3. Remembered => Remembered'
  <2>1. UNCHANGED <<LoadsIn(hist), UsesIn(ftime), CopyLoads, CopyUses, MyLoads, MyUses, Current>>
    BY <1>1 DEF CopyLoads, CopyUses, MyLoads, MyUses, Current, LoadsIn, UsesIn, UsesToSave
  <2> QED
    BY <1>1, <2>1 DEF Remembered
<1> QED
  BY <1>1, <1>2, <1>3 DEF RssInv

Older(ft) == [f \in Filter |-> IF ft[f] = "recent" THEN "elapsed" ELSE ft[f]]

Past == Filter \X {"recent"}

\* What has been applied has been applied, but no more recently.
LEMMA OlderUses ==
  ASSUME NEW ft \in FilterTimes
  PROVE  Older(ft) \in FilterTimes /\ UsesIn(Older(ft)) = UsesIn(ft) \ Past
<1>1. \A f \in Filter : Older(ft)[f] = IF ft[f] = "recent" THEN "elapsed" ELSE ft[f]
  BY DEF Older
<1>2. Older(ft) \in FilterTimes
  BY DEF Older, FilterTimes
<1>3. ASSUME NEW a \in Filter \X Use
      PROVE  a \in UsesIn(Older(ft)) <=> a \in UsesIn(ft) /\ a \notin Past
  <2>1. a[1] \in Filter /\ (a[2] = "used" \/ a[2] = "recent") /\ a = <<a[1], a[2]>>
    BY DEF Use
  <2>2. Older(ft)[a[1]] = IF ft[a[1]] = "recent" THEN "elapsed" ELSE ft[a[1]]
    BY <1>1, <2>1
  <2>3. a \in Past <=> a[2] = "recent"
    BY <2>1 DEF Past
  <2> QED
    BY <2>1, <2>2, <2>3 DEF UsesIn
<1>4. UsesIn(Older(ft)) \subseteq Filter \X Use /\ UsesIn(ft) \subseteq Filter \X Use
  BY DEF UsesIn
<1> QED
  BY <1>2, <1>3, <1>4

\* Dropping the same from all that is owed, recorded and brought keeps the rest.
LEMMA KeptWithout ==
  ASSUME NEW owed, NEW stored, NEW copy, NEW mine, NEW current, NEW past,
         current \subseteq Proc, NEW owed2, NEW stored2, NEW copy2, NEW mine2,
         Kept(owed, stored, copy, mine, current),
         owed2 \subseteq owed \ past, stored \ past \subseteq stored2,
         \A p \in Proc : copy[p] \ past \subseteq copy2[p] /\ mine[p] \ past \subseteq mine2[p]
  PROVE  Kept(owed2, stored2, copy2, mine2, current)
<1>1. ASSUME NEW x \in owed2, x \in Brought(mine) PROVE x \in Brought(mine2)
  <2>1. PICK q \in Proc : x \in mine[q]
    BY <1>1 DEF Brought
  <2>2. x \in mine2[q]
    BY <2>1
  <2> QED
    BY <2>2 DEF Brought
<1>2. owed \subseteq stored \cup Brought(mine)
      /\ \A q \in current : owed \subseteq copy[q] \cup Brought(mine)
  BY DEF Kept
<1>3. owed2 \subseteq stored2 \cup Brought(mine2)
  BY <1>1, <1>2
<1>4. ASSUME NEW q \in current, NEW x \in owed2 PROVE x \in copy2[q] \cup Brought(mine2)
  BY <1>1, <1>2
<1> QED
  BY <1>3, <1>4 DEF Kept

\* HoursPass: from now on nothing counts as used within its hours.
LEMMA HoursStep ==
  ASSUME RssInv, HoursPass
  PROVE  RssInv'
<1>1. /\ ftime' = Older(ftime) /\ applied' = applied \ Past
      /\ session' = [p \in Proc |-> [session[p] EXCEPT !.ftime = Older(@), !.uses = @ \ Past]]
      /\ UNCHANGED <<stamp, listed, cached, hist, filters, got, lost>>
  BY DEF HoursPass, Older, Past
<1>2. ASSUME NEW p \in Proc
      PROVE  /\ SoundSession(session'[p])
             /\ session'[p].kind = session[p].kind /\ session'[p].fresh = session[p].fresh
             /\ session'[p].hist = session[p].hist /\ session'[p].loads = session[p].loads
             /\ session'[p].uses = session[p].uses \ Past
             /\ UsesToSave(session'[p]) = UsesToSave(session[p]) \ Past
  <2>1. PICK s, t, ft, us : /\ s = session[p] /\ t = session'[p]
                            /\ ft = Older(s.ftime) /\ us = s.uses \ Past
    OBVIOUS
  <2>2. t = [s EXCEPT !.ftime = ft, !.uses = us] /\ SoundSession(s)
    BY <1>1, <2>1 DEF RssInv, TypeInv
  <2>3. s.ftime \in FilterTimes /\ us \in SUBSET (Filter \X Use)
    BY <2>1, <2>2 DEF SoundSession, Session
  <2>4. ft \in FilterTimes /\ UsesIn(ft) = UsesIn(s.ftime) \ Past
    BY <2>1, <2>3, OlderUses
  <2>5. /\ t \in Session /\ t.kind = s.kind /\ t.fresh = s.fresh /\ t.hist = s.hist
        /\ t.loads = s.loads /\ t.uses = us /\ t.ftime = ft /\ t.changed = s.changed
        /\ t.feed = s.feed /\ t.asked = s.asked /\ t.todo = s.todo /\ t.filters = s.filters
    BY <2>2, <2>3, <2>4 DEF SoundSession, Session
  <2>6. UsesToSave(t) = UsesToSave(s) \ Past
    BY <2>4, <2>5 DEF UsesToSave
  <2>7. us \subseteq UsesToSave(t) /\ (us # {} => s.uses # {})
    BY <2>1, <2>2, <2>6 DEF SoundSession
  <2>8. Saves(s) => Saves(t)
    BY <2>5 DEF Saves
  <2>9. SoundSession(t)
    BY <2>2, <2>5, <2>7, <2>8 DEF SoundSession
  <2> QED
    BY <2>1, <2>5, <2>6, <2>9
<1>3. TypeInv'
  <2>1. \A p \in Proc : session'[p] \in Session
    BY <1>2 DEF SoundSession
  <2>2. session' \in [Proc -> Session]
    BY <1>1, <2>1
  <2>3. ftime' \in FilterTimes
    BY <1>1, OlderUses DEF RssInv, TypeInv
  <2>4. (\A p \in Proc : SoundSession(session[p]))'
    BY <1>2
  <2>5. WorldTyped' /\ GhostsTyped'
    BY <1>1 DEF RssInv, TypeInv, WorldTyped, GhostsTyped
  <2>6. hist' \in SoundHistory
    BY <1>1 DEF RssInv, TypeInv
  <2> QED
    BY <2>2, <2>3, <2>4, <2>5, <2>6 DEF TypeInv
<1>4. Remembered => Remembered'
  <2>1. UNCHANGED <<CopyLoads, MyLoads, Current>> /\ LoadsIn(hist)' = LoadsIn(hist)
    <3>1. UNCHANGED CopyLoads
      <4>1. \A p \in Proc : LoadsIn(session[p].hist)' = LoadsIn(session[p].hist)
        BY <1>2 DEF LoadsIn
      <4> QED
        BY <4>1 DEF CopyLoads
    <3>2. UNCHANGED MyLoads
      BY <1>2 DEF MyLoads
    <3>3. UNCHANGED Current
      BY <1>2 DEF Current
    <3>4. LoadsIn(hist)' = LoadsIn(hist)
      BY <1>1 DEF LoadsIn
    <3> QED
      BY <3>1, <3>2, <3>3, <3>4
  <2>2. UsesIn(ftime)' = UsesIn(ftime) \ Past
    <3>1. UsesIn(ftime)' = UsesIn(Older(ftime))
      BY <1>1 DEF UsesIn
    <3> QED
      BY <3>1, OlderUses DEF RssInv, TypeInv
  <2>3. \A p \in Proc : CopyUses'[p] = CopyUses[p] \ Past /\ MyUses'[p] = MyUses[p] \ Past
    <3>1. \A p \in Proc : UsesToSave(session[p])' = UsesToSave(session'[p])
      BY DEF UsesToSave, UsesIn
    <3> QED
      BY <1>2, <3>1 DEF CopyUses, MyUses
  <2>4. ASSUME Kept(applied, UsesIn(ftime), CopyUses, MyUses, Current)
        PROVE  Kept(applied, UsesIn(ftime), CopyUses, MyUses, Current)'
    <3>1. Current \subseteq Proc
      BY DEF Current
    <3>2. applied' \subseteq applied \ Past
      BY <1>1
    <3>3. PICK st, st2 : st = UsesIn(ftime) /\ st2 = UsesIn(ftime)'
      OBVIOUS
    <3>4. Kept(applied, st, CopyUses, MyUses, Current) /\ st \ Past \subseteq st2
      BY <2>2, <2>4, <3>3
    <3>5. \A p \in Proc : CopyUses[p] \ Past \subseteq CopyUses'[p]
                          /\ MyUses[p] \ Past \subseteq MyUses'[p]
      BY <2>3
    <3>6. Kept(applied', st2, CopyUses', MyUses', Current)
      BY ONLY <3>1, <3>2, <3>4, <3>5, KeptWithout
    <3> QED
      BY <2>1, <3>3, <3>6
  <2> QED
    BY <1>1, <2>1, <2>4 DEF Remembered
<1> QED
  BY <1>1, <1>3, <1>4 DEF RssInv

LEMMA WorldStep ==
  ASSUME RssInv, World
  PROVE  RssInv'
<1>1. ASSUME NEW u \in Url, Republish(u) PROVE RssInv'
  <2>1. stamp' = [stamp EXCEPT ![u] = @ + 1] /\ stamp[u] < MaxStamp
    BY <1>1 DEF Republish
  <2>2. stamp' \in [Url -> 1..MaxStamp]
    BY <2>1 DEF RssInv, TypeInv, WorldTyped
  <2>3. WorldTyped' /\ UNCHANGED <<hist, ftime, session, ghosts>>
    BY <1>1, <2>2 DEF Republish, files, RssInv, TypeInv, WorldTyped
  <2> QED
    BY <2>3, WorldKeeps
<1>2. ASSUME NEW f \in Feed, Relist(f) PROVE RssInv'
  <2>1. WorldTyped' /\ UNCHANGED <<hist, ftime, session, ghosts>>
    BY <1>2 DEF Relist, files, RssInv, TypeInv, WorldTyped
  <2> QED
    BY <2>1, WorldKeeps
<1>3. CASE HoursPass
  BY <1>3, HoursStep
<1> QED
  BY <1>1, <1>2, <1>3 DEF World

-----------------------------------------------------------------------------
(* The invariant *)

LEMMA RssStarts == Init => RssInv
<1> SUFFICES ASSUME Init PROVE RssInv
  OBVIOUS
<1>1. /\ stamp = [u \in Url |-> 1] /\ listed \in [Feed -> SUBSET Url]
      /\ cached = [f \in Feed |-> Served(f)] /\ hist = [u \in Url |-> Absent]
      /\ ftime = [f \in Filter |-> "never"] /\ filters \in SUBSET Filter
      /\ session = [p \in Proc |-> NoSession]
      /\ got = {} /\ applied = {} /\ lost = FALSE
  BY DEF Init
<1>2. stamp \in [Url -> 1..MaxStamp]
  BY <1>1
<1>3. \A f \in Feed : Served(f) \in [Url -> Time]
  <2>1. \A u \in Url : stamp[u] \in Time /\ 0 \in Time
    BY <1>2 DEF Time
  <2> QED
    BY <2>1 DEF Served
<1>4. hist \in SoundHistory /\ ftime \in FilterTimes
  BY <1>1, AbsentSound DEF SoundHistory, FilterTimes
<1>5. session \in [Proc -> Session] /\ \A p \in Proc : SoundSession(session[p])
  BY <1>1, NoSessionSound DEF SoundSession
<1>6. Remembered
  BY <1>1 DEF Remembered, Kept
<1>7. WorldTyped /\ GhostsTyped
  BY <1>1, <1>2, <1>3 DEF WorldTyped, GhostsTyped
<1> QED
  BY <1>4, <1>5, <1>6, <1>7 DEF RssInv, TypeInv

LEMMA RssStep ==
  ASSUME RssInv, [Next]_vars
  PROVE  RssInv'
<1>1. ASSUME NEW p \in Proc, Request(p) PROVE RssInv'
  BY <1>1, StartStep, SetFiltersStep, ManualStep, EditsStep DEF Request
<1>2. ASSUME NEW p \in Proc, Work(p) \/ Unstored(p) PROVE RssInv'
  <2>1. ASSUME NEW f \in Feed, NEW stored \in BOOLEAN,
               FetchOK(p, f, stored) \/ UseCached(p, f) \/ FetchFails(p, f) \/ CachingFails(p, f)
        PROVE  RssInv'
    BY <2>1, FetchStep, UseCachedStep, FetchFailsStep, CachingFailsStep
  <2>2. ASSUME NEW x \in Filter \X Url, NEW hash \in {"Loaded", "Failed"},
               LoadItem(p, x, hash)
        PROVE  RssInv'
    BY <2>2, LoadItemStep
  <2>3. ASSUME NEW u \in Url, NEW hash \in {"Loaded", "Failed"}, LoadAsked(p, u, hash)
        PROVE  RssInv'
    BY <2>3, LoadAskedStep
  <2>4. ASSUME NEW stored \in BOOLEAN, FinishFeed(p, stored) \/ Finish(p, stored)
        PROVE  RssInv'
    BY <2>4, FinishFeedStep, FinishStep
  <2>5. TRUE \in BOOLEAN /\ FALSE \in BOOLEAN
    OBVIOUS
  <2>6. CASE Work(p)
    BY <2>1, <2>2, <2>3, <2>4, <2>5, <2>6 DEF Work
  <2>7. CASE Unstored(p)
    BY <2>1, <2>4, <2>5, <2>7 DEF Unstored
  <2> QED
    BY <1>2, <2>6, <2>7
<1>3. CASE UNCHANGED vars
  <2>1. WorldTyped' /\ UNCHANGED <<hist, ftime, session, ghosts>>
    BY <1>3 DEF vars, files, RssInv, TypeInv, WorldTyped
  <2> QED
    BY <2>1, WorldKeeps
<1> QED
  BY <1>1, <1>2, <1>3, WorldStep, CrashStep DEF Next, Calm

LEMMA RssInvariant == Spec => []RssInv
<1>1. RssInv /\ [Next]_vars => RssInv'
  BY RssStep
<1> QED
  BY <1>1, RssStarts, PTL DEF Spec

-----------------------------------------------------------------------------
(* What it gives *)

\* The records, sets and bounds of the rss plugin are those of TypeOK; above all,
\* no step counts more failures of an item than the one too many.
THEOREM HistoryTypeCorrect == Spec => []TypeOK
<1>1. RssInv => TypeOK
  BY SoundIsHistory DEF RssInv, TypeInv, TypeOK, WorldTyped, GhostsTyped
<1> QED
  BY <1>1, RssInvariant, PTL

\* What a session has loaded and used since its last save it has in its copy, and
\* it will save it.
LEMMA MineUnsaved ==
  ASSUME RssInv, NEW p \in Proc
  PROVE  /\ session[p].loads \subseteq LoadsIn(session[p].hist)
         /\ session[p].uses \subseteq UsesIn(session[p].ftime)
         /\ session[p].loads # {} \/ session[p].uses # {} => p \in Unsaved
BY DEF RssInv, TypeInv, SoundSession, UsesToSave, Saves, Unsaved, Active

\* What was loaded is never forgotten: the history file says so or the session that
\* loaded it does and will save it, whichever files could not be stored, as long as
\* no session saved over the save of another.
THEOREM HistoryLoadsRemembered == Spec => []LoadsRemembered
<1>1. RssInv => LoadsRemembered
  <2> SUFFICES ASSUME RssInv, ~lost, NEW g \in got, g \notin LoadsIn(hist)
               PROVE  \E p \in Unsaved : g \in session[p].loads \cap LoadsIn(session[p].hist)
    BY DEF LoadsRemembered
  <2>1. PICK p \in Proc : g \in session[p].loads
    BY DEF RssInv, Remembered, Kept, Brought, MyLoads
  <2> QED
    BY <2>1, MineUnsaved
<1> QED
  BY <1>1, RssInvariant, PTL

\* Likewise for the times at which the filters were last used.
THEOREM HistoryPacingRemembered == Spec => []PacingRemembered
<1>1. RssInv => PacingRemembered
  <2> SUFFICES ASSUME RssInv, ~lost, NEW a \in applied, a \notin UsesIn(ftime)
               PROVE  \E p \in Unsaved : a \in session[p].uses \cap UsesIn(session[p].ftime)
    BY DEF PacingRemembered
  <2>1. PICK p \in Proc : a \in session[p].uses
    BY DEF RssInv, Remembered, Kept, Brought, MyUses
  <2> QED
    BY <2>1, MineUnsaved
<1> QED
  BY <1>1, RssInvariant, PTL

\* A session that has missed no save does not load what is in its copy, and that is
\* all that is owed a record and not with another session.
LEMMA LoadIsFirst ==
  ASSUME RssInv, NEW p \in Proc, NEW x \in Filter \X Url, NEW g \in got,
         LoadItem(p, x, "Loaded"), g[1] = x[2]
  PROVE  \/ lost \/ ~session[p].fresh
         \/ \E q \in Proc \ {p} : g \in session[q].loads
<1> SUFFICES ASSUME ~lost, session[p].fresh
             PROVE  \E q \in Proc \ {p} : g \in session[q].loads
  OBVIOUS
<1>1. Visiting(p) /\ ~WasLoaded(session[p].hist, x[2])
  BY DEF LoadItem, Wanted
<1>2. p \in Current
  BY <1>1 DEF Visiting, Current, RssInv, TypeInv, SoundSession
<1>3. g \notin LoadsIn(session[p].hist)
  BY <1>1 DEF LoadsIn, WasLoaded
<1>4. PICK q \in Proc : g \in session[q].loads
  <2>1. CopyLoads[p] = LoadsIn(session[p].hist)
    BY DEF CopyLoads
  <2>2. g \in CopyLoads[p] \cup Brought(MyLoads)
    BY <1>2 DEF RssInv, Remembered, Kept
  <2>3. g \in Brought(MyLoads)
    BY <1>3, <2>1, <2>2
  <2> QED
    BY <2>3 DEF Brought, MyLoads
<1>5. q # p
  BY <1>3, <1>4, MineUnsaved
<1> QED
  BY <1>4, <1>5

\* Nothing is loaded twice by a session that has missed no save, unless another has
\* loaded it and not yet saved.
THEOREM HistoryNoSecondLoad == Spec => NoSecondLoad
<1> DEFINE A == \A p \in Proc, x \in Filter \X Url, g \in got :
                  LoadItem(p, x, "Loaded") /\ g[1] = x[2] =>
                    \/ lost \/ ~session[p].fresh
                    \/ \E q \in Proc \ {p} : g \in session[q].loads
<1>1. RssInv /\ [Next]_vars => [A]_vars
  BY LoadIsFirst
<1>2. Spec => [][A]_vars
  BY <1>1, RssInvariant, PTL DEF Spec
<1> QED
  BY <1>2 DEF NoSecondLoad

\* Nor does it apply a filter whose use, recent enough to count, is in its copy.
LEMMA UseIsDue ==
  ASSUME RssInv, NEW p \in Proc, NEW x \in Filter \X Url,
         NEW hash \in {"Loaded", "Failed"}, NEW a \in applied,
         LoadItem(p, x, hash), a[1] = x[1],
         Interval[x[1]] = "once" \/ (Interval[x[1]] = "hours" /\ a[2] = "recent")
  PROVE  \/ lost \/ ~session[p].fresh
         \/ \E q \in Proc \ {p} : a \in session[q].uses
<1> SUFFICES ASSUME ~lost, session[p].fresh
             PROVE  \E q \in Proc \ {p} : a \in session[q].uses
  OBVIOUS
<1>1. Visiting(p) /\ MayBeApplied(session[p].ftime, x[1])
  BY DEF LoadItem, Wanted
<1>2. p \in Current
  BY <1>1 DEF Visiting, Current, RssInv, TypeInv, SoundSession
<1>3. a \notin UsesIn(session[p].ftime)
  BY <1>1 DEF UsesIn, MayBeApplied
<1>4. a \notin UsesToSave(session[p])
  BY <1>3 DEF UsesToSave
<1>5. PICK q \in Proc : a \in session[q].uses
  <2>1. CopyUses[p] = UsesToSave(session[p])
    BY DEF CopyUses
  <2>2. a \in CopyUses[p] \cup Brought(MyUses)
    BY <1>2 DEF RssInv, Remembered, Kept
  <2>3. a \in Brought(MyUses)
    BY <1>4, <2>1, <2>2
  <2> QED
    BY <2>3 DEF Brought, MyUses
<1>6. q # p
  BY <1>3, <1>5, MineUnsaved
<1> QED
  BY <1>5, <1>6

\* A filter that may load once, or once in some hours, does so, whatever comes of
\* the torrents it is applied for, unless another session has used it and not yet
\* saved.
THEOREM HistoryNotTooOften == Spec => NotTooOften
<1> DEFINE A == \A p \in Proc, x \in Filter \X Url, hash \in {"Loaded", "Failed"},
                   a \in applied :
                  /\ LoadItem(p, x, hash)
                  /\ a[1] = x[1]
                  /\ \/ Interval[x[1]] = "once"
                     \/ Interval[x[1]] = "hours" /\ a[2] = "recent"
                  => \/ lost \/ ~session[p].fresh
                     \/ \E q \in Proc \ {p} : a \in session[q].uses
<1>1. RssInv /\ [Next]_vars => [A]_vars
  BY UseIsDue
<1>2. Spec => [][A]_vars
  BY <1>1, RssInvariant, PTL DEF Spec
<1> QED
  BY <1>2 DEF NotTooOften
=============================================================================
