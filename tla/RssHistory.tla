----------------------------- MODULE RssHistory -----------------------------
(***************************************************************************)
(* How the rss plugin decides what to load (plugins/rss/rss.php, classes   *)
(* rRSSManager, rRSSHistory, rRSSFilter).                                  *)
(*                                                                         *)
(* Every PHP process works on its own copy of the history file: it loads   *)
(* the file when it starts, corrects and extends the copy while it fetches *)
(* feeds and sends torrents to rTorrent, and writes the whole copy back at *)
(* the points where the code calls saveHistory().  The file has no merge() *)
(* and nothing locks it meanwhile: the lock rss/update only keeps two      *)
(* scheduled updates apart.                                                *)
(*                                                                         *)
(* A stored file is one atomic value here (see CacheFile for when that is  *)
(* so).  A store may fail, and saveHistory() does not look at the result.  *)
(* A session is one such process, from its constructor on.                 *)
(*                                                                         *)
(* The history variables say what the history owes: a record of each item  *)
(* loaded, with the timestamp it was loaded with, and of the last use of   *)
(* each filter.  They follow what happens outside: torrents sent, requests *)
(* of the user, what the server answers, files that could not be stored;   *)
(* not what the copies of the history become.                              *)
(***************************************************************************)
EXTENDS Naturals, FiniteSets

CONSTANTS Proc,      \* PHP processes
          Feed,      \* the subscribed, enabled feeds
          Url,       \* items of feeds, in the order of the feed: 1..n
          Filter,    \* filters, in the order of their names: 1..m
          Matches,   \* Matches[f]: the items filter f accepts
          Interval,  \* Interval[f]: "always" (-1), "once" (0) or "hours" (> 0)
          MaxStamp,  \* bound: an item is published with timestamps 1..MaxStamp
          MaxTry,    \* HISTORY_MAX_TRY
          MaxCount,  \* HISTORY_MAX_COUNT
          NoFeed

ASSUME RssHistoryAssumption ==
  /\ Url \subseteq Nat /\ Filter \subseteq Nat
  /\ Matches \in [Filter -> SUBSET Url]
  /\ Interval \in [Filter -> {"always", "once", "hours"}]
  /\ MaxStamp \in Nat \ {0} /\ MaxTry \in Nat /\ MaxCount \in Nat
  /\ NoFeed \notin Feed

VARIABLES stamp,    \* the timestamp each item is published with
          listed,   \* the items each feed lists at its server
          cached,   \* the timestamps of the items in each cached feed, 0: absent
          hist,     \* the history file: what happened to each item
          ftime,    \* the history file: how long ago each filter was applied
          filters,  \* the filter file: the filters that exist
          session,  \* what each process is doing
          got,      \* history: the items loaded, with their timestamps, still owed
                    \* a record
          applied,  \* history: the uses of filters still owed a record
          lost      \* history: a session saved over the save of another

ghosts == <<got, applied, lost>>
files == <<cached, hist, ftime, filters>>
vars == <<stamp, listed, files, session, ghosts>>

Time == 0..MaxStamp

\* A filter has been applied at all, or within its hours.
Use == {"used", "recent"}

Absent == [hash |-> "none", time |-> 0, cnt |-> 0]

Entry == [hash : {"none", "Failed", "Loaded"}, time : Time, cnt : 0..MaxTry+1]

History == [Url -> Entry]

FilterTimes == [Filter -> {"never", "recent", "elapsed"}]

Session == [kind    : {"none", "update", "refresh", "setfilters", "edit", "manual"},
            todo    : SUBSET Feed,          \* feeds still to be visited
            feed    : Feed \cup {NoFeed},   \* feed whose items are being checked
            items   : [Url -> Time],         \* the items of that feed
            pos     : {<<0, 0>>} \cup (Filter \X Url), \* last pair checked
            asked   : SUBSET Url,           \* items the user wants loaded
            filters : SUBSET Filter,        \* as loaded
            hist    : History,              \* the copy of the history
            ftime   : FilterTimes,
            changed : BOOLEAN,              \* the copy has unsaved changes
            fresh   : BOOLEAN,              \* nobody saved since it was loaded
            loads   : SUBSET (Url \X Time),   \* what it loaded since its last save
            uses    : SUBSET (Filter \X Use)] \* and the filters it used

TypeOK ==
  /\ stamp \in [Url -> 1..MaxStamp]
  /\ listed \in [Feed -> SUBSET Url]
  /\ cached \in [Feed -> [Url -> Time]]
  /\ hist \in History /\ ftime \in FilterTimes
  /\ filters \subseteq Filter
  /\ session \in [Proc -> Session]
  /\ got \subseteq Url \X Time /\ applied \subseteq Filter \X Use
  /\ lost \in BOOLEAN

-----------------------------------------------------------------------------
(* rRSSHistory and rRSSFilter *)

\* Mutant: an item is tried however often it failed.
NeverGivenUp(h, u) == h[u].hash = "Loaded"

\* Mutant: only the counter is looked at.
OnlyCounted(h, u) == h[u].cnt > MaxTry

WasLoaded(h, u) ==
  \/ h[u].hash = "Loaded"
  \/ h[u].hash = "Failed" /\ h[u].cnt > MaxTry

\* Mutant: failures are not counted.
NotCounted(h, u, hash, time) ==
  [h EXCEPT ![u] = [hash |-> hash, time |-> time, cnt |-> 0]]

\* add(): the failures of an item are counted as long as its timestamp is the same.
Added(h, u, hash, time) ==
  LET cnt == IF h[u].time = time THEN h[u].cnt ELSE 0
  IN  [h EXCEPT ![u] = [hash |-> hash, time |-> time,
                        cnt |-> IF hash = "Failed" THEN cnt + 1 ELSE cnt]]

\* Mutant: the timestamps are compared the wrong way round.
CorrectedIfSame(h, items) ==
  [u \in Url |-> IF items[u] # 0 /\ h[u].time = items[u] THEN Absent ELSE h[u]]

\* correct(), for every item of a feed just fetched: an item published with
\* another timestamp is a new one.
Corrected(h, items) ==
  [u \in Url |-> IF items[u] # 0 /\ h[u].time # items[u] THEN Absent ELSE h[u]]

\* removeOldFilters()
WithoutOldFilters(ft, fs) == [f \in Filter |-> IF f \in fs THEN ft[f] ELSE "never"]

MayBeApplied(ft, f) ==
  \/ Interval[f] = "always"
  \/ ft[f] = "never"
  \/ Interval[f] = "hours" /\ ft[f] = "elapsed"

Listed == {u \in Url : \E f \in Feed : cached[f][u] # 0}

Overflow(h) == Cardinality({u \in Url : h[u] # Absent}) > MaxCount

\* What saveHistory() writes: a history over its limit loses the items that no
\* cached feed lists any more, if the feeds list any.
Pruned(h) ==
  [u \in Url |-> IF Overflow(h) /\ Listed # {} /\ u \notin Listed THEN Absent ELSE h[u]]

-----------------------------------------------------------------------------
(* Sessions *)

NoSession == [kind |-> "none", todo |-> {}, feed |-> NoFeed,
              items |-> [u \in Url |-> 0], pos |-> <<0, 0>>, asked |-> {}, filters |-> {},
              hist |-> [u \in Url |-> Absent],
              ftime |-> [f \in Filter |-> "never"], changed |-> FALSE, fresh |-> TRUE,
              loads |-> {}, uses |-> {}]

\* Mutant: the times of the filters are not among what is loaded.
LoadedWithoutTimes(kind, feeds) ==
  [NoSession EXCEPT !.kind = kind, !.todo = feeds, !.filters = filters, !.hist = hist]

\* The constructor of rRSSManager, and loadFilters().
Loaded(kind, feeds) ==
  [NoSession EXCEPT !.kind = kind, !.todo = feeds, !.filters = filters,
                    !.hist = hist, !.ftime = ftime]

Active(p) == session[p].kind # "none"

Visiting(p) == session[p].feed # NoFeed

\* A history over its limit owes nothing for items that have left the feeds.
OutOfFeeds(h) == IF Overflow(h) /\ Listed # {} THEN (Url \ Listed) \X Time ELSE {}

\* Mutant: the history counts as unchanged.
NeverSaved(p, s, next, stored) ==
  session' = [session EXCEPT ![p] = next] /\ UNCHANGED <<hist, ftime, ghosts>>

\* saveHistory() by process p, whose session goes from s to next.  The copy
\* counts as saved whether or not it was stored; if it was not, what the session
\* had not saved before is not owed a record any more.
SaveHistory(p, s, next, stored) ==
  LET h == Pruned(s.hist)
  IN IF s.changed \/ h # s.hist
     THEN /\ hist' = IF stored THEN h ELSE hist
          /\ ftime' = IF stored THEN s.ftime ELSE ftime
          /\ lost' = (lost \/ (stored /\ ~s.fresh))
          /\ got' = got \ (OutOfFeeds(s.hist) \cup (IF stored THEN {} ELSE s.loads))
          /\ applied' = applied \ (IF stored THEN {} ELSE s.uses)
          /\ session' = [q \in Proc |->
               IF q # p THEN [session[q] EXCEPT !.fresh = @ /\ ~(stored /\ Active(q))]
               ELSE IF next = NoSession THEN next
               ELSE [next EXCEPT !.hist = h, !.changed = FALSE, !.loads = {}, !.uses = {}]]
     ELSE /\ session' = [session EXCEPT ![p] = next]
          /\ UNCHANGED <<hist, ftime, ghosts>>

\* update(): the scheduled one, which holds the lock rss/update, or one that the
\* user asks for, which takes no lock and so may overlap with any other.
StartUpdate(p) ==
  /\ ~Active(p)
  /\ session' = [session EXCEPT ![p] = Loaded("update", Feed)]
  /\ UNCHANGED <<stamp, listed, files, ghosts>>

\* updateRSS(): a web request refreshes one feed or the feeds of a group.
StartRefresh(p) ==
  /\ ~Active(p)
  /\ \E fs \in SUBSET Feed \ {{}} :
       session' = [session EXCEPT ![p] = Loaded("refresh", fs)]
  /\ UNCHANGED <<stamp, listed, files, ghosts>>

\* setFilters(): stores the new filters, whatever the result, and checks them on
\* the cached feeds.  The uses of a filter that is gone are not owed a record.
SetFilters(p) ==
  /\ ~Active(p)
  /\ \E fs \in SUBSET Filter :
       /\ filters' \in {fs, filters}
       /\ session' = [session EXCEPT
                        ![p] = [Loaded("setfilters", Feed) EXCEPT !.filters = fs]]
       /\ applied' = applied \cap (fs \X Use)
  /\ UNCHANGED <<stamp, listed, cached, hist, ftime, got, lost>>

\* Web requests that load the history, edit it and save it.
StartEdit(p, h, ft, changed, loads) ==
  /\ ~Active(p)
  /\ session' = [session EXCEPT ![p] = [Loaded("edit", {}) EXCEPT
                   !.hist = h, !.ftime = ft, !.changed = changed, !.loads = loads]]
  /\ UNCHANGED <<stamp, listed, files, lost>>

\* What the user has the history forget is not owed a record any more.
ClearHistory(p) ==
  LET cleared == [u \in Url |-> Absent]
  IN /\ StartEdit(p, cleared, ftime, hist # cleared, {})
     /\ got' = {} /\ UNCHANGED applied

LoadsOf(u) == {u} \X Time

\* The request comes with the timestamp of the item as it was shown.
MarkLoaded(p, u) ==
  \E f \in Feed :
    LET load == <<u, cached[f][u]>>
    IN /\ cached[f][u] # 0
       /\ StartEdit(p, Added(hist, u, "Loaded", cached[f][u]), ftime, TRUE, {load} \ got)
       /\ got' = (got \ LoadsOf(u)) \cup {load}
       /\ UNCHANGED applied

MarkUnloaded(p, u) ==
  /\ StartEdit(p, [hist EXCEPT ![u] = Absent], ftime, hist[u] # Absent, {})
  /\ got' = got \ LoadsOf(u) /\ UNCHANGED applied

ClearFilterTime(p, f) ==
  /\ StartEdit(p, hist, [ftime EXCEPT ![f] = "never"], ftime[f] # "never", {})
  /\ applied' = applied \ ({f} \X Use) /\ UNCHANGED got

\* loadtorrents: the user has items of a cached feed loaded, filters or not.
StartManual(p) ==
  /\ ~Active(p)
  /\ \E f \in Feed, us \in SUBSET Url \ {{}} :
       session' = [session EXCEPT ![p] = [Loaded("manual", {}) EXCEPT
         !.filters = {}, !.feed = f, !.items = cached[f], !.asked = us]]
  /\ UNCHANGED <<stamp, listed, files, ghosts>>

Served(f) == [u \in Url |-> IF u \in listed[f] THEN stamp[u] ELSE 0]

\* Loads of items that f now serves with another timestamp.
Outdated(f) == {g \in Url \X Time : Served(f)[g[1]] \notin {0, g[2]}}

Visit(p, f, items, h, outdated) ==
  LET s == session[p]
  IN /\ ~Visiting(p) /\ f \in s.todo
     /\ session' = [session EXCEPT ![p] =
          [s EXCEPT !.todo = @ \ {f}, !.feed = f, !.items = items, !.pos = <<0, 0>>,
                    !.hist = h, !.changed = @ \/ h # s.hist, !.loads = @ \ outdated]]

\* fetch() answers 200: the history is corrected and the feed cached, unless the
\* rename() of its file fails unnoticed.
FetchOK(p, f, stored) ==
  /\ session[p].kind \in {"update", "refresh"}
  /\ Visit(p, f, Served(f), Corrected(session[p].hist, Served(f)), Outdated(f))
  /\ cached' = IF stored THEN [cached EXCEPT ![f] = Served(f)] ELSE cached
  /\ got' = got \ Outdated(f)
  /\ UNCHANGED <<stamp, listed, hist, ftime, filters, applied, lost>>

\* fetch() answers 304, or setFilters() takes the feed as it is in the cache.
UseCached(p, f) ==
  /\ session[p].kind = "setfilters" \/ cached[f] = Served(f)
  /\ Visit(p, f, cached[f], session[p].hist, {})
  /\ UNCHANGED <<stamp, listed, files, ghosts>>

\* fetch() fails: the error goes to the feed list, the feed is left alone.
FetchFails(p, f) ==
  /\ session[p].kind \in {"update", "refresh"}
  /\ ~Visiting(p) /\ f \in session[p].todo
  /\ session' = [session EXCEPT ![p].todo = @ \ {f}]
  /\ UNCHANGED <<stamp, listed, files, ghosts>>

\* fetch() answers 200 and has corrected the history, but the feed cannot be cached.
CachingFails(p, f) ==
  LET s == session[p]
      h == Corrected(s.hist, Served(f))
  IN /\ s.kind \in {"update", "refresh"}
     /\ ~Visiting(p) /\ f \in s.todo /\ h # s.hist
     /\ session' = [session EXCEPT ![p] =
          [s EXCEPT !.todo = @ \ {f}, !.hist = h, !.changed = TRUE,
                    !.loads = @ \ Outdated(f)]]
     /\ got' = got \ Outdated(f)
     /\ UNCHANGED <<stamp, listed, files, applied, lost>>

After(x, y) == x[1] > y[1] \/ (x[1] = y[1] /\ x[2] > y[2])

\* The pairs of a filter and an item that checkFilters() has yet to act on.
Wanted(s) ==
  {x \in s.filters \X Url :
     /\ After(x, s.pos)
     /\ x[2] \in Matches[x[1]] /\ s.items[x[2]] # 0
     /\ MayBeApplied(s.ftime, x[1])
     /\ ~WasLoaded(s.hist, x[2])}

\* Mutant: the filter counts as applied only when the torrent was loaded.
AppliedWhenLoaded(p, x, hash) ==
  LET s    == session[p]
      load == IF hash = "Loaded" THEN {<<x[2], s.items[x[2]]>>} ELSE {}
      used == {x[1]} \X Use
  IN /\ Visiting(p)
     /\ x \in Wanted(s) /\ \A y \in Wanted(s) : ~After(x, y)
     /\ session' = [session EXCEPT ![p] =
          [s EXCEPT !.pos = x, !.changed = TRUE,
                    !.ftime = IF hash = "Loaded" THEN [@ EXCEPT ![x[1]] = "recent"] ELSE @,
                    !.hist = Added(@, x[2], hash, s.items[x[2]]),
                    !.loads = @ \cup (load \ got), !.uses = @ \cup (used \ applied)]]
     /\ got' = got \cup load
     /\ applied' = applied \cup used
     /\ UNCHANGED <<stamp, listed, files, lost>>

\* checkFilters() up to its next item: the filter x[1] is applied and the item
\* x[2] sent to rTorrent, which is noted as 'Failed' when it could not be done.
LoadItem(p, x, hash) ==
  LET s    == session[p]
      load == IF hash = "Loaded" THEN {<<x[2], s.items[x[2]]>>} ELSE {}
      used == {x[1]} \X Use
  IN /\ Visiting(p)
     /\ x \in Wanted(s) /\ \A y \in Wanted(s) : ~After(x, y)
     /\ session' = [session EXCEPT ![p] =
          [s EXCEPT !.pos = x, !.changed = TRUE, !.ftime = [@ EXCEPT ![x[1]] = "recent"],
                    !.hist = Added(@, x[2], hash, s.items[x[2]]),
                    !.loads = @ \cup (load \ got), !.uses = @ \cup (used \ applied)]]
     /\ got' = got \cup load
     /\ applied' = applied \cup used
     /\ UNCHANGED <<stamp, listed, files, lost>>

\* getTorrents() for the user.  An item that was loaded once and now could not be
\* is noted as 'Failed', so it counts as forgotten by the user.
\* Bound: the user has an item fail up to the count that matters, MaxTry + 1.
LoadAsked(p, u, hash) ==
  LET s     == session[p]
      load  == IF hash = "Loaded" THEN {<<u, s.items[u]>>} ELSE {}
      other == LoadsOf(u) \ load
  IN /\ u \in s.asked
     /\ hash = "Failed" => s.hist[u].cnt <= MaxTry
     /\ session' = [session EXCEPT ![p] =
          [s EXCEPT !.asked = @ \ {u}, !.changed = TRUE,
                    !.hist = Added(@, u, hash, s.items[u]),
                    !.loads = (@ \ other) \cup (load \ got)]]
     /\ got' = (got \ other) \cup load
     /\ UNCHANGED <<stamp, listed, files, applied, lost>>

\* All items are checked; updateRSS() saves the history after every feed.
FinishFeed(p, stored) ==
  LET s    == session[p]
      next == [s EXCEPT !.feed = NoFeed, !.items = NoSession.items, !.pos = <<0, 0>>]
  IN /\ Visiting(p) /\ Wanted(s) = {} /\ s.asked = {}
     /\ IF s.kind = "refresh" THEN SaveHistory(p, s, next, stored)
        ELSE /\ session' = [session EXCEPT ![p] = next]
             /\ UNCHANGED <<hist, ftime, ghosts>>
     /\ UNCHANGED <<stamp, listed, cached, filters>>

\* All feeds are visited; every session but updateRSS() saves the history now,
\* setFilters() without the times of the filters it removed.
Finish(p, stored) ==
  LET s  == session[p]
      ft == IF s.kind = "setfilters" THEN WithoutOldFilters(s.ftime, s.filters)
            ELSE s.ftime
  IN /\ Active(p) /\ ~Visiting(p) /\ s.todo = {}
     /\ IF s.kind = "refresh"
        THEN /\ session' = [session EXCEPT ![p] = NoSession]
             /\ UNCHANGED <<hist, ftime, ghosts>>
        ELSE SaveHistory(p, [s EXCEPT !.ftime = ft, !.changed = @ \/ ft # s.ftime],
                         NoSession, stored)
     /\ UNCHANGED <<stamp, listed, cached, filters>>

\* The process is killed; what it had not saved is not owed a record any more.
Crash(p) ==
  /\ Active(p)
  /\ session' = [session EXCEPT ![p] = NoSession]
  /\ got' = got \ session[p].loads
  /\ applied' = applied \ session[p].uses
  /\ UNCHANGED <<stamp, listed, files, lost>>

-----------------------------------------------------------------------------
(* The rest of the world *)

\* An item is published again with a newer timestamp.
Republish(u) ==
  /\ stamp[u] < MaxStamp
  /\ stamp' = [stamp EXCEPT ![u] = @ + 1]
  /\ UNCHANGED <<listed, files, session, ghosts>>

\* A feed lists another set of items.
Relist(f) ==
  /\ \E us \in SUBSET Url : listed' = [listed EXCEPT ![f] = us]
  /\ UNCHANGED <<stamp, files, session, ghosts>>

\* The hours of every filter applied so far go by.
HoursPass ==
  LET Older(ft) == [f \in Filter |-> IF ft[f] = "recent" THEN "elapsed" ELSE ft[f]]
      past      == Filter \X {"recent"}
  IN /\ ftime' = Older(ftime)
     /\ session' = [p \in Proc |->
                      [session[p] EXCEPT !.ftime = Older(@), !.uses = @ \ past]]
     /\ applied' = applied \ past
     /\ UNCHANGED <<stamp, listed, cached, hist, filters, got, lost>>

Init ==
  /\ stamp = [u \in Url |-> 1]
  /\ listed \in [Feed -> SUBSET Url]
  /\ cached = [f \in Feed |-> Served(f)]
  /\ hist = [u \in Url |-> Absent]
  /\ ftime = [f \in Filter |-> "never"]
  /\ filters \in SUBSET Filter
  /\ session = [p \in Proc |-> NoSession]
  /\ got = {} /\ applied = {} /\ lost = FALSE

\* The steps of a session whose files are stored.
Work(p) ==
  \/ \E f \in Feed : \/ FetchOK(p, f, TRUE) \/ UseCached(p, f)
                     \/ FetchFails(p, f) \/ CachingFails(p, f)
  \/ \E x \in Filter \X Url, hash \in {"Loaded", "Failed"} : LoadItem(p, x, hash)
  \/ \E u \in Url, hash \in {"Loaded", "Failed"} : LoadAsked(p, u, hash)
  \/ FinishFeed(p, TRUE)
  \/ Finish(p, TRUE)

\* A file is not stored, which the session does not notice.
Unstored(p) ==
  \/ \E f \in Feed : FetchOK(p, f, FALSE)
  \/ FinishFeed(p, FALSE)
  \/ Finish(p, FALSE)

Request(p) ==
  \/ StartUpdate(p) \/ StartRefresh(p) \/ SetFilters(p) \/ StartManual(p) \/ ClearHistory(p)
  \/ \E u \in Url : MarkLoaded(p, u) \/ MarkUnloaded(p, u)
  \/ \E f \in Filter : ClearFilterTime(p, f)

World ==
  \/ \E u \in Url : Republish(u)
  \/ \E f \in Feed : Relist(f)
  \/ HoursPass

Calm == World \/ \E p \in Proc : Request(p) \/ Work(p)

Next == Calm \/ \E p \in Proc : Unstored(p) \/ Crash(p)

Spec == Init /\ [][Next]_vars

\* Time goes by, rTorrent keeps starting the update, a session runs to its end, and
\* the updates do not fetch a feed in vain for ever.
Fairness ==
  /\ WF_vars(HoursPass)
  /\ \A p \in Proc :
       /\ SF_vars(StartUpdate(p))
       /\ WF_vars(Work(p))
       /\ \A f \in Feed : SF_vars(/\ session[p].kind = "update"
                                  /\ FetchOK(p, f, TRUE) \/ UseCached(p, f))

\* No session is killed and every file is stored.
CalmFairSpec == Init /\ [][Calm]_vars /\ Fairness

-----------------------------------------------------------------------------

\* The loads that history h records, and the uses of filters that times ft record.
LoadsIn(h) == {g \in Url \X Time : h[g[1]].hash = "Loaded" /\ h[g[1]].time = g[2]}

UsesIn(ft) ==
  {a \in Filter \X Use : \/ ft[a[1]] = "recent"
                        \/ (ft[a[1]] = "elapsed" /\ a[2] = "used")}

\* The sessions whose end will save what they have.
Unsaved == {p \in Proc : Active(p) /\ session[p].changed}

\* What was loaded is never forgotten: the history file says so, with the
\* timestamp, or the session that loaded it does and will save it.  Not owed are
\* records the user cleared, of items republished, or that have left the feeds of
\* a full history, and what a session had not saved when it was killed or its
\* save failed.  All bets are off once a session saved over the save of another.
LoadsRemembered ==
  lost \/ \A g \in got :
    \/ g \in LoadsIn(hist)
    \/ \E p \in Unsaved : g \in session[p].loads \cap LoadsIn(session[p].hist)

\* Likewise for the time a filter was last applied, which paces the filters that
\* may load once only or once in some hours.
PacingRemembered ==
  lost \/ \A a \in applied :
    \/ a \in UsesIn(ftime)
    \/ \E p \in Unsaved : a \in session[p].uses \cap UsesIn(session[p].ftime)

\* A session that has missed no save never loads an item a second time, unless
\* another session has loaded it and not yet saved: checkFilters() looks at the
\* session's own copy only.
NoSecondLoad ==
  [][\A p \in Proc, x \in Filter \X Url, g \in got :
       LoadItem(p, x, "Loaded") /\ g[1] = x[2] =>
         \/ lost \/ ~session[p].fresh
         \/ \E q \in Proc \ {p} : g \in session[q].loads]_vars

\* In the same way a filter is not applied before its hours have passed, nor a
\* second time if it may load once only, whether or not the torrent it was applied
\* for could be loaded.
NotTooOften ==
  [][\A p \in Proc, x \in Filter \X Url, hash \in {"Loaded", "Failed"}, a \in applied :
       /\ LoadItem(p, x, hash)
       /\ a[1] = x[1]
       /\ \/ Interval[x[1]] = "once"
          \/ Interval[x[1]] = "hours" /\ a[2] = "recent"
       => \/ lost \/ ~session[p].fresh
          \/ \E q \in Proc \ {p} : a \in session[q].uses]_vars

\* Once the user leaves the history alone, an item that stays in a feed, under a
\* filter that stays, is loaded in the end as it was last published, or given up
\* after its failures; but a filter that may load once only may have been used up,
\* if only for a torrent that could not be loaded.
AlwaysServed ==
  \A f \in Feed, x \in Filter, u \in Url :
    u \in Matches[x] =>
      (<>[](/\ u \in listed[f] /\ x \in filters
            /\ \A p \in Proc : session[p].kind \notin {"edit", "manual"})
       => []<>(\/ WasLoaded(hist, u) /\ hist[u].time = stamp[u]
               \/ Interval[x] = "once" /\ ftime[x] # "never"))
=============================================================================
