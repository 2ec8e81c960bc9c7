------------------------------ MODULE Scheduler ------------------------------
(***************************************************************************)
(* The scheduler plugin (plugins/scheduler/scheduler.php, class            *)
(* rScheduler): by the hour of the week it lets rTorrent run at full or at *)
(* restricted speed, stops everything, or leaves only the seeds running,   *)
(* and remembers in its settings file which torrents it stopped, so as to  *)
(* start these, and no others, later.                                      *)
(*                                                                         *)
(* A session is one PHP process: the script that rTorrent starts every few *)
(* minutes (update.php, and init.php at the start) or a web request that   *)
(* sets a new schedule (action.php).  It loads the file, talks to rTorrent *)
(* in several requests and stores the file.  Nothing keeps two sessions    *)
(* apart.  A request of several commands is one step of rTorrent.          *)
(***************************************************************************)
EXTENDS Naturals, FiniteSets

CONSTANTS Proc,     \* PHP processes
          Torrent,  \* torrents by hash
          Hour      \* hours of the week

Mode == {"fast", "restrict", "stop", "seedonly"}

VARIABLES hour,      \* the hour it is
          present,   \* rTorrent: the torrents it has
          started,   \* rTorrent: those in its view "started"
          complete,  \* rTorrent: those that have all data
          ignored,   \* rTorrent: those marked sch_ignore
          rate,      \* rTorrent: the mode whose speed limits it was given last
          file,      \* the settings file
          session,   \* what each process is doing
          own,       \* history: stopped by the scheduler, not started by it since
          again,     \* history: stopped by it while it still listed them
          conflict,  \* history: a session acted on lists that had changed since it loaded them
          fault      \* history: a stop or start failed, or a session died

rtorrent == <<present, started, complete, ignored, rate>>
ghosts == <<own, again, conflict, fault>>
vars == <<hour, rtorrent, file, session, ghosts>>

Settings == [enabled : BOOLEAN, week : [Hour -> Mode],
             seedStopped : SUBSET Torrent, leechStopped : SUBSET Torrent]

Session == [pc : {"none", "query", "stop", "start", "speed", "store"},
            rt : Settings,               \* the rScheduler object
            mode : Mode,                 \* $no
            seeds : SUBSET Torrent,      \* $active["seeds"]
            leeches : SUBSET Torrent,    \* $active["leeches"]
            fresh : BOOLEAN]             \* history: rt is up to date but for its own changes

TypeOK ==
  /\ hour \in Hour
  /\ started \cup complete \cup ignored \subseteq present
  /\ present \subseteq Torrent
  /\ rate \in Mode
  /\ file \in Settings
  /\ session \in [Proc -> Session]
  /\ own \subseteq Torrent /\ again \subseteq Torrent
  /\ conflict \in BOOLEAN /\ fault \in BOOLEAN

\* Mutant: a new object is left without a week.
WeekNotFilled == [enabled |-> FALSE, week |-> << >>, seedStopped |-> {}, leechStopped |-> {}]

\* fillWeek() of an object that has no lists yet.
Default == [enabled |-> FALSE, week |-> [h \in Hour |-> "fast"],
            seedStopped |-> {}, leechStopped |-> {}]

NoSession == [pc |-> "none", rt |-> Default, mode |-> "fast", seeds |-> {}, leeches |-> {},
              fresh |-> TRUE]

Init ==
  /\ hour \in Hour
  /\ present = Torrent /\ complete \in SUBSET Torrent
  /\ started = Torrent /\ ignored = {}
  /\ rate = "fast"
  /\ file = Default
  /\ session = [p \in Proc |-> NoSession]
  /\ own = {} /\ again = {} /\ conflict = FALSE /\ fault = FALSE

Active(p) == session[p].pc # "none"

StoppedIn(rt) == rt.seedStopped \cup rt.leechStopped

SameLists(x, y) == x.seedStopped = y.seedStopped /\ x.leechStopped = y.leechStopped

\* Process p goes on as next; if it changed something, the others are out of date.
Step(p, next, change) ==
  session' = [q \in Proc |-> IF q = p THEN next
                             ELSE [session[q] EXCEPT !.fresh = @ /\ (Active(q) => ~change)]]

-----------------------------------------------------------------------------
(* Sessions *)

\* apply() up to its first request, on the object rt.
Apply(p, rt) ==
  /\ ~Active(p)
  /\ LET mode == IF rt.enabled THEN rt.week[hour] ELSE "fast"
         pc   == CASE ~rt.enabled -> "store"
                   [] mode \in {"fast", "restrict"} -> "start"
                   [] OTHER -> "query"
         fresh == \A q \in Proc : Active(q) => SameLists(session[q].rt, file)
     IN session' = [session EXCEPT
          ![p] = [NoSession EXCEPT !.pc = pc, !.rt = rt, !.mode = mode, !.fresh = fresh]]
  /\ UNCHANGED <<hour, rtorrent, file, ghosts>>

\* update.php and init.php.
Update(p) == Apply(p, file)

\* action.php: set() replaces the week and the flag and keeps the lists.
Set(p, week, enabled) == Apply(p, [file EXCEPT !.week = week, !.enabled = enabled])

\* getActiveTorrents(); a failed request finds no torrents.
Query(p, answered) ==
  LET active == IF answered THEN started \ ignored ELSE {}
  IN /\ session[p].pc = "query"
     /\ session' = [session EXCEPT ![p].pc = "stop", ![p].seeds = active \cap complete,
                                   ![p].leeches = active \ complete]
     /\ UNCHANGED <<hour, rtorrent, file, ghosts>>

\* What may become of a request: answered, never received, or its answer lost.
Outcome == {"ok", "refused", "unanswered"}

Received(outcome, hashes) == IF outcome = "refused" THEN {} ELSE hashes \cap present

\* Mutant: the result of a request is not looked at.
ResultIgnored(outcome, hashes) == TRUE

\* run() and no fault: there was a command and no torrent had disappeared.
Success(outcome, hashes) == outcome = "ok" /\ hashes # {} /\ hashes \subseteq present

\* Stop and close the active torrents of the mode, and list them if that succeeded.
Stop(p, outcome) ==
  LET s       == session[p]
      all     == s.mode = "stop"
      hashes  == s.leeches \cup (IF all THEN s.seeds ELSE {})
      done    == Received(outcome, hashes)
      success == Success(outcome, hashes)
  IN /\ s.pc = "stop"
     /\ started' = started \ done
     /\ own' = own \cup done
     /\ again' = again \cup (done \cap StoppedIn(s.rt))
     /\ fault' = (fault \/ (hashes # {} /\ ~success))
     /\ conflict' = (conflict \/ ~s.fresh)
     /\ Step(p, [s EXCEPT !.pc = IF all THEN "speed" ELSE "start",
                          !.seeds = {}, !.leeches = {},
                          !.rt.leechStopped = IF success THEN @ \cup s.leeches ELSE @,
                          !.rt.seedStopped = IF success /\ all THEN @ \cup s.seeds ELSE @],
                success)
     /\ UNCHANGED <<hour, present, complete, ignored, rate, file>>

\* Start the listed torrents of the mode and empty the lists, whatever the outcome.
Start(p, outcome) ==
  LET s      == session[p]
      all    == s.mode # "seedonly"
      hashes == s.rt.seedStopped \cup (IF all THEN s.rt.leechStopped ELSE {})
      done   == Received(outcome, hashes)
  IN /\ s.pc = "start"
     /\ started' = started \cup done
     /\ own' = own \ (IF outcome = "refused" THEN {} ELSE hashes)
     /\ fault' = (fault \/ (outcome = "refused" /\ hashes # {}))
     /\ conflict' = (conflict \/ ~s.fresh)
     /\ Step(p, [s EXCEPT !.pc = "speed", !.rt.seedStopped = {},
                          !.rt.leechStopped = IF all THEN {} ELSE @],
                hashes # {})
     /\ UNCHANGED <<hour, present, complete, ignored, rate, file, again>>

\* Mutant: only the restricted modes set the limits.
LimitsOnlyWhenRestricted(p, outcome) ==
  /\ session[p].pc = "speed"
  /\ rate' = IF session[p].mode = "restrict" THEN "restrict" ELSE rate
  /\ session' = [session EXCEPT ![p].pc = "store"]
  /\ UNCHANGED <<hour, present, started, complete, ignored, file, ghosts>>

\* setSpeed()
SetSpeed(p, outcome) ==
  /\ session[p].pc = "speed"
  /\ rate' = IF outcome = "refused" THEN rate ELSE session[p].mode
  /\ fault' = (fault \/ outcome = "refused")
  /\ session' = [session EXCEPT ![p].pc = "store"]
  /\ UNCHANGED <<hour, present, started, complete, ignored, file, own, again, conflict>>

\* Mutant: what is stored is the schedule without the lists.
ScheduleStored(p) ==
  /\ session[p].pc = "store"
  /\ file' = [file EXCEPT !.week = session[p].rt.week, !.enabled = session[p].rt.enabled]
  /\ session' = [session EXCEPT ![p] = NoSession]
  /\ UNCHANGED <<hour, rtorrent, ghosts>>

\* store()
Store(p) ==
  /\ session[p].pc = "store"
  /\ file' = session[p].rt
  /\ conflict' = (conflict \/ ~session[p].fresh)
  /\ Step(p, NoSession, file' # file)
  /\ UNCHANGED <<hour, rtorrent, own, again, fault>>

\* The process is killed, or the file cannot be written.
Crash(p) ==
  /\ Active(p)
  /\ session' = [session EXCEPT ![p] = NoSession]
  /\ fault' = TRUE
  /\ UNCHANGED <<hour, rtorrent, file, own, again, conflict>>

-----------------------------------------------------------------------------
(* The user, rTorrent and the clock *)

HourPasses ==
  /\ hour' \in Hour \ {hour}
  /\ UNCHANGED <<rtorrent, file, session, ghosts>>

UserStarts(t) ==
  /\ t \in present \ started
  /\ started' = started \cup {t}
  /\ UNCHANGED <<hour, present, complete, ignored, rate, file, session, ghosts>>

UserStops(t) ==
  /\ t \in started
  /\ started' = started \ {t}
  /\ UNCHANGED <<hour, present, complete, ignored, rate, file, session, ghosts>>

UserIgnores(t) ==
  /\ t \in present
  /\ ignored' = IF t \in ignored THEN ignored \ {t} ELSE ignored \cup {t}
  /\ UNCHANGED <<hour, present, started, complete, rate, file, session, ghosts>>

Completes(t) ==
  /\ t \in started \ complete
  /\ complete' = complete \cup {t}
  /\ UNCHANGED <<hour, present, started, ignored, rate, file, session, ghosts>>

Erase(t) ==
  /\ t \in present
  /\ present' = present \ {t} /\ started' = started \ {t}
  /\ complete' = complete \ {t} /\ ignored' = ignored \ {t}
  /\ UNCHANGED <<hour, rate, file, session, ghosts>>

Add(t) ==
  /\ t \in Torrent \ present
  /\ present' = present \cup {t}
  /\ started' \in {started, started \cup {t}}
  /\ UNCHANGED <<hour, complete, ignored, rate, file, session, ghosts>>

Work(p) ==
  \/ \E answered \in BOOLEAN : Query(p, answered)
  \/ \E outcome \in Outcome : Stop(p, outcome) \/ Start(p, outcome) \/ SetSpeed(p, outcome)
  \/ Store(p)

World ==
  \/ HourPasses
  \/ \E t \in Torrent : \/ UserStarts(t) \/ UserStops(t) \/ UserIgnores(t)
                        \/ Completes(t) \/ Erase(t) \/ Add(t)

Next ==
  \/ \E p \in Proc :
       \/ Update(p)
       \/ \E week \in [Hour -> Mode], enabled \in BOOLEAN : Set(p, week, enabled)
       \/ Work(p)
       \/ Crash(p)
  \/ World

Spec == Init /\ [][Next]_vars

\* rTorrent keeps starting update.php, and a session runs to its end.
FairSpec ==
  Spec /\ WF_vars(\E p \in Proc : Update(p)) /\ \A p \in Proc : WF_vars(Work(p))

-----------------------------------------------------------------------------

Settled == \A p \in Proc : ~Active(p)

\* The lists of rt hold every torrent the scheduler has stopped and not started
\* again, and no others but those it stopped while they were still listed.
Exact(rt) == own \subseteq StoppedIn(rt) /\ StoppedIn(rt) \subseteq own \cup again

\* What the scheduler has stopped and not started again is what its file lists,
\* or the object of the session that will store it: no torrent is left stopped for
\* good, and a torrent the scheduler has not stopped is listed only if it was once
\* stopped while it was still listed, as leech and then as seed.  Nothing but
\* conflicting sessions and failures breaks this.
ListsExact ==
  conflict \/ fault \/
    /\ Settled => Exact(file)
    /\ \A p \in Proc : Active(p) /\ session[p].fresh => Exact(session[p].rt)

\* While rTorrent is allowed full speed the scheduler holds no torrent back, and
\* no seed unless everything was to stop: limits and lists are of one mode.
RateMatchesLists ==
  conflict \/ fault \/ ~Settled \/
    /\ file.seedStopped # {} => rate = "stop"
    /\ file.leechStopped # {} => rate \in {"stop", "seedonly"}

\* The scheduler starts only torrents it had itself stopped, with the exception
\* made in ListsExact.
StartsOnlyOwn ==
  [][\A p \in Proc, outcome \in Outcome :
       Start(p, outcome) /\ ~conflict' /\ ~fault'
         => started' \ started \subseteq own \cup again]_vars

\* A schedule that is full speed from some time on gets every torrent started that
\* the scheduler had stopped, unless something fails or overlapping sessions act on
\* lists that are not the latest.
Restored ==
  [](~fault /\ ~conflict) /\ <>[](file.enabled /\ \A h \in Hour : file.week[h] \in {"fast", "restrict"})
    => <>[](own = {})
=============================================================================
