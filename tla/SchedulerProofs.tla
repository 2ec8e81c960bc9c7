--------------------------- MODULE SchedulerProofs ---------------------------
(***************************************************************************)
(* The lists of the scheduler, for any torrents, hours and processes.      *)
(***************************************************************************)
EXTENDS Scheduler, TLAPS

\* Each session has asked for seeds and for leeches, which are not the same.
SeedsApart == \A p \in Proc : session[p].seeds \cap session[p].leeches = {}

\* A torrent on both lists was stopped while it was listed: when the seeds are
\* started it stays on the other list.
KeptIn(rt, o, a) ==
  /\ o \subseteq StoppedIn(rt) /\ StoppedIn(rt) \subseteq o \cup a
  /\ rt.seedStopped \cap rt.leechStopped \subseteq a

Kept(rt) == KeptIn(rt, own, again)

\* The session p will bring changes to the file.
Dirty(p) == Active(p) /\ session[p].fresh /\ ~SameLists(session[p].rt, file)

\* The copy of every session that is up to date is exact, and so is the file,
\* unless such a session is about to change it.
ListInv ==
  /\ SeedsApart
  /\ conflict \/ fault \/
       /\ \A p \in Proc : Active(p) /\ session[p].fresh => Kept(session[p].rt)
       /\ Kept(file) \/ \E p \in Proc : Dirty(p)

-----------------------------------------------------------------------------

LEMMA DefaultType == Default \in Settings /\ NoSession \in Session
BY DEF Default, NoSession, Settings, Session, Mode

\* Session p goes on as a session again.
LEMMA StepType ==
  ASSUME TypeOK, NEW p \in Proc, NEW next \in Session, NEW change, Step(p, next, change)
  PROVE  session' \in [Proc -> Session]
BY DEF Step, TypeOK, Session

\* The types of the variables are kept.
LEMMA TypeStep == TypeOK /\ [Next]_vars => TypeOK'
<1> SUFFICES ASSUME TypeOK, [Next]_vars PROVE TypeOK'
  OBVIOUS
<1>1. ASSUME NEW p \in Proc, NEW rt \in Settings, Apply(p, rt) PROVE TypeOK'
  <2> DEFINE mode == IF rt.enabled THEN rt.week[hour] ELSE "fast"
             pc   == CASE ~rt.enabled -> "store"
                       [] mode \in {"fast", "restrict"} -> "start"
                       [] OTHER -> "query"
             fresh == \A q \in Proc : Active(q) => SameLists(session[q].rt, file)
             next == [NoSession EXCEPT !.pc = pc, !.rt = rt, !.mode = mode, !.fresh = fresh]
  <2>1. mode \in Mode
    BY DEF TypeOK, Settings, Mode
  <2>2. pc \in {"none", "query", "stop", "start", "speed", "store"}
    OBVIOUS
  <2>3. fresh \in BOOLEAN
    OBVIOUS
  <2> HIDE DEF mode, pc, fresh
  <2>4. next \in Session
    BY <2>1, <2>2, <2>3 DEF NoSession, Session
  <2>5. session' = [session EXCEPT ![p] = next]
    BY <1>1 DEF Apply, mode, pc, fresh
  <2> QED
    BY <1>1, <2>4, <2>5 DEF Apply, TypeOK, rtorrent, ghosts
<1>2. ASSUME NEW p \in Proc, NEW answered \in BOOLEAN, Query(p, answered) PROVE TypeOK'
  <2> DEFINE active == IF answered THEN started \ ignored ELSE {}
             next == [session[p] EXCEPT !.pc = "stop", !.seeds = active \cap complete,
                                        !.leeches = active \ complete]
  <2>1. active \subseteq Torrent
    BY DEF TypeOK
  <2> HIDE DEF active
  <2>2. next \in Session
    BY <2>1 DEF TypeOK, Session
  <2>3. session' = [session EXCEPT ![p] = next]
    BY <1>2 DEF Query, active, TypeOK, Session
  <2>4. session' \in [Proc -> Session]
    BY <2>2, <2>3 DEF TypeOK
  <2>5. UNCHANGED <<hour, rtorrent, file, ghosts>>
    BY <1>2 DEF Query
  <2> QED
    BY <2>4, <2>5 DEF TypeOK, rtorrent, ghosts
<1>3. ASSUME NEW p \in Proc, NEW outcome \in Outcome, Stop(p, outcome) PROVE TypeOK'
  <2> DEFINE s == session[p]
             all == s.mode = "stop"
             hashes == s.leeches \cup (IF all THEN s.seeds ELSE {})
             done == Received(outcome, hashes)
             success == Success(outcome, hashes)
             next == [s EXCEPT !.pc = IF all THEN "speed" ELSE "start",
                               !.seeds = {}, !.leeches = {},
                               !.rt.leechStopped = IF success THEN @ \cup s.leeches ELSE @,
                               !.rt.seedStopped = IF success /\ all THEN @ \cup s.seeds ELSE @]
  <2>1. s \in Session /\ done \subseteq present
    BY DEF TypeOK, Received
  <2> HIDE DEF s, success
  <2>2. next \in Session
    BY <2>1 DEF Session, Settings
  <2>3. Step(p, next, success) /\ started' = started \ done
        /\ own' = own \cup done /\ again' = again \cup (done \cap StoppedIn(s.rt))
        /\ fault' = (fault \/ (hashes # {} /\ ~success)) /\ conflict' = (conflict \/ ~s.fresh)
        /\ UNCHANGED <<hour, present, complete, ignored, rate, file>>
    BY <1>3 DEF Stop, s, success
  <2>4. session' \in [Proc -> Session]
    BY <2>2, <2>3, StepType
  <2>5. fault' \in BOOLEAN /\ conflict' \in BOOLEAN
    BY <2>3
  <2> HIDE DEF done, hashes
  <2> QED
    BY <2>1, <2>3, <2>4, <2>5 DEF TypeOK
<1>4. ASSUME NEW p \in Proc, NEW outcome \in Outcome, Start(p, outcome) PROVE TypeOK'
  <2> DEFINE s == session[p]
             all == s.mode # "seedonly"
             hashes == s.rt.seedStopped \cup (IF all THEN s.rt.leechStopped ELSE {})
             done == Received(outcome, hashes)
             next == [s EXCEPT !.pc = "speed", !.rt.seedStopped = {},
                               !.rt.leechStopped = IF all THEN {} ELSE @]
  <2>1. s \in Session /\ done \subseteq present
    BY DEF TypeOK, Received
  <2> HIDE DEF s
  <2>2. next \in Session
    BY <2>1 DEF Session, Settings
  <2>3. Step(p, next, hashes # {}) /\ started' = started \cup done
        /\ own' = own \ (IF outcome = "refused" THEN {} ELSE hashes)
        /\ fault' = (fault \/ (outcome = "refused" /\ hashes # {}))
        /\ conflict' = (conflict \/ ~s.fresh)
        /\ UNCHANGED <<hour, present, complete, ignored, rate, file, again>>
    BY <1>4 DEF Start, s
  <2>4. session' \in [Proc -> Session]
    BY <2>2, <2>3, StepType
  <2>5. fault' \in BOOLEAN /\ conflict' \in BOOLEAN
    BY <2>3
  <2> HIDE DEF done, hashes
  <2> QED
    BY <2>1, <2>3, <2>4, <2>5 DEF TypeOK
<1>5. ASSUME NEW p \in Proc, NEW outcome \in Outcome, SetSpeed(p, outcome) PROVE TypeOK'
  <2>1. rate' \in Mode /\ session' \in [Proc -> Session]
    BY <1>5 DEF SetSpeed, TypeOK, Session
  <2>2. fault' \in BOOLEAN
    BY <1>5 DEF SetSpeed
  <2> QED
    BY <1>5, <2>1, <2>2 DEF SetSpeed, TypeOK
<1>6. ASSUME NEW p \in Proc, Store(p) PROVE TypeOK'
  <2>1. file' \in Settings
    BY <1>6 DEF Store, TypeOK, Session
  <2>2. session' \in [Proc -> Session]
    BY <1>6, DefaultType, StepType DEF Store
  <2>3. conflict' \in BOOLEAN
    BY <1>6 DEF Store
  <2> QED
    BY <1>6, <2>1, <2>2, <2>3 DEF Store, TypeOK, rtorrent
<1>7. ASSUME NEW p \in Proc, Crash(p) PROVE TypeOK'
  BY <1>7, DefaultType DEF Crash, TypeOK, rtorrent
<1>8. CASE World
  <2>1. CASE HourPasses
    BY <2>1 DEF HourPasses, TypeOK, rtorrent, ghosts
  <2>2. ASSUME NEW t \in Torrent,
               UserStarts(t) \/ UserStops(t) \/ UserIgnores(t) \/ Completes(t)
               \/ Erase(t) \/ Add(t)
        PROVE  TypeOK'
    BY <2>2 DEF UserStarts, UserStops, UserIgnores, Completes, Erase, Add, TypeOK, ghosts
  <2> QED
    BY <1>8, <2>1, <2>2 DEF World
<1>9. CASE UNCHANGED vars
  BY <1>9 DEF vars, rtorrent, ghosts, TypeOK
<1>10. ASSUME NEW p \in Proc, Update(p) PROVE TypeOK'
  BY <1>1, <1>10 DEF Update, TypeOK
<1>11. ASSUME NEW p \in Proc, NEW week \in [Hour -> Mode], NEW enabled \in BOOLEAN,
              Set(p, week, enabled)
       PROVE  TypeOK'
  <2>1. [file EXCEPT !.week = week, !.enabled = enabled] \in Settings
    BY DEF TypeOK, Settings
  <2> QED
    BY <1>1, <1>11, <2>1 DEF Set
<1>12. ASSUME NEW p \in Proc, Work(p) PROVE TypeOK'
  BY <1>2, <1>3, <1>4, <1>5, <1>6, <1>12 DEF Work
<1> QED
  BY <1>7, <1>8, <1>9, <1>10, <1>11, <1>12 DEF Next

-----------------------------------------------------------------------------

\* A step in which nothing but the session of p changes, and not its lists, nor
\* whether it is active and up to date, keeps the lists exact.
LEMMA QuietStep ==
  ASSUME ListInv, NEW p \in Proc, NEW next,
         session' = [session EXCEPT ![p] = next], TypeOK,
         Active(p), next.pc # "none", next.rt = session[p].rt,
         next.fresh = session[p].fresh, next.seeds \cap next.leeches = {},
         UNCHANGED <<file, own, again, conflict>>, fault' = fault
  PROVE  ListInv'
<1>1. \A q \in Proc : /\ session'[q].rt = session[q].rt
                      /\ session'[q].fresh = session[q].fresh
                      /\ Active(q)' <=> Active(q)
                      /\ session'[q].seeds \cap session'[q].leeches = {}
  BY DEF TypeOK, Active, ListInv, SeedsApart
<1>2. \A q \in Proc : Kept(session[q].rt)' <=> Kept(session[q].rt)
  BY <1>1 DEF Kept, KeptIn, StoppedIn
<1>3. \A q \in Proc : Dirty(q)' <=> Dirty(q)
  BY <1>1 DEF Dirty, SameLists
<1>4. Kept(file)' <=> Kept(file)
  BY DEF Kept, KeptIn, StoppedIn
<1> QED
  BY <1>1, <1>2, <1>3, <1>4 DEF ListInv, SeedsApart

\* Every session begins with the lists of the file.
LEMMA ApplyStep ==
  ASSUME TypeOK, ListInv, NEW p \in Proc, NEW rt, SameLists(rt, file), Apply(p, rt)
  PROVE  ListInv'
<1> DEFINE fresh == \A q \in Proc : Active(q) => SameLists(session[q].rt, file)
<1>1. /\ session'[p].rt = rt /\ session'[p].fresh = fresh
      /\ session'[p].seeds = {} /\ ~Active(p)
      /\ \A q \in Proc \ {p} : session'[q] = session[q]
      /\ UNCHANGED <<file, own, again, conflict, fault>>
  BY DEF Apply, NoSession, TypeOK, ghosts
<1>2. SeedsApart'
  BY <1>1 DEF ListInv, SeedsApart
<1>3. SUFFICES ASSUME ~conflict, ~fault
               PROVE  /\ \A q \in Proc : Active(q)' /\ session'[q].fresh => Kept(session[q].rt)'
                      /\ Kept(file)' \/ \E q \in Proc : Dirty(q)'
  BY <1>1, <1>2 DEF ListInv
<1>4. ASSUME NEW q \in Proc, Dirty(q) PROVE Dirty(q)' /\ ~fresh
  BY <1>1, <1>4 DEF Dirty, Active, SameLists
<1>5. Kept(file)' <=> Kept(file)
  BY <1>1 DEF Kept, KeptIn, StoppedIn
<1>6. ASSUME fresh PROVE Kept(session[p].rt)'
  <2>1. Kept(file)
    BY <1>3, <1>4, <1>6 DEF ListInv
  <2>2. Kept(rt)
    BY <2>1 DEF SameLists, Kept, KeptIn, StoppedIn
  <2> QED
    BY <1>1, <2>2 DEF Kept, KeptIn, StoppedIn
<1>7. ASSUME NEW q \in Proc \ {p}, Active(q)', session'[q].fresh PROVE Kept(session[q].rt)'
  <2>1. Kept(session[q].rt)
    BY <1>1, <1>3, <1>7 DEF ListInv, Active
  <2> QED
    BY <1>1, <2>1 DEF Kept, KeptIn, StoppedIn
<1>8. Kept(file)' \/ \E q \in Proc : Dirty(q)'
  BY <1>3, <1>4, <1>5 DEF ListInv
<1> HIDE DEF fresh
<1> QED
  BY <1>1, <1>6, <1>7, <1>8

\* A session that acts while it is up to date, and keeps its lists exact, leaves
\* everything exact: the others are out of date if it changed its lists.
LEMMA ActStep ==
  ASSUME TypeOK, ListInv, NEW p \in Proc, NEW next, NEW change, Step(p, next, change),
         Active(p), session[p].fresh, ~conflict, ~fault,
         next.pc # "none", next.fresh, next.seeds \cap next.leeches = {},
         KeptIn(next.rt, own', again'), file' = file,
         change \/ (SameLists(next.rt, session[p].rt) /\ UNCHANGED <<own, again>>)
  PROVE  ListInv'
<1>1. /\ session'[p] = next
      /\ \A q \in Proc \ {p} :
           /\ session'[q].rt = session[q].rt
           /\ Active(q)' <=> Active(q)
           /\ session'[q].seeds = session[q].seeds
           /\ session'[q].leeches = session[q].leeches
           /\ Active(q) => (session'[q].fresh <=> (session[q].fresh /\ ~change))
  BY DEF Step, TypeOK, Session, Active
<1>2. SeedsApart'
  BY <1>1 DEF ListInv, SeedsApart
<1>3. ASSUME NEW q \in Proc, Active(q)', session'[q].fresh PROVE Kept(session[q].rt)'
  <2>1. CASE q = p
    BY <1>1, <2>1 DEF Kept, KeptIn, StoppedIn
  <2>2. CASE q # p
    <3>1. Kept(session[q].rt) /\ UNCHANGED <<own, again>>
      BY <1>1, <1>3, <2>2 DEF ListInv
    <3> QED
      BY <1>1, <2>2, <3>1 DEF Kept, KeptIn, StoppedIn
  <2> QED
    BY <2>1, <2>2
<1>4. Kept(file)' \/ Dirty(p)'
  <2>1. CASE SameLists(next.rt, file)
    BY <2>1 DEF SameLists, Kept, KeptIn, StoppedIn
  <2>2. CASE ~SameLists(next.rt, file)
    BY <1>1, <2>2 DEF Dirty, Active, SameLists
  <2> QED
    BY <2>1, <2>2
<1> QED
  BY <1>2, <1>3, <1>4 DEF ListInv

\* Torrents are listed when they were stopped, and only then.
LEMMA StopStep ==
  ASSUME TypeOK, ListInv, NEW p \in Proc, NEW outcome \in Outcome, Stop(p, outcome),
         ~conflict', ~fault'
  PROVE  ListInv'
<1> DEFINE s == session[p]
           all == s.mode = "stop"
           hashes == s.leeches \cup (IF all THEN s.seeds ELSE {})
           done == Received(outcome, hashes)
           success == Success(outcome, hashes)
           next == [s EXCEPT !.pc = IF all THEN "speed" ELSE "start",
                             !.seeds = {}, !.leeches = {},
                             !.rt.leechStopped = IF success THEN @ \cup s.leeches ELSE @,
                             !.rt.seedStopped = IF success /\ all THEN @ \cup s.seeds ELSE @]
<1>1. /\ s.pc = "stop" /\ Step(p, next, success)
      /\ own' = own \cup done /\ again' = again \cup (done \cap StoppedIn(s.rt))
      /\ fault' = (fault \/ (hashes # {} /\ ~success)) /\ conflict' = (conflict \/ ~s.fresh)
      /\ file' = file
  BY DEF Stop
<1>2. s.fresh /\ ~conflict /\ ~fault /\ Active(p) /\ (hashes = {} \/ success)
  BY <1>1 DEF Active
<1>3. success => done = hashes
  BY DEF Success, Received, Outcome
<1>4. ~success => done = {}
  BY <1>2 DEF Received
<1>5. s \in Session /\ s.seeds \cap s.leeches = {}
  BY DEF TypeOK, ListInv, SeedsApart
<1>6. Kept(s.rt)
  BY <1>2 DEF ListInv
<1> HIDE DEF s, success, done
<1>7. /\ next.rt.leechStopped = (IF success THEN s.rt.leechStopped \cup s.leeches
                                 ELSE s.rt.leechStopped)
      /\ next.rt.seedStopped = (IF success /\ all THEN s.rt.seedStopped \cup s.seeds
                                ELSE s.rt.seedStopped)
      /\ next.pc # "none" /\ next.fresh = s.fresh /\ next.seeds = {}
  BY <1>5 DEF Session, Settings
<1> HIDE DEF next
<1>8. KeptIn(next.rt, own', again')
  <2>1. CASE success
    BY <1>1, <1>3, <1>5, <1>6, <1>7, <2>1 DEF Kept, KeptIn, StoppedIn
  <2>2. CASE ~success
    BY <1>1, <1>4, <1>6, <1>7, <2>2 DEF Kept, KeptIn, StoppedIn
  <2> QED
    BY <2>1, <2>2
<1>9. success \/ (SameLists(next.rt, session[p].rt) /\ UNCHANGED <<own, again>>)
  BY <1>1, <1>4, <1>7 DEF SameLists, s
<1> QED
  BY <1>1, <1>2, <1>7, <1>8, <1>9, ActStep DEF s

\* The lists that are started are emptied.
LEMMA StartStep ==
  ASSUME TypeOK, ListInv, NEW p \in Proc, NEW outcome \in Outcome, Start(p, outcome),
         ~conflict', ~fault'
  PROVE  ListInv'
<1> DEFINE s == session[p]
           all == s.mode # "seedonly"
           hashes == s.rt.seedStopped \cup (IF all THEN s.rt.leechStopped ELSE {})
           next == [s EXCEPT !.pc = "speed", !.rt.seedStopped = {},
                             !.rt.leechStopped = IF all THEN {} ELSE @]
<1>1. /\ s.pc = "start" /\ Step(p, next, hashes # {})
      /\ own' = own \ (IF outcome = "refused" THEN {} ELSE hashes) /\ again' = again
      /\ fault' = (fault \/ (outcome = "refused" /\ hashes # {}))
      /\ conflict' = (conflict \/ ~s.fresh) /\ file' = file
  BY DEF Start
<1>2. s.fresh /\ ~conflict /\ ~fault /\ Active(p) /\ own' = own \ hashes
  BY <1>1 DEF Active
<1>3. s \in Session
  BY DEF TypeOK
<1>4. Kept(s.rt)
  BY <1>2 DEF ListInv
<1>5. session[p].seeds \cap session[p].leeches = {}
  BY DEF ListInv, SeedsApart
<1> HIDE DEF s
<1>6. /\ next.rt.seedStopped = {}
      /\ next.rt.leechStopped = IF all THEN {} ELSE s.rt.leechStopped
      /\ next.pc # "none" /\ next.fresh = s.fresh
      /\ next.seeds = s.seeds /\ next.leeches = s.leeches
  BY <1>3 DEF Session, Settings
<1> HIDE DEF next
<1>7. KeptIn(next.rt, own', again')
  BY <1>1, <1>2, <1>4, <1>6 DEF Kept, KeptIn, StoppedIn
<1>8. hashes # {} \/ (SameLists(next.rt, s.rt) /\ UNCHANGED <<own, again>>)
  BY <1>1, <1>2, <1>6 DEF SameLists
<1> HIDE DEF hashes
<1> QED
  BY <1>1, <1>2, <1>5, <1>6, <1>7, <1>8, ActStep DEF s

\* The file gets the lists of a session that is up to date.
LEMMA StoreStep ==
  ASSUME TypeOK, ListInv, NEW p \in Proc, Store(p), ~conflict', ~fault'
  PROVE  ListInv'
<1>1. /\ session[p].fresh /\ ~conflict /\ ~fault /\ Active(p)
      /\ file' = session[p].rt /\ Step(p, NoSession, file' # file)
      /\ UNCHANGED <<own, again, fault>>
  BY DEF Store, Active
<1>2. Kept(file)'
  <2>1. Kept(session[p].rt)
    BY <1>1 DEF ListInv
  <2> QED
    BY <1>1, <2>1 DEF Kept, KeptIn, StoppedIn
<1>3. /\ ~Active(p)' /\ session'[p].seeds \cap session'[p].leeches = {}
      /\ \A q \in Proc \ {p} :
           /\ session'[q].rt = session[q].rt
           /\ Active(q)' <=> Active(q)
           /\ session'[q].seeds = session[q].seeds
           /\ session'[q].leeches = session[q].leeches
           /\ session'[q].fresh => session[q].fresh
  BY <1>1 DEF Step, TypeOK, Session, Active, NoSession
<1>4. SeedsApart'
  BY <1>3 DEF ListInv, SeedsApart
<1>5. ASSUME NEW q \in Proc, Active(q)', session'[q].fresh PROVE Kept(session[q].rt)'
  <2>1. q # p /\ Kept(session[q].rt)
    BY <1>1, <1>3, <1>5 DEF ListInv
  <2> QED
    BY <1>1, <1>3, <2>1 DEF Kept, KeptIn, StoppedIn
<1> QED
  BY <1>2, <1>4, <1>5 DEF ListInv

\* A step that fails or conflicts still keeps seeds and leeches apart.
LEMMA ApartStep == TypeOK /\ SeedsApart /\ [Next]_vars => SeedsApart'
<1> SUFFICES ASSUME TypeOK, SeedsApart, [Next]_vars, NEW q \in Proc
             PROVE  session'[q].seeds \cap session'[q].leeches = {}
  BY DEF SeedsApart
<1>0. session[q].seeds \cap session[q].leeches = {}
  BY DEF SeedsApart
<1> USE DEF TypeOK, Session
<1>1. ASSUME NEW p \in Proc, NEW rt, Apply(p, rt)
      PROVE  session'[q].seeds \cap session'[q].leeches = {}
  BY <1>0, <1>1 DEF Apply, NoSession
<1>2. ASSUME NEW p \in Proc, NEW answered \in BOOLEAN, Query(p, answered)
      PROVE  session'[q].seeds \cap session'[q].leeches = {}
  BY <1>0, <1>2 DEF Query
<1>3. ASSUME NEW p \in Proc, NEW outcome \in Outcome,
             Stop(p, outcome) \/ Start(p, outcome) \/ SetSpeed(p, outcome)
      PROVE  session'[q].seeds \cap session'[q].leeches = {}
  <2>1. CASE q # p
    BY <1>0, <1>3, <2>1 DEF Stop, Start, SetSpeed, Step
  <2>2. CASE q = p /\ Stop(p, outcome)
    <3>1. session'[q].seeds = {}
      BY <2>2 DEF Stop, Step
    <3> QED
      BY <3>1
  <2>3. CASE q = p /\ Start(p, outcome)
    <3>1. session'[q].seeds = session[q].seeds /\ session'[q].leeches = session[q].leeches
      BY <2>3 DEF Start, Step
    <3> QED
      BY <1>0, <3>1
  <2>4. CASE q = p /\ SetSpeed(p, outcome)
    BY <1>0, <2>4 DEF SetSpeed
  <2> QED
    BY <1>3, <2>1, <2>2, <2>3, <2>4
<1>4. ASSUME NEW p \in Proc, Store(p) \/ Crash(p)
      PROVE  session'[q].seeds \cap session'[q].leeches = {}
  BY <1>0, <1>4 DEF Store, Crash, Step, NoSession
<1>5. CASE World \/ UNCHANGED vars
  BY <1>0, <1>5 DEF World, HourPasses, UserStarts, UserStops, UserIgnores, Completes,
                    Erase, Add, vars
<1>6. ASSUME NEW p \in Proc, Work(p)
      PROVE  session'[q].seeds \cap session'[q].leeches = {}
  BY <1>2, <1>3, <1>4, <1>6 DEF Work
<1> QED
  BY <1>1, <1>4, <1>5, <1>6 DEF Next, Update, Set

\* Every step keeps ListInv.
LEMMA ListStep == TypeOK /\ ListInv /\ [Next]_vars => ListInv'
<1> SUFFICES ASSUME TypeOK, ListInv, [Next]_vars, ~conflict', ~fault' PROVE ListInv'
  BY ApartStep DEF ListInv
<1>1. ASSUME NEW p \in Proc, Update(p) PROVE ListInv'
  BY <1>1, ApplyStep DEF Update, SameLists
<1>2. ASSUME NEW p \in Proc, NEW week \in [Hour -> Mode], NEW enabled \in BOOLEAN,
             Set(p, week, enabled)
      PROVE  ListInv'
  <2>1. SameLists([file EXCEPT !.week = week, !.enabled = enabled], file)
    BY DEF SameLists, TypeOK, Settings
  <2> QED
    BY <1>2, <2>1, ApplyStep DEF Set
<1>3. ASSUME NEW p \in Proc, NEW answered \in BOOLEAN, Query(p, answered) PROVE ListInv'
  <2> DEFINE active == IF answered THEN started \ ignored ELSE {}
             next == [session[p] EXCEPT !.pc = "stop", !.seeds = active \cap complete,
                                        !.leeches = active \ complete]
  <2> HIDE DEF active
  <2>1. /\ next.pc # "none" /\ next.rt = session[p].rt /\ next.fresh = session[p].fresh
        /\ next.seeds \cap next.leeches = {}
    BY DEF TypeOK, Session
  <2>2. /\ session' = [session EXCEPT ![p] = next] /\ Active(p)
        /\ UNCHANGED <<file, own, again, conflict>> /\ fault' = fault
    BY <1>3 DEF Query, active, Active, TypeOK, Session, ghosts
  <2> HIDE DEF next
  <2> QED
    BY <2>1, <2>2, QuietStep
<1>4. ASSUME NEW p \in Proc, NEW outcome \in Outcome, SetSpeed(p, outcome) PROVE ListInv'
  <2> DEFINE next == [session[p] EXCEPT !.pc = "store"]
  <2>1. /\ next.pc # "none" /\ next.rt = session[p].rt /\ next.fresh = session[p].fresh
        /\ next.seeds \cap next.leeches = {}
    BY DEF TypeOK, Session, ListInv, SeedsApart
  <2>2. /\ session' = [session EXCEPT ![p] = next] /\ Active(p)
        /\ UNCHANGED <<file, own, again, conflict>>
    BY <1>4 DEF SetSpeed, Active, TypeOK, Session
  <2>3. fault' = fault
    BY <1>4 DEF SetSpeed, TypeOK
  <2> HIDE DEF next
  <2> QED
    BY <2>1, <2>2, <2>3, QuietStep
<1>5. ASSUME NEW p \in Proc, Crash(p) PROVE ListInv'
  BY <1>5 DEF Crash
<1>6. CASE World \/ UNCHANGED vars
  <2>1. UNCHANGED <<file, session, own, again, conflict, fault>>
    BY <1>6 DEF World, HourPasses, UserStarts, UserStops, UserIgnores, Completes,
                Erase, Add, vars, ghosts
  <2> QED
    BY <2>1 DEF ListInv, SeedsApart, Kept, KeptIn, StoppedIn, Dirty, Active, SameLists
<1>7. ASSUME NEW p \in Proc, Work(p) PROVE ListInv'
  BY <1>3, <1>4, <1>7, StopStep, StartStep, StoreStep DEF Work
<1> QED
  BY <1>1, <1>2, <1>5, <1>6, <1>7 DEF Next

LEMMA SchedulerInit == Init => TypeOK /\ ListInv
<1> SUFFICES ASSUME Init PROVE TypeOK /\ ListInv
  OBVIOUS
<1>1. conflict \in BOOLEAN /\ fault \in BOOLEAN
  BY Zenon DEF Init
<1>2. TypeOK
  BY <1>1, DefaultType DEF Init, TypeOK, Mode
<1>3. SeedsApart /\ \A p \in Proc : ~Active(p)
  BY DEF Init, SeedsApart, Active, NoSession
<1>4. Kept(file)
  BY DEF Init, Default, Kept, KeptIn, StoppedIn
<1> QED
  BY <1>2, <1>3, <1>4 DEF ListInv

\* The variables have their types.
THEOREM SchedulerTypeCorrect == Spec => []TypeOK
<1>1. Init => TypeOK
  BY SchedulerInit
<1> QED
  BY <1>1, TypeStep, PTL DEF Spec

LEMMA ListInvariant == Spec => [](TypeOK /\ ListInv)
BY SchedulerInit, TypeStep, ListStep, PTL DEF Spec

\* Without conflicting sessions and failures the stored lists are what the
\* scheduler has stopped and not started again (rScheduler::apply()).
THEOREM SchedulerListsExact == Spec => []ListsExact
<1>1. ListInv => ListsExact
  BY DEF ListInv, ListsExact, Kept, KeptIn, Exact, Settled, Dirty
<1> QED
  BY <1>1, ListInvariant, PTL

\* It starts only torrents it had itself stopped (rScheduler::processArray()).
THEOREM SchedulerStartsOwn == Spec => StartsOnlyOwn
<1> DEFINE Step1 == \A p \in Proc, outcome \in Outcome :
             Start(p, outcome) /\ ~conflict' /\ ~fault'
               => started' \ started \subseteq own \cup again
<1>1. TypeOK /\ ListInv /\ [Next]_vars => [Step1]_vars
  <2> SUFFICES ASSUME ListInv, NEW p \in Proc, NEW outcome \in Outcome,
                      Start(p, outcome), ~conflict', ~fault'
               PROVE  started' \ started \subseteq own \cup again
    OBVIOUS
  <2>1. session[p].fresh /\ Active(p) /\ ~conflict /\ ~fault
    BY DEF Start, Active
  <2>2. Kept(session[p].rt)
    BY <2>1 DEF ListInv
  <2>3. started' \ started \subseteq StoppedIn(session[p].rt)
    BY DEF Start, Received, StoppedIn
  <2> QED
    BY <2>2, <2>3 DEF Kept, KeptIn
<1>2. [][Step1]_vars => StartsOnlyOwn
  BY DEF StartsOnlyOwn
<1> HIDE DEF Step1
<1> QED
  BY <1>1, <1>2, ListInvariant, PTL DEF Spec
-----------------------------------------------------------------------------
(***************************************************************************)
(* Limits and lists are of one mode (RateMatchesLists).  A session sets    *)
(* the limits and stores its lists in two steps, between which others set  *)
(* theirs, so only this much is inductive: while all sessions are up to    *)
(* date, those that will store agree with the limits, and two sessions     *)
(* have the lists of the file.  A session that is out of date stays so     *)
(* until it dies or is seen to act on it.                                  *)
(***************************************************************************)

\* The speed limits of mode m go with the lists of rt.
Fits(rt, m) ==
  /\ rt.seedStopped # {} => m = "stop"
  /\ rt.leechStopped # {} => m \in {"stop", "seedonly"}

AllFresh == \A p \in Proc : Active(p) => session[p].fresh

SpeedFits ==
  /\ \A p, q \in Proc : p # q /\ Active(p) /\ Active(q) => SameLists(session[p].rt, file)
  /\ \A p \in Proc :
       /\ session[p].pc = "speed" => Fits(session[p].rt, session[p].mode)
       /\ session[p].pc = "store" => Fits(session[p].rt, rate)
  /\ Fits(file, rate) \/ \E p \in Proc : /\ session[p].pc = "store"
                                         /\ ~SameLists(session[p].rt, file)

SpeedInv == conflict \/ fault \/ ~AllFresh \/ SpeedFits

\* A session that is out of date, or has come to conflict or fail, stays so.
LEMMA DoomedStays ==
  TypeOK /\ [Next]_vars /\ ~conflict' /\ ~fault' /\ AllFresh' => ~conflict /\ ~fault /\ AllFresh
<1> SUFFICES ASSUME TypeOK, [Next]_vars, ~conflict', ~fault', AllFresh'
             PROVE  ~conflict /\ ~fault /\ AllFresh
  OBVIOUS
<1> DEFINE Goal == ~conflict /\ ~fault /\ \A q \in Proc : Active(q) => session[q].fresh
<1>0. \A q \in Proc : session'[q].pc # "none" => session'[q].fresh
  BY DEF AllFresh, Active
<1>1. ASSUME NEW p \in Proc, NEW rt, Apply(p, rt) PROVE Goal
  BY <1>0, <1>1 DEF Apply, ghosts, Active, TypeOK
<1>2. ASSUME NEW p \in Proc, NEW answered \in BOOLEAN, Query(p, answered) PROVE Goal
  BY <1>0, <1>2 DEF Query, ghosts, Active, TypeOK, Session
<1>3. ASSUME NEW p \in Proc, NEW next, NEW change, Step(p, next, change),
             session[p].fresh
      PROVE  AllFresh
  BY <1>0, <1>3 DEF Step, Active, TypeOK, Session, AllFresh
<1>4. ASSUME NEW p \in Proc, NEW outcome \in Outcome, Stop(p, outcome) PROVE Goal
  <2>1. ~conflict /\ ~fault /\ session[p].fresh
    BY <1>4 DEF Stop
  <2> QED
    BY <1>3, <1>4, <2>1 DEF Stop, AllFresh
<1>5. ASSUME NEW p \in Proc, NEW outcome \in Outcome, Start(p, outcome) PROVE Goal
  <2>1. ~conflict /\ ~fault /\ session[p].fresh
    BY <1>5 DEF Start
  <2> QED
    BY <1>3, <1>5, <2>1 DEF Start, AllFresh
<1>6. ASSUME NEW p \in Proc, NEW outcome \in Outcome, SetSpeed(p, outcome) PROVE Goal
  <2>1. ~conflict /\ ~fault
    BY <1>6 DEF SetSpeed
  <2>2. \A q \in Proc : Active(q) => session[q].fresh
    BY <1>0, <1>6 DEF SetSpeed, Active, TypeOK, Session
  <2> QED
    BY <2>1, <2>2
<1>7. ASSUME NEW p \in Proc, Store(p) PROVE Goal
  <2>1. ~conflict /\ ~fault /\ session[p].fresh
    BY <1>7 DEF Store
  <2> QED
    BY <1>3, <1>7, <2>1 DEF Store, AllFresh
<1>8. ASSUME NEW p \in Proc, Crash(p) PROVE Goal
  BY <1>8 DEF Crash
<1>9. ASSUME World \/ UNCHANGED vars PROVE Goal
  <2>1. UNCHANGED <<session, conflict, fault>>
    BY <1>9 DEF World, HourPasses, UserStarts, UserStops, UserIgnores, Completes,
                Erase, Add, vars, ghosts
  <2> QED
    BY <1>0, <2>1 DEF Active
<1>10. ASSUME Goal PROVE ~conflict /\ ~fault /\ AllFresh
  BY <1>10 DEF AllFresh
<1> HIDE DEF Goal
<1>11. ASSUME NEW p \in Proc, Work(p) PROVE Goal
  BY <1>2, <1>4, <1>5, <1>6, <1>7, <1>11 DEF Work
<1> QED
  BY <1>1, <1>8, <1>9, <1>10, <1>11 DEF Next, Update, Set

\* A session that begins while all are up to date finds none about to change the
\* lists it loads.
LEMMA ApplyFits ==
  ASSUME TypeOK, SpeedFits, NEW p \in Proc, NEW rt, SameLists(rt, file), Apply(p, rt),
         AllFresh'
  PROVE  SpeedFits'
<1>1. /\ session'[p].rt = rt /\ session'[p].pc \in {"store", "start", "query"}
      /\ session'[p].fresh = (\A q \in Proc : Active(q) => SameLists(session[q].rt, file))
      /\ ~Active(p)
      /\ \A q \in Proc \ {p} : session'[q] = session[q]
      /\ UNCHANGED <<file, rate>>
  BY DEF Apply, NoSession, TypeOK, ghosts, rtorrent
<1>2. \A q \in Proc : Active(q) => SameLists(session[q].rt, file)
  BY <1>1 DEF AllFresh, Active
<1>3. Fits(file, rate)
  BY <1>2 DEF SpeedFits, Active
<1>4. Fits(rt, rate)
  BY <1>3 DEF Fits, SameLists
<1> QED
  BY <1>1, <1>2, <1>3, <1>4 DEF SpeedFits, Fits, SameLists, Active

\* A session that changes its lists has outdated the others, so it is alone.
LEMMA ListsFit ==
  ASSUME TypeOK, SpeedFits, NEW p \in Proc, NEW next, NEW change \in BOOLEAN,
         Step(p, next, change), Active(p), UNCHANGED <<file, rate>>, AllFresh',
         next.pc \in {"start", "speed"}, next.pc = "speed" => Fits(next.rt, next.mode),
         session[p].pc # "store", change \/ SameLists(next.rt, session[p].rt)
  PROVE  SpeedFits'
<1>0. Fits(file, rate)
  BY DEF SpeedFits, Active
<1>1. /\ session'[p] = next
      /\ \A q \in Proc \ {p} :
           /\ session'[q].rt = session[q].rt /\ session'[q].pc = session[q].pc
           /\ session'[q].mode = session[q].mode
           /\ Active(q) => (session'[q].fresh <=> (session[q].fresh /\ ~change))
  BY DEF Step, TypeOK, Session, Active
<1>2. CASE change
  <2>1. \A q \in Proc \ {p} : ~Active(q)
    BY <1>1, <1>2 DEF AllFresh, Active
  <2> QED
    BY <1>0, <1>1, <2>1 DEF SpeedFits, Fits, SameLists, Active
<1>3. CASE ~change
  <2>1. SameLists(next.rt, session[p].rt)
    BY <1>3
  <2> QED
    BY <1>1, <2>1 DEF SpeedFits, Fits, SameLists, Active
<1> QED
  BY <1>2, <1>3

\* What a session does to the limits fits the lists it will store; any other
\* session up to date has the same lists.
LEMMA LimitsFit ==
  ASSUME TypeOK, SpeedFits, NEW p \in Proc, NEW outcome \in Outcome,
         SetSpeed(p, outcome), ~fault'
  PROVE  SpeedFits'
<1>1. /\ session[p].pc = "speed" /\ rate' = session[p].mode /\ file' = file
      /\ session'[p].pc = "store" /\ session'[p].rt = session[p].rt
      /\ \A q \in Proc \ {p} : session'[q] = session[q]
  BY DEF SetSpeed, TypeOK, Session
<1>2. Fits(session[p].rt, rate')
  BY <1>1 DEF SpeedFits
<1>3. \A q \in Proc \ {p} :
        Active(q) => SameLists(session[q].rt, file) /\ SameLists(session[p].rt, file)
  BY <1>1 DEF SpeedFits, Active
<1>4. \A q \in Proc : session'[q].pc = "store" => Fits(session'[q].rt, rate')
  BY <1>1, <1>2, <1>3 DEF Fits, SameLists, Active
<1>5. Fits(file, rate') \/ ~SameLists(session[p].rt, file)
  BY <1>2 DEF Fits, SameLists
<1> QED
  BY <1>1, <1>3, <1>4, <1>5 DEF SpeedFits, Fits, SameLists, Active

\* The file gets lists that fit the limits.
LEMMA StoreFits ==
  ASSUME TypeOK, SpeedFits, NEW p \in Proc, Store(p), AllFresh'
  PROVE  SpeedFits'
<1>1. /\ session[p].pc = "store" /\ file' = session[p].rt /\ rate' = rate
      /\ Step(p, NoSession, file' # file)
  BY DEF Store, rtorrent
<1>2. /\ session'[p].pc = "none"
      /\ \A q \in Proc \ {p} :
           /\ session'[q].rt = session[q].rt /\ session'[q].pc = session[q].pc
           /\ session'[q].mode = session[q].mode
           /\ Active(q) /\ session'[q].fresh => file' = file
  BY <1>1 DEF Step, TypeOK, Session, Active, NoSession
<1>3. Fits(file', rate')
  BY <1>1 DEF SpeedFits
<1>4. \A q \in Proc \ {p} : Active(q) => file' = file
  BY <1>2 DEF AllFresh, Active
<1> QED
  BY <1>1, <1>2, <1>3, <1>4 DEF SpeedFits, Fits, SameLists, Active

LEMMA SpeedStep == TypeOK /\ SpeedInv /\ [Next]_vars => SpeedInv'
<1> SUFFICES ASSUME TypeOK, SpeedInv, [Next]_vars, ~conflict', ~fault', AllFresh'
             PROVE  SpeedFits'
  BY DEF SpeedInv
<1>0. SpeedFits
  BY DoomedStays DEF SpeedInv
<1>1. ASSUME NEW p \in Proc, Update(p) PROVE SpeedFits'
  BY <1>0, <1>1, ApplyFits DEF Update, SameLists
<1>2. ASSUME NEW p \in Proc, NEW week \in [Hour -> Mode], NEW enabled \in BOOLEAN,
             Set(p, week, enabled)
      PROVE  SpeedFits'
  <2>1. SameLists([file EXCEPT !.week = week, !.enabled = enabled], file)
    BY DEF SameLists, TypeOK, Settings
  <2> QED
    BY <1>0, <1>2, <2>1, ApplyFits DEF Set
<1>3. ASSUME NEW p \in Proc, NEW answered \in BOOLEAN, Query(p, answered) PROVE SpeedFits'
  <2>1. /\ session[p].pc = "query" /\ session'[p].pc = "stop"
        /\ session'[p].rt = session[p].rt
        /\ \A q \in Proc \ {p} : session'[q] = session[q]
        /\ UNCHANGED <<file, rate>>
    BY <1>3 DEF Query, TypeOK, Session, rtorrent
  <2> QED
    BY <1>0, <2>1 DEF SpeedFits, Fits, SameLists, Active
<1>4. ASSUME NEW p \in Proc, NEW outcome \in Outcome, Stop(p, outcome) PROVE SpeedFits'
  <2> DEFINE s == session[p]
             all == s.mode = "stop"
             hashes == s.leeches \cup (IF all THEN s.seeds ELSE {})
             success == Success(outcome, hashes)
             next == [s EXCEPT !.pc = IF all THEN "speed" ELSE "start",
                               !.seeds = {}, !.leeches = {},
                               !.rt.leechStopped = IF success THEN @ \cup s.leeches ELSE @,
                               !.rt.seedStopped = IF success /\ all THEN @ \cup s.seeds ELSE @]
  <2>1. s.pc = "stop" /\ Step(p, next, success) /\ UNCHANGED <<file, rate>>
    BY <1>4 DEF Stop
  <2>2. s \in Session
    BY DEF TypeOK
  <2>3. success \in BOOLEAN
    BY Zenon DEF Success
  <2> HIDE DEF s, success
  <2>4. /\ next.pc = IF all THEN "speed" ELSE "start"
        /\ next.mode = s.mode
        /\ ~success => next.rt.leechStopped = s.rt.leechStopped
                       /\ next.rt.seedStopped = s.rt.seedStopped
    BY <2>2 DEF Session, Settings
  <2> HIDE DEF next
  <2>5. next.pc \in {"start", "speed"} /\ (next.pc = "speed" => Fits(next.rt, next.mode))
    BY <2>4 DEF Fits
  <2>6. success \/ SameLists(next.rt, s.rt)
    BY <2>4 DEF SameLists
  <2> QED
    BY <1>0, <2>1, <2>3, <2>5, <2>6, ListsFit DEF s, Active
<1>5. ASSUME NEW p \in Proc, NEW outcome \in Outcome, Start(p, outcome) PROVE SpeedFits'
  <2> DEFINE s == session[p]
             all == s.mode # "seedonly"
             hashes == s.rt.seedStopped \cup (IF all THEN s.rt.leechStopped ELSE {})
             next == [s EXCEPT !.pc = "speed", !.rt.seedStopped = {},
                               !.rt.leechStopped = IF all THEN {} ELSE @]
  <2>1. s.pc = "start" /\ Step(p, next, hashes # {}) /\ UNCHANGED <<file, rate>>
    BY <1>5 DEF Start
  <2>2. s \in Session
    BY DEF TypeOK
  <2> HIDE DEF s
  <2>3. /\ next.pc = "speed" /\ next.mode = s.mode /\ next.rt.seedStopped = {}
        /\ next.rt.leechStopped = IF all THEN {} ELSE s.rt.leechStopped
    BY <2>2 DEF Session, Settings
  <2> HIDE DEF next
  <2>4. Fits(next.rt, next.mode)
    BY <2>3 DEF Fits
  <2>5. hashes # {} \/ SameLists(next.rt, s.rt)
    BY <2>3 DEF SameLists
  <2>6. (hashes # {}) \in BOOLEAN
    OBVIOUS
  <2> HIDE DEF hashes
  <2> QED
    BY <1>0, <2>1, <2>3, <2>4, <2>5, <2>6, ListsFit DEF s, Active
<1>6. ASSUME NEW p \in Proc, Crash(p) PROVE FALSE
  BY <1>6 DEF Crash
<1>7. CASE World \/ UNCHANGED vars
  <2>1. UNCHANGED <<file, session, rate>>
    BY <1>7 DEF World, HourPasses, UserStarts, UserStops, UserIgnores, Completes,
                Erase, Add, vars, rtorrent
  <2> QED
    BY <1>0, <2>1 DEF SpeedFits, Fits, SameLists, Active
<1>8. ASSUME NEW p \in Proc, Work(p) PROVE SpeedFits'
  BY <1>0, <1>3, <1>4, <1>5, <1>8, LimitsFit, StoreFits DEF Work
<1> QED
  BY <1>1, <1>2, <1>6, <1>7, <1>8 DEF Next

\* When no session is at work, limits and lists are of one mode: at full speed the
\* scheduler holds no torrent back (rScheduler::apply(), setSpeed()).
THEOREM SchedulerRateMatches == Spec => []RateMatchesLists
<1>1. Init => SpeedInv
  BY DEF Init, SpeedInv, SpeedFits, Fits, Default, Active, NoSession
<1>2. SpeedInv => RateMatchesLists
  BY DEF SpeedInv, SpeedFits, AllFresh, Fits, RateMatchesLists, Settled, Active
<1> QED
  BY <1>1, <1>2, SchedulerTypeCorrect, SpeedStep, PTL DEF Spec
=============================================================================
