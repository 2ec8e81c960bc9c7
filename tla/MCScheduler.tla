----------------------------- MODULE MCScheduler -----------------------------
(***************************************************************************)
(* Small instances of Scheduler.  Two hours, of which only one is ever set *)
(* to another mode than full speed, and anew at any time, stand for any    *)
(* sequence of hours; liveness is checked, so symmetry is not used.        *)
(***************************************************************************)
EXTENDS Scheduler

Night == CHOOSE h \in Hour : TRUE

\* The user sets the nights, and to anything but full speed, which is what the days
\* are at; everything else is as in Scheduler.
NextOfNights ==
  \/ \E p \in Proc :
       \/ Update(p)
       \/ \E mode \in Mode \ {"fast"}, enabled \in BOOLEAN :
            Set(p, [h \in Hour |-> IF h = Night THEN mode ELSE "fast"], enabled)
       \/ Work(p)
       \/ Crash(p)
  \/ World

SpecOfNights ==
  /\ Init /\ [][NextOfNights]_vars
  /\ WF_vars(\E p \in Proc : Update(p)) /\ \A p \in Proc : WF_vars(Work(p))

\* A behaviour is followed up to its first failure or conflict: every property but
\* the typing excepts what comes after it.
Calm == ~fault /\ ~conflict

Schedule(rt) == <<rt.week, rt.enabled>>

\* No more than two schedules are about at a time.
TwoSchedules ==
  Cardinality({Schedule(file)} \cup {Schedule(session[p].rt) : p \in {q \in Proc : Active(q)}}) <= 2

\* While sessions overlap no torrent is ignored or missing.
PlainOverlap == (\A p \in Proc : Active(p)) => ignored = {} /\ present = Torrent
=============================================================================
