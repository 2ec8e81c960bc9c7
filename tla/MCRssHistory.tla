---------------------------- MODULE MCRssHistory ----------------------------
(***************************************************************************)
(* Small instances of RssHistory.  A behaviour is followed up to its first *)
(* lost save: the safety properties say nothing of what comes after it.    *)
(***************************************************************************)
EXTENDS RssHistory, TLC

MCMatches == [f \in Filter |-> Url]

\* Filters for the first item only.
MCFirstOnly == [f \in Filter |-> {1}]

\* One filter that loads every hour, the others once.
MCInterval == [f \in Filter |-> IF f = 1 THEN "hours" ELSE "once"]

\* Filters without pacing.
MCAlways == [f \in Filter |-> "always"]

\* All within the same hour, for filters without pacing, and with feeds that list
\* the same items all the time.
SpecSameHour == Init /\ [][Next /\ ~HoursPass /\ listed' = listed /\ ~lost']_vars

\* The first item may be published again, the others are not.
SpecOneRepublished ==
  Init /\ [][Next /\ \A u \in Url \ {1} : stamp'[u] = stamp[u]]_vars

\* For what happens in the end: the sessions that pass, besides the updates, are
\* those that edit the history or set the filters.
FairSpecOneRepublished ==
  /\ Init
  /\ [][/\ Calm
        /\ \A u \in Url \ {1} : stamp'[u] = stamp[u]
        /\ \A p \in Proc : session'[p].kind \notin {"refresh", "manual"}]_vars
  /\ Fairness

Symmetry == Permutations(Proc)
=============================================================================
