----------------------------- MODULE UpdateLock -----------------------------
(***************************************************************************)
(* The lock file of a scheduled script (rutorrent/php/lock.php, class      *)
(* rLock).  rTorrent starts the script every few minutes whether or not    *)
(* the last run has ended; the script goes on only if the lock file is     *)
(* absent or older than the lock time, and deletes the file at its end.    *)
(*                                                                         *)
(* The test and the touch() are separate system calls, a killed script     *)
(* leaves the file behind, and a script that outlives the lock time is     *)
(* overtaken and then deletes the lock of the one that overtook it.        *)
(*                                                                         *)
(* Ages are in ticks and stop counting just past LockTime, which is all    *)
(* that the code compares.                                                 *)
(***************************************************************************)
EXTENDS Naturals

CONSTANTS Proc,      \* runs of the script
          LockTime,  \* $maxLockTime
          NoFile

ASSUME UpdateLockAssumption == LockTime \in Nat /\ NoFile \notin Nat

VARIABLES age,     \* age of the lock file, or NoFile
          state,   \* where each run is
          held,    \* ticks since each run touched the file
          raced,   \* history: two runs were between test and touch() at once
          overrun  \* history: a run has held the lock for longer than LockTime

vars == <<age, state, held, raced, overrun>>

Age == 0..LockTime+1

TypeOK ==
  /\ age \in Age \cup {NoFile}
  /\ state \in [Proc -> {"idle", "tested", "holding"}]
  /\ held \in [Proc -> Age]
  /\ raced \in BOOLEAN /\ overrun \in BOOLEAN

Init ==
  /\ age = NoFile
  /\ state = [p \in Proc |-> "idle"]
  /\ held = [p \in Proc |-> 0]
  /\ raced = FALSE /\ overrun = FALSE

\* Mutant: an old lock is never taken over.
NeverTakenOver == age = NoFile

\* Mutant: the lock time counts as over when it has just been reached.
OverAtOnce == age # NoFile => age >= LockTime

Obtainable == age # NoFile => age > LockTime

\* Mutant: a run that finds the lock taken waits for it.
WaitForLock(p) ==
  /\ state[p] = "idle"
  /\ state' = [state EXCEPT ![p] = IF Obtainable THEN "tested" ELSE "waiting"]
  /\ raced' = (raced \/ \E q \in Proc : state[q] = "tested")
  /\ UNCHANGED <<age, held, overrun>>

\* lock(): the test.  A run that fails it ends at once.
Test(p) ==
  /\ state[p] = "idle"
  /\ Obtainable
  /\ state' = [state EXCEPT ![p] = "tested"]
  /\ raced' = (raced \/ \E q \in Proc : state[q] = "tested")
  /\ UNCHANGED <<age, held, overrun>>

\* lock(): touch() creates the file or makes it new again.
Touch(p) ==
  /\ state[p] = "tested"
  /\ state' = [state EXCEPT ![p] = "holding"]
  /\ age' = 0
  /\ held' = [held EXCEPT ![p] = 0]
  /\ UNCHANGED <<raced, overrun>>

\* release(): unlink(), whoever touched the file last.
Release(p) ==
  /\ state[p] = "holding"
  /\ state' = [state EXCEPT ![p] = "idle"]
  /\ age' = NoFile
  /\ held' = [held EXCEPT ![p] = 0]
  /\ UNCHANGED <<raced, overrun>>

\* The run is killed before its destructor could release the lock.
Crash(p) ==
  /\ state[p] # "idle"
  /\ state' = [state EXCEPT ![p] = "idle"]
  /\ held' = [held EXCEPT ![p] = 0]
  /\ UNCHANGED <<age, raced, overrun>>

Older(a) == IF a > LockTime THEN a ELSE a + 1

Tick ==
  /\ age' = IF age = NoFile THEN NoFile ELSE Older(age)
  /\ held' = [p \in Proc |-> IF state[p] = "holding" THEN Older(held[p]) ELSE held[p]]
  /\ overrun' = (overrun \/ \E p \in Proc : state[p] = "holding" /\ held[p] >= LockTime)
  /\ UNCHANGED <<state, raced>>

Next ==
  \/ \E p \in Proc : Test(p) \/ Touch(p) \/ Release(p) \/ Crash(p)
  \/ Tick

Spec == Init /\ [][Next]_vars

\* Time goes by, rTorrent keeps starting the script, and of the runs that find
\* the lock free not every one is killed before it takes it.  Nothing is assumed
\* of the runs that hold the lock: each may hang for ever.
Fairness ==
  /\ WF_vars(Tick)
  /\ WF_vars(\E p \in Proc : Test(p))
  /\ SF_vars(\E p \in Proc : Touch(p))

FairSpec == Spec /\ Fairness

-----------------------------------------------------------------------------

Holders == {p \in Proc : state[p] = "holding"}

\* Two runs hold the lock at once only after two of them had raced from the test
\* to the touch(), or one had run for longer than the lock time.  In particular a
\* run killed with the lock held does not lead there.
Exclusive == raced \/ overrun \/ \A p, q \in Holders : p = q

\* As long as there is always a run that has not hung, for rTorrent to start, runs
\* go on taking the lock, whether its holders return, are killed or hang with it.
TakenOver ==
  []<>(\E p \in Proc : state[p] = "idle") => []<><<\E p \in Proc : Touch(p)>>_vars
=============================================================================
