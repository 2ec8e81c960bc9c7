-------------------------- MODULE UpdateLockProofs --------------------------
(***************************************************************************)
(* Mutual exclusion of the scheduled scripts, for any number of runs and   *)
(* any lock time.                                                          *)
(***************************************************************************)
EXTENDS UpdateLock, TLAPS

\* As long as no two runs raced and none overran, at most one run is past the
\* test, and the lock file is as old as the hold of the one that holds it: it has
\* not expired, which keeps every other run from passing the test.
OneBusy == \A p, q \in Proc : state[p] # "idle" /\ state[q] # "idle" => p = q

FileIsHeld == \A p \in Holders : age = held[p] /\ held[p] \in 0..LockTime

LockInv == TypeOK /\ (raced \/ overrun \/ (OneBusy /\ FileIsHeld))

LEMMA OlderType == ASSUME NEW a \in Age PROVE Older(a) \in Age /\ Older(a) # NoFile
BY UpdateLockAssumption DEF Age, Older

\* The types of the variables are kept.
LEMMA TypeStep == TypeOK /\ [Next]_vars => TypeOK'
<1> SUFFICES ASSUME TypeOK, [Next]_vars PROVE TypeOK'
  OBVIOUS
<1> USE UpdateLockAssumption DEF TypeOK
<1>1. ASSUME NEW p \in Proc, Test(p) PROVE TypeOK'
  BY <1>1 DEF Test, Age
<1>2. ASSUME NEW p \in Proc, Touch(p) PROVE TypeOK'
  BY <1>2 DEF Touch, Age
<1>3. ASSUME NEW p \in Proc, Release(p) PROVE TypeOK'
  BY <1>3 DEF Release, Age
<1>4. ASSUME NEW p \in Proc, Crash(p) PROVE TypeOK'
  BY <1>4 DEF Crash, Age
<1>5. ASSUME Tick PROVE TypeOK'
  BY <1>5, OlderType DEF Tick
<1>6. CASE UNCHANGED vars
  BY <1>6 DEF vars
<1> QED
  BY <1>1, <1>2, <1>3, <1>4, <1>5, <1>6 DEF Next

\* Every step keeps LockInv.
LEMMA LockStep == LockInv /\ [Next]_vars => LockInv'
<1> SUFFICES ASSUME LockInv, [Next]_vars, ~raced', ~overrun' PROVE (OneBusy /\ FileIsHeld)'
  BY TypeStep DEF LockInv
<1>0. TypeOK
  BY DEF LockInv
<1>1. ASSUME NEW p \in Proc, Test(p) PROVE (OneBusy /\ FileIsHeld)'
  <2>1. OneBusy /\ FileIsHeld /\ \A q \in Proc : state[q] # "tested"
    BY <1>1 DEF LockInv, Test
  <2>2. \A q \in Proc : state[q] # "holding"
    BY <1>1, <2>1, UpdateLockAssumption DEF Test, Obtainable, FileIsHeld, Holders
  <2>3. \A q \in Proc : state[q] = "idle"
    BY <1>0, <2>1, <2>2 DEF TypeOK
  <2> QED
    BY <1>0, <1>1, <2>3 DEF Test, OneBusy, FileIsHeld, Holders, TypeOK
<1>2. ASSUME NEW p \in Proc, Touch(p) PROVE (OneBusy /\ FileIsHeld)'
  <2>1. OneBusy
    BY <1>2 DEF LockInv, Touch
  <2>2. OneBusy' /\ \A q \in Holders' : q = p
    BY <1>0, <1>2, <2>1 DEF Touch, OneBusy, Holders, TypeOK
  <2>3. age' = 0 /\ held'[p] = 0
    BY <1>0, <1>2 DEF Touch, TypeOK
  <2> QED
    BY <2>2, <2>3, UpdateLockAssumption DEF FileIsHeld
<1>3. ASSUME NEW p \in Proc, Release(p) PROVE (OneBusy /\ FileIsHeld)'
  BY <1>0, <1>3 DEF LockInv, Release, OneBusy, FileIsHeld, Holders, TypeOK
<1>4. ASSUME NEW p \in Proc, Crash(p) PROVE (OneBusy /\ FileIsHeld)'
  BY <1>0, <1>4 DEF LockInv, Crash, OneBusy, FileIsHeld, Holders, TypeOK
<1>5. ASSUME Tick PROVE (OneBusy /\ FileIsHeld)'
  <2>1. OneBusy /\ FileIsHeld /\ \A p \in Holders : ~(held[p] >= LockTime)
    BY <1>5 DEF LockInv, Tick, Holders
  <2>2. Holders' = Holders /\ OneBusy'
    BY <1>5, <2>1 DEF Tick, Holders, OneBusy
  <2>3. ASSUME NEW p \in Holders PROVE age' = held'[p] /\ held'[p] \in 0..LockTime
    <3>1. age = held[p] /\ held[p] \in 0..LockTime /\ ~(held[p] >= LockTime)
      BY <2>1, <2>3 DEF FileIsHeld
    <3>2. age' = Older(age) /\ held'[p] = Older(held[p])
      BY <1>5, <3>1, UpdateLockAssumption DEF Tick, Holders
    <3> QED
      BY <3>1, <3>2, UpdateLockAssumption DEF Older
  <2> QED
    BY <2>2, <2>3 DEF FileIsHeld
<1>6. CASE UNCHANGED vars
  BY <1>6 DEF LockInv, vars, OneBusy, FileIsHeld, Holders
<1> QED
  BY <1>1, <1>2, <1>3, <1>4, <1>5, <1>6 DEF Next

LEMMA LockInit == Init => LockInv
<1> SUFFICES ASSUME Init PROVE LockInv
  OBVIOUS
<1>1. TypeOK
  <2>1. 0 \in Age
    BY UpdateLockAssumption DEF Age
  <2>2. raced \in BOOLEAN /\ overrun \in BOOLEAN
    BY Zenon DEF Init
  <2> QED
    BY <2>1, <2>2, Zenon DEF Init, TypeOK
<1>2. OneBusy /\ Holders = {}
  BY DEF Init, OneBusy, Holders
<1> QED
  BY <1>1, <1>2 DEF LockInv, FileIsHeld

\* The variables have their types, however many runs there are.
THEOREM LockTypeCorrect == Spec => []TypeOK
<1>1. Init => TypeOK
  BY LockInit DEF LockInv
<1> QED
  BY <1>1, TypeStep, PTL DEF Spec

\* At most one run holds the lock rss/update unless two raced from the test to
\* the touch() or one outlived the lock time, crashes included (rLock::lock(),
\* rLock::release()).
THEOREM LockExcludes == Spec => []Exclusive
<1>1. LockInv => Exclusive
  BY DEF LockInv, OneBusy, Exclusive, Holders
<1> QED
  BY <1>1, LockInit, LockStep, PTL DEF Spec
=============================================================================
