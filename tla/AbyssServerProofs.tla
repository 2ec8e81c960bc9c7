------------------------- MODULE AbyssServerProofs -------------------------
(***************************************************************************)
(* Theorems about AbyssServer for any number of connections and any        *)
(* limits.                                                                 *)
(*                                                                         *)
(* They rest on who owns a connection that is allocated: the list of the   *)
(* run, the master that has just created it or is about to free it, or a   *)
(* run that failed.  The limit holds because the count kept beside the     *)
(* list is the size of the list.                                           *)
(***************************************************************************)
EXTENDS AbyssServer, FiniteSetTheorems, TLAPS

USE AbyssAssumption DEF listVars, runVars, stopVars, masterVars, connVars

\* The list: its count, what the walks keep, and the places of the master.
ListInv ==
  /\ IsFiniteSet(list) /\ count = Cardinality(list)
  /\ left \subseteq list
  /\ left # {} \/ at # NoConn => Sweeping \/ main = "interrupt"
  /\ main = "user" => list = {}
  /\ main = "adding" => count < MaxConn
  /\ count <= MaxConn
  /\ new # NoConn <=> main \in {"fresh", "room", "cramped", "adding"}

\* An allocated connection has one owner.
HeldBy(c) ==
  \/ c \in list
  \/ c \in abandoned
  \/ main = "adding" /\ c = new
  \/ Sweeping /\ c = at

OwnerInv ==
  /\ \A c \in Conn : conn[c] = "held" <=> HeldBy(c)
  /\ list \cap abandoned = {}
  /\ main = "adding" => new \notin list \cup abandoned
  /\ Sweeping => at \notin list \cup abandoned
  /\ main \in {"fresh", "room", "cramped"} =>
       conn[new] = "none" /\ channel[new] = "live" /\ thread[new] = "none"

\* How far the parts of a connection are.
PartsInv ==
  \A c \in Conn :
    /\ thread[c] = "none" <=> conn[c] \in {"none", "leaked"}
    /\ thread[c] \notin {"none", "exited"} =>
         conn[c] = "held" /\ channel[c] = "live"
    /\ thread[c] \in {"reading", "data", "answering"} => requests[c] < KeepMax
    /\ thread[c] \in {"none", "exited"} => requests[c] = 0
    /\ conn[c] = "freed" => thread[c] = "exited"
    /\ channel[c] = "none" => conn[c] = "none"
    /\ channel[c] # "spoilt"

IInv == TypeOK /\ ListInv /\ OwnerInv /\ PartsInv

LEMMA InitIInv == Init => IInv
<1> SUFFICES ASSUME Init PROVE IInv
  OBVIOUS
<1> USE DEF Init
<1>1. TypeOK
  BY DEF TypeOK
<1>2. ListInv
  BY FS_EmptySet DEF ListInv, Sweeping
<1>3. OwnerInv
  BY DEF OwnerInv, HeldBy, Sweeping
<1>4. PartsInv
  BY DEF PartsInv
<1> QED BY <1>1, <1>2, <1>3, <1>4 DEF IInv

-----------------------------------------------------------------------------

\* Steps of the master that move it or its walk and touch no connection.
Moves ==
  \/ Run \/ NextConnection \/ RunFails \/ StopAccepting \/ AcceptInterrupted
  \/ \E c \in Conn : PassBy(c) \/ Ignore(c) \/ Aim(c)
  \/ Cramped \/ Drain \/ Return
  \/ Swept("fresh", "room") \/ Swept("cramped", "room")
  \/ Swept("interrupt", "drain") \/ Swept("draining", "drain")

LEMMA MovesKeepIInv == ASSUME IInv, Moves PROVE IInv'
<1> USE DEF IInv, Moves, Run, NextConnection, RunFails, StopAccepting, AcceptInterrupted,
        PassBy, Ignore, Aim, Cramped, Drain, Return, Swept
<1>1. TypeOK'
  BY DEF TypeOK
<1>2. ListInv'
  BY FS_EmptySet DEF ListInv, Sweeping, TypeOK
<1>3. OwnerInv'
  <2>1. \A c \in Conn : HeldBy(c)' <=> HeldBy(c)
    BY DEF HeldBy, Sweeping, TypeOK, ListInv
  <2>2. UNCHANGED <<conn, channel, thread>>
    OBVIOUS
  <2>3. (list \cap abandoned = {})' /\ (main = "adding" => new \notin list \cup abandoned)'
    BY DEF OwnerInv, TypeOK
  <2>4. (Sweeping => at \notin list \cup abandoned)'
    BY DEF OwnerInv, TypeOK, ListInv, Sweeping
  <2>5. (main \in {"fresh", "room", "cramped"} =>
           conn[new] = "none" /\ channel[new] = "live" /\ thread[new] = "none")'
    BY DEF OwnerInv
  <2> QED BY <2>1, <2>2, <2>3, <2>4, <2>5 DEF OwnerInv
<1>4. PartsInv'
  BY DEF PartsInv
<1> QED BY <1>1, <1>2, <1>3, <1>4

LEMMA AcceptKeepsIInv ==
  ASSUME IInv, (\E c \in Conn : Accept(c)) \/ AcceptFails
  PROVE  IInv'
<1> USE DEF IInv
<1>1. TypeOK'
  BY DEF TypeOK, Accept, AcceptFails, Queued
<1>2. ListInv'
  BY DEF ListInv, Sweeping, TypeOK, Accept, AcceptFails
<1>3. OwnerInv'
  BY DEF OwnerInv, HeldBy, Sweeping, TypeOK, ListInv, PartsInv, Accept, AcceptFails, Queued
<1>4. PartsInv'
  BY DEF PartsInv, TypeOK, Accept, AcceptFails, Queued
<1> QED BY <1>1, <1>2, <1>3, <1>4

LEMMA UnlistKeepsIInv == ASSUME IInv, NEW c \in Conn, Unlist(c) PROVE IInv'
<1> USE DEF IInv, Unlist
<1>1. c \in list /\ IsFiniteSet(list) /\ count = Cardinality(list)
  BY DEF ListInv
<1>2. Cardinality(list \ {c}) = Cardinality(list) - 1 /\ IsFiniteSet(list \ {c})
  BY <1>1, FS_RemoveElement
<1>3. Cardinality(list \ {c}) \in Nat
  BY <1>2, FS_CardinalityType
<1>4. count' = Cardinality(list') /\ IsFiniteSet(list') /\ count' \in Nat
  BY <1>1, <1>2, <1>3
<1>5. TypeOK'
  BY <1>4 DEF TypeOK
<1>6. ListInv'
  BY <1>4 DEF ListInv, Sweeping, TypeOK
<1>7. OwnerInv'
  BY DEF OwnerInv, HeldBy, Sweeping, TypeOK, ListInv
<1>8. PartsInv'
  BY DEF PartsInv
<1> QED BY <1>5, <1>6, <1>7, <1>8

LEMMA ReleaseKeepsIInv == ASSUME IInv, Release PROVE IInv'
<1> USE DEF IInv, Release
<1>1. TypeOK'
  BY DEF TypeOK
<1>2. ListInv'
  BY DEF ListInv, Sweeping, TypeOK
<1>3. OwnerInv'
  BY DEF OwnerInv, HeldBy, Sweeping, TypeOK, ListInv, PartsInv
<1>4. PartsInv'
  BY DEF PartsInv, TypeOK, OwnerInv, HeldBy
<1> QED BY <1>1, <1>2, <1>3, <1>4

LEMMA CreateKeepsIInv == ASSUME IInv, Create \/ CreateFails PROVE IInv'
<1> USE DEF IInv
<1>1. TypeOK'
  BY DEF TypeOK, Create, CreateFails, CloseChannel, Destroyed
<1>2. ListInv'
  BY DEF ListInv, Sweeping, TypeOK, Create, CreateFails, Full
<1>3. new \in Conn /\ conn[new] = "none" /\ channel[new] = "live" /\ thread[new] = "none"
  BY DEF ListInv, OwnerInv, TypeOK, Create, CreateFails
<1>4. OwnerInv'
  BY <1>3 DEF OwnerInv, HeldBy, Sweeping, TypeOK, ListInv, Create, CreateFails
<1>5. PartsInv'
  BY <1>3 DEF PartsInv, TypeOK, Create, CreateFails, CloseChannel, Destroyed
<1> QED BY <1>1, <1>2, <1>4, <1>5

LEMMA AddKeepsIInv == ASSUME IInv, Add PROVE IInv'
<1> USE DEF IInv, Add
<1>1. new \in Conn
  BY DEF ListInv, TypeOK
<1>2. count' = Cardinality(list') /\ IsFiniteSet(list') /\ count' \in Nat
  BY FS_AddElement, FS_CardinalityType DEF ListInv, OwnerInv
<1>3. TypeOK'
  BY <1>1, <1>2 DEF TypeOK
<1>4. ListInv'
  BY <1>2 DEF ListInv, Sweeping, TypeOK
<1>5. OwnerInv'
  BY <1>1 DEF OwnerInv, HeldBy, Sweeping, TypeOK, ListInv
<1>6. PartsInv'
  BY DEF PartsInv
<1> QED BY <1>3, <1>4, <1>5, <1>6

LEMMA StrikeKeepsIInv == ASSUME IInv, Strike PROVE IInv'
<1> USE DEF IInv, Strike
<1>1. TypeOK'
  BY DEF TypeOK, Live
<1>2. ListInv' /\ OwnerInv' /\ PartsInv'
  BY DEF ListInv, OwnerInv, PartsInv, HeldBy, Sweeping, TypeOK
<1> QED BY <1>1, <1>2

\* Steps of a thread and of the environment leave the master where it is.
LEMMA ThreadKeepsIInv ==
  ASSUME IInv, NEW c \in Conn,
         ReadData(c) \/ ReadEnds(c) \/ ReadStops(c) \/ TestTermination(c)
           \/ Answer(c) \/ Leave(c)
  PROVE  IInv'
<1> USE DEF IInv, ReadData, ReadEnds, ReadStops, TestTermination, Answer, Leave, ThreadAt
<1>1. UNCHANGED <<masterVars, conn>> /\ thread[c] \notin {"none", "exited"}
      /\ \A d \in Conn \ {c} : thread'[d] = thread[d] /\ channel'[d] = channel[d]
                               /\ requests'[d] = requests[d]
  BY DEF TypeOK, CloseChannel
<1> HIDE DEF ReadData, ReadEnds, ReadStops, TestTermination, Answer, Leave
<1> DEFINE Parts ==
      /\ requests' \in [Conn -> 0 .. KeepMax]
      /\ thread'[c] \in {"data", "answering", "reading", "leaving", "exited"}
      /\ thread'[c] = "exited" => channel'[c] = "destroyed" /\ requests'[c] = 0
      /\ thread'[c] # "exited" => channel'[c] = "live"
      /\ thread'[c] \notin {"leaving", "exited"} => requests'[c] < KeepMax
<1>2. Parts
  <2>1. CASE ReadData(c) \/ ReadEnds(c) \/ ReadStops(c) \/ TestTermination(c)
    BY <2>1 DEF TypeOK, PartsInv, ReadData, ReadEnds, ReadStops, TestTermination
  <2>2. CASE Answer(c)
    <3>1. requests'[c] = requests[c] + 1 /\ requests[c] \in Nat /\ requests[c] < KeepMax
          /\ channel'[c] = "live"
      BY <2>2 DEF TypeOK, PartsInv, Answer
    <3>2. thread'[c] \in {"reading", "leaving"}
      BY <2>2 DEF TypeOK, Answer
    <3>3. requests' \in [Conn -> 0 .. KeepMax]
      BY <2>2, <3>1 DEF TypeOK, Answer
    <3> QED BY <2>2, <3>1, <3>2, <3>3 DEF Answer, LastRequest, TypeOK
  <2>3. CASE Leave(c)
    <3>1. thread'[c] = "exited" /\ channel[c] = "live"
      BY <2>3 DEF TypeOK, PartsInv, Leave
    <3>2. channel'[c] = "destroyed"
      BY <2>3, <3>1 DEF TypeOK, Leave, CloseChannel, Destroyed
    <3>3. requests' \in [Conn -> 0 .. KeepMax] /\ requests'[c] = 0
      BY <2>3 DEF TypeOK, Leave
    <3> QED BY <3>1, <3>2, <3>3
  <2> QED BY <2>1, <2>2, <2>3
<1> USE DEF ReadData, ReadEnds, ReadStops, TestTermination, Answer, Leave
<1>3. TypeOK'
  BY <1>2 DEF TypeOK, CloseChannel, Destroyed
<1>4. ListInv'
  BY <1>1 DEF ListInv, Sweeping
<1>5. OwnerInv'
  BY <1>1 DEF OwnerInv, HeldBy, Sweeping, TypeOK, ListInv
<1>6. PartsInv'
  BY <1>1, <1>2 DEF PartsInv, TypeOK
<1> QED BY <1>3, <1>4, <1>5, <1>6

LEMMA OthersKeepIInv ==
  ASSUME IInv,
         RequestTermination \/ InterruptSwitch \/ ResetTermination \/ Clients
           \/ UNCHANGED vars
  PROVE  IInv'
<1> USE DEF IInv, RequestTermination, InterruptSwitch, ResetTermination, Clients, Connect,
        Send, Close, vars
<1>1. TypeOK'
  BY DEF TypeOK
<1>2. ListInv' /\ OwnerInv' /\ PartsInv'
  BY DEF ListInv, OwnerInv, PartsInv, HeldBy, Sweeping
<1> QED BY <1>1, <1>2

LEMMA StepKeepsIInv == IInv /\ [Next]_vars => IInv'
<1> SUFFICES ASSUME IInv, [Next]_vars PROVE IInv'
  OBVIOUS
<1> QED
  BY MovesKeepIInv, AcceptKeepsIInv, UnlistKeepsIInv, ReleaseKeepsIInv, CreateKeepsIInv,
     AddKeepsIInv, StrikeKeepsIInv, ThreadKeepsIInv, OthersKeepIInv
  DEF Next, MasterWork, ThreadWork, Moves

LEMMA AlwaysIInv == Spec => []IInv
BY InitIInv, StepKeepsIInv, PTL DEF Spec

\* Type correctness: in particular no connection serves more than KeepMax requests.
THEOREM AbyssTypeCorrect == Spec => []TypeOK
<1>1. IInv => TypeOK
  BY DEF IInv
<1> QED BY <1>1, AlwaysIInv, PTL

\* A connection and its channel are there as long as its thread is, and no channel is
\* destroyed twice: the master frees only what it has joined.
THEOREM ThreadsStaySound == Spec => []ThreadsSound
<1>1. IInv => ThreadsSound
  BY DEF IInv, PartsInv, ThreadsSound
<1> QED BY <1>1, AlwaysIInv, PTL

-----------------------------------------------------------------------------

State == IF main = "user" THEN "idle" ELSE "running"

\* What Phase says of a connection, case by case.
Shape ==
  /\ Phase = [c \in Conn |-> Phase[c]]
  /\ \A c \in Conn :
       /\ c \in abandoned => Phase[c] = "abandoned"
       /\ c \notin abandoned =>
            /\ conn[c] = "held" /\ thread[c] # "exited" => Phase[c] = "serving"
            /\ conn[c] = "held" /\ thread[c] = "exited" => Phase[c] = "ended"
            /\ conn[c] = "freed" => Phase[c] = "released"
            /\ conn[c] \notin {"held", "freed"} => Phase[c] = "none"

LEMMA PhaseShape == Shape /\ Shape'
<1>1. Shape
  BY DEF Shape, Phase
<1>2. Shape'
  BY DEF Shape, Phase
<1> QED BY <1>1, <1>2

\* Steps that leave conn and abandoned alone, and let no thread come or go, are
\* stutters of the pool unless the master enters or leaves a run.
LEMMA PoolStutters ==
  ASSUME UNCHANGED <<conn, abandoned, State>>,
         \A c \in Conn : thread'[c] = "exited" <=> thread[c] = "exited"
  PROVE  UNCHANGED Pool!poolVars
<1>1. Phase' = Phase
  BY DEF Phase
<1> QED BY <1>1 DEF Pool!poolVars, State

LEMMA OpensInPool == ASSUME IInv, IInv', Create PROVE Pool!Open(new)
<1> USE DEF IInv
<1>1. new \in Conn /\ conn[new] = "none" /\ new \notin abandoned
      /\ count < MaxConn /\ thread'[new] = "reading" /\ conn'[new] = "held"
  BY DEF Create, ListInv, OwnerInv, HeldBy, TypeOK, Full
<1>2. Phase[new] = "none" /\ Phase' = [Phase EXCEPT ![new] = "serving"]
  <2>1. Phase[new] = "none" /\ Phase'[new] = "serving"
    BY <1>1, PhaseShape DEF Shape, Create
  <2>2. \A c \in Conn \ {new} : Phase'[c] = Phase[c]
    BY PhaseShape DEF Shape, Create, TypeOK
  <2> QED BY <2>1, <2>2, PhaseShape DEF Shape
<1>3. Pool!InUse = list
  <2>1. \A c \in Conn : Phase[c] \in {"serving", "ended"}
                         <=> conn[c] = "held" /\ c \notin abandoned
    BY PhaseShape DEF Shape, TypeOK
  <2>2. \A c \in Conn : conn[c] = "held" /\ c \notin abandoned <=> c \in list
    BY DEF Create, OwnerInv, HeldBy, Sweeping
  <2> QED BY <2>1, <2>2 DEF Pool!InUse, TypeOK
<1>4. Pool!Cardinality(Pool!InUse) < MaxConn
  <2>1. Pool!Cardinality(list) = Cardinality(list)
    BY DEF Cardinality, Pool!Cardinality, IsFiniteSet, Pool!IsFiniteSet
  <2> QED BY <1>1, <1>3, <2>1 DEF ListInv
<1> QED BY <1>2, <1>4 DEF Pool!Open, Create

LEMMA ReleasesInPool == ASSUME IInv, Release PROVE Pool!Release(at)
<1> USE DEF IInv
<1>1. at \in Conn /\ at \notin abandoned /\ conn[at] = "held" /\ thread[at] = "exited"
  BY DEF Release, OwnerInv, HeldBy, TypeOK
<1>2. Phase[at] = "ended" /\ Phase' = [Phase EXCEPT ![at] = "released"]
  <2>1. conn'[at] = "freed" /\ abandoned' = abandoned
    BY <1>1 DEF Release, TypeOK
  <2>2. Phase[at] = "ended" /\ Phase'[at] = "released"
    BY <1>1, <2>1, PhaseShape DEF Shape
  <2>3. \A c \in Conn \ {at} : Phase'[c] = Phase[c]
    BY PhaseShape DEF Shape, Release, TypeOK
  <2> QED BY <2>2, <2>3, PhaseShape DEF Shape
<1>3. main # "user" /\ main' # "user"
  BY DEF Release, Sweeping
<1> QED BY <1>2, <1>3 DEF Pool!Release

LEMMA LeavesInPool ==
  ASSUME IInv, NEW c \in Conn, Leave(c)
  PROVE  Pool!End(c) \/ UNCHANGED Pool!poolVars
<1> USE DEF IInv
<1>1. conn[c] = "held" /\ thread[c] = "leaving" /\ thread'[c] = "exited"
      /\ UNCHANGED <<conn, abandoned, main>>
      /\ \A d \in Conn \ {c} : thread'[d] = thread[d]
  BY DEF Leave, ThreadAt, PartsInv, TypeOK
<1>2. CASE c \in abandoned
  <2>1. Phase' = Phase
    BY <1>1, <1>2 DEF Phase
  <2> QED BY <1>1, <2>1 DEF Pool!poolVars
<1>3. CASE c \notin abandoned
  <2>1. Phase[c] = "serving" /\ Phase'[c] = "ended"
    BY <1>1, <1>3, PhaseShape DEF Shape
  <2>2. \A d \in Conn \ {c} : Phase'[d] = Phase[d]
    BY <1>1, PhaseShape DEF Shape, TypeOK
  <2>3. Phase' = [Phase EXCEPT ![c] = "ended"]
    BY <2>1, <2>2, PhaseShape DEF Shape
  <2> QED BY <1>1, <2>1, <2>3 DEF Pool!End
<1> QED BY <1>2, <1>3

LEMMA EndsInPool ==
  ASSUME IInv, Return \/ RunFails
  PROVE  Pool!Stop \/ Pool!Fail
<1> USE DEF IInv
<1>1. \A c \in Conn : conn[c] = "held" <=> c \in list \cup abandoned
  BY DEF Return, RunFails, OwnerInv, HeldBy, Sweeping
<1>2. Pool!InUse = list
  <2>1. \A c \in Conn : Phase[c] \in {"serving", "ended"}
                         <=> conn[c] = "held" /\ c \notin abandoned
    BY PhaseShape DEF Shape, TypeOK
  <2>2. \A c \in Conn : conn[c] = "held" /\ c \notin abandoned <=> c \in list
    BY <1>1 DEF OwnerInv
  <2> QED BY <2>1, <2>2 DEF Pool!InUse, TypeOK
<1>3. CASE Return
  <2>1. Phase' = Phase
    BY <1>3 DEF Return, Phase
  <2> QED BY <1>2, <1>3, <2>1 DEF Return, Pool!Stop
<1>4. CASE RunFails
  <2>1. Phase' = [c \in Conn |-> IF c \in Pool!InUse THEN "abandoned" ELSE Phase[c]]
    <3>1. UNCHANGED <<conn, thread>> /\ abandoned' = abandoned \cup list
      BY <1>4 DEF RunFails
    <3>2. \A c \in Conn : Phase'[c] = IF c \in list THEN "abandoned" ELSE Phase[c]
      BY <3>1, PhaseShape DEF Shape, TypeOK
    <3> QED BY <1>2, <3>2, PhaseShape DEF Shape
  <2> QED BY <1>4, <2>1 DEF RunFails, Pool!Fail
<1> QED BY <1>3, <1>4

LEMMA FailedCreateStutters ==
  ASSUME IInv, CreateFails PROVE UNCHANGED Pool!poolVars
<1> USE DEF IInv
<1>1. new \in Conn /\ conn[new] = "none" /\ new \notin abandoned
      /\ conn'[new] \in {"none", "leaked"}
  BY DEF CreateFails, ListInv, OwnerInv, HeldBy, TypeOK
<1>2. \A c \in Conn : Phase'[c] = Phase[c]
  BY <1>1, PhaseShape DEF Shape, CreateFails, TypeOK
<1>3. Phase' = Phase
  BY <1>2, PhaseShape DEF Shape
<1> QED BY <1>3 DEF CreateFails, Pool!poolVars

\* What is left of the next-state relation.
Quiet ==
  \/ NextConnection \/ StopAccepting \/ AcceptInterrupted \/ AcceptFails
  \/ \E c \in Conn : Accept(c) \/ PassBy(c) \/ Unlist(c) \/ Ignore(c) \/ Aim(c)
  \/ Cramped \/ Drain \/ Add \/ Strike
  \/ Swept("fresh", "room") \/ Swept("cramped", "room")
  \/ Swept("interrupt", "drain") \/ Swept("draining", "drain")
  \/ RequestTermination \/ InterruptSwitch \/ ResetTermination \/ Clients
  \/ UNCHANGED vars

LEMMA QuietStutters == ASSUME Quiet PROVE UNCHANGED Pool!poolVars
<1>1. UNCHANGED <<conn, abandoned, thread>>
  BY DEF Quiet, NextConnection, StopAccepting, AcceptInterrupted, AcceptFails, Accept,
         PassBy, Unlist, Ignore, Aim, Cramped, Drain, Add, Strike, Swept,
         RequestTermination, InterruptSwitch, ResetTermination, Clients, Connect, Send,
         Close, vars
<1>2. UNCHANGED State
  BY DEF Quiet, NextConnection, StopAccepting, AcceptInterrupted, AcceptFails, Accept,
         PassBy, Unlist, Ignore, Aim, Cramped, Drain, Add, Strike, Swept, Sweeping,
         RequestTermination, InterruptSwitch, ResetTermination, Clients, Connect, Send,
         Close, vars, State
<1> QED BY <1>1, <1>2, PoolStutters

LEMMA ThreadStutters ==
  ASSUME IInv, NEW c \in Conn,
         ReadData(c) \/ ReadEnds(c) \/ ReadStops(c) \/ TestTermination(c) \/ Answer(c)
  PROVE  UNCHANGED Pool!poolVars
<1>1. UNCHANGED <<conn, abandoned, main>>
      /\ \A d \in Conn : thread'[d] = "exited" <=> thread[d] = "exited"
  BY DEF ReadData, ReadEnds, ReadStops, TestTermination, Answer, ThreadAt, IInv, TypeOK
<1> QED BY <1>1, PoolStutters DEF State

\* The server keeps the promise of the pool: no more connections in use than the limit,
\* and none in use when a run that has not failed returns.
THEOREM AbyssImplementsPool == Spec => ImplementsPool
<1>1. Init => Pool!PoolInit
  BY DEF Init, Pool!PoolInit, Phase
<1>2. IInv /\ IInv' /\ [Next]_vars => [Pool!PoolNext]_(Pool!poolVars)
  <2> SUFFICES ASSUME IInv, IInv', [Next]_vars
               PROVE  Pool!PoolNext \/ UNCHANGED Pool!poolVars
    OBVIOUS
  <2>1. CASE Run
    <3>1. Phase' = Phase
      BY <2>1 DEF Run, Phase
    <3> QED BY <2>1, <3>1 DEF Run, Pool!Start, Pool!PoolNext
  <2>2. CASE Create
    <3>1. new \in Conn
      BY <2>2 DEF Create, IInv, ListInv, TypeOK
    <3> QED BY <2>2, <3>1, OpensInPool DEF Pool!PoolNext
  <2>3. CASE Release
    <3>1. at \in Conn
      BY <2>3 DEF Release, IInv, TypeOK
    <3> QED BY <2>3, <3>1, ReleasesInPool DEF Pool!PoolNext
  <2>4. CASE \E c \in Conn : Leave(c)
    BY <2>4, LeavesInPool DEF Pool!PoolNext
  <2>5. CASE Return \/ RunFails
    BY <2>5, EndsInPool DEF Pool!PoolNext
  <2>6. CASE CreateFails
    BY <2>6, FailedCreateStutters
  <2>7. CASE \E c \in Conn : ReadData(c) \/ ReadEnds(c) \/ ReadStops(c)
                              \/ TestTermination(c) \/ Answer(c)
    BY <2>7, ThreadStutters
  <2>8. CASE Quiet
    BY <2>8, QuietStutters
  <2> QED
    BY <2>1, <2>2, <2>3, <2>4, <2>5, <2>6, <2>7, <2>8
    DEF Next, MasterWork, ThreadWork, Quiet
<1> QED
  BY <1>1, <1>2, AlwaysIInv, PTL DEF Spec, ImplementsPool, Pool!Spec
=============================================================================
