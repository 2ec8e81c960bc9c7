-------------------------- MODULE RpcClientProofs --------------------------
(***************************************************************************)
(* Theorems about RpcClient for any number of RPCs and threads.            *)
(*                                                                         *)
(* That nothing is delivered twice rests on who owns an RPC: a message is  *)
(* taken by one thread, which alone takes the RPC on, and the RPC on the   *)
(* synchronous session belongs to the thread that holds its lock.  That an *)
(* event loop delivers what it found outstanding rests on the number of    *)
(* running handles being read before the messages are, and on RPCs never   *)
(* starting to run again.                                                  *)
(***************************************************************************)
EXTENDS RpcClient, TLAPS

USE RpcClientAssumption DEF rpcVars, loopVars, threadVars

LEMMA StepKeepsType == TypeOK /\ [Next]_vars => TypeOK'
<1> SUFFICES ASSUME TypeOK, [Next]_vars PROVE TypeOK'
  OBVIOUS
<1> USE DEF TypeOK
<1>1. ASSUME NEW t \in Thread, NEW r \in Rpc, StartRpc(t, r) PROVE TypeOK'
  BY <1>1 DEF StartRpc
<1>2. ASSUME NEW t \in Thread, NEW r \in Rpc, StartRefused(t, r) PROVE TypeOK'
  BY <1>2 DEF StartRefused, Destroyed
<1>3. ASSUME NEW t \in Thread, NEW r \in Rpc, Call(t, r) PROVE TypeOK'
  BY <1>3 DEF Call
<1>4. ASSUME NEW t \in Thread, NEW limit \in {"no", "yes"}, Finish(t, limit) PROVE TypeOK'
  BY <1>4 DEF Finish, Outstanding
<1>5. ASSUME NEW t \in Thread, SetInterrupt(t) PROVE TypeOK'
  BY <1>5 DEF SetInterrupt
<1>6. ASSUME NEW t \in Thread, Perform(t) PROVE TypeOK'
  BY <1>6 DEF Perform, Running
<1>7. ASSUME NEW t \in Thread, GetMessage(t) PROVE TypeOK'
  BY <1>7 DEF GetMessage
<1>8. ASSUME NEW t \in Thread, RemoveHandle(t) PROVE TypeOK'
  BY <1>8 DEF RemoveHandle
<1>9. ASSUME NEW t \in Thread, EndCompletion(t) PROVE TypeOK'
  BY <1>9 DEF EndCompletion, Destroyed
<1>10. ASSUME NEW t \in Thread, Again(t) \/ Return(t) PROVE TypeOK'
  <2>1. CASE Again(t) BY <2>1 DEF Again, NoMessage
  <2>2. CASE Return(t) BY <2>2 DEF Return, NoMessage
  <2> QED BY <1>10, <2>1, <2>2
<1>11. ASSUME NEW t \in Thread, EndCall(t) PROVE TypeOK'
  BY <1>11 DEF EndCall
<1>12. ASSUME NEW t \in Thread, ReturnCall(t) PROVE TypeOK'
  BY <1>12 DEF ReturnCall
<1>13. ASSUME NEW r \in Rpc, Arrive(r) PROVE TypeOK'
  BY <1>13 DEF Arrive
<1>14. ASSUME NEW t \in Thread, NEW r \in Rpc, CallRefused(t, r) PROVE TypeOK'
  BY <1>14 DEF CallRefused
<1>15. CASE RaiseFlag \/ UNCHANGED vars
  BY <1>15 DEF RaiseFlag, vars
<1> QED
  BY <1>1, <1>2, <1>3, <1>4, <1>5, <1>6, <1>7, <1>8, <1>9, <1>10, <1>11, <1>12, <1>13,
     <1>14, <1>15 DEF Next, Work

\* Type correctness: a thread has an RPC in its hands exactly in the places of
\* the event loop and of call() where it handles one.
THEOREM RpcTypeCorrect == Spec => []TypeOK
<1>1. Init => TypeOK
  BY DEF Init, TypeOK
<1> QED BY <1>1, StepKeepsType, PTL DEF Spec

-----------------------------------------------------------------------------

\* A thread that handles an RPC is the only one, and the RPC is where the thread is.
Owned ==
  /\ \A t, q \in Thread : msg[t] # None /\ msg[t] = msg[q] => t = q
  /\ \A t \in Thread :
       /\ pc[t] = "remove" => stage[msg[t]] = "taken"
       /\ pc[t] = "complete" => stage[msg[t]] = "completing"
       /\ pc[t] \in {"remove", "complete"} => msg[t] # sync
       /\ pc[t] = "call" => msg[t] = sync

SyncOwned == sync # None => stage[sync] \in {"running", "completing"}

\* An RPC that left the queue of messages and is not destroyed is in some hands.
InHands ==
  \A r \in Rpc \ {sync} :
    stage[r] \in {"taken", "completing"} => \E t \in Thread : msg[t] = r

HasOutcome ==
  \A r \in Rpc : stage[r] \in {"done", "taken", "completing", "destroyed"}
                   => outcome[r] # "none"

\* What an event loop owes has been running, and is not once the loop has seen that
\* no handle is.
OwedStarted ==
  \A t \in Thread : \A r \in owed[t] :
    /\ timeout[t] = "no"
    /\ pc[t] \in {"perform", "messages", "remove", "complete"}
    /\ r # sync
    /\ stage[r] \in {"running", "done", "taken", "completing", "destroyed"}
    /\ pc[t] # "perform" /\ left[t] = "none" => stage[r] # "running"

IInv == Owned /\ SyncOwned /\ InHands /\ HasOutcome /\ InfoKept /\ OwedStarted

LEMMA InitIInv == Init => IInv
BY DEF Init, IInv, Owned, SyncOwned, InHands, HasOutcome, InfoKept, OwedStarted,
       Outstanding

LEMMA StartKeepsIInv ==
  ASSUME TypeOK, IInv, NEW t \in Thread, NEW r \in Rpc,
         StartRpc(t, r) \/ StartRefused(t, r) \/ Call(t, r) \/ CallRefused(t, r)
  PROVE  IInv'
<1> USE DEF IInv, TypeOK
<1>1. stage[r] = "unused" /\ stage'[r] \in {"running", "refused"}
      /\ \A q \in Rpc : q # r => stage'[q] = stage[q] /\ info'[q] = info[q]
      /\ outcome' = outcome
  BY DEF StartRpc, StartRefused, Call, CallRefused
<1>2. Owned' /\ SyncOwned'
  BY <1>1 DEF StartRpc, StartRefused, Call, CallRefused, Owned, SyncOwned
<1>3. InHands' /\ HasOutcome'
  BY <1>1 DEF StartRpc, StartRefused, Call, CallRefused, InHands, HasOutcome
<1>4. InfoKept'
  BY <1>1 DEF StartRpc, StartRefused, Call, CallRefused, InfoKept, Outstanding
<1>5. OwedStarted'
  BY <1>1 DEF StartRpc, StartRefused, Call, CallRefused, OwedStarted, InUserCode
<1> QED BY <1>2, <1>3, <1>4, <1>5

LEMMA FinishKeepsIInv ==
  ASSUME TypeOK, IInv, NEW t \in Thread, NEW limit \in {"no", "yes"}, Finish(t, limit)
  PROVE  IInv'
<1> USE DEF IInv, TypeOK, Finish
<1>1. Owned' /\ SyncOwned' /\ HasOutcome'
  BY DEF Owned, SyncOwned, HasOutcome
<1>2. InHands' /\ InfoKept'
  BY DEF InHands, InfoKept, Outstanding
<1>3. OwedStarted'
  BY DEF OwedStarted, Outstanding
<1> QED BY <1>1, <1>2, <1>3

LEMMA PerformKeepsIInv ==
  ASSUME TypeOK, IInv, NEW t \in Thread, Perform(t)
  PROVE  IInv'
<1> USE DEF IInv, TypeOK
<1>1. \A r \in Rpc : /\ stage[r] # "running" \/ r = sync => stage'[r] = stage[r]
                     /\ stage[r] = "running" => stage'[r] \in {"running", "done"}
                     /\ stage'[r] = "done" /\ stage[r] = "running" => outcome'[r] # "none"
                     /\ outcome[r] # "none" => outcome'[r] # "none"
  BY DEF Perform, Running
<1>2. Owned' /\ SyncOwned'
  BY <1>1 DEF Perform, Owned, SyncOwned
<1>3. InHands' /\ HasOutcome'
  BY <1>1 DEF Perform, InHands, HasOutcome
<1>4. InfoKept'
  BY <1>1 DEF Perform, InfoKept, Outstanding
<1>5. OwedStarted'
  BY <1>1 DEF Perform, OwedStarted, Running
<1> QED BY <1>2, <1>3, <1>4, <1>5

LEMMA MessageKeepsIInv ==
  ASSUME TypeOK, IInv, NEW t \in Thread,
         GetMessage(t) \/ RemoveHandle(t) \/ EndCompletion(t)
  PROVE  IInv'
<1> USE DEF IInv, TypeOK
<1>1. ASSUME GetMessage(t) PROVE IInv'
  <2>1. PICK r \in Rpc : /\ stage[r] = "done" /\ stage' = [stage EXCEPT ![r] = "taken"]
                         /\ msg' = [msg EXCEPT ![t] = r]
    BY <1>1 DEF GetMessage
  <2>2. r # sync /\ (\A q \in Thread : msg[q] # r) /\ msg[t] = None
    BY <1>1, <2>1 DEF GetMessage, Owned, SyncOwned
  <2>3. Owned' /\ SyncOwned'
    BY <1>1, <2>1, <2>2 DEF GetMessage, Owned, SyncOwned
  <2>4. InHands' /\ HasOutcome'
    BY <1>1, <2>1, <2>2 DEF GetMessage, InHands, HasOutcome
  <2>5. InfoKept'
    BY <1>1, <2>1 DEF GetMessage, InfoKept, Outstanding
  <2>6. OwedStarted'
    BY <1>1, <2>1, <2>2 DEF GetMessage, OwedStarted
  <2> QED BY <2>3, <2>4, <2>5, <2>6
<1>2. ASSUME RemoveHandle(t) PROVE IInv'
  <2>1. msg[t] \in Rpc \ {sync} /\ stage[msg[t]] = "taken"
        /\ \A q \in Thread : q # t => msg[q] # msg[t]
    BY <1>2 DEF RemoveHandle, Owned
  <2>2. Owned' /\ SyncOwned'
    BY <1>2, <2>1 DEF RemoveHandle, Owned, SyncOwned
  <2>3. InHands' /\ HasOutcome'
    BY <1>2, <2>1 DEF RemoveHandle, InHands, HasOutcome
  <2>4. InfoKept'
    BY <1>2, <2>1 DEF RemoveHandle, InfoKept, Outstanding
  <2>5. OwedStarted'
    BY <1>2, <2>1 DEF RemoveHandle, OwedStarted
  <2> QED BY <2>2, <2>3, <2>4, <2>5
<1>3. ASSUME EndCompletion(t) PROVE IInv'
  <2>1. msg[t] \in Rpc \ {sync} /\ stage[msg[t]] = "completing"
        /\ \A q \in Thread : q # t => msg[q] # msg[t]
    BY <1>3 DEF EndCompletion, Owned
  <2>2. Owned' /\ SyncOwned'
    BY <1>3, <2>1 DEF EndCompletion, Owned, SyncOwned
  <2>3. InHands' /\ HasOutcome'
    BY <1>3, <2>1 DEF EndCompletion, InHands, HasOutcome
  <2>4. InfoKept'
    BY <1>3, <2>1 DEF EndCompletion, InfoKept, Outstanding, Destroyed
  <2>5. OwedStarted'
    BY <1>3, <2>1 DEF EndCompletion, OwedStarted
  <2> QED BY <2>2, <2>3, <2>4, <2>5
<1> QED BY <1>1, <1>2, <1>3

LEMMA LoopKeepsIInv ==
  ASSUME TypeOK, IInv, NEW t \in Thread, Again(t) \/ Return(t)
  PROVE  IInv'
<1> USE DEF IInv, TypeOK, Again, Return, NoMessage, threadVars
<1>1. Owned' /\ SyncOwned' /\ HasOutcome'
  BY DEF Owned, SyncOwned, HasOutcome
<1>2. InHands' /\ InfoKept'
  BY DEF InHands, InfoKept, Outstanding
<1>3. OwedStarted'
  BY DEF OwedStarted
<1> QED BY <1>1, <1>2, <1>3

LEMMA CallKeepsIInv ==
  ASSUME TypeOK, IInv, NEW t \in Thread, EndCall(t) \/ ReturnCall(t)
  PROVE  IInv'
<1> USE DEF IInv, TypeOK
<1>1. msg[t] = sync /\ sync \in Rpc /\ \A q \in Thread : q # t => msg[q] # sync
  BY DEF EndCall, ReturnCall, Owned
<1>2. Owned' /\ SyncOwned'
  BY <1>1 DEF EndCall, ReturnCall, Owned, SyncOwned
<1>3. InHands' /\ HasOutcome'
  BY <1>1 DEF EndCall, ReturnCall, InHands, HasOutcome, Ended
<1>4. InfoKept'
  BY <1>1 DEF EndCall, ReturnCall, InfoKept, Outstanding
<1>5. OwedStarted'
  BY <1>1 DEF EndCall, ReturnCall, OwedStarted
<1> QED BY <1>2, <1>3, <1>4, <1>5

LEMMA StepKeepsIInv == TypeOK /\ IInv /\ [Next]_vars => IInv'
<1> SUFFICES ASSUME TypeOK, IInv, [Next]_vars PROVE IInv'
  OBVIOUS
<1>1. ASSUME NEW r \in Rpc, Arrive(r) PROVE IInv'
  BY <1>1 DEF Arrive, IInv, TypeOK, Owned, SyncOwned, InHands, HasOutcome, InfoKept,
              Outstanding, OwedStarted
<1>2. ASSUME \/ \E t \in Thread : SetInterrupt(t)
             \/ RaiseFlag
             \/ UNCHANGED vars
      PROVE  IInv'
  BY <1>2 DEF SetInterrupt, RaiseFlag, vars, IInv, Owned, SyncOwned, InHands,
              HasOutcome, InfoKept, Outstanding, OwedStarted
<1> QED
  BY <1>1, <1>2, StartKeepsIInv, FinishKeepsIInv, PerformKeepsIInv, MessageKeepsIInv,
     LoopKeepsIInv, CallKeepsIInv DEF Next, Work

LEMMA Invariance == Spec => [](TypeOK /\ IInv)
BY RpcTypeCorrect, InitIInv, StepKeepsIInv, PTL DEF Spec

\* Whatever threads run the event loop, the call info of an RPC exists as long as the
\* RPC may still be completed, and that of an RPC that was started is destroyed once.
THEOREM CallInfoKept == Spec => []InfoKept
BY Invariance, PTL DEF IInv

\* An event loop without a timeout that returns has delivered every RPC outstanding
\* when it was entered, except for those another thread has in its hands.
THEOREM LoopDelivers == Spec => FinishDelivers
<1>1. ASSUME TypeOK, IInv, [Next]_vars, NEW t \in Thread, Return(t), NEW r \in owed[t]
      PROVE  stage[r] = "destroyed" \/ \E q \in Thread \ {t} : msg[q] = r
  <2>1. r \in Rpc \ {sync} /\ stage[r] \in {"done", "taken", "completing", "destroyed"}
    BY <1>1 DEF IInv, OwedStarted, Return, NoMessage, TypeOK
  <2>2. stage[r] # "done" /\ msg[t] = None
    BY <1>1, <2>1 DEF Return, NoMessage, TypeOK
  <2> QED BY <1>1, <2>1, <2>2 DEF IInv, InHands
<1>2. TypeOK /\ IInv /\ [Next]_vars
        => [\A t \in Thread : Return(t) =>
              \A r \in owed[t] :
                stage[r] = "destroyed" \/ \E q \in Thread \ {t} : msg[q] = r]_vars
  BY <1>1
<1> QED BY <1>2, Invariance, PTL DEF Spec, FinishDelivers

-----------------------------------------------------------------------------
(***************************************************************************)
(* The client keeps its promise.                                           *)
(***************************************************************************)

\* A step that moves one RPC and keeps what the network said moves the promise alike.
LEMMA PhaseMoves ==
  ASSUME TypeOK, NEW r \in Rpc, NEW s, stage' = [stage EXCEPT ![r] = s]
  PROVE  Phase' = [Phase EXCEPT ![r] =
                     CASE s \in {"running", "done", "taken"} -> "outstanding"
                       [] s = "completing" -> "delivering"
                       [] s = "destroyed" -> "settled"
                       [] OTHER -> s]
BY DEF TypeOK, Phase

LEMMA StepRefines ==
  TypeOK /\ IInv /\ [Next]_vars => [Promise!PromiseNext]_(Promise!promiseVars)
<1> SUFFICES ASSUME TypeOK, IInv, [Next]_vars
             PROVE  [Promise!PromiseNext]_(Promise!promiseVars)
  OBVIOUS
<1> USE DEF TypeOK
<1>1. ASSUME NEW t \in Thread, NEW r \in Rpc, StartRpc(t, r) \/ Call(t, r)
      PROVE  Promise!Accept(r)
  <2>1. stage[r] = "unused" /\ stage' = [stage EXCEPT ![r] = "running"]
        /\ outcome' = outcome
    BY <1>1 DEF StartRpc, Call
  <2>2. Phase' = [Phase EXCEPT ![r] = "outstanding"] /\ Phase[r] = "unused"
    BY <2>1, PhaseMoves DEF Phase
  <2>3. Result' = Result
    BY <2>1 DEF Result
  <2> QED BY <2>2, <2>3 DEF Promise!Accept
<1>2. ASSUME NEW t \in Thread, NEW r \in Rpc, StartRefused(t, r) \/ CallRefused(t, r)
      PROVE  Promise!Refuse(r)
  <2>1. Phase' = [Phase EXCEPT ![r] = "refused"] /\ Phase[r] = "unused"
    BY <1>2, PhaseMoves DEF StartRefused, CallRefused, Phase
  <2>2. Result' = Result
    BY <1>2 DEF StartRefused, CallRefused, Result
  <2> QED BY <2>1, <2>2 DEF Promise!Refuse
<1>3. ASSUME NEW t \in Thread, Perform(t) PROVE UNCHANGED Promise!promiseVars
  <2>1. \A r \in Rpc : \/ stage'[r] = stage[r] /\ outcome'[r] = outcome[r]
                       \/ stage[r] = "running" /\ stage'[r] = "done"
    BY <1>3 DEF Perform, Running
  <2> QED BY <2>1 DEF Phase, Result, Promise!promiseVars
<1>4. ASSUME NEW t \in Thread, GetMessage(t) PROVE UNCHANGED Promise!promiseVars
  <2>1. PICK r \in Rpc : stage[r] = "done" /\ stage' = [stage EXCEPT ![r] = "taken"]
    BY <1>4 DEF GetMessage
  <2> QED BY <1>4, <2>1 DEF GetMessage, Phase, Result, Promise!promiseVars
<1>5. ASSUME NEW t \in Thread, RemoveHandle(t) PROVE Promise!Deliver(msg[t])
  <2>1. msg[t] \in Rpc /\ stage[msg[t]] = "taken" /\ outcome[msg[t]] # "none"
    BY <1>5 DEF RemoveHandle, IInv, Owned, HasOutcome
  <2>2. Phase' = [Phase EXCEPT ![msg[t]] = "delivering"]
        /\ Phase[msg[t]] = "outstanding"
    BY <1>5, <2>1, PhaseMoves DEF RemoveHandle, Phase
  <2>3. Result' = [Result EXCEPT ![msg[t]] = outcome[msg[t]]]
    BY <1>5, <2>1 DEF RemoveHandle, Result
  <2> QED BY <2>1, <2>2, <2>3 DEF Promise!Deliver
<1>6. ASSUME NEW t \in Thread, EndCompletion(t) PROVE Promise!Settle(msg[t])
  <2>1. msg[t] \in Rpc /\ stage[msg[t]] = "completing"
    BY <1>6 DEF EndCompletion, IInv, Owned
  <2>2. stage' = [stage EXCEPT ![msg[t]] = "destroyed"] /\ outcome' = outcome
    BY <1>6 DEF EndCompletion
  <2>3. Phase' = [Phase EXCEPT ![msg[t]] = "settled"]
        /\ Phase[msg[t]] = "delivering"
    BY <2>1, <2>2, PhaseMoves DEF Phase
  <2>4. Result' = Result
    BY <2>1, <2>2 DEF Result
  <2> QED BY <2>3, <2>4 DEF Promise!Settle
<1>7. ASSUME NEW t \in Thread, EndCall(t) PROVE Promise!Deliver(sync)
  <2>1. sync \in Rpc /\ stage[sync] = "running"
    BY <1>7 DEF EndCall, IInv, Owned
  <2>2. Phase' = [Phase EXCEPT ![sync] = "delivering"] /\ Phase[sync] = "outstanding"
    BY <1>7, <2>1, PhaseMoves DEF EndCall, Phase
  <2>3. outcome'[sync] \in {"answered", "failed"}
        /\ Result' = [Result EXCEPT ![sync] = outcome'[sync]]
    BY <1>7, <2>1 DEF EndCall, Result
  <2> QED BY <2>2, <2>3 DEF Promise!Deliver
<1>8. ASSUME NEW t \in Thread, ReturnCall(t) PROVE Promise!Settle(sync)
  <2>1. sync \in Rpc /\ stage[sync] = "completing"
        /\ stage' = [stage EXCEPT ![sync] = "destroyed"] /\ outcome' = outcome
    BY <1>8 DEF ReturnCall, IInv, Owned
  <2>2. Phase' = [Phase EXCEPT ![sync] = "settled"] /\ Phase[sync] = "delivering"
    BY <2>1, PhaseMoves DEF Phase
  <2>3. Result' = Result
    BY <2>1 DEF Result
  <2> QED BY <2>2, <2>3 DEF Promise!Settle
<1>9. ASSUME NEW r \in Rpc, Arrive(r) PROVE UNCHANGED Promise!promiseVars
  BY <1>9 DEF Arrive, Phase, Result, Promise!promiseVars
<1>10. ASSUME \/ \E t \in Thread : \/ \E limit \in {"no", "yes"} : Finish(t, limit)
                                   \/ SetInterrupt(t) \/ Again(t) \/ Return(t)
              \/ RaiseFlag \/ UNCHANGED vars
       PROVE  UNCHANGED Promise!promiseVars
  BY <1>10 DEF Finish, SetInterrupt, Again, Return, RaiseFlag, vars, Phase, Result,
               Promise!promiseVars
<1>11. \A t \in Thread : /\ pc[t] \in {"remove", "complete"} => msg[t] \in Rpc
                         /\ pc[t] = "call" => sync \in Rpc
  BY DEF IInv, Owned
<1> QED
  BY <1>1, <1>2, <1>3, <1>4, <1>5, <1>6, <1>7, <1>8, <1>9, <1>10, <1>11
     DEF Next, Work, RemoveHandle, EndCompletion, EndCall, ReturnCall, Promise!PromiseNext

\* Every RPC the client accepts is delivered at most once, and one it refused never,
\* for any number of threads in the event loop and of RPCs, and wherever completion
\* functions start further RPCs.
THEOREM RpcImplementsPromise == Spec => ImplementsPromise
<1>1. Init => Promise!PromiseInit
  BY DEF Init, Promise!PromiseInit, Phase, Result
<1> QED
  BY <1>1, Invariance, StepRefines, PTL DEF Spec, ImplementsPromise, Promise!Spec
=============================================================================
