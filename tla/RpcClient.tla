------------------------------ MODULE RpcClient ------------------------------
(***************************************************************************)
(* The client of xmlrpc-c with its Curl transport: threads that share one  *)
(* client start RPCs (xmlrpc_client_start_rpc), let them make progress and *)
(* complete (xmlrpc_client_event_loop_finish, with or without a timeout)   *)
(* or wait for one of their own (xmlrpc_client_call2).                     *)
(*                                                                         *)
(* Asynchronous RPCs are handles of one Curl multi manager, which each     *)
(* thread in the event loop works for; its lock makes a step of every call *)
(* of libcurl.  Waiting for a file descriptor ends after three seconds at  *)
(* the latest and changes nothing, so it is part of the next step.         *)
(* Synchronous RPCs use a session of their own under a lock, with a multi  *)
(* manager that only the holder of the lock works for.                     *)
(***************************************************************************)

CONSTANTS Rpc,     \* the RPCs the program may start
          Thread,  \* its threads
          None     \* no RPC

ASSUME RpcClientAssumption == None \notin Rpc

VARIABLES stage,       \* where each RPC is
          outcome,     \* what the network has said about it
          watched,     \* RPCs libcurl calls the progress function for
          info,        \* the call info of each asynchronous RPC
          pc,          \* each thread's place in finishCurlMulti() or call()
          msg,         \* the RPC whose message it handles, or that it calls
          timeout,     \* whether its event loop was given a timeout
          left,        \* whether libcurl counted handles that were still running
          owed,        \* history: the asynchronous RPCs outstanding when it entered
                       \* an event loop without a timeout
          sync,        \* the RPC that uses the synchronous session, or None
          interrupt    \* the flag registered with the transport: "none" when
                       \* there is no flag, else "clear" or "set"

vars ==
  <<stage, outcome, watched, info, pc, msg, timeout, left, owed, sync, interrupt>>

rpcVars == <<stage, outcome, watched, info>>

loopVars == <<timeout, left, owed>>

threadVars == <<pc, msg, loopVars>>

TypeOK ==
  /\ stage \in [Rpc -> {"unused", "refused", "running", "done", "taken",
                        "completing", "destroyed"}]
  /\ outcome \in [Rpc -> {"none", "answered", "failed"}]
  /\ watched \in SUBSET Rpc
  /\ info \in [Rpc -> {"none", "alive", "freed", "spoilt"}]
  /\ pc \in [Thread -> {"user", "perform", "messages", "remove", "complete", "call"}]
  /\ msg \in [Thread -> Rpc \cup {None}]
  /\ \A t \in Thread : pc[t] \in {"remove", "complete", "call"} <=> msg[t] # None
  /\ timeout \in [Thread -> {"no", "yes"}]
  /\ left \in [Thread -> {"none", "some"}]
  /\ owed \in [Thread -> SUBSET Rpc]
  /\ sync \in Rpc \cup {None}
  /\ interrupt \in {"none", "clear", "set"}

Init ==
  /\ stage = [r \in Rpc |-> "unused"]
  /\ outcome = [r \in Rpc |-> "none"]
  /\ watched = {}
  /\ info = [r \in Rpc |-> "none"]
  /\ pc = [t \in Thread |-> "user"]
  /\ msg = [t \in Thread |-> None]
  /\ timeout = [t \in Thread |-> "no"]
  /\ left = [t \in Thread |-> "none"]
  /\ owed = [t \in Thread |-> {}]
  /\ sync = None
  /\ interrupt = "none"

\* Handles the asynchronous multi manager has not finished.
Running == {r \in Rpc \ {sync} : stage[r] = "running"}

Outstanding == {r \in Rpc \ {sync} : stage[r] \in {"running", "done", "taken", "completing"}}

-----------------------------------------------------------------------------
(***************************************************************************)
(* Starting an RPC, from the program or from a completion function.        *)
(***************************************************************************)

InUserCode(t) == pc[t] \in {"user", "complete"}

\* Mutant: the call info is destroyed on success too.
StartAndDestroy(t, r) ==
  /\ InUserCode(t)
  /\ stage[r] = "unused"
  /\ stage' = [stage EXCEPT ![r] = "running"]
  /\ \E progress \in BOOLEAN :
       watched' = IF progress \/ interrupt # "none" THEN watched \cup {r} ELSE watched
  /\ info' = [info EXCEPT ![r] = "freed"]
  /\ UNCHANGED <<outcome, threadVars, sync, interrupt>>

\* The progress function is installed when the program has one itself or has
\* registered an interrupt flag before.
StartRpc(t, r) ==
  /\ InUserCode(t)
  /\ stage[r] = "unused"
  /\ stage' = [stage EXCEPT ![r] = "running"]
  /\ \E progress \in BOOLEAN :
       watched' = IF progress \/ interrupt # "none" THEN watched \cup {r} ELSE watched
  /\ info' = [info EXCEPT ![r] = "alive"]
  /\ UNCHANGED <<outcome, threadVars, sync, interrupt>>

\* What callInfoDestroy() makes of a call info: it must be one that exists.
Destroyed(i) == IF i = "alive" THEN "freed" ELSE "spoilt"

\* The RPC is refused.  When the transport does not take it, start_rpc destroys the
\* call info.  It does so as well when callInfoCreate() failed, and then there is
\* none that is complete: it could not be allocated, or its parameters have no XML
\* form, or its completion could not be recorded, for which it was freed already.
StartRefused(t, r) ==
  /\ InUserCode(t)
  /\ stage[r] = "unused"
  /\ stage' = [stage EXCEPT ![r] = "refused"]
  /\ \E created \in {"none", "freed", "alive"} : info' = [info EXCEPT ![r] = Destroyed(created)]
  /\ UNCHANGED <<outcome, watched, threadVars, sync, interrupt>>

-----------------------------------------------------------------------------
(***************************************************************************)
(* The event loop: finishAsynch() and finishCurlMulti().                   *)
(***************************************************************************)

Finish(t, limit) ==
  /\ pc[t] = "user"
  /\ pc' = [pc EXCEPT ![t] = "perform"]
  /\ timeout' = [timeout EXCEPT ![t] = limit]
  /\ owed' = [owed EXCEPT ![t] = IF limit = "no" THEN Outstanding ELSE {}]
  /\ UNCHANGED <<rpcVars, msg, left, sync, interrupt>>

\* curlTransactionProgress() tells libcurl to abort.
Interrupted(r) == r \in watched /\ interrupt = "set"

\* Mutant: the request to abort is not passed on.
ArrivedOnly(r) == outcome[r] # "none"

Ended(r) == outcome[r] # "none" \/ Interrupted(r)

\* Mutant: only transfers that went well are finished.
PerformAnswered(t) ==
  /\ pc[t] = "perform"
  /\ LET ended == {r \in Running : outcome[r] = "answered" \/ Interrupted(r)} IN
       /\ stage' = [r \in Rpc |-> IF r \in ended THEN "done" ELSE stage[r]]
       /\ outcome' = [r \in Rpc |-> IF r \in ended /\ outcome[r] = "none" THEN "failed"
                                                                        ELSE outcome[r]]
       /\ left' = [left EXCEPT ![t] = IF Running \subseteq ended THEN "none" ELSE "some"]
  /\ pc' = [pc EXCEPT ![t] = "messages"]
  /\ UNCHANGED <<watched, info, msg, timeout, owed, sync, interrupt>>

\* curl_multi_perform(): the handles that ended leave a message; the number of
\* those still running is kept for the end of the loop.
Perform(t) ==
  /\ pc[t] = "perform"
  /\ LET ended == {r \in Running : Ended(r)} IN
       /\ stage' = [r \in Rpc |-> IF r \in ended THEN "done" ELSE stage[r]]
       /\ outcome' = [r \in Rpc |-> IF r \in ended /\ outcome[r] = "none" THEN "failed"
                                                                        ELSE outcome[r]]
       /\ left' = [left EXCEPT ![t] = IF Running \subseteq ended THEN "none" ELSE "some"]
  /\ pc' = [pc EXCEPT ![t] = "messages"]
  /\ UNCHANGED <<watched, info, msg, timeout, owed, sync, interrupt>>

\* Mutant: the message stays in the queue of the multi manager.
MessagePeeked(t) ==
  /\ pc[t] = "messages"
  /\ \E r \in Rpc :
       /\ stage[r] = "done"
       /\ msg' = [msg EXCEPT ![t] = r]
  /\ pc' = [pc EXCEPT ![t] = "remove"]
  /\ UNCHANGED <<rpcVars, loopVars, sync, interrupt>>

\* Mutant: a message is handled whether or not there was one.
MessageUnchecked(t) ==
  /\ pc[t] = "messages"
  /\ \E r \in Rpc \cup {None} :
       /\ r = None \/ stage[r] = "done"
       /\ stage' = [q \in Rpc |-> IF q = r THEN "taken" ELSE stage[q]]
       /\ msg' = [msg EXCEPT ![t] = r]
  /\ pc' = [pc EXCEPT ![t] = "remove"]
  /\ UNCHANGED <<outcome, watched, info, loopVars, sync, interrupt>>

GetMessage(t) ==
  /\ pc[t] = "messages"
  /\ \E r \in Rpc :
       /\ stage[r] = "done"
       /\ stage' = [stage EXCEPT ![r] = "taken"]
       /\ msg' = [msg EXCEPT ![t] = r]
  /\ pc' = [pc EXCEPT ![t] = "remove"]
  /\ UNCHANGED <<outcome, watched, info, loopVars, sync, interrupt>>

\* The handle leaves the multi manager, and the completion function is called.
RemoveHandle(t) ==
  /\ pc[t] = "remove"
  /\ stage' = [stage EXCEPT ![msg[t]] = "completing"]
  /\ pc' = [pc EXCEPT ![t] = "complete"]
  /\ UNCHANGED <<outcome, watched, info, msg, loopVars, sync, interrupt>>

\* The completion function returns: asynchComplete() destroys the call info, then
\* the transport destroys the session and the RPC.
EndCompletion(t) ==
  /\ pc[t] = "complete"
  /\ LET r == msg[t] IN
       /\ stage' = [stage EXCEPT ![r] = "destroyed"]
       /\ info' = [info EXCEPT ![r] = Destroyed(@)]
  /\ pc' = [pc EXCEPT ![t] = "messages"]
  /\ msg' = [msg EXCEPT ![t] = None]
  /\ UNCHANGED <<outcome, watched, loopVars, sync, interrupt>>

\* Mutant: one message for every time work was done.
OneMessage(t) == pc[t] = "messages"

NoMessage(t) == pc[t] = "messages" /\ \A r \in Rpc : stage[r] # "done"

Again(t) ==
  /\ NoMessage(t) /\ left[t] = "some"
  /\ pc' = [pc EXCEPT ![t] = "perform"]
  /\ left' = [left EXCEPT ![t] = "none"]
  /\ UNCHANGED <<rpcVars, msg, timeout, owed, sync, interrupt>>

\* The event loop returns: no handle was running, or the time is up.
Return(t) ==
  /\ NoMessage(t)
  /\ left[t] = "none" \/ timeout[t] = "yes"
  /\ pc' = [pc EXCEPT ![t] = "user"]
  /\ timeout' = [timeout EXCEPT ![t] = "no"]
  /\ left' = [left EXCEPT ![t] = "none"]
  /\ owed' = [owed EXCEPT ![t] = {}]
  /\ UNCHANGED <<rpcVars, msg, sync, interrupt>>

-----------------------------------------------------------------------------
(***************************************************************************)
(* The synchronous call.                                                   *)
(***************************************************************************)

Call(t, r) ==
  /\ pc[t] = "user" /\ sync = None
  /\ stage[r] = "unused"
  /\ stage' = [stage EXCEPT ![r] = "running"]
  /\ watched' = IF interrupt # "none" THEN watched \cup {r} ELSE watched
  /\ sync' = r
  /\ pc' = [pc EXCEPT ![t] = "call"]
  /\ msg' = [msg EXCEPT ![t] = r]
  /\ UNCHANGED <<outcome, info, loopVars, interrupt>>

\* The RPC cannot be built, or not be added to the multi manager.
CallRefused(t, r) ==
  /\ pc[t] = "user" /\ sync = None
  /\ stage[r] = "unused"
  /\ stage' = [stage EXCEPT ![r] = "refused"]
  /\ UNCHANGED <<outcome, watched, info, threadVars, sync, interrupt>>

\* The result of the transfer is recorded, and call() looks at it.
EndCall(t) ==
  /\ pc[t] = "call" /\ stage[sync] = "running"
  /\ Ended(sync)
  /\ stage' = [stage EXCEPT ![sync] = "completing"]
  /\ outcome' = [outcome EXCEPT ![sync] = IF @ = "none" THEN "failed" ELSE @]
  /\ UNCHANGED <<watched, info, threadVars, sync, interrupt>>

ReturnCall(t) ==
  /\ pc[t] = "call" /\ stage[sync] = "completing"
  /\ stage' = [stage EXCEPT ![sync] = "destroyed"]
  /\ sync' = None
  /\ pc' = [pc EXCEPT ![t] = "user"]
  /\ msg' = [msg EXCEPT ![t] = None]
  /\ UNCHANGED <<outcome, watched, info, loopVars, interrupt>>

-----------------------------------------------------------------------------

\* The server answers, or the connection fails or times out.
Arrive(r) ==
  /\ stage[r] = "running" /\ outcome[r] = "none"
  /\ \E o \in {"answered", "failed"} : outcome' = [outcome EXCEPT ![r] = o]
  /\ UNCHANGED <<stage, watched, info, threadVars, sync, interrupt>>

\* xmlrpc_client_set_interrupt(): another flag, or none.
SetInterrupt(t) ==
  /\ InUserCode(t)
  /\ interrupt' \in {"none", "clear"} \ {interrupt}
  /\ UNCHANGED <<rpcVars, threadVars, sync>>

\* A signal handler or another thread sets the flag.
RaiseFlag ==
  /\ interrupt = "clear" /\ interrupt' = "set"
  /\ UNCHANGED <<rpcVars, threadVars, sync>>

Work(t) ==
  \/ Perform(t) \/ GetMessage(t) \/ RemoveHandle(t) \/ EndCompletion(t)
  \/ Again(t) \/ Return(t)
  \/ EndCall(t) \/ ReturnCall(t)

Next ==
  \/ \E t \in Thread :
       \/ \E r \in Rpc : StartRpc(t, r) \/ StartRefused(t, r) \/ Call(t, r) \/ CallRefused(t, r)
       \/ \E limit \in {"no", "yes"} : Finish(t, limit)
       \/ SetInterrupt(t)
       \/ Work(t)
  \/ \E r \in Rpc : Arrive(r)
  \/ RaiseFlag

Spec == Init /\ [][Next]_vars

\* The threads go on, and the program enters the event loop without a timeout again
\* and again, as its documentation asks.  Servers may never answer.
FairSpec == Spec /\ \A t \in Thread : WF_vars(Work(t)) /\ WF_vars(Finish(t, "no"))

-----------------------------------------------------------------------------

\* A call info exists from the start of an RPC until its completion function has
\* returned, whichever thread runs it, and is destroyed once.  Only of an RPC that
\* was refused a call info is destroyed that is not there.
InfoKept ==
  /\ \A r \in Outstanding : info[r] = "alive"
  /\ \A r \in Rpc : info[r] = "spoilt" => stage[r] = "refused"

\* An event loop without a timeout returns only when every RPC that was outstanding
\* when it was entered is destroyed, or another thread is about to complete it.
FinishDelivers ==
  [][\A t \in Thread : Return(t) =>
       \A r \in owed[t] :
         stage[r] = "destroyed" \/ \E q \in Thread \ {t} : msg[q] = r]_vars

\* The same for all RPCs, as finishAsynch() describes itself.
FinishFinishesAll ==
  [][\A t \in Thread : Return(t) /\ timeout[t] = "no" => Outstanding = {}]_vars

\* An RPC that the network says something about, be it that the connection failed,
\* is completed.
ArrivedCompletes ==
  \A r \in Rpc : stage[r] = "running" /\ outcome[r] # "none" ~> stage[r] = "destroyed"

\* While the interrupt flag stays set, every running RPC whose progress libcurl
\* reports gets completed, even when no server ever answers.
InterruptEnds ==
  \A r \in Rpc :
    stage[r] = "running" /\ r \in watched /\ interrupt = "set"
      ~> stage[r] = "destroyed" \/ interrupt # "set"

\* The promise kept to the program: each RPC accepted is delivered at most once, and
\* never if it was refused.
Phase ==
  [r \in Rpc |-> CASE stage[r] \in {"running", "done", "taken"} -> "outstanding"
                   [] stage[r] = "completing" -> "delivering"
                   [] stage[r] = "destroyed" -> "settled"
                   [] OTHER -> stage[r]]

Result ==
  [r \in Rpc |-> IF stage[r] \in {"completing", "destroyed"} THEN outcome[r] ELSE "none"]

Promise == INSTANCE RpcPromise WITH phase <- Phase, result <- Result

ImplementsPromise == Promise!Spec
=============================================================================
