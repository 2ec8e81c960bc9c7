----------------------------- MODULE RpcPromise -----------------------------
(***************************************************************************)
(* What a program relies on when it starts remote procedure calls and      *)
(* leaves their completion to the client library: a call that was accepted *)
(* is outstanding until its result is delivered, once; a call that was     *)
(* refused is never heard of again.                                        *)
(***************************************************************************)

CONSTANTS Rpc

VARIABLES phase,   \* how far each RPC has come
          result   \* what was delivered for it

promiseVars == <<phase, result>>

PromiseInit ==
  /\ phase = [r \in Rpc |-> "unused"]
  /\ result = [r \in Rpc |-> "none"]

Accept(r) ==
  /\ phase[r] = "unused"
  /\ phase' = [phase EXCEPT ![r] = "outstanding"]
  /\ UNCHANGED result

Refuse(r) ==
  /\ phase[r] = "unused"
  /\ phase' = [phase EXCEPT ![r] = "refused"]
  /\ UNCHANGED result

Deliver(r) ==
  /\ phase[r] = "outstanding"
  /\ phase' = [phase EXCEPT ![r] = "delivering"]
  /\ \E x \in {"answered", "failed"} : result' = [result EXCEPT ![r] = x]

Settle(r) ==
  /\ phase[r] = "delivering"
  /\ phase' = [phase EXCEPT ![r] = "settled"]
  /\ UNCHANGED result

PromiseNext == \E r \in Rpc : Accept(r) \/ Refuse(r) \/ Deliver(r) \/ Settle(r)

Spec == PromiseInit /\ [][PromiseNext]_promiseVars
=============================================================================
