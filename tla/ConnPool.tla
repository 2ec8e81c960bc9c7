------------------------------ MODULE ConnPool ------------------------------
(***************************************************************************)
(* What the user of a server that serves each connection in the background *)
(* may expect of a run of it: at most Max connections are in use at any    *)
(* time, and the run returns with none in use, unless it fails: then it    *)
(* abandons them.                                                          *)
(***************************************************************************)
EXTENDS Naturals, FiniteSets

CONSTANTS Conn, Max

VARIABLES phase,   \* how far each connection has come
          state    \* whether the server runs

poolVars == <<phase, state>>

InUse == {c \in Conn : phase[c] \in {"serving", "ended"}}

PoolInit ==
  /\ phase = [c \in Conn |-> "none"]
  /\ state = "idle"

Start ==
  /\ state = "idle" /\ state' = "running"
  /\ UNCHANGED phase

Open(c) ==
  /\ state = "running" /\ phase[c] = "none"
  /\ Cardinality(InUse) < Max
  /\ phase' = [phase EXCEPT ![c] = "serving"]
  /\ UNCHANGED state

End(c) ==
  /\ phase[c] = "serving"
  /\ phase' = [phase EXCEPT ![c] = "ended"]
  /\ UNCHANGED state

Release(c) ==
  /\ state = "running" /\ phase[c] = "ended"
  /\ phase' = [phase EXCEPT ![c] = "released"]
  /\ UNCHANGED state

Stop ==
  /\ state = "running" /\ InUse = {}
  /\ state' = "idle"
  /\ UNCHANGED phase

Fail ==
  /\ state = "running" /\ state' = "idle"
  /\ phase' = [c \in Conn |-> IF c \in InUse THEN "abandoned" ELSE phase[c]]

PoolNext ==
  \/ Start \/ Stop \/ Fail
  \/ \E c \in Conn : Open(c) \/ End(c) \/ Release(c)

Spec == PoolInit /\ [][PoolNext]_poolVars
=============================================================================
