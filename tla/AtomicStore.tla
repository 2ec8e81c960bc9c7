----------------------------- MODULE AtomicStore -----------------------------
(***************************************************************************)
(* What the application relies on when it keeps an object in a settings    *)
(* file: one register that processes read, replace as a whole or delete.   *)
(* A store either takes effect at one instant and says so, or has no       *)
(* effect: it is refused, or its process dies and never answers.           *)
(***************************************************************************)

CONSTANTS Proc, Object, None

VARIABLES value,    \* the stored object, or None
          pending,  \* the object each process is storing, or None
          view,     \* what each process read last
          answer    \* what the last store of each process answered, if it did

storeVars == <<value, pending, view, answer>>

StoreInit ==
  /\ value \in Object \cup {None}
  /\ pending = [p \in Proc |-> None]
  /\ view = [p \in Proc |-> None]
  /\ answer = [p \in Proc |-> "none"]

Read(p) ==
  /\ pending[p] = None
  /\ view' = [view EXCEPT ![p] = value]
  /\ UNCHANGED <<value, pending, answer>>

Begin(p, o) ==
  /\ pending[p] = None
  /\ pending' = [pending EXCEPT ![p] = o]
  /\ answer' = [answer EXCEPT ![p] = "none"]
  /\ UNCHANGED <<value, view>>

Commit(p) ==
  /\ pending[p] # None
  /\ value' = pending[p]
  /\ pending' = [pending EXCEPT ![p] = None]
  /\ answer' = [answer EXCEPT ![p] = "stored"]
  /\ UNCHANGED view

\* The store is refused, before it began or after.
Refuse(p) ==
  /\ pending' = [pending EXCEPT ![p] = None]
  /\ answer' = [answer EXCEPT ![p] = "failed"]
  /\ UNCHANGED <<value, view>>

Die(p) ==
  /\ pending[p] # None
  /\ pending' = [pending EXCEPT ![p] = None]
  /\ answer' = [answer EXCEPT ![p] = "none"]
  /\ UNCHANGED <<value, view>>

Delete(p) ==
  /\ pending[p] = None
  /\ value' = None
  /\ UNCHANGED <<pending, view, answer>>

StoreNext ==
  \E p \in Proc :
    \/ Read(p) \/ Commit(p) \/ Refuse(p) \/ Die(p) \/ Delete(p)
    \/ \E o \in Object : Begin(p, o)

Spec == StoreInit /\ [][StoreNext]_storeVars
=============================================================================
