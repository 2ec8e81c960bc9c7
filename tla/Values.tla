-------------------------------- MODULE Values --------------------------------
(***************************************************************************)
(* The values of xmlrpc-c: counted references to arrays, structs and       *)
(* scalars, which threads share.  The lock of a value makes each change of *)
(* its count a step; nothing locks the contents.  A value whose count gets *)
(* to zero is destroyed by the thread that released it, which releases its *)
(* items in turn.                                                          *)
(*                                                                         *)
(* Arrays and structs are containers with places; the key of a member is a *)
(* value like any other.  The memory of a value is used again.             *)
(***************************************************************************)
EXTENDS Naturals, FiniteSets

CONSTANTS Thread, Value,
          Place,  \* where threads and containers keep references
          Temp,   \* a place more of each thread: a reference a call holds until it returns
          None

ASSUME ValuesAssumption ==
  /\ IsFiniteSet(Thread) /\ IsFiniteSet(Value) /\ IsFiniteSet(Place)
  /\ Thread \cap Value = {}
  /\ Temp \notin Place
  /\ None \notin Value

VARIABLES
  stage,    \* what the memory of each value is used for
  count,    \* refcount
  by,       \* the thread that destroys it
  ref,      \* the references: what each place of threads and containers refers to
  reading   \* the pointer a thread has read from a container and not yet counted

vars == <<stage, count, by, ref, reading>>

ThreadSlot == Thread \X (Place \cup {Temp})
ItemSlot == Value \X Place
Slot == ThreadSlot \cup ItemSlot

\* The places of f that refer to v.
RefsIn(f, v) == {s \in Slot : f[s] = v}

Refs(v) == RefsIn(ref, v)

Holds(t, v) == \E p \in Place : ref[<<t, p>>] = v

TypeOK ==
  /\ stage \in [Value -> {"free", "live", "dying"}]
  /\ count \in [Value -> Nat]
  /\ by \in [Value -> Thread \cup {None}]
  /\ ref \in [Slot -> Value \cup {None}]
  /\ reading \in [Thread -> Value \cup {None}]

Init ==
  /\ stage = [v \in Value |-> "free"]
  /\ count = [v \in Value |-> 0]
  /\ by = [v \in Value |-> None]
  /\ ref = [s \in Slot |-> None]
  /\ reading = [t \in Thread |-> None]

Destroying(t) == \E v \in Value : stage[v] = "dying" /\ by[v] = t

\* The thread is between two calls.
Ready(t) == ref[<<t, Temp>>] = None /\ reading[t] = None /\ ~Destroying(t)

-----------------------------------------------------------------------------
(***************************************************************************)
(* Counting.                                                               *)
(***************************************************************************)

Incref(v) == count' = [count EXCEPT ![v] = @ + 1]

\* Mutant: a value nobody refers to is left alone.
DecrefOnly(t, v) ==
  /\ count' = [count EXCEPT ![v] = @ - 1]
  /\ UNCHANGED <<stage, by>>

\* xmlrpc_DECREF(): the thread that brings the count to zero is to destroy the value.
Decref(t, v) ==
  /\ count' = [count EXCEPT ![v] = @ - 1]
  /\ IF count[v] = 1
       THEN stage' = [stage EXCEPT ![v] = "dying"] /\ by' = [by EXCEPT ![v] = t]
       ELSE UNCHANGED <<stage, by>>

-----------------------------------------------------------------------------
(***************************************************************************)
(* What a thread does with values.                                         *)
(***************************************************************************)

\* A new value, with the thread's reference to it.
New(t, p) ==
  /\ Ready(t) /\ ref[<<t, p>>] = None
  /\ \E v \in Value :
       /\ stage[v] = "free"
       /\ stage' = [stage EXCEPT ![v] = "live"]
       /\ count' = [count EXCEPT ![v] = 1]
       /\ ref' = [ref EXCEPT ![<<t, p>>] = v]
  /\ UNCHANGED <<by, reading>>

\* The thread takes another reference, for itself or to hand it to another thread.
Share(t, p, u, q) ==
  /\ Ready(t) /\ ref[<<t, p>>] # None /\ ref[<<u, q>>] = None
  /\ Incref(ref[<<t, p>>])
  /\ ref' = [ref EXCEPT ![<<u, q>>] = ref[<<t, p>>]]
  /\ UNCHANGED <<stage, by, reading>>

\* Reading an item, first step: the pointer is taken from the container.
Read(t, c, i) ==
  /\ Ready(t) /\ Holds(t, c)
  /\ ref[<<c, i>>] # None
  /\ reading' = [reading EXCEPT ![t] = ref[<<c, i>>]]
  /\ UNCHANGED <<stage, count, by, ref>>

\* Mutant: the reference is handed out without counting it.
TakeUncounted(t, p) ==
  /\ reading[t] # None /\ ref[<<t, p>>] = None
  /\ ref' = [ref EXCEPT ![<<t, p>>] = reading[t]]
  /\ reading' = [reading EXCEPT ![t] = None]
  /\ UNCHANGED <<stage, count, by>>

\* Second step: it is counted.  The functions that return a borrowed pointer, like
\* xmlrpc_array_get_item(), have it in Temp and release it at once.
Take(t, p) ==
  /\ reading[t] # None /\ ref[<<t, p>>] = None
  /\ Incref(reading[t])
  /\ ref' = [ref EXCEPT ![<<t, p>>] = reading[t]]
  /\ reading' = [reading EXCEPT ![t] = None]
  /\ UNCHANGED <<stage, by>>

\* A thread uses the values it refers to, and those in a container it refers to,
\* to which it may have a borrowed pointer.
Usable(t, v) ==
  Holds(t, v) \/ \E c \in Value, i \in Place : Holds(t, c) /\ ref[<<c, i>>] = v

\* Mutant: the old item is released before the new one is counted.
PutReleasingFirst(t, c, i, v) ==
  /\ Ready(t) /\ Holds(t, c) /\ \A u \in Thread \ {t} : ~Holds(u, c)
  /\ Usable(t, v)
  /\ LET old == ref[<<c, i>>] IN
       IF old = None
         THEN Incref(v) /\ UNCHANGED <<stage, by>>
         ELSE /\ count' = [[count EXCEPT ![old] = @ - 1] EXCEPT ![v] = @ + 1]
              /\ IF count[old] = 1
                   THEN stage' = [stage EXCEPT ![old] = "dying"] /\ by' = [by EXCEPT ![old] = t]
                   ELSE UNCHANGED <<stage, by>>
  /\ ref' = [ref EXCEPT ![<<c, i>>] = v]
  /\ UNCHANGED reading

\* A container gets an item, in place of another or in addition.  The reference to
\* the old item is kept in Temp to be released last: old and new may be the same.
\* Threads must not modify a value that others use, says the source.
Put(t, c, i, v) ==
  /\ Ready(t) /\ Holds(t, c) /\ \A u \in Thread \ {t} : ~Holds(u, c)
  /\ Usable(t, v)
  /\ Incref(v)
  /\ ref' = [ref EXCEPT ![<<c, i>>] = v, ![<<t, Temp>>] = ref[<<c, i>>]]
  /\ UNCHANGED <<stage, by, reading>>

\* A reference is released, by the program or, that in Temp, at the end of a call.
Release(t, p) ==
  /\ reading[t] = None /\ ~Destroying(t)
  /\ p = Temp \/ ref[<<t, Temp>>] = None
  /\ ref[<<t, p>>] # None
  /\ Decref(t, ref[<<t, p>>])
  /\ ref' = [ref EXCEPT ![<<t, p>>] = None]
  /\ UNCHANGED reading

-----------------------------------------------------------------------------
(***************************************************************************)
(* destroyValue(), which recurs into the items that die with a container.  *)
(* The order in which they are taken is left open.                         *)
(***************************************************************************)

ReleaseItem(t, c, i) ==
  /\ stage[c] = "dying" /\ by[c] = t
  /\ ref[<<c, i>>] # None
  /\ Decref(t, ref[<<c, i>>])
  /\ ref' = [ref EXCEPT ![<<c, i>>] = None]
  /\ UNCHANGED reading

Free(t, c) ==
  /\ stage[c] = "dying" /\ by[c] = t
  /\ \A i \in Place : ref[<<c, i>>] = None
  /\ stage' = [stage EXCEPT ![c] = "free"]
  /\ by' = [by EXCEPT ![c] = None]
  /\ UNCHANGED <<count, ref, reading>>

-----------------------------------------------------------------------------

Destroy(t) == \E c \in Value : Free(t, c) \/ \E i \in Place : ReleaseItem(t, c, i)

Next ==
  \E t \in Thread :
    \/ \E p \in Place : New(t, p)
    \/ \E p, q \in Place, u \in Thread : Share(t, p, u, q)
    \/ \E c \in Value, i \in Place : Read(t, c, i)
    \/ \E p \in Place \cup {Temp} : Take(t, p) \/ Release(t, p)
    \/ \E c, v \in Value, i \in Place : Put(t, c, i, v)
    \/ Destroy(t)

Spec == Init /\ [][Next]_vars

\* A thread that has begun to destroy a value goes on.
FairSpec == Spec /\ \A t \in Thread : WF_vars(Destroy(t))

-----------------------------------------------------------------------------

\* No place of a thread or of a container, be it one that is being destroyed, refers to
\* memory that was freed or is about to be, and neither does a pointer a thread has
\* read and not yet counted, whatever other threads release meanwhile.
NoDangling ==
  /\ \A s \in Slot : ref[s] # None => stage[ref[s]] = "live"
  /\ \A t \in Thread : reading[t] # None => stage[reading[t]] = "live"

\* The count of a value is the number of references to it, and a value without any is
\* being destroyed: nothing is freed too early, and only values that refer to each
\* other in a circle can stay for ever.
Counted ==
  \A v \in Value : stage[v] = "live" => count[v] = Cardinality(Refs(v)) /\ count[v] # 0

\* No set of values in which each is referred to by another of them, or itself.
NoCircle ==
  \A C \in SUBSET Value \ {{}} :
    \E v \in C : \A c \in C, i \in Place : ref[<<c, i>>] # v

Unused == \A s \in ThreadSlot : ref[s] = None

\* When no thread refers to anything, all memory is freed in the end, unless values
\* refer to each other in a circle.
AllFreed == Unused /\ NoCircle ~> ~Unused \/ \A v \in Value : stage[v] = "free"
=============================================================================
