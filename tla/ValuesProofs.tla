---------------------------- MODULE ValuesProofs ----------------------------
(***************************************************************************)
(* Theorems about Values for any number of threads, values and places: no  *)
(* reference dangles and every count is exact.                             *)
(*                                                                         *)
(* The places of threads and containers are slots of one function, so that *)
(* a count is the cardinality of a set of slots, and a step adds a slot to *)
(* one of these sets or removes it.  What protects a pointer that was read *)
(* and not yet counted is that its thread still refers to the container it *)
(* was read from: nobody else may then modify the container, nor can it be *)
(* about to die.                                                           *)
(***************************************************************************)
EXTENDS Values, FiniteSetTheorems, TLAPS

USE ValuesAssumption

ReadingHeld ==
  \A t \in Thread :
    reading[t] # None =>
      \E c \in Value, i \in Place : Holds(t, c) /\ ref[<<c, i>>] = reading[t]

\* The part of NoDangling about places.
NoDeadItem == \A s \in Slot : ref[s] # None => stage[ref[s]] = "live"

IInv == TypeOK /\ NoDeadItem /\ Counted /\ ReadingHeld

-----------------------------------------------------------------------------
(***************************************************************************)
(* The sets of slots that refer to a value.                                *)
(***************************************************************************)

\* Every set of references is finite.
LEMMA RefsFinite ==
  ASSUME NEW f, NEW v
  PROVE  IsFiniteSet(RefsIn(f, v)) /\ Cardinality(RefsIn(f, v)) \in Nat
<1>1. IsFiniteSet(Place \cup {Temp})
  BY FS_AddElement
<1>2. IsFiniteSet(ThreadSlot) /\ IsFiniteSet(ItemSlot)
  BY <1>1, FS_Product DEF ThreadSlot, ItemSlot
<1>3. IsFiniteSet(Slot)
  BY <1>2, FS_Union DEF Slot
<1>4. RefsIn(f, v) \in SUBSET Slot
  BY DEF RefsIn
<1> QED BY <1>3, <1>4, FS_Subset, FS_CardinalityType

\* The slots of threads and of containers are different ones.
LEMMA SlotsApart ==
  ASSUME NEW t \in Thread, NEW p \in Place \cup {Temp}, NEW c \in Value, NEW i \in Place
  PROVE  <<t, p>> \in Slot /\ <<c, i>> \in Slot /\ <<t, p>> # <<c, i>>
<1>1. t # c
  OBVIOUS
<1> QED BY <1>1 DEF Slot, ThreadSlot, ItemSlot

-----------------------------------------------------------------------------
(***************************************************************************)
(* The two kinds of change of a count, whichever action makes them.        *)
(***************************************************************************)

\* A live value gets a reference more, in an empty slot.
LEMMA GainKeeps ==
  ASSUME TypeOK, NoDeadItem, Counted,
         NEW s \in Slot, NEW v \in Value, ref[s] = None, stage[v] = "live",
         Incref(v), ref' = [ref EXCEPT ![s] = v], UNCHANGED stage
  PROVE  NoDeadItem' /\ Counted' /\ count' \in [Value -> Nat]
                     /\ ref' \in [Slot -> Value \cup {None}]
<1> USE DEF TypeOK, Incref
<1>1. /\ Cardinality(Refs(v)') = Cardinality(Refs(v)) + 1
      /\ \A w \in Value \ {v} : Refs(w)' = Refs(w)
  <2>1. Refs(v)' = Refs(v) \cup {s} /\ s \notin Refs(v)
    BY DEF Refs, RefsIn
  <2>2. \A w \in Value \ {v} : Refs(w)' = Refs(w)
    BY DEF Refs, RefsIn
  <2>3. IsFiniteSet(Refs(v))
    BY RefsFinite DEF Refs
  <2> QED BY <2>1, <2>2, <2>3, FS_AddElement
<1>2. NoDeadItem'
  BY DEF NoDeadItem
<1>3. Counted'
  <2> SUFFICES ASSUME NEW w \in Value, stage'[w] = "live"
               PROVE  count'[w] = Cardinality(Refs(w)') /\ count'[w] # 0
    BY DEF Counted
  <2>1. CASE w = v
    BY <2>1, <1>1 DEF Counted
  <2>2. CASE w # v
    BY <2>2, <1>1 DEF Counted
  <2> QED BY <2>1, <2>2
<1> QED BY <1>1, <1>2, <1>3

\* A slot gives up its reference; a value that loses its last one is no longer live.
LEMMA LoseKeeps ==
  ASSUME TypeOK, NoDeadItem, Counted,
         NEW t \in Thread, NEW s \in Slot, NEW v \in Value, ref[s] = v,
         Decref(t, v), ref' = [ref EXCEPT ![s] = None]
  PROVE  /\ NoDeadItem' /\ Counted' /\ count' \in [Value -> Nat]
         /\ ref' \in [Slot -> Value \cup {None}]
         /\ stage' \in [Value -> {"free", "live", "dying"}]
         /\ by' \in [Value -> Thread \cup {None}]
<1> USE DEF TypeOK, Decref
<1>0. stage[v] = "live"
  BY DEF NoDeadItem
<1>1. /\ Cardinality(Refs(v)') = Cardinality(Refs(v)) - 1
      /\ \A w \in Value \ {v} : Refs(w)' = Refs(w)
  <2>1. Refs(v)' = Refs(v) \ {s} /\ s \in Refs(v)
    BY DEF Refs, RefsIn
  <2>2. \A w \in Value \ {v} : Refs(w)' = Refs(w)
    BY DEF Refs, RefsIn
  <2>3. IsFiniteSet(Refs(v))
    BY RefsFinite DEF Refs
  <2>4. Cardinality(Refs(v) \ {s}) = Cardinality(Refs(v)) - 1
    BY ONLY <2>1, <2>3, FS_RemoveElement
  <2> QED BY ONLY <2>1, <2>2, <2>4
<1>2. count[v] = Cardinality(Refs(v)) /\ count[v] # 0 /\ count[v] \in Nat
  BY <1>0 DEF Counted
<1>3. /\ count' = [count EXCEPT ![v] = count[v] - 1]
      /\ count' \in [Value -> Nat]
  BY <1>0, <1>2
<1>4. count[v] = 1 => Refs(v)' = {}
  <2>1. IsFiniteSet(Refs(v)')
    BY RefsFinite DEF Refs
  <2> QED BY <2>1, <1>1, <1>2, FS_EmptySet
<1>5. \A w \in Value : stage'[w] = "live" <=> stage[w] = "live" /\ (w = v => count[v] # 1)
  BY <1>0
<1>6. NoDeadItem'
  <2> SUFFICES ASSUME NEW r \in Slot, ref'[r] # None PROVE stage'[ref'[r]] = "live"
    BY DEF NoDeadItem
  <2>1. r # s /\ ref'[r] = ref[r] /\ ref[r] \in Value /\ stage[ref[r]] = "live"
    BY DEF NoDeadItem
  <2>2. CASE ref[r] = v
    <3>1. r \in Refs(v)'
      BY <2>1, <2>2 DEF Refs, RefsIn
    <3> QED BY <3>1, <1>4, <1>5, <2>1, <2>2
  <2>3. CASE ref[r] # v
    BY <2>1, <2>3, <1>5
  <2> QED BY <2>2, <2>3
<1>7. Counted'
  <2> SUFFICES ASSUME NEW w \in Value, stage'[w] = "live"
               PROVE  count'[w] = Cardinality(Refs(w)') /\ count'[w] # 0
    BY DEF Counted
  <2>1. CASE w = v
    BY <2>1, <1>1, <1>2, <1>3, <1>5
  <2>2. CASE w # v
    BY <2>2, <1>1, <1>3, <1>5 DEF Counted
  <2> QED BY <2>1, <2>2
<1> QED BY <1>0, <1>1, <1>3, <1>6, <1>7

-----------------------------------------------------------------------------
(***************************************************************************)
(* The steps.                                                              *)
(***************************************************************************)

LEMMA InitIInv == Init => IInv
<1> SUFFICES ASSUME Init PROVE IInv
  OBVIOUS
<1> QED BY DEF Init, IInv, TypeOK, NoDeadItem, Counted, ReadingHeld

\* A slot that was empty disturbs no pointer that was read.
LEMMA FillKeepsReading ==
  ASSUME TypeOK, ReadingHeld, NEW s \in Slot, NEW v, ref[s] = None,
         ref' = [ref EXCEPT ![s] = v],
         NEW u \in Thread, reading'[u] = reading[u], reading[u] # None
  PROVE  \E c \in Value, i \in Place : Holds(u, c)' /\ ref'[<<c, i>>] = reading'[u]
<1>1. PICK c \in Value, i \in Place : Holds(u, c) /\ ref[<<c, i>>] = reading[u]
  BY DEF ReadingHeld
<1>2. PICK p \in Place : ref[<<u, p>>] = c
  BY <1>1 DEF Holds
<1>3. <<u, p>> \in Slot /\ <<c, i>> \in Slot
  BY SlotsApart
<1>4. ref'[<<u, p>>] = c /\ ref'[<<c, i>>] = reading[u]
  BY <1>1, <1>2, <1>3 DEF TypeOK
<1> QED BY <1>4 DEF Holds

LEMMA NewKeeps ==
  ASSUME IInv, NEW t \in Thread, NEW p \in Place, New(t, p)
  PROVE  IInv'
<1> USE DEF IInv
<1>1. PICK v \in Value :
        /\ stage[v] = "free"
        /\ stage' = [stage EXCEPT ![v] = "live"]
        /\ count' = [count EXCEPT ![v] = 1]
        /\ ref' = [ref EXCEPT ![<<t, p>>] = v]
  BY DEF New
<1>2. <<t, p>> \in Slot
  BY DEF Slot, ThreadSlot
<1>3. UNCHANGED <<by, reading>> /\ ref[<<t, p>>] = None
  BY DEF New
<1>4. TypeOK'
  BY <1>1, <1>2, <1>3 DEF TypeOK
<1>5. NoDeadItem'
  BY <1>1, <1>2, <1>3 DEF TypeOK, NoDeadItem
<1>6. Counted'
  <2>1. Refs(v)' = {<<t, p>>}
    BY <1>1, <1>2 DEF TypeOK, NoDeadItem, Refs, RefsIn
  <2>2. \A w \in Value \ {v} : Refs(w)' = Refs(w)
    BY <1>1, <1>2, <1>3 DEF TypeOK, Refs, RefsIn
  <2>3. Cardinality(Refs(v)') = 1
    BY <2>1, FS_Singleton
  <2> QED BY <1>1, <2>2, <2>3 DEF TypeOK, Counted
<1>7. ReadingHeld'
  BY <1>1, <1>2, <1>3, FillKeepsReading DEF ReadingHeld
<1> QED BY <1>4, <1>5, <1>6, <1>7

LEMMA ShareKeeps ==
  ASSUME IInv, NEW t \in Thread, NEW p \in Place, NEW u \in Thread, NEW q \in Place,
         Share(t, p, u, q)
  PROVE  IInv'
<1> USE DEF IInv
<1>1. /\ <<t, p>> \in Slot /\ <<u, q>> \in Slot
      /\ ref[<<t, p>>] \in Value /\ ref[<<u, q>>] = None
      /\ stage[ref[<<t, p>>]] = "live"
  BY SlotsApart DEF Share, TypeOK, NoDeadItem, Slot, ThreadSlot
<1>2. /\ Incref(ref[<<t, p>>])
      /\ ref' = [ref EXCEPT ![<<u, q>>] = ref[<<t, p>>]]
      /\ UNCHANGED <<stage, by, reading>>
  BY DEF Share
<1>3. NoDeadItem' /\ Counted' /\ count' \in [Value -> Nat]
                  /\ ref' \in [Slot -> Value \cup {None}]
  BY <1>1, <1>2, GainKeeps
<1>4. ReadingHeld'
  BY <1>1, <1>2, FillKeepsReading DEF ReadingHeld
<1> QED BY <1>2, <1>3, <1>4 DEF TypeOK

LEMMA ReadKeeps ==
  ASSUME IInv, NEW t \in Thread, NEW c \in Value, NEW i \in Place, Read(t, c, i)
  PROVE  IInv'
<1> USE DEF IInv, Read
<1>1. ref[<<c, i>>] \in Value
  BY DEF TypeOK, Slot, ItemSlot
<1>2. TypeOK'
  BY <1>1 DEF TypeOK
<1>3. NoDeadItem' /\ Counted'
  BY DEF NoDeadItem, Counted, Refs
<1>4. \A u \in Thread, b \in Value : Holds(u, b)' <=> Holds(u, b)
  BY DEF Holds
<1>5. ReadingHeld'
  <2> SUFFICES ASSUME NEW u \in Thread, reading'[u] # None
               PROVE  \E b \in Value, j \in Place :
                        Holds(u, b)' /\ ref'[<<b, j>>] = reading'[u]
    BY DEF ReadingHeld
  <2>1. CASE u = t
    BY <2>1, <1>4 DEF TypeOK
  <2>2. CASE u # t
    BY <2>2, <1>4 DEF TypeOK, ReadingHeld
  <2> QED BY <2>1, <2>2
<1> QED BY <1>2, <1>3, <1>5

LEMMA TakeKeeps ==
  ASSUME IInv, NEW t \in Thread, NEW p \in Place \cup {Temp}, Take(t, p)
  PROVE  IInv'
<1> USE DEF IInv, Take
<1>1. <<t, p>> \in Slot
  BY DEF Slot, ThreadSlot
<1>2. reading[t] \in Value
  BY DEF TypeOK
<1>3. stage[reading[t]] = "live"
  BY SlotsApart, <1>2 DEF ReadingHeld, NoDeadItem
<1>4. NoDeadItem' /\ Counted' /\ count' \in [Value -> Nat]
                  /\ ref' \in [Slot -> Value \cup {None}]
  BY <1>1, <1>2, <1>3, GainKeeps
<1>5. TypeOK'
  BY <1>4 DEF TypeOK
<1>6. ReadingHeld'
  <2> SUFFICES ASSUME NEW u \in Thread, reading'[u] # None
               PROVE  \E c \in Value, i \in Place :
                        Holds(u, c)' /\ ref'[<<c, i>>] = reading'[u]
    BY DEF ReadingHeld
  <2>1. u # t /\ reading'[u] = reading[u] /\ reading[u] # None
    BY DEF TypeOK
  <2> QED BY <1>1, <1>2, <2>1, FillKeepsReading
<1> QED BY <1>4, <1>5, <1>6

\* A container that is modified is used by no other thread: no pointer read by
\* another thread is from it.
LEMMA PutKeeps ==
  ASSUME IInv, NEW t \in Thread, NEW c \in Value, NEW v \in Value, NEW i \in Place,
         Put(t, c, i, v)
  PROVE  IInv'
<1> DEFINE s == <<c, i>>
           h == <<t, Temp>>
<1> USE DEF IInv
<1>1. /\ Incref(v) /\ UNCHANGED <<stage, by, reading>>
      /\ ref' = [ref EXCEPT ![s] = v, ![h] = ref[s]]
      /\ ref[h] = None /\ reading[t] = None
      /\ \A u \in Thread \ {t} : ~Holds(u, c)
      /\ Usable(t, v)
  BY DEF Put, Ready
<1>2. s \in Slot /\ h \in Slot /\ s # h
  BY SlotsApart
<1>3. \E r \in Slot : ref[r] = v
  BY <1>1, SlotsApart DEF Usable, Holds
<1>4. stage[v] = "live"
  BY <1>3 DEF NoDeadItem
<1>5. ref' \in [Slot -> Value \cup {None}] /\ count' \in [Value -> Nat]
  BY <1>1, <1>2 DEF TypeOK, Incref
<1>6. TypeOK'
  BY <1>1, <1>5 DEF TypeOK
<1>7. ref'[s] = v /\ ref'[h] = ref[s] /\ \A r \in Slot \ {s, h} : ref'[r] = ref[r]
  BY <1>1, <1>2 DEF TypeOK
<1>8. NoDeadItem'
  <2> SUFFICES ASSUME NEW r \in Slot, ref'[r] # None
               PROVE  stage[ref'[r]] = "live"
    BY <1>1 DEF NoDeadItem
  <2>1. CASE r = s
    BY <2>1, <1>4, <1>7
  <2>2. CASE r = h
    <3>1. ref'[r] = ref[s]
      BY <2>2, <1>7
    <3> QED BY <3>1, <1>2 DEF NoDeadItem
  <2>3. CASE r # s /\ r # h
    <3>1. ref'[r] = ref[r]
      BY <2>3, <1>7
    <3> QED BY <3>1 DEF NoDeadItem
  <2> QED BY <2>1, <2>2, <2>3
<1>9. \A w \in Value :
        Cardinality(Refs(w)') = Cardinality(Refs(w)) + (IF w = v THEN 1 ELSE 0)
  <2> SUFFICES ASSUME NEW w \in Value
               PROVE  Cardinality(Refs(w)') =
                        Cardinality(Refs(w)) + (IF w = v THEN 1 ELSE 0)
    OBVIOUS
  <2>1. h \notin Refs(w) /\ (s \in Refs(w) <=> ref[s] = w)
    BY <1>1, <1>2 DEF Refs, RefsIn
  <2>2. IsFiniteSet(Refs(w)) /\ Cardinality(Refs(w)) \in Nat
    BY RefsFinite DEF Refs
  <2>3. CASE w = v /\ ref[s] = w
    <3>1. Refs(w)' = Refs(w) \cup {h}
      BY <2>3, <1>2, <1>7 DEF Refs, RefsIn
    <3>2. Cardinality(Refs(w) \cup {h}) = Cardinality(Refs(w)) + 1
      BY ONLY <2>1, <2>2, FS_AddElement
    <3> QED BY ONLY <3>1, <3>2, <2>3
  <2>4. CASE w = v /\ ref[s] # w
    <3>1. Refs(w)' = Refs(w) \cup {s}
      BY <2>4, <1>1, <1>2, <1>7 DEF Refs, RefsIn
    <3> QED BY <3>1, <2>1, <2>2, <2>4, FS_AddElement
  <2>5. CASE w # v /\ ref[s] = w
    <3>1. Refs(w)' = (Refs(w) \ {s}) \cup {h}
      BY <2>5, <1>1, <1>2, <1>7 DEF Refs, RefsIn
    <3>2. IsFiniteSet(Refs(w) \ {s})
          /\ Cardinality(Refs(w) \ {s}) = Cardinality(Refs(w)) - 1
      BY ONLY <2>1, <2>2, <2>5, FS_RemoveElement
    <3>3. h \notin Refs(w) \ {s}
      BY <2>1
    <3>4. Cardinality((Refs(w) \ {s}) \cup {h}) = Cardinality(Refs(w) \ {s}) + 1
      BY ONLY <3>2, <3>3, FS_AddElement
    <3> QED BY ONLY <3>1, <3>2, <3>4, <2>2, <2>5
  <2>6. CASE w # v /\ ref[s] # w
    <3>1. Refs(w)' = Refs(w)
      BY <2>6, <1>1, <1>2, <1>7 DEF Refs, RefsIn
    <3> QED BY <3>1, <2>2, <2>6
  <2> QED BY <2>3, <2>4, <2>5, <2>6
<1>10. Counted'
  <2> SUFFICES ASSUME NEW w \in Value, stage'[w] = "live"
               PROVE  count'[w] = Cardinality(Refs(w)') /\ count'[w] # 0
    BY DEF Counted
  <2>1. count[w] = Cardinality(Refs(w)) /\ count[w] # 0 /\ count[w] \in Nat
    BY <1>1 DEF Counted, TypeOK
  <2>2. count'[w] = count[w] + (IF w = v THEN 1 ELSE 0)
    BY <1>1, <2>1 DEF TypeOK, Incref
  <2> QED BY <2>1, <2>2, <1>9
<1>11. ReadingHeld'
  <2> SUFFICES ASSUME NEW u \in Thread, reading'[u] # None
               PROVE  \E b \in Value, j \in Place :
                        Holds(u, b)' /\ ref'[<<b, j>>] = reading'[u]
    BY DEF ReadingHeld
  <2>1. u # t /\ reading'[u] = reading[u] /\ reading[u] # None
    BY <1>1
  <2>2. PICK b \in Value, j \in Place : Holds(u, b) /\ ref[<<b, j>>] = reading[u]
    BY <2>1 DEF ReadingHeld
  <2>3. PICK p \in Place : ref[<<u, p>>] = b
    BY <2>2 DEF Holds
  <2>4. b # c
    BY <1>1, <2>1, <2>2
  <2>5. <<u, p>> \in Slot \ {s, h} /\ <<b, j>> \in Slot \ {s, h}
    BY SlotsApart, <2>1, <2>4
  <2>6. ref'[<<u, p>>] = b /\ ref'[<<b, j>>] = reading[u]
    BY <1>7, <2>2, <2>3, <2>5
  <2> QED BY <2>1, <2>6 DEF Holds
<1> QED BY <1>6, <1>8, <1>10, <1>11

LEMMA ReleaseKeeps ==
  ASSUME IInv, NEW t \in Thread, NEW p \in Place \cup {Temp}, Release(t, p)
  PROVE  IInv'
<1> DEFINE s == <<t, p>>
<1> USE DEF IInv
<1>1. /\ reading[t] = None /\ ref[s] # None
      /\ Decref(t, ref[s])
      /\ ref' = [ref EXCEPT ![s] = None]
      /\ UNCHANGED reading
  BY DEF Release
<1>2. s \in Slot
  BY DEF Slot, ThreadSlot
<1>3. PICK v \in Value : ref[s] = v
  BY <1>1, <1>2 DEF TypeOK
<1>4. /\ NoDeadItem' /\ Counted' /\ count' \in [Value -> Nat]
      /\ ref' \in [Slot -> Value \cup {None}]
      /\ stage' \in [Value -> {"free", "live", "dying"}]
      /\ by' \in [Value -> Thread \cup {None}]
  BY <1>1, <1>2, <1>3, LoseKeeps
<1>5. TypeOK'
  BY <1>1, <1>4 DEF TypeOK
<1>6. ReadingHeld'
  <2> SUFFICES ASSUME NEW u \in Thread, reading'[u] # None
               PROVE  \E b \in Value, j \in Place :
                        Holds(u, b)' /\ ref'[<<b, j>>] = reading'[u]
    BY DEF ReadingHeld
  <2>1. u # t /\ reading'[u] = reading[u] /\ reading[u] # None
    BY <1>1
  <2>2. PICK b \in Value, j \in Place : Holds(u, b) /\ ref[<<b, j>>] = reading[u]
    BY <2>1 DEF ReadingHeld
  <2>3. PICK q \in Place : ref[<<u, q>>] = b
    BY <2>2 DEF Holds
  <2>4. <<u, q>> \in Slot /\ <<u, q>> # s /\ <<b, j>> \in Slot /\ <<b, j>> # s
    BY SlotsApart, <2>1
  <2>5. ref'[<<u, q>>] = b /\ ref'[<<b, j>>] = reading[u]
    BY <1>1, <2>2, <2>3, <2>4 DEF TypeOK
  <2> QED BY <2>1, <2>5 DEF Holds
<1> QED BY <1>4, <1>5, <1>6

\* A container that is being destroyed is one no thread refers to.
LEMMA ReleaseItemKeeps ==
  ASSUME IInv, NEW t \in Thread, NEW c \in Value, NEW i \in Place, ReleaseItem(t, c, i)
  PROVE  IInv'
<1> DEFINE s == <<c, i>>
<1> USE DEF IInv
<1>1. /\ stage[c] = "dying" /\ ref[s] # None
      /\ Decref(t, ref[s])
      /\ ref' = [ref EXCEPT ![s] = None]
      /\ UNCHANGED reading
  BY DEF ReleaseItem
<1>2. s \in Slot
  BY DEF Slot, ItemSlot
<1>3. PICK v \in Value : ref[s] = v
  BY <1>1, <1>2 DEF TypeOK
<1>4. /\ NoDeadItem' /\ Counted' /\ count' \in [Value -> Nat]
      /\ ref' \in [Slot -> Value \cup {None}]
      /\ stage' \in [Value -> {"free", "live", "dying"}]
      /\ by' \in [Value -> Thread \cup {None}]
  BY <1>1, <1>2, <1>3, LoseKeeps
<1>5. TypeOK'
  BY <1>1, <1>4 DEF TypeOK
<1>6. ReadingHeld'
  <2> SUFFICES ASSUME NEW u \in Thread, reading'[u] # None
               PROVE  \E b \in Value, j \in Place :
                        Holds(u, b)' /\ ref'[<<b, j>>] = reading'[u]
    BY DEF ReadingHeld
  <2>1. PICK b \in Value, j \in Place : Holds(u, b) /\ ref[<<b, j>>] = reading[u]
    BY <1>1 DEF ReadingHeld
  <2>2. PICK q \in Place : ref[<<u, q>>] = b
    BY <2>1 DEF Holds
  <2>3. <<u, q>> \in Slot /\ <<u, q>> # s /\ <<b, j>> \in Slot
    BY SlotsApart
  <2>4. b # c
    BY <2>2, <2>3, <1>1 DEF NoDeadItem
  <2>5. ref'[<<u, q>>] = b /\ ref'[<<b, j>>] = reading[u]
    BY <1>1, <2>1, <2>2, <2>3, <2>4 DEF TypeOK
  <2> QED BY <1>1, <2>5 DEF Holds
<1> QED BY <1>4, <1>5, <1>6

LEMMA FreeKeeps ==
  ASSUME IInv, NEW t \in Thread, NEW c \in Value, Free(t, c)
  PROVE  IInv'
<1> USE DEF IInv, Free
<1>1. TypeOK'
  BY DEF TypeOK
<1>2. NoDeadItem'
  BY DEF TypeOK, NoDeadItem
<1>3. Counted'
  BY DEF TypeOK, Counted, Refs
<1>4. ReadingHeld'
  BY DEF ReadingHeld, Holds
<1> QED BY <1>1, <1>2, <1>3, <1>4

LEMMA NextKeepsIInv == IInv /\ [Next]_vars => IInv'
<1> SUFFICES ASSUME IInv, [Next]_vars PROVE IInv'
  OBVIOUS
<1>1. CASE UNCHANGED vars
  <2> USE <1>1 DEF vars, IInv
  <2>1. TypeOK'
    BY DEF TypeOK
  <2>2. NoDeadItem'
    BY DEF NoDeadItem
  <2>3. Counted'
    BY DEF Counted, Refs
  <2>4. ReadingHeld'
    BY DEF ReadingHeld, Holds
  <2> QED BY <2>1, <2>2, <2>3, <2>4
<1>2. CASE Next
  <2>1. PICK t \in Thread :
          \/ \E p \in Place : New(t, p)
          \/ \E p, q \in Place, u \in Thread : Share(t, p, u, q)
          \/ \E c \in Value, i \in Place : Read(t, c, i)
          \/ \E p \in Place \cup {Temp} : Take(t, p) \/ Release(t, p)
          \/ \E c, v \in Value, i \in Place : Put(t, c, i, v)
          \/ Destroy(t)
    BY <1>2 DEF Next
  <2> QED BY <2>1, NewKeeps, ShareKeeps, ReadKeeps, TakeKeeps, PutKeeps, ReleaseKeeps,
             ReleaseItemKeeps, FreeKeeps DEF Destroy
<1> QED BY <1>1, <1>2

\* A pointer that was read is an item of a container its thread refers to.
LEMMA IInvNoDangling == IInv => NoDangling
<1> SUFFICES ASSUME IInv, NEW t \in Thread, reading[t] # None
             PROVE  stage[reading[t]] = "live"
  BY DEF IInv, NoDangling, NoDeadItem
<1>1. PICK c \in Value, i \in Place : ref[<<c, i>>] = reading[t]
  BY DEF IInv, ReadingHeld
<1> QED BY <1>1, SlotsApart DEF IInv, NoDeadItem

-----------------------------------------------------------------------------

LEMMA SpecKeepsIInv == Spec => []IInv
BY InitIInv, NextKeepsIInv, PTL DEF Spec

\* The typing of the values of xmlrpc_data.c: in particular no count gets below zero.
THEOREM ValuesTypeCorrect == Spec => []TypeOK
<1>1. IInv => TypeOK
  BY DEF IInv
<1> QED BY <1>1, SpecKeepsIInv, PTL

\* However many threads share values, nothing any of them can get at has been freed.
THEOREM NothingDangles == Spec => []NoDangling
BY IInvNoDangling, SpecKeepsIInv, PTL

\* The reference counts are exact, so that a value is destroyed exactly when the last
\* reference to it is released.
THEOREM CountsExact == Spec => []Counted
<1>1. IInv => Counted
  BY DEF IInv
<1> QED BY <1>1, SpecKeepsIInv, PTL
=============================================================================
