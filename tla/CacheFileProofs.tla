--------------------------- MODULE CacheFileProofs ---------------------------
(***************************************************************************)
(* Theorems about CacheFile for any number of processes, inodes and        *)
(* objects.                                                                *)
(*                                                                         *)
(* TornOnlyByOverlap is not inductive: that the file stays readable        *)
(* depends on the temporary name never referring to the file's own inode   *)
(* and on the one process inside set() being the only one that has the     *)
(* temporary inode open.  WriterInv says so, for as long as no two set()   *)
(* calls have overlapped.                                                  *)
(* OverlapInv is what remains true of calls that do.                       *)
(***************************************************************************)
EXTENDS CacheFile, TLAPS

USE CacheFileAssumption

OneWriter == \A p, q \in Proc : pc[p] # "idle" /\ pc[q] # "idle" => p = q

\* The inode a process inside set() has open is still the temporary file, and
\* holds what the process's place in set() says.
WriterOwnsTmp ==
  \A p \in Proc : pc[p] # "idle" =>
    /\ fd[p] = tmp
    /\ pc[p] = "truncated" => content[fd[p]] = Empty
    /\ pc[p] \in {"written", "unlocked"} => content[fd[p]] = obj[p]

FileIntact == data # None => content[data] \in Object /\ tmp # data

WriterInv == ~overlap => OneWriter /\ WriterOwnsTmp /\ FileIntact

-----------------------------------------------------------------------------

LEMMA StepKeepsType == TypeOK /\ [Next]_vars => TypeOK'
<1> SUFFICES ASSUME TypeOK, [Next]_vars PROVE TypeOK'
  OBVIOUS
<1> USE DEF TypeOK, Content, Holding, Answer, Return
<1>1. ASSUME NEW p \in Proc, Get(p) \/ OpenFails(p) PROVE TypeOK'
  BY <1>1 DEF Get, OpenFails, Readable
<1>2. ASSUME NEW p \in Proc, NEW o \in Object, Open(p, o) PROVE TypeOK'
  BY <1>2 DEF Open, FreeInode
<1>3. ASSUME NEW p \in Proc, Flock(p) \/ FlockGivesUp(p) PROVE TypeOK'
  BY <1>3 DEF Flock, FlockGivesUp
<1>4. ASSUME NEW p \in Proc, Truncate(p) PROVE TypeOK'
  BY <1>4 DEF Truncate
<1>5. ASSUME NEW p \in Proc, Write(p) PROVE TypeOK'
  BY <1>5 DEF Write
<1>6. ASSUME NEW p \in Proc, WriteFails(p) PROVE TypeOK'
  BY <1>6 DEF WriteFails
<1>7. ASSUME NEW p \in Proc, Unlock(p) \/ CloseFails(p) PROVE TypeOK'
  BY <1>7 DEF Unlock, CloseFails
<1>8. ASSUME NEW p \in Proc, Rename(p) \/ RenameFails(p) \/ Unlink(p) PROVE TypeOK'
  BY <1>8 DEF Rename, RenameFails, Unlink
<1>9. ASSUME NEW p \in Proc, Remove(p) \/ Crash(p) PROVE TypeOK'
  BY <1>9 DEF Remove, Crash
<1>10. CASE UNCHANGED vars
  BY <1>10 DEF vars
<1> QED
  BY <1>1, <1>2, <1>3, <1>4, <1>5, <1>6, <1>7, <1>8, <1>9, <1>10 DEF Next

\* Type correctness: every variable of the settings file stays within its type,
\* and a process inside set() always has an inode open and an object to store.
THEOREM TypeCorrect == Spec => []TypeOK
<1>1. Init => TypeOK
  BY DEF Init, TypeOK, Content, Holding, Answer
<1> QED BY <1>1, StepKeepsType, PTL DEF Spec

-----------------------------------------------------------------------------

LEMMA InitWriterInv == Init => WriterInv
BY DEF Init, WriterInv, OneWriter, WriterOwnsTmp, FileIntact

\* Opening the temporary file keeps the invariant as long as nobody else is in
\* set(): the inode opened is the leftover temporary file or a fresh one.
LEMMA OpenKeepsWriterInv ==
  ASSUME TypeOK, WriterInv, NEW p \in Proc, NEW o \in Object, Open(p, o)
  PROVE  WriterInv'
<1> SUFFICES ASSUME ~overlap' PROVE OneWriter' /\ WriterOwnsTmp' /\ FileIntact'
  BY DEF WriterInv
<1>1. ~overlap /\ \A q \in Proc : pc[q] = "idle"
  BY DEF Open, TypeOK
<1>2. \A q \in Proc : pc'[q] # "idle" => q = p
  BY <1>1 DEF Open, TypeOK
<1>3. WriterOwnsTmp'
  BY <1>2 DEF Open, TypeOK, WriterOwnsTmp
<1>4. FileIntact'
  <2>1. FileIntact BY <1>1 DEF WriterInv
  <2>2. CASE tmp = None
    BY <2>1, <2>2 DEF Open, FreeInode, FileIntact, TypeOK
  <2>3. CASE tmp # None
    BY <2>1, <2>3 DEF Open, FileIntact, TypeOK
  <2> QED BY <2>2, <2>3
<1> QED BY <1>2, <1>3, <1>4 DEF OneWriter

\* Every other step of set() is taken by the only process inside it.
LEMMA SetKeepsWriterInv ==
  ASSUME TypeOK, WriterInv, NEW p \in Proc,
         \/ Flock(p) \/ FlockGivesUp(p)
         \/ Truncate(p) \/ Write(p) \/ WriteFails(p)
         \/ Unlock(p) \/ CloseFails(p)
         \/ Rename(p) \/ RenameFails(p) \/ Unlink(p) \/ Crash(p)
  PROVE  WriterInv'
<1> SUFFICES ASSUME ~overlap PROVE OneWriter' /\ WriterOwnsTmp' /\ FileIntact'
  BY DEF WriterInv, Flock, FlockGivesUp, Truncate, Write, WriteFails, Unlock,
         CloseFails, Rename, RenameFails, Unlink, Crash
<1>1. OneWriter /\ WriterOwnsTmp /\ FileIntact
  BY DEF WriterInv
<1>2. \A q \in Proc : q # p => pc[q] = "idle"
  BY <1>1 DEF OneWriter, Flock, FlockGivesUp, Truncate, Write, WriteFails, Unlock,
              CloseFails, Rename, RenameFails, Unlink, Crash
<1>3. pc[p] # "idle" /\ fd[p] = tmp /\ fd[p] \in Inode /\ tmp # None
  BY <1>1 DEF WriterOwnsTmp, TypeOK, Flock, FlockGivesUp, Truncate, Write,
              WriteFails, Unlock, CloseFails, Rename, RenameFails, Unlink, Crash
<1>4. OneWriter'
  BY <1>1, <1>2 DEF OneWriter, TypeOK, Return, Flock, FlockGivesUp, Truncate, Write,
                    WriteFails, Unlock, CloseFails, Rename, RenameFails, Unlink, Crash
<1>5. CASE Flock(p) \/ FlockGivesUp(p) \/ Unlock(p) \/ CloseFails(p)
           \/ RenameFails(p) \/ Unlink(p) \/ Crash(p)
  BY <1>1, <1>2, <1>3, <1>4, <1>5
     DEF WriterOwnsTmp, FileIntact, TypeOK, Holding, Return, Flock, FlockGivesUp,
         Unlock, CloseFails, RenameFails, Unlink, Crash
<1>6. CASE Truncate(p) \/ Write(p) \/ WriteFails(p)
  BY <1>1, <1>2, <1>3, <1>4, <1>6
     DEF WriterOwnsTmp, FileIntact, TypeOK, Content, Holding, Truncate, Write,
         WriteFails
<1>7. CASE Rename(p)
  BY <1>1, <1>2, <1>3, <1>4, <1>7
     DEF WriterOwnsTmp, FileIntact, TypeOK, Return, Rename
<1> QED BY <1>4, <1>5, <1>6, <1>7

LEMMA StepKeepsWriterInv == TypeOK /\ WriterInv /\ [Next]_vars => WriterInv'
<1> SUFFICES ASSUME TypeOK, WriterInv, [Next]_vars PROVE WriterInv'
  OBVIOUS
<1>1. ASSUME NEW p \in Proc, Get(p) \/ OpenFails(p) \/ Remove(p) PROVE WriterInv'
  BY <1>1 DEF Get, OpenFails, Remove, WriterInv, OneWriter, WriterOwnsTmp, FileIntact
<1>2. CASE UNCHANGED vars
  BY <1>2 DEF vars, WriterInv, OneWriter, WriterOwnsTmp, FileIntact
<1> QED BY <1>1, <1>2, OpenKeepsWriterInv, SetKeepsWriterInv DEF Next

\* A reader finds an unreadable settings file only after two set() calls on it
\* overlapped, whatever writes failed and wherever processes were killed.
THEOREM OnlyOverlapTears == Spec => []TornOnlyByOverlap
<1>1. WriterInv => TornOnlyByOverlap
  BY DEF WriterInv, FileIntact, TornOnlyByOverlap, Readable
<1> QED BY <1>1, TypeCorrect, InitWriterInv, StepKeepsWriterInv, PTL DEF Spec

-----------------------------------------------------------------------------
(***************************************************************************)
(* Overlapping set() calls.  The lock is of an inode, and an inode may be  *)
(* renamed to <name> while others still have it open as <name>.tmp: the    *)
(* file is then unreadable for as long as one of them has yet to write it, *)
(* and no longer.  WrittenInTheEnd says so of the two names.               *)
(***************************************************************************)

LockExclusive ==
  \A p, q \in Proc :
    pc[p] \in Holding /\ pc[q] \in Holding /\ fd[p] = fd[q] => p = q

\* What the process that holds the lock of an inode finds in it.
HolderSees ==
  \A p \in Proc :
    /\ pc[p] = "truncated" => content[fd[p]] = Empty
    /\ pc[p] = "written" => content[fd[p]] \in Object

\* Some process has i open and has yet to write it.
ToBeWritten(i) == \E p \in Proc : fd[p] = i /\ pc[p] \in {"opened", "locked", "truncated"}

Sound(i) == i # None => content[i] \in Object \/ ToBeWritten(i)

WrittenInTheEnd ==
  /\ \A p \in Proc : pc[p] \notin {"failed", "unlink"}
  /\ HolderSees
  /\ Sound(data) /\ Sound(tmp)

OverlapInv == LockExclusive /\ (fault \/ WrittenInTheEnd)

\* flock() lets at most one process at a time hold an inode.
LEMMA StepKeepsLock == TypeOK /\ LockExclusive /\ [Next]_vars => LockExclusive'
<1> SUFFICES ASSUME TypeOK, LockExclusive, [Next]_vars PROVE LockExclusive'
  OBVIOUS
<1> USE DEF TypeOK, LockExclusive, Holding, Return
<1>1. ASSUME NEW p \in Proc, Get(p) \/ OpenFails(p) \/ Remove(p) PROVE LockExclusive'
  BY <1>1 DEF Get, OpenFails, Remove
<1>2. ASSUME NEW p \in Proc, NEW o \in Object, Open(p, o) PROVE LockExclusive'
  BY <1>2 DEF Open
<1>3. ASSUME NEW p \in Proc, Flock(p) PROVE LockExclusive'
  BY <1>3 DEF Flock, FlockFree
<1>4. ASSUME NEW p \in Proc, Truncate(p) \/ Write(p) \/ WriteFails(p) PROVE LockExclusive'
  BY <1>4 DEF Truncate, Write, WriteFails
<1>5. ASSUME NEW p \in Proc, Unlock(p) \/ CloseFails(p) PROVE LockExclusive'
  BY <1>5 DEF Unlock, CloseFails
<1>6. ASSUME NEW p \in Proc, \/ FlockGivesUp(p) \/ Rename(p) \/ RenameFails(p)
                             \/ Unlink(p) \/ Crash(p)
      PROVE  LockExclusive'
  BY <1>6 DEF FlockGivesUp, Rename, RenameFails, Unlink, Crash
<1>7. CASE UNCHANGED vars
  BY <1>7 DEF vars
<1> QED
  BY <1>1, <1>2, <1>3, <1>4, <1>5, <1>6, <1>7 DEF Next

\* The process that opens the temporary file will write it; a fresh inode is
\* neither the file nor open anywhere.
LEMMA OpenKeepsWritten ==
  ASSUME TypeOK, WrittenInTheEnd, NEW p \in Proc, NEW o \in Object, Open(p, o)
  PROVE  WrittenInTheEnd'
<1> USE DEF TypeOK, WrittenInTheEnd
<1>1. PICK i \in IF tmp = None THEN FreeInode ELSE {tmp} :
        /\ tmp' = i /\ fd' = [fd EXCEPT ![p] = i]
        /\ content' = IF tmp = None THEN [content EXCEPT ![i] = Empty] ELSE content
  BY DEF Open
<1>2. /\ pc[p] = "idle" /\ pc' = [pc EXCEPT ![p] = "opened"] /\ data' = data
      /\ i \in Inode
  BY <1>1 DEF Open, FreeInode
<1>3. fd'[p] = i /\ pc'[p] = "opened"
  BY <1>2, <1>1
<1>4. \A q \in Proc \ {p} : fd'[q] = fd[q] /\ pc'[q] = pc[q]
  BY <1>1, <1>2
<1>5. \A j \in Inode : j = data \/ (\E q \in Proc : j = fd[q]) => content'[j] = content[j]
  BY <1>1 DEF FreeInode
<1>6. HolderSees'
  BY <1>3, <1>4, <1>5 DEF HolderSees
<1>7. Sound(tmp)'
  BY <1>1, <1>3 DEF Sound, ToBeWritten
<1>8. Sound(data)'
  BY <1>2, <1>3, <1>4, <1>5 DEF Sound, ToBeWritten
<1> QED
  BY <1>3, <1>4, <1>6, <1>7, <1>8

\* The process that gives up leaves the inode to the holder of its lock.
LEMMA GiveUpKeepsWritten ==
  ASSUME TypeOK, WrittenInTheEnd, NEW p \in Proc, FlockGivesUp(p)
  PROVE  WrittenInTheEnd'
<1> USE DEF TypeOK, WrittenInTheEnd
<1>1. PICK r \in Proc : fd[r] = fd[p] /\ pc[r] \in Holding
  BY DEF FlockGivesUp, FlockFree
<1>2. /\ pc[p] = "opened" /\ pc' = [pc EXCEPT ![p] = "idle"] /\ fd' = [fd EXCEPT ![p] = None]
      /\ UNCHANGED <<data, tmp, content>>
  BY DEF FlockGivesUp, Return
<1>3. r # p
  BY <1>1, <1>2 DEF Holding
<1>4. pc'[p] = "idle" /\ \A q \in Proc \ {p} : fd'[q] = fd[q] /\ pc'[q] = pc[q]
  BY <1>2
<1>5. HolderSees'
  BY <1>2, <1>4 DEF HolderSees
<1>6. content[fd[p]] \in Object \/ pc[r] \in {"locked", "truncated"}
  BY <1>1 DEF HolderSees, Holding
<1>7. ASSUME NEW i, Sound(i), i \in Inode PROVE content[i] \in Object \/ ToBeWritten(i)'
  BY <1>1, <1>2, <1>3, <1>4, <1>6, <1>7 DEF Sound, ToBeWritten
<1> QED
  BY <1>2, <1>4, <1>5, <1>7 DEF Sound

\* Writing under the lock: the inode is emptied by a process that will write it.
LEMMA HolderKeepsWritten ==
  ASSUME TypeOK, LockExclusive, WrittenInTheEnd, NEW p \in Proc,
         Flock(p) \/ Truncate(p) \/ Write(p) \/ Unlock(p)
  PROVE  WrittenInTheEnd'
<1> USE DEF TypeOK, WrittenInTheEnd
<1>1. pc[p] # "idle" /\ fd[p] \in Inode /\ obj[p] \in Object /\ UNCHANGED <<data, tmp, fd>>
  BY DEF Flock, Truncate, Write, Unlock
<1>2. \A q \in Proc \ {p} : pc'[q] = pc[q]
  BY DEF Flock, Truncate, Write, Unlock
<1>3. \A i \in Inode \ {fd[p]} : content'[i] = content[i]
  BY <1>1 DEF Flock, Truncate, Write, Unlock
<1>4. \/ pc'[p] = "locked" /\ pc[p] = "opened" /\ content' = content
      \/ pc[p] = "locked" /\ pc'[p] = "truncated" /\ content'[fd[p]] = Empty
      \/ pc[p] = "truncated" /\ pc'[p] = "written" /\ content'[fd[p]] \in Object
      \/ pc[p] = "written" /\ pc'[p] = "unlocked" /\ content' = content
  BY <1>1 DEF Flock, Truncate, Write, Unlock, HolderSees
<1>5. \A q \in Proc \ {p} :
        pc[q] \in {"truncated", "written"} /\ fd[q] \in Inode => content'[fd[q]] = content[fd[q]]
  BY <1>3, <1>4 DEF LockExclusive, Holding
<1>6. HolderSees'
  BY <1>1, <1>2, <1>4, <1>5 DEF HolderSees
<1>7. content'[fd[p]] \in Object \/ pc'[p] \in {"locked", "truncated"}
  BY <1>4 DEF HolderSees
<1>8. ASSUME NEW i \in Inode, Sound(i) PROVE content'[i] \in Object \/ ToBeWritten(i)'
  <2>1. CASE i = fd[p]
    BY <1>1, <1>7, <2>1 DEF ToBeWritten
  <2>2. CASE i # fd[p]
    BY <1>1, <1>2, <1>3, <1>8, <2>2 DEF Sound, ToBeWritten
  <2> QED
    BY <2>1, <2>2
<1> QED
  BY <1>1, <1>2, <1>4, <1>6, <1>8 DEF Sound

\* rename() gives the name to an inode that is written or will be, or fails.
LEMMA RenameKeepsWritten ==
  ASSUME TypeOK, WrittenInTheEnd, NEW p \in Proc, Rename(p) \/ RenameFails(p)
  PROVE  WrittenInTheEnd'
<1> USE DEF TypeOK, WrittenInTheEnd
<1>1. /\ pc[p] = "unlocked" /\ pc'[p] = "idle" /\ content' = content
      /\ tmp' \in {None, tmp} /\ data' \in {data, tmp}
      /\ \A q \in Proc \ {p} : pc'[q] = pc[q] /\ fd'[q] = fd[q]
  BY DEF Rename, RenameFails, Return
<1>2. HolderSees'
  BY <1>1 DEF HolderSees
<1>3. ASSUME NEW i \in Inode, Sound(i) PROVE content'[i] \in Object \/ ToBeWritten(i)'
  BY <1>1, <1>3 DEF Sound, ToBeWritten
<1> QED
  BY <1>1, <1>2, <1>3 DEF Sound

LEMMA StepKeepsOverlapInv == TypeOK /\ OverlapInv /\ [Next]_vars => OverlapInv'
<1> SUFFICES ASSUME TypeOK, OverlapInv, [Next]_vars, ~fault' PROVE WrittenInTheEnd'
  BY StepKeepsLock DEF OverlapInv
<1>1. ~fault /\ LockExclusive /\ WrittenInTheEnd
  BY DEF OverlapInv, Next, vars, Get, OpenFails, Open, Flock, FlockGivesUp, Truncate, Write,
         WriteFails, Unlock, CloseFails, Rename, RenameFails, Unlink, Remove, Crash
<1>2. ASSUME NEW p \in Proc, Get(p) \/ OpenFails(p) \/ Remove(p) PROVE WrittenInTheEnd'
  BY <1>1, <1>2 DEF Get, OpenFails, Remove, WrittenInTheEnd, HolderSees, Sound, ToBeWritten
<1>3. ASSUME NEW p \in Proc, WriteFails(p) \/ CloseFails(p) \/ Unlink(p) \/ Crash(p)
      PROVE  FALSE
  BY <1>1, <1>3 DEF WriteFails, CloseFails, Unlink, Crash, WrittenInTheEnd
<1>4. CASE UNCHANGED vars
  BY <1>1, <1>4 DEF vars, WrittenInTheEnd, HolderSees, Sound, ToBeWritten
<1> QED
  BY <1>1, <1>2, <1>3, <1>4, OpenKeepsWritten, GiveUpKeepsWritten, HolderKeepsWritten,
     RenameKeepsWritten DEF Next

\* However many set() calls overlap, once all of them have returned and none has
\* failed the file is missing or holds an object (rCache::set()).
THEOREM OverlapSettles == Spec => []SettlesReadable
<1>1. Init => OverlapInv
  BY DEF Init, OverlapInv, LockExclusive, WrittenInTheEnd, HolderSees, Sound, Holding
<1>2. TypeOK /\ OverlapInv => SettlesReadable
  BY DEF OverlapInv, WrittenInTheEnd, Sound, ToBeWritten, SettlesReadable, Readable
<1> QED BY <1>1, <1>2, TypeCorrect, StepKeepsOverlapInv, PTL DEF Spec

-----------------------------------------------------------------------------
(***************************************************************************)
(* Until two set() calls overlap, callers see an atomic register.          *)
(***************************************************************************)

SerialInv == TypeOK /\ WriterInv /\ ~overlap

\* The steps of set() before its last one are invisible in the register.
LEMMA InnerStepStutters ==
  ASSUME SerialInv, NEW p \in Proc,
         Flock(p) \/ Truncate(p) \/ Write(p) \/ WriteFails(p) \/ Unlock(p)
         \/ CloseFails(p)
  PROVE  UNCHANGED Store!storeVars
<1>1. Pending' = Pending /\ view' = view /\ answer' = answer
  BY DEF SerialInv, TypeOK, Pending, Flock, Truncate, Write, WriteFails, Unlock,
         CloseFails
<1>2. StoredValue' = StoredValue
  <2>1. data' = data /\ fd[p] = tmp /\ (data # None => tmp # data)
    BY DEF SerialInv, WriterInv, WriterOwnsTmp, FileIntact, Flock, Truncate, Write,
           WriteFails, Unlock, CloseFails
  <2> QED
    BY <2>1 DEF StoredValue, SerialInv, TypeOK, Flock, Truncate, Write, WriteFails,
                Unlock, CloseFails
<1> QED BY <1>1, <1>2 DEF Store!storeVars

\* rename() commits, and what it commits is the object of the caller.
LEMMA RenameCommits ==
  ASSUME SerialInv, NEW p \in Proc, Rename(p)
  PROVE  Store!Commit(p)
<1>1. fd[p] = tmp /\ tmp # None /\ content[tmp] = obj[p] /\ obj[p] \in Object
  BY DEF SerialInv, TypeOK, WriterInv, WriterOwnsTmp, Rename
<1>2. Pending[p] = obj[p] /\ StoredValue' = obj[p] /\ view' = view
  BY <1>1 DEF Pending, StoredValue, Rename
<1>3. /\ Pending' = [Pending EXCEPT ![p] = None]
      /\ answer' = [answer EXCEPT ![p] = "stored"]
  BY DEF Pending, Rename, Return, SerialInv, TypeOK
<1> QED BY <1>1, <1>2, <1>3 DEF Store!Commit

LEMMA StepRefines ==
  TypeOK /\ WriterInv /\ [Next]_vars =>
    [\/ overlap'
     \/ \E p \in Proc : RenameFails(p)
     \/ Store!StoreNext]_(Store!storeVars)
<1> SUFFICES ASSUME SerialInv, ~overlap', [Next]_vars, \A p \in Proc : ~RenameFails(p)
             PROVE  [Store!StoreNext]_Store!storeVars
  <2>1. overlap => overlap' \/ ~[Next]_vars
    BY DEF Next, vars, Get, OpenFails, Open, Flock, FlockGivesUp, Truncate, Write,
           WriteFails, Unlock, CloseFails, Rename, RenameFails, Unlink, Remove, Crash
  <2> QED BY <2>1 DEF SerialInv
<1>1. ASSUME NEW p \in Proc, Get(p) PROVE Store!Read(p)
  BY <1>1 DEF Get, Store!Read, Pending, StoredValue, Readable, SerialInv, WriterInv,
              FileIntact
<1>2. ASSUME NEW p \in Proc, NEW o \in Object, Open(p, o) PROVE Store!Begin(p, o)
  <2>1. StoredValue' = StoredValue
    BY <1>2 DEF Open, FreeInode, StoredValue, SerialInv, TypeOK
  <2>2. Pending[p] = None /\ Pending' = [Pending EXCEPT ![p] = o]
    BY <1>2 DEF Open, Pending, SerialInv, TypeOK
  <2> QED BY <1>2, <2>1, <2>2 DEF Store!Begin, Open
<1>3. ASSUME NEW p \in Proc, OpenFails(p) \/ FlockGivesUp(p) \/ Unlink(p)
      PROVE  Store!Refuse(p)
  <2>1. /\ Pending' = [Pending EXCEPT ![p] = None]
        /\ answer' = [answer EXCEPT ![p] = "failed"]
    BY <1>3 DEF OpenFails, FlockGivesUp, Unlink, Return, Pending, SerialInv, TypeOK
  <2>2. UNCHANGED <<StoredValue, view>>
    BY <1>3 DEF OpenFails, FlockGivesUp, Unlink, StoredValue
  <2> QED BY <2>1, <2>2 DEF Store!Refuse
<1>4. ASSUME NEW p \in Proc, Crash(p) PROVE Store!Die(p)
  <2>1. /\ Pending[p] # None /\ Pending' = [Pending EXCEPT ![p] = None]
        /\ answer' = [answer EXCEPT ![p] = "none"]
    BY <1>4 DEF Crash, Return, Pending, SerialInv, TypeOK
  <2>2. UNCHANGED <<StoredValue, view>>
    BY <1>4 DEF Crash, StoredValue
  <2> QED BY <2>1, <2>2 DEF Store!Die
<1>5. ASSUME NEW p \in Proc, Remove(p) PROVE Store!Delete(p)
  BY <1>5 DEF Remove, Store!Delete, Pending, StoredValue
<1>6. CASE UNCHANGED vars
  BY <1>6 DEF vars, Store!storeVars, Pending, StoredValue
<1> QED
  BY <1>1, <1>2, <1>3, <1>4, <1>5, <1>6, InnerStepStutters, RenameCommits
     DEF Next, Store!StoreNext

\* Until two set() calls overlap, a settings file implements an atomic
\* register: set() commits at its rename and returns true, or returns false or
\* dies and leaves the stored object as it was, and get() returns the object last
\* committed.  Only a rename() that fails makes set() return true for nothing.
THEOREM SerialImplementsStore == Spec => ImplementsStore
<1>1. Init => Store!StoreInit
  BY DEF Init, Store!StoreInit, Pending, StoredValue
<1> QED
  BY <1>1, TypeCorrect, InitWriterInv, StepKeepsType, StepKeepsWriterInv, StepRefines, PTL
     DEF Spec, ImplementsStore
=============================================================================
