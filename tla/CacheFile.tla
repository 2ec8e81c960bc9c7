------------------------------ MODULE CacheFile ------------------------------
(***************************************************************************)
(* One settings file of rutorrent/php/cache.php (class rCache) shared by   *)
(* PHP processes that do not know of each other: web requests, rTorrent    *)
(* event hooks and scheduled scripts.                                      *)
(*                                                                         *)
(* set() writes <name>.tmp under flock() and renames it to <name>; get()   *)
(* reads <name> without a lock.  A file is an inode, and a name refers to  *)
(* at most one inode, because the hazards come from a process that still   *)
(* has the inode open after another one renamed it.                        *)
(*                                                                         *)
(* Objects with a merge() method (only the rss plugin has one) take an     *)
(* extra step before the open, modelled with that plugin's state.          *)
(***************************************************************************)

CONSTANTS Proc,     \* the PHP processes
          Inode,    \* the inodes of the settings directory
          Object,   \* the serialized objects a process may store
          Empty,    \* content of a file just created or truncated
          Garbage,  \* content that unserialize() rejects
          None      \* no inode, no object

ASSUME CacheFileAssumption ==
  /\ {Empty, Garbage, None} \cap Object = {}
  /\ Empty # Garbage /\ Empty # None /\ Garbage # None
  /\ None \notin Inode

VARIABLES data,     \* the inode called <name>, or None
          tmp,      \* the inode called <name>.tmp, or None
          content,  \* what each inode holds
          pc,       \* where each process is in set()
          fd,       \* the inode each process has open as <name>.tmp
          obj,      \* the object each process is storing
          view,     \* what each process got from its last get()
          answer,   \* what the last set() of each process returned, if it did
          overlap,  \* history: two set() calls ran at the same time
          fault     \* history: a write or close failed, or a process died

vars == <<data, tmp, content, pc, fd, obj, view, answer, overlap, fault>>

\* set() returned true, or false, or has not returned.
Answer == {"stored", "failed", "none"}

Content == Object \cup {Empty, Garbage}

\* Places in set() where the process holds the flock() of the inode it opened.
Holding == {"locked", "truncated", "written", "failed"}

Readable(i) == i # None /\ content[i] \in Object

\* Mutant: a failed fopen() goes on with no descriptor.
OpenUncheckedInode == Inode \cup {None}

FreeInode == Inode \ ({data, tmp} \cup {fd[p] : p \in Proc})

TypeOK ==
  /\ data \in Inode \cup {None}
  /\ tmp \in Inode \cup {None}
  /\ content \in [Inode -> Content]
  /\ pc \in [Proc -> Holding \cup {"idle", "opened", "unlocked", "unlink"}]
  /\ fd \in [Proc -> Inode \cup {None}]
  /\ obj \in [Proc -> Object \cup {None}]
  /\ \A p \in Proc : pc[p] # "idle" => fd[p] \in Inode /\ obj[p] \in Object
  /\ view \in [Proc -> Object \cup {None}]
  /\ answer \in [Proc -> Answer]
  /\ overlap \in BOOLEAN /\ fault \in BOOLEAN

-----------------------------------------------------------------------------

\* The file was never stored, or an earlier run of the application stored it.
Init ==
  /\ data \in Inode \cup {None}
  /\ \E o \in Object : content = [i \in Inode |-> IF i = data THEN o ELSE Empty]
  /\ tmp = None
  /\ pc = [p \in Proc |-> "idle"]
  /\ fd = [p \in Proc |-> None]
  /\ obj = [p \in Proc |-> None]
  /\ view = [p \in Proc |-> None]
  /\ answer = [p \in Proc |-> "none"]
  /\ overlap = FALSE /\ fault = FALSE

\* get(): the stored object, or the caller's default when there is none or
\* it cannot be unserialized.
Get(p) ==
  /\ pc[p] = "idle"
  /\ view' = [view EXCEPT ![p] = IF Readable(data) THEN content[data] ELSE None]
  /\ UNCHANGED <<data, tmp, content, pc, fd, obj, answer, overlap, fault>>

\* fopen(<name>.tmp, "a"): the inode that has the name, or a new empty one.
Open(p, o) ==
  /\ pc[p] = "idle"
  /\ \E i \in IF tmp = None THEN FreeInode ELSE {tmp} :
       /\ tmp' = i
       /\ fd' = [fd EXCEPT ![p] = i]
       /\ content' = IF tmp = None THEN [content EXCEPT ![i] = Empty] ELSE content
  /\ pc' = [pc EXCEPT ![p] = "opened"]
  /\ obj' = [obj EXCEPT ![p] = o]
  /\ answer' = [answer EXCEPT ![p] = "none"]
  /\ overlap' = (overlap \/ \E q \in Proc : pc[q] # "idle")
  /\ UNCHANGED <<data, view, fault>>

\* fopen() fails, as on a full disk without a temporary file: set() returns false.
OpenFails(p) ==
  /\ pc[p] = "idle"
  /\ answer' = [answer EXCEPT ![p] = "failed"]
  /\ UNCHANGED <<data, tmp, content, pc, fd, obj, view, overlap, fault>>

\* p leaves set() with answer a: its descriptor is closed, and with it any lock
\* is released.
Return(p, a) ==
  /\ pc' = [pc EXCEPT ![p] = "idle"]
  /\ fd' = [fd EXCEPT ![p] = None]
  /\ obj' = [obj EXCEPT ![p] = None]
  /\ answer' = [answer EXCEPT ![p] = a]

FlockFree(i) == \A q \in Proc : fd[q] = i => pc[q] \notin Holding

\* rCache::flock() succeeds.
Flock(p) ==
  /\ pc[p] = "opened"
  /\ FlockFree(fd[p])
  /\ pc' = [pc EXCEPT ![p] = "locked"]
  /\ UNCHANGED <<data, tmp, content, fd, obj, view, answer, overlap, fault>>

\* rCache::flock() gave up after its last try: set() returns false.
FlockGivesUp(p) ==
  /\ pc[p] = "opened"
  /\ ~FlockFree(fd[p])
  /\ Return(p, "failed")
  /\ UNCHANGED <<data, tmp, content, view, overlap, fault>>

\* Mutant: the temporary file is appended to as it was found.
TruncateForgotten(p) ==
  /\ pc[p] = "locked"
  /\ pc' = [pc EXCEPT ![p] = "truncated"]
  /\ UNCHANGED <<data, tmp, content, fd, obj, view, answer, overlap, fault>>

Truncate(p) ==
  /\ pc[p] = "locked"
  /\ content' = [content EXCEPT ![fd[p]] = Empty]
  /\ pc' = [pc EXCEPT ![p] = "truncated"]
  /\ UNCHANGED <<data, tmp, fd, obj, view, answer, overlap, fault>>

\* The file was opened for appending: only an empty file becomes the object.
Write(p) ==
  /\ pc[p] = "truncated"
  /\ content' = [content EXCEPT ![fd[p]] = IF @ = Empty THEN obj[p] ELSE Garbage]
  /\ pc' = [pc EXCEPT ![p] = "written"]
  /\ UNCHANGED <<data, tmp, fd, obj, view, answer, overlap, fault>>

\* Mutant: the number of bytes written is not compared.
ShortWriteAccepted(p) ==
  /\ pc[p] = "truncated"
  /\ content' = [content EXCEPT ![fd[p]] = Garbage]
  /\ pc' = [pc EXCEPT ![p] = "written"]
  /\ fault' = TRUE
  /\ UNCHANGED <<data, tmp, fd, obj, view, answer, overlap>>

\* A short write or a failed flush, as on a full disk or an exhausted quota.
WriteFails(p) ==
  /\ pc[p] = "truncated"
  /\ content' = [content EXCEPT ![fd[p]] = Garbage]
  /\ pc' = [pc EXCEPT ![p] = "failed"]
  /\ fault' = TRUE
  /\ UNCHANGED <<data, tmp, fd, obj, view, answer, overlap>>

\* Mutant: the failure branch falls through to the rename.
UnlockThenRename(p) ==
  /\ pc[p] \in {"written", "failed"}
  /\ pc' = [pc EXCEPT ![p] = "unlocked"]
  /\ UNCHANGED <<data, tmp, content, fd, obj, view, answer, overlap, fault>>

\* flock(LOCK_UN) comes before the rename and before the unlink.
Unlock(p) ==
  /\ pc[p] \in {"written", "failed"}
  /\ pc' = [pc EXCEPT ![p] = IF @ = "written" THEN "unlocked" ELSE "unlink"]
  /\ UNCHANGED <<data, tmp, content, fd, obj, view, answer, overlap, fault>>

CloseFails(p) ==
  /\ pc[p] = "unlocked"
  /\ pc' = [pc EXCEPT ![p] = "unlink"]
  /\ fault' = TRUE
  /\ UNCHANGED <<data, tmp, content, fd, obj, view, answer, overlap>>

\* rename(): whatever inode has the temporary name by now becomes the file, and
\* set() returns true.
Rename(p) ==
  /\ pc[p] = "unlocked"
  /\ tmp # None
  /\ data' = tmp
  /\ tmp' = None
  /\ Return(p, "stored")
  /\ UNCHANGED <<content, view, overlap, fault>>

\* rename() fails, as it must when another process renamed or unlinked the
\* temporary file.  Its result is not looked at: set() returns true all the same.
RenameFails(p) ==
  /\ pc[p] = "unlocked"
  /\ Return(p, "stored")
  /\ UNCHANGED <<data, tmp, content, view, overlap, fault>>

\* unlink(<name>.tmp) after a failure, which may fail too: set() returns false.
Unlink(p) ==
  /\ pc[p] = "unlink"
  /\ tmp' \in {None, tmp}
  /\ Return(p, "failed")
  /\ UNCHANGED <<data, content, view, overlap, fault>>

\* remove()
Remove(p) ==
  /\ pc[p] = "idle"
  /\ data' = None
  /\ UNCHANGED <<tmp, content, pc, fd, obj, view, answer, overlap, fault>>

\* The process is killed inside set(); the temporary file stays behind.
Crash(p) ==
  /\ pc[p] # "idle"
  /\ Return(p, "none")
  /\ fault' = TRUE
  /\ UNCHANGED <<data, tmp, content, view, overlap>>

Next ==
  \E p \in Proc :
    \/ Get(p)
    \/ OpenFails(p) \/ \E o \in Object : Open(p, o)
    \/ Flock(p) \/ FlockGivesUp(p)
    \/ Truncate(p) \/ Write(p) \/ WriteFails(p)
    \/ Unlock(p) \/ CloseFails(p)
    \/ Rename(p) \/ RenameFails(p) \/ Unlink(p)
    \/ Remove(p)
    \/ Crash(p)

Spec == Init /\ [][Next]_vars

-----------------------------------------------------------------------------

\* A reader finds an unreadable file only after two set() calls overlapped:
\* a full disk or a killed process alone never damages the stored object.
TornOnlyByOverlap == data # None /\ ~Readable(data) => overlap

\* Overlapping set() calls may expose a half-written file, because the lock is
\* released before the rename; but once all of them returned and none failed,
\* the file holds one of the objects again.
SettlesReadable ==
  (\A p \in Proc : pc[p] = "idle") /\ ~fault /\ data # None => Readable(data)

\* The store as the rest of the application thinks of it.
Pending == [p \in Proc |-> IF pc[p] = "idle" THEN None ELSE obj[p]]

StoredValue == IF data = None THEN None ELSE content[data]

Store == INSTANCE AtomicStore WITH value <- StoredValue, pending <- Pending

\* Until two set() calls overlap, the file is one atomic register: a set() that
\* returned true has stored its object, one that returned false or was killed
\* has changed nothing, and a reader sees the last object stored.  A rename()
\* that fails is the one exception: set() returns true and the object is lost.
ImplementsStore ==
  /\ Store!StoreInit
  /\ [][\/ overlap'
        \/ \E p \in Proc : RenameFails(p)
        \/ Store!StoreNext]_(Store!storeVars)
=============================================================================
