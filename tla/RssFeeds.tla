------------------------------ MODULE RssFeeds ------------------------------
(***************************************************************************)
(* The list of feeds of the rss plugin and the errors that wait for the    *)
(* user (plugins/rss/rss.php, classes rRSSMetaList and rRSSManager), kept  *)
(* in one settings file.  It is the only stored object with a merge():     *)
(* rCache::set() calls it when the file was modified after the session     *)
(* had loaded it, by the modification time, which counts in seconds.       *)
(*                                                                         *)
(* A session is a PHP process: the scheduled update, which only adds       *)
(* errors; a web request, which may change the list and hands all errors   *)
(* to the user at its end; or the start of the plugin, which saves the     *)
(* list as it loaded it.  The write of the file is atomic here (see        *)
(* CacheFile); the merge and the write are two steps, and so are the read  *)
(* of the file and the question after its modification time.               *)
(***************************************************************************)
EXTENDS Naturals, Sequences, SequencesExt

CONSTANTS Proc,     \* PHP processes
          Feed,     \* feeds by hash
          MaxTime,  \* bound: the seconds that matter
          MaxErr    \* bound: the errors raised

ASSUME RssFeedsAssumption == MaxTime \in Nat /\ MaxErr \in Nat

VARIABLES now,       \* the second it is
          file,      \* the file "info"
          session,   \* what each process is doing
          raised,    \* history: how many errors were raised; they are numbered
          reported,  \* history: the errors the user got
          want,      \* history: the list as the requests of the user made it
          unseen,    \* history: a save was overwritten by a session that could not know of it
          clobber,   \* history: a session saved a list others had changed meanwhile
          fault      \* history: a process died or could not save

ghosts == <<raised, reported, want, unseen, clobber, fault>>
vars == <<now, file, session, ghosts>>

\* The entries of the list: no feed, or one that is enabled or not.
List == [Feed -> {"absent", "on", "off"}]

Error == 1..MaxErr

\* No file, and its modification time.
Never == MaxTime + 1

Time == 0..Never

Session == [pc       : {"none", "load", "work", "write"},
            kind     : {"update", "request", "start"},
            lst      : List,
            err      : Seq(Error),
            loaded   : 0..MaxErr,  \* loadedErrors
            modified : Time,       \* of the file, when it was asked after the load
            errorsOnly : BOOLEAN,  \* $mergeErrorsOnly of the save going on
            last     : BOOLEAN,    \* the session ends with this save
            base     : List,       \* history: the list as loaded or saved last
            fresh    : BOOLEAN]    \* history: nobody saved since the load or merge

TypeOK ==
  /\ now \in 0..MaxTime
  /\ file \in [lst : List, err : Seq(Error), mtime : Time]
  /\ session \in [Proc -> Session]
  /\ raised \in 0..MaxErr /\ reported \subseteq Error
  /\ want \in List
  /\ unseen \in BOOLEAN /\ clobber \in BOOLEAN /\ fault \in BOOLEAN

-----------------------------------------------------------------------------

NoFile == [lst |-> [f \in Feed |-> "absent"], err |-> << >>, mtime |-> Never]

\* What rCache::get() reads; without a file it asks for no modification time.
Loaded(kind) ==
  [pc |-> IF file.mtime = Never THEN "work" ELSE "load", kind |-> kind,
   lst |-> file.lst, err |-> file.err,
   loaded |-> Len(file.err), modified |-> Never, errorsOnly |-> FALSE,
   last |-> FALSE, base |-> file.lst, fresh |-> TRUE]

NoSession ==
  [pc |-> "none", kind |-> "update", lst |-> NoFile.lst, err |-> << >>,
   loaded |-> 0, modified |-> Never, errorsOnly |-> FALSE,
   last |-> FALSE, base |-> NoFile.lst, fresh |-> TRUE]

Init ==
  /\ now = 0
  /\ file = NoFile
  /\ session = [p \in Proc |-> NoSession]
  /\ raised = 0 /\ reported = {}
  /\ want = NoFile.lst
  /\ unseen = FALSE /\ clobber = FALSE /\ fault = FALSE

Active(p) == session[p].pc # "none"

\* isErrorsOccured(): errors were added since the load or the last save.
NewErrors(s) == SubSeq(s.err, s.loaded + 1, Len(s.err))

\* Mutant: the list is never taken from the file.
ErrorsMerged(s) ==
  [s EXCEPT !.err = file.err \o NewErrors(s)]

\* merge()
Merged(s) ==
  [s EXCEPT !.err = file.err \o NewErrors(s),
            !.lst = IF s.errorsOnly THEN file.lst ELSE @]

\* Mutant: the file counts as modified only a second later.
ModifiedLater(s) == s.modified # Never /\ s.modified + 1 < file.mtime

\* The test of rCache::set(); an object that was not loaded has no "modified".
ModifiedSince(s) == s.modified # Never /\ s.modified < file.mtime

\* saveState() as far as the merge, by process p in the state s.
Save(p, s, errorsOnly, last) ==
  LET saved == [s EXCEPT !.pc = "write", !.errorsOnly = errorsOnly, !.last = last,
                         !.fresh = TRUE]
  IN /\ session' = [session EXCEPT ![p] = IF ModifiedSince(s) THEN Merged(saved) ELSE saved]
     /\ unseen' = (unseen \/ (~s.fresh /\ s.modified \in {Never, file.mtime}))

\* Mutant: the errors are counted from the next place on.
CountedFromOne(s) == [s EXCEPT !.pc = IF s.last THEN "none" ELSE "work",
                               !.loaded = Len(s.err) + 1, !.base = s.lst]

\* Mutant: what was saved is not noted.
ErrorsNotReset(s) == [s EXCEPT !.pc = IF s.last THEN "none" ELSE "work", !.base = s.lst]

\* The session goes on after the save; resetErrors() comes in any case.
Saved(s) == [s EXCEPT !.pc = IF s.last THEN "none" ELSE "work",
                      !.loaded = Len(s.err), !.base = s.lst]

\* The rest of saveState(): the file is replaced.
Write(p) ==
  LET s == session[p]
  IN /\ s.pc = "write"
     /\ file' = [lst |-> s.lst, err |-> s.err, mtime |-> now]
     /\ session' = [q \in Proc |->
          IF q # p THEN [session[q] EXCEPT !.fresh = ~Active(q)]
          ELSE IF s.last THEN NoSession ELSE Saved(s)]
     /\ want' = IF s.kind = "request" THEN s.lst ELSE want
     /\ clobber' = (clobber \/ (~s.errorsOnly /\ s.base # file.lst))
     /\ unseen' = (unseen \/ ~s.fresh)
     /\ UNCHANGED <<now, raised, reported, fault>>

\* The temporary file cannot be opened, locked or written, or not be renamed.
WriteFails(p) ==
  LET s == session[p]
  IN /\ s.pc = "write"
     /\ session' = [session EXCEPT ![p] = IF s.last THEN NoSession ELSE Saved(s)]
     /\ fault' = TRUE
     /\ UNCHANGED <<now, file, raised, reported, want, unseen, clobber>>

-----------------------------------------------------------------------------

\* The constructor of rRSSManager: rCache::get() reads the file.
Start(p, kind) ==
  /\ ~Active(p)
  /\ session' = [session EXCEPT ![p] = Loaded(kind)]
  /\ UNCHANGED <<now, file, ghosts>>

\* And takes the modification time of what may be another file by now.
Stat(p) ==
  /\ session[p].pc = "load"
  /\ session' = [session EXCEPT ![p].pc = "work", ![p].modified = file.mtime]
  /\ UNCHANGED <<now, file, ghosts>>

\* A feed or a torrent cannot be fetched, or the request is wrong: addError().
Raise(p) ==
  /\ session[p].pc = "work" /\ session[p].kind # "start"
  /\ raised < MaxErr
  /\ raised' = raised + 1
  /\ session' = [session EXCEPT ![p].err = Append(@, raised + 1)]
  /\ UNCHANGED <<now, file, reported, want, unseen, clobber, fault>>

\* add(), remove(), change(), toggleStatus(), setStatusGroup().
Edit(p, lst) ==
  /\ session[p].pc = "work" /\ session[p].kind = "request"
  /\ Save(p, [session[p] EXCEPT !.lst = lst], FALSE, FALSE)
  /\ UNCHANGED <<now, file, raised, reported, want, clobber, fault>>

\* update() has visited the feeds.
EndUpdate(p) ==
  /\ session[p].pc = "work" /\ session[p].kind = "update"
  /\ Save(p, session[p], TRUE, TRUE)
  /\ UNCHANGED <<now, file, raised, reported, want, clobber, fault>>

\* setHandlers(), by init.php or to change the interval.
EndStart(p) ==
  /\ session[p].pc = "work" /\ session[p].kind = "start"
  /\ Save(p, session[p], FALSE, TRUE)
  /\ UNCHANGED <<now, file, raised, reported, want, clobber, fault>>

End(p, save, s) ==
  IF save THEN Save(p, s, FALSE, TRUE)
  ELSE session' = [session EXCEPT ![p] = NoSession] /\ UNCHANGED unseen

\* The answer with all errors is sent and these are cleared.
Report(p) ==
  LET s == session[p]
  IN /\ s.pc = "work" /\ s.kind = "request"
     /\ reported' = reported \cup ToSet(s.err)
     /\ End(p, s.err # << >>, [s EXCEPT !.err = << >>])
     /\ UNCHANGED <<now, file, raised, want, clobber, fault>>

\* The browser is gone before it got the answer: connection_aborted().
Aborted(p) ==
  LET s == session[p]
  IN /\ s.pc = "work" /\ s.kind = "request"
     /\ End(p, NewErrors(s) # << >>, s)
     /\ UNCHANGED <<now, file, raised, reported, want, clobber, fault>>

\* The process is killed.
Crash(p) ==
  /\ Active(p)
  /\ session' = [session EXCEPT ![p] = NoSession]
  /\ fault' = TRUE
  /\ UNCHANGED <<now, file, raised, reported, want, unseen, clobber>>

Tick ==
  /\ now < MaxTime
  /\ now' = now + 1
  /\ UNCHANGED <<file, session, ghosts>>

Next ==
  \/ \E p \in Proc :
       \/ \E kind \in {"update", "request", "start"} : Start(p, kind)
       \/ Stat(p)
       \/ Raise(p)
       \/ \E lst \in List : Edit(p, lst)
       \/ EndUpdate(p) \/ EndStart(p)
       \/ Report(p) \/ Aborted(p)
       \/ Write(p) \/ WriteFails(p)
       \/ Crash(p)
  \/ Tick

Spec == Init /\ [][Next]_vars

-----------------------------------------------------------------------------

\* The errors only process p knows of.
Unsaved(p) ==
  IF session[p].pc = "write" THEN ToSet(session[p].err) ELSE ToSet(NewErrors(session[p]))

\* No error is dropped before the user got it, whatever sessions overlap: it is in
\* the file or a session will still save it.  This takes processes that live and
\* can save, and saves told apart by their second.
ErrorsKept ==
  fault \/ unseen \/
    1..raised \subseteq reported \cup ToSet(file.err) \cup UNION {Unsaved(p) : p \in Proc}

\* No error is stored twice, though a session saves more than once and merges with
\* what it saved itself.
ErrorsOnce == \A i, j \in DOMAIN file.err : file.err[i] = file.err[j] => i = j

\* The list is as the user's requests made it; the scheduled update, which holds an
\* old copy for as long as it fetches, never undoes a request.
ListKept == clobber \/ unseen \/ file.lst = want
=============================================================================
