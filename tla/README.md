# A TLA+ model of quick-box: the ruTorrent backend and xmlrpc-c

quick-box installs a seedbox: rTorrent, the ruTorrent web interface with its
plugins, a dashboard, and the library xmlrpc-c that rTorrent is built with.  Two
parts of the repository keep state under concurrency and failures, and this
project models both:

* the PHP backend of ruTorrent (`src/rutorrent/php`) and of its plugins
  (`src/plugins`): the store every plugin keeps its settings in, the lock that
  scheduled scripts use, and the plugins with protocols of their own;
* xmlrpc-c 1.33.12 (`src/xmlrpc-c_1-33-12`), which the installer
  builds and installs: the values that every program of the library passes
  around, rTorrent included, its server, and its client (built where libcurl
  is found).

Contents: [inventory](#inventory) · [hard behaviours](#what-is-hard) ·
[modules](#modules-and-the-code) · [runs](#runs) · [fairness](#fairness) ·
[proofs](#proofs) · [limits](#what-is-not-modelled) · [plan](#plan)

To check: `tlc -config <run>.cfg <module>` for each run of `PROJECT.json`, and
`tlapm <module>.tla` for each module whose name ends in `Proofs`.

## Inventory

In the PHP part there is no server process of its own.  rTorrent is the only
long-lived process.  All PHP code runs in short processes of three kinds, which
know nothing of each other:

* **web requests**, one process each, several at a time;
* **scheduled scripts** (`update.php` of a plugin), started by rTorrent every
  few minutes with `execute={sh,-c,... & exit 0}`, whether or not the last
  one has ended;
* **event scripts**, started by rTorrent when a torrent is added, finished or
  erased.

They interact through settings files (class `rCache`), lock files (class
`rLock`), torrents and their custom fields in rTorrent (XML-RPC requests, class
`rXMLRPCRequest`), and calls between plugins (`pushEvent`).

| Component | State | Operations | What makes it correct |
|---|---|---|---|
| settings store `php/cache.php` | a file and a temporary file per object | `set`, `get`, `remove` | a reader sees a whole object; a failed store changes nothing |
| script lock `php/lock.php` | a lock file and its age | `obtain`, `lock`, `release` | one run at a time; never stuck |
| rss: history `plugins/rss/rss.php` | what happened to each item, when each filter was applied | update, refresh, set filters, load, mark, clear | each wanted item is loaded, and once |
| rss: feed list | feeds, errors that wait for the user | add, change, remove, toggle, update, report | no error lost or doubled, no request undone |
| scheduler `plugins/scheduler` | schedule, lists of torrents it stopped | apply by the hour, set | it starts what it stopped and nothing else |
| plugin loader, events `php/getplugins.php`, `php/settings.php` | registered plugins and hooks | load, register, push event | each hook runs once |
| adding torrents `php/rtorrent.php`, `addtorrent.php` | torrents in rTorrent | sendTorrent, sendMagnet | - |
| datadir, retrackers, rutracker_check, edit | a torrent that is erased and sent again | replace | the torrent is never lost |
| erasedata | lists of files to delete | event, scheduled deletion | only files of erased torrents go |
| history, trafic | a log; counters | append; accumulate | nothing lost, nothing counted twice |
| _task, unpack, autotools | task directories, moves on completion | start, check, kill, clean | every task ends and is cleaned once |
| httprpc | lists sent to each client | list differences | a client's view follows rTorrent |
| ratio, extratio, throttle | groups and rules in rTorrent | set, apply | configuration and rTorrent agree |
| extsearch, loginmgr, cookies, rssurlrewrite, filemanager, viewers | little | scraping, shell commands | out of scope |
| installer, commands, dashboard | the machine | run once | out of scope |
| xmlrpc-c: client `xmlrpc_client.c`, `lib/curl_transport` | handles of a multi manager, call infos, a flag | start, finish the event loop, call, interrupt | each RPC is delivered once, and none is forgotten |
| xmlrpc-c: server `lib/abyss/src` | a list of connections, a thread for each, a flag | run, accept, serve, terminate | nothing is freed under a thread; the limit holds; it ends |
| xmlrpc-c: values `xmlrpc_data.c`, arrays, structs | reference counts, contents | create, share, read, change, release | no dangling reference, no leak |
| xmlrpc-c: parsers, codecs, registry, HTTP, CGI, C++, tools | data | translate | sequential, left to tests |
| JavaScript, themes | user interface | - | out of scope |

xmlrpc-c is a library of threads in one process.  Several threads may share a
client and work in its event loop; the server has a master thread and a thread
for each connection; values are shared by all of them.  They interact through
memory: counts with a lock each, a list and flags without any, and pipes and
signals that interrupt a wait.  The repository also holds version 1.39.07,
which nothing builds.

`PROJECT.json` lists every component with its files and status.

## What is hard

It comes from processes and threads that overlap, die, or talk to something that
may not answer.  `PROJECT.json` lists the hazards line by line; the groups are:

* *Whole-file saves.*  A process loads an object, works for minutes, and stores
  the whole object.  Only the feed list has a `merge()`, decided by a time
  stamp in whole seconds.
* *Files by name.*  `set()` gives its lock up before it renames the file it
  wrote, and readers take no lock.
* *Test, then act.*  Locks are tested and taken in two calls.
* *rTorrent may not answer*, may have done part of what was asked, or all of it
  without the answer arriving.
* *The user acts meanwhile*: starts and stops torrents, changes filters and
  schedules, clears the history.
* *Crashes* between a change in rTorrent and the save that records it.
* *Progress*: every item under a paced filter, every stopped torrent and every
  abandoned lock has to get its turn.
* *Threads that hand over* (xmlrpc-c): who frees a call info, a connection, a
  channel or a value, when several threads could; what was counted before a
  callback and used after it; a wait that an interruption does not reach.

The PHP code gives no guarantee against most of these, so the properties say
exactly how far its promises reach.  Each of its modules records, in history
variables that no guard reads, what a session could not have known (`overlap`,
`raced`, `overrun`, `lost`, `unseen`, `conflict`, `clobber`) and what failed
(`fault`); the properties say that nothing **but** these breaks the promise.
This is stronger than it looks: it says, for example, that a full disk or a
killed process *alone* never damages a settings file, that a run killed with the
lock held never leads to two holders, and that an update that overlaps with any
number of requests never undoes one of them.

## Modules and the code

| Module | Models | Notes |
|---|---|---|
| `CacheFile` | `php/cache.php` | names refer to inodes; each system call of `set()` is a step |
| `AtomicStore` | what callers assume of `rCache` | one register: `Read`, `Begin`, `Commit`, `Refuse`, `Die`, `Delete`, each store with its answer |
| `UpdateLock` | `php/lock.php` | test, touch, release; ages in ticks |
| `RssHistory` | `rss.php`: `rRSSHistory`, the filters, the sessions of `rRSSManager` | files are atomic values |
| `RssFeeds` | `rss.php`: `rRSSMetaList`, `rss/action.php`, the merge in `cache.php` | merge and write are two steps |
| `Scheduler` | `plugins/scheduler` and the requests it sends | rTorrent's views are sets of torrents |
| `RpcClient` | `xmlrpc_client.c`, `lib/curl_transport` | each call of libcurl is a step, under its lock |
| `RpcPromise` | what a program expects of the client | accepted, delivered, settled; or refused |
| `AbyssServer` | `lib/abyss/src`: server, connections, channels | the master's walk of its list is step by step |
| `ConnPool` | what the user of a server expects of a run | a bounded pool, empty at the end |
| `Values` | `xmlrpc_data.c`, `xmlrpc_array.c`, `xmlrpc_struct.c` | reading an item and counting it are two steps |
| `MC...` | constants, symmetry and specifications for TLC | |
| `...Proofs` | theorems | |

**CacheFile.**  `data` and `tmp` are the inodes called `<name>` and
`<name>.tmp`; a process in `set()` keeps the inode it opened in `fd`, so it may
still write to an inode another process has renamed to `<name>`.  Steps, in the
order of the code: `Open` (line 40), `Flock` or `FlockGivesUp` (43), `Truncate`
(45), `Write` or `WriteFails` (47), `Unlock` (49, 61), `CloseFails` (50),
`Rename` or `RenameFails` (52), `Unlink` (57, 63), and the return with its
`answer`; `OpenFails` is the return at once.  `set()` does not look at what
`rename()` returned, so `RenameFails` answers *stored* like `Rename`.  An object
is a model value; `Garbage` is anything `unserialize()` rejects, and the file is
opened for appending, so a write to a non-empty file gives garbage.  `Store` is
the refinement mapping to `AtomicStore`: the stored value is the content of
`data`, and the answers are the same.  `ImplementsStore` excepts the step of
`RenameFails`, after which true stands for an object that was not stored.

**UpdateLock.**  `Test` is the condition of line 26, `Touch` its second half,
`Release` lines 30-37 and the destructor.  A run that fails the test ends, so
it leaves no trace.  Ages above `LockTime` are one age, because the code only
compares with the lock time.

**RssHistory.**  A session is a PHP process with its copies of the history and
of the filters.  `FetchOK`, `FetchFails`, `CachingFails` and `UseCached` are
the outcomes of fetching a feed; `LoadItem` is one round of `checkFilters()`
with the torrent loaded or not; `FinishFeed` and `Finish` contain the saves
(`updateRSS()` saves after each feed, everything else at its end).  Edits by
the user load, change and save the history in two steps.  What a filter accepts
is a constant; time is "recent" or "elapsed" per filter, as only the interval
is compared.  `saveHistory()` marks the copy as saved and drops the result of
`set()` (1292-1293), so `SaveHistory` may store nothing, and nobody knows.
`got` and `applied` are what the history owes a record of: the loads, each with
its timestamp, and the uses of filters.  They follow what happens outside the
history (what was sent, what the user asked, what the feeds serve), and never
what a session's copy became.  What a session has done since its last save is
`loads` and `uses`; when it is killed, or its save fails, that is forfeited, and
nothing else.  A record is also not owed of what the user cleared, of an item
fetched with another timestamp, or of one no feed lists when the history
overflows.

**RssFeeds.**  A session loads the file in the two steps of `rCache::get()`, the
content (`Start`, line 74) and its modification time (`Stat`, 91), raises
errors, edits the list if it is a request, and ends by saving.  `Save` is
`saveState()` down to the merge, `Write` the rest.  Errors are numbered in the
order they are raised.  `Report` and `Aborted` are the two ends of a request.

**Scheduler.**  `Apply` picks the branch for the hour; `Query`, `Stop`,
`Start`, `SetSpeed` are its requests in the order of the code, each with the
outcomes *ok*, *refused* (not received) and *unanswered* (done, answer lost); a
request also fails when one of its torrents has been erased, and is reported
as failed when it had no commands.  The three restricted modes differ only in
numbers and are one mode.

**RpcClient.**  `StartRpc` is `xmlrpc_client_start_rpc()`, which the program or
a completion function may call; `StartRefused` its failures, after which the
start itself destroys the call info.  `Perform`, `GetMessage`, `RemoveHandle`,
`EndCompletion`, `Again` and `Return` are `finishCurlMulti()` in the order of
the code; each takes the lock of the multi manager once, so other threads come
between them.  `left` is the number of running handles as `Perform` found it,
used by `Again` and `Return` after the completion functions have run.  Between
`RemoveHandle` and `EndCompletion` the thread is in the user's completion
function.  `Call`, `EndCall`, `ReturnCall` are the synchronous call, whose own
multi manager only the holder of the lock works for; `CallRefused` is one whose
RPC cannot be built or added to it.  `watched` are the RPCs
created with a progress function: only these see the interrupt flag.  The call
info is `alive`, `freed`, or `spoilt` when it is destroyed twice or never was.
That happens: when `callInfoCreate()` fails (868-887) it frees what it has made,
or has made nothing, and `xmlrpc_client_start_rpc()` destroys the call info once
more (1057).  `InfoKept` says that no RPC that was accepted meets this.

**AbyssServer.**  `main` is the master in `serverRun2()`; `left` and `at` are
its walk of the list of connections, which it does to free the finished ones
(`PassBy`, `Unlist`, `Release`) and, at the end, to interrupt the others
(`Ignore`, `Aim`, `Strike`).  A connection is a `TConn` (`conn`), a channel and
a thread, destroyed by different parties: the channel by the thread when it
leaves, the `TConn` by the master once it has joined the thread.  The thread
runs from `Create` on, before `Add` puts it in the list.  The wait for a client
may be interrupted by the switch's pipe or by a signal, with clients in the
queue or without (`AcceptInterrupted`).  `Strike` writes a
byte into a channel that may be gone by then.  `ServerTerminate()` is the two
steps `RequestTermination` and `InterruptSwitch`.  A run that fails (`RunFails`)
leaves its connections `abandoned`.  `Phase` is the refinement mapping to
`ConnPool`.

**Values.**  `ref` is one function from all places that hold a reference, in
threads and in containers, to values; `count` is kept beside it as the code
keeps it.  `Read` takes a pointer out of a container and `Take` counts it, as
`xmlrpc_array_read_item()` does; other threads come between.  `Put` keeps the
old item in the place `Temp`, from which it is released last, as
`changeMemberValue()` does; storing the new item and counting it
(`xmlrpc_struct.c:472-473`) are one step, between which the rule below lets no
other thread look.  `Release` by the last holder makes a value
`dying`; `ReleaseItem` and `Free` are `destroyValue()`.  Its guard that nobody
else refers to a container that is modified is the rule of the comment at
`xmlrpc_data.c:22`; the code does not enforce it.

## Runs

| Run | Instance | Checks |
|---|---|---|
| `cache` | 2 processes, 4 inodes, 2 objects | `TypeOK`, `TornOnlyByOverlap`, `SettlesReadable`, `ImplementsStore` |
| `lock_runs` | 4 runs, lock time 2, fairness | `TypeOK`, `Exclusive`, `TakenOver` |
| `rss_concurrent` | 2 sessions, 1 feed, 1 item, 2 timestamps, 1 unpaced filter | `TypeOK`, `LoadsRemembered`, `NoSecondLoad` |
| `rss_sequential` | 1 session at a time, 2 items, 2 timestamps, an hourly filter, history limit 1 | `LoadsRemembered`, `PacingRemembered`, `NotTooOften` |
| `rss_liveness` | 1 session at a time, 2 items, 2 timestamps, an hourly filter and one that loads once, history limit 0, fairness | `AlwaysServed` |
| `rss_feeds` | 2 sessions, 1 feed, 2 errors, 2 seconds | `TypeOK`, `ErrorsKept`, `ErrorsOnce`, `ListKept` |
| `scheduler_restore` | 2 sessions, 1 torrent, 2 hours of which one is set anew to any mode, fairness | `TypeOK`, `ListsExact`, `RateMatchesLists`, `Restored`, `StartsOnlyOwn` |
| `rpc_client` | 2 threads, 2 RPCs, fairness | `TypeOK`, `InfoKept`, `FinishDelivers`, `ImplementsPromise`, `ArrivedCompletes`, `InterruptEnds` |
| `rpc_finish` | 1 thread, 2 RPCs | `FinishFinishesAll`: violated |
| `abyss` | 2 connections, limit 1, 2 requests each, fairness | `TypeOK`, `ThreadsSound`, `TerminationEnds`, `ClientsServed`, `ImplementsPool` |
| `abyss_shutdown` | 1 connection, 1 request, fairness | `TerminationEnds`: violated |
| `values` | 2 threads, 2 values, 2 places, fairness | `TypeOK`, `NoDangling`, `Counted`, `AllFreed` |

What they show:

* *Settings store.*  Short of overlapping stores, every failure leaves the
  stored object readable, and callers that take turns see an atomic register:
  true means stored, false means unchanged.  Only a failing `rename()` breaks
  this, since `set()` returns true all the same.
  Overlapping stores do expose half-written files, but once all have returned
  without a failure the file is an object again.
* *Lock.*  Two holders need a race of two tests or a holder beyond the lock
  time.  As long as there is a run left that does not hang, runs go on taking
  the lock, however many were killed or hang with it.
* *rss history.*  A load, or the use of a filter, is forgotten only through a
  save over another session's, or by a session that is killed or whose save
  fails, of what it had not saved yet.  An item that is owed a record is loaded
  a second time, and a filter applied too early, only after such a save over
  another, or by a session that another one interfered with.  Every item that
  stays wanted is loaded as it was last published or given up after its
  failures, as long as saves succeed.  When the history was not saved after a
  republished feed was cached, further answers are 304, `correct()` is not
  called for the cached feed, and the old entry keeps the item from being loaded
  until the feed changes: this is why `AlwaysServed` assumes saves that succeed.
* *rss feeds.*  The merge keeps errors and requests through any overlap that the
  time stamps show.  It cannot see a save within the same second, one after the
  session found no file, one between its merge and its write, or one between its
  reading of the content and of the modification time, which then is that of the
  newer file; these are `unseen`.  Of the saves it can see, only a request or
  the start of the plugin overwrites another's change of the list (`clobber`),
  never an update.
* *scheduler.*  The lists are exact until two sessions interleave or a request
  fails.  The exception the properties make is the set `again`: torrents the
  scheduler stopped while it still listed them, which the user must have started
  in between.  One that was listed as a leech and has completed is then on both
  lists, and a seed-only hour removes it from one only.  What the user does to a
  torrent that the scheduler stopped changes nothing in its lists: it will be
  started again even if the user has stopped it since, and the properties count
  it as the scheduler's own.  `Restored` holds for overlapping sessions until
  one acts on lists that are not the latest (`conflict`), and not beyond.
* *xmlrpc-c client.*  Every RPC that was accepted is delivered at most once,
  whichever threads work in the event loop, and at least once when the network
  says something or the interrupt flag reaches it; the call info of such an
  RPC is there until its completion function has returned, and is freed once.
  An event loop without a timeout delivers what was outstanding when it was
  entered, except what another thread is just completing.
* *xmlrpc-c server.*  No connection is freed under its thread although nothing
  is locked; at most the permitted number is in use, and those that wait get
  their turn; a terminated run returns, with every connection freed, when
  clients take their responses, whatever the order of interruption and work.
* *xmlrpc-c values.*  As long as nobody modifies what others use, a pointer
  read and not yet counted never dangles, and everything but circles is freed.

Two runs find what a comment says and the code does not do:

* `rpc_finish`.  `finishAsynch()` says it waits for all outstanding RPCs
  (`xmlrpc_curl_transport.c:1462`).  `doCurlWork()` counts the running handles
  before it calls the completion functions (line 587), so when the last RPC
  completes and its completion function starts another, the loop returns with
  that one outstanding.  A program that calls the loop once to wait for a chain
  of RPCs misses the later ones.  `FinishDelivers` is what does hold.
* `abyss_shutdown`.  `interruptChannels()` says it gets every thread that waits
  to read a request "or write a response" to stop waiting (`server.c:1067`).
  Only waiting to read looks at the interrupt pipe; `channelWrite()` waits in
  `send()` (`socket_unix.c:187`).  A client that leaves its response unread and
  the connection open keeps the run from ending.

Bounds.  Two sessions are enough for every conflict of a load and a save, since
a conflict has two parties and the sessions have no other shared state; the
lock needs a third run to enter after a foreign `release()`.  Two items make a
filter pause between them, and make a history of limit 1 overflow.  Two
seconds tell a save in the same second from a later one, two errors make an
order and a duplicate possible.  Two hours of which one is at full speed
and the other, the night, is set anew (`SpecOfNights`) are any sequence of hours
to the scheduler, which looks at the current one only.  Two timestamps let an
item be published again; where there are two items, only one of them is
(`SpecOneRepublished`).  Two threads and
two RPCs make one thread complete what the other started, and a completion
function start a second RPC while the first is delivered.  Two clients with
room for one make the server full; two requests tell a connection that is kept
from one that is closed.  Two values make containers in containers, circles,
and memory that is used again while another thread still reads.  `MaxTry` is
small because it is only compared with a counter.  Bounds in guards:
`MaxStamp` in `Republish`, `MaxTry` in `LoadAsked`, `MaxErr` in `Raise`,
`MaxTime` in `Tick`, and the ages of `UpdateLock` stop just above `LockTime`.
`KeepMax` and `MaxConn` are parameters of the code.

Some runs follow a behaviour only as far as the properties say something of it,
and stop before the step that makes them vacuous: `SpecSameHour` (a lost save),
`SpecUntilUnseen` (an unseen save), the constraint `Calm` of the scheduler (a
failed request, a crash or a conflict, which every property of the scheduler but
the typing excepts).  Where the specification itself stops, the configuration
switches the deadlock check off.  `scheduler_restore` has two constraints for
its size: at most two schedules are about at a time, in the file and in sessions
(`TwoSchedules`), and while two sessions overlap no torrent is ignored or
missing (`PlainOverlap`); the theorems about `ListsExact`, `RateMatchesLists`
and `StartsOnlyOwn` need neither, while `Restored` is checked within them only.
`SpecSameHour` also leaves `HoursPass` out, as its filter has no pacing, and
keeps what the feeds list; the other rss runs have both.  `values` runs without
the deadlock check because a program may leak all of its memory in circles,
after which the model has nothing left to do.  All other runs check for
deadlock.  `rss_liveness` leaves crashes and failing saves out (`Calm`): a
process that is killed each time, or cannot save, loads nothing that lasts.
Refreshes and manual loads are left out of it too (`FairSpecOneRepublished`),
and its filters accept the first item only, so that the second one makes the
history overflow and leaves it again.  It has the limit 0: every entry of an
item that leaves the feeds is dropped at the next save.

## Fairness

* `TakenOver`: time passes (`WF(Tick)`), rTorrent keeps starting the script
  (`WF(\E p : Test(p))`), and a run that found the lock free goes on to take it
  unless it is killed each time (`SF(\E p : Touch(p))`).  A holder is not fair:
  it may hang for ever, which is the point, and as the model has a fixed set
  of runs the property asks that one of them is idle again and again.
* `AlwaysServed`: hours pass, rTorrent starts the update again and again
  (`SF`, because another session may occupy the model's process), a session
  that is not killed works on, and fetching a feed succeeds if updates try it
  again and again (`SF`): a server that is down for ever is excluded.  Nothing
  is assumed of loading torrents, which may always fail.
* `Restored`: rTorrent keeps starting `update.php` and a session works on.  The
  property assumes that no request fails and no session acts on lists that are
  out of date, since the code forgets what it stopped in both cases.
* `ArrivedCompletes`, `InterruptEnds`: threads go on with what they do
  (`WF(Work)`), and the program enters the event loop without a timeout again
  and again (`WF(Finish(t, "no"))`), as the documentation of the library asks
  of programs that start RPCs.  Nothing is assumed of the network: a server may
  never answer, and then only the interrupt flag ends its RPC.
* `TerminationEnds`, `ClientsServed`: the master and the threads go on
  (`WF(MasterWork)`, `WF(ThreadWork)`), a byte in the switch's pipe wakes the
  master when no client waits, signals do not interrupt every one of its waits
  for a client (`SF(Accept)`), and `ServerTerminate()` gets to its second step.
  A keepalive time runs out (`WF(~Ending /\ ReadStops)`) while clients are
  served; it is not counted on once the master has begun to interrupt the
  connections, or the interruption would have nothing to prove.  `FairSpec`
  assumes of writing a response only that it fails when the client has closed
  the connection; `ReadersSpec` that clients take their responses.  Nothing is
  assumed of clients connecting, sending or closing.
* `AllFreed`: a thread that has begun to destroy a value goes on.

## Proofs

TLAPS checks these for every value of the constants.

* **CacheFileProofs.**  `TypeCorrect`; `OnlyOverlapTears`: the invariant says
  that without overlap at most one process is in `set()`, it holds the inode
  called `<name>.tmp`, that inode is not `<name>`, and after `Truncate` and
  `Write` it is empty and then the object; so no step but the rename touches
  `<name>`, and that brings a whole object.  `SerialImplementsStore`: with the
  same invariant each step before the first overlap is a step of `AtomicStore`
  or a stutter, answers included; only a `rename()` that fails is neither, and
  the statement says so.  `OverlapSettles` (`SettlesReadable`) is about what that
  invariant excludes, stores that do overlap: `OverlapInv` says that each of the
  two names refers to an inode that holds an object or that some process has
  open and has yet to write, and that the one holder of an inode's lock finds it
  empty after `Truncate` and whole after `Write`.  The processes with an inode
  open truncate and write it one after the other, whichever name it has by then.
* **UpdateLockProofs.**  `LockTypeCorrect`; `LockExcludes`: without race and
  overrun a holder's own age (`held`) is that of the file and at most the lock
  time, so no test succeeds while there is a holder, and at most one run is
  between test and touch, with no holder.
* **SchedulerProofs.**  `SchedulerTypeCorrect`, `SchedulerListsExact`,
  `SchedulerStartsOwn`: `ListInv` says that the object of every session
  that is up to date is exact and has on both lists only torrents of `again`,
  and that so has the file, unless such a session is about to change it.
  `ListsExact` alone is not inductive: that a start of the seeds leaves no
  leech listed that it started rests on the part about both lists.
  `SchedulerRateMatches` (`RateMatchesLists`): limits and lists change in two
  steps of a session, `SetSpeed` and `Store`, so the invariant `SpeedInv` says
  that the lists of a session fit the mode it is about to set, then the mode
  that is set; that the file fits unless a session at `Store` is to replace it
  by other lists; and that as long as all sessions are up to date, two of them
  have the lists of the file, so that at most one has others to bring.  The
  theorem is for any number of sessions.  `Restored` has no theorem.
* **RssFeedsProofs.**  `FeedsKeepErrors`, `FeedsKeepList`: the invariant says
  that no session's time stamp is newer than the file's, that a session
  nobody has saved behind (`fresh`), whether or not it has asked for the time
  stamp yet, holds every error of the file or has
  reported it, that an update that is fresh holds the file's list, that the
  start of the plugin never changes its list, and that only updates save with
  `$mergeErrorsOnly`.  `SaveStep` is the heart: a session that does not merge
  is fresh, or its save is unseen.  `FeedsTypeCorrect`, `FeedsStoreOnce`
  (`ErrorsOnce`): `OnceInv` says that the errors a session has added since its
  last save are in neither the file nor another session, so that the merge,
  which puts them behind those of the file, adds none twice.  It needs no
  exception: neither failing writes, crashes nor saves the time stamps hide
  break it.
* **RssHistoryProofs.**  `HistoryTypeCorrect`, `HistoryLoadsRemembered`,
  `HistoryPacingRemembered`, `HistoryNoSecondLoad`, `HistoryNotTooOften`: one
  invariant carries all but the first, and says the same of items and of filters
  (`Kept`).  All that is owed a record is in the file or among what some session
  has done since its last save (`Brought`); and for every session that has
  missed no save (`Current`) it is in that session's own copy or brought. The
  second half makes a save harmless: the copy that replaces the file lacks only
  what other sessions will still bring, and these are then out of date, so their
  own saves count as `lost`.  `LoadsRemembered` alone is not inductive, as it
  does not ask that of the session that saves; and not every session with
  changes will save them, as `updateRSS()` saves after a feed and not at its end
  (`Saves`).  `LocalStep` is a step of one session that leaves the file alone
  and drops from its copy nothing that is still owed (`Honest`); the lemmas
  about the actions show that of each, of `correct()`, the pruning and
  `removeOldFilters()` too.  `NothingStored` is a save that fails, `SaveStep`
  one that does not. `NoSecondLoad` and `NotTooOften` are the second half read
  the other way: what a current session finds unrecorded is not owed a record or
  another session has it unsaved.  Typing rests on `SoundEntry`: an item without
  a record has no failures counted, so an item that is tried was below the
  limit.

* **RpcClientProofs.**  `RpcTypeCorrect`, `CallInfoKept`, `LoopDelivers`,
  `RpcImplementsPromise`: the invariant says who owns an RPC.  A message is
  taken by one thread, which alone takes the RPC on, so `msg` is injective; the
  RPC on the synchronous session is that of the holder of the lock; an RPC that
  is done has an outcome; a call info is alive while its RPC is outstanding; and
  `owed` holds only RPCs that have been started, of which none is running once
  the loop has counted no running handle (`OwedStarted`).  That last part stays
  true because an RPC never starts to run a second time, and it is what an RPC
  started after the count escapes.
* **AbyssServerProofs.**  `AbyssTypeCorrect`, `ThreadsStaySound`,
  `AbyssImplementsPool`: the invariant (`ListInv`, `OwnerInv`, `PartsInv`) says
  that the count is the size of the list, that every allocated connection is
  owned by exactly one of the list, the master and a failed run, and how far
  channel, thread and `TConn` of a connection are.  `ThreadsSound` alone is not
  inductive: that the master frees only what has been joined rests on the
  owner, and that no second list holds it.
* **ValuesProofs.**  `ValuesTypeCorrect`, `NothingDangles`, `CountsExact`: the
  places that refer to a value are a set of slots, and each step adds a slot to
  one such set or removes one (`GainKeeps`, `LoseKeeps`); the count is its
  cardinality.  What makes the invariant inductive is `ReadingHeld`: a pointer
  that was read and not yet counted is still an item of a container its thread
  refers to, which nobody else may modify meanwhile.

Assumptions are the named `ASSUME`s of the modules: distinct model values and
bounds that are numbers; in `Values`, that threads and memory are finite.  Only
model-checked: liveness (`TakenOver`, `AlwaysServed`, `Restored`,
`ArrivedCompletes`, `InterruptEnds`, `TerminationEnds`, `ClientsServed`,
`AllFreed`), which is beyond the prover.  Every invariant, action property and
refinement that a passing run checks is also proved; where a run stops at a state
constraint or restricts the steps (see the bounds above), the theorem does not:
it is about `Spec`, crashes and failures included.

## What is not modelled

* In `CacheFile`: `chmod`, creating the directory, versions of objects.  A
  `get()` is one step: PHP reads the file at once, and an inode that is being
  written shows as empty or garbage.
* In `RssHistory` and `RssFeeds` the write of a file is atomic; `CacheFile` says
  when that holds.  PHP's cache of file times is left out: a session that
  touches no other file between load and save may miss a modification.
* In `RssHistory`: adding and removing feeds, disabled feeds and filters,
  filters bound to a feed or a group, feeds with unreliable timestamps (which
  `fetch()` exempts from `correct()`), events to other plugins, feeds that
  disagree on an item's timestamp beyond what is cached.
* In `RssFeeds`: groups, labels, the fetch inside `add()`, the repairs that
  `get()` makes to entries of older versions, the time of the next update.
* In `Scheduler`: the numbers of the speed limits, and parts of a request being
  done; a request whose torrent is gone is done for the others.
* In `RpcClient`: failures of `select()` and libcurl the code calls impossible,
  a synchronous call from within a completion function, the options of the
  transport, the global client.  Waiting for file descriptors ends after three
  seconds at the latest and changes nothing, so it is part of the next step.
* In `AbyssServer`: serving in the foreground (`ServerRunConn()` and its like),
  processes in place of threads, the text of HTTP; a request that was read
  together with the one before it, which waits in the buffer until more bytes
  come; the process dying of an interruption that meets a channel already
  destroyed (the byte is lost instead); the master spinning on the byte that
  stays in the switch's pipe after `ServerResetTerminate()`, which is a wait
  that ends at once (`AcceptInterrupted`) and harmless but for its cost.  When
  the `malloc()` of `ChannelCreate()` fails, it sets no pointer
  (`channel.c:96-98`), and its caller tests one it never initialized
  (`socket_unix.c:747-750`); `AcceptFails` has the error the caller means to
  return.
* In `Values`: what scalars hold, the lookup by key, memory that runs out while
  a value is built (`xmlrpc_struct.c:451` then releases a key that was never
  made), and programs that modify what other threads read.
* The rest of xmlrpc-c is sequential translation of data, or is not built by
  the installer.  That is most of the C code of the repository: expat, the
  command line tools and `mod_gzip`, the C++ classes, and the whole second copy
  in version 1.39.07.  Modelling it would state nothing about the program.
* The components marked `not_modelled` in `PROJECT.json`, with the reasons
  there.  Hazards seen in them on the way, for whoever models them:
  `pushEvent()` skips a hook after one was unregistered
  (`php/settings.php:83`); `trafic/update.php:54` replaces its counters before
  it saves the statistics; `_task/task.php:272` may clean up a task that has
  no pid yet; `erasedata/update.php:99` deletes files from a list although the
  torrent may be back; `retrackers/update.php:123` erases before it sends
  again; `rutracker_check/check.php:137` compares a string strictly with a
  number; `history/history.php:47` rewrites the whole log in concurrent
  scripts.  In the rss plugin, `change()` (`rss.php:1200`) removes a feed
  before the new one is fetched, `loadFilters()` (886) clears references to
  feeds when its list is out of date, and a manual load that fails (1264)
  overwrites the entry of an item loaded before.

## Plan

Done: `CacheFile` with `AtomicStore`, `UpdateLock`, `RssHistory`, `Scheduler`,
`RssFeeds`, `RpcClient` with `RpcPromise`, `AbyssServer` with `ConnPool`,
`Values`, and their proofs.  Left, in this order:

1. `RssUpdate`: `UpdateLock` composed with `RssHistory`; groups and filter
   references in `RssFeeds`.
2. `TorrentReplace`: erase and send again, for datadir, retrackers,
   rutracker_check and edit, against an abstract specification "the torrent is
   in rTorrent or on disk".
3. `EraseData` (deferred deletion) and `TaskRunner` (task directories, used by
   unpack and create).
4. `HistoryLog` and `TraficStat`: read, change, write back.
5. `RpcDiff`: list differences for concurrent clients implement "the client's
   view is rTorrent's list at some earlier time".
6. `EventHooks`: registration and dispatch; `Ratio`, `Throttle`, `ExtRatio`.
7. xmlrpc-c: base64, UTF-8 and date codecs as operators against reference
   definitions; the memory blocks that grow under arrays and structs.
8. Proofs: with each of these modules its type invariant and safety, and for
   `RssUpdate` that scheduled updates alone never load an item twice, from
   `LockExcludes` and `HistoryNoSecondLoad`.
