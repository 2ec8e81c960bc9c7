----------------------------- MODULE AbyssServer -----------------------------
(***************************************************************************)
(* The HTTP server of xmlrpc-c: ServerRun() accepts connections and gives  *)
(* each a thread of its own.  The master thread keeps the list of the      *)
(* outstanding connections without a lock: a thread that is done only      *)
(* marks its connection finished, and the master joins it and frees the    *)
(* connection the next time it sweeps the list.  ServerTerminate() makes   *)
(* the master interrupt every connection and wait for all of them.         *)
(*                                                                         *)
(* Threads are pthreads, the default of the build.  Clients are the        *)
(* environment: they connect, send, stop reading and close as they like.   *)
(***************************************************************************)
EXTENDS Naturals, FiniteSets

CONSTANTS Conn,     \* connections clients make, each once
          MaxConn,  \* how many may be in progress
          KeepMax,  \* requests served on one connection
          NoConn

ASSUME AbyssAssumption ==
  /\ MaxConn \in Nat \ {0}
  /\ KeepMax \in Nat \ {0}
  /\ NoConn \notin Conn

VARIABLES
  main,        \* where the master is
  list,        \* the outstanding connections
  count,       \* how many there are, kept beside the list
  left,        \* those its walk of the list has yet to come to
  at,          \* the one it waits for or is about to interrupt
  new,         \* the one it has accepted and not yet put in the list
  error,       \* whether the run has failed
  abandoned,   \* connections of runs that failed: their list is lost
  terminate,   \* terminationRequested
  pipe,        \* whether the switch's interrupt pipe holds a byte
  stopping,    \* whether ServerTerminate() is between its two steps
  client,      \* what each client has done
  input,       \* connections with bytes to read
  channel,     \* the channel object of each connection
  woken,       \* channels whose interrupt pipe holds a byte
  conn,        \* the TConn of each connection
  thread,      \* where the thread of each connection is
  requests     \* the requests each has served

listVars == <<list, count, left, at, new>>
runVars == <<error, abandoned>>
stopVars == <<terminate, pipe, stopping>>
masterVars == <<main, listVars, runVars>>
connVars == <<channel, woken, conn, thread, requests>>
vars == <<masterVars, stopVars, client, input, connVars>>

TypeOK ==
  /\ main \in {"user", "loop", "accept", "fresh", "room", "cramped", "adding",
               "interrupt", "drain", "draining"}
  /\ list \in SUBSET Conn
  /\ count \in Nat
  /\ left \in SUBSET Conn
  /\ at \in Conn \cup {NoConn}
  /\ new \in Conn \cup {NoConn}
  /\ error \in {"no", "yes"}
  /\ abandoned \in SUBSET Conn
  /\ terminate \in {"no", "yes"}
  /\ pipe \in {"empty", "full"}
  /\ stopping \in {"no", "yes"}
  /\ client \in [Conn -> {"away", "open", "closed"}]
  /\ input \in SUBSET Conn
  /\ channel \in [Conn -> {"none", "refused", "live", "destroyed", "spoilt"}]
  /\ woken \in SUBSET Conn
  /\ conn \in [Conn -> {"none", "held", "freed", "leaked"}]
  /\ thread \in [Conn -> {"none", "reading", "data", "answering", "leaving",
                          "exited"}]
  /\ requests \in [Conn -> 0 .. KeepMax]

Init ==
  /\ main = "user"
  /\ list = {} /\ count = 0 /\ left = {} /\ at = NoConn /\ new = NoConn
  /\ error = "no" /\ abandoned = {}
  /\ terminate = "no" /\ pipe = "empty" /\ stopping = "no"
  /\ client = [c \in Conn |-> "away"]
  /\ input = {}
  /\ channel = [c \in Conn |-> "none"]
  /\ woken = {}
  /\ conn = [c \in Conn |-> "none"]
  /\ thread = [c \in Conn |-> "none"]
  /\ requests = [c \in Conn |-> 0]

\* Clients whose connection waits to be accepted.
Queued == {c \in Conn : client[c] # "away" /\ channel[c] = "none"}

Live == {c \in Conn : channel[c] = "live"}

\* The flag connectionP->finished, which the thread sets before it leaves.
Finished(c) == thread[c] \in {"leaving", "exited"}

\* What ChannelDestroy() makes of a channel: it must be one that exists.
Destroyed(h) == IF h = "live" THEN "destroyed" ELSE "spoilt"

\* The socket is closed with it.
CloseChannel(c) ==
  /\ channel' = [channel EXCEPT ![c] = Destroyed(@)]
  /\ client' = [client EXCEPT ![c] = "closed"]
  /\ input' = input \ {c}

-----------------------------------------------------------------------------
(***************************************************************************)
(* The master: serverRun2() and acceptAndProcessNextConnection().          *)
(***************************************************************************)

Run ==
  /\ main = "user" /\ main' = "loop"
  /\ UNCHANGED <<listVars, runVars, stopVars, client, input, connVars>>

NextConnection ==
  /\ main = "loop" /\ terminate = "no" /\ error = "no"
  /\ main' = "accept"
  /\ UNCHANGED <<listVars, runVars, stopVars, client, input, connVars>>

\* On an error the run returns at once: its connections go on without it.
RunFails ==
  /\ main = "loop" /\ error = "yes"
  /\ main' = "user"
  /\ abandoned' = abandoned \cup list
  /\ list' = {} /\ count' = 0
  /\ error' = "no"
  /\ UNCHANGED <<left, at, new, stopVars, client, input, connVars>>

StopAccepting ==
  /\ main = "loop" /\ terminate = "yes" /\ error = "no"
  /\ main' = "interrupt"
  /\ left' = list
  /\ UNCHANGED <<list, count, at, new, runVars, stopVars, client, input, connVars>>

\* A new channel; the list is swept before there is a connection for it.
Accept(c) ==
  /\ main = "accept" /\ c \in Queued
  /\ main' = "fresh"
  /\ channel' = [channel EXCEPT ![c] = "live"]
  /\ new' = c
  /\ left' = list
  /\ UNCHANGED <<list, count, at, runVars, stopVars, client, input, woken, conn, thread,
                 requests>>

\* Waiting for a client ends without one: a signal, whoever waits, or a byte in the
\* interrupt pipe, which stays there.
AcceptInterrupted ==
  /\ main = "accept"
  /\ main' = "loop"
  /\ UNCHANGED <<listVars, runVars, stopVars, client, input, connVars>>

\* accept() fails, or there is no memory or pipe for a channel.
AcceptFails ==
  /\ main = "accept"
  /\ main' = "loop" /\ error' = "yes"
  /\ \/ UNCHANGED <<channel, client, input>>
     \/ \E c \in Queued :
          /\ channel' = [channel EXCEPT ![c] = "refused"]
          /\ client' = [client EXCEPT ![c] = "closed"]
          /\ input' = input \ {c}
  /\ UNCHANGED <<listVars, abandoned, stopVars, woken, conn, thread, requests>>

-----------------------------------------------------------------------------
(***************************************************************************)
(* freeFinishedConns(), called in three places.  The order of the list is  *)
(* left open.                                                              *)
(***************************************************************************)

Sweeping == main \in {"fresh", "cramped", "draining"}

PassBy(c) ==
  /\ Sweeping /\ at = NoConn
  /\ c \in left /\ ~Finished(c)
  /\ left' = left \ {c}
  /\ UNCHANGED <<main, list, count, at, new, runVars, stopVars, client, input, connVars>>

Unlist(c) ==
  /\ Sweeping /\ at = NoConn
  /\ c \in left /\ Finished(c)
  /\ left' = left \ {c}
  /\ list' = list \ {c} /\ count' = count - 1
  /\ at' = c
  /\ UNCHANGED <<main, new, runVars, stopVars, client, input, connVars>>

\* Mutant: the connection is freed without waiting for its thread.
ReleaseUnjoined ==
  /\ Sweeping /\ at # NoConn
  /\ conn' = [conn EXCEPT ![at] = "freed"]
  /\ at' = NoConn
  /\ UNCHANGED <<main, list, count, left, new, runVars, stopVars, client, input, channel,
                 woken, thread, requests>>

\* ConnWaitAndRelease(): the thread is joined, then the TConn is freed.
Release ==
  /\ Sweeping /\ at # NoConn
  /\ thread[at] = "exited"
  /\ conn' = [conn EXCEPT ![at] = "freed"]
  /\ at' = NoConn
  /\ UNCHANGED <<main, list, count, left, new, runVars, stopVars, client, input, channel,
                 woken, thread, requests>>

Swept(from, to) ==
  /\ main = from /\ at = NoConn /\ left = {}
  /\ main' = to
  /\ UNCHANGED <<listVars, runVars, stopVars, client, input, connVars>>

\* Mutant: one connection too many.
FullAbove == count > MaxConn

Full == count >= MaxConn

\* Mutant: the master only sleeps, without sweeping the list.
AsleepWhenFull ==
  /\ main = "room" /\ Full
  /\ UNCHANGED vars

\* waitForConnectionCapacity(), with its sleep of two seconds between two sweeps.
Cramped ==
  /\ main = "room" /\ Full
  /\ main' = "cramped"
  /\ left' = list
  /\ UNCHANGED <<list, count, at, new, runVars, stopVars, client, input, connVars>>

-----------------------------------------------------------------------------
(***************************************************************************)
(* processNewChannel().  The thread runs as soon as ConnCreate() has made  *)
(* it, before the master adds the connection to the list.                  *)
(***************************************************************************)

Create ==
  /\ main = "room" /\ ~Full
  /\ main' = "adding"
  /\ conn' = [conn EXCEPT ![new] = "held"]
  /\ thread' = [thread EXCEPT ![new] = "reading"]
  /\ UNCHANGED <<listVars, runVars, stopVars, client, input, channel, woken, requests>>

\* No memory for the connection, or no thread: then the connection is never freed.
\* The channel is destroyed, and the error ends the run.
CreateFails ==
  /\ main = "room" /\ ~Full
  /\ main' = "loop" /\ error' = "yes"
  /\ \E x \in {"none", "leaked"} : conn' = [conn EXCEPT ![new] = x]
  /\ CloseChannel(new)
  /\ new' = NoConn
  /\ UNCHANGED <<list, count, left, at, abandoned, stopVars, woken, thread, requests>>

Add ==
  /\ main = "adding"
  /\ main' = "loop"
  /\ list' = list \cup {new} /\ count' = count + 1
  /\ new' = NoConn
  /\ UNCHANGED <<left, at, runVars, stopVars, client, input, connVars>>

-----------------------------------------------------------------------------
(***************************************************************************)
(* The end of a run: interruptChannels() and waitForNoConnections().       *)
(***************************************************************************)

Ignore(c) ==
  /\ main = "interrupt" /\ at = NoConn
  /\ c \in left /\ Finished(c)
  /\ left' = left \ {c}
  /\ UNCHANGED <<main, list, count, at, new, runVars, stopVars, client, input, connVars>>

Aim(c) ==
  /\ main = "interrupt" /\ at = NoConn
  /\ c \in left /\ ~Finished(c)
  /\ left' = left \ {c}
  /\ at' = c
  /\ UNCHANGED <<main, list, count, new, runVars, stopVars, client, input, connVars>>

\* Mutant: only a thread that waits at that moment is interrupted.
StrikeReader ==
  /\ main = "interrupt" /\ at # NoConn
  /\ woken' = IF thread[at] = "reading" THEN woken \cup {at} ELSE woken
  /\ at' = NoConn
  /\ UNCHANGED <<main, list, count, left, new, runVars, stopVars, client, input, channel,
                 conn, thread, requests>>

\* ChannelInterrupt() writes a byte that no one ever reads.  By now the thread may have
\* finished and destroyed the channel: the call then reads freed memory, and the byte
\* is lost or reaches another channel.  (That the process dies of it is left out.)
Strike ==
  /\ main = "interrupt" /\ at # NoConn
  /\ IF channel[at] = "live"
       THEN woken' = woken \cup {at}
       ELSE woken' \in {woken} \cup {woken \cup {c} : c \in Live}
  /\ at' = NoConn
  /\ UNCHANGED <<main, list, count, left, new, runVars, stopVars, client, input, channel,
                 conn, thread, requests>>

Drain ==
  /\ main = "drain" /\ list # {}
  /\ main' = "draining"
  /\ left' = list
  /\ UNCHANGED <<list, count, at, new, runVars, stopVars, client, input, connVars>>

Return ==
  /\ main = "drain" /\ list = {}
  /\ main' = "user"
  /\ UNCHANGED <<listVars, runVars, stopVars, client, input, connVars>>

-----------------------------------------------------------------------------
(***************************************************************************)
(* The thread of a connection: serverFunc() within connJob().              *)
(***************************************************************************)

ThreadAt(c, from, to) ==
  /\ thread[c] = from
  /\ thread' = [thread EXCEPT ![c] = to]

\* ConnRead(): the client's bytes win over an interruption.
ReadData(c) ==
  /\ ThreadAt(c, "reading", "data")
  /\ c \in input
  /\ input' = input \ {c}
  /\ UNCHANGED <<masterVars, stopVars, client, channel, woken, conn, requests>>

\* The client has closed the connection, or the channel was interrupted.
ReadEnds(c) ==
  /\ ThreadAt(c, "reading", "leaving")
  /\ c \notin input
  /\ client[c] = "closed" \/ c \in woken
  /\ UNCHANGED <<masterVars, stopVars, client, input, channel, woken, conn, requests>>

\* The keepalive time is over, a signal came, or reading failed.
ReadStops(c) ==
  /\ ThreadAt(c, "reading", "leaving")
  /\ UNCHANGED <<masterVars, stopVars, client, input, channel, woken, conn, requests>>

\* Unless the server is to terminate, processRequestFromClient() reads the rest of the
\* request, up to a timeout, and runs the handlers.  Bytes it reads beyond the request
\* stay in the connection's buffer, which does not keep ConnRead() from waiting for the
\* channel.
TestTermination(c) ==
  /\ IF terminate = "yes"
       THEN ThreadAt(c, "data", "leaving") /\ UNCHANGED input
       ELSE ThreadAt(c, "data", "answering") /\ input' \in {input, input \ {c}}
  /\ UNCHANGED <<masterVars, stopVars, client, channel, woken, conn, requests>>

\* Mutant: the request being served is not counted.
LastRequestLate(c) == requests[c] >= KeepMax

LastRequest(c) == requests[c] + 1 >= KeepMax

\* The response is written, or writing it fails.  channelWrite() waits in send() until
\* the client takes it: the interrupt pipe does not reach it there.
Answer(c) ==
  /\ \E next \in {"leaving", "reading"} :
       /\ next = "reading" => ~LastRequest(c)
       /\ ThreadAt(c, "answering", next)
  /\ requests' = [requests EXCEPT ![c] = @ + 1]
  /\ UNCHANGED <<masterVars, stopVars, client, input, channel, woken, conn>>

\* ThreadExit() runs threadDone(), which has the channel destroyed.
Leave(c) ==
  /\ ThreadAt(c, "leaving", "exited")
  /\ CloseChannel(c)
  /\ woken' = woken \ {c}
  /\ requests' = [requests EXCEPT ![c] = 0]
  /\ UNCHANGED <<masterVars, stopVars, conn>>

-----------------------------------------------------------------------------
(***************************************************************************)
(* The rest of the program, and the clients.                               *)
(***************************************************************************)

\* ServerTerminate() sets the flag, then interrupts the switch.  Calling it again
\* before the flag is reset changes nothing.
RequestTermination ==
  /\ terminate = "no" /\ stopping = "no"
  /\ stopping' = "yes" /\ terminate' = "yes"
  /\ UNCHANGED <<masterVars, pipe, client, input, connVars>>

InterruptSwitch ==
  /\ stopping = "yes"
  /\ stopping' = "no" /\ pipe' = "full"
  /\ UNCHANGED <<masterVars, terminate, client, input, connVars>>

\* ServerResetTerminate(), before the server is run again.
ResetTermination ==
  /\ main = "user" /\ terminate = "yes"
  /\ terminate' = "no"
  /\ UNCHANGED <<masterVars, pipe, stopping, client, input, connVars>>

Connect(c) ==
  /\ client[c] = "away"
  /\ client' = [client EXCEPT ![c] = "open"]
  /\ UNCHANGED <<masterVars, stopVars, input, connVars>>

Send(c) ==
  /\ client[c] = "open" /\ c \notin input
  /\ input' = input \cup {c}
  /\ UNCHANGED <<masterVars, stopVars, client, connVars>>

Close(c) ==
  /\ client[c] = "open"
  /\ client' = [client EXCEPT ![c] = "closed"]
  /\ UNCHANGED <<masterVars, stopVars, input, connVars>>

-----------------------------------------------------------------------------

MasterWork ==
  \/ NextConnection \/ RunFails \/ StopAccepting
  \/ \E c \in Conn : Accept(c) \/ PassBy(c) \/ Unlist(c) \/ Ignore(c) \/ Aim(c)
  \/ Release \/ Cramped \/ Create \/ Add \/ Strike \/ Drain \/ Return
  \/ Swept("fresh", "room") \/ Swept("cramped", "room")
  \/ Swept("interrupt", "drain") \/ Swept("draining", "drain")

ThreadWork(c) ==
  ReadData(c) \/ ReadEnds(c) \/ TestTermination(c) \/ Leave(c)

Clients == \E c \in Conn : Connect(c) \/ Send(c) \/ Close(c)

Next ==
  \/ Run \/ MasterWork \/ AcceptInterrupted \/ AcceptFails \/ CreateFails
  \/ \E c \in Conn : ThreadWork(c) \/ ReadStops(c) \/ Answer(c)
  \/ RequestTermination \/ InterruptSwitch \/ ResetTermination
  \/ Clients

Spec == Init /\ [][Next]_vars

Ending == main \in {"interrupt", "drain", "draining"}

\* The threads go on.  A byte in the pipe is seen when no client waits, which takes
\* precedence, and signals do not interrupt every wait.  Keepalive times run out, which
\* is not counted on once the connections have been interrupted.
ServerFairness ==
  /\ WF_vars(MasterWork)
  /\ WF_vars(pipe = "full" /\ Queued = {} /\ AcceptInterrupted)
  /\ SF_vars(\E c \in Conn : Accept(c))
  /\ WF_vars(InterruptSwitch)
  /\ \A c \in Conn : WF_vars(ThreadWork(c)) /\ WF_vars(~Ending /\ ReadStops(c))

\* A response to a client that has closed the connection fails; one to a client that
\* does not read may be held up for ever.
FairSpec ==
  Spec /\ ServerFairness /\ \A c \in Conn : WF_vars(client[c] = "closed" /\ Answer(c))

\* Clients take the responses they are sent.
ReadersSpec == Spec /\ ServerFairness /\ \A c \in Conn : WF_vars(Answer(c))

-----------------------------------------------------------------------------

\* A connection is not freed before its thread has left it, and its channel lives
\* until then, whoever destroys the one and the other.
ThreadsSound ==
  \A c \in Conn :
    /\ thread[c] \notin {"none", "exited"} => conn[c] = "held" /\ channel[c] = "live"
    /\ channel[c] # "spoilt"

\* A run that is told to terminate returns.
TerminationEnds == terminate = "yes" /\ main # "user" ~> main = "user"

\* Clients that connect while the server runs get a thread to serve them, however many
\* they are, unless the run ends: the wait for capacity is not for ever.
Waiting == {c \in Conn : client[c] # "away" /\ channel[c] \in {"none", "live"}
                                           /\ conn[c] = "none"}

ClientsServed == main # "user" /\ Waiting # {} ~> main = "user" \/ Waiting = {}

\* The pool of connections as the user of the server sees it.
Phase ==
  [c \in Conn |-> IF c \in abandoned THEN "abandoned"
                  ELSE IF conn[c] = "freed" THEN "released"
                  ELSE IF conn[c] # "held" THEN "none"
                  ELSE IF thread[c] = "exited" THEN "ended" ELSE "serving"]

Pool == INSTANCE ConnPool WITH
  Max <- MaxConn, phase <- Phase, state <- IF main = "user" THEN "idle" ELSE "running"

ImplementsPool == Pool!Spec
=============================================================================
