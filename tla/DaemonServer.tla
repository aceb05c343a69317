----------------------------- MODULE DaemonServer -----------------------------
(***************************************************************************)
(* The daemon process (daemon/server.py, daemon/__main__.py): the main     *)
(* thread, which starts the server, waits for a signal and stops it; the   *)
(* accept thread; the pool of worker threads, each serving one connection  *)
(* at a time from the executor's queue; and the clients, each of which     *)
(* makes one connection and one request.  A signal handler runs in the     *)
(* main thread, between two of its steps, and a stop() it calls comes to   *)
(* its end before the main thread goes on.                                 *)
(***************************************************************************)
EXTENDS Naturals, FiniteSets, Sequences

CONSTANTS
    Client,      \* connections made in this instance
    Worker,      \* threads of the ThreadPoolExecutor: max_workers of them
    NoClient,
    MaxSignals   \* bound: SIGTERMs (and SIGINTs) sent to the process

ASSUME ServerAssumption ==
    /\ IsFiniteSet(Worker)
    /\ NoClient \notin Client
    /\ MaxSignals \in Nat

MaxWorkers == Cardinality(Worker)

VARIABLES
    main,      \* the main thread's next step
    stopping,  \* the next step of the stop() it is in, or "no"
    handler,   \* whose signal handler is installed, the server's or main's
    signals,   \* signals delivered
    shutdown,  \* main's shutdown_event
    running,   \* _running (and not _shutdown_event: stop() changes both)
    sock,      \* the listening socket
    backlog,   \* its queue of connections nobody has accepted yet
    path,      \* the socket file exists
    acceptor,  \* the accept thread's next step
    taken,     \* the connection in the accept thread's hands
    executor,  \* the ThreadPoolExecutor
    queue,     \* its queue of submitted connections
    wpc,       \* wpc[w]: worker w's next step
    conn,      \* conn[w]: the connection it serves
    permits,   \* _build_semaphore
    active,    \* _active_builds
    at,        \* at[c]: where the connection of c is
    sent,      \* sent[c]: what c has sent
    got        \* got[c]: what c has got in return

mainVars == <<main, stopping, handler, signals, shutdown>>
acceptVars == <<acceptor, taken>>
workerVars == <<wpc, conn, permits, active>>
clientVars == <<at, sent, got>>
vars == <<mainVars, running, sock, backlog, path, acceptVars, executor, queue, workerVars, clientVars>>

-------------------------------------------------------------------------------
(* The main thread: DaemonServer(...), start(), and the wait for a signal.  *)

MainAt(p) == main = p /\ stopping = "no"

\* _create_socket replaces whatever file is there, binds and listens.
CreateSocket ==
    /\ MainAt("socket")
    /\ sock' = "listening" /\ path' = TRUE
    /\ main' = "permissions"
    /\ UNCHANGED <<stopping, handler, signals, shutdown, running, backlog, acceptVars, executor,
                   queue, workerVars, clientVars>>

\* What is still in the backlog of a socket that is closed is reset.
Reset ==
    /\ at' = [c \in Client |-> IF at[c] = "backlog" THEN "over" ELSE at[c]]
    /\ got' = [c \in Client |-> IF at[c] = "backlog" THEN "reset" ELSE got[c]]
    /\ backlog' = <<>>
    /\ UNCHANGED sent

\* bind or chmod or chown fails, or the group does not exist: start() removes the
\* file if it can, and main returns 1.
StartFails ==
    /\ MainAt("socket") \/ MainAt("permissions")
    /\ main' = "failed"
    /\ sock' = "closed" /\ path' \in {path, FALSE}
    /\ Reset
    /\ UNCHANGED <<stopping, handler, signals, shutdown, running, acceptVars, executor, queue,
                   workerVars>>

CreatePool ==
    /\ MainAt("permissions")
    /\ executor' = "open"
    /\ main' = "running"
    /\ UNCHANGED <<stopping, handler, signals, shutdown, running, sock, backlog, path, acceptVars, queue,
                   workerVars, clientVars>>

SetRunning ==
    /\ MainAt("running")
    /\ running' = TRUE
    /\ main' = "thread"
    /\ UNCHANGED <<stopping, handler, signals, shutdown, sock, backlog, path, acceptVars, executor, queue,
                   workerVars, clientVars>>

StartThread ==
    /\ MainAt("thread")
    /\ acceptor' = "loop"
    /\ main' = "handlers"
    /\ UNCHANGED <<stopping, handler, signals, shutdown, running, sock, backlog, path, taken, executor,
                   queue, workerVars, clientVars>>

\* main() replaces the handlers that DaemonServer.__init__ installed.
InstallHandlers ==
    /\ MainAt("handlers")
    /\ handler' = "main"
    /\ main' = "wait"
    /\ UNCHANGED <<stopping, signals, shutdown, running, sock, backlog, path, acceptVars, executor, queue,
                   workerVars, clientVars>>

\* shutdown_event.wait() returns.
Wake ==
    /\ MainAt("wait") /\ shutdown
    /\ main' = "stop"
    /\ UNCHANGED <<stopping, handler, signals, shutdown, running, sock, backlog, path, acceptVars, executor,
                   queue, workerVars, clientVars>>

\* stop() returns at once unless the server is running.
BeginStop ==
    IF running
    THEN running' = FALSE /\ stopping' = "close"
    ELSE UNCHANGED <<running, stopping>>

CallStop ==
    /\ MainAt("stop")
    /\ BeginStop
    /\ main' = "stopped"
    /\ UNCHANGED <<handler, signals, shutdown, sock, backlog, path, acceptVars, executor, queue,
                   workerVars, clientVars>>

\* main returns, and the interpreter joins the threads that are left.
Exit ==
    /\ MainAt("stopped")
    /\ main' = "exited"
    /\ UNCHANGED <<stopping, handler, signals, shutdown, running, sock, backlog, path, acceptVars, executor,
                   queue, workerVars, clientVars>>

\* A signal: the handler of the server calls stop(), main's sets the event.
Signal ==
    /\ signals < MaxSignals
    /\ main \notin {"failed", "exited"}
    /\ signals' = signals + 1
    /\ \/ /\ handler = "server" /\ stopping = "no"
          /\ BeginStop
          /\ UNCHANGED shutdown
       \/ /\ handler = "server" /\ stopping # "no"
          /\ UNCHANGED <<running, stopping, shutdown>>
       \/ /\ handler = "main"
          /\ shutdown' = TRUE
          /\ UNCHANGED <<running, stopping>>
    /\ UNCHANGED <<main, handler, sock, backlog, path, acceptVars, executor, queue, workerVars, clientVars>>

-------------------------------------------------------------------------------
(* stop(), once it has cleared _running.                                   *)

CloseSocket ==
    /\ stopping = "close"
    /\ sock' = "closed"
    /\ Reset
    /\ stopping' = "join"
    /\ UNCHANGED <<main, handler, signals, shutdown, running, path, acceptVars, executor, queue,
                   workerVars>>

\* join(timeout=5.0), if the thread is alive: it has come to its end, or the time is up.
JoinAccept ==
    /\ stopping = "join"
    /\ stopping' = "drain"
    /\ UNCHANGED <<main, handler, signals, shutdown, running, sock, backlog, path, acceptVars, executor,
                   queue, workerVars, clientVars>>

\* executor.shutdown(wait=True) refuses new work first ...
ShutExecutor ==
    /\ stopping = "drain" /\ executor = "open"
    /\ executor' = "shut"
    /\ UNCHANGED <<mainVars, running, sock, backlog, path, acceptVars, queue, workerVars, clientVars>>

\* (mutant) shutdown(wait=False)
DrainNoWait ==
    /\ stopping = "drain" /\ executor = "shut"
    /\ stopping' = "clean"
    /\ UNCHANGED <<main, handler, signals, shutdown, running, sock, backlog, path, acceptVars, executor,
                   queue, workerVars, clientVars>>

\* ... and then waits for the work that was submitted, the queued included.
Drain ==
    /\ stopping = "drain" /\ executor = "shut"
    /\ queue = <<>> /\ \A w \in Worker : wpc[w] = "free"
    /\ stopping' = "clean"
    /\ UNCHANGED <<main, handler, signals, shutdown, running, sock, backlog, path, acceptVars, executor,
                   queue, workerVars, clientVars>>

\* _cleanup removes the socket file, and stop() returns to where it was called.
Cleanup ==
    /\ stopping = "clean"
    /\ path' = FALSE
    /\ stopping' = "no"
    /\ UNCHANGED <<main, handler, signals, shutdown, running, sock, backlog, acceptVars, executor,
                   queue, workerVars, clientVars>>

-------------------------------------------------------------------------------
(* _accept_connections                                                     *)

\* The loop's condition; settimeout and accept follow.
AcceptLoop ==
    /\ acceptor = "loop"
    /\ acceptor' = IF running THEN "accept" ELSE "done"
    /\ UNCHANGED <<mainVars, running, sock, backlog, path, taken, executor, queue, workerVars, clientVars>>

Accept ==
    /\ acceptor = "accept" /\ sock = "listening"
    /\ backlog # <<>>
    /\ taken' = Head(backlog) /\ backlog' = Tail(backlog)
    /\ at' = [at EXCEPT ![Head(backlog)] = "connected"]
    /\ acceptor' = "submit"
    /\ UNCHANGED <<mainVars, running, sock, path, executor, queue, workerVars, sent, got>>

\* After a second without a connection, or with an error once the socket is closed.
AcceptNothing ==
    /\ acceptor = "accept" /\ (sock = "closed" \/ backlog = <<>>)
    /\ acceptor' = "loop"
    /\ UNCHANGED <<mainVars, running, sock, backlog, path, taken, executor, queue, workerVars, clientVars>>

\* The connection is over: c has the response, or an end of file without one.
Close(c) ==
    /\ at' = [at EXCEPT ![c] = "over"]
    /\ got' = [got EXCEPT ![c] = IF @ = "nothing" THEN "eof" ELSE @]
    /\ UNCHANGED sent

\* (mutant) what was refused is forgotten, but stays open.
SubmitLeavesOpen ==
    /\ acceptor = "submit"
    /\ queue' = IF executor = "open" THEN Append(queue, taken) ELSE queue
    /\ taken' = NoClient
    /\ acceptor' = "loop"
    /\ UNCHANGED <<mainVars, running, sock, backlog, path, executor, workerVars, clientVars>>

\* executor.submit; after its shutdown it raises, and the connection is dropped.
Submit ==
    /\ acceptor = "submit"
    /\ IF executor = "open"
       THEN queue' = Append(queue, taken) /\ UNCHANGED clientVars
       ELSE Close(taken) /\ UNCHANGED queue
    /\ taken' = NoClient
    /\ acceptor' = "loop"
    /\ UNCHANGED <<mainVars, running, sock, backlog, path, executor, workerVars>>

-------------------------------------------------------------------------------
(* _handle_client in worker w.                                             *)

WorkerStep(w, from, to) == wpc[w] = from /\ wpc' = [wpc EXCEPT ![w] = to]

TakeWork(w) ==
    /\ WorkerStep(w, "free", "authorize")
    /\ queue # <<>>
    /\ conn' = [conn EXCEPT ![w] = Head(queue)]
    /\ queue' = Tail(queue)
    /\ UNCHANGED <<mainVars, running, sock, backlog, path, acceptVars, executor, permits, active, clientVars>>

\* validate_client_credentials; a peer that is refused is not told.
Authorize(w) ==
    /\ WorkerStep(w, "authorize", "receive") \/ WorkerStep(w, "authorize", "close")
    /\ UNCHANGED <<mainVars, running, sock, backlog, path, acceptVars, executor, queue, conn, permits,
                   active, clientVars>>

\* (mutant) the end of the stream is taken for "nothing yet".
ReceiveForever(w) ==
    /\ wpc[w] = "receive"
    /\ \/ sent[conn[w]] = "build" /\ WorkerStep(w, "receive", "acquire")
       \/ sent[conn[w]] = "other" /\ WorkerStep(w, "receive", "handle")
       \/ sent[conn[w]] = "garbage" /\ WorkerStep(w, "receive", "close")
    /\ UNCHANGED <<mainVars, running, sock, backlog, path, acceptVars, executor, queue, conn, permits,
                   active, clientVars>>

\* receive_message waits, without a timeout, for the request, for the end of the
\* stream, or for something that is not a request.
Receive(w) ==
    /\ wpc[w] = "receive"
    /\ \/ sent[conn[w]] = "build" /\ WorkerStep(w, "receive", "acquire")
       \/ sent[conn[w]] = "other" /\ WorkerStep(w, "receive", "handle")
       \/ sent[conn[w]] \in {"gone", "garbage"} /\ WorkerStep(w, "receive", "close")
    /\ UNCHANGED <<mainVars, running, sock, backlog, path, acceptVars, executor, queue, conn, permits,
                   active, clientVars>>

\* A build needs a permit of the semaphore, and is turned away without an answer if
\* there is none for 300 s.
Acquire(w) ==
    /\ IF permits > 0
       THEN /\ WorkerStep(w, "acquire", "count")
            /\ permits' = permits - 1
            /\ UNCHANGED got
       ELSE /\ WorkerStep(w, "acquire", "close")
            /\ got' = [got EXCEPT ![conn[w]] = "turned away"]
            /\ UNCHANGED permits
    /\ UNCHANGED <<mainVars, running, sock, backlog, path, acceptVars, executor, queue, conn, active,
                   at, sent>>

CountBuild(w) ==
    /\ WorkerStep(w, "count", "build")
    /\ active' = active + 1
    /\ UNCHANGED <<mainVars, running, sock, backlog, path, acceptVars, executor, queue, conn, permits,
                   clientVars>>

\* handle_request returns a response, which is sent; or it raises, or the client is
\* not there to receive: only the log has it.
Answer(w) ==
    got' \in {got, [got EXCEPT ![conn[w]] = "response"]}

\* (mutant) an exception leaves the method before the build is uncounted.
BuildUncounted(w) ==
    /\ \/ WorkerStep(w, "build", "uncount") /\ Answer(w)
       \/ WorkerStep(w, "build", "close") /\ UNCHANGED got
    /\ UNCHANGED <<mainVars, running, sock, backlog, path, acceptVars, executor, queue, conn, permits,
                   active, at, sent>>

Build(w) ==
    /\ WorkerStep(w, "build", "uncount")
    /\ Answer(w)
    /\ UNCHANGED <<mainVars, running, sock, backlog, path, acceptVars, executor, queue, conn, permits,
                   active, at, sent>>

UncountBuild(w) ==
    /\ WorkerStep(w, "uncount", "release")
    /\ active' = active - 1
    /\ UNCHANGED <<mainVars, running, sock, backlog, path, acceptVars, executor, queue, conn, permits,
                   clientVars>>

\* (mutant) the permit is not given back.
ReleaseNothing(w) ==
    /\ WorkerStep(w, "release", "close")
    /\ UNCHANGED <<mainVars, running, sock, backlog, path, acceptVars, executor, queue, conn, permits,
                   active, clientVars>>

ReleasePermit(w) ==
    /\ WorkerStep(w, "release", "close")
    /\ permits' = permits + 1
    /\ UNCHANGED <<mainVars, running, sock, backlog, path, acceptVars, executor, queue, conn, active,
                   clientVars>>

\* List, remove and purge need no permit.
HandleOther(w) ==
    /\ WorkerStep(w, "handle", "close")
    /\ Answer(w)
    /\ UNCHANGED <<mainVars, running, sock, backlog, path, acceptVars, executor, queue, conn, permits,
                   active, at, sent>>

\* (mutant) the connection stays open, for the next request of the client.
CloseLeavesOpen(w) ==
    /\ WorkerStep(w, "close", "free")
    /\ conn' = [conn EXCEPT ![w] = NoClient]
    /\ UNCHANGED <<mainVars, running, sock, backlog, path, acceptVars, executor, queue, permits, active,
                   clientVars>>

CloseConnection(w) ==
    /\ WorkerStep(w, "close", "free")
    /\ Close(conn[w])
    /\ conn' = [conn EXCEPT ![w] = NoClient]
    /\ UNCHANGED <<mainVars, running, sock, backlog, path, acceptVars, executor, queue, permits, active>>

-------------------------------------------------------------------------------
(* The clients.                                                            *)

Connect(c) ==
    /\ at[c] = "out" /\ path /\ sock = "listening"
    /\ at' = [at EXCEPT ![c] = "backlog"]
    /\ backlog' = Append(backlog, c)
    /\ UNCHANGED <<mainVars, running, sock, path, acceptVars, executor, queue, workerVars, sent,
                   got>>

\* c sends its request, or leaves without one.
Speak(c) ==
    /\ at[c] \in {"backlog", "connected"} /\ sent[c] = "nothing"
    /\ \E m \in {"build", "other", "garbage", "gone"} : sent' = [sent EXCEPT ![c] = m]
    /\ UNCHANGED <<mainVars, running, sock, backlog, path, acceptVars, executor, queue, workerVars, at, got>>

-------------------------------------------------------------------------------

Init ==
    /\ main = "socket" /\ stopping = "no" /\ handler = "server"
    /\ signals = 0 /\ shutdown = FALSE /\ running = FALSE
    /\ sock = "none" /\ backlog = <<>> /\ path \in BOOLEAN
    /\ acceptor = "none" /\ taken = NoClient
    /\ executor = "none" /\ queue = <<>>
    /\ wpc = [w \in Worker |-> "free"] /\ conn = [w \in Worker |-> NoClient]
    /\ permits = MaxWorkers /\ active = 0
    /\ at = [c \in Client |-> "out"]
    /\ sent = [c \in Client |-> "nothing"]
    /\ got = [c \in Client |-> "nothing"]

MainStep ==
    \/ CreateSocket \/ StartFails \/ CreatePool \/ SetRunning \/ StartThread
    \/ InstallHandlers \/ Wake \/ CallStop \/ Exit
    \/ CloseSocket \/ JoinAccept \/ ShutExecutor \/ Drain \/ Cleanup

AcceptStep == AcceptLoop \/ Accept \/ AcceptNothing \/ Submit

Serve(w) ==
    \/ TakeWork(w) \/ Authorize(w) \/ Receive(w)
    \/ Acquire(w) \/ CountBuild(w) \/ Build(w) \/ UncountBuild(w)
    \/ ReleasePermit(w) \/ HandleOther(w) \/ CloseConnection(w)

Next ==
    \/ MainStep \/ Signal \/ AcceptStep
    \/ \E w \in Worker : Serve(w)
    \/ \E c \in Client : Connect(c) \/ Speak(c)

Spec == Init /\ [][Next]_vars

\* Threads that can run are run; builds come to an end.
FairThreads ==
    /\ WF_vars(MainStep) /\ WF_vars(AcceptStep)
    /\ \A w \in Worker : WF_vars(Serve(w))

\* A client that has connected sends something or is gone in the end.
FairClients == \A c \in Client : WF_vars(Speak(c))

SpecThreads == Spec /\ FairThreads
FairSpec == SpecThreads /\ FairClients

-------------------------------------------------------------------------------
(* Properties.                                                             *)

MainOK ==
    /\ main \in {"socket", "permissions", "running", "thread", "handlers", "wait", "stop",
                 "stopped", "exited", "failed"}
    /\ stopping \in {"no", "close", "join", "drain", "clean"}
    /\ handler \in {"server", "main"}
    /\ signals \in 0..MaxSignals
    /\ shutdown \in BOOLEAN /\ running \in BOOLEAN /\ path \in BOOLEAN
    /\ sock \in {"none", "listening", "closed"}
    /\ executor \in {"none", "open", "shut"}

AcceptOK ==
    /\ acceptor \in {"none", "loop", "accept", "submit", "done"}
    /\ taken \in Client \cup {NoClient}
    /\ acceptor = "submit" => taken \in Client
    /\ backlog \in Seq(Client) /\ queue \in Seq(Client)

PoolOK ==
    /\ wpc \in [Worker -> {"free", "authorize", "receive", "acquire", "count", "build",
                          "uncount", "release", "handle", "close"}]
    /\ conn \in [Worker -> Client \cup {NoClient}]
    /\ \A w \in Worker : wpc[w] # "free" => conn[w] \in Client
    /\ permits \in 0..MaxWorkers /\ active \in 0..MaxWorkers

ClientsOK ==
    /\ at \in [Client -> {"out", "backlog", "connected", "over"}]
    /\ sent \in [Client -> {"nothing", "build", "other", "garbage", "gone"}]
    /\ got \in [Client -> {"nothing", "response", "eof", "reset", "turned away"}]

\* The types; a thread past its first step has a connection in its hands.
TypeOK == MainOK /\ AcceptOK /\ PoolOK /\ ClientsOK

\* Every open connection is in exactly one thread's hands or once in the queue, and
\* nothing else is: no connection is lost, none is served twice.
Holders(c) ==
    Cardinality({w \in Worker : conn[w] = c})
      + Cardinality({i \in DOMAIN queue : queue[i] = c})
      + (IF taken = c THEN 1 ELSE 0)

OneHolder == \A c \in Client : Holders(c) = IF at[c] = "connected" THEN 1 ELSE 0

\* The workers that hold a permit of the semaphore, and those counted as building.
Permitted == {w \in Worker : wpc[w] \in {"count", "build", "uncount", "release"}}
Building == {w \in Worker : wpc[w] \in {"build", "uncount"}}

\* No way through _handle_client loses or invents a permit, and the counter that is
\* logged is the number of builds that are running.
SlotsAccounted ==
    /\ permits + Cardinality(Permitted) = MaxWorkers
    /\ active = Cardinality(Building)

\* The pool has as many threads as the semaphore has permits: a build that a thread
\* has begun to serve never waits for one, let alone in vain.
NobodyTurnedAway ==
    /\ \A w \in Worker : wpc[w] = "acquire" => permits > 0
    /\ \A c \in Client : got[c] # "turned away"

\* When main() has returned by way of stop(), nobody can connect any more, and every
\* connection that was submitted to the pool, queued or begun, has been served.
ExitedClean ==
    main = "exited" =>
        /\ sock = "closed" /\ ~path /\ backlog = <<>>
        /\ \A c \in Client : at[c] = "connected" => c = taken

\* Whoever connects is answered or at least disconnected.
EveryoneServed == \A c \in Client : at[c] \in {"backlog", "connected"} ~> at[c] = "over"

\* stop() returns.
StopReturns == stopping # "no" ~> stopping = "no"

\* A daemon that has been sent a signal ends.
SignalHeeded == signals > 0 ~> main \in {"exited", "failed"}
===============================================================================
