------------------------- MODULE DaemonServer_proofs -------------------------
(***************************************************************************)
(* What holds of DaemonServer for every size of the pool, any number of    *)
(* connections and any number of signals.                                  *)
(***************************************************************************)
EXTENDS DaemonServer, FiniteSetTheorems, SequenceTheorems, TLAPS

-------------------------------------------------------------------------------
(* The pool and the semaphore.                                             *)

LEMMA PoolSize == MaxWorkers \in Nat
BY ServerAssumption, FS_CardinalityType DEF MaxWorkers

LEMMA SubsetSize ==
    ASSUME NEW S \in SUBSET Worker
    PROVE  /\ IsFiniteSet(S) /\ Cardinality(S) \in Nat
           /\ Cardinality(S) <= MaxWorkers
           /\ \A w \in Worker \ S : Cardinality(S \cup {w}) = Cardinality(S) + 1
           /\ \A w \in S : Cardinality(S \ {w}) = Cardinality(S) - 1 /\ Cardinality(S) > 0
<1>1. IsFiniteSet(S) /\ Cardinality(S) \in Nat /\ Cardinality(S) <= MaxWorkers
  BY ServerAssumption, FS_Subset, FS_CardinalityType DEF MaxWorkers
<1>2. \A w \in Worker \ S : Cardinality(S \cup {w}) = Cardinality(S) + 1
  BY <1>1, FS_AddElement
<1>3. \A w \in S : Cardinality(S \ {w}) = Cardinality(S) - 1
  BY <1>1, FS_RemoveElement
<1>4. S # {} => Cardinality(S) > 0
  BY <1>1, FS_EmptySet
<1> QED BY <1>1, <1>2, <1>3, <1>4

-------------------------------------------------------------------------------
(* Types.  What a thread does leaves the other threads' variables alone.   *)

pathVars == <<mainVars, running, sock, path, executor>>
lineVars == <<backlog, queue, acceptVars>>

LEMMA FrameMain == ASSUME MainOK, UNCHANGED pathVars PROVE MainOK'
BY DEF MainOK, pathVars, mainVars

LEMMA FrameAccept == ASSUME AcceptOK, UNCHANGED lineVars PROVE AcceptOK'
BY DEF AcceptOK, lineVars, acceptVars

LEMMA FramePool == ASSUME PoolOK, UNCHANGED workerVars PROVE PoolOK'
BY DEF PoolOK, workerVars

LEMMA FrameClients == ASSUME ClientsOK, UNCHANGED clientVars PROVE ClientsOK'
BY DEF ClientsOK, clientVars

LEMMA CloseType == ASSUME ClientsOK, NEW c \in Client, Close(c) PROVE ClientsOK'
BY DEF ClientsOK, Close

LEMMA ResetType ==
    ASSUME ClientsOK, Reset
    PROVE  ClientsOK' /\ backlog' \in Seq(Client)
<1>1. at' \in [Client -> {"out", "backlog", "connected", "over"}]
  BY DEF ClientsOK, Reset
<1>2. got' \in [Client -> {"nothing", "response", "eof", "reset", "turned away"}]
  BY DEF ClientsOK, Reset
<1>3. backlog' \in Seq(Client) /\ sent' = sent
  BY DEF Reset
<1> QED BY <1>1, <1>2, <1>3 DEF ClientsOK

LEMMA InitType == Init => TypeOK
<1> SUFFICES ASSUME Init
             PROVE  TypeOK
  OBVIOUS
<1>1. MainOK
  <2>1. signals \in 0..MaxSignals
    BY ServerAssumption DEF Init
  <2>2. path \in BOOLEAN /\ running \in BOOLEAN /\ shutdown \in BOOLEAN
    BY DEF Init
  <2> QED BY <2>1, <2>2 DEF Init, MainOK
<1>2. AcceptOK
  BY DEF Init, AcceptOK
<1>3. PoolOK
  BY PoolSize DEF Init, PoolOK
<1>4. ClientsOK
  BY DEF Init, ClientsOK
<1> QED BY <1>1, <1>2, <1>3, <1>4 DEF TypeOK

\* The main thread, with the signals it handles.
LEMMA MainType ==
    ASSUME TypeOK, MainStep \/ Signal
    PROVE  TypeOK' /\ UNCHANGED workerVars
<1> USE DEF TypeOK
<1>1. UNCHANGED workerVars
  BY DEF MainStep, Signal, CreateSocket, StartFails, CreatePool, SetRunning, StartThread,
     InstallHandlers, Wake, CallStop, Exit, CloseSocket, JoinAccept, ShutExecutor, Drain,
     Cleanup
<1>2. MainOK'
  <2> USE DEF MainOK, mainVars
  <2>1. CASE CreateSocket
    BY <2>1 DEF CreateSocket
  <2>2. CASE CreatePool \/ SetRunning
    BY <2>2 DEF CreatePool, SetRunning
  <2>3. CASE StartThread \/ InstallHandlers
    BY <2>3 DEF StartThread, InstallHandlers
  <2>4. CASE StartFails
    BY <2>4 DEF StartFails
  <2>5. CASE CloseSocket \/ JoinAccept
    BY <2>5 DEF CloseSocket, JoinAccept
  <2>6. CASE Wake \/ Exit
    BY <2>6 DEF Wake, Exit
  <2>7. CASE CallStop
    BY <2>7 DEF CallStop, BeginStop
  <2>8. CASE ShutExecutor \/ Drain \/ Cleanup
    BY <2>8 DEF ShutExecutor, Drain, Cleanup
  <2>9. CASE Signal
    <3>1. signals' \in 0..MaxSignals /\ UNCHANGED <<main, handler, sock, path, executor>>
      BY <2>9, ServerAssumption DEF Signal
    <3>2. stopping' \in {stopping, "close"} /\ running' \in {running, FALSE}
            /\ shutdown' \in {shutdown, TRUE}
      BY <2>9 DEF Signal, BeginStop
    <3>3. /\ stopping' \in {"no", "close", "join", "drain", "clean"}
          /\ running' \in BOOLEAN /\ shutdown' \in BOOLEAN
      BY <3>2
    <3> QED BY <3>1, <3>3
  <2> QED BY <2>1, <2>2, <2>3, <2>4, <2>5, <2>6, <2>7, <2>8, <2>9 DEF MainStep
<1>3. AcceptOK' /\ ClientsOK'
  <2>1. CASE StartFails \/ CloseSocket
    BY <2>1, ResetType DEF StartFails, CloseSocket, AcceptOK, acceptVars
  <2>2. CASE StartThread
    BY <2>2, FrameClients DEF StartThread, AcceptOK
  <2>3. CASE UNCHANGED <<lineVars, clientVars>>
    BY <2>3, FrameAccept, FrameClients
  <2>4. StartFails \/ CloseSocket \/ StartThread \/ UNCHANGED <<lineVars, clientVars>>
    BY DEF MainStep, Signal, CreateSocket, CreatePool, SetRunning, InstallHandlers, Wake,
       CallStop, Exit, JoinAccept, ShutExecutor, Drain, Cleanup, lineVars, clientVars
  <2> QED BY <2>1, <2>2, <2>3, <2>4
<1> QED BY <1>1, <1>2, <1>3, FramePool

LEMMA AcceptType ==
    ASSUME TypeOK, AcceptStep
    PROVE  TypeOK' /\ UNCHANGED workerVars
<1> USE DEF TypeOK
<1>1. UNCHANGED <<pathVars, workerVars>>
  BY DEF AcceptStep, AcceptLoop, Accept, AcceptNothing, Submit, pathVars
<1>2. AcceptOK' /\ ClientsOK'
  <2>1. CASE AcceptLoop \/ AcceptNothing
    <3>1. acceptor' \in {"loop", "accept", "done"} /\ UNCHANGED <<backlog, queue, taken, clientVars>>
      BY <2>1 DEF AcceptLoop, AcceptNothing
    <3> QED BY <3>1, FrameClients DEF AcceptOK
  <2>2. CASE Accept
    <3>1. Head(backlog) \in Client /\ Tail(backlog) \in Seq(Client)
      BY <2>2, HeadTailProperties DEF Accept, AcceptOK
    <3>2. AcceptOK'
      BY <2>2, <3>1 DEF Accept, AcceptOK
    <3> QED BY <2>2, <3>2 DEF Accept, ClientsOK
  <2>3. CASE Submit
    <3>1. taken \in Client
      BY <2>3 DEF Submit, AcceptOK
    <3>2. Append(queue, taken) \in Seq(Client)
      BY <3>1, AppendProperties DEF AcceptOK
    <3>3. queue' \in Seq(Client) /\ taken' = NoClient /\ acceptor' = "loop" /\ UNCHANGED backlog
      BY <2>3, <3>2 DEF Submit, AcceptOK
    <3>4. ClientsOK'
      BY <2>3, <3>1, CloseType, FrameClients DEF Submit
    <3> QED BY <3>3, <3>4 DEF AcceptOK
  <2> QED BY <2>1, <2>2, <2>3 DEF AcceptStep
<1> QED BY <1>1, <1>2, FrameMain, FramePool

LEMMA ClientType ==
    ASSUME TypeOK, NEW c \in Client, Connect(c) \/ Speak(c)
    PROVE  TypeOK' /\ UNCHANGED workerVars
<1> USE DEF TypeOK
<1>1. UNCHANGED <<pathVars, workerVars>>
  BY DEF Connect, Speak, pathVars
<1>2. AcceptOK' /\ ClientsOK'
  <2>1. CASE Connect(c)
    <3>1. Append(backlog, c) \in Seq(Client)
      BY AppendProperties DEF AcceptOK
    <3>2. AcceptOK'
      BY <2>1, <3>1 DEF Connect, AcceptOK, acceptVars
    <3> QED BY <2>1, <3>2 DEF Connect, ClientsOK
  <2>2. CASE Speak(c)
    <3>1. AcceptOK'
      BY <2>2, FrameAccept DEF Speak, lineVars
    <3> QED BY <2>2, <3>1 DEF Speak, ClientsOK
  <2> QED BY <2>1, <2>2
<1> QED BY <1>1, <1>2, FrameMain, FramePool

-------------------------------------------------------------------------------
(* The semaphore and the count of builds.                                  *)

PoolInv == TypeOK /\ SlotsAccounted

\* A worker takes and returns permits one at a time.
LEMMA ServeSlots ==
    ASSUME PoolInv, NEW w \in Worker, Serve(w)
    PROVE  SlotsAccounted' /\ permits' \in 0..MaxWorkers /\ active' \in 0..MaxWorkers
<1> DEFINE P == Permitted
           B == Building
<1>1. /\ DOMAIN wpc = Worker /\ permits \in Nat /\ active \in Nat /\ MaxWorkers \in Nat
      /\ permits + Cardinality(P) = MaxWorkers /\ active = Cardinality(B)
  BY PoolSize DEF PoolInv, TypeOK, PoolOK, SlotsAccounted
<1>2. P \in SUBSET Worker /\ B \in SUBSET Worker
  BY DEF Permitted, Building
<1>3. /\ Cardinality(P) \in Nat /\ Cardinality(B) \in Nat
      /\ \A v \in Worker \ P : Cardinality(P \cup {v}) = Cardinality(P) + 1
      /\ \A v \in P : Cardinality(P \ {v}) = Cardinality(P) - 1
      /\ \A v \in Worker \ B : Cardinality(B \cup {v}) = Cardinality(B) + 1
      /\ \A v \in B : Cardinality(B \ {v}) = Cardinality(B) - 1
  <2> HIDE DEF P, B
  <2> QED BY <1>2, SubsetSize
<1>4. /\ permits' \in Int /\ active' \in Int
      /\ permits' + Cardinality(P') = MaxWorkers
      /\ active' = Cardinality(B')
  <2>1. CASE \/ TakeWork(w) \/ Authorize(w) \/ Receive(w) \/ HandleOther(w)
             \/ CloseConnection(w) \/ Build(w)
    <3>1. P' = P /\ B' = B
      BY <1>1, <2>1 DEF TakeWork, Authorize, Receive, HandleOther, CloseConnection, Build,
         WorkerStep, Permitted, Building
    <3>2. UNCHANGED <<permits, active>>
      BY <2>1 DEF TakeWork, Authorize, Receive, HandleOther, CloseConnection, Build
    <3> HIDE DEF P, B
    <3> QED BY <1>1, <3>1, <3>2
  <2>2. CASE Acquire(w)
    <3>1. CASE permits > 0
      <4>1. P' = P \cup {w} /\ w \in Worker \ P /\ B' = B
        BY <1>1, <2>2, <3>1 DEF Acquire, WorkerStep, Permitted, Building
      <4>2. permits' = permits - 1 /\ active' = active
        BY <2>2, <3>1 DEF Acquire
      <4> HIDE DEF P, B
      <4> QED BY <1>1, <1>3, <4>1, <4>2
    <3>2. CASE ~(permits > 0)
      <4>1. P' = P /\ B' = B
        BY <1>1, <2>2, <3>2 DEF Acquire, WorkerStep, Permitted, Building
      <4>2. UNCHANGED <<permits, active>>
        BY <2>2, <3>2 DEF Acquire
      <4> HIDE DEF P, B
      <4> QED BY <1>1, <4>1, <4>2
    <3> QED BY <3>1, <3>2
  <2>3. CASE CountBuild(w)
    <3>1. P' = P /\ B' = B \cup {w} /\ w \in Worker \ B
      BY <1>1, <2>3 DEF CountBuild, WorkerStep, Permitted, Building
    <3>2. permits' = permits /\ active' = active + 1
      BY <2>3 DEF CountBuild
    <3> HIDE DEF P, B
    <3> QED BY <1>1, <1>3, <3>1, <3>2
  <2>4. CASE UncountBuild(w)
    <3>1. P' = P /\ B' = B \ {w} /\ w \in B
      BY <1>1, <2>4 DEF UncountBuild, WorkerStep, Permitted, Building
    <3>2. permits' = permits /\ active' = active - 1
      BY <2>4 DEF UncountBuild
    <3> HIDE DEF P, B
    <3> QED BY <1>1, <1>3, <3>1, <3>2
  <2>5. CASE ReleasePermit(w)
    <3>1. P' = P \ {w} /\ w \in P /\ B' = B
      BY <1>1, <2>5 DEF ReleasePermit, WorkerStep, Permitted, Building
    <3>2. permits' = permits + 1 /\ active' = active
      BY <2>5 DEF ReleasePermit
    <3> HIDE DEF P, B
    <3> QED BY <1>1, <1>3, <3>1, <3>2
  <2> HIDE DEF P, B
  <2> QED BY <2>1, <2>2, <2>3, <2>4, <2>5 DEF Serve
<1>5. P' \in SUBSET Worker /\ B' \in SUBSET Worker
  BY DEF Permitted, Building
<1>6. Cardinality(P') \in Nat /\ Cardinality(B') \in Nat /\ Cardinality(P') <= MaxWorkers
        /\ Cardinality(B') <= MaxWorkers
  <2> HIDE DEF P, B
  <2> QED BY <1>5, SubsetSize
<1>7. SlotsAccounted'
  BY <1>4 DEF SlotsAccounted, MaxWorkers
<1>8. permits' \in 0..MaxWorkers /\ active' \in 0..MaxWorkers
  <2> HIDE DEF P, B
  <2> QED BY <1>1, <1>4, <1>6
<1> QED BY <1>7, <1>8

LEMMA ServeType ==
    ASSUME PoolInv, NEW w \in Worker, Serve(w)
    PROVE  TypeOK'
<1> USE DEF PoolInv, TypeOK
<1>1. UNCHANGED <<pathVars, backlog, acceptVars>>
  BY DEF Serve, TakeWork, Authorize, Receive, Acquire, CountBuild, Build, UncountBuild,
     ReleasePermit, HandleOther, CloseConnection, pathVars
<1>2. permits' \in 0..MaxWorkers /\ active' \in 0..MaxWorkers
  BY ServeSlots
<1>3. wpc[w] # "free" => conn[w] \in Client
  BY DEF PoolOK
<1>4. AcceptOK' /\ PoolOK' /\ ClientsOK'
  <2>1. CASE TakeWork(w)
    <3>1. Head(queue) \in Client /\ Tail(queue) \in Seq(Client)
      BY <2>1, HeadTailProperties DEF TakeWork, AcceptOK
    <3>2. AcceptOK'
      BY <1>1, <2>1, <3>1 DEF TakeWork, AcceptOK, acceptVars
    <3>3. PoolOK'
      BY <1>2, <2>1, <3>1 DEF TakeWork, PoolOK, WorkerStep
    <3> QED BY <2>1, <3>2, <3>3, FrameClients DEF TakeWork
  <2>2. CASE \/ Authorize(w) \/ Receive(w) \/ CountBuild(w) \/ UncountBuild(w)
             \/ ReleasePermit(w)
    <3>1. UNCHANGED <<lineVars, conn, clientVars>>
      BY <1>1, <2>2 DEF Authorize, Receive, CountBuild, UncountBuild, ReleasePermit, lineVars
    <3>2. wpc[w] # "free" /\ \E to \in {"receive", "close", "acquire", "handle", "build", "release"} :
            wpc' = [wpc EXCEPT ![w] = to]
      BY <2>2 DEF Authorize, Receive, CountBuild, UncountBuild, ReleasePermit, WorkerStep
    <3>3. PoolOK'
      BY <1>2, <3>1, <3>2 DEF PoolOK
    <3> QED BY <3>1, <3>3, FrameAccept, FrameClients
  <2>3. CASE Acquire(w)
    <3>1. UNCHANGED <<lineVars, conn, at, sent>>
      BY <1>1, <2>3 DEF Acquire, lineVars
    <3>2. PoolOK'
      BY <1>2, <2>3 DEF Acquire, WorkerStep, PoolOK
    <3>3. ClientsOK'
      BY <2>3 DEF Acquire, ClientsOK
    <3> QED BY <3>1, <3>2, <3>3, FrameAccept
  <2>4. CASE Build(w) \/ HandleOther(w)
    <3>1. UNCHANGED <<lineVars, conn, at, sent>> /\ Answer(w)
      BY <1>1, <2>4 DEF Build, HandleOther, lineVars
    <3>2. PoolOK'
      BY <1>2, <2>4 DEF Build, HandleOther, WorkerStep, PoolOK
    <3>3. ClientsOK'
      BY <3>1 DEF Answer, ClientsOK
    <3> QED BY <3>1, <3>2, <3>3, FrameAccept
  <2>5. CASE CloseConnection(w)
    <3>1. UNCHANGED lineVars
      BY <1>1, <2>5 DEF CloseConnection, lineVars
    <3>2. PoolOK'
      BY <1>2, <2>5 DEF CloseConnection, WorkerStep, PoolOK
    <3>3. ClientsOK'
      BY <1>3, <2>5, CloseType DEF CloseConnection, WorkerStep
    <3> QED BY <3>1, <3>2, <3>3, FrameAccept
  <2> QED BY <2>1, <2>2, <2>3, <2>4, <2>5 DEF Serve
<1> QED BY <1>1, <1>4, FrameMain

LEMMA FrameSlots == ASSUME SlotsAccounted, UNCHANGED workerVars PROVE SlotsAccounted'
BY DEF SlotsAccounted, Permitted, Building, workerVars

LEMMA InitPoolInv == Init => PoolInv
<1> SUFFICES ASSUME Init
             PROVE  PoolInv
  OBVIOUS
<1>1. Permitted = {} /\ Building = {}
  BY DEF Init, Permitted, Building
<1>2. SlotsAccounted
  BY <1>1, PoolSize, FS_EmptySet DEF SlotsAccounted, Init
<1> QED BY <1>2, InitType DEF PoolInv

LEMMA NextPoolInv == PoolInv /\ [Next]_vars => PoolInv'
<1> SUFFICES ASSUME PoolInv, [Next]_vars
             PROVE  PoolInv'
  OBVIOUS
<1> USE DEF PoolInv
<1>1. CASE MainStep \/ Signal
  BY <1>1, MainType, FrameSlots
<1>2. CASE AcceptStep
  BY <1>2, AcceptType, FrameSlots
<1>3. ASSUME NEW w \in Worker, Serve(w) PROVE PoolInv'
  BY <1>3, ServeType, ServeSlots
<1>4. ASSUME NEW c \in Client, Connect(c) \/ Speak(c) PROVE PoolInv'
  BY <1>4, ClientType, FrameSlots
<1>5. CASE UNCHANGED vars
  BY <1>5, FrameMain, FrameAccept, FramePool, FrameClients, FrameSlots
     DEF vars, TypeOK, pathVars, lineVars
<1> QED BY <1>1, <1>2, <1>3, <1>4, <1>5 DEF Next

\* The semaphore's permits and the count of active builds are exact at every moment,
\* on every path through _handle_client, for a pool of any size.
THEOREM SlotsCorrect == Spec => [](TypeOK /\ SlotsAccounted)
BY InitPoolInv, NextPoolInv, PTL DEF Spec, PoolInv

-------------------------------------------------------------------------------
(* No build waits for a permit.                                            *)

\* A worker that is about to take a permit does not hold one, so those that do are
\* fewer than the pool has threads.
LEMMA PermitToTake ==
    ASSUME PoolInv, NEW w \in Worker, wpc[w] = "acquire"
    PROVE  permits > 0
<1> DEFINE P == Permitted
<1>1. P \in SUBSET Worker /\ w \in Worker \ P /\ P \cup {w} \in SUBSET Worker
  BY DEF Permitted
<1>2. permits \in Nat /\ permits + Cardinality(P) = MaxWorkers
  BY PoolSize DEF PoolInv, TypeOK, PoolOK, SlotsAccounted
<1> HIDE DEF P
<1>3. Cardinality(P) \in Nat /\ Cardinality(P \cup {w}) = Cardinality(P) + 1
  BY <1>1, SubsetSize
<1>4. Cardinality(P \cup {w}) <= MaxWorkers
  BY <1>1, SubsetSize
<1> QED BY <1>2, <1>3, <1>4, PoolSize

NoneTurnedAway == \A c \in Client : got[c] # "turned away"

\* Of all the steps only Acquire turns a client away, and it finds a permit.
LEMMA NextNoneTurnedAway == PoolInv /\ NoneTurnedAway /\ [Next]_vars => NoneTurnedAway'
<1> SUFFICES ASSUME PoolInv, NoneTurnedAway, [Next]_vars
             PROVE  NoneTurnedAway'
  OBVIOUS
<1>1. ClientsOK
  BY DEF PoolInv, TypeOK
<1>2. CASE StartFails \/ CloseSocket
  BY <1>1, <1>2 DEF StartFails, CloseSocket, Reset, NoneTurnedAway, ClientsOK
<1>3. CASE Submit
  BY <1>1, <1>3 DEF Submit, Close, clientVars, NoneTurnedAway, ClientsOK
<1>4. ASSUME NEW w \in Worker, CloseConnection(w) PROVE NoneTurnedAway'
  BY <1>1, <1>4 DEF CloseConnection, Close, NoneTurnedAway, ClientsOK
<1>5. ASSUME NEW w \in Worker, Build(w) \/ HandleOther(w) PROVE NoneTurnedAway'
  BY <1>1, <1>5 DEF Build, HandleOther, Answer, NoneTurnedAway, ClientsOK
<1>6. ASSUME NEW w \in Worker, Acquire(w) PROVE NoneTurnedAway'
  <2>1. permits > 0
    BY <1>6, PermitToTake DEF Acquire, WorkerStep
  <2> QED BY <1>6, <2>1 DEF Acquire, NoneTurnedAway
<1>7. CASE UNCHANGED got
  BY <1>7 DEF NoneTurnedAway
<1>8. MainStep \/ Signal => StartFails \/ CloseSocket \/ UNCHANGED got
  BY DEF MainStep, Signal, CreateSocket, CreatePool, SetRunning, StartThread, InstallHandlers,
     Wake, CallStop, Exit, JoinAccept, ShutExecutor, Drain, Cleanup, clientVars
<1>9. AcceptStep => Submit \/ UNCHANGED got
  BY DEF AcceptStep, AcceptLoop, Accept, AcceptNothing, clientVars
<1>10. ASSUME NEW w \in Worker, Serve(w)
       PROVE  CloseConnection(w) \/ Build(w) \/ HandleOther(w) \/ Acquire(w) \/ UNCHANGED got
  BY <1>10 DEF Serve, TakeWork, Authorize, Receive, CountBuild, UncountBuild, ReleasePermit,
     clientVars
<1>11. ASSUME NEW c \in Client, Connect(c) \/ Speak(c) PROVE UNCHANGED got
  BY <1>11 DEF Connect, Speak
<1>12. CASE UNCHANGED vars
  BY <1>7, <1>12 DEF vars, clientVars
<1> QED BY <1>2, <1>3, <1>4, <1>5, <1>6, <1>7, <1>8, <1>9, <1>10, <1>11, <1>12 DEF Next

\* As many threads as permits: a build a thread has begun to serve always finds one,
\* whatever the size of the pool.
THEOREM PermitsSuffice == Spec => []NobodyTurnedAway
<1>1. Init => NoneTurnedAway
  BY DEF Init, NoneTurnedAway
<1>2. PoolInv /\ NoneTurnedAway => NobodyTurnedAway
  BY PermitToTake DEF NobodyTurnedAway, NoneTurnedAway
<1> QED BY InitPoolInv, NextPoolInv, NextNoneTurnedAway, <1>1, <1>2, PTL DEF Spec

-------------------------------------------------------------------------------
(* The end of main().                                                      *)

Started == main \in {"thread", "handlers", "wait", "stop", "stopped", "exited"}

Drained == executor = "shut" /\ queue = <<>> /\ \A w \in Worker : wpc[w] = "free"

\* How far stop() has come, and what it has achieved by then.
PhaseInv ==
    /\ running => main \in {"thread", "handlers", "wait", "stop"} /\ stopping = "no"
    /\ main \in {"socket", "permissions", "running", "exited"} => stopping = "no"
    /\ stopping \in {"join", "drain", "clean"} => sock = "closed"
    /\ stopping = "clean" => Drained
    /\ Started /\ ~running /\ stopping = "no" => sock = "closed" /\ ~path /\ Drained
    /\ sock = "closed" => backlog = <<>>

LEMMA MainPhase == ASSUME PoolInv, PhaseInv, MainStep \/ Signal PROVE PhaseInv'
<1>1. MainOK /\ UNCHANGED <<wpc, queue>>
  BY DEF PoolInv, TypeOK, MainStep, Signal, CreateSocket, StartFails, CreatePool, SetRunning,
     StartThread, InstallHandlers, Wake, CallStop, Exit, CloseSocket, JoinAccept, ShutExecutor,
     Drain, Cleanup, workerVars
<1>2. Drained /\ executor' = executor => Drained'
  BY <1>1 DEF Drained
<1> USE <1>1, <1>2 DEF PhaseInv, Started, MainAt, mainVars
<1>3. CASE CreateSocket \/ CreatePool \/ SetRunning
  BY <1>3 DEF CreateSocket, CreatePool, SetRunning
<1>4. CASE StartThread \/ InstallHandlers \/ Wake \/ Exit
  BY <1>4 DEF StartThread, InstallHandlers, Wake, Exit
<1>5. CASE StartFails
  BY <1>5 DEF StartFails, Reset
<1>6. CASE CallStop
  BY <1>6 DEF CallStop, BeginStop
<1>7. CASE CloseSocket
  BY <1>7 DEF CloseSocket, Reset
<1>8. CASE JoinAccept \/ ShutExecutor
  BY <1>8 DEF JoinAccept, ShutExecutor
<1>9. CASE Drain
  <2>1. Drained'
    BY <1>9, <1>1 DEF Drain, Drained
  <2> QED BY <1>9, <2>1 DEF Drain
<1>10. CASE Cleanup
  BY <1>10 DEF Cleanup
<1>11. CASE Signal
  BY <1>11 DEF Signal, BeginStop
<1> QED BY <1>3, <1>4, <1>5, <1>6, <1>7, <1>8, <1>9, <1>10, <1>11 DEF MainStep

LEMMA OtherPhase ==
    ASSUME PoolInv, PhaseInv, UNCHANGED pathVars, Drained => Drained',
           sock = "closed" => UNCHANGED backlog
    PROVE  PhaseInv'
BY DEF PhaseInv, Started, pathVars, mainVars

\* Once the pool is shut and idle it stays so.
LEMMA NextPhaseInv == PoolInv /\ PhaseInv /\ [Next]_vars => PhaseInv'
<1> SUFFICES ASSUME PoolInv, PhaseInv, [Next]_vars
             PROVE  PhaseInv'
  OBVIOUS
<1>1. CASE MainStep \/ Signal
  BY <1>1, MainPhase
<1>2. CASE AcceptStep
  <2>1. UNCHANGED pathVars
    BY <1>2 DEF AcceptStep, AcceptLoop, Accept, AcceptNothing, Submit, pathVars
  <2>2. sock = "closed" => UNCHANGED backlog
    BY <1>2 DEF AcceptStep, AcceptLoop, Accept, AcceptNothing, Submit
  <2>3. Drained => Drained'
    BY <1>2 DEF AcceptStep, AcceptLoop, Accept, AcceptNothing, Submit, Drained, workerVars
  <2> QED BY <2>1, <2>2, <2>3, OtherPhase
<1>3. ASSUME NEW w \in Worker, Serve(w) PROVE PhaseInv'
  <2>1. UNCHANGED <<pathVars, backlog>>
    BY <1>3 DEF Serve, TakeWork, Authorize, Receive, Acquire, CountBuild, Build, UncountBuild,
       ReleasePermit, HandleOther, CloseConnection, pathVars
  <2>2. wpc[w] = "free" => queue # <<>>
    BY <1>3 DEF Serve, TakeWork, Authorize, Receive, Acquire, CountBuild, Build, UncountBuild,
       ReleasePermit, HandleOther, CloseConnection, WorkerStep
  <2>3. ~Drained
    BY <2>2 DEF Drained
  <2> QED BY <2>1, <2>3, OtherPhase
<1>4. ASSUME NEW c \in Client, Connect(c) \/ Speak(c) PROVE PhaseInv'
  <2>1. UNCHANGED <<pathVars, workerVars, queue>> /\ (sock = "closed" => UNCHANGED backlog)
    BY <1>4 DEF Connect, Speak, pathVars
  <2>2. Drained => Drained'
    BY <2>1 DEF Drained, pathVars, workerVars
  <2> QED BY <2>1, <2>2, OtherPhase
<1>5. CASE UNCHANGED vars
  BY <1>5, OtherPhase DEF vars, pathVars, workerVars, Drained
<1> QED BY <1>1, <1>2, <1>3, <1>4, <1>5 DEF Next

-------------------------------------------------------------------------------
(* Somebody holds every open connection.                                   *)

Queued(c) == \E i \in DOMAIN queue : queue[i] = c

HeldInv ==
    /\ main \in {"socket", "permissions", "running", "thread"} => acceptor = "none"
    /\ acceptor # "submit" => taken = NoClient
    /\ \A w \in Worker : wpc[w] = "free" => conn[w] = NoClient
    /\ \A c \in Client : at[c] = "connected" =>
          taken = c \/ Queued(c) \/ \E w \in Worker : conn[w] = c

LEMMA SeqEnds ==
    ASSUME NEW s \in Seq(Client), NEW c
    PROVE  /\ \A i \in DOMAIN s : Append(s, c)[i] = s[i] /\ i \in DOMAIN Append(s, c)
           /\ LET a == Append(s, c) IN Len(s) + 1 \in DOMAIN a /\ a[Len(s) + 1] = c
           /\ \A i \in DOMAIN s : s[i] = Head(s) \/ \E j \in DOMAIN Tail(s) : Tail(s)[j] = s[i]
<1>1. \A i \in DOMAIN s : Append(s, c)[i] = s[i] /\ i \in DOMAIN Append(s, c)
  OBVIOUS
<1>2. LET a == Append(s, c) IN Len(s) + 1 \in DOMAIN a /\ a[Len(s) + 1] = c
  OBVIOUS
<1>3. ASSUME NEW i \in DOMAIN s
      PROVE  s[i] = Head(s) \/ \E j \in DOMAIN Tail(s) : Tail(s)[j] = s[i]
  <2>1. CASE i = 1
    BY <2>1
  <2>2. CASE i # 1
    <3>1. i - 1 \in DOMAIN Tail(s) /\ Tail(s)[i - 1] = s[i]
      BY <2>2
    <3> QED BY <3>1
  <2> QED BY <2>1, <2>2
<1> QED BY <1>1, <1>2, <1>3

LEMMA MainHeld == ASSUME PoolInv, HeldInv, MainStep \/ Signal PROVE HeldInv'
<1>1. UNCHANGED <<conn, wpc, queue, taken>>
  BY DEF MainStep, Signal, CreateSocket, StartFails, CreatePool, SetRunning, StartThread,
     InstallHandlers, Wake, CallStop, Exit, CloseSocket, JoinAccept, ShutExecutor, Drain,
     Cleanup, workerVars, acceptVars
<1>2. /\ main' \in {"socket", "permissions", "running", "thread"} => acceptor' = "none"
      /\ acceptor' # "submit" => taken' = NoClient
  <2> USE DEF HeldInv, MainAt, mainVars, acceptVars
  <2>1. CASE CreateSocket \/ CreatePool \/ SetRunning \/ StartFails
    BY <2>1 DEF CreateSocket, CreatePool, SetRunning, StartFails
  <2>2. CASE StartThread \/ InstallHandlers \/ Wake \/ CallStop \/ Exit
    BY <2>2 DEF StartThread, InstallHandlers, Wake, CallStop, Exit
  <2>3. CASE CloseSocket \/ JoinAccept \/ ShutExecutor \/ Drain \/ Cleanup \/ Signal
    BY <2>3 DEF CloseSocket, JoinAccept, ShutExecutor, Drain, Cleanup, Signal
  <2> QED BY <2>1, <2>2, <2>3 DEF MainStep
<1>3. \A c \in Client : at'[c] = "connected" => at[c] = "connected"
  <2>1. Reset \/ UNCHANGED at
    BY DEF MainStep, Signal, CreateSocket, StartFails, CreatePool, SetRunning, StartThread,
       InstallHandlers, Wake, CallStop, Exit, CloseSocket, JoinAccept, ShutExecutor, Drain,
       Cleanup, clientVars
  <2> QED BY <2>1 DEF Reset
<1> QED BY <1>1, <1>2, <1>3 DEF HeldInv, Queued

LEMMA AcceptHeld == ASSUME PoolInv, HeldInv, AcceptStep PROVE HeldInv'
<1>1. /\ main \in {"socket", "permissions", "running", "thread"} => acceptor = "none"
      /\ acceptor # "none" /\ UNCHANGED <<main, wpc, conn>>
  BY DEF HeldInv, AcceptStep, AcceptLoop, Accept, AcceptNothing, Submit, mainVars, workerVars
<1>2. AcceptOK /\ ClientsOK
  BY DEF PoolInv, TypeOK
<1>3. CASE AcceptLoop \/ AcceptNothing
  BY <1>1, <1>3 DEF AcceptLoop, AcceptNothing, HeldInv, Queued, mainVars, workerVars, clientVars
<1>4. CASE Accept
  <2>1. Head(backlog) \in Client /\ taken = NoClient
    BY <1>2, <1>4, HeadTailProperties DEF Accept, AcceptOK, HeldInv
  <2>2. \A c \in Client : at'[c] = "connected" => at[c] = "connected" \/ c = taken'
    BY <1>2, <1>4, <2>1 DEF Accept, ClientsOK
  <2>3. NoClient \notin Client
    BY ServerAssumption
  <2> QED BY <1>1, <1>4, <2>1, <2>2, <2>3 DEF Accept, HeldInv, Queued
<1>5. CASE Submit
  <2>1. taken \in Client /\ queue \in Seq(Client)
    BY <1>2, <1>5 DEF Submit, AcceptOK
  <2>2. CASE executor = "open"
    <3>1. queue' = Append(queue, taken) /\ UNCHANGED at
      BY <1>5, <2>2 DEF Submit, clientVars
    <3>2. ASSUME NEW c \in Client, Queued(c) \/ c = taken PROVE Queued(c)'
      BY <2>1, <3>1, <3>2, SeqEnds DEF Queued
    <3> QED BY <1>1, <1>5, <3>1, <3>2 DEF Submit, HeldInv
  <2>3. CASE executor # "open"
    <3>1. UNCHANGED queue /\ \A c \in Client : at'[c] = "connected" => at[c] = "connected" /\ c # taken
      BY <1>2, <1>5, <2>1, <2>3 DEF Submit, Close, ClientsOK
    <3> QED BY <1>1, <1>5, <3>1 DEF Submit, HeldInv, Queued
  <2> QED BY <2>2, <2>3
<1> QED BY <1>3, <1>4, <1>5 DEF AcceptStep

LEMMA ServeHeld == ASSUME PoolInv, HeldInv, NEW w \in Worker, Serve(w) PROVE HeldInv'
<1>1. UNCHANGED <<main, acceptVars>>
  BY DEF Serve, TakeWork, Authorize, Receive, Acquire, CountBuild, Build, UncountBuild,
     ReleasePermit, HandleOther, CloseConnection, mainVars
<1>2. AcceptOK /\ ClientsOK /\ DOMAIN wpc = Worker /\ DOMAIN conn = Worker
  BY DEF PoolInv, TypeOK, PoolOK
<1>3. CASE TakeWork(w)
  <2>1. queue \in Seq(Client) /\ Head(queue) \in Client
    BY <1>2, <1>3, HeadTailProperties DEF TakeWork, AcceptOK
  <2>2. ASSUME NEW c \in Client, Queued(c) PROVE c = Head(queue) \/ Queued(c)'
    <3>1. PICK i \in DOMAIN queue : queue[i] = c
      BY <2>2 DEF Queued
    <3>2. c = Head(queue) \/ \E j \in DOMAIN Tail(queue) : Tail(queue)[j] = c
      BY <2>1, <3>1, SeqEnds
    <3> QED BY <1>3, <3>2 DEF TakeWork, Queued
  <2>3. conn' = [conn EXCEPT ![w] = Head(queue)] /\ conn[w] = NoClient /\ UNCHANGED at
    BY <1>3 DEF TakeWork, WorkerStep, HeldInv, clientVars
  <2>4. \A v \in Worker : wpc'[v] = "free" => v # w /\ wpc[v] = "free"
    BY <1>2, <1>3 DEF TakeWork, WorkerStep
  <2>5. \A v \in Worker : wpc'[v] = "free" => conn'[v] = NoClient
    BY <1>2, <2>3, <2>4 DEF HeldInv
  <2>6. ASSUME NEW c \in Client, at'[c] = "connected"
        PROVE  taken = c \/ Queued(c)' \/ \E v \in Worker : conn'[v] = c
    <3>1. CASE \E v \in Worker : conn[v] = c
      BY <1>2, <2>3, <3>1, ServerAssumption
    <3>2. CASE c = Head(queue)
      BY <1>2, <2>3, <3>2
    <3> QED BY <2>2, <2>3, <2>6, <3>1, <3>2 DEF HeldInv
  <2> QED BY <1>1, <2>5, <2>6 DEF HeldInv, acceptVars
<1>4. CASE CloseConnection(w)
  <2>1. conn' = [conn EXCEPT ![w] = NoClient] /\ UNCHANGED queue
    BY <1>4 DEF CloseConnection
  <2>2. \A v \in Worker : wpc'[v] = "free" => v = w \/ wpc[v] = "free"
    BY <1>2, <1>4 DEF CloseConnection, WorkerStep
  <2>3. \A c \in Client : at'[c] = "connected" => at[c] = "connected" /\ c # conn[w]
    BY <1>2, <1>4 DEF CloseConnection, Close, ClientsOK
  <2> QED BY <1>1, <1>2, <2>1, <2>2, <2>3 DEF HeldInv, Queued, acceptVars
<1>5. CASE \/ Authorize(w) \/ Receive(w) \/ Acquire(w) \/ CountBuild(w) \/ Build(w)
           \/ UncountBuild(w) \/ ReleasePermit(w) \/ HandleOther(w)
  <2>1. UNCHANGED <<queue, conn, at>>
    BY <1>5 DEF Authorize, Receive, Acquire, CountBuild, Build, UncountBuild, ReleasePermit,
       HandleOther, clientVars
  <2>2. \A v \in Worker : wpc'[v] = "free" => wpc[v] = "free"
    BY <1>2, <1>5 DEF Authorize, Receive, Acquire, CountBuild, Build, UncountBuild,
       ReleasePermit, HandleOther, WorkerStep
  <2> QED BY <1>1, <2>1, <2>2 DEF HeldInv, Queued, acceptVars
<1> QED BY <1>3, <1>4, <1>5 DEF Serve

LEMMA NextHeldInv == PoolInv /\ HeldInv /\ [Next]_vars => HeldInv'
<1> SUFFICES ASSUME PoolInv, HeldInv, [Next]_vars
             PROVE  HeldInv'
  OBVIOUS
<1>1. ASSUME NEW c \in Client, Connect(c) \/ Speak(c) PROVE HeldInv'
  <2>1. UNCHANGED <<main, acceptVars, queue, workerVars>>
    BY <1>1 DEF Connect, Speak, mainVars
  <2>2. \A d \in Client : at'[d] = "connected" => at[d] = "connected"
    BY <1>1 DEF Connect, Speak, PoolInv, TypeOK, ClientsOK
  <2> QED BY <2>1, <2>2 DEF HeldInv, Queued, acceptVars, workerVars
<1>2. CASE UNCHANGED vars
  BY <1>2 DEF HeldInv, Queued, vars, mainVars, acceptVars, workerVars, clientVars
<1> QED BY <1>1, <1>2, MainHeld, AcceptHeld, ServeHeld DEF Next

\* stop() leaves no connection behind, except one the accept thread took off the
\* backlog as the socket was closing: whatever the pool had been given has been served.
THEOREM StopDrains == Spec => []ExitedClean
<1>1. Init => PhaseInv /\ HeldInv
  BY DEF Init, PhaseInv, HeldInv, Started
<1>2. PoolInv /\ PhaseInv /\ HeldInv => ExitedClean
  <2> SUFFICES ASSUME PoolInv, PhaseInv, HeldInv, main = "exited"
               PROVE  /\ sock = "closed" /\ ~path /\ backlog = <<>>
                      /\ \A c \in Client : at[c] = "connected" => c = taken
    BY DEF ExitedClean
  <2>1. sock = "closed" /\ ~path /\ backlog = <<>> /\ Drained
    BY DEF PhaseInv, Started
  <2>2. \A c \in Client : ~Queued(c) /\ \A w \in Worker : conn[w] # c
    BY <2>1, ServerAssumption DEF Drained, HeldInv, Queued
  <2> QED BY <2>1, <2>2 DEF HeldInv
<1> QED BY InitPoolInv, NextPoolInv, NextPhaseInv, NextHeldInv, <1>1, <1>2, PTL DEF Spec

-------------------------------------------------------------------------------
(* Nobody else does: a connection that two had would be served twice, and  *)
(* one that is over would be served again.                                 *)

Distinct(s) == \A i, j \in DOMAIN s : s[i] = s[j] => i = j

SoleInv ==
    /\ Distinct(backlog) /\ \A i \in DOMAIN backlog : at[backlog[i]] = "backlog"
    /\ Distinct(queue) /\ \A i \in DOMAIN queue : at[queue[i]] = "connected" /\ taken # queue[i]
    /\ taken # NoClient => at[taken] = "connected"
    /\ \A w \in Worker : conn[w] # NoClient =>
          /\ at[conn[w]] = "connected" /\ taken # conn[w] /\ ~Queued(conn[w])
          /\ \A v \in Worker : conn[v] = conn[w] => v = w

LEMMA DistinctEnds ==
    ASSUME NEW s \in Seq(Client), Distinct(s), NEW c, \A i \in DOMAIN s : s[i] # c
    PROVE  /\ Distinct(Append(s, c))
           /\ \A i \in DOMAIN Append(s, c) : Append(s, c)[i] = c \/ \E j \in DOMAIN s : s[j] = Append(s, c)[i]
<1>1. \A i \in DOMAIN Append(s, c) : (i \in DOMAIN s /\ Append(s, c)[i] = s[i])
                                       \/ (i = Len(s) + 1 /\ Append(s, c)[i] = c)
  OBVIOUS
<1> QED BY <1>1 DEF Distinct

LEMMA DistinctTail ==
    ASSUME NEW s \in Seq(Client), Distinct(s), s # <<>>
    PROVE  /\ Distinct(Tail(s))
           /\ \A i \in DOMAIN Tail(s) : Tail(s)[i] # Head(s) /\ \E j \in DOMAIN s : s[j] = Tail(s)[i]
           /\ \E j \in DOMAIN s : s[j] = Head(s)
<1>1. \A i \in DOMAIN Tail(s) : i + 1 \in DOMAIN s /\ i \in Nat \ {0} /\ Tail(s)[i] = s[i + 1]
  OBVIOUS
<1>2. 1 \in DOMAIN s /\ Head(s) = s[1]
  OBVIOUS
<1>3. Distinct(Tail(s))
  <2>1. SUFFICES ASSUME NEW i \in DOMAIN Tail(s), NEW j \in DOMAIN Tail(s), Tail(s)[i] = Tail(s)[j]
                 PROVE  i = j
    BY DEF Distinct
  <2>2. i + 1 = j + 1
    BY <1>1, <2>1 DEF Distinct
  <2> QED BY <1>1, <2>2
<1>4. \A i \in DOMAIN Tail(s) : Tail(s)[i] # Head(s)
  <2>1. SUFFICES ASSUME NEW i \in DOMAIN Tail(s), Tail(s)[i] = Head(s)
                 PROVE  FALSE
    OBVIOUS
  <2>2. i + 1 = 1
    BY <1>1, <1>2, <2>1 DEF Distinct
  <2> QED BY <1>1, <2>2
<1> QED BY <1>1, <1>2, <1>3, <1>4

\* What the connections' threads see: that nothing of it changes but for resets.
LEMMA FrameSole ==
    ASSUME TypeOK, SoleInv, UNCHANGED <<conn, queue, taken>>,
           UNCHANGED <<at, backlog>> \/ Reset
    PROVE  SoleInv'
<1>1. CASE UNCHANGED <<at, backlog>>
  BY <1>1 DEF SoleInv, Distinct, Queued
<1>2. CASE Reset
  <2>1. backlog' = <<>> /\ \A c \in Client : at[c] = "connected" => at'[c] = "connected"
    BY <1>2 DEF Reset
  <2>2. /\ taken \in Client \cup {NoClient} /\ \A i \in DOMAIN queue : queue[i] \in Client
        /\ \A w \in Worker : conn[w] \in Client \cup {NoClient}
    BY DEF TypeOK, AcceptOK, PoolOK
  <2>3. Distinct(<<>>) /\ DOMAIN <<>> = {}
    BY DEF Distinct
  <2>4. (taken # NoClient => at[taken] = "connected")'
    BY <2>1, <2>2 DEF SoleInv
  <2>5. \A i \in DOMAIN queue : at'[queue[i]] = "connected" /\ taken # queue[i]
    BY <2>1, <2>2 DEF SoleInv
  <2>6. \A w \in Worker : conn[w] # NoClient =>
            /\ at'[conn[w]] = "connected" /\ taken # conn[w] /\ ~Queued(conn[w])
            /\ \A v \in Worker : conn[v] = conn[w] => v = w
    BY <2>1, <2>2 DEF SoleInv
  <2>7. UNCHANGED <<Distinct(queue), DOMAIN queue>> /\ \A c : Queued(c)' = Queued(c)
    BY DEF Distinct, Queued
  <2>8. Distinct(backlog)' /\ \A i \in DOMAIN backlog' : at'[backlog'[i]] = "backlog"
    BY <2>1, <2>3 DEF Distinct
  <2>9. Distinct(queue)
    BY DEF SoleInv
  <2> QED BY <2>4, <2>5, <2>6, <2>7, <2>8, <2>9 DEF SoleInv
<1> QED BY <1>1, <1>2

LEMMA MainSole == ASSUME TypeOK, SoleInv, MainStep \/ Signal PROVE SoleInv'
<1>1. UNCHANGED <<conn, queue, taken>>
  BY DEF MainStep, Signal, CreateSocket, StartFails, CreatePool, SetRunning, StartThread,
     InstallHandlers, Wake, CallStop, Exit, CloseSocket, JoinAccept, ShutExecutor, Drain,
     Cleanup, workerVars, acceptVars
<1>2. UNCHANGED <<at, backlog>> \/ Reset
  BY DEF MainStep, Signal, CreateSocket, StartFails, CreatePool, SetRunning, StartThread,
     InstallHandlers, Wake, CallStop, Exit, CloseSocket, JoinAccept, ShutExecutor, Drain,
     Cleanup, clientVars
<1> QED BY <1>1, <1>2, FrameSole

\* The connection c is over, and nobody has it any more.
LEMMA CloseSole ==
    ASSUME TypeOK, SoleInv, NEW c \in Client, Close(c), at[c] = "connected",
           UNCHANGED <<queue, backlog>>, ~Queued(c),
           taken' \in {taken, NoClient}, taken' # c,
           \A w \in Worker : conn'[w] \in {conn[w], NoClient} /\ conn'[w] # c
    PROVE  SoleInv'
<1>1. \A d : d \in Client /\ d # c => at'[d] = at[d]
  BY DEF Close, TypeOK, ClientsOK
<1>2. /\ \A i \in DOMAIN queue : queue[i] \in Client /\ queue[i] # c
      /\ \A i \in DOMAIN backlog : backlog[i] \in Client /\ backlog[i] # c
      /\ taken' \in Client \cup {NoClient}
      /\ \A w \in Worker : conn'[w] \in Client \cup {NoClient}
  BY DEF TypeOK, AcceptOK, PoolOK, Queued, SoleInv
<1>3. /\ \A i \in DOMAIN backlog : at'[backlog[i]] = "backlog"
      /\ \A i \in DOMAIN queue : at'[queue[i]] = "connected"
      /\ taken' # NoClient => at'[taken'] = "connected"
      /\ \A w \in Worker : conn'[w] # NoClient => at'[conn'[w]] = "connected"
  BY <1>1, <1>2 DEF SoleInv
<1>4. \A i \in DOMAIN queue : taken' # queue[i]
  BY <1>2, ServerAssumption DEF SoleInv
<1>5. ASSUME NEW w \in Worker, conn'[w] # NoClient
      PROVE  /\ taken' # conn'[w] /\ ~Queued(conn'[w])
             /\ \A v \in Worker : conn'[v] = conn'[w] => v = w
  BY <1>5, <1>2 DEF SoleInv
<1>6. Distinct(backlog)' /\ Distinct(queue)' /\ \A d : Queued(d)' = Queued(d)
  BY DEF SoleInv, Distinct, Queued
<1> QED BY <1>3, <1>4, <1>5, <1>6 DEF SoleInv

LEMMA AcceptSole == ASSUME TypeOK, HeldInv, SoleInv, AcceptStep PROVE SoleInv'
<1>1. UNCHANGED conn /\ AcceptOK /\ ClientsOK /\ PoolOK
  BY DEF AcceptStep, AcceptLoop, Accept, AcceptNothing, Submit, workerVars, TypeOK
<1>2. CASE AcceptLoop \/ AcceptNothing
  BY <1>1, <1>2, FrameSole DEF AcceptLoop, AcceptNothing, workerVars, clientVars
<1>3. CASE Accept
  <2> DEFINE h == Head(backlog)
  <2>1. h \in Client /\ backlog \in Seq(Client) /\ backlog # <<>> /\ h # NoClient
    BY <1>1, <1>3, ServerAssumption, HeadTailProperties DEF Accept, AcceptOK
  <2>2. /\ Distinct(Tail(backlog))
        /\ \A i \in DOMAIN Tail(backlog) : Tail(backlog)[i] # h /\ \E j \in DOMAIN backlog : backlog[j] = Tail(backlog)[i]
        /\ \E j \in DOMAIN backlog : backlog[j] = h
    BY <2>1, DistinctTail DEF SoleInv
  <2>3. at[h] = "backlog"
    BY <2>2 DEF SoleInv
  <2>4. at'[h] = "connected" /\ \A d : d \in Client /\ d # h => at'[d] = at[d]
    BY <1>1, <1>3, <2>1 DEF Accept, ClientsOK
  <2>5. taken' = h /\ backlog' = Tail(backlog) /\ UNCHANGED queue
    BY <1>3 DEF Accept
  <2>6. /\ \A i \in DOMAIN queue : queue[i] \in Client /\ queue[i] # h
        /\ \A w \in Worker : conn[w] \in Client \cup {NoClient} /\ conn[w] # h
    BY <1>1, <2>1, <2>3 DEF AcceptOK, PoolOK, SoleInv
  <2>7. \A i \in DOMAIN backlog : backlog[i] \in Client
    BY <2>1
  <2>8. Distinct(backlog)' /\ \A i \in DOMAIN backlog' : at'[backlog'[i]] = "backlog"
    <3>1. \A i \in DOMAIN Tail(backlog) : at'[Tail(backlog)[i]] = "backlog"
      BY <2>2, <2>4, <2>7 DEF SoleInv
    <3> QED BY <2>2, <2>5, <3>1 DEF Distinct
  <2>9. \A i \in DOMAIN queue : at'[queue[i]] = "connected" /\ taken' # queue[i]
    BY <2>4, <2>5, <2>6 DEF SoleInv
  <2>10. ASSUME NEW w \in Worker, conn[w] # NoClient
         PROVE  /\ at'[conn[w]] = "connected" /\ taken' # conn[w] /\ ~Queued(conn[w])
                /\ \A v \in Worker : conn[v] = conn[w] => v = w
    BY <2>4, <2>5, <2>6, <2>10 DEF SoleInv
  <2>11. Distinct(queue)' /\ \A d : Queued(d)' = Queued(d)
    BY <2>5 DEF SoleInv, Distinct, Queued
  <2> QED BY <1>1, <2>4, <2>5, <2>8, <2>9, <2>10, <2>11 DEF SoleInv
<1>4. CASE Submit
  <2>1. taken \in Client /\ queue \in Seq(Client) /\ taken' = NoClient /\ UNCHANGED backlog
    BY <1>1, <1>4 DEF Submit, AcceptOK
  <2>2. /\ at[taken] = "connected" /\ \A i \in DOMAIN queue : queue[i] # taken
        /\ \A w \in Worker : conn[w] # taken
        /\ taken # NoClient
    BY <2>1, ServerAssumption DEF SoleInv, Queued
  <2>3. CASE executor = "open"
    <3>1. queue' = Append(queue, taken) /\ UNCHANGED at
      BY <1>4, <2>3 DEF Submit, clientVars
    <3>2. /\ Distinct(Append(queue, taken))
          /\ \A i \in DOMAIN Append(queue, taken) :
                Append(queue, taken)[i] = taken \/ \E j \in DOMAIN queue : queue[j] = Append(queue, taken)[i]
      BY <2>1, <2>2, DistinctEnds DEF SoleInv
    <3>3. \A i \in DOMAIN queue : queue[i] \in Client
      BY <2>1
    <3>4. \A i \in DOMAIN queue' : at[queue'[i]] = "connected" /\ NoClient # queue'[i]
      BY <2>1, <2>2, <3>1, <3>2, <3>3, ServerAssumption DEF SoleInv
    <3>5. ASSUME NEW w \in Worker, conn[w] # NoClient
          PROVE  /\ at[conn[w]] = "connected" /\ \A i \in DOMAIN queue' : queue'[i] # conn[w]
                 /\ \A v \in Worker : conn[v] = conn[w] => v = w
      BY <2>2, <3>1, <3>2, <3>5 DEF SoleInv, Queued
    <3>6. Distinct(queue)' /\ Distinct(backlog)' /\ \A i \in DOMAIN backlog : at[backlog[i]] = "backlog"
      BY <2>1, <3>1, <3>2 DEF Distinct, SoleInv
    <3> QED BY <1>1, <2>1, <3>1, <3>4, <3>5, <3>6 DEF SoleInv, Queued
  <2>4. CASE executor # "open"
    <3>1. Close(taken) /\ UNCHANGED <<queue, conn>>
      BY <1>1, <1>4, <2>4 DEF Submit
    <3>2. \A w \in Worker : conn'[w] \in {conn[w], NoClient} /\ conn'[w] # taken
      BY <2>2, <3>1
    <3>3. ~Queued(taken)
      BY <2>2 DEF Queued
    <3> QED BY <2>1, <2>2, <3>1, <3>2, <3>3, CloseSole
  <2> QED BY <2>3, <2>4
<1> QED BY <1>2, <1>3, <1>4 DEF AcceptStep

LEMMA ServeSole == ASSUME TypeOK, HeldInv, SoleInv, NEW w \in Worker, Serve(w) PROVE SoleInv'
<1>1. AcceptOK /\ ClientsOK /\ PoolOK /\ DOMAIN conn = Worker
  BY DEF TypeOK, PoolOK
<1>2. UNCHANGED <<taken, backlog>>
  BY DEF Serve, TakeWork, Authorize, Receive, Acquire, CountBuild, Build, UncountBuild,
     ReleasePermit, HandleOther, CloseConnection, acceptVars
<1>3. CASE TakeWork(w)
  <2> DEFINE h == Head(queue)
  <2>1. h \in Client /\ queue \in Seq(Client) /\ queue # <<>> /\ h # NoClient
    BY <1>1, <1>3, ServerAssumption, HeadTailProperties DEF TakeWork, AcceptOK
  <2>2. /\ Distinct(Tail(queue))
        /\ \A i \in DOMAIN Tail(queue) : Tail(queue)[i] # h /\ \E j \in DOMAIN queue : queue[j] = Tail(queue)[i]
        /\ \E j \in DOMAIN queue : queue[j] = h
    BY <2>1, DistinctTail DEF SoleInv
  <2>3. /\ queue' = Tail(queue) /\ UNCHANGED at
        /\ conn'[w] = h /\ \A v \in Worker \ {w} : conn'[v] = conn[v]
    BY <1>1, <1>3 DEF TakeWork, clientVars
  <2>4. at[h] = "connected" /\ taken # h /\ Queued(h)
    BY <2>2 DEF SoleInv, Queued
  <2>5. \A v \in Worker : conn[v] # h
    BY <2>1, <2>4 DEF SoleInv
  <2>6. \A i \in DOMAIN queue' : at[queue'[i]] = "connected" /\ taken # queue'[i]
    BY <2>2, <2>3 DEF SoleInv
  <2>7. \A i \in DOMAIN queue' : Queued(queue'[i]) /\ queue'[i] # h
    BY <2>2, <2>3 DEF Queued
  <2>8. ASSUME NEW v \in Worker, conn'[v] # NoClient
        PROVE  /\ at[conn'[v]] = "connected" /\ taken # conn'[v] /\ \A i \in DOMAIN queue' : queue'[i] # conn'[v]
               /\ \A u \in Worker : conn'[u] = conn'[v] => u = v
    <3>1. CASE v = w
      BY <2>3, <2>4, <2>5, <2>7, <3>1
    <3>2. CASE v # w
      <4>1. conn'[v] = conn[v]
        BY <2>3, <3>2
      <4>2. /\ at[conn[v]] = "connected" /\ taken # conn[v] /\ ~Queued(conn[v])
            /\ \A u \in Worker : conn[u] = conn[v] => u = v
        BY <2>8, <4>1 DEF SoleInv
      <4>3. \A u \in Worker : conn'[u] = conn[v] => u = v
        BY <2>3, <2>5, <4>2
      <4> QED BY <2>7, <4>1, <4>2, <4>3
    <3> QED BY <3>1, <3>2
  <2>9. Distinct(queue)' /\ Distinct(backlog)' /\ \A i \in DOMAIN backlog : at[backlog[i]] = "backlog"
    BY <1>2, <2>2, <2>3 DEF SoleInv, Distinct
  <2>10. taken # NoClient => at[taken] = "connected"
    BY DEF SoleInv
  <2> QED BY <1>2, <2>3, <2>6, <2>8, <2>9, <2>10 DEF SoleInv, Queued
<1>4. CASE CloseConnection(w)
  <2>1. conn[w] \in Client /\ conn[w] # NoClient /\ Close(conn[w]) /\ UNCHANGED queue
    BY <1>1, <1>4, ServerAssumption DEF CloseConnection, WorkerStep, PoolOK
  <2>2. /\ at[conn[w]] = "connected" /\ taken # conn[w] /\ ~Queued(conn[w])
        /\ \A v \in Worker : conn[v] = conn[w] => v = w
    BY <2>1 DEF SoleInv
  <2>3. conn'[w] = NoClient /\ \A v \in Worker \ {w} : conn'[v] = conn[v]
    BY <1>1, <1>4 DEF CloseConnection
  <2>4. \A v \in Worker : conn'[v] \in {conn[v], NoClient} /\ conn'[v] # conn[w]
    BY <2>1, <2>2, <2>3
  <2>5. taken' \in {taken, NoClient} /\ taken' # conn[w]
    BY <1>2, <2>2
  <2> HIDE DEF SoleInv
  <2> QED BY <1>2, <2>1, <2>2, <2>4, <2>5, CloseSole
<1>5. CASE \/ Authorize(w) \/ Receive(w) \/ Acquire(w) \/ CountBuild(w) \/ Build(w)
           \/ UncountBuild(w) \/ ReleasePermit(w) \/ HandleOther(w)
  <2>1. UNCHANGED <<queue, conn, at>>
    BY <1>5 DEF Authorize, Receive, Acquire, CountBuild, Build, UncountBuild, ReleasePermit,
       HandleOther, clientVars
  <2> QED BY <1>2, <2>1, FrameSole
<1> QED BY <1>3, <1>4, <1>5 DEF Serve

LEMMA ClientSole == ASSUME TypeOK, SoleInv, NEW c \in Client, Connect(c) \/ Speak(c) PROVE SoleInv'
<1>1. UNCHANGED <<conn, queue, taken>>
  BY DEF Connect, Speak, workerVars, acceptVars
<1>2. CASE Speak(c)
  BY <1>1, <1>2, FrameSole DEF Speak
<1>3. CASE Connect(c)
  <2>1. at[c] = "out" /\ at'[c] = "backlog" /\ \A d \in Client : d # c => at'[d] = at[d]
    BY <1>3 DEF Connect, TypeOK, ClientsOK
  <2>2. backlog \in Seq(Client) /\ backlog' = Append(backlog, c)
    BY <1>3 DEF Connect, TypeOK, AcceptOK
  <2>3. /\ \A i \in DOMAIN backlog : backlog[i] \in Client /\ backlog[i] # c
        /\ \A i \in DOMAIN queue : queue[i] \in Client /\ queue[i] # c
        /\ taken \in Client \cup {NoClient} /\ (taken # NoClient => taken # c)
        /\ \A w \in Worker : conn[w] \in Client \cup {NoClient} /\ (conn[w] # NoClient => conn[w] # c)
    BY <2>1 DEF TypeOK, AcceptOK, PoolOK, SoleInv
  <2>4. /\ Distinct(Append(backlog, c))
        /\ \A i \in DOMAIN Append(backlog, c) :
              Append(backlog, c)[i] = c \/ \E j \in DOMAIN backlog : backlog[j] = Append(backlog, c)[i]
    BY <2>2, <2>3, DistinctEnds DEF SoleInv
  <2>5. Distinct(backlog)' /\ \A i \in DOMAIN backlog' : at'[backlog'[i]] = "backlog"
    BY <2>1, <2>2, <2>3, <2>4 DEF SoleInv, Distinct
  <2>6. /\ Distinct(queue)' /\ \A i \in DOMAIN queue : at'[queue[i]] = "connected" /\ taken # queue[i]
        /\ taken # NoClient => at'[taken] = "connected"
        /\ \A d : Queued(d)' = Queued(d)
    BY <1>1, <2>1, <2>3 DEF SoleInv, Distinct, Queued
  <2>7. ASSUME NEW w \in Worker, conn[w] # NoClient
        PROVE  /\ at'[conn[w]] = "connected" /\ taken # conn[w] /\ ~Queued(conn[w])
               /\ \A v \in Worker : conn[v] = conn[w] => v = w
    BY <2>1, <2>3, <2>7 DEF SoleInv
  <2> QED BY <1>1, <2>5, <2>6, <2>7 DEF SoleInv
<1> QED BY <1>2, <1>3

LEMMA NextSoleInv == PoolInv /\ HeldInv /\ SoleInv /\ [Next]_vars => SoleInv'
<1> SUFFICES ASSUME PoolInv, HeldInv, SoleInv, [Next]_vars
             PROVE  SoleInv'
  OBVIOUS
<1>1. TypeOK
  BY DEF PoolInv
<1>2. CASE UNCHANGED vars
  BY <1>1, <1>2, FrameSole DEF vars, acceptVars, workerVars, clientVars
<1> QED BY <1>1, <1>2, MainSole, AcceptSole, ServeSole, ClientSole DEF Next

\* A connection that is accepted has exactly one holder until it is closed, wherever the
\* signals come: neither lost nor served twice.
THEOREM HoldersAreSole == Spec => []OneHolder
<1>1. Init => SoleInv /\ HeldInv
  BY DEF Init, SoleInv, HeldInv, Distinct
<1>2. PoolInv /\ HeldInv /\ SoleInv => OneHolder
  <2> SUFFICES ASSUME PoolInv, HeldInv, SoleInv, NEW c \in Client
               PROVE  Holders(c) = IF at[c] = "connected" THEN 1 ELSE 0
    BY DEF OneHolder
  <2> DEFINE Hands == {w \in Worker : conn[w] = c}
             Places == {i \in DOMAIN queue : queue[i] = c}
  <2>0. c # NoClient
    BY ServerAssumption
  <2>1. Cardinality({}) = 0 /\ \A x : Cardinality({x}) = 1
    BY FS_EmptySet, FS_Singleton
  <2>2. CASE \E w \in Worker : conn[w] = c
    <3>1. PICK w \in Worker : conn[w] = c
      BY <2>2
    <3>2. Hands = {w} /\ Places = {} /\ taken # c /\ at[c] = "connected"
      BY <2>0, <3>1 DEF SoleInv, Queued
    <3> HIDE DEF Hands, Places
    <3>3. Cardinality(Hands) = 1 /\ Cardinality(Places) = 0
      BY <2>1, <3>2
    <3> QED BY <3>2, <3>3 DEF Holders, Hands, Places
  <2>3. CASE Queued(c)
    <3>1. PICK i \in DOMAIN queue : queue[i] = c
      BY <2>3 DEF Queued
    <3>2. Hands = {} /\ Places = {i} /\ taken # c /\ at[c] = "connected"
      BY <2>0, <2>3, <3>1 DEF SoleInv, Distinct
    <3> HIDE DEF Hands, Places
    <3>3. Cardinality(Hands) = 0 /\ Cardinality(Places) = 1
      BY <2>1, <3>2
    <3> QED BY <3>2, <3>3 DEF Holders, Hands, Places
  <2>4. CASE ~Queued(c) /\ \A w \in Worker : conn[w] # c
    <3>1. Hands = {} /\ Places = {} /\ (taken = c <=> at[c] = "connected")
      BY <2>0, <2>4 DEF SoleInv, HeldInv, Queued
    <3> HIDE DEF Hands, Places
    <3>2. Cardinality(Hands) = 0 /\ Cardinality(Places) = 0
      BY <2>1, <3>1
    <3> QED BY <3>1, <3>2 DEF Holders, Hands, Places
  <2> QED BY <2>2, <2>3, <2>4
<1> QED BY InitPoolInv, NextPoolInv, NextHeldInv, NextSoleInv, <1>1, <1>2, PTL DEF Spec

===============================================================================
