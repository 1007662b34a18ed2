------------------------- MODULE TCPListenerProofs -------------------------
(***************************************************************************)
(* Proofs about TCPListener for any number of connections and servers.     *)
(***************************************************************************)
EXTENDS TCPListener, FiniteSetTheorems, TLAPS

Working == {"new", "read", "shut", "release", "rearm", "close"}

(***************************************************************************)
(* What the threads' positions say about the data: the facts that make the *)
(* ownership invariant inductive.                                          *)
(***************************************************************************)
ServersHold ==
  /\ \A s \in Servers : sockmap[s] # NoFd <=> spc[s] \in Working
  /\ \A s \in Servers : s \notin servers_ => spc[s] = "none"
  /\ lpc \in {"close", "done"} => servers_ = {}

ListenerHolds ==
  /\ lpc \in {"limit", "insert", "push"} => client_sock \in Fds
  /\ lpc \in {"limit", "insert"} => client_sock \notin clients_
  /\ lpc \in {"loop", "poll", "clean"} => \A f \in Fds : batch[f] = {}

IInv ==
  /\ TypeOK
  /\ ServersHold
  /\ ListenerHolds
  /\ SingleOwner
  /\ BatchIsLive
  /\ PendingWork
  /\ DrainedBeforeStop

-----------------------------------------------------------------------------
\* TCPServer::run touches nothing of the listener thread, and makes no entry in
\* clients_.
LEMMA ServerFrame ==
  ASSUME NEW s \in Servers, ServerStep(s)
  PROVE  /\ UNCHANGED <<lpc, client_sock, batch>>
         /\ clients_' = clients_ \/ clients_' = clients_ \ {sockmap[s]}
<1> USE DEF listener, shared
<1>1. CASE CloseSocket(s) \/ CloseSocketFails(s)
  BY Zenon, <1>1 DEF CloseSocket, CloseSocketFails, Closed
<1>2. CASE Rearm(s) \/ RearmFails(s)
  BY Zenon, <1>2 DEF Rearm, RearmFails
<1>3. CASE Awake(s) \/ WaitTimeout(s) \/ PopWork(s) \/ PopNothing(s) \/ LoopCheck(s) \/ ReleaseWork(s)
  BY Zenon, <1>3 DEF Awake, WaitTimeout, PopWork, PopNothing, LoopCheck, ReleaseWork
<1>4. CASE \/ \E r \in {"ok", "failed", "threw"} : HandShake(s, r) \/ ReadSocket(s, r)
           \/ \E r \in {"ok", "threw"} : ShutDown(s, r)
  BY Zenon, <1>4 DEF HandShake, ReadSocket, ShutDown
<1> QED
  BY Zenon, <1>1, <1>2, <1>3, <1>4 DEF ServerStep

\* A server holds a connection exactly while it is between popWork and the end of
\* releaseWork, whatever step the listener or another server takes.
LEMMA ServersHoldStep ==
  TypeOK /\ ServersHold /\ [Next]_vars => ServersHold'
<1> SUFFICES ASSUME TypeOK, ServersHold, [Next]_vars PROVE ServersHold'
  OBVIOUS
<1> USE ParamsAssumption DEF ServersHold, Working, TypeOK
<1>1. CASE Environment
  BY <1>1 DEF Environment, Connect, PeerSend, PeerHangup, Stop, kernel,
     listener, shared, pool, worker, faults
<1>2. CASE ListenerStep
  <2>1. CASE \E s \in Servers : AddServer(s)
    BY <2>1 DEF AddServer, kernel, listener, shared, pool, worker, faults
  <2>2. CASE \E f \in Fds : PushWork(f)
    BY <2>2 DEF PushWork, kernel, listener, shared, pool, worker, faults
  <2>3. CASE \E f \in Fds : Accept(f)
    BY Zenon, <2>3 DEF Accept, kernel, listener, shared, pool, worker, faults
  <2>4. CASE CleanStoppedServers
    BY SMTT(30), <2>4 DEF CleanStoppedServers, NextIteration, Stoppable, kernel, listener, shared, pool, worker, faults
  <2>5. CASE JoinServers
    BY <2>5 DEF JoinServers, kernel, listener, shared, pool, worker, faults
  <2>6. CASE EpollWait
    BY Zenon, <2>6 DEF EpollWait, kernel, listener, shared, pool, worker, faults
  <2>7. CASE \/ AddServersDone \/ ListenEvent \/ DispatchDone \/ AcceptNone
             \/ AcceptFails \/ EpollWaitFails \/ LimitReached \/ BelowLimit
             \/ InsertClient \/ PushNew \/ Configure \/ AcceptAgain
             \/ CleanNotDue \/ DrainDone \/ CloseClients
    BY Zenon, <2>7 DEF AddServersDone, ListenEvent, DispatchDone, AcceptNone,
       AcceptFails, EpollWaitFails, LimitReached, BelowLimit, InsertClient, PushNew, Configure, AcceptAgain, CleanNotDue,
       NextIteration, DrainDone, CloseClients, kernel, listener, shared, pool,
       worker, faults
  <2> QED
    BY <1>2, <2>1, <2>2, <2>3, <2>4, <2>5, <2>6, <2>7 DEF ListenerStep
<1>3. ASSUME NEW s \in Servers, ServerStep(s) PROVE ServersHold'
  <2>1. CASE Awake(s) \/ WaitTimeout(s) \/ PopNothing(s) \/ LoopCheck(s)
    BY SMTT(30), <2>1 DEF Awake, WaitTimeout, PopNothing, LoopCheck, Goto, kernel,
       listener, shared, pool, worker, faults
  <2>2. CASE PopWork(s)
    BY <2>2 DEF PopWork, Goto, Step, kernel, listener, shared, pool, worker, faults
  <2>3. CASE \E r \in {"ok", "failed", "threw"} : HandShake(s, r)
    BY <2>3 DEF HandShake, Goto, Step, Outcome, kernel, listener, shared, pool, worker, faults
  <2>4. CASE \E r \in {"ok", "failed", "threw"} : ReadSocket(s, r)
    BY <2>4 DEF ReadSocket, Goto, Step, Outcome, kernel, listener, shared, pool, worker, faults
  <2>5. CASE \E r \in {"ok", "threw"} : ShutDown(s, r)
    BY <2>5 DEF ShutDown, Goto, Outcome, kernel, listener, shared, pool, worker, faults
  <2>6. CASE ReleaseWork(s)
    BY <2>6 DEF ReleaseWork, Goto, kernel, listener, shared, pool, worker, faults
  <2>7. CASE CloseSocket(s) \/ CloseSocketFails(s)
    BY <2>7 DEF CloseSocket, CloseSocketFails, Leave, Goto, kernel, listener, shared, pool, worker, faults
  <2>8. CASE Rearm(s) \/ RearmFails(s)
    BY <2>8 DEF Rearm, RearmFails, Leave, Goto, kernel, listener, shared, pool, worker, faults
  <2> QED
    BY Zenon, <1>3, <2>1, <2>2, <2>3, <2>4, <2>5, <2>6, <2>7, <2>8 DEF ServerStep
<1>4. CASE Terminated \/ UNCHANGED vars
  BY Zenon, <1>4 DEF Terminated, vars, kernel, listener, shared, pool, worker, faults
<1> QED
  BY <1>1, <1>2, <1>3, <1>4 DEF Next

\* The accept loop of TCPListener::run has a client_sock in the steps that use it.
LEMMA ListenerHoldsStep ==
  TypeOK /\ ListenerHolds /\ [Next]_vars => ListenerHolds'
<1> SUFFICES ASSUME TypeOK, ListenerHolds, [Next]_vars PROVE ListenerHolds'
  OBVIOUS
<1> USE ParamsAssumption DEF ListenerHolds, TypeOK, kernel, listener, shared,
    pool, worker, faults
<1>1. CASE Environment
  BY Zenon, <1>1 DEF Environment, Connect, PeerSend, PeerHangup, Stop
<1>2. CASE ListenerStep
  <2>1. CASE \E s \in Servers : AddServer(s)
    BY <2>1 DEF AddServer
  <2>2. CASE \E f \in Fds : PushWork(f)
    BY <2>2 DEF PushWork
  <2>3. CASE \E f \in Fds : Accept(f)
    BY <2>3 DEF Accept
  <2>4. CASE CleanStoppedServers
    <3>1. lpc = "clean" /\ lpc' \in {"drain", "loop"} /\ batch' = batch
      BY <2>4 DEF CleanStoppedServers, NextIteration
    <3> QED BY <3>1
  <2>5. CASE EpollWait
    <3>1. lpc' = "dispatch"
      BY Zenon, <2>5 DEF EpollWait
    <3> QED BY <3>1
  <2>6. CASE \/ AddServersDone \/ ListenEvent \/ DispatchDone \/ AcceptNone
             \/ AcceptFails \/ EpollWaitFails \/ PushNew \/ Configure \/ AcceptAgain
             \/ CleanNotDue \/ DrainDone \/ JoinServers
    BY <2>6 DEF AddServersDone, ListenEvent, DispatchDone, AcceptNone,
       AcceptFails, EpollWaitFails, PushNew, Configure, AcceptAgain, CleanNotDue,
       NextIteration, DrainDone, JoinServers
  <2>7. CASE LimitReached \/ BelowLimit \/ InsertClient
    BY <2>7 DEF LimitReached, BelowLimit, InsertClient
  <2>8. CASE CloseClients
    <3>1. lpc' = "done"
      BY Zenon, <2>8 DEF CloseClients
    <3> QED BY <3>1
  <2> QED
    BY Zenon, <1>2, <2>1, <2>2, <2>3, <2>4, <2>5, <2>6, <2>7, <2>8 DEF ListenerStep
<1>3. CASE \E s \in Servers : ServerStep(s)
  <2>1. UNCHANGED <<lpc, client_sock, batch>> /\ clients_' \subseteq clients_
    BY Zenon, <1>3, ServerFrame
  <2> QED BY Zenon, <2>1
<1>4. CASE Terminated \/ UNCHANGED vars
  BY <1>4 DEF Terminated, vars
<1> QED
  BY Zenon, <1>1, <1>2, <1>3, <1>4 DEF Next

\* The servers in service form a finite set, so they can be counted.
LEMMA InServiceFinite ==
  IsFiniteSet(InService) /\ Cardinality(InService) \in Nat
BY ParamsAssumption, FS_Subset, FS_CardinalityType DEF InService

\* pushWork, popWork and releaseWork keep work_q_sz_ in step with the queue and
\* the servers in service.
LEMMA PendingWorkStep ==
  TypeOK /\ ServersHold /\ PendingWork /\ [Next]_vars => PendingWork'
<1> SUFFICES ASSUME TypeOK, ServersHold, PendingWork, [Next]_vars PROVE PendingWork'
  OBVIOUS
<1> USE ParamsAssumption, InServiceFinite
    DEF PendingWork, TypeOK, kernel, listener, shared, pool, worker, faults
<1>1. CASE Environment
  <2>1. UNCHANGED <<work_q_sz_, workload_, spc>>
    BY Zenon, <1>1 DEF Environment, Connect, PeerSend, PeerHangup, Stop
  <2> QED BY Zenon, <2>1 DEF InService
<1>2. CASE ListenerStep
  <2>1. InService' = InService
    <3>1. CASE \E s \in Servers : AddServer(s)
      BY Zenon, <3>1 DEF AddServer, InService
    <3>2. CASE CleanStoppedServers
      BY SMTT(30), <3>2 DEF CleanStoppedServers, InService, ServersHold
    <3>3. CASE JoinServers
      BY <3>3 DEF JoinServers, InService, ServersHold
    <3>4. CASE UNCHANGED spc
      BY <3>4 DEF InService
    <3> QED
      BY Zenon, <1>2, <3>1, <3>2, <3>3, <3>4 DEF ListenerStep, AddServersDone, EpollWait,
         PushWork, ListenEvent, DispatchDone, AcceptNone, AcceptFails, EpollWaitFails,
         Accept, LimitReached, BelowLimit, InsertClient, PushNew, Configure, AcceptAgain, CleanNotDue, DrainDone,
         CloseClients
  <2>2. CASE \E f \in Fds : PushWork(f)
    BY <2>1, <2>2 DEF PushWork
  <2>3. CASE PushNew
    <3>1. client_sock \in Fds \cup {NoFd} /\ Len(workload_') = Len(workload_) + 1
      BY <2>3 DEF PushNew
    <3> QED BY <2>1, <2>3, <3>1 DEF PushNew
  <2>4. CASE UNCHANGED <<work_q_sz_, workload_>>
    BY Zenon, <2>1, <2>4
  <2> QED
    BY Zenon, <1>2, <2>2, <2>3, <2>4 DEF ListenerStep, AddServer, AddServersDone, EpollWait,
       ListenEvent, DispatchDone, AcceptNone, AcceptFails, EpollWaitFails, Accept,
       LimitReached, BelowLimit, InsertClient, Configure, AcceptAgain, CleanNotDue, CleanStoppedServers,
       DrainDone, JoinServers, CloseClients
<1>3. ASSUME NEW s \in Servers, ServerStep(s) PROVE PendingWork'
  <2>1. CASE Awake(s) \/ WaitTimeout(s) \/ PopNothing(s) \/ LoopCheck(s)
    <3>1. InService' = InService
      BY Zenon, <2>1 DEF Awake, WaitTimeout, PopNothing, LoopCheck, Goto, InService
    <3> QED
      BY Zenon, <2>1, <3>1 DEF Awake, WaitTimeout, PopNothing, LoopCheck
  <2>2. CASE PopWork(s)
    <3>1. InService' = InService \cup {s} /\ s \notin InService
      BY <2>2 DEF PopWork, Goto, Step, InService
    <3>2. Cardinality(InService') = Cardinality(InService) + 1
      BY Zenon, <3>1, FS_AddElement
    <3>3. Len(workload_') = Len(workload_) - 1
      BY SMTT(30), <2>2 DEF PopWork
    <3> QED
      BY SMTT(30), <2>2, <3>2, <3>3 DEF PopWork
  <2>3. CASE \/ \E r \in {"ok", "failed", "threw"} : HandShake(s, r) \/ ReadSocket(s, r)
             \/ \E r \in {"ok", "threw"} : ShutDown(s, r)
    <3>1. InService' = InService
      BY <2>3 DEF HandShake, ReadSocket, ShutDown, Goto, Step, InService
    <3> QED
      BY Zenon, <2>3, <3>1 DEF HandShake, ReadSocket, ShutDown
  <2>4. CASE ReleaseWork(s)
    <3>1. InService' = InService \ {s} /\ s \in InService
      BY <2>4 DEF ReleaseWork, Goto, InService
    <3>2. Cardinality(InService') = Cardinality(InService) - 1
      BY Zenon, <3>1, FS_RemoveElement
    <3> QED
      BY <2>4, <3>2 DEF ReleaseWork
  <2>5. CASE CloseSocket(s) \/ CloseSocketFails(s) \/ Rearm(s) \/ RearmFails(s)
    <3>1. InService' = InService
      BY Zenon, <2>5 DEF CloseSocket, CloseSocketFails, Rearm, RearmFails, Leave, Goto, InService
    <3> QED
      BY Zenon, <2>5, <3>1 DEF CloseSocket, CloseSocketFails, Rearm, RearmFails
  <2> QED
    BY Zenon, <1>3, <2>1, <2>2, <2>3, <2>4, <2>5 DEF ServerStep
<1>4. CASE Terminated \/ UNCHANGED vars
  BY Zenon, <1>4 DEF Terminated, vars, InService
<1> QED
  BY <1>1, <1>2, <1>3, <1>4 DEF Next

OutcomeTyped ==
  /\ completion_state \in [Servers -> SUBSET SockState]
  /\ throws \in Nat /\ errors \in Nat /\ lost \in SUBSET Fds

\* The outcome of a callback of TCPServer::run keeps the types.
LEMMA OutcomeType ==
  ASSUME TypeOK, NEW s \in Servers, NEW b \in SockState,
         NEW r \in {"ok", "failed", "threw"}, Outcome(s, b, r)
  PROVE  OutcomeTyped'
<1> DEFINE C == (IF r = "threw" THEN {} ELSE {b}) \cup (IF r = "failed" THEN {"Shut"} ELSE {})
<1>1. C \in SUBSET SockState
  BY DEF SockState
<1>2. completion_state' = [completion_state EXCEPT ![s] = @ \cup C]
  BY Zenon DEF Outcome
<1>3. completion_state' \in [Servers -> SUBSET SockState]
  <2> HIDE DEF C
  <2> QED BY Zenon, <1>1, <1>2 DEF TypeOK
<1>4. throws' \in Nat /\ errors' \in Nat /\ lost' \in SUBSET Fds
  BY SMTT(30) DEF Outcome, TypeOK
<1> QED
  BY <1>3, <1>4 DEF OutcomeTyped

\* closeSocket keeps the types.
LEMMA ClosedTyped ==
  ASSUME TypeOK, NEW S, Closed(S)
  PROVE  /\ clients_' \in SUBSET Fds /\ state' \in [Fds -> SUBSET SockState]
         /\ interest' \in [Fds -> Interest] /\ lost' \in SUBSET Fds
         /\ avail' \in SUBSET Fds /\ hup' \in SUBSET Fds /\ nonblock' \in SUBSET Fds
         /\ called' \in [Fds -> SUBSET {"shake", "shaken", "shut"}]
<1>1. /\ clients_' \in SUBSET Fds /\ lost' \in SUBSET Fds
      /\ avail' \in SUBSET Fds /\ hup' \in SUBSET Fds /\ nonblock' \in SUBSET Fds
  BY DEF Closed, TypeOK
<1>2. state' \in [Fds -> SUBSET SockState]
  BY DEF Closed, TypeOK
<1>3. interest' \in [Fds -> Interest]
  BY DEF Closed, TypeOK, Interest
<1>4. called' \in [Fds -> SUBSET {"shake", "shaken", "shut"}]
  BY DEF Closed, TypeOK
<1> QED
  BY <1>1, <1>2, <1>3, <1>4

\* Every step of the listener and its servers keeps the types.
LEMMA TypeOKStep ==
  TypeOK /\ ServersHold /\ ListenerHolds /\ PendingWork /\ [Next]_vars => TypeOK'
<1> SUFFICES ASSUME TypeOK, ServersHold, ListenerHolds, PendingWork, [Next]_vars PROVE TypeOK'
  BY Zenon
<1> USE ParamsAssumption DEF TypeOK, ListenerPc, ServerPc, Interest, SockState,
    kernel, listener, shared, pool, worker, faults
<1>1. CASE Environment
  <2>1. CASE Connect
    BY SMTT(30), <2>1 DEF Connect
  <2>2. CASE \E f \in Fds : PeerSend(f)
    BY SMTT(30), <2>2 DEF PeerSend
  <2>3. CASE \E f \in Fds : PeerHangup(f)
    BY <2>3 DEF PeerHangup
  <2>4. CASE Stop
    BY Zenon, <2>4 DEF Stop
  <2> QED
    BY Zenon, <1>1, <2>1, <2>2, <2>3, <2>4 DEF Environment
<1>2. CASE ListenerStep
  <2>1. CASE \E s \in Servers : AddServer(s)
    BY SMTT(30), <2>1 DEF AddServer
  <2>2. CASE \E f \in Fds : PushWork(f)
    BY SMTT(30), <2>2 DEF PushWork
  <2>3. CASE \E f \in Fds : Accept(f)
    BY SMTT(30), <2>3 DEF Accept
  <2>4. CASE CleanStoppedServers
    <3>1. servers_' \in SUBSET Servers /\ init_server_' \in Servers
      BY SMTT(30), <2>4 DEF CleanStoppedServers
    <3>2. spc' \in [Servers -> ServerPc]
      BY SMTT(30), <2>4 DEF CleanStoppedServers
    <3>3. request_stop_' \in SUBSET Servers
      BY SMTT(30), <2>4 DEF CleanStoppedServers, Stoppable
    <3> QED
      BY Zenon, <2>4, <3>1, <3>2, <3>3 DEF CleanStoppedServers, NextIteration
  <2>5. CASE EpollWait
    BY SMTT(30), <2>5 DEF EpollWait, EventState
  <2>6. CASE PushNew
    BY SMTT(30), <2>6 DEF PushNew, ListenerHolds
  <2>7. CASE AddServersDone \/ ListenEvent \/ DispatchDone \/ AcceptNone
    BY Zenon, <2>7 DEF AddServersDone, ListenEvent, DispatchDone, AcceptNone
  <2>8. CASE AcceptFails \/ EpollWaitFails \/ CleanNotDue \/ DrainDone
    <3>1. CASE AcceptFails \/ EpollWaitFails
      <4>1. errors' \in Nat
        BY <3>1 DEF AcceptFails, EpollWaitFails, Fails
      <4> QED
        BY Zenon, <3>1, <4>1 DEF AcceptFails, EpollWaitFails
    <3>2. CASE CleanNotDue
      BY Zenon, <3>2 DEF CleanNotDue, NextIteration
    <3>3. CASE DrainDone
      BY Zenon, <3>3 DEF DrainDone
    <3> QED
      BY Zenon, <2>8, <3>1, <3>2, <3>3
  <2>9. CASE LimitReached
    BY SMTT(30), <2>9 DEF LimitReached, Fails
  <2>10. CASE Configure \/ AcceptAgain \/ JoinServers
    <3>1. CASE Configure
      BY SMTT(30), <3>1 DEF Configure
    <3>2. CASE AcceptAgain
      BY SMTT(30), <3>2 DEF AcceptAgain
    <3>3. CASE JoinServers
      BY SMTT(30), <3>3 DEF JoinServers
    <3> QED
      BY Zenon, <2>10, <3>1, <3>2, <3>3
  <2>11. CASE BelowLimit \/ InsertClient
    BY <2>11 DEF BelowLimit, InsertClient, ListenerHolds
  <2>12. CASE CloseClients
    <3>1. PICK S : Closed(S)
      BY Zenon, <2>12 DEF CloseClients
    <3>2. errors' \in Nat
      BY SMTT(30), <2>12 DEF CloseClients, Fails
    <3> QED
      BY Zenon, <2>12, <3>1, <3>2, ClosedTyped DEF CloseClients
  <2> QED
    BY Zenon, <1>2, <2>1, <2>2, <2>3, <2>4, <2>5, <2>6, <2>7, <2>8, <2>9, <2>10, <2>11, <2>12
       DEF ListenerStep
<1>3. ASSUME NEW s \in Servers, ServerStep(s) PROVE TypeOK'
  <2>1. CASE Awake(s) \/ WaitTimeout(s) \/ PopNothing(s) \/ LoopCheck(s)
    <3>1. CASE Awake(s)
      BY Zenon, <3>1 DEF Awake, Goto
    <3>2. CASE WaitTimeout(s)
      BY Zenon, <3>2 DEF WaitTimeout, Goto
    <3>3. CASE PopNothing(s)
      BY Zenon, <3>3 DEF PopNothing, Goto
    <3>4. CASE LoopCheck(s)
      BY Zenon, <3>4 DEF LoopCheck, Goto
    <3> QED
      BY Zenon, <2>1, <3>1, <3>2, <3>3, <3>4
  <2>2. CASE PopWork(s)
    BY SMTT(30), <2>2 DEF PopWork, Goto, Step
  <2>3. ASSUME NEW r \in {"ok", "failed", "threw"}, HandShake(s, r) PROVE TypeOK'
    <3>0. Outcome(s, "New", r)
      BY Zenon, <2>3 DEF HandShake
    <3>1. OutcomeTyped'
      BY SMTT(30), <3>0, OutcomeType
    <3>2. spc' \in [Servers -> ServerPc]
      BY <2>3 DEF HandShake, Goto, Step
    <3>3. called' \in [Fds -> SUBSET {"shake", "shaken", "shut"}]
      BY Zenon, <2>3 DEF HandShake
    <3> QED
      BY Zenon, <2>3, <3>1, <3>2, <3>3 DEF HandShake, OutcomeTyped
  <2>4. ASSUME NEW r \in {"ok", "failed", "threw"}, ReadSocket(s, r) PROVE TypeOK'
    <3>0. Outcome(s, "Read", r)
      BY Zenon, <2>4 DEF ReadSocket
    <3>1. OutcomeTyped'
      BY SMTT(30), <3>0, OutcomeType
    <3>2. spc' \in [Servers -> ServerPc]
      BY <2>4 DEF ReadSocket, Goto, Step
    <3> QED
      BY Zenon, <2>4, <3>1, <3>2 DEF ReadSocket, OutcomeTyped
  <2>5. ASSUME NEW r \in {"ok", "threw"}, ShutDown(s, r) PROVE TypeOK'
    <3>1. OutcomeTyped'
      BY <2>5, OutcomeType DEF ShutDown
    <3>2. called' \in [Fds -> SUBSET {"shake", "shaken", "shut"}]
      BY Zenon, <2>5 DEF ShutDown
    <3> QED
      BY Zenon, <2>5, <3>1, <3>2 DEF ShutDown, Goto, OutcomeTyped
  <2>6. CASE ReleaseWork(s)
    <3>1. s \in InService
      BY Zenon, <2>6 DEF ReleaseWork, InService
    <3>2. Cardinality(InService) # 0
      BY Zenon, <3>1, InServiceFinite, FS_EmptySet
    <3>3. work_q_sz_ - 1 \in Nat
      BY SMTT(30), <3>2, InServiceFinite DEF PendingWork
    <3> QED
      BY Zenon, <2>6, <3>3 DEF ReleaseWork, Goto
  <2>7. CASE CloseSocket(s) \/ CloseSocketFails(s)
    <3>1. errors' \in Nat
      BY SMTT(30), <2>7 DEF CloseSocket, CloseSocketFails, Fails
    <3>2. Closed({sockmap[s]})
      BY Zenon, <2>7 DEF CloseSocket, CloseSocketFails
    <3>3. CASE CloseSocket(s)
      BY Zenon, <3>1, <3>2, <3>3, ClosedTyped DEF CloseSocket, Leave, Goto
    <3>4. CASE CloseSocketFails(s)
      BY Zenon, <3>1, <3>2, <3>4, ClosedTyped DEF CloseSocketFails, Leave, Goto
    <3> QED
      BY Zenon, <2>7, <3>3, <3>4
  <2>8. CASE Rearm(s)
    BY Zenon, <2>8 DEF Rearm, Leave, Goto
  <2>9. CASE RearmFails(s)
    <3>1. sockmap[s] \in Fds
      BY <2>9 DEF RearmFails, ServersHold, Working
    <3>2. errors' \in Nat
      BY <2>9 DEF RearmFails
    <3>3. lost' \in SUBSET Fds
      BY Zenon, <2>9, <3>1 DEF RearmFails
    <3> QED
      BY Zenon, <2>9, <3>2, <3>3 DEF RearmFails, Leave, Goto
  <2> QED
    BY Zenon, <1>3, <2>1, <2>2, <2>3, <2>4, <2>5, <2>6, <2>7, <2>8, <2>9 DEF ServerStep
<1>4. CASE Terminated \/ UNCHANGED vars
  BY Zenon, <1>4 DEF Terminated, vars
<1> QED
  BY <1>1, <1>2, <1>3, <1>4 DEF Next

\* Once the drain of TCPListener::run is over no work comes back.
LEMMA DrainedBeforeStopStep ==
  TypeOK /\ ServersHold /\ ServersHold' /\ PendingWork /\ DrainedBeforeStop /\ [Next]_vars
    => DrainedBeforeStop'
<1> SUFFICES ASSUME TypeOK, ServersHold, ServersHold', PendingWork, DrainedBeforeStop,
                    [Next]_vars
             PROVE  DrainedBeforeStop'
  BY Zenon
<1> USE ParamsAssumption DEF TypeOK, kernel, listener, shared, pool, worker, faults
<1> DEFINE Ending == lpc \in {"join", "close", "done"}
           Empty  == /\ workload_ = <<>>
                     /\ \A s \in Servers : spc[s] \notin {"new", "read", "shut", "release"}
<1>0. SUFFICES Ending' => Empty'
  BY Zenon DEF DrainedBeforeStop, ServersHold, Working, InService
<1>1. Ending => Empty
  BY Zenon DEF DrainedBeforeStop, InService
<1>2. CASE Environment
  BY Zenon, <1>1, <1>2 DEF Environment, Connect, PeerSend, PeerHangup, Stop
<1>3. CASE ListenerStep
  <2>1. CASE DrainDone
    <3>1. Len(workload_) = 0 /\ Cardinality(InService) = 0
      BY <2>1, InServiceFinite DEF DrainDone, PendingWork
    <3>2. workload_ = <<>> /\ InService = {}
      BY SMTT(30), <3>1, InServiceFinite, FS_EmptySet
    <3> QED
      BY Zenon, <2>1, <3>2 DEF DrainDone, InService
  <2>2. CASE JoinServers
    BY Zenon, <1>1, <2>2 DEF JoinServers
  <2>3. CASE CloseClients
    BY Zenon, <1>1, <2>3 DEF CloseClients
  <2>4. CASE CleanStoppedServers
    <3>1. lpc' \in {"drain", "loop"}
      BY Zenon, <2>4 DEF CleanStoppedServers, NextIteration
    <3> QED BY Zenon, <3>1
  <2>5. CASE \/ \E s \in Servers : AddServer(s)
             \/ \E f \in Fds : PushWork(f) \/ Accept(f)
             \/ AddServersDone \/ EpollWait \/ ListenEvent \/ DispatchDone
             \/ AcceptNone \/ AcceptFails \/ EpollWaitFails \/ LimitReached
             \/ BelowLimit \/ InsertClient \/ PushNew \/ Configure
             \/ AcceptAgain \/ CleanNotDue
    <3>1. ~Ending'
      BY Zenon, <2>5 DEF AddServer, PushWork, Accept, AddServersDone, EpollWait,
         ListenEvent, DispatchDone, AcceptNone, AcceptFails, EpollWaitFails,
         LimitReached, BelowLimit, InsertClient, PushNew,
         Configure, AcceptAgain, CleanNotDue, NextIteration
    <3> QED BY Zenon, <3>1
  <2> QED
    BY Zenon, <1>3, <2>1, <2>2, <2>3, <2>4, <2>5 DEF ListenerStep
<1>4. ASSUME NEW s \in Servers, ServerStep(s) PROVE Ending' => Empty'
  <2>1. lpc' = lpc
    BY Zenon, <1>4, ServerFrame
  <2>2. ASSUME Empty PROVE Empty'
    <3>1. CASE Awake(s) \/ WaitTimeout(s) \/ PopNothing(s) \/ LoopCheck(s)
      BY Zenon, <2>2, <3>1 DEF Awake, WaitTimeout, PopNothing, LoopCheck, Goto
    <3>2. CASE CloseSocket(s) \/ CloseSocketFails(s) \/ Rearm(s) \/ RearmFails(s)
      <4>1. UNCHANGED workload_ /\ (Leave(s, "pop") \/ Leave(s, "stopped"))
        BY Zenon, <3>2 DEF CloseSocket, CloseSocketFails, Rearm, RearmFails
      <4> QED
        BY <2>2, <4>1 DEF Leave, Goto
    <3> QED
      BY Zenon, <1>4, <2>2, <3>1, <3>2 DEF ServerStep, PopWork, HandShake, ReadSocket,
         ShutDown, ReleaseWork
  <2> QED BY Zenon, <1>1, <2>1, <2>2
<1>5. CASE Terminated \/ UNCHANGED vars
  BY Zenon, <1>1, <1>5 DEF Terminated, vars
<1> QED
  BY Zenon, <1>2, <1>3, <1>4, <1>5 DEF Next

\* A connection with an event in the batch is registered, so no server holds it
\* and none can close it before the listener dispatches the event.
LEMMA BatchIsLiveStep ==
  TypeOK /\ ServersHold /\ ListenerHolds /\ SingleOwner /\ BatchIsLive /\ [Next]_vars
    => BatchIsLive'
<1> SUFFICES ASSUME TypeOK, ServersHold, ListenerHolds, SingleOwner, BatchIsLive,
                    [Next]_vars
             PROVE  BatchIsLive'
  BY Zenon
<1> USE ParamsAssumption DEF TypeOK, BatchIsLive, Stopping, kernel, listener,
    shared, pool, worker, faults
<1>1. CASE Environment
  BY Zenon, <1>1 DEF Environment, Connect, PeerSend, PeerHangup, Stop
<1>2. CASE ListenerStep
  <2>1. CASE EpollWait
    <3>1. PICK A \in SUBSET ReadyFds :
             /\ interest' = [f \in Fds |-> IF f \in A THEN "fired" ELSE interest[f]]
             /\ \E eof \in SUBSET (A \cap hup) :
                  batch' = [f \in Fds |-> IF f \in A THEN EventState(f, eof) ELSE {}]
      BY Zenon, <2>1 DEF EpollWait
    <3>2. \A f \in A : f \in clients_
      BY Zenon DEF ReadyFds, SingleOwner, Polling
    <3> QED
      BY <2>1, <3>1, <3>2 DEF EpollWait
  <2>2. CASE \E f \in Fds : PushWork(f)
    BY SMTT(30), <2>2 DEF PushWork
  <2>3. CASE \E f \in Fds : Accept(f)
    BY Zenon, <2>3 DEF Accept
  <2>4. CASE \E s \in Servers : AddServer(s)
    BY Zenon, <2>4 DEF AddServer
  <2>5. CASE CleanStoppedServers
    BY Zenon, <2>5 DEF CleanStoppedServers, NextIteration
  <2>6. CASE \/ AddServersDone \/ ListenEvent \/ DispatchDone \/ AcceptNone
             \/ AcceptFails \/ EpollWaitFails \/ LimitReached \/ BelowLimit
             \/ InsertClient \/ PushNew \/ Configure \/ AcceptAgain
             \/ CleanNotDue \/ DrainDone \/ JoinServers \/ CloseClients
    BY Zenon, <2>6 DEF AddServersDone, ListenEvent, DispatchDone, AcceptNone,
       AcceptFails, EpollWaitFails, LimitReached, BelowLimit, InsertClient, PushNew, Configure, AcceptAgain, CleanNotDue,
       NextIteration, DrainDone, JoinServers, CloseClients
  <2> QED
    BY Zenon, <1>2, <2>1, <2>2, <2>3, <2>4, <2>5, <2>6 DEF ListenerStep
<1>3. ASSUME NEW s \in Servers, ServerStep(s) PROVE BatchIsLive'
  <2>1. CASE CloseSocket(s) \/ CloseSocketFails(s)
    <3>1. sockmap[s] \in Fds /\ Held(sockmap[s])
      BY Zenon, <2>1 DEF CloseSocket, CloseSocketFails, ServersHold, Working, Held
    <3>2. interest[sockmap[s]] = "out"
      BY Zenon, <3>1 DEF SingleOwner, Polling
    <3>3. Closed({sockmap[s]}) /\ UNCHANGED <<lpc, batch>>
      BY Zenon, <2>1 DEF CloseSocket, CloseSocketFails
    <3> QED
      BY <3>1, <3>2, <3>3 DEF Closed
  <2>2. CASE Rearm(s)
    BY <2>2 DEF Rearm
  <2>3. CASE UNCHANGED <<lpc, batch, clients_, interest>>
    BY Zenon, <2>3
  <2> QED
    BY Zenon, <1>3, <2>1, <2>2, <2>3 DEF ServerStep, Awake, WaitTimeout, PopWork, PopNothing,
       LoopCheck, HandShake, ReadSocket, ShutDown, ReleaseWork, RearmFails
<1>4. CASE Terminated \/ UNCHANGED vars
  BY <1>4 DEF Terminated, vars
<1> QED
  BY Zenon, <1>1, <1>2, <1>3, <1>4 DEF Next

-----------------------------------------------------------------------------
InQueue(w, f) == \E i \in 1 .. Len(w) : w[i] = f
NoDup(w)      == \A i, j \in 1 .. Len(w) : w[i] = w[j] => i = j

\* push_back adds one element to workload_, and no duplicate if it is not there.
LEMMA AppendQueue ==
  ASSUME NEW w \in Seq(Fds), NEW g \in Fds
  PROVE  /\ \A f : InQueue(Append(w, g), f) <=> InQueue(w, f) \/ f = g
         /\ NoDup(w) /\ ~InQueue(w, g) => NoDup(Append(w, g))
<1> DEFINE v == Append(w, g)
<1>1. /\ Len(v) = Len(w) + 1 /\ Len(w) \in Nat
      /\ \A i \in 1 .. Len(w) : v[i] = w[i]
      /\ v[Len(w) + 1] = g
  OBVIOUS
<1> HIDE DEF v
<1>2. \A f : InQueue(v, f) <=> InQueue(w, f) \/ f = g
  BY <1>1 DEF InQueue
<1>3. NoDup(w) /\ ~InQueue(w, g) => NoDup(v)
  BY <1>1 DEF NoDup, InQueue
<1> QED
  BY <1>2, <1>3 DEF v

\* pop_front removes the front of workload_ and keeps the rest.
LEMMA TailQueue ==
  ASSUME NEW w \in Seq(Fds), w # <<>>
  PROVE  /\ Head(w) \in Fds
         /\ \A f : InQueue(w, f) <=> InQueue(Tail(w), f) \/ f = Head(w)
         /\ NoDup(w) => NoDup(Tail(w)) /\ ~InQueue(Tail(w), Head(w))
<1> DEFINE v == Tail(w)
<1>1. /\ Len(v) = Len(w) - 1 /\ Len(w) \in Nat \ {0}
      /\ \A i \in 1 .. Len(v) : v[i] = w[i + 1]
      /\ Head(w) = w[1] /\ Head(w) \in Fds
  OBVIOUS
<1> HIDE DEF v
<1>2. \A f : InQueue(v, f) => InQueue(w, f)
  BY <1>1 DEF InQueue
<1>3. InQueue(w, Head(w))
  BY <1>1 DEF InQueue
<1>4. ASSUME NEW f, InQueue(w, f), f # Head(w) PROVE InQueue(v, f)
  <2>1. PICK i \in 1 .. Len(w) : w[i] = f
    BY <1>4 DEF InQueue
  <2>2. i - 1 \in 1 .. Len(v) /\ v[i - 1] = f
    BY <1>1, <1>4, <2>1
  <2> QED
    BY <2>2 DEF InQueue
<1>5. ASSUME NoDup(w) PROVE NoDup(v) /\ ~InQueue(v, Head(w))
  BY SMTT(30), <1>1, <1>5 DEF NoDup, InQueue
<1> QED
  BY <1>1, <1>2, <1>3, <1>4, <1>5 DEF v

-----------------------------------------------------------------------------
\* The parts of SingleOwner.
OneHolder == \A s, t \in Servers :
               sockmap[s] = sockmap[t] /\ sockmap[s] # NoFd => s = t
Apart(f) ==
  /\ Queued(f) => ~Held(f)
  /\ Queued(f) \/ Held(f) => ~Polling(f) /\ ~Accepting(f)
  /\ Accepting(f) => ~Polling(f)
  /\ Queued(f) \/ Held(f) \/ Polling(f) \/ Accepting(f) => f \in clients_
Parts == NoDup(workload_) /\ OneHolder /\ \A f \in Fds : Apart(f)

\* SingleOwner, in the form the steps of pushWork and popWork are argued in.
LEMMA SingleOwnerParts == (SingleOwner <=> Parts) /\ (SingleOwner' <=> Parts')
BY Zenon DEF SingleOwner, Parts, NoDup, OneHolder, Apart

\* Steps that move no connection.
LEMMA SingleOwnerSame ==
  ASSUME SingleOwner, UNCHANGED <<workload_, sockmap, clients_>>,
         \A f \in Fds : Polling(f)' <=> Polling(f),
         \A f \in Fds : Accepting(f)' => Accepting(f)
  PROVE  SingleOwner'
BY DEF SingleOwner, Queued, Held

\* The steps of TCPListener::run, pushWork above all, keep a single owner.
LEMMA SingleOwnerListener ==
  ASSUME IInv, ListenerStep PROVE SingleOwner'
<1> USE ParamsAssumption DEF kernel, listener, shared, pool, worker, faults
<1>t. TypeOK /\ SingleOwner /\ BatchIsLive
  BY DEF IInv
<1>p. NoDup(workload_) /\ OneHolder /\ \A f \in Fds : Apart(f)
  BY <1>t, SingleOwnerParts DEF Parts
<1>1. ASSUME NEW g \in Fds, PushWork(g) PROVE SingleOwner'
  <2>1. Polling(g) /\ g \in clients_
    BY <1>t, <1>1 DEF BatchIsLive, Stopping, PushWork, Polling
  <2>2. ~Queued(g) /\ ~Held(g)
    BY <2>1, <1>p DEF Apart
  <2>3. /\ NoDup(workload_')
        /\ \A f \in Fds : Queued(f)' <=> Queued(f) \/ f = g
    <3>1. workload_ \in Seq(Fds) /\ workload_' = Append(workload_, g)
      BY <1>1, <1>t DEF PushWork, TypeOK
    <3>2. ~InQueue(workload_, g)
      BY <2>2 DEF Queued, InQueue
    <3>3. /\ NoDup(workload_')
          /\ \A f : InQueue(workload_', f) <=> InQueue(workload_, f) \/ f = g
      BY Zenon, <1>p, <3>1, <3>2, AppendQueue
    <3> QED
      BY Zenon, <3>3 DEF Queued, InQueue
  <2>4. OneHolder' /\ \A f \in Fds : Held(f)' <=> Held(f)
    BY Zenon, <1>1, <1>p DEF PushWork, OneHolder, Held
  <2>5. /\ clients_' = clients_
        /\ \A f \in Fds : Polling(f)' <=> Polling(f) /\ f # g
        /\ \A f \in Fds : ~Accepting(f)'
    BY SMTT(30), <1>1, <1>t, <2>1 DEF PushWork, Polling, Accepting, TypeOK
  <2>6. \A f \in Fds : Apart(f)'
    BY Zenon, <1>p, <2>1, <2>2, <2>3, <2>4, <2>5 DEF Apart
  <2> QED
    BY Zenon, <2>3, <2>4, <2>6, SingleOwnerParts DEF Parts
<1>2. CASE InsertClient
  <2>0. PICK g \in Fds : g = client_sock /\ g \notin clients_
    BY <1>2 DEF InsertClient, IInv, ListenerHolds
  <2>1. ~Queued(g) /\ ~Held(g) /\ ~Polling(g)
    BY Zenon, <1>p, <2>0 DEF Apart
  <2>2. /\ NoDup(workload_') /\ OneHolder'
        /\ \A f \in Fds : /\ Queued(f)' <=> Queued(f)
                          /\ Held(f)' <=> Held(f)
                          /\ Polling(f)' <=> Polling(f)
                          /\ Accepting(f)' <=> f = g
    BY Zenon, <1>2, <1>p, <2>0 DEF InsertClient, NoDup, OneHolder, Queued, Held, Polling, Accepting
  <2>3. clients_' = clients_ \cup {g}
    BY Zenon, <1>2, <2>0 DEF InsertClient
  <2>4. \A f \in Fds : Apart(f)'
    BY <1>p, <2>1, <2>2, <2>3 DEF Apart
  <2> QED
    BY Zenon, <2>2, <2>4, SingleOwnerParts DEF Parts
<1>3. CASE PushNew
  <2>0. client_sock \in Fds
    BY Zenon, <1>3 DEF PushNew, IInv, ListenerHolds
  <2>1. Accepting(client_sock) /\ ~Queued(client_sock) /\ ~Held(client_sock)
    BY Zenon, <1>3, <1>p, <2>0 DEF PushNew, Apart, Accepting
  <2>2. /\ NoDup(workload_')
        /\ \A f \in Fds : Queued(f)' <=> Queued(f) \/ f = client_sock
    <3>1. workload_ \in Seq(Fds) /\ workload_' = Append(workload_, client_sock)
      BY <1>3, <1>t DEF PushNew, TypeOK
    <3>2. ~InQueue(workload_, client_sock)
      BY <2>1 DEF Queued, InQueue
    <3>3. /\ NoDup(workload_')
          /\ \A f : InQueue(workload_', f) <=> InQueue(workload_, f) \/ f = client_sock
      BY <1>p, <2>0, <3>1, <3>2, AppendQueue
    <3> QED
      BY Zenon, <3>3 DEF Queued, InQueue
  <2>3. /\ OneHolder' /\ clients_' = clients_
        /\ \A f \in Fds : /\ Held(f)' <=> Held(f)
                          /\ Polling(f)' <=> Polling(f)
                          /\ ~Accepting(f)'
    BY Zenon, <1>3, <1>p DEF PushNew, OneHolder, Held, Polling, Accepting
  <2>4. ~Polling(client_sock)
    BY Zenon, <1>p, <2>0, <2>1 DEF Apart
  <2>5. \A f \in Fds : Apart(f)'
    BY Zenon, <1>p, <2>0, <2>1, <2>2, <2>3, <2>4 DEF Apart
  <2> QED
    BY Zenon, <2>2, <2>3, <2>5, SingleOwnerParts DEF Parts
<1>4. CASE EpollWait
  <2>1. PICK A \in SUBSET ReadyFds :
             interest' = [f \in Fds |-> IF f \in A THEN "fired" ELSE interest[f]]
    BY Zenon, <1>4 DEF EpollWait
  <2>2. \A f \in Fds : Polling(f)' <=> Polling(f)
    BY Zenon, <2>1 DEF ReadyFds, Polling
  <2> QED
    BY <1>4, <1>t, <2>2, SingleOwnerSame DEF EpollWait, Accepting
<1>5. CASE CloseClients
  <2>1. workload_' = <<>> /\ \A s \in Servers : sockmap'[s] = NoFd
    BY Zenon, <1>5 DEF CloseClients, IInv, DrainedBeforeStop
  <2>2. PICK S : Closed(S)
    BY Zenon, <1>5 DEF CloseClients
  <2>3. \A f \in Fds : /\ Polling(f)' => Polling(f) /\ f \notin S
                       /\ ~Accepting(f)'
    BY <1>5, <2>2 DEF CloseClients, Closed, Polling, Accepting
  <2>4. \A f \in Fds : ~Queued(f)' /\ ~Held(f)'
    BY <2>1 DEF Queued, Held
  <2>5. \A f \in Fds : Polling(f)' => f \in clients_'
    BY Zenon, <1>p, <2>2, <2>3 DEF Apart, Closed
  <2>6. NoDup(workload_)'
    BY <2>1 DEF NoDup
  <2>7. OneHolder'
    BY Zenon, <2>1 DEF OneHolder
  <2>8. \A f \in Fds : Apart(f)'
    BY Zenon, <2>3, <2>4, <2>5 DEF Apart
  <2> QED
    BY Zenon, <2>6, <2>7, <2>8, SingleOwnerParts DEF Parts
<1>6. CASE UNCHANGED <<workload_, sockmap, clients_, interest>> /\ lpc' # "push"
  BY Zenon, <1>6, <1>t, SingleOwnerSame DEF Polling, Accepting
<1>7. CASE CleanStoppedServers
  BY Zenon, <1>6, <1>7 DEF CleanStoppedServers, NextIteration
<1>8. CASE \E s \in Servers : AddServer(s)
  BY Zenon, <1>6, <1>8 DEF AddServer
<1>9. CASE \/ AddServersDone \/ ListenEvent \/ DispatchDone \/ AcceptNone
           \/ AcceptFails \/ EpollWaitFails \/ LimitReached \/ BelowLimit \/ Configure \/ AcceptAgain
           \/ CleanNotDue \/ DrainDone \/ JoinServers
  BY Zenon, <1>6, <1>9 DEF AddServersDone, ListenEvent, DispatchDone, AcceptNone,
     AcceptFails, EpollWaitFails, LimitReached, BelowLimit, Configure, AcceptAgain, CleanNotDue,
     NextIteration, DrainDone, JoinServers
<1>10. CASE \E f \in Fds : Accept(f)
  BY Zenon, <1>6, <1>10 DEF Accept
<1> QED
  BY Zenon, <1>1, <1>2, <1>3, <1>4, <1>5, <1>7, <1>8, <1>9, <1>10 DEF ListenerStep

\* The steps of TCPServer::run, popWork and releaseWork above all, keep a single
\* owner.
LEMMA SingleOwnerServer ==
  ASSUME IInv, NEW s \in Servers, ServerStep(s) PROVE SingleOwner'
<1> USE ParamsAssumption DEF kernel, listener, shared, pool, worker, faults
<1>t. TypeOK /\ SingleOwner /\ ServersHold
  BY DEF IInv
<1>p. NoDup(workload_) /\ OneHolder /\ \A f \in Fds : Apart(f)
  BY <1>t, SingleOwnerParts DEF Parts
<1>1. CASE PopWork(s)
  <2>0. PICK g \in Fds : g = Head(workload_)
    BY <1>1, <1>t, TailQueue DEF PopWork, TypeOK
  <2>1. /\ Queued(g)
        /\ NoDup(workload_')
        /\ \A f \in Fds : Queued(f) <=> Queued(f)' \/ f = g
        /\ ~Queued(g)'
    <3>1. workload_ \in Seq(Fds) /\ workload_ # <<>> /\ workload_' = Tail(workload_)
      BY <1>1, <1>t DEF PopWork, TypeOK
    <3>2. /\ NoDup(workload_')
          /\ \A f : InQueue(workload_, f) <=> InQueue(workload_', f) \/ f = g
          /\ ~InQueue(workload_', g)
      BY <1>p, <2>0, <3>1, TailQueue
    <3>3. \A f : (Queued(f) <=> InQueue(workload_, f)) /\ (Queued(f)' <=> InQueue(workload_', f))
      BY Zenon DEF Queued, InQueue
    <3> QED
      BY Zenon, <3>2, <3>3
  <2>2. sockmap[s] = NoFd /\ sockmap' = [sockmap EXCEPT ![s] = g]
    BY Zenon, <1>1, <1>t, <2>0 DEF PopWork, ServersHold, Working
  <2>3. \A f \in Fds : Held(f)' <=> Held(f) \/ f = g
    BY Zenon, <1>t, <2>1, <2>2 DEF Held, TypeOK
  <2>4. ~Held(g) /\ ~Polling(g) /\ ~Accepting(g)
    BY Zenon, <1>p, <2>1 DEF Apart
  <2>5. OneHolder'
    BY Zenon, <1>t, <1>p, <2>1, <2>2, <2>4 DEF OneHolder, Held, TypeOK
  <2>6. /\ clients_' = clients_
        /\ \A f \in Fds : (Polling(f)' <=> Polling(f)) /\ (Accepting(f)' <=> Accepting(f))
    BY Zenon, <1>1 DEF PopWork, Polling, Accepting
  <2>7. \A f \in Fds : Apart(f)'
    BY Zenon, <1>p, <2>1, <2>3, <2>4, <2>6 DEF Apart
  <2> QED
    BY Zenon, <2>1, <2>5, <2>7, SingleOwnerParts DEF Parts
<1>2. CASE CloseSocket(s) \/ CloseSocketFails(s) \/ Rearm(s) \/ RearmFails(s)
  <2>0. PICK g \in Fds : g = sockmap[s]
    <3>1. spc[s] \in {"close", "rearm"}
      BY Zenon, <1>2 DEF CloseSocket, CloseSocketFails, Rearm, RearmFails
    <3>2. spc[s] \in Working
      BY <3>1 DEF Working
    <3>3. sockmap[s] # NoFd
      BY Zenon, <1>t, <3>2 DEF ServersHold
    <3>4. sockmap \in [Servers -> Fds \cup {NoFd}]
      BY Zenon, <1>t DEF TypeOK
    <3> QED BY <3>3, <3>4
  <2>1. Held(g) /\ sockmap' = [sockmap EXCEPT ![s] = NoFd]
    BY Zenon, <1>2, <2>0 DEF CloseSocket, CloseSocketFails, Rearm, RearmFails, Leave, Held
  <2>2. OneHolder' /\ \A f \in Fds : Held(f)' <=> Held(f) /\ f # g
    BY SMTT(30), <1>t, <1>p, <2>0, <2>1 DEF OneHolder, Held, TypeOK
  <2>3. NoDup(workload_') /\ \A f \in Fds : Queued(f)' <=> Queued(f)
    BY Zenon, <1>2, <1>p DEF CloseSocket, CloseSocketFails, Rearm, RearmFails, Queued
  <2>4. \A f \in Fds : Accepting(f)' <=> Accepting(f)
    BY Zenon, <1>2 DEF CloseSocket, CloseSocketFails, Rearm, RearmFails, Accepting
  <2>5. /\ \A f \in Fds \ {g} : Polling(f)' <=> Polling(f)
        /\ clients_' = clients_ \/ (clients_' = clients_ \ {g} /\ ~Polling(g)')
    <3>1. CASE CloseSocket(s) \/ CloseSocketFails(s)
      BY <3>1, <2>0 DEF CloseSocket, CloseSocketFails, Closed, Polling
    <3>2. CASE Rearm(s)
      BY SMTT(30), <3>2, <1>t, <2>0 DEF Rearm, Polling, TypeOK
    <3>3. CASE RearmFails(s)
      BY Zenon, <3>3 DEF RearmFails, Polling
    <3> QED BY Zenon, <1>2, <3>1, <3>2, <3>3
  <2>6. ~Queued(g) /\ ~Accepting(g) /\ ~Polling(g) /\ g \in clients_
    BY Zenon, <1>p, <2>1 DEF Apart
  <2>7. \A f \in Fds : Apart(f)'
    BY Zenon, <1>p, <2>1, <2>2, <2>3, <2>4, <2>5, <2>6 DEF Apart
  <2> QED
    BY Zenon, <2>2, <2>3, <2>7, SingleOwnerParts DEF Parts
<1>3. CASE UNCHANGED <<workload_, sockmap, clients_, interest, lpc, client_sock>>
  BY <1>3, <1>t, SingleOwnerSame DEF Polling, Accepting
<1> QED
  BY Zenon, <1>1, <1>2, <1>3 DEF ServerStep, Awake, WaitTimeout, PopNothing, LoopCheck,
     HandShake, ReadSocket, ShutDown, ReleaseWork

\* Every step keeps a single owner.
LEMMA SingleOwnerStep == IInv /\ [Next]_vars => SingleOwner'
<1> SUFFICES ASSUME IInv, [Next]_vars PROVE SingleOwner'
  BY Zenon
<1>1. CASE Environment \/ Terminated \/ UNCHANGED vars
  BY Zenon, <1>1, SingleOwnerSame DEF IInv, Environment, Connect, PeerSend, PeerHangup, Stop,
     Terminated, vars, kernel, listener, shared, pool, worker, faults, Polling, Accepting
<1> QED
  BY <1>1, SingleOwnerListener, SingleOwnerServer DEF Next

-----------------------------------------------------------------------------
\* TCPListener::run starts with nothing connected, so IInv holds.
LEMMA IInvInit == Init => IInv
<1> SUFFICES ASSUME Init PROVE IInv
  OBVIOUS
<1> USE ParamsAssumption DEF Init
<1>0. servers_ \in SUBSET Servers /\ init_server_ \in Servers
  BY Zenon
<1>1. TypeOK
  <2>1. /\ spc \in [Servers -> ServerPc]
        /\ workload_ \in Seq(Fds)
        /\ lpc \in ListenerPc
        /\ interest \in [Fds -> Interest]
    BY DEF ServerPc, ListenerPc, Interest
  <2> QED
    BY Zenon, <1>0, <2>1 DEF TypeOK
<1>2. InService = {} /\ Cardinality(InService) = 0
  BY Zenon, FS_EmptySet DEF InService
<1>3. ServersHold /\ ListenerHolds /\ BatchIsLive /\ PendingWork /\ DrainedBeforeStop
  BY SMTT(30), <1>2 DEF ServersHold, ListenerHolds, BatchIsLive, PendingWork, DrainedBeforeStop,
     Working
<1>4. SingleOwner
  BY DEF SingleOwner, Queued, Held, Polling, Accepting
<1> QED
  BY <1>1, <1>3, <1>4 DEF IInv

\* IInv is inductive.
LEMMA IInvStep == IInv /\ [Next]_vars => IInv'
BY ServersHoldStep, ListenerHoldsStep, PendingWorkStep, TypeOKStep,
   DrainedBeforeStopStep, BatchIsLiveStep, SingleOwnerStep DEF IInv

\* IInv holds in every state of the listener.
LEMMA Invariance == Spec => []IInv
BY IInvInit, IInvStep, PTL DEF Spec

\* What the queue and the servers hold when one of them takes or adds a connection.
LEMMA QueueSteps ==
  ASSUME TypeOK
  PROVE  /\ \A g \in Fds : workload_' = Append(workload_, g)
               => \A f \in Fds : Queued(f)' <=> Queued(f) \/ f = g
         /\ \A s \in Servers : PopWork(s)
               => \A f \in Fds : Queued(f) => Queued(f)' \/ sockmap'[s] = f
<1>1. ASSUME NEW g \in Fds, workload_' = Append(workload_, g), NEW f \in Fds
      PROVE  Queued(f)' <=> Queued(f) \/ f = g
  <2>1. InQueue(workload_', f) <=> InQueue(workload_, f) \/ f = g
    BY <1>1, AppendQueue DEF TypeOK
  <2> QED
    BY Zenon, <2>1 DEF Queued, InQueue
<1>2. ASSUME NEW s \in Servers, PopWork(s), NEW f \in Fds, Queued(f)
      PROVE  Queued(f)' \/ sockmap'[s] = f
  <2>1. /\ workload_ \in Seq(Fds) /\ workload_ # <<>> /\ workload_' = Tail(workload_)
        /\ sockmap'[s] = Head(workload_)
    BY <1>2 DEF PopWork, TypeOK
  <2>2. InQueue(workload_, f)
    BY Zenon, <1>2 DEF Queued, InQueue
  <2>3. InQueue(workload_', f) \/ f = Head(workload_)
    BY <2>1, <2>2, TailQueue
  <2> QED
    BY Zenon, <2>1, <2>3 DEF Queued, InQueue
<1> QED
  BY <1>1, <1>2

\* TCPListener::run does not go back to its event loop.
LEMMA StoppingStep == Stopping /\ [Next]_vars => Stopping'
<1> SUFFICES ASSUME Stopping, [Next]_vars PROVE Stopping'
  OBVIOUS
<1> USE DEF Stopping, listener
<1>1. CASE Environment \/ Terminated \/ UNCHANGED vars
  BY Zenon, <1>1 DEF Environment, Connect, PeerSend, PeerHangup, Stop, Terminated, vars
<1>2. CASE \E s \in Servers : ServerStep(s)
  BY Zenon, <1>2, ServerFrame
<1>3. CASE ListenerStep
  <2>1. CASE DrainDone \/ JoinServers \/ CloseClients
    BY Zenon, <2>1 DEF DrainDone, JoinServers, CloseClients
  <2>2. CASE lpc \notin {"drain", "join", "close", "done"}
    BY Zenon, <2>2
  <2>3. ~DrainDone /\ ~JoinServers /\ ~CloseClients
          => lpc \in {"loop", "poll", "dispatch", "accept", "limit", "insert", "push",
                      "configure", "again", "clean"}
    BY Zenon, <1>3 DEF ListenerStep, AddServer, AddServersDone, EpollWait, EpollWaitFails,
       PushWork, ListenEvent, DispatchDone, AcceptNone, AcceptFails, Accept, LimitReached,
       BelowLimit, InsertClient, PushNew, Configure, AcceptAgain, CleanNotDue,
       CleanStoppedServers
  <2> QED BY <2>1, <2>2, <2>3
<1> QED
  BY Zenon, <1>1, <1>2, <1>3 DEF Next

\* An open connection is armed, has its event in the batch, is queued, has a server, is
\* being accepted, or is one that a failed pollAdd has forgotten.
Known(f) == \/ interest[f] = "armed"
            \/ interest[f] = "fired" /\ batch[f] # {}
            \/ Queued(f) \/ Held(f) \/ Accepting(f)
            \/ f \in lost

\* A connection that a failed pollAdd has forgotten keeps its entry in clients_ until
\* run ends.
LEMMA LostStep ==
  ASSUME IInv, lost \subseteq clients_, [Next]_vars, ~Stopping'
  PROVE  lost' \subseteq clients_'
<1> USE DEF kernel, listener, shared, pool, worker, faults
<1>1. CASE Environment \/ Terminated \/ UNCHANGED vars
  BY Zenon, <1>1 DEF Environment, Connect, PeerSend, PeerHangup, Stop, Terminated, vars
<1>2. CASE ListenerStep
  <2>1. CASE CloseClients
    BY <2>1 DEF CloseClients, Stopping
  <2>2. CASE lost' = lost /\ clients_ \subseteq clients_'
    BY Zenon, <2>2
  <2>3. CASE (\E f \in Fds : PushWork(f)) \/ InsertClient
    BY <2>2, <2>3 DEF PushWork, InsertClient
  <2>4. CASE UNCHANGED <<lost, clients_>>
    BY Zenon, <2>4
  <2> QED
    BY Zenon, <1>2, <2>1, <2>3, <2>4 DEF ListenerStep, AddServer, AddServersDone, EpollWait,
       EpollWaitFails, ListenEvent, DispatchDone, AcceptNone, AcceptFails, Accept,
       LimitReached, BelowLimit, PushNew, Configure, AcceptAgain, CleanNotDue,
       CleanStoppedServers, DrainDone, JoinServers
<1>3. ASSUME NEW s \in Servers, ServerStep(s) PROVE lost' \subseteq clients_'
  <2>1. CASE CloseSocket(s) \/ CloseSocketFails(s)
    BY Zenon, <2>1 DEF CloseSocket, CloseSocketFails, Closed
  <2>2. CASE RearmFails(s)
    <3>1. spc[s] \in Working
      BY <2>2 DEF RearmFails, Working
    <3>2. sockmap[s] \in Fds
      BY Zenon, <3>1 DEF IInv, ServersHold, TypeOK
    <3>3. sockmap[s] \in clients_
      BY Zenon, <3>2 DEF IInv, SingleOwner, Held
    <3> QED
      BY Zenon, <2>2, <3>3 DEF RearmFails
  <2>3. CASE UNCHANGED <<lost, clients_>>
    BY Zenon, <2>3
  <2> QED
    BY Zenon, <1>3, <2>1, <2>2, <2>3 DEF ServerStep, Awake, WaitTimeout, PopWork, PopNothing,
       LoopCheck, HandShake, ReadSocket, ShutDown, ReleaseWork, Rearm, Outcome
<1> QED
  BY Zenon, <1>1, <1>2, <1>3 DEF Next

\* pushWork, popWork and releaseWork pass a connection on before they let it go, and
\* epoll_wait reports what it disarms.
LEMMA NotForgottenStep == IInv /\ NotForgotten /\ [Next]_vars => NotForgotten'
<1> SUFFICES ASSUME IInv, NotForgotten, [Next]_vars, ~Stopping',
                    NEW f \in Fds, f \in clients_'
             PROVE  Known(f)'
  <2>1. IInv' => clients_' \subseteq Fds
    BY DEF IInv, TypeOK
  <2>2. IInv /\ NotForgotten /\ [Next]_vars /\ ~Stopping' => lost' \subseteq clients_'
    BY Zenon, StoppingStep, LostStep DEF NotForgotten
  <2> QED
    BY Zenon, <2>1, <2>2, IInvStep DEF NotForgotten, Known
<1> USE ParamsAssumption DEF kernel, listener, shared, pool, worker, faults
<1>t. TypeOK
  BY DEF IInv
<1>s. ~Stopping
  BY Zenon, StoppingStep
<1>k. f \in clients_ => Known(f)
  BY Zenon, <1>s DEF NotForgotten, Known
<1>1. CASE Environment \/ Terminated \/ UNCHANGED vars
  <2>1. UNCHANGED <<lost, lpc, clients_, interest, batch, workload_, sockmap, client_sock>>
    BY Zenon, <1>1 DEF Environment, Connect, PeerSend, PeerHangup, Stop, Terminated, vars
  <2> QED
    BY Zenon, <2>1, <1>k DEF Known, Queued, Held, Accepting
<1>2. CASE ListenerStep
  <2>1. CASE EpollWait
    <3>1. PICK A \in SUBSET ReadyFds :
             /\ interest' = [g \in Fds |-> IF g \in A THEN "fired" ELSE interest[g]]
             /\ \E eof \in SUBSET (A \cap hup) :
                  batch' = [g \in Fds |-> IF g \in A THEN EventState(g, eof) ELSE {}]
      BY Zenon, <2>1 DEF EpollWait
    <3>2. f \in clients_ /\ lpc = "poll" /\ UNCHANGED <<workload_, sockmap, lost>>
      BY Zenon, <2>1 DEF EpollWait
    <3>3. CASE f \in A
      <4>1. f \in avail \cup hup
        BY <3>3 DEF ReadyFds
      <4>2. interest'[f] = "fired" /\ batch'[f] # {}
        BY <3>1, <3>3, <4>1 DEF EventState
      <4> QED
        BY <4>2 DEF Known
    <3>4. CASE f \notin A
      <4>1. batch[f] = {} /\ interest'[f] = interest[f]
        BY <3>1, <3>2, <3>4 DEF IInv, ListenerHolds
      <4>2. interest[f] = "armed" \/ Queued(f) \/ Held(f) \/ f \in lost
        BY <1>k, <3>2, <4>1 DEF Known, Accepting
      <4> QED
        BY Zenon, <3>2, <4>1, <4>2 DEF Known, Queued, Held
    <3> QED
      BY <3>3, <3>4
  <2>2. ASSUME NEW g \in Fds, PushWork(g) PROVE Known(f)'
    <3>1. /\ lpc = "dispatch" /\ batch[g] # {} /\ clients_' = clients_ \cup {g}
          /\ lost' = lost /\ sockmap' = sockmap /\ workload_' = Append(workload_, g)
          /\ batch' = [batch EXCEPT ![g] = {}] /\ interest' = [interest EXCEPT ![g] = "out"]
      BY Zenon, <2>2 DEF PushWork
    <3>2. Queued(f)' <=> Queued(f) \/ f = g
      BY <1>t, <3>1, QueueSteps
    <3>3. CASE f = g
      BY Zenon, <3>2, <3>3 DEF Known
    <3>4. CASE f # g
      <4>1. Known(f) /\ ~Accepting(f)
        BY <1>k, <3>1, <3>4 DEF Accepting
      <4>2. interest'[f] = interest[f] /\ batch'[f] = batch[f]
        BY <1>t, <3>1, <3>4 DEF TypeOK
      <4>3. Held(f) => Held(f)'
        BY Zenon, <3>1 DEF Held
      <4> QED BY Zenon, <3>1, <3>2, <4>1, <4>2, <4>3 DEF Known
    <3> QED BY <3>3, <3>4
  <2>3. CASE InsertClient
    <3>1. /\ UNCHANGED <<lost, sockmap, workload_, interest, batch>>
          /\ clients_' = clients_ \cup {client_sock} /\ lpc = "insert"
          /\ lpc' = "push" /\ client_sock' = client_sock
      BY Zenon, <2>3 DEF InsertClient
    <3>2. f # client_sock => Known(f) /\ ~Accepting(f)
      BY <1>k, <3>1 DEF Accepting
    <3> QED
      BY <3>1, <3>2 DEF Known, Queued, Held, Accepting
  <2>4. CASE PushNew
    <3>1. /\ UNCHANGED <<lost, sockmap, clients_, interest, batch>>
          /\ client_sock \in Fds /\ lpc = "push"
          /\ workload_' = Append(workload_, client_sock)
      BY Zenon, <2>4 DEF PushNew, IInv, ListenerHolds
    <3>2. Queued(f)' <=> Queued(f) \/ f = client_sock
      BY Zenon, <1>t, <3>1, QueueSteps
    <3>3. Known(f)
      BY Zenon, <1>k, <3>1
    <3> QED
      BY Zenon, <3>1, <3>2, <3>3 DEF Known, Held, Accepting
  <2>5. CASE UNCHANGED <<lost, sockmap, workload_, clients_, interest, batch>> /\ lpc # "push"
    BY Zenon, <2>5, <1>k DEF Known, Queued, Held, Accepting
  <2>6. CASE CleanStoppedServers
    BY Zenon, <2>6, <2>5 DEF CleanStoppedServers
  <2>7. CASE \E s \in Servers : AddServer(s)
    BY Zenon, <2>7, <2>5 DEF AddServer
  <2>8. CASE DrainDone \/ JoinServers \/ CloseClients
    BY <2>8, <1>s DEF DrainDone, JoinServers, CloseClients, Stopping
  <2>9. CASE \E g \in Fds : Accept(g)
    BY Zenon, <2>9, <2>5 DEF Accept
  <2>10. CASE \/ AddServersDone \/ EpollWaitFails \/ ListenEvent \/ DispatchDone \/ AcceptNone
              \/ AcceptFails \/ LimitReached \/ BelowLimit \/ Configure \/ AcceptAgain
              \/ CleanNotDue
    BY Zenon, <2>10, <2>5 DEF AddServersDone, EpollWaitFails, ListenEvent, DispatchDone, AcceptNone,
       AcceptFails, LimitReached, BelowLimit, Configure, AcceptAgain, CleanNotDue
  <2> QED
    BY Zenon, <1>2, <2>1, <2>2, <2>3, <2>4, <2>6, <2>7, <2>8, <2>9, <2>10 DEF ListenerStep
<1>3. ASSUME NEW s \in Servers, ServerStep(s) PROVE Known(f)'
  <2>0. UNCHANGED <<lpc, client_sock, batch>> /\ f \in clients_ /\ Known(f)
    BY Zenon, <1>3, <1>k, ServerFrame
  <2>1. CASE PopWork(s)
    <3>1. /\ UNCHANGED <<lost, interest>>
          /\ sockmap[s] = NoFd /\ sockmap' = [sockmap EXCEPT ![s] = sockmap'[s]]
      BY Zenon, <2>1, <1>t DEF PopWork, IInv, ServersHold, Working, TypeOK
    <3>2. Queued(f) => Queued(f)' \/ Held(f)'
      BY <1>t, <2>1, QueueSteps DEF Held
    <3>3. Held(f) => Held(f)'
      <4>1. sockmap \in [Servers -> Fds \cup {NoFd}]
        BY Zenon, <1>t DEF TypeOK
      <4>2. \A r \in Servers \ {s} : sockmap'[r] = sockmap[r]
        BY <3>1, <4>1
      <4>3. f # NoFd
        BY Zenon, ParamsAssumption
      <4> QED BY Zenon, <3>1, <4>2, <4>3 DEF Held
    <3> QED
      BY Zenon, <2>0, <3>1, <3>2, <3>3 DEF Known, Accepting
  <2>2. CASE CloseSocket(s) \/ CloseSocketFails(s) \/ Rearm(s) \/ RearmFails(s)
    <3>1. sockmap[s] \in Fds /\ sockmap' = [sockmap EXCEPT ![s] = NoFd] /\ workload_' = workload_
      <4>1. spc[s] \in Working
        BY Zenon, <2>2 DEF CloseSocket, CloseSocketFails, Rearm, RearmFails, Working
      <4>2. sockmap[s] \in Fds
        BY Zenon, <1>t, <4>1 DEF IInv, ServersHold, TypeOK
      <4> QED
        BY Zenon, <2>2, <4>2 DEF CloseSocket, CloseSocketFails, Rearm, RearmFails, Leave
    <3>2. /\ f # sockmap[s] => interest'[f] = interest[f] /\ (f \in lost => f \in lost')
          /\ f = sockmap[s] => interest'[f] = "armed" \/ f \in lost'
      <4>1. CASE CloseSocket(s) \/ CloseSocketFails(s)
        BY <4>1 DEF CloseSocket, CloseSocketFails, Closed
      <4>2. CASE Rearm(s)
        BY <1>t, <3>1, <4>2 DEF Rearm, TypeOK
      <4>3. CASE RearmFails(s)
        BY Zenon, <4>3 DEF RearmFails
      <4> QED BY Zenon, <2>2, <4>1, <4>2, <4>3
    <3>3. CASE f # sockmap[s]
      <4>1. Held(f) => Held(f)'
        <5>1. \A r \in Servers \ {s} : sockmap'[r] = sockmap[r]
          BY <1>t, <3>1 DEF TypeOK
        <5> QED BY Zenon, <3>3, <5>1 DEF Held
      <4> QED
        BY Zenon, <2>0, <3>1, <3>2, <3>3, <4>1 DEF Known, Queued, Accepting
    <3> QED
      BY Zenon, <3>2, <3>3 DEF Known
  <2>3. CASE UNCHANGED <<lost, workload_, sockmap, interest>>
    BY Zenon, <2>0, <2>3 DEF Known, Queued, Held, Accepting
  <2> QED
    BY Zenon, <1>3, <2>1, <2>2, <2>3 DEF ServerStep, Awake, WaitTimeout, PopNothing,
       LoopCheck, HandShake, ReadSocket, ShutDown, ReleaseWork, Outcome
<1> QED
  BY Zenon, <1>1, <1>2, <1>3 DEF Next

\* The accept loop is about to make an entry: there still is room for it.
Room == lpc = "insert" => Cardinality(clients_) < MaxConnections

\* Entries are added under the limit only, and only by the accept loop.
LEMMA ConnectionLimitStep ==
  IInv /\ ConnectionLimit /\ Room /\ [Next]_vars => ConnectionLimit' /\ Room'
<1> SUFFICES ASSUME IInv, ConnectionLimit, Room, [Next]_vars PROVE ConnectionLimit' /\ Room'
  OBVIOUS
<1> USE ParamsAssumption DEF kernel, listener, shared, pool, worker, faults
<1>f. IsFiniteSet(clients_) /\ Cardinality(clients_) \in Nat /\ clients_ \subseteq Fds
  BY FS_Subset, FS_CardinalityType DEF IInv, TypeOK
<1>1. CASE InsertClient
  <2>1. /\ clients_' = clients_ \cup {client_sock} /\ client_sock \notin clients_
        /\ lpc = "insert" /\ lpc' = "push"
    BY <1>1 DEF InsertClient, IInv, ListenerHolds
  <2>2. Cardinality(clients_') = Cardinality(clients_) + 1
    BY Zenon, <1>f, <2>1, FS_AddElement
  <2> QED
    BY <1>f, <2>1, <2>2 DEF ConnectionLimit, Room
<1>2. ASSUME clients_' \subseteq clients_, lpc' = "insert" => lpc = "insert"
      PROVE  ConnectionLimit' /\ Room'
  <2>1. Cardinality(clients_') \in Nat /\ Cardinality(clients_') <= Cardinality(clients_)
    BY <1>f, <1>2, FS_Subset, FS_CardinalityType
  <2> QED
    BY <1>f, <1>2, <2>1 DEF ConnectionLimit, Room
<1>3. CASE \E f \in Fds : PushWork(f)
  BY <1>2, <1>3 DEF PushWork, IInv, BatchIsLive, Stopping
<1>4. CASE \E s \in Servers : ServerStep(s)
  BY <1>2, <1>4, ServerFrame
<1>5. CASE CloseClients
  BY <1>2, <1>5 DEF CloseClients, Closed
<1>6. CASE BelowLimit
  BY <1>f, <1>6 DEF BelowLimit, AtLimit, ConnectionLimit, Room
<1>7. CASE Environment \/ Terminated \/ UNCHANGED vars
  BY Zenon, <1>2, <1>7 DEF vars, Environment, Connect, PeerSend, PeerHangup, Stop, Terminated
<1>8. CASE CleanStoppedServers
  <2>1. clients_' = clients_ /\ lpc' # "insert"
    BY Zenon, <1>8 DEF CleanStoppedServers, NextIteration
  <2> QED BY Zenon, <1>2, <2>1
<1>9. CASE EpollWait \/ (\E s \in Servers : AddServer(s)) \/ (\E f \in Fds : Accept(f))
  <2>1. clients_' = clients_ /\ (lpc' = "insert" => lpc = "insert")
    BY Zenon, <1>9 DEF EpollWait, AddServer, Accept
  <2> QED BY Zenon, <1>2, <2>1
<1>10. CASE \/ AddServersDone \/ EpollWaitFails \/ ListenEvent \/ DispatchDone \/ AcceptNone
            \/ AcceptFails \/ LimitReached \/ PushNew \/ Configure \/ AcceptAgain
            \/ CleanNotDue \/ DrainDone \/ JoinServers
  <2>1. clients_' = clients_ /\ lpc' # "insert"
    BY Zenon, <1>10 DEF AddServersDone, EpollWaitFails, ListenEvent, DispatchDone, AcceptNone,
       AcceptFails, LimitReached, PushNew, Configure, AcceptAgain, CleanNotDue,
       NextIteration, DrainDone, JoinServers
  <2> QED BY Zenon, <1>2, <2>1
<1> QED
  BY Zenon, <1>1, <1>3, <1>4, <1>5, <1>6, <1>7, <1>8, <1>9, <1>10 DEF Next, ListenerStep

\* For any number of connections and servers, and any number of failing
\* callbacks and epoll calls, the variables of TCPListener keep their types; in
\* particular work_q_sz_, an unsigned counter, is never decremented below 0.
THEOREM TypeCorrect == Spec => []TypeOK
BY Invariance, PTL DEF IInv

\* A connection is in one place at a time: polled, queued once, in the hands of
\* one TCPServer, or just being accepted by TCPListener::run.
THEOREM ConnectionHasSingleOwner == Spec => []SingleOwner
BY Invariance, PTL DEF IInv

\* work_q_sz_ counts the queued connections and those a server has in service.
THEOREM PendingWorkCounted == Spec => []PendingWork
BY Invariance, PTL DEF IInv

\* TCPListener::run asks its servers to stop only when no work is left, and
\* closes the remaining sockets only when no server uses one.
THEOREM StopsDrained == Spec => []DrainedBeforeStop
BY Invariance, PTL DEF IInv

\* pushWork is only called for connections that are open and registered.
THEOREM EventsAreLive == Spec => []BatchIsLive
BY Invariance, PTL DEF IInv

\* No open connection is lost by pushWork, popWork or releaseWork, in any
\* interleaving of any number of servers; a pollAdd that fails costs the connection
\* it was called for and no other.
THEOREM OpenConnectionsAreKnown == Spec => []NotForgotten
<1>1. Init => NotForgotten
  BY DEF Init, NotForgotten
<1> QED
  BY <1>1, Invariance, NotForgottenStep, PTL DEF Spec

\* TCPListener::run never holds more than maxconnections connections, though it
\* reads clients_.size() without clientmutex_ and makes the entry later: between the
\* two, servers only erase entries.
THEOREM ConnectionsLimited == Spec => []ConnectionLimit
<1>1. Init => ConnectionLimit /\ Room
  BY ParamsAssumption, FS_EmptySet DEF Init, ConnectionLimit, Room
<1> QED
  BY <1>1, Invariance, ConnectionLimitStep, PTL DEF Spec
=============================================================================
