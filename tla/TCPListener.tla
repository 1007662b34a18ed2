---------------------------- MODULE TCPListener ----------------------------
(***************************************************************************)
(* The event loop of dodo::network::TCPListener and the pool of            *)
(* dodo::network::TCPServer worker threads that service its connections.   *)
(*                                                                         *)
(* One listener thread accepts connections, polls the connected sockets    *)
(* with a one-shot epoll interest, and queues each ready socket in         *)
(* workload_.  Worker threads pop sockets from workload_, run the callbacks *)
(* handShake, readSocket and shutDown on them, and hand them back: either   *)
(* re-armed in epoll or closed.  A connection is named by its descriptor.   *)
(*                                                                         *)
(* Every critical section of clientmutex_ is one action, and so is every    *)
(* callback.  Delays (logStats, throttle) do not touch this state.          *)
(***************************************************************************)
EXTENDS Naturals, Sequences, FiniteSets

CONSTANTS
  Fds,             \* descriptors the kernel can hand to accepted connections
  Servers,         \* identities of TCPServer threads
  NoFd,            \* no connection
  MinServers,      \* params_.minservers
  MaxServers,      \* params_.maxservers
  MaxConnections,  \* params_.maxconnections
  PollBatch,       \* params_.pollbatch
  MaxBacklog,      \* bound: connections waiting in the listen backlog
  MaxThrows,       \* bound: callbacks that throw
  MaxErrors        \* bound: system calls that fail

ASSUME ParamsAssumption ==
  /\ NoFd \notin Fds
  /\ IsFiniteSet(Fds) /\ IsFiniteSet(Servers)
  /\ MinServers \in Nat /\ MaxServers \in Nat /\ MaxConnections \in Nat
  /\ PollBatch \in Nat \ {0}
  /\ MaxBacklog \in Nat /\ MaxThrows \in Nat /\ MaxErrors \in Nat

VARIABLES
  \* The kernel: sockets and epoll (external to the repository).
  backlog,         \* connections that wait to be accepted
  avail,           \* connections with unread data
  hup,             \* connections whose peer hung up or failed
  interest,        \* epoll registration: "out", "armed" or "fired" (one-shot used up)
  nonblock,        \* connections in non-blocking mode
  \* The listener thread.
  lpc,             \* where TCPListener::run is
  batch,           \* events of the current epoll_wait still to be dispatched
  lready,          \* the listen socket is one of them
  client_sock,     \* the connection being accepted
  stop_server_,
  \* Data shared under clientmutex_, and the atomic counter work_q_sz_.
  clients_,        \* domain of the map clients_
  state,           \* SocketWork.state of each client, as a set of SockState bits
  workload_,
  work_q_sz_,
  \* The pool of TCPServer threads.
  servers_,
  init_server_,
  spc,             \* where TCPServer::run is
  request_stop_,   \* servers asked to stop
  sockmap,         \* the connection a server is working on
  completion_state,
  \* Bookkeeping.
  called,          \* history: callbacks made for a connection and what they told
  throws,          \* callbacks that threw so far
  errors,          \* system calls of the listener and the servers that failed so far
  lost             \* connections whose EPOLL_CTL_ADD failed

kernel   == <<backlog, avail, hup, interest, nonblock>>
listener == <<lpc, batch, lready, client_sock, stop_server_>>
shared   == <<clients_, state, workload_, work_q_sz_>>
pool     == <<servers_, init_server_, request_stop_>>
worker   == <<spc, sockmap, completion_state>>
faults   == <<throws, errors, lost>>
vars     == <<kernel, listener, shared, pool, worker, called, faults>>

SockState == {"New", "Read", "Shut"}
Interest  == {"out", "armed", "fired"}
ListenerPc == {"loop", "poll", "dispatch", "accept", "limit", "insert", "push",
               "configure", "again", "clean", "drain", "join", "close", "done"}
ServerPc == {"none", "wait", "pop", "new", "read", "shut", "release",
             "rearm", "close", "check", "stopped"}

(***************************************************************************)
(* TCPListener::run up to its loop: the initial server and as many more as *)
(* minservers asks for have been started, and nothing is connected.        *)
(***************************************************************************)
Init ==
  /\ backlog = 0
  /\ avail = {} /\ hup = {} /\ nonblock = {}
  /\ interest = [f \in Fds |-> "out"]
  /\ lpc = "loop"
  /\ batch = [f \in Fds |-> {}]
  /\ lready = FALSE
  /\ client_sock = NoFd
  /\ stop_server_ = FALSE
  /\ clients_ = {}
  /\ state = [f \in Fds |-> {}]
  /\ workload_ = <<>>
  /\ work_q_sz_ = 0
  /\ servers_ \in {S \in SUBSET Servers :
                     Cardinality(S) = IF MinServers = 0 THEN 1 ELSE MinServers}
  /\ init_server_ \in servers_
  /\ spc = [s \in Servers |-> IF s \in servers_ THEN "wait" ELSE "none"]
  /\ request_stop_ = {}
  /\ sockmap = [s \in Servers |-> NoFd]
  /\ completion_state = [s \in Servers |-> {}]
  /\ called = [f \in Fds |-> {}]
  /\ throws = 0 /\ errors = 0 /\ lost = {}

-----------------------------------------------------------------------------
(***************************************************************************)
(* The environment: peers, and the application that calls stop().          *)
(***************************************************************************)

\* A peer completes a TCP handshake with the listening socket.
Connect ==
  /\ backlog < MaxBacklog
  /\ backlog' = backlog + 1
  /\ UNCHANGED <<avail, hup, interest, nonblock, listener, shared, pool,
                 worker, called, faults>>

\* A peer sends data.
PeerSend(f) ==
  /\ f \in clients_ \ (avail \cup hup)
  /\ avail' = avail \cup {f}
  /\ UNCHANGED <<backlog, hup, interest, nonblock, listener, shared, pool,
                 worker, called, faults>>

\* A peer hangs up, or the connection fails.
PeerHangup(f) ==
  /\ f \in clients_ \ hup
  /\ hup' = hup \cup {f}
  /\ UNCHANGED <<backlog, avail, interest, nonblock, listener, shared, pool,
                 worker, called, faults>>

\* TCPListener::stop.
Stop ==
  /\ ~stop_server_
  /\ stop_server_' = TRUE
  /\ UNCHANGED <<kernel, lpc, batch, lready, client_sock, shared, pool,
                 worker, called, faults>>

-----------------------------------------------------------------------------
(***************************************************************************)
(* The listener thread.                                                    *)
(***************************************************************************)

\* One turn of the loop of addServers: start a server while more work is
\* pending than there are servers, up to maxservers.
AddServer(s) ==
  /\ lpc = "loop"
  /\ work_q_sz_ > Cardinality(servers_)
  /\ Cardinality(servers_) < MaxServers
  /\ spc[s] = "none"
  /\ servers_' = servers_ \cup {s}
  /\ spc' = [spc EXCEPT ![s] = "wait"]
  /\ UNCHANGED <<kernel, listener, shared, init_server_, request_stop_,
                 sockmap, completion_state, called, faults>>

\* addServers has enough servers; throttle may delay the listener.
AddServersDone ==
  /\ lpc = "loop"
  /\ \/ work_q_sz_ <= Cardinality(servers_)
     \/ Cardinality(servers_) >= MaxServers
  /\ lpc' = "poll"
  /\ UNCHANGED <<kernel, batch, lready, client_sock, stop_server_, shared,
                 pool, worker, called, faults>>

ReadyFds == {f \in Fds : interest[f] = "armed" /\ f \in avail \cup hup}

\* epoll_wait reports up to PollBatch events: A, and the listen socket if l.
Polled(A, l) ==
  LET n == Cardinality(A) + (IF l THEN 1 ELSE 0)
  IN  /\ l => backlog > 0
      /\ n <= PollBatch
      /\ n < PollBatch => A = ReadyFds /\ l = (backlog > 0)

\* Mutant: hangups are not looked at.
EventStateNoHangup(f, eof) == IF f \in avail \cup eof THEN {"Read"} ELSE {}

\* The combined_state an event is turned into.  A hangup (EPOLLRDHUP, EPOLLERR,
\* EPOLLHUP) reads as end of file too when the kernel adds EPOLLIN: eof.
EventState(f, eof) ==
  (IF f \in avail \cup eof THEN {"Read"} ELSE {}) \cup
  (IF f \in hup THEN {"Shut"} ELSE {})

\* epoll_wait: each reported one-shot interest is used up.
EpollWait ==
  /\ lpc = "poll"
  /\ \E A \in SUBSET ReadyFds, l \in BOOLEAN :
       /\ Polled(A, l)
       /\ interest' = [f \in Fds |-> IF f \in A THEN "fired" ELSE interest[f]]
       /\ lready' = l
       /\ \E eof \in SUBSET (A \cap hup) :
            batch' = [f \in Fds |-> IF f \in A THEN EventState(f, eof) ELSE {}]
  /\ lpc' = "dispatch"
  /\ UNCHANGED <<backlog, avail, hup, nonblock, client_sock, stop_server_,
                 shared, pool, worker, called, faults>>

\* A system call fails, at most MaxErrors times.
Fails == errors < MaxErrors /\ errors' = errors + 1

\* epoll_wait fails with another error than EINTR: the loop ends.
EpollWaitFails ==
  /\ lpc = "poll"
  /\ Fails
  /\ lpc' = "drain"
  /\ UNCHANGED <<kernel, batch, lready, client_sock, stop_server_, shared,
                 pool, worker, called, throws, lost>>

\* Mutant: pushWork leaves the socket in epoll.
PushWorkNoPollDel(f) ==
  /\ lpc = "dispatch"
  /\ batch[f] # {}
  /\ state' = [state EXCEPT ![f] = @ \cup batch[f]]
  /\ workload_' = Append(workload_, f)
  /\ work_q_sz_' = work_q_sz_ + 1
  /\ batch' = [batch EXCEPT ![f] = {}]
  /\ UNCHANGED <<kernel, lpc, lready, client_sock, stop_server_, clients_,
                 pool, worker, called, faults>>

\* An event on a connection: pushWork(fd, combined_state), which also removes
\* the socket from epoll.  pollDel throws, and so ends the loop, when the socket
\* is not registered; clients_[fd] would create an entry for an unknown socket.
PushWork(f) ==
  /\ lpc = "dispatch"
  /\ batch[f] # {}
  /\ clients_' = clients_ \cup {f}
  /\ state' = [state EXCEPT ![f] = @ \cup batch[f]]
  /\ workload_' = Append(workload_, f)
  /\ work_q_sz_' = work_q_sz_ + 1
  /\ batch' = [batch EXCEPT ![f] = {}]
  /\ interest' = [interest EXCEPT ![f] = "out"]
  /\ lpc' = IF interest[f] = "out" THEN "drain" ELSE "dispatch"
  /\ UNCHANGED <<backlog, avail, hup, nonblock, lready, client_sock,
                 stop_server_, pool, worker, called, faults>>

\* An event on the listen socket enters the accept loop.
ListenEvent ==
  /\ lpc = "dispatch"
  /\ lready
  /\ lready' = FALSE
  /\ lpc' = "accept"
  /\ UNCHANGED <<kernel, batch, client_sock, stop_server_, shared, pool,
                 worker, called, faults>>

\* Every event of the batch has been dispatched.
DispatchDone ==
  /\ lpc = "dispatch"
  /\ ~lready
  /\ \A f \in Fds : batch[f] = {}
  /\ lpc' = "clean"
  /\ UNCHANGED <<kernel, batch, lready, client_sock, stop_server_, shared,
                 pool, worker, called, faults>>

\* Mutant: off by one.
AtLimitOffByOne == Cardinality(clients_) > MaxConnections

\* clients_.size() >= params_.maxconnections, read without a lock.
AtLimit == Cardinality(clients_) >= MaxConnections

\* Mutant: at the limit, connections are left in the backlog.
AcceptNoneAtLimit ==
  /\ lpc = "accept"
  /\ backlog = 0 \/ AtLimit
  /\ lpc' = "dispatch"
  /\ UNCHANGED <<kernel, batch, lready, client_sock, stop_server_, shared,
                 pool, worker, called, faults>>

\* accept returns an invalid socket: the backlog is empty.
AcceptNone ==
  /\ lpc = "accept"
  /\ backlog = 0
  /\ lpc' = "dispatch"
  /\ UNCHANGED <<kernel, batch, lready, client_sock, stop_server_, shared,
                 pool, worker, called, faults>>

\* accept throws on every other error than EAGAIN, out of descriptors among
\* them: the loop ends.
AcceptFails ==
  /\ lpc = "accept"
  /\ errors < MaxErrors \/ (backlog > 0 /\ clients_ = Fds)
  /\ errors' = errors + 1
  /\ lpc' = "drain"
  /\ UNCHANGED <<kernel, batch, lready, client_sock, stop_server_, shared,
                 pool, worker, called, throws, lost>>

\* accept returns the socket of a new connection.
Accept(f) ==
  /\ lpc = "accept"
  /\ backlog > 0
  /\ f \notin clients_
  /\ backlog' = backlog - 1
  /\ client_sock' = f
  /\ lpc' = "limit"
  /\ UNCHANGED <<avail, hup, interest, nonblock, batch, lready, stop_server_,
                 shared, pool, worker, called, faults>>

\* maxconnections is reached: the connection is closed and deleted.  The loop
\* condition then reads the deleted socket, so it may go either way.  A close
\* that fails throws, and ends the loop.
LimitReached ==
  /\ lpc = "limit"
  /\ AtLimit
  /\ client_sock' = NoFd
  /\ \/ lpc' \in {"accept", "dispatch"} /\ errors' = errors
     \/ Fails /\ lpc' = "drain"
  /\ UNCHANGED <<kernel, batch, lready, stop_server_, shared, pool, worker,
                 called, throws, lost>>

\* There is room for the connection: servers may close others from now on, but
\* the entry is made on the strength of this test.
BelowLimit ==
  /\ lpc = "limit"
  /\ ~AtLimit
  /\ lpc' = "insert"
  /\ UNCHANGED <<kernel, batch, lready, client_sock, stop_server_, shared,
                 pool, worker, called, faults>>

\* The connection gets an entry in clients_, under clientmutex_.
InsertClient ==
  /\ lpc = "insert"
  /\ clients_' = clients_ \cup {client_sock}
  /\ state' = [state EXCEPT ![client_sock] = {"New"}]
  /\ lpc' = "push"
  /\ UNCHANGED <<kernel, batch, lready, client_sock, stop_server_, workload_,
                 work_q_sz_, pool, worker, called, faults>>

\* Mutant: work_q_sz_ is not incremented.
PushNewNoCount ==
  /\ lpc = "push"
  /\ workload_' = Append(workload_, client_sock)
  /\ lpc' = "configure"
  /\ UNCHANGED <<kernel, batch, lready, client_sock, stop_server_, clients_,
                 state, work_q_sz_, pool, worker, called, faults>>

\* Mutant: the new socket is registered in epoll before its handshake.
PushNewArmed ==
  /\ lpc = "push"
  /\ workload_' = Append(workload_, client_sock)
  /\ work_q_sz_' = work_q_sz_ + 1
  /\ interest' = [interest EXCEPT ![client_sock] = "armed"]
  /\ lpc' = "configure"
  /\ UNCHANGED <<backlog, avail, hup, nonblock, batch, lready, client_sock,
                 stop_server_, clients_, state, pool, worker, called, faults>>

\* pushWork({client_sock, New}): queued, but not yet registered in epoll.
PushNew ==
  /\ lpc = "push"
  /\ state' = [state EXCEPT ![client_sock] = @ \cup {"New"}]
  /\ workload_' = Append(workload_, client_sock)
  /\ work_q_sz_' = work_q_sz_ + 1
  /\ lpc' = "configure"
  /\ UNCHANGED <<kernel, batch, lready, client_sock, stop_server_, clients_,
                 pool, worker, called, faults>>

\* Mutant: the socket stays in blocking mode.
ConfigureBlocking ==
  /\ lpc = "configure"
  /\ lpc' = "again"
  /\ UNCHANGED <<kernel, batch, lready, client_sock, stop_server_, shared, pool,
                 worker, called, faults>>

\* setBlocking(false) and the other options are set after the push.  A worker
\* may have deleted the socket by then: the calls throw, which ends the loop, or
\* pass unnoticed.
Configure ==
  /\ lpc = "configure"
  /\ IF client_sock \in clients_
       THEN nonblock' = nonblock \cup {client_sock} /\ lpc' = "again"
       ELSE nonblock' = nonblock /\ lpc' \in {"again", "drain"}
  /\ UNCHANGED <<backlog, avail, hup, interest, batch, lready, client_sock,
                 stop_server_, shared, pool, worker, called, faults>>

\* The condition of the accept loop reads client_sock, which may be deleted.
AcceptAgain ==
  /\ lpc = "again"
  /\ lpc' = "accept" \/ (client_sock \notin clients_ /\ lpc' = "dispatch")
  /\ client_sock' = NoFd
  /\ UNCHANGED <<kernel, batch, lready, stop_server_, shared, pool, worker,
                 called, faults>>

\* The end of an iteration: leave the loop when a stop was requested.
NextIteration == lpc' = IF stop_server_ THEN "drain" ELSE "loop"

\* cleanStoppedServers before its interval has passed.
CleanNotDue ==
  /\ lpc = "clean"
  /\ NextIteration
  /\ UNCHANGED <<kernel, batch, lready, client_sock, stop_server_, shared,
                 pool, worker, called, faults>>

\* Servers cleanStoppedServers may ask to stop: idle, not the initial one, and
\* the list is longer than minservers (stopped servers further down the list
\* still count).
Stoppable ==
  {s \in servers_ \ {init_server_} :
     /\ Cardinality(servers_) > MinServers
     /\ spc[s] \in {"wait", "check"}}

\* cleanStoppedServers: stopped servers are deleted, a stopped initial server is
\* replaced by a new one (the server after it in the list is then skipped), and
\* at most one idle server is asked to stop.
CleanStoppedServers ==
  /\ lpc = "clean"
  /\ LET stopped == {s \in servers_ : spc[s] = "stopped"}
         replace == init_server_ \in stopped
     IN  \E skip \in IF replace THEN SUBSET (stopped \ {init_server_}) ELSE {{}},
            idle \in {{}} \cup {{s} : s \in Stoppable} :
           LET dead == stopped \ skip
           IN  /\ Cardinality(skip) <= 1
               /\ \E fresh \in IF replace THEN {{n} : n \in Servers \ (servers_ \ dead)}
                                          ELSE {{}} :
                    /\ servers_' = (servers_ \ dead) \cup fresh
                    /\ init_server_' \in IF replace THEN fresh ELSE {init_server_}
                    /\ spc' = [s \in Servers |->
                                  IF s \in fresh THEN "wait"
                                  ELSE IF s \in dead THEN "none" ELSE spc[s]]
               /\ request_stop_' = (request_stop_ \ dead) \cup idle
  /\ NextIteration
  /\ UNCHANGED <<kernel, batch, lready, client_sock, stop_server_, shared,
                 sockmap, completion_state, called, faults>>

\* Mutant: the drain looks at the queue only.
DrainDoneQueueOnly ==
  /\ lpc = "drain"
  /\ workload_ = <<>>
  /\ request_stop_' = servers_
  /\ lpc' = "join"
  /\ UNCHANGED <<kernel, batch, lready, client_sock, stop_server_, shared,
                 servers_, init_server_, worker, called, faults>>

\* After the loop: wait until no work is pending, then ask all servers to stop.
DrainDone ==
  /\ lpc = "drain"
  /\ work_q_sz_ = 0
  /\ request_stop_' = servers_
  /\ lpc' = "join"
  /\ UNCHANGED <<kernel, batch, lready, client_sock, stop_server_, shared,
                 servers_, init_server_, worker, called, faults>>

\* All servers are joined and deleted.
JoinServers ==
  /\ lpc = "join"
  /\ \A s \in servers_ : spc[s] = "stopped"
  /\ servers_' = {}
  /\ request_stop_' = {}
  /\ spc' = [s \in Servers |-> "none"]
  /\ lpc' = "close"
  /\ UNCHANGED <<kernel, batch, lready, client_sock, stop_server_, shared,
                 init_server_, sockmap, completion_state, called, faults>>

\* closeSocket on the sockets S: the entries are erased and the descriptors
\* released, whatever close returns.  Closing drops the epoll registration.
Closed(S) ==
  /\ clients_' = clients_ \ S
  /\ state' = [f \in Fds |-> IF f \in S THEN {} ELSE state[f]]
  /\ interest' = [f \in Fds |-> IF f \in S THEN "out" ELSE interest[f]]
  /\ avail' = avail \ S /\ hup' = hup \ S /\ nonblock' = nonblock \ S
  /\ called' = [f \in Fds |-> IF f \in S THEN {} ELSE called[f]]
  /\ lost' = lost \ S

\* closeSocket on every remaining client, or up to one whose close fails and
\* throws; no other thread is left.
CloseClients ==
  /\ lpc = "close"
  /\ \/ Closed(clients_) /\ errors' = errors
     \/ \E S \in (SUBSET clients_) \ {{}} : Closed(S) /\ Fails
  /\ lpc' = "done"
  /\ UNCHANGED <<backlog, batch, lready, client_sock, stop_server_, workload_,
                 work_q_sz_, pool, worker, throws>>

-----------------------------------------------------------------------------
(***************************************************************************)
(* A worker: TCPServer::run of server s.                                   *)
(***************************************************************************)
Goto(s, pc) == spc' = [spc EXCEPT ![s] = pc]

\* Mutant: the last item does not wake a server.
ActivityOffByOne(s) == work_q_sz_ > 1 \/ s \in request_stop_

\* The predicate of waitForActivity.
Activity(s) == work_q_sz_ > 0 \/ s \in request_stop_

\* waitForActivity returns true: notified, or timed out with the predicate true.
Awake(s) ==
  /\ spc[s] = "wait"
  /\ Activity(s)
  /\ Goto(s, "pop")
  /\ UNCHANGED <<kernel, listener, shared, pool, sockmap, completion_state,
                 called, faults>>

\* waitForActivity times out.
WaitTimeout(s) ==
  /\ spc[s] = "wait"
  /\ ~Activity(s)
  /\ Goto(s, "check")
  /\ UNCHANGED <<kernel, listener, shared, pool, sockmap, completion_state,
                 called, faults>>

\* The first of the steps handShake, readSocket, shutDown the state S asks for.
Step(S) == IF "New" \in S THEN "new"
           ELSE IF "Read" \in S THEN "read"
           ELSE IF "Shut" \in S THEN "shut" ELSE "release"

\* Mutant: popWork reads the front but does not pop it.
PopWorkNoPop(s) ==
  /\ spc[s] = "pop"
  /\ workload_ # <<>>
  /\ sockmap' = [sockmap EXCEPT ![s] = Head(workload_)]
  /\ Goto(s, Step(state[Head(workload_)]))
  /\ UNCHANGED <<kernel, listener, shared, pool, completion_state, called, faults>>

\* popWork finds a connection.
PopWork(s) ==
  /\ spc[s] = "pop"
  /\ workload_ # <<>>
  /\ workload_' = Tail(workload_)
  /\ sockmap' = [sockmap EXCEPT ![s] = Head(workload_)]
  /\ Goto(s, Step(state[Head(workload_)]))
  /\ UNCHANGED <<kernel, listener, clients_, state, work_q_sz_, pool,
                 completion_state, called, faults>>

\* popWork returns NULL.
PopNothing(s) ==
  /\ spc[s] = "pop"
  /\ workload_ = <<>>
  /\ Goto(s, "check")
  /\ UNCHANGED <<kernel, listener, shared, pool, sockmap, completion_state,
                 called, faults>>

\* The loop condition !request_stop_.
LoopCheck(s) ==
  /\ spc[s] = "check"
  /\ Goto(s, IF s \in request_stop_ THEN "stopped" ELSE "wait")
  /\ UNCHANGED <<kernel, listener, shared, pool, sockmap, completion_state,
                 called, faults>>

\* A callback for bit b of the state ends as r: "ok", "failed" or "threw".  An
\* exception is caught and adds nothing to completion_state.
Outcome(s, b, r) ==
  /\ completion_state' = [completion_state EXCEPT ![s] = @ \cup
       (IF r = "threw" THEN {} ELSE {b}) \cup (IF r = "failed" THEN {"Shut"} ELSE {})]
  /\ r = "threw" => throws < MaxThrows
  /\ throws' = IF r = "threw" THEN throws + 1 ELSE throws
  /\ UNCHANGED <<errors, lost>>

\* handShake, which may read from the socket.
HandShake(s, r) ==
  /\ spc[s] = "new"
  /\ Outcome(s, "New", r)
  /\ called' = [called EXCEPT ![sockmap[s]] =
                  @ \cup {"shake"} \cup IF r = "ok" THEN {"shaken"} ELSE {}]
  /\ avail' \in {avail, avail \ {sockmap[s]}}
  /\ Goto(s, Step(state[sockmap[s]] \ {"New"}))
  /\ UNCHANGED <<backlog, hup, interest, nonblock, listener, shared, pool,
                 sockmap>>

\* readBuffer and readSocket.  An exception may leave the data unread.
ReadSocket(s, r) ==
  /\ spc[s] = "read"
  /\ Outcome(s, "Read", r)
  /\ avail' = avail \ {sockmap[s]} \/ (r = "threw" /\ avail' = avail)
  /\ Goto(s, Step(state[sockmap[s]] \ {"New", "Read"}))
  /\ UNCHANGED <<backlog, hup, interest, nonblock, listener, shared, pool,
                 sockmap, called>>

\* shutDown.
ShutDown(s, r) ==
  /\ spc[s] = "shut"
  /\ Outcome(s, "Shut", r)
  /\ called' = [called EXCEPT ![sockmap[s]] = @ \cup {"shut"}]
  /\ Goto(s, "release")
  /\ UNCHANGED <<kernel, listener, shared, pool, sockmap>>

\* Mutant: completion_state is not reset for the next connection.
LeaveStale(s, pc) ==
  /\ Goto(s, pc)
  /\ sockmap' = [sockmap EXCEPT ![s] = NoFd]
  /\ UNCHANGED completion_state

\* The variables of the loop body go out of scope.
Leave(s, pc) ==
  /\ Goto(s, pc)
  /\ sockmap' = [sockmap EXCEPT ![s] = NoFd]
  /\ completion_state' = [completion_state EXCEPT ![s] = {}]

\* Mutant: closing a socket does not count as finished work.
ReleaseWorkNotOnShut(s) ==
  /\ spc[s] = "release"
  /\ IF "Shut" \in completion_state[s]
       THEN Goto(s, "close") /\ UNCHANGED work_q_sz_
       ELSE Goto(s, "rearm") /\ work_q_sz_' = work_q_sz_ - 1
  /\ UNCHANGED <<kernel, listener, clients_, state, workload_, pool, sockmap,
                 completion_state, called, faults>>

\* releaseWork, first statement: the work no longer counts as pending.
ReleaseWork(s) ==
  /\ spc[s] = "release"
  /\ work_q_sz_' = work_q_sz_ - 1
  /\ Goto(s, IF "Shut" \in completion_state[s] THEN "close" ELSE "rearm")
  /\ UNCHANGED <<kernel, listener, clients_, state, workload_, pool, sockmap,
                 completion_state, called, faults>>

\* releaseWork, Shut: closeSocket.
CloseSocket(s) ==
  /\ spc[s] = "close"
  /\ Closed({sockmap[s]})
  /\ Leave(s, "pop")
  /\ UNCHANGED <<backlog, listener, workload_, work_q_sz_, pool, throws, errors>>

\* The close in closeSocket fails: the exception leaves TCPServer::run after the
\* entry was erased, and the thread ends.
CloseSocketFails(s) ==
  /\ spc[s] = "close"
  /\ Closed({sockmap[s]})
  /\ Fails
  /\ Leave(s, "stopped")
  /\ UNCHANGED <<backlog, listener, workload_, work_q_sz_, pool, throws>>

\* Mutant: the socket is not added to epoll again.
RearmNoPollAdd(s) ==
  /\ spc[s] = "rearm"
  /\ state' = [state EXCEPT ![sockmap[s]] = @ \ completion_state[s]]
  /\ Leave(s, "pop")
  /\ UNCHANGED <<kernel, listener, clients_, workload_, work_q_sz_, pool, called,
                 faults>>

\* Mutant: the completed bits stay set.
RearmKeepsState(s) ==
  /\ spc[s] = "rearm"
  /\ interest' = [interest EXCEPT ![sockmap[s]] = "armed"]
  /\ Leave(s, "pop")
  /\ UNCHANGED <<backlog, avail, hup, nonblock, listener, shared, pool, called,
                 faults>>

\* releaseWork, otherwise: pollAdd, then the completed bits are taken off with ^=.
Rearm(s) ==
  /\ spc[s] = "rearm"
  /\ LET f == sockmap[s]
         c == completion_state[s]
     IN  /\ interest[f] = "out"
         /\ interest' = [interest EXCEPT ![f] = "armed"]
         /\ state' = [state EXCEPT ![f] = (@ \ c) \cup (c \ @)]
  /\ Leave(s, "pop")
  /\ UNCHANGED <<backlog, avail, hup, nonblock, listener, clients_, workload_,
                 work_q_sz_, pool, called, faults>>

\* Mutant: the connection is taken off the list of clients when pollAdd fails.
RearmFailsErases(s) ==
  /\ spc[s] = "rearm"
  /\ Fails
  /\ lost' = lost \cup {sockmap[s]}
  /\ clients_' = clients_ \ {sockmap[s]}
  /\ Leave(s, "stopped")
  /\ UNCHANGED <<kernel, listener, state, workload_, work_q_sz_, pool, called, throws>>

\* pollAdd throws, since the socket is registered already or for lack of kernel
\* resources: the exception leaves TCPServer::run and the thread ends; the
\* connection keeps its entry, but no one looks at it again.
RearmFails(s) ==
  /\ spc[s] = "rearm"
  /\ errors < MaxErrors \/ interest[sockmap[s]] # "out"
  /\ errors' = errors + 1
  /\ lost' = lost \cup {sockmap[s]}
  /\ Leave(s, "stopped")
  /\ UNCHANGED <<kernel, listener, shared, pool, called, throws>>

-----------------------------------------------------------------------------
\* TCPListener::run has returned.
Terminated == lpc = "done" /\ UNCHANGED vars

Environment ==
  \/ Connect
  \/ \E f \in Fds : PeerSend(f) \/ PeerHangup(f)
  \/ Stop

ListenerStep ==
  \/ \E s \in Servers : AddServer(s)
  \/ AddServersDone
  \/ EpollWait
  \/ EpollWaitFails
  \/ \E f \in Fds : PushWork(f)
  \/ ListenEvent
  \/ DispatchDone
  \/ AcceptNone
  \/ AcceptFails
  \/ \E f \in Fds : Accept(f)
  \/ LimitReached
  \/ BelowLimit
  \/ InsertClient
  \/ PushNew
  \/ Configure
  \/ AcceptAgain
  \/ CleanNotDue
  \/ CleanStoppedServers
  \/ DrainDone
  \/ JoinServers
  \/ CloseClients

ServerStep(s) ==
  \/ Awake(s)
  \/ WaitTimeout(s)
  \/ PopWork(s)
  \/ PopNothing(s)
  \/ LoopCheck(s)
  \/ \E r \in {"ok", "failed", "threw"} : HandShake(s, r) \/ ReadSocket(s, r)
  \/ \E r \in {"ok", "threw"} : ShutDown(s, r)
  \/ ReleaseWork(s)
  \/ CloseSocket(s)
  \/ CloseSocketFails(s)
  \/ Rearm(s)
  \/ RearmFails(s)

Next == Environment \/ ListenerStep \/ (\E s \in Servers : ServerStep(s)) \/ Terminated

Spec == Init /\ [][Next]_vars

(***************************************************************************)
(* Threads are scheduled, and the clock reaches the next check interval of *)
(* cleanStoppedServers, so a listener that keeps looping runs it again.    *)
(***************************************************************************)
Fairness ==
  /\ WF_vars(ListenerStep)
  /\ SF_vars(CleanStoppedServers)
  /\ \A s \in Servers : WF_vars(ServerStep(s))

FairSpec == Spec /\ Fairness
-----------------------------------------------------------------------------
(***************************************************************************)
(* Properties.                                                             *)
(***************************************************************************)

\* The type invariant: every variable of the listener and its servers keeps its
\* type; in particular only valid descriptors are queued and serviced.
TypeOK ==
  /\ backlog \in Nat
  /\ avail \in SUBSET Fds /\ hup \in SUBSET Fds /\ nonblock \in SUBSET Fds
  /\ interest \in [Fds -> Interest]
  /\ lpc \in ListenerPc
  /\ batch \in [Fds -> SUBSET SockState]
  /\ lready \in BOOLEAN /\ stop_server_ \in BOOLEAN
  /\ client_sock \in Fds \cup {NoFd}
  /\ clients_ \in SUBSET Fds
  /\ state \in [Fds -> SUBSET SockState]
  /\ workload_ \in Seq(Fds)
  /\ work_q_sz_ \in Nat
  /\ servers_ \in SUBSET Servers /\ request_stop_ \in SUBSET Servers
  /\ init_server_ \in Servers
  /\ spc \in [Servers -> ServerPc]
  /\ sockmap \in [Servers -> Fds \cup {NoFd}]
  /\ completion_state \in [Servers -> SUBSET SockState]
  /\ called \in [Fds -> SUBSET {"shake", "shaken", "shut"}]
  /\ throws \in Nat /\ errors \in Nat /\ lost \in SUBSET Fds

Queued(f)    == \E i \in 1 .. Len(workload_) : workload_[i] = f
Held(f)      == \E s \in Servers : sockmap[s] = f
Accepting(f) == lpc = "push" /\ client_sock = f
Polling(f)   == interest[f] # "out"
Stopping     == lpc \in {"drain", "join", "close", "done"}

\* pushWork, popWork and releaseWork hand a connection around such that it is in
\* one place at a time: polled by epoll, queued once in workload_, or in the
\* hands of one server.  No two servers ever run callbacks on one connection,
\* although no lock is held while they do.
SingleOwner ==
  /\ \A i, j \in 1 .. Len(workload_) : workload_[i] = workload_[j] => i = j
  /\ \A s, t \in Servers :
       sockmap[s] = sockmap[t] /\ sockmap[s] # NoFd => s = t
  /\ \A f \in Fds :
       /\ Queued(f) => ~Held(f)
       /\ Queued(f) \/ Held(f) => ~Polling(f) /\ ~Accepting(f)
       /\ Accepting(f) => ~Polling(f)
       /\ Queued(f) \/ Held(f) \/ Polling(f) \/ Accepting(f) => f \in clients_

\* An open connection is never forgotten: it is armed in epoll, or its event waits
\* in the batch of the listener, or it is queued, or a server has it.  A pollAdd
\* that fails in releaseWork forgets the one connection it was called for and no
\* other, and that one keeps its entry in clients_, for run to close it in the end.
NotForgotten ==
  ~Stopping =>
    /\ lost \subseteq clients_
    /\ \A f \in clients_ : \/ interest[f] = "armed"
                           \/ interest[f] = "fired" /\ batch[f] # {}
                           \/ Queued(f) \/ Held(f) \/ Accepting(f)
                           \/ f \in lost

\* An event that waits in the batch is about a connection that is still open and
\* registered: pushWork never creates a clients_ entry for a closed descriptor,
\* and its pollDel never throws and ends the listener.
BatchIsLive ==
  ~Stopping => \A f \in Fds : batch[f] # {} =>
                 f \in clients_ /\ interest[f] = "fired"

\* Servers between popWork and the decrement of work_q_sz_ in releaseWork.
InService == {s \in Servers : spc[s] \in {"new", "read", "shut", "release"}}

\* work_q_sz_, which the drain at the end of run, addServers, throttle and the
\* waiting servers rely on, counts the queued and the serviced connections.
PendingWork == work_q_sz_ = Len(workload_) + Cardinality(InService)

\* When run asks the servers to stop, all work is done; when it closes the
\* remaining sockets, no server is using one.
DrainedBeforeStop ==
  /\ lpc \in {"join", "close", "done"} => workload_ = <<>> /\ InService = {}
  /\ lpc \in {"close", "done"} => \A s \in Servers : sockmap[s] = NoFd

\* readSocket is only called on sockets in non-blocking mode, although run sets
\* that mode after it has queued the socket.
ReadNonBlocking ==
  \A s \in Servers : spc[s] = "read" => sockmap[s] \in nonblock

\* Once handShake returned true it is not called again on the connection, and
\* readSocket and shutDown are never called before handShake was.
HandShakeFirst ==
  \A s \in Servers :
    /\ spc[s] = "new" => "shaken" \notin called[sockmap[s]]
    /\ spc[s] \in {"read", "shut"} => "shake" \in called[sockmap[s]]

\* The ^= in releaseWork only clears bits: a server completes nothing that was
\* not asked of it, unless the completion closes the socket.
CompletionIsAsked ==
  \A s \in Servers : spc[s] = "rearm" => completion_state[s] \subseteq state[sockmap[s]]

\* No more than maxconnections connections are open, though run tests
\* clients_.size() without holding clientmutex_, makes the new entry later, and
\* pushWork, releaseWork and closeSocket all look up clients_ with operator[],
\* which makes an entry for a descriptor that has none.
ConnectionLimit == Cardinality(clients_) <= MaxConnections

(***************************************************************************)
(* Liveness.  The accept loop lasts while peers keep connecting, so each   *)
(* property assumes that they stop connecting at some point.               *)
(***************************************************************************)
ConnectsPause == <>[][backlog' <= backlog]_backlog

\* A connection that waits in the backlog is accepted or turned away, also when
\* the accept loop ends early because its condition reads a deleted socket.
BacklogClears == ConnectsPause => (backlog > 0 ~> (backlog = 0 \/ Stopping))

\* Data that arrives is read, or its connection closed.
DataIsRead == ConnectsPause => \A f \in Fds : f \in avail ~> f \notin avail

\* A connection whose peer hung up is closed.
HangupCloses == ConnectsPause => \A f \in Fds : f \in hup ~> f \notin hup

\* After stop(), run finishes.
StopFinishes == ConnectsPause => (stop_server_ ~> lpc = "done")

(***************************************************************************)
(* What the documentation says and the code does not do.                   *)
(***************************************************************************)

\* "For a given connection, a TCPServer descendant will cycle through a handShake
\* call, zero or more readSocket calls, a shutDown call": releaseWork closes a
\* socket only after shutDown was called on it.
ShutDownBeforeClose ==
  \A s \in Servers : spc[s] = "close" => "shut" \in called[sockmap[s]]

\* handShake "should be returning false if the handshake fails, in which case the
\* TCPListener will clean up": TCPServer::run calls readSocket only on sockets
\* whose handshake succeeded.
ReadAfterHandShake ==
  \A s \in Servers : spc[s] = "read" => "shaken" \in called[sockmap[s]]

\* "Request a stop on the TCPListener": run ends its loop only after stop().
RunsUntilStopped == Stopping => stop_server_

-----------------------------------------------------------------------------
(***************************************************************************)
(* The listener and its servers implement TCPConnection.                   *)
(***************************************************************************)
phaseOf == [f \in Fds |-> IF f \notin clients_ THEN "closed"
                          ELSE IF Held(f) THEN "served"
                          ELSE IF Queued(f) \/ Accepting(f) THEN "due" ELSE "waiting"]
serversOf == [f \in Fds |-> {s \in Servers : sockmap[s] = f}]
greetedFds == {f \in Fds : "shaken" \in called[f]}

Conn == INSTANCE TCPConnection WITH
          phase <- phaseOf, by <- serversOf, greeted <- greetedFds

\* Every behaviour of the listener and its servers keeps the promise of
\* TCPConnection: one server at a time, taken from the queue once.
ImplementsConnection == Conn!Spec

\* With fair threads, a queued connection is also taken and served to an end.
ImplementsFairConnection == Conn!FairSpec
=============================================================================
