----------------------------- MODULE ServerPool -----------------------------
(***************************************************************************)
(* How TCPListener manages its pool of TCPServer threads: the list         *)
(* servers_, growing it (addServers), throttling, shrinking and repairing   *)
(* it (cleanStoppedServers), the condition variable the idle servers sleep  *)
(* on, and the orderly stop.  Work is a number here; module TCPListener     *)
(* says what it is.                                                         *)
(***************************************************************************)
EXTENDS Integers, Sequences, SequencesExt, FiniteSets

CONSTANTS
  Servers,            \* identities of TCPServer threads
  MinServers,         \* params_.minservers
  MaxServers,         \* params_.maxservers
  MaxQDepth,          \* params_.maxqdepth
  CycleMaxThrottles,  \* params_.cycle_max_throttles
  PollBatch,          \* params_.pollbatch
  SizeBits,           \* bound: the width of size_t
  MaxWork,            \* bound: pending work items
  MaxDeaths           \* bound: servers that end with an exception

ASSUME PoolAssumption ==
  /\ {MinServers, MaxServers, MaxQDepth, CycleMaxThrottles, PollBatch,
      SizeBits, MaxWork, MaxDeaths} \subseteq Nat
  /\ IsFiniteSet(Servers)

VARIABLES
  lpc,            \* where TCPListener::run is
  i,              \* the event of the batch, or the position of i_server in servers_
  num_stopped,    \* of cleanStoppedServers, a size_t that is counted down from 0
  asked,          \* history: servers this pass of cleanStoppedServers asked to stop
  last_pending,   \* of throttle
  c,              \* of throttle
  stop_server_,
  servers_,       \* the list of servers
  init_server_,
  objects,        \* TCPServer objects that were created and not deleted
  queued,         \* length of workload_
  work_q_sz_,
  spc,            \* where TCPServer::run is; "none": the server has no thread
  has_stopped_,   \* servers with has_stopped_ set
  busy_,          \* servers with busy_ set
  request_stop_,  \* servers asked to stop
  deaths          \* servers that ended with an exception so far

loopVars   == <<i, num_stopped, asked, last_pending, c>>
poolVars   == <<servers_, init_server_, objects>>
workVars   == <<queued, work_q_sz_>>
serverVars == <<spc, has_stopped_, busy_, request_stop_, deaths>>
vars == <<lpc, loopVars, stop_server_, poolVars, workVars, serverVars>>

Start == IF MinServers = 0 THEN 1 ELSE MinServers

\* run has started the initial server and minservers - 1 others.
Init ==
  /\ lpc = "add"
  /\ i = 0 /\ num_stopped = 0 /\ asked = {} /\ last_pending = 0 /\ c = 0
  /\ stop_server_ = FALSE
  /\ servers_ \in {q \in [1 .. Start -> Servers] : IsInjective(q)}
  /\ init_server_ = servers_[1]
  /\ objects = Range(servers_)
  /\ queued = 0 /\ work_q_sz_ = 0
  /\ spc = [s \in Servers |-> IF s \in Range(servers_) THEN "test" ELSE "none"]
  /\ has_stopped_ = {} /\ busy_ = {} /\ request_stop_ = {}
  /\ deaths = 0

-----------------------------------------------------------------------------
\* TCPListener::stop.
Stop ==
  /\ ~stop_server_
  /\ stop_server_' = TRUE
  /\ UNCHANGED <<lpc, loopVars, poolVars, workVars, serverVars>>

\* Mutant: one server too many.
NeedsServerOffByOne == work_q_sz_ > Len(servers_) /\ Len(servers_) <= MaxServers

\* The loop condition of addServers.
NeedsServer == work_q_sz_ > Len(servers_) /\ Len(servers_) < MaxServers

\* An identity for a new TCPServer.
Fresh(s) == s \notin objects /\ spc[s] = "none"

\* addServers: create, list and start a server.
AddServer(s) ==
  /\ lpc = "add"
  /\ NeedsServer
  /\ Fresh(s)
  /\ servers_' = Append(servers_, s)
  /\ objects' = objects \cup {s}
  /\ spc' = [spc EXCEPT ![s] = "test"]
  /\ UNCHANGED <<lpc, loopVars, stop_server_, init_server_, workVars,
                 has_stopped_, busy_, request_stop_, deaths>>

AddServersDone ==
  /\ lpc = "add"
  /\ ~NeedsServer
  /\ lpc' = "throttle"
  /\ UNCHANGED <<loopVars, stop_server_, poolVars, workVars, serverVars>>

\* throttle: the listener sleeps when more than maxqdepth work is pending.
ThrottleStart ==
  /\ lpc = "throttle"
  /\ IF work_q_sz_ > MaxQDepth
       THEN lpc' = "sleep" /\ last_pending' = work_q_sz_
       ELSE lpc' = "poll" /\ UNCHANGED last_pending
  /\ c' = 0 /\ i' = 0
  /\ UNCHANGED <<num_stopped, asked, stop_server_, poolVars, workVars, serverVars>>

\* Mutant: the sleeps are not counted.
ThrottleSleepUncounted ==
  /\ lpc = "sleep"
  /\ work_q_sz_ >= last_pending
  /\ UNCHANGED vars

\* One sleep; work_q_sz_ is read again before each.
ThrottleSleep ==
  /\ lpc = "sleep"
  /\ work_q_sz_ >= last_pending
  /\ c < CycleMaxThrottles
  /\ c' = c + 1
  /\ UNCHANGED <<lpc, i, num_stopped, asked, last_pending, stop_server_, poolVars,
                 workVars, serverVars>>

ThrottleEnd ==
  /\ lpc = "sleep"
  /\ work_q_sz_ < last_pending \/ c >= CycleMaxThrottles
  /\ lpc' = "poll"
  /\ last_pending' = 0 /\ c' = 0
  /\ UNCHANGED <<i, num_stopped, asked, stop_server_, poolVars, workVars, serverVars>>

\* Mutant: work_q_sz_ is not incremented.
PushWorkNoCount ==
  /\ lpc = "poll"
  /\ i < PollBatch /\ queued < MaxWork
  /\ queued' = queued + 1
  /\ i' = i + 1
  /\ lpc' = "notify"
  /\ UNCHANGED <<num_stopped, asked, last_pending, c, stop_server_, poolVars,
                 work_q_sz_, serverVars>>

\* pushWork for an event of the batch.
PushWork ==
  /\ lpc = "poll"
  /\ i < PollBatch /\ work_q_sz_ < MaxWork
  /\ queued' = queued + 1
  /\ work_q_sz_' = work_q_sz_ + 1
  /\ i' = i + 1
  /\ lpc' = "notify"
  /\ UNCHANGED <<num_stopped, asked, last_pending, c, stop_server_, poolVars, serverVars>>

\* cv_signal_.notify_one, without holding mt_signal_: a server that is asleep
\* wakes, if there is one.
NotifyOne ==
  LET asleep == {s \in Servers : spc[s] = "asleep"}
  IN  /\ lpc = "notify"
      /\ lpc' = "poll"
      /\ IF asleep = {} THEN UNCHANGED spc
                        ELSE \E s \in asleep : spc' = [spc EXCEPT ![s] = "test"]
      /\ UNCHANGED <<loopVars, stop_server_, poolVars, workVars,
                     has_stopped_, busy_, request_stop_, deaths>>

\* All events are handled (or epoll_wait timed out).
PollDone ==
  /\ lpc = "poll"
  /\ lpc' = "clean"
  /\ i' = 0
  /\ UNCHANGED <<num_stopped, asked, last_pending, c, stop_server_, poolVars, workVars,
                 serverVars>>

NextIteration == lpc' = IF stop_server_ THEN "drain" ELSE "add"

\* cleanStoppedServers, not yet due.
CleanNotDue ==
  /\ lpc = "clean"
  /\ NextIteration
  /\ UNCHANGED <<loopVars, stop_server_, poolVars, workVars, serverVars>>

\* cleanStoppedServers, due: walk through the list.
CleanStart ==
  /\ lpc = "clean"
  /\ lpc' = "sweep"
  /\ i' = 1 /\ num_stopped' = 0 /\ asked' = {}
  /\ UNCHANGED <<last_pending, c, stop_server_, poolVars, workVars, serverVars>>

AtServer(s) == lpc = "sweep" /\ i <= Len(servers_) /\ s = servers_[i]

\* delete of a TCPServer: the flags go with the object, a thread does not.
Deleted(s) ==
  /\ has_stopped_' = has_stopped_ \ {s}
  /\ busy_' = busy_ \ {s}
  /\ request_stop_' = request_stop_ \ {s}

\* Mutant: the thread is not waited for.
SweepDeleteNoWait(s) ==
  /\ AtServer(s) /\ s # init_server_
  /\ s \in has_stopped_
  /\ servers_' = RemoveAt(servers_, i)
  /\ objects' = objects \ {s}
  /\ Deleted(s)
  /\ UNCHANGED <<lpc, loopVars, stop_server_, init_server_, workVars, spc, deaths>>

\* A server that has set has_stopped_ is taken off the list and deleted.  wait
\* joins its thread: the listener is held up here until the thread has ended.
SweepDelete(s) ==
  /\ AtServer(s) /\ s # init_server_
  /\ s \in has_stopped_
  /\ spc[s] = "none"
  /\ servers_' = RemoveAt(servers_, i)
  /\ objects' = objects \ {s}
  /\ Deleted(s)
  /\ UNCHANGED <<lpc, loopVars, stop_server_, init_server_, workVars, spc, deaths>>

\* The conditions for asking a server to stop, but for its idle time.
MayStop(s) ==
  /\ s # init_server_
  /\ num_stopped = 0 /\ Len(servers_) > MinServers /\ s \notin busy_

\* Mutant: num_stopped is not touched.
SweepStopIdleUncounted(s) ==
  /\ AtServer(s)
  /\ s \notin has_stopped_
  /\ MayStop(s)
  /\ request_stop_' = request_stop_ \cup {s}
  /\ asked' = asked \cup {s}
  /\ i' = i + 1
  /\ UNCHANGED <<lpc, num_stopped, last_pending, c, stop_server_, poolVars,
                 workVars, spc, has_stopped_, busy_, deaths>>

\* A server idle for longer than server_idle_ttl_s is asked to stop, and all
\* sleeping servers are notified.  num_stopped-- wraps around.
SweepStopIdle(s) ==
  /\ AtServer(s)
  /\ s \notin has_stopped_
  /\ MayStop(s)
  /\ request_stop_' = request_stop_ \cup {s}
  /\ spc' = [t \in Servers |-> IF spc[t] = "asleep" THEN "test" ELSE spc[t]]
  /\ num_stopped' = (num_stopped - 1) % 2^SizeBits
  /\ asked' = asked \cup {s}
  /\ i' = i + 1
  /\ UNCHANGED <<lpc, last_pending, c, stop_server_, poolVars, workVars,
                 has_stopped_, busy_, deaths>>

\* Mutant: the iterator is advanced once too often at each server that is kept.
SweepKeepSkips(s) ==
  /\ AtServer(s)
  /\ s \notin has_stopped_
  /\ i' = i + 2
  /\ UNCHANGED <<lpc, num_stopped, asked, last_pending, c, stop_server_,
                 poolVars, workVars, serverVars>>

\* The server is kept: busy, recently active, or the initial one.
SweepKeep(s) ==
  /\ AtServer(s)
  /\ s \notin has_stopped_
  /\ i' = i + 1
  /\ UNCHANGED <<lpc, num_stopped, asked, last_pending, c, stop_server_,
                 poolVars, workVars, serverVars>>

\* Mutant: the new initial server is not started.
SweepReplaceInitIdle(s, new) ==
  /\ AtServer(s) /\ s = init_server_
  /\ s \in has_stopped_
  /\ spc[s] = "none"
  /\ Fresh(new)
  /\ servers_' = Append(RemoveAt(servers_, i), new)
  /\ objects' = (objects \ {s}) \cup {new}
  /\ init_server_' = new
  /\ Deleted(s)
  /\ i' = IF i = Len(servers_) THEN 1 ELSE i + 1
  /\ UNCHANGED <<lpc, num_stopped, asked, last_pending, c, stop_server_,
                 workVars, spc, deaths>>

\* A stopped initial server is waited for and replaced by one it creates itself.
\* The iterator, already past the erased server, is advanced once more: it skips
\* a server, or wraps around from end().
SweepReplaceInit(s, new) ==
  /\ AtServer(s) /\ s = init_server_
  /\ s \in has_stopped_
  /\ spc[s] = "none"
  /\ Fresh(new)
  /\ servers_' = Append(RemoveAt(servers_, i), new)
  /\ objects' = (objects \ {s}) \cup {new}
  /\ init_server_' = new
  /\ spc' = [spc EXCEPT ![new] = "test"]
  /\ Deleted(s)
  /\ i' = IF i = Len(servers_) THEN 1 ELSE i + 1
  /\ UNCHANGED <<lpc, num_stopped, asked, last_pending, c, stop_server_,
                 workVars, deaths>>

SweepDone ==
  /\ lpc = "sweep"
  /\ i > Len(servers_)
  /\ NextIteration
  /\ i' = 0 /\ num_stopped' = 0 /\ asked' = {}
  /\ UNCHANGED <<last_pending, c, stop_server_, poolVars, workVars, serverVars>>

\* The end of run: pending work is finished, then all servers are asked to stop;
\* nobody notifies them.
DrainDone ==
  /\ lpc = "drain"
  /\ work_q_sz_ = 0
  /\ request_stop_' = Range(servers_)
  /\ lpc' = "join"
  /\ i' = 1
  /\ UNCHANGED <<num_stopped, asked, last_pending, c, stop_server_, poolVars,
                 workVars, spc, has_stopped_, busy_, deaths>>

\* The servers are waited for and deleted in the order of the list, which keeps
\* the pointers for now.
JoinServer ==
  /\ lpc = "join"
  /\ i <= Len(servers_)
  /\ spc[servers_[i]] = "none"
  /\ objects' = objects \ {servers_[i]}
  /\ Deleted(servers_[i])
  /\ i' = i + 1
  /\ UNCHANGED <<lpc, num_stopped, asked, last_pending, c, stop_server_,
                 servers_, init_server_, workVars, spc, deaths>>

\* servers_.clear().
JoinDone ==
  /\ lpc = "join"
  /\ i > Len(servers_)
  /\ servers_' = <<>>
  /\ i' = 0
  /\ lpc' = "done"
  /\ UNCHANGED <<num_stopped, asked, last_pending, c, stop_server_,
                 init_server_, objects, workVars, serverVars>>

-----------------------------------------------------------------------------
Goto(s, pc) == spc' = [spc EXCEPT ![s] = pc]

\* The predicate of waitForActivity.
Activity(s) == work_q_sz_ > 0 \/ s \in request_stop_

\* waitForActivity tests its predicate before it sleeps, and when notified.
TestActivity(s) ==
  /\ spc[s] = "test"
  /\ Goto(s, IF Activity(s) THEN "awake" ELSE "presleep")
  /\ UNCHANGED <<lpc, loopVars, stop_server_, poolVars, workVars,
                 has_stopped_, busy_, request_stop_, deaths>>

\* The server goes to sleep on cv_signal_; a notification before this is lost.
Sleep(s) ==
  /\ spc[s] = "presleep"
  /\ Goto(s, "asleep")
  /\ UNCHANGED <<lpc, loopVars, stop_server_, poolVars, workVars,
                 has_stopped_, busy_, request_stop_, deaths>>

\* Mutant: the wait has no timeout.
WaitForever(s) == FALSE /\ spc[s] = "asleep" /\ UNCHANGED vars

\* wait_for times out after listener_sleep_ms and returns the predicate.
WaitTimeout(s) ==
  /\ spc[s] = "asleep"
  /\ Goto(s, IF Activity(s) THEN "awake" ELSE "check")
  /\ UNCHANGED <<lpc, loopVars, stop_server_, poolVars, workVars,
                 has_stopped_, busy_, request_stop_, deaths>>

SetBusy(s) ==
  /\ spc[s] = "awake"
  /\ Goto(s, "pop")
  /\ busy_' = busy_ \cup {s}
  /\ UNCHANGED <<lpc, loopVars, stop_server_, poolVars, workVars,
                 has_stopped_, request_stop_, deaths>>

\* popWork finds work, or not.
PopWork(s) ==
  /\ spc[s] = "pop"
  /\ IF queued > 0
       THEN queued' = queued - 1 /\ Goto(s, "service") /\ UNCHANGED busy_
       ELSE Goto(s, "check") /\ busy_' = busy_ \ {s} /\ UNCHANGED queued
  /\ UNCHANGED <<lpc, loopVars, stop_server_, poolVars, work_q_sz_,
                 has_stopped_, request_stop_, deaths>>

\* The callbacks and releaseWork.
Service(s) ==
  /\ spc[s] = "service"
  /\ work_q_sz_' = work_q_sz_ - 1
  /\ Goto(s, "pop")
  /\ UNCHANGED <<lpc, loopVars, stop_server_, poolVars, queued,
                 has_stopped_, busy_, request_stop_, deaths>>

\* The last statement of TCPServer::run.
HasStopped(s) ==
  /\ Goto(s, "stopped")
  /\ has_stopped_' = has_stopped_ \cup {s}

\* releaseWork throws: TCPServer::run ends, busy_ stays set.
ServerDies(s) ==
  /\ spc[s] = "service"
  /\ deaths < MaxDeaths
  /\ deaths' = deaths + 1
  /\ work_q_sz_' = work_q_sz_ - 1
  /\ HasStopped(s)
  /\ UNCHANGED <<lpc, loopVars, stop_server_, poolVars, queued, busy_, request_stop_>>

\* The loop condition of TCPServer::run.
LoopCheck(s) ==
  /\ spc[s] = "check"
  /\ IF s \in request_stop_ THEN HasStopped(s)
                            ELSE Goto(s, "test") /\ UNCHANGED has_stopped_
  /\ UNCHANGED <<lpc, loopVars, stop_server_, poolVars, workVars, busy_,
                 request_stop_, deaths>>

\* run and Thread::thread_method return: only now is the thread over.
ThreadEnds(s) ==
  /\ spc[s] = "stopped"
  /\ Goto(s, "none")
  /\ UNCHANGED <<lpc, loopVars, stop_server_, poolVars, workVars,
                 has_stopped_, busy_, request_stop_, deaths>>

-----------------------------------------------------------------------------
\* TCPListener::run has returned.
Terminated == lpc = "done" /\ UNCHANGED vars

ListenerStep ==
  \/ \E s \in Servers : AddServer(s)
  \/ AddServersDone
  \/ ThrottleStart \/ ThrottleSleep \/ ThrottleEnd
  \/ PushWork \/ NotifyOne \/ PollDone
  \/ CleanNotDue \/ CleanStart
  \/ \E s \in Servers : SweepDelete(s) \/ SweepStopIdle(s) \/ SweepKeep(s)
  \/ \E s, new \in Servers : SweepReplaceInit(s, new)
  \/ SweepDone
  \/ DrainDone \/ JoinServer \/ JoinDone

ServerStep(s) ==
  \/ TestActivity(s) \/ Sleep(s) \/ WaitTimeout(s) \/ SetBusy(s)
  \/ PopWork(s) \/ Service(s) \/ ServerDies(s) \/ LoopCheck(s) \/ ThreadEnds(s)

Next == Stop \/ ListenerStep \/ (\E s \in Servers : ServerStep(s)) \/ Terminated

Spec == Init /\ [][Next]_vars

\* The listener runs, whatever its servers do (a callback may block), the clock
\* reaches the next check interval of cleanStoppedServers, and a thread that has
\* nothing left to do but return does so.
FairSpec ==
  /\ Spec
  /\ WF_vars(ListenerStep)
  /\ SF_vars(CleanStart)
  /\ \A s \in Servers : WF_vars(ThreadEnds(s))

\* The servers run too: callbacks return, waits time out, and no server dies.
ServersRun == [](deaths = 0) /\ \A s \in Servers : WF_vars(ServerStep(s))

-----------------------------------------------------------------------------
(***************************************************************************)
(* Properties.                                                             *)
(***************************************************************************)
Stopping == lpc \in {"drain", "join", "done"}

\* The type invariant of the pool.
TypeOK ==
  /\ lpc \in {"add", "throttle", "sleep", "poll", "notify", "clean", "sweep",
              "drain", "join", "done"}
  /\ i \in Nat /\ c \in Nat /\ last_pending \in Nat
  /\ num_stopped \in 0 .. 2^SizeBits - 1 /\ stop_server_ \in BOOLEAN
  /\ servers_ \in Seq(Servers) /\ init_server_ \in Servers
  /\ queued \in Nat /\ work_q_sz_ \in Nat
  /\ spc \in [Servers -> {"none", "test", "presleep", "asleep", "awake", "pop",
                          "service", "check", "stopped"}]
  /\ {asked, objects, has_stopped_, busy_, request_stop_} \subseteq SUBSET Servers
  /\ deaths \in Nat

\* No TCPServer is deleted under its running thread, which goes on to use it
\* after has_stopped_ is set; none is left behind by the final join; and a
\* pointer on the list, the initial server's included, is not used after its
\* object is gone, although cleanStoppedServers erases entries while it walks.
ThreadsListed ==
  /\ IsInjective(servers_)
  /\ \A s \in Servers : spc[s] # "none" => s \in objects
  /\ objects \subseteq Range(servers_)
  /\ lpc \notin {"join", "done"} => Range(servers_) \cup {init_server_} \subseteq objects

\* One pass of cleanStoppedServers asks at most one server to stop, although
\* num_stopped counts down from zero and the iterator may start over from the
\* beginning of the list in the middle of a pass.
OneStopPerPass == Cardinality(asked) <= 1

\* addServers and cleanStoppedServers keep the pool within maxservers.
PoolLimit == Len(servers_) <= Start \/ Len(servers_) <= MaxServers

\* Queued work is taken up by a server although notifications can get lost.
WorkIsTaken == ServersRun => (queued > 0 ~> \E s \in Servers : spc[s] = "service")

\* After stop() all servers are joined and run returns, although nobody notifies
\* the sleeping servers.
StopJoinsServers == ServersRun => (stop_server_ ~> lpc = "done")

\* throttle delays the listener only for a while, even when no server makes
\* progress: run keeps returning to epoll_wait until it stops.
KeepsPolling == []<>(lpc = "poll" \/ Stopping)

\* Servers that go on taking work.
Serving == {s \in Range(servers_) \ request_stop_ : spc[s] \notin {"none", "stopped"}}

\* The pool never stays without a server: when the initial server, which is never
\* asked to stop, has died, cleanStoppedServers puts a running one in its place,
\* whatever the other servers do.
PoolRecovers == []<>(Stopping \/ Serving # {})

\* A server that has stopped is waited for and deleted, although the iterator of
\* cleanStoppedServers skips a server, or starts over, when it replaces the
\* initial one.
StoppedAreDeleted ==
  \A s \in Servers : s \in has_stopped_ ~> (s \notin has_stopped_ \/ Stopping)

(***************************************************************************)
(* What the documentation says and the code does not do.                   *)
(***************************************************************************)

\* init_server_ is "The initial TCPServer, which will live as long as the
\* TCPListener runs": no exception of releaseWork ends its thread before run stops.
InitServerLives == ~Stopping => init_server_ \notin has_stopped_

\* server_idle_ttl_s is "The maximum TCPServer idle time in seconds before
\* stopping the server, honoring minservers".
MinServersHonoured ==
  ~Stopping => Cardinality(Serving) >= MinServers
=============================================================================
