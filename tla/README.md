# A TLA+ verification of the dodo library

dodo is a C++ library for network services: a thread-pooled TCP listener, sockets
and protocols on top of it, a cache, a key-value store on SQLite, logging and
configuration. This directory models its concurrent core, the TCP listener and
its server threads, model-checks it with TLC and proves its central invariants
with TLAPS. The rest of the library is inventoried below, with a plan.

Paths are relative to the repository (`src/lib/network/tcplistener.cpp` is
called `tcplistener.cpp` below). `PROJECT.json` maps every definition to the
lines it models.

## 1. Inventory

| Part | State | Operations that change it | What makes it hard |
|---|---|---|---|
| `TCPListener` (event loop) | `clients_`, `workload_`, `work_q_sz_`, the epoll set, `stop_server_` | `run`, `pushWork`, `popWork`, `releaseWork`, `closeSocket`, `pollAdd`, `pollDel`, `stop` | one listener and many servers share sockets without holding a lock during callbacks; sockets are deleted by servers; exceptions end threads |
| `TCPServer` (workers) | `request_stop_`, `has_stopped_`, `busy_`, the socket in hand | `run`, callbacks `handShake`, `readSocket`, `shutDown` | callbacks that fail or throw, retries through the poll set |
| Pool management | `servers_`, `init_server_`, condition variable | `addServers`, `throttle`, `waitForActivity`, `cleanStoppedServers`, the final join | notifications without the mutex, a list edited while it is walked, servers that die |
| `TCPListenerTimer` | `now_` | `run` | cached time |
| `TCPConnectionData` | `read_buffer` | `readBuffer`, `clearBuffer` | reads of exactly 4096 bytes, error codes lost in a conversion |
| `Thread`, `Mutex` | `thread_` | `start`, `wait` | double start, destruction of a running thread |
| `Cache` | `cache_`, `lrumap_`, counters, limits | `get`, `erase`, `clear`, `setMaxSize`, `setMaxLifeTime` | two maps that must agree, equal time stamps, expiry with a failing reload |
| `Logger`, `Application`, `Config` | singletons, log file and its trail, stop request | `log`, `checkRotate`, `initialize`, `onSignal` | a signal handler that takes the logger's mutex, rotation at the size limit |
| `KVStore`, SQLite wrapper | table, transaction, prepared statements | insert, update, delete, ensure, begin/commit/rollback | statements left un-reset by an exception, check-then-insert |
| Read buffers, HTTP messages | `idx_`, `received_`; headers, body | `underflow`, `next`; `parse*` | end of file inside a loop, chunk sizes, header folding |
| URI, STOMP, Bytes, wire integers | parser state; buffer and size | `parse`, `readCommand`, `append`, `receiveUInt*` | fall-through, boundaries, short reads |
| TLS, certificates, addresses, DataCrypt, utilities | held by OpenSSL or libc | | wrappers; nothing to interleave |

The hazards of each part, with their lines, are in `PROJECT.json`.

## 2. How the listener works

`TCPListener::run` is one thread. It accepts connections, enters them in
`clients_` and queues them in `workload_` for their handshake. `TCPServer`
threads pop a connection, call `handShake`, `readSocket` or `shutDown` as the
bits New, Read and Shut of its state ask, and release it: they close it, or add it
to epoll with a one-shot interest. When epoll reports it, the listener removes it
from epoll, adds the event's bits to its state and queues it again. `clientmutex_`
guards `clients_` and `workload_`, but no lock is held during callbacks: that two
servers never work on one socket rests on the hand-over discipline alone.
`work_q_sz_` counts pending work and drives the pool: servers sleep until it is
positive, the listener adds servers and throttles itself when it is large, and at
the end waits until it is zero before it stops the servers and closes what is left.

## 3. Modules

| Module | Models |
|---|---|
| `TCPListener` | the event loop and the servers, one action per critical section or callback |
| `TCPConnection` | what they promise for a connection, abstractly |
| `ServerPool` | the pool: list of servers, condition variable, throttling, cleaning, stop |
| `MCTCPListener`, `MCServerPool` | symmetry sets for TLC |
| `TCPListenerProofs` | inductive invariant and theorems about `TCPListener` |

**TCPListener.** Variables keep the names of the members. A connection is its
descriptor; descriptors are reused after a close as the kernel does. `state[f]` is
the set of SockState bits. `lpc` and `spc[s]` are the positions of
`TCPListener::run` and `TCPServer::run`. The kernel is the environment: a backlog
counter, the sets of connections with unread data (`avail`) and with a hangup
(`hup`), and each socket's epoll interest: out, armed, or fired (one-shot, used up).
`epoll_wait` may report any ready subset up to `pollbatch`, and must report all
when they fit. Each callback ends ok, failed or threw. `called` is history: which
callbacks a connection has seen.

What is kept of awkward behaviour:

- `run` compares `clients_.size()` with the limit without a lock and makes the entry
  later: accepting (`Accept`), testing (`LimitReached`, `BelowLimit`) and inserting
  (`InsertClient`) are steps between which servers close connections.
- The socket options are set after the socket was queued, so a server may already have
  closed it (`Configure`: a throwing `setBlocking` ends the loop, or the call goes
  unnoticed). A handshake may therefore run on a blocking socket.
- The accept loop's condition may read a deleted socket (`LimitReached`, `AcceptAgain`:
  both outcomes).
- `accept` throws on every error but EAGAIN, lack of descriptors among them
  (`AcceptFails`), and so does `epoll_wait` on every error but EINTR (`EpollWaitFails`):
  both end the loop.
- `EPOLL_CTL_ADD` may fail, which ends the server's thread (`RearmFails`); the connection
  keeps its entry and is remembered in the history variable `lost`.
- `close` may fail after the entry was erased: it ends the server's thread
  (`CloseSocketFails`), the loop (`LimitReached`) or the final loop over the remaining
  clients (`CloseClients`).
- `^=` is exclusive or.

Left out: statistics, log output, and the unlocked map reads of log statements that only
debug builds compile. Time is free choice: whether a server has been idle long enough, or
the cleaning interval has passed. `CleanStoppedServers` and `JoinServers` are one step
each in this module, with a server's `has_stopped_` flag and the end of its thread taken
together; `ServerPool` has the detail.

**TCPConnection** says that a connection is closed, due, served or waiting, is
taken only when due and by a server that serves no other one, is greeted at most
once, and is closed by the server that serves it, or at the end, all or (when a close throws)
some of them, when none is due or served. `TCPListener` implements it under the mapping `phaseOf`, `serversOf`,
`greetedFds`.

**ServerPool** keeps `servers_` as a list and walks it step by step, as
`cleanStoppedServers` does, including the iterator that is advanced twice (in
libstdc++, from `end()` to the first element) when the initial server is replaced, and
`num_stopped`, a `size_t` that is counted down from zero (modulo 2^`SizeBits`). Three
things are kept apart for a server: its object (`objects`), the flag `has_stopped_`, which
`TCPServer::run` sets as its last statement, and the thread, which ends only after that
(`ThreadEnds`). `wait` is the join: deleting a server is held up until its thread has
ended. The condition variable is modelled with the window between testing the predicate
and going to sleep, in which a notification is lost because the notifier does not hold
`mt_signal_`. Work is a number; up to `MaxDeaths` servers die in `releaseWork`. What can
end the listener's loop early is in `TCPListener`.

## 4. Runs

Bounds are named constants: `MaxBacklog`, `MaxThrows` (callbacks), `MaxErrors` (system
calls) in `TCPListener`; `MaxWork`, `MaxDeaths`, `SizeBits` in `ServerPool`.

| Run | Instance | Shows |
|---|---|---|
| `listener_safety` | 2 descriptors, pool 1..2, limit 2 | `SingleOwner`, `NotForgotten`, `BatchIsLive`, `PendingWork`, `DrainedBeforeStop`, `ReadNonBlocking`, `HandShakeFirst`, `CompletionIsAsked` |
| `listener_faults` | 3 descriptors, 2 servers, limit 2, one failing system call | ownership, counting, drain, `ConnectionLimit` and `NotForgotten` when accept, epoll_wait, EPOLL_CTL_ADD or close fails, with rejection and descriptor reuse, and the refinement `ImplementsConnection` |
| `listener_liveness` | 2 descriptors, 1 server, limit 1, two throws | `HandShakeFirst` with retries, `BacklogClears` while connections are turned away, `DataIsRead`, `HangupCloses`, `StopFinishes`, `ImplementsFairConnection` |
| `pool_safety` | pool 1..3, two deaths | `ThreadsListed`, `OneStopPerPass`, `PoolLimit` |
| `pool_liveness` | pool 1..2, one death | `WorkIsTaken`, `StopJoinsServers`, `KeepsPolling`, `PoolRecovers`, `StoppedAreDeleted` |

Two connections and two servers are the least that let two servers compete for one
connection and one server for two, with an event pending for each; one backlog slot
already makes the accept loop turn several times. A pool of three is the least in
which a stopped server lies before, between and after others on the list; it has one
identity more than `maxservers`, since a replacement exists before its predecessor is
deleted. Two bits for `size_t` suffice, since only zero and not zero are told apart.
`pool_safety` and `pool_liveness` allow deadlock: see `stop_after_poll_error`.
`listener_faults` keeps two servers for the same reason: with `minservers` 1 the
failing call can end the only server during the drain, and the listener then
waits for ever. Throwing callbacks are explored in `listener_liveness`, which has a second
descriptor, for connections beyond the limit, rather than a second server: how several
sleeping servers are woken is the subject of `pool_liveness`.

Fairness. Every thread that can run eventually runs (the operating system schedules
them, callbacks return), so the listener and each server have weak fairness.
`CleanStoppedServers` (in `ServerPool`, `CleanStart`) has strong fairness: it is due
every few seconds, so a listener that keeps passing it finds it due again. The
environment has none. The accept loop ends only when the backlog is empty, so the
liveness properties of `TCPListener` assume that peers stop connecting at some point
(`ConnectsPause`: from then on no connection is added; that the backlog empties is
checked by `BacklogClears`, not assumed). Without that premise `stop()` may be starved.
In `ServerPool` a thread that has set `has_stopped_` returns (`ThreadEnds` is fair), and
nothing else is assumed of servers by `KeepsPolling`, `PoolRecovers` and
`StoppedAreDeleted`: they hold even when the other servers hang in a callback.
`WorkIsTaken` and `StopJoinsServers` assume `ServersRun`: callbacks return and no server
dies. Which of several ready sockets epoll reports first is free choice, without fairness,
so `pollbatch` is at least the number of connections plus one in the listener's liveness runs.

Seven runs end in a violation: each checks a statement of the documentation that the
code does not keep.

| Run | Statement | What happens |
|---|---|---|
| `runs_until_stopped` | the loop runs "while ( ! stopped )" (DEVELOPER.md:639) | a handshake fails at once, its server closes the socket, the listener's `setBlocking` throws, and the listener ends |
| `stop_after_poll_error` | "gracefully stop and finish" (tcplistener.hpp:442) | the only server dies in `pollAdd` after `stop()`; the drain waits for ever |
| `hangup_after_poll_error` | the listener produces work for "closing down connections on hangups or errors" (tcplistener.hpp:100) | a connection whose `pollAdd` failed is no longer polled; its hangup is never seen, though a second server is there |
| `shutdown_before_close` | "On connection errors and hangups call to shutDown will follow" (tcplistener.hpp:123) | a failed handshake or read closes without `shutDown` |
| `read_after_handshake` | a failed handshake is cleaned up (DEVELOPER.md:583) | a handshake that threw is retried together with a read, and the read happens even if the retry fails |
| `min_servers_honoured` | "honoring minservers" (tcplistener.hpp:192) | a server asked to stop in an earlier pass still counts when the next one is asked |
| `init_server_lives` | the initial server "will live as long as the TCPListener runs" (tcplistener.hpp:425) | it dies when `releaseWork` throws, and is replaced (`PoolRecovers`) |

Two more differences showed up while modelling and have no run: `work_q_sz_` is
documented as the number of queued items (tcplistener.hpp:480) and also counts those
in service (`PendingWork` states what it counts); `throttle` does not wait for the maximum
number of servers (DEVELOPER.md:566). `RunsUntilStopped` fails in a second way, by `accept`
throwing for lack of a descriptor: TLC reports that trace when the instance has a single descriptor.

Definitions marked "Mutant" are faulty variants of the one that follows (or of the one
they are named after). With the variant in its place, the property it is listed with in
`PROJECT.json` fails: the properties do depend on the code they are about.

## 5. Proofs

`TCPListenerProofs` proves, for any finite sets of descriptors and servers and any
bounds (`ParamsAssumption`), with faults included:

- `TypeCorrect`: types, in particular that the unsigned `work_q_sz_` never wraps;
- `ConnectionHasSingleOwner`: a connection is polled, queued once, held by one
  server, or being accepted, and only while it is in `clients_`;
- `PendingWorkCounted`: `work_q_sz_` is the queue's length plus the servers in service;
- `StopsDrained`: servers stop when no work is left, sockets are closed when no server
  holds one;
- `EventsAreLive`: a pending event is about an open, registered connection, so
  `pushWork` never invents a client and `pollDel` never throws;
- `OpenConnectionsAreKnown`: while the listener runs, an open connection is polled, in the
  batch, queued or held, or its `pollAdd` failed, and then it still has its entry;
- `ConnectionsLimited`: `clients_` never exceeds `maxconnections`.

None of these is inductive alone. `IInv` is the conjunction of the first five with `ServersHold` (a
server holds a connection exactly between `popWork` and the end of `releaseWork`) and
`ListenerHolds` (the accept loop has a socket where it uses one). The argument for
single ownership: a connection enters the queue only from `Accepting` (then it is new
to `clients_`) or with an event in the batch (then, by `BatchIsLive`, it is registered
in epoll, so neither queued nor held), leaves the queue into the hands of the one
server that pops it, and enters epoll only from that server's hands. `BatchIsLive`
in turn holds because only the holder of a connection can close it, and a
registered one has no holder. `StopsDrained` uses `PendingWork`: `work_q_sz_ = 0` means an
empty queue and nobody in service.

The last two are inductive on top of `IInv`. `NotForgotten` is preserved because each
hand-over takes a connection out of one place and into the next in one step; what has to be
shown for `lost` is that nobody closes such a connection without taking it off (`LostStep`:
only a holder closes, and `Closed` does both). `ConnectionLimit` needs `Room`: between the
test and the insertion there is still room, since only the listener adds entries: by
`BatchIsLive` and `SingleOwner` the `operator[]` of `pushWork` finds one.

Only model-checked: the callback order (`HandShakeFirst`, `CompletionIsAsked`),
`ReadNonBlocking`, the refinement, all of `ServerPool`, and all
liveness (out of the prover's reach).

## 6. Plan

Done: the core (`TCPListener`, `TCPConnection`, `ServerPool`) and its first theorems. Next,
in this order:

1. `Cache`: `get`, `erase`, `clear`, `setMaxSize` over two maps; that they agree, that the
   least recently used entry goes, the size limit; with proofs, as it is small.
2. `Service`: `Application`, `Config` and `Logger` together: singletons, log levels and
   destinations, rotation and its trail, the signal handler against the logger's mutex.
3. `KVStore` with the SQLite statement life cycle: prepared, bound, stepped, reset; two
   stores on one file; exceptions between step and reset.
4. `ReadBuffer` and `HTTPMessage`: short reads, end of file, headers, chunked bodies, over
   a small alphabet; `readBuffer` of `TCPConnectionData` and the wire integers likewise.
5. Pure parsers against reference definitions: `URI`, STOMP commands, `Bytes`.
6. Proofs: `HandShakeFirst` (needs an invariant on the New bit along the hand-over),
   the refinement of `TCPConnection`, `ThreadsListed` of the pool, `Cache`.

## 7. Not modelled

TLS sockets, contexts and certificates, DataCrypt, addresses and socket parameters (calls
into OpenSSL and libc without state of their own); exceptions, formatting, file and time
utilities and the unit test harness; the persistent queue, a declaration without code;
statistics and resource usage figures; message formatting.
