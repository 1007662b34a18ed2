--------------------------- MODULE TCPConnection ---------------------------
(***************************************************************************)
(* What TCPListener and its TCPServers promise for a connection, with the  *)
(* queue, the poll set and the threads' steps left out: an open connection *)
(* waits for its peer, is due for service, or is served by one server; it  *)
(* is closed by the server that serves it, or at the end of the listener   *)
(* when no connection is due or served.                                    *)
(***************************************************************************)
CONSTANTS Fds, Servers

VARIABLES
  phase,    \* "closed", "due", "served" or "waiting"
  by,       \* the servers that serve a connection
  greeted   \* connections whose handShake returned true

connection == <<phase, by, greeted>>

Init ==
  /\ phase = [f \in Fds |-> "closed"]
  /\ by = [f \in Fds |-> {}]
  /\ greeted = {}

\* A connection is accepted; its handshake is due.
Open(f) ==
  /\ phase[f] = "closed"
  /\ phase' = [phase EXCEPT ![f] = "due"]
  /\ UNCHANGED <<by, greeted>>

\* The peer sent data or hung up.
Event(f) ==
  /\ phase[f] = "waiting"
  /\ phase' = [phase EXCEPT ![f] = "due"]
  /\ UNCHANGED <<by, greeted>>

\* A server that serves no other connection takes it.
Take(f, s) ==
  /\ phase[f] = "due"
  /\ \A g \in Fds : s \notin by[g]
  /\ phase' = [phase EXCEPT ![f] = "served"]
  /\ by' = [by EXCEPT ![f] = {s}]
  /\ UNCHANGED greeted

\* handShake returns true, at most once for a connection.
Greet(f) ==
  /\ phase[f] = "served"
  /\ f \notin greeted
  /\ greeted' = greeted \cup {f}
  /\ UNCHANGED <<phase, by>>

\* The server is done; the connection waits for its peer.
GiveBack(f) ==
  /\ phase[f] = "served"
  /\ phase' = [phase EXCEPT ![f] = "waiting"]
  /\ by' = [by EXCEPT ![f] = {}]
  /\ UNCHANGED greeted

\* The server closes the connection.
Close(f) ==
  /\ phase[f] = "served"
  /\ phase' = [phase EXCEPT ![f] = "closed"]
  /\ by' = [by EXCEPT ![f] = {}]
  /\ greeted' = greeted \ {f}

\* The listener ends: it closes the connections that are left, or some of them
\* when closing fails.
CloseAll ==
  /\ \A f \in Fds : phase[f] \in {"closed", "waiting"}
  /\ \E S \in SUBSET Fds :
       /\ phase' = [f \in Fds |-> IF f \in S THEN "closed" ELSE phase[f]]
       /\ greeted' = greeted \ S
  /\ UNCHANGED by

\* Most steps of the listener and its servers change no connection.
Idle == UNCHANGED connection

Next ==
  \/ Idle
  \/ \E f \in Fds :
       \/ Open(f) \/ Event(f) \/ Greet(f) \/ GiveBack(f) \/ Close(f)
       \/ \E s \in Servers : Take(f, s)
  \/ CloseAll

Spec == Init /\ [][Next]_connection

\* A due connection is taken when a server is free, and served to an end.
Fairness ==
  \A f \in Fds : /\ WF_connection(\E s \in Servers : Take(f, s))
                 /\ WF_connection(GiveBack(f) \/ Close(f))

FairSpec == Spec /\ Fairness
=============================================================================
