----------------------- MODULE KineticAutoConnection ------------------------
(***************************************************************************)
(* The connections to the drives of a cluster, shared by all its clients   *)
(* and by the thread that listens on their sockets.                        *)
(*                                                                         *)
(* A KineticAutoConnection hands out its current connection as long as it  *)
(* is healthy.  A client for which a request fails outright reports the    *)
(* connection it used; the next caller after the rate limit starts a       *)
(* background thread that connects again.  The first connect runs in the   *)
(* first caller's thread.                                                  *)
(*                                                                         *)
(* Connections to a drive are numbered in the order they are opened; 0 is  *)
(* no connection, as in fd.                                                *)
(***************************************************************************)
EXTENDS Integers, FiniteSets

CONSTANTS
  NumDrives,       \* connections.size()
  MaxConnections,  \* bound on the connections opened to a drive
  MaxBreaks,       \* bound on the connections that break
  MaxElapses       \* bound on how often the rate limit of a drive elapses

ASSUME ConnectionAssumption ==
  /\ NumDrives \in Nat /\ MaxConnections \in Nat
  /\ MaxBreaks \in Nat /\ MaxElapses \in Nat

Drives == 1..NumDrives

VARIABLES
  connection,  \* the current connection to each drive
  healthy,     \* whether it is believed to work
  fd,          \* the connection whose descriptor is stored
  subscribed,  \* the connections whose descriptors the SocketListener watches
  initial,     \* state of the once_flag initial_connect
  recent,      \* less than ratelimit has passed since timestamp
  spawned,     \* background threads that have not counted themselves yet
  numthreads,  \* bg.numthreads: background threads in connect
  opened,      \* number of connections opened to each drive
  broken,      \* the connections on which Run returns false
  elapses      \* how often the rate limit of a drive has elapsed

believed == <<connection, healthy, fd, subscribed>>
conVars == <<believed, initial, recent, spawned, numthreads, opened, broken, elapses>>

ConTypeOK ==
  /\ connection \in [Drives -> 0..MaxConnections]
  /\ healthy \in [Drives -> BOOLEAN]
  /\ fd \in [Drives -> 0..MaxConnections]
  /\ subscribed \in [Drives -> SUBSET (1..MaxConnections)]
  /\ initial \in [Drives -> {"no", "running", "done"}]
  /\ recent \in [Drives -> BOOLEAN]
  /\ spawned \in [Drives -> 0..MaxElapses]
  /\ numthreads \in [Drives -> 0..MaxElapses]
  /\ opened \in [Drives -> 0..MaxConnections]
  /\ broken \in [Drives -> SUBSET (1..MaxConnections)]
  /\ elapses \in [Drives -> 0..MaxElapses]

ConInit ==
  /\ connection = [d \in Drives |-> 0]
  /\ healthy = [d \in Drives |-> FALSE]
  /\ fd = [d \in Drives |-> 0]
  /\ subscribed = [d \in Drives |-> {}]
  /\ initial = [d \in Drives |-> "no"]
  /\ recent = [d \in Drives |-> TRUE]
  /\ spawned = [d \in Drives |-> 0]
  /\ numthreads = [d \in Drives |-> 0]
  /\ opened = [d \in Drives |-> 0]
  /\ broken = [d \in Drives |-> {}]
  /\ elapses = [d \in Drives |-> 0]

-----------------------------------------------------------------------------
\* Mutant: whichever connection the client used, the current one is given up.
setErrorAny(d, errorConnection) ==
  IF healthy[d]
    THEN /\ subscribed' = [subscribed EXCEPT ![d] = @ \ {fd[d]}]
         /\ fd' = [fd EXCEPT ![d] = 0]
         /\ healthy' = [healthy EXCEPT ![d] = FALSE]
         /\ UNCHANGED connection
    ELSE UNCHANGED believed

\* setError, called by a client for the connection it used.
setError(d, errorConnection) ==
  IF healthy[d] /\ connection[d] = errorConnection
    THEN /\ subscribed' = [subscribed EXCEPT ![d] = @ \ {fd[d]}]
         /\ fd' = [fd EXCEPT ![d] = 0]
         /\ healthy' = [healthy EXCEPT ![d] = FALSE]
         /\ UNCHANGED connection
    ELSE UNCHANGED believed

\* bg.try_run(connect): a background thread is started unless one is running.
Reconnect(d) ==
  IF ~ recent[d] /\ numthreads[d] = 0
    THEN /\ spawned' = [spawned EXCEPT ![d] = @ + 1]
         /\ recent' = [recent EXCEPT ![d] = TRUE]
    ELSE UNCHANGED <<spawned, recent>>

\* The background thread counts itself and begins to connect.
StartConnect(d) ==
  /\ spawned[d] > 0
  /\ spawned' = [spawned EXCEPT ![d] = @ - 1]
  /\ numthreads' = [numthreads EXCEPT ![d] = @ + 1]
  /\ UNCHANGED <<believed, initial, recent, opened, broken, elapses>>

\* Mutant: the descriptor is not stored.
AdoptUnstored(d, n) ==
  /\ subscribed' = [subscribed EXCEPT ![d] = @ \cup {n}]
  /\ connection' = [connection EXCEPT ![d] = n]
  /\ healthy' = [healthy EXCEPT ![d] = TRUE]
  /\ recent' = [recent EXCEPT ![d] = TRUE]
  /\ UNCHANGED fd

\* The end of connect: connection n has answered and becomes the current one.
Adopt(d, n) ==
  /\ subscribed' = [subscribed EXCEPT ![d] = @ \cup {n}]
  /\ fd' = [fd EXCEPT ![d] = n]
  /\ connection' = [connection EXCEPT ![d] = n]
  /\ healthy' = [healthy EXCEPT ![d] = TRUE]
  /\ recent' = [recent EXCEPT ![d] = TRUE]

\* connect, from the attempt to its end: it may fail on both interfaces.
connect(d) ==
  /\ \/ /\ opened[d] < MaxConnections
        /\ opened' = [opened EXCEPT ![d] = @ + 1]
        /\ Adopt(d, opened[d] + 1)
     \/ UNCHANGED <<believed, recent, opened>>
  /\ UNCHANGED <<broken, elapses>>

\* connect in the thread of the first caller of get.
InitialConnect(d) ==
  /\ initial[d] = "running"
  /\ initial' = [initial EXCEPT ![d] = "done"]
  /\ connect(d)
  /\ UNCHANGED <<spawned, numthreads>>

\* connect in a background thread.
BackgroundConnect(d) ==
  /\ numthreads[d] > 0
  /\ numthreads' = [numthreads EXCEPT ![d] = @ - 1]
  /\ connect(d)
  /\ UNCHANGED <<initial, spawned>>

\* The listener has taken an event of a connection that has been set into error
\* since, and calls get, which throws.
ListenerGet(d) ==
  /\ initial[d] = "done" /\ ~ healthy[d] /\ connection[d] # 0
  /\ Reconnect(d)
  /\ UNCHANGED <<believed, initial, numthreads, opened, broken, elapses>>

\* The clock passes the rate limit, which matters once the connection is needed
\* again.
Elapse(d) ==
  /\ recent[d] /\ initial[d] = "done" /\ ~ healthy[d]
  /\ elapses[d] < MaxElapses
  /\ recent' = [recent EXCEPT ![d] = FALSE]
  /\ elapses' = [elapses EXCEPT ![d] = @ + 1]
  /\ UNCHANGED <<believed, initial, spawned, numthreads, opened, broken>>

\* A connection breaks.
Break(d) ==
  /\ Cardinality({b \in Drives \X (1..MaxConnections) : b[2] \in broken[b[1]]}) < MaxBreaks
  /\ \E n \in 1..opened[d] \ broken[d] : broken' = [broken EXCEPT ![d] = @ \cup {n}]
  /\ UNCHANGED <<believed, initial, recent, spawned, numthreads, opened, elapses>>

ConNext ==
  \E d \in Drives : \/ StartConnect(d) \/ InitialConnect(d) \/ BackgroundConnect(d)
                    \/ ListenerGet(d) \/ Elapse(d) \/ Break(d)

-----------------------------------------------------------------------------
\* The connection that is handed out is the one whose descriptor is stored and
\* watched: the answers to requests on it reach the listener.
Watched ==
  \A d \in Drives :
    healthy[d] => connection[d] # 0 /\ fd[d] = connection[d] /\ fd[d] \in subscribed[d]

\* A healthy connection is set into error only if it is broken itself: an error
\* a client met on an earlier connection to the drive never ends the one that
\* has replaced it.
OnlyBrokenSetIntoError ==
  [][\A d \in Drives :
       healthy[d] /\ ~ healthy'[d] => connection[d] \in broken[d]]_conVars
=============================================================================
