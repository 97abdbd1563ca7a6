----------------------------- MODULE TcpServer -----------------------------
(***************************************************************************)
(* The life of a TcpServer's connections, from accept to delete, over the  *)
(* server's own event loop and the loops of its EventLoopThreadPool.       *)
(*                                                                         *)
(* Loop 0 is the server's, 1..NumLoops are the pool's; a pool of no loops  *)
(* leaves every connection to loop 0.  A loop is what module EventLoop     *)
(* shows it to be: loop() is entered and forgets a quit that came before,  *)
(* a poll returns for a wakeup or hands out channels, these channels are   *)
(* dispatched, a batch of the functors queued until then is run.  A pool   *)
(* thread makes its loop known before it enters loop(), as module          *)
(* EventLoopThread has it in detail.  Adding a connection's channel to its *)
(* loop and setting the channel's callbacks go through the same queue      *)
(* directly in front of connectEstablished and are part of it.             *)
(*                                                                         *)
(* The destructor runs on the thread of the server's loop: after loop()    *)
(* has returned, or in a callback, where the loop waits for it.  It hands  *)
(* each connection's deletion to the connection's loop and is meant to wait*)
(* for it, but the copies of its Event that std::bind makes close the      *)
(* event's handle before the wait, which fails at once.                    *)
(*                                                                         *)
(* Users delete a connection at most once, when their ConnectDestroyed     *)
(* callback is called.  close, which is declared not thread safe, they     *)
(* call on the connection's loop, until that callback and not any more when*)
(* the server is being destroyed.                                          *)
(***************************************************************************)
EXTENDS Naturals, Sequences, SequencesExt, FiniteSets

CONSTANTS
    NumLoops,       \* loops of the thread pool
    MaxConns,       \* bound: connections accepted
    SocketEvents,   \* what a connection's socket can signal
    PeerCloses,     \* connections that the peer may end
    UserCloses,     \* connections that the user may close
    DestroyIn       \* where the server is destroyed: "never", "afterLoop", "callback"

ASSUME ServerConstants ==
    /\ NumLoops \in Nat /\ MaxConns \in Nat
    /\ SocketEvents \subseteq {"read", "close", "error"}
    /\ PeerCloses \subseteq 1..MaxConns /\ UserCloses \subseteq 1..MaxConns
    /\ DestroyIn \in {"never", "afterLoop", "callback"}

VARIABLES
    started,        \* TcpServer::_started
    listening,      \* TcpAcceptor::_isListenning
    nextLoop,       \* EventLoopThreadPool::_next, counted from 1
    connections,    \* TcpServer::_connections: the ids in it
    loopOf,         \* TcpConnection::_loop
    state,          \* TcpConnection::_state; "none" before new, "freed" after delete
    fired,          \* per connection: what its socket has signaled
    destructor,     \* where ~TcpServer is
    stopped,        \* pool threads ~EventLoopThreadPool has come to: the last one's number
    quit,           \* loops whose _quit is set
    phase,          \* where each loop is
    ready,          \* per loop: connections not dispatched yet
    queue,          \* per loop: functors queued
    batch,          \* per loop: functors of the running batch
    destroyed,      \* history: calls of connectDestroyed per connection
    asked,          \* history: connections deleteConnection was called for
    closed          \* history: connections the user closed

server  == <<started, listening, nextLoop, connections, loopOf, destructor, stopped>>
loops   == <<quit, phase, ready, queue, batch>>
history == <<destroyed, asked, closed>>
vars == <<server, state, fired, loops, history>>

Base  == 0
Loops == Base..NumLoops
Conns == 1..MaxConns

Functors == [op : {"listen", "established", "close", "closeInLoop", "destroyed",
                   "deleteInLoop", "delete"},
             conn : 0..MaxConns]

F(op, c) == [op |-> op, conn |-> c]

States == {"none", "connecting", "connected", "disconnecting", "disconnected", "freed"}

TypeOK ==
    /\ started \in BOOLEAN /\ listening \in BOOLEAN
    /\ nextLoop \in 1..NumLoops \cup {1}
    /\ connections \subseteq Conns
    /\ loopOf \in [Conns -> Loops]
    /\ state \in [Conns -> States]
    /\ fired \in [Conns -> SUBSET SocketEvents]
    /\ destructor \in {"none", "deleting", "joining", "gone"}
    /\ stopped \in 0..NumLoops
    /\ quit \subseteq Loops
    /\ phase \in [Loops -> {"start", "poll", "dispatch", "batch", "exited"}]
    /\ ready \in [Loops -> SUBSET Conns]
    /\ queue \in [Loops -> Seq(Functors)] /\ batch \in [Loops -> Seq(Functors)]
    /\ destroyed \in [Conns -> 0..2]
    /\ asked \subseteq Conns /\ closed \subseteq Conns

Init ==
    /\ started = FALSE /\ listening = FALSE
    /\ nextLoop = 1
    /\ connections = {}
    /\ loopOf = [c \in Conns |-> Base]
    /\ state = [c \in Conns |-> "none"]
    /\ fired = [c \in Conns |-> {}]
    /\ destructor = "none" /\ stopped = 0
    /\ quit = {}
    /\ phase = [l \in Loops |-> "start"]
    /\ ready = [l \in Loops |-> {}]
    /\ queue = [l \in Loops |-> <<>>] /\ batch = [l \in Loops |-> <<>>]
    /\ destroyed = [c \in Conns |-> 0]
    /\ asked = {} /\ closed = {}

-----------------------------------------------------------------------------
(* The loops                                                               *)

\* The server's loop waits for a destructor that runs in one of its callbacks.
Blocked(l) == l = Base /\ destructor \in {"deleting", "joining"}

\* queueInLoop of loop l, fs in order.
Queue(l, fs) == queue' = [queue EXCEPT ![l] = @ \o fs]

\* loop() is entered, in a thread of the pool once start has made it, and clears
\* _quit.
EnterLoop(l) ==
    /\ phase[l] = "start"
    /\ l # Base => started
    /\ quit' = quit \ {l}
    /\ phase' = [phase EXCEPT ![l] = "poll"]
    /\ UNCHANGED <<server, state, fired, ready, queue, batch, history>>

\* The wait returns the wakeup event: the batch comes at once.
PollWakeup(l) ==
    /\ phase[l] = "poll"
    /\ queue[l] # <<>> \/ l \in quit
    /\ phase' = [phase EXCEPT ![l] = "batch"]
    /\ batch' = [batch EXCEPT ![l] = queue[l]]
    /\ queue' = [queue EXCEPT ![l] = <<>>]
    /\ UNCHANGED <<server, state, fired, quit, ready, history>>

Signaled(l) == {c \in Conns : loopOf[c] = l /\ fired[c] # {}}

\* It returns channels: all that are signaled, or only those of a listening
\* socket, a timer or another user of the loop, on which users may act.  Functors
\* may be queued already: a push from another loop is not seen until its wakeup.
PollEvents(l) ==
    /\ phase[l] = "poll"
    /\ phase' = [phase EXCEPT ![l] = "dispatch"]
    /\ ready' = [ready EXCEPT ![l] = Signaled(l)]
    /\ UNCHANGED <<server, state, fired, quit, queue, batch, history>>

DispatchDone(l) ==
    /\ phase[l] = "dispatch"
    /\ ready[l] = {}
    /\ phase' = [phase EXCEPT ![l] = "batch"]
    /\ batch' = [batch EXCEPT ![l] = queue[l]]
    /\ queue' = [queue EXCEPT ![l] = <<>>]
    /\ UNCHANGED <<server, state, fired, quit, ready, history>>

\* The loop condition is read: what was queued since the swap stays in the queue
\* of a loop that returns.
BatchDone(l) ==
    /\ phase[l] = "batch"
    /\ batch[l] = <<>>
    /\ phase' = [phase EXCEPT ![l] = IF l \in quit THEN "exited" ELSE "poll"]
    /\ UNCHANGED <<server, state, fired, quit, ready, queue, batch, history>>

-----------------------------------------------------------------------------
(* TcpServer::start and the acceptor                                       *)

\* start, called once: the pool's threads have made their loops, each of which may
\* have to enter loop() yet, and listen is queued.
Start ==
    /\ ~started /\ destructor = "none"
    /\ started' = TRUE
    /\ Queue(Base, <<F("listen", 0)>>)
    /\ UNCHANGED <<listening, nextLoop, connections, loopOf, destructor, stopped, state, fired,
                   quit, phase, ready, batch, history>>

\* Faulty variant: the index runs past the end.
NextIndex_NoWrap == nextLoop + 1

\* EventLoopThreadPool::getNextLoop, the index after the call.
NextIndex == IF nextLoop < NumLoops THEN nextLoop + 1 ELSE 1

\* newConnection for connection c, on loop l.
NewConnection(c, l) ==
    /\ loopOf' = [loopOf EXCEPT ![c] = l]
    /\ state' = [state EXCEPT ![c] = "connecting"]
    /\ connections' = connections \cup {c}
    /\ nextLoop' = IF NumLoops = 0 THEN nextLoop ELSE NextIndex
    /\ Queue(l, <<F("established", c)>>)

\* handleAccept: a socket was accepted; with none nothing happens.  The channel of
\* an acceptor that was released still calls newConnection: on a server that is
\* gone, which works as long as the freed memory is what it was.
HandleAccept ==
    /\ phase[Base] = "dispatch" /\ listening /\ ~Blocked(Base)
    /\ \E c \in Conns :
        /\ state[c] = "none" /\ \A d \in 1..(c - 1) : state[d] # "none"
        /\ NewConnection(c, IF NumLoops = 0 THEN Base ELSE nextLoop)
    /\ UNCHANGED <<started, listening, destructor, stopped, fired, quit, phase, ready, batch, history>>

-----------------------------------------------------------------------------
(* Handlers of a connection                                                *)

\* A connected connection's channel is enabled for reading and closing.
SocketEvent(c, e) ==
    /\ state[c] = "connected"
    /\ e \notin fired[c]
    /\ e = "close" => c \in PeerCloses
    /\ fired' = [fired EXCEPT ![c] = @ \cup {e}]
    /\ UNCHANGED <<server, state, loops, history>>

\* Faulty variant: handleRead does not look at the state.
Closings_AnyState(events, ended) ==
    Cardinality(events \cap (IF ended THEN {"close", "error", "read"} ELSE {"close", "error"}))

\* How often handleEvent calls handleClose for these events, in the order close,
\* read, error: handleRead does nothing after a close, and closes when the read
\* has ended or failed.
Closings(events, ended) ==
    Cardinality(events \cap {"close", "error"})
      + IF "read" \in events /\ "close" \notin events /\ ended THEN 1 ELSE 0

\* handleClose, n times: closeConnection queues closeConnectionInLoop each time.
HandleClose(c, n) ==
    /\ state' = [state EXCEPT ![c] = IF n > 0 THEN "disconnecting" ELSE @]
    /\ Queue(Base, [i \in 1..n |-> F("closeInLoop", c)])

\* Faulty variant: the events of all ready channels are reset.
Handled_All(l, c) == [d \in Conns |-> IF loopOf[d] = l THEN {} ELSE fired[d]]

\* WSAEnumNetworkEvents resets what the socket has signaled.
Handled(l, c) == [fired EXCEPT ![c] = {}]

\* handleEvent for a ready connection.
HandleEvent(l, c) ==
    /\ phase[l] = "dispatch" /\ c \in ready[l]
    /\ ready' = [ready EXCEPT ![l] = @ \ {c}]
    /\ fired' = Handled(l, c)
    /\ \E ended \in {FALSE, (c \in PeerCloses)} : HandleClose(c, Closings(fired[c], ended))
    /\ UNCHANGED <<server, quit, phase, batch, history>>

\* TcpConnection::close in a handler: runInLoop on the loop thread queues it.
Close(c) ==
    /\ c \in UserCloses
    /\ phase[loopOf[c]] = "dispatch"
    /\ state[c] \in {"connected", "disconnecting"} /\ destroyed[c] = 0
    /\ c \notin closed /\ destructor = "none"
    /\ closed' = closed \cup {c}
    /\ Queue(loopOf[c], <<F("close", c)>>)
    /\ UNCHANGED <<server, state, fired, quit, phase, ready, batch, destroyed, asked>>

-----------------------------------------------------------------------------
(* Functors                                                                *)

Listen ==
    /\ listening' = TRUE
    /\ UNCHANGED <<connections, state, fired, queue, history>>

ConnectEstablished(c) ==
    /\ state[c] = "connecting"          \* asserted
    /\ state' = [state EXCEPT ![c] = "connected"]
    /\ UNCHANGED <<listening, connections, fired, queue, history>>

\* Faulty variant: it also deletes.
CloseInLoop_Deletes(c) ==
    /\ Queue(loopOf[c], <<F("destroyed", c), F("delete", c)>>)
    /\ UNCHANGED <<listening, connections, state, fired, history>>

\* closeConnectionInLoop, on the server's loop.
CloseInLoop(c) ==
    /\ Queue(loopOf[c], <<F("destroyed", c)>>)
    /\ UNCHANGED <<listening, connections, state, fired, history>>

\* The channel is removed from the poller and the user's callback called, which
\* may ask for the deletion.
ConnectDestroyed(c) ==
    /\ state' = [state EXCEPT ![c] = "disconnected"]
    /\ fired' = [fired EXCEPT ![c] = {}]
    /\ destroyed' = [destroyed EXCEPT ![c] = @ + 1]
    /\ \/ asked' = asked /\ queue' = queue
       \/ /\ c \notin asked
          /\ asked' = asked \cup {c}
          /\ Queue(Base, <<F("deleteInLoop", c)>>)
    /\ UNCHANGED <<listening, connections, closed>>

\* Faulty variant: the id stays in the map.
Erased_Kept(c) == connections

Erased(c) == connections \ {c}

\* Nothing is done for a connection that is not in the map.
DeleteInLoop(c) ==
    /\ connections' = Erased(c)
    /\ IF c \in connections THEN Queue(loopOf[c], <<F("delete", c)>>) ELSE UNCHANGED queue
    /\ UNCHANGED <<listening, state, fired, history>>

Delete(c) ==
    /\ state' = [state EXCEPT ![c] = "freed"]
    /\ fired' = [fired EXCEPT ![c] = {}]
    /\ UNCHANGED <<listening, connections, queue, history>>

Execute(f) ==
    \/ f.op = "listen"       /\ Listen
    \/ f.op = "established"  /\ ConnectEstablished(f.conn)
    \/ f.op = "close"        /\ HandleClose(f.conn, 1)
                             /\ UNCHANGED <<listening, connections, fired, history>>
    \/ f.op = "closeInLoop"  /\ CloseInLoop(f.conn)
    \/ f.op = "destroyed"    /\ ConnectDestroyed(f.conn)
    \/ f.op = "deleteInLoop" /\ DeleteInLoop(f.conn)
    \/ f.op = "delete"       /\ Delete(f.conn)

RunFunctor(l) ==
    /\ phase[l] = "batch" /\ batch[l] # <<>>
    /\ Execute(Head(batch[l]))
    /\ batch' = [batch EXCEPT ![l] = Tail(@)]
    /\ UNCHANGED <<started, nextLoop, loopOf, destructor, stopped, quit, phase, ready>>

-----------------------------------------------------------------------------
(* The end of the server's loop and of the server                          *)

\* The program tells the server's loop to return.
QuitBase ==
    /\ DestroyIn = "afterLoop" /\ started
    /\ Base \notin quit
    /\ quit' = quit \cup {Base}
    /\ UNCHANGED <<server, state, fired, phase, ready, queue, batch, history>>

\* ~TcpServer: release forgets the acceptor, whose channel stays as it is.
Destroy ==
    /\ destructor = "none" /\ started
    /\ \/ DestroyIn = "afterLoop" /\ phase[Base] = "exited"
       \/ DestroyIn = "callback" /\ phase[Base] \in {"dispatch", "batch"}
    /\ destructor' = "deleting"
    /\ UNCHANGED <<started, listening, nextLoop, connections, loopOf, stopped, state, fired, loops,
                   history>>

\* The deletion of the next connection of the map, in the order of ids, is queued;
\* nothing looks at the map any more before it is cleared.
DestroyConnection ==
    /\ destructor = "deleting"
    /\ \E c \in connections :
        /\ \A d \in connections : c <= d
        /\ Queue(loopOf[c], <<F("delete", c)>>)
        /\ connections' = connections \ {c}
    /\ UNCHANGED <<started, listening, nextLoop, loopOf, destructor, stopped, state, fired, quit,
                   phase, ready, batch, history>>

\* ~EventLoopThreadPool begins.
DestroyPool ==
    /\ destructor = "deleting" /\ connections = {}
    /\ destructor' = "joining"
    /\ UNCHANGED <<started, listening, nextLoop, connections, loopOf, stopped, state, fired, loops,
                   history>>

\* Faulty variant: the thread is joined without a quit.
QuitLoop_Forgotten(l) == UNCHANGED quit

QuitLoop(l) == quit' = quit \cup {l}

\* ~EventLoopThread of the next thread: quit, once the one before it was joined.
DestroyThread ==
    /\ destructor = "joining"
    /\ stopped < NumLoops
    /\ stopped # 0 => phase[stopped] = "exited"
    /\ stopped' = stopped + 1
    /\ QuitLoop(stopped + 1)
    /\ UNCHANGED <<started, listening, nextLoop, connections, loopOf, destructor, state, fired,
                   phase, ready, queue, batch, history>>

\* The last thread was joined.
PoolGone ==
    /\ destructor = "joining"
    /\ \A l \in Loops \ {Base} : phase[l] = "exited"
    /\ destructor' = "gone"
    /\ UNCHANGED <<started, listening, nextLoop, connections, loopOf, stopped, state, fired, loops,
                   history>>

Destroying == DestroyConnection \/ DestroyPool \/ DestroyThread \/ PoolGone

Terminated == destructor = "gone" /\ UNCHANGED vars

-----------------------------------------------------------------------------
LoopStep(l) ==
    /\ ~Blocked(l)
    /\ \/ EnterLoop(l) \/ PollWakeup(l) \/ PollEvents(l) \/ DispatchDone(l)
       \/ RunFunctor(l) \/ BatchDone(l)
       \/ \E c \in Conns : HandleEvent(l, c)

Next ==
    \/ \E l \in Loops : LoopStep(l)
    \/ Start \/ HandleAccept
    \/ QuitBase \/ Destroy \/ Destroying \/ Terminated
    \/ \E c \in Conns : Close(c) \/ \E e \in SocketEvents : SocketEvent(c, e)

\* Every loop thread runs, and a destructor that has begun goes on; nobody has to
\* connect, send, close, quit or destroy.
Fairness == (\A l \in Loops : WF_vars(LoopStep(l))) /\ WF_vars(Destroying)

Spec == Init /\ [][Next]_vars /\ Fairness

-----------------------------------------------------------------------------
(* Properties                                                              *)

Waiting(l) == batch[l] \o queue[l]

\* The places of the functors that wait: <<loop, index>>.
Places == UNION {{l} \X DOMAIN Waiting(l) : l \in Loops}

\* How many functors op for connection c wait in the loops.
Pending(op, c) == Cardinality({p \in Places : Waiting(p[1])[p[2]] = F(op, c)})

\* connectDestroyed, and with it the user's callback, is called once, as its
\* declaration asks (TcpConnection.h:65-66).
DestroyedOnce == \A c \in Conns : destroyed[c] <= 1

\* No functor of a loop that will run it waits for a connection that was deleted,
\* and one that establishes a connection finds it connecting: the raw pointers that
\* cross between the loops never dangle, nor does the destructor make them dangle
\* when the server's loop has returned.  (TcpServer.cpp:51, 98, 103, 124, 132, 141)
NoStaleFunctor ==
    \A l \in Loops : phase[l] # "exited" => \A f \in ToSet(Waiting(l)) : f.conn # 0 =>
        /\ state[f.conn] \notin {"none", "freed"}
        /\ f.op = "established" => state[f.conn] = "connecting"

\* A TcpConnection that exists is in the server's map or has exactly one deletion
\* on its way, so each is deleted at most once, also when the destructor finds some
\* on their way already, and none is forgotten: those that outlive the server have
\* theirs in the queue of a loop that has returned.  (TcpServer.cpp:38-57, 116-124)
OneOwner ==
    \A c \in Conns :
        (IF c \in connections THEN 1 ELSE 0) + Pending("delete", c)
            = IF state[c] \in {"none", "freed"} THEN 0 ELSE 1

\* A connection that starts to disconnect, or whose peer has closed, is reported
\* to the user, by way of the server's loop and back, unless that loop is quit.
CloseIsTold ==
    \A c \in Conns :
        "close" \in fired[c] \/ state[c] = "disconnecting" ~>
            destroyed[c] > 0 \/ Base \in quit

\* Once begun the destructor returns: it waits for no connection, and each loop it
\* quits returns before it takes the next.  The one exception is a loop that is quit
\* while its thread has yet to enter loop(), which forgets the quit: its join does not
\* return.  (TcpServer.cpp:29-58, EventLoopThreadPool.cpp:14-22,
\* EventLoopThread.cpp:17-28, 58-62, EventLoop.cpp:71)
DestructorReturns ==
    destructor = "deleting" ~>
        destructor = "gone" \/ (stopped # 0 /\ phase[stopped] = "start")

\* "First close the acceptor, to prevent new connections" (TcpServer.cpp:33): once
\* the destructor has begun no connection is made.  It fails: release does not
\* close the acceptor, which accepts again when the server's loop goes on.
NoneAfterRelease ==
    [][destructor # "none" => \A c \in Conns : state[c] = "none" => state'[c] = "none"]_vars
=============================================================================
