----------------------------- MODULE TcpClient -----------------------------
(***************************************************************************)
(* TcpClient with its TcpConnector and the TcpConnection it hands sockets  *)
(* to, on one event loop.                                                  *)
(*                                                                         *)
(* An attempt is one call of TcpConnector::connect: it names the socket it *)
(* makes, the connector's channel for the socket, the timer that watches   *)
(* over it and the connection the socket goes to.  The loop is reduced to  *)
(* what module EventLoop shows of it, cancelling a timer on the loop thread*)
(* to what module TimerQueue shows (CancelIsPrompt): it takes effect at    *)
(* once.                                                                   *)
(*                                                                         *)
(* Users call connect and disconnect, the first of which starts the        *)
(* connector at once and must be called on the loop thread, as startInLoop *)
(* asserts.  Reconnecting on its own is in the code, but isretry is always *)
(* FALSE: the constructor does not use its parameter.  A client is never   *)
(* destroyed: its destructor is private and nothing in the class calls it, *)
(* so that the connector's is not reached either.                          *)
(***************************************************************************)
EXTENDS Naturals, Sequences, SequencesExt, FiniteSets

CONSTANTS
    MaxAttempts,    \* bound: calls of TcpConnector::connect
    MaxRequests,    \* bound: calls of connect and disconnect
    Patient         \* users ask again when their last request was carried out

ASSUME ClientConstants ==
    MaxAttempts \in Nat \ {0} /\ MaxRequests \in Nat /\ Patient \in BOOLEAN

VARIABLES
    \* TcpConnector
    state,          \* state_
    channel,        \* channel_: the attempt whose channel it is, or None
    transferred,    \* isSocketTransfer_
    timeid,         \* timeidForTimeout_, or None
    \* TcpClient and TcpConnection
    connect,        \* _connect
    connection,     \* _connection, or None
    connected,      \* attempts whose TcpConnection object exists
    \* the system and the loop
    attempts,       \* attempts made so far
    socket,         \* the attempts' sockets
    chans,          \* attempts whose channel in the connector exists
    timers,         \* attempts whose timer runs
    due,            \* those among them that have expired
    signaled,       \* what sockets signal: <<attempt, event>>
    phase,          \* where the loop is
    expired,        \* timers handleRead has yet to run
    ready,          \* events yet to dispatch
    wakeup, queue, batch,
    \* history
    requests,       \* calls of connect and disconnect
    told            \* attempts reported to have timed out

connector == <<state, channel, transferred, timeid>>
client    == <<connect, connection, connected>>
system    == <<attempts, socket, chans, signaled>>
clock     == <<timers, due>>
loop      == <<phase, expired, ready, wakeup, queue, batch>>
history   == <<requests, told>>
vars == <<connector, client, system, clock, loop, history>>

None == 0
Attempts == 1..MaxAttempts
Events == Attempts \X {"write", "error", "close"}

\* attempt is the connection "close" is bound to; with "reset" it only records
\* which channel resetChannel was queued for.
Functors == [op : {"start", "stop", "reconnect", "disconnect"}, attempt : {None}]
              \cup [op : {"reset", "close"}, attempt : Attempts]

F(op, a) == [op |-> op, attempt |-> a]

TypeOK ==
    /\ state \in {"disconnected", "connecting", "connected"}
    /\ channel \in 0..MaxAttempts /\ timeid \in 0..MaxAttempts
    /\ transferred \in BOOLEAN
    /\ connect \in BOOLEAN /\ connection \in 0..MaxAttempts /\ connected \subseteq Attempts
    /\ attempts \in 0..MaxAttempts
    /\ socket \in [Attempts -> {"none", "open", "closed"}]
    /\ chans \subseteq Attempts
    /\ timers \subseteq Attempts /\ due \subseteq timers
    /\ signaled \subseteq Events /\ ready \subseteq Events
    /\ phase \in {"poll", "dispatch", "batch"}
    /\ expired \subseteq Attempts
    /\ wakeup \in BOOLEAN
    /\ queue \in Seq(Functors) /\ batch \in Seq(Functors)
    /\ requests \in 0..MaxRequests /\ told \subseteq Attempts

Init ==
    /\ state = "disconnected" /\ channel = None /\ transferred = FALSE /\ timeid = None
    /\ connect = FALSE /\ connection = None /\ connected = {}
    /\ attempts = 0 /\ socket = [a \in Attempts |-> "none"]
    /\ chans = {} /\ timers = {} /\ due = {} /\ signaled = {}
    /\ phase = "poll" /\ expired = {} /\ ready = {}
    /\ wakeup = FALSE /\ queue = <<>> /\ batch = <<>>
    /\ requests = 0 /\ told = {}

-----------------------------------------------------------------------------
(* The loop                                                                *)

\* queueInLoop on the loop thread.
Queue(f) == queue' = Append(queue, f) /\ wakeup' = TRUE

PollWakeup ==
    /\ phase = "poll" /\ wakeup
    /\ wakeup' = FALSE
    /\ phase' = "batch" /\ batch' = queue /\ queue' = <<>>
    /\ UNCHANGED <<connector, client, system, clock, expired, ready, history>>

\* The wait returns what is signaled, or another user's channel; the timer's
\* channel is the first.
PollEvents ==
    /\ phase = "poll" /\ ~wakeup
    /\ phase' = "dispatch"
    /\ expired' = due /\ timers' = timers \ due /\ due' = {}
    /\ ready' = signaled /\ signaled' = {}
    /\ UNCHANGED <<connector, client, attempts, socket, chans, wakeup, queue, batch, history>>

DispatchDone ==
    /\ phase = "dispatch" /\ expired = {} /\ ready = {}
    /\ phase' = "batch" /\ batch' = queue /\ queue' = <<>>
    /\ UNCHANGED <<connector, client, system, clock, expired, ready, wakeup, history>>

BatchDone ==
    /\ phase = "batch" /\ batch = <<>>
    /\ phase' = "poll"
    /\ UNCHANGED <<connector, client, system, clock, expired, ready, wakeup, queue, batch, history>>

\* The wakeup of a thread that has queued a functor.
WakeUp ==
    /\ queue # <<>> /\ ~wakeup
    /\ wakeup' = TRUE
    /\ UNCHANGED <<connector, client, system, clock, phase, expired, ready, queue, batch, history>>

-----------------------------------------------------------------------------
(* Sockets and timers                                                      *)

Selected(a) == {<<a, "write">>, <<a, "error">>}

\* The connector's channel selects writing: connected, or failed.
Answer(a, e) ==
    /\ a \in chans /\ channel = a /\ ~transferred
    /\ signaled \cap Selected(a) = {} /\ ready \cap Selected(a) = {}
    /\ signaled' = signaled \cup {<<a, e>>}
    /\ UNCHANGED <<connector, client, attempts, socket, chans, clock, loop, history>>

\* The peer ends the connection, or reading fails.
PeerCloses(a) ==
    /\ a \in connected
    /\ <<a, "close">> \notin signaled \cup ready
    /\ signaled' = signaled \cup {<<a, "close">>}
    /\ UNCHANGED <<connector, client, attempts, socket, chans, clock, loop, history>>

Expire(a) ==
    /\ a \in timers \ due
    /\ due' = due \cup {a}
    /\ UNCHANGED <<connector, client, system, timers, loop, history>>

-----------------------------------------------------------------------------
(* TcpConnector                                                            *)

\* cancelCheckTimeoutInLoop.
CancelCheckTimeout ==
    /\ timers' = timers \ {timeid} /\ due' = due \ {timeid}
    /\ timeid' = None

\* connect: the attempt begins, or fails at once without a trace.
Begin ==
    \/ /\ attempts < MaxAttempts
       /\ LET a == attempts + 1 IN
           /\ attempts' = a
           /\ socket' = [socket EXCEPT ![a] = "open"]
           /\ channel' = a /\ chans' = chans \cup {a} /\ transferred' = FALSE
           /\ timers' = timers \cup {a} /\ timeid' = a
       /\ state' = "connecting"
       /\ UNCHANGED <<signaled, due>>
    \/ UNCHANGED <<connector, system, clock>>

\* startInLoop: an attempt or a connection that is there is only reported.
StartInLoop ==
    /\ IF state = "disconnected" THEN Begin ELSE UNCHANGED <<connector, system, clock>>
    /\ UNCHANGED <<client, queue, wakeup, history>>

\* The sockets when the connector gives up its channel.
SocketStopped == IF transferred THEN socket ELSE [socket EXCEPT ![channel] = "closed"]

StopInLoop ==
    /\ CancelCheckTimeout
    /\ IF channel # None
         THEN /\ chans' = chans \ {channel}
              /\ signaled' = signaled \ Selected(channel)
              /\ socket' = SocketStopped
         ELSE UNCHANGED <<chans, signaled, socket>>
    /\ channel' = None
    /\ state' = "disconnected"
    /\ UNCHANGED <<transferred, client, attempts, queue, wakeup, history>>

\* Faulty variant: the transfer of the socket is not noted.
RemoveAndResetChannel_Keeps ==
    /\ signaled' = signaled \ Selected(channel)
    /\ transferred' = transferred
    /\ Queue(F("reset", channel))

\* removeAndResetChannel.
RemoveAndResetChannel ==
    /\ signaled' = signaled \ Selected(channel)
    /\ transferred' = TRUE
    /\ Queue(F("reset", channel))

\* handleWrite, and TcpClient::newConnection, which takes the socket.
HandleWrite(a) ==
    /\ <<a, "write">> \in ready
    /\ RemoveAndResetChannel
    /\ state' = "connected"
    /\ connection' = channel /\ connected' = connected \cup {channel}
    /\ CancelCheckTimeout
    /\ ready' = ready \ {<<a, "write">>}
    /\ UNCHANGED <<channel, connect, attempts, socket, chans, phase, expired, batch, history>>

\* handleError.
HandleError(a) ==
    /\ <<a, "error">> \in ready
    /\ RemoveAndResetChannel
    /\ state' = "disconnected"
    /\ socket' = [socket EXCEPT ![channel] = "closed"]
    /\ ready' = ready \ {<<a, "error">>}
    /\ UNCHANGED <<channel, timeid, client, attempts, chans, clock, phase, expired, batch, history>>

\* Faulty variant: channel_ keeps pointing to the deleted channel.
ResetChannel_Dangling ==
    /\ chans' = chans \ {channel}
    /\ signaled' = signaled \ Selected(channel)
    /\ UNCHANGED <<connector, client, attempts, socket, clock, queue, wakeup, history>>

\* resetChannel deletes whatever channel the connector has by now.
ResetChannel ==
    /\ chans' = chans \ {channel}
    /\ signaled' = signaled \ Selected(channel)
    /\ channel' = None
    /\ UNCHANGED <<state, transferred, timeid, client, attempts, socket, clock, queue, wakeup, history>>

\* Faulty variant: a report when nothing is in progress.
Overdue_Disconnected == state = "disconnected"

Overdue == state # "connected"

\* checkTimeoutInLoop, for the timer of any attempt: the attempt goes on.
CheckTimeout(a) ==
    /\ a \in expired
    /\ expired' = expired \ {a}
    /\ told' = IF Overdue THEN told \cup {a} ELSE told
    /\ timeid' = None
    /\ UNCHANGED <<state, channel, transferred, client, system, clock, phase, ready, wakeup, queue,
                   batch, requests>>

-----------------------------------------------------------------------------
(* TcpClient and its connection                                            *)

\* handleClose of any connection: removeConnection deletes the current one.
RemoveConnection ==
    /\ connected' = connected \ {connection}
    /\ socket' = [socket EXCEPT ![connection] = "closed"]
    /\ signaled' = signaled \ {<<connection, "close">>}
    /\ connection' = None
    /\ UNCHANGED <<connector, connect, attempts, chans, clock, history>>

\* The channel's handleEvent: what it does after the callback that deletes it is
\* left out.
HandleClose(a) ==
    /\ <<a, "close">> \in ready
    /\ RemoveConnection
    /\ ready' = ready \ {<<a, "close">>}
    /\ UNCHANGED <<phase, expired, wakeup, queue, batch>>

\* Faulty variant: the connector stops right away.
DisconnectInLoop_StopNow ==
    IF connection # None THEN Queue(F("close", connection)) /\ UNCHANGED <<connector, system, clock>>
                         ELSE StopInLoop

\* Faulty variant: the connection is closed without a look whether there is one.
DisconnectInLoop_Close ==
    /\ Queue(F("close", connection))
    /\ UNCHANGED <<connector, system, clock>>

\* close and stop both queue what they do.
DisconnectInLoop ==
    /\ Queue(IF connection # None THEN F("close", connection) ELSE F("stop", None))
    /\ UNCHANGED <<connector, system, clock>>

\* reconnectInLoop: disconnectInLoop, and the connector's start is queued too.
ReconnectInLoop ==
    /\ queue' = queue \o << IF connection # None THEN F("close", connection) ELSE F("stop", None),
                            F("start", None) >>
    /\ wakeup' = TRUE
    /\ UNCHANGED <<connector, system, clock>>

Execute(f) ==
    \/ f.op = "start"      /\ StartInLoop
    \/ f.op = "stop"       /\ StopInLoop
    \/ f.op = "reset"      /\ ResetChannel
    \/ f.op = "reconnect"  /\ ReconnectInLoop /\ UNCHANGED <<client, history>>
    \/ f.op = "disconnect" /\ DisconnectInLoop /\ UNCHANGED <<client, history>>
    \/ f.op = "close"      /\ RemoveConnection /\ UNCHANGED <<queue, wakeup>>

RunFunctor ==
    /\ phase = "batch" /\ batch # <<>>
    /\ Execute(Head(batch))
    /\ batch' = Tail(batch)
    /\ UNCHANGED <<phase, expired, ready>>

-----------------------------------------------------------------------------
(* Users                                                                   *)

Waiting == batch \o queue

Ask(f) ==
    /\ requests < MaxRequests
    /\ Patient => \A i \in DOMAIN Waiting : Waiting[i].op = "reset"
    /\ requests' = requests + 1
    /\ queue' = Append(queue, f)
    /\ UNCHANGED <<connector, connection, connected, system, clock, phase, expired, ready, batch,
                   told>>

\* The wakeup comes with the functor from the loop thread, later from others.
SomeThread == wakeup' \in {wakeup, TRUE}
LoopThread == phase # "poll" /\ wakeup' = TRUE

\* The first connect starts the connector, on the loop thread.
Connect ==
    \/ connect  /\ connect' = TRUE /\ Ask(F("reconnect", None)) /\ SomeThread
    \/ ~connect /\ connect' = TRUE /\ Ask(F("start", None)) /\ LoopThread

Disconnect == connect' = FALSE /\ Ask(F("disconnect", None)) /\ SomeThread

-----------------------------------------------------------------------------
HandleEvent(a) ==
    /\ phase = "dispatch"
    /\ \/ CheckTimeout(a)
       \/ expired = {} /\ (HandleWrite(a) \/ HandleError(a) \/ HandleClose(a))

LoopStep ==
    \/ PollWakeup \/ PollEvents \/ DispatchDone \/ BatchDone \/ RunFunctor
    \/ \E a \in Attempts : HandleEvent(a)

Network(a) == Answer(a, "write") \/ Answer(a, "error") \/ PeerCloses(a)

Next ==
    \/ LoopStep \/ WakeUp
    \/ \E a \in Attempts : Network(a) \/ Expire(a)
    \/ Connect \/ Disconnect

\* The loop thread runs, timers expire, and a thread that is about to wake the
\* loop does.  No server has to answer.
Fairness ==
    /\ WF_vars(LoopStep) /\ WF_vars(WakeUp)
    /\ \A a \in Attempts : WF_vars(Expire(a))

Spec == Init /\ [][Next]_vars /\ Fairness

-----------------------------------------------------------------------------
(* Properties                                                              *)

\* A socket is open exactly while the connector or one connection has it: each
\* is closed once, by whoever has it last, on every way from connect to an error, a
\* stop or the end of the connection.
\* (TcpConnector.cpp:86, 149-152, 184, TcpClient.cpp:92, 112)
SocketOwned ==
    \A a \in Attempts :
        socket[a] = "open" <=>
            (IF channel = a /\ ~transferred THEN 1 ELSE 0)
              + (IF a \in connected THEN 1 ELSE 0) = 1

\* resetChannel deletes the channel it was queued for, though a stop, a restart
\* or a close may come in between, and a close finds its connection.
\* (TcpConnector.cpp:151-152, TcpClient.cpp:74, 109-110)
FunctorsFresh ==
    \A i \in DOMAIN Waiting :
        /\ Waiting[i].op = "reset" => channel = Waiting[i].attempt
        /\ Waiting[i].op = "close" => connection = Waiting[i].attempt

\* What connect asserts: without an attempt there is no channel, but for the one
\* that waits for its resetChannel, and an attempt's channel is the connector's.  And
\* no timer runs but the one the connector can cancel, although a failed attempt
\* keeps its own and the next overwrites the id: none reports on another attempt or
\* clears the id of its timer.  (TcpConnector.cpp:79, 112, 123, 170, 195)
AttemptAgrees ==
    /\ timers \cup expired \subseteq {timeid} \ {None}
    /\ chans = {channel} \ {None}
    /\ state = "connecting" <=> channel # None /\ ~transferred
    /\ channel # None /\ transferred => F("reset", channel) \in Range(Waiting)

\* An attempt that neither succeeds nor fails nor is stopped is reported to have
\* timed out, whatever requests, errors and closes come in between.
\* (TcpConnector.cpp:123, 207-217)
AttemptReported ==
    \A a \in Attempts :
        (state = "connecting" /\ channel = a) ~>
            (a \in told \/ channel # a \/ state # "connecting")

\* "Can't reset channel_ here, because we are inside Channel::handleEvent"
\* (TcpConnector.cpp:151): a handler, the step that takes one of its channel's events
\* from ready, deletes neither the connector's channel nor the connection's when it is
\* that channel's own.
NoDeleteInHandler ==
    [][\A a \in Attempts :
           /\ <<a, "close">> \in ready \ ready' /\ a \in connected => a \in connected'
           /\ Selected(a) \cap (ready \ ready') # {} /\ a \in chans => a \in chans']_vars
=============================================================================
