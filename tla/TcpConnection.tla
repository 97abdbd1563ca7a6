--------------------------- MODULE TcpConnection ---------------------------
(***************************************************************************)
(* A TcpConnection on its loop: what users send goes straight to the       *)
(* socket, or through the output buffer when the socket does not take all  *)
(* of it; what the peer sends goes through the input buffer.               *)
(*                                                                         *)
(* Bytes are numbered in the order they are handed over, in each direction *)
(* from 1 on, so that a buffer shows what is lost, repeated or moved.  The *)
(* loop is reduced to what module EventLoop shows of it.  What becomes of  *)
(* a connection once it is closed is in TcpServer and TcpClient.           *)
(***************************************************************************)
EXTENDS Buffer

CONSTANTS
    OutputSize, InputSize,  \* what the buffers hold at first
    ExtraSize,              \* readFd's buffer on the stack
    HighWaterMark,          \* _highWaterMark
    Sizes,                  \* lengths of messages
    MaxOut, MaxIn,          \* bounds: bytes sent and received
    MaxRoom,                \* the socket's send buffer
    MaxQueue                \* bound: functors waiting when another thread sends

ASSUME ConnectionConstants ==
    /\ OutputSize \in Nat /\ InputSize \in Nat /\ ExtraSize \in Nat \ {0}
    /\ HighWaterMark \in Nat \ {0} /\ Sizes \subseteq Nat \ {0}
    /\ MaxOut \in Nat /\ MaxIn \in Nat /\ MaxRoom \in Nat \ {0} /\ MaxQueue \in Nat \ {0}
    /\ 1..MaxOut \subseteq Bytes /\ 1..MaxIn \subseteq Bytes

VARIABLES
    state,                  \* _state
    output, input,          \* _outputBuffer, _inputBuffer
    writing,                \* isEnableWriteEvent
    \* the socket
    room,                   \* free space of the send buffer
    armed,                  \* FD_WRITE will be recorded when there is room,
    fired,                  \* or has been
    incoming,               \* bytes to receive
    peer,                   \* whether it has ended the connection
    \* the loop
    phase, ready, wakeup, queue, batch,
    \* history
    accepted, sent,         \* bytes users got accepted, and the socket has taken
    received, consumed,     \* bytes readFd got, and users have retrieved
    short                   \* handleWrite's last send took a part only

connection == <<state, output, writing>>
socket     == <<room, armed, fired>>
network    == <<incoming, peer>>
loop       == <<phase, ready, wakeup, queue, batch>>
outgoing   == <<accepted, sent, short>>
reading    == <<input, received, consumed>>
vars == <<connection, socket, network, loop, outgoing, reading>>

Functors == [op : {"established", "close", "complete", "highwater"}, len : {0}]
              \cup [op : {"send"}, len : Sizes]

F(op, len) == [op |-> op, len |-> len]

TypeOK ==
    /\ state \in {"connecting", "connected", "disconnecting"}
    /\ BufferOK(output) /\ BufferOK(input)
    /\ writing \in BOOLEAN
    /\ room \in 0..MaxRoom /\ armed \in BOOLEAN /\ fired \in BOOLEAN
    /\ incoming \in 0..MaxIn /\ peer \in {"open", "closed", "reset"}
    /\ phase \in {"poll", "dispatch", "batch"}
    /\ ready \subseteq {"close", "read", "write"}
    /\ wakeup \in BOOLEAN
    /\ queue \in Seq(Functors) /\ batch \in Seq(Functors)
    /\ accepted \in 0..MaxOut /\ sent \in 0..MaxOut
    /\ received \in 0..MaxIn /\ consumed \in 0..MaxIn
    /\ short \in BOOLEAN

\* connectEstablished is queued by whoever made the connection.
Init ==
    /\ state = "connecting"
    /\ output = NewBuffer(OutputSize) /\ input = NewBuffer(InputSize)
    /\ writing = FALSE
    /\ room = MaxRoom /\ armed = FALSE /\ fired = FALSE
    /\ incoming = 0 /\ peer = "open"
    /\ phase = "poll" /\ ready = {}
    /\ wakeup = TRUE /\ queue = <<F("established", 0)>> /\ batch = <<>>
    /\ accepted = 0 /\ sent = 0 /\ received = 0 /\ consumed = 0
    /\ short = FALSE

-----------------------------------------------------------------------------
(* The socket and the peer                                                 *)

\* WSAEventSelect with FD_WRITE in its mask: recorded at once if there is room.
SelectWrite(free) == armed' = (free = 0) /\ fired' = (free > 0)

\* And without: what was recorded is gone.
SelectNoWrite == armed' = FALSE /\ fired' = FALSE

\* How many of len bytes send may take: what there is room for, or all of them.
Taken(len) == {n \in {len, room} : n <= len}

RoomAfter(n) == IF n <= room THEN room - n ELSE 0

\* The peer reads.
Drain ==
    /\ peer # "reset" /\ room < MaxRoom
    /\ room' = MaxRoom
    /\ fired' = (fired \/ armed) /\ armed' = FALSE
    /\ UNCHANGED <<connection, network, loop, outgoing, reading>>

Arrive ==
    /\ peer = "open" /\ received + incoming < MaxIn
    /\ incoming' = incoming + 1
    /\ UNCHANGED <<connection, socket, peer, loop, outgoing, reading>>

PeerEnds ==
    /\ peer = "open"
    /\ peer' \in {"closed", "reset"}
    /\ UNCHANGED <<connection, socket, incoming, loop, outgoing, reading>>

-----------------------------------------------------------------------------
(* The loop                                                                *)

Queue(f) == queue' = Append(queue, f) /\ wakeup' = TRUE

PollWakeup ==
    /\ phase = "poll" /\ wakeup
    /\ wakeup' = FALSE
    /\ phase' = "batch" /\ batch' = queue /\ queue' = <<>>
    /\ UNCHANGED <<connection, socket, network, ready, outgoing, reading>>

\* What the socket has recorded: closing and reading are selected for as long as
\* the connection is connected, and recorded again while the reason lasts.
Recorded ==
    IF state # "connected" THEN {}
    ELSE {e \in {"close", "read", "write"} :
              CASE e = "close" -> peer # "open"
                [] e = "read"  -> incoming > 0
                [] e = "write" -> fired}

\* The wait returns the socket's event, or another channel's.
PollEvents ==
    /\ phase = "poll" /\ ~wakeup
    /\ phase' = "dispatch"
    /\ ready' = Recorded /\ fired' = FALSE
    /\ UNCHANGED <<connection, room, armed, network, wakeup, queue, batch, outgoing, reading>>

DispatchDone ==
    /\ phase = "dispatch" /\ ready = {}
    /\ phase' = "batch" /\ batch' = queue /\ queue' = <<>>
    /\ UNCHANGED <<connection, socket, network, ready, wakeup, outgoing, reading>>

BatchDone ==
    /\ phase = "batch" /\ batch = <<>>
    /\ phase' = "poll"
    /\ UNCHANGED <<connection, socket, network, ready, wakeup, queue, batch, outgoing, reading>>

\* The wakeup of a thread that has queued a functor.
WakeUp ==
    /\ queue # <<>> /\ ~wakeup
    /\ wakeup' = TRUE
    /\ UNCHANGED <<connection, socket, network, phase, ready, queue, batch, outgoing, reading>>

-----------------------------------------------------------------------------
(* Sending                                                                 *)

Numbered(from, len) == [i \in 1..len |-> from + i]

\* Faulty variant: the output buffer is overtaken.
Direct_Always == room > 0

\* Nothing waits in the output buffer, so the socket is tried first.
Direct == ~writing /\ readableBytes(output) = 0

\* Faulty variant: the loop is not told that the channel has changed.
EnableWriting_NotSelected(free) == writing' = TRUE /\ UNCHANGED <<armed, fired>>

EnableWriting(free) ==
    /\ writing' = TRUE
    /\ IF writing THEN UNCHANGED <<armed, fired>> ELSE SelectWrite(free)

\* The rest of a message, from its byte n + 1 on, waits for the socket.
Keep(len, n, free) ==
    LET old   == readableBytes(output)
        total == old + len - n
    IN  /\ output' = append(output, Numbered(accepted + n, len - n))
        /\ IF total >= HighWaterMark /\ old < HighWaterMark
             THEN Queue(F("highwater", 0))
             ELSE UNCHANGED <<queue, wakeup>>
        /\ EnableWriting(free)

\* What the socket takes of a message at once; the rest is kept.
TryWrite(len) ==
    \E n \in IF room = 0 THEN {0} ELSE Taken(len) :
        /\ accepted' = accepted + len /\ sent' = sent + n
        /\ room' = RoomAfter(n)
        /\ IF n < len
             THEN Keep(len, n, RoomAfter(n))
             ELSE /\ Queue(F("complete", 0))
                  /\ UNCHANGED <<output, writing, armed, fired>>

\* sendInLoopFunc.  A message that fails at once is dropped.
SendInLoopFunc(len) ==
    /\ IF state = "connected" /\ ~(Direct /\ peer = "reset")
         THEN /\ accepted + len <= MaxOut
              /\ IF Direct THEN TryWrite(len)
                 ELSE /\ Keep(len, 0, room)
                      /\ accepted' = accepted + len
                      /\ UNCHANGED <<sent, room>>
         ELSE UNCHANGED <<output, writing, socket, queue, wakeup, accepted, sent>>
    /\ UNCHANGED <<state, network, short, reading>>

-----------------------------------------------------------------------------
(* The channel's callbacks                                                 *)

\* handleClose, up to the callback: disableAll.
HandleClose ==
    /\ state' = "disconnecting"
    /\ writing' = (state # "connected" /\ writing)
    /\ IF state = "connected" THEN SelectNoWrite ELSE UNCHANGED <<armed, fired>>
    /\ UNCHANGED <<output, room, network, outgoing, reading, queue, wakeup>>

\* Faulty variant: the writable event stays enabled.
AllWritten_StaysEnabled == Queue(F("complete", 0)) /\ UNCHANGED <<writing, armed, fired>>

\* Everything is written: disableWriting and the user's callback.
AllWritten == writing' = FALSE /\ SelectNoWrite /\ Queue(F("complete", 0))

HandleWrite ==
    IF state = "connected" /\ writing
      THEN IF room = 0 \/ peer = "reset"
             THEN HandleClose
             ELSE \E n \in Taken(readableBytes(output)) :
                     /\ output' = retrieve(output, n)
                     /\ sent' = sent + n /\ room' = RoomAfter(n)
                     /\ short' = (n < readableBytes(output))
                     /\ IF readableBytes(output') = 0
                          THEN AllWritten
                          ELSE UNCHANGED <<writing, armed, fired, queue, wakeup>>
                     /\ UNCHANGED <<state, network, accepted, reading>>
      ELSE UNCHANGED <<connection, socket, network, queue, wakeup, outgoing, reading>>

\* readFd takes all there is, as far as its two buffers go.
HandleRead ==
    IF state = "connected"
      THEN IF incoming = 0 \/ peer = "reset"
             THEN HandleClose
             ELSE LET space == writableBytes(input) + ExtraSize
                      n     == IF incoming <= space THEN incoming ELSE space
                  IN  /\ input' = readFd(input, Numbered(received, n))
                      /\ received' = received + n /\ incoming' = incoming - n
                      /\ UNCHANGED <<connection, socket, peer, queue, wakeup, outgoing, consumed>>
      ELSE UNCHANGED <<connection, socket, network, queue, wakeup, outgoing, reading>>

\* handleEvent looks at close, read and write in this order.
HandleEvent(e) ==
    /\ phase = "dispatch" /\ e \in ready
    /\ e = "read" => "close" \notin ready
    /\ e = "write" => ready = {"write"}
    /\ ready' = ready \ {e}
    /\ \/ e = "close" /\ HandleClose
       \/ e = "read"  /\ HandleRead
       \/ e = "write" /\ HandleWrite
    /\ UNCHANGED <<phase, batch>>

-----------------------------------------------------------------------------
(* Functors and users                                                      *)

\* connectEstablished.
ConnectEstablished ==
    /\ state' = "connected"
    /\ SelectNoWrite
    /\ UNCHANGED <<output, writing, room, network, queue, wakeup, outgoing, reading>>

Execute(f) ==
    \/ f.op = "established" /\ ConnectEstablished
    \/ f.op = "send"        /\ SendInLoopFunc(f.len)
    \/ f.op = "close"       /\ HandleClose
    \/ f.op \in {"complete", "highwater"}
         /\ UNCHANGED <<connection, socket, network, queue, wakeup, outgoing, reading>>

RunFunctor ==
    /\ phase = "batch" /\ batch # <<>>
    /\ Execute(Head(batch))
    /\ batch' = Tail(batch)
    /\ UNCHANGED <<phase, ready>>

\* Users' callbacks run on the loop thread, when events or functors are handled.
InCallback == phase # "poll" /\ UNCHANGED <<phase, ready, batch>>

\* sendInLoop on the loop thread.
Send(len) == state = "connected" /\ SendInLoopFunc(len) /\ InCallback

\* Bytes that are on their way to sendInLoopFunc.
Waiting == batch \o queue
OnTheWay == LET count[i \in 0..Len(Waiting)] ==
                    IF i = 0 THEN 0 ELSE count[i - 1] + Waiting[i].len
            IN  count[Len(Waiting)]

\* sendInLoop on another thread looks at the state before it queues; the wakeup
\* comes at once or later.
SendOutside(len) ==
    /\ state = "connected" /\ Len(Waiting) < MaxQueue
    /\ accepted + OnTheWay + len <= MaxOut
    /\ queue' = Append(queue, F("send", len)) /\ wakeup' \in {wakeup, TRUE}
    /\ UNCHANGED <<connection, socket, network, phase, ready, batch, outgoing, reading>>

\* close must be called on the loop thread, where runInLoop queues; two that wait
\* together are left out.
Close ==
    /\ InCallback /\ state # "connecting"
    /\ \A i \in DOMAIN Waiting : Waiting[i].op # "close"
    /\ Queue(F("close", 0))
    /\ UNCHANGED <<connection, socket, network, outgoing, reading>>

\* The message callback, or a later one, takes what it wants of the input.
Consume ==
    /\ phase # "poll"
    /\ \E n \in 1..readableBytes(input) :
          /\ input' = retrieve(input, n)
          /\ consumed' = consumed + n
    /\ UNCHANGED <<connection, socket, network, loop, outgoing, received>>

-----------------------------------------------------------------------------
LoopStep ==
    \/ PollWakeup \/ PollEvents \/ DispatchDone \/ BatchDone \/ RunFunctor
    \/ \E e \in {"close", "read", "write"} : HandleEvent(e)

Users ==
    \/ \E len \in Sizes :
          \/ accepted + OnTheWay + len <= MaxOut /\ Send(len)
          \/ SendOutside(len)
    \/ Close \/ Consume

Next == LoopStep \/ WakeUp \/ Users \/ Drain \/ Arrive \/ PeerEnds

\* The loop thread runs, a thread that is about to wake it does, and the peer
\* reads what it is sent.
Fairness == WF_vars(LoopStep) /\ WF_vars(WakeUp) /\ WF_vars(Drain)

Spec == Init /\ [][Next]_vars /\ Fairness

-----------------------------------------------------------------------------
(* Properties                                                              *)

\* No byte is lost, repeated or overtaken, in either direction, wherever a send
\* stops and however the buffers move or grow: the output buffer holds what was
\* accepted and the socket has not taken, the input buffer what readFd got and
\* users have not retrieved.  (TcpConnection.cpp:95-98, 128, 214, Buffer.h:157)
StreamsInOrder ==
    /\ content(output) = Numbered(sent, accepted - sent)
    /\ content(input) = Numbered(consumed, received - consumed)

\* A connected connection waits for the socket to become writable exactly while
\* there is something to write, which handleWrite asserts.  (TcpConnection.cpp:210)
WritingIffOutput == state = "connected" => (writing <=> readableBytes(output) > 0)

\* What is kept for later gets written if the peer reads, unless the connection
\* ends or handleWrite's send was partial: Windows records FD_WRITE again only
\* after a send that fails, and handleWrite does not try again.
\* (TcpConnection.cpp:208-226)
OutputFlushed ==
    readableBytes(output) > 0 ~> (readableBytes(output) = 0 \/ state # "connected" \/ short)
=============================================================================
