-------------------------- MODULE TcpClientProofs --------------------------
(***************************************************************************)
(* Proofs about module TcpClient for users who wait for their last request,*)
(* for any number of attempts and of requests.                             *)
(***************************************************************************)
EXTENDS TcpClient, SequenceTheorems, TLAPS

(* The parts of the inductive invariant. *)

\* Handlers have run before the batch begins, the batch before the loop waits.
PhaseInv ==
    /\ phase # "batch" => batch = <<>>
    /\ phase # "dispatch" => expired = {} /\ ready = {}

\* What waits, in its order: the work of one request, which is one functor or a stop or
\* close with the start behind it, and at most one reset, queued by a handler, with
\* only what users have asked for in front of it.
Orderly(w) ==
    \A i, j \in 1..Len(w) : i < j =>
        /\ w[j].op = "reset" => w[i].op \in {"reconnect", "disconnect"}
        /\ w[i].op # "reset" /\ w[j].op # "reset" =>
               w[i].op \in {"stop", "close"} /\ w[j].op = "start"

\* A functor finds what it was queued for.
Meant(f) ==
    /\ f.op = "reset" => channel = f.attempt /\ transferred
    /\ f.op = "close" => connection = f.attempt
    /\ f.op = "stop" => connection = None
    /\ f.op \in {"start", "reconnect"} => connect

\* A stop or a close was queued in a batch and runs in the next one, with no handler in
\* between: the loop has been woken.
BatchInv ==
    \A i \in 1..Len(queue) : queue[i].op \in {"stop", "close"} => phase # "dispatch" /\ wakeup

QueueInv ==
    /\ Orderly(Waiting) /\ BatchInv
    /\ \A i \in 1..Len(Waiting) : Meant(Waiting[i])
    /\ channel # None /\ transferred => \E i \in 1..Len(Waiting) : Waiting[i] = F("reset", channel)

\* Nothing is under way that a new attempt would meet.
Quiet == state # "connecting" /\ timers = {} /\ expired = {}

\* Before a start runs, and while none is to be expected, nothing is under way.
QuietInv ==
    (~connect \/ \E i \in 1..Len(Waiting) : Waiting[i].op = "start") =>
        Quiet \/ \E i \in 1..Len(Waiting) : Waiting[i].op \in {"disconnect", "stop"}

\* The connector's channel, its timer and the one connection.
AttemptInv ==
    /\ timers \cup expired \subseteq {timeid} \ {None} /\ timers \cap expired = {}
    /\ chans = {channel} \ {None}
    /\ state = "connecting" <=> channel # None /\ ~transferred
    /\ connected = {connection} \ {None}
    /\ connection # None => state = "connected"
    /\ state = "connected" => timers = {} /\ expired = {}

SocketInv ==
    \A a \in Attempts :
        socket[a] = "open" <=> (channel = a /\ ~transferred) \/ connection = a

\* Events are those of the connector's channel, at most one, and of the connection.
EventInv ==
    /\ signaled \cap ready = {}
    /\ \A e \in signaled \cup ready :
        IF e[2] = "close" THEN e[1] = connection ELSE e[1] = channel /\ ~transferred
    /\ \A e, g \in signaled \cup ready : e[2] # "close" /\ g[2] # "close" => e = g

IInv ==
    /\ TypeOK /\ PhaseInv /\ QueueInv /\ QuietInv
    /\ AttemptInv /\ SocketInv /\ EventInv
-----------------------------------------------------------------------------
(* What waits.                                                              *)

\* The functors that wait are typed.
LEMMA WaitingTyped ==
  ASSUME TypeOK
  PROVE  /\ batch \in Seq(Functors) /\ queue \in Seq(Functors) /\ Waiting \in Seq(Functors)
         /\ Len(Waiting) \in Nat /\ DOMAIN Waiting = 1..Len(Waiting)
         /\ \A i \in 1..Len(Waiting) : Waiting[i] \in Functors
<1>1. batch \in Seq(Functors) /\ queue \in Seq(Functors)
  BY DEF TypeOK
<1>2. Waiting \in Seq(Functors)
  BY <1>1, ConcatProperties DEF Waiting
<1> QED
  BY <1>1, <1>2, LenProperties, ElementOfSeq

\* When the batch is done, the swap leaves what waits as it is.
LEMMA SwapWaits ==
  ASSUME TypeOK, batch = <<>>, batch' = queue, queue' = <<>>
  PROVE  Waiting' = Waiting
<1>1. queue \in Seq(Functors)
  BY DEF TypeOK
<1> QED
  BY <1>1, ConcatEmptySeq DEF Waiting

\* What is queued waits behind everything else.
LEMMA AppendWaits ==
  ASSUME TypeOK, NEW f \in Functors, batch' = batch, queue' = Append(queue, f)
  PROVE  Waiting' = Append(Waiting, f)
<1>1. batch \in Seq(Functors) /\ queue \in Seq(Functors) /\ Waiting \in Seq(Functors)
      /\ <<f>> \in Seq(Functors)
  BY WaitingTyped
<1>2. Append(queue, f) = queue \o <<f>> /\ Append(Waiting, f) = Waiting \o <<f>>
  BY <1>1, AppendIsConcat
<1>3. (batch \o queue) \o <<f>> = batch \o (queue \o <<f>>)
  BY <1>1, ConcatAssociative
<1> QED
  BY <1>2, <1>3 DEF Waiting

\* The functor that runs is the first that waits; what it queues waits behind the rest.
LEMMA RunWaits ==
  ASSUME TypeOK, NEW s \in Seq(Functors),
         batch # <<>>, batch' = Tail(batch), queue' = queue \o s
  PROVE  /\ Waiting # <<>> /\ Len(Waiting) >= 1 /\ Head(batch) = Waiting[1]
         /\ Tail(Waiting) \in Seq(Functors)
         /\ Waiting' = Tail(Waiting) \o s
<1>1. batch \in Seq(Functors) /\ queue \in Seq(Functors) /\ Waiting \in Seq(Functors)
  BY WaitingTyped
<1>2. Tail(batch) \in Seq(Functors) /\ Len(Tail(batch)) = Len(batch) - 1
      /\ \A i \in 1..Len(Tail(batch)) : Tail(batch)[i] = batch[i + 1]
  BY <1>1, HeadTailProperties
<1>3. Len(batch) \in Nat \ {0} /\ Len(queue) \in Nat /\ Head(batch) = batch[1]
  BY <1>1, EmptySeq, LenProperties
<1>4. Waiting # <<>> /\ Head(batch) = Waiting[1] /\ Len(Waiting) = Len(batch) + Len(queue)
      /\ \A i \in 1..(Len(batch) + Len(queue)) :
             Waiting[i] = IF i <= Len(batch) THEN batch[i] ELSE queue[i - Len(batch)]
  <2>1. Len(Waiting) = Len(batch) + Len(queue)
        /\ \A i \in 1..(Len(batch) + Len(queue)) :
             Waiting[i] = IF i <= Len(batch) THEN batch[i] ELSE queue[i - Len(batch)]
    BY <1>1, ConcatProperties DEF Waiting
  <2>2. Len(Waiting) # 0
    BY <1>3, <2>1
  <2>3. 1 \in 1..(Len(batch) + Len(queue)) /\ 1 <= Len(batch)
    BY <1>3
  <2> QED
    BY <1>1, <1>3, <2>1, <2>2, <2>3, EmptySeq
<1>5. Tail(Waiting) \in Seq(Functors) /\ Len(Tail(Waiting)) = Len(Waiting) - 1
      /\ \A i \in 1..Len(Tail(Waiting)) : Tail(Waiting)[i] = Waiting[i + 1]
  BY <1>1, <1>4, HeadTailProperties
<1>6. Tail(Waiting) = Tail(batch) \o queue
  <2>1. Tail(batch) \o queue \in Seq(Functors)
        /\ Len(Tail(batch) \o queue) = Len(Tail(batch)) + Len(queue)
        /\ \A i \in 1..(Len(Tail(batch)) + Len(queue)) :
             (Tail(batch) \o queue)[i] =
                 IF i <= Len(Tail(batch)) THEN Tail(batch)[i] ELSE queue[i - Len(Tail(batch))]
    BY <1>1, <1>2, ConcatProperties
  <2>2. Len(Tail(Waiting)) = Len(Tail(batch) \o queue)
    BY <1>2, <1>3, <1>4, <1>5, <2>1
  <2>3. ASSUME NEW i \in 1..Len(Tail(Waiting))
        PROVE  Tail(Waiting)[i] = (Tail(batch) \o queue)[i]
    <3>1. i \in Int /\ i >= 1 /\ i <= Len(batch) + Len(queue) - 1
      BY <1>3, <1>4, <1>5
    <3>2. i + 1 \in 1..(Len(batch) + Len(queue)) /\ i \in 1..(Len(Tail(batch)) + Len(queue))
      BY <1>2, <1>3, <3>1
    <3>3. CASE i <= Len(Tail(batch))
      <4>1. i + 1 <= Len(batch) /\ i \in 1..Len(Tail(batch))
        BY <1>2, <1>3, <3>1, <3>3
      <4> QED
        BY <1>2, <1>4, <1>5, <2>1, <3>2, <3>3, <4>1
    <3>4. CASE ~(i <= Len(Tail(batch)))
      <4>1. ~(i + 1 <= Len(batch)) /\ i + 1 - Len(batch) = i - Len(Tail(batch))
        BY <1>2, <1>3, <3>1, <3>4
      <4> QED
        BY <1>4, <1>5, <2>1, <3>2, <3>4, <4>1
    <3> QED
      BY <3>3, <3>4
  <2> QED
    BY <1>5, <2>1, <2>2, <2>3, SeqEqual
<1>7. Waiting' = Tail(batch) \o (queue \o s)
  BY DEF Waiting
<1>8. (Tail(batch) \o queue) \o s = Tail(batch) \o (queue \o s)
  <2>1. ASSUME NEW b \in Seq(Functors), NEW q \in Seq(Functors), NEW r \in Seq(Functors)
        PROVE  (b \o q) \o r = b \o (q \o r)
    BY ConcatAssociative, SMTT(60)
  <2> QED
    BY <1>1, <1>2, <2>1, Zenon
<1>9. Len(Waiting) >= 1
  BY <1>3, <1>4
<1> QED
  BY <1>4, <1>5, <1>6, <1>7, <1>8, <1>9

\* The elements when a functor has run that has queued others.
LEMMA RestElements ==
  ASSUME NEW w \in Seq(Functors), w # <<>>, NEW s \in Seq(Functors)
  PROVE  /\ Len(w) \in Nat \ {0} /\ Len(s) \in Nat
         /\ Len(Tail(w) \o s) = Len(w) - 1 + Len(s)
         /\ \A i \in 1..(Len(w) - 1) : (Tail(w) \o s)[i] = w[i + 1] /\ i + 1 \in 1..Len(w)
         /\ \A i \in 1..Len(s) : (Tail(w) \o s)[Len(w) - 1 + i] = s[i]
<1>1. Len(w) \in Nat \ {0} /\ Len(s) \in Nat
  BY EmptySeq, LenProperties
<1>2. Tail(w) \in Seq(Functors) /\ Len(Tail(w)) = Len(w) - 1
      /\ \A i \in 1..Len(Tail(w)) : Tail(w)[i] = w[i + 1]
  BY HeadTailProperties
<1>3. Len(Tail(w) \o s) = Len(Tail(w)) + Len(s)
      /\ \A i \in 1..(Len(Tail(w)) + Len(s)) :
           (Tail(w) \o s)[i] = IF i <= Len(Tail(w)) THEN Tail(w)[i] ELSE s[i - Len(Tail(w))]
  BY <1>2, ConcatProperties
<1>4. ASSUME NEW i \in 1..(Len(w) - 1)
      PROVE  (Tail(w) \o s)[i] = w[i + 1] /\ i + 1 \in 1..Len(w)
  <2>1. i \in 1..Len(Tail(w)) /\ i \in 1..(Len(Tail(w)) + Len(s)) /\ i <= Len(Tail(w))
        /\ i + 1 \in 1..Len(w)
    BY <1>1, <1>2
  <2> QED
    BY <1>2, <1>3, <2>1
<1>5. ASSUME NEW i \in 1..Len(s) PROVE (Tail(w) \o s)[Len(w) - 1 + i] = s[i]
  <2>1. /\ Len(w) - 1 + i \in 1..(Len(Tail(w)) + Len(s))
        /\ ~(Len(w) - 1 + i <= Len(Tail(w)))
        /\ Len(w) - 1 + i - Len(Tail(w)) = i
    BY <1>1, <1>2
  <2> QED
    BY <1>3, <2>1
<1> QED
  BY <1>1, <1>2, <1>3, <1>4, <1>5

\* A single functor stays in order when the first has run.
LEMMA OrderlyRest ==
  ASSUME NEW w \in Seq(Functors), w # <<>>, Orderly(w)
  PROVE  Orderly(Tail(w) \o <<>>)
<1>1. /\ Len(w) \in Nat \ {0} /\ Len(Tail(w) \o <<>>) = Len(w) - 1
      /\ \A i \in 1..(Len(w) - 1) : (Tail(w) \o <<>>)[i] = w[i + 1] /\ i + 1 \in 1..Len(w)
  <2>1. <<>> \in Seq(Functors) /\ Len(<<>>) = 0
    BY EmptySeq
  <2> HIDE DEF Functors
  <2>2. /\ Len(w) \in Nat \ {0}
        /\ Len(Tail(w) \o <<>>) = Len(w) - 1 + Len(<<>>)
        /\ \A i \in 1..(Len(w) - 1) : (Tail(w) \o <<>>)[i] = w[i + 1] /\ i + 1 \in 1..Len(w)
    BY <2>1, RestElements
  <2> QED
    BY <2>1, <2>2
<1> DEFINE t == Tail(w) \o <<>>
<1> HIDE DEF t
<1>2. SUFFICES ASSUME NEW i \in 1..Len(t), NEW j \in 1..Len(t), i < j
      PROVE  /\ t[j].op = "reset" => t[i].op \in {"reconnect", "disconnect"}
             /\ t[i].op # "reset" /\ t[j].op # "reset" =>
                    t[i].op \in {"stop", "close"} /\ t[j].op = "start"
  BY DEF Orderly, t
<1>3. i \in 1..(Len(w) - 1) /\ j \in 1..(Len(w) - 1) /\ i + 1 < j + 1
  BY <1>1, <1>2 DEF t
<1>4. /\ i + 1 \in 1..Len(w) /\ j + 1 \in 1..Len(w)
      /\ t[i] = w[i + 1] /\ t[j] = w[j + 1]
  BY <1>1, <1>3 DEF t
<1> QED
  BY <1>3, <1>4 DEF Orderly

\* What a user asks for comes behind resets only.
LEMMA OrderlyAsk ==
  ASSUME NEW w \in Seq(Functors), Orderly(w), \A i \in 1..Len(w) : w[i].op = "reset",
         NEW f \in Functors, f.op # "reset"
  PROVE  Orderly(Append(w, f))
<1> DEFINE t == Append(w, f)
<1>1. Len(w) \in Nat /\ Len(t) = Len(w) + 1 /\ t[Len(w) + 1] = f
      /\ \A i \in 1..Len(w) : t[i] = w[i]
  BY AppendProperties, LenProperties
<1> HIDE DEF t
<1>2. SUFFICES ASSUME NEW i \in 1..Len(t), NEW j \in 1..Len(t), i < j
      PROVE  /\ t[j].op = "reset" => t[i].op \in {"reconnect", "disconnect"}
             /\ t[i].op # "reset" /\ t[j].op # "reset" =>
                    t[i].op \in {"stop", "close"} /\ t[j].op = "start"
  BY DEF Orderly, t
<1>3. i \in 1..Len(w) /\ t[i] = w[i] /\ t[i].op = "reset"
  BY <1>1, <1>2
<1>4. CASE j \in 1..Len(w)
  BY <1>1, <1>2, <1>3, <1>4 DEF Orderly
<1>5. CASE j \notin 1..Len(w)
  <2>1. t[j] = f
    BY <1>1, <1>2, <1>5
  <2> QED
    BY <1>3, <2>1
<1> QED
  BY <1>4, <1>5

\* A reset may come behind what users have asked for.
LEMMA OrderlyReset ==
  ASSUME NEW w \in Seq(Functors), Orderly(w),
         \A i \in 1..Len(w) : w[i].op \in {"reconnect", "disconnect"},
         NEW f \in Functors, f.op = "reset"
  PROVE  Orderly(Append(w, f))
<1> DEFINE t == Append(w, f)
<1>1. Len(w) \in Nat /\ Len(t) = Len(w) + 1 /\ t[Len(w) + 1] = f
      /\ \A i \in 1..Len(w) : t[i] = w[i]
  BY AppendProperties, LenProperties
<1> HIDE DEF t
<1>2. SUFFICES ASSUME NEW i \in 1..Len(t), NEW j \in 1..Len(t), i < j
      PROVE  /\ t[j].op = "reset" => t[i].op \in {"reconnect", "disconnect"}
             /\ t[i].op # "reset" /\ t[j].op # "reset" =>
                    t[i].op \in {"stop", "close"} /\ t[j].op = "start"
  BY DEF Orderly, t
<1>3. i \in 1..Len(w) /\ t[i] = w[i]
  BY <1>1, <1>2
<1>4. CASE j \in 1..Len(w)
  BY <1>1, <1>2, <1>3, <1>4 DEF Orderly
<1>5. CASE j \notin 1..Len(w)
  <2>1. t[j] = f
    BY <1>1, <1>2, <1>5
  <2> QED
    BY <1>3, <2>1
<1> QED
  BY <1>4, <1>5

\* When the first functor is a request or a start, only resets are behind it.
LEMMA OnlyResets ==
  ASSUME NEW w \in Seq(Functors), w # <<>>, Orderly(w),
         w[1].op \in {"start", "reconnect", "disconnect"}
  PROVE  \A i \in 1..(Len(w) - 1) : w[i + 1].op = "reset" /\ i + 1 \in 1..Len(w) /\ 1 \in 1..Len(w)
<1>1. Len(w) \in Nat \ {0}
  BY EmptySeq, LenProperties
<1>2. TAKE i \in 1..(Len(w) - 1)
<1>3. 1 \in 1..Len(w) /\ i + 1 \in 1..Len(w) /\ 1 < i + 1
  BY <1>1
<1> QED
  BY <1>3 DEF Orderly

\* A request turns into a stop or a close, and a start behind it.
LEMMA OrderlyWork ==
  ASSUME NEW w \in Seq(Functors), w # <<>>, Orderly(w),
         w[1].op \in {"reconnect", "disconnect"},
         NEW s \in Seq(Functors), Len(s) \in {1, 2}, s[1].op \in {"stop", "close"},
         Len(s) = 2 => s[2].op = "start"
  PROVE  Orderly(Tail(w) \o s)
<1> DEFINE t == Tail(w) \o s
           n == Len(w) - 1
<1>1. /\ Len(w) \in Nat \ {0} /\ Len(t) = n + Len(s)
      /\ \A i \in 1..n : t[i] = w[i + 1] /\ i + 1 \in 1..Len(w)
      /\ \A i \in 1..Len(s) : t[n + i] = s[i]
  BY RestElements
<1>2. \A i \in 1..n : w[i + 1].op = "reset"
  BY OnlyResets
<1>3. n \in Nat /\ n + 1 <= Len(w)
  BY <1>1
<1> HIDE DEF t
<1>4. SUFFICES ASSUME NEW i \in 1..Len(t), NEW j \in 1..Len(t), i < j
      PROVE  /\ t[j].op = "reset" => t[i].op \in {"reconnect", "disconnect"}
             /\ t[i].op # "reset" /\ t[j].op # "reset" =>
                    t[i].op \in {"stop", "close"} /\ t[j].op = "start"
  BY DEF Orderly, t
<1>5. CASE j <= n
  <2>1. i \in 1..n /\ j \in 1..n /\ i + 1 < j + 1
    BY <1>1, <1>3, <1>4, <1>5
  <2>2. /\ i + 1 \in 1..Len(w) /\ j + 1 \in 1..Len(w)
        /\ t[i] = w[i + 1] /\ t[j] = w[j + 1]
    BY <1>1, <2>1
  <2> QED
    BY <2>1, <2>2 DEF Orderly
<1>6. CASE j > n
  <2>1. j - n \in 1..Len(s) /\ n + (j - n) = j
    BY <1>1, <1>3, <1>4, <1>6
  <2>2. t[j] = s[j - n]
    BY <1>1, <2>1
  <2>3. t[j].op \in {"stop", "close", "start"}
    BY <2>1, <2>2
  <2>4. CASE i <= n
    <3>1. t[i].op = "reset"
      BY <1>1, <1>2, <1>3, <1>4, <2>4
    <3> QED
      BY <2>3, <3>1
  <2>5. CASE i > n
    <3>1. i = n + 1 /\ j = n + 2 /\ Len(s) = 2
      <4>1. (Len(t) = n + 1 \/ Len(t) = n + 2) /\ (Len(t) = n + 2 => Len(s) = 2)
        <5>1. CASE Len(s) = 1
          BY <1>1, <1>3, <5>1
        <5>2. CASE Len(s) = 2
          BY <1>1, <1>3, <5>2
        <5> QED
          BY <5>1, <5>2
      <4>2. i \in Int /\ j \in Int /\ j <= Len(t)
        BY <1>1, <1>3, <1>4
      <4>3. Len(t) = n + 2
        BY <1>3, <1>4, <2>5, <4>1, <4>2
      <4> QED
        BY <1>3, <1>4, <2>5, <4>1, <4>2, <4>3
    <3>2. t[i] = s[1] /\ t[j] = s[2]
      BY <1>1, <3>1
    <3> QED
      BY <3>1, <3>2
  <2> QED
    BY <1>1, <1>3, <2>4, <2>5
<1> QED
  BY <1>1, <1>3, <1>5, <1>6

-----------------------------------------------------------------------------
(* What a step keeps when it leaves a part's variables alone.               *)

\* The functors still find what they were queued for.
LEMMA QueueKept ==
  ASSUME QueueInv, BatchInv', Waiting' = Waiting, channel' = channel,
         transferred' = transferred, connection' = connection, connect' = connect
  PROVE  QueueInv'
<1>1. Orderly(Waiting') /\ \A i \in 1..Len(Waiting') : Meant(Waiting'[i])
  BY DEF QueueInv
<1>2. ASSUME NEW i \in 1..Len(Waiting') PROVE Meant(Waiting[i])'
  BY <1>1, <1>2 DEF Meant
<1>3. channel' # None /\ transferred' => \E i \in 1..Len(Waiting') : Waiting'[i] = F("reset", channel')
  BY DEF QueueInv
<1> QED
  BY <1>1, <1>2, <1>3 DEF QueueInv

\* Nothing begins.
LEMMA QuietKept ==
  ASSUME QuietInv, Waiting' = Waiting, connect' = connect, Quiet => Quiet'
  PROVE  QuietInv'
BY DEF QuietInv

\* Neither the connector nor its timer moves, nor does the connection.
LEMMA AttemptKept ==
  ASSUME AttemptInv, UNCHANGED <<connector, connection, connected, chans>>,
         timers' \cup expired' \subseteq timers \cup expired, timers' \cap expired' = {}
  PROVE  AttemptInv'
BY DEF AttemptInv, connector

\* No socket is opened, closed or handed over.
LEMMA SocketKept ==
  ASSUME SocketInv, socket' = socket, channel' = channel, transferred' = transferred,
         connection' = connection
  PROVE  SocketInv'
BY DEF SocketInv

\* No event comes.
LEMMA EventKept ==
  ASSUME EventInv, channel' = channel, transferred' = transferred, connection' = connection,
         signaled' \cup ready' \subseteq signaled \cup ready, signaled' \cap ready' = {}
  PROVE  EventInv'
BY DEF EventInv

-----------------------------------------------------------------------------
(* The loop's own steps.                                                    *)

\* A wakeup: the batch comes at once.
LEMMA PollWakeupStep ==
  ASSUME IInv, PollWakeup
  PROVE  IInv'
<1> USE DEF IInv
<1>1. batch = <<>> /\ batch' = queue /\ queue' = <<>> /\ phase' = "batch"
      /\ UNCHANGED <<connector, client, system, clock, expired, ready, history>>
  BY DEF PollWakeup, PhaseInv
<1>2. Waiting' = Waiting
  BY <1>1, SwapWaits
<1>3. TypeOK'
  BY <1>1, EmptySeq DEF TypeOK, PollWakeup, connector, client, system, clock, history
<1>4. PhaseInv'
  BY <1>1 DEF PhaseInv, PollWakeup
<1>5. BatchInv'
  BY <1>1, EmptySeq DEF BatchInv
<1>6. QueueInv'
  BY <1>1, <1>2, <1>5, QueueKept DEF connector, client
<1>7. QuietInv'
  BY <1>1, <1>2, QuietKept DEF connector, client, clock, Quiet
<1>8. AttemptInv'
  BY <1>1, AttemptKept DEF AttemptInv, client, system, clock
<1>9. SocketInv' /\ EventInv'
  BY <1>1, SocketKept, EventKept DEF EventInv, connector, client, system
<1> QED
  BY <1>3, <1>4, <1>6, <1>7, <1>8, <1>9

\* What has expired and what is signaled is dispatched.
LEMMA PollEventsStep ==
  ASSUME IInv, PollEvents
  PROVE  IInv'
<1> USE DEF IInv
<1>1. /\ phase = "poll" /\ ~wakeup /\ phase' = "dispatch"
      /\ expired = {} /\ expired' = due /\ timers' = timers \ due /\ due' = {}
      /\ ready = {} /\ ready' = signaled /\ signaled' = {}
      /\ UNCHANGED <<connector, client, attempts, socket, chans, wakeup, queue, batch, history>>
  BY DEF PollEvents, PhaseInv
<1>2. Waiting' = Waiting
  BY <1>1 DEF Waiting
<1>3. TypeOK'
  BY <1>1 DEF TypeOK, connector, client, history
<1>4. PhaseInv'
  BY <1>1 DEF PhaseInv
<1>5. BatchInv'
  BY <1>1 DEF BatchInv, QueueInv
<1>6. QueueInv'
  BY <1>1, <1>2, <1>5, QueueKept DEF connector, client
<1>7. QuietInv'
  <2>1. due \subseteq timers
    BY DEF TypeOK
  <2> QED
    BY <1>1, <1>2, <2>1, QuietKept DEF connector, client, Quiet
<1>8. AttemptInv'
  <2>1. due \subseteq timers
    BY DEF TypeOK
  <2> QED
    BY <1>1, <2>1, AttemptKept DEF client
<1>9. SocketInv' /\ EventInv'
  BY <1>1, SocketKept, EventKept DEF connector, client
<1> QED
  BY <1>3, <1>4, <1>6, <1>7, <1>8, <1>9

\* The handlers have run, the batch comes.
LEMMA DispatchDoneStep ==
  ASSUME IInv, DispatchDone
  PROVE  IInv'
<1> USE DEF IInv
<1>1. batch = <<>> /\ batch' = queue /\ queue' = <<>> /\ phase' = "batch"
      /\ expired = {} /\ ready = {}
      /\ UNCHANGED <<connector, client, system, clock, expired, ready, wakeup, history>>
  BY DEF DispatchDone, PhaseInv
<1>2. Waiting' = Waiting
  BY <1>1, SwapWaits
<1>3. TypeOK'
  BY <1>1, EmptySeq DEF TypeOK, connector, client, system, clock, history
<1>4. PhaseInv'
  BY <1>1 DEF PhaseInv
<1>5. BatchInv'
  BY <1>1, EmptySeq DEF BatchInv
<1>6. QueueInv'
  BY <1>1, <1>2, <1>5, QueueKept DEF connector, client
<1>7. QuietInv'
  BY <1>1, <1>2, QuietKept DEF connector, client, clock, Quiet
<1>8. AttemptInv'
  BY <1>1, AttemptKept DEF AttemptInv, client, system, clock
<1>9. SocketInv' /\ EventInv'
  BY <1>1, SocketKept, EventKept DEF EventInv, connector, client, system
<1> QED
  BY <1>3, <1>4, <1>6, <1>7, <1>8, <1>9

\* The batch is done: what it has queued has woken the loop.
LEMMA BatchDoneStep ==
  ASSUME IInv, BatchDone
  PROVE  IInv'
<1> USE DEF IInv
<1>1. /\ phase = "batch" /\ batch = <<>> /\ phase' = "poll" /\ expired = {} /\ ready = {}
      /\ UNCHANGED <<connector, client, system, clock, expired, ready, wakeup, queue, batch, history>>
  BY DEF BatchDone, PhaseInv
<1>2. Waiting' = Waiting
  BY <1>1 DEF Waiting
<1>3. TypeOK'
  BY <1>1 DEF TypeOK, connector, client, system, clock, history
<1>4. PhaseInv'
  BY <1>1 DEF PhaseInv
<1>5. BatchInv'
  BY <1>1 DEF BatchInv, QueueInv
<1>6. QueueInv'
  BY <1>1, <1>2, <1>5, QueueKept DEF connector, client
<1>7. QuietInv'
  BY <1>1, <1>2, QuietKept DEF connector, client, clock, Quiet
<1>8. AttemptInv'
  BY <1>1, AttemptKept DEF AttemptInv, client, system, clock
<1>9. SocketInv' /\ EventInv'
  BY <1>1, SocketKept, EventKept DEF EventInv, connector, client, system
<1> QED
  BY <1>3, <1>4, <1>6, <1>7, <1>8, <1>9

\* Another thread's wakeup.
LEMMA WakeUpStep ==
  ASSUME IInv, WakeUp
  PROVE  IInv'
<1> USE DEF IInv
<1>1. /\ wakeup' = TRUE
      /\ UNCHANGED <<connector, client, system, clock, phase, expired, ready, queue, batch, history>>
  BY DEF WakeUp
<1>2. Waiting' = Waiting
  BY <1>1 DEF Waiting
<1>3. TypeOK'
  BY <1>1 DEF TypeOK, connector, client, system, clock, history
<1>4. PhaseInv'
  BY <1>1 DEF PhaseInv
<1>5. BatchInv'
  BY <1>1 DEF BatchInv, QueueInv
<1>6. QueueInv'
  BY <1>1, <1>2, <1>5, QueueKept DEF connector, client
<1>7. QuietInv'
  BY <1>1, <1>2, QuietKept DEF connector, client, clock, Quiet
<1>8. AttemptInv'
  BY <1>1, AttemptKept DEF AttemptInv, client, system, clock
<1>9. SocketInv' /\ EventInv'
  BY <1>1, SocketKept, EventKept DEF EventInv, connector, client, system
<1> QED
  BY <1>3, <1>4, <1>6, <1>7, <1>8, <1>9

-----------------------------------------------------------------------------
(* The network and the clock.                                               *)

\* The server answers on the connector's channel, or the attempt fails.
LEMMA AnswerStep ==
  ASSUME IInv, NEW a \in Attempts, NEW e \in {"write", "error"}, Answer(a, e)
  PROVE  IInv'
<1> USE DEF IInv
<1>1. /\ channel = a /\ ~transferred
      /\ signaled \cap Selected(a) = {} /\ ready \cap Selected(a) = {}
      /\ signaled' = signaled \cup {<<a, e>>}
      /\ UNCHANGED <<connector, client, attempts, socket, chans, clock, loop, history>>
  BY DEF Answer
<1>2. Waiting' = Waiting /\ ready' = ready
  BY <1>1 DEF Waiting, loop
<1>3. <<a, e>> \in Events
  BY DEF Events
<1>4. TypeOK'
  BY <1>1, <1>3 DEF TypeOK, connector, client, clock, loop, history
<1>5. PhaseInv'
  BY <1>1 DEF PhaseInv, loop
<1>6. BatchInv'
  BY <1>1 DEF BatchInv, QueueInv, loop
<1>7. QueueInv'
  BY <1>1, <1>2, <1>6, QueueKept DEF connector, client
<1>8. QuietInv'
  BY <1>1, <1>2, QuietKept DEF connector, client, clock, loop, Quiet
<1>9. AttemptInv'
  BY <1>1, AttemptKept DEF AttemptInv, client, clock, loop
<1>10. SocketInv'
  BY <1>1, SocketKept DEF connector, client
<1>11. EventInv'
  <2>1. <<a, e>>[1] = a /\ <<a, e>>[2] = e /\ <<a, e>> \in Selected(a)
    BY DEF Selected
  <2>2. \A g \in signaled \cup ready : g[2] = "close"
    <3>1. SUFFICES ASSUME NEW g \in signaled \cup ready, g[2] # "close" PROVE FALSE
      OBVIOUS
    <3>2. g \in Events /\ g[1] = a
      BY <1>1, <3>1 DEF EventInv, TypeOK
    <3>3. g \in Selected(a)
      BY <3>1, <3>2 DEF Events, Selected
    <3> QED
      BY <1>1, <3>3
  <2>3. signaled' \cap ready' = {}
    BY <1>1, <1>2, <2>1 DEF EventInv
  <2>4. UNCHANGED <<channel, transferred, connection>>
    BY <1>1 DEF connector, client
  <2> HIDE DEF IInv
  <2>5. EventInv
    BY DEF IInv
  <2> QED
    BY <1>1, <1>2, <2>1, <2>2, <2>3, <2>4, <2>5 DEF EventInv
<1> QED
  BY <1>4, <1>5, <1>7, <1>8, <1>9, <1>10, <1>11

\* The peer ends the connection.
LEMMA PeerClosesStep ==
  ASSUME IInv, NEW a \in Attempts, PeerCloses(a)
  PROVE  IInv'
<1> USE DEF IInv
<1>1. /\ a \in connected /\ <<a, "close">> \notin signaled \cup ready
      /\ signaled' = signaled \cup {<<a, "close">>}
      /\ UNCHANGED <<connector, client, attempts, socket, chans, clock, loop, history>>
  BY DEF PeerCloses
<1>2. Waiting' = Waiting /\ ready' = ready
  BY <1>1 DEF Waiting, loop
<1>3. <<a, "close">> \in Events
  BY DEF Events
<1>4. TypeOK'
  BY <1>1, <1>3 DEF TypeOK, connector, client, clock, loop, history
<1>5. PhaseInv'
  BY <1>1 DEF PhaseInv, loop
<1>6. BatchInv'
  BY <1>1 DEF BatchInv, QueueInv, loop
<1>7. QueueInv'
  BY <1>1, <1>2, <1>6, QueueKept DEF connector, client
<1>8. QuietInv'
  BY <1>1, <1>2, QuietKept DEF connector, client, clock, loop, Quiet
<1>9. AttemptInv'
  BY <1>1, AttemptKept DEF AttemptInv, client, clock, loop
<1>10. SocketInv'
  BY <1>1, SocketKept DEF connector, client
<1>11. EventInv'
  <2>1. <<a, "close">>[1] = a /\ <<a, "close">>[2] = "close" /\ connection = a
    BY <1>1 DEF AttemptInv
  <2>2. signaled' \cap ready' = {}
    BY <1>1, <1>2 DEF EventInv
  <2>3. UNCHANGED <<channel, transferred, connection>>
    BY <1>1 DEF connector, client
  <2> HIDE DEF IInv
  <2>4. EventInv
    BY DEF IInv
  <2> QED
    BY <1>1, <1>2, <2>1, <2>2, <2>3, <2>4 DEF EventInv
<1> QED
  BY <1>4, <1>5, <1>7, <1>8, <1>9, <1>10, <1>11

\* A timer expires.
LEMMA ExpireStep ==
  ASSUME IInv, NEW a \in Attempts, Expire(a)
  PROVE  IInv'
<1> USE DEF IInv
<1>1. /\ a \in timers /\ due' = due \cup {a}
      /\ UNCHANGED <<connector, client, system, timers, loop, history>>
  BY DEF Expire
<1>2. Waiting' = Waiting
  BY <1>1 DEF Waiting, loop
<1>3. TypeOK'
  BY <1>1 DEF TypeOK, connector, client, system, loop, history
<1>4. PhaseInv'
  BY <1>1 DEF PhaseInv, loop
<1>5. BatchInv'
  BY <1>1 DEF BatchInv, QueueInv, loop
<1>6. QueueInv'
  BY <1>1, <1>2, <1>5, QueueKept DEF connector, client
<1>7. QuietInv'
  BY <1>1, <1>2, QuietKept DEF connector, client, loop, Quiet
<1>8. AttemptInv'
  BY <1>1, AttemptKept DEF AttemptInv, client, system, loop
<1>9. SocketInv' /\ EventInv'
  BY <1>1, SocketKept, EventKept DEF EventInv, connector, client, system, loop
<1> QED
  BY <1>3, <1>4, <1>6, <1>7, <1>8, <1>9

-----------------------------------------------------------------------------
(* What runs in a batch.                                                    *)

\* The functor f runs and queues s; it is the first that waits.
Runs(f, s) ==
    /\ phase = "batch" /\ batch # <<>> /\ f = Head(batch)
    /\ batch' = Tail(batch) /\ queue' = queue \o s
    /\ phase' = phase /\ expired' = expired /\ ready' = ready

\* What is known of the functors that wait before and after.
LEMMA RunsRight ==
  ASSUME IInv, NEW f, NEW s \in Seq(Functors), Runs(f, s)
  PROVE  /\ f \in Functors /\ Meant(f) /\ Waiting # <<>> /\ f = Waiting[1] /\ 1 \in 1..Len(Waiting)
         /\ batch' \in Seq(Functors) /\ queue' \in Seq(Functors)
         /\ Waiting' = Tail(Waiting) \o s
         /\ Len(Waiting) \in Nat \ {0} /\ Len(s) \in Nat /\ Len(Waiting') = Len(Waiting) - 1 + Len(s)
         /\ \A i \in 1..(Len(Waiting) - 1) : Waiting'[i] = Waiting[i + 1] /\ i + 1 \in 1..Len(Waiting)
         /\ \A i \in 1..Len(s) : Waiting'[Len(Waiting) - 1 + i] = s[i]
         /\ \A k \in 1..Len(Waiting) : k # 1 => k - 1 \in 1..Len(Waiting') /\ Waiting'[k - 1] = Waiting[k]
         /\ expired = {} /\ expired' = {} /\ ready = {} /\ ready' = {}
         /\ PhaseInv'
<1>1. TypeOK /\ PhaseInv /\ QueueInv
  BY DEF IInv
<1>2. batch # <<>> /\ batch' = Tail(batch) /\ queue' = queue \o s /\ f = Head(batch)
  BY DEF Runs
<1>3. /\ Waiting # <<>> /\ f = Waiting[1] /\ Len(Waiting) >= 1
      /\ Waiting' = Tail(Waiting) \o s
  BY <1>1, <1>2, RunWaits
<1>4. batch \in Seq(Functors) /\ queue \in Seq(Functors) /\ Waiting \in Seq(Functors)
      /\ Len(Waiting) \in Nat /\ \A i \in 1..Len(Waiting) : Waiting[i] \in Functors
  BY <1>1, WaitingTyped
<1>5. batch' \in Seq(Functors) /\ queue' \in Seq(Functors)
  <2>1. Tail(batch) \in Seq(Functors)
    BY <1>2, <1>4, HeadTailProperties
  <2>2. queue \o s \in Seq(Functors)
    BY <1>4, ConcatProperties
  <2> QED
    BY <1>2, <2>1, <2>2
<1>6. 1 \in 1..Len(Waiting)
  BY <1>3, <1>4
<1>7. f \in Functors /\ Meant(f)
  BY <1>1, <1>3, <1>4, <1>6 DEF QueueInv
<1>8. /\ Len(Waiting) \in Nat \ {0} /\ Len(s) \in Nat
      /\ Len(Tail(Waiting) \o s) = Len(Waiting) - 1 + Len(s)
      /\ \A i \in 1..(Len(Waiting) - 1) :
             (Tail(Waiting) \o s)[i] = Waiting[i + 1] /\ i + 1 \in 1..Len(Waiting)
      /\ \A i \in 1..Len(s) : (Tail(Waiting) \o s)[Len(Waiting) - 1 + i] = s[i]
  BY <1>3, <1>4, RestElements
<1>9. expired = {} /\ expired' = {} /\ ready = {} /\ ready' = {} /\ PhaseInv'
  BY <1>1 DEF PhaseInv, Runs
<1>10. ASSUME NEW k \in 1..Len(Waiting), k # 1
       PROVE  k - 1 \in 1..Len(Waiting') /\ Waiting'[k - 1] = Waiting[k]
  <2>1. /\ k - 1 \in 1..(Len(Waiting) - 1) /\ k - 1 \in 1..(Len(Waiting) - 1 + Len(s))
        /\ k - 1 + 1 = k
    BY <1>8, <1>10
  <2> QED
    BY <1>3, <1>8, <2>1
<1> QED
  BY <1>3, <1>5, <1>6, <1>7, <1>8, <1>9, <1>10

\* A functor that queues nothing.
LEMMA RunsAlone ==
  ASSUME IInv, NEW f, Runs(f, <<>>)
  PROVE  /\ f \in Functors /\ Meant(f) /\ f = Waiting[1] /\ 1 \in 1..Len(Waiting)
         /\ batch' \in Seq(Functors) /\ queue' = queue /\ queue' \in Seq(Functors)
         /\ Orderly(Waiting')
         /\ Len(Waiting) \in Nat \ {0} /\ Len(Waiting') = Len(Waiting) - 1
         /\ \A i \in 1..Len(Waiting') : Waiting'[i] = Waiting[i + 1] /\ i + 1 \in 1..Len(Waiting)
         /\ \A k \in 1..Len(Waiting) : k # 1 => k - 1 \in 1..Len(Waiting') /\ Waiting'[k - 1] = Waiting[k]
         /\ expired = {} /\ expired' = {} /\ ready = {} /\ ready' = {}
         /\ PhaseInv'
<1>1. <<>> \in Seq(Functors) /\ Len(<<>>) = 0
  BY EmptySeq
<1>2. Waiting \in Seq(Functors) /\ queue \in Seq(Functors)
  BY WaitingTyped DEF IInv
<1> DEFINE s == <<>>
<1> HIDE DEF s
<1>3. s \in Seq(Functors) /\ Runs(f, s) /\ Len(s) = 0
  BY <1>1 DEF s
<1>4. /\ f \in Functors /\ Meant(f) /\ Waiting # <<>> /\ f = Waiting[1] /\ 1 \in 1..Len(Waiting)
      /\ batch' \in Seq(Functors) /\ queue' \in Seq(Functors)
      /\ Waiting' = Tail(Waiting) \o s
      /\ Len(Waiting) \in Nat \ {0} /\ Len(s) \in Nat /\ Len(Waiting') = Len(Waiting) - 1 + Len(s)
      /\ \A i \in 1..(Len(Waiting) - 1) : Waiting'[i] = Waiting[i + 1] /\ i + 1 \in 1..Len(Waiting)
      /\ \A k \in 1..Len(Waiting) : k # 1 => k - 1 \in 1..Len(Waiting') /\ Waiting'[k - 1] = Waiting[k]
      /\ expired = {} /\ expired' = {} /\ ready = {} /\ ready' = {}
      /\ PhaseInv'
  BY <1>3, RunsRight
<1>5. Orderly(Waiting')
  BY <1>2, <1>4, OrderlyRest DEF IInv, QueueInv, s
<1>6. queue' = queue
  BY <1>2, ConcatEmptySeq DEF Runs
<1>7. Len(Waiting') = Len(Waiting) - 1
  BY <1>3, <1>4
<1> QED
  BY <1>4, <1>5, <1>6, <1>7

\* A start is the last that waits.
LEMMA StartAlone ==
  ASSUME NEW w \in Seq(Functors), w # <<>>, Orderly(w), w[1].op = "start"
  PROVE  Len(w) = 1
<1>1. Len(w) \in Nat \ {0}
  BY EmptySeq, LenProperties
<1>2. CASE Len(w) > 1
  <2>1. 1 \in 1..Len(w) /\ 2 \in 1..Len(w) /\ 1 < 2
    BY <1>1, <1>2
  <2> QED
    BY <2>1 DEF Orderly
<1>3. CASE ~(Len(w) > 1)
  <2>1. \A n \in Nat \ {0} : n > 1 \/ n = 1
    OBVIOUS
  <2> QED
    BY <1>1, <1>3, <2>1, Zenon
<1> QED
  BY <1>2, <1>3

\* TcpConnector::startInLoop: nothing else waits or is under way.
LEMMA StartStep ==
  ASSUME IInv, NEW f, Runs(f, <<>>), f.op = "start", StartInLoop
  PROVE  IInv'
<1> USE DEF IInv
<1>1. /\ f \in Functors /\ Meant(f) /\ f = Waiting[1] /\ 1 \in 1..Len(Waiting)
      /\ batch' \in Seq(Functors) /\ queue' = queue /\ queue' \in Seq(Functors)
      /\ Len(Waiting) \in Nat \ {0} /\ Len(Waiting') = Len(Waiting) - 1
      /\ expired = {} /\ expired' = {} /\ ready = {} /\ ready' = {}
      /\ PhaseInv'
  BY RunsAlone
<1>2. Len(Waiting) = 1 /\ Len(Waiting') = 0
  <2>1. Waiting \in Seq(Functors) /\ Waiting # <<>> /\ Orderly(Waiting)
    BY <1>1, WaitingTyped, EmptySeq DEF QueueInv
  <2>2. Len(Waiting) = 1
    BY <1>1, <2>1, StartAlone
  <2> QED
    BY <1>1, <2>2
<1>3. \A i \in 1..Len(Waiting) : Waiting[i].op = "start"
  BY <1>1, <1>2
<1>4. connect /\ Quiet
  BY <1>1, <1>3 DEF Meant, QuietInv
<1>5. ~(channel # None /\ transferred)
  BY <1>3 DEF QueueInv, F
<1>6. /\ UNCHANGED <<client, history, queue, wakeup>> /\ phase' = phase
      /\ \/ Begin \/ UNCHANGED <<connector, system, clock>>
  BY DEF StartInLoop, Runs
<1>7. BatchInv'
  BY <1>6 DEF BatchInv, QueueInv
<1>8. CASE UNCHANGED <<connector, system, clock>>
  <2>1. TypeOK'
    BY <1>1, <1>6, <1>8 DEF TypeOK, connector, client, system, clock, history
  <2>2. QueueInv'
    BY <1>2, <1>5, <1>7, <1>8 DEF QueueInv, Orderly, connector
  <2>3. QuietInv'
    BY <1>2, <1>4, <1>6, <1>8 DEF QuietInv, client
  <2>4. AttemptInv'
    BY <1>1, <1>6, <1>8, AttemptKept DEF AttemptInv, client, system, clock
  <2>5. SocketInv' /\ EventInv'
    BY <1>1, <1>6, <1>8, SocketKept, EventKept DEF EventInv, connector, client, system
  <2> QED
    BY <1>1, <2>1, <2>2, <2>3, <2>4, <2>5
<1>9. CASE /\ ~UNCHANGED <<connector, system, clock>> /\ Begin
  <2> DEFINE a == attempts + 1
  <2>1. state = "disconnected"
    BY <1>9 DEF StartInLoop
  <2>2. /\ attempts < MaxAttempts /\ attempts' = a
        /\ socket' = [socket EXCEPT ![a] = "open"]
        /\ channel' = a /\ chans' = chans \cup {a} /\ transferred' = FALSE
        /\ timers' = timers \cup {a} /\ timeid' = a
        /\ state' = "connecting" /\ UNCHANGED <<signaled, due>>
    BY <1>9 DEF Begin
  <2>3. a \in Attempts /\ a # None /\ a \in 0..MaxAttempts
    BY <2>2, ClientConstants DEF TypeOK, Attempts, None
  <2> HIDE DEF a
  <2>4. channel = None /\ connection = None /\ timers = {} /\ chans = {}
    BY <1>4, <1>5, <2>1 DEF AttemptInv, Quiet
  <2>5. TypeOK'
    BY <1>1, <1>6, <2>2, <2>3 DEF TypeOK, client, history, Attempts
  <2>6. QueueInv'
    BY <1>2, <1>7, <2>2 DEF QueueInv, Orderly
  <2>7. QuietInv'
    BY <1>2, <1>4, <1>6 DEF QuietInv, client
  <2>8. connection' = None /\ connected' = connected
    BY <1>6, <2>4 DEF client
  <2>9. AttemptInv'
    BY <1>1, <2>2, <2>3, <2>4, <2>8 DEF AttemptInv, TypeOK
  <2>10. SocketInv'
    BY <2>2, <2>3, <2>4, <2>8 DEF SocketInv, TypeOK, Attempts, None
  <2>11. EventInv'
    <3>1. \A e \in signaled \cup ready : FALSE
      BY <2>4 DEF EventInv, TypeOK, Events, Attempts, None
    <3> QED
      BY <1>1, <2>2, <3>1 DEF EventInv
  <2> QED
    BY <1>1, <2>5, <2>6, <2>7, <2>9, <2>10, <2>11
<1> QED
  BY <1>6, <1>8, <1>9

\* TcpConnector::stopInLoop, queued when there was no connection: the attempt ends.
LEMMA StopStep ==
  ASSUME IInv, NEW f, Runs(f, <<>>), f.op = "stop", StopInLoop
  PROVE  IInv'
<1> USE DEF IInv
<1>1. /\ f \in Functors /\ Meant(f) /\ f = Waiting[1] /\ 1 \in 1..Len(Waiting)
      /\ batch' \in Seq(Functors) /\ queue' = queue /\ queue' \in Seq(Functors)
      /\ Orderly(Waiting') /\ Len(Waiting) \in Nat
      /\ \A i \in 1..Len(Waiting') : Waiting'[i] = Waiting[i + 1] /\ i + 1 \in 1..Len(Waiting)
      /\ expired = {} /\ expired' = {} /\ ready = {} /\ ready' = {}
      /\ PhaseInv'
  BY RunsAlone
<1>2. /\ timers' = timers \ {timeid} /\ due' = due \ {timeid} /\ timeid' = None
      /\ channel # None => chans' = chans \ {channel} /\ signaled' = signaled \ Selected(channel)
                           /\ socket' = SocketStopped
      /\ channel = None => UNCHANGED <<chans, signaled, socket>>
      /\ channel' = None /\ state' = "disconnected" /\ phase' = phase
      /\ UNCHANGED <<transferred, client, attempts, queue, wakeup, history>>
  BY DEF StopInLoop, CancelCheckTimeout, Runs
<1>3. connection = None /\ connection' = None /\ connect' = connect /\ connected' = connected
  BY <1>1, <1>2 DEF Meant, client
<1>4. \A i \in 1..Len(Waiting') : Waiting'[i].op = "start"
  <2>1. ASSUME NEW i \in 1..Len(Waiting') PROVE Waiting'[i].op = "start"
    <3>1. i + 1 \in 1..Len(Waiting) /\ 1 < i + 1 /\ Waiting'[i] = Waiting[i + 1]
      BY <1>1
    <3>2. /\ Waiting[i + 1].op # "reset"
          /\ Waiting[i + 1].op # "reset" => Waiting[i + 1].op = "start"
      <4>1. Orderly(Waiting) /\ Waiting[1].op = "stop"
        BY <1>1 DEF QueueInv
      <4> QED
        BY <1>1, <3>1, <4>1 DEF Orderly
    <3> QED
      BY <3>1, <3>2
  <2> QED
    BY <2>1
<1>5. TypeOK'
  <2>1. socket' \in [Attempts -> {"none", "open", "closed"}]
    BY <1>2 DEF TypeOK, SocketStopped
  <2>2. chans' \subseteq Attempts /\ signaled' \subseteq Events
    BY <1>2 DEF TypeOK
  <2> QED
    <3>1. timers' \subseteq Attempts /\ due' \subseteq timers' /\ timeid' \in 0..MaxAttempts
          /\ channel' \in 0..MaxAttempts
      BY <1>2, ClientConstants DEF TypeOK, None
    <3>2. state' = "disconnected" /\ UNCHANGED <<transferred, client, attempts, wakeup, history, phase>>
      BY <1>2
    <3>3. ready' \subseteq Events /\ expired' \subseteq Attempts
      BY <1>1
    <3> QED
      BY <1>1, <2>1, <2>2, <3>1, <3>2, <3>3 DEF TypeOK, client, history
<1>6. QueueInv'
  <2>1. BatchInv'
    BY <1>2 DEF BatchInv, QueueInv
  <2>2. ASSUME NEW i \in 1..Len(Waiting') PROVE Meant(Waiting[i])'
    <3>1. i + 1 \in 1..Len(Waiting) /\ Waiting'[i] = Waiting[i + 1]
      BY <1>1
    <3>2. Meant(Waiting[i + 1])
      BY <3>1 DEF QueueInv
    <3> QED
      BY <1>3, <1>4, <3>1, <3>2 DEF Meant
  <2> QED
    BY <1>1, <1>2, <2>1, <2>2 DEF QueueInv
<1>7. timers' = {}
  BY <1>2 DEF AttemptInv
<1>8. QuietInv'
  BY <1>1, <1>2, <1>7 DEF QuietInv, Quiet
<1>9. AttemptInv'
  BY <1>1, <1>2, <1>3, <1>7 DEF AttemptInv
<1>10. SocketInv'
  BY <1>2, <1>3 DEF SocketInv, SocketStopped, TypeOK, Attempts, None
<1>11. EventInv'
  <2>1. \A e \in signaled' : FALSE
    <3>1. SUFFICES ASSUME NEW e \in signaled' PROVE FALSE
      OBVIOUS
    <3>2. e \in signaled /\ e \in Events
      BY <1>2 DEF TypeOK
    <3>3. e[1] # None /\ e[2] \in {"write", "error", "close"} /\ e = <<e[1], e[2]>>
      BY <3>2 DEF Events, Attempts, None
    <3>4. e[2] # "close" /\ e[1] = channel
      BY <1>3, <3>2, <3>3 DEF EventInv
    <3>5. e \in Selected(channel)
      BY <3>3, <3>4 DEF Selected
    <3> QED
      BY <1>2, <3>1, <3>3, <3>4, <3>5
  <2> QED
    BY <1>1, <2>1 DEF EventInv
<1> QED
  BY <1>1, <1>5, <1>6, <1>8, <1>9, <1>10, <1>11

\* TcpConnector::resetChannel: the channel is the one it was queued for.
LEMMA ResetStep ==
  ASSUME IInv, NEW f, Runs(f, <<>>), f.op = "reset", ResetChannel
  PROVE  IInv'
<1> USE DEF IInv
<1>1. /\ f \in Functors /\ Meant(f) /\ f = Waiting[1] /\ 1 \in 1..Len(Waiting)
      /\ batch' \in Seq(Functors) /\ queue' = queue /\ queue' \in Seq(Functors)
      /\ Orderly(Waiting') /\ Len(Waiting) \in Nat
      /\ \A i \in 1..Len(Waiting') : Waiting'[i] = Waiting[i + 1] /\ i + 1 \in 1..Len(Waiting)
      /\ \A k \in 1..Len(Waiting) : k # 1 => k - 1 \in 1..Len(Waiting') /\ Waiting'[k - 1] = Waiting[k]
      /\ expired = {} /\ expired' = {} /\ ready = {} /\ ready' = {}
      /\ PhaseInv'
  BY RunsAlone
<1>2. /\ chans' = chans \ {channel} /\ signaled' = signaled \ Selected(channel)
      /\ channel' = None /\ phase' = phase
      /\ UNCHANGED <<state, transferred, timeid, client, attempts, socket, clock, queue, wakeup, history>>
  BY DEF ResetChannel, Runs
<1>3. transferred /\ connection' = connection /\ connect' = connect /\ connected' = connected
  BY <1>1, <1>2 DEF Meant, client
<1>4. \A i \in 1..Len(Waiting') : Waiting'[i].op # "reset"
  <2>1. ASSUME NEW i \in 1..Len(Waiting') PROVE Waiting'[i].op # "reset"
    <3>1. i + 1 \in 1..Len(Waiting) /\ 1 < i + 1 /\ Waiting'[i] = Waiting[i + 1]
      BY <1>1
    <3>2. Waiting[i + 1].op # "reset"
      <4>1. Orderly(Waiting) /\ Waiting[1].op = "reset"
        BY <1>1 DEF QueueInv
      <4> QED
        BY <1>1, <3>1, <4>1 DEF Orderly
    <3> QED
      BY <3>1, <3>2
  <2> QED
    BY <2>1
<1>5. TypeOK'
  <2>1. channel' \in 0..MaxAttempts /\ chans' \subseteq Attempts /\ signaled' \subseteq Events
    BY <1>2, ClientConstants DEF TypeOK, None
  <2> QED
    BY <1>1, <1>2, <2>1 DEF TypeOK, client, clock, history
<1>6. QueueInv'
  <2>1. BatchInv'
    BY <1>2 DEF BatchInv, QueueInv
  <2>2. ASSUME NEW i \in 1..Len(Waiting') PROVE Meant(Waiting[i])'
    <3>1. i + 1 \in 1..Len(Waiting) /\ Waiting'[i] = Waiting[i + 1]
      BY <1>1
    <3>2. Meant(Waiting[i + 1])
      BY <3>1 DEF QueueInv
    <3> QED
      BY <1>3, <1>4, <3>1, <3>2 DEF Meant
  <2> QED
    BY <1>1, <1>2, <2>1, <2>2 DEF QueueInv
<1>7. QuietInv'
  <2>1. SUFFICES ASSUME ~connect' \/ \E i \in 1..Len(Waiting') : Waiting'[i].op = "start"
        PROVE  Quiet' \/ \E i \in 1..Len(Waiting') : Waiting'[i].op \in {"disconnect", "stop"}
    BY DEF QuietInv
  <2>2. ~connect \/ \E i \in 1..Len(Waiting) : Waiting[i].op = "start"
    BY <1>1, <1>3, <2>1
  <2>3. CASE Quiet
    BY <1>1, <1>2, <2>3 DEF Quiet, clock
  <2>4. CASE \E i \in 1..Len(Waiting) : Waiting[i].op \in {"disconnect", "stop"}
    <3>1. PICK i \in 1..Len(Waiting) : Waiting[i].op \in {"disconnect", "stop"}
      BY <2>4
    <3>2. i # 1
      BY <1>1, <3>1
    <3>3. i - 1 \in 1..Len(Waiting') /\ Waiting'[i - 1] = Waiting[i]
      BY <1>1, <3>2
    <3> QED
      BY <3>1, <3>3
  <2> QED
    BY <2>2, <2>3, <2>4 DEF QuietInv
<1>8. AttemptInv'
  BY <1>1, <1>2, <1>3 DEF AttemptInv, clock
<1>9. SocketInv'
  BY <1>2, <1>3 DEF SocketInv, Attempts, None
<1>10. EventInv'
  BY <1>1, <1>2, <1>3 DEF EventInv
<1> QED
  BY <1>1, <1>5, <1>6, <1>7, <1>8, <1>9, <1>10

\* RemoveConnection leaves the connector as it is and no event of a connection.
LEMMA RemoveRight ==
  ASSUME IInv, RemoveConnection
  PROVE  /\ connection' = None /\ connected' = {} /\ connect' = connect
         /\ socket' \in [Attempts -> {"none", "open", "closed"}] /\ signaled' \subseteq Events
         /\ SocketInv'
         /\ \A e \in signaled' : e \in signaled /\ e[2] # "close"
<1> USE DEF IInv
<1>1. /\ connected' = connected \ {connection}
      /\ socket' = [socket EXCEPT ![connection] = "closed"]
      /\ signaled' = signaled \ {<<connection, "close">>}
      /\ connection' = None
      /\ UNCHANGED <<connector, connect, attempts, chans, clock, history>>
  BY DEF RemoveConnection
<1>2. connected' = {}
  BY <1>1 DEF AttemptInv
<1>3. socket' \in [Attempts -> {"none", "open", "closed"}] /\ signaled' \subseteq Events
  BY <1>1 DEF TypeOK
<1>4. SocketInv'
  <2>1. channel' = channel /\ transferred' = transferred
    BY <1>1 DEF connector
  <2>2. connection # None => state = "connected" /\ ~(channel # None /\ ~transferred)
    BY DEF AttemptInv
  <2> QED
    BY <1>1, <2>1, <2>2 DEF SocketInv, TypeOK, Attempts, None
<1>5. ASSUME NEW e \in signaled' PROVE e \in signaled /\ e[2] # "close"
  <2>1. e \in signaled /\ e \in Events /\ e # <<connection, "close">>
    BY <1>1, <1>5 DEF TypeOK
  <2>2. e = <<e[1], e[2]>>
    BY <2>1 DEF Events
  <2>3. e[2] = "close" => e[1] = connection
    BY <2>1 DEF EventInv
  <2> QED
    BY <2>1, <2>2, <2>3
<1> QED
  BY <1>1, <1>2, <1>3, <1>4, <1>5

\* TcpConnection::close in the batch: the connection is the one it was queued for.
LEMMA CloseStep ==
  ASSUME IInv, NEW f, Runs(f, <<>>), f.op = "close", RemoveConnection,
         UNCHANGED <<queue, wakeup>>
  PROVE  IInv'
<1> USE DEF IInv
<1>1. /\ f \in Functors /\ Meant(f) /\ f = Waiting[1] /\ 1 \in 1..Len(Waiting)
      /\ batch' \in Seq(Functors) /\ queue' \in Seq(Functors)
      /\ Orderly(Waiting') /\ Len(Waiting) \in Nat
      /\ \A i \in 1..Len(Waiting') : Waiting'[i] = Waiting[i + 1] /\ i + 1 \in 1..Len(Waiting)
      /\ expired = {} /\ expired' = {} /\ ready = {} /\ ready' = {}
      /\ PhaseInv'
  BY RunsAlone
<1>2. UNCHANGED <<connector, connect, attempts, chans, clock, history, queue, wakeup>>
      /\ phase' = phase
  BY DEF RemoveConnection, Runs
<1>3. /\ connection' = None /\ connected' = {}
      /\ socket' \in [Attempts -> {"none", "open", "closed"}] /\ signaled' \subseteq Events
      /\ SocketInv'
      /\ \A e \in signaled' : e \in signaled /\ e[2] # "close"
  BY RemoveRight
<1>4. /\ \A i \in 1..Len(Waiting') : Waiting'[i].op = "start"
      /\ ~(channel # None /\ transferred)
  <2>1. Orderly(Waiting) /\ Waiting[1].op = "close"
    BY <1>1 DEF QueueInv
  <2>2. ASSUME NEW k \in 1..Len(Waiting), 1 < k PROVE Waiting[k].op = "start"
    BY <1>1, <2>1, <2>2 DEF Orderly
  <2>3. ASSUME NEW i \in 1..Len(Waiting') PROVE Waiting'[i].op = "start"
    <3>1. i + 1 \in 1..Len(Waiting) /\ 1 < i + 1 /\ Waiting'[i] = Waiting[i + 1]
      BY <1>1
    <3> QED
      BY <2>2, <3>1
  <2>4. \A k \in 1..Len(Waiting) : Waiting[k].op # "reset"
    <3>1. \A k \in 1..Len(Waiting) : k = 1 \/ 1 < k
      BY <1>1
    <3> QED
      BY <2>1, <2>2, <3>1
  <2>5. channel # None /\ transferred => \E k \in 1..Len(Waiting) : Waiting[k].op = "reset"
    BY DEF QueueInv, F
  <2> QED
    BY <2>3, <2>4, <2>5
<1>5. TypeOK'
  <2>1. connection' \in 0..MaxAttempts /\ connected' \subseteq Attempts
    BY <1>3, ClientConstants DEF None
  <2> QED
    BY <1>1, <1>2, <1>3, <2>1 DEF TypeOK, connector, clock, history
<1>6. QueueInv'
  <2>1. BatchInv'
    BY <1>2 DEF BatchInv, QueueInv
  <2>2. ASSUME NEW i \in 1..Len(Waiting') PROVE Meant(Waiting[i])'
    <3>1. i + 1 \in 1..Len(Waiting) /\ Waiting'[i] = Waiting[i + 1]
      BY <1>1
    <3>2. Meant(Waiting[i + 1])
      BY <3>1 DEF QueueInv
    <3> QED
      BY <1>2, <1>4, <3>1, <3>2 DEF Meant
  <2> QED
    BY <1>1, <1>2, <1>4, <2>1, <2>2 DEF QueueInv, connector
<1>7. connection # None /\ state = "connected" /\ timers = {} /\ expired = {}
  <2>1. connection # None
    BY <1>1 DEF Meant, Functors, Attempts, None
  <2> QED
    BY <2>1 DEF AttemptInv
<1>8. QuietInv'
  BY <1>1, <1>2, <1>7 DEF QuietInv, Quiet, connector, clock
<1>9. AttemptInv'
  BY <1>1, <1>2, <1>3, <1>7 DEF AttemptInv, connector, clock
<1>10. EventInv'
  BY <1>1, <1>2, <1>3 DEF EventInv, connector
<1> QED
  BY <1>1, <1>3, <1>5, <1>6, <1>8, <1>9, <1>10

\* What disconnectInLoop queues.
Ending == IF connection # None THEN F("close", connection) ELSE F("stop", None)

\* It finds what it is queued for.
LEMMA EndingRight ==
  ASSUME IInv
  PROVE  /\ Ending \in Functors /\ Ending.op \in {"stop", "close"} /\ Meant(Ending)
         /\ Ending.op = "stop" \/ Quiet
<1> USE DEF IInv
<1>1. CASE connection # None
  <2>1. Ending = F("close", connection) /\ connection \in Attempts
    BY <1>1 DEF Ending, TypeOK, Attempts, None
  <2>2. Quiet
    BY <1>1 DEF AttemptInv, Quiet
  <2> QED
    BY <2>1, <2>2 DEF F, Functors, Meant
<1>2. CASE connection = None
  <2>1. Ending = F("stop", None)
    BY <1>2 DEF Ending
  <2> QED
    BY <1>2, <2>1 DEF F, Functors, Meant
<1> QED
  BY <1>1, <1>2

\* A request becomes work: only the queue changes.
LEMMA WorkStep ==
  ASSUME IInv, NEW f, NEW s \in Seq(Functors), Runs(f, s), wakeup' = TRUE,
         f.op \in {"reconnect", "disconnect"},
         Len(s) \in {1, 2}, s[1] = Ending, Len(s) = 2 => s[2] = F("start", None),
         Len(s) = 2 => connect,
         UNCHANGED <<connector, client, system, clock, history>>
  PROVE  IInv'
<1> USE DEF IInv
<1>1. /\ f \in Functors /\ Meant(f) /\ Waiting # <<>> /\ f = Waiting[1] /\ 1 \in 1..Len(Waiting)
      /\ batch' \in Seq(Functors) /\ queue' \in Seq(Functors)
      /\ Waiting' = Tail(Waiting) \o s
      /\ Len(Waiting) \in Nat \ {0} /\ Len(s) \in Nat /\ Len(Waiting') = Len(Waiting) - 1 + Len(s)
      /\ \A i \in 1..(Len(Waiting) - 1) : Waiting'[i] = Waiting[i + 1] /\ i + 1 \in 1..Len(Waiting)
      /\ \A i \in 1..Len(s) : Waiting'[Len(Waiting) - 1 + i] = s[i]
      /\ \A k \in 1..Len(Waiting) : k # 1 => k - 1 \in 1..Len(Waiting') /\ Waiting'[k - 1] = Waiting[k]
      /\ expired = {} /\ expired' = {} /\ ready = {} /\ ready' = {}
      /\ PhaseInv'
  BY RunsRight
<1>2. Ending.op \in {"stop", "close"} /\ Meant(Ending) /\ (Ending.op = "stop" \/ Quiet)
  BY EndingRight
<1>3. Waiting \in Seq(Functors) /\ Orderly(Waiting)
  BY WaitingTyped DEF QueueInv
<1>4. TypeOK'
  BY <1>1 DEF TypeOK, Runs, connector, client, system, clock, history
<1>5. Orderly(Waiting')
  <2>1. s[1].op \in {"stop", "close"} /\ (Len(s) = 2 => s[2].op = "start")
    BY <1>2 DEF F
  <2>2. Waiting[1].op \in {"reconnect", "disconnect"}
    BY <1>1
  <2> QED
    BY <1>1, <1>3, <2>1, <2>2, OrderlyWork
<1>6. ASSUME NEW i \in 1..Len(Waiting') PROVE Meant(Waiting[i])'
  <2>1. UNCHANGED <<channel, transferred, connection, connect>>
    BY DEF connector, client
  <2>2. CASE i \in 1..(Len(Waiting) - 1)
    <3>1. i + 1 \in 1..Len(Waiting) /\ Waiting'[i] = Waiting[i + 1]
      BY <1>1, <2>2
    <3>2. Meant(Waiting[i + 1])
      BY <3>1 DEF QueueInv
    <3> QED
      BY <2>1, <3>1, <3>2 DEF Meant
  <2>3. CASE i \notin 1..(Len(Waiting) - 1)
    <3> DEFINE j == i - (Len(Waiting) - 1)
    <3>1. j \in 1..Len(s) /\ Len(Waiting) - 1 + j = i
      BY <1>1, <2>3
    <3>2. Waiting'[i] = s[j] /\ (j = 1 \/ (j = 2 /\ Len(s) = 2))
      BY <1>1, <3>1
    <3> HIDE DEF j
    <3>3. Meant(s[j])
      <4>1. CASE j = 1
        BY <1>2, <4>1
      <4>2. CASE j = 2 /\ Len(s) = 2
        BY <4>2 DEF Meant, F
      <4> QED
        BY <3>2, <4>1, <4>2
    <3> QED
      BY <2>1, <3>2, <3>3 DEF Meant
  <2> QED
    BY <2>2, <2>3
<1>7. BatchInv'
  BY DEF BatchInv, Runs
<1>8. channel' # None /\ transferred' =>
          \E i \in 1..Len(Waiting') : Waiting'[i] = F("reset", channel')
  <2>1. SUFFICES ASSUME channel # None, transferred
                 PROVE  \E i \in 1..Len(Waiting') : Waiting'[i] = F("reset", channel)
    BY DEF connector
  <2>2. PICK i \in 1..Len(Waiting) : Waiting[i] = F("reset", channel)
    BY <2>1 DEF QueueInv
  <2>3. i # 1
    BY <1>1, <2>2 DEF F
  <2> QED
    BY <1>1, <2>2, <2>3
<1>9. QueueInv'
  BY <1>5, <1>6, <1>7, <1>8 DEF QueueInv
<1>10. QuietInv'
  <2>1. CASE Ending.op = "stop"
    <3>1. Len(Waiting) \in 1..Len(Waiting') /\ Waiting'[Len(Waiting)] = Ending
      <4>1. 1 \in 1..Len(s) /\ Len(Waiting) - 1 + 1 = Len(Waiting)
            /\ Len(Waiting) \in 1..(Len(Waiting) - 1 + Len(s))
        BY <1>1
      <4> QED
        BY <1>1, <4>1
    <3> QED
      BY <2>1, <3>1 DEF QuietInv
  <2>2. CASE Quiet
    BY <1>1, <2>2 DEF QuietInv, Quiet, connector, clock
  <2> QED
    BY <1>2, <2>1, <2>2
<1>11. AttemptInv'
  BY <1>1, AttemptKept DEF AttemptInv, client, system, clock
<1>12. SocketInv' /\ EventInv'
  BY <1>1, SocketKept, EventKept DEF EventInv, connector, client, system
<1> QED
  BY <1>1, <1>4, <1>9, <1>10, <1>11, <1>12

\* The functor at the head of the batch.
LEMMA RunFunctorStep ==
  ASSUME IInv, RunFunctor
  PROVE  IInv'
<1> DEFINE f == Head(batch)
<1>1. /\ phase = "batch" /\ batch # <<>> /\ batch' = Tail(batch)
      /\ UNCHANGED <<phase, expired, ready>>
      /\ Execute(f)
  BY DEF RunFunctor
<1>2. queue \in Seq(Functors) /\ batch \in Seq(Functors) /\ Waiting \in Seq(Functors)
  BY WaitingTyped DEF IInv
<1>3. ASSUME queue' = queue PROVE Runs(f, <<>>)
  <2>1. queue \o <<>> = queue
    BY <1>2, ConcatEmptySeq
  <2> QED
    BY <1>1, <1>3, <2>1 DEF Runs
<1>4. ASSUME NEW s, queue' = queue \o s PROVE Runs(f, s)
  BY <1>1, <1>4 DEF Runs
<1>5. Ending \in Functors /\ F("start", None) \in Functors
  BY EndingRight DEF F, Functors
<1> HIDE DEF f
<1>6. CASE f.op = "start" /\ StartInLoop
  BY <1>3, <1>6, StartStep DEF StartInLoop
<1>7. CASE f.op = "stop" /\ StopInLoop
  BY <1>3, <1>7, StopStep DEF StopInLoop
<1>8. CASE f.op = "reset" /\ ResetChannel
  BY <1>3, <1>8, ResetStep DEF ResetChannel
<1>9. CASE f.op = "close" /\ RemoveConnection /\ UNCHANGED <<queue, wakeup>>
  BY <1>3, <1>9, CloseStep
<1>10. CASE f.op = "disconnect" /\ DisconnectInLoop /\ UNCHANGED <<client, history>>
  <2> DEFINE s == <<Ending>>
  <2>1. s \in Seq(Functors) /\ Len(s) = 1 /\ s[1] = Ending
    BY <1>5
  <2>2. queue' = queue \o s /\ wakeup' = TRUE /\ UNCHANGED <<connector, system, clock>>
    BY <1>2, <1>5, <1>10, AppendIsConcat DEF DisconnectInLoop, Queue, Ending
  <2>3. Runs(f, s)
    BY <1>4, <2>2
  <2> HIDE DEF s
  <2> QED
    BY <1>10, <2>1, <2>2, <2>3, WorkStep
<1>11. CASE f.op = "reconnect" /\ ReconnectInLoop /\ UNCHANGED <<client, history>>
  <2> DEFINE s == <<Ending, F("start", None)>>
  <2>1. s \in Seq(Functors) /\ Len(s) = 2 /\ s[1] = Ending /\ s[2] = F("start", None)
    BY <1>5
  <2>2. queue' = queue \o s /\ wakeup' = TRUE /\ UNCHANGED <<connector, system, clock>>
    BY <1>11 DEF ReconnectInLoop, Ending
  <2>3. Runs(f, s)
    BY <1>4, <2>2
  <2> HIDE DEF s
  <2>4. Meant(f)
    BY <2>1, <2>3, RunsRight
  <2>5. connect
    BY <1>11, <2>4 DEF Meant
  <2> QED
    BY <1>11, <2>1, <2>2, <2>3, <2>5, WorkStep
<1> QED
  BY <1>1, <1>6, <1>7, <1>8, <1>9, <1>10, <1>11 DEF Execute

-----------------------------------------------------------------------------
(* Handlers.                                                                *)

\* While handlers run, no stop or close waits.
LEMMA NoWork ==
  ASSUME IInv, phase = "dispatch"
  PROVE  /\ batch = <<>> /\ Waiting = queue
         /\ \A i \in 1..Len(Waiting) : Waiting[i].op \notin {"stop", "close"}
<1>1. batch = <<>>
  BY DEF IInv, PhaseInv
<1>2. Waiting = queue
  BY <1>1, WaitingTyped, ConcatEmptySeq DEF IInv, Waiting
<1>3. BatchInv
  BY DEF IInv, QueueInv
<1> QED
  BY <1>1, <1>2, <1>3 DEF BatchInv

\* An event of the connector's channel is handled while requests wait at most: nobody
\* has asked for a new start.
LEMMA ConnectingRight ==
  ASSUME IInv, phase = "dispatch", NEW a \in Attempts, NEW x \in {"write", "error"},
         <<a, x>> \in ready
  PROVE  /\ a = channel /\ channel \in Attempts /\ channel # None /\ ~transferred
         /\ state = "connecting" /\ connection = None
         /\ \A e \in signaled \cup ready : e = <<a, x>>
         /\ \A i \in 1..Len(Waiting) : Waiting[i].op \in {"reconnect", "disconnect"}
<1> USE DEF IInv
<1>1. <<a, x>>[1] = a /\ <<a, x>>[2] # "close" /\ a # None
  BY DEF Attempts, None
<1>2. a = channel /\ ~transferred
  BY <1>1 DEF EventInv
<1>3. state = "connecting" /\ connection = None
  BY <1>1, <1>2 DEF AttemptInv
<1>4. ASSUME NEW e \in signaled \cup ready PROVE e = <<a, x>>
  <2>1. e \in Events /\ e[1] # None
    BY <1>4 DEF TypeOK, Events, Attempts, None
  <2>2. e[2] # "close"
    BY <1>3, <1>4, <2>1 DEF EventInv
  <2> QED
    BY <1>1, <1>4, <2>2 DEF EventInv
<1>5. ASSUME NEW i \in 1..Len(Waiting) PROVE Waiting[i].op \in {"reconnect", "disconnect"}
  <2>1. Waiting[i] \in Functors
    BY <1>5, WaitingTyped
  <2>2. Waiting[i].op \notin {"stop", "close"}
    BY <1>5, NoWork
  <2>3. Waiting[i].op # "reset"
    BY <1>2 DEF QueueInv, Meant
  <2>4. Waiting[i].op # "start"
    <3>1. SUFFICES ASSUME Waiting[i].op = "start" PROVE FALSE
      OBVIOUS
    <3>2. PICK k \in 1..Len(Waiting) : Waiting[k].op \in {"disconnect", "stop"}
      BY <1>3, <3>1 DEF QuietInv, Quiet
    <3>3. Waiting[k].op = "disconnect" /\ k # i
      BY <3>1, <3>2, NoWork
    <3>4. Orderly(Waiting) /\ Len(Waiting) \in Nat
      BY WaitingTyped DEF QueueInv
    <3>5. CASE k < i
      BY <3>1, <3>3, <3>4, <3>5 DEF Orderly
    <3>6. CASE i < k
      BY <3>1, <3>3, <3>4, <3>6 DEF Orderly
    <3> QED
      BY <3>3, <3>4, <3>5, <3>6
  <2> QED
    BY <2>1, <2>2, <2>3, <2>4 DEF Functors
<1> QED
  BY <1>1, <1>2, <1>3, <1>4, <1>5

\* removeAndResetChannel: the reset waits behind the requests.
LEMMA ResetQueued ==
  ASSUME IInv, phase = "dispatch", NEW a \in Attempts, NEW x \in {"write", "error"},
         <<a, x>> \in ready, RemoveAndResetChannel, ready' = ready \ {<<a, x>>},
         UNCHANGED <<channel, connect, phase, batch, expired>>
  PROVE  /\ batch' \in Seq(Functors) /\ queue' \in Seq(Functors) /\ wakeup' = TRUE
         /\ Len(Waiting) \in Nat /\ Len(Waiting') = Len(Waiting) + 1
         /\ Waiting'[Len(Waiting) + 1].op = "reset"
         /\ \A i \in 1..Len(Waiting) : Waiting'[i] = Waiting[i]
         /\ QueueInv' /\ PhaseInv' /\ signaled' = {} /\ ready' = {}
<1> DEFINE f == F("reset", channel)
<1>1. /\ a = channel /\ channel \in Attempts /\ ~transferred
      /\ \A e \in signaled \cup ready : e = <<a, x>>
      /\ \A i \in 1..Len(Waiting) : Waiting[i].op \in {"reconnect", "disconnect"}
  BY ConnectingRight
<1>2. /\ signaled' = signaled \ Selected(channel) /\ transferred' = TRUE
      /\ queue' = Append(queue, f) /\ wakeup' = TRUE
  BY DEF RemoveAndResetChannel, Queue
<1>3. f \in Functors /\ f.op = "reset" /\ f.attempt = channel
  BY <1>1 DEF F, Functors
<1>4. batch \in Seq(Functors) /\ queue \in Seq(Functors) /\ Waiting \in Seq(Functors)
      /\ Len(Waiting) \in Nat /\ Orderly(Waiting) /\ TypeOK
  BY WaitingTyped DEF IInv, QueueInv
<1>5. f = F("reset", channel)
  OBVIOUS
<1> HIDE DEF f
<1>6. Waiting' = Append(Waiting, f)
  BY <1>2, <1>3, <1>4, AppendWaits
<1>7. /\ Len(Waiting') = Len(Waiting) + 1 /\ Waiting'[Len(Waiting) + 1] = f
      /\ \A i \in 1..Len(Waiting) : Waiting'[i] = Waiting[i]
  BY <1>3, <1>4, <1>6, AppendProperties
<1>8. Orderly(Waiting')
  BY <1>1, <1>3, <1>4, <1>6, OrderlyReset
<1>9. ASSUME NEW i \in 1..Len(Waiting') PROVE Meant(Waiting[i])'
  <2>1. CASE i \in 1..Len(Waiting)
    <3>1. Waiting'[i] = Waiting[i] /\ Meant(Waiting[i])
      BY <1>7, <2>1 DEF IInv, QueueInv
    <3> QED
      BY <1>1, <2>1, <3>1 DEF Meant
  <2>2. CASE i \notin 1..Len(Waiting)
    <3>1. Waiting'[i] = f
      BY <1>4, <1>7, <1>9, <2>2
    <3> QED
      BY <1>2, <1>3, <3>1 DEF Meant
  <2> QED
    BY <2>1, <2>2
<1>10. BatchInv'
  <2>1. \A i \in 1..Len(Waiting') : Waiting'[i].op \notin {"stop", "close"}
    BY <1>1, <1>3, <1>4, <1>7
  <2>2. queue' \in Seq(Functors) /\ batch' = <<>>
    BY <1>2, <1>3, <1>4, NoWork, AppendProperties
  <2>3. Waiting' = queue'
    BY <2>2, ConcatEmptySeq DEF Waiting
  <2> QED
    BY <2>1, <2>3 DEF BatchInv
<1>11. QueueInv'
  <2>1. Len(Waiting) + 1 \in 1..Len(Waiting')
    BY <1>4, <1>7
  <2> QED
    BY <1>5, <1>7, <1>8, <1>9, <1>10, <2>1 DEF QueueInv
<1>12. signaled' = {} /\ ready' = {}
  BY <1>1, <1>2 DEF Selected
<1>13. PhaseInv'
  BY DEF IInv, PhaseInv
<1>14. batch' \in Seq(Functors) /\ queue' \in Seq(Functors)
  BY <1>2, <1>3, <1>4, AppendProperties
<1> QED
  BY <1>2, <1>3, <1>4, <1>7, <1>11, <1>12, <1>13, <1>14

\* TcpConnector::handleWrite: the socket goes to a new connection.
LEMMA HandleWriteStep ==
  ASSUME IInv, phase = "dispatch", expired = {}, NEW a \in Attempts, HandleWrite(a)
  PROVE  IInv'
<1> USE DEF IInv
<1>1. /\ <<a, "write">> \in ready /\ RemoveAndResetChannel
      /\ state' = "connected" /\ connection' = channel /\ connected' = connected \cup {channel}
      /\ timers' = timers \ {timeid} /\ due' = due \ {timeid} /\ timeid' = None
      /\ ready' = ready \ {<<a, "write">>} /\ transferred' = TRUE
      /\ UNCHANGED <<channel, connect, attempts, socket, chans, phase, expired, batch, history>>
  BY DEF HandleWrite, CancelCheckTimeout, RemoveAndResetChannel
<1>2. /\ a = channel /\ channel \in Attempts /\ channel # None /\ ~transferred
      /\ state = "connecting" /\ connection = None
  BY <1>1, ConnectingRight
<1>3. /\ batch' \in Seq(Functors) /\ queue' \in Seq(Functors) /\ wakeup' = TRUE
      /\ QueueInv' /\ PhaseInv' /\ signaled' = {} /\ ready' = {}
  BY <1>1, ResetQueued
<1>4. timers' = {} /\ expired' = {} /\ connected' = {channel}
  BY <1>1, <1>2 DEF AttemptInv
<1>5. TypeOK'
  <2>1. timeid' \in 0..MaxAttempts /\ connection' \in 0..MaxAttempts /\ due' \subseteq timers'
        /\ connected' \subseteq Attempts
    BY <1>1, <1>2, <1>4, ClientConstants DEF TypeOK, None, Attempts
  <2> QED
    BY <1>1, <1>3, <1>4, <2>1 DEF TypeOK, history
<1>6. QuietInv'
  BY <1>1, <1>4 DEF QuietInv, Quiet
<1>7. AttemptInv'
  BY <1>1, <1>2, <1>4 DEF AttemptInv
<1>8. SocketInv'
  BY <1>1, <1>2 DEF SocketInv, Attempts, None
<1>9. EventInv'
  BY <1>3 DEF EventInv
<1> QED
  BY <1>3, <1>5, <1>6, <1>7, <1>8, <1>9

\* TcpConnector::handleError: the attempt ends, its timer runs on.
LEMMA HandleErrorStep ==
  ASSUME IInv, phase = "dispatch", NEW a \in Attempts, HandleError(a)
  PROVE  IInv'
<1> USE DEF IInv
<1>1. /\ <<a, "error">> \in ready /\ RemoveAndResetChannel
      /\ state' = "disconnected" /\ socket' = [socket EXCEPT ![channel] = "closed"]
      /\ ready' = ready \ {<<a, "error">>} /\ transferred' = TRUE
      /\ UNCHANGED <<channel, timeid, client, attempts, chans, clock, phase, expired, batch, history>>
  BY DEF HandleError, RemoveAndResetChannel
<1>2. /\ a = channel /\ channel \in Attempts /\ channel # None /\ ~transferred
      /\ state = "connecting" /\ connection = None
      /\ \A i \in 1..Len(Waiting) : Waiting[i].op \in {"reconnect", "disconnect"}
  BY <1>1, ConnectingRight
<1>3. /\ batch' \in Seq(Functors) /\ queue' \in Seq(Functors) /\ wakeup' = TRUE
      /\ Len(Waiting) \in Nat /\ Len(Waiting') = Len(Waiting) + 1
      /\ Waiting'[Len(Waiting) + 1].op = "reset"
      /\ \A i \in 1..Len(Waiting) : Waiting'[i] = Waiting[i]
      /\ QueueInv' /\ PhaseInv' /\ signaled' = {} /\ ready' = {}
  BY <1>1, ResetQueued DEF client
<1>4. TypeOK'
  <2>1. socket' \in [Attempts -> {"none", "open", "closed"}]
    BY <1>1 DEF TypeOK
  <2> QED
    BY <1>1, <1>3, <2>1 DEF TypeOK, client, clock, history
<1>5. QuietInv'
  <2>1. SUFFICES ASSUME ~connect' \/ \E i \in 1..Len(Waiting') : Waiting'[i].op = "start"
        PROVE  \E i \in 1..Len(Waiting') : Waiting'[i].op \in {"disconnect", "stop"}
    BY DEF QuietInv
  <2>2. ASSUME NEW i \in 1..Len(Waiting') PROVE Waiting'[i].op # "start"
    <3>1. i \in 1..Len(Waiting) \/ i = Len(Waiting) + 1
      BY <1>3, <2>2
    <3> QED
      BY <1>2, <1>3, <3>1
  <2>3. ~connect
    BY <1>1, <2>1, <2>2 DEF client
  <2>4. PICK k \in 1..Len(Waiting) : Waiting[k].op \in {"disconnect", "stop"}
    BY <1>2, <2>3 DEF QuietInv, Quiet
  <2>5. k \in 1..Len(Waiting') /\ Waiting'[k] = Waiting[k]
    BY <1>3
  <2> QED
    BY <2>4, <2>5
<1>6. AttemptInv'
  BY <1>1, <1>2 DEF AttemptInv, client, clock
<1>7. SocketInv'
  BY <1>1, <1>2 DEF SocketInv, TypeOK, Attempts, None, client
<1>8. EventInv'
  BY <1>3 DEF EventInv
<1> QED
  BY <1>3, <1>4, <1>5, <1>6, <1>7, <1>8

\* TcpConnection::handleClose: the current connection is deleted.
LEMMA HandleCloseStep ==
  ASSUME IInv, phase = "dispatch", NEW a \in Attempts, HandleClose(a)
  PROVE  IInv'
<1> USE DEF IInv
<1>1. /\ <<a, "close">> \in ready /\ RemoveConnection
      /\ ready' = ready \ {<<a, "close">>}
      /\ UNCHANGED <<phase, expired, wakeup, queue, batch>>
      /\ UNCHANGED <<connector, connect, attempts, chans, clock, history>>
  BY DEF HandleClose, RemoveConnection
<1>2. a = connection /\ connection # None
  <2>1. <<a, "close">>[1] = a /\ <<a, "close">>[2] = "close"
    OBVIOUS
  <2> QED
    BY <1>1, <2>1 DEF EventInv, Attempts, None
<1>3. /\ connection' = None /\ connected' = {}
      /\ socket' \in [Attempts -> {"none", "open", "closed"}] /\ signaled' \subseteq Events
      /\ SocketInv'
      /\ \A e \in signaled' : e \in signaled /\ e[2] # "close"
  BY <1>1, RemoveRight
<1>4. Waiting' = Waiting
  BY <1>1 DEF Waiting
<1>5. TypeOK'
  <2>1. connection' \in 0..MaxAttempts /\ connected' \subseteq Attempts
    BY <1>3, ClientConstants DEF None
  <2> QED
    BY <1>1, <1>3, <2>1 DEF TypeOK, connector, clock, history
<1>6. PhaseInv'
  BY <1>1 DEF PhaseInv
<1>7. QueueInv'
  <2>1. BatchInv'
    BY <1>1 DEF BatchInv, QueueInv
  <2>2. ASSUME NEW i \in 1..Len(Waiting') PROVE Meant(Waiting[i])'
    <3>1. Meant(Waiting[i]) /\ Waiting[i].op \notin {"stop", "close"} /\ Waiting'[i] = Waiting[i]
      BY <1>4, <2>2, NoWork DEF QueueInv
    <3> QED
      BY <1>1, <3>1 DEF Meant, connector
  <2>3. Orderly(Waiting') /\ channel' = channel /\ transferred' = transferred
    BY <1>1, <1>4 DEF QueueInv, connector
  <2> QED
    BY <1>4, <2>1, <2>2, <2>3 DEF QueueInv
<1>8. Quiet /\ state = "connected"
  BY <1>2 DEF AttemptInv, Quiet
<1>9. Quiet'
  BY <1>1, <1>8 DEF Quiet, connector, clock
<1>10. QuietInv'
  BY <1>9 DEF QuietInv
<1>11. AttemptInv'
  BY <1>1, <1>3 DEF AttemptInv, connector, clock
<1>12. EventInv'
  <2>1. ASSUME NEW e \in ready' PROVE e \in ready /\ e[2] # "close"
    <3>1. e \in ready /\ e \in Events /\ e # <<a, "close">>
      BY <1>1, <2>1 DEF TypeOK
    <3>2. e = <<e[1], e[2]>>
      BY <3>1 DEF Events
    <3>3. e[2] = "close" => e[1] = a
      BY <1>2, <3>1 DEF EventInv
    <3> QED
      BY <3>1, <3>2, <3>3
  <2>2. channel' = channel /\ transferred' = transferred
    BY <1>1 DEF connector
  <2> QED
    BY <1>3, <2>1, <2>2 DEF EventInv
<1> QED
  BY <1>3, <1>5, <1>6, <1>7, <1>10, <1>11, <1>12

\* TcpConnector::checkTimeoutInLoop: the attempt goes on.
LEMMA CheckTimeoutStep ==
  ASSUME IInv, phase = "dispatch", NEW a \in Attempts, CheckTimeout(a)
  PROVE  IInv'
<1> USE DEF IInv
<1>1. /\ a \in expired /\ expired' = expired \ {a} /\ timeid' = None
      /\ told' = IF Overdue THEN told \cup {a} ELSE told
      /\ UNCHANGED <<state, channel, transferred, client, system, clock, phase, ready, wakeup, queue,
                     batch, requests>>
  BY DEF CheckTimeout
<1>2. timers = {} /\ expired = {a} /\ expired' = {}
  BY <1>1 DEF AttemptInv
<1>3. Waiting' = Waiting
  BY <1>1 DEF Waiting
<1>4. TypeOK'
  <2>1. timeid' \in 0..MaxAttempts /\ told' \subseteq Attempts
    BY <1>1, ClientConstants DEF TypeOK, None
  <2> QED
    BY <1>1, <1>2, <2>1 DEF TypeOK, client, system, clock
<1>5. PhaseInv'
  BY <1>1 DEF PhaseInv
<1>6. BatchInv'
  BY <1>1 DEF BatchInv, QueueInv
<1>7. QueueInv'
  BY <1>1, <1>3, <1>6, QueueKept DEF client
<1>8. QuietInv'
  BY <1>1, <1>2, <1>3, QuietKept DEF client, clock, Quiet
<1>9. AttemptInv'
  BY <1>1, <1>2 DEF AttemptInv, client, system, clock
<1>10. SocketInv' /\ EventInv'
  BY <1>1, SocketKept, EventKept DEF EventInv, client, system
<1> QED
  BY <1>4, <1>5, <1>7, <1>8, <1>9, <1>10

-----------------------------------------------------------------------------
(* Users.                                                                   *)

\* A patient user asks while nothing but a reset waits.
LEMMA AskStep ==
  ASSUME IInv, Patient, NEW f \in Functors, f.op \in {"start", "reconnect", "disconnect"}, Ask(f),
         connect' \in BOOLEAN, wakeup' \in BOOLEAN, wakeup => wakeup',
         f.op = "start" => ~connect,
         connect' <=> f.op # "disconnect"
  PROVE  IInv'
<1> USE DEF IInv
<1>1. /\ \A i \in 1..Len(Waiting) : Waiting[i].op = "reset"
      /\ queue' = Append(queue, f) /\ requests < MaxRequests /\ requests' = requests + 1
      /\ UNCHANGED <<connector, connection, connected, system, clock, phase, expired, ready,
                     batch, told>>
  BY WaitingTyped DEF Ask
<1>2. batch \in Seq(Functors) /\ queue \in Seq(Functors) /\ Waiting \in Seq(Functors)
      /\ Len(Waiting) \in Nat /\ Orderly(Waiting)
  BY WaitingTyped DEF QueueInv
<1>3. Waiting' = Append(Waiting, f)
  BY <1>1, AppendWaits
<1>4. /\ Len(Waiting') = Len(Waiting) + 1 /\ Waiting'[Len(Waiting) + 1] = f
      /\ \A i \in 1..Len(Waiting) : Waiting'[i] = Waiting[i]
  BY <1>2, <1>3, AppendProperties
<1>5. TypeOK'
  <2>1. queue' \in Seq(Functors)
    BY <1>1, <1>2, AppendProperties
  <2>2. requests' \in 0..MaxRequests
    BY <1>1, ClientConstants DEF TypeOK
  <2> QED
    BY <1>1, <2>1, <2>2 DEF TypeOK, connector, system, clock
<1>6. PhaseInv'
  BY <1>1 DEF PhaseInv
<1>7. QueueInv'
  <2>1. Orderly(Waiting')
    BY <1>1, <1>2, <1>3, OrderlyAsk
  <2>2. ASSUME NEW i \in 1..Len(Waiting') PROVE Meant(Waiting[i])'
    <3>1. CASE i \in 1..Len(Waiting)
      <4>1. Waiting'[i] = Waiting[i] /\ Waiting[i].op = "reset" /\ Meant(Waiting[i])
        BY <1>1, <1>4, <3>1 DEF QueueInv
      <4> QED
        BY <1>1, <4>1 DEF Meant, connector
    <3>2. CASE i \notin 1..Len(Waiting)
      <4>1. Waiting'[i] = f
        BY <1>2, <1>4, <2>2, <3>2
      <4> QED
        BY <4>1 DEF Meant
    <3> QED
      BY <3>1, <3>2
  <2>3. BatchInv'
    <3>1. \A i \in 1..Len(queue') : queue'[i] = f \/ \E j \in 1..Len(queue) : queue'[i] = queue[j]
      <4>1. /\ Len(queue) \in Nat /\ Len(queue') = Len(queue) + 1 /\ queue'[Len(queue) + 1] = f
            /\ \A i \in 1..Len(queue) : queue'[i] = queue[i]
        BY <1>1, <1>2, AppendProperties, LenProperties
      <4> QED
        BY <4>1
    <3> QED
      BY <1>1, <3>1 DEF BatchInv, QueueInv
  <2>4. channel' # None /\ transferred' =>
            \E i \in 1..Len(Waiting') : Waiting'[i] = F("reset", channel')
    BY <1>1, <1>2, <1>4 DEF QueueInv, connector
  <2> QED
    BY <2>1, <2>2, <2>3, <2>4 DEF QueueInv
<1>8. QuietInv'
  <2>1. CASE f.op = "disconnect"
    <3>1. Len(Waiting) + 1 \in 1..Len(Waiting')
      BY <1>2, <1>4
    <3> QED
      BY <1>4, <2>1, <3>1 DEF QuietInv
  <2>2. CASE f.op = "reconnect"
    <3>1. ASSUME NEW i \in 1..Len(Waiting') PROVE Waiting'[i].op # "start"
      <4>1. i \in 1..Len(Waiting) \/ i = Len(Waiting) + 1
        BY <1>2, <1>4, <3>1
      <4> QED
        BY <1>1, <1>4, <2>2, <4>1
    <3> QED
      BY <2>2, <3>1 DEF QuietInv
  <2>3. CASE f.op = "start"
    <3>1. Quiet
      BY <1>1, <2>3 DEF QuietInv
    <3> QED
      BY <1>1, <3>1 DEF QuietInv, Quiet, connector, clock
  <2> QED
    BY <2>1, <2>2, <2>3
<1>9. AttemptInv'
  BY <1>1, AttemptKept DEF AttemptInv, system, clock
<1>10. SocketInv' /\ EventInv'
  BY <1>1, SocketKept, EventKept DEF EventInv, connector, system
<1> QED
  BY <1>5, <1>6, <1>7, <1>8, <1>9, <1>10

\* The loop stays woken.
LEMMA SomeThreadRight ==
  ASSUME IInv, SomeThread
  PROVE  wakeup' \in BOOLEAN /\ (wakeup => wakeup')
<1>1. wakeup \in BOOLEAN
  BY DEF IInv, TypeOK
<1>2. wakeup' = wakeup \/ wakeup' = TRUE
  BY DEF SomeThread
<1> QED
  BY <1>1, <1>2, Zenon

\* TcpClient::connect.
LEMMA ConnectStep ==
  ASSUME IInv, Patient, Connect
  PROVE  IInv'
<1>1. F("reconnect", None) \in Functors /\ F("start", None) \in Functors
  BY DEF F, Functors
<1>2. wakeup \in BOOLEAN
  BY DEF IInv, TypeOK
<1>3. CASE connect /\ connect' = TRUE /\ Ask(F("reconnect", None)) /\ SomeThread
  <2> DEFINE f == F("reconnect", None)
  <2>1. f \in Functors /\ f.op = "reconnect" /\ Ask(f)
    BY <1>1, <1>3 DEF F
  <2>2. connect' \in BOOLEAN /\ connect' /\ wakeup' \in BOOLEAN /\ (wakeup => wakeup')
    BY <1>3, SomeThreadRight
  <2> HIDE DEF f
  <2> QED
    BY <2>1, <2>2, AskStep
<1>4. CASE ~connect /\ connect' = TRUE /\ Ask(F("start", None)) /\ LoopThread
  <2> DEFINE f == F("start", None)
  <2>1. f \in Functors /\ f.op = "start" /\ Ask(f)
    BY <1>1, <1>4 DEF F
  <2>2. connect' \in BOOLEAN /\ connect' /\ wakeup' \in BOOLEAN /\ (wakeup => wakeup')
    BY <1>2, <1>4 DEF LoopThread
  <2> HIDE DEF f
  <2> QED
    BY <1>4, <2>1, <2>2, AskStep
<1> QED
  BY <1>3, <1>4 DEF Connect

\* TcpClient::disconnect.
LEMMA DisconnectStep ==
  ASSUME IInv, Patient, Disconnect
  PROVE  IInv'
<1>1. F("disconnect", None) \in Functors
  BY DEF F, Functors
<1> DEFINE f == F("disconnect", None)
<1>2. f \in Functors /\ f.op = "disconnect" /\ Ask(f)
  BY <1>1 DEF Disconnect, F
<1>3. connect' \in BOOLEAN /\ ~connect' /\ wakeup' \in BOOLEAN /\ (wakeup => wakeup')
  BY SomeThreadRight DEF Disconnect
<1> HIDE DEF f
<1> QED
  BY <1>2, <1>3, AskStep

-----------------------------------------------------------------------------
(* The theorems.                                                            *)

\* A new client satisfies the invariant.
LEMMA InvariantInit == Init => IInv
<1> SUFFICES ASSUME Init PROVE IInv
  OBVIOUS
<1>1. <<>> \in Seq(Functors) /\ Len(<<>>) = 0
  BY EmptySeq
<1>2. TypeOK
  <2>1. None \in 0..MaxAttempts /\ 0 \in 0..MaxAttempts /\ 0 \in 0..MaxRequests
    BY ClientConstants DEF None
  <2>2. [a \in Attempts |-> "none"] \in [Attempts -> {"none", "open", "closed"}]
    OBVIOUS
  <2> QED
    BY <1>1, <2>1, <2>2 DEF Init, TypeOK
<1>3. Waiting = <<>> /\ queue = <<>>
  BY <1>1, ConcatEmptySeq DEF Init, Waiting
<1>4. QueueInv
  BY <1>1, <1>3 DEF Init, QueueInv, BatchInv, Orderly
<1>5. QuietInv
  BY DEF Init, QuietInv, Quiet
<1>6. PhaseInv /\ AttemptInv /\ EventInv
  BY DEF Init, PhaseInv, AttemptInv, EventInv
<1>7. SocketInv
  BY DEF Init, SocketInv, Attempts, None
<1> QED
  BY <1>2, <1>4, <1>5, <1>6, <1>7 DEF IInv

\* Every step of a client of patient users keeps it.
LEMMA InvariantStep == Patient /\ IInv /\ [Next]_vars => IInv'
<1> SUFFICES ASSUME Patient, IInv, [Next]_vars PROVE IInv'
  OBVIOUS
<1>1. CASE PollWakeup                     BY <1>1, PollWakeupStep
<1>2. CASE PollEvents                     BY <1>2, PollEventsStep
<1>3. CASE DispatchDone                   BY <1>3, DispatchDoneStep
<1>4. CASE BatchDone                      BY <1>4, BatchDoneStep
<1>5. CASE RunFunctor                     BY <1>5, RunFunctorStep
<1>6. ASSUME NEW a \in Attempts, HandleEvent(a) PROVE IInv'
  BY <1>6, CheckTimeoutStep, HandleWriteStep, HandleErrorStep, HandleCloseStep DEF HandleEvent
<1>7. CASE WakeUp                         BY <1>7, WakeUpStep
<1>8. ASSUME NEW a \in Attempts, Network(a) PROVE IInv'
  BY <1>8, AnswerStep, PeerClosesStep DEF Network
<1>9. ASSUME NEW a \in Attempts, Expire(a) PROVE IInv'
  BY <1>9, ExpireStep
<1>10. CASE Connect                       BY <1>10, ConnectStep
<1>11. CASE Disconnect                    BY <1>11, DisconnectStep
<1>12. CASE UNCHANGED vars
  <2>1. UNCHANGED <<connector, client, system, clock, loop, history>>
    BY <1>12 DEF vars
  <2>2. Waiting' = Waiting
    BY <2>1 DEF loop, Waiting
  <2>3. TypeOK' /\ PhaseInv'
    BY <2>1 DEF IInv, TypeOK, PhaseInv, connector, client, system, clock, loop, history
  <2>4. BatchInv'
    BY <2>1 DEF IInv, QueueInv, BatchInv, loop
  <2>5. QueueInv' /\ QuietInv'
    BY <2>1, <2>2, <2>4, QueueKept, QuietKept DEF IInv, connector, client, clock, loop, Quiet
  <2>6. AttemptInv' /\ SocketInv' /\ EventInv'
    BY <2>1, AttemptKept, SocketKept, EventKept
    DEF IInv, AttemptInv, EventInv, connector, client, system, clock, loop
  <2> QED
    BY <2>3, <2>5, <2>6 DEF IInv
<1> QED
  BY <1>1, <1>2, <1>3, <1>4, <1>5, <1>6, <1>7, <1>8, <1>9, <1>10, <1>11, <1>12
  DEF Next, LoopStep

\* The inductive invariant holds in every reachable state, when users are patient.
THEOREM Invariant == Patient => (Spec => []IInv)
<1> SUFFICES ASSUME Patient PROVE Spec => []IInv
  OBVIOUS
<1>1. IInv /\ [Next]_vars => IInv'
  BY InvariantStep
<1> QED
  BY <1>1, InvariantInit, PTL DEF Spec

\* Type correctness: in every reachable state each variable has its type.
THEOREM ClientTypeCorrect == Patient => (Spec => []TypeOK)
<1> SUFFICES ASSUME Patient PROVE Spec => []TypeOK
  OBVIOUS
<1>1. IInv => TypeOK
  BY DEF IInv
<1> QED
  BY <1>1, Invariant, PTL

\* The channel a socket is with, or its connection: never both, and none that is open is
\* with neither.
LEMMA OwnedOnce == IInv => SocketOwned
<1> SUFFICES ASSUME IInv, NEW a \in Attempts
    PROVE socket[a] = "open" <=>
              (IF channel = a /\ ~transferred THEN 1 ELSE 0)
                + (IF a \in connected THEN 1 ELSE 0) = 1
  BY DEF SocketOwned
<1>1. a # None /\ (a \in connected <=> connection = a)
  BY DEF IInv, AttemptInv, Attempts, None
<1>2. ~((channel = a /\ ~transferred) /\ connection = a)
  BY <1>1 DEF IInv, AttemptInv
<1>3. socket[a] = "open" <=> (channel = a /\ ~transferred) \/ connection = a
  BY DEF IInv, SocketInv
<1>4. CASE channel = a /\ ~transferred
  BY <1>1, <1>2, <1>3, <1>4
<1>5. CASE ~(channel = a /\ ~transferred)
  BY <1>1, <1>3, <1>5
<1> QED
  BY <1>4, <1>5

\* A socket is open exactly while the connector or one connection has it, so each is
\* closed once.  (TcpConnector.cpp:86, 149-152, 184, TcpClient.cpp:92, 112)
THEOREM SocketsOwned == Patient => (Spec => []SocketOwned)
<1> SUFFICES ASSUME Patient PROVE Spec => []SocketOwned
  OBVIOUS
<1> QED
  BY OwnedOnce, Invariant, PTL

\* A reset deletes the channel it was queued for, a close the connection.
\* (TcpConnector.cpp:151-152, TcpClient.cpp:74, 109-110)
THEOREM FunctorsStayFresh == Patient => (Spec => []FunctorsFresh)
<1> SUFFICES ASSUME Patient PROVE Spec => []FunctorsFresh
  OBVIOUS
<1>1. IInv => FunctorsFresh
  BY WaitingTyped DEF IInv, QueueInv, Meant, FunctorsFresh
<1> QED
  BY <1>1, Invariant, PTL

\* What connect and its timer assert of the attempt holds.
LEMMA AttemptRight == IInv => AttemptAgrees
<1> SUFFICES ASSUME IInv PROVE AttemptAgrees
  OBVIOUS
<1>1. channel # None /\ transferred => F("reset", channel) \in Range(Waiting)
  <2>1. Waiting \in Seq(Functors)
    BY WaitingTyped DEF IInv
  <2>2. Range(Waiting) = {Waiting[i] : i \in 1..Len(Waiting)}
    BY <2>1, RangeEquality
  <2> QED
    BY <2>2 DEF IInv, QueueInv
<1> QED
  BY <1>1 DEF IInv, AttemptInv, AttemptAgrees

\* Without an attempt there is no channel but one that waits for its reset, and no timer
\* runs but the one the connector can cancel.  (TcpConnector.cpp:79, 112, 123, 170, 195)
THEOREM AttemptsAgree == Patient => (Spec => []AttemptAgrees)
<1> SUFFICES ASSUME Patient PROVE Spec => []AttemptAgrees
  OBVIOUS
<1> QED
  BY AttemptRight, Invariant, PTL
=============================================================================
