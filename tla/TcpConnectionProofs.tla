------------------------- MODULE TcpConnectionProofs -------------------------
(***************************************************************************)
(* Proofs about module TcpConnection, for buffers, messages and bounds of  *)
(* any size: they rest on what BufferProofs shows of append, retrieve and  *)
(* readFd.                                                                 *)
(***************************************************************************)
EXTENDS TcpConnection, BufferProofs

(* The parts of the inductive invariant. *)

\* What was accepted and not sent is in the output buffer.
OutFlow ==
    /\ BufferOK(output)
    /\ accepted \in Nat /\ sent \in Nat /\ sent <= accepted /\ accepted <= MaxOut
    /\ content(output) = Numbered(sent, accepted - sent)
    /\ room \in Nat /\ room <= MaxRoom

\* What was received and not consumed is in the input buffer.
InFlow ==
    /\ BufferOK(input)
    /\ received \in Nat /\ consumed \in Nat /\ consumed <= received
    /\ incoming \in Nat /\ received + incoming <= MaxIn
    /\ content(input) = Numbered(consumed, received - consumed)

\* What waits in the loop is one of the functors.
LoopInv == queue \in Seq(Functors) /\ batch \in Seq(Functors)

-----------------------------------------------------------------------------
(* Numbered bytes.                                                          *)

\* Bytes numbered within a bound are bytes.
LEMMA NumberedType ==
  ASSUME NEW from \in Nat, NEW len \in Nat, NEW max \in Nat, from + len <= max,
         1..max \subseteq Bytes
  PROVE  /\ Numbered(from, len) \in Seq(Bytes)
         /\ Len(Numbered(from, len)) = len
         /\ \A i \in 1..len : Numbered(from, len)[i] = from + i
<1>1. \A i \in 1..len : from + i \in 1..max
  OBVIOUS
<1>2. \A i \in 1..len : from + i \in Bytes
  BY <1>1
<1>3. Numbered(from, len) \in Seq(Bytes)
  BY <1>2, SeqDef DEF Numbered
<1>4. Len(Numbered(from, len)) = len
  BY <1>3, LenProperties DEF Numbered
<1> QED
  BY <1>3, <1>4 DEF Numbered

\* Numbers that go on where others stop.
LEMMA NumberedConcat ==
  ASSUME NEW from \in Nat, NEW m \in Nat, NEW k \in Nat, NEW max \in Nat,
         from + m + k <= max, 1..max \subseteq Bytes
  PROVE  Numbered(from, m) \o Numbered(from + m, k) = Numbered(from, m + k)
<1> DEFINE s == Numbered(from, m)
           t == Numbered(from + m, k)
           u == Numbered(from, m + k)
<1>0. /\ from + m \in Nat /\ m + k \in Nat
      /\ from + m <= max /\ (from + m) + k <= max /\ from + (m + k) <= max
  OBVIOUS
<1>1. /\ s \in Seq(Bytes) /\ Len(s) = m /\ \A i \in 1..m : s[i] = from + i
  BY <1>0, NumberedType
<1>2. /\ t \in Seq(Bytes) /\ Len(t) = k /\ \A i \in 1..k : t[i] = (from + m) + i
  BY <1>0, NumberedType
<1>3. /\ u \in Seq(Bytes) /\ Len(u) = m + k /\ \A i \in 1..(m + k) : u[i] = from + i
  BY <1>0, NumberedType
<1> HIDE DEF s, t, u
<1>4. /\ s \o t \in Seq(Bytes)
      /\ Len(s \o t) = m + k
      /\ \A i \in 1..(m + k) : (s \o t)[i] = IF i <= m THEN s[i] ELSE t[i - m]
  BY <1>1, <1>2, ConcatProperties
<1>5. ASSUME NEW i \in 1..(m + k) PROVE (s \o t)[i] = u[i]
  <2>1. CASE i <= m
    BY <1>1, <1>3, <1>4, <2>1
  <2>2. CASE ~(i <= m)
    <3>1. i - m \in 1..k /\ (from + m) + (i - m) = from + i
      BY <2>2
    <3> QED
      BY <1>2, <1>3, <1>4, <2>2, <3>1
  <2> QED
    BY <2>1, <2>2
<1> QED
  BY <1>3, <1>4, <1>5, SeqEqual DEF s, t, u

\* A buffer of numbered bytes holds as many as there are numbers, and retrieve
\* takes the lowest.
LEMMA RetrieveNumbered ==
  ASSUME NEW b, BufferOK(b), NEW from \in Nat, NEW len \in Nat, NEW max \in Nat,
         from + len <= max, 1..max \subseteq Bytes,
         content(b) = Numbered(from, len)
  PROVE  /\ readableBytes(b) = len
         /\ \A n \in 0..len :
                /\ BufferOK(retrieve(b, n))
                /\ content(retrieve(b, n)) = Numbered(from + n, len - n)
<1>1. /\ Numbered(from, len) \in Seq(Bytes) /\ Len(Numbered(from, len)) = len
      /\ \A i \in 1..len : Numbered(from, len)[i] = from + i
  BY NumberedType
<1>2. readableBytes(b) = len
  BY <1>1, ContentType
<1>3. ASSUME NEW n \in 0..len
      PROVE  /\ BufferOK(retrieve(b, n))
             /\ content(retrieve(b, n)) = Numbered(from + n, len - n)
  <2> DEFINE r == retrieve(b, n)
             u == Numbered(from + n, len - n)
  <2>1. /\ BufferOK(r) /\ readableBytes(r) = len - n
        /\ \A i \in 1..(len - n) : content(r)[i] = content(b)[n + i]
    BY <1>2, RetrieveRight
  <2>2. content(r) \in Seq(Bytes) /\ Len(content(r)) = len - n
    BY <2>1, ContentType
  <2>3. /\ u \in Seq(Bytes) /\ Len(u) = len - n
        /\ \A i \in 1..(len - n) : u[i] = from + n + i
    <3>1. from + n \in Nat /\ len - n \in Nat /\ (from + n) + (len - n) <= max
      OBVIOUS
    <3> QED
      BY <3>1, NumberedType
  <2> HIDE DEF r, u
  <2>4. ASSUME NEW i \in 1..(len - n) PROVE content(r)[i] = u[i]
    <3>1. n + i \in 1..len /\ from + (n + i) = from + n + i
      OBVIOUS
    <3> QED
      BY <1>1, <2>1, <2>3, <3>1
  <2>5. content(r) = u
    BY <2>2, <2>3, <2>4, SeqEqual
  <2> QED
    BY <2>1, <2>5 DEF r, u
<1> QED
  BY <1>2, <1>3

-----------------------------------------------------------------------------
(* Sending.                                                                 *)

\* There is as much to write as was accepted and not sent.
LEMMA OutputReadable ==
  ASSUME OutFlow
  PROVE  /\ readableBytes(output) = accepted - sent
         /\ accepted - sent \in Nat
         /\ \A n \in 0..(accepted - sent) :
                /\ BufferOK(retrieve(output, n))
                /\ content(retrieve(output, n)) = Numbered(sent + n, (accepted - sent) - n)
<1>1. accepted - sent \in Nat /\ sent + (accepted - sent) <= MaxOut
  BY DEF OutFlow
<1>2. MaxOut \in Nat /\ 1..MaxOut \subseteq Bytes
  BY ConnectionConstants
<1> QED
  BY <1>1, <1>2, RetrieveNumbered DEF OutFlow

\* The rest of a message goes behind what waits already; some of it was sent only
\* if nothing did.
LEMMA KeepRight ==
  ASSUME OutFlow, NEW len \in Nat, NEW n \in 0..len, NEW free \in Nat,
         accepted + len <= MaxOut, n = 0 \/ accepted = sent, Keep(len, n, free)
  PROVE  /\ BufferOK(output')
         /\ content(output') = Numbered(sent + n, (accepted + len) - (sent + n))
<1> DEFINE rest == Numbered(accepted + n, len - n)
           old  == Numbered(sent, accepted - sent)
<1>1. /\ MaxOut \in Nat /\ 1..MaxOut \subseteq Bytes
      /\ accepted \in Nat /\ sent \in Nat /\ sent <= accepted
      /\ BufferOK(output) /\ content(output) = old
  BY ConnectionConstants DEF OutFlow
<1>2. rest \in Seq(Bytes)
  <2>1. accepted + n \in Nat /\ len - n \in Nat /\ (accepted + n) + (len - n) <= MaxOut
    BY <1>1
  <2> QED
    BY <1>1, <2>1, NumberedType
<1>3. output' = append(output, rest)
  BY DEF Keep
<1> HIDE DEF rest, old
<1>4. BufferOK(output') /\ content(output') = old \o rest
  BY <1>1, <1>2, <1>3, AppendRight
<1>5. CASE n = 0
  <2> DEFINE kept == accepted - sent
  <2>1. /\ kept \in Nat /\ sent + kept + len <= MaxOut
        /\ sent + kept = accepted /\ kept + len = (accepted + len) - sent
    BY <1>1
  <2>2. old \o Numbered(accepted, len) = Numbered(sent, (accepted + len) - sent)
    <3>1. old = Numbered(sent, kept)
      BY DEF old
    <3> HIDE DEF kept
    <3>2. /\ sent \in Nat /\ kept \in Nat /\ MaxOut \in Nat /\ sent + kept + len <= MaxOut
          /\ 1..MaxOut \subseteq Bytes
      BY <1>1, <2>1
    <3>3. Numbered(sent, kept) \o Numbered(sent + kept, len) = Numbered(sent, kept + len)
      BY <3>2, NumberedConcat, Zenon
    <3> QED
      BY <2>1, <3>1, <3>3
  <2>3. rest = Numbered(accepted, len) /\ sent + n = sent
    BY <1>1, <1>5 DEF rest
  <2> QED
    BY <1>4, <2>2, <2>3
<1>6. CASE accepted = sent
  <2>1. old = <<>>
    BY <1>1, <1>6 DEF old, Numbered
  <2>2. old \o rest = rest
    BY <1>2, <2>1, ConcatEmptySeq
  <2>3. rest = Numbered(sent + n, (accepted + len) - (sent + n))
    BY <1>1, <1>6 DEF rest
  <2> QED
    BY <1>4, <2>2, <2>3
<1> QED
  BY <1>5, <1>6

\* What sendInLoopFunc accepts of a message goes to the socket and the buffer, in
\* order.
LEMMA SendRight ==
  ASSUME OutFlow, NEW len \in Nat, SendInLoopFunc(len)
  PROVE  OutFlow'
<1>1. /\ MaxOut \in Nat /\ accepted \in Nat /\ sent \in Nat /\ sent <= accepted
      /\ BufferOK(output) /\ content(output) = Numbered(sent, accepted - sent)
      /\ room \in Nat /\ room <= MaxRoom /\ MaxRoom \in Nat
  BY ConnectionConstants DEF OutFlow
<1>2. CASE UNCHANGED <<output, room, accepted, sent>>
  BY <1>2 DEF OutFlow
<1>3. ASSUME accepted + len <= MaxOut, Direct, TryWrite(len)
      PROVE  OutFlow'
  <2>1. accepted = sent
    <3>1. accepted - sent = 0
      BY <1>3, OutputReadable DEF Direct
    <3> QED
      BY <1>1, <3>1
  <2>2. PICK n \in IF room = 0 THEN {0} ELSE Taken(len) :
          /\ accepted' = accepted + len /\ sent' = sent + n
          /\ room' = RoomAfter(n)
          /\ IF n < len THEN Keep(len, n, RoomAfter(n)) ELSE output' = output
    BY <1>3 DEF TryWrite
  <2>3. n \in 0..len
    BY <1>1, <2>2 DEF Taken
  <2>4. RoomAfter(n) \in Nat /\ RoomAfter(n) <= MaxRoom
    BY <1>1, <2>3 DEF RoomAfter
  <2>5. /\ accepted' \in Nat /\ sent' \in Nat /\ sent' <= accepted' /\ accepted' <= MaxOut
    BY <1>1, <1>3, <2>1, <2>2, <2>3
  <2>6. CASE n < len
    <3>1. Keep(len, n, RoomAfter(n))
      BY <2>2, <2>6
    <3>2. /\ BufferOK(output')
          /\ content(output') = Numbered(sent + n, (accepted + len) - (sent + n))
      BY <1>3, <2>1, <2>3, <2>4, <3>1, KeepRight
    <3> QED
      BY <2>2, <2>4, <2>5, <3>2 DEF OutFlow
  <2>7. CASE ~(n < len)
    <3>1. n = len /\ output' = output
      BY <2>2, <2>3, <2>7
    <3>2. accepted' - sent' = 0 /\ accepted - sent = 0
      BY <1>1, <2>1, <2>2, <3>1
    <3>3. Numbered(sent', accepted' - sent') = Numbered(sent, accepted - sent)
      BY <3>2 DEF Numbered
    <3> QED
      BY <1>1, <2>2, <2>4, <2>5, <3>1, <3>3 DEF OutFlow
  <2> QED
    BY <2>6, <2>7
<1>4. ASSUME accepted + len <= MaxOut, Keep(len, 0, room), accepted' = accepted + len,
             sent' = sent, room' = room
      PROVE  OutFlow'
  <2>1. 0 \in 0..len
    OBVIOUS
  <2>2. /\ BufferOK(output')
        /\ content(output') = Numbered(sent + 0, (accepted + len) - (sent + 0))
    BY <1>1, <1>4, <2>1, KeepRight
  <2>3. sent + 0 = sent /\ accepted + len \in Nat /\ sent <= accepted + len
    BY <1>1
  <2> QED
    BY <1>1, <1>4, <2>2, <2>3 DEF OutFlow
<1> QED
  BY <1>2, <1>3, <1>4 DEF SendInLoopFunc, socket

\* What handleWrite sends is the front of the buffer.
LEMMA WriteRight ==
  ASSUME OutFlow, HandleWrite
  PROVE  OutFlow'
<1>1. /\ accepted \in Nat /\ sent \in Nat /\ sent <= accepted /\ accepted <= MaxOut
      /\ room \in Nat /\ room <= MaxRoom /\ MaxRoom \in Nat /\ MaxOut \in Nat
  BY ConnectionConstants DEF OutFlow
<1>2. CASE UNCHANGED <<output, room, accepted, sent>>
  BY <1>2 DEF OutFlow
<1>3. ASSUME NEW n \in Taken(readableBytes(output)),
             output' = retrieve(output, n), sent' = sent + n, room' = RoomAfter(n),
             accepted' = accepted
      PROVE  OutFlow'
  <2>1. n \in 0..(accepted - sent)
    BY <1>1, <1>3, OutputReadable DEF Taken
  <2>2. /\ BufferOK(output')
        /\ content(output') = Numbered(sent + n, (accepted - sent) - n)
    BY <1>3, <2>1, OutputReadable
  <2>3. /\ (accepted - sent) - n = accepted - (sent + n)
        /\ sent + n \in Nat /\ sent + n <= accepted
    BY <1>1, <2>1
  <2>4. RoomAfter(n) \in Nat /\ RoomAfter(n) <= MaxRoom
    BY <1>1, <2>1 DEF RoomAfter
  <2> QED
    BY <1>1, <1>3, <2>2, <2>3, <2>4 DEF OutFlow
<1>4. HandleClose => UNCHANGED <<output, room, accepted, sent>>
  BY DEF HandleClose, outgoing
<1> QED
  BY <1>2, <1>3, <1>4 DEF HandleWrite, connection, socket, outgoing

-----------------------------------------------------------------------------
(* Receiving.                                                               *)

\* There is as much to read as was received and not consumed.
LEMMA InputReadable ==
  ASSUME InFlow
  PROVE  /\ readableBytes(input) = received - consumed
         /\ received - consumed \in Nat
         /\ \A n \in 0..(received - consumed) :
                /\ BufferOK(retrieve(input, n))
                /\ content(retrieve(input, n)) = Numbered(consumed + n, (received - consumed) - n)
<1>1. MaxIn \in Nat /\ 1..MaxIn \subseteq Bytes
  BY ConnectionConstants
<1>2. received - consumed \in Nat /\ consumed + (received - consumed) <= MaxIn
  BY <1>1 DEF InFlow
<1> QED
  BY <1>1, <1>2, RetrieveNumbered DEF InFlow

\* What readFd gets goes behind what was not consumed.
LEMMA ReadRight ==
  ASSUME InFlow, HandleRead
  PROVE  InFlow'
<1>1. /\ MaxIn \in Nat /\ 1..MaxIn \subseteq Bytes /\ ExtraSize \in Nat
      /\ received \in Nat /\ consumed \in Nat /\ consumed <= received
      /\ incoming \in Nat /\ received + incoming <= MaxIn
      /\ BufferOK(input) /\ content(input) = Numbered(consumed, received - consumed)
  BY ConnectionConstants DEF InFlow
<1>2. CASE UNCHANGED <<input, received, consumed, incoming>>
  BY <1>2 DEF InFlow
<1> DEFINE space == writableBytes(input) + ExtraSize
           n     == IF incoming <= space THEN incoming ELSE space
<1>3. ASSUME input' = readFd(input, Numbered(received, n)),
             received' = received + n, incoming' = incoming - n, consumed' = consumed
      PROVE  InFlow'
  <2>1. n \in Nat /\ n <= incoming
    <3>1. space \in Nat
      BY <1>1, ContentType
    <3> QED
      BY <1>1, <3>1
  <2> HIDE DEF n
  <2> DEFINE kept == received - consumed
  <2>2. /\ kept \in Nat /\ consumed + kept = received /\ kept + n = (received + n) - consumed
        /\ consumed + kept + n <= MaxIn /\ received + n <= MaxIn
    BY <1>1, <2>1
  <2>3. Numbered(received, n) \in Seq(Bytes)
    BY <1>1, <2>1, <2>2, NumberedType
  <2>4. /\ BufferOK(input')
        /\ content(input') = Numbered(consumed, kept) \o Numbered(received, n)
    BY <1>1, <1>3, <2>3, ReadFdRight
  <2> HIDE DEF kept
  <2>5. Numbered(consumed, kept) \o Numbered(consumed + kept, n) = Numbered(consumed, kept + n)
    <3>1. /\ consumed \in Nat /\ kept \in Nat /\ n \in Nat /\ MaxIn \in Nat
          /\ consumed + kept + n <= MaxIn /\ 1..MaxIn \subseteq Bytes
      BY <1>1, <2>1, <2>2
    <3> QED
      BY <3>1, NumberedConcat, Zenon
  <2>6. content(input') = Numbered(consumed, (received + n) - consumed)
    BY <2>2, <2>4, <2>5
  <2>7. /\ received + n \in Nat /\ consumed <= received + n /\ incoming - n \in Nat
        /\ (received + n) + (incoming - n) <= MaxIn
    BY <1>1, <2>1
  <2> QED
    BY <1>1, <1>3, <2>4, <2>6, <2>7 DEF InFlow
<1>4. HandleClose => UNCHANGED <<input, received, consumed, incoming>>
  BY DEF HandleClose, reading, network
<1> QED
  BY <1>2, <1>3, <1>4 DEF HandleRead, reading, network

\* What users consume is the front of the buffer.
LEMMA ConsumeRight ==
  ASSUME InFlow, Consume
  PROVE  InFlow'
<1>1. /\ received \in Nat /\ consumed \in Nat /\ consumed <= received
      /\ incoming \in Nat /\ received + incoming <= MaxIn
  BY DEF InFlow
<1>2. PICK n \in 1..readableBytes(input) :
        input' = retrieve(input, n) /\ consumed' = consumed + n
  BY DEF Consume
<1>3. n \in 0..(received - consumed) /\ n \in Nat
  BY <1>1, <1>2, InputReadable
<1>4. /\ BufferOK(input')
      /\ content(input') = Numbered(consumed + n, (received - consumed) - n)
  BY <1>2, <1>3, InputReadable
<1>5. /\ (received - consumed) - n = received - (consumed + n)
      /\ consumed + n \in Nat /\ consumed + n <= received
  BY <1>1, <1>3
<1>6. received' = received /\ incoming' = incoming
  BY DEF Consume, network
<1> QED
  BY <1>1, <1>2, <1>4, <1>5, <1>6 DEF InFlow

-----------------------------------------------------------------------------
(* The loop.                                                                *)

\* What the connection itself queues.
Own == {F(op, 0) : op \in {"close", "complete", "highwater"}}

\* A queue stays one of the functors in S when the connection queues its own.
LEMMA QueueRight ==
  ASSUME NEW S, Own \subseteq S, queue \in Seq(S),
         NEW op \in {"close", "complete", "highwater"}, Queue(F(op, 0))
  PROVE  queue' \in Seq(S)
<1>1. F(op, 0) \in S
  BY DEF Own
<1>2. queue' = Append(queue, F(op, 0))
  BY DEF Queue
<1> QED
  BY <1>1, <1>2, AppendProperties

\* A message that is sent queues at most a callback.
LEMMA SendQueues ==
  ASSUME NEW S, Own \subseteq S, queue \in Seq(S), NEW len, SendInLoopFunc(len)
  PROVE  queue' \in Seq(S)
<1>1. ASSUME NEW n, NEW free, Keep(len, n, free) PROVE queue' \in Seq(S)
  <2>1. Queue(F("highwater", 0)) \/ queue' = queue
    BY <1>1 DEF Keep
  <2> QED
    BY <2>1, QueueRight
<1>2. ASSUME TryWrite(len) PROVE queue' \in Seq(S)
  <2>1. PICK n : \/ Keep(len, n, RoomAfter(n))
                 \/ Queue(F("complete", 0))
    BY <1>2 DEF TryWrite
  <2> QED
    BY <1>1, <2>1, QueueRight
<1>3. TryWrite(len) \/ Keep(len, 0, room) \/ queue' = queue
  BY DEF SendInLoopFunc
<1> QED
  BY <1>1, <1>2, <1>3

\* So do the channel's callbacks.
LEMMA HandlersQueue ==
  ASSUME NEW S, Own \subseteq S, queue \in Seq(S), HandleClose \/ HandleRead \/ HandleWrite
  PROVE  queue' \in Seq(S)
<1>1. HandleClose => queue' = queue
  BY DEF HandleClose
<1>2. HandleRead => queue' = queue
  BY <1>1 DEF HandleRead
<1>3. HandleWrite => queue' = queue \/ Queue(F("complete", 0))
  BY <1>1 DEF HandleWrite, AllWritten
<1> QED
  BY <1>1, <1>2, <1>3, QueueRight

\* The connection's own functors are among those there are.
LEMMA OwnFunctors == Own \subseteq Functors
BY DEF Own, F, Functors

Flow == OutFlow /\ InFlow /\ LoopInv

\* The functor a batch begins with.
LEMMA HeadFunctor ==
  ASSUME LoopInv, batch # <<>>
  PROVE  /\ Head(batch) \in Functors /\ Tail(batch) \in Seq(Functors)
         /\ Head(batch).op = "send" => Head(batch).len \in Nat
<1>1. Head(batch) \in Functors /\ Tail(batch) \in Seq(Functors)
  BY HeadTailProperties DEF LoopInv
<1>2. \A f \in Functors : f.op = "send" => f.len \in Sizes
  BY DEF Functors
<1> QED
  BY <1>1, <1>2, ConnectionConstants

\* A functor keeps the bytes in order.
LEMMA FunctorFlow ==
  ASSUME Flow, RunFunctor
  PROVE  Flow'
<1> DEFINE f == Head(batch)
<1>1. batch' \in Seq(Functors) /\ (f.op = "send" => f.len \in Nat)
  BY HeadFunctor DEF RunFunctor, Flow
<1>2. Execute(f)
  BY DEF RunFunctor
<1> HIDE DEF f
<1>3. CASE f.op = "send" /\ SendInLoopFunc(f.len)
  <2>1. OutFlow' /\ queue' \in Seq(Functors)
    BY <1>1, <1>3, SendRight, SendQueues, OwnFunctors DEF Flow, LoopInv
  <2>2. UNCHANGED <<network, reading>>
    BY <1>3 DEF SendInLoopFunc
  <2>3. InFlow'
    BY <2>2 DEF Flow, InFlow, network, reading
  <2> QED
    BY <1>1, <2>1, <2>3 DEF Flow, LoopInv
<1>4. ASSUME UNCHANGED <<output, room, accepted, sent, network, reading, queue>> PROVE Flow'
  BY <1>1, <1>4 DEF Flow, OutFlow, InFlow, LoopInv, network, reading
<1>5. ConnectEstablished \/ HandleClose
        => UNCHANGED <<output, room, accepted, sent, network, reading, queue>>
  BY DEF ConnectEstablished, HandleClose, outgoing
<1>6. f.op \in {"complete", "highwater"}
        => UNCHANGED <<output, room, accepted, sent, network, reading, queue>>
  BY <1>2 DEF Execute, connection, socket, outgoing
<1> QED
  BY <1>2, <1>3, <1>4, <1>5, <1>6 DEF Execute

\* An event keeps them in order.
LEMMA EventFlow ==
  ASSUME Flow, NEW e, HandleEvent(e)
  PROVE  Flow'
<1>1. batch' = batch /\ (HandleClose \/ HandleRead \/ HandleWrite)
  BY DEF HandleEvent
<1>2. LoopInv'
  BY <1>1, HandlersQueue, OwnFunctors DEF Flow, LoopInv
<1>3. CASE HandleClose
  BY <1>2, <1>3 DEF HandleClose, Flow, OutFlow, InFlow, network, reading, outgoing
<1>4. CASE HandleWrite
  <2>1. UNCHANGED <<network, reading>>
    BY <1>4 DEF HandleWrite, HandleClose
  <2> QED
    BY <1>2, <1>4, <2>1, WriteRight DEF Flow, InFlow, network, reading
<1>5. CASE HandleRead
  <2>1. UNCHANGED <<output, room, accepted, sent>>
    BY <1>5 DEF HandleRead, HandleClose, connection, socket, outgoing
  <2> QED
    BY <1>2, <1>5, <2>1, ReadRight DEF Flow, OutFlow
<1> QED
  BY <1>1, <1>3, <1>4, <1>5

\* So does every step.
LEMMA FlowStep ==
  ASSUME Flow, [Next]_vars
  PROVE  Flow'
<1> USE DEF Flow
<1>1. CASE PollWakeup \/ DispatchDone
  <2>1. UNCHANGED <<output, room, accepted, sent, network, reading>>
    BY <1>1 DEF PollWakeup, DispatchDone, connection, socket, outgoing
  <2>2. batch' = queue /\ queue' = <<>>
    BY <1>1 DEF PollWakeup, DispatchDone
  <2> QED
    BY <2>1, <2>2, EmptySeq DEF OutFlow, InFlow, LoopInv, network, reading
<1>2. ASSUME UNCHANGED <<output, room, accepted, sent, network, reading, queue, batch>>
      PROVE  Flow'
  BY <1>2 DEF OutFlow, InFlow, LoopInv, network, reading
<1>3. CASE PollEvents \/ BatchDone \/ WakeUp \/ UNCHANGED vars
  <2>1. UNCHANGED <<output, room, accepted, sent, network, reading, queue, batch>>
    BY <1>3 DEF PollEvents, BatchDone, WakeUp, vars, connection, socket, outgoing, loop
  <2> QED
    BY <1>2, <2>1
<1>4. ASSUME NEW len \in Sizes, Send(len) PROVE Flow'
  <2>1. len \in Nat /\ SendInLoopFunc(len) /\ batch' = batch
    BY <1>4, ConnectionConstants DEF Send, InCallback
  <2>2. UNCHANGED <<network, reading>>
    BY <2>1 DEF SendInLoopFunc
  <2>3. OutFlow' /\ queue' \in Seq(Functors)
    BY <2>1, SendRight, SendQueues, OwnFunctors DEF LoopInv
  <2> QED
    BY <2>1, <2>2, <2>3 DEF InFlow, LoopInv, network, reading
<1>5. ASSUME NEW len \in Sizes, SendOutside(len) PROVE Flow'
  <2>1. F("send", len) \in Functors /\ queue' = Append(queue, F("send", len))
    BY <1>5 DEF SendOutside, F, Functors
  <2>2. queue' \in Seq(Functors)
    BY <2>1, AppendProperties DEF LoopInv
  <2>3. UNCHANGED <<output, room, accepted, sent, network, reading, batch>>
    BY <1>5 DEF SendOutside, connection, socket, outgoing
  <2> QED
    BY <2>2, <2>3 DEF OutFlow, InFlow, LoopInv, network, reading
<1>6. CASE Close
  <2>1. UNCHANGED <<output, room, accepted, sent, network, reading, batch>>
    BY <1>6 DEF Close, InCallback, connection, socket, outgoing
  <2>2. queue' \in Seq(Functors)
    BY <1>6, QueueRight, OwnFunctors DEF Close, LoopInv
  <2> QED
    BY <2>1, <2>2 DEF OutFlow, InFlow, LoopInv, network, reading
<1>7. CASE Consume
  <2>1. UNCHANGED <<output, room, accepted, sent, queue, batch>>
    BY <1>7 DEF Consume, connection, socket, outgoing, loop
  <2> QED
    BY <1>7, <2>1, ConsumeRight DEF OutFlow, LoopInv
<1>8. CASE Drain
  <2>1. UNCHANGED <<output, accepted, sent, network, reading, queue, batch>> /\ room' = MaxRoom
    BY <1>8 DEF Drain, connection, outgoing, loop
  <2> QED
    BY <2>1, ConnectionConstants DEF OutFlow, InFlow, LoopInv, network, reading
<1>9. CASE Arrive
  <2>1. UNCHANGED <<output, room, accepted, sent, reading, queue, batch>>
        /\ incoming' = incoming + 1 /\ received + incoming < MaxIn
    BY <1>9 DEF Arrive, connection, socket, outgoing, loop
  <2>2. incoming' \in Nat /\ received + incoming' <= MaxIn
    BY <2>1, ConnectionConstants DEF InFlow
  <2> QED
    BY <2>1, <2>2 DEF OutFlow, InFlow, LoopInv, reading
<1>10. CASE PeerEnds
  <2>1. UNCHANGED <<output, room, accepted, sent, incoming, reading, queue, batch>>
    BY <1>10 DEF PeerEnds, connection, socket, outgoing, loop
  <2> QED
    BY <2>1 DEF OutFlow, InFlow, LoopInv, reading
<1> QED
  BY <1>1, <1>3, <1>4, <1>5, <1>6, <1>7, <1>8, <1>9, <1>10, FunctorFlow, EventFlow
  DEF Next, LoopStep, Users

\* Both buffers of a new connection are empty, and connectEstablished waits.
LEMMA FlowInit == Init => Flow
<1> SUFFICES ASSUME Init PROVE Flow
  OBVIOUS
<1>1. OutputSize \in Nat /\ InputSize \in Nat /\ MaxOut \in Nat /\ MaxIn \in Nat /\ MaxRoom \in Nat
  BY ConnectionConstants
<1>2. /\ BufferOK(output) /\ readableBytes(output) = 0
      /\ BufferOK(input) /\ readableBytes(input) = 0
  BY <1>1, NewBufferRight DEF Init
<1>3. content(output) = Numbered(0, 0) /\ content(input) = Numbered(0, 0)
  BY <1>2 DEF content, Numbered
<1>4. F("established", 0) \in Functors
  BY DEF F, Functors
<1>5. queue \in Seq(Functors) /\ batch \in Seq(Functors)
  BY <1>4, EmptySeq DEF Init
<1> QED
  BY <1>1, <1>2, <1>3, <1>5 DEF Init, Flow, OutFlow, InFlow, LoopInv

\* In both directions no byte is lost, repeated or overtaken, whatever the sizes of
\* the buffers, the messages and the pieces the socket takes.
THEOREM StreamsStayInOrder == Spec => []StreamsInOrder
<1>1. Flow => StreamsInOrder
  BY DEF Flow, OutFlow, InFlow, StreamsInOrder
<1> QED
  BY <1>1, FlowInit, FlowStep, PTL DEF Spec

-----------------------------------------------------------------------------
(* The writable event.                                                      *)

Established == F("established", 0)

\* What can wait once connectEstablished has run.
Later == {f \in Functors : f.op # "established"}

\* connectEstablished waits, alone and once, exactly while the connection is
\* connecting; nothing is sent or signaled until then.
StartInv ==
    /\ state \in {"connecting", "connected", "disconnecting"}
    /\ batch # <<>> => phase = "batch"
    /\ state = "connecting" =>
          /\ \/ queue = <<Established>> /\ batch = <<>>
             \/ queue = <<>> /\ batch = <<Established>>
          /\ ready = {} /\ writing = FALSE /\ readableBytes(output) = 0
    /\ state # "connecting" => queue \in Seq(Later) /\ batch \in Seq(Later)

WriteInv == writing \in BOOLEAN /\ WritingIffOutput

\* A buffer that is in order after a step has as much to write as the numbers say.
LEMMA ReadableNext ==
  ASSUME OutFlow'
  PROVE  readableBytes(output') = accepted' - sent' /\ accepted' - sent' \in Nat
<1>1. /\ BufferOK(output')
      /\ accepted' \in Nat /\ sent' \in Nat /\ sent' <= accepted' /\ accepted' <= MaxOut
      /\ content(output') = Numbered(sent', accepted' - sent')
  BY DEF OutFlow
<1>2. MaxOut \in Nat /\ 1..MaxOut \subseteq Bytes
  BY ConnectionConstants
<1>3. accepted' - sent' \in Nat /\ sent' + (accepted' - sent') <= MaxOut
  <2>1. ASSUME NEW a \in Nat, NEW b \in Nat, b <= a, a <= MaxOut
        PROVE  a - b \in Nat /\ b + (a - b) <= MaxOut
    BY <1>2, <2>1
  <2> QED
    BY <1>1, <2>1
<1> QED
  BY <1>1, <1>2, <1>3, RetrieveNumbered

\* A message that is kept enables writing; one that is not finds nothing to write.
LEMMA SendWrites ==
  ASSUME OutFlow, OutFlow', WriteInv, NEW len \in Nat, SendInLoopFunc(len)
  PROVE  WriteInv'
<1>1. state' = state
  BY DEF SendInLoopFunc
<1>2. CASE UNCHANGED <<output, writing>>
  BY <1>1, <1>2 DEF WriteInv, WritingIffOutput
<1>3. ASSUME NEW n, NEW free, Keep(len, n, free), accepted' - sent' > 0
      PROVE  WriteInv'
  <2>1. writing' = TRUE
    BY <1>3 DEF Keep, EnableWriting
  <2>2. readableBytes(output') > 0
    BY <1>3, ReadableNext
  <2> QED
    BY <2>1, <2>2 DEF WriteInv, WritingIffOutput
<1>4. ASSUME Direct, TryWrite(len) PROVE WriteInv'
  <2>1. PICK n \in IF room = 0 THEN {0} ELSE Taken(len) :
          /\ accepted' = accepted + len /\ sent' = sent + n
          /\ IF n < len THEN Keep(len, n, RoomAfter(n)) ELSE UNCHANGED <<output, writing>>
    BY <1>4 DEF TryWrite
  <2>2. CASE n < len
    <3>1. accepted \in Nat /\ sent \in Nat /\ sent <= accepted /\ room \in Nat
      BY DEF OutFlow
    <3>2. n \in Nat
      BY <3>1, <2>1 DEF Taken
    <3>3. accepted' - sent' > 0
      BY <2>1, <2>2, <3>1, <3>2
    <3> QED
      BY <1>3, <2>1, <2>2, <3>3
  <2>3. CASE ~(n < len)
    BY <1>2, <2>1, <2>3
  <2> QED
    BY <2>2, <2>3
<1>5. ASSUME state = "connected", ~Direct, Keep(len, 0, room), accepted' = accepted + len, sent' = sent
      PROVE  WriteInv'
  <2>1. readableBytes(output) > 0
    <3>1. CASE writing
      BY <1>5, <3>1 DEF WriteInv, WritingIffOutput
    <3>2. CASE ~writing
      BY <1>5, <3>2, OutputReadable DEF Direct
    <3> QED
      BY <3>1, <3>2
  <2>2. accepted \in Nat /\ sent \in Nat /\ accepted - sent > 0
    BY <2>1, OutputReadable DEF OutFlow
  <2>3. accepted' - sent' > 0
    BY <1>5, <2>2
  <2> QED
    BY <1>3, <1>5, <2>3
<1> QED
  BY <1>2, <1>4, <1>5 DEF SendInLoopFunc

\* Closing ends the interest in writing; handleWrite ends it with the output.
LEMMA HandlersWrite ==
  ASSUME OutFlow', WriteInv, HandleClose \/ HandleRead \/ HandleWrite
  PROVE  WriteInv'
<1>1. ASSUME HandleClose PROVE WriteInv'
  <2>1. state' = "disconnecting" /\ writing' = (state # "connected" /\ writing)
    BY <1>1 DEF HandleClose
  <2> QED
    BY <2>1, Zenon DEF WriteInv, WritingIffOutput
<1>2. ASSUME UNCHANGED <<state, output, writing>> PROVE WriteInv'
  BY <1>2 DEF WriteInv, WritingIffOutput
<1>3. HandleRead => HandleClose \/ UNCHANGED <<state, output, writing>>
  BY DEF HandleRead, connection
<1>4. ASSUME HandleWrite, ~HandleClose, ~UNCHANGED <<state, output, writing>>
      PROVE  WriteInv'
  <2>1. /\ state = "connected" /\ writing /\ state' = state
        /\ IF readableBytes(output') = 0 THEN writing' = FALSE ELSE writing' = writing
    BY <1>4 DEF HandleWrite, AllWritten, connection
  <2>2. readableBytes(output') \in Nat
    BY ReadableNext
  <2>3. CASE readableBytes(output') = 0
    <3>1. writing' = FALSE /\ ~(readableBytes(output') > 0)
      BY <2>1, <2>3
    <3> QED
      BY <3>1 DEF WriteInv, WritingIffOutput
  <2>4. CASE readableBytes(output') # 0
    <3>1. writing' = writing /\ readableBytes(output') > 0
      BY <2>1, <2>2, <2>4
    <3> QED
      BY <2>1, <3>1 DEF WriteInv, WritingIffOutput
  <2> QED
    BY <2>3, <2>4
<1> QED
  BY <1>1, <1>2, <1>3, <1>4

-----------------------------------------------------------------------------
\* The head of a batch while the connection is connecting, and later.
LEMMA BatchHead ==
  ASSUME StartInv, batch # <<>>
  PROVE  /\ state = "connecting" =>
                Head(batch) = Established /\ Tail(batch) = <<>> /\ queue = <<>>
         /\ state # "connecting" =>
                Head(batch) \in Later /\ Tail(batch) \in Seq(Later) /\ queue \in Seq(Later)
<1>1. CASE state = "connecting"
  <2>1. batch = <<Established>> /\ queue = <<>>
    BY <1>1 DEF StartInv
  <2>2. Head(<<Established>>) = Established /\ Tail(<<Established>>) = <<>>
    OBVIOUS
  <2> QED
    BY <1>1, <2>1, <2>2
<1>2. CASE state # "connecting"
  <2>1. batch \in Seq(Later) /\ queue \in Seq(Later)
    BY <1>2 DEF StartInv
  <2> QED
    BY <1>2, <2>1, HeadTailProperties
<1> QED
  BY <1>1, <1>2

\* The connection's own functors come later than connectEstablished.
LEMMA OwnLater == Own \subseteq Later
BY DEF Own, F, Functors, Later

\* Every step keeps connectEstablished the first functor that runs, once.
LEMMA StartStep ==
  ASSUME StartInv, [Next]_vars
  PROVE  StartInv'
<1>1. CASE RunFunctor
  <2>1. /\ batch # <<>> /\ Execute(Head(batch)) /\ batch' = Tail(batch)
        /\ phase' = phase /\ ready' = ready /\ phase = "batch"
    BY <1>1 DEF RunFunctor
  <2>2. CASE state = "connecting"
    <3>1. Head(batch) = Established /\ batch' = <<>> /\ queue = <<>>
      BY <2>1, <2>2, BatchHead
    <3>2. ConnectEstablished
      BY <2>1, <3>1 DEF Execute, Established, F
    <3>3. state' = "connected" /\ queue' = <<>>
      BY <3>1, <3>2 DEF ConnectEstablished
    <3> QED
      BY <3>1, <3>3, EmptySeq DEF StartInv
  <2>3. CASE state # "connecting"
    <3>1. /\ Head(batch) \in Later /\ batch' \in Seq(Later) /\ queue \in Seq(Later)
      BY <2>1, <2>3, BatchHead
    <3>2. \/ SendInLoopFunc(Head(batch).len)
          \/ HandleClose
          \/ UNCHANGED <<state, queue>>
      BY <2>1, <3>1 DEF Execute, Later, connection
    <3>3. queue' \in Seq(Later)
      BY <3>1, <3>2, SendQueues, HandlersQueue, OwnLater
    <3>4. state' \in {state, "disconnecting"}
      BY <3>2 DEF SendInLoopFunc, HandleClose
    <3> QED
      BY <2>1, <2>3, <3>1, <3>3, <3>4 DEF StartInv
  <2> QED
    BY <2>2, <2>3
<1>2. ASSUME NEW e, HandleEvent(e) PROVE StartInv'
  <2>1. /\ ready # {} /\ phase' = phase /\ batch' = batch
        /\ HandleClose \/ HandleRead \/ HandleWrite
    BY <1>2 DEF HandleEvent
  <2>2. state # "connecting" /\ queue \in Seq(Later) /\ batch \in Seq(Later)
    BY <2>1 DEF StartInv
  <2>3. state' \in {state, "disconnecting"}
    BY <2>1 DEF HandleClose, HandleRead, HandleWrite, connection
  <2>4. queue' \in Seq(Later)
    BY <2>1, <2>2, HandlersQueue, OwnLater
  <2> QED
    BY <2>1, <2>2, <2>3, <2>4 DEF StartInv
<1>3. CASE PollWakeup \/ DispatchDone
  <2>1. /\ phase # "batch" /\ phase' = "batch" /\ batch' = queue /\ queue' = <<>>
        /\ UNCHANGED <<connection, ready>>
    BY <1>3 DEF PollWakeup, DispatchDone
  <2>2. batch = <<>>
    BY <2>1 DEF StartInv
  <2>3. <<Established>> # <<>>
    OBVIOUS
  <2> QED
    BY <2>1, <2>2, <2>3, EmptySeq DEF StartInv, connection
<1>4. CASE PollEvents
  <2>1. /\ phase = "poll" /\ phase' = "dispatch" /\ ready' = Recorded
        /\ UNCHANGED <<connection, queue, batch>>
    BY <1>4 DEF PollEvents
  <2>2. state = "connecting" => Recorded = {}
    BY DEF Recorded
  <2> QED
    BY <2>1, <2>2 DEF StartInv, connection
<1>5. CASE BatchDone
  BY <1>5 DEF BatchDone, StartInv, connection
<1>6. ASSUME UNCHANGED <<connection, phase, ready, batch>>, state # "connecting",
             queue' \in Seq(Later)
      PROVE  StartInv'
  BY <1>6 DEF StartInv, connection
<1>7. ASSUME NEW len \in Sizes, Send(len) PROVE StartInv'
  <2>1. /\ state = "connected" /\ SendInLoopFunc(len) /\ state' = state
        /\ UNCHANGED <<phase, ready, batch>>
    BY <1>7 DEF Send, InCallback, SendInLoopFunc
  <2>2. queue \in Seq(Later) /\ batch \in Seq(Later)
    BY <2>1 DEF StartInv
  <2>3. queue' \in Seq(Later)
    BY <2>1, <2>2, SendQueues, OwnLater
  <2> QED
    BY <2>1, <2>2, <2>3 DEF StartInv
<1>8. ASSUME NEW len \in Sizes, SendOutside(len) PROVE StartInv'
  <2>1. /\ F("send", len) \in Later /\ queue' = Append(queue, F("send", len))
        /\ state = "connected" /\ UNCHANGED <<connection, phase, ready, batch>>
    BY <1>8 DEF SendOutside, F, Functors, Later
  <2>2. queue' \in Seq(Later)
    BY <2>1, AppendProperties DEF StartInv
  <2> QED
    BY <1>6, <2>1, <2>2
<1>9. CASE Close
  <2>1. /\ Queue(F("close", 0)) /\ state # "connecting"
        /\ UNCHANGED <<connection, phase, ready, batch>>
    BY <1>9 DEF Close, InCallback
  <2>2. queue' \in Seq(Later)
    <3>1. queue \in Seq(Later)
      BY <2>1 DEF StartInv
    <3> QED
      BY <2>1, <3>1, QueueRight, OwnLater
  <2> QED
    BY <1>6, <2>1, <2>2
<1>10. CASE Consume \/ Drain \/ Arrive \/ PeerEnds \/ WakeUp \/ UNCHANGED vars
  <2>1. UNCHANGED <<connection, phase, ready, queue, batch>>
    BY <1>10 DEF Consume, Drain, Arrive, PeerEnds, WakeUp, vars, loop
  <2> QED
    BY <2>1 DEF StartInv, connection
<1> QED
  BY <1>1, <1>2, <1>3, <1>4, <1>5, <1>7, <1>8, <1>9, <1>10 DEF Next, LoopStep, Users

\* Every step keeps the interest in writing.
LEMMA WriteStep ==
  ASSUME Flow, Flow', StartInv, WriteInv, [Next]_vars
  PROVE  WriteInv'
<1>1. OutFlow /\ OutFlow' /\ LoopInv
  BY DEF Flow
<1>2. ASSUME UNCHANGED connection PROVE WriteInv'
  BY <1>2 DEF WriteInv, WritingIffOutput, connection
<1>3. CASE RunFunctor
  <2>1. batch # <<>> /\ Execute(Head(batch))
    BY <1>3 DEF RunFunctor
  <2>2. CASE state = "connecting"
    <3>1. ConnectEstablished
      BY <2>1, <2>2, BatchHead DEF Execute, Established, F
    <3>2. UNCHANGED <<output, writing>>
      BY <3>1 DEF ConnectEstablished
    <3>3. writing = FALSE /\ readableBytes(output) = 0
      BY <2>2 DEF StartInv
    <3> QED
      BY <3>2, <3>3 DEF WriteInv, WritingIffOutput
  <2>3. CASE state # "connecting"
    <3>1. Head(batch) \in Functors /\ Head(batch).op # "established"
          /\ (Head(batch).op = "send" => Head(batch).len \in Nat)
      BY <1>1, <2>1, <2>3, BatchHead, HeadFunctor DEF Later
    <3>2. \/ Head(batch).len \in Nat /\ SendInLoopFunc(Head(batch).len)
          \/ HandleClose
          \/ UNCHANGED connection
      BY <2>1, <3>1 DEF Execute
    <3> QED
      BY <1>1, <1>2, <3>2, SendWrites, HandlersWrite
  <2> QED
    BY <2>2, <2>3
<1>4. ASSUME NEW e, HandleEvent(e) PROVE WriteInv'
  <2>1. HandleClose \/ HandleRead \/ HandleWrite
    BY <1>4 DEF HandleEvent
  <2> QED
    BY <1>1, <2>1, HandlersWrite
<1>5. ASSUME NEW len \in Sizes, Send(len) PROVE WriteInv'
  <2>1. len \in Nat /\ SendInLoopFunc(len)
    BY <1>5, ConnectionConstants DEF Send
  <2> QED
    BY <1>1, <2>1, SendWrites
<1> QED
  BY <1>2, <1>3, <1>4, <1>5
  DEF Next, LoopStep, Users, PollWakeup, PollEvents, DispatchDone, BatchDone, WakeUp, SendOutside,
      Close, Consume, Drain, Arrive, PeerEnds, vars

\* A connected connection waits to write exactly while there is something to write:
\* handleWrite never runs with an empty buffer, and no output waits unheeded.
THEOREM WritesWhenNeeded == Spec => []WritingIffOutput
<1> DEFINE IInv == Flow /\ StartInv /\ WriteInv
<1>1. Init => IInv
  <2> SUFFICES ASSUME Init PROVE IInv
    OBVIOUS
  <2>1. Flow
    BY FlowInit
  <2>2. readableBytes(output) = 0
    BY NewBufferRight, ConnectionConstants DEF Init
  <2>3. StartInv
    BY <2>2 DEF Init, StartInv, Established
  <2>4. WriteInv
    BY DEF Init, WriteInv, WritingIffOutput
  <2> QED
    BY <2>1, <2>3, <2>4
<1>2. IInv /\ [Next]_vars => IInv'
  BY FlowStep, StartStep, WriteStep
<1>3. IInv => WritingIffOutput
  BY DEF WriteInv
<1> QED
  BY <1>1, <1>2, <1>3, PTL DEF Spec

-----------------------------------------------------------------------------
(* Types.                                                                   *)

\* The variables that the invariants above do not speak of.
FlagInv ==
    /\ armed \in BOOLEAN /\ fired \in BOOLEAN /\ wakeup \in BOOLEAN /\ short \in BOOLEAN
    /\ peer \in {"open", "closed", "reset"} /\ phase \in {"poll", "dispatch", "batch"}
    /\ ready \subseteq {"close", "read", "write"}

\* Sending sets the flags to the values of conditions.
LEMMA SendFlags ==
  ASSUME FlagInv, NEW len, SendInLoopFunc(len)
  PROVE  armed' \in BOOLEAN /\ fired' \in BOOLEAN /\ wakeup' \in BOOLEAN
<1> USE DEF FlagInv
<1>1. ASSUME NEW f, Queue(f) PROVE wakeup' \in BOOLEAN
  BY <1>1 DEF Queue
<1>2. ASSUME NEW n, NEW free, Keep(len, n, free)
      PROVE  armed' \in BOOLEAN /\ fired' \in BOOLEAN /\ wakeup' \in BOOLEAN
  <2>1. wakeup' \in BOOLEAN
    BY <1>1, <1>2 DEF Keep
  <2>2. UNCHANGED <<armed, fired>> \/ SelectWrite(free)
    BY <1>2 DEF Keep, EnableWriting
  <2>3. ASSUME SelectWrite(free) PROVE armed' \in BOOLEAN /\ fired' \in BOOLEAN
    <3>1. (free = 0) \in BOOLEAN /\ (free > 0) \in BOOLEAN
      OBVIOUS
    <3>2. armed' = (free = 0) /\ fired' = (free > 0)
      BY <2>3, Zenon DEF SelectWrite
    <3> QED
      BY <3>1, <3>2, Zenon
  <2>4. armed' \in BOOLEAN /\ fired' \in BOOLEAN
    BY <2>2, <2>3
  <2> QED
    BY <2>1, <2>4
<1>3. ASSUME TryWrite(len)
      PROVE  armed' \in BOOLEAN /\ fired' \in BOOLEAN /\ wakeup' \in BOOLEAN
  <2>1. PICK n : \/ Keep(len, n, RoomAfter(n))
                 \/ Queue(F("complete", 0)) /\ UNCHANGED <<armed, fired>>
    BY <1>3 DEF TryWrite
  <2> QED
    BY <1>1, <1>2, <2>1
<1>4. TryWrite(len) \/ Keep(len, 0, room) \/ UNCHANGED <<armed, fired, wakeup>>
  BY DEF SendInLoopFunc, socket
<1> QED
  BY <1>2, <1>3, <1>4

\* So do the channel's callbacks.
LEMMA HandlerFlags ==
  ASSUME FlagInv, HandleClose \/ HandleRead \/ HandleWrite
  PROVE  /\ armed' \in BOOLEAN /\ fired' \in BOOLEAN /\ wakeup' \in BOOLEAN /\ short' \in BOOLEAN
         /\ peer' = peer
<1> USE DEF FlagInv
<1>1. ASSUME HandleClose
      PROVE  /\ armed' \in BOOLEAN /\ fired' \in BOOLEAN /\ UNCHANGED <<wakeup, short, peer>>
  BY <1>1 DEF HandleClose, SelectNoWrite, outgoing, network
<1>2. HandleRead => HandleClose \/ UNCHANGED <<armed, fired, wakeup, short, peer>>
  BY DEF HandleRead, socket, outgoing, network
<1>3. ASSUME HandleWrite, ~HandleClose
      PROVE  /\ armed' \in BOOLEAN /\ fired' \in BOOLEAN /\ wakeup' \in BOOLEAN
             /\ short' \in BOOLEAN /\ peer' = peer
  <2>1. peer' = peer /\ (short' = short \/ \E n : short' = (n < readableBytes(output)))
    BY <1>3 DEF HandleWrite, outgoing, network
  <2>2. AllWritten \/ UNCHANGED <<armed, fired, wakeup>>
    BY <1>3 DEF HandleWrite, socket
  <2>3. AllWritten => armed' = FALSE /\ fired' = FALSE /\ wakeup' = TRUE
    BY DEF AllWritten, SelectNoWrite, Queue
  <2>4. short' \in BOOLEAN
    <3>1. ASSUME NEW n PROVE (n < readableBytes(output)) \in BOOLEAN
      OBVIOUS
    <3> QED
      BY <2>1, <3>1, Zenon
  <2>5. armed' \in BOOLEAN /\ fired' \in BOOLEAN /\ wakeup' \in BOOLEAN
    BY <2>2, <2>3, Zenon
  <2> QED
    BY <2>1, <2>4, <2>5
<1> QED
  BY <1>1, <1>2, <1>3

\* So does every step.
LEMMA FlagStep ==
  ASSUME FlagInv, [Next]_vars
  PROVE  FlagInv'
<1>1. ASSUME NEW len, SendInLoopFunc(len), UNCHANGED <<phase, ready>> PROVE FlagInv'
  <2>1. UNCHANGED <<peer, short>>
    BY <1>1 DEF SendInLoopFunc, network
  <2> QED
    BY <1>1, <2>1, SendFlags DEF FlagInv
<1>2. ASSUME HandleClose \/ HandleRead \/ HandleWrite, phase' = phase, ready' \subseteq ready
      PROVE  FlagInv'
  BY <1>2, HandlerFlags DEF FlagInv
<1>3. ASSUME NEW e, HandleEvent(e) PROVE FlagInv'
  BY <1>2, <1>3 DEF HandleEvent
<1>4. CASE RunFunctor
  <2>1. UNCHANGED <<phase, ready>> /\ Execute(Head(batch))
    BY <1>4 DEF RunFunctor
  <2>2. ASSUME ConnectEstablished PROVE FlagInv'
    BY <2>1, <2>2 DEF ConnectEstablished, SelectNoWrite, FlagInv, outgoing, network
  <2>3. ASSUME UNCHANGED <<socket, network, wakeup, outgoing>> PROVE FlagInv'
    BY <2>1, <2>3 DEF FlagInv, socket, network, outgoing
  <2> QED
    BY <1>1, <1>2, <2>1, <2>2, <2>3 DEF Execute
<1>5. ASSUME NEW len \in Sizes, Send(len) PROVE FlagInv'
  BY <1>1, <1>5 DEF Send, InCallback
<1>6. ASSUME NEW len \in Sizes, SendOutside(len) PROVE FlagInv'
  BY <1>6 DEF SendOutside, FlagInv, socket, network, outgoing
<1>7. CASE Close
  BY <1>7 DEF Close, InCallback, Queue, FlagInv, socket, network, outgoing
<1>8. CASE Drain
  <2>1. /\ fired' = (fired \/ armed) /\ armed' = FALSE
        /\ UNCHANGED <<wakeup, short, peer, phase, ready>>
    BY <1>8 DEF Drain, network, loop, outgoing
  <2> QED
    BY <2>1, Zenon DEF FlagInv
<1>9. CASE PeerEnds
  BY <1>9 DEF PeerEnds, FlagInv, socket, loop, outgoing
<1>10. CASE PollEvents
  <2>1. Recorded \subseteq {"close", "read", "write"}
    BY DEF Recorded
  <2>2. /\ ready' = Recorded /\ phase' = "dispatch" /\ fired' = FALSE
        /\ UNCHANGED <<armed, wakeup, short, peer>>
    BY <1>10 DEF PollEvents, network, outgoing
  <2> QED
    BY <2>1, <2>2 DEF FlagInv
<1>11. CASE PollWakeup
  BY <1>11 DEF PollWakeup, FlagInv, socket, network, outgoing
<1>12. CASE DispatchDone
  BY <1>12 DEF DispatchDone, FlagInv, socket, network, outgoing
<1>13. CASE BatchDone
  BY <1>13 DEF BatchDone, FlagInv, socket, network, outgoing
<1>14. CASE WakeUp
  BY <1>14 DEF WakeUp, FlagInv, socket, network, outgoing
<1>15. CASE Consume \/ Arrive \/ UNCHANGED vars
  BY <1>15 DEF Consume, Arrive, vars, FlagInv, socket, network, loop, outgoing
<1> QED
  BY <1>3, <1>4, <1>5, <1>6, <1>7, <1>8, <1>9, <1>10, <1>11, <1>12, <1>13, <1>14, <1>15
  DEF Next, LoopStep, Users

\* Type correctness, the indices of both buffers included.
THEOREM ConnectionTypeCorrect == Spec => []TypeOK
<1> DEFINE IInv == Flow /\ StartInv /\ WriteInv /\ FlagInv
<1>1. Init => IInv
  <2> SUFFICES ASSUME Init PROVE IInv
    OBVIOUS
  <2>1. readableBytes(output) = 0
    BY NewBufferRight, ConnectionConstants DEF Init
  <2> QED
    BY <2>1, FlowInit
    DEF Init, StartInv, Established, WriteInv, WritingIffOutput, FlagInv
<1>2. IInv /\ [Next]_vars => IInv'
  BY FlowStep, StartStep, WriteStep, FlagStep
<1>3. IInv => TypeOK
  <2> SUFFICES ASSUME IInv PROVE TypeOK
    OBVIOUS
  <2>1. /\ MaxOut \in Nat /\ MaxIn \in Nat /\ MaxRoom \in Nat
    BY ConnectionConstants
  <2>2. accepted \in 0..MaxOut /\ sent \in 0..MaxOut /\ room \in 0..MaxRoom
    BY <2>1 DEF Flow, OutFlow
  <2>3. received \in 0..MaxIn /\ consumed \in 0..MaxIn /\ incoming \in 0..MaxIn
    BY <2>1 DEF Flow, InFlow
  <2> QED
    BY <2>2, <2>3 DEF TypeOK, Flow, OutFlow, InFlow, LoopInv, StartInv, WriteInv, FlagInv
<1> QED
  BY <1>1, <1>2, <1>3, PTL DEF Spec
=============================================================================
