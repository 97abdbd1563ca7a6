-------------------------- MODULE TimerQueueProofs --------------------------
(***************************************************************************)
(* Proofs about module TimerQueue, for any number of timers, addresses and *)
(* callers, any delays and intervals, and a clock that is off by any of    *)
(* any errors.                                                             *)
(***************************************************************************)
EXTENDS TimerQueue, SequenceTheorems, FiniteSetTheorems, TLAPS

(* The parts of the inductive invariant. *)

\* What the loop has queued, in its order.
Waiting == batch \o pending

\* The addresses that addTimerInLoop waits for in w, those in the two sets, and those
\* in the vector that handleRead works on.
Adds(w) == {w[i].address : i \in {j \in 1..Len(w) : w[j].op = "add"}}
Listed  == {t[2] : t \in timers}
Taken   == {expired[i][2] : i \in 1..Len(expired)}

\* No address is added twice.
AddedOnce(w) ==
    \A i, j \in 1..Len(w) :
        w[i].op = "add" /\ w[j].op = "add" /\ w[i].address = w[j].address => i = j

\* The two sets hold the listed timers by what their objects say.
SetsInv ==
    /\ timers = {<<heap[a].expiration, a>> : a \in Listed}
    /\ activeTimers = {<<a, heap[a].sequence>> : a \in Listed}

\* Every Timer is waiting to be added, listed or taken, once.
OwnInv ==
    /\ AddedOnce(Waiting)
    /\ \A i, j \in 1..Len(expired) : expired[i][2] = expired[j][2] => i = j
    /\ Adds(Waiting) \cap Listed = {} /\ Adds(Waiting) \cap Taken = {} /\ Listed \cap Taken = {}
    /\ {a \in Addresses : Live(a)} = Adds(Waiting) \cup Listed \cup Taken

\* A Timer is what addTimer was asked for.
ObjectInv ==
    \A a \in Addresses : Live(a) =>
        LET s == heap[a].sequence IN
        s \in DOMAIN ids /\ ids[s].address = a /\ ids[s].interval = heap[a].interval

\* A cancel that waits is one that was asked for, and behind the addition of its timer.
OrderInv(w) ==
    \A i \in 1..Len(w) : w[i].op = "cancel" =>
        /\ w[i].sequence \in cancelled /\ ids[w[i].sequence].address = w[i].address
        /\ heap[w[i].address].sequence = w[i].sequence =>
            \A j \in 1..Len(w) : w[j].op = "add" /\ w[j].address = w[i].address => j < i

\* It waits until the timer is gone ...
CancelInv(w) ==
    \A s \in cancelled :
        \/ heap[ids[s].address].sequence # s
        \/ \E i \in 1..Len(w) : w[i].op = "cancel" /\ w[i].sequence = s

\* ... which it is before the loop looks at the timer channel again.
PromptInv ==
    \A i \in 1..Len(pending) : pending[i].op = "cancel" =>
        wakeup \/ loopPc \in {"run", "callback", "handler", "swap"}

\* Where the loop is: a batch and a vector exist only while they are worked on, and
\* the timers in front of nextRun have run.
LoopInv ==
    /\ loopPc # "batch" => batch = <<>>
    /\ ~InHandleRead => expired = <<>> /\ nextRun = 1
    /\ loopPc = "callback" => nextRun <= Len(expired)
    /\ \A i \in 1..Len(expired) :
        i < nextRun \/ (i = nextRun /\ loopPc = "callback") => heap[expired[i][2]].sequence \in ran

\* Where the timers are ...
DataInv ==
    /\ SetsInv /\ OwnInv /\ ObjectInv /\ NoTimerLost
    /\ OrderInv(Waiting) /\ CancelInv(Waiting)

\* ... and when the loop looks at them.
IInv == TypeOK /\ DataInv /\ LoopInv /\ PromptInv /\ AlarmSet
-----------------------------------------------------------------------------
(* What waits.                                                              *)

\* The functors that wait are typed.
LEMMA WaitingTyped ==
  ASSUME TypeOK
  PROVE  /\ batch \in Seq(Functors) /\ pending \in Seq(Functors) /\ Waiting \in Seq(Functors)
         /\ Len(Waiting) \in Nat /\ \A i \in 1..Len(Waiting) : Waiting[i] \in Functors
<1>1. batch \in Seq(Functors) /\ pending \in Seq(Functors)
  BY DEF TypeOK
<1>2. Waiting \in Seq(Functors)
  BY <1>1, ConcatProperties DEF Waiting
<1> QED
  BY <1>1, <1>2, LenProperties, ElementOfSeq

\* What addTimer was asked for is typed.
LEMMA IdsTyped ==
  ASSUME TypeOK
  PROVE  /\ Len(ids) \in Nat /\ DOMAIN ids = 1..Len(ids)
         /\ \A s \in DOMAIN ids :
              s \in Nat /\ s # 0 /\ s <= Len(ids) /\ s <= MaxTimers
              /\ ids[s].address \in Addresses /\ ids[s].interval \in Nat
<1>1. /\ Len(ids) \in Nat /\ DOMAIN ids = 1..Len(ids) /\ Len(ids) <= MaxTimers
      /\ \A s \in 1..Len(ids) : ids[s] \in [address : Addresses, expiration : Nat, interval : Nat]
  BY LenProperties, ElementOfSeq DEF TypeOK
<1>2. \A s \in 1..Len(ids) : s \in Nat /\ s # 0 /\ s <= Len(ids) /\ s <= MaxTimers
  BY <1>1, TimerConstants
<1> QED
  BY <1>1, <1>2

\* The swap leaves what waits as it is.
LEMMA SwapWaits ==
  ASSUME TypeOK, batch = <<>>, batch' = pending, pending' = <<>>
  PROVE  Waiting' = Waiting
<1>1. pending \in Seq(Functors)
  BY DEF TypeOK
<1> QED
  BY <1>1, ConcatEmptySeq DEF Waiting

\* What is queued waits behind everything else.
LEMMA PushWaits ==
  ASSUME TypeOK, NEW f \in Functors, batch' = batch, pending' = Append(pending, f)
  PROVE  Waiting' = Append(Waiting, f)
<1>1. batch \in Seq(Functors) /\ pending \in Seq(Functors) /\ Waiting \in Seq(Functors)
      /\ <<f>> \in Seq(Functors)
  BY WaitingTyped
<1>2. Append(pending, f) = pending \o <<f>> /\ Append(Waiting, f) = Waiting \o <<f>>
  BY <1>1, AppendIsConcat
<1>3. (batch \o pending) \o <<f>> = batch \o (pending \o <<f>>)
  BY <1>1, ConcatAssociative
<1> QED
  BY <1>2, <1>3 DEF Waiting

\* The functor that runs is the first that waits.
LEMMA RunWaits ==
  ASSUME TypeOK, batch # <<>>, batch' = Tail(batch), pending' = pending
  PROVE  /\ Waiting # <<>> /\ Head(batch) = Waiting[1]
         /\ Waiting' \in Seq(Functors) /\ Len(Waiting) \in Nat \ {0}
         /\ Len(Waiting') = Len(Waiting) - 1
         /\ \A i \in 1..Len(Waiting') : Waiting'[i] = Waiting[i + 1]
<1> DEFINE b == batch
           q == pending
           t == Tail(b)
<1>1. b \in Seq(Functors) /\ q \in Seq(Functors) /\ b # <<>>
      /\ Waiting = b \o q /\ Waiting' = t \o q
  BY DEF TypeOK, Waiting
<1> HIDE DEF b, q
<1>2. t \in Seq(Functors) /\ Len(t) = Len(b) - 1 /\ \A i \in 1..Len(t) : t[i] = b[i + 1]
  BY <1>1, HeadTailProperties
<1>3. Len(b) \in Nat \ {0} /\ Len(q) \in Nat /\ Head(b) = b[1]
  BY <1>1, EmptySeq, LenProperties
<1> HIDE DEF t
<1>4. b \o q \in Seq(Functors) /\ Len(b \o q) = Len(b) + Len(q)
      /\ \A i \in 1..(Len(b) + Len(q)) :
             (b \o q)[i] = IF i <= Len(b) THEN b[i] ELSE q[i - Len(b)]
  BY <1>1, ConcatProperties
<1>5. t \o q \in Seq(Functors) /\ Len(t \o q) = Len(t) + Len(q)
      /\ \A i \in 1..(Len(t) + Len(q)) :
             (t \o q)[i] = IF i <= Len(t) THEN t[i] ELSE q[i - Len(t)]
  BY <1>1, <1>2, ConcatProperties
<1> DEFINE w == b \o q
           v == t \o q
           m == Len(b)
           n == Len(q)
<1>6. m \in Nat \ {0} /\ n \in Nat /\ Len(w) = m + n /\ Len(v) = m - 1 + n
  BY <1>2, <1>3, <1>4, <1>5
<1>7. ASSUME NEW i \in 1..Len(v) PROVE v[i] = w[i + 1]
  <2>1. i \in 1..(Len(t) + Len(q)) /\ Len(t) = m - 1 /\ i \in Int
    BY <1>2, <1>5
  <2>2. v[i] = IF i <= Len(t) THEN t[i] ELSE q[i - Len(t)]
    BY <1>5, <2>1
  <2> HIDE DEF m, n
  <2>3. i + 1 \in 1..(m + n) /\ (i <= m - 1 <=> i + 1 <= m) /\ i - (m - 1) = i + 1 - m
        /\ (i <= m - 1 => i \in 1..(m - 1))
    BY <1>6, <1>7, <2>1
  <2>4. w[i + 1] = IF i + 1 <= m THEN b[i + 1] ELSE q[i + 1 - m]
    BY <1>4, <2>3 DEF m, n
  <2>5. i <= m - 1 => t[i] = b[i + 1]
    BY <1>2, <2>1, <2>3
  <2> QED
    BY <2>1, <2>2, <2>3, <2>4, <2>5
<1>8. w # <<>> /\ w[1] = Head(b) /\ Len(w) \in Nat \ {0} /\ Len(v) = Len(w) - 1
  <2>1. w[1] = b[1]
    <3> HIDE DEF m, n
    <3>1. 1 \in 1..(m + n) /\ 1 <= m
      BY <1>6
    <3> QED
      BY <1>4, <3>1 DEF m, n
  <2>2. Len(w) \in Nat \ {0} /\ Len(v) = Len(w) - 1
    <3> HIDE DEF m, n
    <3> QED
      BY <1>6
  <2> QED
    BY <1>3, <2>1, <2>2
<1> QED
  BY <1>1, <1>5, <1>7, <1>8 DEF b

\* What is to be added when one more functor waits ...
LEMMA AddsAppend ==
  ASSUME NEW w \in Seq(Functors), NEW f \in Functors
  PROVE  /\ Adds(Append(w, f)) = Adds(w) \cup (IF f.op = "add" THEN {f.address} ELSE {})
         /\ AddedOnce(w) /\ (f.op = "add" => f.address \notin Adds(w)) => AddedOnce(Append(w, f))
<1> DEFINE v == Append(w, f)
           n == Len(w)
<1>1. n \in Nat /\ Len(v) = n + 1 /\ v[n + 1] = f /\ \A i \in 1..n : v[i] = w[i]
  BY AppendProperties, LenProperties
<1> HIDE DEF v, n
<1>2. \A i : i \in 1..(n + 1) <=> i \in 1..n \/ i = n + 1
  BY <1>1
<1>3. Adds(w) = {w[i].address : i \in {j \in 1..n : w[j].op = "add"}}
  BY DEF Adds, n
<1>4. Adds(v) = Adds(w) \cup (IF f.op = "add" THEN {f.address} ELSE {})
  <2>1. Adds(v) = {v[i].address : i \in {j \in 1..(n + 1) : v[j].op = "add"}}
    BY <1>1 DEF Adds
  <2>2. ASSUME NEW x \in Adds(v) PROVE x \in Adds(w) \cup (IF f.op = "add" THEN {f.address} ELSE {})
    <3>1. PICK i \in 1..(n + 1) : v[i].op = "add" /\ v[i].address = x
      BY <2>1
    <3> QED
      BY <1>1, <1>2, <1>3, <3>1
  <2>3. ASSUME NEW x \in Adds(w) PROVE x \in Adds(v)
    <3>1. PICK i \in 1..n : w[i].op = "add" /\ w[i].address = x
      BY <1>3
    <3> QED
      BY <1>1, <1>2, <2>1, <3>1
  <2>4. f.op = "add" => f.address \in Adds(v)
    BY <1>1, <1>2, <2>1
  <2> QED
    BY <2>2, <2>3, <2>4
<1>5. ASSUME AddedOnce(w), f.op = "add" => f.address \notin Adds(w),
             NEW i \in 1..(n + 1), NEW j \in 1..(n + 1),
             v[i].op = "add", v[j].op = "add", v[i].address = v[j].address
      PROVE  i = j
  <2>1. CASE i \in 1..n /\ j \in 1..n
    BY <1>1, <1>5, <2>1 DEF AddedOnce, n
  <2>2. CASE i = n + 1 /\ j \in 1..n
    BY <1>1, <1>3, <1>5, <2>2
  <2>3. CASE j = n + 1 /\ i \in 1..n
    BY <1>1, <1>3, <1>5, <2>3
  <2> QED
    BY <1>2, <2>1, <2>2, <2>3
<1>6. AddedOnce(w) /\ (f.op = "add" => f.address \notin Adds(w)) => AddedOnce(v)
  BY <1>1, <1>5 DEF AddedOnce
<1> QED
  BY <1>4, <1>6 DEF v

\* ... and when the first of them runs.
LEMMA AddsTail ==
  ASSUME NEW w, NEW v, Len(w) \in Nat \ {0}, Len(v) = Len(w) - 1,
         \A i \in 1..Len(v) : v[i] = w[i + 1], AddedOnce(w)
  PROVE  AddedOnce(v) /\ Adds(v) = Adds(w) \ (IF w[1].op = "add" THEN {w[1].address} ELSE {})
<1> DEFINE n == Len(w)
<1>1. n \in Nat \ {0} /\ Len(v) = n - 1 /\ \A i \in 1..(n - 1) : v[i] = w[i + 1]
  OBVIOUS
<1>2. /\ Adds(w) = {w[i].address : i \in {j \in 1..n : w[j].op = "add"}}
      /\ Adds(v) = {v[i].address : i \in {j \in 1..(n - 1) : v[j].op = "add"}}
      /\ \A i, j \in 1..n :
             w[i].op = "add" /\ w[j].op = "add" /\ w[i].address = w[j].address => i = j
  BY <1>1 DEF Adds, AddedOnce
<1> HIDE DEF n
<1>3. \A i \in 1..(n - 1) : i + 1 \in 1..n /\ i + 1 # 1
  BY <1>1
<1>4. \A i \in 1..n : i # 1 => i - 1 \in 1..(n - 1) /\ i - 1 + 1 = i
  BY <1>1
<1>5. 1 \in 1..n
  BY <1>1
<1>6. AddedOnce(v)
  <2> SUFFICES ASSUME NEW i \in 1..(n - 1), NEW j \in 1..(n - 1),
                      v[i].op = "add", v[j].op = "add", v[i].address = v[j].address
               PROVE  i = j
    BY <1>1 DEF AddedOnce
  <2>1. i + 1 = j + 1
    BY <1>1, <1>2, <1>3
  <2> QED
    BY <2>1
<1>7. ASSUME NEW x \in Adds(v) PROVE x \in Adds(w) /\ ~(w[1].op = "add" /\ x = w[1].address)
  <2>1. PICK i \in 1..(n - 1) : v[i].op = "add" /\ v[i].address = x
    BY <1>2
  <2>2. i + 1 \in 1..n /\ i + 1 # 1 /\ w[i + 1].op = "add" /\ w[i + 1].address = x
    BY <1>1, <1>3, <2>1
  <2> QED
    BY <1>2, <1>5, <2>2
<1>8. ASSUME NEW x \in Adds(w), ~(w[1].op = "add" /\ x = w[1].address) PROVE x \in Adds(v)
  <2>1. PICK i \in 1..n : w[i].op = "add" /\ w[i].address = x
    BY <1>2
  <2>2. i # 1
    BY <1>8, <2>1
  <2>3. i - 1 \in 1..(n - 1) /\ v[i - 1] = w[i]
    BY <1>1, <1>4, <2>1, <2>2
  <2> QED
    BY <1>2, <2>1, <2>3
<1> QED
  BY <1>6, <1>7, <1>8
-----------------------------------------------------------------------------
(* The two sets.                                                            *)

\* An address is listed with one entry in each set.
LEMMA ListedEntries ==
  ASSUME TypeOK, SetsInv
  PROVE  /\ Listed \subseteq Addresses
         /\ \A a \in Listed : <<heap[a].expiration, a>> \in timers
                              /\ <<a, heap[a].sequence>> \in activeTimers
         /\ \A t \in timers : t[2] \in Listed /\ t = <<heap[t[2]].expiration, t[2]>>
         /\ \A t \in activeTimers : t[1] \in Listed /\ t = <<t[1], heap[t[1]].sequence>>
<1>1. timers \subseteq Nat \X Addresses
  BY DEF TypeOK
<1> QED
  BY <1>1 DEF SetsInv, Listed

\* The two sets agree when both are made of the same addresses.
LEMMA SetsBecome ==
  ASSUME NEW L, NEW h, heap' = h, timers' = {<<h[a].expiration, a>> : a \in L},
         activeTimers' = {<<a, h[a].sequence>> : a \in L}
  PROVE  Listed' = L /\ SetsInv'
<1> DEFINE T == {<<h[a].expiration, a>> : a \in L}
<1>1. {t[2] : t \in T} = L
  <2>1. \A t \in T : t[2] \in L
    OBVIOUS
  <2>2. \A a \in L : <<h[a].expiration, a>> \in T /\ <<h[a].expiration, a>>[2] = a
    OBVIOUS
  <2> HIDE DEF T
  <2>3. ASSUME NEW a \in L PROVE a \in {t[2] : t \in T}
    <3>1. PICK t \in T : t[2] = a
      BY <2>2
    <3> QED
      BY <3>1
  <2> QED
    BY <2>1, <2>3
<1>2. Listed' = L
  BY <1>1 DEF Listed
<1> QED
  BY <1>2 DEF SetsInv

\* There are finitely many timers.
LEMMA FiniteTimers ==
  ASSUME TypeOK, SetsInv
  PROVE  IsFiniteSet(timers)
<1>1. NumAddresses \in Nat
  BY TimerConstants
<1>2. IsFiniteSet(Addresses)
  BY <1>1, FS_Interval DEF Addresses
<1>3. PICK L : L = Listed
  OBVIOUS
<1>4. PICK T : T = timers
  OBVIOUS
<1>5. L \subseteq Addresses /\ \A t \in T : t[2] \in L /\ t = <<heap[t[2]].expiration, t[2]>>
  BY <1>3, <1>4, ListedEntries
<1>6. IsFiniteSet(L)
  BY <1>2, <1>5, FS_Subset
<1> DEFINE f == [t \in T |-> t[2]]
<1>7. f \in Injection(T, L)
  BY <1>5 DEF Injection, IsInjective
<1>8. IsFiniteSet(T)
  BY <1>6, <1>7, FS_Injection
<1> QED
  BY <1>4, <1>8

\* The vector of getExpired holds each entry once.
LEMMA InOrderRight ==
  ASSUME NEW S, IsFiniteSet(S), S \subseteq Nat \X Addresses, NEW s \in InOrder(S)
  PROVE  /\ s \in Seq(S) /\ Len(s) \in Nat /\ DOMAIN s = 1..Len(s)
         /\ \A i \in 1..Len(s) : s[i] \in S
         /\ \A t \in S : \E i \in 1..Len(s) : s[i] = t
         /\ \A i, j \in 1..Len(s) : s[i] = s[j] => i = j
<1> DEFINE n == Cardinality(S)
<1>1. n \in Nat
  BY FS_CardinalityType
<1>2. s \in [1..n -> S] /\ Range(s) = S /\ \A i, j \in DOMAIN s : i < j => Before(s[i], s[j])
  BY DEF InOrder
<1> HIDE DEF n
<1>3. s \in Seq(S)
  BY <1>1, <1>2 DEF Seq
<1>4. Len(s) = n /\ DOMAIN s = 1..n
  BY <1>1, <1>2, <1>3
<1>5. \A t \in S : \E i \in 1..n : s[i] = t
  BY <1>2, <1>4 DEF Range
<1>6. ASSUME NEW i \in 1..n, NEW j \in 1..n, i < j PROVE s[i] # s[j]
  <2>1. Before(s[i], s[j])
    BY <1>2, <1>4, <1>6
  <2>2. s[i] \in Nat \X Addresses /\ s[i][1] \in Nat /\ s[i][2] \in Nat
    BY <1>2 DEF Addresses
  <2> QED
    BY <2>1, <2>2 DEF Before
<1>7. ASSUME NEW i \in 1..n, NEW j \in 1..n, s[i] = s[j] PROVE i = j
  <2>1. i \in Int /\ j \in Int
    BY <1>1
  <2>2. ~(i < j) /\ ~(j < i)
    BY <1>6, <1>7
  <2> QED
    BY <2>1, <2>2
<1> QED
  BY <1>1, <1>2, <1>3, <1>4, <1>5, <1>7
-----------------------------------------------------------------------------
(* Steps that leave the parts of the invariant as they are.                 *)

\* Where the timers are does not change, though more of them may have run.
LEMMA DataKept ==
  ASSUME DataInv, UNCHANGED <<data, expired, ids, cancelled, cancelledOff>>, Waiting' = Waiting,
         ran \subseteq ran'
  PROVE  DataInv'
<1>1. heap' = heap /\ timers' = timers /\ activeTimers' = activeTimers /\ expired' = expired
      /\ ids' = ids /\ cancelled' = cancelled /\ cancelledOff' = cancelledOff
  BY DEF data
<1>2. SetsInv'
  BY <1>1 DEF DataInv, SetsInv, Listed
<1>3. OwnInv'
  <2>1. Adds(Waiting)' = Adds(Waiting) /\ (AddedOnce(Waiting) => AddedOnce(Waiting)')
        /\ Listed' = Listed /\ Taken' = Taken
    BY <1>1 DEF AddedOnce, Adds, Listed, Taken
  <2>2. {a \in Addresses : Live(a)}' = {a \in Addresses : Live(a)}
    BY <1>1 DEF Live
  <2>3. \A i, j \in 1..Len(expired') : expired'[i][2] = expired'[j][2] => i = j
    BY <1>1 DEF DataInv, OwnInv
  <2> QED
    BY <2>1, <2>2, <2>3 DEF DataInv, OwnInv
<1>4. ObjectInv'
  BY <1>1 DEF DataInv, ObjectInv, Live
<1>5. NoTimerLost'
  BY <1>1 DEF DataInv, NoTimerLost
<1>6. OrderInv(Waiting)'
  BY <1>1 DEF DataInv, OrderInv
<1>7. CancelInv(Waiting)'
  BY <1>1 DEF DataInv, CancelInv
<1> QED
  BY <1>2, <1>3, <1>4, <1>5, <1>6, <1>7 DEF DataInv

\* The alarm is still set when timers only go, and while handleRead runs.
LEMMA AlarmKept ==
  ASSUME TypeOK, AlarmSet, timers' \subseteq timers, UNCHANGED alarm, now' \in {now, now + 1},
         InHandleRead' \/ ~InHandleRead
  PROVE  AlarmSet'
<1>1. now \in Nat /\ due \in Nat \cup {Never} /\ due' = due /\ signaled' = signaled
  BY TimerConstants DEF TypeOK, alarm
<1>2. due # Never => due \in Nat
  BY <1>1
<1>3. due # Never /\ due <= now => due' <= now'
  BY <1>1, <1>2
<1> SUFFICES ASSUME timers' # {}, ~InHandleRead', ~signaled'
             PROVE  due' # Never /\ \A w \in Expirations(timers') : due' <= w \/ due' <= now'
  BY DEF AlarmSet
<1>4. due # Never /\ \A w \in Expirations(timers) : due <= w \/ due <= now
  BY <1>1 DEF AlarmSet
<1>5. \A w \in Expirations(timers') : w \in Expirations(timers)
  BY DEF Expirations
<1> QED
  BY <1>1, <1>3, <1>4, <1>5

\* A reset arms the waitable timer in time for the expiration it was given.
LEMMA ResetArms ==
  ASSUME TypeOK, NEW e \in Nat, ResetTimerfd(e)
  PROVE  /\ due' \in Nat /\ signaled' = FALSE
         /\ due' <= e \/ due' <= now
<1>1. now \in Nat
  BY TimerConstants DEF TypeOK
<1>2. PICK r \in Readings : due' = now + (IF e > r THEN e - r ELSE 0) /\ signaled' = FALSE
  BY DEF ResetTimerfd
<1>3. r \in Nat /\ r >= now
  BY <1>1, TimerConstants DEF Readings
<1> QED
  BY <1>1, <1>2, <1>3

\* The loop does not move and nothing is queued.
LEMMA LoopKept ==
  ASSUME LoopInv, UNCHANGED <<loopPc, batch, expired, nextRun>>, ran \subseteq ran',
         \A i \in 1..Len(expired) : heap'[expired[i][2]].sequence = heap[expired[i][2]].sequence
  PROVE  LoopInv'
BY DEF LoopInv, InHandleRead
-----------------------------------------------------------------------------
(* Steps of the clock and of the loop that leave the timers where they are.  *)

\* Time passes.
LEMMA TickStep == ASSUME IInv, Tick PROVE IInv'
<1> USE DEF IInv, data, alarm, queue, reading, history
<1>1. TypeOK'
  BY TimerConstants DEF Tick, TypeOK, LoopPc
<1>2. DataInv'
  BY DataKept DEF Tick, Waiting
<1>3. LoopInv'
  BY DEF Tick, LoopInv, InHandleRead
<1>4. PromptInv'
  BY DEF Tick, PromptInv
<1>5. AlarmSet'
  BY AlarmKept DEF Tick, InHandleRead
<1> QED
  BY <1>1, <1>2, <1>3, <1>4, <1>5

\* The waitable timer fires.
LEMMA FireStep == ASSUME IInv, Fire PROVE IInv'
<1> USE DEF IInv, data, alarm, queue, reading, history
<1>1. TypeOK'
  BY TimerConstants DEF Fire, TypeOK, LoopPc
<1>2. DataInv'
  BY DataKept DEF Fire, Waiting
<1>3. LoopInv'
  BY DEF Fire, LoopInv, InHandleRead
<1>4. PromptInv'
  BY DEF Fire, PromptInv
<1>5. AlarmSet'
  BY DEF Fire, AlarmSet
<1> QED
  BY <1>1, <1>2, <1>3, <1>4, <1>5

\* The loop finds the wakeup event first.
LEMMA PollWakeupStep == ASSUME IInv, PollWakeup PROVE IInv'
<1> USE DEF IInv, data, alarm, queue, reading, history
<1>1. TypeOK'
  BY TimerConstants DEF PollWakeup, TypeOK, LoopPc
<1>2. DataInv'
  BY DataKept DEF PollWakeup, Waiting
<1>3. LoopInv'
  BY DEF PollWakeup, LoopInv, InHandleRead
<1>4. PromptInv'
  BY DEF PollWakeup, PromptInv
<1>5. AlarmSet'
  BY AlarmKept DEF PollWakeup, InHandleRead
<1> QED
  BY <1>1, <1>2, <1>3, <1>4, <1>5

\* The loop finds another channel, or nothing.
LEMMA PollOtherStep == ASSUME IInv, PollOther PROVE IInv'
<1> USE DEF IInv, data, alarm, queue, reading, history
<1>1. TypeOK'
  BY TimerConstants DEF PollOther, TypeOK, LoopPc
<1>2. DataInv'
  BY DataKept DEF PollOther, Waiting
<1>3. LoopInv'
  BY DEF PollOther, LoopInv, InHandleRead
<1>4. PromptInv'
  BY DEF PollOther, PromptInv
<1>5. AlarmSet'
  BY AlarmKept DEF PollOther, InHandleRead
<1> QED
  BY <1>1, <1>2, <1>3, <1>4, <1>5

\* A callback is called.
LEMMA RunTimerStep == ASSUME IInv, RunTimer PROVE IInv'
<1> USE DEF IInv, data, alarm, queue, reading, history
<1>1. TypeOK'
  <2>1. nextRun \in 1..Len(expired) /\ expired[nextRun] \in Nat \X Addresses
    <3>1. Len(expired) \in Nat /\ nextRun \in Int /\ nextRun >= 1
      BY LenProperties DEF TypeOK
    <3>2. nextRun \in 1..Len(expired)
      BY <3>1 DEF RunTimer
    <3> QED
      BY <3>2, ElementOfSeq DEF TypeOK
  <2>2. heap[expired[nextRun][2]].sequence \in DOMAIN ids
    <3> DEFINE a == expired[nextRun][2]
    <3>1. a \in Taken /\ a \in Addresses
      BY <2>1 DEF Taken
    <3>2. Live(a)
      BY <3>1 DEF DataInv, OwnInv
    <3> QED
      BY <3>1, <3>2 DEF DataInv, ObjectInv
  <2>3. ran' \subseteq DOMAIN ids
    BY <2>2 DEF RunTimer, TypeOK
  <2> QED
    BY <2>3 DEF RunTimer, TypeOK, LoopPc
<1>2. DataInv'
  BY DataKept DEF RunTimer, Waiting
<1>3. LoopInv'
  BY DEF RunTimer, LoopInv, InHandleRead
<1>4. PromptInv'
  BY DEF RunTimer, PromptInv
<1>5. AlarmSet'
  BY AlarmKept DEF RunTimer, InHandleRead
<1> QED
  BY <1>1, <1>2, <1>3, <1>4, <1>5

\* A callback returns.
LEMMA CallbackReturnsStep == ASSUME IInv, CallbackReturns PROVE IInv'
<1> USE DEF IInv, data, alarm, queue, reading, history
<1>1. TypeOK'
  <2>1. Len(expired) \in Nat /\ nextRun \in Nat /\ nextRun >= 1
    BY LenProperties DEF TypeOK
  <2>2. nextRun' \in 1..(Len(expired') + 1)
    BY <2>1 DEF CallbackReturns, LoopInv
  <2> QED
    BY <2>2 DEF CallbackReturns, TypeOK, LoopPc
<1>2. DataInv'
  BY DataKept DEF CallbackReturns, Waiting
<1>3. LoopInv'
  <2>1. nextRun \in Int /\ \A i \in 1..Len(expired) : i < nextRun + 1 => i < nextRun \/ i = nextRun
    BY LenProperties DEF TypeOK
  <2> QED
    BY <2>1 DEF CallbackReturns, LoopInv, InHandleRead
<1>4. PromptInv'
  BY DEF CallbackReturns, PromptInv
<1>5. AlarmSet'
  BY AlarmKept DEF CallbackReturns, InHandleRead
<1> QED
  BY <1>1, <1>2, <1>3, <1>4, <1>5

\* doPendingFunctors takes the queue.
LEMMA SwapStep == ASSUME IInv, Swap PROVE IInv'
<1> USE DEF IInv, data, alarm, queue, reading, history
<1>1. TypeOK'
  BY TimerConstants DEF Swap, TypeOK, LoopPc
<1>2. DataInv'
  BY SwapWaits, DataKept DEF Swap, LoopInv
<1>3. LoopInv'
  BY DEF Swap, LoopInv, InHandleRead
<1>4. PromptInv'
  <2>1. 1..Len(pending') = {}
    BY DEF Swap
  <2> QED
    BY <2>1 DEF PromptInv
<1>5. AlarmSet'
  BY AlarmKept DEF Swap, InHandleRead
<1> QED
  BY <1>1, <1>2, <1>3, <1>4, <1>5

\* The batch is done.
LEMMA BatchDoneStep == ASSUME IInv, BatchDone PROVE IInv'
<1> USE DEF IInv, data, alarm, queue, reading, history
<1>1. TypeOK'
  BY TimerConstants DEF BatchDone, TypeOK, LoopPc
<1>2. DataInv'
  BY DataKept DEF BatchDone, Waiting
<1>3. LoopInv'
  BY DEF BatchDone, LoopInv, InHandleRead
<1>4. PromptInv'
  BY DEF BatchDone, PromptInv
<1>5. AlarmSet'
  BY AlarmKept DEF BatchDone, InHandleRead
<1> QED
  BY <1>1, <1>2, <1>3, <1>4, <1>5

\* A caller wakes the loop.
LEMMA WakeStep == ASSUME IInv, NEW c \in Callers, WakeUp(c) PROVE IInv'
<1> USE DEF IInv, data, alarm, queue, reading, history
<1>1. TypeOK'
  BY TimerConstants DEF WakeUp, TypeOK, LoopPc
<1>2. DataInv'
  BY DataKept DEF WakeUp, Waiting
<1>3. LoopInv'
  BY DEF WakeUp, LoopInv, InHandleRead
<1>4. PromptInv'
  BY DEF WakeUp, PromptInv
<1>5. AlarmSet'
  BY AlarmKept DEF WakeUp, InHandleRead
<1> QED
  BY <1>1, <1>2, <1>3, <1>4, <1>5

\* Nothing happens.
LEMMA StutterStep == ASSUME IInv, UNCHANGED vars PROVE IInv'
<1> USE DEF IInv, data, alarm, queue, reading, history
<1>1. TypeOK'
  BY TimerConstants DEF vars, TypeOK, LoopPc
<1>2. DataInv'
  BY DataKept DEF vars, Waiting
<1>3. LoopInv'
  BY DEF vars, LoopInv, InHandleRead
<1>4. PromptInv'
  BY DEF vars, PromptInv
<1>5. AlarmSet'
  BY AlarmKept DEF vars, InHandleRead
<1> QED
  BY <1>1, <1>2, <1>3, <1>4, <1>5
-----------------------------------------------------------------------------
(* handleRead.                                                              *)

\* getExpired: the expired timers go from the two sets into the vector.
LEMMA GetExpiredStep == ASSUME IInv, GetExpired PROVE IInv'
<1> USE DEF IInv
<1>1. PICK r \in Readings :
        /\ readAt' = r
        /\ expired' \in InOrder({t \in timers : HasExpired(t, r)})
        /\ timers' = timers \ {t \in timers : HasExpired(t, r)}
        /\ activeTimers' =
             activeTimers \ {<<t[2], heap[t[2]].sequence>> : t \in {u \in timers : HasExpired(u, r)}}
  BY DEF GetExpired
<1>2. PICK gone : gone = {t \in timers : HasExpired(t, r)}
  OBVIOUS
<1>3. /\ loopPc = "poll" /\ loopPc' = "run" /\ signaled' = FALSE /\ nextRun' = 1
      /\ UNCHANGED <<now, heap, due, callerPc, wakeup, pending, batch>>
      /\ ids' = ids /\ ran' = ran /\ cancelled' = cancelled /\ cancelledOff' = cancelledOff
  BY DEF GetExpired, queue, history
<1>4. gone \subseteq timers /\ IsFiniteSet(gone) /\ gone \subseteq Nat \X Addresses
  <2>1. gone \subseteq timers /\ timers \subseteq Nat \X Addresses
    BY <1>2 DEF TypeOK
  <2>2. IsFiniteSet(timers)
    BY FiniteTimers DEF DataInv
  <2>3. IsFiniteSet(gone)
    BY <2>1, <2>2, FS_Subset
  <2> QED
    BY <2>1, <2>3
<1>5. PICK e : e = expired' /\ e \in InOrder(gone)
  BY <1>1, <1>2
<1>6. /\ e \in Seq(gone) /\ Len(e) \in Nat /\ DOMAIN e = 1..Len(e)
      /\ \A i \in 1..Len(e) : e[i] \in gone
      /\ \A t \in gone : \E i \in 1..Len(e) : e[i] = t
      /\ \A i, j \in 1..Len(e) : e[i] = e[j] => i = j
  <2>1. IsFiniteSet(gone) /\ gone \subseteq Nat \X Addresses /\ e \in InOrder(gone)
    BY <1>4, <1>5
  <2> HIDE DEF IInv
  <2> QED
    BY ONLY <2>1, InOrderRight, Zenon
<1>7. PICK L : L = Listed
  OBVIOUS
<1>8. /\ L \subseteq Addresses
      /\ \A a \in L : <<heap[a].expiration, a>> \in timers /\ <<a, heap[a].sequence>> \in activeTimers
      /\ \A t \in timers : t[2] \in L /\ t = <<heap[t[2]].expiration, t[2]>>
      /\ \A t \in activeTimers : t[1] \in L /\ t = <<t[1], heap[t[1]].sequence>>
  BY <1>7, ListedEntries DEF DataInv
<1>9. PICK G : G = {t[2] : t \in gone}
  OBVIOUS
<1>10. \A a \in L : a \in G <=> <<heap[a].expiration, a>> \in gone
  BY <1>4, <1>8, <1>9
<1>11. timers' = {<<heap[a].expiration, a>> : a \in L \ G}
  <2>1. timers' = timers \ gone
    BY <1>1, <1>2
  <2>2. ASSUME NEW t \in timers \ gone PROVE t \in {<<heap[a].expiration, a>> : a \in L \ G}
    <3>1. t[2] \in L \ G /\ t = <<heap[t[2]].expiration, t[2]>>
      BY <1>8, <1>10, <2>2
    <3> QED
      BY <3>1
  <2>3. \A a \in L \ G : <<heap[a].expiration, a>> \in timers \ gone
    BY <1>8, <1>10
  <2> QED
    BY <2>1, <2>2, <2>3
<1>12. activeTimers' = {<<a, heap[a].sequence>> : a \in L \ G}
  <2> DEFINE off == {<<t[2], heap[t[2]].sequence>> : t \in gone}
  <2>1. activeTimers' = activeTimers \ off
    BY <1>1, <1>2
  <2>2. \A a \in L : a \in G <=> <<a, heap[a].sequence>> \in off
    <3>1. ASSUME NEW a \in L, a \in G PROVE <<a, heap[a].sequence>> \in off
      <4>1. PICK t \in gone : t[2] = a
        BY <1>9, <3>1
      <4> QED
        BY <4>1
    <3>2. ASSUME NEW a \in L, <<a, heap[a].sequence>> \in off PROVE a \in G
      BY <1>9, <3>2
    <3> QED
      BY <3>1, <3>2
  <2> HIDE DEF off
  <2>3. ASSUME NEW t \in activeTimers \ off PROVE t \in {<<a, heap[a].sequence>> : a \in L \ G}
    <3>1. t[1] \in L /\ t = <<t[1], heap[t[1]].sequence>>
      BY <1>8, <2>3
    <3>2. t[1] \notin G
      BY <2>2, <2>3, <3>1
    <3> QED
      BY <3>1, <3>2
  <2>4. \A a \in L \ G : <<a, heap[a].sequence>> \in activeTimers \ off
    BY <1>8, <2>2
  <2> QED
    BY <2>1, <2>3, <2>4
<1>13. Listed' = L \ G /\ SetsInv'
  <2>1. PICK h : h = heap
    OBVIOUS
  <2> QED
    BY <1>3, <1>11, <1>12, <2>1, SetsBecome
<1>14. G \subseteq L /\ Taken' = G /\ Taken = {}
  <2>1. G \subseteq L
    BY <1>4, <1>8, <1>9
  <2>2. Taken' = {e[i][2] : i \in 1..Len(e)}
    BY <1>5 DEF Taken
  <2>3. ASSUME NEW a \in G PROVE \E i \in 1..Len(e) : e[i][2] = a
    <3>1. PICK t \in gone : t[2] = a
      BY <1>9, <2>3
    <3> QED
      BY <1>6, <3>1
  <2>4. \A i \in 1..Len(e) : e[i][2] \in G
    BY <1>6, <1>9
  <2>5. Taken' = G
    BY <2>2, <2>3, <2>4
  <2>6. 1..Len(expired) = {}
    BY <1>3 DEF LoopInv, InHandleRead
  <2> QED
    BY <2>1, <2>5, <2>6 DEF Taken
<1>15. TypeOK'
  <2>1. r \in Nat
    BY TimerConstants DEF TypeOK, Readings
  <2>2. expired' \in Seq(Nat \X Addresses) /\ nextRun' \in 1..(Len(expired') + 1)
    <3>1. e \in Seq(Nat \X Addresses)
      BY <1>4, <1>6
    <3>2. 1 \in 1..(Len(e) + 1)
      BY <1>6
    <3> QED
      BY <1>3, <1>5, <3>1, <3>2
  <2>3. timers' \subseteq Nat \X Addresses /\ activeTimers' \subseteq Addresses \X (1..MaxTimers)
    BY <1>1 DEF TypeOK
  <2> QED
    BY <1>1, <1>3, <2>1, <2>2, <2>3 DEF TypeOK, LoopPc
<1>16. Waiting' = Waiting
  BY <1>3 DEF Waiting
<1>17. OwnInv'
  <2>1. Adds(Waiting)' = Adds(Waiting) /\ (AddedOnce(Waiting) => AddedOnce(Waiting)')
    BY <1>16 DEF AddedOnce, Adds
  <2>2. {a \in Addresses : Live(a)}' = {a \in Addresses : Live(a)}
    BY <1>3 DEF Live
  <2>3. \A i, j \in 1..Len(expired') : expired'[i][2] = expired'[j][2] => i = j
    <3>1. \A i \in 1..Len(e) : e[i] = <<heap[e[i][2]].expiration, e[i][2]>>
      BY <1>4, <1>6, <1>8
    <3>2. ASSUME NEW i \in 1..Len(e), NEW j \in 1..Len(e), e[i][2] = e[j][2] PROVE i = j
      <4>1. e[i] = e[j]
        BY <3>1, <3>2
      <4> QED
        BY <1>6, <4>1
    <3> QED
      BY <1>5, <3>2
  <2>4. AddedOnce(Waiting) /\ Adds(Waiting) \cap L = {}
        /\ {a \in Addresses : Live(a)} = Adds(Waiting) \cup L
    BY <1>7, <1>14 DEF DataInv, OwnInv
  <2> QED
    BY <1>13, <1>14, <2>1, <2>2, <2>3, <2>4 DEF OwnInv
<1>18. DataInv'
  <2>1. ObjectInv'
    BY <1>3 DEF DataInv, ObjectInv, Live
  <2>2. NoTimerLost'
    BY <1>3 DEF DataInv, NoTimerLost
  <2>3. OrderInv(Waiting)'
    BY <1>3, <1>16 DEF DataInv, OrderInv
  <2>4. CancelInv(Waiting)'
    BY <1>3, <1>16 DEF DataInv, CancelInv
  <2> QED
    BY <1>13, <1>17, <2>1, <2>2, <2>3, <2>4 DEF DataInv
<1>19. LoopInv'
  <2>1. \A i \in 1..Len(expired') : ~(i < nextRun')
    BY <1>3, <1>5, <1>6
  <2> QED
    BY <1>3, <2>1 DEF LoopInv, InHandleRead
<1>20. PromptInv' /\ AlarmSet'
  BY <1>3 DEF PromptInv, AlarmSet, InHandleRead
<1> QED
  BY <1>15, <1>18, <1>19, <1>20

\* reset: the expired timers restart or are deleted, and the waitable timer is armed.
LEMMA ResetExpiredStep == ASSUME IInv, ResetExpired PROVE IInv'
<1> USE DEF IInv
<1>1. PICK D, R, h :
        /\ D = {t[2] : t \in Range(expired)}
        /\ R = {a \in D : heap[a].interval > 0}
        /\ h = heap'
  OBVIOUS
<1>2. /\ h = [a \in Addresses |-> IF a \in R THEN Restarted(a)
                                  ELSE IF a \in D THEN NoTimer ELSE heap[a]]
      /\ timers' = timers \cup {<<Restarted(a).expiration, a>> : a \in R}
      /\ activeTimers' = activeTimers \cup {<<a, heap[a].sequence>> : a \in R}
  BY <1>1 DEF ResetExpired
<1>3. /\ loopPc = "run" /\ nextRun > Len(expired) /\ loopPc' = "handler"
      /\ readAt' = 0 /\ expired' = <<>> /\ nextRun' = 1
      /\ UNCHANGED <<now, callerPc, wakeup, pending, batch>>
      /\ ids' = ids /\ ran' = ran /\ cancelled' = cancelled /\ cancelledOff' = cancelledOff
      /\ \/ timers' = {} /\ UNCHANGED alarm
         \/ \E w \in Expirations(timers') :
              (\A v \in Expirations(timers') : w <= v) /\ ResetTimerfd(w)
  BY DEF ResetExpired, queue, history
<1>4. /\ Len(expired) \in Nat /\ DOMAIN expired = 1..Len(expired)
      /\ \A i \in 1..Len(expired) : expired[i] \in Nat \X Addresses
  BY LenProperties, ElementOfSeq DEF TypeOK
<1>5. D = Taken /\ D \subseteq Addresses /\ R \subseteq D
  <2>1. Range(expired) = {expired[i] : i \in 1..Len(expired)}
    BY <1>4 DEF Range
  <2>2. ASSUME NEW a \in D PROVE a \in Taken /\ a \in Addresses
    <3>1. PICK t \in Range(expired) : t[2] = a
      BY <1>1, <2>2
    <3>2. PICK i \in 1..Len(expired) : expired[i] = t
      BY <2>1, <3>1
    <3> QED
      BY <1>4, <3>1, <3>2 DEF Taken
  <2>3. ASSUME NEW a \in Taken PROVE a \in D
    <3>1. PICK i \in 1..Len(expired) : expired[i][2] = a
      BY <2>3 DEF Taken
    <3>2. expired[i] \in Range(expired)
      BY <2>1
    <3> QED
      BY <1>1, <3>1, <3>2
  <2> QED
    BY <1>1, <2>2, <2>3
<1>6. \A a \in Addresses : /\ heap[a] \in TimerObjects /\ heap[a].sequence \in 0..MaxTimers
                           /\ heap[a].expiration \in Nat /\ heap[a].interval \in Nat
  BY DEF TypeOK, TimerObjects
<1>7. ASSUME NEW a \in R
      PROVE  /\ h[a] \in TimerObjects /\ h[a].expiration = Restarted(a).expiration
             /\ h[a].expiration \in Nat
             /\ h[a].sequence = heap[a].sequence /\ h[a].interval = heap[a].interval
  <2>1. a \in Addresses /\ readAt \in Nat /\ h[a] = Restarted(a)
    BY <1>2, <1>5 DEF TypeOK
  <2>2. heap[a] \in TimerObjects /\ readAt + heap[a].interval \in Nat
    BY <1>6, <2>1
  <2> QED
    BY <2>1, <2>2 DEF Restarted, TimerObjects
<1>8. \A a \in D \ R : h[a] = NoTimer /\ h[a].sequence = 0 /\ heap[a].interval = 0
  <2> SUFFICES ASSUME NEW a \in D \ R PROVE h[a] = NoTimer /\ h[a].sequence = 0 /\ heap[a].interval = 0
    OBVIOUS
  <2>1. a \in Addresses /\ h[a] = NoTimer
    BY <1>2, <1>5
  <2>2. heap[a].interval = 0
    BY <1>1, <1>6, <2>1
  <2> QED
    BY <2>1, <2>2 DEF NoTimer
<1>9. \A a \in Addresses \ D : h[a] = heap[a]
  BY <1>2, <1>5
<1>10. PICK L : L = Listed
  OBVIOUS
<1>11. /\ L \subseteq Addresses /\ L \cap D = {}
       /\ \A a \in L : <<heap[a].expiration, a>> \in timers /\ <<a, heap[a].sequence>> \in activeTimers
       /\ \A t \in timers : t[2] \in L /\ t = <<heap[t[2]].expiration, t[2]>>
       /\ \A t \in activeTimers : t[1] \in L /\ t = <<t[1], heap[t[1]].sequence>>
  <2>1. L \cap D = {}
    BY <1>5, <1>10 DEF DataInv, OwnInv
  <2> QED
    BY <1>10, <2>1, ListedEntries DEF DataInv
<1>12. timers' = {<<h[a].expiration, a>> : a \in L \cup R}
  <2>1. \A a \in L : h[a] = heap[a]
    BY <1>9, <1>11
  <2>2. ASSUME NEW t \in timers' PROVE t \in {<<h[a].expiration, a>> : a \in L \cup R}
    <3>1. CASE t \in timers
      <4>1. t[2] \in L /\ t = <<h[t[2]].expiration, t[2]>>
        BY <1>11, <2>1, <3>1
      <4> QED
        BY <4>1
    <3>2. CASE t \notin timers
      <4>1. PICK a \in R : t = <<Restarted(a).expiration, a>>
        BY <1>2, <2>2, <3>2
      <4> QED
        BY <1>7, <4>1
    <3> QED
      BY <3>1, <3>2
  <2>3. ASSUME NEW a \in L \cup R PROVE <<h[a].expiration, a>> \in timers'
    <3>1. CASE a \in L
      BY <1>2, <1>11, <2>1, <3>1
    <3>2. CASE a \in R
      BY <1>2, <1>7, <3>2
    <3> QED
      BY <2>3, <3>1, <3>2
  <2> QED
    BY <2>2, <2>3
<1>13. activeTimers' = {<<a, h[a].sequence>> : a \in L \cup R}
  <2>1. \A a \in L : h[a] = heap[a]
    BY <1>9, <1>11
  <2>2. ASSUME NEW t \in activeTimers' PROVE t \in {<<a, h[a].sequence>> : a \in L \cup R}
    <3>1. CASE t \in activeTimers
      <4>1. t[1] \in L /\ t = <<t[1], h[t[1]].sequence>>
        BY <1>11, <2>1, <3>1
      <4> QED
        BY <4>1
    <3>2. CASE t \notin activeTimers
      <4>1. PICK a \in R : t = <<a, heap[a].sequence>>
        BY <1>2, <2>2, <3>2
      <4> QED
        BY <1>7, <4>1
    <3> QED
      BY <3>1, <3>2
  <2>3. ASSUME NEW a \in L \cup R PROVE <<a, h[a].sequence>> \in activeTimers'
    <3>1. CASE a \in L
      BY <1>2, <1>11, <2>1, <3>1
    <3>2. CASE a \in R
      BY <1>2, <1>7, <3>2
    <3> QED
      BY <2>3, <3>1, <3>2
  <2> QED
    BY <2>2, <2>3
<1>14. Listed' = L \cup R /\ SetsInv'
  <2>1. PICK M : M = L \cup R
    OBVIOUS
  <2>2. Listed' = M /\ SetsInv'
    BY <1>1, <1>12, <1>13, <2>1, SetsBecome
  <2> QED
    BY <2>1, <2>2
<1>15. h \in [Addresses -> TimerObjects]
  <2>1. NoTimer \in TimerObjects
    BY TimerConstants DEF NoTimer, TimerObjects
  <2>2. \A a \in Addresses : h[a] \in TimerObjects
    BY <1>6, <1>7, <1>8, <1>9, <2>1
  <2> QED
    BY <1>2, <2>2
<1>16. timers' \subseteq Nat \X Addresses /\ activeTimers' \subseteq Addresses \X (1..MaxTimers)
  <2>1. \A a \in R : <<Restarted(a).expiration, a>> \in Nat \X Addresses
    BY <1>5, <1>7
  <2>2. ASSUME NEW a \in R PROVE <<a, heap[a].sequence>> \in Addresses \X (1..MaxTimers)
    <3>1. a \in Addresses /\ Live(a)
      BY <1>5 DEF DataInv, OwnInv
    <3>2. heap[a].sequence \in 0..MaxTimers /\ heap[a].sequence # 0
      BY <1>6, <3>1 DEF Live
    <3> QED
      BY <3>1, <3>2, TimerConstants
  <2> QED
    BY <1>2, <2>1, <2>2 DEF TypeOK
<1>17. /\ due' \in Nat \cup {Never} /\ signaled' \in BOOLEAN
       /\ timers' # {} => due' \in Nat /\ \A w \in Expirations(timers') : due' <= w \/ due' <= now'
  <2>1. CASE timers' = {} /\ UNCHANGED alarm
    BY <2>1 DEF TypeOK, alarm
  <2>2. CASE \E w \in Expirations(timers') :
               (\A v \in Expirations(timers') : w <= v) /\ ResetTimerfd(w)
    <3>1. \A w \in Expirations(timers') : w \in Nat
      BY <1>16 DEF Expirations
    <3>2. PICK w \in Expirations(timers') :
            (\A v \in Expirations(timers') : w <= v) /\ ResetTimerfd(w)
      BY <2>2
    <3>3. PICK k \in Nat : k = w
      BY <3>1
    <3>4. due' \in Nat /\ signaled' = FALSE /\ (due' <= k \/ due' <= now)
      BY <3>2, <3>3, ResetArms
    <3>5. now \in Nat /\ now' = now
      BY <1>3, TimerConstants DEF TypeOK
    <3>6. ASSUME NEW v \in Expirations(timers') PROVE due' <= v \/ due' <= now'
      <4>1. v \in Nat /\ k <= v
        BY <3>1, <3>2, <3>3
      <4> QED
        BY <3>4, <3>5, <4>1
    <3> QED
      BY <3>4, <3>6
  <2> QED
    BY <1>3, <2>1, <2>2
<1>18. TypeOK'
  <2>1. 1 \in 1..(Len(expired') + 1) /\ expired' \in Seq(Nat \X Addresses)
    BY <1>3
  <2> QED
    BY <1>1, <1>3, <1>15, <1>16, <1>17, <2>1 DEF TypeOK, LoopPc
<1>19. Waiting' = Waiting
  BY <1>3 DEF Waiting
<1>20. \A a \in Addresses : h[a].sequence = IF a \in D \ R THEN 0 ELSE heap[a].sequence
  BY <1>7, <1>8, <1>9
<1>21. OwnInv'
  <2>1. Adds(Waiting)' = Adds(Waiting) /\ (AddedOnce(Waiting) => AddedOnce(Waiting)')
    BY <1>19 DEF AddedOnce, Adds
  <2>2. {a \in Addresses : Live(a)}' = {a \in Addresses : Live(a)} \ (D \ R)
    BY <1>1, <1>20 DEF Live
  <2>3. 1..Len(expired') = {} /\ Taken' = {}
    BY <1>3 DEF Taken
  <2>4. /\ AddedOnce(Waiting) /\ Adds(Waiting) \cap L = {} /\ Adds(Waiting) \cap D = {}
        /\ {a \in Addresses : Live(a)} = Adds(Waiting) \cup L \cup D
    BY <1>5, <1>10 DEF DataInv, OwnInv
  <2> QED
    BY <1>5, <1>11, <1>14, <2>1, <2>2, <2>3, <2>4 DEF OwnInv
<1>22. ObjectInv'
  <2> SUFFICES ASSUME NEW a \in Addresses, h[a].sequence # 0
               PROVE  LET s == h[a].sequence IN
                      s \in DOMAIN ids /\ ids[s].address = a /\ ids[s].interval = h[a].interval
    BY <1>1, <1>3 DEF ObjectInv, Live
  <2>1. h[a].sequence = heap[a].sequence /\ h[a].interval = heap[a].interval /\ Live(a)
    BY <1>7, <1>8, <1>9, <1>20 DEF Live
  <2> QED
    BY <2>1 DEF DataInv, ObjectInv
<1>23. NoTimerLost'
  <2> SUFFICES ASSUME NEW s \in DOMAIN ids, s \notin cancelled \cup cancelledOff,
                      ~(ids[s].interval = 0 /\ s \in ran)
               PROVE  h[ids[s].address].sequence = s
    BY <1>1, <1>3 DEF NoTimerLost
  <2>1. heap[ids[s].address].sequence = s
    BY DEF DataInv, NoTimerLost
  <2>2. PICK a \in Addresses : a = ids[s].address
    BY IdsTyped
  <2>3. a \notin D \ R
    <3> SUFFICES ASSUME a \in D \ R PROVE FALSE
      OBVIOUS
    <3>1. PICK i \in 1..Len(expired) : expired[i][2] = a
      BY <1>5 DEF Taken
    <3>2. i < nextRun
      BY <1>3, <1>4 DEF TypeOK
    <3>3. s \in ran
      BY <2>1, <2>2, <3>1, <3>2 DEF LoopInv
    <3>4. Live(a)
      BY <1>5 DEF DataInv, OwnInv
    <3>5. ids[s].interval = 0
      BY <1>8, <2>1, <2>2, <3>4 DEF DataInv, ObjectInv
    <3> QED
      BY <3>3, <3>5
  <2> QED
    BY <1>20, <2>1, <2>2, <2>3
<1>24. PICK W : W = Waiting /\ \A i \in 1..Len(W) : W[i] \in Functors
  BY WaitingTyped
<1>25. OrderInv(Waiting)'
  <2> SUFFICES ASSUME NEW i \in 1..Len(W), W[i].op = "cancel"
               PROVE  /\ W[i].sequence \in cancelled /\ ids[W[i].sequence].address = W[i].address
                      /\ h[W[i].address].sequence = W[i].sequence =>
                           \A j \in 1..Len(W) : W[j].op = "add" /\ W[j].address = W[i].address => j < i
    BY <1>1, <1>3, <1>19, <1>24 DEF OrderInv
  <2>1. W[i].address \in Addresses /\ W[i].sequence # 0
    BY <1>24, TimerConstants DEF Functors
  <2>2. h[W[i].address].sequence = W[i].sequence => heap[W[i].address].sequence = W[i].sequence
    BY <1>20, <2>1
  <2> QED
    BY <1>24, <2>2 DEF DataInv, OrderInv
<1>26. CancelInv(Waiting)'
  <2> SUFFICES ASSUME NEW s \in cancelled
               PROVE  \/ h[ids[s].address].sequence # s
                      \/ \E i \in 1..Len(W) : W[i].op = "cancel" /\ W[i].sequence = s
    BY <1>1, <1>3, <1>19, <1>24 DEF CancelInv
  <2>1. ids[s].address \in Addresses /\ s # 0
    BY IdsTyped DEF TypeOK
  <2>2. h[ids[s].address].sequence = s => heap[ids[s].address].sequence = s
    BY <1>20, <2>1
  <2> QED
    BY <1>24, <2>2 DEF DataInv, CancelInv
<1>27. LoopInv'
  <2>1. 1..Len(expired') = {}
    BY <1>3
  <2> QED
    BY <1>3, <2>1 DEF LoopInv, InHandleRead
<1>28. PromptInv'
  BY <1>3 DEF PromptInv
<1>29. AlarmSet'
  <2>1. \A n \in Nat : n # Never
    BY DEF Never
  <2> QED
    BY <1>17, <2>1 DEF AlarmSet
<1>30. DataInv'
  BY <1>14, <1>21, <1>22, <1>23, <1>25, <1>26 DEF DataInv
<1> QED
  BY <1>18, <1>27, <1>28, <1>29, <1>30
-----------------------------------------------------------------------------
(* Functors that run, and cancels.                                          *)

\* When the first functor has run and timers were at most deleted, the cancels that
\* wait are still behind the additions of their timers ...
LEMMA OrderTail ==
  ASSUME TypeOK, OrderInv(Waiting), batch # <<>>, batch' = Tail(batch), pending' = pending,
         ids' = ids, cancelled' = cancelled,
         \A b \in Addresses : heap'[b].sequence \in {0, heap[b].sequence}
  PROVE  OrderInv(Waiting)'
<1>1. PICK w, v : w = Waiting /\ v = Waiting'
  OBVIOUS
<1>2. /\ Len(w) \in Nat \ {0} /\ Len(v) = Len(w) - 1 /\ \A i \in 1..Len(v) : v[i] = w[i + 1]
      /\ \A i \in 1..Len(w) : w[i] \in Functors
  BY <1>1, RunWaits, WaitingTyped
<1> DEFINE n == Len(w)
<1>3. /\ n \in Nat \ {0} /\ Len(v) = n - 1 /\ \A i \in 1..(n - 1) : v[i] = w[i + 1]
      /\ \A i \in 1..n : w[i] \in Functors
  BY <1>2
<1>4. \A i \in 1..n : w[i].op = "cancel" =>
        /\ w[i].sequence \in cancelled /\ ids[w[i].sequence].address = w[i].address
        /\ heap[w[i].address].sequence = w[i].sequence =>
            \A j \in 1..n : w[j].op = "add" /\ w[j].address = w[i].address => j < i
  BY <1>1 DEF OrderInv
<1> HIDE DEF n
<1>5. \A i \in 1..(n - 1) : i + 1 \in 1..n
  BY <1>3
<1> SUFFICES ASSUME NEW i \in 1..(n - 1), v[i].op = "cancel"
             PROVE  /\ v[i].sequence \in cancelled /\ ids[v[i].sequence].address = v[i].address
                    /\ heap'[v[i].address].sequence = v[i].sequence =>
                         \A j \in 1..(n - 1) : v[j].op = "add" /\ v[j].address = v[i].address => j < i
  BY <1>1, <1>3 DEF OrderInv
<1>6. w[i + 1].op = "cancel" /\ v[i] = w[i + 1] /\ i + 1 \in 1..n
  BY <1>3, <1>5
<1>7. v[i].sequence # 0 /\ v[i].address \in Addresses
  BY <1>3, <1>6, TimerConstants DEF Functors
<1>8. ASSUME heap'[v[i].address].sequence = v[i].sequence,
             NEW j \in 1..(n - 1), v[j].op = "add", v[j].address = v[i].address
      PROVE  j < i
  <2>1. heap[w[i + 1].address].sequence = w[i + 1].sequence
    BY <1>6, <1>7, <1>8
  <2>2. w[j + 1].op = "add" /\ w[j + 1].address = w[i + 1].address /\ j + 1 \in 1..n
    BY <1>3, <1>5, <1>6, <1>8
  <2>3. j + 1 < i + 1
    BY <1>4, <1>6, <2>1, <2>2
  <2> QED
    BY <1>3, <2>3
<1> QED
  BY <1>4, <1>6, <1>8

\* ... and they wait for every cancelled timer that is alive.
LEMMA CancelTail ==
  ASSUME TypeOK, CancelInv(Waiting), batch # <<>>, batch' = Tail(batch), pending' = pending,
         ids' = ids, cancelled' = cancelled,
         \A b \in Addresses : heap'[b].sequence \in {0, heap[b].sequence},
         Head(batch).op = "cancel" =>
           heap'[ids[Head(batch).sequence].address].sequence # Head(batch).sequence
  PROVE  CancelInv(Waiting)'
<1>1. PICK w, v : w = Waiting /\ v = Waiting'
  OBVIOUS
<1>2. /\ Len(w) \in Nat \ {0} /\ Len(v) = Len(w) - 1 /\ \A i \in 1..Len(v) : v[i] = w[i + 1]
      /\ Head(batch) = w[1]
  BY <1>1, RunWaits
<1> DEFINE n == Len(w)
<1>3. n \in Nat \ {0} /\ Len(v) = n - 1 /\ \A i \in 1..(n - 1) : v[i] = w[i + 1]
  BY <1>2
<1>4. \A s \in cancelled : \/ heap[ids[s].address].sequence # s
                           \/ \E i \in 1..n : w[i].op = "cancel" /\ w[i].sequence = s
  BY <1>1 DEF CancelInv
<1> HIDE DEF n
<1> SUFFICES ASSUME NEW s \in cancelled, heap'[ids[s].address].sequence = s
             PROVE  \E i \in 1..(n - 1) : v[i].op = "cancel" /\ v[i].sequence = s
  BY <1>1, <1>3 DEF CancelInv
<1>5. s # 0 /\ ids[s].address \in Addresses
  BY IdsTyped DEF TypeOK
<1>6. heap[ids[s].address].sequence = s
  BY <1>5
<1>7. PICK i \in 1..n : w[i].op = "cancel" /\ w[i].sequence = s
  BY <1>4, <1>6
<1>8. i # 1
  BY <1>2, <1>7
<1>9. i - 1 \in 1..(n - 1) /\ i - 1 + 1 = i
  BY <1>3, <1>8
<1>10. v[i - 1] = w[i]
  BY <1>3, <1>9
<1> QED
  BY <1>7, <1>9, <1>10

\* cancelInLoop, when it finds the timer: it goes from both sets and is deleted.
LEMMA CancelFound ==
  ASSUME TypeOK, DataInv, NEW a \in Addresses, NEW s \in Nat, s # 0,
         Find(a, s) # {}, CancelInLoop(a, s),
         expired' = expired, ids' = ids, ran' = ran,
         cancelled \subseteq cancelled', cancelledOff \subseteq cancelledOff',
         s \in cancelled' \cup cancelledOff',
         Adds(Waiting)' = Adds(Waiting), AddedOnce(Waiting)'
  PROVE  /\ a \in Listed /\ heap[a].sequence = s
         /\ heap' \in [Addresses -> TimerObjects]
         /\ heap' = [heap EXCEPT ![a] = NoTimer] /\ heap'[a].sequence = 0
         /\ timers' \subseteq timers /\ activeTimers' \subseteq activeTimers
         /\ SetsInv' /\ OwnInv' /\ ObjectInv' /\ NoTimerLost'
<1>1. PICK L, h : L = Listed /\ h = heap'
  OBVIOUS
<1>2. /\ L \subseteq Addresses
      /\ \A b \in L : <<heap[b].expiration, b>> \in timers /\ <<b, heap[b].sequence>> \in activeTimers
      /\ \A t \in timers : t[2] \in L /\ t = <<heap[t[2]].expiration, t[2]>>
      /\ \A t \in activeTimers : t[1] \in L /\ t = <<t[1], heap[t[1]].sequence>>
  BY <1>1, ListedEntries DEF DataInv
<1>3. <<a, s>> \in activeTimers /\ a \in L /\ heap[a].sequence = s
  <2>1. <<a, s>> \in activeTimers
    BY DEF Find
  <2> QED
    BY <1>2, <2>1
<1>4. timers' = timers \ {<<heap[a].expiration, a>>} /\ activeTimers' = activeTimers \ {<<a, s>>}
      /\ h = [heap EXCEPT ![a] = NoTimer]
  <2>1. Find(a, s) = {<<a, s>>}
    BY <1>3 DEF Find
  <2> QED
    BY <1>1, <2>1 DEF CancelInLoop, Erase, Delete
<1>5. heap \in [Addresses -> TimerObjects] /\ NoTimer \in TimerObjects /\ NoTimer.sequence = 0
  BY TimerConstants DEF TypeOK, NoTimer, TimerObjects
<1>6. h \in [Addresses -> TimerObjects] /\ h[a].sequence = 0
      /\ \A b \in Addresses : b # a => h[b] = heap[b]
  BY <1>4, <1>5
<1>7. timers' = {<<h[b].expiration, b>> : b \in L \ {a}}
  <2>1. ASSUME NEW t \in timers' PROVE t \in {<<h[b].expiration, b>> : b \in L \ {a}}
    <3>1. t \in timers /\ t # <<heap[a].expiration, a>>
      BY <1>4, <2>1
    <3>2. t[2] \in L \ {a} /\ t = <<heap[t[2]].expiration, t[2]>>
      BY <1>2, <3>1
    <3>3. t = <<h[t[2]].expiration, t[2]>>
      BY <1>2, <1>6, <3>2
    <3> QED
      BY <3>2, <3>3
  <2>2. ASSUME NEW b \in L \ {a} PROVE <<h[b].expiration, b>> \in timers'
    BY <1>2, <1>4, <1>6
  <2> QED
    BY <2>1, <2>2
<1>8. activeTimers' = {<<b, h[b].sequence>> : b \in L \ {a}}
  <2>1. ASSUME NEW t \in activeTimers' PROVE t \in {<<b, h[b].sequence>> : b \in L \ {a}}
    <3>1. t \in activeTimers /\ t # <<a, s>>
      BY <1>4, <2>1
    <3>2. t[1] \in L \ {a} /\ t = <<t[1], heap[t[1]].sequence>>
      BY <1>2, <1>3, <3>1
    <3>3. t = <<t[1], h[t[1]].sequence>>
      BY <1>2, <1>6, <3>2
    <3> QED
      BY <3>2, <3>3
  <2>2. ASSUME NEW b \in L \ {a} PROVE <<b, h[b].sequence>> \in activeTimers'
    BY <1>2, <1>4, <1>6
  <2> QED
    BY <2>1, <2>2
<1>9. Listed' = L \ {a} /\ SetsInv'
  <2>1. PICK M : M = L \ {a}
    OBVIOUS
  <2>2. Listed' = M /\ SetsInv'
    BY <1>1, <1>7, <1>8, <2>1, SetsBecome
  <2> QED
    BY <2>1, <2>2
<1>10. OwnInv'
  <2>1. {b \in Addresses : Live(b)}' = {b \in Addresses : Live(b)} \ {a}
    BY <1>1, <1>6 DEF Live
  <2>2. Taken' = Taken
    BY DEF Taken
  <2>3. /\ \A i, j \in 1..Len(expired) : expired[i][2] = expired[j][2] => i = j
        /\ Adds(Waiting) \cap L = {} /\ Adds(Waiting) \cap Taken = {} /\ L \cap Taken = {}
        /\ {b \in Addresses : Live(b)} = Adds(Waiting) \cup L \cup Taken
    BY <1>1 DEF DataInv, OwnInv
  <2>4. /\ Adds(Waiting)' \cap Listed' = {} /\ Adds(Waiting)' \cap Taken' = {}
        /\ Listed' \cap Taken' = {}
        /\ {b \in Addresses : Live(b)}' = Adds(Waiting)' \cup Listed' \cup Taken'
    BY <1>3, <1>9, <2>1, <2>2, <2>3
  <2>5. \A i, j \in 1..Len(expired') : expired'[i][2] = expired'[j][2] => i = j
    BY <2>3
  <2> QED
    BY <2>4, <2>5 DEF OwnInv
<1>11. ObjectInv'
  <2> SUFFICES ASSUME NEW b \in Addresses, h[b].sequence # 0
               PROVE  LET q == h[b].sequence IN
                      q \in DOMAIN ids /\ ids[q].address = b /\ ids[q].interval = h[b].interval
    BY <1>1 DEF ObjectInv, Live
  <2> QED
    BY <1>6 DEF DataInv, ObjectInv, Live
<1>12. NoTimerLost'
  <2> SUFFICES ASSUME NEW q \in DOMAIN ids, q \notin cancelled' \cup cancelledOff',
                      ~(ids[q].interval = 0 /\ q \in ran)
               PROVE  h[ids[q].address].sequence = q
    BY <1>1 DEF NoTimerLost
  <2>1. heap[ids[q].address].sequence = q /\ ids[q].address \in Addresses
    BY IdsTyped DEF DataInv, NoTimerLost
  <2> QED
    BY <1>3, <1>6, <2>1
<1> QED
  BY <1>1, <1>3, <1>4, <1>6, <1>9, <1>10, <1>11, <1>12

\* addTimerInLoop, as the first functor of the batch.
LEMMA AddStep ==
  ASSUME IInv, RunFunctor, Head(batch).op = "add", AddTimerInLoop(Head(batch).address)
  PROVE  IInv'
<1> USE DEF IInv
<1>1. PICK a : a = Head(batch).address
  OBVIOUS
<1>2. /\ loopPc = "batch" /\ batch # <<>> /\ batch' = Tail(batch)
      /\ UNCHANGED <<now, wakeup, pending, loopPc, readAt, expired, nextRun, callerPc>>
      /\ ids' = ids /\ ran' = ran /\ cancelled' = cancelled /\ cancelledOff' = cancelledOff
  BY DEF RunFunctor, reading, history
<1>3. /\ timers' = timers \cup {<<heap[a].expiration, a>>}
      /\ activeTimers' = activeTimers \cup {<<a, heap[a].sequence>>}
      /\ heap' = heap
      /\ IF EarliestChanged(heap[a].expiration, timers)
           THEN ResetTimerfd(heap[a].expiration)
           ELSE UNCHANGED alarm
  BY <1>1 DEF AddTimerInLoop
<1>4. PICK w, v, A, L : w = Waiting /\ v = Waiting' /\ A = Adds(w) /\ L = Listed
  OBVIOUS
<1>5. /\ Len(w) \in Nat \ {0} /\ Len(v) = Len(w) - 1 /\ \A i \in 1..Len(v) : v[i] = w[i + 1]
      /\ Head(batch) = w[1] /\ \A i \in 1..Len(w) : w[i] \in Functors
  BY <1>2, <1>4, RunWaits, WaitingTyped
<1>6. 1 \in 1..Len(w) /\ a \in Addresses /\ a \in A
  <2>1. 1 \in 1..Len(w)
    BY <1>5
  <2>2. w[1] \in Functors /\ w[1].op = "add" /\ w[1].address = a
    BY <1>1, <1>5, <2>1
  <2> QED
    BY <1>4, <2>1, <2>2 DEF Functors, Adds
<1>7. AddedOnce(w) /\ A \cap L = {} /\ A \cap Taken = {} /\ L \cap Taken = {}
      /\ {b \in Addresses : Live(b)} = A \cup L \cup Taken
  BY <1>4 DEF DataInv, OwnInv
<1>8. AddedOnce(v) /\ Adds(v) = A \ {a}
  <2>1. AddedOnce(v) /\ Adds(v) = Adds(w) \ (IF w[1].op = "add" THEN {w[1].address} ELSE {})
    BY <1>5, <1>7, AddsTail
  <2> QED
    BY <1>1, <1>4, <1>5, <2>1
<1>9. /\ L \subseteq Addresses
      /\ \A b \in L : <<heap[b].expiration, b>> \in timers /\ <<b, heap[b].sequence>> \in activeTimers
      /\ \A t \in timers : t[2] \in L /\ t = <<heap[t[2]].expiration, t[2]>>
      /\ \A t \in activeTimers : t[1] \in L /\ t = <<t[1], heap[t[1]].sequence>>
  BY <1>4, ListedEntries DEF DataInv
<1>10. timers' = {<<heap[b].expiration, b>> : b \in L \cup {a}}
  <2>1. ASSUME NEW t \in timers' PROVE t \in {<<heap[b].expiration, b>> : b \in L \cup {a}}
    <3>1. CASE t \in timers
      BY <1>9, <3>1
    <3>2. CASE t = <<heap[a].expiration, a>>
      BY <3>2
    <3> QED
      BY <1>3, <2>1, <3>1, <3>2
  <2>2. ASSUME NEW b \in L \cup {a} PROVE <<heap[b].expiration, b>> \in timers'
    BY <1>3, <1>9, <2>2
  <2> QED
    BY <2>1, <2>2
<1>11. activeTimers' = {<<b, heap[b].sequence>> : b \in L \cup {a}}
  <2>1. ASSUME NEW t \in activeTimers' PROVE t \in {<<b, heap[b].sequence>> : b \in L \cup {a}}
    <3>1. CASE t \in activeTimers
      BY <1>9, <3>1
    <3>2. CASE t = <<a, heap[a].sequence>>
      BY <3>2
    <3> QED
      BY <1>3, <2>1, <3>1, <3>2
  <2>2. ASSUME NEW b \in L \cup {a} PROVE <<b, heap[b].sequence>> \in activeTimers'
    BY <1>3, <1>9, <2>2
  <2> QED
    BY <2>1, <2>2
<1>12. Listed' = L \cup {a} /\ SetsInv'
  <2>1. PICK M, h : M = L \cup {a} /\ h = heap
    OBVIOUS
  <2>2. Listed' = M /\ SetsInv'
    BY <1>3, <1>10, <1>11, <2>1, SetsBecome
  <2> QED
    BY <2>1, <2>2
<1>13. heap[a].expiration \in Nat /\ heap[a].sequence \in 1..MaxTimers
  <2>1. heap[a] \in TimerObjects /\ Live(a)
    BY <1>6, <1>7 DEF TypeOK
  <2>2. heap[a].expiration \in Nat /\ heap[a].sequence \in 0..MaxTimers /\ heap[a].sequence # 0
    BY <2>1 DEF TimerObjects, Live
  <2> QED
    BY <2>2, TimerConstants
<1>14. timers' \subseteq Nat \X Addresses /\ activeTimers' \subseteq Addresses \X (1..MaxTimers)
  BY <1>3, <1>6, <1>13 DEF TypeOK
<1>15. /\ due' \in Nat \cup {Never} /\ signaled' \in BOOLEAN
       /\ signaled' \/ (due' \in Nat /\ \A e \in Expirations(timers') : due' <= e \/ due' <= now')
  <2>1. now \in Nat /\ now' = now
    BY <1>2, TimerConstants DEF TypeOK
  <2>2. \A e \in Expirations(timers') : e \in Expirations(timers) \/ e = heap[a].expiration
    BY <1>3 DEF Expirations
  <2>3. \A e \in Expirations(timers) : e \in Nat
    BY DEF Expirations, TypeOK
  <2>4. CASE EarliestChanged(heap[a].expiration, timers)
    <3>1. PICK x \in Nat : x = heap[a].expiration
      BY <1>13
    <3>2. ResetTimerfd(x) /\ \A e \in Expirations(timers) : x < e
      BY <1>3, <2>4, <3>1 DEF EarliestChanged
    <3>3. due' \in Nat /\ signaled' = FALSE /\ (due' <= x \/ due' <= now)
      BY <3>2, ResetArms
    <3>4. ASSUME NEW e \in Expirations(timers') PROVE due' <= e \/ due' <= now'
      <4>1. e = x \/ (e \in Nat /\ x < e)
        BY <2>2, <2>3, <3>1, <3>2, <3>4
      <4> QED
        BY <2>1, <3>3, <4>1
    <3> QED
      BY <3>3, <3>4
  <2>5. CASE ~EarliestChanged(heap[a].expiration, timers)
    <3>1. due' = due /\ signaled' = signaled /\ due \in Nat \cup {Never} /\ signaled \in BOOLEAN
      BY <1>3, <2>5 DEF alarm, TypeOK
    <3>2. PICK e \in Expirations(timers) : ~(heap[a].expiration < e)
      BY <2>5 DEF EarliestChanged
    <3>3. e \in Nat /\ e <= heap[a].expiration
      BY <1>13, <2>3, <3>2
    <3>4. timers # {} /\ ~InHandleRead
      BY <1>2, <3>2 DEF Expirations, InHandleRead
    <3>5. signaled \/ (due # Never /\ \A x \in Expirations(timers) : due <= x \/ due <= now)
      BY <3>4 DEF AlarmSet
    <3>6. CASE signaled
      BY <3>1, <3>6
    <3>7. CASE due # Never /\ \A x \in Expirations(timers) : due <= x \/ due <= now
      <4>1. due \in Nat /\ (due <= e \/ due <= now)
        BY <3>1, <3>2, <3>7
      <4>2. due <= heap[a].expiration \/ due <= now
        BY <1>13, <3>3, <4>1
      <4> QED
        BY <2>1, <2>2, <3>1, <3>7, <4>1, <4>2
    <3> QED
      BY <3>5, <3>6, <3>7
  <2> QED
    BY <2>4, <2>5
<1>16. TypeOK'
  <2>1. batch' \in Seq(Functors)
    BY <1>2, HeadTailProperties DEF TypeOK
  <2> QED
    BY <1>2, <1>3, <1>14, <1>15, <2>1 DEF TypeOK
<1>17. OwnInv'
  <2>1. Taken' = Taken /\ {b \in Addresses : Live(b)}' = {b \in Addresses : Live(b)}
    BY <1>2, <1>3 DEF Taken, Live
  <2>2. Adds(Waiting)' = A \ {a} /\ AddedOnce(Waiting)'
    BY <1>4, <1>8 DEF Adds, AddedOnce
  <2>3. \A i, j \in 1..Len(expired') : expired'[i][2] = expired'[j][2] => i = j
    BY <1>2 DEF DataInv, OwnInv
  <2>4. /\ Adds(Waiting)' \cap Listed' = {} /\ Adds(Waiting)' \cap Taken' = {}
        /\ Listed' \cap Taken' = {}
        /\ {b \in Addresses : Live(b)}' = Adds(Waiting)' \cup Listed' \cup Taken'
    BY <1>6, <1>7, <1>12, <2>1, <2>2
  <2> QED
    BY <2>2, <2>3, <2>4 DEF OwnInv
<1>18. \A b \in Addresses : heap'[b].sequence \in {0, heap[b].sequence}
  BY <1>3
<1>19. OrderInv(Waiting)'
  BY <1>2, <1>18, OrderTail DEF DataInv
<1>20. CancelInv(Waiting)'
  BY <1>2, <1>18, CancelTail DEF DataInv
<1>21. ObjectInv' /\ NoTimerLost'
  BY <1>2, <1>3 DEF DataInv, ObjectInv, NoTimerLost, Live
<1>22. LoopInv'
  BY <1>2, <1>3 DEF LoopInv, InHandleRead
<1>23. PromptInv'
  BY <1>2 DEF PromptInv
<1>24. AlarmSet'
  <2>1. \A n \in Nat : n # Never
    BY DEF Never
  <2> QED
    BY <1>15, <2>1 DEF AlarmSet
<1> QED
  BY <1>12, <1>16, <1>17, <1>19, <1>20, <1>21, <1>22, <1>23, <1>24 DEF DataInv

\* cancelInLoop, as the first functor of the batch.
LEMMA CancelStep ==
  ASSUME IInv, RunFunctor, Head(batch).op = "cancel",
         CancelInLoop(Head(batch).address, Head(batch).sequence)
  PROVE  IInv'
<1> USE DEF IInv
<1>1. PICK a, s : a = Head(batch).address /\ s = Head(batch).sequence
  OBVIOUS
<1>2. /\ loopPc = "batch" /\ batch # <<>> /\ batch' = Tail(batch)
      /\ UNCHANGED <<now, wakeup, pending, loopPc, readAt, expired, nextRun, callerPc>>
      /\ ids' = ids /\ ran' = ran /\ cancelled' = cancelled /\ cancelledOff' = cancelledOff
  BY DEF RunFunctor, reading, history
<1>3. PICK w, v : w = Waiting /\ v = Waiting'
  OBVIOUS
<1>4. /\ Len(w) \in Nat \ {0} /\ Len(v) = Len(w) - 1 /\ \A i \in 1..Len(v) : v[i] = w[i + 1]
      /\ Head(batch) = w[1] /\ \A i \in 1..Len(w) : w[i] \in Functors
  BY <1>2, <1>3, RunWaits, WaitingTyped
<1>5. 1 \in 1..Len(w) /\ a \in Addresses /\ s \in Nat /\ s # 0
      /\ w[1].op = "cancel" /\ w[1].address = a /\ w[1].sequence = s
  <2>1. 1 \in 1..Len(w)
    BY <1>4
  <2>2. w[1] \in Functors /\ w[1].op = "cancel" /\ w[1].address = a /\ w[1].sequence = s
    BY <1>1, <1>4, <2>1
  <2>3. s \in 1..MaxTimers /\ a \in Addresses
    BY <2>2 DEF Functors
  <2> QED
    BY <2>1, <2>2, <2>3, TimerConstants
<1>6. /\ s \in cancelled /\ ids[s].address = a
      /\ heap[a].sequence = s => \A j \in 1..Len(w) : w[j].op = "add" /\ w[j].address = a => j < 1
  BY <1>3, <1>5 DEF DataInv, OrderInv
<1>7. AddedOnce(v) /\ Adds(v) = Adds(w)
  <2>1. AddedOnce(w)
    BY <1>3 DEF DataInv, OwnInv
  <2>2. AddedOnce(v) /\ Adds(v) = Adds(w) \ (IF w[1].op = "add" THEN {w[1].address} ELSE {})
    BY <1>4, <2>1, AddsTail
  <2> QED
    BY <1>5, <2>2
<1>8. Adds(Waiting)' = Adds(Waiting) /\ AddedOnce(Waiting)'
  <2>1. Adds(Waiting)' = Adds(v) /\ Adds(Waiting) = Adds(w) /\ (AddedOnce(v) => AddedOnce(Waiting)')
    BY <1>3 DEF Adds, AddedOnce
  <2> QED
    BY <1>7, <2>1
<1>9. CancelInLoop(a, s)
  BY <1>1
<1>10. batch' \in Seq(Functors)
  BY <1>2, HeadTailProperties DEF TypeOK
<1>11. UNCHANGED alarm
  BY <1>9 DEF CancelInLoop
<1>12. LoopInv' /\ PromptInv'
  <2>1. 1..Len(expired) = {} /\ 1..Len(expired') = {}
    BY <1>2 DEF LoopInv, InHandleRead
  <2> QED
    BY <1>2, <2>1 DEF LoopInv, InHandleRead, PromptInv
<1>13. CASE Find(a, s) # {}
  <2>1. /\ heap[a].sequence = s /\ heap' \in [Addresses -> TimerObjects]
        /\ heap' = [heap EXCEPT ![a] = NoTimer] /\ heap'[a].sequence = 0
        /\ timers' \subseteq timers /\ activeTimers' \subseteq activeTimers
        /\ SetsInv' /\ OwnInv' /\ ObjectInv' /\ NoTimerLost'
    <3>1. /\ cancelled \subseteq cancelled' /\ cancelledOff \subseteq cancelledOff'
          /\ s \in cancelled' \cup cancelledOff'
          /\ expired' = expired /\ ids' = ids /\ ran' = ran
      BY <1>2, <1>6
    <3> QED
      BY <1>5, <1>8, <1>9, <1>13, <3>1, CancelFound
  <2>2. TypeOK'
    <3>1. timers' \subseteq Nat \X Addresses /\ activeTimers' \subseteq Addresses \X (1..MaxTimers)
          /\ due' \in Nat \cup {Never} /\ signaled' \in BOOLEAN
      BY <1>11, <2>1 DEF TypeOK, alarm
    <3> QED
      BY <1>2, <1>10, <2>1, <3>1 DEF TypeOK
  <2>3. \A b \in Addresses : heap'[b].sequence \in {0, heap[b].sequence}
    BY <1>5, <2>1 DEF TypeOK
  <2>4. OrderInv(Waiting)'
    BY <1>2, <2>3, OrderTail DEF DataInv
  <2>5. CancelInv(Waiting)'
    <3>1. heap'[ids[Head(batch).sequence].address].sequence # Head(batch).sequence
      BY <1>1, <1>5, <1>6, <2>1
    <3> QED
      BY <1>2, <2>3, <3>1, CancelTail DEF DataInv
  <2>6. AlarmSet'
    BY <1>2, <1>11, <2>1, AlarmKept DEF InHandleRead
  <2> QED
    BY <1>12, <2>1, <2>2, <2>4, <2>5, <2>6 DEF DataInv
<1>14. CASE Find(a, s) = {}
  <2>1. heap' = heap /\ timers' = timers /\ activeTimers' = activeTimers
    BY <1>9, <1>14 DEF CancelInLoop, data
  <2>2. heap[a].sequence # s
    <3> SUFFICES ASSUME heap[a].sequence = s PROVE FALSE
      OBVIOUS
    <3>1. a \in Adds(w) \cup Listed \cup Taken
      BY <1>3, <1>5 DEF DataInv, OwnInv, Live
    <3>2. a \notin Adds(w)
      <4> SUFFICES ASSUME a \in Adds(w) PROVE FALSE
        OBVIOUS
      <4>1. PICK j \in 1..Len(w) : w[j].op = "add" /\ w[j].address = a
        BY DEF Adds
      <4> QED
        BY <1>4, <1>6, <4>1
    <3>3. a \notin Taken
      <4>1. 1..Len(expired) = {}
        BY <1>2 DEF LoopInv, InHandleRead
      <4> QED
        BY <4>1 DEF Taken
    <3>4. <<a, heap[a].sequence>> \in activeTimers
      BY <3>1, <3>2, <3>3, ListedEntries DEF DataInv
    <3> QED
      BY <1>14, <3>4 DEF Find
  <2>3. TypeOK'
    BY <1>2, <1>10, <1>11, <2>1 DEF TypeOK, alarm
  <2>4. \A b \in Addresses : heap'[b].sequence \in {0, heap[b].sequence}
    BY <2>1
  <2>5. OrderInv(Waiting)'
    BY <1>2, <2>4, OrderTail DEF DataInv
  <2>6. CancelInv(Waiting)'
    <3>1. heap'[ids[Head(batch).sequence].address].sequence # Head(batch).sequence
      BY <1>1, <1>6, <2>1, <2>2
    <3> QED
      BY <1>2, <2>4, <3>1, CancelTail DEF DataInv
  <2>7. SetsInv' /\ ObjectInv' /\ NoTimerLost'
    BY <1>2, <2>1 DEF DataInv, SetsInv, Listed, ObjectInv, NoTimerLost, Live
  <2>8. OwnInv'
    <3>1. Listed' = Listed /\ Taken' = Taken
          /\ {b \in Addresses : Live(b)}' = {b \in Addresses : Live(b)}
      BY <1>2, <2>1 DEF Listed, Taken, Live
    <3>2. \A i, j \in 1..Len(expired') : expired'[i][2] = expired'[j][2] => i = j
      BY <1>2 DEF DataInv, OwnInv
    <3> QED
      BY <1>8, <3>1, <3>2 DEF DataInv, OwnInv
  <2>9. AlarmSet'
    BY <1>2, <1>11, <2>1, AlarmKept DEF InHandleRead
  <2> QED
    BY <1>12, <2>3, <2>5, <2>6, <2>7, <2>8, <2>9 DEF DataInv
<1> QED
  BY <1>13, <1>14

\* A cancel from another thread.
LEMMA CancelOffStep ==
  ASSUME IInv, NEW c \in Callers, NEW s \in Cancellable, CancelOff(c, s)
  PROVE  IInv'
<1> USE DEF IInv
<1>1. s \in DOMAIN ids /\ s \in Nat /\ s # 0 /\ ids[s].address \in Addresses
  BY IdsTyped DEF Cancellable
<1>2. PICK a \in Addresses : a = ids[s].address
  BY <1>1
<1>3. /\ CancelInLoop(a, s) /\ cancelledOff' = cancelledOff \cup {s}
      /\ UNCHANGED <<now, wakeup, pending, batch, loopPc, readAt, expired, nextRun, callerPc>>
      /\ ids' = ids /\ ran' = ran /\ cancelled' = cancelled
  BY <1>2 DEF CancelOff, queue, reading
<1>4. UNCHANGED alarm
  BY <1>3 DEF CancelInLoop
<1>5. Waiting' = Waiting
  BY <1>3 DEF Waiting
<1>6. Adds(Waiting)' = Adds(Waiting) /\ AddedOnce(Waiting)'
  BY <1>5 DEF DataInv, OwnInv, Adds, AddedOnce
<1>7. PromptInv'
  BY <1>3 DEF PromptInv
<1>8. PICK w : w = Waiting /\ \A i \in 1..Len(w) : w[i] \in Functors
  BY WaitingTyped
<1>9. CASE Find(a, s) # {}
  <2>1. /\ a \in Listed /\ heap[a].sequence = s /\ heap' \in [Addresses -> TimerObjects]
        /\ heap' = [heap EXCEPT ![a] = NoTimer] /\ heap'[a].sequence = 0
        /\ timers' \subseteq timers /\ activeTimers' \subseteq activeTimers
        /\ SetsInv' /\ OwnInv' /\ ObjectInv' /\ NoTimerLost'
    <3>1. /\ cancelled \subseteq cancelled' /\ cancelledOff \subseteq cancelledOff'
          /\ s \in cancelled' \cup cancelledOff'
          /\ expired' = expired /\ ids' = ids /\ ran' = ran
      BY <1>3
    <3> QED
      BY <1>1, <1>3, <1>6, <1>9, <3>1, CancelFound
  <2>2. TypeOK'
    <3>1. timers' \subseteq Nat \X Addresses /\ activeTimers' \subseteq Addresses \X (1..MaxTimers)
          /\ due' \in Nat \cup {Never} /\ signaled' \in BOOLEAN
      BY <1>4, <2>1 DEF TypeOK, alarm
    <3>2. cancelledOff' \subseteq DOMAIN ids
      BY <1>1, <1>3 DEF TypeOK
    <3> QED
      BY <1>3, <2>1, <3>1, <3>2 DEF TypeOK
  <2>3. \A b \in Addresses : heap'[b].sequence \in {0, heap[b].sequence}
    BY <2>1 DEF TypeOK
  <2>4. OrderInv(Waiting)'
    <3> SUFFICES ASSUME NEW i \in 1..Len(w), w[i].op = "cancel"
                 PROVE  /\ w[i].sequence \in cancelled /\ ids[w[i].sequence].address = w[i].address
                        /\ heap'[w[i].address].sequence = w[i].sequence =>
                             \A j \in 1..Len(w) : w[j].op = "add" /\ w[j].address = w[i].address => j < i
      BY <1>3, <1>5, <1>8 DEF OrderInv
    <3>1. w[i].address \in Addresses /\ w[i].sequence # 0
      BY <1>8, TimerConstants DEF Functors
    <3>2. heap'[w[i].address].sequence = w[i].sequence => heap[w[i].address].sequence = w[i].sequence
      BY <2>3, <3>1
    <3> QED
      BY <1>8, <3>2 DEF DataInv, OrderInv
  <2>5. CancelInv(Waiting)'
    <3> SUFFICES ASSUME NEW q \in cancelled
                 PROVE  \/ heap'[ids[q].address].sequence # q
                        \/ \E i \in 1..Len(w) : w[i].op = "cancel" /\ w[i].sequence = q
      BY <1>3, <1>5, <1>8 DEF CancelInv
    <3>1. ids[q].address \in Addresses /\ q # 0
      BY IdsTyped DEF TypeOK
    <3>2. heap'[ids[q].address].sequence = q => heap[ids[q].address].sequence = q
      BY <2>3, <3>1
    <3> QED
      BY <1>8, <3>2 DEF DataInv, CancelInv
  <2>6. LoopInv'
    <3>1. \A i \in 1..Len(expired) : heap'[expired[i][2]].sequence = heap[expired[i][2]].sequence
      <4> SUFFICES ASSUME NEW i \in 1..Len(expired)
                   PROVE  heap'[expired[i][2]].sequence = heap[expired[i][2]].sequence
        OBVIOUS
      <4>1. expired[i][2] \in Taken /\ expired[i][2] \in Addresses
        BY ElementOfSeq DEF Taken, TypeOK
      <4>2. expired[i][2] # a
        BY <2>1, <4>1 DEF DataInv, OwnInv
      <4> QED
        BY <2>1, <4>1, <4>2 DEF TypeOK
    <3> QED
      BY <1>3, <3>1, LoopKept
  <2>7. AlarmSet'
    BY <1>3, <1>4, <2>1, AlarmKept DEF InHandleRead
  <2> QED
    BY <1>7, <2>1, <2>2, <2>4, <2>5, <2>6, <2>7 DEF DataInv
<1>10. CASE Find(a, s) = {}
  <2>1. heap' = heap /\ timers' = timers /\ activeTimers' = activeTimers
    BY <1>3, <1>10 DEF CancelInLoop, data
  <2>2. TypeOK'
    <3>1. cancelledOff' \subseteq DOMAIN ids
      BY <1>1, <1>3 DEF TypeOK
    <3> QED
      BY <1>3, <1>4, <2>1, <3>1 DEF TypeOK, alarm
  <2>3. OwnInv'
    <3>1. Listed' = Listed /\ Taken' = Taken
          /\ {b \in Addresses : Live(b)}' = {b \in Addresses : Live(b)}
      BY <1>3, <2>1 DEF Listed, Taken, Live
    <3>2. \A i, j \in 1..Len(expired') : expired'[i][2] = expired'[j][2] => i = j
      BY <1>3 DEF DataInv, OwnInv
    <3> QED
      BY <1>6, <3>1, <3>2 DEF DataInv, OwnInv
  <2>4. SetsInv' /\ ObjectInv' /\ NoTimerLost'
    BY <1>3, <2>1 DEF DataInv, SetsInv, Listed, ObjectInv, NoTimerLost, Live
  <2>5. OrderInv(Waiting)' /\ CancelInv(Waiting)'
    BY <1>3, <1>5, <2>1 DEF DataInv, OrderInv, CancelInv
  <2>6. LoopInv'
    BY <1>3, <2>1, LoopKept
  <2>7. AlarmSet'
    BY <1>3, <1>4, <2>1, AlarmKept DEF InHandleRead
  <2> QED
    BY <1>7, <2>2, <2>3, <2>4, <2>5, <2>6, <2>7 DEF DataInv
<1> QED
  BY <1>9, <1>10

\* A cancel on the loop thread is queued, behind the addition of its timer.
LEMMA CancelQueued ==
  ASSUME IInv, NEW s \in Cancellable, Cancel(s)
  PROVE  IInv'
<1> USE DEF IInv
<1>1. s \in DOMAIN ids /\ s \in Nat /\ s # 0 /\ s <= MaxTimers /\ ids[s].address \in Addresses
  BY IdsTyped DEF Cancellable
<1>2. PICK a \in Addresses : a = ids[s].address
  BY <1>1
<1>3. PICK f : f = [op |-> "cancel", address |-> a, sequence |-> s]
  OBVIOUS
<1>4. f \in Functors /\ f.op = "cancel" /\ f.address = a /\ f.sequence = s
  BY <1>1, <1>3, TimerConstants DEF Functors
<1>5. /\ pending' = Append(pending, f) /\ wakeup' = TRUE /\ cancelled' = cancelled \cup {s}
      /\ UNCHANGED <<now, heap, timers, activeTimers, due, signaled, batch, loopPc, readAt, expired,
                     nextRun, callerPc, ids, ran, cancelledOff>>
  BY <1>2, <1>3 DEF Cancel, data, alarm, reading
<1>6. PICK w, v : w = Waiting /\ v = Waiting' /\ w \in Seq(Functors)
  BY WaitingTyped
<1>7. v = Append(w, f)
  BY <1>4, <1>5, <1>6, PushWaits
<1> DEFINE n == Len(w)
<1>8. n \in Nat /\ Len(v) = n + 1 /\ v[n + 1] = f /\ \A i \in 1..n : v[i] = w[i]
  BY <1>4, <1>6, <1>7, AppendProperties, LenProperties
<1>9. Adds(v) = Adds(w) /\ AddedOnce(v)
  <2>1. AddedOnce(w)
    BY <1>6 DEF DataInv, OwnInv
  <2> QED
    BY <1>4, <1>6, <1>7, <2>1, AddsAppend
<1>10. Adds(Waiting)' = Adds(Waiting) /\ AddedOnce(Waiting)'
  <2>1. Adds(Waiting)' = Adds(v) /\ Adds(Waiting) = Adds(w) /\ (AddedOnce(v) => AddedOnce(Waiting)')
    BY <1>6 DEF Adds, AddedOnce
  <2> QED
    BY <1>9, <2>1
<1>11. OwnInv'
  <2>1. Listed' = Listed /\ Taken' = Taken
        /\ {b \in Addresses : Live(b)}' = {b \in Addresses : Live(b)}
    BY <1>5 DEF Listed, Taken, Live
  <2>2. \A i, j \in 1..Len(expired') : expired'[i][2] = expired'[j][2] => i = j
    BY <1>5 DEF DataInv, OwnInv
  <2> QED
    BY <1>10, <2>1, <2>2 DEF DataInv, OwnInv
<1>12. SetsInv' /\ ObjectInv' /\ NoTimerLost'
  BY <1>5 DEF DataInv, SetsInv, Listed, ObjectInv, NoTimerLost, Live
<1>13. TypeOK'
  <2>1. pending' \in Seq(Functors)
    BY <1>4, <1>5, AppendProperties DEF TypeOK
  <2>2. cancelled' \subseteq DOMAIN ids
    BY <1>1, <1>5 DEF TypeOK
  <2> QED
    BY <1>5, <2>1, <2>2 DEF TypeOK
<1>14. /\ \A i \in 1..n : w[i].op = "cancel" =>
             /\ w[i].sequence \in cancelled /\ ids[w[i].sequence].address = w[i].address
             /\ heap[w[i].address].sequence = w[i].sequence =>
                  \A j \in 1..n : w[j].op = "add" /\ w[j].address = w[i].address => j < i
       /\ \A q \in cancelled : \/ heap[ids[q].address].sequence # q
                               \/ \E i \in 1..n : w[i].op = "cancel" /\ w[i].sequence = q
  BY <1>6 DEF DataInv, OrderInv, CancelInv
<1> HIDE DEF n
<1>15. \A i \in 1..(n + 1) : i \in 1..n \/ i = n + 1
  BY <1>8
<1>16. OrderInv(Waiting)'
  <2> SUFFICES ASSUME NEW i \in 1..(n + 1), v[i].op = "cancel"
               PROVE  /\ v[i].sequence \in cancelled' /\ ids[v[i].sequence].address = v[i].address
                      /\ heap[v[i].address].sequence = v[i].sequence =>
                           \A j \in 1..(n + 1) : v[j].op = "add" /\ v[j].address = v[i].address => j < i
    BY <1>5, <1>6, <1>8 DEF OrderInv
  <2>1. ASSUME NEW j \in 1..(n + 1), v[j].op = "add" PROVE j \in 1..n /\ v[j] = w[j]
    BY <1>4, <1>8, <1>15, <2>1
  <2>2. CASE i \in 1..n
    <3>1. v[i] = w[i] /\ w[i].sequence \in cancelled'
      BY <1>5, <1>8, <1>14, <2>2
    <3> QED
      BY <1>14, <2>1, <2>2, <3>1
  <2>3. CASE i = n + 1
    <3>1. v[i] = f /\ v[i].sequence \in cancelled' /\ ids[v[i].sequence].address = v[i].address
      BY <1>2, <1>4, <1>5, <1>8, <2>3
    <3>2. \A j \in 1..n : j < n + 1
      BY <1>8
    <3> QED
      BY <2>1, <2>3, <3>1, <3>2
  <2> QED
    BY <1>15, <2>2, <2>3
<1>17. CancelInv(Waiting)'
  <2> SUFFICES ASSUME NEW q \in cancelled \cup {s}, heap[ids[q].address].sequence = q
               PROVE  \E i \in 1..(n + 1) : v[i].op = "cancel" /\ v[i].sequence = q
    BY <1>5, <1>6, <1>8 DEF CancelInv
  <2>1. CASE q = s
    <3>1. n + 1 \in 1..(n + 1)
      BY <1>8
    <3> QED
      BY <1>4, <1>8, <2>1, <3>1
  <2>2. CASE q \in cancelled
    <3>1. PICK i \in 1..n : w[i].op = "cancel" /\ w[i].sequence = q
      BY <1>14, <2>2
    <3>2. i \in 1..(n + 1)
      BY <1>8
    <3> QED
      BY <1>8, <3>1, <3>2
  <2> QED
    BY <2>1, <2>2
<1>18. LoopInv' /\ PromptInv' /\ AlarmSet'
  BY <1>5 DEF LoopInv, InHandleRead, PromptInv, AlarmSet, Expirations
<1> QED
  BY <1>11, <1>12, <1>13, <1>16, <1>17, <1>18 DEF DataInv

\* addTimer puts a new Timer at an address that nobody uses, and queues its addition.
LEMMA QueueTimerStep ==
  ASSUME IInv, NEW req \in Requests, QueueTimer(req),
         callerPc' \in [Callers -> {"idle", "waking"}], wakeup' = wakeup \/ wakeup' = TRUE
  PROVE  IInv'
<1> USE DEF IInv
<1>1. PICK a \in Addresses, r \in Readings :
        /\ ~Live(a)
        /\ heap' = [heap EXCEPT ![a] = [sequence   |-> Len(ids) + 1,
                                        expiration |-> r + req[1],
                                        interval   |-> req[2]]]
        /\ ids' = Append(ids, [address |-> a, expiration |-> r + req[1], interval |-> req[2]])
        /\ pending' = Append(pending, [op |-> "add", address |-> a, sequence |-> Len(ids) + 1])
  BY DEF QueueTimer
<1>2. PICK m, e, p, f, h :
        /\ m = Len(ids) + 1 /\ e = r + req[1] /\ p = req[2] /\ h = heap'
        /\ f = [op |-> "add", address |-> a, sequence |-> m]
  OBVIOUS
<1>3. e \in Nat /\ p \in Nat
  <2>1. req[1] \in Nat /\ req[2] \in Nat
    BY TimerConstants DEF Requests
  <2>2. now \in Nat
    BY TimerConstants DEF TypeOK
  <2>3. r \in Nat
    BY <2>2, TimerConstants DEF Readings
  <2> QED
    BY <1>2, <2>1, <2>3
<1>4. Len(ids) \in Nat /\ m \in 1..MaxTimers /\ m \in Nat /\ m # 0 /\ m \notin DOMAIN ids
  <2>1. Len(ids) \in Nat /\ Len(ids) < MaxTimers /\ DOMAIN ids = 1..Len(ids)
    BY IdsTyped DEF QueueTimer
  <2> QED
    BY <1>2, <2>1, TimerConstants
<1>5. /\ UNCHANGED <<now, timers, activeTimers, due, signaled, batch, loopPc, readAt, expired,
                     nextRun, ran, cancelled, cancelledOff>>
      /\ pending' = Append(pending, f)
  BY <1>1, <1>2 DEF QueueTimer, alarm, reading
<1>6. f \in Functors /\ f.op = "add" /\ f.address = a
  BY <1>2, <1>4 DEF Functors
<1>7. /\ h \in [Addresses -> TimerObjects] /\ h[a].sequence = m /\ h[a].interval = p
      /\ \A b \in Addresses : b # a => h[b] = heap[b]
      /\ heap[a].sequence = 0
  <2>1. h = [heap EXCEPT ![a] = [sequence |-> m, expiration |-> e, interval |-> p]]
    BY <1>1, <1>2
  <2>2. [sequence |-> m, expiration |-> e, interval |-> p] \in TimerObjects
    BY <1>3, <1>4, TimerConstants DEF TimerObjects
  <2> QED
    BY <1>1, <2>1, <2>2 DEF TypeOK, Live
<1>8. /\ DOMAIN ids' = DOMAIN ids \cup {m} /\ Len(ids') = m
      /\ \A s \in DOMAIN ids : ids'[s] = ids[s]
      /\ ids'[m].address = a /\ ids'[m].interval = p
      /\ ids' \in Seq([address : Addresses, expiration : Nat, interval : Nat])
  <2>1. PICK x : x = [address |-> a, expiration |-> e, interval |-> p]
    OBVIOUS
  <2>2. x \in [address : Addresses, expiration : Nat, interval : Nat]
    BY <1>3, <2>1
  <2>3. ids' = Append(ids, x) /\ ids \in Seq([address : Addresses, expiration : Nat, interval : Nat])
    BY <1>1, <1>2, <2>1 DEF TypeOK
  <2>4. /\ ids' \in Seq([address : Addresses, expiration : Nat, interval : Nat])
        /\ Len(ids') = Len(ids) + 1 /\ ids'[Len(ids) + 1] = x
        /\ \A s \in 1..Len(ids) : ids'[s] = ids[s]
    BY <2>1, <2>3, <2>2, AppendProperties
  <2>5. DOMAIN ids = 1..Len(ids) /\ DOMAIN ids' = 1..Len(ids')
    BY <2>3, <2>4, LenProperties
  <2>6. 1..m = (1..Len(ids)) \cup {m}
    BY <1>2, <1>4
  <2> QED
    BY <1>2, <2>1, <2>4, <2>5, <2>6
<1>9. PICK w, v, A, L :
        w = Waiting /\ v = Waiting' /\ w \in Seq(Functors) /\ A = Adds(w) /\ L = Listed
  BY WaitingTyped
<1>10. v = Append(w, f)
  BY <1>5, <1>6, <1>9, PushWaits
<1> DEFINE n == Len(w)
<1>11. n \in Nat /\ Len(v) = n + 1 /\ v[n + 1] = f /\ \A i \in 1..n : v[i] = w[i] /\ w[i] \in Functors
  BY <1>6, <1>9, <1>10, AppendProperties, LenProperties, ElementOfSeq
<1>12. /\ AddedOnce(w) /\ A \cap L = {} /\ A \cap Taken = {} /\ L \cap Taken = {}
       /\ {b \in Addresses : Live(b)} = A \cup L \cup Taken
       /\ \A i, j \in 1..Len(expired) : expired[i][2] = expired[j][2] => i = j
  BY <1>9 DEF DataInv, OwnInv
<1>13. a \notin A /\ a \notin L /\ a \notin Taken
  BY <1>1, <1>12
<1>14. Adds(v) = A \cup {a} /\ AddedOnce(v)
  BY <1>6, <1>9, <1>10, <1>12, <1>13, AddsAppend
<1>15. OwnInv'
  <2>1. Adds(Waiting)' = A \cup {a} /\ AddedOnce(Waiting)'
    BY <1>9, <1>14 DEF Adds, AddedOnce
  <2>2. Listed' = L /\ Taken' = Taken
    BY <1>5, <1>9 DEF Listed, Taken
  <2>3. {b \in Addresses : Live(b)}' = {b \in Addresses : Live(b)} \cup {a}
    BY <1>2, <1>4, <1>7 DEF Live
  <2>4. \A i, j \in 1..Len(expired') : expired'[i][2] = expired'[j][2] => i = j
    BY <1>5, <1>12
  <2>5. /\ Adds(Waiting)' \cap Listed' = {} /\ Adds(Waiting)' \cap Taken' = {}
        /\ Listed' \cap Taken' = {}
        /\ {b \in Addresses : Live(b)}' = Adds(Waiting)' \cup Listed' \cup Taken'
    BY <1>12, <1>13, <2>1, <2>2, <2>3
  <2> QED
    BY <2>1, <2>4, <2>5 DEF OwnInv
<1>16. SetsInv'
  <2>1. L \subseteq Addresses
    BY <1>9, ListedEntries DEF DataInv
  <2>2. \A b \in L : h[b] = heap[b]
    BY <1>7, <1>13, <2>1
  <2>3. timers = {<<heap[b].expiration, b>> : b \in L}
        /\ activeTimers = {<<b, heap[b].sequence>> : b \in L}
    BY <1>9 DEF DataInv, SetsInv
  <2>4. timers' = {<<h[b].expiration, b>> : b \in L} /\ activeTimers' = {<<b, h[b].sequence>> : b \in L}
    BY <1>5, <2>2, <2>3
  <2> QED
    BY <1>2, <2>4, SetsBecome
<1>17. ObjectInv'
  <2> SUFFICES ASSUME NEW b \in Addresses, h[b].sequence # 0
               PROVE  LET s == h[b].sequence IN
                      s \in DOMAIN ids' /\ ids'[s].address = b /\ ids'[s].interval = h[b].interval
    BY <1>2 DEF ObjectInv, Live
  <2>1. CASE b = a
    BY <1>7, <1>8, <2>1
  <2>2. CASE b # a
    <3>1. h[b] = heap[b] /\ Live(b)
      BY <1>7, <2>2 DEF Live
    <3>2. heap[b].sequence \in DOMAIN ids /\ ids[heap[b].sequence].address = b
          /\ ids[heap[b].sequence].interval = heap[b].interval
      BY <3>1 DEF DataInv, ObjectInv
    <3> QED
      BY <1>8, <3>1, <3>2
  <2> QED
    BY <2>1, <2>2
<1>18. NoTimerLost'
  <2> SUFFICES ASSUME NEW s \in DOMAIN ids', s \notin cancelled \cup cancelledOff,
                      ~(ids'[s].interval = 0 /\ s \in ran)
               PROVE  h[ids'[s].address].sequence = s
    BY <1>2, <1>5 DEF NoTimerLost
  <2>1. CASE s = m
    BY <1>7, <1>8, <2>1
  <2>2. CASE s \in DOMAIN ids
    <3>1. heap[ids[s].address].sequence = s /\ ids'[s] = ids[s]
          /\ ids[s].address \in Addresses /\ s # 0
      BY <1>8, <2>2, IdsTyped DEF DataInv, NoTimerLost
    <3>2. ids[s].address # a
      BY <1>7, <3>1
    <3> QED
      BY <1>7, <3>1, <3>2
  <2> QED
    BY <1>8, <2>1, <2>2
<1>19. /\ \A i \in 1..n : w[i].op = "cancel" =>
             /\ w[i].sequence \in cancelled /\ ids[w[i].sequence].address = w[i].address
             /\ heap[w[i].address].sequence = w[i].sequence =>
                  \A j \in 1..n : w[j].op = "add" /\ w[j].address = w[i].address => j < i
       /\ \A q \in cancelled : \/ heap[ids[q].address].sequence # q
                               \/ \E i \in 1..n : w[i].op = "cancel" /\ w[i].sequence = q
  BY <1>9 DEF DataInv, OrderInv, CancelInv
<1> HIDE DEF n
<1>20. \A i \in 1..(n + 1) : i \in 1..n \/ i = n + 1
  BY <1>11
<1>21. OrderInv(Waiting)'
  <2> SUFFICES ASSUME NEW i \in 1..(n + 1), v[i].op = "cancel"
               PROVE  /\ v[i].sequence \in cancelled /\ ids'[v[i].sequence].address = v[i].address
                      /\ h[v[i].address].sequence = v[i].sequence =>
                           \A j \in 1..(n + 1) : v[j].op = "add" /\ v[j].address = v[i].address => j < i
    BY <1>2, <1>5, <1>9, <1>11 DEF OrderInv
  <2>1. i \in 1..n /\ v[i] = w[i] /\ w[i].op = "cancel"
    BY <1>6, <1>11, <1>20
  <2>2. w[i].sequence \in cancelled /\ ids[w[i].sequence].address = w[i].address
        /\ w[i].sequence \in DOMAIN ids /\ w[i].address \in Addresses
    BY <1>11, <1>19, <2>1 DEF TypeOK, Functors
  <2>3. ASSUME h[w[i].address].sequence = w[i].sequence,
               NEW j \in 1..(n + 1), v[j].op = "add", v[j].address = w[i].address
        PROVE  j < i
    <3>1. w[i].address # a
      BY <1>4, <1>7, <2>2, <2>3
    <3>2. heap[w[i].address].sequence = w[i].sequence
      BY <1>7, <2>2, <2>3, <3>1
    <3>3. j \in 1..n /\ v[j] = w[j]
      BY <1>6, <1>11, <1>20, <2>3, <3>1
    <3> QED
      BY <1>19, <2>1, <2>3, <3>2, <3>3
  <2> QED
    BY <1>8, <2>1, <2>2, <2>3
<1>22. CancelInv(Waiting)'
  <2> SUFFICES ASSUME NEW q \in cancelled, h[ids'[q].address].sequence = q
               PROVE  \E i \in 1..(n + 1) : v[i].op = "cancel" /\ v[i].sequence = q
    BY <1>2, <1>5, <1>9, <1>11 DEF CancelInv
  <2>1. q \in DOMAIN ids /\ ids'[q] = ids[q] /\ ids[q].address \in Addresses
    BY <1>8, IdsTyped DEF TypeOK
  <2>2. ids[q].address # a
    BY <1>4, <1>7, <2>1
  <2>3. PICK i \in 1..n : w[i].op = "cancel" /\ w[i].sequence = q
    BY <1>7, <1>19, <2>1, <2>2
  <2>4. i \in 1..(n + 1)
    BY <1>11
  <2> QED
    BY <1>11, <2>3, <2>4
<1>23. TypeOK'
  <2>1. pending' \in Seq(Functors)
    BY <1>5, <1>6, AppendProperties DEF TypeOK
  <2>2. Len(ids') <= MaxTimers
    BY <1>4, <1>8, TimerConstants
  <2>3. ran' \subseteq DOMAIN ids' /\ cancelled' \subseteq DOMAIN ids' /\ cancelledOff' \subseteq DOMAIN ids'
    BY <1>5, <1>8 DEF TypeOK
  <2>4. wakeup' \in BOOLEAN
    BY DEF TypeOK
  <2> QED
    BY <1>2, <1>5, <1>7, <1>8, <2>1, <2>2, <2>3, <2>4 DEF TypeOK
<1>24. LoopInv'
  <2>1. \A i \in 1..Len(expired) : heap'[expired[i][2]].sequence = heap[expired[i][2]].sequence
    <3> SUFFICES ASSUME NEW i \in 1..Len(expired)
                 PROVE  heap'[expired[i][2]].sequence = heap[expired[i][2]].sequence
      OBVIOUS
    <3>1. expired[i][2] \in Taken /\ expired[i][2] \in Addresses
      BY ElementOfSeq DEF Taken, TypeOK
    <3> QED
      BY <1>2, <1>7, <1>13, <3>1
  <2> QED
    BY <1>5, <2>1, LoopKept
<1>25. PromptInv'
  <2>1. pending \in Seq(Functors) /\ Len(pending) \in Nat
    BY LenProperties DEF TypeOK
  <2>2. Len(pending') = Len(pending) + 1 /\ pending'[Len(pending) + 1] = f
        /\ \A i \in 1..Len(pending) : pending'[i] = pending[i]
    BY <1>5, <1>6, <2>1, AppendProperties
  <2>3. ASSUME NEW i \in 1..Len(pending'), pending'[i].op = "cancel"
        PROVE  wakeup \/ loopPc \in {"run", "callback", "handler", "swap"}
    <3>1. i \in 1..Len(pending) \/ i = Len(pending) + 1
      BY <2>1, <2>2
    <3>2. i \in 1..Len(pending) /\ pending[i].op = "cancel"
      BY <1>6, <2>2, <2>3, <3>1
    <3> QED
      BY <3>2 DEF PromptInv
  <2> QED
    BY <1>5, <2>3 DEF PromptInv
<1>26. AlarmSet'
  BY <1>5 DEF AlarmSet, InHandleRead, Expirations
<1> QED
  BY <1>15, <1>16, <1>17, <1>18, <1>21, <1>22, <1>23, <1>24, <1>25, <1>26 DEF DataInv
-----------------------------------------------------------------------------
(* The theorems.                                                            *)

\* The queue starts empty.
LEMMA InitInv == Init => IInv
<1> SUFFICES ASSUME Init PROVE IInv
  OBVIOUS
<1> USE DEF Init
<1>1. TypeOK
  <2>1. 0 \in 0..MaxTime /\ NoTimer \in TimerObjects /\ DOMAIN ids = {}
    BY TimerConstants DEF NoTimer, TimerObjects
  <2>2. nextRun \in 1..(Len(expired) + 1) /\ Len(ids) <= MaxTimers
    BY TimerConstants
  <2>3. heap \in [Addresses -> TimerObjects] /\ callerPc \in [Callers -> {"idle", "waking"}]
    BY <2>1
  <2>4. /\ pending \in Seq(Functors) /\ batch \in Seq(Functors) /\ expired \in Seq(Nat \X Addresses)
        /\ ids \in Seq([address : Addresses, expiration : Nat, interval : Nat])
    OBVIOUS
  <2>5. /\ now \in 0..MaxTime /\ due \in Nat \cup {Never} /\ signaled \in BOOLEAN /\ wakeup \in BOOLEAN
        /\ loopPc \in LoopPc /\ readAt \in Nat
    BY <2>1 DEF LoopPc
  <2> QED
    BY <2>1, <2>2, <2>3, <2>4, <2>5 DEF TypeOK
<1>2. Waiting = <<>> /\ 1..Len(Waiting) = {} /\ 1..Len(expired) = {} /\ 1..Len(pending) = {}
  BY DEF Waiting
<1>3. Adds(Waiting) = {} /\ Listed = {} /\ Taken = {}
  BY <1>2 DEF Adds, Listed, Taken
<1>4. {a \in Addresses : Live(a)} = {}
  BY DEF Live, NoTimer
<1>5. OwnInv
  BY <1>2, <1>3, <1>4 DEF OwnInv, AddedOnce
<1>6. SetsInv
  BY <1>3 DEF SetsInv
<1>7. ObjectInv
  BY <1>4 DEF ObjectInv
<1>8. NoTimerLost
  BY DEF NoTimerLost
<1>9. OrderInv(Waiting) /\ CancelInv(Waiting) /\ LoopInv /\ PromptInv
  BY <1>2 DEF OrderInv, CancelInv, LoopInv, InHandleRead, PromptInv
<1>10. AlarmSet
  BY DEF AlarmSet
<1> QED
  BY <1>1, <1>5, <1>6, <1>7, <1>8, <1>9, <1>10 DEF IInv, DataInv

\* Every step keeps the invariant.
LEMMA NextInv == IInv /\ [Next]_vars => IInv'
<1> SUFFICES ASSUME IInv, [Next]_vars PROVE IInv'
  OBVIOUS
<1>1. CASE Tick \/ Fire \/ PollOther
  BY <1>1, TickStep, FireStep, PollOtherStep
<1>2. CASE LoopStep
  <2>1. CASE PollWakeup \/ RunTimer \/ CallbackReturns \/ Swap \/ BatchDone
    BY <2>1, PollWakeupStep, RunTimerStep, CallbackReturnsStep, SwapStep, BatchDoneStep
  <2>2. CASE GetExpired \/ ResetExpired
    BY <2>2, GetExpiredStep, ResetExpiredStep
  <2>3. CASE RunFunctor
    BY <2>3, AddStep, CancelStep DEF RunFunctor
  <2> QED
    BY <1>2, <2>1, <2>2, <2>3 DEF LoopStep
<1>3. CASE User
  <2>1. ASSUME NEW req \in Requests, AddTimer(req) PROVE IInv'
    <3>1. callerPc' \in [Callers -> {"idle", "waking"}]
      BY <2>1 DEF AddTimer, IInv, TypeOK
    <3> QED
      BY <2>1, <3>1, QueueTimerStep DEF AddTimer
  <2>2. ASSUME NEW s \in Cancellable, Cancel(s) PROVE IInv'
    <3>1. PICK q : q = s
      OBVIOUS
    <3> QED
      BY <2>2, <3>1, CancelQueued
  <2> QED
    BY <1>3, <2>1, <2>2 DEF User
<1>4. ASSUME NEW c \in Callers, CallerStep(c) PROVE IInv'
  <2>1. ASSUME NEW req \in Requests, AddTimerOff(c, req) PROVE IInv'
    <3>1. callerPc' \in [Callers -> {"idle", "waking"}]
      BY <2>1 DEF AddTimerOff, IInv, TypeOK
    <3> QED
      BY <2>1, <3>1, QueueTimerStep DEF AddTimerOff
  <2>2. ASSUME NEW s \in Cancellable, CancelOff(c, s) PROVE IInv'
    BY <2>2, CancelOffStep
  <2>3. CASE WakeUp(c)
    BY <2>3, WakeStep
  <2> QED
    BY <1>4, <2>1, <2>2, <2>3 DEF CallerStep
<1>5. CASE UNCHANGED vars
  BY <1>5, StutterStep
<1> QED
  BY <1>1, <1>2, <1>3, <1>4, <1>5 DEF Next

\* The inductive invariant of the timers: where each Timer is, in what order its
\* functors wait, what its object says, and when the loop looks at it.
THEOREM Invariant == Spec => []IInv
BY InitInv, NextInv, PTL DEF Spec

\* The variables have their types. (TimerQueue.h)
THEOREM TimerTypeCorrect == Spec => []TypeOK
<1>1. IInv => TypeOK
  BY DEF IInv
<1> QED
  BY Invariant, <1>1, PTL

\* _timers and _activeTimers always describe the same timers, all alive, by the
\* expirations and sequence numbers their objects have: a cancel that finds the one
\* entry erases the other. (TimerQueue.cpp:94, 106, 133, 152, 186, 207)
THEOREM BothSetsAgree == Spec => []SetsAgree
<1>1. IInv => SetsAgree
  <2> SUFFICES ASSUME IInv PROVE SetsAgree
    OBVIOUS
  <2>1. PICK L : L = Listed
    OBVIOUS
  <2>2. /\ \A a \in L : <<heap[a].expiration, a>> \in timers /\ <<a, heap[a].sequence>> \in activeTimers
        /\ \A t \in timers : t[2] \in L /\ t = <<heap[t[2]].expiration, t[2]>>
        /\ \A t \in activeTimers : t[1] \in L /\ t = <<t[1], heap[t[1]].sequence>>
    BY <2>1, ListedEntries DEF IInv, DataInv
  <2>3. ASSUME NEW t \in timers PROVE t \in {<<heap[u[1]].expiration, u[1]>> : u \in activeTimers}
    <3>1. PICK u \in activeTimers : u = <<t[2], heap[t[2]].sequence>>
      BY <2>2
    <3>2. u[1] = t[2]
      BY <3>1
    <3>3. t = <<heap[u[1]].expiration, u[1]>>
      BY <2>2, <3>2
    <3> QED
      BY <3>3
  <2>4. ASSUME NEW u \in activeTimers PROVE <<heap[u[1]].expiration, u[1]>> \in timers
    BY <2>2
  <2>5. \A t \in activeTimers : t[2] = heap[t[1]].sequence
    BY <2>2
  <2> QED
    BY <2>3, <2>4, <2>5 DEF SetsAgree
<1> QED
  BY Invariant, <1>1, PTL

\* A set without two elements counts 0 or 1.
LEMMA AtMostOne ==
  ASSUME NEW S, \A x, y \in S : x = y
  PROVE  Cardinality(S) = IF S = {} THEN 0 ELSE 1
<1>1. CASE S = {}
  BY <1>1, FS_EmptySet
<1>2. CASE S # {}
  <2>1. PICK x \in S : S = {x}
    BY <1>2
  <2>2. Cardinality({x}) = 1
    BY FS_Singleton
  <2> QED
    BY <1>2, <2>1, <2>2
<1> QED
  BY <1>1, <1>2

\* A Timer has exactly one owner from new to delete, and an address without a Timer
\* has none: nothing leaks, nothing is deleted twice and no raw pointer dangles, though
\* addresses are used again. (TimerQueue.cpp:64, 102, 172)
THEOREM TimersOwned == Spec => []OneOwner
<1>1. IInv => OneOwner
  <2> SUFFICES ASSUME IInv, NEW a \in Addresses PROVE Owners(a) = IF Live(a) THEN 1 ELSE 0
    BY DEF OneOwner
  <2>1. PICK w : w = Waiting /\ w \in Seq(Functors)
    BY WaitingTyped DEF IInv
  <2>2. DOMAIN w = 1..Len(w) /\ DOMAIN expired = 1..Len(expired)
    BY <2>1, LenProperties DEF IInv, TypeOK
  <2> DEFINE Q == {i \in DOMAIN w : w[i].op = "add" /\ w[i].address = a}
             T == {t \in timers : t[2] = a}
             E == {i \in DOMAIN expired : expired[i][2] = a}
  <2>3. Owners(a) = Cardinality(Q) + Cardinality(T) + Cardinality(E)
    BY <2>1 DEF Owners, Waiting
  <2>4. Cardinality(Q) = (IF a \in Adds(w) THEN 1 ELSE 0)
    <3>1. \A i, j \in Q : i = j
      BY <2>1, <2>2 DEF IInv, DataInv, OwnInv, AddedOnce
    <3>2. Q # {} <=> a \in Adds(w)
      BY <2>2 DEF Adds
    <3> HIDE DEF Q
    <3> QED
      BY <3>1, <3>2, AtMostOne
  <2>5. Cardinality(T) = (IF a \in Listed THEN 1 ELSE 0)
    <3>1. \A t, u \in T : t = u
      BY ListedEntries DEF IInv, DataInv
    <3>2. T # {} <=> a \in Listed
      BY DEF Listed
    <3> HIDE DEF T
    <3> QED
      BY <3>1, <3>2, AtMostOne
  <2>6. Cardinality(E) = (IF a \in Taken THEN 1 ELSE 0)
    <3>1. \A i, j \in E : i = j
      BY <2>2 DEF IInv, DataInv, OwnInv
    <3>2. E # {} <=> a \in Taken
      BY <2>2 DEF Taken
    <3> HIDE DEF E
    <3> QED
      BY <3>1, <3>2, AtMostOne
  <2>7. /\ Adds(w) \cap Listed = {} /\ Adds(w) \cap Taken = {} /\ Listed \cap Taken = {}
        /\ Live(a) <=> a \in Adds(w) \cup Listed \cup Taken
    BY <2>1 DEF IInv, DataInv, OwnInv
  <2> HIDE DEF Q, T, E
  <2> QED
    BY <2>3, <2>4, <2>5, <2>6, <2>7
<1> QED
  BY Invariant, <1>1, PTL

\* Outside handleRead the waitable timer is signaled or set in time for the earliest
\* timer, whatever the clock's readings were. (TimerQueue.cpp:83-88, 176-180, 188-194)
THEOREM AlarmInTime == Spec => []AlarmSet
<1>1. IInv => AlarmSet
  BY DEF IInv
<1> QED
  BY Invariant, <1>1, PTL

\* A timer that is neither cancelled nor done is where its TimerId says: a cancel with
\* a stale TimerId takes no other timer. (TimerQueue.cpp:96-104)
THEOREM TimersKept == Spec => []NoTimerLost
<1>1. IInv => NoTimerLost
  BY DEF IInv, DataInv
<1> QED
  BY Invariant, <1>1, PTL

\* What loop-thread code has cancelled is in no vector that a later getExpired makes.
\* (TimerQueue.cpp:72-76, EventLoop.cpp:109-119, Poller.cpp:30, 74-75)
THEOREM CancelledNotPicked == Spec => CancelIsPrompt
<1>1. ASSUME IInv, [Next]_vars, loopPc = "poll", loopPc' = "run",
             NEW t \in Range(expired')
      PROVE  heap[t[2]].sequence \notin cancelled
  <2> USE <1>1
  <2>1. GetExpired
    <3>1. loopPc' # loopPc
      BY <1>1
    <3>2. ~Tick /\ ~Fire /\ ~UNCHANGED vars /\ \A c \in Callers : ~CallerStep(c)
      BY <3>1 DEF Tick, Fire, vars, CallerStep, AddTimerOff, QueueTimer, CancelOff, WakeUp
    <3>3. ~User
      BY DEF User, AddTimer, Cancel, InLoop
    <3>4. ~PollOther /\ ~PollWakeup /\ ~RunTimer /\ ~CallbackReturns /\ ~ResetExpired /\ ~Swap
          /\ ~RunFunctor /\ ~BatchDone
      BY DEF PollOther, PollWakeup, RunTimer, CallbackReturns, ResetExpired, Swap, RunFunctor, BatchDone
    <3> QED
      BY <3>2, <3>3, <3>4 DEF Next, LoopStep
  <2>2. ~wakeup /\ t \in timers
    <3>1. PICK r \in Readings : expired' \in InOrder({u \in timers : HasExpired(u, r)})
      BY <2>1 DEF GetExpired
    <3>2. Range(expired') = {u \in timers : HasExpired(u, r)}
      BY <3>1 DEF InOrder
    <3> QED
      BY <2>1, <3>2 DEF GetExpired, TimerReady
  <2>3. PICK a, s : a = t[2] /\ s = heap[a].sequence
    OBVIOUS
  <2>4. a \in Addresses /\ Live(a)
    <3>1. a \in Listed /\ a \in Addresses
      BY <2>2, <2>3, ListedEntries DEF IInv, DataInv
    <3> QED
      BY <3>1 DEF IInv, DataInv, OwnInv
  <2>5. ids[s].address = a
    BY <2>3, <2>4 DEF IInv, DataInv, ObjectInv
  <2>6. \A i \in 1..Len(Waiting) : Waiting[i].op # "cancel"
    <3>1. Waiting = pending
      <4>1. batch = <<>> /\ pending \in Seq(Functors)
        BY DEF IInv, LoopInv, TypeOK
      <4> QED
        BY <4>1, ConcatEmptySeq DEF Waiting
    <3>2. \A i \in 1..Len(pending) : pending[i].op # "cancel"
      BY <2>2 DEF IInv, PromptInv
    <3> QED
      BY <3>1, <3>2
  <2>7. s \in cancelled => heap[ids[s].address].sequence # s
    BY <2>6 DEF IInv, DataInv, CancelInv
  <2> QED
    BY <2>3, <2>5, <2>7
<1>2. IInv /\ [Next]_vars =>
        [loopPc = "poll" /\ loopPc' = "run" =>
           \A t \in Range(expired') : heap[t[2]].sequence \notin cancelled]_vars
  BY <1>1
<1> QED
  BY Invariant, <1>2, PTL DEF Spec, CancelIsPrompt
=============================================================================
