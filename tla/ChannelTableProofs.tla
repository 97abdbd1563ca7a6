------------------------- MODULE ChannelTableProofs -------------------------
(***************************************************************************)
(* Proofs about module ChannelTable, for any number of channels and any    *)
(* number of functors that wait.                                           *)
(***************************************************************************)
EXTENDS ChannelTable, SequenceTheorems, FiniteSetTheorems, TLAPS

(* The parts of the inductive invariant. *)

\* A table and the indices of the channels in it: the index of a channel leads to
\* its place, and one that has no place has the invalid index.
Agree(s, index) ==
    /\ \A i \in 1..Len(s) : s[i] # Null => index[s[i]] = i - 1
    /\ \A a \in Chans : index[a] # Invalid =>
           index[a] + 1 \in 1..Len(s) /\ s[index[a] + 1] = a

ChansOf(c)  == [i \in 1..Len(c) |-> c[i].chan]
EventsOf(c) == [i \in 1..Len(c) |-> c[i].event]
EventSet(c) == {c[i].event : i \in 1..Len(c)}

\* The poller's first two entries never change, and no two have the same event.
EntriesInv(c) ==
    /\ Len(c) >= 2 /\ c[1].chan = Null /\ c[2].chan = Timer /\ c[2].event = TimerHandle
    /\ \A i \in 1..Len(c) : c[i].chan = Null => i = 1
    /\ \A i, j \in 1..Len(c) : c[i].event = c[j].event => i = j

PollInv ==
    /\ EntriesInv(chanEvents)
    /\ events = EventsOf(chanEvents)
    /\ open = EventSet(chanEvents)
    /\ Agree(ChansOf(chanEvents), pollIndex)

LoopInv == Agree(channels, loopIndex)

\* A channel with an index exists.
AliveInv == \A a \in Chans : pollIndex[a] # Invalid \/ loopIndex[a] # Invalid => a \in alive

\* The channel of a queued functor exists; its deletion is the last functor it has,
\* its registration with the loop the first, and it is not registered before.
QueueInv ==
    \A i \in 1..Len(pending) :
        /\ pending[i].chan \in alive
        /\ pending[i].op = "delete" =>
               /\ pending[i].chan \in doomed
               /\ \A j \in 1..Len(pending) : j > i => pending[j].chan # pending[i].chan
        /\ pending[i].op = "add" =>
               /\ loopIndex[pending[i].chan] = Invalid
               /\ \A j \in 1..Len(pending) : j < i => pending[j].chan # pending[i].chan

\* The socket of an entry is selected for the entry's event, and no other socket is.
SelectInv ==
    /\ \A i \in 1..Len(chanEvents) : chanEvents[i].chan \in Sockets =>
           /\ chanEvents[i].mask = interest[chanEvents[i].chan]
           /\ selected[chanEvents[i].chan] =
                  IF chanEvents[i].mask = {} THEN NoEvent ELSE chanEvents[i].event
    /\ \A a \in Sockets : pollIndex[a] = Invalid => selected[a] = NoEvent

\* While the loop exists, and after it is gone.
Books == Exists /\ PollInv /\ LoopInv /\ AliveInv /\ QueueInv /\ SelectInv

Gone ==
    /\ chanEvents = <<>> /\ events = <<>> /\ channels = <<>> /\ open = {TimerHandle}
    /\ \A a \in Sockets : selected[a] = NoEvent

IInv == TypeOK /\ (Books \/ Gone)

-----------------------------------------------------------------------------
(* Tables.                                                                  *)

\* The last element takes the place of the one that goes.
LEMMA SwapRemoveRight ==
  ASSUME NEW S, NEW s \in Seq(S), NEW i \in 1..Len(s)
  PROVE  /\ SwapRemove(s, i) \in Seq(S) /\ Len(SwapRemove(s, i)) = Len(s) - 1
         /\ \A j \in 1..(Len(s) - 1) :
                SwapRemove(s, i)[j] = IF j = i THEN s[Len(s)] ELSE s[j]
<1> DEFINE t == [s EXCEPT ![i] = Last(s)]
<1>1. Len(s) \in Nat /\ Len(s) \in 1..Len(s) /\ s[Len(s)] \in S
  BY ElementOfSeq, LenProperties
<1>2. t \in Seq(S) /\ Len(t) = Len(s)
      /\ \A j \in 1..Len(s) : t[j] = IF j = i THEN s[Len(s)] ELSE s[j]
  BY <1>1, ExceptSeq DEF Last
<1>3. SwapRemove(s, i) = SubSeq(t, 1, Len(s) - 1)
  BY <1>2 DEF SwapRemove, Front
<1> HIDE DEF t
<1>4. \A j \in 1..(Len(s) - 1) : t[j] \in S
  BY <1>1, <1>2
<1>5. /\ SubSeq(t, 1, Len(s) - 1) \in Seq(S)
      /\ Len(SubSeq(t, 1, Len(s) - 1)) = Len(s) - 1
      /\ \A j \in 1..(Len(s) - 1) : SubSeq(t, 1, Len(s) - 1)[j] = t[j]
  <2>1. 1 \in Int /\ Len(s) - 1 \in Int
    BY <1>1
  <2>2. /\ SubSeq(t, 1, Len(s) - 1) \in Seq(S)
        /\ Len(SubSeq(t, 1, Len(s) - 1)) =
               IF 1 <= Len(s) - 1 THEN Len(s) - 1 - 1 + 1 ELSE 0
        /\ \A j \in 1..(Len(s) - 1 - 1 + 1) : SubSeq(t, 1, Len(s) - 1)[j] = t[1 + j - 1]
    BY <1>4, <2>1, SubSeqProperties
  <2>3. (IF 1 <= Len(s) - 1 THEN Len(s) - 1 - 1 + 1 ELSE 0) = Len(s) - 1
    <3>1. \A n \in Nat \ {0} : (IF 1 <= n - 1 THEN n - 1 - 1 + 1 ELSE 0) = n - 1
      OBVIOUS
    <3>2. Len(s) \in Nat \ {0}
      BY <1>1
    <3> QED
      BY <3>1, <3>2
  <2>4. \A j \in 1..(Len(s) - 1) : j \in 1..(Len(s) - 1 - 1 + 1) /\ 1 + j - 1 = j
    BY <1>1
  <2> QED
    BY <2>2, <2>3, <2>4
<1> QED
  BY <1>1, <1>2, <1>3, <1>5

\* Every other element stays.
LEMMA OthersStay ==
  ASSUME NEW S, NEW s \in Seq(S), NEW i \in 1..Len(s)
  PROVE  \A k \in 1..Len(s) : k # i =>
             \E j \in 1..Len(SwapRemove(s, i)) : SwapRemove(s, i)[j] = s[k]
<1> DEFINE t == SwapRemove(s, i)
<1>1. /\ Len(s) \in Nat /\ Len(t) = Len(s) - 1
      /\ \A j \in 1..(Len(s) - 1) : t[j] = IF j = i THEN s[Len(s)] ELSE s[j]
  BY SwapRemoveRight
<1> HIDE DEF t
<1>2. ASSUME NEW k \in 1..Len(s), k # i PROVE \E j \in 1..Len(t) : t[j] = s[k]
  <2>1. CASE k = Len(s)
    BY <1>1, <1>2, <2>1
  <2>2. CASE k # Len(s)
    BY <1>1, <1>2, <2>2
  <2> QED
    BY <2>1, <2>2
<1> QED
  BY <1>2 DEF t

\* A channel is in a table once, so the tables are bounded.
LEMMA TableBound ==
  ASSUME NEW T, IsFiniteSet(T), NEW s \in Seq(T), NEW index,
         \A i \in 1..Len(s) : s[i] # Null => index[s[i]] = i - 1,
         \A i \in 1..Len(s) : s[i] = Null => i = 1
  PROVE  Len(s) <= Cardinality(T)
<1>1. Len(s) \in Nat /\ s \in [1..Len(s) -> T]
  BY LenProperties
<1>2. \A i, j \in 1..Len(s) : s[i] = s[j] => i = j
  BY <1>1
<1>3. s \in Injection(1..Len(s), T)
  BY <1>1, <1>2 DEF Injection, IsInjective
<1>4. Cardinality(1..Len(s)) <= Cardinality(T)
  BY <1>3, FS_Injection
<1>5. Cardinality(1..Len(s)) = Len(s)
  <2>1. Cardinality(1..Len(s)) = IF 1 > Len(s) THEN 0 ELSE Len(s) - 1 + 1
    BY <1>1, FS_Interval
  <2> QED
    BY <1>1, <2>1
<1> QED
  BY <1>4, <1>5

\* What the constants are.
LEMMA Constants ==
  /\ NumChannels \in Nat \ {0} /\ MaxQueued \in Nat
  /\ Invalid \in Nat /\ Invalid = NumChannels + 2 /\ NumChannels + 1 \in Nat
  /\ Null \notin Chans /\ Timer \in Chans /\ Timer \notin Sockets /\ Sockets \subseteq Chans
  /\ IsFiniteSet(Chans) /\ Cardinality(Chans) = NumChannels
  /\ IsFiniteSet(Handles) /\ Cardinality(Handles) = NumChannels + 1
<1>1. NumChannels \in Nat \ {0} /\ MaxQueued \in Nat
  BY TableConstants
<1>2. IsFiniteSet(Chans) /\ Cardinality(Chans) = NumChannels
  BY <1>1, FS_Interval DEF Chans
<1>3. IsFiniteSet(Handles) /\ Cardinality(Handles) = NumChannels + 1
  BY <1>1, FS_Interval DEF Handles
<1> QED
  BY <1>1, <1>2, <1>3 DEF Invalid, Null, Chans, Timer, Sockets

\* What has no index is in no table.
LEMMA NotThere ==
  ASSUME NEW s \in Seq(Chans \cup {Null}), NEW index, NEW a \in Chans,
         Len(s) <= NumChannels + 1, Agree(s, index), index[a] = Invalid
  PROVE  \A i \in 1..Len(s) : s[i] # a
<1> SUFFICES ASSUME NEW i \in 1..Len(s), s[i] = a PROVE FALSE
  OBVIOUS
<1>1. Invalid = i - 1 /\ i <= NumChannels + 1 /\ Len(s) \in Nat
  BY Constants DEF Agree
<1> QED
  BY <1>1, Constants

\* A new element at the end, with the end as its index.
LEMMA AppendAgrees ==
  ASSUME NEW s \in Seq(Chans \cup {Null}), NEW index \in [Chans -> Nat], NEW a \in Chans,
         Len(s) <= NumChannels + 1, Agree(s, index), index[a] = Invalid
  PROVE  Agree(Append(s, a), [index EXCEPT ![a] = Len(s)])
<1> DEFINE t == Append(s, a)
           x == [index EXCEPT ![a] = Len(s)]
<1>1. Len(s) \in Nat /\ Len(t) = Len(s) + 1 /\ t[Len(s) + 1] = a
      /\ \A i \in 1..Len(s) : t[i] = s[i] /\ s[i] \in Chans \cup {Null}
  BY AppendProperties, ElementOfSeq
<1>2. x[a] = Len(s) /\ \A b \in Chans \ {a} : x[b] = index[b]
  OBVIOUS
<1>3. a # Null /\ \A i \in 1..Len(s) : s[i] # a
  BY NotThere, Constants
<1> HIDE DEF t, x
<1> QED
  BY <1>1, <1>2, <1>3 DEF Agree

\* The last element moves to the place of the one that goes, and gets its index.
LEMMA RemoveAgrees ==
  ASSUME NEW s \in Seq(Chans \cup {Null}), NEW index \in [Chans -> Nat], NEW a \in Chans,
         Agree(s, index), index[a] # Invalid, Len(s) <= NumChannels + 1, Last(s) # Null
  PROVE  Agree(SwapRemove(s, index[a] + 1), Reindexed(index, a, Last(s)))
<1> DEFINE i == index[a] + 1
           n == Len(s)
           t == SwapRemove(s, i)
           x == Reindexed(index, a, Last(s))
<1>1. n \in Nat /\ i \in 1..n /\ s[i] = a /\ n \in 1..n
  BY LenProperties DEF Agree
<1>2. Len(t) = n - 1 /\ \A j \in 1..(n - 1) : t[j] = IF j = i THEN s[n] ELSE s[j]
  BY <1>1, SwapRemoveRight
<1>3. Last(s) = s[n] /\ s[n] \in Chans /\ \A j \in 1..n : s[j] \in Chans \cup {Null}
  BY <1>1, ElementOfSeq DEF Last
<1>4. /\ x[a] = Invalid
      /\ s[n] # a => x[s[n]] = index[a]
      /\ \A b \in Chans \ {a, s[n]} : x[b] = index[b]
  BY <1>3 DEF Reindexed
<1>5. i \in Nat /\ index[a] = i - 1 /\ \A b \in Chans : index[b] \in Nat
  OBVIOUS
<1>6. \A j, k \in 1..n : s[j] = s[k] /\ s[j] # Null => j = k
  BY <1>1 DEF Agree
<1>7. /\ \A j \in 1..n : s[j] # Null => index[s[j]] = j - 1
      /\ \A b \in Chans : index[b] # Invalid => index[b] + 1 \in 1..n /\ s[index[b] + 1] = b
  BY DEF Agree
<1> HIDE DEF i, n, t, x
<1>8. ASSUME NEW j \in 1..Len(t), t[j] # Null PROVE x[t[j]] = j - 1
  <2>1. j \in 1..(n - 1) /\ j \in 1..n /\ j # n
    BY <1>1, <1>2
  <2>2. CASE j = i
    BY <1>1, <1>2, <1>3, <1>4, <1>5, <1>6, <2>1, <2>2
  <2>3. CASE j # i
    <3>1. t[j] = s[j] /\ s[j] # a /\ s[j] # s[n] /\ s[j] \in Chans
      BY <1>1, <1>2, <1>3, <1>6, <1>8, <2>1, <2>3
    <3> QED
      BY <1>4, <1>7, <1>8, <2>1, <3>1
  <2> QED
    BY <2>2, <2>3
<1>9. ASSUME NEW b \in Chans, x[b] # Invalid
      PROVE  x[b] + 1 \in 1..Len(t) /\ t[x[b] + 1] = b
  <2>1. b # a
    BY <1>4, <1>9
  <2>2. CASE b = s[n]
    <3>1. i # n
      BY <1>1, <2>1, <2>2
    <3>2. x[b] = i - 1 /\ i \in 1..(n - 1)
      BY <1>1, <1>4, <1>5, <2>1, <2>2, <3>1
    <3> QED
      BY <1>2, <1>5, <2>2, <3>2
  <2>3. CASE b # s[n]
    <3>1. x[b] = index[b] /\ index[b] + 1 \in 1..n /\ s[index[b] + 1] = b
      BY <1>4, <1>7, <1>9, <2>1, <2>3
    <3>2. index[b] + 1 # i /\ index[b] + 1 # n /\ index[b] \in Nat
      BY <1>1, <1>5, <2>1, <2>3, <3>1
    <3> QED
      BY <1>1, <1>2, <3>1, <3>2
  <2> QED
    BY <2>2, <2>3
<1>10. Agree(t, x)
  BY <1>8, <1>9 DEF Agree
<1> QED
  BY <1>10 DEF t, x, i

-----------------------------------------------------------------------------
(* The poller's entries.                                                    *)

\* The entries, their channels and their events, by type.
LEMMA EntryTypes ==
  ASSUME NEW c \in Seq(Entries)
  PROVE  /\ Len(c) \in Nat
         /\ \A i \in 1..Len(c) : c[i] \in Entries /\ c[i].chan \in Chans \cup {Null}
                                 /\ c[i].event \in Handles /\ c[i].mask \in SUBSET Interests
         /\ ChansOf(c) \in Seq(Chans \cup {Null}) /\ EventsOf(c) \in Seq(Handles)
         /\ Len(ChansOf(c)) = Len(c) /\ Len(EventsOf(c)) = Len(c)
<1>1. Len(c) \in Nat /\ \A i \in 1..Len(c) : c[i] \in Entries
  BY LenProperties, ElementOfSeq
<1>2. \A i \in 1..Len(c) : c[i].chan \in Chans \cup {Null}
                           /\ c[i].event \in Handles /\ c[i].mask \in SUBSET Interests
  BY <1>1 DEF Entries
<1>3. ChansOf(c) \in Seq(Chans \cup {Null}) /\ Len(ChansOf(c)) = Len(c)
  BY <1>1, <1>2 DEF ChansOf
<1>4. EventsOf(c) \in Seq(Handles) /\ Len(EventsOf(c)) = Len(c)
  BY <1>1, <1>2 DEF EventsOf
<1> QED
  BY <1>1, <1>2, <1>3, <1>4

\* Appending an entry appends its channel and its event.
LEMMA EntryAppended ==
  ASSUME NEW c \in Seq(Entries), NEW e \in Entries
  PROVE  /\ ChansOf(Append(c, e)) = Append(ChansOf(c), e.chan)
         /\ EventsOf(Append(c, e)) = Append(EventsOf(c), e.event)
<1> DEFINE d == Append(c, e)
<1>1. /\ d \in Seq(Entries) /\ Len(d) = Len(c) + 1 /\ d[Len(c) + 1] = e /\ Len(c) \in Nat
      /\ \A i \in 1..Len(c) : d[i] = c[i]
  BY AppendProperties, EntryTypes
<1> HIDE DEF d
<1>2. e.chan \in Chans \cup {Null} /\ e.event \in Handles
  BY DEF Entries
<1>3. ChansOf(d) = Append(ChansOf(c), e.chan)
  <2>1. ChansOf(d) \in Seq(Chans \cup {Null}) /\ Len(ChansOf(d)) = Len(c) + 1
    BY <1>1, EntryTypes
  <2>2. ChansOf(c) \in Seq(Chans \cup {Null}) /\ Len(ChansOf(c)) = Len(c)
    BY EntryTypes
  <2>3. /\ Append(ChansOf(c), e.chan) \in Seq(Chans \cup {Null})
        /\ Len(Append(ChansOf(c), e.chan)) = Len(c) + 1
        /\ \A i \in 1..Len(c) : Append(ChansOf(c), e.chan)[i] = ChansOf(c)[i]
        /\ Append(ChansOf(c), e.chan)[Len(c) + 1] = e.chan
    BY <1>2, <2>2, AppendProperties
  <2>4. \A i \in 1..(Len(c) + 1) : ChansOf(d)[i] = Append(ChansOf(c), e.chan)[i]
    BY <1>1, <2>3 DEF ChansOf
  <2> QED
    BY <2>1, <2>3, <2>4, SeqEqual
<1>4. EventsOf(d) = Append(EventsOf(c), e.event)
  <2>1. EventsOf(d) \in Seq(Handles) /\ Len(EventsOf(d)) = Len(c) + 1
    BY <1>1, EntryTypes
  <2>2. EventsOf(c) \in Seq(Handles) /\ Len(EventsOf(c)) = Len(c)
    BY EntryTypes
  <2>3. /\ Append(EventsOf(c), e.event) \in Seq(Handles)
        /\ Len(Append(EventsOf(c), e.event)) = Len(c) + 1
        /\ \A i \in 1..Len(c) : Append(EventsOf(c), e.event)[i] = EventsOf(c)[i]
        /\ Append(EventsOf(c), e.event)[Len(c) + 1] = e.event
    BY <1>2, <2>2, AppendProperties
  <2>4. \A i \in 1..(Len(c) + 1) : EventsOf(d)[i] = Append(EventsOf(c), e.event)[i]
    BY <1>1, <2>3 DEF EventsOf
  <2> QED
    BY <2>1, <2>3, <2>4, SeqEqual
<1> QED
  BY <1>3, <1>4 DEF d

\* Removing an entry removes its channel and its event.
LEMMA EntryRemoved ==
  ASSUME NEW c \in Seq(Entries), NEW i \in 1..Len(c)
  PROVE  /\ ChansOf(SwapRemove(c, i)) = SwapRemove(ChansOf(c), i)
         /\ EventsOf(SwapRemove(c, i)) = SwapRemove(EventsOf(c), i)
<1> DEFINE d == SwapRemove(c, i)
<1>1. /\ d \in Seq(Entries) /\ Len(d) = Len(c) - 1
      /\ \A j \in 1..(Len(c) - 1) : d[j] = IF j = i THEN c[Len(c)] ELSE c[j]
  BY SwapRemoveRight
<1>2. Len(c) \in Nat /\ Len(c) \in 1..Len(c)
  BY EntryTypes
<1> HIDE DEF d
<1>3. ChansOf(d) = SwapRemove(ChansOf(c), i)
  <2> DEFINE v == ChansOf(c)
             u == SwapRemove(v, i)
  <2>1. ChansOf(d) \in Seq(Chans \cup {Null}) /\ Len(ChansOf(d)) = Len(c) - 1
        /\ \A j \in 1..(Len(c) - 1) : ChansOf(d)[j] = d[j].chan
    BY <1>1, EntryTypes DEF ChansOf
  <2>2. v \in Seq(Chans \cup {Null}) /\ Len(v) = Len(c)
        /\ \A j \in 1..Len(c) : v[j] = c[j].chan
    BY EntryTypes DEF ChansOf
  <2> HIDE DEF v
  <2>3. i \in 1..Len(v)
    BY <2>2
  <2>4. /\ u \in Seq(Chans \cup {Null}) /\ Len(u) = Len(v) - 1
        /\ \A j \in 1..(Len(v) - 1) : u[j] = IF j = i THEN v[Len(v)] ELSE v[j]
    BY <2>2, <2>3, SwapRemoveRight
  <2> HIDE DEF u
  <2>5. ASSUME NEW j \in 1..(Len(c) - 1) PROVE ChansOf(d)[j] = u[j]
    <3>1. j \in 1..Len(c) /\ ChansOf(d)[j] = d[j].chan
      BY <1>2, <2>1
    <3>2. CASE j = i
      BY <1>1, <1>2, <2>2, <2>4, <3>1, <3>2
    <3>3. CASE j # i
      <4>1. d[j] = c[j] /\ u[j] = v[j] /\ v[j] = c[j].chan
        BY <1>1, <2>2, <2>4, <3>1, <3>3
      <4> QED
        BY <3>1, <4>1
    <3> QED
      BY <3>2, <3>3
  <2>6. ChansOf(d) = u
    BY <2>1, <2>2, <2>4, <2>5, SeqEqual
  <2> QED
    BY <2>6 DEF u, v
<1>4. EventsOf(d) = SwapRemove(EventsOf(c), i)
  <2> DEFINE v == EventsOf(c)
             u == SwapRemove(v, i)
  <2>1. EventsOf(d) \in Seq(Handles) /\ Len(EventsOf(d)) = Len(c) - 1
        /\ \A j \in 1..(Len(c) - 1) : EventsOf(d)[j] = d[j].event
    BY <1>1, EntryTypes DEF EventsOf
  <2>2. v \in Seq(Handles) /\ Len(v) = Len(c)
        /\ \A j \in 1..Len(c) : v[j] = c[j].event
    BY EntryTypes DEF EventsOf
  <2> HIDE DEF v
  <2>3. i \in 1..Len(v)
    BY <2>2
  <2>4. /\ u \in Seq(Handles) /\ Len(u) = Len(v) - 1
        /\ \A j \in 1..(Len(v) - 1) : u[j] = IF j = i THEN v[Len(v)] ELSE v[j]
    BY <2>2, <2>3, SwapRemoveRight
  <2> HIDE DEF u
  <2>5. ASSUME NEW j \in 1..(Len(c) - 1) PROVE EventsOf(d)[j] = u[j]
    <3>1. j \in 1..Len(c) /\ EventsOf(d)[j] = d[j].event
      BY <1>2, <2>1
    <3>2. CASE j = i
      BY <1>1, <1>2, <2>2, <2>4, <3>1, <3>2
    <3>3. CASE j # i
      <4>1. d[j] = c[j] /\ u[j] = v[j] /\ v[j] = c[j].event
        BY <1>1, <2>2, <2>4, <3>1, <3>3
      <4> QED
        BY <3>1, <4>1
    <3> QED
      BY <3>2, <3>3
  <2>6. EventsOf(d) = u
    BY <2>1, <2>2, <2>4, <2>5, SeqEqual
  <2> QED
    BY <2>6 DEF u, v
<1> QED
  BY <1>3, <1>4 DEF d

\* While there are channels without an entry, the poller's indices are in range.
LEMMA EntryBound ==
  ASSUME NEW c \in Seq(Entries), NEW index \in [Chans -> Nat], EntriesInv(c),
         Agree(ChansOf(c), index)
  PROVE  /\ Len(c) <= NumChannels + 1
         /\ \A a \in Chans : index[a] = Invalid => Len(c) <= NumChannels
<1> DEFINE s == ChansOf(c)
<1>1. /\ s \in Seq(Chans \cup {Null}) /\ Len(s) = Len(c) /\ Len(c) \in Nat
      /\ \A i \in 1..Len(s) : s[i] # Null => index[s[i]] = i - 1
      /\ Agree(s, index)
  BY EntryTypes DEF Agree
<1>2. \A i \in 1..Len(s) : s[i] = Null => i = 1
  BY <1>1 DEF EntriesInv, ChansOf
<1> HIDE DEF s
<1>3. IsFiniteSet(Chans \cup {Null}) /\ Cardinality(Chans \cup {Null}) = NumChannels + 1
  BY Constants, FS_AddElement
<1>4. Len(c) <= NumChannels + 1
  BY <1>1, <1>2, <1>3, TableBound
<1>5. ASSUME NEW a \in Chans, index[a] = Invalid PROVE Len(c) <= NumChannels
  <2> DEFINE T == (Chans \cup {Null}) \ {a}
  <2>1. \A i \in 1..Len(s) : s[i] # a
    BY <1>1, <1>4, <1>5, NotThere
  <2>2. \A i \in 1..Len(s) : s[i] \in T
    BY <1>1, <2>1, ElementOfSeq
  <2>3. s \in Seq(T)
    BY <1>1, <2>2
  <2>4. IsFiniteSet(T) /\ Cardinality(T) = NumChannels + 1 - 1
    <3> DEFINE U == Chans \cup {Null}
    <3>1. a \in U /\ IsFiniteSet(U) /\ Cardinality(U) = NumChannels + 1
      BY <1>3
    <3> HIDE DEF U
    <3>2. IsFiniteSet(U \ {a}) /\ Cardinality(U \ {a}) = Cardinality(U) - 1
      BY <3>1, FS_RemoveElement
    <3>3. T = U \ {a}
      BY DEF U
    <3> HIDE DEF T
    <3> QED
      BY <3>1, <3>2, <3>3, Constants
  <2> HIDE DEF T
  <2>5. Len(s) <= Cardinality(T)
    BY <1>1, <1>2, <2>3, <2>4, TableBound
  <2> QED
    BY <1>1, <2>4, <2>5, Constants
<1> QED
  BY <1>4, <1>5

PollIndices == [Chans -> 0..NumChannels \cup {Invalid}]

\* A channel that has no entry gets one at the end, with an event that was free.
LEMMA EntryAdded ==
  ASSUME NEW c \in Seq(Entries), NEW index \in PollIndices, EntriesInv(c),
         Agree(ChansOf(c), index), NEW e \in Entries, NEW a \in Chans, e.chan = a,
         index[a] = Invalid, e.event \notin EventSet(c),
         NEW d, d = Append(c, e), NEW x, x = [index EXCEPT ![a] = Len(c)]
  PROVE  /\ d \in Seq(Entries) /\ x \in PollIndices /\ EntriesInv(d)
         /\ Agree(ChansOf(d), x) /\ EventSet(d) = EventSet(c) \cup {e.event}
<1>1. /\ Len(c) \in Nat /\ d \in Seq(Entries) /\ Len(d) = Len(c) + 1 /\ d[Len(c) + 1] = e
      /\ \A i \in 1..Len(c) : d[i] = c[i]
  BY EntryTypes, AppendProperties
<1>2. index \in [Chans -> Nat]
  BY Constants DEF PollIndices
<1>3. Len(c) <= NumChannels
  BY <1>2, EntryBound
<1>4. x \in PollIndices
  BY <1>1, <1>3, Constants DEF PollIndices
<1>5. EntriesInv(d)
  <2>1. \A i \in 1..Len(c) : c[i].event # e.event
    BY DEF EventSet
  <2> QED
    BY <1>1, <2>1, Constants DEF EntriesInv
<1>6. Agree(ChansOf(d), x)
  <2> DEFINE s == ChansOf(c)
  <2>1. s \in Seq(Chans \cup {Null}) /\ Len(s) = Len(c) /\ Agree(s, index)
        /\ Len(s) <= NumChannels + 1
    BY <1>1, <1>3, EntryTypes, Constants
  <2>2. ChansOf(d) = Append(s, a)
    BY EntryAppended
  <2> HIDE DEF s
  <2>3. Agree(Append(s, a), [index EXCEPT ![a] = Len(s)])
    BY <1>2, <2>1, AppendAgrees
  <2> QED
    BY <2>1, <2>2, <2>3
<1>7. EventSet(d) = EventSet(c) \cup {e.event}
  BY <1>1 DEF EventSet
<1> QED
  BY <1>1, <1>4, <1>5, <1>6, <1>7

\* A socket's entry goes, the last one takes its place; the first two stay.
LEMMA EntryDropped ==
  ASSUME NEW c \in Seq(Entries), NEW index \in PollIndices, EntriesInv(c),
         Agree(ChansOf(c), index), NEW a \in Sockets, index[a] # Invalid,
         NEW i, i = index[a] + 1,
         NEW d, d = SwapRemove(c, i), NEW x, x = Reindexed(index, a, Last(c).chan)
  PROVE  /\ i \in 1..Len(c) /\ c[i].chan = a /\ d \in Seq(Entries) /\ x \in PollIndices
         /\ EntriesInv(d) /\ Agree(ChansOf(d), x)
         /\ \A j \in 1..Len(d) : \E k \in 1..Len(c) : k # i /\ d[j] = c[k]
         /\ \A b \in Chans \ {a} : index[b] = Invalid <=> x[b] = Invalid
         /\ x[a] = Invalid
<1> DEFINE n == Len(c)
           s == ChansOf(c)
<1>1. /\ s \in Seq(Chans \cup {Null}) /\ Len(s) = n /\ n \in Nat /\ Agree(s, index)
      /\ \A j \in 1..n : s[j] = c[j].chan
  BY EntryTypes DEF ChansOf
<1>2. index \in [Chans -> Nat] /\ a \in Chans /\ a # Null /\ a # Timer
  BY Constants DEF PollIndices
<1>3. i \in 1..n /\ c[i].chan = a
  BY <1>1, <1>2 DEF Agree
<1>4. n <= NumChannels + 1
  BY <1>2, EntryBound
<1>5. n >= 3 /\ i >= 3 /\ i # 1 /\ i # 2 /\ n # 1 /\ n # 2 /\ n \in 1..n
  BY <1>1, <1>2, <1>3, Constants DEF EntriesInv
<1>6. /\ d \in Seq(Entries) /\ Len(d) = n - 1
      /\ \A j \in 1..(n - 1) : d[j] = IF j = i THEN c[n] ELSE c[j]
  <2>1. /\ SwapRemove(c, i) \in Seq(Entries) /\ Len(SwapRemove(c, i)) = n - 1
        /\ \A j \in 1..(n - 1) : SwapRemove(c, i)[j] = IF j = i THEN c[n] ELSE c[j]
    <3>1. i \in 1..Len(c)
      BY <1>3
    <3> QED
      BY <3>1, SwapRemoveRight
  <2> QED
    BY <2>1
<1>7. Last(c) = c[n] /\ Last(s) = s[n] /\ s[n] = c[n].chan /\ c[n].chan \in Chans
  <2>1. c[n].chan # Null
    BY <1>5 DEF EntriesInv
  <2> QED
    BY <1>1, <1>5, <2>1, EntryTypes DEF Last
<1>8. /\ \A j, k \in 1..n : c[j].event = c[k].event => j = k
      /\ \A j \in 1..n : c[j].chan = Null => j = 1
      /\ c[1].chan = Null /\ c[2].chan = Timer /\ c[2].event = TimerHandle
  BY DEF EntriesInv
<1>9. Agree(ChansOf(d), x)
  <2>1. ChansOf(d) = SwapRemove(s, i)
    BY <1>3, EntryRemoved
  <2>2. Last(s) # Null /\ Len(s) <= NumChannels + 1
    BY <1>1, <1>4, <1>7, Constants
  <2> HIDE DEF s, n
  <2>3. Agree(SwapRemove(s, index[a] + 1), Reindexed(index, a, Last(s)))
    BY <1>1, <1>2, <2>2, RemoveAgrees
  <2> QED
    BY <1>7, <2>1, <2>3
<1>10. x \in PollIndices
  BY <1>2, <1>7 DEF Reindexed, PollIndices
<1> HIDE DEF s, n
<1>11. \A j \in 1..Len(d) : \E k \in 1..n : k # i /\ d[j] = c[k]
  BY <1>1, <1>3, <1>5, <1>6
<1>12. EntriesInv(d)
  <2>1. Len(d) >= 2 /\ d[1] = c[1] /\ d[2] = c[2]
    BY <1>1, <1>5, <1>6
  <2>2. \A j \in 1..Len(d) : d[j].chan = Null => j = 1
    BY <1>1, <1>5, <1>6, <1>8
  <2>3. \A j, k \in 1..Len(d) : d[j].event = d[k].event => j = k
    BY <1>1, <1>5, <1>6, <1>8
  <2> QED
    BY <1>8, <2>1, <2>2, <2>3 DEF EntriesInv
<1>13. x[a] = Invalid /\ \A b \in Chans \ {a} : index[b] = Invalid <=> x[b] = Invalid
  <2>1. index[c[n].chan] # Invalid
    <3>1. s[n] # Null
      BY <1>7, Constants
    <3>2. index[s[n]] = n - 1
      BY <1>1, <1>5, <3>1 DEF Agree
    <3> QED
      BY <1>1, <1>4, <1>7, <3>2, Constants
  <2> QED
    BY <1>2, <1>7, <2>1 DEF Reindexed
<1> QED
  BY <1>3, <1>6, <1>9, <1>10, <1>11, <1>12, <1>13 DEF n

\* A new mask changes neither channels nor events.
LEMMA EntryMasked ==
  ASSUME NEW c \in Seq(Entries), NEW i \in 1..Len(c), NEW e \in Entries,
         e.chan = c[i].chan, e.event = c[i].event, NEW d, d = [c EXCEPT ![i] = e]
  PROVE  /\ d \in Seq(Entries) /\ Len(d) = Len(c) /\ ChansOf(d) = ChansOf(c)
         /\ EventsOf(d) = EventsOf(c) /\ EventSet(d) = EventSet(c)
         /\ \A j \in 1..Len(c) : d[j] = IF j = i THEN e ELSE c[j]
         /\ EntriesInv(c) => EntriesInv(d)
<1>1. /\ d \in Seq(Entries) /\ Len(d) = Len(c)
      /\ \A j \in 1..Len(c) : d[j] = IF j = i THEN e ELSE c[j]
  BY ExceptSeq
<1>2. \A j \in 1..Len(c) : d[j].chan = c[j].chan /\ d[j].event = c[j].event
  BY <1>1
<1>3. ChansOf(d) = ChansOf(c) /\ EventsOf(d) = EventsOf(c) /\ EventSet(d) = EventSet(c)
  BY <1>1, <1>2 DEF ChansOf, EventsOf, EventSet
<1>4. EntriesInv(c) => EntriesInv(d)
  BY <1>1, <1>2 DEF EntriesInv
<1> QED
  BY <1>1, <1>3, <1>4

-----------------------------------------------------------------------------
(* The operations.                                                          *)

PollTypes ==
    /\ interest \in [Sockets -> SUBSET Interests] /\ pollIndex \in PollIndices
    /\ chanEvents \in Seq(Entries) /\ events \in Seq(Handles) /\ open \subseteq Handles
    /\ selected \in [Sockets -> Handles \cup {NoEvent}]

\* Events are handles.
LEMMA DerivedTypes ==
  ASSUME NEW c \in Seq(Entries)
  PROVE  EventsOf(c) \in Seq(Handles) /\ EventSet(c) \subseteq Handles
BY EntryTypes DEF EventSet

\* A socket's index is in range, and leads to its entry, or it is invalid.
LEMMA OwnEntry ==
  ASSUME PollTypes, PollInv, NEW a \in Sockets
  PROVE  /\ pollIndex[a] < Len(chanEvents) =>
                /\ pollIndex[a] # Invalid
                /\ pollIndex[a] + 1 \in 1..Len(chanEvents)
                /\ chanEvents[pollIndex[a] + 1].chan = a
         /\ ~(pollIndex[a] < Len(chanEvents)) => pollIndex[a] = Invalid
         /\ \A j \in 1..Len(chanEvents) : chanEvents[j].chan = a =>
                pollIndex[a] # Invalid /\ j = pollIndex[a] + 1
<1> DEFINE s == ChansOf(chanEvents)
<1>1. /\ chanEvents \in Seq(Entries) /\ pollIndex \in [Chans -> Nat] /\ a \in Chans
      /\ EntriesInv(chanEvents) /\ Agree(s, pollIndex)
  BY Constants DEF PollTypes, PollInv, PollIndices
<1>2. Len(chanEvents) <= NumChannels + 1 /\ Len(chanEvents) \in Nat
  BY <1>1, EntryBound, EntryTypes
<1>3. Len(s) = Len(chanEvents) /\ \A j \in 1..Len(chanEvents) : s[j] = chanEvents[j].chan
  BY <1>1, EntryTypes DEF ChansOf
<1> HIDE DEF s
<1>4. /\ \A j \in 1..Len(s) : s[j] # Null => pollIndex[s[j]] = j - 1
      /\ pollIndex[a] # Invalid => pollIndex[a] + 1 \in 1..Len(s) /\ s[pollIndex[a] + 1] = a
  BY <1>1 DEF Agree
<1>5. pollIndex[a] \in Nat
  BY <1>1
<1>6. ~(pollIndex[a] < Len(chanEvents)) => pollIndex[a] = Invalid
  BY <1>2, <1>3, <1>4, <1>5
<1>7. pollIndex[a] < Len(chanEvents) => pollIndex[a] # Invalid
  BY <1>2, <1>5, Constants
<1>8. ASSUME NEW j \in 1..Len(chanEvents), chanEvents[j].chan = a
      PROVE  pollIndex[a] # Invalid /\ j = pollIndex[a] + 1
  <2>1. pollIndex[a] = j - 1
    BY <1>1, <1>3, <1>4, <1>8, Constants
  <2> QED
    BY <1>2, <2>1, Constants
<1> QED
  BY <1>3, <1>4, <1>6, <1>7, <1>8

\* updateChannel keeps the poller's books.
LEMMA UpdateKeeps ==
  ASSUME PollTypes, PollInv, SelectInv, NEW a \in Sockets, NEW set \in SUBSET Interests,
         Update(a, set)
  PROVE  /\ PollTypes' /\ PollInv' /\ SelectInv'
         /\ \A b \in Chans \ {a} : pollIndex'[b] = pollIndex[b]
<1> DEFINE c == chanEvents
           i == pollIndex[a] + 1
<1>1. /\ c \in Seq(Entries) /\ pollIndex \in PollIndices /\ EntriesInv(c)
      /\ Agree(ChansOf(c), pollIndex) /\ events = EventsOf(c) /\ open = EventSet(c)
      /\ a \in Chans /\ a # Null
  BY Constants DEF PollTypes, PollInv
<1>2. interest' = [interest EXCEPT ![a] = set] /\ interest' \in [Sockets -> SUBSET Interests]
  BY DEF Update, PollTypes
<1>3. /\ \A b \in Sockets : interest'[b] = IF b = a THEN set ELSE interest[b]
  BY <1>2 DEF PollTypes
<1>4. CASE pollIndex[a] < Len(c)
  <2>1. i \in 1..Len(c) /\ c[i].chan = a /\ \A j \in 1..Len(c) : c[j].chan = a => j = i
    BY <1>4, OwnEntry
  <2> DEFINE e == [c[i] EXCEPT !.mask = set]
  <2>2. /\ c' = [c EXCEPT ![i] = e] /\ EventSelect(a, c[i].event, set)
        /\ UNCHANGED <<events, pollIndex, open>>
    BY <1>4 DEF Update
  <2>8. e \in Entries /\ e.chan = c[i].chan /\ e.event = c[i].event /\ e.mask = set
    BY <1>1, <2>1, EntryTypes DEF Entries
  <2> HIDE DEF e, i
  <2>3. /\ c' \in Seq(Entries) /\ Len(c') = Len(c) /\ ChansOf(c') = ChansOf(c)
        /\ EventsOf(c') = EventsOf(c) /\ EventSet(c') = EventSet(c)
        /\ \A j \in 1..Len(c) : c'[j] = IF j = i THEN e ELSE c[j]
        /\ EntriesInv(c')
    <3>1. c \in Seq(Entries) /\ EntriesInv(c) /\ i \in 1..Len(c)
      BY <1>1, <2>1
    <3>2. c' = [c EXCEPT ![i] = e]
      BY <2>2
    <3>3. e \in Entries /\ e.chan = c[i].chan /\ e.event = c[i].event
      BY <2>8
    <3> DEFINE d == c'
    <3> HIDE DEF c, d
    <3>4. d = [c EXCEPT ![i] = e]
      BY <3>2 DEF d
    <3>5. /\ d \in Seq(Entries) /\ Len(d) = Len(c) /\ ChansOf(d) = ChansOf(c)
          /\ EventsOf(d) = EventsOf(c) /\ EventSet(d) = EventSet(c)
      BY <3>1, <3>3, <3>4, EntryMasked
    <3>6. \A j \in 1..Len(c) : d[j] = IF j = i THEN e ELSE c[j]
      BY <3>1, <3>3, <3>4, ExceptSeq
    <3>7. EntriesInv(d)
      BY <3>1, <3>3, <3>4, EntryMasked
    <3> QED
      BY <3>5, <3>6, <3>7 DEF d
  <2>4. PollInv'
    BY <1>1, <2>2, <2>3 DEF PollInv
  <2>5. selected' \in [Sockets -> Handles \cup {NoEvent}]
        /\ \A b \in Sockets : selected'[b] =
               IF b = a THEN IF set = {} THEN NoEvent ELSE c[i].event ELSE selected[b]
    BY <1>1, <2>1, <2>2, EntryTypes DEF EventSelect, PollTypes
  <2>6. PollTypes'
    BY <1>2, <2>2, <2>3, <2>5 DEF PollTypes
  <2>7. SelectInv'
    BY <1>3, <2>1, <2>2, <2>3, <2>5, <2>8, OwnEntry DEF SelectInv
  <2> QED
    BY <2>2, <2>4, <2>6, <2>7
<1>5. CASE ~(pollIndex[a] < Len(c))
  <2> DEFINE h == CHOOSE h \in Handles : h \notin open
             e == [event |-> h, chan |-> a, mask |-> set]
  <2>1. pollIndex[a] = Invalid /\ \A j \in 1..Len(c) : c[j].chan # a
    BY <1>5, OwnEntry
  <2>2. h \in Handles /\ h \notin open
    <3>1. Len(c) <= NumChannels /\ Len(c) \in Nat
      BY <1>1, <2>1, EntryBound, EntryTypes, Constants DEF PollIndices
    <3>2. IsFiniteSet(open) /\ Cardinality(open) <= Len(c)
      <4>1. [j \in 1..Len(c) |-> c[j].event] \in Surjection(1..Len(c), open)
        BY <1>1 DEF Surjection, EventSet
      <4>2. IsFiniteSet(1..Len(c)) /\ Cardinality(1..Len(c)) = Len(c)
        <5>1. IsFiniteSet(1..Len(c))
              /\ Cardinality(1..Len(c)) = IF 1 > Len(c) THEN 0 ELSE Len(c) - 1 + 1
          BY <3>1, FS_Interval
        <5> QED
          BY <3>1, <5>1
      <4> QED
        BY <4>1, <4>2, FS_Surjection
    <3>3. open # Handles
      BY <3>1, <3>2, Constants
    <3>4. open \subseteq Handles
      BY DEF PollTypes
    <3>5. \E g \in Handles : g \notin open
      BY <3>3, <3>4
    <3> QED
      BY <3>5
  <2>3. /\ c' = Append(c, e) /\ events' = Append(events, h) /\ open' = open \cup {h}
        /\ pollIndex' = [pollIndex EXCEPT ![a] = Len(c)] /\ EventSelect(a, h, set)
    BY <1>5 DEF Update, AddChannelEvent, EndIndex
  <2> HIDE DEF h
  <2>4. e \in Entries /\ e.chan = a /\ e.event = h /\ e.mask = set
    BY <1>1, <2>2 DEF Entries
  <2> HIDE DEF e
  <2>5. /\ c' \in Seq(Entries) /\ pollIndex' \in PollIndices /\ EntriesInv(c')
        /\ Agree(ChansOf(c'), pollIndex') /\ EventSet(c') = EventSet(c) \cup {h}
    BY <1>1, <2>1, <2>2, <2>3, <2>4, EntryAdded
  <2>6. EventsOf(c') = Append(EventsOf(c), h)
    BY <1>1, <2>3, <2>4, EntryAppended
  <2>7. PollInv'
    BY <1>1, <2>3, <2>5, <2>6 DEF PollInv
  <2>8. /\ selected' \in [Sockets -> Handles \cup {NoEvent}]
        /\ \A b \in Sockets : selected'[b] =
               IF b = a THEN IF set = {} THEN NoEvent ELSE h ELSE selected[b]
    BY <2>2, <2>3 DEF EventSelect, PollTypes
  <2>9. PollTypes'
    BY <1>1, <1>2, <2>3, <2>5, <2>6, <2>8, DerivedTypes DEF PollTypes
  <2>10. /\ Len(c) \in Nat /\ Len(c') = Len(c) + 1 /\ c'[Len(c) + 1] = e
         /\ \A j \in 1..Len(c) : c'[j] = c[j]
    BY <1>1, <2>3, <2>4, EntryTypes, AppendProperties
  <2>11. /\ pollIndex'[a] = Len(c) /\ Len(c) # Invalid
         /\ \A b \in Chans \ {a} : pollIndex'[b] = pollIndex[b]
    <3>1. Len(c) <= NumChannels
      BY <1>1, <2>1, EntryBound, EntryTypes, Constants DEF PollIndices
    <3> QED
      BY <1>1, <2>3, <2>10, <3>1, Constants DEF PollIndices
  <2>12. SelectInv'
    <3>1. ASSUME NEW j \in 1..Len(c'), c'[j].chan \in Sockets
          PROVE  /\ c'[j].mask = interest'[c'[j].chan]
                 /\ selected'[c'[j].chan] = IF c'[j].mask = {} THEN NoEvent ELSE c'[j].event
      <4>1. CASE j = Len(c) + 1
        BY <1>3, <2>4, <2>8, <2>10, <4>1
      <4>2. CASE j # Len(c) + 1
        <5>1. j \in 1..Len(c) /\ c'[j] = c[j] /\ c[j].chan # a
          BY <2>1, <2>10, <4>2
        <5> QED
          BY <1>3, <2>8, <3>1, <5>1 DEF SelectInv
      <4> QED
        BY <4>1, <4>2
    <3>2. ASSUME NEW b \in Sockets, pollIndex'[b] = Invalid PROVE selected'[b] = NoEvent
      <4>1. b # a /\ pollIndex[b] = Invalid
        BY <2>11, <3>2, Constants
      <4> QED
        BY <2>8, <4>1 DEF SelectInv
    <3> QED
      BY <3>1, <3>2 DEF SelectInv
  <2> QED
    BY <2>7, <2>9, <2>11, <2>12
<1> QED
  BY <1>4, <1>5

\* So does removeChannel, also when the channel is deleted with it.
LEMMA RemoveKeeps ==
  ASSUME PollTypes, PollInv, SelectInv, NEW a \in Sockets, RemoveFromPoller(a),
         interest' = interest \/ interest' = [interest EXCEPT ![a] = {}]
  PROVE  /\ PollTypes' /\ PollInv' /\ SelectInv' /\ pollIndex'[a] = Invalid
         /\ \A b \in Chans \ {a} : pollIndex'[b] = Invalid <=> pollIndex[b] = Invalid
<1> DEFINE c == chanEvents
           i == pollIndex[a] + 1
<1>1. /\ c \in Seq(Entries) /\ pollIndex \in PollIndices /\ EntriesInv(c)
      /\ Agree(ChansOf(c), pollIndex) /\ events = EventsOf(c) /\ open = EventSet(c)
      /\ a \in Chans /\ a # Null
  BY Constants DEF PollTypes, PollInv
<1>2. /\ interest' \in [Sockets -> SUBSET Interests]
      /\ \A b \in Sockets \ {a} : interest'[b] = interest[b]
  BY DEF PollTypes
<1>3. CASE pollIndex[a] < Len(c)
  <2>1. pollIndex[a] # Invalid /\ i \in 1..Len(c) /\ c[i].chan = a
        /\ \A j \in 1..Len(c) : c[j].chan = a => j = i
    BY <1>3, OwnEntry
  <2>2. /\ IF c[i].mask # {} THEN EventSelect(a, c[i].event, {}) ELSE UNCHANGED selected
        /\ open' = open \ {c[i].event} /\ events' = SwapRemove(events, i)
        /\ c' = SwapRemove(c, i) /\ pollIndex' = Reindexed(pollIndex, a, Last(c).chan)
    BY <1>3 DEF RemoveFromPoller, Closed
  <2>3. i = pollIndex[a] + 1
    OBVIOUS
  <2> HIDE DEF i
  <2>4. /\ c' \in Seq(Entries) /\ pollIndex' \in PollIndices /\ EntriesInv(c')
        /\ Agree(ChansOf(c'), pollIndex') /\ EventSet(c') = EventSet(c) \ {c[i].event}
        /\ \A j \in 1..Len(c') : \E k \in 1..Len(c) : k # i /\ c'[j] = c[k]
        /\ \A b \in Chans \ {a} : pollIndex[b] = Invalid <=> pollIndex'[b] = Invalid
        /\ pollIndex'[a] = Invalid
    <3> DEFINE d == c'
               x == pollIndex'
    <3>1. d = SwapRemove(c, i) /\ x = Reindexed(pollIndex, a, Last(c).chan)
      BY <2>2
    <3> HIDE DEF c, d, x
    <3>2. d \in Seq(Entries) /\ x \in PollIndices /\ EntriesInv(d) /\ x[a] = Invalid
      BY <1>1, <2>1, <2>3, <3>1, EntryDropped
    <3>5. Agree(ChansOf(d), x)
      BY <1>1, <2>1, <2>3, <3>1, EntryDropped
    <3>3. \A j \in 1..Len(d) : \E k \in 1..Len(c) : k # i /\ d[j] = c[k]
      BY <1>1, <2>1, <2>3, <3>1, EntryDropped
    <3>4. \A b \in Chans \ {a} : pollIndex[b] = Invalid <=> x[b] = Invalid
      BY <1>1, <2>1, <2>3, <3>1, EntryDropped
    <3>6. \A k \in 1..Len(c) : k # i => \E j \in 1..Len(d) : d[j] = c[k]
      BY <1>1, <2>1, <3>1, OthersStay
    <3>7. EventSet(d) = EventSet(c) \ {c[i].event}
      <4>1. \A j, k \in 1..Len(c) : c[j].event = c[k].event => j = k
        BY <1>1 DEF EntriesInv
      <4>2. ASSUME NEW j \in 1..Len(d) PROVE d[j].event \in EventSet(c) \ {c[i].event}
        BY <2>1, <3>3, <4>1 DEF EventSet
      <4>3. ASSUME NEW k \in 1..Len(c), k # i PROVE c[k].event \in EventSet(d)
        BY <3>6, <4>3 DEF EventSet
      <4>4. EventSet(d) \subseteq EventSet(c) \ {c[i].event}
        BY <4>2 DEF EventSet
      <4>5. EventSet(c) \ {c[i].event} \subseteq EventSet(d)
        BY <4>3 DEF EventSet
      <4> QED
        BY <4>4, <4>5
    <3> QED
      BY <3>2, <3>3, <3>4, <3>5, <3>7 DEF d, x
  <2>5. events' = EventsOf(c')
    BY <1>1, <2>1, <2>2, EntryRemoved
  <2>6. PollInv'
    BY <1>1, <2>2, <2>4, <2>5 DEF PollInv
  <2>7. selected' \in [Sockets -> Handles \cup {NoEvent}]
        /\ \A b \in Sockets : selected'[b] = IF b = a THEN NoEvent ELSE selected[b]
    <3>1. c[i].mask = {} => selected[a] = NoEvent
      BY <2>1 DEF SelectInv
    <3> QED
      BY <2>2, <3>1 DEF EventSelect, PollTypes
  <2>8. PollTypes'
    BY <1>1, <1>2, <2>2, <2>4, <2>5, <2>7, DerivedTypes DEF PollTypes
  <2>9. SelectInv'
    <3>1. ASSUME NEW j \in 1..Len(c'), c'[j].chan \in Sockets
          PROVE  /\ c'[j].mask = interest'[c'[j].chan]
                 /\ selected'[c'[j].chan] = IF c'[j].mask = {} THEN NoEvent ELSE c'[j].event
      <4>1. PICK k \in 1..Len(c) : k # i /\ c'[j] = c[k]
        BY <2>4
      <4>2. c[k].chan # a
        BY <2>1, <4>1
      <4> QED
        BY <1>2, <2>7, <3>1, <4>1, <4>2 DEF SelectInv
    <3>2. ASSUME NEW b \in Sockets, pollIndex'[b] = Invalid PROVE selected'[b] = NoEvent
      BY <2>4, <2>7, <3>2, Constants DEF SelectInv
    <3> QED
      BY <3>1, <3>2 DEF SelectInv
  <2> QED
    BY <2>4, <2>6, <2>8, <2>9
<1>4. CASE ~(pollIndex[a] < Len(c))
  <2>1. pollIndex[a] = Invalid /\ \A j \in 1..Len(c) : c[j].chan # a
    BY <1>4, OwnEntry
  <2>2. UNCHANGED polls
    BY <1>4 DEF RemoveFromPoller
  <2>3. SelectInv'
    BY <1>2, <2>1, <2>2 DEF SelectInv, polls
  <2>4. PollInv' /\ PollTypes'
    BY <1>2, <2>2 DEF PollInv, PollTypes, polls
  <2> QED
    BY <2>1, <2>2, <2>3, <2>4 DEF polls
<1> QED
  BY <1>3, <1>4

LoopTypes ==
    channels \in Seq(Chans) /\ loopIndex \in [Chans -> 0..(NumChannels - 1) \cup {Invalid}]

\* The loop's vector as a table.
LEMMA ChannelsBound ==
  ASSUME LoopTypes, LoopInv
  PROVE  /\ channels \in Seq(Chans \cup {Null}) /\ Len(channels) <= NumChannels
         /\ Len(channels) \in Nat /\ \A i \in 1..Len(channels) : channels[i] \in Chans
         /\ \A a \in Chans : loopIndex[a] = Invalid => Len(channels) <= NumChannels - 1
         /\ \A a \in Chans : loopIndex[a] < Len(channels) <=> loopIndex[a] # Invalid
<1>1. channels \in Seq(Chans \cup {Null}) /\ Len(channels) \in Nat
      /\ \A i \in 1..Len(channels) : channels[i] \in Chans
  BY SeqMonotonic, ElementOfSeq, LenProperties DEF LoopTypes
<1>2. /\ \A i \in 1..Len(channels) : channels[i] # Null => loopIndex[channels[i]] = i - 1
      /\ \A i \in 1..Len(channels) : channels[i] # Null
      /\ Agree(channels, loopIndex)
  BY <1>1, Constants DEF LoopInv, Agree
<1>3. Len(channels) <= NumChannels
  BY <1>2, TableBound, Constants DEF LoopTypes
<1>4. ASSUME NEW a \in Chans, loopIndex[a] = Invalid PROVE Len(channels) <= NumChannels - 1
  <2> DEFINE T == Chans \ {a}
  <2>1. \A i \in 1..Len(channels) : channels[i] # a
    BY <1>1, <1>2, <1>3, <1>4, NotThere, Constants
  <2>2. channels \in Seq(T)
    BY <1>1, <2>1
  <2>3. IsFiniteSet(T) /\ Cardinality(T) = NumChannels - 1
    BY FS_RemoveElement, Constants
  <2> HIDE DEF T
  <2> QED
    BY <1>2, <2>2, <2>3, TableBound
<1>5. ASSUME NEW a \in Chans PROVE loopIndex[a] < Len(channels) <=> loopIndex[a] # Invalid
  <2>1. loopIndex[a] \in Nat
    BY Constants DEF LoopTypes
  <2>2. loopIndex[a] # Invalid => loopIndex[a] + 1 \in 1..Len(channels)
    BY <1>2 DEF Agree
  <2> QED
    BY <1>1, <1>3, <2>1, <2>2, Constants
<1> QED
  BY <1>1, <1>3, <1>4, <1>5

\* A channel that is registered with the loop for the first time.
LEMMA AddKeeps ==
  ASSUME LoopTypes, LoopInv, NEW a \in Chans, loopIndex[a] = Invalid,
         channels' = Append(channels, a),
         loopIndex' = [loopIndex EXCEPT ![a] = EndIndex(channels)]
  PROVE  /\ LoopTypes' /\ LoopInv' /\ \A b \in Chans \ {a} : loopIndex'[b] = loopIndex[b]
<1>1. /\ channels \in Seq(Chans \cup {Null}) /\ Len(channels) <= NumChannels - 1
      /\ Len(channels) \in Nat /\ Len(channels) <= NumChannels + 1
      /\ loopIndex \in [Chans -> Nat] /\ Agree(channels, loopIndex)
  BY ChannelsBound, Constants DEF LoopTypes, LoopInv
<1>2. Agree(Append(channels, a), [loopIndex EXCEPT ![a] = Len(channels)])
  BY <1>1, AppendAgrees
<1>3. LoopInv'
  BY <1>2 DEF LoopInv, EndIndex
<1>4. loopIndex' \in [Chans -> 0..(NumChannels - 1) \cup {Invalid}]
      /\ \A b \in Chans \ {a} : loopIndex'[b] = loopIndex[b]
  BY <1>1, Constants DEF LoopTypes, EndIndex
<1>5. channels' \in Seq(Chans)
  BY AppendProperties DEF LoopTypes
<1> QED
  BY <1>3, <1>4, <1>5 DEF LoopTypes

\* A channel that leaves the loop's vector.
LEMMA LeaveKeeps ==
  ASSUME LoopTypes, LoopInv, NEW a \in Chans, loopIndex[a] # Invalid,
         channels' = SwapRemove(channels, loopIndex[a] + 1),
         loopIndex' = Reindexed(loopIndex, a, Last(channels))
  PROVE  /\ LoopTypes' /\ LoopInv' /\ loopIndex'[a] = Invalid
         /\ \A b \in Chans \ {a} : loopIndex'[b] = Invalid <=> loopIndex[b] = Invalid
<1>1. /\ channels \in Seq(Chans \cup {Null}) /\ Len(channels) <= NumChannels
      /\ Len(channels) \in Nat /\ Len(channels) <= NumChannels + 1
      /\ loopIndex \in [Chans -> Nat] /\ Agree(channels, loopIndex)
  BY ChannelsBound, Constants DEF LoopTypes, LoopInv
<1>2. loopIndex[a] + 1 \in 1..Len(channels)
  BY <1>1 DEF Agree
<1>3. Last(channels) = channels[Len(channels)] /\ Last(channels) \in Chans
      /\ Last(channels) # Null /\ loopIndex[Last(channels)] # Invalid
  <2>1. Len(channels) \in 1..Len(channels)
    BY <1>1, <1>2
  <2>2. channels[Len(channels)] \in Chans /\ channels[Len(channels)] # Null
    BY <2>1, ChannelsBound, Constants
  <2>3. loopIndex[channels[Len(channels)]] = Len(channels) - 1
    BY <1>1, <2>1, <2>2 DEF Agree
  <2> QED
    BY <1>1, <2>2, <2>3, Constants DEF Last
<1>4. Agree(SwapRemove(channels, loopIndex[a] + 1), Reindexed(loopIndex, a, Last(channels)))
  BY <1>1, <1>3, RemoveAgrees
<1>5. LoopInv'
  BY <1>4 DEF LoopInv
<1>6. channels' \in Seq(Chans)
  BY <1>2, SwapRemoveRight DEF LoopTypes
<1>7. /\ loopIndex' \in [Chans -> 0..(NumChannels - 1) \cup {Invalid}] /\ loopIndex'[a] = Invalid
      /\ \A b \in Chans \ {a} : loopIndex'[b] = Invalid <=> loopIndex[b] = Invalid
  BY <1>1, <1>3 DEF LoopTypes, Reindexed
<1> QED
  BY <1>5, <1>6, <1>7 DEF LoopTypes

-----------------------------------------------------------------------------
(* The steps.                                                               *)

\* Type correctness, in the parts the operations work on.
LEMMA Typed ==
  TypeOK <=> /\ PollTypes /\ LoopTypes /\ alive \subseteq Chans
             /\ pending \in Seq(Ops) /\ doomed \subseteq Sockets
BY DEF TypeOK, PollTypes, LoopTypes, PollIndices

\* What an operation is about.
LEMMA OpTypes ==
  \A f \in Ops : f.chan \in Sockets /\ f.chan \in Chans
                 /\ (f.op \in {"enable", "disable"} => f.what \in Interests)
BY Constants DEF Ops

\* What an operation of channel a does to the books, and to other channels.
Kept(a) ==
    /\ PollTypes' /\ PollInv' /\ SelectInv' /\ LoopTypes' /\ LoopInv' /\ AliveInv'
    /\ alive' \subseteq alive /\ alive \ {a} \subseteq alive'
    /\ \A b \in Chans \ {a} : loopIndex[b] = Invalid => loopIndex'[b] = Invalid

\* Every operation keeps the books, wherever it is called.
LEMMA ExecuteKeeps ==
  ASSUME PollTypes, LoopTypes, PollInv, LoopInv, AliveInv, SelectInv, NEW f \in Ops,
         f.chan \in alive, alive \subseteq Chans,
         f.op = "add" => loopIndex[f.chan] = Invalid, Execute(f)
  PROVE  /\ Kept(f.chan)
         /\ f.op # "delete" => alive' = alive
         /\ f.op # "add" /\ loopIndex[f.chan] = Invalid => loopIndex'[f.chan] = Invalid
<1> DEFINE a == f.chan
<1>1. a \in Sockets /\ a \in Chans /\ interest[a] \in SUBSET Interests
  BY OpTypes DEF PollTypes
<1> HIDE DEF a
<1>2. ASSUME NEW set \in SUBSET Interests, Update(a, set)
      PROVE  Kept(a) /\ UNCHANGED <<alive, loopIndex>>
  <2>1. UNCHANGED <<alive, channels, loopIndex>>
    BY <1>2 DEF Update, book
  <2>2. /\ PollTypes' /\ PollInv' /\ SelectInv'
        /\ \A b \in Chans \ {a} : pollIndex'[b] = pollIndex[b]
    BY <1>1, <1>2, UpdateKeeps
  <2>3. AliveInv'
    BY <2>1, <2>2 DEF AliveInv, a
  <2> QED
    BY <2>1, <2>2, <2>3 DEF Kept, LoopTypes, LoopInv
<1>3. CASE f.op = "add"
  <2>1. AddChannel(a)
    BY <1>3 DEF Execute, a
  <2>2. UNCHANGED <<alive, interest, chanEvents, events, pollIndex, open, selected>>
    BY <2>1 DEF AddChannel, polls
  <2>3. LoopTypes' /\ LoopInv' /\ \A b \in Chans \ {a} : loopIndex'[b] = loopIndex[b]
    BY <1>1, <1>3, <2>1, AddKeeps DEF AddChannel, a
  <2>4. PollTypes' /\ PollInv' /\ SelectInv'
    BY <2>2 DEF PollTypes, PollInv, SelectInv
  <2>5. AliveInv'
    BY <2>2, <2>3 DEF AliveInv, a
  <2> QED
    BY <1>3, <2>2, <2>3, <2>4, <2>5 DEF Kept, a
<1>4. CASE f.op \in {"enable", "disable"}
  <2>1. f.what \in Interests
    BY <1>4, OpTypes
  <2>2. \E set \in SUBSET Interests : Update(a, set)
    BY <1>1, <1>4, <2>1 DEF Execute, a
  <2> QED
    BY <1>2, <1>4, <2>2 DEF a
<1>5. CASE f.op = "disableAll"
  <2>1. {} \in SUBSET Interests /\ Update(a, {})
    BY <1>5 DEF Execute, a
  <2> QED
    BY <1>2, <1>5, <2>1 DEF a
<1>6. CASE f.op = "remove"
  <2>1. RemoveFromPoller(a) /\ UNCHANGED <<alive, interest, channels, loopIndex>>
    BY <1>6 DEF Execute, RemoveFunc, book, a
  <2>2. /\ PollTypes' /\ PollInv' /\ SelectInv'
        /\ \A b \in Chans \ {a} : pollIndex'[b] = Invalid <=> pollIndex[b] = Invalid
    BY <1>1, <2>1, RemoveKeeps
  <2>3. AliveInv'
    BY <2>1, <2>2 DEF AliveInv, a
  <2> QED
    BY <1>6, <2>1, <2>2, <2>3 DEF Kept, LoopTypes, LoopInv, a
<1>7. CASE f.op = "delete"
  <2>1. RemoveChannel(a)
    BY <1>7 DEF Execute, a
  <2>2. CASE loopIndex[a] < Len(channels)
    <3>1. /\ RemoveFromPoller(a) /\ channels' = SwapRemove(channels, loopIndex[a] + 1)
          /\ loopIndex' = Reindexed(loopIndex, a, Last(channels))
          /\ alive' = alive \ {a} /\ interest' = [interest EXCEPT ![a] = {}]
      BY <2>1, <2>2 DEF RemoveChannel
    <3>2. loopIndex[a] # Invalid
      BY <1>1, <2>2, ChannelsBound
    <3>3. /\ PollTypes' /\ PollInv' /\ SelectInv' /\ pollIndex'[a] = Invalid
          /\ \A b \in Chans \ {a} : pollIndex'[b] = Invalid <=> pollIndex[b] = Invalid
      BY <1>1, <3>1, RemoveKeeps
    <3>4. /\ LoopTypes' /\ LoopInv' /\ loopIndex'[a] = Invalid
          /\ \A b \in Chans \ {a} : loopIndex'[b] = Invalid <=> loopIndex[b] = Invalid
      BY <1>1, <3>1, <3>2, LeaveKeeps
    <3>5. AliveInv'
      BY <3>1, <3>3, <3>4 DEF AliveInv
    <3> QED
      BY <1>7, <3>1, <3>3, <3>4, <3>5 DEF Kept, a
  <2>3. CASE ~(loopIndex[a] < Len(channels))
    <3>1. UNCHANGED <<alive, interest, channels, loopIndex, chanEvents, events, pollIndex, open, selected>>
      BY <2>1, <2>3 DEF RemoveChannel, book, polls
    <3>2. PollTypes' /\ PollInv' /\ SelectInv'
      BY <3>1 DEF PollTypes, PollInv, SelectInv
    <3>3. LoopTypes' /\ LoopInv' /\ AliveInv'
      BY <3>1 DEF LoopTypes, LoopInv, AliveInv
    <3> QED
      BY <1>7, <3>1, <3>2, <3>3 DEF Kept, a
  <2> QED
    BY <2>2, <2>3
<1>8. f.op \in {"add", "enable", "disable", "disableAll", "remove", "delete"}
  BY DEF Ops
<1> QED
  BY <1>3, <1>4, <1>5, <1>6, <1>7, <1>8

\* Initially there are the wakeup event and the timer.
LEMMA BooksInit == Init => TypeOK /\ Books
<1> SUFFICES ASSUME Init PROVE TypeOK /\ Books
  OBVIOUS
<1> DEFINE e1 == [event |-> 1, chan |-> Null, mask |-> {}]
           e2 == [event |-> 2, chan |-> Timer, mask |-> {}]
<1>1. /\ 1 \in Handles /\ 2 \in Handles /\ Timer = 1 /\ TimerHandle = 2 /\ Null = 0 /\ Timer \in Chans
      /\ 0 \in 0..(NumChannels - 1) /\ 1 \in 0..NumChannels
      /\ Invalid # 0 /\ Invalid # 1 /\ Timer \notin Sockets /\ Null \notin Sockets
  BY Constants DEF Handles, Timer, TimerHandle, Null, Sockets, Chans
<1>2. e1 \in Entries /\ e2 \in Entries
  BY <1>1 DEF Entries
<1>3. /\ e1.event = 1 /\ e1.chan = Null /\ e2.event = 2 /\ e2.chan = Timer
  OBVIOUS
<1>4. chanEvents = <<e1, e2>> /\ events = <<1, 2>> /\ channels = <<Timer>> /\ open = {1, 2}
  BY DEF Init
<1> HIDE DEF e1, e2
<1>5. /\ chanEvents \in Seq(Entries) /\ Len(chanEvents) = 2
      /\ chanEvents[1] = e1 /\ chanEvents[2] = e2 /\ chanEvents # <<>>
  BY <1>2, <1>4
<1>6. EntriesInv(chanEvents)
  BY <1>1, <1>3, <1>5 DEF EntriesInv
<1>7. events = EventsOf(chanEvents)
  <2>1. /\ EventsOf(chanEvents) \in Seq(Handles) /\ Len(EventsOf(chanEvents)) = 2
        /\ EventsOf(chanEvents)[1] = 1 /\ EventsOf(chanEvents)[2] = 2
    <3>1. EventsOf(chanEvents) \in Seq(Handles) /\ Len(EventsOf(chanEvents)) = 2
      BY <1>5, EntryTypes
    <3>2. 1 \in 1..2 /\ 2 \in 1..2
      OBVIOUS
    <3>3. EventsOf(chanEvents) = [i \in 1..2 |-> chanEvents[i].event]
      BY <1>5 DEF EventsOf
    <3> QED
      BY <1>3, <1>5, <3>1, <3>2, <3>3
  <2>2. events \in Seq(Handles) /\ Len(events) = 2 /\ events[1] = 1 /\ events[2] = 2
    BY <1>1, <1>4
  <2>3. \A i \in 1..2 : i = 1 \/ i = 2
    OBVIOUS
  <2> QED
    BY <2>1, <2>2, <2>3, SeqEqual
<1>8. open = EventSet(chanEvents)
  <2>1. \A i \in 1..2 : i = 1 \/ i = 2
    OBVIOUS
  <2>2. 1 \in 1..2 /\ 2 \in 1..2
    OBVIOUS
  <2> QED
    BY <1>3, <1>4, <1>5, <2>1, <2>2 DEF EventSet
<1>9. /\ pollIndex = [a \in Chans |-> IF a = Timer THEN 1 ELSE Invalid]
      /\ loopIndex = [a \in Chans |-> IF a = Timer THEN 0 ELSE Invalid]
  BY DEF Init
<1>10. Agree(ChansOf(chanEvents), pollIndex)
  <2>1. /\ Len(ChansOf(chanEvents)) = 2
        /\ ChansOf(chanEvents)[1] = Null /\ ChansOf(chanEvents)[2] = Timer
    BY <1>3, <1>5, EntryTypes DEF ChansOf
  <2> QED
    BY <1>1, <1>9, <2>1 DEF Agree
<1>11. LoopInv
  <2>1. Len(channels) = 1 /\ channels[1] = Timer
    BY <1>4
  <2> QED
    BY <1>1, <1>9, <2>1 DEF LoopInv, Agree
<1>12. PollInv
  BY <1>6, <1>7, <1>8, <1>10 DEF PollInv
<1>13. AliveInv
  BY <1>9 DEF AliveInv, Init
<1>14. SelectInv
  BY <1>1, <1>3, <1>5 DEF SelectInv, Init
<1>15. QueueInv
  BY DEF QueueInv, Init
<1>16. PollTypes
  BY <1>1, <1>4, <1>5, <1>9 DEF PollTypes, PollIndices, Init
<1>17. LoopTypes
  BY <1>1, <1>4, <1>9 DEF LoopTypes
<1>18. TypeOK
  BY <1>1, <1>16, <1>17, Typed, EmptySeq DEF Init
<1> QED
  BY <1>5, <1>11, <1>12, <1>13, <1>14, <1>15, <1>18 DEF Books, Exists

\* The next functor finds its channel, unregistered if it registers it, and those
\* that wait behind it stay in order.
LEMMA RunKeeps ==
  ASSUME TypeOK, Books, RunFunctor
  PROVE  TypeOK' /\ Books'
<1> DEFINE f == Head(pending)
<1>1. /\ PollTypes /\ LoopTypes /\ alive \subseteq Chans /\ pending \in Seq(Ops)
      /\ doomed \subseteq Sockets
      /\ PollInv /\ LoopInv /\ AliveInv /\ QueueInv /\ SelectInv
  BY Typed DEF Books
<1>2. /\ pending # <<>> /\ Execute(f) /\ pending' = Tail(pending)
      /\ doomed' = IF f.op = "delete" THEN doomed \ {f.chan} ELSE doomed
  BY DEF RunFunctor
<1>3. /\ f \in Ops /\ f = pending[1] /\ Len(pending) \in Nat \ {0}
      /\ pending' \in Seq(Ops) /\ Len(pending') = Len(pending) - 1
      /\ \A i \in 1..Len(pending') : pending'[i] = pending[i + 1]
  BY <1>1, <1>2, HeadTailProperties, EmptySeq
<1> HIDE DEF f
<1>4. 1 \in 1..Len(pending) /\ f.chan \in alive /\ (f.op = "add" => loopIndex[f.chan] = Invalid)
  BY <1>1, <1>3 DEF QueueInv
<1>5. /\ Kept(f.chan) /\ (f.op # "delete" => alive' = alive)
  BY <1>1, <1>2, <1>3, <1>4, ExecuteKeeps
<1>6. f.op # "add" /\ loopIndex[f.chan] = Invalid => loopIndex'[f.chan] = Invalid
  BY <1>1, <1>2, <1>3, <1>4, ExecuteKeeps
<1>7. QueueInv'
  <2> SUFFICES ASSUME NEW i \in 1..Len(pending')
               PROVE  /\ pending'[i].chan \in alive'
                      /\ pending'[i].op = "delete" =>
                             /\ pending'[i].chan \in doomed'
                             /\ \A j \in 1..Len(pending') : j > i => pending'[j].chan # pending'[i].chan
                      /\ pending'[i].op = "add" =>
                             /\ loopIndex'[pending'[i].chan] = Invalid
                             /\ \A j \in 1..Len(pending') : j < i => pending'[j].chan # pending'[i].chan
    BY DEF QueueInv
  <2>1. /\ i + 1 \in 1..Len(pending) /\ i + 1 > 1 /\ pending'[i] = pending[i + 1]
        /\ \A j \in 1..Len(pending') : j + 1 \in 1..Len(pending) /\ pending'[j] = pending[j + 1]
    BY <1>3
  <2> DEFINE g == pending[i + 1]
  <2>2. g \in Ops /\ g.chan \in Chans
    BY <1>1, <2>1, ElementOfSeq, OpTypes
  <2>3. f.op = "delete" => g.chan # f.chan
    BY <1>1, <1>3, <1>4, <2>1 DEF QueueInv
  <2>4. g.op = "add" => g.chan # f.chan /\ loopIndex[g.chan] = Invalid
    BY <1>1, <1>3, <1>4, <2>1 DEF QueueInv
  <2>5. g.chan \in alive /\ (g.op = "delete" => g.chan \in doomed)
    BY <1>1, <2>1 DEF QueueInv
  <2>6. g.op = "delete" => \A j \in 1..Len(pending') : j > i => pending[j + 1].chan # g.chan
    BY <1>1, <2>1 DEF QueueInv
  <2>7. g.op = "add" => \A j \in 1..Len(pending') : j < i => pending[j + 1].chan # g.chan
    BY <1>1, <2>1 DEF QueueInv
  <2> HIDE DEF g
  <2>8. pending'[i] = g
    BY <2>1 DEF g
  <2>9. g.chan \in alive'
    BY <1>5, <2>3, <2>5 DEF Kept
  <2>10. g.op = "delete" => g.chan \in doomed'
    BY <1>2, <2>3, <2>5
  <2>11. g.op = "add" => loopIndex'[g.chan] = Invalid
    BY <1>5, <2>2, <2>4 DEF Kept
  <2> QED
    BY <2>1, <2>6, <2>7, <2>8, <2>9, <2>10, <2>11
<1>8. alive' \subseteq Chans /\ doomed' \subseteq Sockets
  BY <1>1, <1>2, <1>5 DEF Kept
<1>9. TypeOK'
  BY <1>3, <1>5, <1>8, Typed DEF Kept, TypeOK, PollTypes, LoopTypes, PollIndices
<1>10. Exists'
  BY <1>5 DEF Kept, PollInv, EntriesInv, Exists
<1> QED
  BY <1>5, <1>7, <1>9, <1>10 DEF Books, Kept

\* A call on the loop thread leaves the functors that wait with what they need.
LEMMA CallKeeps ==
  ASSUME TypeOK, Books, NEW f \in Ops, Call(f)
  PROVE  TypeOK' /\ Books'
<1>1. /\ PollTypes /\ LoopTypes /\ alive \subseteq Chans /\ pending \in Seq(Ops)
      /\ doomed \subseteq Sockets
      /\ PollInv /\ LoopInv /\ AliveInv /\ QueueInv /\ SelectInv
  BY Typed DEF Books
<1>2. /\ f.op # "add" /\ f.chan \in alive /\ (f.op = "delete" => ~Queued(f.chan)) /\ Execute(f)
      /\ pending' = pending /\ doomed' = doomed
  BY DEF Call, Usable
<1>3. Kept(f.chan) /\ (f.op # "delete" => alive' = alive)
  BY <1>1, <1>2, ExecuteKeeps
<1>4. loopIndex[f.chan] = Invalid => loopIndex'[f.chan] = Invalid
  BY <1>1, <1>2, ExecuteKeeps
<1>5. \A i \in 1..Len(pending) : pending[i].chan \in alive' /\ pending[i].chan \in Chans
  <2> SUFFICES ASSUME NEW i \in 1..Len(pending)
               PROVE  pending[i].chan \in alive' /\ pending[i].chan \in Chans
    OBVIOUS
  <2>1. pending[i].chan \in alive
    BY <1>1 DEF QueueInv
  <2>2. DOMAIN pending = 1..Len(pending)
    BY <1>1, LenProperties
  <2>3. f.op = "delete" => pending[i].chan # f.chan
    BY <1>2, <2>2 DEF Queued
  <2> QED
    BY <1>1, <1>3, <2>1, <2>3 DEF Kept
<1>6. \A i \in 1..Len(pending) :
          loopIndex[pending[i].chan] = Invalid => loopIndex'[pending[i].chan] = Invalid
  BY <1>3, <1>4, <1>5 DEF Kept
<1>7. QueueInv'
  BY <1>1, <1>2, <1>5, <1>6 DEF QueueInv
<1>8. TypeOK'
  BY <1>1, <1>2, <1>3, Typed DEF Kept, TypeOK, PollTypes, LoopTypes, PollIndices
<1>9. Exists'
  BY <1>3 DEF Kept, PollInv, EntriesInv, Exists
<1> QED
  BY <1>3, <1>7, <1>8, <1>9 DEF Books, Kept

\* A functor behind the others, of a channel that has no deletion among them and,
\* if it registers the channel, none at all.
LEMMA QueueKeeps ==
  ASSUME QueueInv, pending \in Seq(Ops), NEW f \in Ops, pending' = Append(pending, f),
         loopIndex' = loopIndex, alive \subseteq alive', f.chan \in alive',
         doomed \subseteq doomed', f.op # "add" => f.chan \notin doomed,
         f.op = "delete" => f.chan \in doomed',
         f.op = "add" => f.chan \notin alive /\ loopIndex[f.chan] = Invalid
  PROVE  QueueInv'
<1>1. /\ Len(pending) \in Nat /\ Len(pending') = Len(pending) + 1 /\ pending'[Len(pending) + 1] = f
      /\ \A i \in 1..Len(pending) : pending'[i] = pending[i]
  BY AppendProperties, LenProperties
<1>2. \A i \in 1..Len(pending') : i \in 1..Len(pending) \/ i = Len(pending) + 1
  BY <1>1
<1>3. \A i \in 1..Len(pending) : i < Len(pending) + 1
  BY <1>1
<1>4. \A i \in 1..Len(pending') : ~(i > Len(pending) + 1)
  BY <1>1
<1>5. ASSUME NEW i \in 1..Len(pending), NEW j \in 1..Len(pending')
      PROVE  /\ pending[i].op = "delete" /\ j > i => pending'[j].chan # pending[i].chan
             /\ pending[i].op = "add" /\ j < i => pending'[j].chan # pending[i].chan
  BY <1>1, <1>2, <1>3 DEF QueueInv
<1>6. ASSUME NEW i \in 1..Len(pending'), i = Len(pending) + 1
      PROVE  /\ pending'[i].chan \in alive'
             /\ pending'[i].op = "delete" => pending'[i].chan \in doomed'
             /\ pending'[i].op = "add" =>
                    /\ loopIndex'[pending'[i].chan] = Invalid
                    /\ \A j \in 1..Len(pending') : j < i => pending'[j].chan # pending'[i].chan
  BY <1>1, <1>2, <1>6 DEF QueueInv
<1>7. ASSUME NEW i \in 1..Len(pending)
      PROVE  /\ pending'[i].chan \in alive'
             /\ pending'[i].op = "delete" => pending'[i].chan \in doomed'
             /\ pending'[i].op = "add" => loopIndex'[pending'[i].chan] = Invalid
  BY <1>1 DEF QueueInv
<1> QED
  BY <1>1, <1>2, <1>4, <1>5, <1>6, <1>7 DEF QueueInv

\* The other calls.
LEMMA CallersKeep ==
  ASSUME TypeOK, Books,
         \/ \E a \in Sockets : NewChannel(a) \/ NewChannelOff(a)
         \/ \E f \in Ops : CallOff(f)
  PROVE  TypeOK' /\ Books'
<1>1. /\ PollTypes /\ LoopTypes /\ alive \subseteq Chans /\ pending \in Seq(Ops)
      /\ doomed \subseteq Sockets
      /\ Exists /\ PollInv /\ LoopInv /\ AliveInv /\ QueueInv /\ SelectInv
  BY Typed DEF Books
<1>2. ASSUME NEW a \in Sockets, NewChannel(a) PROVE TypeOK' /\ Books'
  <2>1. /\ a \in Chans /\ a \notin alive /\ alive' = alive \cup {a}
        /\ channels' = Append(channels, a) /\ loopIndex' = [loopIndex EXCEPT ![a] = EndIndex(channels)]
        /\ UNCHANGED <<interest, chanEvents, events, pollIndex, open, selected, pending, doomed>>
    BY <1>2, Constants DEF NewChannel, polls
  <2>2. loopIndex[a] = Invalid
    BY <1>1, <2>1 DEF AliveInv
  <2>3. LoopTypes' /\ LoopInv' /\ \A b \in Chans \ {a} : loopIndex'[b] = loopIndex[b]
    BY <1>1, <2>1, <2>2, AddKeeps
  <2>4. PollTypes' /\ PollInv' /\ SelectInv' /\ Exists'
    BY <1>1, <2>1 DEF PollTypes, PollInv, SelectInv, Exists
  <2>5. AliveInv'
    BY <1>1, <2>1, <2>3 DEF AliveInv
  <2>6. QueueInv'
    BY <1>1, <2>1, <2>3 DEF QueueInv
  <2>7. TypeOK'
    BY <1>1, <2>1, <2>3, <2>4 DEF TypeOK, PollTypes, LoopTypes, PollIndices
  <2> QED
    BY <2>3, <2>4, <2>5, <2>6, <2>7 DEF Books
<1>3. ASSUME NEW f \in Ops, pending' = Append(pending, f), QueueInv', alive \subseteq alive',
             alive' \subseteq Chans, doomed' \subseteq Sockets,
             UNCHANGED <<interest, book, polls>>
      PROVE  TypeOK' /\ Books'
  <2>1. UNCHANGED <<interest, channels, loopIndex, chanEvents, events, pollIndex, open, selected>>
    BY <1>3 DEF book, polls
  <2>2. pending' \in Seq(Ops)
    BY <1>1, <1>3, AppendProperties
  <2>3. PollTypes' /\ PollInv' /\ SelectInv' /\ Exists' /\ LoopTypes' /\ LoopInv'
    BY <1>1, <2>1 DEF PollTypes, PollInv, SelectInv, Exists, LoopTypes, LoopInv
  <2>4. AliveInv'
    BY <1>1, <1>3, <2>1 DEF AliveInv
  <2>5. TypeOK'
    BY <1>3, <2>2, <2>3 DEF TypeOK, PollTypes, LoopTypes, PollIndices
  <2> QED
    BY <1>3, <2>3, <2>4, <2>5 DEF Books
<1>4. ASSUME NEW a \in Sockets, NewChannelOff(a) PROVE TypeOK' /\ Books'
  <2> DEFINE f == [op |-> "add", chan |-> a]
  <2>1. f \in Ops /\ f.op = "add" /\ f.chan = a
    BY DEF Ops
  <2>2. /\ a \notin alive /\ alive' = alive \cup {a} /\ pending' = Append(pending, f)
        /\ UNCHANGED <<interest, book, polls, doomed>>
    BY <1>4 DEF NewChannelOff
  <2> HIDE DEF f
  <2>3. /\ loopIndex[a] = Invalid /\ loopIndex' = loopIndex /\ alive' \subseteq Chans
    BY <1>1, <2>2, Constants DEF AliveInv, book
  <2>4. QueueInv'
    BY <1>1, <2>1, <2>2, <2>3, QueueKeeps
  <2> QED
    BY <1>1, <1>3, <2>1, <2>2, <2>3, <2>4
<1>5. ASSUME NEW f \in Ops, CallOff(f) PROVE TypeOK' /\ Books'
  <2>1. /\ f.op # "add" /\ f.chan \in alive /\ f.chan \notin doomed /\ pending' = Append(pending, f)
        /\ doomed' = (IF f.op = "delete" THEN doomed \cup {f.chan} ELSE doomed)
        /\ UNCHANGED <<alive, interest, book, polls>>
    BY <1>5 DEF CallOff, Usable
  <2>2. doomed \subseteq doomed' /\ doomed' \subseteq Sockets /\ loopIndex' = loopIndex
    BY <1>1, <2>1, OpTypes DEF book
  <2>3. QueueInv'
    BY <1>1, <2>1, <2>2, QueueKeeps
  <2> QED
    BY <1>1, <1>3, <2>1, <2>2, <2>3
<1> QED
  BY <1>2, <1>4, <1>5

\* The destructor leaves nothing.
LEMMA DestroyKeeps ==
  ASSUME TypeOK, Books, Destroy
  PROVE  TypeOK' /\ Gone'
<1>1. /\ PollTypes /\ LoopTypes /\ alive \subseteq Chans /\ pending \in Seq(Ops)
      /\ doomed \subseteq Sockets /\ PollInv /\ SelectInv
  BY Typed DEF Books
<1>2. /\ chanEvents' = <<>> /\ events' = <<>> /\ channels' = <<>> /\ open' = open \cap {TimerHandle}
      /\ alive' \subseteq alive /\ UNCHANGED <<pollIndex, loopIndex, pending, doomed>>
      /\ selected' = [a \in Sockets |->
             IF \E e \in ToSet(chanEvents) : e.chan = a /\ e.mask # {} THEN NoEvent
             ELSE selected[a]]
      /\ interest' = [a \in Sockets |-> IF a \in ToSet(channels) THEN {} ELSE interest[a]]
  BY DEF Destroy
<1>3. open' = {TimerHandle}
  <2>1. 2 \in 1..Len(chanEvents) /\ chanEvents[2].event = TimerHandle
    BY <1>1, EntryTypes DEF PollInv, EntriesInv, PollTypes
  <2>2. TimerHandle \in open
    BY <1>1, <2>1 DEF PollInv, EventSet
  <2> QED
    BY <1>2, <2>2
<1>4. ASSUME NEW a \in Sockets PROVE selected'[a] = NoEvent
  <2>1. CASE pollIndex[a] = Invalid
    BY <1>1, <1>2, <2>1 DEF SelectInv
  <2>2. CASE pollIndex[a] # Invalid
    <3>1. PICK i \in 1..Len(chanEvents) : chanEvents[i].chan = a
      BY <1>1, <2>2, OwnEntry
    <3>2. chanEvents[i] \in ToSet(chanEvents)
      BY <1>1, LenProperties DEF ToSet, PollTypes
    <3>3. chanEvents[i].mask = {} => selected[a] = NoEvent
      BY <1>1, <3>1 DEF SelectInv
    <3> QED
      BY <1>2, <3>1, <3>2, <3>3
  <2> QED
    BY <2>1, <2>2
<1>5. PollTypes'
  <2>1. open' \subseteq Handles
    BY <1>1, <1>2 DEF PollTypes
  <2>2. interest' \in [Sockets -> SUBSET Interests]
    BY <1>1, <1>2 DEF PollTypes
  <2>3. selected' \in [Sockets -> Handles \cup {NoEvent}]
    BY <1>1, <1>2 DEF PollTypes
  <2> QED
    BY <1>1, <1>2, <2>1, <2>2, <2>3, EmptySeq DEF PollTypes
<1>6. LoopTypes'
  BY <1>1, <1>2, EmptySeq DEF LoopTypes
<1>7. alive' \subseteq Chans /\ pending' \in Seq(Ops) /\ doomed' \subseteq Sockets
  BY <1>1, <1>2
<1>8. TypeOK'
  BY <1>5, <1>6, <1>7 DEF TypeOK, PollTypes, LoopTypes, PollIndices
<1> QED
  BY <1>2, <1>3, <1>4, <1>8 DEF Gone

\* Every step keeps the invariant.
LEMMA TableStep == IInv /\ [Next]_vars => IInv'
<1> SUFFICES ASSUME IInv, [Next]_vars PROVE IInv'
  OBVIOUS
<1>1. TypeOK /\ (Exists => Books)
  BY DEF IInv, Gone, Exists
<1>2. CASE RunFunctor
  BY <1>1, <1>2, RunKeeps DEF RunFunctor, IInv
<1>3. ASSUME NEW f \in Ops, Call(f) PROVE IInv'
  BY <1>1, <1>3, CallKeeps DEF Call, IInv
<1>4. ASSUME \/ \E a \in Sockets : NewChannel(a) \/ NewChannelOff(a)
             \/ \E f \in Ops : CallOff(f)
      PROVE  IInv'
  <2>1. Exists
    BY <1>4 DEF NewChannel, NewChannelOff, CallOff
  <2> QED
    BY <1>1, <1>4, <2>1, CallersKeep DEF IInv
<1>5. CASE Destroy
  BY <1>1, <1>5, DestroyKeeps DEF Destroy, IInv
<1>6. CASE UNCHANGED vars
  <2>1. UNCHANGED <<alive, interest, pollIndex, loopIndex, channels, chanEvents, events, open,
                    selected, pending, doomed>>
    BY <1>6 DEF vars, book, polls
  <2>2. TypeOK'
    BY <1>1, <2>1 DEF TypeOK
  <2>3. Books => Books'
    BY <2>1 DEF Books, Exists, PollInv, LoopInv, AliveInv, QueueInv, SelectInv
  <2>4. Gone => Gone'
    BY <2>1 DEF Gone
  <2> QED
    BY <2>2, <2>3, <2>4 DEF IInv
<1> QED
  BY <1>2, <1>3, <1>4, <1>5, <1>6 DEF Next

\* Both tables and the indices lead to each other.
LEMMA BooksAgree ==
  ASSUME TypeOK, Books
  PROVE  IndicesAgree
<1>1. /\ PollTypes /\ LoopTypes /\ alive \subseteq Chans
      /\ PollInv /\ LoopInv /\ AliveInv
  BY Typed DEF Books
<1> DEFINE c == chanEvents
<1>2. /\ c \in Seq(Entries) /\ pollIndex \in [Chans -> Nat] /\ EntriesInv(c) /\ events = EventsOf(c)
      /\ open = EventSet(c) /\ Agree(ChansOf(c), pollIndex)
  BY <1>1, Constants DEF PollTypes, PollInv, PollIndices
<1>3. /\ DOMAIN c = 1..Len(c) /\ Len(c) \in Nat /\ Len(c) <= NumChannels + 1
      /\ Len(ChansOf(c)) = Len(c) /\ \A i \in 1..Len(c) : ChansOf(c)[i] = c[i].chan
      /\ \A i \in 1..Len(c) : c[i].chan \in Chans \cup {Null}
  BY <1>2, LenProperties, EntryTypes, EntryBound DEF ChansOf
<1>4. /\ \A i \in 1..Len(c) : c[i].chan # Null => pollIndex[c[i].chan] = i - 1
      /\ \A a \in Chans : pollIndex[a] # Invalid =>
             pollIndex[a] + 1 \in 1..Len(c) /\ c[pollIndex[a] + 1].chan = a
  BY <1>2, <1>3 DEF Agree
<1>5. PollIndexAgrees
  <2>1. events = [i \in DOMAIN c |-> c[i].event]
    BY <1>2, <1>3 DEF EventsOf
  <2>2. ASSUME NEW i \in 1..Len(c), c[i].chan # Null
        PROVE  c[i].chan \in alive /\ pollIndex[c[i].chan] = i - 1
    <3>1. c[i].chan \in Chans /\ pollIndex[c[i].chan] = i - 1
      BY <1>3, <1>4, <2>2
    <3>2. pollIndex[c[i].chan] # Invalid
      BY <1>3, <3>1, Constants
    <3> QED
      BY <1>1, <3>1, <3>2 DEF AliveInv
  <2>3. ASSUME NEW a \in alive, pollIndex[a] < Len(c) PROVE c[pollIndex[a] + 1].chan = a
    <3>1. a \in Chans /\ pollIndex[a] \in Nat
      BY <1>1, <1>2
    <3>2. pollIndex[a] # Invalid
      BY <1>3, <2>3, <3>1, Constants
    <3> QED
      BY <1>4, <3>1, <3>2
  <2> QED
    BY <1>3, <2>1, <2>2, <2>3 DEF PollIndexAgrees
<1>6. LoopIndexAgrees
  <2>1. DOMAIN channels = 1..Len(channels) /\ loopIndex \in [Chans -> Nat]
        /\ Agree(channels, loopIndex)
    BY <1>1, LenProperties, Constants DEF LoopTypes, LoopInv
  <2>2. ASSUME NEW i \in 1..Len(channels)
        PROVE  channels[i] \in alive /\ loopIndex[channels[i]] = i - 1
    <3>1. channels[i] \in Chans /\ Len(channels) \in Nat /\ Len(channels) <= NumChannels
      BY <1>1, ChannelsBound
    <3>2. loopIndex[channels[i]] = i - 1
      BY <2>1, <3>1, Constants DEF Agree
    <3>3. loopIndex[channels[i]] # Invalid
      BY <3>1, <3>2, Constants
    <3> QED
      BY <1>1, <3>1, <3>2, <3>3 DEF AliveInv
  <2>3. ASSUME NEW a \in alive, loopIndex[a] < Len(channels) PROVE channels[loopIndex[a] + 1] = a
    <3>1. a \in Chans /\ loopIndex[a] # Invalid
      BY <1>1, <2>3, ChannelsBound
    <3> QED
      BY <2>1, <3>1 DEF Agree
  <2> QED
    BY <2>1, <2>2, <2>3 DEF LoopIndexAgrees
<1>7. HandlesAgree
  <2>1. ToSet(events) = EventSet(c)
    BY <1>2, <1>3 DEF ToSet, EventsOf, EventSet
  <2>2. TimerHandle \in EventSet(c)
    BY <1>2, <1>3 DEF EntriesInv, EventSet
  <2>3. c[1].chan = Null /\ c[2].chan = Timer
    BY <1>2 DEF EntriesInv
  <2> QED
    BY <1>2, <2>1, <2>2, <2>3 DEF HandlesAgree
<1> QED
  BY <1>5, <1>6, <1>7 DEF IndicesAgree

\* When the loop is gone there is nothing left to disagree.
LEMMA GoneAgrees ==
  ASSUME TypeOK, Gone
  PROVE  IndicesAgree /\ SelectAgrees
<1>1. chanEvents = <<>> /\ events = <<>> /\ channels = <<>> /\ open = {TimerHandle}
  BY DEF Gone
<1>2. \A a \in Chans : pollIndex[a] \in Nat /\ loopIndex[a] \in Nat
  BY Typed, Constants DEF PollTypes, PollIndices, LoopTypes
<1>3. ToSet(chanEvents) = {} /\ ToSet(events) = {}
  BY <1>1 DEF ToSet
<1>4. alive \subseteq Chans
  BY DEF TypeOK
<1>5. PollIndexAgrees /\ LoopIndexAgrees
  BY <1>1, <1>2, <1>4 DEF PollIndexAgrees, LoopIndexAgrees
<1>6. HandlesAgree
  BY <1>1, <1>3 DEF HandlesAgree
<1>7. SelectAgrees
  BY <1>3 DEF SelectAgrees, Gone
<1> QED
  BY <1>5, <1>6, <1>7 DEF IndicesAgree

\* The selections agree with the entries.
LEMMA SelectionAgrees ==
  ASSUME TypeOK, Books
  PROVE  SelectAgrees
<1>1. PollTypes /\ PollInv /\ SelectInv
  BY Typed DEF Books
<1>2. DOMAIN chanEvents = 1..Len(chanEvents)
  BY <1>1, LenProperties DEF PollTypes
<1>3. ASSUME NEW a \in Sockets, selected[a] # NoEvent
      PROVE  a \in {e.chan : e \in ToSet(chanEvents)}
  <2>1. pollIndex[a] # Invalid
    BY <1>1, <1>3 DEF SelectInv
  <2>2. PICK i \in 1..Len(chanEvents) : chanEvents[i].chan = a
    BY <1>1, <2>1, OwnEntry
  <2> QED
    BY <1>2, <2>2 DEF ToSet
<1>4. ASSUME NEW e \in ToSet(chanEvents), e.chan \in Sockets
      PROVE  /\ e.mask = interest[e.chan]
             /\ selected[e.chan] = IF e.mask = {} THEN NoEvent ELSE e.event
  <2>1. PICK i \in 1..Len(chanEvents) : e = chanEvents[i]
    BY <1>2 DEF ToSet
  <2> QED
    BY <1>1, <1>4, <2>1 DEF SelectInv
<1> QED
  BY <1>3, <1>4 DEF SelectAgrees

-----------------------------------------------------------------------------
\* So the invariant always holds.
LEMMA TableInvariant == Spec => []IInv
<1>1. Init => IInv
  BY BooksInit DEF IInv
<1> QED
  BY <1>1, TableStep, PTL DEF Spec

\* Type correctness: no index exceeds its table, and a handle is free when
\* updateChannel makes an event, for any number of channels.
THEOREM TableTypeCorrect == Spec => []TypeOK
<1>1. IInv => TypeOK
  BY DEF IInv
<1> QED
  BY <1>1, TableInvariant, PTL

\* Whatever is added, changed, removed and deleted in whatever order, on the loop
\* thread or through the queue, tables, indices and handles agree.
THEOREM TablesAgree == Spec => []IndicesAgree
<1>1. IInv => IndicesAgree
  BY BooksAgree, GoneAgrees DEF IInv
<1> QED
  BY <1>1, TableInvariant, PTL

\* And each socket is selected for the event of its own entry, with the interests
\* enabled last, or for none.
THEOREM SelectionsAgree == Spec => []SelectAgrees
<1>1. IInv => SelectAgrees
  BY SelectionAgrees, GoneAgrees DEF IInv
<1> QED
  BY <1>1, TableInvariant, PTL
=============================================================================
