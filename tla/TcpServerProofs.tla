-------------------------- MODULE TcpServerProofs --------------------------
(***************************************************************************)
(* Proofs about module TcpServer, for any number of loops and connections, *)
(* when each connection is closed by one side and the server is not        *)
(* destroyed in a callback.                                                *)
(***************************************************************************)
EXTENDS TcpServer, SequenceTheorems, FiniteSetTheorems, TLAPS

\* Every connection is closed once, by its peer or by its user, and the destructor
\* runs when the server's loop has returned, if at all.
ClosedByOne ==
    /\ "error" \notin SocketEvents /\ PeerCloses \cap UserCloses = {}
    /\ DestroyIn # "callback"

(* The parts of the inductive invariant. *)

\* What waits in each loop, and the loops that will run it.
W    == [l \in Loops |-> Waiting(l)]
Live == {l \in Loops : phase[l] # "exited"}

\* Two functors that must not wait at the same time: they do the same to the same
\* connection; closing goes through the server's loop and back.
Kind(f) == IF f.op = "destroyed" THEN "closeInLoop" ELSE f.op
Same(f, g) == f.conn # 0 /\ f.conn = g.conn /\ Kind(f) = Kind(g)

Unique(w, L) ==
    \A l, m \in L : \A i \in 1..Len(w[l]), j \in 1..Len(w[m]) :
        Same(w[l][i], w[m][j]) => l = m /\ i = j

\* Nothing waits for a connection behind its deletion.
DeleteLast(w, L) ==
    \A l \in L : \A i, j \in 1..Len(w[l]) :
        i < j /\ w[l][i].op = "delete" => w[l][j].conn # w[l][i].conn

\* A functor is in the loop it is for, and finds its connection as it was left for it.
Fits(f, l) ==
    LET c == f.conn IN
    /\ f.op = "listen" => c = 0
    /\ f.op # "listen" => c # 0
    /\ f.op \in {"closeInLoop", "deleteInLoop"} => l = Base
    /\ f.op \in {"established", "close", "destroyed", "delete"} => l = loopOf[c]
    /\ f.op = "established" => state[c] = "connecting"
    /\ f.op = "close" => state[c] = "connected" /\ c \in closed
    /\ f.op \in {"closeInLoop", "destroyed"} => state[c] = "disconnecting"
    /\ f.op = "deleteInLoop" => state[c] = "disconnected" /\ c \in asked /\ c \in connections
    /\ f.op = "delete" => state[c] \notin {"none", "freed"}
                          /\ (state[c] = "disconnected" \/ destructor # "none")

FitInv == \A l \in Live : \A i \in 1..Len(W[l]) : Fits(W[l][i], l)

\* A connection is in the map or has one deletion on its way, in some loop.
AtMostOne(w, c) ==
    \A l, m \in Loops : \A i \in 1..Len(w[l]), j \in 1..Len(w[m]) :
        w[l][i] = F("delete", c) /\ w[m][j] = F("delete", c) => l = m /\ i = j

NoDelete(w, c) == \A l \in Loops : \A i \in 1..Len(w[l]) : w[l][i] # F("delete", c)

OwnInv ==
    \A c \in Conns :
        /\ AtMostOne(W, c)
        /\ c \in connections => NoDelete(W, c)
        /\ state[c] \in {"none", "freed"} => c \notin connections /\ NoDelete(W, c)
        /\ state[c] \notin {"none", "freed"} => c \in connections \/ ~NoDelete(W, c)

\* Where a connection is on its way.
ConnInv ==
    \A c \in Conns :
        /\ fired[c] # {} =>
               state[c] = "connected" \/ (state[c] = "disconnecting" /\ c \in UserCloses)
        /\ "close" \in fired[c] => c \in PeerCloses
        /\ c \in UserCloses /\ state[c] = "disconnecting" => c \in closed
        /\ c \in closed => c \in UserCloses
        /\ state[c] \notin {"disconnected", "freed"} => destroyed[c] = 0
        /\ destroyed[c] <= 1

\* A batch is run to its end.  The destructor finds the server's loop returned, and it
\* alone makes the others return.
LoopInv ==
    /\ \A l \in Loops : phase[l] # "batch" => batch[l] = <<>>
    /\ destructor # "none" => phase[Base] = "exited"
    /\ \A l \in Loops : phase[l] = "exited" => l \in quit
    /\ \A l \in Loops \ {Base} : l \in quit => destructor # "none"

IInv ==
    /\ TypeOK /\ FitInv /\ Unique(W, Live) /\ DeleteLast(W, Live)
    /\ OwnInv /\ ConnInv /\ LoopInv
-----------------------------------------------------------------------------
(* Sequences.                                                               *)

\* What a batch and a queue hold together, without the first of the batch.
LEMMA TailOfBoth ==
  ASSUME NEW S, NEW b \in Seq(S), NEW q \in Seq(S), b # <<>>
  PROVE  /\ Len(b \o q) \in Nat \ {0} /\ (b \o q)[1] = Head(b)
         /\ Tail(b) \o q \in Seq(S) /\ Len(Tail(b) \o q) = Len(b \o q) - 1
         /\ \A i \in 1..(Len(b \o q) - 1) : (Tail(b) \o q)[i] = (b \o q)[i + 1]
<1>1. Tail(b) \in Seq(S) /\ Len(Tail(b)) = Len(b) - 1
      /\ \A i \in 1..Len(Tail(b)) : Tail(b)[i] = b[i + 1]
  BY HeadTailProperties
<1>2. Len(b) \in Nat \ {0} /\ Len(q) \in Nat /\ Head(b) = b[1]
  BY EmptySeq, LenProperties
<1>3. Len(b \o q) = Len(b) + Len(q)
      /\ \A i \in 1..(Len(b) + Len(q)) :
             (b \o q)[i] = IF i <= Len(b) THEN b[i] ELSE q[i - Len(b)]
  BY ConcatProperties
<1> DEFINE t == Tail(b)
<1>4. t \o q \in Seq(S) /\ Len(t \o q) = Len(t) + Len(q)
      /\ \A i \in 1..(Len(t) + Len(q)) :
             (t \o q)[i] = IF i <= Len(t) THEN t[i] ELSE q[i - Len(t)]
  BY <1>1, ConcatProperties
<1> HIDE DEF t
<1>5. 1 \in 1..(Len(b) + Len(q)) /\ 1 <= Len(b)
  BY <1>2
<1>6. ASSUME NEW i \in 1..(Len(b \o q) - 1) PROVE (t \o q)[i] = (b \o q)[i + 1]
  <2>1. i \in Int /\ i >= 1 /\ i <= Len(b) + Len(q) - 1
    BY <1>2, <1>3, <1>6
  <2>2. i + 1 \in 1..(Len(b) + Len(q)) /\ i \in 1..(Len(t) + Len(q))
    BY <1>1, <1>2, <2>1 DEF t
  <2>3. CASE i <= Len(t)
    <3>1. i + 1 <= Len(b) /\ i \in 1..Len(t) /\ t[i] = b[i + 1]
      BY <1>1, <1>2, <2>1, <2>3 DEF t
    <3> QED
      BY <1>3, <1>4, <2>2, <2>3, <3>1
  <2>4. CASE ~(i <= Len(t))
    <3>1. ~(i + 1 <= Len(b)) /\ i + 1 - Len(b) = i - Len(t)
      BY <1>1, <1>2, <2>1, <2>4 DEF t
    <3> QED
      BY <1>3, <1>4, <2>2, <2>4, <3>1
  <2> QED
    BY <2>3, <2>4
<1>7. Len(t \o q) = Len(b \o q) - 1 /\ Len(b \o q) \in Nat \ {0}
  BY <1>1, <1>2, <1>3, <1>4 DEF t
<1> QED
  BY <1>2, <1>3, <1>4, <1>5, <1>6, <1>7 DEF t

\* What they hold when another functor has been queued.
LEMMA BothAndOne ==
  ASSUME NEW S, NEW b \in Seq(S), NEW q \in Seq(S), NEW f \in S
  PROVE  /\ q \o <<f>> \in Seq(S) /\ Len(b \o q) \in Nat
         /\ Len(b \o (q \o <<f>>)) = Len(b \o q) + 1
         /\ (b \o (q \o <<f>>))[Len(b \o q) + 1] = f
         /\ \A i \in 1..Len(b \o q) : (b \o (q \o <<f>>))[i] = (b \o q)[i]
<1> DEFINE w == b \o q
           s == <<f>>
<1>1. w \in Seq(S) /\ s \in Seq(S) /\ Len(w) \in Nat
  BY ConcatProperties, LenProperties
<1>2. Append(w, f) = w \o s
  BY <1>1, AppendIsConcat
<1>3. q \o s \in Seq(S)
  BY <1>1, ConcatProperties
<1>4. w \o s = b \o (q \o s)
  BY <1>1, ConcatAssociative
<1>5. /\ Len(Append(w, f)) = Len(w) + 1 /\ Append(w, f)[Len(w) + 1] = f
      /\ \A i \in 1..Len(w) : Append(w, f)[i] = w[i]
  BY <1>1, AppendProperties
<1> QED
  BY <1>1, <1>2, <1>3, <1>4, <1>5

-----------------------------------------------------------------------------
(* What a step does to the functors that wait.                              *)

NoLoop == NumLoops + 1

\* The first functor of loop l0 goes, f comes last in loop m0; NoLoop is for neither.
Moved(w, v, l0, m0, f) ==
    \A m \in Loops :
        /\ Len(w[m]) \in Nat
        /\ m # l0 => /\ Len(v[m]) = IF m = m0 THEN Len(w[m]) + 1 ELSE Len(w[m])
                     /\ \A i \in 1..Len(w[m]) : v[m][i] = w[m][i]
        /\ m = l0 => /\ Len(w[m]) # 0
                     /\ Len(v[m]) = IF m = m0 THEN Len(w[m]) ELSE Len(w[m]) - 1
                     /\ \A i \in 1..(Len(w[m]) - 1) : v[m][i] = w[m][i + 1]
        /\ m = m0 => v[m][Len(v[m])] = f

\* What waits after a step waited before or has come.
LEMMA CameFrom ==
  ASSUME NEW w, NEW v, NEW l0, NEW m0, NEW f, Moved(w, v, l0, m0, f),
         NEW m \in Loops, NEW j \in 1..Len(v[m])
  PROVE  \/ m = m0 /\ j = Len(v[m]) /\ v[m][j] = f
         \/ m = l0 /\ j + 1 \in 1..Len(w[m]) /\ j + 1 # 1 /\ v[m][j] = w[m][j + 1]
         \/ m # l0 /\ j \in 1..Len(w[m]) /\ v[m][j] = w[m][j]
<1> DEFINE n == Len(w[m])
           k == Len(v[m])
<1>1. n \in Nat /\ (m = m0 => v[m][k] = f) /\ j \in 1..k
  BY DEF Moved
<1>2. CASE m = l0
  <2>1. n # 0 /\ k = (IF m = m0 THEN n ELSE n - 1) /\ \A i \in 1..(n - 1) : v[m][i] = w[m][i + 1]
    BY <1>2 DEF Moved
  <2> HIDE DEF n, k
  <2>2. k \in Int /\ j \in Int
    BY <1>1, <2>1
  <2>3. CASE j \in 1..(n - 1)
    <3>1. j + 1 \in 1..n /\ j + 1 # 1
      BY <1>1, <2>2, <2>3
    <3> QED
      BY <1>2, <2>1, <2>3, <3>1 DEF n
  <2>4. CASE j \notin 1..(n - 1)
    <3>1. m = m0 /\ j = k
      BY <1>1, <2>1, <2>2, <2>4
    <3> QED
      BY <1>1, <3>1 DEF k
  <2> QED
    BY <2>3, <2>4
<1>3. CASE m # l0
  <2>1. k = (IF m = m0 THEN n + 1 ELSE n) /\ \A i \in 1..n : v[m][i] = w[m][i]
    BY <1>3 DEF Moved
  <2> HIDE DEF n, k
  <2>2. k \in Int /\ j \in Int
    BY <1>1, <2>1
  <2>3. CASE j \in 1..n
    BY <1>3, <2>1, <2>3 DEF n
  <2>4. CASE j \notin 1..n
    <3>1. m = m0 /\ j = k
      BY <1>1, <2>1, <2>2, <2>4
    <3> QED
      BY <1>1, <3>1 DEF k
  <2> QED
    BY <2>3, <2>4
<1> QED
  BY <1>2, <1>3

\* What waited before a step waits after it, but for the one that has gone.
LEMMA WentTo ==
  ASSUME NEW w, NEW v, NEW l0, NEW m0, NEW f, Moved(w, v, l0, m0, f),
         NEW m \in Loops, NEW i \in 1..Len(w[m]), ~(m = l0 /\ i = 1)
  PROVE  \E j \in 1..Len(v[m]) : v[m][j] = w[m][i]
<1> DEFINE n == Len(w[m])
           k == Len(v[m])
<1>1. n \in Nat /\ i \in 1..n
  BY DEF Moved
<1>2. CASE m = l0
  <2>1. n # 0 /\ k = (IF m = m0 THEN n ELSE n - 1) /\ \A j \in 1..(n - 1) : v[m][j] = w[m][j + 1]
    BY <1>2 DEF Moved
  <2> HIDE DEF n, k
  <2>2. i - 1 \in 1..(n - 1) /\ i - 1 + 1 = i /\ i - 1 \in 1..k
    BY <1>1, <1>2, <2>1
  <2>3. v[m][i - 1] = w[m][i - 1 + 1]
    BY <2>1, <2>2
  <2> QED
    BY <2>2, <2>3 DEF k
<1>3. CASE m # l0
  <2>1. k = (IF m = m0 THEN n + 1 ELSE n) /\ \A j \in 1..n : v[m][j] = w[m][j]
    BY <1>3 DEF Moved
  <2> HIDE DEF n, k
  <2>2. i \in 1..k
    BY <1>1, <2>1
  <2> QED
    BY <1>1, <2>1, <2>2 DEF k
<1> QED
  BY <1>2, <1>3

\* The one that has come waits.
LEMMA HasCome ==
  ASSUME NEW w, NEW v, NEW l0, NEW m0 \in Loops, NEW f, Moved(w, v, l0, m0, f)
  PROVE  Len(v[m0]) \in 1..Len(v[m0]) /\ v[m0][Len(v[m0])] = f
<1> DEFINE n == Len(w[m0])
           k == Len(v[m0])
<1>1. n \in Nat /\ v[m0][k] = f /\ (m0 = l0 => n # 0 /\ k = n) /\ (m0 # l0 => k = n + 1)
  BY DEF Moved
<1> HIDE DEF n, k
<1>2. k \in 1..k
  BY <1>1
<1> QED
  BY <1>1, <1>2 DEF k

\* Two that must not wait together still do not.
LEMMA UniqueMoved ==
  ASSUME NEW w, NEW v, NEW l0, NEW m0, NEW f, Moved(w, v, l0, m0, f),
         NEW L, NEW K, K \subseteq L, L \subseteq Loops, Unique(w, L),
         m0 \in K => \A l \in L : \A i \in 1..Len(w[l]) :
                         ~(l = l0 /\ i = 1) => ~Same(w[l][i], f)
  PROVE  Unique(v, K)
<1> SUFFICES ASSUME NEW l \in K, NEW m \in K, NEW i \in 1..Len(v[l]), NEW j \in 1..Len(v[m]),
                    Same(v[l][i], v[m][j])
             PROVE  l = m /\ i = j
  BY DEF Unique
<1>1. l \in Loops /\ m \in Loops /\ l \in L /\ m \in L
  OBVIOUS
<1> DEFINE New(k, n) == k = m0 /\ n = Len(v[k]) /\ v[k][n] = f
           Old(k, n, o) == /\ o \in 1..Len(w[k]) /\ ~(k = l0 /\ o = 1) /\ v[k][n] = w[k][o]
                           /\ o = IF k = l0 THEN n + 1 ELSE n
<1>2. New(l, i) \/ \E o : Old(l, i, o)
  BY <1>1, CameFrom
<1>3. New(m, j) \/ \E o : Old(m, j, o)
  BY <1>1, CameFrom
<1>4. Same(v[m][j], v[l][i])
  BY DEF Same
<1>5. CASE New(l, i) /\ New(m, j)
  BY <1>5
<1>6. CASE New(l, i) /\ \E o : Old(m, j, o)
  BY <1>1, <1>4, <1>6
<1>7. CASE New(m, j) /\ \E o : Old(l, i, o)
  BY <1>1, <1>7
<1>8. CASE (\E o : Old(l, i, o)) /\ \E o : Old(m, j, o)
  <2>1. PICK a : Old(l, i, a)
    BY <1>8
  <2>2. PICK b : Old(m, j, b)
    BY <1>8
  <2>3. l = m /\ a = b
    BY <1>1, <2>1, <2>2 DEF Unique
  <2>4. i \in Int /\ j \in Int
    OBVIOUS
  <2> QED
    BY <2>1, <2>2, <2>3, <2>4
<1> QED
  BY <1>2, <1>3, <1>5, <1>6, <1>7, <1>8

\* A deletion stays the last of its connection.
LEMMA DeleteLastMoved ==
  ASSUME NEW w, NEW v, NEW l0, NEW m0, NEW f, Moved(w, v, l0, m0, f),
         NEW L, NEW K, K \subseteq L, L \subseteq Loops, DeleteLast(w, L),
         m0 \in K => \A i \in 1..Len(w[m0]) :
                         ~(m0 = l0 /\ i = 1) /\ w[m0][i].op = "delete" => f.conn # w[m0][i].conn
  PROVE  DeleteLast(v, K)
<1> SUFFICES ASSUME NEW l \in K, NEW i \in 1..Len(v[l]), NEW j \in 1..Len(v[l]),
                    i < j, v[l][i].op = "delete"
             PROVE  v[l][j].conn # v[l][i].conn
  BY DEF DeleteLast
<1>1. l \in Loops /\ l \in L /\ i \in Int /\ j \in Int
  OBVIOUS
<1> DEFINE New(n) == l = m0 /\ n = Len(v[l]) /\ v[l][n] = f
           Old(n, o) == /\ o \in 1..Len(w[l]) /\ ~(l = l0 /\ o = 1) /\ v[l][n] = w[l][o]
                        /\ o = IF l = l0 THEN n + 1 ELSE n
<1>2. New(i) \/ \E o : Old(i, o)
  BY <1>1, CameFrom
<1>3. New(j) \/ \E o : Old(j, o)
  BY <1>1, CameFrom
<1>4. CASE New(i)
  <2>1. i = Len(v[l])
    BY <1>4
  <2> QED
    BY <1>1, <2>1
<1>5. CASE New(j) /\ \E o : Old(i, o)
  BY <1>1, <1>5
<1>6. CASE (\E o : Old(i, o)) /\ \E o : Old(j, o)
  <2>1. PICK a : Old(i, a)
    BY <1>6
  <2>2. PICK b : Old(j, b)
    BY <1>6
  <2>3. a < b
    BY <1>1, <2>1, <2>2
  <2> QED
    BY <1>1, <2>1, <2>2, <2>3 DEF DeleteLast
<1> QED
  BY <1>2, <1>3, <1>4, <1>5, <1>6

\* The deletions of a connection are not touched by what comes and goes for others.
LEMMA DeletionsKept ==
  ASSUME NEW w, NEW v, NEW l0, NEW m0, NEW f, Moved(w, v, l0, m0, f), NEW c,
         l0 \in Loops => w[l0][1] # F("delete", c), m0 \in Loops => f # F("delete", c)
  PROVE  /\ AtMostOne(w, c) => AtMostOne(v, c)
         /\ NoDelete(w, c) <=> NoDelete(v, c)
<1>1. ASSUME NEW m \in Loops, NEW j \in 1..Len(v[m]), v[m][j] = F("delete", c)
      PROVE  LET o == IF m = l0 THEN j + 1 ELSE j IN
             o \in 1..Len(w[m]) /\ w[m][o] = F("delete", c)
  BY <1>1, CameFrom
<1>2. AtMostOne(w, c) => AtMostOne(v, c)
  <2> SUFFICES ASSUME AtMostOne(w, c), NEW l \in Loops, NEW m \in Loops,
                      NEW i \in 1..Len(v[l]), NEW j \in 1..Len(v[m]),
                      v[l][i] = F("delete", c), v[m][j] = F("delete", c)
               PROVE  l = m /\ i = j
    BY DEF AtMostOne
  <2>1. PICK a \in 1..Len(w[l]) : w[l][a] = F("delete", c) /\ a = IF l = l0 THEN i + 1 ELSE i
    BY <1>1
  <2>2. PICK b \in 1..Len(w[m]) : w[m][b] = F("delete", c) /\ b = IF m = l0 THEN j + 1 ELSE j
    BY <1>1
  <2>3. l = m /\ a = b
    BY <2>1, <2>2 DEF AtMostOne
  <2>4. i \in Int /\ j \in Int
    OBVIOUS
  <2> QED
    BY <2>1, <2>2, <2>3, <2>4
<1>3. NoDelete(w, c) => NoDelete(v, c)
  BY <1>1 DEF NoDelete
<1>4. NoDelete(v, c) => NoDelete(w, c)
  <2> SUFFICES ASSUME NoDelete(v, c), NEW l \in Loops, NEW i \in 1..Len(w[l]),
                      w[l][i] = F("delete", c)
               PROVE  FALSE
    BY DEF NoDelete
  <2>1. ~(l = l0 /\ i = 1)
    OBVIOUS
  <2>2. \E j \in 1..Len(v[l]) : v[l][j] = w[l][i]
    BY <2>1, WentTo
  <2> QED
    BY <2>2 DEF NoDelete
<1> QED
  BY <1>2, <1>3, <1>4

\* The first deletion of a connection is queued.
LEMMA DeletionCome ==
  ASSUME NEW w, NEW v, NEW l0, NEW m0 \in Loops, NEW f, Moved(w, v, l0, m0, f), NEW c,
         NoDelete(w, c), f = F("delete", c)
  PROVE  AtMostOne(v, c) /\ ~NoDelete(v, c)
<1>1. ASSUME NEW m \in Loops, NEW j \in 1..Len(v[m]), v[m][j] = F("delete", c)
      PROVE  m = m0 /\ j = Len(v[m])
  BY <1>1, CameFrom DEF NoDelete
<1>2. AtMostOne(v, c)
  BY <1>1 DEF AtMostOne
<1>3. ~NoDelete(v, c)
  BY HasCome DEF NoDelete
<1> QED
  BY <1>2, <1>3

\* The only deletion of a connection is taken.
LEMMA DeletionGone ==
  ASSUME NEW w, NEW v, NEW l0 \in Loops, NEW m0, NEW f, Moved(w, v, l0, m0, f), NEW c,
         AtMostOne(w, c), w[l0][1] = F("delete", c), m0 \notin Loops
  PROVE  AtMostOne(v, c) /\ NoDelete(v, c)
<1>1. Len(w[l0]) \in Nat /\ Len(w[l0]) # 0
  BY DEF Moved
<1> DEFINE n == Len(w[l0])
<1>2. 1 \in 1..n
  <2> HIDE DEF n
  <2>1. n \in Nat /\ n # 0
    BY <1>1 DEF n
  <2> QED
    BY <2>1
<1>3. ASSUME NEW m \in Loops, NEW j \in 1..Len(v[m]), v[m][j] = F("delete", c)
      PROVE  FALSE
  <2>1. PICK o \in 1..Len(w[m]) : ~(m = l0 /\ o = 1) /\ w[m][o] = F("delete", c)
    BY <1>3, CameFrom
  <2> QED
    BY <1>2, <2>1 DEF AtMostOne
<1> QED
  BY <1>3 DEF AtMostOne, NoDelete

-----------------------------------------------------------------------------
(* The queues and batches.                                                  *)

Typed == queue \in [Loops -> Seq(Functors)] /\ batch \in [Loops -> Seq(Functors)]

\* Base is a loop, and NoLoop is not one.
LEMMA TheLoops == Base \in Loops /\ NoLoop \notin Loops
BY ServerConstants DEF Base, Loops, NoLoop

\* What waits, loop by loop.
LEMMA WaitsAre ==
  ASSUME Typed, NEW m \in Loops
  PROVE  W[m] = batch[m] \o queue[m] /\ W[m] \in Seq(Functors) /\ Len(W[m]) \in Nat
         /\ \A i \in 1..Len(W[m]) : W[m][i] \in Functors
<1>1. W[m] = batch[m] \o queue[m]
  BY DEF W, Waiting
<1>2. batch[m] \in Seq(Functors) /\ queue[m] \in Seq(Functors)
  BY DEF Typed
<1>3. W[m] \in Seq(Functors)
  BY <1>1, <1>2, ConcatProperties
<1> QED
  BY <1>1, <1>3, LenProperties, ElementOfSeq

\* A functor is queued.
LEMMA Pushed ==
  ASSUME Typed, NEW m \in Loops, NEW f \in Functors, Queue(m, <<f>>), batch' = batch
  PROVE  Typed' /\ Moved(W, W', NoLoop, m, f)
<1>1. ASSUME NEW k \in Loops
      PROVE  /\ batch[k] \in Seq(Functors) /\ queue[k] \in Seq(Functors)
             /\ queue'[k] = IF k = m THEN queue[m] \o <<f>> ELSE queue[k]
             /\ queue[m] \o <<f>> \in Seq(Functors)
             /\ W[k] = batch[k] \o queue[k] /\ W'[k] = batch[k] \o queue'[k]
  BY BothAndOne DEF Typed, Queue, W, Waiting
<1>2. Typed'
  BY <1>1 DEF Typed, Queue
<1>3. ASSUME NEW k \in Loops
      PROVE  /\ Len(W[k]) \in Nat
             /\ Len(W'[k]) = IF k = m THEN Len(W[k]) + 1 ELSE Len(W[k])
             /\ \A i \in 1..Len(W[k]) : W'[k][i] = W[k][i]
             /\ k = m => W'[k][Len(W'[k])] = f
  <2>1. Len(W[k]) \in Nat
    BY WaitsAre
  <2>2. CASE k = m
    <3> DEFINE b == batch[k]
               q == queue[k]
    <3>1. b \in Seq(Functors) /\ q \in Seq(Functors)
      BY <1>1
    <3>2. W[k] = b \o q /\ W'[k] = b \o (q \o <<f>>)
      BY <1>1, <2>2
    <3> HIDE DEF b, q
    <3>3. /\ Len(b \o (q \o <<f>>)) = Len(b \o q) + 1
          /\ (b \o (q \o <<f>>))[Len(b \o q) + 1] = f
          /\ \A i \in 1..Len(b \o q) : (b \o (q \o <<f>>))[i] = (b \o q)[i]
      BY <3>1, BothAndOne
    <3>4. /\ Len(W'[k]) = Len(W[k]) + 1 /\ W'[k][Len(W[k]) + 1] = f
          /\ \A i \in 1..Len(W[k]) : W'[k][i] = W[k][i]
      BY <3>2, <3>3, Zenon
    <3> QED
      BY <2>1, <2>2, <3>4
  <2>3. CASE k # m
    <3>1. W'[k] = W[k]
      BY <1>1, <2>3
    <3> QED
      BY <2>1, <2>3, <3>1
  <2> QED
    BY <2>2, <2>3
<1> QED
  BY <1>2, <1>3, TheLoops DEF Moved

\* The first functor of a batch is taken, and none or one is queued.
LEMMA Popped ==
  ASSUME Typed, NEW l \in Loops, batch[l] # <<>>, batch' = [batch EXCEPT ![l] = Tail(@)],
         NEW m, NEW f,
         \/ m = NoLoop /\ queue' = queue
         \/ m \in Loops /\ f \in Functors /\ Queue(m, <<f>>)
  PROVE  Typed' /\ Moved(W, W', l, m, f) /\ W[l][1] = Head(batch[l]) /\ 1 \in 1..Len(W[l])
<1>1. ASSUME NEW k \in Loops
      PROVE  /\ batch[k] \in Seq(Functors) /\ queue[k] \in Seq(Functors)
             /\ queue'[k] = IF k = m THEN queue[k] \o <<f>> ELSE queue[k]
             /\ batch'[k] = IF k = l THEN Tail(batch[k]) ELSE batch[k]
             /\ W[k] = batch[k] \o queue[k] /\ W'[k] = batch'[k] \o queue'[k]
  BY TheLoops DEF Typed, Queue, W, Waiting
<1>2. Tail(batch[l]) \in Seq(Functors)
  BY <1>1, HeadTailProperties
<1>3. ASSUME NEW k \in Loops PROVE queue'[k] \in Seq(Functors) /\ batch'[k] \in Seq(Functors)
  <2>1. batch'[k] \in Seq(Functors)
    BY <1>1, <1>2
  <2>2. CASE k = m
    <3>1. queue[k] \o <<f>> \in Seq(Functors)
      BY <1>1, <2>2, BothAndOne, TheLoops
    <3> QED
      BY <1>1, <2>1, <2>2, <3>1
  <2>3. CASE k # m
    BY <1>1, <2>1, <2>3
  <2> QED
    BY <2>2, <2>3
<1>4. Typed'
  BY <1>3 DEF Typed, Queue
<1>5. W[l][1] = Head(batch[l]) /\ Len(W[l]) \in Nat \ {0}
  <2> DEFINE b == batch[l]
             q == queue[l]
  <2>1. b \in Seq(Functors) /\ q \in Seq(Functors) /\ b # <<>> /\ W[l] = b \o q
    BY <1>1
  <2> HIDE DEF b, q
  <2>2. Len(b \o q) \in Nat \ {0} /\ (b \o q)[1] = Head(b)
    BY <2>1, TailOfBoth
  <2>3. W[l][1] = Head(b) /\ Len(W[l]) \in Nat \ {0}
    BY <2>1, <2>2, Zenon
  <2> QED
    BY <2>3 DEF b
<1>6. 1 \in 1..Len(W[l])
  <2> DEFINE n == Len(W[l])
  <2>1. n \in Nat \ {0}
    BY <1>5
  <2> HIDE DEF n
  <2>2. 1 \in 1..n
    BY <2>1
  <2> QED
    BY <2>2 DEF n
<1>7. ASSUME NEW k \in Loops
      PROVE  /\ Len(W[k]) \in Nat
             /\ k # l => /\ Len(W'[k]) = IF k = m THEN Len(W[k]) + 1 ELSE Len(W[k])
                         /\ \A i \in 1..Len(W[k]) : W'[k][i] = W[k][i]
             /\ k = l => /\ Len(W[k]) # 0
                         /\ Len(W'[k]) = IF k = m THEN Len(W[k]) ELSE Len(W[k]) - 1
                         /\ \A i \in 1..(Len(W[k]) - 1) : W'[k][i] = W[k][i + 1]
             /\ k = m => W'[k][Len(W'[k])] = f
  <2>1. Len(W[k]) \in Nat
    BY WaitsAre
  <2>2. k = m => f \in Functors
    BY TheLoops
  <2> DEFINE b == batch[k]
             q == queue[k]
             t == Tail(b)
             n == Len(W[k])
  <2>3. b \in Seq(Functors) /\ q \in Seq(Functors) /\ W[k] = b \o q
    BY <1>1
  <2>4. CASE k # l /\ k # m
    <3>1. W'[k] = W[k]
      BY <1>1, <2>4
    <3> QED
      BY <2>1, <2>4, <3>1
  <2>5. CASE k # l /\ k = m
    <3>1. W'[k] = b \o (q \o <<f>>)
      BY <1>1, <2>5
    <3> HIDE DEF b, q
    <3>2. /\ Len(b \o (q \o <<f>>)) = Len(b \o q) + 1
          /\ (b \o (q \o <<f>>))[Len(b \o q) + 1] = f
          /\ \A i \in 1..Len(b \o q) : (b \o (q \o <<f>>))[i] = (b \o q)[i]
      BY <2>2, <2>3, <2>5, BothAndOne
    <3>3. /\ Len(W'[k]) = Len(W[k]) + 1 /\ W'[k][Len(W[k]) + 1] = f
          /\ \A i \in 1..Len(W[k]) : W'[k][i] = W[k][i]
      BY <2>3, <3>1, <3>2, Zenon
    <3> QED
      BY <2>1, <2>5, <3>3
  <2>6. CASE k = l
    <3>1. b # <<>> /\ t \in Seq(Functors)
      BY <1>2, <2>6
    <3>2. CASE k # m
      <4>1. W'[k] = t \o q
        BY <1>1, <2>6, <3>2
      <4>2. /\ Len(b \o q) \in Nat \ {0} /\ Len(Tail(b) \o q) = Len(b \o q) - 1
            /\ \A i \in 1..(Len(b \o q) - 1) : (Tail(b) \o q)[i] = (b \o q)[i + 1]
        <5> HIDE DEF b, q
        <5> QED
          BY <2>3, <3>1, TailOfBoth
      <4>3. /\ Len(W[k]) \in Nat \ {0} /\ Len(W'[k]) = Len(W[k]) - 1
            /\ \A i \in 1..(Len(W[k]) - 1) : W'[k][i] = W[k][i + 1]
        <5> HIDE DEF b, q
        <5> QED
          BY <2>3, <4>1, <4>2, Zenon DEF t
      <4> QED
        BY <2>6, <3>2, <4>3
    <3>3. CASE k = m
      <4>1. W'[k] = t \o (q \o <<f>>)
        BY <1>1, <2>6, <3>3
      <4>2. /\ Len(b \o q) \in Nat \ {0} /\ Len(Tail(b) \o q) = Len(b \o q) - 1
            /\ \A i \in 1..(Len(b \o q) - 1) : (Tail(b) \o q)[i] = (b \o q)[i + 1]
        <5> HIDE DEF b, q
        <5> QED
          BY <2>3, <3>1, TailOfBoth
      <4> HIDE DEF b, q
      <4>3. n \in Nat \ {0} /\ Len(t \o q) = n - 1
            /\ \A i \in 1..(n - 1) : (t \o q)[i] = W[k][i + 1]
        BY <2>3, <4>2, Zenon
      <4> HIDE DEF t
      <4>4. /\ Len(t \o (q \o <<f>>)) = Len(t \o q) + 1
            /\ (t \o (q \o <<f>>))[Len(t \o q) + 1] = f
            /\ \A i \in 1..Len(t \o q) : (t \o (q \o <<f>>))[i] = (t \o q)[i]
        BY <2>2, <2>3, <3>1, <3>3, BothAndOne
      <4> DEFINE u == t \o q
                 v == W'[k]
      <4>5. n \in Nat \ {0} /\ Len(u) = n - 1 /\ \A i \in 1..(n - 1) : u[i] = W[k][i + 1]
        BY <4>3
      <4>6. Len(v) = Len(u) + 1 /\ v[Len(u) + 1] = f /\ \A i \in 1..Len(u) : v[i] = u[i]
        BY <4>1, <4>4, Zenon
      <4> HIDE DEF u, v, n
      <4>7. Len(u) + 1 = n
        BY <4>5
      <4>8. Len(v) = n /\ v[n] = f
        BY <4>6, <4>7
      <4>9. \A i \in 1..(n - 1) : v[i] = W[k][i + 1]
        BY <4>5, <4>6
      <4> QED
        BY <2>6, <3>3, <4>5, <4>8, <4>9 DEF n, v
    <3> QED
      BY <3>2, <3>3
  <2> QED
    BY <2>4, <2>5, <2>6
<1> QED
  BY <1>4, <1>5, <1>6, <1>7 DEF Moved

\* A batch is swapped with the queue when it is empty: what waits is the same.
LEMMA Swapped ==
  ASSUME Typed, NEW l \in Loops, batch[l] = <<>>,
         batch' = [batch EXCEPT ![l] = queue[l]], queue' = [queue EXCEPT ![l] = <<>>]
  PROVE  Typed' /\ W' = W
<1>1. ASSUME NEW k \in Loops
      PROVE  /\ batch[k] \in Seq(Functors) /\ queue[k] \in Seq(Functors)
             /\ queue'[k] = IF k = l THEN <<>> ELSE queue[k]
             /\ batch'[k] = IF k = l THEN queue[k] ELSE batch[k]
  BY DEF Typed
<1>2. <<>> \in Seq(Functors)
  OBVIOUS
<1>3. Typed'
  BY <1>1, <1>2 DEF Typed
<1>4. ASSUME NEW k \in Loops PROVE Waiting(k)' = Waiting(k)
  <2>1. CASE k = l
    <3>1. queue[k] \o <<>> = queue[k] /\ <<>> \o queue[k] = queue[k]
      BY <1>1, ConcatEmptySeq
    <3> QED
      BY <1>1, <2>1, <3>1 DEF Waiting
  <2>2. CASE k # l
    BY <1>1, <2>2 DEF Waiting
  <2> QED
    BY <2>1, <2>2
<1> QED
  BY <1>3, <1>4 DEF W

\* When it is the same, nothing comes and nothing goes.
LEMMA NothingMoved ==
  ASSUME Typed, W' = W, NEW f
  PROVE  Moved(W, W', NoLoop, NoLoop, f)
BY WaitsAre, TheLoops DEF Moved

-----------------------------------------------------------------------------
(* What a step leaves of the invariant.                                     *)

\* Functor g waits in the living loop l and is not the first of loop l0.
Rest(g, l, l0) ==
    l \in Live /\ \E i \in 1..Len(W[l]) : W[l][i] = g /\ ~(l = l0 /\ i = 1)

\* What is known of such a functor.
LEMMA RestFits ==
  ASSUME Typed, FitInv, NEW g, NEW l, NEW l0, Rest(g, l, l0)
  PROVE  l \in Loops /\ l \in Live /\ g \in Functors /\ Fits(g, l)
<1>1. l \in Live /\ l \in Loops
  BY DEF Rest, Live
<1>2. PICK i \in 1..Len(W[l]) : W[l][i] = g
  BY DEF Rest
<1>3. g \in Functors
  BY <1>1, <1>2, WaitsAre
<1> QED
  BY <1>1, <1>2, <1>3 DEF FitInv

\* It is not the same as the first of l0, and no deletion of its connection comes before.
LEMMA RestDiffers ==
  ASSUME Unique(W, Live), DeleteLast(W, Live), NEW l0 \in Live, 1 \in 1..Len(W[l0]),
         NEW g, NEW l, Rest(g, l, l0)
  PROVE  /\ ~Same(g, W[l0][1])
         /\ l = l0 /\ W[l0][1].op = "delete" => g.conn # W[l0][1].conn
<1>1. l \in Live
  BY DEF Rest
<1>2. PICK i \in 1..Len(W[l]) : W[l][i] = g /\ ~(l = l0 /\ i = 1)
  BY DEF Rest
<1>3. ~Same(g, W[l0][1])
  BY <1>1, <1>2 DEF Unique
<1>4. ASSUME l = l0, W[l0][1].op = "delete" PROVE g.conn # W[l0][1].conn
  <2>1. i \in 1..Len(W[l0]) /\ i # 1 /\ W[l0][i] = g
    BY <1>2, <1>4
  <2>2. 1 < i
    BY <2>1
  <2> QED
    BY <1>4, <2>1, <2>2 DEF DeleteLast
<1> QED
  BY <1>3, <1>4

\* A deletion is one of its connection, and none waits when NoDelete says so.
LEMMA RestNoDelete ==
  ASSUME Typed, FitInv, NEW g, NEW l, NEW l0, Rest(g, l, l0), g.op = "delete", NEW c, NoDelete(W, c)
  PROVE  g.conn # c
<1>1. g \in Functors /\ l \in Loops
  BY RestFits
<1>2. PICK i \in 1..Len(W[l]) : W[l][i] = g
  BY DEF Rest
<1>3. SUFFICES ASSUME g.conn = c PROVE FALSE
  OBVIOUS
<1>4. g = F("delete", c)
  BY <1>1, <1>3 DEF Functors, F
<1> QED
  BY <1>1, <1>2, <1>4 DEF NoDelete

\* The functors after a step, when what is left of them and what comes to them is known.
LEMMA Stepped ==
  ASSUME Typed, FitInv, Unique(W, Live), DeleteLast(W, Live),
         NEW l0, NEW m0, NEW f, Moved(W, W', l0, m0, f), Live' \subseteq Live,
         m0 \in Live' => Fits(f, m0)',
         \A g, l : Rest(g, l, l0) /\ l \in Live' => Fits(g, l)',
         m0 \in Live' => \A g, l : Rest(g, l, l0) => ~Same(g, f),
         m0 \in Live' => \A g : Rest(g, m0, l0) /\ g.op = "delete" => f.conn # g.conn
  PROVE  FitInv' /\ Unique(W, Live)' /\ DeleteLast(W, Live)'
<1>1. Live \subseteq Loops /\ Live' \subseteq Loops
  BY DEF Live
<1>2. ASSUME NEW l \in Live, NEW i \in 1..Len(W[l]), ~(l = l0 /\ i = 1)
      PROVE  Rest(W[l][i], l, l0)
  BY <1>2 DEF Rest
<1>3. FitInv'
  <2> SUFFICES ASSUME NEW l \in Live', NEW j \in 1..Len(W'[l]), NEW g, g = W'[l][j]
               PROVE  Fits(g, l)'
    BY DEF FitInv, Fits
  <2>1. l \in Loops /\ l \in Live
    BY <1>1
  <2>2. \/ l = m0 /\ g = f
        \/ \E i \in 1..Len(W[l]) : ~(l = l0 /\ i = 1) /\ g = W[l][i]
    BY <2>1, CameFrom
  <2>3. CASE l = m0 /\ g = f
    BY <2>3
  <2>4. CASE \E i \in 1..Len(W[l]) : ~(l = l0 /\ i = 1) /\ g = W[l][i]
    <3>1. PICK i \in 1..Len(W[l]) : ~(l = l0 /\ i = 1) /\ g = W[l][i]
      BY <2>4
    <3>2. Rest(g, l, l0)
      BY <1>2, <2>1, <3>1
    <3> QED
      BY <3>2
  <2> QED
    BY <2>2, <2>3, <2>4
<1>4. Unique(W, Live)'
  <2>1. m0 \in Live' => \A l \in Live : \A i \in 1..Len(W[l]) :
                            ~(l = l0 /\ i = 1) => ~Same(W[l][i], f)
    BY <1>2
  <2>2. Unique(W', Live')
    BY <1>1, <2>1, UniqueMoved
  <2> QED
    BY <2>2 DEF Unique
<1>5. DeleteLast(W, Live)'
  <2>1. m0 \in Live' => \A i \in 1..Len(W[m0]) :
            ~(m0 = l0 /\ i = 1) /\ W[m0][i].op = "delete" => f.conn # W[m0][i].conn
    BY <1>2
  <2>2. DeleteLast(W', Live')
    BY <1>1, <2>1, DeleteLastMoved
  <2> QED
    BY <2>2 DEF DeleteLast
<1> QED
  BY <1>3, <1>4, <1>5

\* The owners of the connections, when no deletion comes or goes.
LEMMA OwnKept ==
  ASSUME OwnInv, NEW l0, NEW m0, NEW f, Moved(W, W', l0, m0, f),
         l0 \in Loops => W[l0][1].op # "delete", m0 \in Loops => f.op # "delete",
         connections' = connections,
         \A c \in Conns : state'[c] \in {"none", "freed"} <=> state[c] \in {"none", "freed"}
  PROVE  OwnInv'
<1>1. ASSUME NEW c \in Conns PROVE (AtMostOne(W, c) => AtMostOne(W', c)) /\ (NoDelete(W, c) <=> NoDelete(W', c))
  <2>1. l0 \in Loops => W[l0][1] # F("delete", c)
    BY DEF F
  <2>2. m0 \in Loops => f # F("delete", c)
    BY DEF F
  <2> QED
    BY <2>1, <2>2, DeletionsKept
<1>2. OwnInv' <=> \A c \in Conns :
        /\ AtMostOne(W', c)
        /\ c \in connections' => NoDelete(W', c)
        /\ state'[c] \in {"none", "freed"} => c \notin connections' /\ NoDelete(W', c)
        /\ state'[c] \notin {"none", "freed"} => c \in connections' \/ ~NoDelete(W', c)
  BY DEF OwnInv, AtMostOne, NoDelete
<1> QED
  BY <1>1, <1>2 DEF OwnInv

\* The functors, when their connections are as they were.
LEMMA FitsKept ==
  ASSUME NEW g, NEW l, Fits(g, l), closed \subseteq closed', asked \subseteq asked',
         destructor # "none" => destructor' # "none",
         g.conn # 0 => state'[g.conn] = state[g.conn] /\ loopOf'[g.conn] = loopOf[g.conn],
         g.op = "deleteInLoop" => g.conn \in connections'
  PROVE  Fits(g, l)'
BY DEF Fits

\* The loops, when none moves on.
LEMMA LoopsKept ==
  ASSUME LoopInv, phase' = phase, quit' = quit, destructor' = destructor,
         \A l \in Loops : phase[l] # "batch" => batch'[l] = batch[l]
  PROVE  LoopInv' /\ Live' = Live
BY DEF LoopInv, Live

\* While the server's loop lives, so do all, and a deletion waits for a connection
\* only when it is disconnected.
LEMMA BaseLives ==
  ASSUME LoopInv, Base \in Live
  PROVE  destructor = "none" /\ Live = Loops
BY TheLoops DEF LoopInv, Live

\* A step that moves no functor and no connection.
LEMMA StandsStill ==
  ASSUME Typed, FitInv, Unique(W, Live), DeleteLast(W, Live), OwnInv, W' = W, Live' \subseteq Live,
         closed \subseteq closed', asked \subseteq asked',
         destructor # "none" => destructor' # "none",
         state' = state, loopOf' = loopOf, connections' = connections
  PROVE  FitInv' /\ Unique(W, Live)' /\ DeleteLast(W, Live)' /\ OwnInv'
<1>1. Moved(W, W', NoLoop, NoLoop, 0)
  BY NothingMoved
<1>2. NoLoop \notin Loops /\ NoLoop \notin Live'
  BY TheLoops DEF Live
<1>3. \A g, l : Rest(g, l, NoLoop) /\ l \in Live' => Fits(g, l)'
  <2> TAKE g, l
  <2> HAVE Rest(g, l, NoLoop) /\ l \in Live'
  <2>1. Fits(g, l)
    BY RestFits
  <2> QED
    BY <2>1, FitsKept DEF Fits
<1>4. FitInv' /\ Unique(W, Live)' /\ DeleteLast(W, Live)'
  BY <1>1, <1>2, <1>3, Stepped
<1>5. OwnInv'
  BY <1>1, <1>2, OwnKept
<1> QED
  BY <1>4, <1>5

-----------------------------------------------------------------------------
(* The initial states.                                                      *)

\* The invariant holds at the beginning.
LEMMA InitIInv ==
  ASSUME Init
  PROVE  IInv
<1>1. queue \in [Loops -> Seq(Functors)] /\ batch \in [Loops -> Seq(Functors)]
  BY DEF Init
<1>2. TypeOK
  <2>1. loopOf \in [Conns -> Loops] /\ state \in [Conns -> States]
        /\ fired \in [Conns -> SUBSET SocketEvents] /\ destroyed \in [Conns -> 0..2]
    BY TheLoops DEF Init, States
  <2>2. phase \in [Loops -> {"start", "poll", "dispatch", "batch", "exited"}]
        /\ ready \in [Loops -> SUBSET Conns] /\ quit \subseteq Loops
    BY DEF Init
  <2>3. started \in BOOLEAN /\ listening \in BOOLEAN /\ nextLoop \in 1..NumLoops \cup {1}
        /\ connections \subseteq Conns /\ asked \subseteq Conns /\ closed \subseteq Conns
        /\ destructor \in {"none", "deleting", "joining", "gone"}
    BY DEF Init
  <2>4. stopped \in 0..NumLoops
    BY ServerConstants DEF Init
  <2> QED
    BY <1>1, <2>1, <2>2, <2>3, <2>4 DEF TypeOK
<1>3. \A l \in Loops : W[l] = <<>>
  BY ConcatEmptySeq DEF Init, W, Waiting
<1>4. \A l \in Loops : \A i \in 1..Len(W[l]) : FALSE
  BY <1>3
<1>5. FitInv /\ Unique(W, Live) /\ DeleteLast(W, Live)
  BY <1>4 DEF FitInv, Unique, DeleteLast, Live
<1>6. OwnInv
  BY <1>4 DEF Init, OwnInv, AtMostOne, NoDelete
<1>7. ConnInv /\ LoopInv
  BY DEF Init, ConnInv, LoopInv
<1> QED
  BY <1>2, <1>5, <1>6, <1>7 DEF IInv

-----------------------------------------------------------------------------
(* The steps that move no functor.                                          *)

\* The batch is taken when the wait returns for a wakeup or the dispatch is done.
LEMMA BatchTaken ==
  ASSUME IInv, NEW l \in Loops, PollWakeup(l) \/ DispatchDone(l)
  PROVE  IInv'
<1> USE DEF IInv
<1>1. /\ phase[l] \in {"poll", "dispatch"} /\ phase' = [phase EXCEPT ![l] = "batch"]
      /\ batch' = [batch EXCEPT ![l] = queue[l]] /\ queue' = [queue EXCEPT ![l] = <<>>]
      /\ UNCHANGED <<server, state, fired, quit, ready, history>>
  BY DEF PollWakeup, DispatchDone
<1>2. UNCHANGED <<started, listening, nextLoop, connections, loopOf, destructor, stopped, state, fired, quit,
                  ready, destroyed, asked, closed>>
  BY <1>1 DEF server, history
<1>3. Typed /\ batch[l] = <<>>
  BY <1>1 DEF TypeOK, Typed, LoopInv
<1>4. Typed' /\ W' = W
  BY <1>1, <1>3, Swapped
<1>5. TypeOK'
  BY <1>1, <1>2, <1>4 DEF TypeOK, Typed
<1>6. Live' = Live
  BY <1>1 DEF TypeOK, Live
<1>7. FitInv' /\ Unique(W, Live)' /\ DeleteLast(W, Live)' /\ OwnInv'
  BY <1>2, <1>3, <1>4, <1>6, StandsStill
<1>8. ConnInv'
  BY <1>2 DEF ConnInv
<1>9. LoopInv'
  BY <1>1, <1>2, TheLoops DEF LoopInv, TypeOK
<1> QED
  BY <1>5, <1>7, <1>8, <1>9

\* loop() is entered: a quit that came before is forgotten.
LEMMA LoopEntered ==
  ASSUME IInv, NEW l \in Loops, EnterLoop(l)
  PROVE  IInv'
<1> USE DEF IInv
<1>1. /\ phase[l] = "start" /\ phase' = [phase EXCEPT ![l] = "poll"] /\ quit' = quit \ {l}
      /\ UNCHANGED <<started, listening, nextLoop, connections, loopOf, destructor, stopped, state, fired,
                     ready, queue, batch, destroyed, asked, closed>>
  BY DEF EnterLoop, server, history
<1>2. Typed /\ W' = W /\ Live' = Live
  BY <1>1 DEF TypeOK, Typed, W, Waiting, Live
<1>3. TypeOK'
  BY <1>1 DEF TypeOK
<1>4. FitInv' /\ Unique(W, Live)' /\ DeleteLast(W, Live)' /\ OwnInv'
  BY <1>1, <1>2, StandsStill
<1>5. ConnInv'
  BY <1>1 DEF ConnInv
<1>6. LoopInv'
  BY <1>1, TheLoops DEF LoopInv, TypeOK
<1> QED
  BY <1>3, <1>4, <1>5, <1>6

\* Channels are handed out.
LEMMA EventsPolled ==
  ASSUME IInv, NEW l \in Loops, PollEvents(l)
  PROVE  IInv'
<1> USE DEF IInv
<1>1. /\ phase[l] = "poll" /\ phase' = [phase EXCEPT ![l] = "dispatch"]
      /\ ready' = [ready EXCEPT ![l] = Signaled(l)] /\ Signaled(l) \subseteq Conns
      /\ UNCHANGED <<started, listening, nextLoop, connections, loopOf, destructor, stopped, state, fired, quit,
                     queue, batch, destroyed, asked, closed>>
  BY DEF PollEvents, server, history, Signaled
<1>2. Typed /\ W' = W /\ Live' = Live
  BY <1>1 DEF TypeOK, Typed, W, Waiting, Live
<1>3. TypeOK'
  BY <1>1 DEF TypeOK
<1>4. FitInv' /\ Unique(W, Live)' /\ DeleteLast(W, Live)' /\ OwnInv'
  BY <1>1, <1>2, StandsStill
<1>5. ConnInv'
  BY <1>1 DEF ConnInv
<1>6. LoopInv'
  BY <1>1, TheLoops DEF LoopInv, TypeOK
<1> QED
  BY <1>3, <1>4, <1>5, <1>6

\* The batch is done: the loop returns or polls again.
LEMMA LoopReturns ==
  ASSUME IInv, NEW l \in Loops, BatchDone(l)
  PROVE  IInv'
<1> USE DEF IInv
<1>1. /\ phase[l] = "batch" /\ batch[l] = <<>>
      /\ phase' = [phase EXCEPT ![l] = IF l \in quit THEN "exited" ELSE "poll"]
      /\ UNCHANGED <<started, listening, nextLoop, connections, loopOf, destructor, stopped, state, fired, quit,
                     ready, queue, batch, destroyed, asked, closed>>
  BY DEF BatchDone, server, history
<1>2. Typed /\ W' = W /\ Live' \subseteq Live
  BY <1>1 DEF TypeOK, Typed, W, Waiting, Live
<1>3. TypeOK'
  BY <1>1 DEF TypeOK
<1>4. FitInv' /\ Unique(W, Live)' /\ DeleteLast(W, Live)' /\ OwnInv'
  BY <1>1, <1>2, StandsStill
<1>5. ConnInv'
  BY <1>1 DEF ConnInv
<1>6. LoopInv'
  BY <1>1, TheLoops DEF LoopInv, TypeOK
<1> QED
  BY <1>3, <1>4, <1>5, <1>6

\* A connected connection's socket signals something.
LEMMA Signals ==
  ASSUME IInv, NEW c \in Conns, NEW e \in SocketEvents, SocketEvent(c, e)
  PROVE  IInv'
<1> USE DEF IInv
<1>1. /\ state[c] = "connected" /\ (e = "close" => c \in PeerCloses)
      /\ fired' = [fired EXCEPT ![c] = @ \cup {e}]
      /\ UNCHANGED <<started, listening, nextLoop, connections, loopOf, destructor, stopped, state, quit, phase,
                     ready, queue, batch, destroyed, asked, closed>>
  BY DEF SocketEvent, server, loops, history
<1>2. Typed /\ W' = W /\ Live' = Live
  BY <1>1 DEF TypeOK, Typed, W, Waiting, Live
<1>3. TypeOK'
  BY <1>1 DEF TypeOK
<1>4. FitInv' /\ Unique(W, Live)' /\ DeleteLast(W, Live)' /\ OwnInv'
  BY <1>1, <1>2, StandsStill
<1>5. ConnInv'
  BY <1>1 DEF ConnInv, TypeOK
<1>6. LoopInv'
  BY <1>1 DEF LoopInv
<1> QED
  BY <1>3, <1>4, <1>5, <1>6

\* The end of the server's loop and of the server, but for the deletions.
LEMMA Ends ==
  ASSUME ClosedByOne, IInv,
         QuitBase \/ Destroy \/ DestroyPool \/ DestroyThread \/ PoolGone \/ UNCHANGED vars
  PROVE  IInv'
<1> USE DEF IInv
<1>1. UNCHANGED <<started, listening, nextLoop, connections, loopOf, state, fired, phase, ready, queue,
                  batch, destroyed, asked, closed>>
  BY DEF QuitBase, Destroy, DestroyPool, DestroyThread, QuitLoop, PoolGone, vars, server, loops, history
<1>2. Typed /\ W' = W /\ Live' = Live
  BY <1>1 DEF TypeOK, Typed, W, Waiting, Live
<1>3. /\ quit \subseteq quit' /\ quit' \subseteq Loops
      /\ destructor' \in {"none", "deleting", "joining", "gone"} /\ stopped' \in 0..NumLoops
      /\ destructor # "none" => destructor' # "none"
      /\ destructor' # "none" => phase[Base] = "exited"
      /\ \A l \in Loops \ {Base} : l \in quit' => destructor' # "none"
  <2>1. CASE QuitBase
    BY <2>1, TheLoops DEF QuitBase, server, TypeOK, LoopInv
  <2>2. CASE Destroy
    BY <2>2 DEF Destroy, loops, TypeOK, LoopInv, ClosedByOne
  <2>3. CASE DestroyPool
    BY <2>3 DEF DestroyPool, loops, TypeOK, LoopInv
  <2>4. CASE DestroyThread
    <3>1. stopped < NumLoops /\ stopped' = stopped + 1 /\ quit' = quit \cup {stopped + 1}
          /\ destructor = "joining" /\ destructor' = destructor
      BY <2>4 DEF DestroyThread, QuitLoop
    <3>2. stopped + 1 \in Loops /\ stopped + 1 \in 0..NumLoops
      BY <3>1, ServerConstants DEF TypeOK, Loops, Base
    <3> QED
      BY <3>1, <3>2 DEF TypeOK, LoopInv
  <2>5. CASE PoolGone
    BY <2>5 DEF PoolGone, loops, TypeOK, LoopInv
  <2>6. CASE UNCHANGED vars
    BY <2>6 DEF vars, server, loops, TypeOK, LoopInv
  <2> QED
    BY <2>1, <2>2, <2>3, <2>4, <2>5, <2>6
<1>4. TypeOK'
  BY <1>1, <1>3 DEF TypeOK
<1>5. FitInv' /\ Unique(W, Live)' /\ DeleteLast(W, Live)' /\ OwnInv'
  BY <1>1, <1>2, <1>3, StandsStill
<1>6. ConnInv'
  BY <1>1 DEF ConnInv
<1>7. LoopInv'
  BY <1>1, <1>3 DEF LoopInv
<1> QED
  BY <1>4, <1>5, <1>6, <1>7

-----------------------------------------------------------------------------
(* The steps that queue a functor.                                          *)

\* start queues listen.
LEMMA Starts ==
  ASSUME IInv, Start
  PROVE  IInv'
<1> USE DEF IInv
<1> DEFINE f == F("listen", 0)
<1>1. /\ started' = TRUE /\ Queue(Base, <<f>>)
      /\ UNCHANGED <<listening, nextLoop, connections, loopOf, destructor, stopped, state, fired, quit, phase,
                     ready, batch, destroyed, asked, closed>>
  BY DEF Start, history
<1>2. f \in Functors /\ f.op = "listen" /\ f.conn = 0
  BY ServerConstants DEF Functors, F
<1>3. Typed /\ Typed' /\ Moved(W, W', NoLoop, Base, f)
  <2>1. Typed
    BY DEF TypeOK, Typed
  <2> QED
    BY <1>1, <1>2, <2>1, TheLoops, Pushed
<1>4. TypeOK'
  BY <1>1, <1>3 DEF TypeOK, Typed
<1>5. LoopInv' /\ Live' = Live
  BY <1>1, LoopsKept
<1> HIDE DEF f
<1>6. Fits(f, Base)'
  BY <1>2 DEF Fits
<1>7. \A g, l : Rest(g, l, NoLoop) => Fits(g, l)'
  <2> TAKE g, l
  <2> HAVE Rest(g, l, NoLoop)
  <2>1. Fits(g, l)
    BY <1>3, RestFits
  <2> QED
    BY <1>1, <2>1, FitsKept DEF Fits
<1>8. \A g, l : Rest(g, l, NoLoop) => ~Same(g, f)
  BY <1>2 DEF Same
<1>9. \A g, l : Rest(g, l, NoLoop) /\ g.op = "delete" => f.conn # g.conn
  BY <1>2, <1>3, RestFits DEF Fits
<1>10. FitInv' /\ Unique(W, Live)' /\ DeleteLast(W, Live)'
  BY <1>3, <1>5, <1>6, <1>7, <1>8, <1>9, Stepped
<1>11. OwnInv'
  BY <1>1, <1>2, <1>3, TheLoops, OwnKept
<1>12. ConnInv'
  BY <1>1 DEF ConnInv
<1> QED
  BY <1>4, <1>5, <1>10, <1>11, <1>12

\* A connection is accepted.
LEMMA Accepts ==
  ASSUME IInv, HandleAccept
  PROVE  IInv'
<1> USE DEF IInv
<1>1. PICK c \in Conns : state[c] = "none" /\ NewConnection(c, IF NumLoops = 0 THEN Base ELSE nextLoop)
  BY DEF HandleAccept
<1>2. UNCHANGED <<started, listening, destructor, stopped, fired, quit, phase, ready, batch, destroyed, asked, closed>>
  BY DEF HandleAccept, history
<1>3. PICK l : l = IF NumLoops = 0 THEN Base ELSE nextLoop
  OBVIOUS
<1>4. l \in Loops
  BY <1>3, TheLoops, ServerConstants DEF TypeOK, Loops, Base
<1> DEFINE f == F("established", c)
<1>5. /\ loopOf' = [loopOf EXCEPT ![c] = l] /\ state' = [state EXCEPT ![c] = "connecting"]
      /\ connections' = connections \cup {c}
      /\ nextLoop' = IF NumLoops = 0 THEN nextLoop ELSE NextIndex
      /\ Queue(l, <<f>>)
  BY <1>1, <1>3 DEF NewConnection
<1>6. f \in Functors /\ f.op = "established" /\ f.conn = c /\ c # 0
  BY ServerConstants DEF Functors, F, Conns
<1>7. Typed /\ Typed' /\ Moved(W, W', NoLoop, l, f)
  <2>1. Typed
    BY DEF TypeOK, Typed
  <2> QED
    BY <1>2, <1>4, <1>5, <1>6, <2>1, Pushed
<1>8. TypeOK'
  <2>1. nextLoop' \in 1..NumLoops \cup {1}
    BY <1>5, ServerConstants DEF TypeOK, NextIndex
  <2>2. loopOf' \in [Conns -> Loops] /\ state' \in [Conns -> States] /\ connections' \subseteq Conns
    BY <1>4, <1>5 DEF TypeOK, States
  <2> QED
    BY <1>2, <1>7, <2>1, <2>2 DEF TypeOK, Typed
<1>9. LoopInv' /\ Live' = Live
  BY <1>2, LoopsKept
<1> HIDE DEF f
<1>10. \A g, k : Rest(g, k, NoLoop) => Fits(g, k) /\ g.conn # c /\ Fits(g, k)'
  <2> TAKE g, k
  <2> HAVE Rest(g, k, NoLoop)
  <2>1. Fits(g, k) /\ g \in Functors
    BY <1>7, RestFits
  <2>2. g.conn # c
    BY <1>1, <1>6, <2>1 DEF Fits, Functors
  <2>3. g.conn # 0 => state'[g.conn] = state[g.conn] /\ loopOf'[g.conn] = loopOf[g.conn]
    BY <1>5, <2>2 DEF TypeOK
  <2>4. g.op = "deleteInLoop" => g.conn \in connections'
    BY <1>5, <2>1 DEF Fits
  <2> QED
    BY <1>2, <2>1, <2>2, <2>3, <2>4, FitsKept
<1>11. Fits(f, l)'
  BY <1>4, <1>5, <1>6 DEF Fits, TypeOK
<1>12. \A g, k : Rest(g, k, NoLoop) => ~Same(g, f)
  BY <1>6, <1>10 DEF Same
<1>13. \A g : Rest(g, l, NoLoop) /\ g.op = "delete" => f.conn # g.conn
  BY <1>6, <1>10
<1>14. FitInv' /\ Unique(W, Live)' /\ DeleteLast(W, Live)'
  BY <1>7, <1>9, <1>10, <1>11, <1>12, <1>13, Stepped
<1>15. OwnInv'
  <2>1. ASSUME NEW d \in Conns
        PROVE  (AtMostOne(W, d) => AtMostOne(W', d)) /\ (NoDelete(W, d) <=> NoDelete(W', d))
    <3>1. f # F("delete", d)
      BY <1>6 DEF F
    <3> QED
      BY <1>7, <3>1, TheLoops, DeletionsKept
  <2>2. ASSUME NEW d \in Conns
        PROVE  /\ AtMostOne(W', d)
               /\ d \in connections' => NoDelete(W', d)
               /\ state'[d] \in {"none", "freed"} => d \notin connections' /\ NoDelete(W', d)
               /\ state'[d] \notin {"none", "freed"} => d \in connections' \/ ~NoDelete(W', d)
    <3>1. CASE d = c
      BY <1>1, <1>5, <2>1, <3>1 DEF OwnInv, TypeOK
    <3>2. CASE d # c
      BY <1>5, <2>1, <3>2 DEF OwnInv, TypeOK
    <3> QED
      BY <3>1, <3>2
  <2> QED
    BY <2>2 DEF OwnInv, AtMostOne, NoDelete
<1>16. ConnInv'
  BY <1>1, <1>2, <1>5 DEF ConnInv, TypeOK
<1> QED
  BY <1>8, <1>9, <1>14, <1>15, <1>16

\* While the server's loop lives no deletion waits for a connection that is not disconnected.
LEMMA NoDeletionYet ==
  ASSUME Typed, FitInv, LoopInv, Base \in Live, NEW c, state[c] # "disconnected",
         NEW g, NEW l, NEW l0, Rest(g, l, l0), g.op = "delete"
  PROVE  g.conn # c
BY RestFits, BaseLives DEF Fits

\* A user closes the connection in a handler.
LEMMA Closes ==
  ASSUME IInv, NEW c \in Conns, Close(c)
  PROVE  IInv'
<1> USE DEF IInv
<1> DEFINE f == F("close", c)
<1> PICK l : l = loopOf[c]
  OBVIOUS
<1>1. /\ c \in UserCloses /\ c \notin closed /\ state[c] \in {"connected", "disconnecting"}
      /\ destructor = "none" /\ closed' = closed \cup {c} /\ Queue(l, <<f>>)
      /\ UNCHANGED <<started, listening, nextLoop, connections, loopOf, destructor, stopped, state, fired, quit,
                     phase, ready, batch, destroyed, asked>>
  BY DEF Close, server
<1>2. state[c] = "connected" /\ l \in Loops
  BY <1>1 DEF ConnInv, TypeOK
<1>3. f \in Functors /\ f.op = "close" /\ f.conn = c /\ c # 0
  BY ServerConstants DEF Functors, F, Conns
<1>4. Typed /\ Typed' /\ Moved(W, W', NoLoop, l, f)
  <2>1. Typed
    BY DEF TypeOK, Typed
  <2> QED
    BY <1>1, <1>2, <1>3, <2>1, Pushed
<1>5. TypeOK'
  BY <1>1, <1>4 DEF TypeOK, Typed
<1>6. LoopInv' /\ Live' = Live
  BY <1>1, LoopsKept
<1> HIDE DEF f
<1>7. \A g, k : Rest(g, k, NoLoop) => Fits(g, k) /\ Fits(g, k)'
  <2> TAKE g, k
  <2> HAVE Rest(g, k, NoLoop)
  <2>1. Fits(g, k)
    BY <1>4, RestFits
  <2> QED
    BY <1>1, <2>1, FitsKept DEF Fits
<1>8. Fits(f, l)'
  BY <1>1, <1>2, <1>3 DEF Fits
<1>9. \A g, k : Rest(g, k, NoLoop) => ~Same(g, f)
  BY <1>1, <1>3, <1>7 DEF Same, Kind, Fits
<1>10. \A g : Rest(g, l, NoLoop) /\ g.op = "delete" => f.conn # g.conn
  BY <1>1, <1>2, <1>3, <1>7 DEF Fits
<1>11. FitInv' /\ Unique(W, Live)' /\ DeleteLast(W, Live)'
  BY <1>4, <1>6, <1>7, <1>8, <1>9, <1>10, Stepped
<1>12. OwnInv'
  BY <1>1, <1>3, <1>4, TheLoops, OwnKept
<1>13. ConnInv'
  BY <1>1 DEF ConnInv
<1> QED
  BY <1>5, <1>6, <1>11, <1>12, <1>13

\* A connected connection starts to disconnect and the server's loop is asked for it.
LEMMA Disconnecting ==
  ASSUME Typed, TypeOK, FitInv, Unique(W, Live), DeleteLast(W, Live), OwnInv, LoopInv,
         NEW c \in Conns, state[c] = "connected", state' = [state EXCEPT ![c] = "disconnecting"],
         NEW l0, NEW f, f = F("closeInLoop", c), Moved(W, W', l0, Base, f),
         UNCHANGED <<loopOf, connections, destructor, phase, asked, closed>>,
         l0 \in Loops => W[l0][1].op # "delete",
         \A g, k : Rest(g, k, l0) => ~(g.op = "close" /\ g.conn = c)
  PROVE  FitInv' /\ Unique(W, Live)' /\ DeleteLast(W, Live)' /\ OwnInv'
<1>1. f.op = "closeInLoop" /\ f.conn = c /\ c # 0 /\ Live' = Live
  BY ServerConstants DEF F, Conns, Live
<1>2. \A g, k : Rest(g, k, l0) => Fits(g, k) /\ Fits(g, k)'
  <2> TAKE g, k
  <2> HAVE Rest(g, k, l0)
  <2>1. Fits(g, k) /\ ~(g.op = "close" /\ g.conn = c) /\ g \in Functors
    BY RestFits
  <2>2. CASE g.conn = c
    <3>1. g.op = "delete"
      BY <1>1, <2>1, <2>2 DEF Fits, Functors
    <3> QED
      BY <2>1, <2>2, <3>1 DEF Fits, TypeOK
  <2>3. CASE g.conn # c
    BY <2>1, <2>3, FitsKept DEF Fits, TypeOK
  <2> QED
    BY <2>1, <2>2, <2>3
<1>3. Fits(f, Base)'
  BY <1>1 DEF Fits, TypeOK
<1>4. \A g, k : Rest(g, k, l0) => ~Same(g, f)
  <2> TAKE g, k
  <2> HAVE Rest(g, k, l0)
  <2> QED
    BY <1>1, <1>2 DEF Same, Kind, Fits
<1>5. Base \in Live => \A g : Rest(g, Base, l0) /\ g.op = "delete" => f.conn # g.conn
  BY <1>1, NoDeletionYet
<1>6. FitInv' /\ Unique(W, Live)' /\ DeleteLast(W, Live)'
  BY <1>1, <1>2, <1>3, <1>4, <1>5, Stepped
<1>7. OwnInv'
  BY <1>1, OwnKept DEF TypeOK
<1> QED
  BY <1>6, <1>7

\* Under ClosedByOne a connection's events close it at most once, and only when its peer may.
LEMMA ClosedAtMostOnce ==
  ASSUME ClosedByOne, NEW c \in Conns, NEW events, events \subseteq SocketEvents,
         "close" \in events => c \in PeerCloses, NEW ended \in {FALSE, (c \in PeerCloses)}
  PROVE  /\ Closings(events, ended) \in {0, 1}
         /\ Closings(events, ended) = 1 => c \in PeerCloses /\ events # {}
<1>1. events \cap {"close", "error"} = IF "close" \in events THEN {"close"} ELSE {}
  BY DEF ClosedByOne
<1>2. Cardinality({}) = 0 /\ Cardinality({"close"}) = 1
  BY FS_EmptySet, FS_Singleton
<1>3. CASE "close" \in events
  <2>1. Closings(events, ended) = 1
    BY <1>1, <1>2, <1>3 DEF Closings
  <2> QED
    BY <1>3, <2>1
<1>4. CASE "close" \notin events
  <2>1. Closings(events, ended) = IF "read" \in events /\ ended THEN 1 ELSE 0
    BY <1>1, <1>2, <1>4 DEF Closings
  <2>2. ended => c \in PeerCloses
    BY Zenon
  <2>3. CASE "read" \in events /\ ended
    <3>1. Closings(events, ended) = 1
      BY <2>1, <2>3
    <3> QED
      BY <2>2, <2>3, <3>1
  <2>4. CASE ~("read" \in events /\ ended)
    <3>1. Closings(events, ended) = 0
      BY <2>1, <2>4
    <3> QED
      BY <3>1
  <2> QED
    BY <2>3, <2>4
<1> QED
  BY <1>3, <1>4

\* A ready connection's events are handled.
LEMMA Handles ==
  ASSUME ClosedByOne, IInv, NEW l \in Loops, NEW c \in Conns, HandleEvent(l, c)
  PROVE  IInv'
<1> USE DEF IInv
<1>1. PICK ended \in {FALSE, (c \in PeerCloses)} : HandleClose(c, Closings(fired[c], ended))
  BY DEF HandleEvent
<1>2. PICK n : n = Closings(fired[c], ended)
  OBVIOUS
<1> DEFINE f == F("closeInLoop", c)
<1>3. /\ state' = [state EXCEPT ![c] = IF n > 0 THEN "disconnecting" ELSE @]
      /\ Queue(Base, [i \in 1..n |-> f])
  BY <1>1, <1>2 DEF HandleClose
<1>4. /\ ready' = [ready EXCEPT ![l] = @ \ {c}] /\ fired' = [fired EXCEPT ![c] = {}]
      /\ UNCHANGED <<started, listening, nextLoop, connections, loopOf, destructor, stopped, quit, phase, batch,
                     destroyed, asked, closed>>
  BY DEF HandleEvent, Handled, server, history
<1>5. n \in {0, 1} /\ (n = 1 => c \in PeerCloses /\ fired[c] # {})
  <2>1. fired[c] \subseteq SocketEvents /\ ("close" \in fired[c] => c \in PeerCloses)
    BY DEF TypeOK, ConnInv
  <2> QED
    BY <1>2, <2>1, ClosedAtMostOnce
<1>6. LoopInv' /\ Live' = Live
  BY <1>4, LoopsKept
<1>7. ready' \in [Loops -> SUBSET Conns] /\ fired' \in [Conns -> SUBSET SocketEvents]
  BY <1>4 DEF TypeOK
<1>8. Typed
  BY DEF TypeOK, Typed
<1>9. CASE n = 0
  <2>1. state' = state
    BY <1>3, <1>9 DEF TypeOK
  <2>2. queue' = queue
    <3>1. [i \in 1..n |-> f] = <<>>
      BY <1>9
    <3>2. queue[Base] \in Seq(Functors)
      BY <1>8, TheLoops DEF Typed
    <3>3. queue[Base] \o <<>> = queue[Base]
      BY <3>2, ConcatEmptySeq
    <3>4. queue' = [queue EXCEPT ![Base] = queue[Base]]
      BY <1>3, <3>1, <3>3 DEF Queue
    <3> QED
      BY <1>8, <3>4 DEF Typed
  <2>3. W' = W
    BY <1>4, <2>2 DEF W, Waiting
  <2>4. TypeOK'
    BY <1>4, <1>7, <2>1, <2>2 DEF TypeOK
  <2>5. FitInv' /\ Unique(W, Live)' /\ DeleteLast(W, Live)' /\ OwnInv'
    BY <1>4, <1>6, <1>8, <2>1, <2>3, StandsStill
  <2>6. ConnInv'
    BY <1>4, <2>1 DEF ConnInv, TypeOK
  <2> QED
    BY <1>6, <2>4, <2>5, <2>6
<1>10. CASE n = 1
  <2>1. state' = [state EXCEPT ![c] = "disconnecting"]
    BY <1>3, <1>10
  <2>2. Queue(Base, <<f>>)
    <3>1. [i \in 1..n |-> f] = <<f>>
      BY <1>10
    <3> QED
      BY <1>3, <3>1
  <2>3. c \in PeerCloses /\ c \notin UserCloses /\ state[c] = "connected" /\ c \notin closed
    BY <1>5, <1>10 DEF ConnInv, ClosedByOne
  <2>4. f \in Functors /\ f.op = "closeInLoop"
    BY DEF Functors, F, Conns
  <2>5. Typed' /\ Moved(W, W', NoLoop, Base, f)
    BY <1>4, <1>8, <2>2, <2>4, TheLoops, Pushed
  <2>6. TypeOK'
    BY <1>4, <1>7, <2>1, <2>5 DEF TypeOK, Typed, States
  <2>7. \A g, k : Rest(g, k, NoLoop) => ~(g.op = "close" /\ g.conn = c)
    BY <1>8, <2>3, RestFits DEF Fits
  <2>8. FitInv' /\ Unique(W, Live)' /\ DeleteLast(W, Live)' /\ OwnInv'
    BY <1>4, <1>8, <2>1, <2>3, <2>5, <2>7, TheLoops, Disconnecting
  <2>9. ConnInv'
    BY <1>4, <2>1, <2>3 DEF ConnInv, TypeOK
  <2> QED
    BY <1>6, <2>6, <2>8, <2>9
<1> QED
  BY <1>5, <1>9, <1>10

\* The destructor queues the deletion of a connection of the map.
LEMMA Deletes ==
  ASSUME IInv, DestroyConnection
  PROVE  IInv'
<1> USE DEF IInv
<1>1. PICK c \in connections : Queue(loopOf[c], <<F("delete", c)>>) /\ connections' = connections \ {c}
  BY DEF DestroyConnection
<1> DEFINE f == F("delete", c)
<1>2. PICK l : l = loopOf[c]
  OBVIOUS
<1>3. /\ c \in Conns /\ l \in Loops
  BY <1>2 DEF TypeOK
<1>4. /\ destructor = "deleting"
      /\ UNCHANGED <<started, listening, nextLoop, loopOf, destructor, stopped, state, fired, quit, phase,
                     ready, batch, destroyed, asked, closed>>
  BY DEF DestroyConnection, history
<1>5. f \in Functors /\ f.op = "delete" /\ f.conn = c /\ c # 0
  BY <1>3, ServerConstants DEF Functors, F, Conns
<1>6. Typed /\ Typed' /\ Moved(W, W', NoLoop, l, f)
  <2>1. Typed
    BY DEF TypeOK, Typed
  <2> QED
    BY <1>1, <1>2, <1>3, <1>4, <1>5, <2>1, Pushed
<1>7. TypeOK'
  BY <1>1, <1>4, <1>6 DEF TypeOK, Typed
<1>8. LoopInv' /\ Live' = Live /\ Base \notin Live
  BY <1>4, LoopsKept DEF LoopInv, Live
<1>9. NoDelete(W, c) /\ state[c] \notin {"none", "freed"}
  BY <1>3 DEF OwnInv
<1> HIDE DEF f
<1>10. \A g, k : Rest(g, k, NoLoop) => Fits(g, k) /\ Fits(g, k)'
  <2> TAKE g, k
  <2> HAVE Rest(g, k, NoLoop)
  <2>1. Fits(g, k) /\ k \in Live
    BY <1>6, RestFits
  <2>2. g.op # "deleteInLoop"
    BY <1>8, <2>1 DEF Fits
  <2> QED
    BY <1>4, <2>1, <2>2, FitsKept
<1>11. Fits(f, l)'
  BY <1>2, <1>4, <1>5, <1>9 DEF Fits
<1>12. \A g, k : Rest(g, k, NoLoop) /\ g.op = "delete" => g.conn # c
  BY <1>6, <1>9, RestNoDelete
<1>13. \A g, k : Rest(g, k, NoLoop) => ~Same(g, f)
  BY <1>5, <1>12 DEF Same, Kind
<1>14. \A g : Rest(g, l, NoLoop) /\ g.op = "delete" => f.conn # g.conn
  BY <1>5, <1>12
<1>15. FitInv' /\ Unique(W, Live)' /\ DeleteLast(W, Live)'
  BY <1>6, <1>8, <1>10, <1>11, <1>13, <1>14, Stepped
<1>16. OwnInv'
  <2>1. AtMostOne(W', c) /\ ~NoDelete(W', c)
    BY <1>3, <1>6, <1>9, DeletionCome DEF f
  <2>2. ASSUME NEW d \in Conns, d # c
        PROVE  (AtMostOne(W, d) => AtMostOne(W', d)) /\ (NoDelete(W, d) <=> NoDelete(W', d))
    <3>1. f # F("delete", d)
      BY <1>5, <2>2 DEF F
    <3> QED
      BY <1>6, <3>1, TheLoops, DeletionsKept
  <2>3. ASSUME NEW d \in Conns
        PROVE  /\ AtMostOne(W', d)
               /\ d \in connections' => NoDelete(W', d)
               /\ state'[d] \in {"none", "freed"} => d \notin connections' /\ NoDelete(W', d)
               /\ state'[d] \notin {"none", "freed"} => d \in connections' \/ ~NoDelete(W', d)
    <3>1. CASE d = c
      BY <1>1, <1>4, <1>9, <2>1, <3>1
    <3>2. CASE d # c
      BY <1>1, <1>4, <2>2, <3>2 DEF OwnInv
    <3> QED
      BY <3>1, <3>2
  <2> QED
    BY <2>3 DEF OwnInv, AtMostOne, NoDelete
<1>17. ConnInv'
  BY <1>4 DEF ConnInv
<1> QED
  BY <1>7, <1>8, <1>15, <1>16, <1>17

-----------------------------------------------------------------------------
(* The functors.                                                            *)

\* The functor that runs, the loop it runs in, and the others that wait.
LEMMA Runs ==
  ASSUME IInv, NEW l \in Loops, RunFunctor(l), NEW h, h = Head(batch[l])
  PROVE  /\ Typed /\ l \in Live /\ batch[l] # <<>> /\ batch' = [batch EXCEPT ![l] = Tail(@)]
         /\ UNCHANGED <<started, nextLoop, loopOf, destructor, stopped, quit, phase, ready>>
         /\ W[l][1] = h /\ 1 \in 1..Len(W[l]) /\ h \in Functors /\ Fits(h, l)
         /\ LoopInv' /\ Live' = Live
         /\ \A g, k : Rest(g, k, l) => /\ k \in Live /\ k \in Loops /\ g \in Functors /\ Fits(g, k)
                                       /\ ~Same(g, h)
                                       /\ h.op = "delete" /\ k = l => g.conn # h.conn
<1> USE DEF IInv
<1>1. /\ phase[l] = "batch" /\ batch[l] # <<>> /\ batch' = [batch EXCEPT ![l] = Tail(@)]
      /\ UNCHANGED <<started, nextLoop, loopOf, destructor, stopped, quit, phase, ready>>
  BY DEF RunFunctor
<1>2. Typed /\ l \in Live
  BY <1>1 DEF TypeOK, Typed, Live
<1>3. W[l] = batch[l] \o queue[l] /\ batch[l] \in Seq(Functors) /\ queue[l] \in Seq(Functors)
      /\ Len(W[l]) \in Nat
  BY <1>2, WaitsAre DEF Typed
<1>4. W[l][1] = h /\ Len(W[l]) \in Nat \ {0}
  <2> DEFINE b == batch[l]
             q == queue[l]
  <2>1. b \in Seq(Functors) /\ q \in Seq(Functors) /\ b # <<>> /\ W[l] = b \o q /\ h = Head(b)
    BY <1>1, <1>3
  <2> HIDE DEF b, q
  <2>2. Len(b \o q) \in Nat \ {0} /\ (b \o q)[1] = Head(b)
    BY <2>1, TailOfBoth
  <2> QED
    BY <2>1, <2>2, Zenon
<1>5. 1 \in 1..Len(W[l])
  <2> DEFINE n == Len(W[l])
  <2>1. n \in Nat \ {0}
    BY <1>4
  <2> HIDE DEF n
  <2>2. 1 \in 1..n
    BY <2>1
  <2> QED
    BY <2>2 DEF n
<1>6. h \in Functors /\ Fits(h, l)
  BY <1>2, <1>4, <1>5, WaitsAre DEF FitInv
<1>7. LoopInv' /\ Live' = Live
  BY <1>1, LoopsKept DEF TypeOK
<1>8. ASSUME NEW g, NEW k, Rest(g, k, l)
      PROVE  /\ k \in Live /\ k \in Loops /\ g \in Functors /\ Fits(g, k)
             /\ ~Same(g, h) /\ (h.op = "delete" /\ k = l => g.conn # h.conn)
  BY <1>2, <1>4, <1>5, <1>8, RestFits, RestDiffers
<1> QED
  BY <1>1, <1>2, <1>4, <1>5, <1>6, <1>7, <1>8

\* listen.
LEMMA RunsListen ==
  ASSUME IInv, NEW l \in Loops, RunFunctor(l), Head(batch[l]).op = "listen", Listen
  PROVE  IInv'
<1> USE DEF IInv
<1> PICK h : h = Head(batch[l])
  OBVIOUS
<1>1. listening' = TRUE /\ UNCHANGED <<connections, state, fired, queue, destroyed, asked, closed>>
  BY DEF Listen, history
<1>2. h.op = "listen"
  OBVIOUS
<1>3. Typed' /\ Moved(W, W', l, NoLoop, h)
  BY <1>1, Runs, Popped
<1>4. UNCHANGED <<started, nextLoop, loopOf, destructor, stopped, quit, phase, ready>> /\ LoopInv' /\ Live' = Live
      /\ Typed /\ W[l][1] = h
  BY Runs
<1>5. TypeOK'
  BY <1>1, <1>3, <1>4 DEF TypeOK, Typed
<1>6. NoLoop \notin Live' /\ NoLoop \notin Loops
  BY TheLoops DEF Live
<1>7. \A g, k : Rest(g, k, l) => Fits(g, k)'
  <2> TAKE g, k
  <2> HAVE Rest(g, k, l)
  <2>1. Fits(g, k)
    BY Runs
  <2> QED
    BY <1>1, <1>4, <2>1, FitsKept DEF Fits
<1>8. FitInv' /\ Unique(W, Live)' /\ DeleteLast(W, Live)'
  BY <1>3, <1>4, <1>6, <1>7, Stepped
<1>9. OwnInv'
  BY <1>1, <1>2, <1>3, <1>4, <1>6, OwnKept
<1>10. ConnInv'
  BY <1>1 DEF ConnInv
<1> QED
  BY <1>4, <1>5, <1>8, <1>9, <1>10

\* connectEstablished.
LEMMA RunsEstablished ==
  ASSUME IInv, NEW l \in Loops, RunFunctor(l), NEW c, c = Head(batch[l]).conn,
         Head(batch[l]).op = "established", ConnectEstablished(c)
  PROVE  IInv'
<1> USE DEF IInv
<1> PICK h : h = Head(batch[l])
  OBVIOUS
<1>1. /\ state[c] = "connecting" /\ state' = [state EXCEPT ![c] = "connected"]
      /\ UNCHANGED <<listening, connections, fired, queue, destroyed, asked, closed>>
  BY DEF ConnectEstablished, history
<1>2. h.op = "established" /\ h.conn = c
  OBVIOUS
<1>3. Typed' /\ Moved(W, W', l, NoLoop, h)
  BY <1>1, Runs, Popped
<1>4. UNCHANGED <<started, nextLoop, loopOf, destructor, stopped, quit, phase, ready>> /\ LoopInv' /\ Live' = Live
      /\ Typed /\ W[l][1] = h /\ h \in Functors /\ Fits(h, l)
  BY Runs
<1>5. c \in Conns /\ c # 0
  BY <1>2, <1>4, ServerConstants DEF Fits, Functors, Conns
<1>6. TypeOK'
  BY <1>1, <1>3, <1>4 DEF TypeOK, Typed, States
<1>7. NoLoop \notin Live' /\ NoLoop \notin Loops
  BY TheLoops DEF Live
<1>8. \A g, k : Rest(g, k, l) => Fits(g, k)'
  <2> TAKE g, k
  <2> HAVE Rest(g, k, l)
  <2>1. Fits(g, k) /\ g \in Functors /\ ~Same(g, h)
    BY Runs
  <2>2. CASE g.conn = c
    <3>1. g.op = "delete"
      BY <1>1, <1>2, <1>5, <2>1, <2>2 DEF Fits, Functors, Same, Kind
    <3> QED
      BY <1>1, <1>4, <1>5, <2>1, <2>2, <3>1 DEF Fits, TypeOK
  <2>3. CASE g.conn # c
    BY <1>1, <1>4, <2>1, <2>3, FitsKept DEF Fits, TypeOK
  <2> QED
    BY <2>2, <2>3
<1>9. FitInv' /\ Unique(W, Live)' /\ DeleteLast(W, Live)'
  BY <1>3, <1>4, <1>7, <1>8, Stepped
<1>10. OwnInv'
  BY <1>1, <1>2, <1>3, <1>4, <1>5, <1>7, OwnKept DEF TypeOK
<1>11. ConnInv'
  BY <1>1, <1>5 DEF ConnInv, TypeOK
<1> QED
  BY <1>4, <1>6, <1>9, <1>10, <1>11

\* close.
LEMMA RunsClose ==
  ASSUME ClosedByOne, IInv, NEW l \in Loops, RunFunctor(l), NEW c, c = Head(batch[l]).conn,
         Head(batch[l]).op = "close", HandleClose(c, 1),
         UNCHANGED <<listening, connections, fired, history>>
  PROVE  IInv'
<1> USE DEF IInv
<1> PICK h : h = Head(batch[l])
  OBVIOUS
<1> DEFINE f == F("closeInLoop", c)
<1>1. /\ state' = [state EXCEPT ![c] = "disconnecting"] /\ Queue(Base, <<f>>)
      /\ UNCHANGED <<listening, connections, fired, destroyed, asked, closed>>
  <2>1. [i \in 1..1 |-> f] = <<f>>
    OBVIOUS
  <2> QED
    BY <2>1 DEF HandleClose, history
<1>2. h.op = "close" /\ h.conn = c
  OBVIOUS
<1>3. UNCHANGED <<started, nextLoop, loopOf, destructor, stopped, quit, phase, ready>> /\ LoopInv' /\ Live' = Live
      /\ Typed /\ W[l][1] = h /\ h \in Functors /\ Fits(h, l)
  BY Runs
<1>4. c \in Conns /\ c # 0 /\ state[c] = "connected" /\ c \in closed /\ c \in UserCloses
  BY <1>2, <1>3, ServerConstants DEF Fits, Functors, Conns, ConnInv
<1>5. f \in Functors
  BY <1>4 DEF Functors, F, Conns
<1>6. Typed' /\ Moved(W, W', l, Base, f)
  <2>1. Typed /\ batch[l] # <<>> /\ batch' = [batch EXCEPT ![l] = Tail(@)]
    BY Runs
  <2>2. Base \in Loops /\ f \in Functors /\ Queue(Base, <<f>>)
    BY <1>1, <1>5, TheLoops
  <2> HIDE DEF f
  <2> QED
    BY <2>1, <2>2, Popped
<1>7. TypeOK'
  BY <1>1, <1>3, <1>6 DEF TypeOK, Typed, States
<1>8. \A g, k : Rest(g, k, l) => ~(g.op = "close" /\ g.conn = c)
  <2> TAKE g, k
  <2> HAVE Rest(g, k, l)
  <2>1. ~Same(g, h)
    BY Runs
  <2> QED
    BY <1>2, <1>4, <2>1 DEF Same, Kind
<1>9. FitInv' /\ Unique(W, Live)' /\ DeleteLast(W, Live)' /\ OwnInv'
  BY <1>1, <1>2, <1>3, <1>4, <1>6, <1>8, Disconnecting
<1>10. ConnInv'
  BY <1>1, <1>4 DEF ConnInv, TypeOK
<1> QED
  BY <1>3, <1>7, <1>9, <1>10

\* closeConnectionInLoop.
LEMMA RunsCloseInLoop ==
  ASSUME IInv, NEW l \in Loops, RunFunctor(l), NEW c, c = Head(batch[l]).conn,
         Head(batch[l]).op = "closeInLoop", CloseInLoop(c)
  PROVE  IInv'
<1> USE DEF IInv
<1> PICK h : h = Head(batch[l])
  OBVIOUS
<1> PICK m : m = loopOf[c]
  OBVIOUS
<1> DEFINE f == F("destroyed", c)
<1>1. /\ Queue(m, <<f>>)
      /\ UNCHANGED <<listening, connections, state, fired, destroyed, asked, closed>>
  BY DEF CloseInLoop, history
<1>2. h.op = "closeInLoop" /\ h.conn = c
  OBVIOUS
<1>3. UNCHANGED <<started, nextLoop, loopOf, destructor, stopped, quit, phase, ready>> /\ LoopInv' /\ Live' = Live
      /\ Typed /\ W[l][1] = h /\ h \in Functors /\ Fits(h, l) /\ l \in Live
  BY Runs
<1>4. c \in Conns /\ c # 0 /\ state[c] = "disconnecting" /\ l = Base
  BY <1>2, <1>3, ServerConstants DEF Fits, Functors, Conns
<1>5. f \in Functors /\ m \in Loops /\ f.op = "destroyed" /\ f.conn = c
  BY <1>4 DEF Functors, F, Conns, TypeOK
<1>6. Typed' /\ Moved(W, W', l, m, f)
  <2>1. Typed /\ batch[l] # <<>> /\ batch' = [batch EXCEPT ![l] = Tail(@)]
    BY Runs
  <2>2. m \in Loops /\ f \in Functors /\ Queue(m, <<f>>)
    BY <1>1, <1>5
  <2> HIDE DEF f
  <2> QED
    BY <2>1, <2>2, Popped
<1>7. TypeOK'
  BY <1>1, <1>3, <1>6 DEF TypeOK, Typed
<1> HIDE DEF f
<1>8. Fits(f, m)'
  BY <1>1, <1>3, <1>4, <1>5 DEF Fits
<1>9. \A g, k : Rest(g, k, l) => Fits(g, k)' /\ ~Same(g, f)
  <2> TAKE g, k
  <2> HAVE Rest(g, k, l)
  <2>1. Fits(g, k) /\ ~Same(g, h)
    BY Runs
  <2>2. ~Same(g, f)
    BY <1>2, <1>5, <2>1 DEF Same, Kind
  <2>3. Fits(g, k)'
    BY <1>1, <1>3, <2>1, FitsKept DEF Fits
  <2> QED
    BY <2>2, <2>3
<1>10. \A g, k : Rest(g, k, l) /\ g.op = "delete" => f.conn # g.conn
  BY <1>3, <1>4, <1>5, NoDeletionYet
<1>11. FitInv' /\ Unique(W, Live)' /\ DeleteLast(W, Live)'
  BY <1>3, <1>6, <1>8, <1>9, <1>10, Stepped
<1>12. OwnInv'
  BY <1>1, <1>2, <1>3, <1>5, <1>6, OwnKept
<1>13. ConnInv'
  BY <1>1 DEF ConnInv
<1> QED
  BY <1>3, <1>7, <1>11, <1>12, <1>13

\* connectDestroyed, and the user's callback.
LEMMA RunsDestroyed ==
  ASSUME IInv, NEW l \in Loops, RunFunctor(l), NEW c, c = Head(batch[l]).conn,
         Head(batch[l]).op = "destroyed", ConnectDestroyed(c)
  PROVE  IInv'
<1> USE DEF IInv
<1> PICK h : h = Head(batch[l])
  OBVIOUS
<1> DEFINE f == F("deleteInLoop", c)
<1>1. /\ state' = [state EXCEPT ![c] = "disconnected"] /\ fired' = [fired EXCEPT ![c] = {}]
      /\ destroyed' = [destroyed EXCEPT ![c] = @ + 1]
      /\ UNCHANGED <<listening, connections, closed>>
      /\ \/ asked' = asked /\ queue' = queue
         \/ asked' = asked \cup {c} /\ Queue(Base, <<f>>)
  BY DEF ConnectDestroyed
<1>2. h.op = "destroyed" /\ h.conn = c
  OBVIOUS
<1>3. UNCHANGED <<started, nextLoop, loopOf, destructor, stopped, quit, phase, ready>> /\ LoopInv' /\ Live' = Live
      /\ Typed /\ W[l][1] = h /\ h \in Functors /\ Fits(h, l) /\ l \in Live
  BY Runs
<1>4. c \in Conns /\ c # 0 /\ state[c] = "disconnecting" /\ destroyed[c] = 0
  BY <1>2, <1>3, ServerConstants DEF Fits, Functors, Conns, ConnInv
<1>5. f \in Functors /\ f.op = "deleteInLoop" /\ f.conn = c
  BY <1>4 DEF Functors, F, Conns
<1>6. PICK m : (m = NoLoop /\ asked' = asked /\ queue' = queue)
               \/ (m = Base /\ asked' = asked \cup {c} /\ Queue(Base, <<f>>))
  BY <1>1
<1>7. Typed' /\ Moved(W, W', l, m, f)
  <2>1. Typed /\ batch[l] # <<>> /\ batch' = [batch EXCEPT ![l] = Tail(@)]
    BY Runs
  <2>2. \/ m = NoLoop /\ queue' = queue
        \/ m \in Loops /\ f \in Functors /\ Queue(m, <<f>>)
    BY <1>5, <1>6, TheLoops
  <2> HIDE DEF f
  <2> QED
    BY <2>1, <2>2, Popped
<1>8. asked \subseteq asked' /\ asked' \subseteq Conns /\ (m = Base => c \in asked')
  BY <1>4, <1>6, TheLoops DEF TypeOK
<1>9. TypeOK'
  <2>1. destroyed' \in [Conns -> 0..2] /\ state' \in [Conns -> States]
        /\ fired' \in [Conns -> SUBSET SocketEvents]
    BY <1>1, <1>4 DEF TypeOK, States
  <2> QED
    BY <1>1, <1>3, <1>7, <1>8, <2>1 DEF TypeOK, Typed
<1> HIDE DEF f
<1>10. \A g, k : Rest(g, k, l) => Fits(g, k)' /\ ~Same(g, f)
  <2> TAKE g, k
  <2> HAVE Rest(g, k, l)
  <2>1. Fits(g, k) /\ g \in Functors /\ ~Same(g, h)
    BY Runs
  <2>2. CASE g.conn = c
    <3>1. g.op = "delete"
      BY <1>2, <1>4, <2>1, <2>2 DEF Fits, Functors, Same, Kind
    <3>2. Fits(g, k)'
      BY <1>1, <1>3, <1>4, <2>1, <2>2, <3>1 DEF Fits, TypeOK
    <3> QED
      BY <1>5, <3>1, <3>2 DEF Same, Kind
  <2>3. CASE g.conn # c
    BY <1>1, <1>3, <1>5, <1>8, <2>1, <2>3, FitsKept DEF Fits, TypeOK, Same
  <2> QED
    BY <2>2, <2>3
<1>11. m \in Live' => m = Base /\ Base \in Live
  BY <1>3, <1>6, TheLoops DEF Live
<1>12. Base \in Live => \A g, k : Rest(g, k, l) /\ g.op = "delete" => f.conn # g.conn
  BY <1>3, <1>4, <1>5, NoDeletionYet
<1>13. Base \in Live => c \in connections
  <2> SUFFICES ASSUME Base \in Live, c \notin connections PROVE FALSE
    OBVIOUS
  <2>1. Live = Loops /\ destructor = "none"
    BY BaseLives
  <2>2. ~NoDelete(W, c)
    BY <1>4 DEF OwnInv
  <2>3. PICK k \in Loops : \E i \in 1..Len(W[k]) : W[k][i] = F("delete", c)
    BY <2>2 DEF NoDelete
  <2>4. Fits(F("delete", c), k)
    BY <2>1, <2>3 DEF FitInv
  <2> QED
    BY <1>4, <2>1, <2>4 DEF Fits, F
<1>14. m \in Live' => Fits(f, m)'
  BY <1>1, <1>3, <1>4, <1>5, <1>8, <1>11, <1>13 DEF Fits, TypeOK
<1>15. FitInv' /\ Unique(W, Live)' /\ DeleteLast(W, Live)'
  BY <1>3, <1>7, <1>10, <1>11, <1>12, <1>14, Stepped
<1>16. OwnInv'
  BY <1>1, <1>2, <1>3, <1>4, <1>5, <1>7, OwnKept DEF TypeOK
<1>17. ConnInv'
  BY <1>1, <1>4 DEF ConnInv, TypeOK
<1> QED
  BY <1>3, <1>9, <1>15, <1>16, <1>17

\* deleteConnectionInLoop.
LEMMA RunsDeleteInLoop ==
  ASSUME IInv, NEW l \in Loops, RunFunctor(l), NEW c, c = Head(batch[l]).conn,
         Head(batch[l]).op = "deleteInLoop", DeleteInLoop(c)
  PROVE  IInv'
<1> USE DEF IInv
<1> PICK h : h = Head(batch[l])
  OBVIOUS
<1> PICK m : m = loopOf[c]
  OBVIOUS
<1> DEFINE f == F("delete", c)
<1>1. h.op = "deleteInLoop" /\ h.conn = c
  OBVIOUS
<1>2. UNCHANGED <<started, nextLoop, loopOf, destructor, stopped, quit, phase, ready>> /\ LoopInv' /\ Live' = Live
      /\ Typed /\ W[l][1] = h /\ h \in Functors /\ Fits(h, l)
  BY Runs
<1>3. c \in Conns /\ c # 0 /\ c \in connections /\ state[c] = "disconnected"
  BY <1>1, <1>2, ServerConstants DEF Fits, Functors, Conns
<1>4. /\ connections' = connections \ {c} /\ Queue(m, <<f>>)
      /\ UNCHANGED <<listening, state, fired, destroyed, asked, closed>>
  BY <1>3 DEF DeleteInLoop, Erased, history
<1>5. f \in Functors /\ m \in Loops /\ f.op = "delete" /\ f.conn = c
  BY <1>3 DEF Functors, F, Conns, TypeOK
<1>6. Typed' /\ Moved(W, W', l, m, f)
  <2>1. Typed /\ batch[l] # <<>> /\ batch' = [batch EXCEPT ![l] = Tail(@)]
    BY Runs
  <2>2. m \in Loops /\ f \in Functors /\ Queue(m, <<f>>)
    BY <1>4, <1>5
  <2> HIDE DEF f
  <2> QED
    BY <2>1, <2>2, Popped
<1>7. TypeOK'
  BY <1>2, <1>4, <1>6 DEF TypeOK, Typed
<1>8. NoDelete(W, c)
  BY <1>3 DEF OwnInv
<1> HIDE DEF f
<1>9. \A g, k : Rest(g, k, l) => g.conn # c /\ Fits(g, k)'
  <2> TAKE g, k
  <2> HAVE Rest(g, k, l)
  <2>1. Fits(g, k) /\ g \in Functors /\ ~Same(g, h)
    BY Runs
  <2>2. g.op = "delete" => g.conn # c
    BY <1>2, <1>8, RestNoDelete
  <2>3. g.conn # c
    BY <1>1, <1>3, <2>1, <2>2 DEF Fits, Functors, Same, Kind
  <2> QED
    BY <1>2, <1>4, <2>1, <2>3, FitsKept DEF Fits
<1>10. \A g, k : Rest(g, k, l) => ~Same(g, f)
  BY <1>5, <1>9 DEF Same
<1>11. Fits(f, m)'
  BY <1>2, <1>3, <1>4, <1>5 DEF Fits
<1>12. FitInv' /\ Unique(W, Live)' /\ DeleteLast(W, Live)'
  BY <1>2, <1>5, <1>6, <1>9, <1>10, <1>11, Stepped
<1>13. OwnInv'
  <2>1. AtMostOne(W', c) /\ ~NoDelete(W', c)
    BY <1>5, <1>6, <1>8, DeletionCome DEF f
  <2>2. ASSUME NEW d \in Conns, d # c
        PROVE  (AtMostOne(W, d) => AtMostOne(W', d)) /\ (NoDelete(W, d) <=> NoDelete(W', d))
    <3>1. f # F("delete", d) /\ W[l][1] # F("delete", d)
      BY <1>1, <1>2, <1>5, <2>2 DEF F
    <3> QED
      BY <1>6, <3>1, DeletionsKept
  <2>3. ASSUME NEW d \in Conns
        PROVE  /\ AtMostOne(W', d)
               /\ d \in connections' => NoDelete(W', d)
               /\ state'[d] \in {"none", "freed"} => d \notin connections' /\ NoDelete(W', d)
               /\ state'[d] \notin {"none", "freed"} => d \in connections' \/ ~NoDelete(W', d)
    <3>1. CASE d = c
      BY <1>3, <1>4, <2>1, <3>1
    <3>2. CASE d # c
      BY <1>4, <2>2, <3>2 DEF OwnInv
    <3> QED
      BY <3>1, <3>2
  <2> QED
    BY <2>3 DEF OwnInv, AtMostOne, NoDelete
<1>14. ConnInv'
  BY <1>4 DEF ConnInv
<1> QED
  BY <1>2, <1>7, <1>12, <1>13, <1>14

\* delete.
LEMMA RunsDelete ==
  ASSUME IInv, NEW l \in Loops, RunFunctor(l), NEW c, c = Head(batch[l]).conn,
         Head(batch[l]).op = "delete", Delete(c)
  PROVE  IInv'
<1> USE DEF IInv
<1> PICK h : h = Head(batch[l])
  OBVIOUS
<1>1. /\ state' = [state EXCEPT ![c] = "freed"] /\ fired' = [fired EXCEPT ![c] = {}]
      /\ UNCHANGED <<listening, connections, queue, destroyed, asked, closed>>
  BY DEF Delete, history
<1>2. h.op = "delete" /\ h.conn = c
  OBVIOUS
<1>3. UNCHANGED <<started, nextLoop, loopOf, destructor, stopped, quit, phase, ready>> /\ LoopInv' /\ Live' = Live
      /\ Typed /\ W[l][1] = h /\ 1 \in 1..Len(W[l]) /\ h \in Functors /\ Fits(h, l)
  BY Runs
<1>4. c \in Conns /\ c # 0 /\ state[c] \notin {"none", "freed"} /\ l = loopOf[c]
      /\ (destructor = "none" => state[c] = "disconnected")
  BY <1>2, <1>3, ServerConstants DEF Fits, Functors, Conns
<1>5. Typed' /\ Moved(W, W', l, NoLoop, h)
  BY <1>1, Runs, Popped
<1>6. TypeOK'
  BY <1>1, <1>3, <1>5 DEF TypeOK, Typed, States
<1>7. NoLoop \notin Live' /\ NoLoop \notin Loops
  BY TheLoops DEF Live
<1>8. h = F("delete", c)
  BY <1>2, <1>3 DEF F, Functors
<1>9. ~NoDelete(W, c) /\ c \notin connections
  <2>1. ~NoDelete(W, c)
    BY <1>3, <1>8 DEF NoDelete
  <2> QED
    BY <1>4, <2>1 DEF OwnInv
<1>10. \A g, k : Rest(g, k, l) => Fits(g, k)'
  <2> TAKE g, k
  <2> HAVE Rest(g, k, l)
  <2>1. Fits(g, k) /\ g \in Functors /\ ~Same(g, h) /\ k \in Live /\ (k = l => g.conn # c)
    BY <1>2, Runs
  <2>2. CASE g.conn = c
    <3>1. k # l
      BY <2>1, <2>2
    <3>2. g.op \in {"closeInLoop", "deleteInLoop"} /\ k = Base
      BY <1>4, <2>1, <2>2, <3>1 DEF Fits, Functors
    <3>3. destructor = "none"
      BY <2>1, <3>2, BaseLives
    <3> QED
      BY <1>4, <1>9, <2>1, <2>2, <3>2, <3>3 DEF Fits
  <2>3. CASE g.conn # c
    BY <1>1, <1>3, <2>1, <2>3, FitsKept DEF Fits, TypeOK
  <2> QED
    BY <2>2, <2>3
<1>11. FitInv' /\ Unique(W, Live)' /\ DeleteLast(W, Live)'
  BY <1>3, <1>5, <1>7, <1>10, Stepped
<1>12. OwnInv'
  <2>1. AtMostOne(W', c) /\ NoDelete(W', c)
    BY <1>3, <1>4, <1>5, <1>7, <1>8, DeletionGone DEF OwnInv
  <2>2. ASSUME NEW d \in Conns, d # c
        PROVE  (AtMostOne(W, d) => AtMostOne(W', d)) /\ (NoDelete(W, d) <=> NoDelete(W', d))
    <3>1. W[l][1] # F("delete", d)
      BY <1>2, <1>3, <2>2 DEF F
    <3> QED
      BY <1>5, <1>7, <3>1, DeletionsKept
  <2>3. ASSUME NEW d \in Conns
        PROVE  /\ AtMostOne(W', d)
               /\ d \in connections' => NoDelete(W', d)
               /\ state'[d] \in {"none", "freed"} => d \notin connections' /\ NoDelete(W', d)
               /\ state'[d] \notin {"none", "freed"} => d \in connections' \/ ~NoDelete(W', d)
    <3>1. CASE d = c
      BY <1>1, <1>4, <1>9, <2>1, <3>1 DEF TypeOK
    <3>2. CASE d # c
      BY <1>1, <2>2, <3>2 DEF OwnInv, TypeOK
    <3> QED
      BY <3>1, <3>2
  <2> QED
    BY <2>3 DEF OwnInv, AtMostOne, NoDelete
<1>13. ConnInv'
  BY <1>1, <1>4 DEF ConnInv, TypeOK
<1> QED
  BY <1>3, <1>6, <1>11, <1>12, <1>13

\* Whatever functor runs.
LEMMA RunsAny ==
  ASSUME ClosedByOne, IInv, NEW l \in Loops, RunFunctor(l)
  PROVE  IInv'
<1>1. PICK c : c = Head(batch[l]).conn
  OBVIOUS
<1>2. Execute(Head(batch[l]))
  BY DEF RunFunctor
<1>3. CASE Head(batch[l]).op = "listen" /\ Listen
  BY <1>3, RunsListen
<1>4. CASE Head(batch[l]).op = "established" /\ ConnectEstablished(c)
  BY <1>1, <1>4, RunsEstablished
<1>5. CASE Head(batch[l]).op = "close" /\ HandleClose(c, 1)
           /\ UNCHANGED <<listening, connections, fired, history>>
  BY <1>1, <1>5, RunsClose
<1>6. CASE Head(batch[l]).op = "closeInLoop" /\ CloseInLoop(c)
  BY <1>1, <1>6, RunsCloseInLoop
<1>7. CASE Head(batch[l]).op = "destroyed" /\ ConnectDestroyed(c)
  BY <1>1, <1>7, RunsDestroyed
<1>8. CASE Head(batch[l]).op = "deleteInLoop" /\ DeleteInLoop(c)
  BY <1>1, <1>8, RunsDeleteInLoop
<1>9. CASE Head(batch[l]).op = "delete" /\ Delete(c)
  BY <1>1, <1>9, RunsDelete
<1> QED
  BY <1>1, <1>2, <1>3, <1>4, <1>5, <1>6, <1>7, <1>8, <1>9 DEF Execute

-----------------------------------------------------------------------------
(* The theorems.                                                            *)

\* The invariant is inductive.
LEMMA NextIInv ==
  ASSUME ClosedByOne, IInv, [Next]_vars
  PROVE  IInv'
<1>1. CASE \E l \in Loops : LoopStep(l)
  <2>1. PICK l \in Loops : LoopStep(l)
    BY <1>1
  <2>2. CASE PollWakeup(l) \/ DispatchDone(l)
    BY <2>2, BatchTaken
  <2>3. CASE PollEvents(l)
    BY <2>3, EventsPolled
  <2>4. CASE RunFunctor(l)
    BY <2>4, RunsAny
  <2>5. CASE BatchDone(l)
    BY <2>5, LoopReturns
  <2>6. CASE \E c \in Conns : HandleEvent(l, c)
    BY <2>6, Handles
  <2>7. CASE EnterLoop(l)
    BY <2>7, LoopEntered
  <2> QED
    BY <2>1, <2>2, <2>3, <2>4, <2>5, <2>6, <2>7 DEF LoopStep
<1>2. CASE Start
  BY <1>2, Starts
<1>3. CASE HandleAccept
  BY <1>3, Accepts
<1>4. CASE DestroyConnection
  BY <1>4, Deletes
<1>5. CASE QuitBase \/ Destroy \/ DestroyPool \/ DestroyThread \/ PoolGone \/ UNCHANGED vars
  BY <1>5, Ends
<1>6. CASE \E c \in Conns : Close(c)
  BY <1>6, Closes
<1>7. CASE \E c \in Conns : \E e \in SocketEvents : SocketEvent(c, e)
  BY <1>7, Signals
<1> QED
  BY <1>1, <1>2, <1>3, <1>4, <1>5, <1>6, <1>7 DEF Next, Destroying, Terminated

\* Every reachable state satisfies the inductive invariant.
THEOREM Invariant == ClosedByOne => (Spec => []IInv)
<1> SUFFICES ASSUME ClosedByOne PROVE Spec => []IInv
  OBVIOUS
<1>1. Init => IInv
  BY InitIInv
<1>2. IInv /\ [Next]_vars => IInv'
  BY NextIInv
<1> QED
  BY <1>1, <1>2, PTL DEF Spec

\* Every variable of the server and its loops keeps its type: connections and loops
\* stay those there are, and the loop that is next stays one of the pool's.
THEOREM ServerTypeCorrect == ClosedByOne => (Spec => []TypeOK)
<1>1. IInv => TypeOK
  BY DEF IInv
<1> QED
  BY <1>1, Invariant, PTL

\* connectDestroyed, and with it the user's callback, is called at most once for
\* each connection.
THEOREM ConnectionsDestroyedOnce == ClosedByOne => (Spec => []DestroyedOnce)
<1>1. IInv => DestroyedOnce
  BY DEF IInv, ConnInv, DestroyedOnce
<1> QED
  BY <1>1, Invariant, PTL

\* No functor of a loop that will run it waits for a connection that was deleted, and
\* connectEstablished finds its connection connecting: the raw pointers that cross
\* between the loops never dangle.
THEOREM FunctorsNotStale == ClosedByOne => (Spec => []NoStaleFunctor)
<1>1. IInv => NoStaleFunctor
  <2> SUFFICES ASSUME IInv, NEW l \in Loops, phase[l] # "exited",
                      NEW f \in ToSet(Waiting(l)), f.conn # 0
               PROVE  /\ state[f.conn] \notin {"none", "freed"}
                      /\ f.op = "established" => state[f.conn] = "connecting"
    BY DEF NoStaleFunctor
  <2>1. Typed /\ FitInv /\ l \in Live
    BY DEF IInv, TypeOK, Typed, Live
  <2>2. W[l] = Waiting(l) /\ \A i \in 1..Len(W[l]) : W[l][i] \in Functors
    BY <2>1, WaitsAre DEF W
  <2>3. PICK i \in 1..Len(W[l]) : f = W[l][i]
    BY <2>1, <2>2, WaitsAre, LenProperties DEF ToSet
  <2>4. Fits(f, l) /\ f \in Functors
    BY <2>1, <2>2, <2>3 DEF FitInv
  <2> QED
    BY <2>4 DEF Fits, Functors
<1> QED
  BY <1>1, Invariant, PTL

\* Every connection that exists is in the server's map or has exactly one deletion on
\* its way, and none that does not: each is deleted at most once and none is forgotten.
THEOREM ConnectionsOwned == ClosedByOne => (Spec => []OneOwner)
<1>1. IInv => OneOwner
  <2> SUFFICES ASSUME IInv, NEW c \in Conns
               PROVE  (IF c \in connections THEN 1 ELSE 0) + Pending("delete", c)
                          = IF state[c] \in {"none", "freed"} THEN 0 ELSE 1
    BY DEF OneOwner
  <2> DEFINE P == {p \in Places : Waiting(p[1])[p[2]] = F("delete", c)}
  <2>1. ASSUME NEW p \in P
        PROVE  p[1] \in Loops /\ p[2] \in 1..Len(W[p[1]]) /\ W[p[1]][p[2]] = F("delete", c)
               /\ p = <<p[1], p[2]>>
    <3>1. PICK l \in Loops : p \in {l} \X DOMAIN Waiting(l)
      BY DEF Places
    <3>2. W[l] = Waiting(l) /\ W[l] \in Seq(Functors) /\ p[1] = l /\ p[2] \in DOMAIN Waiting(l)
          /\ p = <<p[1], p[2]>>
      BY <3>1, WaitsAre DEF IInv, TypeOK, Typed, W
    <3>3. DOMAIN W[l] = 1..Len(W[l])
      BY <3>2, LenProperties
    <3> QED
      BY <3>2, <3>3
  <2>2. ASSUME NEW l \in Loops, NEW i \in 1..Len(W[l]), W[l][i] = F("delete", c)
        PROVE  <<l, i>> \in P
    <3>1. W[l] = Waiting(l) /\ W[l] \in Seq(Functors)
      BY WaitsAre DEF IInv, TypeOK, Typed, W
    <3>2. DOMAIN Waiting(l) = 1..Len(W[l])
      BY <3>1, LenProperties
    <3> QED
      BY <2>2, <3>1, <3>2 DEF Places
  <2> HIDE DEF P
  <2>3. Pending("delete", c) = Cardinality(P)
    BY DEF Pending, P
  <2>4. CASE NoDelete(W, c)
    <3>1. P = {}
      BY <2>1, <2>4 DEF NoDelete
    <3>2. Pending("delete", c) = 0
      BY <2>3, <3>1, FS_EmptySet
    <3> QED
      BY <2>4, <3>2 DEF IInv, OwnInv
  <2>5. CASE ~NoDelete(W, c)
    <3>1. PICK l \in Loops : \E i \in 1..Len(W[l]) : W[l][i] = F("delete", c)
      BY <2>5 DEF NoDelete
    <3>2. PICK i \in 1..Len(W[l]) : W[l][i] = F("delete", c)
      BY <3>1
    <3>3. <<l, i>> \in P
      BY <2>2, <3>2
    <3>4. \A p \in P : p = <<l, i>>
      <4> TAKE p \in P
      <4>1. AtMostOne(W, c)
        BY DEF IInv, OwnInv
      <4>2. p[1] = l /\ p[2] = i
        BY <2>1, <3>2, <4>1 DEF AtMostOne
      <4> QED
        BY <2>1, <4>2
    <3>5. P = {<<l, i>>}
      BY <3>3, <3>4
    <3>6. Pending("delete", c) = 1
      BY <2>3, <3>5, FS_Singleton
    <3> QED
      BY <2>5, <3>6 DEF IInv, OwnInv
  <2> QED
    BY <2>4, <2>5
<1> QED
  BY <1>1, Invariant, PTL
=============================================================================
