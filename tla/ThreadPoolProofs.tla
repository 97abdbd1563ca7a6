-------------------------- MODULE ThreadPoolProofs --------------------------
(***************************************************************************)
(* Proofs about module ThreadPool, for any number of workers, starts and   *)
(* tasks, any producers, and any maximum of the semaphore that the tasks   *)
(* and workers together do not exceed.                                     *)
(***************************************************************************)
EXTENDS ThreadPool, SequenceTheorems, FiniteSetTheorems, TLAPS

(* The parts of the inductive invariant, next to typing. *)

\* The owner's place tells whether the pool runs, and where workers can be.
OwnerInv ==
    /\ running <=> owner \in {"starting", "idle"}
    /\ owner = "new" <=> starts = 0
    /\ owner = "new" => At({"none"}) = Workers
    /\ owner = "stopped" => At({"exited"}) = Workers

\* A queued task is one of those handed over, each of which was queued once.
CountInv == Len(queue) <= Cardinality(submitted)

Woken  == At({"woken"})
Tokens == sem + Cardinality(Woken) + Cardinality(Signalling)

\* TokensMatch at every place of the owner: tasks never outnumber the tokens, and
\* until the first stop there is one token for each.
TokenInv ==
    /\ Len(queue) <= Tokens
    /\ starts <= 1 /\ owner \in {"new", "starting", "idle"} => Len(queue) = Tokens

-----------------------------------------------------------------------------
\* The constructor's state is typed.
LEMMA TypingInit == Init => TypeOK
<1> SUFFICES ASSUME Init PROVE TypeOK
  OBVIOUS
<1>1. queue \in Seq(Tasks) /\ taken \in Seq(Tasks)
  BY EmptySeq DEF Init
<1>2. sem \in 0..MaxCount /\ starts \in 0..MaxStarts
  BY PoolConstants DEF Init
<1> QED
  BY <1>1, <1>2 DEF Init, TypeOK

\* Every action keeps the variables in their types.
LEMMA TypingStep == TypeOK /\ [Next]_vars => TypeOK'
<1> SUFFICES ASSUME TypeOK, [Next]_vars PROVE TypeOK'
  OBVIOUS
<1> USE PoolConstants DEF TypeOK
<1>1. ASSUME NEW w \in Workers, CheckRunning(w) PROVE TypeOK'
  BY <1>1 DEF CheckRunning
<1>2. ASSUME NEW w \in Workers, Wake(w) PROVE TypeOK'
  BY <1>2 DEF Wake
<1>3. ASSUME NEW w \in Workers, TakeTask(w) PROVE TypeOK'
  <2>1. CASE queue # <<>>
    <3>1. queue' = Tail(queue) /\ taken' = Append(taken, Head(queue))
      BY <1>3, <2>1 DEF TakeTask
    <3>2. queue \in Seq(Tasks) /\ taken \in Seq(Tasks)
      OBVIOUS
    <3>3. Head(queue) \in Tasks /\ Tail(queue) \in Seq(Tasks)
      BY <2>1, <3>2, HeadTailProperties
    <3>4. Append(taken, Head(queue)) \in Seq(Tasks)
      BY <3>2, <3>3, AppendProperties
    <3> QED
      BY <1>3, <2>1, <3>1, <3>3, <3>4 DEF TakeTask
  <2>2. CASE queue = <<>>
    BY <1>3, <2>2 DEF TakeTask
  <2> QED
    BY <2>1, <2>2
<1>4. ASSUME NEW w \in Workers, TaskReturns(w) PROVE TypeOK'
  BY <1>4 DEF TaskReturns
<1>5. ASSUME NEW p \in Producers, NEW t \in Tasks, Push(p, t) PROVE TypeOK'
  BY <1>5, AppendProperties DEF Push
<1>6. ASSUME NEW p \in Producers, Signal(p) PROVE TypeOK'
  BY <1>6 DEF Signal, Released
<1>7. CASE Start       BY <1>7 DEF Start
<1>8. ASSUME NEW w \in Workers, StartThread(w) PROVE TypeOK'
  BY <1>8 DEF StartThread
<1>9. CASE Stop        BY <1>9 DEF Stop
<1>10. CASE ClearQueue BY <1>10, EmptySeq DEF ClearQueue
<1>11. CASE Broadcast  BY <1>11 DEF Broadcast, Released
<1>12. CASE Join       BY <1>12 DEF Join
<1>13. CASE UNCHANGED vars
  BY <1>13 DEF vars
<1> QED
  BY <1>1, <1>2, <1>3, <1>4, <1>5, <1>6, <1>7, <1>8, <1>9, <1>10, <1>11, <1>12, <1>13
  DEF Next, Work, Starting, Stopping

\* Type correctness: in every reachable state each variable has its type.
THEOREM PoolTypeCorrect == Spec => []TypeOK
<1> QED
  BY TypingInit, TypingStep, PTL DEF Spec

-----------------------------------------------------------------------------
(* The owner, and how many tasks there can be.                              *)

\* A new pool has no threads.
LEMMA OwnerInit == Init => OwnerInv /\ CountInv
BY FS_EmptySet, EmptySeq DEF Init, OwnerInv, CountInv, At

\* The owner's steps keep its place, its flag and its workers together.
LEMMA OwnerStep ==
  ASSUME TypeOK, OwnerInv, [Next]_vars
  PROVE  OwnerInv'
<1> USE PoolConstants DEF TypeOK, OwnerInv, At
<1>1. ASSUME NEW w \in Workers, Work(w) PROVE OwnerInv'
  BY <1>1 DEF Work, CheckRunning, Wake, TakeTask, TaskReturns
<1>2. ASSUME NEW p \in Producers, NEW t \in Tasks, Push(p, t) PROVE OwnerInv'
  BY <1>2 DEF Push
<1>3. ASSUME NEW p \in Producers, Signal(p) PROVE OwnerInv'
  BY <1>3 DEF Signal
<1>4. CASE Start       BY <1>4 DEF Start
<1>5. ASSUME NEW w \in Workers, StartThread(w) PROVE OwnerInv'
  BY <1>5 DEF StartThread
<1>6. CASE Stop        BY <1>6 DEF Stop
<1>7. CASE ClearQueue  BY <1>7 DEF ClearQueue
<1>8. CASE Broadcast   BY <1>8 DEF Broadcast
<1>9. CASE Join        BY <1>9 DEF Join
<1>10. CASE UNCHANGED vars
  BY <1>10 DEF vars
<1> QED
  BY <1>1, <1>2, <1>3, <1>4, <1>5, <1>6, <1>7, <1>8, <1>9, <1>10 DEF Next, Starting, Stopping

\* Only Push makes the queue longer, by a task that was not handed over before.
LEMMA CountStep ==
  ASSUME TypeOK, CountInv, [Next]_vars
  PROVE  CountInv'
<1> USE DEF TypeOK, CountInv
<1>1. IsFiniteSet(submitted) /\ Cardinality(submitted) \in Nat
  BY PoolConstants, FS_Subset, FS_CardinalityType
<1>2. ASSUME NEW w \in Workers, TakeTask(w) PROVE CountInv'
  <2>1. CASE queue # <<>>
    BY <1>1, <1>2, <2>1, HeadTailProperties DEF TakeTask
  <2>2. CASE queue = <<>>
    BY <1>1, <1>2, <2>2 DEF TakeTask
  <2> QED
    BY <2>1, <2>2
<1>3. ASSUME NEW p \in Producers, NEW t \in Tasks, Push(p, t) PROVE CountInv'
  <2>1. Cardinality(submitted') = Cardinality(submitted) + 1
    BY <1>1, <1>3, FS_AddElement DEF Push
  <2>2. Len(queue') = Len(queue) + 1
    BY <1>3, AppendProperties DEF Push
  <2> QED
    BY <1>1, <2>1, <2>2
<1>4. CASE ClearQueue
  BY <1>1, <1>4, EmptySeq DEF ClearQueue
<1>5. CASE UNCHANGED <<queue, submitted>>
  BY <1>5
<1> QED
  BY <1>2, <1>3, <1>4, <1>5
  DEF Next, Work, Starting, Stopping, CheckRunning, Wake, TaskReturns, Signal, Start, StartThread,
      Stop, Broadcast, Join, vars

\* The queue never holds as many tasks as the semaphore can count.
LEMMA RoomForTokens ==
  ASSUME TypeOK, CountInv
  PROVE  Len(queue) < MaxCount
<1>1. /\ Cardinality(submitted) \in Nat /\ Cardinality(Tasks) \in Nat
      /\ Cardinality(submitted) <= Cardinality(Tasks)
  BY PoolConstants, FS_Subset, FS_CardinalityType DEF TypeOK
<1> QED
  BY <1>1, PoolConstants DEF TypeOK, CountInv
-----------------------------------------------------------------------------
(* Tasks and tokens.                                                        *)

\* The sets that are counted are finite.
LEMMA CountsFinite ==
  /\ IsFiniteSet(Woken)      /\ Cardinality(Woken) \in Nat
  /\ IsFiniteSet(Signalling) /\ Cardinality(Signalling) \in Nat
<1>1. IsFiniteSet(Workers)
  BY PoolConstants, FS_Interval DEF Workers
<1>2. Woken \subseteq Workers /\ Signalling \subseteq Producers
  BY DEF Woken, At, Signalling
<1> QED
  BY <1>1, <1>2, PoolConstants, FS_Subset, FS_CardinalityType

\* A new pool has neither tasks nor tokens.
LEMMA TokenInit == Init => TokenInv
<1> SUFFICES ASSUME Init PROVE TokenInv
  OBVIOUS
<1>1. Woken = {} /\ Signalling = {}
  BY DEF Init, Woken, At, Signalling
<1>2. sem = 0 /\ Len(queue) = 0
  BY DEF Init
<1> QED
  BY <1>1, <1>2, FS_EmptySet DEF TokenInv, Tokens

\* A worker that leaves or enters the place after Condition::wait changes the count
\* of those that are there by one.
LEMMA WokenCount ==
  ASSUME TypeOK, NEW w \in Workers, NEW place,
         worker' = [worker EXCEPT ![w] = place]
  PROVE  /\ worker[w] # "woken" /\ place = "woken"
              => Cardinality(Woken') = Cardinality(Woken) + 1
         /\ worker[w] = "woken" /\ place # "woken"
              => Cardinality(Woken') + 1 = Cardinality(Woken) /\ Cardinality(Woken') \in Nat
         /\ worker[w] # "woken" /\ place # "woken" => Woken' = Woken
<1>1. CASE worker[w] # "woken" /\ place = "woken"
  <2>1. Woken' = Woken \cup {w} /\ w \notin Woken
    BY <1>1 DEF TypeOK, Woken, At
  <2> QED
    BY <1>1, <2>1, CountsFinite, FS_AddElement
<1>2. CASE worker[w] = "woken" /\ place # "woken"
  <2>1. Woken' = Woken \ {w} /\ w \in Woken
    BY <1>2 DEF TypeOK, Woken, At
  <2>2. Cardinality(Woken') = Cardinality(Woken) - 1 /\ IsFiniteSet(Woken')
    BY <2>1, CountsFinite, FS_RemoveElement
  <2> QED
    BY <1>2, <2>2, CountsFinite, FS_CardinalityType
<1>3. CASE worker[w] # "woken" /\ place # "woken"
  BY <1>3 DEF TypeOK, Woken, At
<1> QED
  BY <1>1, <1>2, <1>3


\* A released token is added, or the semaphore was full, with more tokens than tasks.
LEMMA ReleasedOne ==
  ASSUME TypeOK, CountInv, TokenInv, NEW p \in Producers, Signal(p)
  PROVE  TokenInv'
<1>1. /\ sem \in Nat /\ MaxCount \in Nat /\ sem <= MaxCount
      /\ Len(queue) \in Nat /\ Len(queue) < MaxCount
  BY PoolConstants, RoomForTokens, LenProperties DEF TypeOK
<1>2. /\ queue' = queue /\ worker' = worker /\ owner' = owner /\ starts' = starts
      /\ sem' = IF sem + 1 <= MaxCount THEN sem + 1 ELSE sem
      /\ producer' = [producer EXCEPT ![p] = "idle"]
  BY DEF Signal, Released
<1>3. Signalling' = Signalling \ {p} /\ p \in Signalling
  BY <1>2 DEF Signal, Signalling, TypeOK
<1>4. /\ Cardinality(Signalling') = Cardinality(Signalling) - 1
      /\ IsFiniteSet(Signalling')
  BY <1>3, CountsFinite, FS_RemoveElement
<1>5. Cardinality(Signalling') \in Nat
  BY <1>4, FS_CardinalityType
<1>6. Woken' = Woken
  BY <1>2 DEF Woken, At
<1>7. CASE sem + 1 <= MaxCount
  BY <1>1, <1>2, <1>4, <1>6, <1>7, CountsFinite DEF TokenInv, Tokens
<1>8. CASE sem = MaxCount
  <2>1. Len(queue) < Tokens /\ Len(queue)' <= Tokens'
    BY <1>1, <1>2, <1>5, <1>6, <1>8, CountsFinite DEF Tokens
  <2> QED
    BY <1>1, <1>2, <2>1, CountsFinite DEF TokenInv, Tokens
<1> QED
  BY <1>1, <1>7, <1>8

\* A worker that takes a task takes its token away with it; with no task there, the
\* pool has been stopped before.
LEMMA TakenOne ==
  ASSUME TypeOK, TokenInv, NEW w \in Workers, TakeTask(w)
  PROVE  TokenInv'
<1>1. /\ sem \in Nat /\ Len(queue) \in Nat /\ queue \in Seq(Tasks)
  BY PoolConstants, LenProperties DEF TypeOK
<1>2. sem' = sem /\ producer' = producer /\ owner' = owner /\ starts' = starts
  BY DEF TakeTask
<1>3. Signalling' = Signalling
  BY <1>2 DEF Signalling
<1>4. Cardinality(Woken') + 1 = Cardinality(Woken) /\ Cardinality(Woken') \in Nat
  <2>1. PICK place \in {"run", "check"} : worker' = [worker EXCEPT ![w] = place]
    BY DEF TakeTask
  <2>2. worker[w] = "woken" /\ place # "woken"
    BY DEF TakeTask
  <2> QED
    BY <2>1, <2>2, WokenCount
<1>5. Tokens \in Nat /\ Tokens' \in Nat /\ Tokens' = Tokens - 1
  BY <1>1, <1>2, <1>3, <1>4, CountsFinite DEF Tokens
<1>6. CASE queue # <<>>
  <2>1. queue' = Tail(queue)
    BY <1>6 DEF TakeTask
  <2>2. Len(queue') = Len(queue) - 1 /\ Len(queue') \in Nat
    BY <1>1, <1>6, <2>1, HeadTailProperties
  <2>3. /\ Len(queue) <= Tokens => Len(queue') <= Tokens'
        /\ Len(queue) = Tokens => Len(queue') = Tokens'
    BY <1>1, <1>5, <2>2
  <2> QED
    BY <1>2, <2>3 DEF TokenInv
<1>7. CASE queue = <<>>
  <2>1. queue' = queue /\ Len(queue) = 0
    BY <1>7 DEF TakeTask
  <2>2. Len(queue') <= Tokens' /\ Len(queue) # Tokens
    BY <1>5, <2>1
  <2> QED
    BY <1>2, <2>2 DEF TokenInv
<1> QED
  BY <1>6, <1>7

\* Every step keeps the tasks and the tokens together.
LEMMA TokenStep ==
  ASSUME TypeOK, OwnerInv, CountInv, TokenInv, [Next]_vars
  PROVE  TokenInv'
<1>1. /\ sem \in Nat /\ MaxCount \in Nat /\ Len(queue) \in Nat /\ queue \in Seq(Tasks)
      /\ starts \in Nat
  BY PoolConstants, LenProperties DEF TypeOK
<1>2. ASSUME NEW w \in Workers, Wake(w) PROVE TokenInv'
  <2>1. Cardinality(Woken') = Cardinality(Woken) + 1
    BY <1>2, WokenCount DEF Wake
  <2>2. Signalling' = Signalling
    BY <1>2 DEF Wake, Signalling
  <2>3. Tokens' = Tokens
    BY <1>1, <1>2, <2>1, <2>2, CountsFinite DEF Wake, Tokens
  <2> QED
    BY <1>2, <2>3 DEF Wake, TokenInv
<1>3. ASSUME NEW w \in Workers, NEW place, place # "woken", worker[w] # "woken",
             worker' = [worker EXCEPT ![w] = place],
             owner' \in {"new", "starting", "idle"} => owner \in {"new", "starting", "idle"},
             UNCHANGED <<queue, sem, starts, producer>>
      PROVE  TokenInv'
  <2>1. Woken' = Woken /\ Signalling' = Signalling
    BY <1>3, WokenCount DEF Signalling
  <2> QED
    BY <1>3, <2>1 DEF TokenInv, Tokens
<1>4. ASSUME NEW w \in Workers, Work(w) PROVE TokenInv'
  <2>1. CASE CheckRunning(w)
    <3> DEFINE place == IF running THEN "wait" ELSE "exited"
    <3>1. place # "woken" /\ worker[w] # "woken"
      BY <2>1 DEF CheckRunning
    <3>2. worker' = [worker EXCEPT ![w] = place] /\ owner' = owner
          /\ UNCHANGED <<queue, sem, starts, producer>>
      BY <2>1 DEF CheckRunning
    <3> HIDE DEF place
    <3> QED
      BY <1>3, <3>1, <3>2
  <2>2. CASE TaskReturns(w)
    BY <1>3, <2>2 DEF TaskReturns
  <2> QED
    BY <1>2, <1>4, <2>1, <2>2, TakenOne DEF Work
<1>5. ASSUME NEW p \in Producers, NEW t \in Tasks, Push(p, t) PROVE TokenInv'
  <2>1. Len(queue') = Len(queue) + 1
    BY <1>1, <1>5, AppendProperties DEF Push
  <2>2. Signalling' = Signalling \cup {p} /\ p \notin Signalling
    BY <1>5 DEF Push, Signalling, TypeOK
  <2>3. Cardinality(Signalling') = Cardinality(Signalling) + 1
    BY <2>2, CountsFinite, FS_AddElement
  <2>4. Woken' = Woken
    BY <1>5 DEF Push, Woken, At
  <2>5. sem' = sem
    BY <1>5 DEF Push
  <2>6. Tokens' = Tokens + 1 /\ Tokens \in Nat
    BY <1>1, <2>3, <2>4, <2>5, CountsFinite DEF Tokens
  <2> QED
    BY <1>1, <1>5, <2>1, <2>6 DEF Push, TokenInv
<1>6. CASE Start
  <2>1. Woken = {} /\ Woken' = {}
    BY <1>6 DEF Start, OwnerInv, Woken, At, Workers
  <2>2. Tokens' = Tokens
    BY <1>6, <2>1 DEF Start, Tokens, Signalling
  <2>3. starts' <= 1 => owner = "new"
    BY <1>1, <1>6 DEF Start, OwnerInv
  <2> QED
    BY <1>1, <1>6, <2>2, <2>3 DEF Start, TokenInv, OwnerInv
<1>7. ASSUME NEW w \in Workers, StartThread(w) PROVE TokenInv'
  BY <1>3, <1>7 DEF StartThread
<1>8. ASSUME UNCHANGED <<worker, producer>>,
             owner' \in {"new", "starting", "idle"} => owner \in {"new", "starting", "idle"}
                                                       /\ UNCHANGED <<queue, sem, starts>>,
             Len(queue') \in Nat /\ sem' \in Nat, Len(queue') <= Len(queue), sem' >= sem
      PROVE  TokenInv'
  <2>1. Woken' = Woken /\ Signalling' = Signalling
    BY <1>8 DEF Woken, At, Signalling
  <2>2. Tokens' >= Tokens /\ Tokens \in Nat /\ Tokens' \in Nat
    BY <1>1, <1>8, <2>1, CountsFinite DEF Tokens
  <2>3. Len(queue') <= Tokens'
    BY <1>1, <1>8, <2>2 DEF TokenInv
  <2> QED
    BY <1>8, <2>1, <2>3 DEF TokenInv, Tokens
<1>9. CASE Stop       BY <1>1, <1>8, <1>9 DEF Stop
<1>10. CASE ClearQueue
  <2>1. Len(queue') = 0
    BY <1>10 DEF ClearQueue
  <2> QED
    BY <1>1, <1>8, <1>10, <2>1 DEF ClearQueue
<1>11. CASE Broadcast BY <1>1, <1>8, <1>11 DEF Broadcast, Released
<1>12. CASE Join      BY <1>1, <1>8, <1>12 DEF Join
<1>13. CASE UNCHANGED vars
  BY <1>1, <1>8, <1>13 DEF vars
<1> QED
  BY <1>4, <1>5, <1>6, <1>7, <1>9, <1>10, <1>11, <1>12, <1>13, ReleasedOne
  DEF Next, Starting, Stopping

\* While the pool runs no queued task lacks a token, and in a pool started once no
\* worker wakes for nothing.
THEOREM TokensNeverShort == Spec => []TokensMatch
<1> DEFINE IInv == TypeOK /\ OwnerInv /\ CountInv /\ TokenInv
<1>1. Init => IInv
  BY TypingInit, OwnerInit, TokenInit
<1>2. IInv /\ [Next]_vars => IInv'
  BY TypingStep, OwnerStep, CountStep, TokenStep
<1>3. IInv => TokensMatch
  BY DEF OwnerInv, TokenInv, TokensMatch, Tokens, Woken
<1> QED
  BY <1>1, <1>2, <1>3, PTL DEF Spec

-----------------------------------------------------------------------------
(* A pool that is stopped only when quiet: nothing is lost or done twice.   *)

\* The tasks handed over are those taken and those queued, and from stop to the next
\* start none is queued.
DoneInv ==
    /\ submitted = ToSet(taken) \cup ToSet(queue)
    /\ owner \in {"clear", "broadcast", "join", "stopped"} => queue = <<>>

\* What Append adds to the members of a sequence.
LEMMA ToSetAppend ==
  ASSUME NEW s \in Seq(Tasks), NEW t \in Tasks
  PROVE  ToSet(Append(s, t)) = ToSet(s) \cup {t}
<1>1. /\ DOMAIN s = 1..Len(s) /\ DOMAIN Append(s, t) = 1..(Len(s) + 1) /\ Len(s) \in Nat
      /\ \A i \in 1..Len(s) : Append(s, t)[i] = s[i]
      /\ Append(s, t)[Len(s) + 1] = t
  BY AppendProperties, LenProperties
<1>2. \A i \in 1..(Len(s) + 1) : i \in 1..Len(s) \/ i = Len(s) + 1
  BY <1>1
<1>3. 1..Len(s) \subseteq 1..(Len(s) + 1) /\ Len(s) + 1 \in 1..(Len(s) + 1)
  BY <1>1
<1> QED
  BY <1>1, <1>2, <1>3, Zenon DEF ToSet

\* What Tail leaves of them.
LEMMA ToSetTail ==
  ASSUME NEW s \in Seq(Tasks), s # <<>>
  PROVE  ToSet(s) = {Head(s)} \cup ToSet(Tail(s))
<1>1. /\ DOMAIN s = 1..Len(s) /\ DOMAIN Tail(s) = 1..Len(Tail(s))
      /\ Len(s) \in Nat /\ Len(Tail(s)) = Len(s) - 1 /\ Len(s) >= 1
      /\ Head(s) = s[1]
      /\ \A i \in 1..Len(Tail(s)) : Tail(s)[i] = s[i + 1]
  BY HeadTailProperties, LenProperties, EmptySeq
<1>2. ToSet(s) = {s[i] : i \in 1..Len(s)} /\ ToSet(Tail(s)) = {s[i + 1] : i \in 1..(Len(s) - 1)}
  BY <1>1 DEF ToSet
<1>3. ASSUME NEW i \in 1..Len(s) PROVE s[i] = s[1] \/ \E j \in 1..(Len(s) - 1) : s[i] = s[j + 1]
  <2>1. CASE i = 1
    BY <2>1
  <2>2. CASE i # 1
    <3>1. i - 1 \in 1..(Len(s) - 1) /\ (i - 1) + 1 = i
      BY <1>1, <2>2
    <3> QED
      BY <3>1
  <2> QED
    BY <2>1, <2>2
<1>4. \A j \in 1..(Len(s) - 1) : j + 1 \in 1..Len(s)
  BY <1>1
<1>5. 1 \in 1..Len(s)
  BY <1>1
<1>6. \A v : v \in ToSet(s) => v \in {Head(s)} \cup ToSet(Tail(s))
  BY <1>1, <1>2, <1>3
<1>7. \A v : v \in {Head(s)} \cup ToSet(Tail(s)) => v \in ToSet(s)
  BY <1>1, <1>2, <1>4, <1>5
<1> QED
  BY <1>6, <1>7

\* The constructor's pool has neither taken nor queued tasks.
LEMMA DoneInit == Init => DoneInv
BY DEF Init, DoneInv, ToSet

\* Every step of a pool that is stopped only when quiet keeps its tasks together.
LEMMA DoneStep ==
  ASSUME TypeOK, DoneInv, StopWhenQuiet, [Next]_vars
  PROVE  DoneInv'
<1>t. queue \in Seq(Tasks) /\ taken \in Seq(Tasks)
  BY DEF TypeOK
<1>1. ASSUME NEW w \in Workers, TakeTask(w), queue # <<>> PROVE DoneInv'
  <2>1. queue' = Tail(queue) /\ taken' = Append(taken, Head(queue))
        /\ UNCHANGED <<submitted, owner>>
    BY <1>1 DEF TakeTask
  <2>2. Head(queue) \in Tasks
    BY <1>t, <1>1, HeadTailProperties
  <2>3. ToSet(queue) = {Head(queue)} \cup ToSet(queue')
    BY <1>t, <1>1, <2>1, ToSetTail
  <2>4. ToSet(taken') = ToSet(taken) \cup {Head(queue)}
    BY <1>t, <2>1, <2>2, ToSetAppend
  <2>5. owner \notin {"clear", "broadcast", "join", "stopped"}
    BY <1>1 DEF DoneInv
  <2> QED
    BY <2>1, <2>3, <2>4, <2>5 DEF DoneInv
<1>2. ASSUME NEW p \in Producers, NEW t \in Tasks, Push(p, t) PROVE DoneInv'
  <2>1. queue' = Append(queue, t) /\ submitted' = submitted \cup {t}
        /\ UNCHANGED <<taken, owner>>
        /\ owner \notin {"clear", "broadcast", "join", "stopped"}
    BY <1>2 DEF Push
  <2>2. ToSet(queue') = ToSet(queue) \cup {t}
    BY <1>t, <2>1, ToSetAppend
  <2> QED
    BY <2>1, <2>2 DEF DoneInv
<1>3. CASE Stop
  BY <1>3 DEF Stop, Quiet, DoneInv
<1>4. CASE ClearQueue
  BY <1>4 DEF ClearQueue, DoneInv
<1>5. CASE Broadcast \/ Join
  BY <1>5 DEF Broadcast, Join, DoneInv
<1>6. CASE Starting
  BY <1>6 DEF Starting, Start, StartThread, DoneInv
<1>7. CASE UNCHANGED <<queue, submitted, taken, owner>>
  BY <1>7 DEF DoneInv
<1>8. ASSUME NEW w \in Workers, Work(w), ~(TakeTask(w) /\ queue # <<>>) PROVE DoneInv'
  BY <1>7, <1>8 DEF Work, CheckRunning, Wake, TakeTask, TaskReturns
<1>9. ASSUME NEW p \in Producers, Signal(p) PROVE DoneInv'
  BY <1>7, <1>9 DEF Signal
<1>10. CASE UNCHANGED vars
  BY <1>7, <1>10 DEF vars
<1> QED
  BY <1>1, <1>2, <1>3, <1>4, <1>5, <1>6, <1>8, <1>9, <1>10 DEF Next, Stopping

\* When stop returns no worker is left behind, and if it was called while the pool
\* was quiet every task that was handed over has been taken.
THEOREM StopLeavesNothing == StopWhenQuiet => (Spec => []StoppedMeansDone)
<1> SUFFICES ASSUME StopWhenQuiet PROVE Spec => []StoppedMeansDone
  OBVIOUS
<1> DEFINE IInv == TypeOK /\ OwnerInv /\ DoneInv
<1>1. Init => IInv
  BY TypingInit, OwnerInit, DoneInit
<1>2. IInv /\ [Next]_vars => IInv'
  BY TypingStep, OwnerStep, DoneStep
<1>3. IInv => StoppedMeansDone
  BY DEF OwnerInv, DoneInv, StoppedMeansDone, ToSet
<1> QED
  BY <1>1, <1>2, <1>3, PTL DEF Spec

-----------------------------------------------------------------------------
(* Refinement: such a pool is a task queue.                                 *)

\* A task that was not handed over is a new entry; the one a worker takes is the
\* oldest; stop finds nothing to clear.
LEMMA PoolQueueStep ==
  ASSUME TypeOK, DoneInv, StopWhenQuiet, [Next]_vars
  PROVE  [TQ!Next]_(TQ!vars)
<1>1. ASSUME NEW p \in Producers, NEW t \in Tasks, Push(p, t) PROVE TQ!Next
  <2>1. t \notin TQ!Range(queue) \cup TQ!Range(taken)
    BY <1>1 DEF Push, DoneInv, ToSet, TQ!Range
  <2>2. queue' = Append(queue, t) /\ taken' = taken
    BY <1>1 DEF Push
  <2>3. TQ!Post(t)
    BY <2>1, <2>2 DEF TQ!Post
  <2> QED
    BY <2>3 DEF TQ!Next
<1>2. ASSUME NEW w \in Workers, TakeTask(w), queue # <<>> PROVE TQ!Next
  <2>1. queue' = Tail(queue) /\ taken' = Append(taken, Head(queue))
    BY <1>2 DEF TakeTask
  <2>2. TQ!Execute
    BY <1>2, <2>1 DEF TQ!Execute
  <2> QED
    BY <2>2 DEF TQ!Next
<1>3. CASE UNCHANGED <<queue, taken>>
  BY <1>3 DEF TQ!vars
<1>4. ASSUME NEW w \in Workers, Work(w), ~(TakeTask(w) /\ queue # <<>>)
      PROVE  UNCHANGED <<queue, taken>>
  BY <1>4 DEF Work, CheckRunning, Wake, TakeTask, TaskReturns
<1>5. ClearQueue => UNCHANGED <<queue, taken>>
  BY DEF ClearQueue, DoneInv
<1>6. ASSUME \/ \E p \in Producers : Signal(p)
             \/ Starting \/ Stop \/ Broadcast \/ Join \/ UNCHANGED vars
      PROVE  UNCHANGED <<queue, taken>>
  BY <1>6 DEF Signal, Starting, Start, StartThread, Stop, Broadcast, Join, vars
<1> QED
  BY <1>1, <1>2, <1>3, <1>4, <1>5, <1>6 DEF Next, Stopping

\* A pool stopped only when quiet takes every task once, in the order of
\* execute_task, also across stops and starts.
THEOREM PoolImplementsTaskQueue == StopWhenQuiet => (Spec => TQ!SafetySpec)
<1> SUFFICES ASSUME StopWhenQuiet PROVE Spec => TQ!SafetySpec
  OBVIOUS
<1>1. Init => TypeOK /\ DoneInv /\ TQ!Init
  BY TypingInit, DoneInit DEF Init, TQ!Init
<1>2. TypeOK /\ DoneInv /\ [Next]_vars => TypeOK' /\ DoneInv'
  BY TypingStep, DoneStep
<1>3. TypeOK /\ DoneInv /\ [Next]_vars => [TQ!Next]_(TQ!vars)
  BY PoolQueueStep
<1> QED
  BY <1>1, <1>2, <1>3, PTL DEF Spec, TQ!SafetySpec
=============================================================================
