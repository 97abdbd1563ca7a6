----------------------------- MODULE ThreadPool -----------------------------
(***************************************************************************)
(* ThreadPool: a deque of tasks under a mutex and a semaphore whose tokens *)
(* stand for the tasks in it.  Condition::signal adds one token, broadcast *)
(* adds LONG_MAX of them at once, and both add nothing when the count would*)
(* pass LONG_MAX.  The queue and the semaphore are changed at different    *)
(* steps, by producers, workers and the thread that owns the pool.         *)
(*                                                                         *)
(* The owner calls start and stop in turn.  stop clears the vector of the  *)
(* threads, so that start works again; the tokens that stop left behind    *)
(* stay, and wake the new workers for nothing until they are used up.      *)
(***************************************************************************)
EXTENDS Naturals, Sequences, SequencesExt, FiniteSets

CONSTANTS
    NumWorkers,     \* argument of start
    Producers,      \* threads that call execute_task
    Tasks,          \* tasks they hand over, each at most once
    MaxCount,       \* LONG_MAX
    MaxStarts,      \* bound: calls of start
    StopWhenQuiet   \* stop is called as in muma_test.cpp: with queueSize() = 0
                    \* and nobody in execute_task, nor calling it any more

ASSUME PoolConstants ==
    /\ NumWorkers \in Nat \ {0}
    /\ IsFiniteSet(Tasks) /\ IsFiniteSet(Producers)
    /\ MaxCount \in Nat /\ MaxCount >= NumWorkers + Cardinality(Tasks)
    /\ MaxStarts \in Nat /\ StopWhenQuiet \in BOOLEAN

VARIABLES
    running,        \* _running
    queue,          \* _queue
    sem,            \* the count of Condition::_sem
    worker,         \* where each thread is in workThread
    owner,          \* where the owner is in start and stop
    starts,         \* calls of start so far
    producer,       \* where each producer is in execute_task
    submitted,      \* tasks given to execute_task so far
    taken           \* tasks handed to workers, in that order

vars == <<running, queue, sem, worker, owner, starts, producer, submitted, taken>>

Workers == 1..NumWorkers

TypeOK ==
    /\ running \in BOOLEAN
    /\ queue \in Seq(Tasks)
    /\ sem \in 0..MaxCount
    /\ worker \in [Workers -> {"none", "check", "wait", "woken", "run", "exited"}]
    /\ owner \in {"new", "starting", "idle", "clear", "broadcast", "join", "stopped"}
    /\ starts \in 0..MaxStarts
    /\ producer \in [Producers -> {"idle", "signal"}]
    /\ submitted \subseteq Tasks
    /\ taken \in Seq(Tasks)

Init ==
    /\ running = FALSE
    /\ queue = <<>>
    /\ sem = 0
    /\ worker = [w \in Workers |-> "none"]
    /\ owner = "new" /\ starts = 0
    /\ producer = [p \in Producers |-> "idle"]
    /\ submitted = {}
    /\ taken = <<>>

-----------------------------------------------------------------------------
(* workThread                                                              *)

\* while (_running)
CheckRunning(w) ==
    /\ worker[w] = "check"
    /\ worker' = [worker EXCEPT ![w] = IF running THEN "wait" ELSE "exited"]
    /\ UNCHANGED <<running, queue, sem, owner, starts, producer, submitted, taken>>

\* Faulty variant: a worker does not wait for a token.
Wake_NoToken(w) ==
    /\ worker[w] = "wait"
    /\ sem' = sem - 1
    /\ worker' = [worker EXCEPT ![w] = "woken"]
    /\ UNCHANGED <<running, queue, owner, starts, producer, submitted, taken>>

\* Condition::wait takes a token.
Wake(w) ==
    /\ worker[w] = "wait"
    /\ sem > 0
    /\ sem' = sem - 1
    /\ worker' = [worker EXCEPT ![w] = "woken"]
    /\ UNCHANGED <<running, queue, owner, starts, producer, submitted, taken>>

\* Faulty variant: from the back.
TakeTask_Newest(w) ==
    /\ worker[w] = "woken"
    /\ IF queue # <<>>
         THEN /\ taken' = Append(taken, Last(queue))
              /\ queue' = Front(queue)
              /\ worker' = [worker EXCEPT ![w] = "run"]
         ELSE worker' = [worker EXCEPT ![w] = "check"] /\ UNCHANGED <<queue, taken>>
    /\ UNCHANGED <<running, sem, owner, starts, producer, submitted>>

\* The front of the queue under the mutex; with none the empty task is skipped.
TakeTask(w) ==
    /\ worker[w] = "woken"
    /\ IF queue # <<>>
         THEN /\ taken' = Append(taken, Head(queue))
              /\ queue' = Tail(queue)
              /\ worker' = [worker EXCEPT ![w] = "run"]
         ELSE worker' = [worker EXCEPT ![w] = "check"] /\ UNCHANGED <<queue, taken>>
    /\ UNCHANGED <<running, sem, owner, starts, producer, submitted>>

TaskReturns(w) ==
    /\ worker[w] = "run"
    /\ worker' = [worker EXCEPT ![w] = "check"]
    /\ UNCHANGED <<running, queue, sem, owner, starts, producer, submitted, taken>>

-----------------------------------------------------------------------------
(* execute_task                                                            *)

\* push_back under the mutex.
Push(p, t) ==
    /\ producer[p] = "idle"
    /\ t \notin submitted
    /\ StopWhenQuiet => owner \notin {"clear", "broadcast", "join", "stopped"}
    /\ queue' = Append(queue, t)
    /\ submitted' = submitted \cup {t}
    /\ producer' = [producer EXCEPT ![p] = "signal"]
    /\ UNCHANGED <<running, sem, worker, owner, starts, taken>>

\* ReleaseSemaphore(_sem, n, NULL): fails without effect beyond the maximum.
Released(n) == IF sem + n <= MaxCount THEN sem + n ELSE sem

\* Faulty variant: a signal adds nothing to a token that is there.
Signal_Lost(p) ==
    /\ producer[p] = "signal"
    /\ sem' = IF sem = 0 THEN 1 ELSE sem
    /\ producer' = [producer EXCEPT ![p] = "idle"]
    /\ UNCHANGED <<running, queue, worker, owner, starts, submitted, taken>>

\* Condition::signal, after the mutex was given back.
Signal(p) ==
    /\ producer[p] = "signal"
    /\ sem' = Released(1)
    /\ producer' = [producer EXCEPT ![p] = "idle"]
    /\ UNCHANGED <<running, queue, worker, owner, starts, submitted, taken>>

-----------------------------------------------------------------------------
(* start and stop                                                          *)

Start ==
    /\ owner \in {"new", "stopped"}
    /\ starts < MaxStarts
    /\ starts' = starts + 1
    /\ running' = TRUE
    /\ worker' = [w \in Workers |-> "none"]
    /\ owner' = "starting"
    /\ UNCHANGED <<queue, sem, producer, submitted, taken>>

\* start creates its threads in turn.
StartThread(w) ==
    /\ owner = "starting"
    /\ worker[w] = "none"
    /\ \A v \in 1..(w - 1) : worker[v] # "none"
    /\ worker' = [worker EXCEPT ![w] = "check"]
    /\ owner' = IF w = NumWorkers THEN "idle" ELSE "starting"
    /\ UNCHANGED <<running, queue, sem, starts, producer, submitted, taken>>

Quiet == queue = <<>> /\ \A p \in Producers : producer[p] = "idle"

\* stop, or the destructor.
Stop ==
    /\ owner = "idle"
    /\ StopWhenQuiet => Quiet
    /\ running' = FALSE
    /\ owner' = "clear"
    /\ UNCHANGED <<queue, sem, worker, starts, producer, submitted, taken>>

ClearQueue ==
    /\ owner = "clear"
    /\ queue' = <<>>
    /\ owner' = "broadcast"
    /\ UNCHANGED <<running, sem, worker, starts, producer, submitted, taken>>

\* Faulty variant: one token for all workers.
Broadcast_One ==
    /\ owner = "broadcast"
    /\ sem' = Released(1)
    /\ owner' = "join"
    /\ UNCHANGED <<running, queue, worker, starts, producer, submitted, taken>>

\* Condition::broadcast: LONG_MAX tokens, or none if one is left.
Broadcast ==
    /\ owner = "broadcast"
    /\ sem' = Released(MaxCount)
    /\ owner' = "join"
    /\ UNCHANGED <<running, queue, worker, starts, producer, submitted, taken>>

\* Faulty variant: no waiting.
Join_NoWait ==
    /\ owner = "join"
    /\ owner' = "stopped"
    /\ UNCHANGED <<running, queue, sem, worker, starts, producer, submitted, taken>>

\* All threads were joined in turn.
Join ==
    /\ owner = "join"
    /\ \A w \in Workers : worker[w] = "exited"
    /\ owner' = "stopped"
    /\ UNCHANGED <<running, queue, sem, worker, starts, producer, submitted, taken>>

-----------------------------------------------------------------------------
Work(w) == CheckRunning(w) \/ Wake(w) \/ TakeTask(w) \/ TaskReturns(w)

Starting == Start \/ \E w \in Workers : StartThread(w)
Stopping == ClearQueue \/ Broadcast \/ Join

Next ==
    \/ \E w \in Workers : Work(w)
    \/ \E p \in Producers : Signal(p) \/ \E t \in Tasks : Push(p, t)
    \/ Starting \/ Stop \/ Stopping

\* Every thread that can run does; tasks return; nobody has to call execute_task
\* or stop.
Fairness ==
    /\ \A w \in Workers : WF_vars(Work(w))
    /\ \A p \in Producers : WF_vars(Signal(p))
    /\ WF_vars(Starting)
    /\ WF_vars(Stopping)

Spec == Init /\ [][Next]_vars /\ Fairness

-----------------------------------------------------------------------------
(* Properties                                                              *)

\* The threads somewhere in a set of places.
At(places) == {w \in Workers : worker[w] \in places}
Signalling == {p \in Producers : producer[p] = "signal"}

\* While the pool runs, every queued task has a token, on the semaphore, with a
\* worker that took it, or about to be added: no task waits while all workers
\* sleep.  In a pool started once it is one token each, so that no worker wakes for
\* nothing, which ThreadPool.cpp:82-85 calls an exception.
TokensMatch ==
    LET tokens == sem + Cardinality(At({"woken"})) + Cardinality(Signalling)
    IN  running => /\ Len(queue) <= tokens
                   /\ starts = 1 => Len(queue) = tokens

\* When stop returns no thread is left behind that uses the pool, and after a
\* stop of a quiet pool every task handed over was taken and has returned.
StoppedMeansDone ==
    owner = "stopped" => /\ At({"exited"}) = Workers
                         /\ ToSet(taken) = submitted

\* The first stop returns: its broadcast reaches every worker that waits or will
\* wait.  A later one need not, when the tokens of the first are nearly used up:
\* one that is left makes broadcast fail.  (ThreadPool.cpp:47, ThreadPool.h:97)
StopTerminates == (owner = "clear" /\ starts = 1) ~> owner = "stopped"

\* A pool stopped only when quiet is a first-in first-out queue that hands every
\* task to one worker, in the order of execute_task, also across stops and starts.
TQ == INSTANCE TaskQueue WITH
        queue <- queue,
        done  <- taken,
        open  <- TRUE

TaskQueueSpec == TQ!Spec
=============================================================================
