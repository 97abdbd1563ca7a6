----------------------------- MODULE TimerQueue -----------------------------
(***************************************************************************)
(* TimerQueue and Timer on top of an event loop: timers are handed over    *)
(* through the loop's functor queue, kept in two ordered sets, armed on one *)
(* waitable timer, and run by handleRead on the loop thread.               *)
(*                                                                         *)
(* The loop is reduced to what the timers can see of it (module EventLoop  *)
(* has the rest): the wakeup event comes before the timer channel, the     *)
(* timer channel before every other channel, and each round ends with one  *)
(* batch of functors.  The functors are addTimerInLoop and cancelInLoop.   *)
(*                                                                         *)
(* A Timer object is named by its address, which the heap may hand out     *)
(* again after a delete, and by its sequence number, which is never reused. *)
(* One unit of time stands for any number of milliseconds.  Every          *)
(* operation on the two sets is one step: a cancel from another thread     *)
(* that overlaps one of them is a data race, which is not modelled.        *)
(***************************************************************************)
EXTENDS Integers, FiniteSets, Sequences, SequencesExt

CONSTANTS
    Callers,        \* threads other than the loop thread
    NumAddresses,   \* addresses the heap has for Timer objects
    Delays,         \* delays runAfter is called with
    Intervals,      \* intervals runEvery is called with
    ClockErrors,    \* how much later than now one reading of Timestamp::now() may be
    MaxTimers,      \* bound: calls of addTimer
    MaxTime         \* bound: time stops here

ASSUME TimerConstants ==
    /\ NumAddresses \in Nat \ {0}
    /\ Delays \subseteq Nat
    /\ Intervals \subseteq Nat \ {0}
    /\ ClockErrors \subseteq Nat /\ ClockErrors # {}
    /\ MaxTimers \in Nat /\ MaxTime \in Nat

VARIABLES
    now,            \* time, as the earliest reading of it would have it
    heap,           \* address -> Timer object; sequence 0: no object there
    timers,         \* _timers: <<expiration, address>>
    activeTimers,   \* _activeTimers: <<address, sequence>>
    due,            \* when the waitable timer fires; Never if it is not set
    signaled,       \* the waitable timer is signaled (auto reset)
    wakeup,         \* the loop's wakeup event is signaled
    pending,        \* functors queued in the loop
    batch,          \* functors of the running batch
    loopPc,         \* where the loop thread is
    readAt,         \* handleRead: its reading of the clock
    expired,        \* handleRead: what getExpired returned
    nextRun,        \* handleRead: index of the timer to run next
    callerPc,       \* "waking": the caller is about to wake the loop
    ids,            \* history: sequence number -> what addTimer was asked for
    ran,            \* history: sequence numbers whose callback was called
    cancelled,      \* history: sequence numbers cancelled on the loop thread
    cancelledOff    \* history: sequence numbers cancelled from other threads

data    == <<heap, timers, activeTimers>>
alarm   == <<due, signaled>>
queue   == <<wakeup, pending, batch>>
reading == <<readAt, expired, nextRun>>
history == <<ids, ran, cancelled, cancelledOff>>
vars == <<now, data, alarm, queue, loopPc, reading, callerPc, history>>

Addresses == 1..NumAddresses
Never == -1
NoTimer == [sequence |-> 0, expiration |-> 0, interval |-> 0]
Live(a) == heap[a].sequence # 0

TimerObjects == [sequence : 0..MaxTimers, expiration : Nat, interval : Nat]

Functors == [op : {"add", "cancel"}, address : Addresses, sequence : 1..MaxTimers]

LoopPc == {"poll", "run", "callback", "handler", "swap", "batch"}

TypeOK ==
    /\ now \in 0..MaxTime
    /\ heap \in [Addresses -> TimerObjects]
    /\ timers \subseteq Nat \X Addresses
    /\ activeTimers \subseteq Addresses \X (1..MaxTimers)
    /\ due \in Nat \cup {Never} /\ signaled \in BOOLEAN
    /\ wakeup \in BOOLEAN
    /\ pending \in Seq(Functors) /\ batch \in Seq(Functors)
    /\ loopPc \in LoopPc
    /\ readAt \in Nat
    /\ expired \in Seq(Nat \X Addresses)
    /\ nextRun \in 1..(Len(expired) + 1)
    /\ callerPc \in [Callers -> {"idle", "waking"}]
    /\ ids \in Seq([address : Addresses, expiration : Nat, interval : Nat])
    /\ Len(ids) <= MaxTimers
    /\ ran \subseteq DOMAIN ids
    /\ cancelled \subseteq DOMAIN ids /\ cancelledOff \subseteq DOMAIN ids

Init ==
    /\ now = 0
    /\ heap = [a \in Addresses |-> NoTimer]
    /\ timers = {} /\ activeTimers = {}
    /\ due = Never /\ signaled = FALSE
    /\ wakeup = FALSE /\ pending = <<>> /\ batch = <<>>
    /\ loopPc = "poll"
    /\ readAt = 0 /\ expired = <<>> /\ nextRun = 1
    /\ callerPc = [c \in Callers |-> "idle"]
    /\ ids = <<>> /\ ran = {} /\ cancelled = {} /\ cancelledOff = {}

-----------------------------------------------------------------------------
(* The clock and the waitable timer                                        *)

\* What Timestamp::now() may return: it leaves tm_isdst unset before _mktime64.
Readings == {now + e : e \in ClockErrors}

\* resetTimerfd: a new relative due time; setting the timer unsignals it.
ResetTimerfd(expiration) ==
    \E r \in Readings :
        /\ due' = now + (IF expiration > r THEN expiration - r ELSE 0)
        /\ signaled' = FALSE

Tick ==
    /\ now < MaxTime
    /\ now' = now + 1
    /\ UNCHANGED <<data, alarm, queue, loopPc, reading, callerPc, history>>

\* The waitable timer becomes due.
Fire ==
    /\ due # Never /\ due <= now
    /\ signaled' = TRUE
    /\ due' = Never
    /\ UNCHANGED <<now, data, queue, loopPc, reading, callerPc, history>>

-----------------------------------------------------------------------------
(* The two sets                                                            *)

\* Expirations of a set of entries.
Expirations(entries) == {t[1] : t \in entries}

\* Faulty variant: only the first timer counts as the earliest.
EarliestChanged_First(expiration, entries) == entries = {}

\* Faulty variant: a first timer does not count as the earliest.
EarliestChanged_NotEmpty(expiration, entries) ==
    entries # {} /\ \A w \in Expirations(entries) : expiration < w

\* insert's result: nothing in entries expires before or with the timer.
EarliestChanged(expiration, entries) == \A w \in Expirations(entries) : expiration < w

\* addTimerInLoop: insert, and arm the waitable timer for a new earliest one.
AddTimerInLoop(a) ==
    LET timer == heap[a] IN
    /\ timers' = timers \cup {<<timer.expiration, a>>}
    /\ activeTimers' = activeTimers \cup {<<a, timer.sequence>>}
    /\ IF EarliestChanged(timer.expiration, timers)
         THEN ResetTimerfd(timer.expiration)
         ELSE UNCHANGED alarm
    /\ UNCHANGED heap

\* Faulty variant: found by address alone.
Find_ByAddress(a, s) == {t \in activeTimers : t[1] = a}

\* _activeTimers.find: by address and sequence.
Find(a, s) == {t \in activeTimers : t = <<a, s>>}

\* Faulty variant: looked up by the current time.
Erase_ByNow(a) == timers \ {<<now, a>>}

\* _timers.erase, by the expiration the object has.
Erase(a) == timers \ {<<heap[a].expiration, a>>}

\* Faulty variant: the object is kept.
Delete_Leaks(a) == heap

Delete(a) == [heap EXCEPT ![a] = NoTimer]

\* cancelInLoop: if found, erased from both sets and deleted.
CancelInLoop(a, s) ==
    /\ IF Find(a, s) # {}
         THEN /\ timers' = Erase(a)
              /\ activeTimers' = activeTimers \ Find(a, s)
              /\ heap' = Delete(a)
         ELSE UNCHANGED data
    /\ UNCHANGED alarm

-----------------------------------------------------------------------------
(* The loop thread: one round of EventLoop::loop                           *)

\* The wakeup event has the lowest index: no channel is handed out.
PollWakeup ==
    /\ loopPc = "poll" /\ wakeup
    /\ wakeup' = FALSE
    /\ loopPc' = "swap"
    /\ UNCHANGED <<now, data, alarm, pending, batch, reading, callerPc, history>>

\* Another channel, or the poll timeout, with the timer not signaled.
PollOther ==
    /\ loopPc = "poll" /\ ~wakeup
    /\ ~signaled
    /\ loopPc' = "handler"
    /\ UNCHANGED <<now, data, alarm, queue, reading, callerPc, history>>

\* Entries in the order of std::set<Entry>: by expiration, then by address.
Before(t, u) == t[1] < u[1] \/ (t[1] = u[1] /\ t[2] < u[2])

\* Faulty variant: the timer channel goes before the wakeup event.
TimerReady_First == signaled

\* The wait returns the timer channel: it is next after the wakeup event.
TimerReady == ~wakeup /\ signaled

\* The vector that std::copy makes of entries of the ordered set.
InOrder(entries) ==
    {s \in [1..Cardinality(entries) -> entries] :
        /\ Range(s) = entries
        /\ \A i, j \in DOMAIN s : i < j => Before(s[i], s[j])}

\* The entries before getExpired's sentry, which sorts last at the reading r.
HasExpired(t, r) == t[1] <= r

\* Returning from the wait unsignals the timer.  handleRead reads the clock,
\* and getExpired takes what has expired by that reading out of both sets.
\* (Between the wait and the reading other threads can only do what they could
\* as well have done before or after the two.)
GetExpired ==
    /\ loopPc = "poll" /\ TimerReady
    /\ signaled' = FALSE
    /\ \E r \in Readings :
        LET gone == {t \in timers : HasExpired(t, r)} IN
        /\ readAt' = r
        /\ expired' \in InOrder(gone)
        /\ timers' = timers \ gone
        /\ activeTimers' = activeTimers \ {<<t[2], heap[t[2]].sequence>> : t \in gone}
    /\ nextRun' = 1
    /\ loopPc' = "run"
    /\ UNCHANGED <<now, heap, due, queue, callerPc, history>>

\* The next expired timer's callback is called ...
RunTimer ==
    /\ loopPc = "run"
    /\ nextRun <= Len(expired)
    /\ ran' = ran \cup {heap[expired[nextRun][2]].sequence}
    /\ loopPc' = "callback"
    /\ UNCHANGED <<now, data, alarm, queue, reading, callerPc, ids, cancelled, cancelledOff>>

\* ... and returns.
CallbackReturns ==
    /\ loopPc = "callback"
    /\ nextRun' = nextRun + 1
    /\ loopPc' = "run"
    /\ UNCHANGED <<now, data, alarm, queue, readAt, expired, callerPc, history>>

\* Faulty variant: a repeating timer restarts with an invalid time.
Restarted_Invalid(a) == [heap[a] EXCEPT !.expiration = Never]

\* Timer::restart, from the time handleRead read.
Restarted(a) ==
    [heap[a] EXCEPT !.expiration = readAt + heap[a].interval]

\* reset: repeating timers restart and go back into both sets, the others are
\* deleted; then the earliest timer is armed.
ResetExpired ==
    /\ loopPc = "run"
    /\ nextRun > Len(expired)
    /\ LET done   == {t[2] : t \in Range(expired)}
           repeat == {a \in done : heap[a].interval > 0}
       IN  /\ heap' = [a \in Addresses |-> IF a \in repeat THEN Restarted(a)
                                           ELSE IF a \in done THEN NoTimer ELSE heap[a]]
           /\ timers' = timers \cup {<<Restarted(a).expiration, a>> : a \in repeat}
           /\ activeTimers' = activeTimers \cup {<<a, heap[a].sequence>> : a \in repeat}
    /\ \/ timers' = {} /\ UNCHANGED alarm
       \/ \E w \in Expirations(timers') :
            (\A v \in Expirations(timers') : w <= v) /\ ResetTimerfd(w)
    /\ readAt' = 0 /\ expired' = <<>> /\ nextRun' = 1
    /\ loopPc' = "handler"
    /\ UNCHANGED <<now, queue, callerPc, history>>

\* The other channels are handled, or there were none; doPendingFunctors takes
\* the queue.
Swap ==
    /\ loopPc \in {"handler", "swap"}
    /\ batch' = pending
    /\ pending' = <<>>
    /\ loopPc' = "batch"
    /\ UNCHANGED <<now, data, alarm, wakeup, reading, callerPc, history>>

RunFunctor ==
    /\ loopPc = "batch"
    /\ batch # <<>>
    /\ LET f == Head(batch) IN
        \/ f.op = "add" /\ AddTimerInLoop(f.address)
        \/ f.op = "cancel" /\ CancelInLoop(f.address, f.sequence)
    /\ batch' = Tail(batch)
    /\ UNCHANGED <<now, wakeup, pending, loopPc, reading, callerPc, history>>

BatchDone ==
    /\ loopPc = "batch"
    /\ batch = <<>>
    /\ loopPc' = "poll"
    /\ UNCHANGED <<now, data, alarm, queue, reading, callerPc, history>>

-----------------------------------------------------------------------------
(* The users of the queue                                                  *)

\* Code on the loop thread: a timer callback, a channel's handler, a functor.
InLoop == loopPc \in {"callback", "handler", "batch"}

\* What runAfter and runEvery ask for: <<delay, interval>>.
Requests == {<<d, 0>> : d \in Delays} \cup {<<i, i>> : i \in Intervals}

\* addTimer, up to the push: the Timer is made and addTimerInLoop is queued.
QueueTimer(req) ==
    /\ Len(ids) < MaxTimers
    /\ \E a \in Addresses, r \in Readings :
        /\ ~Live(a)
        /\ heap' = [heap EXCEPT ![a] = [sequence   |-> Len(ids) + 1,
                                        expiration |-> r + req[1],
                                        interval   |-> req[2]]]
        /\ ids' = Append(ids, [address |-> a, expiration |-> r + req[1], interval |-> req[2]])
        /\ pending' = Append(pending, [op |-> "add", address |-> a, sequence |-> Len(ids) + 1])
    /\ UNCHANGED <<now, timers, activeTimers, alarm, batch, loopPc, reading, ran, cancelled,
                   cancelledOff>>

\* addTimer on the loop thread.
AddTimer(req) ==
    /\ InLoop
    /\ QueueTimer(req)
    /\ wakeup' = TRUE
    /\ UNCHANGED callerPc

\* addTimer from another thread; the wakeup follows the push.
AddTimerOff(c, req) ==
    /\ callerPc[c] = "idle"
    /\ QueueTimer(req)
    /\ callerPc' = [callerPc EXCEPT ![c] = "waking"]
    /\ UNCHANGED wakeup

WakeUp(c) ==
    /\ callerPc[c] = "waking"
    /\ callerPc' = [callerPc EXCEPT ![c] = "idle"]
    /\ wakeup' = TRUE
    /\ UNCHANGED <<now, data, alarm, pending, batch, loopPc, reading, history>>

\* A timer is cancelled at most once: the history says by whom.
Cancellable == DOMAIN ids \ (cancelled \cup cancelledOff)

\* cancel on the loop thread: runInLoop queues cancelInLoop.
Cancel(s) ==
    /\ InLoop
    /\ s \in Cancellable
    /\ pending' = Append(pending, [op |-> "cancel", address |-> ids[s].address, sequence |-> s])
    /\ wakeup' = TRUE
    /\ cancelled' = cancelled \cup {s}
    /\ UNCHANGED <<now, data, alarm, batch, loopPc, reading, callerPc, ids, ran, cancelledOff>>

\* cancel from another thread: runInLoop runs cancelInLoop at once, right there.
\* (The assertion that it runs on the loop thread is compiled out.)
CancelOff(c, s) ==
    /\ callerPc[c] = "idle"
    /\ s \in Cancellable
    /\ CancelInLoop(ids[s].address, s)
    /\ cancelledOff' = cancelledOff \cup {s}
    /\ UNCHANGED <<now, queue, loopPc, reading, callerPc, ids, ran, cancelled>>

-----------------------------------------------------------------------------
LoopStep ==
    \/ PollWakeup
    \/ GetExpired \/ RunTimer \/ CallbackReturns \/ ResetExpired
    \/ Swap \/ RunFunctor \/ BatchDone

User ==
    \/ \E req \in Requests : AddTimer(req)
    \/ \E s \in Cancellable : Cancel(s)

CallerStep(c) ==
    \/ \E req \in Requests : AddTimerOff(c, req)
    \/ \E s \in Cancellable : CancelOff(c, s)
    \/ WakeUp(c)

Next ==
    \/ Tick \/ Fire
    \/ LoopStep \/ PollOther
    \/ User
    \/ \E c \in Callers : CallerStep(c)

\* Time passes, the waitable timer fires when it is due, the loop thread runs,
\* and a caller that is about to wake the loop does.  Other channels need not
\* be signaled, and the poll timeout is not relied on.
Fairness ==
    /\ WF_vars(Tick) /\ WF_vars(Fire) /\ WF_vars(LoopStep)
    /\ \A c \in Callers : WF_vars(WakeUp(c))

Spec == Init /\ [][Next]_vars /\ Fairness

-----------------------------------------------------------------------------
(* Properties                                                              *)

InHandleRead == loopPc \in {"run", "callback"}

\* The two sets always describe the same timers, all of them alive: what every
\* assertion on their sizes is after.  (TimerQueue.cpp:94, 106, 133, 152, 186, 207)
SetsAgree ==
    /\ timers = {<<heap[t[1]].expiration, t[1]>> : t \in activeTimers}
    /\ \A t \in activeTimers : t[2] = heap[t[1]].sequence

\* A Timer object has exactly one owner from new to delete: a queued functor,
\* the two sets, or the vector handleRead works on.  So none leaks, none is
\* deleted twice, and no raw pointer dangles.  (TimerQueue.cpp:64, 102, 172)
Owners(a) ==
    LET queued == batch \o pending IN
      Cardinality({i \in DOMAIN queued : queued[i].op = "add" /\ queued[i].address = a})
    + Cardinality({t \in timers : t[2] = a})
    + Cardinality({i \in DOMAIN expired : expired[i][2] = a})

OneOwner == \A a \in Addresses : Owners(a) = IF Live(a) THEN 1 ELSE 0

\* While there are timers, outside handleRead, the waitable timer is signaled or
\* set no later than the earliest of them, whatever was inserted, cancelled or
\* fired for nothing since it was armed.  (TimerQueue.cpp:83-88, 176-180, 188-194)
AlarmSet ==
    timers # {} /\ ~InHandleRead =>
        \/ signaled
        \/ due # Never /\ \A w \in Expirations(timers) : due <= w \/ due <= now

\* A timer that is neither cancelled nor a one-shot that has run is still there,
\* under the address and sequence its TimerId names: a cancel with a stale
\* TimerId never takes a timer that lives at a reused address.
\* (TimerQueue.cpp:96-104)
NoTimerLost ==
    \A s \in DOMAIN ids :
        \/ s \in cancelled \cup cancelledOff
        \/ ids[s].interval = 0 /\ s \in ran
        \/ heap[ids[s].address].sequence = s

\* Once loop-thread code has cancelled a timer, no later handleRead picks it,
\* though the cancel is only queued: the wakeup event goes before the timer
\* channel.  (TimerQueue.cpp:72-76, EventLoop.cpp:109-119, Poller.cpp:30, 74-75)
CancelIsPrompt ==
    [][loopPc = "poll" /\ loopPc' = "run" =>
         \A t \in Range(expired') : heap[t[2]].sequence \notin cancelled]_vars

\* Every timer that expires before time stops is run, unless it is cancelled.
TimerServed ==
    \A s \in 1..MaxTimers :
        (s \in DOMAIN ids /\ ids[s].expiration <= MaxTime) ~>
            (s \in ran \cup cancelled \cup cancelledOff)

\* "Cancels the timer.  Safe to call from other threads." (EventLoop.h:54-55):
\* when the loop has nothing queued, no cancelled timer is still active.  It
\* fails for a cancel from another thread that overtakes its timer's own queued
\* addTimerInLoop, or that finds the timer in the vector of a handleRead.
CancelTakesEffect ==
    loopPc = "poll" /\ pending = <<>> =>
        \A t \in activeTimers : t[2] \notin cancelled \cup cancelledOff
=============================================================================
