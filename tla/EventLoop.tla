----------------------------- MODULE EventLoop -----------------------------
(***************************************************************************)
(* EventLoop::loop with the wait of Poller::poll: one thread (the loop     *)
(* thread) that waits for events, dispatches the signaled channels and     *)
(* runs the functors other threads, handlers and functors queue.           *)
(*                                                                         *)
(* The poller waits on an array of Windows events.  Index 0 is the wakeup  *)
(* event, 1..NumChannels are the channels; index 1 is the timer channel,   *)
(* which TimerQueue's constructor registers before any other and nobody    *)
(* removes while the loop runs.  What registering and removing channels    *)
(* does to the array is the subject of module ChannelTable.                *)
(*                                                                         *)
(* Callers are threads other than the loop thread.  A functor is posted at *)
(* most once, which names the call, not the callable.  runInLoop off the   *)
(* loop thread runs its argument at once in the calling thread and touches *)
(* nothing of the loop, so it has no action here; what comes of that is in *)
(* module TimerQueue.                                                      *)
(***************************************************************************)
EXTENDS Naturals, Sequences, SequencesExt

CONSTANTS
    Callers,        \* threads that call queueInLoop, runInLoop and quit
    Functors,       \* the calls of queueInLoop, and of runInLoop on the loop thread
    NumChannels     \* channels registered with the poller

ASSUME NumChannelsAssumption == NumChannels \in Nat \ {0}

VARIABLES
    quit,           \* EventLoop::_quit
    wakeup,         \* Poller::_wakeupEvent is signaled (manual reset)
    signaled,       \* indices of the channel events that are signaled
    scanFrom,       \* Poller::poll: first index of the next zero-timeout wait
    active,         \* EventLoop::loop: activeChannels not dispatched yet
    pending,        \* EventLoop::_pendingFunctors, guarded by _mutex
    functors,       \* doPendingFunctors: functors of the batch not run yet
    loopPc,         \* where the loop thread is
    callerPc,       \* "waking": the caller is about to call Poller::wakeup
    posted,         \* history: functors in the order they were queued
    ran             \* history: functors in the order the loop thread ran them

loopVars  == <<quit, wakeup, signaled, scanFrom, active>>
taskVars  == <<pending, functors>>
history   == <<posted, ran>>
vars == <<loopVars, taskVars, loopPc, callerPc, history>>

Channels == 1..NumChannels

LoopPc == {"start", "check", "poll", "reset", "scan", "dispatch",
           "handler", "swap", "batch", "functor", "exited"}

TypeOK ==
    /\ quit \in BOOLEAN /\ wakeup \in BOOLEAN
    /\ signaled \subseteq Channels
    /\ scanFrom \in 1..(NumChannels + 1)
    /\ active \in Seq(Channels)
    /\ pending \in Seq(Functors) /\ functors \in Seq(Functors)
    /\ loopPc \in LoopPc
    /\ callerPc \in [Callers -> {"idle", "waking"}]
    /\ posted \in Seq(Functors) /\ ran \in Seq(Functors)

\* The constructor: no event is signaled, nothing is queued.
Init ==
    /\ quit = FALSE /\ wakeup = FALSE
    /\ signaled = {}
    /\ scanFrom = 1
    /\ active = <<>>
    /\ pending = <<>> /\ functors = <<>>
    /\ loopPc = "start"
    /\ callerPc = [c \in Callers |-> "idle"]
    /\ posted = <<>> /\ ran = <<>>

-----------------------------------------------------------------------------
(* The loop thread: EventLoop::loop and Poller::poll                       *)

\* loop() is entered.  It clears _quit: a quit() before this moment is lost.
EnterLoop ==
    /\ loopPc = "start"
    /\ quit' = FALSE
    /\ loopPc' = "check"
    /\ UNCHANGED <<wakeup, signaled, scanFrom, active, taskVars, callerPc, history>>

\* The loop condition: _quit is read and loop() returns.
LeaveLoop ==
    /\ loopPc = "check"
    /\ quit
    /\ loopPc' = "exited"
    /\ UNCHANGED <<loopVars, taskVars, callerPc, history>>

\* The loop condition holds: activeChannels is cleared and the wait begins.
BeginPoll ==
    /\ loopPc = "check"
    /\ ~quit
    /\ active' = <<>>
    /\ scanFrom' = 1
    /\ loopPc' = "poll"
    /\ UNCHANGED <<quit, wakeup, signaled, taskVars, callerPc, history>>

\* Faulty variant: the wakeup event is handed out like a channel.
PollWakeup_HandedOut ==
    /\ loopPc = "poll"
    /\ wakeup
    /\ active' = <<0>>
    /\ loopPc' = "dispatch"
    /\ UNCHANGED <<quit, wakeup, signaled, scanFrom, taskVars, callerPc, history>>

\* The wait returns index 0, whatever else is signaled: the lowest index wins.
PollWakeup ==
    /\ loopPc = "poll"
    /\ wakeup
    /\ loopPc' = "reset"
    /\ UNCHANGED <<loopVars, taskVars, callerPc, history>>

\* WSAResetEvent on the wakeup event; poll() returns without any channel.
ResetWakeup ==
    /\ loopPc = "reset"
    /\ wakeup' = FALSE
    /\ loopPc' = "swap"
    /\ UNCHANGED <<quit, signaled, scanFrom, active, taskVars, callerPc, history>>

\* The indices a wait over _events[scanFrom..] can return.
Candidates == {i \in signaled : i >= scanFrom}

\* Faulty variant: the zero-timeout waits start over at the first channel.
NextStart_StartOver(i) == 1

\* Where the wait after the one that returned i starts.
NextStart(i) == i + 1

\* Faulty variant: the events behind the one returned are reset as well.
ResetEvent_Rest(i) == signaled \ {j \in signaled : j >= i}

\* WSAResetEvent, or the auto reset of the waitable timer.
ResetEvent(i) == signaled \ {i}

\* A wait returns the lowest signaled index; the event is reset and its
\* channel becomes active.  The first wait includes the wakeup event.
Collect ==
    /\ \/ loopPc = "poll" /\ ~wakeup
       \/ loopPc = "scan"
    /\ \E i \in Candidates :
        /\ \A j \in Candidates : i <= j
        /\ signaled' = ResetEvent(i)
        /\ active' = Append(active, i)
        /\ scanFrom' = NextStart(i)
    /\ loopPc' = "scan"
    /\ UNCHANGED <<quit, wakeup, taskVars, callerPc, history>>

\* No event from scanFrom on is signaled (or there is none): poll() returns.
ScanDone ==
    /\ loopPc = "scan"
    /\ Candidates = {}
    /\ loopPc' = "dispatch"
    /\ UNCHANGED <<loopVars, taskVars, callerPc, history>>

\* g_pollTimeountMs elapsed with nothing signaled.
PollTimeout ==
    /\ loopPc = "poll"
    /\ ~wakeup /\ signaled = {}
    /\ loopPc' = "swap"
    /\ UNCHANGED <<loopVars, taskVars, callerPc, history>>

\* The next active channel's handleEvent is called.
HandleEvent ==
    /\ loopPc = "dispatch"
    /\ active # <<>>
    /\ loopPc' = "handler"
    /\ UNCHANGED <<loopVars, taskVars, callerPc, history>>

\* ... and returns.
HandlerReturns ==
    /\ loopPc = "handler"
    /\ active' = Tail(active)
    /\ loopPc' = "dispatch"
    /\ UNCHANGED <<quit, wakeup, signaled, scanFrom, taskVars, callerPc, history>>

\* All active channels are handled: on to doPendingFunctors.
DispatchDone ==
    /\ loopPc = "dispatch"
    /\ active = <<>>
    /\ loopPc' = "swap"
    /\ UNCHANGED <<loopVars, taskVars, callerPc, history>>

-----------------------------------------------------------------------------
(* The loop thread: EventLoop::doPendingFunctors                           *)

\* Faulty variant: the queue is copied, not swapped.
Swap_Copy ==
    /\ loopPc = "swap"
    /\ functors' = pending
    /\ loopPc' = "batch"
    /\ UNCHANGED <<loopVars, pending, callerPc, history>>

\* Under _mutex the whole queue becomes the batch.
Swap ==
    /\ loopPc = "swap"
    /\ functors' = pending
    /\ pending' = <<>>
    /\ loopPc' = "batch"
    /\ UNCHANGED <<loopVars, callerPc, history>>

\* Faulty variant: the batch is run from its back.
RunFunctor_LastFirst ==
    /\ loopPc = "batch"
    /\ functors # <<>>
    /\ ran' = Append(ran, Last(functors))
    /\ functors' = Front(functors)
    /\ loopPc' = "functor"
    /\ UNCHANGED <<loopVars, pending, callerPc, posted>>

\* The next functor of the batch is called.
RunFunctor ==
    /\ loopPc = "batch"
    /\ functors # <<>>
    /\ ran' = Append(ran, Head(functors))
    /\ functors' = Tail(functors)
    /\ loopPc' = "functor"
    /\ UNCHANGED <<loopVars, pending, callerPc, posted>>

FunctorReturns ==
    /\ loopPc = "functor"
    /\ loopPc' = "batch"
    /\ UNCHANGED <<loopVars, taskVars, callerPc, history>>

BatchDone ==
    /\ loopPc = "batch"
    /\ functors = <<>>
    /\ loopPc' = "check"
    /\ UNCHANGED <<loopVars, taskVars, callerPc, history>>

-----------------------------------------------------------------------------
(* What the thread does outside loop(), in a handler or in a functor       *)

\* The thread has made the loop and not entered loop() yet, or is in a callback.
InUserCode == loopPc \in {"start", "handler", "functor"}

Fresh(f) == f \notin Range(posted)

\* Faulty variant: no wakeup, since the loop thread is not waiting.
LoopPost_NoWakeup(f) ==
    /\ InUserCode
    /\ Fresh(f)
    /\ pending' = Append(pending, f)
    /\ posted' = Append(posted, f)
    /\ UNCHANGED <<loopVars, functors, loopPc, callerPc, ran>>

\* queueInLoop, and runInLoop too: on the loop thread it queues.  Nobody but
\* the loop thread resets the event, so push and wakeup need not be split.
LoopPost(f) ==
    /\ InUserCode
    /\ Fresh(f)
    /\ pending' = Append(pending, f)
    /\ posted' = Append(posted, f)
    /\ wakeup' = TRUE
    /\ UNCHANGED <<quit, signaled, scanFrom, active, functors, loopPc, callerPc, ran>>

\* quit() on the loop thread: no wakeup, the loop condition is read next, or
\* overwritten when loop() has not been entered.
LoopQuit ==
    /\ InUserCode
    /\ quit' = TRUE
    /\ UNCHANGED <<wakeup, signaled, scanFrom, active, taskVars, loopPc, callerPc,
                   history>>

-----------------------------------------------------------------------------
(* The other threads                                                       *)

\* queueInLoop, first half: push_back under _mutex.
PushFunctor(c, f) ==
    /\ callerPc[c] = "idle"
    /\ Fresh(f)
    /\ pending' = Append(pending, f)
    /\ posted' = Append(posted, f)
    /\ callerPc' = [callerPc EXCEPT ![c] = "waking"]
    /\ UNCHANGED <<loopVars, functors, loopPc, ran>>

\* Faulty variant: the flag is set without a wakeup.
SetQuit_NoWakeup(c) ==
    /\ callerPc[c] = "idle"
    /\ quit' = TRUE
    /\ UNCHANGED <<wakeup, signaled, scanFrom, active, taskVars, loopPc, callerPc,
                   history>>

\* quit, first half: the flag is set.
SetQuit(c) ==
    /\ callerPc[c] = "idle"
    /\ quit' = TRUE
    /\ callerPc' = [callerPc EXCEPT ![c] = "waking"]
    /\ UNCHANGED <<wakeup, signaled, scanFrom, active, taskVars, loopPc, history>>

\* queueInLoop and quit, second half: Poller::wakeup.
WakeUp(c) ==
    /\ callerPc[c] = "waking"
    /\ wakeup' = TRUE
    /\ callerPc' = [callerPc EXCEPT ![c] = "idle"]
    /\ UNCHANGED <<quit, signaled, scanFrom, active, taskVars, loopPc, history>>

\* The network or the waitable timer signals a channel's event.
SignalChannel(i) ==
    /\ signaled' = signaled \cup {i}
    /\ UNCHANGED <<quit, wakeup, scanFrom, active, taskVars, loopPc, callerPc, history>>

-----------------------------------------------------------------------------
LoopStep ==
    \/ EnterLoop \/ LeaveLoop \/ BeginPoll
    \/ PollWakeup \/ ResetWakeup \/ Collect \/ ScanDone
    \/ HandleEvent \/ HandlerReturns \/ DispatchDone
    \/ Swap \/ RunFunctor \/ FunctorReturns \/ BatchDone

Callback == (\E f \in Functors : LoopPost(f)) \/ LoopQuit

CallerStep(c) ==
    \/ \E f \in Functors : PushFunctor(c, f)
    \/ SetQuit(c)
    \/ WakeUp(c)

Next ==
    \/ LoopStep
    \/ PollTimeout
    \/ Callback
    \/ \E c \in Callers : CallerStep(c)
    \/ \E i \in Channels : SignalChannel(i)

\* What is fair about it is up to the thread that runs the loop: EventLoopThread.
Spec == Init /\ [][Next]_vars
-----------------------------------------------------------------------------
(* Properties                                                              *)

\* No functor is lost, duplicated or overtaken on its way through queueInLoop,
\* the swap and the batch: what was queued is, in order, what ran, then what is
\* left of the batch, then what still waits.  (EventLoop.cpp:100-107, 164-176)
TasksConserved == posted = ran \o functors \o pending

\* The loop thread never waits on a quiet wakeup event with functors queued:
\* the event is signaled, a caller is about to signal it, or the loop thread is
\* on its way to the swap.  Resetting the event before the swap, and signaling
\* it after the push, are what make this true.  (Poller.cpp:75, EventLoop.cpp:103-106)
NoLostWakeup ==
    pending # <<>> =>
        \/ wakeup
        \/ \E c \in Callers : callerPc[c] = "waking"
        \/ loopPc = "swap"

\* The loop thread never waits with a quit unnoticed, whenever the flag was set
\* between the loop condition and the wait.  (EventLoop.cpp:75, 92-98)
NoLostQuit ==
    loopPc = "poll" /\ quit =>
        wakeup \/ \E c \in Callers : callerPc[c] = "waking"

\* A poll hands out each channel at most once, in ascending order of index, so
\* the timer channel goes first: the moving start index of the zero-timeout
\* waits, with events signaled again behind it.  (Poller.cpp:39-70)
PollInOrder ==
    \A i, j \in 1..Len(active) : i < j => active[i] < active[j]

\* A batch only shrinks until the loop condition was read again: what a functor
\* queues waits for the next round, so a functor that queues itself cannot keep
\* the loop from polling.  (EventLoop.cpp:166-175)
BatchNeverGrows ==
    [][loopPc # "swap" =>
            \/ functors' = functors
            \/ functors # <<>> /\ functors' = Tail(functors)]_vars

\* Once a running loop has been told to quit it returns, whoever told it and
\* whatever it was doing, without the help of the poll timeout.
QuitTerminates == (quit /\ loopPc # "start") ~> (loopPc = "exited")

\* A signaled channel gets its handler called, unless the loop returns: the
\* priority of the wakeup event only delays it, as long as the supply of
\* functors is finite.
ChannelServed ==
    \A i \in Channels :
        i \in signaled ~> \/ loopPc = "handler" /\ Head(active) = i
                          \/ loopPc = "exited"

\* The loop is the abstract task queue: what callers see of the pending vector,
\* the batch and the wakeup protocol is a queue that is always worked on.
TQ == INSTANCE TaskQueue WITH
        Tasks <- Functors,
        queue <- functors \o pending,
        done  <- ran,
        open  <- loopPc # "exited"

TaskQueueSpec == TQ!Spec
=============================================================================
