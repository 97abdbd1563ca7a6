--------------------------- MODULE EventLoopThread ---------------------------
(***************************************************************************)
(* An EventLoopThread: the thread that makes an EventLoop on its stack and *)
(* runs it, and the owner that starts the thread, uses the loop through    *)
(* the pointer it gets, and ends the thread in the destructor.             *)
(*                                                                         *)
(* The loop is module EventLoop: every step of the thread inside loop(),   *)
(* and every call of the owner and of the other threads, is a step of that *)
(* module, allowed when the thread and the owner have come far enough.     *)
(*                                                                         *)
(* Users keep two rules.  They use the loop from startLoop's return to the *)
(* beginning of the destructor, all calls having returned by then.  And    *)
(* once loop() has returned because somebody else than the destructor quit *)
(* it, they neither use the loop nor destroy its EventLoopThread: _loop    *)
(* points to the stack of a thread that has ended.                         *)
(***************************************************************************)
EXTENDS EventLoop

CONSTANT Owner      \* the thread that calls startLoop and the destructor

ASSUME OwnerAssumption == Owner \in Callers

VARIABLES
    owner,          \* where the owner is
    thread,         \* where the thread is in threadFunc
    loop,           \* EventLoopThread::_loop, which points to the thread's loop
    event           \* EventLoopThread::_event is set (manual reset)

threadVars == <<owner, thread, loop, event>>
allVars == <<vars, threadVars>>

OwnerPc  == {"constructed", "waiting", "running", "quitting", "joining", "destroyed"}
ThreadPc == {"none", "init", "published", "running", "ended"}

ThreadTypeOK ==
    /\ TypeOK
    /\ owner \in OwnerPc /\ thread \in ThreadPc
    /\ loop \in {"null", "set"} /\ event \in BOOLEAN

ThreadInit ==
    /\ Init
    /\ owner = "constructed" /\ thread = "none"
    /\ loop = "null" /\ event = FALSE

-----------------------------------------------------------------------------
(* The thread: EventLoopThread::threadFunc                                 *)

\* The loop exists and the init callback runs: it may queue, or quit in vain.
InitCallback ==
    /\ thread = "init"
    /\ Callback
    /\ UNCHANGED threadVars

\* Faulty variant: the event is set before the pointer.
Publish_EventFirst ==
    /\ thread = "init"
    /\ event' = TRUE
    /\ thread' = "published"
    /\ UNCHANGED <<owner, loop, vars>>

\* The init callback has returned: _loop is set ...
Publish ==
    /\ thread = "init"
    /\ loop' = "set"
    /\ thread' = "published"
    /\ UNCHANGED <<owner, event, vars>>

\* ... and then the event.
SetEvent ==
    /\ thread = "published"
    /\ event' = TRUE
    /\ thread' = "running"
    /\ UNCHANGED <<owner, loop, vars>>

\* loop(); when it returns the loop object goes and the thread ends.
RunLoop ==
    /\ thread = "running"
    /\ LoopStep
    /\ thread' = IF loopPc' = "exited" THEN "ended" ELSE "running"
    /\ UNCHANGED <<owner, loop, event>>

\* What needs no progress of the thread's own: a timeout, a callback's calls.
RunLoopMay ==
    /\ thread = "running" /\ loopPc # "start"
    /\ PollTimeout \/ Callback
    /\ UNCHANGED threadVars

-----------------------------------------------------------------------------
(* The owner                                                               *)

\* startLoop: the thread is started ...
StartLoop ==
    /\ owner = "constructed"
    /\ owner' = "waiting"
    /\ thread' = "init"
    /\ UNCHANGED <<loop, event, vars>>

\* ... and its event waited for.
StartReturns ==
    /\ owner = "waiting" /\ event
    /\ owner' = "running"
    /\ UNCHANGED <<thread, loop, event, vars>>

\* The destructor of one that was never started returns at once.
DestroyUnstarted ==
    /\ owner = "constructed"
    /\ owner' = "destroyed"
    /\ UNCHANGED <<thread, loop, event, vars>>

\* The destructor calls quit: first half.
DestroyQuits ==
    /\ owner = "running" /\ thread # "ended"
    /\ \A c \in Callers : callerPc[c] = "idle"
    /\ SetQuit(Owner)
    /\ owner' = "quitting"
    /\ UNCHANGED <<thread, loop, event>>

\* Faulty variant: quit wakes the loop only from its own thread.
DestroyWakes_Quiet ==
    /\ owner = "quitting"
    /\ callerPc' = [callerPc EXCEPT ![Owner] = "idle"]
    /\ owner' = "joining"
    /\ UNCHANGED <<loopVars, taskVars, loopPc, history, thread, loop, event>>

\* quit, second half.
DestroyWakes ==
    /\ owner = "quitting"
    /\ WakeUp(Owner)
    /\ owner' = "joining"
    /\ UNCHANGED <<thread, loop, event>>

\* Thread::join.
Join ==
    /\ owner = "joining" /\ thread = "ended"
    /\ owner' = "destroyed"
    /\ UNCHANGED <<thread, loop, event, vars>>

-----------------------------------------------------------------------------
(* The users of the loop and the network                                   *)

\* The owner and the others call quit and queueInLoop through startLoop's result.
\* A call's wakeup may come when the loop it belongs to is gone already.
Use(c) ==
    /\ owner = "running"
    /\ thread = "ended" => callerPc[c] = "waking"
    /\ CallerStep(c)
    /\ UNCHANGED threadVars

\* Channels exist in a loop that users have got.
Signal(i) ==
    /\ thread = "running" /\ owner # "waiting"
    /\ SignalChannel(i)
    /\ UNCHANGED threadVars

ThreadStep == Publish \/ SetEvent \/ RunLoop
Destruct   == DestroyWakes \/ Join

ThreadNext ==
    \/ InitCallback \/ ThreadStep \/ RunLoopMay
    \/ StartLoop \/ StartReturns \/ DestroyUnstarted \/ DestroyQuits \/ Destruct
    \/ \E c \in Callers : Use(c)
    \/ \E i \in Channels : Signal(i)

\* Threads run: the loop's, a caller in the middle of a call, and the owner once
\* it waits or destroys.  Callbacks return.  Nobody has to start, use, signal or
\* destroy anything, and nothing may lean on the ten-second poll timeout.
ThreadFairness ==
    /\ WF_allVars(ThreadStep)
    /\ \A c \in Callers : WF_allVars(Use(c) /\ callerPc[c] = "waking")
    /\ WF_allVars(StartReturns)
    /\ WF_allVars(Destruct)

ThreadSpec == ThreadInit /\ [][ThreadNext]_allVars /\ ThreadFairness

-----------------------------------------------------------------------------
(* Properties                                                              *)

\* Whoever has got a loop from startLoop, and the destructor, act on one that
\* exists: the pointer is set before the event that startLoop waits for, and the
\* owner's own flag keeps the destructor away until then.
\* (EventLoopThread.cpp:19-25, 36-41, 58-60)
LoopPublished == owner \in {"running", "quitting", "joining"} => loop = "set"

\* The destructor returns: its quit, whatever the loop and its users are doing,
\* makes loop() return, which join waits for.  It need not when the quit comes
\* before the thread has entered loop(), which startLoop does not wait for and
\* which overwrites the flag.  (EventLoopThread.cpp:25-26, 60-62, EventLoop.cpp:71, 94)
DestructorReturns ==
    (owner \in {"quitting", "joining"} /\ quit /\ loopPc # "start")
        ~> owner = "destroyed"
=============================================================================
