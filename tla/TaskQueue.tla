----------------------------- MODULE TaskQueue -----------------------------
(***************************************************************************)
(* What an event loop promises to the threads that hand functors to it:    *)
(* a first-in first-out queue whose entries are executed one at a time, in *)
(* the order they were handed over, each once, until the loop is closed.   *)
(* Entries still in the queue at that moment, or handed over later, are    *)
(* never executed.                                                         *)
(***************************************************************************)
EXTENDS SequencesExt

CONSTANT Tasks      \* what can be handed over; each at most once

VARIABLES
    queue,          \* handed over and not yet executed
    done,           \* executed, in the order of execution
    open            \* FALSE once the loop has returned

vars == <<queue, done, open>>

Init ==
    /\ queue = <<>>
    /\ done = <<>>
    /\ open = TRUE

\* A new entry goes to the back, also when nobody will execute it any more.
Post(t) ==
    /\ t \notin Range(queue) \cup Range(done)
    /\ queue' = Append(queue, t)
    /\ UNCHANGED <<done, open>>

\* The oldest entry is executed.
Execute ==
    /\ open
    /\ queue # <<>>
    /\ done' = Append(done, Head(queue))
    /\ queue' = Tail(queue)
    /\ open' = open

\* The loop returns; no entry is executed after that.
Close ==
    /\ open
    /\ open' = FALSE
    /\ UNCHANGED <<queue, done>>

Next == (\E t \in Tasks : Post(t)) \/ Execute \/ Close

SafetySpec == Init /\ [][Next]_vars

\* An open queue that is not empty is worked on.
Spec == SafetySpec /\ WF_vars(Execute)
=============================================================================
