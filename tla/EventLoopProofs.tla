-------------------------- MODULE EventLoopProofs --------------------------
(***************************************************************************)
(* Proofs about module EventLoop, for every set of callers and functors    *)
(* and every number of channels, and, at the end, about EventLoopThread:   *)
(* the thread and its owner run the loop of module EventLoop, so what is   *)
(* shown of it holds of the loop that an EventLoopThread publishes, and    *)
(* nobody gets that loop early.                                            *)
(***************************************************************************)
EXTENDS EventLoopThread, SequenceTheorems, TLAPS

(* The parts of the inductive invariants, next to the properties themselves. *)

\* A handler runs for the first of the active channels.
HandlerInv == loopPc = "handler" => active # <<>>

\* Outside doPendingFunctors no batch is left over.
BatchInv == functors # <<>> => loopPc \in {"batch", "functor"}

\* While polling, everything collected lies before the next start index.
ScanInv ==
    /\ loopPc = "poll" => active = <<>>
    /\ loopPc = "scan" => \A i \in 1..Len(active) : active[i] < scanFrom

Typing == TypeOK /\ HandlerInv

-----------------------------------------------------------------------------
\* The constructor's state is typed.
LEMMA TypingInit == Init => Typing
<1> SUFFICES ASSUME Init PROVE Typing
  OBVIOUS
<1>1. scanFrom \in 1..(NumChannels + 1)
  BY NumChannelsAssumption DEF Init
<1>2. callerPc \in [Callers -> {"idle", "waking"}]
  BY DEF Init
<1>3. /\ active \in Seq(Channels) /\ pending \in Seq(Functors) /\ functors \in Seq(Functors)
      /\ posted \in Seq(Functors) /\ ran \in Seq(Functors)
  BY EmptySeq DEF Init
<1> QED
  BY <1>1, <1>2, <1>3 DEF Init, Typing, TypeOK, HandlerInv, LoopPc

\* Every action keeps the variables in their types, and a handler has a channel.
LEMMA TypingStep == Typing /\ [Next]_vars => Typing'
<1> SUFFICES ASSUME Typing, [Next]_vars PROVE Typing'
  OBVIOUS
<1> USE NumChannelsAssumption DEF Typing, TypeOK, HandlerInv, LoopPc, Channels,
        loopVars, taskVars, history
<1>1. CASE EnterLoop      BY <1>1 DEF EnterLoop
<1>2. CASE LeaveLoop      BY <1>2 DEF LeaveLoop
<1>3. CASE BeginPoll      BY <1>3, EmptySeq DEF BeginPoll
<1>4. CASE PollWakeup     BY <1>4 DEF PollWakeup
<1>5. CASE ResetWakeup    BY <1>5 DEF ResetWakeup
<1>6. CASE Collect
  <2>1. PICK i \in Candidates : /\ signaled' = signaled \ {i}
                               /\ active' = Append(active, i)
                               /\ scanFrom' = i + 1
    BY <1>6 DEF Collect, NextStart, ResetEvent
  <2>2. i \in 1..NumChannels
    BY DEF Candidates
  <2>3. scanFrom' \in 1..(NumChannels + 1)
    BY <2>1, <2>2
  <2>4. active' \in Seq(Channels)
    BY <2>1, <2>2, AppendProperties
  <2> QED
    BY <1>6, <2>1, <2>3, <2>4 DEF Collect
<1>7. CASE ScanDone       BY <1>7 DEF ScanDone
<1>8. CASE HandleEvent    BY <1>8 DEF HandleEvent
<1>9. CASE HandlerReturns BY <1>9, HeadTailProperties DEF HandlerReturns
<1>10. CASE DispatchDone  BY <1>10 DEF DispatchDone
<1>11. CASE Swap          BY <1>11, EmptySeq DEF Swap
<1>12. CASE RunFunctor    BY <1>12, HeadTailProperties, AppendProperties DEF RunFunctor
<1>13. CASE FunctorReturns BY <1>13 DEF FunctorReturns
<1>14. CASE BatchDone     BY <1>14 DEF BatchDone
<1>15. CASE PollTimeout   BY <1>15 DEF PollTimeout
<1>16. ASSUME NEW f \in Functors, LoopPost(f) PROVE Typing'
  BY <1>16, AppendProperties DEF LoopPost, InUserCode
<1>17. CASE LoopQuit      BY <1>17 DEF LoopQuit
<1>18. ASSUME NEW c \in Callers, NEW f \in Functors, PushFunctor(c, f) PROVE Typing'
  BY <1>18, AppendProperties DEF PushFunctor
<1>19. ASSUME NEW c \in Callers, SetQuit(c) PROVE Typing'
  BY <1>19 DEF SetQuit
<1>20. ASSUME NEW c \in Callers, WakeUp(c) PROVE Typing'
  BY <1>20 DEF WakeUp
<1>21. ASSUME NEW i \in Channels, SignalChannel(i) PROVE Typing'
  BY <1>21 DEF SignalChannel
<1>22. CASE UNCHANGED vars BY <1>22 DEF vars
<1> QED
  BY <1>1, <1>2, <1>3, <1>4, <1>5, <1>6, <1>7, <1>8, <1>9, <1>10, <1>11, <1>12, <1>13,
     <1>14, <1>15, <1>16, <1>17, <1>18, <1>19, <1>20, <1>21, <1>22
  DEF Next, LoopStep, Callback, CallerStep

\* Type correctness: in every reachable state each variable has its type.
THEOREM TypeCorrect == Spec => []TypeOK
<1>1. Typing => TypeOK  BY DEF Typing
<1> QED  BY <1>1, TypingInit, TypingStep, PTL DEF Spec

-----------------------------------------------------------------------------
(* The wakeup protocol.                                                     *)

\* Only a caller's own WakeUp ends its waking, and it signals the event.
LEMMA WakingEnds ==
  ASSUME Typing, [Next]_vars, NEW c \in Callers, callerPc[c] = "waking"
  PROVE  callerPc'[c] = "waking" \/ wakeup'
<1> USE DEF Typing, TypeOK, loopVars, taskVars, history
<1>1. CASE LoopStep \/ PollTimeout \/ Callback
  BY <1>1 DEF LoopStep, Callback, EnterLoop, LeaveLoop, BeginPoll, PollWakeup, ResetWakeup,
     Collect, ScanDone, HandleEvent, HandlerReturns, DispatchDone, Swap, RunFunctor,
     FunctorReturns, BatchDone, PollTimeout, LoopPost, LoopQuit
<1>2. CASE \E d \in Callers : CallerStep(d)
  BY <1>2 DEF CallerStep, PushFunctor, SetQuit, WakeUp
<1>3. CASE \E i \in Channels : SignalChannel(i)
  BY <1>3 DEF SignalChannel
<1>4. CASE UNCHANGED vars
  BY <1>4 DEF vars
<1> QED
  BY <1>1, <1>2, <1>3, <1>4 DEF Next

\* The event is reset on the way to the swap and nowhere else.
LEMMA WakeupReset ==
  ASSUME [Next]_vars, wakeup
  PROVE  wakeup' \/ loopPc' = "swap"
<1> USE DEF loopVars, taskVars, history
<1>1. CASE LoopStep \/ PollTimeout \/ Callback
  BY <1>1 DEF LoopStep, Callback, EnterLoop, LeaveLoop, BeginPoll, PollWakeup, ResetWakeup,
     Collect, ScanDone, HandleEvent, HandlerReturns, DispatchDone, Swap, RunFunctor,
     FunctorReturns, BatchDone, PollTimeout, LoopPost, LoopQuit
<1>2. CASE \E d \in Callers : CallerStep(d)
  BY <1>2 DEF CallerStep, PushFunctor, SetQuit, WakeUp
<1>3. CASE \E i \in Channels : SignalChannel(i)
  BY <1>3 DEF SignalChannel
<1>4. CASE UNCHANGED vars
  BY <1>4 DEF vars
<1> QED
  BY <1>1, <1>2, <1>3, <1>4 DEF Next

\* Someone is bound to signal the event, or it is signaled.
Covered == wakeup \/ \E c \in Callers : callerPc[c] = "waking"

\* Cover is only lost on the way to the swap.
LEMMA CoverLasts ==
  ASSUME Typing, [Next]_vars, Covered
  PROVE  Covered' \/ loopPc' = "swap"
<1>1. CASE wakeup
  BY <1>1, WakeupReset DEF Covered
<1>2. CASE \E c \in Callers : callerPc[c] = "waking"
  BY <1>2, WakingEnds DEF Covered
<1> QED
  BY <1>1, <1>2 DEF Covered

\* Functors that wait stay covered until the loop thread is about to take them.
LEMMA NoLostWakeupStep ==
  ASSUME Typing, NoLostWakeup, [Next]_vars
  PROVE  NoLostWakeup'
<1> SUFFICES ASSUME pending' # <<>>, loopPc' # "swap" PROVE Covered'
  BY DEF NoLostWakeup, Covered
<1> USE DEF Typing, TypeOK, loopVars, taskVars, history
<1>1. CASE pending' = pending
  <2>1. loopPc = "swap" => loopPc' = "swap"
    BY <1>1 DEF Next, LoopStep, Callback, CallerStep, EnterLoop, LeaveLoop, BeginPoll,
       PollWakeup, ResetWakeup, Collect, ScanDone, HandleEvent, HandlerReturns, DispatchDone,
       Swap, RunFunctor, FunctorReturns, BatchDone, PollTimeout, LoopPost, LoopQuit,
       PushFunctor, SetQuit, WakeUp, SignalChannel, vars
  <2>2. Covered
    BY <1>1, <2>1 DEF NoLostWakeup, Covered
  <2> QED
    BY <2>2, CoverLasts
<1>2. CASE pending' # pending
  <2>1. CASE Swap
    BY <2>1 DEF Swap
  <2>2. ASSUME NEW f \in Functors, LoopPost(f) PROVE Covered'
    BY <2>2 DEF LoopPost, Covered
  <2>3. ASSUME NEW c \in Callers, NEW f \in Functors, PushFunctor(c, f) PROVE Covered'
    BY <2>3 DEF PushFunctor, Covered
  <2> QED
    BY <1>2, <2>1, <2>2, <2>3
    DEF Next, LoopStep, Callback, CallerStep, EnterLoop, LeaveLoop, BeginPoll,
       PollWakeup, ResetWakeup, Collect, ScanDone, HandleEvent, HandlerReturns, DispatchDone,
       RunFunctor, FunctorReturns, BatchDone, PollTimeout, LoopQuit,
       SetQuit, WakeUp, SignalChannel, vars
<1> QED
  BY <1>1, <1>2

\* A waiting loop has seen no quit that is not covered.
LEMMA NoLostQuitStep ==
  ASSUME Typing, NoLostQuit, [Next]_vars
  PROVE  NoLostQuit'
<1> SUFFICES ASSUME loopPc' = "poll", quit' PROVE Covered'
  BY DEF NoLostQuit, Covered
<1> USE DEF Typing, TypeOK, loopVars, taskVars, history
<1>1. CASE loopPc = "poll" /\ quit
  BY <1>1, CoverLasts DEF NoLostQuit, Covered
<1>2. CASE \E c \in Callers : CallerStep(c)
  BY <1>2 DEF CallerStep, PushFunctor, SetQuit, WakeUp, Covered
<1>3. CASE ~(loopPc = "poll" /\ quit) /\ ~ \E c \in Callers : CallerStep(c)
  BY <1>3 DEF Next, LoopStep, Callback, EnterLoop, LeaveLoop, BeginPoll,
     PollWakeup, ResetWakeup, Collect, ScanDone, HandleEvent, HandlerReturns, DispatchDone,
     Swap, RunFunctor, FunctorReturns, BatchDone, PollTimeout, LoopPost, LoopQuit,
     InUserCode, SignalChannel, vars
<1> QED
  BY <1>1, <1>2, <1>3

\* No wakeup is lost: the loop never waits uncovered with functors queued.
THEOREM NoWakeupLost == Spec => []NoLostWakeup
<1>1. Init => NoLostWakeup
  BY DEF Init, NoLostWakeup
<1>2. Typing /\ NoLostWakeup /\ [Next]_vars => NoLostWakeup'
  BY NoLostWakeupStep
<1> QED
  BY <1>1, <1>2, TypingInit, TypingStep, PTL DEF Spec

\* No quit is lost by a running loop: it never waits uncovered with _quit set.
THEOREM NoQuitLost == Spec => []NoLostQuit
<1>1. Init => NoLostQuit
  BY DEF Init, NoLostQuit
<1>2. Typing /\ NoLostQuit /\ [Next]_vars => NoLostQuit'
  BY NoLostQuitStep
<1> QED
  BY <1>1, <1>2, TypingInit, TypingStep, PTL DEF Spec

-----------------------------------------------------------------------------
(* The way of a functor: queued, in a batch, run.                           *)

\* Three sequences in a line: what ran, what is left of the batch, what waits.
Line(s, t, u) == s \o t \o u

\* Append under a name the provers do not rewrite.
PutLast(s, e) == Append(s, e)

\* Appending at the back of the queue, seen from the whole line.
LEMMA AppendAtBack ==
  ASSUME NEW S, NEW s \in Seq(S), NEW t \in Seq(S), NEW u \in Seq(S), NEW e \in S
  PROVE  Line(s, t, PutLast(u, e)) = PutLast(Line(s, t, u), e)
<1> USE DEF Line, PutLast
<1>1. s \o t \in Seq(S) /\ <<e>> \in Seq(S) /\ (s \o t) \o u \in Seq(S)
  BY ConcatProperties
<1>2. Append(s \o t \o u, e) = ((s \o t) \o u) \o <<e>>
  BY <1>1, AppendIsConcat
<1>3. @ = (s \o t) \o (u \o <<e>>)
  BY <1>1, ConcatAssociative
<1> QED
  BY <1>2, <1>3, AppendIsConcat

\* A nonempty sequence is its head followed by its tail.
LEMMA HeadThenTail ==
  ASSUME NEW S, NEW s \in Seq(S), s # <<>>
  PROVE  s = <<Head(s)>> \o Tail(s)
<1>1. Head(s) \in S /\ Tail(s) \in Seq(S) /\ Len(Tail(s)) = Len(s) - 1
  BY HeadTailProperties
<1>2. \A i \in 1..Len(Tail(s)) : Tail(s)[i] = s[i + 1]
  BY HeadTailProperties
<1>3. <<Head(s)>> \in Seq(S) /\ Len(<<Head(s)>>) = 1 /\ <<Head(s)>>[1] = s[1]
  BY <1>1
<1>4. /\ <<Head(s)>> \o Tail(s) \in Seq(S)
      /\ Len(<<Head(s)>> \o Tail(s)) = Len(s)
      /\ \A i \in 1..Len(s) : (<<Head(s)>> \o Tail(s))[i] =
                               IF i <= 1 THEN <<Head(s)>>[i] ELSE Tail(s)[i - 1]
  BY <1>1, <1>3, ConcatProperties
<1>5. \A i \in 1..Len(s) : (<<Head(s)>> \o Tail(s))[i] = s[i]
  BY <1>1, <1>2, <1>3, <1>4
<1> QED
  BY <1>4, <1>5, SeqEqual

\* Moving the head of the middle part to the back of the front part.
LEMMA MoveHead ==
  ASSUME NEW S, NEW s \in Seq(S), NEW t \in Seq(S), NEW u \in Seq(S), t # <<>>
  PROVE  /\ Line(s, t, u) = Line(Append(s, Head(t)), Tail(t), u)
         /\ t \o u # <<>>
         /\ Head(t \o u) = Head(t)
         /\ Tail(t \o u) = Tail(t) \o u
<1>1. Head(t) \in S /\ Tail(t) \in Seq(S) /\ <<Head(t)>> \in Seq(S)
  BY HeadTailProperties
<1>2. t = <<Head(t)>> \o Tail(t)
  BY HeadThenTail
<1>3. s \o t = Append(s, Head(t)) \o Tail(t)
  <2>1. s \o (<<Head(t)>> \o Tail(t)) = (s \o <<Head(t)>>) \o Tail(t)
    BY <1>1, ConcatAssociative
  <2>2. Append(s, Head(t)) = s \o <<Head(t)>>
    BY <1>1, AppendIsConcat
  <2> QED
    BY <1>2, <2>1, <2>2
<1>4. t \o u \in Seq(S) /\ Len(t \o u) = Len(t) + Len(u) /\ Len(t) \in Nat \ {0}
  BY ConcatProperties, EmptySeq
<1>5. t \o u # <<>>
  BY ConcatEqualIffEmpty
<1>6. t \o u = <<Head(t)>> \o (Tail(t) \o u) /\ Tail(t) \o u \in Seq(S)
  BY <1>1, <1>2, ConcatAssociative, ConcatProperties
<1>7. t \o u = <<Head(t \o u)>> \o Tail(t \o u)
  BY <1>4, <1>5, HeadThenTail
<1>8. Head(t \o u) = Head(t)
  <2>1. (t \o u)[1] = t[1]
    BY <1>4, ConcatProperties
  <2> QED
    BY <2>1
<1>9. Tail(t \o u) = Tail(t) \o u
  <2>1. Tail(t \o u) \in Seq(S)
    BY <1>4, <1>5, HeadTailProperties
  <2> QED
    BY <1>1, <1>6, <1>7, <1>8, <2>1, ConcatSimplifications
<1> QED
  BY <1>3, <1>5, <1>8, <1>9 DEF Line

\* A batch exists only inside doPendingFunctors.
LEMMA BatchStep ==
  ASSUME Typing, BatchInv, [Next]_vars
  PROVE  BatchInv'
BY DEF BatchInv, Next, LoopStep, Callback, CallerStep, EnterLoop, LeaveLoop, BeginPoll,
   PollWakeup, ResetWakeup, Collect, ScanDone, HandleEvent, HandlerReturns, DispatchDone,
   Swap, RunFunctor, FunctorReturns, BatchDone, PollTimeout, LoopPost, LoopQuit,
   PushFunctor, SetQuit, WakeUp, SignalChannel, vars, loopVars, taskVars, history

\* Every step moves functors along the line or adds one at its end.
LEMMA TasksConservedStep ==
  ASSUME Typing, BatchInv, TasksConserved, [Next]_vars
  PROVE  TasksConserved'
<1>t. /\ posted = Line(ran, functors, pending)
      /\ ran \in Seq(Functors) /\ functors \in Seq(Functors) /\ pending \in Seq(Functors)
  BY DEF TasksConserved, Line, Typing, TypeOK
<1>g. posted' = Line(ran, functors, pending)' => TasksConserved'
  BY DEF TasksConserved, Line
<1>1. CASE Swap
  <2>1. functors = <<>>
    BY <1>1 DEF Swap, BatchInv
  <2>2. Line(ran, <<>>, pending) = Line(ran, pending, <<>>)
    BY <1>t, ConcatEmptySeq, ConcatProperties DEF Line
  <2>3. posted' = posted /\ ran' = ran /\ functors' = pending /\ pending' = <<>>
    BY <1>1 DEF Swap, history
  <2> QED
    BY <1>t, <1>g, <2>1, <2>2, <2>3
<1>2. CASE RunFunctor
  <2>1. functors # <<>>
    BY <1>2 DEF RunFunctor
  <2>2. Line(ran, functors, pending) = Line(Append(ran, Head(functors)), Tail(functors), pending)
    BY <1>t, <2>1, MoveHead
  <2>3. /\ posted' = posted /\ ran' = Append(ran, Head(functors))
        /\ functors' = Tail(functors) /\ pending' = pending
    BY <1>2 DEF RunFunctor
  <2> QED
    BY <1>t, <1>g, <2>2, <2>3
<1>3. ASSUME NEW f \in Functors, LoopPost(f) \/ \E c \in Callers : PushFunctor(c, f)
      PROVE  TasksConserved'
  <2>1. Line(ran, functors, PutLast(pending, f)) = PutLast(Line(ran, functors, pending), f)
    BY <1>t, AppendAtBack
  <2>2. /\ ran' = ran /\ functors' = functors
        /\ pending' = PutLast(pending, f) /\ posted' = PutLast(posted, f)
    BY <1>3 DEF LoopPost, PushFunctor, PutLast
  <2> QED
    BY <1>t, <1>g, <2>1, <2>2
<1>4. CASE UNCHANGED <<posted, ran, functors, pending>>
  BY <1>t, <1>g, <1>4
<1> QED
  BY <1>1, <1>2, <1>3, <1>4
  DEF Next, LoopStep, Callback, CallerStep, EnterLoop, LeaveLoop, BeginPoll,
     PollWakeup, ResetWakeup, Collect, ScanDone, HandleEvent, HandlerReturns, DispatchDone,
     FunctorReturns, BatchDone, PollTimeout, LoopQuit, SetQuit, WakeUp, SignalChannel, vars,
     taskVars, history

\* What was queued is, in order, what ran, what is left of the batch and what
\* waits, however many threads queue and whatever functors queue themselves.
THEOREM FunctorsConserved == Spec => []TasksConserved
<1>1. Init => BatchInv /\ TasksConserved
  <2> SUFFICES ASSUME Init PROVE BatchInv /\ TasksConserved
    OBVIOUS
  <2>1. <<>> \o <<>> \o <<>> = <<>>
    BY ConcatEmptySeq, EmptySeq
  <2> QED
    BY <2>1 DEF Init, BatchInv, TasksConserved
<1>2. Typing /\ BatchInv /\ TasksConserved /\ [Next]_vars => (BatchInv /\ TasksConserved)'
  BY BatchStep, TasksConservedStep
<1> QED
  BY <1>1, <1>2, TypingInit, TypingStep, PTL DEF Spec

-----------------------------------------------------------------------------
(* The scan of the event array.                                             *)

\* An ascending sequence stays so when something larger is appended.
LEMMA AppendAscending ==
  ASSUME NEW s \in Seq(Nat), NEW e \in Nat,
         \A k \in 1..Len(s) : s[k] < e,
         \A i, j \in 1..Len(s) : i < j => s[i] < s[j]
  PROVE  \A i, j \in 1..Len(Append(s, e)) : i < j => Append(s, e)[i] < Append(s, e)[j]
<1>1. /\ Len(Append(s, e)) = Len(s) + 1 /\ Append(s, e)[Len(s) + 1] = e
      /\ \A k \in 1..Len(s) : Append(s, e)[k] = s[k]
      /\ Len(s) \in Nat
  BY AppendProperties, LenProperties
<1> TAKE i, j \in 1..Len(Append(s, e))
<1> HAVE i < j
<1>2. i \in 1..Len(s)
  BY <1>1
<1>3. CASE j = Len(s) + 1
  BY <1>1, <1>2, <1>3
<1>4. CASE j # Len(s) + 1
  <2>1. j \in 1..Len(s)
    BY <1>1, <1>4
  <2> QED
    BY <1>1, <1>2, <2>1
<1> QED
  BY <1>3, <1>4

\* Collected indices ascend and lie before the index the next wait starts at.
LEMMA ScanStep ==
  ASSUME Typing, ScanInv, PollInOrder, [Next]_vars
  PROVE  ScanInv' /\ PollInOrder'
<1> USE DEF Typing, TypeOK, ScanInv, PollInOrder, Channels
<1>1. CASE Collect
  <2>1. PICK i \in Candidates : active' = Append(active, i) /\ scanFrom' = i + 1
    BY <1>1 DEF Collect, NextStart
  <2>2. i \in 1..NumChannels /\ i >= scanFrom /\ i \in Nat /\ scanFrom \in Nat
    BY NumChannelsAssumption DEF Candidates
  <2>3. \A k \in 1..Len(active) : active[k] < i /\ active[k] \in Nat
    <3>1. CASE loopPc = "poll"
      BY <3>1, EmptySeq
    <3>2. CASE loopPc = "scan"
      BY <3>2, <2>2, NumChannelsAssumption, ElementOfSeq
    <3> QED
      BY <1>1, <3>1, <3>2 DEF Collect
  <2>4. /\ Len(active') = Len(active) + 1 /\ active'[Len(active) + 1] = i
        /\ \A k \in 1..Len(active) : active'[k] = active[k]
        /\ Len(active) \in Nat
    BY <2>1, <2>2, AppendProperties, LenProperties
  <2>5. active \in Seq(Nat)
    <3>1. 1..NumChannels \subseteq Nat /\ active \in Seq(1..NumChannels)
      OBVIOUS
    <3> QED
      BY <3>1, SeqMonotonic, Zenon
  <2>6. PollInOrder'
    BY <2>1, <2>2, <2>3, <2>5, AppendAscending
  <2>7. \A k \in 1..Len(active') : active'[k] < scanFrom'
    BY <2>1, <2>2, <2>3, <2>4
  <2> QED
    BY <1>1, <2>6, <2>7 DEF Collect
<1>2. CASE HandlerReturns
  <2>1. active # <<>> /\ active' = Tail(active) /\ loopPc' = "dispatch"
    BY <1>2 DEF HandlerReturns, HandlerInv
  <2>2. /\ Len(active') = Len(active) - 1 /\ Len(active) \in Nat
        /\ \A k \in 1..Len(active') : active'[k] = active[k + 1]
    BY <2>1, HeadTailProperties, LenProperties
  <2> QED
    BY <2>1, <2>2
<1>3. CASE BeginPoll
  BY <1>3, EmptySeq DEF BeginPoll
<1>4. CASE UNCHANGED <<active, scanFrom>> /\ loopPc' \in {loopPc} \cup (LoopPc \ {"poll", "scan"})
  BY <1>4
<1> QED
  BY <1>1, <1>2, <1>3, <1>4
  DEF Next, LoopStep, Callback, CallerStep, EnterLoop, LeaveLoop, PollWakeup, ResetWakeup,
     ScanDone, HandleEvent, DispatchDone, Swap, RunFunctor, FunctorReturns, BatchDone,
     PollTimeout, LoopPost, LoopQuit, PushFunctor, SetQuit, WakeUp, SignalChannel, vars,
     loopVars, taskVars, history, LoopPc

\* Each poll hands out its channels in ascending order, none of them twice.
THEOREM ScanInOrder == Spec => []PollInOrder
<1>1. Init => ScanInv /\ PollInOrder
  BY EmptySeq DEF Init, ScanInv, PollInOrder
<1>2. Typing /\ ScanInv /\ PollInOrder /\ [Next]_vars => (ScanInv /\ PollInOrder)'
  BY ScanStep
<1> QED
  BY <1>1, <1>2, TypingInit, TypingStep, PTL DEF Spec

-----------------------------------------------------------------------------
(* The batch.                                                               *)

\* What a functor queues never joins the batch that is being run.
THEOREM BatchOnlyShrinks == Spec => BatchNeverGrows
<1> DEFINE Shrinks == loopPc # "swap" =>
                        \/ functors' = functors
                        \/ functors # <<>> /\ functors' = Tail(functors)
<1>1. [Next]_vars => [Shrinks]_vars
  BY DEF Next, LoopStep, Callback, CallerStep, EnterLoop, LeaveLoop, BeginPoll,
     PollWakeup, ResetWakeup, Collect, ScanDone, HandleEvent, HandlerReturns, DispatchDone,
     Swap, RunFunctor, FunctorReturns, BatchDone, PollTimeout, LoopPost, LoopQuit,
     PushFunctor, SetQuit, WakeUp, SignalChannel, vars, loopVars, taskVars, history
<1> QED
  BY <1>1, PTL DEF Spec, BatchNeverGrows

-----------------------------------------------------------------------------
(* Refinement: the loop is a task queue.                                    *)

\* The invariant under which a step of the loop is a step of the queue.
MapInv == Typing /\ BatchInv /\ TasksConserved

\* A functor that was never queued is not in the abstract queue.
LEMMA FreshIsNew ==
  ASSUME MapInv, NEW f, Fresh(f)
  PROVE  f \notin Range(functors \o pending) \cup Range(ran)
<1>1. /\ ran \in Seq(Functors) /\ functors \in Seq(Functors) /\ pending \in Seq(Functors)
      /\ functors \o pending \in Seq(Functors)
  BY ConcatProperties DEF MapInv, Typing, TypeOK
<1>2. PICK q \in Seq(Functors) : q = functors \o pending
  BY <1>1
<1>3. posted = ran \o q
  BY <1>1, <1>2, ConcatAssociative DEF MapInv, TasksConserved
<1>4. Range(ran \o q) = Range(ran) \cup Range(q)
  BY <1>1, RangeConcatenation
<1> QED
  BY <1>2, <1>3, <1>4 DEF Fresh

\* Each step of the loop, its callbacks, its callers and its events is a step
\* of the task queue or leaves it alone.
LEMMA TaskQueueStep ==
  ASSUME MapInv, [Next]_vars
  PROVE  [TQ!Next]_(TQ!vars)
<1> USE DEF TQ!vars, loopVars, taskVars, history
<1>t. /\ ran \in Seq(Functors) /\ functors \in Seq(Functors) /\ pending \in Seq(Functors)
      /\ functors # <<>> => loopPc \in {"batch", "functor"}
  BY DEF MapInv, Typing, TypeOK, BatchInv
<1>1. CASE LeaveLoop
  BY <1>1 DEF LeaveLoop, TQ!Next, TQ!Close
<1>2. CASE Swap
  <2>1. functors = <<>> /\ functors' = pending /\ pending' = <<>>
    BY <1>2, <1>t DEF Swap
  <2>2. functors' \o pending' = functors \o pending
    BY <1>t, <2>1, ConcatEmptySeq
  <2> QED
    BY <1>2, <2>2 DEF Swap
<1>3. CASE RunFunctor
  <2>1. functors # <<>>
    BY <1>3 DEF RunFunctor
  <2>2. /\ functors \o pending # <<>>
        /\ Head(functors \o pending) = Head(functors)
        /\ Tail(functors \o pending) = Tail(functors) \o pending
    BY <1>t, <2>1, MoveHead
  <2>3. TQ!Execute
    BY <1>3, <2>2 DEF RunFunctor, TQ!Execute
  <2> QED
    BY <2>3 DEF TQ!Next
<1>4. ASSUME NEW f \in Functors, LoopPost(f) \/ \E c \in Callers : PushFunctor(c, f)
      PROVE  TQ!Next
  <2>1. /\ Fresh(f) /\ ran' = ran /\ functors' = functors /\ loopPc' = loopPc
        /\ pending' = Append(pending, f)
    BY <1>4 DEF LoopPost, PushFunctor
  <2>2. f \notin Range(functors \o pending) \cup Range(ran)
    BY <2>1, FreshIsNew
  <2>3. functors \o Append(pending, f) = Append(functors \o pending, f)
    <3>1. functors \o pending \in Seq(Functors) /\ <<f>> \in Seq(Functors)
      BY <1>t, ConcatProperties
    <3>2. Append(functors \o pending, f) = (functors \o pending) \o <<f>>
      BY <3>1, AppendIsConcat
    <3>3. (functors \o pending) \o <<f>> = functors \o (pending \o <<f>>)
      BY <1>t, <3>1, ConcatAssociative
    <3> QED
      BY <1>t, <3>2, <3>3, AppendIsConcat
  <2>4. functors' \o pending' = Append(functors \o pending, f)
    BY <2>1, <2>3, Zenon
  <2>5. TQ!Post(f)
    <3>1. f \notin TQ!Range(functors \o pending) \cup TQ!Range(ran)
      BY <2>2 DEF TQ!Range, Range
    <3>2. UNCHANGED <<ran, loopPc # "exited">>
      BY <2>1
    <3> QED
      BY <2>4, <3>1, <3>2, Zenon DEF TQ!Post
  <2> QED
    BY <2>5 DEF TQ!Next
<1>5. CASE UNCHANGED <<ran, functors, pending>> /\ (loopPc' = "exited" <=> loopPc = "exited")
  BY <1>5
<1> QED
  BY <1>1, <1>2, <1>3, <1>4, <1>5
  DEF Next, LoopStep, Callback, CallerStep, EnterLoop, BeginPoll, PollWakeup, ResetWakeup,
     Collect, ScanDone, HandleEvent, HandlerReturns, DispatchDone, FunctorReturns, BatchDone,
     PollTimeout, LoopQuit, SetQuit, WakeUp, SignalChannel, vars

\* The loop implements the task queue: whatever the interleaving of callers,
\* callbacks, events and wakeups, functors run in the order they were queued,
\* each once, and none after the loop has returned.
THEOREM ImplementsTaskQueue == Spec => TQ!SafetySpec
<1>1. Init => TQ!Init /\ MapInv
  <2> SUFFICES ASSUME Init PROVE TQ!Init /\ MapInv
    OBVIOUS
  <2>1. <<>> \o <<>> = <<>>
    BY ConcatEmptySeq, EmptySeq
  <2> QED
    BY <2>1, TypingInit DEF Init, TQ!Init, MapInv, BatchInv, TasksConserved
<1>2. MapInv /\ [Next]_vars => MapInv'
  BY TypingStep, BatchStep, TasksConservedStep DEF MapInv
<1>3. MapInv /\ [Next]_vars => [TQ!Next]_(TQ!vars)
  BY TaskQueueStep
<1> QED
  BY <1>1, <1>2, <1>3, PTL DEF Spec, TQ!SafetySpec

-----------------------------------------------------------------------------
(* The loop in a thread of its own.                                         *)

\* Every step of the thread, the owner and the users is one of the loop's or
\* leaves the loop alone.
LEMMA ThreadStepIsLoopStep ==
  ASSUME [ThreadNext]_allVars
  PROVE  [Next]_vars
<1> USE OwnerAssumption
<1>1. CASE InitCallback  BY <1>1 DEF InitCallback, Next
<1>2. CASE RunLoop       BY <1>2 DEF RunLoop, Next
<1>3. CASE RunLoopMay    BY <1>3 DEF RunLoopMay, Next
<1>4. CASE DestroyQuits  BY <1>4 DEF DestroyQuits, Next, CallerStep
<1>5. CASE DestroyWakes  BY <1>5 DEF DestroyWakes, Next, CallerStep
<1>6. ASSUME NEW c \in Callers, Use(c) PROVE Next
  BY <1>6 DEF Use, Next
<1>7. ASSUME NEW i \in Channels, Signal(i) PROVE Next
  BY <1>7 DEF Signal, Next
<1>8. CASE Publish \/ SetEvent \/ StartLoop \/ StartReturns \/ DestroyUnstarted \/ Join
  BY <1>8 DEF Publish, SetEvent, StartLoop, StartReturns, DestroyUnstarted, Join
<1>9. CASE UNCHANGED allVars
  BY <1>9 DEF allVars
<1> QED
  BY <1>1, <1>2, <1>3, <1>4, <1>5, <1>6, <1>7, <1>8, <1>9 DEF ThreadNext, ThreadStep, Destruct

\* An EventLoopThread implements the event loop: starting the thread, publishing
\* the loop and joining it add nothing to what the loop does.
THEOREM ThreadImplementsLoop == ThreadSpec => Spec
<1>1. ThreadInit => Init
  BY DEF ThreadInit
<1>2. [ThreadNext]_allVars => [Next]_vars
  BY ThreadStepIsLoopStep
<1> QED
  BY <1>1, <1>2, PTL DEF ThreadSpec, Spec

\* No wakeup and no quit is lost, and every functor is conserved, in the loop of
\* an EventLoopThread.
THEOREM ThreadLoopSafe == ThreadSpec => [](NoLostWakeup /\ NoLostQuit /\ TasksConserved)
<1> QED
  BY ThreadImplementsLoop, NoWakeupLost, NoQuitLost, FunctorsConserved, PTL

\* To the owner and the users of its loop an EventLoopThread is a task queue.
THEOREM ThreadImplementsTaskQueue == ThreadSpec => TQ!SafetySpec
<1> QED
  BY ThreadImplementsLoop, ImplementsTaskQueue, PTL

-----------------------------------------------------------------------------
(* The handshake of startLoop.                                              *)

\* Where the pointer and the event are, with the thread; and the thread with the
\* owner.  The event alone says that the pointer is set.
Handshake ==
    /\ owner \in OwnerPc /\ thread \in ThreadPc
    /\ loop \in {"null", "set"} /\ event \in BOOLEAN
    /\ event => loop = "set"
    /\ thread = "published" => loop = "set"
    /\ owner = "constructed" => thread = "none" /\ ~event

\* The handshake is inductive.
LEMMA HandshakeInit == ThreadInit => Handshake
BY DEF ThreadInit, Handshake, OwnerPc, ThreadPc

LEMMA HandshakeStep ==
  ASSUME Handshake, [ThreadNext]_allVars
  PROVE  Handshake'
<1> USE DEF Handshake, OwnerPc, ThreadPc, threadVars
<1>1. CASE Publish   BY <1>1 DEF Publish
<1>5. CASE SetEvent  BY <1>5 DEF SetEvent
<1>6. CASE RunLoop
  <2>1. thread' \in {"ended", "running"}
    BY <1>6 DEF RunLoop
  <2> QED
    BY <1>6, <2>1 DEF RunLoop
<1>2. CASE StartLoop \/ StartReturns \/ DestroyUnstarted
  BY <1>2 DEF StartLoop, StartReturns, DestroyUnstarted
<1>3. CASE DestroyQuits \/ DestroyWakes \/ Join
  BY <1>3 DEF DestroyQuits, DestroyWakes, Join
<1>4. CASE UNCHANGED threadVars
  BY <1>4
<1> QED
  BY <1>1, <1>2, <1>3, <1>4, <1>5, <1>6
  DEF ThreadNext, ThreadStep, Destruct, InitCallback, RunLoopMay, Use, Signal, allVars

\* The types of the loop and of the handshake.
THEOREM ThreadTypeCorrect == ThreadSpec => []ThreadTypeOK
<1>1. Handshake /\ TypeOK => ThreadTypeOK
  BY DEF Handshake, ThreadTypeOK
<1> QED
  BY <1>1, HandshakeInit, HandshakeStep, ThreadImplementsLoop, TypeCorrect, PTL DEF ThreadSpec

\* Neither a user of the loop nor the destructor acts on it before its pointer
\* is set: the handshake orders the two threads.
THEOREM NobodyGetsNull == ThreadSpec => []LoopPublished
<1>1. ThreadInit => LoopPublished
  BY DEF ThreadInit, LoopPublished
<1>2. ASSUME Handshake, LoopPublished, [ThreadNext]_allVars PROVE LoopPublished'
  <2> SUFFICES ASSUME owner' \in {"running", "quitting", "joining"} PROVE loop' = "set"
    BY DEF LoopPublished
  <2> USE DEF Handshake, LoopPublished
  <2>1. CASE StartReturns
    BY <1>2, <2>1 DEF StartReturns
  <2>2. CASE owner \in {"running", "quitting", "joining"} /\ (loop = "set" => loop' = "set")
    BY <1>2, <2>2
  <2> QED
    BY <1>2, <2>1, <2>2
    DEF ThreadNext, ThreadStep, Destruct, InitCallback, Publish, SetEvent, RunLoop, RunLoopMay,
        StartLoop, DestroyUnstarted, DestroyQuits, DestroyWakes, Join, Use, Signal, threadVars,
        allVars
<1> QED
  BY <1>1, <1>2, HandshakeInit, HandshakeStep, PTL DEF ThreadSpec
=============================================================================
