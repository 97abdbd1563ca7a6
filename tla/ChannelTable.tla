---------------------------- MODULE ChannelTable ----------------------------
(***************************************************************************)
(* The books an event loop keeps about its channels: EventLoop::_channels, *)
(* the poller's two parallel vectors, the two indices stored in each       *)
(* channel, the event handles the poller makes, and the sockets' selection *)
(* of these handles.                                                       *)
(*                                                                         *)
(* Every operation of Channel and EventLoop on them runs at once on the    *)
(* loop thread and is queued as a functor from any other thread, so a      *)
(* queued operation can be overtaken by one of the loop thread.            *)
(*                                                                         *)
(* A channel is named by its address, which is used again after a delete.  *)
(* Users keep one rule: a channel is not used any more once its deletion   *)
(* was asked for, and the loop thread deletes none that has operations     *)
(* queued.                                                                 *)
(***************************************************************************)
EXTENDS Naturals, Sequences, SequencesExt, FiniteSets

CONSTANTS
    NumChannels,    \* addresses of Channel objects; 1 is the timer channel
    Interests,      \* what can be enabled: read, write, close, accept
    MaxQueued       \* bound: functors queued at a time

ASSUME TableConstants == NumChannels \in Nat \ {0} /\ MaxQueued \in Nat

VARIABLES
    alive,          \* addresses of Channel objects that exist
    interest,       \* Channel::_events of the sockets' channels
    pollIndex,      \* Channel::_indexForPoll
    loopIndex,      \* Channel::_indexForLoop
    channels,       \* EventLoop::_channels
    chanEvents,     \* Poller::_chanEvents
    events,         \* Poller::_events
    open,           \* event handles that are open
    selected,       \* per socket: the handle WSAEventSelect tied it to
    pending,        \* functors queued by other threads
    doomed          \* channels whose deletion was asked for

book  == <<channels, loopIndex>>
polls == <<chanEvents, events, pollIndex, open, selected>>
vars == <<alive, interest, book, polls, pending, doomed>>

Chans   == 1..NumChannels
Timer   == 1
Sockets == Chans \ {Timer}
Null    == 0                        \* the wakeup event has no channel
NoEvent == 0
Invalid == NumChannels + 2          \* kInvalidChannelIndex: beyond every index
Handles == 1..(NumChannels + 1)
TimerHandle == 2                    \* the timer's own handle, not the poller's

Ops == [op : {"add", "remove", "delete", "disableAll"}, chan : Sockets]
         \cup [op : {"enable", "disable"}, chan : Sockets, what : Interests]

Entries == [event : Handles, chan : Chans \cup {Null}, mask : SUBSET Interests]

TypeOK ==
    /\ alive \subseteq Chans
    /\ interest \in [Sockets -> SUBSET Interests]
    /\ pollIndex \in [Chans -> 0..NumChannels \cup {Invalid}]
    /\ loopIndex \in [Chans -> 0..(NumChannels - 1) \cup {Invalid}]
    /\ channels \in Seq(Chans)
    /\ chanEvents \in Seq(Entries)
    /\ events \in Seq(Handles)
    /\ open \subseteq Handles
    /\ selected \in [Sockets -> Handles \cup {NoEvent}]
    /\ pending \in Seq(Ops)
    /\ doomed \subseteq Sockets

\* EventLoop's constructor: the poller adds the wakeup event, then TimerQueue
\* makes its channel and enables it.
Init ==
    /\ alive = {Timer}
    /\ interest = [a \in Sockets |-> {}]
    /\ pollIndex = [a \in Chans |-> IF a = Timer THEN 1 ELSE Invalid]
    /\ loopIndex = [a \in Chans |-> IF a = Timer THEN 0 ELSE Invalid]
    /\ channels = <<Timer>>
    /\ chanEvents = << [event |-> 1, chan |-> Null, mask |-> {}],
                       [event |-> 2, chan |-> Timer, mask |-> {}] >>
    /\ events = <<1, 2>>
    /\ open = {1, 2}
    /\ selected = [a \in Sockets |-> NoEvent]
    /\ pending = <<>>
    /\ doomed = {}

-----------------------------------------------------------------------------
(* Operations, as the loop thread executes them                            *)

\* iter_swap with the last element, then pop_back.
SwapRemove(s, i) == Front([s EXCEPT ![i] = Last(s)])

\* Faulty variant: the moved element keeps its old index.
Reindexed_MovedKept(index, a, moved) == [index EXCEPT ![a] = Invalid]

\* Indices after the element of address a was swapped out and the element of
\* address moved took its place.
Reindexed(index, a, moved) == [index EXCEPT ![moved] = index[a], ![a] = Invalid]

\* Faulty variant: counted from one.
EndIndex_FromOne(s) == Len(s) + 1

\* The index of the element that goes to the end of table s.
EndIndex(s) == Len(s)

\* Faulty variant: an empty mask leaves the old selection.
EventSelect_KeepsOld(a, h, mask) ==
    selected' = [selected EXCEPT ![a] = IF mask = {} THEN selected[a] ELSE h]

\* WSAEventSelect(socket, event, mask): an empty mask undoes the selection.
EventSelect(a, h, mask) ==
    selected' = [selected EXCEPT ![a] = IF mask = {} THEN NoEvent ELSE h]

\* Handles left open when the poller drops entry e of a socket.
Closed(e) == open \ {e.event}

\* Poller::AddChannelEvent.
AddChannelEvent(e) ==
    /\ events' = Append(events, e.event)
    /\ chanEvents' = Append(chanEvents, e)
    /\ pollIndex' = [pollIndex EXCEPT ![e.chan] = EndIndex(chanEvents)]

\* EventLoop::AddChannel.
AddChannel(a) ==
    /\ channels' = Append(channels, a)
    /\ loopIndex' = [loopIndex EXCEPT ![a] = EndIndex(channels)]
    /\ UNCHANGED <<alive, interest, polls>>

\* Poller::updateChannel for a socket whose interest becomes set.  It is known
\* to the poller if its index is in range; else it gets an event and an entry.
Update(a, set) ==
    /\ interest' = [interest EXCEPT ![a] = set]
    /\ IF pollIndex[a] < Len(chanEvents)
         THEN LET i == pollIndex[a] + 1 IN
              /\ chanEvents' = [chanEvents EXCEPT ![i].mask = set]
              /\ EventSelect(a, chanEvents[i].event, set)
              /\ UNCHANGED <<events, pollIndex, open>>
         ELSE LET h == CHOOSE h \in Handles : h \notin open IN
              /\ AddChannelEvent([event |-> h, chan |-> a, mask |-> set])
              /\ open' = open \cup {h}
              /\ EventSelect(a, h, set)
    /\ UNCHANGED <<alive, book>>

\* Poller::removeChannel for a socket: deselect, close the event, drop the entry.
RemoveFromPoller(a) ==
    IF pollIndex[a] < Len(chanEvents)
      THEN LET i == pollIndex[a] + 1
               e == chanEvents[i]
           IN  /\ IF e.mask # {} THEN EventSelect(a, e.event, {}) ELSE UNCHANGED selected
               /\ open' = Closed(e)
               /\ events' = SwapRemove(events, i)
               /\ chanEvents' = SwapRemove(chanEvents, i)
               /\ pollIndex' = Reindexed(pollIndex, a, Last(chanEvents).chan)
      ELSE UNCHANGED polls

RemoveFunc(a) == RemoveFromPoller(a) /\ UNCHANGED <<alive, interest, book>>

\* EventLoop::RemoveChannel: out of the poller, out of the vector, deleted.  A
\* channel whose AddChannel has not run is left alone.
RemoveChannel(a) ==
    IF loopIndex[a] < Len(channels)
      THEN /\ RemoveFromPoller(a)
           /\ channels' = SwapRemove(channels, loopIndex[a] + 1)
           /\ loopIndex' = Reindexed(loopIndex, a, Last(channels))
           /\ alive' = alive \ {a}
           /\ interest' = [interest EXCEPT ![a] = {}]
      ELSE UNCHANGED <<alive, interest, book, polls>>

\* What a queued functor or a direct call does.
Execute(f) ==
    \/ f.op = "add"        /\ AddChannel(f.chan)
    \/ f.op = "enable"     /\ Update(f.chan, interest[f.chan] \cup {f.what})
    \/ f.op = "disable"    /\ Update(f.chan, interest[f.chan] \ {f.what})
    \/ f.op = "disableAll" /\ Update(f.chan, {})
    \/ f.op = "remove"     /\ RemoveFunc(f.chan)
    \/ f.op = "delete"     /\ RemoveChannel(f.chan)

-----------------------------------------------------------------------------
(* Callers                                                                 *)

Exists == chanEvents # <<>>         \* the loop object: its poller has events

\* new Channel on the loop thread: AddChannel at once.
NewChannel(a) ==
    /\ Exists
    /\ a \notin alive
    /\ alive' = alive \cup {a}
    /\ channels' = Append(channels, a)
    /\ loopIndex' = [loopIndex EXCEPT ![a] = EndIndex(channels)]
    /\ UNCHANGED <<interest, polls, pending, doomed>>

\* new Channel on another thread: AddChannel is queued.
NewChannelOff(a) ==
    /\ Exists
    /\ a \notin alive
    /\ Len(pending) < MaxQueued
    /\ alive' = alive \cup {a}
    /\ pending' = Append(pending, [op |-> "add", chan |-> a])
    /\ UNCHANGED <<interest, book, polls, doomed>>

Queued(a) == \E i \in DOMAIN pending : pending[i].chan = a

Usable(f) == f.op # "add" /\ f.chan \in alive \ doomed

\* An operation on the loop thread.
Call(f) ==
    /\ Exists
    /\ Usable(f)
    /\ f.op = "delete" => ~Queued(f.chan)
    /\ Execute(f)
    /\ UNCHANGED <<pending, doomed>>

\* The same operation on another thread.
CallOff(f) ==
    /\ Exists
    /\ Usable(f)
    /\ Len(pending) < MaxQueued
    /\ pending' = Append(pending, f)
    /\ doomed' = IF f.op = "delete" THEN doomed \cup {f.chan} ELSE doomed
    /\ UNCHANGED <<alive, interest, book, polls>>

\* doPendingFunctors executes the oldest one.
RunFunctor ==
    /\ Exists
    /\ pending # <<>>
    /\ Execute(Head(pending))
    /\ pending' = Tail(pending)
    /\ doomed' = IF Head(pending).op = "delete" THEN doomed \ {Head(pending).chan} ELSE doomed

\* EventLoop::~EventLoop, DeleteAllChannel: the tables are emptied and the
\* channels of the vector deleted; functors still queued never run.
Destroy ==
    /\ Exists
    /\ selected' = [a \in Sockets |->
           IF \E e \in ToSet(chanEvents) : e.chan = a /\ e.mask # {} THEN NoEvent
           ELSE selected[a]]
    /\ open' = open \cap {TimerHandle}
    /\ events' = <<>>
    /\ chanEvents' = <<>>
    /\ alive' = alive \ ToSet(channels)
    /\ interest' = [a \in Sockets |-> IF a \in ToSet(channels) THEN {} ELSE interest[a]]
    /\ channels' = <<>>
    /\ UNCHANGED <<pollIndex, loopIndex, pending, doomed>>

Next ==
    \/ \E a \in Sockets : NewChannel(a) \/ NewChannelOff(a)
    \/ \E f \in Ops : Call(f) \/ CallOff(f)
    \/ RunFunctor
    \/ Destroy

Spec == Init /\ [][Next]_vars

-----------------------------------------------------------------------------
(* Properties                                                              *)

\* Poller::_chanEvents and Poller::_events are parallel, every channel with an
\* entry exists and holds the index of that entry, and an index in range leads to
\* the channel's own entry.
PollIndexAgrees ==
    /\ events = [i \in DOMAIN chanEvents |-> chanEvents[i].event]
    /\ \A i \in DOMAIN chanEvents : chanEvents[i].chan # Null =>
           chanEvents[i].chan \in alive /\ pollIndex[chanEvents[i].chan] = i - 1
    /\ \A a \in alive : pollIndex[a] < Len(chanEvents) => chanEvents[pollIndex[a] + 1].chan = a

\* A channel is in EventLoop::_channels at the index it holds and nowhere else.
LoopIndexAgrees ==
    /\ \A i \in DOMAIN channels : channels[i] \in alive /\ loopIndex[channels[i]] = i - 1
    /\ \A a \in alive : loopIndex[a] < Len(channels) => channels[loopIndex[a] + 1] = a

\* The poller's entries and the open event handles are the same after any number
\* of additions and removals, with the wakeup event first, which poll knows by its
\* index 0, and the timer's second.
HandlesAgree ==
    /\ open = ToSet(events) \cup {TimerHandle}
    /\ chanEvents # <<>> => chanEvents[1].chan = Null /\ chanEvents[2].chan = Timer

\* Both indices of a channel lead to the channel and the tables lead back, after
\* any sequence of swaps and pops: poll hands out, updateChannel and removeChannel
\* change, and RemoveChannel deletes the channel they are asked for and no other,
\* no handle leaks and none is waited for after its close.
\* (Poller.cpp:92, 149-155, 208-217, EventLoop.cpp:186-201)
IndicesAgree == PollIndexAgrees /\ LoopIndexAgrees /\ HandlesAgree

\* A socket is tied to an event exactly while its channel has an entry with
\* interests, to the event of that entry, with the interests enabled last: no
\* socket signals an event that was closed or went to another channel.
SelectAgrees ==
    /\ \A e \in ToSet(chanEvents) : e.chan \in Sockets =>
           /\ e.mask = interest[e.chan]
           /\ selected[e.chan] = IF e.mask = {} THEN NoEvent ELSE e.event
    /\ \A a \in Sockets : selected[a] # NoEvent => a \in {e.chan : e \in ToSet(chanEvents)}
=============================================================================
