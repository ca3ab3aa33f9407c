---------------------------- MODULE BoundedQueue ----------------------------
(***************************************************************************)
(* What util/thread/queue.hpp promises: a first-in first-out queue of      *)
(* bounded capacity whose operations each take effect at one instant       *)
(* between their call and their return.  A push is admitted while the      *)
(* queue is enabled, and may still be made after that.                     *)
(***************************************************************************)
EXTENDS Integers, Sequences

CONSTANTS Thread, Value, Capacity

VARIABLES items,  \* what was pushed and not popped, oldest first
          off,    \* the queue is disabled
          state   \* of every thread: the operation it is in, or its result

bqvars == <<items, off, state>>

Idle == [op |-> "idle"]
Pushing == {"pushBack", "tryPushBack"}
Popping == {"popFront", "tryPopFront", "popFrontWithTimeout"}

Init ==
    /\ \E n \in 0..Capacity : items \in [1..n -> Value]
    /\ off = FALSE
    /\ state = [t \in Thread |-> Idle]

Become(t, s) == state' = [state EXCEPT ![t] = s]

\* Any operation may be called, with any value.
Call(t) ==
    /\ state[t] = Idle
    /\ state'[t] \in [op : Pushing \cup Popping, val : Value, admitted : {FALSE}]
    /\ Become(t, state'[t])
    /\ UNCHANGED <<items, off>>

\* An admitted push waits for its instant; a blocking one may be admitted again.
Admit(t) ==
    /\ state[t].op \in Pushing /\ ~off
    /\ Become(t, [state[t] EXCEPT !.admitted = TRUE])
    /\ UNCHANGED <<items, off>>

Push(t) ==
    /\ state[t].op \in Pushing /\ state[t].admitted /\ Len(items) < Capacity
    /\ items' = Append(items, state[t].val)
    /\ Become(t, [op |-> "pushed", val |-> state[t].val])
    /\ UNCHANGED off

\* The constructor of the element threw: everything up to it is dropped.
Throw(t) ==
    /\ state[t].op = "pushed"
    /\ items # << >> /\ Head(items) = state[t].val
    /\ items' = Tail(items) /\ Become(t, [op |-> "threw"])
    /\ UNCHANGED off

Drop == items # << >> /\ items' = Tail(items) /\ UNCHANGED <<off, state>>

PushFails(t, why) ==
    /\ \/ state[t].op \in Pushing /\ why = "disabled" /\ off
       \/ state[t].op = "tryPushBack" /\ why = "full" /\ Len(items) = Capacity
    /\ Become(t, [op |-> why])
    /\ UNCHANGED <<items, off>>

Pop(t) ==
    /\ state[t].op \in Popping /\ items # << >>
    /\ Become(t, [op |-> "popped", val |-> Head(items)])
    /\ items' = Tail(items) /\ UNCHANGED off

PopFails(t) ==
    /\ state[t].op \in Popping \ {"popFront"} /\ items = << >>
    /\ Become(t, [op |-> "empty"])
    /\ UNCHANGED <<items, off>>

Return(t) ==
    /\ state[t].op \notin Pushing \cup Popping \cup {"idle"}
    /\ Become(t, Idle) /\ UNCHANGED <<items, off>>

Toggle == off' = ~off /\ UNCHANGED <<items, state>>

Next ==
    \/ \E t \in Thread :
          \/ Call(t) \/ Admit(t) \/ Push(t) \/ Throw(t) \/ Pop(t) \/ PopFails(t) \/ Return(t)
          \/ \E why \in {"disabled", "full"} : PushFails(t, why)
    \/ Drop \/ Toggle

Spec == Init /\ [][Next]_bqvars
=============================================================================
