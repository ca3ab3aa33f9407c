---------------------------- MODULE ThreadQueue -----------------------------
(***************************************************************************)
(* The lock-free queue between threads (util/thread/queue.hpp and          *)
(* queue_manager.cpp), one step per atomic access.  The accesses are       *)
(* sequentially consistent here, as they are on the platforms whose        *)
(* packet queues use it; the relaxed loads of the code are not reordered.  *)
(* A combined index counts generations of the circular buffer and wraps.   *)
(***************************************************************************)
EXTENDS Integers, Sequences, FiniteSets

CONSTANTS
    QuPusher, QuPopper,  \* threads that push and threads that pop
    QuControl,           \* a thread that disables, enables and clears the queue
    QuThrower,           \* pushers whose elements may throw when they are constructed
    QuCap,               \* m_capacity
    QuGens,              \* numGenerations(m_capacity)
    QuStart,             \* combined index from which the behaviours start
    QuFill,              \* elements that are in the queue then
    QuMaxOps             \* bound: operations started

ASSUME ThreadQueueAssumption ==
    /\ QuCap \in Nat \ {0} /\ QuGens \in Nat /\ QuGens > 2
    /\ QuStart \in 0 .. QuGens * QuCap - 1 /\ QuFill \in 0..QuCap
    /\ QuMaxOps \in Nat /\ QuMaxOps + QuFill <= (QuGens - 2) * QuCap
    /\ QuPusher \cap QuPopper = {} /\ QuControl \notin QuPusher \cup QuPopper

VARIABLES
    quPush,     \* m_pushIndex: combined index and disabled flag
    quPop,      \* m_popIndex
    quCell,     \* m_states
    quData,     \* m_data
    quWaitPop, quWaitPush,  \* m_waitingPoppers, m_waitingPushers
    quSemPop, quSemPush,    \* counts of m_popSemaphore, m_pushSemaphore
    quThread,   \* where every thread is, with its local variables
    quOps       \* operations started

qushared == <<quPush, quPop, quCell, quData>>
qusems == <<quWaitPop, quWaitPush, quSemPop, quSemPush>>
quvars == <<qushared, qusems, quThread, quOps>>

QuIdle == [pc |-> "idle"]
QuNone == [c |-> -1, off |-> FALSE]
QuIndex == 0 .. QuGens * QuCap - 1
QuGen(c) == c \div QuCap
QuIdx(c) == c % QuCap
nextCombinedIndex(c) == (c + 1) % (QuGens * QuCap)
nextGeneration(g) == (g + 1) % QuGens

\* size(): of a push and a pop index that were loaded one after the other.
QuSize(push, pop) ==
    LET diff == push - pop IN
    IF diff >= 0 THEN IF diff > QuCap THEN 0 ELSE diff
    ELSE IF diff < -((QuGens * QuCap - 1) \div 2)
         THEN LET d == diff + QuGens * QuCap IN IF d < QuCap THEN d ELSE QuCap
         ELSE 0

\* Before QuStart everything that was pushed has been popped; after it there are QuFill elements.
QuInit ==
    LET after(i) == (i - QuIdx(QuStart) + QuCap) % QuCap IN
    /\ quPush = [c |-> (QuStart + QuFill) % (QuGens * QuCap), off |-> FALSE] /\ quPop = QuStart
    /\ quCell = [i \in 0..QuCap - 1 |->
          [gen |-> IF i < QuIdx(QuStart) THEN nextGeneration(QuGen(QuStart)) ELSE QuGen(QuStart),
           st |-> IF after(i) < QuFill THEN "Full" ELSE "Empty"]]
    /\ quData = [i \in 0..QuCap - 1 |-> IF after(i) < QuFill THEN QuMaxOps + after(i) ELSE -1]
    /\ quWaitPop = 0 /\ quWaitPush = 0 /\ quSemPop = 0 /\ quSemPush = 0
    /\ quThread = [t \in QuPusher \cup QuPopper \cup {QuControl} |-> QuIdle]
    /\ quOps = 0

QuAt(t, pc) == quThread[t].pc = pc
QuGo(t, pc) == quThread' = [quThread EXCEPT ![t].pc = pc]
QuGoWith(t, r) == quThread' = [quThread EXCEPT ![t] = r]
QuFinish(t, r) == QuGoWith(t, [pc |-> "done", res |-> r])
\* The cell of combined index c is in state st of that index's generation.
QuIs(c, st) == quCell[QuIdx(c)] = [gen |-> QuGen(c), st |-> st]
QuOld(c) == nextGeneration(quCell[QuIdx(c)].gen) = QuGen(c)
QuSet(c, st) == quCell' = [quCell EXCEPT ![QuIdx(c)] = [gen |-> QuGen(c), st |-> st]]

-----------------------------------------------------------------------------
(* Pushing: tryPushBack, pushBack, reservePushIndex, commitPushIndex.      *)

\* The element is new: every push has a number of its own.
QuStartPush(t, op) ==
    /\ QuAt(t, "idle") /\ quOps < QuMaxOps /\ quOps' = quOps + 1
    /\ QuGoWith(t, [pc |-> "push_load", op |-> op, val |-> quOps, load |-> QuNone, saved |-> QuNone])
    /\ UNCHANGED <<qushared, qusems>>

\* The push index is loaded; its flag makes the operation fail.
QuPushLoad(t) ==
    /\ QuAt(t, "push_load")
    /\ IF quPush.off THEN QuFinish(t, [op |-> "disabled"])
       ELSE QuGoWith(t, [quThread[t] EXCEPT !.pc = "push_cas", !.load = quPush])
    /\ UNCHANGED <<qushared, qusems, quOps>>

\* The cell at the loaded index is taken for writing.  One that is still of the
\* previous generation means a full queue, which is looked at twice; one that another
\* thread took means an outdated index.
QuPushCas(t) ==
    /\ QuAt(t, "push_cas")
    /\ LET c == quThread[t].load.c IN
       IF QuIs(c, "Empty")
       THEN QuSet(c, "Writing") /\ QuGo(t, "push_incr")
       ELSE /\ UNCHANGED quCell
            /\ IF QuOld(c)
               THEN IF quCell[QuIdx(c)].st = "Reading" THEN QuGo(t, "push_load")
                    ELSE IF quThread[t].saved # quThread[t].load
                         THEN QuGoWith(t, [quThread[t] EXCEPT !.pc = "push_load", !.saved = quThread[t].load])
                         ELSE IF quThread[t].op = "pushBack" THEN QuGo(t, "push_wait")
                              ELSE QuFinish(t, [op |-> "full"])
               ELSE QuGo(t, "push_help")
    /\ UNCHANGED <<quPush, quPop, quData, qusems, quOps>>

\* pushIndex().compare_exchange_strong: a set flag makes it fail.
QuAdvancePush(c) ==
    quPush' = IF quPush = [c |-> c, off |-> FALSE] THEN [quPush EXCEPT !.c = nextCombinedIndex(c)] ELSE quPush

\* Helping another thread along.  On success the exchange leaves the old index in
\* the local variable, on failure it loads the current one.
QuPushHelp(t) ==
    /\ QuAt(t, "push_help")
    /\ LET load == quThread[t].load IN
       /\ QuAdvancePush(load.c)
       /\ IF quPush = load THEN QuGo(t, "push_cas")
          ELSE IF quPush.off THEN QuFinish(t, [op |-> "disabled"])
          ELSE QuGoWith(t, [quThread[t] EXCEPT !.pc = "push_cas", !.load = quPush])
    /\ UNCHANGED <<quPop, quCell, quData, qusems, quOps>>

QuPushIncr(t) ==
    /\ QuAt(t, "push_incr")
    /\ QuAdvancePush(quThread[t].load.c)
    /\ QuGo(t, "push_make")
    /\ UNCHANGED <<quPop, quCell, quData, qusems, quOps>>

\* The element is constructed in place; a throw leaves it to the QueuePushGuard.
QuPushMake(t) ==
    /\ QuAt(t, "push_make")
    /\ \/ /\ quData' = [quData EXCEPT ![QuIdx(quThread[t].load.c)] = quThread[t].val]
          /\ QuGo(t, "push_commit")
       \/ /\ t \in QuThrower /\ UNCHANGED quData
          /\ QuGoWith(t, [pc |-> "guard_load", val |-> quThread[t].val, own |-> quThread[t].load.c,
                           load |-> -1, popped |-> 1])
    /\ UNCHANGED <<quPush, quPop, quCell, qusems, quOps>>

commitPushIndex(t) ==
    /\ QuAt(t, "push_commit")
    /\ QuSet(quThread[t].load.c, "Full") /\ QuGo(t, "push_notify")
    /\ UNCHANGED <<quPush, quPop, quData, qusems, quOps>>

\* Mutant: nobody is woken.
QuPushNotify_silent(t) ==
    /\ QuAt(t, "push_notify")
    /\ quSemPop' = quSemPop /\ QuFinish(t, [op |-> "pushed", val |-> quThread[t].val])
    /\ UNCHANGED <<qushared, quWaitPop, quWaitPush, quSemPush, quOps>>

QuPushNotify(t) ==
    /\ QuAt(t, "push_notify")
    /\ quSemPop' = IF quWaitPop > 0 THEN quSemPop + 1 ELSE quSemPop
    /\ QuFinish(t, [op |-> "pushed", val |-> quThread[t].val])
    /\ UNCHANGED <<qushared, quWaitPop, quWaitPush, quSemPush, quOps>>

\* pushBack on a full queue: it announces itself, looks again with three loads
\* (the two of full() and enabled()), and sleeps.
QuPushWait(t) ==
    /\ \/ /\ QuAt(t, "push_wait")
          /\ quWaitPush' = quWaitPush + 1 /\ QuGo(t, "push_full")
          /\ UNCHANGED quSemPush
       \/ /\ QuAt(t, "push_full")
          /\ QuGoWith(t, [quThread[t] EXCEPT !.pc = "push_full2", !.load = quPush])
          /\ UNCHANGED <<quWaitPush, quSemPush>>
       \/ /\ QuAt(t, "push_full2")
          /\ QuGo(t, IF QuSize(quThread[t].load.c, quPop) >= QuCap THEN "push_enabled" ELSE "push_awake")
          /\ UNCHANGED <<quWaitPush, quSemPush>>
       \/ /\ QuAt(t, "push_enabled")
          /\ QuGo(t, IF quPush.off THEN "push_awake" ELSE "push_sleep")
          /\ UNCHANGED <<quWaitPush, quSemPush>>
       \/ /\ QuAt(t, "push_sleep") /\ quSemPush > 0
          /\ quSemPush' = quSemPush - 1 /\ QuGo(t, "push_awake")
          /\ UNCHANGED quWaitPush
       \/ /\ QuAt(t, "push_awake")
          /\ quWaitPush' = quWaitPush - 1
          /\ QuGoWith(t, [quThread[t] EXCEPT !.pc = "push_load", !.saved = QuNone])
          /\ UNCHANGED quSemPush
    /\ UNCHANGED <<qushared, quWaitPop, quSemPop, quOps>>

-----------------------------------------------------------------------------
(* The QueuePushGuard: reservePopForClear, commitPopIndex,                 *)
(* abortPushIndexReservation.                                              *)

QuAdvancePop(c) == quPop' = IF quPop = c THEN nextCombinedIndex(c) ELSE quPop

QuGuardLoad(t) ==
    /\ QuAt(t, "guard_load")
    /\ QuGoWith(t, [quThread[t] EXCEPT !.pc = "guard_cas", !.load = quPop])
    /\ UNCHANGED <<qushared, qusems, quOps>>

\* Everything before the guard's own cell is popped.
QuGuardCas(t) ==
    /\ QuAt(t, "guard_cas")
    /\ LET c == quThread[t].load
           st == quCell[QuIdx(c)].st
       IN IF c = quThread[t].own THEN UNCHANGED quCell /\ QuGo(t, "guard_abort")
          ELSE IF QuIs(c, "Full") THEN QuSet(c, "Reading") /\ QuGo(t, "guard_incr")
          ELSE UNCHANGED quCell /\ QuGo(t, IF st \in {"Writing", "Full"} THEN "guard_load" ELSE "guard_help")
    /\ UNCHANGED <<quPush, quPop, quData, qusems, quOps>>

QuGuardHelp(t) ==
    /\ QuAt(t, "guard_help")
    /\ QuAdvancePop(quThread[t].load)
    /\ QuGoWith(t, [quThread[t] EXCEPT !.pc = "guard_cas", !.load = quPop])
    /\ UNCHANGED <<quPush, quCell, quData, qusems, quOps>>

QuGuardIncr(t) ==
    /\ QuAt(t, "guard_incr")
    /\ QuAdvancePop(quThread[t].load) /\ QuGo(t, "guard_drop")
    /\ UNCHANGED <<quPush, quCell, quData, qusems, quOps>>

\* The cell is free for the next generation.
QuFree(c) ==
    quCell' = [quCell EXCEPT ![QuIdx(c)] = [gen |-> nextGeneration(QuGen(c)), st |-> "Empty"]]

QuGuardDrop(t) ==
    /\ QuAt(t, "guard_drop")
    /\ quData' = [quData EXCEPT ![QuIdx(quThread[t].load)] = -1]
    /\ QuFree(quThread[t].load)
    /\ QuGoWith(t, [quThread[t] EXCEPT !.pc = "guard_load", !.popped = @ + 1])
    /\ UNCHANGED <<quPush, quPop, qusems, quOps>>

\* abortPushIndexReservation, its three atomic accesses, and the wakeups.
QuGuardAbort(t) ==
    \/ /\ QuAt(t, "guard_abort")
       /\ QuSet(quThread[t].own, "Reading") /\ QuGo(t, "guard_abort2")
       /\ UNCHANGED <<quPush, quPop, quData, qusems, quOps>>
    \/ /\ QuAt(t, "guard_abort2")
       /\ QuAdvancePop(quThread[t].own) /\ QuGo(t, "guard_abort3")
       /\ UNCHANGED <<quPush, quCell, quData, qusems, quOps>>
    \/ /\ QuAt(t, "guard_abort3")
       /\ QuFree(quThread[t].own) /\ QuGo(t, "guard_notify")
       /\ UNCHANGED <<quPush, quPop, quData, qusems, quOps>>
    \/ /\ QuAt(t, "guard_notify")
       /\ quSemPush' = quSemPush + quThread[t].popped
       /\ QuFinish(t, [op |-> "threw"])
       /\ UNCHANGED <<qushared, quWaitPop, quWaitPush, quSemPop, quOps>>

-----------------------------------------------------------------------------
(* Popping: tryPopFront, popFront, popFrontWithTimeout, reservePopIndex    *)
(* and the QueuePopGuard.                                                  *)

QuStartPop(t, op) ==
    /\ QuAt(t, "idle") /\ quOps < QuMaxOps /\ quOps' = quOps + 1
    /\ QuGoWith(t, [pc |-> "pop_load", op |-> op, load |-> -1, saved |-> -1, second |-> FALSE])
    /\ UNCHANGED <<qushared, qusems>>

QuPopLoad(t) ==
    /\ QuAt(t, "pop_load")
    /\ QuGoWith(t, [quThread[t] EXCEPT !.pc = "pop_cas", !.load = quPop])
    /\ UNCHANGED <<qushared, qusems, quOps>>

\* QueueEmpty: what the operation does about it.
QuPopEmpty(t) ==
    IF quThread[t].op = "removeAll" THEN QuGo(t, "remove_wake")
    ELSE IF quThread[t].op = "popFront" \/ (quThread[t].op = "popFrontWithTimeout" /\ ~quThread[t].second)
         THEN QuGo(t, "pop_wait")
         ELSE QuFinish(t, [op |-> "empty"])

\* The cell at the loaded index is taken for reading.  One of an older generation, or
\* an empty one that is seen twice, means an empty queue.
QuPopCas(t) ==
    /\ QuAt(t, "pop_cas")
    /\ LET c == quThread[t].load IN
       IF QuIs(c, "Full") THEN QuSet(c, "Reading") /\ QuGo(t, "pop_incr")
       ELSE /\ UNCHANGED quCell
            /\ IF QuOld(c) THEN QuPopEmpty(t)
               ELSE IF QuIs(c, "Empty")
               THEN IF quThread[t].saved # c
                    THEN QuGoWith(t, [quThread[t] EXCEPT !.pc = "pop_load", !.saved = c])
                    ELSE QuPopEmpty(t)
               ELSE QuGo(t, IF QuIs(c, "Reading") THEN "pop_help" ELSE "pop_load")
    /\ UNCHANGED <<quPush, quPop, quData, qusems, quOps>>

QuPopHelp(t) ==
    /\ QuAt(t, "pop_help")
    /\ QuAdvancePop(quThread[t].load)
    /\ QuGoWith(t, [quThread[t] EXCEPT !.pc = "pop_cas", !.load = quPop])
    /\ UNCHANGED <<quPush, quCell, quData, qusems, quOps>>

QuPopIncr(t) ==
    /\ QuAt(t, "pop_incr")
    /\ QuAdvancePop(quThread[t].load) /\ QuGo(t, "pop_take")
    /\ UNCHANGED <<quPush, quCell, quData, qusems, quOps>>

\* The element is moved out and destroyed.
QuPopTake(t) ==
    /\ QuAt(t, "pop_take")
    /\ LET i == QuIdx(quThread[t].load) IN
       /\ quData' = [quData EXCEPT ![i] = -1]
       /\ QuGoWith(t, [pc |-> "pop_commit", op |-> quThread[t].op, load |-> quThread[t].load, val |-> quData[i],
                       n |-> IF quThread[t].op = "removeAll" THEN quThread[t].n ELSE 0,
                       popped |-> IF quThread[t].op = "removeAll" THEN quThread[t].popped ELSE 0])
    /\ UNCHANGED <<quPush, quPop, quCell, qusems, quOps>>

\* Mutant: the freed cell stays in its generation.
commitPopIndex_same(t) ==
    /\ QuAt(t, "pop_commit")
    /\ QuSet(quThread[t].load, "Empty")
    /\ QuGo(t, IF quThread[t].op = "removeAll" THEN "remove_more" ELSE "pop_notify")
    /\ UNCHANGED <<quPush, quPop, quData, qusems, quOps>>

commitPopIndex(t) ==
    /\ QuAt(t, "pop_commit")
    /\ QuFree(quThread[t].load)
    /\ QuGo(t, IF quThread[t].op = "removeAll" THEN "remove_more" ELSE "pop_notify")
    /\ UNCHANGED <<quPush, quPop, quData, qusems, quOps>>

QuPopNotify(t) ==
    /\ QuAt(t, "pop_notify")
    /\ quSemPush' = IF quWaitPush > 0 THEN quSemPush + 1 ELSE quSemPush
    /\ QuFinish(t, [op |-> "popped", val |-> quThread[t].val])
    /\ UNCHANGED <<qushared, quWaitPop, quWaitPush, quSemPop, quOps>>

\* A popper that found nothing announces itself, looks again (the two loads of
\* empty()), and sleeps until it is notified or its timeout is over.
QuPopWait(t) ==
    /\ \/ /\ QuAt(t, "pop_wait")
          /\ quWaitPop' = quWaitPop + 1 /\ QuGo(t, "pop_empty")
          /\ UNCHANGED quSemPop
       \/ /\ QuAt(t, "pop_empty")
          /\ QuGoWith(t, [quThread[t] EXCEPT !.pc = "pop_empty2", !.load = quPush.c])
          /\ UNCHANGED <<quWaitPop, quSemPop>>
       \/ /\ QuAt(t, "pop_empty2")
          /\ QuGo(t, IF QuSize(quThread[t].load, quPop) = 0 THEN "pop_sleep" ELSE "pop_awake")
          /\ UNCHANGED <<quWaitPop, quSemPop>>
       \/ /\ QuAt(t, "pop_sleep")
          /\ \/ quSemPop > 0 /\ quSemPop' = quSemPop - 1
             \/ quThread[t].op = "popFrontWithTimeout" /\ quSemPop = 0 /\ UNCHANGED quSemPop
          /\ QuGoWith(t, [quThread[t] EXCEPT !.pc = "pop_awake", !.second = TRUE])
          /\ UNCHANGED quWaitPop
       \/ /\ QuAt(t, "pop_awake")
          /\ quWaitPop' = quWaitPop - 1
          /\ QuGoWith(t, [quThread[t] EXCEPT !.pc = "pop_load", !.saved = -1, !.load = -1])
          /\ UNCHANGED quSemPop
    /\ UNCHANGED <<qushared, quWaitPush, quSemPush, quOps>>

-----------------------------------------------------------------------------
(* disable, enable and removeAll.                                          *)

\* disable: the flag is set, then every pusher that announced itself is woken.
QuDisable ==
    \/ /\ QuAt(QuControl, "idle") /\ quOps < QuMaxOps /\ quOps' = quOps + 1
       /\ quPush' = [quPush EXCEPT !.off = TRUE]
       /\ QuGo(QuControl, "disable_wake")
       /\ UNCHANGED <<quPop, quCell, quData, qusems>>
    \/ /\ QuAt(QuControl, "disable_wake")
       /\ quSemPush' = quSemPush + quWaitPush
       /\ QuGo(QuControl, "idle")
       /\ UNCHANGED <<qushared, quWaitPop, quWaitPush, quSemPop, quOps>>

QuEnable ==
    /\ QuAt(QuControl, "idle") /\ quPush.off
    /\ quPush' = [quPush EXCEPT !.off = FALSE]
    /\ UNCHANGED <<quPop, quCell, quData, qusems, quThread, quOps>>

\* removeAll: as many elements as size() saw are popped.
QuRemoveAll ==
    \/ /\ QuAt(QuControl, "idle") /\ quOps < QuMaxOps /\ quOps' = quOps + 1
       /\ QuGoWith(QuControl, [pc |-> "remove_size", load |-> quPush.c])
       /\ UNCHANGED <<qushared, qusems>>
    \/ /\ QuAt(QuControl, "remove_size")
       /\ QuGoWith(QuControl, [pc |-> "remove_more", n |-> QuSize(quThread[QuControl].load, quPop), popped |-> 0])
       /\ UNCHANGED <<qushared, qusems, quOps>>
    \/ /\ QuAt(QuControl, "remove_more")
       /\ LET r == quThread[QuControl] IN
          IF r.popped < r.n
          THEN QuGoWith(QuControl, [pc |-> "pop_load", op |-> "removeAll", load |-> -1, saved |-> -1,
                                    n |-> r.n, popped |-> r.popped + 1])
          ELSE QuGoWith(QuControl, [pc |-> "remove_wake", popped |-> r.popped + 1])
       /\ UNCHANGED <<qushared, qusems, quOps>>
    \/ /\ QuAt(QuControl, "remove_wake")
       /\ quSemPush' = quSemPush +
             IF quThread[QuControl].popped < quWaitPush THEN quThread[QuControl].popped ELSE quWaitPush
       /\ QuGoWith(QuControl, QuIdle)
       /\ UNCHANGED <<qushared, quWaitPop, quWaitPush, quSemPop, quOps>>

QuReturn(t) ==
    /\ QuAt(t, "done") /\ QuGoWith(t, QuIdle)
    /\ UNCHANGED <<qushared, qusems, quOps>>

QuNext ==
    \/ \E t \in QuPusher :
          \/ \E op \in {"pushBack", "tryPushBack"} : QuStartPush(t, op)
          \/ QuPushLoad(t) \/ QuPushCas(t) \/ QuPushHelp(t) \/ QuPushIncr(t) \/ QuPushMake(t)
          \/ commitPushIndex(t) \/ QuPushNotify(t) \/ QuPushWait(t)
          \/ QuGuardLoad(t) \/ QuGuardCas(t) \/ QuGuardHelp(t) \/ QuGuardIncr(t) \/ QuGuardDrop(t)
          \/ QuGuardAbort(t) \/ QuReturn(t)
    \/ \E t \in QuPopper :
          \/ \E op \in {"popFront", "tryPopFront", "popFrontWithTimeout"} : QuStartPop(t, op)
          \/ QuPopNotify(t) \/ QuPopWait(t) \/ QuReturn(t)
    \/ \E t \in QuPopper \cup {QuControl} :
          QuPopLoad(t) \/ QuPopCas(t) \/ QuPopHelp(t) \/ QuPopIncr(t) \/ QuPopTake(t) \/ commitPopIndex(t)
    \/ QuDisable \/ QuEnable \/ QuRemoveAll

-----------------------------------------------------------------------------
\* Who holds the cell of combined index c for writing.
QuWriter(c) ==
    CHOOSE t \in QuPusher :
        \/ quThread[t].pc \in {"push_incr", "push_make", "push_commit"} /\ quThread[t].load.c = c
        \/ quThread[t].pc \in {"guard_load", "guard_cas", "guard_help", "guard_incr", "guard_drop", "guard_abort"}
              /\ quThread[t].own = c

\* The cell of combined index c was taken for writing, and then for reading.
QuTaken(c) == ~QuIs(c, "Empty") /\ ~QuOld(c)
QuGone(c) == QuTaken(c) /\ ~QuIs(c, "Writing") /\ ~QuIs(c, "Full")

\* The queue as its cells describe it, oldest element first: each of the two indices
\* may still have to be advanced over the last cell that was taken.
QuFrom == IF QuGone(quPop) THEN nextCombinedIndex(quPop) ELSE quPop
QuTo == IF QuTaken(quPush.c) THEN nextCombinedIndex(quPush.c) ELSE quPush.c
QuElement(c) == IF QuIs(c, "Full") THEN quData[QuIdx(c)] ELSE quThread[QuWriter(c)].val
QuItems ==
    [k \in 1 .. (QuTo - QuFrom + QuGens * QuCap) % (QuGens * QuCap) |->
        QuElement((QuFrom + k - 1) % (QuGens * QuCap))]

\* The operation that a thread is in, as its caller sees it.
QuCaller(t) ==
    LET r == quThread[t] IN
    IF r.pc = "idle" THEN [op |-> "idle"]
    ELSE IF r.pc = "done" THEN r.res
    ELSE IF r.pc \in {"push_incr", "push_make", "push_commit", "push_notify", "guard_load", "guard_cas",
                      "guard_help", "guard_incr", "guard_drop", "guard_abort"}
         THEN [op |-> "pushed", val |-> r.val]
    ELSE IF r.pc \in {"guard_abort2", "guard_abort3", "guard_notify"} THEN [op |-> "threw"]
    ELSE IF r.pc \in {"pop_incr", "pop_take"} THEN [op |-> "popped", val |-> quData[QuIdx(r.load)]]
    ELSE IF r.pc \in {"pop_commit", "pop_notify"} THEN [op |-> "popped", val |-> r.val]
    ELSE IF t \in QuPusher THEN [op |-> r.op, val |-> r.val, admitted |-> r.load # QuNone]
    ELSE [op |-> r.op, val |-> -1, admitted |-> FALSE]

Bounded == INSTANCE BoundedQueue WITH
    Thread <- QuPusher \cup QuPopper, Value <- -1 .. QuMaxOps + QuFill, Capacity <- QuCap,
    items <- QuItems, off <- quPush.off,
    state <- [t \in QuPusher \cup QuPopper |-> QuCaller(t)]

(***************************************************************************)
(* The lock-free queue implements the bounded queue: every push and pop,   *)
(* successful or not, takes effect at one atomic access of its thread, in  *)
(* order, whatever the other threads are in the middle of.                 *)
(***************************************************************************)
IsBoundedQueue == Bounded!Spec

QuAsleep(pc) == {t \in QuPusher \cup QuPopper : QuAt(t, pc)}
QuLeast(a, b) == IF a < b THEN a ELSE b

QuResting ==
    \A t \in DOMAIN quThread : quThread[t].pc \in {"idle", "done", "push_sleep", "pop_sleep"}

(***************************************************************************)
(* No wakeup is missed (pushBack, popFront, QueuePopGuard, disable): when  *)
(* no thread is in the middle of anything, the semaphores hold a           *)
(* notification for every sleeper that could go on, as long as size() has  *)
(* not lost count.                                                         *)
(***************************************************************************)
NoMissedWakeup ==
    QuResting /\ QuSize(quPush.c, quPop) = Len(QuItems) =>
        /\ quSemPop >= QuLeast(Cardinality(QuAsleep("pop_sleep")), Len(QuItems))
        /\ quSemPush >= QuLeast(Cardinality(QuAsleep("push_sleep")),
                                IF quPush.off THEN QuMaxOps ELSE QuCap - Len(QuItems))

(***************************************************************************)
(* queue.hpp, popFront: "Block until an element is available".  No thread  *)
(* sleeps in popFront while the queue holds an element and nobody is going *)
(* to wake it.                                                             *)
(***************************************************************************)
SleepsOnlyIfEmpty == QuResting /\ QuAsleep("pop_sleep") # {} /\ quSemPop = 0 => QuItems = << >>
=============================================================================
