---------------------------- MODULE Reachability ----------------------------
(***************************************************************************)
(* The relay-side reachability tester, consensus/reachability_testing.cpp: *)
(* every TEST_INTERVAL it pops the failing relays that are due, adds one   *)
(* random relay that is not failing, and pings each of them; the answers   *)
(* arrive later, in any order, and may find a registry that has changed.   *)
(*                                                                         *)
(* Time is counted in test intervals, so one firing of the test timer is   *)
(* one unit, and a queue entry holds the time LEFT until its retest.       *)
(***************************************************************************)
EXTENDS Integers, FiniteSets

CONSTANTS
    Relay,                 \* router IDs the registry may list
    Chain,                 \* bound: retests and pings of one relay at a time
    MAX_RETESTS_PER_TICK,  \* failing relays retested per firing
    RETEST_BACKOFF,        \* added delay per consecutive failure
    RETEST_NOISE,          \* the values of the random jitter
    RETEST_MAX,            \* cap of the delay
    MaxFails,              \* bound: failure counts saturate here
    MaxLate                \* bound: overdue times saturate here

ASSUME ReachabilityAssumption ==
    /\ MAX_RETESTS_PER_TICK \in Nat \ {0}
    /\ RETEST_BACKOFF \in Nat /\ RETEST_MAX \in Nat
    /\ RETEST_NOISE \subseteq Int
    /\ MaxFails \in Nat \ {0} /\ MaxLate \in Nat

VARIABLES
    timers,         \* the test timer is on the job queue
    testable,       \* router.is_running() and router.appears_registered()
    world,          \* what the node database and the network know of a relay
    failing,        \* the set `failing`
    testing_queue,  \* the relays still to be drawn (the shuffle is the draw)
    probe,          \* failing_queue entries and outstanding pings, by <<relay, chain>>
    informed        \* relays last reported to oxend as unreachable

vars == <<timers, testable, world, failing, testing_queue, probe, informed>>

World == {"unregistered", "no_rc", "down", "up"}

None == [st |-> "none"]

Slot == Relay \X Chain

Queued == [st : {"queued"}, due : Int, fails : 1..MaxFails]

Testing == [st : {"testing"}, fails : 0..MaxFails]

\* The type of the state.
Reachability_TypeOK ==
    /\ timers \in BOOLEAN /\ testable \in BOOLEAN
    /\ world \in [Relay -> World]
    /\ failing \subseteq Relay /\ testing_queue \subseteq Relay
    /\ probe \in [Slot -> {None} \cup Queued \cup Testing]
    /\ informed \subseteq Relay

Registered == {r \in Relay : world[r] # "unregistered"}

Clamp(x, lo, hi) == IF x < lo THEN lo ELSE IF x > hi THEN hi ELSE x

retest_interval(n, noise) ==
    Clamp((IF n < 1 THEN 1 ELSE n) * RETEST_BACKOFF + noise, 0, RETEST_MAX)

\* Mutant: the failure is not counted.
FailCount_uncounted(n) == n

FailCount(n) == IF n < MaxFails THEN n + 1 ELSE MaxFails

\* The queue entry that add_failing_node pushes.
FailingEntry(previous, noise) ==
    [st |-> "queued", fails |-> FailCount(previous),
     due |-> retest_interval(FailCount(previous), noise)]

-----------------------------------------------------------------------------
Init ==
    /\ timers = FALSE /\ testable \in BOOLEAN
    /\ world \in [Relay -> World]
    /\ failing = {} /\ testing_queue = {} /\ informed = {}
    /\ probe = [s \in Slot |-> None]

start == timers' = TRUE /\ UNCHANGED <<testable, world, failing, testing_queue, probe, informed>>

stop ==
    /\ timers
    /\ timers' = FALSE
    /\ UNCHANGED <<testable, world, failing, testing_queue, probe, informed>>

\* One interval passes: every queue entry comes that much closer.
Aged ==
    [s \in Slot |->
        IF probe[s].st = "queued"
        THEN [probe[s] EXCEPT !.due = IF @ > -MaxLate THEN @ - 1 ELSE @]
        ELSE probe[s]]

\* Mutant: the queue puts the latest retest time on top, the default order.
get_failing_latest_first(q) ==
    LET queued == {s \in Slot : q[s].st = "queued"}
        top == {s \in queued : \A t \in queued : q[t].due <= q[s].due}
        due == {s \in top : q[s].due <= 0}
    IN IF due = {} THEN {{}} ELSE {{s} : s \in due}

\* The sets of entries get_failing may pop: the due ones in the order of their
\* retest times, ending with the MAX_RETESTS_PER_TICKth one still failing.
get_failing(q) ==
    LET due == {s \in Slot : q[s].st = "queued" /\ q[s].due <= 0}
        hits(S) == {s \in S : s[1] \in failing}
    IN {P \in SUBSET due :
            /\ \A s \in P, t \in due \ P : q[s].due <= q[t].due
            /\ Cardinality(hits(P)) <= MAX_RETESTS_PER_TICK
            /\ \/ P = due
               \/ /\ Cardinality(hits(P)) = MAX_RETESTS_PER_TICK
                  /\ \E l \in hits(P) : \A s \in P : q[s].due <= q[l].due}

\* What a draw from the queue S can return, and what it leaves: the failing
\* relays met before the one returned are skipped and gone.
DrawFrom(S) ==
    {[pk |-> r, rest |-> S \ ({r} \cup skipped)] :
        r \in S \ failing, skipped \in SUBSET (S \cap failing)}

next_random ==
    IF testing_queue \ failing # {} THEN DrawFrom(testing_queue) ELSE DrawFrom(Registered)

\* Mutant: a relay without a recent RC is skipped instead of failed again.
Launch_skips_no_rc(relay, prev_fails, noise) ==
    IF world[relay] \in {"unregistered", "no_rc"} THEN None
    ELSE [st |-> "testing", fails |-> prev_fails]

\* What tick does with one entry of its list of tests.
Launch(relay, prev_fails, noise) ==
    CASE world[relay] = "unregistered" -> None
      [] world[relay] = "no_rc" -> FailingEntry(prev_fails, noise)
      [] OTHER -> [st |-> "testing", fails |-> prev_fails]

\* The loop of tick: a retest for every popped entry whose relay is still
\* failing (the others are dropped), and a first test in each slot of `random`.
RunTests(popped, random, noise) ==
    LET retests == {s \in popped : s[1] \in failing}
        named(w) == {s[1] : s \in {t \in retests \cup random : world[t[1]] = w}}
    IN /\ probe' = [s \in Slot |->
            IF s \in random THEN Launch(s[1], 0, noise[s])
            ELSE IF s \in retests THEN Launch(s[1], Aged[s].fails, noise[s])
            ELSE IF s \in popped THEN None ELSE Aged[s]]
       /\ failing' = (failing \ named("unregistered")) \cup named("no_rc")

\* Where the ping of a drawn relay may be recorded; nowhere (a bound of the
\* model: the random test is then left out) when all its chains are in use.
Record(relay) ==
    LET free == {s \in {relay} \X Chain : probe[s] = None}
    IN IF free = {} THEN {{}} ELSE {{s} : s \in free}

\* The timer fires while we are stopping or not registered: nothing is tested.
tick_idle ==
    /\ timers /\ ~testable
    /\ probe' = Aged
    /\ UNCHANGED <<timers, testable, world, failing, testing_queue, informed>>

\* The timer fires and runs the retests and the random test.
tick ==
    /\ timers /\ testable
    /\ \E popped \in get_failing(Aged), noise \in [Slot -> RETEST_NOISE] :
        \/ \E d \in next_random : \E random \in Record(d.pk) :
            /\ RunTests(popped, random, noise)
            /\ testing_queue' = d.rest
        \/ /\ next_random = {}
           /\ RunTests(popped, {}, noise)
           /\ testing_queue' = {}
    /\ UNCHANGED <<timers, testable, world, informed>>

\* The ping's response handler: an answer, an error or the timeout.
ping_result(s) ==
    LET ok == world[s[1]] = "up"
    IN /\ probe[s].st = "testing"
       /\ \E noise \in RETEST_NOISE :
            probe' = [probe EXCEPT ![s] = IF ok THEN None ELSE FailingEntry(@.fails, noise)]
       /\ failing' = IF ok THEN failing \ {s[1]} ELSE failing \cup {s[1]}
       /\ informed' = IF ok THEN informed \ {s[1]} ELSE informed \cup {s[1]}
       /\ UNCHANGED <<timers, testable, world, testing_queue>>

\* A relay (de)registers, its RC arrives or grows old, its host goes up or down.
world_changes ==
    /\ \E r \in Relay, w \in World : world' = [world EXCEPT ![r] = w]
    /\ UNCHANGED <<timers, testable, failing, testing_queue, probe, informed>>

\* We ourselves are (de)registered, or begin to stop.
self_changes ==
    /\ testable' = ~testable
    /\ UNCHANGED <<timers, world, failing, testing_queue, probe, informed>>

Next ==
    \/ start \/ stop \/ tick_idle \/ tick
    \/ \E s \in Slot : ping_result(s)
    \/ world_changes \/ self_changes

Spec == Init /\ [][Next]_vars

-----------------------------------------------------------------------------
(***************************************************************************)
(* No failing relay is forgotten: `failing` keeps a relay out of the       *)
(* random tests, so every relay in it must have a retest queued or a ping  *)
(* outstanding; else it would never be tested, nor cleared, again.         *)
(***************************************************************************)
NoRetestLost ==
    \A r \in failing : \E c \in Chain : probe[<<r, c>>].st # "none"

(***************************************************************************)
(* A relay that becomes and stays reachable is eventually, and for good,   *)
(* neither failing nor reported to oxend as unreachable, whatever tests of *)
(* it were queued or under way when it came back.                          *)
(***************************************************************************)
RecoveryNoticed ==
    \A r \in Relay :
        <>[](world[r] = "up" /\ timers /\ testable)
            => <>[](r \notin failing /\ r \notin informed)

(***************************************************************************)
(* The job queue keeps firing a timer that is on it, and a ping is always  *)
(* answered, if only by its timeout (TEST_REQUEST_TIMEOUT).                *)
(***************************************************************************)
Fairness ==
    /\ WF_vars(tick) /\ WF_vars(tick_idle)
    /\ \A s \in Slot : WF_vars(ping_result(s))

FairSpec == Spec /\ Fairness
=============================================================================
