--------------------------- MODULE IncomingTests ---------------------------
(***************************************************************************)
(* How a relay watches that the OTHER relays test it: the second half of   *)
(* consensus/reachability_testing.cpp.  incoming_ping records a test of    *)
(* this relay; a timer runs check_incoming_tests, which warns the operator *)
(* when no test came for too long.                                         *)
(*                                                                         *)
(* Time is counted in firings of the whine timer (30s); ages saturate at   *)
(* MaxAge, above every threshold they are compared with.                   *)
(***************************************************************************)
EXTENDS Integers

CONSTANTS
    MAX_TIME_WITHOUT_PING,  \* silence before we warn
    MAX_TIME_INITIAL,       \* silence before we warn, after registering
    WHINING_INTERVAL,       \* warnings repeat no faster than this
    MaxAge                  \* bound: ages saturate here

ASSUME IncomingTestsAssumption ==
    /\ MAX_TIME_WITHOUT_PING \in Nat /\ MAX_TIME_INITIAL \in Nat
    /\ WHINING_INTERVAL \in Nat /\ MaxAge \in Nat
    /\ MAX_TIME_WITHOUT_PING <= MAX_TIME_INITIAL
    /\ MAX_TIME_INITIAL < MaxAge /\ WHINING_INTERVAL < MaxAge

VARIABLES
    registered,        \* router.appears_registered()
    elapsed,           \* now - max(startup, last.last_test)
    since_whine,       \* now - last.last_whine
    was_failing, was_unregistered,
    warned             \* history: the last step logged a warning

itvars == <<registered, elapsed, since_whine, was_failing, was_unregistered, warned>>

Age == 0..MaxAge

\* The type of the state.
IncomingTests_TypeOK ==
    /\ registered \in BOOLEAN /\ was_failing \in BOOLEAN /\ was_unregistered \in BOOLEAN
    /\ elapsed \in Age /\ since_whine \in Age /\ warned \in BOOLEAN

Older(age) == IF age < MaxAge THEN age + 1 ELSE age

ItInit ==
    /\ registered \in BOOLEAN
    /\ elapsed = 0 /\ since_whine = MaxAge
    /\ was_failing = FALSE /\ was_unregistered = FALSE
    /\ warned = FALSE

\* Mutant: what is remembered is the warning, not the failure.
CheckAt_remembers_whine(e, w) ==
    LET failing == e > (IF was_unregistered THEN MAX_TIME_INITIAL ELSE MAX_TIME_WITHOUT_PING)
        whine == failing # was_failing \/ (failing /\ w > WHINING_INTERVAL)
    IN /\ was_failing' = (registered /\ whine)
       /\ warned' = (registered /\ whine /\ failing)
       /\ since_whine' = IF registered /\ whine THEN 0 ELSE w
       /\ was_unregistered' = (was_unregistered \/ ~registered)

\* The body of check_incoming_tests, with e and w the ages at the time it runs.
CheckAt(e, w) ==
    IF ~registered
    THEN /\ was_unregistered' = TRUE /\ was_failing' = FALSE
         /\ since_whine' = w /\ warned' = FALSE
    ELSE LET failing == e > (IF was_unregistered THEN MAX_TIME_INITIAL ELSE MAX_TIME_WITHOUT_PING)
             whine == failing # was_failing \/ (failing /\ w > WHINING_INTERVAL)
         IN /\ was_failing' = failing
            /\ since_whine' = IF whine THEN 0 ELSE w
            /\ warned' = (whine /\ failing)
            /\ UNCHANGED was_unregistered

\* The whine timer fires, one unit after it last did.
check_incoming_tests ==
    /\ elapsed' = Older(elapsed)
    /\ CheckAt(Older(elapsed), Older(since_whine))
    /\ UNCHANGED registered

incoming_ping ==
    /\ elapsed' = 0
    /\ IF was_failing THEN CheckAt(0, since_whine)
       ELSE UNCHANGED <<since_whine, was_failing, was_unregistered>> /\ warned' = FALSE
    /\ UNCHANGED registered

\* oxend's service node list changes.
registration_changes ==
    /\ registered' = ~registered
    /\ warned' = FALSE
    /\ UNCHANGED <<elapsed, since_whine, was_failing, was_unregistered>>

ItNext == check_incoming_tests \/ incoming_ping \/ registration_changes

-----------------------------------------------------------------------------
(***************************************************************************)
(* A registered relay that nobody tests for good ends up warning.          *)
(***************************************************************************)
SilenceIsReported == <>[](registered /\ elapsed > 0) => <>[]was_failing
=============================================================================
