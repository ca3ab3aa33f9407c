---------------------------- MODULE InboundPaths ----------------------------
(***************************************************************************)
(* The inbound paths of a client: SessionEndpoint::update_paths with its   *)
(* expiry slots, and the publication of the client contact once the target *)
(* number of paths is active (handlers/session.cpp).                       *)
(*                                                                         *)
(* Time is cut into slots of IpSlot instants.  A path of slot n expires    *)
(* when the slot starts, plus a fuzz that all paths of the slot share.     *)
(* Paths with more than one hop only: with a single hop the edge rules     *)
(* choose the pivot.                                                       *)
(***************************************************************************)
EXTENDS Integers, FiniteSets, Functions

CONSTANTS
    IpRelay,        \* relays that can be pivots
    IpReuse,        \* [paths]:inbound-pivot-reuse
    IpTarget,       \* _target_paths
    IpMaxSlots,     \* MAX_LIFETIME_SLOTS
    IpSlot,         \* slot_size, in instants
    IpFuzz,         \* MAX_LIFETIME_FUZZ
    IpMany,         \* the number of paths from which num_rcs matters (10)
    IpMaxTime       \* bound: the clock

ASSUME InboundPathsAssumption ==
    /\ IpReuse \in Nat \ {0} /\ IpTarget \in Nat \ {0} /\ IpMaxSlots \in Nat \ {0}
    /\ IpSlot \in Nat \ {0} /\ IpFuzz \in Nat /\ IpFuzz < IpSlot
    /\ IpMany \in Nat /\ IpMaxTime \in Nat /\ IsFiniteSet(IpRelay)

VARIABLES
    ipNow,      \* the clock
    ipPaths,    \* _paths: the record of every object, or IpNoPath
    ipFuzz,     \* _slot_fuzz, -1 where there is none
    ipFailed,   \* a build has failed since the last success
    ipIntros    \* client_contact: the paths in it

ipvars == <<ipNow, ipPaths, ipFuzz, ipFailed, ipIntros>>

\* The paths to a pivot are numbered: there are no more than inbound_pivot_reuse.
IpObjects == IpRelay \X (1..IpReuse)

IpNoPath == [st |-> "none", exp |-> 0]
IpSlots == IF IpTarget < IpMaxSlots THEN IpTarget ELSE IpMaxSlots
IpLast == IpMaxTime \div IpSlot + IpSlots + 1
IpPath == [st : {"building", "active"}, exp : 0..((IpLast + 1) * IpSlot)]

IpInit ==
    /\ ipNow = 0
    /\ ipPaths = [o \in IpObjects |-> IpNoPath]
    /\ ipFuzz = [n \in 0..IpLast |-> -1]
    /\ ipFailed = FALSE /\ ipIntros = {}

IpLive(P) == {o \in IpObjects : P[o].st # "none"}

\* PathHandler::expire_paths, which comes first in every tick.
IpExpired == [o \in IpObjects |-> IF ipPaths[o].exp <= ipNow THEN IpNoPath ELSE ipPaths[o]]

\* slot0, and how many paths of P fall into the slots from there on.
IpSlot0 == ipNow \div IpSlot + 1

IpCount(P, n) == Cardinality({o \in IpLive(P) : P[o].exp \div IpSlot = n})

\* The slot with the fewest paths, the latest of them in a tie.
IpEmptiest(count, n) ==
    \A m \in DOMAIN count : count[n] < count[m] \/ (count[n] = count[m] /\ n >= m)

\* The slots of k new paths, given how many paths are in each: one after the
\* other goes into the slot that is emptiest then.
IpFill(count, k) ==
    {s \in [1..k -> DOMAIN count] :
        \A i \in 1..k :
            IpEmptiest([n \in DOMAIN count |-> count[n] + Cardinality({j \in 1..(i - 1) : s[j] = n})], s[i])}

\* Mutant: the paths there are already are not counted.
IpChoose_afresh(P, k) == IpFill([n \in IpSlot0..(IpSlot0 + IpSlots - 1) |-> 0], k)

IpChoose(P, k) == IpFill([n \in IpSlot0..(IpSlot0 + IpSlots - 1) |-> IpCount(P, n)], k)

\* How many paths are missing.  (A target above IpMany is cut to what the
\* relays we know allow.)
IpNeeded(P) ==
    LET most == Cardinality(IpRelay) * IpReuse
        target == IF IpTarget > IpMany /\ IpTarget > most THEN most ELSE IpTarget
    IN target - Cardinality(IpLive(P))

\* inbound_path_fuzz: drawn once for every slot, after cleanup_old_fuzz.
IpFuzzes(slots) ==
    LET new == {n \in slots : ipFuzz[n] = -1}
    IN {[n \in 0..IpLast |-> IF n < IpSlot0 THEN -1 ELSE IF n \in new THEN d[n] ELSE ipFuzz[n]] :
            d \in [new -> 0..IpFuzz]}

\* The paths once those of N are started: path o expires in the slot chosen for it.
IpStarted(P, slots, N, at, fuzz) ==
    [o \in IpObjects |->
        IF o \notin N THEN P[o]
        ELSE LET n == slots[at[o]] IN [st |-> "building", exp |-> n * IpSlot + fuzz[n]]]

\* A tick: expired paths are dropped, then update_paths starts the missing
\* ones, as many as pivots and hops can be found for.  In cooldown it does not.
IpUpdate ==
    LET P == IpExpired
        k == IpNeeded(P)
    IN \/ /\ k <= 0 \/ ipFailed
          /\ ipPaths' = P /\ UNCHANGED <<ipNow, ipFuzz, ipFailed, ipIntros>>
       \/ /\ k > 0
          /\ \E slots \in IpChoose(P, k), N \in SUBSET (IpObjects \ IpLive(P)) :
                /\ Cardinality(N) <= k
                /\ ipFuzz' \in IpFuzzes({slots[i] : i \in 1..k})
                /\ \E at \in Bijection(N, 1..Cardinality(N)) : ipPaths' = IpStarted(P, slots, N, at, ipFuzz')
          /\ UNCHANGED <<ipNow, ipFailed, ipIntros>>

\* on_path_build_success: the contact is published once all paths are active.
\* (A failed is_reachable leaves it unpublished; this client is reachable.)
IpBuilt(o) ==
    /\ ipPaths[o].st = "building"
    /\ ipPaths' = [ipPaths EXCEPT ![o].st = "active"]
    /\ ipFailed' = FALSE
    /\ LET active == {q \in IpObjects : ipPaths'[q].st = "active" /\ ipPaths'[q].exp > ipNow}
       IN ipIntros' = IF Cardinality(active) < IpTarget THEN ipIntros
                      ELSE active
    /\ UNCHANGED <<ipNow, ipFuzz>>

\* A build fails or times out; an active path dies (its pings go unanswered).
IpFails(o) ==
    /\ ipPaths[o].st = "building"
    /\ ipPaths' = [ipPaths EXCEPT ![o] = IpNoPath]
    /\ ipFailed' = TRUE
    /\ UNCHANGED <<ipNow, ipFuzz, ipIntros>>

IpDies(o) ==
    /\ ipPaths[o].st = "active" /\ ipPaths[o].exp > 0
    /\ ipPaths' = [ipPaths EXCEPT ![o].exp = 0]
    /\ UNCHANGED <<ipNow, ipFuzz, ipFailed, ipIntros>>

IpTime ==
    /\ ipNow < IpMaxTime
    /\ ipNow' = ipNow + 1
    /\ UNCHANGED <<ipPaths, ipFuzz, ipFailed, ipIntros>>

IpNext ==
    \/ IpUpdate \/ IpTime
    \/ \E o \in IpObjects : IpBuilt(o) \/ IpFails(o) \/ IpDies(o)

-----------------------------------------------------------------------------
InboundPaths_TypeOK ==
    /\ ipNow \in 0..IpMaxTime
    /\ ipPaths \in [IpObjects -> IpPath \cup {IpNoPath}]
    /\ ipFuzz \in [0..IpLast -> -1..IpFuzz]
    /\ ipFailed \in BOOLEAN

(***************************************************************************)
(* The expiries of the inbound paths stay spread out, as the long comment  *)
(* in update_paths wants: whatever paths fail, die early or are rebuilt    *)
(* all at once, no slot ever holds more than its share of the target.  So  *)
(* a peer always has other paths to move to when those of a slot expire.   *)
(***************************************************************************)
ExpiriesSpread ==
    \A n \in 1..IpLast : IpCount(ipPaths, n) <= (IpTarget + IpSlots - 1) \div IpSlots
=============================================================================
