------------------------------- MODULE NodeDB -------------------------------
(***************************************************************************)
(* How a client learns the relays of the network (nodedb.cpp): bootstraps  *)
(* when it knows too few, rounds that ask several relays for the router    *)
(* ids they know, the fetch of RCs after a round, and the lookups that     *)
(* wait for the first one.  Relays answer a round from one of two          *)
(* registered lists: the chain moves from the old to the new one, and each *)
(* relay follows at its own time.                                          *)
(***************************************************************************)
EXTENDS Integers, FiniteSets, Functions

CONSTANTS
    NdRelay,         \* the relays of either list
    NdOld, NdNew,    \* the registered relays before and after the change
    NdInbound,       \* terminals of inbound paths, asked for router ids
    NdOutbound,      \* terminals of outbound session paths, asked as well
    NdBoots,         \* number of bootstrap nodes
    NdMinActive,     \* MIN_ACTIVE_RCS
    NdMaxChains,     \* bound: bootstrap attempts under way or scheduled
    NdLookup         \* bound: RC lookups

ASSUME NodeDBAssumption ==
    /\ NdOld \subseteq NdRelay /\ NdNew \subseteq NdRelay
    /\ NdInbound # {} /\ NdInbound \cap NdOutbound = {}
    /\ NdBoots \in Nat \ {0} /\ NdMinActive \in Nat /\ NdMaxChains \in Nat \ {0}

VARIABLES
    ndRcs,      \* known_rcs
    ndRids,     \* known_rids
    ndRunning,  \* _bootstrap_running
    ndTries,    \* attempts waiting for the answer of each bootstrap node
    ndRetries,  \* bootstrap() calls scheduled by on_bootstrap_done
    ndRound,    \* the round of RID fetches: idle (scheduled), or the sources asked
    ndFetch,    \* a fetch of RCs is under way
    ndFetched,  \* _last_rc_fetch is set
    ndLookups   \* what became of every lookup_rc

ndvars == <<ndRcs, ndRids, ndRunning, ndTries, ndRetries, ndRound, ndFetch, ndFetched, ndLookups>>

NdSource == NdInbound \cup NdOutbound
NdIdle == [asked |-> {}, lost |-> {}, rids |-> << >>]

num_rcs == Cardinality(ndRcs)
NdAttempts == SumFunction(ndTries)

\* A start with what load_from_disk found: start() bootstraps if that is too little.
NdInit ==
    /\ ndRcs \in {{}, NdOld} /\ ndRids = ndRcs
    /\ ndRunning = (Cardinality(ndRcs) < NdMinActive)
    /\ ndTries = [i \in 1..NdBoots |-> IF i = 1 /\ ndRunning THEN 1 ELSE 0]
    /\ ndRetries = 0 /\ ndRound = NdIdle
    /\ ndFetch = FALSE /\ ndFetched = FALSE
    /\ ndLookups = [l \in NdLookup |-> "none"]

-----------------------------------------------------------------------------
\* bootstrap(): whatever _bootstrap_running is, a new attempt asks the first node.
bootstrap ==
    /\ ndRunning' = TRUE
    /\ ndTries' = [ndTries EXCEPT ![1] = @ + 1]

\* Mutant: the end of an attempt leaves _bootstrap_running set.
on_bootstrap_done_running(rcs) ==
    /\ ndRunning' = ndRunning
    /\ ndRetries' = IF Cardinality(rcs) >= NdMinActive THEN ndRetries ELSE ndRetries + 1

\* on_bootstrap_done: still too few RCs, and it is tried again after a cooldown.
on_bootstrap_done(rcs) ==
    /\ ndRunning' = FALSE
    /\ ndRetries' = IF Cardinality(rcs) >= NdMinActive THEN ndRetries ELSE ndRetries + 1

\* The answer of bootstrap node i: its RCs are stored and its router ids trusted, an empty
\* list being an answer too.  Without one, or with one that is garbled after some RCs, the
\* attempt goes on to the next node, or has failed.
bootstrap_response(i, ok, got) ==
    /\ ndTries[i] > 0
    /\ ndRcs' = ndRcs \cup got /\ ndRids' = ndRids \cup got
    /\ IF ok \/ i = NdBoots
       THEN /\ ndTries' = [ndTries EXCEPT ![i] = @ - 1]
            /\ on_bootstrap_done(ndRcs \cup got)
       ELSE /\ ndTries' = [ndTries EXCEPT ![i] = @ - 1, ![i + 1] = @ + 1]
            /\ UNCHANGED <<ndRunning, ndRetries>>
    /\ UNCHANGED <<ndRound, ndFetch, ndFetched, ndLookups>>

\* The cooldown is over.
bootstrap_retry ==
    /\ ndRetries > 0 /\ ndRetries' = ndRetries - 1
    /\ bootstrap
    /\ UNCHANGED <<ndRcs, ndRids, ndRound, ndFetch, ndFetched, ndLookups>>

\* The purge timer: expired RCs go, and too few left start a bootstrap.
purge_rcs(expired) ==
    /\ expired \subseteq ndRcs
    /\ NdAttempts + ndRetries < NdMaxChains
    /\ ndRcs' = ndRcs \ expired
    /\ IF Cardinality(ndRcs \ expired) < NdMinActive /\ ~ndRunning
       THEN bootstrap
       ELSE UNCHANGED <<ndRunning, ndTries>>
    /\ UNCHANGED <<ndRids, ndRetries, ndRound, ndFetch, ndFetched, ndLookups>>

-----------------------------------------------------------------------------
\* fetch_rids: the timer of the next round runs, and requests are sent over the
\* inbound paths, made up with outbound ones.  One over a path whose edge has no RC
\* is dropped: its callback never runs.
fetch_rids(asked, lost) ==
    /\ ndRound = NdIdle
    /\ asked \cap NdInbound # {} /\ lost \subseteq asked
    /\ ndRound' = [asked |-> asked, lost |-> lost, rids |-> << >>]
    /\ UNCHANGED <<ndRcs, ndRids, ndRunning, ndTries, ndRetries, ndFetch, ndFetched, ndLookups>>

\* handle_fetched_router_ids: the ids that a strict majority of the sources affirm,
\* one of them inbound.
NdAccepted(rids) ==
    {r \in UNION {rids[s] : s \in DOMAIN rids} :
        LET agree == {s \in DOMAIN rids : r \in rids[s]}
        IN /\ Cardinality(agree) >= Cardinality(DOMAIN rids) \div 2 + 1
           /\ agree \cap NdInbound # {}}

\* result_cb of fetch_rids: a source that fails affirms nothing.  The last one
\* applies the round, which replaces known_rids and fetches RCs, and schedules the
\* next: NdIdle again.
fetch_rids_response(s, list) ==
    /\ s \in ndRound.asked \ (ndRound.lost \cup DOMAIN ndRound.rids)
    /\ LET rids == [x \in DOMAIN ndRound.rids \cup {s} |-> IF x = s THEN list ELSE ndRound.rids[x]]
           accepted == NdAccepted(rids)
       IN IF DOMAIN rids # ndRound.asked
          THEN ndRound' = [ndRound EXCEPT !.rids = rids] /\ UNCHANGED <<ndRids, ndFetch>>
          ELSE /\ ndRound' = NdIdle
               /\ IF accepted = {} THEN UNCHANGED <<ndRids, ndFetch>>
                  ELSE /\ ndRids' = accepted
                       /\ ndFetch' \in {ndFetch, TRUE}
    /\ UNCHANGED <<ndRcs, ndRunning, ndTries, ndRetries, ndFetched, ndLookups>>

\* Queued lookups are answered with what is stored, or with nothing on an error.
NdAnswered(rcs) == [l \in NdLookup |->
    IF ndLookups[l] # "queued" THEN ndLookups[l] ELSE IF rcs # {} THEN "found" ELSE "missing"]

\* The response of fetch_rcs: RCs of relays whose id is not known are ignored; after
\* the first good one lookups are answered at once.
fetch_rcs_response(ok, got) ==
    /\ ndFetch /\ ndFetch' = FALSE
    /\ IF ok
       THEN /\ ndRcs' = ndRcs \cup (got \cap ndRids) /\ ndFetched' = TRUE
            /\ ndLookups' = NdAnswered(ndRcs')
       ELSE /\ UNCHANGED <<ndRcs, ndFetched>>
            /\ ndLookups' = NdAnswered({})
    /\ UNCHANGED <<ndRids, ndRunning, ndTries, ndRetries, ndRound>>

\* lookup_rc: before the first fetch of RCs a lookup that finds nothing waits for it.
\* (Any stored RC stands for the one that is looked up.)
lookup_rc(l) ==
    /\ ndLookups[l] = "none"
    /\ ndLookups' = [ndLookups EXCEPT ![l] =
          IF ndRcs # {} THEN "found" ELSE IF ~ndFetched THEN "queued" ELSE "missing"]
    /\ UNCHANGED <<ndRcs, ndRids, ndRunning, ndTries, ndRetries, ndRound, ndFetch, ndFetched>>

NdNext ==
    \/ \E i \in 1..NdBoots, ok \in BOOLEAN, got \in {{}, NdOld, NdNew} : bootstrap_response(i, ok, got)
    \/ bootstrap_retry
    \/ \E expired \in {{}, ndRcs} : purge_rcs(expired)
    \/ \E asked \in SUBSET NdSource : \E lost \in SUBSET asked : fetch_rids(asked, lost)
    \/ \E s \in NdSource, list \in {{}, NdOld, NdNew} : fetch_rids_response(s, list)
    \/ \E ok \in BOOLEAN, got \in {{}, NdOld, NdNew} : fetch_rcs_response(ok, got)
    \/ \E l \in NdLookup : lookup_rc(l)

-----------------------------------------------------------------------------
\* The type of the state.
NodeDB_TypeOK ==
    /\ ndRcs \subseteq NdRelay /\ ndRids \subseteq NdRelay
    /\ ndRunning \in BOOLEAN /\ ndFetch \in BOOLEAN /\ ndFetched \in BOOLEAN
    /\ ndTries \in [1..NdBoots -> 0..NdMaxChains] /\ ndRetries \in 0..NdMaxChains
    /\ ndRound.lost \subseteq ndRound.asked /\ DOMAIN ndRound.rids \subseteq ndRound.asked
    /\ ndLookups \in [NdLookup -> {"none", "queued", "found", "missing"}]

(***************************************************************************)
(* A client never stays cut off (purge_rcs, on_bootstrap_done): again and  *)
(* again it has enough RCs or a bootstrap attempt is asking a node.        *)
(***************************************************************************)
NeverCutOff == []<>(num_rcs >= NdMinActive \/ NdAttempts > 0)

(***************************************************************************)
(* nodedb.cpp: "the next round has to get scheduled: dropping it would     *)
(* stop us fetching RouterIDs for good".  Every round comes to its end.    *)
(***************************************************************************)
RoundsGoOn == []<>(ndRound = NdIdle)

(***************************************************************************)
(* nodedb.hpp: BOOTSTRAP_COOLDOWN "is how long we wait before              *)
(* bootstrapping again".  No attempt is under way while a retry waits.     *)
(***************************************************************************)
CooldownIsKept == ~(ndRetries > 0 /\ NdAttempts > 0)
=============================================================================
