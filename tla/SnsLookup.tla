----------------------------- MODULE SnsLookup -----------------------------
(***************************************************************************)
(* Looking up the address of an SNS name: resolve_sns of                   *)
(* handlers/session.cpp asks the pivots of several inbound paths, counts   *)
(* the answers and caches the outcome.  A pivot asks its oxend             *)
(* (handle_path_resolve_sns) and returns an encrypted record or "not       *)
(* found"; here an answer is an address, not found, or bad (an error, a    *)
(* timeout, a record that does not decrypt).  Lookups of the same name may *)
(* overlap: each counts for itself, and they share the cache entry.        *)
(***************************************************************************)
EXTENDS Integers

CONSTANTS
    SnLookup,    \* lookups of the name
    SnAddr,      \* addresses
    SnAsk,       \* how many paths are asked at most (5 in the code)
    SnMaxPaths   \* bound: active paths

ASSUME SnsLookupAssumption ==
    /\ SnAsk \in Nat \ {0} /\ SnMaxPaths \in Nat
    /\ \A a \in SnAddr : a \notin {"not_found", "none", "failed", "bad"}

VARIABLES
    snRes,    \* sns_results of each lookup, its requests and what func was told
    snCache   \* _sns_cache, the entry of the name; an expired one is "none"

snvars == <<snRes, snCache>>

SnValue == SnAddr \cup {"not_found"}
SnNoVotes == [v \in SnValue |-> 0]

\* left: requests whose handler will still run; lost: requests it never runs for.
SnIdle == [left |-> 0, lost |-> 0, votes |-> SnNoVotes, remaining |-> 0,
           threshold |-> 0, calls |-> 0, val |-> "none"]

SnInit == snRes = [l \in SnLookup |-> SnIdle] /\ snCache = "none"

\* Outcomes when the last response is in: not found wins a tie, addresses that
\* tie are drawn from, and without any valid answer the lookup has failed.
SnWinners(votes) ==
    LET best == {a \in SnAddr : votes[a] > 0 /\ \A b \in SnAddr : votes[b] <= votes[a]}
    IN IF best = {} THEN {IF votes["not_found"] > 0 THEN "not_found" ELSE "failed"}
       ELSE IF \E a \in best : votes["not_found"] >= votes[a] THEN {"not_found"}
       ELSE best

\* func is called with v; only a failed lookup is not cached.
SnOutcome(l, r, v) ==
    /\ snRes' = [snRes EXCEPT ![l] = [r EXCEPT !.calls = @ + 1, !.val = v]]
    /\ snCache' = IF v = "failed" THEN snCache ELSE v

\* resolve_sns of a valid name: from the cache, else by asking active paths.
\* send_command drops a request when the RC of the path's edge is unknown: it is
\* counted, and its handler never runs.  Without paths the handler runs at once,
\* with an error.
resolve_sns(l) ==
    /\ snRes[l].left = 0
    /\ \/ /\ snCache # "none"
          /\ snRes' = [snRes EXCEPT ![l] = [SnIdle EXCEPT !.calls = 1, !.val = snCache]]
          /\ UNCHANGED snCache
       \/ /\ snCache = "none"
          /\ SnOutcome(l, SnIdle, "failed")
       \/ /\ snCache = "none"
          /\ \E n \in 1..SnMaxPaths :
                LET asked == IF n > SnAsk THEN SnAsk ELSE n
                IN \E lost \in 0..asked :
                      snRes' = [snRes EXCEPT ![l] =
                          [SnIdle EXCEPT !.left = asked - lost, !.lost = lost,
                                         !.remaining = asked, !.threshold = (asked + 1) \div 2]]
          /\ UNCHANGED snCache

\* Mutant: a response after the outcome counts like any other.
SnResponse_late(l, v) ==
    /\ snRes[l].left > 0
    /\ LET votes == IF v = "bad" THEN snRes[l].votes ELSE [snRes[l].votes EXCEPT ![v] = @ + 1]
           r == [snRes[l] EXCEPT !.left = @ - 1, !.remaining = @ - 1, !.votes = votes]
           confirmed == {w \in SnValue : v # "bad" /\ votes[w] >= r.threshold}
       IN IF confirmed # {}
          THEN \E w \in confirmed : SnOutcome(l, [r EXCEPT !.remaining = 0], w)
          ELSE IF r.remaining = 0 THEN \E w \in SnWinners(votes) : SnOutcome(l, r, w)
          ELSE snRes' = [snRes EXCEPT ![l] = r] /\ UNCHANGED snCache

\* response_handler.  After the outcome a response is ignored; a value that half
\* of the paths confirm is the outcome at once, else the last response decides.
SnResponse(l, v) ==
    /\ snRes[l].left > 0
    /\ LET before == [snRes[l] EXCEPT !.left = @ - 1, !.remaining = @ - 1]
           votes == IF v = "bad" THEN before.votes ELSE [before.votes EXCEPT ![v] = @ + 1]
           r == [before EXCEPT !.votes = votes]
           confirmed == {w \in SnValue : v # "bad" /\ votes[w] >= r.threshold}
       IN IF before.remaining < 0
          THEN snRes' = [snRes EXCEPT ![l] = before] /\ UNCHANGED snCache
          ELSE IF confirmed # {}
          THEN \E w \in confirmed : SnOutcome(l, [r EXCEPT !.remaining = 0], w)
          ELSE IF r.remaining = 0 THEN \E w \in SnWinners(votes) : SnOutcome(l, r, w)
          ELSE snRes' = [snRes EXCEPT ![l] = r] /\ UNCHANGED snCache

\* SNS_CACHE_TIME passes.
SnExpires == snCache # "none" /\ snCache' = "none" /\ UNCHANGED snRes

SnNext ==
    \/ \E l \in SnLookup : resolve_sns(l)
    \/ \E l \in SnLookup, v \in SnValue \cup {"bad"} : SnResponse(l, v)
    \/ SnExpires

-----------------------------------------------------------------------------
\* The type of the state; remaining goes below zero after an early outcome.
SnsLookup_TypeOK ==
    /\ snRes \in [SnLookup -> [left : 0..SnAsk, lost : 0..SnAsk, votes : [SnValue -> 0..SnAsk],
                               remaining : (-SnAsk)..SnAsk, threshold : 0..SnAsk,
                               calls : 0..1, val : SnValue \cup {"none", "failed"}]]
    /\ snCache \in SnValue \cup {"none"}

(***************************************************************************)
(* resolve_sns answers once and what it answers is backed: no other answer *)
(* had more votes when the outcome fell, a lookup fails only without a     *)
(* valid vote, and one whose requests were all sent is answered by the     *)
(* time the last response is in, whatever the order of the responses.      *)
(***************************************************************************)
NameBacked ==
    \A l \in SnLookup :
        LET r == snRes[l]
        IN /\ r.calls <= 1
           /\ r.threshold > 0 /\ r.left = 0 /\ r.lost = 0 => r.calls = 1
           /\ r.threshold > 0 /\ r.val \in SnValue =>
                 r.votes[r.val] > 0 /\ \A v \in SnValue : r.votes[v] <= r.votes[r.val]
           /\ r.val = "failed" => r.votes = SnNoVotes
=============================================================================
