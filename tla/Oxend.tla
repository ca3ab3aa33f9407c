------------------------------- MODULE Oxend -------------------------------
(***************************************************************************)
(* A relay and its oxend (rpc/oxend_rpc.cpp): the identity key fetched at  *)
(* startup (Router::fetch_snode_keys), the first service node list that    *)
(* Router::configure waits ten seconds for, the fallback to the stored     *)
(* contacts, and the updates that new blocks and the ping timer trigger.   *)
(* OxenMQ handles an answer on a thread of its own, so the list and the    *)
(* hash of an answer are stored in two steps.                              *)
(***************************************************************************)
EXTENDS Naturals, FiniteSets

CONSTANTS OxRelays,    \* relays
          OxStored,    \* the relays whose contacts are on disk
          OxLists,     \* the registered relays as of each block
          OxMaxTries   \* maxTries of fetch_snode_keys

ASSUME OxendAssumption == DOMAIN OxLists = 1..Cardinality(DOMAIN OxLists)

VARIABLES oxPhase,       \* how far the relay is in its startup
          oxTries,       \* attempts to get the key
          oxHead,        \* oxend's newest block
          oxSub,         \* oxend has our subscription to blocks
          oxUpdating,    \* _is_updating_list
          oxReqs,        \* get_service_nodes requests and how far each is
          oxRegistered,  \* NodeDB::_registered_relays
          oxLast         \* the block of _last_hash_update, 0 for none

oxvars == <<oxPhase, oxTries, oxHead, oxSub, oxUpdating, oxReqs, oxRegistered, oxLast>>

OxBlocks == DOMAIN OxLists

OxInit ==
  /\ oxPhase = "keys" /\ oxTries = 0
  /\ oxHead = 1 /\ oxSub = FALSE
  /\ oxUpdating = FALSE /\ oxReqs = {}
  /\ oxRegistered = {} /\ oxLast = 0

-----------------------------------------------------------------------------
\* request: nothing is sent once stopped
OxSent == IF oxPhase = "stopped" THEN oxReqs
          ELSE oxReqs \cup {[poll |-> oxLast, stage |-> "sent", block |-> 0]}
update_service_node_list ==
  IF oxUpdating THEN UNCHANGED <<oxUpdating, oxReqs>>
  ELSE oxReqs' = OxSent /\ oxUpdating' = TRUE

\* fetch_snode_keys, and then the first update with its promise
obtain_identity_key ==
  /\ oxPhase = "keys"
  /\ \/ oxPhase' = "list" /\ update_service_node_list /\ UNCHANGED oxTries
     \/ /\ oxTries' = oxTries + 1
        /\ oxPhase' = IF oxTries' = OxMaxTries THEN "failed" ELSE "keys"
        /\ UNCHANGED <<oxUpdating, oxReqs>>
  /\ UNCHANGED <<oxHead, oxSub, oxRegistered, oxLast>>

\* oxend answers with the list as of its newest block, or that the polled block still is the newest
OxAnswer(r) ==
  /\ r.stage = "sent"
  /\ oxReqs' = (oxReqs \ {r}) \cup
               {[r EXCEPT !.stage = IF r.poll = oxHead THEN "unchanged" ELSE "list", !.block = oxHead]}
  /\ UNCHANGED <<oxPhase, oxTries, oxHead, oxSub, oxUpdating, oxRegistered, oxLast>>

\* handle_new_service_node_list: an empty list is ignored
handle_new_service_node_list(r) ==
  /\ r.stage = "list"
  /\ oxRegistered' = IF OxLists[r.block] = {} THEN oxRegistered ELSE OxLists[r.block]
  /\ oxReqs' = (oxReqs \ {r}) \cup {[r EXCEPT !.stage = "hash"]}
  /\ UNCHANGED <<oxPhase, oxTries, oxHead, oxSub, oxUpdating, oxLast>>

\* the promise of the first update is kept or broken
OxPromise(ok) == oxPhase' = IF oxPhase = "list" THEN (IF ok THEN "start" ELSE "fallback") ELSE oxPhase

\* the rest of the answer's handler: the hash, then the flag
OxHandled(r) ==
  /\ r.stage \in {"hash", "unchanged"}
  /\ oxLast' = IF r.stage = "hash" THEN r.block ELSE oxLast
  /\ oxUpdating' = FALSE
  /\ oxReqs' = oxReqs \ {r}
  /\ OxPromise(r.stage = "hash")
  /\ UNCHANGED <<oxTries, oxHead, oxSub, oxRegistered>>

\* a request that fails, or an answer that does not parse
OxFail(r) ==
  /\ r.stage = "sent"
  /\ oxUpdating' = FALSE
  /\ oxReqs' = oxReqs \ {r}
  /\ OxPromise(FALSE)
  /\ UNCHANGED <<oxTries, oxHead, oxSub, oxRegistered, oxLast>>

\* Router::configure stops waiting for the first list
OxTimeout ==
  /\ oxPhase = "list" /\ oxPhase' = "fallback"
  /\ UNCHANGED <<oxTries, oxHead, oxSub, oxUpdating, oxReqs, oxRegistered, oxLast>>
OxFallbackList == IF oxRegistered # {} THEN oxRegistered ELSE OxStored

load_registered_relays_fallback ==
  /\ oxPhase = "fallback" /\ oxPhase' = "start"
  /\ oxRegistered' = OxFallbackList
  /\ UNCHANGED <<oxTries, oxHead, oxSub, oxUpdating, oxReqs, oxLast>>

\* ping: subscribes to blocks, which may fail, and updates the list
OxPinged_subscribe == oxSub' \in {oxSub, TRUE} /\ UNCHANGED <<oxUpdating, oxReqs>>
OxPinged == oxSub' \in {oxSub, TRUE} /\ update_service_node_list

start_pings ==
  /\ oxPhase = "start" /\ oxPhase' = "running"
  /\ OxPinged
  /\ UNCHANGED <<oxTries, oxHead, oxRegistered, oxLast>>

ping ==
  /\ oxPhase = "running"
  /\ OxPinged
  /\ UNCHANGED <<oxPhase, oxTries, oxHead, oxRegistered, oxLast>>

\* a new block: its notification needs the subscription and may be lost
handle_new_block ==
  /\ oxHead + 1 \in OxBlocks
  /\ oxHead' = oxHead + 1
  /\ \/ oxSub /\ update_service_node_list
     \/ UNCHANGED <<oxUpdating, oxReqs>>
  /\ UNCHANGED <<oxPhase, oxTries, oxSub, oxRegistered, oxLast>>

\* oxend restarts and forgets the subscription
OxRestart ==
  /\ oxSub /\ oxSub' = FALSE
  /\ UNCHANGED <<oxPhase, oxTries, oxHead, oxUpdating, oxReqs, oxRegistered, oxLast>>

OxStop ==
  /\ oxPhase = "running" /\ oxPhase' = "stopped"
  /\ UNCHANGED <<oxTries, oxHead, oxSub, oxUpdating, oxReqs, oxRegistered, oxLast>>

OxNext ==
  \/ obtain_identity_key \/ OxTimeout \/ load_registered_relays_fallback \/ start_pings
  \/ ping \/ handle_new_block \/ OxRestart \/ OxStop
  \/ \E r \in oxReqs : OxAnswer(r) \/ handle_new_service_node_list(r) \/ OxHandled(r) \/ OxFail(r)

-----------------------------------------------------------------------------
OxPhases == {"keys", "list", "fallback", "start", "running", "stopped", "failed"}

\* The type of the state.
Oxend_TypeOK ==
  /\ oxPhase \in OxPhases /\ oxTries \in 0..OxMaxTries
  /\ oxHead \in OxBlocks /\ oxLast \in 0..Cardinality(OxBlocks)
  /\ oxSub \in BOOLEAN /\ oxUpdating \in BOOLEAN
  /\ oxRegistered \subseteq OxRelays
  /\ oxReqs \subseteq [poll : 0..oxHead, stage : {"sent", "list", "hash", "unchanged"}, block : 0..oxHead]

\* Once blocks stop coming and requests stop failing, a running relay ends up with the list of
\* oxend's newest block, also when notifications were lost or oxend forgot the subscription.
ListFollowsChain ==
  <>[][~(\E r \in oxReqs : OxFail(r))]_oxvars
    => <>[](oxPhase = "running" => (OxLists[oxHead] = {} \/ oxRegistered = OxLists[oxHead]))
=============================================================================
