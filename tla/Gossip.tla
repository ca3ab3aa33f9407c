------------------------------- MODULE Gossip -------------------------------
(***************************************************************************)
(* How the RC of one relay, the origin, spreads among the relays           *)
(* (router.cpp regenerate_rc, link_manager.cpp gossip_rc and               *)
(* handle_gossip_rc, nodedb.cpp put_rc).  An RC is its content and its     *)
(* lag: how many regenerations of the origin it is behind the latest.      *)
(***************************************************************************)
EXTENDS Integers, FiniteSets

CONSTANTS
    GsPeer,      \* the other relays
    GsOrigin,
    GsOutdated,  \* OUTDATED_AGE, in regenerations
    GsMaxLag     \* bound: lag of an RC in flight

ASSUME GossipAssumption == GsOrigin \notin GsPeer /\ GsOutdated \in Nat \ {0} /\ GsMaxLag \in Nat

VARIABLES
    gsStored,  \* the RC of the origin that each relay stores, or GsNone
    gsKnows,   \* the relays whose registered list has the origin
    gsLinks,   \* the pairs of relays that are connected
    gsWire     \* RCs in flight

gsvars == <<gsStored, gsKnows, gsLinks, gsWire>>

GsNode == GsPeer \cup {GsOrigin}
GsNone == [c |-> -1, lag |-> 0]
GsCap == GsOutdated + GsMaxLag
GsPairs == {p \in SUBSET GsNode : Cardinality(p) = 2}
GsAge(rc) == IF rc = GsNone THEN rc ELSE [rc EXCEPT !.lag = IF @ < GsCap THEN @ + 1 ELSE @]

GsInit ==
    /\ gsStored = [n \in GsNode |-> GsNone] /\ gsKnows = {}
    /\ gsLinks = {} /\ gsWire = {}

\* gossip_rc: to every connected relay but the RC's own and the one it came from.
gossip_rc(n, rc, sender) ==
    {[from |-> n, to |-> m, rc |-> rc] : m \in {m \in GsPeer \ {sender} : {n, m} \in gsLinks}}

\* Mutant: the origin, too, gossips only what it thinks others need.
GsOwnGossip_need(old, rc) == old = GsNone \/ old.c # rc.c

\* put_rc: a relay's own RC is always gossiped.
GsOwnGossip(old, rc) == TRUE

\* regenerate_rc: a new time, and maybe a new content.
regenerate_rc(c) ==
    /\ GsOrigin \in gsKnows
    /\ \A w \in gsWire : w.rc.lag < GsMaxLag
    /\ LET rc == [c |-> c, lag |-> 0] IN
       /\ gsStored' = [n \in GsNode |-> IF n = GsOrigin THEN rc ELSE GsAge(gsStored[n])]
       /\ gsWire' = {[w EXCEPT !.rc = GsAge(@)] : w \in gsWire} \cup
             (IF GsOwnGossip(gsStored[GsOrigin], rc) THEN gossip_rc(GsOrigin, rc, GsOrigin) ELSE {})
    /\ UNCHANGED <<gsKnows, gsLinks>>

\* handle_gossip_rc and verify_store_gossip_rc: an RC of a registered relay that is
\* newer is stored, and passed on if it is new, says something new, or is the first in
\* a long time.
handle_gossip_rc(w) ==
    LET old == gsStored[w.to]
        take == w.to \in gsKnows /\ (old = GsNone \/ w.rc.lag < old.lag)
        pass == take /\ (old = GsNone \/ old.c # w.rc.c \/ old.lag - w.rc.lag >= GsOutdated)
    IN /\ gsStored' = IF take THEN [gsStored EXCEPT ![w.to] = w.rc] ELSE gsStored
       /\ gsWire' = (gsWire \ {w}) \cup (IF pass THEN gossip_rc(w.to, w.rc, w.from) ELSE {})
       /\ UNCHANGED <<gsKnows, gsLinks>>

\* oxend's list reaches a relay.
GsRegister(n) ==
    /\ n \notin gsKnows /\ gsKnows' = gsKnows \cup {n}
    /\ UNCHANGED <<gsStored, gsLinks, gsWire>>

GsConnect(p) ==
    /\ p \notin gsLinks /\ gsLinks' = gsLinks \cup {p}
    /\ UNCHANGED <<gsStored, gsKnows, gsWire>>

\* A connection is lost with what is in flight on it.
GsDisconnect(p) ==
    /\ p \in gsLinks /\ gsLinks' = gsLinks \ {p}
    /\ gsWire' = {w \in gsWire : {w.from, w.to} # p}
    /\ UNCHANGED <<gsStored, gsKnows>>

GsNext ==
    \/ \E c \in {0, 1} : regenerate_rc(c)
    \/ \E w \in gsWire : handle_gossip_rc(w)
    \/ \E n \in GsNode : GsRegister(n)
    \/ \E p \in GsPairs : GsConnect(p) \/ GsDisconnect(p)

-----------------------------------------------------------------------------
\* The type of the state.
Gossip_TypeOK ==
    /\ gsStored \in [GsNode -> [c : {0, 1}, lag : 0..GsCap] \cup {GsNone}]
    /\ gsKnows \subseteq GsNode /\ gsLinks \subseteq GsPairs
    /\ \A w \in gsWire : w.to \in GsPeer /\ {w.from, w.to} \in gsLinks

(***************************************************************************)
(* Relays that are connected in a full mesh do not keep an outdated        *)
(* contact (put_rc): once connections are no longer lost and what the      *)
(* origin says no longer changes, every relay comes to hold it, although   *)
(* mundane updates are not passed on and earlier ones were missed.         *)
(***************************************************************************)
ContentsReachAll ==
    <>[][/\ \A p \in GsPairs : ~GsDisconnect(p)
         /\ gsStored'[GsOrigin].c = gsStored[GsOrigin].c]_gsvars =>
        []<>(\A n \in GsPeer : gsStored[n].c = gsStored[GsOrigin].c)
=============================================================================
