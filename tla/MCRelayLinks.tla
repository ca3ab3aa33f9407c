---------------------------- MODULE MCRelayLinks ----------------------------
(***************************************************************************)
(* What a node knows of the network and keeps on disk: two relays and the  *)
(* connections between them, the list of relays and how it is fetched, the *)
(* stored contacts, and the session tickets.  The parts share no state;    *)
(* each behaviour is one of the part named by `part`, and the others stay  *)
(* as they start.                                                          *)
(***************************************************************************)
EXTENDS RelayLinks, NodeDB, RcStore, Tickets, TLC

CONSTANTS c1, c2, c3, r1, r2, r3, s1, s2, Parts

MCRelay == {1, 2}
MCConn == {c1, c2}
MCConn3 == {c1, c2, c3}
MCSymmetry == Permutations(MCConn3)

VARIABLE part

\* The one initial state a part rests in while another one runs.
RestNodeDB == NdInit /\ ndRcs = NdOld
RestRcStore == RcInit /\ rcKnown = {}

allvars == <<vars, ndvars, rcvars, ztvars, part>>

MCInit ==
    /\ part \in Parts
    /\ Init /\ ZtInit
    /\ IF part = "nodedb" THEN NdInit ELSE RestNodeDB
    /\ IF part = "rcs" THEN RcInit ELSE RestRcStore

MCNext ==
    \/ part = "links" /\ Next /\ UNCHANGED <<ndvars, rcvars, ztvars, part>>
    \/ part = "nodedb" /\ NdNext /\ UNCHANGED <<vars, rcvars, ztvars, part>>
    \/ part = "rcs" /\ RcNext /\ UNCHANGED <<vars, ndvars, ztvars, part>>
    \/ part = "tickets" /\ ZtNext /\ UNCHANGED <<vars, ndvars, rcvars, part>>

(* Each part's fairness, while it is the one that runs.  Jobs of the event loop run, scheduled
   closings fire, a handshake ends in one of its callbacks, the purge, fetch and bootstrap
   tickers keep firing, and a request is answered or fails. *)
MCFairness ==
    /\ \A r \in Relay :
        /\ WF_vars(part = "links" /\ RunJob(r))
        /\ WF_vars(part = "links" /\ close_redundant(r, relay_bidir[r]))
    /\ \A c \in Conn :
        WF_vars(/\ part = "links"
                /\ \/ near_established(c)
                   \/ link[c].near \in {"connecting", "aborting"} /\ near_closed(c))
    /\ WF_ndvars(part = "nodedb" /\ bootstrap_retry)
    /\ WF_ndvars(part = "nodedb" /\ purge_rcs({}))
    /\ WF_ndvars(/\ part = "nodedb"
                 /\ \E asked \in SUBSET NdSource : \E lost \in SUBSET asked : fetch_rids(asked, lost))
    /\ WF_ndvars(/\ part = "nodedb"
                 /\ \E i \in 1..NdBoots, ok \in BOOLEAN, got \in {{}, NdOld, NdNew} : bootstrap_response(i, ok, got))
    /\ \A s \in NdSource :
        WF_ndvars(part = "nodedb" /\ \E list \in {{}, NdOld, NdNew} : fetch_rids_response(s, list))

MCSpec == MCInit /\ [][MCNext]_allvars /\ MCFairness

(* The variables of the links between two relays, of the list of relays, of the stored contacts and of the tickets
   keep their types. *)
Network_TypeOK == RelayLinks_TypeOK /\ NodeDB_TypeOK /\ RcStore_TypeOK /\ Tickets_TypeOK
=============================================================================
