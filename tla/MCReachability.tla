--------------------------- MODULE MCReachability ---------------------------
(***************************************************************************)
(* What a relay keeps up over time, and what must end: the tests it runs   *)
(* and those it receives, the gossip of its contact, the list of relays    *)
(* from oxend, and the TCP connections through a tunnel.  The parts share  *)
(* no state; each behaviour is one of the part named by `part`, and the    *)
(* others stay as they start.                                              *)
(***************************************************************************)
EXTENDS Reachability, IncomingTests, Gossip, Oxend, TcpTunnel

CONSTANTS r1, r2, c1, a, b, c, Parts

MCRelay == {r1, r2}
MCChain == {c1}
MCNoise == {-1, 0}
MCOxLists == <<{a}, {}, {a, b}>>

VARIABLE part

\* The one initial state a part rests in while another one runs.
RestReachability == Init /\ testable = FALSE /\ world = CHOOSE w \in [Relay -> World] : TRUE
RestIncoming == ItInit /\ registered = FALSE

allvars == <<vars, itvars, gsvars, oxvars, ttvars, part>>

MCInit ==
    /\ part \in Parts
    /\ IF part = "reachability" THEN Init ELSE RestReachability
    /\ IF part = "incoming" THEN ItInit ELSE RestIncoming
    /\ GsInit /\ OxInit /\ TtInit

MCNext ==
    \/ part = "reachability" /\ Next /\ UNCHANGED <<itvars, gsvars, oxvars, ttvars, part>>
    \/ part = "incoming" /\ ItNext /\ UNCHANGED <<vars, gsvars, oxvars, ttvars, part>>
    \/ part = "gossip" /\ GsNext /\ UNCHANGED <<vars, itvars, oxvars, ttvars, part>>
    \/ part = "oxend" /\ OxNext /\ UNCHANGED <<vars, itvars, gsvars, ttvars, part>>
    \/ part = "tcp" /\ TtNext /\ UNCHANGED <<vars, itvars, gsvars, oxvars, part>>

(* Each part's fairness, while it is the one that runs.  The router's tick and the tickers
   of the RPC client and of the incoming checks keep firing, a ping and an oxend request is
   answered or times out, a registered relay is eventually known to every node and each pair
   of nodes connects, and the events of a TCP pair that are due are delivered. *)
MCFairness ==
    /\ WF_vars(part = "reachability" /\ tick) /\ WF_vars(part = "reachability" /\ tick_idle)
    /\ \A s \in Slot : WF_vars(part = "reachability" /\ ping_result(s))
    /\ WF_itvars(part = "incoming" /\ check_incoming_tests)
    /\ WF_gsvars(part = "gossip" /\ regenerate_rc(IF gsStored[GsOrigin] = GsNone THEN 0 ELSE gsStored[GsOrigin].c))
    /\ WF_gsvars(part = "gossip" /\ \E w \in gsWire : handle_gossip_rc(w))
    /\ \A n \in GsNode : WF_gsvars(part = "gossip" /\ GsRegister(n))
    /\ \A p \in GsPairs : WF_gsvars(part = "gossip" /\ GsConnect(p))
    /\ WF_oxvars(part = "oxend" /\ \E r \in oxReqs : OxAnswer(r) \/ handle_new_service_node_list(r) \/ OxHandled(r))
    /\ WF_oxvars(part = "oxend" /\ ping)
    /\ WF_oxvars(part = "oxend" /\ (obtain_identity_key \/ load_registered_relays_fallback \/ start_pings))
    /\ \A i \in 0 .. TtMaxIds - 1 :
        /\ WF_ttvars(part = "tcp" /\ i \in DOMAIN ttConns /\ (TtStreamData(i) \/ TtStreamFin(i)))
        /\ WF_ttvars(part = "tcp" /\ i \in DOMAIN ttConns /\ TtDrain(i))
        /\ WF_ttvars(part = "tcp" /\ i \in DOMAIN ttConns /\ TtConnected(i))
        /\ WF_ttvars(part = "tcp" /\ i \in DOMAIN ttConns /\ TtEof(i))
        /\ WF_ttvars(part = "tcp" /\ drop(i))

MCSpec == MCInit /\ [][MCNext]_allvars /\ MCFairness

(* Every part's variables keep their types, the ones of reachability_testing first. *)
RelayDuties_TypeOK ==
    Reachability_TypeOK /\ IncomingTests_TypeOK /\ Gossip_TypeOK /\ Oxend_TypeOK /\ TcpTunnel_TypeOK
=============================================================================
