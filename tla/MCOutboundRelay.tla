-------------------------- MODULE MCOutboundRelay --------------------------
(***************************************************************************)
(* A client's paths and the sessions on them: the session to a relay with  *)
(* its path handler, the choice of hops, the paths others reach us on, the *)
(* paths to another client's intros, and the session handshake.  The parts *)
(* share no state; each behaviour is one of the part named by `part`, and  *)
(* the others stay as they start.                                          *)
(***************************************************************************)
EXTENDS OutboundRelay, HopSelection, InboundPaths, ClientPaths, Handshake, TLC

CONSTANTS p1, p2, r1, r2, r3, r4, h1, h2, Parts

MCPath == {p1, p2}
MCHopNet == (r1 :> 1) @@ (r2 :> 1) @@ (r3 :> 2) @@ (r4 :> 3)

VARIABLE part

\* The one initial state a part rests in while another one runs.
RestRelay == Init /\ edge_connected = FALSE
RestHop == HopInit /\ hopWraps = FALSE /\ hopConf = [netmask |-> FALSE, hops |-> 4]
RestClient == CpInit /\ cpHop = CHOOSE f \in [CpHops -> [rid : CpRelays, life : {3, 4}]] : TRUE
RestHandshake == HsInit /\ hsOld = [old |-> FALSE, tun |-> FALSE]

allvars == <<vars, hopvars, ipvars, cpvars, hsvars, part>>

MCInit ==
    /\ part \in Parts
    /\ IF part = "relay" THEN Init ELSE RestRelay
    /\ IF part = "hops" THEN HopInit ELSE RestHop
    /\ IpInit
    /\ IF part = "client" THEN CpInit ELSE RestClient
    /\ IF part = "handshake" THEN HsInit ELSE RestHandshake

MCNext ==
    \/ part = "relay" /\ Next /\ UNCHANGED <<hopvars, ipvars, cpvars, hsvars, part>>
    \/ part = "hops" /\ HopNext /\ UNCHANGED <<vars, ipvars, cpvars, hsvars, part>>
    \/ part = "inbound" /\ IpNext /\ UNCHANGED <<vars, hopvars, cpvars, hsvars, part>>
    \/ part = "client" /\ CpNext /\ UNCHANGED <<vars, hopvars, ipvars, hsvars, part>>
    \/ part = "handshake" /\ HsNext /\ UNCHANGED <<vars, hopvars, ipvars, cpvars, part>>

(* Each part's fairness, while it is the one that runs.  The session's ticker and the retry
   delay fire, a path build and a path ping is answered or times out, and paths age.  The two
   strong conditions say that ticks are not for ever spent without starting a build, and that
   not every build of a path that could answer fails. *)
MCFairness ==
    /\ WF_vars(part = "relay" /\ session_tick) /\ WF_vars(part = "relay" /\ retry_delay_over)
    /\ SF_vars(part = "relay" /\ session_tick /\ pending' # pending)
    /\ SF_vars(part = "relay" /\ \E p \in Path : life[p] = "good" /\ on_path_build_success(p))
    /\ \A p \in Path :
        /\ WF_vars(part = "relay" /\ (on_path_build_success(p) \/ on_path_build_failure(p)))
        /\ WF_vars(part = "relay" /\ \E how \in {"ok", "timeout", "error"} : path_ping_response(p, how))
        /\ WF_vars(part = "relay" /\ path_ageing(p))
    /\ WF_cpvars(part = "client" /\ CpBuild)

MCSpec == MCInit /\ [][MCNext]_allvars /\ MCFairness

(* Every part's variables keep their types, the ones of session::OutboundRelay and its
   path handler first. *)
Paths_TypeOK ==
    OutboundRelay_TypeOK /\ HopSelection_TypeOK /\ InboundPaths_TypeOK /\ ClientPaths_TypeOK /\ Handshake_TypeOK
=============================================================================
