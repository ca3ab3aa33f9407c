------------------------------ MODULE PortMaps ------------------------------
(***************************************************************************)
(* The tunnels an embedding application asks for: the claims it holds      *)
(* (udp_tunnel and tcp_tunnel, session_router.cpp), the mappings that the  *)
(* claims share (SessionEndpoint::map_udp_remote_port and its siblings,    *)
(* handlers/session.cpp) and the pseudo source ports under which several   *)
(* local applications share one session to a remote.                       *)
(*                                                                         *)
(* Every map and unmap runs inside router._jq->call_get, so each is one    *)
(* step however many threads hold claims.  A target is a remote and a port *)
(* of it.  Pseudo ports, 49152..65535 and then 1024.. in the code, are the *)
(* ring 0..PmRing-1, which starts at the port drawn once at random.        *)
(***************************************************************************)
EXTENDS Naturals, FiniteSets

CONSTANTS
    PmRemotes,      \* remotes that are asked for
    PmPortsOf,      \* ports of a remote that are mapped
    PmApps,         \* local application (source) ports
    PmRing,         \* number of pseudo ports
    PmSlots,        \* the application's variables of claim type
    PmNone,         \* an empty claim
    PmMaxConns      \* bound: TCP connections carried for one target

ASSUME PortMapsAssumption == PmRing \in Nat \ {0} /\ PmMaxConns \in Nat /\ PmNone \notin PmApps

PmTargets == PmRemotes \X PmPortsOf

VARIABLES
    pmAlive,        \* the SessionRouter exists (its _alive)
    pmClaim,        \* what each claim holds: <<kind, target>> or nothing
    pmUdp,          \* _udp_handles: target -> holders and cports
    pmTcp,          \* _tcp_handles: target -> holders
    pmClientPorts,  \* _udp_client_ports: <<remote, app port>> -> pseudo port
    pmReturnPorts,  \* _udp_return_ports: <<remote, pseudo port>> -> app port
    pmConns,        \* connections the session's tunnel carries for a target
    pmUsed          \* history: <<target, app, pseudo>> sent under the mapping

pmvars == <<pmAlive, pmClaim, pmUdp, pmTcp, pmClientPorts, pmReturnPorts, pmConns, pmUsed>>

PmNothing == [x \in {} |-> 0]
PmWithout(f, S) == [x \in DOMAIN f \ S |-> f[x]]
PmSet(f, x, v) == [y \in DOMAIN f \cup {x} |-> IF y = x THEN v ELSE f[y]]

PmInit ==
    /\ pmAlive = TRUE
    /\ pmClaim = [c \in PmSlots |-> PmNone]
    /\ pmUdp = PmNothing
    /\ pmTcp = PmNothing
    /\ pmClientPorts = PmNothing
    /\ pmReturnPorts = PmNothing
    /\ pmConns = [t \in PmTargets |-> 0]
    /\ pmUsed = {}

-----------------------------------------------------------------------------
(* Mapping.  A null session (unreachable remote), a remote that refuses    *)
(* tunnelled TCP and a socket that cannot be made leave everything as it   *)
(* was and the caller without a claim: those outcomes change no state.     *)

map_udp_remote_port(t) ==
    /\ pmUdp' = IF t \in DOMAIN pmUdp
                THEN [pmUdp EXCEPT ![t].holders = @ + 1]
                ELSE PmSet(pmUdp, t, [holders |-> 1, cports |-> {}])
    /\ UNCHANGED <<pmTcp, pmClientPorts, pmReturnPorts, pmConns, pmUsed>>

map_tcp_remote_port(t) ==
    /\ pmTcp' = PmSet(pmTcp, t, IF t \in DOMAIN pmTcp THEN pmTcp[t] + 1 ELSE 1)
    /\ UNCHANGED <<pmUdp, pmClientPorts, pmReturnPorts, pmConns, pmUsed>>

unmap_udp_remote_port_leaky(t) ==
    IF t \notin DOMAIN pmUdp
    THEN UNCHANGED <<pmUdp, pmTcp, pmClientPorts, pmReturnPorts, pmConns, pmUsed>>
    ELSE /\ pmUdp' = IF pmUdp[t].holders > 1 THEN [pmUdp EXCEPT ![t].holders = @ - 1]
                                             ELSE PmWithout(pmUdp, {t})
         /\ UNCHANGED <<pmTcp, pmClientPorts, pmReturnPorts, pmConns, pmUsed>>

(* The last holder takes the socket, and the pseudo ports of the           *)
(* applications first seen on it, with it.                                 *)
unmap_udp_remote_port(t) ==
    /\ IF t \notin DOMAIN pmUdp
       THEN UNCHANGED <<pmUdp, pmClientPorts, pmReturnPorts, pmUsed>>
       ELSE IF pmUdp[t].holders > 1
       THEN /\ pmUdp' = [pmUdp EXCEPT ![t].holders = @ - 1]
            /\ UNCHANGED <<pmClientPorts, pmReturnPorts, pmUsed>>
       ELSE LET gone == pmUdp[t].cports \cap DOMAIN pmClientPorts
            IN  /\ pmUdp' = PmWithout(pmUdp, {t})
                /\ pmClientPorts' = PmWithout(pmClientPorts, gone)
                /\ pmReturnPorts' = PmWithout(pmReturnPorts, {<<t[1], pmClientPorts[c]>> : c \in gone})
                /\ pmUsed' = {u \in pmUsed : u[1] # t}
    /\ UNCHANGED <<pmTcp, pmConns>>

(* The last holder takes the listener and, in the tunnel of the remote's   *)
(* session, every connection carried for that port with it.                *)
unmap_tcp_remote_port(t) ==
    /\ IF t \notin DOMAIN pmTcp
       THEN UNCHANGED <<pmTcp, pmConns>>
       ELSE IF pmTcp[t] > 1
       THEN pmTcp' = [pmTcp EXCEPT ![t] = @ - 1] /\ UNCHANGED pmConns
       ELSE pmTcp' = PmWithout(pmTcp, {t}) /\ pmConns' = [pmConns EXCEPT ![t] = 0]
    /\ UNCHANGED <<pmUdp, pmClientPorts, pmReturnPorts, pmUsed>>

-----------------------------------------------------------------------------
(* Claims.  release_udp and release_tcp reach the router only while it     *)
(* lives: _router_alive is a weak pointer to the router's _alive.          *)

PmHandlesUnchanged ==
    UNCHANGED <<pmUdp, pmTcp, pmClientPorts, pmReturnPorts, pmConns, pmUsed>>

PmRelease(claim) ==
    IF claim = PmNone \/ ~pmAlive
    THEN PmHandlesUnchanged
    ELSE IF claim[1] = "udp" THEN unmap_udp_remote_port(claim[2])
                             ELSE unmap_tcp_remote_port(claim[2])

(* establish_udp or establish_tcp, its result put into an empty variable.  *)
establish(c, kind, t) ==
    /\ pmAlive /\ pmClaim[c] = PmNone
    /\ IF kind = "udp" THEN map_udp_remote_port(t) ELSE map_tcp_remote_port(t)
    /\ pmClaim' = [pmClaim EXCEPT ![c] = <<kind, t>>]
    /\ UNCHANGED pmAlive

(* reset(), or the claim's destructor. *)
claim_reset(c) ==
    /\ pmClaim[c] # PmNone
    /\ PmRelease(pmClaim[c])
    /\ pmClaim' = [pmClaim EXCEPT ![c] = PmNone]
    /\ UNCHANGED pmAlive

(* dst = std::move(src): what dst held is released, what src held moves.   *)
PmMoved(dst, src) ==
    [pmClaim EXCEPT ![dst] = IF dst = src THEN PmNone ELSE pmClaim[src], ![src] = PmNone]

move_assign(dst, src) ==
    /\ pmClaim[src] # PmNone
    /\ PmRelease(pmClaim[dst])
    /\ pmClaim' = PmMoved(dst, src)
    /\ UNCHANGED pmAlive

(* ~SessionRouter: every handle goes with the endpoint; claims stay. *)
PmDestroy ==
    /\ pmAlive
    /\ pmAlive' = FALSE
    /\ pmUdp' = PmNothing /\ pmTcp' = PmNothing
    /\ pmClientPorts' = PmNothing /\ pmReturnPorts' = PmNothing
    /\ pmConns' = [t \in PmTargets |-> 0]
    /\ pmUsed' = {}
    /\ UNCHANGED pmClaim

-----------------------------------------------------------------------------
(* Traffic. *)

(* try_emplace from the start of the ring on; PmRing when every pseudo     *)
(* port of the remote is taken.                                            *)
PmFirstFree(r) ==
    LET free == {p \in 0 .. PmRing - 1 : <<r, p>> \notin DOMAIN pmReturnPorts}
    IN  IF free = {} THEN PmRing ELSE CHOOSE p \in free : \A q \in free : p <= q

(* A datagram of application a on the socket of mapping t. *)
PmPacket(t, a) ==
    LET inst == <<t[1], a>>
        port == IF inst \in DOMAIN pmClientPorts THEN pmClientPorts[inst] ELSE PmFirstFree(t[1])
    IN  /\ t \in DOMAIN pmUdp
        /\ port < PmRing
        /\ IF inst \in DOMAIN pmClientPorts
           THEN UNCHANGED <<pmUdp, pmClientPorts, pmReturnPorts>>
           ELSE /\ pmClientPorts' = PmSet(pmClientPorts, inst, port)
                /\ pmReturnPorts' = PmSet(pmReturnPorts, <<t[1], port>>, a)
                /\ pmUdp' = [pmUdp EXCEPT ![t].cports = @ \cup {inst}]
        /\ pmUsed' = pmUsed \cup {<<t, a, port>>}
        /\ UNCHANGED <<pmAlive, pmClaim, pmTcp, pmConns>>

(* The application a datagram of the remote, sent from port t[2] to the    *)
(* pseudo port p, is delivered to; PmNone if it is dropped.                *)
handle_udp_from_remote(t, p) ==
    IF t \in DOMAIN pmUdp /\ <<t[1], p>> \in DOMAIN pmReturnPorts
    THEN pmReturnPorts[<<t[1], p>>] ELSE PmNone

(* A connection to the listener of t becomes a stream of the session. *)
tunnel_tcp_connection(t) ==
    /\ t \in DOMAIN pmTcp
    /\ pmConns[t] < PmMaxConns
    /\ pmConns' = [pmConns EXCEPT ![t] = @ + 1]
    /\ UNCHANGED <<pmAlive, pmClaim, pmUdp, pmTcp, pmClientPorts, pmReturnPorts, pmUsed>>

(* A connection ends, or the session to the remote closes with all of its. *)
PmConnsEnd(t, n) ==
    /\ n < pmConns[t]
    /\ pmConns' = [pmConns EXCEPT ![t] = n]
    /\ UNCHANGED <<pmAlive, pmClaim, pmUdp, pmTcp, pmClientPorts, pmReturnPorts, pmUsed>>

PmSessionClosed(r) ==
    /\ \E t \in PmTargets : t[1] = r /\ pmConns[t] > 0
    /\ pmConns' = [t \in PmTargets |-> IF t[1] = r THEN 0 ELSE pmConns[t]]
    /\ UNCHANGED <<pmAlive, pmClaim, pmUdp, pmTcp, pmClientPorts, pmReturnPorts, pmUsed>>

PmNext ==
    \/ \E c \in PmSlots, t \in PmTargets : \E kind \in {"udp", "tcp"} : establish(c, kind, t)
    \/ \E c \in PmSlots : claim_reset(c)
    \/ \E dst, src \in PmSlots : move_assign(dst, src)
    \/ PmDestroy
    \/ \E t \in PmTargets : \E a \in PmApps : PmPacket(t, a)
    \/ \E t \in PmTargets : tunnel_tcp_connection(t)
    \/ \E t \in PmTargets : \E n \in 0 .. PmMaxConns : PmConnsEnd(t, n)
    \/ \E r \in PmRemotes : PmSessionClosed(r)

PmSpec == PmInit /\ [][PmNext]_pmvars

-----------------------------------------------------------------------------

(* The variables hold what the code's containers can hold. *)
PortMaps_TypeOK ==
    /\ pmAlive \in BOOLEAN
    /\ \A c \in PmSlots : pmClaim[c] \in {PmNone} \cup ({"udp", "tcp"} \X PmTargets)
    /\ DOMAIN pmUdp \subseteq PmTargets /\ DOMAIN pmTcp \subseteq PmTargets
    /\ \A t \in DOMAIN pmUdp : pmUdp[t].cports \subseteq PmRemotes \X PmApps
    /\ DOMAIN pmClientPorts \subseteq PmRemotes \X PmApps
    /\ DOMAIN pmReturnPorts \subseteq PmRemotes \X (0 .. PmRing - 1)
    /\ pmConns \in [PmTargets -> 0 .. PmMaxConns]

(* _udp_client_ports and _udp_return_ports stay inverse to each other, and *)
(* each pair is owned by exactly one live mapping of that remote: neither  *)
(* order of mapping, sending and releasing shared mappings leaks a pseudo  *)
(* port or leaves half of a pair behind.                                   *)
PortsAreOwned ==
    /\ \A i \in DOMAIN pmClientPorts :
          /\ <<i[1], pmClientPorts[i]>> \in DOMAIN pmReturnPorts
          /\ pmReturnPorts[<<i[1], pmClientPorts[i]>>] = i[2]
          /\ \E t \in DOMAIN pmUdp :
                /\ t[1] = i[1]
                /\ i \in pmUdp[t].cports
                /\ \A u \in DOMAIN pmUdp \ {t} : i \notin pmUdp[u].cports
    /\ \A x \in DOMAIN pmReturnPorts :
          LET i == <<x[1], pmReturnPorts[x]>>
          IN  i \in DOMAIN pmClientPorts /\ pmClientPorts[i] = x[2]

(* While a mapping is held, an answer to what an application sent through  *)
(* it goes back to that application ("return traffic from the remote       *)
(* forwarded back to the address that sent data to the localhost port").   *)
(* The pseudo port of an application is shared by its mappings to one      *)
(* remote but owned by the first, and goes when that one is released.      *)
ReturnsReachSender ==
    \A u \in pmUsed : handle_udp_from_remote(u[1], u[3]) = u[2]

=============================================================================
