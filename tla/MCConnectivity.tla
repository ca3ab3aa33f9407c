--------------------------- MODULE MCConnectivity ---------------------------
(***************************************************************************)
(* What a client offers its user and its applications: connectivity and    *)
(* its callbacks, the relaying of frames along a path, the addresses of    *)
(* the tun device, the port maps of the embedded API, name lookups, DNS    *)
(* and the configuration.  The parts share no state; each behaviour is one *)
(* of the part named by `part`, and the others stay as they start.         *)
(***************************************************************************)
EXTENDS Connectivity, Relaying, TunAddresses, PortMaps, SnsLookup, Dns, Config, TLC

CONSTANTS r1, r2, pa, pb, c1, c2, c3, q1, a1, a2, Parts

\* every way to register one, except a second one-time callback for a loss
MCCallback ==
  {c \in [on : {"connected", "disconnected"}, with_paths : BOOLEAN, persistent : BOOLEAN] :
     c.on = "connected" \/ c.persistent \/ c.with_paths}

MCHops == (pa :> <<r1, r2, r1>>) @@ (pb :> <<r1>>)

\* one that leaves a block free, and one that leaves none
MCExisting == {[base |-> 5, size |-> 1], [base |-> 0, size |-> 16]}
MCReserved == [r \in TaRemote |-> IF r = "z" THEN -1 ELSE 4]
MCHint == [r \in TaRemote |-> IF r = "x" THEN 0 ELSE 3]

MCDnNames ==
  {DnName(s, h, t) : s \in {"", "ipv4", "path", "srv"}, h \in {"localhost", "name", "pk", "random"}, t \in LocalTlds}
  \cup {DnName("", "mapped", "arpa"), DnName("", "unmapped", "arpa"), DnName("", "other", "arpa"),
        DnName("", "use-application-dns", "net"), DnName("", "other", "net")}
MCDnQueries ==
  {[form |-> "ok", name |-> n, type |-> t, tcp |-> s, edns |-> d] :
     n \in MCDnNames, t \in {"A", "AAAA", "CNAME", "TXT", "SRV", "PTR"}, s \in BOOLEAN, d \in BOOLEAN}
  \cup {[form |-> f, name |-> DnName("", "other", "net"), type |-> "A", tcp |-> FALSE, edns |-> d] :
     f \in {"garbage", "bad", "empty"}, d \in BOOLEAN}
  \cup {[form |-> "badcookie", name |-> DnName("", "other", "net"), type |-> "A", tcp |-> FALSE, edns |-> TRUE]}

\* at least one line for every validator, and for every way of keeping a value
MCCfLines ==
  {CfLine("router", "public-ip", 1), CfLine("router", "public-port", 7), CfLine("dns", "upstream", 5),
   CfLine("dns", "upstream", CfEmpty), CfLine("network", "ifaddr", 1), CfLine("network", "mapaddr", 11),
   CfLine("network", "mapaddr", 21), CfLine("paths", "strict-edge", 1), CfLine("paths", "relay-hops", 1),
   CfLine("paths", "min-expiry", 300500), CfLine("paths", "min-expiry", 301500), CfLine("api", "bind", 5),
   CfLine("api", "bnd", 5), CfLine("logging", "level", 5), CfLine("network", "expired-address-cache", 7)}

VARIABLE part

\* The one initial state a part rests in while another one runs.
RestTun == TaInit /\ taAuto = TRUE /\ taTaken = {}
RestConfig == CfInit /\ cfType = "full"

allvars == <<vars, rlvars, tavars, pmvars, snvars, dnvars, cfvars, part>>

MCInit ==
    /\ part \in Parts
    /\ Init /\ RlInit /\ PmInit /\ SnInit /\ DnInit
    /\ IF part = "tun" THEN TaInit ELSE RestTun
    /\ IF part = "config" THEN CfInit ELSE RestConfig

MCNext ==
    \/ part = "connectivity" /\ Next /\ UNCHANGED <<rlvars, tavars, pmvars, snvars, dnvars, cfvars, part>>
    \/ part = "relaying" /\ RlNext /\ UNCHANGED <<vars, tavars, pmvars, snvars, dnvars, cfvars, part>>
    \/ part = "tun" /\ TaNext /\ UNCHANGED <<vars, rlvars, pmvars, snvars, dnvars, cfvars, part>>
    \/ part = "ports" /\ PmNext /\ UNCHANGED <<vars, rlvars, tavars, snvars, dnvars, cfvars, part>>
    \/ part = "names" /\ SnNext /\ UNCHANGED <<vars, rlvars, tavars, pmvars, dnvars, cfvars, part>>
    \/ part = "dns" /\ DnNext /\ UNCHANGED <<vars, rlvars, tavars, pmvars, snvars, cfvars, part>>
    \/ part = "config" /\ CfNext /\ UNCHANGED <<vars, rlvars, tavars, pmvars, snvars, dnvars, part>>

MCSpec == MCInit /\ [][MCNext]_allvars

(* The variables of the router's connectivity, of the relayed frames, of the tun device's addresses, of the port
   maps, of name lookups, of DNS and of the configuration keep their types. *)
Client_TypeOK ==
    /\ Connectivity_TypeOK /\ Relaying_TypeOK /\ TunAddresses_TypeOK
    /\ PortMaps_TypeOK /\ SnsLookup_TypeOK /\ Dns_TypeOK /\ Config_TypeOK
=============================================================================
