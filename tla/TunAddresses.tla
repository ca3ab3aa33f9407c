---------------------------- MODULE TunAddresses ----------------------------
(***************************************************************************)
(* The local addresses that the tun device gives to remotes                *)
(* (handlers/tun.cpp, address/map.hpp, address/ip_range.cpp): the choice   *)
(* of a free private network, the allocation of addresses from it, and the *)
(* cache of the addresses of closed sessions.  An address is its offset in *)
(* a small address space; a network is [base, size].                       *)
(***************************************************************************)
EXTENDS Integers, Sequences, FiniteSets

CONSTANTS
    TaRemote,
    TaFamily,    \* the address families, {"v4", "v6"}
    TaSpace,     \* addresses in the private space
    TaSize,      \* addresses in the network that is asked for
    TaSearch,    \* addresses in the blocks that are tried, at least TaSize
    TaExisting,  \* networks that the machine may already have
    TaReserved,  \* mapaddr of the configuration: offset of a remote, or -1
    TaHint,      \* the offset in the IPv6 range that a remote's key selects
    TaKeep       \* expired-address-cache

ASSUME TunAddressesAssumption ==
    /\ TaFamily = {"v4", "v6"}
    /\ TaSpace \in Nat /\ TaSize \in Nat /\ TaSearch \in Nat
    /\ TaSize >= 4 /\ TaSearch >= TaSize /\ TaSpace >= TaSearch /\ TaSpace % TaSearch = 0
    /\ TaReserved \in [TaRemote -> -1..TaSize - 1] /\ TaHint \in [TaRemote -> 0..TaSize - 1]
    /\ \A e \in TaExisting : e.base \in Int /\ e.size \in Nat
    /\ TaKeep \in Nat

VARIABLES
    taAuto,     \* ipv4_autoselect, ipv6_autoselect: no ifaddr is configured
    taTaken,    \* the networks of the machine
    taNet,      \* the chosen network, or none
    taMap,      \* _local_ipv4_mapping, _local_ipv6_mapping: address of a remote, or -1
    taNext,     \* _curr of the range iterators
    taLive,     \* remotes with a session
    taExpired   \* _expired

tavars == <<taAuto, taTaken, taNet, taMap, taNext, taLive, taExpired>>

TaNone == [base |-> -1, size |-> 0]
TaIn(a, net) == a >= net.base /\ a < net.base + net.size
TaOwn(net) == net.base + 1
TaLast(net) == net.base + net.size - 2

\* The first of some addresses that an iterator comes to.
TaFirst(S) == CHOOSE a \in S : \A b \in S : a <= b

\* find_ipv4_net: the first block of the space that no existing network overlaps.  The
\* first host address of a block stands for it.
find_ipv4_net(exclude) ==
    LET free == {b \in 0..TaSpace - 1 :
                    /\ b % TaSearch = 0
                    /\ \A e \in exclude : ~TaIn(b + 1, e) /\ ~TaIn(e.base, [base |-> b, size |-> TaSearch])}
    IN IF free = {} THEN TaNone ELSE [base |-> TaFirst(free), size |-> TaSize]

\* The network of a configured ifaddr.
TaConfigured == [base |-> 0, size |-> TaSize]

\* The mappings that the configuration reserves: add_mappings goes through the remotes
\* in the order of a hash table and skips an address that someone has, the device
\* itself included, so that any one of the remotes that ask for an address gets it.
TaReservations(net) ==
    LET asked(a) == {r \in TaRemote : TaReserved[r] # -1 /\ net.base + TaReserved[r] = a}
    IN  {m \in [TaRemote -> -1 .. net.base + net.size - 1] :
            /\ \A r \in TaRemote : m[r] # -1 => r \in asked(m[r])
            /\ \A a \in net.base .. net.base + net.size - 1 :
                 IF a = TaOwn(net) \/ asked(a) = {} THEN \A r \in TaRemote : m[r] # a
                 ELSE \E r \in TaRemote : {x \in TaRemote : m[x] = a} = {r}}

\* mapaddr cannot be used with an automatic choice of the network.
TaInit ==
    /\ taAuto \in BOOLEAN
    /\ taTaken \in SUBSET TaExisting
    /\ taNet = IF taAuto THEN find_ipv4_net(taTaken) ELSE TaConfigured
    /\ IF taAuto THEN taMap = [f \in TaFamily |-> [r \in TaRemote |-> -1]]
       ELSE taMap \in [TaFamily -> TaReservations(taNet)]
    /\ taNext = [f \in TaFamily |-> TaOwn(taNet)]
    /\ taLive = {} /\ taExpired = << >>

-----------------------------------------------------------------------------
TaUsed(f) == {TaOwn(taNet)} \cup {taMap[f][r] : r \in TaRemote}

\* get_next_local_ipvX: the next address that is not assigned, starting over at the
\* base of the range once.
get_next_local_ipvX(f) ==
    LET ahead == {a \in taNext[f] + 1 .. TaLast(taNet) : a \notin TaUsed(f)}
        again == {a \in taNet.base + 1 .. TaLast(taNet) : a \notin TaUsed(f)}
    IN IF ahead # {} THEN TaFirst(ahead) ELSE IF again # {} THEN TaFirst(again) ELSE -1

\* Mutant: the address that the key selects is taken without asking.
TaHinted_blind(f, r) == f = "v6"

\* get_next_local_ipv6: the address that the key selects, if it is free and neither the
\* device's own nor the base of the range.
TaHinted(f, r) ==
    /\ f = "v6" /\ taNet.base + TaHint[r] \notin TaUsed(f)
    /\ TaHint[r] # 0

\* map4 and map6.
map(f, r) ==
    IF taMap[f][r] # -1 THEN UNCHANGED <<taMap, taNext>>
    ELSE IF TaHinted(f, r)
    THEN taMap' = [taMap EXCEPT ![f][r] = taNet.base + TaHint[r]] /\ UNCHANGED taNext
    ELSE /\ taMap' = [taMap EXCEPT ![f][r] = get_next_local_ipvX(f)]
         /\ taNext' = [taNext EXCEPT ![f] =
                          IF get_next_local_ipvX(f) = -1 THEN TaLast(taNet) ELSE get_next_local_ipvX(f)]

\* A session with r, from either side; an inbound one is mapped to an IPv6 address,
\* and does not start without one.
TaInbound(r) ==
    /\ taNet # TaNone /\ r \notin taLive
    /\ map("v6", r)
    /\ taLive' = IF taMap'["v6"][r] = -1 THEN taLive ELSE taLive \cup {r}
    /\ UNCHANGED <<taAuto, taTaken, taNet, taExpired>>

\* A DNS query for the remote starts a session and maps an address; the first IPv4
\* packet of a session maps one as well.
TaQuery(f, r) ==
    /\ taNet # TaNone /\ map(f, r)
    /\ taLive' = taLive \cup {r}
    /\ UNCHANGED <<taAuto, taTaken, taNet, taExpired>>

\* handle_outbound_packet: a packet for a mapped address is sent over the session of
\* its remote, which is started if there is none.
handle_outbound_packet(f, a) ==
    /\ taNet # TaNone
    /\ \E r \in TaRemote : taMap[f][r] = a /\ r \notin taLive /\ taLive' = taLive \cup {r}
    /\ UNCHANGED <<taAuto, taTaken, taNet, taMap, taNext, taExpired>>

\* close_session: expire() makes the remote the most recently expired one, and
\* prune_expired() forgets the addresses of the oldest.
expire(r) ==
    /\ r \in taLive /\ taLive' = taLive \ {r}
    /\ LET list == Append(SelectSeq(taExpired, LAMBDA x : x # r), r)
           drop == IF Len(list) > TaKeep THEN Len(list) - TaKeep ELSE 0
           gone == {list[i] : i \in 1 .. drop}
       IN /\ taExpired' = SubSeq(list, drop + 1, Len(list))
          /\ taMap' = [f \in TaFamily |-> [x \in TaRemote |-> IF x \in gone THEN -1 ELSE taMap[f][x]]]
    /\ UNCHANGED <<taAuto, taTaken, taNet, taNext>>

TaNext ==
    \/ \E r \in TaRemote : TaInbound(r) \/ expire(r)
    \/ \E f \in TaFamily, r \in TaRemote : TaQuery(f, r)
    \/ \E f \in TaFamily, a \in 0..TaSpace - 1 : handle_outbound_packet(f, a)

-----------------------------------------------------------------------------
\* The type of the state.
TunAddresses_TypeOK ==
    /\ taAuto \in BOOLEAN /\ taNet.base \in -1..TaSpace - 1 /\ taLive \subseteq TaRemote
    /\ taMap \in [TaFamily -> [TaRemote -> -1..TaSpace - 1]]
    /\ taNext \in [TaFamily -> Int]
    /\ {taExpired[i] : i \in DOMAIN taExpired} \subseteq TaRemote /\ Len(taExpired) <= TaKeep

(***************************************************************************)
(* Whatever sessions come and go, no two remotes share an address, none    *)
(* has the device's own, and in a network that was chosen automatically    *)
(* none has one of a network that the machine already had (map4, map6,     *)
(* find_private_ipv4_net).                                                 *)
(***************************************************************************)
AddressesApart ==
    \A f \in TaFamily, r \in TaRemote : taMap[f][r] # -1 =>
        /\ taMap[f][r] # TaOwn(taNet)
        /\ \A x \in TaRemote : taMap[f][x] = taMap[f][r] => x = r
        /\ taAuto => \A e \in taTaken : ~TaIn(taMap[f][r], e)

(***************************************************************************)
(* tun.hpp, map6: "The association persists until unmapped", and the cache *)
(* is of "recently expired connection addresses": the address of a session *)
(* that is open is not forgotten.                                          *)
(***************************************************************************)
OpenIsNotForgotten ==
    [][\A f \in TaFamily, r \in taLive \cap taLive' : taMap[f][r] # -1 => taMap'[f][r] = taMap[f][r]]_tavars
=============================================================================
