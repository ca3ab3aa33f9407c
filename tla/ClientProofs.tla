--------------------------- MODULE ClientProofs ----------------------------
(***************************************************************************)
(* Proofs about what a client has and shows to its user: the state of the  *)
(* connection (Connectivity), the addresses of remotes on the tun device   *)
(* (TunAddresses), what the node database keeps on disk, the 0-RTT tickets *)
(* (Tickets) and the relay contacts (RcStore).                             *)
(***************************************************************************)
EXTENDS Connectivity, TunAddresses, Tickets, RcStore, WellFoundedInduction, TLAPS

\* A "connected" callback is in the list of its own kind only.
ListsSorted ==
    /\ \A c \in on_edge_connected : c.on = "connected" /\ ~c.with_paths
    /\ \A c \in on_path_connected : c.on = "connected" => c.with_paths
    /\ \A c \in on_edge_disconnected \cup on_path_disconnected : c.on # "connected"

IInv == Connectivity_TypeOK /\ PathFlagExact /\ ListsSorted

LEMMA InitIInv == Init => IInv
<1>1. 0 \in 0..edge_connections /\ 0 \in 0..MaxInbound /\ ~(0 > 0)
    BY ConnectivityAssumption
<1> QED
    BY <1>1, Zenon DEF Init, IInv, Connectivity_TypeOK, PathFlagExact, ListsSorted

\* What a call of a list of stored callbacks leaves alone and records.
LEMMA CallsKeepLists ==
    ASSUME IInv, NEW S, S \subseteq registered, process_on_conn_callbacks(S)
    PROVE  /\ UNCHANGED <<lists, registered>> /\ ListsSorted'
           /\ fired' \subseteq registered' /\ called' \subseteq registered'
BY DEF process_on_conn_callbacks, IInv, Connectivity_TypeOK, ListsSorted, lists

LEMMA EdgeChangeKeepsIInv ==
    ASSUME IInv, NEW n \in 0..edge_connections, on_edge_conn_change(n)
    PROVE  IInv'
<1> DEFINE S == IF n = 0 /\ is_edge_connected THEN on_path_disconnected \cup on_edge_disconnected
                ELSE IF ~is_edge_connected /\ n * 3 >= edge_connections * 2
                THEN on_edge_connected \cup (IF has_established_paths THEN on_path_connected ELSE {})
                ELSE {}
<1>1. S \subseteq registered /\ process_on_conn_callbacks(S)
    BY DEF on_edge_conn_change, IInv, Connectivity_TypeOK
<1> HIDE DEF S
<1>2. /\ UNCHANGED <<lists, registered>> /\ ListsSorted'
      /\ fired' \subseteq registered' /\ called' \subseteq registered'
    BY <1>1, CallsKeepLists
<1>3. conns' = n /\ is_edge_connected' \in BOOLEAN /\ UNCHANGED <<inbound, has_established_paths>>
    BY DEF on_edge_conn_change
<1> QED
    BY <1>2, <1>3 DEF IInv, Connectivity_TypeOK, PathFlagExact, lists

LEMMA PathChangeKeepsIInv ==
    ASSUME IInv, NEW connected \in BOOLEAN, on_inbound_path_change(connected),
           inbound' \in 0..MaxInbound, connected <=> inbound' > 0, UNCHANGED <<conns, is_edge_connected>>
    PROVE  IInv'
<1> DEFINE S == IF connected = has_established_paths \/ ~is_edge_connected THEN {}
                ELSE IF connected THEN on_path_connected ELSE on_path_disconnected
<1>1. S \subseteq registered /\ process_on_conn_callbacks(S)
    BY DEF on_inbound_path_change, IInv, Connectivity_TypeOK
<1> HIDE DEF S
<1>2. /\ UNCHANGED <<lists, registered>> /\ ListsSorted'
      /\ fired' \subseteq registered' /\ called' \subseteq registered'
    BY <1>1, CallsKeepLists
<1>3. has_established_paths' = connected
    BY DEF on_inbound_path_change
<1> QED
    BY <1>2, <1>3 DEF IInv, Connectivity_TypeOK, PathFlagExact, lists

LEMMA NextKeepsIInv == IInv /\ [Next]_vars => IInv'
<1> SUFFICES ASSUME IInv, [Next]_vars PROVE IInv'
    OBVIOUS
<1> USE ConnectivityAssumption
<1>1. CASE edge_established
    <2>1. conns + 1 \in 0..edge_connections
        BY <1>1 DEF edge_established, IInv, Connectivity_TypeOK
    <2> QED
        BY <1>1, <2>1, EdgeChangeKeepsIInv DEF edge_established
<1>2. CASE edge_closed
    <2>1. conns - 1 \in 0..edge_connections
        BY <1>2 DEF edge_closed, IInv, Connectivity_TypeOK
    <2> QED
        BY <1>2, <2>1, EdgeChangeKeepsIInv DEF edge_closed
<1>3. CASE inbound_path_built
    <2>1. inbound' \in 0..MaxInbound /\ inbound' > 0
        BY <1>3 DEF inbound_path_built, IInv, Connectivity_TypeOK
    <2> QED
        BY <1>3, <2>1, PathChangeKeepsIInv, TRUE \in BOOLEAN, Zenon DEF inbound_path_built
<1>4. CASE inbound_paths_expired
    <2>1. inbound' \in 0..MaxInbound /\ (inbound' > 0 => inbound > 0)
        BY <1>4 DEF inbound_paths_expired, IInv, Connectivity_TypeOK
    <2>2. CASE inbound' = 0
        <3>1. on_inbound_path_change(FALSE) /\ UNCHANGED <<conns, is_edge_connected>>
            BY <1>4, <2>2, Zenon DEF inbound_paths_expired
        <3>2. FALSE <=> inbound' > 0
            BY <2>2
        <3> QED
            BY <2>1, <3>1, <3>2, PathChangeKeepsIInv, Zenon
    <2>3. CASE inbound' # 0
        <3>1. process_on_conn_callbacks({}) /\ UNCHANGED <<has_established_paths, conns, is_edge_connected>>
            BY <1>4, <2>3 DEF inbound_paths_expired
        <3>2. /\ UNCHANGED <<lists, registered>> /\ ListsSorted'
              /\ fired' \subseteq registered' /\ called' \subseteq registered'
            BY <3>1, CallsKeepLists
        <3> QED
            BY <2>1, <2>3, <3>1, <3>2 DEF IInv, Connectivity_TypeOK, PathFlagExact, lists
    <2> QED
        BY <2>2, <2>3
<1>5. ASSUME NEW c \in Callback, on_connected(c) PROVE IInv'
    BY <1>5 DEF on_connected, IInv, Connectivity_TypeOK, PathFlagExact, ListsSorted
<1>6. ASSUME NEW c \in Callback, on_disconnected(c) PROVE IInv'
    BY <1>6 DEF on_disconnected, IInv, Connectivity_TypeOK, PathFlagExact, ListsSorted
<1>7. CASE UNCHANGED vars
    BY <1>7 DEF vars, lists, IInv, Connectivity_TypeOK, PathFlagExact, ListsSorted
<1> QED
    BY <1>1, <1>2, <1>3, <1>4, <1>5, <1>6, <1>7 DEF Next

(***************************************************************************)
(* The flag behind is_path_connected is exact in every reachable state.    *)
(***************************************************************************)
THEOREM ConnectivitySafe == Spec => [](Connectivity_TypeOK /\ PathFlagExact)
<1>1. IInv => Connectivity_TypeOK /\ PathFlagExact
    BY DEF IInv
<1> QED
    BY <1>1, InitIInv, NextKeepsIInv, PTL DEF Spec

(***************************************************************************)
(* Stored "connected" callbacks are called exactly on entering the state   *)
(* they are about, and those about losing path connectivity always when it *)
(* is lost, for any set of callbacks and any order of registrations.       *)
(***************************************************************************)
THEOREM ConnectivityReported == Spec => ConnectedIsReported /\ PathLossIsReported
<1> DEFINE Reported == \A c \in registered \cap (on_edge_connected \cup on_path_connected) :
                c.on = "connected" => (c \in fired' <=> ~ConnectedFor(c) /\ ConnectedFor(c)')
           LossReported == is_path_connected /\ ~is_path_connected' => on_path_disconnected \subseteq fired'
<1>1. ASSUME IInv, IInv', Next PROVE Reported /\ LossReported
    <2> USE <1>1 DEF IInv, Connectivity_TypeOK, ListsSorted, ConnectedFor, is_path_connected
    <2>1. ASSUME NEW n \in Int, on_edge_conn_change(n) PROVE Reported /\ LossReported
        <3>1. Reported
            BY <2>1, Zenon DEF on_edge_conn_change, process_on_conn_callbacks
        <3>2. LossReported
            BY <2>1, Zenon DEF on_edge_conn_change, process_on_conn_callbacks
        <3> QED
            BY <3>1, <3>2
    <2>2. CASE edge_established \/ edge_closed
        BY <2>1, <2>2, ConnectivityAssumption DEF edge_established, edge_closed
    <2>3. CASE inbound_path_built
        BY <2>3 DEF inbound_path_built, on_inbound_path_change, process_on_conn_callbacks
    <2>4. CASE inbound_paths_expired
        BY <2>4, Zenon DEF inbound_paths_expired, on_inbound_path_change, process_on_conn_callbacks
    <2>5. ASSUME NEW c \in Callback, on_connected(c) \/ on_disconnected(c) PROVE Reported /\ LossReported
        BY <2>5 DEF on_connected, on_disconnected
    <2> QED
        BY <1>1, <2>2, <2>3, <2>4, <2>5 DEF Next
<1>2. IInv /\ IInv' /\ [Next]_vars => [Reported]_vars /\ [LossReported]_vars
    BY <1>1
<1> QED
    BY <1>2, InitIInv, NextKeepsIInv, PTL DEF Spec, ConnectedIsReported, PathLossIsReported

-----------------------------------------------------------------------------
(* TunAddresses: remotes get addresses apart. *)

TaSpec == TaInit /\ [][TaNext]_tavars

TaHigh(net) == net.base + net.size - 1
TaNetwork(net) == net = TaNone \/ (net.base \in Nat /\ net.size = TaSize /\ TaHigh(net) < TaSpace)

\* One family's map: an address is of the device's network, not its own, above the base
\* where the network was chosen automatically, and of one remote.
TaSound(net, auto, g) ==
    /\ g \in [TaRemote -> Int]
    /\ \A r \in TaRemote : g[r] # -1 =>
          /\ net # TaNone
          /\ g[r] \in net.base .. TaHigh(net) /\ g[r] # TaOwn(net)
          /\ auto => g[r] # net.base
          /\ \A x \in TaRemote : g[x] = g[r] => x = r

\* The strengthening: an automatic network meets none of the machine's from its first
\* host address on, and an iterator never stands before that address.
TaInv ==
    /\ TaNetwork(taNet)
    /\ taNext \in [TaFamily -> Int]
    /\ taNet # TaNone => \A f \in TaFamily : taNext[f] >= TaOwn(taNet)
    /\ taMap \in [TaFamily -> [TaRemote -> Int]]
    /\ \A f \in TaFamily : TaSound(taNet, taAuto, taMap[f])
    /\ taAuto /\ taNet # TaNone =>
          \A a \in TaOwn(taNet) .. TaHigh(taNet), e \in taTaken : ~TaIn(a, e)

LEMMA TaFirstIn ==
    ASSUME NEW S, S \subseteq Nat, S # {}
    PROVE  TaFirst(S) \in S
<1>1. PICK x \in S : \A y \in S : ~(<<y, x>> \in OpToRel(<, Nat)) BY WFMin, NatLessThanWellFounded, Zenon
<1>2. \A y \in S : x <= y
    <2> SUFFICES ASSUME NEW y \in S PROVE x <= y OBVIOUS
    <2>1. x \in Nat /\ y \in Nat OBVIOUS
    <2>2. ~(y < x) BY <1>1, <2>1, Zenon DEF OpToRel
    <2> QED BY <2>1, <2>2
<1> QED BY <1>2, Zenon DEF TaFirst

\* find_ipv4_net: a network that starts before a free block ends at its first host
\* address or before it, and one that starts later starts behind the block.
LEMMA TaFoundFree ==
    ASSUME NEW T, T \subseteq TaExisting
    PROVE  /\ TaNetwork(find_ipv4_net(T))
           /\ find_ipv4_net(T) # TaNone =>
                 \A a \in TaOwn(find_ipv4_net(T)) .. TaHigh(find_ipv4_net(T)), e \in T : ~TaIn(a, e)
<1> DEFINE free == {b \in 0..TaSpace - 1 :
                       /\ b % TaSearch = 0
                       /\ \A e \in T : ~TaIn(b + 1, e) /\ ~TaIn(e.base, [base |-> b, size |-> TaSearch])}
<1>1. find_ipv4_net(T) = IF free = {} THEN TaNone ELSE [base |-> TaFirst(free), size |-> TaSize]
    BY DEF find_ipv4_net
<1>2. CASE free = {} BY <1>1, <1>2 DEF TaNetwork
<1>3. CASE free # {}
    <2> DEFINE b == TaFirst(free)
    <2>1. free \subseteq Nat BY TunAddressesAssumption
    <2>2. b \in free
        <3> HIDE DEF free
        <3> QED BY <1>3, <2>1, TaFirstIn, ZenonT(40)
    <2>3. /\ b \in Nat /\ b < TaSpace /\ b % TaSearch = 0
          /\ \A e \in T : ~TaIn(b + 1, e) /\ ~TaIn(e.base, [base |-> b, size |-> TaSearch])
        BY <2>2, TunAddressesAssumption
    <2> HIDE DEF free, b
    <2>4. find_ipv4_net(T) = [base |-> b, size |-> TaSize] BY <1>1, <1>3 DEF b
    <2>5. b + TaSearch <= TaSpace
        <3>1. /\ TaSearch \in Nat /\ TaSearch > 0 /\ TaSpace \in Nat /\ TaSpace % TaSearch = 0
            BY TunAddressesAssumption
        <3>2. b = TaSearch * (b \div TaSearch) /\ TaSpace = TaSearch * (TaSpace \div TaSearch)
            BY <2>3, <3>1
        <3> DEFINE m == b \div TaSearch
                   n == TaSpace \div TaSearch
        <3>3. m \in Nat /\ n \in Nat BY <2>3, <3>1
        <3>4. b = TaSearch * m /\ TaSpace = TaSearch * n BY <3>2
        <3> HIDE DEF m, n
        <3>5. TaSearch * m < TaSearch * n BY <2>3, <3>4
        <3>6. m < n
            <4> SUFFICES ASSUME m >= n PROVE FALSE BY <3>3
            <4>1. PICK k \in Nat : m = n + k BY <3>3
            <4>2. TaSearch * m = TaSearch * n + TaSearch * k /\ TaSearch * k >= 0 BY <3>1, <3>3, <4>1
            <4> QED BY <3>1, <3>3, <3>5, <4>2
        <3>7. PICK k \in Nat : n = m + 1 + k BY <3>3, <3>6
        <3>8. TaSearch * n = TaSearch * m + TaSearch + TaSearch * k /\ TaSearch * k >= 0 BY <3>1, <3>3, <3>7
        <3> QED BY <3>1, <3>3, <3>4, <3>8
    <2>6. TaNetwork([base |-> b, size |-> TaSize])
        BY <2>3, <2>5, TunAddressesAssumption DEF TaNetwork, TaHigh
    <2>7. ASSUME NEW a \in b + 1 .. b + TaSize - 1, NEW e \in T PROVE ~TaIn(a, e)
        <3>1. e.base \in Int /\ e.size \in Nat BY TunAddressesAssumption
        <3>2. /\ ~(b + 1 >= e.base /\ b + 1 < e.base + e.size)
              /\ ~(e.base >= b /\ e.base < b + TaSearch)
            BY <2>3 DEF TaIn
        <3> QED BY <2>3, <3>1, <3>2, TunAddressesAssumption DEF TaIn
    <2> QED BY <2>4, <2>6, <2>7 DEF TaOwn, TaHigh
<1> QED BY <1>2, <1>3

\* add_mappings: whoever of the remotes that ask for an address gets it, it gets it alone.
LEMMA TaReservedSound ==
    ASSUME NEW m \in TaReservations(TaConfigured)
    PROVE  TaSound(TaConfigured, FALSE, m)
<1> DEFINE net == TaConfigured
           asked(a) == {r \in TaRemote : TaReserved[r] # -1 /\ net.base + TaReserved[r] = a}
<1>1. /\ m \in [TaRemote -> -1 .. net.base + net.size - 1]
      /\ \A r \in TaRemote : m[r] # -1 => r \in asked(m[r])
      /\ \A a \in net.base .. net.base + net.size - 1 :
           IF a = TaOwn(net) \/ asked(a) = {} THEN \A r \in TaRemote : m[r] # a
           ELSE \E r \in TaRemote : {x \in TaRemote : m[x] = a} = {r}
    BY DEF TaReservations
<1>2. net.base = 0 /\ net.size = TaSize /\ TaSize \in Nat /\ TaSize >= 4
    BY TunAddressesAssumption DEF TaConfigured
<1>3. net # TaNone BY <1>2 DEF TaNone
<1>4. ASSUME NEW r \in TaRemote, m[r] # -1
      PROVE  /\ m[r] \in net.base .. TaHigh(net) /\ m[r] # TaOwn(net)
             /\ \A x \in TaRemote : m[x] = m[r] => x = r
    <2>1. r \in asked(m[r]) BY <1>1, <1>4
    <2>2. m[r] \in net.base .. net.base + net.size - 1
        BY <1>2, <1>4, <2>1, TunAddressesAssumption
    <2>3. ~(m[r] = TaOwn(net) \/ asked(m[r]) = {}) BY <1>1, <2>2
    <2>4. PICK y \in TaRemote : {x \in TaRemote : m[x] = m[r]} = {y} BY <1>1, <2>2, <2>3
    <2>5. \A x \in TaRemote : m[x] = m[r] => x = r BY <2>4
    <2> QED BY <2>2, <2>3, <2>5 DEF TaHigh
<1>5. m \in [TaRemote -> Int] BY <1>1, <1>2
<1> HIDE DEF net
<1> QED BY <1>3, <1>4, <1>5 DEF TaSound, net

LEMMA TaInitInv == TaInit => TaInv
<1> SUFFICES ASSUME TaInit PROVE TaInv OBVIOUS
<1>0. /\ taAuto \in BOOLEAN /\ taTaken \subseteq TaExisting
      /\ taNet = IF taAuto THEN find_ipv4_net(taTaken) ELSE TaConfigured
      /\ IF taAuto THEN taMap = [f \in TaFamily |-> [r \in TaRemote |-> -1]]
         ELSE taMap \in [TaFamily -> TaReservations(taNet)]
      /\ taNext = [f \in TaFamily |-> TaOwn(taNet)]
    BY DEF TaInit
<1>1. /\ TaNetwork(taNet)
      /\ taAuto /\ taNet # TaNone =>
            \A a \in TaOwn(taNet) .. TaHigh(taNet), e \in taTaken : ~TaIn(a, e)
    <2>1. TaNetwork(TaConfigured)
        BY TunAddressesAssumption DEF TaConfigured, TaNetwork, TaHigh
    <2> QED BY <1>0, <2>1, TaFoundFree
<1>2. TaOwn(taNet) \in Int BY <1>1 DEF TaNetwork, TaOwn, TaNone
<1>3. taNext \in [TaFamily -> Int] /\ \A f \in TaFamily : taNext[f] >= TaOwn(taNet) BY <1>0, <1>2
<1>4. taMap \in [TaFamily -> [TaRemote -> Int]] /\ \A f \in TaFamily : TaSound(taNet, taAuto, taMap[f])
    <2>1. CASE taAuto BY <1>0, <2>1 DEF TaSound
    <2>2. CASE ~taAuto
        <3>1. \A f \in TaFamily : TaSound(taNet, FALSE, taMap[f]) BY <1>0, <2>2, TaReservedSound, ZenonT(40)
        <3>2. \A f \in TaFamily : TaSound(taNet, taAuto, taMap[f]) BY <2>2, <3>1 DEF TaSound
        <3>3. taMap = [f \in TaFamily |-> taMap[f]] BY <1>0, <2>2
        <3> QED BY <3>1, <3>2, <3>3 DEF TaSound
    <2> QED BY <2>1, <2>2
<1> QED BY <1>1, <1>3, <1>4 DEF TaInv

-----------------------------------------------------------------------------

\* An address that nobody has may be given away.
LEMMA TaAssignSound ==
    ASSUME NEW net, NEW auto, NEW g, TaSound(net, auto, g), NEW r \in TaRemote, NEW v \in Int,
           net # TaNone, v \in net.base .. TaHigh(net), v # TaOwn(net), v # net.base,
           \A x \in TaRemote : g[x] # v
    PROVE  TaSound(net, auto, [g EXCEPT ![r] = v])
BY DEF TaSound

\* An address that get_next_local_ipvX finds is of the network, and nobody's.
LEMMA TaNextFree ==
    ASSUME TaInv, taNet # TaNone, NEW f \in TaFamily, get_next_local_ipvX(f) # -1
    PROVE  /\ get_next_local_ipvX(f) \in TaOwn(taNet) .. TaHigh(taNet)
           /\ get_next_local_ipvX(f) \notin TaUsed(f)
<1> DEFINE ahead == {a \in taNext[f] + 1 .. TaLast(taNet) : a \notin TaUsed(f)}
           again == {a \in taNet.base + 1 .. TaLast(taNet) : a \notin TaUsed(f)}
           v == get_next_local_ipvX(f)
<1>1. v = IF ahead # {} THEN TaFirst(ahead) ELSE IF again # {} THEN TaFirst(again) ELSE -1
    BY DEF get_next_local_ipvX
<1>2. /\ taNet.base \in Nat /\ taNet.size = TaSize /\ TaSize \in Nat
      /\ taNext[f] \in Int /\ taNext[f] >= taNet.base + 1
    BY TunAddressesAssumption DEF TaInv, TaNetwork, TaOwn
<1>3. /\ \A a \in ahead : a \in Nat /\ a \in TaOwn(taNet) .. TaHigh(taNet) /\ a \notin TaUsed(f)
      /\ \A a \in again : a \in Nat /\ a \in TaOwn(taNet) .. TaHigh(taNet) /\ a \notin TaUsed(f)
    BY <1>2 DEF TaOwn, TaHigh, TaLast
<1>4. v \in ahead \/ v \in again
    <2>1. ahead \subseteq Nat /\ again \subseteq Nat BY <1>3
    <2> HIDE DEF ahead, again
    <2> QED BY <1>1, <2>1, TaFirstIn, ZenonT(40)
<1> QED BY <1>3, <1>4, Zenon

\* map4 and map6: whichever way the address is found.
LEMMA TaMapInv ==
    ASSUME TaInv, taNet # TaNone, NEW f \in TaFamily, NEW r \in TaRemote, map(f, r),
           UNCHANGED <<taAuto, taTaken, taNet>>
    PROVE  TaInv'
<1>0. /\ taMap \in [TaFamily -> [TaRemote -> Int]] /\ taNext \in [TaFamily -> Int]
      /\ TaSound(taNet, taAuto, taMap[f]) /\ \A x \in TaFamily : taNext[x] >= TaOwn(taNet)
    BY DEF TaInv
<1>1. taNet.base \in Nat /\ taNet.size = TaSize /\ TaSize \in Nat /\ TaSize >= 4
    BY TunAddressesAssumption DEF TaInv, TaNetwork
<1>2. ASSUME NEW v \in Int,
             \/ v = -1 /\ taMap[f][r] = -1
             \/ v \in TaOwn(taNet) .. TaHigh(taNet) /\ v \notin TaUsed(f),
             taMap' = [taMap EXCEPT ![f][r] = v],
             taNext' \in [TaFamily -> Int], \A x \in TaFamily : taNext'[x] >= TaOwn(taNet)
      PROVE  TaInv'
    <2> DEFINE g == [taMap[f] EXCEPT ![r] = v]
    <2>1. taMap' = [taMap EXCEPT ![f] = g] BY <1>2
    <2>2. g \in [TaRemote -> Int] /\ TaSound(taNet, taAuto, g)
        <3>1. taMap[f] \in [TaRemote -> Int] BY <1>0
        <3>2. CASE v = -1 /\ taMap[f][r] = -1
            <4>1. g = taMap[f] BY <3>1, <3>2
            <4> QED BY <1>0, <3>1, <4>1, Zenon
        <3>3. CASE v \in TaOwn(taNet) .. TaHigh(taNet) /\ v \notin TaUsed(f)
            <4>1. v # TaOwn(taNet) /\ \A x \in TaRemote : taMap[f][x] # v BY <3>3 DEF TaUsed
            <4>2. v \in taNet.base .. TaHigh(taNet) /\ v # taNet.base
                BY <1>1, <3>3 DEF TaOwn, TaHigh
            <4>3. TaSound(taNet, taAuto, g) BY <1>0, <4>1, <4>2, TaAssignSound
            <4> QED BY <3>1, <4>3
        <3> QED BY <1>2, <3>2, <3>3
    <2> HIDE DEF g
    <2>3. /\ taMap' \in [TaFamily -> [TaRemote -> Int]]
          /\ \A x \in TaFamily : taMap'[x] = IF x = f THEN g ELSE taMap[x]
        BY <1>0, <2>1, <2>2
    <2>4. \A x \in TaFamily : TaSound(taNet, taAuto, taMap'[x]) BY <2>2, <2>3 DEF TaInv
    <2> QED BY <1>2, <2>3, <2>4, ZenonT(40) DEF TaInv
<1>3. CASE taMap[f][r] # -1
    <2>1. UNCHANGED <<taMap, taNext>> BY <1>3 DEF map
    <2> QED BY <2>1 DEF TaInv
<1>4. CASE taMap[f][r] = -1 /\ TaHinted(f, r)
    <2> DEFINE v == taNet.base + TaHint[r]
    <2>1. taMap' = [taMap EXCEPT ![f][r] = v] /\ UNCHANGED taNext BY <1>4 DEF map
    <2>2. v \notin TaUsed(f) /\ TaHint[r] # 0 BY <1>4 DEF TaHinted
    <2>3. TaHint[r] \in 0 .. TaSize - 1 BY TunAddressesAssumption
    <2>4. v \in Int /\ v \in TaOwn(taNet) .. TaHigh(taNet) BY <1>1, <2>2, <2>3 DEF TaOwn, TaHigh
    <2> HIDE DEF v
    <2> QED BY <1>0, <1>2, <2>1, <2>2, <2>4, ZenonT(40)
<1>5. CASE taMap[f][r] = -1 /\ ~TaHinted(f, r)
    <2> DEFINE v == get_next_local_ipvX(f)
               n == IF v = -1 THEN TaLast(taNet) ELSE v
    <2>1. taMap' = [taMap EXCEPT ![f][r] = v] /\ taNext' = [taNext EXCEPT ![f] = n] BY <1>5 DEF map
    <2>2. v = -1 \/ (v \in TaOwn(taNet) .. TaHigh(taNet) /\ v \notin TaUsed(f))
        BY TaNextFree, Zenon
    <2> HIDE DEF v
    <2>3. v \in Int /\ n \in Int /\ n >= TaOwn(taNet)
        BY <1>1, <2>2 DEF TaOwn, TaHigh, TaLast
    <2> HIDE DEF n
    <2>4. taNext' \in [TaFamily -> Int] /\ \A x \in TaFamily : taNext'[x] >= TaOwn(taNet)
        BY <1>0, <2>1, <2>3
    <2> QED BY <1>2, <1>5, <2>1, <2>2, <2>3, <2>4, ZenonT(40)
<1> QED BY <1>3, <1>4, <1>5

LEMMA TaNextInv == TaInv /\ [TaNext]_tavars => TaInv'
<1> SUFFICES ASSUME TaInv, [TaNext]_tavars PROVE TaInv' OBVIOUS
<1>1. ASSUME NEW r \in TaRemote, TaInbound(r) PROVE TaInv'
    <2>1. "v6" \in TaFamily BY TunAddressesAssumption
    <2>2. taNet # TaNone /\ map("v6", r) /\ UNCHANGED <<taAuto, taTaken, taNet>> BY <1>1 DEF TaInbound
    <2> QED BY <2>1, <2>2, TaMapInv
<1>2. ASSUME NEW r \in TaRemote, expire(r) PROVE TaInv'
    <2> DEFINE list == Append(SelectSeq(taExpired, LAMBDA x : x # r), r)
               over == IF Len(list) > TaKeep THEN Len(list) - TaKeep ELSE 0
               gone == {list[i] : i \in 1 .. over}
    <2>1. /\ UNCHANGED <<taAuto, taTaken, taNet, taNext>>
          /\ taMap' = [f \in TaFamily |-> [x \in TaRemote |-> IF x \in gone THEN -1 ELSE taMap[f][x]]]
        BY <1>2 DEF expire
    <2> HIDE DEF gone
    <2>2. taMap' \in [TaFamily -> [TaRemote -> Int]] BY SMTT(30), <2>1 DEF TaInv
    <2>3. ASSUME NEW f \in TaFamily PROVE TaSound(taNet, taAuto, taMap'[f])
        <3>1. TaSound(taNet, taAuto, taMap[f]) BY DEF TaInv
        <3>2. \A x \in TaRemote : taMap'[f][x] = IF x \in gone THEN -1 ELSE taMap[f][x] BY <2>1
        <3> QED BY <2>2, <3>1, <3>2 DEF TaSound
    <2> QED BY <2>1, <2>2, <2>3, Zenon DEF TaInv
<1>3. ASSUME NEW f \in TaFamily, NEW r \in TaRemote, TaQuery(f, r) PROVE TaInv'
    BY <1>3, TaMapInv DEF TaQuery
<1>4. ASSUME NEW f \in TaFamily, NEW a, handle_outbound_packet(f, a) PROVE TaInv'
    BY <1>4 DEF handle_outbound_packet, TaInv
<1>5. CASE UNCHANGED tavars BY <1>5 DEF tavars, TaInv
<1> QED BY <1>1, <1>2, <1>3, <1>4, <1>5 DEF TaNext

(* Whatever sessions come and go, for any size of the network and of the cache, any
   networks of the machine and any mapaddr lines, no two remotes share an address, none
   has the device's own, and none has one of a network the machine already had when the
   device's was chosen automatically (map4, map6, expire of handlers/tun.cpp and
   find_ipv4_net of address/ip_range.cpp). *)
THEOREM RemotesApart == TaSpec => []AddressesApart
<1>1. TaInv => AddressesApart
    <2> SUFFICES ASSUME TaInv, NEW f \in TaFamily, NEW r \in TaRemote, taMap[f][r] # -1
                 PROVE  /\ taMap[f][r] # TaOwn(taNet)
                        /\ \A x \in TaRemote : taMap[f][x] = taMap[f][r] => x = r
                        /\ taAuto => \A e \in taTaken : ~TaIn(taMap[f][r], e)
        BY DEF AddressesApart
    <2>1. TaSound(taNet, taAuto, taMap[f]) BY Zenon DEF TaInv
    <2>2. taNet # TaNone /\ taNet.base \in Nat /\ taNet.size \in Nat
        BY <2>1, TunAddressesAssumption, Zenon DEF TaSound, TaInv, TaNetwork
    <2>3. taAuto => taMap[f][r] \in TaOwn(taNet) .. TaHigh(taNet)
        BY <2>1, <2>2 DEF TaSound, TaOwn, TaHigh
    <2>4. taAuto => \A e \in taTaken : ~TaIn(taMap[f][r], e) BY <2>2, <2>3 DEF TaInv
    <2> QED BY <2>1, <2>4, Zenon DEF TaSound
<1> QED BY <1>1, TaInitInv, TaNextInv, PTL DEF TaSpec

ZtSpec == ZtInit /\ [][ZtNext]_ztvars
RcSpec == RcInit /\ [][RcNext]_rcvars

ZtType ==
    /\ ztDirty \in BOOLEAN /\ ztWoken \in BOOLEAN
    /\ ztJob = [th \in ZtThread |-> ztJob[th]]

\* The sets hold the same tickets that can still be used.
ZtSame(S, T) == S \ ztExpired = T \ ztExpired

(***************************************************************************)
(* While the router runs, a change that no save has copied has woken the   *)
(* saver; without one, the copy under way is the memory's contents, or     *)
(* there is none and the file has them, expired tickets apart.  A stopped  *)
(* router has no save under way, so that the next start finds the file at  *)
(* rest.                                                                   *)
(***************************************************************************)
ZtInv ==
    /\ ZtType
    /\ ztPhase = "stopped" => ztJob["disk"] = ZtIdle
    /\ ztPhase = "running" => (ztDirty => ztWoken)
    /\ ztPhase = "running" /\ ~ztDirty =>
          IF ztJob["disk"].state = "copy" THEN ZtSame(ztJob["disk"].tickets, ztMem) ELSE ZtSame(ztFile, ztMem)

LEMMA ZtJobKinds ==
  /\ ZtIdle.state # "copy" /\ ZtClean.state # "copy"
  /\ \A S : ZtCopy(S).state = "copy" /\ ZtCopy(S).tickets = S
BY DEF ZtIdle, ZtClean, ZtCopy

LEMMA ZtInitInv == ZtInit => ZtInv
<1> SUFFICES ASSUME ZtInit PROVE ZtInv OBVIOUS
<1>1. ZtType BY Zenon DEF ZtInit, ZtType
<1>2. ztJob["disk"] = ZtIdle BY DEF ZtInit, ZtThread
<1> QED BY <1>1, <1>2, ZtJobKinds, Zenon DEF ZtInit, ZtInv, ZtSame

\* A change of the memory while the router runs: the saver is woken.
LEMMA ZtChangedKeeps ==
  ASSUME ZtInv, ZtChanged, UNCHANGED <<ztJob, ztPhase>>
  PROVE  ZtInv'
BY Zenon DEF ZtInv, ZtType, ZtChanged

\* Time only takes tickets away from both sides.
LEMMA ZtExpireStep == ASSUME ZtInv, NEW i, ZtExpire(i) PROVE ZtInv'
<1>1. \A S, T : S \ ztExpired = T \ ztExpired => S \ (ztExpired \cup {i}) = T \ (ztExpired \cup {i}) OBVIOUS
<1>2. ztExpired' = ztExpired \cup {i} /\ UNCHANGED <<ztMem, ztDirty, ztWoken, ztFile, ztJob, ztPhase>>
  BY Zenon DEF ZtExpire
<1> QED BY <1>1, <1>2, Zenon DEF ZtInv, ZtType, ZtSame

\* The disk loop copies what is dirty, and finds the file up to date otherwise.
LEMMA ZtSaveStep == ASSUME ZtInv, _0rtt_save PROVE ZtInv'
<1>1. /\ ztJob["disk"] = ZtIdle /\ ztDirty' = FALSE /\ ztWoken' = FALSE
      /\ ztMem' = IF ztDirty THEN ZtPopExpired(ztMem) ELSE ztMem
      /\ ztJob' = [ztJob EXCEPT !["disk"] = IF ztDirty THEN ZtCopy(ztMem') ELSE ZtClean]
      /\ ztPhase \in {"running", "flushing"} /\ UNCHANGED <<ztFile, ztExpired, ztPhase>>
  BY Zenon DEF _0rtt_save, ZtSaveCopy
<1>2. ztJob'["disk"] = IF ztDirty THEN ZtCopy(ztMem') ELSE ZtClean BY <1>1, Zenon DEF ZtInv, ZtType, ZtThread
<1>3. ZtType' BY <1>1, Zenon DEF ZtInv, ZtType
<1>4. CASE ztDirty BY <1>1, <1>2, <1>3, <1>4, ZtJobKinds, Zenon DEF ZtInv, ZtSame
<1>5. CASE ~ztDirty BY <1>1, <1>2, <1>3, <1>5, ZtJobKinds, Zenon DEF ZtInv, ZtSame
<1> QED BY <1>4, <1>5

\* A job writes its copy.
LEMMA ZtWriteStep == ASSUME ZtInv, NEW th \in ZtThread, ZtWrite(th) PROVE ZtInv'
<1>1. /\ ztFile' = IF ztJob[th].state = "copy" THEN ztJob[th].tickets ELSE ztFile
      /\ ztJob' = [ztJob EXCEPT ![th] = ZtIdle]
      /\ ztPhase' = IF th = "main" THEN "removing" ELSE ztPhase
      /\ UNCHANGED <<ztMem, ztDirty, ztWoken, ztExpired>>
  BY Zenon DEF ZtWrite
<1>2. ZtType' BY <1>1, Zenon DEF ZtInv, ZtType
<1>3. CASE th = "main" BY <1>1, <1>2, <1>3 DEF ZtInv
<1>4. CASE th = "disk"
  <2>1. ztJob'["disk"] = ZtIdle /\ ztPhase' = ztPhase BY <1>1, <1>4 DEF ZtInv, ZtType, ZtThread
  <2> QED BY <1>1, <1>2, <1>4, <2>1, ZtJobKinds, Zenon DEF ZtInv, ZtSame
<1> QED BY <1>3, <1>4 DEF ZtThread

\* A start finds the file at rest and leaves the expired tickets out.
LEMMA ZtStartStep == ASSUME ZtInv, ZtStart PROVE ZtInv'
<1>1. /\ ztPhase = "stopped" /\ ztDirty' = FALSE /\ ztWoken' = TRUE /\ ztPhase' = "running"
      /\ ztMem' = ztFile \ ztExpired /\ ztFile' = IF ztMem' = {} THEN {} ELSE ztFile
      /\ UNCHANGED <<ztExpired, ztJob>>
  BY Zenon DEF ZtStart
<1>2. ZtSame(ztFile, ztMem)' BY <1>1 DEF ZtSame
<1>3. ztJob'["disk"].state # "copy" BY <1>1, ZtJobKinds DEF ZtInv
<1> QED BY <1>1, <1>2, <1>3, Zenon DEF ZtInv, ZtType

LEMMA ZtStep == ASSUME ZtInv, [ZtNext]_ztvars PROVE ZtInv'
<1>1. CASE store_0rtt BY <1>1, ZtChangedKeeps DEF store_0rtt
<1>2. CASE extract_0rtt BY <1>2, ZtChangedKeeps DEF extract_0rtt
<1>3. CASE \E i \in 1..ZtMaxIds : ZtExpire(i) BY <1>3, ZtExpireStep
<1>4. CASE _0rtt_save BY <1>4, ZtSaveStep
<1>5. CASE cleanup_flush
  BY <1>5, Zenon DEF cleanup_flush, ZtSaveCopy, ZtInv, ZtType
<1>6. CASE cleanup_remove
  BY <1>6, Zenon DEF cleanup_remove, ZtInv, ZtType
<1>7. CASE ZtStart BY <1>7, ZtStartStep
<1>8. CASE \E th \in ZtThread : ZtWrite(th) BY <1>8, ZtWriteStep
<1>9. CASE UNCHANGED ztvars
  BY <1>9 DEF ztvars, ZtInv, ZtType, ZtSame
<1> QED BY <1>1, <1>2, <1>3, <1>4, <1>5, <1>6, <1>7, <1>8, <1>9 DEF ZtNext

(***************************************************************************)
(* For any number of tickets and starts, and whenever tickets expire:      *)
(* while the router runs and its saver is idle, the file and the memory    *)
(* hold the same tickets but for expired ones (store_0rtt, extract_0rtt,   *)
(* _0rtt_save, load_from_disk, cleanup).                                   *)
(***************************************************************************)
THEOREM TicketsSaved == ZtSpec => []SavedWhenIdle
<1>1. ZtInv => SavedWhenIdle BY ZtJobKinds DEF ZtInv, SavedWhenIdle, ZtSame
<1> QED BY <1>1, ZtInitInv, ZtStep, PTL DEF ZtSpec

-----------------------------------------------------------------------------
RcAny == RcRecord \cup {RcNone}
RcJob == UNION {[d -> RcAny] : d \in SUBSET RcRid}

RcType ==
    /\ rcMem \in [RcRid -> RcAny] /\ rcHash \in [RcRid -> RcAny] /\ rcFile \in [RcRid -> RcAny]
    /\ rcQueue \in Seq(RcJob)

\* The jobs of the disk loop that are about a relay's file.
RcJobs(r) == {i \in 1..Len(rcQueue) : r \in DOMAIN rcQueue[i]}

\* DiskFollows, for one relay.
RcFollows(r) ==
    /\ RcJobs(r) = {} => rcFile[r] = rcMem[r]
    /\ \A i \in RcJobs(r) : (\A j \in RcJobs(r) : j <= i) => rcQueue[i][r] = rcMem[r]

\* A queued job about some relays, which leaves for each what the memory has then.
LEMMA RcQueued ==
  ASSUME RcType, \A r \in RcRid : RcFollows(r),
         NEW job \in RcJob, rcQueue' = Append(rcQueue, job), rcFile' = rcFile,
         rcMem' \in [RcRid -> RcAny],
         \A r \in RcRid : rcMem'[r] = IF r \in DOMAIN job THEN job[r] ELSE rcMem[r]
  PROVE  rcQueue' \in Seq(RcJob) /\ \A r \in RcRid : RcFollows(r)'
<1> DEFINE n == Len(rcQueue)
<1>1. n \in Nat /\ Len(rcQueue') = n + 1 /\ rcQueue'[n + 1] = job BY DEF RcType
<1>2. \A i \in 1..n : rcQueue'[i] = rcQueue[i] BY DEF RcType
<1>3. rcQueue' \in Seq(RcJob) BY DEF RcType
<1>4. ASSUME NEW r \in RcRid PROVE RcFollows(r)'
  <2>1. CASE r \in DOMAIN job
    <3>1. n + 1 \in RcJobs(r)' BY SMTT(30), <1>1, <2>1 DEF RcJobs
    <3>2. ASSUME NEW i \in RcJobs(r)', \A j \in RcJobs(r)' : j <= i PROVE i = n + 1
      BY <1>1, <3>1, <3>2 DEF RcJobs
    <3>3. rcQueue'[n + 1][r] = rcMem'[r] BY <1>1, <2>1
    <3> QED BY <3>1, <3>2, <3>3, ZenonT(30) DEF RcFollows
  <2>2. CASE r \notin DOMAIN job
    <3>1. RcJobs(r)' = RcJobs(r) BY <1>1, <1>2, <2>2 DEF RcJobs
    <3>2. \A i \in RcJobs(r) : rcQueue'[i] = rcQueue[i] BY <1>2 DEF RcJobs
    <3>3. rcMem'[r] = rcMem[r] BY <2>2
    <3> QED BY <3>1, <3>2, <3>3, ZenonT(30) DEF RcFollows
  <2> QED BY <2>1, <2>2, Zenon
<1> QED BY <1>3, <1>4

\* The hash recorded for a relay is that of the RC in memory, and the bucket holds these.
RcHashed ==
    /\ \A r \in RcRid : RcHashOf(r, rcHash[r]) = RcHashOf(r, rcMem[r])
    /\ rcBucket = UNION {RcHashOf(r, rcMem[r]) : r \in RcRid}

RcInv == RcType /\ RcHashed /\ \A r \in RcRid : RcFollows(r)

LEMMA RcInitInv == RcInit => RcInv
<1> SUFFICES ASSUME RcInit PROVE RcInv OBVIOUS
<1>1. rcQueue = << >> /\ << >> \in Seq(RcJob) BY DEF RcInit
<1>2. RcType BY <1>1, Zenon DEF RcInit, RcType, RcAny
<1>3. RcHashed BY DEF RcInit, RcHashed, RcHashOf
<1>4. \A r \in RcRid : RcJobs(r) = {} BY <1>1 DEF RcJobs
<1>5. \A r \in RcRid : RcFollows(r) BY <1>4 DEF RcInit, RcFollows
<1> QED BY <1>2, <1>3, <1>5 DEF RcInv

LEMMA RcPut == ASSUME RcInv, NEW rid \in RcRid, NEW rc \in RcRecord, put_rc(rid, rc) PROVE RcInv'
<1> DEFINE job == [r \in {rid} |-> rc]
<1>1. RcType /\ RcHashed /\ \A r \in RcRid : RcFollows(r) BY ZenonT(30) DEF RcInv
<1>2. rc \in RcAny /\ rc # RcNone BY DEF RcAny, RcRecord, RcNone
<1>3. rcMem' = [rcMem EXCEPT ![rid] = rc] /\ rcMem' \in [RcRid -> RcAny]
  BY <1>1, <1>2 DEF put_rc, RcType
<1>4. job \in RcJob
  <2>1. {rid} \in SUBSET RcRid /\ job \in [{rid} -> RcAny] BY <1>2
  <2> QED BY <2>1, Zenon DEF RcJob
<1>5. rcQueue' \in Seq(RcJob) /\ \A r \in RcRid : RcFollows(r)'
  <2>1. rcQueue' = Append(rcQueue, job) /\ rcFile' = rcFile BY DEF put_rc
  <2>2. \A r \in RcRid : rcMem'[r] = IF r \in DOMAIN job THEN job[r] ELSE rcMem[r]
    BY <1>1, <1>3 DEF RcType
  <2> HIDE DEF job
  <2> QED BY <1>1, <1>3, <1>4, <2>1, <2>2, RcQueued, Zenon
<1>6. rcHash' \in [RcRid -> RcAny] /\ RcHashed'
  <2>1. CASE RcSignificant(rcMem[rid], rc)
    <3>1. rcHash' = [rcHash EXCEPT ![rid] = rc]
          /\ rcBucket' = RcXor(RcXor(rcBucket, RcHashOf(rid, rcHash[rid])), RcHashOf(rid, rc))
      BY <2>1 DEF put_rc, update_rc_buckets
    <3>2. rcHash' \in [RcRid -> RcAny] BY <1>1, <1>2, <3>1, Zenon DEF RcType
    <3>3. \A r \in RcRid : RcHashOf(r, rcHash'[r]) = RcHashOf(r, rcMem'[r])
      BY <1>1, <1>3, <3>1, Zenon DEF RcType, RcHashed
    <3>4. RcHashOf(rid, rcHash[rid]) = RcHashOf(rid, rcMem[rid]) BY <1>1, Zenon DEF RcHashed
    <3>5. rcBucket = UNION {RcHashOf(r, rcMem[r]) : r \in RcRid} BY <1>1, ZenonT(30) DEF RcHashed
    <3>6. rcMem[rid] = RcNone \/ rcMem[rid].c # rc.c BY <2>1 DEF RcSignificant
    <3>7. rcBucket' = UNION {RcHashOf(r, rcMem'[r]) : r \in RcRid}
      <4>1. ASSUME NEW x PROVE x \in rcBucket' <=> \E r \in RcRid : x \in RcHashOf(r, rcMem'[r])
        <5> DEFINE old == RcHashOf(rid, rcMem[rid])
                   new == RcHashOf(rid, rc)
        <5>1. x \in rcBucket <=> \E r \in RcRid : x \in RcHashOf(r, rcMem[r]) BY <3>5
        <5>2. \A r \in RcRid : RcHashOf(r, rcMem'[r]) = IF r = rid THEN new ELSE RcHashOf(r, rcMem[r])
          BY <1>1, <1>3 DEF RcType
        <5>3. \A r \in RcRid : r # rid /\ x \in RcHashOf(r, rcMem[r]) => x \notin old /\ x \notin new
          BY DEF RcHashOf
        <5>4. ~(x \in old /\ x \in new) BY <1>2, <3>6 DEF RcHashOf
        <5>5. x \in old => x \in rcBucket BY <5>1
        <5>6. x \in rcBucket' <=> (x \in rcBucket /\ x \notin old) \/ x \in new
          <6>1. x \in new => x \notin rcBucket \/ x \in old BY <5>1, <5>3
          <6> HIDE DEF old, new
          <6>2. rcBucket' = RcXor(RcXor(rcBucket, old), new) BY <3>1, <3>4 DEF old, new
          <6> QED BY <5>4, <5>5, <6>1, <6>2, Zenon DEF RcXor
        <5> HIDE DEF old, new
        <5>7. x \in old <=> x \in RcHashOf(rid, rcMem[rid]) BY Zenon DEF old
        <5> QED BY <5>1, <5>2, <5>3, <5>6, <5>7
      <4> QED BY <4>1, ZenonT(30)
    <3> QED BY <3>2, <3>3, <3>7, Zenon DEF RcHashed
  <2>2. CASE ~RcSignificant(rcMem[rid], rc)
    <3>1. rcHash' = rcHash /\ rcBucket' = rcBucket BY <2>2 DEF put_rc
    <3>2. \A r \in RcRid : RcHashOf(r, rcMem'[r]) = RcHashOf(r, rcMem[r])
      BY <1>1, <1>2, <1>3, <2>2, ZenonT(30) DEF RcSignificant, RcHashOf, RcType
    <3>3. UNION {RcHashOf(r, rcMem'[r]) : r \in RcRid} = UNION {RcHashOf(r, rcMem[r]) : r \in RcRid}
      BY <3>2
    <3> QED BY <1>1, <3>1, <3>2, <3>3 DEF RcHashed, RcType
  <2> QED BY <2>1, <2>2
<1>7. rcFile' \in [RcRid -> RcAny] BY <1>1 DEF put_rc, RcType
<1>8. RcType' BY <1>3, <1>5, <1>6, <1>7, ZenonT(30) DEF RcType
<1> QED BY <1>5, <1>6, <1>8 DEF RcInv

LEMMA RcPurge == ASSUME RcInv, purge_rcs_relay PROVE RcInv'
<1> DEFINE gone == {r \in RcRid : rcMem[r] # RcNone /\
                    (RcExpired(rcMem[r]) \/ (rcKnown # {} /\ r \notin rcKnown))}
           job == [r \in gone |-> RcNone]
<1>1. RcType /\ RcHashed /\ \A r \in RcRid : RcFollows(r) BY Zenon DEF RcInv
<1>2. /\ rcMem' = [r \in RcRid |-> IF r \in gone THEN RcNone ELSE rcMem[r]]
      /\ rcHash' = [r \in RcRid |-> IF r \in gone THEN RcNone ELSE rcHash[r]]
      /\ rcBucket' = RcXor(rcBucket, UNION {RcHashOf(r, rcHash[r]) : r \in gone})
      /\ rcQueue' = Append(rcQueue, job) /\ rcFile' = rcFile
  BY Zenon DEF purge_rcs_relay, RcRemoval
<1>3. RcNone \in RcAny BY DEF RcAny
<1>4. gone \subseteq RcRid OBVIOUS
<1> HIDE DEF gone
<1>5. job \in RcJob BY <1>3, <1>4 DEF RcJob
<1>6. rcMem' \in [RcRid -> RcAny] /\ rcHash' \in [RcRid -> RcAny] BY <1>1, <1>2, <1>3, Zenon DEF RcType
<1>7. \A r \in RcRid : rcMem'[r] = IF r \in DOMAIN job THEN job[r] ELSE rcMem[r] BY <1>2, Zenon
<1>8. rcQueue' \in Seq(RcJob) /\ \A r \in RcRid : RcFollows(r)'
  <2> HIDE DEF job
  <2> QED BY <1>1, <1>2, <1>5, <1>6, <1>7, RcQueued, Zenon
<1>9. RcHashed'
  <2>1. \A r \in RcRid : RcHashOf(r, rcHash'[r]) = RcHashOf(r, rcMem'[r])
    BY <1>1, <1>2, Zenon DEF RcHashed
  <2>2. \A r \in gone : RcHashOf(r, rcHash[r]) = RcHashOf(r, rcMem[r]) BY <1>1, <1>4, Zenon DEF RcHashed
  <2>3. rcBucket = UNION {RcHashOf(r, rcMem[r]) : r \in RcRid} BY <1>1, ZenonT(30) DEF RcHashed
  <2>4. ASSUME NEW x PROVE x \in rcBucket' <=> \E r \in RcRid : x \in RcHashOf(r, rcMem'[r])
    <3>1. x \in rcBucket <=> \E r \in RcRid : x \in RcHashOf(r, rcMem[r]) BY <2>3
    <3>2. x \in UNION {RcHashOf(r, rcHash[r]) : r \in gone}
             <=> \E r \in gone : x \in RcHashOf(r, rcMem[r]) BY <2>2
    <3>3. \A q, r \in RcRid : x \in RcHashOf(q, rcMem[q]) /\ x \in RcHashOf(r, rcMem[r]) => q = r
      BY DEF RcHashOf
    <3>4. \A r \in RcRid : RcHashOf(r, rcMem'[r]) = IF r \in gone THEN {} ELSE RcHashOf(r, rcMem[r])
      BY <1>2, Zenon DEF RcHashOf
    <3> QED BY <1>2, <1>4, <3>1, <3>2, <3>3, <3>4 DEF RcXor
  <2> QED BY <2>1, <2>4, Zenon DEF RcHashed
<1> QED BY <1>1, <1>2, <1>6, <1>8, <1>9 DEF RcInv, RcType

LEMMA RcDiskStep == ASSUME RcInv, RcDisk PROVE RcInv'
<1> DEFINE head == Head(rcQueue)
<1>1. RcType /\ RcHashed /\ \A r \in RcRid : RcFollows(r) BY ZenonT(30) DEF RcInv
<1>2. /\ rcQueue # << >> /\ rcQueue \in Seq(RcJob) /\ rcQueue' = Tail(rcQueue)
      /\ rcMem' = rcMem /\ rcHash' = rcHash /\ rcBucket' = rcBucket
      /\ rcFile' = [r \in RcRid |-> IF r \in DOMAIN head THEN head[r] ELSE rcFile[r]]
  BY ZenonT(30), <1>1 DEF RcDisk, RcType
<1>3. head = rcQueue[1] /\ head \in RcJob /\ rcQueue' \in Seq(RcJob) BY <1>2
<1>4. Len(rcQueue) \in Nat \ {0} /\ Len(rcQueue') = Len(rcQueue) - 1 BY <1>2
<1>5. \A i \in 1..Len(rcQueue') : rcQueue'[i] = rcQueue[i + 1] BY <1>2
<1> HIDE DEF head
<1>6. rcFile' \in [RcRid -> RcAny]
  <2>1. PICK d \in SUBSET RcRid : head \in [d -> RcAny] BY <1>3, Zenon DEF RcJob
  <2>2. \A r \in DOMAIN head : head[r] \in RcAny BY <2>1
  <2> QED BY <1>1, <1>2, <2>2 DEF RcType
<1>7. ASSUME NEW r \in RcRid PROVE RcFollows(r)'
  <2>1. RcFollows(r) BY <1>1
  <2>2. ASSUME NEW i \in RcJobs(r)' PROVE i + 1 \in RcJobs(r) BY <1>4, <1>5 DEF RcJobs
  <2>3. ASSUME NEW i \in RcJobs(r), i # 1 PROVE i - 1 \in RcJobs(r)'
    <3>1. i - 1 \in 1..Len(rcQueue') /\ i \in Nat BY <1>4, <2>3 DEF RcJobs
    <3>2. rcQueue'[i - 1] = rcQueue[i] BY <1>5, <3>1
    <3> QED BY <2>3, <3>1, <3>2 DEF RcJobs
  <2>4. 1 \in RcJobs(r) <=> r \in DOMAIN head BY SMTT(30), <1>3, <1>4 DEF RcJobs
  <2>5. rcFile'[r] = IF r \in DOMAIN head THEN head[r] ELSE rcFile[r] BY <1>2
  <2>6. CASE RcJobs(r)' = {}
    <3>1. \A i \in RcJobs(r) : i = 1 BY <2>3, <2>6, ZenonT(30)
    <3>2. CASE r \in DOMAIN head
      <4>1. \A j \in RcJobs(r) : j <= 1 BY <3>1
      <4>2. rcQueue[1][r] = rcMem[r] BY <2>1, <2>4, <3>2, <4>1, ZenonT(30) DEF RcFollows
      <4> QED BY <1>2, <1>3, <2>5, <2>6, <3>2, <4>2 DEF RcFollows
    <3>3. CASE r \notin DOMAIN head
      <4>1. RcJobs(r) = {} BY <2>4, <3>1, <3>3, Zenon
      <4> QED BY <1>2, <2>1, <2>5, <2>6, <3>3, <4>1 DEF RcFollows
    <3> QED BY <3>2, <3>3
  <2>7. CASE RcJobs(r)' # {}
    <3>1. ASSUME NEW i \in RcJobs(r)', \A j \in RcJobs(r)' : j <= i PROVE rcQueue'[i][r] = rcMem'[r]
      <4>1. i \in 1..Len(rcQueue') /\ i \in Nat BY <1>4 DEF RcJobs
      <4>2. ASSUME NEW j \in RcJobs(r) PROVE j <= i + 1
        <5>1. j \in Nat BY <1>4 DEF RcJobs
        <5>2. j # 1 => j - 1 <= i BY <2>3, <3>1, Zenon
        <5> QED BY <4>1, <5>1, <5>2
      <4>3. rcQueue[i + 1][r] = rcMem[r] BY <2>1, <2>2, <4>2, ZenonT(30) DEF RcFollows
      <4> QED BY <1>2, <1>5, <4>1, <4>3
    <3> QED BY <2>7, <3>1, ZenonT(30) DEF RcFollows
  <2> QED BY <2>6, <2>7
<1>8. RcHashed' BY <1>1, <1>2 DEF RcHashed
<1> QED BY <1>1, <1>2, <1>3, <1>6, <1>7, <1>8 DEF RcInv, RcType

LEMMA RcRestarted ==
  ASSUME RcInv, NEW done \in SUBSET RcRid, NEW torn \in SUBSET RcRid, RcRestart(done, torn)
  PROVE  RcInv'
<1> DEFINE left == [r \in RcRid |->
            IF rcQueue # << >> /\ r \in DOMAIN Head(rcQueue)
            THEN IF r \in torn /\ Head(rcQueue)[r] # RcNone THEN RcTorn
                 ELSE IF r \in done THEN Head(rcQueue)[r] ELSE rcFile[r]
            ELSE rcFile[r]]
           loaded == [r \in RcRid |-> IF left[r] \in {RcNone, RcTorn} \/ RcExpired(left[r]) THEN RcNone ELSE left[r]]
<1>1. RcType BY DEF RcInv
<1>2. /\ rcMem' = loaded /\ rcFile' = loaded /\ rcHash' = loaded /\ rcQueue' = << >>
      /\ rcBucket' = UNION {RcHashOf(r, loaded[r]) : r \in RcRid}
  BY Zenon DEF RcRestart
<1>3. \A r \in RcRid : left[r] \in RcAny \cup {RcTorn}
  <2>1. ASSUME rcQueue # << >>, NEW r \in DOMAIN Head(rcQueue) PROVE Head(rcQueue)[r] \in RcAny
    <3>1. Head(rcQueue) \in RcJob BY <1>1, <2>1 DEF RcType
    <3>2. PICK d \in SUBSET RcRid : Head(rcQueue) \in [d -> RcAny] BY <3>1 DEF RcJob
    <3> QED BY <2>1, <3>2
  <2>2. \A r \in RcRid : rcFile[r] \in RcAny BY <1>1 DEF RcType
  <2> QED BY <2>1, <2>2, ZenonT(30)
<1>4. RcNone \in RcAny BY DEF RcAny
<1>5. loaded \in [RcRid -> RcAny]
  <2> HIDE DEF left
  <2> QED BY <1>3, <1>4, ZenonT(30)
<1> HIDE DEF loaded
<1>6. rcQueue' \in Seq(RcJob) /\ \A r \in RcRid : RcJobs(r)' = {} BY <1>2 DEF RcJobs
<1>7. RcType' BY <1>2, <1>5, <1>6, ZenonT(30) DEF RcType
<1>8. \A r \in RcRid : RcFollows(r)' BY <1>2, <1>6 DEF RcFollows
<1>9. RcHashed' BY <1>2 DEF RcHashed
<1> QED BY <1>7, <1>8, <1>9 DEF RcInv

LEMMA RcStep == ASSUME RcInv, [RcNext]_rcvars PROVE RcInv'
<1>1. CASE \E rid \in RcRid, rc \in RcRecord : put_rc(rid, rc) BY <1>1, RcPut
<1>2. CASE purge_rcs_relay BY <1>2, RcPurge
<1>3. CASE RcDisk BY <1>3, RcDiskStep
<1>4. CASE \E done, torn \in SUBSET RcRid : RcRestart(done, torn) BY <1>4, RcRestarted
<1>5. ASSUME UNCHANGED <<rcMem, rcHash, rcBucket, rcQueue, rcFile>> PROVE RcInv'
  <2>1. RcType' BY <1>5, ZenonT(30) DEF RcInv, RcType
  <2>2. RcHashed' BY <1>5 DEF RcInv, RcHashed
  <2>3. \A r \in RcRid : RcJobs(r)' = RcJobs(r) BY <1>5, ZenonT(30) DEF RcJobs
  <2>4. \A r \in RcRid : RcFollows(r)' BY <1>5, <2>3 DEF RcInv, RcFollows
  <2> QED BY <2>1, <2>2, <2>4, Zenon DEF RcInv
<1>6. CASE \E list \in SUBSET RcRid : set_registered_relays(list) BY <1>5, <1>6 DEF set_registered_relays
<1>7. CASE RcTime BY <1>5, <1>7 DEF RcTime
<1>8. CASE UNCHANGED rcvars BY <1>5, <1>8 DEF rcvars
<1> QED BY <1>1, <1>2, <1>3, <1>4, <1>6, <1>7, <1>8 DEF RcNext

(***************************************************************************)
(* For any relays and any number of queued jobs: the files follow the      *)
(* memory (put_rc, remove_many_from_disk_async, load_from_disk).           *)
(***************************************************************************)
THEOREM FilesFollow == RcSpec => []DiskFollows
<1>1. RcInv => DiskFollows BY DEF RcInv, DiskFollows, RcFollows, RcJobs
<1> QED BY <1>1, RcInitInv, RcStep, PTL DEF RcSpec

(***************************************************************************)
(* For any relays: the hash of a bucket is that of the RCs in memory, with *)
(* only significant changes hashed (update_rc_buckets, put_rc,             *)
(* remove_rcs_if, load_from_disk).                                         *)
(***************************************************************************)
THEOREM BucketsCurrent == RcSpec => []BucketIsCurrent
<1>1. RcInv => BucketIsCurrent BY DEF RcInv, RcHashed, BucketIsCurrent
<1> QED BY <1>1, RcInitInv, RcStep, PTL DEF RcSpec
=============================================================================
