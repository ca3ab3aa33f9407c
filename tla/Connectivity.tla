---------------------------- MODULE Connectivity ----------------------------
(***************************************************************************)
(* The connectivity state of a client and the application callbacks that   *)
(* report it (router/router.cpp): connections to edge relays come and go   *)
(* (link/endpoint.cpp), inbound paths are built and expire                 *)
(* (handlers/session.cpp over path/path_handler.cpp), and callbacks are    *)
(* registered at any time.  Each handler is one job of the event loop.     *)
(***************************************************************************)
EXTENDS Integers, FiniteSets

CONSTANTS
    edge_connections,  \* [paths]:edge-connections
    MaxInbound,        \* bound: established inbound paths
    Callback           \* the callbacks an application registers

ASSUME ConnectivityAssumption ==
    /\ edge_connections \in Nat \ {0}
    /\ MaxInbound \in Nat \ {0}
    /\ Callback \subseteq [on : {"connected", "disconnected"}, with_paths : BOOLEAN, persistent : BOOLEAN]

VARIABLES
    conns,       \* num_relay_conns()
    inbound,     \* established paths in _paths of the session endpoint
    is_edge_connected, has_established_paths,
    on_edge_connected, on_edge_disconnected, on_path_connected, on_path_disconnected,
    registered,  \* the callbacks registered so far
    fired,       \* the callbacks called by the last handler
    called       \* those called by the handlers before it

lists == <<on_edge_connected, on_edge_disconnected, on_path_connected, on_path_disconnected>>
vars == <<conns, inbound, is_edge_connected, has_established_paths, lists, registered, fired, called>>

is_path_connected == is_edge_connected /\ has_established_paths

\* The type of the state.
Connectivity_TypeOK ==
    /\ conns \in 0..edge_connections /\ inbound \in 0..MaxInbound
    /\ is_edge_connected \in BOOLEAN /\ has_established_paths \in BOOLEAN
    /\ on_edge_connected \subseteq registered /\ on_edge_disconnected \subseteq registered
    /\ on_path_connected \subseteq registered /\ on_path_disconnected \subseteq registered
    /\ fired \subseteq registered /\ called \subseteq registered /\ registered \subseteq Callback

Init ==
    /\ conns = 0 /\ inbound = 0
    /\ is_edge_connected = FALSE /\ has_established_paths = FALSE
    /\ on_edge_connected = {} /\ on_edge_disconnected = {}
    /\ on_path_connected = {} /\ on_path_disconnected = {}
    /\ registered = {} /\ fired = {} /\ called = {}

-----------------------------------------------------------------------------
\* process_on_conn_callbacks calls a whole list.  It is given a copy, so that erasing
\* the one-time callbacks leaves the list itself as it was.
process_on_conn_callbacks(S) ==
    /\ fired' = S
    /\ called' = called \cup fired
    /\ UNCHANGED <<lists, registered>>

on_connected(c) ==
    LET fire_now == is_edge_connected /\ (has_established_paths \/ ~c.with_paths)
        kept == IF c.persistent \/ ~fire_now THEN {c} ELSE {}
    IN /\ c \notin registered /\ c.on = "connected"
       /\ on_path_connected' = on_path_connected \cup {k \in kept : k.with_paths}
       /\ on_edge_connected' = on_edge_connected \cup {k \in kept : ~k.with_paths}
       /\ registered' = registered \cup {c}
       /\ fired' = IF fire_now THEN {c} ELSE {}
       /\ called' = called \cup fired
       /\ UNCHANGED <<conns, inbound, is_edge_connected, has_established_paths,
                      on_edge_disconnected, on_path_disconnected>>

on_disconnected(c) ==
    LET fire_now == ~is_edge_connected \/ (c.with_paths /\ ~has_established_paths)
        kept == IF c.persistent \/ ~fire_now THEN {c} ELSE {}
    IN /\ c \notin registered /\ c.on = "disconnected"
       /\ on_path_disconnected' = on_path_disconnected \cup {k \in kept : k.with_paths}
       /\ on_path_connected' = on_path_connected \cup {k \in kept : ~k.with_paths}
       /\ registered' = registered \cup {c}
       /\ fired' = IF fire_now THEN {c} ELSE {}
       /\ called' = called \cup fired
       /\ UNCHANGED <<conns, inbound, is_edge_connected, has_established_paths,
                      on_edge_connected, on_edge_disconnected>>

\* Variant: the path callbacks wait for the next path.
on_edge_conn_change_no_path(n) ==
    /\ conns' = n
    /\ is_edge_connected' = (n > 0 /\ (is_edge_connected \/ n * 3 >= edge_connections * 2))
    /\ process_on_conn_callbacks(
            IF is_edge_connected /\ ~is_edge_connected' THEN on_path_disconnected \cup on_edge_disconnected
            ELSE IF ~is_edge_connected /\ is_edge_connected' THEN on_edge_connected
            ELSE {})
    /\ UNCHANGED <<inbound, has_established_paths>>

\* on_edge_conn_change, once the number of edge connections has become n.
on_edge_conn_change(n) ==
    LET lost == n = 0 /\ is_edge_connected
        gained == ~is_edge_connected /\ n * 3 >= edge_connections * 2
    IN /\ conns' = n
       /\ is_edge_connected' = ((is_edge_connected /\ ~lost) \/ gained)
       /\ process_on_conn_callbacks(
            IF lost THEN on_path_disconnected \cup on_edge_disconnected
            ELSE IF gained THEN on_edge_connected \cup (IF has_established_paths THEN on_path_connected ELSE {})
            ELSE {})
       /\ UNCHANGED <<inbound, has_established_paths>>

edge_established == conns < edge_connections /\ on_edge_conn_change(conns + 1)

\* Variant: a close is handled twice.
edge_closed_again == on_edge_conn_change(conns - 1)

edge_closed == conns > 0 /\ on_edge_conn_change(conns - 1)

\* Variant: the loss of the last path is recorded only while edges are connected.
on_inbound_path_change_late(connected) ==
    /\ has_established_paths' = (connected \/ (has_established_paths /\ ~is_edge_connected))
    /\ process_on_conn_callbacks(
            IF connected = has_established_paths \/ ~is_edge_connected THEN {}
            ELSE IF connected THEN on_path_connected ELSE on_path_disconnected)

on_inbound_path_change(connected) ==
    /\ has_established_paths' = connected
    /\ process_on_conn_callbacks(
            IF connected = has_established_paths \/ ~is_edge_connected THEN {}
            ELSE IF connected THEN on_path_connected ELSE on_path_disconnected)

\* SessionEndpoint::on_path_build_success.
inbound_path_built ==
    /\ inbound < MaxInbound
    /\ inbound' = inbound + 1
    /\ on_inbound_path_change(TRUE)
    /\ UNCHANGED <<conns, is_edge_connected>>

\* expire_paths of the session endpoint dropped some paths, k of them established.
inbound_paths_expired ==
    /\ \E k \in 0..inbound : inbound' = inbound - k
    /\ IF inbound' = 0
       THEN on_inbound_path_change(FALSE)
       ELSE process_on_conn_callbacks({}) /\ UNCHANGED has_established_paths
    /\ UNCHANGED <<conns, is_edge_connected>>

Next ==
    \/ edge_established \/ edge_closed \/ inbound_path_built \/ inbound_paths_expired
    \/ \E c \in Callback : on_connected(c) \/ on_disconnected(c)

Spec == Init /\ [][Next]_vars

-----------------------------------------------------------------------------
(***************************************************************************)
(* The flag behind is_path_connected is exact: it is set exactly while the *)
(* session endpoint holds an established inbound path, whatever order      *)
(* builds, expiries and edge losses come in.                               *)
(***************************************************************************)
PathFlagExact == has_established_paths <=> inbound > 0

\* The state a callback is about holds.
ConnectedFor(c) == is_edge_connected /\ (has_established_paths \/ ~c.with_paths)

(***************************************************************************)
(* A stored "connected" callback is called by a handler exactly when the   *)
(* state it is about is entered: no transition is missed and none is       *)
(* reported twice, whichever of edges and paths comes last.                *)
(***************************************************************************)
ConnectedIsReported ==
    [][ \A c \in registered \cap (on_edge_connected \cup on_path_connected) :
            c.on = "connected" => (c \in fired' <=> ~ConnectedFor(c) /\ ConnectedFor(c)') ]_vars

(***************************************************************************)
(* No loss of path connectivity goes unreported: every stored              *)
(* "disconnected" callback with paths is called by the handler that loses  *)
(* the last edge or the last path.                                         *)
(***************************************************************************)
PathLossIsReported ==
    [][ is_path_connected /\ ~is_path_connected' => on_path_disconnected \subseteq fired' ]_vars

(***************************************************************************)
(* The doc of the callback lists says "The bool is whether the callback is *)
(* persistent (true) or one-time (false)": a one-time callback is called   *)
(* at most once.                                                           *)
(***************************************************************************)
OneTimeIsOnce == \A c \in fired : c.persistent \/ c \notin called

(***************************************************************************)
(* The doc of SessionRouter::on_disconnected says that without with_path   *)
(* "this tracks edge disconnection": such a callback is not called by a    *)
(* handler that leaves the client connected to its edges.                  *)
(***************************************************************************)
EdgeLossOnly == \A c \in fired : c.on = "disconnected" /\ ~c.with_paths => ~is_edge_connected
=============================================================================
