--------------------------- MODULE OutboundRelay ---------------------------
(***************************************************************************)
(* The paths of an outbound session to a relay: OutboundSession and        *)
(* OutboundRelaySession of session/session.cpp on top of PathHandler.      *)
(* Paths are built to the relay, one of them is current, old spare paths   *)
(* are closed, and the current path is replaced once it is dead.           *)
(***************************************************************************)
EXTENDS PathHandler

CONSTANTS target_paths, None

ASSUME OutboundRelayAssumption == target_paths \in Nat \ {0} /\ None \notin Path

VARIABLES
    current,        \* _current_path
    dead_path,      \* _dead_path
    edge_connected  \* router.is_edge_connected()

svars == <<current, dead_path, edge_connected>>
vars == <<phvars, svars>>

\* The type of the state.
OutboundRelay_TypeOK ==
    /\ PathHandler_TypeOK
    /\ current \in Path \cup {None}
    /\ dead_path \in BOOLEAN /\ edge_connected \in BOOLEAN

Init ==
    /\ PHInit
    /\ current = None /\ dead_path = TRUE /\ edge_connected \in BOOLEAN

\* Variant: a dead path still counts as a current path.
NeedsPath_if_null == current = None

NeedsPath == current = None \/ current \in dead

\* A session's pointer keeps a path object in use.
Unused == Fresh \ {current}

-----------------------------------------------------------------------------
\* The spare paths close_old_paths drops, for some order of the hash map: with a
\* good path it closes the fair ones it came across before the first good one.
close_old_paths ==
    LET spare == active_paths \ {current}
        poor == {p \in spare : life[p] = "poor"}
        fair == {p \in spare : life[p] = "fair"}
    IN IF \E p \in spare : life[p] = "good"
       THEN {poor \cup F : F \in SUBSET fair}
       ELSE {poor}

\* The paths update_paths starts, and whether the loop ended at one that could not be
\* sent: it ends at the first build that does not start.
builds(left) ==
    LET needed == target_paths - num_paths(left)
    IN IF needed <= 0 \/ cooldown \/ ~running
       THEN {<<{}, FALSE>>}
       ELSE {b \in (SUBSET Unused) \X BOOLEAN :
                Cardinality(b[1]) + (IF b[2] THEN 1 ELSE 0) <= needed}

\* ping_paths pings the active paths whose next ping is due.
pingable(left) == {p \in left : is_active(p) /\ pings[p] < MaxPings}

\* OutboundSession::tick, while the session is open and the relay known.
session_tick ==
    \E old \in close_old_paths :
        LET gone == old \cup expire_paths
            left == paths \ gone
        IN /\ IF edge_connected
              THEN \E b \in builds(left), S \in SUBSET pingable(left) :
                        Update(gone, b[1], b[2], S, [p \in b[1] |-> "good"])
              ELSE Update(gone, {}, FALSE, {}, [p \in {} |-> "good"])
           /\ UNCHANGED svars

\* select_new_current on the paths of the next state: a good path, else a fair one.
select_new_current ==
    LET usable(l) == {p \in paths' : p \in established' /\ life'[p] = l}
        choices == IF usable("good") # {} THEN usable("good") ELSE usable("fair")
    IN IF choices = {}
       THEN current' = None /\ dead_path' = TRUE
       ELSE current' \in choices /\ dead_path' = FALSE

on_path_build_success(p) ==
    /\ path_build_succeeded(p)
    /\ IF NeedsPath THEN select_new_current ELSE UNCHANGED <<current, dead_path>>
    /\ UNCHANGED edge_connected

on_path_build_failure(p) == path_build_failed(p) /\ UNCHANGED svars

late_build_response(p) == path_build_ignored(p) /\ UNCHANGED svars

path_ping_response(p, how) == ping_result(p, how) /\ UNCHANGED svars

\* check_dead, at every data or control message to send.
send_path_message ==
    /\ alive /\ NeedsPath
    /\ current' = None /\ dead_path' = TRUE
    /\ UNCHANGED <<phvars, edge_connected>>

\* Variant: the paths are forgotten and not dropped.
recv_close_forgets ==
    /\ alive
    /\ paths' = {}
    /\ UNCHANGED <<ctx, established, dead, pending, life, pings, missed, failures, waiting, running, alive, svars>>

recv_close == invalidate_paths /\ UNCHANGED svars

\* SessionEndpoint drops the closed session.
session_dropped == destroy /\ current' = None /\ UNCHANGED <<dead_path, edge_connected>>

\* Edge connections come and go.
edge_change ==
    /\ edge_connected' = ~edge_connected
    /\ UNCHANGED <<phvars, current, dead_path>>

path_ageing(p) == p \in paths \cup ctx \cup {current} /\ ageing(p) /\ UNCHANGED svars

retry_delay_over == backoff_over /\ UNCHANGED svars

Next ==
    \/ session_tick \/ send_path_message \/ recv_close \/ session_dropped
    \/ edge_change \/ retry_delay_over
    \/ \E p \in Path :
        \/ on_path_build_success(p) \/ on_path_build_failure(p) \/ late_build_response(p)
        \/ path_ageing(p)
        \/ \E how \in {"ok", "timeout", "error"} : path_ping_response(p, how)

Spec == Init /\ [][Next]_vars

\* The timers run: the session is ticked, every request is answered or times out, and
\* time passes.  The network works: hop selection keeps succeeding now and then, and so
\* do builds, in a fraction of a path's lifetime.
FairSpec ==
    /\ Spec
    /\ WF_vars(session_tick) /\ WF_vars(retry_delay_over)
    /\ SF_vars(session_tick /\ pending' # pending)
    /\ SF_vars(\E p \in Path : life[p] = "good" /\ on_path_build_success(p))
    /\ \A p \in Path :
        /\ WF_vars(on_path_build_success(p) \/ on_path_build_failure(p))
        /\ WF_vars(\E how \in {"ok", "timeout", "error"} : path_ping_response(p, how))
        /\ WF_vars(path_ageing(p))

-----------------------------------------------------------------------------
(***************************************************************************)
(* A session implements the contract of PathHandler, so that what is       *)
(* proved of the contract holds of the session.                            *)
(***************************************************************************)
KeepsHandlerContract == PHSpec

(***************************************************************************)
(* The current path is never a stranger: while the session exists its      *)
(* current path is one the path context still routes to it, or one that is *)
(* marked dead so that the next use discards it.  (_current_path keeps the *)
(* object alive, so nothing else would reveal that it was dropped.)        *)
(***************************************************************************)
CurrentIsRoutedOrDead ==
    alive /\ current # None => current \in dead \/ current \in ctx \cap paths \cap established

(***************************************************************************)
(* The session heals itself: while it is open and the client connected, it *)
(* has, again and again, a current path that works, whatever paths die and *)
(* even if nobody sends anything.                                          *)
(***************************************************************************)
SessionHeals ==
    <>[](alive /\ edge_connected) => []<>(current \in active_paths \ dead)
=============================================================================
