---------------------------- MODULE PathHandler ----------------------------
(***************************************************************************)
(* The path bookkeeping that sessions and the session endpoint inherit:    *)
(* path/path_handler.cpp with path/path_context.cpp (the process-wide map  *)
(* that routes incoming traffic to a path) and the ping part of            *)
(* path/path.cpp.                                                          *)
(*                                                                         *)
(* This is the contract of the base class: WHICH paths are dropped and how *)
(* many are built is left to the subclass, so an update may drop any paths *)
(* and start any builds that the base class permits.  OutboundRelay        *)
(* implements it.                                                          *)
(*                                                                         *)
(* Remaining lifetimes are abstracted to how the code classifies them: at  *)
(* least acceptable-expiry ("good"), at least min-expiry ("fair"), less    *)
(* ("poor"), or over ("expired").                                          *)
(***************************************************************************)
EXTENDS Integers, FiniteSets

CONSTANTS
    Path,               \* bound: path objects in use at a time
    BACKOFF_THRESHOLD,  \* consecutive failures before builds are delayed
    max_missed_pings,   \* consecutive missed pings a path survives
    MaxPings            \* bound: pings of a path under way at a time

ASSUME PathHandlerAssumption ==
    /\ BACKOFF_THRESHOLD \in Nat \ {0}
    /\ max_missed_pings \in Nat
    /\ MaxPings \in Nat

VARIABLES
    paths,        \* _paths
    ctx,          \* PathContext::_path_map, the entries of this handler
    established,  \* is_established()
    dead,         \* is_dead
    pending,      \* path_build requests not answered yet
    life,         \* expires_in(), classified
    pings,        \* path_ping requests not answered yet
    missed,       \* ping_recent_timeouts
    failures,     \* _consecutive_failures, up to BACKOFF_THRESHOLD
    waiting,      \* now < _last_failure + delay
    running,      \* _running
    alive         \* the handler exists: the canary _alive can be locked

phvars == <<paths, ctx, established, dead, pending, life, pings, missed, failures, waiting,
            running, alive>>

Life == {"good", "fair", "poor", "expired"}

\* The type of the state.
PathHandler_TypeOK ==
    /\ paths \subseteq Path /\ ctx \subseteq Path /\ established \subseteq Path
    /\ dead \subseteq Path /\ pending \subseteq Path
    /\ life \in [Path -> Life]
    /\ pings \in [Path -> 0..MaxPings]
    /\ missed \in [Path -> 0..(max_missed_pings + 1)]
    /\ failures \in 0..BACKOFF_THRESHOLD
    /\ waiting \in BOOLEAN /\ running \in BOOLEAN /\ alive \in BOOLEAN

is_expired(p) == life[p] = "expired"

is_active(p) == p \in established /\ ~is_expired(p)

active_paths == {p \in paths : is_active(p)}

num_paths(S) == Cardinality({p \in S : ~is_expired(p)})

cooldown == failures >= BACKOFF_THRESHOLD /\ waiting

\* Objects that nothing refers to: these stand for the next make_shared<Path>.
Fresh == {p \in Path : p \notin paths \cup ctx \cup pending /\ pings[p] = 0}

\* The paths expire_paths drops.
expire_paths == {p \in paths : is_expired(p)}

\* The paths of D that PathContext::drop finds, and marks dead.
drop(D) == D \cap ctx

Counted(n) == IF n < BACKOFF_THRESHOLD THEN n + 1 ELSE n

-----------------------------------------------------------------------------
PHInit ==
    /\ paths = {} /\ ctx = {} /\ established = {} /\ dead = {} /\ pending = {}
    /\ life = [p \in Path |-> "good"]
    /\ pings = [p \in Path |-> 0] /\ missed = [p \in Path |-> 0]
    /\ failures = 0 /\ waiting = FALSE /\ running = TRUE /\ alive = TRUE

\* Variant: drop_path leaves the path in the path context.
Update_context_kept(D, B, refused, S, newlife) ==
    /\ alive
    /\ D \subseteq paths /\ B \subseteq Fresh
    /\ B # {} \/ refused => running /\ ~cooldown
    /\ S \subseteq active_paths \ D
    /\ \A p \in S : pings[p] < MaxPings
    /\ paths' = (paths \ D) \cup B
    /\ established' = established \ B
    /\ pending' = pending \cup B
    /\ UNCHANGED <<ctx, dead, life, missed, pings, failures, waiting, running, alive>>

\* drop_path on every path of D, then the builds: those of B are sent, and one more
\* that cannot be sent is failed on the spot if "refused".  The paths of S are pinged.
Update(D, B, refused, S, newlife) ==
    /\ alive
    /\ D \subseteq paths /\ B \subseteq Fresh
    /\ B # {} \/ refused => running /\ ~cooldown
    /\ S \subseteq active_paths \ D
    /\ \A p \in S : pings[p] < MaxPings
    /\ paths' = (paths \ D) \cup B
    /\ ctx' = ctx \ D
    /\ dead' = (dead \ B) \cup drop(D)
    /\ established' = established \ B
    /\ pending' = pending \cup B
    /\ life' = [p \in Path |-> IF p \in B THEN newlife[p] ELSE life[p]]
    /\ missed' = [p \in Path |-> IF p \in B THEN 0 ELSE missed[p]]
    /\ pings' = [p \in Path |-> IF p \in S THEN pings[p] + 1 ELSE pings[p]]
    /\ failures' = IF refused THEN Counted(failures) ELSE failures
    /\ waiting' = (waiting \/ refused)
    /\ UNCHANGED <<running, alive>>

\* tick: expire_paths, then what update_paths of the subclass does, then the pings.
tick ==
    \E D \in SUBSET paths, B \in SUBSET Fresh, S \in SUBSET active_paths, refused \in BOOLEAN :
        /\ expire_paths \subseteq D
        /\ \E newlife \in [B -> Life] : Update(D, B, refused, S, newlife)

\* update_paths called outside tick.
update_paths ==
    \E D \in SUBSET paths, B \in SUBSET Fresh, refused \in BOOLEAN :
        \E newlife \in [B -> Life] : Update(D, B, refused, {}, newlife)

\* The path_build response handler on success.
path_build_succeeded(p) ==
    /\ alive /\ p \in pending
    /\ pending' = pending \ {p}
    /\ established' = established \cup {p}
    /\ paths' = paths \cup {p} /\ ctx' = ctx \cup {p}
    /\ failures' = 0
    /\ UNCHANGED <<dead, life, pings, missed, waiting, running, alive>>

\* The path_build response handler on an error or a timeout.
path_build_failed(p) ==
    /\ alive /\ p \in pending
    /\ pending' = pending \ {p}
    /\ paths' = paths \ {p} /\ ctx' = ctx \ {p}
    /\ dead' = dead \cup drop({p})
    /\ failures' = Counted(failures) /\ waiting' = TRUE
    /\ UNCHANGED <<established, life, pings, missed, running, alive>>

\* A response whose handler finds the canary dead.
path_build_ignored(p) ==
    /\ ~alive /\ p \in pending
    /\ pending' = pending \ {p}
    /\ UNCHANGED <<paths, ctx, established, dead, life, pings, missed, failures, waiting, running, alive>>

\* Variant: an answer is handled when no ping is under way.
ping_result_unasked(p, how) ==
    /\ pings' = [pings EXCEPT ![p] = @ - 1]
    /\ UNCHANGED <<paths, ctx, established, dead, pending, life, missed, failures, waiting, running, alive>>

\* The answer to a ping: "ok", "timeout" or "error".
ping_result(p, how) ==
    LET missing == how = "timeout" /\ missed[p] < max_missed_pings
    IN /\ pings[p] > 0
       /\ pings' = [pings EXCEPT ![p] = @ - 1]
       /\ missed' = [missed EXCEPT ![p] =
                        IF how = "ok" THEN 0
                        ELSE IF how = "timeout" /\ @ <= max_missed_pings THEN @ + 1 ELSE @]
       /\ life' = [life EXCEPT ![p] = IF how = "ok" \/ missing THEN @ ELSE "expired"]
       /\ UNCHANGED <<paths, ctx, established, dead, pending, failures, waiting, running, alive>>

\* Variant: the path context is cleaned without marking the paths dead.
invalidate_paths_silent ==
    /\ alive
    /\ paths' = {} /\ ctx' = ctx \ paths
    /\ UNCHANGED <<established, dead, pending, life, pings, missed, failures, waiting, running, alive>>

invalidate_paths ==
    /\ alive
    /\ paths' = {} /\ ctx' = ctx \ paths
    /\ dead' = dead \cup drop(paths)
    /\ UNCHANGED <<established, pending, life, pings, missed, failures, waiting, running, alive>>

\* stop() clears _paths and leaves the path context alone.
stop ==
    /\ alive /\ running
    /\ running' = FALSE /\ paths' = {}
    /\ UNCHANGED <<ctx, established, dead, pending, life, pings, missed, failures, waiting, alive>>

\* The handler is destroyed, as a session is once it is closed or replaced.
destroy ==
    /\ alive
    /\ alive' = FALSE /\ paths' = {}
    /\ UNCHANGED <<ctx, established, dead, pending, life, pings, missed, failures, waiting, running>>

Older(l) == CASE l = "good" -> "fair" [] l = "fair" -> "poor" [] OTHER -> "expired"

\* Time passes for a path, or for the backoff.
ageing(p) ==
    /\ ~is_expired(p)
    /\ life' = [life EXCEPT ![p] = Older(@)]
    /\ UNCHANGED <<paths, ctx, established, dead, pending, pings, missed, failures, waiting, running, alive>>

backoff_over ==
    /\ waiting
    /\ waiting' = FALSE
    /\ UNCHANGED <<paths, ctx, established, dead, pending, life, pings, missed, failures, running, alive>>

PHNext ==
    \/ tick \/ update_paths \/ invalidate_paths \/ stop \/ destroy \/ backoff_over
    \/ \E p \in Path :
        \/ path_build_succeeded(p) \/ path_build_failed(p) \/ path_build_ignored(p)
        \/ ageing(p)
        \/ \E how \in {"ok", "timeout", "error"} : ping_result(p, how)

PHSpec == PHInit /\ [][PHNext]_phvars

-----------------------------------------------------------------------------
(***************************************************************************)
(* No build is stuck: a path in _paths is established or its build is      *)
(* still to be answered.  An unanswerable build would count towards the    *)
(* target and suppress its replacement until it expires.                   *)
(***************************************************************************)
NoStuckBuild == paths \subseteq established \cup pending

(***************************************************************************)
(* The two path maps agree: while the handler runs, the path context routes*)
(* traffic to exactly its established paths, so no usable path is deaf and *)
(* no dropped path is still reachable.                                     *)
(***************************************************************************)
ContextAgrees ==
    /\ alive => paths \cap established \subseteq ctx
    /\ alive /\ running => ctx = paths \cap established

(***************************************************************************)
(* is_dead is final: a path marked dead is in neither map, and no response *)
(* can bring it back.                                                      *)
(***************************************************************************)
DeadIsFinal == dead \cap (paths \cup ctx \cup pending) = {}

(***************************************************************************)
(* A path that leaves the path context is marked dead in the same step:    *)
(* holders of the pointer learn it from is_dead alone.                     *)
(***************************************************************************)
LeavingContextIsDeath == [][\A p \in ctx : p \notin ctx' => p \in dead']_phvars

(***************************************************************************)
(* The doc of Path::is_dead says it "Will be true when the path has been   *)
(* discarded": an established path that leaves _paths is dead.             *)
(***************************************************************************)
DiscardedIsDead == [][\A p \in paths \cap established : p \notin paths' => p \in dead']_phvars
=============================================================================
