---------------------------- MODULE PathProofs -----------------------------
(***************************************************************************)
(* What every path handler guarantees, for any number of paths, any        *)
(* backoff threshold and any ping limits (PathHandler); that an outbound   *)
(* relay session implements this contract, and that its current path is    *)
(* always routed or known to be dead (OutboundRelay); the hops of a path   *)
(* (HopSelection); and the paths of a session to another client, which     *)
(* meet the remote's (ClientPaths).                                        *)
(***************************************************************************)
EXTENDS OutboundRelay, PathHandler, HopSelection, ClientPaths, FiniteSetTheorems,
        WellFoundedInduction, TLAPS

\* The strengthening that makes the invariants inductive: only established paths are
\* in the path context, a build under way is not established, and a handler that is
\* gone has no paths.
IInv ==
    /\ PathHandler_TypeOK
    /\ NoStuckBuild
    /\ ContextAgrees
    /\ DeadIsFinal
    /\ ctx \subseteq established
    /\ pending \cap established = {}
    /\ ~alive => paths = {}

\* Every effect of an update but the guards on when builds may start.
LEMMA UpdateKeepsIInv ==
    ASSUME IInv, NEW D, NEW B, NEW refused, NEW S, NEW newlife \in [B -> Life],
           Update(D, B, refused, S, newlife)
    PROVE  IInv'
<1> USE PathHandlerAssumption
<1>1. PathHandler_TypeOK'
    <2>1. life' \in [Path -> Life]
        BY DEF IInv, PathHandler_TypeOK, Update
    <2>2. missed' \in [Path -> 0..(max_missed_pings + 1)]
        BY DEF IInv, PathHandler_TypeOK, Update
    <2>3. pings' \in [Path -> 0..MaxPings]
        <3>1. \A p \in Path : p \in S => pings[p] + 1 \in 0..MaxPings
            BY DEF IInv, PathHandler_TypeOK, Update
        <3> QED
            BY <3>1 DEF IInv, PathHandler_TypeOK, Update
    <2>4. failures' \in 0..BACKOFF_THRESHOLD
        BY DEF IInv, PathHandler_TypeOK, Update, Counted
    <2>5. B \subseteq Path
        BY DEF Update, Fresh
    <2> QED
        BY <2>1, <2>2, <2>3, <2>4, <2>5 DEF IInv, PathHandler_TypeOK, Update, drop
<1>2. NoStuckBuild'
    BY DEF IInv, NoStuckBuild, Update, Fresh
<1>3. ContextAgrees'
    BY DEF IInv, ContextAgrees, Update, Fresh
<1>4. DeadIsFinal'
    BY DEF IInv, DeadIsFinal, Update, drop, Fresh
<1>5. (ctx \subseteq established /\ pending \cap established = {} /\ (~alive => paths = {}))'
    BY DEF IInv, Update, Fresh
<1> QED
    BY <1>1, <1>2, <1>3, <1>4, <1>5 DEF IInv

LEMMA NextKeepsIInv == IInv /\ [PHNext]_phvars => IInv'
<1> SUFFICES ASSUME IInv, [PHNext]_phvars PROVE IInv'
    OBVIOUS
<1> USE PathHandlerAssumption
<1>1. CASE tick
    BY <1>1, UpdateKeepsIInv DEF tick
<1>2. CASE update_paths
    BY <1>2, UpdateKeepsIInv DEF update_paths
<1>3. CASE invalidate_paths
    BY <1>3 DEF invalidate_paths, drop, IInv, PathHandler_TypeOK, NoStuckBuild, ContextAgrees, DeadIsFinal
<1>4. CASE stop
    BY <1>4, Zenon DEF stop, IInv, PathHandler_TypeOK, NoStuckBuild, ContextAgrees, DeadIsFinal
<1>5. CASE destroy
    BY <1>5, Zenon DEF destroy, IInv, PathHandler_TypeOK, NoStuckBuild, ContextAgrees, DeadIsFinal
<1>6. CASE backoff_over
    BY <1>6, Zenon DEF backoff_over, IInv, PathHandler_TypeOK, NoStuckBuild, ContextAgrees, DeadIsFinal
<1>7. ASSUME NEW p \in Path, path_build_succeeded(p) PROVE IInv'
    <2>1. 0 \in 0..BACKOFF_THRESHOLD
        OBVIOUS
    <2> QED
        BY <1>7, <2>1 DEF path_build_succeeded, IInv, PathHandler_TypeOK, NoStuckBuild,
            ContextAgrees, DeadIsFinal
<1>8. ASSUME NEW p \in Path, path_build_failed(p) PROVE IInv'
    <2>1. Counted(failures) \in 0..BACKOFF_THRESHOLD
        BY DEF Counted, IInv, PathHandler_TypeOK
    <2> QED
        BY <1>8, <2>1 DEF path_build_failed, drop, IInv, PathHandler_TypeOK, NoStuckBuild,
            ContextAgrees, DeadIsFinal
<1>9. ASSUME NEW p \in Path, path_build_ignored(p) PROVE IInv'
    BY <1>9 DEF path_build_ignored, IInv, PathHandler_TypeOK, NoStuckBuild, ContextAgrees, DeadIsFinal
<1>10. ASSUME NEW p \in Path, ageing(p) PROVE IInv'
    <2>1. Older(life[p]) \in Life
        BY DEF Older, Life, IInv, PathHandler_TypeOK
    <2> QED
        BY <1>10, <2>1 DEF ageing, IInv, PathHandler_TypeOK, NoStuckBuild, ContextAgrees, DeadIsFinal
<1>11. ASSUME NEW p \in Path, NEW how \in {"ok", "timeout", "error"}, ping_result(p, how)
      PROVE  IInv'
    <2>1. pings' \in [Path -> 0..MaxPings]
        <3>1. pings[p] - 1 \in 0..MaxPings
            BY <1>11 DEF ping_result, IInv, PathHandler_TypeOK
        <3> QED
            BY <1>11, <3>1 DEF ping_result, IInv, PathHandler_TypeOK
    <2>2. missed' \in [Path -> 0..(max_missed_pings + 1)]
        BY <1>11 DEF ping_result, IInv, PathHandler_TypeOK
    <2>3. life' \in [Path -> Life]
        BY <1>11 DEF ping_result, IInv, PathHandler_TypeOK, Life
    <2> QED
        BY <1>11, <2>1, <2>2, <2>3 DEF ping_result, IInv, PathHandler_TypeOK, NoStuckBuild,
            ContextAgrees, DeadIsFinal
<1>12. CASE UNCHANGED phvars
    BY <1>12 DEF phvars, IInv, PathHandler_TypeOK, NoStuckBuild, ContextAgrees, DeadIsFinal
<1> QED
    BY <1>1, <1>2, <1>3, <1>4, <1>5, <1>6, <1>7, <1>8, <1>9, <1>10, <1>11, <1>12 DEF PHNext

LEMMA InitIInv == PHInit => IInv
<1> USE PathHandlerAssumption
<1>1. 0 \in 0..MaxPings /\ 0 \in 0..(max_missed_pings + 1) /\ 0 \in 0..BACKOFF_THRESHOLD
    OBVIOUS
<1> QED
    BY <1>1, Zenon DEF PHInit, IInv, PathHandler_TypeOK, NoStuckBuild, ContextAgrees, DeadIsFinal, Life

(***************************************************************************)
(* Every path handler keeps its two path maps consistent: builds never get *)
(* stuck in _paths, the path context holds exactly the established paths   *)
(* of a running handler, and a dead path never comes back.                 *)
(***************************************************************************)
THEOREM PathHandlerSafe ==
    PHSpec => [](PathHandler_TypeOK /\ NoStuckBuild /\ ContextAgrees /\ DeadIsFinal)
<1>1. IInv => PathHandler_TypeOK /\ NoStuckBuild /\ ContextAgrees /\ DeadIsFinal
    BY DEF IInv
<1> QED
    BY <1>1, InitIInv, NextKeepsIInv, PTL DEF PHSpec

(***************************************************************************)
(* A path leaves the path context only by being marked dead in that step.  *)
(***************************************************************************)
THEOREM ContextLeftDead == PHSpec => LeavingContextIsDeath
<1>1. IInv /\ [PHNext]_phvars => [\A p \in ctx : p \notin ctx' => p \in dead']_phvars
    <2> SUFFICES ASSUME IInv, PHNext, NEW p \in ctx, p \notin ctx' PROVE p \in dead'
        BY DEF phvars
    <2>1. ASSUME NEW D, NEW B, NEW refused, NEW S, NEW newlife, Update(D, B, refused, S, newlife)
          PROVE  p \in dead'
        BY <2>1 DEF Update, drop
    <2> QED
        BY <2>1 DEF PHNext, drop, tick, update_paths, invalidate_paths, stop, destroy, backoff_over,
            path_build_succeeded, path_build_failed, path_build_ignored, ageing, ping_result
<1> QED
    BY <1>1, InitIInv, NextKeepsIInv, PTL DEF PHSpec, LeavingContextIsDeath

\* What a tick does, in the terms of the contract; the current path is not rebuilt.
LEMMA TickIsAnUpdate ==
    ASSUME session_tick
    PROVE  \E D \in SUBSET paths, B \in SUBSET Fresh, S \in SUBSET active_paths, refused \in BOOLEAN :
             /\ expire_paths \subseteq D
             /\ current \notin B
             /\ \E newlife \in [B -> Life] : Update(D, B, refused, S, newlife)
<1>1. PICK old \in close_old_paths :
        LET gone == old \cup expire_paths
            left == paths \ gone
        IN IF edge_connected
           THEN \E b \in builds(left), S \in SUBSET pingable(left) :
                    Update(gone, b[1], b[2], S, [p \in b[1] |-> "good"])
           ELSE Update(gone, {}, FALSE, {}, [p \in {} |-> "good"])
    BY Zenon DEF session_tick
<1> DEFINE gone == old \cup expire_paths
           left == paths \ gone
<1>2. CASE edge_connected
    <2>1. PICK b \in builds(left), S \in SUBSET pingable(left) :
            Update(gone, b[1], b[2], S, [p \in b[1] |-> "good"])
        BY <1>1, <1>2, Zenon
    <2>2. b[1] \subseteq Unused /\ b[2] \in BOOLEAN
        <3> HIDE DEF left
        <3>1. b \in {<<{}, FALSE>>} \/ b \in (SUBSET Unused) \X BOOLEAN
            BY <2>1, Zenon DEF builds
        <3>2. CASE b = <<{}, FALSE>>
            BY <3>2
        <3>3. CASE b \in (SUBSET Unused) \X BOOLEAN
            BY <3>3
        <3> QED
            BY <3>1, <3>2, <3>3, Zenon
    <2>3. [p \in b[1] |-> "good"] \in [b[1] -> Life]
        BY DEF Life
    <2>4. gone \in SUBSET paths /\ S \in SUBSET active_paths /\ b[1] \in SUBSET Fresh
        BY <2>1 DEF Update
    <2> HIDE DEF gone
    <2>5. expire_paths \subseteq gone
        BY DEF gone
    <2> QED
        BY <2>1, <2>2, <2>3, <2>4, <2>5 DEF Unused
<1>3. CASE ~edge_connected
    <2>1. Update(gone, {}, FALSE, {}, [p \in {} |-> "good"])
        BY <1>1, <1>3, Zenon
    <2>2. [p \in {} |-> "good"] \in [{} -> Life]
        BY DEF Life
    <2>3. gone \in SUBSET paths /\ expire_paths \subseteq gone
        BY <2>1 DEF Update
    <2> HIDE DEF gone
    <2> QED
        BY <2>1, <2>2, <2>3, Zenon
<1> QED
    BY <1>2, <1>3

LEMMA StepImplementsContract == [Next]_vars => [PHNext]_phvars
<1> SUFFICES ASSUME [Next]_vars PROVE [PHNext]_phvars
    OBVIOUS
<1>1. CASE session_tick
    <2>1. tick
        BY <1>1, TickIsAnUpdate DEF tick
    <2> QED
        BY <2>1 DEF PHNext
<1>2. CASE send_path_message \/ edge_change \/ UNCHANGED vars
    BY <1>2 DEF send_path_message, edge_change, vars, phvars
<1>3. CASE recv_close \/ session_dropped \/ retry_delay_over
    BY <1>3 DEF recv_close, session_dropped, retry_delay_over, PHNext
<1>4. ASSUME NEW p \in Path,
             on_path_build_success(p) \/ on_path_build_failure(p) \/ late_build_response(p) \/ path_ageing(p)
      PROVE  PHNext
    BY <1>4 DEF on_path_build_success, on_path_build_failure, late_build_response, path_ageing, PHNext
<1>5. ASSUME NEW p \in Path, NEW how \in {"ok", "timeout", "error"}, path_ping_response(p, how)
      PROVE  PHNext
    BY <1>5 DEF path_ping_response, PHNext
<1> QED
    BY <1>1, <1>2, <1>3, <1>4, <1>5 DEF Next

(***************************************************************************)
(* The session refines PathHandler: whatever it closes, builds or pings is *)
(* allowed by the contract, so PathHandlerSafe holds of the session too.   *)
(***************************************************************************)
THEOREM OutboundRelayRefines == Spec => KeepsHandlerContract
<1>1. Init => PHInit
    BY DEF Init
<1> QED
    BY <1>1, StepImplementsContract, PTL DEF Spec, PHSpec, KeepsHandlerContract

LEMMA StepKeepsCurrent ==
    ASSUME IInv, IInv', CurrentIsRoutedOrDead, [Next]_vars
    PROVE  CurrentIsRoutedOrDead'
<1> USE DEF CurrentIsRoutedOrDead
<1>1. CASE session_tick
    <2>1. PICK D \in SUBSET paths, B \in SUBSET Fresh, S \in SUBSET active_paths, refused \in BOOLEAN :
            /\ current \notin B
            /\ \E newlife \in [B -> Life] : Update(D, B, refused, S, newlife)
        BY <1>1, TickIsAnUpdate, ZenonT(30)
    <2>2. UNCHANGED current
        BY <1>1 DEF session_tick, svars
    <2> QED
        BY <2>1, <2>2 DEF Update, drop
<1>2. CASE send_path_message \/ session_dropped
    BY <1>2, OutboundRelayAssumption DEF send_path_message, session_dropped, destroy
<1>3. CASE edge_change \/ retry_delay_over \/ UNCHANGED vars
    <2>1. UNCHANGED <<alive, current, dead, ctx, paths, established>>
        BY <1>3 DEF edge_change, retry_delay_over, backoff_over, vars, svars, phvars
    <2> QED
        BY <2>1
<1>4. CASE recv_close
    BY <1>4 DEF recv_close, invalidate_paths, drop, svars
<1>5. ASSUME NEW p \in Path, on_path_build_success(p) PROVE CurrentIsRoutedOrDead'
    <2>1. CASE ~NeedsPath
        BY <1>5, <2>1 DEF on_path_build_success, path_build_succeeded, NeedsPath
    <2>2. CASE NeedsPath
        <3>1. current' = None \/ current' \in paths' \cap established'
            BY <1>5, <2>2 DEF on_path_build_success, select_new_current
        <3>2. alive' => paths' \cap established' \subseteq ctx'
            BY DEF IInv, ContextAgrees
        <3> QED
            BY <3>1, <3>2
    <2> QED
        BY <2>1, <2>2
<1>6. ASSUME NEW p \in Path, on_path_build_failure(p) PROVE CurrentIsRoutedOrDead'
    <2>1. /\ UNCHANGED <<alive, current, established>> /\ p \in pending
          /\ ctx' = ctx \ {p} /\ paths' = paths \ {p} /\ dead \subseteq dead'
        BY <1>6 DEF on_path_build_failure, path_build_failed, svars
    <2>2. p \notin established
        BY <2>1 DEF IInv
    <2> QED
        BY <2>1, <2>2
<1>7. ASSUME NEW p \in Path, late_build_response(p) \/ path_ageing(p) PROVE CurrentIsRoutedOrDead'
    <2>1. UNCHANGED <<alive, current, dead, ctx, paths, established>>
        BY <1>7 DEF late_build_response, path_build_ignored, path_ageing, ageing, svars
    <2> QED
        BY <2>1
<1>8. ASSUME NEW p \in Path, NEW how \in {"ok", "timeout", "error"}, path_ping_response(p, how)
      PROVE  CurrentIsRoutedOrDead'
    <2>1. UNCHANGED <<alive, current, dead, ctx, paths, established>>
        BY <1>8 DEF path_ping_response, ping_result, svars
    <2> QED
        BY <2>1
<1> QED
    BY SMTT(30), <1>1, <1>2, <1>3, <1>4, <1>5, <1>6, <1>7, <1>8 DEF Next

(***************************************************************************)
(* In every session, for any number of paths, the current path is in both  *)
(* path maps or marked dead.                                               *)
(***************************************************************************)
THEOREM OutboundRelayCurrent == Spec => []CurrentIsRoutedOrDead
<1>1. Init => IInv /\ CurrentIsRoutedOrDead
    BY InitIInv DEF Init, CurrentIsRoutedOrDead
<1>2. IInv /\ CurrentIsRoutedOrDead /\ [Next]_vars => (IInv /\ CurrentIsRoutedOrDead)'
    BY StepImplementsContract, NextKeepsIInv, StepKeepsCurrent
<1> QED
    BY <1>1, <1>2, PTL DEF Spec

-----------------------------------------------------------------------------
(* HopSelection: the hops of a path. *)

HopSpec == HopInit /\ [][HopNext]_hopvars

\* HopsKeptApart of a path under a configuration that netmask and hops give.
HopApart(path) ==
    LET n == Len(path)
    IN  /\ n <= HopBuildLength /\ n \in {hopConf.hops, hopConf.hops + 1}
        /\ \A i \in 1..(n - 1) : path[i] # path[i + 1]
        /\ \A i, j \in 1..n : i < j /\ path[i] = path[j] => i = 1 /\ j = n
        /\ hopConf.netmask =>
              /\ \A i, j \in 1..n : i # j /\ {i, j} # {1, n} => HopNet[path[i]] # HopNet[path[j]]
              /\ n > 1 /\ HopNet[path[1]] = HopNet[path[n]] /\ hopConf.hops < HopBuildLength
                    => n = hopConf.hops + 1

HopInv ==
    /\ HopSelection_TypeOK
    /\ hopPath \in Seq(HopRelay)
    /\ HopsKeptApart

\* One stretch of hops after another.
LEMMA HopConcat ==
    ASSUME NEW M, NEW q \in Seq(M), NEW t \in Seq(M)
    PROVE  /\ q \o t \in Seq(M) /\ Len(q \o t) = Len(q) + Len(t)
           /\ \A k \in 1..Len(q) + Len(t) : (q \o t)[k] = IF k <= Len(q) THEN q[k] ELSE t[k - Len(q)]
OBVIOUS

\* The shape of a path: its first hop, the hops between and the pivot.
LEMMA HopPathShape ==
    ASSUME NEW f \in HopRelay, NEW pivot \in HopRelay, NEW n \in Nat, NEW s \in [1..n -> HopRelay]
    PROVE  LET path == <<f>> \o s \o <<pivot>>
           IN  /\ path \in Seq(HopRelay) /\ Len(path) = n + 2
               /\ path[1] = f /\ path[n + 2] = pivot
               /\ \A i \in 2..(n + 1) : path[i] = s[i - 1]
<1>1. s \in Seq(HopRelay) /\ Len(s) = n OBVIOUS
<1>2. <<f>> \in Seq(HopRelay) /\ Len(<<f>>) = 1 /\ <<f>>[1] = f OBVIOUS
<1>3. <<pivot>> \in Seq(HopRelay) /\ Len(<<pivot>>) = 1 /\ <<pivot>>[1] = pivot OBVIOUS
<1> DEFINE a == <<f>>  z == <<pivot>>
<1> HIDE DEF a, z
<1>4. /\ a \o s \in Seq(HopRelay) /\ Len(a \o s) = n + 1
      /\ \A i \in 1..(n + 1) : (a \o s)[i] = IF i <= 1 THEN a[i] ELSE s[i - 1]
    BY <1>1, <1>2, HopConcat DEF a
<1> DEFINE t == a \o s
<1> HIDE DEF t
<1>5. /\ t \o z \in Seq(HopRelay) /\ Len(t \o z) = n + 2
      /\ \A i \in 1..(n + 2) : (t \o z)[i] = IF i <= n + 1 THEN t[i] ELSE z[i - (n + 1)]
    <2>1. t \in Seq(HopRelay) /\ Len(t) = n + 1 BY <1>4 DEF t
    <2>2. z \in Seq(HopRelay) /\ Len(z) = 1 BY <1>3 DEF z
    <2>3. /\ t \o z \in Seq(HopRelay) /\ Len(t \o z) = Len(t) + Len(z)
          /\ \A i \in 1..(Len(t) + Len(z)) : (t \o z)[i] = IF i <= Len(t) THEN t[i] ELSE z[i - Len(t)]
        BY <2>1, <2>2, HopConcat, Zenon
    <2>4. Len(t) + Len(z) = n + 2 BY <2>1, <2>2
    <2> QED BY <2>1, <2>3, <2>4
<1>6. \A i \in 1..(n + 1) : t[i] = IF i <= 1 THEN a[i] ELSE s[i - 1] BY <1>4 DEF t
<1>7. a[1] = f /\ z[1] = pivot BY <1>2, <1>3 DEF a, z
<1> DEFINE p == t \o z
<1> HIDE DEF p
<1>8. \A i \in 1..(n + 2) : p[i] = IF i <= n + 1 THEN t[i] ELSE z[i - (n + 1)] BY <1>5, Zenon DEF p
<1>9. p[1] = f /\ \A i \in 2..(n + 1) : p[i] = s[i - 1] BY <1>6, <1>7, <1>8
<1>10. p[n + 2] = pivot
    <2>1. n + 2 \in 1..(n + 2) /\ ~(n + 2 <= n + 1) /\ (n + 2) - (n + 1) = 1 OBVIOUS
    <2>2. p[n + 2] = z[(n + 2) - (n + 1)] BY <1>8, <2>1
    <2> QED BY <1>7, <2>1, <2>2
<1> QED BY <1>5, <1>9, <1>10 DEF p, t, a, z

\* Hops taken one at a time are apart from the ends and from each other.
LEMMA HopMiddlesApart ==
    ASSUME NEW f, NEW pivot, NEW ends, f \in ends, pivot \in ends,
           NEW n \in Nat, NEW s \in HopMiddles(ends, n)
    PROVE  /\ s \in [1..n -> HopRelay]
           /\ \A i \in 1..n : /\ s[i] # f /\ s[i] # pivot
                              /\ hopConf.netmask => HopNet[s[i]] # HopNet[f] /\ HopNet[s[i]] # HopNet[pivot]
           /\ \A i, j \in 1..n :
                j < i => /\ s[i] # s[j]
                         /\ hopConf.netmask => HopNet[s[i]] # HopNet[s[j]]
<1>1. s \in [1..n -> HopRelay] BY DEF HopMiddles
<1>2. ASSUME NEW i \in 1..n PROVE HopFilter(s[i], ends \cup {s[j] : j \in 1..(i - 1)})
    BY DEF HopMiddles
<1>3. ASSUME NEW i \in 1..n
      PROVE  /\ s[i] # f /\ s[i] # pivot
             /\ hopConf.netmask => HopNet[s[i]] # HopNet[f] /\ HopNet[s[i]] # HopNet[pivot]
    <2> DEFINE used == ends \cup {s[j] : j \in 1..(i - 1)}
    <2>1. HopFilter(s[i], used) BY <1>2, Zenon
    <2>2. f \in used /\ pivot \in used OBVIOUS
    <2> HIDE DEF used
    <2> QED BY <2>1, <2>2 DEF HopFilter
<1>4. ASSUME NEW i \in 1..n, NEW j \in 1..n, j < i
      PROVE  s[i] # s[j] /\ (hopConf.netmask => HopNet[s[i]] # HopNet[s[j]])
    <2> DEFINE used == ends \cup {s[k] : k \in 1..(i - 1)}
    <2>1. HopFilter(s[i], used) BY <1>2, Zenon
    <2>2. j \in 1..(i - 1) BY <1>4
    <2>3. s[j] \in used BY <2>2, Zenon
    <2> HIDE DEF used
    <2> QED BY <2>1, <2>3 DEF HopFilter
<1> QED BY <1>1, <1>3, <1>4

\* A first hop is the pivot only if the path is extended, and shares its range only
\* if the path is extended.
LEMMA HopFirstApart ==
    ASSUME hopConn \subseteq HopRelay, hopConf.netmask \in BOOLEAN,
           NEW pivot \in HopRelay, NEW f \in HopFirst(pivot).from
    PROVE  /\ f \in HopRelay
           /\ HopFirst(pivot).extend \in BOOLEAN
           /\ f = pivot => HopFirst(pivot).extend
           /\ hopConf.netmask /\ HopNet[f] = HopNet[pivot] => HopFirst(pivot).extend
<1> DEFINE apart == select_first_hop({r \in HopRelay : HopFilter(r, {pivot})})
           other == select_first_hop(HopRelay \ {pivot})
<1>1. \A r \in apart : r \in HopRelay /\ r # pivot /\ (hopConf.netmask => HopNet[r] # HopNet[pivot])
    BY Zenon DEF select_first_hop, HopFilter
<1>2. \A r \in other : r \in HopRelay /\ r # pivot BY DEF select_first_hop
<1>3. CASE hopConf.netmask /\ apart # {}
    <2>1. HopFirst(pivot) = [from |-> apart, extend |-> FALSE] BY <1>3 DEF HopFirst
    <2> HIDE DEF apart
    <2> QED BY SMTT(30), <1>1, <1>3, <2>1
<1>4. CASE ~(hopConf.netmask /\ apart # {}) /\ other # {}
    <2>1. HopFirst(pivot) = [from |-> other, extend |-> hopConf.netmask] BY <1>4, Zenon DEF HopFirst
    <2> HIDE DEF other
    <2> QED BY <1>2, <2>1
<1>5. CASE ~(hopConf.netmask /\ apart # {}) /\ other = {}
    <2>1. HopFirst(pivot) = [from |-> {pivot}, extend |-> TRUE] BY <1>5, Zenon DEF HopFirst
    <2> QED BY <2>1
<1> QED BY <1>3, <1>4, <1>5, Zenon

\* Ends and middle hops that are apart make a path that is.
LEMMA HopShapeApart ==
    ASSUME hopConf.netmask \in BOOLEAN, hopConf.hops \in 2..HopBuildLength,
           NEW f \in HopRelay, NEW pivot \in HopRelay, NEW extend \in BOOLEAN,
           NEW n \in Nat, n + 2 <= HopBuildLength, n + 2 \in {hopConf.hops, hopConf.hops + 1},
           extend /\ hopConf.hops < HopBuildLength => n + 2 = hopConf.hops + 1,
           extend => n >= 1,
           NEW s \in HopMiddles({pivot, f}, n),
           f = pivot => extend,
           hopConf.netmask /\ HopNet[f] = HopNet[pivot] => extend
    PROVE  <<f>> \o s \o <<pivot>> \in Seq(HopRelay) /\ HopApart(<<f>> \o s \o <<pivot>>)
<1> DEFINE path == <<f>> \o s \o <<pivot>>
<1>1. /\ s \in [1..n -> HopRelay]
      /\ \A i \in 1..n : /\ s[i] # f /\ s[i] # pivot
                         /\ hopConf.netmask => HopNet[s[i]] # HopNet[f] /\ HopNet[s[i]] # HopNet[pivot]
      /\ \A i, j \in 1..n :
            j < i => /\ s[i] # s[j]
                     /\ hopConf.netmask => HopNet[s[i]] # HopNet[s[j]]
    <2> DEFINE ends == {pivot, f}
    <2>1. f \in ends /\ pivot \in ends /\ s \in HopMiddles(ends, n) OBVIOUS
    <2> HIDE DEF ends, path
    <2>2. s \in [1..n -> HopRelay] BY <2>1, HopMiddlesApart, Zenon
    <2>3. \A i \in 1..n : s[i] # f /\ s[i] # pivot BY <2>1, HopMiddlesApart
    <2>4. \A i \in 1..n :
            hopConf.netmask => HopNet[s[i]] # HopNet[f] /\ HopNet[s[i]] # HopNet[pivot]
           BY <2>1, HopMiddlesApart
    <2>5. \A i, j \in 1..n : j < i => s[i] # s[j]
           BY <2>1, HopMiddlesApart
    <2>6. \A i, j \in 1..n : j < i => (hopConf.netmask => HopNet[s[i]] # HopNet[s[j]])
           BY <2>1, HopMiddlesApart
    <2> QED BY <2>2, <2>3, <2>4, <2>5, <2>6
<1>2. /\ path \in Seq(HopRelay) /\ Len(path) = n + 2
      /\ path[1] = f /\ path[n + 2] = pivot
      /\ \A i \in 2..(n + 1) : path[i] = s[i - 1]
    BY <1>1, HopPathShape
<1> HIDE DEF path
<1>3. \A i \in 1..(n + 2) : i = 1 \/ i = n + 2 \/ (i \in 2..(n + 1) /\ i - 1 \in 1..n) OBVIOUS
<1>4. ASSUME NEW i \in 1..(n + 2), NEW j \in 1..(n + 2), i < j, ~(i = 1 /\ j = n + 2)
      PROVE  path[i] # path[j] /\ (hopConf.netmask => HopNet[path[i]] # HopNet[path[j]])
    <2>1. CASE i = 1
        <3>1. j \in 2..(n + 1) /\ j - 1 \in 1..n BY <1>4, <2>1
        <3> QED BY <1>1, <1>2, <2>1, <3>1
    <2>2. CASE i # 1
        <3>1. i \in 2..(n + 1) /\ i - 1 \in 1..n BY <1>4, <2>2
        <3>2. CASE j = n + 2 BY <1>1, <1>2, <3>1, <3>2, ZenonT(30)
        <3>3. CASE j # n + 2
            <4>1. j \in 2..(n + 1) /\ j - 1 \in 1..n /\ i - 1 < j - 1 BY <1>4, <3>1, <3>3
            <4> QED BY <1>1, <1>2, <3>1, <4>1
        <3> QED BY <3>2, <3>3
    <2> QED BY <2>1, <2>2, ZenonT(30)
<1>5. ASSUME NEW i \in 1..(n + 1) PROVE path[i] # path[i + 1]
    <2>1. CASE i = 1 /\ i + 1 = n + 2
        <3>1. n = 0 BY <2>1
        <3>2. f # pivot BY <3>1
        <3> QED BY <1>2, <2>1, <3>2
    <2>2. CASE ~(i = 1 /\ i + 1 = n + 2)
        <3>1. i \in 1..(n + 2) /\ i + 1 \in 1..(n + 2) /\ i < i + 1 OBVIOUS
        <3> QED BY <1>4, <2>2, <3>1
    <2> QED BY <2>1, <2>2
<1>6. \A i, j \in 1..(n + 2) : i < j /\ path[i] = path[j] => i = 1 /\ j = n + 2 BY <1>4, ZenonT(30)
<1>7. ASSUME hopConf.netmask, NEW i \in 1..(n + 2), NEW j \in 1..(n + 2), i # j, {i, j} # {1, n + 2}
      PROVE  HopNet[path[i]] # HopNet[path[j]]
    <2>1. ~(i = 1 /\ j = n + 2) /\ ~(j = 1 /\ i = n + 2) BY <1>7
    <2>2. CASE i < j BY <1>4, <1>7, <2>1, <2>2, Zenon
    <2>3. CASE j < i BY <1>4, <1>7, <2>1, <2>3, ZenonT(30)
    <2> QED BY <1>7, <2>2, <2>3
<1>8. hopConf.netmask /\ HopNet[path[1]] = HopNet[path[n + 2]] /\ hopConf.hops < HopBuildLength
            => n + 2 = hopConf.hops + 1
    BY <1>2
<1>9. (n + 2) - 1 = n + 1 OBVIOUS
<1>10. HopApart(path)
    BY <1>2, <1>5, <1>6, <1>7, <1>8, <1>9, Zenon DEF HopApart
<1> QED BY <1>2, <1>10, Zenon DEF path

LEMMA HopAlone == ASSUME NEW r \in HopRelay PROVE <<r>> \in Seq(HopRelay) /\ Len(<<r>>) = 1
OBVIOUS

\* Every path select_hops_to_remote returns is kept apart.
LEMMA HopSelectApart ==
    ASSUME HopSelection_TypeOK, NEW pivot \in HopRelay, NEW path \in select_hops_to_remote(pivot)
    PROVE  path \in Seq(HopRelay) /\ HopApart(path)
<1>1. hopConf.netmask \in BOOLEAN /\ hopConf.hops \in 1..HopBuildLength /\ hopConn \subseteq HopRelay
    BY HopSelectionAssumption, Zenon DEF HopSelection_TypeOK
<1>2. HopBuildLength \in Nat /\ HopBuildLength >= 3 BY HopSelectionAssumption
<1>3. CASE hopConf.hops = 1
    <2>1. path = <<pivot>> BY <1>3 DEF select_hops_to_remote
    <2>2. path \in Seq(HopRelay) /\ Len(path) = 1 BY <2>1, HopAlone, ZenonT(30)
    <2> QED BY <1>2, <1>3, <2>2 DEF HopApart
<1>4. CASE hopConf.hops # 1
    <2> DEFINE first == HopFirst(pivot)
               left == hopConf.hops - 2
               n == left + HopExtra(first.extend, left)
    <2>1. path \in UNION {{<<f>> \o s \o <<pivot>> : s \in HopMiddles({pivot, f}, n)} : f \in first.from}
        BY <1>4, Zenon DEF select_hops_to_remote
    <2>2. PICK f \in first.from : path \in {<<f>> \o s \o <<pivot>> : s \in HopMiddles({pivot, f}, n)}
        BY <2>1, Zenon
    <2>3. PICK s \in HopMiddles({pivot, f}, n) : path = <<f>> \o s \o <<pivot>> BY <2>2, ZenonT(30)
    <2>4. /\ f \in HopRelay /\ first.extend \in BOOLEAN
          /\ f = pivot => first.extend
          /\ hopConf.netmask /\ HopNet[f] = HopNet[pivot] => first.extend
        BY <1>1, HopFirstApart
    <2>5. hopConf.hops \in 2..HopBuildLength BY SMTT(30), <1>1, <1>2, <1>4
    <2> HIDE DEF first
    <2>6. /\ n \in Nat /\ n + 2 <= HopBuildLength /\ n + 2 \in {hopConf.hops, hopConf.hops + 1}
          /\ first.extend /\ hopConf.hops < HopBuildLength => n + 2 = hopConf.hops + 1
          /\ first.extend => n >= 1
        BY <1>2, <2>4, <2>5 DEF HopExtra
    <2> HIDE DEF n
    <2> QED BY <1>1, <2>3, <2>4, <2>5, <2>6, HopShapeApart
<1> QED BY <1>3, <1>4

LEMMA HopStep == ASSUME HopInv, [HopNext]_hopvars PROVE HopInv'
<1>1. ASSUME NEW r \in HopRelay, build_path_to_remote(r) PROVE HopInv'
    <2>1. /\ hopPath' \in select_hops_to_remote(r)
          /\ UNCHANGED <<hopConf, hopConn, hopTimeouts, hopDecayed, hopWraps>>
        BY <1>1 DEF build_path_to_remote
    <2>2. hopPath' \in Seq(HopRelay) /\ HopApart(hopPath') BY <2>1, HopSelectApart, Zenon DEF HopInv
    <2>3. HopsKeptApart' BY <2>1, <2>2 DEF HopApart, HopsKeptApart
    <2>4. Len(hopPath') <= HopBuildLength BY <2>2 DEF HopApart
    <2>5. HopsOf(hopPath') \subseteq HopRelay BY <2>2 DEF HopsOf
    <2> QED BY <2>1, <2>2, <2>3, <2>4, <2>5 DEF HopInv, HopSelection_TypeOK
<1>2. ASSUME NEW o, HopBuildEnds(o) PROVE HopInv'
    <2>1. hopPath' = << >> /\ UNCHANGED <<hopConf, hopConn, hopDecayed, hopWraps>> BY <1>2 DEF HopBuildEnds
    <2>2. hopTimeouts' \in [HopRelay -> 0..HopMaxTimeouts]
        BY <1>2, HopSelectionAssumption DEF HopBuildEnds, HopInv, HopSelection_TypeOK
    <2>3. Len(hopPath') = 0 /\ hopPath' \in Seq(HopRelay) /\ HopsOf(hopPath') = {} BY <2>1 DEF HopsOf
    <2>4. HopsKeptApart' BY <2>3 DEF HopsKeptApart
    <2> QED BY <2>1, <2>2, <2>3, <2>4, HopSelectionAssumption DEF HopInv, HopSelection_TypeOK
<1>3. ASSUME HopTick PROVE HopInv'
    <2>1. UNCHANGED <<hopConf, hopConn, hopWraps, hopPath>> /\ hopDecayed' \subseteq HopRelay
        BY <1>3 DEF HopTick, HopInv, HopSelection_TypeOK
    <2>2. hopTimeouts' \in [HopRelay -> 0..HopMaxTimeouts]
        <3>1. \A k \in 0..HopMaxTimeouts : k \div 2 \in 0..HopMaxTimeouts BY HopSelectionAssumption
        <3> QED BY <1>3, <3>1, Zenon DEF HopTick, HopInv, HopSelection_TypeOK
    <2> QED BY <2>1, <2>2, Zenon DEF HopInv, HopSelection_TypeOK, HopsKeptApart, HopsOf
<1>4. ASSUME NEW r \in HopRelay, HopConnChange(r) PROVE HopInv'
    BY <1>4, Zenon DEF HopConnChange, HopInv, HopSelection_TypeOK, HopsKeptApart, HopsOf
<1>5. CASE UNCHANGED hopvars
    BY <1>5, Zenon DEF hopvars, HopInv, HopSelection_TypeOK, HopsKeptApart, HopsOf
<1> QED BY <1>1, <1>2, <1>3, <1>4, <1>5 DEF HopNext

\* For any relays, address ranges, configured lengths and connections: every path that
\* is built keeps its hops apart, the ends of a path over one relay or one range
\* included, because extend_path puts a hop between them.
THEOREM HopsStayApart == HopSpec => [](HopSelection_TypeOK /\ HopsKeptApart)
<1>1. HopInit => HopInv
    BY HopSelectionAssumption DEF HopInit, HopInv, HopSelection_TypeOK, HopsKeptApart, HopsOf
<1>2. HopInv /\ [HopNext]_hopvars => HopInv' BY HopStep
<1>3. HopInv => HopSelection_TypeOK /\ HopsKeptApart BY DEF HopInv
<1> QED BY <1>1, <1>2, <1>3, PTL DEF HopSpec

-----------------------------------------------------------------------------
(* ClientPaths: paths aligned with the contact. *)

CpSpec == CpInit /\ [][CpNext]_cpvars

CpPathSet ==
    [rid : CpRelays \cup {CpNone}, hop : CpHops \cup {CpNone}, life : 0..4, est : BOOLEAN, held : BOOLEAN]

\* The invariant the action property needs: a usable contact has been processed, so a
\* tick never has paths left to compare with it, and builds are started for one only.
CpInv ==
    /\ cpHop \in [CpHops -> [rid : CpRelays, life : 0..4]]
    /\ cpPath \in [CpIds -> CpPathSet]
    /\ cpIntros \subseteq CpHops
    /\ cpOk \in BOOLEAN /\ cpProcessed \in BOOLEAN
    /\ ~cpOk => cpLoop = 0
    /\ cpOk => cpProcessed

\* What a step of the action property may leave.
CpStrayStep ==
    cpOk' => \A i \in CpIds : CpStray(i)' =>
        /\ cpIntros' = cpIntros
        /\ \/ cpOk /\ CpStray(i)
           \/ cpPath[i] # CpNoPath /\ ~cpPath[i].held /\ cpPath'[i].est

\* Dropping paths keeps those that stay in _paths as they are.
LEMMA CpDropKeeps ==
    ASSUME NEW P \in [CpIds -> CpPathSet], NEW D
    PROVE  /\ CpDrop(P, D) \in [CpIds -> CpPathSet]
           /\ \A i \in CpIds : CpDrop(P, D)[i].held => P[i].held /\ i \notin D /\ CpDrop(P, D)[i] = P[i]
<1>1. CpNoPath \in CpPathSet /\ ~CpNoPath.held BY DEF CpNoPath, CpPathSet
<1>2. \A r \in CpPathSet : [r EXCEPT !.held = FALSE] \in CpPathSet /\ ~[r EXCEPT !.held = FALSE].held
    BY Zenon DEF CpPathSet
<1> HIDE DEF CpPathSet
<1> QED BY <1>1, <1>2, ZenonT(30) DEF CpDrop

\* A step that leaves the contact as it is and adds no path adds no stray one.
LEMMA CpFewer ==
    ASSUME CpInv, UNCHANGED <<cpIntros, cpOk>>,
           \A h \in cpIntros : cpHop'[h].rid = cpHop[h].rid,
           \A i \in CpIds : cpPath'[i].held =>
               cpPath[i].held /\ cpPath'[i].hop = cpPath[i].hop /\ cpPath'[i].rid = cpPath[i].rid
    PROVE  CpStrayStep
<1> SUFFICES ASSUME cpOk', NEW i \in CpIds, CpStray(i)'
             PROVE  cpIntros' = cpIntros /\ cpOk /\ CpStray(i)
    BY Zenon DEF CpStrayStep
<1> QED BY ZenonT(30) DEF CpStray

\* A contact arrives: one that is used leaves aligned paths only.
LEMMA CpIntrosStep ==
    ASSUME CpInv, NEW I \in SUBSET CpHops, NEW looked \in BOOLEAN, update_intros(I, looked)
    PROVE  CpInv' /\ CpStrayStep
<1>1. cpIntros' = I /\ cpOk' = (cpOk \/ looked) /\ cpHop' = cpHop /\ cpLoop = 0 BY Zenon DEF update_intros
<1>2. cpOk' \in BOOLEAN BY <1>1 DEF CpInv
<1>3. CASE cpOk'
    <2> DEFINE D == CpLive(cpPath) \ CpAligned(cpPath, I)
    <2>1. cpProcessed' = TRUE /\ cpPath' = CpDrop(cpPath, D)
        BY <1>3, Zenon DEF update_intros, update_paths_client
    <2> HIDE DEF D
    <2>2. /\ cpPath' \in [CpIds -> CpPathSet]
          /\ \A i \in CpIds : cpPath'[i].held => cpPath[i].held /\ i \notin D /\ cpPath'[i] = cpPath[i]
        <3>1. cpPath \in [CpIds -> CpPathSet] BY DEF CpInv
        <3>2. /\ CpDrop(cpPath, D) \in [CpIds -> CpPathSet]
              /\ \A i \in CpIds : CpDrop(cpPath, D)[i].held =>
                    cpPath[i].held /\ i \notin D /\ CpDrop(cpPath, D)[i] = cpPath[i]
            BY <3>1, CpDropKeeps, SMTT(20)
        <3> QED BY <2>1, <3>2, Zenon
    <2>3. ASSUME NEW i \in CpIds, CpStray(i)' PROVE FALSE
        <3>1. cpPath[i].held /\ i \notin D /\ cpPath'[i] = cpPath[i] BY <2>2, <2>3, Zenon DEF CpStray
        <3>2. i \in CpAligned(cpPath, I) BY <3>1, Zenon DEF D, CpLive
        <3>3. PICK h \in I : cpHop[h].rid = cpPath[i].rid /\ h = cpPath[i].hop BY <3>2, Zenon DEF CpAligned
        <3> QED BY <1>1, <2>3, <3>1, <3>3, Zenon DEF CpStray
    <2> QED BY <1>1, <1>2, <1>3, <2>1, <2>2, <2>3, Zenon DEF CpInv, CpStrayStep
<1>4. CASE ~cpOk'
    <2>1. cpPath' = cpPath /\ cpLoop' = cpLoop /\ cpProcessed' = FALSE BY <1>4, Zenon DEF update_intros
    <2> QED BY <1>1, <1>2, <1>4, <2>1, Zenon DEF CpInv, CpStrayStep
<1> QED BY <1>3, <1>4

\* One turn of the build loop: the new path ends where its intro does.
LEMMA CpBuildStep ==
    ASSUME CpInv, CpBuild
    PROVE  CpInv' /\ CpStrayStep
<1>1. cpLoop > 0 /\ UNCHANGED <<cpHop, cpIntros, cpProcessed, cpOk, cpCurrent>> BY DEF CpBuild
<1>2. cpOk BY <1>1 DEF CpInv
<1>3. CASE UNCHANGED cpPath
    <2>1. CpStrayStep BY <1>1, <1>3, CpFewer, Zenon
    <2> QED BY <1>1, <1>2, <1>3, <2>1, Zenon DEF CpInv
<1>4. CASE \E v \in select_pivot :
            /\ CpFree # {}
            /\ cpPath' = [cpPath EXCEPT ![CHOOSE i \in CpFree : \A j \in CpFree : i <= j] =
                            [rid |-> v.rid, hop |-> v.hop, life |-> v.life, est |-> FALSE, held |-> TRUE]]
    <2>1. PICK v \in select_pivot :
            cpPath' = [cpPath EXCEPT ![CHOOSE i \in CpFree : \A j \in CpFree : i <= j] =
                            [rid |-> v.rid, hop |-> v.hop, life |-> v.life, est |-> FALSE, held |-> TRUE]]
        BY <1>4, Zenon
    <2> DEFINE x == CHOOSE i \in CpFree : \A j \in CpFree : i <= j
               new == [rid |-> v.rid, hop |-> v.hop, life |-> v.life, est |-> FALSE, held |-> TRUE]
    <2>2. cpPath' = [cpPath EXCEPT ![x] = new] BY <2>1, ZenonT(30)
    <2>3. v.hop \in cpIntros /\ v.rid = cpHop[v.hop].rid /\ v.life = cpHop[v.hop].life
        BY DEF select_pivot, CpPivots
    <2>4. v.hop \in CpHops /\ v.rid \in CpRelays /\ v.life \in 0..4 BY <2>3, ZenonT(30) DEF CpInv
    <2>5. new \in CpPathSet /\ new.hop = v.hop /\ new.rid = v.rid BY <2>4 DEF CpPathSet
    <2> HIDE DEF x, new
    <2>6. cpPath' \in [CpIds -> CpPathSet] BY <2>2, <2>5, Zenon DEF CpInv
    <2>7. \A i \in CpIds : cpPath'[i] = cpPath[i] \/ cpPath'[i] = new BY <2>2, Zenon DEF CpInv
    <2>8. ASSUME NEW i \in CpIds, CpStray(i)' PROVE CpStray(i)
        <3>1. cpPath'[i] # new BY <1>1, <2>3, <2>5, <2>8, ZenonT(30) DEF CpStray
        <3>2. cpPath'[i] = cpPath[i] BY <2>7, <3>1, Zenon
        <3> QED BY <1>1, <2>8, <3>2, ZenonT(30) DEF CpStray
    <2> QED BY <1>1, <1>2, <2>6, <2>8, Zenon DEF CpInv, CpStrayStep
<1> QED BY <1>3, <1>4, Zenon DEF CpBuild

\* A tick drops old and expired paths; the contact it then goes by was processed before.
LEMMA CpTickStep ==
    ASSUME CpInv, NEW connected \in BOOLEAN, client_tick(connected)
    PROVE  CpInv' /\ CpStrayStep
<1>1. PICK D : /\ UNCHANGED <<cpHop, cpIntros, cpOk>> /\ cpLoop = 0
               /\ cpPath' = CpDrop(cpPath, D)
               /\ cpProcessed' = cpProcessed
               /\ ~cpOk => cpLoop' = cpLoop
    <2>1. PICK old \in CpOld :
            LET gone == old \cup {i \in CpLive(cpPath) : cpPath[i].life = 0}
                left == CpDrop(cpPath, gone)
            IN  /\ cpLoop = 0
                /\ IF connected /\ cpOk
                   THEN update_paths_client(left, CpPointer(cpCurrent, gone), cpIntros, cpProcessed)
                   ELSE /\ cpPath' = left
                        /\ cpCurrent' = CpPointer(cpCurrent, gone)
                        /\ UNCHANGED <<cpProcessed, cpLoop>>
                /\ UNCHANGED <<cpHop, cpIntros, cpOk>>
        BY Zenon DEF client_tick
    <2> DEFINE gone == old \cup {i \in CpLive(cpPath) : cpPath[i].life = 0}
               left == CpDrop(cpPath, gone)
    <2>2. /\ cpLoop = 0 /\ UNCHANGED <<cpHop, cpIntros, cpOk>>
          /\ connected /\ cpOk => update_paths_client(left, CpPointer(cpCurrent, gone), cpIntros, cpProcessed)
          /\ ~(connected /\ cpOk) => cpPath' = left /\ cpProcessed' = cpProcessed /\ cpLoop' = cpLoop
        BY <2>1, Zenon
    <2> HIDE DEF gone
    <2>3. CASE connected /\ cpOk
        <3>1. cpProcessed = TRUE BY <2>3 DEF CpInv
        <3>2. cpPath' = left /\ cpProcessed' = TRUE BY <2>2, <2>3, <3>1, Zenon DEF update_paths_client
        <3> QED BY <2>2, <2>3, <3>1, <3>2, Zenon
    <2>4. CASE ~(connected /\ cpOk) BY <2>2, <2>4, Zenon
    <2> QED BY <2>3, <2>4, Zenon
<1>2. /\ cpPath' \in [CpIds -> CpPathSet]
      /\ \A i \in CpIds : cpPath'[i].held => cpPath[i].held /\ cpPath'[i] = cpPath[i]
    <2>1. cpPath \in [CpIds -> CpPathSet] BY DEF CpInv
    <2>2. /\ CpDrop(cpPath, D) \in [CpIds -> CpPathSet]
          /\ \A i \in CpIds : CpDrop(cpPath, D)[i].held =>
                cpPath[i].held /\ i \notin D /\ CpDrop(cpPath, D)[i] = cpPath[i]
        BY <2>1, CpDropKeeps, SMTT(20)
    <2> QED BY <1>1, <2>2, Zenon
<1>3. CpStrayStep BY <1>1, <1>2, CpFewer, Zenon
<1> QED BY <1>1, <1>2, <1>3, ZenonT(30) DEF CpInv

\* A build is answered: its path is in _paths, whether it was dropped meanwhile or not.
LEMMA CpBuiltStep ==
    ASSUME CpInv, NEW i \in CpIds, client_build_success(i)
    PROVE  CpInv' /\ CpStrayStep
<1>1. /\ cpPath[i] # CpNoPath
      /\ cpPath' = [cpPath EXCEPT ![i].est = TRUE, ![i].held = TRUE]
      /\ cpHop' = cpHop /\ cpIntros' = cpIntros /\ cpOk' = cpOk
      /\ UNCHANGED <<cpProcessed, cpLoop>>
    BY Zenon DEF client_build_success
<1>2. cpPath[i] \in CpPathSet BY DEF CpInv
<1>3. /\ cpPath'[i] \in CpPathSet /\ cpPath'[i].est
      /\ cpPath'[i].hop = cpPath[i].hop /\ cpPath'[i].rid = cpPath[i].rid
    BY <1>1, <1>2, Zenon DEF CpInv, CpPathSet
<1>4. \A j \in CpIds \ {i} : cpPath'[j] = cpPath[j] BY <1>1, Zenon DEF CpInv
<1>5. cpPath' \in [CpIds -> CpPathSet]
    <2>1. cpPath' = [j \in CpIds |-> cpPath'[j]] BY <1>1, Zenon DEF CpInv
    <2>2. \A j \in CpIds : cpPath'[j] \in CpPathSet BY <1>3, <1>4, ZenonT(30) DEF CpInv
    <2> QED BY <2>1, <2>2, Zenon
<1>6. ASSUME cpOk', NEW j \in CpIds, CpStray(j)'
      PROVE  \/ cpOk /\ CpStray(j)
             \/ cpPath[j] # CpNoPath /\ ~cpPath[j].held /\ cpPath'[j].est
    <2>1. cpPath'[j].hop = cpPath[j].hop /\ cpPath'[j].rid = cpPath[j].rid BY <1>3, <1>4, ZenonT(30)
    <2>2. CASE cpPath[j].held
        <3>1. cpOk /\ cpIntros' = cpIntros /\ cpHop' = cpHop BY <1>1, <1>6, Zenon
        <3>2. CpStray(j) BY <1>6, <2>1, <2>2, <3>1, ZenonT(30) DEF CpStray
        <3> QED BY <3>1, <3>2
    <2>3. CASE ~cpPath[j].held
        <3>1. j = i BY <1>4, <1>6, <2>3, Zenon DEF CpStray
        <3> QED BY <1>1, <1>3, <2>3, <3>1, Zenon
    <2> QED BY <2>2, <2>3
<1> QED BY <1>1, <1>5, <1>6, Zenon DEF CpInv, CpStrayStep

\* A build fails or a path dies, and is gone.
LEMMA CpDiesStep ==
    ASSUME CpInv, NEW i \in CpIds, CpPathDies(i)
    PROVE  CpInv' /\ CpStrayStep
<1>1. /\ cpPath' = [cpPath EXCEPT ![i] = CpNoPath]
      /\ UNCHANGED <<cpHop, cpIntros, cpProcessed, cpOk, cpLoop>>
    BY DEF CpPathDies
<1>2. CpNoPath \in CpPathSet /\ ~CpNoPath.held BY DEF CpNoPath, CpPathSet
<1>3. cpPath' \in [CpIds -> CpPathSet] BY <1>1, <1>2, Zenon DEF CpInv
<1>4. \A j \in CpIds : cpPath'[j] = cpPath[j] \/ cpPath'[j] = CpNoPath BY <1>1, Zenon DEF CpInv
<1>5. CpStrayStep BY <1>1, <1>2, <1>4, CpFewer, ZenonT(30)
<1> QED BY <1>1, <1>3, <1>5, Zenon DEF CpInv

\* The remote closes the session: its contact is no longer usable.
LEMMA CpCloseStep ==
    ASSUME CpInv, client_recv_close
    PROVE  CpInv' /\ CpStrayStep
<1>1. /\ cpPath' = CpDrop(cpPath, CpIds) /\ cpOk' = FALSE /\ cpLoop = 0
      /\ UNCHANGED <<cpHop, cpIntros, cpProcessed, cpLoop>>
    BY Zenon DEF client_recv_close
<1>2. cpPath' \in [CpIds -> CpPathSet] BY <1>1, CpDropKeeps, Zenon DEF CpInv
<1> QED BY <1>1, <1>2, Zenon DEF CpInv, CpStrayStep

\* Time runs down the lives of hops and paths and moves neither.
LEMMA CpTimeStep ==
    ASSUME CpInv, CpTime
    PROVE  CpInv' /\ CpStrayStep
<1> DEFINE older(r) == [r EXCEPT !.life = IF r.life = 0 THEN 0 ELSE r.life - 1]
<1>1. /\ cpHop' = [h \in CpHops |-> older(cpHop[h])]
      /\ cpPath' = [i \in CpIds |-> older(cpPath[i])]
      /\ UNCHANGED <<cpIntros, cpProcessed, cpOk, cpLoop>>
    BY DEF CpTime
<1>2. \A r \in CpPathSet :
        older(r) \in CpPathSet /\ older(r).hop = r.hop /\ older(r).rid = r.rid /\ older(r).held = r.held
    BY DEF CpPathSet
<1>3. \A r \in [rid : CpRelays, life : 0..4] :
        older(r) \in [rid : CpRelays, life : 0..4] /\ older(r).rid = r.rid
    OBVIOUS
<1> HIDE DEF older
<1>4. cpHop' \in [CpHops -> [rid : CpRelays, life : 0..4]] /\ \A h \in CpHops : cpHop'[h].rid = cpHop[h].rid
    BY <1>1, <1>3, Zenon DEF CpInv
<1>5. /\ cpPath' \in [CpIds -> CpPathSet]
      /\ \A i \in CpIds : /\ cpPath'[i].hop = cpPath[i].hop /\ cpPath'[i].rid = cpPath[i].rid
                          /\ cpPath'[i].held = cpPath[i].held
    BY <1>1, <1>2, ZenonT(30) DEF CpInv
<1>6. \A h \in cpIntros : cpHop'[h].rid = cpHop[h].rid BY <1>4, Zenon DEF CpInv
<1>7. CpStrayStep BY <1>1, <1>5, <1>6, CpFewer, ZenonT(30)
<1> QED BY <1>1, <1>4, <1>5, <1>7, Zenon DEF CpInv

\* Only a hop that no contact we use names gets a new path of the remote.
LEMMA CpRemoteStep ==
    ASSUME CpInv, NEW h \in CpHops, NEW r \in CpRelays, NEW e \in {3, 4}, CpRemoteBuilds(h, r, e)
    PROVE  CpInv' /\ CpStrayStep
<1>1. /\ h \notin cpIntros
      /\ cpHop' = [cpHop EXCEPT ![h] = [rid |-> r, life |-> e]]
      /\ UNCHANGED <<cpIntros, cpProcessed, cpOk, cpPath, cpLoop>>
    BY Zenon DEF CpRemoteBuilds
<1>2. cpHop' \in [CpHops -> [rid : CpRelays, life : 0..4]] BY <1>1 DEF CpInv
<1>3. \A x \in cpIntros : cpHop'[x] = cpHop[x] BY <1>1, Zenon DEF CpInv
<1>4. CpStrayStep BY <1>1, <1>3, CpFewer, Zenon
<1> QED BY <1>1, <1>2, <1>4, Zenon DEF CpInv

LEMMA CpStep == ASSUME CpInv, [CpNext]_cpvars PROVE CpInv' /\ (CpStrayStep \/ UNCHANGED cpvars)
<1>1. CASE CpBuild BY <1>1, CpBuildStep
<1>2. CASE \E I \in SUBSET {h \in CpHops : cpHop[h].life > 0} :
              \E looked \in BOOLEAN : update_intros(I, looked)
    <2>1. PICK I \in SUBSET {h \in CpHops : cpHop[h].life > 0}, looked \in BOOLEAN : update_intros(I, looked)
        BY <1>2
    <2>2. I \in SUBSET CpHops OBVIOUS
    <2> QED BY <2>1, <2>2, CpIntrosStep, Zenon
<1>3. CASE \E connected \in BOOLEAN : client_tick(connected) BY <1>3, CpTickStep
<1>4. CASE \E i \in CpIds : client_build_success(i) BY <1>4, CpBuiltStep
<1>5. CASE \E i \in CpIds : CpPathDies(i) BY <1>5, CpDiesStep
<1>6. CASE client_recv_close BY <1>6, CpCloseStep
<1>7. CASE CpTime BY <1>7, CpTimeStep
<1>8. CASE \E h \in CpHops : \E r \in CpRelays : \E e \in {3, 4} : CpRemoteBuilds(h, r, e)
    BY <1>8, CpRemoteStep, ZenonT(30)
<1>9. CASE UNCHANGED cpvars BY <1>9 DEF cpvars, CpInv
<1> QED BY <1>1, <1>2, <1>3, <1>4, <1>5, <1>6, <1>7, <1>8, <1>9, Zenon DEF CpNext

\* For any contacts, relays and number of paths: while the contact is usable, a session
\* to a client comes to hold a path the contact does not name only when the build of a
\* path it had dropped is answered, and an update of the intros leaves no such path.
THEOREM ClientPathsAligned == CpSpec => OnlyLateBuildsStray
<1>1. CpInit => CpInv
    <2> SUFFICES ASSUME CpInit PROVE CpInv OBVIOUS
    <2>1. cpHop \in [CpHops -> [rid : CpRelays, life : 0..4]] BY DEF CpInit
    <2>2. cpPath \in [CpIds -> CpPathSet] BY DEF CpInit, CpPathSet, CpNoPath
    <2> QED BY <2>1, <2>2, Zenon DEF CpInit, CpInv
<1>2. CpInv /\ [CpNext]_cpvars => CpInv' BY CpStep
<1>3. CpInv /\ [CpNext]_cpvars => [CpStrayStep]_cpvars BY CpStep
<1>4. CpSpec => [][CpStrayStep]_cpvars BY <1>1, <1>2, <1>3, PTL DEF CpSpec
<1> QED BY <1>4 DEF OnlyLateBuildsStray, CpStrayStep
=============================================================================
