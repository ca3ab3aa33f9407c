---------------------------- MODULE HopSelection ----------------------------
(***************************************************************************)
(* Choosing the relays of a path: select_first_hop and                     *)
(* select_hops_to_remote of path_handler.cpp, and the profiles of          *)
(* profiling.cpp they avoid bad relays with.  Of the counters of a profile *)
(* only path_timeout decides: path_fail is never incremented (nothing      *)
(* calls path_fail or hop_fail), so checkIsGood is always true.            *)
(***************************************************************************)
EXTENDS Integers, Sequences, FiniteSets

CONSTANTS
    HopRelay,         \* relays whose RC is known
    HopNet,           \* the netmask range each relay's address is in
    HopNumHops,       \* values of _num_hops
    HopBuildLength,   \* BUILD_LENGTH
    HopChances,       \* profiling_chances, used for the first hop
    HopMaxTimeouts    \* bound: path_timeout of a profile

ASSUME HopSelectionAssumption ==
    /\ HopNumHops \subseteq 1..HopBuildLength
    /\ HopBuildLength \in Nat /\ HopBuildLength >= 3 /\ HopChances \in Nat \ {0} /\ HopMaxTimeouts \in Nat

VARIABLES
    hopConf,      \* netmask: unique_hop_netmask is set; hops: _num_hops
    hopConn,      \* get_current_relays: the relays we are connected to
    hopTimeouts,  \* path_timeout of each profile
    hopDecayed,   \* relays whose last_decay is a real time
    hopWraps,     \* now - sys_ms::min() wraps to a negative number
    hopPath       \* the hops of the build under way; empty if there is none

hopvars == <<hopConf, hopConn, hopTimeouts, hopDecayed, hopWraps, hopPath>>

HopInit ==
    /\ hopConf \in [netmask : BOOLEAN, hops : HopNumHops]
    /\ hopConn = {}
    /\ hopTimeouts = [r \in HopRelay |-> 0]
    /\ hopDecayed = {}
    /\ hopWraps \in BOOLEAN
    /\ hopPath = << >>

is_bad_for_path(r, chances) == hopTimeouts[r] > chances

\* The filter of select_hops_to_remote: used relays, and used ranges.
HopFilter(r, used) ==
    /\ r \notin used
    /\ hopConf.netmask => \A u \in used : HopNet[u] # HopNet[r]
    /\ ~is_bad_for_path(r, 1)

\* The relays the reservoir sample draws from: connected, and not profiled bad.
select_first_hop(pred) == {r \in hopConn \cap pred : ~is_bad_for_path(r, HopChances)}

\* The first hops a path to pivot may get, and whether it is extended by a hop.
HopFirst(pivot) ==
    LET apart == select_first_hop({r \in HopRelay : HopFilter(r, {pivot})})
        other == select_first_hop(HopRelay \ {pivot})
    IN IF hopConf.netmask /\ apart # {} THEN [from |-> apart, extend |-> FALSE]
       ELSE IF other # {} THEN [from |-> other, extend |-> hopConf.netmask]
       ELSE [from |-> {pivot}, extend |-> TRUE]

\* Hops taken one at a time: the sequences of n relays, each acceptable next to
\* the pivot, the first hop and the hops before it.
HopMiddles(used, n) ==
    {s \in [1..n -> HopRelay] :
        \A i \in 1..n : HopFilter(s[i], used \cup {s[j] : j \in 1..(i - 1)})}

\* Mutant: a path over its own pivot is not extended.
HopExtra_never(extend, left) == 0

\* extend_path adds a hop while the path is short enough.
HopExtra(extend, left) == IF extend /\ left < HopBuildLength - 2 THEN 1 ELSE 0

\* select_hops_to_remote: the paths it may return.
select_hops_to_remote(pivot) ==
    IF hopConf.hops = 1 THEN {<<pivot>>}
    ELSE LET first == HopFirst(pivot)
             left == hopConf.hops - 2
             n == left + HopExtra(first.extend, left)
         IN UNION {{<<f>> \o s \o <<pivot>> : s \in HopMiddles({pivot, f}, n)} : f \in first.from}

\* build_path_to_remote, one build at a time; when too few relays are acceptable
\* there is nothing to build.
build_path_to_remote(pivot) ==
    /\ hopPath = << >>
    /\ hopPath' \in select_hops_to_remote(pivot)
    /\ UNCHANGED <<hopConf, hopConn, hopTimeouts, hopDecayed, hopWraps>>

HopsOf(p) == {p[i] : i \in 1..Len(p)}

\* path_build_failed and path_build_succeeded: only a timeout is profiled.
HopBuildEnds(outcome) ==
    /\ hopPath # << >>
    /\ hopPath' = << >>
    /\ hopTimeouts' = [r \in HopRelay |->
          IF r \notin HopsOf(hopPath) THEN hopTimeouts[r]
          ELSE IF outcome = "success" THEN 0
          ELSE IF outcome = "timeout" /\ hopTimeouts[r] < HopMaxTimeouts THEN hopTimeouts[r] + 1
          ELSE hopTimeouts[r]]
    /\ UNCHANGED <<hopConf, hopConn, hopDecayed, hopWraps>>

\* Profiling::tick, with more than 30s since the last: last_decay starts as
\* sys_ms::min(), and the time since then does not fit 64 bits.
HopTick ==
    /\ LET decays == {r \in HopRelay : r \in hopDecayed \/ ~hopWraps}
       IN /\ hopTimeouts' = [r \in HopRelay |->
                IF r \in decays THEN hopTimeouts[r] \div 2 ELSE hopTimeouts[r]]
          /\ hopDecayed' = hopDecayed \cup decays
    /\ UNCHANGED <<hopConf, hopConn, hopWraps, hopPath>>

\* Connections to relays come and go.
HopConnChange(r) ==
    /\ hopConn' = (hopConn \ {r}) \cup ({r} \ hopConn)
    /\ UNCHANGED <<hopConf, hopTimeouts, hopDecayed, hopWraps, hopPath>>

HopNext ==
    \/ \E r \in HopRelay : build_path_to_remote(r) \/ HopConnChange(r)
    \/ \E o \in {"success", "timeout", "failure"} : HopBuildEnds(o)
    \/ HopTick

-----------------------------------------------------------------------------
\* The type of the state.
HopSelection_TypeOK ==
    /\ hopConn \subseteq HopRelay /\ hopDecayed \subseteq HopRelay
    /\ hopTimeouts \in [HopRelay -> 0..HopMaxTimeouts]
    /\ hopConf.netmask \in BOOLEAN /\ hopConf.hops \in HopNumHops /\ hopWraps \in BOOLEAN
    /\ HopsOf(hopPath) \subseteq HopRelay /\ Len(hopPath) <= HopBuildLength

(***************************************************************************)
(* Every path select_hops_to_remote returns can be built and keeps its     *)
(* hops apart: no relay follows itself (client-A-A is not a valid path), a *)
(* relay occurs twice only as first and last hop, the hops between share   *)
(* no range with another hop, and a path whose ends share a range under    *)
(* the netmask is one hop longer than configured, if that is possible.     *)
(***************************************************************************)
HopsKeptApart ==
    LET n == Len(hopPath)
    IN n > 0 =>
        /\ n <= HopBuildLength /\ n \in {hopConf.hops, hopConf.hops + 1}
        /\ \A i \in 1..(n - 1) : hopPath[i] # hopPath[i + 1]
        /\ \A i, j \in 1..n : i < j /\ hopPath[i] = hopPath[j] => i = 1 /\ j = n
        /\ hopConf.netmask =>
              /\ \A i, j \in 1..n : i # j /\ {i, j} # {1, n} => HopNet[hopPath[i]] # HopNet[hopPath[j]]
              /\ n > 1 /\ HopNet[hopPath[1]] = HopNet[hopPath[n]] /\ hopConf.hops < HopBuildLength
                    => n = hopConf.hops + 1

(***************************************************************************)
(* path_handler.cpp: "we can only select from edge routers we have         *)
(* established connections to".  The first hop of a path of two hops or    *)
(* more is connected when it is selected.                                  *)
(***************************************************************************)
FirstHopIsEdge ==
    [][hopPath' # hopPath /\ Len(hopPath') > 1 => hopPath'[1] \in hopConn]_hopvars
=============================================================================
