---------------------------- MODULE ClientPaths ----------------------------
(***************************************************************************)
(* The paths of an outbound session to another client:                     *)
(* OutboundClientSession of session/session.cpp.  A path to a client ends  *)
(* at a relay where one of the client's own inbound paths ends too, so it  *)
(* is aligned with one hop of the client's contact and is worth nothing    *)
(* once that hop is gone.  OutboundRelay models the sessions to relays.    *)
(*                                                                         *)
(* Remaining life is graded: 3 and 4 are at least acceptable-expiry, 2 at  *)
(* least min-expiry, 1 less, 0 expired; it runs down for all paths         *)
(* together.  update_paths starts builds in a loop that nothing interrupts *)
(* (one thread), so the loop is the state cpLoop and blocks other steps.   *)
(***************************************************************************)
EXTENDS Naturals, FiniteSets

CONSTANTS
    CpRelays,       \* relays where the remote's inbound paths may end
    CpKnown,        \* those whose RC our NodeDB has
    CpHops,         \* hop ids of the remote's inbound paths
    CpIds,          \* our path objects
    CpTarget,       \* _target_paths
    CpNone, CpDead  \* no current path; a pointer to a path that died

ASSUME ClientPathsAssumption ==
    /\ CpKnown \subseteq CpRelays /\ CpTarget \in Nat
    /\ {CpNone, CpDead} \cap CpIds = {} /\ CpNone \notin CpHops

VARIABLES
    cpHop,          \* the remote's inbound paths: hop -> relay and life
    cpIntros,       \* _intros: the hops of the contact we use
    cpProcessed,    \* _intro_update_processed
    cpOk,           \* _cc_ok
    cpPath,         \* path objects: terminal relay, aligned_hopid, life, established, in _paths
    cpCurrent,      \* _current_path
    cpLoop          \* builds the running update_paths still wants to start

cpvars == <<cpHop, cpIntros, cpProcessed, cpOk, cpPath, cpCurrent, cpLoop>>

CpNoPath == [rid |-> CpNone, hop |-> CpNone, life |-> 0, est |-> FALSE, held |-> FALSE]
CpLive(P) == {i \in CpIds : P[i].held}

(* Dropping a path that is still being built takes it out of _paths only:  *)
(* the handler of the build's answer keeps the object.                     *)
CpDrop(P, D) ==
    [i \in CpIds |-> IF i \notin D THEN P[i] ELSE IF P[i].est THEN CpNoPath ELSE [P[i] EXCEPT !.held = FALSE]]

CpActive(P) == {i \in CpLive(P) : P[i].est /\ P[i].life > 0}
CpPointer(cur, D) == IF cur \in D THEN CpDead ELSE cur

CpInit ==
    /\ cpHop \in [CpHops -> [rid : CpRelays, life : {3, 4}]]
    /\ cpIntros = {} /\ cpProcessed = FALSE /\ cpOk = FALSE
    /\ cpPath = [i \in CpIds |-> CpNoPath]
    /\ cpCurrent = CpNone
    /\ cpLoop = 0

-----------------------------------------------------------------------------
CpMin(a, b) == IF a <= b THEN a ELSE b

(* What select_new_current may make current.  A path is graded by any      *)
(* intro at its terminal relay.                                            *)
CpGrades(P, I, i) == {CpMin(P[i].life, cpHop[h].life) : h \in {x \in I : cpHop[x].rid = P[i].rid}}

select_new_current_client(P, I) ==
    LET good == {i \in CpActive(P) : \E g \in CpGrades(P, I, i) : g >= 3}
        fallback == {i \in CpActive(P) : 2 \in CpGrades(P, I, i)}
    IN  IF good # {} THEN good ELSE IF fallback # {} THEN fallback ELSE {CpNone}

(* The paths a new contact leaves: those aligned with a hop it names.      *)
CpAligned_relay(P, I) == {i \in CpLive(P) : P[i].rid \in {cpHop[h].rid : h \in I}}
CpAligned(P, I) == {i \in CpLive(P) : \E h \in I : cpHop[h].rid = P[i].rid /\ h = P[i].hop}

(* num_paths(now + acceptable-expiry), and the current path if it is one   *)
(* that update_paths sticks with.                                          *)
CpNeeded(P, cur) ==
    LET have == Cardinality({i \in CpLive(P) : P[i].life >= 3})
                    + (IF cur \in CpIds /\ P[cur].life = 2 THEN 1 ELSE 0)
    IN  IF have >= CpTarget THEN 0 ELSE CpTarget - have

(* update_paths up to its loop, on paths P and intros I; no builds are     *)
(* started during a cooldown.                                              *)
update_paths_client(P, cur, I, processed) ==
    LET left == IF processed THEN P ELSE CpDrop(P, CpLive(P) \ CpAligned(P, I))
    IN  /\ cpPath' = left
        /\ cpProcessed' = TRUE
        /\ cpCurrent' \in IF cur \in CpLive(left) THEN {cur}
                          ELSE IF CpActive(left) = {} THEN {CpNone}
                          ELSE select_new_current_client(left, I)
        /\ cpLoop' \in {0, CpNeeded(left, cpCurrent')}

(* A contact arrives: looked up, or pushed by the remote through the       *)
(* session (handle_client_contact), which leaves _cc_ok as it is.          *)
update_intros(I, looked) ==
    /\ cpLoop = 0
    /\ cpIntros' = I
    /\ cpOk' = (cpOk \/ looked)
    /\ IF cpOk'
       THEN update_paths_client(cpPath, cpCurrent, I, FALSE)
       ELSE cpProcessed' = FALSE /\ UNCHANGED <<cpPath, cpCurrent, cpLoop>>
    /\ UNCHANGED cpHop

(* select_pivot: of the acceptable intros those whose relay has the fewest *)
(* paths, and of two at one relay the one that lasts longer.               *)
CpCount(r) == Cardinality({i \in CpLive(cpPath) : cpPath[i].rid = r})

CpPivots ==
    LET ok == {x \in cpIntros : cpHop[x].life >= 3}
    IN  {h \in ok : \A x \in ok : CpCount(cpHop[h].rid) <= CpCount(cpHop[x].rid)}

select_pivot ==
    {[rid |-> cpHop[h].rid, hop |-> h, life |-> cpHop[h].life] :
        h \in {x \in CpPivots : \A y \in CpPivots : cpHop[y].rid = cpHop[x].rid => cpHop[y].life <= cpHop[x].life}}

CpFree == {i \in CpIds : cpPath[i] = CpNoPath /\ i # cpCurrent}

(* One turn of the loop: a build that starts, one that cannot (no RC for   *)
(* the pivot, so no hops), or no pivot and the loop is left.               *)
CpBuild ==
    /\ cpLoop > 0
    /\ \/ /\ select_pivot = {} \/ CpFree = {}
          /\ cpLoop' = 0 /\ UNCHANGED cpPath
       \/ \E v \in select_pivot :
            IF v.rid \in CpKnown
            THEN /\ CpFree # {}
                 /\ cpPath' = [cpPath EXCEPT ![CHOOSE i \in CpFree : \A j \in CpFree : i <= j] =
                                   [rid |-> v.rid, hop |-> v.hop, life |-> v.life, est |-> FALSE, held |-> TRUE]]
                 /\ cpLoop' = cpLoop - 1
            ELSE UNCHANGED <<cpPath, cpLoop>>
    /\ UNCHANGED <<cpHop, cpIntros, cpProcessed, cpOk, cpCurrent>>

(* OutboundClientSession::tick: close_old_paths (for some order of the     *)
(* hash map), expire_paths, then update_paths if an edge is connected.     *)
CpOld ==
    LET spare == CpActive(cpPath) \ {cpCurrent}
        poor == {i \in spare : cpPath[i].life = 1}
        fair == {i \in spare : cpPath[i].life = 2}
    IN  IF \E i \in spare : cpPath[i].life >= 3 THEN {poor \cup F : F \in SUBSET fair} ELSE {poor}

client_tick(connected) ==
    \E old \in CpOld :
        LET gone == old \cup {i \in CpLive(cpPath) : cpPath[i].life = 0}
            left == CpDrop(cpPath, gone)
        IN  /\ cpLoop = 0
            /\ IF connected /\ cpOk
               THEN update_paths_client(left, CpPointer(cpCurrent, gone), cpIntros, cpProcessed)
               ELSE /\ cpPath' = left
                    /\ cpCurrent' = CpPointer(cpCurrent, gone)
                    /\ UNCHANGED <<cpProcessed, cpLoop>>
            /\ UNCHANGED <<cpHop, cpIntros, cpOk>>

(* A build is answered.  add_path asks nothing: a path dropped while it    *)
(* was being built is back in _paths, and may become the current one.      *)
client_build_success(i) ==
    /\ cpLoop = 0
    /\ cpPath[i] # CpNoPath /\ ~cpPath[i].est
    /\ cpPath' = [cpPath EXCEPT ![i].est = TRUE, ![i].held = TRUE]
    /\ cpCurrent' \in IF cpCurrent \in CpIds THEN {cpCurrent}
                      ELSE select_new_current_client(cpPath', cpIntros)
    /\ UNCHANGED <<cpHop, cpIntros, cpProcessed, cpOk, cpLoop>>

(* A build fails, or a path stops answering pings: it is dropped. *)
CpPathDies(i) ==
    /\ cpLoop = 0
    /\ cpPath[i] # CpNoPath
    /\ cpPath' = [cpPath EXCEPT ![i] = CpNoPath]
    /\ cpCurrent' = CpPointer(cpCurrent, {i})
    /\ UNCHANGED <<cpHop, cpIntros, cpProcessed, cpOk, cpLoop>>

client_recv_close ==
    /\ cpLoop = 0 /\ cpOk
    /\ cpPath' = CpDrop(cpPath, CpIds)
    /\ cpCurrent' = CpPointer(cpCurrent, CpIds)
    /\ cpOk' = FALSE
    /\ UNCHANGED <<cpHop, cpIntros, cpProcessed, cpLoop>>

CpTime ==
    /\ cpLoop = 0
    /\ cpHop' = [h \in CpHops |-> [cpHop[h] EXCEPT !.life = IF @ = 0 THEN 0 ELSE @ - 1]]
    /\ cpPath' = [i \in CpIds |-> [cpPath[i] EXCEPT !.life = IF @ = 0 THEN 0 ELSE @ - 1]]
    /\ UNCHANGED <<cpIntros, cpProcessed, cpOk, cpCurrent, cpLoop>>

(* The remote builds an inbound path in place of one that has expired. *)
CpRemoteBuilds(h, r, life) ==
    /\ cpLoop = 0
    /\ cpHop[h].life = 0 /\ h \notin cpIntros /\ \A i \in CpIds : cpPath[i].hop # h
    /\ cpHop' = [cpHop EXCEPT ![h] = [rid |-> r, life |-> life]]
    /\ UNCHANGED <<cpIntros, cpProcessed, cpOk, cpPath, cpCurrent, cpLoop>>

CpNext ==
    \/ CpBuild
    \/ \E I \in SUBSET {h \in CpHops : cpHop[h].life > 0} : \E looked \in BOOLEAN : update_intros(I, looked)
    \/ \E connected \in BOOLEAN : client_tick(connected)
    \/ \E i \in CpIds : client_build_success(i) \/ CpPathDies(i)
    \/ client_recv_close
    \/ CpTime
    \/ \E h \in CpHops : \E r \in CpRelays : \E life \in {3, 4} : CpRemoteBuilds(h, r, life)

-----------------------------------------------------------------------------

(* The variables stay within their ranges. *)
ClientPaths_TypeOK ==
    /\ cpIntros \subseteq CpHops
    /\ \A i \in CpIds : cpPath[i] # CpNoPath => cpPath[i].hop \in CpHops /\ cpPath[i].rid \in CpRelays
    /\ cpCurrent \in CpIds \cup {CpNone, CpDead}
    /\ cpLoop \in 0 .. CpTarget

(* A path in _paths that ends at no hop of the contact, or at a relay that *)
(* is not the one the contact names for the hop.                           *)
CpStray(i) ==
    /\ cpPath[i].held
    /\ ~\E h \in cpIntros : h = cpPath[i].hop /\ cpHop[h].rid = cpPath[i].rid

(* While its contact is usable, a session gets a path that is not aligned  *)
(* with the contact in one way only: the build of a path that was dropped  *)
(* is answered after all.  Every other step, the lookup that makes the     *)
(* contact usable again included, leaves no new stray path, and a contact  *)
(* with other intros leaves none: "it is not sufficient" that the relay is *)
(* still there, since the remote may have a new path to it.                *)
OnlyLateBuildsStray ==
    [][cpOk' => \A i \in CpIds : CpStray(i)' =>
          /\ cpIntros' = cpIntros
          /\ \/ cpOk /\ CpStray(i)
             \/ cpPath[i] # CpNoPath /\ ~cpPath[i].held /\ cpPath'[i].est]_cpvars

(* update_paths: "If we have any current path to a pivot that is no longer *)
(* in the client contact, kill it."  With a usable contact there is no     *)
(* stray path; a build that is answered late brings one back.              *)
NoStrayPaths == cpOk => \A i \in CpIds : ~CpStray(i)

(* update_paths returns to the event loop, "If we end up with too few      *)
(* paths then start some builds".  With no RC for any pivot that           *)
(* select_pivot may return, its loop starts none and never ends.           *)
UpdatePathsReturns == []<>(cpLoop = 0)

=============================================================================
