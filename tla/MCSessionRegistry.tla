------------------------- MODULE MCSessionRegistry -------------------------
(***************************************************************************)
(* What a client asks of its sessions, and what has to be answered: the    *)
(* registry of sessions with a relay and a client as remotes, the lookups  *)
(* of client contacts, and the stop of the whole node.  The parts share no *)
(* state; each behaviour is one of the part named by `part`, and the       *)
(* others stay as they start.                                              *)
(***************************************************************************)
EXTENDS SessionRegistry, Contacts, Lifecycle

CONSTANTS relay, client, s1, s2, c1, r1, r2, r3, Parts

MCRemote == {relay, client}
MCRelay == {relay}
MCSession == {s1, s2}
MCCallback == {c1}
MCRanks == <<<<r1, r2>>, <<r2, r1>>>>
MCRanks3 == <<<<r1, r2, r3>>, <<r2, r1, r3>>>>

VARIABLE part

\* The one initial state a part rests in while another one runs.
RestRegistry == Init /\ fetched = FALSE /\ last_tag = 0
RestContacts == CcInit /\ ccOld.st = "modern"
RestLifecycle == LcInit /\ lcRelay = FALSE

allvars == <<vars, ccvars, lcvars, part>>

MCInit ==
    /\ part \in Parts
    /\ IF part = "registry" THEN Init ELSE RestRegistry
    /\ IF part = "contacts" THEN CcInit ELSE RestContacts
    /\ IF part = "lifecycle" THEN LcInit ELSE RestLifecycle

MCNext ==
    \/ part = "registry" /\ Next /\ UNCHANGED <<ccvars, lcvars, part>>
    \/ part = "contacts" /\ CcNext /\ UNCHANGED <<vars, lcvars, part>>
    \/ part = "lifecycle" /\ LcNext /\ UNCHANGED <<vars, ccvars, part>>

(* Each part's fairness, while it is the one that runs.  Jobs of the event loop run, the
   router's tick and the refresh of the contact keep firing, a lookup is answered or times
   out, and a thread that can go on does. *)
MCFairness ==
    /\ \A s \in Session : WF_vars(part = "registry" /\ cleanup(s))
    /\ WF_vars(part = "registry" /\ \E E \in SUBSET Registered : tick(E, owed))
    /\ WF_ccvars(part = "contacts" /\ refresh_intros)
    /\ \A i \in CcIndex :
        /\ WF_ccvars(part = "contacts" /\ handle_find_cc(i))
        /\ WF_ccvars(part = "contacts" /\ (CcAnswer(i) \/ CcTimeout(i)))
    /\ WF_lcvars(part = "lifecycle" /\ (LcHaltJob \/ LcStopBegin \/ LcStopEnd))
    /\ WF_lcvars(part = "lifecycle" /\ (LcWait \/ LcDestroy \/ LcDestructorWait \/ LcDelete))
    /\ \A c \in LcCallers : WF_lcvars(part = "lifecycle" /\ router_stop(c))

MCSpec == MCInit /\ [][MCNext]_allvars /\ MCFairness

(* The variables of the session registry, of contact lookups and of the node's lifecycle keep their types. *)
Sessions_TypeOK == SessionRegistry_TypeOK /\ Contacts_TypeOK /\ Lifecycle_TypeOK
=============================================================================
