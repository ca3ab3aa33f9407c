------------------------------ MODULE Contacts ------------------------------
(***************************************************************************)
(* How the contact of a client (the relays and hops where its inbound      *)
(* paths end) gets from the client to the sessions of another client:      *)
(* published to the closest relays and kept in their ContactDB, looked up  *)
(* there by several requests at once, cached, and taken up by an outbound  *)
(* session (handlers/session.cpp, session/session.cpp, contact/contactdb.cpp *)
(* and the find_cc and publish_cc handlers of link/link_manager.cpp).      *)
(*                                                                         *)
(* There is one publishing client and one session that wants its contact,  *)
(* each with one active path at a time, and one lookup at a time.          *)
(* A contact is its signing time and the expiry of its latest intro.  A    *)
(* block of the chain may change which relays are closest; relays see it   *)
(* at different times.  Requests and answers can be lost, and then time    *)
(* out; a request over a path whose edge has no known relay contact is     *)
(* dropped and never answered (Endpoint::send_command).                    *)
(***************************************************************************)
EXTENDS Integers, Sequences, SequencesExt, FiniteSets

CONSTANTS
    CcRelay,      \* relays
    CcRanking,    \* the relays, closest first, before and after the block
    CcLocations,  \* CC_PUBLISH_LOCATIONS
    CcLifetime,   \* MAX_LIFETIME_ACCEPTED
    CcIntroLife,  \* for how long the latest intro of a contact is valid
    CcMaxSigned,  \* bound: the last instant at which a contact is signed
    CcMaxTime     \* bound: the clock; and one contact is published per instant

ASSUME ContactsAssumption ==
    /\ CcLocations \in Nat \ {0} /\ CcLifetime \in Nat \ {0} /\ CcMaxTime \in Nat \ {0}
    /\ CcIntroLife \in 1..CcLifetime /\ CcMaxSigned \in 1..CcMaxTime
    /\ CcRanking \in [1..2 -> Seq(CcRelay)]
    /\ \A i \in 1..2 : Len(CcRanking[i]) >= CcLocations

VARIABLES
    ccNow,      \* the clock
    ccBlock,    \* the ranking every relay knows
    ccDb,       \* ContactDB::_storage of every relay
    ccWire,     \* publish_cc requests under way
    ccPushed,   \* contacts under way to the session over its own path
    ccSigned,   \* the newest contact the publisher has signed
    ccAsk,      \* the find_cc requests of the lookup, by storage index
    ccLook,     \* the lookup: remaining, calls of func, and was a request dropped
    ccCache,    \* _cc_cache, the entry of the publisher
    ccSess,     \* the session: _cc_ok, _cc_last_signed, _updating_intros
    ccOld       \* a find_cc without an index, as a 1.0.1 client sends it

ccvars == <<ccNow, ccBlock, ccDb, ccWire, ccPushed, ccSigned, ccAsk, ccLook, ccCache, ccSess, ccOld>>

CcTime == 0..CcMaxTime
CcIndex == 0..(CcLocations - 1)

\* at 0 is no contact.  (signed_at 0 is the epoch)
CcRecord == [at : CcTime, exp : 0..(CcMaxTime + CcLifetime)]
CcNone == [at |-> 0, exp |-> 0]

CcRequest == [st : {"idle", "relay", "back"}, at : CcRelay \cup {"client"},
              val : CcRecord \cup {CcNone}]
CcIdle == [st |-> "idle", at |-> "client", val |-> CcNone]

CcInit ==
    /\ ccNow = 1
    /\ ccBlock = [r \in CcRelay |-> 1]
    /\ ccDb = [r \in CcRelay |-> CcNone]
    /\ ccWire = {} /\ ccPushed = {} /\ ccSigned = CcNone
    /\ ccAsk = [i \in CcIndex |-> CcIdle]
    /\ ccLook = [rem |-> 0, calls |-> 1, dropped |-> FALSE]
    /\ ccCache = [set |-> FALSE, cc |-> CcNone, exp |-> 0]
    /\ ccSess = [ok |-> FALSE, last |-> 0, updating |-> FALSE]
    /\ ccOld \in {[st |-> st, rem |-> 0, asked |-> {}, answers |-> <<>>] : st \in {"modern", "legacy"}}

\* find_many_closest_to: the n closest relays by ranking b.
CcClosest(b, n) ==
    LET all == CcRanking[b]
    IN SubSeq(all, 1, IF n < Len(all) THEN n ELSE Len(all))

-----------------------------------------------------------------------------
\* The pivot of a path, which may learn of the block before it gets there,
\* forwards the request for every location i to relay f[i], or is f[i] itself.
CcForwards(pivot) ==
    {[i \in CcIndex |-> CcClosest(b, CcLocations)[i + 1]] : b \in ccBlock[pivot]..2}

\* update_and_publish_localcc and publish_client_contact: the contact goes down
\* the inbound sessions, and to every location over the path at hand; pivots
\* pass it on (handle_publish_cc over a path).
publish_client_contact ==
    \E pivot \in CcRelay :
        \E f \in CcForwards(pivot) :
            LET cc == [at |-> ccNow, exp |-> ccNow + CcIntroLife]
            IN /\ ccSigned.at < ccNow /\ ccNow <= CcMaxSigned
               /\ ccSigned' = cc
               /\ ccPushed' = IF ccSess.ok THEN ccPushed \cup {cc} ELSE ccPushed
               /\ ccWire' = ccWire \cup {[to |-> f[i], direct |-> f[i] = pivot, cc |-> cc] : i \in CcIndex}
               /\ UNCHANGED <<ccNow, ccBlock, ccDb, ccAsk, ccLook, ccCache, ccSess, ccOld>>

\* ContactDB::put_cc: a record that is not newer is dropped.
put_cc(r, cc) == ccDb' = [ccDb EXCEPT ![r] = IF @.at >= cc.at THEN @ ELSE cc]

\* handle_publish_cc at the relay that is to store it.  One that is too old is
\* refused; one forwarded to us is stored if we are close enough, with one
\* location to spare for a block the sender has not seen.
handle_publish_cc(m) ==
    /\ ccWire' = ccWire \ {m}
    /\ IF /\ m.cc.at >= ccNow - CcLifetime
          /\ m.direct \/ Contains(CcClosest(ccBlock[m.to], CcLocations + 1), m.to)
       THEN put_cc(m.to, m.cc) ELSE UNCHANGED ccDb
    /\ UNCHANGED <<ccNow, ccBlock, ccPushed, ccSigned, ccAsk, ccLook, ccCache, ccSess, ccOld>>

\* get_encrypted_cc; and purge_ccs, which drops what it would not return.
get_encrypted_cc(r) == IF ccNow >= ccDb[r].at + CcLifetime THEN CcNone ELSE ccDb[r]

purge_ccs(r) ==
    /\ ccDb[r] # CcNone /\ ccNow > ccDb[r].at + CcLifetime
    /\ ccDb' = [ccDb EXCEPT ![r] = CcNone]
    /\ UNCHANGED <<ccNow, ccBlock, ccWire, ccPushed, ccSigned, ccAsk, ccLook, ccCache, ccSess, ccOld>>

\* handle_find_cc at the relay asked: answered from the local store, whatever
\* our place is.
handle_find_cc(i) ==
    /\ ccAsk[i].st = "relay"
    /\ ccAsk' = [ccAsk EXCEPT ![i].st = "back", ![i].val = get_encrypted_cc(ccAsk[i].at)]
    /\ UNCHANGED <<ccNow, ccBlock, ccDb, ccWire, ccPushed, ccSigned, ccLook, ccCache, ccSess, ccOld>>

\* handle_find_cc without an index: answered here, or by the closest relays.
CcOldFind(p) ==
    LET closest == CcClosest(ccBlock[p], CcLocations)
        here == Contains(closest, p) /\ get_encrypted_cc(p) # CcNone
        ask == IF here THEN {} ELSE ToSet(closest) \ {p}
    IN /\ ccOld.st = "legacy"
       /\ ccOld' = [st |-> "open", rem |-> Cardinality(ask), asked |-> ask,
                    answers |-> IF here THEN <<"ok">> ELSE <<>>]
       /\ UNCHANGED <<ccNow, ccBlock, ccDb, ccWire, ccPushed, ccSigned, ccAsk, ccLook, ccCache, ccSess>>

\* The hook of such a request, for the answer or the failure of relay r.
CcOldHook(r, ok) ==
    /\ r \in ccOld.asked
    /\ ccOld' = [ccOld EXCEPT
          !.asked = @ \ {r},
          !.rem = IF @ = 0 \/ ok THEN 0 ELSE @ - 1,
          !.answers = IF ccOld.rem = 0 \/ (~ok /\ ccOld.rem = 1) THEN @
                      ELSE Append(@, IF ok THEN "ok" ELSE "fail")]
    /\ UNCHANGED <<ccNow, ccBlock, ccDb, ccWire, ccPushed, ccSigned, ccAsk, ccLook, ccCache, ccSess>>

-----------------------------------------------------------------------------
\* update_cc: the entry after cc (or the failure to find one) was offered.
update_cc(cc) ==
    LET new == [set |-> TRUE, cc |-> cc, exp |-> IF cc = CcNone THEN ccNow + 1 ELSE cc.exp]
    IN IF \/ ~ccCache.set \/ ccCache.cc = CcNone \/ ccCache.exp < ccNow
          \/ cc # CcNone /\ cc.at > ccCache.cc.at
       THEN new ELSE ccCache

\* update_intros, for what became of the contact.
update_intros(s, cc) == [s EXCEPT !.last = cc.at]

\* Mutant: a failed lookup leaves _updating_intros set.
CcRefreshed_stuck(cc) ==
    ccSess' = IF cc = CcNone THEN ccSess
              ELSE IF ~ccSess.ok /\ cc.at <= ccSess.last THEN [ccSess EXCEPT !.updating = FALSE]
              ELSE update_intros([ccSess EXCEPT !.updating = FALSE, !.ok = TRUE], cc)

\* The callback of refresh_intros: after a close only a newer contact will do.
CcRefreshed(cc) ==
    LET s == [ccSess EXCEPT !.updating = FALSE]
    IN ccSess' = IF cc = CcNone \/ (~s.ok /\ cc.at <= s.last) THEN s
                 ELSE update_intros([s EXCEPT !.ok = TRUE], cc)

\* refresh_intros and lookup_client_intro (no cache): one request for every
\* storage index, which the pivot passes on (handle_find_cc with an index).  Over
\* a path whose edge has no known relay contact they are dropped.
refresh_intros ==
    /\ ccOld.st = "modern" /\ ~ccSess.updating /\ \A i \in CcIndex : ccAsk[i] = CcIdle
    /\ ccSess' = [ccSess EXCEPT !.updating = TRUE]
    /\ \E pivot \in CcRelay, sent \in BOOLEAN : \E f \in CcForwards(pivot) :
        /\ ccAsk' = [i \in CcIndex |->
                IF sent THEN [st |-> "relay", at |-> f[i], val |-> CcNone] ELSE CcIdle]
        /\ ccLook' = [rem |-> CcLocations, calls |-> 0, dropped |-> ~sent]
    /\ UNCHANGED <<ccNow, ccBlock, ccDb, ccWire, ccPushed, ccSigned, ccCache, ccOld>>

\* Without an active path the callback is called at once.
CcNoPaths ==
    /\ ccOld.st = "modern" /\ ~ccSess.updating /\ \A i \in CcIndex : ccAsk[i] = CcIdle
    /\ ccLook' = [rem |-> 0, calls |-> 1, dropped |-> FALSE]
    /\ UNCHANGED <<ccNow, ccBlock, ccDb, ccWire, ccPushed, ccSigned, ccAsk, ccCache, ccSess, ccOld>>

\* The response handler of lookup_client_intro: the first contact is given to
\* the callback, later ones only to the cache; the last failure is reported.
\* What the callback gets is the cache entry.
CcHandler(i, cc) ==
    LET rem == ccLook.rem - 1
        call == IF cc # CcNone THEN rem >= 0 ELSE rem = 0
        entry == update_cc(cc)
    IN /\ ccAsk' = [ccAsk EXCEPT ![i] = CcIdle]
       /\ ccCache' = IF cc # CcNone \/ rem = 0 THEN entry ELSE ccCache
       /\ ccLook' = [ccLook EXCEPT !.rem = IF cc # CcNone /\ rem > 0 THEN 0 ELSE rem,
                                   !.calls = IF call THEN @ + 1 ELSE @]
       /\ IF call THEN CcRefreshed(entry.cc) ELSE UNCHANGED ccSess
       /\ UNCHANGED <<ccNow, ccBlock, ccDb, ccWire, ccPushed, ccSigned, ccOld>>

\* An answer comes back, or a request times out.
CcAnswer(i) == ccAsk[i].st = "back" /\ CcHandler(i, ccAsk[i].val)
CcTimeout(i) ==
    /\ ccAsk[i].st = "relay" \/ ccAsk[i].val # CcNone
    /\ CcHandler(i, CcNone)

\* OutboundClientSession::handle_client_contact: a contact pushed to us.
handle_client_contact(cc) ==
    /\ cc \in ccPushed
    /\ ccPushed' = ccPushed \ {cc}
    /\ ccCache' = update_cc(cc)
    /\ ccSess' = update_intros(ccSess, update_cc(cc).cc)
    /\ UNCHANGED <<ccNow, ccBlock, ccDb, ccWire, ccSigned, ccAsk, ccLook, ccOld>>

\* OutboundClientSession::recv_close: the paths, and what is under way over
\* them, are gone.
recv_close_client ==
    /\ ccSess.ok
    /\ ccSess' = [ccSess EXCEPT !.ok = FALSE]
    /\ ccPushed' = {}
    /\ UNCHANGED <<ccNow, ccBlock, ccDb, ccWire, ccSigned, ccAsk, ccLook, ccCache, ccOld>>

-----------------------------------------------------------------------------
CcLose(m) ==
    /\ ccWire' = ccWire \ {m}
    /\ UNCHANGED <<ccNow, ccBlock, ccDb, ccPushed, ccSigned, ccAsk, ccLook, ccCache, ccSess, ccOld>>

\* Relay r learns of the block.
CcNewBlock(r) ==
    /\ ccBlock[r] = 1
    /\ ccBlock' = [ccBlock EXCEPT ![r] = 2]
    /\ UNCHANGED <<ccNow, ccDb, ccWire, ccPushed, ccSigned, ccAsk, ccLook, ccCache, ccSess, ccOld>>

CcTick ==
    /\ ccNow < CcMaxTime
    /\ ccNow' = ccNow + 1
    /\ UNCHANGED <<ccBlock, ccDb, ccWire, ccPushed, ccSigned, ccAsk, ccLook, ccCache, ccSess, ccOld>>

CcNext ==
    \/ publish_client_contact \/ refresh_intros \/ CcNoPaths \/ recv_close_client \/ CcTick
    \/ \E m \in ccWire : handle_publish_cc(m) \/ CcLose(m)
    \/ \E r \in CcRelay : purge_ccs(r) \/ CcNewBlock(r) \/ CcOldFind(r) \/ \E ok \in BOOLEAN : CcOldHook(r, ok)
    \/ \E i \in CcIndex : handle_find_cc(i) \/ CcAnswer(i) \/ CcTimeout(i)
    \/ \E cc \in ccPushed : handle_client_contact(cc)

-----------------------------------------------------------------------------
Contacts_TypeOK ==
    /\ ccNow \in CcTime /\ ccBlock \in [CcRelay -> 1..2]
    /\ ccDb \in [CcRelay -> CcRecord] /\ ccSigned \in CcRecord /\ ccPushed \subseteq CcRecord
    /\ ccWire \subseteq [to : CcRelay, direct : BOOLEAN, cc : CcRecord]
    /\ ccAsk \in [CcIndex -> CcRequest]
    /\ ccLook \in [rem : (-CcLocations)..CcLocations, calls : 0..CcLocations, dropped : BOOLEAN]
    /\ ccCache \in [set : BOOLEAN, cc : CcRecord, exp : 0..(CcMaxTime + CcLifetime)]
    /\ ccSess \in [ok : BOOLEAN, last : CcTime, updating : BOOLEAN]

\* Some relay that every lookup asks has a contact the session would take.
CcNewerHeld ==
    \E r \in CcRelay :
        /\ \A b \in 1..2 : Contains(SubSeq(CcRanking[b], 1, CcLocations), r)
        /\ get_encrypted_cc(r).at > ccSess.last /\ ccDb[r].exp >= ccNow

(***************************************************************************)
(* A stale replica cannot keep a session from a newer contact: a session   *)
(* whose remote closed it is usable again once one of the relays it asks   *)
(* holds a newer contact and requests no longer time out, even if an older *)
(* one always answers first.                                               *)
(***************************************************************************)
NewerContactFound ==
    ccOld.st = "modern" /\ []~ccLook.dropped /\ <>[][\A i \in CcIndex : ~CcTimeout(i)]_ccvars
        => []<>(ccSess.ok \/ ~CcNewerHeld)

(***************************************************************************)
(* The comment in handle_find_cc says of a failed request: "This was an    *)
(* error, but there are more responses to come back", and the log line     *)
(* that follows says that all requests failed: a failure goes back to the  *)
(* client only once no request is outstanding.                             *)
(***************************************************************************)
FailureIsLast == Contains(ccOld.answers, "fail") => ccOld.asked = {}

(***************************************************************************)
(* The comment in lookup_client_intro says that a callback that sees 0     *)
(* "is responsible for sending an error": a lookup without outstanding     *)
(* requests has been answered.                                             *)
(***************************************************************************)
LookupAnswered == (\A i \in CcIndex : ccAsk[i] = CcIdle) => ~ccSess.updating
=============================================================================
