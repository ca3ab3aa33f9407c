------------------------------ MODULE Relaying ------------------------------
(***************************************************************************)
(* Paths at the relays: the build onion (path_handler.cpp), the transit    *)
(* hops it leaves at every relay (path_context.cpp), and how the relays    *)
(* pass session messages along a path, over the pivot and down the         *)
(* recipient's path (handle_path_build and handle_session_message of       *)
(* link_manager.cpp, encrypt_path_message of path.cpp).                    *)
(*                                                                         *)
(* Encryption is symbolic.  xchacha20 is its own inverse: applying it with *)
(* a key and a nonce toggles that layer, and a text is readable when no    *)
(* layer is left.  A nonce is the set of factors xored into the random     *)
(* one it started as.  Time is in half seconds.                            *)
(***************************************************************************)
EXTENDS Integers, Sequences

CONSTANTS
    RlPath,        \* the paths; each belongs to a client of its own
    RlHops,        \* the relays of each path, first hop first
    RlExpiry,      \* the lifetimes a path may be built with
    RlMaxLife,     \* MAX_LIFETIME_ACCEPTED
    RlMaxTime      \* bound: time

ASSUME RelayingAssumption ==
    /\ RlExpiry \subseteq Nat \ {0} /\ RlMaxLife \in Nat /\ RlMaxTime \in Nat
    /\ \A p \in RlPath : Len(RlHops[p]) \in Nat \ {0}

VARIABLES
    rlNow,     \* the time
    rlClient,  \* the path at its client: build state and _expiry
    rlTable,   \* _transit_hops of every relay: hop ids and their hops
    rlBuild,   \* the path_build request or response, and the hops waiting for it
    rlMsg      \* the message on its way, or the last that arrived

rlvars == <<rlNow, rlClient, rlTable, rlBuild, rlMsg>>

RlRelay == UNION {{RlHops[p][k] : k \in 1..Len(RlHops[p])} : p \in RlPath}
RlLen(p) == Len(RlHops[p])

\* The hop ids of Path::Path: the rxid of a hop is the txid of the hop before, and
\* the pivot's two ids are equal.
RlRx(p, k) == <<p, k - 1>>
RlTx(p, k) == IF k = RlLen(p) THEN RlRx(p, k) ELSE <<p, k>>
RlToggle(S, x) == (S \ {x}) \cup ({x} \ S)

RlNone == [kind |-> "none"]

RlInit ==
    /\ rlNow = 0
    /\ rlClient = [p \in RlPath |-> [st |-> "none", expiry |-> 0]]
    /\ rlTable = [r \in RlRelay |-> {}]
    /\ rlBuild = [p \in RlPath |-> RlNone]
    /\ rlMsg = RlNone

-----------------------------------------------------------------------------
\* round<seconds>(expires_in), to the even second when halfway; in half seconds.
RlLifetime(e) == IF e % 2 = 0 THEN e ELSE IF e % 4 = 3 THEN e + 1 ELSE e - 1

\* What frame k tells its relay, in either version of the format; the upstream of
\* the pivot is the pivot.
encode_frame(p, k, e) ==
    [layers |-> {}, life |-> RlLifetime(e), rx |-> RlRx(p, k), tx |-> RlTx(p, k),
     upstream |-> RlHops[p][IF k = RlLen(p) THEN k ELSE k + 1]]

\* path_build_onion: from the last hop to the first, the frames after a hop's own
\* get a layer of that hop's key, so a frame has one of every hop before it.
path_build_onion(p, e) == [j \in 1..RlLen(p) |-> [encode_frame(p, j, e) EXCEPT !.layers = 1..j - 1]]

\* The client sends the build; _expiry is the time it will give the path up.  One
\* build at a time bounds the model.
send_path_build(p, e) ==
    /\ rlClient[p].st = "none" /\ \A q \in RlPath : rlBuild[q] = RlNone
    /\ rlClient' = [rlClient EXCEPT ![p] = [st |-> "building", expiry |-> rlNow + e]]
    /\ rlBuild' = [rlBuild EXCEPT ![p] = [kind |-> "request", k |-> 1,
                                          frames |-> path_build_onion(p, e), held |-> << >>]]
    /\ UNCHANGED <<rlNow, rlTable, rlMsg>>

has_transit_hop(r, id) == \E x \in rlTable[r] : x.id = id

\* Both ids lead to the hop; emplace leaves an id that is taken alone.
put_transit_hop(r, p, k, expiry) ==
    [rlTable EXCEPT ![r] = @ \cup
        {x \in {[id |-> id, path |-> p, k |-> k, expiry |-> expiry] : id \in {RlRx(p, k), RlTx(p, k)}} :
            ~has_transit_hop(r, x.id)}]

\* decrypt_build_frame: the frame can be read at relay r, and its ids are equal just
\* when r is the end of the path.
decrypt_build_frame(f, r) == f.layers = {} /\ ((f.upstream = r) <=> (f.tx = f.rx))

\* handle_path_build at hop k: refused for a frame that cannot be read, a lifetime
\* out of range, ids in use, or when the upstream relay is unknown or unreachable.
\* Else the pivot stores its hop and answers, and any other relay removes its layer
\* from the frames that follow and holds its hop until the answer comes.
handle_path_build(p, reachable) ==
    LET b == rlBuild[p]
        r == RlHops[p][b.k]
        f == b.frames[b.k]
        expiry == rlNow + f.life
        following == [j \in 1..RlLen(p) |-> [b.frames[j] EXCEPT !.layers = RlToggle(@, b.k)]]
        valid == /\ decrypt_build_frame(f, r)
                 /\ expiry <= rlNow + RlMaxLife /\ expiry > rlNow
                 /\ ~has_transit_hop(r, f.rx) /\ ~has_transit_hop(r, f.tx)
    IN /\ b.kind = "request"
       /\ IF ~valid \/ (f.upstream # r /\ ~reachable)
          THEN /\ rlBuild' = [rlBuild EXCEPT ![p] = [b EXCEPT !.kind = "error", !.k = b.k - 1]]
               /\ UNCHANGED rlTable
          ELSE IF f.upstream = r
          THEN /\ rlTable' = put_transit_hop(r, p, b.k, expiry)
               /\ rlBuild' = [rlBuild EXCEPT ![p] = [b EXCEPT !.kind = "ok", !.k = b.k - 1]]
          ELSE /\ rlBuild' = [rlBuild EXCEPT ![p] =
                      [b EXCEPT !.k = b.k + 1, !.held = Append(b.held, expiry), !.frames = following]]
               /\ UNCHANGED rlTable
       /\ UNCHANGED <<rlNow, rlClient, rlMsg>>

\* The answer at hop k: on success the hop is stored before the answer is passed on.
path_build_response(p) ==
    LET b == rlBuild[p]
    IN /\ b.kind \in {"ok", "error"} /\ b.k > 0
       /\ rlTable' = IF b.kind = "ok" THEN put_transit_hop(RlHops[p][b.k], p, b.k, b.held[b.k])
                     ELSE rlTable
       /\ rlBuild' = [rlBuild EXCEPT ![p] = [b EXCEPT !.k = @ - 1]]
       /\ UNCHANGED <<rlNow, rlClient, rlMsg>>

\* The answer at the client; after a timeout it is no longer waited for.
path_build_done(p) ==
    /\ rlBuild[p].kind \in {"ok", "error"} /\ rlBuild[p].k = 0
    /\ rlBuild' = [rlBuild EXCEPT ![p] = RlNone]
    /\ rlClient' = IF rlClient[p].st # "building" THEN rlClient
                   ELSE [rlClient EXCEPT ![p].st = IF rlBuild[p].kind = "ok" THEN "up" ELSE "failed"]
    /\ UNCHANGED <<rlNow, rlTable, rlMsg>>

\* A request or answer is lost, or a relay on the way stops waiting for it.
RlBuildLost(p) ==
    /\ rlBuild[p] # RlNone
    /\ rlBuild' = [rlBuild EXCEPT ![p] = RlNone]
    /\ UNCHANGED <<rlNow, rlClient, rlTable, rlMsg>>

RlBuildTimeout(p) ==
    /\ rlClient[p].st = "building"
    /\ rlClient' = [rlClient EXCEPT ![p].st = "failed"]
    /\ UNCHANGED <<rlNow, rlTable, rlBuild, rlMsg>>

\* expire_hops at a relay.
expire_hops(r) ==
    /\ \E x \in rlTable[r] : rlNow >= x.expiry
    /\ rlTable' = [rlTable EXCEPT ![r] = {x \in @ : rlNow < x.expiry}]
    /\ UNCHANGED <<rlNow, rlClient, rlBuild, rlMsg>>

\* expire_paths at the client.
RlPathExpires(p) ==
    /\ rlClient[p].st = "up" /\ rlClient[p].expiry < rlNow
    /\ rlClient' = [rlClient EXCEPT ![p].st = "failed"]
    /\ UNCHANGED <<rlNow, rlTable, rlBuild, rlMsg>>

-----------------------------------------------------------------------------
RlClientOf(p) == <<"client", p>>

\* encrypt_path_message: from the last hop to the first, a layer with the nonce as
\* it is, which then takes the hop's factor.  m[k] has the layers of hop k and later.
encrypt_path_message(p) ==
    LET m[k \in 1..RlLen(p) + 1] ==
            IF k > RlLen(p) THEN [layers |-> {}, nonce |-> {}]
            ELSE [layers |-> RlToggle(m[k + 1].layers, <<p, k, m[k + 1].nonce>>),
                  nonce |-> RlToggle(m[k + 1].nonce, <<p, k>>)]
    IN  m[1]

\* A session goes over a path that ends at the pivot of the remote's.
RlAligned(p, q) == RlHops[p][RlLen(p)] = RlHops[q][RlLen(q)]

\* A message on its own path or, by its pivot id, down an aligned path of another client.
\* A "session" message is passed on and forgotten; a "control" one is answered.
RlSend(p, kind, q) ==
    /\ rlMsg.kind \in {"none", "arrived"}
    /\ rlClient[p].st = "up" /\ rlClient[p].expiry >= rlNow
    /\ kind = "control" => q = p
    /\ RlAligned(p, q)
    /\ LET e == encrypt_path_message(p)
       IN rlMsg' = [kind |-> kind, from |-> p, to |-> q, at |-> <<"relay", RlHops[p][1]>>,
                    id |-> RlRx(p, 1), layers |-> e.layers, nonce |-> e.nonce]
    /\ UNCHANGED <<rlNow, rlClient, rlTable, rlBuild>>

\* A message is taken in: by a client, or by the relay at the end of the path.
RlArrived(m) == [kind |-> "arrived", at |-> m.at, msg |-> m.kind, from |-> m.from, to |-> m.to,
                 layers |-> m.layers, nonce |-> m.nonce]

RlDownstream(p, k) == IF k = 1 THEN RlClientOf(p) ELSE <<"relay", RlHops[p][k - 1]>>

\* Where TransitHop::next_id sends a message that came with an id.
next_id(p, k, id) ==
    IF id = RlRx(p, k) THEN [at |-> <<"relay", RlHops[p][k + 1]>>, id |-> RlTx(p, k)]
    ELSE [at |-> RlDownstream(p, k), id |-> RlRx(p, k)]

\* Mutant: a relay takes its layer off before it mutates the nonce.
RlLayer_late(m, x) == [m EXCEPT !.nonce = RlToggle(@, <<x.path, x.k>>),
                                !.layers = RlToggle(@, <<x.path, x.k, m.nonce>>)]

\* What a relay does to a message at one of its hops: the nonce first, then a layer.
RlLayer(m, x) ==
    LET nonce == RlToggle(m.nonce, <<x.path, x.k>>)
    IN [m EXCEPT !.nonce = nonce, !.layers = RlToggle(@, <<x.path, x.k, nonce>>)]

\* The pivot: a message for this relay, or one to pass down the path the pivot id
\* names, whose downstream gets it under that same id.
RlPivot(m, hop, r) ==
    LET id == RlRx(m.to, RlLen(m.to))
        back == {x \in rlTable[r] : x.id = id}
    IN IF m.to = hop.path THEN {RlArrived(m)}
       ELSE IF back = {} THEN {RlNone}
       ELSE {[RlLayer(m, x) EXCEPT !.id = id, !.at = RlDownstream(x.path, x.k)] : x \in back}

\* The responder of a control message, possibly later: while the hop exists, the
\* answer is encrypted, and only then the nonce mutated.
RlAnswer(p) ==
    LET k == RlLen(p)
    IN /\ rlMsg.kind = "arrived" /\ rlMsg.msg = "control" /\ rlMsg.from = p
       /\ rlMsg' = IF ~has_transit_hop(RlHops[p][k], RlRx(p, k)) THEN RlNone
                   ELSE [kind |-> "answer", from |-> p, to |-> p, at |-> RlDownstream(p, k),
                         id |-> RlRx(p, k), layers |-> {<<p, k, {}>>}, nonce |-> {<<p, k>>}]
       /\ UNCHANGED <<rlNow, rlClient, rlTable, rlBuild>>

\* handle_session_message and handle_path_control at a relay.
RlRelayMessage(r) ==
    /\ rlMsg.kind \in {"session", "control"} /\ rlMsg.at = <<"relay", r>>
    /\ LET hops == {x \in rlTable[r] : x.id = rlMsg.id}
       IN IF hops = {} THEN rlMsg' = RlNone
          ELSE \E x \in hops :
                LET m == RlLayer(rlMsg, x)
                    next == next_id(x.path, x.k, m.id)
                IN IF x.k < RlLen(x.path) THEN rlMsg' = [m EXCEPT !.at = next.at, !.id = next.id]
                   ELSE rlMsg' \in RlPivot(m, x, r)
    /\ UNCHANGED <<rlNow, rlClient, rlTable, rlBuild>>

\* The answer at a relay on the way back, which knows the hop from the request: one
\* that is gone, or an unexpected id, ends it.  The layer comes before the mutation.
RlRelayAnswer(r) ==
    /\ rlMsg.kind = "answer" /\ rlMsg.at = <<"relay", r>>
    /\ LET hops == {x \in rlTable[r] : x.id = rlMsg.id /\ RlTx(x.path, x.k) = rlMsg.id}
       IN IF hops = {} THEN rlMsg' = RlNone
          ELSE \E x \in hops :
                rlMsg' = [rlMsg EXCEPT
                    !.layers = RlToggle(@, <<x.path, x.k, rlMsg.nonce>>),
                    !.nonce = RlToggle(@, <<x.path, x.k>>), !.id = RlRx(x.path, x.k),
                    !.at = RlDownstream(x.path, x.k)]
    /\ UNCHANGED <<rlNow, rlClient, rlTable, rlBuild>>

\* The layers the client takes off, hop by hop from the nearest: for an answer
\* (decrypt_path_message) the nonce is mutated before a layer, else after.  t[k] is
\* what hop k and the nearer ones leave.
RlClientDecrypts(m, p) ==
    LET t[k \in 0..RlLen(p)] ==
            IF k = 0 THEN [layers |-> m.layers, nonce |-> m.nonce]
            ELSE LET nonce == RlToggle(t[k - 1].nonce, <<p, k>>)
                 IN  [layers |-> RlToggle(t[k - 1].layers,
                                          <<p, k, IF m.kind = "answer" THEN nonce ELSE t[k - 1].nonce>>),
                      nonce |-> nonce]
    IN  [m EXCEPT !.layers = t[RlLen(p)].layers, !.nonce = t[RlLen(p)].nonce]

\* A message at the client: one for a path it no longer has is dropped.
RlClientMessage(p) ==
    /\ rlMsg.kind \in {"session", "answer"} /\ rlMsg.at = RlClientOf(p)
    /\ rlMsg' = IF rlClient[p].st = "up" /\ rlMsg.id = RlRx(p, 1)
                THEN RlArrived(RlClientDecrypts(rlMsg, p)) ELSE RlNone
    /\ UNCHANGED <<rlNow, rlClient, rlTable, rlBuild>>

RlMsgLost ==
    /\ rlMsg.kind # "none" /\ rlMsg' = RlNone
    /\ UNCHANGED <<rlNow, rlClient, rlTable, rlBuild>>

RlTime ==
    /\ rlNow < RlMaxTime
    /\ rlNow' = rlNow + 1
    /\ UNCHANGED <<rlClient, rlTable, rlBuild, rlMsg>>

RlNext ==
    \/ \E p \in RlPath :
          \/ \E e \in RlExpiry : send_path_build(p, e)
          \/ \E reachable \in BOOLEAN : handle_path_build(p, reachable)
          \/ path_build_response(p) \/ path_build_done(p)
          \/ RlBuildLost(p) \/ RlBuildTimeout(p) \/ RlPathExpires(p)
          \/ \E kind \in {"session", "control"}, q \in RlPath : RlSend(p, kind, q)
          \/ RlClientMessage(p) \/ RlAnswer(p)
    \/ \E r \in RlRelay : expire_hops(r) \/ RlRelayMessage(r) \/ RlRelayAnswer(r)
    \/ RlMsgLost \/ RlTime

-----------------------------------------------------------------------------
\* The type of the state.
Relaying_TypeOK ==
    /\ rlNow \in 0..RlMaxTime
    /\ \A p \in RlPath :
          /\ rlClient[p].st \in {"none", "building", "up", "failed"} /\ rlClient[p].expiry \in Nat
          /\ rlBuild[p].kind \in {"none", "request", "ok", "error"}
    /\ \A r \in RlRelay : \A x \in rlTable[r] : x.path \in RlPath /\ RlHops[x.path][x.k] = r
    /\ rlMsg.kind \in {"none", "session", "control", "answer", "arrived"}

(***************************************************************************)
(* What arrives is what was sent, where it was sent to: at the pivot or at *)
(* the client every layer is off and the nonce is the sender's again, for  *)
(* messages up a path, over the pivot and down another one, and for        *)
(* answers, even where a path visits a relay twice.                        *)
(***************************************************************************)
ArrivesIntact ==
    rlMsg.kind = "arrived" =>
        /\ rlMsg.layers = {} /\ rlMsg.nonce = {}
        /\ rlMsg.at = IF rlMsg.msg = "answer" \/ (rlMsg.msg = "session" /\ rlMsg.to # rlMsg.from)
                      THEN RlClientOf(rlMsg.to)
                      ELSE <<"relay", RlHops[rlMsg.from][RlLen(rlMsg.from)]>>
=============================================================================
