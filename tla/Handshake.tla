----------------------------- MODULE Handshake -----------------------------
(***************************************************************************)
(* How clients establish sessions with one remote and keep them over path  *)
(* changes (session/session.cpp, handlers/session.cpp and the message      *)
(* dispatch of link/link_manager.cpp).  Whenever an outbound session takes *)
(* up a path it makes a session init with fresh ephemeral keys.  A session *)
(* that is not established sends it as such; an established one sends a    *)
(* path switch under its session key and adds the init as a fallback, for  *)
(* a remote that has forgotten the session.  An init and the path it goes  *)
(* over have the same number here: there is one per switch_path.           *)
(*                                                                         *)
(* A path delivers in order.  A path the client drops may still carry what *)
(* is under way to the remote, or lose it; what comes back over it finds   *)
(* no path at the client and is ignored.                                   *)
(***************************************************************************)
EXTENDS Integers, Sequences

CONSTANTS
    HsClient,    \* clients with an outbound session to the remote
    HsMaxInit,   \* bound: paths a client takes up; the last one lasts
    HsMaxTag,    \* bound: the largest session tag (2^32 - 1 in the code)
    HsMaxData    \* bound: MAX_QUEUED_PACKETS, and messages on one path

ASSUME HandshakeAssumption ==
    /\ HsMaxInit \in Nat \ {0} /\ HsMaxTag \in Nat \ {0} /\ HsMaxData \in Nat \ {0}

VARIABLES
    hsOld,   \* the remote predates 1.1, or maps no inbound session to its tun
    hsOut,   \* the outbound session of every client
    hsUp,    \* messages under way to the remote, by client and path
    hsDown,  \* messages under way to a client over its current path
    hsIn,    \* the inbound sessions of the remote
    hsLast   \* the remote's last_tag

hsvars == <<hsOld, hsOut, hsUp, hsDown, hsIn, hsLast>>

HsTag == 0..HsMaxTag

\* A session key: the init whose offer was accepted, the init whose ephemeral
\* keys went into it, and the tag the remote chose (0 in a 1.0.x handshake,
\* where the shared secret does not depend on it).
HsKey == [init : 1..HsMaxInit, eph : 1..HsMaxInit, tag : HsTag]
HsNoKey == [init |-> 0, eph |-> 0, tag |-> 0]
HsNoSession == [tag |-> 0, key |-> HsNoKey, path |-> 0]

\* eph: the init whose PFS keys are held; pend: the one whose 1.0.x secret is
\* pending; path: the path last taken up; live: it is not dead; queue: the
\* length of pre_establish_data_queue.
HsOutbound ==
    [est : BOOLEAN, closed : BOOLEAN, key : HsKey \cup {HsNoKey}, otag : HsTag,
     eph : 0..HsMaxInit, pend : 0..HsMaxInit, path : 0..HsMaxInit, live : BOOLEAN, queue : 0..HsMaxData]

HsMessage ==
    [kind : {"init", "switch", "data", "close", "accept"}, tag : HsTag,
     key : HsKey \cup {HsNoKey}, init : 0..HsMaxInit]

HsMsg(kind, tag, key, init) == [kind |-> kind, tag |-> tag, key |-> key, init |-> init]

HsInit ==
    /\ hsOld \in [old : BOOLEAN, tun : BOOLEAN]
    /\ hsOut = [c \in HsClient |->
            [est |-> FALSE, closed |-> FALSE, key |-> HsNoKey, otag |-> 0, eph |-> 0, pend |-> 0,
             path |-> 0, live |-> FALSE, queue |-> 0]]
    /\ hsUp = [c \in HsClient |-> [p \in 1..HsMaxInit |-> <<>>]]
    /\ hsDown = [c \in HsClient |-> <<>>]
    /\ hsIn = [c \in HsClient |-> HsNoSession]
    /\ hsLast = 1

HsCopies(n, m) == [i \in 1..n |-> m]

-----------------------------------------------------------------------------
\* make_session_init: the keys of earlier inits are overwritten.
make_session_init(s, n) ==
    IF hsOld.old THEN [s EXCEPT !.eph = 0, !.pend = n] ELSE [s EXCEPT !.eph = n]

\* Mutant: the session also moves on while its current path is alive.
switch_path_alive(c) ==
    LET s == hsOut[c]
        n == s.path + 1
        made == make_session_init([s EXCEPT !.path = n, !.live = TRUE], n)
    IN /\ ~s.closed /\ s.path < HsMaxInit
       /\ hsOut' = [hsOut EXCEPT ![c] = made]
       /\ hsUp' = [hsUp EXCEPT ![c][n] =
            <<IF s.est THEN HsMsg("switch", s.otag, s.key, n)
              ELSE HsMsg("init", s.otag, HsNoKey, n)>>]
       /\ UNCHANGED <<hsOld, hsDown, hsIn, hsLast>>

\* switch_path, to which select_new_current comes once the current path is
\* gone: the init goes alone or behind a path switch.
switch_path(c) ==
    LET s == hsOut[c]
        n == s.path + 1
        made == make_session_init([s EXCEPT !.path = n, !.live = TRUE], n)
    IN /\ ~s.live /\ ~s.closed /\ s.path < HsMaxInit
       /\ hsOut' = [hsOut EXCEPT ![c] = made]
       /\ hsUp' = [hsUp EXCEPT ![c][n] =
            <<IF s.est THEN HsMsg("switch", s.otag, s.key, n)
              ELSE HsMsg("init", s.otag, HsNoKey, n)>>]
       /\ UNCHANGED <<hsOld, hsDown, hsIn, hsLast>>

\* The current path expires or is dropped (PathContext::drop).
HsPathDies(c) ==
    /\ hsOut[c].live /\ hsOut[c].path < HsMaxInit
    /\ hsOut' = [hsOut EXCEPT ![c].live = FALSE]
    /\ hsDown' = [hsDown EXCEPT ![c] = <<>>]
    /\ \/ UNCHANGED hsUp
       \/ hsUp' = [hsUp EXCEPT ![c][hsOut[c].path] = <<>>]
    /\ UNCHANGED <<hsOld, hsIn, hsLast>>

\* send_session_data_message: queued before the session is established (the
\* oldest packet makes room), else sent if there is a path to send it on.
send_session_data_message(c) ==
    LET s == hsOut[c]
    IN /\ UNCHANGED <<hsOld, hsDown, hsIn, hsLast>>
       /\ \/ /\ ~s.est /\ s.queue < HsMaxData
             /\ hsOut' = [hsOut EXCEPT ![c].queue = @ + 1]
             /\ UNCHANGED hsUp
          \/ /\ s.est /\ s.live /\ Len(hsUp[c][s.path]) < HsMaxData
             /\ hsUp' = [hsUp EXCEPT ![c][s.path] = Append(@, HsMsg("data", s.otag, s.key, 0))]
             /\ UNCHANGED hsOut

-----------------------------------------------------------------------------
\* The sessions that get_session(tag) finds.
HsFound(tag) == {c \in HsClient : tag # 0 /\ hsIn[c].tag = tag}

\* next_tag: the first unused tag from last_tag on.
HsNextTag(used) ==
    LET free == HsTag \ (used \cup {0})
        after(t) == (t - hsLast) % (HsMaxTag + 1)
    IN {t \in free : \A u \in free : after(t) <= after(u)}

\* handle_session_init and session_post_init for init n of client c, which
\* came over path p: the new session replaces the one there was, and the
\* accept goes back over p, if the client still has it.
handle_session_init(c, p, n) ==
    \E t \in HsNextTag({hsIn[d].tag : d \in HsClient}) :
        LET key == [init |-> n, eph |-> n, tag |-> IF hsOld.old THEN 0 ELSE t]
            back == hsOut[c].live /\ hsOut[c].path = p
        IN /\ hsLast' = t
           /\ IF hsOld.tun
              THEN /\ hsIn' = [hsIn EXCEPT ![c] = [tag |-> t, key |-> key, path |-> p]]
                   /\ hsDown' = IF back
                        THEN [hsDown EXCEPT ![c] = Append(@, HsMsg("accept", t, key, n))]
                        ELSE hsDown
              ELSE UNCHANGED <<hsIn, hsDown>>

\* An init arrives (it carries tag 0).
HsRecvInit(c, p, m) == m.kind = "init" /\ m.tag = 0 /\ handle_session_init(c, p, m.init)

\* A path switch arrives (handle_session_handshake): whoever holds the tag
\* reads it with its key; if nobody does, the fallback init is used.
HsRecvSwitch(c, p, m) ==
    /\ m.kind = "switch"
    /\ IF HsFound(m.tag) = {} THEN handle_session_init(c, p, m.init)
       ELSE /\ hsIn' = [d \in HsClient |->
                  IF d \in HsFound(m.tag) /\ hsIn[d].key = m.key
                  THEN [hsIn[d] EXCEPT !.path = p] ELSE hsIn[d]]
            /\ UNCHANGED <<hsDown, hsLast>>

\* A packet or a session_close arrives; the close ends the session it fits.
HsRecvOther(c, m) ==
    /\ m.kind \in {"data", "close"}
    /\ hsIn' = [d \in HsClient |->
          IF m.kind = "close" /\ d \in HsFound(m.tag) /\ hsIn[d].key = m.key
          THEN HsNoSession ELSE hsIn[d]]
    /\ UNCHANGED <<hsDown, hsLast>>

\* handle_session_message at the remote.
HsArrive(c, p) ==
    LET m == Head(hsUp[c][p])
    IN /\ hsUp[c][p] # <<>>
       /\ hsUp' = [hsUp EXCEPT ![c][p] = Tail(@)]
       /\ UNCHANGED <<hsOld, hsOut>>
       /\ HsRecvInit(c, p, m) \/ HsRecvSwitch(c, p, m) \/ HsRecvOther(c, m)

\* The remote's session expires (Session::tick), silently, or the remote
\* closes it and says so over the path it knows.
HsRemoteCloses(c, tell) ==
    LET s == hsIn[c]
        back == tell /\ hsOut[c].live /\ hsOut[c].path = s.path /\ Len(hsDown[c]) < HsMaxData
    IN /\ s # HsNoSession
       /\ hsIn' = [hsIn EXCEPT ![c] = HsNoSession]
       /\ hsDown' = IF back THEN [hsDown EXCEPT ![c] = Append(@, HsMsg("close", 0, s.key, 0))]
                    ELSE hsDown
       /\ UNCHANGED <<hsOld, hsOut, hsUp, hsLast>>

\* The remote restarts: its sessions are gone and last_tag is drawn anew.
HsRestart ==
    /\ \E c \in HsClient : hsIn[c] # HsNoSession
    /\ hsIn' = [c \in HsClient |-> HsNoSession]
    /\ hsLast' \in HsTag
    /\ UNCHANGED <<hsOld, hsOut, hsUp, hsDown>>

-----------------------------------------------------------------------------
\* The session once established with key k and tag t; what was queued is sent.
HsEstablished(c, s, k, t) ==
    /\ hsOut' = [hsOut EXCEPT ![c] =
            [s EXCEPT !.est = TRUE, !.key = k, !.otag = t, !.queue = 0]]
    /\ hsUp' = [hsUp EXCEPT ![c][s.path] = @ \o HsCopies(s.queue, HsMsg("data", t, k, 0))]

\* handle_session_accept: the ephemeral keys at hand complete the handshake.
handle_session_accept(c, m) ==
    LET s == hsOut[c]
    IN IF s.eph = 0 THEN UNCHANGED <<hsOut, hsUp>>
       ELSE HsEstablished(c, [s EXCEPT !.eph = 0],
                          [init |-> m.init, eph |-> s.eph, tag |-> m.tag], m.tag)

\* handle_session_accept_deprecated: the accept is encrypted with the secret
\* of its init, which must be the one in use or the pending one.
handle_session_accept_deprecated(c, m) ==
    LET s == hsOut[c]
    IN IF (m.key = s.key \/ m.init = s.pend) /\ s.pend # 0
       THEN HsEstablished(c, [s EXCEPT !.pend = 0],
                          [init |-> m.init, eph |-> s.pend, tag |-> 0], m.tag)
       ELSE UNCHANGED <<hsOut, hsUp>>

\* Outbound recv_close: a close under the session key drops all paths.
HsRecvClose(c, m) ==
    /\ hsOut' = IF m.key = hsOut[c].key THEN [hsOut EXCEPT ![c].live = FALSE] ELSE hsOut
    /\ UNCHANGED hsUp

\* handle_session_message at the client, over a path it still has.
HsAnswer(c) ==
    LET m == Head(hsDown[c])
    IN /\ hsDown[c] # <<>> /\ hsOut[c].live
       /\ UNCHANGED <<hsOld, hsIn, hsLast>>
       /\ hsDown' = [hsDown EXCEPT ![c] =
            IF m.kind = "close" /\ m.key = hsOut[c].key THEN <<>> ELSE Tail(@)]
       /\ \/ m.kind = "accept" /\ ~hsOld.old /\ handle_session_accept(c, m)
          \/ m.kind = "accept" /\ hsOld.old /\ handle_session_accept_deprecated(c, m)
          \/ m.kind = "close" /\ HsRecvClose(c, m)

\* Session::close(true) at the client: the session_close is the last message.
HsClientCloses(c) ==
    LET s == hsOut[c]
    IN /\ s.est /\ s.live /\ Len(hsUp[c][s.path]) < HsMaxData
       /\ hsUp' = [hsUp EXCEPT ![c][s.path] = Append(@, HsMsg("close", s.otag, s.key, 0))]
       /\ hsOut' = [hsOut EXCEPT ![c].live = FALSE, ![c].closed = TRUE]
       /\ hsDown' = [hsDown EXCEPT ![c] = <<>>]
       /\ UNCHANGED <<hsOld, hsIn, hsLast>>

HsNext ==
    \/ \E c \in HsClient :
        \/ switch_path(c) \/ HsPathDies(c) \/ send_session_data_message(c)
        \/ HsAnswer(c) \/ HsClientCloses(c)
        \/ \E p \in 1..HsMaxInit : HsArrive(c, p)
        \/ \E tell \in BOOLEAN : HsRemoteCloses(c, tell)
    \/ HsRestart

-----------------------------------------------------------------------------
Handshake_TypeOK ==
    /\ hsOld \in [old : BOOLEAN, tun : BOOLEAN]
    /\ hsOut \in [HsClient -> HsOutbound]
    /\ hsUp \in [HsClient -> [1..HsMaxInit -> Seq(HsMessage)]]
    /\ hsDown \in [HsClient -> Seq(HsMessage)]
    /\ hsIn \in [HsClient -> [tag : HsTag, key : HsKey \cup {HsNoKey}, path : 0..HsMaxInit]]
    /\ hsLast \in HsTag

(***************************************************************************)
(* Both ends derive the same key: an accept is only ever completed with    *)
(* the ephemeral keys of the init it answers, although every path switch   *)
(* overwrites them, and whenever the remote finds the client's session     *)
(* under the tag the client uses and both were made by one init, the keys  *)
(* agree.  This rests on the old path being dropped before a new init is   *)
(* made.  Nothing but an init is ever sent under tag 0.                     *)
(***************************************************************************)
KeysAgree ==
    \A c \in HsClient :
        LET s == hsOut[c]
        IN /\ s.est => /\ s.key.init = s.key.eph /\ s.otag # 0
                       /\ s.key.init = hsIn[c].key.init => s.key = hsIn[c].key /\ s.otag = hsIn[c].tag
           /\ \A p \in 1..HsMaxInit : \A i \in 1..Len(hsUp[c][p]) :
                hsUp[c][p][i].tag = 0 => hsUp[c][p][i].kind = "init"

(***************************************************************************)
(* The comment in switch_path says of the fallback init: "if the remote    *)
(* still knows about us it simply treats it as a session message (and      *)
(* discards the init), but if it doesn't then it can read the session init *)
(* to start a new one".  So a path switch whose tag is known to the remote *)
(* must be one that this session can read.                                 *)
(***************************************************************************)
SwitchOrInit ==
    \A c \in HsClient : \A p \in 1..HsMaxInit :
        hsUp[c][p] # <<>> /\ Head(hsUp[c][p]).kind = "switch" =>
            \A d \in HsFound(Head(hsUp[c][p]).tag) : hsIn[d].key = Head(hsUp[c][p]).key
=============================================================================
