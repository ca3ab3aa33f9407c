-------------------------- MODULE SessionRegistry --------------------------
(***************************************************************************)
(* The sessions a client's SessionEndpoint keeps (handlers/session.cpp):   *)
(* _sessions finds them by remote address, _session_tags by the tag that   *)
(* incoming messages carry.  Sessions are created on demand, trampled by   *)
(* inbound ones, closed by their own tick, and erased by a job that        *)
(* close_session defers; embedded applications attach callbacks to them    *)
(* through SessionRouter::establish_udp and establish_tcp.                 *)
(***************************************************************************)
EXTENDS Integers

CONSTANTS
    Remote,    \* network addresses of the other ends
    Relay,     \* those of relays; the others are clients
    Session,   \* bound: session objects alive at a time
    Callback,  \* pairs (on_established, on_failed) given to establish_*
    MaxTag,    \* bound: the largest session tag (2^32 - 1 in the code)
    None       \* a null pointer

ASSUME SessionRegistryAssumption ==
    /\ Relay \subseteq Remote
    /\ MaxTag \in Nat \ {0}
    /\ None \notin Session

VARIABLES
    running,   \* _running
    fetched,   \* NodeDB: the first RC fetch is complete
    sessions,  \* _sessions
    tags,      \* _session_tags
    last_tag,
    obj,       \* the session objects
    jobs,      \* sessions whose deferred cleanup is on the job queue
    held,      \* the session with which establish_* has yet to file a callback
    owed       \* callbacks of a returned claim, not called yet

vars == <<running, fetched, sessions, tags, last_tag, obj, jobs, held, owed>>

Tag == 0..MaxTag

Gone == [remote |-> None]

Object ==
    [remote : Remote, tag : Tag, outbound : BOOLEAN, established : BOOLEAN, closed : BOOLEAN,
     unreachable : BOOLEAN, lookup : BOOLEAN, waiting : SUBSET Callback]

\* The type of the state.
SessionRegistry_TypeOK ==
    /\ running \in BOOLEAN /\ fetched \in BOOLEAN
    /\ sessions \in [Remote -> Session \cup {None}]
    /\ tags \in [Tag -> Session \cup {None}]
    /\ last_tag \in Tag
    /\ obj \in [Session -> Object \cup {Gone}]
    /\ jobs \subseteq Session
    /\ held \in [Callback -> Session \cup {None}]
    /\ owed \subseteq Callback

\* The objects some shared_ptr keeps alive.
Pointed(by_remote, by_tag, by_caller) ==
    {s \in Session :
        \/ \E r \in Remote : by_remote[r] = s
        \/ \E t \in Tag : by_tag[t] = s
        \/ \E c \in Callback : by_caller[c] = s}

Live == Pointed(sessions, tags, held)

\* The objects are o, except that those nothing points to any more are destroyed.
Become(o) ==
    LET kept == Pointed(sessions', tags', held')
    IN obj' = [s \in Session |-> IF s \in kept THEN o[s] ELSE Gone]

\* Memory for a new object; that of a pending job's weak_ptr is not reused.
Unused == Session \ (Live \cup jobs)

Open(s) == ~obj[s].closed /\ ~obj[s].unreachable

\* The address has a session that initiate_remote_session reuses.
Usable(r) == sessions[r] # None /\ Open(sessions[r])

Registered == {s \in Session : \E r \in Remote : sessions[r] = s}

\* The first unused tag from last_tag on; 0 is never used.
next_tag ==
    LET free == {t \in Tag \ {0} : tags[t] = None}
        after(t) == (t - last_tag) % (MaxTag + 1)
    IN {t \in free : \A u \in free : after(t) <= after(u)}

-----------------------------------------------------------------------------
Init ==
    /\ running = TRUE /\ fetched \in BOOLEAN
    /\ sessions = [r \in Remote |-> None] /\ tags = [t \in Tag |-> None]
    /\ last_tag \in Tag
    /\ obj = [s \in Session |-> Gone] /\ jobs = {}
    /\ held = [c \in Callback |-> None] /\ owed = {}

\* The caller of initiate_remote_session is establish_* with callback c, or
\* (c = None) a packet from the tun device, the RPC server or DNS.
Hand(c, s) ==
    IF c = None THEN UNCHANGED <<held, owed>>
    ELSE /\ c \notin owed /\ held[c] = None
         /\ held' = [held EXCEPT ![c] = s] /\ owed' = owed \cup {c}

\* initiate_remote_session finds a usable session.
reuse_session(r, c) ==
    /\ Usable(r)
    /\ Hand(c, sessions[r])
    /\ UNCHANGED <<running, fetched, sessions, tags, last_tag, obj, jobs>>

\* initiate_remote_session constructs a session under a new tag.  A relay
\* session looks its RC up: it is found, or the lookup waits for the first fetch.
create_session(r, c) ==
    /\ ~Usable(r)
    /\ UNCHANGED <<running, fetched, jobs>>
    /\ \E t \in next_tag, s \in Unused, lookup \in BOOLEAN :
        /\ lookup => r \in Relay /\ ~fetched
        /\ Hand(c, s)
        /\ sessions' = [sessions EXCEPT ![r] = s] /\ tags' = [tags EXCEPT ![t] = s]
        /\ last_tag' = t
        /\ Become([obj EXCEPT ![s] =
            [remote |-> r, tag |-> t, outbound |-> TRUE, established |-> FALSE, closed |-> FALSE,
             unreachable |-> FALSE, lookup |-> lookup, waiting |-> {}]])

\* Mutant: the counter moves past the tag without wrapping around.
refuse_session_skips(r) ==
    /\ r \in Relay /\ fetched /\ ~Usable(r)
    /\ last_tag' \in {t + 1 : t \in next_tag}
    /\ UNCHANGED <<running, fetched, sessions, tags, obj, jobs, held, owed>>

\* initiate_remote_session learns at once that the relay has no RC: nullptr.
refuse_session(r) ==
    /\ r \in Relay /\ fetched /\ ~Usable(r)
    /\ last_tag' \in next_tag
    /\ UNCHANGED <<running, fetched, sessions, tags, obj, jobs, held, owed>>

\* establish_* goes on with the session it got: it calls the callback, or
\* files it with an outbound session (OutboundSession::on_established).
on_established(c) ==
    LET s == held[c]
        up == obj[s].established /\ ~obj[s].closed
    IN /\ s # None
       /\ held' = [held EXCEPT ![c] = None]
       /\ owed' = IF up THEN owed \ {c} ELSE owed
       /\ UNCHANGED <<running, fetched, sessions, tags, last_tag, jobs>>
       /\ Become(IF ~up /\ obj[s].outbound
                 THEN [obj EXCEPT ![s].waiting = @ \cup {c}] ELSE obj)

-----------------------------------------------------------------------------
\* The sessions that close in a tick of those in S, E of which are expired;
\* each is closed by its tag (close_session(session_tag)).
Closing(S, E) ==
    LET own == (S \cap E) \cup
               {s \in S : obj[s].outbound /\ ~obj[s].closed /\ obj[s].unreachable}
    IN {s \in Session : \E o \in own : tags[obj[o].tag] = s}

\* Mutant: nothing is called before the session is established.
Fired_established(s, D) == IF obj[s].established /\ ~obj[s].closed THEN obj[s].waiting ELSE {}

\* fire_waiting: everything once established, else what is due.
Fired(s, D) ==
    IF obj[s].established /\ ~obj[s].closed THEN obj[s].waiting ELSE obj[s].waiting \cap D

\* The callbacks that the ticks of the sessions in S call.
Answered(S, E, D) ==
    UNION {Fired(s, D) : s \in {u \in S \ E : obj[u].outbound /\ Open(u)}}

\* The ticks of the sessions in S (Session::tick, OutboundSession::tick).
Ticked(S, E, D) ==
    LET closing == Closing(S, E)
        answered == Answered(S, E, D)
    IN [s \in Session |->
        IF s \in S \cup closing
        THEN [obj[s] EXCEPT !.closed = @ \/ s \in closing, !.waiting = @ \ answered]
        ELSE obj[s]]

\* SessionEndpoint::tick.
tick(E, D) ==
    /\ running
    /\ jobs' = jobs \cup Closing(Registered, E)
    /\ owed' = owed \ Answered(Registered, E, D)
    /\ UNCHANGED <<running, fetched, sessions, tags, last_tag, held>>
    /\ Become(Ticked(Registered, E, D))

\* The first RC fetch completes and answers the lookups: U have no RC and are
\* marked unreachable (mark_unreachable), the others tick themselves.
rc_lookups_answered(U, E, D) ==
    LET asking == {s \in Session : obj[s] # Gone /\ obj[s].lookup}
        found == asking \ U
    IN /\ ~fetched /\ U \subseteq asking
       /\ fetched' = TRUE
       /\ jobs' = jobs \cup Closing(found, E)
       /\ owed' = owed \ (UNION {obj[s].waiting : s \in U} \cup Answered(found, E, D))
       /\ UNCHANGED <<running, sessions, tags, last_tag, held>>
       /\ LET o == Ticked(found, E, D)
          IN Become([s \in Session |->
                IF s \in U THEN [o[s] EXCEPT !.lookup = FALSE, !.unreachable = TRUE, !.waiting = {}]
                ELSE IF s \in found THEN [o[s] EXCEPT !.lookup = FALSE] ELSE o[s]])

\* A session accept arrives under tag t (handle_session_accept).
session_accept(t, D) ==
    LET s == tags[t]
        fire == IF obj[s].closed THEN obj[s].waiting \cap D ELSE obj[s].waiting
    IN /\ s # None /\ obj[s].outbound /\ ~obj[s].unreachable
       /\ owed' = owed \ fire
       /\ UNCHANGED <<running, fetched, sessions, tags, last_tag, jobs, held>>
       /\ Become([obj EXCEPT ![s].established = TRUE, ![s].waiting = @ \ fire])

\* A session close arrives under tag t for an inbound session (an outbound one
\* drops its paths instead).
recv_close(t) ==
    LET s == tags[t]
    IN /\ s # None /\ ~obj[s].outbound
       /\ jobs' = jobs \cup {s}
       /\ UNCHANGED <<running, fetched, sessions, tags, last_tag, held, owed>>
       /\ Become([obj EXCEPT ![s].closed = TRUE])

\* _session_tags without the entry under the tag of session s.
Untag(s) == IF s = None THEN tags ELSE [tags EXCEPT ![obj[s].tag] = None]

\* A session init arrives from client r: handle_session_init constructs a
\* session under a new tag and session_post_init tramples the one there was.
handle_session_init(r) ==
    /\ running /\ r \notin Relay
    /\ UNCHANGED <<running, fetched, jobs, held, owed>>
    /\ \E t \in next_tag, s \in Unused :
        /\ sessions' = [sessions EXCEPT ![r] = s]
        /\ tags' = [Untag(sessions[r]) EXCEPT ![t] = s]
        /\ last_tag' = t
        /\ Become([obj EXCEPT ![s] =
            [remote |-> r, tag |-> t, outbound |-> FALSE, established |-> TRUE, closed |-> FALSE,
             unreachable |-> FALSE, lookup |-> FALSE, waiting |-> {}]])

\* session_post_init finds no tun address for it and drops the new session.
session_init_dropped ==
    /\ running
    /\ last_tag' \in next_tag
    /\ UNCHANGED <<running, fetched, sessions, tags, obj, jobs, held, owed>>

\* Mutant: the job erases by address without comparing the session.
cleanup_by_address(s) ==
    /\ s \in jobs
    /\ jobs' = jobs \ {s}
    /\ IF obj[s] # Gone
       THEN /\ sessions' = [sessions EXCEPT ![obj[s].remote] = None]
            /\ tags' = Untag(s)
       ELSE UNCHANGED <<sessions, tags>>
    /\ UNCHANGED <<running, fetched, last_tag, held, owed>>
    /\ Become(obj)

\* The job deferred by close_session: it erases s if s is still registered.
cleanup(s) ==
    /\ s \in jobs
    /\ jobs' = jobs \ {s}
    /\ IF obj[s] # Gone /\ sessions[obj[s].remote] = s
       THEN /\ sessions' = [sessions EXCEPT ![obj[s].remote] = None]
            /\ tags' = Untag(s)
       ELSE UNCHANGED <<sessions, tags>>
    /\ UNCHANGED <<running, fetched, last_tag, held, owed>>
    /\ Become(obj)

\* SessionEndpoint::stop; the tick timer stops with it.
stop ==
    /\ running
    /\ running' = FALSE
    /\ tags' = [t \in Tag |-> None]
    /\ UNCHANGED <<fetched, sessions, last_tag, jobs, held, owed>>
    /\ Become([s \in Session |-> IF s \in Registered THEN [obj[s] EXCEPT !.closed = TRUE] ELSE obj[s]])

Next ==
    \/ \E r \in Remote, c \in Callback \cup {None} : reuse_session(r, c) \/ create_session(r, c)
    \/ \E r \in Remote : refuse_session(r) \/ handle_session_init(r)
    \/ \E c \in Callback : on_established(c)
    \/ \E E \in SUBSET Registered, D \in SUBSET owed : tick(E, D)
    \/ \E U \in SUBSET Live, E \in SUBSET Live, D \in SUBSET owed : rc_lookups_answered(U, E, D)
    \/ \E t \in Tag : recv_close(t) \/ \E D \in SUBSET owed : session_accept(t, D)
    \/ session_init_dropped
    \/ \E s \in Session : cleanup(s)
    \/ stop

Spec == Init /\ [][Next]_vars

(***************************************************************************)
(* The job queue runs every job; the tick timer fires again and again, and *)
(* in the end after every timeout has passed.                              *)
(***************************************************************************)
Fairness ==
    /\ \A s \in Session : WF_vars(cleanup(s))
    /\ WF_vars(\E E \in SUBSET Registered : tick(E, owed))

FairSpec == Spec /\ Fairness

-----------------------------------------------------------------------------
(***************************************************************************)
(* Until stop, the session an address leads to is the one messages with    *)
(* its tag reach, so close_session(session_tag), which a session calls on  *)
(* itself, closes that very session.                                       *)
(***************************************************************************)
RegisteredIsRouted ==
    running => \A r \in Remote : sessions[r] # None =>
        LET s == sessions[r] IN obj[s].remote = r /\ tags[obj[s].tag] = s

(***************************************************************************)
(* No two working sessions to one remote: whatever messages can still      *)
(* reach by tag is the session registered for its remote, or one that is   *)
(* closed or unreachable for good.                                         *)
(***************************************************************************)
ReplacedIsFinished ==
    \A t \in Tag : tags[t] # None =>
        LET s == tags[t]
        IN t # 0 /\ obj[s].tag = t /\ (sessions[obj[s].remote] = s \/ ~Open(s))

(***************************************************************************)
(* A callback filed with a session is called, at the latest when it times  *)
(* out, as long as that session stays registered and open.                 *)
(***************************************************************************)
CallbackAnswered ==
    \A r \in Remote, c \in Callback :
        LET waiting == sessions[r] # None /\ c \in obj[sessions[r]].waiting
        IN []<>(~running \/ ~waiting \/ ~Open(sessions[r]))

(***************************************************************************)
(* The doc of establish_udp says "exactly one of the two callbacks is      *)
(* subsequently invoked": before stop, whoever is owed a call is still     *)
(* remembered by the caller or by a session that ticks, or by one whose RC *)
(* lookup is pending.                                                      *)
(***************************************************************************)
ExactlyOneCallback ==
    running => \A c \in owed :
        \/ held[c] # None
        \/ \E s \in Session : obj[s] # Gone /\ c \in obj[s].waiting
                              /\ (obj[s].lookup \/ (s \in Registered /\ Open(s)))

(***************************************************************************)
(* The comment in close_session says of a closed session that another has  *)
(* replaced that it "is already gone": once its cleanup has run, no tag    *)
(* leads to it.                                                            *)
(***************************************************************************)
ReplacedIsGone ==
    \A t \in Tag :
        tags[t] # None /\ obj[tags[t]].closed => tags[t] \in jobs \cup Registered
=============================================================================
