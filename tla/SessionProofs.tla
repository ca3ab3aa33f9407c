--------------------------- MODULE SessionProofs ---------------------------
(***************************************************************************)
(* Proofs about SessionEndpoint: its two maps of sessions agree, for any   *)
(* number of sessions, remotes, tags and callbacks (SessionRegistry), and  *)
(* its inbound paths spread over the expiry slots, for any number of       *)
(* pivots, paths and slots (InboundPaths).                                 *)
(***************************************************************************)
EXTENDS SessionRegistry, InboundPaths, FiniteSetTheorems, WellFoundedInduction, TLAPS

-----------------------------------------------------------------------------
(* SessionRegistry: the two maps agree.                                    *)

\* Whatever is pointed to has not been destroyed.
PointedExists == \A s \in Live : obj[s] \in Object

Inv == SessionRegistry_TypeOK /\ PointedExists /\ RegisteredIsRouted /\ ReplacedIsFinished

\* What no operation undoes in an object: identity, closed and unreachable.
Ages(old, new) ==
    /\ new \in Object
    /\ new.remote = old.remote /\ new.tag = old.tag
    /\ old.closed => new.closed
    /\ old.unreachable => new.unreachable

\* A registered or routed session is pointed to.
LEMMA PointedBy ==
    /\ \A r \in Remote : sessions[r] \in Session => sessions[r] \in Live
    /\ \A t \in Tag : tags[t] \in Session => tags[t] \in Live
    /\ \A c \in Callback : held[c] \in Session => held[c] \in Live
BY DEF Live, Pointed

\* A step that leaves both maps alone and only ages objects keeps Inv.
LEMMA AgeingKeepsInv ==
    ASSUME Inv, NEW o,
           sessions' = sessions, tags' = tags, last_tag' = last_tag, running' = running,
           fetched' \in BOOLEAN, jobs' \subseteq Session, owed' \subseteq Callback,
           held' \in [Callback -> Session \cup {None}],
           \A c \in Callback : held'[c] \in Session => held'[c] \in Live,
           \A s \in Live : Ages(obj[s], o[s]),
           Become(o)
    PROVE  Inv'
<1>1. \A s \in Session : s \in Pointed(sessions', tags', held') => s \in Live
  BY DEF Pointed, Live
<1>2. \A s \in Live : s \in Session
  BY DEF Live, Pointed
<1>3. obj' = [s \in Session |-> IF s \in Pointed(sessions', tags', held') THEN o[s] ELSE Gone]
  BY DEF Become
<1>4. Live' = Pointed(sessions', tags', held')
  BY DEF Live
<1>5. PointedExists'
  <2>1. \A s \in Live' : s \in Session
    BY DEF Live, Pointed
  <2> QED BY <1>1, <1>3, <1>4, <2>1 DEF PointedExists, Ages
<1>6. obj' \in [Session -> Object \cup {Gone}]
  BY <1>1, <1>3 DEF Ages
<1>7. SessionRegistry_TypeOK'
  BY <1>6 DEF Inv, SessionRegistry_TypeOK
<1>8. \A s \in Live' : Ages(obj[s], obj'[s])
  BY <1>1, <1>3, <1>4 DEF Live, Pointed
<1>9. RegisteredIsRouted'
  <2> SUFFICES ASSUME running', NEW r \in Remote, sessions'[r] # None
               PROVE  obj'[sessions'[r]].remote = r /\ tags'[obj'[sessions'[r]].tag] = sessions'[r]
    BY DEF RegisteredIsRouted
  <2>1. sessions[r] \in Session
    BY DEF Inv, SessionRegistry_TypeOK
  <2>2. sessions[r] \in Live'
    BY <2>1 DEF Live, Pointed
  <2>3. Ages(obj[sessions[r]], obj'[sessions[r]])
    BY <2>2, <1>8
  <2>4. obj[sessions[r]].remote = r /\ tags[obj[sessions[r]].tag] = sessions[r]
    BY DEF Inv, RegisteredIsRouted
  <2> QED BY <2>3, <2>4 DEF Ages
<1>10. ReplacedIsFinished'
  <2> SUFFICES ASSUME NEW t \in Tag, tags'[t] # None
               PROVE  /\ t # 0 /\ obj'[tags'[t]].tag = t
                      /\ sessions'[obj'[tags'[t]].remote] = tags'[t] \/ ~Open(tags[t])'
    BY DEF ReplacedIsFinished
  <2>1. tags[t] \in Session
    BY DEF Inv, SessionRegistry_TypeOK
  <2>2. tags[t] \in Live'
    BY <2>1 DEF Live, Pointed
  <2>3. Ages(obj[tags[t]], obj'[tags[t]])
    BY <2>2, <1>8
  <2>4. t # 0 /\ obj[tags[t]].tag = t /\ (sessions[obj[tags[t]].remote] = tags[t] \/ ~Open(tags[t]))
    BY DEF Inv, ReplacedIsFinished
  <2>5. ~Open(tags[t]) => ~Open(tags[t])'
    BY <2>3 DEF Ages, Open
  <2> QED BY <2>3, <2>4, <2>5 DEF Ages
<1> QED BY <1>5, <1>7, <1>9, <1>10 DEF Inv

\* Registering a new object n at address s, for remote r under the new tag t,
\* keeps Inv, if no other registered session loses its tag (base is
\* _session_tags before t is added) and the replaced one is finished or untagged.
LEMMA AddingKeepsInv ==
    ASSUME Inv,
           NEW r \in Remote, NEW s \in Unused, NEW t \in next_tag, NEW n \in Object, NEW base,
           n.remote = r, n.tag = t,
           base \in [Tag -> Session \cup {None}],
           \A u \in Tag : base[u] # None => base[u] = tags[u],
           running => \A q \in Remote \ {r} : sessions[q] # None =>
                        base[obj[sessions[q]].tag] = sessions[q],
           \A u \in Tag : base[u] # None => base[u] # sessions[r] \/ ~Open(base[u]),
           running' = running, fetched' \in BOOLEAN, jobs' \subseteq Session,
           owed' \subseteq Callback, last_tag' = t,
           held' \in [Callback -> Session \cup {None}],
           \A c \in Callback : held'[c] \in Session => held'[c] \in Live \cup {s},
           sessions' = [sessions EXCEPT ![r] = s],
           tags' = [base EXCEPT ![t] = s],
           Become([obj EXCEPT ![s] = n])
    PROVE  Inv'
<1> DEFINE o == [obj EXCEPT ![s] = n]
<1>0. /\ s \in Session /\ s \notin Live /\ s # None
      /\ t \in Tag /\ t # 0 /\ tags[t] = None
      /\ sessions \in [Remote -> Session \cup {None}] /\ tags \in [Tag -> Session \cup {None}]
      /\ obj \in [Session -> Object \cup {Gone}]
  BY SessionRegistryAssumption DEF Unused, next_tag, Inv, SessionRegistry_TypeOK
<1>1. /\ \A q \in Remote : sessions'[q] = IF q = r THEN s ELSE sessions[q]
      /\ \A u \in Tag : tags'[u] = IF u = t THEN s ELSE base[u]
  BY <1>0
<1>2. \A u \in Session : u \in Pointed(sessions', tags', held') => u \in Live \cup {s}
  <2> SUFFICES ASSUME NEW u \in Session, u \in Pointed(sessions', tags', held'), u # s
               PROVE  u \in Live
    OBVIOUS
  <2>1. CASE \E q \in Remote : sessions'[q] = u
    BY <2>1, <1>1, PointedBy
  <2>2. CASE \E w \in Tag : tags'[w] = u
    <3>1. PICK w \in Tag : tags'[w] = u
      BY <2>2
    <3>2. base[w] = u /\ u # None
      BY <3>1, <1>1, SessionRegistryAssumption
    <3>3. tags[w] = u
      BY <3>2
    <3> QED BY <3>3, PointedBy
  <2>3. CASE \E c \in Callback : held'[c] = u
    BY <2>3
  <2> QED BY <2>1, <2>2, <2>3 DEF Pointed
<1>3. obj' = [u \in Session |-> IF u \in Pointed(sessions', tags', held') THEN o[u] ELSE Gone]
  BY DEF Become
<1>4. Live' = Pointed(sessions', tags', held') /\ \A u \in Live' : u \in Session
  BY DEF Live, Pointed
<1>5. \A u \in Session : o[u] = IF u = s THEN n ELSE obj[u]
  BY <1>0
<1> HIDE DEF o
<1>6. \A u \in Live' : obj'[u] = IF u = s THEN n ELSE obj[u]
  BY <1>3, <1>4, <1>5, Zenon
<1>7. \A u \in Live' \ {s} : u \in Live
  BY <1>2, <1>4, Zenon
<1>8. PointedExists'
  BY <1>6, <1>7 DEF PointedExists, Inv
<1>9. obj' \in [Session -> Object \cup {Gone}]
  BY <1>0, <1>3, <1>5
<1>10. SessionRegistry_TypeOK'
  <2>1. sessions' \in [Remote -> Session \cup {None}] /\ tags' \in [Tag -> Session \cup {None}]
    BY <1>0
  <2>2. running' \in BOOLEAN /\ last_tag' \in Tag
    BY <1>0 DEF Inv, SessionRegistry_TypeOK
  <2> QED BY <1>9, <2>1, <2>2 DEF SessionRegistry_TypeOK
<1>11. RegisteredIsRouted'
  <2> SUFFICES ASSUME running', NEW q \in Remote, sessions'[q] # None
               PROVE  obj'[sessions'[q]].remote = q /\ tags'[obj'[sessions'[q]].tag] = sessions'[q]
    BY DEF RegisteredIsRouted
  <2>1. sessions'[q] \in Live'
    BY <1>0, <1>1 DEF Live, Pointed
  <2>2. CASE q = r
    BY SMTT(30), <2>1, <2>2, <1>0, <1>1, <1>6
  <2>3. CASE q # r
    <3>1. sessions'[q] = sessions[q] /\ sessions[q] \in Session /\ sessions[q] \in Live
      BY <2>3, <1>0, <1>1, PointedBy
    <3>2. sessions[q] # s
      BY <3>1, <1>0
    <3>3. obj'[sessions[q]] = obj[sessions[q]]
      BY <3>1, <3>2, <2>1, <1>6
    <3>4. obj[sessions[q]].remote = q /\ tags[obj[sessions[q]].tag] = sessions[q]
      BY <3>1 DEF Inv, RegisteredIsRouted
    <3>5. obj[sessions[q]].tag \in Tag
      BY <3>1 DEF Inv, PointedExists, Object
    <3>6. base[obj[sessions[q]].tag] = sessions[q]
      BY <2>3, <3>1
    <3>7. obj[sessions[q]].tag # t
      BY <3>1, <3>4, <1>0
    <3> QED BY <3>1, <3>3, <3>4, <3>5, <3>6, <3>7, <1>1
  <2> QED BY <2>2, <2>3
<1>12. ReplacedIsFinished'
  <2> SUFFICES ASSUME NEW u \in Tag, tags'[u] # None
               PROVE  /\ u # 0 /\ obj'[tags'[u]].tag = u
                      /\ sessions'[obj'[tags'[u]].remote] = tags'[u] \/ ~Open(tags[u])'
    BY DEF ReplacedIsFinished
  <2>1. tags'[u] \in Live'
    BY <1>0, <1>1 DEF Live, Pointed
  <2>2. CASE u = t
    BY SMTT(30), <2>1, <2>2, <1>0, <1>1, <1>6
  <2>3. CASE u # t
    <3>1. tags'[u] = tags[u] /\ base[u] = tags[u] /\ tags[u] \in Session /\ tags[u] \in Live
      BY <2>3, <1>0, <1>1, PointedBy
    <3>2. tags[u] # s
      BY <3>1, <1>0
    <3>3. obj'[tags[u]] = obj[tags[u]]
      BY <3>1, <3>2, <2>1, <1>6
    <3>4. u # 0 /\ obj[tags[u]].tag = u /\ (sessions[obj[tags[u]].remote] = tags[u] \/ ~Open(tags[u]))
      BY <3>1 DEF Inv, ReplacedIsFinished
    <3>5. ~Open(tags[u]) => ~Open(tags[u])'
      BY <3>1, <3>3 DEF Open
    <3>6. obj[tags[u]].remote \in Remote
      BY <3>1 DEF Inv, PointedExists, Object
    <3>7. CASE obj[tags[u]].remote = r
      BY SMTT(30), <3>1, <3>3, <3>4, <3>5, <3>7
    <3>8. CASE obj[tags[u]].remote # r
      BY <3>1, <3>3, <3>4, <3>5, <3>6, <3>8, <1>1
    <3> QED BY <3>7, <3>8
  <2> QED BY <2>2, <2>3
<1> QED BY <1>8, <1>10, <1>11, <1>12 DEF Inv

\* Finding a session to reuse, or none, hands out only what is registered.
LEMMA reuse_sessionInv ==
    ASSUME Inv, NEW r \in Remote, NEW c \in Callback \cup {None}, reuse_session(r, c)
    PROVE  Inv'
<1>1. sessions[r] \in Session /\ sessions[r] \in Live
  BY PointedBy DEF reuse_session, Usable, Inv, SessionRegistry_TypeOK
<1>2. /\ held' \in [Callback -> Session \cup {None}] /\ owed' \subseteq Callback
      /\ \A d \in Callback : held'[d] \in Session => held'[d] \in Live
  BY <1>1, PointedBy DEF reuse_session, Hand, Inv, SessionRegistry_TypeOK
<1>4. /\ sessions' = sessions /\ tags' = tags /\ last_tag' = last_tag /\ running' = running
      /\ fetched' = fetched /\ jobs' = jobs /\ obj' = obj
  BY DEF reuse_session
<1>7. SessionRegistry_TypeOK'
  BY <1>2, <1>4 DEF Inv, SessionRegistry_TypeOK
<1>8. Live' \subseteq Live
  BY <1>2, <1>4 DEF Live, Pointed
<1>9. PointedExists'
  BY <1>4, <1>8 DEF Inv, PointedExists
<1>10. RegisteredIsRouted' /\ ReplacedIsFinished'
  BY <1>4 DEF Inv, RegisteredIsRouted, ReplacedIsFinished, Open
<1> QED BY <1>7, <1>9, <1>10 DEF Inv

\* A new session is registered over one that is not usable.
LEMMA create_sessionInv ==
    ASSUME Inv, NEW r \in Remote, NEW c \in Callback \cup {None}, create_session(r, c)
    PROVE  Inv'
<1>1. PICK t \in next_tag, s \in Unused, lookup \in BOOLEAN :
        /\ Hand(c, s)
        /\ sessions' = [sessions EXCEPT ![r] = s] /\ tags' = [tags EXCEPT ![t] = s]
        /\ last_tag' = t
        /\ Become([obj EXCEPT ![s] =
            [remote |-> r, tag |-> t, outbound |-> TRUE, established |-> FALSE, closed |-> FALSE,
             unreachable |-> FALSE, lookup |-> lookup, waiting |-> {}]])
  BY ZenonT(40) DEF create_session
<1> DEFINE n == [remote |-> r, tag |-> t, outbound |-> TRUE, established |-> FALSE, closed |-> FALSE,
                 unreachable |-> FALSE, lookup |-> lookup, waiting |-> {}]
<1>2. t \in Tag /\ s \in Session
  BY DEF next_tag, Unused
<1>3. n \in Object /\ n.remote = r /\ n.tag = t
  BY <1>2 DEF Object
<1>4. /\ held' \in [Callback -> Session \cup {None}] /\ owed' \subseteq Callback
      /\ \A d \in Callback : held'[d] \in Session => held'[d] \in Live \cup {s}
  BY <1>1, <1>2, PointedBy DEF Hand, Inv, SessionRegistry_TypeOK
<1>5. running' = running /\ fetched' \in BOOLEAN /\ jobs' \subseteq Session
  BY DEF create_session, Inv, SessionRegistry_TypeOK
<1>6. tags \in [Tag -> Session \cup {None}]
  BY DEF Inv, SessionRegistry_TypeOK
<1>7. running => \A q \in Remote \ {r} : sessions[q] # None => tags[obj[sessions[q]].tag] = sessions[q]
  BY DEF Inv, RegisteredIsRouted
<1>8. \A u \in Tag : tags[u] # None => tags[u] # sessions[r] \/ ~Open(tags[u])
  BY SMTT(30) DEF create_session, Usable
<1>9. Become([obj EXCEPT ![s] = n])
  BY <1>1
<1> HIDE DEF n
<1> QED BY <1>1, <1>3, <1>4, <1>5, <1>6, <1>7, <1>8, <1>9, AddingKeepsInv, Zenon

\* A remote's session replaces ours together with its tag.
LEMMA handle_session_initInv ==
    ASSUME Inv, NEW r \in Remote, handle_session_init(r)
    PROVE  Inv'
<1>1. PICK t \in next_tag, s \in Unused :
        /\ sessions' = [sessions EXCEPT ![r] = s]
        /\ tags' = [Untag(sessions[r]) EXCEPT ![t] = s]
        /\ last_tag' = t
        /\ Become([obj EXCEPT ![s] =
            [remote |-> r, tag |-> t, outbound |-> FALSE, established |-> TRUE, closed |-> FALSE,
             unreachable |-> FALSE, lookup |-> FALSE, waiting |-> {}]])
  BY Zenon DEF handle_session_init
<1> DEFINE n == [remote |-> r, tag |-> t, outbound |-> FALSE, established |-> TRUE, closed |-> FALSE,
                 unreachable |-> FALSE, lookup |-> FALSE, waiting |-> {}]
<1> DEFINE base == Untag(sessions[r])
<1>2. t \in Tag /\ s \in Session
  BY DEF next_tag, Unused
<1>3. n \in Object /\ n.remote = r /\ n.tag = t
  BY <1>2 DEF Object
<1>4. /\ held' \in [Callback -> Session \cup {None}] /\ owed' \subseteq Callback
      /\ \A d \in Callback : held'[d] \in Session => held'[d] \in Live \cup {s}
  BY PointedBy DEF handle_session_init, Inv, SessionRegistry_TypeOK
<1>5. running /\ running' = running /\ fetched' \in BOOLEAN /\ jobs' \subseteq Session
  BY DEF handle_session_init, Inv, SessionRegistry_TypeOK
<1>6. tags \in [Tag -> Session \cup {None}]
  BY DEF Inv, SessionRegistry_TypeOK
<1>7. base \in [Tag -> Session \cup {None}] /\ \A u \in Tag : base[u] # None => base[u] = tags[u]
  BY <1>6, Zenon DEF Untag
<1>8. \A q \in Remote \ {r} : sessions[q] # None => base[obj[sessions[q]].tag] = sessions[q]
  <2> SUFFICES ASSUME NEW q \in Remote \ {r}, sessions[q] # None
               PROVE  base[obj[sessions[q]].tag] = sessions[q]
    OBVIOUS
  <2>1. obj[sessions[q]].remote = q /\ tags[obj[sessions[q]].tag] = sessions[q]
    BY <1>5 DEF Inv, RegisteredIsRouted
  <2>2. CASE sessions[r] = None
    BY <2>1, <2>2 DEF Untag
  <2>3. CASE sessions[r] # None
    <3>1. obj[sessions[r]].remote = r /\ tags[obj[sessions[r]].tag] = sessions[r]
      BY <1>5, <2>3 DEF Inv, RegisteredIsRouted
    <3>2. obj[sessions[q]].tag # obj[sessions[r]].tag
      BY <2>1, <3>1
    <3>3. sessions[q] \in Live
      BY PointedBy DEF Inv, SessionRegistry_TypeOK
    <3>4. obj[sessions[q]].tag \in Tag
      BY <3>3 DEF Inv, PointedExists, Object
    <3> QED BY <2>1, <2>3, <3>2, <3>4, <1>6 DEF Untag
  <2> QED BY <2>2, <2>3
<1>9. \A u \in Tag : base[u] # None => base[u] # sessions[r] \/ ~Open(base[u])
  <2> SUFFICES ASSUME NEW u \in Tag, base[u] # None, base[u] = sessions[r]
               PROVE  FALSE
    OBVIOUS
  <2>1. tags[u] = sessions[r] /\ tags[u] # None
    BY <1>7
  <2>2. obj[tags[u]].tag = u
    BY <2>1 DEF Inv, ReplacedIsFinished
  <2> QED BY <1>6, <2>1, <2>2 DEF Untag
<1>10. Become([obj EXCEPT ![s] = n]) /\ tags' = [base EXCEPT ![t] = s]
  BY <1>1
<1>11. sessions' = [sessions EXCEPT ![r] = s] /\ last_tag' = t
  BY <1>1
<1>12. running => \A q \in Remote \ {r} : sessions[q] # None => base[obj[sessions[q]].tag] = sessions[q]
  BY <1>8
<1> HIDE DEF n, base
<1> QED BY <1>3, <1>4, <1>5, <1>7, <1>9, <1>10, <1>11, <1>12, AddingKeepsInv, Zenon

\* A tick only closes sessions and empties their queues.
LEMMA TickedAges ==
    ASSUME Inv, NEW S, NEW E, NEW D
    PROVE  \A s \in Live : Ages(obj[s], Ticked(S, E, D)[s])
<1> SUFFICES ASSUME NEW s \in Live
             PROVE  Ages(obj[s], Ticked(S, E, D)[s])
  OBVIOUS
<1> DEFINE closing == Closing(S, E)
           answered == Answered(S, E, D)
<1>1. s \in Session /\ obj[s] \in Object
  BY DEF Inv, PointedExists, Live, Pointed
<1>2. Ticked(S, E, D)[s] =
        IF s \in S \cup closing
        THEN [obj[s] EXCEPT !.closed = @ \/ s \in closing, !.waiting = @ \ answered]
        ELSE obj[s]
  BY <1>1 DEF Ticked
<1> HIDE DEF closing, answered
<1>3. Ages(obj[s], [obj[s] EXCEPT !.closed = @ \/ s \in closing, !.waiting = @ \ answered])
  BY <1>1, Zenon DEF Ages, Object
<1>4. Ages(obj[s], obj[s])
  BY <1>1 DEF Ages
<1> QED BY <1>2, <1>3, <1>4

\* SessionEndpoint::tick only ages the registered sessions.
LEMMA tickInv ==
    ASSUME Inv, NEW E, NEW D, tick(E, D)
    PROVE  Inv'
<1>1. \A s \in Live : Ages(obj[s], Ticked(Registered, E, D)[s])
  BY TickedAges
<1>2. jobs' \subseteq Session /\ owed' \subseteq Callback
  BY DEF tick, Closing, Inv, SessionRegistry_TypeOK
<1>3. /\ sessions' = sessions /\ tags' = tags /\ last_tag' = last_tag /\ running' = running
      /\ fetched' \in BOOLEAN /\ held' = held /\ held' \in [Callback -> Session \cup {None}]
  BY DEF tick, Inv, SessionRegistry_TypeOK
<1>4. \A c \in Callback : held'[c] \in Session => held'[c] \in Live
  BY <1>3, PointedBy
<1>5. Become(Ticked(Registered, E, D))
  BY SMTT(30) DEF tick
<1> QED BY <1>1, <1>2, <1>3, <1>4, <1>5, AgeingKeepsInv

\* The answered lookups mark sessions unreachable and may close them.
LEMMA rc_lookups_answeredInv ==
    ASSUME Inv, NEW U, NEW E, NEW D, rc_lookups_answered(U, E, D)
    PROVE  Inv'
<1> DEFINE asking == {s \in Session : obj[s] # Gone /\ obj[s].lookup}
           found == asking \ U
           k == Ticked(found, E, D)
           o == [s \in Session |->
                    IF s \in U THEN [k[s] EXCEPT !.lookup = FALSE, !.unreachable = TRUE, !.waiting = {}]
                    ELSE IF s \in found THEN [k[s] EXCEPT !.lookup = FALSE] ELSE k[s]]
<1>1. \A s \in Live : Ages(obj[s], k[s])
  BY TickedAges
<1>2. jobs' \subseteq Session /\ owed' \subseteq Callback
  BY Zenon DEF rc_lookups_answered, Closing, Inv, SessionRegistry_TypeOK
<1>3. /\ sessions' = sessions /\ tags' = tags /\ last_tag' = last_tag /\ running' = running
      /\ fetched' \in BOOLEAN /\ held' = held /\ held' \in [Callback -> Session \cup {None}]
  BY ZenonT(30) DEF rc_lookups_answered, Inv, SessionRegistry_TypeOK
<1>4. \A c \in Callback : held'[c] \in Session => held'[c] \in Live
  BY <1>3, PointedBy
<1>5. Become(o)
  BY Zenon DEF rc_lookups_answered
<1>6. \A s \in Live : s \in Session
  BY DEF Live, Pointed
<1> HIDE DEF k, found
<1>7. \A s \in Live : Ages(obj[s], o[s])
  <2> SUFFICES ASSUME NEW s \in Live
               PROVE  Ages(obj[s], o[s])
    BY Zenon
  <2>1. o[s] = IF s \in U THEN [k[s] EXCEPT !.lookup = FALSE, !.unreachable = TRUE, !.waiting = {}]
               ELSE IF s \in found THEN [k[s] EXCEPT !.lookup = FALSE] ELSE k[s]
    BY <1>6, Zenon
  <2>2. Ages(obj[s], k[s])
    BY <1>1
  <2>3. Ages(obj[s], [k[s] EXCEPT !.lookup = FALSE, !.unreachable = TRUE, !.waiting = {}])
    BY <2>2, Zenon DEF Ages, Object
  <2>4. Ages(obj[s], [k[s] EXCEPT !.lookup = FALSE])
    BY <2>2, Zenon DEF Ages, Object
  <2> HIDE DEF o
  <2> QED BY <2>1, <2>2, <2>3, <2>4
<1> HIDE DEF o
<1> QED BY <1>2, <1>3, <1>4, <1>5, <1>7, AgeingKeepsInv

\* Filing or calling an establish callback ages one session.
LEMMA on_establishedInv ==
    ASSUME Inv, NEW c \in Callback, on_established(c)
    PROVE  Inv'
<1> DEFINE s == held[c]
           up == obj[s].established /\ ~obj[s].closed
           o == IF ~up /\ obj[s].outbound THEN [obj EXCEPT ![s].waiting = @ \cup {c}] ELSE obj
<1>1. s \in Session /\ s \in Live
  BY PointedBy DEF on_established, Inv, SessionRegistry_TypeOK
<1>2. /\ sessions' = sessions /\ tags' = tags /\ last_tag' = last_tag /\ running' = running
      /\ fetched' \in BOOLEAN /\ jobs' \subseteq Session /\ owed' \subseteq Callback
      /\ held' = [held EXCEPT ![c] = None] /\ held' \in [Callback -> Session \cup {None}]
  BY DEF on_established, Inv, SessionRegistry_TypeOK
<1>3. \A d \in Callback : held'[d] \in Session => held'[d] \in Live
  BY <1>2, PointedBy, SessionRegistryAssumption DEF Inv, SessionRegistry_TypeOK
<1>4. Become(o)
  BY DEF on_established
<1>5. \A u \in Live : u \in Session /\ obj[u] \in Object
  BY DEF Inv, PointedExists, Live, Pointed
<1>6. \A u \in Live : o[u] = IF u = s /\ ~up /\ obj[s].outbound
                             THEN [obj[u] EXCEPT !.waiting = @ \cup {c}] ELSE obj[u]
  BY <1>1, <1>5 DEF Inv, SessionRegistry_TypeOK
<1>7. \A u \in Live : Ages(obj[u], obj[u])
  BY <1>5 DEF Ages
<1>8. \A u \in Live : Ages(obj[u], [obj[u] EXCEPT !.waiting = @ \cup {c}])
  BY <1>5 DEF Ages, Object
<1> HIDE DEF o, up, s
<1>9. \A u \in Live : Ages(obj[u], o[u])
  BY <1>6, <1>7, <1>8, Zenon
<1> QED BY <1>2, <1>3, <1>4, <1>9, AgeingKeepsInv

\* An accept establishes the session its tag leads to.
LEMMA session_acceptInv ==
    ASSUME Inv, NEW t \in Tag, NEW D, session_accept(t, D)
    PROVE  Inv'
<1> DEFINE s == tags[t]
           fire == IF obj[s].closed THEN obj[s].waiting \cap D ELSE obj[s].waiting
           o == [obj EXCEPT ![s].established = TRUE, ![s].waiting = @ \ fire]
<1>1. s \in Session /\ s \in Live
  BY PointedBy DEF session_accept, Inv, SessionRegistry_TypeOK
<1>2. /\ sessions' = sessions /\ tags' = tags /\ last_tag' = last_tag /\ running' = running
      /\ fetched' \in BOOLEAN /\ jobs' \subseteq Session /\ owed' \subseteq Callback
      /\ held' = held /\ held' \in [Callback -> Session \cup {None}]
  BY DEF session_accept, Inv, SessionRegistry_TypeOK
<1>3. \A d \in Callback : held'[d] \in Session => held'[d] \in Live
  BY <1>2, PointedBy
<1>4. Become(o)
  BY DEF session_accept
<1>5. \A u \in Live : u \in Session /\ obj[u] \in Object
  BY DEF Inv, PointedExists, Live, Pointed
<1> HIDE DEF fire
<1>6. \A u \in Live : o[u] = IF u = s THEN [obj[u] EXCEPT !.established = TRUE, !.waiting = @ \ fire] ELSE obj[u]
  BY <1>1, <1>5, Zenon DEF Inv, SessionRegistry_TypeOK
<1>7. \A u \in Live : Ages(obj[u], obj[u])
  BY <1>5 DEF Ages
<1>8. \A u \in Live : Ages(obj[u], [obj[u] EXCEPT !.established = TRUE, !.waiting = @ \ fire])
  BY <1>5, Zenon DEF Ages, Object
<1> HIDE DEF o, s
<1>9. \A u \in Live : Ages(obj[u], o[u])
  BY <1>6, <1>7, <1>8, Zenon
<1> QED BY <1>2, <1>3, <1>4, <1>9, AgeingKeepsInv

\* A remote's close closes the session its tag leads to.
LEMMA recv_closeInv ==
    ASSUME Inv, NEW t \in Tag, recv_close(t)
    PROVE  Inv'
<1> DEFINE s == tags[t]
           o == [obj EXCEPT ![s].closed = TRUE]
<1>1. s \in Session /\ s \in Live
  BY PointedBy DEF recv_close, Inv, SessionRegistry_TypeOK
<1>2. /\ sessions' = sessions /\ tags' = tags /\ last_tag' = last_tag /\ running' = running
      /\ fetched' \in BOOLEAN /\ jobs' \subseteq Session /\ owed' \subseteq Callback
      /\ held' = held /\ held' \in [Callback -> Session \cup {None}]
  BY <1>1 DEF recv_close, Inv, SessionRegistry_TypeOK
<1>3. \A d \in Callback : held'[d] \in Session => held'[d] \in Live
  BY <1>2, PointedBy
<1>4. Become(o)
  BY DEF recv_close
<1>5. \A u \in Live : u \in Session /\ obj[u] \in Object
  BY DEF Inv, PointedExists, Live, Pointed
<1>6. \A u \in Live : o[u] = IF u = s THEN [obj[u] EXCEPT !.closed = TRUE] ELSE obj[u]
  BY <1>1, <1>5, Zenon DEF Inv, SessionRegistry_TypeOK
<1>7. \A u \in Live : Ages(obj[u], obj[u])
  BY <1>5 DEF Ages
<1>8. \A u \in Live : Ages(obj[u], [obj[u] EXCEPT !.closed = TRUE])
  BY <1>5, Zenon DEF Ages, Object
<1> HIDE DEF o, s
<1>9. \A u \in Live : Ages(obj[u], o[u])
  BY <1>6, <1>7, <1>8, Zenon
<1> QED BY <1>2, <1>3, <1>4, <1>9, AgeingKeepsInv

\* The deferred job erases both entries of a session, or none.
LEMMA cleanupInv ==
    ASSUME Inv, NEW s \in Session, cleanup(s)
    PROVE  Inv'
<1> DEFINE erases == obj[s] # Gone /\ sessions[obj[s].remote] = s
<1>1. /\ obj \in [Session -> Object \cup {Gone}] /\ running' = running
      /\ sessions \in [Remote -> Session \cup {None}] /\ tags \in [Tag -> Session \cup {None}]
      /\ held' = held /\ s # None
  BY SessionRegistryAssumption DEF cleanup, Inv, SessionRegistry_TypeOK
<1>2. obj' = [u \in Session |-> IF u \in Pointed(sessions', tags', held') THEN obj[u] ELSE Gone]
  BY DEF cleanup, Become
<1>3. obj[s] # Gone => obj[s].remote \in Remote /\ obj[s].tag \in Tag
  BY <1>1 DEF Object
<1>4. /\ sessions' = IF erases THEN [sessions EXCEPT ![obj[s].remote] = None] ELSE sessions
      /\ tags' = IF erases THEN [tags EXCEPT ![obj[s].tag] = None] ELSE tags
  BY <1>1 DEF cleanup, Untag
<1>5. /\ \A q \in Remote : sessions'[q] = IF erases /\ q = obj[s].remote THEN None ELSE sessions[q]
      /\ \A u \in Tag : tags'[u] = IF erases /\ u = obj[s].tag THEN None ELSE tags[u]
  BY <1>1, <1>3, <1>4
<1>6. \A u \in Live' : u \in Live /\ u \in Session /\ obj'[u] = obj[u]
  <2>1. \A u \in Live' : u \in Session /\ u \in Pointed(sessions', tags', held')
    BY DEF Live, Pointed
  <2>2. \A u \in Live' : u \in Live
    BY <1>1, <1>5, SessionRegistryAssumption DEF Live, Pointed
  <2> QED BY <1>2, <2>1, <2>2
<1>7. PointedExists'
  BY <1>6 DEF Inv, PointedExists
<1>8. SessionRegistry_TypeOK'
  <2>1. sessions' \in [Remote -> Session \cup {None}] /\ tags' \in [Tag -> Session \cup {None}]
    BY <1>1, <1>4, Zenon
  <2>2. obj' \in [Session -> Object \cup {Gone}]
    BY <1>1, <1>2
  <2> QED BY <2>1, <2>2 DEF cleanup, Inv, SessionRegistry_TypeOK
<1>9. RegisteredIsRouted'
  <2> SUFFICES ASSUME running', NEW q \in Remote, sessions'[q] # None
               PROVE  obj'[sessions'[q]].remote = q /\ tags'[obj'[sessions'[q]].tag] = sessions'[q]
    BY DEF RegisteredIsRouted
  <2>1. sessions'[q] = sessions[q] /\ sessions[q] \in Session
    BY <1>1, <1>5
  <2>2. sessions[q] \in Live'
    BY SMTT(30), <2>1 DEF Live, Pointed
  <2>3. obj'[sessions[q]] = obj[sessions[q]] /\ obj[sessions[q]].tag \in Tag
    BY <2>2, <1>6 DEF Inv, PointedExists, Object
  <2>4. obj[sessions[q]].remote = q /\ tags[obj[sessions[q]].tag] = sessions[q]
    BY SMTT(30), <2>1, <1>1 DEF Inv, RegisteredIsRouted
  <2>5. CASE ~erases
    BY SMTT(30), <2>1, <2>3, <2>4, <2>5, <1>5
  <2>6. CASE erases
    <3>1. q # obj[s].remote
      BY <2>6, <1>5
    <3>2. sessions[q] # s
      BY <3>1, <2>4
    <3>3. tags[obj[s].tag] = s
      BY SMTT(30), <2>6, <1>1, <1>3 DEF Inv, RegisteredIsRouted
    <3>4. obj[sessions[q]].tag # obj[s].tag
      BY <3>2, <3>3, <2>4
    <3> QED BY <3>4, <2>1, <2>3, <2>4, <1>5
  <2> QED BY <2>5, <2>6
<1>10. ReplacedIsFinished'
  <2> SUFFICES ASSUME NEW u \in Tag, tags'[u] # None
               PROVE  /\ u # 0 /\ obj'[tags'[u]].tag = u
                      /\ sessions'[obj'[tags'[u]].remote] = tags'[u] \/ ~Open(tags[u])'
    BY DEF ReplacedIsFinished
  <2>1. tags'[u] = tags[u] /\ tags[u] \in Session
    BY <1>1, <1>5
  <2>2. tags[u] \in Live'
    BY <2>1 DEF Live, Pointed
  <2>3. obj'[tags[u]] = obj[tags[u]] /\ obj[tags[u]].remote \in Remote
    BY <2>2, <1>6 DEF Inv, PointedExists, Object
  <2>4. u # 0 /\ obj[tags[u]].tag = u /\ (sessions[obj[tags[u]].remote] = tags[u] \/ ~Open(tags[u]))
    BY <2>1 DEF Inv, ReplacedIsFinished
  <2>5. ~Open(tags[u]) => ~Open(tags[u])'
    BY <2>1, <2>3 DEF Open
  <2>6. CASE ~erases
    BY <2>1, <2>3, <2>4, <2>5, <2>6, <1>5, Zenon
  <2>7. CASE erases
    <3>1. tags[u] # s
      BY <2>1, <2>4, <2>7, <1>5, ZenonT(30)
    <3>2. CASE obj[tags[u]].remote = obj[s].remote
      BY SMTT(30), <3>1, <3>2, <2>1, <2>3, <2>4, <2>5, <2>7
    <3>3. CASE obj[tags[u]].remote # obj[s].remote
      BY <3>3, <2>1, <2>3, <2>4, <2>5, <1>5
    <3> QED BY <3>2, <3>3, Zenon
  <2> QED BY <2>6, <2>7
<1> QED BY <1>7, <1>8, <1>9, <1>10 DEF Inv

\* stop closes what is registered and clears _session_tags.
LEMMA stopInv ==
    ASSUME Inv, stop
    PROVE  Inv'
<1> DEFINE o == [s \in Session |-> IF s \in Registered THEN [obj[s] EXCEPT !.closed = TRUE] ELSE obj[s]]
<1>1. /\ obj \in [Session -> Object \cup {Gone}] /\ ~running'
      /\ sessions' = sessions /\ held' = held /\ tags' = [t \in Tag |-> None]
  BY DEF stop, Inv, SessionRegistry_TypeOK
<1>2. obj' = [u \in Session |-> IF u \in Pointed(sessions', tags', held') THEN o[u] ELSE Gone]
  BY DEF stop, Become
<1>3. \A u \in Live' : u \in Live /\ u \in Session /\ u \in Pointed(sessions', tags', held')
  BY <1>1, SessionRegistryAssumption DEF Live, Pointed
<1>4. \A u \in Session : u \in Live => o[u] \in Object
  <2> SUFFICES ASSUME NEW u \in Session, u \in Live
               PROVE  o[u] \in Object
    OBVIOUS
  <2>1. obj[u] \in Object
    BY DEF Inv, PointedExists
  <2>2. [obj[u] EXCEPT !.closed = TRUE] \in Object
    BY <2>1, Zenon DEF Object
  <2> QED BY <2>1, <2>2
<1> HIDE DEF o
<1>5. PointedExists'
  BY <1>2, <1>3, <1>4 DEF PointedExists
<1>6. obj' \in [Session -> Object \cup {Gone}]
  <2>1. \A u \in Session : u \in Pointed(sessions', tags', held') => u \in Live
    BY <1>3 DEF Live
  <2> QED BY <2>1, <1>2, <1>4
<1>7. SessionRegistry_TypeOK'
  BY <1>1, <1>6, Zenon DEF stop, Inv, SessionRegistry_TypeOK
<1>8. RegisteredIsRouted' /\ ReplacedIsFinished'
  BY <1>1 DEF RegisteredIsRouted, ReplacedIsFinished
<1> QED BY <1>5, <1>7, <1>8 DEF Inv

\* Every step of SessionEndpoint keeps Inv.
LEMMA NextKeepsInv ==
    ASSUME Inv, [Next]_vars
    PROVE  Inv'
<1>1. CASE UNCHANGED vars
  BY <1>1, ZenonT(30) DEF vars, Inv, SessionRegistry_TypeOK, PointedExists, RegisteredIsRouted, ReplacedIsFinished, Live, Open
<1>2. ASSUME last_tag' \in next_tag, UNCHANGED <<running, fetched, sessions, tags, obj, jobs, held, owed>>
      PROVE  Inv'
  <2>1. last_tag' \in Tag
    BY <1>2 DEF next_tag
  <2>2. SessionRegistry_TypeOK'
    BY <1>2, <2>1 DEF Inv, SessionRegistry_TypeOK
  <2> QED BY <1>2, <2>2 DEF Inv, PointedExists, RegisteredIsRouted, ReplacedIsFinished, Live, Open
<1>3. ASSUME NEW r \in Remote, NEW c \in Callback \cup {None}, reuse_session(r, c) PROVE Inv'
  BY <1>3, reuse_sessionInv
<1>4. ASSUME NEW r \in Remote, NEW c \in Callback \cup {None}, create_session(r, c) PROVE Inv'
  BY <1>4, create_sessionInv
<1>5. ASSUME NEW r \in Remote, refuse_session(r) PROVE Inv'
  BY <1>2, <1>5 DEF refuse_session
<1>6. ASSUME NEW r \in Remote, handle_session_init(r) PROVE Inv'
  BY <1>6, handle_session_initInv
<1>7. ASSUME NEW c \in Callback, on_established(c) PROVE Inv'
  BY <1>7, on_establishedInv
<1>8. ASSUME NEW E \in SUBSET Registered, NEW D \in SUBSET owed, tick(E, D) PROVE Inv'
  BY <1>8, tickInv
<1>9. ASSUME NEW U \in SUBSET Live, NEW E \in SUBSET Live, NEW D \in SUBSET owed, rc_lookups_answered(U, E, D)
      PROVE  Inv'
  BY <1>9, rc_lookups_answeredInv
<1>10. ASSUME NEW t \in Tag, recv_close(t) PROVE Inv'
  BY <1>10, recv_closeInv
<1>11. ASSUME NEW t \in Tag, NEW D \in SUBSET owed, session_accept(t, D) PROVE Inv'
  BY <1>11, session_acceptInv
<1>12. CASE session_init_dropped
  BY <1>2, <1>12 DEF session_init_dropped
<1>13. ASSUME NEW s \in Session, cleanup(s) PROVE Inv'
  BY <1>13, cleanupInv
<1>14. CASE stop
  BY <1>14, stopInv
<1> QED
  BY <1>1, <1>3, <1>4, <1>5, <1>6, <1>7, <1>8, <1>9, <1>10, <1>11, <1>12, <1>13, <1>14 DEF Next

\* Nothing is registered at first.
LEMMA InitInv ==
    ASSUME Init
    PROVE  Inv
<1>1. SessionRegistry_TypeOK
  BY DEF Init, SessionRegistry_TypeOK
<1>2. PointedExists
  BY SessionRegistryAssumption DEF Init, PointedExists, Live, Pointed
<1>3. RegisteredIsRouted /\ ReplacedIsFinished
  BY DEF Init, RegisteredIsRouted, ReplacedIsFinished
<1> QED BY <1>1, <1>2, <1>3 DEF Inv

(***************************************************************************)
(* For any number of remotes, sessions, tags and callbacks: until stop the *)
(* session an address leads to is the one its tag leads to, and whatever a *)
(* tag still reaches beside it is closed or unreachable for good, in every *)
(* order of initiations, incoming session inits, closes and deferred jobs. *)
(***************************************************************************)
THEOREM SessionRegistrySafe == Spec => [](SessionRegistry_TypeOK /\ RegisteredIsRouted /\ ReplacedIsFinished)
<1>1. Inv => SessionRegistry_TypeOK /\ RegisteredIsRouted /\ ReplacedIsFinished
  BY DEF Inv
<1> QED BY <1>1, InitInv, NextKeepsInv, PTL DEF Spec

-----------------------------------------------------------------------------
IpSpec == IpInit /\ [][IpNext]_ipvars

IpShare == (IpTarget + IpSlots - 1) \div IpSlots

\* Inductive with the types: the work is in what update_paths chooses.
IpInv ==
    /\ InboundPaths_TypeOK
    /\ ExpiriesSpread

LEMMA IpSlotsNat == IpSlots \in Nat /\ IpSlots >= 1 /\ IpSlot \in Nat /\ IpSlot >= 1
BY InboundPathsAssumption DEF IpSlots

\* An instant of a slot is in that slot.
LEMMA IpInSlot ==
    ASSUME NEW n \in Nat, NEW f \in Nat, f < IpSlot
    PROVE  (n * IpSlot + f) \div IpSlot = n
BY IpSlotsNat

\* What fits a number of times is no more than the quotient.
LEMMA IpQuotient ==
    ASSUME NEW x \in Nat, NEW y \in Nat, NEW s \in Nat, s >= 1, x * s <= y
    PROVE  x <= y \div s
OBVIOUS

LEMMA IpObjectsFinite == IsFiniteSet(IpObjects)
<1>1. IsFiniteSet(IpRelay) /\ IsFiniteSet(1..IpReuse)
    BY FS_Interval, InboundPathsAssumption
<1> QED BY ZenonT(30), <1>1, FS_Product DEF IpObjects

LEMMA IpPartFinite ==
    ASSUME NEW T \in SUBSET IpObjects
    PROVE  IsFiniteSet(T) /\ Cardinality(T) \in Nat
BY IpObjectsFinite, FS_Subset, FS_CardinalityType

\* The items of L to which f gives slot n.
IpOf(L, f, n) == {x \in L : f[x] = n}

\* Of the items L and J, which f and g give a slot, c or more are in each of the S
\* slots from a on.
IpAtLeast(c, L, f, J, g, a, S) ==
    \A n \in a..(a + S - 1) : c <= Cardinality({x \in L : f[x] = n}) + Cardinality({x \in J : g[x] = n})

\* Counting by slots: there are then c times S of them, over any number of slots.
LEMMA IpCounting ==
    ASSUME NEW L, IsFiniteSet(L), NEW f \in [L -> Int], NEW J, IsFiniteSet(J), NEW g \in [J -> Int],
           NEW a \in Int, NEW S \in Nat, NEW c \in Nat, IpAtLeast(c, L, f, J, g, a, S)
    PROVE  c * S <= Cardinality(L) + Cardinality(J)
<1> DEFINE A(j) == {x \in L : f[x] \in a..(a + j - 1)}
           B(j) == {x \in J : g[x] \in a..(a + j - 1)}
           A1(j) == {x \in L : f[x] = a + j}
           B1(j) == {x \in J : g[x] = a + j}
           Few == {j \in 0..S : ~(c * j <= Cardinality(A(j)) + Cardinality(B(j)))}
<1>1. ASSUME NEW j \in Nat
      PROVE  /\ IsFiniteSet(A(j)) /\ Cardinality(A(j)) \in Nat /\ Cardinality(A(j)) <= Cardinality(L)
             /\ IsFiniteSet(B(j)) /\ Cardinality(B(j)) \in Nat /\ Cardinality(B(j)) <= Cardinality(J)
             /\ IsFiniteSet(A1(j)) /\ Cardinality(A1(j)) \in Nat
             /\ IsFiniteSet(B1(j)) /\ Cardinality(B1(j)) \in Nat
    <2>1. A(j) \in SUBSET L /\ B(j) \in SUBSET J /\ A1(j) \in SUBSET L /\ B1(j) \in SUBSET J OBVIOUS
    <2> HIDE DEF A, B, A1, B1
    <2> QED BY <2>1, FS_Subset, FS_CardinalityType
<1>2. ASSUME NEW j \in Nat
      PROVE  /\ Cardinality(A(j + 1)) = Cardinality(A(j)) + Cardinality(A1(j))
             /\ Cardinality(B(j + 1)) = Cardinality(B(j)) + Cardinality(B1(j))
    <2>1. A(j + 1) = A(j) \cup A1(j) /\ A(j) \cap A1(j) = {} OBVIOUS
    <2>2. B(j + 1) = B(j) \cup B1(j) /\ B(j) \cap B1(j) = {} OBVIOUS
    <2>3. Cardinality({}) = 0 BY FS_EmptySet
    <2> HIDE DEF A, B, A1, B1
    <2>4. Cardinality(A(j) \cup A1(j)) = Cardinality(A(j)) + Cardinality(A1(j)) - Cardinality(A(j) \cap A1(j))
        BY <1>1, FS_Union, Zenon
    <2>5. Cardinality(B(j) \cup B1(j)) = Cardinality(B(j)) + Cardinality(B1(j)) - Cardinality(B(j) \cap B1(j))
        BY <1>1, FS_Union, Zenon
    <2>6. /\ Cardinality(A(j + 1)) = Cardinality(A(j)) + Cardinality(A1(j)) - 0
          /\ Cardinality(B(j + 1)) = Cardinality(B(j)) + Cardinality(B1(j)) - 0
        BY <2>1, <2>2, <2>3, <2>4, <2>5, ZenonT(30)
    <2> QED BY <1>1, <2>6
<1>3. Few = {}
    <2> SUFFICES ASSUME Few # {} PROVE FALSE BY ZenonT(30)
    <2>1. Few \subseteq Nat OBVIOUS
    <2>2. PICK j \in Few : \A i \in Few : ~(<<i, j>> \in OpToRel(<, Nat))
        <3> HIDE DEF Few
        <3> QED BY <2>1, WFMin, NatLessThanWellFounded, Zenon
    <2>3. \A i \in Few : ~(i < j) BY ZenonT(30), <2>1, <2>2 DEF OpToRel
    <2>4. j \in 0..S /\ ~(c * j <= Cardinality(A(j)) + Cardinality(B(j))) OBVIOUS
    <2>5. c * 0 = 0 OBVIOUS
    <2>6. j # 0
        <3> HIDE DEF A, B, A1, B1, Few
        <3>1. Cardinality(A(0)) \in Nat /\ Cardinality(B(0)) \in Nat BY <1>1
        <3> QED BY <2>4, <2>5, <3>1
    <2>7. j - 1 \in 0..S /\ j - 1 \in Nat /\ j - 1 < j BY <2>4, <2>6
    <2>8. j - 1 \notin Few BY ZenonT(30), <2>3, <2>7
    <2>9. c * (j - 1) <= Cardinality(A(j - 1)) + Cardinality(B(j - 1)) BY <2>7, <2>8
    <2>10. a + (j - 1) \in a..(a + S - 1) BY <2>4, <2>7
    <2>11. c <= Cardinality(A1(j - 1)) + Cardinality(B1(j - 1)) BY <2>10, Zenon DEF IpAtLeast
    <2>12. (j - 1) + 1 = j BY <2>4
    <2>13. /\ Cardinality(A(j)) = Cardinality(A(j - 1)) + Cardinality(A1(j - 1))
           /\ Cardinality(B(j)) = Cardinality(B(j - 1)) + Cardinality(B1(j - 1))
        BY ZenonT(30), <1>2, <2>7, <2>12
    <2>14. c * j = c * (j - 1) + c BY <2>4
    <2>15. c * j \in Int /\ c * (j - 1) \in Int BY <2>4
    <2> HIDE DEF A, B, A1, B1, Few
    <2> QED BY <1>1, <2>4, <2>7, <2>9, <2>11, <2>13, <2>14, <2>15
<1>4. c * S <= Cardinality(A(S)) + Cardinality(B(S)) 
    <2> HIDE DEF A, B, A1, B1
    <2> QED BY <1>3
<1>5. c * S \in Int /\ Cardinality(L) \in Nat /\ Cardinality(J) \in Nat BY FS_CardinalityType
<1> HIDE DEF A, B, A1, B1, Few
<1> QED BY <1>1, <1>4, <1>5

\* How many of the items L are in each of the slots from a on.
IpCounts(count, L, f, a) == count = [n \in a..(a + IpSlots - 1) |-> Cardinality({x \in L : f[x] = n})]

\* The last path that is put into a slot goes there because no slot has fewer.
LEMMA IpFilled ==
    ASSUME NEW L, IsFiniteSet(L), NEW f \in [L -> Int], NEW a \in Int, NEW k \in Nat,
           NEW count, IpCounts(count, L, f, a),
           NEW s \in IpFill(count, k), NEW t \in Nat, Cardinality(L) + k <= t,
           NEW n \in Int, NEW i0 \in 1..k, s[i0] = n
    PROVE  Cardinality(IpOf(L, f, n)) + Cardinality(IpOf(1..k, s, n)) <= (t + IpSlots - 1) \div IpSlots
<1> DEFINE slots == a..(a + IpSlots - 1)
           K == {i \in 1..k : s[i] = n}
           Later == {k - i : i \in K}
<1>1. s \in [1..k -> slots] BY DEF IpFill, IpCounts
<1>2. K # {} /\ K \subseteq 1..k BY DEF K
<1>3. Later # {} /\ Later \subseteq Nat BY <1>2
<1>4. \E y \in Later : \A z \in Later : ~(<<z, y>> \in OpToRel(<, Nat))
    <2> HIDE DEF Later
    <2> QED BY <1>3, WFMin, NatLessThanWellFounded, Zenon
<1>5. PICK y \in Later : \A z \in Later : ~(<<z, y>> \in OpToRel(<, Nat)) BY <1>4, Zenon
<1>6. \A z \in Later : ~(z < y) BY ZenonT(30), <1>3, <1>5 DEF OpToRel
<1>7. PICK m \in K : y = k - m OBVIOUS
<1>8. m \in 1..k /\ s[m] = n /\ \A i \in K : i \in 1..k /\ i <= m
    <2>1. \A i \in K : ~(k - i < k - m) BY <1>6, <1>7
    <2> QED BY <1>2, <2>1
<1> DEFINE J == 1..(m - 1)
           g == [j \in J |-> s[j]]
           In(x) == {o \in L : f[o] = x}
           Put(x) == {j \in J : s[j] = x}
<1>9. g \in [J -> Int] /\ \A x : {j \in J : g[j] = x} = Put(x) BY SMTT(30), <1>1, <1>8
<1>10. IsFiniteSet(J) /\ Cardinality(J) = m - 1
    <2>1. 1 \in Int /\ m - 1 \in Int /\ m - 1 >= 0 BY <1>8
    <2>2. IsFiniteSet(J) /\ Cardinality(J) = IF 1 > m - 1 THEN 0 ELSE (m - 1) - 1 + 1 BY <2>1, FS_Interval, ZenonT(30)
    <2> HIDE DEF J
    <2> QED BY SMTT(30), <1>8, <2>1, <2>2
<1>11. ASSUME NEW x \in Int PROVE Cardinality(In(x)) \in Nat /\ IsFiniteSet(Put(x)) /\ Cardinality(Put(x)) \in Nat
    <2>1. In(x) \in SUBSET L /\ Put(x) \in SUBSET J OBVIOUS
    <2> HIDE DEF In, Put, J
    <2> QED BY SMTT(30), <1>10, <2>1, FS_Subset, FS_CardinalityType
<1>12. n \in slots BY <1>1, <1>8
<1>13. IpEmptiest([x \in DOMAIN count |-> count[x] + Cardinality({j \in 1..(m - 1) : s[j] = x})], s[m])
    BY <1>8, Zenon DEF IpFill
<1>14. DOMAIN count = slots /\ \A x \in slots : count[x] = Cardinality(In(x)) BY DEF IpCounts
<1>15. IpEmptiest([x \in slots |-> Cardinality(In(x)) + Cardinality(Put(x))], n)
    <2>1. [x \in DOMAIN count |-> count[x] + Cardinality({j \in 1..(m - 1) : s[j] = x})]
            = [x \in slots |-> Cardinality(In(x)) + Cardinality(Put(x))]
        <3> HIDE DEF slots, In
        <3> QED BY <1>14, Zenon
    <2> QED BY <1>8, <1>13, <2>1, Zenon
<1> DEFINE c == Cardinality(In(n)) + Cardinality(Put(n))
<1>16. c \in Nat
    <2> HIDE DEF In, Put, K, Later, slots
    <2>1. Cardinality(In(n)) \in Nat /\ Cardinality(Put(n)) \in Nat BY <1>11, ZenonT(30)
    <2> QED BY <2>1
<1>17. \A x \in slots : c <= Cardinality(In(x)) + Cardinality(Put(x))
    <2> SUFFICES ASSUME NEW x \in slots PROVE c <= Cardinality(In(x)) + Cardinality(Put(x)) OBVIOUS
    <2>1. x \in Int OBVIOUS
    <2>2. Cardinality(In(x)) + Cardinality(Put(x)) \in Nat
        <3> HIDE DEF In, Put, c, K, Later
        <3>1. Cardinality(In(x)) \in Nat /\ Cardinality(Put(x)) \in Nat BY <1>11, <2>1, ZenonT(30)
        <3> HIDE DEF slots
        <3> QED BY <3>1
    <2> DEFINE h == [z \in slots |-> Cardinality(In(z)) + Cardinality(Put(z))]
    <2>3. DOMAIN h = slots /\ h[x] = Cardinality(In(x)) + Cardinality(Put(x)) /\ h[n] = c BY SMTT(30), <1>12
    <2>4. IpEmptiest(h, n) BY <1>15
    <2> HIDE DEF h, slots, c
    <2>5. h[n] < h[x] \/ h[n] = h[x] BY <2>3, <2>4, Zenon DEF IpEmptiest
    <2> HIDE DEF In, Put
    <2> QED BY SMTT(30), <1>16, <2>2, <2>3, <2>5
<1>18. c * IpSlots <= Cardinality(L) + Cardinality(J)
    <2>1. \A x \in a..(a + IpSlots - 1) :
              c <= Cardinality({o \in L : f[o] = x}) + Cardinality({j \in J : g[j] = x})
        BY <1>9, <1>17, Zenon
    <2>2. g \in [J -> Int] /\ IsFiniteSet(J) /\ c \in Nat /\ IpSlots \in Nat BY <1>9, <1>10, <1>16, IpSlotsNat, Zenon
    <2>3. IpAtLeast(c, L, f, J, g, a, IpSlots) BY <2>1, Zenon DEF IpAtLeast
    <2> HIDE DEF c, g, J, K, Later, slots
    <2> QED BY <2>2, <2>3, IpCounting, Zenon
<1>19. K = Put(n) \cup {m} /\ m \notin Put(n) BY <1>8
<1>20. Cardinality(K) = Cardinality(Put(n)) + 1
    <2> HIDE DEF Put, K
    <2> QED BY <1>11, <1>19, FS_AddElement, ZenonT(30)
<1>21. Cardinality(L) \in Nat BY FS_CardinalityType
<1>22. (c + 1) * IpSlots = c * IpSlots + IpSlots
    <2> HIDE DEF c
    <2> QED BY SMTT(30), <1>16, IpSlotsNat
<1>23. (c + 1) * IpSlots <= t + IpSlots - 1
    <2>1. c * IpSlots \in Int
        <3> HIDE DEF c
        <3> QED BY SMTT(30), <1>16, IpSlotsNat
    <2> HIDE DEF c, J
    <2> QED BY SMTT(30), <1>8, <1>10, <1>18, <1>21, <1>22, <2>1, IpSlotsNat
<1>24. c + 1 <= (t + IpSlots - 1) \div IpSlots
    <2> HIDE DEF c
    <2>1. c + 1 \in Nat /\ t + IpSlots - 1 \in Nat BY SMTT(30), <1>16, IpSlotsNat
    <2> QED BY SMTT(30), <1>23, <2>1, IpSlotsNat, IpQuotient
<1>25. Cardinality(In(n)) + Cardinality(K) = c + 1
    <2> HIDE DEF In, Put, K
    <2> QED BY <1>11, <1>20
<1> QED BY <1>24, <1>25, Zenon DEF IpOf

-----------------------------------------------------------------------------
IpIn(P, n) == {o \in IpLive(P) : P[o].exp \div IpSlot = n}

IpSpread(P) == \A n \in 1..IpLast : IpCount(P, n) <= IpShare

LEMMA IpInFinite ==
    ASSUME NEW P, NEW n
    PROVE  /\ IsFiniteSet(IpIn(P, n)) /\ Cardinality(IpIn(P, n)) \in Nat /\ IpCount(P, n) = Cardinality(IpIn(P, n))
           /\ IsFiniteSet(IpLive(P)) /\ Cardinality(IpLive(P)) \in Nat
<1>1. IpIn(P, n) \in SUBSET IpObjects /\ IpLive(P) \in SUBSET IpObjects BY DEF IpIn, IpLive
<1>2. IpCount(P, n) = Cardinality(IpIn(P, n)) BY Zenon DEF IpCount, IpIn
<1> QED BY <1>1, <1>2, IpPartFinite, Zenon

LEMMA IpLastNat == IpLast \in Nat /\ IpShare \in Int
<1>1. IpMaxTime \div IpSlot \in Nat BY InboundPathsAssumption
<1>2. IpLast \in Nat BY <1>1, IpSlotsNat DEF IpLast
<1>3. IpTarget + IpSlots - 1 \in Int BY IpSlotsNat, InboundPathsAssumption
<1>4. IpShare \in Int BY <1>3, IpSlotsNat DEF IpShare
<1> QED BY <1>2, <1>4

\* Fewer paths are spread as well.
LEMMA IpFewer ==
    ASSUME NEW P, NEW Q, IpSpread(P), \A n \in 1..IpLast : IpIn(Q, n) \subseteq IpIn(P, n)
    PROVE  IpSpread(Q)
<1> SUFFICES ASSUME NEW n \in 1..IpLast PROVE IpCount(Q, n) <= IpShare BY DEF IpSpread
<1>1. IpIn(Q, n) \in SUBSET IpIn(P, n) /\ IpCount(P, n) <= IpShare BY Zenon DEF IpSpread
<1>2. Cardinality(IpIn(Q, n)) <= Cardinality(IpIn(P, n)) BY <1>1, IpInFinite, FS_Subset, Zenon
<1>3. /\ IpCount(P, n) = Cardinality(IpIn(P, n)) /\ Cardinality(IpIn(P, n)) \in Nat
      /\ IpCount(Q, n) = Cardinality(IpIn(Q, n)) /\ Cardinality(IpIn(Q, n)) \in Nat
    BY IpInFinite, Zenon
<1> QED BY <1>1, <1>2, <1>3, IpLastNat

\* The slots that are filled are among those there are.
LEMMA IpSlotRange ==
    ASSUME ipNow \in 0..IpMaxTime
    PROVE  IpSlot0 \in Nat /\ IpSlot0 >= 1 /\ IpSlot0 + IpSlots - 1 <= IpLast
<1> DEFINE q == ipNow \div IpSlot
           top == IpMaxTime \div IpSlot
<1>1. ipNow \in Nat /\ ipNow <= IpMaxTime /\ IpMaxTime \in Nat BY InboundPathsAssumption
<1>2. q \in Nat /\ q * IpSlot <= ipNow BY <1>1, IpSlotsNat
<1>3. q * IpSlot \in Int BY <1>2, IpSlotsNat
<1>4. q * IpSlot <= IpMaxTime
    <2> HIDE DEF q
    <2> QED BY <1>1, <1>2, <1>3
<1>5. q <= top
    <2> HIDE DEF q
    <2> QED BY <1>1, <1>2, <1>4, IpSlotsNat, IpQuotient
<1>6. top \in Nat BY <1>1, IpSlotsNat
<1>7. IpSlot0 = q + 1 /\ IpLast = top + IpSlots + 1 BY DEF IpSlot0, IpLast
<1> HIDE DEF q, top
<1> QED BY <1>2, <1>5, <1>6, <1>7, IpSlotsNat

\* The expiry of a new path is one, and in its slot.
LEMMA IpExpiry ==
    ASSUME NEW n \in 0..IpLast, NEW z \in 0..IpFuzz
    PROVE  n * IpSlot + z \in 0..((IpLast + 1) * IpSlot) /\ (n * IpSlot + z) \div IpSlot = n
<1>1. n \in Nat /\ z \in Nat /\ z < IpSlot /\ n <= IpLast BY InboundPathsAssumption, IpLastNat
<1>2. (n * IpSlot + z) \div IpSlot = n BY <1>1, IpInSlot
<1>3. n * IpSlot \in Nat /\ n * IpSlot <= IpLast * IpSlot BY <1>1, IpSlotsNat, IpLastNat
<1>4. (IpLast + 1) * IpSlot = IpLast * IpSlot + IpSlot /\ IpLast * IpSlot \in Nat BY IpSlotsNat, IpLastNat
<1> DEFINE u == n * IpSlot
           v == IpLast * IpSlot
           w == (IpLast + 1) * IpSlot
<1>5. u \in Nat /\ u <= v /\ v \in Nat /\ w = v + IpSlot BY <1>3, <1>4
<1> HIDE DEF u, v, w
<1>6. u + z \in 0..w BY <1>1, <1>5, IpSlotsNat
<1> QED BY <1>2, <1>6 DEF u, w

LEMMA IpPathExp == \A r \in IpPath \cup {IpNoPath} : r.exp \in Int
<1>1. (IpLast + 1) * IpSlot \in Int BY IpLastNat, IpSlotsNat
<1>2. \A z \in 0..((IpLast + 1) * IpSlot) : z \in Int BY <1>1
<1>3. \A r \in IpPath : r.exp \in 0..((IpLast + 1) * IpSlot) BY DEF IpPath
<1>4. IpNoPath.exp \in Int BY DEF IpNoPath
<1> QED BY <1>2, <1>3, <1>4, Zenon

\* Dropping what has expired keeps the types and the spread.
LEMMA IpExpiredKeeps ==
    ASSUME IpInv
    PROVE  /\ IpExpired \in [IpObjects -> IpPath \cup {IpNoPath}] /\ IpSpread(IpExpired)
           /\ \A o \in IpObjects : IpExpired[o] = IpNoPath \/ IpExpired[o] = ipPaths[o]
<1>1. ipPaths \in [IpObjects -> IpPath \cup {IpNoPath}] /\ IpSpread(ipPaths)
    BY DEF IpInv, InboundPaths_TypeOK, ExpiriesSpread, IpSpread, IpShare
<1>2. \A o \in IpObjects : IpExpired[o] = IpNoPath \/ IpExpired[o] = ipPaths[o] BY Zenon DEF IpExpired
<1>3. IpExpired \in [IpObjects -> IpPath \cup {IpNoPath}] BY <1>1 DEF IpExpired
<1>4. \A n \in 1..IpLast : IpIn(IpExpired, n) \subseteq IpIn(ipPaths, n)
    <2>1. IpNoPath.st = "none" BY DEF IpNoPath
    <2>2. \A o \in IpLive(IpExpired) : o \in IpObjects /\ IpExpired[o] = ipPaths[o] /\ ipPaths[o].st # "none"
        BY <1>2, <2>1, Zenon DEF IpLive
    <2> QED BY <2>2, Zenon DEF IpIn, IpLive
<1> QED BY <1>1, <1>2, <1>3, <1>4, IpFewer, Zenon

LEMMA IpUnionBound ==
    ASSUME NEW A, IsFiniteSet(A), NEW B, IsFiniteSet(B), NEW C, C \subseteq A \cup B,
           NEW c \in Nat, Cardinality(B) <= c, NEW t \in Int, Cardinality(A) + c <= t
    PROVE  Cardinality(C) <= t
<1>1. IsFiniteSet(A \cup B) /\ Cardinality(A \cup B) = Cardinality(A) + Cardinality(B) - Cardinality(A \cap B)
    BY FS_Union, Zenon
<1>2. Cardinality(C) <= Cardinality(A \cup B) /\ IsFiniteSet(C) BY <1>1, FS_Subset
<1>3. IsFiniteSet(A \cap B) BY FS_Subset
<1>4. /\ Cardinality(A) \in Nat /\ Cardinality(B) \in Nat /\ Cardinality(A \cap B) \in Nat /\ Cardinality(C) \in Nat
    BY <1>2, <1>3, FS_CardinalityType, Zenon
<1> QED BY <1>1, <1>2, <1>4

\* The new paths in a slot are no more than the places chosen in it.
LEMMA IpPlaced ==
    ASSUME NEW N \in SUBSET IpObjects, NEW k \in Nat, Cardinality(N) <= k,
           NEW at \in Bijection(N, 1..Cardinality(N)), NEW slots, NEW n
    PROVE  /\ at \in [N -> 1..k]
           /\ Cardinality(IpOf(N, [o \in N |-> slots[at[o]]], n)) <= Cardinality(IpOf(1..k, slots, n))
<1> DEFINE A == {o \in N : slots[at[o]] = n}
           B == {i \in 1..k : slots[i] = n}
<1>1. Cardinality(N) \in Nat BY IpPartFinite
<1>2. 1..Cardinality(N) \subseteq 1..k BY <1>1
<1>3. at \in [N -> 1..Cardinality(N)] /\ \A x, y \in N : at[x] = at[y] => x = y
    BY DEF Bijection, Injection, IsInjective
<1>4. at \in [N -> 1..k] BY <1>2, <1>3
<1> DEFINE h == [o \in A |-> at[o]]
<1>5. h \in [A -> B] BY <1>4
<1>6. \A x, y \in A : h[x] = h[y] => x = y BY <1>3
<1>7. h \in Injection(A, B)
    <2> HIDE DEF h, A, B
    <2> QED BY <1>5, <1>6 DEF Injection, IsInjective
<1>8. IsFiniteSet(1..k) BY FS_Interval
<1>9. IsFiniteSet(B)
    <2>1. B \in SUBSET (1..k) OBVIOUS
    <2> HIDE DEF B
    <2> QED BY <1>8, <2>1, FS_Subset, Zenon
<1>10. Cardinality(A) <= Cardinality(B)
    <2> HIDE DEF h, A, B
    <2> QED BY <1>7, <1>9, FS_Injection, Zenon
<1>11. IpOf(N, [o \in N |-> slots[at[o]]], n) = A /\ IpOf(1..k, slots, n) = B BY DEF IpOf
<1> QED BY <1>4, <1>10, <1>11, Zenon

\* A tick builds the paths of N for the slots it chose.
IpBuilds(P, k, slots, N, at) ==
    /\ slots \in IpChoose(P, k) /\ N \in SUBSET (IpObjects \ IpLive(P)) /\ Cardinality(N) <= k
    /\ ipFuzz' \in IpFuzzes({slots[i] : i \in 1..k})
    /\ at \in Bijection(N, 1..Cardinality(N))
    /\ ipPaths' = IpStarted(P, slots, N, at, ipFuzz')

LEMMA IpBuilding ==
    ASSUME NEW e \in 0..((IpLast + 1) * IpSlot)
    PROVE  [st |-> "building", exp |-> e] \in IpPath
BY DEF IpPath

LEMMA IpNeededBound ==
    ASSUME NEW P, Cardinality(IpLive(P)) \in Nat, NEW k, k = IpNeeded(P), k > 0
    PROVE  k \in Nat /\ Cardinality(IpLive(P)) + k <= IpTarget
<1> DEFINE most == Cardinality(IpRelay) * IpReuse
           target == IF IpTarget > IpMany /\ IpTarget > most THEN most ELSE IpTarget
           n == Cardinality(IpLive(P))
<1>1. Cardinality(IpRelay) \in Nat BY InboundPathsAssumption, FS_CardinalityType
<1>2. most \in Nat BY <1>1, InboundPathsAssumption
<1>3. k = target - n BY Zenon DEF IpNeeded
<1> HIDE DEF most
<1>4. target \in Nat /\ target <= IpTarget BY <1>2, InboundPathsAssumption
<1> HIDE DEF target, n
<1>5. n \in Nat BY DEF n
<1>6. k \in Nat /\ n + k <= IpTarget BY <1>3, <1>4, <1>5, InboundPathsAssumption
<1> QED BY <1>6 DEF n

\* What update_paths builds keeps the expiries spread.
LEMMA IpUpdateSpreads ==
    ASSUME IpInv, NEW P, P = IpExpired, NEW k, k = IpNeeded(P), k > 0,
           NEW slots, NEW N, NEW at, IpBuilds(P, k, slots, N, at)
    PROVE  /\ ipPaths' \in [IpObjects -> IpPath \cup {IpNoPath}] /\ IpSpread(ipPaths')
           /\ ipFuzz' \in [0..IpLast -> -1..IpFuzz]
<1> DEFINE L == IpLive(P)
           own == IpSlot0..(IpSlot0 + IpSlots - 1)
           f == [o \in L |-> P[o].exp \div IpSlot]
           count == [n \in own |-> IpCount(P, n)]
<1>0. /\ slots \in IpChoose(P, k) /\ N \in SUBSET (IpObjects \ IpLive(P)) /\ Cardinality(N) <= k
      /\ ipFuzz' \in IpFuzzes({slots[i] : i \in 1..k})
      /\ at \in Bijection(N, 1..Cardinality(N))
      /\ ipPaths' = IpStarted(P, slots, N, at, ipFuzz')
    BY Zenon DEF IpBuilds
<1>1. /\ P \in [IpObjects -> IpPath \cup {IpNoPath}] /\ IpSpread(P) BY IpExpiredKeeps, Zenon
<1>2. Cardinality(L) \in Nat /\ IsFiniteSet(L) BY IpInFinite, Zenon
<1>3. k \in Nat /\ Cardinality(L) + k <= IpTarget BY <1>2, IpNeededBound, Zenon
<1>4. /\ IpSlot0 \in Nat /\ IpSlot0 >= 1 /\ IpSlot0 + IpSlots - 1 <= IpLast
    BY IpSlotRange DEF IpInv, InboundPaths_TypeOK
<1>5. slots \in IpFill(count, k) /\ DOMAIN count = own BY <1>0, Zenon DEF IpChoose
<1>6. slots \in [1..k -> own]
    <2> HIDE DEF count, own
    <2> QED BY <1>5, Zenon DEF IpFill
<1>7. own \subseteq 1..IpLast BY <1>4, IpSlotsNat, IpLastNat
<1>8. /\ ipFuzz' \in [0..IpLast -> -1..IpFuzz]
      /\ \A i \in 1..k : ipFuzz'[slots[i]] \in 0..IpFuzz
    <2> DEFINE new == {n \in {slots[i] : i \in 1..k} : ipFuzz[n] = -1}
    <2>1. PICK d \in [new -> 0..IpFuzz] :
              ipFuzz' = [n \in 0..IpLast |-> IF n < IpSlot0 THEN -1 ELSE IF n \in new THEN d[n] ELSE ipFuzz[n]]
        BY <1>0, Zenon DEF IpFuzzes
    <2>2. ipFuzz \in [0..IpLast -> -1..IpFuzz] BY SMTT(30) DEF IpInv, InboundPaths_TypeOK
    <2>3. \A i \in 1..k : slots[i] \in 0..IpLast /\ ~(slots[i] < IpSlot0) /\ (slots[i] \in new <=> ipFuzz[slots[i]] = -1)
        <3>1. \A i \in 1..k : slots[i] \in own BY <1>6, Zenon
        <3>2. \A n \in own : n \in 0..IpLast /\ ~(n < IpSlot0) BY <1>4, <1>7
        <3> HIDE DEF own
        <3> QED BY <3>1, <3>2
    <2> HIDE DEF new, own
    <2>4. ipFuzz' \in [0..IpLast -> -1..IpFuzz]
        <3>1. \A n \in new : d[n] \in -1..IpFuzz BY InboundPathsAssumption
        <3>2. -1 \in -1..IpFuzz BY InboundPathsAssumption
        <3> QED BY <2>1, <2>2, <3>1, <3>2
    <2>5. ASSUME NEW i \in 1..k PROVE ipFuzz'[slots[i]] \in 0..IpFuzz
        <3>1. ipFuzz'[slots[i]] = IF slots[i] \in new THEN d[slots[i]] ELSE ipFuzz[slots[i]]
            BY <2>1, <2>3, Zenon
        <3>2. CASE slots[i] \in new BY <3>1, <3>2, Zenon
        <3>3. CASE slots[i] \notin new
            <4>1. ipFuzz[slots[i]] \in -1..IpFuzz /\ ipFuzz[slots[i]] # -1 BY <2>2, <2>3, <3>3, Zenon
            <4>2. \A z \in -1..IpFuzz : z # -1 => z \in 0..IpFuzz BY InboundPathsAssumption
            <4> QED BY <3>1, <3>3, <4>1, <4>2, Zenon
        <3> QED BY <3>2, <3>3, Zenon
    <2> QED BY <2>4, <2>5, Zenon
<1>9. at \in [N -> 1..k] /\ N \subseteq IpObjects BY <1>0, <1>3, IpPlaced, Zenon
<1>10. ASSUME NEW o \in N
       PROVE  /\ o \in IpObjects /\ o \notin L /\ ipPaths'[o].st = "building"
              /\ ipPaths'[o].exp \div IpSlot = slots[at[o]] /\ ipPaths'[o] \in IpPath
    <2> DEFINE n == slots[at[o]]
               z == ipFuzz'[n]
    <2>1. at[o] \in 1..k BY <1>9
    <2>2. n \in own /\ z \in 0..IpFuzz BY <1>6, <1>8, <2>1, Zenon
    <2>3. n \in 0..IpLast
        <3> HIDE DEF n, own
        <3> QED BY <1>7, <2>2, IpLastNat
    <2>4. ipPaths'[o] = [st |-> "building", exp |-> n * IpSlot + z] BY <1>0, <1>9, Zenon DEF IpStarted
    <2>5. o \notin L BY <1>0, Zenon
    <2> HIDE DEF n, z, own
    <2>6. n * IpSlot + z \in 0..((IpLast + 1) * IpSlot) /\ (n * IpSlot + z) \div IpSlot = n
        BY <2>2, <2>3, IpExpiry, ZenonT(30)
    <2>7. ipPaths'[o].st = "building" /\ ipPaths'[o].exp = n * IpSlot + z BY <2>4
    <2>8. ipPaths'[o] \in IpPath BY <2>4, <2>6, IpBuilding, Zenon
    <2> QED BY <1>9, <2>5, <2>6, <2>7, <2>8, Zenon DEF n
<1>11. \A o \in IpObjects : o \notin N => ipPaths'[o] = P[o] BY <1>0, Zenon DEF IpStarted
<1>12. ipPaths' \in [IpObjects -> IpPath \cup {IpNoPath}]
    <2>1. \A o \in IpObjects : ipPaths'[o] \in IpPath \cup {IpNoPath} BY <1>1, <1>10, <1>11, Zenon
    <2>2. ipPaths' = [o \in IpObjects |-> ipPaths'[o]] BY <1>0, Zenon DEF IpStarted
    <2> QED BY <2>1, <2>2, Zenon
<1>13. ASSUME NEW n \in 1..IpLast PROVE IpCount(ipPaths', n) <= IpShare
    <2> DEFINE place == [o \in N |-> slots[at[o]]]
               New == {o \in N : slots[at[o]] = n}
               Put == IpOf(1..k, slots, n)
    <2>1. IpIn(ipPaths', n) \subseteq IpIn(P, n) \cup New
        BY <1>10, <1>11, Zenon DEF IpIn, IpLive
    <2>2. CASE New = {}
        <3>1. IpIn(ipPaths', n) \in SUBSET IpIn(P, n) BY <2>1, <2>2, Zenon
        <3>2. Cardinality(IpIn(ipPaths', n)) <= Cardinality(IpIn(P, n)) BY <3>1, IpInFinite, FS_Subset, Zenon
        <3>3. IpCount(P, n) <= IpShare BY <1>1, Zenon DEF IpSpread
        <3>4. /\ IpCount(P, n) = Cardinality(IpIn(P, n)) /\ Cardinality(IpIn(P, n)) \in Nat
              /\ IpCount(ipPaths', n) = Cardinality(IpIn(ipPaths', n)) /\ Cardinality(IpIn(ipPaths', n)) \in Nat
            BY IpInFinite, Zenon
        <3> HIDE DEF own, f, count, L, New, Put
        <3>5. \A x, y, z \in Int : x <= y /\ y <= z => x <= z OBVIOUS
        <3>6. Nat \subseteq Int OBVIOUS
        <3> QED BY <3>2, <3>3, <3>4, <3>5, <3>6, IpLastNat, Zenon
    <2>3. CASE New # {}
        <3>1. PICK o \in N : slots[at[o]] = n BY <2>3, Zenon
        <3>2. at[o] \in 1..k BY <1>9
        <3>3. f \in [L -> Int]
            <4>1. \A q \in IpObjects : P[q].exp \in Int
                <5>1. \A r \in IpPath \cup {IpNoPath} : r.exp \in Int BY IpPathExp, Zenon
                <5> QED BY <1>1, <5>1, Zenon
            <4>2. \A q \in L : P[q].exp \div IpSlot \in Int BY <4>1, IpSlotsNat DEF IpLive
            <4> HIDE DEF L
            <4> QED BY <4>2
        <3>4. \A x : {q \in L : f[q] = x} = IpIn(P, x) BY DEF IpIn
        <3>5. IpCounts(count, L, f, IpSlot0)
            <4> HIDE DEF L, f
            <4>1. ASSUME NEW x PROVE IpCount(P, x) = Cardinality({q \in L : f[q] = x})
                <5>1. IpCount(P, x) = Cardinality(IpIn(P, x)) BY IpInFinite, Zenon
                <5>2. {q \in L : f[q] = x} = IpIn(P, x) BY <3>4
                <5> QED BY <5>1, <5>2
            <4> QED BY <4>1, Zenon DEF IpCounts
        <3>6. IpTarget \in Nat /\ IpSlot0 \in Int /\ n \in Int BY <1>4, InboundPathsAssumption, IpLastNat
        <3>7. Cardinality(IpIn(P, n)) + Cardinality(Put) <= IpShare
            <4>1. Cardinality(IpOf(L, f, n)) + Cardinality(IpOf(1..k, slots, n))
                    <= (IpTarget + IpSlots - 1) \div IpSlots
                <5> HIDE DEF L, f, count, own, New, Put
                <5> QED BY <1>2, <1>3, <1>5, <3>1, <3>2, <3>3, <3>5, <3>6, IpFilled, ZenonT(30)
            <4>2. IpOf(L, f, n) = IpIn(P, n) BY <3>4 DEF IpOf
            <4> QED BY <4>1, <4>2, Zenon DEF IpShare
        <3>8. Cardinality(New) <= Cardinality(Put)
            <4>1. N \in SUBSET IpObjects BY <1>9, Zenon
            <4>2. IpOf(N, place, n) = New BY DEF IpOf
            <4> HIDE DEF New
            <4>3. Cardinality(IpOf(N, [p \in N |-> slots[at[p]]], n)) <= Cardinality(IpOf(1..k, slots, n))
                BY <1>0, <1>3, <4>1, IpPlaced, ZenonT(30)
            <4> QED BY <4>2, <4>3, Zenon
        <3>9. /\ Cardinality(IpIn(P, n)) \in Nat /\ IsFiniteSet(IpIn(P, n))
              /\ IpCount(ipPaths', n) = Cardinality(IpIn(ipPaths', n)) /\ Cardinality(IpIn(ipPaths', n)) \in Nat
            BY IpInFinite, Zenon
        <3>10. IsFiniteSet(New) /\ Cardinality(New) \in Nat
            <4>1. New \in SUBSET IpObjects BY <1>9, Zenon
            <4> HIDE DEF New
            <4> QED BY <4>1, IpPartFinite, Zenon
        <3>11. Cardinality(Put) \in Nat
            <4>1. Put \in SUBSET (1..k) BY DEF IpOf
            <4>2. IsFiniteSet(1..k) BY <1>3, FS_Interval
            <4> HIDE DEF Put
            <4> QED BY <4>1, <4>2, FS_Subset, FS_CardinalityType, Zenon
        <3>12. Cardinality(IpIn(ipPaths', n)) <= IpShare
            <4> HIDE DEF New, Put, L, own, f, count
            <4> QED BY <2>1, <3>7, <3>8, <3>9, <3>10, <3>11, IpLastNat, IpUnionBound, Zenon
        <3> QED BY <3>9, <3>12, Zenon
    <2> QED BY <2>2, <2>3, Zenon
<1> QED BY <1>8, <1>12, <1>13, Zenon DEF IpSpread

LEMMA IpUpdateStep == ASSUME IpInv, IpUpdate PROVE IpInv'
<1>1. ipNow \in 0..IpMaxTime /\ ipFuzz \in [0..IpLast -> -1..IpFuzz] /\ ipFailed \in BOOLEAN
    BY DEF IpInv, InboundPaths_TypeOK
<1>2. ipNow' = ipNow /\ ipFailed' = ipFailed BY Zenon DEF IpUpdate
<1>3. /\ ipPaths' \in [IpObjects -> IpPath \cup {IpNoPath}] /\ IpSpread(ipPaths')
      /\ ipFuzz' \in [0..IpLast -> -1..IpFuzz]
    <2>1. CASE ipPaths' = IpExpired /\ ipFuzz' = ipFuzz BY <1>1, <2>1, IpExpiredKeeps, Zenon
    <2>2. CASE ~(ipPaths' = IpExpired /\ ipFuzz' = ipFuzz)
        <3> DEFINE P == IpExpired
                   k == IpNeeded(P)
        <3>1. k > 0 /\ \E slots, N, at : IpBuilds(P, k, slots, N, at)
            <4>1. /\ k > 0
                  /\ \E slots \in IpChoose(P, k), N \in SUBSET (IpObjects \ IpLive(P)) :
                        /\ Cardinality(N) <= k
                        /\ ipFuzz' \in IpFuzzes({slots[i] : i \in 1..k})
                        /\ \E at \in Bijection(N, 1..Cardinality(N)) : ipPaths' = IpStarted(P, slots, N, at, ipFuzz')
                BY <2>2, Zenon DEF IpUpdate
            <4> HIDE DEF P, k
            <4> QED BY <4>1, Zenon DEF IpBuilds
        <3> HIDE DEF P, k
        <3>2. P = IpExpired /\ k = IpNeeded(P) BY DEF P, k
        <3> QED BY <3>1, <3>2, IpUpdateSpreads, Zenon
    <2> QED BY <2>1, <2>2, Zenon
<1> QED BY <1>1, <1>2, <1>3, Zenon DEF IpInv, InboundPaths_TypeOK, ExpiriesSpread, IpSpread, IpShare, IpCount, IpLive

\* A build that ends and a path that dies leave no slot with more paths.
LEMMA IpPathStep ==
    ASSUME IpInv, NEW o \in IpObjects, IpBuilt(o) \/ IpFails(o) \/ IpDies(o)
    PROVE  IpInv'
<1>1. /\ ipNow \in 0..IpMaxTime /\ ipFuzz \in [0..IpLast -> -1..IpFuzz] /\ ipFailed \in BOOLEAN
      /\ ipPaths \in [IpObjects -> IpPath \cup {IpNoPath}] /\ IpSpread(ipPaths)
    BY DEF IpInv, InboundPaths_TypeOK, ExpiriesSpread, IpSpread, IpShare
<1>2. ipNow' = ipNow /\ ipFuzz' = ipFuzz /\ ipFailed' \in BOOLEAN
    BY <1>1, Zenon DEF IpBuilt, IpFails, IpDies
<1>3. ipPaths[o].st # "none" BY DEF IpBuilt, IpFails, IpDies
<1>4. ipPaths[o] \in IpPath BY <1>1, <1>3 DEF IpNoPath
<1>5. \E r \in IpPath \cup {IpNoPath} :
         /\ ipPaths' = [ipPaths EXCEPT ![o] = r]
         /\ r = IpNoPath \/ r.exp = ipPaths[o].exp \/ r.exp = 0
    <2>1. CASE IpBuilt(o)
        <3> DEFINE r == [ipPaths[o] EXCEPT !.st = "active"]
        <3>1. r \in IpPath /\ r.exp = ipPaths[o].exp BY <1>4 DEF IpPath
        <3>2. ipPaths' = [ipPaths EXCEPT ![o] = r] BY <2>1, Zenon DEF IpBuilt
        <3> QED BY <3>1, <3>2, Zenon
    <2>2. CASE IpFails(o) BY <2>2, Zenon DEF IpFails
    <2>3. CASE IpDies(o)
        <3> DEFINE r == [ipPaths[o] EXCEPT !.exp = 0]
        <3>1. 0 \in 0..((IpLast + 1) * IpSlot) BY IpLastNat, IpSlotsNat
        <3>2. r \in IpPath /\ r.exp = 0 BY <1>4, <3>1 DEF IpPath
        <3>3. ipPaths' = [ipPaths EXCEPT ![o] = r] BY <2>3, Zenon DEF IpDies
        <3> QED BY <3>2, <3>3, Zenon
    <2> QED BY <2>1, <2>2, <2>3, Zenon
<1>6. PICK r \in IpPath \cup {IpNoPath} :
         /\ ipPaths' = [ipPaths EXCEPT ![o] = r]
         /\ r = IpNoPath \/ r.exp = ipPaths[o].exp \/ r.exp = 0
    BY <1>5, Zenon
<1>7. ipPaths' \in [IpObjects -> IpPath \cup {IpNoPath}] BY <1>1, <1>6, Zenon
<1>8. ipPaths'[o] = r /\ \A q \in IpObjects : q # o => ipPaths'[q] = ipPaths[q] BY <1>1, <1>6, Zenon
<1>9. \A n \in 1..IpLast : IpIn(ipPaths', n) \subseteq IpIn(ipPaths, n)
    <2> SUFFICES ASSUME NEW n \in 1..IpLast, NEW q \in IpIn(ipPaths', n) PROVE q \in IpIn(ipPaths, n)
        OBVIOUS
    <2>1. q \in IpObjects /\ ipPaths'[q].st # "none" /\ ipPaths'[q].exp \div IpSlot = n
        BY Zenon DEF IpIn, IpLive
    <2>2. CASE q # o BY <1>8, <2>1, <2>2, Zenon DEF IpIn, IpLive
    <2>3. CASE q = o
        <3>1. r # IpNoPath BY <1>8, <2>1, <2>3 DEF IpNoPath
        <3>2. 0 \div IpSlot = 0 BY IpSlotsNat
        <3>3. n # 0 BY IpLastNat
        <3>4. r.exp = ipPaths[o].exp BY <1>6, <1>8, <2>1, <2>3, <3>1, <3>2, <3>3, Zenon
        <3> QED BY <1>3, <1>8, <2>1, <2>3, <3>4, ZenonT(30) DEF IpIn, IpLive
    <2> QED BY <2>2, <2>3, Zenon
<1>10. IpSpread(ipPaths') BY <1>1, <1>9, IpFewer, Zenon
<1> QED BY <1>1, <1>2, <1>7, <1>10, Zenon
        DEF IpInv, InboundPaths_TypeOK, ExpiriesSpread, IpSpread, IpShare, IpCount, IpLive

\* For any relays, targets, slots and times: whatever paths fail, die or are rebuilt at
\* once, update_paths leaves no slot with more than its share of the target.
THEOREM InboundSpread == IpSpec => [](InboundPaths_TypeOK /\ ExpiriesSpread)
<1>1. IpInit => IpInv
    <2> SUFFICES ASSUME IpInit PROVE IpInv OBVIOUS
    <2>1. InboundPaths_TypeOK
        <3>1. -1 \in -1..IpFuzz /\ 0 \in 0..IpMaxTime BY InboundPathsAssumption
        <3> QED BY ZenonT(30), <3>1 DEF IpInit, InboundPaths_TypeOK
    <2>2. \A n \in 1..IpLast : IpIn(ipPaths, n) = {} BY DEF IpInit, IpIn, IpLive, IpNoPath
    <2>3. Cardinality({}) = 0 BY FS_EmptySet
    <2>4. 0 <= (IpTarget + IpSlots - 1) \div IpSlots
        <3>1. IpTarget + IpSlots - 1 \in Nat /\ 0 * IpSlots <= IpTarget + IpSlots - 1
            BY IpSlotsNat, InboundPathsAssumption
        <3> QED BY <3>1, IpSlotsNat, IpQuotient
    <2>5. \A n \in 1..IpLast : IpCount(ipPaths, n) = 0 BY <2>2, <2>3, IpInFinite, Zenon
    <2>6. ExpiriesSpread BY <2>4, <2>5, Zenon DEF ExpiriesSpread
    <2> QED BY <2>1, <2>6 DEF IpInv
<1>2. IpInv /\ [IpNext]_ipvars => IpInv'
    <2> SUFFICES ASSUME IpInv, [IpNext]_ipvars PROVE IpInv' OBVIOUS
    <2>1. CASE IpUpdate BY <2>1, IpUpdateStep
    <2>2. CASE IpTime \/ UNCHANGED ipvars
        <3>1. ipNow' \in 0..IpMaxTime
            BY <2>2, InboundPathsAssumption DEF IpInv, InboundPaths_TypeOK, IpTime, ipvars
        <3>2. ipPaths' = ipPaths /\ ipFuzz' = ipFuzz /\ ipFailed' = ipFailed BY <2>2, Zenon DEF IpTime, ipvars
        <3> QED BY <3>1, <3>2, Zenon DEF IpInv, InboundPaths_TypeOK, ExpiriesSpread, IpCount, IpLive
    <2>3. CASE \E o \in IpObjects : IpBuilt(o) \/ IpFails(o) \/ IpDies(o) BY <2>3, IpPathStep, Zenon
    <2> QED BY <2>1, <2>2, <2>3, Zenon DEF IpNext
<1>3. IpInv => InboundPaths_TypeOK /\ ExpiriesSpread BY DEF IpInv
<1> QED BY <1>1, <1>2, <1>3, PTL DEF IpSpec
=============================================================================
