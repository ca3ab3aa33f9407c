-------------------------- MODULE RelayLinksProofs --------------------------
(***************************************************************************)
(* Proofs about RelayLinks, for any number of relays and connections.      *)
(***************************************************************************)
EXTENDS RelayLinks, TLAPS

\* One entry of relay_conns as set_conn and close leave it.
Right(e, r, p) ==
    e.conn = IF e.inbound # None /\ (e.outbound = None \/ inbound_wins(r, p)) THEN e.inbound ELSE e.outbound

Both(e) == e.inbound # None /\ e.outbound # None

TablesOK ==
    /\ relay_conns \in [Relay -> [Relay -> Entry]]
    /\ pending_outbound \in [Relay -> [Relay -> Conn \cup {None}]]
    /\ relay_bidir \in [Relay -> SUBSET Relay]
    /\ unreachable_since \in [Relay -> SUBSET Relay]
    /\ pending_dead \in [Relay -> SUBSET Relay]

Inv == RelayLinks_TypeOK /\ PreferredAndScheduled /\ UnreachableIsUnconnected

\* Of two relays exactly one prefers what it did not open, so both prefer the same one.
LEMMA WinnerAgreed ==
    ASSUME PreferredAndScheduled
    PROVE  SameWinner
<1> SUFFICES ASSUME NEW r \in Relay, NEW p \in Relay,
                    Both(relay_conns[r][p]),
                    relay_conns[r][p].inbound = relay_conns[p][r].outbound,
                    relay_conns[r][p].outbound = relay_conns[p][r].inbound
             PROVE  relay_conns[r][p].conn = relay_conns[p][r].conn
  BY DEF SameWinner, Both
<1>1. /\ relay_conns[r][p].conn = IF inbound_wins(r, p) THEN relay_conns[r][p].inbound ELSE relay_conns[r][p].outbound
      /\ relay_conns[p][r].conn = IF inbound_wins(p, r) THEN relay_conns[p][r].inbound ELSE relay_conns[p][r].outbound
  BY DEF PreferredAndScheduled, Both
<1>2. CASE r = p
  BY <1>2
<1>3. CASE r # p
  <2>1. inbound_wins(r, p) <=> ~inbound_wins(p, r)
    BY <1>3, RelayLinksAssumption DEF inbound_wins
  <2> QED BY <1>1, <2>1
<1> QED BY <1>2, <1>3

\* set_conn keeps an entry right.
LEMMA set_connRight ==
    ASSUME NEW r \in Relay, NEW p \in Relay, NEW e \in Entry, Right(e, r, p),
           NEW c \in Conn, NEW in \in BOOLEAN
    PROVE  /\ set_conn(e, r, p, c, in) \in Entry
           /\ Right(set_conn(e, r, p, c, in), r, p)
           /\ ~Both(set_conn(e, r, p, c, in)) => ~Both(e)
<1> DEFINE new == set_conn(e, r, p, c, in)
<1>1. c # None /\ inbound_wins(r, p) \in BOOLEAN
  BY RelayLinksAssumption DEF inbound_wins
<1>2. CASE in = TRUE
  <2>1. new = [inbound |-> c, outbound |-> e.outbound,
               conn |-> IF e.outbound = None \/ inbound_wins(r, p) THEN c ELSE e.conn]
    BY <1>2 DEF set_conn
  <2> QED BY <1>1, <2>1 DEF Entry, Right, Both
<1>3. CASE in = FALSE
  <2>1. new = [inbound |-> e.inbound, outbound |-> c,
               conn |-> IF e.inbound = None \/ ~inbound_wins(r, p) THEN c ELSE e.conn]
    BY <1>3 DEF set_conn
  <2> QED BY <1>1, <2>1 DEF Entry, Right, Both
<1> QED BY <1>2, <1>3, Zenon

\* close leaves at most one direction, and prefers it.
LEMMA closeRight ==
    ASSUME NEW r \in Relay, NEW p \in Relay, NEW e \in Entry, NEW in \in BOOLEAN
    PROVE  /\ close(e, in) \in Entry
           /\ Right(close(e, in), r, p)
           /\ ~Both(close(e, in))
           /\ close(e, in).conn = None => close(e, in) = NoEntry
<1> DEFINE new == close(e, in)
<1>1. CASE in = TRUE
  <2>1. new = [inbound |-> None, outbound |-> e.outbound, conn |-> e.outbound]
    BY <1>1 DEF close
  <2> QED BY <2>1 DEF Entry, Right, Both, NoEntry
<1>2. CASE in = FALSE
  <2>1. new = [inbound |-> e.inbound, outbound |-> None, conn |-> e.inbound]
    BY <1>2 DEF close
  <2> QED BY <2>1 DEF Entry, Right, Both, NoEntry
<1> QED BY <1>1, <1>2, Zenon

-----------------------------------------------------------------------------
\* What the invariants say of one relay and one of its peers.
PairOK(r, p) ==
    /\ p \in relay_bidir[r] <=> Both(relay_conns[r][p])
    /\ Right(relay_conns[r][p], r, p)
    /\ p \in unreachable_since[r] => relay_conns[r][p] = NoEntry

\* The invariants are about the pairs of relays one at a time.
LEMMA PairsOK ==
    /\ PreferredAndScheduled /\ UnreachableIsUnconnected <=> \A r, p \in Relay : PairOK(r, p)
    /\ (PreferredAndScheduled /\ UnreachableIsUnconnected)' <=> \A r, p \in Relay : PairOK(r, p)'
<1>1. PreferredAndScheduled /\ UnreachableIsUnconnected <=> \A r, p \in Relay : PairOK(r, p)
  BY DEF PreferredAndScheduled, UnreachableIsUnconnected, PairOK, Right, Both
<1>2. (PreferredAndScheduled /\ UnreachableIsUnconnected)' <=> \A r, p \in Relay : PairOK(r, p)'
  BY DEF PreferredAndScheduled, UnreachableIsUnconnected, PairOK, Right, Both, inbound_wins
<1> QED BY <1>1, <1>2

LinkOK == link \in [Conn -> Link \cup {NoLink}]

\* Being told to close keeps a connection's ends well-formed.
LEMMA CloseAllType ==
    ASSUME LinkOK, NEW r \in Relay, NEW C, CloseAll(C, r)
    PROVE  LinkOK'
<1>1. ASSUME NEW c \in Conn PROVE Closing(c, r) \in Link \cup {NoLink}
  <2>1. CASE link[c] = NoLink
    <3>1. NoLink.from # r /\ NoLink.far = "none"
      BY RelayLinksAssumption DEF NoLink
    <3>2. Closing(c, r) = [NoLink EXCEPT !.far = "none"]
      BY <2>1, <3>1 DEF Closing
    <3> QED BY <3>2 DEF NoLink
  <2>2. CASE link[c] \in Link
    BY <2>2 DEF Closing, Link
  <2> QED BY <2>1, <2>2 DEF LinkOK
<1> QED BY <1>1 DEF CloseAll, LinkOK

\* A connection settles into NoLink or stays one between two relays.
LEMMA SettledType ==
    ASSUME NEW l \in Link
    PROVE  Settled(l) \in Link \cup {NoLink}
BY DEF Settled

\* A step that leaves the tables alone keeps what is said of them.
LEMMA Kept ==
    ASSUME Inv, UNCHANGED tables, LinkOK', jobs' \in [Relay -> Seq(Job)]
    PROVE  Inv'
<1>1. RelayLinks_TypeOK'
  BY DEF Inv, RelayLinks_TypeOK, tables, LinkOK
<1>2. PreferredAndScheduled' /\ UnreachableIsUnconnected'
  BY DEF Inv, PreferredAndScheduled, UnreachableIsUnconnected, tables, inbound_wins
<1> QED BY <1>1, <1>2 DEF Inv

\* A step of the network loop keeps the types, and is all it does.
LEMMA NetworkStep ==
    ASSUME Inv, NEW c \in Conn, Network(c)
    PROVE  Inv'
<1>1. LinkOK /\ jobs \in [Relay -> Seq(Job)] /\ (link[c] = NoLink \/ link[c] \in Link)
  BY DEF Inv, RelayLinks_TypeOK, LinkOK
<1>2. ASSUME NEW w \in {"open", "closed", "failed"}, NEW in \in BOOLEAN, Tell(c, w, in), link[c] \in Link
      PROVE  jobs' \in [Relay -> Seq(Job)]
  <2>1. link[c].from \in Relay /\ link[c].to \in Relay
    BY <1>2 DEF Link
  <2> DEFINE r == IF in THEN link[c].to ELSE link[c].from
             p == IF in THEN link[c].from ELSE link[c].to
             j == [what |-> w, conn |-> c, peer |-> p, is_inbound |-> in]
  <2>2. r \in Relay /\ p \in Relay
    BY <2>1
  <2>3. j \in Job
    BY <2>2 DEF Job
  <2>4. jobs' = [jobs EXCEPT ![r] = Append(@, j)]
    BY <1>2 DEF Tell
  <2> HIDE DEF r, p, j
  <2>5. Append(jobs[r], j) \in Seq(Job)
    BY <1>1, <2>2, <2>3
  <2> QED BY <1>1, <2>2, <2>4, <2>5
<1>3. ASSUME NEW l \in Link, Ends(c, l)
      PROVE  LinkOK' /\ UNCHANGED tables
  BY <1>1, <1>3, SettledType DEF Ends, LinkOK
<1>4. CASE near_established(c)
  <2>1. link[c] \in Link
    BY <1>1, <1>4 DEF near_established, NoLink
  <2>2. [link[c] EXCEPT !.near = "up"] \in Link
    BY <2>1 DEF Link
  <2> QED BY <1>2, <1>3, <1>4, <2>1, <2>2, Kept, Zenon DEF near_established
<1>5. CASE far_established(c)
  <2>1. link[c] \in Link
    BY <1>1, <1>5 DEF far_established, NoLink
  <2>2. [link[c] EXCEPT !.far = "up"] \in Link
    BY <2>1 DEF Link
  <2> QED BY <1>2, <1>3, <1>5, <2>1, <2>2, Kept, Zenon DEF far_established
<1>6. CASE far_rejected(c)
  <2>1. link[c] \in Link
    BY <1>1, <1>6 DEF far_rejected, NoLink
  <2>2. [link[c] EXCEPT !.far = "down"] \in Link
    BY <2>1 DEF Link
  <2> QED BY <1>1, <1>3, <1>6, <2>1, <2>2, Kept DEF far_rejected
<1>7. CASE near_closed(c)
  <2>1. link[c] \in Link
    BY <1>1, <1>7 DEF near_closed, NoLink
  <2>2. [link[c] EXCEPT !.near = "down"] \in Link
    BY <2>1 DEF Link
  <2>3. CASE link[c].near \in {"up", "closing"}
    BY <1>2, <1>3, <1>7, <2>1, <2>2, <2>3, Kept, Zenon DEF near_closed
  <2>4. CASE link[c].near \notin {"up", "closing"}
    BY <1>2, <1>3, <1>7, <2>1, <2>2, <2>4, Kept, Zenon DEF near_closed
  <2> QED BY <2>3, <2>4
<1>8. CASE far_closed(c)
  <2>1. link[c] \in Link
    BY <1>1, <1>8 DEF far_closed, NoLink
  <2>2. [link[c] EXCEPT !.far = "down"] \in Link
    BY <2>1 DEF Link
  <2> QED BY <1>2, <1>3, <1>8, <2>1, <2>2, Kept, Zenon DEF far_closed
<1> QED BY <1>4, <1>5, <1>6, <1>7, <1>8 DEF Network

-----------------------------------------------------------------------------
\* A pair of relays stays right when its part of the tables does not change, or less
\* is held against the peer.
LEMMA Frame ==
    ASSUME Inv,
           \A q, s \in Relay :
               \/ PairOK(q, s)'
               \/ /\ relay_conns'[q][s] = relay_conns[q][s]
                  /\ s \in relay_bidir'[q] <=> s \in relay_bidir[q]
                  /\ s \in unreachable_since'[q] => s \in unreachable_since[q]
    PROVE  PreferredAndScheduled' /\ UnreachableIsUnconnected'
<1>1. \A q, s \in Relay : PairOK(q, s)
  BY PairsOK DEF Inv
<1>2. \A q, s \in Relay : PairOK(q, s)'
  BY <1>1 DEF PairOK, Right, Both, inbound_wins
<1> QED BY <1>2, PairsOK

\* The job that the router loop takes is well-formed, and so are those that are left.
LEMMA TakeType ==
    ASSUME Inv, NEW r \in Relay, NEW w, Take(r, w)
    PROVE  /\ jobs' \in [Relay -> Seq(Job)]
           /\ Head(jobs[r]).conn \in Conn /\ Head(jobs[r]).peer \in Relay /\ Head(jobs[r]).is_inbound \in BOOLEAN
<1>1. jobs \in [Relay -> Seq(Job)] /\ jobs[r] \in Seq(Job) /\ jobs[r] # <<>>
  BY DEF Inv, RelayLinks_TypeOK, Take
<1>2. Head(jobs[r]) \in Job /\ Tail(jobs[r]) \in Seq(Job)
  BY <1>1
<1>3. jobs' \in [Relay -> Seq(Job)]
  BY <1>1, <1>2 DEF Take
<1> QED BY <1>2, <1>3 DEF Job

\* A new connection, in either direction.
LEMMA ConnectedStep ==
    ASSUME Inv, NEW r \in Relay, NEW p \in Relay, NEW c \in Conn, NEW in \in BOOLEAN,
           Connected(r, p, set_conn(relay_conns[r][p], r, p, c, in))
    PROVE  /\ relay_conns' \in [Relay -> [Relay -> Entry]]
           /\ relay_bidir' \in [Relay -> SUBSET Relay]
           /\ unreachable_since' \in [Relay -> SUBSET Relay]
           /\ PreferredAndScheduled' /\ UnreachableIsUnconnected'
<1> DEFINE e == relay_conns[r][p]
           new == set_conn(e, r, p, c, in)
<1>1. /\ relay_conns \in [Relay -> [Relay -> Entry]] /\ e \in Entry
      /\ relay_bidir \in [Relay -> SUBSET Relay] /\ unreachable_since \in [Relay -> SUBSET Relay]
  BY DEF Inv, RelayLinks_TypeOK
<1>2. PairOK(r, p)
  BY PairsOK DEF Inv
<1>3. new \in Entry /\ Right(new, r, p) /\ (~Both(new) => ~Both(e))
  BY <1>1, <1>2, set_connRight DEF PairOK
<1>4. /\ relay_conns' = [relay_conns EXCEPT ![r][p] = new]
      /\ relay_bidir' = IF Both(new) THEN [relay_bidir EXCEPT ![r] = @ \cup {p}] ELSE relay_bidir
      /\ unreachable_since' = [unreachable_since EXCEPT ![r] = @ \ {p}]
  BY DEF Connected, Both
<1> HIDE DEF new
<1>5. relay_conns'[r][p] = new /\ p \notin unreachable_since'[r]
  BY <1>1, <1>4
<1>6. p \in relay_bidir'[r] <=> Both(new)
  BY <1>1, <1>2, <1>3, <1>4 DEF PairOK
<1>7. PairOK(r, p)'
  BY <1>3, <1>5, <1>6 DEF PairOK, Right, Both, inbound_wins
<1>8. ASSUME NEW q \in Relay, NEW s \in Relay, q # r \/ s # p
      PROVE  /\ relay_conns'[q][s] = relay_conns[q][s]
             /\ s \in relay_bidir'[q] <=> s \in relay_bidir[q]
             /\ s \in unreachable_since'[q] => s \in unreachable_since[q]
  BY <1>1, <1>4, <1>8
<1>9. PreferredAndScheduled' /\ UnreachableIsUnconnected'
  BY <1>7, <1>8, Frame
<1>10. relay_conns' \in [Relay -> [Relay -> Entry]]
  BY <1>1, <1>3, <1>4
<1>11. relay_bidir' \in [Relay -> SUBSET Relay] /\ unreachable_since' \in [Relay -> SUBSET Relay]
  BY <1>1, <1>4
<1> QED BY <1>9, <1>10, <1>11

\* on_inbound_conn and on_outbound_conn put a connection into the entry.
LEMMA OpenStep ==
    ASSUME Inv, NEW r \in Relay, on_inbound_conn(r) \/ on_outbound_conn(r)
    PROVE  Inv'
<1> DEFINE p == Head(jobs[r]).peer
           c == Head(jobs[r]).conn
           pit == pending_outbound[r][p]
<1>0. LinkOK /\ pending_outbound \in [Relay -> [Relay -> Conn \cup {None}]] /\ pending_dead \in [Relay -> SUBSET Relay]
  BY DEF Inv, RelayLinks_TypeOK, LinkOK
<1>1. jobs' \in [Relay -> Seq(Job)] /\ c \in Conn /\ p \in Relay
  BY TakeType, Zenon DEF on_inbound_conn, on_outbound_conn
<1>2. CASE on_inbound_conn(r)
  <2>1. LinkOK'
    BY <1>0, <1>2, CloseAllType DEF on_inbound_conn
  <2>2. Connected(r, p, set_conn(relay_conns[r][p], r, p, c, TRUE))
    BY <1>2, ZenonT(40) DEF on_inbound_conn
  <2>3. UNCHANGED <<pending_outbound, pending_dead>>
    BY <1>2 DEF on_inbound_conn
  <2> HIDE DEF p, c
  <2> QED BY <1>0, <1>1, <2>1, <2>2, <2>3, ConnectedStep, ZenonT(40) DEF Inv, RelayLinks_TypeOK, LinkOK
<1>3. CASE on_outbound_conn(r) /\ pit = None
  <2>1. UNCHANGED tables /\ link' = link
    BY <1>3 DEF on_outbound_conn, tables
  <2> QED BY <1>0, <1>1, <2>1, Kept DEF LinkOK
<1>4. CASE on_outbound_conn(r) /\ pit # None
  <2>1. LinkOK'
    BY <1>0, <1>4, CloseAllType, Zenon DEF on_outbound_conn
  <2>2. /\ Connected(r, p, set_conn(relay_conns[r][p], r, p, pit, FALSE))
        /\ pending_outbound' = [pending_outbound EXCEPT ![r][p] = None]
        /\ UNCHANGED pending_dead
    BY <1>4, Zenon DEF on_outbound_conn
  <2>3. pit \in Conn
    BY <1>0, <1>1, <1>4
  <2> HIDE DEF p, c, pit
  <2>4. pending_outbound' \in [Relay -> [Relay -> Conn \cup {None}]]
    BY <1>0, <1>1, <2>2
  <2>5. /\ relay_conns' \in [Relay -> [Relay -> Entry]]
        /\ relay_bidir' \in [Relay -> SUBSET Relay]
        /\ unreachable_since' \in [Relay -> SUBSET Relay]
        /\ PreferredAndScheduled' /\ UnreachableIsUnconnected'
    BY <1>1, <2>2, <2>3, ConnectedStep, Zenon
  <2>6. pending_dead' \in [Relay -> SUBSET Relay]
    BY <1>0, <2>2
  <2> QED BY <1>1, <2>1, <2>4, <2>5, <2>6 DEF Inv, RelayLinks_TypeOK, LinkOK
<1> QED BY <1>2, <1>3, <1>4

-----------------------------------------------------------------------------
\* Only a relay without a connection is noted as unreachable.
LEMMA FailureNoted ==
    ASSUME Inv, NEW r \in Relay, NEW p \in Relay,
           note_connect_failure(r, p) \/ UNCHANGED unreachable_since,
           UNCHANGED <<relay_conns, relay_bidir>>
    PROVE  /\ unreachable_since' \in [Relay -> SUBSET Relay]
           /\ PreferredAndScheduled' /\ UnreachableIsUnconnected'
<1>1. unreachable_since \in [Relay -> SUBSET Relay]
  BY DEF Inv, RelayLinks_TypeOK
<1>2. unreachable_since' \in [Relay -> SUBSET Relay]
  BY <1>1 DEF note_connect_failure
<1>3. PreferredAndScheduled'
  BY DEF Inv, PreferredAndScheduled, inbound_wins
<1>4. ASSUME NEW q \in Relay, NEW s \in Relay, s \in unreachable_since'[q]
      PROVE  relay_conns[q][s] = NoEntry
  <2>1. s \in unreachable_since[q] \/ (q = r /\ s = p /\ relay_conns[r][p] = NoEntry)
    BY <1>1, <1>4 DEF note_connect_failure
  <2> QED BY <2>1 DEF Inv, UnreachableIsUnconnected
<1>5. UnreachableIsUnconnected'
  BY <1>4 DEF UnreachableIsUnconnected, NoEntry
<1> QED BY <1>2, <1>3, <1>5

\* A failed attempt is taken out of pending_outbound.
LEMMA FailedStep ==
    ASSUME Inv, NEW r \in Relay, on_attempt_failed(r)
    PROVE  Inv'
<1> DEFINE p == Head(jobs[r]).peer
<1>1. jobs' \in [Relay -> Seq(Job)] /\ p \in Relay
  BY TakeType DEF on_attempt_failed
<1>2. /\ UNCHANGED <<relay_conns, relay_bidir, pending_dead, link>>
      /\ note_connect_failure(r, p) \/ UNCHANGED unreachable_since
      /\ pending_outbound' = [pending_outbound EXCEPT ![r][p] = None] \/ UNCHANGED pending_outbound
  BY DEF on_attempt_failed
<1> HIDE DEF p
<1>3. unreachable_since' \in [Relay -> SUBSET Relay] /\ PreferredAndScheduled' /\ UnreachableIsUnconnected'
  BY <1>1, <1>2, FailureNoted
<1>4. pending_outbound' \in [Relay -> [Relay -> Conn \cup {None}]]
  <2>1. pending_outbound \in [Relay -> [Relay -> Conn \cup {None}]]
    BY DEF Inv, RelayLinks_TypeOK
  <2>2. CASE pending_outbound' = [pending_outbound EXCEPT ![r][p] = None]
    BY <1>1, <2>1, <2>2, SMTT(20)
  <2> QED BY <1>2, <2>1, <2>2
<1> QED BY <1>1, <1>2, <1>3, <1>4 DEF Inv, RelayLinks_TypeOK

\* A connection that closes leaves its entry or is taken as the attempt that was pending.
LEMMA ClosedStep ==
    ASSUME Inv, NEW r \in Relay, on_conn_closed(r)
    PROVE  Inv'
<1>0. /\ relay_conns \in [Relay -> [Relay -> Entry]] /\ relay_bidir \in [Relay -> SUBSET Relay]
      /\ pending_outbound \in [Relay -> [Relay -> Conn \cup {None}]]
      /\ unreachable_since \in [Relay -> SUBSET Relay]
      /\ pending_dead \in [Relay -> SUBSET Relay] /\ link \in [Conn -> Link \cup {NoLink}]
  BY DEF Inv, RelayLinks_TypeOK
<1>t. Take(r, "closed") /\ UNCHANGED <<pending_dead, link>>
  BY Zenon DEF on_conn_closed
<1>j. /\ jobs' \in [Relay -> Seq(Job)]
      /\ Head(jobs[r]).conn \in Conn /\ Head(jobs[r]).peer \in Relay
  BY <1>t, TakeType, Zenon
<1> PICK p \in Relay, c \in Conn : p = Head(jobs[r]).peer /\ c = Head(jobs[r]).conn
  BY <1>j, Zenon
<1> DEFINE e == relay_conns[r][p]
           left == IF c = e.inbound THEN close(e, TRUE) ELSE close(e, FALSE)
           new == IF left.conn = None THEN NoEntry ELSE left
<1>1. jobs' \in [Relay -> Seq(Job)] /\ e \in Entry
  BY <1>0, <1>j
<1>2. UNCHANGED <<pending_dead, link>>
  BY <1>t, Zenon
<1>3. CASE c \in {e.inbound, e.outbound}
  <2>1. /\ relay_conns' = [relay_conns EXCEPT ![r][p] = new]
        /\ relay_bidir' = [relay_bidir EXCEPT ![r] = @ \ {p}]
        /\ UNCHANGED <<pending_outbound, unreachable_since>>
    BY <1>3, Zenon DEF on_conn_closed
  <2>2. left \in Entry /\ Right(left, r, p) /\ ~Both(left) /\ (left.conn = None => left = NoEntry)
    BY <1>1, closeRight, ZenonT(40)
  <2>3. new \in Entry /\ Right(new, r, p) /\ ~Both(new)
    BY <2>2, Zenon
  <2>4. e # NoEntry
    BY <1>1, <1>3, RelayLinksAssumption DEF NoEntry
  <2>5. p \notin unreachable_since[r]
    BY <1>1, <2>4 DEF Inv, UnreachableIsUnconnected
  <2> HIDE DEF new
  <2>6. relay_conns'[r][p] = new /\ p \notin relay_bidir'[r] /\ p \notin unreachable_since'[r]
    BY <1>0, <1>1, <2>1, <2>5
  <2>7. PairOK(r, p)'
    BY <2>3, <2>6 DEF PairOK, Right, Both, inbound_wins
  <2>8. ASSUME NEW q \in Relay, NEW s \in Relay, q # r \/ s # p
        PROVE  /\ relay_conns'[q][s] = relay_conns[q][s]
               /\ s \in relay_bidir'[q] <=> s \in relay_bidir[q]
               /\ s \in unreachable_since'[q] => s \in unreachable_since[q]
    BY <1>0, <1>1, <2>1, <2>8
  <2>9. PreferredAndScheduled' /\ UnreachableIsUnconnected'
    BY <2>7, <2>8, Frame
  <2>10. relay_conns' \in [Relay -> [Relay -> Entry]] /\ relay_bidir' \in [Relay -> SUBSET Relay]
    BY <1>0, <1>1, <2>1, <2>3
  <2> QED BY <1>0, <1>1, <1>2, <2>1, <2>9, <2>10 DEF Inv, RelayLinks_TypeOK
<1>4. CASE c \notin {e.inbound, e.outbound}
  <2>1. /\ UNCHANGED <<relay_conns, relay_bidir>>
        /\ note_connect_failure(r, p) \/ UNCHANGED unreachable_since
        /\ pending_outbound' = [pending_outbound EXCEPT ![r][p] = None]
    BY <1>4 DEF on_conn_closed
  <2>2. unreachable_since' \in [Relay -> SUBSET Relay] /\ PreferredAndScheduled' /\ UnreachableIsUnconnected'
    BY <1>1, <2>1, FailureNoted
  <2>3. pending_outbound' \in [Relay -> [Relay -> Conn \cup {None}]]
    BY <1>0, <1>1, <2>1
  <2>4. relay_conns' = relay_conns /\ relay_bidir' = relay_bidir /\ pending_dead' = pending_dead /\ link' = link
    BY <1>2, <2>1, Zenon
  <2> QED BY <1>0, <1>1, <2>2, <2>3, <2>4, Zenon DEF Inv, RelayLinks_TypeOK
<1> QED BY <1>3, <1>4, Zenon

-----------------------------------------------------------------------------
\* A new attempt only touches pending_outbound and its own connection.
LEMMA ConnectStep ==
    ASSUME Inv, NEW r \in Relay, NEW p \in Relay, ctrl_stream_impl(r, p)
    PROVE  Inv'
<1> PICK c \in Conn :
        /\ link' = [link EXCEPT ![c] = [from |-> r, to |-> p, near |-> "connecting", far |-> "none"]]
        /\ pending_outbound' = [pending_outbound EXCEPT ![r][p] = c]
  BY Zenon DEF ctrl_stream_impl
<1>1. UNCHANGED <<relay_conns, relay_bidir, unreachable_since, pending_dead, jobs>>
  BY DEF ctrl_stream_impl
<1>2. [from |-> r, to |-> p, near |-> "connecting", far |-> "none"] \in Link
  BY DEF Link
<1>3. link' \in [Conn -> Link \cup {NoLink}] /\ pending_outbound' \in [Relay -> [Relay -> Conn \cup {None}]]
  BY <1>2 DEF Inv, RelayLinks_TypeOK
<1>4. PreferredAndScheduled' /\ UnreachableIsUnconnected'
  BY <1>1, Frame
<1> QED BY <1>1, <1>3, <1>4 DEF Inv, RelayLinks_TypeOK

\* close_redundant leaves the entries it was scheduled for with the winner alone.
LEMMA RedundantStep ==
    ASSUME Inv, NEW r \in Relay, NEW P \in SUBSET relay_bidir[r], close_redundant(r, P)
    PROVE  Inv'
<1> DEFINE new(p) == close(relay_conns[r][p], ~inbound_wins(r, p))
<1>0. /\ relay_conns \in [Relay -> [Relay -> Entry]] /\ relay_bidir \in [Relay -> SUBSET Relay]
      /\ LinkOK /\ P \subseteq Relay
  BY DEF Inv, RelayLinks_TypeOK, LinkOK
<1>1. /\ relay_conns' = [relay_conns EXCEPT ![r] = [p \in Relay |-> IF p \in P THEN new(p) ELSE relay_conns[r][p]]]
      /\ relay_bidir' = [relay_bidir EXCEPT ![r] = @ \ P]
      /\ UNCHANGED <<pending_outbound, unreachable_since, pending_dead, jobs>>
  BY DEF close_redundant
<1>2. ASSUME NEW p \in Relay
      PROVE  new(p) \in Entry /\ Right(new(p), r, p) /\ ~Both(new(p))
  <2>1. (~inbound_wins(r, p)) \in BOOLEAN /\ relay_conns[r][p] \in Entry
    BY <1>0 DEF inbound_wins
  <2> QED BY <2>1, closeRight, Zenon
<1>3. LinkOK'
  BY <1>0, CloseAllType DEF close_redundant
<1>4. ASSUME NEW p \in P
      PROVE  PairOK(r, p)'
  <2>1. p \in Relay /\ relay_conns[r][p] # NoEntry
    BY <1>0, PairsOK DEF Inv, PairOK, Both, NoEntry
  <2>2. p \notin unreachable_since[r]
    BY <2>1 DEF Inv, UnreachableIsUnconnected
  <2> HIDE DEF new
  <2>3. relay_conns'[r][p] = new(p) /\ p \notin relay_bidir'[r] /\ p \notin unreachable_since'[r]
    BY <1>0, <1>1, <2>1, <2>2
  <2> QED BY <1>2, <2>1, <2>3 DEF PairOK, Right, Both, inbound_wins
<1> HIDE DEF new
<1>5. ASSUME NEW q \in Relay, NEW s \in Relay, q # r \/ s \notin P
      PROVE  /\ relay_conns'[q][s] = relay_conns[q][s]
             /\ s \in relay_bidir'[q] <=> s \in relay_bidir[q]
             /\ s \in unreachable_since'[q] => s \in unreachable_since[q]
  BY <1>0, <1>1, <1>5
<1>6. PreferredAndScheduled' /\ UnreachableIsUnconnected'
  BY <1>4, <1>5, Frame
<1>7. relay_conns' \in [Relay -> [Relay -> Entry]] /\ relay_bidir' \in [Relay -> SUBSET Relay]
  BY <1>0, <1>1, <1>2
<1> QED BY <1>1, <1>3, <1>6, <1>7 DEF Inv, RelayLinks_TypeOK, LinkOK

\* check_deregged_conns forgets everything about the peers it disconnects.
LEMMA DereggedStep ==
    ASSUME Inv, NEW r \in Relay, NEW U \in SUBSET Unstable, NEW D \in SUBSET pending_dead[r],
           check_deregged_conns(r, D, U)
    PROVE  Inv'
<1> PICK G \in SUBSET Relay : G = {p \in D \cap U : relay_conns[r][p] # NoEntry}
  BY RelayLinksAssumption, Zenon
<1>0. /\ relay_conns \in [Relay -> [Relay -> Entry]] /\ relay_bidir \in [Relay -> SUBSET Relay]
      /\ unreachable_since \in [Relay -> SUBSET Relay] /\ pending_dead \in [Relay -> SUBSET Relay]
      /\ pending_outbound \in [Relay -> [Relay -> Conn \cup {None}]] /\ jobs \in [Relay -> Seq(Job)]
      /\ LinkOK
  BY DEF Inv, RelayLinks_TypeOK, LinkOK
<1>1. /\ relay_conns' = [relay_conns EXCEPT ![r] = [p \in Relay |-> IF p \in G THEN NoEntry ELSE relay_conns[r][p]]]
      /\ pending_outbound' = [pending_outbound EXCEPT ![r] =
                                [p \in Relay |-> IF p \in G THEN None ELSE pending_outbound[r][p]]]
      /\ relay_bidir' = [relay_bidir EXCEPT ![r] = @ \ G]
      /\ unreachable_since' = [unreachable_since EXCEPT ![r] = @ \ G]
      /\ pending_dead' = [pending_dead EXCEPT ![r] = (@ \ D) \cup {p \in U : relay_conns'[r][p] # NoEntry}]
      /\ jobs' = jobs
  BY DEF check_deregged_conns
<1>2. LinkOK'
  BY <1>0, CloseAllType DEF check_deregged_conns
<1>3. NoEntry \in Entry /\ ~Both(NoEntry)
  BY DEF NoEntry, Entry, Both
<1>4. ASSUME NEW p \in G
      PROVE  PairOK(r, p)'
  <2>1. relay_conns'[r][p] = NoEntry /\ p \notin relay_bidir'[r] /\ p \notin unreachable_since'[r]
    BY <1>0, <1>1
  <2> QED BY <2>1 DEF PairOK, Right, Both, NoEntry
<1>5. ASSUME NEW q \in Relay, NEW s \in Relay, q # r \/ s \notin G
      PROVE  /\ relay_conns'[q][s] = relay_conns[q][s]
             /\ s \in relay_bidir'[q] <=> s \in relay_bidir[q]
             /\ s \in unreachable_since'[q] => s \in unreachable_since[q]
  BY <1>0, <1>1, <1>5
<1>6. PreferredAndScheduled' /\ UnreachableIsUnconnected'
  BY <1>4, <1>5, Frame
<1>7. relay_conns' \in [Relay -> [Relay -> Entry]]
  BY <1>0, <1>1, <1>3
<1>8. pending_outbound' \in [Relay -> [Relay -> Conn \cup {None}]]
  BY <1>0, <1>1
<1>9. relay_bidir' \in [Relay -> SUBSET Relay] /\ unreachable_since' \in [Relay -> SUBSET Relay]
  BY <1>0, <1>1
<1>10. pending_dead' \in [Relay -> SUBSET Relay]
  BY <1>0, <1>1, RelayLinksAssumption, Zenon
<1> QED BY <1>0, <1>1, <1>2, <1>6, <1>7, <1>8, <1>9, <1>10 DEF Inv, RelayLinks_TypeOK, LinkOK

\* A relay that restarts knows of no connection.
LEMMA RestartStep ==
    ASSUME Inv, NEW r \in Relay, restart(r)
    PROVE  Inv'
<1>0. /\ relay_conns \in [Relay -> [Relay -> Entry]] /\ relay_bidir \in [Relay -> SUBSET Relay]
      /\ unreachable_since \in [Relay -> SUBSET Relay] /\ pending_dead \in [Relay -> SUBSET Relay]
      /\ pending_outbound \in [Relay -> [Relay -> Conn \cup {None}]] /\ jobs \in [Relay -> Seq(Job)]
      /\ LinkOK
  BY DEF Inv, RelayLinks_TypeOK, LinkOK
<1>1. LinkOK'
  <2>1. ASSUME NEW c \in Conn
        PROVE  link'[c] \in Link \cup {NoLink}
    <3>1. CASE link[c].from = r
      <4>1. link[c] \in Link
        BY <1>0, <3>1, RelayLinksAssumption DEF LinkOK, NoLink
      <4>2. [link[c] EXCEPT !.near = "down"] \in Link
        BY <4>1 DEF Link
      <4> QED BY <3>1, <4>2, SettledType DEF restart
    <3>2. CASE link[c].from # r /\ link[c].to = r /\ link[c].near # "connecting"
      <4>1. link[c] \in Link
        BY <1>0, <3>2, RelayLinksAssumption DEF LinkOK, NoLink
      <4>2. [link[c] EXCEPT !.far = "down"] \in Link
        BY <4>1 DEF Link
      <4> QED BY <3>2, <4>2, SettledType DEF restart
    <3>3. CASE link[c].from # r /\ ~(link[c].to = r /\ link[c].near # "connecting")
      BY <1>0, <3>3 DEF restart, LinkOK
    <3> QED BY <3>1, <3>2, <3>3
  <2>2. link' = [c \in Conn |-> link'[c]]
    BY DEF restart
  <2> QED BY <2>1, <2>2 DEF LinkOK
<1>2. NoEntry \in Entry
  BY DEF NoEntry, Entry
<1>3. ASSUME NEW p \in Relay
      PROVE  PairOK(r, p)'
  <2>1. relay_conns'[r][p] = NoEntry /\ p \notin relay_bidir'[r] /\ p \notin unreachable_since'[r]
    BY <1>0 DEF restart
  <2> QED BY <2>1 DEF PairOK, Right, Both, NoEntry
<1>4. ASSUME NEW q \in Relay, NEW s \in Relay, q # r
      PROVE  /\ relay_conns'[q][s] = relay_conns[q][s]
             /\ s \in relay_bidir'[q] <=> s \in relay_bidir[q]
             /\ s \in unreachable_since'[q] => s \in unreachable_since[q]
  BY <1>0, <1>4 DEF restart
<1>5. PreferredAndScheduled' /\ UnreachableIsUnconnected'
  BY <1>3, <1>4, Frame
<1>6. relay_conns' \in [Relay -> [Relay -> Entry]] /\ pending_outbound' \in [Relay -> [Relay -> Conn \cup {None}]]
  BY <1>0, <1>2 DEF restart
<1>7. /\ relay_bidir' \in [Relay -> SUBSET Relay] /\ unreachable_since' \in [Relay -> SUBSET Relay]
      /\ pending_dead' \in [Relay -> SUBSET Relay]
  BY <1>0 DEF restart
<1>8. jobs' \in [Relay -> Seq(Job)]
  <2>1. <<>> \in Seq(Job)
    OBVIOUS
  <2> QED BY <1>0, <2>1 DEF restart
<1> QED BY <1>1, <1>5, <1>6, <1>7, <1>8 DEF Inv, RelayLinks_TypeOK, LinkOK

-----------------------------------------------------------------------------
\* Of relay_conns, relay_bidir and unreachable_since (link/endpoint.cpp): for any relays
\* and connections, and whatever the network does, an entry prefers the connection that
\* wins and is scheduled for close_redundant while it has two, two relays with the same
\* two connections prefer the same one, and no connected relay is noted as unreachable.
THEOREM RelayLinksSafe ==
    Spec => [](RelayLinks_TypeOK /\ PreferredAndScheduled /\ SameWinner /\ UnreachableIsUnconnected)
<1>1. Init => Inv
  <2> SUFFICES ASSUME Init PROVE Inv
    OBVIOUS
  <2>1. RelayLinks_TypeOK
    <3>1. NoEntry \in Entry /\ <<>> \in Seq(Job)
      BY DEF NoEntry, Entry
    <3> QED BY <3>1 DEF Init, RelayLinks_TypeOK
  <2>2. \A r, p \in Relay : PairOK(r, p)
    BY DEF Init, PairOK, Right, Both, NoEntry
  <2> QED BY <2>1, <2>2, PairsOK DEF Inv
<1>2. Inv /\ [Next]_vars => Inv'
  <2> SUFFICES ASSUME Inv, [Next]_vars PROVE Inv'
    OBVIOUS
  <2>1. ASSUME NEW r \in Relay, NEW p \in Relay, ctrl_stream_impl(r, p) PROVE Inv'
    BY <2>1, ConnectStep
  <2>2. ASSUME NEW c \in Conn, Network(c) PROVE Inv'
    BY <2>2, NetworkStep
  <2>3. ASSUME NEW r \in Relay, RunJob(r) PROVE Inv'
    <3>1. CASE on_dead_conn(r)
      <4>1. UNCHANGED tables /\ link' = link /\ Take(r, "open")
        BY <3>1 DEF on_dead_conn
      <4>2. LinkOK' /\ jobs' \in [Relay -> Seq(Job)]
        BY <4>1, TakeType DEF LinkOK, Inv, RelayLinks_TypeOK
      <4> QED BY <4>1, <4>2, Kept
    <3> QED BY <2>3, <3>1, OpenStep, ClosedStep, FailedStep DEF RunJob
  <2>4. ASSUME NEW r \in Relay, restart(r) PROVE Inv'
    BY <2>4, RestartStep
  <2>5. ASSUME NEW r \in Relay, NEW P \in SUBSET relay_bidir[r], close_redundant(r, P) PROVE Inv'
    BY <2>5, RedundantStep
  <2>6. ASSUME NEW r \in Relay, NEW U \in SUBSET Unstable, NEW D \in SUBSET pending_dead[r],
               check_deregged_conns(r, D, U)
        PROVE  Inv'
    BY <2>6, DereggedStep
  <2>7. CASE UNCHANGED vars
    <3>1. UNCHANGED tables /\ link' = link /\ jobs' = jobs
      BY <2>7 DEF vars
    <3>2. LinkOK' /\ jobs' \in [Relay -> Seq(Job)]
      BY <3>1 DEF LinkOK, Inv, RelayLinks_TypeOK
    <3> QED BY <3>1, <3>2, Kept
  <2> QED BY <2>1, <2>2, <2>3, <2>4, <2>5, <2>6, <2>7 DEF Next
<1>3. Inv => RelayLinks_TypeOK /\ PreferredAndScheduled /\ SameWinner /\ UnreachableIsUnconnected
  BY WinnerAgreed DEF Inv
<1> QED BY <1>1, <1>2, <1>3, PTL DEF Spec

=============================================================================
