----------------------------- MODULE RelayLinks -----------------------------
(***************************************************************************)
(* The QUIC connections between relays (link/endpoint.cpp).  Two relays may *)
(* connect to each other at the same time; both then keep both connections *)
(* for a while, prefer the same one and close the other.  Connections open *)
(* and close in the network loop, and the router loop hears of it through  *)
(* jobs that it runs in order, after whatever it has queued before.        *)
(***************************************************************************)
EXTENDS Naturals, Sequences

CONSTANTS
    Relay,      \* RouterIDs, ordered as numbers
    Conn,       \* the QUIC connections that exist at a time
    Unstable,   \* the relays that may turn out not to be registered, whenever that is read
    None        \* no connection: a null pointer

ASSUME RelayLinksAssumption == Relay \subseteq Nat \ {0} /\ Unstable \subseteq Relay /\ None \notin Conn

VARIABLES
    relay_conns,        \* [relay][peer]: the relay_conn entry; NoEntry when absent
    pending_outbound,   \* [relay][peer]: the outbound connection not yet established, or None
    relay_bidir,        \* [relay]: the peers with a redundant connection to close
    unreachable_since,  \* [relay]: the peers noted as unreachable
    pending_dead,       \* [relay]: the deregistered peers to disconnect from
    jobs,               \* [relay]: what the network loop has told the router loop
    link                \* [connection]: its two ends

tables == <<relay_conns, pending_outbound, relay_bidir, unreachable_since, pending_dead>>
vars == <<tables, jobs, link>>

NoEntry == [inbound |-> None, outbound |-> None, conn |-> None]
Entry == [inbound : Conn \cup {None}, outbound : Conn \cup {None}, conn : Conn \cup {None}]
Job == [what : {"open", "closed", "failed"}, conn : Conn, peer : Relay, is_inbound : BOOLEAN]

\* near is the end of the relay that connects; an end that was told to close is
\* closing (aborting if it was not up yet) until the network loop has done so.
NoLink == [from |-> 0, to |-> 0, near |-> "down", far |-> "none"]
Link == [from : Relay, to : Relay,
         near : {"connecting", "aborting", "up", "closing", "down"},
         far : {"none", "up", "closing", "down"}]

\* The type of the state.
RelayLinks_TypeOK ==
    /\ relay_conns \in [Relay -> [Relay -> Entry]]
    /\ pending_outbound \in [Relay -> [Relay -> Conn \cup {None}]]
    /\ relay_bidir \in [Relay -> SUBSET Relay]
    /\ unreachable_since \in [Relay -> SUBSET Relay]
    /\ pending_dead \in [Relay -> SUBSET Relay]
    /\ jobs \in [Relay -> Seq(Job)]
    /\ link \in [Conn -> Link \cup {NoLink}]

Init ==
    /\ relay_conns = [r \in Relay |-> [p \in Relay |-> NoEntry]]
    /\ pending_outbound = [r \in Relay |-> [p \in Relay |-> None]]
    /\ relay_bidir = [r \in Relay |-> {}]
    /\ unreachable_since = [r \in Relay |-> {}]
    /\ pending_dead = [r \in Relay |-> {}]
    /\ jobs = [r \in Relay |-> <<>>]
    /\ link = [c \in Conn |-> NoLink]

-----------------------------------------------------------------------------
\* The connection that wins when both directions exist is the one the relay with the
\* smaller RouterID has opened.
inbound_wins(r, p) == p < r

\* relay_conn::set_conn; the caller closes the connection that is replaced.
set_conn(e, r, p, c, is_inbound) ==
    IF is_inbound
    THEN [inbound |-> c, outbound |-> e.outbound,
          conn |-> IF e.outbound = None \/ inbound_wins(r, p) THEN c ELSE e.conn]
    ELSE [inbound |-> e.inbound, outbound |-> c,
          conn |-> IF e.inbound = None \/ ~inbound_wins(r, p) THEN c ELSE e.conn]

\* Mutant: the preferred connection is not switched.
close_keeps_conn(e, is_inbound) ==
    IF is_inbound THEN [e EXCEPT !.inbound = None] ELSE [e EXCEPT !.outbound = None]

\* relay_conn::close, of the direction given.
close(e, is_inbound) ==
    IF is_inbound
    THEN [inbound |-> None, outbound |-> e.outbound, conn |-> e.outbound]
    ELSE [inbound |-> e.inbound, outbound |-> None, conn |-> e.inbound]

\* The end of c at relay r is told to close.
Closing(c, r) ==
    LET l == link[c]
    IN IF l.from = r
       THEN [l EXCEPT !.near = CASE @ = "connecting" -> "aborting" [] @ = "up" -> "closing" [] OTHER -> @]
       ELSE [l EXCEPT !.far = IF @ = "up" THEN "closing" ELSE @]

CloseAll(C, r) == link' = [c \in Conn |-> IF c \in C THEN Closing(c, r) ELSE link[c]]

Mentioned(c) ==
    \E r \in Relay :
        \/ \E p \in Relay : c \in {relay_conns[r][p].inbound, relay_conns[r][p].outbound, pending_outbound[r][p]}
        \/ \E i \in DOMAIN jobs[r] : jobs[r][i].conn = c

Unused(c) == link[c] = NoLink /\ ~Mentioned(c)

\* The connection is over when both ends are, or when it never came up.
Settled(l) == IF l.near = "down" /\ l.far \in {"none", "down"} THEN NoLink ELSE l

-----------------------------------------------------------------------------
\* ctrl_stream_impl, for a command to p or from the tick's connect_to_keep_alive,
\* finds neither an established nor a pending connection.
ctrl_stream_impl(r, p) ==
    /\ r # p
    /\ relay_conns[r][p].conn = None /\ pending_outbound[r][p] = None
    /\ \E c \in Conn :
        /\ Unused(c)
        /\ link' = [link EXCEPT ![c] = [from |-> r, to |-> p, near |-> "connecting", far |-> "none"]]
        /\ pending_outbound' = [pending_outbound EXCEPT ![r][p] = c]
    /\ UNCHANGED <<relay_conns, relay_bidir, unreachable_since, pending_dead, jobs>>

\* The network loop calls on_conn_established or on_conn_closed: a job for the relay
\* at that end of c.
Tell(c, what, is_inbound) ==
    LET l == link[c]
        r == IF is_inbound THEN l.to ELSE l.from
        p == IF is_inbound THEN l.from ELSE l.to
    IN jobs' = [jobs EXCEPT ![r] = Append(@, [what |-> what, conn |-> c, peer |-> p, is_inbound |-> is_inbound])]

Ends(c, l) == link' = [link EXCEPT ![c] = Settled(l)] /\ UNCHANGED tables

\* The handshake of an outbound connection completes.
near_established(c) ==
    /\ link[c].near = "connecting"
    /\ Tell(c, "open", FALSE)
    /\ Ends(c, [link[c] EXCEPT !.near = "up"])

\* ... and then at the other relay, unless it rejects the key as unregistered.
far_established(c) ==
    /\ link[c].near \in {"up", "closing"} /\ link[c].far = "none"
    /\ Tell(c, "open", TRUE)
    /\ Ends(c, [link[c] EXCEPT !.far = "up"])

far_rejected(c) ==
    /\ link[c].near \in {"up", "closing"} /\ link[c].far = "none"
    /\ link[c].from \in Unstable
    /\ Ends(c, [link[c] EXCEPT !.far = "down"])
    /\ UNCHANGED jobs

\* An end closes: told to, told by the other end, or after the idle or handshake timeout.
near_closed(c) ==
    /\ link[c].near # "down"
    /\ Tell(c, IF link[c].near \in {"up", "closing"} THEN "closed" ELSE "failed", FALSE)
    /\ Ends(c, [link[c] EXCEPT !.near = "down"])

far_closed(c) ==
    /\ link[c].far \in {"up", "closing"}
    /\ Tell(c, "closed", TRUE)
    /\ Ends(c, [link[c] EXCEPT !.far = "down"])

-----------------------------------------------------------------------------
\* The router loop of r takes its next job, of this kind.
Take(r, what) ==
    /\ jobs[r] # <<>> /\ Head(jobs[r]).what = what
    /\ jobs' = [jobs EXCEPT ![r] = Tail(@)]

\* Mutant: relay_bidir is keyed by the connection.
Connected_by_conn(r, p, e) ==
    /\ relay_conns' = [relay_conns EXCEPT ![r][p] = e]
    /\ relay_bidir' = IF e.inbound # None /\ e.outbound # None
                      THEN [relay_bidir EXCEPT ![r] = @ \cup {e.conn}] ELSE relay_bidir
    /\ unreachable_since' = [unreachable_since EXCEPT ![r] = @ \ {p}]

\* Mutant: redundant connections are not scheduled for closing.
Connected_unscheduled(r, p, e) ==
    /\ relay_conns' = [relay_conns EXCEPT ![r][p] = e]
    /\ UNCHANGED relay_bidir
    /\ unreachable_since' = [unreachable_since EXCEPT ![r] = @ \ {p}]

\* The entry becomes e; p is redundant when e has both directions.
Connected(r, p, e) ==
    /\ relay_conns' = [relay_conns EXCEPT ![r][p] = e]
    /\ relay_bidir' = IF e.inbound # None /\ e.outbound # None
                      THEN [relay_bidir EXCEPT ![r] = @ \cup {p}] ELSE relay_bidir
    /\ unreachable_since' = [unreachable_since EXCEPT ![r] = @ \ {p}]

on_inbound_conn(r) ==
    /\ Take(r, "open") /\ Head(jobs[r]).is_inbound
    /\ LET p == Head(jobs[r]).peer
           e == relay_conns[r][p]
       IN CloseAll({e.inbound}, r) /\ Connected(r, p, set_conn(e, r, p, Head(jobs[r]).conn, TRUE))
    /\ UNCHANGED <<pending_outbound, pending_dead>>

\* The pending connection, whichever it is by now, is taken as the established one.
on_outbound_conn(r) ==
    /\ Take(r, "open") /\ ~Head(jobs[r]).is_inbound
    /\ LET p == Head(jobs[r]).peer
           e == relay_conns[r][p]
           pit == pending_outbound[r][p]
       IN IF pit = None
          THEN UNCHANGED <<relay_conns, relay_bidir, unreachable_since, pending_outbound, link>>
          ELSE /\ CloseAll({e.outbound}, r)
               /\ Connected(r, p, set_conn(e, r, p, pit, FALSE))
               /\ pending_outbound' = [pending_outbound EXCEPT ![r][p] = None]
    /\ UNCHANGED pending_dead

\* on_conn_established's job comes too late: nothing holds the connection any more.
on_dead_conn(r) ==
    /\ Take(r, "open")
    /\ LET j == Head(jobs[r])
       IN /\ IF j.is_inbound THEN link[j.conn].far \in {"none", "down"} ELSE link[j.conn].near = "down"
          /\ j.conn \notin {pending_outbound[r][j.peer], relay_conns[r][j.peer].outbound}
    /\ UNCHANGED <<tables, link>>

\* An attempt can fail after the relay has connected to us: that is not held against it.
note_connect_failure(r, p) ==
    unreachable_since' = IF relay_conns[r][p] = NoEntry
                         THEN [unreachable_since EXCEPT ![r] = @ \cup {p}] ELSE unreachable_since

\* on_conn_closed with the relay ALPN: the entry if it holds the connection, otherwise
\* whatever is pending.
on_conn_closed(r) ==
    /\ Take(r, "closed")
    /\ LET c == Head(jobs[r]).conn
           p == Head(jobs[r]).peer
           e == relay_conns[r][p]
           left == IF c = e.inbound THEN close(e, TRUE) ELSE close(e, FALSE)
       IN IF c \in {e.inbound, e.outbound}
          THEN /\ relay_conns' = [relay_conns EXCEPT ![r][p] = IF left.conn = None THEN NoEntry ELSE left]
               /\ relay_bidir' = [relay_bidir EXCEPT ![r] = @ \ {p}]
               /\ UNCHANGED <<pending_outbound, unreachable_since>>
          ELSE /\ pending_outbound' = [pending_outbound EXCEPT ![r][p] = None]
               /\ IF pending_outbound[r][p] # None THEN note_connect_failure(r, p) ELSE UNCHANGED unreachable_since
               /\ UNCHANGED <<relay_conns, relay_bidir>>
    /\ UNCHANGED <<pending_dead, link>>

\* on_conn_closed without an ALPN: the attempt failed; here the connection is compared.
on_attempt_failed(r) ==
    /\ Take(r, "failed")
    /\ LET p == Head(jobs[r]).peer
       IN IF pending_outbound[r][p] = Head(jobs[r]).conn
          THEN /\ pending_outbound' = [pending_outbound EXCEPT ![r][p] = None]
               /\ note_connect_failure(r, p)
          ELSE UNCHANGED <<pending_outbound, unreachable_since>>
    /\ UNCHANGED <<relay_conns, relay_bidir, pending_dead, link>>

-----------------------------------------------------------------------------
\* The timer's close_redundant: the peers whose linger time is over are some of relay_bidir.
close_redundant(r, P) ==
    /\ P # {} /\ P \subseteq relay_bidir[r]
    /\ LET loser(p) == IF inbound_wins(r, p) THEN relay_conns[r][p].outbound ELSE relay_conns[r][p].inbound
       IN CloseAll({loser(p) : p \in P}, r)
    /\ relay_conns' = [relay_conns EXCEPT ![r] =
            [p \in Relay |-> IF p \in P THEN close(@[p], ~inbound_wins(r, p)) ELSE @[p]]]
    /\ relay_bidir' = [relay_bidir EXCEPT ![r] = @ \ P]
    /\ UNCHANGED <<pending_outbound, unreachable_since, pending_dead, jobs>>

\* check_deregged_conns, when U are unregistered: D is the part of pending_dead that has
\* been there long enough.
check_deregged_conns(r, D, U) ==
    LET gone == {p \in D \cap U : relay_conns[r][p] # NoEntry}
        C == UNION {{relay_conns[r][p].inbound, relay_conns[r][p].outbound, pending_outbound[r][p]} : p \in gone}
    IN /\ D \subseteq pending_dead[r]
       /\ CloseAll(C, r)
       /\ relay_conns' = [relay_conns EXCEPT ![r] = [p \in Relay |-> IF p \in gone THEN NoEntry ELSE @[p]]]
       /\ pending_outbound' = [pending_outbound EXCEPT ![r] = [p \in Relay |-> IF p \in gone THEN None ELSE @[p]]]
       /\ relay_bidir' = [relay_bidir EXCEPT ![r] = @ \ gone]
       /\ unreachable_since' = [unreachable_since EXCEPT ![r] = @ \ gone]
       /\ pending_dead' = [pending_dead EXCEPT ![r] =
                (@ \ D) \cup {p \in U : relay_conns'[r][p] # NoEntry}]
       /\ UNCHANGED jobs

\* shutdown, or a crash, and the next start: the connections end without a word to us.
restart(r) ==
    /\ relay_conns' = [relay_conns EXCEPT ![r] = [p \in Relay |-> NoEntry]]
    /\ pending_outbound' = [pending_outbound EXCEPT ![r] = [p \in Relay |-> None]]
    /\ relay_bidir' = [relay_bidir EXCEPT ![r] = {}]
    /\ unreachable_since' = [unreachable_since EXCEPT ![r] = {}]
    /\ pending_dead' = [pending_dead EXCEPT ![r] = {}]
    /\ jobs' = [jobs EXCEPT ![r] = <<>>]
    /\ link' = [c \in Conn |-> LET l == link[c] IN
                    IF l.from = r THEN Settled([l EXCEPT !.near = "down"])
                    ELSE IF l.to = r /\ l.near # "connecting" THEN Settled([l EXCEPT !.far = "down"]) ELSE l]

Network(c) == near_established(c) \/ far_established(c) \/ far_rejected(c) \/ near_closed(c) \/ far_closed(c)

RunJob(r) ==
    on_inbound_conn(r) \/ on_outbound_conn(r) \/ on_dead_conn(r) \/ on_conn_closed(r) \/ on_attempt_failed(r)

Next ==
    \/ \E r, p \in Relay : ctrl_stream_impl(r, p)
    \/ \E c \in Conn : Network(c)
    \/ \E r \in Relay : RunJob(r) \/ restart(r)
    \/ \E r \in Relay : \E P \in SUBSET relay_bidir[r] : close_redundant(r, P)
    \/ \E r \in Relay, U \in SUBSET Unstable : \E D \in SUBSET pending_dead[r] : check_deregged_conns(r, D, U)

Spec == Init /\ [][Next]_vars

(***************************************************************************)
(* The router loop runs its jobs, its timers fire after any linger time,   *)
(* and every handshake ends, if only by its timeout.                       *)
(***************************************************************************)
Fairness ==
    /\ \A r \in Relay : WF_vars(RunJob(r)) /\ WF_vars(close_redundant(r, relay_bidir[r]))
    /\ \A c \in Conn : WF_vars(near_established(c) \/ (link[c].near \in {"connecting", "aborting"} /\ near_closed(c)))

FairSpec == Spec /\ Fairness

-----------------------------------------------------------------------------
(***************************************************************************)
(* What the assertions of endpoint.cpp take for granted: an entry prefers  *)
(* the winning connection, or the only one it has, and is scheduled for    *)
(* close_redundant exactly while it has both.                              *)
(***************************************************************************)
PreferredAndScheduled ==
    \A r, p \in Relay :
        LET e == relay_conns[r][p]
            both == e.inbound # None /\ e.outbound # None
        IN /\ p \in relay_bidir[r] <=> both
           /\ e.conn = IF e.inbound # None /\ (e.outbound = None \/ inbound_wins(r, p)) THEN e.inbound ELSE e.outbound

(***************************************************************************)
(* Two relays that have the same two connections prefer the same one.      *)
(***************************************************************************)
SameWinner ==
    \A r, p \in Relay :
        LET e == relay_conns[r][p]
            f == relay_conns[p][r]
        IN e.inbound # None /\ e.outbound # None /\ e.inbound = f.outbound /\ e.outbound = f.inbound
           => e.conn = f.conn

(***************************************************************************)
(* A relay that we have a connection with is not noted as unreachable, so  *)
(* that losing the connection later starts a new grace period.             *)
(***************************************************************************)
UnreachableIsUnconnected ==
    \A r, p \in Relay : p \in unreachable_since[r] => relay_conns[r][p] = NoEntry

(***************************************************************************)
(* Redundant connections do not stay: again and again there is just one.   *)
(***************************************************************************)
RedundancyEnds ==
    \A r \in Relay : \A p \in Relay \ {r} : []<>(relay_conns[r][p].inbound = None \/ relay_conns[r][p].outbound = None)

(***************************************************************************)
(* "Stores established relay-to-relay connections": an outbound connection *)
(* in relay_conns was established, as the comment at its declaration says. *)
(***************************************************************************)
RelayConnsEstablished ==
    \A r, p \in Relay :
        LET c == relay_conns[r][p].outbound
        IN c # None => /\ link[c].near \notin {"connecting", "aborting"}
                       /\ \A i \in DOMAIN jobs[r] : jobs[r][i].conn = c => jobs[r][i].what # "failed"

=============================================================================
