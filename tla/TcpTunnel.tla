----------------------------- MODULE TcpTunnel -----------------------------
(***************************************************************************)
(* One end of a TCP tunnel: session/tcp_tunnel.cpp, which carries TCP      *)
(* connections as streams of a QUIC connection nested in a session, and    *)
(* the pairing of one socket with one stream in ev/tcp.cpp (half-closes,   *)
(* backpressure and the deferred destruction of a finished pair).          *)
(*                                                                         *)
(* Everything runs on the event loop, so each callback is one step; what   *)
(* the code defers with call_soon or call_later is a step of its own.      *)
(* Stream data is counted in units; a paused stream still delivers what    *)
(* the far end may send before the window is extended (TtWindow units).    *)
(* The QUIC library, libevent and the socket are external: their events    *)
(* come in any order the code's use of them allows.                        *)
(***************************************************************************)
EXTENDS Naturals, FiniteSets

CONSTANTS
    TtMaxIds,       \* bound: connections adopted (_next_conn_id)
    TtUnits,        \* bound: units the far end sends on one stream
    TtAlarm,        \* SOCKET_ALARM_WATER, in units
    TtClear,        \* SOCKET_CLEAR_WATER, in units
    TtWindow,       \* units that can still arrive on a paused stream
    TtIdle,         \* INNER_IDLE_TEARDOWN
    TtMaxTime       \* bound: the clock

ASSUME TcpTunnelAssumption ==
    /\ {TtMaxIds, TtUnits, TtAlarm, TtClear, TtWindow, TtMaxTime} \subseteq Nat
    /\ TtIdle \in Nat \ {0} /\ TtClear < TtAlarm

VARIABLES
    ttOpen,         \* _conn is set: the inner QUIC connection
    ttConns,        \* _conns: id -> the TCPConnection
    ttNext,         \* _next_conn_id
    ttDrops,        \* ids whose deferred drop() is queued
    ttPending,      \* an accepted stream waiting for its deferred connect
    ttScheduled,    \* _idle_teardown_scheduled
    ttTimer,        \* when the teardown timer fires, if scheduled
    ttIdleSince,    \* _idle_since
    ttNow

ttvars == <<ttOpen, ttConns, ttNext, ttDrops, ttPending, ttScheduled, ttTimer, ttIdleSince, ttNow>>
ttTimes == <<ttScheduled, ttTimer, ttIdleSince, ttNow>>

TtNoStream == [waiting |-> FALSE, buffered |-> 0, left |-> 0, dead |-> FALSE]

TtInit ==
    /\ ttOpen = FALSE
    /\ ttConns = [i \in {} |-> 0]
    /\ ttNext = 0
    /\ ttDrops = {}
    /\ ttPending = TtNoStream
    /\ ttScheduled = FALSE /\ ttTimer = 0 /\ ttIdleSince = 0 /\ ttNow = 0

-----------------------------------------------------------------------------
(* One TCPConnection: `out` is what waits in the bufferevent for the       *)
(* application, `left` what the far end has yet to send, `window` what can *)
(* still arrive while paused; `dead` marks a stream whose connection was   *)
(* closed before the pairing existed.                                      *)

TtPair(mapped, out, left, dead) ==
    [mapped |-> mapped, connected |-> mapped, paused |-> ~mapped, finished |-> FALSE,
     finSent |-> FALSE, finReceived |-> FALSE, writeShutdown |-> FALSE,
     out |-> out, left |-> left, window |-> TtWindow, dead |-> dead]

(* Every way to finish() tells the owner at most once, through on_done. *)
finish(p) == [p EXCEPT !.finished = TRUE]

flush_and_shutdown_write_now(p) ==
    IF p.writeShutdown THEN p
    ELSE LET q == [p EXCEPT !.writeShutdown = TRUE] IN IF q.finSent THEN finish(q) ELSE q

flush_and_shutdown_write(p) ==
    IF p.writeShutdown \/ p.out > 0 THEN p
    ELSE LET q == [p EXCEPT !.writeShutdown = TRUE] IN IF q.finSent THEN finish(q) ELSE q

on_stream_fin(p) == flush_and_shutdown_write([p EXCEPT !.finReceived = TRUE])

on_tcp_eof(p) ==
    IF p.finSent THEN p
    ELSE LET q == [p EXCEPT !.finSent = TRUE] IN IF q.writeShutdown THEN finish(q) ELSE q

TtResume(p) == [p EXCEPT !.paused = FALSE, !.window = TtWindow]

on_write_available_fin(p) == IF p.finReceived THEN flush_and_shutdown_write(p) ELSE p

on_write_available(p) ==
    LET q == IF p.paused THEN TtResume(p) ELSE p
    IN  IF q.finReceived THEN flush_and_shutdown_write(q) ELSE q

(* The data callback: into the bufferevent, pausing a stream whose         *)
(* application is behind.                                                  *)
TtReceived(p) ==
    LET q == [p EXCEPT !.out = @ + 1, !.left = @ - 1]
    IN  IF q.paused THEN [q EXCEPT !.window = @ - 1]
        ELSE IF q.out >= TtAlarm THEN [q EXCEPT !.paused = TRUE] ELSE q

(* A pair's step; one that finishes it queues drop(), once. *)
TtStep(i, p) ==
    /\ ttConns' = [ttConns EXCEPT ![i] = p]
    /\ ttDrops' = IF p.finished /\ ~ttConns[i].finished THEN ttDrops \cup {i} ELSE ttDrops
    /\ UNCHANGED <<ttOpen, ttNext, ttPending, ttTimes>>

TtStreamData(i) ==
    LET p == ttConns[i]
    IN  /\ ~p.dead /\ ~p.finished /\ p.left > 0
        /\ p.paused => p.window > 0
        /\ TtStep(i, TtReceived(p))

TtStreamFin(i) ==
    /\ ~ttConns[i].dead /\ ~ttConns[i].finished
    /\ ttConns[i].left = 0 /\ ~ttConns[i].finReceived
    /\ TtStep(i, on_stream_fin(ttConns[i]))

(* The socket takes a unit; libevent reports it once at or below the low   *)
(* watermark (tcp_write_cb).                                               *)
TtDrain(i) ==
    LET p == [ttConns[i] EXCEPT !.out = @ - 1]
    IN  /\ ttConns[i].connected /\ ttConns[i].out > 0
        /\ TtStep(i, IF p.out <= TtClear THEN on_write_available(p) ELSE p)

(* BEV_EVENT_CONNECTED, BEV_EVENT_EOF and BEV_EVENT_ERROR (tcp_event_cb). *)
TtConnected(i) ==
    /\ ~ttConns[i].connected /\ ~ttConns[i].finished
    /\ TtStep(i, TtResume([ttConns[i] EXCEPT !.connected = TRUE]))

TtEof(i) ==
    /\ ttConns[i].connected /\ ~ttConns[i].finSent
    /\ TtStep(i, on_tcp_eof(ttConns[i]))

(* close(ec), on an error of the socket or of a write to it, or the        *)
(* stream's close callback: either way the pair finishes.                  *)
TtFails(i) ==
    /\ ~ttConns[i].finished
    /\ TtStep(i, finish(ttConns[i]))

-----------------------------------------------------------------------------
(* The tunnel. *)

adopt(p) ==
    /\ ttNext' = ttNext + 1
    /\ ttConns' = [i \in DOMAIN ttConns \cup {ttNext} |-> IF i = ttNext THEN p ELSE ttConns[i]]

TtRoom == ttNext + (IF ttPending.waiting THEN 1 ELSE 0) < TtMaxIds

(* A local connection on a mapped port: open_connection() if there is no   *)
(* inner connection, then a stream, if one can be opened.                  *)
connect_stream(left) ==
    /\ TtRoom
    /\ ttOpen' = TRUE
    /\ \/ adopt(TtPair(TRUE, 0, left, FALSE))
       \/ UNCHANGED <<ttConns, ttNext>>
    /\ UNCHANGED <<ttDrops, ttPending, ttTimes>>

(* The far end opens a stream; its port preamble queues the connect. *)
on_stream_opened(left) ==
    /\ ~ttPending.waiting /\ TtRoom
    /\ ttOpen' = TRUE
    /\ ttPending' = [waiting |-> TRUE, buffered |-> 0, left |-> left, dead |-> FALSE]
    /\ UNCHANGED <<ttConns, ttNext, ttDrops, ttTimes>>

TtPendingData ==
    /\ ttPending.waiting /\ ~ttPending.dead
    /\ ttPending.left > 0 /\ ttPending.buffered < TtWindow
    /\ ttPending' = [ttPending EXCEPT !.buffered = @ + 1, !.left = @ - 1]
    /\ UNCHANGED <<ttOpen, ttConns, ttNext, ttDrops, ttTimes>>

(* Refused (port 0, no tun address), impossible to connect, or paired with *)
(* a connecting socket that gets what had arrived first.                   *)
start_accepted_stream ==
    /\ ttPending.waiting
    /\ ttPending' = TtNoStream
    /\ \/ UNCHANGED <<ttConns, ttNext>>
       \/ adopt([TtPair(FALSE, ttPending.buffered, ttPending.left, ttPending.dead)
                    EXCEPT !.window = TtWindow - ttPending.buffered])
    /\ UNCHANGED <<ttOpen, ttDrops, ttTimes>>

(* The last claim on a mapping went: every mapped pair is closed. *)
close_connections_for ==
    LET hit == {i \in DOMAIN ttConns : ttConns[i].mapped /\ ~ttConns[i].finished}
    IN  /\ hit # {}
        /\ ttConns' = [i \in DOMAIN ttConns |-> IF i \in hit THEN finish(ttConns[i]) ELSE ttConns[i]]
        /\ ttDrops' = ttDrops \cup hit
        /\ UNCHANGED <<ttOpen, ttNext, ttPending, ttTimes>>

schedule_idle_teardown(since) ==
    /\ ttScheduled' = TRUE
    /\ ttTimer' = IF ttScheduled THEN ttTimer ELSE since + TtIdle

(* The deferred half of drop().  The pair may be gone already (reset). *)
drop(i) ==
    /\ i \in ttDrops
    /\ ttDrops' = ttDrops \ {i}
    /\ ttConns' = [j \in DOMAIN ttConns \ {i} |-> ttConns[j]]
    /\ IF DOMAIN ttConns \ {i} = {}
       THEN ttIdleSince' = ttNow /\ schedule_idle_teardown(ttNow)
       ELSE UNCHANGED <<ttIdleSince, ttScheduled, ttTimer>>
    /\ UNCHANGED <<ttOpen, ttNext, ttPending, ttNow>>
TtIdleLongEnough == ttNow >= ttIdleSince + TtIdle

TtTeardown ==
    /\ ttScheduled /\ ttNow >= ttTimer
    /\ IF DOMAIN ttConns # {}
       THEN ttScheduled' = FALSE /\ ttTimer' = 0 /\ UNCHANGED ttOpen
       ELSE IF TtIdleLongEnough
       THEN ttScheduled' = FALSE /\ ttTimer' = 0 /\ ttOpen' = FALSE
       ELSE ttScheduled' = TRUE /\ ttTimer' = ttIdleSince + TtIdle /\ UNCHANGED ttOpen
    /\ UNCHANGED <<ttConns, ttNext, ttDrops, ttPending, ttIdleSince, ttNow>>

(* The inner connection closed, by the far end or by its idle timeout:     *)
(* reset().  A pair that is destroyed unfinished closes its stream itself; *)
(* a queued connect still runs, with a stream that no longer exists.       *)
TtClosed ==
    /\ ttOpen
    /\ ttOpen' = FALSE
    /\ ttConns' = [i \in {} |-> 0]
    /\ ttPending' = IF ttPending.waiting THEN [ttPending EXCEPT !.dead = TRUE] ELSE ttPending
    /\ UNCHANGED <<ttNext, ttDrops, ttTimes>>

TtTime ==
    /\ ttNow < TtMaxTime
    /\ ttScheduled => ttNow < ttTimer
    /\ ttNow' = ttNow + 1
    /\ UNCHANGED <<ttOpen, ttConns, ttNext, ttDrops, ttPending, ttScheduled, ttTimer, ttIdleSince>>

TtNext ==
    \/ \E i \in DOMAIN ttConns :
          \/ TtStreamData(i) \/ TtStreamFin(i) \/ TtDrain(i)
          \/ TtConnected(i) \/ TtEof(i) \/ TtFails(i)
    \/ \E left \in 0 .. TtUnits : connect_stream(left) \/ on_stream_opened(left)
    \/ TtPendingData
    \/ start_accepted_stream
    \/ close_connections_for
    \/ \E i \in ttDrops : drop(i)
    \/ TtTeardown
    \/ TtClosed
    \/ TtTime

-----------------------------------------------------------------------------

(* The variables stay within their ranges. *)
TcpTunnel_TypeOK ==
    /\ ttOpen \in BOOLEAN /\ ttScheduled \in BOOLEAN
    /\ DOMAIN ttConns \subseteq 0 .. TtMaxIds - 1
    /\ \A i \in DOMAIN ttConns : ttConns[i].out + ttConns[i].left <= TtUnits
    /\ ttNext \in 0 .. TtMaxIds
    /\ ttDrops \subseteq 0 .. TtMaxIds - 1
    /\ ttPending.buffered + ttPending.left <= TtUnits
    /\ ttTimer \in 0 .. TtMaxTime + TtIdle
    /\ ttIdleSince \in 0 .. TtMaxTime /\ ttNow \in 0 .. TtMaxTime

(* A half-close never truncates: the write side of the socket is shut down *)
(* only when the far end has sent everything and the application's socket  *)
(* has taken it all, whatever order the FIN, the data and the drains come  *)
(* in (flush_and_shutdown_write); and a pair that finishes cleanly is      *)
(* dropped exactly because of that, so a finished pair has a queued drop.  *)
NothingTruncated ==
    \A i \in DOMAIN ttConns :
        /\ ttConns[i].writeShutdown => ttConns[i].out = 0 /\ ttConns[i].left = 0
        /\ ttConns[i].finished => i \in ttDrops

(* Backpressure never wedges a connection: a pair whose stream exists ends *)
(* in the end, because a paused stream is resumed once the application has *)
(* read, and a half-close deferred behind queued data is then carried out. *)
PairsEnd ==
    \A i \in 0 .. TtMaxIds - 1 :
        []<>(i \in DOMAIN ttConns => ttConns[i].dead)

=============================================================================
