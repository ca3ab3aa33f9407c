----------------------------- MODULE Lifecycle -----------------------------
(***************************************************************************)
(* Starting and stopping the daemon: main and its watchdog thread          *)
(* (daemon/session_router.cpp), the Context they share (context.cpp), the  *)
(* loop on which Router::stop does its work (router/router.cpp), signals   *)
(* and the Halt request of the RPC server.                                 *)
(*                                                                         *)
(* The model begins when the Router's constructor has configured and       *)
(* started it.  Router::stop is called from three places that race: the    *)
(* signal handler and ~Context on main's thread, and Halt's job on the     *)
(* loop.                                                                   *)
(***************************************************************************)
EXTENDS Naturals, Sequences

CONSTANTS LcAlive,     \* ticks of the watchdog's clock until looks_alive() is false
          LcMaxHalts   \* Halt requests

VARIABLES lcRelay,      \* is_service_node
          lcMain,       \* where main is
          lcRunning,    \* Context::running
          lcFuture,     \* Context::lifetime_waiter can still be waited for
          lcCallers,    \* callers of Router::stop and how far each is
          lcIsRunning,  \* Router::_is_running
          lcStopping,   \* Router::_is_stopping
          lcJobs,       \* jobs queued on the loop
          lcBusy,       \* the loop is inside the stop job
          lcTimers,     \* the repeating timers, and the delayed start of the gossip timer
          lcParts,      \* the components that exist
          lcPromise,    \* set_value calls on _close_promise
          lcQuiet,      \* time since the last tick
          lcHalts,      \* Halt requests so far
          lcTouched     \* components the last loop job used after they were gone

lcvars == <<lcRelay, lcMain, lcRunning, lcFuture, lcCallers, lcIsRunning, lcStopping, lcJobs, lcBusy,
            lcTimers, lcParts, lcPromise, lcQuiet, lcHalts, lcTouched>>

LcCallers == {"signal", "halt", "destructor"}
LcAllParts(relay) == {"link", "sessions", "nodedb", "tun", "omq"} \cup (IF relay THEN {} ELSE {"dns"})

\* start() and start_timers(): all timers run, and a relay has scheduled its first regenerate_rc
LcInit ==
  /\ lcRelay \in BOOLEAN
  /\ lcMain = "wait" /\ lcRunning = TRUE /\ lcFuture = TRUE
  /\ lcCallers = [c \in LcCallers |-> "out"]
  /\ lcIsRunning = TRUE /\ lcStopping = FALSE
  /\ lcJobs = <<>> /\ lcBusy = FALSE
  /\ lcTimers = {"tick", "stats"} \cup (IF lcRelay THEN {"regen_later"} ELSE {})
  /\ lcParts = LcAllParts(lcRelay)
  /\ lcPromise = 0 /\ lcQuiet = 0 /\ lcHalts = 0 /\ lcTouched = {}

LcUp == lcMain \notin {"exited", "terminated", "aborted"}
LcIdle == LcUp /\ ~lcBusy /\ "deleted" \notin lcParts

-----------------------------------------------------------------------------
(* Router::stop, one step per test: the caller is on another thread than   *)
(* other callers.                                                          *)

LcReturn(c) == lcCallers' = [lcCallers EXCEPT ![c] = "out"]

\* JobQueue::call: a job of the loop itself is run at once, another thread's is queued
LcCallJob(c) == lcJobs' = IF c = "halt" THEN <<"stop">> \o lcJobs ELSE Append(lcJobs, "stop")
LcExchange(c) ==
  /\ lcStopping' = TRUE
  /\ IF lcStopping THEN UNCHANGED lcJobs ELSE LcCallJob(c)

router_stop(c) ==
  /\ LcUp
  /\ \/ /\ lcCallers[c] = "is_running"
        /\ lcCallers' = [lcCallers EXCEPT ![c] = IF lcIsRunning THEN "is_stopping" ELSE "out"]
        /\ UNCHANGED <<lcStopping, lcJobs>>
     \/ /\ lcCallers[c] = "is_stopping"
        /\ lcCallers' = [lcCallers EXCEPT ![c] = IF lcStopping THEN "out" ELSE "exchange"]
        /\ UNCHANGED <<lcStopping, lcJobs>>
     \/ lcCallers[c] = "exchange" /\ LcExchange(c) /\ LcReturn(c)
  /\ UNCHANGED <<lcRelay, lcMain, lcRunning, lcFuture, lcIsRunning, lcBusy, lcTimers, lcParts, lcPromise,
                 lcQuiet, lcHalts, lcTouched>>

LcCall(c) == lcCallers' = [lcCallers EXCEPT ![c] = "is_running"]

\* handle_signal and Context::stop, while the process has a context
signal ==
  /\ lcMain \in {"wait", "join"} /\ lcCallers["signal"] = "out" /\ lcRunning
  /\ lcRunning' = FALSE
  /\ LcCall("signal")
  /\ UNCHANGED <<lcRelay, lcMain, lcFuture, lcIsRunning, lcStopping, lcJobs, lcBusy, lcTimers, lcParts,
                 lcPromise, lcQuiet, lcHalts, lcTouched>>

\* RPCServer::invoke(Halt): queues a job that calls Router::stop; Context::running keeps its value
Halt ==
  /\ LcUp /\ "omq" \in lcParts /\ lcIsRunning /\ lcHalts < LcMaxHalts
  /\ lcHalts' = lcHalts + 1
  /\ lcJobs' = Append(lcJobs, "halt")
  /\ UNCHANGED <<lcRelay, lcMain, lcRunning, lcFuture, lcCallers, lcIsRunning, lcStopping, lcBusy,
                 lcTimers, lcParts, lcPromise, lcQuiet, lcTouched>>

-----------------------------------------------------------------------------
(* The loop. *)

LcRun(job) == LcIdle /\ lcJobs # <<>> /\ Head(lcJobs) = job /\ lcJobs' = Tail(lcJobs)

\* Halt's job: the call to stop() is on the loop, which does nothing else until it returns
LcHaltJob ==
  /\ lcCallers["halt"] = "out"
  /\ LcRun("halt")
  /\ LcCall("halt")
  /\ UNCHANGED <<lcRelay, lcMain, lcRunning, lcFuture, lcIsRunning, lcStopping, lcBusy, lcTimers, lcParts,
                 lcPromise, lcQuiet, lcHalts, lcTouched>>

LcFree == LcIdle /\ lcCallers["halt"] = "out"

\* the stop job up to the wait for the disk loop: sessions and links closed, DNS gone, timers removed
LcStopBegin ==
  /\ LcFree /\ LcRun("stop")
  /\ lcBusy' = TRUE
  /\ lcTimers' = lcTimers \ {"tick", "stats", "gossip"}
  /\ lcParts' = lcParts \ {"dns"}
  /\ UNCHANGED <<lcRelay, lcMain, lcRunning, lcFuture, lcCallers, lcIsRunning, lcStopping, lcPromise,
                 lcQuiet, lcHalts, lcTouched>>

\* ... and after it: link manager, TUN and OxenMQ gone, the promise fulfilled
LcStopEnd ==
  /\ LcUp /\ lcBusy /\ lcBusy' = FALSE
  /\ lcParts' = lcParts \ {"link", "tun", "omq"}
  /\ lcIsRunning' = FALSE
  /\ lcPromise' = lcPromise + 1
  /\ UNCHANGED <<lcRelay, lcMain, lcRunning, lcFuture, lcCallers, lcStopping, lcJobs, lcTimers, lcQuiet,
                 lcHalts, lcTouched>>

\* Router::tick: does nothing once stopping
router_tick ==
  /\ LcFree /\ "tick" \in lcTimers /\ ~lcStopping
  /\ lcQuiet' = 0
  /\ lcTouched' = {"link", "nodedb", "sessions"} \ lcParts
  /\ UNCHANGED <<lcRelay, lcMain, lcRunning, lcFuture, lcCallers, lcIsRunning, lcStopping, lcJobs, lcBusy,
                 lcTimers, lcParts, lcPromise, lcHalts>>

\* regenerate_rc, first from the delayed job that also starts its timer, then from the timer
regenerate_rc ==
  /\ LcFree /\ lcTimers \cap {"regen_later", "gossip"} # {}
  /\ lcTimers' = (lcTimers \ {"regen_later"}) \cup {"gossip"}
  /\ lcTouched' = {"link", "nodedb"} \ lcParts
  /\ UNCHANGED <<lcRelay, lcMain, lcRunning, lcFuture, lcCallers, lcIsRunning, lcStopping, lcJobs, lcBusy,
                 lcParts, lcPromise, lcQuiet, lcHalts>>

-----------------------------------------------------------------------------
(* main and the watchdog. *)

LcMainTo(pc) == lcMain' = pc

LcWait ==
  /\ lcMain = "wait" /\ lcPromise > 0
  /\ LcMainTo("join") /\ lcFuture' = FALSE
  /\ UNCHANGED <<lcRelay, lcRunning, lcCallers, lcIsRunning, lcStopping, lcJobs, lcBusy, lcTimers, lcParts,
                 lcPromise, lcQuiet, lcHalts, lcTouched>>

\* ctx.reset(): a context that still is running is stopped and waited for
LcMustStop_always == TRUE
LcMustStop == lcRunning

LcDestroy ==
  /\ lcMain = "join"
  /\ lcCallers["signal"] = "out"      \* the handler runs on this thread
  /\ lcRunning' = FALSE
  /\ IF LcMustStop THEN LcMainTo("dtor_wait") /\ LcCall("destructor")
                   ELSE LcMainTo("delete") /\ UNCHANGED lcCallers
  /\ UNCHANGED <<lcRelay, lcFuture, lcIsRunning, lcStopping, lcJobs, lcBusy, lcTimers, lcParts, lcPromise,
                 lcQuiet, lcHalts, lcTouched>>

\* wait() on a future that was already read throws, and a destructor may not
LcDestructorWait ==
  /\ lcMain = "dtor_wait" /\ lcCallers["destructor"] = "out"
  /\ IF lcFuture THEN lcPromise > 0 /\ LcMainTo("delete") ELSE LcMainTo("terminated")
  /\ UNCHANGED <<lcRelay, lcRunning, lcFuture, lcCallers, lcIsRunning, lcStopping, lcJobs, lcBusy, lcTimers,
                 lcParts, lcPromise, lcQuiet, lcHalts, lcTouched>>

\* the Router is deleted on the loop, which first drops every job and timer
LcDelete ==
  /\ lcMain = "delete" /\ LcFree
  /\ LcMainTo("exited")
  /\ lcJobs' = <<>> /\ lcTimers' = {} /\ lcParts' = {"deleted"}
  /\ UNCHANGED <<lcRelay, lcRunning, lcFuture, lcCallers, lcIsRunning, lcStopping, lcBusy, lcPromise,
                 lcQuiet, lcHalts, lcTouched>>

\* time passes without a tick only while the loop is stopping the router
LcTime ==
  /\ LcUp /\ lcStopping /\ lcQuiet < LcAlive + 1
  /\ lcQuiet' = lcQuiet + 1
  /\ UNCHANGED <<lcRelay, lcMain, lcRunning, lcFuture, lcCallers, lcIsRunning, lcStopping, lcJobs, lcBusy,
                 lcTimers, lcParts, lcPromise, lcHalts, lcTouched>>

\* the watchdog aborts a process that is running but does not look alive
LcWatchdog ==
  /\ lcMain = "wait" /\ lcRunning /\ lcQuiet > LcAlive
  /\ LcMainTo("aborted")
  /\ UNCHANGED <<lcRelay, lcRunning, lcFuture, lcCallers, lcIsRunning, lcStopping, lcJobs, lcBusy, lcTimers,
                 lcParts, lcPromise, lcQuiet, lcHalts, lcTouched>>

LcNext ==
  \/ signal \/ Halt \/ LcHaltJob \/ LcStopBegin \/ LcStopEnd \/ router_tick \/ regenerate_rc
  \/ LcWait \/ LcDestroy \/ LcDestructorWait \/ LcDelete \/ LcTime \/ LcWatchdog
  \/ \E c \in LcCallers : router_stop(c)

-----------------------------------------------------------------------------
Lifecycle_TypeOK ==
  /\ lcMain \in {"wait", "join", "dtor_wait", "delete", "exited", "terminated", "aborted"}
  /\ lcCallers \in [LcCallers -> {"out", "is_running", "is_stopping", "exchange"}]
  /\ lcPromise \in 0..2 /\ lcQuiet \in 0..(LcAlive + 1) /\ lcHalts \in 0..LcMaxHalts
  /\ lcTimers \subseteq {"tick", "stats", "regen_later", "gossip"}
  /\ \A i \in 1..Len(lcJobs) : lcJobs[i] \in {"stop", "halt"}

\* A signal that Context::stop acted on ends the process in order: main returns, whatever Halt
\* requests came before or after it.
SignalEnds == (~lcRunning /\ lcMain \in {"wait", "join"}) ~> (lcMain = "exited")

\* However the router was told to stop, main returns: ~Context waits only if nothing else stopped it
\* ("if stop() has not been called yet, we wait on the future.  If something else calls stop, it is
\* expected to wait on the future").
CleanExit == lcMain # "terminated"

\* No job of the loop uses a component after Router::stop has destroyed it ("Stopping the queues has
\* to happen here, before any member is destroyed").
JobsUseAlive == lcTouched = {}
=============================================================================
