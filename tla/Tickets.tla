------------------------------ MODULE Tickets -------------------------------
(***************************************************************************)
(* The 0-RTT session tickets of a relay (nodedb.cpp): stored and used on   *)
(* the router's thread, saved to disk by a job of the disk loop, flushed   *)
(* by cleanup() when the router stops, loaded again at the next start.     *)
(* Saving takes a copy under the lock and writes it after releasing it.    *)
(* A ticket is the number of its arrival, so the front of the relay's list *)
(* is the least ticket of a set.  Tickets expire at any time, in any       *)
(* order.  The writing of a file does not fail.                            *)
(***************************************************************************)
EXTENDS Naturals, FiniteSetsExt

CONSTANTS
    ZtMax,      \* MAX_0RTT_TICKETS
    ZtMaxIds,   \* bound: tickets received
    ZtMaxStarts \* bound: starts of the process

ASSUME TicketsAssumption == ZtMax \in Nat \ {0} /\ ZtMaxIds \in Nat /\ ZtMaxStarts \in Nat

VARIABLES
    ztMem,     \* _0rtt_tickets of the relay
    ztDirty,   \* it is in _0rtt_dirty
    ztWoken,   \* the saver has been woken
    ztFile,    \* the tickets in its file
    ztExpired, \* the tickets whose expiry has passed
    ztJob,     \* what each thread's _0rtt_save is to write after it released the lock
    ztPhase,   \* "running", "flushing" (cleanup), "removing" (the saver), "stopped"
    ztIds,     \* tickets received
    ztUses,    \* how often each ticket was used
    ztStarts

ztvars == <<ztMem, ztDirty, ztWoken, ztFile, ztExpired, ztJob, ztPhase, ztIds, ztUses, ztStarts>>

ZtIdle == [state |-> "idle", tickets |-> {}]    \* no save under way
ZtClean == [state |-> "clean", tickets |-> {}]  \* a save that found nothing dirty
ZtCopy(S) == [state |-> "copy", tickets |-> S]
ZtThread == {"disk", "main"}

ZtInit ==
    /\ ztMem = {} /\ ztDirty = FALSE /\ ztFile = {} /\ ztExpired = {}
    /\ ztWoken = TRUE  \* start() wakes the saver
    /\ ztJob = [th \in ZtThread |-> ZtIdle] /\ ztPhase = "running"
    /\ ztIds = 0 /\ ztUses = [i \in 1..ZtMaxIds |-> 0] /\ ztStarts = 1

\* Mutant: only the first change of a running save is seen to.
ZtChanged_once ==
    /\ ztPhase \in {"running", "stopped"}
    /\ ztDirty' = TRUE /\ ztWoken' = (ztPhase = "running" /\ ztJob["disk"] = ZtIdle)

\* The callbacks come from the quic endpoint, which outlives cleanup(): then no saver is
\* left to be woken.
ZtChanged ==
    /\ ztPhase \in {"running", "stopped"}
    /\ ztDirty' = TRUE /\ ztWoken' = (ztPhase = "running")

\* What is left when the expired tickets at the front are popped: one behind a ticket
\* that has not expired stays.
ZtPopExpired(S) == {i \in S : \E j \in S \ ztExpired : j <= i}

\* store_0rtt: at most ZtMax tickets, the oldest go.
store_0rtt ==
    /\ ZtChanged /\ ztIds < ZtMaxIds /\ ztIds' = ztIds + 1
    /\ LET all == ztMem \cup {ztIds + 1}
       IN ztMem' = {i \in all : Cardinality({j \in all : j >= i}) <= ZtMax}
    /\ UNCHANGED <<ztFile, ztExpired, ztJob, ztPhase, ztUses, ztStarts>>

\* extract_0rtt: of a relay with an entry (an empty one stays until it is saved) the oldest
\* ticket is used, after those that expired, for a connection that is being made; a router
\* that stops makes none.
extract_0rtt ==
    /\ ztPhase = "running" /\ ZtChanged /\ (ztMem # {} \/ ztDirty)
    /\ LET left == ZtPopExpired(ztMem) IN
       IF left = {} THEN ztMem' = {} /\ UNCHANGED ztUses
       ELSE /\ ztMem' = left \ {Min(left)}
            /\ ztUses' = [ztUses EXCEPT ![Min(left)] = @ + 1]
    /\ UNCHANGED <<ztFile, ztExpired, ztJob, ztPhase, ztIds, ztStarts>>

\* The clock passes the expiry of a ticket.
ZtExpire(i) ==
    /\ i <= ztIds /\ ztExpired' = ztExpired \cup {i}
    /\ UNCHANGED <<ztMem, ztDirty, ztWoken, ztFile, ztJob, ztPhase, ztIds, ztUses, ztStarts>>

\* _0rtt_save, under the lock: a copy of what is dirty, without the expired tickets at its
\* front, which leave the memory too.
ZtSaveCopy(th) ==
    /\ ztJob[th] = ZtIdle
    /\ ztMem' = IF ztDirty THEN ZtPopExpired(ztMem) ELSE ztMem
    /\ ztJob' = [ztJob EXCEPT ![th] = IF ztDirty THEN ZtCopy(ztMem') ELSE ZtClean]
    /\ ztDirty' = FALSE

\* The disk loop runs the job it was woken for.
_0rtt_save ==
    /\ ztPhase \in {"running", "flushing"} /\ ztWoken /\ ztWoken' = FALSE
    /\ ZtSaveCopy("disk")
    /\ UNCHANGED <<ztFile, ztExpired, ztPhase, ztIds, ztUses, ztStarts>>

\* The copy is written; an empty one removes the file.
ZtWrite(th) ==
    /\ ztJob[th] # ZtIdle
    /\ ztFile' = IF ztJob[th].state = "copy" THEN ztJob[th].tickets ELSE ztFile
    /\ ztJob' = [ztJob EXCEPT ![th] = ZtIdle]
    /\ ztPhase' = IF th = "main" THEN "removing" ELSE ztPhase
    /\ UNCHANGED <<ztMem, ztDirty, ztWoken, ztExpired, ztIds, ztUses, ztStarts>>

\* cleanup: a save on the router's thread, then the saver is removed, which cancels a
\* wake that has not run and waits for a job that is running.
cleanup_flush ==
    /\ ztPhase = "running" /\ ztPhase' = "flushing"
    /\ ZtSaveCopy("main")
    /\ UNCHANGED <<ztWoken, ztFile, ztExpired, ztIds, ztUses, ztStarts>>
cleanup_remove ==
    /\ ztPhase = "removing" /\ ztJob["disk"] = ZtIdle
    /\ ztPhase' = "stopped" /\ ztWoken' = FALSE
    /\ UNCHANGED <<ztMem, ztDirty, ztFile, ztExpired, ztJob, ztIds, ztUses, ztStarts>>

\* The next start loads what has not expired of the file (load_from_disk), removes a file
\* in which everything has, and wakes the saver.
ZtStart ==
    /\ ztPhase = "stopped" /\ ztStarts < ZtMaxStarts /\ ztStarts' = ztStarts + 1
    /\ ztMem' = ztFile \ ztExpired
    /\ ztFile' = IF ztMem' = {} THEN {} ELSE ztFile
    /\ ztDirty' = FALSE /\ ztWoken' = TRUE /\ ztPhase' = "running"
    /\ UNCHANGED <<ztExpired, ztJob, ztIds, ztUses>>

ZtNext ==
    \/ store_0rtt \/ extract_0rtt \/ \E i \in 1..ZtMaxIds : ZtExpire(i)
    \/ _0rtt_save \/ cleanup_flush \/ cleanup_remove \/ ZtStart
    \/ \E th \in ZtThread : ZtWrite(th)

-----------------------------------------------------------------------------
\* The type of the state.
Tickets_TypeOK ==
    /\ ztMem \subseteq 1..ztIds /\ ztFile \subseteq 1..ztIds /\ ztExpired \subseteq 1..ztIds
    /\ Cardinality(ztMem) <= ZtMax /\ ztDirty \in BOOLEAN /\ ztWoken \in BOOLEAN
    /\ ztPhase \in {"running", "flushing", "removing", "stopped"}
    /\ ztUses \in [1..ZtMaxIds -> Nat]

(***************************************************************************)
(* While the router runs, tickets that are not in the file are always on   *)
(* their way to it (store_0rtt, extract_0rtt, _0rtt_save): when the saver  *)
(* is idle and not woken, the file and the memory hold the same tickets,   *)
(* those apart that have expired, which load_from_disk and extract_0rtt    *)
(* leave out.                                                              *)
(***************************************************************************)
SavedWhenIdle ==
    ztPhase = "running" /\ ~ztWoken /\ ztJob["disk"] = ZtIdle =>
        ztFile \ ztExpired = ztMem \ ztExpired

(***************************************************************************)
(* nodedb.hpp, extract_0rtt: a ticket that is returned "is removed from    *)
(* storage".  Over stops and starts in good order, no ticket is used       *)
(* twice.                                                                  *)
(***************************************************************************)
UsedAtMostOnce == \A i \in 1..ZtMaxIds : ztUses[i] <= 1
=============================================================================
