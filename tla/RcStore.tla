------------------------------ MODULE RcStore -------------------------------
(***************************************************************************)
(* The relay contacts (RCs) that a node holds (nodedb.cpp): in memory, as  *)
(* hashes per bucket that peers compare with theirs, and on disk, where    *)
(* the disk loop carries out writes and removals in order.  The XOR of a   *)
(* bucket's hashes is a set here: XOR adds a hash or takes it out again.   *)
(***************************************************************************)
EXTENDS Integers, Sequences, FiniteSets

CONSTANTS
    RcRid,       \* the relays of one bucket
    RcContent,   \* what an RC says, other than its time and signature
    RcMinAge,    \* MIN_GOSSIP_RC_AGE
    RcLifetime,  \* age at which an RC is expired
    RcMaxTime,   \* bound
    RcMaxQueue   \* bound: jobs of the disk loop

ASSUME RcStoreAssumption ==
    RcMinAge \in Nat \ {0} /\ RcLifetime \in Nat /\ RcMaxTime \in Nat /\ RcMaxQueue \in Nat

VARIABLES
    rcMem,     \* known_rcs
    rcHash,    \* rc_hashes: the content that was hashed for a relay
    rcBucket,  \* rc_bucket_hashes, as the set of the hashes in the XOR
    rcQueue,   \* the disk loop's jobs: the files to write, or to remove (RcNone)
    rcFile,    \* the files: an RC, RcNone, or one that a crash left torn
    rcKnown,   \* _registered_relays; empty before the first list of oxend
    rcNow

rcvars == <<rcMem, rcHash, rcBucket, rcQueue, rcFile, rcKnown, rcNow>>

RcNone == [c |-> "none", t |-> 0]
RcTorn == [c |-> "torn", t |-> 0]
RcRecord == [c : RcContent, t : 1..RcMaxTime]

\* The XOR of two bucket hashes.
RcXor(a, b) == (a \ b) \cup (b \ a)
RcHashOf(rid, rc) == IF rc = RcNone THEN {} ELSE {<<rid, rc.c>>}

RcInit ==
    /\ rcMem = [r \in RcRid |-> RcNone] /\ rcHash = rcMem /\ rcFile = rcMem
    /\ rcBucket = {} /\ rcQueue = << >> /\ rcNow = 1
    /\ rcKnown \in SUBSET RcRid

-----------------------------------------------------------------------------
\* update_rc_buckets: the recorded hash goes out, the new one comes in.
update_rc_buckets(rid, rc) ==
    /\ rcBucket' = RcXor(RcXor(rcBucket, RcHashOf(rid, rcHash[rid])), RcHashOf(rid, rc))
    /\ rcHash' = [rcHash EXCEPT ![rid] = rc]

\* put_rc: the change is more than a new time and signature.
RcSignificant(old, rc) == old = RcNone \/ old.c # rc.c

\* put_rc, of an RC that was gossiped (verify_store_gossip_rc, from registered relays
\* only), fetched, bootstrapped or is our own: a new one, or one that is newer by the
\* minimal age.
put_rc(rid, rc) ==
    LET old == rcMem[rid] IN
    /\ Len(rcQueue) < RcMaxQueue /\ rc.t <= rcNow
    /\ old = RcNone \/ rc.t >= old.t + RcMinAge
    /\ rcMem' = [rcMem EXCEPT ![rid] = rc]
    /\ IF RcSignificant(old, rc) THEN update_rc_buckets(rid, rc) ELSE UNCHANGED <<rcBucket, rcHash>>
    /\ rcQueue' = Append(rcQueue, [r \in {rid} |-> rc])
    /\ UNCHANGED <<rcFile, rcKnown, rcNow>>

RcExpired(rc) == rcNow >= rc.t + RcLifetime

\* Mutant: the removal is not queued behind the writes.
RcRemoval_now(gone) ==
    /\ rcFile' = [r \in RcRid |-> IF r \in gone THEN RcNone ELSE rcFile[r]]
    /\ rcQueue' = rcQueue

\* remove_many_from_disk_async.
RcRemoval(gone) ==
    /\ rcQueue' = Append(rcQueue, [r \in gone |-> RcNone])
    /\ rcFile' = rcFile

\* purge_rcs and remove_rcs_if: expired RCs go, and on a relay that has the list of
\* registered relays those of others.
purge_rcs_relay ==
    LET gone == {r \in RcRid : rcMem[r] # RcNone /\
                    (RcExpired(rcMem[r]) \/ (rcKnown # {} /\ r \notin rcKnown))}
    IN /\ gone # {} /\ Len(rcQueue) < RcMaxQueue
       /\ rcMem' = [r \in RcRid |-> IF r \in gone THEN RcNone ELSE rcMem[r]]
       /\ rcHash' = [r \in RcRid |-> IF r \in gone THEN RcNone ELSE rcHash[r]]
       /\ rcBucket' = RcXor(rcBucket, UNION {RcHashOf(r, rcHash[r]) : r \in gone})
       /\ RcRemoval(gone)
       /\ UNCHANGED <<rcKnown, rcNow>>

\* A new list of registered relays, from oxend (never empty).
set_registered_relays(list) ==
    /\ list # {} /\ list # rcKnown /\ rcKnown' = list
    /\ UNCHANGED <<rcMem, rcHash, rcBucket, rcQueue, rcFile, rcNow>>

\* The disk loop carries out the first job.
RcDisk ==
    /\ rcQueue # << >>
    /\ rcFile' = [r \in RcRid |-> IF r \in DOMAIN Head(rcQueue) THEN Head(rcQueue)[r] ELSE rcFile[r]]
    /\ rcQueue' = Tail(rcQueue)
    /\ UNCHANGED <<rcMem, rcHash, rcBucket, rcKnown, rcNow>>

\* A crash, which may leave a part of the first job done and a file of it torn, and the
\* next start: load_from_disk removes what it cannot read and what has expired, and
\* hashes the rest.
RcRestart(done, torn) ==
    LET left == [r \in RcRid |->
            IF rcQueue # << >> /\ r \in DOMAIN Head(rcQueue)
            THEN IF r \in torn /\ Head(rcQueue)[r] # RcNone THEN RcTorn
                 ELSE IF r \in done THEN Head(rcQueue)[r] ELSE rcFile[r]
            ELSE rcFile[r]]
        loaded == [r \in RcRid |-> IF left[r] \in {RcNone, RcTorn} \/ RcExpired(left[r]) THEN RcNone ELSE left[r]]
    IN /\ rcMem' = loaded /\ rcFile' = loaded /\ rcHash' = loaded
       /\ rcBucket' = UNION {RcHashOf(r, loaded[r]) : r \in RcRid}
       /\ rcQueue' = << >> /\ rcKnown' = {}
       /\ UNCHANGED rcNow

RcTime == rcNow < RcMaxTime /\ rcNow' = rcNow + 1 /\ UNCHANGED <<rcMem, rcHash, rcBucket, rcQueue, rcFile, rcKnown>>

RcNext ==
    \/ \E rid \in RcRid, rc \in RcRecord : put_rc(rid, rc)
    \/ purge_rcs_relay
    \/ \E list \in SUBSET RcRid : set_registered_relays(list)
    \/ RcDisk \/ RcTime
    \/ \E done, torn \in SUBSET RcRid : RcRestart(done, torn)

-----------------------------------------------------------------------------
\* The type of the state.
RcStore_TypeOK ==
    /\ rcMem \in [RcRid -> RcRecord \cup {RcNone}] /\ rcHash \in [RcRid -> RcRecord \cup {RcNone}]
    /\ rcFile \in [RcRid -> RcRecord \cup {RcNone}] /\ rcKnown \subseteq RcRid
    /\ rcBucket \subseteq RcRid \X RcContent /\ Len(rcQueue) <= RcMaxQueue

(***************************************************************************)
(* The hash of a bucket is the one of the RCs in memory, through updates,  *)
(* purges and restarts (update_rc_buckets): two nodes with the same hash   *)
(* hold the same contents, and skipping the bucket loses nothing.          *)
(***************************************************************************)
BucketIsCurrent == rcBucket = UNION {RcHashOf(r, rcMem[r]) : r \in RcRid}

(***************************************************************************)
(* The files follow the memory (put_rc, remove_many_from_disk_async): the  *)
(* last job for a relay leaves its file as the memory is, and without a    *)
(* job it is so already, crashes and torn files included.                  *)
(***************************************************************************)
DiskFollows ==
    \A r \in RcRid :
        LET jobs == {i \in 1..Len(rcQueue) : r \in DOMAIN rcQueue[i]}
        IN /\ jobs = {} => rcFile[r] = rcMem[r]
           /\ \A i \in jobs : (\A j \in jobs : j <= i) => rcQueue[i][r] = rcMem[r]
=============================================================================
