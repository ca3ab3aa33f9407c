------------------------ MODULE ReachabilityProofs -------------------------
(***************************************************************************)
(* Type correctness of Reachability and the invariant that no failing      *)
(* relay loses its retest, for every set of relays and every timing; and   *)
(* that no half-close of a tunnelled TCP stream truncates it, for any      *)
(* number of pairs and any window (TcpTunnel).                             *)
(***************************************************************************)
EXTENDS Reachability, TcpTunnel, Integers, TLAPS

\* The inductive invariant: the types give the domains of probe and failing.
ReachInv == Reachability_TypeOK /\ NoRetestLost

\* A queue entry made by add_failing_node has a failure count within bounds.
LEMMA FailingEntryType ==
    ASSUME NEW n \in 0..MaxFails, NEW noise \in RETEST_NOISE
    PROVE  FailingEntry(n, noise) \in Queued
<1>1. FailCount(n) \in 1..MaxFails
  BY ReachabilityAssumption DEF FailCount
<1>2. RETEST_BACKOFF \in Int /\ noise \in Int /\ RETEST_MAX \in Int /\ FailCount(n) \in Int
  BY <1>1, ReachabilityAssumption
<1>3. FailCount(n) * RETEST_BACKOFF + noise \in Int
  BY <1>2
<1>4. retest_interval(FailCount(n), noise) \in Int
  <2>1. ~(FailCount(n) < 1)
    BY <1>1, ReachabilityAssumption
  <2>. DEFINE x == FailCount(n) * RETEST_BACKOFF + noise
  <2>2. retest_interval(FailCount(n), noise) = Clamp(x, 0, RETEST_MAX)
    BY <2>1 DEF retest_interval
  <2>3. x \in Int
    BY <1>3
  <2>. HIDE DEF x
  <2>. QED
    BY <2>2, <2>3, <1>2 DEF Clamp
<1>. QED
  BY <1>1, <1>4 DEF FailingEntry, Queued

\* What a firing of the timer leaves in a slot that it tests.
LEMMA LaunchType ==
    ASSUME NEW r \in Relay, NEW n \in 0..MaxFails, NEW noise \in RETEST_NOISE
    PROVE  /\ Launch(r, n, noise) \in {None} \cup Queued \cup Testing
           /\ world[r] # "unregistered" => Launch(r, n, noise).st # "none"
<1>1. CASE world[r] = "unregistered"
  BY <1>1 DEF Launch
<1>2. CASE world[r] = "no_rc"
  <2>1. Launch(r, n, noise) = FailingEntry(n, noise)
    BY <1>2 DEF Launch
  <2>. QED
    BY <2>1, FailingEntryType DEF Queued
<1>3. CASE world[r] # "unregistered" /\ world[r] # "no_rc"
  <2>1. Launch(r, n, noise) = [st |-> "testing", fails |-> n]
    BY <1>3 DEF Launch
  <2>. QED
    BY <2>1 DEF Testing
<1>. QED
  BY <1>1, <1>2, <1>3

\* Ageing the queue changes only the time left of its entries.
LEMMA AgedType ==
    ASSUME Reachability_TypeOK, NEW s \in Slot
    PROVE  /\ Aged[s] \in {None} \cup Queued \cup Testing
           /\ Aged[s].st = probe[s].st
           /\ Aged[s].st = "queued" => Aged[s].fails \in 0..MaxFails
<1>1. CASE probe[s] \in Queued
  <2>1. Aged[s] = [probe[s] EXCEPT !.due = IF @ > -MaxLate THEN @ - 1 ELSE @]
    BY <1>1 DEF Aged, Queued
  <2>2. Aged[s] \in Queued
    BY <1>1, <2>1, ReachabilityAssumption DEF Queued
  <2>. QED
    BY <1>1, <2>2, ReachabilityAssumption DEF Queued
<1>2. CASE probe[s] = None \/ probe[s] \in Testing
  BY <1>2 DEF Aged, None, Testing
<1>. QED
  BY <1>1, <1>2 DEF Reachability_TypeOK

\* A firing of the timer keeps the types of what its loop writes.
LEMMA RunTestsType ==
    ASSUME Reachability_TypeOK, NEW popped \in get_failing(Aged),
           NEW random \in SUBSET Slot, NEW noise \in [Slot -> RETEST_NOISE],
           RunTests(popped, random, noise)
    PROVE  /\ probe' \in [Slot -> {None} \cup Queued \cup Testing]
           /\ failing' \subseteq Relay
<1>. DEFINE retests == {s \in popped : s[1] \in failing}
<1>1. \A s \in popped : s \in Slot /\ Aged[s].st = "queued"
  BY DEF get_failing
<1>2. ASSUME NEW s \in Slot
      PROVE  (IF s \in random THEN Launch(s[1], 0, noise[s])
              ELSE IF s \in retests THEN Launch(s[1], Aged[s].fails, noise[s])
              ELSE IF s \in popped THEN None ELSE Aged[s]) \in {None} \cup Queued \cup Testing
  <2>1. s[1] \in Relay /\ noise[s] \in RETEST_NOISE
    BY DEF Slot
  <2>2. Launch(s[1], 0, noise[s]) \in {None} \cup Queued \cup Testing
    BY <2>1, LaunchType, ReachabilityAssumption
  <2>3. s \in retests => Launch(s[1], Aged[s].fails, noise[s]) \in {None} \cup Queued \cup Testing
    BY <2>1, <1>1, AgedType, LaunchType
  <2>. QED
    BY <2>2, <2>3, AgedType
<1>3. probe' \in [Slot -> {None} \cup Queued \cup Testing]
  BY <1>2 DEF RunTests
<1>4. failing' \subseteq Relay
  BY <1>1 DEF RunTests, Slot, Reachability_TypeOK
<1>. QED
  BY <1>3, <1>4

\* A firing of the timer leaves every relay that is failing a retest or a ping.
LEMMA RunTestsKeepsRetests ==
    ASSUME ReachInv, NEW popped \in get_failing(Aged),
           NEW random \in SUBSET Slot, NEW noise \in [Slot -> RETEST_NOISE],
           RunTests(popped, random, noise)
    PROVE  NoRetestLost'
<1>. DEFINE retests == {s \in popped : s[1] \in failing}
            named(w) == {s[1] : s \in {t \in retests \cup random : world[t[1]] = w}}
<1>0. Reachability_TypeOK /\ NoRetestLost
  BY DEF ReachInv
<1>1. \A s \in popped : s \in Slot /\ Aged[s].st = "queued"
  BY DEF get_failing
<1>2. \A s \in Slot : s[1] \in Relay /\ s[2] \in Chain /\ s = <<s[1], s[2]>>
  BY DEF Slot
<1>3. ASSUME NEW s \in Slot, s \in retests \cup random, world[s[1]] # "unregistered"
      PROVE  probe'[s].st # "none"
  <2>1. s[1] \in Relay /\ noise[s] \in RETEST_NOISE
    BY <1>2
  <2>2. CASE s \in random
    <3>1. probe'[s] = Launch(s[1], 0, noise[s])
      BY <2>2 DEF RunTests
    <3>2. 0 \in 0..MaxFails
      BY ReachabilityAssumption
    <3>. QED
      BY <3>1, <3>2, <2>1, <1>3, LaunchType
  <2>3. CASE s \notin random
    <3>1. s \in retests
      BY <2>3, <1>3
    <3>2. probe'[s] = Launch(s[1], Aged[s].fails, noise[s])
      BY <2>3, <3>1 DEF RunTests
    <3>3. Aged[s].fails \in 0..MaxFails
      BY <3>1, <1>0, <1>1, AgedType
    <3>. QED
      BY <3>2, <3>3, <2>1, <1>3, LaunchType
  <2>. QED
    BY <2>2, <2>3
<1>4. SUFFICES ASSUME NEW r \in failing'
               PROVE  \E c \in Chain : probe'[<<r, c>>].st # "none"
  BY Zenon DEF NoRetestLost
<1>5. failing' = (failing \ named("unregistered")) \cup named("no_rc")
  BY DEF RunTests
<1>6. CASE r \in named("no_rc")
  <2>1. PICK s \in retests \cup random : s[1] = r /\ world[s[1]] = "no_rc"
    BY <1>6
  <2>2. s \in Slot
    BY <1>1
  <2>3. probe'[s].st # "none"
    BY <2>1, <2>2, <1>3
  <2>. QED
    BY <2>1, <2>2, <2>3, <1>2
<1>7. CASE r \in failing /\ r \notin named("unregistered")
  <2>1. PICK c \in Chain : probe[<<r, c>>].st # "none"
    BY <1>0, <1>7, Zenon DEF NoRetestLost
  <2>. DEFINE s == <<r, c>>
  <2>2. s \in Slot /\ s[1] = r
    BY <1>0, <1>7 DEF Slot, Reachability_TypeOK
  <2>3. CASE s \in random \cup popped
    <3>1. s \in retests \cup random
      BY <2>2, <2>3, <1>7
    <3>2. world[s[1]] # "unregistered"
      BY <3>1, <2>2, <1>7
    <3>. QED
      BY <3>1, <3>2, <2>2, <1>3
  <2>4. CASE s \notin random \cup popped
    <3>1. probe'[s] = Aged[s]
      BY <2>2, <2>4 DEF RunTests
    <3>2. Aged[s].st = probe[s].st
      BY <2>2, <1>0, AgedType
    <3>. QED
      BY <3>1, <3>2, <2>1
  <2>. QED
    BY <2>3, <2>4
<1>. QED
  BY <1>5, <1>6, <1>7

\* One case per action of Next.
LEMMA ReachStep ==
    ASSUME ReachInv, [Next]_vars
    PROVE  ReachInv'
<1>. USE DEF ReachInv
<1>1. CASE start \/ stop \/ self_changes
  BY <1>1, Zenon DEF start, stop, self_changes, Reachability_TypeOK, NoRetestLost
<1>2. CASE world_changes
  <2>1. world' \in [Relay -> World]
    BY <1>2 DEF world_changes, Reachability_TypeOK
  <2>. QED
    BY <1>2, <2>1 DEF world_changes, Reachability_TypeOK, NoRetestLost
<1>3. CASE tick_idle
  <2>1. \A s \in Slot : probe'[s] \in {None} \cup Queued \cup Testing /\ probe'[s].st = probe[s].st
    BY <1>3, AgedType DEF tick_idle
  <2>2. probe' = [s \in Slot |-> probe'[s]]
    BY <1>3 DEF tick_idle, Aged
  <2>3. Reachability_TypeOK'
    BY <1>3, <2>1, <2>2 DEF tick_idle, Reachability_TypeOK
  <2>4. NoRetestLost'
    BY <1>3, <2>1, Zenon DEF tick_idle, NoRetestLost, Slot, Reachability_TypeOK
  <2>. QED
    BY <2>3, <2>4
<1>4. CASE tick
  <2>1. PICK popped \in get_failing(Aged), noise \in [Slot -> RETEST_NOISE] :
            \/ \E d \in next_random : \E random \in Record(d.pk) :
                RunTests(popped, random, noise) /\ testing_queue' = d.rest
            \/ RunTests(popped, {}, noise) /\ testing_queue' = {}
    BY <1>4 DEF tick
  <2>2. \A d \in next_random : d.pk \in Relay /\ d.rest \subseteq Relay
    BY DEF next_random, DrawFrom, Registered, Reachability_TypeOK
  <2>3. \A d \in next_random : \A random \in Record(d.pk) : random \in SUBSET Slot
    BY <2>2 DEF Record, Slot
  <2>4. PICK random \in SUBSET Slot : RunTests(popped, random, noise)
    BY <2>1, <2>3
  <2>5. testing_queue' \subseteq Relay
    BY <2>1, <2>2
  <2>6. probe' \in [Slot -> {None} \cup Queued \cup Testing] /\ failing' \subseteq Relay
    BY <2>4, RunTestsType
  <2>7. Reachability_TypeOK'
    BY <1>4, <2>5, <2>6 DEF tick, Reachability_TypeOK
  <2>8. NoRetestLost'
    BY <2>4, RunTestsKeepsRetests
  <2>. QED
    BY <2>7, <2>8
<1>5. ASSUME NEW s \in Slot, ping_result(s)
      PROVE  ReachInv'
  <2>1. PICK noise \in RETEST_NOISE :
            probe' = [probe EXCEPT ![s] = IF world[s[1]] = "up" THEN None
                                          ELSE FailingEntry(@.fails, noise)]
    BY <1>5, Zenon DEF ping_result
  <2>2. probe[s] \in Testing
    BY <1>5 DEF ping_result, Reachability_TypeOK, None, Queued
  <2>3. FailingEntry(probe[s].fails, noise) \in Queued
    BY <2>2, FailingEntryType DEF Testing
  <2>4. s[1] \in Relay /\ s[2] \in Chain /\ s = <<s[1], s[2]>>
    BY DEF Slot
  <2>5. Reachability_TypeOK'
    BY <1>5, <2>1, <2>3, <2>4 DEF ping_result, Reachability_TypeOK
  <2>6. NoRetestLost'
    <3>1. SUFFICES ASSUME NEW r \in failing'
                   PROVE  \E c \in Chain : probe'[<<r, c>>].st # "none"
      BY DEF NoRetestLost
    <3>2. CASE r = s[1]
      <4>1. world[s[1]] # "up"
        BY <1>5, <3>2 DEF ping_result
      <4>2. probe'[s] \in Queued
        BY <2>1, <2>3, <4>1 DEF Reachability_TypeOK
      <4>. QED
        BY <4>2, <2>4, <3>2 DEF Queued
    <3>3. CASE r # s[1]
      <4>1. r \in failing
        BY <1>5, <3>3 DEF ping_result
      <4>2. PICK c \in Chain : probe[<<r, c>>].st # "none"
        BY <4>1 DEF NoRetestLost
      <4>3. <<r, c>> # s /\ <<r, c>> \in Slot
        BY <3>3, <4>1 DEF Slot, Reachability_TypeOK
      <4>. QED
        BY <4>2, <4>3, <2>1 DEF Reachability_TypeOK
    <3>. QED
      BY <3>2, <3>3
  <2>. QED
    BY <2>5, <2>6
<1>6. CASE UNCHANGED vars
  BY <1>6 DEF vars, Reachability_TypeOK, NoRetestLost
<1>. QED
  BY <1>1, <1>2, <1>3, <1>4, <1>5, <1>6 DEF Next

(***************************************************************************)
(* In every behaviour the state has its types and every relay of `failing` *)
(* has a retest queued or a ping outstanding: the queue and the set that   *)
(* add_failing_node, get_failing and tick maintain side by side agree.     *)
(***************************************************************************)
THEOREM ReachabilitySafe == Spec => [](Reachability_TypeOK /\ NoRetestLost)
<1>1. Init => ReachInv
  BY Zenon DEF Init, ReachInv, Reachability_TypeOK, NoRetestLost
<1>2. ReachInv /\ [Next]_vars => ReachInv'
  BY ReachStep
<1>. QED
  BY <1>1, <1>2, PTL DEF Spec, ReachInv

-----------------------------------------------------------------------------
(* TcpTunnel: no half-close truncates. *)

TtSpec == TtInit /\ [][TtNext]_ttvars

TtPairs ==
    [mapped : BOOLEAN, connected : BOOLEAN, paused : BOOLEAN, finished : BOOLEAN, finSent : BOOLEAN,
     finReceived : BOOLEAN, writeShutdown : BOOLEAN, out : Nat, left : Nat, window : Int, dead : BOOLEAN]

\* The strengthening, for a pair: once the far end's FIN is in, it has nothing left to
\* send, so what a drain finds to shut down is complete.
TtSound(p) ==
    /\ p \in TtPairs
    /\ p.writeShutdown => p.out = 0 /\ p.left = 0
    /\ p.finReceived => p.left = 0
    /\ p.out + p.left <= TtUnits

TtStreams == [waiting : BOOLEAN, buffered : Nat, left : Nat, dead : BOOLEAN]

TtInv ==
    /\ TcpTunnel_TypeOK
    /\ \A i \in DOMAIN ttConns : TtSound(ttConns[i]) /\ (ttConns[i].finished => i \in ttDrops)
    /\ ttConns = [i \in DOMAIN ttConns |-> ttConns[i]]
    /\ ttPending \in TtStreams
    /\ ttPending.waiting => ttNext < TtMaxIds
    /\ ttNow <= TtMaxTime

LEMMA TtFinishSound ==
    ASSUME NEW p, TtSound(p)
    PROVE  TtSound(finish(p))
BY Zenon DEF TtSound, TtPairs, finish

LEMMA TtShutSound ==
    ASSUME NEW p, TtSound(p), p.left = 0 \/ p.writeShutdown
    PROVE  TtSound(flush_and_shutdown_write(p))
<1>1. CASE p.writeShutdown \/ p.out > 0 BY <1>1 DEF flush_and_shutdown_write
<1>2. CASE ~(p.writeShutdown \/ p.out > 0)
    <2> DEFINE q == [p EXCEPT !.writeShutdown = TRUE]
    <2>1. p.out = 0 /\ p.left = 0 BY <1>2 DEF TtSound, TtPairs
    <2>2. TtSound(q) BY <2>1, Zenon DEF TtSound, TtPairs
    <2>3. flush_and_shutdown_write(p) = IF q.finSent THEN finish(q) ELSE q
        BY <1>2 DEF flush_and_shutdown_write
    <2> HIDE DEF q
    <2> QED BY <2>2, <2>3, TtFinishSound
<1> QED BY <1>1, <1>2

LEMMA TtFinSound ==
    ASSUME NEW p, TtSound(p), p.left = 0
    PROVE  TtSound(on_stream_fin(p))
<1> DEFINE q == [p EXCEPT !.finReceived = TRUE]
<1>1. TtSound(q) /\ q.left = 0 BY Zenon DEF TtSound, TtPairs
<1> HIDE DEF q
<1> QED BY <1>1, TtShutSound, Zenon DEF on_stream_fin, q

LEMMA TtEofSound ==
    ASSUME NEW p, TtSound(p)
    PROVE  TtSound(on_tcp_eof(p))
<1>1. CASE p.finSent BY <1>1 DEF on_tcp_eof
<1>2. CASE ~p.finSent
    <2> DEFINE q == [p EXCEPT !.finSent = TRUE]
    <2>1. TtSound(q) BY Zenon DEF TtSound, TtPairs
    <2>2. on_tcp_eof(p) = IF q.writeShutdown THEN finish(q) ELSE q BY <1>2 DEF on_tcp_eof
    <2> HIDE DEF q
    <2> QED BY <2>1, <2>2, TtFinishSound
<1> QED BY <1>1, <1>2

LEMMA TtResumeSound ==
    ASSUME NEW p, TtSound(p)
    PROVE  TtSound(TtResume(p))
<1> DEFINE q == [p EXCEPT !.paused = FALSE]
<1>1. TtSound(q) BY Zenon DEF TtSound, TtPairs
<1>2. TtResume(p) = [q EXCEPT !.window = TtWindow] BY DEF TtResume
<1>3. TtWindow \in Int BY TcpTunnelAssumption
<1> HIDE DEF q
<1>4. TtSound([q EXCEPT !.window = TtWindow]) BY <1>1, <1>3 DEF TtSound, TtPairs
<1> QED BY <1>2, <1>4

LEMMA TtWriteSound ==
    ASSUME NEW p, TtSound(p)
    PROVE  TtSound(on_write_available(p))
<1> DEFINE q == IF p.paused THEN TtResume(p) ELSE p
<1>1. TtSound(q) BY TtResumeSound
<1>2. on_write_available(p) = IF q.finReceived THEN flush_and_shutdown_write(q) ELSE q
    BY DEF on_write_available
<1> HIDE DEF q
<1>3. q.finReceived => q.left = 0 BY <1>1 DEF TtSound
<1> QED BY <1>1, <1>2, <1>3, TtShutSound

LEMMA TtReceivedSound ==
    ASSUME NEW p, TtSound(p), p.left > 0
    PROVE  TtSound(TtReceived(p))
<1> DEFINE o == p.out + 1
           l == p.left - 1
           q == [p EXCEPT !.out = o, !.left = l]
           w == q.window - 1
<1>1. o \in Nat /\ l \in Nat /\ o + l <= TtUnits BY TcpTunnelAssumption DEF TtSound, TtPairs
<1>2. TtReceived(p) = IF q.paused THEN [q EXCEPT !.window = w]
                      ELSE IF q.out >= TtAlarm THEN [q EXCEPT !.paused = TRUE] ELSE q
    BY DEF TtReceived
<1> HIDE DEF o, l
<1>3. TtSound(q)
    <2> DEFINE r == [p EXCEPT !.out = o]
    <2>1. /\ r \in TtPairs /\ r.out = o /\ r.left = p.left
          /\ r.writeShutdown = p.writeShutdown /\ r.finReceived = p.finReceived
        BY <1>1 DEF TtSound, TtPairs
    <2>2. q = [r EXCEPT !.left = l] OBVIOUS
    <2> HIDE DEF r, q
    <2>3. /\ q \in TtPairs /\ q.out = o /\ q.left = l
          /\ q.writeShutdown = p.writeShutdown /\ q.finReceived = p.finReceived
        BY <1>1, <2>1, <2>2 DEF TtPairs
    <2>4. p.left # 0 /\ ~p.writeShutdown /\ ~p.finReceived BY DEF TtSound, TtPairs
    <2> QED BY <1>1, <2>3, <2>4 DEF TtSound
<1> HIDE DEF q
<1>4. w \in Int BY <1>3 DEF TtSound, TtPairs
<1> HIDE DEF w
<1>5. TtSound([q EXCEPT !.window = w])
    BY <1>3, <1>4 DEF TtSound, TtPairs
<1>6. TtSound([q EXCEPT !.paused = TRUE])
    BY <1>3, Zenon DEF TtSound, TtPairs
<1> QED BY SMTT(30), <1>2, <1>3, <1>5, <1>6

-----------------------------------------------------------------------------

\* A step of one pair: it stays sound, and one that finishes it queues its drop.
LEMMA TtStepInv ==
    ASSUME TtInv, NEW i \in DOMAIN ttConns, NEW p, TtSound(p), TtStep(i, p)
    PROVE  TtInv'
<1>1. DOMAIN ttConns' = DOMAIN ttConns /\ ttConns' = [j \in DOMAIN ttConns' |-> ttConns'[j]]
    BY Zenon DEF TtStep, TtInv
<1>2. \A j \in DOMAIN ttConns' : ttConns'[j] = IF j = i THEN p ELSE ttConns[j]
    BY DEF TtStep, TtInv
<1>3. /\ ttDrops \subseteq ttDrops' /\ ttDrops' \subseteq ttDrops \cup {i}
      /\ p.finished /\ ~ttConns[i].finished => i \in ttDrops'
    BY DEF TtStep
<1>4. \A j \in DOMAIN ttConns' : TtSound(ttConns'[j]) /\ (ttConns'[j].finished => j \in ttDrops')
    BY <1>1, <1>2, <1>3 DEF TtInv
<1>5. UNCHANGED <<ttOpen, ttNext, ttPending, ttScheduled, ttTimer, ttIdleSince, ttNow>>
    BY SMTT(30) DEF TtStep, ttTimes
<1>6. \A j \in DOMAIN ttConns' : ttConns'[j].out + ttConns'[j].left <= TtUnits
    BY SMTT(30), <1>4 DEF TtSound
<1>7. DOMAIN ttConns' \subseteq 0 .. TtMaxIds - 1 /\ ttDrops' \subseteq 0 .. TtMaxIds - 1
    BY SMTT(30), <1>1, <1>3 DEF TtInv, TcpTunnel_TypeOK
<1>8. TcpTunnel_TypeOK' BY <1>5, <1>6, <1>7 DEF TtInv, TcpTunnel_TypeOK
<1> QED BY <1>1, <1>4, <1>5, <1>8 DEF TtInv

LEMMA TtPairInv ==
    ASSUME TtInv, NEW i \in DOMAIN ttConns,
           \/ TtStreamData(i) \/ TtStreamFin(i) \/ TtDrain(i)
           \/ TtConnected(i) \/ TtEof(i) \/ TtFails(i)
    PROVE  TtInv'
<1> DEFINE p == ttConns[i]
<1>0. TtSound(p) BY SMTT(30) DEF TtInv
<1>1. CASE TtStreamData(i)
    BY ZenonT(30), <1>0, <1>1, TtReceivedSound, TtStepInv DEF TtStreamData
<1>2. CASE TtStreamFin(i)
    BY ZenonT(30), <1>0, <1>2, TtFinSound, TtStepInv DEF TtStreamFin
<1>3. CASE TtDrain(i)
    <2> DEFINE o == p.out - 1
               q == [p EXCEPT !.out = o]
    <2>1. p.out > 0 /\ TtStep(i, IF q.out <= TtClear THEN on_write_available(q) ELSE q)
        BY <1>3 DEF TtDrain
    <2>2. o \in Nat /\ o < p.out /\ o + p.left <= TtUnits
        BY <1>0, <2>1, TcpTunnelAssumption DEF TtSound, TtPairs
    <2>3. ~p.writeShutdown BY <1>0, <2>1 DEF TtSound, TtPairs
    <2> HIDE DEF o, p
    <2>4. TtSound(q) BY <1>0, <2>2, <2>3 DEF TtSound, TtPairs
    <2> HIDE DEF q
    <2> QED BY <2>1, <2>4, TtWriteSound, TtStepInv
<1>4. CASE TtConnected(i)
    <2> DEFINE q == [p EXCEPT !.connected = TRUE]
    <2>1. TtStep(i, TtResume(q)) BY <1>4 DEF TtConnected
    <2> HIDE DEF p
    <2>2. TtSound(q) BY <1>0, Zenon DEF TtSound, TtPairs
    <2> HIDE DEF q
    <2> QED BY <2>1, <2>2, TtResumeSound, TtStepInv
<1>5. CASE TtEof(i) BY <1>0, <1>5, TtEofSound, TtStepInv DEF TtEof
<1>6. CASE TtFails(i) BY SMTT(30), <1>0, <1>6, TtFinishSound, TtStepInv DEF TtFails
<1> QED BY <1>1, <1>2, <1>3, <1>4, <1>5, <1>6

\* A new pair gets an id no pair has had.
LEMMA TtAdoptInv ==
    ASSUME TtInv, NEW p, TtSound(p), ~p.finished, adopt(p), ttNext < TtMaxIds,
           UNCHANGED <<ttDrops, ttScheduled, ttTimer, ttIdleSince, ttNow>>,
           ttOpen' \in BOOLEAN,
           ttPending' \in TtStreams, ttPending'.buffered + ttPending'.left <= TtUnits,
           ttPending'.waiting => ttNext' < TtMaxIds
    PROVE  TtInv'
<1>1. /\ DOMAIN ttConns' = DOMAIN ttConns \cup {ttNext}
      /\ ttConns' = [j \in DOMAIN ttConns' |-> ttConns'[j]]
      /\ \A j \in DOMAIN ttConns' : ttConns'[j] = IF j = ttNext THEN p ELSE ttConns[j]
    BY DEF adopt
<1>2. \A j \in DOMAIN ttConns' : TtSound(ttConns'[j]) /\ (ttConns'[j].finished => j \in ttDrops')
    BY SMTT(30), <1>1 DEF TtInv
<1>3. \A j \in DOMAIN ttConns' : ttConns'[j].out + ttConns'[j].left <= TtUnits
    BY SMTT(30), <1>2 DEF TtSound
<1>4. ttNext \in 0 .. TtMaxIds - 1 /\ ttNext' \in 0 .. TtMaxIds
    BY SMTT(30), TcpTunnelAssumption DEF TtInv, TcpTunnel_TypeOK, adopt
<1>5. DOMAIN ttConns' \subseteq 0 .. TtMaxIds - 1
    BY SMTT(30), <1>1, <1>4 DEF TtInv, TcpTunnel_TypeOK
<1>6. TcpTunnel_TypeOK' BY <1>3, <1>4, <1>5 DEF TtInv, TcpTunnel_TypeOK
<1> QED BY <1>1, <1>2, <1>6 DEF TtInv

LEMMA TtNewSound ==
    ASSUME NEW m \in BOOLEAN, NEW o \in Nat, NEW l \in Nat, NEW d \in BOOLEAN, NEW w \in Int,
           o + l <= TtUnits
    PROVE  /\ TtSound(TtPair(m, o, l, d)) /\ ~TtPair(m, o, l, d).finished
           /\ TtSound([TtPair(m, o, l, d) EXCEPT !.window = w])
           /\ ~[TtPair(m, o, l, d) EXCEPT !.window = w].finished
<1> DEFINE p == TtPair(m, o, l, d)
<1>1. TtSound(p) /\ ~p.finished
    <2>1. /\ p.out = o /\ p.left = l /\ p.writeShutdown = FALSE /\ p.finReceived = FALSE
          /\ p.finished = FALSE
        BY SMTT(30) DEF TtPair
    <2>2. TtWindow \in Int BY SMTT(30), TcpTunnelAssumption
    <2>3. p \in TtPairs BY <2>2, SMTT(30) DEF TtPair, TtPairs
    <2> HIDE DEF p
    <2> QED BY SMTT(30), <2>1, <2>3 DEF TtSound
<1> HIDE DEF p
<1>2. TtSound([p EXCEPT !.window = w]) /\ ~[p EXCEPT !.window = w].finished
    BY <1>1 DEF TtSound, TtPairs
<1> QED BY SMTT(30), <1>1, <1>2 DEF p

\* Steps that leave the pairs alone.
LEMMA TtOtherInv ==
    ASSUME TtInv, UNCHANGED <<ttConns, ttNext, ttDrops>>,
           ttOpen' \in BOOLEAN, ttScheduled' \in BOOLEAN,
           ttPending' \in TtStreams, ttPending'.buffered + ttPending'.left <= TtUnits,
           ttPending'.waiting => ttNext < TtMaxIds,
           ttTimer' \in 0 .. TtMaxTime + TtIdle, ttIdleSince' \in 0 .. TtMaxTime,
           ttNow' \in 0 .. TtMaxTime
    PROVE  TtInv'
<1>1. TcpTunnel_TypeOK' BY SMTT(30) DEF TtInv, TcpTunnel_TypeOK
<1>2. ttNow' <= TtMaxTime BY TcpTunnelAssumption
<1> QED BY <1>1, <1>2 DEF TtInv

LEMMA TtTunnelInv ==
    ASSUME TtInv,
           \/ \E left \in 0 .. TtUnits : connect_stream(left) \/ on_stream_opened(left)
           \/ TtPendingData \/ start_accepted_stream
    PROVE  TtInv'
<1>0. /\ ttPending \in TtStreams /\ ttPending.buffered + ttPending.left <= TtUnits
      /\ ttPending.waiting => ttNext < TtMaxIds
      /\ ttOpen \in BOOLEAN /\ ttScheduled \in BOOLEAN /\ ttNext \in 0 .. TtMaxIds
      /\ ttTimer \in 0 .. TtMaxTime + TtIdle /\ ttIdleSince \in 0 .. TtMaxTime
      /\ ttNow \in 0 .. TtMaxTime
    BY DEF TtInv, TcpTunnel_TypeOK
<1>1. ASSUME NEW left \in 0 .. TtUnits, connect_stream(left) PROVE TtInv'
    <2>1. /\ ttOpen' = TRUE /\ UNCHANGED <<ttDrops, ttPending, ttScheduled, ttTimer, ttIdleSince, ttNow>>
          /\ TtRoom
        BY SMTT(30), <1>1 DEF connect_stream, ttTimes
    <2>2. ttNext < TtMaxIds /\ (ttPending.waiting => ttNext + 1 < TtMaxIds)
        BY SMTT(30), <1>0, <2>1, TcpTunnelAssumption DEF TtRoom
    <2>3. CASE adopt(TtPair(TRUE, 0, left, FALSE))
        <3> DEFINE p == TtPair(TRUE, 0, left, FALSE)
        <3>1. TtSound(p) /\ ~p.finished
            <4>1. left \in Nat /\ 0 + left <= TtUnits /\ 0 \in Nat /\ 0 \in Int BY TcpTunnelAssumption
            <4>2. TRUE \in BOOLEAN /\ FALSE \in BOOLEAN OBVIOUS
            <4> QED BY <4>1, <4>2, TtNewSound, Zenon
        <3>2. adopt(p) BY <2>3, Zenon
        <3>3. ttNext' = ttNext + 1 BY SMTT(30), <2>3 DEF adopt
        <3> HIDE DEF p
        <3> QED BY <1>0, <2>1, <2>2, <3>1, <3>2, <3>3, TtAdoptInv
    <2>4. CASE UNCHANGED <<ttConns, ttNext>> BY SMTT(30), <1>0, <2>1, <2>2, <2>4, TtOtherInv
    <2> QED BY <1>1, <2>3, <2>4, Zenon DEF connect_stream
<1>2. ASSUME NEW left \in 0 .. TtUnits, on_stream_opened(left) PROVE TtInv'
    <2>1. /\ ttOpen' = TRUE
          /\ UNCHANGED <<ttConns, ttNext, ttDrops, ttScheduled, ttTimer, ttIdleSince, ttNow>>
          /\ TtRoom
          /\ ttPending' = [waiting |-> TRUE, buffered |-> 0, left |-> left, dead |-> FALSE]
        BY SMTT(30), <1>2 DEF on_stream_opened, ttTimes
    <2>2. ttNext < TtMaxIds BY SMTT(30), <1>0, <2>1, TcpTunnelAssumption DEF TtRoom
    <2>3. ttPending' \in TtStreams /\ ttPending'.buffered + ttPending'.left <= TtUnits
        BY <2>1, TcpTunnelAssumption DEF TtStreams
    <2> QED BY SMTT(30), <1>0, <2>1, <2>2, <2>3, TtOtherInv
<1>3. CASE TtPendingData
    <2> DEFINE b == ttPending.buffered + 1
               l == ttPending.left - 1
               q == [ttPending EXCEPT !.buffered = b]
    <2>1. /\ UNCHANGED <<ttOpen, ttConns, ttNext, ttDrops, ttScheduled, ttTimer, ttIdleSince, ttNow>>
          /\ ttPending.left > 0 /\ ttPending.waiting
          /\ ttPending' = [q EXCEPT !.left = l]
        BY <1>3 DEF TtPendingData, ttTimes
    <2>2. b \in Nat /\ l \in Nat /\ b + l <= TtUnits
        BY <1>0, <2>1, TcpTunnelAssumption DEF TtStreams
    <2> HIDE DEF b, l
    <2>3. q \in TtStreams /\ q.buffered = b BY <1>0, <2>2 DEF TtStreams
    <2> HIDE DEF q
    <2>4. ttPending' \in TtStreams /\ ttPending'.buffered = b /\ ttPending'.left = l
        BY <2>1, <2>2, <2>3 DEF TtStreams
    <2> QED BY <1>0, <2>1, <2>2, <2>4, TtOtherInv
<1>4. CASE start_accepted_stream
    <2>1. /\ UNCHANGED <<ttOpen, ttDrops, ttScheduled, ttTimer, ttIdleSince, ttNow>>
          /\ ttPending.waiting /\ ttPending' = TtNoStream
        BY SMTT(30), <1>4 DEF start_accepted_stream, ttTimes
    <2>2. /\ ttPending' \in TtStreams /\ ttPending'.buffered + ttPending'.left <= TtUnits
          /\ ~ttPending'.waiting
        BY SMTT(30), <2>1, TcpTunnelAssumption DEF TtNoStream, TtStreams
    <2>3. CASE UNCHANGED <<ttConns, ttNext>> BY SMTT(30), <1>0, <2>1, <2>2, <2>3, TtOtherInv
    <2> DEFINE w == TtWindow - ttPending.buffered
               p == [TtPair(FALSE, ttPending.buffered, ttPending.left, ttPending.dead) EXCEPT !.window = w]
    <2>4. CASE adopt(p)
        <3>1. /\ w \in Int /\ ttPending.buffered \in Nat /\ ttPending.left \in Nat
              /\ ttPending.dead \in BOOLEAN
            BY <1>0, TcpTunnelAssumption DEF TtStreams
        <3> HIDE DEF w
        <3>2. TtSound(p) /\ ~p.finished BY <1>0, <3>1, TtNewSound, Zenon
        <3> HIDE DEF p
        <3> QED BY SMTT(30), <1>0, <2>1, <2>2, <2>4, <3>2, TtAdoptInv
    <2> QED BY <1>4, <2>3, <2>4 DEF start_accepted_stream
<1> QED BY <1>1, <1>2, <1>3, <1>4

LEMMA TtCloseInv ==
    ASSUME TtInv, close_connections_for \/ (\E i \in ttDrops : drop(i)) \/ TtClosed
    PROVE  TtInv'
<1>0. /\ ttPending \in TtStreams /\ ttOpen \in BOOLEAN /\ ttScheduled \in BOOLEAN
      /\ ttNext \in 0 .. TtMaxIds /\ ttNow \in 0 .. TtMaxTime /\ ttIdleSince \in 0 .. TtMaxTime
      /\ ttTimer \in 0 .. TtMaxTime + TtIdle /\ ttPending.buffered + ttPending.left <= TtUnits
    BY SMTT(30) DEF TtInv, TcpTunnel_TypeOK
<1>1. CASE close_connections_for
    <2> DEFINE hit == {i \in DOMAIN ttConns : ttConns[i].mapped /\ ~ttConns[i].finished}
    <2>1. /\ UNCHANGED <<ttOpen, ttNext, ttPending, ttScheduled, ttTimer, ttIdleSince, ttNow>>
          /\ ttDrops' = ttDrops \cup hit /\ hit \subseteq DOMAIN ttConns
          /\ ttConns' = [i \in DOMAIN ttConns |-> IF i \in hit THEN finish(ttConns[i]) ELSE ttConns[i]]
        BY <1>1 DEF close_connections_for, ttTimes
    <2> HIDE DEF hit
    <2>2. /\ DOMAIN ttConns' = DOMAIN ttConns /\ ttConns' = [j \in DOMAIN ttConns' |-> ttConns'[j]]
          /\ \A j \in DOMAIN ttConns' : ttConns'[j] = IF j \in hit THEN finish(ttConns[j]) ELSE ttConns[j]
        BY SMTT(30), <2>1
    <2>3. \A j \in DOMAIN ttConns' : TtSound(ttConns'[j]) /\ (ttConns'[j].finished => j \in ttDrops')
        BY SMTT(30), <2>1, <2>2, TtFinishSound DEF TtInv
    <2>4. \A j \in DOMAIN ttConns' : ttConns'[j].out + ttConns'[j].left <= TtUnits
        BY SMTT(30), <2>3 DEF TtSound
    <2>5. DOMAIN ttConns' \subseteq 0 .. TtMaxIds - 1 /\ ttDrops' \subseteq 0 .. TtMaxIds - 1
        BY SMTT(30), <2>1, <2>2 DEF TtInv, TcpTunnel_TypeOK
    <2>6. TcpTunnel_TypeOK' BY SMTT(30), <2>1, <2>4, <2>5 DEF TtInv, TcpTunnel_TypeOK
    <2> QED BY SMTT(30), <2>1, <2>2, <2>3, <2>6 DEF TtInv
<1>2. ASSUME NEW i \in ttDrops, drop(i) PROVE TtInv'
    <2>1. /\ UNCHANGED <<ttOpen, ttNext, ttPending, ttNow>> /\ ttDrops' = ttDrops \ {i}
          /\ ttConns' = [j \in DOMAIN ttConns \ {i} |-> ttConns[j]]
        BY <1>2 DEF drop
    <2>2. /\ ttScheduled' \in BOOLEAN /\ ttIdleSince' \in 0 .. TtMaxTime
          /\ ttTimer' \in 0 .. TtMaxTime + TtIdle
        <3>1. ttNow + TtIdle \in 0 .. TtMaxTime + TtIdle BY SMTT(30), <1>0, TcpTunnelAssumption
        <3>2. \/ ttIdleSince' = ttNow /\ ttScheduled' = TRUE /\ (ttTimer' = ttTimer \/ ttTimer' = ttNow + TtIdle)
              \/ UNCHANGED <<ttIdleSince, ttScheduled, ttTimer>>
            BY <1>2 DEF drop, schedule_idle_teardown
        <3>3. CASE UNCHANGED <<ttIdleSince, ttScheduled, ttTimer>> BY <1>0, <3>3
        <3>4. CASE ttIdleSince' = ttNow /\ ttScheduled' = TRUE /\ (ttTimer' = ttTimer \/ ttTimer' = ttNow + TtIdle)
            BY <1>0, <3>1, <3>4, Zenon
        <3> QED BY <3>2, <3>3, <3>4, ZenonT(30)
    <2>3. /\ DOMAIN ttConns' = DOMAIN ttConns \ {i} /\ ttConns' = [j \in DOMAIN ttConns' |-> ttConns'[j]]
          /\ \A j \in DOMAIN ttConns' : ttConns'[j] = ttConns[j] /\ j # i
        BY <2>1
    <2>4. \A j \in DOMAIN ttConns' : TtSound(ttConns'[j]) /\ (ttConns'[j].finished => j \in ttDrops')
        BY SMTT(30), <2>1, <2>3 DEF TtInv
    <2>5. \A j \in DOMAIN ttConns' : ttConns'[j].out + ttConns'[j].left <= TtUnits
        BY SMTT(30), <2>4 DEF TtSound
    <2>6. DOMAIN ttConns' \subseteq 0 .. TtMaxIds - 1 /\ ttDrops' \subseteq 0 .. TtMaxIds - 1
        BY SMTT(30), <2>1, <2>3 DEF TtInv, TcpTunnel_TypeOK
    <2>7. TcpTunnel_TypeOK' BY <2>1, <2>2, <2>5, <2>6 DEF TtInv, TcpTunnel_TypeOK
    <2> QED BY SMTT(30), <2>1, <2>3, <2>4, <2>7 DEF TtInv
<1>3. CASE TtClosed
    <2>1. /\ UNCHANGED <<ttNext, ttDrops, ttScheduled, ttTimer, ttIdleSince, ttNow>>
          /\ ttOpen' = FALSE /\ ttConns' = [i \in {} |-> 0]
          /\ ttPending' = IF ttPending.waiting THEN [ttPending EXCEPT !.dead = TRUE] ELSE ttPending
        BY <1>3 DEF TtClosed, ttTimes
    <2>2. DOMAIN ttConns' = {} /\ ttConns' = [j \in DOMAIN ttConns' |-> ttConns'[j]] BY <2>1
    <2>3. /\ ttPending' \in TtStreams /\ ttPending'.waiting = ttPending.waiting
          /\ ttPending'.buffered = ttPending.buffered /\ ttPending'.left = ttPending.left
        BY <1>0, <2>1, Zenon DEF TtStreams
    <2>4. TcpTunnel_TypeOK' BY <2>1, <2>2, <2>3, ZenonT(30) DEF TtInv, TcpTunnel_TypeOK
    <2> QED BY <2>1, <2>2, <2>3, <2>4 DEF TtInv
<1> QED BY SMTT(30), <1>1, <1>2, <1>3

LEMMA TtNextInv == TtInv /\ [TtNext]_ttvars => TtInv'
<1> SUFFICES ASSUME TtInv, [TtNext]_ttvars PROVE TtInv' BY SMTT(30)
<1>0. /\ ttPending \in TtStreams /\ ttOpen \in BOOLEAN /\ ttScheduled \in BOOLEAN
      /\ ttNow \in 0 .. TtMaxTime /\ ttIdleSince \in 0 .. TtMaxTime
      /\ ttTimer \in 0 .. TtMaxTime + TtIdle /\ ttPending.buffered + ttPending.left <= TtUnits
      /\ ttPending.waiting => ttNext < TtMaxIds
    BY SMTT(30) DEF TtInv, TcpTunnel_TypeOK
<1>1. CASE TtTeardown
    <2>1. /\ UNCHANGED <<ttConns, ttNext, ttDrops, ttPending, ttIdleSince, ttNow>>
          /\ ttOpen' \in BOOLEAN /\ ttScheduled' \in BOOLEAN /\ ttTimer' \in 0 .. TtMaxTime + TtIdle
        <3>1. 0 \in 0 .. TtMaxTime + TtIdle /\ ttIdleSince + TtIdle \in 0 .. TtMaxTime + TtIdle
            BY SMTT(30), <1>0, TcpTunnelAssumption
        <3> QED BY <1>0, <1>1, <3>1, ZenonT(30) DEF TtTeardown
    <2> QED BY <1>0, <2>1, TtOtherInv
<1>2. CASE TtTime
    <2>1. /\ UNCHANGED <<ttOpen, ttConns, ttNext, ttDrops, ttPending, ttScheduled, ttTimer, ttIdleSince>>
          /\ ttNow' \in 0 .. TtMaxTime
        BY SMTT(30), <1>0, <1>2, TcpTunnelAssumption DEF TtTime
    <2> QED BY SMTT(30), <1>0, <2>1, TtOtherInv
<1>3. CASE UNCHANGED ttvars
    <2>1. UNCHANGED <<ttOpen, ttConns, ttNext, ttDrops, ttPending, ttScheduled, ttTimer, ttIdleSince, ttNow>>
        BY <1>3 DEF ttvars
    <2> QED BY SMTT(30), <1>0, <2>1, TtOtherInv
<1> QED BY <1>1, <1>2, <1>3, TtPairInv, TtTunnelInv, TtCloseInv DEF TtNext

LEMMA TtInitInv == TtInit => TtInv
<1> SUFFICES ASSUME TtInit PROVE TtInv OBVIOUS
<1>1. DOMAIN ttConns = {} /\ ttConns = [i \in DOMAIN ttConns |-> ttConns[i]] BY SMTT(30) DEF TtInit
<1>2. ttPending \in TtStreams /\ ~ttPending.waiting /\ ttPending.buffered + ttPending.left <= TtUnits
    BY TcpTunnelAssumption DEF TtInit, TtNoStream, TtStreams
<1>3. ttOpen \in BOOLEAN /\ ttScheduled \in BOOLEAN BY ZenonT(30) DEF TtInit
<1>4. /\ ttNext \in 0 .. TtMaxIds /\ ttTimer \in 0 .. TtMaxTime + TtIdle
      /\ ttIdleSince \in 0 .. TtMaxTime /\ ttNow \in 0 .. TtMaxTime /\ ttDrops = {}
    BY TcpTunnelAssumption DEF TtInit
<1>5. TcpTunnel_TypeOK BY <1>1, <1>2, <1>3, <1>4 DEF TcpTunnel_TypeOK
<1> QED BY <1>1, <1>2, <1>4, <1>5, TcpTunnelAssumption DEF TtInv

(* However the FINs, the data, the drains, the failures and the closing of the inner
   connection interleave (ev/tcp.cpp, session/tcp_tunnel.cpp), a socket's write side is
   shut down only once everything the far end sent has been taken, and a finished pair
   always has its drop queued: for any number of connections, any window and watermarks. *)
THEOREM HalfClosesComplete == TtSpec => [](TcpTunnel_TypeOK /\ NothingTruncated)
<1>1. TtInv => TcpTunnel_TypeOK /\ NothingTruncated BY DEF TtInv, TtSound, NothingTruncated
<1> QED BY <1>1, TtInitInv, TtNextInv, PTL DEF TtSpec
=============================================================================
