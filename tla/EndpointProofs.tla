--------------------------- MODULE EndpointProofs --------------------------
(***************************************************************************)
(* Proofs about what applications use the session endpoint for: the lookup *)
(* of SNS names (SnsLookup), the ports of mapped tunnels (PortMaps) and    *)
(* the answers of the DNS server (Dns).                                    *)
(***************************************************************************)
EXTENDS SnsLookup, PortMaps, Dns, WellFoundedInduction, TLAPS

SnSpec == SnInit /\ [][SnNext]_snvars

SnRecord == [left : Nat, lost : Nat, votes : [SnValue -> Nat], remaining : Int,
             threshold : Nat, calls : Nat, val : SnValue \cup {"none", "failed"}]

\* A value with no fewer votes than any other, and with one.
SnBacked(votes, val) ==
    /\ val \in SnValue => votes[val] > 0 /\ \A v \in SnValue : votes[v] <= votes[val]
    /\ val = "failed" => votes = SnNoVotes

\* What holds of the record of a lookup: before its outcome responses are missing, and no
\* value has been confirmed; after it, remaining stays at zero or below, which keeps the
\* votes as they were when the outcome fell.
SnRecOK(r) ==
    /\ r \in SnRecord
    /\ r.threshold = 0 => r.left = 0 /\ r.calls <= 1 /\ r.votes = SnNoVotes
    /\ r.threshold > 0 /\ r.calls = 0 =>
          /\ r.remaining = r.left + r.lost /\ r.remaining > 0 /\ r.val = "none"
          /\ \A v \in SnValue : r.votes[v] < r.threshold
    /\ r.threshold > 0 /\ r.calls > 0 =>
          r.calls = 1 /\ r.remaining <= 0 /\ r.val # "none" /\ SnBacked(r.votes, r.val)

SnInv ==
    /\ snRes \in [SnLookup -> SnRecord] /\ snCache \in SnValue \cup {"none"}
    /\ \A l \in SnLookup : SnRecOK(snRes[l])

LEMMA SnNoVotesType == SnNoVotes \in [SnValue -> Nat]
BY DEF SnNoVotes

\* Updates of a record, with the new values as given.
LEMMA SnCalled ==
  ASSUME NEW r \in SnRecord, NEW n \in Nat, NEW v \in SnValue \cup {"none", "failed"}
  PROVE  [r EXCEPT !.calls = n, !.val = v] \in SnRecord
BY Zenon DEF SnRecord

LEMMA SnAnswered ==
  ASSUME NEW r \in SnRecord, NEW n \in Nat, NEW i \in Int
  PROVE  [r EXCEPT !.left = n, !.remaining = i] \in SnRecord
BY Zenon DEF SnRecord

LEMMA SnAsked ==
  ASSUME NEW r \in SnRecord, NEW n \in Nat, NEW k \in Nat, NEW i \in Int, NEW t \in Nat
  PROVE  [r EXCEPT !.left = n, !.lost = k, !.remaining = i, !.threshold = t] \in SnRecord
BY Zenon DEF SnRecord

LEMMA SnIdleOK == SnRecOK(SnIdle) /\ SnIdle \in SnRecord
<1>1. SnNoVotes \in [SnValue -> Nat] BY SnNoVotesType
<1>2. SnIdle \in SnRecord BY <1>1 DEF SnIdle, SnRecord
<1> QED BY <1>2 DEF SnIdle, SnRecOK

\* Bounded votes have a maximum over the addresses.
LEMMA SnMaximum ==
  ASSUME NEW votes \in [SnValue -> Nat], NEW t \in Nat,
         \A v \in SnValue : votes[v] < t, NEW a0 \in SnAddr
  PROVE  \E a \in SnAddr : \A b \in SnAddr : votes[b] <= votes[a]
<1> DEFINE T == {t - votes[a] : a \in SnAddr}
<1>1. \A a \in SnAddr : votes[a] \in Nat /\ t - votes[a] \in Nat BY DEF SnValue
<1>2. T \subseteq Nat /\ T # {} BY <1>1
<1>3. \E x \in T : \A y \in T : ~(<<y, x>> \in OpToRel(<, Nat))
  <2> HIDE DEF T
  <2> QED BY <1>2, WFMin, NatLessThanWellFounded, Zenon
<1>4. PICK x \in T : \A y \in T : ~(<<y, x>> \in OpToRel(<, Nat)) BY <1>3, Zenon
<1>5. PICK a \in SnAddr : x = t - votes[a] BY <1>4, Zenon
<1>6. ASSUME NEW b \in SnAddr PROVE votes[b] <= votes[a]
  <2>1. t - votes[b] \in T OBVIOUS
  <2>2. ~(t - votes[b] < x) BY <1>2, <1>4, <2>1, Zenon DEF OpToRel
  <2> QED BY <1>1, <1>5, <2>2
<1> QED BY <1>6

\* Whatever the last response decides is backed.
LEMMA SnWinnersBacked ==
  ASSUME NEW votes \in [SnValue -> Nat], NEW t \in Nat,
         \A v \in SnValue : votes[v] < t, NEW w \in SnWinners(votes)
  PROVE  w \in SnValue \cup {"failed"} /\ SnBacked(votes, w)
<1> DEFINE best == {a \in SnAddr : votes[a] > 0 /\ \A b \in SnAddr : votes[b] <= votes[a]}
<1>1. w \in IF best = {} THEN {IF votes["not_found"] > 0 THEN "not_found" ELSE "failed"}
            ELSE IF \E a \in best : votes["not_found"] >= votes[a] THEN {"not_found"} ELSE best
  BY DEF SnWinners
<1>2. "not_found" \in SnValue /\ SnAddr \subseteq SnValue BY DEF SnValue
<1>3. "not_found" # "failed" /\ "failed" \notin SnValue BY SnsLookupAssumption DEF SnValue
<1>4. \A v \in SnValue : votes[v] \in Nat /\ (v \in SnAddr \/ v = "not_found") BY DEF SnValue
<1>5. CASE best = {}
  <2>1. ASSUME NEW a \in SnAddr PROVE votes[a] = 0
    <3>1. PICK m \in SnAddr : \A b \in SnAddr : votes[b] <= votes[m] BY SnMaximum
    <3>2. ~(votes[m] > 0) BY <1>5, <3>1
    <3> QED BY <1>2, <1>4, <3>1, <3>2
  <2>2. CASE votes["not_found"] > 0
    <3>1. w = "not_found" BY <1>1, <1>5, <2>2
    <3> QED BY <1>2, <1>3, <1>4, <2>1, <2>2, <3>1 DEF SnBacked
  <2>3. CASE ~(votes["not_found"] > 0)
    <3>1. w = "failed" BY <1>1, <1>5, <2>3
    <3>2. \A v \in SnValue : votes[v] = 0 BY <1>2, <1>4, <2>1, <2>3
    <3>3. votes = SnNoVotes BY <3>2 DEF SnNoVotes
    <3> QED BY <1>3, <3>1, <3>3 DEF SnBacked
  <2> QED BY <2>2, <2>3
<1>6. CASE best # {} /\ \E a \in best : votes["not_found"] >= votes[a]
  <2>1. w = "not_found" BY <1>1, <1>6
  <2>2. PICK a \in best : votes["not_found"] >= votes[a] BY <1>6
  <2>3. votes["not_found"] > 0 /\ \A b \in SnAddr : votes[b] <= votes["not_found"]
    BY <1>2, <1>4, <2>2
  <2> QED BY <1>2, <1>3, <1>4, <2>1, <2>3 DEF SnBacked
<1>7. CASE best # {} /\ ~\E a \in best : votes["not_found"] >= votes[a]
  <2>1. w \in best BY <1>1, <1>7
  <2>2. ~(votes["not_found"] >= votes[w]) BY <1>7, <2>1
  <2>3. w \in SnAddr /\ votes[w] > 0 /\ \A b \in SnAddr : votes[b] <= votes[w] BY <2>1
  <2>4. \A v \in SnValue : votes[v] <= votes[w] BY <1>2, <1>4, <2>2, <2>3
  <2> QED BY <1>2, <1>3, <2>3, <2>4 DEF SnBacked
<1> QED BY <1>5, <1>6, <1>7

\* A step that replaces the record of one lookup.
LEMMA SnReplace ==
  ASSUME SnInv, NEW l \in SnLookup, NEW r, SnRecOK(r), snRes' = [snRes EXCEPT ![l] = r],
         snCache' \in SnValue \cup {"none"}
  PROVE  SnInv'
<1>1. r \in SnRecord BY DEF SnRecOK
<1>2. snRes' \in [SnLookup -> SnRecord] BY <1>1 DEF SnInv
<1>3. ASSUME NEW k \in SnLookup PROVE SnRecOK(snRes'[k])
  <2>1. snRes'[k] = IF k = l THEN r ELSE snRes[k] BY DEF SnInv
  <2> QED BY <2>1 DEF SnInv
<1> QED BY <1>2, <1>3 DEF SnInv

LEMMA SnResolve == ASSUME SnInv, NEW l \in SnLookup, resolve_sns(l) PROVE SnInv'
<1>0. snCache \in SnValue \cup {"none"} BY DEF SnInv
<1>1. CASE snCache # "none" /\ snRes' = [snRes EXCEPT ![l] = [SnIdle EXCEPT !.calls = 1, !.val = snCache]]
           /\ UNCHANGED snCache
  <2> DEFINE r == [SnIdle EXCEPT !.calls = 1, !.val = snCache]
  <2>1. r \in SnRecord BY <1>0, SnIdleOK, SnCalled, Zenon
  <2>2. r.threshold = 0 /\ r.left = 0 /\ r.calls = 1 /\ r.votes = SnNoVotes BY SnIdleOK DEF SnIdle
  <2>3. SnRecOK(r) BY <2>1, <2>2 DEF SnRecOK
  <2> QED BY <1>0, <1>1, <2>3, SnReplace, Zenon
<1>2. CASE SnOutcome(l, SnIdle, "failed")
  <2> DEFINE r == [SnIdle EXCEPT !.calls = @ + 1, !.val = "failed"]
  <2>0. r = [SnIdle EXCEPT !.calls = 1, !.val = "failed"] BY DEF SnIdle
  <2>1. r \in SnRecord BY <2>0, SnIdleOK, SnCalled, Zenon
  <2>2. r.threshold = 0 /\ r.left = 0 /\ r.calls = 1 /\ r.votes = SnNoVotes BY SnIdleOK DEF SnIdle
  <2>3. SnRecOK(r) BY <2>1, <2>2 DEF SnRecOK
  <2>4. snRes' = [snRes EXCEPT ![l] = r] /\ snCache' = snCache BY <1>2 DEF SnOutcome
  <2> QED BY <1>0, <2>3, <2>4, SnReplace, Zenon
<1>3. CASE \E n \in 1..SnMaxPaths :
                LET asked == IF n > SnAsk THEN SnAsk ELSE n
                IN \E lost \in 0..asked :
                      /\ snRes' = [snRes EXCEPT ![l] =
                          [SnIdle EXCEPT !.left = asked - lost, !.lost = lost,
                                         !.remaining = asked, !.threshold = (asked + 1) \div 2]]
                      /\ UNCHANGED snCache
  <2>1. PICK n \in 1..SnMaxPaths :
                LET asked == IF n > SnAsk THEN SnAsk ELSE n
                IN \E lost \in 0..asked :
                      /\ snRes' = [snRes EXCEPT ![l] =
                          [SnIdle EXCEPT !.left = asked - lost, !.lost = lost,
                                         !.remaining = asked, !.threshold = (asked + 1) \div 2]]
                      /\ UNCHANGED snCache
    BY <1>3, Zenon
  <2> DEFINE asked == IF n > SnAsk THEN SnAsk ELSE n
  <2>2. asked \in Nat \ {0} BY SnsLookupAssumption
  <2> HIDE DEF asked
  <2>3. PICK lost \in 0..asked :
                      /\ snRes' = [snRes EXCEPT ![l] =
                          [SnIdle EXCEPT !.left = asked - lost, !.lost = lost,
                                         !.remaining = asked, !.threshold = (asked + 1) \div 2]]
                      /\ UNCHANGED snCache
    BY <2>1, Zenon DEF asked
  <2> DEFINE t == (asked + 1) \div 2
             r == [SnIdle EXCEPT !.left = asked - lost, !.lost = lost, !.remaining = asked, !.threshold = t]
  <2>4. t \in Nat \ {0} BY <2>2
  <2> HIDE DEF t
  <2>5. asked - lost \in Nat /\ lost \in Nat BY <2>2, <2>3
  <2>6. r \in SnRecord
    <3>1. t \in Nat /\ asked \in Int BY <2>2, <2>4
    <3> QED BY <2>5, <3>1, SnIdleOK, SnAsked, Zenon
  <2>7. /\ r.left = asked - lost /\ r.lost = lost /\ r.remaining = asked /\ r.threshold = t
        /\ r.calls = 0 /\ r.val = "none" /\ r.votes = SnNoVotes
    BY DEF SnIdle
  <2>8. \A v \in SnValue : SnNoVotes[v] = 0 BY DEF SnNoVotes
  <2>9. snRes' = [snRes EXCEPT ![l] = r] /\ snCache' = snCache BY <2>3 DEF t
  <2> HIDE DEF r
  <2>10. SnRecOK(r) BY <2>2, <2>3, <2>4, <2>5, <2>6, <2>7, <2>8 DEF SnRecOK
  <2> QED BY <1>0, <2>9, <2>10, SnReplace, Zenon
<1> QED BY <1>1, <1>2, <1>3, Zenon DEF resolve_sns

LEMMA SnRespond ==
  ASSUME SnInv, NEW l \in SnLookup, NEW v \in SnValue \cup {"bad"}, SnResponse(l, v)
  PROVE  SnInv'
<1> DEFINE old == snRes[l]
           before == [old EXCEPT !.left = @ - 1, !.remaining = @ - 1]
           votes == IF v = "bad" THEN before.votes ELSE [before.votes EXCEPT ![v] = @ + 1]
           r == [before EXCEPT !.votes = votes]
           confirmed == {w \in SnValue : v # "bad" /\ votes[w] >= r.threshold}
<1>1. old \in SnRecord /\ SnRecOK(old) /\ snCache \in SnValue \cup {"none"} BY DEF SnInv
<1>2. old.left > 0 BY DEF SnResponse
<1>3. /\ before \in SnRecord /\ before.left = old.left - 1 /\ before.remaining = old.remaining - 1
      /\ before.lost = old.lost /\ before.votes = old.votes /\ before.threshold = old.threshold
      /\ before.calls = old.calls /\ before.val = old.val
  <2>1. old.left - 1 \in Nat /\ old.remaining - 1 \in Int BY <1>1, <1>2 DEF SnRecord
  <2> HIDE DEF old
  <2>2. before = [old EXCEPT !.left = old.left - 1, !.remaining = old.remaining - 1] BY <1>1 DEF SnRecord
  <2>3. before \in SnRecord BY <1>1, <2>1, <2>2, SnAnswered, Zenon
  <2> QED BY <1>1, <2>3 DEF SnRecord
<1>4. old.threshold > 0 /\ old.threshold \in Nat /\ old.left \in Nat /\ old.lost \in Nat
      /\ old.calls \in Nat /\ old.remaining \in Int /\ old.votes \in [SnValue -> Nat]
  BY <1>1, <1>2 DEF SnRecOK, SnRecord
<1>5. IF before.remaining < 0
      THEN snRes' = [snRes EXCEPT ![l] = before] /\ UNCHANGED snCache
      ELSE IF confirmed # {}
      THEN \E w \in confirmed : SnOutcome(l, [r EXCEPT !.remaining = 0], w)
      ELSE IF r.remaining = 0 THEN \E w \in SnWinners(votes) : SnOutcome(l, r, w)
      ELSE snRes' = [snRes EXCEPT ![l] = r] /\ UNCHANGED snCache
  BY DEF SnResponse
<1> HIDE DEF old, before
<1>6. CASE before.remaining < 0
  <2>1. old.calls # 0 BY <1>1, <1>2, <1>3, <1>4, <1>6 DEF SnRecOK
  <2>2. SnRecOK(before) BY <1>1, <1>2, <1>3, <1>4, <2>1 DEF SnRecOK
  <2> QED BY <1>1, <1>5, <1>6, <2>2, SnReplace
<1>7. CASE ~(before.remaining < 0)
  <2>1. /\ old.calls = 0 /\ old.remaining = old.left + old.lost /\ old.val = "none"
        /\ \A w \in SnValue : old.votes[w] < old.threshold
    BY <1>1, <1>3, <1>4, <1>7 DEF SnRecOK
  <2>2. votes \in [SnValue -> Nat] BY <1>3, <1>4
  <2>3. \A w \in SnValue : w # v => votes[w] < old.threshold BY <1>3, <1>4, <2>1
  <2>4. /\ r \in SnRecord /\ r.left = old.left - 1 /\ r.remaining = old.remaining - 1
        /\ r.lost = old.lost /\ r.votes = votes /\ r.threshold = old.threshold
        /\ r.calls = 0 /\ r.val = "none"
    BY <1>3, <2>1, <2>2 DEF SnRecord
  <2> HIDE DEF votes, r
  <2>5. CASE confirmed # {}
    <3>1. PICK w \in confirmed : SnOutcome(l, [r EXCEPT !.remaining = 0], w) BY <1>5, <1>7, <2>5
    <3>2. w \in SnValue /\ votes[w] >= old.threshold BY <2>4
    <3>3. \A u \in SnValue : votes[u] <= votes[w] BY <1>4, <2>2, <2>3, <3>2
    <3>4. w # "failed" /\ w # "none" BY <3>2, SnsLookupAssumption DEF SnValue
    <3>5. SnBacked(votes, w) BY <1>4, <2>2, <3>2, <3>3, <3>4 DEF SnBacked
    <3> DEFINE p == [r EXCEPT !.remaining = 0]
               q == [p EXCEPT !.calls = @ + 1, !.val = w]
    <3>6. /\ q \in SnRecord /\ q.remaining = 0 /\ q.calls = 1 /\ q.val = w
          /\ q.votes = votes /\ q.threshold = old.threshold
      <4>1. /\ p \in SnRecord /\ p.remaining = 0 /\ p.calls = 0
            /\ p.votes = votes /\ p.threshold = old.threshold
        BY <2>4 DEF SnRecord
      <4> HIDE DEF p
      <4>2. q = [p EXCEPT !.calls = 1, !.val = w] BY <4>1 DEF SnRecord
      <4>3. q \in SnRecord BY <3>2, <4>1, <4>2, SnCalled, Zenon
      <4> HIDE DEF q
      <4> QED BY <4>1, <4>2, <4>3 DEF SnRecord
    <3>7. snRes' = [snRes EXCEPT ![l] = q] /\ snCache' = w BY <3>1, <3>4 DEF SnOutcome
    <3> HIDE DEF q
    <3>8. SnRecOK(q) BY <1>4, <3>4, <3>5, <3>6 DEF SnRecOK
    <3> QED BY <3>2, <3>7, <3>8, SnReplace, Zenon
  <2>6. CASE confirmed = {}
    <3>1. \A w \in SnValue : votes[w] < old.threshold
      <4>1. CASE v = "bad" BY <2>3, <4>1, SnsLookupAssumption DEF SnValue
      <4>2. CASE v # "bad" BY <1>4, <2>2, <2>4, <2>6, <4>2
      <4> QED BY <4>1, <4>2
    <3>2. CASE r.remaining = 0
      <4>1. PICK w \in SnWinners(votes) : SnOutcome(l, r, w) BY <1>5, <1>7, <2>6, <3>2
      <4>2. w \in SnValue \cup {"failed"} /\ SnBacked(votes, w) BY <1>4, <2>2, <3>1, SnWinnersBacked
      <4>3. w # "none" BY <4>2, SnsLookupAssumption DEF SnValue
      <4> DEFINE q == [r EXCEPT !.calls = @ + 1, !.val = w]
      <4>4. /\ q \in SnRecord /\ q.remaining = 0 /\ q.calls = 1 /\ q.val = w
            /\ q.votes = votes /\ q.threshold = old.threshold
        <5>1. q = [r EXCEPT !.calls = 1, !.val = w] BY <2>4 DEF SnRecord
        <5>2. q \in SnRecord BY <2>4, <4>2, <5>1, SnCalled, Zenon
        <5> HIDE DEF q
        <5> QED BY <2>4, <3>2, <5>1, <5>2 DEF SnRecord
      <4>5. snRes' = [snRes EXCEPT ![l] = q] /\ snCache' \in SnValue \cup {"none"}
        BY <1>1, <4>1, <4>2 DEF SnOutcome
      <4> HIDE DEF q
      <4>6. SnRecOK(q) BY <1>4, <4>2, <4>3, <4>4 DEF SnRecOK
      <4> QED BY <4>5, <4>6, SnReplace, Zenon
    <3>3. CASE r.remaining # 0
      <4>1. snRes' = [snRes EXCEPT ![l] = r] /\ snCache' = snCache BY <1>5, <1>7, <2>6, <3>3
      <4>2. r.remaining = r.left + r.lost /\ r.remaining > 0 BY <1>2, <1>3, <1>4, <1>7, <2>1, <2>4, <3>3
      <4>3. SnRecOK(r) BY <1>4, <2>4, <3>1, <4>2 DEF SnRecOK
      <4> QED BY <1>1, <4>1, <4>3, SnReplace, Zenon
    <3> QED BY <3>2, <3>3
  <2> QED BY <2>5, <2>6
<1> QED BY <1>6, <1>7

(***************************************************************************)
(* For any number of lookups, addresses and paths: resolve_sns answers     *)
(* once, its answer has no fewer votes than any other, and a lookup whose  *)
(* requests were all sent is answered with the last response.              *)
(***************************************************************************)
THEOREM NamesBacked == SnSpec => []NameBacked
<1>1. SnInit => SnInv
  BY SnIdleOK DEF SnInit, SnInv
<1>2. SnInv /\ [SnNext]_snvars => SnInv'
  <2> SUFFICES ASSUME SnInv, [SnNext]_snvars PROVE SnInv' OBVIOUS
  <2>1. CASE \E l \in SnLookup : resolve_sns(l) BY <2>1, SnResolve
  <2>2. CASE \E l \in SnLookup, v \in SnValue \cup {"bad"} : SnResponse(l, v) BY <2>2, SnRespond
  <2>3. CASE SnExpires BY <2>3 DEF SnExpires, SnInv
  <2>4. CASE UNCHANGED snvars BY <2>4, Zenon DEF snvars, SnInv
  <2> QED BY <2>1, <2>2, <2>3, <2>4 DEF SnNext
<1>3. SnInv => NameBacked
  <2> SUFFICES ASSUME SnInv, NEW l \in SnLookup
               PROVE  LET r == snRes[l]
                      IN /\ r.calls <= 1
                         /\ r.threshold > 0 /\ r.left = 0 /\ r.lost = 0 => r.calls = 1
                         /\ r.threshold > 0 /\ r.val \in SnValue =>
                               r.votes[r.val] > 0 /\ \A v \in SnValue : r.votes[v] <= r.votes[r.val]
                         /\ r.val = "failed" => r.votes = SnNoVotes
    BY Zenon DEF NameBacked
  <2> DEFINE r == snRes[l]
  <2>1. SnRecOK(r) BY DEF SnInv
  <2>2. r.threshold \in Nat /\ r.calls \in Nat BY <2>1 DEF SnRecOK, SnRecord
  <2>3. "none" \notin SnValue BY SnsLookupAssumption DEF SnValue
  <2>4. CASE r.threshold = 0 BY <2>1, <2>4 DEF SnRecOK
  <2>5. CASE r.threshold > 0 /\ r.calls = 0 BY <2>1, <2>3, <2>5 DEF SnRecOK
  <2>6. CASE r.threshold > 0 /\ r.calls > 0 BY <2>1, <2>6 DEF SnRecOK, SnBacked
  <2> QED BY <2>2, <2>4, <2>5, <2>6 DEF r
<1> QED BY <1>1, <1>2, <1>3, PTL DEF SnSpec

-----------------------------------------------------------------------------
PmHandle == [holders : Int, cports : SUBSET (PmRemotes \X PmApps)]

PmType ==
    /\ pmUdp \in [DOMAIN pmUdp -> PmHandle] /\ DOMAIN pmUdp \subseteq PmTargets
    /\ pmClientPorts \in [DOMAIN pmClientPorts -> Nat] /\ DOMAIN pmClientPorts \subseteq PmRemotes \X PmApps
    /\ pmReturnPorts \in [DOMAIN pmReturnPorts -> PmApps] /\ DOMAIN pmReturnPorts \subseteq PmRemotes \X Nat

\* The ports of a mapping have pseudo ports, with its remote, and no port is in two.
PmPorts ==
    /\ \A t \in DOMAIN pmUdp : \A i \in pmUdp[t].cports : i[1] = t[1] /\ i \in DOMAIN pmClientPorts
    /\ \A t, u \in DOMAIN pmUdp : t # u => pmUdp[t].cports \cap pmUdp[u].cports = {}
    /\ \A i \in DOMAIN pmClientPorts : \E t \in DOMAIN pmUdp : i \in pmUdp[t].cports

PmInverse ==
    /\ \A i \in DOMAIN pmClientPorts :
          /\ <<i[1], pmClientPorts[i]>> \in DOMAIN pmReturnPorts
          /\ pmReturnPorts[<<i[1], pmClientPorts[i]>>] = i[2]
    /\ \A x \in DOMAIN pmReturnPorts :
          /\ <<x[1], pmReturnPorts[x]>> \in DOMAIN pmClientPorts
          /\ pmClientPorts[<<x[1], pmReturnPorts[x]>>] = x[2]

PmInv == PmType /\ PmPorts /\ PmInverse

LEMMA PmEmpty ==
  ASSUME pmUdp' = PmNothing, pmClientPorts' = PmNothing, pmReturnPorts' = PmNothing
  PROVE  PmInv'
BY DEF PmInv, PmType, PmPorts, PmInverse, PmNothing

LEMMA PmKeeps ==
  ASSUME PmInv, UNCHANGED <<pmUdp, pmClientPorts, pmReturnPorts>>
  PROVE  PmInv'
BY DEF PmInv, PmType, PmPorts, PmInverse

\* A step that changes the holders of a mapping only.
LEMMA PmCounts ==
  ASSUME PmInv, NEW t \in DOMAIN pmUdp, NEW n \in Int, pmUdp' = [pmUdp EXCEPT ![t].holders = n],
         UNCHANGED <<pmClientPorts, pmReturnPorts>>
  PROVE  PmInv'
<1>1. PmType /\ PmPorts /\ PmInverse BY DEF PmInv
<1>2. pmUdp[t] \in PmHandle BY <1>1 DEF PmType
<1>3. [pmUdp[t] EXCEPT !.holders = n] \in PmHandle /\ [pmUdp[t] EXCEPT !.holders = n].cports = pmUdp[t].cports
  BY <1>2 DEF PmHandle
<1>4. DOMAIN pmUdp' = DOMAIN pmUdp /\ \A u \in DOMAIN pmUdp :
        pmUdp'[u] = IF u = t THEN [pmUdp[t] EXCEPT !.holders = n] ELSE pmUdp[u]
  BY <1>1 DEF PmType
<1>5. pmUdp' \in [DOMAIN pmUdp' -> PmHandle] BY <1>1, <1>3, <1>4 DEF PmType
<1>6. \A u \in DOMAIN pmUdp : pmUdp'[u].cports = pmUdp[u].cports BY <1>3, <1>4
<1>7. PmType' BY <1>1, <1>4, <1>5 DEF PmType
<1>8. PmPorts' BY <1>1, <1>4, <1>6 DEF PmPorts
<1>9. PmInverse' BY <1>1 DEF PmInverse
<1> QED BY <1>7, <1>8, <1>9 DEF PmInv

LEMMA PmMap == ASSUME PmInv, NEW t \in PmTargets, map_udp_remote_port(t) PROVE PmInv'
<1>1. PmType /\ PmPorts /\ PmInverse BY DEF PmInv
<1>2. CASE t \in DOMAIN pmUdp
  <2>1. pmUdp[t].holders + 1 \in Int BY <1>1, <1>2 DEF PmType, PmHandle
  <2>2. pmUdp' = [pmUdp EXCEPT ![t].holders = pmUdp[t].holders + 1] BY <1>2 DEF map_udp_remote_port
  <2> QED BY <1>2, <2>1, <2>2, PmCounts, Zenon DEF map_udp_remote_port
<1>3. CASE t \notin DOMAIN pmUdp
  <2> DEFINE h == [holders |-> 1, cports |-> {}]
  <2>1. h \in PmHandle /\ h.cports = {} BY DEF PmHandle
  <2> HIDE DEF h
  <2>2. pmUdp' = [y \in DOMAIN pmUdp \cup {t} |-> IF y = t THEN h ELSE pmUdp[y]]
    BY <1>3 DEF map_udp_remote_port, PmSet, h
  <2>3. DOMAIN pmUdp' = DOMAIN pmUdp \cup {t} /\ pmUdp'[t] = h /\ \A u \in DOMAIN pmUdp : pmUdp'[u] = pmUdp[u]
    BY <1>3, <2>2
  <2>4. pmUdp' \in [DOMAIN pmUdp' -> PmHandle] BY <1>1, <2>1, <2>2 DEF PmType
  <2>5. UNCHANGED <<pmClientPorts, pmReturnPorts>> BY DEF map_udp_remote_port
  <2>6. PmType' BY <1>1, <2>3, <2>4, <2>5 DEF PmType
  <2>7. PmPorts' BY <1>1, <2>1, <2>3, <2>5 DEF PmPorts
  <2>8. PmInverse' BY <1>1, <2>5 DEF PmInverse
  <2> QED BY <2>6, <2>7, <2>8 DEF PmInv
<1> QED BY <1>2, <1>3

LEMMA PmUnmap == ASSUME PmInv, NEW t \in PmTargets, unmap_udp_remote_port(t) PROVE PmInv'
<1>1. PmType /\ PmPorts /\ PmInverse BY DEF PmInv
<1>2. CASE t \notin DOMAIN pmUdp BY <1>2, PmKeeps DEF unmap_udp_remote_port
<1>3. CASE t \in DOMAIN pmUdp /\ pmUdp[t].holders > 1
  <2>1. pmUdp[t].holders - 1 \in Int BY <1>1, <1>3 DEF PmType, PmHandle
  <2>2. pmUdp' = [pmUdp EXCEPT ![t].holders = pmUdp[t].holders - 1] /\ UNCHANGED <<pmClientPorts, pmReturnPorts>>
    BY <1>3 DEF unmap_udp_remote_port
  <2> QED BY <1>3, <2>1, <2>2, PmCounts, Zenon
<1>4. CASE t \in DOMAIN pmUdp /\ ~(pmUdp[t].holders > 1)
  <2> DEFINE gone == pmUdp[t].cports \cap DOMAIN pmClientPorts
             lost == {<<t[1], pmClientPorts[c]>> : c \in gone}
  <2>1. /\ pmUdp' = [u \in DOMAIN pmUdp \ {t} |-> pmUdp[u]]
        /\ pmClientPorts' = [i \in DOMAIN pmClientPorts \ gone |-> pmClientPorts[i]]
        /\ pmReturnPorts' = [x \in DOMAIN pmReturnPorts \ lost |-> pmReturnPorts[x]]
    BY <1>4 DEF unmap_udp_remote_port, PmWithout
  <2>2. gone = pmUdp[t].cports BY <1>1, <1>4 DEF PmPorts
  <2>3. \A c \in gone : c \in DOMAIN pmClientPorts /\ c[1] = t[1] BY <1>1, <1>4 DEF PmPorts
  <2>4. \A x : x \in lost <=> \E c \in gone : x = <<t[1], pmClientPorts[c]>> OBVIOUS
  <2> HIDE DEF gone, lost
  <2>5. PmType' BY <1>1, <2>1 DEF PmType
  <2>6. PmPorts'
    <3>1. \A u \in DOMAIN pmUdp' : u \in DOMAIN pmUdp /\ u # t /\ pmUdp'[u] = pmUdp[u] BY <2>1
    <3>2. \A u \in DOMAIN pmUdp : u # t => u \in DOMAIN pmUdp' BY <2>1
    <3>3. \A i : i \in DOMAIN pmClientPorts' <=> i \in DOMAIN pmClientPorts /\ i \notin pmUdp[t].cports BY <2>1, <2>2
    <3> QED BY <1>1, <1>4, <3>1, <3>2, <3>3 DEF PmPorts
  <2>7. PmInverse'
    <3>1. ASSUME NEW i \in DOMAIN pmClientPorts'
          PROVE  /\ <<i[1], pmClientPorts'[i]>> \in DOMAIN pmReturnPorts'
                 /\ pmReturnPorts'[<<i[1], pmClientPorts'[i]>>] = i[2]
      <4>1. i \in DOMAIN pmClientPorts /\ i \notin gone /\ pmClientPorts'[i] = pmClientPorts[i] BY <2>1
      <4> DEFINE x == <<i[1], pmClientPorts[i]>>
      <4>2. x \in DOMAIN pmReturnPorts /\ pmReturnPorts[x] = i[2] BY <1>1, <4>1 DEF PmInverse
      <4>3. x \notin lost
        <5> SUFFICES ASSUME x \in lost PROVE FALSE OBVIOUS
        <5>1. PICK c \in gone : x = <<t[1], pmClientPorts[c]>> BY <2>4
        <5>2. c \in DOMAIN pmClientPorts /\ c[1] = i[1] /\ pmClientPorts[c] = pmClientPorts[i] BY <2>3, <5>1
        <5>3. pmReturnPorts[<<c[1], pmClientPorts[c]>>] = c[2] BY <1>1, <5>2 DEF PmInverse
        <5>4. c[2] = i[2] BY <4>2, <5>2, <5>3
        <5>5. c = <<c[1], c[2]>> /\ i = <<i[1], i[2]>> BY <1>1, <4>1, <5>2 DEF PmType
        <5> QED BY <4>1, <5>2, <5>4, <5>5
      <4> HIDE DEF x
      <4>4. x \in DOMAIN pmReturnPorts' /\ pmReturnPorts'[x] = i[2] BY <2>1, <4>2, <4>3
      <4> QED BY <4>1, <4>4 DEF x
    <3>2. ASSUME NEW x \in DOMAIN pmReturnPorts'
          PROVE  /\ <<x[1], pmReturnPorts'[x]>> \in DOMAIN pmClientPorts'
                 /\ pmClientPorts'[<<x[1], pmReturnPorts'[x]>>] = x[2]
      <4>1. x \in DOMAIN pmReturnPorts /\ x \notin lost /\ pmReturnPorts'[x] = pmReturnPorts[x] BY <2>1
      <4> DEFINE i == <<x[1], pmReturnPorts[x]>>
      <4>2. i \in DOMAIN pmClientPorts /\ pmClientPorts[i] = x[2] BY <1>1, <4>1 DEF PmInverse
      <4>3. x = <<x[1], x[2]>> BY <1>1, <4>1 DEF PmType
      <4>4. i \notin gone
        <5> SUFFICES ASSUME i \in gone PROVE FALSE OBVIOUS
        <5>1. i[1] = t[1] BY <2>3
        <5>2. x = <<t[1], pmClientPorts[i]>> BY <4>2, <4>3, <5>1
        <5> QED BY <2>4, <4>1, <5>2
      <4> HIDE DEF i
      <4>5. i \in DOMAIN pmClientPorts' /\ pmClientPorts'[i] = x[2] BY <2>1, <4>2, <4>4
      <4> QED BY <4>1, <4>5 DEF i
    <3> QED BY <3>1, <3>2 DEF PmInverse
  <2> QED BY <2>5, <2>6, <2>7 DEF PmInv
<1> QED BY <1>2, <1>3, <1>4

\* A port below PmRing that PmFirstFree returns is free.
LEMMA PmFree ==
  ASSUME NEW r, PmFirstFree(r) < PmRing
  PROVE  PmFirstFree(r) \in Nat /\ <<r, PmFirstFree(r)>> \notin DOMAIN pmReturnPorts
<1> DEFINE free == {p \in 0 .. PmRing - 1 : <<r, p>> \notin DOMAIN pmReturnPorts}
<1>1. PmFirstFree(r) = IF free = {} THEN PmRing ELSE CHOOSE p \in free : \A q \in free : p <= q
  BY DEF PmFirstFree
<1>2. PmRing \in Nat BY PortMapsAssumption
<1>3. free # {} BY <1>1, <1>2
<1>4. free \subseteq Nat BY <1>2
<1>5. \E p \in free : \A q \in free : ~(<<q, p>> \in OpToRel(<, Nat))
  <2> HIDE DEF free
  <2> QED BY <1>3, <1>4, WFMin, NatLessThanWellFounded, Zenon
<1>6. \E p \in free : \A q \in free : p <= q
  <2>1. PICK p \in free : \A q \in free : ~(<<q, p>> \in OpToRel(<, Nat)) BY <1>5, Zenon
  <2>2. ASSUME NEW q \in free PROVE p <= q
    <3>1. p \in Nat /\ q \in Nat BY <1>4, <2>1, Zenon
    <3>2. ~(q < p) BY <2>1, <3>1, Zenon DEF OpToRel
    <3> QED BY <3>1, <3>2
  <2> QED BY <2>1, <2>2, Zenon
<1>7. PmFirstFree(r) \in free
  <2> HIDE DEF free
  <2> QED BY <1>1, <1>3, <1>6
<1> QED BY <1>4, <1>7

LEMMA PmSends == ASSUME PmInv, NEW t \in PmTargets, NEW a \in PmApps, PmPacket(t, a) PROVE PmInv'
<1> DEFINE inst == <<t[1], a>>
           port == PmFirstFree(t[1])
           x == <<t[1], port>>
<1>1. PmType /\ PmPorts /\ PmInverse BY DEF PmInv
<1>2. CASE inst \in DOMAIN pmClientPorts BY <1>2, PmKeeps DEF PmPacket
<1>3. CASE inst \notin DOMAIN pmClientPorts
  <2>1. /\ t \in DOMAIN pmUdp /\ port < PmRing
        /\ pmClientPorts' = [y \in DOMAIN pmClientPorts \cup {inst} |-> IF y = inst THEN port ELSE pmClientPorts[y]]
        /\ pmReturnPorts' = [y \in DOMAIN pmReturnPorts \cup {x} |-> IF y = x THEN a ELSE pmReturnPorts[y]]
        /\ pmUdp' = [pmUdp EXCEPT ![t].cports = pmUdp[t].cports \cup {inst}]
    BY <1>3 DEF PmPacket, PmSet
  <2>2. port \in Nat /\ x \notin DOMAIN pmReturnPorts BY <2>1, PmFree
  <2>3. t[1] \in PmRemotes BY DEF PmTargets
  <2>4. inst \in PmRemotes \X PmApps /\ x \in PmRemotes \X Nat BY <2>2, <2>3
  <2>5. inst[1] = t[1] /\ inst[2] = a /\ x[1] = t[1] /\ x[2] = port OBVIOUS
  <2>6. inst = <<x[1], a>> /\ x = <<inst[1], port>> OBVIOUS
  <2> HIDE DEF inst, port, x
  <2> DEFINE h == [pmUdp[t] EXCEPT !.cports = pmUdp[t].cports \cup {inst}]
  <2>7. h \in PmHandle /\ h.cports = pmUdp[t].cports \cup {inst}
    <3>1. pmUdp[t] \in PmHandle BY <1>1, <2>1 DEF PmType
    <3>2. pmUdp[t].cports \cup {inst} \in SUBSET (PmRemotes \X PmApps) BY <2>4, <3>1 DEF PmHandle
    <3> QED BY <3>1, <3>2 DEF PmHandle
  <2>8. DOMAIN pmUdp' = DOMAIN pmUdp /\ \A u \in DOMAIN pmUdp : pmUdp'[u] = IF u = t THEN h ELSE pmUdp[u]
    BY <1>1, <2>1 DEF PmType
  <2> HIDE DEF h
  <2>9. pmUdp' \in [DOMAIN pmUdp' -> PmHandle]
    <3>1. pmUdp' = [u \in DOMAIN pmUdp |-> IF u = t THEN h ELSE pmUdp[u]] BY <1>1, <2>1, Zenon DEF PmType, h
    <3> QED BY <1>1, <2>7, <3>1 DEF PmType
  <2>10. PmType'
    <3>1. pmClientPorts' \in [DOMAIN pmClientPorts' -> Nat] /\ DOMAIN pmClientPorts' \subseteq PmRemotes \X PmApps
      BY <1>1, <2>1, <2>2, <2>4 DEF PmType
    <3>2. pmReturnPorts' \in [DOMAIN pmReturnPorts' -> PmApps] /\ DOMAIN pmReturnPorts' \subseteq PmRemotes \X Nat
      BY <1>1, <2>1, <2>4 DEF PmType
    <3> QED BY <1>1, <2>8, <2>9, <3>1, <3>2 DEF PmType
  <2>11. PmPorts'
    <3>1. DOMAIN pmClientPorts' = DOMAIN pmClientPorts \cup {inst} BY <2>1
    <3>2. \A u \in DOMAIN pmUdp : pmUdp'[u].cports = IF u = t THEN pmUdp[t].cports \cup {inst} ELSE pmUdp[u].cports
      BY <2>7, <2>8
    <3>3. \A u \in DOMAIN pmUdp : inst \notin pmUdp[u].cports BY <1>1, <1>3, Zenon DEF PmPorts
    <3>4. \A u \in DOMAIN pmUdp' : \A i \in pmUdp'[u].cports : i[1] = u[1] /\ i \in DOMAIN pmClientPorts'
      BY <1>1, <2>5, <2>8, <3>1, <3>2 DEF PmPorts
    <3>5. \A u, w \in DOMAIN pmUdp' : u # w => pmUdp'[u].cports \cap pmUdp'[w].cports = {}
      BY <1>1, <2>8, <3>2, <3>3 DEF PmPorts
    <3>6. \A i \in DOMAIN pmClientPorts' : \E u \in DOMAIN pmUdp' : i \in pmUdp'[u].cports
      BY <1>1, <2>1, <2>8, <3>1, <3>2 DEF PmPorts
    <3> QED BY <3>4, <3>5, <3>6 DEF PmPorts
  <2>12. PmInverse'
    <3>1. ASSUME NEW i \in DOMAIN pmClientPorts'
          PROVE  /\ <<i[1], pmClientPorts'[i]>> \in DOMAIN pmReturnPorts'
                 /\ pmReturnPorts'[<<i[1], pmClientPorts'[i]>>] = i[2]
      <4>1. CASE i = inst
        <5>1. pmClientPorts'[i] = port BY <2>1, <4>1
        <5>2. <<i[1], pmClientPorts'[i]>> = x BY <2>6, <4>1, <5>1
        <5>3. pmReturnPorts'[x] = a /\ x \in DOMAIN pmReturnPorts' BY <2>1
        <5> QED BY <2>5, <4>1, <5>2, <5>3
      <4>2. CASE i # inst
        <5>1. i \in DOMAIN pmClientPorts /\ pmClientPorts'[i] = pmClientPorts[i] BY <2>1, <4>2
        <5> DEFINE y == <<i[1], pmClientPorts[i]>>
        <5>2. y \in DOMAIN pmReturnPorts /\ pmReturnPorts[y] = i[2] BY <1>1, <5>1 DEF PmInverse
        <5> HIDE DEF y
        <5>3. y \in DOMAIN pmReturnPorts' /\ pmReturnPorts'[y] = i[2] BY <2>1, <2>2, <5>2
        <5> QED BY <5>1, <5>3 DEF y
      <4> QED BY <4>1, <4>2
    <3>2. ASSUME NEW y \in DOMAIN pmReturnPorts'
          PROVE  /\ <<y[1], pmReturnPorts'[y]>> \in DOMAIN pmClientPorts'
                 /\ pmClientPorts'[<<y[1], pmReturnPorts'[y]>>] = y[2]
      <4>1. CASE y = x
        <5>1. pmReturnPorts'[y] = a BY <2>1, <4>1
        <5>2. <<y[1], pmReturnPorts'[y]>> = inst BY <2>6, <4>1, <5>1
        <5>3. pmClientPorts'[inst] = port /\ inst \in DOMAIN pmClientPorts' BY <2>1
        <5> QED BY <2>5, <4>1, <5>2, <5>3
      <4>2. CASE y # x
        <5>1. y \in DOMAIN pmReturnPorts /\ pmReturnPorts'[y] = pmReturnPorts[y] BY <2>1, <4>2
        <5> DEFINE i == <<y[1], pmReturnPorts[y]>>
        <5>2. i \in DOMAIN pmClientPorts /\ pmClientPorts[i] = y[2] BY <1>1, <5>1 DEF PmInverse
        <5> HIDE DEF i
        <5>3. i \in DOMAIN pmClientPorts' /\ pmClientPorts'[i] = y[2] BY <1>3, <2>1, <5>2
        <5> QED BY <5>1, <5>3 DEF i
      <4> QED BY <4>1, <4>2
    <3> QED BY <3>1, <3>2 DEF PmInverse
  <2> QED BY <2>10, <2>11, <2>12 DEF PmInv
<1> QED BY <1>2, <1>3

\* Every claim holds a mapping of a known kind, or nothing.
PmClaimed == pmClaim \in [PmSlots -> {PmNone} \cup ({"udp", "tcp"} \X PmTargets)]

LEMMA PmReleases ==
  ASSUME PmInv, NEW claim \in {PmNone} \cup ({"udp", "tcp"} \X PmTargets), PmRelease(claim)
  PROVE  PmInv'
<1>1. CASE claim = PmNone \/ ~pmAlive BY <1>1, PmKeeps DEF PmRelease, PmHandlesUnchanged
<1>2. CASE ~(claim = PmNone \/ ~pmAlive)
  <2>1. claim[2] \in PmTargets BY <1>2
  <2>2. CASE claim[1] = "udp" BY <1>2, <2>1, <2>2, PmUnmap DEF PmRelease
  <2>3. CASE claim[1] # "udp" BY <1>2, <2>3, PmKeeps DEF PmRelease, unmap_tcp_remote_port
  <2> QED BY <2>2, <2>3
<1> QED BY <1>1, <1>2

LEMMA PmStep == ASSUME PmInv, PmClaimed, [PmNext]_pmvars PROVE PmInv' /\ PmClaimed'
<1>1. CASE \E c \in PmSlots, t \in PmTargets : \E kind \in {"udp", "tcp"} : establish(c, kind, t)
  <2>1. PICK c \in PmSlots, t \in PmTargets, kind \in {"udp", "tcp"} : establish(c, kind, t) BY <1>1
  <2>2. PmClaimed' BY <2>1 DEF establish, PmClaimed
  <2>3. CASE kind = "udp" BY <2>1, <2>2, <2>3, PmMap DEF establish
  <2>4. CASE kind # "udp" BY <2>1, <2>2, <2>4, PmKeeps DEF establish, map_tcp_remote_port
  <2> QED BY <2>3, <2>4
<1>2. CASE \E c \in PmSlots : claim_reset(c)
  <2>1. PICK c \in PmSlots : claim_reset(c) BY <1>2
  <2>2. PmInv' BY <2>1, PmReleases DEF claim_reset, PmClaimed
  <2> QED BY <2>1, <2>2 DEF claim_reset, PmClaimed
<1>3. CASE \E dst, src \in PmSlots : move_assign(dst, src)
  <2>1. PICK dst \in PmSlots, src \in PmSlots : move_assign(dst, src) BY <1>3
  <2>2. PmInv' BY <2>1, PmReleases DEF move_assign, PmClaimed
  <2> QED BY <2>1, <2>2 DEF move_assign, PmClaimed, PmMoved
<1>4. CASE PmDestroy BY <1>4, PmEmpty DEF PmDestroy, PmClaimed
<1>5. CASE \E t \in PmTargets : \E a \in PmApps : PmPacket(t, a)
  BY <1>5, PmSends DEF PmPacket, PmClaimed
<1>6. CASE \E t \in PmTargets : tunnel_tcp_connection(t) BY <1>6, PmKeeps DEF tunnel_tcp_connection, PmClaimed
<1>7. CASE \E t \in PmTargets : \E n \in 0 .. PmMaxConns : PmConnsEnd(t, n) BY <1>7, PmKeeps DEF PmConnsEnd, PmClaimed
<1>8. CASE \E r \in PmRemotes : PmSessionClosed(r) BY <1>8, PmKeeps DEF PmSessionClosed, PmClaimed
<1>9. CASE UNCHANGED pmvars BY <1>9, PmKeeps DEF pmvars, PmClaimed
<1> QED BY <1>1, <1>2, <1>3, <1>4, <1>5, <1>6, <1>7, <1>8, <1>9, Zenon DEF PmNext

(***************************************************************************)
(* For any remotes, applications and claims and any number of pseudo       *)
(* ports: the two port maps stay inverse to each other, and each pair is   *)
(* owned by exactly one mapping (map_udp_remote_port,                      *)
(* unmap_udp_remote_port and the datagram handler).                        *)
(***************************************************************************)
THEOREM PortsOwned == PmSpec => []PortsAreOwned
<1>1. PmInit => PmInv /\ PmClaimed
  <2> SUFFICES ASSUME PmInit PROVE PmInv /\ PmClaimed OBVIOUS
  <2>1. PmInv BY DEF PmInit, PmInv, PmType, PmPorts, PmInverse, PmNothing
  <2> QED BY <2>1 DEF PmInit, PmClaimed
<1>2. PmInv => PortsAreOwned
  <2> SUFFICES ASSUME PmInv PROVE PortsAreOwned OBVIOUS
  <2>1. PmPorts /\ PmInverse BY DEF PmInv
  <2>2. ASSUME NEW i \in DOMAIN pmClientPorts
        PROVE  \E t \in DOMAIN pmUdp :
                  /\ t[1] = i[1] /\ i \in pmUdp[t].cports
                  /\ \A u \in DOMAIN pmUdp \ {t} : i \notin pmUdp[u].cports
    BY <2>1 DEF PmPorts
  <2> QED BY <2>1, <2>2 DEF PmInverse, PortsAreOwned
<1> QED BY <1>1, <1>2, PmStep, PTL DEF PmSpec

-----------------------------------------------------------------------------
(***************************************************************************)
(* DNS: the records of a reply form one chain from the question.           *)
(***************************************************************************)
DnSpec == DnInit /\ [][DnNext]_dnvars

\* The words and names that can occur.
DnWords ==
    {"", "localhost", "us", "pk", "sesh", "snode", "loki", "CNAME", "TXT", "A", "AAAA", "SRV", "PTR",
     "version", "rc", "path", "srv"}
    \cup {q.type : q \in DnQueries} \cup {q.name.sub : q \in DnQueries}
    \cup {q.name.host : q \in DnQueries} \cup {q.name.tld : q \in DnQueries}
DnProper == [sub : DnWords, host : DnWords, tld : DnWords]
DnRecord == [owner : DnProper, type : DnWords, value : DnProper \cup DnWords]
DnMsg == [q : DnQueries, rr : DnProper, answers : Seq(DnRecord), soa : BOOLEAN, aa : BOOLEAN, rcode : Nat,
          edns : BOOLEAN]

\* A record under name n may follow the record r in the answer to q.
DnNextOf(q, r, n) ==
    IF r.type = "CNAME" /\ q.name.tld \in LocalTlds THEN DnBare(n) = DnBare(r.value) ELSE n = r.owner

\* A record under name n may come next in the answers a to q.
DnFollows(q, a, n) ==
    IF a = <<>> THEN DnBare(n) = DnBare(q.name) ELSE DnNextOf(q, a[Len(a)], n)

DnLinked(q, a) ==
    a # <<>> => /\ DnBare(a[1].owner) = DnBare(q.name)
                /\ \A j \in 2..Len(a) : DnNextOf(q, a[j - 1], a[j].owner)

DnChain(q, a) ==
    DnLinked(q, a) /\ (a # <<>> => (a[Len(a)].type # "CNAME" => a[Len(a)].owner.sub = q.name.sub))

\* A message that may be sent, and one to which records under its rr name may be added.
DnGood(m) == m \in DnMsg /\ DnChain(m.q, m.answers)
DnReady(m) == DnGood(m) /\ DnFollows(m.q, m.answers, m.rr) /\ m.rr.sub = m.q.name.sub

\* A message that waits for something.
DnWaits(for, m) ==
    \/ for = "sns" /\ DnReady(m) /\ m.answers = <<>> /\ m.q.name.tld \in LocalTlds
    \/ for = "cc" /\ DnReady(m)
    \/ for = "unbound" /\ DnReady(m) /\ m.answers = <<>> /\ m.q.name.tld \notin LocalTlds

\* The outcome r of handling a request for q.
DnFine(r, q) == r.m \in DnMsg /\ r.m.q = q /\ ((r.to = "reply" /\ DnGood(r.m)) \/ (r.to # "reply" /\ DnWaits(r.to, r.m)))

DnSlotOK(r, out) ==
    \/ r = DnNone /\ out = <<>>
    \/ \E for \in {"sns", "cc", "unbound"}, m \in DnMsg :
            r = [stage |-> for, m |-> m] /\ out = <<>> /\ DnWaits(for, m)
    \/ \E q \in DnQueries :
            /\ r = [stage |-> "done", q |-> q]
            /\ out = <<>> \/ \E b : out = <<b>> /\ DnChain(q, b.answers)

DnInv ==
    /\ dnReq = [s \in DnSlots |-> dnReq[s]] /\ dnOut = [s \in DnSlots |-> dnOut[s]]
    /\ \A s \in DnSlots : DnSlotOK(dnReq[s], dnOut[s])

-----------------------------------------------------------------------------
LEMMA DnSeqEnd ==
    ASSUME NEW a \in Seq(DnRecord), NEW r \in DnRecord
    PROVE  /\ Append(a, r) \in Seq(DnRecord) /\ Append(a, r) # <<>> /\ Len(a) \in Nat
           /\ Len(Append(a, r)) = Len(a) + 1 /\ Append(a, r)[Len(a) + 1] = r
           /\ \A i \in 1..Len(a) : Append(a, r)[i] = a[i]
           /\ a = <<>> <=> Len(a) = 0
OBVIOUS

\* A record under a name that may come next keeps the answers linked.
LEMMA DnAppended ==
    ASSUME NEW q \in DnQueries, NEW a \in Seq(DnRecord), NEW r \in DnRecord,
           DnLinked(q, a), DnFollows(q, a, r.owner)
    PROVE  DnLinked(q, Append(a, r))
<1> DEFINE b == Append(a, r)
<1>1. /\ b \in Seq(DnRecord) /\ b # <<>> /\ Len(a) \in Nat /\ Len(b) = Len(a) + 1
      /\ b[Len(a) + 1] = r /\ \A i \in 1..Len(a) : b[i] = a[i]
      /\ a = <<>> <=> Len(a) = 0
    BY DnSeqEnd
<1> HIDE DEF b
<1>2. CASE a = <<>>
    <2>1. Len(b) = 1 /\ b[1] = r BY <1>1, <1>2
    <2>2. DnBare(b[1].owner) = DnBare(q.name) BY <1>2, <2>1 DEF DnFollows
    <2> QED BY <2>1, <2>2 DEF DnLinked, b
<1>3. CASE a # <<>>
    <2>1. Len(a) >= 1 BY <1>1, <1>3
    <2>2. b[1] = a[1] BY <1>1, <2>1
    <2>3. DnBare(b[1].owner) = DnBare(q.name) BY <1>3, <2>2, Zenon DEF DnLinked
    <2>4. ASSUME NEW j \in 2..Len(b) PROVE DnNextOf(q, b[j - 1], b[j].owner)
        <3>1. CASE j = Len(a) + 1
            <4>1. b[j - 1] = a[Len(a)] /\ b[j] = r BY <1>1, <2>1, <3>1
            <4> QED BY <1>3, <4>1, Zenon DEF DnFollows
        <3>2. CASE j # Len(a) + 1
            <4>1. j \in 2..Len(a) /\ b[j - 1] = a[j - 1] /\ b[j] = a[j] BY <1>1, <3>2
            <4> QED BY <1>3, <4>1, Zenon DEF DnLinked
        <3> QED BY <3>1, <3>2, Zenon
    <2> QED BY <2>3, <2>4, Zenon DEF DnLinked, b
<1> QED BY <1>2, <1>3, Zenon

\* Records of one name that ends the chain may be added to it together.
LEMMA DnExtended ==
    ASSUME NEW q \in DnQueries, NEW a \in Seq(DnRecord), NEW b \in Seq(DnRecord), NEW n \in DnProper,
           DnChain(q, a), DnFollows(q, a, n), n.sub = q.name.sub,
           \A i \in 1..Len(b) : b[i].owner = n /\ b[i].type # "CNAME"
    PROVE  a \o b \in Seq(DnRecord) /\ DnChain(q, a \o b)
<1> DEFINE c == a \o b
<1>1. /\ c \in Seq(DnRecord) /\ Len(a) \in Nat /\ Len(b) \in Nat /\ Len(c) = Len(a) + Len(b)
      /\ \A i \in 1..Len(a) : c[i] = a[i]
      /\ \A i \in Len(a) + 1..Len(a) + Len(b) : c[i] = b[i - Len(a)]
      /\ a = <<>> <=> Len(a) = 0
      /\ c = <<>> <=> Len(c) = 0
    OBVIOUS
<1>2. CASE Len(b) = 0
    <2>1. c = a BY <1>1, <1>2
    <2> QED BY <1>1, <2>1, Zenon
<1> HIDE DEF c
<1>3. CASE Len(b) # 0
    <2>1. Len(c) >= 1 /\ Len(c) >= Len(a) + 1 /\ c # <<>> BY <1>1, <1>3
    <2>2. ASSUME NEW i \in Len(a) + 1..Len(c) PROVE c[i].owner = n /\ c[i].type # "CNAME"
        <3>1. i - Len(a) \in 1..Len(b) /\ c[i] = b[i - Len(a)] BY <1>1
        <3> QED BY <3>1
    <2>3. DnBare(c[1].owner) = DnBare(q.name)
        <3>1. CASE a = <<>>
            <4>1. c[1].owner = n BY <1>1, <2>1, <2>2, <3>1
            <4> QED BY <3>1, <4>1, Zenon DEF DnFollows
        <3>2. CASE a # <<>>
            <4>1. c[1] = a[1] BY <1>1, <3>2
            <4> QED BY <3>2, <4>1, Zenon DEF DnChain, DnLinked
        <3> QED BY <3>1, <3>2, Zenon
    <2>4. ASSUME NEW j \in 2..Len(c) PROVE DnNextOf(q, c[j - 1], c[j].owner)
        <3>1. CASE j <= Len(a)
            <4>1. j \in 2..Len(a) /\ j - 1 \in 1..Len(a) /\ j \in 1..Len(a) /\ Len(a) # 0 BY <1>1, <3>1
            <4>2. c[j - 1] = a[j - 1] /\ c[j] = a[j] /\ a # <<>> BY <1>1, <4>1, Zenon
            <4> QED BY <4>1, <4>2, Zenon DEF DnChain, DnLinked
        <3>2. CASE j = Len(a) + 1
            <4>1. c[j - 1] = a[Len(a)] /\ c[j].owner = n /\ a # <<>> BY <1>1, <2>2, <3>2
            <4> QED BY <4>1, Zenon DEF DnFollows
        <3>3. CASE j > Len(a) + 1
            <4>1. j \in Len(a) + 1..Len(c) /\ j - 1 \in Len(a) + 1..Len(c) BY <1>1, <3>3
            <4>2. c[j].owner = n /\ c[j - 1].owner = n /\ c[j - 1].type # "CNAME" BY SMTT(30), <2>2, <4>1
            <4> QED BY <4>2, Zenon DEF DnNextOf
        <3> QED BY <1>1, <3>1, <3>2, <3>3
    <2>5. c[Len(c)].owner = n BY <1>1, <2>1, <2>2
    <2> QED BY <1>1, <2>3, <2>4, <2>5, Zenon DEF DnChain, DnLinked, c
<1> QED BY <1>2, <1>3, Zenon

-----------------------------------------------------------------------------
(* What the operations of a message do to it. *)

\* r is m with its records and its names.
DnKeeps(m, r) == r \in DnMsg /\ r.q = m.q /\ r.rr = m.rr /\ r.answers = m.answers

LEMMA DnFlagged ==
    ASSUME NEW m \in DnMsg
    PROVE  DnKeeps(m, add_nx_soa(m)) /\ DnKeeps(m, add_nodata_reply(m)) /\ DnKeeps(m, nxdomain(m))
<1>1. DnKeeps(m, add_nx_soa(m)) BY Zenon DEF DnMsg, DnKeeps, add_nx_soa
<1>2. DnKeeps(m, add_nodata_reply(m)) BY Zenon DEF DnMsg, DnKeeps, add_nodata_reply
<1>3. DnKeeps(m, nxdomain(m))
    <2> DEFINE h == [m EXCEPT !.rcode = 3]
    <2>1. DnKeeps(m, h) BY DEF DnMsg, DnKeeps
    <2>2. nxdomain(m) = [h EXCEPT !.aa = TRUE] BY DEF nxdomain
    <2> HIDE DEF h
    <2> QED BY <2>1, <2>2, Zenon DEF DnMsg, DnKeeps
<1> QED BY <1>1, <1>2, <1>3, Zenon

LEMMA DnFailed ==
    ASSUME NEW m \in DnMsg, NEW rcode \in Nat
    PROVE  /\ DnFailure(m, rcode) \in DnMsg /\ DnFailure(m, rcode).q = m.q
           /\ DnFailure(m, rcode).answers = <<>>
<1> DEFINE h == [m EXCEPT !.answers = <<>>]
           k == [h EXCEPT !.rcode = rcode]
<1>1. h \in DnMsg /\ h.q = m.q /\ h.answers = <<>>
    <2>1. <<>> \in Seq(DnRecord) OBVIOUS
    <2> QED BY <2>1, Zenon DEF DnMsg
<1>2. DnFailure(m, rcode) = [k EXCEPT !.aa = FALSE] BY DEF DnFailure
<1> HIDE DEF h
<1>3. k \in DnMsg /\ k.q = m.q /\ k.answers = <<>> BY <1>1 DEF DnMsg
<1> HIDE DEF k
<1> QED BY <1>2, <1>3, Zenon DEF DnMsg

LEMMA DnNamed ==
    ASSUME NEW m \in DnMsg, NEW n \in DnProper
    PROVE  /\ set_rr_name(m, n) \in DnMsg /\ set_rr_name(m, n).q = m.q
           /\ set_rr_name(m, n).rr = n /\ set_rr_name(m, n).answers = m.answers
BY DEF DnMsg, set_rr_name

LEMMA DnReplied ==
    ASSUME NEW m \in DnMsg, NEW type \in DnWords, NEW value \in DnProper \cup DnWords
    PROVE  /\ make_reply(m, type, value) \in DnMsg /\ make_reply(m, type, value).q = m.q
           /\ make_reply(m, type, value).rr = m.rr
           /\ make_reply(m, type, value).answers
                = Append(m.answers, [owner |-> m.rr, type |-> type, value |-> value])
<1> DEFINE rec == [owner |-> m.rr, type |-> type, value |-> value]
           h == [m EXCEPT !.aa = TRUE]
<1>1. rec \in DnRecord /\ m.answers \in Seq(DnRecord) BY DEF DnMsg, DnRecord
<1>2. h \in DnMsg /\ h.q = m.q /\ h.rr = m.rr /\ h.answers = m.answers BY Zenon DEF DnMsg
<1>3. make_reply(m, type, value) = [h EXCEPT !.answers = Append(h.answers, rec)] BY DEF make_reply
<1> HIDE DEF h, rec
<1>4. Append(h.answers, rec) \in Seq(DnRecord) BY <1>1, <1>2, DnSeqEnd
<1>5. /\ make_reply(m, type, value) \in DnMsg /\ make_reply(m, type, value).q = m.q
      /\ make_reply(m, type, value).rr = m.rr
      /\ make_reply(m, type, value).answers = Append(m.answers, rec)
    BY <1>2, <1>3, <1>4, Zenon DEF DnMsg
<1> QED BY <1>5, Zenon DEF rec

\* A record under the name of the question ends the chain.
LEMMA DnAnswered ==
    ASSUME NEW m, DnReady(m), NEW type \in DnWords \ {"CNAME"}, NEW value \in DnProper \cup DnWords
    PROVE  DnGood(make_reply(m, type, value)) /\ make_reply(m, type, value).q = m.q
<1> DEFINE rec == [owner |-> m.rr, type |-> type, value |-> value]
           r == make_reply(m, type, value)
<1>1. m \in DnMsg /\ m.q \in DnQueries /\ m.answers \in Seq(DnRecord) /\ m.rr \in DnProper BY DEF DnReady, DnGood, DnMsg
<1>2. r \in DnMsg /\ r.q = m.q /\ r.answers = Append(m.answers, rec) BY <1>1, DnReplied, Zenon
<1>3. rec \in DnRecord /\ rec.owner = m.rr /\ rec.type # "CNAME" BY <1>1 DEF DnRecord
<1>4. DnLinked(m.q, m.answers) /\ DnFollows(m.q, m.answers, m.rr) /\ m.rr.sub = m.q.name.sub
    BY Zenon DEF DnReady, DnGood, DnChain
<1> HIDE DEF rec, r
<1>5. DnLinked(m.q, r.answers) BY <1>1, <1>2, <1>3, <1>4, DnAppended, Zenon
<1>6. r.answers[Len(r.answers)] = rec BY <1>1, <1>2, <1>3, DnSeqEnd
<1>7. DnChain(m.q, r.answers) BY <1>3, <1>4, <1>5, <1>6, Zenon DEF DnChain
<1> QED BY <1>2, <1>7, Zenon DEF DnGood, r

\* An alias may be added wherever its name may come next; names of its target may follow it.
LEMMA DnAliased ==
    ASSUME NEW m \in DnMsg, DnLinked(m.q, m.answers), DnFollows(m.q, m.answers, m.rr), NEW target \in DnProper
    PROVE  /\ DnGood(add_cname_reply(m, target)) /\ add_cname_reply(m, target).q = m.q
           /\ m.q.name.tld \in LocalTlds =>
                \A n \in DnProper : DnBare(n) = DnBare(target)
                    => DnFollows(m.q, add_cname_reply(m, target).answers, n)
<1> DEFINE rec == [owner |-> m.rr, type |-> "CNAME", value |-> target]
           r == add_cname_reply(m, target)
<1>1. m.q \in DnQueries /\ m.answers \in Seq(DnRecord) /\ m.rr \in DnProper BY DEF DnMsg
<1>w. "CNAME" \in DnWords BY DEF DnWords
<1>2. r \in DnMsg /\ r.q = m.q /\ r.answers = Append(m.answers, rec) BY <1>w, DnReplied DEF add_cname_reply
<1>3. rec \in DnRecord /\ rec.owner = m.rr /\ rec.type = "CNAME" /\ rec.value = target BY <1>1, <1>w, Zenon DEF DnRecord
<1> HIDE DEF rec, r
<1>4. DnLinked(m.q, r.answers) BY <1>1, <1>2, <1>3, DnAppended, ZenonT(30)
<1>5. r.answers[Len(r.answers)] = rec /\ r.answers # <<>> BY <1>1, <1>2, <1>3, DnSeqEnd
<1>6. DnChain(m.q, r.answers) BY <1>3, <1>4, <1>5, Zenon DEF DnChain
<1>7. ASSUME m.q.name.tld \in LocalTlds, NEW n \in DnProper, DnBare(n) = DnBare(target)
      PROVE  DnFollows(m.q, r.answers, n)
    BY <1>3, <1>5, <1>7, Zenon DEF DnFollows, DnNextOf
<1> QED BY <1>2, <1>6, <1>7, Zenon DEF DnGood, r

\* A reply to q that may be sent.
DnSays(r, q) == DnGood(r) /\ r.q = q

LEMMA DnRefusals ==
    ASSUME NEW m, DnGood(m)
    PROVE  /\ DnSays(nxdomain(m), m.q) /\ DnSays(nxdomain(add_nx_soa(m)), m.q)
           /\ DnSays(add_nx_soa(nxdomain(m)), m.q) /\ DnSays(add_nx_soa(add_nodata_reply(m)), m.q)
           /\ DnSays(servfail(m), m.q) /\ DnSays(formerr(m), m.q) /\ DnSays(refused(m), m.q)
<1>1. m \in DnMsg /\ DnChain(m.q, m.answers) BY Zenon DEF DnGood
<1>2. ASSUME NEW k, NEW r, DnSays(k, m.q), DnKeeps(k, r) PROVE DnSays(r, m.q)
    BY <1>2, Zenon DEF DnSays, DnKeeps, DnGood
<1>3. ASSUME NEW k, DnSays(k, m.q)
      PROVE  DnKeeps(k, add_nx_soa(k)) /\ DnKeeps(k, add_nodata_reply(k)) /\ DnKeeps(k, nxdomain(k))
    BY <1>3, DnFlagged, Zenon DEF DnSays, DnGood
<1>4. DnSays(m, m.q) BY Zenon DEF DnSays
<1>5. DnSays(nxdomain(m), m.q) /\ DnSays(add_nx_soa(m), m.q) /\ DnSays(add_nodata_reply(m), m.q)
    BY <1>2, <1>3, <1>4, Zenon
<1>6. DnSays(nxdomain(add_nx_soa(m)), m.q) /\ DnSays(add_nx_soa(nxdomain(m)), m.q) /\ DnSays(add_nx_soa(add_nodata_reply(m)), m.q)
    BY <1>2, <1>3, <1>5, ZenonT(30)
<1>7. ASSUME NEW rcode \in Nat PROVE DnSays(DnFailure(m, rcode), m.q)
    BY SMTT(30), <1>1, DnFailed DEF DnSays, DnGood, DnChain, DnLinked
<1>8. DnSays(servfail(m), m.q) /\ DnSays(formerr(m), m.q) /\ DnSays(refused(m), m.q)
    BY <1>7 DEF servfail, formerr, refused
<1> QED BY <1>5, <1>6, <1>8, Zenon

LEMMA DnTxtSays ==
    ASSUME NEW m, DnReady(m), NEW n, NEW localhost, NEW e
    PROVE  DnSays(DnTxt(m, n, localhost, e), m.q)
<1>1. ASSUME NEW v \in DnWords PROVE DnSays(make_reply(m, "TXT", v), m.q)
    <2>1. "TXT" \in DnWords \ {"CNAME"} BY Zenon DEF DnWords
    <2> QED BY <1>1, <2>1, DnAnswered, Zenon DEF DnSays
<1>2. DnSays(make_reply(m, "TXT", "version"), m.q) /\ DnSays(make_reply(m, "TXT", "rc"), m.q) /\ DnSays(make_reply(m, "TXT", "path"), m.q)
    <2>1. {"version", "rc", "path"} \subseteq DnWords BY DEF DnWords
    <2> QED BY <1>1, <2>1
<1>3. DnSays(nxdomain(add_nx_soa(m)), m.q) BY DnRefusals, Zenon DEF DnReady
<1> QED BY <1>2, <1>3, Zenon DEF DnTxt

LEMMA DnBareName == ASSUME NEW n \in DnProper PROVE DnBare(n) \in DnProper
<1>1. "" \in DnWords BY DEF DnWords
<1> QED BY <1>1, Zenon DEF DnBare, DnName, DnProper

LEMMA DnMappedSays ==
    ASSUME NEW m, DnReady(m), NEW n \in DnProper, NEW e
    PROVE  DnSays(DnMapped(m, n, e), m.q)
<1>1. DnSays(make_reply(m, "A", DnBare(n)), m.q) /\ DnSays(make_reply(m, "AAAA", DnBare(n)), m.q)
    <2>1. DnBare(n) \in DnProper BY DnBareName
    <2>2. {"A", "AAAA"} \subseteq DnWords \ {"CNAME"} BY DEF DnWords
    <2> QED BY <2>1, <2>2, DnAnswered DEF DnSays
<1>2. DnSays(nxdomain(add_nx_soa(m)), m.q) /\ DnSays(add_nx_soa(add_nodata_reply(m)), m.q) /\ DnSays(servfail(m), m.q)
    BY DnRefusals, Zenon DEF DnReady
<1> QED BY <1>1, <1>2, Zenon DEF DnMapped

LEMMA DnReplyFine == ASSUME NEW m, NEW q, DnSays(m, q) PROVE DnFine(DnReply(m), q)
<1>1. DnReply(m).to = "reply" /\ DnReply(m).m = m BY DEF DnReply
<1> QED BY <1>1, Zenon DEF DnFine, DnSays, DnGood

LEMMA DnWaitFine ==
    ASSUME NEW m, NEW for \in {"sns", "cc", "unbound"}, DnWaits(for, m)
    PROVE  DnFine(DnWait(for, m), m.q)
<1>1. DnWait(for, m).to = for /\ DnWait(for, m).m = m BY DEF DnWait
<1>2. m \in DnMsg BY Zenon DEF DnWaits, DnReady, DnGood
<1>3. for # "reply" OBVIOUS
<1> QED BY <1>1, <1>2, <1>3, Zenon DEF DnFine

LEMMA DnByTypeFine ==
    ASSUME NEW m, DnReady(m), NEW n \in DnProper, NEW localhost, NEW e
    PROVE  DnFine(DnByType(m, n, localhost, e), m.q)
<1>1. DnFine(DnReply(DnTxt(m, n, localhost, e)), m.q) BY DnTxtSays, DnReplyFine
<1>2. DnFine(DnReply(DnMapped(m, n, e)), m.q) BY DnMappedSays, DnReplyFine
<1>3. DnFine(DnReply(nxdomain(add_nx_soa(m))), m.q) BY DnRefusals, DnReplyFine, Zenon DEF DnReady
<1>4. DnFine(DnWait("cc", m), m.q) BY DnWaitFine, Zenon DEF DnWaits
<1> QED BY <1>1, <1>2, <1>3, <1>4, Zenon DEF DnByType

-----------------------------------------------------------------------------
(* handle_local: every way to an answer keeps the chain. *)

LEMMA DnNameFacts ==
    ASSUME NEW sub \in DnWords, NEW host \in DnWords, NEW tld \in DnWords
    PROVE  /\ DnName(sub, host, tld) \in DnProper /\ DnName(sub, host, tld).sub = sub
           /\ DnBare(DnName(sub, host, tld)) = DnName("", host, tld)
BY DEF DnName, DnBare, DnProper

\* A renamed message that may be aliased.
LEMMA DnRenamed ==
    ASSUME NEW m \in DnMsg, DnLinked(m.q, m.answers), NEW n \in DnProper, DnFollows(m.q, m.answers, n),
           NEW target \in DnProper
    PROVE  /\ DnGood(add_cname_reply(set_rr_name(m, n), target))
           /\ add_cname_reply(set_rr_name(m, n), target).q = m.q
           /\ m.q.name.tld \in LocalTlds =>
                \A k \in DnProper : DnBare(k) = DnBare(target)
                    => DnFollows(m.q, add_cname_reply(set_rr_name(m, n), target).answers, k)
<1> DEFINE h == set_rr_name(m, n)
<1>1. h \in DnMsg /\ h.q = m.q /\ h.rr = n /\ h.answers = m.answers BY DnNamed
<1> HIDE DEF h
<1>2. DnLinked(h.q, h.answers) /\ DnFollows(h.q, h.answers, h.rr) BY <1>1
<1>3. /\ DnGood(add_cname_reply(h, target)) /\ add_cname_reply(h, target).q = m.q
      /\ m.q.name.tld \in LocalTlds =>
            \A k \in DnProper : DnBare(k) = DnBare(target) => DnFollows(m.q, add_cname_reply(h, target).answers, k)
    <2> HIDE DEF DnFollows
    <2> QED BY <1>1, <1>2, DnAliased, Zenon
<1> QED BY <1>3, Zenon DEF h

LEMMA DnReadied ==
    ASSUME NEW m, DnGood(m), NEW n \in DnProper, DnFollows(m.q, m.answers, n), n.sub = m.q.name.sub
    PROVE  DnReady(set_rr_name(m, n)) /\ set_rr_name(m, n).q = m.q
<1>1. m \in DnMsg BY Zenon DEF DnGood
<1>2. /\ set_rr_name(m, n) \in DnMsg /\ set_rr_name(m, n).q = m.q
      /\ set_rr_name(m, n).rr = n /\ set_rr_name(m, n).answers = m.answers
    BY <1>1, DnNamed
<1> QED BY <1>2, Zenon DEF DnReady, DnGood

LEMMA DnEmpty ==
    ASSUME NEW m \in DnMsg, m.answers = <<>>
    PROVE  /\ DnGood(m) /\ DnLinked(m.q, m.answers)
           /\ \A n : DnBare(n) = DnBare(m.q.name) => DnFollows(m.q, m.answers, n)
BY Zenon DEF DnGood, DnChain, DnLinked, DnFollows

LEMMA DnLocalhostFine ==
    ASSUME NEW m \in DnMsg, m.answers = <<>>, m.q.name \in DnProper, m.q.name.host = "localhost",
           m.q.name.tld \in LocalTlds \ {"snode"}, NEW e
    PROVE  DnFine(DnLocalhost(m, m.q.name, e), m.q)
<1> DEFINE n == m.q.name
           L == DnName("", "localhost", "loki")
           S == DnName("", "localhost", "sesh")
           U == DnName("", "us", "sesh")
           us == DnName(n.sub, "us", "sesh")
           m1 == IF n.tld = "loki" THEN add_cname_reply(set_rr_name(m, L), S) ELSE m
           m2 == add_cname_reply(set_rr_name(m1, S), U)
<1>1. /\ "" \in DnWords /\ "localhost" \in DnWords /\ "us" \in DnWords /\ "sesh" \in DnWords
      /\ "loki" \in DnWords /\ n.sub \in DnWords
      /\ n.tld \in {"sesh", "loki"}
    BY Zenon DEF DnWords, DnProper, LocalTlds
<1>2. /\ L \in DnProper /\ S \in DnProper /\ U \in DnProper /\ us \in DnProper /\ us.sub = n.sub
      /\ DnBare(L) = L /\ DnBare(S) = S /\ DnBare(us) = U /\ DnBare(U) = U
    <2>1. L \in DnProper /\ S \in DnProper /\ U \in DnProper BY <1>1, DnNameFacts, Zenon
    <2>2. us \in DnProper /\ us.sub = n.sub BY <1>1, Zenon DEF DnName, DnProper
    <2>3. DnBare(L) = L /\ DnBare(S) = S /\ DnBare(U) = U BY DEF DnBare, DnName
    <2>4. DnBare(us) = U BY Zenon DEF DnBare, DnName
    <2> QED BY <2>1, <2>2, <2>3, <2>4, Zenon
<1>3. DnBare(n) = IF n.tld = "loki" THEN L ELSE S
    BY <1>1, Zenon DEF DnBare, DnName
<1>4. DnLocalhost(m, n, e) = IF m.q.type = "CNAME" THEN DnReply(m2) ELSE DnByType(set_rr_name(m2, us), us, TRUE, e)
    BY Zenon DEF DnLocalhost
<1>5. m.q.name.tld \in LocalTlds OBVIOUS
<1> HIDE DEF n, L, S, U, us
<1>6. m1 \in DnMsg /\ m1.q = m.q /\ DnLinked(m1.q, m1.answers) /\ DnFollows(m1.q, m1.answers, S)
    <2>1. CASE n.tld = "loki"
        <3>1. DnLinked(m.q, m.answers) /\ DnFollows(m.q, m.answers, L) BY <1>2, <1>3, <2>1, DnEmpty, Zenon DEF n
        <3>2. DnGood(m1) /\ m1.q = m.q /\ DnFollows(m1.q, m1.answers, S)
            BY <1>2, <1>5, <2>1, <3>1, DnRenamed, Zenon
        <3> QED BY <3>2, Zenon DEF DnGood, DnChain
    <2>2. CASE n.tld # "loki"
        BY <1>2, <1>3, <2>2, DnEmpty, Zenon DEF n
    <2> QED BY <2>1, <2>2, Zenon
<1> HIDE DEF m1
<1>7. DnGood(m2) /\ m2.q = m.q /\ DnFollows(m.q, m2.answers, us) BY <1>2, <1>5, <1>6, DnRenamed, ZenonT(30)
<1> HIDE DEF m2
<1>8. DnReady(set_rr_name(m2, us)) /\ set_rr_name(m2, us).q = m.q BY <1>2, <1>7, DnReadied, ZenonT(30) DEF n
<1>9. DnFine(DnReply(m2), m.q) BY <1>7, DnReplyFine, Zenon DEF DnSays
<1>10. DnFine(DnByType(set_rr_name(m2, us), us, TRUE, e), m.q) BY <1>2, <1>8, DnByTypeFine, Zenon
<1> QED BY <1>4, <1>9, <1>10, Zenon DEF n

LEMMA DnRandomFine ==
    ASSUME NEW m, DnReady(m), m.answers = <<>>, m.q.name = DnName("", "random", "snode"), NEW e
    PROVE  DnFine(DnRandom(m, m.q.name, e), m.q)
<1> DEFINE pick == DnName("", "pk", "snode")
           m1 == add_cname_reply(m, pick)
<1>0. "" \in DnWords /\ "pk" \in DnWords /\ "snode" \in DnWords BY Zenon DEF DnWords
<1>1. m.q.name.tld \in LocalTlds /\ m.q.name.sub = ""
    <2> DEFINE n == DnName("", "random", "snode")
    <2>1. n.tld \in LocalTlds /\ n.sub = "" BY Zenon DEF LocalTlds, DnName
    <2> QED BY <2>1, Zenon
<1>2. pick \in DnProper /\ pick.sub = "" /\ DnBare(pick) = pick
    <2>1. pick \in DnProper BY <1>0, DnNameFacts, Zenon
    <2>2. pick.sub = "" BY <1>0, DnNameFacts, ZenonT(30)
    <2>3. DnBare(pick) = pick BY Zenon DEF DnBare, DnName
    <2> QED BY <2>1, <2>2, <2>3, Zenon
<1>3. DnRandom(m, m.q.name, e) = IF ~e.rc THEN DnReply(nxdomain(m))
                                 ELSE IF m.q.type = "CNAME" THEN DnReply(m1)
                                 ELSE DnByType(set_rr_name(m1, pick), pick, FALSE, e)
    BY Zenon DEF DnRandom
<1>4. m \in DnMsg /\ DnGood(m) /\ DnLinked(m.q, m.answers) /\ DnFollows(m.q, m.answers, m.rr)
    BY Zenon DEF DnReady, DnGood, DnChain
<1> HIDE DEF pick
<1>5. DnGood(m1) /\ m1.q = m.q /\ DnFollows(m.q, m1.answers, pick) BY <1>1, <1>2, <1>4, DnAliased, Zenon
<1> HIDE DEF m1
<1>6. DnReady(set_rr_name(m1, pick)) /\ set_rr_name(m1, pick).q = m.q BY <1>1, <1>2, <1>5, DnReadied, Zenon
<1>7. DnFine(DnReply(nxdomain(m)), m.q) BY <1>4, DnRefusals, DnReplyFine, Zenon
<1>8. DnFine(DnReply(m1), m.q) BY <1>5, DnReplyFine, Zenon DEF DnSays
<1>9. DnFine(DnByType(set_rr_name(m1, pick), pick, FALSE, e), m.q) BY <1>2, <1>6, DnByTypeFine, Zenon
<1> QED BY <1>3, <1>7, <1>8, <1>9, Zenon

LEMMA DnHandled ==
    ASSUME NEW m, DnReady(m), m.answers = <<>>, m.q.name \in DnProper, m.q.name.tld \in LocalTlds, NEW e
    PROVE  DnFine(handle_local(m, m.q.name, e), m.q)
<1> DEFINE n == m.q.name
<1>1. m \in DnMsg BY Zenon DEF DnReady, DnGood
<1>2. n.host = "localhost" /\ n.tld # "snode" => DnFine(DnLocalhost(m, n, e), m.q) BY <1>1, DnLocalhostFine, Zenon
<1>3. n = DnName("", "random", "snode") => DnFine(DnRandom(m, n, e), m.q) BY DnRandomFine, Zenon
<1>4. DnFine(DnWait("sns", m), m.q) BY DnWaitFine, Zenon DEF DnWaits
<1>5. DnFine(DnByType(m, n, FALSE, e), m.q) BY DnByTypeFine, Zenon
<1> QED BY <1>2, <1>3, <1>4, <1>5, Zenon DEF handle_local

LEMMA DnRouted ==
    ASSUME NEW m, DnReady(m), m.answers = <<>>, m.q.name \in DnProper, NEW e
    PROVE  DnFine(DnRoute(m, e), m.q)
<1>1. DnGood(m) BY Zenon DEF DnReady
<1>2. DnFine(DnReply(handle_local_ptr(m)), m.q)
    <2>1. "PTR" \in DnWords \ {"CNAME"} /\ "" \in DnWords /\ "pk" \in DnWords /\ "sesh" \in DnWords BY DEF DnWords
    <2>2. DnName("", "pk", "sesh") \in DnProper BY <2>1, DnNameFacts, Zenon
    <2>3. DnSays(make_reply(m, "PTR", DnName("", "pk", "sesh")), m.q) BY <2>1, <2>2, DnAnswered, Zenon DEF DnSays
    <2>4. DnSays(handle_local_ptr(m), m.q) BY <1>1, <2>3, DnRefusals, Zenon DEF handle_local_ptr
    <2> QED BY <2>4, DnReplyFine, Zenon
<1>3. m.q.name.tld \in LocalTlds => DnFine(handle_local(m, m.q.name, e), m.q) BY DnHandled, Zenon
<1>4. DnFine(DnReply(nxdomain(add_nx_soa(m))), m.q) /\ DnFine(DnReply(refused(m)), m.q)
    BY <1>1, DnRefusals, DnReplyFine, Zenon
<1>5. m.q.name.tld \notin LocalTlds => DnFine(DnWait("unbound", m), m.q) BY DnWaitFine, Zenon DEF DnWaits
<1> QED BY <1>2, <1>3, <1>4, <1>5, Zenon DEF DnRoute

LEMMA DnFound ==
    ASSUME NEW m, DnReady(m), m.answers = <<>>, m.q.name \in DnProper, m.q.name.tld \in LocalTlds,
           NEW tld \in {"sesh", "snode"}, NEW e
    PROVE  DnFine(DnSnsFound(m, DnName("", "pk", tld), e), m.q)
<1> DEFINE target == DnName("", "pk", tld)
           bare == DnBare(m.q.name)
           n == DnName(m.q.name.sub, target.host, target.tld)
           a == add_cname_reply(set_rr_name(m, bare), target)
           r == set_rr_name(a, n)
<1>1. m \in DnMsg BY Zenon DEF DnReady, DnGood
<1>2. "" \in DnWords /\ "pk" \in DnWords /\ tld \in DnWords /\ m.q.name.sub \in DnWords BY Zenon DEF DnWords, DnProper
<1>3. target \in DnProper /\ n \in DnProper /\ n.sub = m.q.name.sub /\ n.host = "pk" /\ n.tld = tld
    BY <1>2, Zenon DEF DnProper, DnName
<1>4. DnBare(n) = DnBare(target) /\ DnBare(bare) = bare BY DEF DnBare, DnName
<1>5. bare \in DnProper BY DnBareName, Zenon
<1>6. DnSnsFound(m, target, e) = IF m.q.type = "CNAME" THEN DnReply(r) ELSE handle_local(r, n, e)
    BY Zenon DEF DnSnsFound, DnResolved
<1>7. handle_local(r, n, e) = DnByType(r, n, FALSE, e)
    <2>1. n # DnName("", "random", "snode")
        <3>1. DnName("", "random", "snode").host = "random" BY Zenon DEF DnName
        <3> QED BY <1>3, <3>1, Zenon
    <2>2. n.host # "localhost" /\ n.tld # "loki" BY <1>3, Zenon
    <2> HIDE DEF n, r
    <2> QED BY <2>1, <2>2, Zenon DEF handle_local
<1> HIDE DEF target, n
<1>8. DnLinked(m.q, m.answers) /\ DnFollows(m.q, m.answers, bare) BY <1>1, <1>4, DnEmpty, Zenon
<1> HIDE DEF bare
<1>9. DnGood(a) /\ a.q = m.q /\ DnFollows(m.q, a.answers, n)
    BY <1>1, <1>3, <1>4, <1>5, <1>8, DnRenamed, Zenon
<1> HIDE DEF a
<1>10. DnReady(r) /\ r.q = m.q BY <1>3, <1>9, DnReadied, Zenon
<1> HIDE DEF r
<1>11. DnFine(DnReply(r), m.q) BY <1>10, DnReplyFine, Zenon DEF DnSays, DnReady
<1>12. DnFine(DnByType(r, n, FALSE, e), m.q) BY <1>3, <1>10, DnByTypeFine, Zenon
<1> QED BY <1>6, <1>7, <1>11, <1>12, Zenon DEF target

-----------------------------------------------------------------------------
LEMMA DnAsked ==
    ASSUME NEW q \in DnQueries
    PROVE  /\ q.name \in DnProper /\ DnReady(DnMessage(q)) /\ DnMessage(q).answers = <<>> /\ DnMessage(q).q = q
           /\ DnSays([DnMessage(q) EXCEPT !.rcode = 7], q)
<1> DEFINE m == DnMessage(q)
<1>1. q.name \in DnNames /\ q.edns \in BOOLEAN BY DnsAssumption, Zenon DEF DnQuery
<1>2. q.name.sub \in DnWords /\ q.name.host \in DnWords /\ q.name.tld \in DnWords BY Zenon DEF DnWords
<1>3. q.name \in DnProper BY <1>1, <1>2 DEF DnNames, DnProper
<1>4. <<>> \in Seq(DnRecord) OBVIOUS
<1>5. m \in DnMsg /\ m.q = q /\ m.rr = q.name /\ m.answers = <<>> BY <1>1, <1>3, <1>4 DEF DnMessage, DnMsg
<1> HIDE DEF m
<1>6. DnGood(m) /\ DnFollows(m.q, m.answers, m.rr) BY <1>5, DnEmpty, Zenon
<1>7. DnReady(m) BY <1>5, <1>6, Zenon DEF DnReady
<1> DEFINE b == [m EXCEPT !.rcode = 7]
<1>8. b \in DnMsg /\ b.q = q /\ b.answers = <<>> BY <1>5 DEF DnMsg
<1> HIDE DEF b
<1>9. DnSays(b, q) BY <1>8, DnEmpty, Zenon DEF DnSays
<1> QED BY <1>3, <1>5, <1>7, <1>9, Zenon DEF m, b

\* What is sent has the records of the message, or none.
LEMMA DnEncoded == ASSUME NEW m PROVE encode(m).answers = m.answers \/ encode(m).answers = <<>>
<1> DEFINE full == DnHeader(m, DnFlags(m), Len(m.answers), DnBit(m.soa))
           size == Len(m.answers) + DnBit(m.soa) + DnBit(m.edns)
           cut == DnNoAnswers(write_host_as_big(full, 2, DnFlags(m) + TC, 2))
           edns == m.edns /\ DnCapacity(m.q) >= 1
           head == IF m.edns /\ ~edns THEN write_host_as_big(cut, 6, 0, 2) ELSE cut
           sent == [header |-> full, answers |-> m.answers, soa |-> m.soa, edns |-> m.edns, cut |-> FALSE]
           short == [header |-> head, answers |-> <<>>, soa |-> FALSE, edns |-> edns, cut |-> TRUE]
<1>1. encode(m) = IF size <= DnCapacity(m.q) THEN sent ELSE short BY Zenon DEF encode
<1> HIDE DEF full, size, head, edns
<1>2. sent.answers = m.answers /\ short.answers = <<>> OBVIOUS
<1> HIDE DEF sent, short
<1> QED BY <1>1, <1>2, Zenon

LEMMA DnSlotStep ==
    ASSUME DnInv, NEW s \in DnSlots, DnSlotOK(dnReq'[s], dnOut'[s]),
           dnReq' = [t \in DnSlots |-> dnReq'[t]], dnOut' = [t \in DnSlots |-> dnOut'[t]],
           \A t \in DnSlots \ {s} : dnReq'[t] = dnReq[t] /\ dnOut'[t] = dnOut[t]
    PROVE  DnInv'
<1>1. ASSUME NEW t \in DnSlots PROVE DnSlotOK(dnReq'[t], dnOut'[t])
    <2>1. CASE t = s BY <2>1, Zenon
    <2>2. CASE t # s
        <3>1. dnReq'[t] = dnReq[t] /\ dnOut'[t] = dnOut[t] BY <2>2, Zenon
        <3> QED BY <3>1, Zenon DEF DnInv
    <2> QED BY <2>1, <2>2, Zenon
<1> QED BY <1>1, Zenon DEF DnInv

LEMMA DnSet ==
    ASSUME NEW f, f = [t \in DnSlots |-> f[t]], NEW s \in DnSlots, NEW v, NEW g, g = [f EXCEPT ![s] = v]
    PROVE  g = [t \in DnSlots |-> g[t]] /\ g[s] = v /\ \A t \in DnSlots \ {s} : g[t] = f[t]
<1>1. DOMAIN f = DnSlots BY Zenon
<1> QED BY <1>1

\* A reply, for a message that is good, to a request that has none yet.
LEMMA DnSent ==
    ASSUME DnInv, NEW s \in DnSlots, dnOut[s] = <<>>, NEW q \in DnQueries, NEW b, DnChain(q, b.answers),
           DnSend(s, b), dnReq' = [dnReq EXCEPT ![s] = [stage |-> "done", q |-> q]]
    PROVE  DnInv'
<1> DEFINE v == [stage |-> "done", q |-> q]
           w == IF dnConn[s] THEN <<b>> ELSE <<>>
<1>1. dnReq = [t \in DnSlots |-> dnReq[t]] /\ dnOut = [t \in DnSlots |-> dnOut[t]] BY ZenonT(30) DEF DnInv
<1>2. Append(<<>>, b) = <<b>> OBVIOUS
<1>3. dnOut' = [dnOut EXCEPT ![s] = w]
    <2>1. dnOut' = [dnOut EXCEPT ![s] = IF dnConn[s] THEN Append(dnOut[s], b) ELSE dnOut[s]] BY DEF DnSend
    <2>2. (IF dnConn[s] THEN Append(dnOut[s], b) ELSE dnOut[s]) = w BY <1>2, Zenon
    <2> QED BY <2>1, <2>2, Zenon
<1>4. DnSlotOK(v, w) BY Zenon DEF DnSlotOK
<1> HIDE DEF v, w
<1>5. dnReq' = [t \in DnSlots |-> dnReq'[t]] /\ dnReq'[s] = v /\ \A t \in DnSlots \ {s} : dnReq'[t] = dnReq[t]
    BY <1>1, DnSet, Zenon DEF v
<1>6. dnOut' = [t \in DnSlots |-> dnOut'[t]] /\ dnOut'[s] = w /\ \A t \in DnSlots \ {s} : dnOut'[t] = dnOut[t]
    BY <1>1, <1>3, DnSet, Zenon
<1> QED BY <1>4, <1>5, <1>6, DnSlotStep, Zenon

\* A request that has no reply yet gets what was made of it.
LEMMA DnTaken ==
    ASSUME DnInv, NEW s \in DnSlots, dnOut[s] = <<>>, NEW q \in DnQueries, NEW r, DnFine(r, q), DnTake(s, r)
    PROVE  DnInv'
<1>1. r.m \in DnMsg /\ r.m.q = q BY Zenon DEF DnFine
<1>2. CASE r.to = "reply"
    <2>1. DnGood(r.m) BY <1>2, Zenon DEF DnFine
    <2>2. DnChain(q, encode(r.m).answers)
        <3>1. DnChain(q, r.m.answers) BY <1>1, <2>1, Zenon DEF DnGood
        <3>2. DnChain(q, <<>>) BY Zenon DEF DnChain, DnLinked
        <3> QED BY <3>1, <3>2, DnEncoded, Zenon
    <2>3. DnSend(s, encode(r.m)) /\ dnReq' = [dnReq EXCEPT ![s] = [stage |-> "done", q |-> q]]
        BY <1>1, <1>2, Zenon DEF DnTake
    <2> QED BY <2>2, <2>3, DnSent, Zenon
<1>3. CASE r.to # "reply"
    <2> DEFINE v == [stage |-> r.to, m |-> r.m]
    <2>1. DnWaits(r.to, r.m) BY <1>3, Zenon DEF DnFine
    <2>2. r.to \in {"sns", "cc", "unbound"} BY <2>1, Zenon DEF DnWaits
    <2>3. dnReq' = [dnReq EXCEPT ![s] = v] /\ dnOut' = dnOut BY <1>3, Zenon DEF DnTake
    <2>4. DnSlotOK(v, <<>>) BY <1>1, <2>1, <2>2, Zenon DEF DnSlotOK
    <2> HIDE DEF v
    <2>5. dnReq = [t \in DnSlots |-> dnReq[t]] /\ dnOut = [t \in DnSlots |-> dnOut[t]] BY Zenon DEF DnInv
    <2>6. dnReq' = [t \in DnSlots |-> dnReq'[t]] /\ dnReq'[s] = v /\ \A t \in DnSlots \ {s} : dnReq'[t] = dnReq[t]
        BY <2>3, <2>5, DnSet, Zenon
    <2>7. dnOut' = [t \in DnSlots |-> dnOut'[t]] /\ dnOut'[s] = <<>> /\ \A t \in DnSlots \ {s} : dnOut'[t] = dnOut[t]
        BY <2>3, <2>5, Zenon
    <2> QED BY <2>4, <2>6, <2>7, DnSlotStep, Zenon
<1> QED BY <1>2, <1>3, Zenon

\* A request that waits has a message that waits for it, and no reply.
LEMMA DnWaiting ==
    ASSUME DnInv, NEW s \in DnSlots, NEW for \in {"sns", "cc", "unbound"}, dnReq[s].stage = for
    PROVE  /\ dnOut[s] = <<>> /\ DnWaits(for, dnReq[s].m) /\ dnReq[s].m.q \in DnQueries
           /\ dnReq[s].m \in DnMsg /\ dnReq[s].m.q.name \in DnProper
<1>1. DnSlotOK(dnReq[s], dnOut[s]) BY Zenon DEF DnInv
<1>2. dnReq[s] # DnNone
    <2>1. DnNone.stage = "none" BY DEF DnNone
    <2> QED BY <2>1
<1>3. \A q : dnReq[s] # [stage |-> "done", q |-> q]
    <2>1. ASSUME NEW q PROVE [stage |-> "done", q |-> q].stage = "done" OBVIOUS
    <2> QED BY <2>1, Zenon
<1>4. PICK k \in {"sns", "cc", "unbound"}, m \in DnMsg : dnReq[s] = [stage |-> k, m |-> m] /\ dnOut[s] = <<>> /\ DnWaits(k, m)
    BY <1>1, <1>2, <1>3, Zenon DEF DnSlotOK
<1>5. k = for /\ dnReq[s].m = m
    <2>1. [stage |-> k, m |-> m].stage = k /\ [stage |-> k, m |-> m].m = m OBVIOUS
    <2> QED BY <1>4, <2>1, Zenon
<1>6. m.q \in DnQueries BY DEF DnMsg
<1>7. m.q.name \in DnProper BY <1>6, DnAsked, Zenon
<1> QED BY <1>4, <1>5, <1>6, <1>7, Zenon

LEMMA DnRequestInv == ASSUME DnInv, NEW s \in DnSlots, DnRequest(s) PROVE DnInv'
<1>1. dnOut[s] = <<>>
    <2>1. DnSlotOK(dnReq[s], dnOut[s]) /\ dnReq[s] = DnNone BY Zenon DEF DnInv, DnRequest
    <2>2. \A q : DnNone # [stage |-> "done", q |-> q] BY DEF DnNone
    <2>3. \A k \in {"sns", "cc", "unbound"} : \A m : DnNone # [stage |-> k, m |-> m]
        <3>1. DnNone.stage = "none" BY DEF DnNone
        <3>2. ASSUME NEW k \in {"sns", "cc", "unbound"}, NEW m PROVE [stage |-> k, m |-> m].stage = k OBVIOUS
        <3> QED BY <3>1, <3>2
    <2> QED BY <2>1, <2>2, <2>3, Zenon DEF DnSlotOK
<1>2. PICK q \in DnQueries :
        \/ dnReq' = [dnReq EXCEPT ![s] = [stage |-> "done", q |-> q]] /\ UNCHANGED dnOut
        \/ DnTake(s, DnReply(formerr(DnMessage(q))))
        \/ DnTake(s, DnReply([DnMessage(q) EXCEPT !.rcode = 7]))
        \/ DnTake(s, DnReply(DnMessage(q)))
        \/ \E e \in DnOutcomes : DnTake(s, DnRoute(DnMessage(q), e))
    BY Zenon DEF DnRequest
<1> DEFINE m == DnMessage(q)
<1>3. q.name \in DnProper /\ DnReady(m) /\ m.answers = <<>> /\ m.q = q /\ DnSays([m EXCEPT !.rcode = 7], q)
    BY DnAsked, Zenon
<1> HIDE DEF m
<1>4. DnGood(m) /\ DnSays(m, q) BY <1>3, Zenon DEF DnReady, DnSays
<1>5. CASE dnReq' = [dnReq EXCEPT ![s] = [stage |-> "done", q |-> q]] /\ UNCHANGED dnOut
    <2> DEFINE v == [stage |-> "done", q |-> q]
    <2>1. DnSlotOK(v, <<>>) BY Zenon DEF DnSlotOK
    <2> HIDE DEF v
    <2>2. dnReq = [t \in DnSlots |-> dnReq[t]] /\ dnOut = [t \in DnSlots |-> dnOut[t]] BY Zenon DEF DnInv
    <2>3. dnReq' = [t \in DnSlots |-> dnReq'[t]] /\ dnReq'[s] = v /\ \A t \in DnSlots \ {s} : dnReq'[t] = dnReq[t]
        BY <1>5, <2>2, DnSet, Zenon DEF v
    <2>4. dnOut' = [t \in DnSlots |-> dnOut'[t]] /\ dnOut'[s] = <<>> /\ \A t \in DnSlots \ {s} : dnOut'[t] = dnOut[t]
        BY <1>1, <1>5, <2>2, Zenon
    <2> QED BY <2>1, <2>3, <2>4, DnSlotStep, Zenon
<1>6. CASE DnTake(s, DnReply(formerr(m)))
    <2>1. DnFine(DnReply(formerr(m)), q) BY <1>3, <1>4, DnRefusals, DnReplyFine, Zenon
    <2> QED BY <1>1, <1>6, <2>1, DnTaken, Zenon
<1>7. CASE DnTake(s, DnReply([m EXCEPT !.rcode = 7]))
    <2> DEFINE b == [m EXCEPT !.rcode = 7]
    <2>1. DnFine(DnReply(b), q) BY <1>3, DnReplyFine, Zenon
    <2> HIDE DEF b
    <2> QED BY <1>1, <1>7, <2>1, DnTaken, Zenon DEF b
<1>8. CASE DnTake(s, DnReply(m))
    <2>1. DnFine(DnReply(m), q) BY <1>4, DnReplyFine, Zenon
    <2> QED BY <1>1, <1>8, <2>1, DnTaken, Zenon
<1>9. ASSUME NEW e \in DnOutcomes, DnTake(s, DnRoute(m, e)) PROVE DnInv'
    <2>1. DnFine(DnRoute(m, e), q) BY <1>3, DnRouted, Zenon
    <2> QED BY <1>1, <1>9, <2>1, DnTaken, Zenon
<1> QED BY <1>2, <1>5, <1>6, <1>7, <1>8, <1>9, Zenon DEF m

LEMMA DnSnsInv == ASSUME DnInv, NEW s \in DnSlots, resolve_sns_done(s) PROVE DnInv'
<1> DEFINE m == dnReq[s].m
<1>1. dnReq[s].stage = "sns" BY Zenon DEF resolve_sns_done
<1>2. dnOut[s] = <<>> /\ DnWaits("sns", m) /\ m.q \in DnQueries /\ m.q.name \in DnProper BY <1>1, DnWaiting, ZenonT(30)
<1>3. DnReady(m) /\ m.answers = <<>> /\ m.q.name.tld \in LocalTlds BY <1>2 DEF DnWaits
<1>4. \/ \E tld \in {"sesh", "snode"}, e \in DnOutcomes : DnTake(s, DnSnsFound(m, DnName("", "pk", tld), e))
      \/ DnTake(s, DnReply(nxdomain(add_nx_soa(m)))) \/ DnTake(s, DnReply(nxdomain(m)))
    BY Zenon DEF resolve_sns_done
<1> HIDE DEF m
<1>5. ASSUME NEW tld \in {"sesh", "snode"}, NEW e, DnTake(s, DnSnsFound(m, DnName("", "pk", tld), e)) PROVE DnInv'
    <2>1. DnFine(DnSnsFound(m, DnName("", "pk", tld), e), m.q) BY <1>2, <1>3, DnFound, Zenon
    <2> QED BY <1>2, <1>5, <2>1, DnTaken, Zenon
<1>6. DnFine(DnReply(nxdomain(add_nx_soa(m))), m.q) /\ DnFine(DnReply(nxdomain(m)), m.q)
    BY <1>3, DnRefusals, DnReplyFine, Zenon DEF DnReady
<1> QED BY <1>2, <1>4, <1>5, <1>6, DnTaken, Zenon

LEMMA DnCcInv == ASSUME DnInv, NEW s \in DnSlots, lookup_client_intro_done(s) PROVE DnInv'
<1> DEFINE m == dnReq[s].m
           srv(n) == [i \in 1..n |-> [owner |-> m.rr, type |-> "SRV", value |-> "srv"]]
           with(n) == [m EXCEPT !.aa = TRUE, !.answers = @ \o srv(n)]
<1>1. dnReq[s].stage = "cc" BY Zenon DEF lookup_client_intro_done
<1>2. dnOut[s] = <<>> /\ DnWaits("cc", m) /\ m.q \in DnQueries /\ m \in DnMsg BY <1>1, DnWaiting, Zenon
<1>3. DnReady(m) BY <1>2 DEF DnWaits
<1>4. DnTake(s, DnReply(nxdomain(m))) \/ \E n \in DnSrvs : DnTake(s, DnReply(with(n)))
    BY Zenon DEF lookup_client_intro_done
<1>5. DnFine(DnReply(nxdomain(m)), m.q) BY <1>3, DnRefusals, DnReplyFine, Zenon DEF DnReady
<1> HIDE DEF m
<1>6. ASSUME NEW n \in DnSrvs PROVE DnFine(DnReply(with(n)), m.q)
    <2> DEFINE rec == [owner |-> m.rr, type |-> "SRV", value |-> "srv"]
               h == [m EXCEPT !.aa = TRUE]
               all == h.answers \o srv(n)
    <2>1. n \in Nat BY DnsAssumption
    <2>2. m.rr \in DnProper /\ m.answers \in Seq(DnRecord) BY <1>2 DEF DnMsg
    <2>3. "SRV" \in DnWords /\ "srv" \in DnWords BY Zenon DEF DnWords
    <2>4. rec \in DnRecord /\ rec.owner = m.rr /\ rec.type # "CNAME" BY <2>2, <2>3 DEF DnRecord
    <2>5. h \in DnMsg /\ h.q = m.q /\ h.answers = m.answers BY <1>2, Zenon DEF DnMsg
    <2>6. with(n) = [h EXCEPT !.answers = all] OBVIOUS
    <2> HIDE DEF rec
    <2>7. srv(n) \in Seq(DnRecord) /\ \A i \in 1..Len(srv(n)) : srv(n)[i].owner = m.rr /\ srv(n)[i].type # "CNAME"
        <3>1. srv(n) = [i \in 1..n |-> rec] BY DEF rec
        <3> HIDE DEF srv
        <3> QED BY <2>1, <2>4, <3>1
    <2> HIDE DEF srv, h
    <2>8. DnChain(m.q, m.answers) /\ DnFollows(m.q, m.answers, m.rr) /\ m.rr.sub = m.q.name.sub
        BY <1>3, Zenon DEF DnReady, DnGood
    <2>9. all \in Seq(DnRecord) /\ DnChain(m.q, all) BY <1>2, <2>2, <2>5, <2>7, <2>8, DnExtended, Zenon
    <2> HIDE DEF all
    <2>10. with(n) \in DnMsg /\ with(n).q = m.q /\ with(n).answers = all BY <2>5, <2>6, <2>9, Zenon DEF DnMsg
    <2> HIDE DEF with
    <2> QED BY <2>9, <2>10, DnReplyFine, Zenon DEF DnSays, DnGood
<1> HIDE DEF with
<1> QED BY <1>2, <1>4, <1>5, <1>6, DnTaken, Zenon

\* A reply of upstream, of a name that is not ours: all records are under the name asked for.
LEMMA DnUpstreamChain ==
    ASSUME NEW m \in DnMsg, m.q \in DnQueries, m.q.name.tld \notin LocalTlds, NEW n \in Nat
    PROVE  DnChain(m.q, encode_raw(m, n).answers)
<1> DEFINE rec == [owner |-> m.q.name, type |-> m.q.type, value |-> m.q.name]
           recs == [i \in 1..n |-> rec]
<1>1. encode_raw(m, n).answers = recs \/ encode_raw(m, n).answers = <<>>
    <2> DEFINE full == DnHeader(m, QR, n, 0)
               cut == write_host_as_big(full, 2, QR + TC, 2)
               counts == [cut EXCEPT ![4] = 0, ![5] = 0]
               edns == m.edns /\ DnCapacity(m.q) >= 1
               head == [counts EXCEPT ![6] = DnBit(edns)]
               sent == [header |-> full, answers |-> recs, soa |-> FALSE, edns |-> m.edns, cut |-> FALSE]
               short == [header |-> head, answers |-> <<>>, soa |-> FALSE, edns |-> edns, cut |-> TRUE]
    <2>1. encode_raw(m, n) = IF n + DnBit(m.edns) <= DnCapacity(m.q) THEN sent ELSE short BY Zenon DEF encode_raw
    <2> HIDE DEF full, head, edns, recs
    <2>2. sent.answers = recs /\ short.answers = <<>> OBVIOUS
    <2> HIDE DEF sent, short
    <2> QED BY <2>1, <2>2, Zenon
<1>2. DnChain(m.q, <<>>) BY Zenon DEF DnChain, DnLinked
<1>3. DnChain(m.q, recs)
    <2>1. rec.owner = m.q.name OBVIOUS
    <2> HIDE DEF rec
    <2>2. \A i \in 1..n : recs[i].owner = m.q.name BY <2>1
    <2>3. Len(recs) = n OBVIOUS
    <2>4. recs # <<>> => n >= 1 BY <2>3
    <2> HIDE DEF recs
    <2>5. ASSUME n >= 1 PROVE recs[1].owner = m.q.name /\ recs[n].owner = m.q.name BY <2>2, <2>5
    <2>6. ASSUME NEW j \in 2..n PROVE recs[j].owner = recs[j - 1].owner
        <3>1. j \in 1..n /\ j - 1 \in 1..n OBVIOUS
        <3> QED BY <2>2, <3>1, Zenon
    <2>7. \A j \in 2..n : DnNextOf(m.q, recs[j - 1], recs[j].owner) BY <2>6, Zenon DEF DnNextOf
    <2> QED BY <2>3, <2>4, <2>5, <2>7, Zenon DEF DnChain, DnLinked
<1> HIDE DEF recs
<1> QED BY <1>1, <1>2, <1>3, Zenon

LEMMA DnUnboundInv == ASSUME DnInv, NEW s \in DnSlots, unbound_done(s) PROVE DnInv'
<1> DEFINE m == dnReq[s].m
<1>1. dnReq[s].stage = "unbound" BY Zenon DEF unbound_done
<1>2. dnOut[s] = <<>> /\ DnWaits("unbound", m) /\ m.q \in DnQueries /\ m \in DnMsg BY <1>1, DnWaiting, ZenonT(30)
<1>3. DnReady(m) /\ m.q.name.tld \notin LocalTlds BY <1>2 DEF DnWaits
<1>4. \/ DnTake(s, DnReply(servfail(m)))
      \/ \E n \in DnSrvs : DnSend(s, encode_raw(m, n)) /\ dnReq' = [dnReq EXCEPT ![s] = [stage |-> "done", q |-> m.q]]
    BY Zenon DEF unbound_done
<1> HIDE DEF m
<1>5. DnFine(DnReply(servfail(m)), m.q) BY <1>3, DnRefusals, DnReplyFine, Zenon DEF DnReady
<1>6. ASSUME NEW n \in DnSrvs, DnSend(s, encode_raw(m, n)), dnReq' = [dnReq EXCEPT ![s] = [stage |-> "done", q |-> m.q]]
      PROVE  DnInv'
    <2>1. n \in Nat BY DnsAssumption
    <2>2. DnChain(m.q, encode_raw(m, n).answers) BY <1>2, <1>3, <2>1, DnUpstreamChain, Zenon
    <2> QED BY <1>2, <1>6, <2>2, DnSent, Zenon
<1> QED BY <1>2, <1>4, <1>5, <1>6, DnTaken, Zenon

LEMMA DnInitInv == DnInit => DnInv
<1> SUFFICES ASSUME DnInit PROVE DnInv OBVIOUS
<1>1. dnReq = [s \in DnSlots |-> DnNone] /\ dnOut = [s \in DnSlots |-> <<>>] BY Zenon DEF DnInit
<1>2. \A s \in DnSlots : dnReq[s] = DnNone /\ dnOut[s] = <<>> BY <1>1
<1>3. dnReq = [s \in DnSlots |-> dnReq[s]] /\ dnOut = [s \in DnSlots |-> dnOut[s]] BY <1>1
<1> QED BY <1>2, <1>3, Zenon DEF DnInv, DnSlotOK

LEMMA DnNextInv == DnInv /\ [DnNext]_dnvars => DnInv'
<1> SUFFICES ASSUME DnInv, [DnNext]_dnvars PROVE DnInv' OBVIOUS
<1>1. ASSUME UNCHANGED <<dnReq, dnOut>> PROVE DnInv' BY <1>1 DEF DnInv
<1>2. ASSUME NEW s \in DnSlots, DnDisconnect(s) PROVE DnInv' BY <1>1, <1>2 DEF DnDisconnect
<1> QED BY <1>1, <1>2, DnRequestInv, DnSnsInv, DnCcInv, DnUnboundInv DEF DnNext, dnvars

(* Through whatever aliases of localhost, random.snode and SNS names an answer is found, at once or after
   waiting, for any queries, any sizes of the buffers and any number of records, the records of every reply
   form one chain from the question (handle_local and the callbacks of dns/handler.cpp). *)
THEOREM ReplyChains == DnSpec => []AnswersChain
<1>1. DnInv => AnswersChain
    <2> SUFFICES ASSUME DnInv, NEW s \in DnSlots, NEW i \in 1..Len(dnOut[s])
                 PROVE  DnChain(dnReq[s].q, dnOut[s][i].answers)
        BY ZenonT(30) DEF AnswersChain, DnChain, DnLinked, DnNextOf
    <2>1. DnSlotOK(dnReq[s], dnOut[s]) BY Zenon DEF DnInv
    <2>2. dnOut[s] # <<>> OBVIOUS
    <2>3. PICK q \in DnQueries : /\ dnReq[s] = [stage |-> "done", q |-> q]
                                 /\ \E b : dnOut[s] = <<b>> /\ DnChain(q, b.answers)
        BY <2>1, <2>2, Zenon DEF DnSlotOK
    <2>4. PICK b : dnOut[s] = <<b>> /\ DnChain(q, b.answers) BY <2>3, Zenon
    <2>5. i = 1 /\ dnOut[s][1] = b BY <2>4
    <2>6. dnReq[s].q = q BY <2>3
    <2> QED BY <2>4, <2>5, <2>6, Zenon
<1> QED BY <1>1, DnInitInv, DnNextInv, PTL DEF DnSpec
=============================================================================
