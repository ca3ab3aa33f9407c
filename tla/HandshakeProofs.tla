-------------------------- MODULE HandshakeProofs --------------------------
(***************************************************************************)
(* Both ends of a session hold the same key, for any number of clients,    *)
(* session inits and tags.                                                 *)
(***************************************************************************)
EXTENDS Handshake, TLAPS

-----------------------------------------------------------------------------
(* Handshake: both ends of a session hold the same key. *)

HsSpec == HsInit /\ [][HsNext]_hsvars

HsInbound == [tag : HsTag, key : HsKey \cup {HsNoKey}, path : 0..HsMaxInit]

\* The strengthening, for one client: its session s, the messages q up path p and D down
\* the current path, and the remote's session I.  The keys held for a handshake are those
\* of the last init.
HsEnds(old, s, I) ==
    /\ s.live => s.path > 0
    /\ old => s.eph = 0 /\ s.pend \in {0, s.path}
    /\ ~old => s.pend = 0 /\ s.eph \in {0, s.path}
    /\ s.est => s.key.init = s.key.eph /\ s.otag # 0 /\ s.key.init > 0
    /\ ~s.est => s.otag = 0 /\ s.key = HsNoKey
    /\ s.key.init <= s.path /\ I.key.init <= s.path
    /\ s.key.init > 0 /\ s.key.init = I.key.init => s.key = I.key /\ s.otag = I.tag

\* The key the remote makes from init n with tag x.
HsMade(old, n, x) == [init |-> n, eph |-> n, tag |-> IF old THEN 0 ELSE x]

\* An accept is for the last init, with the key and the tag of the session it made.
HsAccept(old, s, I, m) ==
    /\ m.init = s.path /\ m.tag # 0
    /\ m.key = HsMade(old, m.init, m.tag)
    /\ m.init = I.key.init => m.key = I.key /\ m.tag = I.tag

HsAccepts(old, s, D, I) ==
    /\ ~s.live => D = <<>>
    /\ \A i \in 1..Len(D) : D[i].kind = "accept" => HsAccept(old, s, I, D[i])

\* Nothing was made from the init of path p yet.
HsFresh(p, s, D, I) ==
    /\ s.key.init # p /\ I.key.init # p
    /\ \A j \in 1..Len(D) : D[j].kind = "accept" => D[j].init # p

HsOffers(m) == m.kind \in {"init", "switch"}

\* An init is under way at most once, first on its path, and is fresh.
HsUpGood(p, q, s, D, I) ==
    /\ p > s.path => q = <<>>
    /\ \A i \in 1..Len(q) :
          /\ q[i].tag = 0 => q[i].kind = "init"
          /\ HsOffers(q[i]) => i = 1 /\ q[i].init = p /\ HsFresh(p, s, D, I)

HsGood(old, s, U, D, I) ==
    /\ HsEnds(old, s, I)
    /\ HsAccepts(old, s, D, I)
    /\ \A p \in 1..HsMaxInit : HsUpGood(p, U[p], s, D, I)

HsInv ==
    /\ Handshake_TypeOK
    /\ \A c \in HsClient : HsGood(hsOld.old, hsOut[c], hsUp[c], hsDown[c], hsIn[c])

\* Messages without an offer.
HsPlain(q) == \A i \in 1..Len(q) : q[i].tag # 0 /\ ~HsOffers(q[i])

\* Queues of messages, in the terms the provers need.
LEMMA HsSeqLen ==
    ASSUME NEW M, NEW q \in Seq(M)
    PROVE  Len(q) \in Nat /\ DOMAIN q = 1..Len(q) /\ q \in [1..Len(q) -> M] /\ (q # << >> => Len(q) \in Nat \ {0})
OBVIOUS

LEMMA HsSeqTail ==
    ASSUME NEW M, NEW q \in Seq(M), q # << >>
    PROVE  /\ Head(q) \in M /\ Tail(q) \in Seq(M) /\ Len(Tail(q)) = Len(q) - 1
           /\ \A k \in 1..Len(Tail(q)) : Tail(q)[k] = q[k + 1]
OBVIOUS

LEMMA HsSeqAppend ==
    ASSUME NEW M, NEW q \in Seq(M), NEW x \in M
    PROVE  /\ Append(q, x) \in Seq(M) /\ Len(Append(q, x)) = Len(q) + 1 /\ Append(q, x) # << >>
           /\ Append(q, x)[Len(q) + 1] = x /\ \A k \in 1..Len(q) : Append(q, x)[k] = q[k]
OBVIOUS

LEMMA HsSeqConcat ==
    ASSUME NEW M, NEW q \in Seq(M), NEW t \in Seq(M)
    PROVE  /\ q \o t \in Seq(M) /\ Len(q \o t) = Len(q) + Len(t)
           /\ \A k \in 1..Len(q) + Len(t) : (q \o t)[k] = IF k <= Len(q) THEN q[k] ELSE t[k - Len(q)]
OBVIOUS

LEMMA HsPlainGood ==
    ASSUME NEW p \in Nat, NEW q, NEW s, NEW D, NEW I, HsPlain(q), p <= s.path, s.path \in Nat
    PROVE  HsUpGood(p, q, s, D, I)
BY DEF HsPlain, HsUpGood

LEMMA HsEmptyGood ==
    ASSUME NEW old, NEW p, NEW s, NEW D, NEW I
    PROVE  HsUpGood(p, <<>>, s, D, I) /\ HsAccepts(old, s, <<>>, I)
BY DEF HsUpGood, HsAccepts

LEMMA HsTailPlain ==
    ASSUME NEW p, NEW q \in Seq(HsMessage), NEW s, NEW D, NEW I, HsUpGood(p, q, s, D, I), q # <<>>
    PROVE  Tail(q) \in Seq(HsMessage) /\ HsPlain(Tail(q))
<1>1. /\ Tail(q) \in Seq(HsMessage) /\ Len(Tail(q)) = Len(q) - 1 /\ Len(q) \in Nat
      /\ \A i \in 1..Len(Tail(q)) : Tail(q)[i] = q[i + 1]
    BY HsSeqTail, HsSeqLen
<1>2. ASSUME NEW i \in 1..Len(Tail(q)) PROVE Tail(q)[i].tag # 0 /\ ~HsOffers(Tail(q)[i])
    <2>1. i + 1 \in 1..Len(q) /\ i + 1 # 1 /\ Tail(q)[i] = q[i + 1] BY <1>1
    <2>2. ~HsOffers(q[i + 1]) /\ (q[i + 1].tag = 0 => q[i + 1].kind = "init") BY <2>1 DEF HsUpGood
    <2> QED BY <2>1, <2>2 DEF HsOffers
<1> QED BY <1>1, <1>2 DEF HsPlain

\* A message without an offer goes to the end of a path.
LEMMA HsAppendGood ==
    ASSUME NEW p, NEW q \in Seq(HsMessage), NEW s, NEW D, NEW I, HsUpGood(p, q, s, D, I),
           ~(p > s.path), NEW m \in HsMessage, m.tag # 0, ~HsOffers(m)
    PROVE  Append(q, m) \in Seq(HsMessage) /\ HsUpGood(p, Append(q, m), s, D, I)
<1>1. /\ Append(q, m) \in Seq(HsMessage) /\ Len(Append(q, m)) = Len(q) + 1 /\ Len(q) \in Nat
      /\ \A i \in 1..Len(q) : Append(q, m)[i] = q[i]
      /\ Append(q, m)[Len(q) + 1] = m
    BY HsSeqAppend, HsSeqLen
<1>2. \A i \in 1..Len(Append(q, m)) : i \in 1..Len(q) \/ i = Len(q) + 1 BY <1>1
<1> QED BY <1>1, <1>2 DEF HsUpGood

\* The copies of a message that goes up a path behind others.
LEMMA HsCopiesGood ==
    ASSUME NEW p \in Nat, NEW q \in Seq(HsMessage), NEW s, NEW D, NEW I, HsPlain(q),
           s.path \in Nat, p <= s.path, NEW m \in HsMessage, m.tag # 0, ~HsOffers(m), NEW k \in Nat
    PROVE  q \o HsCopies(k, m) \in Seq(HsMessage) /\ HsUpGood(p, q \o HsCopies(k, m), s, D, I)
<1> DEFINE r == HsCopies(k, m)
<1>1. r \in Seq(HsMessage) /\ Len(r) = k /\ \A i \in 1..k : r[i] = m BY DEF HsCopies
<1> HIDE DEF r
<1>2. /\ q \o r \in Seq(HsMessage) /\ Len(q \o r) = Len(q) + k /\ Len(q) \in Nat
      /\ \A i \in 1..(Len(q) + k) : (q \o r)[i] = IF i <= Len(q) THEN q[i] ELSE r[i - Len(q)]
    BY <1>1, HsSeqConcat, HsSeqLen, ZenonT(40)
<1>3. ASSUME NEW i \in 1..Len(q \o r) PROVE (q \o r)[i].tag # 0 /\ ~HsOffers((q \o r)[i])
    <2>1. CASE i <= Len(q) BY <1>2, <2>1 DEF HsPlain
    <2>2. CASE ~(i <= Len(q))
        <3>1. i - Len(q) \in 1..k BY <1>2, <2>2
        <3> QED BY <1>1, <1>2, <2>2, <3>1
    <2> QED BY <2>1, <2>2
<1>4. HsPlain(q \o r) BY <1>3 DEF HsPlain
<1> QED BY <1>2, <1>4, HsPlainGood DEF r

LEMMA HsKeyInit == \A k \in HsKey \cup {HsNoKey} : k.init \in Nat
BY DEF HsKey, HsNoKey

\* A path dies or is closed: nothing comes back any more, and what goes up is lost or
\* arrives.
LEMMA HsDeadGood ==
    ASSUME NEW old \in BOOLEAN, NEW s \in HsOutbound, NEW U \in [1..HsMaxInit -> Seq(HsMessage)],
           NEW D \in Seq(HsMessage), NEW I \in HsInbound, HsGood(old, s, U, D, I),
           NEW t, t.live = FALSE, t.path = s.path, t.eph = s.eph, t.pend = s.pend, t.est = s.est,
           t.key = s.key, t.otag = s.otag
    PROVE  HsGood(old, t, U, <<>>, I)
<1>1. HsEnds(old, t, I) BY DEF HsGood, HsEnds
<1>2. HsAccepts(old, t, <<>>, I) BY HsEmptyGood
<1>3. \A p \in 1..HsMaxInit : HsUpGood(p, U[p], t, <<>>, I)
    BY DEF HsGood, HsUpGood, HsFresh
<1> QED BY <1>1, <1>2, <1>3 DEF HsGood

\* The remote's session expires or ends, or is reached over another path.
LEMMA HsInGood ==
    ASSUME NEW old \in BOOLEAN, NEW s \in HsOutbound, NEW U \in [1..HsMaxInit -> Seq(HsMessage)],
           NEW D \in Seq(HsMessage), NEW I \in HsInbound, HsGood(old, s, U, D, I),
           NEW J, J = HsNoSession \/ (J.key = I.key /\ J.tag = I.tag)
    PROVE  HsGood(old, s, U, D, J)
<1>1. CASE J = HsNoSession
    <2>1. J.key.init = 0 BY <1>1 DEF HsNoSession, HsNoKey
    <2>2. HsEnds(old, s, J) BY <2>1 DEF HsGood, HsEnds, HsOutbound
    <2>3. HsAccepts(old, s, D, J)
        <3>1. \A i \in 1..Len(D) : D[i].kind = "accept" => s.live /\ D[i].init = s.path /\ s.path > 0
            <4>1. ~s.live => Len(D) = 0 BY DEF HsGood, HsAccepts
            <4>2. s.live \in BOOLEAN /\ (s.live => s.path > 0) BY DEF HsGood, HsEnds, HsOutbound
            <4>3. \A i \in 1..Len(D) : D[i].kind = "accept" => D[i].init = s.path
                BY DEF HsGood, HsAccepts, HsAccept
            <4>4. \A i \in 1..Len(D) : s.live BY <4>1, <4>2
            <4> QED BY <4>2, <4>3, <4>4
        <3> QED BY <2>1, <3>1 DEF HsGood, HsAccepts, HsAccept
    <2>4. \A p \in 1..HsMaxInit : HsUpGood(p, U[p], s, D, J)
        BY <2>1 DEF HsGood, HsUpGood, HsFresh
    <2> QED BY <2>2, <2>3, <2>4 DEF HsGood
<1>2. CASE J.key = I.key /\ J.tag = I.tag
    BY <1>2 DEF HsGood, HsEnds, HsAccepts, HsAccept, HsUpGood, HsFresh
<1> QED BY <1>1, <1>2

\* A new path and its init.
LEMMA HsSwitchGood ==
    ASSUME NEW old \in BOOLEAN, NEW s \in HsOutbound, NEW U \in [1..HsMaxInit -> Seq(HsMessage)],
           NEW D \in Seq(HsMessage), NEW I \in HsInbound, HsGood(old, s, U, D, I), ~s.live,
           NEW t, t.path = s.path + 1, t.est = s.est, t.key = s.key, t.otag = s.otag,
           old => t.eph = 0 /\ t.pend = t.path,
           ~old => t.pend = s.pend /\ t.eph = t.path,
           NEW V, NEW m, V[t.path] = <<m>>,
           \A p \in 1..HsMaxInit : p # t.path => V[p] = U[p],
           HsOffers(m), m.init = t.path, m.tag = 0 => m.kind = "init"
    PROVE  HsGood(old, t, V, D, I)
<1>1. s.path \in Nat /\ s.key.init \in Nat /\ I.key.init \in Nat
    <2>1. s.path \in Nat /\ s.key \in HsKey \cup {HsNoKey} BY DEF HsOutbound
    <2>2. I.key \in HsKey \cup {HsNoKey} BY DEF HsInbound
    <2> QED BY <2>1, <2>2, HsKeyInit
<1>2. D = <<>> BY DEF HsGood, HsAccepts
<1>3. s.key.init <= s.path /\ I.key.init <= s.path BY DEF HsGood, HsEnds
<1>4. HsEnds(old, t, I) BY <1>1 DEF HsGood, HsEnds
<1>5. HsAccepts(old, t, D, I) BY <1>2, HsEmptyGood
<1>6. ASSUME NEW p \in 1..HsMaxInit PROVE HsUpGood(p, V[p], t, D, I)
    <2>1. CASE p = t.path
        <3>1. Len(V[p]) = 1 /\ V[p][1] = m
            <4>1. V[p] = <<m>> BY <2>1
            <4>2. Len(<<m>>) = 1 /\ <<m>>[1] = m OBVIOUS
            <4> QED BY ONLY <4>1, <4>2
        <3>2. HsFresh(p, t, D, I) BY <1>1, <1>2, <1>3, <2>1 DEF HsFresh
        <3>3. ~(p > t.path) BY <1>1, <2>1
        <3> QED BY <2>1, <3>1, <3>2, <3>3 DEF HsUpGood
    <2>2. CASE p # t.path
        <3>1. HsUpGood(p, U[p], s, D, I) BY DEF HsGood
        <3>2. p > t.path => p > s.path BY <1>1
        <3> QED BY <2>2, <3>1, <3>2 DEF HsUpGood, HsFresh
    <2> QED BY <2>1, <2>2
<1> QED BY <1>4, <1>5, <1>6 DEF HsGood

\* A message goes up the current path behind the others.
LEMMA HsSendGood ==
    ASSUME NEW old \in BOOLEAN, NEW s \in HsOutbound, NEW U \in [1..HsMaxInit -> Seq(HsMessage)],
           NEW D \in Seq(HsMessage), NEW I \in HsInbound, HsGood(old, s, U, D, I),
           NEW V, NEW m \in HsMessage, m.tag # 0, ~HsOffers(m), V[s.path] = Append(U[s.path], m),
           \A p \in 1..HsMaxInit : p # s.path => V[p] = U[p]
    PROVE  HsGood(old, s, V, D, I)
<1>1. ASSUME NEW p \in 1..HsMaxInit PROVE HsUpGood(p, V[p], s, D, I)
    <2>1. HsUpGood(p, U[p], s, D, I) BY DEF HsGood
    <2>2. CASE p = s.path
        <3>1. U[p] \in Seq(HsMessage) /\ ~(p > s.path) BY <2>2
        <3>2. HsUpGood(p, Append(U[p], m), s, D, I) BY <2>1, <3>1, HsAppendGood
        <3> QED BY <2>2, <3>2, Zenon
    <2>3. CASE p # s.path BY <2>1, <2>3
    <2> QED BY <2>2, <2>3
<1> QED BY <1>1 DEF HsGood

\* An init arrives, first on its path and for the only time: the remote's new session
\* is made from it.
LEMMA HsAcceptedGood ==
    ASSUME NEW old \in BOOLEAN, NEW s \in HsOutbound, NEW U, NEW D, NEW I, HsGood(old, s, U, D, I),
           NEW p \in 1..HsMaxInit, p <= s.path, HsFresh(p, s, D, I), HsPlain(U[p]),
           NEW J, J.key.init = p
    PROVE  HsGood(old, s, U, D, J)
<1>1. s.path \in Nat /\ s.key.init \in Nat
    <2>1. s.path \in Nat /\ s.key \in HsKey \cup {HsNoKey} BY DEF HsOutbound
    <2> QED BY <2>1, HsKeyInit
<1>2. HsEnds(old, s, J) BY <1>1 DEF HsGood, HsEnds, HsFresh
<1>3. HsAccepts(old, s, D, J)
    <2>1. ASSUME NEW i \in 1..Len(D), D[i].kind = "accept" PROVE HsAccept(old, s, J, D[i])
        <3>1. HsAccept(old, s, I, D[i]) /\ D[i].init # p BY <2>1 DEF HsGood, HsAccepts, HsFresh
        <3> QED BY <3>1 DEF HsAccept
    <2> QED BY <2>1 DEF HsAccepts, HsGood
<1>4. ASSUME NEW r \in 1..HsMaxInit PROVE HsUpGood(r, U[r], s, D, J)
    <2>1. CASE r = p
        <3>1. r \in Nat /\ r <= s.path /\ HsPlain(U[r]) BY <2>1
        <3> QED BY ONLY <1>1, <3>1, HsPlainGood
    <2>2. CASE r # p
        <3>1. HsUpGood(r, U[r], s, D, I) BY DEF HsGood
        <3>2. HsFresh(r, s, D, I) => HsFresh(r, s, D, J) BY <2>2 DEF HsFresh
        <3> QED BY <3>1, <3>2 DEF HsUpGood
    <2> QED BY <2>1, <2>2
<1> QED BY <1>2, <1>3, <1>4 DEF HsGood

\* The accept that goes back has the key and the tag of the remote's session.
LEMMA HsAcceptSentGood ==
    ASSUME NEW old \in BOOLEAN, NEW s \in HsOutbound, NEW U \in [1..HsMaxInit -> Seq(HsMessage)],
           NEW D \in Seq(HsMessage), NEW I, HsGood(old, s, U, D, I), s.live,
           I.key = HsMade(old, s.path, I.tag), I.tag # 0,
           NEW m \in HsMessage, m.tag = I.tag, m.key = I.key, m.init = s.path
    PROVE  HsGood(old, s, U, Append(D, m), I)
<1> DEFINE E == Append(D, m)
<1>1. I.key.init = s.path BY DEF HsMade
<1>2. /\ E \in Seq(HsMessage) /\ Len(E) = Len(D) + 1 /\ Len(D) \in Nat
      /\ \A i \in 1..Len(D) : E[i] = D[i]
      /\ E[Len(D) + 1] = m
    BY HsSeqAppend, HsSeqLen
<1> HIDE DEF E
<1>3. \A i \in 1..Len(E) : i \in 1..Len(D) \/ i = Len(D) + 1 BY <1>2
<1>4. HsAccept(old, s, I, m) BY DEF HsAccept
<1>5. HsAccepts(old, s, E, I) BY <1>2, <1>3, <1>4 DEF HsGood, HsAccepts
<1>6. \A r : HsFresh(r, s, D, I) => HsFresh(r, s, E, I) BY <1>1, <1>2, <1>3 DEF HsFresh
<1>7. \A r \in 1..HsMaxInit : HsUpGood(r, U[r], s, E, I) BY <1>6 DEF HsGood, HsUpGood
<1> QED BY <1>5, <1>7 DEF HsGood, E

\* A message is taken off a path.
LEMMA HsTakenGood ==
    ASSUME NEW old \in BOOLEAN, NEW s \in HsOutbound, NEW U \in [1..HsMaxInit -> Seq(HsMessage)],
           NEW D \in Seq(HsMessage), NEW I \in HsInbound, HsGood(old, s, U, D, I),
           NEW p \in 1..HsMaxInit, NEW V, V[p] = <<>> \/ (U[p] # <<>> /\ V[p] = Tail(U[p])),
           \A r \in 1..HsMaxInit : r # p => V[r] = U[r]
    PROVE  HsGood(old, s, V, D, I)
<1>1. s.path \in Nat BY DEF HsOutbound
<1>2. HsUpGood(p, U[p], s, D, I) BY DEF HsGood
<1>3. HsUpGood(p, V[p], s, D, I)
    <2>1. CASE V[p] = <<>> BY <2>1, HsEmptyGood
    <2>2. CASE U[p] # <<>> /\ V[p] = Tail(U[p])
        <3>1. HsPlain(Tail(U[p])) BY <1>2, <2>2, HsTailPlain
        <3>2. p <= s.path BY <1>1, <1>2, <2>2 DEF HsUpGood
        <3> QED BY <1>1, <2>2, <3>1, <3>2, HsPlainGood
    <2> QED BY <2>1, <2>2
<1>4. \A r \in 1..HsMaxInit : HsUpGood(r, V[r], s, D, I) BY <1>3 DEF HsGood
<1> QED BY <1>4 DEF HsGood

\* What comes down the path: another close, or the head taken off.
LEMMA HsDownGood ==
    ASSUME NEW old \in BOOLEAN, NEW s \in HsOutbound, NEW U \in [1..HsMaxInit -> Seq(HsMessage)],
           NEW D \in Seq(HsMessage), NEW I \in HsInbound, HsGood(old, s, U, D, I), s.live,
           NEW E, NEW m \in HsMessage, m.kind # "accept",
           E = Append(D, m) \/ (D # <<>> /\ E = Tail(D))
    PROVE  E \in Seq(HsMessage) /\ HsGood(old, s, U, E, I)
<1>1. /\ E \in Seq(HsMessage)
      /\ \A i \in 1..Len(E) : E[i].kind = "accept" => \E j \in 1..Len(D) : E[i] = D[j]
    <2>1. CASE E = Append(D, m)
        <3>1. /\ E \in Seq(HsMessage) /\ Len(E) = Len(D) + 1 /\ Len(D) \in Nat
              /\ \A i \in 1..Len(D) : E[i] = D[i]
              /\ E[Len(D) + 1] = m
            BY <2>1, HsSeqAppend, HsSeqLen
        <3>2. \A i \in 1..Len(E) : i \in 1..Len(D) \/ i = Len(D) + 1 BY <3>1
        <3> QED BY <3>1, <3>2
    <2>2. CASE D # <<>> /\ E = Tail(D)
        <3>1. /\ E \in Seq(HsMessage) /\ Len(E) = Len(D) - 1 /\ Len(D) \in Nat
              /\ \A i \in 1..Len(E) : E[i] = D[i + 1]
            BY <2>2, HsSeqTail, HsSeqLen
        <3>2. \A i \in 1..Len(E) : i + 1 \in 1..Len(D) BY <3>1
        <3> QED BY <3>1, <3>2, Zenon
    <2> QED BY <2>1, <2>2
<1>2. HsAccepts(old, s, E, I) BY <1>1 DEF HsGood, HsAccepts
<1>3. \A p : HsFresh(p, s, D, I) => HsFresh(p, s, E, I) BY <1>1, Zenon DEF HsFresh
<1>4. \A p \in 1..HsMaxInit : HsUpGood(p, U[p], s, E, I) BY <1>3 DEF HsGood, HsUpGood
<1> QED BY <1>1, <1>2, <1>4 DEF HsGood

\* An accept completes the handshake of the last init, which has arrived.
LEMMA HsEstablishedGood ==
    ASSUME NEW old \in BOOLEAN, NEW s \in HsOutbound, NEW U \in [1..HsMaxInit -> Seq(HsMessage)],
           NEW D \in Seq(HsMessage), NEW I \in HsInbound, HsGood(old, s, U, D, I), s.live,
           NEW i \in 1..Len(D), D[i].kind = "accept",
           NEW t, t.live = s.live, t.path = s.path, t.est = TRUE, t.otag = D[i].tag,
           t.key = D[i].key,
           t.eph \in {0, s.eph}, t.pend \in {0, s.pend},
           NEW V, NEW k \in Nat, NEW m \in HsMessage, m.tag # 0, ~HsOffers(m),
           V[s.path] = U[s.path] \o HsCopies(k, m),
           \A r \in 1..HsMaxInit : r # s.path => V[r] = U[r]
    PROVE  V[s.path] \in Seq(HsMessage) /\ HsGood(old, t, V, D, I)
<1>1. s.path \in 1..HsMaxInit /\ s.path \in Nat BY DEF HsGood, HsEnds, HsOutbound
<1>2. HsAccept(old, s, I, D[i]) BY DEF HsGood, HsAccepts
<1>3. t.key.init = s.path /\ t.key.eph = s.path BY <1>2 DEF HsAccept, HsMade
<1>4. HsEnds(old, t, I)
    <2>1. t.key.init = t.key.eph /\ t.otag # 0 /\ t.key.init > 0 /\ t.key.init <= t.path
        BY <1>1, <1>2, <1>3, SMTT(20) DEF HsAccept, HsGood, HsEnds
    <2>2. t.key.init = I.key.init => t.key = I.key /\ t.otag = I.tag BY <1>2, <1>3 DEF HsAccept
    <2>3. I.key.init <= t.path /\ t.path > 0 BY DEF HsGood, HsEnds
    <2>4. (old => t.eph = 0 /\ t.pend \in {0, t.path}) /\ (~old => t.pend = 0 /\ t.eph \in {0, t.path})
        BY DEF HsGood, HsEnds
    <2> QED BY <2>1, <2>2, <2>3, <2>4 DEF HsEnds
<1>5. HsAccepts(old, t, D, I) BY DEF HsGood, HsAccepts, HsAccept
<1>6. ~HsFresh(s.path, s, D, I) BY <1>2 DEF HsFresh, HsAccept
<1>7. HsPlain(U[s.path])
    <2>1. HsUpGood(s.path, U[s.path], s, D, I) BY <1>1 DEF HsGood
    <2> QED BY <1>6, <2>1, Zenon DEF HsUpGood, HsPlain, HsOffers
<1>8. V[s.path] \in Seq(HsMessage) /\ HsUpGood(s.path, V[s.path], t, D, I)
    <2>1. U[s.path] \in Seq(HsMessage) BY <1>1
    <2>2. t.path \in Nat /\ s.path <= t.path BY <1>1
    <2> QED BY <1>1, <1>7, <2>1, <2>2, HsCopiesGood
<1>9. ASSUME NEW r \in 1..HsMaxInit, r # s.path PROVE HsUpGood(r, V[r], t, D, I)
    <2>1. HsUpGood(r, U[r], s, D, I) BY DEF HsGood
    <2>2. HsFresh(r, s, D, I) => HsFresh(r, t, D, I) BY <1>3, <1>9 DEF HsFresh
    <2> QED BY <1>9, <2>1, <2>2 DEF HsUpGood
<1>10. \A r \in 1..HsMaxInit : HsUpGood(r, V[r], t, D, I) BY <1>8, <1>9, Zenon
<1> QED BY <1>4, <1>5, <1>8, <1>10 DEF HsGood

\* What goes up one path is set.
LEMMA HsUpSet ==
    ASSUME hsUp \in [HsClient -> [1..HsMaxInit -> Seq(HsMessage)]], NEW c \in HsClient,
           NEW p \in 1..HsMaxInit, NEW q \in Seq(HsMessage), hsUp' = [hsUp EXCEPT ![c][p] = q]
    PROVE  /\ hsUp' \in [HsClient -> [1..HsMaxInit -> Seq(HsMessage)]]
           /\ hsUp'[c][p] = q
           /\ \A r \in 1..HsMaxInit : r # p => hsUp'[c][r] = hsUp[c][r]
           /\ \A d \in HsClient \ {c} : hsUp'[d] = hsUp[d]
BY Zenon

\* A step that concerns one client.
LEMMA HsOneClient ==
    ASSUME HsInv, NEW c \in HsClient, Handshake_TypeOK', hsOld' = hsOld,
           \A d \in HsClient \ {c} : /\ hsOut'[d] = hsOut[d] /\ hsUp'[d] = hsUp[d]
                                    /\ hsDown'[d] = hsDown[d] /\ hsIn'[d] = hsIn[d],
           HsGood(hsOld.old, hsOut'[c], hsUp'[c], hsDown'[c], hsIn'[c])
    PROVE  HsInv'
<1>1. ASSUME NEW d \in HsClient PROVE HsGood(hsOld'.old, hsOut'[d], hsUp'[d], hsDown'[d], hsIn'[d])
    <2>1. HsGood(hsOld.old, hsOut[d], hsUp[d], hsDown[d], hsIn[d]) BY DEF HsInv
    <2> QED BY <2>1
<1> QED BY <1>1 DEF HsInv

\* The types of one client's state.
LEMMA HsTypes ==
    ASSUME HsInv, NEW c \in HsClient
    PROVE  /\ hsOld.old \in BOOLEAN /\ hsOut[c] \in HsOutbound
           /\ hsUp[c] \in [1..HsMaxInit -> Seq(HsMessage)] /\ hsDown[c] \in Seq(HsMessage)
           /\ hsIn[c] \in HsInbound
           /\ HsGood(hsOld.old, hsOut[c], hsUp[c], hsDown[c], hsIn[c])
BY DEF HsInv, Handshake_TypeOK, HsInbound

LEMMA HsSwitchStep == ASSUME HsInv, NEW c \in HsClient, switch_path(c) PROVE HsInv'
<1> DEFINE s == hsOut[c]
           n == s.path + 1
           made == make_session_init([s EXCEPT !.path = n, !.live = TRUE], n)
           m == IF s.est THEN HsMsg("switch", s.otag, s.key, n) ELSE HsMsg("init", s.otag, HsNoKey, n)
<1>1. /\ hsOld.old \in BOOLEAN /\ s \in HsOutbound
      /\ hsUp[c] \in [1..HsMaxInit -> Seq(HsMessage)] /\ hsDown[c] \in Seq(HsMessage)
      /\ hsIn[c] \in HsInbound
      /\ HsGood(hsOld.old, s, hsUp[c], hsDown[c], hsIn[c])
    BY HsTypes
<1>2. /\ ~s.live /\ s.path < HsMaxInit
      /\ hsOut' = [hsOut EXCEPT ![c] = made]
      /\ hsUp' = [hsUp EXCEPT ![c][n] = <<m>>]
      /\ UNCHANGED <<hsOld, hsDown, hsIn, hsLast>>
    BY DEF switch_path
<1>3. n \in 1..HsMaxInit /\ n \in Nat BY <1>1, <1>2, HandshakeAssumption DEF HsOutbound
<1>4. m \in HsMessage /\ HsOffers(m) /\ m.init = n /\ (m.tag = 0 => m.kind = "init")
    <2>1. s.otag \in HsTag /\ s.key \in HsKey \cup {HsNoKey} /\ 0 \in HsTag
        BY <1>1, HandshakeAssumption DEF HsOutbound, HsTag
    <2>2. (s.est => s.otag # 0) /\ (~s.est => s.otag = 0) BY <1>1 DEF HsGood, HsEnds
    <2>3. n \in 0..HsMaxInit BY <1>3
    <2> HIDE DEF n, s
    <2>4. CASE s.est BY <2>1, <2>2, <2>3, <2>4 DEF HsMsg, HsMessage, HsOffers
    <2>5. CASE ~s.est BY <2>1, <2>2, <2>3, <2>5 DEF HsMsg, HsMessage, HsOffers
    <2> QED BY <2>4, <2>5
<1>5. /\ made \in HsOutbound /\ made.path = n /\ made.est = s.est /\ made.key = s.key /\ made.otag = s.otag
      /\ hsOld.old => made.eph = 0 /\ made.pend = n
      /\ ~hsOld.old => made.pend = s.pend /\ made.eph = n
    <2>1. n \in 0..HsMaxInit BY <1>3
    <2>2. 0 \in 0..HsMaxInit BY HandshakeAssumption
    <2> HIDE DEF n, s
    <2> QED BY <1>1, <2>1, <2>2, Zenon DEF make_session_init, HsOutbound
<1> HIDE DEF s, made, m, n
<1>6. <<m>> \in Seq(HsMessage) BY <1>4
<1>7. hsUp \in [HsClient -> [1..HsMaxInit -> Seq(HsMessage)]] BY DEF HsInv, Handshake_TypeOK
<1>8. /\ hsUp' \in [HsClient -> [1..HsMaxInit -> Seq(HsMessage)]]
      /\ hsUp'[c][n] = <<m>>
      /\ \A r \in 1..HsMaxInit : r # n => hsUp'[c][r] = hsUp[c][r]
      /\ \A d \in HsClient \ {c} : hsUp'[d] = hsUp[d]
    BY <1>2, <1>3, <1>6, <1>7, HsUpSet, Zenon
<1>9. hsOut' \in [HsClient -> HsOutbound] /\ hsOut'[c] = made /\ \A d \in HsClient \ {c} : hsOut'[d] = hsOut[d]
    BY <1>2, <1>5 DEF HsInv, Handshake_TypeOK
<1>10. Handshake_TypeOK' BY <1>2, <1>8, <1>9 DEF HsInv, Handshake_TypeOK
<1>11. HsGood(hsOld.old, made, hsUp'[c], hsDown[c], hsIn[c])
    <2> DEFINE V == hsUp'[c]
    <2>1. made.path = s.path + 1 BY <1>5 DEF n, s
    <2>2. /\ V[made.path] = <<m>> /\ \A r \in 1..HsMaxInit : r # made.path => V[r] = hsUp[c][r]
          /\ m.init = made.path
          /\ hsOld.old => made.eph = 0 /\ made.pend = made.path
          /\ ~hsOld.old => made.pend = s.pend /\ made.eph = made.path
        BY <1>4, <1>5, <1>8
    <2> HIDE DEF V
    <2>3. HsGood(hsOld.old, made, V, hsDown[c], hsIn[c])
        BY <1>1, <1>2, <1>4, <1>5, <2>1, <2>2, HsSwitchGood, ZenonT(30)
    <2> QED BY <2>3 DEF V
<1> QED BY <1>2, <1>8, <1>9, <1>10, <1>11, HsOneClient, Zenon

LEMMA HsDiesStep == ASSUME HsInv, NEW c \in HsClient, HsPathDies(c) PROVE HsInv'
<1> DEFINE s == hsOut[c]
           t == [s EXCEPT !.live = FALSE]
<1>1. /\ hsOld.old \in BOOLEAN /\ s \in HsOutbound
      /\ hsUp[c] \in [1..HsMaxInit -> Seq(HsMessage)] /\ hsDown[c] \in Seq(HsMessage)
      /\ hsIn[c] \in HsInbound
      /\ HsGood(hsOld.old, s, hsUp[c], hsDown[c], hsIn[c])
    BY HsTypes
<1>2. /\ s.live
      /\ hsOut' = [hsOut EXCEPT ![c] = t]
      /\ hsDown' = [hsDown EXCEPT ![c] = <<>>]
      /\ hsUp' = hsUp \/ hsUp' = [hsUp EXCEPT ![c][s.path] = <<>>]
      /\ UNCHANGED <<hsOld, hsIn, hsLast>>
    BY DEF HsPathDies
<1>3. /\ t \in HsOutbound /\ t.live = FALSE /\ t.path = s.path /\ t.eph = s.eph /\ t.pend = s.pend
      /\ t.est = s.est /\ t.key = s.key /\ t.otag = s.otag
    BY <1>1, Zenon DEF HsOutbound
<1>4. s.path \in 1..HsMaxInit BY <1>1, <1>2 DEF HsGood, HsEnds, HsOutbound
<1> HIDE DEF s, t
<1>5. hsUp \in [HsClient -> [1..HsMaxInit -> Seq(HsMessage)]] BY DEF HsInv, Handshake_TypeOK
<1>6. /\ hsUp' \in [HsClient -> [1..HsMaxInit -> Seq(HsMessage)]]
      /\ hsUp'[c] = hsUp[c] \/ hsUp'[c][s.path] = <<>>
      /\ \A r \in 1..HsMaxInit : r # s.path => hsUp'[c][r] = hsUp[c][r]
      /\ \A d \in HsClient \ {c} : hsUp'[d] = hsUp[d]
    <2>1. CASE hsUp' = hsUp BY <1>5, <2>1
    <2>2. CASE hsUp' = [hsUp EXCEPT ![c][s.path] = <<>>]
        <3>1. <<>> \in Seq(HsMessage) OBVIOUS
        <3> QED BY <1>4, <1>5, <2>2, <3>1, HsUpSet
    <2> QED BY <1>2, <2>1, <2>2
<1>7. hsOut' \in [HsClient -> HsOutbound] /\ hsOut'[c] = t /\ \A d \in HsClient \ {c} : hsOut'[d] = hsOut[d]
    BY <1>2, <1>3 DEF HsInv, Handshake_TypeOK
<1>8. hsDown' \in [HsClient -> Seq(HsMessage)] /\ hsDown'[c] = <<>> /\ \A d \in HsClient \ {c} : hsDown'[d] = hsDown[d]
    BY <1>2 DEF HsInv, Handshake_TypeOK
<1>9. Handshake_TypeOK' BY <1>2, <1>6, <1>7, <1>8 DEF HsInv, Handshake_TypeOK
<1>10. HsGood(hsOld.old, s, hsUp'[c], hsDown[c], hsIn[c])
    <2>1. CASE hsUp'[c] = hsUp[c] BY <1>1, <2>1
    <2>2. CASE hsUp'[c][s.path] = <<>> BY <1>1, <1>4, <1>6, <2>2, HsTakenGood, ZenonT(40)
    <2> QED BY <1>6, <2>1, <2>2
<1>11. HsGood(hsOld.old, t, hsUp'[c], <<>>, hsIn[c])
    <2>1. hsUp'[c] \in [1..HsMaxInit -> Seq(HsMessage)] BY <1>6
    <2> QED BY <1>1, <1>3, <1>10, <2>1, HsDeadGood, Zenon
<1> QED BY <1>2, <1>6, <1>7, <1>8, <1>9, <1>11, HsOneClient

LEMMA HsSendStep == ASSUME HsInv, NEW c \in HsClient, send_session_data_message(c) PROVE HsInv'
<1> DEFINE s == hsOut[c]
<1>1. /\ hsOld.old \in BOOLEAN /\ s \in HsOutbound
      /\ hsUp[c] \in [1..HsMaxInit -> Seq(HsMessage)] /\ hsDown[c] \in Seq(HsMessage)
      /\ hsIn[c] \in HsInbound
      /\ HsGood(hsOld.old, s, hsUp[c], hsDown[c], hsIn[c])
    BY HsTypes
<1>2. UNCHANGED <<hsOld, hsDown, hsIn, hsLast>> BY DEF send_session_data_message
<1>3. CASE s.queue < HsMaxData /\ hsOut' = [hsOut EXCEPT ![c].queue = @ + 1] /\ UNCHANGED hsUp
    <2> DEFINE k == s.queue + 1
               t == [s EXCEPT !.queue = k]
    <2>1. hsOut' = [hsOut EXCEPT ![c] = t] BY <1>3 DEF HsInv, Handshake_TypeOK
    <2>2. k \in 0..HsMaxData BY <1>1, <1>3, HandshakeAssumption DEF HsOutbound
    <2> HIDE DEF k
    <2>3. /\ t \in HsOutbound /\ t.live = s.live /\ t.path = s.path /\ t.eph = s.eph /\ t.pend = s.pend
          /\ t.est = s.est /\ t.key = s.key /\ t.otag = s.otag
        BY <1>1, <2>2, Zenon DEF HsOutbound
    <2> HIDE DEF s, t
    <2>4. hsOut' \in [HsClient -> HsOutbound] /\ hsOut'[c] = t /\ \A d \in HsClient \ {c} : hsOut'[d] = hsOut[d]
        BY <2>1, <2>3 DEF HsInv, Handshake_TypeOK
    <2>5. Handshake_TypeOK'
        <3>1. Handshake_TypeOK BY Zenon DEF HsInv
        <3>2. hsOld' = hsOld /\ hsUp' = hsUp /\ hsDown' = hsDown /\ hsIn' = hsIn /\ hsLast' = hsLast
            BY <1>2, <1>3, ZenonT(30)
        <3> QED BY <2>4, <3>1, <3>2, Zenon DEF Handshake_TypeOK
    <2>6. HsGood(hsOld.old, t, hsUp[c], hsDown[c], hsIn[c])
        BY <1>1, <2>3 DEF HsGood, HsEnds, HsAccepts, HsAccept, HsUpGood, HsFresh
    <2> QED BY <1>2, <1>3, <2>4, <2>5, <2>6, HsOneClient
<1>4. CASE /\ s.est /\ s.live /\ UNCHANGED hsOut
           /\ hsUp' = [hsUp EXCEPT ![c][s.path] = Append(@, HsMsg("data", s.otag, s.key, 0))]
    <2> DEFINE m == HsMsg("data", s.otag, s.key, 0)
               q == Append(hsUp[c][s.path], m)
    <2>1. m \in HsMessage /\ m.tag # 0 /\ ~HsOffers(m)
        <3>1. s.otag \in HsTag /\ s.key \in HsKey \cup {HsNoKey} /\ s.otag # 0 /\ 0 \in 0..HsMaxInit
            BY <1>1, <1>4, HandshakeAssumption, SMTT(20) DEF HsOutbound, HsGood, HsEnds
        <3> HIDE DEF s
        <3> QED BY <3>1 DEF HsMsg, HsMessage, HsOffers
    <2>2. s.path \in 1..HsMaxInit BY <1>1, <1>4 DEF HsGood, HsEnds, HsOutbound
    <2> HIDE DEF m
    <2>3. q \in Seq(HsMessage)
        <3>1. hsUp[c][s.path] \in Seq(HsMessage) BY <1>1, <2>2, Zenon
        <3> QED BY <2>1, <3>1, HsSeqAppend
    <2>4. hsUp \in [HsClient -> [1..HsMaxInit -> Seq(HsMessage)]] BY DEF HsInv, Handshake_TypeOK
    <2>5. hsUp' = [hsUp EXCEPT ![c][s.path] = q] BY <1>4, <2>2, <2>4 DEF m
    <2> HIDE DEF s, q
    <2>6. /\ hsUp' \in [HsClient -> [1..HsMaxInit -> Seq(HsMessage)]]
          /\ hsUp'[c][s.path] = q
          /\ \A r \in 1..HsMaxInit : r # s.path => hsUp'[c][r] = hsUp[c][r]
          /\ \A d \in HsClient \ {c} : hsUp'[d] = hsUp[d]
        BY <2>2, <2>3, <2>4, <2>5, HsUpSet, Zenon
    <2>7. Handshake_TypeOK' BY <1>2, <1>4, <2>6 DEF HsInv, Handshake_TypeOK
    <2>8. HsGood(hsOld.old, s, hsUp'[c], hsDown[c], hsIn[c]) BY <1>1, <2>1, <2>6, HsSendGood, Zenon DEF q
    <2> QED BY <1>2, <1>4, <2>6, <2>7, <2>8, HsOneClient, Zenon DEF s
<1> QED BY <1>3, <1>4 DEF send_session_data_message

LEMMA HsClientClosesStep == ASSUME HsInv, NEW c \in HsClient, HsClientCloses(c) PROVE HsInv'
<1> DEFINE s == hsOut[c]
           t == [s EXCEPT !.live = FALSE, !.closed = TRUE]
           m == HsMsg("close", s.otag, s.key, 0)
           q == Append(hsUp[c][s.path], m)
<1>1. /\ hsOld.old \in BOOLEAN /\ s \in HsOutbound
      /\ hsUp[c] \in [1..HsMaxInit -> Seq(HsMessage)] /\ hsDown[c] \in Seq(HsMessage)
      /\ hsIn[c] \in HsInbound
      /\ HsGood(hsOld.old, s, hsUp[c], hsDown[c], hsIn[c])
    BY HsTypes
<1>2. /\ s.est /\ s.live
      /\ hsUp' = [hsUp EXCEPT ![c][s.path] = Append(@, m)]
      /\ hsOut' = [hsOut EXCEPT ![c].live = FALSE, ![c].closed = TRUE]
      /\ hsDown' = [hsDown EXCEPT ![c] = <<>>]
      /\ UNCHANGED <<hsOld, hsIn, hsLast>>
    BY DEF HsClientCloses
<1>3. hsOut' = [hsOut EXCEPT ![c] = t] BY <1>2, Zenon DEF HsInv, Handshake_TypeOK
<1>4. /\ t \in HsOutbound /\ t.live = FALSE /\ t.path = s.path /\ t.eph = s.eph /\ t.pend = s.pend
      /\ t.est = s.est /\ t.key = s.key /\ t.otag = s.otag
    BY <1>1, Zenon DEF HsOutbound
<1>5. m \in HsMessage /\ m.tag # 0 /\ ~HsOffers(m)
    <2>1. s.otag \in HsTag /\ s.key \in HsKey \cup {HsNoKey} /\ s.otag # 0 /\ 0 \in 0..HsMaxInit
        BY <1>1, <1>2, HandshakeAssumption, SMTT(20) DEF HsOutbound, HsGood, HsEnds
    <2> HIDE DEF s
    <2> QED BY <2>1 DEF HsMsg, HsMessage, HsOffers
<1>6. s.path \in 1..HsMaxInit BY <1>1, <1>2 DEF HsGood, HsEnds, HsOutbound
<1> HIDE DEF m, t
<1>7. q \in Seq(HsMessage)
    <2>1. hsUp[c][s.path] \in Seq(HsMessage) BY <1>1, <1>6, Zenon
    <2> QED BY <1>5, <2>1, HsSeqAppend
<1>8. hsUp \in [HsClient -> [1..HsMaxInit -> Seq(HsMessage)]] BY DEF HsInv, Handshake_TypeOK
<1>9. hsUp' = [hsUp EXCEPT ![c][s.path] = q] BY <1>2, <1>6, <1>8
<1> HIDE DEF s, q
<1>10. /\ hsUp' \in [HsClient -> [1..HsMaxInit -> Seq(HsMessage)]]
       /\ hsUp'[c][s.path] = q
       /\ \A r \in 1..HsMaxInit : r # s.path => hsUp'[c][r] = hsUp[c][r]
       /\ \A d \in HsClient \ {c} : hsUp'[d] = hsUp[d]
    BY <1>6, <1>7, <1>8, <1>9, HsUpSet, Zenon
<1>11. HsGood(hsOld.old, s, hsUp'[c], hsDown[c], hsIn[c]) BY <1>1, <1>5, <1>10, HsSendGood, Zenon DEF q
<1>12. HsGood(hsOld.old, t, hsUp'[c], <<>>, hsIn[c])
    <2>1. hsUp'[c] \in [1..HsMaxInit -> Seq(HsMessage)] BY <1>10
    <2> QED BY <1>1, <1>4, <1>11, <2>1, HsDeadGood, Zenon
<1>13. hsOut' \in [HsClient -> HsOutbound] /\ hsOut'[c] = t /\ \A d \in HsClient \ {c} : hsOut'[d] = hsOut[d]
    BY <1>3, <1>4 DEF HsInv, Handshake_TypeOK
<1>14. hsDown' \in [HsClient -> Seq(HsMessage)] /\ hsDown'[c] = <<>> /\ \A d \in HsClient \ {c} : hsDown'[d] = hsDown[d]
    BY <1>2 DEF HsInv, Handshake_TypeOK
<1>15. Handshake_TypeOK' BY <1>2, <1>10, <1>13, <1>14 DEF HsInv, Handshake_TypeOK
<1> QED BY <1>2, <1>10, <1>12, <1>13, <1>14, <1>15, HsOneClient, ZenonT(40)

LEMMA HsNoSessionType == HsNoSession \in HsInbound
BY HandshakeAssumption DEF HsNoSession, HsInbound, HsTag, HsNoKey

LEMMA HsRemoteClosesStep ==
    ASSUME HsInv, NEW c \in HsClient, NEW tell \in BOOLEAN, HsRemoteCloses(c, tell)
    PROVE  HsInv'
<1> DEFINE s == hsIn[c]
           m == HsMsg("close", 0, s.key, 0)
<1>1. /\ hsOld.old \in BOOLEAN /\ hsOut[c] \in HsOutbound
      /\ hsUp[c] \in [1..HsMaxInit -> Seq(HsMessage)] /\ hsDown[c] \in Seq(HsMessage)
      /\ s \in HsInbound
      /\ HsGood(hsOld.old, hsOut[c], hsUp[c], hsDown[c], s)
    BY HsTypes
<1>2. /\ hsIn' = [hsIn EXCEPT ![c] = HsNoSession]
      /\ hsDown' = hsDown \/ (hsOut[c].live /\ hsDown' = [hsDown EXCEPT ![c] = Append(@, m)])
      /\ UNCHANGED <<hsOld, hsOut, hsUp, hsLast>>
    BY DEF HsRemoteCloses
<1>3. m \in HsMessage /\ m.kind # "accept"
    <2>1. 0 \in HsTag /\ s.key \in HsKey \cup {HsNoKey} /\ 0 \in 0..HsMaxInit
        BY <1>1, HandshakeAssumption DEF HsInbound, HsTag
    <2> HIDE DEF s
    <2> QED BY <2>1 DEF HsMsg, HsMessage
<1> HIDE DEF m
<1>4. /\ hsIn' \in [HsClient -> HsInbound] /\ hsIn'[c] = HsNoSession
      /\ \A d \in HsClient \ {c} : hsIn'[d] = hsIn[d]
    BY <1>2, HsNoSessionType DEF HsInv, Handshake_TypeOK, HsInbound
<1>5. /\ hsDown' \in [HsClient -> Seq(HsMessage)]
      /\ HsGood(hsOld.old, hsOut[c], hsUp[c], hsDown'[c], s)
      /\ \A d \in HsClient \ {c} : hsDown'[d] = hsDown[d]
    <2>1. CASE hsDown' = hsDown BY <1>1, <2>1 DEF HsInv, Handshake_TypeOK
    <2>2. CASE hsOut[c].live /\ hsDown' = [hsDown EXCEPT ![c] = Append(@, m)]
        <3> DEFINE E == Append(hsDown[c], m)
        <3>1. hsDown' = [hsDown EXCEPT ![c] = E] BY <2>2
        <3>2. E \in Seq(HsMessage) /\ HsGood(hsOld.old, hsOut[c], hsUp[c], E, s)
            BY <1>1, <1>3, <2>2, HsDownGood, Zenon
        <3> HIDE DEF E
        <3> QED BY <3>1, <3>2 DEF HsInv, Handshake_TypeOK
    <2> QED BY <1>2, <2>1, <2>2
<1>6. HsGood(hsOld.old, hsOut[c], hsUp[c], hsDown'[c], HsNoSession)
    <2>1. hsDown'[c] \in Seq(HsMessage) BY <1>5
    <2> QED BY <1>1, <1>5, <2>1, HsInGood
<1>7. Handshake_TypeOK' BY <1>2, <1>4, <1>5 DEF HsInv, Handshake_TypeOK, HsInbound
<1> QED BY <1>2, <1>4, <1>5, <1>6, <1>7, HsOneClient

LEMMA HsRestartStep == ASSUME HsInv, HsRestart PROVE HsInv'
<1>1. /\ hsIn' = [c \in HsClient |-> HsNoSession] /\ hsLast' \in HsTag
      /\ UNCHANGED <<hsOld, hsOut, hsUp, hsDown>>
    BY DEF HsRestart
<1>2. Handshake_TypeOK' BY <1>1, HsNoSessionType DEF HsInv, Handshake_TypeOK, HsInbound
<1>3. ASSUME NEW c \in HsClient PROVE HsGood(hsOld.old, hsOut[c], hsUp[c], hsDown[c], hsIn'[c])
    <2>1. hsIn'[c] = HsNoSession BY <1>1
    <2> QED BY <2>1, HsTypes, HsInGood
<1> QED BY <1>1, <1>2, <1>3 DEF HsInv

\* The head of a path is taken off it: every client stays good.
LEMMA HsPopGood ==
    ASSUME HsInv, NEW c \in HsClient, NEW p \in 1..HsMaxInit, hsUp[c][p] # <<>>,
           hsUp' = [hsUp EXCEPT ![c][p] = Tail(@)]
    PROVE  /\ hsUp' \in [HsClient -> [1..HsMaxInit -> Seq(HsMessage)]]
           /\ hsUp'[c][p] = Tail(hsUp[c][p])
           /\ \A r \in 1..HsMaxInit : r # p => hsUp'[c][r] = hsUp[c][r]
           /\ \A d \in HsClient \ {c} : hsUp'[d] = hsUp[d]
           /\ \A d \in HsClient : HsGood(hsOld.old, hsOut[d], hsUp'[d], hsDown[d], hsIn[d])
           /\ HsPlain(hsUp'[c][p])
<1> DEFINE q == Tail(hsUp[c][p])
<1>1. hsUp \in [HsClient -> [1..HsMaxInit -> Seq(HsMessage)]] BY DEF HsInv, Handshake_TypeOK
<1>2. hsUp' = [hsUp EXCEPT ![c][p] = q] BY <1>1
<1>3. q \in Seq(HsMessage) /\ HsPlain(q)
    <2>1. hsUp[c][p] \in Seq(HsMessage) BY <1>1, Zenon
    <2>2. HsUpGood(p, hsUp[c][p], hsOut[c], hsDown[c], hsIn[c]) BY DEF HsInv, HsGood
    <2> QED BY <2>1, <2>2, HsTailPlain
<1> HIDE DEF q
<1>4. /\ hsUp' \in [HsClient -> [1..HsMaxInit -> Seq(HsMessage)]]
      /\ hsUp'[c][p] = q
      /\ \A r \in 1..HsMaxInit : r # p => hsUp'[c][r] = hsUp[c][r]
      /\ \A d \in HsClient \ {c} : hsUp'[d] = hsUp[d]
    BY <1>1, <1>2, <1>3, HsUpSet, Zenon
<1>5. HsGood(hsOld.old, hsOut[c], hsUp'[c], hsDown[c], hsIn[c])
    <2> DEFINE V == hsUp'[c]
    <2>1. V[p] = Tail(hsUp[c][p]) /\ \A r \in 1..HsMaxInit : r # p => V[r] = hsUp[c][r] BY <1>4 DEF q
    <2> HIDE DEF V
    <2>2. HsGood(hsOld.old, hsOut[c], V, hsDown[c], hsIn[c]) BY <2>1, HsTypes, HsTakenGood, Zenon
    <2> QED BY <2>2 DEF V
<1>6. \A d \in HsClient \ {c} : HsGood(hsOld.old, hsOut[d], hsUp'[d], hsDown[d], hsIn[d])
    BY <1>4, HsTypes
<1> QED BY <1>3, <1>4, <1>5, <1>6 DEF q

\* The remote's sessions are kept, moved to another path or ended.
LEMMA HsKeptStep ==
    ASSUME HsInv, NEW c \in HsClient, NEW p \in 1..HsMaxInit, hsUp[c][p] # <<>>,
           hsUp' = [hsUp EXCEPT ![c][p] = Tail(@)], UNCHANGED <<hsOld, hsOut, hsDown>>,
           hsLast' \in HsTag, hsIn' \in [HsClient -> HsInbound],
           \A d \in HsClient : hsIn'[d] = HsNoSession \/ (hsIn'[d].key = hsIn[d].key /\ hsIn'[d].tag = hsIn[d].tag)
    PROVE  HsInv'
<1>1. /\ hsUp' \in [HsClient -> [1..HsMaxInit -> Seq(HsMessage)]]
      /\ \A d \in HsClient : HsGood(hsOld.old, hsOut[d], hsUp'[d], hsDown[d], hsIn[d])
    BY HsPopGood, Zenon
<1>2. ASSUME NEW d \in HsClient PROVE HsGood(hsOld.old, hsOut[d], hsUp'[d], hsDown[d], hsIn'[d])
    <2>1. hsUp'[d] \in [1..HsMaxInit -> Seq(HsMessage)] BY <1>1
    <2> QED BY <1>1, <2>1, HsTypes, HsInGood, ZenonT(40)
<1>3. Handshake_TypeOK' BY <1>1 DEF HsInv, Handshake_TypeOK, HsInbound
<1> QED BY <1>2, <1>3, Zenon DEF HsInv

\* An init arrives, alone or behind a path switch.
LEMMA HsInitStep ==
    ASSUME HsInv, NEW c \in HsClient, NEW p \in 1..HsMaxInit, hsUp[c][p] # <<>>,
           hsUp' = [hsUp EXCEPT ![c][p] = Tail(@)], UNCHANGED <<hsOld, hsOut>>,
           HsOffers(Head(hsUp[c][p])), handle_session_init(c, p, Head(hsUp[c][p]).init)
    PROVE  HsInv'
<1> DEFINE n == Head(hsUp[c][p]).init
<1>1. /\ hsUp[c][p] \in Seq(HsMessage) /\ 1 \in 1..Len(hsUp[c][p]) /\ Head(hsUp[c][p]) = hsUp[c][p][1]
    <2>1. hsUp[c][p] \in Seq(HsMessage) BY ZenonT(40) DEF HsInv, Handshake_TypeOK
    <2>2. Len(hsUp[c][p]) \in Nat \ {0} BY <2>1, HsSeqLen
    <2> QED BY <2>1, <2>2
<1>2. n = p /\ p <= hsOut[c].path /\ HsFresh(p, hsOut[c], hsDown[c], hsIn[c])
    <2>1. HsUpGood(p, hsUp[c][p], hsOut[c], hsDown[c], hsIn[c]) BY DEF HsInv, HsGood
    <2>2. hsOut[c].path \in Nat BY HsTypes DEF HsOutbound
    <2> QED BY <1>1, <2>1, <2>2 DEF HsUpGood
<1>3. PICK t \in HsNextTag({hsIn[d].tag : d \in HsClient}) :
        LET key == [init |-> n, eph |-> n, tag |-> IF hsOld.old THEN 0 ELSE t]
            back == hsOut[c].live /\ hsOut[c].path = p
        IN /\ hsLast' = t
           /\ IF hsOld.tun
              THEN /\ hsIn' = [hsIn EXCEPT ![c] = [tag |-> t, key |-> key, path |-> p]]
                   /\ hsDown' = IF back
                        THEN [hsDown EXCEPT ![c] = Append(@, HsMsg("accept", t, key, n))]
                        ELSE hsDown
              ELSE UNCHANGED <<hsIn, hsDown>>
    BY Zenon DEF handle_session_init
<1>4. t \in HsTag \ {0} BY DEF HsNextTag
<1>5. CASE ~hsOld.tun
    <2>1. hsLast' = t /\ UNCHANGED <<hsIn, hsDown>> BY <1>3, <1>5
    <2>2. hsIn' \in [HsClient -> HsInbound] BY <2>1 DEF HsInv, Handshake_TypeOK, HsInbound
    <2> QED BY <1>4, <2>1, <2>2, HsKeptStep, Zenon
<1>6. CASE hsOld.tun
    <2> DEFINE key == HsMade(hsOld.old, p, t)
               J == [tag |-> t, key |-> key, path |-> p]
               m == HsMsg("accept", t, key, p)
    <2>1. /\ hsLast' = t /\ hsIn' = [hsIn EXCEPT ![c] = J]
          /\ \/ hsDown' = hsDown
             \/ hsOut[c].live /\ hsOut[c].path = p /\ hsDown' = [hsDown EXCEPT ![c] = Append(@, m)]
        BY <1>2, <1>3, <1>6 DEF HsMade
    <2>2. key \in HsKey \cup {HsNoKey}
        <3>1. 0 \in HsTag /\ t \in HsTag BY <1>4, HandshakeAssumption DEF HsTag
        <3> QED BY <3>1 DEF HsKey, HsMade
    <2>3. J \in HsInbound /\ J.tag = t /\ J.key = key
        <3> HIDE DEF key
        <3> QED BY <1>4, <2>2 DEF HsInbound
    <2>4. m \in HsMessage /\ m.kind = "accept" /\ m.tag = t /\ m.key = J.key /\ m.init = p
        <3> HIDE DEF key
        <3> QED BY <1>4, <2>2 DEF HsMsg, HsMessage
    <2>5. J.key = HsMade(hsOld.old, p, t) BY <2>3
    <2> HIDE DEF J, m, key
    <2>6. /\ hsIn' \in [HsClient -> HsInbound] /\ hsIn'[c] = J
          /\ \A d \in HsClient \ {c} : hsIn'[d] = hsIn[d]
        BY <2>1, <2>3 DEF HsInv, Handshake_TypeOK, HsInbound
    <2>7. /\ hsUp' \in [HsClient -> [1..HsMaxInit -> Seq(HsMessage)]]
          /\ hsUp'[c][p] = Tail(hsUp[c][p])
          /\ \A r \in 1..HsMaxInit : r # p => hsUp'[c][r] = hsUp[c][r]
          /\ \A d \in HsClient \ {c} : hsUp'[d] = hsUp[d]
          /\ HsGood(hsOld.old, hsOut[c], hsUp'[c], hsDown[c], hsIn[c]) /\ HsPlain(hsUp'[c][p])
        BY HsPopGood, ZenonT(40)
    <2>8. hsDown[c] \in Seq(HsMessage) BY DEF HsInv, Handshake_TypeOK
    <2>9. /\ hsDown' \in [HsClient -> Seq(HsMessage)]
          /\ hsDown'[c] = hsDown[c] \/ (hsDown'[c] = Append(hsDown[c], m) /\ hsOut[c].live /\ hsOut[c].path = p)
          /\ \A d \in HsClient \ {c} : hsDown'[d] = hsDown[d]
        <3>1. CASE hsDown' = hsDown BY <3>1 DEF HsInv, Handshake_TypeOK
        <3>2. CASE hsOut[c].live /\ hsOut[c].path = p /\ hsDown' = [hsDown EXCEPT ![c] = Append(@, m)]
            <4> DEFINE E == Append(hsDown[c], m)
            <4>1. E \in Seq(HsMessage) BY <2>4, <2>8, HsSeqAppend
            <4>2. hsDown' = [hsDown EXCEPT ![c] = E] BY <3>2
            <4> HIDE DEF E
            <4>3. /\ hsDown' \in [HsClient -> Seq(HsMessage)] /\ hsDown'[c] = E
                  /\ \A d \in HsClient \ {c} : hsDown'[d] = hsDown[d]
                BY <4>1, <4>2 DEF HsInv, Handshake_TypeOK
            <4> QED BY <3>2, <4>3 DEF E
        <3> QED BY <2>1, <3>1, <3>2
    <2>10. HsGood(hsOld.old, hsOut[c], hsUp'[c], hsDown'[c], J)
        <3> DEFINE V == hsUp'[c]  D == hsDown[c]  s == hsOut[c]  I == hsIn[c]  old == hsOld.old
        <3>1. /\ V \in [1..HsMaxInit -> Seq(HsMessage)] /\ HsGood(old, s, V, D, I) /\ HsPlain(V[p])
              /\ p <= s.path /\ HsFresh(p, s, D, I)
            BY <1>2, <2>7
        <3>2. old \in BOOLEAN /\ s \in HsOutbound /\ D \in Seq(HsMessage) BY HsTypes
        <3>3. J.key = HsMade(old, p, t) /\ J.key.init = p BY <2>5 DEF HsMade
        <3> HIDE DEF V, D, s, I, old
        <3>4. HsGood(old, s, V, D, J) BY <3>1, <3>2, <3>3, HsAcceptedGood, ZenonT(40)
        <3>5. s.live /\ s.path = p => HsGood(old, s, V, Append(D, m), J)
            BY <1>4, <2>3, <2>4, <3>1, <3>2, <3>3, <3>4, HsAcceptSentGood, Zenon
        <3>6. hsDown'[c] = D \/ (hsDown'[c] = Append(D, m) /\ s.live /\ s.path = p) BY SMTT(30), <2>9 DEF D, s
        <3> QED BY <3>4, <3>5, <3>6, ZenonT(40) DEF V, s, old
    <2>11. Handshake_TypeOK' BY <1>4, <2>1, <2>6, <2>7, <2>9 DEF HsInv, Handshake_TypeOK, HsInbound
    <2> QED BY <2>6, <2>7, <2>9, <2>10, <2>11, HsOneClient, ZenonT(40)
<1> QED BY <1>5, <1>6

LEMMA HsArriveStep ==
    ASSUME HsInv, NEW c \in HsClient, NEW p \in 1..HsMaxInit, HsArrive(c, p)
    PROVE  HsInv'
<1> DEFINE m == Head(hsUp[c][p])
<1>1. /\ hsUp[c][p] # <<>> /\ hsUp' = [hsUp EXCEPT ![c][p] = Tail(@)] /\ UNCHANGED <<hsOld, hsOut>>
      /\ HsRecvInit(c, p, m) \/ HsRecvSwitch(c, p, m) \/ HsRecvOther(c, m)
    BY DEF HsArrive
<1> HIDE DEF m
<1>2. CASE m.kind \in {"init", "switch"} /\ handle_session_init(c, p, m.init)
    <2>1. HsOffers(m) BY <1>2 DEF HsOffers
    <2> QED BY <1>1, <1>2, <2>1, HsInitStep, Zenon DEF m
<1>3. ASSUME UNCHANGED <<hsDown, hsLast>>, NEW X,
             hsIn' = [d \in HsClient |-> IF d \in X THEN HsNoSession ELSE hsIn[d]]
      PROVE  HsInv'
    <2>1. hsIn \in [HsClient -> HsInbound] /\ hsLast' \in HsTag BY <1>3 DEF HsInv, Handshake_TypeOK, HsInbound
    <2>2. hsIn' \in [HsClient -> HsInbound] BY <1>3, <2>1, HsNoSessionType
    <2>3. \A d \in HsClient : hsIn'[d] = HsNoSession \/ (hsIn'[d].key = hsIn[d].key /\ hsIn'[d].tag = hsIn[d].tag)
        BY <1>3
    <2> QED BY <1>1, <1>3, <2>1, <2>2, <2>3, HsKeptStep, Zenon
<1>4. ASSUME UNCHANGED <<hsDown, hsLast>>, NEW X,
             hsIn' = [d \in HsClient |-> IF d \in X THEN [hsIn[d] EXCEPT !.path = p] ELSE hsIn[d]]
      PROVE  HsInv'
    <2>1. hsIn \in [HsClient -> HsInbound] /\ hsLast' \in HsTag BY <1>4 DEF HsInv, Handshake_TypeOK, HsInbound
    <2>2. \A d \in HsClient : /\ [hsIn[d] EXCEPT !.path = p] \in HsInbound
                             /\ [hsIn[d] EXCEPT !.path = p].key = hsIn[d].key
                             /\ [hsIn[d] EXCEPT !.path = p].tag = hsIn[d].tag
        BY <2>1 DEF HsInbound
    <2>3. hsIn' \in [HsClient -> HsInbound] BY <1>4, <2>1, <2>2
    <2>4. \A d \in HsClient : hsIn'[d].key = hsIn[d].key /\ hsIn'[d].tag = hsIn[d].tag BY <1>4, <2>2
    <2> QED BY <1>1, <1>4, <2>1, <2>3, <2>4, HsKeptStep, Zenon
<1>5. CASE HsRecvInit(c, p, m) BY <1>2, <1>5 DEF HsRecvInit
<1>6. CASE HsRecvSwitch(c, p, m)
    <2>1. CASE HsFound(m.tag) = {} BY <1>2, <1>6, <2>1 DEF HsRecvSwitch
    <2>2. CASE HsFound(m.tag) # {}
        <3> DEFINE X == {d \in HsFound(m.tag) : hsIn[d].key = m.key}
        <3>1. /\ UNCHANGED <<hsDown, hsLast>>
              /\ hsIn' = [d \in HsClient |-> IF d \in X THEN [hsIn[d] EXCEPT !.path = p] ELSE hsIn[d]]
            BY <1>6, <2>2 DEF HsRecvSwitch
        <3> QED BY <1>4, <3>1, Zenon
    <2> QED BY <2>1, <2>2
<1>7. CASE HsRecvOther(c, m)
    <2> DEFINE X == {d \in HsFound(m.tag) : m.kind = "close" /\ hsIn[d].key = m.key}
    <2>1. /\ UNCHANGED <<hsDown, hsLast>>
          /\ hsIn' = [d \in HsClient |-> IF d \in X THEN HsNoSession ELSE hsIn[d]]
        BY <1>7 DEF HsRecvOther
    <2> QED BY <1>3, <2>1, Zenon
<1> QED BY <1>1, <1>5, <1>6, <1>7

\* The handshake is completed with key k: that of the accept m at the head of what comes
\* down the path.
LEMMA HsCompleteStep ==
    ASSUME HsInv, NEW c \in HsClient, hsDown[c] # <<>>, hsOut[c].live, Head(hsDown[c]).kind = "accept",
           UNCHANGED <<hsOld, hsIn, hsLast>>, hsDown' = [hsDown EXCEPT ![c] = Tail(@)],
           NEW r \in HsOutbound, NEW k, HsEstablished(c, r, k, Head(hsDown[c]).tag),
           k = Head(hsDown[c]).key,
           r.live = hsOut[c].live, r.path = hsOut[c].path, r.queue = hsOut[c].queue,
           r.eph \in {0, hsOut[c].eph}, r.pend \in {0, hsOut[c].pend}
    PROVE  HsInv'
<1> DEFINE s == hsOut[c]
           D == hsDown[c]
           m == Head(D)
           t == [r EXCEPT !.est = TRUE, !.key = k, !.otag = m.tag, !.queue = 0]
           n == HsMsg("data", m.tag, k, 0)
           q == hsUp[c][s.path] \o HsCopies(s.queue, n)
<1>1. /\ hsOld.old \in BOOLEAN /\ s \in HsOutbound
      /\ hsUp[c] \in [1..HsMaxInit -> Seq(HsMessage)] /\ D \in Seq(HsMessage)
      /\ hsIn[c] \in HsInbound
      /\ HsGood(hsOld.old, s, hsUp[c], D, hsIn[c])
    BY HsTypes
<1>2. 1 \in 1..Len(D) /\ m = D[1]
    <2>1. Len(D) \in Nat \ {0} BY <1>1, HsSeqLen, ZenonT(30)
    <2> QED BY <1>1, <2>1
<1>3. m \in HsMessage /\ m.tag # 0 /\ m.kind = "accept"
    <2>1. HsAccept(hsOld.old, s, hsIn[c], m) BY <1>1, <1>2, ZenonT(30) DEF HsGood, HsAccepts
    <2> QED BY <1>1, <1>2, <2>1, SMTT(20) DEF HsAccept
<1>4. s.path \in 1..HsMaxInit
    <2>1. s.live => s.path > 0 BY <1>1, Zenon DEF HsGood, HsEnds
    <2>2. s.path \in 0..HsMaxInit BY <1>1, Zenon DEF HsOutbound
    <2>3. s.live OBVIOUS
    <2> HIDE DEF s
    <2> QED BY <2>1, <2>2, <2>3, HandshakeAssumption
<1>5. m.tag \in HsTag /\ k \in HsKey \cup {HsNoKey} BY <1>3 DEF HsMessage
<1>6. n \in HsMessage /\ n.tag # 0 /\ ~HsOffers(n)
    <2>1. 0 \in 0..HsMaxInit BY HandshakeAssumption
    <2> HIDE DEF m
    <2> QED BY <1>3, <1>5, <2>1 DEF HsMsg, HsMessage, HsOffers
<1>7. /\ t \in HsOutbound /\ t.est = TRUE /\ t.otag = m.tag /\ t.key = k
      /\ t.live = s.live /\ t.path = s.path /\ t.eph \in {0, s.eph} /\ t.pend \in {0, s.pend}
    <2>1. 0 \in 0..HsMaxData BY HandshakeAssumption, SMTT(20)
    <2> HIDE DEF m, s
    <2> QED BY <1>5, <2>1, Zenon DEF HsOutbound, s
<1>8. hsOut' = [hsOut EXCEPT ![c] = t] BY DEF HsEstablished
<1>9. hsUp' = [hsUp EXCEPT ![c][s.path] = q]
    <2>1. hsUp' = [hsUp EXCEPT ![c][s.path] = @ \o HsCopies(s.queue, n)] BY SMTT(20), Zenon DEF HsEstablished
    <2> HIDE DEF n, s
    <2> QED BY <1>4, <2>1, ZenonT(30) DEF HsInv, Handshake_TypeOK
<1>10. s.queue \in Nat BY <1>1 DEF HsOutbound
<1>11. hsUp \in [HsClient -> [1..HsMaxInit -> Seq(HsMessage)]] BY DEF HsInv, Handshake_TypeOK
<1> HIDE DEF t, n, m
<1>12. q \in Seq(HsMessage)
    <2>1. HsCopies(s.queue, n) \in Seq(HsMessage) BY <1>6, <1>10 DEF HsCopies
    <2>2. hsUp[c][s.path] \in Seq(HsMessage) BY <1>1, <1>4, Zenon
    <2> QED BY <2>1, <2>2, HsSeqConcat
<1> HIDE DEF q, s, D
<1>13. /\ hsUp' \in [HsClient -> [1..HsMaxInit -> Seq(HsMessage)]]
       /\ hsUp'[c][s.path] = q
       /\ \A i \in 1..HsMaxInit : i # s.path => hsUp'[c][i] = hsUp[c][i]
       /\ \A d \in HsClient \ {c} : hsUp'[d] = hsUp[d]
    BY <1>4, <1>9, <1>11, <1>12, HsUpSet, ZenonT(40)
<1>14. HsGood(hsOld.old, t, hsUp'[c], D, hsIn[c])
    <2> DEFINE V == hsUp'[c]  U == hsUp[c]  I == hsIn[c]  old == hsOld.old
    <2>1. /\ V[s.path] = U[s.path] \o HsCopies(s.queue, n)
          /\ \A i \in 1..HsMaxInit : i # s.path => V[i] = U[i]
        BY <1>13, ZenonT(30) DEF q
    <2>2. /\ old \in BOOLEAN /\ U \in [1..HsMaxInit -> Seq(HsMessage)] /\ I \in HsInbound
          /\ HsGood(old, s, U, D, I) /\ s.live
        BY <1>1 DEF s
    <2>3. D[1].kind = "accept" /\ t.otag = D[1].tag /\ t.key = D[1].key BY <1>2, <1>3, <1>7 DEF m, D
    <2> HIDE DEF V, U, I, old
    <2>4. HsGood(old, t, V, D, I)
        BY <1>1, <1>2, <1>6, <1>7, <1>10, <2>1, <2>2, <2>3, HsEstablishedGood, ZenonT(40)
    <2> QED BY <2>4, Zenon DEF V, U, I, old
<1>15. Tail(D) \in Seq(HsMessage) /\ HsGood(hsOld.old, t, hsUp'[c], Tail(D), hsIn[c])
    <2>1. hsUp'[c] \in [1..HsMaxInit -> Seq(HsMessage)] BY <1>13
    <2>2. n.kind # "accept" /\ t.live /\ D # <<>> BY <1>7, Zenon DEF n, HsMsg, D, s
    <2> QED BY <1>1, <1>6, <1>7, <1>14, <2>1, <2>2, HsDownGood, Zenon
<1>16. hsOut' \in [HsClient -> HsOutbound] /\ hsOut'[c] = t /\ \A d \in HsClient \ {c} : hsOut'[d] = hsOut[d]
    BY <1>7, <1>8, Zenon DEF HsInv, Handshake_TypeOK
<1>17. /\ hsDown' \in [HsClient -> Seq(HsMessage)] /\ hsDown'[c] = Tail(D)
       /\ \A d \in HsClient \ {c} : hsDown'[d] = hsDown[d]
    BY <1>15 DEF HsInv, Handshake_TypeOK, D
<1>18. Handshake_TypeOK' BY <1>13, <1>16, <1>17 DEF HsInv, Handshake_TypeOK
<1> QED BY <1>13, <1>15, <1>16, <1>17, <1>18, HsOneClient, ZenonT(40)

\* A message comes down and nothing else changes.
LEMMA HsIgnoredStep ==
    ASSUME HsInv, NEW c \in HsClient, hsDown[c] # <<>>, hsOut[c].live,
           UNCHANGED <<hsOld, hsIn, hsLast, hsOut, hsUp>>, hsDown' = [hsDown EXCEPT ![c] = Tail(@)]
    PROVE  HsInv'
<1> DEFINE D == hsDown[c]  m == HsMsg("close", 0, HsNoKey, 0)
<1>1. m \in HsMessage /\ m.kind # "accept"
    <2>1. 0 \in HsTag /\ 0 \in 0..HsMaxInit BY HandshakeAssumption DEF HsTag
    <2> QED BY <2>1 DEF HsMsg, HsMessage
<1> HIDE DEF m
<1>2. D \in Seq(HsMessage) /\ D # <<>> BY DEF HsInv, Handshake_TypeOK
<1> HIDE DEF D
<1>3. Tail(D) \in Seq(HsMessage) /\ HsGood(hsOld.old, hsOut[c], hsUp[c], Tail(D), hsIn[c])
    <2>1. /\ hsOld.old \in BOOLEAN /\ hsOut[c] \in HsOutbound
          /\ hsUp[c] \in [1..HsMaxInit -> Seq(HsMessage)] /\ hsIn[c] \in HsInbound
          /\ HsGood(hsOld.old, hsOut[c], hsUp[c], D, hsIn[c])
        BY HsTypes DEF D
    <2> QED BY <1>1, <1>2, <2>1, HsDownGood, Zenon
<1>4. /\ hsDown' \in [HsClient -> Seq(HsMessage)] /\ hsDown'[c] = Tail(D)
      /\ \A d \in HsClient \ {c} : hsDown'[d] = hsDown[d]
    BY <1>3 DEF HsInv, Handshake_TypeOK, D
<1>5. Handshake_TypeOK' BY <1>4, ZenonT(30) DEF HsInv, Handshake_TypeOK
<1> QED BY <1>3, <1>4, <1>5, HsOneClient, Zenon

LEMMA HsAnswerStep == ASSUME HsInv, NEW c \in HsClient, HsAnswer(c) PROVE HsInv'
<1> DEFINE s == hsOut[c]
           m == Head(hsDown[c])
<1>1. /\ hsDown[c] # <<>> /\ s.live /\ UNCHANGED <<hsOld, hsIn, hsLast>>
      /\ hsDown' = [hsDown EXCEPT ![c] = IF m.kind = "close" /\ m.key = s.key THEN <<>> ELSE Tail(@)]
      /\ \/ m.kind = "accept" /\ ~hsOld.old /\ handle_session_accept(c, m)
         \/ m.kind = "accept" /\ hsOld.old /\ handle_session_accept_deprecated(c, m)
         \/ m.kind = "close" /\ HsRecvClose(c, m)
    BY DEF HsAnswer
<1>2. /\ hsOld.old \in BOOLEAN /\ s \in HsOutbound
      /\ hsUp[c] \in [1..HsMaxInit -> Seq(HsMessage)] /\ hsDown[c] \in Seq(HsMessage)
      /\ hsIn[c] \in HsInbound
      /\ HsGood(hsOld.old, s, hsUp[c], hsDown[c], hsIn[c])
    BY HsTypes
<1>3. m = hsDown[c][1] /\ 1 \in 1..Len(hsDown[c]) /\ m \in HsMessage
    <2>1. Len(hsDown[c]) \in Nat \ {0} BY <1>1, <1>2, HsSeqLen, SMTT(20)
    <2> QED BY <1>1, <1>2, <2>1, SMTT(20)
<1>4. m.kind = "accept" => HsAccept(hsOld.old, s, hsIn[c], m) BY <1>2, <1>3 DEF HsGood, HsAccepts
<1>5. 0 \in 0..HsMaxInit BY HandshakeAssumption
<1>6. CASE m.kind = "accept" /\ ~hsOld.old /\ handle_session_accept(c, m)
    <2>1. hsDown' = [hsDown EXCEPT ![c] = Tail(@)] BY <1>1, <1>6, Zenon
    <2>2. CASE s.eph = 0
        <3>1. UNCHANGED <<hsOut, hsUp>> BY <1>6, <2>2 DEF handle_session_accept
        <3> QED BY <1>1, <2>1, <3>1, HsIgnoredStep, Zenon
    <2>3. CASE s.eph # 0
        <3> DEFINE r == [s EXCEPT !.eph = 0]
                   k == [init |-> m.init, eph |-> s.eph, tag |-> m.tag]
        <3>1. HsEstablished(c, r, k, m.tag) BY <1>6, <2>3 DEF handle_session_accept
        <3>2. s.eph = m.init BY <1>2, <1>4, <1>6, <2>3, Zenon DEF HsAccept, HsGood, HsEnds
        <3>3. k = m.key BY <1>4, <1>6, <3>2, Zenon DEF HsAccept, HsMade
        <3>4. /\ r \in HsOutbound /\ r.live = s.live /\ r.path = s.path /\ r.queue = s.queue
              /\ r.eph = 0 /\ r.pend = s.pend
            BY <1>2, <1>5, Zenon DEF HsOutbound
        <3> HIDE DEF r, k
        <3> QED BY <1>1, <1>6, <2>1, <3>1, <3>3, <3>4, HsCompleteStep, Zenon
    <2> QED BY <2>2, <2>3
<1>7. CASE m.kind = "accept" /\ hsOld.old /\ handle_session_accept_deprecated(c, m)
    <2>1. hsDown' = [hsDown EXCEPT ![c] = Tail(@)] BY <1>1, <1>7, Zenon
    <2>2. CASE ~((m.key = s.key \/ m.init = s.pend) /\ s.pend # 0)
        <3>1. UNCHANGED <<hsOut, hsUp>> BY <1>7, <2>2 DEF handle_session_accept_deprecated
        <3> QED BY <1>1, <2>1, <3>1, HsIgnoredStep, Zenon
    <2>3. CASE (m.key = s.key \/ m.init = s.pend) /\ s.pend # 0
        <3> DEFINE r == [s EXCEPT !.pend = 0]
                   k == [init |-> m.init, eph |-> s.pend, tag |-> 0]
        <3>1. HsEstablished(c, r, k, m.tag) BY <1>7, <2>3 DEF handle_session_accept_deprecated
        <3>2. s.pend = m.init BY <1>2, <1>4, <1>7, <2>3, Zenon DEF HsAccept, HsGood, HsEnds
        <3>3. k = m.key BY <1>4, <1>7, <3>2, Zenon DEF HsAccept, HsMade
        <3>4. /\ r \in HsOutbound /\ r.live = s.live /\ r.path = s.path /\ r.queue = s.queue
              /\ r.eph = s.eph /\ r.pend = 0
            BY <1>2, <1>5, Zenon DEF HsOutbound
        <3> HIDE DEF r, k
        <3> QED BY <1>1, <1>7, <2>1, <3>1, <3>3, <3>4, HsCompleteStep, Zenon
    <2> QED BY <2>2, <2>3
<1>8. CASE m.kind = "close" /\ HsRecvClose(c, m)
    <2>1. CASE m.key # s.key
        <3>1. hsDown' = [hsDown EXCEPT ![c] = Tail(@)] /\ UNCHANGED <<hsOut, hsUp>>
            BY <1>1, <1>8, <2>1 DEF HsRecvClose
        <3> QED BY <1>1, <3>1, HsIgnoredStep, Zenon
    <2>2. CASE m.key = s.key
        <3> DEFINE t == [s EXCEPT !.live = FALSE]
        <3>1. hsOut' = [hsOut EXCEPT ![c] = t] /\ hsUp' = hsUp /\ hsDown' = [hsDown EXCEPT ![c] = <<>>]
            BY <1>1, <1>8, <2>2 DEF HsRecvClose
        <3>2. /\ t \in HsOutbound /\ t.live = FALSE /\ t.path = s.path /\ t.eph = s.eph /\ t.pend = s.pend
              /\ t.est = s.est /\ t.key = s.key /\ t.otag = s.otag
            BY <1>2, Zenon DEF HsOutbound
        <3> HIDE DEF t
        <3>3. HsGood(hsOld.old, t, hsUp[c], <<>>, hsIn[c]) BY <1>2, <3>2, HsDeadGood, Zenon
        <3>4. hsOut' \in [HsClient -> HsOutbound] /\ hsOut'[c] = t /\ \A d \in HsClient \ {c} : hsOut'[d] = hsOut[d]
            BY <3>1, <3>2 DEF HsInv, Handshake_TypeOK
        <3>5. hsDown' \in [HsClient -> Seq(HsMessage)] /\ hsDown'[c] = <<>> /\ \A d \in HsClient \ {c} : hsDown'[d] = hsDown[d]
            BY <3>1, SMTT(20) DEF HsInv, Handshake_TypeOK
        <3>6. Handshake_TypeOK' BY <1>1, <3>1, <3>4, <3>5 DEF HsInv, Handshake_TypeOK
        <3> QED BY <1>1, <3>1, <3>3, <3>4, <3>5, <3>6, HsOneClient, ZenonT(40)
    <2> QED BY <2>1, <2>2
<1> QED BY <1>1, <1>6, <1>7, <1>8

LEMMA HsInitInv == HsInit => HsInv
<1> SUFFICES ASSUME HsInit PROVE HsInv OBVIOUS
<1> DEFINE s == [est |-> FALSE, closed |-> FALSE, key |-> HsNoKey, otag |-> 0, eph |-> 0, pend |-> 0,
                 path |-> 0, live |-> FALSE, queue |-> 0]
<1>1. 0 \in HsTag /\ 1 \in HsTag /\ 0 \in 0..HsMaxInit /\ 0 \in 0..HsMaxData BY HandshakeAssumption DEF HsTag
<1>2. s \in HsOutbound BY <1>1 DEF HsOutbound
<1>3. /\ s.est = FALSE /\ s.key = HsNoKey /\ s.otag = 0 /\ s.eph = 0 /\ s.pend = 0 /\ s.path = 0
      /\ s.live = FALSE
    OBVIOUS
<1>4. hsOut = [c \in HsClient |-> s] BY DEF HsInit
<1> HIDE DEF s
<1>5. Handshake_TypeOK
    <2>1. HsNoSession \in [tag : HsTag, key : HsKey \cup {HsNoKey}, path : 0..HsMaxInit]
        BY HsNoSessionType DEF HsInbound
    <2>2. <<>> \in Seq(HsMessage) OBVIOUS
    <2>3. hsUp \in [HsClient -> [1..HsMaxInit -> Seq(HsMessage)]] BY <2>2 DEF HsInit
    <2>4. hsDown \in [HsClient -> Seq(HsMessage)] BY <2>2 DEF HsInit
    <2>5. hsOut \in [HsClient -> HsOutbound] BY <1>2, <1>4
    <2>6. hsIn \in [HsClient -> [tag : HsTag, key : HsKey \cup {HsNoKey}, path : 0..HsMaxInit]]
        BY <2>1 DEF HsInit
    <2>7. hsOld \in [old : BOOLEAN, tun : BOOLEAN] /\ hsLast \in HsTag BY <1>1 DEF HsInit
    <2> QED BY <2>3, <2>4, <2>5, <2>6, <2>7 DEF Handshake_TypeOK
<1>6. HsNoKey.init = 0 /\ HsNoSession.key.init = 0 BY SMTT(30) DEF HsNoKey, HsNoSession
<1>7. ASSUME NEW c \in HsClient PROVE HsGood(hsOld.old, hsOut[c], hsUp[c], hsDown[c], hsIn[c])
    <2>1. hsOut[c] = s /\ hsDown[c] = <<>> /\ hsIn[c] = HsNoSession /\ \A p \in 1..HsMaxInit : hsUp[c][p] = <<>>
        BY <1>4 DEF HsInit
    <2>2. HsEnds(hsOld.old, s, HsNoSession) BY <1>3, <1>6 DEF HsEnds
    <2> QED BY <2>1, <2>2, HsEmptyGood DEF HsGood
<1> QED BY <1>5, <1>7 DEF HsInv

LEMMA HsInvSafe == HsInv => Handshake_TypeOK /\ KeysAgree
<1> SUFFICES ASSUME HsInv PROVE KeysAgree BY DEF HsInv
<1>1. ASSUME NEW c \in HsClient
      PROVE  LET s == hsOut[c]
             IN /\ s.est => /\ s.key.init = s.key.eph /\ s.otag # 0
                            /\ s.key.init = hsIn[c].key.init => s.key = hsIn[c].key /\ s.otag = hsIn[c].tag
                /\ \A p \in 1..HsMaxInit : \A i \in 1..Len(hsUp[c][p]) :
                     hsUp[c][p][i].tag = 0 => hsUp[c][p][i].kind = "init"
    <2>1. HsGood(hsOld.old, hsOut[c], hsUp[c], hsDown[c], hsIn[c]) BY DEF HsInv
    <2>2. HsEnds(hsOld.old, hsOut[c], hsIn[c]) BY <2>1, Zenon DEF HsGood
    <2>3. \A p \in 1..HsMaxInit : \A i \in 1..Len(hsUp[c][p]) :
             hsUp[c][p][i].tag = 0 => hsUp[c][p][i].kind = "init"
        BY <2>1 DEF HsGood, HsUpGood
    <2>4. hsOut[c].est =>
            /\ hsOut[c].key.init = hsOut[c].key.eph /\ hsOut[c].otag # 0
            /\ hsOut[c].key.init = hsIn[c].key.init =>
                  hsOut[c].key = hsIn[c].key /\ hsOut[c].otag = hsIn[c].tag
        BY <2>2 DEF HsEnds
    <2> QED BY <2>3, <2>4
<1> QED BY <1>1, Zenon DEF KeysAgree

\* For any number of clients, paths, tags and queued packets, and either kind of remote:
\* whenever both ends made their session from one init they hold one key and one tag,
\* whatever was lost, late, closed or forgotten in between.
THEOREM SessionKeysAgree == HsSpec => [](Handshake_TypeOK /\ KeysAgree)
<1>1. HsInv /\ [HsNext]_hsvars => HsInv'
    <2> SUFFICES ASSUME HsInv, [HsNext]_hsvars PROVE HsInv' OBVIOUS
    <2>1. ASSUME NEW c \in HsClient,
                 \/ switch_path(c) \/ HsPathDies(c) \/ send_session_data_message(c)
                 \/ HsAnswer(c) \/ HsClientCloses(c)
          PROVE  HsInv'
        BY <2>1, HsSwitchStep, HsDiesStep, HsSendStep, HsAnswerStep, HsClientClosesStep
    <2>2. ASSUME NEW c \in HsClient, NEW p \in 1..HsMaxInit, HsArrive(c, p) PROVE HsInv'
        BY <2>2, HsArriveStep
    <2>3. ASSUME NEW c \in HsClient, NEW tell \in BOOLEAN, HsRemoteCloses(c, tell) PROVE HsInv'
        BY <2>3, HsRemoteClosesStep
    <2>4. CASE HsRestart BY <2>4, HsRestartStep
    <2>5. CASE UNCHANGED hsvars BY <2>5 DEF hsvars, HsInv, Handshake_TypeOK
    <2> QED BY <2>1, <2>2, <2>3, <2>4, <2>5 DEF HsNext
<1> QED BY <1>1, HsInitInv, HsInvSafe, PTL DEF HsSpec
=============================================================================
