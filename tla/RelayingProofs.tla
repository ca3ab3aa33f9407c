-------------------------- MODULE RelayingProofs ---------------------------
(***************************************************************************)
(* What is relayed along paths arrives as it was sent, for any number of   *)
(* paths of any lengths.                                                   *)
(***************************************************************************)
EXTENDS Relaying, WellFoundedInduction, TLAPS

-----------------------------------------------------------------------------
(* Relaying: what arrives is what was sent. *)

RlSpec == RlInit /\ [][RlNext]_rlvars

\* The factors of hop k and the later ones of a path, and a layer of each of these hops
\* that was added with the factors from its own (d = 0) or from the next hop (d = 1) on.
RlFactors(p, k) == {<<p, i>> : i \in k .. RlLen(p)}
RlStack(d, p, k) == {<<p, j, RlFactors(p, j + d)>> : j \in k .. RlLen(p)}

RlMessage(kind, p, q, at, id, layers, nonce) ==
    [kind |-> kind, from |-> p, to |-> q, at |-> at, id |-> id, layers |-> layers, nonce |-> nonce]

\* A message of p to q on its way up, at hop k of p; one on its way down, that hop k + 1
\* of q has passed on; and an answer on its way back, that hop k + 1 of p has passed on.
RlUp(kind, p, q, k) ==
    RlMessage(kind, p, q, <<"relay", RlHops[p][k]>>, RlRx(p, k), RlStack(1, p, k), RlFactors(p, k))
RlDown(p, q, k) ==
    RlMessage("session", p, q, RlDownstream(q, k + 1), <<q, k>>, RlStack(0, q, k + 1), RlFactors(q, k + 1))
RlBack(p, k) ==
    RlMessage("answer", p, p, RlDownstream(p, k + 1), <<p, k>>, RlStack(1, p, k + 1), RlFactors(p, k + 1))

RlInTransit(m) ==
    \/ \E kind \in {"session", "control"}, p, q \in RlPath : \E k \in 1 .. RlLen(p) :
          m = RlUp(kind, p, q, k) /\ (kind = "control" => q = p) /\ RlAligned(p, q)
    \/ \E p, q \in RlPath : \E k \in 0 .. RlLen(q) - 1 : m = RlDown(p, q, k) /\ p # q
    \/ \E p \in RlPath : \E k \in 0 .. RlLen(p) - 1 : m = RlBack(p, k)

\* No hop of a built path is its own upstream (decrypt_build_frame refuses it), so that
\* an id leads to one hop of a relay.
RlPassed(p, k) == \A j \in 1 .. k - 1 : RlHops[p][j] # RlHops[p][j + 1]

RlHopSound(r, x) ==
    /\ x.path \in RlPath /\ x.k \in 1 .. RlLen(x.path) /\ RlHops[x.path][x.k] = r
    /\ x.id = RlRx(x.path, x.k) \/ x.id = RlTx(x.path, x.k)
    /\ RlPassed(x.path, RlLen(x.path))

RlFrameSound(p, j, f) ==
    f = [layers |-> f.layers, life |-> f.life, rx |-> RlRx(p, j), tx |-> RlTx(p, j),
         upstream |-> RlHops[p][IF j = RlLen(p) THEN j ELSE j + 1]]

RlBuildSound(p, b) ==
    b # RlNone =>
        /\ b = [kind |-> b.kind, k |-> b.k, frames |-> b.frames, held |-> b.held]
        /\ b.kind = "request" =>
              /\ b.k \in 1 .. RlLen(p) /\ RlPassed(p, b.k)
              /\ \A j \in 1 .. RlLen(p) : RlFrameSound(p, j, b.frames[j])
        /\ b.kind = "ok" => b.k \in Int /\ b.k < RlLen(p) /\ RlPassed(p, RlLen(p))

\* ArrivesIntact, of any message.
RlIntact(m) ==
    /\ m.layers = {} /\ m.nonce = {}
    /\ m.at = IF m.msg = "answer" \/ (m.msg = "session" /\ m.to # m.from) THEN RlClientOf(m.to)
              ELSE <<"relay", RlHops[m.from][RlLen(m.from)]>>

RlMsgSound(m) == m = RlNone \/ RlInTransit(m) \/ (m.kind = "arrived" /\ RlIntact(m))

RlInv ==
    /\ rlTable = [r \in RlRelay |-> rlTable[r]]
    /\ \A r \in RlRelay : \A x \in rlTable[r] : RlHopSound(r, x)
    /\ rlBuild = [p \in RlPath |-> rlBuild[p]]
    /\ \A p \in RlPath : RlBuildSound(p, rlBuild[p])
    /\ RlMsgSound(rlMsg)

-----------------------------------------------------------------------------

LEMMA RlToggleTwice == ASSUME NEW S, NEW x PROVE RlToggle(RlToggle(S, x), x) = S
BY DEF RlToggle

LEMMA RlLenNat == ASSUME NEW p \in RlPath PROVE RlLen(p) \in Nat /\ RlLen(p) >= 1
BY RelayingAssumption DEF RlLen

\* Beyond the last hop there is nothing.
LEMMA RlEmpty ==
    ASSUME NEW p \in RlPath, NEW d
    PROVE  RlFactors(p, RlLen(p) + 1) = {} /\ RlStack(d, p, RlLen(p) + 1) = {}
BY RlLenNat DEF RlFactors, RlStack

\* Hop k's factor and layer are what the later hops' lack.
LEMMA RlFactorToggle ==
    ASSUME NEW p \in RlPath, NEW k \in 1 .. RlLen(p)
    PROVE  /\ RlToggle(RlFactors(p, k + 1), <<p, k>>) = RlFactors(p, k)
           /\ RlToggle(RlFactors(p, k), <<p, k>>) = RlFactors(p, k + 1)
<1> DEFINE x == <<p, k>>
           A == RlFactors(p, k)
           B == RlFactors(p, k + 1)
<1>1. RlLen(p) \in Nat /\ k \in Nat /\ k <= RlLen(p) BY RlLenNat
<1>2. x \notin B BY <1>1 DEF RlFactors
<1>3. A = B \cup {x}
    <2>1. k .. RlLen(p) = (k + 1 .. RlLen(p)) \cup {k} BY <1>1
    <2> QED BY <2>1 DEF RlFactors
<1> HIDE DEF x, A, B
<1>4. RlToggle(B, x) = A BY <1>2, <1>3 DEF RlToggle
<1>5. RlToggle(A, x) = B BY <1>4, RlToggleTwice
<1> QED BY <1>4, <1>5 DEF x, A, B

LEMMA RlStackToggle ==
    ASSUME NEW p \in RlPath, NEW k \in 1 .. RlLen(p), NEW d
    PROVE  /\ RlToggle(RlStack(d, p, k + 1), <<p, k, RlFactors(p, k + d)>>) = RlStack(d, p, k)
           /\ RlToggle(RlStack(d, p, k), <<p, k, RlFactors(p, k + d)>>) = RlStack(d, p, k + 1)
<1> DEFINE x == <<p, k, RlFactors(p, k + d)>>
           A == RlStack(d, p, k)
           B == RlStack(d, p, k + 1)
<1>1. RlLen(p) \in Nat /\ k \in Nat /\ k <= RlLen(p) BY RlLenNat
<1>2. x \notin B BY <1>1 DEF RlStack
<1>3. A = B \cup {x}
    <2>1. k .. RlLen(p) = (k + 1 .. RlLen(p)) \cup {k} BY <1>1
    <2> QED BY <2>1 DEF RlStack
<1> HIDE DEF x, A, B
<1>4. RlToggle(B, x) = A BY <1>2, <1>3 DEF RlToggle
<1>5. RlToggle(A, x) = B BY <1>4, RlToggleTwice
<1> QED BY <1>4, <1>5 DEF x, A, B

\* What encrypt_path_message computes, for a path of any length.
LEMMA RlEncrypted ==
    ASSUME NEW p \in RlPath
    PROVE  encrypt_path_message(p) = [layers |-> RlStack(1, p, 1), nonce |-> RlFactors(p, 1)]
<1> DEFINE n == RlLen(p)
           body(f, k) == IF k > n THEN [layers |-> {}, nonce |-> {}]
                         ELSE [layers |-> RlToggle(f[k + 1].layers, <<p, k, f[k + 1].nonce>>),
                               nonce |-> RlToggle(f[k + 1].nonce, <<p, k>>)]
           m == CHOOSE f : f = [k \in 1 .. n + 1 |-> body(f, k)]
           value(k) == [layers |-> RlStack(1, p, k), nonce |-> RlFactors(p, k)]
           g == [k \in 1 .. n + 1 |-> value(k)]
<1>1. encrypt_path_message(p) = m[1] BY DEF encrypt_path_message
<1>2. n \in Nat /\ n >= 1 BY RlLenNat
<1>3. ASSUME NEW k \in 1 .. n + 1, NEW f, k <= n => f[k + 1] = value(k + 1) PROVE body(f, k) = value(k)
    <2>1. CASE k > n
        <3>1. k = n + 1 BY <1>2, <2>1
        <3> QED BY <2>1, <3>1, RlEmpty
    <2>2. CASE k <= n
        <3>1. k \in 1 .. RlLen(p) BY <1>2, <2>2
        <3>2. f[k + 1].layers = RlStack(1, p, k + 1) /\ f[k + 1].nonce = RlFactors(p, k + 1)
            BY <1>3, <2>2
        <3>3. /\ RlToggle(RlStack(1, p, k + 1), <<p, k, RlFactors(p, k + 1)>>) = RlStack(1, p, k)
              /\ RlToggle(RlFactors(p, k + 1), <<p, k>>) = RlFactors(p, k)
            BY <3>1, RlStackToggle, RlFactorToggle, Zenon
        <3>4. ~(k > n) BY <1>2, <2>2
        <3> QED BY <3>2, <3>3, <3>4
    <2> QED BY <1>2, <2>1, <2>2
<1>4. g = [k \in 1 .. n + 1 |-> body(g, k)]
    <2>1. ASSUME NEW k \in 1 .. n + 1 PROVE body(g, k) = value(k)
        <3>1. k <= n => g[k + 1] = value(k + 1) BY <1>2
        <3> HIDE DEF body, value, g
        <3> QED BY <1>3, <3>1
    <2> HIDE DEF body, value
    <2> QED BY <2>1
<1>5. m = [k \in 1 .. n + 1 |-> body(m, k)]
    <2> HIDE DEF g, body
    <2> QED BY <1>4, Zenon
<1> HIDE DEF m
<1>6. \A k \in 1 .. n + 1 : m[k] = value(k)
    <2> DEFINE bad == {i \in Nat : i <= n /\ m[n + 1 - i] # value(n + 1 - i)}
    <2>1. SUFFICES ASSUME bad # {} PROVE FALSE
        <3>1. ASSUME NEW k \in 1 .. n + 1, m[k] # value(k) PROVE n + 1 - k \in bad
            <4>1. n + 1 - (n + 1 - k) = k /\ n + 1 - k \in Nat /\ n + 1 - k <= n BY <1>2
            <4> HIDE DEF value
            <4> QED BY <3>1, <4>1
        <3> HIDE DEF bad, value
        <3> QED BY <3>1
    <2>2. PICK i \in bad : \A j \in bad : ~(<<j, i>> \in OpToRel(<, Nat))
        <3>1. bad \subseteq Nat OBVIOUS
        <3> HIDE DEF bad
        <3> QED BY <2>1, <3>1, WFMin, NatLessThanWellFounded, Zenon
    <2> DEFINE k == n + 1 - i
    <2>3. i \in Nat /\ i <= n /\ m[k] # value(k) OBVIOUS
    <2>4. k \in 1 .. n + 1 BY <1>2, <2>3
    <2>5. k <= n => m[k + 1] = value(k + 1)
        <3> SUFFICES ASSUME k <= n, m[k + 1] # value(k + 1) PROVE FALSE OBVIOUS
        <3>1. i - 1 \in Nat /\ i - 1 <= n /\ n + 1 - (i - 1) = k + 1 BY <1>2, <2>3
        <3> HIDE DEF k
        <3>2. i - 1 \in bad
            <4> HIDE DEF value
            <4> QED BY <3>1
        <3> HIDE DEF bad
        <3>3. <<i - 1, i>> \in OpToRel(<, Nat) BY <2>3, <3>1 DEF OpToRel
        <3> QED BY <2>2, <3>2, <3>3, Zenon
    <2> HIDE DEF k, bad, value, body
    <2>6. m[k] = body(m, k) BY <1>5, <2>4, Zenon
    <2> QED BY <1>3, <2>3, <2>4, <2>5, <2>6
<1>7. 1 \in 1 .. n + 1 BY <1>2
<1> QED BY <1>1, <1>6, <1>7

\* What the client's decryption leaves of a message all the hops of its path have
\* passed down, for a path of any length.
LEMMA RlDecrypted ==
    ASSUME NEW p \in RlPath, NEW m, NEW d \in {0, 1}, (m.kind = "answer") = (d = 1),
           m.layers = RlStack(d, p, 1), m.nonce = RlFactors(p, 1)
    PROVE  RlClientDecrypts(m, p) = [m EXCEPT !.layers = {}, !.nonce = {}]
<1> DEFINE n == RlLen(p)
           body(f, k) == IF k = 0 THEN [layers |-> m.layers, nonce |-> m.nonce]
                         ELSE LET nonce == RlToggle(f[k - 1].nonce, <<p, k>>)
                              IN  [layers |-> RlToggle(f[k - 1].layers,
                                          <<p, k, IF m.kind = "answer" THEN nonce ELSE f[k - 1].nonce>>),
                                   nonce |-> nonce]
           t == CHOOSE f : f = [k \in 0 .. n |-> body(f, k)]
           value(k) == [layers |-> RlStack(d, p, k + 1), nonce |-> RlFactors(p, k + 1)]
           g == [k \in 0 .. n |-> value(k)]
<1>1. RlClientDecrypts(m, p) = [m EXCEPT !.layers = t[n].layers, !.nonce = t[n].nonce]
    BY DEF RlClientDecrypts
<1>2. n \in Nat /\ n >= 1 BY RlLenNat
<1>3. ASSUME NEW k \in 0 .. n, NEW f, k > 0 => f[k - 1] = value(k - 1) PROVE body(f, k) = value(k)
    <2>1. CASE k = 0
        <3>1. k + 1 = 1 BY <2>1
        <3> QED BY <2>1, <3>1
    <2>2. CASE k > 0
        <3>1. k \in 1 .. RlLen(p) /\ k - 1 + 1 = k /\ k # 0 BY <1>2, <2>2
        <3>2. f[k - 1].layers = RlStack(d, p, k) /\ f[k - 1].nonce = RlFactors(p, k)
            BY <1>3, <2>2, <3>1
        <3>3. /\ RlToggle(RlStack(d, p, k), <<p, k, RlFactors(p, k + d)>>) = RlStack(d, p, k + 1)
              /\ RlToggle(RlFactors(p, k), <<p, k>>) = RlFactors(p, k + 1)
            BY <3>1, RlStackToggle, RlFactorToggle
        <3>4. (IF m.kind = "answer" THEN RlFactors(p, k + 1) ELSE RlFactors(p, k)) = RlFactors(p, k + d)
            <4>1. CASE d = 1 BY <4>1
            <4>2. CASE d = 0
                <5>1. k + d = k BY <3>1, <4>2
                <5>2. m.kind # "answer" BY <4>2
                <5> QED BY <5>1, <5>2
            <4> QED BY <4>1, <4>2
        <3> QED BY <3>1, <3>2, <3>3, <3>4
    <2> QED BY <1>2, <2>1, <2>2
<1>4. g = [k \in 0 .. n |-> body(g, k)]
    <2>1. ASSUME NEW k \in 0 .. n PROVE body(g, k) = value(k)
        <3>1. k > 0 => g[k - 1] = value(k - 1) BY <1>2
        <3> HIDE DEF body, value, g
        <3> QED BY <1>3, <3>1
    <2> HIDE DEF body, value
    <2> QED BY <2>1
<1>5. t = [k \in 0 .. n |-> body(t, k)]
    <2> HIDE DEF g, body
    <2> QED BY <1>4, Zenon
<1> HIDE DEF t
<1>6. \A k \in 0 .. n : t[k] = value(k)
    <2> DEFINE bad == {k \in Nat : k <= n /\ t[k] # value(k)}
    <2>1. SUFFICES ASSUME bad # {} PROVE FALSE
        <3>1. ASSUME NEW k \in 0 .. n, t[k] # value(k) PROVE k \in bad
            <4>1. k \in Nat /\ k <= n BY <1>2
            <4> HIDE DEF value
            <4> QED BY <3>1, <4>1
        <3> HIDE DEF bad, value
        <3> QED BY <3>1
    <2>2. PICK k \in bad : \A j \in bad : ~(<<j, k>> \in OpToRel(<, Nat))
        <3>1. bad \subseteq Nat OBVIOUS
        <3> HIDE DEF bad
        <3> QED BY <2>1, <3>1, WFMin, NatLessThanWellFounded, Zenon
    <2>3. k \in Nat /\ k <= n /\ t[k] # value(k) OBVIOUS
    <2>4. k \in 0 .. n BY <1>2, <2>3
    <2>5. k > 0 => t[k - 1] = value(k - 1)
        <3> SUFFICES ASSUME k > 0, t[k - 1] # value(k - 1) PROVE FALSE OBVIOUS
        <3>1. k - 1 \in Nat /\ k - 1 <= n BY <1>2, <2>3
        <3>2. k - 1 \in bad
            <4> HIDE DEF value
            <4> QED BY <3>1
        <3> HIDE DEF bad
        <3>3. <<k - 1, k>> \in OpToRel(<, Nat) BY <2>3, <3>1 DEF OpToRel
        <3> QED BY <2>2, <3>2, <3>3, Zenon
    <2> HIDE DEF bad, value, body
    <2>6. t[k] = body(t, k) BY <1>5, <2>4, Zenon
    <2> QED BY <1>3, <2>3, <2>4, <2>5, <2>6
<1>7. t[n].layers = {} /\ t[n].nonce = {}
    <2>1. n \in 0 .. n BY <1>2
    <2>2. t[n] = value(n) BY <1>6, <2>1
    <2> QED BY <2>2, RlEmpty
<1> QED BY <1>1, <1>7

-----------------------------------------------------------------------------

\* The hop an id leads to, at the relay that gets it on the way up and on the way down.
LEMMA RlHopUp ==
    ASSUME NEW r, NEW x, RlHopSound(r, x), NEW p \in RlPath, NEW k \in 1 .. RlLen(p),
           RlHops[p][k] = r, x.id = RlRx(p, k)
    PROVE  x.path = p /\ x.k = k
<1>1. RlLen(p) \in Nat /\ x.path \in RlPath /\ RlLen(x.path) \in Nat BY RlLenNat DEF RlHopSound
<1>2. x.k \in 1 .. RlLen(x.path) BY DEF RlHopSound
<1>3. CASE x.id = RlRx(x.path, x.k)
    <2>1. x.path = p /\ x.k - 1 = k - 1 BY <1>3 DEF RlRx
    <2> QED BY <1>1, <1>2, <2>1
<1>4. CASE x.id # RlRx(x.path, x.k)
    <2>1. x.k # RlLen(x.path) /\ x.id = <<x.path, x.k>> BY <1>4 DEF RlHopSound, RlTx
    <2>2. x.path = p /\ x.k = k - 1 BY <2>1 DEF RlRx
    <2>3. x.k \in 1 .. RlLen(p) - 1 /\ x.k + 1 = k BY <1>1, <1>2, <2>2
    <2>4. RlHops[p][x.k] # RlHops[p][k] BY <2>2, <2>3 DEF RlHopSound, RlPassed
    <2>5. RlHops[p][x.k] = r BY <2>2 DEF RlHopSound
    <2> QED BY <2>4, <2>5
<1> QED BY <1>3, <1>4

LEMMA RlHopDown ==
    ASSUME NEW r, NEW x, RlHopSound(r, x), NEW q \in RlPath, NEW k \in 1 .. RlLen(q) - 1,
           RlHops[q][k] = r, x.id = <<q, k>>
    PROVE  x.path = q /\ x.k = k
<1>1. RlLen(q) \in Nat /\ x.path \in RlPath /\ RlLen(x.path) \in Nat BY RlLenNat DEF RlHopSound
<1>2. x.k \in 1 .. RlLen(x.path) BY DEF RlHopSound
<1>3. CASE x.id = RlRx(x.path, x.k)
    <2>1. x.path = q /\ x.k - 1 = k BY <1>3 DEF RlRx
    <2>2. x.k = k + 1 BY <1>1, <1>2, <2>1
    <2>3. RlHops[q][k] # RlHops[q][x.k] BY <2>1, <2>2 DEF RlHopSound, RlPassed
    <2> QED BY <2>1, <2>3 DEF RlHopSound
<1>4. CASE x.id # RlRx(x.path, x.k)
    <2>1. x.id = <<x.path, x.k>> BY <1>4 DEF RlHopSound, RlTx
    <2> QED BY <2>1
<1> QED BY <1>3, <1>4

\* What a relay's layer makes of a message.
LEMMA RlLayerOf ==
    ASSUME NEW kind, NEW p, NEW q, NEW at, NEW id, NEW S, NEW N, NEW x
    PROVE  RlLayer(RlMessage(kind, p, q, at, id, S, N), x) =
              RlMessage(kind, p, q, at, id,
                        RlToggle(S, <<x.path, x.k, RlToggle(N, <<x.path, x.k>>)>>),
                        RlToggle(N, <<x.path, x.k>>))
<1> DEFINE m == RlMessage(kind, p, q, at, id, S, N)
           n == RlToggle(N, <<x.path, x.k>>)
           l == RlToggle(S, <<x.path, x.k, n>>)
<1>1. m.nonce = N /\ m.layers = S BY DEF RlMessage
<1>2. RlLayer(m, x) = [m EXCEPT !.nonce = n, !.layers = l]
    <2> HIDE DEF m
    <2> QED BY <1>1 DEF RlLayer
<1> HIDE DEF n, l
<1>3. [m EXCEPT !.nonce = n] = RlMessage(kind, p, q, at, id, S, n) BY DEF RlMessage
<1>4. [RlMessage(kind, p, q, at, id, S, n) EXCEPT !.layers = l] = RlMessage(kind, p, q, at, id, l, n)
    BY DEF RlMessage
<1>5. [m EXCEPT !.nonce = n, !.layers = l] = [[m EXCEPT !.nonce = n] EXCEPT !.layers = l] BY SMTT(30)
<1> HIDE DEF m
<1> QED BY <1>2, <1>3, <1>4, <1>5, Zenon DEF n, l, m

\* A message on its way up, at hop k: passed on to the next hop, or at the pivot.
LEMMA RlUpStep ==
    ASSUME NEW r, NEW x, RlHopSound(r, x), NEW kind \in {"session", "control"}, NEW p \in RlPath, NEW q \in RlPath,
           NEW k \in 1 .. RlLen(p), RlHops[p][k] = r, x.id = RlRx(p, k)
    PROVE  /\ x.path = p /\ x.k = k
           /\ RlLayer(RlUp(kind, p, q, k), x) =
                 RlMessage(kind, p, q, <<"relay", r>>, RlRx(p, k), RlStack(1, p, k + 1), RlFactors(p, k + 1))
<1>1. x.path = p /\ x.k = k BY RlHopUp
<1>2. RlToggle(RlFactors(p, k), <<p, k>>) = RlFactors(p, k + 1) BY RlFactorToggle
<1>3. RlToggle(RlStack(1, p, k), <<p, k, RlFactors(p, k + 1)>>) = RlStack(1, p, k + 1) BY RlStackToggle
<1> DEFINE S == RlStack(1, p, k)
           N == RlFactors(p, k)
           at == <<"relay", r>>
           id == RlRx(p, k)
<1>4. RlUp(kind, p, q, k) = RlMessage(kind, p, q, at, id, S, N) BY SMTT(30) DEF RlUp
<1> HIDE DEF S, N, at, id
<1>5. RlLayer(RlMessage(kind, p, q, at, id, S, N), x) =
         RlMessage(kind, p, q, at, id,
                   RlToggle(S, <<x.path, x.k, RlToggle(N, <<x.path, x.k>>)>>), RlToggle(N, <<x.path, x.k>>))
    BY RlLayerOf
<1> QED BY <1>1, <1>2, <1>3, <1>4, <1>5 DEF S, N, at, id

\* A message on its way down gets the layer of hop k.
LEMMA RlDownStep ==
    ASSUME NEW x, NEW p, NEW q \in RlPath, NEW at, NEW id, NEW k \in 1 .. RlLen(q), x.path = q, x.k = k
    PROVE  RlLayer(RlMessage("session", p, q, at, id, RlStack(0, q, k + 1), RlFactors(q, k + 1)), x) =
              RlMessage("session", p, q, at, id, RlStack(0, q, k), RlFactors(q, k))
<1>1. RlToggle(RlFactors(q, k + 1), <<q, k>>) = RlFactors(q, k) BY RlFactorToggle
<1>2. RlToggle(RlStack(0, q, k + 1), <<q, k, RlFactors(q, k + 0)>>) = RlStack(0, q, k) BY RlStackToggle
<1>3. k + 0 = k OBVIOUS
<1> DEFINE S == RlStack(0, q, k + 1)
           N == RlFactors(q, k + 1)
<1>4. RlToggle(S, <<q, k, RlFactors(q, k)>>) = RlStack(0, q, k) /\ RlToggle(N, <<q, k>>) = RlFactors(q, k)
    BY <1>1, <1>2, <1>3
<1> HIDE DEF S, N
<1>5. RlLayer(RlMessage("session", p, q, at, id, S, N), x) =
         RlMessage("session", p, q, at, id,
                   RlToggle(S, <<x.path, x.k, RlToggle(N, <<x.path, x.k>>)>>), RlToggle(N, <<x.path, x.k>>))
    BY RlLayerOf
<1> QED BY <1>4, <1>5 DEF S, N

LEMMA RlFields ==
    ASSUME NEW kind, NEW p, NEW q, NEW at, NEW id, NEW S, NEW N
    PROVE  LET m == RlMessage(kind, p, q, at, id, S, N)
           IN  /\ m.kind = kind /\ m.from = p /\ m.to = q /\ m.at = at /\ m.id = id
               /\ m.layers = S /\ m.nonce = N
BY DEF RlMessage

\* The pivot takes the message in, or passes it down the aligned path.
LEMMA RlPivotSound ==
    ASSUME RlInv, NEW r \in RlRelay, NEW kind \in {"session", "control"}, NEW p \in RlPath, NEW q \in RlPath,
           kind = "control" => q = p, RlAligned(p, q), RlHops[p][RlLen(p)] = r, NEW x, x.path = p, NEW id,
           NEW new \in RlPivot(RlMessage(kind, p, q, <<"relay", r>>, id, {}, {}), x, r)
    PROVE  RlMsgSound(new)
<1> DEFINE at == <<"relay", r>>
           m == RlMessage(kind, p, q, at, id, {}, {})
           pid == RlRx(q, RlLen(q))
           back == {y \in rlTable[r] : y.id = pid}
<1>0. /\ m.kind = kind /\ m.from = p /\ m.to = q /\ m.at = at /\ m.layers = {} /\ m.nonce = {}
    BY RlFields
<1>1. new \in IF q = p THEN {RlArrived(m)}
              ELSE IF back = {} THEN {RlNone}
              ELSE {[RlLayer(m, y) EXCEPT !.id = pid, !.at = RlDownstream(y.path, y.k)] : y \in back}
    <2>1. new \in RlPivot(m, x, r) OBVIOUS
    <2> HIDE DEF m
    <2>2. (m.to = x.path) = (q = p) BY <1>0
    <2>3. RlRx(m.to, RlLen(m.to)) = pid BY <1>0
    <2>4. {y \in rlTable[r] : y.id = RlRx(m.to, RlLen(m.to))} = back BY <2>3
    <2> HIDE DEF pid, back
    <2>5. CASE q = p BY <2>1, <2>2, <2>5, Zenon DEF RlPivot
    <2>6. CASE q # p /\ back = {} BY <2>1, <2>2, <2>4, <2>6, Zenon DEF RlPivot
    <2>7. CASE q # p /\ back # {}
        <3>1. RlPivot(m, x, r) = {[RlLayer(m, y) EXCEPT !.id = RlRx(m.to, RlLen(m.to)),
                                                        !.at = RlDownstream(y.path, y.k)] :
                                     y \in {z \in rlTable[r] : z.id = RlRx(m.to, RlLen(m.to))}}
            BY <2>2, <2>4, <2>7, ZenonT(30) DEF RlPivot
        <3> QED BY <2>1, <2>3, <2>4, <2>7, <3>1, Zenon
    <2> QED BY <2>5, <2>6, <2>7, ZenonT(30)
<1> HIDE DEF m, at, pid, back
<1>2. CASE q = p
    <2>1. new = RlArrived(m) BY SMTT(30), <1>1, <1>2
    <2>2. /\ new.kind = "arrived" /\ new.at = at /\ new.msg = kind /\ new.from = p /\ new.to = p
          /\ new.layers = {} /\ new.nonce = {}
        BY SMTT(30), <1>0, <1>2, <2>1 DEF RlArrived
    <2> QED BY <2>2 DEF at, RlMsgSound, RlIntact
<1>3. CASE q # p /\ back # {}
    <2>1. PICK y \in back : new = [RlLayer(m, y) EXCEPT !.id = pid, !.at = RlDownstream(y.path, y.k)]
        BY <1>1, <1>3, Zenon
    <2>2. RlHopSound(r, y) /\ y.id = pid BY DEF back, RlInv
    <2>3. RlLen(q) \in 1 .. RlLen(q) /\ RlLen(q) \in Nat BY SMTT(30), RlLenNat
    <2>4. RlHops[q][RlLen(q)] = r BY SMTT(30) DEF RlAligned
    <2>5. y.path = q /\ y.k = RlLen(q) BY SMTT(30), <2>2, <2>3, <2>4, RlHopUp DEF pid
    <2>6. kind = "session" BY SMTT(30), <1>3
    <2>7. m = RlMessage("session", p, q, at, id, RlStack(0, q, RlLen(q) + 1), RlFactors(q, RlLen(q) + 1))
        BY SMTT(30), <2>6, RlEmpty DEF m
    <2>8. RlLayer(m, y) = RlMessage("session", p, q, at, id, RlStack(0, q, RlLen(q)), RlFactors(q, RlLen(q)))
        <3> DEFINE k == RlLen(q)
        <3>1. k \in 1 .. RlLen(q) /\ y.k = k BY <2>3, <2>5
        <3> HIDE DEF k
        <3> QED BY SMTT(30), <2>5, <2>7, <3>1, RlDownStep DEF k
    <2> DEFINE S == RlStack(0, q, RlLen(q))
               N == RlFactors(q, RlLen(q))
               to == RlDownstream(q, RlLen(q))
    <2>9. new = RlMessage("session", p, q, to, pid, S, N)
        <3>1. new = [RlMessage("session", p, q, at, id, S, N) EXCEPT !.id = pid, !.at = to]
            BY <2>1, <2>5, <2>8
        <3> HIDE DEF S, N, to
        <3>2. [RlMessage("session", p, q, at, id, S, N) EXCEPT !.id = pid, !.at = to] =
                 RlMessage("session", p, q, to, pid, S, N)
            <4>1. [RlMessage("session", p, q, at, id, S, N) EXCEPT !.id = pid] =
                     RlMessage("session", p, q, at, pid, S, N)
                BY DEF RlMessage
            <4>2. [RlMessage("session", p, q, at, pid, S, N) EXCEPT !.at = to] =
                     RlMessage("session", p, q, to, pid, S, N)
                BY DEF RlMessage
            <4> QED BY <4>1, <4>2, Zenon
        <3> QED BY <3>1, <3>2
    <2>10. RlLen(q) - 1 \in 0 .. RlLen(q) - 1 /\ RlLen(q) - 1 + 1 = RlLen(q) BY SMTT(30), <2>3
    <2>11. pid = <<q, RlLen(q) - 1>> BY SMTT(30) DEF pid, RlRx
    <2>12. new = RlDown(p, q, RlLen(q) - 1) BY SMTT(30), <2>9, <2>10, <2>11 DEF RlDown
    <2> QED BY <1>3, <2>10, <2>12 DEF RlMsgSound, RlInTransit
<1> QED BY <1>1, <1>2, <1>3, ZenonT(30) DEF RlMsgSound

LEMMA RlRelayUp ==
    ASSUME RlInv, NEW r \in RlRelay, RlRelayMessage(r),
           NEW kind \in {"session", "control"}, NEW p \in RlPath, NEW q \in RlPath, NEW k \in 1 .. RlLen(p),
           rlMsg = RlUp(kind, p, q, k), kind = "control" => q = p, RlAligned(p, q)
    PROVE  RlMsgSound(rlMsg')
<1> DEFINE hops == {x \in rlTable[r] : x.id = rlMsg.id}
           S == RlStack(1, p, k + 1)
           N == RlFactors(p, k + 1)
           at == <<"relay", r>>
           id == RlRx(p, k)
           m == RlMessage(kind, p, q, at, id, S, N)
<1> HIDE DEF hops, S, N, at, id, m
<1>1. rlMsg.at = <<"relay", RlHops[p][k]>> /\ rlMsg.id = RlRx(p, k) BY RlFields DEF RlUp
<1>2. RlHops[p][k] = r
    <2>1. rlMsg.at = <<"relay", r>> BY Zenon DEF RlRelayMessage
    <2> QED BY <1>1, <2>1
<1>3. CASE hops = {}
    <2>1. rlMsg' = RlNone BY <1>3 DEF hops, RlRelayMessage
    <2> QED BY <2>1 DEF RlMsgSound
<1>4. CASE hops # {}
    <2>1. PICK x \in hops :
              IF x.k < RlLen(x.path)
              THEN rlMsg' = [RlLayer(rlMsg, x) EXCEPT !.at = next_id(x.path, x.k, RlLayer(rlMsg, x).id).at,
                                                      !.id = next_id(x.path, x.k, RlLayer(rlMsg, x).id).id]
              ELSE rlMsg' \in RlPivot(RlLayer(rlMsg, x), x, r)
        BY <1>4, Zenon DEF hops, RlRelayMessage
    <2>2. RlHopSound(r, x) /\ x.id = RlRx(p, k) BY SMTT(30), <1>1 DEF hops, RlInv
    <2>3. x.path = p /\ x.k = k /\ RlLayer(rlMsg, x) = m
        BY SMTT(30), <1>2, <2>2, RlUpStep DEF m, S, N, at, id
    <2>4. RlLen(p) \in Nat BY RlLenNat
    <2>5. CASE k < RlLen(p)
        <3> DEFINE a == <<"relay", RlHops[p][k + 1]>>
                   i == RlTx(p, k)
        <3>1. m.id = id BY SMTT(30), RlFields DEF m
        <3>2. next_id(p, k, m.id).at = a /\ next_id(p, k, m.id).id = i BY <3>1 DEF id, next_id
        <3> HIDE DEF a, i
        <3>3. rlMsg' = [m EXCEPT !.at = a, !.id = i] BY <2>1, <2>3, <2>5, <3>2
        <3>4. [m EXCEPT !.at = a] = RlMessage(kind, p, q, a, id, S, N) BY DEF RlMessage, m
        <3>5. [RlMessage(kind, p, q, a, id, S, N) EXCEPT !.id = i] = RlMessage(kind, p, q, a, i, S, N)
            BY DEF RlMessage
        <3>6. rlMsg' = RlMessage(kind, p, q, a, i, S, N) BY <3>3, <3>4, <3>5, ZenonT(30)
        <3>7. k + 1 \in 1 .. RlLen(p) /\ k + 1 - 1 = k /\ k # RlLen(p) BY <2>4, <2>5
        <3>8. i = RlRx(p, k + 1) BY SMTT(30), <3>7 DEF i, RlTx, RlRx
        <3>9. rlMsg' = RlUp(kind, p, q, k + 1) BY SMTT(30), <3>6, <3>8 DEF RlUp, a, S, N
        <3> QED BY SMTT(30), <3>7, <3>9 DEF RlMsgSound, RlInTransit
    <2>6. CASE k = RlLen(p)
        <3>1. S = {} /\ N = {} BY SMTT(30), <2>6, RlEmpty DEF S, N
        <3>2. ~(x.k < RlLen(x.path)) BY <2>3, <2>4, <2>6
        <3>3. rlMsg' \in RlPivot(RlMessage(kind, p, q, at, id, {}, {}), x, r)
            BY <2>1, <2>3, <3>1, <3>2, Zenon DEF m
        <3>4. RlHops[p][RlLen(p)] = r BY <1>2, <2>6
        <3> QED BY SMTT(30), <2>3, <3>3, <3>4, RlPivotSound DEF at
    <2> QED BY <2>4, <2>5, <2>6
<1> QED BY SMTT(30), <1>3, <1>4

LEMMA RlRelayDown ==
    ASSUME RlInv, NEW r \in RlRelay, RlRelayMessage(r),
           NEW p \in RlPath, NEW q \in RlPath, NEW k \in 0 .. RlLen(q) - 1,
           rlMsg = RlDown(p, q, k), p # q
    PROVE  RlMsgSound(rlMsg')
<1> DEFINE hops == {x \in rlTable[r] : x.id = rlMsg.id}
           at == RlDownstream(q, k + 1)
           id == <<q, k>>
           S == RlStack(0, q, k)
           N == RlFactors(q, k)
           m == RlMessage("session", p, q, at, id, S, N)
<1> HIDE DEF hops, at, id, S, N, m
<1>0. rlMsg.at = at /\ rlMsg.id = id BY RlFields DEF at, id, RlDown
<1>1. RlLen(q) \in Nat BY RlLenNat
<1>2. k \in 1 .. RlLen(q) - 1 /\ RlHops[q][k] = r /\ k \in 1 .. RlLen(q)
    <2>1. at = <<"relay", r>> BY <1>0, Zenon DEF RlRelayMessage
    <2>2. k + 1 # 1 BY <2>1 DEF at, RlDownstream, RlClientOf
    <2>3. k + 1 - 1 = k /\ k \in 1 .. RlLen(q) - 1 /\ k \in 1 .. RlLen(q) BY <1>1, <2>2
    <2> QED BY <2>1, <2>2, <2>3 DEF at, RlDownstream
<1>3. CASE hops = {}
    <2>1. rlMsg' = RlNone BY SMTT(30), <1>3 DEF hops, RlRelayMessage
    <2> QED BY <2>1 DEF RlMsgSound
<1>4. CASE hops # {}
    <2>1. PICK x \in hops :
              IF x.k < RlLen(x.path)
              THEN rlMsg' = [RlLayer(rlMsg, x) EXCEPT !.at = next_id(x.path, x.k, RlLayer(rlMsg, x).id).at,
                                                      !.id = next_id(x.path, x.k, RlLayer(rlMsg, x).id).id]
              ELSE rlMsg' \in RlPivot(RlLayer(rlMsg, x), x, r)
        BY <1>4, Zenon DEF hops, RlRelayMessage
    <2>2. RlHopSound(r, x) /\ x.id = <<q, k>> BY SMTT(30), <1>0 DEF hops, id, RlInv
    <2>3. x.path = q /\ x.k = k BY SMTT(30), <1>2, <2>2, RlHopDown
    <2>4. RlLayer(rlMsg, x) = m
        <3>1. rlMsg = RlMessage("session", p, q, at, id, RlStack(0, q, k + 1), RlFactors(q, k + 1))
            BY DEF RlDown, at, id
        <3> QED BY SMTT(30), <1>2, <2>3, <3>1, RlDownStep DEF m, S, N
    <2> DEFINE a == RlDownstream(q, k)
               i == RlRx(q, k)
    <2>5. m.id = id BY RlFields DEF m
    <2>6. id # RlRx(q, k) BY SMTT(30), <1>2 DEF id, RlRx
    <2>7. next_id(q, k, m.id).at = a /\ next_id(q, k, m.id).id = i BY SMTT(30), <2>5, <2>6 DEF next_id
    <2>8. k < RlLen(q) BY <1>1, <1>2
    <2> HIDE DEF a, i
    <2>9. rlMsg' = [m EXCEPT !.at = a, !.id = i] BY <2>1, <2>3, <2>4, <2>7, <2>8
    <2>10. [m EXCEPT !.at = a] = RlMessage("session", p, q, a, id, S, N) BY DEF RlMessage, m
    <2>11. [RlMessage("session", p, q, a, id, S, N) EXCEPT !.id = i] = RlMessage("session", p, q, a, i, S, N)
        BY DEF RlMessage
    <2>12. rlMsg' = RlMessage("session", p, q, a, i, S, N) BY <2>9, <2>10, <2>11, Zenon
    <2>13. k - 1 \in 0 .. RlLen(q) - 1 /\ k - 1 + 1 = k BY SMTT(30), <1>1, <1>2
    <2>14. rlMsg' = RlDown(p, q, k - 1) BY <2>12, <2>13 DEF RlDown, a, i, S, N, RlRx
    <2> QED BY <2>13, <2>14 DEF RlMsgSound, RlInTransit
<1> QED BY <1>3, <1>4

LEMMA RlRelayBack ==
    ASSUME RlInv, NEW r \in RlRelay, RlRelayAnswer(r),
           NEW p \in RlPath, NEW k \in 0 .. RlLen(p) - 1, rlMsg = RlBack(p, k)
    PROVE  RlMsgSound(rlMsg')
<1> DEFINE hops == {x \in rlTable[r] : x.id = rlMsg.id /\ RlTx(x.path, x.k) = rlMsg.id}
           at == RlDownstream(p, k + 1)
           id == <<p, k>>
           S == RlStack(1, p, k + 1)
           N == RlFactors(p, k + 1)
<1> HIDE DEF hops, at, id, S, N
<1>0. rlMsg = RlMessage("answer", p, p, at, id, S, N) BY DEF at, id, S, N, RlBack
<1>1. rlMsg.at = at /\ rlMsg.id = id /\ rlMsg.layers = S /\ rlMsg.nonce = N BY <1>0, RlFields
<1>2. RlLen(p) \in Nat BY RlLenNat
<1>3. k \in 1 .. RlLen(p) - 1 /\ RlHops[p][k] = r /\ k \in 1 .. RlLen(p)
    <2>1. at = <<"relay", r>> BY <1>1, Zenon DEF RlRelayAnswer
    <2>2. k + 1 # 1 BY <2>1 DEF at, RlDownstream, RlClientOf
    <2>3. k + 1 - 1 = k /\ k \in 1 .. RlLen(p) - 1 /\ k \in 1 .. RlLen(p) BY <1>2, <2>2
    <2> QED BY <2>1, <2>2, <2>3 DEF at, RlDownstream
<1>4. CASE hops = {}
    <2>1. rlMsg' = RlNone BY <1>4, ZenonT(30) DEF hops, RlRelayAnswer
    <2> QED BY <2>1 DEF RlMsgSound
<1>5. CASE hops # {}
    <2>1. PICK x \in hops :
              rlMsg' = [rlMsg EXCEPT !.layers = RlToggle(rlMsg.layers, <<x.path, x.k, rlMsg.nonce>>),
                                     !.nonce = RlToggle(rlMsg.nonce, <<x.path, x.k>>),
                                     !.id = RlRx(x.path, x.k), !.at = RlDownstream(x.path, x.k)]
        BY <1>5, Zenon DEF hops, RlRelayAnswer
    <2>2. RlHopSound(r, x) /\ x.id = <<p, k>> BY SMTT(30), <1>1 DEF hops, id, RlInv
    <2>3. x.path = p /\ x.k = k BY <1>3, <2>2, RlHopDown
    <2> DEFINE l == RlStack(1, p, k)
               n == RlFactors(p, k)
               a == RlDownstream(p, k)
               i == RlRx(p, k)
    <2>4. RlToggle(S, <<p, k, N>>) = l /\ RlToggle(N, <<p, k>>) = n
        BY <1>3, RlStackToggle, RlFactorToggle, Zenon DEF S, N
    <2>5. rlMsg' = [rlMsg EXCEPT !.layers = l, !.nonce = n, !.id = i, !.at = a]
        BY <1>1, <2>1, <2>3, <2>4, Zenon
    <2> HIDE DEF l, n, a, i
    <2>6. [rlMsg EXCEPT !.layers = l] = RlMessage("answer", p, p, at, id, l, N) BY <1>0 DEF RlMessage
    <2>7. [RlMessage("answer", p, p, at, id, l, N) EXCEPT !.nonce = n] = RlMessage("answer", p, p, at, id, l, n)
        BY DEF RlMessage
    <2>8. [RlMessage("answer", p, p, at, id, l, n) EXCEPT !.id = i] = RlMessage("answer", p, p, at, i, l, n)
        BY DEF RlMessage
    <2>9. [RlMessage("answer", p, p, at, i, l, n) EXCEPT !.at = a] = RlMessage("answer", p, p, a, i, l, n)
        BY DEF RlMessage
    <2>10. rlMsg' = RlMessage("answer", p, p, a, i, l, n) BY <2>5, <2>6, <2>7, <2>8, <2>9, ZenonT(30)
    <2>11. k - 1 \in 0 .. RlLen(p) - 1 /\ k - 1 + 1 = k BY <1>2, <1>3
    <2>12. rlMsg' = RlBack(p, k - 1) BY <2>10, <2>11 DEF RlBack, a, i, l, n, RlRx
    <2> QED BY <2>11, <2>12 DEF RlMsgSound, RlInTransit
<1> QED BY <1>4, <1>5

\* At the client of q every layer of q's hops is taken off again.
LEMMA RlClientSound ==
    ASSUME NEW q \in RlPath, NEW p, NEW at, NEW id, NEW d \in {0, 1}, NEW kind \in {"session", "answer"},
           (kind = "answer") = (d = 1), at = RlClientOf(q), kind = "session" => p # q
    PROVE  RlMsgSound(RlArrived(RlClientDecrypts(
               RlMessage(kind, p, q, at, id, RlStack(d, q, 1), RlFactors(q, 1)), q)))
<1> DEFINE S == RlStack(d, q, 1)
           N == RlFactors(q, 1)
           m == RlMessage(kind, p, q, at, id, S, N)
           n == RlArrived(RlMessage(kind, p, q, at, id, {}, {}))
<1>1. m.kind = kind /\ m.layers = S /\ m.nonce = N BY RlFields
<1>2. RlClientDecrypts(m, q) = [m EXCEPT !.layers = {}, !.nonce = {}]
    <2>1. (m.kind = "answer") = (d = 1) BY <1>1, Zenon
    <2> HIDE DEF m
    <2> QED BY <1>1, <2>1, RlDecrypted, ZenonT(40)
<1>3. RlArrived(RlClientDecrypts(m, q)) = n
    <2> HIDE DEF S, N
    <2>1. [m EXCEPT !.layers = {}] = RlMessage(kind, p, q, at, id, {}, N) BY DEF RlMessage
    <2>2. [RlMessage(kind, p, q, at, id, {}, N) EXCEPT !.nonce = {}] = RlMessage(kind, p, q, at, id, {}, {})
        BY DEF RlMessage
    <2>3. [m EXCEPT !.layers = {}, !.nonce = {}] = RlMessage(kind, p, q, at, id, {}, {}) BY <2>1, <2>2, Zenon
    <2> QED BY <1>2, <2>3
<1>4. /\ n.kind = "arrived" /\ n.at = at /\ n.msg = kind /\ n.from = p /\ n.to = q
      /\ n.layers = {} /\ n.nonce = {}
    <2> DEFINE u == RlMessage(kind, p, q, at, id, {}, {})
    <2>1. /\ u.kind = kind /\ u.from = p /\ u.to = q /\ u.at = at /\ u.layers = {} /\ u.nonce = {}
        BY DEF RlMessage
    <2> HIDE DEF u
    <2>2. /\ RlArrived(u).kind = "arrived" /\ RlArrived(u).at = u.at /\ RlArrived(u).msg = u.kind
          /\ RlArrived(u).from = u.from /\ RlArrived(u).to = u.to
          /\ RlArrived(u).layers = u.layers /\ RlArrived(u).nonce = u.nonce
        BY DEF RlArrived
    <2> QED BY ZenonT(30), <2>1, <2>2 DEF u
<1> HIDE DEF n
<1>5. RlMsgSound(n) BY <1>4 DEF RlMsgSound, RlIntact
<1> QED BY SMTT(30), <1>3, <1>5

\* Every step leaves the message, if any, sound.
LEMMA RlMsgStep ==
    ASSUME RlInv, RlNext
    PROVE  RlMsgSound(rlMsg')
<1>0. RlMsgSound(rlMsg) BY DEF RlInv
<1>1. CASE UNCHANGED rlMsg BY <1>0, <1>1
<1>2. ASSUME NEW r \in RlRelay, RlRelayMessage(r) PROVE RlMsgSound(rlMsg')
    <2>1. rlMsg.kind \in {"session", "control"} BY <1>2, Zenon DEF RlRelayMessage
    <2>2. RlInTransit(rlMsg) BY SMTT(30), <1>0, <2>1 DEF RlMsgSound, RlNone
    <2>3. \A p, k : RlBack(p, k).kind = "answer" BY RlFields DEF RlBack
    <2> QED BY <1>2, <2>1, <2>2, <2>3, RlRelayUp, RlRelayDown DEF RlInTransit
<1>3. ASSUME NEW r \in RlRelay, RlRelayAnswer(r) PROVE RlMsgSound(rlMsg')
    <2>1. rlMsg.kind = "answer" BY <1>3, Zenon DEF RlRelayAnswer
    <2>2. RlInTransit(rlMsg) BY SMTT(30), <1>0, <2>1 DEF RlMsgSound, RlNone
    <2>3. \A kind, p, q, k : RlUp(kind, p, q, k).kind = kind BY SMTT(30), RlFields DEF RlUp
    <2>4. \A p, q, k : RlDown(p, q, k).kind = "session" BY RlFields DEF RlDown
    <2>5. \A kind \in {"session", "control"} : kind # "answer" OBVIOUS
    <2>6. \E p \in RlPath : \E k \in 0 .. RlLen(p) - 1 : rlMsg = RlBack(p, k)
        BY <2>1, <2>2, <2>3, <2>4, <2>5 DEF RlInTransit
    <2> QED BY <1>3, <2>6, RlRelayBack
<1>4. ASSUME NEW c \in RlPath, RlClientMessage(c) PROVE RlMsgSound(rlMsg')
    <2>1. /\ rlMsg.kind \in {"session", "answer"} /\ rlMsg.at = RlClientOf(c)
          /\ rlMsg' = RlArrived(RlClientDecrypts(rlMsg, c)) \/ rlMsg' = RlNone
        BY <1>4 DEF RlClientMessage
    <2>2. RlInTransit(rlMsg) BY SMTT(30), <1>0, <2>1 DEF RlMsgSound, RlNone
    <2>3. \A kind, p, q, k : RlUp(kind, p, q, k).at # RlClientOf(c) BY RlFields DEF RlUp, RlClientOf
    <2>4. ASSUME NEW q, NEW k \in Nat, RlDownstream(q, k + 1) = RlClientOf(c) PROVE k = 0 /\ q = c
        BY <2>4 DEF RlDownstream, RlClientOf
    <2>5. ASSUME NEW p \in RlPath, NEW q \in RlPath, NEW k \in 0 .. RlLen(q) - 1, rlMsg = RlDown(p, q, k), p # q
          PROVE  RlMsgSound(RlArrived(RlClientDecrypts(rlMsg, c)))
        <3>1. rlMsg.at = RlDownstream(q, k + 1) BY <2>5, RlFields DEF RlDown
        <3>2. k \in Nat BY RlLenNat
        <3>3. k = 0 /\ q = c BY <2>1, <2>4, <3>1, <3>2
        <3> DEFINE at == RlDownstream(q, k + 1)
                   id == <<q, k>>
        <3>4. rlMsg = RlMessage("session", p, q, at, id, RlStack(0, q, 1), RlFactors(q, 1))
            <4>1. k + 1 = 1 BY <3>3
            <4> QED BY <2>5, <4>1 DEF RlDown
        <3>5. at = RlClientOf(q) BY <2>1, <3>1, <3>3, Zenon
        <3> HIDE DEF at, id
        <3> QED BY SMTT(30), <2>5, <3>3, <3>4, <3>5, RlClientSound
    <2>6. ASSUME NEW p \in RlPath, NEW k \in 0 .. RlLen(p) - 1, rlMsg = RlBack(p, k)
          PROVE  RlMsgSound(RlArrived(RlClientDecrypts(rlMsg, c)))
        <3>1. rlMsg.at = RlDownstream(p, k + 1) BY <2>6, RlFields DEF RlBack
        <3>2. k \in Nat BY RlLenNat
        <3>3. k = 0 /\ p = c BY <2>1, <2>4, <3>1, <3>2
        <3> DEFINE at == RlDownstream(p, k + 1)
                   id == <<p, k>>
        <3>4. rlMsg = RlMessage("answer", p, p, at, id, RlStack(1, p, 1), RlFactors(p, 1))
            <4>1. k + 1 = 1 BY <3>3
            <4> QED BY <2>6, <4>1 DEF RlBack
        <3>5. at = RlClientOf(p) BY <2>1, <3>1, <3>3, ZenonT(30)
        <3> HIDE DEF at, id
        <3> QED BY SMTT(30), <3>3, <3>4, <3>5, RlClientSound
    <2>7. RlMsgSound(RlArrived(RlClientDecrypts(rlMsg, c))) BY <2>1, <2>2, <2>3, <2>5, <2>6 DEF RlInTransit
    <2>8. RlMsgSound(RlNone) BY DEF RlMsgSound
    <2> QED BY <2>1, <2>7, <2>8
<1>5. ASSUME NEW p \in RlPath, RlAnswer(p) PROVE RlMsgSound(rlMsg')
    <2> DEFINE n == RlLen(p)
               m == [kind |-> "answer", from |-> p, to |-> p, at |-> RlDownstream(p, n), id |-> RlRx(p, n),
                     layers |-> {<<p, n, {}>>}, nonce |-> {<<p, n>>}]
    <2>1. rlMsg' = RlNone \/ rlMsg' = m BY <1>5 DEF RlAnswer
    <2>2. n \in Nat /\ n >= 1 /\ n - 1 \in 0 .. RlLen(p) - 1 /\ n - 1 + 1 = n BY RlLenNat
    <2>3. n .. n = {n} BY <2>2
    <2>4. RlFactors(p, n) = {<<p, n>>} BY <2>3 DEF RlFactors
    <2>5. RlStack(1, p, n) = {<<p, n, {}>>}
        <3>1. RlFactors(p, n + 1) = {} BY RlEmpty
        <3> QED BY <2>3, <3>1 DEF RlStack
    <2>6. RlRx(p, n) = <<p, n - 1>> BY DEF RlRx
    <2>7. m = RlMessage("answer", p, p, RlDownstream(p, n), <<p, n - 1>>, RlStack(1, p, n), RlFactors(p, n))
        BY <2>4, <2>5, <2>6 DEF RlMessage
    <2>8. m = RlBack(p, n - 1) BY <2>2, <2>7, ZenonT(30) DEF RlBack
    <2> HIDE DEF m, n
    <2> QED BY <2>1, <2>2, <2>8, ZenonT(30) DEF RlMsgSound, RlInTransit
<1>6. ASSUME NEW p \in RlPath, NEW kind \in {"session", "control"}, NEW q \in RlPath, RlSend(p, kind, q)
      PROVE  RlMsgSound(rlMsg')
    <2> DEFINE e == encrypt_path_message(p)
    <2>1. /\ kind = "control" => q = p
          /\ RlAligned(p, q)
          /\ rlMsg' = [kind |-> kind, from |-> p, to |-> q, at |-> <<"relay", RlHops[p][1]>>,
                       id |-> RlRx(p, 1), layers |-> e.layers, nonce |-> e.nonce]
        BY <1>6, Zenon DEF RlSend
    <2>2. e.layers = RlStack(1, p, 1) /\ e.nonce = RlFactors(p, 1) BY RlEncrypted
    <2>3. rlMsg' = RlUp(kind, p, q, 1) BY <2>1, <2>2, Zenon DEF RlUp, RlMessage
    <2>4. 1 \in 1 .. RlLen(p) BY RlLenNat
    <2> QED BY ZenonT(30), <2>1, <2>3, <2>4 DEF RlMsgSound, RlInTransit
<1>7. CASE RlMsgLost BY <1>7 DEF RlMsgLost, RlMsgSound
<1> QED
    BY <1>1, <1>2, <1>3, <1>4, <1>5, <1>6, <1>7, Zenon
    DEF RlNext, send_path_build, handle_path_build, path_build_response, path_build_done, RlBuildLost,
        RlBuildTimeout, RlPathExpires, expire_hops, RlTime

-----------------------------------------------------------------------------

RlTableSound(t) ==
    /\ t = [r \in RlRelay |-> t[r]]
    /\ \A r \in RlRelay : \A x \in t[r] : RlHopSound(r, x)
RlBuildsSound(b) == b = [p \in RlPath |-> b[p]] /\ \A p \in RlPath : RlBuildSound(p, b[p])

LEMMA RlPutSound ==
    ASSUME RlInv, NEW p \in RlPath, NEW k \in 1 .. RlLen(p), RlPassed(p, RlLen(p)), NEW e
    PROVE  RlTableSound(put_transit_hop(RlHops[p][k], p, k, e))
<1> DEFINE r == RlHops[p][k]
           new == {x \in {[id |-> id, path |-> p, k |-> k, expiry |-> e] : id \in {RlRx(p, k), RlTx(p, k)}} :
                     ~has_transit_hop(r, x.id)}
           t == put_transit_hop(r, p, k, e)
<1>1. t = [rlTable EXCEPT ![r] = rlTable[r] \cup new] BY DEF put_transit_hop
<1>2. r \in RlRelay BY SMTT(30) DEF RlRelay, RlLen
<1>3. \A x \in new : RlHopSound(r, x) BY DEF RlHopSound
<1> HIDE DEF new, t, r
<1>4. rlTable = [s \in RlRelay |-> rlTable[s]] /\ \A s \in RlRelay : \A x \in rlTable[s] : RlHopSound(s, x)
    BY SMTT(30) DEF RlInv
<1>5. t = [s \in RlRelay |-> t[s]] /\ \A s \in RlRelay : t[s] = IF s = r THEN rlTable[r] \cup new ELSE rlTable[s]
    <2> DEFINE v == rlTable[r] \cup new
    <2>1. t = [rlTable EXCEPT ![r] = v] BY <1>1
    <2> HIDE DEF v
    <2>2. t = [s \in RlRelay |-> IF s = r THEN v ELSE rlTable[s]] BY <1>2, <1>4, <2>1
    <2> QED BY <2>2 DEF v
<1>6. \A s \in RlRelay : \A x \in t[s] : RlHopSound(s, x) BY <1>3, <1>4, <1>5
<1> QED BY SMTT(30), <1>5, <1>6 DEF RlTableSound, t, r

LEMMA RlBuildPut ==
    ASSUME RlInv, NEW p \in RlPath, NEW b, RlBuildSound(p, b)
    PROVE  RlBuildsSound([rlBuild EXCEPT ![p] = b])
BY Zenon DEF RlInv, RlBuildsSound

\* handle_path_build: what a hop stores is its own, and only the end of the path stores
\* before the answer; a hop that passes the request on is not its own upstream.
LEMMA RlHandleSound ==
    ASSUME RlInv, NEW p \in RlPath, NEW reachable, handle_path_build(p, reachable)
    PROVE  RlTableSound(rlTable') /\ RlBuildsSound(rlBuild')
<1> DEFINE b == rlBuild[p]
           n == RlLen(p)
           r == RlHops[p][b.k]
           f == b.frames[b.k]
           e == rlNow + f.life
<1>0. RlTableSound(rlTable) BY SMTT(30) DEF RlInv, RlTableSound
<1>1. RlBuildSound(p, b) /\ b.kind = "request" BY DEF RlInv, handle_path_build
<1>2. b # RlNone BY SMTT(30), <1>1 DEF RlNone
<1>3. /\ b = [kind |-> b.kind, k |-> b.k, frames |-> b.frames, held |-> b.held]
      /\ b.k \in 1 .. n /\ RlPassed(p, b.k)
      /\ \A j \in 1 .. n : RlFrameSound(p, j, b.frames[j])
    BY <1>1, <1>2 DEF RlBuildSound
<1>4. n \in Nat BY SMTT(30), RlLenNat
<1>5. /\ f.rx = RlRx(p, b.k) /\ f.tx = RlTx(p, b.k)
      /\ f.upstream = RlHops[p][IF b.k = n THEN b.k ELSE b.k + 1]
    <2>1. RlFrameSound(p, b.k, f) BY <1>3
    <2> HIDE DEF b
    <2> QED BY SMTT(30), <2>1 DEF RlFrameSound
<1> DEFINE lo == b.k - 1
           hi == b.k + 1
           err == [b EXCEPT !.kind = "error", !.k = lo]
           ok == [b EXCEPT !.kind = "ok", !.k = lo]
           held == Append(b.held, e)
           frames == [j \in 1 .. n |-> [b.frames[j] EXCEPT !.layers = RlToggle(b.frames[j].layers, b.k)]]
           fwd == [b EXCEPT !.k = hi, !.held = held, !.frames = frames]
<1>6. \/ rlBuild' = [rlBuild EXCEPT ![p] = err] /\ UNCHANGED rlTable
      \/ /\ decrypt_build_frame(f, r) /\ f.upstream = r
         /\ rlTable' = put_transit_hop(r, p, b.k, e) /\ rlBuild' = [rlBuild EXCEPT ![p] = ok]
      \/ /\ decrypt_build_frame(f, r) /\ f.upstream # r
         /\ rlBuild' = [rlBuild EXCEPT ![p] = fwd] /\ UNCHANGED rlTable
    <2> DEFINE valid == /\ decrypt_build_frame(f, r)
                        /\ e <= rlNow + RlMaxLife /\ e > rlNow
                        /\ ~has_transit_hop(r, f.rx) /\ ~has_transit_hop(r, f.tx)
    <2>1. IF ~valid \/ (f.upstream # r /\ ~reachable)
          THEN /\ rlBuild' = [rlBuild EXCEPT ![p] = err]
               /\ UNCHANGED rlTable
          ELSE IF f.upstream = r
          THEN /\ rlTable' = put_transit_hop(r, p, b.k, e)
               /\ rlBuild' = [rlBuild EXCEPT ![p] = ok]
          ELSE /\ rlBuild' = [rlBuild EXCEPT ![p] = fwd]
               /\ UNCHANGED rlTable
        BY ZenonT(40) DEF handle_path_build
    <2>2. valid => decrypt_build_frame(f, r) OBVIOUS
    <2> HIDE DEF valid, err, ok, fwd, b, f, r, e
    <2> QED BY <2>1, <2>2
<1> HIDE DEF b, f, e, held, frames, lo, hi
<1>7. CASE rlBuild' = [rlBuild EXCEPT ![p] = err] /\ UNCHANGED rlTable
    <2>1. err = [kind |-> "error", k |-> lo, frames |-> b.frames, held |-> b.held]
        <3>1. [b EXCEPT !.kind = "error"] = [kind |-> "error", k |-> b.k, frames |-> b.frames, held |-> b.held] BY <1>3
        <3>2. [[kind |-> "error", k |-> b.k, frames |-> b.frames, held |-> b.held] EXCEPT !.k = lo] =
                 [kind |-> "error", k |-> lo, frames |-> b.frames, held |-> b.held]
            OBVIOUS
        <3> QED BY <3>1, <3>2, Zenon
    <2>2. err.kind = "error" /\ err.k = lo /\ err.frames = b.frames /\ err.held = b.held BY SMTT(30), <2>1
    <2> HIDE DEF err
    <2>3. RlBuildSound(p, err) BY <2>1, <2>2 DEF RlBuildSound
    <2> QED BY <1>0, <1>7, <2>3, RlBuildPut, Zenon
<1>8. CASE /\ decrypt_build_frame(f, r) /\ f.upstream = r
           /\ rlTable' = put_transit_hop(r, p, b.k, e) /\ rlBuild' = [rlBuild EXCEPT ![p] = ok]
    <2>1. f.tx = f.rx BY <1>8 DEF decrypt_build_frame
    <2>2. b.k = n BY <1>3, <1>5, <2>1 DEF RlTx, RlRx
    <2>3. ok = [kind |-> "ok", k |-> lo, frames |-> b.frames, held |-> b.held]
        <3>1. [b EXCEPT !.kind = "ok"] = [kind |-> "ok", k |-> b.k, frames |-> b.frames, held |-> b.held] BY <1>3
        <3>2. [[kind |-> "ok", k |-> b.k, frames |-> b.frames, held |-> b.held] EXCEPT !.k = lo] =
                 [kind |-> "ok", k |-> lo, frames |-> b.frames, held |-> b.held]
            OBVIOUS
        <3> QED BY <3>1, <3>2, Zenon
    <2>4. ok.kind = "ok" /\ ok.k = lo /\ ok.frames = b.frames /\ ok.held = b.held BY <2>3
    <2>5. lo \in Int /\ lo < n BY <1>3, <1>4 DEF lo
    <2>6. RlPassed(p, n) BY SMTT(30), <1>3, <2>2
    <2> HIDE DEF ok
    <2>7. RlBuildSound(p, ok) BY SMTT(30), <2>3, <2>4, <2>5, <2>6 DEF RlBuildSound
    <2>8. RlTableSound(rlTable') BY <1>3, <1>8, <2>6, RlPutSound
    <2> QED BY <1>8, <2>7, <2>8, RlBuildPut, Zenon
<1>9. CASE /\ decrypt_build_frame(f, r) /\ f.upstream # r
           /\ rlBuild' = [rlBuild EXCEPT ![p] = fwd] /\ UNCHANGED rlTable
    <2>1. b.k # n BY <1>5, <1>9
    <2>2. f.upstream = RlHops[p][b.k + 1] BY <1>5, <2>1
    <2>3. hi \in 1 .. n /\ \A j \in 1 .. hi - 1 : j \in 1 .. b.k - 1 \/ j = b.k BY <1>3, <1>4, <2>1 DEF hi
    <2>4. RlPassed(p, hi) BY <1>3, <1>9, <2>2, <2>3 DEF RlPassed
    <2>5. fwd = [kind |-> b.kind, k |-> hi, frames |-> frames, held |-> held]
        <3>1. [b EXCEPT !.k = hi] = [kind |-> b.kind, k |-> hi, frames |-> b.frames, held |-> b.held] BY <1>3
        <3>2. [[kind |-> b.kind, k |-> hi, frames |-> b.frames, held |-> b.held] EXCEPT !.held = held] =
                 [kind |-> b.kind, k |-> hi, frames |-> b.frames, held |-> held]
            OBVIOUS
        <3>3. [[kind |-> b.kind, k |-> hi, frames |-> b.frames, held |-> held] EXCEPT !.frames = frames] =
                 [kind |-> b.kind, k |-> hi, frames |-> frames, held |-> held]
            OBVIOUS
        <3> QED BY <3>1, <3>2, <3>3, Zenon
    <2>6. fwd.kind = "request" /\ fwd.k = hi /\ fwd.frames = frames /\ fwd.held = held BY <1>1, <2>5
    <2>7. ASSUME NEW j \in 1 .. n PROVE RlFrameSound(p, j, frames[j])
        <3> DEFINE g == b.frames[j]
                   l == RlToggle(g.layers, b.k)
        <3>1. RlFrameSound(p, j, g) BY <1>3
        <3>2. frames[j] = [g EXCEPT !.layers = l] BY SMTT(30) DEF frames
        <3> HIDE DEF g, l
        <3> QED BY <3>1, <3>2 DEF RlFrameSound
    <2> HIDE DEF fwd
    <2>8. RlBuildSound(p, fwd) BY <1>1, <2>3, <2>4, <2>5, <2>6, <2>7 DEF RlBuildSound
    <2> QED BY <1>0, <1>9, <2>8, RlBuildPut, Zenon
<1> QED BY <1>6, <1>7, <1>8, <1>9

LEMMA RlTablesStep ==
    ASSUME RlInv, RlNext
    PROVE  RlTableSound(rlTable') /\ RlBuildsSound(rlBuild')
<1>0. RlTableSound(rlTable) /\ RlBuildsSound(rlBuild) BY DEF RlInv, RlTableSound, RlBuildsSound
<1>1. CASE UNCHANGED <<rlTable, rlBuild>> BY <1>0, <1>1
<1>2. ASSUME NEW p \in RlPath, NEW e \in RlExpiry, send_path_build(p, e)
      PROVE  RlTableSound(rlTable') /\ RlBuildsSound(rlBuild')
    <2> DEFINE frames == path_build_onion(p, e)
               b == [kind |-> "request", k |-> 1, frames |-> frames, held |-> << >>]
    <2>1. UNCHANGED rlTable /\ rlBuild' = [rlBuild EXCEPT ![p] = b] BY <1>2 DEF send_path_build
    <2>2. ASSUME NEW j \in 1 .. RlLen(p) PROVE RlFrameSound(p, j, frames[j])
        <3> DEFINE g == encode_frame(p, j, e)
        <3>1. frames[j] = [g EXCEPT !.layers = 1 .. j - 1] BY ZenonT(30) DEF path_build_onion
        <3>2. RlFrameSound(p, j, g) BY DEF RlFrameSound, encode_frame
        <3> HIDE DEF g
        <3> QED BY <3>1, <3>2 DEF RlFrameSound
    <2>3. 1 \in 1 .. RlLen(p) /\ RlPassed(p, 1) BY RlLenNat DEF RlPassed
    <2> HIDE DEF frames
    <2>4. b.kind = "request" /\ b.k = 1 /\ b.frames = frames /\ b.held = << >> OBVIOUS
    <2>5. b = [kind |-> b.kind, k |-> b.k, frames |-> b.frames, held |-> b.held] BY <2>4
    <2> HIDE DEF b
    <2>6. RlBuildSound(p, b) BY <2>2, <2>3, <2>4, <2>5 DEF RlBuildSound
    <2> QED BY <1>0, <2>1, <2>6, RlBuildPut, ZenonT(30)
<1>3. ASSUME NEW p \in RlPath, NEW reachable \in BOOLEAN, handle_path_build(p, reachable)
      PROVE  RlTableSound(rlTable') /\ RlBuildsSound(rlBuild')
    BY <1>3, RlHandleSound
<1>4. ASSUME NEW p \in RlPath, path_build_response(p)
      PROVE  RlTableSound(rlTable') /\ RlBuildsSound(rlBuild')
    <2> DEFINE b == rlBuild[p]
               lo == b.k - 1
               new == [b EXCEPT !.k = lo]
    <2>1. /\ b.kind \in {"ok", "error"} /\ b.k > 0
          /\ rlTable' = IF b.kind = "ok" THEN put_transit_hop(RlHops[p][b.k], p, b.k, b.held[b.k]) ELSE rlTable
          /\ rlBuild' = [rlBuild EXCEPT ![p] = new]
        BY <1>4 DEF path_build_response
    <2>2. RlBuildSound(p, b) BY DEF RlInv
    <2> HIDE DEF b
    <2>3. b # RlNone /\ b.kind # "request" BY <2>1 DEF RlNone
    <2>4. /\ b = [kind |-> b.kind, k |-> b.k, frames |-> b.frames, held |-> b.held]
          /\ b.kind = "ok" => b.k \in Int /\ b.k < RlLen(p) /\ RlPassed(p, RlLen(p))
        BY <2>2, <2>3 DEF RlBuildSound
    <2>5. RlTableSound(rlTable')
        <3>1. CASE b.kind = "ok"
            <4>1. b.k \in 1 .. RlLen(p) BY <2>1, <2>4, <3>1, RlLenNat
            <4> QED BY <2>1, <2>4, <3>1, <4>1, RlPutSound
        <3>2. CASE b.kind # "ok" BY <1>0, <2>1, <3>2
        <3> QED BY <3>1, <3>2
    <2>6. b.kind = "ok" => lo \in Int /\ lo < RlLen(p) BY <2>4, RlLenNat
    <2> HIDE DEF lo
    <2>7. new = [kind |-> b.kind, k |-> lo, frames |-> b.frames, held |-> b.held] BY <2>4
    <2>8. new.kind = b.kind /\ new.k = lo /\ new.frames = b.frames /\ new.held = b.held BY <2>7
    <2> HIDE DEF new
    <2>9. RlBuildSound(p, new) BY <2>3, <2>4, <2>6, <2>7, <2>8 DEF RlBuildSound
    <2> QED BY <2>1, <2>5, <2>9, RlBuildPut, Zenon
<1>5. ASSUME NEW p \in RlPath, path_build_done(p) \/ RlBuildLost(p)
      PROVE  RlTableSound(rlTable') /\ RlBuildsSound(rlBuild')
    <2>1. UNCHANGED rlTable /\ rlBuild' = [rlBuild EXCEPT ![p] = RlNone]
        BY <1>5 DEF path_build_done, RlBuildLost
    <2>2. RlBuildSound(p, RlNone) BY DEF RlBuildSound
    <2> QED BY <1>0, <2>1, <2>2, RlBuildPut, Zenon
<1>6. ASSUME NEW r \in RlRelay, expire_hops(r)
      PROVE  RlTableSound(rlTable') /\ RlBuildsSound(rlBuild')
    <2> DEFINE left == {x \in rlTable[r] : rlNow < x.expiry}
    <2>1. UNCHANGED rlBuild /\ rlTable' = [rlTable EXCEPT ![r] = left] BY <1>6 DEF expire_hops
    <2>2. left \subseteq rlTable[r] OBVIOUS
    <2> HIDE DEF left
    <2>3. /\ rlTable' = [s \in RlRelay |-> rlTable'[s]]
          /\ \A s \in RlRelay : rlTable'[s] = IF s = r THEN left ELSE rlTable[s]
        BY <1>0, <2>1 DEF RlTableSound
    <2> QED BY <1>0, <2>1, <2>2, <2>3 DEF RlTableSound
<1> QED
    BY <1>1, <1>2, <1>3, <1>4, <1>5, <1>6, ZenonT(30)
    DEF RlNext, RlBuildTimeout, RlPathExpires, RlSend, RlClientMessage, RlAnswer, RlRelayMessage,
        RlRelayAnswer, RlMsgLost, RlTime

LEMMA RlNextInv == RlInv /\ [RlNext]_rlvars => RlInv'
<1>1. ASSUME RlInv, RlNext PROVE RlInv'
    BY <1>1, RlMsgStep, RlTablesStep DEF RlInv, RlTableSound, RlBuildsSound
<1>2. ASSUME RlInv, UNCHANGED rlvars PROVE RlInv'
    BY SMTT(30), <1>2 DEF RlInv, rlvars
<1> QED BY <1>1, <1>2

LEMMA RlInitInv == RlInit => RlInv
BY DEF RlInit, RlInv, RlBuildSound, RlMsgSound

(* Whatever is built, lost, refused or expired meanwhile, what arrives is what was sent,
   where it was sent to: at the pivot or at the client every layer is off and the nonce is
   the sender's again, for messages up a path, over the pivot and down an aligned one and
   for the answers (encrypt_path_message, decrypt_path_message of path.cpp,
   handle_session_message of link_manager.cpp); for any number of paths of any lengths,
   relays visited twice included. *)
THEOREM MessagesArriveIntact == RlSpec => []ArrivesIntact
<1>1. RlInv => ArrivesIntact
    <2> SUFFICES ASSUME RlInv, rlMsg.kind = "arrived" PROVE RlIntact(rlMsg)
        BY DEF ArrivesIntact, RlIntact
    <2>1. RlMsgSound(rlMsg) BY SMTT(30) DEF RlInv
    <2>2. \A kind, p, q, k : RlUp(kind, p, q, k).kind = kind BY SMTT(30), RlFields DEF RlUp
    <2>3. \A p, q, k : RlDown(p, q, k).kind = "session" BY RlFields DEF RlDown
    <2>4. \A p, k : RlBack(p, k).kind = "answer" BY RlFields DEF RlBack
    <2>5. \A kind \in {"session", "control"} : kind # "arrived" OBVIOUS
    <2>6. ~RlInTransit(rlMsg) BY <2>2, <2>3, <2>4, <2>5 DEF RlInTransit
    <2>7. rlMsg # RlNone BY DEF RlNone
    <2> QED BY <2>1, <2>6, <2>7 DEF RlMsgSound
<1> QED BY <1>1, RlInitInv, RlNextInv, PTL DEF RlSpec
=============================================================================
