-------------------------------- MODULE Dns --------------------------------
(***************************************************************************)
(* The DNS server of a full client (dns/): the listener's UDP requests and *)
(* TCP connections, RequestHandler with its local names, SNS lookups and   *)
(* SRV lookups that answer later, the upstream resolver, and the encoding  *)
(* of a reply into a buffer of limited size.                               *)
(*                                                                         *)
(* A name is [sub, host, tld].  A record counts one unit of the buffer and *)
(* the header is its six 16-bit words, followed by the first word of the   *)
(* question.                                                               *)
(***************************************************************************)
EXTENDS Naturals, Sequences, FiniteSets

CONSTANTS DnSlots,     \* requests
          DnQueries,   \* the requests a client may send
          DnUpstream,  \* _upstream_dns is not empty
          DnPlain, DnEdns, DnTcp,   \* records that fit in 512, 1232 and 65535 bytes
          DnSrvs       \* numbers of SRV records found for a service

DnNames == [sub : STRING, host : STRING, tld : STRING]
DnQuery == [form : STRING, name : DnNames, type : STRING, tcp : BOOLEAN, edns : BOOLEAN]

ASSUME DnsAssumption == DnQueries \subseteq DnQuery /\ DnSrvs \subseteq Nat

VARIABLES dnReq,  \* what each request waits for
          dnOut,  \* the replies sent to it
          dnConn  \* its TCP connection is alive (always so for UDP)

dnvars == <<dnReq, dnOut, dnConn>>

DnNone == [stage |-> "none"]

LocalTlds == {"sesh", "snode", "loki"}
PubKeys == {"us", "pk"}

DnName(sub, host, tld) == [sub |-> sub, host |-> host, tld |-> tld]
DnBare(n) == DnName("", n.host, n.tld)

-----------------------------------------------------------------------------
(* Message: the reply under construction. *)

DnMessage(q) == [q |-> q, rr |-> q.name, answers |-> <<>>, soa |-> FALSE, aa |-> FALSE, rcode |-> 0,
                 edns |-> q.edns]

set_rr_name(m, n) == [m EXCEPT !.rr = n]
make_reply(m, type, value) ==
  [m EXCEPT !.aa = TRUE, !.answers = Append(@, [owner |-> m.rr, type |-> type, value |-> value])]
add_cname_reply(m, target) == make_reply(m, "CNAME", target)
add_nx_soa(m) == [m EXCEPT !.soa = TRUE]
add_nodata_reply(m) == [m EXCEPT !.aa = TRUE]
nxdomain(m) == [m EXCEPT !.rcode = 3, !.aa = TRUE]
DnFailure(m, rcode) == [m EXCEPT !.answers = <<>>, !.rcode = rcode, !.aa = FALSE]
servfail(m) == DnFailure(m, 2)
formerr(m) == DnFailure(m, 1)
refused(m) == DnFailure(m, 5)

-----------------------------------------------------------------------------
(* The encoding of a reply.  A flags word is the sum of its bits; the code *)
(* is in the bits above 16 here, so that no two fields overlap.            *)

QR == 1
AA == 2
TC == 4
DnFlags(m) == QR + (IF m.aa THEN AA ELSE 0) + 16 * m.rcode

\* write_host_as_big writes as many words as its argument's type has: one for a uint16_t, two for
\* an int, the more significant first
write_host_as_big(h, at, value, words) ==
  IF words = 1 THEN [h EXCEPT ![at] = value] ELSE [h EXCEPT ![at] = 0, ![at + 1] = value]

DnQuestionWord == 9
DnBit(b) == IF b THEN 1 ELSE 0
DnHeader(m, flags, n, ns) ==
  <<7, flags, DnBit(m.q.form \in {"ok", "badcookie"}), n, ns, DnBit(m.edns), DnQuestionWord>>

DnCapacity(q) == IF q.tcp THEN DnTcp ELSE IF q.edns THEN DnEdns ELSE DnPlain
DnNoAnswers(h) == write_host_as_big(h, 4, 0, 2)

\* Message::encode: all sections, or on overflow the question and, if it fits, the EDNS record
encode(m) ==
  LET full == DnHeader(m, DnFlags(m), Len(m.answers), DnBit(m.soa))
      size == Len(m.answers) + DnBit(m.soa) + DnBit(m.edns)
      cut == DnNoAnswers(write_host_as_big(full, 2, DnFlags(m) + TC, 2))
      edns == m.edns /\ DnCapacity(m.q) >= 1
  IN  IF size <= DnCapacity(m.q)
      THEN [header |-> full, answers |-> m.answers, soa |-> m.soa, edns |-> m.edns, cut |-> FALSE]
      ELSE [header |-> IF m.edns /\ ~edns THEN write_host_as_big(cut, 6, 0, 2) ELSE cut,
            answers |-> <<>>, soa |-> FALSE, edns |-> edns, cut |-> TRUE]

\* RawMessage::rewrite_for and encode, of an upstream reply with n records
encode_raw(m, n) ==
  LET recs == [i \in 1..n |-> [owner |-> m.q.name, type |-> m.q.type, value |-> m.q.name]]
      full == DnHeader(m, QR, n, 0)
      cut == write_host_as_big(full, 2, QR + TC, 2)
      counts == [cut EXCEPT ![4] = 0, ![5] = 0]
      edns == m.edns /\ DnCapacity(m.q) >= 1
  IN  IF n + DnBit(m.edns) <= DnCapacity(m.q)
      THEN [header |-> full, answers |-> recs, soa |-> FALSE, edns |-> m.edns, cut |-> FALSE]
      ELSE [header |-> [counts EXCEPT ![6] = DnBit(edns)],
            answers |-> <<>>, soa |-> FALSE, edns |-> edns, cut |-> TRUE]

-----------------------------------------------------------------------------
(* handle_local: the reply to a local name, or what it has to wait for.    *)
(* e holds what other components say: rc (a relay contact is known), sess  *)
(* (a session could be initiated), v4 (an IPv4 address is free).           *)

DnReply(m) == [to |-> "reply", m |-> m]
DnWait(for, m) == [to |-> for, m |-> m]

DnAddress(n) == n.host \in PubKeys

\* TXT: our version, a relay's contact, or the path of a session
DnTxt(m, n, localhost, e) ==
  IF localhost /\ n.sub = "" THEN make_reply(m, "TXT", "version")
  ELSE IF n.sub = "" /\ n.tld = "snode" /\ DnAddress(n)
       THEN IF e.rc THEN make_reply(m, "TXT", "rc") ELSE nxdomain(add_nx_soa(m))
  ELSE IF n.sub = "path" /\ DnAddress(n) THEN make_reply(m, "TXT", "path")
  ELSE nxdomain(add_nx_soa(m))

\* A and AAAA: asking for an address implies a session to it
DnMapped(m, n, e) ==
  IF ~DnAddress(n) \/ ~e.sess THEN nxdomain(add_nx_soa(m))
  ELSE IF m.q.type = "AAAA" THEN make_reply(m, "AAAA", DnBare(n))
  ELSE IF n.sub # "ipv4" THEN add_nx_soa(add_nodata_reply(m))
  ELSE IF e.v4 THEN make_reply(m, "A", DnBare(n)) ELSE servfail(m)

\* what follows once the name's host is known
DnByType(m, n, localhost, e) ==
  IF m.q.type = "TXT" THEN DnReply(DnTxt(m, n, localhost, e))
  ELSE IF m.q.type \in {"A", "AAAA"} THEN DnReply(DnMapped(m, n, e))
  ELSE IF m.q.type = "SRV" /\ n.tld \in {"sesh", "loki"} /\ n.sub = "srv" /\ DnAddress(n)
       THEN DnWait("cc", m)
  ELSE DnReply(nxdomain(add_nx_soa(m)))

\* localhost is an alias of our own address, localhost.loki of localhost.sesh
DnLocalhost(m, n, e) ==
  LET old == set_rr_name(m, DnName("", "localhost", "loki"))
      m1 == IF n.tld = "loki" THEN add_cname_reply(old, DnName("", "localhost", "sesh")) ELSE m
      m2 == add_cname_reply(set_rr_name(m1, DnName("", "localhost", "sesh")), DnName("", "us", "sesh"))
      us == DnName(n.sub, "us", "sesh")
  IN  IF m.q.type = "CNAME" THEN DnReply(m2) ELSE DnByType(set_rr_name(m2, us), us, TRUE, e)

\* random.snode is an alias of a relay
DnRandom(m, n, e) ==
  LET pick == DnName("", "pk", "snode")
      m1 == add_cname_reply(m, pick)
  IN  IF ~e.rc THEN DnReply(nxdomain(m))
      ELSE IF m.q.type = "CNAME" THEN DnReply(m1)
      ELSE DnByType(set_rr_name(m1, pick), pick, FALSE, e)

handle_local(m, n, e) ==
  IF n.host = "localhost" /\ n.tld # "snode" THEN DnLocalhost(m, n, e)
  ELSE IF n = DnName("", "random", "snode") THEN DnRandom(m, n, e)
  ELSE IF n.tld = "loki" /\ n.host \notin PubKeys THEN DnWait("sns", m)
  ELSE DnByType(m, n, FALSE, e)

\* handle_local_ptr: a mapped address has a name, an unmapped one of our ranges has none
handle_local_ptr(m) ==
  IF m.q.name.host = "mapped" THEN make_reply(m, "PTR", DnName("", "pk", "sesh"))
  ELSE add_nx_soa(nxdomain(m))

\* where a well-formed question goes
DnRoute(m, e) ==
  IF m.q.type = "PTR" /\ m.q.name.host \in {"mapped", "unmapped"} THEN DnReply(handle_local_ptr(m))
  ELSE IF m.q.name.tld \in LocalTlds THEN handle_local(m, m.q.name, e)
  ELSE IF m.q.name.host = "use-application-dns" THEN DnReply(nxdomain(add_nx_soa(m)))
  ELSE IF ~DnUpstream THEN DnReply(refused(m))
  ELSE DnWait("unbound", m)

-----------------------------------------------------------------------------
DnInit ==
  /\ dnReq = [s \in DnSlots |-> DnNone]
  /\ dnOut = [s \in DnSlots |-> <<>>]
  /\ dnConn = [s \in DnSlots |-> TRUE]

\* the reply callback: a TCP connection that is gone gets nothing
DnSend(s, bytes) == dnOut' = [dnOut EXCEPT ![s] = IF dnConn[s] THEN Append(@, bytes) ELSE @]

DnOutcomes == [rc : BOOLEAN, sess : BOOLEAN, v4 : BOOLEAN]

DnTake(s, r) ==
  IF r.to = "reply"
  THEN /\ DnSend(s, encode(r.m))
       /\ dnReq' = [dnReq EXCEPT ![s] = [stage |-> "done", q |-> r.m.q]]
  ELSE /\ dnReq' = [dnReq EXCEPT ![s] = [stage |-> r.to, m |-> r.m]]
       /\ UNCHANGED dnOut

\* a request of the listener: what extract_question makes of it decides the first answers
DnRequest(s) ==
  /\ dnReq[s] = DnNone
  /\ \E q \in DnQueries :
       LET m == DnMessage(q) IN
       \/ /\ q.form = "garbage"    \* too short for a header, or a packet from ourselves
          /\ dnReq' = [dnReq EXCEPT ![s] = [stage |-> "done", q |-> q]]
          /\ UNCHANGED dnOut
       \/ q.form = "bad" /\ DnTake(s, DnReply(formerr(m)))
       \/ q.form = "badcookie" /\ DnTake(s, DnReply([m EXCEPT !.rcode = 7]))
       \/ q.form = "empty" /\ DnTake(s, DnReply(m))
       \/ q.form = "ok" /\ \E e \in DnOutcomes : DnTake(s, DnRoute(m, e))
  /\ UNCHANGED dnConn

\* resolve_sns answers: an alias that is then looked up itself, or nothing
DnResolved_unnamed(m, target) == add_cname_reply(m, target)
DnResolved(m, target) ==
  LET lookup == set_rr_name(m, DnBare(m.q.name)) IN
  set_rr_name(add_cname_reply(lookup, target), DnName(m.q.name.sub, target.host, target.tld))

DnSnsFound(m, target, e) ==
  LET r == DnResolved(m, target) IN
  IF m.q.type = "CNAME" THEN DnReply(r)
  ELSE handle_local(r, DnName(m.q.name.sub, target.host, target.tld), e)

resolve_sns_done(s) ==
  /\ dnReq[s].stage = "sns"
  /\ LET m == dnReq[s].m IN
     \/ \E tld \in {"sesh", "snode"}, e \in DnOutcomes : DnTake(s, DnSnsFound(m, DnName("", "pk", tld), e))
     \/ DnTake(s, DnReply(nxdomain(add_nx_soa(m))))    \* the network asserts that there is none
     \/ DnTake(s, DnReply(nxdomain(m)))
  /\ UNCHANGED dnConn

\* lookup_client_intro answers: the contact's records of the service, or no contact
lookup_client_intro_done(s) ==
  /\ dnReq[s].stage = "cc"
  /\ LET m == dnReq[s].m IN
     \/ DnTake(s, DnReply(nxdomain(m)))
     \/ \E n \in DnSrvs :
          LET srv == [i \in 1..n |-> [owner |-> m.rr, type |-> "SRV", value |-> "srv"]] IN
          DnTake(s, DnReply([m EXCEPT !.aa = TRUE, !.answers = @ \o srv]))
  /\ UNCHANGED dnConn

\* Unbound::query's callback: at once if the query could not be given to it, later otherwise
unbound_done(s) ==
  /\ dnReq[s].stage = "unbound"
  /\ LET m == dnReq[s].m IN
     \/ DnTake(s, DnReply(servfail(m)))   \* no response, or one that does not parse
     \/ \E n \in DnSrvs :
          /\ DnSend(s, encode_raw(m, n))
          /\ dnReq' = [dnReq EXCEPT ![s] = [stage |-> "done", q |-> m.q]]
  /\ UNCHANGED dnConn

\* a client closes its TCP connection: *alive is reset and the answer goes nowhere
DnDisconnect(s) ==
  /\ dnConn[s]
  /\ \/ dnReq[s].stage \in {"sns", "cc", "unbound"} /\ dnReq[s].m.q.tcp
     \/ dnReq[s].stage = "done" /\ dnReq[s].q.tcp
  /\ dnConn' = [dnConn EXCEPT ![s] = FALSE]
  /\ UNCHANGED <<dnReq, dnOut>>

DnNext ==
  \E s \in DnSlots : \/ DnRequest(s) \/ resolve_sns_done(s) \/ lookup_client_intro_done(s)
                     \/ unbound_done(s) \/ DnDisconnect(s)

-----------------------------------------------------------------------------
DnStages == {"none", "sns", "cc", "unbound", "done"}

\* The type of the state.
Dns_TypeOK ==
  /\ \A s \in DnSlots : dnReq[s].stage \in DnStages
  /\ dnConn \in [DnSlots -> BOOLEAN]
  /\ \A s \in DnSlots : Len(dnOut[s]) <= 1

\* The records of a reply form one chain from the question: each alias' target is the name of the
\* next record, whichever of localhost, random.snode and an SNS name it came through, and the last
\* records are under the subdomain that was asked for.
AnswersChain ==
  \A s \in DnSlots :
    LET q == dnReq[s].q IN
    \A i \in 1..Len(dnOut[s]) :
      LET a == dnOut[s][i].answers IN
      a # <<>> =>
        /\ DnBare(a[1].owner) = DnBare(q.name)
        /\ \A j \in 2..Len(a) :
             IF a[j - 1].type = "CNAME" /\ q.name.tld \in LocalTlds
             THEN DnBare(a[j].owner) = DnBare(a[j - 1].value)
             ELSE a[j].owner = a[j - 1].owner
        /\ a[Len(a)].type # "CNAME" => a[Len(a)].owner.sub = q.name.sub

\* A reply that had to leave records out says so: its flags word still is a reply's and has the TC
\* bit set ("set the TC (truncate) bit in the header flags").
TruncatedIsMarked ==
  \A s \in DnSlots : \A i \in 1..Len(dnOut[s]) :
    LET r == dnOut[s][i] IN r.cut => (r.header[2] % 2 = 1 /\ (r.header[2] \div TC) % 2 = 1)
=============================================================================
