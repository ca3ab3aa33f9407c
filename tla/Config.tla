------------------------------- MODULE Config -------------------------------
(***************************************************************************)
(* Loading a configuration (config/): the INI parser, the table of         *)
(* options, the acceptors and the validators that run when all options     *)
(* have been accepted, and the session-router-config tool, which builds    *)
(* and checks a configuration and writes it out for the daemon to load.    *)
(*                                                                         *)
(* A value is an integer: CfEmpty is the empty string, CfBad a text the    *)
(* option's parser or acceptor refuses, counts are themselves, durations   *)
(* are milliseconds, booleans 0 and 1, and for the rest the numbers stand  *)
(* for different legal texts.  An address range of [network]:ifaddr is 1   *)
(* or 2 for IPv4 and 3 for IPv6, and an entry of [network]:mapaddr is      *)
(* 10 * remote + range.                                                    *)
(***************************************************************************)
EXTENDS Integers, Sequences, FiniteSets, TLC, SequencesExt

CONSTANTS CfLines,     \* the lines a user may write, of the form CfLine
          CfMaxLines,  \* how many of them a file has at most
          CfSwitches   \* what the session-router-config tool is asked for

VARIABLES cfType,    \* the kind of program that loads the file
          cfFile,    \* the lines of the file
          cfMade,    \* the settings the tool wrote the file for, or CfNone
          cfResult   \* what loading it gave, CfNone before

cfvars == <<cfType, cfFile, cfMade, cfResult>>

CfEmpty == -2
CfBad == -1
CfTypes == {"relay", "full", "embedded"}
CfLine(s, n, v) == [section |-> s, name |-> n, value |-> v]

CfNone == [ok |-> FALSE, set |-> <<>>]

-----------------------------------------------------------------------------
(***************************************************************************)
(* An option: which configurations have it, how its acceptor keeps values  *)
(* ("one" replaces, "many" adds, "distinct" adds and refuses repeats,      *)
(* "adjust" puts the value behind the default, "none" has no acceptor),    *)
(* its defaults, what the acceptor does with an empty value, and the       *)
(* values it accepts.                                                      *)
(***************************************************************************)
CfOpt(who, keeps, default, empty, legal) ==
  [who |-> who, keeps |-> keeps, default |-> default, empty |-> empty, legal |-> legal]

CfMost == 86400000
CfText == 0 .. CfMost      \* texts with a syntax to satisfy
CfAny == CfBad .. CfMost   \* any text will do
CfBool == 0 .. 1

CfFlag(who, default) == CfOpt(who, "one", <<default>>, "bad", CfBool)
CfCount(who, default, legal) == CfOpt(who, "one", default, "bad", legal)

\* public-ip needs a public IPv4 address, public-port one that is not zero, and
\* public-address is refused whatever it says
CfRouter(t) ==
  "netid" :> CfOpt("all", "one", <<0>>, "bad", CfText)
  @@ "data-dir" :> CfOpt("all", "one", <<>>, "bad", CfText)
  @@ "public-ip" :> CfOpt("relay", "one", <<>>, "bad", CfText)
  @@ "public-address" :> CfOpt("all", "one", <<>>, "bad", {})
  @@ "public-port" :> CfOpt("relay", "one", <<>>, "bad", 1 .. 65535)
  @@ "block-bogons" :> CfFlag("all", 1)

CfExit(t) ==
  "auth" :> CfOpt("full", "many", <<>>, "clear", CfText)
  @@ "enable" :> CfFlag("full", 0)
  @@ "policy" :> CfOpt("full", "many", <<>>, "clear", CfText)
  @@ "reserved-range" :> CfOpt("full", "many", <<>>, "keep", CfText)
  @@ "routed-range" :> CfOpt("full", "many", <<>>, "bad", CfText)

\* [network], the authentication options first
CfAuth(t) ==
  "auth-type" :> CfOpt("full", "one", <<>>, "clear", CfText)
  @@ "omq-auth-endpoint" :> CfOpt("full", "one", <<>>, "value", CfAny)
  @@ "omq-auth-method" :> CfOpt("full", "one", <<0>>, "keep", CfAny)
  @@ "auth-whitelist" :> CfOpt("full", "many", <<>>, "bad", CfText)
  @@ "auth-file" :> CfOpt("full", "many", <<>>, "bad", CfText)
  @@ "auth-file-type" :> CfOpt("full", "one", <<>>, "bad", CfText)
  @@ "auth-static" :> CfOpt("full", "many", <<>>, "value", CfAny)

CfProfiles(t) ==
  "save-profiles" :> CfFlag("all", IF t = "embedded" THEN 0 ELSE 1)
  @@ "profiling" :> CfFlag("all", 1)
  @@ "keyfile" :> CfOpt("client", "one", <<>>, "bad", CfText)

CfRouting(t) ==
  "reachable" :> CfFlag("full", 1)
  @@ "auto-routing" :> CfFlag("full", 1)
  @@ "blackhole-routes" :> CfFlag("full", 1)
  @@ "ifname" :> CfOpt("notembedded", "one", <<>>, "value", CfAny)

CfAddresses(t) ==
  "ifaddr" :> CfOpt("notembedded", "family", <<>>, "bad", 1 .. 3)
  @@ "mapaddr" :> CfOpt("full", "family", <<>>, "keep", {10 * r + n : r \in 1 .. 9, n \in 1 .. 3})

CfRecords(t) ==
  "expired-address-cache" :> CfOpt("notembedded", "none", <<IF t = "relay" THEN 100 ELSE 1000>>, "bad", CfText)
  @@ "srv" :> CfOpt("full", "many", <<>>, "bad", CfText)

CfDns(t) ==
  "listen" :> CfOpt("full", "many", <<0>>, "keep", CfText)
  @@ "upstream" :> CfOpt("full", "many", <<1, 2, 3, 4>>, "keep", CfText)
  @@ "unbound" :> CfOpt("full", "many", <<>>, "bad", CfText)
  @@ "unbound-hosts" :> CfOpt("full", "one", <<0>>, "clear", CfText)
  @@ "no-resolvconf" :> CfOpt("full", "none", <<>>, "bad", CfBool)

\* the empty value stands for a max-udp-payload of -1, which is no cap, and for the
\* system's buffer size
CfBind(t) ==
  "listen" :> CfOpt("all", "one", <<>>, "bad", CfText)
  @@ "max-udp-payload" :> CfOpt("all", "one", <<IF t = "embedded" THEN 1372 ELSE CfEmpty>>, "clear", 1200 .. CfMost)
  @@ "gro" :> CfFlag("all", 1)
  @@ "gso" :> CfFlag("all", 1)
  @@ "congestion-control" :> CfOpt("all", "one", <<IF t = "relay" THEN 1 ELSE 0>>, "bad", 0 .. 2)
  @@ "udp-recv-buffer" :> CfOpt("all", "one", <<IF t = "relay" THEN 8 ELSE CfEmpty>>, "clear", CfText)
  @@ "udp-send-buffer" :> CfOpt("all", "one", <<IF t = "relay" THEN 1 ELSE CfEmpty>>, "clear", CfText)

CfApi(t) ==
  "enabled" :> CfFlag("notembedded", IF t = "full" THEN 1 ELSE 0)
  @@ "bind" :> CfOpt("notembedded", "many", <<1, 2>>, "value", CfAny)

CfOxend(t) ==
  "disable-testing" :> CfFlag("relay", 0)
  @@ "rpc" :> CfOpt("relay", "one", <<0>>, "bad", CfText)

CfBootstrap(t) == "add-node" :> CfOpt("all", "many", <<>>, "bad", CfText)

CfLogging(t) ==
  "type" :> CfOpt("all", "one", <<IF t = "embedded" THEN 0 ELSE 1>>, "bad", CfText)
  @@ "level" :> CfOpt("all", "adjust", <<IF t = "embedded" THEN CfEmpty ELSE 0>>, "value", CfAny)
  @@ "file" :> CfOpt("all", "one", <<CfEmpty>>, "value", CfAny)

\* how many paths, and how long
CfPaths(t) ==
  "edge-connections" :> CfCount("client", <<4>>, 1 .. CfMost)
  @@ "outbound-paths" :> CfCount("client", <<2>>, 1 .. 4)
  @@ "client-hops" :> CfCount("client", <<3>>, 1 .. 8)
  @@ "relay-hops" :> CfCount("client", <<>>, 1 .. 8)
  @@ "inbound-paths" :> CfCount("client", <<4>>, 1 .. 10)
  @@ "inbound-paths-extra" :> CfCount("full", <<0>>, 0 .. CfMost)
  @@ "inbound-hops" :> CfCount("client", <<>>, 1 .. 8)
  @@ "inbound-pivot-reuse" :> CfCount("client", <<1>>, 1 .. CfMost)
  @@ "unique-range-size" :> CfCount("client", <<24>>, {0} \cup 4 .. 32)

\* [paths], the durations and the relays to use or to avoid
CfPathTimes(t) ==
  "acceptable-expiry" :> CfCount("client", <<300000>>, 0 .. 600000)
  @@ "min-expiry" :> CfCount("client", <<60000>>, 0 .. 600000)
  @@ "build-timeout" :> CfCount("client", <<10000>>, 1 .. 60000)
  @@ "ping-interval" :> CfCount("client", <<5000>>, 1000 .. CfMost)
  @@ "max-missed-pings" :> CfCount("client", <<5>>, 0 .. CfMost)
  @@ "strict-edge" :> CfOpt("client", "distinct", <<>>, "bad", CfText)
  @@ "blacklist-snode" :> CfOpt("client", "distinct", <<>>, "bad", CfText)

CfTable ==
  [t \in CfTypes |->
     "router" :> CfRouter(t) @@ "exit" :> CfExit(t) @@
       "network" :> (CfProfiles(t) @@ CfAuth(t) @@ CfRouting(t) @@ CfAddresses(t) @@ CfRecords(t))
     @@ "paths" :> (CfPaths(t) @@ CfPathTimes(t)) @@ "dns" :> CfDns(t) @@ "bind" :> CfBind(t)
     @@ "api" :> CfApi(t) @@ "oxend" :> CfOxend(t) @@ "bootstrap" :> CfBootstrap(t)
     @@ "logging" :> CfLogging(t)]

-----------------------------------------------------------------------------
(***************************************************************************)
(* Options another kind of program has are replaced by one that takes any  *)
(* text once and does nothing with it.                                     *)
(***************************************************************************)
CfIgnored(t, o) ==
  \/ t = "relay" /\ o.who \in {"client", "full"}
  \/ t # "relay" /\ o.who = "relay"
  \/ t = "embedded" /\ o.who \in {"full", "notembedded", "relay"}

define_option(t, o) == IF CfIgnored(t, o) THEN CfOpt("all", "none", <<>>, "value", CfAny) ELSE o

CfDefined ==
  [t \in CfTypes |-> [s \in DOMAIN CfTable[t] |->
     [n \in DOMAIN CfTable[t][s] |-> define_option(t, CfTable[t][s][n])]]]

(***************************************************************************)
(* from_string rounds the durations that are held in seconds, half a       *)
(* second to the even one.                                                 *)
(***************************************************************************)
CfSeconds == {"acceptable-expiry", "min-expiry", "ping-interval"}

CfRounded(v) ==
  LET s == v \div 1000
      r == v % 1000
  IN 1000 * (IF r > 500 \/ (r = 500 /\ s % 2 = 1) THEN s + 1 ELSE s)

from_string(n, v) == IF n \in CfSeconds /\ v > 0 THEN CfRounded(v) ELSE v

\* add_config_value and parse_value, for every line of the file: the section and the
\* option exist, and only a multi-valued option comes twice
CfGiven(file, s, n) ==
  LET own == SelectSeq(file, LAMBDA l : l.section = s /\ l.name = n)
  IN [i \in DOMAIN own |-> from_string(n, own[i].value)]

CfMulti(o) == o.keeps \in {"many", "distinct", "family"}

CfParses(t, file) ==
  \A i \in DOMAIN file :
    LET l == file[i]
    IN /\ l.section \in DOMAIN CfDefined[t]
       /\ l.name \in DOMAIN CfDefined[t][l.section]
       /\ \/ CfMulti(CfDefined[t][l.section][l.name])
          \/ Len(CfGiven(file, l.section, l.name)) = 1

-----------------------------------------------------------------------------
(***************************************************************************)
(* The acceptors.  "family" is that of ifaddr and mapaddr: one value for   *)
(* each remote (none for ifaddr) and address family.                       *)
(***************************************************************************)
CfFamily(v) == <<v \div 10, v % 10 = 3>>

CfTaken(o, set, v) ==
  \/ o.keeps = "distinct" /\ v \in ToSet(set)
  \/ o.keeps = "family" /\ \E w \in ToSet(set) : CfFamily(w) = CfFamily(v)

CfFits(o, set, v) == v \in o.legal /\ ~CfTaken(o, set, v)

CfKept(o, set, v) ==
  IF CfMulti(o) THEN Append(set, v)
  ELSE IF o.keeps = "adjust" /\ v # CfEmpty /\ o.default \notin {<<CfEmpty>>, <<v>>} THEN Append(o.default, v)
  ELSE <<v>>

CfAccept(o, acc, v) ==
  CASE ~acc.ok -> acc
    [] v = CfEmpty /\ o.empty = "clear" -> [acc EXCEPT !.set = <<>>]
    [] v = CfEmpty /\ o.empty = "keep" -> acc
    [] v = CfEmpty /\ o.empty = "value" -> [acc EXCEPT !.set = CfKept(o, @, v)]
    [] OTHER -> IF CfFits(o, acc.set, v) THEN [acc EXCEPT !.set = CfKept(o, @, v)] ELSE CfNone

\* mutant: the defaults are always accepted first
try_accept_both(o, given) ==
  IF o.keeps = "none"
  THEN [ok |-> TRUE, set |-> <<>>]
  ELSE FoldLeft(LAMBDA acc, v : CfAccept(o, acc, v), [ok |-> TRUE, set |-> <<>>],
                IF CfMulti(o) THEN o.default \o given ELSE IF given = <<>> THEN o.default ELSE given)

try_accept(o, given) ==
  IF o.keeps = "none"
  THEN [ok |-> \A i \in DOMAIN given : given[i] \in o.legal \/ (given[i] = CfEmpty /\ o.empty = "value"),
        set |-> <<>>]
  ELSE FoldLeft(LAMBDA acc, v : CfAccept(o, acc, v), [ok |-> TRUE, set |-> <<>>],
                IF given = <<>> THEN o.default ELSE given)

accept_all_options(t, file) ==
  [s \in DOMAIN CfDefined[t] |-> [n \in DOMAIN CfDefined[t][s] |->
     try_accept(CfDefined[t][s][n], CfGiven(file, s, n))]]

-----------------------------------------------------------------------------
(***************************************************************************)
(* The validators: a public port needs a public address, mapped addresses  *)
(* lie in a configured range, a path in use may get no older than one that *)
(* could be switched to, and the first hop is free to choose when the      *)
(* only hop is the destination's.                                          *)
(***************************************************************************)
CfPublicAddr(c) == c["router"]["public-port"].set = <<>> \/ c["router"]["public-ip"].set # <<>>

CfMapped(c) ==
  \A v \in ToSet(c["network"]["mapaddr"].set) : v % 10 \in ToSet(c["network"]["ifaddr"].set)

CfExpiries(c) ==
  \A m \in ToSet(c["paths"]["min-expiry"].set), a \in ToSet(c["paths"]["acceptable-expiry"].set) : m <= a

CfStrictEdges(c) ==
  c["paths"]["strict-edge"].set # <<>> =>
     c["paths"]["client-hops"].set # <<1>> /\ c["paths"]["relay-hops"].set # <<1>>

validate_all_options(c) == CfPublicAddr(c) /\ CfMapped(c) /\ CfExpiries(c) /\ CfStrictEdges(c)

\* the constructor of Config
CfLoaded(t, file) ==
  IF ~CfParses(t, file)
  THEN CfNone
  ELSE LET c == accept_all_options(t, file)
       IN IF (\A s \in DOMAIN c : \A n \in DOMAIN c[s] : c[s][n].ok) /\ validate_all_options(c)
          THEN [ok |-> TRUE, set |-> [s \in DOMAIN c |-> [n \in DOMAIN c[s] |-> c[s][n].set]]]
          ELSE CfNone

-----------------------------------------------------------------------------
(***************************************************************************)
(* generate_ini_config(true): the values that were given, in the order of  *)
(* the definitions, each written back from the parsed value: a duration of *)
(* less than whole seconds as its seconds, followed by "ms".  Defaults     *)
(* are written as comments, which the parser skips.  Nothing depends on    *)
(* the order of different options, so the lines stay where they were.      *)
(***************************************************************************)
values_as_string(n, v) == IF n = "build-timeout" /\ v > 0 /\ v % 1000 # 0 THEN v \div 1000 ELSE v

generate_ini_config(file) ==
  [i \in DOMAIN file |-> [file[i] EXCEPT !.value = values_as_string(file[i].name, from_string(file[i].name, @))]]

\* the lines the tool starts from.  Its modes exclude each other: a hidden service is a
\* full client with a key, and without DNS
CfHidden(t, on) == t = "full" /\ "hidden" \in on
CfKeyed(t, on) == CfHidden(t, on) \/ (t # "relay" /\ "key" \in on)

CfToolLines(t, on) ==
  LET If(c, lines) == IF c THEN lines ELSE <<>>
  IN If(CfKeyed(t, on), <<CfLine("network", "keyfile", 1)>>)
     \o If(CfHidden(t, on), <<CfLine("paths", "inbound-paths", 8), CfLine("dns", "listen", CfEmpty),
                              CfLine("bind", "congestion-control", 1)>>)
     \o If("listen" \in on, <<CfLine("bind", "listen", 1)>>)
     \o If(t = "relay" /\ "ip" \in on, <<CfLine("router", "public-ip", 1)>>)
     \o If(t = "relay" /\ "port" \in on, <<CfLine("router", "public-port", 7)>>)
     \o If(t = "relay" /\ "rpc" \in on, <<CfLine("oxend", "rpc", 1)>>)
     \o If("data" \in on, <<CfLine("router", "data-dir", 1)>>)
     \o If("testnet" \in on, <<CfLine("router", "netid", 1)>>)

-----------------------------------------------------------------------------
CfInit ==
  /\ cfType \in CfTypes
  /\ cfFile = <<>>
  /\ cfMade = CfNone
  /\ cfResult = CfNone

\* a user writes the file, line by line
CfWrite(l) ==
  /\ cfResult = CfNone /\ cfMade = CfNone
  /\ Len(cfFile) < CfMaxLines
  /\ cfFile' = Append(cfFile, l)
  /\ UNCHANGED <<cfType, cfMade, cfResult>>

\* or the tool does: what it was asked for has to load before it is written, and the tool
\* looks for the key it has just put beside the file in its own working directory
CfTool(on) ==
  /\ cfFile = <<>> /\ cfResult = CfNone /\ cfMade = CfNone
  /\ ~(CfKeyed(cfType, on) /\ "elsewhere" \in on)
  /\ CfLoaded(cfType, CfToolLines(cfType, on)).ok
  /\ cfMade' = CfLoaded(cfType, CfToolLines(cfType, on))
  /\ cfFile' = generate_ini_config(CfToolLines(cfType, on))
  /\ UNCHANGED <<cfType, cfResult>>

\* the program starts; a file that does not load keeps it from starting, and may be
\* mended and tried again
CfStart ==
  /\ cfResult = CfNone
  /\ CfLoaded(cfType, cfFile).ok
  /\ cfResult' = CfLoaded(cfType, cfFile)
  /\ UNCHANGED <<cfType, cfFile, cfMade>>

CfNext == (\E l \in CfLines : CfWrite(l)) \/ (\E on \in SUBSET CfSwitches : CfTool(on)) \/ CfStart

-----------------------------------------------------------------------------
(* The file is a sequence of lines, and what was loaded has no more than one value
   for an option that takes one. *)
Config_TypeOK ==
  /\ cfType \in CfTypes
  /\ \A i \in DOMAIN cfFile : {"section", "name", "value"} = DOMAIN cfFile[i]
  /\ cfResult.ok => \A s \in DOMAIN cfResult.set : \A n \in DOMAIN cfResult.set[s] :
       \/ CfMulti(CfDefined[cfType][s][n])
       \/ Len(cfResult.set[s][n]) <= IF CfDefined[cfType][s][n].keeps = "adjust" THEN 2 ELSE 1

\* The two options of config.cpp that have no acceptor.  The scripts beside the program
\* read no-resolvconf; nothing reads expired-address-cache.
CfUnread == {<<"dns", "no-resolvconf">>, <<"network", "expired-address-cache">>}

(* A program that starts runs with what its file says (config/definition.hpp try_accept
   and the acceptors of config.cpp).  An option some line sets keeps the values of its
   lines and nothing else, no defaults either, and one that no line sets has its
   defaults; the level that [logging]:level ends with is the one given.  Only options of
   other kinds of program and the two in CfUnread are without effect, whatever the file
   or the default says.  The options that depend on others agree: a public port comes with
   a public address, a mapped address lies in a configured range, no path in use may be
   older than one to switch to, and strict edges are never combined with single-hop
   paths. *)
LoadedAsWritten ==
  cfResult.ok =>
    LET c == cfResult.set
        Real(seq) == SelectSeq(seq, LAMBDA v : v # CfEmpty)
    IN /\ \A s \in DOMAIN c : \A n \in DOMAIN c[s] :
            LET o == CfTable[cfType][s][n]
                given == CfGiven(cfFile, s, n)
                said == IF given = <<>> THEN o.default ELSE given
            IN IF CfIgnored(cfType, o) \/ <<s, n>> \in CfUnread THEN c[s][n] = <<>>
               ELSE IF <<s, n>> = <<"logging", "level">> THEN c[s][n] # <<>> /\ Last(c[s][n]) = Last(said)
               ELSE CfEmpty \notin ToSet(given) => Real(c[s][n]) = Real(said)
       /\ c["router"]["public-port"] # <<>> => c["router"]["public-ip"] # <<>>
       /\ \A v \in ToSet(c["network"]["mapaddr"]) : v % 10 \in ToSet(c["network"]["ifaddr"])
       /\ \A m \in ToSet(c["paths"]["min-expiry"]), a \in ToSet(c["paths"]["acceptable-expiry"]) : m <= a
       /\ 1 \in ToSet(c["paths"]["client-hops"]) \cup ToSet(c["paths"]["relay-hops"]) =>
            c["paths"]["strict-edge"] = <<>>

(* An option for another kind of program "will be ignored (but will produce a warning)"
   (config/definition.hpp:79-93): a file whose lines are all of such
   options, of ones that may be given several times, loads. *)
IgnoredNeverFails ==
  (\A i \in DOMAIN cfFile :
     LET l == cfFile[i]
     IN /\ l.section \in DOMAIN CfTable[cfType] /\ l.name \in DOMAIN CfTable[cfType][l.section]
        /\ CfIgnored(cfType, CfTable[cfType][l.section][l.name])
        /\ CfMulti(CfTable[cfType][l.section][l.name]))
  => CfLoaded(cfType, cfFile).ok
=============================================================================
