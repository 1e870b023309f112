----------------------------- MODULE Data_proofs ----------------------------
(* Proofs about the sequential parts: the configuration, for any command     *)
(* line and any file; what a query answers, for any Tangle and any list of   *)
(* hashes; and the requests that the deserializers read, with their memory.  *)
EXTENDS Config, Query, Serializer, TLAPS

\* A step that names no prover is tried with SMT and then with Zenon, 20 s each.
USE SMTT(20), ZenonT(20)

-----------------------------------------------------------------------------
(* The configuration *)

\* The values of the fields.
HostName == {None, "h0", "h1", "h2", "h3"}
\* A number as text.
Numerals == [text : {"good", "junk", "range"}, n : Nat]
\* ta_core.
CoreType ==
    [hosts : [1..ListLen -> {None, "h1", "h2", "h3"}], ports : [1..ListLen -> Nat],
     service : [host : HostName, port : Nat], cache : BOOLEAN, redis : {"r0", "r1"},
     backend : {None, "r0", "r1"}, threads : 0..MaxThreads, mwm : 0..255, gtta : BOOLEAN, conf_file : BOOLEAN]

\* The positions of an option among the first n settings.
Before(g, n, key) == {p \in 1..n : g[p].key = key}
\* The host lists that reach entry i.
Reach(g, n, i) == {p \in Before(g, n, "node_host") : Len(g[p].value) >= i}

\* After the first n settings of g: entry i is that of the last list that reaches it,
HostsRight(c, g, n) ==
    \A i \in 1..ListLen :
        \/ Reach(g, n, i) = {} /\ c.hosts[i] = None
        \/ \E p \in Reach(g, n, i) : (\A q \in Reach(g, n, i) : q <= p) /\ c.hosts[i] = g[p].value[i]

\* a number out of range has been met when errno is set,
OutOfRangeIn(g, n) == \E p \in 1..n : Number(g[p]) /\ Ranged(g[p].value)
ErrnoRight(e, g, n) == e => OutOfRangeIn(g, n)

\* the last weight counts unless a number before it was out of range,
MwmRight(c, g, n) ==
    \A p \in Before(g, n, "mwm") :
        \/ \E later \in Before(g, n, "mwm") : later > p
        \/ OutOfRangeIn(g, p)
        \/ c.mwm = Width8(g[p].value[1].n)

\* and the cache was turned on by one of them, with the server named before.
CacheRight(c, g, n) ==
    c.cache => /\ Before(g, n, "cache") # {}
               /\ \/ c.backend = c.redis
                  \/ \E p \in Before(g, n, "redis_host"), q \in Before(g, n, "cache") : p > q

\* The service is the first entry of the list.
ServiceRight(c) == (c.hosts[1] # None => c.service.host = c.hosts[1]) /\ c.service.port = c.ports[1]

\* What the settings have made of the core.
CoreRight(c, e, g, n) ==
    HostsRight(c, g, n) /\ ErrnoRight(e, g, n) /\ MwmRight(c, g, n) /\ CacheRight(c, g, n)

-----------------------------------------------------------------------------

\* A list of one.
LEMMA Single ==
  ASSUME NEW S, NEW x \in S
  PROVE  <<x>> \in Seq(S) /\ Len(<<x>>) = 1
OBVIOUS

\* What a setting is, by its key.
LEMMA SettingIs ==
  ASSUME NEW s \in Arguments
  PROVE  /\ s.key \in {"node_host", "node_port", "cache", "redis_host", "http_threads", "mwm", "no_gtta", "config", "unknown"}
         /\ s.key = "node_host" => s.value \in Seq({"h1", "h2", "h3"}) /\ Len(s.value) >= 1
         /\ s.key = "node_port" => s.value \in Seq(Numerals)
         /\ s.key = "http_threads" => s.value \in Seq(Numerals) /\ Len(s.value) = 1
         /\ s.key = "mwm" /\ ~ArgumentMissing(s) => s.value \in Seq(Numerals) /\ Len(s.value) = 1
         /\ s.key = "redis_host" => s.value[1] = "r1"
<1>1. /\ Junk \in Numerals /\ OutOfRange \in Numerals /\ Good(3) \in Numerals /\ Good(7) \in Numerals /\ Good(8) \in Numerals
      /\ Good(9) \in Numerals /\ Good(14) \in Numerals /\ Good(200) \in Numerals /\ Good(300) \in Numerals
  BY DEF Junk, OutOfRange, Good, Numerals
<1> HIDE DEF Numerals
<1>2. \A S : \A x, y \in S : <<x>> \in Seq(S) /\ <<x, y>> \in Seq(S)
  OBVIOUS
<1>3. \A x, y : Len(<<x>>) = 1 /\ Len(<<x, y>>) = 2 /\ <<x>>[1] = x
  OBVIOUS
<1>4. 1 >= 1 /\ 2 >= 1
  OBVIOUS
<1>5. CASE s \in {Setting("node_host", <<"h1">>), Setting("node_host", <<"h2", "h3">>)}
  <2>1. s.key = "node_host" /\ s.value \in {<<"h1">>, <<"h2", "h3">>}
    BY <1>5 DEF Setting
  <2>2. s.value \in Seq({"h1", "h2", "h3"}) /\ Len(s.value) >= 1
    BY <1>2, <1>3, <1>4, <2>1, Zenon
  <2> QED BY <2>1, <2>2, Zenon
<1>6. CASE s \in {Setting("node_port", <<Good(7)>>), Setting("node_port", <<Junk, Good(8)>>),
                  Setting("node_port", <<Good(9), OutOfRange>>)}
  <2>1. s.key = "node_port" /\ s.value \in {<<Good(7)>>, <<Junk, Good(8)>>, <<Good(9), OutOfRange>>}
    BY <1>6 DEF Setting
  <2>2. <<Good(7)>> \in Seq(Numerals)
    BY <1>1, Single, Zenon
  <2>3. <<Junk, Good(8)>> \in Seq(Numerals)
    BY <1>1, <1>2, Zenon
  <2>4. <<Good(9), OutOfRange>> \in Seq(Numerals)
    BY <1>1, <1>2, Zenon
  <2>5. s.value \in Seq(Numerals)
    BY <2>1, <2>2, <2>3, <2>4, Zenon
  <2> QED BY <2>1, <2>5, Zenon
<1>7. CASE s \in {Setting("cache", <<>>), Setting("no_gtta", <<>>), Setting("config", <<>>), Setting("unknown", <<>>)}
  <2>1. s.key \in {"cache", "no_gtta", "config", "unknown"}
    BY <1>7 DEF Setting
  <2> QED BY <2>1, Zenon
<1>8. CASE s = Setting("redis_host", <<"r1">>)
  <2>1. s.key = "redis_host" /\ s.value[1] = "r1"
    BY <1>8 DEF Setting
  <2> QED BY <2>1, Zenon
<1>9. CASE s \in {Setting("http_threads", <<Good(3)>>), Setting("http_threads", <<Good(200)>>),
                  Setting("http_threads", <<OutOfRange>>)}
  <2>1. s.key = "http_threads" /\ s.value \in {<<Good(3)>>, <<Good(200)>>, <<OutOfRange>>}
    BY <1>9 DEF Setting
  <2>2. PICK x \in Numerals : s.value = <<x>>
    BY <1>1, <2>1, Zenon
  <2>3. s.value \in Seq(Numerals) /\ Len(s.value) = 1
    BY <2>2, Single, Zenon
  <2> QED BY <2>1, <2>3, Zenon
<1>10. CASE s \in {Setting("mwm", <<Good(14)>>), Setting("mwm", <<Good(300)>>), Setting("mwm", <<Junk>>)}
  <2>1. s.key = "mwm" /\ s.value \in {<<Good(14)>>, <<Good(300)>>, <<Junk>>}
    BY <1>10 DEF Setting
  <2>2. PICK x \in Numerals : s.value = <<x>>
    BY <1>1, <2>1, Zenon
  <2>3. s.value \in Seq(Numerals) /\ Len(s.value) = 1
    BY <2>2, Single, Zenon
  <2> QED BY <2>1, <2>3, Zenon
<1>11. CASE s = Setting("mwm", <<>>)
  <2>1. s.key = "mwm" /\ s.value = <<>>
    BY <1>11 DEF Setting
  <2> QED BY <2>1, Zenon DEF ArgumentMissing
<1>12. \/ s \in {Setting("node_host", <<"h1">>), Setting("node_host", <<"h2", "h3">>)}
       \/ s \in {Setting("node_port", <<Good(7)>>), Setting("node_port", <<Junk, Good(8)>>),
                 Setting("node_port", <<Good(9), OutOfRange>>)}
       \/ s \in {Setting("cache", <<>>), Setting("no_gtta", <<>>), Setting("config", <<>>), Setting("unknown", <<>>)}
       \/ s = Setting("redis_host", <<"r1">>)
       \/ s \in {Setting("http_threads", <<Good(3)>>), Setting("http_threads", <<Good(200)>>),
                 Setting("http_threads", <<OutOfRange>>)}
       \/ s \in {Setting("mwm", <<Good(14)>>), Setting("mwm", <<Good(300)>>), Setting("mwm", <<Junk>>)}
       \/ s = Setting("mwm", <<>>)
  BY Zenon DEF Arguments, Settings
<1> QED BY <1>5, <1>6, <1>7, <1>8, <1>9, <1>10, <1>11, <1>12, Zenon

\* What a setting does, by its key.
LEMMA SetIs ==
  ASSUME NEW s
  PROVE  /\ s.key = "node_host" => cli_core_set(core, s) = Hosts(core, s.value)
         /\ s.key = "node_port" => cli_core_set(core, s) = Ports(core, s.value)
         /\ s.key = "cache" => cli_core_set(core, s) = Cache(core)
         /\ s.key = "redis_host" => cli_core_set(core, s) = [core EXCEPT !.redis = s.value[1]]
         /\ s.key = "http_threads" => cli_core_set(core, s) = Threads(core, s.value[1])
         /\ s.key = "mwm" => cli_core_set(core, s) = Mwm(core, s.value[1])
         /\ s.key = "no_gtta" => cli_core_set(core, s) = [core EXCEPT !.gtta = TRUE]
         /\ s.key = "config" => cli_core_set(core, s) = [core EXCEPT !.conf_file = TRUE]
BY SMTT(20) DEF cli_core_set

\* A number keeps its width.
LEMMA WidthIs ==
  ASSUME NEW k \in Nat
  PROVE  Width8(k) \in 0..255
BY SMTT(20) DEF Width8

\* A core with other hosts, and its service.
WithHosts(c, x, h) == [c EXCEPT !.hosts = x, !.service.host = h]
\* What that says of the other fields.
OnlyHosts(c, d, x, h) ==
    /\ d \in CoreType /\ d.hosts = x /\ d.service.host = h /\ d.service.port = c.service.port
    /\ d.ports = c.ports /\ d.cache = c.cache /\ d.backend = c.backend /\ d.redis = c.redis /\ d.mwm = c.mwm
\* It does so.
LEMMA SetHosts ==
  ASSUME NEW c \in CoreType, NEW x \in [1..ListLen -> {None, "h1", "h2", "h3"}], NEW h \in HostName
  PROVE  OnlyHosts(c, WithHosts(c, x, h), x, h)
<1>1. WithHosts(c, x, h) \in CoreType
  BY Zenon DEF CoreType, WithHosts
<1>2. c.service \in [host : HostName, port : Nat]
  BY Zenon DEF CoreType
<1>3. DOMAIN c = {"hosts", "ports", "service", "cache", "redis", "backend", "threads", "mwm", "gtta", "conf_file"}
  BY SMTT(20) DEF CoreType
<1> QED BY <1>1, <1>2, <1>3, SMTT(20) DEF WithHosts, OnlyHosts

\* With other ports.
WithPorts(c, x, k) == [c EXCEPT !.ports = x, !.service.port = k]
\* What that says of the other fields.
OnlyPorts(c, d, x, k) ==
    /\ d \in CoreType /\ d.ports = x /\ d.service.port = k /\ d.service.host = c.service.host
    /\ d.hosts = c.hosts /\ d.cache = c.cache /\ d.backend = c.backend /\ d.redis = c.redis /\ d.mwm = c.mwm
\* It does so.
LEMMA SetPorts ==
  ASSUME NEW c \in CoreType, NEW x \in [1..ListLen -> Nat], NEW k \in Nat
  PROVE  OnlyPorts(c, WithPorts(c, x, k), x, k)
<1>1. WithPorts(c, x, k) \in CoreType
  BY Zenon DEF CoreType, WithPorts
<1>2. c.service \in [host : HostName, port : Nat]
  BY Zenon DEF CoreType
<1>3. DOMAIN c = {"hosts", "ports", "service", "cache", "redis", "backend", "threads", "mwm", "gtta", "conf_file"}
  BY SMTT(20) DEF CoreType
<1> QED BY <1>1, <1>2, <1>3, SMTT(20) DEF WithPorts, OnlyPorts

\* With the cache turned on or off.
WithCache(c, x, b) == [c EXCEPT !.cache = x, !.backend = b]
\* What that says of the other fields.
OnlyCache(c, d, x, b) ==
    /\ d \in CoreType /\ d.cache = x /\ d.backend = b
    /\ d.hosts = c.hosts /\ d.ports = c.ports /\ d.service = c.service /\ d.redis = c.redis /\ d.mwm = c.mwm
\* It does so.
LEMMA SetCache ==
  ASSUME NEW c \in CoreType, NEW x \in BOOLEAN, NEW b \in {None, "r0", "r1"}
  PROVE  OnlyCache(c, WithCache(c, x, b), x, b)
<1>1. WithCache(c, x, b) \in CoreType
  BY Zenon DEF CoreType, WithCache
<1>2. c.service \in [host : HostName, port : Nat]
  BY Zenon DEF CoreType
<1>3. DOMAIN c = {"hosts", "ports", "service", "cache", "redis", "backend", "threads", "mwm", "gtta", "conf_file"}
  BY SMTT(20) DEF CoreType
<1> QED BY <1>1, <1>2, <1>3, SMTT(20) DEF WithCache, OnlyCache

\* With another Redis server.
WithRedis(c, x) == [c EXCEPT !.redis = x]
\* What that says of the other fields.
OnlyRedis(c, d, x) ==
    /\ d \in CoreType /\ d.redis = x
    /\ d.hosts = c.hosts /\ d.ports = c.ports /\ d.service = c.service /\ d.cache = c.cache /\ d.backend = c.backend /\ d.mwm = c.mwm
\* It does so.
LEMMA SetRedis ==
  ASSUME NEW c \in CoreType, NEW x \in {"r0", "r1"}
  PROVE  OnlyRedis(c, WithRedis(c, x), x)
<1>1. WithRedis(c, x) \in CoreType
  BY Zenon DEF CoreType, WithRedis
<1>2. c.service \in [host : HostName, port : Nat]
  BY Zenon DEF CoreType
<1>3. DOMAIN c = {"hosts", "ports", "service", "cache", "redis", "backend", "threads", "mwm", "gtta", "conf_file"}
  BY SMTT(20) DEF CoreType
<1> QED BY <1>1, <1>2, <1>3, SMTT(20) DEF WithRedis, OnlyRedis

\* With another weight.
WithMwm(c, x) == [c EXCEPT !.mwm = x]
\* What that says of the other fields.
OnlyMwm(c, d, x) ==
    /\ d \in CoreType /\ d.mwm = x
    /\ d.hosts = c.hosts /\ d.ports = c.ports /\ d.service = c.service /\ d.cache = c.cache /\ d.backend = c.backend /\ d.redis = c.redis
\* It does so.
LEMMA SetMwm ==
  ASSUME NEW c \in CoreType, NEW x \in 0..255
  PROVE  OnlyMwm(c, WithMwm(c, x), x)
<1>1. WithMwm(c, x) \in CoreType
  BY Zenon DEF CoreType, WithMwm
<1>2. c.service \in [host : HostName, port : Nat]
  BY Zenon DEF CoreType
<1>3. DOMAIN c = {"hosts", "ports", "service", "cache", "redis", "backend", "threads", "mwm", "gtta", "conf_file"}
  BY SMTT(20) DEF CoreType
<1> QED BY <1>1, <1>2, <1>3, SMTT(20) DEF WithMwm, OnlyMwm

\* With another number of threads.
WithThreads(c, x) == [c EXCEPT !.threads = x]
\* What that says of the other fields.
OnlyThreads(c, d, x) ==
    /\ d \in CoreType /\ d.threads = x
    /\ d.hosts = c.hosts /\ d.ports = c.ports /\ d.service = c.service /\ d.cache = c.cache /\ d.backend = c.backend /\ d.redis = c.redis /\ d.mwm = c.mwm
\* It does so.
LEMMA SetThreads ==
  ASSUME NEW c \in CoreType, NEW x \in 0..MaxThreads
  PROVE  OnlyThreads(c, WithThreads(c, x), x)
<1>1. WithThreads(c, x) \in CoreType
  BY Zenon DEF CoreType, WithThreads
<1>2. c.service \in [host : HostName, port : Nat]
  BY Zenon DEF CoreType
<1>3. DOMAIN c = {"hosts", "ports", "service", "cache", "redis", "backend", "threads", "mwm", "gtta", "conf_file"}
  BY SMTT(20) DEF CoreType
<1> QED BY <1>1, <1>2, <1>3, SMTT(20) DEF WithThreads, OnlyThreads

\* With or without tip selection.
WithGtta(c, x) == [c EXCEPT !.gtta = x]
\* What that says of the other fields.
OnlyGtta(c, d, x) ==
    /\ d \in CoreType /\ d.gtta = x
    /\ d.hosts = c.hosts /\ d.ports = c.ports /\ d.service = c.service /\ d.cache = c.cache /\ d.backend = c.backend /\ d.redis = c.redis /\ d.mwm = c.mwm
\* It does so.
LEMMA SetGtta ==
  ASSUME NEW c \in CoreType, NEW x \in BOOLEAN
  PROVE  OnlyGtta(c, WithGtta(c, x), x)
<1>1. WithGtta(c, x) \in CoreType
  BY Zenon DEF CoreType, WithGtta
<1>2. c.service \in [host : HostName, port : Nat]
  BY Zenon DEF CoreType
<1>3. DOMAIN c = {"hosts", "ports", "service", "cache", "redis", "backend", "threads", "mwm", "gtta", "conf_file"}
  BY SMTT(20) DEF CoreType
<1> QED BY <1>1, <1>2, <1>3, SMTT(20) DEF WithGtta, OnlyGtta

\* With a configuration file.
WithFile(c, x) == [c EXCEPT !.conf_file = x]
\* What that says of the other fields.
OnlyFile(c, d, x) ==
    /\ d \in CoreType /\ d.conf_file = x
    /\ d.hosts = c.hosts /\ d.ports = c.ports /\ d.service = c.service /\ d.cache = c.cache /\ d.backend = c.backend /\ d.redis = c.redis /\ d.mwm = c.mwm
\* It does so.
LEMMA SetFile ==
  ASSUME NEW c \in CoreType, NEW x \in BOOLEAN
  PROVE  OnlyFile(c, WithFile(c, x), x)
<1>1. WithFile(c, x) \in CoreType
  BY Zenon DEF CoreType, WithFile
<1>2. c.service \in [host : HostName, port : Nat]
  BY Zenon DEF CoreType
<1>3. DOMAIN c = {"hosts", "ports", "service", "cache", "redis", "backend", "threads", "mwm", "gtta", "conf_file"}
  BY SMTT(20) DEF CoreType
<1> QED BY <1>1, <1>2, <1>3, SMTT(20) DEF WithFile, OnlyFile

\* What a setting changes of the fields the invariant is about.
Effect(c, d, s) ==
    /\ s.key # "node_host" => d.hosts = c.hosts
    /\ s.key = "node_host" => \A i \in 1..ListLen : d.hosts[i] = IF i <= Len(s.value) THEN s.value[i] ELSE c.hosts[i]
    /\ s.key # "mwm" => d.mwm = c.mwm
    /\ s.key # "cache" => d.cache = c.cache /\ d.backend = c.backend
    /\ s.key = "cache" => (d.cache <=> ~c.cache) /\ (d.cache => d.backend = d.redis)
    /\ s.key # "redis_host" => d.redis = c.redis

\* A list of hosts.
LEMMA HostsIs ==
  ASSUME NEW c \in CoreType, NEW v \in Seq({"h1", "h2", "h3"}), Len(v) >= 1
  PROVE  LET d == Hosts(c, v)
         IN  /\ d \in CoreType /\ d.service.host = d.hosts[1] /\ d.service.port = c.service.port /\ d.ports = c.ports
             /\ \A i \in 1..ListLen : d.hosts[i] = IF i <= Len(v) THEN v[i] ELSE c.hosts[i]
             /\ d.mwm = c.mwm /\ d.cache = c.cache /\ d.backend = c.backend /\ d.redis = c.redis
<1> DEFINE list == [i \in 1..ListLen |-> HostAt(c, v, i)]
<1>1. c.hosts \in [1..ListLen -> {None, "h1", "h2", "h3"}] /\ ListLen \in Nat /\ 1 \in 1..ListLen
  <2>1. 1 \in 1..ListLen /\ ListLen \in Nat
    BY ConfigAssumption, SMTT(20)
  <2> QED BY <2>1, Zenon DEF CoreType
<1>2. \A i \in 1..ListLen : i <= Len(v) => v[i] \in {"h1", "h2", "h3"}
  <2>1. \A S : v \in Seq(S) => \A i \in 1..ListLen : i <= Len(v) => v[i] \in S
    BY SMTT(20)
  <2> QED BY <2>1, Zenon
<1>3. \A i \in 1..ListLen : HostAt(c, v, i) \in {None, "h1", "h2", "h3"}
  BY <1>1, <1>2, Zenon DEF HostAt
<1>4. list \in [1..ListLen -> {None, "h1", "h2", "h3"}]
  BY <1>3, Zenon
<1>5. list[1] \in HostName
  BY <1>1, <1>4, Zenon DEF HostName
<1>6. \A i \in 1..ListLen : list[i] = IF i <= Len(v) THEN v[i] ELSE c.hosts[i]
  BY Zenon DEF HostAt
<1>7. Hosts(c, v) = WithHosts(c, list, list[1])
  BY Zenon DEF Hosts, WithHosts
<1> HIDE DEF list
<1>8. PICK d : d = Hosts(c, v)
  OBVIOUS
<1>9. OnlyHosts(c, d, list, list[1])
  BY <1>4, <1>5, <1>7, <1>8, SetHosts, Zenon
<1> QED BY <1>6, <1>8, <1>9, Zenon DEF OnlyHosts

\* A list of ports.
LEMMA PortsIs ==
  ASSUME NEW c \in CoreType, NEW v \in Seq(Numerals)
  PROVE  LET d == Ports(c, v)
         IN  /\ d \in CoreType /\ d.service.port = d.ports[1] /\ d.service.host = c.service.host /\ d.hosts = c.hosts
             /\ d.mwm = c.mwm /\ d.cache = c.cache /\ d.backend = c.backend /\ d.redis = c.redis
<1> DEFINE list == [i \in 1..ListLen |-> PortAt(c, v, i)]
<1>1. c.ports \in [1..ListLen -> Nat] /\ ListLen \in Nat /\ 1 \in 1..ListLen
  <2>1. 1 \in 1..ListLen /\ ListLen \in Nat
    BY ConfigAssumption, SMTT(20)
  <2> QED BY <2>1, Zenon DEF CoreType
<1>2. \A i \in 1..ListLen : i <= Len(v) => v[i] \in Numerals
  <2>1. \A S : v \in Seq(S) => \A i \in 1..ListLen : i <= Len(v) => v[i] \in S
    BY SMTT(20)
  <2> QED BY <2>1, Zenon
<1>3. \A i \in 1..ListLen : PortAt(c, v, i) \in Nat
  BY <1>1, <1>2, Zenon DEF PortAt, Numerals
<1>4. list \in [1..ListLen -> Nat]
  BY <1>3, Zenon
<1>5. list[1] \in Nat
  BY <1>1, <1>4, Zenon
<1>6. Ports(c, v) = WithPorts(c, list, list[1])
  BY Zenon DEF Ports, WithPorts
<1> HIDE DEF list
<1>7. PICK d : d = Ports(c, v)
  OBVIOUS
<1>8. OnlyPorts(c, d, list, list[1])
  BY <1>4, <1>5, <1>6, <1>7, SetPorts, Zenon
<1> QED BY <1>7, <1>8, Zenon DEF OnlyPorts

\* The number of threads.
LEMMA ThreadsIs ==
  ASSUME NEW c \in CoreType, NEW v \in Numerals
  PROVE  LET d == Threads(c, v)
         IN  /\ d \in CoreType /\ d.service = c.service /\ d.hosts = c.hosts /\ d.ports = c.ports
             /\ d.mwm = c.mwm /\ d.cache = c.cache /\ d.backend = c.backend /\ d.redis = c.redis
<1>1. PICK x : x = IF v.n > MaxThreads THEN MaxThreads ELSE v.n
  OBVIOUS
<1>2. x \in 0..MaxThreads
  <2>1. v.n \in Nat
    BY Zenon DEF Numerals
  <2> QED BY <1>1, <2>1, ConfigAssumption, SMTT(20)
<1>3. Threads(c, v) = c \/ Threads(c, v) = WithThreads(c, x)
  BY <1>1, Zenon DEF Threads, WithThreads
<1>4. PICK d : d = WithThreads(c, x)
  OBVIOUS
<1>5. OnlyThreads(c, d, x)
  BY <1>2, <1>4, SetThreads, Zenon
<1> QED BY <1>2, <1>3, <1>4, <1>5, Zenon DEF OnlyThreads

\* The weight.
LEMMA MwmIs ==
  ASSUME NEW c \in CoreType, NEW v \in Numerals
  PROVE  LET d == Mwm(c, v)
         IN  /\ d \in CoreType /\ d.service = c.service /\ d.hosts = c.hosts /\ d.ports = c.ports
             /\ d.cache = c.cache /\ d.backend = c.backend /\ d.redis = c.redis
             /\ Stuck(<<v>>) \/ d.mwm = Width8(v.n)
<1>1. PICK x : x = Width8(v.n)
  OBVIOUS
<1>2. x \in 0..255
  <2>1. v.n \in Nat
    BY Zenon DEF Numerals
  <2> QED BY <1>1, <2>1, WidthIs, Zenon
<1>3. (Stuck(<<v>>) /\ Mwm(c, v) = c) \/ Mwm(c, v) = WithMwm(c, x)
  BY <1>1, Zenon DEF Mwm, WithMwm
<1>4. PICK d : d = WithMwm(c, x)
  OBVIOUS
<1>5. OnlyMwm(c, d, x)
  BY <1>2, <1>4, SetMwm, Zenon
<1> QED BY <1>1, <1>3, <1>4, <1>5, Zenon DEF OnlyMwm

\* The cache.
LEMMA CacheIs ==
  ASSUME NEW c \in CoreType
  PROVE  LET d == Cache(c)
         IN  /\ d \in CoreType /\ d.service = c.service /\ d.hosts = c.hosts /\ d.ports = c.ports
             /\ d.mwm = c.mwm /\ d.redis = c.redis /\ (d.cache <=> ~c.cache) /\ (d.cache => d.backend = d.redis)
<1>1. PICK b : b = IF c.cache THEN c.backend ELSE c.redis
  OBVIOUS
<1>2. b \in {None, "r0", "r1"} /\ (~c.cache) \in BOOLEAN
  <2>1. c.backend \in {None, "r0", "r1"} /\ c.redis \in {"r0", "r1"}
    BY Zenon DEF CoreType
  <2> QED BY <1>1, <2>1, Zenon
<1>3. Cache(c) = WithCache(c, ~c.cache, b)
  BY <1>1, SMTT(20) DEF Cache, WithCache
<1>4. PICK d : d = WithCache(c, ~c.cache, b)
  OBVIOUS
<1>5. OnlyCache(c, d, ~c.cache, b)
  BY <1>2, <1>4, SetCache, Zenon
<1> QED BY <1>1, <1>3, <1>4, <1>5, Zenon DEF OnlyCache

\* A setting is applied: the core stays a core, the service stays the first entry,
\* and only the fields of the setting change.
LEMMA ApplyIs ==
  ASSUME core \in CoreType, ServiceRight(core), errno \in BOOLEAN,
         NEW s \in Arguments, s.key \notin {"unknown", "config"}, ~ArgumentMissing(s), Apply(s)
  PROVE  /\ core' \in CoreType /\ ServiceRight(core') /\ errno' \in BOOLEAN
         /\ Effect(core, core', s)
         /\ s.key = "mwm" => Stuck(s.value) \/ core'.mwm = Width8(s.value[1].n)
         /\ errno' => errno \/ (Number(s) /\ Ranged(s.value))
<1>1. PICK d : d = core'
  OBVIOUS
<1>2. d = cli_core_set(core, s) /\ errno' \in BOOLEAN /\ (errno' => errno \/ (Number(s) /\ Ranged(s.value)))
  BY <1>1, Zenon DEF Apply
<1>3. CASE s.key = "node_host"
  <2>1. s.value \in Seq({"h1", "h2", "h3"}) /\ Len(s.value) >= 1 /\ d = Hosts(core, s.value)
    BY <1>2, <1>3, SettingIs, SetIs, Zenon
  <2>2. /\ d \in CoreType /\ d.service.host = d.hosts[1] /\ d.service.port = core.service.port /\ d.ports = core.ports
        /\ \A i \in 1..ListLen : d.hosts[i] = IF i <= Len(s.value) THEN s.value[i] ELSE core.hosts[i]
        /\ d.mwm = core.mwm /\ d.cache = core.cache /\ d.backend = core.backend /\ d.redis = core.redis
    BY <2>1, HostsIs, Zenon
  <2>3. ServiceRight(d) /\ Effect(core, d, s)
    BY <1>3, <2>2, Zenon DEF ServiceRight, Effect
  <2> QED BY <1>1, <1>2, <1>3, <2>2, <2>3, Zenon
<1>4. CASE s.key = "node_port"
  <2>1. s.value \in Seq(Numerals) /\ d = Ports(core, s.value)
    BY <1>2, <1>4, SettingIs, SetIs, Zenon
  <2>2. /\ d \in CoreType /\ d.service.port = d.ports[1] /\ d.service.host = core.service.host /\ d.hosts = core.hosts
        /\ d.mwm = core.mwm /\ d.cache = core.cache /\ d.backend = core.backend /\ d.redis = core.redis
    BY <2>1, PortsIs, Zenon
  <2>3. ServiceRight(d) /\ Effect(core, d, s)
    BY <1>4, <2>2, Zenon DEF ServiceRight, Effect
  <2> QED BY <1>1, <1>2, <1>4, <2>2, <2>3, Zenon
<1>5. CASE s.key = "cache"
  <2>1. d = Cache(core)
    BY <1>2, <1>5, SetIs, Zenon
  <2>2. /\ d \in CoreType /\ d.service = core.service /\ d.hosts = core.hosts /\ d.ports = core.ports
        /\ d.mwm = core.mwm /\ d.redis = core.redis /\ (d.cache <=> ~core.cache) /\ (d.cache => d.backend = d.redis)
    BY <2>1, CacheIs, Zenon
  <2>3. ServiceRight(d) /\ Effect(core, d, s)
    BY <1>5, <2>2, Zenon DEF ServiceRight, Effect
  <2> QED BY <1>1, <1>2, <1>5, <2>2, <2>3, Zenon
<1>6. CASE s.key = "redis_host"
  <2>1. s.value[1] = "r1" /\ d = [core EXCEPT !.redis = s.value[1]]
    BY <1>2, <1>6, SettingIs, SetIs, Zenon
  <2>2. d = WithRedis(core, "r1")
    BY <2>1, Zenon DEF WithRedis
  <2>3. OnlyRedis(core, d, "r1")
    BY <2>2, SetRedis, Zenon
  <2>4. d \in CoreType /\ ServiceRight(d) /\ Effect(core, d, s)
    BY <1>6, <2>3, Zenon DEF ServiceRight, Effect, OnlyRedis
  <2> QED BY <1>1, <1>2, <1>6, <2>4, Zenon
<1>7. CASE s.key = "http_threads"
  <2>1. s.value \in Seq(Numerals) /\ Len(s.value) = 1 /\ d = Threads(core, s.value[1])
    BY <1>2, <1>7, SettingIs, SetIs, Zenon
  <2>2. s.value[1] \in Numerals
    BY <2>1, SMTT(20)
  <2>3. /\ d \in CoreType /\ d.service = core.service /\ d.hosts = core.hosts /\ d.ports = core.ports
        /\ d.mwm = core.mwm /\ d.cache = core.cache /\ d.backend = core.backend /\ d.redis = core.redis
    BY <2>1, <2>2, ThreadsIs, Zenon
  <2>4. ServiceRight(d) /\ Effect(core, d, s)
    BY <1>7, <2>3, Zenon DEF ServiceRight, Effect
  <2> QED BY <1>1, <1>2, <1>7, <2>3, <2>4, Zenon
<1>8. CASE s.key = "mwm"
  <2>1. s.value \in Seq(Numerals) /\ Len(s.value) = 1 /\ d = Mwm(core, s.value[1])
    BY <1>2, <1>8, SettingIs, SetIs, Zenon
  <2>2. s.value[1] \in Numerals /\ s.value = <<s.value[1]>>
    BY <2>1, SMTT(20)
  <2>3. /\ d \in CoreType /\ d.service = core.service /\ d.hosts = core.hosts /\ d.ports = core.ports
        /\ d.cache = core.cache /\ d.backend = core.backend /\ d.redis = core.redis
        /\ Stuck(<<s.value[1]>>) \/ d.mwm = Width8(s.value[1].n)
    BY <2>1, <2>2, MwmIs, Zenon
  <2>4. ServiceRight(d) /\ Effect(core, d, s)
    BY <1>8, <2>3, Zenon DEF ServiceRight, Effect
  <2>5. Stuck(s.value) \/ d.mwm = Width8(s.value[1].n)
    BY <2>2, <2>3, Zenon
  <2> QED BY <1>1, <1>2, <1>8, <2>3, <2>4, <2>5, Zenon
<1>9. CASE s.key = "no_gtta"
  <2>1. d = WithGtta(core, TRUE)
    BY <1>2, <1>9, SetIs, Zenon DEF WithGtta
  <2>2. OnlyGtta(core, d, TRUE)
    BY <2>1, SetGtta, Zenon
  <2>3. d \in CoreType /\ ServiceRight(d) /\ Effect(core, d, s)
    BY <1>9, <2>2, Zenon DEF ServiceRight, Effect, OnlyGtta
  <2> QED BY <1>1, <1>2, <1>9, <2>3, Zenon
<1>10. s.key \in {"node_host", "node_port", "cache", "redis_host", "http_threads", "mwm", "no_gtta"}
  BY SettingIs, Zenon
<1> QED BY <1>3, <1>4, <1>5, <1>6, <1>7, <1>8, <1>9, <1>10, Zenon

\* The first n + 1 settings are the first n and the next one.
LEMMA NextSetting ==
  ASSUME NEW n \in Nat, NEW g
  PROVE  /\ 1..(n + 1) = (1..n) \cup {n + 1} /\ n + 1 \notin 1..n /\ \A p \in 1..n : p < n + 1 /\ p \in Nat
         /\ \A k : Before(g, n + 1, k) = Before(g, n, k) \cup (IF g[n + 1].key = k THEN {n + 1} ELSE {})
         /\ OutOfRangeIn(g, n + 1) <=> OutOfRangeIn(g, n) \/ (Number(g[n + 1]) /\ Ranged(g[n + 1].value))
<1>1. 1..(n + 1) = (1..n) \cup {n + 1} /\ n + 1 \notin 1..n /\ \A p \in 1..n : p < n + 1 /\ p \in Nat
  BY SMTT(20)
<1>2. \A k : Before(g, n + 1, k) = Before(g, n, k) \cup (IF g[n + 1].key = k THEN {n + 1} ELSE {})
  BY <1>1, Zenon DEF Before
<1>3. OutOfRangeIn(g, n + 1) <=> OutOfRangeIn(g, n) \/ (Number(g[n + 1]) /\ Ranged(g[n + 1].value))
  BY <1>1, Zenon DEF OutOfRangeIn
<1> QED BY <1>1, <1>2, <1>3, Zenon

\* The next setting leaves the core right: for the hosts,
LEMMA HostsStay ==
  ASSUME NEW n \in Nat, NEW g, NEW c \in CoreType, NEW d, g[n + 1].key = "node_host" => Len(g[n + 1].value) \in Nat,
         HostsRight(c, g, n), Effect(c, d, g[n + 1])
  PROVE  HostsRight(d, g, n + 1)
<1> SUFFICES ASSUME NEW i \in 1..ListLen
             PROVE  \/ Reach(g, n + 1, i) = {} /\ d.hosts[i] = None
                    \/ \E p \in Reach(g, n + 1, i) :
                          (\A q \in Reach(g, n + 1, i) : q <= p) /\ d.hosts[i] = g[p].value[i]
  BY Zenon DEF HostsRight
<1>1. CASE g[n + 1].key = "node_host" /\ Len(g[n + 1].value) >= i
  <2>1. d.hosts[i] = g[n + 1].value[i]
    <3>1. i <= Len(g[n + 1].value)
      BY <1>1, SMTT(20)
    <3> QED BY <1>1, <3>1, Zenon DEF Effect
  <2>2. n + 1 \in Reach(g, n + 1, i)
    <3>1. n + 1 \in 1..(n + 1)
      BY SMTT(20)
    <3> QED BY <1>1, <3>1, Zenon DEF Reach, Before
  <2>3. \A q \in Reach(g, n + 1, i) : q <= n + 1
    BY SMTT(20) DEF Reach, Before
  <2> QED BY <2>1, <2>2, <2>3, Zenon
<1>2. CASE ~(g[n + 1].key = "node_host" /\ Len(g[n + 1].value) >= i)
  <2>1. d.hosts[i] = c.hosts[i]
    <3>1. g[n + 1].key = "node_host" => ~(i <= Len(g[n + 1].value))
      BY <1>2, SMTT(20)
    <3> QED BY <3>1, Zenon DEF Effect
  <2>2. Reach(g, n + 1, i) = Reach(g, n, i)
    <3>1. 1..(n + 1) = (1..n) \cup {n + 1}
      BY SMTT(20)
    <3> QED BY <1>2, <3>1, Zenon DEF Reach, Before
  <2>3. \/ Reach(g, n, i) = {} /\ c.hosts[i] = None
        \/ \E p \in Reach(g, n, i) : (\A q \in Reach(g, n, i) : q <= p) /\ c.hosts[i] = g[p].value[i]
    BY Zenon DEF HostsRight
  <2> QED BY <2>1, <2>2, <2>3, Zenon
<1> QED BY <1>1, <1>2, Zenon

\* for the weight,
LEMMA MwmStays ==
  ASSUME NEW n \in Nat, NEW g, NEW c \in CoreType, NEW d, NEW e,
         MwmRight(c, g, n), ErrnoRight(e, g, n), Effect(c, d, g[n + 1]),
         g[n + 1].key = "mwm" => e \/ Ranged(g[n + 1].value) \/ d.mwm = Width8(g[n + 1].value[1].n)
  PROVE  MwmRight(d, g, n + 1)
<1> SUFFICES ASSUME NEW p \in Before(g, n + 1, "mwm")
             PROVE  \/ \E later \in Before(g, n + 1, "mwm") : later > p
                    \/ OutOfRangeIn(g, p)
                    \/ d.mwm = Width8(g[p].value[1].n)
  BY Zenon DEF MwmRight
<1>1. 1..(n + 1) = (1..n) \cup {n + 1} /\ \A q \in 1..n : n + 1 > q
  BY SMTT(20)
<1>2. CASE p = n + 1
  <2>1. g[n + 1].key = "mwm"
    BY <1>2, Zenon DEF Before
  <2>2. Number(g[n + 1])
    BY <2>1, Zenon DEF Number
  <2>3. e \/ Ranged(g[n + 1].value) => OutOfRangeIn(g, n + 1)
    BY <2>2, NextSetting, Zenon DEF ErrnoRight
  <2> QED BY <1>2, <2>1, <2>3, Zenon
<1>3. CASE p \in 1..n /\ g[n + 1].key = "mwm"
  <2>1. n + 1 \in Before(g, n + 1, "mwm")
    BY <1>1, <1>3, Zenon DEF Before
  <2> QED BY <1>1, <1>3, <2>1, Zenon
<1>4. CASE p \in 1..n /\ g[n + 1].key # "mwm"
  <2>1. p \in Before(g, n, "mwm") /\ Before(g, n, "mwm") \subseteq Before(g, n + 1, "mwm")
    BY <1>1, <1>4, Zenon DEF Before
  <2>2. d.mwm = c.mwm
    BY <1>4, Zenon DEF Effect
  <2> QED BY <2>1, <2>2, Zenon DEF MwmRight
<1> QED BY <1>1, <1>2, <1>3, <1>4, Zenon DEF Before

\* for the cache,
LEMMA CacheStays ==
  ASSUME NEW n \in Nat, NEW g, NEW c \in CoreType, NEW d \in CoreType,
         CacheRight(c, g, n), Effect(c, d, g[n + 1])
  PROVE  CacheRight(d, g, n + 1)
<1> SUFFICES ASSUME d.cache
             PROVE  /\ Before(g, n + 1, "cache") # {}
                    /\ \/ d.backend = d.redis
                       \/ \E p \in Before(g, n + 1, "redis_host"), q \in Before(g, n + 1, "cache") : p > q
  BY Zenon DEF CacheRight
<1>1. 1..(n + 1) = (1..n) \cup {n + 1} /\ \A q \in 1..n : n + 1 > q
  BY SMTT(20)
<1>2. \A k : Before(g, n, k) \subseteq Before(g, n + 1, k) /\ (g[n + 1].key = k => n + 1 \in Before(g, n + 1, k))
  BY <1>1, Zenon DEF Before
<1>3. CASE g[n + 1].key = "cache"
  BY <1>2, <1>3, Zenon DEF Effect
<1>4. CASE g[n + 1].key = "redis_host"
  <2>1. c.cache
    BY <1>4, Zenon DEF Effect
  <2>2. PICK q \in Before(g, n, "cache") : TRUE
    BY <2>1, Zenon DEF CacheRight
  <2>3. n + 1 > q
    BY <1>1, Zenon DEF Before
  <2> QED BY <1>2, <1>4, <2>2, <2>3, Zenon
<1>5. CASE g[n + 1].key \notin {"cache", "redis_host"}
  <2>1. c.cache /\ d.backend = c.backend /\ d.redis = c.redis
    BY <1>5, Zenon DEF Effect
  <2> QED BY <1>2, <2>1, Zenon DEF CacheRight
<1> QED BY <1>3, <1>4, <1>5, Zenon

\* and for all of them.
LEMMA CoreStaysRight ==
  ASSUME NEW n \in Nat, NEW g, g[n + 1] \in Arguments, NEW c \in CoreType, NEW d \in CoreType, NEW e, NEW f,
         CoreRight(c, e, g, n), Effect(c, d, g[n + 1]),
         g[n + 1].key = "mwm" => e \/ Ranged(g[n + 1].value) \/ d.mwm = Width8(g[n + 1].value[1].n),
         f => e \/ (Number(g[n + 1]) /\ Ranged(g[n + 1].value))
  PROVE  CoreRight(d, f, g, n + 1)
<1>1. g[n + 1].key = "node_host" => Len(g[n + 1].value) \in Nat
  <2>1. \A S : \A v \in Seq(S) : Len(v) \in Nat
    OBVIOUS
  <2> QED BY <2>1, SettingIs, Zenon
<1>2. HostsRight(d, g, n + 1)
  BY <1>1, HostsStay, Zenon DEF CoreRight
<1>3. MwmRight(d, g, n + 1)
  BY MwmStays, Zenon DEF CoreRight
<1>4. CacheRight(d, g, n + 1)
  BY CacheStays, Zenon DEF CoreRight
<1>5. ErrnoRight(f, g, n + 1)
  BY NextSetting, Zenon DEF CoreRight, ErrnoRight
<1> QED BY <1>2, <1>3, <1>4, <1>5, Zenon DEF CoreRight

-----------------------------------------------------------------------------

\* How many settings of the file count.
Base == IF read THEN Len(file) ELSE 0

\* Nothing was set yet.
Blank(c, e) == (\A i \in 1..ListLen : c.hosts[i] = None) /\ ~e /\ ~c.cache

\* An unknown option stands before position p.
UnknownBefore(p) == \E u \in DOMAIN argv : u < p /\ argv[u].key = "unknown"

\* Types of the variables.
ConfigTypes ==
    /\ argv \in Seq(Arguments) /\ file \in Seq(Settings) /\ core \in CoreType /\ errno \in BOOLEAN /\ read \in BOOLEAN
    /\ step.at \in {"default", "find", "lines", "args", "started", "exit"} /\ step.i \in Nat \ {0}
    /\ step = [at |-> step.at, i |-> step.i, ret |-> step.ret]

\* What has been applied when main() is at a step.
Applied ==
    /\ step.at \in {"default", "find"} => Blank(core, errno) /\ ~read
    /\ step.at = "lines" => read /\ step.i <= Len(file) + 1 /\ CoreRight(core, errno, Given, step.i - 1)
    /\ step.at = "args" => step.i <= Len(argv) + 1 /\ CoreRight(core, errno, Given, Base + step.i - 1)
    /\ step.at = "started" => CoreRight(core, errno, Given, Base + Len(argv))

\* When --config has been missed.
Missed ==
    /\ step.at = "find" =>
         /\ step.i <= Len(argv) + 1 /\ (step.ret # "OK" => UnknownBefore(step.i))
         /\ \A p \in DOMAIN argv : argv[p].key = "config" /\ p < step.i => core.conf_file \/ UnknownBefore(p)
    /\ step.at \in {"args", "started"} /\ ~read => \A p \in DOMAIN argv : argv[p].key = "config" => UnknownBefore(p)

\* The inductive invariant of the configuration.
ConfigInv == ConfigTypes /\ ServiceRight(core) /\ Applied /\ Missed

\* The largest number of a set.
LEMMA MaxIs ==
  ASSUME NEW S \in SUBSET Nat, NEW p \in S, \A q \in S : q <= p
  PROVE  Max(S) = p
<1>1. \E x \in S : \A y \in S : x >= y
  BY SMTT(20)
<1>2. Max(S) \in S /\ \A y \in S : Max(S) >= y
  BY <1>1, Zenon DEF Max
<1>3. \A x, y \in Nat : x <= y /\ x >= y => x = y
  BY SMTT(20)
<1> QED BY <1>2, <1>3, Zenon

\* Two lists in a row.
LEMMA Concat ==
  ASSUME NEW S, NEW a \in Seq(S), NEW b \in Seq(S)
  PROVE  /\ a \o b \in Seq(S) /\ Len(a \o b) = Len(a) + Len(b) /\ Len(a) \in Nat /\ Len(b) \in Nat
         /\ DOMAIN (a \o b) = 1..(Len(a) + Len(b)) /\ DOMAIN b = 1..Len(b)
OBVIOUS

\* The elements of the first one,
LEMMA ConcatFirst ==
  ASSUME NEW S, NEW a \in Seq(S), NEW b \in Seq(S), NEW p \in 1..Len(a)
  PROVE  (a \o b)[p] = a[p]
OBVIOUS

\* and of the second one.
LEMMA ConcatSecond ==
  ASSUME NEW S, NEW a \in Seq(S), NEW b \in Seq(S), NEW p \in 1..Len(b)
  PROVE  (a \o b)[Len(a) + p] = b[p]
OBVIOUS

\* What the settings in effect are.
LEMMA GivenIs ==
  ASSUME ConfigTypes
  PROVE  /\ Given \in Seq(Arguments) /\ Len(Given) = Base + Len(argv) /\ Base \in Nat /\ Len(argv) \in Nat
         /\ DOMAIN Given = 1..(Base + Len(argv)) /\ DOMAIN argv = 1..Len(argv)
         /\ read => \A p \in 1..Len(file) : Given[p] = file[p]
         /\ \A p \in 1..Len(argv) : Given[Base + p] = argv[p]
         /\ Len(file) \in Nat
<1>1. argv \in Seq(Arguments) /\ file \in Seq(Settings) /\ read \in BOOLEAN
  BY Zenon DEF ConfigTypes
<1>2. file \in Seq(Arguments)
  <2>1. Settings \subseteq Arguments
    BY Zenon DEF Arguments
  <2>2. \A S, T : S \subseteq T => \A s \in Seq(S) : s \in Seq(T)
    OBVIOUS
  <2> QED BY <1>1, <2>1, <2>2, Zenon
<1>3. PICK f \in Seq(Arguments) : f = IF read THEN file ELSE <<>>
  <2>1. \A S : <<>> \in Seq(S)
    OBVIOUS
  <2> QED BY <1>1, <1>2, <2>1, Zenon
<1>4. Len(f) = Base /\ (read => f = file)
  <2>1. Len(<<>>) = 0
    OBVIOUS
  <2>2. CASE read
    BY <1>3, <2>2, Zenon DEF Base
  <2>3. CASE ~read
    <3>1. f = <<>> /\ Base = 0
      BY <1>3, <2>3, Zenon DEF Base
    <3> QED BY <2>1, <2>3, <3>1, Zenon
  <2> QED BY <2>2, <2>3, Zenon
<1>5. Given = f \o argv
  BY <1>3, Zenon DEF Given
<1>7. /\ Given \in Seq(Arguments) /\ Len(Given) = Base + Len(argv) /\ Base \in Nat /\ Len(argv) \in Nat
      /\ DOMAIN Given = 1..(Base + Len(argv)) /\ DOMAIN argv = 1..Len(argv)
      /\ \A p \in 1..Len(f) : Given[p] = f[p]
      /\ \A p \in 1..Len(argv) : Given[Base + p] = argv[p]
  <2>1. /\ f \o argv \in Seq(Arguments) /\ Len(f \o argv) = Len(f) + Len(argv) /\ Len(f) \in Nat /\ Len(argv) \in Nat
        /\ DOMAIN (f \o argv) = 1..(Len(f) + Len(argv)) /\ DOMAIN argv = 1..Len(argv)
    BY <1>1, Concat, Zenon
  <2>2. \A p \in 1..Len(f) : (f \o argv)[p] = f[p]
    BY <1>1, ConcatFirst, Zenon
  <2>3. \A p \in 1..Len(argv) : (f \o argv)[Len(f) + p] = argv[p]
    BY <1>1, ConcatSecond, Zenon
  <2> QED BY <1>4, <1>5, <2>1, <2>2, <2>3, Zenon
<1>8. Len(file) \in Nat
  BY <1>2, SMTT(20)
<1> QED BY <1>4, <1>7, <1>8, Zenon

\* With no setting applied the core is right.
LEMMA BlankIsRight ==
  ASSUME NEW c, NEW e, NEW g, Blank(c, e)
  PROVE  CoreRight(c, e, g, 0)
<1>1. 1..0 = {}
  BY SMTT(20)
<1>2. \A k : Before(g, 0, k) = {}
  BY <1>1, Zenon DEF Before
<1>3. \A i : Reach(g, 0, i) = {}
  BY <1>2, Zenon DEF Reach
<1> QED BY <1>2, <1>3, Zenon DEF CoreRight, HostsRight, ErrnoRight, MwmRight, CacheRight, Blank

\* The defaults.
LEMMA DefaultIs == Default \in CoreType /\ ServiceRight(Default) /\ Blank(Default, FALSE)
<1>1. 1 \in 1..ListLen /\ 2 \in 0..MaxThreads /\ 9 \in 0..255 /\ 1 \in Nat
  BY ConfigAssumption, SMTT(20)
<1>2. [i \in 1..ListLen |-> None] \in [1..ListLen -> {None, "h1", "h2", "h3"}] /\ [i \in 1..ListLen |-> 1] \in [1..ListLen -> Nat]
  BY <1>1, Zenon
<1>3. [host |-> "h0", port |-> 1] \in [host : HostName, port : Nat]
  BY <1>1, Zenon DEF HostName
<1>4. Default \in CoreType
  BY <1>1, <1>2, <1>3, Zenon DEF Default, CoreType
<1>5. ServiceRight(Default) /\ Blank(Default, FALSE)
  BY <1>1, SMTT(20) DEF Default, ServiceRight, Blank
<1> QED BY <1>4, <1>5, Zenon

\* Short lists are lists.
LEMMA BoundedIs ==
  ASSUME NEW S, NEW n \in Nat, NEW s, s \in UNION {[1..m -> S] : m \in 0..n}
  PROVE  s \in Seq(S)
<1>1. PICK m \in 0..n : s \in [1..m -> S]
  BY Zenon
<1>2. m \in Nat
  BY SMTT(20)
<1> QED BY <1>1, <1>2, SMTT(20)

\* The invariant holds when the process starts.
LEMMA ConfigInvInit == ConfigInit => ConfigInv
<1> SUFFICES ASSUME ConfigInit PROVE ConfigInv
  OBVIOUS
<1>1. argv \in Seq(Arguments) /\ file \in Seq(Settings)
  BY BoundedIs, ConfigAssumption, Zenon DEF ConfigInit
<1>2. step = [at |-> "default", i |-> 1, ret |-> "OK"] /\ core = Default /\ errno = FALSE /\ read = FALSE
  BY Zenon DEF ConfigInit
<1>3. step.at = "default" /\ step.i = 1 /\ step.ret = "OK" /\ 1 \in Nat \ {0}
  BY <1>2, SMTT(20)
<1>4. ConfigTypes
  BY <1>1, <1>2, <1>3, DefaultIs, Zenon DEF ConfigTypes
<1>5. Applied /\ Missed
  BY <1>2, <1>3, DefaultIs, Zenon DEF Applied, Missed
<1> QED BY <1>2, <1>4, <1>5, DefaultIs, Zenon DEF ConfigInv

\* The invariant says what was promised.
LEMMA ConfigInvSays == ConfigInv => ConfigAsGiven
<1> SUFFICES ASSUME ConfigInv PROVE ConfigAsGiven
  OBVIOUS
<1>1. ConfigTypes /\ ServiceRight(core) /\ Applied /\ Missed
  BY Zenon DEF ConfigInv
<1>2. ServiceIsFirst
  BY <1>1, Zenon DEF ServiceRight, ServiceIsFirst
<1> DEFINE n == Base + Len(argv)
<1>3. n \in Nat /\ DOMAIN Given = 1..n
  <2>1. Base \in Nat /\ Len(argv) \in Nat /\ DOMAIN Given = 1..n
    BY <1>1, GivenIs, Zenon
  <2> QED BY <2>1, SMTT(20)
<1>4. \A k : Positions(k) = Before(Given, n, k)
  BY <1>3, Zenon DEF Positions, Before
<1>5. Started => CoreRight(core, errno, Given, n)
  BY <1>1, Zenon DEF Started, Applied
<1> HIDE DEF n
<1>6. TailOfLongerList
  <2> SUFFICES ASSUME Started, NEW i \in 1..ListLen
               PROVE  core.hosts[i] = IF Reach(Given, n, i) = {} THEN None ELSE Given[Max(Reach(Given, n, i))].value[i]
    BY <1>4, Zenon DEF TailOfLongerList, Reach
  <2>1. \/ Reach(Given, n, i) = {} /\ core.hosts[i] = None
        \/ \E p \in Reach(Given, n, i) : (\A q \in Reach(Given, n, i) : q <= p) /\ core.hosts[i] = Given[p].value[i]
    BY <1>5, Zenon DEF CoreRight, HostsRight
  <2>2. Reach(Given, n, i) \in SUBSET Nat
    <3>1. 1..n \subseteq Nat
      BY <1>3, SMTT(20)
    <3> QED BY <3>1, Zenon DEF Reach, Before
  <2> QED BY <2>1, <2>2, MaxIs, Zenon
<1>7. LastNumberCounts
  BY <1>4, <1>5, Zenon DEF LastNumberCounts, CoreRight, MwmRight, OutOfRangeIn
<1>8. CacheIsConfigured
  BY <1>4, <1>5, Zenon DEF CacheIsConfigured, CoreRight, CacheRight
<1>9. FileIsRead
  BY <1>1, Zenon DEF FileIsRead, Missed, UnknownBefore, Started
<1> QED BY <1>2, <1>6, <1>7, <1>8, <1>9, Zenon DEF ConfigAsGiven

\* The fields of a step.
StepAt(x, a, k, r) == x.at = a /\ x.i = k /\ x.ret = r /\ x = [at |-> x.at, i |-> x.i, ret |-> x.ret]

\* Those of a new one,
LEMMA StepNew ==
  ASSUME NEW a, NEW r
  PROVE  StepAt([at |-> a, i |-> 1, ret |-> r], a, 1, r)
BY SMTT(20) DEF StepAt

\* of one that goes on,
LEMMA StepOn ==
  ASSUME NEW a, NEW k, NEW r, NEW j
  PROVE  StepAt([[at |-> a, i |-> k, ret |-> r] EXCEPT !.i = j], a, j, r)
BY SMTT(20) DEF StepAt

\* of one that goes on with another status,
LEMMA StepOnWith ==
  ASSUME NEW a, NEW k, NEW r, NEW j, NEW q
  PROVE  StepAt([[at |-> a, i |-> k, ret |-> r] EXCEPT !.i = j, !.ret = q], a, j, q)
<1>1. PICK x : x = [[at |-> a, i |-> k, ret |-> r] EXCEPT !.i = j]
  BY Zenon
<1>2. [[at |-> a, i |-> k, ret |-> r] EXCEPT !.i = j, !.ret = q] = [x EXCEPT !.ret = q]
  BY <1>1
<1>3. x.at = a /\ x.i = j /\ x = [at |-> x.at, i |-> x.i, ret |-> x.ret]
  BY <1>1, StepOn, Zenon DEF StepAt
<1>4. x = [at |-> a, i |-> j, ret |-> x.ret]
  BY <1>3, Zenon
<1>5. StepAt([x EXCEPT !.ret = q], a, j, q)
  BY <1>4, SMTT(20) DEF StepAt
<1> QED BY <1>2, <1>5, Zenon

\* and of one that ends.
LEMMA StepTo ==
  ASSUME NEW a, NEW k, NEW r, NEW b
  PROVE  StepAt([[at |-> a, i |-> k, ret |-> r] EXCEPT !.at = b], b, k, r)
BY SMTT(20) DEF StepAt

\* The same for the step main() is at.
LEMMA StepIs ==
  ASSUME step = [at |-> step.at, i |-> step.i, ret |-> step.ret]
  PROVE  /\ \A k : StepAt([step EXCEPT !.i = k], step.at, k, step.ret)
         /\ \A k, r : StepAt([step EXCEPT !.i = k, !.ret = r], step.at, k, r)
         /\ \A a : StepAt([step EXCEPT !.at = a], a, step.i, step.ret)
BY StepOn, StepOnWith, StepTo, Zenon

\* A step to the end.
LEMMA ExitKeeps ==
  ASSUME ConfigInv, step'.at = "exit", step'.i \in Nat \ {0}, step' = [at |-> step'.at, i |-> step'.i, ret |-> step'.ret],
         UNCHANGED <<argv, file, core>>, errno' \in BOOLEAN, read' \in BOOLEAN
  PROVE  ConfigInv'
BY Zenon DEF ConfigInv, ConfigTypes, Applied, Missed

\* The steps before the file is read.
LEMMA DefaultKeeps ==
  ASSUME ConfigInv, ta_core_default_init
  PROVE  ConfigInv'
<1>1. ConfigTypes /\ ServiceRight(core) /\ Applied /\ Missed
  BY Zenon DEF ConfigInv
<1>2. step.at = "default" /\ step' = [at |-> "find", i |-> 1, ret |-> "OK"] /\ core' = Default /\ UNCHANGED <<argv, file, errno, read>>
  BY Zenon DEF ta_core_default_init, Go, Same
<1>3. step'.at = "find" /\ step'.i = 1 /\ step'.ret = "OK" /\ step' = [at |-> step'.at, i |-> step'.i, ret |-> step'.ret]
  BY <1>2, SMTT(20)
<1>4. 1 \in Nat \ {0} /\ 1 <= Len(argv) + 1 /\ \A p \in DOMAIN argv : ~(p < 1)
  <2>1. Len(argv) \in Nat /\ DOMAIN argv = 1..Len(argv)
    BY <1>1, GivenIs, Zenon
  <2> QED BY <2>1, SMTT(20)
<1>5. ~errno /\ ~read' /\ Blank(core', errno')
  BY <1>1, <1>2, DefaultIs, Zenon DEF Applied, Blank
<1>6. ConfigTypes'
  BY <1>1, <1>2, <1>3, <1>4, DefaultIs, Zenon DEF ConfigTypes
<1>7. Applied' /\ Missed'
  BY <1>2, <1>3, <1>4, <1>5, Zenon DEF Applied, Missed
<1> QED BY <1>2, <1>6, <1>7, DefaultIs, Zenon DEF ConfigInv

\* An option is looked at for the name of the file.
LEMMA FindKeeps ==
  ASSUME ConfigInv, FindFile
  PROVE  ConfigInv'
<1>1. ConfigTypes /\ ServiceRight(core) /\ Applied /\ Missed
  BY Zenon DEF ConfigInv
<1>2. PICK k : k = step.i
  OBVIOUS
<1>3. PICK s : s = argv[k]
  OBVIOUS
<1>4. /\ step.at = "find" /\ k <= Len(argv) /\ UNCHANGED <<argv, file, errno, read>>
      /\ \/ s.key = "unknown" /\ step' = [step EXCEPT !.i = k + 1, !.ret = "UNKNOWN_OPTION"] /\ core' = core
         \/ s.key = "config" /\ step' = [step EXCEPT !.i = k + 1, !.ret = "OK"] /\ core' = cli_core_set(core, s)
         \/ /\ s.key \notin {"unknown", "config"} /\ core' = core
            /\ step' = IF step.ret = "OK" THEN [step EXCEPT !.i = k + 1] ELSE [step EXCEPT !.i = Len(argv) + 1]
  BY <1>2, <1>3, Zenon DEF FindFile, Same
<1>5. /\ step'.at = "find" /\ step' = [at |-> step'.at, i |-> step'.i, ret |-> step'.ret]
      /\ \/ s.key = "unknown" /\ step'.i = k + 1
         \/ s.key = "config" /\ step'.i = k + 1 /\ step'.ret = "OK"
         \/ s.key \notin {"unknown", "config"} /\ step.ret = "OK" /\ step'.i = k + 1 /\ step'.ret = "OK"
         \/ s.key \notin {"unknown", "config"} /\ step.ret # "OK" /\ step'.i = Len(argv) + 1
  <2>1. step = [at |-> step.at, i |-> step.i, ret |-> step.ret]
    BY <1>1, Zenon DEF ConfigTypes
  <2>2. \/ s.key = "unknown" /\ StepAt(step', step.at, k + 1, "UNKNOWN_OPTION")
        \/ s.key = "config" /\ StepAt(step', step.at, k + 1, "OK")
        \/ s.key \notin {"unknown", "config"} /\ step.ret = "OK" /\ StepAt(step', step.at, k + 1, step.ret)
        \/ s.key \notin {"unknown", "config"} /\ step.ret # "OK" /\ StepAt(step', step.at, Len(argv) + 1, step.ret)
    <3>1. \A j : StepAt([step EXCEPT !.i = j], step.at, j, step.ret)
      BY <2>1, StepIs, Zenon
    <3>2. \A j, r : StepAt([step EXCEPT !.i = j, !.ret = r], step.at, j, r)
      BY <2>1, StepIs, Zenon
    <3>3. CASE s.key = "unknown"
      <4>1. step' = [step EXCEPT !.i = k + 1, !.ret = "UNKNOWN_OPTION"]
        BY <1>4, <3>3, Zenon
      <4> QED BY <3>2, <3>3, <4>1, Zenon
    <3>4. CASE s.key = "config"
      <4>1. step' = [step EXCEPT !.i = k + 1, !.ret = "OK"]
        BY <1>4, <3>4, Zenon
      <4> QED BY <3>2, <3>4, <4>1, Zenon
    <3>5. CASE s.key \notin {"unknown", "config"}
      BY <1>4, <3>1, <3>5, Zenon
    <3> QED BY <3>3, <3>4, <3>5, Zenon
  <2> QED BY <1>4, <2>2, Zenon DEF StepAt
<1>6. Len(argv) \in Nat /\ DOMAIN argv = 1..Len(argv) /\ k \in Nat \ {0}
  BY <1>1, <1>2, GivenIs, Zenon DEF ConfigTypes
<1>7. /\ step'.i \in Nat \ {0} /\ step'.i <= Len(argv) + 1 /\ k \in DOMAIN argv /\ k < step'.i
      /\ \A p \in DOMAIN argv : p < k + 1 <=> p < k \/ p = k
      /\ \A p, u \in DOMAIN argv : u < k /\ ~(p < k) => u < p
      /\ \A p, u \in DOMAIN argv : u < k => u < step'.i
  BY <1>4, <1>5, <1>6, SMTT(20)
<1>8. core' \in CoreType /\ ServiceRight(core') /\ Blank(core', errno') /\ (s.key = "config" => core'.conf_file)
      /\ (core.conf_file => core'.conf_file)
  <2>1. core \in CoreType /\ Blank(core, errno)
    BY <1>1, <1>4, Zenon DEF ConfigTypes, Applied
  <2>2. CASE core' = core /\ s.key # "config"
    BY <1>1, <1>4, <2>1, <2>2, Zenon
  <2>3. CASE s.key = "config" /\ core' = cli_core_set(core, s)
    <3>1. core' = WithFile(core, TRUE)
      BY <2>3, SetIs, Zenon DEF WithFile
    <3>2. OnlyFile(core, core', TRUE)
      BY <2>1, <3>1, SetFile, Zenon
    <3>3. ServiceRight(core') /\ Blank(core', errno')
      BY <1>1, <1>4, <2>1, <3>2, Zenon DEF OnlyFile, ServiceRight, Blank
    <3> QED BY <3>2, <3>3, Zenon DEF OnlyFile
  <2> QED BY <1>4, <2>2, <2>3, Zenon
<1>9. /\ step.ret # "OK" => UnknownBefore(k)
      /\ \A p \in DOMAIN argv : argv[p].key = "config" /\ p < k => core.conf_file \/ UnknownBefore(p)
  BY <1>1, <1>2, <1>4, Zenon DEF Missed
<1>10. /\ step'.ret # "OK" => UnknownBefore(step'.i)
       /\ \A p \in DOMAIN argv : argv[p].key = "config" /\ p < step'.i => core'.conf_file \/ UnknownBefore(p)
  <2>1. CASE s.key = "unknown" /\ step'.i = k + 1
    <3>1. UnknownBefore(step'.i)
      BY <1>3, <1>7, <2>1, Zenon DEF UnknownBefore
    <3>2. argv[k].key # "config"
      BY <1>3, <2>1, Zenon
    <3> QED BY <1>7, <1>8, <1>9, <2>1, <3>1, <3>2, Zenon
  <2>2. CASE s.key = "config" /\ step'.i = k + 1 /\ step'.ret = "OK"
    BY <1>8, <2>2, Zenon
  <2>3. CASE s.key \notin {"unknown", "config"} /\ step'.i = k + 1 /\ step'.ret = "OK"
    <3>1. argv[k].key # "config"
      BY <1>3, <2>3, Zenon
    <3> QED BY <1>7, <1>8, <1>9, <2>3, <3>1, Zenon
  <2>4. CASE s.key \notin {"unknown", "config"} /\ step.ret # "OK" /\ step'.i = Len(argv) + 1
    <3>1. PICK u \in DOMAIN argv : u < k /\ argv[u].key = "unknown"
      BY <1>9, <2>4, Zenon DEF UnknownBefore
    <3>2. UnknownBefore(step'.i)
      BY <1>7, <3>1, Zenon DEF UnknownBefore
    <3>3. ASSUME NEW p \in DOMAIN argv, argv[p].key = "config" PROVE core'.conf_file \/ UnknownBefore(p)
      <4>1. CASE p < k
        BY <1>8, <1>9, <3>3, <4>1, Zenon
      <4>2. CASE ~(p < k)
        BY <1>7, <3>1, <4>2, Zenon DEF UnknownBefore
      <4> QED BY <4>1, <4>2, Zenon
    <3> QED BY <3>2, <3>3, Zenon
  <2> QED BY <1>5, <2>1, <2>2, <2>3, <2>4, Zenon
<1>11. ConfigTypes'
  BY <1>1, <1>4, <1>5, <1>7, <1>8, Zenon DEF ConfigTypes
<1>12. Applied' /\ Missed'
  <2>1. \A p : UnknownBefore(p)' <=> UnknownBefore(p)
    BY <1>4, Zenon DEF UnknownBefore
  <2>2. Applied'
    BY <1>1, <1>4, <1>5, <1>8, Zenon DEF Applied
  <2>3. Missed'
    BY <1>4, <1>5, <1>7, <1>10, Zenon DEF Missed, UnknownBefore
  <2> QED BY <2>2, <2>3, Zenon
<1> QED BY <1>8, <1>11, <1>12, Zenon DEF ConfigInv

\* A line of the file is a known setting with its argument.
LEMMA LineIs ==
  ASSUME NEW s \in Settings
  PROVE  s \in Arguments /\ s.key \notin {"unknown", "config"} /\ ~ArgumentMissing(s)
<1>1. s \in Arguments
  BY Zenon DEF Arguments
<1>2. \A k, v : s = Setting(k, v) => s.key = k /\ s.value = v
  BY SMTT(20) DEF Setting
<1>3. \A x : <<x>> # <<>>
  OBVIOUS
<1>4. \/ s.key \in {"node_host", "node_port", "cache", "redis_host", "http_threads", "no_gtta"}
      \/ s.key = "mwm" /\ \E x : s.value = <<x>>
  <2> DEFINE HostLines == {Setting("node_host", <<"h1">>), Setting("node_host", <<"h2", "h3">>), Setting("redis_host", <<"r1">>)}
             PortLines == {Setting("node_port", <<Good(7)>>), Setting("node_port", <<Junk, Good(8)>>),
                           Setting("node_port", <<Good(9), OutOfRange>>)}
             FlagLines == {Setting("cache", <<>>), Setting("no_gtta", <<>>)}
             ThreadLines == {Setting("http_threads", <<Good(3)>>), Setting("http_threads", <<Good(200)>>),
                             Setting("http_threads", <<OutOfRange>>)}
             WidthLines == {Setting("mwm", <<Good(14)>>), Setting("mwm", <<Good(300)>>), Setting("mwm", <<Junk>>)}
  <2>1. s \in HostLines \/ s \in PortLines \/ s \in FlagLines \/ s \in ThreadLines \/ s \in WidthLines
    BY Zenon DEF Settings
  <2>2. CASE s \in HostLines
    BY <1>2, <2>2, Zenon
  <2>3. CASE s \in PortLines
    BY <1>2, <2>3, Zenon
  <2>4. CASE s \in FlagLines
    BY <1>2, <2>4, Zenon
  <2>5. CASE s \in ThreadLines
    BY <1>2, <2>5, Zenon
  <2>6. CASE s \in WidthLines
    <3>1. s.key = "mwm" /\ (s.value = <<Good(14)>> \/ s.value = <<Good(300)>> \/ s.value = <<Junk>>)
      BY <2>6, SMTT(20) DEF Setting
    <3> QED BY <3>1, Zenon
  <2> QED BY <2>1, <2>2, <2>3, <2>4, <2>5, <2>6, Zenon
<1> QED BY <1>1, <1>3, <1>4, Zenon DEF ArgumentMissing

\* A setting that is applied,
LEMMA Applies ==
  ASSUME ConfigTypes, ServiceRight(core), NEW n \in Nat, NEW s \in Arguments, Given[n + 1] = s,
         CoreRight(core, errno, Given, n), s.key \notin {"unknown", "config"}, ~ArgumentMissing(s), Apply(s)
  PROVE  core' \in CoreType /\ ServiceRight(core') /\ errno' \in BOOLEAN /\ CoreRight(core', errno', Given, n + 1)
<1>1. core \in CoreType /\ errno \in BOOLEAN
  BY Zenon DEF ConfigTypes
<1>2. /\ core' \in CoreType /\ ServiceRight(core') /\ errno' \in BOOLEAN
      /\ Effect(core, core', s)
      /\ s.key = "mwm" => Stuck(s.value) \/ core'.mwm = Width8(s.value[1].n)
      /\ errno' => errno \/ (Number(s) /\ Ranged(s.value))
  BY <1>1, ApplyIs, Zenon
<1>3. s.key = "mwm" => errno \/ Ranged(s.value) \/ core'.mwm = Width8(s.value[1].n)
  BY <1>2, Zenon DEF Stuck
<1>4. PICK g, d, f : g = Given /\ d = core' /\ f = errno'
  OBVIOUS
<1>5. CoreRight(d, f, g, n + 1)
  BY <1>1, <1>2, <1>3, <1>4, CoreStaysRight, Zenon
<1> QED BY <1>2, <1>4, <1>5, Zenon

\* and one that is passed over.
LEMMA Skips ==
  ASSUME ConfigTypes, NEW n \in Nat, NEW s \in Arguments, Given[n + 1] = s,
         CoreRight(core, errno, Given, n), s.key \in {"unknown", "config"}
  PROVE  CoreRight(core, errno, Given, n + 1)
<1>1. core \in CoreType
  BY Zenon DEF ConfigTypes
<1>2. Effect(core, core, s) /\ s.key # "mwm"
  BY Zenon DEF Effect
<1>3. PICK g : g = Given
  OBVIOUS
<1>4. CoreRight(core, errno, g, n + 1)
  BY <1>1, <1>2, <1>3, CoreStaysRight, Zenon
<1> QED BY <1>3, <1>4, Zenon

\* The parser goes on to the next setting.
LEMMA GoesOn ==
  ASSUME ConfigInv, UNCHANGED <<argv, file, read>>, core' \in CoreType, ServiceRight(core'), errno' \in BOOLEAN,
         NEW r, StepAt(step', step.at, step.i + 1, r),
         \/ step.at = "lines" /\ step.i <= Len(file) /\ CoreRight(core', errno', Given, step.i)
         \/ step.at = "args" /\ step.i <= Len(argv) /\ CoreRight(core', errno', Given, Base + step.i)
  PROVE  ConfigInv'
<1>1. ConfigTypes /\ ServiceRight(core) /\ Applied /\ Missed
  BY Zenon DEF ConfigInv
<1>2. PICK k : k = step.i
  OBVIOUS
<1>3. step'.at = step.at /\ step'.i = k + 1 /\ step' = [at |-> step'.at, i |-> step'.i, ret |-> step'.ret]
  BY <1>2, Zenon DEF StepAt
<1>4. k \in Nat \ {0} /\ Len(argv) \in Nat /\ Len(file) \in Nat /\ Base \in Nat
  BY <1>1, <1>2, GivenIs, Zenon DEF ConfigTypes
<1>5. /\ k + 1 \in Nat \ {0} /\ (k + 1) - 1 = k /\ Base + (k + 1) - 1 = Base + k
      /\ (k <= Len(argv) => k + 1 <= Len(argv) + 1) /\ (k <= Len(file) => k + 1 <= Len(file) + 1)
  BY <1>4, SMTT(20)
<1>6. ConfigTypes'
  BY <1>1, <1>3, <1>5, Zenon DEF ConfigTypes
<1>7. Given' = Given /\ Base' = Base
  BY Zenon DEF Given, Base
<1>8. Applied'
  <2>1. CASE step.at = "lines"
    <3>1. read'
      BY <1>1, <2>1, Zenon DEF Applied
    <3>2. k <= Len(file) /\ CoreRight(core', errno', Given, k)
      BY <1>2, <2>1, Zenon
    <3>3. CoreRight(core', errno', Given', step'.i - 1)
      <4>1. step'.i - 1 = k
        BY <1>3, <1>5, Zenon
      <4> QED BY <1>7, <3>2, <4>1, Zenon
    <3>4. step'.i <= Len(file') + 1
      BY <1>3, <1>5, <3>2, Zenon
    <3> QED BY <1>3, <2>1, <3>1, <3>3, <3>4, Zenon DEF Applied
  <2>2. CASE step.at = "args"
    <3>1. step'.i <= Len(argv') + 1 /\ CoreRight(core', errno', Given', Base' + step'.i - 1)
      BY <1>2, <1>3, <1>5, <1>7, <2>2, Zenon
    <3> QED BY <1>3, <2>2, <3>1, Zenon DEF Applied
  <2> QED BY <2>1, <2>2, Zenon
<1>9. Missed'
  BY <1>1, <1>3, Zenon DEF Missed, UnknownBefore
<1> QED BY <1>6, <1>8, <1>9, Zenon DEF ConfigInv

\* The file is opened, or there is none, or it cannot be.
LEMMA OpenKeeps ==
  ASSUME ConfigInv, OpenFile
  PROVE  ConfigInv'
<1>1. ConfigTypes /\ ServiceRight(core) /\ Applied /\ Missed
  BY Zenon DEF ConfigInv
<1>2. /\ step.at = "find" /\ step.i > Len(argv) /\ UNCHANGED <<argv, file, core, errno>>
      /\ \/ ~core.conf_file /\ step' = [at |-> "args", i |-> 1, ret |-> "OK"] /\ read' = read
         \/ core.conf_file /\ step' = [at |-> "lines", i |-> 1, ret |-> step.ret] /\ read' = TRUE
         \/ core.conf_file /\ step' = [at |-> "exit", i |-> 1, ret |-> "FOPEN_ERROR"] /\ read' = read
  BY Zenon DEF OpenFile, OpenFails, Go, Same
<1>3. Len(argv) \in Nat /\ Len(file) \in Nat /\ DOMAIN argv = 1..Len(argv) /\ step.i \in Nat
  BY <1>1, GivenIs, Zenon DEF ConfigTypes
<1>4. /\ 1 \in Nat \ {0} /\ 1 <= Len(argv) + 1 /\ 1 <= Len(file) + 1 /\ 1 - 1 = 0
      /\ \A p \in DOMAIN argv : p < step.i
  BY <1>2, <1>3, SMTT(20)
<1>5. Blank(core', errno') /\ CoreRight(core', errno', Given', 0)
  BY <1>1, <1>2, BlankIsRight, Zenon DEF Applied
<1>6. CASE StepAt(step', "exit", 1, "FOPEN_ERROR") /\ read' = read
  BY <1>1, <1>2, <1>4, <1>6, ExitKeeps, Zenon DEF StepAt, ConfigTypes
<1>7. CASE StepAt(step', "lines", 1, step.ret) /\ read' = TRUE
  <2>1. ConfigTypes'
    BY <1>1, <1>2, <1>4, <1>7, Zenon DEF ConfigTypes, StepAt
  <2>2. step'.at = "lines" /\ step'.i = 1
    BY <1>7, Zenon DEF StepAt
  <2>3. Applied' /\ Missed'
    BY <1>2, <1>4, <1>5, <1>7, <2>2, Zenon DEF Applied, Missed
  <2> QED BY <1>1, <1>2, <2>1, <2>3, Zenon DEF ConfigInv
<1>8. CASE ~core.conf_file /\ StepAt(step', "args", 1, "OK") /\ read' = read
  <2>1. ConfigTypes'
    BY <1>1, <1>2, <1>4, <1>8, Zenon DEF ConfigTypes, StepAt
  <2>2. step'.at = "args" /\ step'.i = 1
    BY <1>8, Zenon DEF StepAt
  <2>3. \A p \in DOMAIN argv : argv[p].key = "config" => UnknownBefore(p)
    BY <1>1, <1>2, <1>4, <1>8, Zenon DEF Missed
  <2>4. Missed'
    BY <1>2, <2>2, <2>3, Zenon DEF Missed, UnknownBefore
  <2>5. Base' = 0 /\ 0 + 1 - 1 = 0
    <3>1. ~read'
      BY <1>1, <1>2, <1>8, Zenon DEF Applied
    <3> QED BY <3>1, SMTT(20) DEF Base
  <2>6. Applied'
    BY <1>2, <1>4, <1>5, <2>2, <2>5, Zenon DEF Applied
  <2> QED BY <1>1, <1>2, <2>1, <2>4, <2>6, Zenon DEF ConfigInv
<1>9. \A a, r : StepAt([at |-> a, i |-> 1, ret |-> r], a, 1, r)
  BY StepNew, Zenon
<1>10. \/ ~core.conf_file /\ StepAt(step', "args", 1, "OK") /\ read' = read
       \/ StepAt(step', "lines", 1, step.ret) /\ read' = TRUE
       \/ StepAt(step', "exit", 1, "FOPEN_ERROR") /\ read' = read
  BY <1>2, <1>9, Zenon
<1> QED BY <1>6, <1>7, <1>8, <1>10, Zenon

\* A line of the file is read.
LEMMA LineKeeps ==
  ASSUME ConfigInv, ReadLine
  PROVE  ConfigInv'
<1>1. ConfigTypes /\ ServiceRight(core) /\ Applied /\ Missed
  BY Zenon DEF ConfigInv
<1>2. PICK k : k = step.i
  OBVIOUS
<1>3. /\ step.at = "lines" /\ UNCHANGED <<argv, file, read>>
      /\ \/ k <= Len(file) /\ Apply(file[k]) /\ step' = [step EXCEPT !.i = k + 1, !.ret = "OK"]
         \/ step' = [at |-> "exit", i |-> 1, ret |-> "PARSER_ERROR"] /\ UNCHANGED <<core, errno>>
  BY <1>2, Zenon DEF ReadLine, Go, Same
<1>4. CASE step' = [at |-> "exit", i |-> 1, ret |-> "PARSER_ERROR"] /\ UNCHANGED <<core, errno>>
  <2>1. StepAt(step', "exit", 1, "PARSER_ERROR") /\ 1 \in Nat \ {0}
    BY <1>4, StepNew, SMTT(20)
  <2> QED BY <1>1, <1>3, <1>4, <2>1, ExitKeeps, Zenon DEF StepAt, ConfigTypes
<1>5. CASE k <= Len(file) /\ Apply(file[k]) /\ step' = [step EXCEPT !.i = k + 1, !.ret = "OK"]
  <2>1. step = [at |-> step.at, i |-> step.i, ret |-> step.ret]
    BY <1>1, Zenon DEF ConfigTypes
  <2>2. StepAt(step', step.at, k + 1, "OK")
    <3>1. \A j, r : StepAt([step EXCEPT !.i = j, !.ret = r], step.at, j, r)
      BY <2>1, StepIs, Zenon
    <3> QED BY <1>5, <3>1, Zenon
  <2>3. k \in Nat \ {0} /\ Len(file) \in Nat /\ read /\ CoreRight(core, errno, Given, k - 1)
    BY <1>1, <1>2, <1>3, GivenIs, Zenon DEF ConfigTypes, Applied
  <2>4. k \in 1..Len(file) /\ k - 1 \in Nat /\ (k - 1) + 1 = k
    BY <1>5, <2>3, SMTT(20)
  <2>5. file[k] \in Settings /\ Given[k] = file[k]
    <3>1. \A S : \A q \in Seq(S) : \A p \in 1..Len(q) : q[p] \in S
      OBVIOUS
    <3>2. file \in Seq(Settings)
      BY <1>1, Zenon DEF ConfigTypes
    <3>3. file[k] \in Settings
      BY <2>4, <3>1, <3>2, Zenon
    <3>4. Given[k] = file[k]
      BY <1>1, <2>3, <2>4, GivenIs, Zenon
    <3> QED BY <3>3, <3>4, Zenon
  <2>6. PICK s \in Arguments : s = file[k] /\ s.key \notin {"unknown", "config"} /\ ~ArgumentMissing(s)
    BY <2>5, LineIs, Zenon
  <2>7. /\ core' \in CoreType /\ ServiceRight(core') /\ errno' \in BOOLEAN
        /\ CoreRight(core', errno', Given, (k - 1) + 1)
    <3>1. PICK n \in Nat : n = k - 1
      BY <2>4, Zenon
    <3>2. Given[n + 1] = s /\ CoreRight(core, errno, Given, n) /\ Apply(s)
      BY <1>5, <2>3, <2>4, <2>5, <2>6, <3>1, Zenon
    <3>3. core' \in CoreType /\ ServiceRight(core') /\ errno' \in BOOLEAN /\ CoreRight(core', errno', Given, n + 1)
      BY <1>1, <2>6, <3>2, Applies, Zenon
    <3> QED BY <3>1, <3>3, Zenon
  <2> QED BY <1>2, <1>3, <1>5, <2>2, <2>4, <2>7, GoesOn, Zenon
<1> QED BY <1>3, <1>4, <1>5, Zenon

\* The file is read to its end.
LEMMA FileDoneKeeps ==
  ASSUME ConfigInv, FileDone
  PROVE  ConfigInv'
<1>1. ConfigTypes /\ ServiceRight(core) /\ Applied /\ Missed
  BY Zenon DEF ConfigInv
<1>2. /\ step.at = "lines" /\ step.i > Len(file) /\ UNCHANGED <<argv, file, core, errno, read>>
      /\ step' = [at |-> IF step.ret = "OK" THEN "args" ELSE "exit", i |-> 1, ret |-> step.ret]
  BY Zenon DEF FileDone, Go, Same
<1>3. \A a, r : StepAt([at |-> a, i |-> 1, ret |-> r], a, 1, r)
  BY StepNew, Zenon
<1>4. 1 \in Nat \ {0}
  BY SMTT(20)
<1>5. CASE step.ret # "OK"
  <2>1. StepAt(step', "exit", 1, step.ret)
    BY <1>2, <1>3, <1>5, Zenon
  <2> QED BY <1>1, <1>2, <1>4, <2>1, ExitKeeps, Zenon DEF StepAt, ConfigTypes
<1>6. CASE step.ret = "OK"
  <2>1. StepAt(step', "args", 1, step.ret)
    BY <1>2, <1>3, <1>6, Zenon
  <2>2. step'.at = "args" /\ step'.i = 1 /\ step' = [at |-> step'.at, i |-> step'.i, ret |-> step'.ret]
    BY <2>1, Zenon DEF StepAt
  <2>3. read /\ step.i <= Len(file) + 1 /\ CoreRight(core, errno, Given, step.i - 1)
    BY <1>1, <1>2, Zenon DEF Applied
  <2>4. step.i \in Nat /\ Len(file) \in Nat /\ Len(argv) \in Nat /\ Base = Len(file)
    BY <1>1, <2>3, GivenIs, Zenon DEF ConfigTypes, Base
  <2>5. step.i - 1 = Base + 1 - 1 /\ 1 <= Len(argv) + 1
    BY <1>2, <2>3, <2>4, SMTT(20)
  <2>6. Given' = Given /\ Base' = Base
    BY <1>2, Zenon DEF Given, Base
  <2>7. ConfigTypes'
    BY <1>1, <1>2, <1>4, <2>2, Zenon DEF ConfigTypes
  <2>8. step'.i <= Len(argv') + 1 /\ CoreRight(core', errno', Given', Base' + step'.i - 1)
    BY <1>2, <2>2, <2>3, <2>5, <2>6, Zenon
  <2>9. Applied' /\ Missed'
    BY <1>2, <2>2, <2>3, <2>8, Zenon DEF Applied, Missed
  <2> QED BY <1>1, <1>2, <2>7, <2>9, Zenon DEF ConfigInv
<1> QED BY <1>5, <1>6, Zenon

\* An argument is read.
LEMMA ArgKeeps ==
  ASSUME ConfigInv, ReadArg
  PROVE  ConfigInv'
<1>1. ConfigTypes /\ ServiceRight(core) /\ Applied /\ Missed
  BY Zenon DEF ConfigInv
<1>2. PICK k : k = step.i
  OBVIOUS
<1>3. PICK s : s = argv[k]
  OBVIOUS
<1>4. /\ step.at = "args" /\ k <= Len(argv) /\ UNCHANGED <<argv, file, read>>
      /\ \/ s.key = "unknown" /\ step' = [step EXCEPT !.i = k + 1, !.ret = "UNKNOWN_OPTION"] /\ UNCHANGED <<core, errno>>
         \/ /\ s.key = "config" \/ ArgumentMissing(s)
            /\ step' = IF ArgumentMissing(s) THEN [at |-> "exit", i |-> 1, ret |-> "NULL"]
                       ELSE IF step.ret = "OK" THEN [step EXCEPT !.i = k + 1]
                       ELSE [step EXCEPT !.at = "exit"]
            /\ UNCHANGED <<core, errno>>
         \/ /\ s.key \notin {"unknown", "config"} /\ ~ArgumentMissing(s)
            /\ Apply(s) /\ step' = [step EXCEPT !.i = k + 1, !.ret = "OK"]
  BY <1>2, <1>3, Zenon DEF ReadArg, Same
<1>5. step = [at |-> step.at, i |-> step.i, ret |-> step.ret]
  BY <1>1, Zenon DEF ConfigTypes
<1>6. /\ \A j : StepAt([step EXCEPT !.i = j], step.at, j, step.ret)
      /\ \A j, r : StepAt([step EXCEPT !.i = j, !.ret = r], step.at, j, r)
      /\ \A a : StepAt([step EXCEPT !.at = a], a, step.i, step.ret)
      /\ \A a, r : StepAt([at |-> a, i |-> 1, ret |-> r], a, 1, r)
  BY <1>5, StepIs, StepNew, Zenon
<1>7. \/ s.key \in {"unknown", "config"} /\ UNCHANGED <<core, errno>> /\ \E r : StepAt(step', step.at, k + 1, r)
      \/ UNCHANGED <<core, errno>> /\ \E r : StepAt(step', "exit", 1, r) \/ StepAt(step', "exit", k, r)
      \/ /\ s.key \notin {"unknown", "config"} /\ ~ArgumentMissing(s) /\ Apply(s)
         /\ \E r : StepAt(step', step.at, k + 1, r)
  <2>1. CASE s.key = "unknown" /\ step' = [step EXCEPT !.i = k + 1, !.ret = "UNKNOWN_OPTION"] /\ UNCHANGED <<core, errno>>
    BY <1>6, <2>1, Zenon
  <2>2. CASE ArgumentMissing(s) /\ step' = [at |-> "exit", i |-> 1, ret |-> "NULL"] /\ UNCHANGED <<core, errno>>
    <3>1. StepAt(step', "exit", 1, "NULL")
      BY <1>6, <2>2, Zenon
    <3> QED BY <2>2, <3>1, Zenon
  <2>3. CASE s.key = "config" /\ step' = [step EXCEPT !.i = k + 1] /\ UNCHANGED <<core, errno>>
    BY <1>6, <2>3, Zenon
  <2>4. CASE step' = [step EXCEPT !.at = "exit"] /\ UNCHANGED <<core, errno>>
    <3>1. StepAt(step', "exit", k, step.ret)
      BY <1>2, <1>6, <2>4, Zenon
    <3> QED BY <2>4, <3>1, Zenon
  <2>5. CASE /\ s.key \notin {"unknown", "config"} /\ ~ArgumentMissing(s)
             /\ Apply(s) /\ step' = [step EXCEPT !.i = k + 1, !.ret = "OK"]
    BY <1>6, <2>5, Zenon
  <2>6. CASE /\ s.key = "config" \/ ArgumentMissing(s)
             /\ step' = IF ArgumentMissing(s) THEN [at |-> "exit", i |-> 1, ret |-> "NULL"]
                        ELSE IF step.ret = "OK" THEN [step EXCEPT !.i = k + 1]
                        ELSE [step EXCEPT !.at = "exit"]
             /\ UNCHANGED <<core, errno>>
    <3>1. CASE ArgumentMissing(s)
      BY <2>2, <2>6, <3>1, Zenon
    <3>2. CASE ~ArgumentMissing(s) /\ step.ret = "OK"
      BY <2>3, <2>6, <3>2, Zenon
    <3>3. CASE ~ArgumentMissing(s) /\ step.ret # "OK"
      BY <2>4, <2>6, <3>3, Zenon
    <3> QED BY <3>1, <3>2, <3>3, Zenon
  <2> QED BY <1>4, <2>1, <2>5, <2>6, Zenon
<1>8. /\ k \in Nat \ {0} /\ Len(argv) \in Nat /\ Base \in Nat
      /\ CoreRight(core, errno, Given, Base + k - 1)
  BY <1>1, <1>2, <1>4, GivenIs, Zenon DEF ConfigTypes, Applied
<1>9. k \in 1..Len(argv) /\ Base + k - 1 \in Nat /\ (Base + k - 1) + 1 = Base + k /\ 1 \in Nat \ {0}
  BY <1>4, <1>8, SMTT(20)
<1>10. s \in Arguments /\ Given[Base + k] = s
  <2>1. \A S : \A q \in Seq(S) : \A p \in 1..Len(q) : q[p] \in S
    OBVIOUS
  <2>2. argv \in Seq(Arguments)
    BY <1>1, Zenon DEF ConfigTypes
  <2>3. s \in Arguments
    BY <1>3, <1>9, <2>1, <2>2, Zenon
  <2>4. Given[Base + k] = s
    BY <1>1, <1>3, <1>9, GivenIs, Zenon
  <2> QED BY <2>3, <2>4, Zenon
<1>11. PICK n \in Nat : n = Base + k - 1 /\ n + 1 = Base + k
  BY <1>9, Zenon
<1>12. Given[n + 1] = s /\ CoreRight(core, errno, Given, n)
  BY <1>8, <1>10, <1>11, Zenon
<1>13. CASE UNCHANGED <<core, errno>> /\ \E r : StepAt(step', "exit", 1, r) \/ StepAt(step', "exit", k, r)
  <2>1. step'.at = "exit" /\ step'.i \in Nat \ {0} /\ step' = [at |-> step'.at, i |-> step'.i, ret |-> step'.ret]
    BY <1>8, <1>9, <1>13, Zenon DEF StepAt
  <2>2. errno' \in BOOLEAN /\ read' \in BOOLEAN
    BY <1>1, <1>4, <1>13, Zenon DEF ConfigTypes
  <2> QED BY <1>4, <1>13, <2>1, <2>2, ExitKeeps, Zenon
<1>14. CASE /\ s.key \in {"unknown", "config"} /\ UNCHANGED <<core, errno>>
            /\ \E r : StepAt(step', step.at, k + 1, r)
  <2>1. CoreRight(core, errno, Given, n + 1)
    BY <1>1, <1>10, <1>12, <1>14, Skips, Zenon
  <2>2. CoreRight(core', errno', Given, Base + k) /\ core' \in CoreType /\ ServiceRight(core') /\ errno' \in BOOLEAN
    BY <1>1, <1>11, <1>14, <2>1, Zenon DEF ConfigTypes
  <2> QED BY <1>2, <1>4, <1>14, <2>2, GoesOn, Zenon
<1>15. CASE /\ s.key \notin {"unknown", "config"} /\ ~ArgumentMissing(s) /\ Apply(s)
            /\ \E r : StepAt(step', step.at, k + 1, r)
  <2>1. core' \in CoreType /\ ServiceRight(core') /\ errno' \in BOOLEAN /\ CoreRight(core', errno', Given, n + 1)
    BY <1>1, <1>10, <1>12, <1>15, Applies, Zenon
  <2>2. CoreRight(core', errno', Given, Base + k)
    BY <1>11, <2>1, Zenon
  <2> QED BY <1>2, <1>4, <1>15, <2>1, <2>2, GoesOn, Zenon
<1> QED BY <1>7, <1>13, <1>14, <1>15, Zenon

\* The settings are put to use.
LEMMA SetKeeps ==
  ASSUME ConfigInv, ta_core_set
  PROVE  ConfigInv'
<1>1. ConfigTypes /\ ServiceRight(core) /\ Applied /\ Missed
  BY Zenon DEF ConfigInv
<1>2. step.at = "args" /\ step.i > Len(argv) /\ UNCHANGED <<argv, file, core, errno, read>>
  BY Zenon DEF ta_core_set, Same
<1>3. 1 \in Nat \ {0}
  BY SMTT(20)
<1>4. \E r : StepAt(step', "exit", 1, r) \/ StepAt(step', "started", 1, r)
  <2>1. \A a, r : StepAt([at |-> a, i |-> 1, ret |-> r], a, 1, r)
    BY StepNew, Zenon
  <2>2. \E a \in {"exit", "started"}, r \in {step.ret, "OOM"} : step' = [at |-> a, i |-> 1, ret |-> r]
    BY Zenon DEF ta_core_set, Go
  <2> QED BY <2>1, <2>2, Zenon
<1>5. PICK r : StepAt(step', "exit", 1, r) \/ StepAt(step', "started", 1, r)
  BY <1>4, Zenon
<1>6. CASE StepAt(step', "exit", 1, r)
  BY <1>1, <1>2, <1>3, <1>6, ExitKeeps, Zenon DEF StepAt, ConfigTypes
<1>7. CASE StepAt(step', "started", 1, r)
  <2>1. step'.at = "started" /\ step'.i = 1 /\ step' = [at |-> step'.at, i |-> step'.i, ret |-> step'.ret]
    BY <1>7, Zenon DEF StepAt
  <2>2. step.i <= Len(argv) + 1 /\ CoreRight(core, errno, Given, Base + step.i - 1)
    BY <1>1, <1>2, Zenon DEF Applied
  <2>3. step.i \in Nat /\ Len(argv) \in Nat /\ Base \in Nat
    BY <1>1, GivenIs, Zenon DEF ConfigTypes
  <2>4. Base + step.i - 1 = Base + Len(argv)
    BY <1>2, <2>2, <2>3, SMTT(20)
  <2>5. Given' = Given /\ Base' = Base
    BY <1>2, Zenon DEF Given, Base
  <2>6. CoreRight(core', errno', Given', Base' + Len(argv'))
    BY <1>2, <2>2, <2>4, <2>5, Zenon
  <2>7. ConfigTypes'
    BY <1>1, <1>2, <1>3, <2>1, Zenon DEF ConfigTypes
  <2>8. Applied' /\ Missed'
    BY <1>1, <1>2, <2>1, <2>6, Zenon DEF Applied, Missed, UnknownBefore
  <2> QED BY <1>1, <1>2, <2>7, <2>8, Zenon DEF ConfigInv
<1> QED BY <1>5, <1>6, <1>7, Zenon

\* Every step keeps the invariant.
LEMMA ConfigInvStep == ConfigInv /\ [ConfigNext]_fvars => ConfigInv'
<1> SUFFICES ASSUME ConfigInv, [ConfigNext]_fvars PROVE ConfigInv'
  OBVIOUS
<1>1. CASE UNCHANGED fvars
  BY <1>1, Zenon DEF fvars, ConfigInv, ConfigTypes, Applied, Missed, UnknownBefore, Given, Base
<1>2. CASE ConfigNext
  BY <1>2, DefaultKeeps, FindKeeps, OpenKeeps, LineKeeps, FileDoneKeeps, ArgKeeps, SetKeeps, Zenon DEF ConfigNext
<1> QED BY <1>1, <1>2, Zenon

\* The configuration in effect is the one that was given, for every command
\* line, every file and every length of the priority list: whichever option
\* fails, is unknown or comes twice (config.c:100, config.c:330).
THEOREM ConfigurationAsGiven == ConfigSpec => []ConfigAsGiven
BY ConfigInvInit, ConfigInvStep, ConfigInvSays, PTL DEF ConfigSpec

\* The fields of a core.
LEMMA CoreTyped ==
  ASSUME NEW c \in CoreType
  PROVE  /\ c.hosts \in [1..ListLen -> {None, "h1", "h2", "h3"}] /\ c.ports \in [1..ListLen -> Nat]
         /\ c.mwm \in 0..255 /\ c.threads \in 0..MaxThreads
         /\ c.redis \in {"r0", "r1"} /\ c.backend \in {None, "r0", "r1"}
BY SMTT(20) DEF CoreType

\* The widths of the fields of the core hold as well (config.c:146).
THEOREM ConfigTyped == ConfigSpec => []ConfigTypeOK
<1>1. ConfigInv => ConfigTypeOK
  BY CoreTyped, Zenon DEF ConfigInv, ConfigTypes, ConfigTypeOK
<1> QED BY ConfigInvInit, ConfigInvStep, <1>1, PTL DEF ConfigSpec

-----------------------------------------------------------------------------
(* What a query answers *)

QueryFields == {"kind", "asked", "at", "i", "uncached", "fetched", "res", "bundles", "status"}
\* What the node answers to getTrytes.
Got(T, t) == IF t \in T THEN t ELSE NullTxn
\* The first n elements of a list, and what the node answers to them.
UpTo(s, n) == {s[j] : j \in 1..n}
GotUpTo(T, s, n) == {Got(T, s[j]) : j \in 1..n}

\* The query is one of the callers', of at most ResultLimit hashes where they say so.
QueryShape(q) ==
    /\ DOMAIN q = QueryFields /\ q.i \in Nat \ {0}
    /\ q.asked \in Seq(Txn) /\ q.uncached \in Seq(Txn) /\ q.res \in Seq(Txn) /\ q.fetched \in Seq(Txn \cup {NullTxn})
    /\ q.kind \in {"objects", "by_tag"} => Len(q.asked) <= ResultLimit

\* What was asked for is in the result, or still to be fetched, or was fetched.
QueryProgress(T, q) ==
    /\ q.at = "lookup" => /\ q.i <= Len(q.asked) + 1 /\ q.fetched = <<>>
                          /\ Range(q.res) \cup Range(q.uncached) = UpTo(q.asked, q.i - 1)
    /\ q.at = "fetch" => /\ q.i <= Len(q.uncached) + 1
                         /\ Range(q.res) \cup Range(q.uncached) = Range(q.asked)
                         /\ Range(q.fetched) = GotUpTo(T, q.uncached, q.i - 1)
    /\ q.at = "append" => /\ Range(q.res) \cup Range(q.uncached) = Range(q.asked)
                          /\ Range(q.fetched) = GotUpTo(T, q.uncached, Len(q.uncached))
    /\ q.at = "bundles" \/ (q.at = "done" /\ q.status = "OK") => Range(q.res) = Range(q.asked)

QueryInv ==
    /\ tangle \subseteq Txn
    /\ query # NoQuery => QueryShape(query) /\ QueryProgress(tangle, query)

\* List t has the elements of s and those of E.
Grows(s, t, E) == Range(t) = Range(s) \cup E

\* A longer list and its elements.
LEMMA AppendIs ==
  ASSUME NEW S, NEW s \in Seq(S), NEW x \in S
  PROVE  Append(s, x) \in Seq(S) /\ Grows(s, Append(s, x), {x})
<1>7. DOMAIN s = 1..Len(s)
  OBVIOUS
<1>8. Append(s, x) \in Seq(S)
  OBVIOUS
<1>1. PICK u, n : u = Append(s, x) /\ n = Len(s) + 1
  BY Zenon
<1>2. DOMAIN u = (1..Len(s)) \cup {n}
  BY <1>1, SMTT(20)
<1>3. u[n] = x /\ \A j \in 1..Len(s) : u[j] = s[j]
  BY <1>1, SMTT(20)
<1>4. Range(u) \subseteq Range(s) \cup {x}
  BY <1>7, <1>2, <1>3, Zenon DEF Range
<1>5. x \in Range(u) /\ \A j \in 1..Len(s) : s[j] \in Range(u)
  BY <1>2, <1>3, Zenon DEF Range
<1>6. Range(s) \subseteq Range(u)
  BY <1>7, <1>5, Zenon DEF Range
<1> QED BY <1>8, <1>1, <1>4, <1>5, <1>6, Zenon DEF Grows

\* Two lists in a row.
LEMMA JoinedIs ==
  ASSUME NEW S, NEW s \in Seq(S), NEW t \in Seq(S)
  PROVE  s \o t \in Seq(S) /\ Grows(s, s \o t, Range(t))
<1>13. s \o t \in Seq(S)
  OBVIOUS
<1>1. DOMAIN (s \o t) = 1..(Len(s) + Len(t)) /\ Len(s) \in Nat /\ Len(t) \in Nat
  OBVIOUS
<1>2. \A j \in 1..Len(s) : (s \o t)[j] = s[j]
  OBVIOUS
<1>3. \A j \in 1..Len(t) : (s \o t)[Len(s) + j] = t[j]
  OBVIOUS
<1>4. DOMAIN s = 1..Len(s) /\ DOMAIN t = 1..Len(t)
  OBVIOUS
<1>5. \A j \in 1..Len(s) : j \in 1..(Len(s) + Len(t))
  BY <1>1, SMTT(20)
<1>6. \A j \in 1..Len(t) : Len(s) + j \in 1..(Len(s) + Len(t))
  BY <1>1, SMTT(20)
<1>7. \A j \in 1..(Len(s) + Len(t)) : j \in 1..Len(s) \/ \E k \in 1..Len(t) : j = Len(s) + k
  <2> SUFFICES ASSUME NEW j \in 1..(Len(s) + Len(t)), j \notin 1..Len(s) PROVE \E k \in 1..Len(t) : j = Len(s) + k
    OBVIOUS
  <2>1. j - Len(s) \in 1..Len(t) /\ j = Len(s) + (j - Len(s))
    BY <1>1, SMTT(20)
  <2> QED BY <2>1, Zenon
<1>8. PICK u : u = s \o t
  BY Zenon
<1>9. Range(u) \subseteq Range(s) \cup Range(t)
  <2> SUFFICES ASSUME NEW j \in 1..(Len(s) + Len(t)) PROVE u[j] \in Range(s) \cup Range(t)
    BY <1>1, <1>8, Zenon DEF Range
  <2>1. CASE j \in 1..Len(s)
    BY <1>2, <1>4, <1>8, <2>1, Zenon DEF Range
  <2>2. CASE \E k \in 1..Len(t) : j = Len(s) + k
    BY <1>3, <1>4, <1>8, <2>2, Zenon DEF Range
  <2> QED BY <1>7, <2>1, <2>2, Zenon
<1>10. \A j \in 1..Len(s) : s[j] \in Range(u)
  BY <1>1, <1>2, <1>5, <1>8, Zenon DEF Range
<1>11. \A j \in 1..Len(t) : t[j] \in Range(u)
  BY <1>1, <1>3, <1>6, <1>8, Zenon DEF Range
<1>12. Range(s) \subseteq Range(u) /\ Range(t) \subseteq Range(u)
  BY <1>4, <1>10, <1>11, Zenon DEF Range
<1> QED BY <1>13, <1>8, <1>9, <1>12, Zenon DEF Grows

\* A list to its end.
LEMMA AllOf ==
  ASSUME NEW S, NEW s \in Seq(S)
  PROVE  Range(s) = UpTo(s, Len(s))
<1>1. DOMAIN s = 1..Len(s)
  OBVIOUS
<1> QED BY <1>1, Zenon DEF Range, UpTo

\* One more element of a list.
LEMMA UpToNext ==
  ASSUME NEW s, NEW n \in Nat \ {0}
  PROVE  UpTo(s, (n + 1) - 1) = UpTo(s, n - 1) \cup {s[n]}
<1>1. 1..((n + 1) - 1) = (1..(n - 1)) \cup {n}
  BY SMTT(20)
<1> QED BY <1>1, Zenon DEF UpTo

\* One more answer.
LEMMA GotNext ==
  ASSUME NEW T, NEW s, NEW n \in Nat \ {0}
  PROVE  GotUpTo(T, s, (n + 1) - 1) = GotUpTo(T, s, n - 1) \cup {Got(T, s[n])}
<1>1. 1..((n + 1) - 1) = (1..(n - 1)) \cup {n}
  BY SMTT(20)
<1> QED BY <1>1, Zenon DEF GotUpTo

\* No element yet.
LEMMA UpToNone ==
  ASSUME NEW T, NEW s
  PROVE  UpTo(s, 1 - 1) = {} /\ GotUpTo(T, s, 1 - 1) = {}
<1>1. 1..(1 - 1) = {}
  BY SMTT(20)
<1> QED BY <1>1, Zenon DEF UpTo, GotUpTo

\* Nines are no transaction.
LEMMA NullIsNone == NullTxn \notin Txn
BY QueryAssumption, SMTT(20) DEF NullTxn, Txn

\* A list without nines.
LEMMA NoNull ==
  ASSUME NEW s \in Seq(Txn \cup {NullTxn}), NullTxn \notin Range(s)
  PROVE  s \in Seq(Txn)
<1>1. PICK S, z : S = Txn /\ z = NullTxn
  OBVIOUS
<1>2. s \in Seq(S \cup {z}) /\ z \notin Range(s)
  BY <1>1, Zenon
<1>3. DOMAIN s = 1..Len(s) /\ Len(s) \in Nat /\ \A j \in 1..Len(s) : s[j] \in S \cup {z}
  BY <1>2, SMTT(20)
<1>4. \A j \in 1..Len(s) : s[j] \in S
  BY <1>2, <1>3, Zenon DEF Range
<1>5. s \in [1..Len(s) -> S]
  BY <1>2, <1>3, <1>4, SMTT(20)
<1>6. s \in Seq(S)
  BY <1>3, <1>5, SMTT(20)
<1> QED BY <1>1, <1>6, Zenon

\* A new query.
LEMMA NewIs ==
  ASSUME NEW T, NEW k, NEW a \in Seq(Txn), k \in {"objects", "by_tag"} => Len(a) <= ResultLimit
  PROVE  QueryShape(NewQuery(k, a)) /\ QueryProgress(T, NewQuery(k, a))
<1>1. PICK q : q = NewQuery(k, a)
  OBVIOUS
<1>2. /\ DOMAIN q = QueryFields /\ q.i = 1 /\ q.asked = a /\ q.kind = k /\ q.at = "lookup"
      /\ q.uncached = <<>> /\ q.res = <<>> /\ q.fetched = <<>>
  BY <1>1, SMTT(20) DEF NewQuery, QueryFields
<1>3. 1 \in Nat \ {0} /\ Len(a) \in Nat /\ 1 <= Len(a) + 1
  BY SMTT(20)
<1>4. \A S : <<>> \in Seq(S)
  OBVIOUS
<1>5. Range(<<>>) = {}
  BY SMTT(20) DEF Range
<1>6. QueryShape(q)
  BY <1>2, <1>3, <1>4, Zenon DEF QueryShape
<1>7. QueryProgress(T, q)
  BY <1>2, <1>3, <1>5, UpToNone, Zenon DEF QueryProgress
<1> QED BY <1>1, <1>6, <1>7, Zenon

\* A refused one.
LEMMA RefusedIs ==
  ASSUME NEW T, NEW k, NEW s, s # "OK"
  PROVE  LET q == [NewQuery(k, <<>>) EXCEPT !.at = "done", !.status = s] IN QueryShape(q) /\ QueryProgress(T, q)
<1>1. PICK q : q = [NewQuery(k, <<>>) EXCEPT !.at = "done", !.status = s]
  OBVIOUS
<1>2. PICK a : a = <<>>
  OBVIOUS
<1>3. a \in Seq(Txn) /\ 0 <= ResultLimit /\ Len(a) = 0
  BY <1>2, QueryAssumption, SMTT(20)
<1>4. QueryShape(NewQuery(k, a))
  BY <1>3, NewIs, Zenon
<1>5. /\ DOMAIN q = QueryFields /\ q.i = NewQuery(k, a).i /\ q.asked = NewQuery(k, a).asked /\ q.kind = NewQuery(k, a).kind
      /\ q.uncached = NewQuery(k, a).uncached /\ q.res = NewQuery(k, a).res /\ q.fetched = NewQuery(k, a).fetched
      /\ q.at = "done" /\ q.status = s
  BY <1>1, <1>2, <1>4, Zenon DEF QueryShape, QueryFields
<1>6. QueryShape(q)
  BY <1>4, <1>5, Zenon DEF QueryShape
<1>7. QueryProgress(T, q)
  BY <1>5, Zenon DEF QueryProgress
<1> QED BY <1>1, <1>6, <1>7, Zenon

\* One that asks for no transactions.
LEMMA EmptyIs ==
  ASSUME NEW T, NEW q, DOMAIN q = QueryFields, q.i = 1, q.asked = <<>>, q.uncached = <<>>, q.res = <<>>,
         q.fetched = <<>>, q.at \in {"done", "crashed"}
  PROVE  QueryShape(q) /\ QueryProgress(T, q)
<1>1. 1 \in Nat \ {0} /\ Len(<<>>) <= ResultLimit /\ \A S : <<>> \in Seq(S)
  BY QueryAssumption, SMTT(20)
<1>2. QueryShape(q)
  BY <1>1, Zenon DEF QueryShape
<1>3. q.at \notin {"lookup", "fetch", "append", "bundles"}
  OBVIOUS
<1> QED BY <1>2, <1>3, Zenon DEF QueryProgress

\* A list of as many hashes as are wanted.
LEMMA LimitedIs ==
  ASSUME NEW s \in Seq(Txn)
  PROVE  Limited(s) \in Seq(Txn) /\ Len(Limited(s)) <= ResultLimit
<1>1. Len(s) \in Nat /\ ResultLimit \in Nat \ {0}
  BY QueryAssumption, SMTT(20)
<1>2. CASE Len(s) > ResultLimit
  <2>1. PICK t : t = SubSeq(s, Len(s) - ResultLimit + 1, Len(s))
    BY Zenon
  <2>2. Limited(s) = t
    BY <1>2, <2>1, Zenon DEF Limited
  <2>3. t \in Seq(Txn) /\ Len(t) = ResultLimit
    <3> HIDE DEF Txn
    <3> QED BY <1>1, <1>2, <2>1, SMTT(20)
  <2>4. ResultLimit <= ResultLimit
    BY <1>1, SMTT(20)
  <2> QED BY <2>2, <2>3, <2>4, Zenon
<1>3. CASE ~(Len(s) > ResultLimit)
  <2>1. Limited(s) = s
    BY <1>3, Zenon DEF Limited
  <2>2. Len(s) <= ResultLimit
    BY <1>1, <1>3, SMTT(20)
  <2> QED BY <2>1, <2>2, Zenon
<1> QED BY <1>2, <1>3, Zenon

\* The first of a list, as many as are wanted.
LEMMA TakenIs ==
  ASSUME NEW s \in Seq(Txn)
  PROVE  LET t == SubSeq(s, 1, Min({Len(s), ResultLimit})) IN t \in Seq(Txn) /\ Len(t) <= ResultLimit
<1>1. Len(s) \in Nat /\ ResultLimit \in Nat \ {0}
  BY QueryAssumption, SMTT(20)
<1>2. PICK m : m = Min({Len(s), ResultLimit})
  OBVIOUS
<1>3. \E x \in {Len(s), ResultLimit} : \A y \in {Len(s), ResultLimit} : x <= y
  BY <1>1, SMTT(20)
<1>4. m \in {Len(s), ResultLimit} /\ \A y \in {Len(s), ResultLimit} : m <= y
  BY <1>2, <1>3, Zenon DEF Min
<1>5. m \in 0..Len(s) /\ m <= ResultLimit
  BY <1>1, <1>4, SMTT(20)
<1>6. SubSeq(s, 1, m) \in Seq(Txn) /\ Len(SubSeq(s, 1, m)) = m
  <2> HIDE DEF Txn
  <2> QED BY <1>1, <1>5, SMTT(20)
<1> QED BY <1>2, <1>5, <1>6, Zenon

\* Short lists are lists.
LEMMA ShortIs ==
  ASSUME NEW S, NEW n \in Nat, NEW s \in UNION {[1..m -> S] : m \in 0..n}
  PROVE  s \in Seq(S)
<1>1. PICK m \in 0..n : s \in [1..m -> S]
  BY Zenon
<1>2. m \in Nat
  BY SMTT(20)
<1> QED BY <1>1, <1>2, SMTT(20)

\* What a node lists.
LEMMA ListingIs ==
  ASSUME tangle \subseteq Txn, NEW s \in Listings(tangle)
  PROVE  s \in Seq(Txn)
<1>1. PICK n \in 0..MaxAsked : s \in [1..n -> tangle]
  BY Zenon DEF Listings, Injection
<1>2. s \in [1..n -> Txn]
  <2>1. \A S, D, R : D \subseteq R => \A f \in [S -> D] : f \in [S -> R]
    BY SMTT(20)
  <2> QED BY <1>1, <2>1, Zenon
<1> QED BY <1>1, <1>2, ShortIs, QueryAssumption, Zenon

\* The invariant holds when nothing is asked.
LEMMA QueryInvInit == QueryInit => QueryInv
BY Zenon DEF QueryInit, QueryInv

\* A query begins.
LEMMA BeginKeeps ==
  ASSUME QueryInv,
         \/ api_find_transaction_object_single \/ api_find_transaction_objects
         \/ ta_find_transactions_obj_by_tag \/ BundlesByAddr \/ BundleByHash
  PROVE  QueryInv'
<1>1. tangle \subseteq Txn /\ tangle' = tangle
  BY Zenon DEF QueryInv, api_find_transaction_object_single, api_find_transaction_objects,
               ta_find_transactions_obj_by_tag, BundlesByAddr, BundleByHash
<1>2. ASSUME NEW k, NEW a \in Seq(Txn), k \in {"objects", "by_tag"} => Len(a) <= ResultLimit, Begin(k, a)
      PROVE  QueryInv'
  BY <1>1, <1>2, NewIs, Zenon DEF QueryInv, Begin
<1>3. ASSUME NEW k, NEW s, s # "OK", Refuse(k, s)
      PROVE  QueryInv'
  BY <1>1, <1>3, RefusedIs, Zenon DEF QueryInv, Refuse
<1>4. CASE api_find_transaction_object_single
  <2>1. PICK t \in Txn : Begin("single", <<t>>)
    BY <1>4, Zenon DEF api_find_transaction_object_single
  <2>2. <<t>> \in Seq(Txn)
    OBVIOUS
  <2> QED BY <1>2, <2>1, <2>2, Zenon
<1>5. CASE api_find_transaction_objects
  <2>1. PICK s \in UNION {[1..n -> Txn] : n \in 0..MaxAsked} : Begin("objects", Limited(s))
    BY <1>5, Zenon DEF api_find_transaction_objects
  <2>2. s \in Seq(Txn)
    BY ShortIs, QueryAssumption, Zenon
  <2> QED BY <1>2, <2>1, <2>2, LimitedIs, Zenon
<1>6. CASE ta_find_transactions_obj_by_tag
  <2>1. CASE Refuse("by_tag", "FAILED_RESPONSE")
    BY <1>3, <2>1, Zenon
  <2>2. CASE ~Refuse("by_tag", "FAILED_RESPONSE")
    <3>1. PICK s \in Listings(tangle) : Begin("by_tag", SubSeq(s, 1, Min({Len(s), ResultLimit})))
      BY <1>6, <2>2, Zenon DEF ta_find_transactions_obj_by_tag
    <3>2. s \in Seq(Txn)
      BY <1>1, ListingIs, Zenon
    <3> QED BY <1>2, <3>1, <3>2, TakenIs, Zenon
  <2> QED BY <2>1, <2>2, Zenon
<1>7. CASE BundlesByAddr
  <2>1. CASE Refuse("by_addr", "FAILED_RESPONSE") \/ Refuse("by_addr", "NOT_FOUND")
    BY <1>3, <2>1, Zenon
  <2>2. CASE ~(Refuse("by_addr", "FAILED_RESPONSE") \/ Refuse("by_addr", "NOT_FOUND"))
    <3>1. PICK s \in Listings(tangle) : Begin("by_addr", s)
      BY <1>7, <2>2, Zenon DEF BundlesByAddr
    <3>2. s \in Seq(Txn)
      BY <1>1, ListingIs, Zenon
    <3> QED BY <1>2, <3>1, <3>2, Zenon
  <2> QED BY <2>1, <2>2, Zenon
<1>8. CASE BundleByHash
  <2>1. CASE Refuse("by_bundle", "FAILED_RESPONSE")
    BY <1>3, <2>1, Zenon
  <2>2. CASE ~Refuse("by_bundle", "FAILED_RESPONSE")
    <3>1. PICK new, one : /\ new = NewQuery("by_bundle", <<>>)
                          /\ query' \in {[new EXCEPT !.at = "crashed"], [new EXCEPT !.at = "done", !.bundles = one]}
      BY <1>8, <2>2, Zenon DEF BundleByHash
    <3>2. /\ DOMAIN new = QueryFields /\ new.i = 1 /\ new.asked = <<>> /\ new.uncached = <<>>
          /\ new.res = <<>> /\ new.fetched = <<>>
      BY <3>1, SMTT(20) DEF NewQuery, QueryFields
    <3>3. /\ DOMAIN query' = QueryFields /\ query'.i = 1 /\ query'.asked = <<>> /\ query'.uncached = <<>>
          /\ query'.res = <<>> /\ query'.fetched = <<>> /\ query'.at \in {"done", "crashed"}
      BY <3>1, <3>2, Zenon DEF QueryFields
    <3> QED BY <1>1, <3>3, EmptyIs, Zenon DEF QueryInv
  <2> QED BY <2>1, <2>2, Zenon
<1> QED BY <1>4, <1>5, <1>6, <1>7, <1>8, Zenon

\* A query that fails.
LEMMA FailKeeps ==
  ASSUME QueryInv, query # NoQuery, tangle' = tangle, NEW s, s # "OK", Fail(s)
  PROVE  QueryInv'
<1>1. tangle \subseteq Txn /\ QueryShape(query)
  BY Zenon DEF QueryInv
<1>2. query' = [query EXCEPT !.at = "done", !.status = s]
  BY Zenon DEF Fail
<1>3. /\ DOMAIN query' = QueryFields /\ query'.at = "done" /\ query'.status = s
      /\ query'.i = query.i /\ query'.asked = query.asked /\ query'.uncached = query.uncached
      /\ query'.res = query.res /\ query'.fetched = query.fetched /\ query'.kind = query.kind
  BY <1>1, <1>2, Zenon DEF QueryShape, QueryFields
<1>4. QueryShape(query')
  BY <1>1, <1>3, Zenon DEF QueryShape
<1>5. QueryProgress(tangle, query')
  BY <1>3, Zenon DEF QueryProgress
<1> QED BY <1>1, <1>4, <1>5, Zenon DEF QueryInv

\* The cache is asked.
LEMMA LookupKeeps ==
  ASSUME QueryInv, Lookup
  PROVE  QueryInv'
<1>1. tangle \subseteq Txn /\ QueryShape(query) /\ QueryProgress(tangle, query)
  BY Zenon DEF QueryInv, Lookup
<1>2. PICK k, a, r, u : k = query.i /\ a = query.asked /\ r = query.res /\ u = query.uncached
  OBVIOUS
<1>3. /\ k \in Nat \ {0} /\ a \in Seq(Txn) /\ r \in Seq(Txn) /\ u \in Seq(Txn)
      /\ query.fetched \in Seq(Txn \cup {NullTxn}) /\ DOMAIN query = QueryFields
      /\ query.kind \in {"objects", "by_tag"} => Len(a) <= ResultLimit
  BY <1>1, <1>2, Zenon DEF QueryShape
<1>4. query.at = "lookup" /\ tangle' = tangle
  BY Zenon DEF Lookup
<1>5. k <= Len(a) + 1 /\ query.fetched = <<>> /\ Range(r) \cup Range(u) = UpTo(a, k - 1)
  BY <1>1, <1>2, <1>4, Zenon DEF QueryProgress
<1>6. Len(a) \in Nat
  BY <1>3, SMTT(20)
<1>7. CASE k > Len(a)
  <2>1. query' = [query EXCEPT !.at = "fetch", !.i = 1]
    BY <1>2, <1>7, Zenon DEF Lookup
  <2>2. /\ DOMAIN query' = QueryFields /\ query'.at = "fetch" /\ query'.i = 1 /\ query'.asked = a /\ query'.uncached = u
        /\ query'.res = r /\ query'.fetched = <<>> /\ query'.fetched = query.fetched /\ query'.kind = query.kind
    BY <1>2, <1>3, <1>5, <2>1, Zenon DEF QueryFields
  <2>3. 1 \in Nat \ {0} /\ 1 <= Len(u) + 1 /\ k - 1 = Len(a)
    BY <1>3, <1>5, <1>6, <1>7, SMTT(20)
  <2>4. Range(r) \cup Range(u) = Range(a)
    <3>1. Range(a) = UpTo(a, Len(a))
      BY <1>3, AllOf, Zenon
    <3> QED BY <1>5, <2>3, <3>1, Zenon
  <2>5. Range(query'.fetched) = GotUpTo(tangle, u, 1 - 1)
    <3>1. Range(<<>>) = {}
      BY SMTT(20) DEF Range
    <3>2. GotUpTo(tangle, u, 1 - 1) = {}
      BY UpToNone, Zenon
    <3> QED BY <2>2, <3>1, <3>2, Zenon
  <2>6. QueryShape(query')
    BY <1>3, <2>2, <2>3, Zenon DEF QueryShape
  <2>7. QueryProgress(tangle, query')
    BY <2>2, <2>3, <2>4, <2>5, Zenon DEF QueryProgress
  <2> QED BY <1>1, <1>4, <2>6, <2>7, Zenon DEF QueryInv
<1>8. CASE ~(k > Len(a))
  <2>1. PICK t : t = a[k]
    OBVIOUS
  <2>2. k + 1 \in Nat \ {0} /\ k + 1 <= Len(a) + 1 /\ k \in 1..Len(a)
    BY <1>3, <1>6, <1>8, SMTT(20)
  <2>3. t \in Txn
    <3>1. \A S : \A q \in Seq(S) : \A p \in 1..Len(q) : q[p] \in S
      OBVIOUS
    <3> QED BY <1>3, <2>1, <2>2, <3>1, Zenon
  <2>4. PICK x, y : \/ x = Append(r, t) /\ y = u /\ query' = [query EXCEPT !.i = k + 1, !.res = x]
                    \/ x = r /\ y = Append(u, t) /\ query' = [query EXCEPT !.i = k + 1, !.uncached = y]
    BY <1>2, <1>8, <2>1, Zenon DEF Lookup
  <2>5. /\ DOMAIN query' = QueryFields /\ query'.at = "lookup" /\ query'.i = k + 1 /\ query'.asked = a /\ query'.uncached = y
        /\ query'.res = x /\ query'.fetched = query.fetched /\ query'.kind = query.kind
    BY <1>2, <1>3, <1>4, <2>4, Zenon DEF QueryFields
  <2>6. x \in Seq(Txn) /\ y \in Seq(Txn) /\ Range(x) \cup Range(y) = Range(r) \cup Range(u) \cup {t}
    <3>1. Append(r, t) \in Seq(Txn) /\ Grows(r, Append(r, t), {t})
      BY <1>3, <2>3, AppendIs, Zenon
    <3>2. Append(u, t) \in Seq(Txn) /\ Grows(u, Append(u, t), {t})
      BY <1>3, <2>3, AppendIs, Zenon
    <3> QED BY <1>3, <2>4, <3>1, <3>2, Zenon DEF Grows
  <2>7. Range(x) \cup Range(y) = UpTo(a, (k + 1) - 1)
    <3>1. UpTo(a, (k + 1) - 1) = UpTo(a, k - 1) \cup {a[k]}
      BY <1>3, UpToNext, Zenon
    <3> QED BY <1>5, <2>1, <2>6, <3>1, Zenon
  <2>8. QueryShape(query')
    BY <1>3, <2>2, <2>5, <2>6, Zenon DEF QueryShape
  <2>9. QueryProgress(tangle, query')
    BY <1>5, <2>2, <2>5, <2>7, Zenon DEF QueryProgress
  <2> QED BY <1>1, <1>4, <2>8, <2>9, Zenon DEF QueryInv
<1> QED BY <1>7, <1>8, Zenon

\* The array of fetched objects holds the new object, and what it held.
LEMMA FetchedIs ==
  ASSUME NEW S, NEW s \in Seq(S), NEW x \in S
  PROVE  Fetched(s, x) \in Seq(S) /\ Grows(s, Fetched(s, x), {x})
<1>1. PICK g : g = Append(s, x)
  BY Zenon
<1>2. g \in Seq(S) /\ Grows(s, g, {x})
  BY <1>1, AppendIs, Zenon
<1>3. g[1] \in S /\ g[1] \in Range(g)
  <2>1. 1 \in DOMAIN g
    BY <1>1, SMTT(20)
  <2>2. \A q \in Seq(S) : \A p \in DOMAIN q : q[p] \in S
    OBVIOUS
  <2> QED BY <1>2, <2>1, <2>2, Zenon DEF Range
<1>4. Append(g, g[1]) \in Seq(S) /\ Grows(g, Append(g, g[1]), {g[1]})
  BY <1>2, <1>3, AppendIs, Zenon
<1>5. Fetched(s, x) = Append(g, g[1])
  BY <1>1, Zenon DEF Fetched
<1> QED BY <1>2, <1>3, <1>4, <1>5, Zenon DEF Grows

\* The node is asked.
LEMMA GetKeeps ==
  ASSUME QueryInv, GetObject
  PROVE  QueryInv'
<1>1. tangle \subseteq Txn /\ QueryShape(query) /\ QueryProgress(tangle, query) /\ query # NoQuery
  BY Zenon DEF QueryInv, GetObject
<1>2. PICK k, u, o : k = query.i /\ u = query.uncached /\ o = query.fetched
  OBVIOUS
<1>3. /\ k \in Nat \ {0} /\ query.asked \in Seq(Txn) /\ query.res \in Seq(Txn) /\ u \in Seq(Txn)
      /\ o \in Seq(Txn \cup {NullTxn}) /\ DOMAIN query = QueryFields
      /\ query.kind \in {"objects", "by_tag"} => Len(query.asked) <= ResultLimit
  BY <1>1, <1>2, Zenon DEF QueryShape
<1>4. query.at = "fetch" /\ tangle' = tangle
  BY Zenon DEF GetObject
<1>5. k <= Len(u) + 1 /\ Range(query.res) \cup Range(u) = Range(query.asked) /\ Range(o) = GotUpTo(tangle, u, k - 1)
  BY <1>1, <1>2, <1>4, Zenon DEF QueryProgress
<1>6. Len(u) \in Nat
  BY <1>3, SMTT(20)
<1>7. CASE k > Len(u) /\ query' = [query EXCEPT !.at = "append", !.i = 1]
  <2>1. /\ DOMAIN query' = QueryFields /\ query'.at = "append" /\ query'.i = 1 /\ query'.asked = query.asked
        /\ query'.uncached = u /\ query'.res = query.res /\ query'.fetched = o /\ query'.kind = query.kind
    BY <1>2, <1>3, <1>7, Zenon DEF QueryFields
  <2>2. 1 \in Nat \ {0} /\ k - 1 = Len(u)
    BY <1>3, <1>5, <1>6, <1>7, SMTT(20)
  <2>3. QueryShape(query')
    BY <1>3, <2>1, <2>2, Zenon DEF QueryShape
  <2>4. Range(query'.fetched) = GotUpTo(tangle, query'.uncached, Len(query'.uncached))
    BY <1>5, <2>1, <2>2, Zenon
  <2>5. QueryProgress(tangle, query')
    BY <1>5, <2>1, <2>4, Zenon DEF QueryProgress
  <2> QED BY <1>1, <1>4, <2>3, <2>5, Zenon DEF QueryInv
<1>8. CASE Fail("FAILED_RESPONSE")
  BY <1>1, <1>4, <1>8, FailKeeps, Zenon
<1>9. CASE k <= Len(u) /\ query' = [query EXCEPT !.i = k + 1, !.fetched = Fetched(o, Got(tangle, u[k]))]
  <2>1. PICK t, x : t = Got(tangle, u[k]) /\ x = Fetched(o, t)
    OBVIOUS
  <2>2. k + 1 \in Nat \ {0} /\ k + 1 <= Len(u) + 1 /\ k \in 1..Len(u)
    BY <1>3, <1>6, <1>9, SMTT(20)
  <2>3. t \in Txn \cup {NullTxn}
    BY <1>1, <2>1, Zenon DEF Got
  <2>4. /\ DOMAIN query' = QueryFields /\ query'.at = "fetch" /\ query'.i = k + 1 /\ query'.asked = query.asked
        /\ query'.uncached = u /\ query'.res = query.res /\ query'.fetched = x /\ query'.kind = query.kind
    BY <1>2, <1>3, <1>4, <1>9, <2>1, Zenon DEF QueryFields
  <2>5. x \in Seq(Txn \cup {NullTxn}) /\ Range(x) = Range(o) \cup {t}
    <3>1. PICK S : S = Txn \cup {NullTxn}
      BY Zenon
    <3>2. o \in Seq(S) /\ t \in S
      BY <1>3, <2>3, <3>1, Zenon
    <3>3. Fetched(o, t) \in Seq(S) /\ Grows(o, Fetched(o, t), {t})
      BY <3>2, FetchedIs, Zenon
    <3> QED BY <2>1, <3>1, <3>3, Zenon DEF Grows
  <2>6. Range(x) = GotUpTo(tangle, u, (k + 1) - 1)
    <3>1. GotUpTo(tangle, u, (k + 1) - 1) = GotUpTo(tangle, u, k - 1) \cup {Got(tangle, u[k])}
      BY <1>3, GotNext, Zenon
    <3> QED BY <1>5, <2>1, <2>5, <3>1, Zenon
  <2>7. QueryShape(query')
    BY <1>3, <2>2, <2>4, <2>5, Zenon DEF QueryShape
  <2>8. QueryProgress(tangle, query')
    BY <1>5, <2>2, <2>4, <2>6, Zenon DEF QueryProgress
  <2> QED BY <1>1, <1>4, <2>7, <2>8, Zenon DEF QueryInv
<1> QED BY <1>2, <1>7, <1>8, <1>9, Zenon DEF GetObject, Got

\* What was fetched joins the result.
LEMMA AppendKeeps ==
  ASSUME QueryInv, AppendFetched
  PROVE  QueryInv'
<1>1. tangle \subseteq Txn /\ QueryShape(query) /\ QueryProgress(tangle, query) /\ query # NoQuery
  BY Zenon DEF QueryInv, AppendFetched
<1>2. PICK r, u, o : r = query.res /\ u = query.uncached /\ o = query.fetched
  OBVIOUS
<1>3. /\ query.asked \in Seq(Txn) /\ r \in Seq(Txn) /\ u \in Seq(Txn)
      /\ o \in Seq(Txn \cup {NullTxn}) /\ DOMAIN query = QueryFields
      /\ query.kind \in {"objects", "by_tag"} => Len(query.asked) <= ResultLimit
  BY <1>1, <1>2, Zenon DEF QueryShape
<1>4. query.at = "append" /\ tangle' = tangle
  BY Zenon DEF AppendFetched
<1>5. Range(r) \cup Range(u) = Range(query.asked) /\ Range(o) = GotUpTo(tangle, u, Len(u))
  BY <1>1, <1>2, <1>4, Zenon DEF QueryProgress
<1>6. CASE NotFound(o)
  <2>1. Fail("NOT_FOUND")
    BY <1>2, <1>6, Zenon DEF AppendFetched
  <2> QED BY <1>1, <1>4, <2>1, FailKeeps, Zenon
<1>7. CASE ~NotFound(o)
  <2>1. NullTxn \notin Range(o)
    BY <1>7, Zenon DEF NotFound
  <2>2. Range(o) = Range(u)
    <3>1. Range(u) = UpTo(u, Len(u))
      BY <1>3, AllOf, Zenon
    <3>2. \A j \in 1..Len(u) : Got(tangle, u[j]) # NullTxn
      BY <1>5, <2>1, Zenon DEF GotUpTo
    <3>3. \A j \in 1..Len(u) : Got(tangle, u[j]) = u[j]
      BY <3>2, Zenon DEF Got
    <3>4. GotUpTo(tangle, u, Len(u)) = UpTo(u, Len(u))
      BY <3>3, Zenon DEF GotUpTo, UpTo
    <3> QED BY <1>5, <3>1, <3>4, Zenon
  <2>3. o \in Seq(Txn)
    BY <1>3, <2>1, NoNull, Zenon
  <2>4. PICK x : x = r \o o
    BY Zenon
  <2>5. x \in Seq(Txn) /\ Range(x) = Range(query.asked)
    <3>1. r \o o \in Seq(Txn) /\ Grows(r, r \o o, Range(o))
      BY <1>3, <2>3, JoinedIs, Zenon
    <3> QED BY <1>5, <2>2, <2>4, <3>1, Zenon DEF Grows
  <2>6. \E a \in {"bundles", "done"} : query' = [query EXCEPT !.at = a, !.i = 1, !.res = x]
    BY <1>2, <1>7, <2>4, Zenon DEF AppendFetched
  <2>7. /\ DOMAIN query' = QueryFields /\ query'.at \in {"bundles", "done"} /\ query'.i = 1 /\ query'.asked = query.asked
        /\ query'.uncached = u /\ query'.res = x /\ query'.fetched = o /\ query'.kind = query.kind
    BY <1>2, <1>3, <2>6, Zenon DEF QueryFields
  <2>8. 1 \in Nat \ {0}
    BY SMTT(20)
  <2>9. QueryShape(query')
    BY <1>3, <2>5, <2>7, <2>8, Zenon DEF QueryShape
  <2>10. QueryProgress(tangle, query')
    BY <2>5, <2>7, Zenon DEF QueryProgress
  <2> QED BY <1>1, <1>4, <2>9, <2>10, Zenon DEF QueryInv
<1> QED BY <1>6, <1>7, Zenon

\* The bundles of the result are fetched, which leaves the result alone.
LEMMA BundleKeeps ==
  ASSUME QueryInv, ta_get_bundle \/ BundlesDone
  PROVE  QueryInv'
<1>1. /\ tangle \subseteq Txn /\ QueryShape(query) /\ QueryProgress(tangle, query) /\ query # NoQuery
      /\ query.at = "bundles" /\ tangle' = tangle
  BY Zenon DEF QueryInv, ta_get_bundle, BundlesDone
<1>2. Range(query.res) = Range(query.asked)
  BY <1>1, Zenon DEF QueryProgress
<1>3. CASE Fail("FAILED_RESPONSE")
  BY <1>1, <1>3, FailKeeps, Zenon
<1>4. CASE ~Fail("FAILED_RESPONSE")
  <2>1. \/ query' = [query EXCEPT !.i = query.i + 1] \/ query' = [query EXCEPT !.at = "done"]
        \/ \E b : query' = [query EXCEPT !.i = query.i + 1, !.bundles = b]
    BY <1>4, Zenon DEF ta_get_bundle, BundlesDone
  <2>2. query.i \in Nat \ {0} /\ query.i + 1 \in Nat \ {0} /\ DOMAIN query = QueryFields
    <3>1. query.i \in Nat \ {0} /\ DOMAIN query = QueryFields
      BY <1>1, Zenon DEF QueryShape
    <3> QED BY <3>1, SMTT(20)
  <2>3. /\ DOMAIN query' = QueryFields /\ query'.at \in {"bundles", "done"} /\ query'.i \in {query.i, query.i + 1}
        /\ query'.asked = query.asked /\ query'.uncached = query.uncached /\ query'.res = query.res
        /\ query'.fetched = query.fetched /\ query'.kind = query.kind
    BY <1>1, <2>1, <2>2, Zenon DEF QueryFields
  <2>4. QueryShape(query')
    BY <1>1, <2>2, <2>3, Zenon DEF QueryShape
  <2>5. QueryProgress(tangle, query')
    BY <1>2, <2>3, Zenon DEF QueryProgress
  <2> QED BY <1>1, <2>4, <2>5, Zenon DEF QueryInv
<1> QED BY <1>3, <1>4, Zenon

\* Every step keeps the invariant.
LEMMA QueryInvStep == QueryInv /\ [QueryNext]_qvars => QueryInv'
<1> SUFFICES ASSUME QueryInv, [QueryNext]_qvars PROVE QueryInv'
  OBVIOUS
<1>1. CASE UNCHANGED qvars
  BY <1>1, Zenon DEF qvars, QueryInv
<1> QED BY <1>1, BeginKeeps, LookupKeeps, GetKeeps, AppendKeeps, BundleKeeps, Zenon DEF QueryNext

\* A query that succeeds returns the objects of exactly the transactions it was
\* asked for, and asks for no more than the limit, however many bundles,
\* attachments and transactions there are and whatever is cached (core.c:285,
\* core.c:238, apis.c:77).
THEOREM AnswersAreAsked == QuerySpec => [](FoundAreAsked /\ AsksWithinLimit)
<1>1. QueryInv => FoundAreAsked
  BY Zenon DEF QueryInv, QueryProgress, FoundAreAsked, Answered
<1>2. QueryInv => AsksWithinLimit
  BY Zenon DEF QueryInv, QueryShape, AsksWithinLimit
<1> QED BY QueryInvInit, QueryInvStep, <1>1, <1>2, PTL DEF QuerySpec

-----------------------------------------------------------------------------
(* The allocations of a deserializer *)

\* The protocol a document may name.
MamV1 == Text(1, "MAM_V1")
\* The forms whose object holds a protocol.
Mam == {"send_mam", "recv_mam"}

\* The form is known and the object has its fields.
FormTypes ==
    /\ form \in {"send_transfer", "send_mam", "recv_mam", "register", "send_mam_res", "recv_mam_res"}
    /\ at \in Nat /\ (form \in Mam => "protocol" \in DOMAIN object)

\* The local copies are those of recv_mam, and the named protocol is held once
\* it was read.
HeapInv ==
    /\ FormTypes /\ (stage = "encode" => form \notin Mam)
    /\ stage \notin {"decoded", "freed"} /\ "local" \in heap => form = "recv_mam"
    /\ stage = "decoded" /\ "local" \in heap => form = "recv_mam" /\ json.msg_id = Cased
    /\ form \in Mam /\ json.protocol = MamV1 /\ (at # 1 \/ stage = "decoded") => object.protocol = MamV1
    /\ FreedOnEveryPath

\* The fields of a form as a list.
LEMMA FieldsAre ==
  /\ Fields["send_transfer"] = <<"value", "address", "tag", "message_format", "message">>
  /\ Fields["send_mam"] = <<"protocol", "x_api_key", "psk", "ntru", "data", "seed", "chid", "message", "ch_mss_depth">>
  /\ Fields["recv_mam"] = <<"protocol", "psk", "ntru", "data_id", "bundle_hash", "chid", "msg_id", "set_data_id">>
  /\ Fields["register"] = <<"seed">>
  /\ Fields["send_mam_res"] = <<"chid", "msg_id", "bundle_hash", "chid1", "announcement_bundle_hash">>
  /\ Fields["recv_mam_res"] = <<"payload", "chid1">>
BY SMTT(20) DEF Fields

\* The protocol comes first.
LEMMA ProtocolFirst ==
  ASSUME NEW f \in Mam
  PROVE  Fields[f][1] = "protocol" /\ "protocol" \in FieldsOf(f)
<1>1. Fields[f][1] = "protocol"
  BY FieldsAre, SMTT(20) DEF Mam
<1>2. 1 \in DOMAIN Fields[f]
  BY FieldsAre, SMTT(20) DEF Mam
<1>3. "protocol" \in FieldsOf(f)
  BY <1>1, <1>2, Zenon DEF FieldsOf, Range
<1> QED BY <1>1, <1>3, Zenon

\* The invariant holds before anything was read.
LEMMA HeapInvInit == SerializerInit => HeapInv
<1> SUFFICES ASSUME SerializerInit PROVE HeapInv
  OBVIOUS
<1>1. PICK s \in {"encode", "decode"} : stage = s /\ at = 1 /\ object = New(form) /\ heap = {"object"}
  BY Zenon DEF SerializerInit, Start
<1>2. form \in {"send_transfer", "send_mam", "recv_mam", "register", "send_mam_res", "recv_mam_res"}
  <2>1. DOMAIN Document = {"send_transfer", "send_mam", "recv_mam", "register"}
    BY SMTT(20) DEF Document
  <2>2. DOMAIN Response = {"send_mam_res", "recv_mam_res"}
    BY SMTT(20) DEF Response
  <2>3. form \in DOMAIN Document \/ form \in DOMAIN Response
    BY Zenon DEF SerializerInit, Start
  <2> QED BY <2>1, <2>2, <2>3, Zenon
<1>3. FormTypes
  <2>1. 1 \in Nat
    BY SMTT(20)
  <2>2. DOMAIN object = FieldsOf(form)
    BY <1>1, Zenon DEF New
  <2> QED BY <1>1, <1>2, <2>1, <2>2, ProtocolFirst, Zenon DEF FormTypes
<1>4. stage = "encode" => form \notin Mam
  <2>1. DOMAIN Response = {"send_mam_res", "recv_mam_res"}
    BY SMTT(20) DEF Response
  <2>2. stage = "encode" => form \in DOMAIN Response
    BY Zenon DEF SerializerInit, Start
  <2> QED BY <2>1, <2>2, Zenon DEF Mam
<1> QED BY <1>1, <1>3, <1>4, Zenon DEF HeapInv, FreedOnEveryPath

\* What a step allocates is a local copy only for recv_mam.
LEMMA LocalIsRecv ==
  ASSUME NEW f, NEW v, "local" \in Allocated(f, v), form # "recv_mam"
  PROVE  FALSE
BY Zenon DEF Allocated

\* A field is read.
LEMMA DecodeKeeps ==
  ASSUME HeapInv, Decode
  PROVE  HeapInv'
<1>1. PICK f : f = Fields[form][at]
  OBVIOUS
<1>2. PICK v : v = json[f]
  OBVIOUS
<1>3. stage = "decode" /\ \E p \in IF f = "protocol" THEN Protocol(v) ELSE {"MAM_V1"} : DecodeField(f, v, p)
  BY <1>1, <1>2, Zenon DEF Decode
<1>4. PICK p : DecodeField(f, v, p) /\ (f = "protocol" => p \in Protocol(v))
  BY <1>3, Zenon
<1>5. PICK h, s, skipped :
        /\ skipped \in BOOLEAN /\ h \in {heap, heap \cup Allocated(f, v)}
        /\ object' = CASE f = "protocol" -> [object EXCEPT ![f] = Text(1, p)]
                       [] f # "protocol" /\ s = "OK" -> [object EXCEPT ![f] = Stored(f, v)]
                       [] OTHER -> object
        /\ IF Failed(s) \/ skipped \/ at = Len(Fields[form])
             THEN stage' = "decoded" /\ heap' = Release(f, v, h) /\ UNCHANGED at
             ELSE heap' = h /\ at' = Following(f) /\ UNCHANGED stage
        /\ UNCHANGED <<form, json, origin>>
  <2>1. PICK s : s = Status(f, v)
    OBVIOUS
  <2>2. PICK skipped \in BOOLEAN : skipped = (form = "recv_mam" /\ f = "protocol" /\ p = "garbage")
    BY Zenon
  <2>3. PICK h : h = heap \cup (IF (s = "OK" /\ ~skipped) \/ f = "message" THEN Allocated(f, v) ELSE {})
    BY Zenon
  <2>4. h \in {heap, heap \cup Allocated(f, v)}
    BY <2>3, Zenon
  <2> QED BY <1>4, <2>1, <2>2, <2>3, <2>4, Zenon DEF DecodeField
<1>6. "local" \in h => form = "recv_mam"
  BY <1>3, <1>5, LocalIsRecv, Zenon DEF HeapInv
<1>7. \/ stage' = "decoded" /\ heap' = Release(f, v, h) /\ at' = at
      \/ stage' = "decode" /\ heap' = h /\ at' = Following(f)
  BY <1>3, <1>5, Zenon
<1>8. stage' = "decoded" /\ "local" \in heap' => form' = "recv_mam" /\ json'.msg_id = Cased
  <2>1. ASSUME "local" \in Release(f, v, h) PROVE "local" \in h /\ f = "msg_id" /\ v = Cased
    BY <2>1, Zenon DEF Release
  <2> QED BY <1>2, <1>5, <1>6, <1>7, <2>1, Zenon
<1>9. stage' # "decoded" /\ "local" \in heap' => form' = "recv_mam"
  BY <1>5, <1>6, <1>7, Zenon
<1>10. DOMAIN object' = DOMAIN object
  BY <1>5, Zenon
<1>11. at' \in Nat
  <2>1. at \in Nat
    BY Zenon DEF HeapInv, FormTypes
  <2>2. \A q : Len(Fields[form]) \in Nat
    BY FieldsAre, SMTT(20) DEF HeapInv, FormTypes
  <2>3. at + 1 \in Nat
    BY <2>1, SMTT(20)
  <2> QED BY <1>7, <2>1, <2>2, <2>3, Zenon DEF Following
<1>12. FormTypes'
  BY <1>5, <1>10, <1>11, Zenon DEF HeapInv, FormTypes
<1>13. ASSUME form \in Mam, json.protocol = MamV1 PROVE object'.protocol = MamV1
  <2>1. "protocol" \in DOMAIN object
    BY <1>13, Zenon DEF HeapInv, FormTypes
  <2>2. CASE f = "protocol"
    <3>1. v = MamV1
      BY <1>2, <1>13, <2>2, Zenon
    <3>2. p = "MAM_V1"
      BY <1>4, <2>2, <3>1, Zenon DEF Protocol, MamV1
    <3>3. object' = [object EXCEPT !["protocol"] = Text(1, p)]
      BY <1>5, <2>2, Zenon
    <3> QED BY <2>1, <3>2, <3>3, Zenon DEF MamV1
  <2>3. CASE f # "protocol"
    <3>1. at # 1
      BY <1>1, <1>13, <2>3, ProtocolFirst, Zenon
    <3>2. object.protocol = MamV1
      BY <1>13, <3>1, Zenon DEF HeapInv
    <3>3. object' = object \/ \E w : object' = [object EXCEPT ![f] = w]
      BY <1>5, <2>3, Zenon
    <3> QED BY <2>1, <2>3, <3>2, <3>3, Zenon
  <2> QED BY <2>2, <2>3, Zenon
<1>14. FreedOnEveryPath'
  BY <1>7, Zenon DEF FreedOnEveryPath
<1> QED BY <1>5, <1>7, <1>8, <1>9, <1>12, <1>13, <1>14, Zenon DEF HeapInv

\* The object is freed.
LEMMA FreeKeeps ==
  ASSUME HeapInv, Free
  PROVE  HeapInv'
<1>1. /\ stage = "decoded" /\ stage' = "freed" /\ UNCHANGED <<form, json, at, object, origin, ret>>
      /\ heap' = IF form \in Mam /\ object.protocol # MamV1 THEN heap \ {"object"} ELSE heap \cap {"local"}
  BY Zenon DEF Free, Mam, MamV1
<1>2. FreedOnEveryPath'
  <2>1. CASE form \in Mam /\ object.protocol # MamV1
    BY <1>1, <2>1, Zenon DEF HeapInv, FreedOnEveryPath, Mam, MamV1
  <2>2. CASE ~(form \in Mam /\ object.protocol # MamV1)
    BY <1>1, <2>2, Zenon DEF HeapInv, FreedOnEveryPath
  <2> QED BY <2>1, <2>2, Zenon
<1> QED BY <1>1, <1>2, Zenon DEF HeapInv, FormTypes

\* Every step keeps the invariant.
LEMMA HeapInvStep == HeapInv /\ [SerializerNext]_zvars => HeapInv'
<1> SUFFICES ASSUME HeapInv, [SerializerNext]_zvars PROVE HeapInv'
  OBVIOUS
<1>1. CASE Encode
  BY <1>1, Zenon DEF Encode, HeapInv, FormTypes, FreedOnEveryPath
<1>2. CASE Crash
  BY <1>2, Zenon DEF Crash, HeapInv, FormTypes, FreedOnEveryPath
<1>3. CASE UNCHANGED zvars
  BY <1>3, Zenon DEF zvars, HeapInv, FormTypes, FreedOnEveryPath
<1> QED BY <1>1, <1>2, <1>3, DecodeKeeps, FreeKeeps, Zenon DEF SerializerNext

\* Whatever status a deserializer stops with, for every length of the texts,
\* freeing the request returns every allocation, but for the two documents the
\* property names (ser_mam.c:277, ta_send_mam.c:74, ta_recv_mam.c:49).
THEOREM RequestsAreFreed == SerializerSpec => []FreedOnEveryPath
<1>1. HeapInv => FreedOnEveryPath
  BY Zenon DEF HeapInv
<1> QED BY HeapInvInit, HeapInvStep, <1>1, PTL DEF SerializerSpec

-----------------------------------------------------------------------------
(* What an accepted request holds *)

\* The document is being read, or has been.
Reading == stage \in {"decode", "decoded"}

\* A transfer: what ta_send_transfer takes is right from the field that holds
\* it on, and reading stops early with an error only.
TransferInv ==
    form = "send_transfer" /\ Reading =>
        /\ at \in {1, 2, 3, 4, 5} /\ json \in Document["send_transfer"]
        /\ {"tag", "message"} \subseteq DOMAIN object
        /\ stage = "decode" => ret = "OK"
        /\ at \in {4, 5} => object.tag.len = TagLen /\ object.tag.kind # "overread"
        /\ Used => at = 5 /\ (object.message.kind # "trits" => object.message.len <= MessageLen)

\* A MAM message to send: the identifiers are right at any time, the message
\* once it has been read without an error, which the last field keeps.
SendMamInv ==
    form = "send_mam" /\ Reading =>
        /\ at \in {1, 2, 3, 4, 5, 6, 7, 8, 9} /\ {"seed", "chid", "message"} \subseteq DOMAIN object
        /\ object.seed = Absent \/ object.seed.len = HashLen
        /\ object.chid = Absent \/ object.chid.len = HashLen
        /\ at = 9 /\ ret = "OK" => IsText(object.message)
        /\ Used => at = 9

\* A MAM message to receive: a bundle hash makes the reading skip the other
\* identifiers, which are read after it; reading ends with an identifier.
RecvMamInv ==
    form = "recv_mam" /\ Reading =>
        /\ at \in {1, 2, 3, 4, 5, 6, 7, 8} /\ IdFields \subseteq DOMAIN object
        /\ at \in {1, 2, 3, 4, 5} => object.chid = Absent /\ object.msg_id = Absent
        /\ at \in {6, 7} => object.bundle_hash = Absent
        /\ object.bundle_hash # Absent => object.chid = Absent /\ object.msg_id = Absent
        /\ Used /\ json.protocol = MamV1 => \E f \in IdFields : object[f] # Absent

\* The three of them; a request is not written first.
ReadInv ==
    /\ stage = "encode" => form \notin {"send_transfer", "send_mam", "recv_mam"}
    /\ TransferInv /\ SendMamInv /\ RecvMamInv

\* The parts of a text.
LEMMA TextParts ==
  ASSUME NEW n, NEW k
  PROVE  Text(n, k).type = "text" /\ Text(n, k).len = n /\ Text(n, k).kind = k
BY Zenon DEF Text, Value

\* A field that may be a text.
LEMMA TextsAre ==
  ASSUME NEW kinds, NEW v \in Texts(kinds)
  PROVE  v.len \in Nat /\ v.kind \in kinds \cup {"none"}
<1>1. CASE v \in {Absent, Numeral}
  <2>1. v.len = 0 /\ v.kind = "none"
    BY <1>1, SMTT(20) DEF Absent, Numeral, Value
  <2>2. 0 \in Nat
    BY SMTT(20)
  <2> QED BY <2>1, <2>2, Zenon
<1>2. CASE \E n \in 1..MaxLen, k \in kinds : v = Text(n, k)
  <2>1. PICK n \in 1..MaxLen, k \in kinds : v = Text(n, k)
    BY <1>2, Zenon
  <2>2. n \in Nat
    BY SMTT(20)
  <2>3. Text(n, k).len = n /\ Text(n, k).kind = k
    BY TextParts, Zenon
  <2> QED BY <2>1, <2>2, <2>3, Zenon
<1> QED BY <1>1, <1>2, SMTT(20) DEF Texts

\* One field read: what becomes of the object, the status and the position.
ReadAs(f, v, s, p) ==
    /\ f = Fields[form][at] /\ v = json[f] /\ s = Status(f, v) /\ (f = "protocol" => p \in Protocol(v))
    /\ form' = form /\ json' = json /\ ret' = Merge(s)
    /\ f = "protocol" => object' = [object EXCEPT !["protocol"] = Text(1, p)]
    /\ f # "protocol" /\ s = "OK" => object' = [object EXCEPT ![f] = Stored(f, v)]
    /\ f # "protocol" /\ s # "OK" => object' = object
    /\ \/ /\ stage' = "decoded" /\ at' = at
          /\ Failed(s) \/ at = Len(Fields[form]) \/ (form = "recv_mam" /\ f = "protocol" /\ p = "garbage")
       \/ stage' = "decode" /\ at' = Following(f) /\ ~Failed(s) /\ at # Len(Fields[form])

\* A step of a deserializer reads one field.
LEMMA ReadsOne ==
  ASSUME Decode
  PROVE  stage = "decode" /\ \E f, v, s, p : ReadAs(f, v, s, p)
<1>1. PICK f, v : f = Fields[form][at] /\ v = json[f]
  BY Zenon
<1>2. stage = "decode" /\ \E p \in IF f = "protocol" THEN Protocol(v) ELSE {"MAM_V1"} : DecodeField(f, v, p)
  BY <1>1, Zenon DEF Decode
<1>3. PICK p : DecodeField(f, v, p) /\ (f = "protocol" => p \in Protocol(v))
  BY <1>2, Zenon
<1>4. PICK s : s = Status(f, v)
  BY Zenon
<1>5. /\ ret' = Merge(s) /\ UNCHANGED <<form, json>>
      /\ object' = CASE f = "protocol" -> [object EXCEPT ![f] = Text(1, p)]
                     [] f # "protocol" /\ s = "OK" -> [object EXCEPT ![f] = Stored(f, v)]
                     [] OTHER -> object
  BY <1>3, <1>4, Zenon DEF DecodeField
<1>6. \/ /\ stage' = "decoded" /\ at' = at
         /\ Failed(s) \/ at = Len(Fields[form]) \/ (form = "recv_mam" /\ f = "protocol" /\ p = "garbage")
      \/ stage' = "decode" /\ at' = Following(f) /\ ~Failed(s) /\ at # Len(Fields[form])
  BY <1>2, <1>3, <1>4, Zenon DEF DecodeField
<1>7. ReadAs(f, v, s, p)
  BY <1>1, <1>3, <1>4, <1>5, <1>6, Zenon DEF ReadAs
<1> QED BY <1>2, <1>7, Zenon

\* The tag has its length: a short one is filled, a long one is cut.
LEMMA StoredTag ==
  ASSUME form = "send_transfer", NEW v \in Texts({"tryte", "ascii"})
  PROVE  Stored("tag", v).len = TagLen /\ Stored("tag", v).kind # "overread"
<1>1. Stored("tag", v) = TagOf(v)
  BY Zenon DEF Stored, TransferValue
<1>2. v.kind # "overread" /\ v.len \in Nat
  <2>1. v.len \in Nat /\ v.kind \in {"tryte", "ascii"} \cup {"none"}
    BY TextsAre
  <2> QED BY <2>1, Zenon
<1>3. (v.len < TagLen /\ ~(v.len >= TagLen)) \/ (v.len >= TagLen /\ ~(v.len < TagLen))
  BY <1>2, SerializerAssumption, SMTT(20)
<1>4. \A k : Text(TagLen, k).len = TagLen /\ Text(TagLen, k).kind = k
  BY TextParts, Zenon
<1>5. TagOf(v) = Text(TagLen, "tryte") \/ TagOf(v) = Text(TagLen, v.kind) \/ TagOf(v) = Text(TagLen, "default")
  <2>1. CASE IsText(v) /\ v.len < TagLen /\ ~(v.len >= TagLen)
    BY <2>1, Zenon DEF TagOf
  <2>2. CASE IsText(v) /\ v.len >= TagLen /\ ~(v.len < TagLen)
    BY <2>2, Zenon DEF TagOf, Trytes
  <2>3. CASE ~IsText(v)
    BY <2>3, Zenon DEF TagOf
  <2> QED BY <1>3, <2>1, <2>2, <2>3, Zenon
<1> QED BY <1>1, <1>2, <1>4, <1>5, Zenon

\* A message that is accepted fits after its conversion.
LEMMA StoredMessage ==
  ASSUME form = "send_transfer", NEW v \in Texts({"ascii", "unicode"}), Status("message", v) = "OK",
         Stored("message", v).kind # "trits"
  PROVE  Stored("message", v).len <= MessageLen
<1>1. Stored("message", v) = IF IsText(v) THEN Text(MsgLen(v), IF Raw THEN "tryte" ELSE v.kind) ELSE Text(3, "trits")
  BY Zenon DEF Stored, TransferValue
<1>2. IsText(v)
  <2>1. Text(3, "trits").kind = "trits"
    BY TextParts, SMTT(20)
  <2> QED BY <1>1, <2>1, Zenon
<1>3. Stored("message", v).len = MsgLen(v)
  <2>1. \A k : Text(MsgLen(v), k).len = MsgLen(v)
    BY TextParts, Zenon
  <2> QED BY <1>1, <1>2, <2>1, Zenon
<1>4. TransferStatus("message", v) = "OK"
  BY Zenon DEF Status
<1>5. ~(MsgLen(v) > MessageLen)
  BY <1>2, <1>4, Zenon DEF TransferStatus
<1>6. MsgLen(v) \in Nat /\ MessageLen \in Nat
  <2>1. v.len \in Nat /\ 2 * v.len \in Nat
    <3>1. v.len \in Nat
      BY TextsAre
    <3> QED BY <3>1, SMTT(20)
  <2>2. MessageLen \in Nat
    BY SerializerAssumption, Zenon
  <2> QED BY <2>1, <2>2, Zenon DEF MsgLen
<1> QED BY <1>3, <1>5, <1>6, SMTT(20)

\* The order in which a transfer is read.
LEMMA TransferFields ==
  /\ Fields["send_transfer"][1] = "value" /\ Fields["send_transfer"][2] = "address"
  /\ Fields["send_transfer"][3] = "tag" /\ Fields["send_transfer"][4] = "message_format"
  /\ Fields["send_transfer"][5] = "message" /\ Len(Fields["send_transfer"]) = 5
BY FieldsAre, SMTT(20)

\* Reading a field of a transfer.
LEMMA TransferStep ==
  ASSUME form = "send_transfer", TransferInv, Decode
  PROVE  TransferInv'
<1>1. stage = "decode" /\ \E f, v, s, p : ReadAs(f, v, s, p)
  BY ReadsOne, Zenon
<1>2. PICK f, v, s, p : ReadAs(f, v, s, p)
  BY <1>1, Zenon
<1>3. /\ f = Fields[form][at] /\ v = json[f] /\ s = Status(f, v) /\ form' = form /\ json' = json /\ ret' = Merge(s)
      /\ f # "protocol" /\ s = "OK" => object' = [object EXCEPT ![f] = Stored(f, v)]
      /\ f # "protocol" /\ s # "OK" => object' = object
  BY <1>2, Zenon DEF ReadAs
<1>4. /\ at \in {1, 2, 3, 4, 5} /\ json \in Document["send_transfer"] /\ ret = "OK"
      /\ {"tag", "message"} \subseteq DOMAIN object
      /\ at \in {4, 5} => object.tag.len = TagLen /\ object.tag.kind # "overread"
  BY <1>1, Zenon DEF TransferInv, Reading
<1>5. json.tag \in Texts({"tryte", "ascii"}) /\ json.message \in Texts({"ascii", "unicode"})
  BY <1>4, Zenon DEF Document
<1>6. Failed(s) <=> s # "OK"
  BY Zenon DEF Failed
<1>7. ret' = s
  BY <1>3, <1>4, Zenon DEF Merge
<1>8. f = "protocol" => FALSE
  BY <1>3, <1>4, TransferFields, Zenon
<1>9. \/ stage' = "decoded" /\ at' = at /\ (s # "OK" \/ at = 5)
      \/ stage' = "decode" /\ at' = at + 1 /\ s = "OK" /\ at # 5
  BY <1>2, <1>6, <1>8, TransferFields, Zenon DEF ReadAs, Following
<1>10. DOMAIN object' = DOMAIN object
  BY <1>3, <1>8, Zenon
<1>11. (stage' = "decode" => ret' = "OK") /\ (stage' = "decoded" /\ ret' = "OK" => at' = 5 /\ at = 5)
  BY <1>7, <1>9, Zenon
<1>12. /\ at' \in {1, 2, 3, 4, 5}
       /\ at' \in {4, 5} => at \in {4, 5} \/ (at = 3 /\ s = "OK")
  <2>1. 1 + 1 = 2 /\ 2 + 1 = 3 /\ 3 + 1 = 4 /\ 4 + 1 = 5
    BY SMTT(20)
  <2>2. 3 \notin {4, 5} /\ 1 \notin {4, 5} /\ 2 \notin {4, 5}
    BY SMTT(20)
  <2> QED BY <1>4, <1>9, <2>1, <2>2, Zenon
<1>13. at' \in {4, 5} => object'.tag.len = TagLen /\ object'.tag.kind # "overread"
  <2>1. CASE f = "tag" /\ s = "OK"
    <3>1. object'.tag = Stored("tag", json.tag)
      BY <1>3, <1>4, <2>1, Zenon
    <3> QED BY <1>5, <3>1, StoredTag, Zenon
  <2>2. CASE ~(f = "tag" /\ s = "OK")
    <3>1. object'.tag = object.tag
      BY <1>3, <1>4, <1>8, <2>2, Zenon
    <3> QED BY <1>3, <1>4, <1>12, <2>2, <3>1, TransferFields, Zenon
  <2> QED BY <2>1, <2>2, Zenon
<1>14. stage' = "decoded" /\ ret' = "OK" => (object'.message.kind # "trits" => object'.message.len <= MessageLen)
  <2> SUFFICES ASSUME stage' = "decoded", ret' = "OK"
               PROVE  object'.message.kind # "trits" => object'.message.len <= MessageLen
    BY Zenon
  <2>1. f = "message" /\ s = "OK"
    BY <1>3, <1>7, <1>11, TransferFields, Zenon
  <2>2. object'.message = Stored("message", json.message) /\ Status("message", json.message) = "OK"
    BY <1>3, <1>4, <2>1, Zenon
  <2> QED BY <1>5, <2>2, StoredMessage, Zenon
<1> QED BY <1>3, <1>4, <1>10, <1>11, <1>12, <1>13, <1>14, Zenon DEF TransferInv, Used

\* The order in which a message to send is read.
LEMMA SendMamFields ==
  /\ Fields["send_mam"][1] = "protocol" /\ Fields["send_mam"][2] = "x_api_key" /\ Fields["send_mam"][3] = "psk"
  /\ Fields["send_mam"][4] = "ntru" /\ Fields["send_mam"][5] = "data" /\ Fields["send_mam"][6] = "seed"
  /\ Fields["send_mam"][7] = "chid" /\ Fields["send_mam"][8] = "message" /\ Fields["send_mam"][9] = "ch_mss_depth"
  /\ Len(Fields["send_mam"]) = 9
BY FieldsAre, SMTT(20)

\* A seed or a channel that is stored has the length of a hash.
LEMMA StoredSeed ==
  ASSUME form = "send_mam", NEW f \in {"seed", "chid"}, NEW v
  PROVE  Stored(f, v) = Absent \/ Stored(f, v).len = HashLen
<1>1. CASE IsText(v)
  <2>1. Stored(f, v) = Text(HashLen, v.kind)
    BY <1>1, Zenon DEF Stored
  <2>2. Text(HashLen, v.kind).len = HashLen
    BY TextParts, Zenon
  <2> QED BY <2>1, <2>2, Zenon
<1>2. CASE ~IsText(v)
  BY <1>2, Zenon DEF Stored
<1> QED BY <1>1, <1>2, Zenon

\* Reading a field of a message to send.
LEMMA SendMamStep ==
  ASSUME form = "send_mam", SendMamInv, Decode
  PROVE  SendMamInv'
<1>1. stage = "decode" /\ \E f, v, s, p : ReadAs(f, v, s, p)
  BY ReadsOne, Zenon
<1>2. PICK f, v, s, p : ReadAs(f, v, s, p)
  BY <1>1, Zenon
<1>3. /\ f = Fields[form][at] /\ v = json[f] /\ s = Status(f, v) /\ form' = form /\ ret' = Merge(s)
      /\ f = "protocol" => object' = [object EXCEPT !["protocol"] = Text(1, p)]
      /\ f # "protocol" /\ s = "OK" => object' = [object EXCEPT ![f] = Stored(f, v)]
      /\ f # "protocol" /\ s # "OK" => object' = object
  BY <1>2, Zenon DEF ReadAs
<1>4. /\ at \in {1, 2, 3, 4, 5, 6, 7, 8, 9} /\ {"seed", "chid", "message"} \subseteq DOMAIN object
      /\ object.seed = Absent \/ object.seed.len = HashLen
      /\ object.chid = Absent \/ object.chid.len = HashLen
      /\ at = 9 /\ ret = "OK" => IsText(object.message)
  BY <1>1, Zenon DEF SendMamInv, Reading
<1>5. ret' = "OK" => s = "OK" /\ ret = "OK"
  BY <1>3, Zenon DEF Merge
<1>6. Failed(s) => s # "OK"
  BY Zenon DEF Failed
<1>7. \/ stage' = "decoded" /\ at' = at /\ (s # "OK" \/ at = 9)
      \/ stage' = "decode" /\ at' = at + 1 /\ at # 9
  BY <1>2, <1>6, SendMamFields, Zenon DEF ReadAs, Following
<1>8. /\ at' \in {1, 2, 3, 4, 5, 6, 7, 8, 9}
      /\ at' = 9 => at = 9 \/ at = 8
  BY <1>4, <1>7, SMTT(20)
<1>9. DOMAIN object' = DOMAIN object
  BY <1>3, Zenon
<1>10. ASSUME NEW x \in {"seed", "chid"}, object[x] = Absent \/ object[x].len = HashLen
       PROVE  object'[x] = Absent \/ object'[x].len = HashLen
  <2>1. CASE f = x /\ s = "OK"
    <3>1. object'[x] = Stored(x, v)
      BY <1>3, <1>4, <1>10, <2>1, Zenon
    <3> QED BY <3>1, StoredSeed, Zenon
  <2>2. CASE ~(f = x /\ s = "OK")
    <3>1. object'[x] = object[x]
      BY <1>3, <1>4, <1>10, <2>2, Zenon
    <3> QED BY <1>10, <3>1, Zenon
  <2> QED BY <2>1, <2>2, Zenon
<1>11. at' = 9 /\ ret' = "OK" => IsText(object'.message)
  <2> SUFFICES ASSUME at' = 9, ret' = "OK" PROVE IsText(object'.message)
    BY Zenon
  <2>1. CASE at = 9
    <3>1. object'.message = object.message
      BY <1>3, <1>4, <2>1, SendMamFields, Zenon
    <3> QED BY <1>4, <1>5, <2>1, <3>1, Zenon DEF IsText
  <2>2. CASE at = 8
    <3>1. f = "message" /\ s = "OK" /\ SendMamStatus("message", v) = "OK"
      BY <1>3, <1>5, <2>2, SendMamFields, Zenon DEF Status
    <3>2. IsText(v)
      BY <3>1, Zenon DEF SendMamStatus
    <3>3. Stored("message", v) = v
      BY <3>2, Zenon DEF Stored
    <3>4. object'.message = v
      BY <1>3, <1>4, <3>1, <3>3, Zenon
    <3> QED BY <3>2, <3>4, Zenon DEF IsText
  <2> QED BY <1>8, <2>1, <2>2, Zenon
<1>12. stage' = "decoded" /\ ret' = "OK" => at' = 9
  BY <1>5, <1>7, Zenon
<1>13. /\ object'.seed = Absent \/ object'.seed.len = HashLen
       /\ object'.chid = Absent \/ object'.chid.len = HashLen
  BY <1>4, <1>10, Zenon
<1> QED BY <1>4, <1>8, <1>9, <1>11, <1>12, <1>13, Zenon DEF SendMamInv, Used, IsText, Absent, Value

\* The order in which a message to receive is read.
LEMMA RecvMamFields ==
  /\ Fields["recv_mam"][1] = "protocol" /\ Fields["recv_mam"][2] = "psk" /\ Fields["recv_mam"][3] = "ntru"
  /\ Fields["recv_mam"][4] = "data_id" /\ Fields["recv_mam"][5] = "bundle_hash" /\ Fields["recv_mam"][6] = "chid"
  /\ Fields["recv_mam"][7] = "msg_id" /\ Fields["recv_mam"][8] = "set_data_id" /\ Len(Fields["recv_mam"]) = 8
BY FieldsAre, SMTT(20)

\* Reading a field of a message to receive.
LEMMA RecvMamStep ==
  ASSUME form = "recv_mam", RecvMamInv, Decode
  PROVE  RecvMamInv'
<1>1. stage = "decode" /\ \E f, v, s, p : ReadAs(f, v, s, p)
  BY ReadsOne, Zenon
<1>2. PICK f, v, s, p : ReadAs(f, v, s, p)
  BY <1>1, Zenon
<1>3. /\ f = Fields[form][at] /\ v = json[f] /\ s = Status(f, v) /\ (f = "protocol" => p \in Protocol(v))
      /\ form' = form /\ json' = json /\ ret' = Merge(s)
      /\ f = "protocol" => object' = [object EXCEPT !["protocol"] = Text(1, p)]
      /\ f # "protocol" /\ s = "OK" => object' = [object EXCEPT ![f] = Stored(f, v)]
      /\ f # "protocol" /\ s # "OK" => object' = object
  BY <1>2, Zenon DEF ReadAs
<1>4. /\ at \in {1, 2, 3, 4, 5, 6, 7, 8} /\ {"bundle_hash", "chid", "msg_id"} \subseteq DOMAIN object
      /\ at \in {1, 2, 3, 4, 5} => object.chid = Absent /\ object.msg_id = Absent
      /\ at \in {6, 7} => object.bundle_hash = Absent
      /\ object.bundle_hash # Absent => object.chid = Absent /\ object.msg_id = Absent
  BY <1>1, Zenon DEF RecvMamInv, Reading, IdFields
<1>5. ret' = "OK" => s = "OK"
  BY <1>3, Zenon DEF Merge
<1>6. Failed(s) => s # "OK"
  BY Zenon DEF Failed
<1>7. \/ stage' = "decoded" /\ at' = at /\ (s # "OK" \/ at = 8 \/ (f = "protocol" /\ p = "garbage"))
      \/ stage' = "decode" /\ at # 8 /\ at' = (IF at = 5 /\ json.bundle_hash # Absent THEN 8 ELSE at + 1)
  <2>1. f = "bundle_hash" <=> at = 5
    BY <1>3, <1>4, RecvMamFields, Zenon
  <2>2. Following(f) = IF at = 5 /\ json.bundle_hash # Absent THEN 8 ELSE at + 1
    BY <2>1, RecvMamFields, Zenon DEF Following
  <2>3. Len(Fields[form]) = 8
    BY RecvMamFields, Zenon
  <2> QED BY <1>2, <1>6, <2>2, <2>3, Zenon DEF ReadAs
<1>8. /\ at' \in {1, 2, 3, 4, 5, 6, 7, 8}
      /\ at' \in {1, 2, 3, 4, 5} => at \in {1, 2, 3, 4, 5}
      /\ at' \in {1, 2, 3, 4, 5} => at # 6 /\ at # 7
      /\ at' \in {6, 7} => at \in {6, 7} \/ (at = 5 /\ json.bundle_hash = Absent)
  BY <1>4, <1>7, SMTT(20)
<1>9. DOMAIN object' = DOMAIN object
  BY <1>3, Zenon
<1>10. \A x \in {"bundle_hash", "chid", "msg_id"} : f # x => object'[x] = object[x]
  BY <1>3, <1>4, Zenon
<1>11. f = "chid" => at = 6
  BY <1>3, <1>4, RecvMamFields, Zenon
<1>12. f = "msg_id" => at = 7
  BY <1>3, <1>4, RecvMamFields, Zenon
<1>13. f = "bundle_hash" <=> at = 5
  BY <1>3, <1>4, RecvMamFields, Zenon
<1>14. at' \in {1, 2, 3, 4, 5} => object'.chid = Absent /\ object'.msg_id = Absent
  BY <1>4, <1>8, <1>10, <1>11, <1>12, Zenon
<1>15. at' \in {6, 7} => object'.bundle_hash = Absent
  <2> SUFFICES ASSUME at' \in {6, 7} PROVE object'.bundle_hash = Absent
    BY Zenon
  <2>1. CASE at \in {6, 7}
    <3>1. at # 5
      BY <2>1, SMTT(20)
    <3> QED BY <1>4, <1>10, <1>13, <2>1, <3>1, Zenon
  <2>2. CASE at = 5 /\ json.bundle_hash = Absent
    <3>1. f = "bundle_hash" /\ v = Absent
      BY <1>3, <1>13, <2>2, Zenon
    <3>2. Status("bundle_hash", Absent) = "OK" /\ Stored("bundle_hash", Absent) = Absent
      <4>1. Absent # Cased
        BY SMTT(20) DEF Absent, Cased, Value
      <4>2. RecvFieldStatus("bundle_hash", Absent) = "OK"
        BY <4>1, Zenon DEF RecvFieldStatus, IdFields
      <4> QED BY <4>2, Zenon DEF Status, Stored, RecvMamStatus
    <3> QED BY <1>3, <1>4, <3>1, <3>2, Zenon
  <2> QED BY <1>8, <2>1, <2>2, Zenon
<1>16. object'.bundle_hash # Absent => object'.chid = Absent /\ object'.msg_id = Absent
  <2>1. CASE at = 5
    <3>1. at \in {1, 2, 3, 4, 5} /\ at # 6 /\ at # 7
      BY <2>1, SMTT(20)
    <3> QED BY <1>4, <1>10, <1>11, <1>12, <3>1, Zenon
  <2>2. CASE at # 5 /\ (at = 6 \/ at = 7)
    BY <1>4, <1>10, <1>13, <2>2, Zenon
  <2>3. CASE at # 5 /\ at # 6 /\ at # 7
    BY <1>4, <1>10, <1>11, <1>12, <1>13, <2>3, Zenon
  <2> QED BY <2>1, <2>2, <2>3, Zenon
<1>17. ASSUME stage' = "decoded", ret' = "OK", json'.protocol = MamV1
       PROVE  \E x \in IdFields : object'[x] # Absent
  <2>1. ~(f = "protocol" /\ p = "garbage")
    <3>1. f = "protocol" => p \in {"MAM_V1"}
      BY <1>3, <1>17, Zenon DEF Protocol, MamV1
    <3> QED BY <3>1, Zenon
  <2>2. at = 8 /\ s = "OK"
    BY <1>5, <1>7, <1>17, <2>1, Zenon
  <2>3. f = "set_data_id"
    BY <1>3, <2>2, RecvMamFields, Zenon
  <2>4. RecvMamStatus("set_data_id", v) = "OK"
    BY <1>3, <2>2, <2>3, Zenon DEF Status
  <2>5. PICK x \in IdFields : object[x] # Absent
    BY <2>4, Zenon DEF RecvMamStatus
  <2>6. x \in {"bundle_hash", "chid", "msg_id"} /\ x # f
    BY <2>3, <2>5, Zenon DEF IdFields
  <2> QED BY <1>10, <2>5, <2>6, Zenon
<1> QED BY <1>4, <1>8, <1>9, <1>14, <1>15, <1>16, <1>17, Zenon DEF RecvMamInv, Used, IdFields

\* The fields an invariant is about are fields of its form.
LEMMA HasFields ==
  /\ {"tag", "message"} \subseteq FieldsOf("send_transfer")
  /\ {"seed", "chid", "message"} \subseteq FieldsOf("send_mam")
  /\ {"bundle_hash", "chid", "msg_id"} \subseteq FieldsOf("recv_mam")
<1>1. ASSUME NEW n \in Nat, NEW f, Len(Fields[f]) = n, DOMAIN Fields[f] = 1..Len(Fields[f])
      PROVE  \A i \in 1..n : Fields[f][i] \in FieldsOf(f)
  BY <1>1, Zenon DEF FieldsOf, Range
<1>2. /\ DOMAIN Fields["send_transfer"] = 1..Len(Fields["send_transfer"])
      /\ DOMAIN Fields["send_mam"] = 1..Len(Fields["send_mam"])
      /\ DOMAIN Fields["recv_mam"] = 1..Len(Fields["recv_mam"])
  BY FieldsAre, SMTT(20)
<1>3. 5 \in Nat /\ 8 \in Nat /\ 9 \in Nat
  BY SMTT(20)
<1>4. \A i \in 1..5 : Fields["send_transfer"][i] \in FieldsOf("send_transfer")
  BY <1>1, <1>2, <1>3, TransferFields, Zenon
<1>5. \A i \in 1..9 : Fields["send_mam"][i] \in FieldsOf("send_mam")
  BY <1>1, <1>2, <1>3, SendMamFields, Zenon
<1>6. \A i \in 1..8 : Fields["recv_mam"][i] \in FieldsOf("recv_mam")
  BY <1>1, <1>2, <1>3, RecvMamFields, Zenon
<1>7. 2 \in 1..5 /\ 3 \in 1..5 /\ 5 \in 1..5 /\ 6 \in 1..9 /\ 7 \in 1..9 /\ 8 \in 1..9 /\ 5 \in 1..8 /\ 6 \in 1..8 /\ 7 \in 1..8
  BY SMTT(20)
<1>8. {"tag", "message"} \subseteq FieldsOf("send_transfer")
  BY <1>4, <1>7, TransferFields, Zenon
<1>9. {"seed", "chid", "message"} \subseteq FieldsOf("send_mam")
  BY <1>5, <1>7, SendMamFields, Zenon
<1>10. {"bundle_hash", "chid", "msg_id"} \subseteq FieldsOf("recv_mam")
  BY <1>6, <1>7, RecvMamFields, Zenon
<1> QED BY <1>8, <1>9, <1>10, Zenon

\* Nothing has been read at first.
LEMMA ReadInvInit == SerializerInit => ReadInv
<1> SUFFICES ASSUME SerializerInit PROVE ReadInv
  BY Zenon
<1>1. /\ at = 1 /\ object = New(form) /\ ret = "OK"
      /\ \/ stage = "decode" /\ form \in DOMAIN Document /\ json \in Document[form]
         \/ stage = "encode" /\ form \in DOMAIN Response
  BY Zenon DEF SerializerInit, Start
<1>2. DOMAIN object = FieldsOf(form) /\ \A x \in FieldsOf(form) : object[x] = Absent
  BY <1>1, Zenon DEF New
<1>3. DOMAIN Response = {"send_mam_res", "recv_mam_res"}
  BY SMTT(20) DEF Response
<1>4. stage = "encode" => form \notin {"send_transfer", "send_mam", "recv_mam"}
  BY <1>1, <1>3, Zenon
<1>5. 1 \notin {3, 4, 5} /\ 1 \notin {4, 5} /\ 1 \notin {6, 7} /\ 1 # 9
  BY SMTT(20)
<1>6. stage # "decoded"
  BY <1>1, Zenon
<1>7. TransferInv
  BY <1>1, <1>2, <1>4, <1>5, <1>6, HasFields, Zenon DEF TransferInv, Reading, Used
<1>8. SendMamInv
  BY <1>1, <1>2, <1>4, <1>5, <1>6, HasFields, Zenon DEF SendMamInv, Reading, Used
<1>9. RecvMamInv
  BY <1>1, <1>2, <1>4, <1>5, <1>6, HasFields, Zenon DEF RecvMamInv, Reading, Used, IdFields
<1> QED BY <1>4, <1>7, <1>8, <1>9, Zenon DEF ReadInv

\* Every step keeps what has been read right.
LEMMA ReadInvStep == ReadInv /\ [SerializerNext]_zvars => ReadInv'
<1> SUFFICES ASSUME ReadInv, [SerializerNext]_zvars PROVE ReadInv'
  BY Zenon
<1>1. CASE Encode
  <2>1. form' = form /\ form \notin {"send_transfer", "send_mam", "recv_mam"} /\ stage' # "encode"
    BY <1>1, Zenon DEF Encode, ReadInv
  <2> QED BY <2>1, Zenon DEF ReadInv, TransferInv, SendMamInv, RecvMamInv
<1>2. CASE Decode
  <2>1. form' = form /\ stage' # "encode"
    <3>1. PICK f, v, s, p : ReadAs(f, v, s, p)
      BY <1>2, ReadsOne, Zenon
    <3> QED BY <3>1, Zenon DEF ReadAs
  <2>2. TransferInv'
    BY <1>2, <2>1, TransferStep, Zenon DEF ReadInv, TransferInv
  <2>3. SendMamInv'
    BY <1>2, <2>1, SendMamStep, Zenon DEF ReadInv, SendMamInv
  <2>4. RecvMamInv'
    BY <1>2, <2>1, RecvMamStep, Zenon DEF ReadInv, RecvMamInv
  <2> QED BY <2>1, <2>2, <2>3, <2>4, Zenon DEF ReadInv
<1>3. CASE Crash \/ Free
  <2>1. stage' \in {"crashed", "freed"}
    BY <1>3, Zenon DEF Crash, Free
  <2>2. stage' # "encode" /\ ~Reading'
    BY <2>1, Zenon DEF Reading
  <2> QED BY <2>2, Zenon DEF ReadInv, TransferInv, SendMamInv, RecvMamInv
<1>4. CASE UNCHANGED zvars
  <2>1. UNCHANGED <<form, json, at, object, ret, stage>>
    BY <1>4, Zenon DEF zvars
  <2>2. TransferInv'
    BY <2>1, Zenon DEF ReadInv, TransferInv, Reading, Used
  <2>3. SendMamInv'
    BY <2>1, Zenon DEF ReadInv, SendMamInv, Reading, Used, IsText
  <2>4. RecvMamInv'
    BY <2>1, Zenon DEF ReadInv, RecvMamInv, Reading, Used
  <2> QED BY <2>1, <2>2, <2>3, <2>4, Zenon DEF ReadInv
<1> QED BY <1>1, <1>2, <1>3, <1>4, Zenon DEF SerializerNext

\* A request that was accepted can be used by its API, for every length of its
\* texts: tag and message have the size that ta_send_transfer reads (of the address
\* nothing is said: a short one is read past its end), ta_send_mam_message finds
\* its message and ta_recv_mam_message its identifier (serializer.c:98,
\* ser_mam.c:93, ser_mam.c:251).
THEOREM RequestsAreUsable == SerializerSpec => [](TransferUsable /\ MamUsable)
<1>1. ReadInv => TransferUsable /\ MamUsable
  <2> SUFFICES ASSUME ReadInv PROVE TransferUsable /\ MamUsable
    BY Zenon
  <2>1. TransferUsable
    <3>1. 5 \in {4, 5}
      BY Zenon
    <3> QED BY <3>1, Zenon DEF ReadInv, TransferInv, TransferUsable, Reading, Used
  <2>2. MamUsable
    BY Zenon DEF ReadInv, SendMamInv, RecvMamInv, MamUsable, Reading, Used, MamV1
  <2> QED BY <2>1, <2>2, Zenon
<1> QED BY <1>1, ReadInvInit, ReadInvStep, PTL DEF SerializerSpec
=============================================================================
