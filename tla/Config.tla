------------------------------- MODULE Config -------------------------------
(***************************************************************************)
(* How tangle-accelerator is configured: defaults, then the file named by  *)
(* --config, then the command line, each as a sequence of settings that    *)
(* cli_core_set() applies one by one, then ta_core_set().  The command     *)
(* line is walked over twice, first only for --config.  A number is given  *)
(* as text: well formed, without digits, or outside the range of long,     *)
(* which leaves ERANGE in errno for the rest of the process.               *)
(***************************************************************************)
EXTENDS Integers, Sequences, FiniteSets, FiniteSetsExt

CONSTANTS ListLen,    \* MAX_NODE_LIST_ELEMENTS
          MaxThreads, \* MAX_HTTP_TPOOL_SIZE
          MaxArgs,    \* bound: options on the command line
          MaxLines    \* bound: settings in the file

ASSUME ConfigAssumption ==
    /\ ListLen \in Nat \ {0} /\ MaxThreads \in 2..255
    /\ MaxArgs \in Nat /\ MaxLines \in Nat

VARIABLES argv,    \* the command line
          file,    \* settings of the file
          step,    \* what main() does with which element
          core,    \* ta_core
          errno,   \* ERANGE was met
          read     \* history: the file was opened

fvars == <<argv, file, step, core, errno, read>>

\* A number as text.
Good(n) == [text |-> "good", n |-> n]
Junk == [text |-> "junk", n |-> 0]
OutOfRange == [text |-> "range", n |-> 0]

Setting(k, v) == [key |-> k, value |-> v]
Settings ==
    {Setting("node_host", <<"h1">>), Setting("node_host", <<"h2", "h3">>),
     Setting("node_port", <<Good(7)>>), Setting("node_port", <<Junk, Good(8)>>), Setting("node_port", <<Good(9), OutOfRange>>),
     Setting("cache", <<>>), Setting("redis_host", <<"r1">>),
     Setting("http_threads", <<Good(3)>>), Setting("http_threads", <<Good(200)>>), Setting("http_threads", <<OutOfRange>>),
     Setting("mwm", <<Good(14)>>), Setting("mwm", <<Good(300)>>), Setting("mwm", <<Junk>>),
     Setting("no_gtta", <<>>)}
\* Only getopt_long reports an unknown option or a missing argument.
Arguments == Settings \cup {Setting("config", <<>>), Setting("unknown", <<>>), Setting("mwm", <<>>)}

None == "none"
Default ==
    [hosts |-> [i \in 1..ListLen |-> None], ports |-> [i \in 1..ListLen |-> 1],
     service |-> [host |-> "h0", port |-> 1], cache |-> FALSE, redis |-> "r0", backend |-> None,
     threads |-> 2, mwm |-> 9, gtta |-> TRUE, conf_file |-> FALSE]

ConfigInit ==
    /\ argv \in UNION {[1..n -> Arguments] : n \in 0..MaxArgs}
    /\ file \in UNION {[1..n -> Settings] : n \in 0..MaxLines}
    /\ step = [at |-> "default", i |-> 1, ret |-> "OK"]
    /\ core = Default /\ errno = FALSE /\ read = FALSE

-----------------------------------------------------------------------------
(* cli_core_set *)

\* strtol leaves its mark in errno, and nothing here removes the mark.
Ranged(numbers) == \E i \in DOMAIN numbers : numbers[i].text = "range"

Stuck(numbers) == errno \/ Ranged(numbers)

\* Mutant: the field is as wide as an int.
Width8None(n) == n

Width8(n) == n % 256

\* The thread count is checked and clamped; the weight is only converted, and
\* no digits at all are 0.
Threads(c, v) == IF Stuck(<<v>>) \/ v.text = "junk" \/ v.n > 255 THEN c
                 ELSE [c EXCEPT !.threads = IF v.n > MaxThreads THEN MaxThreads ELSE v.n]

\* Mutant: the range check of the thread count is copied.
MwmChecked(c, v) == IF Stuck(<<v>>) \/ v.n > 255 THEN c ELSE [c EXCEPT !.mwm = Width8(v.n)]

Mwm(c, v) == IF Stuck(<<v>>) THEN c ELSE [c EXCEPT !.mwm = Width8(v.n)]

\* Mutant: the rest of the list is cleared.
HostAtClears(c, hosts, i) == IF i <= Len(hosts) THEN hosts[i] ELSE None

\* Entries the new list does not reach keep what they had.
HostAt(c, hosts, i) == IF i <= Len(hosts) THEN hosts[i] ELSE c.hosts[i]

Hosts(c, hosts) ==
    LET list == [i \in 1..ListLen |-> HostAt(c, hosts, i)]
    IN  [c EXCEPT !.hosts = list, !.service.host = list[1]]

\* A malformed number, and every number after one out of range, changes nothing.
PortAt(c, ports, i) ==
    IF i <= Len(ports) /\ ports[i].text = "good" /\ ~Stuck(SubSeq(ports, 1, i)) THEN ports[i].n ELSE c.ports[i]

\* Mutant: the service keeps its port.
PortsKept(c, ports) == [c EXCEPT !.ports = [i \in 1..ListLen |-> PortAt(c, ports, i)]]

Ports(c, ports) ==
    LET list == [i \in 1..ListLen |-> PortAt(c, ports, i)]
    IN  [c EXCEPT !.ports = list, !.service.port = list[1]]

\* Mutant: the connection is made to the default host.
CacheDefault(c) == [c EXCEPT !.cache = ~@, !.backend = IF c.cache THEN @ ELSE "r0"]

\* The value is not looked at; turning the cache on connects it at once.
Cache(c) == [c EXCEPT !.cache = ~@, !.backend = IF c.cache THEN @ ELSE c.redis]

cli_core_set(c, s) ==
    CASE s.key = "node_host"    -> Hosts(c, s.value)
      [] s.key = "node_port"    -> Ports(c, s.value)
      [] s.key = "cache"        -> Cache(c)
      [] s.key = "redis_host"   -> [c EXCEPT !.redis = s.value[1]]
      [] s.key = "http_threads" -> Threads(c, s.value[1])
      [] s.key = "mwm"          -> Mwm(c, s.value[1])
      [] s.key = "no_gtta"      -> [c EXCEPT !.gtta = TRUE]
      [] s.key = "config"       -> [c EXCEPT !.conf_file = TRUE]

Number(s) == s.key \in {"node_port", "http_threads", "mwm"}
ArgumentMissing(s) == s.key = "mwm" /\ s.value = <<>>
\* A call of the C library that fails in between may write over errno.
Apply(s) ==
    /\ core' = cli_core_set(core, s)
    /\ errno' \in IF Number(s) /\ Ranged(s.value) THEN {TRUE} ELSE {errno, FALSE}

-----------------------------------------------------------------------------
(* main() *)

Go(at, ret) == step' = [at |-> at, i |-> 1, ret |-> ret]
Same == UNCHANGED <<argv, file>>

ta_core_default_init ==
    /\ step.at = "default" /\ Go("find", "OK") /\ core' = Default
    /\ Same /\ UNCHANGED <<errno, read>>

\* ta_core_file_init, first loop: an unknown option sets ret and is passed
\* over, and any other option but --config then ends the loop.
FindFile ==
    /\ step.at = "find" /\ step.i <= Len(argv)
    /\ LET s == argv[step.i]
       IN  \/ s.key = "unknown" /\ step' = [step EXCEPT !.i = @ + 1, !.ret = "UNKNOWN_OPTION"] /\ UNCHANGED core
           \/ s.key = "config" /\ step' = [step EXCEPT !.i = @ + 1, !.ret = "OK"] /\ core' = cli_core_set(core, s)
           \/ /\ s.key \notin {"unknown", "config"}
              /\ step' = IF step.ret = "OK" THEN [step EXCEPT !.i = @ + 1] ELSE [step EXCEPT !.i = Len(argv) + 1]
              /\ UNCHANGED core
    /\ Same /\ UNCHANGED <<errno, read>>

\* Mutant: a file that cannot be opened is passed over.
OpenFailsQuietly == Go("args", "OK")

OpenFails == Go("exit", "FOPEN_ERROR")

OpenFile ==
    /\ step.at = "find" /\ step.i > Len(argv)
    /\ \/ ~core.conf_file /\ Go("args", "OK") /\ UNCHANGED read
       \/ core.conf_file /\ Go("lines", step.ret) /\ read' = TRUE
       \/ core.conf_file /\ OpenFails /\ UNCHANGED read
    /\ Same /\ UNCHANGED <<core, errno>>

\* The scanner may fail at any token.
ReadLine ==
    /\ step.at = "lines"
    /\ \/ /\ step.i <= Len(file)
          /\ Apply(file[step.i]) /\ step' = [step EXCEPT !.i = @ + 1, !.ret = "OK"]
       \/ Go("exit", "PARSER_ERROR") /\ UNCHANGED <<core, errno>>
    /\ Same /\ UNCHANGED read

FileDone ==
    /\ step.at = "lines" /\ step.i > Len(file)
    /\ Go(IF step.ret = "OK" THEN "args" ELSE "exit", step.ret)
    /\ Same /\ UNCHANGED <<core, errno, read>>

\* ta_core_cli_init: a later option that can be applied resets ret.
ReadArg ==
    /\ step.at = "args" /\ step.i <= Len(argv)
    /\ LET s == argv[step.i]
       IN  \/ s.key = "unknown" /\ step' = [step EXCEPT !.i = @ + 1, !.ret = "UNKNOWN_OPTION"] /\ UNCHANGED <<core, errno>>
           \/ /\ s.key = "config" \/ ArgumentMissing(s)
              /\ step' = IF ArgumentMissing(s) THEN [at |-> "exit", i |-> 1, ret |-> "NULL"]
                         ELSE IF step.ret = "OK" THEN [step EXCEPT !.i = @ + 1]
                         ELSE [step EXCEPT !.at = "exit"]
              /\ UNCHANGED <<core, errno>>
           \/ /\ s.key \notin {"unknown", "config"} /\ ~ArgumentMissing(s)
              /\ Apply(s) /\ step' = [step EXCEPT !.i = @ + 1, !.ret = "OK"]
    /\ Same /\ UNCHANGED read

\* ta_core_set, whose own failures end the process as well.
ta_core_set ==
    /\ step.at = "args" /\ step.i > Len(argv)
    /\ \/ Go(IF step.ret = "OK" THEN "started" ELSE "exit", step.ret)
       \/ step.ret = "OK" /\ Go("exit", "OOM")
    /\ Same /\ UNCHANGED <<core, errno, read>>

ConfigNext == \/ ta_core_default_init \/ FindFile \/ OpenFile \/ ReadLine \/ FileDone
              \/ ReadArg \/ ta_core_set

ConfigSpec == ConfigInit /\ [][ConfigNext]_fvars

-----------------------------------------------------------------------------
(* Properties *)

Started == step.at = "started"
\* The settings that were in effect, in order.
Given == (IF read THEN file ELSE <<>>) \o argv
Positions(key) == {p \in DOMAIN Given : Given[p].key = key}

\* Types, and the widths: the weight fits its byte and the thread count stays
\* within its limit, whatever numbers were given (config.c:146, config.c:260).
ConfigTypeOK ==
    /\ step.at \in {"default", "find", "lines", "args", "started", "exit"}
    /\ core.hosts \in [1..ListLen -> {None, "h1", "h2", "h3"}] /\ core.ports \in [1..ListLen -> Nat]
    /\ core.mwm \in 0..255 /\ core.threads \in 0..MaxThreads
    /\ core.redis \in {"r0", "r1"} /\ core.backend \in {None, "r0", "r1"}
    /\ errno \in BOOLEAN /\ read \in BOOLEAN

\* The node the process starts with is the first of the priority list, under
\* the port of that entry, in whichever order and however often the hosts and
\* the ports were given (config.c:164, config.c:176).
ServiceIsFirst ==
    /\ core.hosts[1] # None => core.service.host = core.hosts[1]
    /\ core.service.port = core.ports[1]

\* An entry of the priority list was given by the last --node_host that is long
\* enough to reach it, so that a shorter list leaves the tail of a longer one
\* (config.c:161).
TailOfLongerList ==
    Started => \A i \in 1..ListLen :
        LET reach == {p \in Positions("node_host") : Len(Given[p].value) >= i}
        IN  core.hosts[i] = IF reach = {} THEN None ELSE Given[Max(reach)].value[i]

\* A well formed weight on the command line or in the file is in effect unless
\* a later one replaced it or an earlier number was out of range (config.c:259).
LastNumberCounts ==
    Started => \A p \in Positions("mwm") :
        \/ \E later \in Positions("mwm") : later > p
        \/ \E before \in 1..p : Number(Given[before]) /\ Ranged(Given[before].value)
        \/ core.mwm = Width8(Given[p].value[1].n)

\* The Redis server in use is the configured one, unless it was named after
\* the cache had been turned on (config.c:195).
CacheIsConfigured ==
    Started /\ core.cache =>
        core.backend = core.redis \/ \E p \in Positions("redis_host"), q \in Positions("cache") : p > q

\* A process that was given --config and runs has read the file, unless an
\* unknown option stood before it (config.c:423).
FileIsRead ==
    Started /\ (\E p \in DOMAIN argv : argv[p].key = "config") /\ ~read
        => \E u, p \in DOMAIN argv : u < p /\ argv[u].key = "unknown" /\ argv[p].key = "config"

\* The configuration in effect is the one that was given, in whichever order,
\* except where a part says otherwise (config.c:100).
ConfigAsGiven ==
    ServiceIsFirst /\ TailOfLongerList /\ LastNumberCounts /\ CacheIsConfigured /\ FileIsRead

\* cli_info.h: --no-gtta means "Disable getTransactionToConfirm (gTTA) when
\* sending transaction".
NoGttaDisables == Started /\ Positions("no_gtta") # {} => ~core.gtta
=============================================================================
