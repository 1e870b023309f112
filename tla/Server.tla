------------------------------- MODULE Server -------------------------------
(***************************************************************************)
(* The process of tangle-accelerator: main() from start to exit, the       *)
(* health_track thread that moves the shared iota_service along the        *)
(* priority list, the HTTP workers that copy it, and the runtime command   *)
(* line.  The node list is 1..NodeCount, entry i standing for the pair of  *)
(* its host and its port; 0 is a host string in the middle of being        *)
(* written.  What the broadcasts do is left to TxnBuffer and MamBuffer.    *)
(***************************************************************************)
EXTENDS Integers, FiniteSets, Sequences

CONSTANTS NodeCount,   \* entries of iota_host_list
          Worker,      \* threads of the HTTP daemon
          Options,     \* configurations main() may be started with
          MaxChanges,  \* bound: changes of the state of a node
          MaxCommands  \* bound: lines typed on the command line

ASSUME ServerAssumption ==
    /\ NodeCount \in Nat \ {0} /\ MaxChanges \in Nat /\ MaxCommands \in Nat
    /\ Options \subseteq [cache : BOOLEAN, cli : BOOLEAN]

VARIABLES phase,     \* where main() stands
          core,      \* ta_core: "unset", "set" or "destroyed"
          option,    \* cache.state, CLI_RUNTIME_CLI
          daemon,    \* http->daemon: "none", "up" or "stopped"
          handling,  \* main() is inside the signal handler
          signalled, \* a SIGINT or SIGTERM was sent
          node,      \* the full nodes as getNodeInfo shows them
          changes,
          service,   \* core->iota_service
          health,    \* the health_track thread
          worker,    \* the copy of the service each request uses
          cli,       \* state of the command line thread
          lines,
          quiet,     \* CLI_QUIET_MODE
          loggers,   \* the loggers of the modules are initialised
          switching, \* ta_logger_switch calls in progress, by thread
          raced      \* history: two such calls overlapped

svars == <<phase, core, option, daemon, handling, signalled, node, changes, service, health,
           worker, cli, lines, quiet, loggers, switching, raced>>
mainVars == <<phase, core, daemon, handling, signalled>>
nodeVars == <<node, changes>>
cliVars == <<cli, lines>>
logVars == <<quiet, loggers, switching, raced>>

Node == 1..NodeCount
\* The answer to getNodeInfo: none, one that does not parse, or the two
\* milestones; the solid one is `behind` behind the latest.
NodeState == [answer : {"none", "odd"}, behind : {0}] \cup [answer : {"info"}, behind : {0, 2}]
Idle == [at |-> "idle", host |-> 0, port |-> 0, raced |-> FALSE]
NoSwitch == "none"

ServerInit ==
    /\ phase = "boot" /\ core = "unset" /\ daemon = "none"
    /\ option \in Options
    /\ handling = FALSE /\ signalled = FALSE
    /\ node = [n \in Node |-> [answer |-> "info", behind |-> 0]] /\ changes = 0
    /\ service = [host |-> 1, port |-> 1]
    /\ health = [at |-> "none", i |-> 0]
    /\ worker = [w \in Worker |-> Idle]
    /\ cli = "none" /\ lines = 0
    /\ quiet \in BOOLEAN /\ loggers = FALSE
    /\ switching = [main |-> NoSwitch, cli |-> NoSwitch] /\ raced = FALSE

-----------------------------------------------------------------------------
(* ta_logger_switch: the loggers first, the option bit after them *)

SwitchBegin(who, to, init) ==
    /\ switching[who] = NoSwitch
    /\ quiet # (to = "off") \/ init
    /\ switching' = [switching EXCEPT ![who] = to]
    /\ loggers' = (to = "on")
    /\ raced' = (raced \/ \E t \in DOMAIN switching : switching[t] # NoSwitch)
    /\ UNCHANGED quiet

\* Mutant: the option bit is not written.
SwitchEndKeeps(who) ==
    /\ switching[who] # NoSwitch
    /\ switching' = [switching EXCEPT ![who] = NoSwitch]
    /\ UNCHANGED <<quiet, loggers, raced>>

SwitchEnd(who) ==
    /\ switching[who] # NoSwitch
    /\ quiet' = (switching[who] = "off")
    /\ switching' = [switching EXCEPT ![who] = NoSwitch]
    /\ UNCHANGED <<loggers, raced>>

-----------------------------------------------------------------------------
(* main() *)

Running == ~handling /\ phase # "exited"

\* Loggers, the three sources of the configuration, ta_core_set.
Configure ==
    /\ phase = "boot" /\ Running
    /\ \/ phase' = "threads" /\ core' = "set"
       \/ phase' = "exited" /\ UNCHANGED core
    /\ UNCHANGED <<option, daemon, handling, signalled, nodeVars, service, health, worker, cliVars, logVars>>

CreateThreads ==
    /\ phase = "threads" /\ Running
    /\ phase' = "http"
    /\ health' = [health EXCEPT !.at = "check"]
    /\ cli' = IF option.cli THEN "prompt" ELSE "none"
    /\ UNCHANGED <<core, option, daemon, handling, signalled, nodeVars, service, worker, lines, logVars>>

ta_http_start ==
    /\ phase = "http" /\ Running
    /\ \/ phase' = "log" /\ daemon' = "up"
       \/ phase' = "cleanup" /\ UNCHANGED daemon
    /\ UNCHANGED <<core, option, handling, signalled, nodeVars, service, health, worker, cliVars, logVars>>

\* ta_logger_switch with the option as it is, and init set.
StartLoggers ==
    /\ phase = "log" /\ Running
    /\ SwitchBegin("main", IF quiet THEN "off" ELSE "on", TRUE)
    /\ phase' = "logging"
    /\ UNCHANGED <<core, option, daemon, handling, signalled, nodeVars, service, health, worker, cliVars>>

LoggersStarted ==
    /\ phase = "logging" /\ Running
    /\ SwitchEnd("main")
    /\ phase' = "notify"
    /\ UNCHANGED <<core, option, daemon, handling, signalled, nodeVars, service, health, worker, cliVars>>

\* The socket of the regression tests; a failure is only logged.
notification_trigger ==
    /\ phase = "notify" /\ Running
    /\ phase' = "pause"
    /\ UNCHANGED <<core, option, daemon, handling, signalled, nodeVars, service, health, worker, cliVars, logVars>>

\* The handler runs on the main thread, wherever main() is.
Signal ==
    /\ ~signalled /\ phase # "exited"
    /\ signalled' = TRUE /\ handling' = TRUE
    /\ UNCHANGED <<phase, core, option, daemon, nodeVars, service, health, worker, cliVars, logVars>>

\* Mutant: the daemon is stopped without waiting for its threads.
JoinedNever == TRUE

\* MHD_stop_daemon joins the worker threads.
Joined == daemon = "up" => \A w \in Worker : worker[w] = Idle

\* Mutant: main() pauses in a loop that nothing leaves.
AfterHandlerAgain == phase

\* pause() returns only if main() was in it.
AfterHandler == IF phase = "pause" THEN "cleanup" ELSE phase

\* The end of the handler.
ta_stop ==
    /\ handling /\ Joined
    /\ handling' = FALSE
    /\ daemon' = IF daemon = "up" THEN "stopped" ELSE daemon
    /\ phase' = AfterHandler
    /\ UNCHANGED <<core, option, signalled, nodeVars, service, health, worker, cliVars, logVars>>

\* ta_logger_switch(true, false): nothing when already quiet.
StopLoggers ==
    /\ phase = "cleanup" /\ Running
    /\ \/ SwitchBegin("main", "off", FALSE) /\ phase' = "releasing"
       \/ quiet /\ phase' = "destroy" /\ UNCHANGED logVars
    /\ UNCHANGED <<core, option, daemon, handling, signalled, nodeVars, service, health, worker, cliVars>>

LoggersStopped ==
    /\ phase = "releasing" /\ Running
    /\ SwitchEnd("main")
    /\ phase' = "destroy"
    /\ UNCHANGED <<core, option, daemon, handling, signalled, nodeVars, service, health, worker, cliVars>>

ta_core_destroy ==
    /\ phase = "destroy" /\ Running
    /\ core' = "destroyed" /\ phase' = "return"
    /\ UNCHANGED <<option, daemon, handling, signalled, nodeVars, service, health, worker, cliVars, logVars>>

\* Returning from main() ends every thread.
Exit ==
    /\ phase = "return" /\ Running
    /\ phase' = "exited"
    /\ UNCHANGED <<core, option, daemon, handling, signalled, nodeVars, service, health, worker, cliVars, logVars>>

Main == \/ Configure \/ CreateThreads \/ ta_http_start \/ StartLoggers \/ LoggersStarted
        \/ notification_trigger \/ ta_stop \/ StopLoggers \/ LoggersStopped \/ ta_core_destroy \/ Exit

-----------------------------------------------------------------------------
(* health_track *)

\* solid - latest > 1, as the code computes it.
ta_get_node_status(n) ==
    CASE node[n].answer = "none" -> "FAILED_RESPONSE"
      [] node[n].answer = "odd"  -> "JSON_PARSE"
      [] node[n].answer = "info" -> IF 0 - node[n].behind > 1 THEN "UNSYNC" ELSE "OK"

Alive == phase # "exited"
HealthOnly == UNCHANGED <<mainVars, option, nodeVars, cliVars, logVars>>

\* Mutant: an unreachable node does not start the failover.
FailsOverUnsync(status) == status = "UNSYNC"

FailsOver(status) == status \in {"UNSYNC", "FAILED_RESPONSE"}

HealthCheck ==
    /\ Alive /\ health.at = "check"
    /\ LET status == ta_get_node_status(service.host)
       IN  health' = CASE ~option.cache -> [at |-> "ended", i |-> 0]
                       [] option.cache /\ FailsOver(status) -> [at |-> "try", i |-> 1]
                       [] option.cache /\ status = "OK" -> [at |-> "broadcast", i |-> 0]
                       [] OTHER -> [at |-> "sleep", i |-> 0]
    /\ HealthOnly /\ UNCHANGED <<service, worker>>

\* A request that is copying the service meanwhile may get half of it.
Race == worker' = [w \in Worker |-> IF worker[w].at = "copy" THEN [worker[w] EXCEPT !.raced = TRUE] ELSE worker[w]]

WriteHost ==
    /\ Alive /\ health.at = "try"
    /\ service' = [service EXCEPT !.host = 0]
    /\ health' = [health EXCEPT !.at = "host"]
    /\ Race /\ HealthOnly

HostWritten ==
    /\ Alive /\ health.at = "host"
    /\ service' = [service EXCEPT !.host = health.i]
    /\ health' = [health EXCEPT !.at = "port"]
    /\ Race /\ HealthOnly

\* Mutant: the port stays the one of the first node.
NewPortFirst == 1

NewPort == health.i

WritePort ==
    /\ Alive /\ health.at = "port"
    /\ service' = [service EXCEPT !.port = NewPort]
    /\ health' = [health EXCEPT !.at = "ask"]
    /\ Race /\ HealthOnly

\* Mutant: one entry too many.
LastEntryOver == NodeCount + 1

LastEntry == NodeCount

\* ret stays SC_OK when the list is exhausted.
AskNode ==
    /\ Alive /\ health.at = "ask"
    /\ health' = IF ta_get_node_status(service.host) = "OK" \/ health.i = LastEntry
                   THEN [health EXCEPT !.at = "broadcast"]
                   ELSE [at |-> "try", i |-> health.i + 1]
    /\ HealthOnly /\ UNCHANGED <<service, worker>>

\* The broadcasts and the eviction, then sleep().
Broadcast ==
    /\ Alive /\ health.at = "broadcast"
    /\ health' = [at |-> "sleep", i |-> 0]
    /\ HealthOnly /\ UNCHANGED <<service, worker>>

WakeUp ==
    /\ Alive /\ health.at = "sleep"
    /\ health' = [at |-> "check", i |-> 0]
    /\ HealthOnly /\ UNCHANGED <<service, worker>>

health_track == HealthCheck \/ WriteHost \/ HostWritten \/ WritePort \/ AskNode \/ Broadcast \/ WakeUp

-----------------------------------------------------------------------------
(* ta_http_handler, as far as the shared service is concerned *)

WorkerOnly == UNCHANGED <<mainVars, option, nodeVars, service, health, cliVars, logVars>>

\* The first half of the copy: the host.
CopyHost(w) ==
    /\ Alive /\ daemon = "up" /\ ~handling /\ worker[w].at = "idle"
    /\ worker' = [worker EXCEPT ![w] = [at |-> "copy", host |-> service.host, port |-> 0,
                                        raced |-> health.at \in {"host", "port"}]]
    /\ WorkerOnly

CopyPort(w) ==
    /\ Alive /\ worker[w].at = "copy"
    /\ worker' = [worker EXCEPT ![w].at = "call", ![w].port = service.port]
    /\ WorkerOnly

Answer(w) ==
    /\ Alive /\ worker[w].at = "call"
    /\ worker' = [worker EXCEPT ![w] = Idle]
    /\ WorkerOnly

-----------------------------------------------------------------------------
(* cli_routine *)

\* The state tables: the next state, or the function of a CMD_LAST entry.
CommandTable ==
    [start        |-> [logger |-> "logger", redis |-> "redis"],
     logger       |-> [switch |-> "do_logger_switch", status |-> "prompt"],
     redis        |-> [capacity |-> "redis_memory"],
     redis_memory |-> [get |-> "prompt", set |-> "do_redis_memory_set"]]
Token == UNION {DOMAIN CommandTable[s] : s \in DOMAIN CommandTable}

CliOnly == UNCHANGED <<mainVars, option, nodeVars, service, health, worker>>

ReadLine ==
    /\ Alive /\ cli = "prompt" /\ lines < MaxCommands
    /\ cli' = "start" /\ lines' = lines + 1
    /\ CliOnly /\ UNCHANGED logVars

\* One word of the line; an unknown or missing word prints the help.
handle_command(word) ==
    /\ Alive /\ cli \in DOMAIN CommandTable
    /\ cli' = IF word \in DOMAIN CommandTable[cli] THEN CommandTable[cli][word] ELSE "prompt"
    /\ CliOnly /\ UNCHANGED <<lines, logVars>>

\* Other words, or none, change nothing; the option may already be set.
do_logger_switch ==
    /\ Alive /\ cli = "do_logger_switch"
    /\ \/ \E to \in {"on", "off"} : SwitchBegin("cli", to, FALSE) /\ cli' = "switching"
       \/ cli' = "prompt" /\ UNCHANGED logVars
    /\ CliOnly /\ UNCHANGED lines

LoggerSwitched ==
    /\ Alive /\ cli = "switching"
    /\ SwitchEnd("cli") /\ cli' = "prompt"
    /\ CliOnly /\ UNCHANGED lines

\* Sets maxmemory in Redis; the threshold of the eviction is not touched.
do_redis_memory_set ==
    /\ Alive /\ cli = "do_redis_memory_set"
    /\ cli' = "prompt"
    /\ CliOnly /\ UNCHANGED <<lines, logVars>>

cli_routine ==
    \/ ReadLine \/ do_logger_switch \/ LoggerSwitched \/ do_redis_memory_set
    \/ \E word \in Token : handle_command(word)

-----------------------------------------------------------------------------
(* Environment *)

NodeChanges(n, to) ==
    /\ Alive /\ changes < MaxChanges /\ node[n] # to
    /\ node' = [node EXCEPT ![n] = to] /\ changes' = changes + 1
    /\ UNCHANGED <<mainVars, option, service, health, worker, cliVars, logVars>>

ServerNext ==
    \/ Main
    \/ Signal
    \/ health_track
    \/ \E w \in Worker : CopyHost(w) \/ CopyPort(w) \/ Answer(w)
    \/ cli_routine
    \/ \E n \in Node, to \in NodeState : NodeChanges(n, to)

\* The threads are scheduled by the kernel; the user and the nodes are not.
\* pause() has no action, so main() may stay there.
ServerFairness ==
    /\ WF_svars(Main) /\ WF_svars(health_track)
    /\ WF_svars(LoggerSwitched)
    /\ \A w \in Worker : WF_svars(CopyPort(w) \/ Answer(w))

ServerSpec == ServerInit /\ [][ServerNext]_svars /\ ServerFairness

-----------------------------------------------------------------------------
(* Properties *)

\* Types; the entry health_track tries stays within the priority list
\* (periodical_task.c:42).
ServerTypeOK ==
    /\ phase \in {"boot", "threads", "http", "log", "logging", "notify", "pause", "cleanup",
                  "releasing", "destroy", "return", "exited"}
    /\ core \in {"unset", "set", "destroyed"} /\ daemon \in {"none", "up", "stopped"}
    /\ node \in [Node -> NodeState]
    /\ service \in [host : 0..NodeCount, port : Node]
    /\ health.at \in {"none", "check", "try", "host", "port", "ask", "broadcast", "sleep", "ended"}
    /\ health.i \in 0..NodeCount
    /\ cli \in {"none", "prompt", "switching", "do_logger_switch", "do_redis_memory_set"} \cup DOMAIN CommandTable
    /\ switching \in [{"main", "cli"} -> {NoSwitch, "on", "off"}]

\* ta_core_destroy runs only when no request is being answered: the handler of
\* the signal has joined the workers before main() leaves pause() (main.c:22,
\* main.c:84).
WorkersJoined == core = "destroyed" => \A w \in Worker : worker[w] = Idle

\* A request calls a node under the host of one entry and the port of another
\* only if ta_update_full_node_connection wrote the service while the request
\* was copying it (periodical_task.c:45, http.c:428).
MixedOnlyInRace ==
    \A w \in Worker : worker[w].at = "call" /\ ~worker[w].raced
        => worker[w].host = worker[w].port /\ worker[w].host \in Node

\* The command line and main() leave the loggers in the state the option bit
\* shows, unless their calls of ta_logger_switch overlapped (config.c:577).
LoggersMatchOption ==
    (phase \in {"notify", "pause"} /\ ~raced /\ \A t \in DOMAIN switching : switching[t] = NoSwitch)
        => (loggers <=> ~quiet)

\* What the threads share is consistent where no write runs beside the read:
\* the core is alive for the workers, the service is one entry of the list,
\* and the loggers are what the option says (main.c:84, http.c:428, config.c:577).
SharedStateAgrees == WorkersJoined /\ MixedOnlyInRace /\ LoggersMatchOption

Serving == phase \notin {"boot", "threads", "exited"} /\ option.cache

\* With the cache on, health_track leaves a node that does not answer for good,
\* as soon as some entry of the list answers getNodeInfo and stays so
\* (periodical_task.c:340).
FailoverConverges ==
    <>[](Serving /\ (\E n \in Node : ta_get_node_status(n) = "OK")
            => service.host # 0 /\ node[service.host].answer # "none")

\* A signal that finds main() in pause() ends the process (main.c:84).
StopEnds == (phase = "pause" /\ handling) ~> (phase = "exited")

\* core.h: a node that has not "synchronized to the latest milestone" triggers
\* "tangle-accelerator connect to another IOTA full node".
UnsyncIsLeft ==
    <>[](Serving /\ (\E n \in Node : node[n] = [answer |-> "info", behind |-> 0])
            => service.host # 0 /\ node[service.host].behind <= 1)

\* periodical_task.c: ta_update_full_node_connection returns SC_OK "once it
\* connects to one of the IOTA full node on the priority list".
OkIsConnected ==
    [][AskNode /\ health'.at = "broadcast" => ta_get_node_status(service.host) = "OK"]_svars
=============================================================================
