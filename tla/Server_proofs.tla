---------------------------- MODULE Server_proofs ---------------------------
(* Proofs about the server process: its timer, its threads and its HTTP      *)
(* connections.  Each invariant is the conjunction of what one action hands  *)
(* over to the next.                                                         *)
EXTENDS Server, HttpApi, Timer, TLAPS

\* A step that names no prover is tried with SMT and then with Zenon, 20 s each.
USE SMTT(20), ZenonT(20)

-----------------------------------------------------------------------------
(* Timer *)

\* The caller, the callback and the handler, in step: the thread exists once
\* main() may join it, a join and a release follow its end, and only the
\* handler asks for a cancellation, with the lock held.
TimerInv ==
    /\ TimerTypeOK
    /\ caller \in {"start", "armed", "join", "release"} \cup Statuses
    /\ callback \in {"none", "run", "asked", "returned", "cancelled"}
    /\ handler \in {"none", "log", "lock", "cancel", "unlock", "done"}
    /\ lock \in {"none", "handler"}
    /\ caller \in {"start", "armed"} => callback = "none"
    /\ caller = "start" => handler = "none"
    /\ caller \in {"release"} \cup Statuses => callback \in {"returned", "cancelled"}
    /\ caller \in Statuses => (caller = "SC_OK") = (callback = "returned")
    /\ callback \in {"asked", "cancelled"} => handler \in {"unlock", "done"}
    /\ "freed" \in stale => freed /\ callback = "returned"

\* No timer runs at first.
LEMMA TimerInvInit == TimerInit => TimerInv
<1> SUFFICES ASSUME TimerInit PROVE TimerInv
  OBVIOUS
<1>1. lock # "handler" /\ handler \notin {"cancel", "unlock"} /\ caller \notin Statuses
  BY DEF TimerInit, Statuses
<1>2. TimerTypeOK
  <2>1. (lock = "handler") = (handler \in {"cancel", "unlock"})
    BY <1>1
  <2>2. freed = (caller \in Statuses)
    <3>1. freed = FALSE
      BY Zenon DEF TimerInit
    <3>2. (caller \in Statuses) = FALSE
      BY <1>1
    <3>3. QED
      BY <3>1, <3>2, Zenon
  <2>3. QED
    BY <2>1, <2>2, Zenon DEF TimerInit, TimerTypeOK
<1>3. QED
  BY <1>2 DEF TimerInit, TimerInv, Statuses

\* Every step of the caller, the callback and the handler keeps the invariant.
LEMMA TimerInvStep == TimerInv /\ [TimerNext]_tvars => TimerInv'
<1> SUFFICES ASSUME TimerInv, [TimerNext]_tvars PROVE TimerInv'
  OBVIOUS
<1> USE DEF TimerInv, TimerTypeOK, Statuses
<1>1. CASE Arm
  BY <1>1 DEF Arm
<1>2. CASE CreateThread
  BY <1>2 DEF CreateThread
<1>3. CASE Join
  BY <1>3 DEF Join
<1>4. CASE Release
  <2>1. CASE callback = "cancelled"
    BY <1>4, <2>1, Zenon DEF Release, Result
  <2>2. CASE callback = "returned"
    BY <1>4, <2>2, Zenon DEF Release, Result
  <2>3. QED
    BY <1>4, <2>1, <2>2, Zenon DEF Release
<1>5. CASE Expire
  BY <1>5 DEF Expire
<1>6. CASE HandlerLogs
  <2>1. stale' \subseteq {"freed", "unset"}
    BY <1>6, Zenon DEF HandlerLogs, Reads
  <2>. freed => callback = "returned"
    BY <1>6, Zenon DEF HandlerLogs
  <2>2. "freed" \in stale' => freed' /\ callback' = "returned"
    BY <1>6, Zenon DEF HandlerLogs, Reads
  <2>3. QED
    BY <1>6, <2>1, <2>2 DEF HandlerLogs
<1>7. CASE HandlerLocks
  BY <1>7 DEF HandlerLocks
<1>8. CASE HandlerCancels
  <2>1. stale' \subseteq {"freed", "unset"}
    BY <1>8, Zenon DEF HandlerCancels, Reads
  <2>. freed => callback = "returned" \/ callback = "cancelled"
    BY <1>8, Zenon DEF HandlerCancels
  <2>2. "freed" \in stale' => freed' /\ callback' = "returned"
    BY <1>8 DEF HandlerCancels, Reads
  <2>3. QED
    BY <1>8, <2>1, <2>2 DEF HandlerCancels
<1>9. CASE HandlerUnlocks
  BY <1>9 DEF HandlerUnlocks
<1>10. CASE Return
  BY <1>10 DEF Return
<1>11. CASE CancellationPoint
  BY <1>11 DEF CancellationPoint
<1>12. CASE UNCHANGED tvars
  BY <1>12 DEF tvars
<1>13. QED
  BY <1>1, <1>2, <1>3, <1>4, <1>5, <1>6, <1>7, <1>8, <1>9, <1>10, <1>11, <1>12, Zenon
     DEF TimerNext, Caller, Handler, Callback

\* For every timer: ta_timer_stop reports an expiration exactly when the callback
\* was cancelled, which the handler did, and a handler whose cancellation took
\* effect has read the ta_timer_t for the last time before it is freed.  One that
\* finds the callback returned may read it later (timer.c:34, timer.c:94).
THEOREM TimerSafe == TimerSpec => []TimerIsSafe
<1>1. TimerInv => TimerIsSafe
  BY DEF TimerInv, TimerIsSafe, ExpiredIsCancelled, CancelledIsLive, Statuses
<1>2. QED
  BY <1>1, TimerInvInit, TimerInvStep, PTL DEF TimerSpec

-----------------------------------------------------------------------------
(* The threads of the process *)

\* The daemon is up only between ta_http_start and the handler of the signal
\* that ends pause(), and its threads work only while it is.
DaemonInv ==
    /\ daemon # "up" => \A w \in Worker : worker[w] = Idle
    /\ phase \in {"boot", "threads", "http"} => daemon = "none"
    /\ phase \in {"cleanup", "releasing", "destroy", "return"} => daemon # "up"
    /\ core = "destroyed" => daemon # "up" /\ phase \in {"return", "exited"}

\* The service is one entry of the list but for the two steps in which
\* ta_update_full_node_connection writes it.
ServiceInv ==
    /\ phase \in {"boot", "threads"} => health.at = "none"
    /\ health.at \in {"try", "host", "port", "ask"} => health.i \in Node
    /\ health.at \notin {"host", "port"} => service.host = service.port
    /\ health.at = "host" => service.host = 0
    /\ health.at = "port" => service.host = health.i

\* A copy no write ran beside has the host the service still has; when it is
\* complete it is an entry of the list.
CopyInv ==
    \A w \in Worker :
        /\ worker[w].at = "copy" /\ ~worker[w].raced
              => worker[w].host = service.host /\ health.at \notin {"host", "port"}
        /\ worker[w].at = "call" /\ ~worker[w].raced
              => worker[w].host = worker[w].port /\ worker[w].host \in Node

\* Calls of ta_logger_switch that do not overlap: the loggers are where the
\* call in progress leaves them, or where the option says.
LoggerInv ==
    /\ (switching["main"] # NoSwitch) = (phase \in {"logging", "releasing"})
    /\ ~raced => /\ switching["main"] = NoSwitch \/ switching["cli"] = NoSwitch
                 /\ \A t \in {"main", "cli"} : switching[t] # NoSwitch => loggers = (switching[t] = "on")
    /\ LoggersMatchOption

\* Where health_track may stand.
HealthAt == {"none", "check", "try", "host", "port", "ask", "broadcast", "sleep", "ended"}

\* What a worker thread is doing.
WorkerRecord == [at : {"idle", "copy", "call"}, host : 0..NodeCount, port : 0..NodeCount, raced : BOOLEAN]

\* Types, with those of the variables ServerTypeOK leaves to the other conjuncts.
ServerTypes ==
    /\ ServerTypeOK
    /\ health \in [at : HealthAt, i : 0..NodeCount]
    /\ worker \in [Worker -> WorkerRecord]

\* The invariant of the process.
ServerInv == ServerTypes /\ DaemonInv /\ ServiceInv /\ CopyInv /\ LoggerInv

USE ServerAssumption

\* The priority list as a range of numbers.
LEMMA NodeRange ==
    /\ Node \subseteq 0..NodeCount /\ 0 \in 0..NodeCount /\ 1 \in Node /\ 0 \notin Node
    /\ \A i \in Node : i # NodeCount => i + 1 \in Node
BY DEF Node

\* The process has just been started.
LEMMA ServerInvInit == ServerInit => ServerInv
<1> SUFFICES ASSUME ServerInit PROVE ServerInv
  OBVIOUS
<1>1. ServerTypeOK
  <2>1. node \in [Node -> NodeState]
    BY DEF ServerInit, NodeState
  <2>2. switching \in [{"main", "cli"} -> {NoSwitch, "on", "off"}]
    BY DEF ServerInit
  <2>3. service \in [host : 0..NodeCount, port : Node] /\ health.at = "none" /\ health.i = 0
    BY NodeRange DEF ServerInit
  <2>4. QED
    BY <2>1, <2>2, <2>3, NodeRange DEF ServerInit, ServerTypeOK
<1>2. ServerTypes
  <2>1. health \in [at : HealthAt, i : 0..NodeCount]
    BY NodeRange DEF ServerInit, HealthAt
  <2>2. worker \in [Worker -> WorkerRecord]
    BY NodeRange DEF ServerInit, Idle, WorkerRecord
  <2>3. QED
    BY <1>1, <2>1, <2>2, Zenon DEF ServerTypes
<1>3. DaemonInv
  BY DEF ServerInit, DaemonInv
<1>4. ServiceInv
  BY DEF ServerInit, ServiceInv
<1>5. CopyInv
  BY DEF ServerInit, CopyInv, Idle
<1>6. LoggerInv
  BY DEF ServerInit, LoggerInv, LoggersMatchOption
<1>7. QED
  BY <1>2, <1>3, <1>4, <1>5, <1>6, Zenon DEF ServerInv

\* What disturbs no conjunct: a step of main() that starts or stops nothing only
\* has to move on, and a thread keeps what it does not write.
LEMMA DaemonKept ==
    ASSUME DaemonInv, UNCHANGED <<phase, core, daemon, worker>>
    PROVE  DaemonInv'
BY DEF DaemonInv

\* The service stays right while neither it nor the health thread moves.
LEMMA ServiceKept ==
    ASSUME ServiceInv, UNCHANGED <<service, health>>,
           phase' \in {"boot", "threads"} => phase \in {"boot", "threads"}
    PROVE  ServiceInv'
BY DEF ServiceInv

\* The copies stay right while no thread refreshes one.
LEMMA CopyKept ==
    ASSUME CopyInv, UNCHANGED <<worker, service>>,
           health'.at \in {"host", "port"} => health.at \in {"host", "port"}
    PROVE  CopyInv'
BY DEF CopyInv

\* The loggers stay right while no thread switches them.
LEMMA LoggerKept ==
    ASSUME LoggerInv, UNCHANGED logVars,
           (phase' \in {"logging", "releasing"}) = (phase \in {"logging", "releasing"}),
           phase' \in {"notify", "pause"} => phase \in {"notify", "pause"}
    PROVE  LoggerInv'
BY DEF LoggerInv, LoggersMatchOption, logVars

\* The two halves of ta_logger_switch, called by main() or by the command line:
\* a call that begins while another is in progress is recorded as a race, and
\* one that ends without a race has left the loggers as it writes the option.
SwitchType == switching \in [{"main", "cli"} -> {NoSwitch, "on", "off"}]

\* A thread begins to switch the loggers.
LEMMA SwitchBegins ==
    ASSUME SwitchType, LoggerInv, NEW who \in {"main", "cli"}, NEW to \in {"on", "off"}, NEW init,
           SwitchBegin(who, to, init),
           \/ who = "main" /\ phase' \in {"logging", "releasing"}
           \/ who = "cli" /\ phase' = phase
    PROVE  SwitchType' /\ LoggerInv'
<1>1. /\ switching' = [switching EXCEPT ![who] = to] /\ loggers' = (to = "on") /\ quiet' = quiet
      /\ switching[who] = NoSwitch /\ to # NoSwitch
  BY DEF SwitchBegin, NoSwitch
<1>2. SwitchType' /\ switching'[who] = to /\ \A t \in {"main", "cli"} : t # who => switching'[t] = switching[t]
  BY <1>1 DEF SwitchType
<1>3. (switching'["main"] # NoSwitch) = (phase' \in {"logging", "releasing"})
  BY <1>1, <1>2 DEF LoggerInv
<1>4. DOMAIN switching = {"main", "cli"} /\ DOMAIN switching' = {"main", "cli"}
  BY <1>2 DEF SwitchType
<1>5. ~raced' => ~raced /\ \A t \in {"main", "cli"} : switching[t] = NoSwitch
  <2>1. raced' = (raced \/ \E t \in {"main", "cli"} : switching[t] # NoSwitch)
    BY <1>4, Zenon DEF SwitchBegin
  <2>2. QED
    BY <2>1, Zenon
<1>6. ~raced' => /\ switching'["main"] = NoSwitch \/ switching'["cli"] = NoSwitch
                 /\ \A t \in {"main", "cli"} : switching'[t] # NoSwitch => loggers' = (switching'[t] = "on")
  BY <1>1, <1>2, <1>5
<1>7. LoggersMatchOption'
  BY <1>1, <1>2, <1>4 DEF LoggersMatchOption
<1>8. QED
  BY <1>2, <1>3, <1>6, <1>7, Zenon DEF LoggerInv

\* A thread is done with switching the loggers.
LEMMA SwitchEnds ==
    ASSUME SwitchType, LoggerInv, NEW who \in {"main", "cli"}, SwitchEnd(who),
           \/ who = "main" /\ phase' \notin {"logging", "releasing"}
           \/ who = "cli" /\ phase' = phase
    PROVE  SwitchType' /\ LoggerInv'
<1>1. /\ switching' = [switching EXCEPT ![who] = NoSwitch] /\ quiet' = (switching[who] = "off")
      /\ switching[who] # NoSwitch /\ loggers' = loggers /\ raced' = raced
  BY DEF SwitchEnd
<1>2. SwitchType' /\ switching'[who] = NoSwitch /\ \A t \in {"main", "cli"} : t # who => switching'[t] = switching[t]
  BY <1>1 DEF SwitchType
<1>3. (switching'["main"] # NoSwitch) = (phase' \in {"logging", "releasing"})
  BY <1>1, <1>2 DEF LoggerInv
<1>4. ~raced' => /\ switching'["main"] = NoSwitch \/ switching'["cli"] = NoSwitch
                 /\ \A t \in {"main", "cli"} : switching'[t] # NoSwitch => loggers' = (switching'[t] = "on")
  BY <1>1, <1>2 DEF LoggerInv
<1>5. switching[who] \in {"on", "off"}
  BY <1>1 DEF SwitchType
<1>6. ~raced => (loggers' <=> ~quiet')
  BY <1>1, <1>5, Zenon DEF LoggerInv
<1>7. LoggersMatchOption'
  BY <1>1, <1>6 DEF LoggersMatchOption
<1>8. QED
  BY <1>2, <1>3, <1>4, <1>7, Zenon DEF LoggerInv

-----------------------------------------------------------------------------
(* One step of each thread *)

\* main() before and after the daemon runs.
LEMMA MainStep ==
    ASSUME ServerInv, Main
    PROVE  ServerInv'
<1> USE DEF ServerInv, logVars, nodeVars, cliVars
<1>1. UNCHANGED <<node, service, worker>>
  BY Zenon DEF Main, Configure, CreateThreads, ta_http_start, StartLoggers, LoggersStarted, notification_trigger,
         ta_stop, StopLoggers, LoggersStopped, ta_core_destroy, Exit
<1>2. ASSUME UNCHANGED <<health, cli>>, SwitchType',
             phase' \in {"boot", "threads", "http", "log", "logging", "notify", "pause", "cleanup",
                         "releasing", "destroy", "return", "exited"},
             core' \in {"unset", "set", "destroyed"}, daemon' \in {"none", "up", "stopped"}
      PROVE  ServerTypes'
  BY <1>1, <1>2 DEF ServerTypes, ServerTypeOK, SwitchType
<1>3. ASSUME UNCHANGED health, phase' \notin {"boot", "threads"}
      PROVE  ServiceInv' /\ CopyInv'
  BY <1>1, <1>3, ServiceKept, CopyKept
<1>4. SwitchType
  BY DEF ServerTypes, ServerTypeOK, SwitchType
<1>5. CASE Configure
  <2>1. ServerTypes'
    BY <1>2, <1>4, <1>5 DEF Configure, SwitchType, ServerTypes, ServerTypeOK
  <2>2. DaemonInv'
    BY <1>5 DEF Configure, DaemonInv
  <2>3. ServiceInv' /\ CopyInv'
    BY <1>1, <1>5, ServiceKept, CopyKept DEF Configure
  <2>4. LoggerInv'
    BY <1>5, LoggerKept DEF Configure
  <2>5. QED
    BY <2>1, <2>2, <2>3, <2>4
<1>6. CASE CreateThreads
  <2>1. health.at = "none" /\ health' = [health EXCEPT !.at = "check"]
    BY <1>6 DEF CreateThreads, ServiceInv
  <2>2. health'.at = "check" /\ health'.i = health.i /\ health' \in [at : HealthAt, i : 0..NodeCount]
    BY <2>1 DEF ServerTypes, HealthAt
  <2>3. ServerTypes'
    BY <1>1, <1>6, <2>2 DEF CreateThreads, ServerTypes, ServerTypeOK
  <2>4. DaemonInv'
    BY <1>6 DEF CreateThreads, DaemonInv
  <2>5. ServiceInv' /\ CopyInv'
    BY <1>1, <1>6, <2>1, <2>2, CopyKept DEF CreateThreads, ServiceInv
  <2>6. LoggerInv'
    BY <1>6, LoggerKept DEF CreateThreads
  <2>7. QED
    BY <2>3, <2>4, <2>5, <2>6
<1>7. CASE ta_http_start
  <2>1. ServerTypes' /\ ServiceInv' /\ CopyInv'
    BY <1>2, <1>3, <1>4, <1>7 DEF ta_http_start, SwitchType, ServerTypes, ServerTypeOK
  <2>2. DaemonInv'
    BY <1>7 DEF ta_http_start, DaemonInv
  <2>3. LoggerInv'
    BY <1>7, LoggerKept DEF ta_http_start
  <2>4. QED
    BY <2>1, <2>2, <2>3
<1>8. CASE StartLoggers
  <2>1. PICK to \in {"on", "off"} : SwitchBegin("main", to, TRUE)
    BY <1>8, Zenon DEF StartLoggers
  <2>2. SwitchType' /\ LoggerInv'
    BY <1>4, <1>8, <2>1, SwitchBegins, Zenon DEF StartLoggers
  <2>3. ServerTypes' /\ ServiceInv' /\ CopyInv'
    BY <1>2, <1>3, <1>8, <2>2 DEF StartLoggers, ServerTypes, ServerTypeOK
  <2>4. DaemonInv'
    BY <1>8 DEF StartLoggers, DaemonInv
  <2>5. QED
    BY <2>2, <2>3, <2>4
<1>9. CASE LoggersStarted
  <2>1. SwitchType' /\ LoggerInv'
    BY <1>4, <1>9, SwitchEnds DEF LoggersStarted
  <2>2. ServerTypes' /\ ServiceInv' /\ CopyInv'
    BY <1>2, <1>3, <1>9, <2>1 DEF LoggersStarted, ServerTypes, ServerTypeOK
  <2>3. DaemonInv'
    BY <1>9 DEF LoggersStarted, DaemonInv
  <2>4. QED
    BY <2>1, <2>2, <2>3
<1>10. CASE notification_trigger
  <2>1. ServerTypes' /\ ServiceInv' /\ CopyInv'
    BY <1>2, <1>3, <1>4, <1>10 DEF notification_trigger, SwitchType, ServerTypes, ServerTypeOK
  <2>2. DaemonInv'
    BY <1>10 DEF notification_trigger, DaemonInv
  <2>3. LoggerInv'
    BY <1>10, LoggerKept DEF notification_trigger
  <2>4. QED
    BY <2>1, <2>2, <2>3
<1>11. CASE ta_stop
  <2>1. ServerTypes'
    BY <1>2, <1>4, <1>11 DEF ta_stop, AfterHandler, SwitchType, ServerTypes, ServerTypeOK
  <2>2. DaemonInv'
    BY <1>1, <1>11 DEF ta_stop, AfterHandler, Joined, DaemonInv, ServerTypes, ServerTypeOK
  <2>3. ServiceInv' /\ CopyInv'
    BY <1>1, <1>11, ServiceKept, CopyKept DEF ta_stop, AfterHandler
  <2>4. LoggerInv'
    BY <1>11, LoggerKept DEF ta_stop, AfterHandler
  <2>5. QED
    BY <2>1, <2>2, <2>3, <2>4
<1>12. CASE StopLoggers
  <2>1. SwitchType' /\ LoggerInv' /\ phase' \in {"releasing", "destroy"}
    <3>1. CASE SwitchBegin("main", "off", FALSE) /\ phase' = "releasing"
      BY <1>4, <3>1, SwitchBegins, Zenon
    <3>2. CASE phase' = "destroy" /\ UNCHANGED logVars
      BY <1>4, <1>12, <3>2, LoggerKept DEF StopLoggers, SwitchType
    <3>3. QED
      BY <1>12, <3>1, <3>2, Zenon DEF StopLoggers
  <2>2. ServerTypes' /\ ServiceInv' /\ CopyInv'
    BY <1>2, <1>3, <1>12, <2>1 DEF StopLoggers, ServerTypes, ServerTypeOK
  <2>3. DaemonInv'
    BY <1>12, <2>1 DEF StopLoggers, DaemonInv
  <2>4. QED
    BY <2>1, <2>2, <2>3
<1>13. CASE LoggersStopped
  <2>1. SwitchType' /\ LoggerInv'
    BY <1>4, <1>13, SwitchEnds DEF LoggersStopped
  <2>2. ServerTypes' /\ ServiceInv' /\ CopyInv'
    BY <1>2, <1>3, <1>13, <2>1 DEF LoggersStopped, ServerTypes, ServerTypeOK
  <2>3. DaemonInv'
    BY <1>13 DEF LoggersStopped, DaemonInv
  <2>4. QED
    BY <2>1, <2>2, <2>3
<1>14. CASE ta_core_destroy
  <2>1. ServerTypes' /\ ServiceInv' /\ CopyInv'
    BY <1>2, <1>3, <1>4, <1>14 DEF ta_core_destroy, SwitchType, ServerTypes, ServerTypeOK
  <2>2. DaemonInv'
    BY <1>14 DEF ta_core_destroy, DaemonInv
  <2>3. LoggerInv'
    BY <1>14, LoggerKept DEF ta_core_destroy
  <2>4. QED
    BY <2>1, <2>2, <2>3
<1>15. CASE Exit
  <2>1. ServerTypes' /\ ServiceInv' /\ CopyInv'
    BY <1>2, <1>3, <1>4, <1>15 DEF Exit, SwitchType, ServerTypes, ServerTypeOK
  <2>2. DaemonInv'
    BY <1>15 DEF Exit, DaemonInv
  <2>3. LoggerInv'
    BY <1>15, LoggerKept DEF Exit
  <2>4. QED
    BY <2>1, <2>2, <2>3
<1>16. QED
  BY <1>5, <1>6, <1>7, <1>8, <1>9, <1>10, <1>11, <1>12, <1>13, <1>14, <1>15, Zenon DEF Main

\* health_track: while it writes the service, every copy in progress is marked.
LEMMA HealthStep ==
    ASSUME ServerInv, health_track
    PROVE  ServerInv'
<1> USE DEF ServerInv, logVars, nodeVars, cliVars, mainVars
<1>1. UNCHANGED <<phase, core, daemon, node, cli, quiet, loggers, switching, raced>>
  BY Zenon DEF health_track, HealthCheck, WriteHost, HostWritten, WritePort, AskNode, Broadcast, WakeUp, HealthOnly
<1>2. LoggerInv'
  BY <1>1, LoggerKept
<1>3. ASSUME health' \in [at : HealthAt, i : 0..NodeCount], service' \in [host : 0..NodeCount, port : Node],
             worker' \in [Worker -> WorkerRecord]
      PROVE  ServerTypes'
  <2>1. health'.at \in HealthAt /\ health'.i \in 0..NodeCount
    BY <1>3
  <2>2. QED
    BY <1>1, <1>3, <2>1 DEF ServerTypes, ServerTypeOK, HealthAt
<1>4. ASSUME UNCHANGED worker PROVE DaemonInv'
  BY <1>1, <1>4, DaemonKept
<1>5. health \in [at : HealthAt, i : 0..NodeCount] /\ service \in [host : 0..NodeCount, port : Node]
  BY DEF ServerTypes, ServerTypeOK
<1>6. ASSUME UNCHANGED <<service, worker>>, health.at \notin {"host", "port"},
             health' \in [at : HealthAt, i : 0..NodeCount], health'.at \notin {"none", "host", "port"},
             health'.at \in {"try", "ask"} => health'.i \in Node, phase \notin {"boot", "threads"}
      PROVE  ServerInv'
  <2>1. ServerTypes' /\ DaemonInv'
    BY <1>3, <1>4, <1>5, <1>6 DEF ServerTypes
  <2>2. ServiceInv'
    BY <1>1, <1>6 DEF ServiceInv
  <2>3. CopyInv'
    BY <1>6, CopyKept
  <2>4. QED
    BY <1>2, <2>1, <2>2, <2>3
<1>7. ASSUME Race PROVE /\ worker' \in [Worker -> WorkerRecord] /\ DaemonInv'
                        /\ \A w \in Worker : /\ worker'[w].at = "copy" => worker'[w].raced
                                             /\ worker'[w].at = "call" => worker'[w] = worker[w]
  <2>1. \A w \in Worker : /\ worker[w].at = "copy" => worker'[w] = [worker[w] EXCEPT !.raced = TRUE]
                          /\ worker[w].at # "copy" => worker'[w] = worker[w]
    BY <1>7 DEF Race
  <2>2. \A w \in Worker : worker[w] \in WorkerRecord
    BY DEF ServerTypes
  <2>3. \A w \in Worker : /\ worker'[w] \in WorkerRecord /\ worker'[w].at = worker[w].at
                          /\ worker[w].at = "copy" => worker'[w].raced
    <3> TAKE w \in Worker
    <3>1. CASE worker[w].at = "copy"
      <4>1. worker'[w] = [worker[w] EXCEPT !.raced = TRUE] /\ worker[w] \in WorkerRecord
        BY <2>1, <2>2, <3>1
      <4>2. QED
        BY <3>1, <4>1, Zenon DEF WorkerRecord
    <3>2. CASE worker[w].at # "copy"
      BY <2>1, <2>2, <3>2, Zenon
    <3>3. QED
      BY <3>1, <3>2
  <2>4. worker' \in [Worker -> WorkerRecord]
    BY <1>7, <2>3 DEF Race
  <2>5. \A w \in Worker : worker[w] = Idle => worker'[w] = Idle
    <3>1. Idle.at # "copy"
      BY DEF Idle
    <3>2. QED
      BY <2>1, <3>1, Zenon
  <2>6. DaemonInv'
    BY <1>1, <2>5 DEF DaemonInv
  <2>7. QED
    BY <2>1, <2>3, <2>4, <2>6
<1>8. health.at # "none" => phase \notin {"boot", "threads"}
  BY DEF ServiceInv
<1>9. CASE HealthCheck
  <2>1. health' \in {[at |-> "ended", i |-> 0], [at |-> "try", i |-> 1], [at |-> "broadcast", i |-> 0], [at |-> "sleep", i |-> 0]}
    BY <1>9 DEF HealthCheck
  <2>2. /\ health' \in [at : HealthAt, i : 0..NodeCount] /\ health'.at \notin {"none", "host", "port"}
        /\ health'.at \in {"try", "ask"} => health'.i \in Node
    BY <2>1, NodeRange DEF HealthAt
  <2>3. UNCHANGED <<service, worker>> /\ health.at = "check"
    BY <1>9, Zenon DEF HealthCheck
  <2>4. QED
    BY <1>6, <1>8, <2>2, <2>3
<1>10. CASE WriteHost
  <2>1. health.at = "try" /\ health' = [health EXCEPT !.at = "host"] /\ service' = [service EXCEPT !.host = 0] /\ Race
    BY <1>10 DEF WriteHost
  <2>2. /\ health'.at = "host" /\ health'.i = health.i /\ health' \in [at : HealthAt, i : 0..NodeCount]
        /\ service'.host = 0 /\ service' \in [host : 0..NodeCount, port : Node]
    BY <1>5, <2>1, NodeRange DEF HealthAt
  <2>3. ServiceInv'
    BY <1>1, <1>8, <2>1, <2>2 DEF ServiceInv
  <2>4. CopyInv'
    BY <1>7, <2>1 DEF CopyInv
  <2>5. QED
    BY <1>2, <1>3, <1>7, <2>1, <2>2, <2>3, <2>4
<1>11. CASE HostWritten
  <2>1. health.at = "host" /\ health' = [health EXCEPT !.at = "port"] /\ service' = [service EXCEPT !.host = health.i] /\ Race
    BY <1>11 DEF HostWritten
  <2>2. /\ health'.at = "port" /\ health'.i = health.i /\ health' \in [at : HealthAt, i : 0..NodeCount]
        /\ service'.host = health.i /\ service' \in [host : 0..NodeCount, port : Node]
    BY <1>5, <2>1 DEF HealthAt
  <2>3. ServiceInv'
    BY <1>1, <1>8, <2>1, <2>2 DEF ServiceInv
  <2>4. CopyInv'
    BY <1>7, <2>1 DEF CopyInv
  <2>5. QED
    BY <1>2, <1>3, <1>7, <2>1, <2>2, <2>3, <2>4
<1>12. CASE WritePort
  <2>1. /\ health.at = "port" /\ health' = [health EXCEPT !.at = "ask"] /\ service' = [service EXCEPT !.port = health.i]
        /\ Race /\ health.i \in Node /\ service.host = health.i
    BY <1>12 DEF WritePort, NewPort, ServiceInv
  <2>2. /\ health'.at = "ask" /\ health'.i = health.i /\ health' \in [at : HealthAt, i : 0..NodeCount]
        /\ service'.host = service'.port /\ service' \in [host : 0..NodeCount, port : Node]
    BY <1>5, <2>1 DEF HealthAt
  <2>3. ServiceInv'
    BY <1>1, <1>8, <2>1, <2>2 DEF ServiceInv
  <2>4. CopyInv'
    BY <1>7, <2>1 DEF CopyInv
  <2>5. QED
    BY <1>2, <1>3, <1>7, <2>1, <2>2, <2>3, <2>4
<1>13. CASE AskNode
  <2>1. UNCHANGED <<service, worker>> /\ health.at = "ask" /\ health.i \in Node
    BY <1>13 DEF AskNode, ServiceInv
  <2>2. \/ health' = [health EXCEPT !.at = "broadcast"]
        \/ health' = [at |-> "try", i |-> health.i + 1] /\ health.i # NodeCount
    BY <1>13, Zenon DEF AskNode, LastEntry
  <2>3. /\ health' \in [at : HealthAt, i : 0..NodeCount] /\ health'.at \notin {"none", "host", "port"}
        /\ health'.at \in {"try", "ask"} => health'.i \in Node
    BY <1>5, <2>1, <2>2, NodeRange DEF HealthAt
  <2>4. QED
    BY <1>6, <1>8, <2>1, <2>3
<1>14. CASE Broadcast \/ WakeUp
  <2>1. /\ UNCHANGED <<service, worker>> /\ health.at \in {"broadcast", "sleep"}
        /\ health' = [at |-> "sleep", i |-> 0] \/ health' = [at |-> "check", i |-> 0]
    BY <1>14 DEF Broadcast, WakeUp
  <2>2. /\ health' \in [at : HealthAt, i : 0..NodeCount] /\ health'.at \notin {"none", "host", "port", "try", "ask"}
    BY <2>1, NodeRange DEF HealthAt
  <2>3. QED
    BY <1>6, <1>8, <2>1, <2>2
<1>15. QED
  BY <1>9, <1>10, <1>11, <1>12, <1>13, <1>14, Zenon DEF health_track

\* A worker of the daemon.
LEMMA WorkerStep ==
    ASSUME ServerInv, NEW w \in Worker, CopyHost(w) \/ CopyPort(w) \/ Answer(w)
    PROVE  ServerInv'
<1> USE DEF ServerInv, logVars, nodeVars, cliVars, mainVars
<1>1. UNCHANGED <<phase, core, daemon, node, service, health, cli, quiet, loggers, switching, raced>>
  BY Zenon DEF CopyHost, CopyPort, Answer, WorkerOnly
<1>2. LoggerInv' /\ ServiceInv'
  BY <1>1, LoggerKept, ServiceKept
<1>3. worker \in [Worker -> WorkerRecord] /\ worker[w] \in WorkerRecord /\ service \in [host : 0..NodeCount, port : Node]
  BY DEF ServerTypes, ServerTypeOK
<1>4. ASSUME NEW r \in WorkerRecord, worker' = [worker EXCEPT ![w] = r], worker[w] # Idle \/ daemon = "up",
             r.at = "copy" /\ ~r.raced => r.host = service.host /\ health.at \notin {"host", "port"},
             r.at = "call" /\ ~r.raced => r.host = r.port /\ r.host \in Node
      PROVE  ServerInv'
  <2>1. worker' \in [Worker -> WorkerRecord] /\ worker'[w] = r /\ \A v \in Worker : v # w => worker'[v] = worker[v]
    BY <1>3, <1>4
  <2>2. ServerTypes'
    BY <1>1, <2>1 DEF ServerTypes, ServerTypeOK
  <2>3. daemon = "up"
    BY <1>4, Zenon DEF DaemonInv
  <2>4. DaemonInv'
    BY <1>1, <2>3, Zenon DEF DaemonInv
  <2>5. CopyInv'
    <3> SUFFICES ASSUME NEW v \in Worker
                 PROVE  /\ worker'[v].at = "copy" /\ ~worker'[v].raced
                             => worker'[v].host = service.host /\ health.at \notin {"host", "port"}
                        /\ worker'[v].at = "call" /\ ~worker'[v].raced
                             => worker'[v].host = worker'[v].port /\ worker'[v].host \in Node
      BY <1>1 DEF CopyInv
    <3>1. CASE v = w
      BY <1>4, <2>1, <3>1, Zenon
    <3>2. CASE v # w
      BY <2>1, <3>2, Zenon DEF CopyInv
    <3>3. QED
      BY <3>1, <3>2
  <2>6. QED
    BY <1>2, <2>2, <2>4, <2>5
<1>5. Idle \in WorkerRecord /\ Idle.at = "idle"
  BY DEF Idle, WorkerRecord
<1>6. CASE CopyHost(w)
  <2>1. PICK b \in BOOLEAN : b = (health.at \in {"host", "port"})
    <3>1. (health.at \in {"host", "port"}) \in BOOLEAN
      OBVIOUS
    <3>2. QED
      BY <3>1, Zenon
  <2>2. ~b => health.at \notin {"host", "port"}
    BY <2>1, Zenon
  <2> DEFINE r == [at |-> "copy", host |-> service.host, port |-> 0, raced |-> b]
  <2>3. worker' = [worker EXCEPT ![w] = r] /\ daemon = "up"
    BY <1>6, <2>1, Zenon DEF CopyHost
  <2>4. r \in WorkerRecord /\ r.at = "copy" /\ r.host = service.host /\ r.raced = b
    BY <1>3, NodeRange DEF WorkerRecord
  <2> HIDE DEF r
  <2>5. QED
    BY <1>4, <2>2, <2>3, <2>4, Zenon
<1>7. CASE CopyPort(w)
  <2>1. PICK r : r = [worker[w] EXCEPT !.at = "call", !.port = service.port]
    OBVIOUS
  <2>2. worker' = [worker EXCEPT ![w] = r] /\ worker[w].at = "copy"
    BY <1>3, <1>7, <2>1, Zenon DEF CopyPort
  <2>3. /\ r \in WorkerRecord /\ r.at = "call" /\ r.host = worker[w].host /\ r.port = service.port
        /\ r.raced = worker[w].raced
    BY <1>3, <2>1, NodeRange, Zenon DEF WorkerRecord
  <2>4. ~r.raced => r.host = service.host /\ health.at \notin {"host", "port"}
    BY <2>2, <2>3, Zenon DEF CopyInv
  <2>5. ~r.raced => r.host = r.port /\ r.host \in Node
    BY <1>3, <2>3, <2>4 DEF ServiceInv
  <2>6. worker[w] # Idle
    BY <1>5, <2>2
  <2>7. QED
    BY <1>4, <2>2, <2>3, <2>5, <2>6, Zenon
<1>8. CASE Answer(w)
  <2>1. worker' = [worker EXCEPT ![w] = Idle] /\ worker[w].at = "call"
    BY <1>8 DEF Answer
  <2>2. worker[w] # Idle
    BY <1>5, <2>1
  <2>3. QED
    BY <1>4, <1>5, <2>1, <2>2, Zenon
<1>9. QED
  BY <1>6, <1>7, <1>8

\* The command line.
LEMMA CliStep ==
    ASSUME ServerInv, cli_routine
    PROVE  ServerInv'
<1> USE DEF ServerInv, logVars, nodeVars, cliVars, mainVars
<1>1. UNCHANGED <<phase, core, daemon, node, service, health, worker>>
  BY Zenon DEF cli_routine, ReadLine, do_logger_switch, LoggerSwitched, do_redis_memory_set, handle_command, CliOnly
<1>2. DaemonInv' /\ ServiceInv' /\ CopyInv'
  BY <1>1, DaemonKept, ServiceKept, CopyKept
<1>3. SwitchType
  BY DEF ServerTypes, ServerTypeOK, SwitchType
<1>4. SwitchType' /\ LoggerInv'
  <2>1. CASE UNCHANGED <<quiet, loggers, switching, raced>>
    BY <1>1, <1>3, <2>1, LoggerKept DEF SwitchType
  <2>2. CASE \E to \in {"on", "off"} : SwitchBegin("cli", to, FALSE)
    BY <1>1, <1>3, <2>2, SwitchBegins, Zenon
  <2>3. CASE SwitchEnd("cli")
    BY <1>1, <1>3, <2>3, SwitchEnds
  <2>4. QED
    BY <2>1, <2>2, <2>3, Zenon
       DEF cli_routine, ReadLine, do_logger_switch, LoggerSwitched, do_redis_memory_set, handle_command
<1>5. cli' \in {"none", "prompt", "switching", "do_logger_switch", "do_redis_memory_set"} \cup DOMAIN CommandTable
  <2>1. CASE ReadLine \/ do_logger_switch \/ LoggerSwitched \/ do_redis_memory_set
    BY <2>1, Zenon DEF ReadLine, do_logger_switch, LoggerSwitched, do_redis_memory_set, CommandTable
  <2>2. ASSUME NEW word \in Token, handle_command(word)
        PROVE  cli' \in {"none", "prompt", "switching", "do_logger_switch", "do_redis_memory_set"} \cup DOMAIN CommandTable
    BY <2>2 DEF handle_command, CommandTable
  <2>3. QED
    BY <2>1, <2>2 DEF cli_routine
<1>6. ServerTypes'
  BY <1>1, <1>4, <1>5 DEF ServerTypes, ServerTypeOK, SwitchType
<1>7. QED
  BY <1>2, <1>4, <1>6

\* Signals and the nodes write nothing the invariant reads but the nodes.
LEMMA ServerInvStep == ServerInv /\ [ServerNext]_svars => ServerInv'
<1> SUFFICES ASSUME ServerInv, [ServerNext]_svars PROVE ServerInv'
  OBVIOUS
<1>1. CASE Signal \/ UNCHANGED svars
  <2>1. UNCHANGED <<phase, core, daemon, node, service, health, worker, cli, quiet, loggers, switching, raced>>
    BY <1>1, Zenon DEF Signal, svars, logVars, nodeVars, cliVars
  <2>2. QED
    BY <2>1, DaemonKept, ServiceKept, CopyKept, LoggerKept DEF ServerInv, ServerTypes, ServerTypeOK, logVars
<1>2. ASSUME NEW n \in Node, NEW to \in NodeState, NodeChanges(n, to) PROVE ServerInv'
  <2>1. UNCHANGED <<phase, core, daemon, service, health, worker, cli, quiet, loggers, switching, raced>>
    BY <1>2, Zenon DEF NodeChanges, mainVars, logVars, cliVars
  <2>2. node' \in [Node -> NodeState]
    BY <1>2 DEF NodeChanges, ServerInv, ServerTypes, ServerTypeOK
  <2>3. ServerTypes'
    BY <2>1, <2>2 DEF ServerInv, ServerTypes, ServerTypeOK
  <2>4. QED
    BY <2>1, <2>3, DaemonKept, ServiceKept, CopyKept, LoggerKept DEF ServerInv, logVars
<1>3. QED
  BY <1>1, <1>2, MainStep, HealthStep, WorkerStep, CliStep, Zenon DEF ServerNext

\* For every number of nodes and of workers: ta_core_destroy finds no request in
\* progress, a request copies one entry of the list unless the service was
\* written meanwhile, and the loggers are what the option says unless two
\* switches overlapped (main.c:84, http.c:428, config.c:577).
THEOREM ThreadsAgree == ServerSpec => []SharedStateAgrees
<1>1. ServerInv => SharedStateAgrees
  BY DEF ServerInv, SharedStateAgrees, WorkersJoined, MixedOnlyInRace, DaemonInv, CopyInv, LoggerInv
<1>2. QED
  BY <1>1, ServerInvInit, ServerInvStep, PTL DEF ServerSpec

-----------------------------------------------------------------------------
(* The stages of the APIs *)

\* Stages with an effect outside of the process, and the APIs that have them.
EffectStage == {"send", "list_push", "insert"}
\* The APIs that have such a stage.
EffectApi == {"send_mam", "transaction", "tryte"}
\* The stages that find out that the request is bad, and how they say so.
CheckStage == {"decode", "recv_mam"}
\* How a checking stage says that the request is bad.
BadRequest == {"CCLIENT_JSON_KEY", "MAM_NO_PAYLOAD", "SERIALIZER_MESSAGE_OVERRUN"}

\* What an API's stages are like: the request is checked before anything is done.
StagesOf(name, stages) ==
    /\ Len(stages) \in Nat \ {0}
    /\ name = "transaction" => Len(stages) = 7
    /\ \A i \in 1..Len(stages) :
          /\ stages[i] \in DOMAIN Fails
          /\ stages[i] \in EffectStage => name \in EffectApi
          /\ name \in EffectApi /\ i >= 2 => stages[i] \notin CheckStage
          /\ stages[i] = "send" /\ name = "transaction" => i = 3
          /\ name = "transaction" /\ i = 3 => stages[i] = "send"
          /\ name = "transaction" /\ i = 6 => stages[i] = "insert"
          /\ name = "transaction" /\ stages[i] \in {"prepare", "send", "find"} => i < 5

\* The stages that the APIs are made of.
LEMMA FailsDomain ==
    DOMAIN Fails = {"decode", "recv_mam", "cache_set", "list_push", "cache", "objects", "node", "node_status", "db", "insert",
                    "prepare", "send", "find", "command", "decode_proxy", "encode_proxy", "encode"}
BY Zenon DEF Fails

\* Stages that have no effect outside of the process.
Quiet == DOMAIN Fails \ EffectStage

\* The quiet stages by name.
LEMMA QuietStages ==
    {"decode", "recv_mam", "cache_set", "cache", "objects", "node", "node_status", "db", "prepare", "find", "command",
     "decode_proxy", "encode_proxy", "encode"} \subseteq Quiet
BY FailsDomain, Zenon DEF Quiet, EffectStage

\* An API made of quiet stages only.
AllQuiet(stages) ==
    /\ Len(stages) \in Nat \ {0}
    /\ \A i \in 1..Len(stages) : stages[i] \in Quiet

\* Such an API, unless it is one that has an effect, has nothing more to show.
LEMMA QuietApi ==
    ASSUME NEW name, NEW stages, name \notin EffectApi, AllQuiet(stages)
    PROVE  StagesOf(name, stages)
<1>1. name # "transaction"
  BY Zenon DEF EffectApi
<1>2. QED
  BY <1>1, Zenon DEF StagesOf, AllQuiet, Quiet

\* One, two or three quiet stages in a row.
LEMMA OneStage == ASSUME NEW a \in Quiet PROVE AllQuiet(<<a>>)
BY SMTT(20) DEF AllQuiet
\* Two of them.
LEMMA TwoStages == ASSUME NEW a \in Quiet, NEW b \in Quiet PROVE AllQuiet(<<a, b>>)
BY SMTT(20) DEF AllQuiet
\* Three of them.
LEMMA ThreeStages == ASSUME NEW a \in Quiet, NEW b \in Quiet, NEW c \in Quiet PROVE AllQuiet(<<a, b, c>>)
BY SMTT(20) DEF AllQuiet
\* A quiet call behind another API: proxy_api_wrapper, and the lookup of an id.
LEMMA BehindTwo ==
    ASSUME NEW a \in Quiet, NEW b \in Quiet, NEW c \in Quiet
    PROVE  AllQuiet(<<a>> \o <<b, c>>)
<1> DEFINE s == <<a>> \o <<b, c>>
<1>1. Len(s) = 3 /\ s[1] = a /\ s[2] = b /\ s[3] = c
  BY SMTT(20)
<1> HIDE DEF s
<1>2. AllQuiet(s)
  BY <1>1, SMTT(20) DEF AllQuiet
<1>3. QED
  BY <1>2, Zenon DEF s
\* The same for a call of three stages.
LEMMA BehindThree ==
    ASSUME NEW a \in Quiet, NEW b \in Quiet, NEW c \in Quiet, NEW d \in Quiet
    PROVE  AllQuiet(<<a>> \o <<b, c, d>>)
<1> DEFINE s == <<a>> \o <<b, c, d>>
<1>1. Len(s) = 4 /\ s[1] = a /\ s[2] = b /\ s[3] = c /\ s[4] = d
  BY SMTT(20)
<1> HIDE DEF s
<1>2. AllQuiet(s)
  BY <1>1, SMTT(20) DEF AllQuiet
<1>3. QED
  BY <1>2, Zenon DEF s

\* Every API checks its request first: its stages, one by one (apis.c).
LEMMA StagesAreRight == \A name \in DOMAIN Stages : StagesOf(name, Stages[name])
<1>1. StagesOf("recv_mam", Stages["recv_mam"])
  <2>1. Stages["recv_mam"] = api_recv_mam_message /\ "recv_mam" \notin EffectApi
    BY Zenon DEF Stages, EffectApi
  <2>2. QED
    BY <2>1, QuietStages, ThreeStages, QuietApi, Zenon DEF api_recv_mam_message
<1>2. StagesOf("fetch", Stages["fetch"])
  <2>1. Stages["fetch"] = api_fetch_buffered_request_status /\ "fetch" \notin EffectApi
    BY Zenon DEF Stages, EffectApi
  <2>2. QED
    BY <2>1, QuietStages, ThreeStages, QuietApi, Zenon DEF api_fetch_buffered_request_status
<1>3. StagesOf("object_single", Stages["object_single"])
  <2>1. Stages["object_single"] = api_find_transaction_object_single /\ "object_single" \notin EffectApi
    BY Zenon DEF Stages, EffectApi
  <2>2. QED
    BY <2>1, QuietStages, TwoStages, QuietApi, Zenon DEF api_find_transaction_object_single
<1>4. StagesOf("objects", Stages["objects"])
  <2>1. Stages["objects"] = api_find_transaction_objects /\ "objects" \notin EffectApi
    BY Zenon DEF Stages, EffectApi
  <2>2. QED
    BY <2>1, QuietStages, ThreeStages, QuietApi, Zenon DEF api_find_transaction_objects
<1>5. StagesOf("hashes_by_tag", Stages["hashes_by_tag"])
  <2>1. Stages["hashes_by_tag"] = api_find_transactions_by_tag /\ "hashes_by_tag" \notin EffectApi
    BY Zenon DEF Stages, EffectApi
  <2>2. QED
    BY <2>1, QuietStages, TwoStages, QuietApi, Zenon DEF api_find_transactions_by_tag
<1>6. StagesOf("objects_by_tag", Stages["objects_by_tag"])
  <2>1. Stages["objects_by_tag"] = api_find_transactions_obj_by_tag /\ "objects_by_tag" \notin EffectApi
    BY Zenon DEF Stages, EffectApi
  <2>2. QED
    BY <2>1, QuietStages, ThreeStages, QuietApi, Zenon DEF api_find_transactions_obj_by_tag
<1>7. StagesOf("status", Stages["status"])
  <2>1. Stages["status"] = api_get_node_status /\ "status" \notin EffectApi
    BY Zenon DEF Stages, EffectApi
  <2>2. QED
    BY <2>1, QuietStages, TwoStages, QuietApi, Zenon DEF api_get_node_status
<1>8. StagesOf("identity_hash", Stages["identity_hash"])
  <2>1. Stages["identity_hash"] = api_get_identity_info_by_hash /\ "identity_hash" \notin EffectApi
    BY Zenon DEF Stages, EffectApi
  <2>2. QED
    BY <2>1, QuietStages, TwoStages, QuietApi, Zenon DEF api_get_identity_info_by_hash
<1>9. StagesOf("identity_id", Stages["identity_id"])
  <2>1. Stages["identity_id"] = api_get_identity_info_by_id /\ "identity_id" \notin EffectApi
    BY Zenon DEF Stages, EffectApi
  <2>2. QED
    BY <2>1, QuietStages, TwoStages, QuietApi, Zenon DEF api_get_identity_info_by_id
<1>10. StagesOf("info", Stages["info"])
  <2>1. Stages["info"] = api_get_ta_info /\ "info" \notin EffectApi
    BY Zenon DEF Stages, EffectApi
  <2>2. QED
    BY <2>1, QuietStages, OneStage, QuietApi, Zenon DEF api_get_ta_info
<1>11. StagesOf("passthrough", Stages["passthrough"])
  <2>1. Stages["passthrough"] = <<"node">> /\ "passthrough" \notin EffectApi
    BY Zenon DEF Stages, EffectApi
  <2>2. QED
    BY <2>1, QuietStages, OneStage, QuietApi, Zenon
<1>12. StagesOf("transaction_id", Stages["transaction_id"])
  <2>1. Stages["transaction_id"] = api_find_transactions_by_id /\ "transaction_id" \notin EffectApi
    BY Zenon DEF Stages, EffectApi
  <2>2. QED
    BY <2>1, QuietStages, BehindTwo, QuietApi, Zenon DEF api_find_transactions_by_id, api_find_transaction_object_single
<1>13. StagesOf("checkConsistency", Stages["checkConsistency"])
  <2>1. Stages["checkConsistency"] = proxy_api_wrapper(api_check_consistency) /\ "checkConsistency" \notin EffectApi
    BY Zenon DEF Stages, EffectApi
  <2>2. QED
    BY <2>1, QuietStages, BehindThree, QuietApi, Zenon DEF proxy_api_wrapper, api_check_consistency
<1>14. StagesOf("findTransactions", Stages["findTransactions"])
  <2>1. Stages["findTransactions"] = proxy_api_wrapper(api_find_transactions) /\ "findTransactions" \notin EffectApi
    BY Zenon DEF Stages, EffectApi
  <2>2. QED
    BY <2>1, QuietStages, BehindThree, QuietApi, Zenon DEF proxy_api_wrapper, api_find_transactions
<1>15. StagesOf("getBalances", Stages["getBalances"])
  <2>1. Stages["getBalances"] = proxy_api_wrapper(api_get_balances) /\ "getBalances" \notin EffectApi
    BY Zenon DEF Stages, EffectApi
  <2>2. QED
    BY <2>1, QuietStages, BehindThree, QuietApi, Zenon DEF proxy_api_wrapper, api_get_balances
<1>16. StagesOf("getInclusionStates", Stages["getInclusionStates"])
  <2>1. Stages["getInclusionStates"] = proxy_api_wrapper(api_get_inclusion_states) /\ "getInclusionStates" \notin EffectApi
    BY Zenon DEF Stages, EffectApi
  <2>2. QED
    BY <2>1, QuietStages, BehindThree, QuietApi, Zenon DEF proxy_api_wrapper, api_get_inclusion_states
<1>17. StagesOf("getNodeInfo", Stages["getNodeInfo"])
  <2>1. Stages["getNodeInfo"] = proxy_api_wrapper(api_get_node_info) /\ "getNodeInfo" \notin EffectApi
    BY Zenon DEF Stages, EffectApi
  <2>2. QED
    BY <2>1, QuietStages, BehindTwo, QuietApi, Zenon DEF proxy_api_wrapper, api_get_node_info
<1>18. StagesOf("getTrytes", Stages["getTrytes"])
  <2>1. Stages["getTrytes"] = proxy_api_wrapper(api_get_trytes) /\ "getTrytes" \notin EffectApi
    BY Zenon DEF Stages, EffectApi
  <2>2. QED
    BY <2>1, QuietStages, BehindThree, QuietApi, Zenon DEF proxy_api_wrapper, api_get_trytes
<1>19. StagesOf("send_mam", Stages["send_mam"])
  <2> DEFINE s == api_send_mam_message
  <2>1. Len(s) = 4 /\ s[1] = "decode" /\ s[2] = "cache_set" /\ s[3] = "list_push" /\ s[4] = "encode"
    BY SMTT(20) DEF api_send_mam_message
  <2> HIDE DEF s
  <2>2. Len(s) \in Nat \ {0} /\ \A i \in 1..Len(s) : i = 1 \/ i = 2 \/ i = 3 \/ i = 4
    BY <2>1, SMTT(20)
  <2>3. \A i \in 1..Len(s) : s[i] \in DOMAIN Fails
    BY <2>1, <2>2, FailsDomain, Zenon
  <2>4. \A i \in 1..Len(s) : i >= 2 => s[i] \notin CheckStage
    <3>1. \A i \in 1..Len(s) : i >= 2 => s[i] = "cache_set" \/ s[i] = "list_push" \/ s[i] = "encode"
      BY <2>1, <2>2, SMTT(20)
    <3>2. QED
      BY <3>1, Zenon DEF CheckStage
  <2>5. StagesOf("send_mam", s)
    BY <2>2, <2>3, <2>4, Zenon DEF StagesOf, EffectApi
  <2>6. QED
    BY <2>5, Zenon DEF s, Stages
<1>20. StagesOf("tryte", Stages["tryte"])
  <2> DEFINE s == api_send_trytes
  <2>1. Len(s) = 3 /\ s[1] = "decode" /\ s[2] = "send" /\ s[3] = "encode"
    BY SMTT(20) DEF api_send_trytes
  <2> HIDE DEF s
  <2>2. Len(s) \in Nat \ {0} /\ \A i \in 1..Len(s) : i = 1 \/ i = 2 \/ i = 3
    BY <2>1, SMTT(20)
  <2>3. \A i \in 1..Len(s) : s[i] \in DOMAIN Fails
    BY <2>1, <2>2, FailsDomain, Zenon
  <2>4. \A i \in 1..Len(s) : i >= 2 => s[i] \notin CheckStage
    <3>1. \A i \in 1..Len(s) : i >= 2 => s[i] = "send" \/ s[i] = "encode"
      BY <2>1, <2>2, SMTT(20)
    <3>2. QED
      BY <3>1, Zenon DEF CheckStage
  <2>5. StagesOf("tryte", s)
    BY <2>2, <2>3, <2>4, Zenon DEF StagesOf, EffectApi
  <2>6. QED
    BY <2>5, Zenon DEF s, Stages
<1>21. StagesOf("transaction", Stages["transaction"])
  <2> DEFINE s == api_send_transfer
  <2>1. Len(s) = 7 /\ s[1] = "decode" /\ s[2] = "prepare" /\ s[3] = "send" /\ s[4] = "find" /\ s[5] = "objects" /\ s[6] = "insert" /\ s[7] = "encode"
    BY SMTT(20) DEF api_send_transfer, ta_send_transfer
  <2> HIDE DEF s
  <2>2. Len(s) \in Nat \ {0} /\ \A i \in 1..Len(s) : i = 1 \/ i = 2 \/ i = 3 \/ i = 4 \/ i = 5 \/ i = 6 \/ i = 7
    BY <2>1, SMTT(20)
  <2>3. \A i \in 1..Len(s) : s[i] \in DOMAIN Fails
    BY <2>1, <2>2, FailsDomain, Zenon
  <2>4. \A i \in 1..Len(s) : i >= 2 => s[i] \notin CheckStage
    <3>1. \A i \in 1..Len(s) : i >= 2 => s[i] = "prepare" \/ s[i] = "send" \/ s[i] = "find" \/ s[i] = "objects" \/ s[i] = "insert" \/ s[i] = "encode"
      BY <2>1, <2>2, SMTT(20)
    <3>2. QED
      BY <3>1, Zenon DEF CheckStage
  <2>5. \A i \in 1..Len(s) : (s[i] = "send" => i = 3) /\ (i = 3 => s[i] = "send") /\ (i = 6 => s[i] = "insert")
    BY <2>1, <2>2, SMTT(20)
  <2>6. \A i \in 1..Len(s) : s[i] \in {"prepare", "send", "find"} => i < 5
    BY <2>1, <2>2, SMTT(20)
  <2>7. StagesOf("transaction", s)
    BY <2>1, <2>2, <2>3, <2>4, <2>5, <2>6, Zenon DEF StagesOf, EffectApi
  <2>8. QED
    BY <2>7, Zenon DEF s, Stages
<1>22. DOMAIN Stages = {"recv_mam", "send_mam", "fetch", "object_single", "objects", "hashes_by_tag",
           "objects_by_tag", "status", "identity_hash", "identity_id", "transaction_id", "transaction",
           "tryte", "info", "checkConsistency", "findTransactions", "getBalances", "getInclusionStates",
           "getNodeInfo", "getTrytes", "passthrough"}
  BY Zenon DEF Stages
<1>23. \A name \in {"recv_mam", "fetch", "object_single", "objects", "hashes_by_tag", "objects_by_tag", "status",
           "identity_hash", "identity_id", "info", "passthrough"} :
           StagesOf(name, Stages[name])
  BY <1>1, <1>2, <1>3, <1>4, <1>5, <1>6, <1>7, <1>8, <1>9, <1>10, <1>11, Zenon
<1>24. \A name \in {"transaction_id", "checkConsistency", "findTransactions", "getBalances", "getInclusionStates",
           "getNodeInfo", "getTrytes", "send_mam", "tryte", "transaction"} :
           StagesOf(name, Stages[name])
  BY <1>12, <1>13, <1>14, <1>15, <1>16, <1>17, <1>18, <1>19, <1>20, <1>21, Zenon
<1>25. \A name \in DOMAIN Stages :
         \/ name \in {"recv_mam", "fetch", "object_single", "objects", "hashes_by_tag", "objects_by_tag", "status",
           "identity_hash", "identity_id", "info", "passthrough"}
         \/ name \in {"transaction_id", "checkConsistency", "findTransactions", "getBalances", "getInclusionStates",
           "getNodeInfo", "getTrytes", "send_mam", "tryte", "transaction"}
  BY <1>22, Zenon
<1>26. QED
  BY <1>23, <1>24, <1>25, Zenon

-----------------------------------------------------------------------------
(* The connection *)

\* Types of the connection's state.
HttpStatus == {"OK"} \cup UNION {Fails[stage] : stage \in DOMAIN Fails}
ApiRecord == [name : DOMAIN Stages \cup {"none"}, at : Nat, status : HttpStatus, uuid : BOOLEAN, undefined : BOOLEAN]
Effects == [attached : BOOLEAN, buffered : BOOLEAN, row : BOOLEAN]
ClientRecord == [method : {"GET", "POST", "OPTIONS", "PUT"}, ctype : {"json", "other", "absent"},
                 path : Path, body : Seq(Chunk), sent : Nat]
RequestRecord == [request : Seq(Chunk), code : {0, 500}, valid : BOOLEAN]

\* The body: what has been collected is what has been sent, while no chunk was
\* dropped; the API is entered only then.
BodyInv ==
    /\ client = Null \/ (client \in ClientRecord /\ client.sent <= Len(client.body))
    /\ http_req = Null \/ http_req \in RequestRecord
    /\ client = Null => http_req = Null
    /\ client # Null /\ http_req = Null => api = NoApi
    /\ http_req # Null /\ api = NoApi /\ http_req.code = 0
          => Len(http_req.request) = client.sent /\ \A i \in 1..client.sent : http_req.request[i] = client.body[i]
    /\ BodyWhole

\* The API: nothing is done before the request has been checked, and a transfer
\* that is not answered with a uuid has been attached after its third stage and
\* stored after its sixth.
ApiInv ==
    /\ api \in ApiRecord /\ effect \in Effects
    /\ api = NoApi \/ (api.name # "none" /\ api.at >= 1)
    /\ api = NoApi => effect = NoEffect
    /\ effect # NoEffect => api.name \in EffectApi /\ api.at >= 2
    /\ api.status \in BadRequest => effect = NoEffect
    /\ api.name = "transaction" /\ ~api.uuid /\ ~api.undefined
          => (api.at > 3 => effect.attached) /\ (api.at > 6 => effect.row)
    /\ OkIsComplete /\ BadRequestHasNoEffect /\ TransferAnswered

\* The invariant of a connection.
HttpInv == BodyInv /\ ApiInv

\* No API is running and nothing has been done at first.
LEMMA NoApiRecord == NoApi \in ApiRecord /\ NoApi.name = "none" /\ NoApi.status = "OK" /\ NoEffect \in Effects
<1>1. "OK" \in HttpStatus
  BY Zenon DEF HttpStatus
<1>2. QED
  BY <1>1, Zenon DEF NoApi, ApiRecord, NoEffect, Effects

\* No path and no API is named like the absent one.
LEMMA ApiNames == "none" \notin DOMAIN Stages /\ "none" \notin Path
BY Zenon DEF Stages, Path, Commands

\* A chunk that is put behind what was collected: still what has been sent.
LEMMA ChunkTaken ==
    ASSUME NEW S, NEW r \in Seq(S), NEW c \in S, NEW b, NEW n \in Nat, Len(r) = n, c = b[n + 1],
           \A i \in 1..n : r[i] = b[i]
    PROVE  Len(Append(r, c)) = n + 1 /\ \A i \in 1..(n + 1) : Append(r, c)[i] = b[i]
BY SMTT(20)

\* A process that has just started serves no connection.
LEMMA HttpInvInit == HttpInit => HttpInv
<1> SUFFICES ASSUME HttpInit PROVE HttpInv
  BY Zenon
<1>1. BodyInv
  BY Zenon DEF HttpInit, BodyInv, BodyWhole
<1>2. NoApi.status \notin BadRequest
  BY NoApiRecord, Zenon DEF BadRequest
<1>3. ApiInv
  BY <1>2, NoApiRecord, Zenon DEF HttpInit, ApiInv, OkIsComplete, BadRequestHasNoEffect, TransferAnswered
<1>4. QED
  BY <1>1, <1>3, Zenon DEF HttpInv

\* What a step that does not touch them keeps.
LEMMA BodyKept ==
    ASSUME BodyInv, UNCHANGED <<client, http_req>>, (api' = NoApi) = (api = NoApi)
    PROVE  BodyInv'
BY Zenon DEF BodyInv, BodyWhole

\* A step that leaves the API alone keeps what is said of it.
LEMMA ApiKept ==
    ASSUME ApiInv, UNCHANGED <<api, effect, response>>
    PROVE  ApiInv'
BY DEF ApiInv, OkIsComplete, BadRequestHasNoEffect, TransferAnswered

\* A connection that is over keeps no body.
LEMMA BodyClosed ==
    ASSUME client' = Null, http_req' = Null
    PROVE  BodyInv'
BY Zenon DEF BodyInv, BodyWhole

\* A request is made of the chunks the client sends.
LEMMA RequestRecords == \A r \in Request : r \in ClientRecord /\ r.sent = 0 /\ Len(r.body) \in Nat
<1>1. UNION {[1..n -> Chunk] : n \in 0..MaxChunks} \subseteq Seq(Chunk)
  BY HttpApiAssumption
<1>2. QED
  BY <1>1 DEF Request, ClientRecord

\* The calls of the handler before the API.
LEMMA CollectStep ==
    ASSUME HttpInv, \/ NewRequest
                    \/ FirstCall \/ Refuse \/ Upload \/ StartApi \/ AnswerOwn \/ QueueResponse \/ Abort
    PROVE  HttpInv'
<1> USE DEF HttpInv
<1>1. CASE NewRequest
  <2>1. client' \in Request /\ http_req' = Null /\ api' = NoApi /\ effect' = NoEffect /\ response' = 0
    BY <1>1, Zenon DEF NewRequest, BodyInv
  <2>2. BodyInv'
    BY <2>1, RequestRecords DEF BodyInv, BodyWhole
  <2>3. NoApi.status \notin BadRequest
    BY NoApiRecord, Zenon DEF BadRequest
  <2>4. ApiInv'
    BY <2>1, <2>3, NoApiRecord, Zenon DEF ApiInv, OkIsComplete, BadRequestHasNoEffect, TransferAnswered
  <2>5. QED
    BY <2>2, <2>4, Zenon
<1>2. CASE FirstCall
  <2>1. ApiInv'
    BY <1>2, ApiKept, Zenon DEF FirstCall
  <2>2. CASE client' = Null /\ http_req' = http_req
    BY <1>2, <2>1, <2>2, BodyClosed DEF FirstCall
  <2>3. CASE client' = client /\ \E valid \in BOOLEAN : http_req' = [request |-> <<>>, code |-> 0, valid |-> valid]
    <3>1. PICK valid \in BOOLEAN : http_req' = [request |-> <<>>, code |-> 0, valid |-> valid]
      BY <2>3, Zenon
    <3>2. http_req' \in RequestRecord /\ http_req'.request = <<>>
      BY <3>1 DEF RequestRecord
    <3>3. api' = NoApi /\ client.sent = 0 /\ client # Null
      BY <1>2, Zenon DEF FirstCall, BodyInv
    <3>4. Len(<<>>) = 0 /\ 1..0 = {}
      BY SMTT(20)
    <3>5. Len(http_req'.request) = client'.sent /\ 1..client'.sent = {}
      BY <2>3, <3>2, <3>3, <3>4, Zenon
    <3>6. BodyWhole'
      BY <3>3, Zenon DEF BodyWhole
    <3>7. BodyInv'
      BY <2>3, <3>2, <3>3, <3>5, <3>6, Zenon DEF BodyInv
    <3>8. QED
      BY <2>1, <3>7, Zenon
  <2>4. QED
    <3>1. (client.ctype = "json") \in BOOLEAN
      BY Zenon
    <3>2. QED
      BY <1>2, <2>2, <2>3, <3>1, Zenon DEF FirstCall, Close
<1>3. CASE Refuse \/ QueueResponse
  <2>1. client' = Null /\ http_req' = Null /\ UNCHANGED <<api, effect, response>>
    BY <1>3, Zenon DEF Refuse, QueueResponse, Cleanup, Close
  <2>2. QED
    BY <2>1, BodyClosed, ApiKept, Zenon
<1>4. CASE Upload
  <2>1. ApiInv'
    BY <1>4, ApiKept, Zenon DEF Upload
  <2>2. /\ client \in ClientRecord /\ client # Null /\ http_req # Null /\ http_req \in RequestRecord /\ api' = NoApi
        /\ client.sent < Len(client.body) /\ client' = [client EXCEPT !.sent = @ + 1]
    BY <1>4, Zenon DEF Upload, Collecting, BodyInv
  <2>3. PICK c \in Chunk : c = client.body[client.sent + 1]
    BY <2>2 DEF ClientRecord
  <2>4. /\ client' \in ClientRecord /\ client'.sent = client.sent + 1 /\ client'.body = client.body
        /\ client'.sent <= Len(client'.body)
    BY <2>2 DEF ClientRecord
  <2>5. Null \notin ClientRecord
    BY Zenon DEF Null, ClientRecord
  <2>6. CASE http_req' = http_req /\ http_req.code # 0
    BY <2>1, <2>2, <2>4, <2>5, <2>6, Zenon DEF BodyInv, BodyWhole
  <2>7. CASE http_req' = [http_req EXCEPT !.code = 500]
    <3>1. http_req' \in RequestRecord /\ http_req'.code = 500
      BY <2>2, <2>7 DEF RequestRecord
    <3>2. QED
      BY <2>1, <2>2, <2>4, <2>5, <3>1 DEF BodyInv, BodyWhole
  <2>8. CASE http_req' = [http_req EXCEPT !.request = Append(@, c)] /\ http_req.code = 0
    <3>1. http_req' \in RequestRecord /\ http_req'.request = Append(http_req.request, c) /\ http_req.request \in Seq(Chunk)
      <4>1. PICK q \in Seq(Chunk) : q = Append(http_req.request, c)
        <5>1. http_req.request \in Seq(Chunk)
          BY <2>2, Zenon DEF RequestRecord
        <5>2. Append(http_req.request, c) \in Seq(Chunk)
          BY <5>1
        <5>3. QED
          BY <5>2, Zenon
      <4>2. http_req' = [http_req EXCEPT !.request = q]
        BY <2>8, <4>1, Zenon
      <4>3. http_req' \in RequestRecord /\ http_req'.request = q /\ http_req.request \in Seq(Chunk)
        BY <2>2, <4>2 DEF RequestRecord
      <4>4. QED
        BY <4>1, <4>3, Zenon
    <3>2. Len(http_req.request) = client.sent /\ \A i \in 1..client.sent : http_req.request[i] = client.body[i]
      BY <1>4, <2>2, <2>8, Zenon DEF BodyInv, Upload
    <3>3. /\ Len(http_req'.request) = client'.sent
          /\ \A i \in 1..client'.sent : http_req'.request[i] = client'.body[i]
      <4>1. client.sent \in Nat
        BY <2>2, Zenon DEF ClientRecord
      <4>2. /\ Len(Append(http_req.request, c)) = client.sent + 1
            /\ \A i \in 1..(client.sent + 1) : Append(http_req.request, c)[i] = client.body[i]
        <5>1. PICK r, b, n : r = http_req.request /\ b = client.body /\ n = client.sent
          BY Zenon
        <5>2. r \in Seq(Chunk) /\ c \in Chunk /\ n \in Nat /\ Len(r) = n /\ c = b[n + 1] /\ \A i \in 1..n : r[i] = b[i]
          BY <2>3, <3>1, <3>2, <4>1, <5>1, Zenon
        <5>3. Len(Append(r, c)) = n + 1 /\ \A i \in 1..(n + 1) : Append(r, c)[i] = b[i]
          BY <5>2, ChunkTaken
        <5>4. QED
          BY <5>1, <5>3, Zenon
      <4>3. QED
        BY <2>4, <3>1, <4>2, Zenon
    <3>4. QED
      BY <2>1, <2>2, <2>4, <2>5, <3>1, <3>3 DEF BodyInv, BodyWhole
  <2>9. QED
    BY <1>4, <2>3, <2>6, <2>7, <2>8, Zenon DEF Upload, build_request
<1>5. CASE StartApi
  <2>1. PICK name \in Command : api' = [NoApi EXCEPT !.name = name, !.at = 1]
    BY <1>5, Zenon DEF StartApi
  <2>2. /\ client # Null /\ client \in ClientRecord /\ client.path # "unknown" /\ http_req # Null
        /\ http_req \in RequestRecord /\ api = NoApi /\ http_req.code = 0 /\ client.sent = Len(client.body)
        /\ UNCHANGED <<client, http_req, effect, response>> /\ response = 0
    <3>1. client.path = "unknown" => Route # 0
      BY DEF Route
    <3>2. QED
      BY <1>5, <3>1, Zenon DEF StartApi, LastCall, Collecting, BodyInv
  <2>3. name \in DOMAIN Stages
    BY <2>1, <2>2 DEF Command, ClientRecord, Path, Commands, Stages
  <2>4. /\ api' \in ApiRecord /\ api'.name = name /\ api'.at = 1 /\ api'.status = "OK" /\ ~api'.uuid
    BY <2>1, <2>3, NoApiRecord, Zenon DEF ApiRecord, NoApi
  <2>5. api' # NoApi /\ name # "none"
    BY <2>3, <2>4, NoApiRecord, ApiNames, Zenon
  <2>6. http_req.request = client.body
    BY <2>2 DEF BodyInv, ClientRecord, RequestRecord
  <2>7. BodyInv'
    BY <2>2, <2>5, <2>6, Zenon DEF BodyInv, BodyWhole
  <2>8. effect = NoEffect
    BY <2>2, Zenon DEF ApiInv
  <2>9. "OK" \notin BadRequest
    BY Zenon DEF BadRequest
  <2>10. ApiInv'
    BY <2>2, <2>4, <2>5, <2>8, <2>9, NoApiRecord DEF ApiInv, OkIsComplete, BadRequestHasNoEffect, TransferAnswered
  <2>11. QED
    BY <2>7, <2>10, Zenon
<1>6. CASE AnswerOwn
  <2>1. api = NoApi /\ UNCHANGED <<client, http_req, api, effect>>
    BY <1>6, Zenon DEF AnswerOwn, LastCall, Collecting
  <2>2. BodyInv'
    BY <2>1, BodyKept, Zenon
  <2>3. ApiInv'
    BY <2>1, NoApiRecord, Zenon DEF ApiInv, OkIsComplete, BadRequestHasNoEffect, TransferAnswered
  <2>4. QED
    BY <2>2, <2>3, Zenon
<1>7. CASE Abort
  BY <1>7, BodyClosed, ApiKept, Zenon DEF Abort, Close
<1>8. QED
  BY <1>1, <1>2, <1>3, <1>4, <1>5, <1>6, <1>7, Zenon

\* What the stage that is called can be.
LEMMA StageIs ==
    ASSUME ApiInv, Calling
    PROVE  /\ api \in ApiRecord /\ effect \in Effects /\ api # NoApi /\ api.name \in DOMAIN Stages
           /\ api.at \in Nat /\ api.at >= 1 /\ Encode \in Nat /\ Encode >= 1 /\ api.status = "OK" /\ response = 0
           /\ Stage \in DOMAIN Fails
           /\ Stage \in EffectStage => api.name \in EffectApi
           /\ Stage \in CheckStage => effect = NoEffect
           /\ api.name = "transaction" => /\ Encode = 7 /\ (Stage = "send" => api.at = 3)
                                          /\ (api.at = 3 => Stage = "send") /\ (api.at = 6 => Stage = "insert")
<1>1. api \in ApiRecord /\ api.name # "none" /\ api.status = "OK" /\ response = 0 /\ api.at <= Len(Stages[api.name])
  BY Zenon DEF ApiInv, Calling
<1>2. api.name \in DOMAIN Stages /\ api.at \in Nat
  BY <1>1, Zenon DEF ApiRecord
<1>3. api # NoApi /\ api.at >= 1
  BY <1>1, NoApiRecord, Zenon DEF ApiInv
<1> DEFINE n == api.name
           s == Stages[api.name]
<1>4. StagesOf(n, s) /\ api.at <= Len(s)
  BY <1>1, <1>2, StagesAreRight, Zenon
<1>5. Stage = s[api.at] /\ Encode = Len(s)
  BY Zenon DEF Stage, Encode
<1>6. effect \in Effects /\ (effect # NoEffect => n \in EffectApi /\ api.at >= 2)
  BY Zenon DEF ApiInv
<1> HIDE DEF n, s
<1>7. api.at \in 1..Len(s) /\ Len(s) \in Nat /\ Len(s) >= 1
  BY <1>2, <1>3, <1>4 DEF StagesOf
<1>8. /\ s[api.at] \in DOMAIN Fails
      /\ s[api.at] \in EffectStage => n \in EffectApi
      /\ n \in EffectApi /\ api.at >= 2 => s[api.at] \notin CheckStage
      /\ n = "transaction" => /\ Len(s) = 7 /\ (s[api.at] = "send" => api.at = 3)
                              /\ (api.at = 3 => s[api.at] = "send") /\ (api.at = 6 => s[api.at] = "insert")
  BY <1>4, <1>7, Zenon DEF StagesOf
<1>9. QED
  BY <1>1, <1>2, <1>3, <1>5, <1>6, <1>7, <1>8, Zenon DEF n

\* What a stage leaves behind, it adds.
LEMMA DoneAdds ==
    ASSUME NEW stage, effect \in Effects
    PROVE  /\ Done(stage) \in Effects
           /\ Done(stage) # effect => stage \in EffectStage
           /\ effect.attached \/ stage = "send" => Done(stage).attached
           /\ effect.row \/ stage = "insert" => Done(stage).row
<1>1. CASE stage = "send"
  <2>1. Done(stage) = [effect EXCEPT !.attached = TRUE]
    BY <1>1, Zenon DEF Done
  <2>2. QED
    BY <1>1, <2>1, Zenon DEF Effects, EffectStage
<1>2. CASE stage = "list_push"
  <2>1. Done(stage) = [effect EXCEPT !.buffered = TRUE]
    BY <1>2, Zenon DEF Done
  <2>2. QED
    BY <1>2, <2>1, Zenon DEF Effects, EffectStage
<1>3. CASE stage = "insert"
  <2>1. Done(stage) = [effect EXCEPT !.row = TRUE]
    BY <1>3, Zenon DEF Done
  <2>2. QED
    BY <1>3, <2>1, Zenon DEF Effects, EffectStage
<1>4. CASE stage \notin {"send", "list_push", "insert"}
  <2>1. Done(stage) = effect
    BY <1>4, Zenon DEF Done
  <2>2. QED
    BY <1>4, <2>1, Zenon
<1>5. QED
  BY <1>1, <1>2, <1>3, <1>4, Zenon

\* Only the stages that check the request blame it, and no stage fails with OK.
LEMMA WhoBlames ==
    ASSUME NEW stage \in DOMAIN Fails, NEW status \in Fails[stage]
    PROVE  status \in HttpStatus /\ status # "OK" /\ (status \in BadRequest => stage \in CheckStage)
<1>1. status \in HttpStatus
  BY Zenon DEF HttpStatus
<1> DEFINE Other == {"OTHER", "FAILED_RESPONSE", "CCLIENT_NOT_FOUND", "NODE_UNSYNC", "COMMAND_NOT_MATCH"}
<1>2. "OK" \notin Fails["decode"] /\ "OK" \notin Fails["recv_mam"]
  BY Zenon DEF Fails
<1>3. /\ Fails["cache_set"] \subseteq Other /\ Fails["list_push"] \subseteq Other /\ Fails["cache"] \subseteq Other
      /\ Fails["objects"] \subseteq Other /\ Fails["node"] \subseteq Other /\ Fails["node_status"] \subseteq Other
      /\ Fails["db"] \subseteq Other /\ Fails["insert"] \subseteq Other /\ Fails["prepare"] \subseteq Other
      /\ Fails["send"] \subseteq Other /\ Fails["find"] \subseteq Other /\ Fails["command"] \subseteq Other
      /\ Fails["decode_proxy"] \subseteq Other /\ Fails["encode_proxy"] \subseteq Other /\ Fails["encode"] \subseteq Other
  BY Zenon DEF Fails, ta_send_trytes
<1>4. "OK" \notin Other /\ \A f \in Other : f \notin BadRequest
  BY Zenon DEF BadRequest
<1> HIDE DEF Other
<1>5. stage \in {"decode", "recv_mam"} \/ Fails[stage] \subseteq Other
  BY <1>3, FailsDomain, Zenon
<1>6. status # "OK" /\ (status \in BadRequest => stage \in CheckStage)
  BY <1>2, <1>4, <1>5, Zenon DEF CheckStage
<1>7. QED
  BY <1>1, <1>6, Zenon

\* The configuration is fixed.
ConfInv == conf \in [cache : BOOLEAN, passthrough : BOOLEAN]

\* The call of the API, stage by stage, and its answer.
LEMMA ApiStep ==
    ASSUME HttpInv, ConfInv, StageOk \/ StageFails \/ AnswerApi
    PROVE  HttpInv'
<1>1. BodyInv /\ ApiInv /\ UNCHANGED <<client, http_req>>
  BY Zenon DEF HttpInv, StageOk, StageFails, AnswerApi
<1>2. "OK" \notin BadRequest
  BY Zenon DEF BadRequest
<1>3. CASE StageOk
  <2>1. Calling /\ api' = [api EXCEPT !.at = api.at + 1] /\ effect' = Done(Stage) /\ response' = response
    BY <1>3, Zenon DEF StageOk
  <2>2. /\ api' \in ApiRecord /\ api'.name = api.name /\ api'.at = api.at + 1 /\ api'.status = "OK"
        /\ api'.uuid = api.uuid /\ api'.undefined = api.undefined
    <3>1. api \in ApiRecord /\ api.status = "OK" /\ api.at + 1 \in Nat
      BY <1>1, <2>1, StageIs
    <3>2. QED
      BY <2>1, <3>1, Zenon DEF ApiRecord
  <2>3. api # NoApi /\ api'.name # "none" /\ api' # NoApi /\ api'.at >= 2
    <3>1. api # NoApi /\ api.name \in DOMAIN Stages /\ api.at \in Nat /\ api.at >= 1
      BY <1>1, <2>1, StageIs, Zenon
    <3>2. api'.name # "none" /\ api'.at >= 2
      BY <2>2, <3>1, ApiNames
    <3>3. QED
      BY <3>1, <3>2, NoApiRecord, Zenon
  <2>4. effect' \in Effects /\ (effect' # NoEffect => api'.name \in EffectApi)
    <3>1. effect' \in Effects /\ (effect' # effect => Stage \in EffectStage)
      BY <1>1, <2>1, StageIs, DoneAdds, Zenon
    <3>2. QED
      BY <1>1, <2>1, <2>2, <3>1, StageIs DEF ApiInv
  <2>5. ASSUME api.name = "transaction", ~api.uuid, ~api.undefined
        PROVE  (api'.at > 3 => effect'.attached) /\ (api'.at > 6 => effect'.row)
    <3>1. (api.at > 3 => effect.attached) /\ (api.at > 6 => effect.row)
      BY <1>1, <2>5, Zenon DEF ApiInv
    <3>2. (api.at = 3 => Stage = "send") /\ (api.at = 6 => Stage = "insert") /\ api.at \in Nat
      BY <1>1, <2>1, <2>5, StageIs, Zenon
    <3>3. (api'.at > 3 => api.at > 3 \/ api.at = 3) /\ (api'.at > 6 => api.at > 6 \/ api.at = 6)
      BY <2>2, <3>2
    <3>4. /\ effect.attached \/ Stage = "send" => effect'.attached
          /\ effect.row \/ Stage = "insert" => effect'.row
      BY <1>1, <2>1, StageIs, DoneAdds, Zenon
    <3>5. QED
      BY <3>1, <3>2, <3>3, <3>4, Zenon
  <2>6. response' = 0
    BY <1>1, <2>1, StageIs, Zenon
  <2>7. ApiInv'
    <3>1. OkIsComplete' /\ BadRequestHasNoEffect' /\ TransferAnswered'
      BY <2>6 DEF OkIsComplete, BadRequestHasNoEffect, TransferAnswered
    <3>2. api'.at >= 1
      BY <2>2, <2>3 DEF ApiRecord
    <3>3. QED
      BY <1>2, <2>2, <2>3, <2>4, <2>5, <3>1, <3>2, Zenon DEF ApiInv
  <2>8. QED
    BY <1>1, <2>3, <2>7, BodyKept, Zenon DEF HttpInv
<1>4. CASE StageFails
  <2>1. PICK status \in Fails[Stage] :
            \/ TakenAsCached(status) /\ AnswerUuid
            \/ Reported(status) /\ api' = [api EXCEPT !.at = Encode]
            \/ ~TakenAsCached(status) /\ ~Reported(status) /\ StageError(status)
    BY <1>4, Zenon DEF StageFails
  <2>2. Calling /\ response' = response /\ response = 0
    BY <1>4, Zenon DEF StageFails, Calling
  <2>3. status \in HttpStatus /\ status # "OK" /\ (status \in BadRequest => Stage \in CheckStage)
    BY <1>1, <2>2, StageIs, WhoBlames, Zenon
  <2>4. /\ effect' \in Effects /\ effect'.attached = effect.attached /\ effect'.row = effect.row
        /\ effect' # effect => api.name = "transaction" /\ Stage = "send"
    <3>1. CASE api.name = "transaction" /\ Stage = "send"
      <4>1. PICK kept \in {conf.cache, FALSE} : effect' = [effect EXCEPT !.buffered = kept]
        BY <1>4, <3>1, Zenon DEF StageFails, Buffer
      <4>2. effect \in Effects /\ kept \in BOOLEAN
        BY <1>1, <4>1, Zenon DEF ApiInv, ConfInv
      <4>3. QED
        BY <3>1, <4>1, <4>2, Zenon DEF Effects
    <3>2. CASE ~(api.name = "transaction" /\ Stage = "send")
      <4>1. effect' = effect
        BY <1>4, <3>2, Zenon DEF StageFails
      <4>2. QED
        BY <1>1, <4>1, Zenon DEF ApiInv
    <3>3. QED
      BY <3>1, <3>2, Zenon
  <2>5. effect' # NoEffect => api.name \in EffectApi /\ api.at >= 2
    <3>1. CASE effect' = effect
      BY <1>1, <3>1, Zenon DEF ApiInv
    <3>2. CASE effect' # effect
      BY <1>1, <2>2, <2>4, <3>2, StageIs DEF EffectApi
    <3>3. QED
      BY <3>1, <3>2, Zenon
  <2>6. status \in BadRequest => effect' = NoEffect
    <3>1. "send" \notin CheckStage
      BY Zenon DEF CheckStage
    <3>2. QED
      BY <1>1, <2>2, <2>3, <2>4, <3>1, StageIs
  <2>7. OkIsComplete' /\ BadRequestHasNoEffect' /\ TransferAnswered'
    BY <2>2 DEF OkIsComplete, BadRequestHasNoEffect, TransferAnswered
  <2>8. CASE TakenAsCached(status) /\ AnswerUuid
    <3>1. PICK b \in BOOLEAN, c \in BOOLEAN :
              (b \/ c) /\ api' = [api EXCEPT !.at = Encode, !.uuid = b, !.undefined = c]
      <4>1. (Stage = "send") \in BOOLEAN /\ (Stage # "send") \in BOOLEAN
        BY Zenon
      <4>2. QED
        BY <2>8, <4>1, Zenon DEF AnswerUuid
    <3>2. api \in ApiRecord /\ api.name = "transaction" /\ Encode = 7 /\ api.status = "OK"
      BY <1>1, <2>2, <2>8, StageIs DEF TakenAsCached
    <3>3. /\ api' \in ApiRecord /\ api'.name = "transaction" /\ api'.at = Encode /\ api'.status = "OK"
          /\ api'.uuid = b /\ api'.undefined = c
      <4>1. Encode \in Nat
        BY <3>2, Zenon
      <4>2. QED
        BY <3>1, <3>2, <4>1, Zenon DEF ApiRecord
    <3>4. api'.at >= 1 /\ api'.at >= 2 /\ api'.name # "none" /\ api' # NoApi /\ api'.name \in EffectApi
      BY <3>2, <3>3, NoApiRecord DEF EffectApi
    <3>5. ApiInv'
      BY <1>2, <2>4, <2>7, <3>1, <3>3, <3>4, Zenon DEF ApiInv
    <3>6. api # NoApi
      BY <1>1, <2>2, StageIs, ZenonT(30)
    <3>7. QED
      BY <1>1, <3>4, <3>5, <3>6, BodyKept DEF HttpInv
  <2>9. CASE Reported(status) /\ api' = [api EXCEPT !.at = Encode]
    <3>1. api \in ApiRecord /\ api.name = "status" /\ Encode \in Nat /\ Encode >= 1 /\ api.status = "OK" /\ api # NoApi
      BY <1>1, <2>2, <2>9, StageIs, Zenon DEF Reported
    <3>2. api' \in ApiRecord /\ api'.name = "status" /\ api'.at = Encode /\ api'.status = "OK"
      BY <2>9, <3>1, Zenon DEF ApiRecord
    <3>3. effect' = NoEffect /\ api'.at >= 1 /\ api'.name # "none" /\ api' # NoApi /\ api'.name # "transaction"
      BY <2>5, <3>1, <3>2, NoApiRecord, Zenon DEF EffectApi
    <3>4. ApiInv'
      BY <1>2, <2>4, <2>7, <3>2, <3>3, ZenonT(30) DEF ApiInv
    <3>5. QED
      BY <1>1, <3>1, <3>3, <3>4, BodyKept DEF HttpInv
  <2>10. CASE StageError(status)
    <3>1. api \in ApiRecord /\ api.name # "none" /\ api.at >= 1 /\ api # NoApi
      BY <1>1, <2>2, StageIs, ApiNames, Zenon
    <3>2. /\ api' \in ApiRecord /\ api'.name = api.name /\ api'.at = api.at /\ api'.status = status
          /\ api'.uuid = api.uuid /\ api'.undefined = api.undefined
      BY <2>3, <2>10, <3>1, Zenon DEF ApiRecord, StageError
    <3>3. api'.name # "none" /\ api' # NoApi /\ api'.at >= 1
      BY <3>1, <3>2, NoApiRecord
    <3>4. ApiInv'
      <4>1. api.name = "transaction" /\ ~api.uuid /\ ~api.undefined
              => (api.at > 3 => effect.attached) /\ (api.at > 6 => effect.row)
        BY <1>1, Zenon DEF ApiInv
      <4>2. QED
        BY <2>4, <2>5, <2>6, <2>7, <3>2, <3>3, <4>1, Zenon DEF ApiInv
    <3>5. QED
      BY <1>1, <3>1, <3>3, <3>4, BodyKept DEF HttpInv
  <2>11. QED
    BY <2>1, <2>8, <2>9, <2>10, Zenon
<1>5. CASE AnswerApi
  <2>1. api.name # "none" /\ response = 0 /\ ~Calling /\ response' = set_response_content(api.status) /\ UNCHANGED <<api, effect>>
    BY <1>5, Zenon DEF AnswerApi
  <2>2. (response' = 200 => api.status = "OK") /\ (response' \in {400, 405} => api.status \in BadRequest)
    BY <2>1 DEF set_response_content, BadRequest
  <2>3. api # NoApi /\ api.name \in DOMAIN Stages /\ api.at \in Nat
    BY <1>1, <2>1, NoApiRecord, Zenon DEF ApiInv, ApiRecord
  <2>4. Len(Stages[api.name]) \in Nat /\ (api.name = "transaction" => Len(Stages[api.name]) = 7)
    BY <2>3, StagesAreRight, Zenon DEF StagesOf
  <2>5. response' = 200 => api.at > Len(Stages[api.name])
    BY <2>1, <2>2, <2>3, <2>4 DEF Calling
  <2>6. OkIsComplete' /\ BadRequestHasNoEffect'
    BY <1>1, <2>1, <2>2, <2>5 DEF ApiInv, OkIsComplete, BadRequestHasNoEffect
  <2>7. TransferAnswered'
    <3>1. response' = 200 /\ api.name = "transaction" => api.at > 3 /\ api.at > 6
      <4>1. response' = 200 /\ api.name = "transaction" => api.at > 7
        BY <2>4, <2>5, Zenon
      <4>2. api.at > 7 => api.at > 3 /\ api.at > 6
        BY <2>3
      <4>3. QED
        BY <4>1, <4>2, Zenon
    <3>2. api.name = "transaction" /\ ~api.uuid /\ ~api.undefined
            => (api.at > 3 => effect.attached) /\ (api.at > 6 => effect.row)
      BY <1>1, Zenon DEF ApiInv
    <3>3. QED
      BY <2>1, <3>1, <3>2, Zenon DEF TransferAnswered
  <2>8. ApiInv'
    BY <1>1, <2>1, <2>6, <2>7, Zenon DEF ApiInv
  <2>9. QED
    BY <1>1, <2>1, <2>8, BodyKept, Zenon DEF HttpInv
<1>6. QED
  BY <1>3, <1>4, <1>5, Zenon

\* Every callback and every stage keeps the invariant.
LEMMA HttpInvStep == HttpInv /\ ConfInv /\ [HttpNext]_hvars => HttpInv' /\ ConfInv'
<1> SUFFICES ASSUME HttpInv, ConfInv, [HttpNext]_hvars PROVE HttpInv' /\ ConfInv'
  BY Zenon
<1>1. CASE UNCHANGED hvars
  BY <1>1, BodyKept, ApiKept, Zenon DEF hvars, HttpInv, ConfInv
<1>2. CASE HttpNext
  <2>1. HttpInv'
    BY <1>2, CollectStep, ApiStep, Zenon DEF HttpNext, ta_http_handler
  <2>2. conf' = conf
    BY <1>2, Zenon DEF HttpNext, ta_http_handler, NewRequest, FirstCall, Refuse, Upload, StartApi, AnswerOwn, StageOk,
           StageFails, AnswerApi, QueueResponse, Abort
  <2>3. QED
    BY <2>1, <2>2, Zenon DEF ConfInv
<1>3. QED
  BY <1>1, <1>2, Zenon

\* The status the client is given is true of the whole body it sent, for bodies
\* and limits of any length: see StatusIsTrue.
THEOREM StatusesAreTrue == HttpSpec => []StatusIsTrue
<1>1. HttpInv => StatusIsTrue
  BY Zenon DEF HttpInv, BodyInv, ApiInv, StatusIsTrue
<1>2. HttpInit => ConfInv
  BY Zenon DEF HttpInit, ConfInv
<1>3. QED
  BY <1>1, <1>2, HttpInvInit, HttpInvStep, PTL DEF HttpSpec
=============================================================================
