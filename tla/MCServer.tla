------------------------------- MODULE MCServer -------------------------------
(***************************************************************************)
(* The server process: its threads, its HTTP connection and the timer.     *)
(* They share no data, so a behaviour runs one of them: the state space is *)
(* the sum of the three and not a product.                                 *)
(***************************************************************************)
EXTENDS Server, HttpApi, Timer

\* With and without the cache and the command line.
MCOptions == {[cache |-> TRUE, cli |-> FALSE], [cache |-> FALSE, cli |-> TRUE]}

VARIABLE active

mvars == <<svars, hvars, tvars, active>>

\* What a component that does not run starts from: one of its initial states.
ServerRests == option = [cache |-> TRUE, cli |-> FALSE] /\ quiet = FALSE /\ ServerInit
HttpRests == conf = [cache |-> TRUE, passthrough |-> FALSE] /\ HttpInit
TimerRests == endless = TRUE /\ TimerInit

Init ==
    \/ active = "server" /\ ServerInit /\ HttpRests /\ TimerRests
    \/ active = "http" /\ ServerRests /\ HttpInit /\ TimerRests
    \/ active = "timer" /\ ServerRests /\ HttpRests /\ TimerInit

\* Nothing but the running component moves.
ServerRuns == active = "server" /\ UNCHANGED <<hvars, tvars, active>>
HttpRuns == active = "http" /\ UNCHANGED <<svars, tvars, active>>
TimerRuns == active = "timer" /\ UNCHANGED <<svars, hvars, active>>

ServerStep == ServerRuns /\ ServerNext
HttpStep == HttpRuns /\ HttpNext
TimerStep == TimerRuns /\ TimerNext

Next == ServerStep \/ HttpStep \/ TimerStep

\* The fairness of every component, for the behaviours it runs in.
Fairness ==
    /\ WF_mvars(ServerRuns /\ Main) /\ WF_mvars(ServerRuns /\ health_track)
    /\ WF_mvars(ServerRuns /\ LoggerSwitched)
    /\ \A w \in Worker : WF_mvars(ServerRuns /\ (CopyPort(w) \/ Answer(w)))
    /\ WF_mvars(HttpRuns /\ HandlerProceeds)
    /\ WF_mvars(TimerRuns /\ Caller) /\ WF_mvars(TimerRuns /\ Expire)
    /\ WF_mvars(TimerRuns /\ Handler) /\ WF_mvars(TimerRuns /\ Callback)

Spec == Init /\ [][Next]_mvars /\ Fairness

\* The type invariants of the three.
TypesOK == ServerTypeOK /\ HttpTypeOK /\ TimerTypeOK

\* Whoever begins comes to an end and leaves nothing behind: main() after a
\* signal (main.c:84), a request and its object (http.c:449), and the caller of
\* a timer (timer.c:73), with the exceptions each of them names.
EveryoneEnds == StopEnds /\ RequestEnds /\ FreedUnlessAborted /\ TimerStops
=============================================================================
