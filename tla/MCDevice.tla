------------------------------- MODULE MCDevice -------------------------------
(***************************************************************************)
(* The devices' side: the MQTT client of the server they publish to, the   *)
(* endpoint, and the OBD-II monitor with the car it reads.  A behaviour    *)
(* runs one of them.                                                       *)
(***************************************************************************)
EXTENDS Mqtt, Obd, Endpoint

MCSensor == <<"CALCULATED_ENGINE_LOAD", "ENGINE_COOLANT_TEMPERATURE">>

VARIABLE active

mvars == <<qttvars, ovars, evars, active>>

\* What an endpoint that does not run starts from.
EndpointRests == keyfile = "absent" /\ https = FALSE /\ ssl_seed = FALSE /\ EndpointInit

Init ==
    /\ MqttInit /\ ObdInit
    /\ \/ active = "endpoint" /\ EndpointInit
       \/ active \in {"mqtt", "obd"} /\ EndpointRests

\* Nothing but the running component moves.
MqttRuns == active = "mqtt" /\ UNCHANGED <<ovars, evars, active>>
ObdRuns == active = "obd" /\ UNCHANGED <<qttvars, evars, active>>
EndpointRuns == active = "endpoint" /\ UNCHANGED <<qttvars, ovars, active>>

MqttStep == MqttRuns /\ MqttNext
ObdStep == ObdRuns /\ ObdNext
EndpointStep == EndpointRuns /\ EndpointNext

Next == MqttStep \/ ObdStep \/ EndpointStep

\* The fairness of every component, for the behaviours it runs in.
Fairness ==
    /\ WF_mvars(MqttRuns /\ Setup) /\ WF_mvars(MqttRuns /\ ConnectSub) /\ WF_mvars(MqttRuns /\ ConnectPub)
    /\ WF_mvars(MqttRuns /\ SubConnected) /\ WF_mvars(MqttRuns /\ LoopEnds) /\ WF_mvars(MqttRuns /\ Publishing)
    /\ WF_mvars(ObdRuns /\ obd_query) /\ WF_mvars(ObdRuns /\ ReadFrame) /\ WF_mvars(ObdRuns /\ get_obd_datasets)
    /\ WF_mvars(ObdRuns /\ Serve) /\ WF_mvars(ObdRuns /\ send_vin_message)
    /\ WF_mvars(EndpointRuns /\ SendProceeds)

Spec == Init /\ [][Next]_mvars /\ Fairness

\* The type invariants of the three.
TypesOK == MqttTypeOK /\ ObdTypeOK /\ EndpointTypeOK

\* Nobody waits for ever for the other side: the server listens again after an
\* answer (pub_utils.c:106), the monitor fills its table (monitor.c:243), and a
\* send returns (endpoint_core.c:139), with the exceptions each of them names.
EveryoneEnds == ListensAgain /\ MonitorFinishes /\ SendReturns
=============================================================================
