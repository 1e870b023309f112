-------------------------------- MODULE MCData --------------------------------
(***************************************************************************)
(* The sequential parts: reading the configuration, answering queries, and *)
(* turning requests and responses from and to JSON.  A behaviour runs one  *)
(* of them.                                                                *)
(***************************************************************************)
EXTENDS Config, Query, Serializer

VARIABLE active

mvars == <<fvars, qvars, zvars, active>>

\* What a component that does not run starts from: one of its initial states.
ConfigRests == argv = <<>> /\ file = <<>> /\ ConfigInit
QueryRests == tangle = {} /\ cached = {} /\ QueryInit
SerializerRests == Start("register", [seed |-> Absent], Absent, "decode")

Init ==
    \/ active = "config" /\ QueryRests /\ SerializerRests /\ ConfigInit
    \/ active = "query" /\ ConfigRests /\ SerializerRests /\ QueryInit
    \/ active = "serializer" /\ ConfigRests /\ QueryRests /\ SerializerInit

ConfigStep == active = "config" /\ ConfigNext /\ UNCHANGED <<qvars, zvars, active>>
QueryStep == active = "query" /\ QueryNext /\ UNCHANGED <<fvars, zvars, active>>
SerializerStep == active = "serializer" /\ SerializerNext /\ UNCHANGED <<fvars, qvars, active>>

Next == ConfigStep \/ QueryStep \/ SerializerStep

Spec == Init /\ [][Next]_mvars

\* The type invariants of the three.
TypesOK == ConfigTypeOK /\ QueryTypeOK /\ SerializerTypeOK
=============================================================================
