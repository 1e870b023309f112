-------------------------------- MODULE Mqtt --------------------------------
(***************************************************************************)
(* The MQTT server: one client that subscribes, takes a request, drops the *)
(* connection, connects again to publish the answer, and starts over.  The *)
(* request, the answer and its topic are kept in cfg between the two       *)
(* connections.  The session is clean: what is published while the client  *)
(* is not subscribed is lost.  libmosquitto and the broker are modelled by *)
(* the callbacks they make; memory exhaustion is left out.  Both halves    *)
(* use one mosquitto object and QoS 1: an answer that is not acknowledged  *)
(* is sent again on every later connection, the subscriber's included, and *)
(* its acknowledgement ends that connection.                               *)
(***************************************************************************)
EXTENDS Integers, Sequences, FiniteSets

CONSTANTS MaxSent,       \* bound: requests the devices publish
          MaxLinkFaults  \* bound: refused, lost or failing connections

ASSUME MqttAssumption == MaxSent \in Nat /\ MaxLinkFaults \in Nat

VARIABLES place,      \* where the duplex client is
          link,       \* the connection to the broker
          sent,       \* kinds of the requests published so far
          inbox,      \* requests on their way to the subscriber
          recv,       \* sub_config->recv_message: the request it is of, 0 for NULL
          pub,        \* pub_config: the runs that the topic and the message are of
          unacked,    \* answers in the mosquitto object that are not acknowledged
          handled,    \* history: runs of an API, in order
          published,  \* history: what publish_message was given, in order
          linkFaults  \* connections refused to the subscriber, answers lost, other faults

qttvars == <<place, link, sent, inbox, recv, pub, unacked, handled, published, linkFaults>>

\* "empty" has no payload, "no_device" has no device_id or is no JSON, and the
\* device_id of "bad_device" is no topic.  The API and its status do not matter
\* here: every topic has an answer, also one that is no API's.
Kind == {"good", "empty", "no_device", "bad_device"}

Place == {"setup", "sub_connect", "sub_loop", "pub_connect", "pub_loop", "exit"}

\* An API runs: the topic it is chosen by and the body it gets, which also names
\* the device, come with messages that need not be the same.
Run == [of : Nat, body : Nat]
NoRun == [of |-> 0, body |-> 0]

MqttInit ==
    /\ place = "setup" /\ link = "down" /\ sent = <<>> /\ inbox = <<>>
    /\ recv = 0 /\ pub = [topic |-> NoRun, message |-> NoRun] /\ unacked = 0
    /\ handled = <<>> /\ published = <<>> /\ linkFaults = [refused |-> 0, lost |-> 0, other |-> 0]

FaultOf(f) ==
    /\ linkFaults.refused + linkFaults.lost + linkFaults.other < MaxLinkFaults
    /\ linkFaults' = [linkFaults EXCEPT ![f] = @ + 1]
Fault == FaultOf("other")
NoFault == UNCHANGED linkFaults

-----------------------------------------------------------------------------
(* The main loop *)

\* The topics of the APIs are added; a root topic with a wildcard is refused.
gossip_api_channels_set == {"SC_OK", "SC_MQTT_TOPIC_SET"}

\* A failure ends the program.
Setup ==
    /\ place = "setup"
    /\ \E ret \in gossip_api_channels_set : place' = IF ret = "SC_OK" THEN "sub_connect" ELSE "exit"
    /\ UNCHANGED <<link, sent, inbox, recv, pub, unacked, handled, published, linkFaults>>

\* mosq_client_connect: a failure is returned by duplex_client_start, and main
\* only repeats it after SC_OK.
Connect(from, to) ==
    /\ place = from
    /\ \/ place' = to /\ link' = "opening" /\ NoFault
       \/ place' = "exit" /\ UNCHANGED link /\ Fault
    /\ UNCHANGED <<sent, inbox, recv, pub, unacked, handled, published>>

ConnectSub == Connect("sub_connect", "sub_loop")
ConnectPub == Connect("pub_connect", "pub_loop")

-----------------------------------------------------------------------------
(* Subscribing *)

\* connect_callback_sub_func: it subscribes, or gives up a refused connection.
SubConnected ==
    /\ place = "sub_loop" /\ link = "opening"
    /\ \/ link' = "up" /\ NoFault
       \/ link' = "refused" /\ FaultOf("refused")
    /\ UNCHANGED <<place, sent, inbox, recv, pub, unacked, handled, published>>

\* A device publishes a request.
Send(kind) ==
    /\ Len(sent) < MaxSent /\ sent' = Append(sent, kind)
    /\ inbox' = IF link = "up" /\ place = "sub_loop" THEN Append(inbox, Len(sent) + 1) ELSE inbox
    /\ UNCHANGED <<place, link, recv, pub, unacked, handled, published, linkFaults>>

\* Whether the request names its device, and the device makes a topic.
mqtt_device_id_deserialize(req) == req # 0 /\ sent[req] # "no_device"
cfg_add_topic(req) == sent[req] # "bad_device"

\* Mutant: the message is kept whatever became of the topic.
mqtt_request_handlerMixed(m, req) ==
    LET run == [of |-> m, body |-> req]
    IN  IF mqtt_device_id_deserialize(req)
          THEN /\ handled' = Append(handled, run)
               /\ pub' = [pub EXCEPT !.topic = IF cfg_add_topic(req) THEN run ELSE @, !.message = run]
          ELSE UNCHANGED <<handled, pub>>

\* The device is read from the body, the API of the topic of message m runs on the
\* body, then the topic and the message are set; each early return leaves what the
\* run before has set.
mqtt_request_handler(m, req) ==
    LET run == [of |-> m, body |-> req]
    IN  IF mqtt_device_id_deserialize(req)
          THEN /\ handled' = Append(handled, run)
               /\ pub' = IF cfg_add_topic(req) THEN [topic |-> run, message |-> run] ELSE pub
          ELSE UNCHANGED <<handled, pub>>

\* The old request is kept when there is no payload.
dump_message(m) == IF sent[m] = "empty" THEN recv ELSE m

\* Mutant: the request is handled before the message is copied.
message_callback_duplex_funcEarly ==
    /\ place = "sub_loop" /\ link \in {"up", "closing"} /\ inbox # <<>>
    /\ recv' = dump_message(Head(inbox))
    /\ mqtt_request_handler(Head(inbox), recv)
    /\ inbox' = Tail(inbox) /\ link' = "closing"
    /\ UNCHANGED <<place, sent, unacked, published, linkFaults>>

\* The client disconnects and the request is handled, with the topic of this
\* message and the body that is kept.  Messages already read from the socket come
\* before the loop ends.
message_callback_duplex_func ==
    /\ place = "sub_loop" /\ link \in {"up", "closing"} /\ inbox # <<>>
    /\ recv' = dump_message(Head(inbox))
    /\ mqtt_request_handler(Head(inbox), recv')
    /\ inbox' = Tail(inbox) /\ link' = "closing"
    /\ UNCHANGED <<place, sent, unacked, published, linkFaults>>

\* mosquitto_loop_forever connects again by itself when the link is lost ...
Reconnect ==
    /\ place = "sub_loop" /\ link \in {"opening", "up"} /\ Fault
    /\ link' = "opening" /\ inbox' = <<>>
    /\ UNCHANGED <<place, sent, recv, pub, unacked, handled, published>>

\* ... returns an error it cannot repair ...
LoopFails ==
    /\ place = "sub_loop" /\ Fault
    /\ place' = "exit" /\ link' = "down" /\ inbox' = <<>>
    /\ UNCHANGED <<sent, recv, pub, unacked, handled, published>>

\* Mutant: messages of the closed connection stay.
LoopEndsKeeps ==
    /\ place = "sub_loop" /\ link \in {"closing", "refused"}
    /\ place' = "pub_connect" /\ link' = "down"
    /\ UNCHANGED <<sent, inbox, recv, pub, unacked, handled, published, linkFaults>>

\* ... and 0 after a disconnect, whatever its reason.
LoopEnds ==
    /\ place = "sub_loop" /\ link \in {"closing", "refused"}
    /\ place' = "pub_connect" /\ link' = "down" /\ inbox' = <<>>
    /\ UNCHANGED <<sent, recv, pub, unacked, handled, published, linkFaults>>

-----------------------------------------------------------------------------
(* Publishing *)

\* connect_callback_pub_func: publish_message, or a disconnect when there is no topic.
PubConnected ==
    /\ place = "pub_loop" /\ link = "opening"
    /\ IF pub.topic = NoRun THEN link' = "closing" /\ UNCHANGED <<unacked, published>>
       ELSE link' = "up" /\ published' = Append(published, pub) /\ unacked' = unacked + 1
    /\ UNCHANGED <<place, sent, inbox, recv, pub, handled, linkFaults>>

\* Mutant: the acknowledged client stays connected.
AfterAckStays == UNCHANGED link

\* publish_callback_pub_func disconnects.
AfterAck == link' = "closing"

\* An answer is acknowledged, this one or an earlier one that was sent again, on
\* the connection of the publisher or of the subscriber.
PubAcked ==
    /\ place \in {"sub_loop", "pub_loop"} /\ link \in {"up", "closing"} /\ unacked > 0
    /\ unacked' = unacked - 1 /\ AfterAck
    /\ UNCHANGED <<place, sent, inbox, recv, pub, handled, published, linkFaults>>

\* Mutant: a publication that is not acknowledged is tried again.
AfterLossAgain == place' = "pub_connect"

\* publish_loop returns SC_OK after any error of mosquitto_loop.
AfterLoss == place' = "sub_connect"

\* Refused, lost, or silent for longer than the keepalive.
PubLost ==
    /\ place = "pub_loop"
    /\ (link = "opening" /\ Fault) \/ (link = "up" /\ FaultOf("lost"))
    /\ AfterLoss /\ link' = "down"
    /\ UNCHANGED <<sent, inbox, recv, pub, unacked, handled, published>>

\* After a disconnect mosquitto_loop returns an error, which ends publish_loop.
PublishLoopEnds ==
    /\ place = "pub_loop" /\ link = "closing"
    /\ place' = "sub_connect" /\ link' = "down"
    /\ UNCHANGED <<sent, inbox, recv, pub, unacked, handled, published, linkFaults>>

\* What ends the half that publishes.
Publishing == PubConnected \/ PubLost \/ PublishLoopEnds \/ (place = "pub_loop" /\ PubAcked)

MqttNext ==
    \/ Setup \/ ConnectSub \/ ConnectPub \/ SubConnected \/ message_callback_duplex_func \/ Reconnect
    \/ LoopFails \/ LoopEnds
    \/ PubConnected \/ PubAcked \/ PubLost \/ PublishLoopEnds
    \/ \E kind \in Kind : Send(kind)

\* The program runs on and the network does its part: an open connection is
\* answered or lost, since libmosquitto enforces the keepalive.
MqttSpec ==
    /\ MqttInit /\ [][MqttNext]_qttvars
    /\ WF_qttvars(Setup) /\ WF_qttvars(ConnectSub) /\ WF_qttvars(ConnectPub) /\ WF_qttvars(SubConnected)
    /\ WF_qttvars(LoopEnds) /\ WF_qttvars(Publishing)

-----------------------------------------------------------------------------
(* Properties *)

Requests == 1..Len(sent)

\* Requests are numbered as sent, and only sent ones are kept: no message of a
\* closed connection is left over (duplex_utils.c:163).
MqttTypeOK ==
    /\ place \in Place /\ link \in {"down", "opening", "up", "closing", "refused"}
    /\ recv \in {0} \cup Requests /\ unacked \in 0..Len(published)
    /\ \A run \in {pub.topic, pub.message} : run = NoRun \/ run \in [of : Requests, body : Requests]
    /\ \A i \in DOMAIN inbox : inbox[i] \in Requests
    /\ place \in {"setup", "sub_connect", "pub_connect"} => link = "down" /\ inbox = <<>>

\* An answer goes where it belongs: the topic it is published to and its text are
\* of one run of an API, although mqtt_request_handler sets them in two steps, may
\* fail between them and shares them with later connections; and the API of one
\* message ran on the body of another, and answers under the device of that other,
\* only when its own message had no payload (duplex_callback.c:143, sub_utils.c:31).
AnswerToAsker ==
    \A i \in DOMAIN published :
        LET run == published[i].message
        IN  /\ run = published[i].topic /\ run # NoRun
            /\ run.of # run.body => sent[run.of] = "empty"

\* How often something of a set is in a sequence.
Count(seq, S) == Cardinality({i \in DOMAIN seq : seq[i] \in S})

\* The runs on the body of a request, and the answers with their results.
RunsOf(r) == [of : Nat, body : {r}]
AnswersTo(r) == [topic : Run, message : RunsOf(r)]

\* Requests the handler could not answer, connections refused to the subscriber,
\* and answers that were not acknowledged on the connection they were sent on.
Troubles == linkFaults.refused + linkFaults.lost + Cardinality({r \in Requests : sent[r] # "good"})

\* In a run without such trouble every request is handled and its answer is given
\* to publish_message at most once; each trouble adds at most one repetition of
\* the API (an empty message runs on the body before) or of the answer: the old one is
\* published again after a bad request, after a refused connection, and when the
\* late acknowledgement of a lost answer ends the connection of the subscriber
\* (sub_utils.c:31, duplex_utils.c:163, pub_utils.c:103).
RepeatsBounded ==
    \A r \in Requests :
        Count(handled, RunsOf(r)) <= 1 + Troubles /\ Count(published, AnswersTo(r)) <= 1 + Troubles

\* An answer is published to who asked, and as often as is due
\* (duplex_callback.c:143, duplex_utils.c:163).
AnswersAreDue == AnswerToAsker /\ RepeatsBounded

\* The server does not stay in its publishing half: it subscribes again or ends
\* (pub_utils.c:106).
ListensAgain == (place \in {"pub_connect", "pub_loop"}) ~> (place \in {"sub_loop", "exit"})

\* duplex_utils.h: what is published after a request is the answer to it.
\* Violated when the request has no device or no valid one, and when the
\* subscriber's connection ended without a request: the answer to an earlier
\* request is published again.
PublishesTheResult ==
    [][published' # published => published'[Len(published')].message.body = recv]_qttvars

\* Violated: an API runs on the request it was asked with (a message without a
\* payload leaves the request before in recv_message, sub_utils.c:31).
RunsOwnRequest == \A i \in DOMAIN handled : handled[i].of = handled[i].body
=============================================================================
