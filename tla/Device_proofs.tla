---------------------------- MODULE Device_proofs ---------------------------
(* Proofs about the programs of a device: the endpoint, the OBD-II monitor   *)
(* and the MQTT server.  Each invariant is the conjunction of what one       *)
(* action hands over to the next.                                            *)
EXTENDS Endpoint, Obd, Mqtt, TLAPS, FiniteSetTheorems

\* A step that names no prover is tried with SMT and then with Zenon, 20 s each.
USE SMTT(20), ZenonT(20)

-----------------------------------------------------------------------------
(* The endpoint *)

\* The memory that a call of send_mam_message holds, and its message.
Buffers == {"builder", "buffer", "encoded", "request", "net", "tls", "response", "piece"}
MsgRecord == [len : Nat, cipher : 0..MaxMsgLen, body : 0..(MaxMsgLen - 1), full : Nat]

\* A call has a result at its end only; before that the request has not been
\* given up, and from the first read on all of it has been written.
SendInv ==
    /\ step \in Steps \cup {"down", "writing", "up", "failed", "spin", "crashed", "done"}
    /\ msg \in MsgRecord /\ left \in 0..MaxParts /\ answer \in {"none", "ok", "other"}
    /\ heap \subseteq Buffers /\ ret \in {"none", "ok", "error"}
    /\ step # "done" => ret = "none"
    /\ step \in Steps \ {"pack"} => "encoded" \notin heap
    /\ step \in {"handshake", "write"} => left > 0
    /\ step \in {"read", "parse", "close"} => left = 0
    /\ SendOutcome

\* The file holds the key written last, or one of the keys written before when the
\* power was lost too early; the disk holds no other keys.  The file is without a
\* key while it is being written, when no key was ever written, or after one of the
\* two accidents the history records.
KeyInv ==
    /\ step \in Steps \cup {"down", "writing", "up", "failed", "spin", "crashed", "done"}
    /\ {keyfile, disk} \subseteq {"absent", "empty"} \cup Key /\ device_key \in {NoKey} \cup Key
    /\ chosen \in Key => chosen \in used
    /\ keyfile \in Key => keyfile = chosen \/ (unsaved /\ keyfile \in used)
    /\ disk \in Key => disk \in used
    /\ keyfile = "absent" => chosen = "absent" \/ unsaved
    /\ keyfile = "empty" => step = "writing" \/ chosen = "absent" \/ cut \/ unsaved
    /\ step = "writing" => device_key \in Key
    /\ KeySurvives

\* No call is under way at first.
LEMMA SendInvInit == EndpointInit => SendInv
BY EndpointAssumption DEF EndpointInit, SendInv, NoMsg, MsgRecord, Steps, SendOutcome, OkIsAnswered, Released

\* The key file is as it was left, and no one writes it.
LEMMA KeyInvInit == EndpointInit => KeyInv
<1> SUFFICES ASSUME EndpointInit PROVE KeyInv
  OBVIOUS
<1>1. /\ keyfile = "absent" \/ keyfile \in Key
      /\ disk = keyfile /\ chosen = keyfile /\ used = {keyfile} \cap Key
      /\ device_key = NoKey /\ step = "down"
  BY DEF EndpointInit
<1>2. keyfile # "empty"
  BY <1>1, EndpointAssumption
<1> QED BY <1>1, <1>2 DEF KeyInv, KeySurvives, Running

\* A loss of power leaves a file that the history accounts for.
LEMMA PowerLossKeeps == KeyInv /\ PowerLoss => KeyInv'
<1> SUFFICES ASSUME KeyInv, PowerLoss PROVE KeyInv'
  OBVIOUS
<1>1. /\ step' = "down" /\ device_key' = NoKey /\ disk' = keyfile' /\ UNCHANGED <<chosen, used>>
      /\ unsaved \/ disk # keyfile => unsaved'
      /\ cut \/ step = "writing" => cut'
  BY Zenon DEF PowerLoss, Gone
<1>2. CASE disk = keyfile
  <2>1. keyfile' = keyfile
    BY <1>2 DEF PowerLoss
  <2> QED BY <1>1, <1>2, <2>1, Zenon DEF KeyInv, KeySurvives, Running
<1>3. CASE disk # keyfile
  <2>1. keyfile' \in {disk, "empty"} /\ unsaved'
    BY <1>1, <1>3 DEF PowerLoss
  <2>2. keyfile' \in {"absent", "empty"} \cup Key /\ (keyfile' \in Key => keyfile' \in used')
    BY <1>1, <2>1, EndpointAssumption DEF KeyInv
  <2> QED BY <1>1, <2>1, <2>2, Zenon DEF KeyInv, KeySurvives, Running
<1> QED BY <1>2, <1>3

\* Every step keeps what is said of the key.
LEMMA KeyInvStep == KeyInv /\ [EndpointNext]_evars => KeyInv'
<1> SUFFICES ASSUME KeyInv, [EndpointNext]_evars PROVE KeyInv'
  OBVIOUS
<1> USE EndpointAssumption DEF KeyInv, KeySurvives, Running, Steps, khistory
<1>1. CASE endpoint_conf_init
  BY <1>1 DEF endpoint_conf_init
<1>2. CASE set_device_key
  BY <1>2 DEF set_device_key
<1>3. CASE CloseConf
  BY <1>3 DEF CloseConf, Written
<1>4. CASE WriteBack
  BY <1>4 DEF WriteBack
<1>5. CASE ProcessEnds
  <2>1. /\ step' = "down" /\ device_key' = NoKey /\ UNCHANGED <<keyfile, disk, chosen, used, unsaved>>
        /\ cut \/ step = "writing" => cut'
    BY <1>5, Zenon DEF ProcessEnds, Gone
  <2> QED BY <2>1, Zenon
<1>6. CASE PowerLoss
  BY <1>6, PowerLossKeeps, Zenon
<1>7. CASE aes_encrypt \/ SendStep
  <2>1. /\ step \in Steps \cup {"up"} /\ step' \in Steps \cup {"spin", "crashed", "done"}
        /\ UNCHANGED <<keyfile, disk, device_key, chosen, used, cut, unsaved>>
    BY <1>7, Zenon DEF aes_encrypt, SendStep, Pack, http_open, Handshake, http_send_request, http_read_response,
         https_parser_callback, send_mam_message, CloseConnection, Leave, AfterWrite, AfterRead, Device
  <2> QED BY <2>1
<1>8. CASE UNCHANGED evars
  BY <1>8 DEF evars, Device
<1> QED BY <1>1, <1>2, <1>3, <1>4, <1>5, <1>6, <1>7, <1>8, Zenon DEF EndpointNext

\* A call that ends leaves the connection closed.
LEMMA CallEnds ==
    ASSUME SendInv, NEW status \in {"ok", "error"}, CloseConnection(status),
           status = "ok" => left = 0 /\ answer = "ok" /\ "encoded" \notin heap, UNCHANGED <<msg, left, answer>>
    PROVE  SendInv'
BY Zenon DEF SendInv, CloseConnection, Leave, Buffers, Steps, SendOutcome, OkIsAnswered, Released

\* Every step keeps what is said of the call.
LEMMA SendInvStep == SendInv /\ [EndpointNext]_evars => SendInv'
<1> SUFFICES ASSUME SendInv, [EndpointNext]_evars PROVE SendInv'
  OBVIOUS
<1> USE EndpointAssumption
<1>1. CASE endpoint_conf_init \/ set_device_key \/ CloseConf \/ WriteBack
  <2>1. CASE WriteBack
    BY <2>1 DEF WriteBack, Call, SendInv, SendOutcome, OkIsAnswered, Released
  <2>2. CASE endpoint_conf_init \/ set_device_key \/ CloseConf
    <3>1. /\ step \in {"down", "up", "writing"} /\ step' \in {"up", "writing", "failed"}
          /\ UNCHANGED <<msg, left, answer, heap, ret>>
      BY <2>2 DEF endpoint_conf_init, set_device_key, CloseConf, Call
    <3> QED BY <3>1 DEF SendInv, Steps, SendOutcome, OkIsAnswered, Released
  <2> QED BY <1>1, <2>1, <2>2
<1>2. CASE ProcessEnds \/ PowerLoss
  <2>1. Gone
    BY <1>2, Zenon DEF ProcessEnds, PowerLoss
  <2> QED BY <2>1 DEF Gone, SendInv, Steps, NoMsg, MsgRecord, SendOutcome, OkIsAnswered, Released
<1>3. CASE aes_encrypt
  <2>1. PICK n \in MessageLens :
     \/ /\ ~TooLong(n)
        /\ msg' = [NoMsg EXCEPT !.len = n, !.cipher = EncryptedLen(n)]
        /\ step' = "pack" /\ UNCHANGED <<heap, ret>>
     \/ /\ msg' = [NoMsg EXCEPT !.len = n, !.cipher = MaxMsgLen]
        /\ step' = "pack" /\ UNCHANGED <<heap, ret>>
     \/ /\ msg' = [NoMsg EXCEPT !.len = n]
        /\ Leave("error", {})
    BY <1>3, Zenon DEF aes_encrypt
  <2>2. ~TooLong(n) => EncryptedLen(n) \in 0..MaxMsgLen
    BY DEF TooLong, EncryptedLen
  <2>3. 0 \in 0..MaxMsgLen /\ MaxMsgLen \in 0..MaxMsgLen
    OBVIOUS
  <2>4. PICK c \in 0..MaxMsgLen : msg' = [len |-> n, cipher |-> c, body |-> 0, full |-> 0]
    <3>1. CASE ~TooLong(n) /\ msg' = [NoMsg EXCEPT !.len = n, !.cipher = EncryptedLen(n)]
      BY <2>2, <3>1, Zenon DEF NoMsg
    <3>2. CASE msg' = [NoMsg EXCEPT !.len = n, !.cipher = MaxMsgLen]
      BY <2>3, <3>2, Zenon DEF NoMsg
    <3>3. CASE msg' = [NoMsg EXCEPT !.len = n]
      BY <2>3, <3>3, Zenon DEF NoMsg
    <3> QED BY <2>1, <3>1, <3>2, <3>3
  <2>5. n \in Nat /\ 0 \in 0..(MaxMsgLen - 1)
    OBVIOUS
  <2>6. msg' \in MsgRecord
    BY <2>4, <2>5 DEF MsgRecord
  <2> QED BY <1>3, <2>1, <2>6 DEF aes_encrypt, SendInv, Steps, Leave, SendOutcome, OkIsAnswered, Released
<1>4. CASE Pack
  <2> DEFINE full == BodyLen(msg.cipher)
             body == IF full < MaxMsgLen THEN full ELSE MaxMsgLen - 1
  <2>1. CASE /\ msg' = [msg EXCEPT !.full = full, !.body = body]
             /\ heap' = {"builder", "buffer", "request"} /\ step' = "open" /\ UNCHANGED ret
    <3>1. msg \in MsgRecord /\ msg.cipher \in Nat
      BY DEF SendInv, MsgRecord
    <3>2. full \in Nat /\ body \in 0..(MaxMsgLen - 1)
      BY <3>1 DEF BodyLen, Base64
    <3> HIDE DEF full, body
    <3>3. msg' \in MsgRecord
      BY <2>1, <3>1, <3>2, Zenon DEF MsgRecord
    <3> QED BY <1>4, <2>1, <3>3 DEF Pack, SendInv, Steps, Buffers, SendOutcome, OkIsAnswered, Released
  <2>2. CASE Leave("ok", {"encoded"}) /\ UNCHANGED msg
    BY <1>4, <2>2 DEF Pack, Leave, SendInv, Steps, Buffers, SendOutcome, OkIsAnswered, Released
  <2> QED BY <1>4, <2>1, <2>2 DEF Pack
<1>5. CASE http_open
  <2>1. CASE step' = "crashed" /\ UNCHANGED <<left, heap, ret>>
    BY <1>5, <2>1 DEF http_open, SendInv, Steps, SendOutcome, OkIsAnswered, Released
  <2>2. CASE /\ heap' = heap \cup Contexts /\ step' \in {"handshake", "write"}
             /\ left' \in 1..MaxParts /\ UNCHANGED ret
    <3>1. heap' \subseteq Buffers /\ "encoded" \notin heap'
      BY <1>5, <2>2 DEF http_open, Contexts, SendInv, Steps, Buffers
    <3> QED BY <1>5, <2>2, <3>1 DEF http_open, SendInv, Steps, SendOutcome, OkIsAnswered, Released
  <2>3. CASE CloseConnection("error") /\ UNCHANGED left
    BY <1>5, <2>3, CallEnds DEF http_open
  <2> QED BY <1>5, <2>1, <2>2, <2>3 DEF http_open
<1>6. CASE Handshake
  <2>1. CASE step' \in {"write", "spin"} /\ UNCHANGED <<heap, ret>>
    <3>1. left > 0
      BY <1>6 DEF Handshake, SendInv
    <3> QED BY <1>6, <2>1, <3>1 DEF Handshake, SendInv, Steps, SendOutcome, OkIsAnswered, Released
  <2>2. CASE CloseConnection("error")
    BY <1>6, <2>2, CallEnds DEF Handshake
  <2> QED BY <1>6, <2>1, <2>2, Zenon DEF Handshake
<1>7. CASE http_send_request
  <2>1. CASE CloseConnection("error") /\ UNCHANGED left
    BY <1>7, <2>1, CallEnds DEF http_send_request
  <2>2. CASE left' = left - 1 /\ step' = AfterWrite /\ UNCHANGED <<heap, ret>>
    BY <1>7, <2>2 DEF http_send_request, AfterWrite, SendInv, Steps, SendOutcome, OkIsAnswered, Released
  <2> QED BY <1>7, <2>1, <2>2, Zenon DEF http_send_request
<1>8. CASE http_read_response \/ https_parser_callback
  <2>1. /\ step \in {"read", "parse"} /\ step' \in {"parse", "close", "crashed"}
        /\ answer' \in {"ok", "other", "none"} /\ UNCHANGED <<msg, left, ret>>
    BY <1>8 DEF http_read_response, https_parser_callback, AfterRead, SendInv
  <2>2. PICK body \in SUBSET {"response", "piece"} : heap' = heap \cup body
    <3>1. CASE http_read_response
      <4>1. heap' = heap \cup {}
        BY <3>1 DEF http_read_response
      <4> QED BY <4>1, Zenon
    <3>2. CASE https_parser_callback
      BY <3>2 DEF https_parser_callback
    <3> QED BY <1>8, <3>1, <3>2
  <2>3. heap' \subseteq Buffers /\ "encoded" \notin heap'
    BY <2>1, <2>2 DEF SendInv, Steps, Buffers
  <2> QED BY <2>1, <2>3 DEF SendInv, Steps, SendOutcome, OkIsAnswered, Released
<1>9. CASE send_mam_message
  BY <1>9, CallEnds DEF send_mam_message, StatusOf, SendInv, Steps
<1>10. CASE UNCHANGED evars
  BY <1>10 DEF evars, Call, SendInv, SendOutcome, OkIsAnswered, Released
<1> QED BY <1>1, <1>2, <1>3, <1>4, <1>5, <1>6, <1>7, <1>8, <1>9, <1>10 DEF EndpointNext, SendStep

\* SC_OK means written and answered, and every way out closes the connection,
\* for messages and buffers of any length and any number of losses of power.
THEOREM SendIsHonest == EndpointSpec => []SendOutcome
<1>1. SendInv => SendOutcome
  BY DEF SendInv
<1> QED BY <1>1, SendInvInit, SendInvStep, PTL DEF EndpointSpec

\* The key a process uses is the last one written, however the process before it
\* ended, and one of the keys written before only when the power was lost before
\* the file was on the disk; for any keys and any number of losses of power.
THEOREM KeyIsKept == EndpointSpec => []KeySurvives
<1>1. KeyInv => KeySurvives
  BY DEF KeyInv
<1> QED BY <1>1, KeyInvInit, KeyInvStep, PTL DEF EndpointSpec

\* The ciphertext, its padding block included, fits its buffer, and what
\* snprintf prints is cut at the end of its own.
THEOREM EndpointTypes == EndpointSpec => []EndpointTypeOK
<1>1. SendInv /\ KeyInv => EndpointTypeOK
  BY DEF SendInv, KeyInv, EndpointTypeOK, MsgRecord, Buffers
<1> QED BY <1>1, SendInvInit, SendInvStep, KeyInvInit, KeyInvStep, PTL DEF EndpointSpec

-----------------------------------------------------------------------------
(* The OBD-II monitor *)

\* The frames of the identification number.
First == Frame("first", Vin, 0)
Part(i) == Frame("consecutive", Vin, i)

\* What an entry of the table should be.
Right == {[asked |-> Vin, data |-> WholeVin]}
           \cup {[asked |-> p, data |-> <<Frame("single", p, 0)>>] : p \in {PIDS[i] : i \in 2..Len(PIDS)}}

\* No frame is on the bus and the emulator waits for a query.
Silent == toMonitor = <<>> /\ toEmulator = <<>> /\ emulator = "serve"

\* The exchange of a query and its answer, one frame at a time.
Asked ==
    /\ toMonitor = <<>> /\ toEmulator = <<Frame("query", PIDS[next], 0)>> /\ emulator = "serve"
    /\ PIDS[next] = Vin => append_data = 0
AnsweredSensor ==
    PIDS[next] # Vin /\ toMonitor = <<Frame("single", PIDS[next], 0)>> /\ toEmulator = <<>> /\ emulator = "serve"
FirstSent == toMonitor = <<First>> /\ toEmulator = <<>> /\ emulator = "flow" /\ append_data = 0
FlowSent ==
    /\ toMonitor = <<>> /\ toEmulator = <<Frame("flow", Vin, 0)>> /\ emulator = "flow"
    /\ append_data = 6 /\ entry = [data_len |-> Announced, data |-> <<First>>]
RestSent ==
    /\ toMonitor = <<Part(1), Part(2)>> /\ toEmulator = <<>> /\ emulator = "serve"
    /\ append_data = 6 /\ entry = [data_len |-> Announced, data |-> <<First>>]
LastLeft ==
    /\ toMonitor = <<Part(2)>> /\ toEmulator = <<>> /\ emulator = "serve"
    /\ append_data = 13 /\ entry = [data_len |-> Announced, data |-> <<First, Part(1)>>]
Exchange == Asked \/ AnsweredSensor \/ (PIDS[next] = Vin /\ (FirstSent \/ FlowSent \/ RestSent \/ LastLeft))

\* The two processes take turns.
Turns ==
    \/ monitor \in {"pack", "done"} /\ Silent
    \/ monitor = "query" /\ next \in 1..Len(PIDS) /\ Silent /\ (PIDS[next] = Vin => append_data = 0)
    \/ monitor = "read" /\ next \in 1..Len(PIDS) /\ Exchange

\* The inductive invariant of the monitor and the emulator.
ObdInv ==
    /\ noise \in Nat /\ faults \in Nat
    /\ Quiet => Turns /\ table \in Seq(Right)

\* The short sequences on the bus.
LEMMA Bus ==
  ASSUME NEW f, NEW g, NEW k
  PROVE  /\ Append(<<>>, f) = <<f>> /\ Append(<<f>>, g) = <<f, g>> /\ Append(<<f, g>>, k) = <<f, g, k>>
         /\ Head(<<f>>) = f /\ Tail(<<f>>) = <<>> /\ <<f>> # <<>>
         /\ Head(<<f, g>>) = f /\ Tail(<<f, g>>) = <<g>> /\ <<f, g>> # <<>>
         /\ <<>> \o <<f>> = <<f>> /\ <<>> \o <<>> = <<>> /\ <<>> \o <<f, g>> = <<f, g>>
<1> DEFINE S == {f, g, k}
<1>a. /\ <<f, g, k>> \in Seq(S) /\ Len(<<f, g, k>>) = 3
      /\ <<f, g, k>>[1] = f /\ <<f, g, k>>[2] = g /\ <<f, g, k>>[3] = k
  OBVIOUS
<1>b. \A u, w \in Seq(S) : Len(u) = 3 /\ Len(w) = 3 /\ u[1] = w[1] /\ u[2] = w[2] /\ u[3] = w[3] => u = w
  OBVIOUS
<1>1. Append(<<>>, f) = <<f>> /\ Append(<<f>>, g) = <<f, g>> /\ Append(<<f, g>>, k) = <<f, g, k>>
  <2>1. Append(<<>>, f) = <<f>>
    OBVIOUS
  <2>2. Append(<<f>>, g) = <<f, g>>
    <3>1. <<f>> \in Seq(S) /\ Len(<<f>>) = 1 /\ <<f>>[1] = f /\ g \in S
      OBVIOUS
    <3>2. /\ Append(<<f>>, g) \in Seq(S) /\ Len(Append(<<f>>, g)) = 2
          /\ Append(<<f>>, g)[1] = f /\ Append(<<f>>, g)[2] = g
      BY <3>1, SMTT(20)
    <3>3. <<f, g>> \in Seq(S) /\ Len(<<f, g>>) = 2 /\ <<f, g>>[1] = f /\ <<f, g>>[2] = g
      OBVIOUS
    <3>4. \A u, w \in Seq(S) : Len(u) = 2 /\ Len(w) = 2 /\ u[1] = w[1] /\ u[2] = w[2] => u = w
      OBVIOUS
    <3> QED BY <3>2, <3>3, <3>4, Zenon
  <2>3. Append(<<f, g>>, k) = <<f, g, k>>
    <3>1. <<f, g>> \in Seq(S) /\ Len(<<f, g>>) = 2 /\ <<f, g>>[1] = f /\ <<f, g>>[2] = g /\ k \in S
      OBVIOUS
    <3>2. /\ Append(<<f, g>>, k) \in Seq(S) /\ Len(Append(<<f, g>>, k)) = 3
          /\ Append(<<f, g>>, k)[1] = f /\ Append(<<f, g>>, k)[2] = g /\ Append(<<f, g>>, k)[3] = k
      BY <3>1, SMTT(20)
    <3> QED BY <3>2, <1>a, <1>b, Zenon
  <2> QED BY <2>1, <2>2, <2>3, Zenon
<1>2. Head(<<f>>) = f /\ Tail(<<f>>) = <<>> /\ <<f>> # <<>>
  OBVIOUS
<1>3. Head(<<f, g>>) = f /\ Tail(<<f, g>>) = <<g>> /\ <<f, g>> # <<>>
  OBVIOUS
<1>4. <<>> \o <<f>> = <<f>> /\ <<>> \o <<>> = <<>>
  OBVIOUS
<1>5. <<>> \o <<f, g>> = <<f, g>>
  OBVIOUS
<1> QED BY <1>1, <1>2, <1>3, <1>4, <1>5, Zenon

\* A first frame and the two that follow it.
LEMMA FramesJoined ==
  ASSUME NEW f, NEW g, NEW k
  PROVE  <<f>> \o <<g, k>> = <<f, g, k>>
<1> DEFINE S == {f, g, k}
<1>1. <<f>> \in Seq(S) /\ <<g, k>> \in Seq(S) /\ Len(<<f>>) = 1 /\ Len(<<g, k>>) = 2
  OBVIOUS
<1>2. /\ <<f>> \o <<g, k>> \in Seq(S) /\ Len(<<f>> \o <<g, k>>) = 3
      /\ (<<f>> \o <<g, k>>)[1] = f /\ (<<f>> \o <<g, k>>)[2] = g /\ (<<f>> \o <<g, k>>)[3] = k
  BY <1>1, SMTT(20)
<1>3. /\ <<f, g, k>> \in Seq(S) /\ Len(<<f, g, k>>) = 3
      /\ <<f, g, k>>[1] = f /\ <<f, g, k>>[2] = g /\ <<f, g, k>>[3] = k
  OBVIOUS
<1>4. \A u, w \in Seq(S) : Len(u) = 3 /\ Len(w) = 3 /\ u[1] = w[1] /\ u[2] = w[2] /\ u[3] = w[3] => u = w
  OBVIOUS
<1> QED BY <1>2, <1>3, <1>4, Zenon

\* The rest of the identification number is two frames.
LEMMA RestIs == Rest = <<Part(1), Part(2)>> /\ WholeVin = <<First, Part(1), Part(2)>>
<1>1. (VinLen - 3) \div 7 = 2
  BY SMTT(20) DEF VinLen
<1>2. Rest = <<Part(1), Part(2)>>
  BY <1>1, SMTT(20) DEF Rest, Part, Frame
<1>3. <<First>> \o <<Part(1), Part(2)>> = <<First, Part(1), Part(2)>>
  BY FramesJoined, Zenon
<1> QED BY <1>2, <1>3, Zenon DEF WholeVin, First

\* A sequence with one more element in front.
LEMMA Prefixed ==
  ASSUME NEW S, NEW s \in Seq(S), NEW v
  PROVE  /\ Len(s) \in Nat /\ DOMAIN s = 1..Len(s) /\ Len(<<v>> \o s) = 1 + Len(s) /\ (<<v>> \o s)[1] = v
         /\ \A i \in 1..(1 + Len(s)) : i # 1 => i - 1 \in 1..Len(s) /\ (<<v>> \o s)[i] = s[i - 1]
<1> DEFINE T == S \cup {v}
<1>1. <<v>> \in Seq(T) /\ Len(<<v>>) = 1 /\ <<v>>[1] = v /\ s \in Seq(T)
  OBVIOUS
<1> QED BY <1>1, SMTT(20)

\* The table of PIDs: the identification number comes first and only there.
LEMMA PIDSAre ==
  /\ Len(PIDS) \in Nat \ {0} /\ PIDS[1] = Vin
  /\ \A i \in 1..Len(PIDS) : PIDS[i] = Vin <=> i = 1
<1>2. /\ Len(Sensor) \in Nat /\ DOMAIN Sensor = 1..Len(Sensor) /\ Len(PIDS) = 1 + Len(Sensor) /\ PIDS[1] = Vin
      /\ \A i \in 1..(1 + Len(Sensor)) : i # 1 => i - 1 \in 1..Len(Sensor) /\ PIDS[i] = Sensor[i - 1]
  <2>1. Sensor \in Seq(STRING)
    BY ObdAssumption, Zenon
  <2>2. PICK q : q = <<Vin>> \o Sensor
    BY Zenon
  <2>3. /\ Len(Sensor) \in Nat /\ DOMAIN Sensor = 1..Len(Sensor) /\ Len(q) = 1 + Len(Sensor) /\ q[1] = Vin
        /\ \A i \in 1..(1 + Len(Sensor)) : i # 1 => i - 1 \in 1..Len(Sensor) /\ q[i] = Sensor[i - 1]
    BY <2>1, <2>2, Prefixed, ZenonT(30)
  <2>4. PIDS = q
    BY <2>2, Zenon DEF PIDS
  <2> QED BY <2>3, <2>4, Zenon
<1>3. \A i \in 1..Len(Sensor) : Sensor[i] # Vin
  BY <1>2, ObdAssumption, Zenon
<1>4. Len(PIDS) \in Nat \ {0}
  BY <1>2, SMTT(20)
<1> QED BY <1>2, <1>3, <1>4, Zenon

\* It holds when both processes start.
LEMMA ObdInvInit == ObdInit => ObdInv
<1> SUFFICES ASSUME ObdInit PROVE ObdInv
  OBVIOUS
<1>1. 1 \in 1..Len(PIDS)
  BY PIDSAre, SMTT(20)
<1>2. noise \in Nat /\ faults \in Nat /\ table \in Seq(Right)
  BY SMTT(20) DEF ObdInit
<1> QED BY <1>1, <1>2, Zenon DEF ObdInit, ObdInv, Turns, Silent

\* The entry is stored, and the next query follows or the table is packed.
LEMMA PutIs ==
  ASSUME NEW e, Put(e), next \in 1..Len(PIDS), table \in Seq(Right), [asked |-> PIDS[next], data |-> e.data] \in Right,
         toMonitor' = <<>>, toEmulator' = <<>>, emulator' = "serve"
  PROVE  Turns' /\ table' \in Seq(Right)
<1>1. table' \in Seq(Right)
  BY SMTT(20) DEF Put
<1>2. CASE next < Len(PIDS)
  <2>1. next' \in 1..Len(PIDS) /\ next' # 1
    BY <1>2, PIDSAre, SMTT(20) DEF Put
  <2>2. monitor' = "query" /\ PIDS[next'] # Vin
    BY <1>2, <2>1, PIDSAre, Zenon DEF Put
  <2> QED BY <1>1, <2>1, <2>2, Zenon DEF Turns, Silent
<1>3. CASE ~(next < Len(PIDS))
  BY <1>1, <1>3, Zenon DEF Put, Turns, Silent
<1> QED BY <1>2, <1>3, Zenon

\* Reading a frame, or giving up, keeps the invariant.
LEMMA ReadKeeps == ObdInv /\ ReadFrame => ObdInv'
<1> SUFFICES ASSUME ObdInv, ReadFrame, Quiet PROVE Turns' /\ table' \in Seq(Right)
  BY Zenon DEF ObdInv, ReadFrame, Quiet
<1> DEFINE f == Head(toMonitor)
<1>1. /\ monitor = "read" /\ toMonitor # <<>> /\ toMonitor' = Tail(toMonitor)
      /\ obd_message(f) /\ emulator' = emulator
  BY Zenon DEF ReadFrame
<1>2. next \in 1..Len(PIDS) /\ table \in Seq(Right) /\ Exchange
  BY <1>1, Zenon DEF ObdInv, Turns
<1>3. ~Asked /\ ~FlowSent
  BY <1>1, Zenon DEF Asked, FlowSent
<1>4. CASE AnsweredSensor
  <2>1. f = Frame("single", PIDS[next], 0) /\ toMonitor' = <<>> /\ f.kind = "single"
    BY <1>1, <1>4, Bus, SMTT(20) DEF AnsweredSensor, Frame
  <2>2. Put(Filled(f)) /\ toEmulator' = <<>> /\ emulator' = "serve"
    BY <1>1, <1>4, <2>1, Zenon DEF obd_message, AnsweredSensor
  <2>3. Filled(f).data = <<Frame("single", PIDS[next], 0)>>
    BY <2>1, SMTT(20) DEF Filled
  <2>4. [asked |-> PIDS[next], data |-> Filled(f).data] \in Right
    <3>1. next \in 2..Len(PIDS)
      BY <1>2, <1>4, PIDSAre, SMTT(20) DEF AnsweredSensor
    <3> QED BY <2>3, <3>1, Zenon DEF Right
  <2> QED BY <1>2, <2>1, <2>2, <2>4, PutIs, Zenon
<1>5. CASE PIDS[next] = Vin /\ FirstSent
  <2>1. f = First /\ toMonitor' = <<>> /\ f.kind = "first" /\ f.pid = Vin
    BY <1>1, <1>5, Bus, SMTT(20) DEF FirstSent, First, Frame
  <2>2. Filled(f) = [data_len |-> Announced, data |-> <<First>>] /\ Copied(f) = 6 /\ FlowControl(f) = <<Frame("flow", Vin, 0)>>
    BY <2>1, Zenon DEF Filled, Copied, FlowControl
  <2>3. append_data + Copied(f) = 6 /\ ~(Filled(f).data_len < 6) /\ ~Complete(Filled(f), 6)
    BY <1>5, <2>2, SMTT(20) DEF FirstSent, Complete, Announced
  <2>4. /\ append_data' = 6 /\ entry' = Filled(f) /\ UNCHANGED <<monitor, next, table>>
        /\ toEmulator' = toEmulator \o FlowControl(f)
    BY <1>1, <2>1, <2>3, Zenon DEF obd_message
  <2>5. toEmulator' = <<Frame("flow", Vin, 0)>> /\ emulator' = "flow"
    BY <1>1, <1>5, <2>2, <2>4, Bus, Zenon DEF FirstSent
  <2> QED BY <1>1, <1>2, <1>5, <2>1, <2>2, <2>4, <2>5, Zenon DEF Turns, Exchange, FlowSent
<1>6. CASE PIDS[next] = Vin /\ RestSent
  <2>1. f = Part(1) /\ toMonitor' = <<Part(2)>> /\ f.kind = "consecutive"
    BY <1>1, <1>6, Bus, SMTT(20) DEF RestSent, Part, Frame
  <2>2. Copied(f) = 7 /\ FlowControl(f) = <<>> /\ Filled(f) = [entry EXCEPT !.data = Append(@, f)]
    BY <2>1, Zenon DEF Filled, Copied, FlowControl
  <2>3. Filled(f) = [data_len |-> Announced, data |-> <<First, Part(1)>>]
    BY <1>6, <2>1, <2>2, Bus, SMTT(20) DEF RestSent
  <2>4. append_data + Copied(f) = 13 /\ ~(Filled(f).data_len < 13) /\ ~Complete(Filled(f), 13)
    BY <1>6, <2>2, <2>3, SMTT(20) DEF RestSent, Complete, Announced
  <2>5. /\ append_data' = 13 /\ entry' = Filled(f) /\ UNCHANGED <<monitor, next, table>>
        /\ toEmulator' = toEmulator \o FlowControl(f)
    BY <1>1, <2>1, <2>4, Zenon DEF obd_message
  <2>6. toEmulator' = <<>> /\ emulator' = "serve"
    BY <1>1, <1>6, <2>2, <2>5, Bus, Zenon DEF RestSent
  <2> QED BY <1>1, <1>2, <1>6, <2>1, <2>3, <2>5, <2>6, Zenon DEF Turns, Exchange, LastLeft
<1>7. CASE PIDS[next] = Vin /\ LastLeft
  <2>1. f = Part(2) /\ toMonitor' = <<>> /\ f.kind = "consecutive"
    BY <1>1, <1>7, Bus, SMTT(20) DEF LastLeft, Part, Frame
  <2>2. Copied(f) = 7 /\ FlowControl(f) = <<>> /\ Filled(f) = [entry EXCEPT !.data = Append(@, f)]
    BY <2>1, Zenon DEF Filled, Copied, FlowControl
  <2>3. Filled(f) = [data_len |-> Announced, data |-> <<First, Part(1), Part(2)>>]
    BY <1>7, <2>1, <2>2, Bus, SMTT(20) DEF LastLeft
  <2>4. append_data + Copied(f) = 20 /\ ~(Filled(f).data_len < 20) /\ Complete(Filled(f), 20)
    BY <1>7, <2>2, <2>3, SMTT(20) DEF LastLeft, Complete, Announced
  <2>5. Put(Filled(f)) /\ toEmulator' = toEmulator \o FlowControl(f)
    BY <1>1, <2>1, <2>4, Zenon DEF obd_message
  <2>6. toEmulator' = <<>> /\ emulator' = "serve"
    BY <1>1, <1>7, <2>2, <2>5, Bus, Zenon DEF LastLeft
  <2>7. [asked |-> PIDS[next], data |-> Filled(f).data] \in Right
    BY <1>7, <2>3, RestIs, SMTT(20) DEF Right
  <2> QED BY <1>2, <2>1, <2>5, <2>6, <2>7, PutIs, Zenon
<1> QED BY <1>2, <1>3, <1>4, <1>5, <1>6, <1>7, Zenon DEF Exchange

\* A step of the emulator keeps it.
LEMMA ServeKeeps == ObdInv /\ (Serve \/ send_vin_message) => ObdInv'
<1> SUFFICES ASSUME ObdInv, Serve \/ send_vin_message, Quiet PROVE Turns' /\ table' \in Seq(Right)
  BY Zenon DEF ObdInv, Serve, send_vin_message, Quiet
<1>1. /\ UNCHANGED <<monitor, next, append_data, entry, table>> /\ toEmulator # <<>>
      /\ toEmulator' = Tail(toEmulator)
  BY Zenon DEF Serve, send_vin_message
<1>2. monitor = "read" /\ next \in 1..Len(PIDS) /\ table \in Seq(Right) /\ Exchange
  BY <1>1, Zenon DEF ObdInv, Turns, Silent
<1>3. CASE Asked
  <2>1. Serve /\ Head(toEmulator) = Frame("query", PIDS[next], 0) /\ toEmulator' = <<>>
    BY <1>1, <1>3, Bus, Zenon DEF Asked, send_vin_message
  <2>2. Head(toEmulator).kind = "query" /\ Head(toEmulator).pid = PIDS[next]
    BY <2>1, SMTT(20) DEF Frame
  <2>3. service_01_response(PIDS[next]) \/ service_09_response(PIDS[next])
    BY <2>1, <2>2, Zenon DEF Serve
  <2>4. CASE PIDS[next] # Vin
    <3>1. toMonitor' = <<Frame("single", PIDS[next], 0)>> /\ emulator' = "serve"
      BY <1>3, <2>3, <2>4, Bus, Zenon DEF service_01_response, service_09_response, Asked
    <3> QED BY <1>1, <1>2, <2>1, <2>4, <3>1, Zenon DEF Turns, Exchange, AnsweredSensor
  <2>5. CASE PIDS[next] = Vin
    <3>1. toMonitor' = <<First>> /\ emulator' = "flow" /\ append_data = 0
      BY <1>3, <2>3, <2>5, Bus, Zenon DEF service_01_response, service_09_response, Asked, First
    <3> QED BY <1>1, <1>2, <2>1, <2>5, <3>1, Zenon DEF Turns, Exchange, FirstSent
  <2> QED BY <2>4, <2>5, Zenon
<1>4. CASE PIDS[next] = Vin /\ FlowSent
  <2>1. send_vin_message /\ Head(toEmulator) = Frame("flow", Vin, 0) /\ toEmulator' = <<>>
    BY <1>1, <1>4, Bus, Zenon DEF FlowSent, Serve
  <2>2. Head(toEmulator).kind = "flow"
    BY <2>1, SMTT(20) DEF Frame
  <2>3. toMonitor' = <<Part(1), Part(2)>> /\ emulator' = "serve"
    <3>1. toMonitor' = <<>> \o Rest /\ emulator' = "serve"
      BY <1>4, <2>1, <2>2, Zenon DEF send_vin_message, FlowSent
    <3>2. <<>> \o <<Part(1), Part(2)>> = <<Part(1), Part(2)>>
      BY Bus, Zenon
    <3> QED BY <3>1, <3>2, RestIs, Zenon
  <2> QED BY <1>1, <1>2, <1>4, <2>1, <2>3, Zenon DEF Turns, Exchange, RestSent, FlowSent
<1> QED BY <1>1, <1>2, <1>3, <1>4, Zenon DEF Exchange, AnsweredSensor, FirstSent, RestSent, LastLeft

\* Every step keeps it.
LEMMA ObdInvStep == ObdInv /\ [ObdNext]_ovars => ObdInv'
<1> SUFFICES ASSUME ObdInv, [ObdNext]_ovars PROVE ObdInv'
  OBVIOUS
<1>1. CASE obd_query
  <2>1. monitor = "query" /\ monitor' = "read" /\ UNCHANGED <<noise, faults, next, append_data, table, toMonitor, emulator>>
    BY <1>1, Zenon DEF obd_query
  <2>2. ASSUME Quiet PROVE Turns' /\ table' \in Seq(Right)
    <3>1. next \in 1..Len(PIDS) /\ Silent /\ (PIDS[next] = Vin => append_data = 0) /\ table \in Seq(Right)
      BY <2>1, <2>2, Zenon DEF ObdInv, Turns
    <3>2. toEmulator' = <<Frame("query", PIDS[next], 0)>>
      BY <1>1, <3>1, Bus, Zenon DEF obd_query, Silent
    <3> QED BY <2>1, <3>1, <3>2, Zenon DEF Turns, Exchange, Asked, Silent
  <2> QED BY <2>1, <2>2, Zenon DEF ObdInv, Quiet
<1>2. CASE ReadFrame
  BY <1>2, ReadKeeps, Zenon
<1>3. CASE ReadFails \/ FlowReadFails \/ SecondUnit
  <2>1. \/ faults' = faults + 1 /\ noise' = noise
        \/ noise' = noise + 1 /\ faults' = faults
    BY <1>3, Zenon DEF ReadFails, FlowReadFails, SecondUnit
  <2>2. noise' \in Nat /\ faults' \in Nat /\ ~Quiet'
    BY <2>1, SMTT(20) DEF ObdInv, Quiet
  <2> QED BY <2>2, Zenon DEF ObdInv
<1>4. CASE get_obd_datasets
  BY <1>4, Zenon DEF get_obd_datasets, ObdInv, Quiet, Turns, Silent
<1>5. CASE Serve \/ send_vin_message
  BY <1>5, ServeKeeps, Zenon
<1>6. CASE UNCHANGED ovars
  BY <1>6, Zenon DEF ovars, ObdInv, Quiet, Turns, Silent, Exchange, Asked, AnsweredSensor, FirstSent, FlowSent,
        RestSent, LastLeft
<1> QED BY <1>1, <1>2, <1>3, <1>4, <1>5, <1>6, Zenon DEF ObdNext

\* On a bus where only the emulator answers and no read fails, each entry of the
\* table is the answer to its own query and nothing is copied past a buffer, for
\* a table of sensors of any length, although the monitor takes whatever frame
\* comes next (monitor.c:163, monitor.c:197).
THEOREM ReadingsAreRight == ObdSpec => []ReadingsMatch
<1>1. ObdInv => ReadingsMatch
  <2> SUFFICES ASSUME ObdInv, Quiet PROVE AnswersMatch /\ monitor # "crashed"
    BY Zenon DEF ReadingsMatch, AnswersMatch, NoOverrun
  <2>1. Turns /\ table \in Seq(Right)
    BY Zenon DEF ObdInv
  <2>2. \A i \in DOMAIN table : table[i] \in Right
    BY <2>1, SMTT(20)
  <2>3. ASSUME NEW e \in Right
        PROVE  IF e.asked = Vin THEN e.data = WholeVin ELSE e.data = <<Frame("single", e.asked, 0)>>
    <3>1. CASE e = [asked |-> Vin, data |-> WholeVin]
      BY <3>1, SMTT(20)
    <3>2. ASSUME NEW i \in 2..Len(PIDS), e = [asked |-> PIDS[i], data |-> <<Frame("single", PIDS[i], 0)>>]
          PROVE  e.asked # Vin /\ e.data = <<Frame("single", e.asked, 0)>>
      <4>1. i \in 1..Len(PIDS) /\ i # 1
        BY PIDSAre, SMTT(20)
      <4>2. e.asked = PIDS[i] /\ e.data = <<Frame("single", PIDS[i], 0)>>
        BY <3>2, SMTT(20)
      <4> QED BY <4>1, <4>2, PIDSAre, Zenon
    <3> QED BY <3>1, <3>2, Zenon DEF Right
  <2> QED BY <2>1, <2>2, <2>3, Zenon DEF AnswersMatch, Turns
<1>2. ObdInit /\ [][ObdNext]_ovars => []ReadingsMatch
  BY <1>1, ObdInvInit, ObdInvStep, PTL
<1> QED BY <1>2, PTL DEF ObdSpec

-----------------------------------------------------------------------------
(* The MQTT server *)

\* The requests that are not on their way any more: handled, or lost.
Left(n, box) == {r \in 1..n : \A i \in DOMAIN box : box[i] # r}

\* Those of them that could not be answered.
Bad(kinds, box) == {r \in Left(Len(kinds), box) : kinds[r] # "good"}

\* What each request is good for, once it has arrived.
Due(r, n, box) == IF r \in Left(n, box) THEN 1 ELSE 0

\* The runs there can be: an API runs on the body of another message only when its
\* own was empty.  Their results, under the topic of their device.
Proper(kinds) ==
    {x \in [of : 1..Len(kinds), body : 1..Len(kinds)] : x.of # x.body => kinds[x.of] = "empty"}
AnswerOf(x) == [topic |-> x, message |-> x]
Answers(kinds) == {AnswerOf(x) : x \in Proper(kinds)}

\* The next connection will publish, and what it publishes is for request r.
ToPublish ==
    \/ place = "sub_loop" /\ link \in {"closing", "refused"}
    \/ place = "pub_connect"
    \/ place = "pub_loop" /\ link = "opening"
Pending(r) == IF ToPublish /\ pub \in AnswersTo(r) THEN 1 ELSE 0

\* The answers of earlier connections that are not acknowledged: the
\* acknowledgement of each may end one connection of the subscriber.
Waiting == place = "pub_loop" /\ link = "up"
Carry == IF Waiting THEN unacked - 1 ELSE unacked

\* Types; requests are numbered as sent, and each is delivered once at most.
ListTypes ==
    /\ sent \in Seq(Kind) /\ inbox \in Seq(1..Len(sent)) /\ recv \in 0..Len(sent)
    /\ \A i, j \in DOMAIN inbox : inbox[i] = inbox[j] => i = j
    /\ pub \in {AnswerOf(NoRun)} \cup Answers(sent)
    /\ handled \in Seq(Proper(sent)) /\ published \in Seq(Answers(sent))

\* The publisher waits for its own answer, and only a lost one is carried along.
LinkFaults == [refused : Nat, lost : Nat, other : Nat]
LinkTypes ==
    /\ linkFaults \in LinkFaults /\ unacked \in Nat
    /\ Waiting => unacked > 0
    /\ Carry <= linkFaults.lost

\* A request is handled when it arrives and once more for each bad one after it;
\* its answer is published then, and once more for each refused connection and
\* each lost answer, those included that still wait for their turn.
Limit(r, kinds, box) == Due(r, Len(kinds), box) + Cardinality(Bad(kinds, box))
Breaks == linkFaults.refused + linkFaults.lost
Outstanding(r) == Pending(r) + Carry
Repeats ==
    \A r \in 1..Len(sent) :
        /\ Count(handled, RunsOf(r)) <= Limit(r, sent, inbox)
        /\ Count(published, AnswersTo(r)) + Outstanding(r) <= Limit(r, sent, inbox) + Breaks

\* The inductive invariant of the MQTT server.
MqttInv == ListTypes /\ LinkTypes /\ Repeats

-----------------------------------------------------------------------------

\* Where the things of a set are in a list can be counted.
LEMMA CountIs ==
  ASSUME NEW S, NEW s \in Seq(S), NEW R
  PROVE  /\ IsFiniteSet({i \in DOMAIN s : s[i] \in R}) /\ Count(s, R) \in Nat
         /\ (\A i \in DOMAIN s : s[i] \notin R) => Count(s, R) = 0
<1> DEFINE At == {i \in DOMAIN s : s[i] \in R}
<1>1. Len(s) \in Nat /\ DOMAIN s = 1..Len(s)
  OBVIOUS
<1>2. IsFiniteSet(At) /\ Cardinality(At) \in Nat
  <2>1. IsFiniteSet(1..Len(s)) /\ At \subseteq 1..Len(s)
    BY <1>1, FS_Interval
  <2> QED BY <2>1, FS_Subset, FS_CardinalityType, Zenon
<1>3. (\A i \in DOMAIN s : s[i] \notin R) => Cardinality(At) = 0
  <2> SUFFICES ASSUME \A i \in DOMAIN s : s[i] \notin R PROVE Cardinality(At) = 0
    OBVIOUS
  <2>1. At = {}
    BY Zenon
  <2> QED BY <2>1, FS_EmptySet, Zenon
<1> QED BY <1>2, <1>3, Zenon DEF Count

\* A list counts one more of what is appended to it.
LEMMA CountAppend ==
  ASSUME NEW S, NEW s \in Seq(S), NEW x \in S, NEW R
  PROVE  /\ x \in R => Count(Append(s, x), R) = Count(s, R) + 1
         /\ x \notin R => Count(Append(s, x), R) = Count(s, R)
<1> DEFINE At(q) == {i \in DOMAIN q : q[i] \in R}
<1>1. Len(s) \in Nat /\ DOMAIN s = 1..Len(s)
  OBVIOUS
<1>2. /\ DOMAIN Append(s, x) = 1..Len(s) \cup {Len(s) + 1} /\ Append(s, x)[Len(s) + 1] = x
      /\ \A i \in 1..Len(s) : Append(s, x)[i] = s[i]
      /\ Len(s) + 1 \notin 1..Len(s)
  BY <1>1, SMTT(20)
<1>3. CASE x \in R
  <2>1. At(Append(s, x)) = At(s) \cup {Len(s) + 1} /\ Len(s) + 1 \notin At(s)
    BY <1>1, <1>2, <1>3, Zenon
  <2>2. IsFiniteSet(At(s))
    BY CountIs, Zenon
  <2>3. Cardinality(At(s) \cup {Len(s) + 1}) = Cardinality(At(s)) + 1
    BY <2>1, <2>2, FS_AddElement, Zenon
  <2> QED BY <1>3, <2>1, <2>3, Zenon DEF Count
<1>4. CASE x \notin R
  <2>1. At(Append(s, x)) = At(s)
    BY <1>1, <1>2, <1>4, Zenon
  <2> QED BY <1>4, <2>1, Zenon DEF Count
<1> QED BY <1>3, <1>4, Zenon

\* The requests that could not be answered can be counted, and no other ones are.
LEMMA BadIs ==
  ASSUME NEW kinds \in Seq(Kind), NEW box
  PROVE  IsFiniteSet(Bad(kinds, box)) /\ Cardinality(Bad(kinds, box)) \in Nat
<1>1. Len(kinds) \in Nat
  OBVIOUS
<1>2. IsFiniteSet(1..Len(kinds)) /\ Bad(kinds, box) \subseteq 1..Len(kinds)
  BY <1>1, FS_Interval DEF Bad, Left
<1> QED BY <1>2, FS_Subset, FS_CardinalityType, Zenon

\* A limit is a number, and it grows when more requests have arrived or are lost.
LEMMA LimitGrows ==
  ASSUME NEW kinds \in Seq(Kind), NEW box, NEW more \in Seq(Kind), NEW rest,
         \A r \in Left(Len(kinds), box) : r \in Left(Len(more), rest) /\ more[r] = kinds[r]
  PROVE  \A r : /\ Limit(r, kinds, box) \in Nat /\ Limit(r, more, rest) \in Nat
                /\ Limit(r, kinds, box) <= Limit(r, more, rest)
<1>1. Bad(kinds, box) \subseteq Bad(more, rest)
  BY Zenon DEF Bad
<1>2. Cardinality(Bad(kinds, box)) <= Cardinality(Bad(more, rest))
  BY <1>1, BadIs, FS_Subset, Zenon
<1>3. Cardinality(Bad(kinds, box)) \in Nat /\ Cardinality(Bad(more, rest)) \in Nat
  BY BadIs, Zenon
<1>4. ASSUME NEW r
      PROVE  /\ Due(r, Len(kinds), box) \in {0, 1} /\ Due(r, Len(more), rest) \in {0, 1}
             /\ Due(r, Len(kinds), box) = 1 => Due(r, Len(more), rest) = 1
  <2>1. r \in Left(Len(kinds), box) => r \in Left(Len(more), rest)
    BY Zenon
  <2> QED BY <2>1 DEF Due
<1> HIDE DEF Due, Bad
<1>5. \A d, e \in {0, 1} : \A b, c \in Nat :
        (d = 1 => e = 1) /\ b <= c => d + b \in Nat /\ e + c \in Nat /\ d + b <= e + c
  OBVIOUS
<1> QED BY <1>2, <1>3, <1>4, <1>5, Zenon DEF Limit

\* What a list is.
LEMMA SeqIs ==
  ASSUME NEW S, NEW s \in Seq(S)
  PROVE  DOMAIN s = 1..Len(s) /\ Len(s) \in Nat /\ \A i \in DOMAIN s : s[i] \in S
OBVIOUS

\* A list over some things is one over more of them.
LEMMA SeqOver ==
  ASSUME NEW S, NEW T, S \subseteq T, NEW s \in Seq(S)
  PROVE  s \in Seq(T)
OBVIOUS

\* What a run is of.
LEMMA ProperIs ==
  ASSUME NEW kinds \in Seq(Kind), NEW x \in Proper(kinds)
  PROVE  /\ x \in Run /\ x.of \in 1..Len(kinds) /\ x.body \in 1..Len(kinds) /\ x # NoRun
         /\ x.of # x.body => kinds[x.of] = "empty"
<1>1. Len(kinds) \in Nat
  OBVIOUS
<1>2. x \in [of : 1..Len(kinds), body : 1..Len(kinds)] /\ (x.of # x.body => kinds[x.of] = "empty")
  BY Zenon DEF Proper
<1>3. x.of # 0 /\ x.of \in 1..Len(kinds) /\ x.body \in 1..Len(kinds) /\ x \in Run
  BY <1>1, <1>2, SMTT(20) DEF Run
<1>4. NoRun.of = 0
  BY DEF NoRun
<1> QED BY <1>2, <1>3, <1>4, Zenon

\* A run and its answer count for the request whose body they have.
LEMMA BelongsIs ==
  ASSUME NEW x \in Run, NEW r
  PROVE  (x \in RunsOf(r) <=> x.body = r) /\ (AnswerOf(x) \in AnswersTo(r) <=> x.body = r)
<1>1. x \in RunsOf(r) <=> x.body = r
  BY DEF Run, RunsOf
<1>2. AnswerOf(x) \in AnswersTo(r) <=> x \in RunsOf(r)
  BY SMTT(20) DEF AnswerOf, AnswersTo
<1> QED BY <1>1, <1>2, Zenon

\* Types of what the invariant counts.
LEMMA TypesAre ==
  ASSUME ListTypes, LinkTypes
  PROVE  /\ Len(sent) \in Nat /\ Breaks \in Nat /\ Carry \in Nat
         /\ \A r : /\ Count(handled, RunsOf(r)) \in Nat /\ Count(published, AnswersTo(r)) \in Nat
                   /\ Pending(r) \in {0, 1} /\ Outstanding(r) \in Nat /\ Limit(r, sent, inbox) \in Nat
<1>1. Len(sent) \in Nat
  BY SMTT(20) DEF ListTypes
<1>2. Breaks \in Nat
  BY SMTT(20) DEF LinkTypes, LinkFaults, Breaks
<1>3. Carry \in Nat
  BY SMTT(20) DEF LinkTypes, Carry
<1>4. \A r : Count(handled, RunsOf(r)) \in Nat /\ Count(published, AnswersTo(r)) \in Nat
  BY CountIs, Zenon DEF ListTypes
<1>5. \A r : Pending(r) \in {0, 1}
  BY Zenon DEF Pending
<1>6. \A r : Outstanding(r) \in Nat
  <2>1. \A p \in {0, 1} : \A c \in Nat : p + c \in Nat
    OBVIOUS
  <2> QED BY <1>3, <1>5, <2>1, Zenon DEF Outstanding
<1>7. \A r : Limit(r, sent, inbox) \in Nat
  BY LimitGrows, Zenon DEF ListTypes
<1> QED BY <1>1, <1>2, <1>3, <1>4, <1>5, <1>6, <1>7, Zenon

\* It holds when the server starts.
LEMMA MqttInvInit == MqttInit => MqttInv
<1> SUFFICES ASSUME MqttInit PROVE MqttInv
  OBVIOUS
<1>1. Len(sent) = 0 /\ 1..Len(sent) = {} /\ 0 \in 0..Len(sent)
  BY SMTT(20) DEF MqttInit
<1>2. /\ sent = <<>> /\ inbox = <<>> /\ handled = <<>> /\ published = <<>> /\ recv = 0 /\ unacked = 0
      /\ pub = AnswerOf(NoRun) /\ linkFaults = [refused |-> 0, lost |-> 0, other |-> 0] /\ place = "setup"
  BY Zenon DEF MqttInit, AnswerOf
<1>3. sent \in Seq(Kind) /\ inbox \in Seq(1..Len(sent)) /\ handled \in Seq(Proper(sent))
      /\ published \in Seq(Answers(sent)) /\ DOMAIN inbox = {}
  BY <1>2, SMTT(20)
<1>4. ListTypes
  BY <1>1, <1>2, <1>3, Zenon DEF ListTypes
<1>5. LinkTypes
  BY <1>2, SMTT(20) DEF LinkTypes, LinkFaults, Waiting, Carry
<1> QED BY <1>1, <1>4, <1>5, Zenon DEF MqttInv, Repeats

\* A step that handles and publishes nothing: some messages may be lost, and what
\* is outstanding grows no more than the count of what went wrong.
LEMMA QuietKeeps ==
  ASSUME MqttInv, UNCHANGED <<sent, recv, pub, handled, published>>, LinkTypes',
         inbox' \in {inbox, <<>>}, \A r : Outstanding(r)' + Breaks <= Outstanding(r) + Breaks'
  PROVE  MqttInv'
<1>1. ListTypes /\ LinkTypes /\ Repeats
  BY Zenon DEF MqttInv
<1>2. inbox' \in Seq(1..Len(sent)) /\ \A i, j \in DOMAIN inbox' : inbox'[i] = inbox'[j] => i = j
  <2>1. CASE inbox' = inbox
    BY <1>1, <2>1, Zenon DEF ListTypes
  <2>2. CASE inbox' = <<>>
    <3>1. <<>> \in Seq(1..Len(sent)) /\ DOMAIN <<>> = {}
      OBVIOUS
    <3> QED BY <2>2, <3>1, Zenon
  <2> QED BY <2>1, <2>2, Zenon
<1>3. ListTypes'
  BY <1>1, <1>2, Zenon DEF ListTypes
<1>4. Left(Len(sent), inbox) \subseteq Left(Len(sent), inbox')
  <2>1. CASE inbox' = inbox
    BY <2>1, Zenon
  <2>2. CASE inbox' = <<>>
    <3>1. DOMAIN <<>> = {}
      OBVIOUS
    <3> QED BY <2>2, <3>1, Zenon DEF Left
  <2> QED BY <2>1, <2>2, Zenon
<1>5. \A r : Limit(r, sent, inbox) <= Limit(r, sent, inbox') /\ Limit(r, sent, inbox') \in Nat
  BY <1>1, <1>4, LimitGrows, Zenon DEF ListTypes
<1>6. \A r : Outstanding(r)' \in Nat /\ Breaks' \in Nat
  <2>1. Breaks' \in Nat /\ Carry' \in Nat
    <3>1. linkFaults'.refused \in Nat /\ linkFaults'.lost \in Nat
      BY Zenon DEF LinkTypes, LinkFaults
    <3>2. unacked' \in Nat /\ (Waiting' => unacked' > 0)
      BY Zenon DEF LinkTypes
    <3>3. Breaks' = linkFaults'.refused + linkFaults'.lost
      BY Zenon DEF Breaks
    <3>4. \A a, b \in Nat : a + b \in Nat /\ (a > 0 => a - 1 \in Nat)
      OBVIOUS
    <3>5. Carry' \in Nat
      BY <3>2, <3>4, Zenon DEF Carry
    <3> QED BY <3>1, <3>3, <3>4, <3>5, Zenon
  <2>2. \A r : Pending(r)' \in {0, 1}
    BY Zenon DEF Pending
  <2>3. \A p \in {0, 1} : \A c \in Nat : p + c \in Nat
    OBVIOUS
  <2> QED BY <2>1, <2>2, <2>3, Zenon DEF Outstanding
<1>7. ASSUME NEW r \in 1..Len(sent)
      PROVE  /\ Count(handled, RunsOf(r)) <= Limit(r, sent, inbox')
             /\ Count(published, AnswersTo(r)) + Outstanding(r)' <= Limit(r, sent, inbox') + Breaks'
  <2>1. PICK h, c, p, q, l, m, f, g :
          /\ h = Count(handled, RunsOf(r)) /\ c = Count(published, AnswersTo(r))
          /\ p = Outstanding(r) /\ q = Outstanding(r)' /\ l = Limit(r, sent, inbox) /\ m = Limit(r, sent, inbox')
          /\ f = Breaks /\ g = Breaks'
    BY Zenon
  <2>2. h \in Nat /\ c \in Nat /\ p \in Nat /\ q \in Nat /\ l \in Nat /\ m \in Nat /\ f \in Nat /\ g \in Nat
    BY <1>1, <1>5, <1>6, <2>1, TypesAre, Zenon
  <2>3. h <= l /\ c + p <= l + f /\ l <= m /\ q + f <= p + g
    BY <1>1, <1>5, <2>1, Zenon DEF Repeats
  <2>4. h <= m /\ c + q <= m + g
    BY <2>2, <2>3, SMTT(20)
  <2> QED BY <2>1, <2>4, Zenon
<1> QED BY <1>3, <1>7, Zenon DEF MqttInv, Repeats

\* A fault is counted with its kind.
LEMMA FaultIs ==
  ASSUME linkFaults \in LinkFaults
  PROVE  /\ linkFaults.refused \in Nat /\ linkFaults.lost \in Nat /\ Breaks \in Nat
         /\ Fault \/ NoFault => linkFaults' \in LinkFaults /\ linkFaults'.lost = linkFaults.lost /\ Breaks' = Breaks
         /\ FaultOf("refused") =>
              linkFaults' \in LinkFaults /\ linkFaults'.lost = linkFaults.lost /\ Breaks' = Breaks + 1
         /\ FaultOf("lost") =>
              linkFaults' \in LinkFaults /\ linkFaults'.lost = linkFaults.lost + 1 /\ Breaks' = Breaks + 1
<1>1. linkFaults.refused \in Nat /\ linkFaults.lost \in Nat /\ linkFaults.other \in Nat
  BY Zenon DEF LinkFaults
<1>2. ASSUME NEW f \in {"refused", "lost", "other"}, linkFaults' = [linkFaults EXCEPT ![f] = @ + 1]
      PROVE  /\ linkFaults' \in LinkFaults
             /\ linkFaults'.refused = (IF f = "refused" THEN linkFaults.refused + 1 ELSE linkFaults.refused)
             /\ linkFaults'.lost = (IF f = "lost" THEN linkFaults.lost + 1 ELSE linkFaults.lost)
  BY <1>2, SMTT(20) DEF LinkFaults
<1>3. ASSUME NEW f \in {"refused", "lost", "other"}, FaultOf(f)
      PROVE  linkFaults' = [linkFaults EXCEPT ![f] = @ + 1]
  BY <1>3, Zenon DEF FaultOf
<1>4. Fault => linkFaults' \in LinkFaults /\ linkFaults'.lost = linkFaults.lost /\ Breaks' = Breaks
  <2> SUFFICES ASSUME Fault PROVE linkFaults' \in LinkFaults /\ linkFaults'.lost = linkFaults.lost /\ Breaks' = Breaks
    OBVIOUS
  <2>1. linkFaults' = [linkFaults EXCEPT !["other"] = @ + 1]
    BY <1>3, Zenon DEF Fault
  <2>2. linkFaults' \in LinkFaults /\ linkFaults'.refused = linkFaults.refused /\ linkFaults'.lost = linkFaults.lost
    BY <1>2, <2>1, Zenon
  <2> QED BY <2>2, Zenon DEF Breaks
<1>5. FaultOf("refused") =>
        linkFaults' \in LinkFaults /\ linkFaults'.lost = linkFaults.lost /\ Breaks' = Breaks + 1
  <2> SUFFICES ASSUME FaultOf("refused")
               PROVE  linkFaults' \in LinkFaults /\ linkFaults'.lost = linkFaults.lost /\ Breaks' = Breaks + 1
    OBVIOUS
  <2>1. linkFaults' = [linkFaults EXCEPT !["refused"] = @ + 1]
    BY <1>3, Zenon
  <2>2. linkFaults' \in LinkFaults /\ linkFaults'.refused = linkFaults.refused + 1 /\ linkFaults'.lost = linkFaults.lost
    BY <1>2, <2>1, Zenon
  <2>3. \A a, b \in Nat : (a + 1) + b = (a + b) + 1
    OBVIOUS
  <2> QED BY <1>1, <2>2, <2>3, Zenon DEF Breaks
<1>6. FaultOf("lost") =>
        linkFaults' \in LinkFaults /\ linkFaults'.lost = linkFaults.lost + 1 /\ Breaks' = Breaks + 1
  <2> SUFFICES ASSUME FaultOf("lost")
               PROVE  linkFaults' \in LinkFaults /\ linkFaults'.lost = linkFaults.lost + 1 /\ Breaks' = Breaks + 1
    OBVIOUS
  <2>1. linkFaults' = [linkFaults EXCEPT !["lost"] = @ + 1]
    BY <1>3, Zenon
  <2>2. linkFaults' \in LinkFaults /\ linkFaults'.refused = linkFaults.refused /\ linkFaults'.lost = linkFaults.lost + 1
    BY <1>2, <2>1, Zenon
  <2>3. \A a, b \in Nat : a + (b + 1) = (a + b) + 1
    OBVIOUS
  <2> QED BY <1>1, <2>2, <2>3, Zenon DEF Breaks
<1>7. Breaks \in Nat
  BY <1>1, SMTT(20) DEF Breaks
<1> QED BY <1>1, <1>4, <1>5, <1>6, <1>7, Zenon DEF NoFault, Breaks

\* The steps of the loops and of the connections: nothing more becomes outstanding.
LEMMA LoopKeeps ==
  ASSUME MqttInv,
         \/ Setup \/ ConnectSub \/ ConnectPub \/ Reconnect \/ LoopFails \/ LoopEnds \/ PublishLoopEnds
         \/ PubLost /\ link = "opening"
         \/ PubConnected /\ pub.topic = NoRun
         \/ SubConnected /\ link' = "up" /\ NoFault
  PROVE  MqttInv'
<1>1. linkFaults \in LinkFaults /\ LinkTypes /\ ListTypes
  BY Zenon DEF MqttInv, LinkTypes
<1>2. UNCHANGED <<sent, recv, pub, unacked, handled, published>> /\ (NoFault \/ Fault) /\ inbox' \in {inbox, <<>>}
  BY Zenon DEF Setup, ConnectSub, ConnectPub, Connect, Reconnect, LoopFails, LoopEnds, PublishLoopEnds, PubLost,
        PubConnected, SubConnected, NoFault
<1>3. (ToPublish' => ToPublish) /\ ~Waiting /\ ~Waiting'
  BY Zenon DEF Setup, ConnectSub, ConnectPub, Connect, Reconnect, LoopFails, LoopEnds, PublishLoopEnds, PubLost,
        PubConnected, SubConnected, AfterLoss, ToPublish, Waiting
<1>4. linkFaults' \in LinkFaults /\ linkFaults'.lost = linkFaults.lost /\ Breaks' = Breaks
  BY <1>1, <1>2, FaultIs, Zenon
<1>5. Carry = unacked /\ Carry' = unacked
  BY <1>2, <1>3, Zenon DEF Carry
<1>6. LinkTypes'
  BY <1>1, <1>2, <1>3, <1>4, <1>5, Zenon DEF LinkTypes
<1>7. ASSUME NEW r PROVE Outstanding(r)' + Breaks <= Outstanding(r) + Breaks'
  <2>1. Pending(r) \in {0, 1} /\ Pending(r)' \in {0, 1} /\ (Pending(r)' = 1 => Pending(r) = 1)
    BY <1>2, <1>3, SMTT(20) DEF Pending
  <2>2. Outstanding(r) = Pending(r) + unacked /\ Outstanding(r)' = Pending(r)' + unacked
    BY <1>5, Zenon DEF Outstanding
  <2>3. unacked \in Nat /\ Breaks \in Nat
    BY <1>1, TypesAre, Zenon DEF LinkTypes
  <2>4. \A p, q \in {0, 1} : \A u, b \in Nat : (q = 1 => p = 1) => (q + u) + b <= (p + u) + b
    OBVIOUS
  <2> QED BY <1>4, <2>1, <2>2, <2>3, <2>4, Zenon
<1> QED BY <1>2, <1>6, <1>7, QuietKeeps, Zenon

\* A refused connection of the subscriber, or a lost answer: one more repetition
\* becomes possible, and is counted.
LEMMA TroubleKeeps ==
  ASSUME MqttInv,
         \/ SubConnected /\ FaultOf("refused")
         \/ PubLost /\ link = "up" /\ FaultOf("lost")
  PROVE  MqttInv'
<1>1. linkFaults \in LinkFaults /\ LinkTypes /\ ListTypes
  BY Zenon DEF MqttInv, LinkTypes
<1>2. UNCHANGED <<sent, inbox, recv, pub, unacked, handled, published>>
  BY Zenon DEF SubConnected, PubLost
<1>3. /\ linkFaults' \in LinkFaults /\ linkFaults.lost \in Nat /\ Breaks \in Nat /\ Breaks' = Breaks + 1
      /\ unacked \in Nat /\ Carry <= linkFaults.lost
  BY <1>1, FaultIs, Zenon DEF LinkTypes
<1>4. /\ ~Waiting' /\ Carry' = unacked /\ Carry' <= linkFaults'.lost
      /\ \A r : Pending(r) \in {0, 1} /\ Pending(r)' \in {0, 1} /\ Pending(r)' + Carry' <= (Pending(r) + Carry) + 1
  <2>0. \A r : Pending(r) \in {0, 1} /\ Pending(r)' \in {0, 1}
    BY Zenon DEF Pending
  <2>1. CASE SubConnected /\ FaultOf("refused")
    <3>1. place = "sub_loop" /\ place' = "sub_loop" /\ linkFaults'.lost = linkFaults.lost
      BY <1>1, <2>1, FaultIs, Zenon DEF SubConnected
    <3>2. ~Waiting' /\ Carry' = unacked /\ Carry = unacked
      BY <1>2, <3>1, Zenon DEF Waiting, Carry
    <3>3. \A p, q \in {0, 1} : \A u \in Nat : q + u <= (p + u) + 1
      OBVIOUS
    <3> QED BY <1>3, <2>0, <3>1, <3>2, <3>3, Zenon
  <2>2. CASE PubLost /\ link = "up" /\ FaultOf("lost")
    <3>1. place = "pub_loop" /\ link = "up" /\ place' = "sub_connect" /\ linkFaults'.lost = linkFaults.lost + 1
      BY <1>1, <2>2, FaultIs, Zenon DEF PubLost, AfterLoss
    <3>2. ~Waiting' /\ ~ToPublish' /\ Carry' = unacked /\ Carry = unacked - 1
      BY <1>2, <3>1, Zenon DEF Waiting, Carry, ToPublish
    <3>3. \A r : Pending(r)' = 0
      BY <3>2, Zenon DEF Pending
    <3>4. \A p \in {0, 1} : \A u, f \in Nat : 0 + u <= (p + (u - 1)) + 1 /\ (u - 1 <= f => u <= f + 1)
      OBVIOUS
    <3>5. unacked <= linkFaults.lost + 1
      BY <1>3, <3>2, <3>4, Zenon
    <3> QED BY <1>3, <2>0, <3>1, <3>2, <3>3, <3>4, <3>5, Zenon
  <2> QED BY <2>1, <2>2, Zenon
<1>5. LinkTypes'
  BY <1>2, <1>3, <1>4, Zenon DEF LinkTypes
<1>6. ASSUME NEW r PROVE Outstanding(r)' + Breaks <= Outstanding(r) + Breaks'
  <2>1. Carry \in Nat /\ Carry' \in Nat
    BY <1>1, <1>2, <1>3, <1>4, TypesAre, Zenon
  <2>2. PICK p, q, c, d, b : p = Pending(r) /\ q = Pending(r)' /\ c = Carry /\ d = Carry' /\ b = Breaks
    BY Zenon
  <2>3. p \in {0, 1} /\ q \in {0, 1} /\ c \in Nat /\ d \in Nat /\ b \in Nat /\ q + d <= (p + c) + 1
    BY <1>3, <1>4, <2>1, <2>2, Zenon
  <2>4. (q + d) + b <= (p + c) + (b + 1)
    BY <2>3, SMTT(20)
  <2> QED BY <1>3, <2>2, <2>4, Zenon DEF Outstanding
<1> QED BY <1>2, <1>5, <1>6, QuietKeeps, Zenon

\* An acknowledgement: the repetition it may cause was outstanding before.
LEMMA AckKeeps ==
  ASSUME MqttInv, PubAcked
  PROVE  MqttInv'
<1>1. linkFaults \in LinkFaults /\ LinkTypes /\ ListTypes
  BY Zenon DEF MqttInv, LinkTypes
<1>2. /\ UNCHANGED <<place, sent, inbox, recv, pub, handled, published, linkFaults>> /\ unacked' = unacked - 1
      /\ unacked > 0 /\ link' = "closing"
  BY Zenon DEF PubAcked, AfterAck
<1>3. unacked \in Nat /\ unacked' \in Nat /\ Breaks \in Nat /\ Breaks' = Breaks
  BY <1>1, <1>2, FaultIs, SMTT(20) DEF LinkTypes, Breaks
<1>4. ~Waiting' /\ Carry' = unacked - 1
  BY <1>2, Zenon DEF Waiting, Carry
<1>5. Carry' <= Carry /\ Carry <= linkFaults.lost /\ linkFaults.lost \in Nat /\ Carry \in Nat
  <2>1. Carry \in {unacked - 1, unacked}
    BY Zenon DEF Carry
  <2>2. Carry <= linkFaults.lost /\ linkFaults.lost \in Nat /\ Carry \in Nat
    BY <1>1, FaultIs, TypesAre, Zenon DEF LinkTypes
  <2> QED BY <1>2, <1>3, <1>4, <2>1, <2>2, SMTT(20)
<1>6. Carry' <= linkFaults.lost
  BY <1>3, <1>4, <1>5, SMTT(20)
<1>7. LinkTypes'
  BY <1>1, <1>2, <1>3, <1>4, <1>6, Zenon DEF LinkTypes
<1>8. ASSUME NEW r PROVE Outstanding(r)' + Breaks <= Outstanding(r) + Breaks'
  <2>1. Pending(r) \in {0, 1} /\ Pending(r)' \in {0, 1}
    BY Zenon DEF Pending
  <2>2. CASE Waiting
    <3>1. Carry = unacked - 1 /\ ~ToPublish'
      BY <1>2, <2>2, Zenon DEF Carry, Waiting, ToPublish
    <3>2. Pending(r)' = 0
      BY <3>1, Zenon DEF Pending
    <3>3. \A p \in {0, 1} : \A u, b \in Nat : (0 + (u - 1)) + b <= (p + (u - 1)) + b
      OBVIOUS
    <3> QED BY <1>3, <1>4, <2>1, <3>1, <3>2, <3>3, Zenon DEF Outstanding
  <2>3. CASE ~Waiting
    <3>1. Carry = unacked
      BY <2>3, Zenon DEF Carry
    <3>2. \A p, q \in {0, 1} : \A u, b \in Nat : (q + (u - 1)) + b <= (p + u) + b
      OBVIOUS
    <3> QED BY <1>3, <1>4, <2>1, <3>1, <3>2, Zenon DEF Outstanding
  <2> QED BY <2>2, <2>3, Zenon
<1> QED BY <1>2, <1>7, <1>8, QuietKeeps, Zenon

\* The runs there can be, and their answers, become more with the requests.
LEMMA AnswersGrow ==
  ASSUME NEW kinds \in Seq(Kind), NEW more \in Seq(Kind), 1..Len(kinds) \subseteq 1..Len(more),
         \A r \in 1..Len(kinds) : more[r] = kinds[r]
  PROVE  Proper(kinds) \subseteq Proper(more) /\ Answers(kinds) \subseteq Answers(more)
<1>1. ASSUME NEW x \in Proper(kinds) PROVE x \in Proper(more)
  <2>1. x \in [of : 1..Len(kinds), body : 1..Len(kinds)]
    BY Zenon DEF Proper
  <2>2. x \in [of : 1..Len(more), body : 1..Len(more)]
    BY <2>1, Zenon
  <2>3. x.of # x.body => more[x.of] = "empty"
    BY ProperIs, Zenon
  <2> QED BY <2>2, <2>3, Zenon DEF Proper
<1> QED BY <1>1, Zenon DEF Answers

\* A published request is new: nothing has been done for it yet.
LEMMA SendKeeps ==
  ASSUME MqttInv, NEW kind \in Kind, Send(kind)
  PROVE  MqttInv'
<1> DEFINE n == Len(sent)
<1>1. ListTypes /\ LinkTypes /\ Repeats
  BY Zenon DEF MqttInv
<1>2. UNCHANGED <<place, link, recv, pub, unacked, handled, published, linkFaults>>
      /\ sent' = Append(sent, kind) /\ inbox' \in {inbox, Append(inbox, n + 1)}
  BY Zenon DEF Send
<1>3. n \in Nat /\ sent \in Seq(Kind) /\ sent' \in Seq(Kind) /\ Len(sent') = n + 1 /\ \A r \in 1..n : sent'[r] = sent[r]
  BY <1>1, <1>2, SMTT(20) DEF ListTypes
<1>4. n + 1 \in Nat /\ 1..n \subseteq 1..(n + 1) /\ 0..n \subseteq 0..(n + 1) /\ n + 1 \in 1..(n + 1)
      /\ n + 1 \notin 0..n /\ (1..(n + 1)) = (1..n) \cup {n + 1} /\ 1..n \subseteq 0..n /\ 0 \in 0..n
  BY <1>3, SMTT(20)
<1> HIDE DEF n
<1>5. inbox \in Seq(1..n) /\ handled \in Seq(Proper(sent)) /\ published \in Seq(Answers(sent))
      /\ pub \in {AnswerOf(NoRun)} \cup Answers(sent)
  BY <1>1, Zenon DEF ListTypes, n
<1>6. /\ DOMAIN inbox = 1..Len(inbox) /\ Len(inbox) \in Nat
      /\ \A i \in DOMAIN inbox : inbox[i] \in 1..n
  BY <1>5, SeqIs, Zenon
<1>7. /\ DOMAIN Append(inbox, n + 1) = DOMAIN inbox \cup {Len(inbox) + 1} /\ Append(inbox, n + 1)[Len(inbox) + 1] = n + 1
      /\ \A i \in DOMAIN inbox : Append(inbox, n + 1)[i] = inbox[i]
      /\ Append(inbox, n + 1) \in Seq(1..(n + 1))
  <2>1. inbox \in Seq(1..(n + 1))
    BY <1>4, <1>5, SeqOver, Zenon
  <2> QED BY <1>4, <1>6, <2>1, SMTT(20)
<1>8. ListTypes'
  <2>1. inbox' \in Seq(1..(n + 1))
    BY <1>2, <1>4, <1>5, <1>7, SeqOver, Zenon
  <2>2. \A i, j \in DOMAIN inbox' : inbox'[i] = inbox'[j] => i = j
    <3>1. \A i, j \in DOMAIN inbox : inbox[i] = inbox[j] => i = j
      BY <1>1, Zenon DEF ListTypes
    <3>2. n + 1 \notin 1..n
      BY <1>4, Zenon
    <3>3. CASE inbox' = inbox
      BY <3>1, <3>3, Zenon
    <3>4. CASE inbox' = Append(inbox, n + 1)
      <4>1. \A i \in DOMAIN inbox : inbox'[i] = inbox[i] /\ inbox'[i] # n + 1
        BY <1>6, <1>7, <3>2, <3>4, Zenon
      <4>2. DOMAIN inbox' = DOMAIN inbox \cup {Len(inbox) + 1} /\ inbox'[Len(inbox) + 1] = n + 1
        BY <1>7, <3>4, Zenon
      <4> QED BY <3>1, <4>1, <4>2, Zenon
    <3> QED BY <1>2, <3>3, <3>4, Zenon
  <2>3. PICK more \in Seq(Kind) : more = sent'
    BY <1>3, Zenon
  <2>4. Proper(sent) \subseteq Proper(more) /\ Answers(sent) \subseteq Answers(more)
    BY <1>3, <1>4, <2>3, AnswersGrow, Zenon DEF n
  <2>5. handled \in Seq(Proper(more)) /\ published \in Seq(Answers(more)) /\ pub \in {AnswerOf(NoRun)} \cup Answers(more)
    BY <1>5, <2>4, SeqOver, Zenon
  <2>6. recv \in 0..(n + 1)
    BY <1>1, <1>4, Zenon DEF ListTypes, n
  <2> QED BY <1>2, <1>3, <2>1, <2>2, <2>3, <2>5, <2>6, Zenon DEF ListTypes
<1>9. Left(n, inbox) \subseteq Left(n + 1, inbox')
  <2>1. \A r \in 1..n : r \in 1..(n + 1) /\ r # n + 1
    BY <1>4, Zenon
  <2>2. CASE inbox' = inbox
    BY <2>1, <2>2, Zenon DEF Left
  <2>3. CASE inbox' = Append(inbox, n + 1)
    <3>1. \A i \in DOMAIN inbox' : inbox'[i] = n + 1 \/ (i \in DOMAIN inbox /\ inbox'[i] = inbox[i])
      BY <1>7, <2>3, Zenon
    <3> QED BY <2>1, <3>1, Zenon DEF Left
  <2> QED BY <1>2, <2>2, <2>3, Zenon
<1>10. \A r : /\ Limit(r, sent, inbox) \in Nat /\ Limit(r, sent', inbox') \in Nat
              /\ Limit(r, sent, inbox) <= Limit(r, sent', inbox')
  <2>1. \A r \in Left(n, inbox) : r \in Left(n + 1, inbox') /\ sent'[r] = sent[r]
    BY <1>3, <1>9, Zenon DEF Left
  <2> QED BY <1>3, <2>1, LimitGrows, Zenon DEF n
<1>11. LinkTypes' /\ Breaks' = Breaks /\ Carry' = Carry /\ \A r : Outstanding(r)' = Outstanding(r)
  BY <1>1, <1>2, Zenon DEF LinkTypes, Breaks, Carry, Waiting, Outstanding, Pending, ToPublish
<1>12. Breaks \in Nat /\ Carry \in Nat /\ Carry <= Breaks
  <2>1. linkFaults.refused \in Nat /\ linkFaults.lost \in Nat /\ Carry \in Nat /\ Carry <= linkFaults.lost
    BY <1>1, FaultIs, TypesAre, Zenon DEF LinkTypes
  <2> QED BY <2>1, SMTT(20) DEF Breaks
<1>13. ASSUME NEW r \in 1..(n + 1)
       PROVE  /\ Count(handled, RunsOf(r)) <= Limit(r, sent', inbox')
              /\ Count(published, AnswersTo(r)) + Outstanding(r) <= Limit(r, sent', inbox') + Breaks
  <2>1. PICK l, m \in Nat : l = Limit(r, sent, inbox) /\ m = Limit(r, sent', inbox') /\ l <= m
    BY <1>10, Zenon
  <2>2. CASE r \in 1..n
    <3>1. /\ Count(handled, RunsOf(r)) <= l
          /\ Count(published, AnswersTo(r)) + Outstanding(r) <= l + Breaks
      BY <1>1, <2>1, <2>2, Zenon DEF Repeats, n
    <3>2. Count(handled, RunsOf(r)) \in Nat /\ Count(published, AnswersTo(r)) \in Nat /\ Outstanding(r) \in Nat
      BY <1>1, TypesAre, Zenon
    <3>3. \A h, c, p, f \in Nat : h <= l /\ c + p <= l + f => h <= m /\ c + p <= m + f
      BY <2>1, SMTT(20)
    <3> QED BY <1>12, <2>1, <3>1, <3>2, <3>3, Zenon
  <2>3. CASE r = n + 1
    <3>1. \A x \in Proper(sent) : x \notin RunsOf(r) /\ AnswerOf(x) \notin AnswersTo(r)
      <4>1. ASSUME NEW x \in Proper(sent) PROVE x.body # r /\ x \in Run
        BY <1>3, <1>4, <2>3, ProperIs, Zenon DEF n
      <4>2. ASSUME NEW x \in Proper(sent) PROVE x \notin RunsOf(r) /\ AnswerOf(x) \notin AnswersTo(r)
        <5>1. x.body # r /\ x \in Run
          BY <4>1, Zenon
        <5> QED BY <5>1, BelongsIs, Zenon
      <4> QED BY <4>2, Zenon
    <3>2. Count(handled, RunsOf(r)) = 0
      BY <1>5, <3>1, CountIs, SeqIs, Zenon
    <3>3. \A y \in Answers(sent) : y \notin AnswersTo(r)
      BY <3>1, Zenon DEF Answers
    <3>4. Count(published, AnswersTo(r)) = 0
      BY <1>5, <3>3, CountIs, SeqIs, Zenon
    <3>5. AnswerOf(NoRun) \notin AnswersTo(r)
      <4>1. NoRun \in Run /\ NoRun.body = 0
        BY DEF NoRun, Run
      <4>2. r # 0
        BY <1>4, <2>3, Zenon
      <4> QED BY <4>1, <4>2, BelongsIs, Zenon
    <3>6. Outstanding(r) = 0 + Carry
      BY <1>5, <3>3, <3>5, Zenon DEF Pending, Outstanding
    <3>7. \A c, b \in Nat : c <= b => 0 <= m /\ 0 + (0 + c) <= m + b
      BY <2>1, SMTT(20)
    <3> QED BY <1>12, <2>1, <3>2, <3>4, <3>6, <3>7, Zenon
  <2> QED BY <1>4, <2>2, <2>3, Zenon
<1>14. Repeats'
  BY <1>2, <1>3, <1>11, <1>13, Zenon DEF Repeats
<1> QED BY <1>8, <1>11, <1>14, Zenon DEF MqttInv

\* The first of the messages is taken: it is the only copy.
LEMMA TakenIs ==
  ASSUME NEW n \in Nat, NEW box \in Seq(1..n), box # <<>>,
         \A i, j \in DOMAIN box : box[i] = box[j] => i = j
  PROVE  /\ Head(box) \in 1..n /\ Tail(box) \in Seq(1..n)
         /\ \A i, j \in DOMAIN Tail(box) : Tail(box)[i] = Tail(box)[j] => i = j
         /\ Head(box) \notin Left(n, box) /\ Head(box) \in Left(n, Tail(box))
         /\ Left(n, box) \subseteq Left(n, Tail(box))
<1>1. /\ Head(box) \in 1..n /\ Tail(box) \in Seq(1..n) /\ Head(box) = box[1] /\ 1 \in DOMAIN box
      /\ \A i \in DOMAIN Tail(box) : i + 1 \in DOMAIN box /\ Tail(box)[i] = box[i + 1] /\ i + 1 # 1 /\ i \in Nat
  OBVIOUS
<1>2. \A i, j \in Nat : i + 1 = j + 1 => i = j
  OBVIOUS
<1>3. ASSUME NEW i \in DOMAIN Tail(box), NEW j \in DOMAIN Tail(box), Tail(box)[i] = Tail(box)[j] PROVE i = j
  <2>1. i + 1 \in DOMAIN box /\ j + 1 \in DOMAIN box /\ box[i + 1] = box[j + 1]
    BY <1>1, <1>3, Zenon
  <2>2. i + 1 = j + 1
    BY <2>1, Zenon
  <2> QED BY <1>1, <1>2, <2>2, Zenon
<1>4. \A i \in DOMAIN Tail(box) : Tail(box)[i] # Head(box)
  BY <1>1, Zenon
<1>5. Head(box) \in Left(n, Tail(box)) /\ Head(box) \notin Left(n, box)
  BY <1>1, <1>4, Zenon DEF Left
<1>6. ASSUME NEW r \in Left(n, box) PROVE r \in Left(n, Tail(box))
  <2>1. r \in 1..n /\ \A i \in DOMAIN box : box[i] # r
    BY Zenon DEF Left
  <2>2. ASSUME NEW i \in DOMAIN Tail(box) PROVE Tail(box)[i] # r
    BY <1>1, <2>1, Zenon
  <2> QED BY <2>1, <2>2, Zenon DEF Left
<1> QED BY <1>1, <1>3, <1>5, <1>6, Zenon

\* The API runs on the body that is kept, or not at all; the answer is the one of
\* this run, or the one before stays.
LEMMA HandlerIs ==
  ASSUME ListTypes, NEW m \in 1..Len(sent), NEW v \in 0..Len(sent), v = m \/ sent[m] = "empty",
         mqtt_request_handler(m, v)
  PROVE  /\ pub' \in {AnswerOf(NoRun)} \cup Answers(sent) /\ handled' \in Seq(Proper(sent))
         /\ \A r : \/ Count(handled', RunsOf(r)) = Count(handled, RunsOf(r))
                   \/ v = r /\ Count(handled', RunsOf(r)) = Count(handled, RunsOf(r)) + 1
         /\ sent[m] = "good" => pub' = AnswerOf([of |-> m, body |-> m])
<1> DEFINE run == [of |-> m, body |-> v]
<1>1. Len(sent) \in Nat /\ sent \in Seq(Kind)
  BY SMTT(20) DEF ListTypes
<1>2. handled \in Seq(Proper(sent)) /\ pub \in {AnswerOf(NoRun)} \cup Answers(sent)
  BY Zenon DEF ListTypes
<1>3. run.of = m /\ run.body = v /\ m # 0
  BY <1>1
<1>4. CASE mqtt_device_id_deserialize(v)
  <2>1. v \in 1..Len(sent)
    BY <1>1, <1>4, SMTT(20) DEF mqtt_device_id_deserialize
  <2>2. run \in [of : 1..Len(sent), body : 1..Len(sent)]
    BY <2>1, Zenon
  <2>3. run \in Proper(sent)
    BY <1>3, <2>2, Zenon DEF Proper
  <2>4. handled' = Append(handled, run) /\ pub' \in {AnswerOf(run), pub}
    BY <1>4, Zenon DEF mqtt_request_handler, AnswerOf
  <2>5. AnswerOf(run) \in Answers(sent)
    BY <2>3, Zenon DEF Answers
  <2> HIDE DEF run
  <2>6. \A S : \A s \in Seq(S) : \A x \in S : Append(s, x) \in Seq(S)
    OBVIOUS
  <2>7. pub' \in {AnswerOf(NoRun)} \cup Answers(sent) /\ handled' \in Seq(Proper(sent))
    BY <1>2, <2>3, <2>4, <2>5, <2>6, Zenon
  <2>8. run \in Run
    BY <1>1, <2>3, ProperIs, Zenon
  <2>9. ASSUME NEW r
        PROVE  \/ Count(handled', RunsOf(r)) = Count(handled, RunsOf(r))
               \/ v = r /\ Count(handled', RunsOf(r)) = Count(handled, RunsOf(r)) + 1
    <3>1. run \in RunsOf(r) <=> v = r
      BY <1>3, <2>8, BelongsIs, Zenon
    <3> QED BY <1>2, <2>3, <2>4, <3>1, CountAppend, Zenon
  <2>10. sent[m] = "good" => pub' = AnswerOf([of |-> m, body |-> m])
    BY <1>4, Zenon DEF mqtt_request_handler, cfg_add_topic, AnswerOf
  <2> QED BY <2>7, <2>9, <2>10, Zenon
<1>5. CASE ~mqtt_device_id_deserialize(v)
  <2>1. UNCHANGED <<handled, pub>>
    BY <1>5, Zenon DEF mqtt_request_handler
  <2>2. sent[m] # "good"
    BY <1>3, <1>5, Zenon DEF mqtt_device_id_deserialize
  <2> QED BY <1>2, <2>1, <2>2, Zenon
<1> QED BY <1>4, <1>5, Zenon

\* A message is received and handled.
LEMMA ReceiveKeeps ==
  ASSUME MqttInv, message_callback_duplex_func
  PROVE  MqttInv'
<1> DEFINE n == Len(sent)
<1>1. ListTypes /\ LinkTypes /\ Repeats
  BY Zenon DEF MqttInv
<1>2. PICK m : m = Head(inbox)
  BY Zenon
<1>3. /\ recv' = dump_message(m) /\ mqtt_request_handler(m, recv') /\ inbox # <<>> /\ inbox' = Tail(inbox)
      /\ place = "sub_loop" /\ UNCHANGED <<place, sent, unacked, published, linkFaults>>
  BY <1>2, Zenon DEF message_callback_duplex_func
<1>4. n \in Nat /\ 1..n \subseteq 0..n
  <2>1. n \in Nat
    BY <1>1, TypesAre, Zenon
  <2> QED BY <2>1, SMTT(20)
<1> HIDE DEF n
<1>5. /\ m \in 1..n /\ inbox' \in Seq(1..n) /\ \A i, j \in DOMAIN inbox' : inbox'[i] = inbox'[j] => i = j
      /\ m \notin Left(n, inbox) /\ m \in Left(n, inbox') /\ Left(n, inbox) \subseteq Left(n, inbox')
  <2>1. inbox \in Seq(1..n) /\ \A i, j \in DOMAIN inbox : inbox[i] = inbox[j] => i = j
    BY <1>1, Zenon DEF ListTypes, n
  <2> QED BY <1>2, <1>3, <1>4, <2>1, TakenIs, Zenon
<1>6. recv' \in 0..n /\ (recv' = m \/ sent[m] = "empty")
  <2>1. recv \in 0..n
    BY <1>1, Zenon DEF ListTypes, n
  <2> QED BY <1>3, <1>4, <1>5, <2>1, Zenon DEF dump_message
<1>7. PICK v \in 0..n : v = recv'
  BY <1>6, Zenon
<1>8. /\ pub' \in {AnswerOf(NoRun)} \cup Answers(sent) /\ handled' \in Seq(Proper(sent))
      /\ \A r : \/ Count(handled', RunsOf(r)) = Count(handled, RunsOf(r))
                \/ v = r /\ Count(handled', RunsOf(r)) = Count(handled, RunsOf(r)) + 1
      /\ sent[m] = "good" => pub' = AnswerOf([of |-> m, body |-> m])
  <2>1. mqtt_request_handler(m, v) /\ (v = m \/ sent[m] = "empty")
    BY <1>3, <1>6, <1>7, Zenon
  <2> QED BY <1>1, <1>5, <1>7, <2>1, HandlerIs, Zenon DEF n
<1>9. ListTypes'
  <2>1. sent \in Seq(Kind) /\ published \in Seq(Answers(sent))
    BY <1>1, Zenon DEF ListTypes
  <2> QED BY <1>3, <1>5, <1>6, <1>8, <2>1, Zenon DEF ListTypes, n
<1>10. LinkTypes' /\ Breaks' = Breaks /\ Carry' = Carry
  BY <1>1, <1>3, Zenon DEF LinkTypes, Breaks, Carry, Waiting
<1>11. Cardinality(Bad(sent, inbox)) \in Nat /\ Cardinality(Bad(sent, inbox')) \in Nat
       /\ IsFiniteSet(Bad(sent, inbox)) /\ IsFiniteSet(Bad(sent, inbox')) /\ sent \in Seq(Kind)
  BY <1>1, BadIs, Zenon DEF ListTypes
<1>12. Bad(sent, inbox) \subseteq Bad(sent, inbox')
  BY <1>5, Zenon DEF Bad, n
<1> DEFINE b == Cardinality(Bad(sent, inbox))
           x == Cardinality(Bad(sent, inbox'))
<1>13. b \in Nat /\ x \in Nat /\ b <= x
  BY <1>11, <1>12, FS_Subset, Zenon
<1>14. sent[m] # "good" => b + 1 <= x
  <2> SUFFICES ASSUME sent[m] # "good" PROVE b + 1 <= x
    OBVIOUS
  <2>1. m \in Bad(sent, inbox') /\ m \notin Bad(sent, inbox)
    BY <1>5, Zenon DEF Bad, n
  <2>2. Bad(sent, inbox) \cup {m} \subseteq Bad(sent, inbox')
    BY <1>12, <2>1, Zenon
  <2>3. Cardinality(Bad(sent, inbox) \cup {m}) = b + 1
    BY <1>11, <2>1, FS_AddElement, Zenon
  <2>4. PICK S, T : S = Bad(sent, inbox) \cup {m} /\ T = Bad(sent, inbox')
    BY Zenon
  <2>5. IsFiniteSet(T) /\ S \subseteq T
    BY <1>11, <2>2, <2>4, Zenon
  <2>6. Cardinality(S) <= Cardinality(T)
    BY <2>5, FS_Subset, Zenon
  <2> QED BY <2>3, <2>4, <2>6, Zenon
<1> HIDE DEF b, x
<1>15. ASSUME NEW r \in 1..n
       PROVE  /\ Count(handled', RunsOf(r)) <= Limit(r, sent, inbox')
              /\ Count(published, AnswersTo(r)) + Outstanding(r)' <= Limit(r, sent, inbox') + Breaks
  <2> DEFINE h == Count(handled, RunsOf(r))
             g == Count(handled', RunsOf(r))
             c == Count(published, AnswersTo(r))
             p == Pending(r)
             q == Pending(r)'
             d == Due(r, n, inbox)
             e == Due(r, n, inbox')
             k == Carry
             f == Breaks
  <2>1. /\ h \in Nat /\ (g = h \/ (v = r /\ g = h + 1)) /\ c \in Nat /\ k \in Nat /\ f \in Nat
        /\ p \in {0, 1} /\ q \in {0, 1} /\ d \in {0, 1} /\ e \in {0, 1}
    <3>1. q \in {0, 1} /\ d \in {0, 1} /\ e \in {0, 1}
      BY Zenon DEF Pending, Due
    <3> QED BY <1>1, <1>8, <3>1, TypesAre, Zenon
  <2>2. h <= d + b /\ c + (p + k) <= d + b + f
    BY <1>1, Zenon DEF Repeats, Limit, Outstanding, n, b
  <2>3. d = 1 => e = 1
    BY <1>5, SMTT(20) DEF Due
  <2>4. sent[m] = "good" /\ r = m => d = 0 /\ e = 1
    BY <1>5, Zenon DEF Due
  <2>5. sent[m] = "good" /\ r # m => v # r /\ q = 0
    <3> SUFFICES ASSUME sent[m] = "good", r # m PROVE v # r /\ q = 0
      OBVIOUS
    <3>1. v = m
      BY <1>6, <1>7, Zenon
    <3>2. PICK run : run = [of |-> m, body |-> m]
      BY Zenon
    <3>3. run \in Run /\ run.body = m
      <4>1. m \in Nat
        BY <1>4, <1>5, SMTT(20)
      <4> QED BY <3>2, <4>1 DEF Run
    <3>4. AnswerOf(run) \notin AnswersTo(r)
      BY <3>3, BelongsIs, Zenon
    <3>5. pub' = AnswerOf(run)
      BY <1>8, <3>2, Zenon
    <3> QED BY <3>1, <3>4, <3>5, Zenon DEF Pending
  <2>6. Limit(r, sent, inbox') = e + x /\ Outstanding(r)' = q + k
    BY <1>10, Zenon DEF Limit, Outstanding, n, x
  <2> HIDE DEF h, g, c, p, q, d, e, k, f
  <2>7. g <= e + x /\ c + (q + k) <= e + x + f
    <3>1. CASE sent[m] # "good"
      <4>1. b + 1 <= x
        BY <1>14, <3>1, Zenon
      <4> QED BY <1>13, <2>1, <2>2, <2>3, <4>1, SMTT(20)
    <3>2. CASE sent[m] = "good" /\ r = m
      <4>1. d = 0 /\ e = 1
        BY <2>4, <3>2, Zenon
      <4> QED BY <1>13, <2>1, <2>2, <4>1, SMTT(20)
    <3>3. CASE sent[m] = "good" /\ r # m
      <4>1. v # r /\ q = 0
        BY <2>5, <3>3, Zenon
      <4> QED BY <1>13, <2>1, <2>2, <2>3, <4>1, SMTT(20)
    <3> QED BY <3>1, <3>2, <3>3, Zenon
  <2> QED BY <2>6, <2>7, Zenon DEF g, c, f
<1>16. Repeats'
  BY <1>3, <1>10, <1>15, Zenon DEF Repeats, n
<1> QED BY <1>9, <1>10, <1>16, Zenon DEF MqttInv

\* An answer is published: it was pending, and is no more.
LEMMA PublishKeeps ==
  ASSUME MqttInv, PubConnected, pub.topic # NoRun
  PROVE  MqttInv'
<1> DEFINE n == Len(sent)
<1>1. ListTypes /\ LinkTypes /\ Repeats
  BY Zenon DEF MqttInv
<1>2. /\ place = "pub_loop" /\ link = "opening" /\ link' = "up" /\ published' = Append(published, pub)
      /\ unacked' = unacked + 1 /\ UNCHANGED <<place, sent, inbox, recv, pub, handled, linkFaults>>
  BY Zenon DEF PubConnected
<1>3. published \in Seq(Answers(sent)) /\ pub \in Answers(sent)
  <2>1. AnswerOf(NoRun).topic = NoRun
    BY DEF AnswerOf
  <2> QED BY <1>1, <2>1, Zenon DEF ListTypes
<1>4. published' \in Seq(Answers(sent))
  <2>1. \A S : \A s \in Seq(S) : \A y \in S : Append(s, y) \in Seq(S)
    OBVIOUS
  <2> QED BY <1>2, <1>3, <2>1, Zenon
<1>5. ListTypes'
  BY <1>1, <1>2, <1>4, Zenon DEF ListTypes
<1>6. Carry = unacked /\ Carry' = (unacked + 1) - 1 /\ Breaks' = Breaks
  BY <1>2, Zenon DEF Carry, Waiting, Breaks
<1>7. unacked \in Nat /\ unacked + 1 \in Nat /\ unacked + 1 > 0 /\ (unacked + 1) - 1 = unacked
  <2>1. unacked \in Nat
    BY <1>1, Zenon DEF LinkTypes
  <2> QED BY <2>1, SMTT(20)
<1>8. LinkTypes'
  BY <1>1, <1>2, <1>6, <1>7, Zenon DEF LinkTypes
<1>9. ASSUME NEW r \in 1..n
      PROVE  Count(published', AnswersTo(r)) + Outstanding(r)' = Count(published, AnswersTo(r)) + Outstanding(r)
  <2>1. Pending(r) = (IF pub \in AnswersTo(r) THEN 1 ELSE 0) /\ Pending(r)' = 0
    BY <1>2, Zenon DEF Pending, ToPublish
  <2>2. /\ pub \in AnswersTo(r) => Count(published', AnswersTo(r)) = Count(published, AnswersTo(r)) + 1
        /\ pub \notin AnswersTo(r) => Count(published', AnswersTo(r)) = Count(published, AnswersTo(r))
    BY <1>2, <1>3, CountAppend, Zenon
  <2>3. Count(published, AnswersTo(r)) \in Nat
    BY <1>1, TypesAre, Zenon
  <2>4. PICK c, e, p : c = Count(published, AnswersTo(r)) /\ e = Count(published', AnswersTo(r)) /\ p = Pending(r)
    BY Zenon
  <2>5. c \in Nat /\ ((p = 1 /\ e = c + 1) \/ (p = 0 /\ e = c))
    BY <2>1, <2>2, <2>3, <2>4, Zenon
  <2>6. e + (0 + unacked) = c + (p + unacked)
    BY <1>7, <2>3, <2>4, <2>5, SMTT(20)
  <2> QED BY <1>6, <1>7, <2>1, <2>4, <2>6, Zenon DEF Outstanding
<1>10. Repeats'
  BY <1>1, <1>2, <1>6, <1>9, Zenon DEF Repeats
<1> QED BY <1>5, <1>8, <1>10, Zenon DEF MqttInv

\* Every step keeps the invariant.
LEMMA MqttInvStep == MqttInv /\ [MqttNext]_qttvars => MqttInv'
<1> SUFFICES ASSUME MqttInv, [MqttNext]_qttvars PROVE MqttInv'
  OBVIOUS
<1>1. CASE UNCHANGED qttvars
  BY <1>1, Zenon DEF qttvars, MqttInv, ListTypes, LinkTypes, Repeats, Breaks, Outstanding, Carry, Waiting, Pending,
        ToPublish
<1>2. CASE SubConnected
  <2>1. (link' = "up" /\ NoFault) \/ FaultOf("refused")
    BY <1>2, Zenon DEF SubConnected
  <2> QED BY <1>2, <2>1, LoopKeeps, TroubleKeeps, Zenon
<1>3. CASE PubLost
  <2>1. link = "opening" \/ (link = "up" /\ FaultOf("lost"))
    BY <1>3, Zenon DEF PubLost
  <2> QED BY <1>3, <2>1, LoopKeeps, TroubleKeeps, Zenon
<1>4. CASE PubConnected
  BY <1>4, LoopKeeps, PublishKeeps, Zenon
<1>5. CASE PubAcked
  BY <1>5, AckKeeps, Zenon
<1>6. CASE message_callback_duplex_func
  BY <1>6, ReceiveKeeps, Zenon
<1>7. CASE \E kind \in Kind : Send(kind)
  BY <1>7, SendKeeps, Zenon
<1> QED BY <1>1, <1>2, <1>3, <1>4, <1>5, <1>6, <1>7, LoopKeeps, Zenon DEF MqttNext

\* The invariant bounds what was answered, and to whom.
LEMMA MqttInvSays == MqttInv => AnswersAreDue
<1> SUFFICES ASSUME MqttInv PROVE AnswersAreDue
  OBVIOUS
<1>1. ListTypes /\ LinkTypes /\ Repeats /\ sent \in Seq(Kind)
  BY Zenon DEF MqttInv, ListTypes
<1>2. AnswerToAsker
  <2>1. ASSUME NEW i \in DOMAIN published
        PROVE  /\ published[i].message = published[i].topic /\ published[i].message # NoRun
               /\ published[i].message.of # published[i].message.body => sent[published[i].message.of] = "empty"
    <3>1. published[i] \in Answers(sent)
      BY <1>1, SeqIs, Zenon DEF ListTypes
    <3>2. PICK x \in Proper(sent) : published[i] = AnswerOf(x)
      BY <3>1, Zenon DEF Answers
    <3>3. published[i].message = x /\ published[i].topic = x
      BY <3>2, SMTT(20) DEF AnswerOf
    <3> QED BY <1>1, <3>3, ProperIs, Zenon
  <2> QED BY <2>1, Zenon DEF AnswerToAsker
<1>3. RepeatsBounded
  <2> DEFINE B == {r \in 1..Len(sent) : sent[r] # "good"}
  <2>1. Len(sent) \in Nat /\ Breaks \in Nat
    BY <1>1, TypesAre, Zenon
  <2>2. IsFiniteSet(B) /\ Cardinality(B) \in Nat /\ Cardinality(Bad(sent, inbox)) <= Cardinality(B)
    <3>1. B \subseteq 1..Len(sent) /\ IsFiniteSet(1..Len(sent)) /\ Bad(sent, inbox) \subseteq B
      <4>1. IsFiniteSet(1..Len(sent))
        BY <2>1, FS_Interval, SMTT(20)
      <4>2. B \subseteq 1..Len(sent) /\ Bad(sent, inbox) \subseteq B
        BY Zenon DEF Bad, Left
      <4> QED BY <4>1, <4>2, Zenon
    <3> QED BY <3>1, FS_Subset, FS_CardinalityType, Zenon
  <2> HIDE DEF B
  <2>3. Troubles = Breaks + Cardinality(B)
    BY Zenon DEF Troubles, Requests, Breaks, B
  <2>4. ASSUME NEW r \in 1..Len(sent)
        PROVE  Count(handled, RunsOf(r)) <= 1 + Troubles /\ Count(published, AnswersTo(r)) <= 1 + Troubles
    <3>1. /\ Count(handled, RunsOf(r)) <= Due(r, Len(sent), inbox) + Cardinality(Bad(sent, inbox))
          /\ Count(published, AnswersTo(r)) + Outstanding(r)
               <= Due(r, Len(sent), inbox) + Cardinality(Bad(sent, inbox)) + Breaks
      BY <1>1, Zenon DEF Repeats, Limit
    <3>2. /\ Count(handled, RunsOf(r)) \in Nat /\ Count(published, AnswersTo(r)) \in Nat /\ Outstanding(r) \in Nat
          /\ Cardinality(Bad(sent, inbox)) \in Nat /\ Due(r, Len(sent), inbox) \in {0, 1}
      BY <1>1, TypesAre, BadIs, Zenon DEF Due
    <3>3. \A h, c, b, x, f, p \in Nat : \A d \in {0, 1} :
            h <= d + b /\ c + p <= d + b + f /\ b <= x => h <= 1 + (f + x) /\ c <= 1 + (f + x)
      OBVIOUS
    <3> QED BY <2>1, <2>2, <2>3, <3>1, <3>2, <3>3, Zenon
  <2> QED BY <2>4, Zenon DEF RepeatsBounded, Requests
<1> QED BY <1>2, <1>3, Zenon DEF AnswersAreDue

\* The MQTT server answers who asked, and as often as is due
\* (duplex_callback.c:109, duplex_utils.c:163).
THEOREM AnswersStayDue == MqttSpec => []AnswersAreDue
<1>1. MqttInit /\ [][MqttNext]_qttvars => []AnswersAreDue
  BY MqttInvInit, MqttInvStep, MqttInvSays, PTL
<1> QED BY <1>1, PTL DEF MqttSpec
=============================================================================
