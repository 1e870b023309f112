-------------------------------- MODULE Obd --------------------------------
(***************************************************************************)
(* The OBD-II monitor of the endpoint and the emulator of a car it is      *)
(* tested with: two processes on one CAN bus.  The monitor asks for every  *)
(* entry of the PID table with a broadcast frame and takes the next frame  *)
(* it reads, whoever sent it, for the answer; the identification number    *)
(* comes in a first frame and, after a flow-control frame of the monitor,  *)
(* in consecutive ones.  When the table is filled the readings are packed  *)
(* and handed to the endpoint service.                                     *)
(*                                                                         *)
(* A frame is [kind, pid, part]: its type nibble, the PID it answers and   *)
(* which part of the identification number it carries.  The bytes of the   *)
(* readings are left out.                                                  *)
(***************************************************************************)
EXTENDS Integers, Sequences

CONSTANTS
  Sensor,      \* the PIDs of service 01, in the order of the table
  MaxNoise,    \* bound on answers of a second control unit
  MaxFaults    \* bound on failed reads of the two sockets

VARIABLES
  toMonitor,   \* frames in the receive queue of the monitor's socket
  toEmulator,  \* frames in the receive queue of the emulator's socket
  monitor,     \* "query", "read", "pack", "done", "crashed"
  next,        \* index of the PID table entry that is asked
  frame,       \* frame_recv of get_obd_datasets
  append_data, \* the static counter of obd_message
  entry,       \* the OBD_data_t that is being filled
  table,       \* obd2_data_table: PID -> entry
  handed,      \* what the endpoint service was given
  emulator,    \* "serve" or "flow": waits for a flow-control frame
  noise, faults

ovars == <<toMonitor, toEmulator, monitor, next, frame, append_data, entry, table, handed, emulator, noise, faults>>

Vin == "VEHICLE_IDENTIFICATION_NUMBER"

\* PIDS: the identification number is the first entry of the table.
PIDS == <<Vin>> \o Sensor

\* OBD_EMULATOR_DEFAULT_VIN_LEN, and the length the first frame announces (0x14).
VinLen == 17

Announced == 20

\* The PIDs of service 01 are names, and none is that of service 09.
ASSUME ObdAssumption ==
  /\ Sensor \in Seq(STRING) /\ \A i \in DOMAIN Sensor : Sensor[i] # Vin
  /\ MaxNoise \in Nat /\ MaxFaults \in Nat

Frame(kind, pid, part) == [kind |-> kind, pid |-> pid, part |-> part]

\* A frame of zeros: its type nibble says SINGLE.
Zero == Frame("single", "none", 0)

\* memset(obd_data, 0, ...): no buffer yet.
NoData == [data_len |-> 0, data |-> <<>>]

ObdInit ==
  /\ toMonitor = <<>> /\ toEmulator = <<>>
  /\ monitor = "query" /\ next = 1
  /\ frame = Zero /\ append_data = 0 /\ entry = NoData
  /\ table = <<>> /\ handed = <<>>
  /\ emulator = "serve"
  /\ noise = 0 /\ faults = 0

-----------------------------------------------------------------------------
(* The monitor. *)

\* obd_query up to its read: the frame is cleared and the query is broadcast.
\* The result of can_send is not looked at.
obd_query ==
  /\ monitor = "query"
  /\ toEmulator' = Append(toEmulator, Frame("query", PIDS[next], 0))
  /\ frame' = Zero /\ entry' = NoData
  /\ monitor' = "read"
  /\ UNCHANGED <<toMonitor, next, append_data, table, handed, emulator, noise, faults>>

\* Mutant: an answer of zeros is not stored.
PutSome(e) ==
  /\ table' = IF e.data = <<Zero>> THEN table ELSE Append(table, [asked |-> PIDS[next], data |-> e.data])
  /\ entry' = e
  /\ monitor' = IF next < Len(PIDS) THEN "query" ELSE "pack"
  /\ next' = next + 1

\* le_hashmap_Put of the finished entry, and the next round of the loop.
Put(e) ==
  /\ table' = Append(table, [asked |-> PIDS[next], data |-> e.data])
  /\ entry' = e
  /\ monitor' = IF next < Len(PIDS) THEN "query" ELSE "pack"
  /\ next' = next + 1

\* Mutant: a frame that would fill the buffer is not waited for.
CompleteEarly(e, n) == e.data_len - 7 <= n

\* The message is complete when the bytes copied are the bytes announced.
Complete(e, n) == e.data_len = n

\* Mutant: the flow-control frame is forgotten.
FlowControlNone(f) == <<>>

\* The frame obd_message sends after a first frame.
FlowControl(f) == IF f.kind = "first" THEN <<Frame("flow", f.pid, 0)>> ELSE <<>>

\* Mutant: the first frame's six bytes are not counted.
CopiedSeven(f) == IF f.kind \in {"first", "consecutive"} THEN 7 ELSE 0

\* The bytes a frame adds to a message of several frames.
Copied(f) == CASE f.kind = "first" -> 6 [] f.kind = "consecutive" -> 7 [] OTHER -> 0

\* The entry after the frame: a single frame or a first frame replaces the
\* buffer, a consecutive one is copied behind what is there.
Filled(f) ==
  CASE f.kind = "single" -> [data_len |-> 8, data |-> <<f>>]
    [] f.kind = "first" -> [data_len |-> Announced, data |-> <<f>>]
    [] f.kind = "consecutive" -> [entry EXCEPT !.data = Append(@, f)]

\* obd_message for the frame f: stores it, asks for the rest after a first
\* frame, and ends or reads the next frame.  Copying into a buffer that was
\* never allocated, or past the one that was, ends the process.
obd_message(f) ==
  LET e == Filled(f)
      n == append_data + Copied(f) IN
  /\ frame' = f
  /\ \/ /\ f.kind = "single"
        /\ Put(e)
        /\ UNCHANGED <<toEmulator, append_data>>
     \/ /\ f.kind # "single"
        /\ e.data_len < n
        /\ monitor' = "crashed"
        /\ UNCHANGED <<toEmulator, append_data, entry, table, next>>
     \/ /\ f.kind # "single"
        /\ e.data_len >= n
        /\ append_data' = n
        /\ toEmulator' = toEmulator \o FlowControl(f)
        /\ \/ Complete(e, n) /\ Put(e)
           \/ ~Complete(e, n) /\ entry' = e /\ UNCHANGED <<monitor, next, table>>

\* can_recv blocks until a frame is there; nothing tells an answer to this
\* query from any other frame.
ReadFrame ==
  /\ monitor = "read" /\ toMonitor # <<>>
  /\ toMonitor' = Tail(toMonitor)
  /\ obd_message(Head(toMonitor))
  /\ UNCHANGED <<handed, emulator, noise, faults>>

\* read() fails: obd_query and obd_message go on with what frame_recv holds,
\* zeros after a query, the frame before within a message.
ReadFails ==
  /\ monitor = "read" /\ faults < MaxFaults
  /\ faults' = faults + 1
  /\ obd_message(frame)
  /\ UNCHANGED <<toMonitor, handed, emulator, noise>>

\* What create_obd2_flatbuffer packs: the identification number out of its
\* entry; for a sensor the bytes of the entry itself, its pointer and length,
\* since hex_to_obd_data is given the OBD_data_t and not its data.
Packed(e) == [e EXCEPT !.data = IF e.asked = Vin THEN e.data ELSE <<Frame("entry", "none", 0)>>]

\* create_obd2_flatbuffer, free_obd_hashmap_datasets, the call of the endpoint
\* service, whose result is only logged, and the end of the process.
get_obd_datasets ==
  /\ monitor = "pack"
  /\ handed' = [i \in 1..Len(table) |-> Packed(table[i])]
  /\ monitor' = "done"
  /\ UNCHANGED <<toMonitor, toEmulator, next, frame, append_data, entry, table, emulator, noise, faults>>

-----------------------------------------------------------------------------
(* The emulator, and the rest of the car. *)

\* The consecutive frames: seven bytes each until every byte is sent.
Rest == [i \in 1..((VinLen - 3) \div 7) |-> Frame("consecutive", Vin, i)]

\* A sensor is answered by one frame.
service_01_response(pid) ==
  /\ pid # Vin
  /\ toMonitor' = Append(toMonitor, Frame("single", pid, 0))
  /\ UNCHANGED emulator

\* send_vin_message up to its read: the identification number begins with the
\* first frame.
service_09_response(pid) ==
  /\ pid = Vin
  /\ toMonitor' = Append(toMonitor, Frame("first", Vin, 0))
  /\ emulator' = "flow"

\* The main loop: a broadcast query is answered by its service, every other
\* frame is passed over.  A failed read goes round the loop.
Serve ==
  /\ emulator = "serve" /\ toEmulator # <<>>
  /\ LET q == Head(toEmulator) IN
     /\ toEmulator' = Tail(toEmulator)
     /\ \/ q.kind = "query" /\ (service_01_response(q.pid) \/ service_09_response(q.pid))
        \/ q.kind # "query" /\ UNCHANGED <<toMonitor, emulator>>
  /\ UNCHANGED <<monitor, next, frame, append_data, entry, table, handed, noise, faults>>

\* send_vin_message after its first frame: the next frame read is taken for the
\* flow control; if it is something else the rest is not sent.
send_vin_message ==
  /\ emulator = "flow" /\ toEmulator # <<>>
  /\ toEmulator' = Tail(toEmulator)
  /\ toMonitor' = IF Head(toEmulator).kind = "flow" THEN toMonitor \o Rest ELSE toMonitor
  /\ emulator' = "serve"
  /\ UNCHANGED <<monitor, next, frame, append_data, entry, table, handed, noise, faults>>

\* Its read fails: a frame of zeros is no flow control.
FlowReadFails ==
  /\ emulator = "flow" /\ faults < MaxFaults
  /\ faults' = faults + 1
  /\ emulator' = "serve"
  /\ UNCHANGED <<toMonitor, toEmulator, monitor, next, frame, append_data, entry, table, handed, noise>>

\* A second control unit answers the broadcast query that is on the bus: both
\* sockets receive the frame.
SecondUnit ==
  /\ monitor = "read" /\ noise < MaxNoise
  /\ noise' = noise + 1
  /\ toMonitor' = Append(toMonitor, Frame("single", PIDS[next], 1))
  /\ toEmulator' = Append(toEmulator, Frame("single", PIDS[next], 1))
  /\ UNCHANGED <<monitor, next, frame, append_data, entry, table, handed, emulator, faults>>

ObdNext ==
  \/ obd_query
  \/ ReadFrame
  \/ ReadFails
  \/ get_obd_datasets
  \/ Serve
  \/ send_vin_message
  \/ FlowReadFails
  \/ SecondUnit

\* Two processes that run whenever they can.
ObdSpec ==
  /\ ObdInit /\ [][ObdNext]_ovars
  /\ WF_ovars(obd_query) /\ WF_ovars(ReadFrame) /\ WF_ovars(get_obd_datasets)
  /\ WF_ovars(Serve) /\ WF_ovars(send_vin_message)

-----------------------------------------------------------------------------
Kinds == {"single", "first", "consecutive", "flow", "query"}

FrameType == [kind : Kinds, pid : {Vin, "none"} \cup {Sensor[i] : i \in DOMAIN Sensor}, part : 0..2]

\* Types, and the fill level: the bytes counted in append_data (monitor.c:168)
\* stay within what the first frame announced.
ObdTypeOK ==
  /\ toMonitor \in Seq(FrameType) /\ toEmulator \in Seq(FrameType)
  /\ monitor \in {"query", "read", "pack", "done", "crashed"}
  /\ next \in 1..(Len(PIDS) + 1)
  /\ frame \in FrameType
  /\ append_data \in 0..Announced
  /\ entry.data_len \in {0, 8, Announced}
  /\ Len(table) = next - 1
  /\ emulator \in {"serve", "flow"}
  /\ noise \in 0..MaxNoise /\ faults \in 0..MaxFaults

Quiet == noise = 0 /\ faults = 0

\* The whole identification number, in order.
WholeVin == <<Frame("first", Vin, 0)>> \o Rest

\* On a bus where only the emulator answers and no read fails, every entry the
\* monitor stores is the answer to the query it was asked with, and the
\* identification number is whole and in order (monitor.c:163, obd_message; the
\* monitor has no filter, the property rests on one answer per query).
AnswersMatch ==
  Quiet => \A i \in DOMAIN table :
    LET e == table[i] IN
    IF e.asked = Vin THEN e.data = WholeVin ELSE e.data = <<Frame("single", e.asked, 0)>>

\* A frame is only copied into a buffer that has room for it unless the bus
\* carried a foreign answer or a read failed (monitor.c:197).
NoOverrun == Quiet => monitor # "crashed"

\* Alone with the emulator the monitor stores what was answered, and only where
\* there is room for it (monitor.c:163, monitor.c:197).
ReadingsMatch == AnswersMatch /\ NoOverrun

\* A monitor alone with the emulator that meets no fault asks for the whole table
\* and hands it to the endpoint service (monitor.c:243): neither waits for a frame
\* the other will not send.  A foreign answer to the first query breaks it: the
\* emulator takes it for the flow control and never sends the rest.
MonitorFinishes == monitor = "read" ~> (monitor = "done" \/ ~Quiet)

\* "The obd2 service for sending OBDII message to Tangle-accelerator."
\* (monitor.c:271): what is handed to the endpoint service is what the control
\* unit answered.
ReadingsAreSent == monitor = "done" => \A i \in DOMAIN table : handed[i].data = table[i].data
=============================================================================
