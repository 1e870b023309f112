# Formal models of tangle-accelerator

tangle-accelerator is a caching proxy in front of an IOTA full node. Clients reach it
over HTTP (or MQTT). It builds transfers, does the proof of work, sends bundles to a full
node, and keeps in redis what it could not send. This directory holds TLA+ models of it,
TLC configurations that check them, and TLAPS proofs.

`PROJECT.json` is the index: which definition models which lines of the source, which
properties each run checks, the hazards found while reading the code, the disagreements
between code and documentation, and the theorems.

## The system

| Part | State | Operations | Talks to |
|---|---|---|---|
| Transaction buffer (`core.c`, `periodical_task.c`) | redis lists `buffer_list`, `complete_list`, one list per UUID | `push_txn_to_buffer`, `ta_fetch_txn_with_uuid`, `broadcast_buffered_txn`, eviction in `health_track` | redis, full node, the rwlock |
| MAM request buffer (`apis.c`, `core.c`, `periodical_task.c`) | two redis lists, one value per UUID (request, then result) | `api_send_mam_message`, `ta_fetch_mam_with_uuid`, `broadcast_buffered_send_mam_request` | redis, the rwlock, MAM channels |
| Redis client (`backend_redis.c`) | one connection, one rwlock | LPUSH, LPOP, LINDEX, LLEN, GET, SET, DEL, INFO | redis |
| Health track, node failover (`periodical_task.c`, `core.c`) | `iota_service.http.host/port` | `ta_get_node_status`, `ta_update_full_node_connection` | full nodes, HTTP threads |
| Transfers and queries (`core.c`, `apis.c`) | none of their own | `ta_send_transfer`, `ta_find_transaction_objects`, `ta_get_bundle`, ... | full node, transaction buffer, identity table |
| Proof of work (`pow.c`) | the bundle | `ta_pow` | dcurl |
| MAM channels (`mam_core.c`) | MAM state file, channel and endpoint ordinals | `ta_send_mam_message`, `ta_recv_mam_message`, `ta_register_mam_channel` | full node, file system |
| HTTP server (`http.c`) | request body per connection | chunk assembly, routing | all APIs |
| MQTT (`connectivity/mqtt`) | one configuration object | subscribe, callback, publish | all APIs |
| Configuration, runtime CLI (`config.c`, `runtime_cli.c`) | `ta_core_t` | default, file, CLI values; changes at run time | every thread |
| Reattacher, identity table, permanode (`reattacher`, `storage`) | ScyllaDB tables | insert, select, update, reattach loop | ScyllaDB, full node |
| Endpoint (`endpoint`) | device key, configuration file | encrypt and send a message, TLS connection | tangle-accelerator |
| OBD monitor and emulator (`endpoint/OBDComp`) | table of readings | query, multi-frame answer | CAN bus, endpoint |
| Serializers, request objects (`core/serializer`, `core/request`, `core/response`) | none of their own | read and write JSON | all APIs |
| Timer (`timer.c`) | one POSIX timer, one thread | start, reset, stop | |

What makes it hard: the HTTP threads and the health thread run the same redis lists
without a transaction, one command at a time. The lock is only tried, never waited for.
It protects some of the accesses: pushes and the second half of a fetch run without it.
An error path may return with the lock held. The process may die between two commands
while redis keeps its lists. Lists are stacks, so order depends on how often something
was stored.

## Modules

| Module | What it is |
|---|---|
| `BackendRedis` | redis list commands on one key, and the process-wide `pthread_rwlock` |
| `TxnBuffer` | the transaction buffer: HTTP threads, health thread, error replies, crashes |
| `RequestLifecycle` | what the buffer promises for one request: its stages, and that it is handed out once |
| `MCTxnBuffer` | instances of `TxnBuffer` for TLC |
| `MamBuffer` | the MAM request buffer, on the same lock |
| `MCMamBuffer` | instances of `MamBuffer` for TLC |
| `MamChannel`, `MCMamChannel` | one-time keys, channels, announcements, the MAM file |
| `Reattacher`, `Permanode`, `MCStorage` | the ScyllaDB tables and the processes that write and search them |
| `Server` | `main()`, the health, worker and command threads, node failover, shutdown |
| `HttpApi` | one HTTP connection and the API behind it, stage by stage |
| `Timer`, `MCServer` | a callback with a time limit; the instances of these three |
| `Mqtt` | the duplex MQTT client and its two connections |
| `Obd` | the OBD-II monitor and the emulator on one bus |
| `Endpoint`, `MCDevice` | the key file and one send of a device; the instances of these three |
| `Config` | defaults, file and command line |
| `Query` | searches for transactions and bundles |
| `Serializer`, `MCData` | request and response objects in and out of JSON; the instances of these three |
| `TxnBufferSafety_proofs` | invariants of `TxnBuffer` and the steps that keep them, its refinement included |
| `TxnBuffer_proofs` | type correctness of `TxnBuffer`, and its theorems |
| `MamBuffer_proofs` | theorems about `MamBuffer` |
| `MamChannel_proofs` | theorems about `MamChannel` |
| `Storage_proofs` | theorems about `Reattacher` and `Permanode` |
| `Server_proofs` | theorems about `Server`, `HttpApi` and `Timer` |
| `Device_proofs` | theorems about `Endpoint`, `Obd` and `Mqtt` |
| `Data_proofs` | theorems about `Config`, `Query` and `Serializer` |

### `BackendRedis`

A list is a sequence whose head is the redis head; a missing key is the empty sequence,
as in redis. `list_push` is LPUSH, `list_pop` LPOP, `list_has`/`list_at` LINDEX.
`list_exist_step` is one turn of the loop in `redis_list_exist`: that loop is several
commands and other threads act between them. `writer` and `readers` are the rwlock.
`MaxReaders` is the number of read locks it can hold before `tryrdlock` says `EAGAIN`.
A redis command is atomic because redis runs one command at a time. The shared hiredis
connection is assumed to keep replies apart.

### `TxnBuffer`

State and code:

| Variable | Code |
|---|---|
| `buffer`, `complete` | the lists `buffer_list_name`, `complete_list_name` |
| `bundle[u]` | the list under UUID `u`; a transaction is its place in the bundle and the place of its trunk |
| `req[t]` | HTTP thread `t`: `pc`, the UUID, loop index and length, `exist` and error of the scan, the bundle read |
| `h` | the health thread: `pc`, the local `uuid` of `broadcast_buffered_txn`, loop index and length, the trytes read, and `evict`, the local `uuid` of `health_track` |
| `faults`, `crashes` | how many error replies and crashes there were |
| `issued` ... `delivered` | history; no action reads it |

Every redis command and every lock call is one action, named for what the code does
there. `Enter` leaves one part of the health thread's round for another; after an error
this is the eviction loop, as in `health_track`. `FetchFails`, `PushFails`,
`BroadcastFails` and `EvictFails` are error replies, each with what the error path at that
point does: which ones release the lock is the point. `NodeFails` is a full node that
does not answer. It is not counted as a fault, since it is the reason the buffer exists.
`Crash` is the end of the process at any step: redis keeps its lists, the lock and the
threads start afresh. The MAM buffer is reduced to what it does to the lock.

UUIDs are never reused (`uuid_generate_random`). A fetch is for a UUID some client was
told. Occupied memory is counted in stored bundles.

### `MamBuffer`

`buffer` and `complete` are `mam_buffer_list_name` and `mam_complete_list_name`; `value[u]` is
what is stored under UUID `u`: the request, the result, or nothing. `req[t]` and `h` are the
threads as in `TxnBuffer`. The transaction buffer is reduced to what it does to the lock,
leaked locks included (`FetchTxn`, `NotInTxnLists`, `TxnScanFails`; `BroadcastTxn`,
`BroadcastTxnDone`), and `ta_send_mam_message` to its outcome. That has four cases, and the
code tells only two apart: `Publish` is SC_OK, with the message on a full node or not, since
`ta_send_bundle` drops the error of `ta_send_trytes` (history variable `swallowed`);
`PublishFails` is an error, before the message was sent or after it. `SetRequest` and
`SetResult` succeed when SET gets an error reply, as `redis_set` does. Values do not expire:
`cache.timeout` is never assigned, so SET is sent without EX.

### `MamChannel`

`tangle` is every bundle that was signed and sent, `view` what the connected full node shows
of it (`ChangeNode`, `Gossip`), `file` the MAM file, `s` and `r` the locals of
`ta_send_mam_message` and `ta_recv_mam_message`. A channel is the record its id is derived
from (seed, depth, ordinal), a message id a channel and a key. `FindStart`, `FetchAndWrite`,
`SendMessage`, `Announce`, `SaveBegin` and `SaveEnd` are the calls of a send at which another
thread, a node or a crash can come in between. `lost` records what was signed and never
arrived, `lagged` that the service has been with a node that lacked bundles.

### `Reattacher` and `Permanode`

`identity` is the identity table as a set of rows; a write with the same key replaces the row
(`Upsert`). `sending[t]` is the request of a transfer in the accelerator, `worker` and `batch`
the loop of the reattacher, one action per call to the node or the database. `CheckInclusion`,
`Replay` and `WriteHash` are the calls a kill can separate. The insert after a transfer exists
in builds with `DB_ENABLE`. `Permanode` has the transaction rows, the approvees recorded per
hash, the stage of each insertion and one search; a failed statement may have been applied.

### `Server`, `HttpApi`, `Timer`

`Server` walks `phase` from the options to the exit; `handling` is the signal handler, which
joins the HTTP workers. `service` is the host and port the health thread writes one after the
other and the workers copy one after the other. `node` is what each entry of the priority list
answers and how far it lags behind. `HttpApi` has the calls libmicrohttpd makes: headers,
chunks, end, completion. `Stages` lists for every API the steps it passes through and the
statuses they can end with; `effect` is what it has done so far. A JSON body is a sequence of
chunks. `Timer` has the caller, the callback's thread, the handler and `timer_lock`; `stale`
records a read of a timer that was freed or a thread id that was not yet set.

### `Mqtt`, `Obd`, `Endpoint`

`Mqtt`: `place` is where the one thread is, `link` its connection, `recv` and `pub` the fields
of the shared configuration object. A run of an API is the message its topic came with and the
request its body is of: a message without a payload leaves the body of the one before. `unacked`
counts answers that the broker has not acknowledged. Both halves use one mosquitto object and
QoS 1, so libmosquitto sends such an answer again on a later connection, and the acknowledgement
ends that connection (`PubAcked`), also when it is the subscriber's. `Obd`: the receive queues of the two sockets, the
monitor's table and the static counter of `obd_message`; a frame is its type, PID and part.
`Endpoint`: `step` walks `send_mam_message`, `msg` holds the lengths after each conversion as
the code computes them, `heap` the live allocations. `keyfile` is the key file as processes see
it, `disk` what a loss of power leaves of it, `device_key` the key in memory. `fclose` does not
flush to the disk; the kernel does so some time later (`WriteBack`). `ProcessEnds` loses the memory
only, `PowerLoss` also what was not written back.

### `Config`, `Query`, `Serializer`

`Config` applies settings one at a time to `core`. It has eight options that differ in how they
are parsed and stored; every other case of `cli_core_set` stores one field in one of these ways.
`errno` is kept since the code never clears it. `Query` has the node's transactions, those in the
cache, and the arrays of a query in progress. `Serializer` reads a document field by field in the
order of the code; a text is a length and a kind, and `heap` is what the object owns. A MAM payload
is a text with a time stamp or one too short for it; `Split` is what the serializer makes of each.

The components of one MC module share no data, so each behaviour runs one of them (`active`)
and the others rest in an initial state.

## Runs

| Run | Instance | Shows |
|---|---|---|
| `txn_buffer` | 2 threads, 2 UUIDs, bundles of 2, capacity 1 | `TypeOK`, `MoveUnseen`, `Conservation`, `ListsAreRight`, `FetchTellsTruth` |
| `txn_buffer_faults` | 1 thread, 2 UUIDs, 1 error reply, 1 crash | `SafeUnderFaults` (the five together) and `ImplementsLifecycle` |
| `txn_buffer_live` | 1 thread, 2 UUIDs, capacity 2, fair | `BufferDrains` |

`MoveUnseen`: no scan runs during a move. `Conservation`: a UUID is in exactly one place, once.
`ListsAreRight`: the sent list holds sent requests, except those that overtook the peeked one
(`SentUnlessOvertaken`), and a waiting request has its bundle (`BufferedHasBundle`).
`FetchTellsTruth`: the answer UNSENT is not stale (`UnsentIsCurrent`), the answer SENT carries every
transaction (`SentIsWhole`), and a request is handed out once (`DeliveredOnce`).

| Run | Instance | Shows |
|---|---|---|
| `mam_buffer` | 2 threads, 2 UUIDs, 1 error reply or 1 crash | `TypeOK`, `MoveUnseen`, `Conservation`, `MovedIsPublished`, `ResultOnce` |
| `mam_buffer_live` | 1 thread, 2 UUIDs, fair | `BufferDrains` |

The first three as above. `MovedIsPublished`: a message no full node has is moved only by overtaking
or by the dropped error. `ResultOnce`: a fetch hands out a result and not a request, unless overtaken
(`AnswerIsResult`), once (`AnsweredOnce`), and the result stays until then in behaviours without error
reply or crash (`ResultKept`).

The bounds: two UUIDs are needed for one to overtake the other and for a pop to take the
wrong one; two threads for two fetches to race; bundles of two for order and for a
half-written bundle; capacity 1 with two bundles makes the eviction loop run. A third UUID
in `txn_buffer` passes as well, with 19.6 million states, and is left out for its time. With faults one
thread is enough to leak each lock, and the health thread is the second actor. A second error
reply, during the recovery from the first, was tried as well: `txn_buffer_faults` passes in six
minutes, and `mam_buffer` (without `ResultKept`, with three read locks) in nine. `OneTrouble` keeps
`mam_buffer` to an error reply or a crash, and to one error of the full node that is swallowed. A second
swallowed one passes too, with 2.4 million states, and an error reply and a crash in one behaviour with
4.4 million.

| Run | Instance | Shows |
|---|---|---|
| `mam_channel` | 1 client seed and the node's own, depths 1 and 2, 3 messages, 1 read, 1 crash or failed call | one-time keys and announcements |
| `storage` | 2 transfers with 3 attachments, 1 fault; 3 stored transactions, 2 columns, limit 2, 1 fault | identity table and permanode |
| `server` | 2 nodes, 1 worker, 2 changes of a node, 1 command; 1 request of up to 3 chunks; a callback that ends and one that does not | process, HTTP, timer |
| `device` | 3 requests, 2 link faults; 2 sensors, 1 foreign frame, 1 failed read; 4 lengths around a block and the buffer, 2 power losses | MQTT, OBD, endpoint |
| `data` | 3 options and a file of 1; 2 bundles attached twice, limit 1, 2 hashes; texts of up to 3 | configuration, queries, documents |

A property of a run is often the conjunction of a few that say one thing together; the parts are in
brackets. `TypesOK` is the conjunction of the type invariants.

- `mam_channel`: `SpentKeyRests` (unless a node lagged, a key with a bundle on the Tangle signs nothing
  else, published or lost, whatever crashes, although no record of used keys is kept);
  `ReaderMissesNone` (`SmallestKey`: no key below a used one is free; `Announced`: a channel in use was
  announced, or its announcement was lost); `NoChid1IsEnd` (a reader that is given no next channel is at
  the end); `SendEnds`.
- `storage`: `RowsMatchTangle` (`AnsweredIsFound`: the UUID of an answered transfer finds one attachment
  of it at every later time; `ReportedIsConfirmed`; `OneOrphanPerFault`: a fault costs at most one
  attachment no row knows); `RenewedWhenDue` (`NewestIsPersistent`: not before; `PendingEnds`: in the
  end); `SearchIsRight` (`FoundIsHeld`, `FoundIsComplete`, `FoundMatchesAll`, `InsertedIsRecorded`).
- `server`: `SharedStateAgrees` (`WorkersJoined`: the core is destroyed after the last answer;
  `MixedOnlyInRace`: host and port of two entries are combined only by a copy during the write;
  `LoggersMatchOption`); `StatusIsTrue` (`BodyWhole`, `OkIsComplete`, `BadRequestHasNoEffect`,
  `TransferAnswered`); `TimerIsSafe` (`ExpiredIsCancelled`; `CancelledIsLive`: a handler that has cancelled the
  callback no longer reads the timer when it is freed); `FailoverConverges`; `EveryoneEnds` (`StopEnds`;
  `RequestEnds`: a request ends unless the server waits for its client or for a service for ever;
  `FreedUnlessAborted`; `TimerStops`).
- `device`: `AnswersAreDue` (`AnswerToAsker`: topic and text are of one run, which ran on another body
  than its own only for an empty message; `RepeatsBounded`: handled and published once, and once more at
  most for each bad request, refused connection and missing acknowledgement); `ReadingsMatch` (`AnswersMatch`,
  `NoOverrun`, on a bus without foreign frames and failed reads); `SendOutcome` (`OkIsAnswered`,
  `Released`); `KeySurvives` (the key written last is in use, or after a loss of power that came before
  it was on the disk an older one); `EveryoneEnds` (`ListensAgain`; `MonitorFinishes`, on such a bus;
  `SendReturns`: a send returns, waits for its peer for ever, or turns in the handshake loop).
- `data`: `ConfigAsGiven` (`ServiceIsFirst`, `TailOfLongerList`, `LastNumberCounts`, `CacheIsConfigured`,
  `FileIsRead`); `QueryIsRight` (`FoundAreAsked`, `AsksWithinLimit`, `BundlesAreAttachments`,
  `EachBundleOnce`); `ReadIsRight` (`TransferUsable`: tag and message, not the address; `MamUsable`;
  `ResponseSurvives`); `FreedOnEveryPath`.

Several state an exception in their last disjunct: that is what the code does not guarantee, and the
comment names the line. The bounds: depth 1 has a single message key before the announcement and
depth 2 a search among keys; two nodes are needed for a failover; three chunks for one that crosses
`MAX_REQUEST_LEN` between two others; two attachments of a bundle to be mixed up; the lengths 15, 16,
1023 and 1024 lie on both sides of a cipher block and of `MAX_MSG_LEN`. `CHECK_DEADLOCK FALSE`
is set where programs end (`server`, `device`, `data`) or the bounds run out.

Two runs state what a comment says, and TLC finds what the code does instead. Each is a finding in
`PROJECT.json`:

| Run | Says | Does |
|---|---|---|
| `sent_is_moved` | a sent UUID goes to the sent list | a racing fetch leaks the read lock; the move never succeeds again |
| `unsync_is_left` | a node behind the latest milestone is left for another | the difference is taken with the opposite sign; the service stays |

### Further disagreements

These properties are stated in the modules and violated as well. The first eight have a configuration
of their own; each of the others is violated when it is added to the configuration named.

| Property | Configuration | Says | Does |
|---|---|---|---|
| `FetchedIsDeleted` | `MCTxnBufferFetched.cfg` | the fetch deletes the UUID from the sent list (`periodical_task.c:87`) | pops the head, whichever UUID it is |
| `NotExistIsAbsent` | `MCTxnBufferNotExist.cfg` | NOT_EXIST means not in redis (`core.h:243`) | a push during the scan hides the last UUID |
| `BroadcastIsChained` | `MCTxnBufferChain.cfg` | the list is a bundle as in `iota_common` (`docs/transaction-buffer.md:23`) | read back and attached in reverse |
| `BroadcastResumes` | `MCTxnBufferSpin.cfg` | buffered transactions are broadcast once the node is back (`periodical_task.h:35`) | the eviction loop spins when nothing can be evicted |
| `SentIsPublished` | `MCMamBufferSent.cfg` | SENT means broadcast (`ta_fetch_buffered_request_status.h:29`) | an error of the full node is dropped by `ta_send_bundle` |
| `PublishedIsMoved` | `MCMamBufferMoved.cfg` | a broadcast UUID goes to the complete list (`periodical_task.c:305`) | overtaken, it stays, with a value that does not parse |
| `MsgIdUnique` | `MCMamChannelStale.cfg` | a message id is unique under a channel (`mam_core.c:378`) | a lagging node hides a used key, which signs again |
| `LastKeyAnnounces` | `MCMamChannelLast.cfg` | the last key is for the announcement (`mam_core.c:474`) | after a lost announcement it signs a message |
| `OkIsConnected` | `MCServer.cfg` | SC_OK once a node of the list is connected (`periodical_task.c:31`) | SC_OK also when none answered |
| `CachedIsBuffered` | `MCServer.cfg` | who gets a UUID has the request cached (`apis.c:288`) | also when the push failed or the cache is off |
| `NewestInclusionStored` | `MCStorage.cfg` | the newest inclusion status is stored (`docs/reattacher.md:7`) | an attachment replaced in its row may be the one confirmed |
| `EveryTransferStored` | `MCStorage.cfg` | every transfer is stored (`docs/build.md:64`) | not one that was buffered, or whose request or insert failed after it was attached |
| `PublishesTheResult` | `MCDevice.cfg` | the result of the request is published (`duplex_utils.h:79`) | after an invalid request the answer before it |
| `ReadingsAreSent` | `MCDevice.cfg` | OBD messages are sent to the accelerator (`monitor.c:271`) | for a sensor the record is packed, not its data |
| `SentIsWhole` (`Endpoint`) | `MCDevice.cfg` | a message that does not fit is refused (`endpoint_core.c:130`) | the body is cut |
| `SeedMayBeNull` | `MCDevice.cfg` | the TLS seed can be NULL (`conn_http.h:53`) | its length is taken |
| `NoGttaDisables` | `MCData.cfg` | `--no-gtta` disables tip selection (`cli_info.h:98`) | it is enabled |
| `BundleLookupReturns` | `MCData.cfg` | `ta_get_bundle` returns SC_OK or an error (`core.h:163`) | for a hash no transaction has, the first element of an empty list is copied |
| `ResultWithinLimit` | `MCData.cfg` | at most `RESULT_SET_LIMIT` objects are returned (`apis.c:76`) | the first one fetched is returned again for each |

### What the code does not guarantee

No comment promises the following, and a reader of the properties above might expect it. Each is stated
next to the property that has the exception, and TLC violates it when it is added to the configuration
named.

| Property | Configuration | Why it fails |
|---|---|---|
| `KeySignsOnce` | `MCMamChannel.cfg` | the key of a bundle that was signed and lost is taken again: `ta_send_bundle` hides the loss (`core.c:466`) |
| `HandlerReadsLive` | `MCServer.cfg` | the expiry handler may run before the thread id is stored, or after the callback returned and the timer is freed (`timer.c:30`, `timer.c:61`) |
| `RunsOwnRequest` | `MCDevice.cfg` | a message without a payload runs its API on the body of the one before (`sub_utils.c:31`) |
| `KeyOutlastsPower` | `MCDevice.cfg` | the key file is not flushed to the disk (`simulator/impl.c:84`) |
| `AddressWithinText` | `MCData.cfg` | an address of trytes that is too short is accepted and read past its end (`serializer.c:132`) |

### Fairness

`Fairness` has weak fairness for the steps of each thread: the operating system schedules
every runnable thread, and no step waits (all locks are tried). Starting a new request is
not fair; clients may stop. Strong fairness of `SendTrytes` and `GetTrytes` says that a full
node asked again and again answers in the end, and of `LeaveMam` that the MAM buffer runs
empty. `BufferDrains` assumes that clients stop polling, since `trywrlock` is called once per
round and a poll that always holds the read lock at that moment delays it for ever. In `MamBuffer` the same
holds, with strong fairness of a health round that reaches the MAM buffer, of `Publish` and of the end
of the eviction loop; its `BufferDrains` assumes the read lock free from some time on, since the
transaction buffer can leak it, and that no request overtakes another. The
action `Crash` and the error replies are bounded by constants, so they stop too.

The other components have weak fairness of the steps of their own threads and of nothing that
comes from outside: no client, operator, node, broker, device or fault is fair. In `Server` these
are `Main`, `health_track`, the worker's steps and the end of a logger switch; `FailoverConverges`
says what holds once the nodes stop changing, which their bound brings about. In `HttpApi` it is
`HandlerProceeds`: the calls libmicrohttpd makes when it has what it needs, and the steps of an API
that ask nobody. The daemon is started without `MHD_OPTION_CONNECTION_TIMEOUT` (`http.c:478`) and the
clients of the node, of redis and of the database have no time limit either, so a step that waits for
one of them is not fair, and `RequestEnds` has the two waits as its alternatives. In `Timer` the kernel
delivers the expiry of an armed timer. In
`Reattacher` the loop runs and time passes (`Tick`). In `Mqtt` a connection that was opened is answered
or lost, as libmosquitto enforces the keepalive the program gives it; that a request arrives is not
fair. `MamChannel` has the sender and the reader, `Obd` its two
processes. In `Endpoint` it is `SendProceeds`, the steps of a send that wait for no peer: only the plain
read has a time limit, the handshake, the writes and the TLS read have none. `Config`, `Query` and `Serializer` have no liveness property:
they are loops over finite input.

## Proofs

Every theorem holds for every value of the constants that satisfies the named assumption of
the module: any number of UUIDs, threads, nodes, sensors, hashes and settings, any length of a
body or a text, any number of faults and crashes. The assumptions say only that a bound is a
natural number, that a set is finite, or that a model value is none of the others. Four say
more. `MamChannelAssumption` has `2 ^ d >= 2` for the depths in use, a fact about numbers that
needs an induction the provers cannot do. `ConfigAssumption` has at most 255 HTTP threads,
the range of the `uint8_t` field. `ObdAssumption` keeps the VIN out of the list of sensors, as
the code reads it apart from them. `EndpointAssumption` keeps keys apart from the values that say
there is none. TLC evaluates each of them in the runs.

A theorem `Spec => []P` is proved with an inductive invariant: a lemma for `Init`, one lemma for
each action or group of actions, and a last step that combines them.

| Module | Theorem | Shows |
|---|---|---|
| `TxnBuffer_proofs` | `TypeCorrect`, `MoveIsUnseen` | types; no fetch scans while a UUID is between the two lists |
| | `RequestsConserved` | a pushed UUID is in exactly one place, crashes and errors included |
| | `ListsStayRight` | what is in `complete_list` was sent, unless it overtook another UUID; what waits has its bundle as long as nothing failed |
| | `FetchIsTruthful` | UNSENT is not stale; SENT carries the whole bundle, unless something failed before, and goes to one client |
| | `BufferImplementsLifecycle` | the buffer implements `RequestLifecycle`, for each UUID |
| `MamBuffer_proofs` | `MamTypeCorrect`, `MamMoveIsUnseen`, `MamRequestsConserved` | the same three for the MAM buffer |
| | `MovedWasPublished` | what is in the complete list was published, unless it overtook another UUID or an error was swallowed |
| | `ResultHandedOutOnce` | an answer is the result of its request, and there is one |
| `MamChannel_proofs` | `ChannelTypes`, `SpentKeysRest` | a key with a bundle on the Tangle signs nothing else while no node lags |
| | `ReaderFindsAll`, `EndIsTheEnd` | a reader who follows the announcements misses no message that is not behind a lost one; an end it is told of is the end |
| `Storage_proofs` | `RowsStayRight`, `RenewedOnlyWhenDue` | rows of the identity table match the Tangle, but for one attachment per fault; an attachment that is the newest and not yet persistent is not replaced |
| | `SearchesAreRight` | a search of the permanode finds what it must and nothing else |
| `Server_proofs` | `TimerSafe` | the timer's status is true, and a handler whose cancellation took effect is finished with the `ta_timer_t` before it is freed |
| | `ThreadsAgree` | shutdown, failover and the loggers agree with the threads that use them |
| | `StatusesAreTrue` | the status of an HTTP response is true of the whole request |
| `Device_proofs` | `EndpointTypes`, `SendIsHonest`, `KeyIsKept` | lengths fit; a send that says `SC_OK` was answered; the key outlasts the process, and a loss of power leaves an older one or an empty file at worst |
| | `ReadingsAreRight` | on a quiet bus each reading answers its own query |
| | `AnswersStayDue` | topic and text of an answer are of one run; it is repeated at most once for each trouble |
| `Data_proofs` | `ConfigTyped`, `ConfigurationAsGiven` | the core has the last value given for each setting, with the exceptions that the code makes |
| | `AnswersAreAsked` | a query that succeeds returns exactly the transactions asked for, within the limit |
| | `RequestsAreFreed` | every allocation of a deserializer is freed, with the two exceptions that are named |
| | `RequestsAreUsable` | what an API takes from a request that was read without an error has its size, the address of a transfer apart |

`TxnBufferSafety_proofs` holds the invariants and the step lemmas of `TxnBuffer_proofs`.

### The invariants

- **Transaction buffer.** `rdunlock` decrements a counter, so `readers` stays a natural number
  only because every thread inside the read section holds one of the read locks:
  `Cardinality(Readers) <= readers`. This is an inequality because error paths leak read locks.
  It needs `writer => Readers = {}`, and the accesses to lists need bounds on the loop indices.
  `TypeInv` is `TypeOK /\ Locals /\ MoveUnseen`. A UUID could be pushed twice only if two
  threads stored the same one, or one that was pushed before; `Private` excludes both, and
  `ConsInv` adds it and `Conservation`. `SendInv` says what each thread knows of its UUID when
  it has let go of the lock. A fetch that found its UUID is after a settled one (`Listed`). The
  UUID that the health thread peeked at is still in the list, and only one that overtook it can
  be popped in its place (`Peeked`). Eviction deletes settled ones (`Evicted`), and of the
  fetches of one UUID one passes the DEL (`Once`). `Contents` says what the bundles hold as long
  as nothing failed: stored back to front, read and put back reversed, and a fetch holds a
  prefix of a bundle or of one that was deleted meanwhile.
- **Refinement.** `Stage(u)` maps the lists to a stage of `RequestLifecycle`. `Conservation`
  makes the places disjoint, so the stage can be read off the place (`StageRead`). Then each
  action maps to a step of the life cycle or to a stutter. A fetch may hand out one bundle and pop
  another UUID, which `HandOut` allows. `RequestLifecycle` has no fairness.
- **MAM buffer.** The same first two, and `ResultInv`: a request is overwritten by its result
  before its UUID is moved (`Moved`, `Kept`), so a fetch that read a value holds the result
  (`Got`), and one passes the DEL (`Once`).
- **MAM channels.** `MamInv`. The keys of a channel were used in their order, where a key that
  signed a bundle which was lost counts (`SignedInOrder`). Every earlier channel of a seed has its
  announcement, published or lost (`Linked`). `Signing` relates the sender's locals to the channel
  at hand. While no node lags, the key at hand has no bundle on the Tangle (`NewKey`). `SpentKeysRest` and
  `EndIsTheEnd` are action properties and follow from the same invariant.
- **Reattacher.** `ReattacherInv`: a row names an attachment of its own transfer, and one transfer has
  one row (`RowsNamed`); what the reattacher read is what the table holds, as nobody else changes an
  existing row (`Copies`); a transfer is on the Tangle once when its row is about to be written
  (`Requested`). `RenewedOnlyWhenDue` is an action property: a step that attaches again replaces an
  attachment that is older than the limit, unless the row does not name the newest one.
- **Permanode.** `PermanodeInv`: an insertion has written exactly as far as it has come
  (`WrittenInOrder`), and every criterion that was asked had a hit and a complete answer, unless
  the limit cut it off (`SearchInv`).
- **Timer, server.** `TimerInv` relates the owner of the lock to where the caller and the handler
  stand. `ServerInv` has a part for the daemon and the requests in progress, one for
  the service that workers copy, and one for the loggers.
- **HTTP.** `HttpInv` has two halves. `BodyInv`: what has been collected is what has been sent, or the request
  was refused. `ApiInv`: the stages that an API has behind it succeeded
  or were skipped: nothing is done before the request has been checked, and a transfer that is not
  buffered has been attached after its third stage and stored after its sixth. `StagesAreRight` tells for
  each API what its stages are; from it follows which of them may blame the request (status 400).
- **Endpoint.** `SendInv`: all of the request has been written from the first read on, and there is a
  result at the end only. `KeyInv`: the file holds the key written last, or an older one after a loss of power
  before a write back; it is empty only during a write, after one that was cut off, or after such a loss.
- **OBD.** `ObdInv`: while nobody else talks and nothing fails, the frames on the bus are those of the one
  query in progress (`Turns`), so the next frame is the right one although the monitor does not look.
- **MQTT.** `MqttInv`. Topic and text are of one proper run (`ListTypes`). Runs are bounded by the
  deliveries plus one for each bad request. Answers are bounded by the same plus one for each refused
  connection and each lost answer (`Repeats`), where those to come count as well (`Outstanding`): the one
  in progress, and one for each unacknowledged answer of an earlier connection (`Carry`), since its late
  acknowledgement ends a connection of the subscriber, after which the old answer is published again.
  There are no more of these than answers were lost (`LinkTypes`).
- **Configuration.** `ConfigInv`: the core is what the settings applied so far have made of it (`Applied`).
  The service is the first entry of the list (`ServiceRight`). `--config` is missed only behind an unknown
  option (`Missed`).
- **Query.** `QueryInv`: at each step, what was asked for is in the result, was not found in the cache and
  is to be fetched, or was fetched.
- **Serializer.** `HeapInv` says which allocations exist and that the object holds the protocol
  which tells the release function what to free. `ReadInv` says, form by form, what is right from
  which field on.

### Only model-checked

- Liveness: `BufferDrains`, `SendEnds`, `FailoverConverges`, `EveryoneEnds` and the half of `RenewedWhenDue`
  that says a pending transfer is renewed. Fairness and ENABLED are outside the prover's reach.
- `QueryIsRight` beyond `AnswersAreAsked`: that bundles are attachments and that each is returned once rests
  on a fold over the result, and needs an induction over it. The same holds for `ReadIsRight` beyond
  `RequestsAreUsable`: `ResponseSurvives` rests on the fold that writes the payload.
- `SafeUnderFaults` is the conjunction of five invariants that are proved one by one. `TypesOK` is a
  conjunction of type invariants: those of `Endpoint` and `Config` are theorems, those of `Reattacher`,
  `Permanode` and `Timer` are part of the inductive invariants, the others are checked only.

## Not modelled

- Within modelled components: running out of memory, except where a status says so; the double free of a
  statement after an error in `scylladb_permanode.c:219` and `:404` and the use of the core by detached
  threads after `ta_core_destroy`, which have no defined outcome; bundles of several transactions in the
  reattacher, which handles the first one; creation of ScyllaDB keyspaces and tables; replies mixed up
  on the hiredis connection that all threads share; `used_memory` above 2 GiB (`backend_redis.c:239`).
- libmosquitto options that this program never sets (SOCKS, TLS, wills), and the release of the MQTT
  configuration at exit.
- `api_register_mam_channel`, which no server routes to; its request's deserializer is in `Serializer`.
- Serializers that only format a transaction or a list, `diagnose`, logging, error text and debug
  output: no state.
- `ecdh.c` and the nonce search of dcurl: calls of libraries.
- The endpoint's shell, which starts the other programs; decryption and the text format, which only
  tests use; the Legato target, whose platform calls are not in this repository.
