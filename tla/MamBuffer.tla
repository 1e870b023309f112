----------------------------- MODULE MamBuffer ------------------------------
(***************************************************************************)
(* The MAM request buffer.  A MAM message is never sent by the thread that *)
(* accepts it: api_send_mam_message stores the request under a UUID, the   *)
(* health_track thread publishes it and replaces the request by the result *)
(* (broadcast_buffered_send_mam_request), and the client collects the      *)
(* result with the UUID (ta_fetch_mam_with_uuid).                          *)
(*                                                                         *)
(* The transaction buffer shares the rwlock and comes first, in the health *)
(* round and in a fetch.  Here it is reduced to what it does to the lock;  *)
(* see TxnBuffer.  cache.timeout is never set, so no value expires.        *)
(***************************************************************************)
EXTENDS BackendRedis

CONSTANTS UUID, NoUUID, Thread,
          MaxFaults,   \* bound on error replies of redis
          MaxCrashes   \* bound on crashes of the process

ASSUME MamBufferAssumption ==
    /\ IsFiniteSet(UUID) /\ NoUUID \notin UUID
    /\ IsFiniteSet(Thread)
    /\ MaxFaults \in Nat /\ MaxCrashes \in Nat

VARIABLES buffer,      \* mam_buffer_list_name
          complete,    \* mam_complete_list_name
          value,       \* the string under each UUID: "req", "res" or "none"
          req, h,      \* the HTTP threads and the health thread, with their locals
          faults, crashes

\* History, read by no action.
VARIABLES issued,      \* UUIDs generated
          pushed,      \* pushed to the buffer list and told to a client
          published,   \* the message reached a full node
          swallowed,   \* it did not, and ta_send_mam_message said SC_OK
          overtook,    \* pushed between the health thread's peek and its pop
          taken,       \* popped from the complete list
          dropped,     \* popped from the buffer list and then lost
          answers      \* what the successful fetches returned, in order: <<UUID, value>>

store == <<buffer, complete, value>>
budget == <<faults, crashes>>
history == <<issued, pushed, published, swallowed, overtook, taken, dropped, answers>>
vars == <<lock, store, req, h, budget, history>>

Idle == [pc |-> "idle", uuid |-> NoUUID, idx |-> 0, len |-> 0,
         exist |-> FALSE, err |-> FALSE, got |-> "none"]

Starting == [pc |-> "txn", uuid |-> NoUUID]

Init ==
    /\ LockInit
    /\ buffer = <<>> /\ complete = <<>>
    /\ value = [u \in UUID |-> "none"]
    /\ req = [t \in Thread |-> Idle]
    /\ h = Starting
    /\ faults = 0 /\ crashes = 0
    /\ issued = {} /\ pushed = {} /\ published = {} /\ swallowed = {}
    /\ overtook = {} /\ taken = {} /\ dropped = {} /\ answers = <<>>

Fault == faults < MaxFaults /\ faults' = faults + 1 /\ UNCHANGED crashes

\* The health thread is between its peek at the head of the list and the pop.
PeekedPcs == {"get", "publish", "wrlock", "del", "set", "pop"}

Return(t) == req' = [req EXCEPT ![t] = Idle]

-----------------------------------------------------------------------------
(* HTTP threads: api_send_mam_message.                                      *)

SetRequest(t) ==
    /\ req[t].pc = "idle"
    /\ \E u \in UUID \ issued :
          /\ issued' = issued \cup {u}
          /\ req' = [req EXCEPT ![t] = [Idle EXCEPT !.pc = "push", !.uuid = u]]
          /\ \/ value' = [value EXCEPT ![u] = "req"] /\ UNCHANGED budget
             \/ Fault /\ UNCHANGED value    \* redis_set says SC_OK all the same
    /\ UNCHANGED <<lock, buffer, complete, h, pushed, published, swallowed, overtook, taken, dropped, answers>>

PushRequest(t) ==
    LET u == req[t].uuid
    IN  /\ req[t].pc = "push"
        /\ buffer' = list_push(buffer, u)
        /\ pushed' = pushed \cup {u}
        /\ overtook' = IF h.pc \in PeekedPcs THEN overtook \cup {u} ELSE overtook
        /\ Return(t)
        /\ UNCHANGED <<lock, complete, value, h, budget, issued, published, swallowed, taken, dropped, answers>>

PushRequestFails(t) ==
    /\ req[t].pc = "push"
    /\ Fault
    /\ Return(t)
    /\ UNCHANGED <<lock, store, h, history>>

-----------------------------------------------------------------------------
(* HTTP threads: api_fetch_buffered_request_status of a MAM UUID.           *)

\* ta_fetch_txn_with_uuid takes the lock and does not find the UUID, or its scan
\* of buffer_list fails.
FetchTxn(t) ==
    /\ req[t].pc = "idle"
    /\ tryrdlock
    /\ \E u \in pushed : req' = [req EXCEPT ![t] = [Idle EXCEPT !.pc = "txn", !.uuid = u]]
    /\ UNCHANGED <<store, h, budget, history>>

NotInTxnLists(t) ==
    /\ req[t].pc = "txn"
    /\ rdunlock
    /\ req' = [req EXCEPT ![t].pc = "mam"] \/ Return(t)
    /\ UNCHANGED <<store, h, budget, history>>

\* The scan of complete_list fails, which needs no error reply (see SentIsMoved
\* of TxnBuffer): the lock stays held.
TxnScanFails(t) ==
    /\ req[t].pc = "txn"
    /\ Return(t)
    /\ UNCHANGED <<lock, store, h, budget, history>>

FetchMam(t) ==
    /\ req[t].pc = "mam"
    /\ \/ tryrdlock /\ req' = [req EXCEPT ![t].pc = "llen_b"]
       \/ (writer \/ readers = MaxReaders) /\ UNCHANGED lock /\ Return(t)
    /\ UNCHANGED <<store, h, budget, history>>

BufferLen(t) ==
    /\ req[t].pc = "llen_b"
    /\ req' = [req EXCEPT ![t].pc = "scan_b", ![t].len = Len(buffer)]
    /\ UNCHANGED <<lock, store, h, budget, history>>

ScanBuffer(t) ==
    /\ req[t].pc = "scan_b" /\ req[t].idx < req[t].len
    /\ req' = [req EXCEPT ![t] = list_exist_step(@, buffer)]
    /\ UNCHANGED <<lock, store, h, budget, history>>

\* MAM_BUFREQ_UNSENT, or an error of the scan.
AnswerUnsent(t) ==
    /\ req[t].pc = "scan_b" /\ req[t].idx = req[t].len
    /\ req[t].err \/ req[t].exist
    /\ rdunlock
    /\ Return(t)
    /\ UNCHANGED <<store, h, budget, history>>

CompleteLen(t) ==
    /\ req[t].pc = "scan_b" /\ req[t].idx = req[t].len
    /\ ~req[t].err /\ ~req[t].exist
    /\ req' = [req EXCEPT ![t].pc = "scan_c", ![t].idx = 0, ![t].len = Len(complete)]
    /\ UNCHANGED <<lock, store, h, budget, history>>

ScanComplete(t) ==
    /\ req[t].pc = "scan_c" /\ req[t].idx < req[t].len
    /\ req' = [req EXCEPT ![t] = list_exist_step(@, complete)]
    /\ UNCHANGED <<lock, store, h, budget, history>>

\* MAM_BUFREQ_NOT_EXIST, or an error of the scan: this one does unlock.
AnswerNotExist(t) ==
    /\ req[t].pc = "scan_c" /\ req[t].idx = req[t].len
    /\ req[t].err \/ ~req[t].exist
    /\ rdunlock
    /\ Return(t)
    /\ UNCHANGED <<store, h, budget, history>>

FoundSent(t) ==
    /\ req[t].pc = "scan_c" /\ req[t].idx = req[t].len
    /\ ~req[t].err /\ req[t].exist
    /\ rdunlock
    /\ req' = [req EXCEPT ![t].pc = "get"]
    /\ UNCHANGED <<store, h, budget, history>>

\* Mutant of GetResult: the lock, released before, is released again.
GetResultUnlocks(t) ==
    /\ req[t].pc = "get"
    /\ rdunlock
    /\ req' = [req EXCEPT ![t].pc = "del", ![t].got = value[req[t].uuid]]
    /\ UNCHANGED <<store, h, budget, history>>

GetResult(t) ==
    LET v == value[req[t].uuid]
    IN  /\ req[t].pc = "get"
        /\ \/ v # "none" /\ req' = [req EXCEPT ![t].pc = "del", ![t].got = v]
           \/ v = "none" /\ Return(t)
        /\ UNCHANGED <<lock, store, h, budget, history>>

\* Mutant of DeleteResult: a DEL that counts no key passes for a success.
DeleteResultTwice(t) ==
    /\ req[t].pc = "del"
    /\ value' = [value EXCEPT ![req[t].uuid] = "none"]
    /\ req' = [req EXCEPT ![t].pc = "popc"]
    /\ UNCHANGED <<lock, buffer, complete, h, budget, history>>

DeleteResult(t) ==
    LET u == req[t].uuid
    IN  /\ req[t].pc = "del"
        /\ \/ /\ value[u] # "none"
              /\ value' = [value EXCEPT ![u] = "none"]
              /\ req' = [req EXCEPT ![t].pc = "popc"]
           \/ value[u] = "none" /\ UNCHANGED value /\ Return(t)
        /\ UNCHANGED <<lock, buffer, complete, h, budget, history>>

\* Pops the head of the list, whichever UUID that is.
PopComplete(t) ==
    /\ req[t].pc = "popc"
    /\ \/ /\ complete # <<>>
          /\ complete' = list_pop(complete)
          /\ taken' = taken \cup {Head(complete)}
          /\ answers' = Append(answers, <<req[t].uuid, req[t].got>>)
       \/ complete = <<>> /\ UNCHANGED <<complete, taken, answers>>
    /\ Return(t)
    /\ UNCHANGED <<lock, buffer, value, h, budget, issued, pushed, published, swallowed, overtook, dropped>>

\* An error reply of redis: a failed LLEN leaves the length 0, a failed LINDEX
\* only sets the error, and the others end the fetch.
FetchFails(t) ==
    LET r == req[t]
    IN  /\ Fault
        /\ \/ r.pc = "llen_b" /\ req' = [req EXCEPT ![t].pc = "scan_b", ![t].err = TRUE]
           \/ /\ r.pc = "scan_b" /\ r.idx = r.len /\ ~r.err /\ ~r.exist
              /\ req' = [req EXCEPT ![t].pc = "scan_c", ![t].idx = 0, ![t].len = 0, ![t].err = TRUE]
           \/ /\ r.pc \in {"scan_b", "scan_c"} /\ r.idx < r.len
              /\ req' = [req EXCEPT ![t].idx = @ + 1, ![t].err = TRUE]
           \/ r.pc \in {"get", "del", "popc"} /\ Return(t)
        /\ UNCHANGED <<lock, store, h, history>>

HttpStep(t) ==
    \/ PushRequest(t)
    \/ NotInTxnLists(t) \/ FetchMam(t)
    \/ BufferLen(t) \/ ScanBuffer(t) \/ AnswerUnsent(t)
    \/ CompleteLen(t) \/ ScanComplete(t) \/ AnswerNotExist(t) \/ FoundSent(t)
    \/ GetResult(t) \/ DeleteResult(t) \/ PopComplete(t)

-----------------------------------------------------------------------------
(* The health_track thread.                                                 *)

Goto(pc) == h' = [h EXCEPT !.pc = pc]

\* broadcast_buffered_txn, reduced to its use of the lock.  An error in it skips
\* the MAM buffer in this round.
BroadcastTxn ==
    /\ h.pc = "txn"
    /\ \/ trywrlock /\ Goto("txncs")
       \/ UNCHANGED lock /\ (Goto("llen") \/ Goto("evict"))
    /\ UNCHANGED <<store, req, budget, history>>

BroadcastTxnDone ==
    /\ h.pc = "txncs"
    /\ wrunlock
    /\ Goto("txn")
    /\ UNCHANGED <<store, req, budget, history>>

BufferedLen ==
    /\ h.pc = "llen"
    /\ Goto(IF buffer = <<>> THEN "evict" ELSE "peek")
    /\ UNCHANGED <<lock, store, req, budget, history>>

PeekUuid ==
    /\ h.pc = "peek"
    /\ \/ list_has(buffer, 0) /\ h' = [h EXCEPT !.pc = "get", !.uuid = list_at(buffer, 0)]
       \/ ~list_has(buffer, 0) /\ Goto("evict")
    /\ UNCHANGED <<lock, store, req, budget, history>>

\* GET fails when there is no value, and send_mam_message_req_deserialize when
\* the value is a result: that has no "protocol".
GetRequest ==
    /\ h.pc = "get"
    /\ Goto(IF value[h.uuid] = "req" THEN "publish" ELSE "evict")
    /\ UNCHANGED <<lock, store, req, budget, history>>

\* ta_send_mam_message says SC_OK.  The message need not have reached the full
\* node: ta_send_bundle drops the error of ta_send_trytes.
Publish ==
    /\ h.pc = "publish"
    /\ \/ published' = published \cup {h.uuid} /\ UNCHANGED swallowed
       \/ swallowed' = swallowed \cup {h.uuid} /\ UNCHANGED published
    /\ Goto("wrlock")
    /\ UNCHANGED <<lock, store, req, budget, issued, pushed, overtook, taken, dropped, answers>>

\* Mutant of PublishFails: the result of ta_send_mam_message is not looked at.
PublishFailsIgnored ==
    /\ h.pc = "publish"
    /\ Goto("wrlock")
    /\ UNCHANGED <<lock, store, req, budget, history>>

\* An error before the message is sent, or after it: in the announcement of the
\* next channel, or in saving the MAM file.
PublishFails ==
    /\ h.pc = "publish"
    /\ published' \in {published, published \cup {h.uuid}}
    /\ Goto("evict")
    /\ UNCHANGED <<lock, store, req, budget, issued, pushed, swallowed, overtook, taken, dropped, answers>>

\* Mutant of LockForMove: pthread_rwlock_tryrdlock.
LockForMoveShared ==
    /\ h.pc = "wrlock"
    /\ tryrdlock
    /\ Goto("del")
    /\ UNCHANGED <<store, req, budget, history>>

LockForMove ==
    /\ h.pc = "wrlock"
    /\ \/ trywrlock /\ Goto("del")
       \/ (writer \/ readers > 0) /\ UNCHANGED lock /\ Goto("evict")
    /\ UNCHANGED <<store, req, budget, history>>

\* Mutant of DeleteRequest: no DEL.
DeleteRequestSkipped ==
    /\ h.pc = "del"
    /\ Goto("set")
    /\ UNCHANGED <<lock, store, req, budget, history>>

\* The error path does not unlock.
DeleteRequest ==
    /\ h.pc = "del"
    /\ Goto(IF value[h.uuid] = "none" THEN "evict" ELSE "set")
    /\ value' = [value EXCEPT ![h.uuid] = "none"]
    /\ UNCHANGED <<lock, buffer, complete, req, budget, history>>

\* Mutant of SetResult: the result is not stored.
SetResultSkipped ==
    /\ h.pc = "set"
    /\ Goto("pop")
    /\ UNCHANGED <<lock, store, req, budget, history>>

\* SET NX stores the result when there is no value.  An error reply counts as
\* success here too.
SetResult ==
    /\ h.pc = "set"
    /\ \/ value' = [value EXCEPT ![h.uuid] = IF @ = "none" THEN "res" ELSE @] /\ UNCHANGED budget
       \/ Fault /\ UNCHANGED value
    /\ Goto("pop")
    /\ UNCHANGED <<lock, buffer, complete, req, history>>

\* LPOP overwrites the local uuid: the UUID moved is the head of the list now,
\* not the one that was published.  The error path does not unlock.
PopBuffered ==
    /\ h.pc = "pop"
    /\ \/ /\ buffer # <<>>
          /\ buffer' = list_pop(buffer)
          /\ h' = [h EXCEPT !.pc = "push", !.uuid = Head(buffer)]
       \/ buffer = <<>> /\ UNCHANGED buffer /\ Goto("evict")
    /\ UNCHANGED <<lock, complete, value, req, budget, history>>

\* Mutant of PushComplete: the UUID goes back to the list it came from.
PushCompleteWrongList ==
    /\ h.pc = "push"
    /\ buffer' = list_push(buffer, h.uuid)
    /\ complete' = list_push(complete, h.uuid)
    /\ Goto("unlock")
    /\ UNCHANGED <<lock, value, req, budget, history>>

PushComplete ==
    /\ h.pc = "push"
    /\ complete' = list_push(complete, h.uuid)
    /\ Goto("unlock")
    /\ UNCHANGED <<lock, buffer, value, req, budget, history>>

\* Mutant of UnlockMoved: no unlock.
UnlockMovedForgotten ==
    /\ h.pc = "unlock"
    /\ Goto("llen")
    /\ UNCHANGED <<lock, store, req, budget, history>>

UnlockMoved ==
    /\ h.pc = "unlock"
    /\ wrunlock
    /\ Goto("llen")
    /\ UNCHANGED <<store, req, budget, history>>

\* An error reply of redis: every path returns as it is, holding what it holds.
BroadcastFails ==
    /\ h.pc \in {"txncs", "llen", "peek", "get", "del", "pop", "push"}
    /\ Fault
    /\ Goto("evict")
    /\ dropped' = IF h.pc = "push" THEN dropped \cup {h.uuid} ELSE dropped
    /\ UNCHANGED <<lock, store, req, issued, pushed, published, swallowed, overtook, taken, answers>>

\* The eviction loop pops and deletes nothing of the MAM buffer; it takes the
\* lock like the others.
Evict ==
    /\ h.pc = "evict"
    /\ \/ trywrlock /\ Goto("evictcs")
       \/ UNCHANGED lock /\ h' = Starting
    /\ UNCHANGED <<store, req, budget, history>>

EvictUnlock ==
    /\ h.pc = "evictcs"
    /\ wrunlock
    /\ Goto("evict")
    /\ UNCHANGED <<store, req, budget, history>>

HealthStep ==
    \/ BroadcastTxn \/ BroadcastTxnDone
    \/ BufferedLen \/ PeekUuid \/ GetRequest \/ Publish \/ PublishFails \/ LockForMove
    \/ DeleteRequest \/ SetResult \/ PopBuffered \/ PushComplete \/ UnlockMoved
    \/ Evict \/ EvictUnlock

-----------------------------------------------------------------------------
\* The process dies and is restarted; redis keeps its lists and values.
Crash ==
    /\ crashes < MaxCrashes
    /\ crashes' = crashes + 1
    /\ writer' = FALSE /\ readers' = 0
    /\ req' = [t \in Thread |-> Idle]
    /\ h' = Starting
    /\ dropped' = IF h.pc = "push" THEN dropped \cup {h.uuid} ELSE dropped
    /\ UNCHANGED <<store, faults, issued, pushed, published, swallowed, overtook, taken, answers>>

Next ==
    \/ \E t \in Thread : SetRequest(t) \/ FetchTxn(t) \/ HttpStep(t)
    \/ \E t \in Thread : PushRequestFails(t) \/ TxnScanFails(t) \/ FetchFails(t)
    \/ HealthStep
    \/ BroadcastFails
    \/ Crash

Spec == Init /\ [][Next]_vars

\* No thread stops for ever between two statements.  The transaction buffer lets
\* the MAM buffer have its turn, the full node answers if it is asked again and
\* again, and the eviction loop ends.
Fairness ==
    /\ \A t \in Thread : WF_vars(HttpStep(t))
    /\ WF_vars(HealthStep)
    /\ SF_vars(BroadcastTxn /\ h'.pc = "llen")
    /\ SF_vars(Publish)
    /\ SF_vars(Evict /\ h'.pc = "txn")

FairSpec == Spec /\ Fairness

-----------------------------------------------------------------------------
(* Properties.                                                              *)

Value == {"none", "req", "res"}

ReqPc == {"idle", "push", "txn", "mam", "llen_b", "scan_b", "scan_c", "get", "del", "popc"}

HealthPc == {"txn", "txncs", "llen", "peek", "get", "publish", "wrlock", "del", "set",
             "pop", "push", "unlock", "evict", "evictcs"}

ReqRecord == [pc : ReqPc, uuid : UUID \cup {NoUUID}, idx : Nat, len : Nat,
              exist : BOOLEAN, err : BOOLEAN, got : Value]

HealthRecord == [pc : HealthPc, uuid : UUID \cup {NoUUID}]

\* Every variable keeps its type.
TypeOK ==
    /\ LockTypeOK
    /\ buffer \in Seq(UUID) /\ complete \in Seq(UUID)
    /\ value \in [UUID -> Value]
    /\ req \in [Thread -> ReqRecord]
    /\ h \in HealthRecord
    /\ faults \in 0..MaxFaults /\ crashes \in 0..MaxCrashes
    /\ issued \subseteq UUID /\ pushed \subseteq issued
    /\ published \subseteq UUID /\ swallowed \subseteq UUID /\ overtook \subseteq UUID
    /\ taken \subseteq UUID /\ dropped \subseteq UUID
    /\ answers \in Seq(UUID \X Value)

ReadPcs == {"txn", "llen_b", "scan_b", "scan_c"}
Readers == {t \in Thread : req[t].pc \in ReadPcs}

\* The UUID that is in neither list while the health thread moves it.
InHand == IF h.pc = "push" THEN {h.uuid} ELSE {}

\* No fetch scans the lists while the health thread replaces the request by the
\* result and moves the UUID, whatever locks were leaked before.
MoveUnseen ==
    /\ h.pc \in {"txncs", "del", "set", "pop", "push", "unlock", "evictcs"} => writer
    /\ writer => Readers = {}
    /\ Cardinality(Readers) <= readers

\* No accepted MAM request vanishes or is duplicated: a UUID pushed by
\* api_send_mam_message is in exactly one place, once, and is lost between the
\* two lists only after an error reply or a crash.
Conservation ==
    /\ IsInjective(buffer) /\ IsInjective(complete)
    /\ pushed = Range(buffer) \cup InHand \cup Range(complete) \cup taken \cup dropped
    /\ Range(buffer) \cap (InHand \cup Range(complete) \cup taken \cup dropped) = {}
    /\ InHand \cap (Range(complete) \cup taken \cup dropped) = {}
    /\ Range(complete) \cap (taken \cup dropped) = {}
    /\ taken \cap dropped = {}
    /\ dropped # {} => faults + crashes > 0

\* There are two ways only for a message that no full node has to be moved to the
\* complete list: its UUID was pushed between the health thread's LINDEX and its
\* LPOP, or ta_send_bundle dropped the error.
MovedIsPublished ==
    Range(complete) \cup taken \cup InHand \subseteq published \cup swallowed \cup overtook

\* What a fetch hands out is the result ta_send_mam_message gave for that UUID,
\* and not the stored request, except for a UUID that overtook another one.
AnswerIsResult ==
    \A i \in 1..Len(answers) :
       \/ answers[i][1] \in overtook
       \/ answers[i][2] = "res" /\ answers[i][1] \in published \cup swallowed

\* A result is handed out once: of several fetches that all read it, only the
\* one whose DEL counts the key succeeds.
AnsweredOnce ==
    \A i, j \in 1..Len(answers) : answers[i][1] = answers[j][1] => i = j

\* The result of a completed request stays in redis until a fetch takes it:
\* nothing else deletes it, although results are read and deleted without the
\* lock and the fetches pop each other's UUIDs.
ResultKept ==
    faults + crashes = 0 =>
       \A u \in Range(complete) \ overtook :
          \/ value[u] = "res"
          \/ \E t \in Thread : req[t].pc = "popc" /\ req[t].uuid = u
          \/ \E i \in 1..Len(answers) : answers[i][1] = u

\* When from some time on nobody holds the read lock, and no request overtakes
\* another, every buffered request leaves the buffer list.
BufferDrains ==
    <>[](readers = 0) /\ [](overtook = {}) =>
       \A u \in UUID : u \in Range(buffer) ~> u \notin Range(buffer)

-----------------------------------------------------------------------------
(* What the comments say and the code does not do.                          *)

\* The comment on MAM_BUFREQ_SENT says "Buffered request has be broadcasted":
\* the status is given for published messages.  A full node that refuses the
\* message goes unnoticed, and PopBuffered may move a UUID pushed after the peek.
SentIsPublished == \A t \in Thread : req[t].pc = "get" => req[t].uuid \in published

\* A comment on the move says "Transfer the transaction to another list in where
\* we store all the successfully broadcasted transactions": a published message
\* leaves the buffer list.  When another UUID was moved in its place its value
\* is already the result, which cannot be parsed as a request in any later
\* round, and everything below it in the list waits with it.
PublishedIsMoved ==
    <>[](readers = 0) => \A u \in UUID : u \in published ~> u \notin Range(buffer)

\* ta_fetch_mam_with_uuid hands out a result and not a request, to one client,
\* and the result is there until then (core.c:741).
ResultOnce == AnswerIsResult /\ AnsweredOnce /\ ResultKept
=============================================================================
