----------------------------- MODULE TxnBuffer ------------------------------
(***************************************************************************)
(* The transaction buffer: transfers that could not be sent are kept in    *)
(* redis under a UUID (push_txn_to_buffer), re-sent by the health_track    *)
(* thread (broadcast_buffered_txn) and collected by the client with the    *)
(* UUID (ta_fetch_txn_with_uuid).  The HTTP threads and the health thread  *)
(* interleave at every redis command.                                      *)
(*                                                                         *)
(* The MAM buffer shares the rwlock and the two loops.  Here it is reduced *)
(* to what it does to the lock.                                            *)
(***************************************************************************)
EXTENDS BackendRedis

CONSTANTS UUID,        \* the UUIDs that uuid_generate_random may return
          NoUUID,      \* an empty uuid array
          Thread,      \* HTTP threads
          BundleLen,   \* transactions of one transfer bundle
          Capacity,    \* cache capacity, in stored bundles
          MaxFaults,   \* bound on error replies of redis
          MaxCrashes   \* bound on crashes of the process

ASSUME TxnBufferAssumption ==
    /\ IsFiniteSet(UUID) /\ NoUUID \notin UUID
    /\ IsFiniteSet(Thread)
    /\ BundleLen \in Nat \ {0}
    /\ Capacity \in Nat
    /\ MaxFaults \in Nat /\ MaxCrashes \in Nat

VARIABLES buffer,      \* buffer_list_name: unsent UUIDs
          complete,    \* complete_list_name: sent UUIDs
          bundle,      \* the list stored under each UUID
          req,         \* what each HTTP thread is doing, with its locals
          h,           \* the health_track thread, with its locals
          faults, crashes

\* History, read by no action: what has happened to each UUID.
VARIABLES issued,      \* generated
          acked,       \* told to a client
          pushed,      \* pushed to buffer_list
          sent,        \* its bundle was broadcast by the health thread
          overtook,    \* pushed between the health thread's peek and its pop
          taken,       \* popped from complete_list
          dropped,     \* popped from buffer_list and then lost
          delivered    \* how many fetches returned its bundle

store == <<buffer, complete, bundle>>
budget == <<faults, crashes>>
history == <<issued, acked, pushed, sent, overtook, taken, dropped, delivered>>
vars == <<lock, store, req, h, budget, history>>

\* A transaction is its place in the bundle and the place of its trunk: 0 for
\* a tip of the tangle, -1 when PoW has not been done.
Txn == [idx : 1..BundleLen, trunk : -1..BundleLen]

Raw(i) == [idx |-> i, trunk |-> -1]

\* ta_pow goes through the array from the back: the last entry is attached to a
\* tip and every other one to the entry that follows it.
Attach(s) ==
    [i \in DOMAIN s |-> [s[i] EXCEPT !.trunk = IF i = Len(s) THEN 0 ELSE s[i + 1].idx]]

Idle == [pc |-> "idle", uuid |-> NoUUID, idx |-> 0, len |-> 0,
         exist |-> FALSE, err |-> FALSE, got |-> <<>>]

Starting == [pc |-> "status", uuid |-> NoUUID, idx |-> 0, len |-> 0,
             trytes |-> <<>>, evict |-> NoUUID]

Init ==
    /\ LockInit
    /\ buffer = <<>> /\ complete = <<>>
    /\ bundle = [u \in UUID |-> <<>>]
    /\ req = [t \in Thread |-> Idle]
    /\ h = Starting
    /\ faults = 0 /\ crashes = 0
    /\ issued = {} /\ acked = {} /\ pushed = {} /\ sent = {}
    /\ overtook = {} /\ taken = {} /\ dropped = {}
    /\ delivered = [u \in UUID |-> 0]

\* redis answers with an error reply and leaves the store alone.
Fault == faults < MaxFaults /\ faults' = faults + 1 /\ UNCHANGED <<crashes, store>>

\* The health thread is between its peek at the head of buffer_list and the pop.
PeekedPcs == {"ulen", "read", "send", "get", "del", "repush", "wrlock", "bpop"}

-----------------------------------------------------------------------------
(* HTTP threads: a transfer whose ta_send_trytes failed.                    *)

SendTransferFails(t) ==
    /\ req[t].pc = "idle"
    /\ \E u \in UUID \ issued :
          /\ issued' = issued \cup {u}
          /\ req' = [req EXCEPT ![t] = [Idle EXCEPT !.pc = "store", !.uuid = u]]
    /\ UNCHANGED <<lock, store, h, budget, acked, pushed, sent, overtook, taken, dropped, delivered>>

\* The transactions are LPUSHed one by one, so the list ends up reversed.
StoreTxn(t) ==
    LET u == req[t].uuid
        i == req[t].idx + 1
    IN  /\ req[t].pc = "store"
        /\ bundle' = [bundle EXCEPT ![u] = list_push(@, Raw(i))]
        /\ req' = [req EXCEPT ![t].idx = i,
                              ![t].pc = IF i = BundleLen THEN "enqueue" ELSE "store"]
        /\ UNCHANGED <<lock, buffer, complete, h, budget, history>>

\* api_send_transfer returns the UUID when the send failed with
\* SC_CCLIENT_FAILED_RESPONSE, and a bare error after any other failure.  The
\* result of push_txn_to_buffer is not looked at.
Respond(t) ==
    /\ req' = [req EXCEPT ![t] = Idle]
    /\ acked' \in {acked, acked \cup {req[t].uuid}}

EnqueueUuid(t) ==
    LET u == req[t].uuid
    IN  /\ req[t].pc = "enqueue"
        /\ buffer' = list_push(buffer, u)
        /\ pushed' = pushed \cup {u}
        /\ overtook' = IF h.pc \in PeekedPcs THEN overtook \cup {u} ELSE overtook
        /\ Respond(t)
        /\ UNCHANGED <<lock, complete, bundle, h, budget, issued, sent, taken, dropped, delivered>>

PushFails(t) ==
    /\ req[t].pc \in {"store", "enqueue"}
    /\ Fault
    /\ Respond(t)
    /\ UNCHANGED <<lock, h, issued, pushed, sent, overtook, taken, dropped, delivered>>

-----------------------------------------------------------------------------
(* HTTP threads: ta_fetch_txn_with_uuid.                                    *)

Requests == <<issued, acked, pushed, sent, overtook, dropped>>

\* The thread leaves ta_fetch_txn_with_uuid.
Return(t) == req' = [req EXCEPT ![t] = Idle]

\* When the lock is taken the request is answered SC_CACHE_LOCK_FAILURE, and
\* nothing changes.
FetchTxn(t) ==
    /\ req[t].pc = "idle"
    /\ tryrdlock
    /\ \E u \in acked : req' = [req EXCEPT ![t] = [Idle EXCEPT !.pc = "llen_b", !.uuid = u]]
    /\ UNCHANGED <<store, h, budget, history>>

BufferLen(t) ==
    /\ req[t].pc = "llen_b"
    /\ req' = [req EXCEPT ![t].pc = "scan_b", ![t].len = Len(buffer)]
    /\ UNCHANGED <<lock, store, h, budget, history>>

ScanBuffer(t) ==
    /\ req[t].pc = "scan_b" /\ req[t].idx < req[t].len
    /\ req' = [req EXCEPT ![t] = list_exist_step(@, buffer)]
    /\ UNCHANGED <<lock, store, h, budget, history>>

ScanBufferFailed(t) ==
    /\ req[t].pc = "scan_b" /\ req[t].idx = req[t].len
    /\ req[t].err
    /\ rdunlock
    /\ Return(t)
    /\ UNCHANGED <<store, h, budget, history>>

\* MAM_BUFREQ_UNSENT
AnswerUnsent(t) ==
    /\ req[t].pc = "scan_b" /\ req[t].idx = req[t].len
    /\ ~req[t].err /\ req[t].exist
    /\ rdunlock
    /\ Return(t)
    /\ UNCHANGED <<store, h, budget, history>>

CompleteLen(t) ==
    /\ req[t].pc = "scan_b" /\ req[t].idx = req[t].len
    /\ ~req[t].err /\ ~req[t].exist
    /\ req' = [req EXCEPT ![t].pc = "scan_c", ![t].idx = 0, ![t].len = Len(complete)]
    /\ UNCHANGED <<lock, store, h, budget, history>>

ScanComplete(t) ==
    /\ req[t].pc = "scan_c" /\ req[t].idx < req[t].len
    /\ req' = [req EXCEPT ![t] = list_exist_step(@, complete)]
    /\ UNCHANGED <<lock, store, h, budget, history>>

\* This error path does not unlock.
ScanCompleteFailed(t) ==
    /\ req[t].pc = "scan_c" /\ req[t].idx = req[t].len
    /\ req[t].err
    /\ Return(t)
    /\ UNCHANGED <<lock, store, h, budget, history>>

\* MAM_BUFREQ_NOT_EXIST; the api then looks the UUID up in the MAM lists.
AnswerNotExist(t) ==
    /\ req[t].pc = "scan_c" /\ req[t].idx = req[t].len
    /\ ~req[t].err /\ ~req[t].exist
    /\ rdunlock
    /\ req' = [req EXCEPT ![t] = [Idle EXCEPT !.pc = "mam"]]
    /\ UNCHANGED <<store, h, budget, history>>

\* ta_fetch_mam_with_uuid, reduced to its use of the lock: it unlocks on every
\* path, and gives up when it does not get the lock.
FetchMam(t) ==
    /\ req[t].pc = "mam"
    /\ \/ tryrdlock /\ req' = [req EXCEPT ![t].pc = "mamscan"]
       \/ (writer \/ readers = MaxReaders) /\ UNCHANGED lock /\ Return(t)
    /\ UNCHANGED <<store, h, budget, history>>

FetchMamDone(t) ==
    /\ req[t].pc = "mamscan"
    /\ rdunlock
    /\ Return(t)
    /\ UNCHANGED <<store, h, budget, history>>

\* Mutant of BundleSize: the index of the scan is not reset.
BundleSizeKeepsIndex(t) ==
    /\ req[t].pc = "scan_c" /\ req[t].idx = req[t].len
    /\ ~req[t].err /\ req[t].exist
    /\ req' = [req EXCEPT ![t].pc = "unlock", ![t].len = Len(bundle[req[t].uuid])]
    /\ UNCHANGED <<lock, store, h, budget, history>>

BundleSize(t) ==
    /\ req[t].pc = "scan_c" /\ req[t].idx = req[t].len
    /\ ~req[t].err /\ req[t].exist
    /\ req' = [req EXCEPT ![t].pc = "unlock", ![t].idx = 0, ![t].len = Len(bundle[req[t].uuid])]
    /\ UNCHANGED <<lock, store, h, budget, history>>

Unlock(t) ==
    /\ req[t].pc = "unlock"
    /\ rdunlock
    /\ req' = [req EXCEPT ![t].pc = IF req[t].len = 0 THEN "delete" ELSE "read"]
    /\ UNCHANGED <<store, h, budget, history>>

\* The lock is no longer held: the list may have been deleted meanwhile.
ReadTxn(t) ==
    LET r == req[t]
        s == bundle[r.uuid]
    IN  /\ r.pc = "read"
        /\ \/ /\ list_has(s, r.idx)
              /\ req' = [req EXCEPT ![t].idx = @ + 1,
                                    ![t].got = Append(@, list_at(s, r.idx)),
                                    ![t].pc = IF r.idx + 1 = r.len THEN "delete" ELSE "read"]
           \/ ~list_has(s, r.idx) /\ Return(t)
        /\ UNCHANGED <<lock, store, h, budget, history>>

\* Mutant of DeleteBundle: a DEL that counts no key passes for a success.
DeleteBundleTwice(t) ==
    /\ req[t].pc = "delete"
    /\ bundle' = [bundle EXCEPT ![req[t].uuid] = <<>>]
    /\ req' = [req EXCEPT ![t].pc = "popc"]
    /\ UNCHANGED <<lock, buffer, complete, h, budget, history>>

\* Mutant of DeleteBundle: the lock, released before the loop, is released again.
DeleteBundleUnlocks(t) ==
    /\ req[t].pc = "delete"
    /\ bundle' = [bundle EXCEPT ![req[t].uuid] = <<>>]
    /\ req' = [req EXCEPT ![t].pc = "popc"]
    /\ rdunlock
    /\ UNCHANGED <<buffer, complete, h, budget, history>>

\* DEL of a key that is gone counts 0 keys, which redis_del reports as an error.
DeleteBundle(t) ==
    LET u == req[t].uuid
    IN  /\ req[t].pc = "delete"
        /\ \/ /\ bundle[u] # <<>>
              /\ bundle' = [bundle EXCEPT ![u] = <<>>]
              /\ req' = [req EXCEPT ![t].pc = "popc"]
           \/ bundle[u] = <<>> /\ UNCHANGED bundle /\ Return(t)
        /\ UNCHANGED <<lock, buffer, complete, h, budget, history>>

\* Pops the head of complete_list, whichever UUID that is.
PopComplete(t) ==
    /\ req[t].pc = "popc"
    /\ \/ /\ complete # <<>>
          /\ complete' = list_pop(complete)
          /\ taken' = taken \cup {Head(complete)}
          /\ delivered' = [delivered EXCEPT ![req[t].uuid] = @ + 1]
       \/ complete = <<>> /\ UNCHANGED <<complete, taken, delivered>>
    /\ Return(t)
    /\ UNCHANGED <<lock, buffer, bundle, h, budget, Requests>>

\* Mutant of FetchFails: the error path of the loop that runs without the lock
\* releases it.
FetchFailsUnlocks(t) ==
    /\ Fault
    /\ req[t].pc \in {"read", "delete", "popc"} /\ Return(t)
    /\ rdunlock
    /\ UNCHANGED <<h, history>>

\* An error reply of redis in ta_fetch_txn_with_uuid.  A failed LLEN leaves the
\* length 0, a failed LINDEX only sets the error.  LLEN of the bundle fails
\* without releasing the lock.
FetchFails(t) ==
    LET r == req[t]
    IN  /\ Fault
        /\ \/ r.pc = "llen_b" /\ req' = [req EXCEPT ![t].pc = "scan_b", ![t].err = TRUE]
           \/ /\ r.pc = "scan_b" /\ r.idx = r.len /\ ~r.err /\ ~r.exist
              /\ req' = [req EXCEPT ![t].pc = "scan_c", ![t].idx = 0, ![t].len = 0, ![t].err = TRUE]
           \/ /\ r.pc \in {"scan_b", "scan_c"} /\ r.idx < r.len
              /\ req' = [req EXCEPT ![t].idx = @ + 1, ![t].err = TRUE]
           \/ r.pc = "scan_c" /\ r.idx = r.len /\ ~r.err /\ r.exist /\ Return(t)
           \/ r.pc \in {"read", "delete", "popc"} /\ Return(t)
        /\ UNCHANGED <<lock, h, history>>

HttpStep(t) ==
    \/ StoreTxn(t) \/ EnqueueUuid(t)
    \/ BufferLen(t) \/ ScanBuffer(t) \/ ScanBufferFailed(t) \/ AnswerUnsent(t)
    \/ CompleteLen(t) \/ ScanComplete(t) \/ ScanCompleteFailed(t) \/ AnswerNotExist(t)
    \/ FetchMam(t) \/ FetchMamDone(t)
    \/ BundleSize(t) \/ Unlock(t) \/ ReadTxn(t) \/ DeleteBundle(t) \/ PopComplete(t)

-----------------------------------------------------------------------------
(* The health_track thread.                                                 *)

Goto(pc) == h' = [h EXCEPT !.pc = pc]

\* Leave one part of the round for another: the locals of the part are gone,
\* health_track's own uuid stays.
Enter(pc) == h' = [Starting EXCEPT !.pc = pc, !.evict = h.evict]

\* The node is up, or ta_update_full_node_connection tried the priority list
\* and returned SC_OK whatever it found.
NodeStatus ==
    /\ h.pc = "status"
    /\ Goto("blen")
    /\ UNCHANGED <<lock, store, req, budget, history>>

BufferedLen ==
    /\ h.pc = "blen"
    /\ Goto(IF buffer = <<>> THEN "mam" ELSE "peek")
    /\ UNCHANGED <<lock, store, req, budget, history>>

PeekUuid ==
    /\ h.pc = "peek"
    /\ \/ list_has(buffer, 0) /\ h' = [h EXCEPT !.pc = "ulen", !.uuid = list_at(buffer, 0)]
       \/ ~list_has(buffer, 0) /\ Enter("evict")
    /\ UNCHANGED <<lock, store, req, budget, history>>

BufferedSize ==
    /\ h.pc = "ulen"
    /\ LET n == Len(bundle[h.uuid])
       IN  h' = [h EXCEPT !.pc = IF n = 0 THEN "send" ELSE "read",
                          !.len = n, !.idx = 0, !.trytes = <<>>]
    /\ UNCHANGED <<lock, store, req, budget, history>>

ReadBuffered ==
    LET s == bundle[h.uuid]
    IN  /\ h.pc = "read"
        /\ \/ /\ list_has(s, h.idx)
              /\ h' = [h EXCEPT !.idx = @ + 1,
                                !.trytes = Append(@, list_at(s, h.idx)),
                                !.pc = IF h.idx + 1 = h.len THEN "send" ELSE "read"]
           \/ ~list_has(s, h.idx) /\ Enter("evict")
        /\ UNCHANGED <<lock, store, req, budget, history>>

\* ta_send_trytes: ta_pow refuses an empty bundle; the full node may refuse any.
SendTrytes ==
    /\ h.pc = "send"
    /\ h.trytes # <<>>
    /\ h' = [h EXCEPT !.pc = "get", !.trytes = Attach(@)]
    /\ sent' = sent \cup {h.uuid}
    /\ UNCHANGED <<lock, store, req, budget, issued, acked, pushed, overtook, taken, dropped, delivered>>

\* iota_client_get_trytes returns what was attached, in the order asked for.
GetTrytes ==
    /\ h.pc = "get"
    /\ Goto("del")
    /\ UNCHANGED <<lock, store, req, budget, history>>

\* Mutant of NodeFails: the result of ta_send_trytes is not looked at.
NodeFailsIgnored ==
    /\ h.pc \in {"send", "get"}
    /\ Goto("wrlock")
    /\ UNCHANGED <<lock, store, req, budget, history>>

\* The full node does not answer.
NodeFails ==
    /\ h.pc \in {"send", "get"}
    /\ Enter("evict")
    /\ UNCHANGED <<lock, store, req, budget, history>>

DeleteOld ==
    /\ h.pc = "del"
    /\ \/ /\ bundle[h.uuid] # <<>>
          /\ bundle' = [bundle EXCEPT ![h.uuid] = <<>>]
          /\ h' = [h EXCEPT !.pc = "repush", !.idx = 0]
       \/ bundle[h.uuid] = <<>> /\ UNCHANGED bundle /\ Enter("evict")
    /\ UNCHANGED <<lock, buffer, complete, req, budget, history>>

\* Mutant of RepushTxn: the loop ends one transaction early.
RepushTxnShort ==
    LET i == h.idx + 1
    IN  /\ h.pc = "repush"
        /\ bundle' = [bundle EXCEPT ![h.uuid] = list_push(@, h.trytes[i])]
        /\ h' = [h EXCEPT !.idx = i, !.pc = IF i >= Len(h.trytes) - 1 THEN "wrlock" ELSE "repush"]
        /\ UNCHANGED <<lock, buffer, complete, req, budget, history>>

RepushTxn ==
    LET i == h.idx + 1
    IN  /\ h.pc = "repush"
        /\ bundle' = [bundle EXCEPT ![h.uuid] = list_push(@, h.trytes[i])]
        /\ h' = [h EXCEPT !.idx = i, !.pc = IF i = Len(h.trytes) THEN "wrlock" ELSE "repush"]
        /\ UNCHANGED <<lock, buffer, complete, req, budget, history>>

\* Mutant of LockForMove: pthread_rwlock_tryrdlock.
LockForMoveShared ==
    /\ h.pc = "wrlock"
    /\ tryrdlock
    /\ Goto("bpop")
    /\ UNCHANGED <<store, req, budget, history>>

LockForMove ==
    /\ h.pc = "wrlock"
    /\ trywrlock
    /\ Goto("bpop")
    /\ UNCHANGED <<store, req, budget, history>>

\* Mutant of LockForMoveFails: the list is moved all the same.
LockForMoveIgnored ==
    /\ h.pc = "wrlock"
    /\ writer \/ readers > 0
    /\ Goto("bpop")
    /\ UNCHANGED <<lock, store, req, budget, history>>

LockForMoveFails ==
    /\ h.pc = "wrlock"
    /\ writer \/ readers > 0
    /\ Enter("evict")
    /\ UNCHANGED <<lock, store, req, budget, history>>

\* Mutant of PopBuffered: LINDEX in place of LPOP.
PopBufferedPeeks ==
    /\ h.pc = "bpop"
    /\ \/ buffer # <<>> /\ h' = [h EXCEPT !.pc = "bpush", !.uuid = Head(buffer)]
       \/ buffer = <<>> /\ Enter("evict")
    /\ UNCHANGED <<lock, store, req, budget, history>>

\* LPOP overwrites the local uuid: the UUID moved is the head of the list now,
\* not the one that was peeked and sent.
PopBuffered ==
    /\ h.pc = "bpop"
    /\ \/ /\ buffer # <<>>
          /\ buffer' = list_pop(buffer)
          /\ h' = [h EXCEPT !.pc = "bpush", !.uuid = Head(buffer)]
       \/ buffer = <<>> /\ UNCHANGED buffer /\ Enter("evict")
    /\ UNCHANGED <<lock, complete, bundle, req, budget, history>>

\* Mutant of PushComplete: the popped UUID is pushed nowhere.
PushCompleteSkipped ==
    /\ h.pc = "bpush"
    /\ Goto("unlock")
    /\ UNCHANGED <<lock, store, req, budget, history>>

PushComplete ==
    /\ h.pc = "bpush"
    /\ complete' = list_push(complete, h.uuid)
    /\ Goto("unlock")
    /\ UNCHANGED <<lock, buffer, bundle, req, budget, history>>

\* Mutant of UnlockMoved: no unlock.
UnlockMovedForgotten ==
    /\ h.pc = "unlock"
    /\ Enter("blen")
    /\ UNCHANGED <<lock, store, req, budget, history>>

UnlockMoved ==
    /\ h.pc = "unlock"
    /\ wrunlock
    /\ Enter("blen")
    /\ UNCHANGED <<store, req, budget, history>>

\* broadcast_buffered_send_mam_request, reduced to its use of the lock.
BroadcastMam ==
    /\ h.pc = "mam"
    /\ trywrlock
    /\ Goto("mamcs")
    /\ UNCHANGED <<store, req, budget, history>>

\* Its list is empty, or a step before the lock or the lock itself failed.
LeaveMam ==
    /\ h.pc = "mam"
    /\ Enter("evict")
    /\ UNCHANGED <<lock, store, req, budget, history>>

BroadcastMamDone ==
    /\ h.pc = "mamcs"
    /\ wrunlock
    /\ Goto("mam")
    /\ UNCHANGED <<store, req, budget, history>>

\* Mutant of BroadcastFails: the UUID at hand is queued again, popped or not.
BroadcastFailsRequeues ==
    /\ h.pc \in PeekedPcs \cup {"bpush"}
    /\ faults < MaxFaults /\ faults' = faults + 1
    /\ buffer' = list_push(buffer, h.uuid)
    /\ Enter("evict")
    /\ UNCHANGED <<crashes, complete, bundle, lock, req, history>>

\* A command of either broadcast fails.  Both return without unlocking, and
\* what was popped is pushed nowhere.
BroadcastFails ==
    /\ h.pc \in {"status", "blen", "peek", "ulen", "read", "del", "repush", "bpop", "bpush", "mam", "mamcs"}
    /\ Fault
    /\ Enter("evict")
    /\ dropped' = IF h.pc = "bpush" THEN dropped \cup {h.uuid} ELSE dropped
    /\ UNCHANGED <<lock, req, issued, acked, pushed, sent, overtook, taken, delivered>>

\* cache_occupied_space, counted in bundles.
Occupied == Cardinality({u \in UUID : bundle[u] # <<>>})

EvictLock ==
    /\ h.pc = "evict"
    /\ Capacity < Occupied
    /\ trywrlock
    /\ Goto("epop")
    /\ UNCHANGED <<store, req, budget, history>>

\* The end of the round, then sleep(health_track_period).
EvictDone ==
    /\ h.pc = "evict"
    /\ Capacity >= Occupied \/ writer \/ readers > 0
    /\ Enter("status")
    /\ UNCHANGED <<lock, store, req, budget, history>>

\* When the list is empty the local uuid keeps its old value.
EvictPop ==
    /\ h.pc = "epop"
    /\ \/ /\ complete # <<>>
          /\ complete' = list_pop(complete)
          /\ taken' = taken \cup {Head(complete)}
          /\ h' = [h EXCEPT !.pc = "edel", !.evict = Head(complete)]
       \/ complete = <<>> /\ UNCHANGED <<complete, taken>> /\ Goto("edel")
    /\ UNCHANGED <<lock, buffer, bundle, req, budget, Requests, delivered>>

EvictDelete ==
    /\ h.pc = "edel"
    /\ bundle' = [u \in UUID |-> IF u = h.evict THEN <<>> ELSE bundle[u]]
    /\ Goto("eunlock")
    /\ UNCHANGED <<lock, buffer, complete, req, budget, history>>

EvictUnlock ==
    /\ h.pc = "eunlock"
    /\ wrunlock
    /\ Enter("evict")
    /\ UNCHANGED <<store, req, budget, history>>

\* A failed INFO ends the loop (-1 is below any capacity); errors of LPOP and
\* DEL are logged and the loop goes on.
EvictFails ==
    /\ Fault
    /\ \/ h.pc = "evict" /\ Enter("status")
       \/ h.pc = "epop" /\ Goto("edel")
       \/ h.pc = "edel" /\ Goto("eunlock")
    /\ UNCHANGED <<lock, req, history>>

HealthStep ==
    \/ NodeStatus \/ BufferedLen \/ PeekUuid \/ BufferedSize \/ ReadBuffered
    \/ SendTrytes \/ GetTrytes \/ NodeFails \/ DeleteOld \/ RepushTxn
    \/ LockForMove \/ LockForMoveFails \/ PopBuffered \/ PushComplete \/ UnlockMoved
    \/ BroadcastMam \/ LeaveMam \/ BroadcastMamDone
    \/ EvictLock \/ EvictDone \/ EvictPop \/ EvictDelete \/ EvictUnlock

-----------------------------------------------------------------------------
\* The process dies and is restarted: redis keeps its lists, the lock and the
\* threads start afresh.
Crash ==
    /\ crashes < MaxCrashes
    /\ crashes' = crashes + 1
    /\ writer' = FALSE /\ readers' = 0
    /\ req' = [t \in Thread |-> Idle]
    /\ h' = Starting
    /\ dropped' = IF h.pc = "bpush" THEN dropped \cup {h.uuid} ELSE dropped
    /\ UNCHANGED <<store, faults, issued, acked, pushed, sent, overtook, taken, delivered>>

Next ==
    \/ \E t \in Thread : SendTransferFails(t) \/ FetchTxn(t) \/ HttpStep(t)
    \/ \E t \in Thread : PushFails(t) \/ FetchFails(t)
    \/ HealthStep
    \/ BroadcastFails \/ EvictFails
    \/ Crash

Spec == Init /\ [][Next]_vars

\* No thread stops for ever between two statements.  The full node answers if
\* it is asked again and again, and the MAM buffer runs empty.
Fairness ==
    /\ \A t \in Thread : WF_vars(HttpStep(t))
    /\ WF_vars(HealthStep)
    /\ SF_vars(SendTrytes) /\ SF_vars(GetTrytes) /\ SF_vars(LeaveMam)

FairSpec == Spec /\ Fairness
-----------------------------------------------------------------------------
(* Properties.                                                              *)

ReqPc == {"idle", "store", "enqueue", "llen_b", "scan_b", "scan_c", "unlock",
          "read", "delete", "popc", "mam", "mamscan"}

HealthPc == {"status", "blen", "peek", "ulen", "read", "send", "get", "del", "repush",
             "wrlock", "bpop", "bpush", "unlock", "mam", "mamcs",
             "evict", "epop", "edel", "eunlock"}

ReqRecord == [pc : ReqPc, uuid : UUID \cup {NoUUID}, idx : Nat, len : Nat,
              exist : BOOLEAN, err : BOOLEAN, got : Seq(Txn)]

HealthRecord == [pc : HealthPc, uuid : UUID \cup {NoUUID}, idx : Nat, len : Nat,
                 trytes : Seq(Txn), evict : UUID \cup {NoUUID}]

\* Every variable keeps its type.
TypeOK ==
    /\ LockTypeOK
    /\ buffer \in Seq(UUID) /\ complete \in Seq(UUID)
    /\ bundle \in [UUID -> Seq(Txn)]
    /\ req \in [Thread -> ReqRecord]
    /\ h \in HealthRecord
    /\ faults \in 0..MaxFaults /\ crashes \in 0..MaxCrashes
    /\ issued \subseteq UUID /\ acked \subseteq issued /\ pushed \subseteq issued
    /\ sent \subseteq UUID /\ overtook \subseteq UUID
    /\ taken \subseteq UUID /\ dropped \subseteq UUID
    /\ delivered \in [UUID -> Nat]

\* The threads that are inside the section the read lock protects.
ReadPcs == {"llen_b", "scan_b", "scan_c", "unlock", "mamscan"}
Readers == {t \in Thread : req[t].pc \in ReadPcs}

\* The UUID that is in neither list while the health thread moves it.
InHand == IF h.pc = "bpush" THEN {h.uuid} ELSE {}

\* A UUID is moved from buffer_list to complete_list while no HTTP thread scans
\* them (trywrlock in broadcast_buffered_txn against tryrdlock in
\* ta_fetch_txn_with_uuid): no scan can fall between the pop and the push,
\* whatever locks were leaked before.
MoveUnseen ==
    /\ h.pc \in {"bpop", "bpush", "unlock", "mamcs", "epop", "edel", "eunlock"} => writer
    /\ writer => Readers = {}
    /\ Cardinality(Readers) <= readers

\* No accepted request vanishes or is duplicated: a UUID pushed by
\* push_txn_to_buffer is in exactly one place, once: in buffer_list, in the
\* health thread's hand, in complete_list, popped from complete_list, or lost
\* between the two lists - and the last only after an error reply or a crash.
Conservation ==
    /\ IsInjective(buffer) /\ IsInjective(complete)
    /\ pushed = Range(buffer) \cup InHand \cup Range(complete) \cup taken \cup dropped
    /\ Range(buffer) \cap (InHand \cup Range(complete) \cup taken \cup dropped) = {}
    /\ InHand \cap (Range(complete) \cup taken \cup dropped) = {}
    /\ Range(complete) \cap (taken \cup dropped) = {}
    /\ taken \cap dropped = {}
    /\ dropped # {} => faults + crashes > 0

\* complete_list holds sent requests, except the ones pushed on buffer_list
\* while the health thread was between its LINDEX and its LPOP.
SentUnlessOvertaken == Range(complete) \cup taken \cup InHand \subseteq sent \cup overtook

\* MAM_BUFREQ_UNSENT is never stale: a scan of buffer_list that has found the
\* UUID answers while the UUID is still in the list, however many requests are
\* pushed in front of it meanwhile.
UnsentIsCurrent ==
    \A t \in Thread : req[t].pc = "scan_b" /\ req[t].exist => req[t].uuid \in Range(buffer)

\* A bundle is handed out once: of several fetches of one UUID that all read
\* the bundle, only the one whose DEL counts the key succeeds.
DeliveredOnce == \A u \in UUID : delivered[u] <= 1

\* The answer MAM_BUFREQ_SENT carries every transaction of the bundle, although
\* the transactions are read after the lock is released; only an error reply or
\* a crash during the re-push can leave a bundle short.
SentIsWhole ==
    faults + crashes = 0 =>
       \A t \in Thread : req[t].pc = "popc" =>
          /\ Len(req[t].got) = BundleLen
          /\ {req[t].got[i].idx : i \in 1..Len(req[t].got)} = 1..BundleLen

\* The bundle of a request that waits in buffer_list is in redis, complete,
\* unless the health thread is rewriting it: neither eviction nor a fetch of
\* another UUID deletes it.
BufferedHasBundle ==
    faults + crashes = 0 =>
       \A u \in Range(buffer) \cup InHand :
          Len(bundle[u]) = BundleLen \/ (h.pc = "repush" /\ h.uuid = u)

\* When the clients stop polling, every buffered request leaves buffer_list:
\* broadcast_buffered_txn retries it in every round until it is sent and moved.
\* (A poll that always holds the read lock when trywrlock is called would delay
\* the move for ever.)
BufferDrains ==
    <>[](Readers = {}) => \A u \in UUID : u \in Range(buffer) ~> u \notin Range(buffer)

-----------------------------------------------------------------------------
(* What the buffer promises for one request, see RequestLifecycle.          *)

Stage(u) ==
    CASE u \in Range(buffer) \cup InHand -> "unsent"
      [] u \in Range(complete) -> "sent"
      [] u \in taken -> "gone"
      [] u \in dropped -> "lost"
      [] OTHER -> "none"

Lifecycle == INSTANCE RequestLifecycle
    WITH Request <- UUID,
         stage <- [u \in UUID |-> Stage(u)],
         handed <- delivered,
         reliable <- faults + crashes = 0

\* The lists, the lock, the threads and the redis commands together implement
\* the request life cycle: a request only moves forward through its stages,
\* and its bundle is handed out at most once and never while it waits unsent.
ImplementsLifecycle == Lifecycle!Spec

-----------------------------------------------------------------------------
(* What the comments, docs and tests say and the code does not do.          *)

\* periodical_task.c says of the fetch "Delete UUID from sent transaction list":
\* a UUID whose bundle was handed out is no longer in complete_list.  PopComplete
\* pops the head, whichever it is.
FetchedIsDeleted == \A u \in UUID : delivered[u] > 0 => u \notin Range(complete)

\* core.h says of the fetch "If tangle-accelerator can't find the UUID in redis
\* then it will return no_exist": the answer is not given for a UUID that is in
\* buffer_list.  The scan keeps the length it read first, and an LPUSH by
\* another thread moves the last element past it.
NotExistIsAbsent ==
    \A t \in Thread :
       req[t].pc = "scan_c" /\ req[t].idx = req[t].len /\ ~req[t].err /\ ~req[t].exist
       => req[t].uuid \notin Range(buffer)

\* docs/transaction-buffer.md says of the bundle list "the data structure in the
\* redis server is the same as the implementation in iota_common", where the
\* trunk of a transaction is the next one of its bundle.  The list is read back
\* in reverse and attached in that order.
BroadcastIsChained ==
    h.pc = "get" =>
       \A i \in 1..Len(h.trytes) :
          h.trytes[i].trunk = IF h.trytes[i].idx = BundleLen THEN 0 ELSE h.trytes[i].idx + 1

\* periodical_task.h says "Once tangle-accelerator retrieve the connetion with
\* Tangle, then tangle-accelerator will start to broadcast these failed
\* transaction trytes".  While redis is over its capacity and complete_list is
\* empty the eviction loop never ends.
BroadcastResumes == \A u \in UUID : u \in Range(buffer) ~> u \in sent

\* periodical_task.c says of the broadcast "Push UUID of sent transaction into
\* sent transaction list": when the clients stop polling, a UUID that was sent
\* leaves buffer_list.  A scan of complete_list that meets an error returns with
\* the read lock held, and then no trywrlock ever succeeds.
SentIsMoved == <>[](Readers = {}) => \A u \in UUID : u \in sent ~> u \notin Range(buffer)

\* The lists and the bundles agree:
\* the sent list holds sent requests and a waiting request has its bundle
\* (periodical_task.c:188, core.c:599).
ListsAreRight == SentUnlessOvertaken /\ BufferedHasBundle

\* What ta_fetch_txn_with_uuid answers is so: UNSENT is not stale, and SENT
\* carries the whole bundle, to one client (core.c:616).
FetchTellsTruth == UnsentIsCurrent /\ DeliveredOnce /\ SentIsWhole
=============================================================================
