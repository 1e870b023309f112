------------------------------ MODULE Reattacher ------------------------------
(***************************************************************************)
(* The identity table, the two processes that write it and the queries     *)
(* that read it: api_send_transfer() of the accelerator inserts a PENDING  *)
(* row for a transfer it has put on the tangle, and the reattacher process *)
(* walks over the PENDING rows, marks the confirmed ones and attaches the  *)
(* persistent ones again.  A transfer is a bundle of one transaction: the  *)
(* hash of its n-th attachment is <<t, n>>.  Timestamps are kept as ages,  *)
(* cut off where the comparison with PRESISTENT_PENDING_SECOND no longer   *)
(* tells them apart.                                                       *)
(***************************************************************************)
EXTENDS Integers, FiniteSets, FiniteSetsExt

CONSTANTS Txn,            \* transfers, each also the uuid of its row
          Persistent,     \* PRESISTENT_PENDING_SECOND, in ticks
          MaxAttach,      \* bound: attachments of one transfer
          ReattachFaults  \* bound: failed calls and crashes

ASSUME ReattacherAssumption ==
    /\ IsFiniteSet(Txn)
    /\ Persistent \in Nat
    /\ MaxAttach \in Nat \ {0}
    /\ ReattachFaults \in Nat

VARIABLES attached,   \* number of attachments of a transfer on the tangle
          fresh,      \* age of the newest attachment
          confirmed,  \* hashes confirmed on the tangle
          identity,   \* the table: set of rows
          sending,    \* where the send request of a transfer stands
          batch,      \* rows the reattacher has selected and not handled
          worker,     \* what the reattacher does with the row it handles
          spent,      \* faults so far
          known       \* history: every hash a row has held

rvars == <<attached, fresh, confirmed, identity, sending, batch, worker, spent, known>>

Hash == Txn \X (1..MaxAttach)
Age == 0..(Persistent + 1)
Identity == [id : Txn, hash : Hash, status : {"PENDING", "CONFIRMED"}, age : Age]
Sleeping == [at |-> "sleep"]

ReattacherInit ==
    /\ attached = [t \in Txn |-> 0]
    /\ fresh = [t \in Txn |-> 0]
    /\ confirmed = {} /\ identity = {} /\ known = {}
    /\ sending = [t \in Txn |-> "idle"]
    /\ batch = {} /\ worker = Sleeping /\ spent = 0

\* A remote call fails, or a process is killed.
Fault == spent < ReattachFaults /\ spent' = spent + 1

-----------------------------------------------------------------------------
(* Table and tangle *)

\* UPDATE ... WHERE id: replaces the row of the id or creates it.
Upsert(obj) ==
    /\ identity' = {i \in identity : i.id # obj.id} \cup {obj}
    /\ known' = known \cup {obj.hash}

\* The statement succeeds, or fails before or after the server applied it.
db_insert_identity_table(obj, ok) ==
    \/ ok /\ Upsert(obj) /\ UNCHANGED spent
    \/ ~ok /\ Fault /\ (Upsert(obj) \/ UNCHANGED <<identity, known>>)

db_get_identity_objs_by_status(status) == {i \in identity : i.status = status}
db_get_identity_objs_by_uuid_string(t) == {i \in identity : i.id = t}
db_get_identity_objs_by_hash(h) == {i \in identity : i.hash = h}

\* The transaction the two lookups of the HTTP interface lead to.
api_find_transactions_by_id(t) == {i.hash : i \in db_get_identity_objs_by_uuid_string(t)}
api_get_identity_info(h) == {i.status : i \in db_get_identity_objs_by_hash(h)}

Attach(t) ==
    /\ attached[t] < MaxAttach
    /\ attached' = [attached EXCEPT ![t] = @ + 1]
    /\ fresh' = [fresh EXCEPT ![t] = 0]

-----------------------------------------------------------------------------
(* api_send_transfer with DB_ENABLE *)

\* ta_send_transfer: attached and its hash found, attached but not found
\* again, or kept in the transaction buffer.
Transfer(t) ==
    /\ sending[t] = "idle"
    /\ \/ Attach(t) /\ sending' = [sending EXCEPT ![t] = "attached"] /\ UNCHANGED spent
       \/ Attach(t) /\ sending' = [sending EXCEPT ![t] = "error"] /\ Fault
       \/ Fault /\ sending' = [sending EXCEPT ![t] = "buffered"] /\ UNCHANGED <<attached, fresh>>
    /\ UNCHANGED <<confirmed, identity, batch, worker, known>>

\* The broadcast of a buffered transfer, which writes no row.
BroadcastBuffered(t) ==
    /\ sending[t] = "buffered"
    /\ Attach(t)
    /\ sending' = [sending EXCEPT ![t] = "broadcast"]
    /\ UNCHANGED <<confirmed, identity, batch, worker, spent, known>>

\* ta_find_transaction_objects on the hash just attached.
FindObject(t) ==
    /\ sending[t] = "attached"
    /\ \/ sending' = [sending EXCEPT ![t] = "insert"] /\ UNCHANGED spent
       \/ sending' = [sending EXCEPT ![t] = "error"] /\ Fault
    /\ UNCHANGED <<attached, fresh, confirmed, identity, batch, worker, known>>

\* db_insert_tx_into_identity of the hash the send answered.
InsertTx(t) ==
    /\ sending[t] = "insert"
    /\ \E ok \in BOOLEAN :
          /\ db_insert_identity_table([id |-> t, hash |-> <<t, 1>>, status |-> "PENDING", age |-> 0], ok)
          /\ sending' = [sending EXCEPT ![t] = IF ok THEN "answered" ELSE "error"]
    /\ UNCHANGED <<attached, fresh, confirmed, batch, worker>>

\* The accelerator is killed in the middle of its requests.
CrashAccelerator ==
    /\ \E t \in Txn : sending[t] \in {"attached", "insert"}
    /\ Fault
    /\ sending' = [t \in Txn |-> IF sending[t] \in {"attached", "insert"} THEN "error" ELSE sending[t]]
    /\ UNCHANGED <<attached, fresh, confirmed, identity, batch, worker, known>>

-----------------------------------------------------------------------------
(* The reattacher's main loop and handle_pending_txn *)

\* A failed query leaves the array empty and main() ignores the status.
Select ==
    /\ worker = Sleeping /\ batch = {}
    /\ \/ batch' = db_get_identity_objs_by_status("PENDING") /\ batch' # {} /\ UNCHANGED spent
       \/ Fault /\ batch' = {}
    /\ UNCHANGED <<attached, fresh, confirmed, identity, sending, worker, known>>

\* Mutant: the number of states in the answer is not tested.
DecideUnguarded(obj, answer) ==
    CASE answer # "no" -> [at |-> "confirm", obj |-> obj]
      [] answer = "no" /\ obj.age > Persistent -> [at |-> "replay", obj |-> obj]
      [] OTHER -> Sleeping

\* Mutant: the age is compared the wrong way round.
DecideYoung(obj, answer) ==
    CASE answer = "yes" -> [at |-> "confirm", obj |-> obj]
      [] answer = "no" /\ obj.age < Persistent -> [at |-> "replay", obj |-> obj]
      [] OTHER -> Sleeping

\* What handle_pending_txn does with the answer to the inclusion query.
Decide(obj, answer) ==
    CASE answer = "yes" -> [at |-> "confirm", obj |-> obj]
      [] answer = "no" /\ obj.age > Persistent -> [at |-> "replay", obj |-> obj]
      [] OTHER -> Sleeping

\* iota_client_get_latest_inclusion of the hash in the row.
CheckInclusion ==
    /\ worker = Sleeping
    /\ \E obj \in batch :
          /\ batch' = batch \ {obj}
          /\ \/ Fault /\ worker' = Decide(obj, "none")
             \/ obj.hash \in confirmed /\ worker' = Decide(obj, "yes") /\ UNCHANGED spent
             \/ obj.hash \notin confirmed /\ worker' = Decide(obj, "no") /\ UNCHANGED spent
    /\ UNCHANGED <<attached, fresh, confirmed, identity, sending, known>>

\* The row of a confirmed transaction is written with the new status.
WriteConfirmed ==
    /\ worker.at = "confirm"
    /\ \E ok \in BOOLEAN : db_insert_identity_table([worker.obj EXCEPT !.status = "CONFIRMED"], ok)
    /\ worker' = Sleeping
    /\ UNCHANGED <<attached, fresh, confirmed, sending, batch>>

\* Mutant: the third transaction of the bundle instead of the second.
ReplayedThird(obj) == [at |-> "update", obj |-> obj, new |-> <<obj.id, attached[obj.id] + 2>>]

\* The second transaction of the bundle, the first being the original one.
Replayed(obj) == [at |-> "update", obj |-> obj, new |-> <<obj.id, attached[obj.id] + 1>>]

\* Mutant: a failed replay does not leave the branch.
ReplayFailsUnchecked(obj) == worker' = IF attached[obj.id] < MaxAttach THEN Replayed(obj) ELSE Sleeping

ReplayFails(obj) == worker' = Sleeping

\* iota_client_replay_bundle: a new attachment, or the node refuses.
Replay ==
    /\ worker.at = "replay"
    /\ \/ Attach(worker.obj.id) /\ worker' = Replayed(worker.obj) /\ UNCHANGED spent
       \/ Fault /\ ReplayFails(worker.obj) /\ UNCHANGED <<attached, fresh>>
       \/ /\ attached[worker.obj.id] = MaxAttach
          /\ worker' = Sleeping /\ UNCHANGED <<attached, fresh, spent>>
    /\ UNCHANGED <<confirmed, identity, sending, batch, known>>

\* Mutant: the timestamp of the row is not renewed.
RenewedHash(obj, new) == [obj EXCEPT !.hash = new]

\* Mutant: the hash of the row is not renewed.
RenewedTime(obj, new) == [obj EXCEPT !.age = 0]

Renewed(obj, new) == [obj EXCEPT !.hash = new, !.age = 0]

\* The row is written with the hash of the new attachment and the time.
WriteHash ==
    /\ worker.at = "update"
    /\ \E ok \in BOOLEAN : db_insert_identity_table(Renewed(worker.obj, worker.new), ok)
    /\ worker' = Sleeping
    /\ UNCHANGED <<attached, fresh, confirmed, sending, batch>>

\* The process dies and is started again.
CrashReattacher ==
    /\ batch # {} \/ worker # Sleeping
    /\ Fault
    /\ batch' = {} /\ worker' = Sleeping
    /\ UNCHANGED <<attached, fresh, confirmed, identity, sending, known>>

Reattach == Select \/ CheckInclusion \/ WriteConfirmed \/ Replay \/ WriteHash

-----------------------------------------------------------------------------
(* Environment *)

Confirm(h) ==
    /\ h[2] <= attached[h[1]] /\ h \notin confirmed
    /\ confirmed' = confirmed \cup {h}
    /\ UNCHANGED <<attached, fresh, identity, sending, batch, worker, spent, known>>

Older(a) == IF a > Persistent THEN a ELSE a + 1

\* db_ret_identity_time_elapsed grows for rows and for copies of rows.
Tick ==
    /\ fresh' = [t \in Txn |-> IF attached[t] = 0 THEN 0 ELSE Older(fresh[t])]
    /\ identity' = {[i EXCEPT !.age = Older(@)] : i \in identity}
    /\ batch' = {[i EXCEPT !.age = Older(@)] : i \in batch}
    /\ worker' = IF worker = Sleeping THEN worker ELSE [worker EXCEPT !.obj.age = Older(@)]
    /\ UNCHANGED <<attached, confirmed, sending, spent, known>>

ReattacherNext ==
    \/ \E t \in Txn : Transfer(t) \/ BroadcastBuffered(t) \/ FindObject(t) \/ InsertTx(t)
    \/ CrashAccelerator
    \/ Reattach
    \/ CrashReattacher
    \/ \E h \in Hash : Confirm(h)
    \/ Tick

ReattacherSpec == ReattacherInit /\ [][ReattacherNext]_rvars

-----------------------------------------------------------------------------
(* Properties *)

\* Rows name attachments of the bounded kind, and handle_pending_txn works on a
\* row of the table (reattacher_main.c:39).
ReattacherTypeOK ==
    /\ attached \in [Txn -> 0..MaxAttach] /\ fresh \in [Txn -> Age]
    /\ confirmed \in SUBSET Hash /\ known \in SUBSET Hash
    /\ identity \in SUBSET Identity /\ batch \in SUBSET Identity
    /\ sending \in [Txn -> {"idle", "buffered", "broadcast", "attached", "insert", "answered", "error"}]
    /\ worker # Sleeping => worker.at \in {"confirm", "replay", "update"} /\ worker.obj \in Identity
    /\ spent \in 0..ReattachFaults

\* A client whose send was answered finds, by the uuid of the answer and at
\* every later time, exactly one attachment of its own transfer that is on the
\* tangle: no update, crash or failed write of handle_pending_txn loses it
\* (reattacher_main.c:92, apis.c:451).
AnsweredIsFound ==
    \A t \in Txn : sending[t] = "answered" =>
        \E n \in 1..attached[t] : api_find_transactions_by_id(t) = {<<t, n>>}

\* get_identity_info reports a transaction CONFIRMED only when the tangle
\* confirmed it, although the status is written later than it was asked for
\* (reattacher_main.c:51 and 62).
ReportedIsConfirmed ==
    \A h \in Hash : "CONFIRMED" \in api_get_identity_info(h) => h \in confirmed

\* Each fault costs a transfer at most one attachment nobody keeps track of:
\* apart from the one being recorded now, an attachment no row ever named was
\* left behind by a failed call or a crash after reattacher_main.c:75.
OneOrphanPerFault ==
    \A t \in Txn :
        LET orphans == {h \in {t} \X (1..attached[t]) : h \notin known}
            inFlight == {h \in orphans : \/ worker.at = "update" /\ h = worker.new
                                         \/ sending[t] \in {"attached", "insert"}}
        IN  Cardinality(orphans \ inFlight) <= spent

\* A step that attaches a transfer again finds its newest attachment persistent.
AttachesPersistent ==
    \A t \in Txn :
        attached[t] > 0 /\ attached'[t] > attached[t]
          => fresh[t] > Persistent \/ api_find_transactions_by_id(t) # {<<t, attached[t]>>}

\* handle_pending_txn attaches a transfer again only when its newest
\* attachment is persistent, unless the row does not know the newest one
\* (reattacher_main.c:68 and 90).
NewestIsPersistent == [][AttachesPersistent]_rvars

\* No PENDING row is neglected: one whose transaction is confirmed, or whose
\* transfer can be attached again, is sooner or later confirmed or renewed by
\* the loop of main (reattacher_main.c:155).
\* The bound on attachments stands for a node that refuses any further one.
PendingEnds ==
    \A t \in Txn :
        []<>(\A i \in db_get_identity_objs_by_status("PENDING") :
                i.id = t => i.hash \notin confirmed /\ attached[t] = MaxAttach)

\* The rows of the identity table match the tangle: they name an attachment
\* for every answered transfer, say CONFIRMED only of confirmed ones, and
\* miss at most one attachment per fault (reattacher_main.c:39).
RowsMatchTangle == AnsweredIsFound /\ ReportedIsConfirmed /\ OneOrphanPerFault

\* A transfer is attached again when it is due: not before, and in the end
\* (reattacher_main.c:68, reattacher_main.c:155).
RenewedWhenDue == NewestIsPersistent /\ PendingEnds

\* docs/reattacher.md: the reattacher "will update the newest inclusion
\* status": the row of a transfer confirmed on the tangle becomes CONFIRMED.
NewestInclusionStored ==
    \A t \in Txn :
        ((\E n \in 1..MaxAttach : <<t, n>> \in confirmed) /\ \E i \in identity : i.id = t)
          ~> (\E i \in identity : i.id = t /\ i.status = "CONFIRMED")

\* docs/build.md: "every transaction issues from" send transfer "will be
\* stored": a transfer on the tangle whose request is over has its row.
EveryTransferStored ==
    \A t \in Txn : (attached[t] > 0 /\ sending[t] \notin {"attached", "insert"})
                      => api_find_transactions_by_id(t) # {}
=============================================================================
