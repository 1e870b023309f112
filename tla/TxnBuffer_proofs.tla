-------------------------- MODULE TxnBuffer_proofs ---------------------------
(* Proofs about the transaction buffer, for any number of threads and UUIDs: *)
(* the types and the lock, and the theorems.                                 *)
EXTENDS TxnBufferSafety_proofs, FiniteSetTheorems

\* A step that names no prover is tried with SMT and then with Zenon, 20 s each.
USE SMTT(20), ZenonT(20)

-----------------------------------------------------------------------------
(* The lock.                                                                 *)

\* A thread inside the read section holds a read lock (tryrdlock succeeded and
\* nothing released it), so rdunlock never takes the count below zero.
LEMMA ReaderHolds ==
    ASSUME TypeOK, MoveUnseen, NEW t \in Readers
    PROVE  readers > 0 /\ ~writer
<1>1. IsFiniteSet(Readers)
  BY TxnBufferAssumption, FS_Subset, Zenon DEF Readers
<1>2. Cardinality(Readers) # 0
  BY <1>1, FS_EmptySet, Zenon
<1>3. Cardinality(Readers) \in Nat
  BY <1>1, FS_CardinalityType, Zenon
<1> QED BY <1>2, <1>3 DEF TypeOK, LockTypeOK, MoveUnseen

\* A thread enters the read section with one more read lock held.
LEMMA ReaderEnters ==
    ASSUME TypeOK, MoveUnseen, NEW t \in Thread, t \notin Readers,
           Readers' = Readers \cup {t}, readers' = readers + 1
    PROVE  Cardinality(Readers') <= readers'
<1>1. IsFiniteSet(Readers)
  BY TxnBufferAssumption, FS_Subset, Zenon DEF Readers
<1>2. Cardinality(Readers') = Cardinality(Readers) + 1 /\ Cardinality(Readers) \in Nat
  BY <1>1, FS_AddElement, FS_CardinalityType, Zenon
<1> QED BY <1>2 DEF TypeOK, LockTypeOK, MoveUnseen

\* A thread leaves the read section and releases its read lock, or leaks it.
LEMMA ReaderLeaves ==
    ASSUME TypeOK, MoveUnseen, NEW t \in Readers,
           Readers' = Readers \ {t}, readers' \in {readers - 1, readers}
    PROVE  Cardinality(Readers') <= readers'
<1>1. IsFiniteSet(Readers)
  BY TxnBufferAssumption, FS_Subset, Zenon DEF Readers
<1>2. Cardinality(Readers') = Cardinality(Readers) - 1 /\ Cardinality(Readers) \in Nat
  BY <1>1, FS_RemoveElement, FS_CardinalityType, Zenon
<1> QED BY <1>2 DEF TypeOK, LockTypeOK, MoveUnseen

\* A step of one HTTP thread keeps the invariant when its new locals r fit the
\* place it goes to and the lock follows the thread into and out of the read
\* section.  It may leave the section without unlocking: the code does.
LEMMA HttpFrame ==
    ASSUME TypeInv, StoreTyped', NEW t \in Thread, NEW r \in ReqRecord,
           req' = [req EXCEPT ![t] = r], h' = h, issued \subseteq issued',
           r.pc \notin {"idle", "mam", "mamscan"} => r.uuid \in issued',
           r.pc = "store" => r.idx < BundleLen,
           \/ r.pc \in ReadPcs /\ req[t].pc \in ReadPcs /\ UNCHANGED lock
           \/ r.pc \in ReadPcs /\ req[t].pc \notin ReadPcs /\ tryrdlock
           \/ r.pc \notin ReadPcs /\ req[t].pc \in ReadPcs /\ (rdunlock \/ UNCHANGED lock)
           \/ r.pc \notin ReadPcs /\ req[t].pc \notin ReadPcs /\ UNCHANGED lock
    PROVE  TypeInv'
<1>1. req \in [Thread -> ReqRecord] /\ h \in HealthRecord /\ LockTypeOK
  BY Zenon DEF TypeInv, TypeOK
<1>2. req' \in [Thread -> ReqRecord] /\ req'[t] = r /\ \A s \in Thread \ {t} : req'[s] = req[s]
  BY <1>1, Zenon
<1>3. TypeOK /\ Locals /\ MoveUnseen
  BY Zenon DEF TypeInv
<1>4. Locals'
  BY <1>2, <1>3, Zenon DEF Locals
<1>5. LockTypeOK' /\ MoveUnseen'
  <2>1. CASE r.pc \in ReadPcs /\ req[t].pc \in ReadPcs /\ UNCHANGED lock
    <3>1. Readers' = Readers
      BY <1>2, <2>1, Zenon DEF Readers
    <3> QED BY <1>1, <1>3, <2>1, <3>1, Zenon DEF MoveUnseen, LockTypeOK, lock
  <2>2. CASE r.pc \in ReadPcs /\ req[t].pc \notin ReadPcs /\ tryrdlock
    <3>1. t \notin Readers /\ Readers' = Readers \cup {t}
      BY <1>2, <2>2, Zenon DEF Readers
    <3>2. Cardinality(Readers') <= readers'
      BY <1>3, <2>2, <3>1, ReaderEnters, Zenon DEF tryrdlock
    <3> QED BY <1>1, <1>3, <2>2, <3>2, MaxReadersAssumption DEF MoveUnseen, LockTypeOK, tryrdlock
  <2>3. CASE r.pc \notin ReadPcs /\ req[t].pc \in ReadPcs /\ (rdunlock \/ UNCHANGED lock)
    <3>1. t \in Readers /\ Readers' = Readers \ {t}
      BY <1>2, <2>3, Zenon DEF Readers
    <3>2. readers > 0 /\ ~writer
      BY <1>3, <3>1, ReaderHolds, Zenon
    <3>3. Cardinality(Readers') <= readers'
      BY <1>3, <2>3, <3>1, ReaderLeaves, Zenon DEF rdunlock, lock
    <3> QED BY <1>1, <1>3, <2>3, <3>2, <3>3, MaxReadersAssumption DEF MoveUnseen, LockTypeOK, rdunlock, lock
  <2>4. CASE r.pc \notin ReadPcs /\ req[t].pc \notin ReadPcs /\ UNCHANGED lock
    <3>1. Readers' = Readers
      BY <1>2, <2>4, Zenon DEF Readers
    <3> QED BY <1>1, <1>3, <2>4, <3>1, Zenon DEF MoveUnseen, LockTypeOK, lock
  <2> QED BY <2>1, <2>2, <2>3, <2>4, Zenon
<1>6. TypeOK'
  BY <1>1, <1>2, <1>5, Zenon DEF TypeOK, StoreTyped
<1> QED BY <1>4, <1>5, <1>6, Zenon DEF TypeInv

\* The places where the health thread holds the write lock.
WritePcs == {"bpop", "bpush", "unlock", "mamcs", "epop", "edel", "eunlock"}

\* The same for a step of the health thread with new locals r.
LEMMA HealthFrame ==
    ASSUME TypeInv, StoreTyped', NEW r \in HealthRecord,
           h' = r, req' = req, issued \subseteq issued',
           r.pc \in PeekedPcs \cup {"bpush"} => r.uuid \in UUID,
           r.pc = "repush" => r.idx < Len(r.trytes),
           r.pc \in {"get", "del"} => r.trytes # <<>>,
           \/ (r.pc \in WritePcs => h.pc \in WritePcs) /\ UNCHANGED lock
           \/ trywrlock
           \/ r.pc \notin WritePcs /\ h.pc \in WritePcs /\ wrunlock
    PROVE  TypeInv'
<1>1. req \in [Thread -> ReqRecord] /\ LockTypeOK /\ Locals /\ MoveUnseen /\ TypeOK
  BY Zenon DEF TypeInv, TypeOK
<1>2. Locals'
  BY <1>1, Zenon DEF Locals
<1>3. Readers' = Readers
  BY Zenon DEF Readers
<1>4. LockTypeOK' /\ MoveUnseen'
  <2>1. CASE (r.pc \in WritePcs => h.pc \in WritePcs) /\ UNCHANGED lock
    BY <1>1, <1>3, <2>1, Zenon DEF MoveUnseen, LockTypeOK, lock, WritePcs
  <2>2. CASE trywrlock
    <3>1. Readers = {}
      BY <1>1, <2>2, ReaderHolds DEF trywrlock
    <3> QED BY <1>1, <1>3, <2>2, <3>1, Zenon DEF MoveUnseen, LockTypeOK, trywrlock
  <2>3. CASE r.pc \notin WritePcs /\ h.pc \in WritePcs /\ wrunlock
    BY <1>1, <1>3, <2>3, Zenon DEF MoveUnseen, LockTypeOK, wrunlock, WritePcs
  <2> QED BY <2>1, <2>2, <2>3, Zenon
<1>5. TypeOK'
  BY <1>1, <1>4, Zenon DEF TypeOK, StoreTyped
<1> QED BY <1>2, <1>4, <1>5, Zenon DEF TypeInv

\* Every step of an HTTP thread that serves a transfer keeps the invariant.
LEMMA TransferTypes ==
    ASSUME TypeInv, NEW t \in Thread,
           SendTransferFails(t) \/ StoreTxn(t) \/ EnqueueUuid(t) \/ PushFails(t)
    PROVE  TypeInv'
<1>1. StoreTyped /\ req \in [Thread -> ReqRecord] /\ req[t] \in ReqRecord
  BY Zenon DEF TypeInv, TypeOK, StoreTyped
<1>2. req[t].pc # "idle" /\ req[t].pc \notin {"mam", "mamscan"} => req[t].uuid \in issued /\ req[t].uuid \in UUID
  BY <1>1, Zenon DEF TypeInv, Locals, StoreTyped
<1>3. CASE SendTransferFails(t)
  <2>1. PICK u \in UUID \ issued :
           issued' = issued \cup {u} /\ req' = [req EXCEPT ![t] = [Idle EXCEPT !.pc = "store", !.uuid = u]]
    BY <1>3, Zenon DEF SendTransferFails
  <2> DEFINE r == [Idle EXCEPT !.pc = "store", !.uuid = u]
  <2>2. r \in ReqRecord /\ r.pc = "store" /\ r.uuid = u /\ r.idx = 0
    <3>1. "store" \in ReqPc
      BY Zenon DEF ReqPc
    <3> QED BY <3>1, IdleType, Zenon DEF ReqRecord
  <2>3. StoreTyped' /\ h' = h /\ UNCHANGED lock /\ req[t].pc \notin ReadPcs
    BY <1>1, <1>3, <2>1, Zenon DEF SendTransferFails, StoreTyped, store, budget, ReadPcs
  <2>4. req' = [req EXCEPT ![t] = r] /\ u \in issued' /\ issued \subseteq issued'
    BY <2>1, Zenon
  <2>5. r.idx < BundleLen
    BY <2>2, TxnBufferAssumption
  <2> HIDE DEF r
  <2> QED BY <2>2, <2>3, <2>4, <2>5, HttpFrame, Zenon DEF ReadPcs
<1>4. CASE StoreTxn(t)
  <2> DEFINE i == req[t].idx + 1
             p == IF i = BundleLen THEN "enqueue" ELSE "store"
             r == [req[t] EXCEPT !.idx = i, !.pc = p]
  <2>1. req[t].pc = "store" /\ req[t].idx < BundleLen /\ req[t].idx \in Nat
    BY <1>1, <1>4, Zenon DEF StoreTxn, TypeInv, Locals, ReqRecord
  <2>2. /\ r \in ReqRecord /\ r.pc \in {"enqueue", "store"} /\ r.uuid = req[t].uuid
        /\ r.pc = "store" => r.idx < BundleLen
    <3>1. p \in ReqPc /\ p \in {"enqueue", "store"} /\ (p = "store" => i < BundleLen) /\ i \in Nat
      BY <2>1, TxnBufferAssumption DEF ReqPc
    <3> HIDE DEF p, i
    <3> QED BY <1>1, <3>1, Zenon DEF ReqRecord
  <2>3. req' = [req EXCEPT ![t] = r]
    BY <1>1, <1>4, Zenon DEF StoreTxn, ReqRecord
  <2>4. Raw(i) \in Txn
    BY <2>1, TxnBufferAssumption DEF Raw, Txn
  <2>5. list_push(bundle[req[t].uuid], Raw(i)) \in Seq(Txn)
    BY <1>1, <1>2, <2>1, <2>4, PushProperties, Zenon DEF StoreTyped
  <2>6. StoreTyped' /\ h' = h /\ UNCHANGED lock /\ issued' = issued
    BY <1>1, <1>4, <2>5, Zenon DEF StoreTxn, StoreTyped, budget, history
  <2> HIDE DEF r
  <2> QED BY <1>2, <2>1, <2>2, <2>3, <2>6, HttpFrame, Zenon DEF ReadPcs
<1>5. CASE EnqueueUuid(t)
  <2>1. list_push(buffer, req[t].uuid) \in Seq(UUID) /\ req[t].uuid \in issued
    BY <1>1, <1>2, <1>5, PushProperties DEF EnqueueUuid, StoreTyped
  <2>2. StoreTyped' /\ h' = h /\ UNCHANGED lock /\ issued' = issued
    BY <1>1, <1>5, <2>1, Zenon DEF EnqueueUuid, Respond, StoreTyped, budget
  <2> QED BY <1>5, <2>2, IdleType, HttpFrame, Zenon DEF EnqueueUuid, Respond, ReadPcs
<1>6. CASE PushFails(t)
  <2>1. StoreTyped' /\ h' = h /\ UNCHANGED lock /\ issued' = issued
    BY <1>1, <1>2, <1>6, TxnBufferAssumption DEF PushFails, Respond, Fault, StoreTyped, store
  <2> QED BY <1>6, <2>1, IdleType, HttpFrame, Zenon DEF PushFails, Respond, ReadPcs
<1> QED BY <1>3, <1>4, <1>5, <1>6, Zenon

\* The steps of FetchLocal keep the invariant: in particular every path takes and releases the
\* read lock as HttpFrame wants it.
LEMMA FetchTypes ==
    ASSUME TypeInv, NEW t \in Thread, FetchLocal(t)
    PROVE  TypeInv'
<1>1. StoreTyped /\ req \in [Thread -> ReqRecord] /\ req[t] \in ReqRecord
  BY Zenon DEF TypeInv, TypeOK, StoreTyped
<1>2. req[t].pc \notin {"idle", "mam", "mamscan"} => req[t].uuid \in issued /\ req[t].uuid \in UUID
  BY <1>1, Zenon DEF TypeInv, Locals, StoreTyped
<1>3. UNCHANGED <<store, h, budget, history>>
  BY Zenon DEF FetchLocal, FetchTxn, BufferLen, ScanBuffer, ScanBufferFailed, AnswerUnsent, CompleteLen,
         ScanComplete, ScanCompleteFailed, AnswerNotExist, FetchMam, FetchMamDone, BundleSize, Unlock, ReadTxn
<1>4. StoreTyped' /\ h' = h /\ issued \subseteq issued' /\ issued' = issued
  BY <1>1, <1>3, Zenon DEF StoreTyped, store, budget, history
<1>5. CASE FetchTxn(t)
  <2>1. PICK u \in acked : req' = [req EXCEPT ![t] = [Idle EXCEPT !.pc = "llen_b", !.uuid = u]]
    BY <1>5, Zenon DEF FetchTxn
  <2> DEFINE r == [Idle EXCEPT !.pc = "llen_b", !.uuid = u]
  <2>2. u \in UUID /\ u \in issued
    BY <1>1, Zenon DEF StoreTyped
  <2>3. r \in ReqRecord /\ r.pc = "llen_b" /\ r.uuid = u
    <3>1. "llen_b" \in ReqPc
      BY Zenon DEF ReqPc
    <3> QED BY <2>2, <3>1, IdleType, Zenon DEF ReqRecord
  <2>4. req' = [req EXCEPT ![t] = r]
    BY <2>1, Zenon
  <2> HIDE DEF r
  <2> QED BY <1>4, <1>5, <2>2, <2>3, <2>4, HttpFrame, Zenon DEF FetchTxn, ReadPcs
<1>6. CASE BufferLen(t)
  <2> DEFINE r == [req[t] EXCEPT !.pc = "scan_b", !.len = Len(buffer)]
  <2>1. r \in ReqRecord /\ r.pc = "scan_b" /\ r.uuid = req[t].uuid
    <3>1. "scan_b" \in ReqPc /\ Len(buffer) \in Nat
      BY <1>1, LenProperties, Zenon DEF ReqPc, StoreTyped
    <3> QED BY <1>1, <3>1, Zenon DEF ReqRecord
  <2>2. req' = [req EXCEPT ![t] = r]
    BY <1>1, <1>6, Zenon DEF BufferLen, ReqRecord
  <2> HIDE DEF r
  <2> QED BY <1>2, <1>4, <1>6, <2>1, <2>2, HttpFrame, Zenon DEF BufferLen, ReadPcs
<1>7. CASE ScanBuffer(t)
  <2> QED BY <1>1, <1>2, <1>4, <1>7, ExistStepType, HttpFrame, Zenon DEF ScanBuffer, ReadPcs
<1>8. CASE ScanBufferFailed(t) \/ AnswerUnsent(t)
  <2>1. /\ req[t].pc = "scan_b" /\ rdunlock
        /\ req' = [req EXCEPT ![t] = Idle]
    BY <1>8, Zenon DEF ScanBufferFailed, AnswerUnsent, Return
  <2> QED BY <1>4, <2>1, IdleType, HttpFrame, Zenon DEF ReadPcs
<1>9. CASE CompleteLen(t)
  <2> DEFINE r == [req[t] EXCEPT !.pc = "scan_c", !.idx = 0, !.len = Len(complete)]
  <2>1. r \in ReqRecord /\ r.pc = "scan_c" /\ r.uuid = req[t].uuid
    <3>1. "scan_c" \in ReqPc /\ Len(complete) \in Nat
      BY <1>1, LenProperties, Zenon DEF ReqPc, StoreTyped
    <3> QED BY <1>1, <3>1, Zenon DEF ReqRecord
  <2>2. req' = [req EXCEPT ![t] = r]
    BY <1>1, <1>9, Zenon DEF CompleteLen, ReqRecord
  <2> HIDE DEF r
  <2> QED BY <1>2, <1>4, <1>9, <2>1, <2>2, HttpFrame, Zenon DEF CompleteLen, ReadPcs
<1>10. CASE ScanComplete(t)
  <2> QED BY <1>1, <1>2, <1>4, <1>10, ExistStepType, HttpFrame, Zenon DEF ScanComplete, ReadPcs
<1>11. CASE ScanCompleteFailed(t)
  <2> QED BY <1>4, <1>11, IdleType, HttpFrame, Zenon DEF ScanCompleteFailed, Return, ReadPcs
<1>12. CASE AnswerNotExist(t)
  <2> DEFINE r == [Idle EXCEPT !.pc = "mam"]
  <2>1. r \in ReqRecord /\ r.pc = "mam"
    <3>1. "mam" \in ReqPc
      BY Zenon DEF ReqPc
    <3> QED BY <3>1, IdleType, Zenon DEF ReqRecord
  <2>2. req' = [req EXCEPT ![t] = r] /\ rdunlock /\ req[t].pc = "scan_c"
    BY <1>12, Zenon DEF AnswerNotExist
  <2> HIDE DEF r
  <2> QED BY <1>4, <2>1, <2>2, HttpFrame, Zenon DEF ReadPcs
<1>13. CASE FetchMam(t)
  <2>1. req[t].pc = "mam"
    BY <1>13, Zenon DEF FetchMam
  <2>2. CASE tryrdlock /\ req' = [req EXCEPT ![t].pc = "mamscan"]
    <3> DEFINE r == [req[t] EXCEPT !.pc = "mamscan"]
    <3>1. r \in ReqRecord /\ r.pc = "mamscan"
      <4>1. "mamscan" \in ReqPc
        BY Zenon DEF ReqPc
      <4> QED BY <1>1, <4>1, Zenon DEF ReqRecord
    <3>2. req' = [req EXCEPT ![t] = r]
      BY <1>1, <2>2, Zenon DEF ReqRecord
    <3> HIDE DEF r
    <3> QED BY <1>4, <2>1, <2>2, <3>1, <3>2, HttpFrame, Zenon DEF ReadPcs
  <2>3. CASE UNCHANGED lock /\ Return(t)
    BY <1>4, <2>1, <2>3, IdleType, HttpFrame, Zenon DEF Return, ReadPcs
  <2> QED BY <1>13, <2>2, <2>3, Zenon DEF FetchMam
<1>14. CASE FetchMamDone(t)
  <2> QED BY <1>4, <1>14, IdleType, HttpFrame, Zenon DEF FetchMamDone, Return, ReadPcs
<1>15. CASE BundleSize(t)
  <2> DEFINE r == [req[t] EXCEPT !.pc = "unlock", !.idx = 0, !.len = Len(bundle[req[t].uuid])]
  <2>1. req[t].pc = "scan_c" /\ req[t].uuid \in UUID
    BY <1>2, <1>15, Zenon DEF BundleSize
  <2>2. r \in ReqRecord /\ r.pc = "unlock" /\ r.uuid = req[t].uuid
    <3>1. "unlock" \in ReqPc /\ Len(bundle[req[t].uuid]) \in Nat
      BY <1>1, <2>1, LenProperties, Zenon DEF ReqPc, StoreTyped
    <3> QED BY <1>1, <3>1, Zenon DEF ReqRecord
  <2>3. req' = [req EXCEPT ![t] = r]
    BY <1>1, <1>15, Zenon DEF BundleSize, ReqRecord
  <2> HIDE DEF r
  <2> QED BY <1>2, <1>4, <1>15, <2>1, <2>2, <2>3, HttpFrame, Zenon DEF BundleSize, ReadPcs
<1>16. CASE Unlock(t)
  <2> DEFINE p == IF req[t].len = 0 THEN "delete" ELSE "read"
             r == [req[t] EXCEPT !.pc = p]
  <2>1. p \in ReqPc /\ p \in {"delete", "read"}
    BY Zenon DEF ReqPc
  <2>2. req' = [req EXCEPT ![t] = r]
    BY <1>1, <1>16, Zenon DEF Unlock, ReqRecord
  <2> HIDE DEF p
  <2>3. r \in ReqRecord /\ r.pc = p /\ r.uuid = req[t].uuid
    BY <1>1, <2>1, Zenon DEF ReqRecord
  <2> HIDE DEF r
  <2> QED BY <1>2, <1>4, <1>16, <2>1, <2>2, <2>3, HttpFrame, Zenon DEF Unlock, ReadPcs
<1>17. CASE ReadTxn(t)
  <2>1. req[t].pc = "read" /\ UNCHANGED lock /\ req[t].uuid \in UUID
    BY <1>2, <1>17, Zenon DEF ReadTxn
  <2>2. CASE Return(t)
    BY <1>4, <2>1, <2>2, IdleType, HttpFrame, Zenon DEF Return, ReadPcs
  <2>3. CASE ~Return(t)
    <3> DEFINE s == bundle[req[t].uuid]
               x == list_at(s, req[t].idx)
               p == IF req[t].idx + 1 = req[t].len THEN "delete" ELSE "read"
               r == [req[t] EXCEPT !.idx = req[t].idx + 1, !.got = Append(req[t].got, x), !.pc = p]
    <3>1. req' = [req EXCEPT ![t] = r] /\ list_has(s, req[t].idx)
      BY <1>1, <1>17, <2>3, Zenon DEF ReadTxn, ReqRecord
    <3>2. s \in Seq(Txn) /\ req[t].idx \in Nat
      BY <1>1, <2>1, Zenon DEF StoreTyped, ReqRecord
    <3>3. x \in Txn
      BY <3>1, <3>2 DEF list_has, list_at
    <3>4. Append(req[t].got, x) \in Seq(Txn) /\ req[t].idx + 1 \in Nat /\ p \in ReqPc /\ p \in {"delete", "read"}
      BY <1>1, <3>2, <3>3 DEF ReqRecord, ReqPc
    <3> HIDE DEF p, x
    <3>5. r \in ReqRecord /\ r.pc = p /\ r.uuid = req[t].uuid
      BY <1>1, <3>4, Zenon DEF ReqRecord
    <3> HIDE DEF r, s
    <3> QED BY <1>2, <1>4, <2>1, <3>1, <3>4, <3>5, HttpFrame, Zenon DEF ReadPcs
  <2> QED BY <2>2, <2>3, Zenon
<1> QED
  BY <1>5, <1>6, <1>7, <1>8, <1>9, <1>10, <1>11, <1>12, <1>13, <1>14, <1>15, <1>16, <1>17, Zenon DEF FetchLocal

\* The end of the fetch, and error replies of redis during it.
LEMMA FetchEndTypes ==
    ASSUME TypeInv, NEW t \in Thread, DeleteBundle(t) \/ PopComplete(t) \/ FetchFails(t)
    PROVE  TypeInv'
<1>1. StoreTyped /\ req \in [Thread -> ReqRecord] /\ req[t] \in ReqRecord
  BY Zenon DEF TypeInv, TypeOK, StoreTyped
<1>2. req[t].pc \notin {"idle", "mam", "mamscan"} => req[t].uuid \in issued /\ req[t].uuid \in UUID
  BY <1>1, Zenon DEF TypeInv, Locals, StoreTyped
<1>3. CASE DeleteBundle(t)
  <2>1. req[t].pc = "delete" /\ UNCHANGED lock /\ h' = h /\ req[t].uuid \in UUID /\ issued' = issued
    BY <1>2, <1>3, Zenon DEF DeleteBundle, history
  <2>2. StoreTyped'
    <3>1. bundle' = bundle \/ bundle' = [bundle EXCEPT ![req[t].uuid] = <<>>]
      BY <1>3, Zenon DEF DeleteBundle
    <3>2. bundle' \in [UUID -> Seq(Txn)]
      <4> DEFINE S == Seq(Txn)
      <4>1. <<>> \in S /\ bundle \in [UUID -> S]
        BY <1>1, EmptySeq DEF StoreTyped
      <4> HIDE DEF S
      <4>2. bundle' \in [UUID -> S]
        BY <2>1, <3>1, <4>1, Zenon
      <4> QED BY <4>2, Zenon DEF S
    <3>3. UNCHANGED <<buffer, complete, budget, history>>
      BY <1>3, Zenon DEF DeleteBundle
    <3> QED BY <1>1, <3>2, <3>3, Zenon DEF StoreTyped, budget, history
  <2>3. CASE Return(t)
    BY <2>1, <2>2, <2>3, IdleType, HttpFrame, Zenon DEF Return, ReadPcs
  <2>4. CASE req' = [req EXCEPT ![t].pc = "popc"]
    <3> DEFINE r == [req[t] EXCEPT !.pc = "popc"]
    <3>1. r \in ReqRecord /\ r.pc = "popc" /\ r.uuid = req[t].uuid
      <4>1. "popc" \in ReqPc
        BY Zenon DEF ReqPc
      <4> QED BY <1>1, <4>1, Zenon DEF ReqRecord
    <3>2. req' = [req EXCEPT ![t] = r]
      BY <1>1, <2>4, Zenon DEF ReqRecord
    <3> HIDE DEF r
    <3> QED BY <1>2, <2>1, <2>2, <3>1, <3>2, HttpFrame, Zenon DEF ReadPcs
  <2> QED BY <1>3, <2>3, <2>4, Zenon DEF DeleteBundle
<1>4. CASE PopComplete(t)
  <2>1. req[t].pc = "popc" /\ UNCHANGED lock /\ h' = h /\ req[t].uuid \in UUID /\ issued' = issued
    BY <1>2, <1>4, Zenon DEF PopComplete, Requests
  <2>2. StoreTyped'
    <3>1. CASE complete # <<>>
      <4>1. list_pop(complete) \in Seq(UUID) /\ Head(complete) \in UUID
        BY <1>1, <3>1, PopProperties, Zenon DEF StoreTyped
      <4>2. delivered' \in [UUID -> Nat]
        <5>1. delivered' = [delivered EXCEPT ![req[t].uuid] = @ + 1]
          BY <1>4, <3>1, Zenon DEF PopComplete
        <5> QED BY <1>1, <2>1, <5>1 DEF StoreTyped
      <4> QED BY <1>1, <1>4, <3>1, <4>1, <4>2, Zenon DEF PopComplete, StoreTyped, budget, Requests
    <3>2. CASE complete = <<>>
      BY <1>1, <1>4, <3>2, Zenon DEF PopComplete, StoreTyped, budget, Requests
    <3> QED BY <3>1, <3>2, Zenon
  <2> QED BY <1>4, <2>1, <2>2, IdleType, HttpFrame, Zenon DEF PopComplete, Return, ReadPcs
<1>5. CASE FetchFails(t)
  <2>1. UNCHANGED lock /\ h' = h /\ issued' = issued /\ StoreTyped'
    BY <1>1, <1>5, TxnBufferAssumption DEF FetchFails, Fault, StoreTyped, store, history
  <2>2. CASE Return(t) /\ req[t].pc \in {"scan_c", "read", "delete", "popc"}
    BY <2>1, <2>2, IdleType, HttpFrame, Zenon DEF Return, ReadPcs
  <2>3. CASE req[t].pc = "llen_b" /\ req' = [req EXCEPT ![t].pc = "scan_b", ![t].err = TRUE]
    <3> DEFINE r == [req[t] EXCEPT !.pc = "scan_b", !.err = TRUE]
    <3>1. r \in ReqRecord /\ r.pc = "scan_b" /\ r.uuid = req[t].uuid
      <4>1. "scan_b" \in ReqPc
        BY Zenon DEF ReqPc
      <4> QED BY <1>1, <4>1, Zenon DEF ReqRecord
    <3>2. req' = [req EXCEPT ![t] = r]
      BY <1>1, <2>3, Zenon DEF ReqRecord
    <3> HIDE DEF r
    <3> QED BY <1>2, <2>1, <2>3, <3>1, <3>2, HttpFrame, Zenon DEF ReadPcs
  <2>4. CASE /\ req[t].pc = "scan_b"
             /\ req' = [req EXCEPT ![t].pc = "scan_c", ![t].idx = 0, ![t].len = 0, ![t].err = TRUE]
    <3> DEFINE r == [req[t] EXCEPT !.pc = "scan_c", !.idx = 0, !.len = 0, !.err = TRUE]
    <3>1. r \in ReqRecord /\ r.pc = "scan_c" /\ r.uuid = req[t].uuid
      <4>1. "scan_c" \in ReqPc
        BY Zenon DEF ReqPc
      <4> QED BY <1>1, <4>1, Zenon DEF ReqRecord
    <3>2. req' = [req EXCEPT ![t] = r]
      BY <1>1, <2>4, Zenon DEF ReqRecord
    <3> HIDE DEF r
    <3> QED BY <1>2, <2>1, <2>4, <3>1, <3>2, HttpFrame, Zenon DEF ReadPcs
  <2>5. CASE /\ req[t].pc \in {"scan_b", "scan_c"}
             /\ req' = [req EXCEPT ![t].idx = @ + 1, ![t].err = TRUE]
    <3> DEFINE r == [req[t] EXCEPT !.idx = req[t].idx + 1, !.err = TRUE]
    <3>1. r \in ReqRecord /\ r.pc = req[t].pc /\ r.uuid = req[t].uuid
      <4>1. req[t].idx + 1 \in Nat
        BY <1>1 DEF ReqRecord
      <4> QED BY <1>1, <4>1, Zenon DEF ReqRecord
    <3>2. req' = [req EXCEPT ![t] = r]
      BY <1>1, <2>5, Zenon DEF ReqRecord
    <3> HIDE DEF r
    <3> QED BY <1>2, <2>1, <2>5, <3>1, <3>2, HttpFrame, Zenon DEF ReadPcs
  <2> QED BY <1>5, <2>2, <2>3, <2>4, <2>5, ZenonT(30) DEF FetchFails
<1> QED BY <1>3, <1>4, <1>5, Zenon

\* Entering a part of the round, without having taken the lock for it.
LEMMA EnterTypes ==
    ASSUME TypeInv, StoreTyped', req' = req, issued' = issued,
           NEW p \in {"status", "blen", "evict"}, Enter(p),
           UNCHANGED lock \/ (h.pc \in WritePcs /\ wrunlock)
    PROVE  TypeInv'
<1>1. h \in HealthRecord
  BY Zenon DEF TypeInv, TypeOK
<1> DEFINE r == [Starting EXCEPT !.pc = p, !.evict = h.evict]
<1>2. p \in HealthPc /\ h.evict \in UUID \cup {NoUUID}
  BY <1>1, Zenon DEF HealthPc, HealthRecord
<1>3. r \in HealthRecord /\ r.pc = p
  BY <1>2, StartingType, Zenon
<1>4. h' = r
  BY Zenon DEF Enter
<1> HIDE DEF r
<1> QED BY <1>3, <1>4, HealthFrame, Zenon DEF PeekedPcs, WritePcs

\* Reading, sending and re-pushing the peeked bundle keeps the invariant.
LEMMA BroadcastTypes ==
    ASSUME TypeInv,
           \/ NodeStatus \/ BufferedLen \/ PeekUuid \/ BufferedSize \/ ReadBuffered
           \/ SendTrytes \/ GetTrytes \/ NodeFails \/ DeleteOld \/ RepushTxn
    PROVE  TypeInv'
<1>1. StoreTyped /\ h \in HealthRecord
  BY Zenon DEF TypeInv, TypeOK, StoreTyped
<1>2. h.pc \in PeekedPcs \cup {"bpush"} => h.uuid \in UUID
  BY Zenon DEF TypeInv, Locals
<1>3. UNCHANGED lock /\ req' = req /\ issued' = issued
  BY Zenon DEF NodeStatus, BufferedLen, PeekUuid, BufferedSize, ReadBuffered, SendTrytes, GetTrytes,
         NodeFails, DeleteOld, RepushTxn, history
<1> DEFINE To(p) == [h EXCEPT !.pc = p]
<1>4. ASSUME NEW p \in HealthPc
      PROVE  To(p) \in HealthRecord /\ To(p).pc = p /\ To(p).uuid = h.uuid /\ To(p).trytes = h.trytes
  BY <1>1, Zenon DEF HealthRecord
<1>5. ASSUME UNCHANGED <<store, budget, history>>
      PROVE  StoreTyped'
  BY <1>1, <1>5, Zenon DEF StoreTyped, store, budget, history
<1> HIDE DEF To
<1>6. CASE NodeStatus
  <2>1. "blen" \in HealthPc /\ h' = To("blen") /\ StoreTyped'
    BY <1>5, <1>6, Zenon DEF NodeStatus, Goto, HealthPc, To
  <2> QED BY <1>3, <1>4, <2>1, HealthFrame, Zenon DEF PeekedPcs, WritePcs
<1>7. CASE BufferedLen
  <2> DEFINE p == IF buffer = <<>> THEN "mam" ELSE "peek"
  <2>1. p \in HealthPc /\ p \in {"mam", "peek"} /\ h' = To(p) /\ StoreTyped'
    BY <1>5, <1>7, Zenon DEF BufferedLen, Goto, HealthPc, To
  <2> HIDE DEF p
  <2> QED BY <1>3, <1>4, <2>1, HealthFrame, Zenon DEF PeekedPcs, WritePcs
<1>8. CASE PeekUuid
  <2>1. StoreTyped'
    BY <1>5, <1>8, Zenon DEF PeekUuid
  <2>2. CASE Enter("evict")
    BY <1>3, <2>1, <2>2, EnterTypes, Zenon
  <2>3. CASE ~Enter("evict")
    <3> DEFINE r == [h EXCEPT !.pc = "ulen", !.uuid = list_at(buffer, 0)]
    <3>1. h' = r /\ list_has(buffer, 0)
      BY <1>8, <2>3, Zenon DEF PeekUuid
    <3>2. list_at(buffer, 0) \in UUID
      BY <1>1, <3>1 DEF list_has, list_at, StoreTyped
    <3>3. r \in HealthRecord /\ r.pc = "ulen" /\ r.uuid \in UUID
      <4>1. "ulen" \in HealthPc
        BY Zenon DEF HealthPc
      <4> QED BY <1>1, <3>2, <4>1, Zenon DEF HealthRecord
    <3> HIDE DEF r
    <3> QED BY <1>3, <2>1, <3>1, <3>3, HealthFrame DEF WritePcs
  <2> QED BY <2>2, <2>3, Zenon
<1>9. CASE BufferedSize
  <2>1. StoreTyped' /\ h.pc = "ulen" /\ h.uuid \in UUID
    BY <1>2, <1>5, <1>9, Zenon DEF BufferedSize, PeekedPcs
  <2> DEFINE n == Len(bundle[h.uuid])
             p == IF n = 0 THEN "send" ELSE "read"
             r == [h EXCEPT !.pc = p, !.len = n, !.idx = 0, !.trytes = <<>>]
  <2>2. n \in Nat /\ p \in HealthPc /\ p \in {"send", "read"} /\ <<>> \in Seq(Txn)
    BY <1>1, <2>1, LenProperties, EmptySeq DEF StoreTyped, HealthPc
  <2>3. h' = r
    BY <1>9, Zenon DEF BufferedSize
  <2> HIDE DEF p, n
  <2>4. r \in HealthRecord /\ r.pc = p /\ r.uuid = h.uuid
    BY <1>1, <2>2, Zenon DEF HealthRecord
  <2> HIDE DEF r
  <2> QED BY <1>3, <2>1, <2>2, <2>3, <2>4, HealthFrame, Zenon DEF WritePcs
<1>10. CASE ReadBuffered
  <2>1. StoreTyped' /\ h.pc = "read" /\ h.uuid \in UUID
    BY <1>2, <1>5, <1>10, Zenon DEF ReadBuffered, PeekedPcs
  <2>2. CASE Enter("evict")
    BY <1>3, <2>1, <2>2, EnterTypes, Zenon
  <2>3. CASE ~Enter("evict")
    <3> DEFINE s == bundle[h.uuid]
               x == list_at(s, h.idx)
               p == IF h.idx + 1 = h.len THEN "send" ELSE "read"
               r == [h EXCEPT !.idx = h.idx + 1, !.trytes = Append(h.trytes, x), !.pc = p]
    <3>1. h' = r /\ list_has(s, h.idx)
      BY <1>10, <2>3, Zenon DEF ReadBuffered
    <3>2. s \in Seq(Txn) /\ h.idx \in Nat /\ h.trytes \in Seq(Txn)
      BY <1>1, <2>1, Zenon DEF StoreTyped, HealthRecord
    <3>3. x \in Txn
      BY <3>1, <3>2 DEF list_has, list_at
    <3>4. Append(h.trytes, x) \in Seq(Txn) /\ h.idx + 1 \in Nat /\ p \in HealthPc /\ p \in {"send", "read"}
      BY <3>2, <3>3 DEF HealthPc
    <3> HIDE DEF p, x
    <3>5. r \in HealthRecord /\ r.pc = p /\ r.uuid = h.uuid
      BY <1>1, <3>4, Zenon DEF HealthRecord
    <3> HIDE DEF r, s
    <3> QED BY <1>3, <2>1, <3>1, <3>4, <3>5, HealthFrame DEF WritePcs
  <2> QED BY <2>2, <2>3, Zenon
<1>11. CASE SendTrytes
  <2> DEFINE r == [h EXCEPT !.pc = "get", !.trytes = Attach(h.trytes)]
  <2>1. /\ h' = r /\ h.pc = "send" /\ h.trytes # <<>> /\ h.uuid \in UUID
    BY <1>2, <1>11, Zenon DEF SendTrytes, PeekedPcs
  <2>2. StoreTyped'
    BY <1>1, <1>11, <2>1, Zenon DEF SendTrytes, StoreTyped, store, budget
  <2>3. h.trytes \in Seq(Txn) /\ Attach(h.trytes) \in Seq(Txn) /\ Len(Attach(h.trytes)) = Len(h.trytes)
    BY <1>1, AttachType, Zenon DEF HealthRecord
  <2>4. Attach(h.trytes) # <<>>
    BY <2>1, <2>3, EmptySeq, Zenon
  <2>5. r \in HealthRecord /\ r.pc = "get" /\ r.uuid = h.uuid /\ r.trytes = Attach(h.trytes)
    <3>1. "get" \in HealthPc
      BY Zenon DEF HealthPc
    <3> QED BY <1>1, <2>3, <3>1, Zenon DEF HealthRecord
  <2> HIDE DEF r
  <2> QED BY <1>3, <2>1, <2>2, <2>4, <2>5, HealthFrame DEF WritePcs
<1>12. CASE GetTrytes
  <2>1. /\ "del" \in HealthPc /\ h' = To("del") /\ StoreTyped' /\ h.pc = "get"
        /\ h.uuid \in UUID /\ h.trytes # <<>>
    BY <1>2, <1>5, <1>12, Zenon DEF GetTrytes, Goto, HealthPc, To, PeekedPcs, TypeInv, Locals
  <2> QED BY <1>3, <1>4, <2>1, HealthFrame, Zenon DEF PeekedPcs, WritePcs
<1>13. CASE NodeFails
  BY <1>3, <1>5, <1>13, EnterTypes, Zenon DEF NodeFails
<1>14. CASE DeleteOld
  <2>1. /\ h.pc = "del" /\ h.uuid \in UUID /\ h.trytes # <<>> /\ h.trytes \in Seq(Txn)
        /\ UNCHANGED <<buffer, complete, budget, history>>
    BY <1>1, <1>2, <1>14, Zenon DEF DeleteOld, PeekedPcs, TypeInv, Locals, HealthRecord
  <2>2. StoreTyped'
    <3> DEFINE S == Seq(Txn)
    <3>1. <<>> \in S /\ bundle \in [UUID -> S]
      BY <1>1, EmptySeq DEF StoreTyped
    <3> HIDE DEF S
    <3>2. bundle' = bundle \/ bundle' = [bundle EXCEPT ![h.uuid] = <<>>]
      BY <1>14, Zenon DEF DeleteOld
    <3>3. bundle' \in [UUID -> S]
      BY <2>1, <3>1, <3>2, Zenon
    <3> QED BY <1>1, <2>1, <3>3, Zenon DEF StoreTyped, budget, history, S
  <2>3. CASE Enter("evict")
    BY <1>3, <2>2, <2>3, EnterTypes, Zenon
  <2>4. CASE h' = [h EXCEPT !.pc = "repush", !.idx = 0]
    <3> DEFINE r == [h EXCEPT !.pc = "repush", !.idx = 0]
    <3>1. r \in HealthRecord /\ r.pc = "repush" /\ r.uuid = h.uuid /\ r.idx = 0 /\ r.trytes = h.trytes
      <4>1. "repush" \in HealthPc
        BY Zenon DEF HealthPc
      <4> QED BY <1>1, <4>1, Zenon DEF HealthRecord
    <3>2. 0 < Len(h.trytes)
      BY <2>1, EmptySeq
    <3>3. h' = r
      BY <2>4, Zenon
    <3> HIDE DEF r
    <3> QED BY <1>3, <2>1, <2>2, <3>1, <3>2, <3>3, HealthFrame, Zenon DEF WritePcs
  <2> QED BY <1>14, <2>3, <2>4, Zenon DEF DeleteOld
<1>15. CASE RepushTxn
  <2> DEFINE i == h.idx + 1
             p == IF i = Len(h.trytes) THEN "wrlock" ELSE "repush"
             r == [h EXCEPT !.idx = i, !.pc = p]
             x == h.trytes[i]
  <2>1. /\ h.pc = "repush" /\ h.uuid \in UUID /\ h.trytes \in Seq(Txn) /\ h.idx \in Nat
        /\ h.idx < Len(h.trytes)
    BY <1>1, <1>2, <1>15, Zenon DEF RepushTxn, PeekedPcs, TypeInv, Locals, HealthRecord
  <2>2. i \in 1..Len(h.trytes) /\ x \in Txn /\ i \in Nat
    BY <2>1, LenProperties
  <2>3. h' = r /\ bundle' = [bundle EXCEPT ![h.uuid] = list_push(@, x)] /\ UNCHANGED <<buffer, complete, budget, history>>
    BY <1>15, Zenon DEF RepushTxn
  <2>4. list_push(bundle[h.uuid], x) \in Seq(Txn)
    BY <1>1, <2>1, <2>2, PushProperties, Zenon DEF StoreTyped
  <2>5. StoreTyped'
    BY <1>1, <2>1, <2>3, <2>4, Zenon DEF StoreTyped, budget, history
  <2>6. p \in HealthPc /\ p \in {"wrlock", "repush"} /\ (p = "repush" => i < Len(h.trytes))
    BY <2>1, <2>2, LenProperties DEF HealthPc
  <2> HIDE DEF p, i
  <2>7. r \in HealthRecord /\ r.pc = p /\ r.uuid = h.uuid /\ r.idx = i /\ r.trytes = h.trytes
    BY <1>1, <2>2, <2>6, Zenon DEF HealthRecord
  <2> HIDE DEF r
  <2> QED BY <1>3, <2>1, <2>3, <2>5, <2>6, <2>7, HealthFrame DEF WritePcs
<1> QED BY <1>6, <1>7, <1>8, <1>9, <1>10, <1>11, <1>12, <1>13, <1>14, <1>15

\* The rest of the round: the move to complete_list, the MAM part, eviction.
LEMMA MoveTypes ==
    ASSUME TypeInv,
           \/ LockForMove \/ LockForMoveFails \/ PopBuffered \/ PushComplete \/ UnlockMoved
           \/ BroadcastMam \/ LeaveMam \/ BroadcastMamDone
           \/ EvictLock \/ EvictDone \/ EvictPop \/ EvictDelete \/ EvictUnlock
           \/ BroadcastFails \/ EvictFails
    PROVE  TypeInv'
<1>1. StoreTyped /\ h \in HealthRecord /\ h.uuid \in UUID \cup {NoUUID} /\ h.evict \in UUID \cup {NoUUID}
  BY Zenon DEF TypeInv, TypeOK, StoreTyped, HealthRecord
<1>2. h.pc \in PeekedPcs \cup {"bpush"} => h.uuid \in UUID
  BY Zenon DEF TypeInv, Locals
<1>3. req' = req /\ issued' = issued
  BY Zenon DEF LockForMove, LockForMoveFails, PopBuffered, PushComplete, UnlockMoved, BroadcastMam, LeaveMam,
         BroadcastMamDone, EvictLock, EvictDone, EvictPop, EvictDelete, EvictUnlock, BroadcastFails,
         EvictFails, history, Requests
<1> DEFINE To(p) == [h EXCEPT !.pc = p]
<1>4. ASSUME NEW p \in HealthPc
      PROVE  To(p) \in HealthRecord /\ To(p).pc = p /\ To(p).uuid = h.uuid
  BY <1>1, Zenon DEF HealthRecord
<1>5. ASSUME UNCHANGED <<store, budget, history>>
      PROVE  StoreTyped'
  BY <1>1, <1>5, Zenon DEF StoreTyped, store, budget, history
<1> HIDE DEF To
<1>6. CASE LockForMove
  <2>1. "bpop" \in HealthPc /\ h' = To("bpop") /\ StoreTyped' /\ trywrlock /\ h.uuid \in UUID
    BY <1>2, <1>5, <1>6, Zenon DEF LockForMove, Goto, HealthPc, To, PeekedPcs
  <2> QED BY <1>3, <1>4, <2>1, HealthFrame, Zenon
<1>7. CASE LockForMoveFails \/ LeaveMam
  BY <1>3, <1>5, <1>7, EnterTypes, Zenon DEF LockForMoveFails, LeaveMam
<1>8. CASE PopBuffered
  <2>1. h.pc = "bpop" /\ UNCHANGED lock
    BY <1>8, Zenon DEF PopBuffered
  <2>2. CASE buffer = <<>>
    <3>1. Enter("evict") /\ StoreTyped'
      BY <1>1, <1>8, <2>2, Zenon DEF PopBuffered, StoreTyped, budget, history
    <3> QED BY <1>3, <2>1, <3>1, EnterTypes, Zenon
  <2>3. CASE buffer # <<>>
    <3> DEFINE r == [h EXCEPT !.pc = "bpush", !.uuid = Head(buffer)]
    <3>1. Head(buffer) \in UUID /\ list_pop(buffer) \in Seq(UUID)
      BY <1>1, <2>3, PopProperties, Zenon DEF StoreTyped
    <3>2. h' = r /\ StoreTyped'
      BY <1>1, <1>8, <2>3, <3>1, Zenon DEF PopBuffered, StoreTyped, budget, history
    <3>3. r \in HealthRecord /\ r.pc = "bpush" /\ r.uuid \in UUID
      <4>1. "bpush" \in HealthPc
        BY Zenon DEF HealthPc
      <4> QED BY <1>1, <3>1, <4>1, Zenon DEF HealthRecord
    <3> HIDE DEF r
    <3> QED BY <1>3, <2>1, <3>2, <3>3, HealthFrame, Zenon DEF WritePcs
  <2> QED BY <2>2, <2>3, Zenon
<1>9. CASE PushComplete
  <2>1. h.pc = "bpush" /\ UNCHANGED lock /\ h.uuid \in UUID /\ h' = To("unlock") /\ "unlock" \in HealthPc
    BY <1>2, <1>9, Zenon DEF PushComplete, Goto, To, HealthPc
  <2>2. list_push(complete, h.uuid) \in Seq(UUID)
    BY <1>1, <2>1, PushProperties, Zenon DEF StoreTyped
  <2>3. StoreTyped'
    BY <1>1, <1>9, <2>2, Zenon DEF PushComplete, StoreTyped, budget, history
  <2> QED BY <1>3, <1>4, <2>1, <2>3, HealthFrame, Zenon DEF WritePcs, PeekedPcs
<1>10. CASE UnlockMoved
  <2>1. h.pc = "unlock" /\ wrunlock /\ Enter("blen") /\ StoreTyped'
    BY <1>5, <1>10, Zenon DEF UnlockMoved
  <2> QED BY <1>3, <2>1, EnterTypes, Zenon DEF WritePcs
<1>11. CASE BroadcastMam
  <2>1. "mamcs" \in HealthPc /\ h' = To("mamcs") /\ StoreTyped' /\ trywrlock
    BY <1>5, <1>11, Zenon DEF BroadcastMam, Goto, HealthPc, To
  <2> QED BY <1>3, <1>4, <2>1, HealthFrame, Zenon DEF PeekedPcs
<1>12. CASE BroadcastMamDone
  <2>1. "mam" \in HealthPc /\ h' = To("mam") /\ StoreTyped' /\ wrunlock /\ h.pc = "mamcs"
    BY <1>5, <1>12, Zenon DEF BroadcastMamDone, Goto, HealthPc, To
  <2> QED BY <1>3, <1>4, <2>1, HealthFrame, Zenon DEF PeekedPcs, WritePcs
<1>13. CASE EvictLock
  <2>1. "epop" \in HealthPc /\ h' = To("epop") /\ StoreTyped' /\ trywrlock
    BY <1>5, <1>13, Zenon DEF EvictLock, Goto, HealthPc, To
  <2> QED BY <1>3, <1>4, <2>1, HealthFrame, Zenon DEF PeekedPcs
<1>14. CASE EvictDone
  BY <1>3, <1>5, <1>14, EnterTypes, Zenon DEF EvictDone
<1>15. CASE EvictPop
  <2>1. h.pc = "epop" /\ UNCHANGED lock
    BY <1>15, Zenon DEF EvictPop
  <2>2. CASE complete = <<>>
    <3>1. h' = To("edel") /\ StoreTyped' /\ "edel" \in HealthPc
      BY <1>1, <1>15, <2>2, Zenon DEF EvictPop, StoreTyped, budget, Requests, Goto, To, HealthPc
    <3> QED BY <1>3, <1>4, <2>1, <3>1, HealthFrame, Zenon DEF PeekedPcs, WritePcs
  <2>3. CASE complete # <<>>
    <3> DEFINE r == [h EXCEPT !.pc = "edel", !.evict = Head(complete)]
    <3>1. Head(complete) \in UUID /\ list_pop(complete) \in Seq(UUID)
      BY <1>1, <2>3, PopProperties, Zenon DEF StoreTyped
    <3>2. h' = r /\ StoreTyped'
      BY <1>1, <1>15, <2>3, <3>1, Zenon DEF EvictPop, StoreTyped, budget, Requests
    <3>3. r \in HealthRecord /\ r.pc = "edel"
      <4>1. "edel" \in HealthPc
        BY Zenon DEF HealthPc
      <4> QED BY <1>1, <3>1, <4>1, Zenon DEF HealthRecord
    <3> HIDE DEF r
    <3> QED BY <1>3, <2>1, <3>2, <3>3, HealthFrame, Zenon DEF PeekedPcs, WritePcs
  <2> QED BY <2>2, <2>3, Zenon
<1>16. CASE EvictDelete
  <2>1. h.pc = "edel" /\ UNCHANGED lock /\ h' = To("eunlock") /\ "eunlock" \in HealthPc
    BY <1>16, Zenon DEF EvictDelete, Goto, To, HealthPc
  <2>2. StoreTyped'
    <3> DEFINE S == Seq(Txn)
    <3>1. <<>> \in S /\ bundle \in [UUID -> S]
      BY <1>1, EmptySeq, SMTT(30) DEF StoreTyped
    <3> HIDE DEF S
    <3>2. bundle' = [u \in UUID |-> IF u = h.evict THEN <<>> ELSE bundle[u]]
      BY <1>16, Zenon DEF EvictDelete
    <3>3. bundle' \in [UUID -> S]
      BY <3>1, <3>2, Zenon
    <3>4. UNCHANGED <<buffer, complete, budget, history>>
      BY <1>16, Zenon DEF EvictDelete
    <3> QED BY <1>1, <3>3, <3>4, Zenon DEF StoreTyped, budget, history, S
  <2> QED BY <1>3, <1>4, <2>1, <2>2, HealthFrame, Zenon DEF PeekedPcs, WritePcs
<1>17. CASE EvictUnlock
  <2>1. h.pc = "eunlock" /\ wrunlock /\ Enter("evict") /\ StoreTyped'
    BY <1>5, <1>17, Zenon DEF EvictUnlock
  <2> QED BY <1>3, <2>1, EnterTypes, Zenon DEF WritePcs
<1>18. CASE BroadcastFails
  <2>1. StoreTyped' /\ Enter("evict") /\ UNCHANGED lock
    BY <1>1, <1>2, <1>18, TxnBufferAssumption DEF BroadcastFails, Fault, StoreTyped, store
  <2> QED BY <1>3, <2>1, EnterTypes, Zenon
<1>19. CASE EvictFails
  <2>1. StoreTyped' /\ UNCHANGED lock
    BY <1>1, <1>19, TxnBufferAssumption DEF EvictFails, Fault, StoreTyped, store, history
  <2>2. CASE Enter("status")
    BY <1>3, <2>1, <2>2, EnterTypes, Zenon
  <2>3. CASE h.pc = "epop" /\ Goto("edel")
    <3>1. h' = To("edel") /\ "edel" \in HealthPc
      BY <2>3, Zenon DEF Goto, To, HealthPc
    <3> QED BY <1>3, <1>4, <2>1, <2>3, <3>1, HealthFrame, Zenon DEF PeekedPcs, WritePcs
  <2>4. CASE h.pc = "edel" /\ Goto("eunlock")
    <3>1. h' = To("eunlock") /\ "eunlock" \in HealthPc
      BY <2>4, Zenon DEF Goto, To, HealthPc
    <3> QED BY <1>3, <1>4, <2>1, <2>4, <3>1, HealthFrame, Zenon DEF PeekedPcs, WritePcs
  <2> QED BY <1>19, <2>2, <2>3, <2>4, Zenon DEF EvictFails
<1> QED
  BY <1>6, <1>7, <1>8, <1>9, <1>10, <1>11, <1>12, <1>13, <1>14, <1>15, <1>16, <1>17, <1>18, <1>19

\* A crash puts lock and locals back to their initial values.
LEMMA CrashTypes ==
    ASSUME TypeInv, Crash
    PROVE  TypeInv'
<1>1. StoreTyped /\ h \in HealthRecord
  BY Zenon DEF TypeInv, TypeOK, StoreTyped
<1>2. h.pc = "bpush" => h.uuid \in UUID
  BY Zenon DEF TypeInv, Locals
<1>3. StoreTyped'
  BY <1>1, <1>2, TxnBufferAssumption DEF Crash, StoreTyped, store
<1>4. h' = Starting /\ req' = [t \in Thread |-> Idle] /\ writer' = FALSE /\ readers' = 0
  BY Zenon DEF Crash
<1>5. \A t \in Thread : req'[t] \in ReqRecord /\ req'[t].pc = "idle"
  BY <1>4, IdleType, Zenon
<1>6. TypeOK'
  <2>1. writer' \in BOOLEAN
    BY <1>4, Zenon
  <2>2. readers' \in 0..MaxReaders
    BY <1>4, MaxReadersAssumption
  <2>3. req' \in [Thread -> ReqRecord]
    BY <1>4, <1>5, Zenon
  <2> QED BY <1>3, <1>4, <2>1, <2>2, <2>3, StartingType, Zenon DEF TypeOK, LockTypeOK, StoreTyped
<1>7. Locals'
  BY <1>4, <1>5, StartingType, Zenon DEF Locals, PeekedPcs
<1>8. MoveUnseen'
  <2>1. Readers' = {}
    BY <1>5, Zenon DEF Readers, ReadPcs
  <2>2. Cardinality(Readers') = 0
    BY <2>1, FS_EmptySet, Zenon
  <2>3. h'.pc = "status"
    BY <1>4, StartingType, Zenon
  <2> QED BY <1>4, <2>1, <2>2, <2>3 DEF MoveUnseen
<1> QED BY <1>6, <1>7, <1>8, Zenon DEF TypeInv

\* The initial state has its types.
LEMMA TypeInvInit == Init => TypeInv
<1> SUFFICES ASSUME Init PROVE TypeInv
  BY Zenon
<1>1. \A t \in Thread : req[t] \in ReqRecord /\ req[t].pc = "idle"
  BY IdleType, Zenon DEF Init
<1>2. h \in HealthRecord /\ h.pc = "status"
  BY StartingType, Zenon DEF Init
<1>3. req \in [Thread -> ReqRecord] /\ LockTypeOK /\ writer = FALSE /\ readers = 0
  <2>1. req \in [Thread -> ReqRecord]
    BY <1>1, Zenon DEF Init
  <2>2. writer = FALSE /\ readers = 0
    BY Zenon DEF Init, LockInit
  <2>3. writer \in BOOLEAN
    BY <2>2, Zenon
  <2>4. readers \in 0..MaxReaders
    BY <2>2, MaxReadersAssumption
  <2> QED BY <2>1, <2>2, <2>3, <2>4, Zenon DEF LockTypeOK
<1>4. StoreTyped
  BY EmptySeq, TxnBufferAssumption DEF Init, StoreTyped
<1>5. TypeOK
  BY <1>2, <1>3, <1>4, Zenon DEF TypeOK, StoreTyped
<1>6. Locals
  BY <1>1, <1>2, Zenon DEF Locals, PeekedPcs
<1>7. MoveUnseen
  <2>1. Readers = {}
    BY <1>1, Zenon DEF Readers, ReadPcs
  <2>2. Cardinality(Readers) = 0
    BY <2>1, FS_EmptySet, Zenon
  <2> QED BY <1>2, <1>3, <2>1, <2>2 DEF MoveUnseen
<1> QED BY <1>5, <1>6, <1>7, Zenon DEF TypeInv

\* Every step keeps the types.
LEMMA TypeInvStep == TypeInv /\ [Next]_vars => TypeInv'
<1> SUFFICES ASSUME TypeInv, [Next]_vars PROVE TypeInv'
  BY Zenon
<1>1. CASE UNCHANGED vars
  BY <1>1, Zenon DEF vars, lock, store, budget, history, TypeInv, TypeOK, LockTypeOK, Locals, MoveUnseen, Readers
<1>2. ASSUME NEW t \in Thread, SendTransferFails(t) \/ FetchTxn(t) \/ HttpStep(t) \/ PushFails(t) \/ FetchFails(t)
      PROVE  TypeInv'
  BY <1>2, TransferTypes, FetchTypes, FetchEndTypes, Zenon DEF HttpStep, FetchLocal
<1>3. CASE HealthStep \/ BroadcastFails \/ EvictFails
  BY <1>3, BroadcastTypes, MoveTypes, Zenon DEF HealthStep
<1>4. CASE Crash
  BY <1>4, CrashTypes, Zenon
<1> QED BY <1>1, <1>2, <1>3, <1>4, Zenon DEF Next

-----------------------------------------------------------------------------
(* The theorems.                                                             *)

\* Every variable keeps its type in every run, for any number of threads, UUIDs,
\* faults and crashes; rdunlock never releases a lock that is not held.
THEOREM TypeCorrect == Spec => []TypeOK
<1>1. TypeInv => TypeOK
  BY Zenon DEF TypeInv
<1> QED BY <1>1, TypeInvInit, TypeInvStep, PTL DEF Spec

\* No HTTP thread is inside the section of the read lock while the health thread
\* moves or evicts a UUID, whatever locks have leaked.
THEOREM MoveIsUnseen == Spec => []MoveUnseen
<1>1. TypeInv => MoveUnseen
  BY Zenon DEF TypeInv
<1> QED BY <1>1, TypeInvInit, TypeInvStep, PTL DEF Spec

\* The initial state satisfies the invariant of the lists.
LEMMA ConsInvInit == Init => ConsInv
BY TypeInvInit, ConsInit, Zenon

\* Every step keeps the invariant of the lists.
LEMMA ConsInvStep == ConsInv /\ [Next]_vars => ConsInv'
<1>1. ConsInv => TypeInv
  BY Zenon DEF ConsInv
<1> QED BY <1>1, TypeInvStep, ConsStep, Zenon

\* No accepted request vanishes or is duplicated, with any number of HTTP threads
\* and however redis and the process fail: see Conservation.
THEOREM RequestsConserved == Spec => []Conservation
<1>1. ConsInv => Conservation
  BY Zenon DEF ConsInv
<1> QED BY <1>1, ConsInvInit, ConsInvStep, PTL DEF Spec

\* The sent list holds sent requests, but for the ones that overtook the one the
\* health thread had peeked at; and a waiting request has its bundle in redis,
\* whatever fetches, evictions and broadcasts run meanwhile.
THEOREM ListsStayRight == Spec => []ListsAreRight
<1>1. DeliverInv => ListsAreRight
  <2> SUFFICES ASSUME DeliverInv PROVE SentUnlessOvertaken /\ BufferedHasBundle
    BY Zenon DEF ListsAreRight
  <2>1. SentUnlessOvertaken
    BY Zenon DEF DeliverInv, SendInv
  <2>2. BufferedHasBundle
    BY Zenon DEF DeliverInv, Contents, Waiting, Whole, BufferedHasBundle
  <2> QED BY <2>1, <2>2, Zenon
<1> QED BY <1>1, ConsInvInit, ConsInvStep, DeliverInvInit, DeliverInvStep, PTL DEF Spec

\* What a fetch answers is so: UNSENT while the UUID waits, and SENT once per UUID
\* and with the whole bundle, although the bundle is read, deleted and popped
\* without the lock.
THEOREM FetchIsTruthful == Spec => []FetchTellsTruth
<1>1. ConsInv /\ DeliverInv => FetchTellsTruth
  <2> SUFFICES ASSUME ConsInv, DeliverInv PROVE UnsentIsCurrent /\ DeliveredOnce /\ SentIsWhole
    BY Zenon DEF FetchTellsTruth
  <2>1. UnsentIsCurrent
    BY Zenon DEF DeliverInv, SendInv
  <2>2. DeliveredOnce
    <3>1. \A u \in UUID : delivered[u] \in {0, 1}
      BY Zenon DEF DeliverInv, SendInv, Once
    <3> QED BY <3>1 DEF DeliveredOnce
  <2>3. SentIsWhole
    BY Zenon DEF DeliverInv, Contents, Reading, ReadingOf, Whole, SentIsWhole
  <2> QED BY <2>1, <2>2, <2>3, Zenon
<1> QED BY <1>1, ConsInvInit, ConsInvStep, DeliverInvInit, DeliverInvStep, PTL DEF Spec

\* The lists, the lock, the threads and the redis commands together implement the
\* request life cycle: a request only moves forward through its stages, and its
\* bundle is handed out at most once and never while it waits unsent.
THEOREM BufferImplementsLifecycle == Spec => ImplementsLifecycle
<1>1. Init => Lifecycle!Init
  <2> SUFFICES ASSUME Init PROVE Lifecycle!Init
    BY Zenon
  <2>1. Conservation /\ pushed = {} /\ faults + crashes = 0 /\ delivered = [u \in UUID |-> 0]
    BY ConsInvInit DEF ConsInv, Init
  <2>2. \A u \in UUID : Stage(u) = "none"
    BY <2>1, StageReadable, Zenon DEF StageRead
  <2> QED BY <2>1, <2>2, Zenon DEF Lifecycle!Init
<1> QED BY <1>1, ConsInvInit, ConsInvStep, DeliverInvInit, DeliverInvStep, LifecycleStep, PTL
        DEF Spec, ImplementsLifecycle, Lifecycle!Spec
=============================================================================
