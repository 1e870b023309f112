----------------------- MODULE TxnBufferSafety_proofs -----------------------
(* The inductive invariants of the transaction buffer: the types, where a    *)
(* UUID is, and what the lists and the bundles hold.  That every step keeps  *)
(* the last two and is a step of the request life cycle; the types are taken *)
(* up in TxnBuffer_proofs.                                                   *)
EXTENDS TxnBuffer, TLAPS

\* A step that names no prover is tried with SMT and then with Zenon, 20 s each.
USE SMTT(20), ZenonT(20)

-----------------------------------------------------------------------------
(* The redis lists: what the list commands do to the elements of a list. *)

\* Sequences: the few facts about them that the proofs cite.
LEMMA EmptySeq ==
    ASSUME NEW S, NEW s \in Seq(S)
    PROVE  s # <<>> => Len(s) \in Nat \ {0}
OBVIOUS

\* The elements of a list, by their positions.
LEMMA LenProperties ==
    ASSUME NEW S, NEW s \in Seq(S)
    PROVE  Len(s) \in Nat /\ s \in [1..Len(s) -> S] /\ DOMAIN s = 1..Len(s)
OBVIOUS

\* One list in front of another (LPUSH puts one element in front).
LEMMA ConcatProperties ==
    ASSUME NEW S, NEW s \in Seq(S), NEW t \in Seq(S)
    PROVE  /\ s \o t \in Seq(S) /\ Len(s \o t) = Len(s) + Len(t)
           /\ \A i \in 1..(Len(s) + Len(t)) : (s \o t)[i] = IF i <= Len(s) THEN s[i] ELSE t[i - Len(s)]
OBVIOUS

\* A list and what is left of it without its first element.
LEMMA HeadTailProperties ==
    ASSUME NEW S, NEW s \in Seq(S), s # <<>>
    PROVE  /\ Head(s) \in S /\ Tail(s) \in Seq(S) /\ Len(Tail(s)) = Len(s) - 1
           /\ \A i \in 1..Len(Tail(s)) : Tail(s)[i] = s[i + 1]
OBVIOUS

\* LPUSH adds one element, in front, and nothing else: a list without
\* duplicates stays so when the element is new (redis_list_push).
LEMMA PushProperties ==
    ASSUME NEW S, NEW s \in Seq(S), NEW x \in S
    PROVE  /\ list_push(s, x) \in Seq(S)
           /\ Len(list_push(s, x)) = Len(s) + 1
           /\ list_push(s, x)[1] = x
           /\ \A i \in 1..Len(s) : list_push(s, x)[i + 1] = s[i]
           /\ Range(list_push(s, x)) = {x} \cup Range(s)
           /\ IsInjective(s) /\ x \notin Range(s) => IsInjective(list_push(s, x))
<1> DEFINE p == list_push(s, x)
<1>1. <<x>> \in Seq(S) /\ Len(<<x>>) = 1 /\ <<x>>[1] = x
  OBVIOUS
<1>2. /\ p \in Seq(S)
      /\ Len(p) = Len(s) + 1
      /\ \A i \in 1..Len(p) : p[i] = IF i <= 1 THEN x ELSE s[i - 1]
  BY <1>1, ConcatProperties DEF list_push
<1>3. p[1] = x /\ \A i \in 1..Len(s) : p[i + 1] = s[i]
  BY <1>2, LenProperties
<1>4. DOMAIN p = 1..(Len(s) + 1) /\ DOMAIN s = 1..Len(s) /\ Len(s) \in Nat
  BY <1>2, LenProperties
<1>5. Range(p) = {x} \cup Range(s)
  <2>1. Range(p) \subseteq {x} \cup Range(s)
    BY <1>2, <1>4 DEF Range
  <2>2. x \in Range(p)
    BY <1>3, <1>4 DEF Range
  <2>3. ASSUME NEW i \in 1..Len(s)
        PROVE  s[i] \in Range(p)
    <3>1. i + 1 \in DOMAIN p /\ p[i + 1] = s[i]
      BY <1>3, <1>4
    <3> QED BY <3>1 DEF Range
  <2> QED BY <1>4, <2>1, <2>2, <2>3, Zenon DEF Range
<1>6. ASSUME IsInjective(s), x \notin Range(s)
      PROVE  IsInjective(p)
  <2> SUFFICES ASSUME NEW a \in DOMAIN p, NEW b \in DOMAIN p, p[a] = p[b]
               PROVE  a = b
    BY DEF IsInjective
  <2>1. \A i \in 1..Len(s) : s[i] # x
    BY <1>4, <1>6 DEF Range
  <2>2. \A i, j \in 1..Len(s) : s[i] = s[j] => i = j
    BY <1>4, <1>6 DEF IsInjective
  <2>3. a \in 1..(Len(s) + 1) /\ b \in 1..(Len(s) + 1)
    BY <1>4
  <2>4. CASE a = 1 \/ b = 1
    BY <1>2, <1>4, <2>1, <2>3, <2>4
  <2>5. CASE a # 1 /\ b # 1
    <3>1. a - 1 \in 1..Len(s) /\ b - 1 \in 1..Len(s)
      BY <1>4, <2>3, <2>5
    <3>2. s[a - 1] = s[b - 1]
      BY <1>2, <1>4, <2>3, <2>5
    <3> QED BY <2>2, <2>3, <3>1, <3>2
  <2> QED BY <2>4, <2>5
<1> QED BY <1>2, <1>3, <1>5, <1>6

\* LPOP removes the head and nothing else (redis_list_pop).
LEMMA PopProperties ==
    ASSUME NEW S, NEW s \in Seq(S), s # <<>>
    PROVE  /\ Head(s) \in S
           /\ list_pop(s) \in Seq(S)
           /\ Range(s) = {Head(s)} \cup Range(list_pop(s))
           /\ IsInjective(s) => IsInjective(list_pop(s)) /\ Head(s) \notin Range(list_pop(s))
<1> DEFINE p == list_pop(s)
<1>1. /\ Head(s) \in S /\ p \in Seq(S) /\ Len(p) = Len(s) - 1
      /\ \A i \in 1..Len(p) : p[i] = s[i + 1]
      /\ Head(s) = s[1]
  BY HeadTailProperties DEF list_pop
<1>2. Len(s) \in Nat \ {0} /\ DOMAIN s = 1..Len(s) /\ DOMAIN p = 1..(Len(s) - 1)
  BY <1>1, LenProperties, EmptySeq
<1>3. Range(s) = {Head(s)} \cup Range(p)
  <2>1. ASSUME NEW i \in DOMAIN s
        PROVE  s[i] \in {Head(s)} \cup Range(p)
    <3>1. CASE i = 1
      BY <3>1, <1>1
    <3>2. CASE i # 1
      <4>1. i - 1 \in DOMAIN p
        BY <1>2, <3>2
      <4>2. p[i - 1] = s[i]
        BY <1>1, <1>2, <4>1
      <4> QED BY <4>1, <4>2 DEF Range
    <3> QED BY <3>1, <3>2
  <2>2. Head(s) \in Range(s)
    BY <1>1, <1>2 DEF Range
  <2>3. ASSUME NEW i \in DOMAIN p
        PROVE  p[i] \in Range(s)
    <3>1. i + 1 \in DOMAIN s /\ p[i] = s[i + 1]
      BY <1>1, <1>2
    <3> QED BY <3>1 DEF Range
  <2> QED BY <2>1, <2>2, <2>3 DEF Range
<1>4. ASSUME IsInjective(s)
      PROVE  IsInjective(p) /\ Head(s) \notin Range(p)
  <2>1. \A a, b \in 1..Len(s) : s[a] = s[b] => a = b
    BY <1>2, <1>4 DEF IsInjective
  <2>2. \A i \in DOMAIN p : i + 1 \in 1..Len(s) /\ p[i] = s[i + 1] /\ i \in Nat \ {0}
    BY <1>1, <1>2
  <2>3. IsInjective(p)
    BY <2>1, <2>2 DEF IsInjective
  <2>4. Head(s) \notin Range(p)
    BY <1>1, <1>2, <2>1, <2>2 DEF Range
  <2> QED BY <2>3, <2>4
<1> QED BY <1>1, <1>3, <1>4

-----------------------------------------------------------------------------
(* Types, and the locals of each thread.                                     *)

\* What the locals of a thread hold at each place.
Locals ==
    /\ \A t \in Thread : req[t].pc \notin {"idle", "mam", "mamscan"} => req[t].uuid \in issued
    /\ \A t \in Thread : req[t].pc = "store" => req[t].idx < BundleLen
    /\ h.pc \in PeekedPcs \cup {"bpush"} => h.uuid \in UUID
    /\ h.pc = "repush" => h.idx < Len(h.trytes)
    /\ h.pc \in {"get", "del"} => h.trytes # <<>>

\* Types, with the records of the threads spelled out.
TypeInv == TypeOK /\ Locals /\ MoveUnseen

\* The types of all variables but the lock and the threads' locals.
StoreTyped ==
    /\ buffer \in Seq(UUID) /\ complete \in Seq(UUID)
    /\ bundle \in [UUID -> Seq(Txn)]
    /\ faults \in 0..MaxFaults /\ crashes \in 0..MaxCrashes
    /\ issued \subseteq UUID /\ acked \subseteq issued /\ pushed \subseteq issued
    /\ sent \subseteq UUID /\ overtook \subseteq UUID
    /\ taken \subseteq UUID /\ dropped \subseteq UUID
    /\ delivered \in [UUID -> Nat]

\* Steps of the fetch that change the locals and the lock only.
FetchLocal(t) ==
    \/ FetchTxn(t) \/ BufferLen(t) \/ ScanBuffer(t) \/ ScanBufferFailed(t) \/ AnswerUnsent(t)
    \/ CompleteLen(t) \/ ScanComplete(t) \/ ScanCompleteFailed(t) \/ AnswerNotExist(t)
    \/ FetchMam(t) \/ FetchMamDone(t) \/ BundleSize(t) \/ Unlock(t) \/ ReadTxn(t)

\* A thread that serves no request.
LEMMA IdleType == Idle \in ReqRecord /\ Idle.pc = "idle" /\ Idle.idx = 0
BY DEF Idle, ReqRecord, ReqPc

\* One turn of redis_list_exist keeps the locals a record.
LEMMA ExistStepType ==
    ASSUME NEW r \in ReqRecord, NEW s
    PROVE  /\ list_exist_step(r, s) \in ReqRecord
           /\ list_exist_step(r, s).pc = r.pc
           /\ list_exist_step(r, s).uuid = r.uuid
<1> DEFINE e == r.exist \/ (list_has(s, r.idx) /\ list_at(s, r.idx) = r.uuid)
           f == r.err \/ ~list_has(s, r.idx)
<1>1. r.idx + 1 \in Nat /\ e \in BOOLEAN /\ f \in BOOLEAN
  BY DEF ReqRecord
<1>2. list_exist_step(r, s) = [r EXCEPT !.idx = r.idx + 1, !.exist = e, !.err = f]
  BY Zenon DEF list_exist_step
<1> HIDE DEF e, f
<1> QED BY <1>1, <1>2, Zenon DEF ReqRecord

\* The health thread when it has just been started.
LEMMA StartingType ==
    /\ Starting \in HealthRecord /\ Starting.pc = "status"
    /\ \A p \in HealthPc, u \in UUID \cup {NoUUID} :
          /\ [Starting EXCEPT !.pc = p, !.evict = u] \in HealthRecord
          /\ [Starting EXCEPT !.pc = p, !.evict = u].pc = p
<1>1. Starting \in HealthRecord /\ Starting.pc = "status"
  BY DEF Starting, HealthRecord, HealthPc
<1> QED BY <1>1, Zenon DEF HealthRecord

\* What ta_pow makes of a list of transactions is a list of transactions.
LEMMA AttachType ==
    ASSUME NEW s \in Seq(Txn)
    PROVE  Attach(s) \in Seq(Txn) /\ Len(Attach(s)) = Len(s)
<1>1. Len(s) \in Nat /\ DOMAIN s = 1..Len(s) /\ \A i \in 1..Len(s) : s[i] \in Txn
  BY LenProperties, Zenon
<1>2. ASSUME NEW i \in 1..Len(s)
      PROVE  [s[i] EXCEPT !.trunk = IF i = Len(s) THEN 0 ELSE s[i + 1].idx] \in Txn
  <2> DEFINE k == IF i = Len(s) THEN 0 ELSE s[i + 1].idx
  <2>1. k \in -1..BundleLen
    <3>1. CASE i = Len(s)
      BY <3>1, TxnBufferAssumption
    <3>2. CASE i # Len(s)
      <4> DEFINE n == Len(s)
      <4>0. n \in Nat /\ i \in 1..n /\ i # n
        BY <1>1, <3>2, Zenon
      <4> HIDE DEF n
      <4>3. i + 1 \in 1..n
        BY <4>0
      <4>1. i + 1 \in 1..Len(s)
        BY <4>3, Zenon DEF n
      <4>2. s[i + 1].idx \in 1..BundleLen
        BY <1>1, <4>1, Zenon DEF Txn
      <4> QED BY <3>2, <4>2, TxnBufferAssumption
    <3> QED BY <3>1, <3>2, Zenon
  <2>2. s[i] \in Txn
    BY <1>1, Zenon
  <2> HIDE DEF k
  <2>3. [s[i] EXCEPT !.trunk = k] \in Txn
    BY <2>1, <2>2, Zenon DEF Txn
  <2> QED BY <2>3, Zenon DEF k
<1>3. Attach(s) \in [1..Len(s) -> Txn]
  BY <1>1, <1>2, Zenon DEF Attach
<1>4. Attach(s) \in Seq(Txn) /\ DOMAIN Attach(s) = 1..Len(s)
  BY <1>1, <1>3
<1>5. DOMAIN Attach(s) = 1..Len(Attach(s)) /\ Len(Attach(s)) \in Nat
  BY <1>4, LenProperties, Zenon
<1> QED BY <1>1, <1>4, <1>5

-----------------------------------------------------------------------------
(* Conservation.                                                            *)

\* A thread that has told no one yet of its new uuid.
Storing(t) == req[t].pc \in {"store", "enqueue"}

\* A UUID that is being stored is known to one thread only.
Private ==
    /\ \A t \in Thread : Storing(t) => req[t].uuid \notin pushed
    /\ \A s, t \in Thread : Storing(s) /\ Storing(t) /\ s # t => req[s].uuid # req[t].uuid

\* The inductive invariant behind Conservation and MoveUnseen.
ConsInv == TypeInv /\ Private /\ Conservation

\* Private is kept by a step that starts no transfer and pushes nothing.
LEMMA PrivateFrame ==
    ASSUME Private, pushed' = pushed,
           \A t \in Thread : Storing(t)' => Storing(t) /\ req'[t].uuid = req[t].uuid
    PROVE  Private'
BY Zenon DEF Private

\* The number of failures never falls.
LEMMA MoreFailures ==
    ASSUME NEW f \in Nat, NEW c \in Nat, NEW f2 \in Nat, NEW c2 \in Nat,
           f2 >= f, c2 >= c, f + c > 0
    PROVE  f2 + c2 > 0
OBVIOUS

\* Conservation is kept by a step that moves no UUID.
LEMMA ConsFrame ==
    ASSUME TypeInv, TypeInv', Conservation,
           UNCHANGED <<buffer, complete, pushed, taken, dropped>>, InHand' = InHand,
           faults' >= faults, crashes' >= crashes
    PROVE  Conservation'
<1>1. faults \in Nat /\ crashes \in Nat /\ faults' \in Nat /\ crashes' \in Nat
  BY TxnBufferAssumption DEF TypeInv, TypeOK
<1>2. dropped # {} => faults' + crashes' > 0
  <2>1. dropped # {} => faults + crashes > 0
    BY Zenon DEF Conservation
  <2> QED BY <1>1, <2>1, MoreFailures, Zenon
<1>3. dropped' = dropped /\ buffer' = buffer /\ complete' = complete /\ taken' = taken /\ pushed' = pushed
  BY Zenon
<1> QED BY <1>2, <1>3, Zenon DEF Conservation

\* A step of an HTTP thread t changes the locals of t only.
LEMMA OthersKeep ==
    ASSUME TypeInv, NEW t \in Thread, NEW r, req' = [req EXCEPT ![t] = r]
    PROVE  req'[t] = r /\ \A s \in Thread \ {t} : req'[s] = req[s]
BY Zenon DEF TypeInv, TypeOK

\* The steps of the fetch up to its last one, and error replies during it.
FetchQuiet(t) == FetchLocal(t) \/ DeleteBundle(t) \/ FetchFails(t)

\* What such a step leaves alone, and that it makes no thread a storing one.
LEMMA FetchQuietFrame ==
    ASSUME TypeInv, NEW t \in Thread, FetchQuiet(t)
    PROVE  /\ UNCHANGED <<buffer, complete, h, history, crashes>>
           /\ faults' >= faults
           /\ \A s \in Thread : Storing(s)' => Storing(s) /\ req'[s].uuid = req[s].uuid
<1>1. UNCHANGED <<buffer, complete, h, history, crashes>> /\ (faults' = faults \/ faults' = faults + 1)
  BY Zenon DEF FetchQuiet, FetchLocal, FetchTxn, BufferLen, ScanBuffer, ScanBufferFailed, AnswerUnsent, CompleteLen,
         ScanComplete, ScanCompleteFailed, AnswerNotExist, FetchMam, FetchMamDone, BundleSize, Unlock, ReadTxn,
         DeleteBundle, FetchFails, Fault, store, budget
<1>2. faults \in Nat /\ req \in [Thread -> ReqRecord]
  BY TxnBufferAssumption DEF TypeInv, TypeOK
<1>3. \A s \in Thread \ {t} : req'[s] = req[s]
  BY <1>2, Zenon DEF FetchQuiet, FetchLocal, FetchTxn, BufferLen, ScanBuffer, ScanBufferFailed, AnswerUnsent, CompleteLen,
         ScanComplete, ScanCompleteFailed, AnswerNotExist, FetchMam, FetchMamDone, BundleSize, Unlock, ReadTxn,
         DeleteBundle, FetchFails, Return
<1>4. req'[t].pc \notin {"store", "enqueue"}
  <2>1. CASE FetchTxn(t) \/ AnswerNotExist(t)
    BY <1>2, <2>1, IdleType, ZenonT(30) DEF FetchTxn, AnswerNotExist, ReqRecord
  <2>2. CASE ScanBuffer(t) \/ ScanComplete(t)
    BY <1>2, <2>2, ExistStepType DEF ScanBuffer, ScanComplete
  <2>3. CASE ScanBufferFailed(t) \/ AnswerUnsent(t) \/ ScanCompleteFailed(t) \/ FetchMamDone(t)
    BY <1>2, <2>3, IdleType, Zenon DEF ScanBufferFailed, AnswerUnsent, ScanCompleteFailed, FetchMamDone, Return
  <2>4. CASE BufferLen(t) \/ CompleteLen(t) \/ BundleSize(t) \/ Unlock(t)
    BY <1>2, <2>4 DEF BufferLen, CompleteLen, BundleSize, Unlock, ReqRecord
  <2>5. CASE FetchMam(t) \/ ReadTxn(t) \/ DeleteBundle(t)
    BY <1>2, <2>5, IdleType DEF FetchMam, ReadTxn, DeleteBundle, Return, ReqRecord
  <2>6. CASE FetchFails(t)
    BY <1>2, <2>6, IdleType DEF FetchFails, Return, ReqRecord
  <2> QED BY <2>1, <2>2, <2>3, <2>4, <2>5, <2>6, Zenon DEF FetchQuiet, FetchLocal
<1> QED BY <1>1, <1>2, <1>3, <1>4 DEF Storing

\* The steps of the health thread that move no UUID.
HealthQuiet ==
    \/ NodeStatus \/ BufferedLen \/ PeekUuid \/ BufferedSize \/ ReadBuffered
    \/ SendTrytes \/ GetTrytes \/ NodeFails \/ DeleteOld \/ RepushTxn
    \/ LockForMove \/ LockForMoveFails \/ UnlockMoved
    \/ BroadcastMam \/ LeaveMam \/ BroadcastMamDone
    \/ EvictLock \/ EvictDone \/ EvictDelete \/ EvictUnlock \/ EvictFails

\* What the steps of the health thread that touch no list leave alone.
LEMMA HealthQuietFrame ==
    ASSUME TypeInv, HealthQuiet
    PROVE  /\ UNCHANGED <<buffer, complete, req, crashes, issued, acked, pushed, overtook, taken, dropped, delivered>>
           /\ faults' >= faults
           /\ h.pc # "bpush" /\ h'.pc # "bpush"
<1>1. UNCHANGED <<buffer, complete, req, crashes, issued, acked, pushed, overtook, taken, dropped, delivered>>
  BY Zenon DEF HealthQuiet, NodeStatus, BufferedLen, PeekUuid, BufferedSize, ReadBuffered, SendTrytes, GetTrytes,
         NodeFails, DeleteOld, RepushTxn, LockForMove, LockForMoveFails, UnlockMoved, BroadcastMam, LeaveMam,
         BroadcastMamDone, EvictLock, EvictDone, EvictDelete, EvictUnlock, EvictFails, Fault, store, budget, history
<1>2. faults' = faults \/ faults' = faults + 1
  BY Zenon DEF HealthQuiet, NodeStatus, BufferedLen, PeekUuid, BufferedSize, ReadBuffered, SendTrytes, GetTrytes,
         NodeFails, DeleteOld, RepushTxn, LockForMove, LockForMoveFails, UnlockMoved, BroadcastMam, LeaveMam,
         BroadcastMamDone, EvictLock, EvictDone, EvictDelete, EvictUnlock, EvictFails, Fault, budget
<1>3. faults \in Nat /\ h \in HealthRecord /\ h.evict \in UUID \cup {NoUUID}
  BY TxnBufferAssumption DEF TypeInv, TypeOK, HealthRecord
<1>4. \A p \in {"status", "blen", "evict"} : Enter(p) => h'.pc = p
  BY Zenon DEF Enter, Starting
<1>5. h.pc # "bpush" /\ h'.pc # "bpush"
  <2>1. CASE NodeStatus \/ BufferedLen \/ GetTrytes \/ LockForMove \/ BroadcastMam \/ BroadcastMamDone
             \/ EvictLock \/ EvictDelete
    BY <1>3, <2>1, Zenon DEF NodeStatus, BufferedLen, GetTrytes, LockForMove, BroadcastMam, BroadcastMamDone,
                      EvictLock, EvictDelete, Goto, HealthRecord
  <2>2. CASE NodeFails \/ LockForMoveFails \/ UnlockMoved \/ LeaveMam \/ EvictDone \/ EvictUnlock
    BY <1>4, <2>2, Zenon DEF NodeFails, LockForMoveFails, UnlockMoved, LeaveMam, EvictDone, EvictUnlock
  <2>3. CASE PeekUuid \/ BufferedSize \/ ReadBuffered \/ SendTrytes \/ DeleteOld \/ RepushTxn
    <3>1. CASE PeekUuid \/ DeleteOld
      BY <1>3, <3>1, Zenon DEF Enter, Starting, PeekUuid, DeleteOld, HealthRecord
    <3>2. CASE BufferedSize \/ ReadBuffered
      BY <1>3, <3>2, Zenon DEF Enter, Starting, BufferedSize, ReadBuffered, HealthRecord
    <3>3. CASE SendTrytes \/ RepushTxn
      BY <1>3, <3>3, Zenon DEF SendTrytes, RepushTxn, HealthRecord
    <3> QED BY <2>3, <3>1, <3>2, <3>3, Zenon
  <2>4. CASE EvictFails
    BY <1>3, <2>4, Zenon DEF EvictFails, Enter, Starting, Goto, HealthRecord
  <2> QED BY <2>1, <2>2, <2>3, <2>4, Zenon DEF HealthQuiet
<1> QED BY <1>1, <1>2, <1>3, <1>5, SMTT(30)

\* No request has been issued at first.
LEMMA ConsInit == Init /\ TypeInv => ConsInv
<1> SUFFICES ASSUME Init, TypeInv PROVE ConsInv
  BY Zenon
<1>1. (\A t \in Thread : ~Storing(t)) /\ InHand = {}
  BY IdleType, StartingType, Zenon DEF Init, Storing, InHand
<1>2. Range(<<>>) = {} /\ IsInjective(<<>>)
  BY DEF Range, IsInjective
<1>3. Conservation
  BY <1>1, <1>2, Zenon DEF Init, Conservation
<1> QED BY <1>1, <1>3, Zenon DEF ConsInv, Private

\* Every step keeps the UUIDs, the types given.
LEMMA ConsStep == ConsInv /\ TypeInv' /\ [Next]_vars => ConsInv'
<1> SUFFICES ASSUME ConsInv, TypeInv', [Next]_vars PROVE ConsInv'
  BY Zenon
<1>1. TypeInv /\ TypeInv' /\ Private /\ Conservation
  BY Zenon DEF ConsInv
<1>2. /\ StoreTyped /\ req \in [Thread -> ReqRecord] /\ h \in HealthRecord
      /\ faults \in Nat /\ crashes \in Nat
  BY <1>1, TxnBufferAssumption DEF TypeInv, TypeOK, StoreTyped
<1> SUFFICES Private' /\ Conservation'
  BY <1>1, Zenon DEF ConsInv
<1>3. CASE UNCHANGED vars
  <2>1. UNCHANGED <<buffer, complete, pushed, taken, dropped, faults, crashes, req, h>>
    BY <1>3, Zenon DEF vars, store, budget, history
  <2>2. InHand' = InHand /\ \A t \in Thread : Storing(t)' => Storing(t) /\ req'[t].uuid = req[t].uuid
    BY <2>1, Zenon DEF InHand, Storing
  <2> QED BY <1>1, <1>2, <2>1, <2>2, PrivateFrame, ConsFrame
<1>4. ASSUME NEW t \in Thread, FetchQuiet(t)
      PROVE  Private' /\ Conservation'
  <2>1. /\ UNCHANGED <<buffer, complete, h, pushed, taken, dropped, crashes>> /\ faults' >= faults
        /\ \A s \in Thread : Storing(s)' => Storing(s) /\ req'[s].uuid = req[s].uuid
    BY <1>1, <1>4, FetchQuietFrame, Zenon DEF history
  <2>2. InHand' = InHand
    BY <2>1, Zenon DEF InHand
  <2> QED BY <1>1, <1>2, <2>1, <2>2, PrivateFrame, ConsFrame
<1>5. CASE HealthQuiet
  <2>1. /\ UNCHANGED <<buffer, complete, req, pushed, taken, dropped, crashes>> /\ faults' >= faults
        /\ h.pc # "bpush" /\ h'.pc # "bpush"
    BY <1>1, <1>5, HealthQuietFrame, Zenon
  <2>2. InHand' = InHand /\ \A t \in Thread : Storing(t)' => Storing(t) /\ req'[t].uuid = req[t].uuid
    BY <2>1, Zenon DEF InHand, Storing
  <2> QED BY <1>1, <1>2, <2>1, <2>2, PrivateFrame, ConsFrame
<1>6. ASSUME NEW t \in Thread, SendTransferFails(t)
      PROVE  Private' /\ Conservation'
  <2>1. /\ UNCHANGED <<buffer, complete, h, pushed, taken, dropped, faults, crashes>>
        /\ InHand' = InHand
    BY <1>6, Zenon DEF SendTransferFails, InHand, store, budget
  <2>2. PICK u \in UUID \ issued : req' = [req EXCEPT ![t] = [Idle EXCEPT !.pc = "store", !.uuid = u]]
    BY <1>6, Zenon DEF SendTransferFails
  <2>3. req'[t].uuid = u /\ \A s \in Thread \ {t} : req'[s] = req[s]
    BY <1>2, <2>2, IdleType, Zenon DEF ReqRecord
  <2>4. u \notin pushed
    BY <1>2, Zenon DEF StoreTyped
  <2>5. \A s \in Thread : Storing(s) => req[s].uuid \in issued
    BY <1>1, Zenon DEF TypeInv, Locals, Storing
  <2>6. Private'
    BY <1>1, <2>1, <2>3, <2>4, <2>5, Zenon DEF Private, Storing
  <2> QED BY <1>1, <1>2, <2>1, <2>6, ConsFrame
<1>7. ASSUME NEW t \in Thread, StoreTxn(t) \/ PushFails(t)
      PROVE  Private' /\ Conservation'
  <2>1. /\ UNCHANGED <<buffer, complete, h, pushed, taken, dropped, crashes>> /\ faults' >= faults
        /\ InHand' = InHand
    <3>1. UNCHANGED <<buffer, complete, h, pushed, taken, dropped, crashes>>
      BY <1>7, Zenon DEF StoreTxn, PushFails, Fault, store, budget, history
    <3>2. faults' = faults \/ faults' = faults + 1
      BY <1>7, Zenon DEF StoreTxn, PushFails, Fault, budget
    <3>3. faults' >= faults
      BY <1>2, <3>2
    <3>4. InHand' = InHand
      BY <3>1, Zenon DEF InHand
    <3> QED BY <3>1, <3>3, <3>4, Zenon
  <2>2. \A s \in Thread : Storing(s)' => Storing(s) /\ req'[s].uuid = req[s].uuid
    <3>1. CASE StoreTxn(t)
      BY <1>2, <3>1 DEF StoreTxn, Storing, ReqRecord
    <3>2. CASE PushFails(t)
      BY <1>2, <3>2, IdleType, Zenon DEF PushFails, Respond, Storing
    <3> QED BY <1>7, <3>1, <3>2, Zenon
  <2> QED BY <1>1, <1>2, <2>1, <2>2, PrivateFrame, ConsFrame
<1>8. ASSUME NEW t \in Thread, EnqueueUuid(t)
      PROVE  Private' /\ Conservation'
  <2> DEFINE u == req[t].uuid
  <2>1. /\ buffer' = list_push(buffer, u) /\ pushed' = pushed \cup {u}
        /\ UNCHANGED <<complete, h, taken, dropped, faults, crashes>> /\ InHand' = InHand
        /\ req' = [req EXCEPT ![t] = Idle] /\ Storing(t)
    BY <1>8, Zenon DEF EnqueueUuid, Respond, InHand, budget, Storing
  <2>2. u \in UUID /\ u \notin pushed
    BY <1>1, <1>2, <2>1, Zenon DEF TypeInv, Locals, Storing, StoreTyped, Private
  <2>3. Private'
    <3>1. ~Storing(t)' /\ \A s \in Thread \ {t} : req'[s] = req[s]
      BY <1>2, <2>1, IdleType, Zenon DEF Storing
    <3> QED BY <1>1, <2>1, <3>1 DEF Private, Storing
  <2>4. Range(buffer') = {u} \cup Range(buffer) /\ (IsInjective(buffer) /\ u \notin Range(buffer) => IsInjective(buffer'))
    BY <1>2, <2>1, <2>2, PushProperties, Zenon DEF StoreTyped
  <2> HIDE DEF u
  <2>5. Conservation'
    BY <1>1, <2>1, <2>2, <2>4 DEF Conservation
  <2> QED BY <2>3, <2>5, Zenon
<1>9. ASSUME NEW t \in Thread, PopComplete(t)
      PROVE  Private' /\ Conservation'
  <2>1. /\ UNCHANGED <<buffer, h, pushed, dropped, faults, crashes>> /\ InHand' = InHand
        /\ req' = [req EXCEPT ![t] = Idle]
    BY <1>9, Zenon DEF PopComplete, Return, InHand, budget, Requests
  <2>2. \A s \in Thread : Storing(s)' => Storing(s) /\ req'[s].uuid = req[s].uuid
    BY <1>2, <2>1, IdleType, Zenon DEF Storing
  <2>3. Conservation'
    <3>1. CASE complete = <<>>
      BY <1>1, <1>2, <1>9, <2>1, <3>1, ConsFrame DEF PopComplete
    <3>2. CASE complete # <<>>
      <4>1. complete' = list_pop(complete) /\ taken' = taken \cup {Head(complete)}
        BY <1>9, <3>2, Zenon DEF PopComplete
      <4>2. /\ Range(complete) = {Head(complete)} \cup Range(complete')
            /\ IsInjective(complete) => IsInjective(complete') /\ Head(complete) \notin Range(complete')
        BY <1>2, <3>2, <4>1, PopProperties, Zenon DEF StoreTyped
      <4> QED BY <1>1, <2>1, <4>1, <4>2, ZenonT(30) DEF Conservation
    <3> QED BY <3>1, <3>2, Zenon
  <2> QED BY <1>1, <2>1, <2>2, <2>3, PrivateFrame, Zenon
<1>10. CASE EvictPop
  <2>1. UNCHANGED <<buffer, req, pushed, dropped, faults, crashes>>
    BY <1>10, Zenon DEF EvictPop, budget, Requests
  <2>2. h.pc = "epop" /\ h'.pc = "edel"
    BY <1>2, <1>10, Zenon DEF EvictPop, Goto, HealthRecord
  <2>3. InHand = {} /\ InHand' = {}
    BY <2>2, Zenon DEF InHand
  <2>4. \A s \in Thread : Storing(s)' => Storing(s) /\ req'[s].uuid = req[s].uuid
    BY <2>1, Zenon DEF Storing
  <2>5. Conservation'
    <3>1. CASE complete = <<>>
      BY <1>1, <1>2, <1>10, <2>1, <2>3, <3>1, ConsFrame DEF EvictPop
    <3>2. CASE complete # <<>>
      <4>1. complete' = list_pop(complete) /\ taken' = taken \cup {Head(complete)}
        BY <1>10, <3>2, Zenon DEF EvictPop
      <4>2. /\ Range(complete) = {Head(complete)} \cup Range(complete')
            /\ IsInjective(complete) => IsInjective(complete') /\ Head(complete) \notin Range(complete')
        BY <1>2, <3>2, <4>1, PopProperties, Zenon DEF StoreTyped
      <4> QED BY <1>1, <2>1, <2>3, <4>1, <4>2 DEF Conservation
    <3> QED BY <3>1, <3>2, Zenon
  <2> QED BY <1>1, <2>1, <2>4, <2>5, PrivateFrame, Zenon
<1>11. CASE PopBuffered
  <2>1. UNCHANGED <<complete, req, pushed, taken, dropped, faults, crashes>> /\ h.pc = "bpop"
    BY <1>11, Zenon DEF PopBuffered, budget, history
  <2>2. \A s \in Thread : Storing(s)' => Storing(s) /\ req'[s].uuid = req[s].uuid
    BY <2>1, Zenon DEF Storing
  <2>3. Conservation'
    <3>1. CASE buffer = <<>>
      <4>1. buffer' = buffer /\ h'.pc = "evict"
        BY <1>11, <3>1, Zenon DEF PopBuffered, Enter, Starting
      <4>2. InHand' = InHand
        BY <2>1, <4>1, Zenon DEF InHand
      <4> QED BY <1>1, <1>2, <2>1, <4>1, <4>2, ConsFrame
    <3>2. CASE buffer # <<>>
      <4>1. buffer' = list_pop(buffer) /\ h'.pc = "bpush" /\ h'.uuid = Head(buffer)
        BY <1>2, <1>11, <3>2, Zenon DEF PopBuffered, HealthRecord
      <4>2. /\ Range(buffer) = {Head(buffer)} \cup Range(buffer')
            /\ IsInjective(buffer) => IsInjective(buffer') /\ Head(buffer) \notin Range(buffer')
        BY <1>2, <3>2, <4>1, PopProperties, Zenon DEF StoreTyped
      <4>3. InHand = {} /\ InHand' = {Head(buffer)}
        BY <2>1, <4>1, Zenon DEF InHand
      <4> QED BY <1>1, <2>1, <4>2, <4>3 DEF Conservation
    <3> QED BY <3>1, <3>2, Zenon
  <2> QED BY <1>1, <2>1, <2>2, <2>3, PrivateFrame, Zenon
<1>12. CASE PushComplete
  <2>1. /\ UNCHANGED <<buffer, req, pushed, taken, dropped, faults, crashes>> /\ h.pc = "bpush"
        /\ complete' = list_push(complete, h.uuid)
    BY <1>12, Zenon DEF PushComplete, budget, history
  <2>2. h'.pc = "unlock" /\ h.uuid \in UUID
    BY <1>1, <1>2, <1>12, Zenon DEF PushComplete, Goto, HealthRecord, TypeInv, Locals
  <2>3. InHand = {h.uuid} /\ InHand' = {}
    BY <2>1, <2>2, Zenon DEF InHand
  <2> DEFINE u == h.uuid
  <2>3a. u \in UUID /\ complete' = list_push(complete, u) /\ complete \in Seq(UUID)
    BY <1>2, <2>1, <2>2, Zenon DEF StoreTyped
  <2> HIDE DEF u
  <2>3b. /\ Range(complete') = {u} \cup Range(complete)
         /\ IsInjective(complete) /\ u \notin Range(complete) => IsInjective(complete')
    BY <2>3a, PushProperties, Zenon
  <2>4. /\ Range(complete') = {h.uuid} \cup Range(complete)
        /\ IsInjective(complete) /\ h.uuid \notin Range(complete) => IsInjective(complete')
    BY <2>3b, Zenon DEF u
  <2>5. Conservation'
    BY <1>1, <2>1, <2>3, <2>4, Zenon DEF Conservation
  <2>6. \A s \in Thread : Storing(s)' => Storing(s) /\ req'[s].uuid = req[s].uuid
    BY <2>1, Zenon DEF Storing
  <2> QED BY <1>1, <2>1, <2>5, <2>6, PrivateFrame, Zenon
<1>13. CASE BroadcastFails \/ Crash
  <2>1. /\ UNCHANGED <<buffer, complete, pushed, taken>>
        /\ dropped' = dropped \cup InHand
    BY <1>13, Zenon DEF BroadcastFails, Crash, Fault, InHand, store
  <2>2. faults' + crashes' > 0
    BY <1>2, <1>13 DEF BroadcastFails, Crash, Fault
  <2>3. InHand' = {}
    <3>1. h' = [Starting EXCEPT !.pc = "evict", !.evict = h.evict] \/ h' = Starting
      BY <1>13, Zenon DEF BroadcastFails, Crash, Enter
    <3>2. "evict" \in HealthPc /\ h.evict \in UUID \cup {NoUUID}
      BY <1>2, Zenon DEF HealthRecord, HealthPc
    <3>3. [Starting EXCEPT !.pc = "evict", !.evict = h.evict].pc = "evict" /\ Starting.pc = "status"
      BY <3>2, StartingType, Zenon
    <3>4. h'.pc = "evict" \/ h'.pc = "status"
      BY <3>1, <3>3, Zenon
    <3> QED BY <3>4, Zenon DEF InHand
  <2>4. Conservation'
    BY <1>1, <2>1, <2>2, <2>3, Zenon DEF Conservation
  <2>5. \A s \in Thread : Storing(s)' => Storing(s) /\ req'[s].uuid = req[s].uuid
    <3>1. req' = req \/ req' = [t \in Thread |-> Idle]
      BY <1>13, Zenon DEF BroadcastFails, Crash
    <3> QED BY <3>1, IdleType, Zenon DEF Storing
  <2> QED BY <1>1, <2>1, <2>4, <2>5, PrivateFrame, Zenon
<1> QED
  BY <1>3, <1>4, <1>5, <1>6, <1>7, <1>8, <1>9, <1>10, <1>11, <1>12, <1>13, Zenon
  DEF Next, HttpStep, HealthStep, FetchQuiet, FetchLocal, HealthQuiet

-----------------------------------------------------------------------------
(* What is moved, and what a fetch hands out.                               *)

Settled == Range(complete) \cup taken     \* moved to complete_list, at some time

\* A fetch that found its UUID in complete_list is after a settled one, and one
\* that has not scanned yet has found nothing.
Found(r) == (r.pc = "scan_c" /\ r.exist) \/ r.pc \in {"unlock", "read", "delete", "popc"}
Listed ==
    \A t \in Thread :
       /\ Found(req[t]) => req[t].uuid \in Settled
       /\ req[t].pc = "llen_b" => ~req[t].exist

\* Between its peek and its pop the health thread's UUID stays in buffer_list,
\* and only a UUID that overtook it can be popped in its place.
Peeked ==
    h.pc \in PeekedPcs =>
       /\ h.uuid \in Range(buffer)
       /\ buffer # <<>>
       /\ Head(buffer) \in {h.uuid} \cup overtook
       /\ h.pc \in {"get", "del", "repush", "wrlock", "bpop"} => h.uuid \in sent

\* Eviction deletes bundles of settled UUIDs only, a stale local included.
Evicted == h.evict # NoUUID => h.evict \in taken

\* A uuid that was not issued has no bundle.
Fresh == \A u \in UUID \ issued : bundle[u] = <<>>

\* Of the fetches of one UUID only one gets past the DEL.
Once ==
    /\ \A t \in Thread : req[t].pc = "popc" => bundle[req[t].uuid] = <<>> /\ delivered[req[t].uuid] = 0
    /\ \A p, t \in Thread : req[p].pc = "popc" /\ req[t].pc = "popc" /\ p # t => req[p].uuid # req[t].uuid
    /\ \A u \in UUID : delivered[u] # 0 => delivered[u] = 1 /\ u \in Settled /\ bundle[u] = <<>>

\* Where the uuids are, and which threads are after them.
SendInv == Listed /\ Peeked /\ Evicted /\ Fresh /\ Once /\ SentUnlessOvertaken /\ UnsentIsCurrent

\* All transactions of a bundle, in some order.
Whole(s) == Len(s) = BundleLen /\ {s[i].idx : i \in 1..Len(s)} = 1..BundleLen

\* push_txn_to_buffer stores the bundle back to front.
StoredOf(r) ==
    /\ r.pc = "store" =>
          /\ Len(bundle[r.uuid]) = r.idx
          /\ \A j \in 1..r.idx : bundle[r.uuid][j].idx = r.idx + 1 - j
    /\ r.pc = "enqueue" => Whole(bundle[r.uuid])
\* Every thread that stores a bundle has come that far.
Stored == \A t \in Thread : StoredOf(req[t])

\* A bundle that waits to be sent is whole, unless it is being put back.
Waiting == \A u \in Range(buffer) \cup InHand : Whole(bundle[u]) \/ (h.pc = "repush" /\ h.uuid = u)

\* A sent bundle is whole or deleted.
Done == \A u \in Settled : bundle[u] = <<>> \/ Whole(bundle[u])

\* The health thread reads the whole bundle and puts all of it back, reversed.
Rewritten ==
    /\ h.pc = "read" =>
          /\ h.len = BundleLen /\ h.idx < h.len /\ Len(h.trytes) = h.idx
          /\ \A j \in 1..h.idx : h.trytes[j] = bundle[h.uuid][j]
    /\ h.pc \in {"send", "get", "del", "repush"} => Whole(h.trytes)
    /\ h.pc = "repush" =>
          /\ Len(bundle[h.uuid]) = h.idx /\ h.idx < BundleLen
          /\ \A j \in 1..h.idx : bundle[h.uuid][j] = h.trytes[h.idx + 1 - j]

\* A fetch holds a prefix of the bundle, or the bundle was deleted meanwhile
\* and the fetch will not pass the DEL.
ReadingOf(r) ==
    /\ r.pc \in {"llen_b", "scan_b", "scan_c", "unlock"} => r.got = <<>>
    /\ r.pc = "unlock" => r.idx = 0 /\ (bundle[r.uuid] = <<>> \/ r.len = BundleLen)
    /\ r.pc = "read" =>
          /\ Len(r.got) = r.idx /\ r.idx < r.len
          /\ \/ bundle[r.uuid] = <<>>
             \/ r.len = BundleLen /\ \A j \in 1..r.idx : r.got[j] = bundle[r.uuid][j]
    /\ r.pc = "delete" => bundle[r.uuid] = <<>> \/ Whole(r.got)
    /\ r.pc = "popc" => Whole(r.got)
\* Every fetch, by what it has read.
Reading == \A t \in Thread : ReadingOf(req[t])

\* What the bundles hold, as long as nothing failed.
Contents == faults + crashes = 0 => Stored /\ Waiting /\ Done /\ Rewritten /\ Reading

\* The inductive invariant behind ListsAreRight and FetchTellsTruth.
DeliverInv == SendInv /\ Contents

\* The places of Conservation are apart.
LEMMA Apart ==
    ASSUME ConsInv
    PROVE  /\ Settled \subseteq pushed /\ Range(buffer) \subseteq pushed /\ InHand \subseteq pushed
           /\ \A u \in Range(buffer) : u \notin Settled /\ u \notin InHand
           /\ \A u \in InHand : u \notin Settled
           /\ \A t \in Thread : Storing(t) => req[t].uuid \notin pushed /\ req[t].uuid \in issued
           /\ pushed \subseteq issued /\ acked \subseteq issued /\ issued \subseteq UUID
<1>1. pushed \subseteq issued /\ acked \subseteq issued /\ issued \subseteq UUID
  BY Zenon DEF ConsInv, TypeInv, TypeOK
<1>2. \A t \in Thread : Storing(t) => req[t].uuid \notin pushed /\ req[t].uuid \in issued
  BY Zenon DEF ConsInv, TypeInv, Locals, Storing, Private
<1> QED BY <1>1, <1>2, Zenon DEF ConsInv, Conservation, Settled

\* The types that a step needs.
LEMMA Types ==
    ASSUME TypeInv
    PROVE  /\ faults \in Nat /\ crashes \in Nat
           /\ req \in [Thread -> ReqRecord] /\ h \in HealthRecord
           /\ bundle \in [UUID -> Seq(Txn)] /\ delivered \in [UUID -> Nat]
           /\ buffer \in Seq(UUID) /\ complete \in Seq(UUID)
BY TxnBufferAssumption DEF TypeInv, TypeOK

\* An idle thread is at no step of a request.
LEMMA IdlePc == Idle.pc = "idle"
BY Zenon DEF Idle

\* A failure that happened stays counted.
LEMMA NoFailureBefore ==
    ASSUME TypeInv, TypeInv', faults' >= faults, crashes' >= crashes
    PROVE  faults' + crashes' = 0 => faults + crashes = 0
<1>1. faults \in Nat /\ crashes \in Nat /\ faults' \in Nat /\ crashes' \in Nat
  BY TxnBufferAssumption DEF TypeInv, TypeOK
<1>2. \A f, c, f2, c2 \in Nat : f2 >= f /\ c2 >= c /\ f2 + c2 = 0 => f + c = 0
  OBVIOUS
<1> QED BY <1>1, <1>2, Zenon

\* A list of the right length with every place of the bundle in it is whole.
LEMMA WholeIf ==
    ASSUME NEW s \in Seq(Txn), Len(s) = BundleLen,
           \A k \in 1..BundleLen : \E i \in 1..BundleLen : s[i].idx = k
    PROVE  Whole(s)
<1>1. \A i \in 1..Len(s) : s[i] \in Txn
  OBVIOUS
<1>2. \A i \in 1..Len(s) : s[i].idx \in 1..BundleLen
  BY <1>1, Zenon DEF Txn
<1> QED BY <1>2, Zenon DEF Whole

\* A whole bundle has a transaction of each index.
LEMMA WholeHas ==
    ASSUME NEW s, Whole(s), NEW k \in 1..BundleLen
    PROVE  \E i \in 1..BundleLen : s[i].idx = k
BY Zenon DEF Whole

\* A whole bundle copied, attached or reversed is whole.
LEMMA WholeKept ==
    ASSUME NEW s \in Seq(Txn), Whole(s), NEW q \in Seq(Txn), Len(q) = BundleLen,
           \/ \A i \in 1..BundleLen : q[i].idx = s[i].idx
           \/ \A i \in 1..BundleLen : q[i] = s[BundleLen + 1 - i]
    PROVE  Whole(q)
<1> SUFFICES ASSUME NEW k \in 1..BundleLen
             PROVE  \E i \in 1..BundleLen : q[i].idx = k
  BY WholeIf, Zenon
<1>1. PICK i \in 1..BundleLen : s[i].idx = k
  BY WholeHas, ZenonT(30)
<1>2. BundleLen + 1 - i \in 1..BundleLen /\ BundleLen + 1 - (BundleLen + 1 - i) = i
  BY TxnBufferAssumption
<1> QED BY <1>1, <1>2, Zenon

\* The bundle as push_txn_to_buffer leaves it is whole.
LEMMA WholeStored ==
    ASSUME NEW s \in Seq(Txn), Len(s) = BundleLen,
           \A j \in 1..BundleLen : s[j].idx = BundleLen + 1 - j
    PROVE  Whole(s)
<1> SUFFICES ASSUME NEW k \in 1..BundleLen
             PROVE  \E i \in 1..BundleLen : s[i].idx = k
  BY WholeIf, Zenon
<1>1. BundleLen + 1 - k \in 1..BundleLen /\ BundleLen + 1 - (BundleLen + 1 - k) = k
  BY TxnBufferAssumption
<1> QED BY <1>1, Zenon

\* LPUSH of a transaction puts it first and moves the others by one.
LEMMA PushTxn ==
    ASSUME NEW q \in Seq(Txn), NEW x \in Txn
    PROVE  /\ list_push(q, x) \in Seq(Txn) /\ Len(list_push(q, x)) = Len(q) + 1 /\ list_push(q, x)[1] = x
           /\ \A j \in 1..Len(q) : list_push(q, x)[j + 1] = q[j]
<1>1. <<x>> \in Seq(Txn) /\ Len(<<x>>) = 1 /\ <<x>>[1] = x
  OBVIOUS
<1>2. /\ list_push(q, x) \in Seq(Txn)
      /\ Len(list_push(q, x)) = Len(q) + 1
      /\ \A i \in 1..Len(list_push(q, x)) : list_push(q, x)[i] = IF i <= 1 THEN x ELSE q[i - 1]
  BY <1>1, ConcatProperties DEF list_push
<1> QED BY <1>2, LenProperties

\* A whole bundle is not empty.
LEMMA WholeNonEmpty == ASSUME NEW s, Whole(s) PROVE s # <<>> /\ Len(s) = BundleLen
BY TxnBufferAssumption, Zenon DEF Whole

\* The invariant is kept by a step of an HTTP thread that changes no list and no
\* bundle and does not pass the DEL.
LEMMA DeliverHttpFrame ==
    ASSUME ConsInv, TypeInv', DeliverInv, NEW t \in Thread, NEW r, req' = [req EXCEPT ![t] = r],
           UNCHANGED <<store, h, sent, overtook, taken, delivered, crashes>>, faults' >= faults,
           issued \subseteq issued',
           r.pc # "popc",
           Found(r) => r.uuid \in Settled,
           r.pc = "llen_b" => ~r.exist,
           r.pc = "scan_b" /\ r.exist => r.uuid \in Range(buffer),
           faults' + crashes' = 0 => StoredOf(r) /\ ReadingOf(r)
    PROVE  DeliverInv'
<1>1. /\ buffer' = buffer /\ complete' = complete /\ bundle' = bundle /\ h' = h /\ overtook' = overtook
      /\ sent' = sent /\ taken' = taken /\ delivered' = delivered
  BY Zenon DEF store
<1>2. Settled' = Settled /\ InHand' = InHand
  BY <1>1, Zenon DEF Settled, InHand
<1>3. req'[t] = r /\ \A s \in Thread \ {t} : req'[s] = req[s]
  BY Types, Zenon DEF ConsInv
<1>4. faults' + crashes' = 0 => faults + crashes = 0
  <2>1. TypeInv /\ crashes \in Nat
    BY Types, Zenon DEF ConsInv
  <2> QED BY <2>1, NoFailureBefore
<1>5. Listed'
  BY <1>2, <1>3 DEF DeliverInv, SendInv, Listed, Found
<1>6. Peeked' /\ Evicted' /\ Fresh' /\ SentUnlessOvertaken'
  BY <1>1, <1>2, Zenon DEF DeliverInv, SendInv, Peeked, Evicted, Fresh, SentUnlessOvertaken
<1>7. Once'
  BY <1>1, <1>2, <1>3, SMTT(30) DEF DeliverInv, SendInv, Once
<1>8. UnsentIsCurrent'
  BY <1>1, <1>3, ZenonT(30) DEF DeliverInv, SendInv, UnsentIsCurrent
<1>9. Contents'
  <2> SUFFICES ASSUME faults' + crashes' = 0
               PROVE  Stored' /\ Waiting' /\ Done' /\ Rewritten' /\ Reading'
    BY Zenon DEF Contents
  <2>1. Stored /\ Waiting /\ Done /\ Rewritten /\ Reading
    BY <1>4, Zenon DEF DeliverInv, Contents
  <2>2. Waiting' /\ Done' /\ Rewritten'
    BY <1>1, <1>2, <2>1 DEF Waiting, Done, Rewritten
  <2>3. \A s \in Thread : StoredOf(req'[s]) /\ ReadingOf(req'[s])
    BY <1>3, <2>1, Zenon DEF Stored, Reading
  <2>4. Stored'
    BY <1>1, <2>3, ZenonT(30) DEF Stored, StoredOf
  <2>5. Reading'
    <3> SUFFICES ASSUME NEW s \in Thread PROVE ReadingOf(req[s])'
      BY Zenon DEF Reading
    <3>1. ReadingOf(req'[s]) /\ bundle' = bundle
      BY <1>1, <2>3, Zenon
    <3> QED BY <3>1, Zenon DEF ReadingOf
  <2> QED BY <2>2, <2>4, <2>5, Zenon
<1> QED BY <1>5, <1>6, <1>7, <1>8, <1>9, Zenon DEF DeliverInv, SendInv

\* It is kept by a step of the health thread that changes no list and no bundle.
LEMMA DeliverHealthFrame ==
    ASSUME ConsInv, TypeInv', DeliverInv,
           UNCHANGED <<store, req, issued, overtook, taken, delivered, crashes>>, faults' >= faults,
           sent \subseteq sent', InHand' \subseteq InHand, h'.evict \in {h.evict, NoUUID},
           h.pc = "repush" => faults' + crashes' > 0,
           Peeked', faults' + crashes' = 0 => Rewritten'
    PROVE  DeliverInv'
<1>1. buffer' = buffer /\ complete' = complete /\ bundle' = bundle
  BY Zenon DEF store
<1>2. Settled' = Settled
  BY <1>1, Zenon DEF Settled
<1>3. faults' + crashes' = 0 => faults + crashes = 0 /\ h.pc # "repush"
  <2>1. TypeInv /\ crashes \in Nat
    BY Types, Zenon DEF ConsInv
  <2>2. faults' + crashes' = 0 => faults + crashes = 0
    BY <2>1, NoFailureBefore
  <2>3. faults' \in Nat /\ crashes' \in Nat
    BY TxnBufferAssumption DEF TypeInv, TypeOK
  <2>4. \A x, y \in Nat : x + y > 0 => x + y # 0
    OBVIOUS
  <2> QED BY <2>2, <2>3, <2>4, Zenon
<1>4. Listed' /\ Evicted' /\ Fresh'
  BY <1>1, <1>2, Zenon DEF DeliverInv, SendInv, Listed, Found, Evicted, Fresh
<1>5. SentUnlessOvertaken' /\ UnsentIsCurrent'
  BY <1>1, Zenon DEF DeliverInv, SendInv, SentUnlessOvertaken, UnsentIsCurrent
<1>6. Once'
  BY <1>1, <1>2, Zenon DEF DeliverInv, SendInv, Once
<1>7. Contents'
  <2> SUFFICES ASSUME faults' + crashes' = 0
               PROVE  Stored' /\ Waiting' /\ Done' /\ Reading'
    BY Zenon DEF Contents
  <2>1. Stored /\ Waiting /\ Done /\ Reading /\ h.pc # "repush"
    BY <1>3, Zenon DEF DeliverInv, Contents
  <2>2. Waiting' /\ Done'
    BY <1>1, <1>2, <2>1, Zenon DEF Waiting, Done
  <2>3. Stored'
    BY <1>1, <2>1, Zenon DEF Stored, StoredOf
  <2>4. Reading'
    BY <1>1, <2>1, Zenon DEF Reading, ReadingOf
  <2> QED BY <2>2, <2>3, <2>4, Zenon
<1> QED BY <1>4, <1>5, <1>6, <1>7, Zenon DEF DeliverInv, SendInv

\* The fetch up to the DEL, a new transfer, and every error reply to an HTTP
\* thread keep it.
LEMMA DeliverFetch ==
    ASSUME ConsInv, TypeInv', DeliverInv, NEW t \in Thread,
           FetchLocal(t) \/ FetchFails(t) \/ PushFails(t) \/ SendTransferFails(t)
    PROVE  DeliverInv'
<1>1. /\ TypeInv /\ req \in [Thread -> ReqRecord] /\ req[t] \in ReqRecord
      /\ faults \in Nat /\ crashes \in Nat /\ bundle \in [UUID -> Seq(Txn)]
      /\ buffer \in Seq(UUID) /\ complete \in Seq(UUID)
  BY Types, Zenon DEF ConsInv
<1>2. /\ UNCHANGED <<store, h, sent, overtook, taken, delivered, crashes>>
      /\ faults' \in {faults, faults + 1} /\ issued \subseteq issued'
  <2>1. UNCHANGED <<store, h, sent, overtook, taken, delivered, crashes>>
    BY Zenon DEF FetchLocal, FetchTxn, BufferLen, ScanBuffer, ScanBufferFailed, AnswerUnsent, CompleteLen,
         ScanComplete, ScanCompleteFailed, AnswerNotExist, FetchMam, FetchMamDone, BundleSize, Unlock, ReadTxn,
         FetchFails, PushFails, SendTransferFails, Fault, budget, history
  <2>2. faults' = faults \/ faults' = faults + 1
    BY Zenon DEF FetchLocal, FetchTxn, BufferLen, ScanBuffer, ScanBufferFailed, AnswerUnsent, CompleteLen,
         ScanComplete, ScanCompleteFailed, AnswerNotExist, FetchMam, FetchMamDone, BundleSize, Unlock, ReadTxn,
         FetchFails, PushFails, SendTransferFails, Fault, budget
  <2>3. issued' = issued \/ \E u \in UUID : issued' = issued \cup {u}
    BY Zenon DEF FetchLocal, FetchTxn, BufferLen, ScanBuffer, ScanBufferFailed, AnswerUnsent, CompleteLen,
         ScanComplete, ScanCompleteFailed, AnswerNotExist, FetchMam, FetchMamDone, BundleSize, Unlock, ReadTxn,
         FetchFails, PushFails, SendTransferFails, history
  <2> QED BY <2>1, <2>2, <2>3, Zenon
<1>3. faults' >= faults
  BY <1>1, <1>2, SMTT(30)
<1>4. /\ Found(req[t]) => req[t].uuid \in Settled
      /\ req[t].pc = "scan_b" /\ req[t].exist => req[t].uuid \in Range(buffer)
  BY Zenon DEF DeliverInv, SendInv, Listed, UnsentIsCurrent
<1>5. faults' + crashes' = 0 => faults + crashes = 0 /\ ReadingOf(req[t]) /\ Done
  <2>1. faults' + crashes' = 0 => faults + crashes = 0
    BY <1>1, <1>2, <1>3, NoFailureBefore
  <2> QED BY <2>1, Zenon DEF DeliverInv, Contents, Reading
<1>6. ASSUME NEW r, req' = [req EXCEPT ![t] = r], r.pc \notin {"store", "enqueue", "popc"},
             Found(r) => r.uuid \in Settled,
             r.pc = "llen_b" => ~r.exist,
             r.pc = "scan_b" /\ r.exist => r.uuid \in Range(buffer),
             faults' + crashes' = 0 => ReadingOf(r)
      PROVE  DeliverInv'
  <2>1. StoredOf(r)
    BY <1>6, Zenon DEF StoredOf
  <2> QED BY <1>2, <1>3, <1>6, <2>1, DeliverHttpFrame, Zenon
<1>7. CASE req' = [req EXCEPT ![t] = Idle]
  BY <1>6, <1>7, IdlePc, Zenon DEF Found, ReadingOf
<1>8. CASE SendTransferFails(t)
  <2>1. PICK u \in UUID \ issued : req' = [req EXCEPT ![t] = [Idle EXCEPT !.pc = "store", !.uuid = u]]
    BY <1>8, Zenon DEF SendTransferFails
  <2> DEFINE r == [Idle EXCEPT !.pc = "store", !.uuid = u]
  <2>2. req' = [req EXCEPT ![t] = r] /\ r.pc = "store" /\ r.uuid = u /\ r.idx = 0
    BY <2>1, Zenon DEF Idle
  <2> HIDE DEF r
  <2>3. StoredOf(r)
    <3>1. bundle[u] = <<>>
      BY Zenon DEF DeliverInv, SendInv, Fresh
    <3>2. Len(bundle[r.uuid]) = r.idx /\ 1..r.idx = {}
      BY <2>2, <3>1
    <3> QED BY <2>2, <3>2, Zenon DEF StoredOf
  <2> QED BY <1>2, <1>3, <2>2, <2>3, DeliverHttpFrame, Zenon DEF Found, ReadingOf
<1>9. CASE FetchTxn(t)
  <2>1. PICK u \in acked : req' = [req EXCEPT ![t] = [Idle EXCEPT !.pc = "llen_b", !.uuid = u]]
    BY <1>9, Zenon DEF FetchTxn
  <2> DEFINE r == [Idle EXCEPT !.pc = "llen_b", !.uuid = u]
  <2>2. req' = [req EXCEPT ![t] = r] /\ r.pc = "llen_b" /\ r.got = <<>> /\ r.exist = FALSE
    BY <2>1, Zenon DEF Idle
  <2> HIDE DEF r
  <2> QED BY <1>6, <2>2, Zenon DEF Found, ReadingOf
<1>10. CASE AnswerNotExist(t)
  <2> DEFINE r == [Idle EXCEPT !.pc = "mam"]
  <2>1. req' = [req EXCEPT ![t] = r] /\ r.pc = "mam"
    BY <1>10, Zenon DEF AnswerNotExist, Idle
  <2> HIDE DEF r
  <2> QED BY <1>6, <2>1, Zenon DEF Found, ReadingOf
<1>11. CASE FetchMam(t) /\ ~Return(t)
  <2> DEFINE r == [req[t] EXCEPT !.pc = "mamscan"]
  <2>1. req' = [req EXCEPT ![t] = r] /\ r.pc = "mamscan"
    BY <1>1, <1>11, Zenon DEF FetchMam, ReqRecord
  <2> HIDE DEF r
  <2> QED BY <1>6, <2>1, Zenon DEF Found, ReadingOf
<1>12. CASE BufferLen(t)
  <2> DEFINE r == [req[t] EXCEPT !.pc = "scan_b", !.len = Len(buffer)]
  <2>1. /\ req' = [req EXCEPT ![t] = r] /\ r.pc = "scan_b" /\ req[t].pc = "llen_b"
        /\ r.got = req[t].got /\ r.exist = req[t].exist
    BY <1>1, <1>12, Zenon DEF ReqRecord, BufferLen
  <2> HIDE DEF r
  <2>2. ~req[t].exist
    BY <2>1, Zenon DEF DeliverInv, SendInv, Listed
  <2> QED BY <1>5, <1>6, <2>1, <2>2, Zenon DEF Found, ReadingOf
<1>13. ASSUME NEW p \in {"scan_b", "scan_c"}, NEW q \in {buffer, complete}, req[t].pc = p,
              p = "scan_b" => q = buffer, p = "scan_c" => q = complete,
              req' = [req EXCEPT ![t] = list_exist_step(req[t], q)]
       PROVE  DeliverInv'
  <2> DEFINE r == list_exist_step(req[t], q)
  <2>1. /\ req' = [req EXCEPT ![t] = r] /\ r.pc = p /\ r.uuid = req[t].uuid /\ r.got = req[t].got
        /\ r.exist = (req[t].exist \/ (list_has(q, req[t].idx) /\ list_at(q, req[t].idx) = req[t].uuid))
    BY <1>1, <1>13, Zenon DEF ReqRecord, list_exist_step
  <2>2. list_has(q, req[t].idx) => list_at(q, req[t].idx) \in Range(q)
    BY <1>1, <1>13 DEF list_has, list_at, Range, ReqRecord
  <2> HIDE DEF r
  <2>3. /\ Found(r) => r.uuid \in Settled
        /\ r.pc = "scan_b" /\ r.exist => r.uuid \in Range(buffer)
    BY <1>4, <1>13, <2>1, <2>2, Zenon DEF Found, Settled
  <2>4. faults' + crashes' = 0 => ReadingOf(r)
    BY <1>5, <1>13, <2>1, Zenon DEF ReadingOf
  <2> QED BY <1>6, <1>13, <2>1, <2>3, <2>4, Zenon
<1>14. CASE ScanBuffer(t)
  BY <1>13, <1>14, Zenon DEF ScanBuffer
<1>15. CASE ScanComplete(t)
  BY <1>13, <1>15, Zenon DEF ScanComplete
<1>16. CASE CompleteLen(t)
  <2> DEFINE r == [req[t] EXCEPT !.pc = "scan_c", !.idx = 0, !.len = Len(complete)]
  <2>1. /\ req' = [req EXCEPT ![t] = r] /\ r.pc = "scan_c" /\ req[t].pc = "scan_b"
        /\ r.got = req[t].got /\ r.exist = req[t].exist /\ ~req[t].exist
    BY <1>1, <1>16, Zenon DEF ReqRecord, CompleteLen
  <2> HIDE DEF r
  <2>2. faults' + crashes' = 0 => ReadingOf(r)
    BY <1>5, <2>1, Zenon DEF ReadingOf
  <2> QED BY <1>6, <2>1, <2>2, Zenon DEF Found
<1>17. CASE BundleSize(t)
  <2> DEFINE r == [req[t] EXCEPT !.pc = "unlock", !.idx = 0, !.len = Len(bundle[req[t].uuid])]
  <2>1. /\ req' = [req EXCEPT ![t] = r] /\ r.pc = "unlock" /\ req[t].pc = "scan_c" /\ req[t].exist
        /\ r.uuid = req[t].uuid /\ r.got = req[t].got /\ r.idx = 0 /\ r.len = Len(bundle[r.uuid])
    BY <1>1, <1>17, Zenon DEF ReqRecord, BundleSize
  <2> HIDE DEF r
  <2>2. r.uuid \in Settled
    BY <1>4, <2>1, Zenon DEF Found
  <2>3. faults' + crashes' = 0 => ReadingOf(r)
    <3>1. faults' + crashes' = 0 => bundle[r.uuid] = <<>> \/ r.len = BundleLen
      BY <1>5, <2>1, <2>2, WholeNonEmpty, Zenon DEF Done
    <3> QED BY <1>5, <2>1, <3>1, Zenon DEF ReadingOf
  <2> QED BY <1>6, <2>1, <2>2, <2>3, Zenon
<1>18. CASE Unlock(t)
  <2> DEFINE p == IF req[t].len = 0 THEN "delete" ELSE "read"
             r == [req[t] EXCEPT !.pc = p]
  <2>1. /\ req' = [req EXCEPT ![t] = r] /\ r.pc = p /\ req[t].pc = "unlock" /\ r.uuid = req[t].uuid
        /\ r.got = req[t].got /\ r.idx = req[t].idx /\ r.len = req[t].len /\ req[t].len \in Nat
    BY <1>1, <1>18, Zenon DEF ReqRecord, Unlock
  <2> HIDE DEF r
  <2>2. r.uuid \in Settled
    BY <1>4, <2>1, Zenon DEF Found
  <2>3. faults' + crashes' = 0 => ReadingOf(r)
    <3> SUFFICES ASSUME faults' + crashes' = 0 PROVE ReadingOf(r)
      BY Zenon
    <3>1. req[t].got = <<>> /\ req[t].idx = 0 /\ (bundle[r.uuid] = <<>> \/ req[t].len = BundleLen)
      BY <1>5, <2>1, Zenon DEF ReadingOf
    <3>2. CASE req[t].len = 0
      <4>1. bundle[r.uuid] = <<>>
        BY <3>1, <3>2, TxnBufferAssumption, Zenon
      <4> QED BY <2>1, <3>2, <4>1, Zenon DEF ReadingOf
    <3>3. CASE req[t].len # 0
      <4>1. Len(r.got) = r.idx /\ r.idx < r.len /\ 1..r.idx = {}
        BY <2>1, <3>1, <3>3
      <4> QED BY <2>1, <3>1, <3>3, <4>1, Zenon DEF ReadingOf
    <3> QED BY <3>2, <3>3, Zenon
  <2> QED BY <1>6, <2>1, <2>2, <2>3, Zenon
<1>19. CASE ReadTxn(t) /\ ~Return(t)
  <2> DEFINE s == bundle[req[t].uuid]
             p == IF req[t].idx + 1 = req[t].len THEN "delete" ELSE "read"
             g == Append(req[t].got, list_at(s, req[t].idx))
             r == [req[t] EXCEPT !.idx = req[t].idx + 1, !.got = g, !.pc = p]
  <2>1. /\ req' = [req EXCEPT ![t] = r] /\ r.pc = p /\ req[t].pc = "read" /\ r.uuid = req[t].uuid
        /\ r.got = g /\ r.idx = req[t].idx + 1 /\ r.len = req[t].len /\ list_has(s, req[t].idx)
        /\ req[t].idx \in Nat /\ req[t].len \in Nat
    BY <1>1, <1>19, Zenon DEF ReqRecord, ReadTxn
  <2> HIDE DEF r
  <2>2. r.uuid \in Settled
    BY <1>4, <2>1, Zenon DEF Found
  <2>3. s \in Seq(Txn) /\ req[t].got \in Seq(Txn) /\ list_at(s, req[t].idx) = s[req[t].idx + 1] /\ req[t].idx < Len(s)
    BY <1>1, <2>1, <2>2, Apart, Zenon DEF list_has, list_at, ReqRecord
  <2>4. faults' + crashes' = 0 => ReadingOf(r)
    <3> SUFFICES ASSUME faults' + crashes' = 0 PROVE ReadingOf(r)
      BY Zenon
    <3>1. /\ Len(req[t].got) = req[t].idx /\ req[t].idx < req[t].len /\ req[t].len = BundleLen
          /\ \A j \in 1..req[t].idx : req[t].got[j] = s[j]
          /\ s # <<>>
      <4>1. s # <<>>
        <5>1. s \in Seq(Txn) /\ req[t].idx \in Nat /\ req[t].idx < Len(s)
          BY <2>1, <2>3, Zenon
        <5> HIDE DEF s
        <5> QED BY <5>1
      <4> QED BY <1>5, <2>1, <4>1, Zenon DEF ReadingOf
    <3>2. Whole(s)
      BY <1>5, <2>1, <2>2, <3>1, ZenonT(30) DEF Done
    <3>3. s[req[t].idx + 1] \in Txn
      BY <2>1, <2>3, SMTT(30)
    <3> HIDE DEF s
    <3>4. g \in Seq(Txn) /\ Len(g) = r.idx /\ \A j \in 1..r.idx : g[j] = s[j]
      BY <2>1, <2>3, <3>1, <3>3, SMTT(30)
    <3> HIDE DEF g
    <3>5. CASE req[t].idx + 1 = req[t].len
      <4>1. Whole(g)
        <5>1. Len(g) = BundleLen /\ \A j \in 1..BundleLen : g[j].idx = s[j].idx
          BY <2>1, <3>1, <3>4, <3>5, Zenon
        <5> QED BY <2>3, <3>2, <3>4, <5>1, WholeKept, Zenon
      <4>2. r.pc = "delete" /\ r.got = g
        BY <2>1, <3>5, Zenon
      <4> QED BY <4>1, <4>2, Zenon DEF ReadingOf
    <3>6. CASE req[t].idx + 1 # req[t].len
      <4>1. r.pc = "read" /\ r.got = g /\ r.len = BundleLen /\ Len(r.got) = r.idx /\ r.idx < r.len
        <5>1. r.pc = "read" /\ r.got = g /\ r.len = req[t].len /\ r.idx = req[t].idx + 1
          BY <2>1, <3>6, Zenon
        <5>2. req[t].idx + 1 < req[t].len
          BY <2>1, <3>1, <3>6
        <5> QED BY <3>1, <3>4, <5>1, <5>2, Zenon
      <4>2. \A j \in 1..r.idx : r.got[j] = bundle[r.uuid][j]
        BY <2>1, <3>4, Zenon DEF s
      <4> QED BY <4>1, <4>2, Zenon DEF ReadingOf
    <3> QED BY <3>5, <3>6, Zenon
  <2> QED BY <1>6, <2>1, <2>2, <2>4, Zenon
<1>20. CASE FetchFails(t) /\ ~Return(t)
  <2>1. faults' + crashes' # 0
    BY <1>1, <1>2, <1>20 DEF FetchFails, Fault
  <2>2. CASE req[t].pc = "llen_b" /\ req' = [req EXCEPT ![t].pc = "scan_b", ![t].err = TRUE]
    <3> DEFINE r == [req[t] EXCEPT !.pc = "scan_b", !.err = TRUE]
    <3>1. req' = [req EXCEPT ![t] = r] /\ r.pc = "scan_b" /\ r.exist = req[t].exist
      BY <1>1, <2>2, Zenon DEF ReqRecord
    <3>2. ~req[t].exist
      BY <2>2, Zenon DEF DeliverInv, SendInv, Listed
    <3> HIDE DEF r
    <3> QED BY <1>6, <2>1, <3>1, <3>2, Zenon DEF Found
  <2>3. CASE /\ req[t].pc = "scan_b" /\ ~req[t].exist
             /\ req' = [req EXCEPT ![t].pc = "scan_c", ![t].idx = 0, ![t].len = 0, ![t].err = TRUE]
    <3> DEFINE r == [req[t] EXCEPT !.pc = "scan_c", !.idx = 0, !.len = 0, !.err = TRUE]
    <3>1. req' = [req EXCEPT ![t] = r] /\ r.pc = "scan_c" /\ r.exist = req[t].exist
      BY <1>1, <2>3, Zenon DEF ReqRecord
    <3> HIDE DEF r
    <3> QED BY <1>6, <2>1, <2>3, <3>1, Zenon DEF Found
  <2>4. CASE /\ req[t].pc \in {"scan_b", "scan_c"}
             /\ req' = [req EXCEPT ![t].idx = @ + 1, ![t].err = TRUE]
    <3> DEFINE r == [req[t] EXCEPT !.idx = req[t].idx + 1, !.err = TRUE]
    <3>1. req' = [req EXCEPT ![t] = r] /\ r.pc = req[t].pc /\ r.exist = req[t].exist /\ r.uuid = req[t].uuid
      BY <1>1, <2>4, Zenon DEF ReqRecord
    <3> HIDE DEF r
    <3> QED BY <1>4, <1>6, <2>1, <2>4, <3>1, Zenon DEF Found
  <2> QED BY <1>20, <2>2, <2>3, <2>4, Zenon DEF FetchFails
<1>21. CASE ScanBufferFailed(t) \/ AnswerUnsent(t) \/ ScanCompleteFailed(t) \/ FetchMamDone(t) \/ PushFails(t)
  BY <1>7, <1>21, Zenon DEF ScanBufferFailed, AnswerUnsent, ScanCompleteFailed, FetchMamDone, PushFails, Return, Respond
<1>22. CASE Return(t)
  BY <1>7, <1>22, Zenon DEF Return
<1> QED
  BY <1>8, <1>9, <1>10, <1>11, <1>12, <1>14, <1>15, <1>16, <1>17, <1>18, <1>19, <1>20, <1>21, <1>22, Zenon
  DEF FetchLocal

\* A fetch keeps what it has read when its bundle is left alone, and a thread
\* that has answered has nothing to keep.
LEMMA ReadingKept ==
    ASSUME NEW s \in Thread, ReadingOf(req[s]), req'[s] = req[s],
           Found(req[s]) => bundle'[req[s].uuid] = bundle[req[s].uuid]
    PROVE  ReadingOf(req[s])'
BY Zenon DEF ReadingOf, Found

\* A thread that ends its request has no bundle to answer with.
LEMMA IdleReads ==
    ASSUME Reading, NEW t \in Thread, req'[t].pc = "idle", bundle' = bundle,
           \A s \in Thread \ {t} : req'[s] = req[s]
    PROVE  Reading'
<1>1. ReadingOf(req[t])'
  BY Zenon DEF ReadingOf
<1>2. ASSUME NEW s \in Thread \ {t}
      PROVE  ReadingOf(req[s])'
  BY ReadingKept, Zenon DEF Reading
<1> QED BY <1>1, <1>2, Zenon DEF Reading

\* push_txn_to_buffer, one transaction: the bundle of a UUID nobody else knows.
LEMMA DeliverStore ==
    ASSUME ConsInv, TypeInv', DeliverInv, NEW t \in Thread, StoreTxn(t)
    PROVE  DeliverInv'
<1> DEFINE u == req[t].uuid
           i == req[t].idx + 1
           p == IF i = BundleLen THEN "enqueue" ELSE "store"
           r == [req[t] EXCEPT !.idx = i, !.pc = p]
<1>1. /\ TypeInv /\ req \in [Thread -> ReqRecord] /\ req[t] \in ReqRecord /\ bundle \in [UUID -> Seq(Txn)]
  BY Types, Zenon DEF ConsInv
<1>2. /\ UNCHANGED <<buffer, complete, h, faults, crashes, issued, sent, overtook, taken, delivered>>
      /\ req[t].pc = "store" /\ bundle' = [bundle EXCEPT ![u] = list_push(bundle[u], Raw(i))]
  BY Zenon DEF StoreTxn, budget, history
<1>3. /\ req' = [req EXCEPT ![t] = r] /\ r.pc = p /\ r.uuid = u /\ r.idx = i
  BY <1>1, Zenon DEF StoreTxn, ReqRecord
<1>4. req'[t] = r /\ \A s \in Thread \ {t} : req'[s] = req[s]
  BY <1>1, <1>3, Zenon
<1>5. /\ Storing(t) /\ u \notin pushed /\ u \in issued /\ u \in UUID
      /\ \A s \in Thread \ {t} : Storing(s) => req[s].uuid # u
  BY <1>2, Apart, Zenon DEF Storing, ConsInv, Private
<1>6. req[t].idx \in Nat /\ req[t].idx < BundleLen
  <2>1. req[t].idx < BundleLen
    BY <1>1, <1>2, Zenon DEF TypeInv, Locals
  <2> QED BY <1>1, <2>1, Zenon DEF ReqRecord
<1>7. Settled' = Settled /\ InHand' = InHand
  BY <1>2, Zenon DEF Settled, InHand
<1>8. bundle'[u] = list_push(bundle[u], Raw(i)) /\ \A v \in UUID : v # u => bundle'[v] = bundle[v]
  BY <1>1, <1>2, <1>5, Zenon
<1>9. u \notin Settled /\ u \notin Range(buffer) /\ u \notin InHand
  BY <1>5, Apart, Zenon
<1>10. Settled \subseteq UUID /\ Range(buffer) \subseteq UUID /\ InHand \subseteq UUID
  <2>1. /\ Settled \subseteq pushed /\ Range(buffer) \subseteq pushed /\ InHand \subseteq pushed
        /\ pushed \subseteq issued /\ issued \subseteq UUID
    BY Apart, ZenonT(30)
  <2> QED BY <2>1, Zenon
<1> HIDE DEF r, u
<1>11. Listed' /\ UnsentIsCurrent'
  BY <1>2, <1>3, <1>4, <1>7, SMTT(30) DEF DeliverInv, SendInv, Listed, Found, UnsentIsCurrent
<1>12. Peeked' /\ Evicted' /\ SentUnlessOvertaken'
  BY <1>2, <1>7, Zenon DEF DeliverInv, SendInv, Peeked, Evicted, SentUnlessOvertaken
<1>13. Fresh'
  BY <1>2, <1>5, <1>8, Zenon DEF DeliverInv, SendInv, Fresh
<1>14. Once'
  <2>1. \A s \in Thread : req[s].pc = "popc" => req[s].uuid \in Settled
    BY Zenon DEF DeliverInv, SendInv, Listed, Found
  <2>2. \A s \in Thread : req'[s].pc = "popc" => /\ req'[s] = req[s] /\ req[s].uuid \in UUID
                                                /\ bundle'[req[s].uuid] = bundle[req[s].uuid]
    BY <1>3, <1>4, <1>8, <1>9, <1>10, <2>1, Zenon
  <2>3. \A v \in Settled : v \in UUID /\ bundle'[v] = bundle[v]
    BY <1>8, <1>9, <1>10, Zenon
  <2>4. \A s \in Thread : req'[s].pc = "popc" => bundle'[req'[s].uuid] = <<>> /\ delivered[req'[s].uuid] = 0
    BY <2>2, ZenonT(30) DEF DeliverInv, SendInv, Once
  <2>5. \A a, s \in Thread : req'[a].pc = "popc" /\ req'[s].pc = "popc" /\ a # s => req'[a].uuid # req'[s].uuid
    BY <2>2, SMTT(30) DEF DeliverInv, SendInv, Once
  <2>6. \A v \in UUID : delivered[v] # 0 => delivered[v] = 1 /\ v \in Settled /\ bundle'[v] = <<>>
    BY <2>3, Zenon DEF DeliverInv, SendInv, Once
  <2>7. delivered' = delivered
    BY <1>2, Zenon
  <2> QED BY <1>7, <2>4, <2>5, <2>6, <2>7, Zenon DEF Once
<1>15. Contents'
  <2> SUFFICES ASSUME faults + crashes = 0
               PROVE  Stored' /\ Waiting' /\ Done' /\ Rewritten' /\ Reading'
    BY <1>2, Zenon DEF Contents
  <2>1. Stored /\ Waiting /\ Done /\ Rewritten /\ Reading
    BY Zenon DEF DeliverInv, Contents
  <2>2. Waiting' /\ Done'
    BY <1>2, <1>7, <1>8, <1>9, <1>10, <2>1, Zenon DEF Waiting, Done
  <2>3. Rewritten'
    <3>1. h.pc \in {"read", "repush"} => h.uuid \in Range(buffer)
      BY Zenon DEF DeliverInv, SendInv, Peeked, PeekedPcs
    <3>2. h.pc \in {"read", "repush"} => bundle'[h.uuid] = bundle[h.uuid]
      BY <1>8, <1>9, <1>10, <3>1, Zenon
    <3>3. h' = h
      BY <1>2, Zenon
    <3> QED BY <2>1, <3>2, <3>3, Zenon DEF Rewritten
  <2>4. Stored'
    <3>1. Raw(i) \in Txn /\ Raw(i).idx = i
      BY <1>6, TxnBufferAssumption DEF Raw, Txn
    <3>2. bundle[u] \in Seq(Txn) /\ Len(bundle[u]) = req[t].idx
          /\ \A j \in 1..req[t].idx : bundle[u][j].idx = req[t].idx + 1 - j
      <4>1. StoredOf(req[t]) /\ req[t].pc = "store" /\ u = req[t].uuid
        BY <1>2, <2>1, Zenon DEF Stored, u
      <4>2. bundle[u] \in Seq(Txn)
        BY <1>1, <1>5, Zenon
      <4> QED BY <4>1, <4>2, Zenon DEF StoredOf
    <3> DEFINE b == list_push(bundle[u], Raw(i))
    <3>3. /\ b \in Seq(Txn) /\ Len(b) = i /\ b[1].idx = i
          /\ \A j \in 1..req[t].idx : b[j + 1] = bundle[u][j]
      <4> DEFINE x == Raw(i)
                 q == bundle[u]
      <4>1. x \in Txn /\ x.idx = i /\ q \in Seq(Txn) /\ Len(q) = req[t].idx
        BY <3>1, <3>2, Zenon
      <4> HIDE DEF x, q
      <4>2. /\ list_push(q, x) \in Seq(Txn) /\ Len(list_push(q, x)) = Len(q) + 1 /\ list_push(q, x)[1] = x
            /\ \A j \in 1..Len(q) : list_push(q, x)[j + 1] = q[j]
        BY <4>1, PushTxn, Zenon
      <4> QED BY <4>1, <4>2, Zenon DEF x, q
    <3> HIDE DEF b
    <3>4. \A j \in 1..i : b[j].idx = i + 1 - j
      <4> TAKE j \in 1..i
      <4>1. CASE j = 1
        BY <1>6, <3>3, <4>1
      <4>2. CASE j # 1
        <5>1. j - 1 \in 1..req[t].idx /\ (j - 1) + 1 = j /\ req[t].idx + 1 - (j - 1) = i + 1 - j
          BY <1>6, <4>2
        <5>2. b[j] = bundle[u][j - 1]
          BY <3>3, <5>1, Zenon
        <5> QED BY <3>2, <5>1, <5>2, Zenon
      <4> QED BY <4>1, <4>2, Zenon
    <3>5. i = BundleLen => Whole(b)
      BY <3>3, <3>4, WholeStored, Zenon
    <3>6. StoredOf(req[t])'
      <4>1. bundle'[r.uuid] = b
        BY <1>3, <1>8, Zenon DEF b
      <4>2. r.pc = "store" => Len(bundle'[r.uuid]) = r.idx /\ \A j \in 1..r.idx : bundle'[r.uuid][j].idx = r.idx + 1 - j
        BY <1>3, <3>3, <3>4, <4>1, Zenon
      <4>3. r.pc = "enqueue" => Whole(b)
        BY <1>3, <3>5, Zenon
      <4> QED BY <1>4, <4>1, <4>2, <4>3, Zenon DEF StoredOf
    <3>7. ASSUME NEW s \in Thread \ {t}
          PROVE  StoredOf(req[s])'
      <4>1. req'[s] = req[s] /\ StoredOf(req[s])
        BY <1>4, <2>1, Zenon DEF Stored
      <4>2. Storing(s) => bundle'[req[s].uuid] = bundle[req[s].uuid]
        BY <1>5, <1>8, Apart, Zenon
      <4> QED BY <4>1, <4>2, Zenon DEF StoredOf, Storing
    <3> QED BY <3>6, <3>7, Zenon DEF Stored
  <2>5. Reading'
    <3>1. \A s \in Thread : Found(req[s]) => bundle'[req[s].uuid] = bundle[req[s].uuid]
      BY <1>8, <1>9, <1>10, Zenon DEF DeliverInv, SendInv, Listed
    <3>2. ReadingOf(req[t])'
      <4>1. req'[t].pc \notin {"llen_b", "scan_b", "scan_c", "unlock", "read", "delete", "popc"}
        BY <1>3, <1>4, Zenon
      <4> QED BY <4>1, Zenon DEF ReadingOf
    <3>3. ASSUME NEW s \in Thread \ {t}
          PROVE  ReadingOf(req[s])'
      <4>1. ReadingOf(req[s]) /\ req'[s] = req[s]
        BY <1>4, <2>1, Zenon DEF Reading
      <4> QED BY <3>1, <4>1, ReadingKept, Zenon
    <3> QED BY <3>2, <3>3, Zenon DEF Reading
  <2> QED BY <2>2, <2>3, <2>4, <2>5, Zenon
<1> QED BY <1>11, <1>12, <1>13, <1>14, <1>15, Zenon DEF DeliverInv, SendInv


\* LPUSH of a stored UUID: if the health thread is between peek and pop, it
\* overtakes the one peeked at.
LEMMA DeliverEnqueue ==
    ASSUME ConsInv, TypeInv', DeliverInv, NEW t \in Thread, EnqueueUuid(t)
    PROVE  DeliverInv'
<1> DEFINE u == req[t].uuid
<1>1. TypeInv /\ req \in [Thread -> ReqRecord] /\ buffer \in Seq(UUID)
  BY Types, Zenon DEF ConsInv
<1>2. /\ UNCHANGED <<complete, bundle, h, issued, sent, taken, delivered, faults, crashes>>
      /\ buffer' = list_push(buffer, u) /\ req[t].pc = "enqueue" /\ req' = [req EXCEPT ![t] = Idle]
      /\ overtook' = IF h.pc \in PeekedPcs THEN overtook \cup {u} ELSE overtook
  BY Zenon DEF EnqueueUuid, budget, Respond
<1>3. u \in UUID
  BY <1>2, Apart, Zenon DEF Storing
<1>4. req'[t].pc = "idle" /\ \A s \in Thread \ {t} : req'[s] = req[s]
  BY <1>1, <1>2, IdlePc, Zenon
<1>5. Settled' = Settled /\ InHand' = InHand /\ overtook \subseteq overtook'
  BY <1>2, Zenon DEF Settled, InHand
<1> HIDE DEF u
<1>6. buffer' # <<>> /\ Head(buffer') = u /\ Range(buffer') = {u} \cup Range(buffer)
  <2>1. /\ list_push(buffer, u) \in Seq(UUID) /\ Len(list_push(buffer, u)) = Len(buffer) + 1
        /\ list_push(buffer, u)[1] = u /\ Range(list_push(buffer, u)) = {u} \cup Range(buffer)
    <3>1. buffer \in Seq(UUID) /\ u \in UUID
      BY <1>1, <1>3, Zenon
    <3> QED BY <3>1, PushProperties
  <2>2. buffer' \in Seq(UUID) /\ Len(buffer') = Len(buffer) + 1 /\ buffer'[1] = u /\ Len(buffer) \in Nat
    BY <1>1, <1>2, <2>1, SMTT(30)
  <2> QED BY <1>2, <2>1, <2>2
<1>7. Listed'
  BY <1>4, <1>5, Zenon DEF DeliverInv, SendInv, Listed, Found
<1>8. Peeked'
  BY <1>2, <1>5, <1>6, Zenon DEF DeliverInv, SendInv, Peeked
<1>9. Evicted' /\ Fresh'
  BY <1>2, Zenon DEF DeliverInv, SendInv, Evicted, Fresh
<1>10. Once'
  BY <1>2, <1>4, <1>5 DEF DeliverInv, SendInv, Once
<1>11. SentUnlessOvertaken'
  BY <1>2, <1>5, Zenon DEF DeliverInv, SendInv, SentUnlessOvertaken
<1>12. UnsentIsCurrent'
  BY <1>4, <1>6, Zenon DEF DeliverInv, SendInv, UnsentIsCurrent
<1>13. Contents'
  <2> SUFFICES ASSUME faults + crashes = 0
               PROVE  Stored' /\ Waiting' /\ Done' /\ Rewritten' /\ Reading'
    BY <1>2, Zenon DEF Contents
  <2>1. Stored /\ Waiting /\ Done /\ Rewritten /\ Reading
    BY Zenon DEF DeliverInv, Contents
  <2>2. Waiting' /\ Done'
    <3>1. Whole(bundle[u])
      BY <1>2, <2>1, Zenon DEF Stored, StoredOf, u
    <3> QED BY <1>2, <1>5, <1>6, <2>1, <3>1, Zenon DEF Waiting, Done
  <2>3. Rewritten'
    BY <1>2, <2>1, Zenon DEF Rewritten
  <2>4. Stored'
    <3>1. StoredOf(req[t])'
      BY <1>4, Zenon DEF StoredOf
    <3>2. ASSUME NEW s \in Thread \ {t}
          PROVE  StoredOf(req[s])'
      <4>1. StoredOf(req[s]) /\ req'[s] = req[s] /\ bundle' = bundle
        BY <1>2, <1>4, <2>1, Zenon DEF Stored
      <4> QED BY <4>1, Zenon DEF StoredOf
    <3> QED BY <3>1, <3>2, Zenon DEF Stored
  <2>5. Reading'
    BY <1>2, <1>4, <2>1, IdleReads, Zenon
  <2> QED BY <2>2, <2>3, <2>4, <2>5, Zenon
<1> QED BY <1>7, <1>8, <1>9, <1>10, <1>11, <1>12, <1>13, Zenon DEF DeliverInv, SendInv

\* The DEL of the fetch: of several fetches that read the bundle one counts a
\* key and passes, and that one has read all of it.
LEMMA DeliverDelete ==
    ASSUME ConsInv, TypeInv', DeliverInv, NEW t \in Thread, DeleteBundle(t)
    PROVE  DeliverInv'
<1> DEFINE u == req[t].uuid
<1>1. /\ TypeInv /\ req \in [Thread -> ReqRecord] /\ req[t] \in ReqRecord /\ bundle \in [UUID -> Seq(Txn)]
      /\ faults \in Nat /\ crashes \in Nat
  BY Types, Zenon DEF ConsInv
<1>2. UNCHANGED <<buffer, complete, h, budget, history>> /\ req[t].pc = "delete"
  BY Zenon DEF DeleteBundle
<1>3. CASE Return(t)
  <2>1. UNCHANGED <<store, h, sent, overtook, taken, delivered, crashes, issued>> /\ faults' >= faults
    <3>1. bundle' = bundle
      <4>1. req'[t].pc = "idle"
        BY <1>1, <1>3, IdlePc, Zenon DEF Return
      <4>2. req' # [req EXCEPT ![t].pc = "popc"]
        BY <1>1, <4>1, Zenon DEF ReqRecord
      <4> QED BY <4>2, Zenon DEF DeleteBundle
    <3> QED BY <1>1, <1>2, <3>1 DEF store, budget, history
  <2>2. req' = [req EXCEPT ![t] = Idle] /\ ~Found(Idle) /\ StoredOf(Idle) /\ ReadingOf(Idle)
    BY <1>3, IdlePc, Zenon DEF Return, Found, StoredOf, ReadingOf
  <2>3. issued \subseteq issued'
    BY <2>1, Zenon
  <2> QED BY <1>2, <2>1, <2>2, <2>3, IdlePc, DeliverHttpFrame, Zenon
<1>4. CASE ~Return(t)
  <2>1. bundle[u] # <<>> /\ bundle' = [bundle EXCEPT ![u] = <<>>] /\ req' = [req EXCEPT ![t].pc = "popc"]
    BY <1>4, Zenon DEF DeleteBundle
  <2>2. /\ req'[t].pc = "popc" /\ req'[t].uuid = u /\ req'[t].got = req[t].got
        /\ \A s \in Thread \ {t} : req'[s] = req[s]
    BY <1>1, <2>1, Zenon DEF ReqRecord
  <2>3. u \in Settled /\ u \in UUID
    BY <1>2, Apart, Zenon DEF DeliverInv, SendInv, Listed, Found
  <2>4. bundle'[u] = <<>> /\ \A v \in UUID : v # u => bundle'[v] = bundle[v]
    BY <1>1, <2>1, <2>3, Zenon
  <2>5. /\ Settled' = Settled /\ InHand' = InHand
        /\ h' = h /\ buffer' = buffer /\ overtook' = overtook /\ sent' = sent /\ taken' = taken /\ complete' = complete
        /\ delivered' = delivered /\ issued' = issued /\ faults' = faults /\ crashes' = crashes
    BY <1>2, Zenon DEF Settled, InHand, history, budget
  <2>6. u \notin InHand /\ u \notin Range(buffer) /\ \A s \in Thread : Storing(s) => req[s].uuid # u /\ req[s].uuid \in UUID
    BY <2>3, Apart, Zenon
  <2>7. Settled \subseteq UUID /\ InHand \subseteq UUID /\ Range(buffer) \subseteq UUID
    BY Apart, Zenon
  <2> HIDE DEF u
  <2>8. Listed'
    BY <2>2, <2>3, <2>5, Zenon DEF DeliverInv, SendInv, Listed, Found
  <2>9. Peeked' /\ Evicted' /\ SentUnlessOvertaken'
    BY <2>5, Zenon DEF DeliverInv, SendInv, Peeked, Evicted, SentUnlessOvertaken
  <2>10. Fresh'
    BY <2>4, <2>5, Zenon DEF DeliverInv, SendInv, Fresh
  <2>11. UnsentIsCurrent'
    BY <2>2, <2>5, Zenon DEF DeliverInv, SendInv, UnsentIsCurrent
  <2>12. \A s \in Thread : Found(req[s]) => req[s].uuid \in UUID
    BY <2>7, Zenon DEF DeliverInv, SendInv, Listed
  <2>13. Once'
    <3>1. /\ \A s \in Thread : req[s].pc = "popc" => bundle[req[s].uuid] = <<>> /\ delivered[req[s].uuid] = 0
          /\ \A p, s \in Thread : req[p].pc = "popc" /\ req[s].pc = "popc" /\ p # s => req[p].uuid # req[s].uuid
          /\ \A v \in UUID : delivered[v] # 0 => delivered[v] = 1 /\ v \in Settled /\ bundle[v] = <<>>
      BY Zenon DEF DeliverInv, SendInv, Once
    <3>2. delivered[u] = 0
      BY <2>1, <2>3, <3>1, Zenon
    <3>3. \A s \in Thread \ {t} : req[s].pc = "popc" => req[s].uuid # u /\ bundle'[req[s].uuid] = <<>>
      <4> SUFFICES ASSUME NEW s \in Thread \ {t}, req[s].pc = "popc"
                   PROVE  req[s].uuid # u /\ bundle'[req[s].uuid] = <<>>
        BY Zenon
      <4>1. bundle[req[s].uuid] = <<>>
        BY <3>1, Zenon
      <4>2. req[s].uuid # u
        BY <2>1, <4>1, Zenon
      <4>3. req[s].uuid \in UUID
        BY <2>12, Zenon DEF Found
      <4> QED BY <2>4, <4>1, <4>2, <4>3, Zenon
    <3>4. ASSUME NEW s \in Thread, req'[s].pc = "popc"
          PROVE  bundle'[req'[s].uuid] = <<>> /\ delivered[req'[s].uuid] = 0
      <4>1. CASE s = t
        BY <2>2, <2>4, <3>2, <4>1, Zenon
      <4>2. CASE s # t
        <5>1. s \in Thread \ {t} /\ req'[s] = req[s]
          BY <2>2, <4>2
        <5>2. req[s].pc = "popc"
          BY <3>4, <5>1
        <5> QED BY <3>1, <3>3, <5>1, <5>2, Zenon
      <4> QED BY <4>1, <4>2, Zenon
    <3>5. \A p, s \in Thread : req'[p].pc = "popc" /\ req'[s].pc = "popc" /\ p # s => req'[p].uuid # req'[s].uuid
      BY <2>2, <3>1, <3>3
    <3>6. \A v \in UUID : delivered[v] # 0 => delivered[v] = 1 /\ v \in Settled /\ bundle'[v] = <<>>
      BY <2>4, <3>1, Zenon
    <3> QED BY <2>5, <3>4, <3>5, <3>6, Zenon DEF Once
  <2>14. Contents'
    <3> SUFFICES ASSUME faults + crashes = 0
                 PROVE  Stored' /\ Waiting' /\ Done' /\ Rewritten' /\ Reading'
      BY <2>5, Zenon DEF Contents
    <3>1. Stored /\ Waiting /\ Done /\ Rewritten /\ Reading
      BY Zenon DEF DeliverInv, Contents
    <3>2. Waiting' /\ Done'
      <4>1. \A v \in Range(buffer) \cup InHand : bundle'[v] = bundle[v]
        BY <2>4, <2>6, <2>7, Zenon
      <4>2. \A v \in Settled : bundle'[v] = bundle[v] \/ bundle'[v] = <<>>
        BY <2>4, <2>7, Zenon
      <4>3. Waiting'
        BY <2>5, <3>1, <4>1, Zenon DEF Waiting
      <4>4. Done'
        BY <2>5, <3>1, <4>2, Zenon DEF Done
      <4> QED BY <4>3, <4>4, Zenon
    <3>3. Rewritten'
      <4>1. h.pc \in {"read", "repush"} => h.uuid \in Range(buffer)
        BY Zenon DEF DeliverInv, SendInv, Peeked, PeekedPcs
      <4>2. h.pc \in {"read", "repush"} => bundle'[h.uuid] = bundle[h.uuid]
        BY <2>4, <2>6, <2>7, <4>1, Zenon
      <4> QED BY <2>5, <3>1, <4>2, Zenon DEF Rewritten
    <3>4. Stored'
      <4>1. \A s \in Thread : Storing(s) => s # t /\ req'[s] = req[s] /\ bundle'[req[s].uuid] = bundle[req[s].uuid]
        BY <1>2, <2>2, <2>4, <2>6, Zenon DEF Storing
      <4>2. \A s \in Thread : req'[s].pc \in {"store", "enqueue"} => Storing(s)
        BY <2>2, Zenon DEF Storing
      <4> SUFFICES ASSUME NEW s \in Thread PROVE StoredOf(req[s])'
        BY Zenon DEF Stored
      <4>3. CASE req'[s].pc \in {"store", "enqueue"}
        <5>1. StoredOf(req[s]) /\ req'[s] = req[s] /\ bundle'[req[s].uuid] = bundle[req[s].uuid]
          BY <3>1, <4>1, <4>2, <4>3, Zenon DEF Stored
        <5> QED BY <5>1, Zenon DEF StoredOf
      <4>4. CASE req'[s].pc \notin {"store", "enqueue"}
        BY <4>4, Zenon DEF StoredOf
      <4> QED BY <4>3, <4>4, Zenon
    <3>5. Reading'
      <4>1. Whole(req[t].got)
        BY <1>2, <2>1, <3>1, Zenon DEF Reading, ReadingOf, u
      <4>2. \A s \in Thread \ {t} : Found(req[s]) => bundle'[req[s].uuid] \in {bundle[req[s].uuid], <<>>}
        BY <2>4, <2>12, Zenon
      <4>3. ReadingOf(req[t])'
        BY <2>2, <4>1, Zenon DEF ReadingOf
      <4>4. ASSUME NEW s \in Thread \ {t}
            PROVE  ReadingOf(req[s])'
        <5>1. ReadingOf(req[s]) /\ req'[s] = req[s]
          BY <2>2, <3>1, Zenon DEF Reading
        <5>2. Found(req[s]) => bundle'[req[s].uuid] \in {bundle[req[s].uuid], <<>>}
          BY <4>2, Zenon
        <5> QED BY <5>1, <5>2, Zenon DEF ReadingOf, Found
      <4> QED BY <4>3, <4>4, Zenon DEF Reading
    <3> QED BY <3>2, <3>3, <3>4, <3>5, Zenon
  <2> QED BY <2>8, <2>9, <2>10, <2>11, <2>13, <2>14, Zenon DEF DeliverInv, SendInv
<1> QED BY <1>3, <1>4, Zenon

\* The LPOP that ends a fetch, of whichever UUID is the head.
LEMMA DeliverPop ==
    ASSUME ConsInv, TypeInv', DeliverInv, NEW t \in Thread, PopComplete(t)
    PROVE  DeliverInv'
<1> DEFINE u == req[t].uuid
<1>1. /\ TypeInv /\ req \in [Thread -> ReqRecord] /\ complete \in Seq(UUID) /\ delivered \in [UUID -> Nat]
  BY Types, Zenon DEF ConsInv
<1>2. /\ UNCHANGED <<buffer, bundle, h, faults, crashes, issued, sent, overtook>>
      /\ req[t].pc = "popc" /\ req' = [req EXCEPT ![t] = Idle]
  BY Zenon DEF PopComplete, budget, Return, Requests
<1>3. req'[t].pc = "idle" /\ \A s \in Thread \ {t} : req'[s] = req[s]
  BY <1>1, <1>2, IdlePc, Zenon
<1>4. u \in Settled /\ u \in UUID
  BY <1>2, Apart, Zenon DEF DeliverInv, SendInv, Listed, Found
<1>5. InHand' = InHand
  BY <1>2, Zenon DEF InHand
<1>6. Settled' = Settled /\ taken \subseteq taken' /\ delivered' \in {delivered, [delivered EXCEPT ![u] = @ + 1]}
  <2>1. CASE complete = <<>>
    BY <2>1, Zenon DEF PopComplete, Settled
  <2>2. CASE complete # <<>>
    <3>1. complete' = list_pop(complete) /\ taken' = taken \cup {Head(complete)}
          /\ delivered' = [delivered EXCEPT ![u] = @ + 1]
      BY <2>2, Zenon DEF PopComplete
    <3>2. Range(complete) = {Head(complete)} \cup Range(complete')
      BY <1>1, <2>2, <3>1, PopProperties, Zenon
    <3> QED BY <3>1, <3>2, Zenon DEF Settled
  <2> QED BY <2>1, <2>2, Zenon
<1>7. delivered[u] = 0 /\ bundle[u] = <<>> /\ \A s \in Thread \ {t} : req[s].pc = "popc" => req[s].uuid # u
  BY <1>2, Zenon DEF DeliverInv, SendInv, Once
<1> HIDE DEF u
<1>8. delivered'[u] \in {0, 1} /\ \A v \in UUID : v # u => delivered'[v] = delivered[v]
  BY <1>1, <1>4, <1>6, <1>7
<1>9. Listed'
  BY <1>3, <1>6, Zenon DEF DeliverInv, SendInv, Listed, Found
<1>10. Peeked' /\ Fresh' /\ Evicted'
  BY <1>2, <1>6, Zenon DEF DeliverInv, SendInv, Peeked, Fresh, Evicted
<1>11. Once'
  <2>1. \A s \in Thread : req'[s].pc = "popc" => s # t /\ req'[s] = req[s] /\ req[s].uuid # u /\ req[s].uuid \in UUID
    BY <1>3, <1>7, Apart, Zenon DEF DeliverInv, SendInv, Listed, Found
  <2>2. \A s \in Thread : req'[s].pc = "popc" => bundle[req'[s].uuid] = <<>> /\ delivered'[req'[s].uuid] = 0
    <3>1. \A s \in Thread : req[s].pc = "popc" => bundle[req[s].uuid] = <<>> /\ delivered[req[s].uuid] = 0
      BY Zenon DEF DeliverInv, SendInv, Once
    <3> QED BY <1>8, <2>1, <3>1
  <2>3. \A p, s \in Thread : req'[p].pc = "popc" /\ req'[s].pc = "popc" /\ p # s => req'[p].uuid # req'[s].uuid
    <3>1. \A p, s \in Thread : req[p].pc = "popc" /\ req[s].pc = "popc" /\ p # s => req[p].uuid # req[s].uuid
      BY Zenon DEF DeliverInv, SendInv, Once
    <3> QED BY <2>1, <3>1, Zenon
  <2>4. \A v \in UUID : delivered'[v] # 0 => delivered'[v] = 1 /\ v \in Settled /\ bundle[v] = <<>>
    BY <1>4, <1>7, <1>8, Zenon DEF DeliverInv, SendInv, Once
  <2>5. bundle' = bundle /\ Settled' = Settled
    BY <1>2, <1>6, Zenon
  <2> QED BY <2>2, <2>3, <2>4, <2>5, Zenon DEF Once
<1>12. SentUnlessOvertaken'
  BY <1>2, <1>5, <1>6, Zenon DEF DeliverInv, SendInv, SentUnlessOvertaken, Settled
<1>13. UnsentIsCurrent'
  BY <1>2, <1>3, Zenon DEF DeliverInv, SendInv, UnsentIsCurrent
<1>14. Contents'
  <2> SUFFICES ASSUME faults + crashes = 0
               PROVE  Stored' /\ Waiting' /\ Done' /\ Rewritten' /\ Reading'
    BY <1>2, Zenon DEF Contents
  <2>1. Stored /\ Waiting /\ Done /\ Rewritten /\ Reading
    BY Zenon DEF DeliverInv, Contents
  <2>2. Waiting' /\ Done'
    BY <1>2, <1>5, <1>6, <2>1, Zenon DEF Waiting, Done
  <2>3. Rewritten'
    BY <1>2, <2>1, Zenon DEF Rewritten
  <2>4. Stored'
    <3> SUFFICES ASSUME NEW s \in Thread PROVE StoredOf(req[s])'
      BY Zenon DEF Stored
    <3>1. CASE s = t
      BY <1>3, <3>1, Zenon DEF StoredOf
    <3>2. CASE s # t
      <4>1. StoredOf(req[s]) /\ req'[s] = req[s] /\ bundle' = bundle
        BY <1>2, <1>3, <2>1, <3>2, Zenon DEF Stored
      <4> QED BY <4>1, Zenon DEF StoredOf
    <3> QED BY <3>1, <3>2, Zenon
  <2>5. Reading'
    BY <1>2, <1>3, <2>1, IdleReads, Zenon
  <2> QED BY <2>2, <2>3, <2>4, <2>5, Zenon
<1> QED BY <1>9, <1>10, <1>11, <1>12, <1>13, <1>14, Zenon DEF DeliverInv, SendInv

-----------------------------------------------------------------------------
(* The health thread.                                                       *)

\* The health thread up to the move, apart from the rewriting of the bundle.
LEMMA DeliverBroadcast ==
    ASSUME ConsInv, TypeInv', DeliverInv,
           \/ NodeStatus \/ BufferedLen \/ PeekUuid \/ BufferedSize \/ ReadBuffered
           \/ SendTrytes \/ GetTrytes \/ NodeFails \/ LockForMove \/ LockForMoveFails \/ UnlockMoved
           \/ BroadcastMam \/ LeaveMam \/ BroadcastMamDone
           \/ EvictLock \/ EvictDone \/ EvictUnlock \/ EvictFails \/ BroadcastFails
    PROVE  DeliverInv'
<1>1. /\ TypeInv /\ h \in HealthRecord /\ buffer \in Seq(UUID) /\ faults \in Nat /\ crashes \in Nat
      /\ bundle \in [UUID -> Seq(Txn)]
  BY Types, Zenon DEF ConsInv
<1>2. UNCHANGED <<store, req, issued, overtook, taken, delivered, crashes>> /\ sent \subseteq sent'
  <2>1. UNCHANGED <<store, req, issued, overtook, taken, delivered, crashes>>
    BY Zenon DEF NodeStatus, BufferedLen, PeekUuid, BufferedSize, ReadBuffered, SendTrytes, GetTrytes, NodeFails,
           LockForMove, LockForMoveFails, UnlockMoved, BroadcastMam, LeaveMam, BroadcastMamDone,
           EvictLock, EvictDone, EvictUnlock, EvictFails, BroadcastFails, Fault, budget, history
  <2>2. sent' = sent \/ sent' = sent \cup {h.uuid}
    BY Zenon DEF NodeStatus, BufferedLen, PeekUuid, BufferedSize, ReadBuffered, SendTrytes, GetTrytes, NodeFails,
           LockForMove, LockForMoveFails, UnlockMoved, BroadcastMam, LeaveMam, BroadcastMamDone,
           EvictLock, EvictDone, EvictUnlock, EvictFails, BroadcastFails, history
  <2> QED BY <2>1, <2>2, Zenon
<1>3. faults' = faults \/ faults' = faults + 1
  BY Zenon DEF NodeStatus, BufferedLen, PeekUuid, BufferedSize, ReadBuffered, SendTrytes, GetTrytes, NodeFails,
         LockForMove, LockForMoveFails, UnlockMoved, BroadcastMam, LeaveMam, BroadcastMamDone,
         EvictLock, EvictDone, EvictUnlock, EvictFails, BroadcastFails, Fault, budget
<1>4. h.pc = "repush" => faults' = faults + 1
  BY Zenon DEF NodeStatus, BufferedLen, PeekUuid, BufferedSize, ReadBuffered, SendTrytes, GetTrytes, NodeFails,
         LockForMove, LockForMoveFails, UnlockMoved, BroadcastMam, LeaveMam, BroadcastMamDone,
         EvictLock, EvictDone, EvictUnlock, EvictFails, BroadcastFails, Fault
<1>5. faults' >= faults /\ (h.pc = "repush" => faults' + crashes' > 0)
  BY <1>1, <1>2, <1>3, <1>4
<1>6. buffer' = buffer /\ bundle' = bundle
  BY <1>2, Zenon DEF store
<1>7. faults' + crashes' = 0 => faults + crashes = 0 /\ Waiting /\ Rewritten
  <2>1. faults' + crashes' = 0 => faults + crashes = 0
    BY <1>1, <1>2, <1>5, NoFailureBefore
  <2> QED BY <2>1, Zenon DEF DeliverInv, Contents
<1>8. ASSUME h'.pc \notin PeekedPcs \cup {"bpush"}, h'.evict \in {h.evict, NoUUID}
      PROVE  DeliverInv'
  <2>1. Peeked' /\ InHand' = {} /\ Rewritten'
    BY <1>8, Zenon DEF Peeked, InHand, Rewritten, PeekedPcs
  <2> QED BY <1>2, <1>5, <1>8, <2>1, DeliverHealthFrame, Zenon
<1>9. ASSUME NEW p \in {"status", "blen", "evict"}, Enter(p)
      PROVE  DeliverInv'
  <2>1. h'.pc = p /\ h'.evict = h.evict
    BY <1>9, Zenon DEF Enter, Starting
  <2> QED BY <1>8, <2>1, Zenon DEF PeekedPcs
<1>10. ASSUME NEW p \in {"blen", "mam", "peek", "mamcs", "epop", "edel", "eunlock"}, Goto(p)
       PROVE  DeliverInv'
  <2>1. h'.pc = p /\ h'.evict = h.evict
    BY <1>1, <1>10, Zenon DEF Goto, HealthRecord
  <2> QED BY <1>8, <2>1, Zenon DEF PeekedPcs
<1>11. CASE NodeStatus \/ BufferedLen \/ BroadcastMam \/ BroadcastMamDone \/ EvictLock \/ EvictFails
  BY <1>9, <1>10, <1>11, Zenon DEF NodeStatus, BufferedLen, BroadcastMam, BroadcastMamDone, EvictLock, EvictFails
<1>12. CASE NodeFails \/ LockForMoveFails \/ UnlockMoved \/ LeaveMam \/ EvictDone \/ EvictUnlock \/ BroadcastFails
  BY <1>9, <1>12, Zenon DEF NodeFails, LockForMoveFails, UnlockMoved, LeaveMam, EvictDone, EvictUnlock, BroadcastFails
<1>13. ASSUME h'.evict = h.evict, h'.pc # "bpush", Peeked', faults' + crashes' = 0 => Rewritten'
       PROVE  DeliverInv'
  <2>1. InHand' = {}
    BY <1>13, Zenon DEF InHand
  <2> QED BY <1>2, <1>5, <1>13, <2>1, DeliverHealthFrame, Zenon
<1>14. CASE PeekUuid /\ ~Enter("evict")
  <2>1. list_has(buffer, 0) /\ h' = [h EXCEPT !.pc = "ulen", !.uuid = list_at(buffer, 0)]
    BY <1>14, Zenon DEF PeekUuid
  <2>2. h'.pc = "ulen" /\ h'.uuid = list_at(buffer, 0) /\ h'.evict = h.evict
    BY <1>1, <2>1, Zenon DEF HealthRecord
  <2>3. list_at(buffer, 0) = Head(buffer) /\ buffer # <<>> /\ Head(buffer) \in Range(buffer)
    BY <1>1, <2>1 DEF list_has, list_at, Range
  <2>4. Peeked' /\ Rewritten'
    BY <1>6, <2>2, <2>3, Zenon DEF Peeked, Rewritten
  <2> QED BY <1>13, <2>2, <2>4, Zenon
<1>15. ASSUME h.pc \in PeekedPcs, h'.pc \in PeekedPcs, h'.uuid = h.uuid,
              h'.pc \in {"get", "del", "repush", "wrlock", "bpop"} =>
                 h.pc \in {"get", "del", "repush", "wrlock", "bpop"} \/ h.uuid \in sent'
       PROVE  Peeked'
  BY <1>2, <1>6, <1>15, Zenon DEF DeliverInv, SendInv, Peeked
<1>16. h.pc \in PeekedPcs => h.uuid \in Range(buffer) /\ h.uuid \in UUID
  <2>1. h.pc \in PeekedPcs => h.uuid \in Range(buffer)
    BY Zenon DEF DeliverInv, SendInv, Peeked
  <2> QED BY <2>1, Apart, Zenon
<1>17. CASE BufferedSize
  <2>1. /\ h.pc = "ulen" /\ h'.pc \in {"send", "read"} /\ h'.uuid = h.uuid /\ h'.evict = h.evict
        /\ h'.len = Len(bundle[h.uuid]) /\ h'.idx = 0 /\ h'.trytes = <<>>
        /\ h'.pc = "send" => Len(bundle[h.uuid]) = 0
    BY <1>1, <1>17, Zenon DEF BufferedSize, HealthRecord
  <2>2. faults' + crashes' = 0 => Len(bundle[h.uuid]) = BundleLen
    <3>1. faults' + crashes' = 0 => Whole(bundle[h.uuid])
      BY <1>7, <1>16, <2>1, Zenon DEF Waiting, PeekedPcs
    <3> QED BY <3>1, Zenon DEF Whole
  <2>3. faults' + crashes' = 0 => Rewritten'
    <3>1. BundleLen # 0 /\ 0 < BundleLen
      BY TxnBufferAssumption
    <3>2. Len(<<>>) = 0 /\ 1..0 = {}
      OBVIOUS
    <3> QED BY <2>1, <2>2, <3>1, <3>2, Zenon DEF Rewritten
  <2>4. Peeked'
    BY <1>15, <2>1, Zenon DEF PeekedPcs
  <2> QED BY <1>13, <2>1, <2>3, <2>4, Zenon
<1>18. CASE ReadBuffered /\ ~Enter("evict")
  <2> DEFINE b == bundle[h.uuid]
             i == h.idx + 1
  <2>1. /\ h.pc = "read" /\ list_has(b, h.idx) /\ h'.uuid = h.uuid /\ h'.evict = h.evict /\ h'.idx = i
        /\ h'.len = h.len /\ h'.trytes = Append(h.trytes, list_at(b, h.idx))
        /\ h'.pc = IF i = h.len THEN "send" ELSE "read"
    BY <1>1, <1>18, Zenon DEF ReadBuffered, HealthRecord
  <2>2. b \in Seq(Txn) /\ h.idx \in Nat /\ h.trytes \in Seq(Txn) /\ i \in 1..Len(b) /\ b[i] \in Txn
    BY <1>1, <1>16, <2>1 DEF PeekedPcs, list_has, HealthRecord
  <2>3. h'.pc \in {"read", "send"} /\ (h'.pc = "send" => i = h.len) /\ (h'.pc = "read" => i # h.len)
    BY <2>1, Zenon
  <2>4. h'.trytes = Append(h.trytes, b[i]) /\ h'.trytes \in Seq(Txn)
    BY <2>1, <2>2 DEF list_at
  <2>5. ASSUME faults' + crashes' = 0
        PROVE  Rewritten'
    <3>1. /\ h.len = BundleLen /\ h.idx < h.len /\ Len(h.trytes) = h.idx /\ Whole(b)
          /\ \A j \in 1..h.idx : h.trytes[j] = b[j]
      BY <1>7, <1>16, <2>1, <2>5, Zenon DEF Waiting, Rewritten, PeekedPcs
    <3> HIDE DEF b
    <3>2. Len(h'.trytes) = i /\ \A j \in 1..i : h'.trytes[j] = b[j]
      BY <2>2, <2>4, <3>1
    <3>3. h'.pc = "send" => Whole(h'.trytes)
      <4> SUFFICES ASSUME h'.pc = "send" PROVE Whole(h'.trytes)
        BY Zenon
      <4>1. Len(h'.trytes) = BundleLen /\ \A j \in 1..BundleLen : h'.trytes[j].idx = b[j].idx
        BY <2>3, <3>1, <3>2, Zenon
      <4> QED BY <2>2, <2>4, <3>1, <4>1, WholeKept, Zenon
    <3>4. h'.pc = "read" => i < h.len
      BY <2>2, <2>3, <3>1, TxnBufferAssumption
    <3> QED BY <1>6, <2>1, <2>3, <3>1, <3>2, <3>3, <3>4, Zenon DEF Rewritten, b
  <2>6. Peeked'
    BY <1>15, <2>1, <2>3, Zenon DEF PeekedPcs
  <2> QED BY <1>13, <2>1, <2>3, <2>5, <2>6, Zenon
<1>19. CASE SendTrytes
  <2>1. /\ h.pc = "send" /\ h'.pc = "get" /\ h'.uuid = h.uuid /\ h'.evict = h.evict /\ h'.trytes = Attach(h.trytes)
        /\ h.uuid \in sent'
    BY <1>1, <1>19, Zenon DEF SendTrytes, HealthRecord
  <2>2. h.trytes \in Seq(Txn)
    BY <1>1, Zenon DEF HealthRecord
  <2>3. ASSUME faults' + crashes' = 0
        PROVE  Whole(h'.trytes)
    <3>1. Whole(h.trytes)
      BY <1>7, <2>1, <2>3, Zenon DEF Rewritten
    <3>2. \A j \in 1..Len(h.trytes) : Attach(h.trytes)[j].idx = h.trytes[j].idx
      <4>1. DOMAIN h.trytes = 1..Len(h.trytes) /\ \A j \in 1..Len(h.trytes) : h.trytes[j] \in Txn
        BY <2>2
      <4> QED BY <4>1, Zenon DEF Attach, Txn
    <3>3. Len(h.trytes) = BundleLen
      BY <3>1, Zenon DEF Whole
    <3> QED BY <2>1, <2>2, <3>1, <3>2, <3>3, AttachType, WholeKept, Zenon
  <2>4. faults' + crashes' = 0 => Rewritten'
    BY <2>1, <2>3, Zenon DEF Rewritten
  <2>5. Peeked'
    BY <1>15, <2>1, Zenon DEF PeekedPcs
  <2> QED BY <1>13, <2>1, <2>4, <2>5, Zenon
<1>20. CASE GetTrytes \/ LockForMove
  <2>1. /\ h'.uuid = h.uuid /\ h'.evict = h.evict /\ h'.trytes = h.trytes
        /\ (h.pc = "get" /\ h'.pc = "del") \/ (h.pc = "wrlock" /\ h'.pc = "bpop")
    BY <1>1, <1>20, Zenon DEF GetTrytes, LockForMove, Goto, HealthRecord
  <2>2. faults' + crashes' = 0 => Rewritten'
    BY <1>7, <2>1, Zenon DEF Rewritten
  <2>3. Peeked'
    BY <1>15, <2>1, Zenon DEF PeekedPcs
  <2> QED BY <1>13, <2>1, <2>2, <2>3, Zenon
<1> QED BY <1>9, <1>11, <1>12, <1>14, <1>17, <1>18, <1>19, <1>20, Zenon

\* The rewriting of the bundle: it touches the UUID that was peeked at, which is
\* in the buffer list still.
LEMMA DeliverRewriteFrame ==
    ASSUME ConsInv, TypeInv', DeliverInv, h.pc \in PeekedPcs, h'.pc \in {"repush", "wrlock"},
           h'.uuid = h.uuid, h'.evict = h.evict, h.uuid \in sent,
           \A v \in UUID : v # h.uuid => bundle'[v] = bundle[v],
           UNCHANGED <<buffer, complete, req, faults, crashes, issued, sent, overtook, taken, delivered>>,
           faults + crashes = 0 => Rewritten' /\ (h'.pc = "repush" \/ Whole(bundle'[h.uuid]))
    PROVE  DeliverInv'
<1> DEFINE u == h.uuid
<1>1. u \in Range(buffer) /\ buffer # <<>> /\ Head(buffer) \in {u} \cup overtook
  BY Zenon DEF DeliverInv, SendInv, Peeked
<1>2. /\ u \in UUID /\ u \in issued /\ u \notin Settled /\ u \notin InHand
      /\ \A s \in Thread : Storing(s) => req[s].uuid # u /\ req[s].uuid \in UUID
  BY <1>1, Apart, Zenon
<1>3. Settled' = Settled /\ InHand' = {} /\ InHand = {}
  BY Zenon DEF Settled, InHand, PeekedPcs
<1>4. Settled \subseteq UUID /\ Range(buffer) \subseteq UUID
  BY Apart, Zenon
<1>5. \A v \in Settled : bundle'[v] = bundle[v]
  BY <1>2, <1>4, Zenon
<1> HIDE DEF u
<1>6. Listed'
  BY <1>3, Zenon DEF DeliverInv, SendInv, Listed, Found
<1>7. Peeked' /\ Evicted' /\ UnsentIsCurrent'
  BY <1>1, Zenon DEF DeliverInv, SendInv, Peeked, Evicted, UnsentIsCurrent, u
<1>8. Fresh'
  BY <1>2, Zenon DEF DeliverInv, SendInv, Fresh, u
<1>9. Once'
  <2>1. \A s \in Thread : req[s].pc = "popc" => req[s].uuid \in Settled
    BY Zenon DEF DeliverInv, SendInv, Listed, Found
  <2> QED BY <1>3, <1>5, <2>1, Zenon DEF DeliverInv, SendInv, Once
<1>10. SentUnlessOvertaken'
  BY <1>3, Zenon DEF DeliverInv, SendInv, SentUnlessOvertaken, Settled
<1>11. Contents'
  <2> SUFFICES ASSUME faults + crashes = 0
               PROVE  Stored' /\ Waiting' /\ Done' /\ Reading'
    BY Zenon DEF Contents
  <2>1. Stored /\ Waiting /\ Done /\ Reading
    BY Zenon DEF DeliverInv, Contents
  <2>2. Waiting'
    <3> SUFFICES ASSUME NEW v \in Range(buffer)
                 PROVE  Whole(bundle[v])' \/ (h'.pc = "repush" /\ h'.uuid = v)
      BY <1>3, Zenon DEF Waiting
    <3>1. CASE v = u
      BY <3>1, Zenon DEF Whole, u
    <3>2. CASE v # u
      <4>1. Whole(bundle[v]) /\ bundle'[v] = bundle[v]
        BY <1>4, <2>1, <3>2, Zenon DEF Waiting, u
      <4> QED BY <4>1 DEF Whole
    <3> QED BY <3>1, <3>2, Zenon
  <2>3. Done'
    BY <1>3, <1>5, <2>1, Zenon DEF Done
  <2>4. Stored'
    <3> SUFFICES ASSUME NEW s \in Thread PROVE StoredOf(req[s])'
      BY Zenon DEF Stored
    <3>1. CASE Storing(s)
      <4>1. StoredOf(req[s]) /\ req'[s] = req[s] /\ bundle'[req[s].uuid] = bundle[req[s].uuid]
        BY <1>2, <2>1, <3>1, Zenon DEF Stored, u
      <4> QED BY <4>1, Zenon DEF StoredOf
    <3>2. CASE ~Storing(s)
      BY <3>2, Zenon DEF StoredOf, Storing
    <3> QED BY <3>1, <3>2, Zenon
  <2>5. Reading'
    <3> SUFFICES ASSUME NEW s \in Thread PROVE ReadingOf(req[s])'
      BY Zenon DEF Reading
    <3>1. ReadingOf(req[s]) /\ (Found(req[s]) => bundle'[req[s].uuid] = bundle[req[s].uuid])
      BY <1>5, <2>1, Zenon DEF Reading, DeliverInv, SendInv, Listed
    <3> QED BY <3>1, Zenon DEF ReadingOf, Found
  <2> QED BY <2>2, <2>3, <2>4, <2>5, Zenon
<1> QED BY <1>6, <1>7, <1>8, <1>9, <1>10, <1>11, Zenon DEF DeliverInv, SendInv

\* The stored bundle is deleted and written again, one transaction at a time.
LEMMA DeliverRewrite ==
    ASSUME ConsInv, TypeInv', DeliverInv, DeleteOld \/ RepushTxn
    PROVE  DeliverInv'
<1> DEFINE u == h.uuid
<1>1. TypeInv /\ h \in HealthRecord /\ bundle \in [UUID -> Seq(Txn)] /\ faults \in Nat /\ crashes \in Nat
  BY Types, Zenon DEF ConsInv
<1>2. /\ UNCHANGED <<buffer, complete, req, faults, crashes, issued, sent, overtook, taken, delivered>>
      /\ h.pc \in {"del", "repush"}
  BY Zenon DEF DeleteOld, RepushTxn, budget, history
<1>3. u \in UUID /\ u \in sent /\ h.pc \in PeekedPcs
  <2>1. u \in Range(buffer) /\ u \in sent /\ h.pc \in PeekedPcs
    BY <1>2, Zenon DEF DeliverInv, SendInv, Peeked, PeekedPcs
  <2> QED BY <2>1, Apart, Zenon
<1>4. faults + crashes = 0 => Rewritten
  BY Zenon DEF DeliverInv, Contents
<1>5. CASE Enter("evict") /\ DeleteOld
  <2>1. h'.pc = "evict" /\ h'.evict = h.evict /\ h.pc = "del"
    BY <1>5, Zenon DEF Enter, Starting, DeleteOld
  <2>2. bundle' = bundle
    <3>1. h' # [h EXCEPT !.pc = "repush", !.idx = 0]
      BY <1>1, <2>1, Zenon DEF HealthRecord
    <3> QED BY <1>5, <3>1, Zenon DEF DeleteOld
  <2>3. Peeked' /\ InHand' = {} /\ Rewritten'
    BY <2>1, Zenon DEF Peeked, InHand, Rewritten, PeekedPcs
  <2>4. UNCHANGED store /\ faults' >= faults
    BY <1>1, <1>2, <2>2 DEF store
  <2> QED BY <1>2, <2>1, <2>3, <2>4, DeliverHealthFrame, Zenon
<1>6. CASE DeleteOld /\ ~Enter("evict")
  <2>1. bundle' = [bundle EXCEPT ![u] = <<>>] /\ h' = [h EXCEPT !.pc = "repush", !.idx = 0] /\ h.pc = "del"
    BY <1>6, Zenon DEF DeleteOld
  <2>2. h'.pc = "repush" /\ h'.idx = 0 /\ h'.uuid = u /\ h'.evict = h.evict /\ h'.trytes = h.trytes
    BY <1>1, <2>1, Zenon DEF HealthRecord
  <2>3. bundle'[u] = <<>> /\ \A v \in UUID : v # u => bundle'[v] = bundle[v]
    BY <1>1, <1>3, <2>1, Zenon
  <2>4. faults + crashes = 0 => Rewritten'
    <3>1. Len(<<>>) = 0 /\ 1..0 = {} /\ 0 < BundleLen
      BY TxnBufferAssumption
    <3> QED BY <1>4, <2>1, <2>2, <2>3, <3>1, Zenon DEF Rewritten
  <2> QED BY <1>2, <1>3, <2>2, <2>3, <2>4, DeliverRewriteFrame, Zenon
<1>7. CASE RepushTxn
  <2> DEFINE i == h.idx + 1
             b == bundle[u]
             x == h.trytes[i]
             q == list_push(b, x)
  <2>1. bundle' = [bundle EXCEPT ![u] = q] /\ h.pc = "repush"
    BY <1>7, Zenon DEF RepushTxn
  <2>2. /\ h'.pc = (IF i = Len(h.trytes) THEN "wrlock" ELSE "repush")
        /\ h'.idx = i /\ h'.uuid = u /\ h'.evict = h.evict /\ h'.trytes = h.trytes
    BY <1>1, <1>7, Zenon DEF RepushTxn, HealthRecord
  <2>3. bundle'[u] = q /\ \A v \in UUID : v # u => bundle'[v] = bundle[v]
    BY <1>1, <1>3, <2>1, Zenon
  <2>4. /\ h.idx \in Nat /\ h.trytes \in Seq(Txn) /\ i \in 1..Len(h.trytes)
        /\ x \in Txn /\ b \in Seq(Txn)
    BY <1>1, <1>3, <2>1 DEF HealthRecord, TypeInv, Locals
  <2>5. ASSUME faults + crashes = 0
        PROVE  Rewritten' /\ (h'.pc = "repush" \/ Whole(bundle'[h.uuid]))
    <3>1. /\ Whole(h.trytes) /\ Len(h.trytes) = BundleLen /\ Len(b) = h.idx
          /\ \A j \in 1..h.idx : b[j] = h.trytes[h.idx + 1 - j]
      <4>1. /\ Whole(h.trytes) /\ Len(b) = h.idx
            /\ \A j \in 1..h.idx : b[j] = h.trytes[h.idx + 1 - j]
        BY <1>4, <2>1, <2>5, Zenon DEF Rewritten
      <4>2. Len(h.trytes) = BundleLen
        BY <4>1, Zenon DEF Whole
      <4> QED BY <4>1, <4>2, Zenon
    <3> HIDE DEF b, x
    <3>2. q \in Seq(Txn) /\ Len(q) = Len(b) + 1 /\ q[1] = x /\ \A j \in 1..Len(b) : q[j + 1] = b[j]
      BY <2>4, PushTxn, Zenon
    <3> HIDE DEF q
    <3>3. \A j \in 1..i : q[j] = h.trytes[i + 1 - j]
      <4> TAKE j \in 1..i
      <4>1. CASE j = 1
        BY <2>4, <3>2, <4>1 DEF x
      <4>2. CASE j # 1
        <5>1. j - 1 \in 1..h.idx /\ (j - 1) + 1 = j /\ h.idx + 1 - (j - 1) = i + 1 - j
          BY <2>4, <4>2
        <5>2. q[j] = b[j - 1]
          BY <3>1, <3>2, <5>1, Zenon
        <5> QED BY <3>1, <5>1, <5>2, Zenon
      <4> QED BY <4>1, <4>2, Zenon
    <3>4. Len(q) = i /\ i \in 1..BundleLen
      BY <2>4, <3>1, <3>2, Zenon
    <3>5. CASE i = BundleLen
      <4>1. Whole(q)
        <5>1. Len(q) = BundleLen /\ \A j \in 1..BundleLen : q[j] = h.trytes[BundleLen + 1 - j]
          BY <3>3, <3>4, <3>5, Zenon
        <5> QED BY <2>4, <3>1, <3>2, <5>1, WholeKept, Zenon
      <4>2. h'.pc = "wrlock"
        BY <2>2, <3>1, <3>5, Zenon
      <4>3. Rewritten'
        BY <4>2, Zenon DEF Rewritten
      <4> QED BY <2>3, <4>1, <4>3, Zenon
    <3>6. CASE i # BundleLen
      <4>1. h'.pc = "repush" /\ i < BundleLen
        BY <2>2, <3>1, <3>4, <3>6, TxnBufferAssumption
      <4> QED BY <2>2, <2>3, <3>1, <3>3, <3>4, <4>1, Zenon DEF Rewritten
    <3> QED BY <3>5, <3>6, Zenon
  <2>6. h'.pc \in {"repush", "wrlock"}
    BY <2>2, Zenon
  <2> QED BY <1>2, <1>3, <2>2, <2>3, <2>5, <2>6, DeliverRewriteFrame, Zenon
<1> QED BY <1>5, <1>6, <1>7, Zenon

\* The move from list to list: the head is the UUID peeked at, or one that
\* overtook it, and no fetch is scanning.
LEMMA DeliverMove ==
    ASSUME ConsInv, TypeInv', DeliverInv, PopBuffered \/ PushComplete
    PROVE  DeliverInv'
<1>1. TypeInv /\ h \in HealthRecord /\ buffer \in Seq(UUID) /\ complete \in Seq(UUID)
  BY Types, Zenon DEF ConsInv
<1>2. UNCHANGED <<bundle, req, faults, crashes, issued, sent, overtook, taken, delivered>>
  BY Zenon DEF PopBuffered, PushComplete, budget, history
<1>3. faults + crashes = 0 => Stored /\ Waiting /\ Done /\ Reading
  BY Zenon DEF DeliverInv, Contents
<1>4. faults + crashes = 0 => Stored' /\ Reading'
  BY <1>2, <1>3, Zenon DEF Stored, StoredOf, Reading, ReadingOf
<1>5. CASE PopBuffered
  <2>1. h.pc = "bpop" /\ complete' = complete
    BY <1>5, Zenon DEF PopBuffered
  <2>2. buffer # <<>> /\ Head(buffer) \in {h.uuid} \cup overtook /\ h.uuid \in sent
    BY <2>1, Zenon DEF DeliverInv, SendInv, Peeked, PeekedPcs
  <2>3. buffer' = list_pop(buffer) /\ h'.pc = "bpush" /\ h'.uuid = Head(buffer) /\ h'.evict = h.evict
    BY <1>1, <1>5, <2>2, Zenon DEF PopBuffered, HealthRecord
  <2>4. Range(buffer) = {Head(buffer)} \cup Range(buffer')
    BY <1>1, <2>2, <2>3, PopProperties, Zenon
  <2>5. Settled' = Settled /\ InHand = {} /\ InHand' = {Head(buffer)}
    BY <1>2, <2>1, <2>3, Zenon DEF Settled, InHand
  <2>6. Listed' /\ Evicted' /\ Fresh'
    BY <1>2, <2>3, <2>5, Zenon DEF DeliverInv, SendInv, Listed, Found, Evicted, Fresh
  <2>7. Peeked'
    BY <2>3, Zenon DEF Peeked, PeekedPcs
  <2>8. Once'
    BY <1>2, <2>5, Zenon DEF DeliverInv, SendInv, Once
  <2>9. SentUnlessOvertaken'
    BY <1>2, <2>1, <2>2, <2>5, Zenon DEF DeliverInv, SendInv, SentUnlessOvertaken
  <2>10. UnsentIsCurrent'
    <3>1. Readers = {}
      BY <1>1, <2>1, Zenon DEF TypeInv, MoveUnseen
    <3> QED BY <1>2, <3>1, Zenon DEF UnsentIsCurrent, Readers, ReadPcs
  <2>11. Contents'
    <3>1. Rewritten'
      BY <2>3, Zenon DEF Rewritten
    <3>2. faults + crashes = 0 => Waiting' /\ Done'
      BY <1>2, <1>3, <2>1, <2>4, <2>5, Zenon DEF Waiting, Done
    <3> QED BY <1>2, <1>4, <3>1, <3>2, Zenon DEF Contents
  <2> QED BY <2>6, <2>7, <2>8, <2>9, <2>10, <2>11, Zenon DEF DeliverInv, SendInv
<1>6. CASE PushComplete
  <2> DEFINE u == h.uuid
  <2>1. h.pc = "bpush" /\ complete' = list_push(complete, u) /\ h'.pc = "unlock" /\ h'.evict = h.evict /\ buffer' = buffer
    BY <1>1, <1>6, Zenon DEF PushComplete, Goto, HealthRecord
  <2>2. u \in UUID /\ InHand = {u} /\ InHand' = {}
    BY <1>1, <2>1, Zenon DEF TypeInv, Locals, InHand
  <2> HIDE DEF u
  <2>3. Range(complete') = {u} \cup Range(complete)
    <3>1. u \in UUID /\ complete' = list_push(complete, u) /\ complete \in Seq(UUID)
      BY <1>1, <2>1, <2>2, Zenon
    <3> QED BY <3>1, PushProperties, Zenon
  <2>4. Settled' = Settled \cup {u}
    BY <1>2, <2>3, Zenon DEF Settled
  <2>5. Listed' /\ Evicted' /\ Fresh'
    BY <1>2, <2>1, <2>4, Zenon DEF DeliverInv, SendInv, Listed, Found, Evicted, Fresh
  <2>6. Peeked' /\ UnsentIsCurrent'
    BY <1>2, <2>1, Zenon DEF DeliverInv, SendInv, Peeked, PeekedPcs, UnsentIsCurrent
  <2>7. Once'
    BY <1>2, <2>4, Zenon DEF DeliverInv, SendInv, Once
  <2>8. SentUnlessOvertaken'
    BY <1>2, <2>2, <2>3, Zenon DEF DeliverInv, SendInv, SentUnlessOvertaken
  <2>9. Contents'
    <3>1. Rewritten'
      BY <2>1, Zenon DEF Rewritten
    <3>2. faults + crashes = 0 => Waiting' /\ Done'
      BY <1>2, <1>3, <2>1, <2>2, <2>4, Zenon DEF Waiting, Done
    <3> QED BY <1>2, <1>4, <3>1, <3>2, Zenon DEF Contents
  <2> QED BY <2>5, <2>6, <2>7, <2>8, <2>9, Zenon DEF DeliverInv, SendInv
<1> QED BY <1>5, <1>6, Zenon

\* Eviction takes UUIDs from the complete list and deletes their bundles.
LEMMA DeliverEvict ==
    ASSUME ConsInv, TypeInv', DeliverInv, EvictPop \/ EvictDelete
    PROVE  DeliverInv'
<1>1. /\ TypeInv /\ h \in HealthRecord /\ complete \in Seq(UUID) /\ bundle \in [UUID -> Seq(Txn)]
  BY Types, Zenon DEF ConsInv
<1>2. UNCHANGED <<buffer, req, faults, crashes, issued, sent, overtook, delivered>>
  BY Zenon DEF EvictPop, EvictDelete, budget, history, Requests
<1>3. h.pc \in {"epop", "edel"} /\ h'.pc \in {"edel", "eunlock"}
  BY <1>1, Zenon DEF EvictPop, EvictDelete, Goto, HealthRecord
<1>4. Settled' = Settled /\ taken \subseteq taken' /\ Range(complete') \subseteq Range(complete)
  <2>1. CASE EvictPop /\ complete # <<>>
    <3>1. complete' = list_pop(complete) /\ taken' = taken \cup {Head(complete)}
      BY <2>1, Zenon DEF EvictPop
    <3>2. Range(complete) = {Head(complete)} \cup Range(complete')
      BY <1>1, <2>1, <3>1, PopProperties, Zenon
    <3> QED BY <3>1, <3>2, Zenon DEF Settled
  <2>2. CASE ~(EvictPop /\ complete # <<>>)
    BY <2>2, Zenon DEF EvictPop, EvictDelete, history, Settled
  <2> QED BY <2>1, <2>2, Zenon
<1>5. Evicted'
  <2>1. CASE EvictPop /\ complete # <<>>
    <3>1. taken' = taken \cup {Head(complete)} /\ h'.evict = Head(complete)
      BY <1>1, <2>1, Zenon DEF EvictPop, HealthRecord
    <3> QED BY <3>1, Zenon DEF Evicted
  <2>2. CASE ~(EvictPop /\ complete # <<>>)
    <3>1. h'.evict = h.evict
      BY <1>1, <2>2, Zenon DEF EvictPop, EvictDelete, Goto, HealthRecord
    <3> QED BY <1>4, <3>1, Zenon DEF DeliverInv, SendInv, Evicted
  <2> QED BY <2>1, <2>2, Zenon
<1>6. InHand' = {} /\ InHand = {}
  BY <1>3, Zenon DEF InHand
<1>7. /\ \A v \in UUID : bundle'[v] = bundle[v] \/ bundle'[v] = <<>>
      /\ \A v \in UUID \ Settled : bundle'[v] = bundle[v]
  <2>1. CASE EvictPop
    BY <2>1, Zenon DEF EvictPop
  <2>2. CASE EvictDelete
    <3>1. \A v \in UUID : bundle'[v] = IF v = h.evict THEN <<>> ELSE bundle[v]
      BY <2>2, Zenon DEF EvictDelete
    <3>2. h.evict \in UUID => h.evict \in Settled
      BY TxnBufferAssumption, Zenon DEF DeliverInv, SendInv, Evicted, Settled
    <3> QED BY <3>1, <3>2, Zenon
  <2> QED BY <2>1, <2>2, Zenon
<1>8. Settled \subseteq UUID /\ \A v \in Range(buffer) : v \in UUID \ Settled
  BY Apart, Zenon
<1>9. \A s \in Thread : Found(req[s]) => req[s].uuid \in UUID
  BY <1>8, Zenon DEF DeliverInv, SendInv, Listed
<1>10. Listed' /\ UnsentIsCurrent'
  BY <1>2, <1>4, Zenon DEF DeliverInv, SendInv, Listed, Found, UnsentIsCurrent
<1>11. Peeked'
  BY <1>3, Zenon DEF Peeked, PeekedPcs
<1>12. Fresh'
  BY <1>2, <1>7, Zenon DEF DeliverInv, SendInv, Fresh
<1>13. Once'
  <2>1. \A s \in Thread : req[s].pc = "popc" => req[s].uuid \in UUID
    BY <1>9, Zenon DEF Found
  <2> QED BY <1>2, <1>4, <1>7, <2>1, Zenon DEF DeliverInv, SendInv, Once
<1>14. SentUnlessOvertaken'
  BY <1>2, <1>4, <1>6, Zenon DEF DeliverInv, SendInv, SentUnlessOvertaken, Settled
<1>15. Contents'
  <2> SUFFICES ASSUME faults + crashes = 0
               PROVE  Stored' /\ Waiting' /\ Done' /\ Rewritten' /\ Reading'
    BY <1>2, Zenon DEF Contents
  <2>1. Stored /\ Waiting /\ Done /\ Reading
    BY Zenon DEF DeliverInv, Contents
  <2>2. Waiting'
    <3>1. \A v \in Range(buffer) : bundle'[v] = bundle[v] /\ Whole(bundle[v])
      BY <1>3, <1>7, <1>8, <2>1, Zenon DEF Waiting
    <3> QED BY <1>2, <1>6, <3>1, Zenon DEF Waiting
  <2>3. Done'
    BY <1>4, <1>7, <1>8, <2>1, Zenon DEF Done
  <2>4. Rewritten'
    BY <1>3, Zenon DEF Rewritten
  <2>5. Stored'
    <3> SUFFICES ASSUME NEW s \in Thread PROVE StoredOf(req[s])'
      BY Zenon DEF Stored
    <3>1. CASE Storing(s)
      <4>1. req[s].uuid \in UUID \ Settled
        BY <3>1, Apart, Zenon
      <4>2. StoredOf(req[s]) /\ req'[s] = req[s] /\ bundle'[req[s].uuid] = bundle[req[s].uuid]
        BY <1>2, <1>7, <2>1, <4>1, Zenon DEF Stored
      <4> QED BY <4>2, Zenon DEF StoredOf
    <3>2. CASE ~Storing(s)
      BY <1>2, <3>2, Zenon DEF StoredOf, Storing
    <3> QED BY <3>1, <3>2, Zenon
  <2>6. Reading'
    <3> SUFFICES ASSUME NEW s \in Thread PROVE ReadingOf(req[s])'
      BY Zenon DEF Reading
    <3>1. /\ ReadingOf(req[s]) /\ req' = req
          /\ Found(req[s]) => bundle'[req[s].uuid] = bundle[req[s].uuid] \/ bundle'[req[s].uuid] = <<>>
      BY <1>2, <1>7, <1>9, <2>1, Zenon DEF Reading
    <3> QED BY <3>1, Zenon DEF ReadingOf, Found
  <2> QED BY <2>2, <2>3, <2>4, <2>5, <2>6, Zenon
<1> QED BY <1>5, <1>10, <1>11, <1>12, <1>13, <1>14, <1>15, Zenon DEF DeliverInv, SendInv

\* A crash: redis keeps what it has, and nobody is fetching any more.
LEMMA DeliverCrash ==
    ASSUME ConsInv, TypeInv', DeliverInv, Crash
    PROVE  DeliverInv'
<1>1. /\ UNCHANGED <<buffer, complete, bundle, issued, sent, overtook, taken, delivered>>
      /\ Settled' = Settled /\ crashes' = crashes + 1 /\ faults' = faults
  BY Zenon DEF Crash, store, Settled
<1>2. h'.pc = "status" /\ h'.evict = NoUUID /\ InHand' = {}
  BY Zenon DEF Crash, InHand, Starting
<1>3. \A t \in Thread : req'[t].pc = "idle"
  BY IdlePc, Zenon DEF Crash
<1>4. faults' + crashes' # 0
  <2>1. faults \in Nat /\ crashes \in Nat
    BY Types, Zenon DEF ConsInv
  <2> QED BY <1>1, <2>1
<1>5. Listed' /\ Peeked' /\ Evicted' /\ UnsentIsCurrent' /\ Contents'
  BY <1>2, <1>3, <1>4, Zenon DEF Listed, Found, Peeked, PeekedPcs, Evicted, UnsentIsCurrent, Contents
<1>6. Fresh' /\ Once'
  BY <1>1, <1>3, Zenon DEF DeliverInv, SendInv, Fresh, Once
<1>7. SentUnlessOvertaken'
  BY <1>1, <1>2, Zenon DEF DeliverInv, SendInv, SentUnlessOvertaken
<1> QED BY <1>5, <1>6, <1>7, Zenon DEF DeliverInv, SendInv

\* Nothing has been stored or delivered at first.
LEMMA DeliverInvInit == Init => DeliverInv
<1> SUFFICES ASSUME Init PROVE DeliverInv
  BY Zenon
<1>1. \A t \in Thread : req[t].pc = "idle"
  BY IdlePc, Zenon DEF Init
<1>2. h.pc = "status" /\ h.evict = NoUUID /\ InHand = {}
  BY Zenon DEF Init, InHand, Starting
<1>3. Range(<<>>) = {}
  BY DEF Range
<1>4. /\ Settled = {} /\ Range(buffer) = {} /\ Range(complete) = {} /\ taken = {}
      /\ \A u \in UUID : bundle[u] = <<>> /\ delivered[u] = 0
  BY <1>3, Zenon DEF Init, Settled
<1>5. Listed /\ Peeked /\ Evicted /\ Fresh
  BY <1>1, <1>2, <1>4, Zenon DEF Listed, Found, Peeked, PeekedPcs, Evicted, Fresh
<1>6. Once /\ SentUnlessOvertaken /\ UnsentIsCurrent
  BY <1>1, <1>2, <1>4, Zenon DEF Once, SentUnlessOvertaken, UnsentIsCurrent
<1>7. Stored /\ Waiting /\ Done /\ Rewritten /\ Reading
  BY <1>1, <1>2, <1>4, Zenon DEF Stored, StoredOf, Waiting, Done, Rewritten, Reading, ReadingOf
<1> QED BY <1>5, <1>6, <1>7, Zenon DEF DeliverInv, SendInv, Contents

\* Every step keeps the invariant of the bundles.
LEMMA DeliverInvStep == ConsInv /\ ConsInv' /\ DeliverInv /\ [Next]_vars => DeliverInv'
<1> SUFFICES ASSUME ConsInv, ConsInv', DeliverInv, [Next]_vars PROVE DeliverInv'
  BY Zenon
<1>1. TypeInv'
  BY Zenon DEF ConsInv
<1>2. CASE UNCHANGED vars
  <2>1. /\ UNCHANGED <<buffer, complete, bundle, req, h, issued, sent, overtook, taken, delivered, faults, crashes>>
        /\ Settled' = Settled /\ InHand' = InHand
    BY <1>2, Zenon DEF vars, store, budget, history, Settled, InHand
  <2>2. Listed' /\ Peeked' /\ Evicted' /\ Fresh' /\ SentUnlessOvertaken' /\ UnsentIsCurrent'
    BY <2>1, Zenon DEF DeliverInv, SendInv, Listed, Found, Peeked, Evicted, Fresh, SentUnlessOvertaken, UnsentIsCurrent
  <2>3. Once'
    BY <2>1, Zenon DEF DeliverInv, SendInv, Once
  <2>4. Contents'
    <3>1. Waiting' = Waiting /\ Done' = Done
      BY <2>1, Zenon DEF Waiting, Done
    <3>2. Rewritten' = Rewritten
      BY <2>1, Zenon DEF Rewritten
    <3>3. Stored' = Stored
      BY <2>1, Zenon DEF Stored, StoredOf
    <3>4. Reading' = Reading
      BY <2>1 DEF Reading, ReadingOf
    <3> QED BY <2>1, <3>1, <3>2, <3>3, <3>4, Zenon DEF DeliverInv, Contents
  <2> QED BY <2>2, <2>3, <2>4, Zenon DEF DeliverInv, SendInv
<1>3. ASSUME NEW t \in Thread,
             SendTransferFails(t) \/ FetchTxn(t) \/ HttpStep(t) \/ PushFails(t) \/ FetchFails(t)
      PROVE  DeliverInv'
  BY <1>1, <1>3, DeliverFetch, DeliverStore, DeliverEnqueue, DeliverDelete, DeliverPop, Zenon DEF HttpStep, FetchLocal
<1>4. CASE HealthStep \/ BroadcastFails \/ EvictFails
  BY <1>1, <1>4, DeliverBroadcast, DeliverRewrite, DeliverMove, DeliverEvict, Zenon DEF HealthStep
<1>5. CASE Crash
  BY <1>1, <1>5, DeliverCrash, Zenon
<1> QED BY <1>2, <1>3, <1>4, <1>5, Zenon DEF Next

-----------------------------------------------------------------------------
(* The refinement of the request life cycle.                                *)

\* The uuids that were pushed and not sent.
Waits == Range(buffer) \cup InHand

\* The stages are apart, so that Stage can be read off the place a UUID is in.
StageRead ==
    \A u \in UUID :
       /\ u \in Waits => Stage(u) = "unsent"
       /\ u \in Range(complete) => Stage(u) = "sent"
       /\ u \in taken => Stage(u) = "gone"
       /\ u \in dropped => Stage(u) = "lost"
       /\ u \notin pushed => Stage(u) = "none"

\* The stage of a uuid can be read off the lists while none is in two of them.
LEMMA StageReadable == Conservation => StageRead
<1> SUFFICES ASSUME Conservation, NEW u \in UUID
             PROVE  /\ u \in Waits => Stage(u) = "unsent"
                    /\ u \in Range(complete) => Stage(u) = "sent"
                    /\ u \in taken => Stage(u) = "gone"
                    /\ u \in dropped => Stage(u) = "lost"
                    /\ u \notin pushed => Stage(u) = "none"
  BY Zenon DEF StageRead
<1>1. /\ u \in Waits => u \notin Range(complete) /\ u \notin taken /\ u \notin dropped
      /\ u \in Range(complete) => u \notin taken /\ u \notin dropped
      /\ u \in taken => u \notin dropped
      /\ u \notin pushed => u \notin Waits /\ u \notin Range(complete) /\ u \notin taken /\ u \notin dropped
  BY Zenon DEF Conservation, Waits
<1> QED BY <1>1, Zenon DEF Stage, Waits

\* The same after a step.
LEMMA StageReadableNext == Conservation' => StageRead'
BY StageReadable, PTL

\* The stage of a UUID follows the places it is in.
LEMMA StageKept ==
    ASSUME NEW u \in UUID,
           (u \in Waits)' <=> u \in Waits, u \in Range(complete') <=> u \in Range(complete),
           u \in taken' <=> u \in taken, u \in dropped' <=> u \in dropped
    PROVE  Stage(u)' = Stage(u)
BY DEF Stage, Waits

\* A step that moves no UUID and hands nothing out is a stuttering step of the
\* life cycle, or a failure.
LEMMA LifecycleFrame ==
    ASSUME TypeInv, TypeInv', Waits' = Waits, Range(complete') = Range(complete),
           UNCHANGED <<taken, dropped, delivered>>,
           faults' + crashes' > 0 \/ UNCHANGED <<faults, crashes>>
    PROVE  [Lifecycle!Next]_(Lifecycle!vars)
<1>1. \A u \in UUID : Stage(u)' = Stage(u)
  BY StageKept, Zenon
<1>2. [u \in UUID |-> Stage(u)]' = [u \in UUID |-> Stage(u)]
  BY <1>1, Zenon
<1>3. CASE UNCHANGED <<faults, crashes>>
  BY <1>2, <1>3, Zenon DEF Lifecycle!vars
<1>4. CASE faults' + crashes' > 0
  <2>1. (faults + crashes = 0)' = FALSE
    BY <1>4, Types
  <2> QED BY <1>2, <2>1, Zenon DEF Lifecycle!Next, Lifecycle!Fail
<1> QED BY <1>3, <1>4, Zenon

\* A step that moves one UUID u from stage a to stage b.
LEMMA LifecycleMove ==
    ASSUME TypeInv, NEW u \in UUID, NEW a, NEW b, Stage(u) = a, Stage(u)' = b,
           \A v \in UUID \ {u} : Stage(v)' = Stage(v)
    PROVE  Lifecycle!Move(u, a, b)
<1> DEFINE S == [v \in UUID |-> Stage(v)]
<1>1. S[u] = a
  BY Zenon
<1>2. S' = [S EXCEPT ![u] = b]
  BY Zenon
<1> QED BY <1>1, <1>2, Zenon DEF Lifecycle!Move

\* Every step is a step of the life cycle of a buffered transfer, or a stutter.
LEMMA LifecycleStep == ConsInv /\ ConsInv' /\ DeliverInv /\ [Next]_vars => [Lifecycle!Next]_(Lifecycle!vars)
<1> SUFFICES ASSUME ConsInv, ConsInv', DeliverInv, [Next]_vars
             PROVE  [Lifecycle!Next]_(Lifecycle!vars)
  BY Zenon
<1>1. /\ TypeInv /\ TypeInv' /\ h \in HealthRecord /\ req \in [Thread -> ReqRecord]
      /\ faults \in Nat /\ crashes \in Nat /\ buffer \in Seq(UUID) /\ complete \in Seq(UUID)
      /\ delivered \in [UUID -> Nat]
  BY Types, Zenon DEF ConsInv
<1>2. StageRead /\ StageRead'
  BY StageReadable, StageReadableNext, Zenon DEF ConsInv
<1>3. ASSUME UNCHANGED <<buffer, complete, taken, dropped, delivered>>, InHand' = InHand,
             UNCHANGED <<faults, crashes>> \/ faults' = faults + 1 \/ crashes' = crashes + 1
      PROVE  [Lifecycle!Next]_(Lifecycle!vars)
  <2>1. Waits' = Waits
    BY <1>3, Zenon DEF Waits
  <2>2. faults' \in Nat /\ crashes' \in Nat
    BY TxnBufferAssumption DEF ConsInv, TypeInv, TypeOK
  <2>3. \A f, c, f2, c2 \in Nat : f2 = f + 1 \/ c2 = c + 1 => f2 + c2 > 0
    OBVIOUS
  <2>4. faults' + crashes' > 0 \/ UNCHANGED <<faults, crashes>>
    BY <1>1, <1>3, <2>2, <2>3, Zenon
  <2> QED BY <1>1, <1>3, <2>1, <2>4, LifecycleFrame, Zenon
<1>4. CASE UNCHANGED vars
  BY <1>3, <1>4, Zenon DEF vars, store, budget, history, InHand
<1>5. ASSUME NEW t \in Thread,
             FetchQuiet(t) \/ StoreTxn(t) \/ PushFails(t) \/ SendTransferFails(t)
      PROVE  [Lifecycle!Next]_(Lifecycle!vars)
  <2>1. UNCHANGED <<buffer, complete, h, taken, dropped, delivered, crashes>>
    BY <1>5, Zenon DEF FetchQuiet, FetchLocal, FetchTxn, BufferLen, ScanBuffer, ScanBufferFailed, AnswerUnsent,
         CompleteLen, ScanComplete, ScanCompleteFailed, AnswerNotExist, FetchMam, FetchMamDone, BundleSize, Unlock,
         ReadTxn, DeleteBundle, FetchFails, StoreTxn, PushFails, SendTransferFails, Fault, store, budget, history
  <2>2. faults' = faults \/ faults' = faults + 1
    BY <1>5, Zenon DEF FetchQuiet, FetchLocal, FetchTxn, BufferLen, ScanBuffer, ScanBufferFailed, AnswerUnsent,
         CompleteLen, ScanComplete, ScanCompleteFailed, AnswerNotExist, FetchMam, FetchMamDone, BundleSize, Unlock,
         ReadTxn, DeleteBundle, FetchFails, StoreTxn, PushFails, SendTransferFails, Fault, budget
  <2>3. InHand' = InHand
    BY <2>1, Zenon DEF InHand
  <2> QED BY <1>3, <2>1, <2>2, <2>3, Zenon
<1>6. CASE HealthQuiet
  <2>1. UNCHANGED <<buffer, complete, taken, dropped, delivered, crashes>> /\ h.pc # "bpush" /\ h'.pc # "bpush"
    BY <1>1, <1>6, HealthQuietFrame, Zenon
  <2>2. faults' = faults \/ faults' = faults + 1
    BY <1>6, Zenon DEF HealthQuiet, NodeStatus, BufferedLen, PeekUuid, BufferedSize, ReadBuffered, SendTrytes,
         GetTrytes, NodeFails, DeleteOld, RepushTxn, LockForMove, LockForMoveFails, UnlockMoved, BroadcastMam,
         LeaveMam, BroadcastMamDone, EvictLock, EvictDone, EvictDelete, EvictUnlock, EvictFails, Fault, budget
  <2>3. InHand' = InHand
    BY <2>1, Zenon DEF InHand
  <2> QED BY <1>3, <2>1, <2>2, <2>3, Zenon
<1>7. ASSUME NEW t \in Thread, EnqueueUuid(t)
      PROVE  [Lifecycle!Next]_(Lifecycle!vars)
  <2>0. req[t].uuid \in UUID /\ req[t].uuid \notin pushed
    BY <1>7, Apart, Zenon DEF EnqueueUuid, Storing
  <2>a. PICK u \in UUID : u = req[t].uuid
    BY <2>0, Zenon
  <2>1. /\ buffer' = list_push(buffer, u) /\ pushed' = pushed \cup {u}
        /\ UNCHANGED <<complete, h, taken, dropped, delivered, faults, crashes>>
    BY <1>7, <2>a, Zenon DEF EnqueueUuid, budget
  <2>2. u \in UUID /\ u \notin pushed /\ InHand' = InHand
    BY <2>0, <2>a, <2>1, Zenon DEF InHand
  <2>3. Range(buffer') = {u} \cup Range(buffer)
    <3>1. u \in UUID /\ buffer' = list_push(buffer, u) /\ buffer \in Seq(UUID)
      BY <1>1, <2>1, <2>2, Zenon
    <3> QED BY <3>1, PushProperties, Zenon
  <2>4. Waits' = {u} \cup Waits
    BY <2>2, <2>3, Zenon DEF Waits
  <2>5. Stage(u) = "none" /\ Stage(u)' = "unsent"
    BY <1>2, <2>2, <2>4, Zenon DEF StageRead
  <2>6. \A v \in UUID \ {u} : Stage(v)' = Stage(v)
    BY <2>1, <2>4, StageKept, Zenon
  <2>7. Lifecycle!Move(u, "none", "unsent")
    BY <1>1, <2>2, <2>5, <2>6, LifecycleMove, Zenon
  <2> QED BY <2>1, <2>2, <2>7, Zenon DEF Lifecycle!Next, Lifecycle!Accept
<1>8. ASSUME complete # <<>>, complete' = list_pop(complete), taken' = taken \cup {Head(complete)},
             Waits' = Waits, dropped' = dropped
      PROVE  Head(complete) \in UUID /\ Lifecycle!Move(Head(complete), "sent", "gone")
  <2>0. /\ Range(complete) = {Head(complete)} \cup Range(complete')
        /\ IsInjective(complete) => Head(complete) \notin Range(complete')
    BY <1>1, <1>8, PopProperties, Zenon
  <2>a. PICK u \in UUID : u = Head(complete)
    BY <1>1, <1>8
  <2>1. Range(complete) = {u} \cup Range(complete') /\ taken' = taken \cup {u}
    BY <1>8, <2>0, <2>a, Zenon
  <2>2. u \in Range(complete) /\ u \notin Range(complete') /\ u \in taken'
    BY <2>0, <2>a, <2>1, Zenon DEF ConsInv, Conservation
  <2>3. Stage(u) = "sent" /\ Stage(u)' = "gone"
    BY <1>2, <2>2, Zenon DEF StageRead
  <2>4. \A v \in UUID \ {u} : Stage(v)' = Stage(v)
    BY <1>8, <2>1, StageKept, Zenon
  <2>5. Lifecycle!Move(u, "sent", "gone")
    BY <1>1, <2>2, <2>3, <2>4, LifecycleMove, Zenon
  <2> QED BY <2>a, <2>5, Zenon
<1>9. ASSUME NEW t \in Thread, PopComplete(t)
      PROVE  [Lifecycle!Next]_(Lifecycle!vars)
  <2> DEFINE u == req[t].uuid
  <2>1. req[t].pc = "popc" /\ UNCHANGED <<buffer, h, dropped, faults, crashes>> /\ Waits' = Waits /\ InHand' = InHand
    BY <1>9, Zenon DEF PopComplete, budget, Requests, Waits, InHand
  <2>2. CASE complete = <<>>
    <3>1. UNCHANGED <<complete, taken, delivered>>
      BY <1>9, <2>2, Zenon DEF PopComplete
    <3> QED BY <1>3, <2>1, <3>1, Zenon
  <2>3. CASE complete # <<>>
    <3>1. complete' = list_pop(complete) /\ taken' = taken \cup {Head(complete)} /\ delivered' = [delivered EXCEPT ![u] = @ + 1]
      BY <1>9, <2>3, Zenon DEF PopComplete
    <3>2. u \in Settled /\ u \in UUID /\ delivered[u] = 0
      BY <2>1, Apart, Zenon DEF DeliverInv, SendInv, Listed, Found, Once
    <3>3. Stage(u) \in {"sent", "gone"}
      BY <1>2, <3>2, Zenon DEF StageRead, Settled
    <3>4. delivered' = [delivered EXCEPT ![u] = 1]
      BY <3>1, <3>2
    <3>5. Head(complete) \in UUID /\ Lifecycle!Move(Head(complete), "sent", "gone")
      BY <1>8, <2>1, <2>3, <3>1, Zenon
    <3> HIDE DEF u
    <3>6. Lifecycle!HandOut(u, Head(complete))
      BY <2>1, <3>2, <3>3, <3>4, <3>5, Zenon DEF Lifecycle!HandOut
    <3> QED BY <3>2, <3>5, <3>6, Zenon DEF Lifecycle!Next
  <2> QED BY <2>2, <2>3, Zenon
<1>10. CASE EvictPop
  <2>1. h.pc = "epop" /\ h'.pc = "edel" /\ UNCHANGED <<buffer, dropped, delivered, faults, crashes>>
    BY <1>1, <1>10, Zenon DEF EvictPop, Goto, HealthRecord, budget, Requests
  <2>2. InHand' = InHand /\ Waits' = Waits
    BY <2>1, Zenon DEF InHand, Waits
  <2>3. CASE complete = <<>>
    <3>1. UNCHANGED <<complete, taken>>
      BY <1>10, <2>3, Zenon DEF EvictPop
    <3> QED BY <1>3, <2>1, <2>2, <3>1, Zenon
  <2>4. CASE complete # <<>>
    <3>1. complete' = list_pop(complete) /\ taken' = taken \cup {Head(complete)}
      BY <1>10, <2>4, Zenon DEF EvictPop
    <3>2. Head(complete) \in UUID /\ Lifecycle!Move(Head(complete), "sent", "gone")
      BY <1>8, <2>1, <2>2, <2>4, <3>1, Zenon
    <3> QED BY <2>1, <3>2, Zenon DEF Lifecycle!Next, Lifecycle!Evict
  <2> QED BY <2>3, <2>4, Zenon
<1>11. CASE PopBuffered
  <2>1. h.pc = "bpop" /\ UNCHANGED <<complete, taken, dropped, delivered, faults, crashes>>
    BY <1>11, Zenon DEF PopBuffered, budget, history
  <2>2. buffer # <<>>
    BY <2>1, Zenon DEF DeliverInv, SendInv, Peeked, PeekedPcs
  <2>3. buffer' = list_pop(buffer) /\ h'.pc = "bpush" /\ h'.uuid = Head(buffer)
    BY <1>1, <1>11, <2>2, Zenon DEF PopBuffered, HealthRecord
  <2>4. Range(buffer) = {Head(buffer)} \cup Range(buffer')
    BY <1>1, <2>2, <2>3, PopProperties, Zenon
  <2>5. Waits' = Waits
    BY <2>1, <2>3, <2>4, Zenon DEF Waits, InHand
  <2> QED BY <1>1, <2>1, <2>5, LifecycleFrame, Zenon
<1>12. CASE PushComplete
  <2>0. h.pc = "bpush" /\ h.uuid \in UUID
    BY <1>1, <1>12, Zenon DEF PushComplete, TypeInv, Locals
  <2>a. PICK u \in UUID : u = h.uuid
    BY <2>0, Zenon
  <2>1. /\ complete' = list_push(complete, u) /\ h'.pc = "unlock"
        /\ UNCHANGED <<buffer, taken, dropped, delivered, faults, crashes>>
    BY <1>1, <1>12, <2>a, Zenon DEF PushComplete, Goto, HealthRecord, budget, history
  <2>2. InHand = {u} /\ InHand' = {}
    BY <2>0, <2>a, <2>1, Zenon DEF InHand
  <2>3. Range(complete') = {u} \cup Range(complete)
    <3>1. u \in UUID /\ complete' = list_push(complete, u) /\ complete \in Seq(UUID)
      BY <1>1, <2>1, <2>2, Zenon
    <3> QED BY <3>1, PushProperties, Zenon
  <2>4. Waits = Waits' \cup {u} /\ u \in Waits
    BY <2>1, <2>2, Zenon DEF Waits
  <2>5. Stage(u) = "unsent" /\ Stage(u)' = "sent"
    BY <1>2, <2>2, <2>3, <2>4, Zenon DEF StageRead
  <2>6. \A v \in UUID \ {u} : Stage(v)' = Stage(v)
    BY <2>1, <2>3, <2>4, StageKept, Zenon
  <2>7. Lifecycle!Move(u, "unsent", "sent")
    BY <1>1, <2>2, <2>5, <2>6, LifecycleMove, Zenon
  <2> QED BY <2>1, <2>2, <2>7, Zenon DEF Lifecycle!Next, Lifecycle!Complete
<1>13. CASE BroadcastFails \/ Crash
  <2>1. /\ UNCHANGED <<buffer, complete, taken, delivered>>
        /\ dropped' = dropped \cup InHand
        /\ (faults' = faults + 1 /\ crashes' = crashes) \/ (crashes' = crashes + 1 /\ faults' = faults)
    BY <1>13, Zenon DEF BroadcastFails, Crash, Fault, InHand, store
  <2>2. InHand' = {}
    <3>1. h' = [Starting EXCEPT !.pc = "evict", !.evict = h.evict] \/ h' = Starting
      BY <1>13, Zenon DEF BroadcastFails, Crash, Enter
    <3>2. "evict" \in HealthPc /\ h.evict \in UUID \cup {NoUUID}
      BY <1>1, Zenon DEF HealthRecord, HealthPc
    <3>3. [Starting EXCEPT !.pc = "evict", !.evict = h.evict].pc = "evict" /\ Starting.pc = "status"
      BY <3>2, StartingType, Zenon
    <3>4. h'.pc = "evict" \/ h'.pc = "status"
      BY <3>1, <3>3, Zenon
    <3> QED BY <3>4, Zenon DEF InHand
  <2>3. CASE h.pc # "bpush"
    <3>1. InHand' = InHand /\ dropped' = dropped
      BY <2>1, <2>2, <2>3, Zenon DEF InHand
    <3> QED BY <1>3, <2>1, <3>1, Zenon
  <2>4. CASE h.pc = "bpush"
    <3>0. h.uuid \in UUID
      BY <1>1, <2>4, Zenon DEF TypeInv, Locals
    <3>a. PICK u \in UUID : u = h.uuid
      BY <3>0, Zenon
    <3>1. InHand = {u} /\ u \in Waits
      BY <2>4, <3>a, Zenon DEF InHand, Waits
    <3>2. Waits = Waits' \cup {u}
      BY <2>1, <2>2, <3>1, Zenon DEF Waits
    <3>3. Stage(u) = "unsent" /\ Stage(u)' = "lost"
      BY <1>2, <2>1, <3>1, Zenon DEF StageRead
    <3>4. \A v \in UUID \ {u} : Stage(v)' = Stage(v)
      BY <2>1, <3>1, <3>2, StageKept, Zenon
    <3>5. Lifecycle!Move(u, "unsent", "lost")
      BY <1>1, <3>1, <3>3, <3>4, LifecycleMove, Zenon
    <3>6. (faults + crashes = 0)' = FALSE
      BY <1>1, <2>1
    <3> QED BY <2>1, <3>1, <3>5, <3>6, Zenon DEF Lifecycle!Next, Lifecycle!Lose
  <2> QED BY <2>3, <2>4, Zenon
<1> QED
  BY <1>4, <1>5, <1>6, <1>7, <1>9, <1>10, <1>11, <1>12, <1>13, Zenon
  DEF Next, HttpStep, HealthStep, FetchQuiet, FetchLocal, HealthQuiet
=============================================================================
