-------------------------- MODULE MamBuffer_proofs --------------------------
(* Proofs about the MAM buffer, for any number of threads and UUIDs: the     *)
(* types and the lock, where a UUID is, and what becomes of its result.      *)
EXTENDS MamBuffer, TLAPS, FiniteSetTheorems

\* A step that names no prover is tried with SMT and then with Zenon, 20 s each.
USE SMTT(20), ZenonT(20)

-----------------------------------------------------------------------------
(* The redis lists: what the list commands do to the elements of a list. *)

\* Sequences: the few facts about them that the proofs cite.
LEMMA EmptySeq ==
    ASSUME NEW S, NEW s \in Seq(S)
    PROVE  s # <<>> => Len(s) \in Nat \ {0}
OBVIOUS

\* The elements of a list, by their positions.
LEMMA LenProperties ==
    ASSUME NEW S, NEW s \in Seq(S)
    PROVE  Len(s) \in Nat /\ s \in [1..Len(s) -> S] /\ DOMAIN s = 1..Len(s)
OBVIOUS

\* One list in front of another (LPUSH puts one element in front).
LEMMA ConcatProperties ==
    ASSUME NEW S, NEW s \in Seq(S), NEW t \in Seq(S)
    PROVE  /\ s \o t \in Seq(S) /\ Len(s \o t) = Len(s) + Len(t)
           /\ \A i \in 1..(Len(s) + Len(t)) : (s \o t)[i] = IF i <= Len(s) THEN s[i] ELSE t[i - Len(s)]
OBVIOUS

\* A list and what is left of it without its first element.
LEMMA HeadTailProperties ==
    ASSUME NEW S, NEW s \in Seq(S), s # <<>>
    PROVE  /\ Head(s) \in S /\ Tail(s) \in Seq(S) /\ Len(Tail(s)) = Len(s) - 1
           /\ \A i \in 1..Len(Tail(s)) : Tail(s)[i] = s[i + 1]
OBVIOUS

\* LPUSH adds one element, in front, and nothing else: a list without
\* duplicates stays so when the element is new (redis_list_push).
LEMMA PushProperties ==
    ASSUME NEW S, NEW s \in Seq(S), NEW x \in S
    PROVE  /\ list_push(s, x) \in Seq(S)
           /\ Len(list_push(s, x)) = Len(s) + 1
           /\ list_push(s, x)[1] = x
           /\ \A i \in 1..Len(s) : list_push(s, x)[i + 1] = s[i]
           /\ Range(list_push(s, x)) = {x} \cup Range(s)
           /\ IsInjective(s) /\ x \notin Range(s) => IsInjective(list_push(s, x))
<1> DEFINE p == list_push(s, x)
<1>1. <<x>> \in Seq(S) /\ Len(<<x>>) = 1 /\ <<x>>[1] = x
  OBVIOUS
<1>2. /\ p \in Seq(S)
      /\ Len(p) = Len(s) + 1
      /\ \A i \in 1..Len(p) : p[i] = IF i <= 1 THEN x ELSE s[i - 1]
  BY <1>1, ConcatProperties DEF list_push
<1>3. p[1] = x /\ \A i \in 1..Len(s) : p[i + 1] = s[i]
  BY <1>2, LenProperties
<1>4. DOMAIN p = 1..(Len(s) + 1) /\ DOMAIN s = 1..Len(s) /\ Len(s) \in Nat
  BY <1>2, LenProperties
<1>5. Range(p) = {x} \cup Range(s)
  <2>1. Range(p) \subseteq {x} \cup Range(s)
    BY <1>2, <1>4 DEF Range
  <2>2. x \in Range(p)
    BY <1>3, <1>4 DEF Range
  <2>3. ASSUME NEW i \in 1..Len(s)
        PROVE  s[i] \in Range(p)
    <3>1. i + 1 \in DOMAIN p /\ p[i + 1] = s[i]
      BY <1>3, <1>4
    <3> QED BY <3>1 DEF Range
  <2> QED BY <1>4, <2>1, <2>2, <2>3, Zenon DEF Range
<1>6. ASSUME IsInjective(s), x \notin Range(s)
      PROVE  IsInjective(p)
  <2> SUFFICES ASSUME NEW a \in DOMAIN p, NEW b \in DOMAIN p, p[a] = p[b]
               PROVE  a = b
    BY DEF IsInjective
  <2>1. \A i \in 1..Len(s) : s[i] # x
    BY <1>4, <1>6 DEF Range
  <2>2. \A i, j \in 1..Len(s) : s[i] = s[j] => i = j
    BY <1>4, <1>6 DEF IsInjective
  <2>3. a \in 1..(Len(s) + 1) /\ b \in 1..(Len(s) + 1)
    BY <1>4
  <2>4. CASE a = 1 \/ b = 1
    BY <1>2, <1>4, <2>1, <2>3, <2>4
  <2>5. CASE a # 1 /\ b # 1
    <3>1. a - 1 \in 1..Len(s) /\ b - 1 \in 1..Len(s)
      BY <1>4, <2>3, <2>5
    <3>2. s[a - 1] = s[b - 1]
      BY <1>2, <1>4, <2>3, <2>5
    <3> QED BY <2>2, <2>3, <3>1, <3>2
  <2> QED BY <2>4, <2>5
<1> QED BY <1>2, <1>3, <1>5, <1>6

\* LPOP removes the head and nothing else (redis_list_pop).
LEMMA PopProperties ==
    ASSUME NEW S, NEW s \in Seq(S), s # <<>>
    PROVE  /\ Head(s) \in S
           /\ list_pop(s) \in Seq(S)
           /\ Range(s) = {Head(s)} \cup Range(list_pop(s))
           /\ IsInjective(s) => IsInjective(list_pop(s)) /\ Head(s) \notin Range(list_pop(s))
<1> DEFINE p == list_pop(s)
<1>1. /\ Head(s) \in S /\ p \in Seq(S) /\ Len(p) = Len(s) - 1
      /\ \A i \in 1..Len(p) : p[i] = s[i + 1]
      /\ Head(s) = s[1]
  BY HeadTailProperties DEF list_pop
<1>2. Len(s) \in Nat \ {0} /\ DOMAIN s = 1..Len(s) /\ DOMAIN p = 1..(Len(s) - 1)
  BY <1>1, LenProperties, EmptySeq
<1>3. Range(s) = {Head(s)} \cup Range(p)
  <2>1. ASSUME NEW i \in DOMAIN s
        PROVE  s[i] \in {Head(s)} \cup Range(p)
    <3>1. CASE i = 1
      BY <3>1, <1>1
    <3>2. CASE i # 1
      <4>1. i - 1 \in DOMAIN p
        BY <1>2, <3>2
      <4>2. p[i - 1] = s[i]
        BY <1>1, <1>2, <4>1
      <4> QED BY <4>1, <4>2 DEF Range
    <3> QED BY <3>1, <3>2
  <2>2. Head(s) \in Range(s)
    BY <1>1, <1>2 DEF Range
  <2>3. ASSUME NEW i \in DOMAIN p
        PROVE  p[i] \in Range(s)
    <3>1. i + 1 \in DOMAIN s /\ p[i] = s[i + 1]
      BY <1>1, <1>2
    <3> QED BY <3>1 DEF Range
  <2> QED BY <2>1, <2>2, <2>3 DEF Range
<1>4. ASSUME IsInjective(s)
      PROVE  IsInjective(p) /\ Head(s) \notin Range(p)
  <2>1. \A a, b \in 1..Len(s) : s[a] = s[b] => a = b
    BY <1>2, <1>4 DEF IsInjective
  <2>2. \A i \in DOMAIN p : i + 1 \in 1..Len(s) /\ p[i] = s[i + 1] /\ i \in Nat \ {0}
    BY <1>1, <1>2
  <2>3. IsInjective(p)
    BY <2>1, <2>2 DEF IsInjective
  <2>4. Head(s) \notin Range(p)
    BY <1>1, <1>2, <2>1, <2>2 DEF Range
  <2> QED BY <2>3, <2>4
<1> QED BY <1>1, <1>3, <1>4

-----------------------------------------------------------------------------
(* Types, and the locals of each thread.                                     *)

\* What the locals of a thread hold at each place.
Locals ==
    /\ \A t \in Thread : req[t].pc # "idle" => req[t].uuid \in issued
    /\ h.pc \in PeekedPcs \cup {"push"} => h.uuid \in UUID

\* Types, with the records of the threads spelled out.
TypeInv == TypeOK /\ Locals /\ MoveUnseen

\* The types of all variables but the lock and the threads' locals.
StoreTyped ==
    /\ buffer \in Seq(UUID) /\ complete \in Seq(UUID)
    /\ value \in [UUID -> Value]
    /\ faults \in 0..MaxFaults /\ crashes \in 0..MaxCrashes
    /\ issued \subseteq UUID /\ pushed \subseteq issued
    /\ published \subseteq UUID /\ swallowed \subseteq UUID /\ overtook \subseteq UUID
    /\ taken \subseteq UUID /\ dropped \subseteq UUID
    /\ answers \in Seq(UUID \X Value)

\* Steps of the fetch that change the locals and the lock only.
FetchLocal(t) ==
    \/ FetchTxn(t) \/ NotInTxnLists(t) \/ TxnScanFails(t) \/ FetchMam(t)
    \/ BufferLen(t) \/ ScanBuffer(t) \/ AnswerUnsent(t) \/ CompleteLen(t) \/ ScanComplete(t)
    \/ AnswerNotExist(t) \/ FoundSent(t) \/ GetResult(t)

\* A thread that serves no request, and one that has just taken one.
LEMMA IdleType ==
    /\ Idle \in ReqRecord /\ Idle.pc = "idle" /\ Idle.exist = FALSE
    /\ \A p \in ReqPc, u \in UUID :
          /\ [Idle EXCEPT !.pc = p, !.uuid = u] \in ReqRecord
          /\ [Idle EXCEPT !.pc = p, !.uuid = u].pc = p
          /\ [Idle EXCEPT !.pc = p, !.uuid = u].uuid = u
<1>1. Idle \in ReqRecord /\ Idle.pc = "idle" /\ Idle.exist = FALSE
  BY Zenon DEF Idle, ReqRecord, ReqPc, Value
<1> QED BY <1>1, Zenon DEF ReqRecord

\* One turn of redis_list_exist keeps the locals a record.
LEMMA ExistStepType ==
    ASSUME NEW r \in ReqRecord, NEW s
    PROVE  /\ list_exist_step(r, s) \in ReqRecord
           /\ list_exist_step(r, s).pc = r.pc
           /\ list_exist_step(r, s).uuid = r.uuid
           /\ list_exist_step(r, s).exist => r.exist \/ (list_has(s, r.idx) /\ list_at(s, r.idx) = r.uuid)
<1> DEFINE e == r.exist \/ (list_has(s, r.idx) /\ list_at(s, r.idx) = r.uuid)
           f == r.err \/ ~list_has(s, r.idx)
<1>1. r.idx + 1 \in Nat /\ e \in BOOLEAN /\ f \in BOOLEAN
  BY DEF ReqRecord
<1>2. list_exist_step(r, s) = [r EXCEPT !.idx = r.idx + 1, !.exist = e, !.err = f]
  BY Zenon DEF list_exist_step
<1>3. list_exist_step(r, s).exist = e
  <2> HIDE DEF e, f
  <2> QED BY <1>1, <1>2, Zenon DEF ReqRecord
<1>4. /\ list_exist_step(r, s) \in ReqRecord
      /\ list_exist_step(r, s).pc = r.pc
      /\ list_exist_step(r, s).uuid = r.uuid
  <2> HIDE DEF e, f
  <2> QED BY <1>1, <1>2, Zenon DEF ReqRecord
<1> QED BY <1>3, <1>4, Zenon

\* The health thread when it has just been started.
LEMMA StartingType == Starting \in HealthRecord /\ Starting.pc = "txn"
BY Zenon DEF HealthRecord, Starting, HealthPc

-----------------------------------------------------------------------------
(* Conservation.                                                            *)

\* A thread that has told no one yet of its new uuid.
Storing(t) == req[t].pc = "push"

\* A UUID that is being stored is known to one thread only.
Private ==
    /\ \A t \in Thread : Storing(t) => req[t].uuid \notin pushed
    /\ \A s, t \in Thread : Storing(s) /\ Storing(t) /\ s # t => req[s].uuid # req[t].uuid

\* The inductive invariant behind Conservation and MoveUnseen.
ConsInv == TypeInv /\ Private /\ Conservation

\* Private is kept by a step that starts no request and pushes nothing.
LEMMA PrivateFrame ==
    ASSUME Private, pushed' = pushed,
           \A t \in Thread : Storing(t)' => Storing(t) /\ req'[t].uuid = req[t].uuid
    PROVE  Private'
BY Zenon DEF Private

\* The number of failures never falls.
LEMMA MoreFailures ==
    ASSUME NEW f \in Nat, NEW c \in Nat, NEW f2 \in Nat, NEW c2 \in Nat,
           f2 >= f, c2 >= c, f + c > 0
    PROVE  f2 + c2 > 0
OBVIOUS

\* An idle thread is at no step of a request.
LEMMA IdlePc == Idle.pc = "idle"
BY Zenon DEF Idle

\* Conservation is kept by a step that moves no UUID.
LEMMA ConsFrame ==
    ASSUME TypeInv, TypeInv', Conservation,
           UNCHANGED <<buffer, complete, pushed, taken, dropped>>, InHand' = InHand,
           faults' >= faults, crashes' >= crashes
    PROVE  Conservation'
<1>1. faults \in Nat /\ crashes \in Nat /\ faults' \in Nat /\ crashes' \in Nat
  BY MamBufferAssumption DEF TypeInv, TypeOK
<1>2. dropped # {} => faults' + crashes' > 0
  <2>1. dropped # {} => faults + crashes > 0
    BY Zenon DEF Conservation
  <2> QED BY <1>1, <2>1, MoreFailures, Zenon
<1>3. dropped' = dropped /\ buffer' = buffer /\ complete' = complete /\ taken' = taken /\ pushed' = pushed
  BY Zenon
<1> QED BY <1>2, <1>3, Zenon DEF Conservation

\* The steps of a fetch up to its last one, and the error replies to an HTTP thread.
FetchQuiet(t) == FetchLocal(t) \/ DeleteResult(t) \/ FetchFails(t) \/ PushRequestFails(t)

\* What such a step leaves alone, and that it makes no thread a storing one.
LEMMA FetchQuietFrame ==
    ASSUME TypeInv, NEW t \in Thread, FetchQuiet(t)
    PROVE  /\ UNCHANGED <<buffer, complete, h, history, crashes>>
           /\ faults' \in {faults, faults + 1}
           /\ req'[t].pc # "push"
           /\ \A s \in Thread \ {t} : req'[s] = req[s]
<1>1. UNCHANGED <<buffer, complete, h, history, crashes>> /\ (faults' = faults \/ faults' = faults + 1)
  BY Zenon DEF FetchQuiet, FetchLocal, FetchTxn, NotInTxnLists, TxnScanFails, FetchMam, BufferLen, ScanBuffer,
         AnswerUnsent, CompleteLen, ScanComplete, AnswerNotExist, FoundSent, GetResult, DeleteResult, FetchFails,
         PushRequestFails, Fault, store, budget
<1>2. req \in [Thread -> ReqRecord]
  BY Zenon DEF TypeInv, TypeOK
<1>3. \A s \in Thread \ {t} : req'[s] = req[s]
  BY <1>2, Zenon DEF FetchQuiet, FetchLocal, FetchTxn, NotInTxnLists, TxnScanFails, FetchMam, BufferLen, ScanBuffer,
         AnswerUnsent, CompleteLen, ScanComplete, AnswerNotExist, FoundSent, GetResult, DeleteResult, FetchFails,
         PushRequestFails, Return
<1>4. req'[t].pc # "push"
  <2>1. CASE FetchTxn(t)
    <3>1. PICK u \in pushed : req' = [req EXCEPT ![t] = [Idle EXCEPT !.pc = "txn", !.uuid = u]]
      BY <2>1, Zenon DEF FetchTxn
    <3>2. u \in UUID
      BY Zenon DEF TypeInv, TypeOK
    <3> QED BY <1>2, <3>1, <3>2, IdleType, Zenon DEF ReqRecord, Idle
  <2>2. CASE ScanBuffer(t) \/ ScanComplete(t)
    <3>1. CASE ScanBuffer(t)
      BY <1>2, <3>1, Zenon DEF ScanBuffer, list_exist_step, ReqRecord
    <3>2. CASE ScanComplete(t)
      BY <1>2, <3>2, Zenon DEF ScanComplete, list_exist_step, ReqRecord
    <3> QED BY <2>2, <3>1, <3>2, Zenon
  <2>3. CASE TxnScanFails(t) \/ AnswerUnsent(t) \/ AnswerNotExist(t) \/ PushRequestFails(t)
    BY <1>2, <2>3, IdlePc, Zenon DEF TxnScanFails, AnswerUnsent, AnswerNotExist, PushRequestFails, Return
  <2>4. CASE BufferLen(t) \/ CompleteLen(t) \/ FoundSent(t)
    BY <1>2, <2>4 DEF BufferLen, CompleteLen, FoundSent, ReqRecord
  <2>5. CASE NotInTxnLists(t) \/ FetchMam(t) \/ GetResult(t) \/ DeleteResult(t)
    BY <1>2, <2>5, IdlePc DEF NotInTxnLists, FetchMam, GetResult, DeleteResult, Return, ReqRecord
  <2>6. CASE FetchFails(t)
    BY <1>2, <2>6, IdlePc DEF FetchFails, Return, ReqRecord
  <2> QED BY <2>1, <2>2, <2>3, <2>4, <2>5, <2>6, Zenon DEF FetchQuiet, FetchLocal
<1> QED BY <1>1, <1>3, <1>4, Zenon

\* The steps of the health thread that move no UUID.
HealthQuiet ==
    \/ BroadcastTxn \/ BroadcastTxnDone \/ BufferedLen \/ PeekUuid \/ GetRequest \/ Publish \/ PublishFails
    \/ LockForMove \/ DeleteRequest \/ SetResult \/ UnlockMoved \/ Evict \/ EvictUnlock

\* What the steps of the health thread that touch no list leave alone.
LEMMA HealthQuietFrame ==
    ASSUME TypeInv, HealthQuiet
    PROVE  /\ UNCHANGED <<buffer, complete, req, crashes, issued, pushed, overtook, taken, dropped, answers>>
           /\ faults' \in {faults, faults + 1}
           /\ h.pc # "push" /\ h'.pc # "push"
<1>1. UNCHANGED <<buffer, complete, req, crashes, issued, pushed, overtook, taken, dropped, answers>>
  BY Zenon DEF HealthQuiet, BroadcastTxn, BroadcastTxnDone, BufferedLen, PeekUuid, GetRequest, Publish, PublishFails,
         LockForMove, DeleteRequest, SetResult, UnlockMoved, Evict, EvictUnlock, Fault, store, budget, history
<1>2. faults' \in {faults, faults + 1}
  BY Zenon DEF HealthQuiet, BroadcastTxn, BroadcastTxnDone, BufferedLen, PeekUuid, GetRequest, Publish, PublishFails,
         LockForMove, DeleteRequest, SetResult, UnlockMoved, Evict, EvictUnlock, Fault, budget
<1>3. h \in HealthRecord
  BY Zenon DEF TypeInv, TypeOK
<1>4. h.pc # "push" /\ h'.pc # "push"
  <2>1. CASE BroadcastTxn \/ BroadcastTxnDone \/ BufferedLen \/ GetRequest \/ Publish \/ PublishFails
    BY <1>3, <2>1, Zenon DEF BroadcastTxn, BroadcastTxnDone, BufferedLen, GetRequest, Publish, PublishFails, Goto, HealthRecord
  <2>2. CASE LockForMove \/ DeleteRequest \/ SetResult \/ UnlockMoved \/ EvictUnlock
    BY <1>3, <2>2, Zenon DEF LockForMove, DeleteRequest, SetResult, UnlockMoved, EvictUnlock, Goto, HealthRecord
  <2>3. CASE PeekUuid
    BY <1>3, <2>3, Zenon DEF PeekUuid, Goto, HealthRecord
  <2>4. CASE Evict
    BY <1>3, <2>4, StartingType, Zenon DEF Evict, Goto, HealthRecord
  <2> QED BY <2>1, <2>2, <2>3, <2>4, Zenon DEF HealthQuiet
<1> QED BY <1>1, <1>2, <1>4, Zenon

\* No request has been issued at first.
LEMMA ConsInit == Init /\ TypeInv => ConsInv
<1> SUFFICES ASSUME Init, TypeInv PROVE ConsInv
  BY Zenon
<1>1. (\A t \in Thread : ~Storing(t)) /\ InHand = {}
  BY IdleType, StartingType, Zenon DEF Init, Storing, InHand
<1>2. Range(<<>>) = {} /\ IsInjective(<<>>)
  BY DEF Range, IsInjective
<1>3. Conservation
  BY <1>1, <1>2, Zenon DEF Init, Conservation
<1> QED BY <1>1, <1>3, Zenon DEF ConsInv, Private

\* Every step keeps the UUIDs, the types given.
LEMMA ConsStep == ConsInv /\ TypeInv' /\ [Next]_vars => ConsInv'
<1> SUFFICES ASSUME ConsInv, TypeInv', [Next]_vars PROVE ConsInv'
  BY Zenon
<1>1. TypeInv /\ TypeInv' /\ Private /\ Conservation
  BY Zenon DEF ConsInv
<1>2. /\ StoreTyped /\ req \in [Thread -> ReqRecord] /\ h \in HealthRecord
      /\ faults \in Nat /\ crashes \in Nat
  BY <1>1, MamBufferAssumption DEF TypeInv, TypeOK, StoreTyped
<1> SUFFICES Private' /\ Conservation'
  BY <1>1, Zenon DEF ConsInv
<1>3. CASE UNCHANGED vars
  <2>1. UNCHANGED <<buffer, complete, pushed, taken, dropped, faults, crashes, req, h>>
    BY <1>3, Zenon DEF vars, store, budget, history
  <2>2. InHand' = InHand /\ \A t \in Thread : Storing(t)' => Storing(t) /\ req'[t].uuid = req[t].uuid
    BY <2>1, Zenon DEF InHand, Storing
  <2> QED BY <1>1, <1>2, <2>1, <2>2, PrivateFrame, ConsFrame
<1>4. ASSUME NEW t \in Thread, FetchQuiet(t)
      PROVE  Private' /\ Conservation'
  <2>1. /\ UNCHANGED <<buffer, complete, h, pushed, taken, dropped, crashes>> /\ faults' \in {faults, faults + 1}
        /\ req'[t].pc # "push" /\ \A s \in Thread \ {t} : req'[s] = req[s]
    BY <1>1, <1>4, FetchQuietFrame, Zenon DEF history
  <2>2. InHand' = InHand /\ \A s \in Thread : Storing(s)' => Storing(s) /\ req'[s].uuid = req[s].uuid
    BY <2>1, Zenon DEF InHand, Storing
  <2>3. faults' >= faults /\ crashes' >= crashes
    BY <1>2, <2>1
  <2> QED BY <1>1, <2>1, <2>2, <2>3, PrivateFrame, ConsFrame, Zenon
<1>5. CASE HealthQuiet
  <2>1. /\ UNCHANGED <<buffer, complete, req, pushed, taken, dropped, crashes>> /\ faults' \in {faults, faults + 1}
        /\ h.pc # "push" /\ h'.pc # "push"
    BY <1>1, <1>5, HealthQuietFrame, Zenon
  <2>2. InHand' = InHand /\ \A t \in Thread : Storing(t)' => Storing(t) /\ req'[t].uuid = req[t].uuid
    BY <2>1, Zenon DEF InHand, Storing
  <2>3. faults' >= faults /\ crashes' >= crashes
    BY <1>2, <2>1
  <2> QED BY <1>1, <2>1, <2>2, <2>3, PrivateFrame, ConsFrame, Zenon
<1>6. ASSUME NEW t \in Thread, SetRequest(t)
      PROVE  Private' /\ Conservation'
  <2>1. /\ UNCHANGED <<buffer, complete, h, pushed, taken, dropped, crashes>> /\ faults' \in {faults, faults + 1}
        /\ InHand' = InHand
    BY <1>6, Zenon DEF SetRequest, InHand, Fault, budget
  <2>2. PICK u \in UUID \ issued : req' = [req EXCEPT ![t] = [Idle EXCEPT !.pc = "push", !.uuid = u]]
    BY <1>6, Zenon DEF SetRequest
  <2>3. req'[t].uuid = u /\ \A s \in Thread \ {t} : req'[s] = req[s]
    BY <1>2, <2>2, Zenon DEF ReqRecord, Idle
  <2>4. u \notin pushed
    BY <1>2, Zenon DEF StoreTyped
  <2>5. \A s \in Thread : Storing(s) => req[s].uuid \in issued
    BY <1>1, Zenon DEF TypeInv, Locals, Storing
  <2>6. Private'
    BY <1>1, <2>1, <2>3, <2>4, <2>5 DEF Private, Storing
  <2>7. faults' >= faults /\ crashes' >= crashes
    BY <1>2, <2>1
  <2> QED BY <1>1, <2>1, <2>6, <2>7, ConsFrame, Zenon
<1>7. ASSUME NEW t \in Thread, PushRequest(t)
      PROVE  Private' /\ Conservation'
  <2> DEFINE u == req[t].uuid
  <2>1. /\ buffer' = list_push(buffer, u) /\ pushed' = pushed \cup {u}
        /\ UNCHANGED <<complete, h, taken, dropped, faults, crashes>> /\ InHand' = InHand
        /\ req' = [req EXCEPT ![t] = Idle] /\ Storing(t)
    BY <1>7, Zenon DEF PushRequest, Return, InHand, budget, Storing
  <2>2. u \in UUID /\ u \notin pushed
    BY <1>1, <1>2, <2>1, Zenon DEF TypeInv, Locals, Storing, StoreTyped, Private
  <2>3. Private'
    <3>1. ~Storing(t)' /\ \A s \in Thread \ {t} : req'[s] = req[s]
      BY <1>2, <2>1, IdlePc, Zenon DEF Storing
    <3> QED BY <1>1, <2>1, <3>1 DEF Private, Storing
  <2>4. Range(buffer') = {u} \cup Range(buffer) /\ (IsInjective(buffer) /\ u \notin Range(buffer) => IsInjective(buffer'))
    BY <1>2, <2>1, <2>2, PushProperties, Zenon DEF StoreTyped
  <2> HIDE DEF u
  <2>5. Conservation'
    BY <1>1, <2>1, <2>2, <2>4 DEF Conservation
  <2> QED BY <2>3, <2>5, Zenon
<1>8. ASSUME NEW t \in Thread, PopComplete(t)
      PROVE  Private' /\ Conservation'
  <2>1. /\ UNCHANGED <<buffer, h, pushed, dropped, faults, crashes>> /\ InHand' = InHand
        /\ req' = [req EXCEPT ![t] = Idle]
    BY <1>8, Zenon DEF PopComplete, Return, InHand, budget
  <2>2. \A s \in Thread : Storing(s)' => Storing(s) /\ req'[s].uuid = req[s].uuid
    BY <1>2, <2>1, IdlePc, Zenon DEF Storing
  <2>3. Conservation'
    <3>1. CASE complete = <<>>
      BY <1>1, <1>2, <1>8, <2>1, <3>1, ConsFrame DEF PopComplete
    <3>2. CASE complete # <<>>
      <4>1. complete' = list_pop(complete) /\ taken' = taken \cup {Head(complete)}
        BY <1>8, <3>2, Zenon DEF PopComplete
      <4>2. /\ Range(complete) = {Head(complete)} \cup Range(complete')
            /\ IsInjective(complete) => IsInjective(complete') /\ Head(complete) \notin Range(complete')
        BY <1>2, <3>2, <4>1, PopProperties, Zenon DEF StoreTyped
      <4> QED BY <1>1, <2>1, <4>1, <4>2, Zenon DEF Conservation
    <3> QED BY <3>1, <3>2, Zenon
  <2> QED BY <1>1, <2>1, <2>2, <2>3, PrivateFrame, Zenon
<1>9. CASE PopBuffered
  <2>1. UNCHANGED <<complete, req, pushed, taken, dropped, faults, crashes>> /\ h.pc = "pop"
    BY <1>9, Zenon DEF PopBuffered, budget, history
  <2>2. \A s \in Thread : Storing(s)' => Storing(s) /\ req'[s].uuid = req[s].uuid
    BY <2>1, Zenon DEF Storing
  <2>3. Conservation'
    <3>1. CASE buffer = <<>>
      <4>1. buffer' = buffer /\ h'.pc = "evict"
        BY <1>2, <1>9, <3>1, Zenon DEF PopBuffered, Goto, HealthRecord
      <4>2. InHand' = InHand
        BY <2>1, <4>1, Zenon DEF InHand
      <4> QED BY <1>1, <1>2, <2>1, <4>1, <4>2, ConsFrame
    <3>2. CASE buffer # <<>>
      <4>1. buffer' = list_pop(buffer) /\ h'.pc = "push" /\ h'.uuid = Head(buffer)
        BY <1>2, <1>9, <3>2, Zenon DEF PopBuffered, HealthRecord
      <4>2. /\ Range(buffer) = {Head(buffer)} \cup Range(buffer')
            /\ IsInjective(buffer) => IsInjective(buffer') /\ Head(buffer) \notin Range(buffer')
        BY <1>2, <3>2, <4>1, PopProperties, Zenon DEF StoreTyped
      <4>3. InHand = {} /\ InHand' = {Head(buffer)}
        BY <2>1, <4>1, Zenon DEF InHand
      <4> QED BY <1>1, <2>1, <4>2, <4>3 DEF Conservation
    <3> QED BY <3>1, <3>2, Zenon
  <2> QED BY <1>1, <2>1, <2>2, <2>3, PrivateFrame, Zenon
<1>10. CASE PushComplete
  <2> DEFINE u == h.uuid
  <2>1. /\ UNCHANGED <<buffer, req, pushed, taken, dropped, faults, crashes>> /\ h.pc = "push"
        /\ complete' = list_push(complete, u) /\ h'.pc = "unlock"
    BY <1>2, <1>10, Zenon DEF PushComplete, budget, history, Goto, HealthRecord
  <2>2. u \in UUID /\ complete \in Seq(UUID) /\ InHand = {u} /\ InHand' = {}
    BY <1>1, <1>2, <2>1, Zenon DEF TypeInv, Locals, StoreTyped, InHand
  <2> HIDE DEF u
  <2>3. /\ Range(complete') = {u} \cup Range(complete)
        /\ IsInjective(complete) /\ u \notin Range(complete) => IsInjective(complete')
    <3>1. u \in UUID /\ complete' = list_push(complete, u) /\ complete \in Seq(UUID)
      BY <2>1, <2>2, Zenon
    <3> QED BY <3>1, PushProperties, Zenon
  <2>4. Conservation'
    BY <1>1, <2>1, <2>2, <2>3, Zenon DEF Conservation
  <2>5. \A s \in Thread : Storing(s)' => Storing(s) /\ req'[s].uuid = req[s].uuid
    BY <2>1, Zenon DEF Storing
  <2> QED BY <1>1, <2>1, <2>4, <2>5, PrivateFrame, Zenon
<1>11. CASE BroadcastFails \/ Crash
  <2>1. /\ UNCHANGED <<buffer, complete, pushed, taken>>
        /\ dropped' = dropped \cup InHand
    BY <1>11, Zenon DEF BroadcastFails, Crash, Fault, InHand, store
  <2>2. faults' + crashes' > 0
    BY <1>2, <1>11 DEF BroadcastFails, Crash, Fault
  <2>3. InHand' = {}
    <3>1. h'.pc = "evict" \/ h'.pc = "txn"
      BY <1>2, <1>11, StartingType, Zenon DEF BroadcastFails, Crash, Goto, HealthRecord
    <3> QED BY <3>1, Zenon DEF InHand
  <2>4. Conservation'
    BY <1>1, <2>1, <2>2, <2>3, Zenon DEF Conservation
  <2>5. \A s \in Thread : Storing(s)' => Storing(s) /\ req'[s].uuid = req[s].uuid
    <3>1. req' = req \/ req' = [t \in Thread |-> Idle]
      BY <1>11, Zenon DEF BroadcastFails, Crash
    <3> QED BY <3>1, IdlePc, Zenon DEF Storing
  <2> QED BY <1>1, <2>1, <2>4, <2>5, PrivateFrame, Zenon
<1> QED
  BY <1>3, <1>4, <1>5, <1>6, <1>7, <1>8, <1>9, <1>10, <1>11, Zenon
  DEF Next, HttpStep, HealthStep, FetchQuiet, FetchLocal, HealthQuiet

-----------------------------------------------------------------------------
(* What is moved, and what a fetch hands out.                               *)

Settled == Range(complete) \cup taken     \* moved to the complete list, at some time
Reached == published \cup swallowed       \* ta_send_mam_message said SC_OK, or sent it

\* A fetch that found its UUID in the complete list is after a settled one.
Found(r) == (r.pc = "scan_c" /\ r.exist) \/ r.pc \in {"get", "del", "popc"}
Listed == \A t \in Thread : Found(req[t]) => req[t].uuid \in Settled

\* Between its peek and its pop the health thread's UUID stays in the buffer
\* list, and only a UUID that overtook it can be popped in its place.
Peeked ==
    h.pc \in PeekedPcs =>
       /\ h.uuid \in Range(buffer)
       /\ buffer # <<>>
       /\ Head(buffer) \in {h.uuid} \cup overtook
       /\ h.pc \in {"wrlock", "del", "set", "pop"} => h.uuid \in Reached
       /\ h.pc = "set" => value[h.uuid] = "none"
       /\ h.pc = "pop" => value[h.uuid] # "req"
       /\ h.pc = "pop" /\ faults + crashes = 0 => value[h.uuid] = "res"

\* What was moved had been published, and its request was overwritten.
Moved ==
    \A u \in Settled \cup InHand : u \in overtook \/ (u \in Reached /\ value[u] # "req")

\* A fetch that read a value holds the result.
Got ==
    \A t \in Thread : req[t].pc \in {"del", "popc"} =>
       \/ req[t].uuid \in overtook
       \/ req[t].got = "res" /\ req[t].uuid \in Reached

\* A result was handed out.
Answered(u) == \E i \in 1..Len(answers) : answers[i][1] = u

\* Of the fetches of one UUID only one gets past the DEL.
Once ==
    /\ \A t \in Thread : req[t].pc = "popc" => value[req[t].uuid] = "none" /\ ~Answered(req[t].uuid)
    /\ \A p, t \in Thread : req[p].pc = "popc" /\ req[t].pc = "popc" /\ p # t => req[p].uuid # req[t].uuid
    /\ \A i \in 1..Len(answers) : answers[i][1] \in Settled /\ value[answers[i][1]] = "none"

\* The result is stored before its UUID reaches the complete list.
Kept == faults + crashes = 0 => \A u \in InHand : u \in overtook \/ value[u] = "res"

\* The inductive invariant behind MovedIsPublished and ResultOnce.
ResultInv ==
    Listed /\ Peeked /\ Moved /\ Got /\ Once /\ Kept /\ AnswerIsResult /\ AnsweredOnce /\ ResultKept

\* The places of Conservation are apart.
LEMMA Apart ==
    ASSUME ConsInv
    PROVE  /\ Settled \subseteq pushed /\ Range(buffer) \subseteq pushed /\ InHand \subseteq pushed
           /\ \A u \in Range(buffer) : u \notin Settled /\ u \notin InHand
           /\ \A u \in InHand : u \notin Settled
           /\ pushed \subseteq issued /\ issued \subseteq UUID
<1>1. pushed \subseteq issued /\ issued \subseteq UUID
  BY Zenon DEF ConsInv, TypeInv, TypeOK
<1> QED BY <1>1, Zenon DEF ConsInv, Conservation, Settled

\* The types that a failing step needs.
LEMMA FailureTypes ==
    ASSUME TypeInv
    PROVE  /\ faults \in Nat /\ crashes \in Nat
           /\ req \in [Thread -> ReqRecord] /\ h \in HealthRecord
           /\ value \in [UUID -> Value] /\ answers \in Seq(UUID \X Value)
           /\ buffer \in Seq(UUID) /\ complete \in Seq(UUID)
BY MamBufferAssumption DEF TypeInv, TypeOK

\* A failure that happened stays counted.
LEMMA NoFailureBefore ==
    ASSUME TypeInv, TypeInv', faults' >= faults, crashes' >= crashes
    PROVE  faults' + crashes' = 0 => faults + crashes = 0
<1>1. faults \in Nat /\ crashes \in Nat /\ faults' \in Nat /\ crashes' \in Nat
  BY MamBufferAssumption DEF TypeInv, TypeOK
<1>2. \A f, c, f2, c2 \in Nat : f2 >= f /\ c2 >= c /\ f2 + c2 = 0 => f + c = 0
  OBVIOUS
<1> QED BY <1>1, <1>2, Zenon

\* Results stay handed out once while values and answers do not change.
LEMMA OnceKept ==
    ASSUME Once, value' = value, answers' = answers, Settled \subseteq Settled',
           \A s \in Thread : req'[s].pc = "popc" => req'[s] = req[s]
    PROVE  Once'
<1>1. \A s \in Thread : req'[s].pc = "popc" => value'[req'[s].uuid] = "none" /\ ~Answered(req'[s].uuid)
  BY Zenon DEF Once
<1>2. \A p, s \in Thread : req'[p].pc = "popc" /\ req'[s].pc = "popc" /\ p # s => req'[p].uuid # req'[s].uuid
  BY DEF Once
<1>3. \A i \in 1..Len(answers') : answers'[i][1] \in Settled' /\ value'[answers'[i][1]] = "none"
  BY Zenon DEF Once
<1> QED BY <1>1, <1>2, <1>3, Zenon DEF Once, Answered

\* The invariant is kept by a step of an HTTP thread that changes its locals only
\* and does not pass the DEL.
LEMMA ResultHttpFrame ==
    ASSUME ConsInv, TypeInv', ResultInv, NEW t \in Thread, NEW r, req' = [req EXCEPT ![t] = r],
           UNCHANGED <<store, h, history, crashes>>, faults' >= faults,
           r.pc # "popc",
           req[t].pc = "popc" => faults' + crashes' > 0,
           Found(r) => r.uuid \in Settled,
           r.pc = "del" => r.uuid \in overtook \/ (r.got = "res" /\ r.uuid \in Reached)
    PROVE  ResultInv'
<1>1. /\ buffer' = buffer /\ complete' = complete /\ value' = value /\ h' = h /\ overtook' = overtook
      /\ published' = published /\ swallowed' = swallowed /\ taken' = taken /\ answers' = answers
  BY Zenon DEF store, history
<1>2. Settled' = Settled /\ Reached' = Reached /\ InHand' = InHand
  BY <1>1, Zenon DEF Settled, Reached, InHand
<1>3. req'[t] = r /\ \A s \in Thread \ {t} : req'[s] = req[s]
  BY FailureTypes, Zenon DEF ConsInv
<1>4. faults' + crashes' = 0 => faults + crashes = 0
  <2>1. TypeInv /\ crashes \in Nat
    BY FailureTypes, Zenon DEF ConsInv
  <2> QED BY <2>1, NoFailureBefore
<1>5. Listed'
  BY <1>2, <1>3 DEF ResultInv, Listed, Found
<1>6. Peeked'
  BY <1>1, <1>2, <1>4, Zenon DEF ResultInv, Peeked
<1>7. Moved' /\ Kept'
  BY <1>1, <1>2, <1>4, Zenon DEF ResultInv, Moved, Kept
<1>8. Got'
  BY <1>1, <1>2, <1>3 DEF ResultInv, Got
<1>9. Once'
  BY <1>1, <1>2, <1>3, OnceKept, Zenon DEF ResultInv
<1>10. AnswerIsResult' /\ AnsweredOnce'
  BY <1>1, Zenon DEF ResultInv, AnswerIsResult, AnsweredOnce
<1>11. ResultKept'
  <2> SUFFICES ASSUME faults' + crashes' = 0, NEW u \in Range(complete) \ overtook,
                      value[u] # "res", \A i \in 1..Len(answers) : answers[i][1] # u
               PROVE  \E s \in Thread : req'[s].pc = "popc" /\ req'[s].uuid = u
    BY <1>1 DEF ResultKept
  <2>1. PICK s \in Thread : req[s].pc = "popc" /\ req[s].uuid = u
    BY <1>4 DEF ResultInv, ResultKept
  <2>2. s # t
    BY <2>1, FailureTypes DEF ConsInv
  <2> QED BY <1>3, <2>1, <2>2, Zenon
<1> QED BY <1>5, <1>6, <1>7, <1>8, <1>9, <1>10, <1>11, Zenon DEF ResultInv

\* It is kept by a step of the health thread that changes no list and no value.
LEMMA ResultHealthFrame ==
    ASSUME ConsInv, TypeInv', ResultInv,
           UNCHANGED <<store, req, overtook, taken, answers, crashes>>, faults' >= faults,
           published \subseteq published', swallowed \subseteq swallowed',
           InHand' \subseteq InHand, Peeked'
    PROVE  ResultInv'
<1>1. buffer' = buffer /\ complete' = complete /\ value' = value
  BY Zenon DEF store
<1>2. Settled' = Settled /\ Reached \subseteq Reached'
  BY <1>1, Zenon DEF Settled, Reached
<1>3. faults' + crashes' = 0 => faults + crashes = 0
  <2>1. TypeInv /\ crashes \in Nat
    BY FailureTypes, Zenon DEF ConsInv
  <2> QED BY <2>1, NoFailureBefore
<1>4. Listed'
  BY <1>2, Zenon DEF ResultInv, Listed, Found
<1>5. Moved' /\ Kept'
  BY <1>1, <1>2, <1>3, Zenon DEF ResultInv, Moved, Kept
<1>6. Got'
  BY <1>2, Zenon DEF ResultInv, Got
<1>7. Once'
  BY <1>1, <1>2, OnceKept, Zenon DEF ResultInv
<1>8. AnswerIsResult' /\ AnsweredOnce'
  BY <1>2, Zenon DEF ResultInv, AnswerIsResult, AnsweredOnce, Reached
<1>9. ResultKept'
  BY <1>1, <1>3, Zenon DEF ResultInv, ResultKept
<1> QED BY <1>4, <1>5, <1>6, <1>7, <1>8, <1>9, Zenon DEF ResultInv

\* The fetch up to the DEL, and every error reply to an HTTP thread, keep it.
LEMMA ResultFetch ==
    ASSUME ConsInv, TypeInv', ResultInv, NEW t \in Thread,
           FetchLocal(t) \/ FetchFails(t) \/ PushRequestFails(t)
    PROVE  ResultInv'
<1>1. /\ TypeInv /\ req \in [Thread -> ReqRecord] /\ req[t] \in ReqRecord
      /\ faults \in Nat /\ crashes \in Nat
  BY FailureTypes, Zenon DEF ConsInv
<1>2. UNCHANGED <<store, h, history, crashes>> /\ faults' \in {faults, faults + 1}
  BY Zenon DEF FetchLocal, FetchTxn, NotInTxnLists, TxnScanFails, FetchMam, BufferLen, ScanBuffer,
         AnswerUnsent, CompleteLen, ScanComplete, AnswerNotExist, FoundSent, GetResult, FetchFails,
         PushRequestFails, Fault, store, budget
<1>3. faults' >= faults
  BY <1>1, <1>2
<1>4. Found(req[t]) => req[t].uuid \in Settled
  BY Zenon DEF ResultInv, Listed
<1>5. ASSUME NEW r, req' = [req EXCEPT ![t] = r], r.pc \notin {"del", "popc"}, req[t].pc # "popc",
             Found(r) => r.uuid \in Settled
      PROVE  ResultInv'
  BY <1>2, <1>3, <1>5, ResultHttpFrame, Zenon
<1>6. CASE Return(t)
  <2>1. req' = [req EXCEPT ![t] = Idle] /\ ~Found(Idle)
    BY <1>6, IdlePc, Zenon DEF Return, Found
  <2>2. req[t].pc = "popc" => faults' + crashes' > 0
    <3>1. req[t].pc = "popc" => FetchFails(t)
      BY Zenon DEF FetchLocal, FetchTxn, NotInTxnLists, TxnScanFails, FetchMam, BufferLen, ScanBuffer,
         AnswerUnsent, CompleteLen, ScanComplete, AnswerNotExist, FoundSent, GetResult, PushRequestFails
    <3> QED BY <1>1, <3>1 DEF FetchFails, Fault
  <2> QED BY <1>2, <1>3, <2>1, <2>2, IdlePc, ResultHttpFrame, Zenon
<1>7. CASE FetchTxn(t)
  <2>1. PICK u \in pushed : req' = [req EXCEPT ![t] = [Idle EXCEPT !.pc = "txn", !.uuid = u]]
    BY <1>7, Zenon DEF FetchTxn
  <2>2. [Idle EXCEPT !.pc = "txn", !.uuid = u].pc = "txn"
    BY Zenon DEF Idle
  <2> DEFINE r == [Idle EXCEPT !.pc = "txn", !.uuid = u]
  <2>3. req' = [req EXCEPT ![t] = r] /\ r.pc = "txn" /\ req[t].pc = "idle"
    BY <1>7, <2>1, <2>2, Zenon DEF FetchTxn
  <2> HIDE DEF r
  <2> QED BY <1>5, <2>3, Zenon DEF Found
<1>8. ASSUME NEW p \in {"mam", "llen_b"}, req' = [req EXCEPT ![t].pc = p], req[t].pc \in {"txn", "mam"}
      PROVE  ResultInv'
  <2> DEFINE r == [req[t] EXCEPT !.pc = p]
  <2>1. req' = [req EXCEPT ![t] = r] /\ r.pc = p
    BY <1>1, <1>8, Zenon DEF ReqRecord
  <2> HIDE DEF r
  <2> QED BY <1>5, <1>8, <2>1, Zenon DEF Found
<1>9. CASE NotInTxnLists(t)
  BY <1>6, <1>8, <1>9, Zenon DEF NotInTxnLists
<1>10. CASE FetchMam(t)
  BY <1>6, <1>8, <1>10, Zenon DEF FetchMam
<1>11. CASE BufferLen(t)
  <2> DEFINE r == [req[t] EXCEPT !.pc = "scan_b", !.len = Len(buffer)]
  <2>1. req' = [req EXCEPT ![t] = r] /\ r.pc = "scan_b" /\ req[t].pc = "llen_b"
    BY <1>1, <1>11, Zenon DEF ReqRecord, BufferLen
  <2> HIDE DEF r
  <2> QED BY <1>5, <2>1, Zenon DEF Found
<1>12. CASE ScanBuffer(t)
  <2> DEFINE r == list_exist_step(req[t], buffer)
  <2>1. req' = [req EXCEPT ![t] = r] /\ r.pc = "scan_b" /\ req[t].pc = "scan_b"
    BY <1>1, <1>12, Zenon DEF ReqRecord, ScanBuffer, list_exist_step
  <2> HIDE DEF r
  <2> QED BY <1>5, <2>1, Zenon DEF Found
<1>13. CASE CompleteLen(t)
  <2> DEFINE r == [req[t] EXCEPT !.pc = "scan_c", !.idx = 0, !.len = Len(complete)]
  <2>1. /\ req' = [req EXCEPT ![t] = r] /\ r.pc = "scan_c" /\ req[t].pc = "scan_b"
        /\ r.exist = req[t].exist /\ ~req[t].exist
    BY <1>1, <1>13, Zenon DEF ReqRecord, CompleteLen
  <2> HIDE DEF r
  <2> QED BY <1>5, <2>1, Zenon DEF Found
<1>14. CASE ScanComplete(t)
  <2> DEFINE r == list_exist_step(req[t], complete)
  <2>1. req' = [req EXCEPT ![t] = r] /\ req[t].pc = "scan_c"
    BY <1>1, <1>14, Zenon DEF ReqRecord, ScanComplete
  <2>2. complete \in Seq(UUID)
    BY <1>1, FailureTypes, Zenon
  <2>3. /\ r.pc = req[t].pc /\ r.uuid = req[t].uuid
        /\ r.exist => req[t].exist \/ (list_has(complete, req[t].idx) /\ list_at(complete, req[t].idx) = req[t].uuid)
    BY <1>1, <2>2, ExistStepType, Zenon
  <2>4. list_has(complete, req[t].idx) => list_at(complete, req[t].idx) \in Range(complete)
    BY <1>1, <2>2 DEF list_has, list_at, Range, ReqRecord
  <2>5. Found(r) => r.uuid \in Settled
    <3>1. list_has(complete, req[t].idx) => list_at(complete, req[t].idx) \in Settled
      BY <2>4, Zenon DEF Settled
    <3> HIDE DEF r
    <3> QED BY <1>4, <2>1, <2>3, <3>1, Zenon DEF Found
  <2> HIDE DEF r
  <2> QED BY <1>5, <2>1, <2>3, <2>5, Zenon
<1>15. CASE FoundSent(t)
  <2> DEFINE r == [req[t] EXCEPT !.pc = "get"]
  <2>1. /\ req' = [req EXCEPT ![t] = r] /\ r.pc = "get" /\ req[t].pc = "scan_c" /\ req[t].exist
        /\ r.uuid = req[t].uuid
    BY <1>1, <1>15, Zenon DEF ReqRecord, FoundSent
  <2> HIDE DEF r
  <2> QED BY <1>4, <1>5, <2>1, Zenon DEF Found
<1>16. CASE GetResult(t) /\ ~Return(t)
  <2> DEFINE r == [req[t] EXCEPT !.pc = "del", !.got = value[req[t].uuid]]
  <2>1. /\ req' = [req EXCEPT ![t] = r] /\ r.pc = "del" /\ req[t].pc = "get" /\ value[req[t].uuid] # "none"
        /\ r.uuid = req[t].uuid /\ r.got = value[req[t].uuid]
    BY <1>1, <1>16, Zenon DEF ReqRecord, GetResult
  <2> HIDE DEF r
  <2>2. r.uuid \in Settled
    BY <1>4, <2>1, Zenon DEF Found
  <2>3. r.uuid \in overtook \/ (value[r.uuid] # "req" /\ r.uuid \in Reached)
    BY <2>2, Zenon DEF ResultInv, Moved
  <2>4. value[r.uuid] \in Value
    BY <1>1, <2>2, Apart, FailureTypes, Zenon
  <2> QED BY <1>2, <1>3, <2>1, <2>2, <2>3, <2>4, ResultHttpFrame, Zenon DEF Value
<1>17. CASE FetchFails(t) /\ ~Return(t)
  <2>1. CASE req[t].pc = "llen_b" /\ req' = [req EXCEPT ![t].pc = "scan_b", ![t].err = TRUE]
    <3> DEFINE r == [req[t] EXCEPT !.pc = "scan_b", !.err = TRUE]
    <3>1. req' = [req EXCEPT ![t] = r] /\ r.pc = "scan_b"
      BY <1>1, <2>1, Zenon DEF ReqRecord
    <3> HIDE DEF r
    <3> QED BY <1>5, <2>1, <3>1, Zenon DEF Found
  <2>2. CASE /\ req[t].pc = "scan_b" /\ ~req[t].exist
             /\ req' = [req EXCEPT ![t].pc = "scan_c", ![t].idx = 0, ![t].len = 0, ![t].err = TRUE]
    <3> DEFINE r == [req[t] EXCEPT !.pc = "scan_c", !.idx = 0, !.len = 0, !.err = TRUE]
    <3>1. req' = [req EXCEPT ![t] = r] /\ r.pc = "scan_c" /\ r.exist = req[t].exist
      BY <1>1, <2>2, Zenon DEF ReqRecord
    <3> HIDE DEF r
    <3> QED BY <1>5, <2>2, <3>1, Zenon DEF Found
  <2>3. CASE /\ req[t].pc \in {"scan_b", "scan_c"}
             /\ req' = [req EXCEPT ![t].idx = @ + 1, ![t].err = TRUE]
    <3> DEFINE r == [req[t] EXCEPT !.idx = req[t].idx + 1, !.err = TRUE]
    <3>1. req' = [req EXCEPT ![t] = r] /\ r.pc = req[t].pc /\ r.exist = req[t].exist /\ r.uuid = req[t].uuid
      BY <1>1, <2>3, Zenon DEF ReqRecord
    <3> HIDE DEF r
    <3> QED BY <1>4, <1>5, <2>3, <3>1, Zenon DEF Found
  <2> QED BY <1>17, <2>1, <2>2, <2>3, Zenon DEF FetchFails
<1>18. CASE TxnScanFails(t) \/ AnswerUnsent(t) \/ AnswerNotExist(t) \/ PushRequestFails(t)
  BY <1>6, <1>18, Zenon DEF TxnScanFails, AnswerUnsent, AnswerNotExist, PushRequestFails
<1> QED
  BY <1>6, <1>7, <1>9, <1>10, <1>11, <1>12, <1>13, <1>14, <1>15, <1>16, <1>17, <1>18, Zenon DEF FetchLocal

\* A new request: its UUID is nowhere yet.
LEMMA ResultSet ==
    ASSUME ConsInv, TypeInv', ResultInv, NEW t \in Thread, SetRequest(t)
    PROVE  ResultInv'
<1>1. TypeInv /\ req \in [Thread -> ReqRecord] /\ value \in [UUID -> Value] /\ faults \in Nat /\ crashes \in Nat
  BY FailureTypes, Zenon DEF ConsInv
<1>2. /\ UNCHANGED <<buffer, complete, h, pushed, published, swallowed, overtook, taken, answers, crashes>>
      /\ faults' \in {faults, faults + 1} /\ req[t].pc = "idle"
  BY Zenon DEF SetRequest, Fault, budget
<1>3. PICK u \in UUID \ issued :
         /\ req' = [req EXCEPT ![t] = [Idle EXCEPT !.pc = "push", !.uuid = u]]
         /\ value' = [value EXCEPT ![u] = "req"] \/ value' = value
  BY Zenon DEF SetRequest
<1>4. [Idle EXCEPT !.pc = "push", !.uuid = u].pc = "push"
  BY Zenon DEF Idle
<1>5. req'[t].pc = "push" /\ \A s \in Thread \ {t} : req'[s] = req[s]
  BY <1>1, <1>3, <1>4, Zenon
<1>6. Settled' = Settled /\ Reached' = Reached /\ InHand' = InHand
  BY <1>2, Zenon DEF Settled, Reached, InHand
<1>7. u \notin Settled /\ u \notin InHand /\ u \notin Range(buffer)
  BY Apart, Zenon
<1>8. \A v \in UUID : v # u => value'[v] = value[v]
  BY <1>1, <1>3, Zenon
<1>9. faults' + crashes' = 0 => faults + crashes = 0
  <2>1. faults' >= faults /\ crashes' >= crashes
    BY <1>1, <1>2
  <2> QED BY <1>1, <2>1, NoFailureBefore, Zenon
<1>10. Settled \subseteq UUID /\ InHand \subseteq UUID /\ Range(buffer) \subseteq UUID /\ Range(complete) \subseteq Settled
  BY Apart, Zenon DEF Settled
<1>11. Listed'
  BY <1>5, <1>6, Zenon DEF ResultInv, Listed, Found
<1>12. Peeked'
  BY <1>2, <1>6, <1>7, <1>8, <1>9, <1>10, Zenon DEF ResultInv, Peeked
<1>13. Moved' /\ Kept'
  BY <1>2, <1>6, <1>7, <1>8, <1>9, <1>10, Zenon DEF ResultInv, Moved, Kept
<1>14. Got'
  BY <1>2, <1>5, <1>6, Zenon DEF ResultInv, Got
<1>15. Once'
  <2>1. \A s \in Thread : req[s].pc = "popc" => req[s].uuid \in Settled
    BY Zenon DEF ResultInv, Listed, Found
  <2>2. \A i \in 1..Len(answers) : answers[i][1] \in Settled
    BY Zenon DEF ResultInv, Once
  <2> QED BY <1>2, <1>5, <1>6, <1>7, <1>8, <1>10, <2>1, <2>2 DEF ResultInv, Once, Answered
<1>16. AnswerIsResult' /\ AnsweredOnce'
  BY <1>2, Zenon DEF ResultInv, AnswerIsResult, AnsweredOnce
<1>17. ResultKept'
  <2>1. \A s \in Thread : req[s].pc = "popc" => req'[s] = req[s]
    BY <1>2, <1>5, Zenon
  <2> QED BY <1>2, <1>7, <1>8, <1>9, <1>10, <2>1 DEF ResultInv, ResultKept
<1> QED BY <1>11, <1>12, <1>13, <1>14, <1>15, <1>16, <1>17, Zenon DEF ResultInv

\* LPUSH of an accepted UUID: if the health thread is between peek and pop, it
\* overtakes the one peeked at.
LEMMA ResultPush ==
    ASSUME ConsInv, ConsInv', ResultInv, NEW t \in Thread, PushRequest(t)
    PROVE  ResultInv'
<1> DEFINE u == req[t].uuid
<1>1. TypeInv /\ req \in [Thread -> ReqRecord] /\ buffer \in Seq(UUID)
  BY FailureTypes, Zenon DEF ConsInv
<1>2. /\ UNCHANGED <<complete, value, h, published, swallowed, taken, answers, faults, crashes>>
      /\ buffer' = list_push(buffer, u) /\ req[t].pc = "push" /\ req' = [req EXCEPT ![t] = Idle]
      /\ overtook' = IF h.pc \in PeekedPcs THEN overtook \cup {u} ELSE overtook
  BY Zenon DEF PushRequest, budget, Return
<1>3. u \in UUID
  BY <1>2, <1>1, Apart, Zenon DEF TypeInv, Locals
<1>4. req'[t].pc = "idle" /\ \A s \in Thread \ {t} : req'[s] = req[s]
  BY <1>1, <1>2, IdlePc, Zenon
<1>5. Settled' = Settled /\ Reached' = Reached /\ InHand' = InHand /\ overtook \subseteq overtook'
  BY <1>2, Zenon DEF Settled, Reached, InHand
<1>6. buffer' # <<>> /\ Head(buffer') = u /\ Range(buffer) \subseteq Range(buffer')
  <2> HIDE DEF u
  <2>1. /\ list_push(buffer, u) \in Seq(UUID) /\ Len(list_push(buffer, u)) = Len(buffer) + 1
        /\ list_push(buffer, u)[1] = u /\ Range(list_push(buffer, u)) = {u} \cup Range(buffer)
    <3>1. buffer \in Seq(UUID) /\ u \in UUID
      BY <1>1, <1>3, Zenon
    <3> QED BY <3>1, PushProperties
  <2>2. buffer' \in Seq(UUID) /\ Len(buffer') = Len(buffer) + 1 /\ buffer'[1] = u /\ Len(buffer) \in Nat
    BY <1>1, <1>2, <2>1
  <2> QED BY <1>2, <2>1, <2>2
<1> HIDE DEF u
<1>7. Listed'
  BY <1>4, <1>5, Zenon DEF ResultInv, Listed, Found
<1>8. Peeked'
  BY <1>2, <1>5, <1>6, Zenon DEF ResultInv, Peeked
<1>9. Moved' /\ Kept'
  BY <1>2, <1>5, Zenon DEF ResultInv, Moved, Kept
<1>10. Got'
  BY <1>4, <1>5, Zenon DEF ResultInv, Got
<1>11. Once'
  BY <1>2, <1>4, <1>5, OnceKept, Zenon DEF ResultInv
<1>12. AnswerIsResult' /\ AnsweredOnce'
  BY <1>2, <1>5, Zenon DEF ResultInv, AnswerIsResult, AnsweredOnce
<1>13. ResultKept'
  <2>1. \A s \in Thread : req[s].pc = "popc" => req'[s] = req[s]
    BY <1>2, <1>4, Zenon
  <2> QED BY <1>2, <1>5, <2>1 DEF ResultInv, ResultKept
<1> QED BY <1>7, <1>8, <1>9, <1>10, <1>11, <1>12, <1>13, Zenon DEF ResultInv

\* The DEL of the fetch: of several fetches that read the result one counts a
\* key and passes.
LEMMA ResultDelete ==
    ASSUME ConsInv, TypeInv', ResultInv, NEW t \in Thread, DeleteResult(t)
    PROVE  ResultInv'
<1> DEFINE u == req[t].uuid
<1>1. /\ TypeInv /\ req \in [Thread -> ReqRecord] /\ req[t] \in ReqRecord /\ value \in [UUID -> Value]
      /\ faults \in Nat /\ crashes \in Nat
  BY FailureTypes, Zenon DEF ConsInv
<1>2. UNCHANGED <<buffer, complete, h, budget, history>> /\ req[t].pc = "del"
  BY Zenon DEF DeleteResult
<1>3. CASE Return(t)
  <2>1. UNCHANGED <<store, h, history, crashes>> /\ faults' >= faults
    <3>1. value' = value
      <4>1. req'[t].pc = "idle"
        BY <1>1, <1>3, IdlePc, Zenon DEF Return
      <4>2. req' # [req EXCEPT ![t].pc = "popc"]
        BY <1>1, <4>1, Zenon DEF ReqRecord
      <4> QED BY <4>2, Zenon DEF DeleteResult
    <3> QED BY <1>1, <1>2, <3>1 DEF store, budget
  <2>2. req' = [req EXCEPT ![t] = Idle] /\ ~Found(Idle)
    BY <1>3, IdlePc, Zenon DEF Return, Found
  <2> QED BY <1>2, <2>1, <2>2, IdlePc, ResultHttpFrame, Zenon
<1>4. CASE ~Return(t)
  <2>1. value[u] # "none" /\ value' = [value EXCEPT ![u] = "none"] /\ req' = [req EXCEPT ![t].pc = "popc"]
    BY <1>4, Zenon DEF DeleteResult
  <2>2. /\ req'[t].pc = "popc" /\ req'[t].uuid = u /\ req'[t].got = req[t].got
        /\ \A s \in Thread \ {t} : req'[s] = req[s]
    BY <1>1, <2>1, Zenon DEF ReqRecord
  <2>3. u \in Settled /\ u \in UUID
    BY <1>2, Apart, Zenon DEF ResultInv, Listed, Found
  <2>4. value'[u] = "none" /\ \A v \in UUID : v # u => value'[v] = value[v]
    BY <1>1, <2>1, <2>3, Zenon
  <2>5. /\ Settled' = Settled /\ Reached' = Reached /\ InHand' = InHand
        /\ h' = h /\ buffer' = buffer /\ complete' = complete /\ overtook' = overtook /\ answers' = answers
        /\ published' = published /\ swallowed' = swallowed /\ faults' = faults /\ crashes' = crashes
    BY <1>2, Zenon DEF Settled, Reached, InHand, history, budget
  <2>6. u \notin InHand /\ u \notin Range(buffer)
    BY <2>3, Apart, Zenon
  <2>7. Settled \subseteq UUID /\ InHand \subseteq UUID /\ Range(buffer) \subseteq UUID /\ Range(complete) \subseteq Settled
    BY Apart, Zenon DEF Settled
  <2> HIDE DEF u
  <2>8. Listed'
    BY <2>2, <2>3, <2>5, Zenon DEF ResultInv, Listed, Found
  <2>9. Peeked'
    BY <2>4, <2>5, <2>6, <2>7, Zenon DEF ResultInv, Peeked
  <2>10. Moved' /\ Kept'
    BY <2>4, <2>5, <2>6, <2>7, Zenon DEF ResultInv, Moved, Kept
  <2>11. Got'
    BY <1>2, <2>2, <2>5, Zenon DEF ResultInv, Got, u
  <2>12. Once'
    <3>1. \A s \in Thread : req[s].pc = "popc" => req[s].uuid # u
      BY <2>1, Zenon DEF ResultInv, Once
    <3>2. ~Answered(u)
      BY <2>1, Zenon DEF ResultInv, Once, Answered
    <3>3. \A i \in 1..Len(answers) : answers[i][1] \in Settled /\ value'[answers[i][1]] = "none"
      BY <2>4, <2>7, Zenon DEF ResultInv, Once
    <3>4. \A s \in Thread : req'[s].pc = "popc" => value'[req'[s].uuid] = "none" /\ ~Answered(req'[s].uuid)
      <4>1. \A s \in Thread : req[s].pc = "popc" => req[s].uuid \in UUID
        BY <2>7, Zenon DEF ResultInv, Listed, Found
      <4> QED BY <2>2, <2>4, <3>2, <4>1 DEF ResultInv, Once
    <3>5. \A p, s \in Thread : req'[p].pc = "popc" /\ req'[s].pc = "popc" /\ p # s => req'[p].uuid # req'[s].uuid
      BY <2>2, <3>1 DEF ResultInv, Once
    <3> QED BY <2>5, <3>3, <3>4, <3>5, Zenon DEF Once, Answered
  <2>13. AnswerIsResult' /\ AnsweredOnce'
    BY <2>5, Zenon DEF ResultInv, AnswerIsResult, AnsweredOnce
  <2>14. ResultKept'
    <3>1. \A s \in Thread : req[s].pc = "popc" => req'[s] = req[s]
      BY <1>2, <2>2, Zenon
    <3> QED BY <2>2, <2>4, <2>5, <2>7, <3>1 DEF ResultInv, ResultKept
  <2> QED BY <2>8, <2>9, <2>10, <2>11, <2>12, <2>13, <2>14, Zenon DEF ResultInv
<1> QED BY <1>3, <1>4, Zenon

\* The LPOP that ends a fetch, of whichever UUID is the head.
LEMMA ResultPop ==
    ASSUME ConsInv, TypeInv', ResultInv, NEW t \in Thread, PopComplete(t)
    PROVE  ResultInv'
<1> DEFINE u == req[t].uuid
           a == <<req[t].uuid, req[t].got>>
<1>1. /\ TypeInv /\ req \in [Thread -> ReqRecord] /\ complete \in Seq(UUID) /\ answers \in Seq(UUID \X Value)
      /\ req[t] \in ReqRecord
  BY FailureTypes, Zenon DEF ConsInv
<1>2. /\ UNCHANGED <<buffer, value, h, faults, crashes, published, swallowed, overtook>>
      /\ req[t].pc = "popc" /\ req' = [req EXCEPT ![t] = Idle]
  BY Zenon DEF PopComplete, budget, Return
<1>3. req'[t].pc = "idle" /\ \A s \in Thread \ {t} : req'[s] = req[s]
  BY <1>1, <1>2, IdlePc, Zenon
<1>4. u \in Settled /\ u \in UUID /\ a[1] = u /\ a[2] = req[t].got
  BY <1>2, Apart, Zenon DEF ResultInv, Listed, Found
<1>5. Reached' = Reached /\ InHand' = InHand
  BY <1>2, Zenon DEF Reached, InHand
<1>6. Settled' = Settled /\ Range(complete') \subseteq Range(complete)
  <2>1. CASE complete = <<>>
    BY <2>1, Zenon DEF PopComplete, Settled
  <2>2. CASE complete # <<>>
    <3>1. complete' = list_pop(complete) /\ taken' = taken \cup {Head(complete)}
      BY <2>2, Zenon DEF PopComplete
    <3>2. Range(complete) = {Head(complete)} \cup Range(complete')
      BY <1>1, <2>2, <3>1, PopProperties, Zenon
    <3> QED BY <3>1, <3>2, Zenon DEF Settled
  <2> QED BY <2>1, <2>2, Zenon
<1>7. Listed'
  BY <1>3, <1>6, Zenon DEF ResultInv, Listed, Found
<1>8. Peeked'
  BY <1>2, <1>5, Zenon DEF ResultInv, Peeked
<1>9. Moved' /\ Kept'
  BY <1>2, <1>5, <1>6, Zenon DEF ResultInv, Moved, Kept
<1>10. Got'
  BY <1>2, <1>3, <1>5 DEF ResultInv, Got
<1>11. CASE complete = <<>>
  <2>1. answers' = answers /\ complete' = complete /\ Range(complete) = {}
    BY <1>11 DEF PopComplete, Range
  <2>2. Once'
    BY <1>2, <1>3, <1>6, <2>1, OnceKept, Zenon DEF ResultInv
  <2>3. AnswerIsResult' /\ AnsweredOnce' /\ ResultKept'
    BY <1>2, <2>1, Zenon DEF ResultInv, AnswerIsResult, AnsweredOnce, ResultKept
  <2> QED BY <1>7, <1>8, <1>9, <1>10, <2>2, <2>3, Zenon DEF ResultInv
<1>12. CASE complete # <<>>
  <2>1. answers' = Append(answers, a)
    BY <1>12, Zenon DEF PopComplete
  <2>2. a \in UUID \X Value /\ Len(answers) \in Nat
    BY <1>1, <1>4 DEF ReqRecord
  <2> HIDE DEF a, u
  <2>3. /\ Len(answers') = Len(answers) + 1 /\ answers'[Len(answers) + 1] = a
        /\ \A i \in 1..Len(answers) : answers'[i] = answers[i]
    BY <1>1, <2>1, <2>2
  <2>4. \A i \in 1..Len(answers') : i \in 1..Len(answers) \/ i = Len(answers) + 1
    BY <2>2, <2>3
  <2>5. ~Answered(u) /\ value[u] = "none"
    BY <1>2, Zenon DEF ResultInv, Once, u
  <2>6. \A v : Answered(v)' <=> Answered(v) \/ v = u
    <3> TAKE v
    <3>1. Answered(v) => Answered(v)'
      BY <2>2, <2>3 DEF Answered
    <3>2. v = u => Answered(v)'
      BY <1>4, <2>2, <2>3 DEF Answered
    <3>3. Answered(v)' => Answered(v) \/ v = u
      BY <1>4, <2>3, <2>4, Zenon DEF Answered
    <3> QED BY <3>1, <3>2, <3>3, Zenon
  <2>7. Once'
    <3>1. \A s \in Thread : req'[s].pc = "popc" => s # t /\ req'[s] = req[s] /\ req[s].uuid # u
      BY <1>2, <1>3, Zenon DEF ResultInv, Once, u
    <3>2. \A s \in Thread : req'[s].pc = "popc" => value'[req'[s].uuid] = "none" /\ ~Answered(req[s].uuid)'
      <4> TAKE s \in Thread
      <4> HAVE req'[s].pc = "popc"
      <4>1. req[s].pc = "popc" /\ req'[s] = req[s] /\ req[s].uuid # u
        BY <3>1, Zenon
      <4>2. value[req[s].uuid] = "none" /\ ~Answered(req[s].uuid)
        BY <4>1, Zenon DEF ResultInv, Once
      <4>3. ~ \E i \in 1..Len(answers') : answers'[i][1] = req[s].uuid
        BY <2>6, <4>1, <4>2, Zenon DEF Answered
      <4> QED BY <1>2, <4>1, <4>2, <4>3, Zenon DEF Answered
    <3>3. \A p, s \in Thread : req'[p].pc = "popc" /\ req'[s].pc = "popc" /\ p # s => req'[p].uuid # req'[s].uuid
      BY <3>1 DEF ResultInv, Once
    <3>4. \A i \in 1..Len(answers') : answers'[i][1] \in Settled' /\ value'[answers'[i][1]] = "none"
      BY <1>2, <1>4, <1>6, <2>3, <2>4, <2>5, Zenon DEF ResultInv, Once
    <3> QED BY <3>2, <3>3, <3>4, Zenon DEF Once
  <2>8. AnswerIsResult'
    <3>1. u \in overtook \/ (a[2] = "res" /\ u \in Reached)
      BY <1>2, <1>4, Zenon DEF ResultInv, Got, u
    <3> QED BY <1>2, <1>4, <2>3, <2>4, <3>1, Zenon DEF ResultInv, AnswerIsResult, Reached
  <2>9. AnsweredOnce'
    BY <1>4, <2>2, <2>3, <2>4, <2>5, Zenon DEF ResultInv, AnsweredOnce, Answered
  <2>10. ResultKept'
    <3>1. faults + crashes = 0 => \A v \in Range(complete) \ overtook :
             value[v] = "res" \/ (\E s \in Thread : req[s].pc = "popc" /\ req[s].uuid = v) \/ Answered(v)
      BY Zenon DEF ResultInv, ResultKept, Answered
    <3>2. \A s \in Thread : req[s].pc = "popc" => req'[s] = req[s] \/ req[s].uuid = u
      BY <1>3, Zenon DEF u
    <3>3. faults + crashes = 0 => \A v \in Range(complete) \ overtook :
             value[v] = "res" \/ (\E s \in Thread : req'[s].pc = "popc" /\ req'[s].uuid = v) \/ Answered(v)'
      BY <2>6, <3>1, <3>2, Zenon
    <3> QED BY <1>2, <1>6, <3>3, Zenon DEF ResultKept, Answered
  <2> QED BY <1>7, <1>8, <1>9, <1>10, <2>7, <2>8, <2>9, <2>10, Zenon DEF ResultInv
<1> QED BY <1>11, <1>12, Zenon

\* The health thread up to the move: the lock, the peek, and ta_send_mam_message.
LEMMA ResultBroadcast ==
    ASSUME ConsInv, TypeInv', ResultInv,
           \/ BroadcastTxn \/ BroadcastTxnDone \/ BufferedLen \/ PeekUuid \/ GetRequest \/ Publish \/ PublishFails
           \/ LockForMove \/ UnlockMoved \/ Evict \/ EvictUnlock \/ BroadcastFails
    PROVE  ResultInv'
<1>1. TypeInv /\ h \in HealthRecord /\ buffer \in Seq(UUID) /\ faults \in Nat /\ crashes \in Nat
  BY FailureTypes, Zenon DEF ConsInv
<1>2. /\ UNCHANGED <<store, req, overtook, taken, answers, crashes>>
      /\ faults' \in {faults, faults + 1}
      /\ published \subseteq published' /\ swallowed \subseteq swallowed'
  BY Zenon DEF BroadcastTxn, BroadcastTxnDone, BufferedLen, PeekUuid, GetRequest, Publish, PublishFails,
         LockForMove, UnlockMoved, Evict, EvictUnlock, BroadcastFails, Fault, store, budget, history
<1>3. faults' >= faults
  BY <1>1, <1>2
<1> DEFINE To(p) == [h EXCEPT !.pc = p]
<1>4. \A p \in HealthPc : To(p).pc = p /\ To(p).uuid = h.uuid
  BY <1>1, Zenon DEF HealthRecord
<1>5. buffer' = buffer /\ value' = value /\ Reached \subseteq Reached'
  BY <1>2, Zenon DEF store, Reached
<1> HIDE DEF To
<1>6. ASSUME h'.pc \notin PeekedPcs \cup {"push"}
      PROVE  ResultInv'
  <2>1. Peeked' /\ InHand' = {}
    BY <1>6, Zenon DEF Peeked, InHand
  <2> QED BY <1>2, <1>3, <2>1, ResultHealthFrame, Zenon
<1>7. CASE BroadcastTxn \/ BroadcastTxnDone \/ BufferedLen \/ UnlockMoved \/ EvictUnlock \/ BroadcastFails
  <2>1. PICK p \in {"txn", "txncs", "llen", "peek", "evict"} : h' = To(p)
    BY <1>7, Zenon DEF BroadcastTxn, BroadcastTxnDone, BufferedLen, UnlockMoved, EvictUnlock, BroadcastFails, Goto, To
  <2>2. h'.pc = p
    BY <1>4, <2>1, Zenon DEF HealthPc
  <2> QED BY <1>6, <2>1, <2>2, Zenon DEF PeekedPcs
<1>8. CASE Evict
  <2>1. h' = To("evictcs") \/ h' = Starting
    BY <1>8, Zenon DEF Evict, Goto, To
  <2>2. h'.pc = "evictcs" \/ h'.pc = "txn"
    BY <1>4, <2>1, StartingType, Zenon DEF HealthPc
  <2> QED BY <1>6, <2>2, Zenon DEF PeekedPcs
<1>9. CASE h' = To("evict")
  BY <1>4, <1>6, <1>9, Zenon DEF PeekedPcs, HealthPc
<1>10. CASE PeekUuid /\ h' # To("evict")
  <2>1. list_has(buffer, 0) /\ h' = [h EXCEPT !.pc = "get", !.uuid = list_at(buffer, 0)]
    BY <1>10, Zenon DEF PeekUuid, Goto, To
  <2>2. h'.pc = "get" /\ h'.uuid = list_at(buffer, 0)
    BY <1>1, <2>1, Zenon DEF HealthRecord
  <2>3. list_at(buffer, 0) = Head(buffer) /\ buffer # <<>> /\ Head(buffer) \in Range(buffer)
    BY <1>1, <2>1 DEF list_has, list_at, Range
  <2>4. Peeked' /\ InHand' = {}
    BY <1>5, <2>2, <2>3, Zenon DEF Peeked, InHand
  <2> QED BY <1>2, <1>3, <2>4, ResultHealthFrame, Zenon
<1>11. CASE GetRequest \/ Publish \/ LockForMove \/ PublishFails
  <2>1. \/ h' = To("evict")
        \/ h.pc \in {"get", "publish"} /\ h' = To("publish")
        \/ h.pc = "publish" /\ h' = To("wrlock") /\ h.uuid \in Reached'
        \/ h.pc = "wrlock" /\ h' = To("del")
    BY <1>11, Zenon DEF GetRequest, Publish, LockForMove, PublishFails, Goto, To, Reached
  <2>2. CASE h' # To("evict")
    <3>1. /\ h'.pc \in {"publish", "wrlock", "del"} /\ h'.uuid = h.uuid /\ h.pc \in PeekedPcs
          /\ h'.pc = "wrlock" => h.uuid \in Reached'
          /\ h'.pc = "del" => h.pc = "wrlock"
      BY <1>4, <2>1, <2>2, Zenon DEF HealthPc, PeekedPcs
    <3>2. Peeked' /\ InHand' = {}
      BY <1>2, <1>5, <3>1, Zenon DEF ResultInv, Peeked, InHand
    <3> QED BY <1>2, <1>3, <3>2, ResultHealthFrame, Zenon
  <2> QED BY <1>9, <2>2, Zenon
<1> QED BY <1>7, <1>8, <1>9, <1>10, <1>11, Zenon

\* The move's DEL and SET: they touch the UUID that was peeked at, which is in
\* the buffer list still.
LEMMA ResultReplace ==
    ASSUME ConsInv, TypeInv', ResultInv, DeleteRequest \/ SetResult
    PROVE  ResultInv'
<1> DEFINE u == h.uuid
<1>1. TypeInv /\ h \in HealthRecord /\ value \in [UUID -> Value] /\ faults \in Nat /\ crashes \in Nat
  BY FailureTypes, Zenon DEF ConsInv
<1>2. /\ UNCHANGED <<buffer, complete, req, published, swallowed, overtook, taken, answers, crashes>>
      /\ faults' \in {faults, faults + 1} /\ h.pc \in {"del", "set"}
  BY Zenon DEF DeleteRequest, SetResult, Fault, budget, history
<1>3. /\ u \in Range(buffer) /\ buffer # <<>> /\ Head(buffer) \in {u} \cup overtook /\ u \in Reached
      /\ h.pc = "set" => value[u] = "none"
  BY <1>2, Zenon DEF ResultInv, Peeked, PeekedPcs
<1>4. u \in UUID /\ u \notin Settled /\ u \notin InHand
  BY <1>3, Apart, Zenon
<1>5. \A v \in UUID : v # u => value'[v] = value[v]
  BY <1>1, Zenon DEF DeleteRequest, SetResult
<1>6. Settled' = Settled /\ Reached' = Reached /\ InHand' = {} /\ h'.uuid = u
  BY <1>1, <1>2, Zenon DEF Settled, Reached, InHand, DeleteRequest, SetResult, Goto, HealthRecord
<1>7. /\ h'.pc \in {"set", "pop", "evict"}
      /\ h'.pc = "set" => value'[u] = "none"
      /\ h'.pc = "pop" => value'[u] # "req"
      /\ h'.pc = "pop" /\ faults' + crashes' = 0 => value'[u] = "res"
  <2>1. CASE DeleteRequest
    BY <1>1, <1>4, <2>1, Zenon DEF DeleteRequest, Goto, HealthRecord
  <2>2. CASE SetResult
    <3>1. h'.pc = "pop" /\ value[u] = "none"
      BY <1>1, <1>3, <2>2, Zenon DEF SetResult, Goto, HealthRecord
    <3>2. value'[u] = "res" \/ (value'[u] = "none" /\ faults' = faults + 1)
      BY <1>1, <1>4, <2>2, <3>1, Zenon DEF SetResult, Fault
    <3>3. faults' = faults + 1 => faults' + crashes' # 0
      BY <1>1, <1>2
    <3> QED BY <3>1, <3>2, <3>3, Zenon
  <2> QED BY <2>1, <2>2, Zenon
<1>8. faults' + crashes' = 0 => faults + crashes = 0
  <2>1. faults' >= faults /\ crashes' >= crashes
    BY <1>1, <1>2
  <2> QED BY <1>1, <2>1, NoFailureBefore, Zenon
<1>9. Settled \subseteq UUID /\ Range(complete) \subseteq Settled
  BY Apart, Zenon DEF Settled
<1> HIDE DEF u
<1>10. Listed'
  BY <1>2, <1>6, Zenon DEF ResultInv, Listed, Found
<1>11. Peeked'
  BY <1>2, <1>3, <1>6, <1>7, Zenon DEF Peeked
<1>12. Moved' /\ Kept'
  BY <1>2, <1>4, <1>5, <1>6, <1>9, Zenon DEF ResultInv, Moved, Kept
<1>13. Got'
  BY <1>2, <1>6, Zenon DEF ResultInv, Got
<1>14. Once'
  <2>1. \A s \in Thread : req[s].pc = "popc" => req[s].uuid \in Settled
    BY Zenon DEF ResultInv, Listed, Found
  <2> QED BY <1>2, <1>4, <1>5, <1>6, <1>9, <2>1, Zenon DEF ResultInv, Once, Answered
<1>15. AnswerIsResult' /\ AnsweredOnce'
  BY <1>2, Zenon DEF ResultInv, AnswerIsResult, AnsweredOnce
<1>16. ResultKept'
  BY <1>2, <1>4, <1>5, <1>8, <1>9 DEF ResultInv, ResultKept
<1> QED BY <1>10, <1>11, <1>12, <1>13, <1>14, <1>15, <1>16, Zenon DEF ResultInv

\* The move from list to list: the head is the UUID peeked at, or one that
\* overtook it.
LEMMA ResultMove ==
    ASSUME ConsInv, TypeInv', ResultInv, PopBuffered \/ PushComplete
    PROVE  ResultInv'
<1>1. TypeInv /\ h \in HealthRecord /\ buffer \in Seq(UUID) /\ complete \in Seq(UUID)
  BY FailureTypes, Zenon DEF ConsInv
<1>2. /\ UNCHANGED <<value, req, published, swallowed, overtook, taken, answers, faults, crashes>>
      /\ Reached' = Reached
  BY Zenon DEF PopBuffered, PushComplete, budget, history, Reached
<1>3. CASE PopBuffered
  <2>1. h.pc = "pop" /\ complete' = complete
    BY <1>3, Zenon DEF PopBuffered
  <2>2. /\ buffer # <<>> /\ Head(buffer) \in {h.uuid} \cup overtook /\ h.uuid \in Reached
        /\ value[h.uuid] # "req" /\ (faults + crashes = 0 => value[h.uuid] = "res")
    BY <2>1, Zenon DEF ResultInv, Peeked, PeekedPcs
  <2>3. h'.pc = "push" /\ h'.uuid = Head(buffer)
    BY <1>1, <1>3, <2>2, Zenon DEF PopBuffered, HealthRecord
  <2>4. Settled' = Settled /\ InHand = {} /\ InHand' = {Head(buffer)}
    BY <1>2, <2>1, <2>3, Zenon DEF Settled, InHand
  <2>5. Listed' /\ Got'
    BY <1>2, <2>4, Zenon DEF ResultInv, Listed, Found, Got
  <2>6. Peeked'
    BY <2>3, Zenon DEF Peeked, PeekedPcs
  <2>7. Moved' /\ Kept'
    BY <1>2, <2>2, <2>4, Zenon DEF ResultInv, Moved, Kept
  <2>8. Once'
    BY <1>2, <2>4, OnceKept, Zenon DEF ResultInv
  <2>9. AnswerIsResult' /\ AnsweredOnce' /\ ResultKept'
    BY <1>2, <2>1, Zenon DEF ResultInv, AnswerIsResult, AnsweredOnce, ResultKept
  <2> QED BY <2>5, <2>6, <2>7, <2>8, <2>9, Zenon DEF ResultInv
<1>4. CASE PushComplete
  <2> DEFINE u == h.uuid
  <2>1. h.pc = "push" /\ complete' = list_push(complete, u) /\ h'.pc = "unlock"
    BY <1>1, <1>4, Zenon DEF PushComplete, Goto, HealthRecord
  <2>2. u \in UUID /\ InHand = {u} /\ InHand' = {}
    BY <1>1, <2>1, Zenon DEF TypeInv, Locals, InHand
  <2> HIDE DEF u
  <2>3. Range(complete') = {u} \cup Range(complete)
    <3>1. u \in UUID /\ complete' = list_push(complete, u) /\ complete \in Seq(UUID)
      BY <1>1, <2>1, <2>2, Zenon
    <3> QED BY <3>1, PushProperties, Zenon
  <2>4. Settled' = Settled \cup {u}
    BY <1>2, <2>3, Zenon DEF Settled
  <2>5. Listed' /\ Got'
    BY <1>2, <2>4, Zenon DEF ResultInv, Listed, Found, Got
  <2>6. Peeked'
    BY <2>1, Zenon DEF Peeked, PeekedPcs
  <2>7. Moved' /\ Kept'
    BY <1>2, <2>2, <2>4, Zenon DEF ResultInv, Moved, Kept
  <2>8. Once'
    BY <1>2, <2>4, OnceKept, Zenon DEF ResultInv
  <2>9. AnswerIsResult' /\ AnsweredOnce'
    BY <1>2, Zenon DEF ResultInv, AnswerIsResult, AnsweredOnce
  <2>10. ResultKept'
    BY <1>2, <2>2, <2>3, Zenon DEF ResultInv, ResultKept, Kept
  <2> QED BY <2>5, <2>6, <2>7, <2>8, <2>9, <2>10, Zenon DEF ResultInv
<1> QED BY <1>3, <1>4, Zenon

\* A crash: redis keeps what it has, and nobody is fetching any more.
LEMMA ResultCrash ==
    ASSUME ConsInv, TypeInv', ResultInv, Crash
    PROVE  ResultInv'
<1>1. /\ UNCHANGED <<buffer, complete, value, published, swallowed, overtook, taken, answers>>
      /\ Settled' = Settled /\ Reached' = Reached /\ crashes' = crashes + 1 /\ faults' = faults
  BY Zenon DEF Crash, store, Settled, Reached
<1>2. h'.pc = "txn" /\ InHand' = {}
  BY StartingType, Zenon DEF Crash, InHand
<1>3. \A t \in Thread : req'[t].pc = "idle"
  BY IdlePc, Zenon DEF Crash
<1>4. faults' + crashes' # 0
  <2>1. faults \in Nat /\ crashes \in Nat
    BY FailureTypes, Zenon DEF ConsInv
  <2> QED BY <1>1, <2>1
<1>5. Listed' /\ Peeked' /\ Got' /\ Kept'
  BY <1>2, <1>3, <1>4, Zenon DEF Listed, Found, Peeked, PeekedPcs, Got, Kept
<1>6. Moved' /\ Once'
  BY <1>1, <1>2, <1>3, Zenon DEF ResultInv, Moved, Once
<1>7. AnswerIsResult' /\ AnsweredOnce' /\ ResultKept'
  BY <1>1, <1>4, Zenon DEF ResultInv, AnswerIsResult, AnsweredOnce, ResultKept
<1> QED BY <1>5, <1>6, <1>7, Zenon DEF ResultInv

\* Nothing has been published or handed out at first.
LEMMA ResultInvInit == Init => ResultInv
<1> SUFFICES ASSUME Init PROVE ResultInv
  BY Zenon
<1>1. \A t \in Thread : req[t].pc = "idle"
  BY IdlePc, Zenon DEF Init
<1>2. h.pc = "txn" /\ InHand = {}
  BY StartingType, Zenon DEF Init, InHand
<1>3. Range(<<>>) = {} /\ Len(<<>>) = 0
  BY DEF Range
<1>4. Settled = {} /\ answers = <<>> /\ complete = <<>> /\ 1..Len(answers) = {}
  BY <1>3 DEF Init, Settled
<1>5. Listed /\ Peeked /\ Moved /\ Got /\ Kept
  BY <1>1, <1>2, <1>4, Zenon DEF Listed, Found, Peeked, PeekedPcs, Moved, Got, Kept
<1>6. Once
  BY <1>1, <1>4, Zenon DEF Once
<1>7. AnswerIsResult /\ AnsweredOnce /\ ResultKept
  BY <1>3, <1>4, Zenon DEF AnswerIsResult, AnsweredOnce, ResultKept
<1> QED BY <1>5, <1>6, <1>7, Zenon DEF ResultInv

\* Every step keeps the invariant of the results.
LEMMA ResultInvStep == ConsInv /\ ConsInv' /\ ResultInv /\ [Next]_vars => ResultInv'
<1> SUFFICES ASSUME ConsInv, ConsInv', ResultInv, [Next]_vars PROVE ResultInv'
  BY Zenon
<1>1. TypeInv'
  BY Zenon DEF ConsInv
<1>2. CASE UNCHANGED vars
  <2>1. /\ UNCHANGED <<buffer, complete, value, req, h, published, swallowed, overtook, taken, answers, faults, crashes>>
        /\ Settled' = Settled /\ Reached' = Reached /\ InHand' = InHand
    BY <1>2, Zenon DEF vars, store, budget, history, Settled, Reached, InHand
  <2>2. Listed' /\ Peeked' /\ Moved' /\ Got' /\ Kept'
    BY <2>1, Zenon DEF ResultInv, Listed, Found, Peeked, Moved, Got, Kept
  <2>3. Once'
    BY <2>1, OnceKept, Zenon DEF ResultInv
  <2>4. AnswerIsResult' /\ AnsweredOnce' /\ ResultKept'
    BY <2>1, Zenon DEF ResultInv, AnswerIsResult, AnsweredOnce, ResultKept
  <2> QED BY <2>2, <2>3, <2>4, Zenon DEF ResultInv
<1>3. ASSUME NEW t \in Thread,
             \/ SetRequest(t) \/ FetchTxn(t) \/ HttpStep(t)
             \/ PushRequestFails(t) \/ TxnScanFails(t) \/ FetchFails(t)
      PROVE  ResultInv'
  BY <1>1, <1>3, ResultFetch, ResultSet, ResultPush, ResultDelete, ResultPop, Zenon DEF HttpStep, FetchLocal
<1>4. CASE HealthStep \/ BroadcastFails
  BY <1>1, <1>4, ResultBroadcast, ResultReplace, ResultMove, Zenon DEF HealthStep
<1>5. CASE Crash
  BY <1>1, <1>5, ResultCrash, Zenon
<1> QED BY <1>2, <1>3, <1>4, <1>5, Zenon DEF Next

-----------------------------------------------------------------------------
(* The lock.                                                                 *)

\* A thread inside the read section holds a read lock.
LEMMA ReaderHolds ==
    ASSUME TypeOK, MoveUnseen, NEW t \in Readers
    PROVE  readers > 0 /\ ~writer
<1>1. IsFiniteSet(Readers)
  BY MamBufferAssumption, FS_Subset, Zenon DEF Readers
<1>2. Cardinality(Readers) # 0 /\ Cardinality(Readers) \in Nat
  BY <1>1, FS_EmptySet, FS_CardinalityType, Zenon
<1> QED BY <1>2 DEF TypeOK, LockTypeOK, MoveUnseen

\* The number of threads in the read section follows the lock in and out.
LEMMA ReaderMoves ==
    ASSUME TypeOK, MoveUnseen, NEW t \in Thread,
           \/ t \notin Readers /\ Readers' = Readers \cup {t} /\ readers' = readers + 1
           \/ t \in Readers /\ Readers' = Readers \ {t} /\ readers' \in {readers - 1, readers}
    PROVE  Cardinality(Readers') <= readers'
<1>1. IsFiniteSet(Readers)
  BY MamBufferAssumption, FS_Subset, Zenon DEF Readers
<1>2. Cardinality(Readers) \in Nat
  BY <1>1, FS_CardinalityType, Zenon
<1>3. CASE t \notin Readers /\ Readers' = Readers \cup {t} /\ readers' = readers + 1
  <2>1. Cardinality(Readers') = Cardinality(Readers) + 1
    BY <1>1, <1>3, FS_AddElement, Zenon
  <2> QED BY <1>2, <1>3, <2>1 DEF TypeOK, LockTypeOK, MoveUnseen
<1>4. CASE t \in Readers /\ Readers' = Readers \ {t} /\ readers' \in {readers - 1, readers}
  <2>1. Cardinality(Readers') = Cardinality(Readers) - 1
    BY <1>1, <1>4, FS_RemoveElement, Zenon
  <2> QED BY <1>2, <1>4, <2>1 DEF TypeOK, LockTypeOK, MoveUnseen
<1> QED BY <1>3, <1>4, Zenon

\* A step of one HTTP thread keeps the invariant when its new locals r fit the
\* place it goes to and the lock follows the thread into and out of the read
\* section.  It may leave the section without unlocking: the code does.
LEMMA HttpFrame ==
    ASSUME TypeInv, StoreTyped', NEW t \in Thread, NEW r \in ReqRecord,
           req' = [req EXCEPT ![t] = r], h' = h, issued \subseteq issued',
           r.pc # "idle" => r.uuid \in issued',
           \/ r.pc \in ReadPcs /\ req[t].pc \in ReadPcs /\ UNCHANGED lock
           \/ r.pc \in ReadPcs /\ req[t].pc \notin ReadPcs /\ tryrdlock
           \/ r.pc \notin ReadPcs /\ req[t].pc \in ReadPcs /\ (rdunlock \/ UNCHANGED lock)
           \/ r.pc \notin ReadPcs /\ req[t].pc \notin ReadPcs /\ UNCHANGED lock
    PROVE  TypeInv'
<1>1. req \in [Thread -> ReqRecord] /\ h \in HealthRecord /\ LockTypeOK
  BY Zenon DEF TypeInv, TypeOK
<1>2. req' \in [Thread -> ReqRecord] /\ req'[t] = r /\ \A s \in Thread \ {t} : req'[s] = req[s]
  BY <1>1, Zenon
<1>3. TypeOK /\ Locals /\ MoveUnseen
  BY Zenon DEF TypeInv
<1>4. Locals'
  BY <1>2, <1>3, Zenon DEF Locals
<1>5. LockTypeOK' /\ MoveUnseen'
  <2>1. CASE (r.pc \in ReadPcs <=> req[t].pc \in ReadPcs) /\ UNCHANGED lock
    <3>1. Readers' = Readers
      BY <1>2, <2>1, Zenon DEF Readers
    <3> QED BY <1>1, <1>3, <2>1, <3>1, Zenon DEF MoveUnseen, LockTypeOK, lock
  <2>2. CASE r.pc \in ReadPcs /\ req[t].pc \notin ReadPcs /\ tryrdlock
    <3>1. t \notin Readers /\ Readers' = Readers \cup {t}
      BY <1>2, <2>2, Zenon DEF Readers
    <3>2. Cardinality(Readers') <= readers'
      BY <1>3, <2>2, <3>1, ReaderMoves, Zenon DEF tryrdlock
    <3> QED BY <1>1, <1>3, <2>2, <3>2, MaxReadersAssumption DEF MoveUnseen, LockTypeOK, tryrdlock
  <2>3. CASE r.pc \notin ReadPcs /\ req[t].pc \in ReadPcs /\ (rdunlock \/ UNCHANGED lock)
    <3>1. t \in Readers /\ Readers' = Readers \ {t}
      BY <1>2, <2>3, Zenon DEF Readers
    <3>2. readers > 0 /\ ~writer
      BY <1>3, <3>1, ReaderHolds, Zenon
    <3>3. Cardinality(Readers') <= readers'
      BY <1>3, <2>3, <3>1, ReaderMoves, Zenon DEF rdunlock, lock
    <3> QED BY <1>1, <1>3, <2>3, <3>2, <3>3, MaxReadersAssumption DEF MoveUnseen, LockTypeOK, rdunlock, lock
  <2> QED BY <2>1, <2>2, <2>3, Zenon
<1>6. TypeOK'
  BY <1>1, <1>2, <1>5, Zenon DEF TypeOK, StoreTyped
<1> QED BY <1>4, <1>5, <1>6, Zenon DEF TypeInv

\* The places where the health thread holds the write lock.
WritePcs == {"txncs", "del", "set", "pop", "push", "unlock", "evictcs"}

\* The same for a step of the health thread with new locals r.
LEMMA HealthFrame ==
    ASSUME TypeInv, StoreTyped', NEW r \in HealthRecord,
           h' = r, req' = req, issued' = issued,
           r.pc \in PeekedPcs \cup {"push"} => r.uuid \in UUID,
           \/ (r.pc \in WritePcs => h.pc \in WritePcs) /\ UNCHANGED lock
           \/ trywrlock
           \/ r.pc \notin WritePcs /\ h.pc \in WritePcs /\ wrunlock
    PROVE  TypeInv'
<1>1. req \in [Thread -> ReqRecord] /\ LockTypeOK /\ Locals /\ MoveUnseen /\ TypeOK
  BY Zenon DEF TypeInv, TypeOK
<1>2. Locals'
  BY <1>1, Zenon DEF Locals
<1>3. Readers' = Readers
  BY Zenon DEF Readers
<1>4. LockTypeOK' /\ MoveUnseen'
  <2>1. CASE (r.pc \in WritePcs => h.pc \in WritePcs) /\ UNCHANGED lock
    BY <1>1, <1>3, <2>1, Zenon DEF MoveUnseen, LockTypeOK, lock, WritePcs
  <2>2. CASE trywrlock
    <3>1. Readers = {}
      BY <1>1, <2>2, ReaderHolds DEF trywrlock
    <3> QED BY <1>1, <1>3, <2>2, <3>1, Zenon DEF MoveUnseen, LockTypeOK, trywrlock
  <2>3. CASE r.pc \notin WritePcs /\ h.pc \in WritePcs /\ wrunlock
    BY <1>1, <1>3, <2>3, Zenon DEF MoveUnseen, LockTypeOK, wrunlock, WritePcs
  <2> QED BY <2>1, <2>2, <2>3, Zenon
<1>5. TypeOK'
  BY <1>1, <1>4, Zenon DEF TypeOK, StoreTyped
<1> QED BY <1>2, <1>4, <1>5, Zenon DEF TypeInv

\* The assignments to the locals of the health thread keep them a record.
LEMMA HealthUpdate ==
    ASSUME NEW r \in HealthRecord, NEW p \in HealthPc, NEW u \in UUID
    PROVE  /\ LET q == [r EXCEPT !.pc = p] IN
              q \in HealthRecord /\ q.pc = p /\ q.uuid = r.uuid
           /\ LET q == [r EXCEPT !.pc = p, !.uuid = u] IN
              q \in HealthRecord /\ q.pc = p /\ q.uuid = u
BY Zenon DEF HealthRecord

\* Every step of an HTTP thread that accepts a request keeps the invariant.
LEMMA AcceptTypes ==
    ASSUME TypeInv, NEW t \in Thread, SetRequest(t) \/ PushRequest(t) \/ PushRequestFails(t)
    PROVE  TypeInv'
<1>1. StoreTyped /\ req \in [Thread -> ReqRecord] /\ req[t] \in ReqRecord
  BY Zenon DEF TypeInv, TypeOK, StoreTyped
<1>2. req[t].pc # "idle" => req[t].uuid \in issued /\ req[t].uuid \in UUID
  BY <1>1, Zenon DEF TypeInv, Locals, StoreTyped
<1>3. CASE SetRequest(t)
  <2>1. PICK u \in UUID \ issued :
           /\ issued' = issued \cup {u} /\ req' = [req EXCEPT ![t] = [Idle EXCEPT !.pc = "push", !.uuid = u]]
           /\ \/ value' = [value EXCEPT ![u] = "req"] /\ UNCHANGED budget
              \/ Fault /\ UNCHANGED value
    BY <1>3, Zenon DEF SetRequest
  <2> DEFINE r == [Idle EXCEPT !.pc = "push", !.uuid = u]
  <2>2. r \in ReqRecord /\ r.pc = "push" /\ r.uuid = u
    <3>1. "push" \in ReqPc
      BY Zenon DEF ReqPc
    <3> QED BY <3>1, IdleType, Zenon
  <2>3. value' \in [UUID -> Value]
    BY <1>1, <2>1, Zenon DEF StoreTyped, Value
  <2>4. faults' \in 0..MaxFaults /\ crashes' \in 0..MaxCrashes
    BY <1>1, <2>1, MamBufferAssumption DEF StoreTyped, Fault, budget
  <2>5. /\ UNCHANGED <<lock, buffer, complete, h, pushed, published, swallowed, overtook, taken, dropped, answers>>
        /\ req[t].pc = "idle"
    BY <1>3, Zenon DEF SetRequest
  <2>6. StoreTyped'
    BY <1>1, <2>1, <2>3, <2>4, <2>5, Zenon DEF StoreTyped
  <2>7. req' = [req EXCEPT ![t] = r] /\ u \in issued' /\ issued \subseteq issued'
    BY <2>1, Zenon
  <2> HIDE DEF r
  <2> QED BY <2>2, <2>5, <2>6, <2>7, HttpFrame, Zenon DEF ReadPcs
<1>4. CASE PushRequest(t)
  <2>1. req[t].pc = "push" /\ req[t].uuid \in issued /\ req[t].uuid \in UUID
    BY <1>2, <1>4, Zenon DEF PushRequest
  <2>2. list_push(buffer, req[t].uuid) \in Seq(UUID)
    BY <1>1, <2>1, PushProperties, Zenon DEF StoreTyped
  <2>3. StoreTyped' /\ h' = h /\ UNCHANGED lock /\ issued' = issued
    BY <1>1, <1>4, <2>1, <2>2, Zenon DEF PushRequest, StoreTyped, budget
  <2> QED BY <1>4, <2>1, <2>3, IdleType, HttpFrame, Zenon DEF PushRequest, Return, ReadPcs
<1>5. CASE PushRequestFails(t)
  <2>1. StoreTyped' /\ h' = h /\ UNCHANGED lock /\ issued' = issued
    BY <1>1, <1>5, MamBufferAssumption DEF PushRequestFails, Fault, StoreTyped, store, history
  <2> QED BY <1>5, <2>1, IdleType, HttpFrame, Zenon DEF PushRequestFails, Return, ReadPcs
<1> QED BY <1>3, <1>4, <1>5, Zenon

\* The steps of FetchLocal keep the invariant: in particular every path takes and releases the
\* read lock as HttpFrame wants it.
LEMMA FetchTypes ==
    ASSUME TypeInv, NEW t \in Thread, FetchLocal(t)
    PROVE  TypeInv'
<1>1. StoreTyped /\ req \in [Thread -> ReqRecord] /\ req[t] \in ReqRecord
  BY Zenon DEF TypeInv, TypeOK, StoreTyped
<1>2. req[t].pc # "idle" => req[t].uuid \in issued /\ req[t].uuid \in UUID
  BY <1>1, Zenon DEF TypeInv, Locals, StoreTyped
<1>3. Len(buffer) \in Nat /\ Len(complete) \in Nat /\ 0 \in Nat
  BY <1>1, LenProperties, Zenon DEF StoreTyped
<1>4. StoreTyped' /\ h' = h /\ issued \subseteq issued' /\ issued' = issued
  <2>1. UNCHANGED <<store, h, budget, history>>
    BY Zenon DEF FetchLocal, FetchTxn, NotInTxnLists, TxnScanFails, FetchMam, BufferLen, ScanBuffer, AnswerUnsent,
           CompleteLen, ScanComplete, AnswerNotExist, FoundSent, GetResult
  <2> QED BY <1>1, <2>1, Zenon DEF StoreTyped, store, budget, history
<1>5. CASE FetchTxn(t)
  <2>1. PICK u \in pushed : req' = [req EXCEPT ![t] = [Idle EXCEPT !.pc = "txn", !.uuid = u]]
    BY <1>5, Zenon DEF FetchTxn
  <2> DEFINE r == [Idle EXCEPT !.pc = "txn", !.uuid = u]
  <2>2. u \in UUID /\ u \in issued
    BY <1>1, Zenon DEF StoreTyped
  <2>3. r \in ReqRecord /\ r.pc = "txn" /\ r.uuid = u
    <3>1. "txn" \in ReqPc
      BY Zenon DEF ReqPc
    <3> QED BY <2>2, <3>1, IdleType, Zenon
  <2>4. req' = [req EXCEPT ![t] = r]
    BY <2>1, Zenon
  <2> HIDE DEF r
  <2> QED BY <1>4, <1>5, <2>2, <2>3, <2>4, HttpFrame, Zenon DEF FetchTxn, ReadPcs
<1>6. CASE NotInTxnLists(t) /\ req' = [req EXCEPT ![t].pc = "mam"]
  <2> DEFINE r == [req[t] EXCEPT !.pc = "mam"]
  <2>1. r \in ReqRecord /\ r.pc = "mam" /\ r.uuid = req[t].uuid
    <3>1. "mam" \in ReqPc
      BY Zenon DEF ReqPc
    <3> QED BY <1>1, <1>3, <3>1, Zenon DEF ReqRecord
  <2>2. req' = [req EXCEPT ![t] = r] /\ req[t].pc = "txn"
    BY <1>1, <1>6, Zenon DEF NotInTxnLists, ReqRecord
  <2> HIDE DEF r
  <2> QED BY <1>2, <1>4, <1>6, <2>1, <2>2, HttpFrame, Zenon DEF NotInTxnLists, ReadPcs
<1>7. CASE FetchMam(t) /\ ~Return(t)
  <2> DEFINE r == [req[t] EXCEPT !.pc = "llen_b"]
  <2>1. r \in ReqRecord /\ r.pc = "llen_b" /\ r.uuid = req[t].uuid
    <3>1. "llen_b" \in ReqPc
      BY Zenon DEF ReqPc
    <3> QED BY <1>1, <1>3, <3>1, Zenon DEF ReqRecord
  <2>2. req' = [req EXCEPT ![t] = r] /\ req[t].pc = "mam" /\ tryrdlock
    BY <1>1, <1>7, Zenon DEF FetchMam, ReqRecord
  <2> HIDE DEF r
  <2> QED BY <1>2, <1>4, <2>1, <2>2, HttpFrame, Zenon DEF ReadPcs
<1>8. CASE BufferLen(t)
  <2> DEFINE r == [req[t] EXCEPT !.pc = "scan_b", !.len = Len(buffer)]
  <2>1. r \in ReqRecord /\ r.pc = "scan_b" /\ r.uuid = req[t].uuid
    <3>1. "scan_b" \in ReqPc
      BY Zenon DEF ReqPc
    <3> QED BY <1>1, <1>3, <3>1, Zenon DEF ReqRecord
  <2>2. req' = [req EXCEPT ![t] = r] /\ req[t].pc = "llen_b"
    BY <1>1, <1>8, Zenon DEF BufferLen, ReqRecord
  <2> HIDE DEF r
  <2> QED BY <1>2, <1>4, <1>8, <2>1, <2>2, HttpFrame, Zenon DEF BufferLen, ReadPcs
<1>9. CASE CompleteLen(t)
  <2> DEFINE r == [req[t] EXCEPT !.pc = "scan_c", !.idx = 0, !.len = Len(complete)]
  <2>1. r \in ReqRecord /\ r.pc = "scan_c" /\ r.uuid = req[t].uuid
    <3>1. "scan_c" \in ReqPc
      BY Zenon DEF ReqPc
    <3> QED BY <1>1, <1>3, <3>1, Zenon DEF ReqRecord
  <2>2. req' = [req EXCEPT ![t] = r] /\ req[t].pc = "scan_b"
    BY <1>1, <1>9, Zenon DEF CompleteLen, ReqRecord
  <2> HIDE DEF r
  <2> QED BY <1>2, <1>4, <1>9, <2>1, <2>2, HttpFrame, Zenon DEF CompleteLen, ReadPcs
<1>10. CASE FoundSent(t)
  <2> DEFINE r == [req[t] EXCEPT !.pc = "get"]
  <2>1. r \in ReqRecord /\ r.pc = "get" /\ r.uuid = req[t].uuid
    <3>1. "get" \in ReqPc
      BY Zenon DEF ReqPc
    <3> QED BY <1>1, <1>3, <3>1, Zenon DEF ReqRecord
  <2>2. req' = [req EXCEPT ![t] = r] /\ req[t].pc = "scan_c"
    BY <1>1, <1>10, Zenon DEF FoundSent, ReqRecord
  <2> HIDE DEF r
  <2> QED BY <1>2, <1>4, <1>10, <2>1, <2>2, HttpFrame, Zenon DEF FoundSent, ReadPcs
<1>11. CASE ScanBuffer(t)
  BY <1>1, <1>2, <1>4, <1>11, ExistStepType, HttpFrame, Zenon DEF ScanBuffer, ReadPcs
<1>12. CASE ScanComplete(t)
  BY <1>1, <1>2, <1>4, <1>12, ExistStepType, HttpFrame, Zenon DEF ScanComplete, ReadPcs
<1>13. CASE GetResult(t) /\ ~Return(t)
  <2> DEFINE v == value[req[t].uuid]
             r == [req[t] EXCEPT !.pc = "del", !.got = v]
  <2>1. req' = [req EXCEPT ![t] = r] /\ req[t].pc = "get" /\ UNCHANGED lock
    BY <1>1, <1>13, Zenon DEF GetResult, ReqRecord
  <2>2. v \in Value
    BY <1>1, <1>2, <2>1, Zenon DEF StoreTyped
  <2> HIDE DEF v
  <2>3. r \in ReqRecord /\ r.pc = "del" /\ r.uuid = req[t].uuid
    <3>1. "del" \in ReqPc
      BY Zenon DEF ReqPc
    <3> QED BY <1>1, <1>3, <2>2, <3>1, Zenon DEF ReqRecord
  <2> HIDE DEF r
  <2> QED BY <1>2, <1>4, <2>1, <2>3, HttpFrame, Zenon DEF ReadPcs
<1>14. CASE /\ Return(t)
            /\ \/ req[t].pc \in ReadPcs /\ (rdunlock \/ UNCHANGED lock)
               \/ req[t].pc \notin ReadPcs /\ UNCHANGED lock
  BY <1>4, <1>14, IdleType, HttpFrame, Zenon DEF Return, ReadPcs
<1>15. ASSUME Return(t), ~FetchTxn(t)
       PROVE  \/ req[t].pc \in ReadPcs /\ (rdunlock \/ UNCHANGED lock)
              \/ req[t].pc \notin ReadPcs /\ UNCHANGED lock
  <2>1. ASSUME BufferLen(t) \/ ScanBuffer(t) \/ CompleteLen(t) \/ ScanComplete(t)
        PROVE  req[t].pc \in ReadPcs /\ UNCHANGED lock
    BY <2>1, Zenon DEF BufferLen, ScanBuffer, CompleteLen, ScanComplete, ReadPcs
  <2>2. ASSUME NotInTxnLists(t) \/ TxnScanFails(t) \/ AnswerUnsent(t) \/ AnswerNotExist(t) \/ FoundSent(t)
        PROVE  req[t].pc \in ReadPcs /\ (rdunlock \/ UNCHANGED lock)
    BY <2>2, Zenon DEF NotInTxnLists, TxnScanFails, AnswerUnsent, AnswerNotExist, FoundSent, ReadPcs
  <2>3. ASSUME GetResult(t)
        PROVE  req[t].pc \notin ReadPcs /\ UNCHANGED lock
    BY <2>3, Zenon DEF GetResult, ReadPcs
  <2>4. ASSUME FetchMam(t)
        PROVE  req[t].pc \notin ReadPcs /\ UNCHANGED lock
    <3>1. Idle.pc # "llen_b" /\ req'[t] = Idle /\ req[t].pc = "mam"
      BY <1>1, <1>15, <2>4, IdleType, Zenon DEF Return, FetchMam
    <3>2. req' # [req EXCEPT ![t].pc = "llen_b"]
      BY <1>1, <3>1 DEF ReqRecord
    <3> QED BY <2>4, <3>1, <3>2, Zenon DEF FetchMam, ReadPcs
  <2> QED BY <1>15, <2>1, <2>2, <2>3, <2>4, Zenon DEF FetchLocal
<1>16. ASSUME ~Return(t)
       PROVE  /\ ~TxnScanFails(t) /\ ~AnswerUnsent(t) /\ ~AnswerNotExist(t)
              /\ NotInTxnLists(t) => req' = [req EXCEPT ![t].pc = "mam"]
  BY <1>16, Zenon DEF NotInTxnLists, TxnScanFails, AnswerUnsent, AnswerNotExist
<1> QED
  BY <1>5, <1>6, <1>7, <1>8, <1>9, <1>10, <1>11, <1>12, <1>13, <1>14, <1>15, <1>16, Zenon DEF FetchLocal

\* The end of the fetch, and error replies of redis during it.
LEMMA FetchEndTypes ==
    ASSUME TypeInv, NEW t \in Thread, DeleteResult(t) \/ PopComplete(t) \/ FetchFails(t)
    PROVE  TypeInv'
<1>1. StoreTyped /\ req \in [Thread -> ReqRecord] /\ req[t] \in ReqRecord
  BY Zenon DEF TypeInv, TypeOK, StoreTyped
<1>2. req[t].pc # "idle" => req[t].uuid \in issued /\ req[t].uuid \in UUID
  BY <1>1, Zenon DEF TypeInv, Locals, StoreTyped
<1>3. CASE DeleteResult(t)
  <2>1. req[t].pc = "del" /\ UNCHANGED lock /\ h' = h /\ issued' = issued
    BY <1>3, Zenon DEF DeleteResult, history
  <2>2. StoreTyped'
    <3>1. value' \in [UUID -> Value]
      BY <1>1, <1>2, <1>3, <2>1, Zenon DEF DeleteResult, StoreTyped, Value
    <3> QED BY <1>1, <1>3, <3>1, Zenon DEF DeleteResult, StoreTyped, budget, history
  <2>3. CASE Return(t)
    BY <2>1, <2>2, <2>3, IdleType, HttpFrame, Zenon DEF Return, ReadPcs
  <2>4. CASE req' = [req EXCEPT ![t].pc = "popc"]
    <3> DEFINE r == [req[t] EXCEPT !.pc = "popc"]
    <3>1. r \in ReqRecord /\ r.pc = "popc" /\ r.uuid = req[t].uuid
      <4>1. "popc" \in ReqPc
        BY Zenon DEF ReqPc
      <4> QED BY <1>1, <4>1, Zenon DEF ReqRecord
    <3>2. req' = [req EXCEPT ![t] = r]
      BY <1>1, <2>4, Zenon DEF ReqRecord
    <3> HIDE DEF r
    <3> QED BY <1>2, <2>1, <2>2, <3>1, <3>2, HttpFrame, Zenon DEF ReadPcs
  <2> QED BY <1>3, <2>3, <2>4, Zenon DEF DeleteResult
<1>4. CASE PopComplete(t)
  <2>1. req[t].pc = "popc" /\ UNCHANGED lock /\ h' = h /\ issued' = issued /\ req[t].uuid \in UUID /\ req[t].got \in Value
    BY <1>1, <1>2, <1>4, Zenon DEF PopComplete, ReqRecord
  <2>2. StoreTyped'
    <3>1. CASE complete # <<>>
      <4>1. list_pop(complete) \in Seq(UUID) /\ Head(complete) \in UUID
        BY <1>1, <3>1, PopProperties, Zenon DEF StoreTyped
      <4>2. Append(answers, <<req[t].uuid, req[t].got>>) \in Seq(UUID \X Value)
        BY <1>1, <2>1 DEF StoreTyped
      <4>3. /\ complete' = list_pop(complete) /\ taken' = taken \cup {Head(complete)}
            /\ answers' = Append(answers, <<req[t].uuid, req[t].got>>)
            /\ UNCHANGED <<buffer, value, faults, crashes, issued, pushed, published, swallowed, overtook, dropped>>
        BY <1>4, <3>1, Zenon DEF PopComplete, budget
      <4>4. taken' \subseteq UUID
        BY <1>1, <4>1, <4>3, Zenon DEF StoreTyped
      <4> QED BY <1>1, <4>1, <4>2, <4>3, <4>4, Zenon DEF StoreTyped
    <3>2. CASE complete = <<>>
      BY <1>1, <1>4, <3>2, Zenon DEF PopComplete, StoreTyped, budget
    <3> QED BY <3>1, <3>2, Zenon
  <2> QED BY <1>4, <2>1, <2>2, IdleType, HttpFrame, Zenon DEF PopComplete, Return, ReadPcs
<1>5. CASE FetchFails(t)
  <2>1. UNCHANGED lock /\ h' = h /\ issued' = issued /\ StoreTyped'
    BY <1>1, <1>5, MamBufferAssumption DEF FetchFails, Fault, StoreTyped, store, history
  <2>2. CASE Return(t) /\ req[t].pc \in {"get", "del", "popc"}
    BY <2>1, <2>2, IdleType, HttpFrame, Zenon DEF Return, ReadPcs
  <2>3. CASE req[t].pc = "llen_b" /\ req' = [req EXCEPT ![t].pc = "scan_b", ![t].err = TRUE]
    <3> DEFINE r == [req[t] EXCEPT !.pc = "scan_b", !.err = TRUE]
    <3>1. r \in ReqRecord /\ r.pc = "scan_b" /\ r.uuid = req[t].uuid
      <4>1. "scan_b" \in ReqPc /\ "scan_c" \in ReqPc /\ 0 \in Nat /\ req[t].idx + 1 \in Nat
        BY <1>1 DEF ReqPc, ReqRecord
      <4> QED BY <1>1, <4>1, Zenon DEF ReqRecord
    <3>2. req' = [req EXCEPT ![t] = r]
      BY <1>1, <2>3, Zenon DEF ReqRecord
    <3> HIDE DEF r
    <3> QED BY <1>2, <2>1, <2>3, <3>1, <3>2, HttpFrame, Zenon DEF ReadPcs
  <2>4. CASE /\ req[t].pc = "scan_b"
             /\ req' = [req EXCEPT ![t].pc = "scan_c", ![t].idx = 0, ![t].len = 0, ![t].err = TRUE]
    <3> DEFINE r == [req[t] EXCEPT !.pc = "scan_c", !.idx = 0, !.len = 0, !.err = TRUE]
    <3>1. r \in ReqRecord /\ r.pc = "scan_c" /\ r.uuid = req[t].uuid
      <4>1. "scan_b" \in ReqPc /\ "scan_c" \in ReqPc /\ 0 \in Nat /\ req[t].idx + 1 \in Nat
        BY <1>1 DEF ReqPc, ReqRecord
      <4> QED BY <1>1, <4>1, Zenon DEF ReqRecord
    <3>2. req' = [req EXCEPT ![t] = r]
      BY <1>1, <2>4, Zenon DEF ReqRecord
    <3> HIDE DEF r
    <3> QED BY <1>2, <2>1, <2>4, <3>1, <3>2, HttpFrame, Zenon DEF ReadPcs
  <2>5. CASE /\ req[t].pc \in {"scan_b", "scan_c"}
             /\ req' = [req EXCEPT ![t].idx = @ + 1, ![t].err = TRUE]
    <3> DEFINE r == [req[t] EXCEPT !.idx = req[t].idx + 1, !.err = TRUE]
    <3>1. r \in ReqRecord /\ r.pc = req[t].pc /\ r.uuid = req[t].uuid
      <4>1. "scan_b" \in ReqPc /\ "scan_c" \in ReqPc /\ 0 \in Nat /\ req[t].idx + 1 \in Nat
        BY <1>1 DEF ReqPc, ReqRecord
      <4> QED BY <1>1, <4>1, Zenon DEF ReqRecord
    <3>2. req' = [req EXCEPT ![t] = r]
      BY <1>1, <2>5, Zenon DEF ReqRecord
    <3> HIDE DEF r
    <3> QED BY <1>2, <2>1, <2>5, <3>1, <3>2, HttpFrame, Zenon DEF ReadPcs
  <2> QED BY <1>5, <2>2, <2>3, <2>4, <2>5, ZenonT(30) DEF FetchFails
<1> QED BY <1>3, <1>4, <1>5, Zenon

\* Every step of the health thread keeps the invariant.
LEMMA HealthTypes ==
    ASSUME TypeInv, HealthStep \/ BroadcastFails
    PROVE  TypeInv'
<1>1. StoreTyped /\ h \in HealthRecord
  BY Zenon DEF TypeInv, TypeOK, StoreTyped
<1>2. h.pc \in PeekedPcs \cup {"push"} => h.uuid \in UUID
  BY Zenon DEF TypeInv, Locals
<1>3. req' = req /\ issued' = issued
  BY Zenon DEF HealthStep, BroadcastTxn, BroadcastTxnDone, BufferedLen, PeekUuid, GetRequest, Publish, PublishFails,
         LockForMove, DeleteRequest, SetResult, PopBuffered, PushComplete, UnlockMoved, Evict, EvictUnlock,
         BroadcastFails, history
<1> DEFINE To(p) == [h EXCEPT !.pc = p]
<1>4. ASSUME NEW p \in HealthPc
      PROVE  To(p) \in HealthRecord /\ To(p).pc = p /\ To(p).uuid = h.uuid
  BY <1>1, Zenon DEF HealthRecord
<1>5. ASSUME UNCHANGED <<store, budget, history>>
      PROVE  StoreTyped'
  BY <1>1, <1>5, Zenon DEF StoreTyped, store, budget, history
<1> HIDE DEF To
<1>6. CASE BroadcastTxn \/ BroadcastTxnDone \/ BufferedLen \/ UnlockMoved \/ EvictUnlock
  <2>1. StoreTyped'
    BY <1>5, <1>6, Zenon DEF BroadcastTxn, BroadcastTxnDone, BufferedLen, UnlockMoved, EvictUnlock
  <2>2. CASE BroadcastTxn
    <3>1. PICK p \in {"txncs", "llen", "evict"} : h' = To(p) /\ (p = "txncs" => trywrlock) /\ (p # "txncs" => UNCHANGED lock)
      BY <2>2, Zenon DEF BroadcastTxn, Goto, To
    <3>2. p \in HealthPc
      BY Zenon DEF HealthPc
    <3> QED BY <1>3, <1>4, <2>1, <3>1, <3>2, HealthFrame, Zenon DEF PeekedPcs, WritePcs
  <2>3. CASE BroadcastTxnDone \/ UnlockMoved \/ EvictUnlock
    <3>1. PICK p \in {"txn", "llen", "evict"} : h' = To(p) /\ wrunlock /\ h.pc \in WritePcs
      BY <2>3, Zenon DEF BroadcastTxnDone, UnlockMoved, EvictUnlock, Goto, To, WritePcs
    <3>2. p \in HealthPc
      BY Zenon DEF HealthPc
    <3> QED BY <1>3, <1>4, <2>1, <3>1, <3>2, HealthFrame DEF PeekedPcs, WritePcs
  <2>4. CASE BufferedLen
    <3>1. PICK p \in {"peek", "evict"} : h' = To(p) /\ UNCHANGED lock
      BY <2>4, Zenon DEF BufferedLen, Goto, To
    <3>2. p \in HealthPc
      BY Zenon DEF HealthPc
    <3> QED BY <1>3, <1>4, <2>1, <3>1, <3>2, HealthFrame, Zenon DEF PeekedPcs, WritePcs
  <2> QED BY <1>6, <2>2, <2>3, <2>4, Zenon
<1>7. CASE PeekUuid
  <2>1. StoreTyped' /\ UNCHANGED lock
    BY <1>5, <1>7, Zenon DEF PeekUuid
  <2>2. CASE Goto("evict")
    <3>1. h' = To("evict") /\ "evict" \in HealthPc
      BY <2>2, Zenon DEF Goto, To, HealthPc
    <3> QED BY <1>3, <1>4, <2>1, <3>1, HealthFrame, Zenon DEF PeekedPcs, WritePcs
  <2>3. CASE ~Goto("evict")
    <3> DEFINE r == [h EXCEPT !.pc = "get", !.uuid = list_at(buffer, 0)]
    <3>1. h' = r /\ list_has(buffer, 0)
      BY <1>7, <2>3, Zenon DEF PeekUuid
    <3>2. list_at(buffer, 0) \in UUID
      BY <1>1, <3>1 DEF list_has, list_at, StoreTyped
    <3>3. r \in HealthRecord /\ r.pc = "get" /\ r.uuid \in UUID
      <4>1. "get" \in HealthPc
        BY Zenon DEF HealthPc
      <4> QED BY <1>1, <3>2, <4>1, Zenon DEF HealthRecord
    <3> HIDE DEF r
    <3> QED BY <1>3, <2>1, <3>1, <3>3, HealthFrame, Zenon DEF WritePcs
  <2> QED BY <2>2, <2>3, Zenon
<1>8. CASE GetRequest \/ Publish \/ PublishFails
  <2>1. StoreTyped'
    <3>1. CASE GetRequest
      BY <1>5, <3>1, Zenon DEF GetRequest
    <3>2. CASE Publish \/ PublishFails
      <4>1. h.uuid \in UUID
        BY <1>2, <3>2, Zenon DEF Publish, PublishFails, PeekedPcs
      <4> QED BY <1>1, <3>2, <4>1, Zenon DEF Publish, PublishFails, StoreTyped, store, budget
    <3> QED BY <1>8, <3>1, <3>2, Zenon
  <2>2. PICK p \in {"publish", "wrlock", "evict"} : h' = To(p)
    BY <1>8, Zenon DEF GetRequest, Publish, PublishFails, Goto, To
  <2>3. UNCHANGED lock /\ h.uuid \in UUID /\ p \in HealthPc
    BY <1>2, <1>8, Zenon DEF GetRequest, Publish, PublishFails, PeekedPcs, HealthPc
  <2> QED BY <1>3, <1>4, <2>1, <2>2, <2>3, HealthFrame, Zenon DEF WritePcs
<1>9. CASE LockForMove
  <2>1. StoreTyped' /\ h.uuid \in UUID
    BY <1>2, <1>5, <1>9, Zenon DEF LockForMove, PeekedPcs
  <2>2. PICK p \in {"del", "evict"} : h' = To(p) /\ (p = "del" => trywrlock) /\ (p # "del" => UNCHANGED lock)
    BY <1>9, Zenon DEF LockForMove, Goto, To
  <2>3. p \in HealthPc
    BY Zenon DEF HealthPc
  <2> QED BY <1>3, <1>4, <2>1, <2>2, <2>3, HealthFrame, Zenon DEF WritePcs
<1>10. CASE DeleteRequest \/ SetResult
  <2>1. h.uuid \in UUID /\ h.pc \in WritePcs /\ UNCHANGED lock
    BY <1>2, <1>10, Zenon DEF DeleteRequest, SetResult, PeekedPcs, WritePcs
  <2>2. value' \in [UUID -> Value]
    <3>1. value \in [UUID -> Value] /\ "none" \in Value /\ "res" \in Value
      BY <1>1, Zenon DEF StoreTyped, Value
    <3> QED BY <1>10, <2>1, <3>1, Zenon DEF DeleteRequest, SetResult
  <2>3. StoreTyped'
    BY <1>1, <1>10, <2>2, MamBufferAssumption DEF DeleteRequest, SetResult, StoreTyped, Fault, budget, history
  <2>4. PICK p \in {"set", "pop", "evict"} : h' = To(p)
    BY <1>10, Zenon DEF DeleteRequest, SetResult, Goto, To
  <2>5. p \in HealthPc
    BY Zenon DEF HealthPc
  <2> QED BY <1>3, <1>4, <2>1, <2>3, <2>4, <2>5, HealthFrame, Zenon DEF WritePcs
<1>11. CASE PopBuffered
  <2>1. h.pc \in WritePcs /\ UNCHANGED lock
    BY <1>11, Zenon DEF PopBuffered, WritePcs
  <2>2. CASE buffer = <<>>
    <3>1. h' = To("evict") /\ "evict" \in HealthPc /\ StoreTyped'
      BY <1>1, <1>11, <2>2, Zenon DEF PopBuffered, StoreTyped, budget, history, Goto, To, HealthPc
    <3> QED BY <1>3, <1>4, <2>1, <3>1, HealthFrame, Zenon DEF PeekedPcs, WritePcs
  <2>3. CASE buffer # <<>>
    <3> DEFINE r == [h EXCEPT !.pc = "push", !.uuid = Head(buffer)]
    <3>1. Head(buffer) \in UUID /\ list_pop(buffer) \in Seq(UUID)
      BY <1>1, <2>3, PopProperties, Zenon DEF StoreTyped
    <3>2. h' = r /\ StoreTyped'
      BY <1>1, <1>11, <2>3, <3>1, Zenon DEF PopBuffered, StoreTyped, budget, history
    <3>3. r \in HealthRecord /\ r.pc = "push" /\ r.uuid \in UUID
      <4>1. "push" \in HealthPc
        BY Zenon DEF HealthPc
      <4> QED BY <1>1, <3>1, <4>1, Zenon DEF HealthRecord
    <3> HIDE DEF r
    <3> QED BY <1>3, <2>1, <3>2, <3>3, HealthFrame, Zenon DEF WritePcs
  <2> QED BY <2>2, <2>3, Zenon
<1>12. CASE PushComplete
  <2>1. h.pc = "push" /\ UNCHANGED lock /\ h.uuid \in UUID /\ h' = To("unlock") /\ "unlock" \in HealthPc
    BY <1>2, <1>12, Zenon DEF PushComplete, Goto, To, HealthPc
  <2>2. list_push(complete, h.uuid) \in Seq(UUID)
    BY <1>1, <2>1, PushProperties, Zenon DEF StoreTyped
  <2>3. StoreTyped'
    BY <1>1, <1>12, <2>2, Zenon DEF PushComplete, StoreTyped, budget, history
  <2> QED BY <1>3, <1>4, <2>1, <2>3, HealthFrame, Zenon DEF WritePcs, PeekedPcs
<1>13. CASE Evict
  <2>1. StoreTyped'
    BY <1>5, <1>13, Zenon DEF Evict
  <2>2. CASE trywrlock /\ Goto("evictcs")
    <3>1. h' = To("evictcs") /\ "evictcs" \in HealthPc
      BY <2>2, Zenon DEF Goto, To, HealthPc
    <3> QED BY <1>3, <1>4, <2>1, <2>2, <3>1, HealthFrame, Zenon DEF PeekedPcs
  <2>3. CASE UNCHANGED lock /\ h' = Starting
    BY <1>3, <2>1, <2>3, StartingType, HealthFrame, Zenon DEF PeekedPcs, WritePcs
  <2> QED BY <1>13, <2>2, <2>3, Zenon DEF Evict
<1>14. CASE BroadcastFails
  <2>1. h.pc = "push" => h.uuid \in UUID
    BY <1>2, Zenon
  <2>2. StoreTyped' /\ h' = To("evict") /\ UNCHANGED lock /\ "evict" \in HealthPc
    BY <1>1, <1>14, <2>1, MamBufferAssumption DEF BroadcastFails, Fault, StoreTyped, store, Goto, To, HealthPc
  <2> QED BY <1>3, <1>4, <2>2, HealthFrame, Zenon DEF PeekedPcs, WritePcs
<1> QED
  BY <1>6, <1>7, <1>8, <1>9, <1>10, <1>11, <1>12, <1>13, <1>14, Zenon DEF HealthStep

\* A crash puts lock and locals back to their initial values.
LEMMA CrashTypes ==
    ASSUME TypeInv, Crash
    PROVE  TypeInv'
<1>1. StoreTyped /\ (h.pc = "push" => h.uuid \in UUID)
  BY Zenon DEF TypeInv, TypeOK, StoreTyped, Locals
<1>2. StoreTyped'
  BY <1>1, MamBufferAssumption DEF Crash, StoreTyped, store
<1>3. h' = Starting /\ req' = [t \in Thread |-> Idle] /\ writer' = FALSE /\ readers' = 0
  BY Zenon DEF Crash
<1>4. \A t \in Thread : req'[t] \in ReqRecord /\ req'[t].pc = "idle"
  BY <1>3, IdleType, Zenon
<1>5. TypeOK'
  <2>1. writer' \in BOOLEAN
    BY <1>3, Zenon
  <2>2. readers' \in 0..MaxReaders
    BY <1>3, MaxReadersAssumption
  <2>3. req' \in [Thread -> ReqRecord]
    BY <1>3, <1>4, Zenon
  <2> QED BY <1>2, <1>3, <2>1, <2>2, <2>3, StartingType, Zenon DEF TypeOK, LockTypeOK, StoreTyped
<1>6. Locals'
  BY <1>3, <1>4, StartingType, Zenon DEF Locals, PeekedPcs
<1>7. MoveUnseen'
  <2>1. Readers' = {}
    BY <1>4, Zenon DEF Readers, ReadPcs
  <2>2. Cardinality(Readers') = 0
    BY <2>1, FS_EmptySet, Zenon
  <2> QED BY <1>3, <2>1, <2>2, StartingType DEF MoveUnseen
<1> QED BY <1>5, <1>6, <1>7, Zenon DEF TypeInv

\* The initial state has its types.
LEMMA TypeInvInit == Init => TypeInv
<1> SUFFICES ASSUME Init PROVE TypeInv
  BY Zenon
<1>1. \A t \in Thread : req[t] \in ReqRecord /\ req[t].pc = "idle"
  BY IdleType, Zenon DEF Init
<1>2. h \in HealthRecord /\ h.pc = "txn"
  BY StartingType, Zenon DEF Init
<1>3. req \in [Thread -> ReqRecord] /\ LockTypeOK /\ writer = FALSE /\ readers = 0
  <2>1. req \in [Thread -> ReqRecord]
    BY <1>1, Zenon DEF Init
  <2>2. writer = FALSE /\ readers = 0
    BY Zenon DEF Init, LockInit
  <2>3. writer \in BOOLEAN
    BY <2>2, Zenon
  <2>4. readers \in 0..MaxReaders
    BY <2>2, MaxReadersAssumption
  <2> QED BY <2>1, <2>2, <2>3, <2>4, Zenon DEF LockTypeOK
<1>4. StoreTyped
  BY EmptySeq, MamBufferAssumption DEF Init, StoreTyped, Value
<1>5. TypeOK
  BY <1>2, <1>3, <1>4, Zenon DEF TypeOK, StoreTyped
<1>6. Locals
  BY <1>1, <1>2, Zenon DEF Locals, PeekedPcs
<1>7. MoveUnseen
  <2>1. Readers = {}
    BY <1>1, Zenon DEF Readers, ReadPcs
  <2>2. Cardinality(Readers) = 0
    BY <2>1, FS_EmptySet, Zenon
  <2> QED BY <1>2, <1>3, <2>1, <2>2 DEF MoveUnseen
<1> QED BY <1>5, <1>6, <1>7, Zenon DEF TypeInv

\* Every step keeps the types.
LEMMA TypeInvStep == TypeInv /\ [Next]_vars => TypeInv'
<1> SUFFICES ASSUME TypeInv, [Next]_vars PROVE TypeInv'
  BY Zenon
<1>1. CASE UNCHANGED vars
  BY <1>1, Zenon DEF vars, lock, store, budget, history, TypeInv, TypeOK, LockTypeOK, Locals, MoveUnseen, Readers
<1>2. ASSUME NEW t \in Thread,
             \/ SetRequest(t) \/ FetchTxn(t) \/ HttpStep(t)
             \/ PushRequestFails(t) \/ TxnScanFails(t) \/ FetchFails(t)
      PROVE  TypeInv'
  BY <1>2, AcceptTypes, FetchTypes, FetchEndTypes, Zenon DEF HttpStep, FetchLocal
<1>3. CASE HealthStep \/ BroadcastFails
  BY <1>3, HealthTypes, Zenon
<1>4. CASE Crash
  BY <1>4, CrashTypes, Zenon
<1> QED BY <1>1, <1>2, <1>3, <1>4, Zenon DEF Next

-----------------------------------------------------------------------------
(* The theorems.                                                             *)

\* Every variable keeps its type in every run, for any number of threads, UUIDs,
\* faults and crashes.
THEOREM MamTypeCorrect == Spec => []TypeOK
<1>1. TypeInv => TypeOK
  BY Zenon DEF TypeInv
<1> QED BY <1>1, TypeInvInit, TypeInvStep, PTL DEF Spec

\* No fetch is inside the section of the read lock while the health thread
\* replaces the request by the result and moves the UUID, whatever locks leaked.
THEOREM MamMoveIsUnseen == Spec => []MoveUnseen
<1>1. TypeInv => MoveUnseen
  BY Zenon DEF TypeInv
<1> QED BY <1>1, TypeInvInit, TypeInvStep, PTL DEF Spec

\* The initial state satisfies the invariant of the lists.
LEMMA ConsInvInit == Init => ConsInv
BY TypeInvInit, ConsInit, Zenon

\* Every step keeps the invariant of the lists.
LEMMA ConsInvStep == ConsInv /\ [Next]_vars => ConsInv'
<1>1. ConsInv => TypeInv
  BY Zenon DEF ConsInv
<1> QED BY <1>1, TypeInvStep, ConsStep, Zenon

\* No accepted MAM request vanishes or is duplicated, with any number of HTTP
\* threads and however redis and the process fail: see Conservation.
THEOREM MamRequestsConserved == Spec => []Conservation
<1>1. ConsInv => Conservation
  BY Zenon DEF ConsInv
<1> QED BY <1>1, ConsInvInit, ConsInvStep, PTL DEF Spec

\* A message no full node has reaches the complete list in the two ways named in
\* MovedIsPublished only: its UUID overtook the one the health thread had peeked
\* at, or ta_send_bundle dropped the error.
THEOREM MovedWasPublished == Spec => []MovedIsPublished
<1>1. ResultInv => MovedIsPublished
  BY Zenon DEF ResultInv, Moved, MovedIsPublished, Settled, Reached
<1> QED BY <1>1, ConsInvInit, ConsInvStep, ResultInvInit, ResultInvStep, PTL DEF Spec

\* A fetch hands out results and not requests, each one once, and a result stays
\* in redis until a fetch takes it, although GET, DEL and LPOP of several fetches
\* interleave without the lock.
THEOREM ResultHandedOutOnce == Spec => []ResultOnce
<1>1. ResultInv => ResultOnce
  BY Zenon DEF ResultInv, ResultOnce
<1> QED BY <1>1, ConsInvInit, ConsInvStep, ResultInvInit, ResultInvStep, PTL DEF Spec
=============================================================================
