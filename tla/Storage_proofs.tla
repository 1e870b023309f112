--------------------------- MODULE Storage_proofs ---------------------------
(* Proofs about what the accelerator keeps beside the tangle: the identity   *)
(* table that the reattacher renews, and the tables of the permanode.        *)
EXTENDS Reattacher, Permanode, TLAPS, FiniteSetTheorems

\* A step that names no prover is tried with SMT and then with Zenon, 20 s each.
USE SMTT(20), ZenonT(20)

-----------------------------------------------------------------------------
(* The reattacher.                                                          *)

\* What handle_pending_txn may be doing, with or without a row.
Workers ==
    {Sleeping} \cup [at : {"confirm", "replay"}, obj : Identity]
      \cup [at : {"update"}, obj : Identity, new : Hash]

\* A row names an attachment of its transfer that is on the tangle, says
\* CONFIRMED of a confirmed one only, and is no older than the newest attachment
\* if it names that one; a transfer has one row.
RowsNamed ==
    /\ \A i \in identity :
          /\ i.hash \in known /\ i.hash[1] = i.id /\ i.hash[2] <= attached[i.id]
          /\ i.status = "CONFIRMED" => i.hash \in confirmed
          /\ i.hash[2] = attached[i.id] => i.age <= fresh[i.id]
    /\ \A i, j \in identity : i.id = j.id => i = j

\* What the reattacher has read is what the table holds: nobody else changes a
\* row that exists.
Copies ==
    /\ batch \subseteq identity /\ \A i \in batch : i.status = "PENDING"
    /\ worker # Sleeping =>
          worker.obj \in identity /\ worker.obj \notin batch /\ worker.obj.status = "PENDING"
    /\ worker.at = "confirm" => worker.obj.hash \in confirmed
    /\ worker.at = "replay" => worker.obj.age > Persistent
    /\ worker.at = "update" => worker.new = <<worker.obj.id, attached[worker.obj.id]>>

\* A transfer is on the tangle once when its row is about to be written.
Requested ==
    \A t \in Txn :
        /\ sending[t] \in {"idle", "buffered"} => attached[t] = 0
        /\ sending[t] \in {"attached", "insert"} => attached[t] = 1 /\ \A i \in identity : i.id # t
        /\ sending[t] = "answered" => \E i \in identity : i.id = t
        /\ sending[t] \in {"buffered", "broadcast"} => spent >= 1

\* The inductive invariant of the reattacher.
ReattacherInv ==
    ReattacherTypeOK /\ worker \in Workers /\ RowsNamed /\ Copies /\ Requested /\ OneOrphanPerFault

\* The attachments of a transfer that no row has named or is about to name.
Untracked(t) ==
    {h \in {t} \X (1..attached[t]) :
        /\ h \notin known
        /\ ~(worker.at = "update" /\ h = worker.new)
        /\ sending[t] \notin {"attached", "insert"}}

\* OneOrphanPerFault counts the untracked attachments, now and after a step.
LEMMA OrphansAreUntracked ==
  /\ OneOrphanPerFault <=> \A t \in Txn : Cardinality(Untracked(t)) <= spent
  /\ OneOrphanPerFault' <=> \A t \in Txn : Cardinality(Untracked(t)') <= spent'
<1> DEFINE Orphans(t) == {h \in {t} \X (1..attached[t]) : h \notin known}
           InFlight(t) == {h \in Orphans(t) : \/ worker.at = "update" /\ h = worker.new
                                              \/ sending[t] \in {"attached", "insert"}}
<1>1. \A t \in Txn : Orphans(t) \ InFlight(t) = Untracked(t)
  BY Zenon DEF Untracked
<1>2. \A t \in Txn : (Orphans(t) \ InFlight(t))' = Untracked(t)'
  BY Zenon DEF Untracked
<1> QED BY <1>1, <1>2, Zenon DEF OneOrphanPerFault

\* They can be counted.
LEMMA UntrackedIsFinite ==
  ASSUME ReattacherTypeOK, NEW t \in Txn
  PROVE  IsFiniteSet(Untracked(t)) /\ Cardinality(Untracked(t)) \in Nat
<1>1. attached[t] \in Nat
  BY ReattacherAssumption, SMTT(20) DEF ReattacherTypeOK
<1>2. IsFiniteSet(1..attached[t])
  BY <1>1, FS_Interval
<1>3. IsFiniteSet({t} \X (1..attached[t]))
  BY <1>2, FS_Singleton, FS_Product, Zenon
<1>4. IsFiniteSet(Untracked(t))
  BY <1>3, FS_Subset DEF Untracked
<1> QED BY <1>4, FS_CardinalityType

\* Each fault costs at most one attachment.
LEMMA OrphansBounded ==
  ASSUME ReattacherInv, spent' \in Nat,
         \A t \in Txn : \/ Untracked(t)' \subseteq Untracked(t) /\ spent' >= spent
                        \/ \E x : Untracked(t)' \subseteq Untracked(t) \cup {x} /\ spent' >= spent + 1
                        \/ \E x : Untracked(t)' \subseteq {x} /\ spent' >= 1
  PROVE  OneOrphanPerFault'
<1>1. ReattacherTypeOK /\ OneOrphanPerFault /\ spent \in Nat
  BY ReattacherAssumption, SMTT(20) DEF ReattacherInv, ReattacherTypeOK
<1>2. ASSUME NEW t \in Txn PROVE Cardinality(Untracked(t)') <= spent'
  <2>1. /\ IsFiniteSet(Untracked(t)) /\ Cardinality(Untracked(t)) \in Nat
        /\ Cardinality(Untracked(t)) <= spent
    BY <1>1, UntrackedIsFinite, OrphansAreUntracked, Zenon
  <2>2. ASSUME NEW S, IsFiniteSet(S), NEW n \in Nat, Cardinality(S) <= n, n <= spent', Untracked(t)' \subseteq S
        PROVE  Cardinality(Untracked(t)') <= spent'
    <3>1. IsFiniteSet(Untracked(t)') /\ Cardinality(Untracked(t)') <= Cardinality(S)
      BY <2>2, FS_Subset
    <3>2. Cardinality(Untracked(t)') \in Nat /\ Cardinality(S) \in Nat
      BY <2>2, <3>1, FS_CardinalityType
    <3> HIDE DEF Untracked
    <3> QED BY <2>2, <3>1, <3>2, SMTT(20)
  <2>3. CASE Untracked(t)' \subseteq Untracked(t) /\ spent' >= spent
    <3>1. spent <= spent'
      BY <1>1, <2>3, SMTT(20)
    <3> QED BY <1>1, <2>1, <2>2, <2>3, <3>1, Zenon
  <2>4. ASSUME NEW x, Untracked(t)' \subseteq Untracked(t) \cup {x}, spent' >= spent + 1
        PROVE  Cardinality(Untracked(t)') <= spent'
    <3>1. /\ IsFiniteSet(Untracked(t) \cup {x})
          /\ \/ Cardinality(Untracked(t) \cup {x}) = Cardinality(Untracked(t)) + 1
             \/ Cardinality(Untracked(t) \cup {x}) = Cardinality(Untracked(t))
      BY <2>1, FS_AddElement
    <3>2. Cardinality(Untracked(t) \cup {x}) <= spent + 1 /\ spent + 1 \in Nat /\ spent + 1 <= spent'
      BY <1>1, <2>1, <2>4, <3>1, SMTT(20)
    <3> QED BY <2>2, <2>4, <3>1, <3>2, Zenon
  <2>5. ASSUME NEW x, Untracked(t)' \subseteq {x}, spent' >= 1
        PROVE  Cardinality(Untracked(t)') <= spent'
    <3>1. IsFiniteSet({x}) /\ Cardinality({x}) = 1
      BY FS_Singleton, Zenon
    <3>2. Cardinality({x}) <= 1 /\ 1 \in Nat /\ 1 <= spent'
      BY <2>5, <3>1, SMTT(20)
    <3> QED BY <2>2, <2>5, <3>1, <3>2, Zenon
  <2> QED BY <2>3, <2>4, <2>5, Zenon
<1> QED BY <1>2, OrphansAreUntracked, Zenon

-----------------------------------------------------------------------------
(* The steps.                                                               *)

\* What the invariant says of the types.
LEMMA InvIs ==
  ASSUME ReattacherInv
  PROVE  /\ attached \in [Txn -> 0..MaxAttach] /\ fresh \in [Txn -> Age]
         /\ confirmed \in SUBSET Hash /\ known \in SUBSET Hash
         /\ identity \in SUBSET Identity /\ batch \in SUBSET Identity
         /\ sending \in [Txn -> {"idle", "buffered", "broadcast", "attached", "insert", "answered", "error"}]
         /\ spent \in Nat /\ spent \in 0..ReattachFaults /\ worker \in Workers
         /\ ReattacherTypeOK /\ RowsNamed /\ Copies /\ Requested /\ OneOrphanPerFault
<1>1. spent \in 0..ReattachFaults
  BY Zenon DEF ReattacherInv, ReattacherTypeOK
<1>2. spent \in Nat
  BY <1>1, ReattacherAssumption, SMTT(20)
<1> QED BY <1>1, <1>2, Zenon DEF ReattacherInv, ReattacherTypeOK

\* What the place of the worker says of its record.
LEMMA WorkerIs ==
  ASSUME worker \in Workers
  PROVE  /\ worker # Sleeping => worker.at \in {"confirm", "replay", "update"} /\ worker.obj \in Identity
         /\ worker = Sleeping <=> worker.at = "sleep"
         /\ worker.at = "update" => worker.new \in Hash
<1>1. CASE worker = Sleeping
  BY <1>1, SMTT(20) DEF Sleeping
<1>2. CASE worker \in [at : {"confirm", "replay"}, obj : Identity]
  BY <1>2, SMTT(20) DEF Sleeping
<1>3. CASE worker \in [at : {"update"}, obj : Identity, new : Hash]
  BY <1>3, SMTT(20) DEF Sleeping
<1> QED BY <1>1, <1>2, <1>3, Zenon DEF Workers

\* A fault is one fault more.
LEMMA FaultIs ==
  ASSUME spent \in 0..ReattachFaults, Fault
  PROVE  spent' \in 0..ReattachFaults /\ spent' = spent + 1 /\ spent' >= 1 /\ spent' >= spent + 1 /\ spent' >= spent
BY ReattacherAssumption, SMTT(20) DEF Fault

\* The fields of a row.
LEMMA RowIs ==
  ASSUME NEW i \in Identity
  PROVE  /\ i.id \in Txn /\ i.hash \in Hash /\ i.age \in Nat /\ i.age \in Age
         /\ i.hash[2] \in 1..MaxAttach /\ i.hash[2] \in Nat /\ i.hash = <<i.hash[1], i.hash[2]>>
<1>1. i.id \in Txn /\ i.hash \in Hash /\ i.age \in Age
  BY SMTT(20) DEF Identity
<1>2. i.age \in Nat
  BY <1>1, ReattacherAssumption, SMTT(20) DEF Age
<1>3. i.hash[2] \in 1..MaxAttach /\ i.hash[2] \in Nat /\ i.hash = <<i.hash[1], i.hash[2]>>
  BY <1>1, ReattacherAssumption, SMTT(20) DEF Hash
<1> QED BY <1>1, <1>2, <1>3, Zenon

\* An attachment is one more of its own transfer, and no other transfer's.
LEMMA AttachIs ==
  ASSUME ReattacherTypeOK, NEW t \in Txn, Attach(t)
  PROVE  /\ attached' \in [Txn -> 0..MaxAttach] /\ fresh' \in [Txn -> Age]
         /\ attached[t] \in Nat /\ attached'[t] = attached[t] + 1 /\ attached[t] + 1 \in 1..MaxAttach
         /\ fresh'[t] = 0
         /\ \A u \in Txn \ {t} : attached'[u] = attached[u] /\ fresh'[u] = fresh[u]
<1>1. attached \in [Txn -> 0..MaxAttach] /\ fresh \in [Txn -> Age]
  BY Zenon DEF ReattacherTypeOK
<1>2. 0 \in Age
  BY ReattacherAssumption, SMTT(20) DEF Age
<1>3. attached[t] \in 0..MaxAttach /\ attached[t] < MaxAttach
  BY <1>1, Zenon DEF Attach
<1>4. attached[t] \in Nat /\ attached[t] + 1 \in 0..MaxAttach /\ attached[t] + 1 \in 1..MaxAttach
  BY <1>3, ReattacherAssumption, SMTT(20)
<1>5. attached' = [attached EXCEPT ![t] = attached[t] + 1] /\ fresh' = [fresh EXCEPT ![t] = 0]
  BY Zenon DEF Attach
<1> QED BY <1>1, <1>2, <1>4, <1>5, Zenon

\* A transfer that is not on the tangle has no row.
LEMMA NoRow ==
  ASSUME ReattacherInv, NEW t \in Txn, attached[t] = 0
  PROVE  \A i \in identity : i.id # t
<1> SUFFICES ASSUME NEW i \in identity, i.id = t PROVE FALSE
  OBVIOUS
<1>1. i \in Identity /\ i.hash[2] <= attached[t]
  BY InvIs, Zenon DEF RowsNamed
<1>2. i.hash[2] \in 1..MaxAttach
  BY <1>1, RowIs, Zenon
<1> QED BY <1>1, <1>2, ReattacherAssumption, SMTT(20)

\* Nothing has been sent at first.
LEMMA ReattacherInvInit == ReattacherInit => ReattacherInv
<1> SUFFICES ASSUME ReattacherInit PROVE ReattacherInv
  OBVIOUS
<1>0. 0 \in Age /\ 0 \in 0..MaxAttach /\ 0 \in 0..ReattachFaults /\ 0 \in Nat
  BY ReattacherAssumption, SMTT(20) DEF Age
<1>1. /\ attached = [t \in Txn |-> 0] /\ fresh = [t \in Txn |-> 0] /\ confirmed = {} /\ identity = {} /\ known = {}
      /\ sending = [t \in Txn |-> "idle"] /\ batch = {} /\ worker = Sleeping /\ spent = 0
  BY Zenon DEF ReattacherInit
<1>2. worker \in Workers /\ worker.at = "sleep"
  BY <1>1, Zenon DEF Workers, Sleeping
<1>3. ReattacherTypeOK
  BY <1>0, <1>1, Zenon DEF ReattacherTypeOK
<1>4. RowsNamed /\ Copies
  BY <1>1, <1>2, Zenon DEF RowsNamed, Copies
<1>5. Requested
  BY <1>1, Zenon DEF Requested
<1>6. ASSUME NEW t \in Txn PROVE Cardinality(Untracked(t)) <= spent
  <2>1. 1..attached[t] = {}
    BY <1>1, SMTT(20)
  <2>2. Untracked(t) = {}
    BY <2>1, Zenon DEF Untracked
  <2> QED BY <1>1, <2>2, FS_EmptySet, SMTT(20)
<1>7. OneOrphanPerFault
  BY <1>6, OrphansAreUntracked, Zenon
<1> QED BY <1>2, <1>3, <1>4, <1>5, <1>7, Zenon DEF ReattacherInv

\* The tangle, the table and the reattacher stay; requests and faults go on.
LEMMA OnlyRequests ==
  ASSUME ReattacherInv, UNCHANGED <<attached, fresh, confirmed, identity, batch, worker, known>>,
         spent' \in 0..ReattachFaults, spent' >= spent,
         sending' \in [Txn -> {"idle", "buffered", "broadcast", "attached", "insert", "answered", "error"}],
         \A t \in Txn :
            \/ sending'[t] = sending[t]
            \/ sending[t] = "attached" /\ sending'[t] = "insert"
            \/ sending[t] = "idle" /\ sending'[t] = "buffered" /\ spent' >= spent + 1
            \/ sending[t] \in {"attached", "insert"} /\ sending'[t] = "error" /\ spent' >= spent + 1
  PROVE  ReattacherInv'
<1>1. ReattacherTypeOK' /\ (worker \in Workers)' /\ RowsNamed' /\ Copies' /\ spent \in Nat /\ spent' \in Nat
  <2>1. ReattacherTypeOK'
    BY InvIs, Zenon DEF ReattacherTypeOK
  <2>2. (worker \in Workers)' /\ RowsNamed' /\ Copies'
    BY InvIs, Zenon DEF RowsNamed, Copies
  <2>3. spent \in Nat /\ spent' \in Nat
    BY InvIs, ReattacherAssumption, SMTT(20)
  <2> QED BY <2>1, <2>2, <2>3, Zenon
<1>2. ASSUME NEW t \in Txn
      PROVE  /\ sending'[t] \in {"idle", "buffered"} => attached[t] = 0
             /\ sending'[t] \in {"attached", "insert"} => attached[t] = 1 /\ \A i \in identity : i.id # t
             /\ sending'[t] = "answered" => \E i \in identity : i.id = t
             /\ sending'[t] \in {"buffered", "broadcast"} => spent' >= 1
  <2>1. /\ sending[t] \in {"idle", "buffered"} => attached[t] = 0
        /\ sending[t] \in {"attached", "insert"} => attached[t] = 1 /\ \A i \in identity : i.id # t
        /\ sending[t] = "answered" => \E i \in identity : i.id = t
        /\ sending[t] \in {"buffered", "broadcast"} => spent >= 1
    BY InvIs, Zenon DEF Requested
  <2>2. (spent >= 1 => spent' >= 1) /\ (spent' >= spent + 1 => spent' >= 1)
    BY <1>1, SMTT(20)
  <2> QED BY <1>2, <2>1, <2>2, Zenon
<1>3. Requested'
  BY <1>2, Zenon DEF Requested
<1>4. ASSUME NEW t \in Txn
      PROVE  \/ Untracked(t)' \subseteq Untracked(t) /\ spent' >= spent
             \/ \E x : Untracked(t)' \subseteq Untracked(t) \cup {x} /\ spent' >= spent + 1
             \/ \E x : Untracked(t)' \subseteq {x} /\ spent' >= 1
  <2>1. CASE sending[t] \in {"attached", "insert"} /\ sending'[t] = "error" /\ spent' >= spent + 1
    <3>1. attached[t] = 1 /\ attached'[t] = 1
      BY <2>1, InvIs, Zenon DEF Requested
    <3>2. 1..attached'[t] = {1}
      BY <3>1, SMTT(20)
    <3>3. Untracked(t)' \subseteq {<<t, 1>>}
      BY <3>2, SMTT(20) DEF Untracked
    <3>4. spent' >= 1
      BY <1>1, <2>1, SMTT(20)
    <3> QED BY <3>3, <3>4, Zenon
  <2>2. CASE ~(sending[t] \in {"attached", "insert"} /\ sending'[t] = "error")
    <3>1. sending[t] \in {"attached", "insert"} => sending'[t] \in {"attached", "insert"}
      BY <2>2, Zenon
    <3>2. Untracked(t)' \subseteq Untracked(t)
      BY <3>1, Zenon DEF Untracked
    <3> QED BY <3>2, Zenon
  <2> QED BY <2>1, <2>2, Zenon
<1>5. OneOrphanPerFault'
  BY <1>1, <1>4, OrphansBounded, Zenon
<1> QED BY <1>1, <1>3, <1>5, Zenon DEF ReattacherInv

\* A first attachment, whose request then waits for its row or is over.
LEMMA FirstAttachment ==
  ASSUME ReattacherInv, NEW t \in Txn, attached[t] = 0, Attach(t),
         UNCHANGED <<confirmed, identity, batch, worker, known>>,
         spent' \in 0..ReattachFaults, spent' >= spent,
         NEW to \in {"attached", "broadcast", "error"}, sending' = [sending EXCEPT ![t] = to],
         to # "attached" => spent' >= 1
  PROVE  ReattacherInv'
<1>1. /\ attached' \in [Txn -> 0..MaxAttach] /\ fresh' \in [Txn -> Age]
      /\ \A u \in Txn \ {t} : attached'[u] = attached[u] /\ fresh'[u] = fresh[u]
  BY InvIs, AttachIs, Zenon
<1>2. attached'[t] = 1 /\ 1..attached'[t] = {1}
  <2>1. attached'[t] = attached[t] + 1
    BY InvIs, AttachIs, Zenon
  <2> QED BY <2>1, SMTT(20)
<1>3. \A i \in identity : i.id # t /\ i.id \in Txn
  BY InvIs, NoRow, RowIs, Zenon
<1>4. /\ sending' \in [Txn -> {"idle", "buffered", "broadcast", "attached", "insert", "answered", "error"}]
      /\ sending'[t] = to /\ \A u \in Txn \ {t} : sending'[u] = sending[u]
  BY InvIs, Zenon
<1>5. spent \in Nat /\ spent' \in Nat
  BY InvIs, ReattacherAssumption, SMTT(20)
<1>6. ReattacherTypeOK' /\ (worker \in Workers)'
  BY <1>1, <1>4, InvIs, Zenon DEF ReattacherTypeOK
<1>7. RowsNamed'
  BY <1>1, <1>3, InvIs, Zenon DEF RowsNamed
<1>8. Copies'
  <2>1. worker.at = "update" => attached'[worker.obj.id] = attached[worker.obj.id]
    <3>1. worker.at = "update" => worker # Sleeping
      BY InvIs, WorkerIs, Zenon
    <3> QED BY <1>1, <1>3, <3>1, InvIs, Zenon DEF Copies
  <2> QED BY <2>1, InvIs, Zenon DEF Copies
<1>9. Requested'
  <2>1. ASSUME NEW u \in Txn \ {t}
        PROVE  /\ sending'[u] \in {"idle", "buffered"} => attached'[u] = 0
               /\ sending'[u] \in {"attached", "insert"} => attached'[u] = 1 /\ \A i \in identity : i.id # u
               /\ sending'[u] = "answered" => \E i \in identity : i.id = u
               /\ sending'[u] \in {"buffered", "broadcast"} => spent' >= 1
    <3>1. spent >= 1 => spent' >= 1
      BY <1>5, SMTT(20)
    <3> QED BY <1>1, <1>4, <3>1, InvIs, ZenonT(30) DEF Requested
  <2>2. /\ sending'[t] \in {"idle", "buffered"} => attached'[t] = 0
        /\ sending'[t] \in {"attached", "insert"} => attached'[t] = 1 /\ \A i \in identity : i.id # t
        /\ sending'[t] = "answered" => \E i \in identity : i.id = t
        /\ sending'[t] \in {"buffered", "broadcast"} => spent' >= 1
    BY <1>2, <1>3, <1>4, Zenon
  <2> QED BY <2>1, <2>2, Zenon DEF Requested
<1>10. ASSUME NEW u \in Txn
       PROVE  \/ Untracked(u)' \subseteq Untracked(u) /\ spent' >= spent
              \/ \E x : Untracked(u)' \subseteq Untracked(u) \cup {x} /\ spent' >= spent + 1
              \/ \E x : Untracked(u)' \subseteq {x} /\ spent' >= 1
  <2>1. CASE u # t
    BY <1>1, <1>4, <2>1, Zenon DEF Untracked
  <2>2. CASE u = t /\ to = "attached"
    BY <1>4, <2>2, Zenon DEF Untracked
  <2>3. CASE u = t /\ to # "attached"
    <3>1. Untracked(t)' \subseteq {<<t, 1>>}
      BY <1>2, SMTT(20) DEF Untracked
    <3> QED BY <2>3, <3>1, Zenon
  <2> QED BY <2>1, <2>2, <2>3, Zenon
<1>11. OneOrphanPerFault'
  BY <1>5, <1>10, OrphansBounded, Zenon
<1> QED BY <1>6, <1>7, <1>8, <1>9, <1>11, Zenon DEF ReattacherInv

\* The steps of a send before its row is written (apis.c:api_send_transfer).
LEMMA RequestKeeps ==
  ASSUME ReattacherInv, NEW t \in Txn, Transfer(t) \/ BroadcastBuffered(t) \/ FindObject(t)
  PROVE  ReattacherInv'
<1>1. /\ spent \in Nat /\ spent \in 0..ReattachFaults /\ spent >= spent
      /\ sending \in [Txn -> {"idle", "buffered", "broadcast", "attached", "insert", "answered", "error"}]
  <2>1. /\ spent \in Nat /\ spent \in 0..ReattachFaults
        /\ sending \in [Txn -> {"idle", "buffered", "broadcast", "attached", "insert", "answered", "error"}]
    BY InvIs, Zenon
  <2> QED BY <2>1, SMTT(20)
<1>2. ASSUME NEW to \in {"buffered", "insert", "error"}, sending' = [sending EXCEPT ![t] = to]
      PROVE  /\ sending' \in [Txn -> {"idle", "buffered", "broadcast", "attached", "insert", "answered", "error"}]
             /\ sending'[t] = to /\ \A u \in Txn \ {t} : sending'[u] = sending[u]
  BY <1>1, <1>2, Zenon
<1>3. CASE Transfer(t)
  <2>1. attached[t] = 0 /\ UNCHANGED <<confirmed, identity, batch, worker, known>>
    BY <1>3, InvIs, Zenon DEF Transfer, Requested
  <2>2. CASE Attach(t) /\ sending' = [sending EXCEPT ![t] = "attached"] /\ UNCHANGED spent
    BY <1>1, <2>1, <2>2, FirstAttachment, Zenon
  <2>3. CASE Attach(t) /\ sending' = [sending EXCEPT ![t] = "error"] /\ Fault
    <3>1. spent' \in 0..ReattachFaults /\ spent' >= 1 /\ spent' >= spent
      BY <1>1, <2>3, FaultIs, Zenon
    <3> QED BY <1>1, <2>1, <2>3, <3>1, FirstAttachment, Zenon
  <2>4. CASE Fault /\ sending' = [sending EXCEPT ![t] = "buffered"] /\ UNCHANGED <<attached, fresh>>
    <3>1. spent' \in 0..ReattachFaults /\ spent' >= spent /\ spent' >= spent + 1
      BY <1>1, <2>4, FaultIs, Zenon
    <3>2. /\ sending' \in [Txn -> {"idle", "buffered", "broadcast", "attached", "insert", "answered", "error"}]
          /\ sending[t] = "idle" /\ sending'[t] = "buffered" /\ \A u \in Txn \ {t} : sending'[u] = sending[u]
      BY <1>2, <1>3, <2>4, Zenon DEF Transfer
    <3>3. \A u \in Txn : sending'[u] = sending[u] \/ (sending[u] = "idle" /\ sending'[u] = "buffered")
      BY <3>2, Zenon
    <3> QED BY <2>1, <2>4, <3>1, <3>2, <3>3, OnlyRequests, Zenon
  <2> QED BY <1>3, <2>2, <2>3, <2>4, Zenon DEF Transfer
<1>4. CASE BroadcastBuffered(t)
  <2>1. attached[t] = 0 /\ spent >= 1
    BY <1>4, InvIs, Zenon DEF BroadcastBuffered, Requested
  <2> QED BY <1>1, <1>4, <2>1, FirstAttachment, Zenon DEF BroadcastBuffered
<1>5. CASE FindObject(t)
  <2>1. sending[t] = "attached" /\ UNCHANGED <<attached, fresh, confirmed, identity, batch, worker, known>>
    BY <1>5, Zenon DEF FindObject
  <2>2. CASE sending' = [sending EXCEPT ![t] = "insert"] /\ UNCHANGED spent
    <3>1. /\ sending' \in [Txn -> {"idle", "buffered", "broadcast", "attached", "insert", "answered", "error"}]
          /\ \A u \in Txn : sending'[u] = sending[u] \/ (sending[u] = "attached" /\ sending'[u] = "insert")
      BY <1>2, <2>1, <2>2, Zenon
    <3> QED BY <1>1, <2>1, <2>2, <3>1, OnlyRequests, Zenon
  <2>3. CASE sending' = [sending EXCEPT ![t] = "error"] /\ Fault
    <3>1. /\ sending' \in [Txn -> {"idle", "buffered", "broadcast", "attached", "insert", "answered", "error"}]
          /\ \A u \in Txn : sending'[u] = sending[u] \/ (sending[u] = "attached" /\ sending'[u] = "error")
      BY <1>2, <2>1, <2>3, Zenon
    <3>2. spent' \in 0..ReattachFaults /\ spent' >= spent /\ spent' >= spent + 1
      BY <1>1, <2>3, FaultIs, Zenon
    <3> QED BY <2>1, <3>1, <3>2, OnlyRequests, Zenon
  <2> QED BY <1>5, <2>2, <2>3, Zenon DEF FindObject
<1> QED BY <1>3, <1>4, <1>5, Zenon

\* A killed accelerator: what it was about to record is lost, at one fault.
LEMMA CrashAcceleratorKeeps == ReattacherInv /\ CrashAccelerator => ReattacherInv'
<1> SUFFICES ASSUME ReattacherInv, CrashAccelerator PROVE ReattacherInv'
  OBVIOUS
<1>1. /\ Fault /\ UNCHANGED <<attached, fresh, confirmed, identity, batch, worker, known>>
      /\ sending' = [t \in Txn |-> IF sending[t] \in {"attached", "insert"} THEN "error" ELSE sending[t]]
  BY Zenon DEF CrashAccelerator
<1>2. /\ sending' \in [Txn -> {"idle", "buffered", "broadcast", "attached", "insert", "answered", "error"}]
      /\ \A u \in Txn : \/ sending'[u] = sending[u]
                        \/ sending[u] \in {"attached", "insert"} /\ sending'[u] = "error"
  BY <1>1, InvIs, Zenon
<1>3. spent' \in 0..ReattachFaults /\ spent' >= spent /\ spent' >= spent + 1
  BY <1>1, InvIs, FaultIs, Zenon
<1> QED BY <1>1, <1>2, <1>3, OnlyRequests, Zenon

\* The reattacher goes from one row to the next, and transfers are confirmed.
LEMMA OnlyReattacher ==
  ASSUME ReattacherInv, UNCHANGED <<attached, fresh, identity, sending, known>>,
         confirmed \subseteq confirmed', confirmed' \subseteq Hash,
         spent' \in 0..ReattachFaults, worker' \in Workers, Copies',
         \/ spent' = spent /\ worker.at # "update"
         \/ spent' = spent /\ worker' = worker
         \/ spent' >= spent + 1
  PROVE  ReattacherInv'
<1>0. spent \in Nat /\ spent' \in Nat
  BY InvIs, ReattacherAssumption, SMTT(20)
<1>4. spent' >= spent
  BY <1>0, SMTT(20)
<1>1. ReattacherTypeOK'
  <2>1. batch' \subseteq Identity
    BY InvIs, Zenon DEF Copies
  <2>2. worker' # Sleeping => worker'.at \in {"confirm", "replay", "update"} /\ worker'.obj \in Identity
    <3>1. CASE worker' = Sleeping
      BY <3>1, Zenon
    <3>2. CASE worker' \in [at : {"confirm", "replay"}, obj : Identity]
      BY <3>2, SMTT(20)
    <3>3. CASE worker' \in [at : {"update"}, obj : Identity, new : Hash]
      BY <3>3, SMTT(20)
    <3> QED BY <3>1, <3>2, <3>3, Zenon DEF Workers
  <2> QED BY <2>1, <2>2, InvIs, Zenon DEF ReattacherTypeOK
<1>2. RowsNamed'
  BY InvIs, Zenon DEF RowsNamed
<1>3. Requested'
  <2>1. spent >= 1 => spent' >= 1
    BY <1>0, <1>4, SMTT(20)
  <2> QED BY <2>1, InvIs, Zenon DEF Requested
<1>5. ASSUME NEW t \in Txn
      PROVE  \/ Untracked(t)' \subseteq Untracked(t) /\ spent' >= spent
             \/ \E x : Untracked(t)' \subseteq Untracked(t) \cup {x} /\ spent' >= spent + 1
  <2>1. Untracked(t)' \subseteq Untracked(t) \cup {worker.new}
    BY Zenon DEF Untracked
  <2>2. worker.at # "update" \/ worker' = worker => Untracked(t)' \subseteq Untracked(t)
    BY Zenon DEF Untracked
  <2> QED BY <1>4, <2>1, <2>2, Zenon
<1>6. OneOrphanPerFault'
  BY <1>0, <1>5, OrphansBounded, Zenon
<1> QED BY <1>1, <1>2, <1>3, <1>6, Zenon DEF ReattacherInv

\* The selection of the PENDING rows, and a killed reattacher.
LEMMA SelectKeeps == ReattacherInv /\ (Select \/ CrashReattacher) => ReattacherInv'
<1> SUFFICES ASSUME ReattacherInv, Select \/ CrashReattacher PROVE ReattacherInv'
  OBVIOUS
<1>1. Sleeping \in Workers /\ Sleeping.at = "sleep"
  BY Zenon DEF Workers, Sleeping
<1>2. spent \in 0..ReattachFaults /\ confirmed \subseteq Hash /\ worker \in Workers
  BY InvIs, Zenon
<1>3. worker' = Sleeping /\ UNCHANGED <<attached, fresh, confirmed, identity, sending, known>>
  BY Zenon DEF Select, CrashReattacher
<1>4. batch' \subseteq identity /\ \A i \in batch' : i.status = "PENDING"
  BY Zenon DEF Select, CrashReattacher, db_get_identity_objs_by_status
<1>5. Copies'
  BY <1>1, <1>3, <1>4, Zenon DEF Copies
<1>6. (spent' = spent /\ worker' = worker) \/ Fault
  BY Zenon DEF Select, CrashReattacher
<1>7. CASE spent' = spent /\ worker' = worker
  BY <1>1, <1>2, <1>3, <1>5, <1>7, OnlyReattacher, Zenon
<1>8. CASE Fault
  <2>1. spent' \in 0..ReattachFaults /\ spent' >= spent + 1
    BY <1>2, <1>8, FaultIs, Zenon
  <2> QED BY <1>1, <1>2, <1>3, <1>5, <2>1, OnlyReattacher, Zenon
<1> QED BY <1>6, <1>7, <1>8, Zenon

\* The answer to the inclusion query decides what is done with the row.
LEMMA CheckInclusionKeeps == ReattacherInv /\ CheckInclusion => ReattacherInv'
<1> SUFFICES ASSUME ReattacherInv, CheckInclusion PROVE ReattacherInv'
  OBVIOUS
<1>1. PICK obj \in batch :
          /\ batch' = batch \ {obj}
          /\ \/ Fault /\ worker' = Decide(obj, "none")
             \/ obj.hash \in confirmed /\ worker' = Decide(obj, "yes") /\ UNCHANGED spent
             \/ obj.hash \notin confirmed /\ worker' = Decide(obj, "no") /\ UNCHANGED spent
  BY Zenon DEF CheckInclusion
<1>2. /\ worker = Sleeping /\ worker.at = "sleep"
      /\ UNCHANGED <<attached, fresh, confirmed, identity, sending, known>>
  BY Zenon DEF CheckInclusion, Sleeping
<1>3. spent \in 0..ReattachFaults /\ confirmed \subseteq Hash /\ obj \in Identity /\ obj \in identity /\ obj.status = "PENDING"
  BY InvIs, Zenon DEF Copies
<1>4. spent' \in 0..ReattachFaults /\ (spent' = spent \/ spent' >= spent + 1)
  BY <1>1, <1>3, FaultIs, Zenon
<1>5. \/ worker' = Sleeping
      \/ worker' = [at |-> "confirm", obj |-> obj] /\ obj.hash \in confirmed
      \/ worker' = [at |-> "replay", obj |-> obj] /\ obj.age > Persistent
  BY <1>1, Zenon DEF Decide
<1>6. batch' \subseteq identity /\ obj \notin batch' /\ \A i \in batch' : i.status = "PENDING"
  BY <1>1, InvIs, Zenon DEF Copies
<1>7. worker' \in Workers /\ Copies'
  <2>1. CASE worker' = Sleeping
    <3>1. worker'.at = "sleep" /\ worker' \in Workers
      BY <2>1, Zenon DEF Sleeping, Workers
    <3> QED BY <1>2, <1>6, <2>1, <3>1, Zenon DEF Copies
  <2>2. CASE worker' = [at |-> "confirm", obj |-> obj] /\ obj.hash \in confirmed
    <3>1. worker'.at = "confirm" /\ worker'.obj = obj /\ worker' \in Workers
      BY <1>3, <2>2, Zenon DEF Workers
    <3> QED BY <1>2, <1>3, <1>6, <2>2, <3>1, Zenon DEF Copies
  <2>3. CASE worker' = [at |-> "replay", obj |-> obj] /\ obj.age > Persistent
    <3>1. worker'.at = "replay" /\ worker'.obj = obj /\ worker' \in Workers
      BY <1>3, <2>3, Zenon DEF Workers
    <3> QED BY <1>2, <1>3, <1>6, <2>3, <3>1, Zenon DEF Copies
  <2> QED BY <1>5, <2>1, <2>2, <2>3, Zenon
<1>8. worker.at # "update"
  BY <1>2, Zenon
<1> QED BY <1>2, <1>3, <1>4, <1>7, <1>8, OnlyReattacher, Zenon

\* The tangle confirms a transaction.
LEMMA ConfirmKeeps ==
  ASSUME ReattacherInv, NEW h \in Hash, Confirm(h)
  PROVE  ReattacherInv'
<1>1. confirmed' = confirmed \cup {h} /\ UNCHANGED <<attached, fresh, identity, sending, batch, worker, spent, known>>
  BY Zenon DEF Confirm
<1>2. Copies'
  BY <1>1, InvIs, Zenon DEF Copies
<1>3. confirmed \subseteq confirmed' /\ confirmed' \subseteq Hash
  BY <1>1, InvIs, Zenon
<1>4. worker' \in Workers /\ spent' \in 0..ReattachFaults
  BY <1>1, InvIs, Zenon
<1> QED BY <1>1, <1>2, <1>3, <1>4, OnlyReattacher, Zenon

\* A row is written.
LEMMA UpsertIs ==
  ASSUME ReattacherInv, NEW obj \in Identity, Upsert(obj), UNCHANGED <<attached, fresh, confirmed>>,
         obj.hash[1] = obj.id, obj.hash[2] <= attached[obj.id],
         obj.status = "CONFIRMED" => obj.hash \in confirmed,
         obj.hash[2] = attached[obj.id] => obj.age <= fresh[obj.id]
  PROVE  /\ RowsNamed' /\ identity' \subseteq Identity /\ known' \subseteq Hash
         /\ known \subseteq known' /\ obj.hash \in known' /\ obj \in identity'
         /\ \A i \in identity : i.id # obj.id => i \in identity'
         /\ \A i \in identity' : i = obj \/ (i \in identity /\ i.id # obj.id)
<1>1. /\ identity' = {i \in identity : i.id # obj.id} \cup {obj}
      /\ known' = known \cup {obj.hash}
  BY Zenon DEF Upsert
<1>2. /\ obj \in identity' /\ \A i \in identity : i.id # obj.id => i \in identity'
      /\ \A i \in identity' : i = obj \/ (i \in identity /\ i.id # obj.id)
  BY <1>1, Zenon
<1>3. known \subseteq known' /\ obj.hash \in known' /\ known' \subseteq Hash
  BY <1>1, InvIs, RowIs, Zenon
<1>4. identity' \subseteq Identity
  BY <1>2, InvIs, Zenon
<1>5. RowsNamed'
  <2>1. ASSUME NEW i \in identity'
        PROVE  /\ i.hash \in known' /\ i.hash[1] = i.id /\ i.hash[2] <= attached[i.id]
               /\ i.status = "CONFIRMED" => i.hash \in confirmed
               /\ i.hash[2] = attached[i.id] => i.age <= fresh[i.id]
    BY <1>2, <1>3, InvIs, Zenon DEF RowsNamed
  <2>2. ASSUME NEW i \in identity', NEW j \in identity', i.id = j.id PROVE i = j
    BY <1>2, <2>2, InvIs, Zenon DEF RowsNamed
  <2> QED BY <2>1, <2>2, Zenon DEF RowsNamed
<1> QED BY <1>2, <1>3, <1>4, <1>5, Zenon

\* A send writes the row of its own transfer, the first one of it.
LEMMA InsertTxKeeps ==
  ASSUME ReattacherInv, NEW t \in Txn, InsertTx(t)
  PROVE  ReattacherInv'
<1> DEFINE obj == [id |-> t, hash |-> <<t, 1>>, status |-> "PENDING", age |-> 0]
<1>1. PICK ok \in BOOLEAN : /\ db_insert_identity_table(obj, ok)
                            /\ sending' = [sending EXCEPT ![t] = IF ok THEN "answered" ELSE "error"]
  BY Zenon DEF InsertTx
<1>2. sending[t] = "insert" /\ UNCHANGED <<attached, fresh, confirmed, batch, worker>>
  BY Zenon DEF InsertTx
<1>3. attached[t] = 1 /\ \A i \in identity : i.id # t
  BY <1>2, InvIs, Zenon DEF Requested
<1>4. obj \in Identity /\ obj.id = t /\ obj.hash[1] = t /\ obj.hash[2] = 1 /\ obj.status = "PENDING" /\ obj.age = 0
  <2>1. 1 \in 1..MaxAttach /\ 0 \in Age
    BY ReattacherAssumption, SMTT(20) DEF Age
  <2> QED BY <2>1, Zenon DEF Identity, Hash
<1> HIDE DEF obj
<1>5. /\ sending' \in [Txn -> {"idle", "buffered", "broadcast", "attached", "insert", "answered", "error"}]
      /\ sending'[t] \in {"answered", "error"} /\ \A u \in Txn \ {t} : sending'[u] = sending[u]
      /\ sending'[t] = "answered" => ok
  BY <1>1, InvIs, Zenon
<1>6. CASE ~ok /\ Fault /\ UNCHANGED <<identity, known>>
  <2>1. spent' \in 0..ReattachFaults /\ spent' >= spent /\ spent' >= spent + 1
    BY <1>6, InvIs, FaultIs, Zenon
  <2>2. \A u \in Txn : sending'[u] = sending[u] \/ (sending[u] \in {"attached", "insert"} /\ sending'[u] = "error")
    BY <1>2, <1>5, <1>6, Zenon
  <2> QED BY <1>2, <1>5, <1>6, <2>1, <2>2, OnlyRequests, Zenon
<1>7. CASE Upsert(obj) /\ ((ok /\ UNCHANGED spent) \/ (~ok /\ Fault))
  <2>1. spent \in Nat /\ spent' \in Nat /\ spent' \in 0..ReattachFaults /\ spent' >= spent
    <3>1. spent \in Nat /\ spent \in 0..ReattachFaults
      BY InvIs, Zenon
    <3>2. spent' = spent \/ (spent' \in 0..ReattachFaults /\ spent' >= spent)
      BY <1>7, <3>1, FaultIs, Zenon
    <3> QED BY <3>1, <3>2, ReattacherAssumption, SMTT(20)
  <2>2. obj.hash[2] <= attached[t] /\ obj.age <= fresh[t]
    <3>1. fresh[t] \in Age
      BY InvIs, Zenon
    <3> QED BY <1>3, <1>4, <3>1, ReattacherAssumption, SMTT(20) DEF Age
  <2>3. /\ RowsNamed' /\ identity' \subseteq Identity /\ known' \subseteq Hash
        /\ known \subseteq known' /\ obj.hash \in known' /\ obj \in identity'
        /\ \A i \in identity : i.id # t => i \in identity'
        /\ \A i \in identity' : i = obj \/ (i \in identity /\ i.id # t)
    BY <1>2, <1>4, <1>7, <2>2, UpsertIs, Zenon
  <2>4. identity \subseteq identity'
    BY <1>3, <2>3, Zenon
  <2>5. ReattacherTypeOK' /\ (worker \in Workers)'
    BY <1>2, <1>5, <2>1, <2>3, InvIs, Zenon DEF ReattacherTypeOK
  <2>6. Copies'
    BY <1>2, <2>4, InvIs, Zenon DEF Copies
  <2>7. Requested'
    <3>1. ASSUME NEW u \in Txn \ {t}
          PROVE  /\ sending'[u] \in {"idle", "buffered"} => attached[u] = 0
                 /\ sending'[u] \in {"attached", "insert"} => attached[u] = 1 /\ \A i \in identity' : i.id # u
                 /\ sending'[u] = "answered" => \E i \in identity' : i.id = u
                 /\ sending'[u] \in {"buffered", "broadcast"} => spent' >= 1
      <4>1. spent >= 1 => spent' >= 1
        BY <2>1, SMTT(20)
      <4>2. /\ sending[u] \in {"idle", "buffered"} => attached[u] = 0
            /\ sending[u] \in {"attached", "insert"} => attached[u] = 1 /\ \A i \in identity : i.id # u
            /\ sending[u] = "answered" => \E i \in identity : i.id = u
            /\ sending[u] \in {"buffered", "broadcast"} => spent >= 1
        BY InvIs, Zenon DEF Requested
      <4>3. (\A i \in identity : i.id # u) => \A i \in identity' : i.id # u
        BY <1>4, <2>3, Zenon
      <4> QED BY <1>5, <2>4, <4>1, <4>2, <4>3, Zenon
    <3>2. \E i \in identity' : i.id = t
      BY <1>4, <2>3, Zenon
    <3> QED BY <1>2, <1>5, <3>1, <3>2, Zenon DEF Requested
  <2>8. ASSUME NEW u \in Txn
        PROVE  Untracked(u)' \subseteq Untracked(u)
    <3>1. CASE u # t
      BY <1>2, <1>5, <2>3, <3>1, Zenon DEF Untracked
    <3>2. CASE u = t
      <4>1. 1..attached'[t] = {1}
        BY <1>2, <1>3, SMTT(20)
      <4>2. <<t, 1>> \in known'
        BY <2>3, Zenon DEF obj
      <4>3. Untracked(t)' = {}
        BY <4>1, <4>2, SMTT(20) DEF Untracked
      <4> QED BY <3>2, <4>3, Zenon
    <3> QED BY <3>1, <3>2, Zenon
  <2>9. OneOrphanPerFault'
    BY <2>1, <2>8, OrphansBounded, Zenon
  <2> QED BY <2>3, <2>5, <2>6, <2>7, <2>9, Zenon DEF ReattacherInv
<1> QED BY <1>1, <1>6, <1>7, Zenon DEF db_insert_identity_table

\* The reattacher writes the row it has handled, or fails to.
LEMMA RowWritten ==
  ASSUME ReattacherInv, worker # Sleeping, worker' = Sleeping, NEW obj \in Identity,
         UNCHANGED <<attached, fresh, confirmed, sending, batch>>,
         obj.id = worker.obj.id, obj.hash[1] = obj.id, obj.hash[2] <= attached[obj.id],
         obj.status = "CONFIRMED" => obj.hash \in confirmed,
         obj.hash[2] = attached[obj.id] => obj.age <= fresh[obj.id],
         worker.at = "update" => obj.hash = worker.new,
         NEW ok \in BOOLEAN, db_insert_identity_table(obj, ok)
  PROVE  ReattacherInv'
<1>1. worker'.at = "sleep" /\ worker' \in Workers /\ spent \in Nat /\ spent \in 0..ReattachFaults
  BY InvIs, Zenon DEF Sleeping, Workers
<1>2. CASE Fault /\ UNCHANGED <<identity, known>>
  <2>1. spent' \in 0..ReattachFaults /\ spent' >= spent + 1
    BY <1>1, <1>2, FaultIs, Zenon
  <2>2. Copies'
    BY <1>1, <1>2, InvIs, Zenon DEF Copies
  <2>3. confirmed' \subseteq Hash
    BY InvIs, Zenon
  <2> QED BY <1>1, <1>2, <2>1, <2>2, <2>3, OnlyReattacher, Zenon
<1>3. CASE Upsert(obj) /\ (UNCHANGED spent \/ Fault)
  <2>1. spent' \in Nat /\ spent' \in 0..ReattachFaults /\ spent' >= spent
    <3>1. spent' = spent \/ (spent' \in 0..ReattachFaults /\ spent' >= spent)
      BY <1>1, <1>3, FaultIs, Zenon
    <3> QED BY <1>1, <3>1, ReattacherAssumption, SMTT(20)
  <2>2. /\ RowsNamed' /\ identity' \subseteq Identity /\ known' \subseteq Hash
        /\ known \subseteq known' /\ obj.hash \in known' /\ obj \in identity'
        /\ \A i \in identity : i.id # obj.id => i \in identity'
        /\ \A i \in identity' : i = obj \/ (i \in identity /\ i.id # obj.id)
    BY <1>3, UpsertIs, Zenon
  <2>3. worker.obj \in identity /\ worker.obj \notin batch
    BY InvIs, Zenon DEF Copies
  <2>4. ReattacherTypeOK'
    BY <2>1, <2>2, InvIs, Zenon DEF ReattacherTypeOK
  <2>5. Copies'
    <3>1. ASSUME NEW i \in batch PROVE i \in identity' /\ i.status = "PENDING"
      <4>1. i \in identity /\ i.status = "PENDING"
        BY InvIs, Zenon DEF Copies
      <4>2. i.id # obj.id
        BY <2>3, <4>1, InvIs, Zenon DEF RowsNamed
      <4> QED BY <2>2, <4>1, <4>2, Zenon
    <3> QED BY <1>1, <3>1, Zenon DEF Copies
  <2>6. ASSUME NEW u \in Txn
        PROVE  /\ sending[u] \in {"idle", "buffered"} => attached[u] = 0
               /\ sending[u] \in {"attached", "insert"} => attached[u] = 1 /\ \A i \in identity' : i.id # u
               /\ sending[u] = "answered" => \E i \in identity' : i.id = u
               /\ sending[u] \in {"buffered", "broadcast"} => spent' >= 1
    <3>1. /\ sending[u] \in {"idle", "buffered"} => attached[u] = 0
          /\ sending[u] \in {"attached", "insert"} => attached[u] = 1 /\ \A i \in identity : i.id # u
          /\ sending[u] = "answered" => \E i \in identity : i.id = u
          /\ sending[u] \in {"buffered", "broadcast"} => spent >= 1
      BY InvIs, Zenon DEF Requested
    <3>2. (\A i \in identity : i.id # u) => \A i \in identity' : i.id # u
      BY <2>2, <2>3, Zenon
    <3>3. (\E i \in identity : i.id = u) => \E i \in identity' : i.id = u
      BY <2>2, Zenon
    <3>4. spent >= 1 => spent' >= 1
      BY <1>1, <2>1, SMTT(20)
    <3> QED BY <3>1, <3>2, <3>3, <3>4, Zenon
  <2>7. Requested'
    BY <2>6, Zenon DEF Requested
  <2>8. \A u \in Txn : Untracked(u)' \subseteq Untracked(u)
    BY <1>1, <2>2, Zenon DEF Untracked
  <2>9. OneOrphanPerFault'
    BY <2>1, <2>8, OrphansBounded, Zenon
  <2> QED BY <1>1, <2>2, <2>4, <2>5, <2>7, <2>9, Zenon DEF ReattacherInv
<1> QED BY <1>2, <1>3, Zenon DEF db_insert_identity_table

\* A row that is renewed: its hash and its time change.
LEMMA RenewedIs ==
  ASSUME NEW i \in Identity, NEW h \in Hash
  PROVE  /\ Renewed(i, h) \in Identity /\ Renewed(i, h).id = i.id /\ Renewed(i, h).hash = h
         /\ Renewed(i, h).status = i.status /\ Renewed(i, h).age = 0
<1>1. 0 \in Age
  BY ReattacherAssumption, SMTT(20) DEF Age
<1>2. Renewed(i, h) \in Identity
  BY <1>1, Zenon DEF Identity, Renewed
<1>3. /\ Renewed(i, h).id = i.id /\ Renewed(i, h).hash = h
      /\ Renewed(i, h).status = i.status /\ Renewed(i, h).age = 0
  BY SMTT(20) DEF Identity, Renewed
<1> QED BY <1>2, <1>3, Zenon

\* handle_pending_txn writes the row it has read, renewed or confirmed.
LEMMA WriteKeeps == ReattacherInv /\ (WriteConfirmed \/ WriteHash) => ReattacherInv'
<1> SUFFICES ASSUME ReattacherInv, WriteConfirmed \/ WriteHash PROVE ReattacherInv'
  OBVIOUS
<1>1. /\ worker.at \in {"confirm", "update"} /\ worker' = Sleeping
      /\ UNCHANGED <<attached, fresh, confirmed, sending, batch>>
  BY Zenon DEF WriteConfirmed, WriteHash
<1>2. worker # Sleeping /\ worker.obj \in Identity /\ worker.obj \in identity
  <2>1. worker # Sleeping
    BY <1>1, InvIs, WorkerIs, Zenon
  <2> QED BY <2>1, InvIs, WorkerIs, Zenon DEF Copies
<1> DEFINE row == worker.obj
<1>3. /\ row.hash[1] = row.id /\ row.hash[2] <= attached[row.id] /\ row.id \in Txn
      /\ row.hash[2] = attached[row.id] => row.age <= fresh[row.id]
  BY <1>2, InvIs, RowIs, Zenon DEF RowsNamed
<1>4. attached[row.id] \in 0..MaxAttach /\ fresh[row.id] \in Age
  BY <1>3, InvIs, Zenon
<1>5. CASE WriteConfirmed
  <2> DEFINE obj == [row EXCEPT !.status = "CONFIRMED"]
  <2>1. PICK ok \in BOOLEAN : db_insert_identity_table(obj, ok)
    BY <1>5, Zenon DEF WriteConfirmed
  <2>2. worker.at = "confirm" /\ row.hash \in confirmed
    BY <1>5, InvIs, Zenon DEF WriteConfirmed, Copies
  <2> HIDE DEF row
  <2>3. /\ obj \in Identity /\ obj.id = row.id /\ obj.hash = row.hash /\ obj.status = "CONFIRMED"
        /\ obj.age = row.age
    BY <1>2, SMTT(20) DEF Identity, row
  <2> HIDE DEF obj
  <2> QED BY <1>1, <1>2, <1>3, <2>1, <2>2, <2>3, RowWritten, Zenon DEF row
<1>6. CASE WriteHash
  <2> DEFINE obj == Renewed(row, worker.new)
  <2>1. PICK ok \in BOOLEAN : db_insert_identity_table(obj, ok)
    BY <1>6, Zenon DEF WriteHash
  <2>2. worker.at = "update" /\ worker.new = <<row.id, attached[row.id]>> /\ row.status = "PENDING" /\ worker.new \in Hash
    BY <1>2, <1>6, InvIs, WorkerIs, Zenon DEF WriteHash, Copies
  <2>3. /\ obj \in Identity /\ obj.id = row.id /\ obj.hash = worker.new /\ obj.status = "PENDING" /\ obj.age = 0
    <3>2. row \in Identity
      BY <1>2, Zenon
    <3> QED BY <2>2, <3>2, RenewedIs, Zenon
  <2> HIDE DEF obj
  <2>4. obj.hash[1] = obj.id /\ obj.hash[2] <= attached[obj.id] /\ obj.age <= fresh[obj.id]
    <3>1. obj.hash[1] = obj.id /\ obj.hash[2] = attached[row.id]
      BY <2>2, <2>3, SMTT(20)
    <3>2. attached[row.id] <= attached[row.id] /\ 0 <= fresh[row.id]
      BY <1>4, ReattacherAssumption, SMTT(20) DEF Age
    <3> QED BY <2>3, <3>1, <3>2, Zenon
  <2>5. obj.status # "CONFIRMED"
    BY <2>3, Zenon
  <2> QED BY <1>1, <1>2, <2>1, <2>2, <2>3, <2>4, <2>5, RowWritten, Zenon
<1> QED BY <1>5, <1>6, Zenon

\* A replay: the new attachment is on its way into the row.
LEMMA ReplayKeeps == ReattacherInv /\ Replay => ReattacherInv'
<1> SUFFICES ASSUME ReattacherInv, Replay PROVE ReattacherInv'
  OBVIOUS
<1> DEFINE t == worker.obj.id
<1>1. worker.at = "replay" /\ UNCHANGED <<confirmed, identity, sending, batch, known>>
  BY Zenon DEF Replay
<1>2. worker # Sleeping /\ worker.obj \in Identity /\ worker.obj \in identity /\ worker.obj \notin batch
      /\ worker.obj.status = "PENDING"
  <2>1. worker # Sleeping
    BY <1>1, InvIs, WorkerIs, Zenon
  <2> QED BY <2>1, InvIs, WorkerIs, Zenon DEF Copies
<1>3. t \in Txn
  BY <1>2, RowIs, Zenon
<1>4. CASE worker' = Sleeping /\ UNCHANGED <<attached, fresh>> /\ (UNCHANGED spent \/ Fault)
  <2>1. worker'.at = "sleep" /\ worker' \in Workers
    BY <1>4, Zenon DEF Sleeping, Workers
  <2>2. Copies'
    BY <1>1, <1>4, <2>1, InvIs, Zenon DEF Copies
  <2>3. spent' \in 0..ReattachFaults /\ (spent' = spent \/ spent' >= spent + 1)
    BY <1>4, InvIs, FaultIs, Zenon
  <2>4. confirmed' \subseteq Hash /\ worker.at # "update"
    BY <1>1, InvIs, Zenon
  <2> QED BY <1>1, <1>4, <2>1, <2>2, <2>3, <2>4, OnlyReattacher, Zenon
<1>5. CASE Attach(t) /\ worker' = Replayed(worker.obj) /\ UNCHANGED spent
  <2>1. /\ attached' \in [Txn -> 0..MaxAttach] /\ fresh' \in [Txn -> Age]
        /\ attached[t] \in Nat /\ attached'[t] = attached[t] + 1 /\ attached[t] + 1 \in 1..MaxAttach
        /\ \A u \in Txn \ {t} : attached'[u] = attached[u] /\ fresh'[u] = fresh[u]
    BY <1>3, <1>5, InvIs, AttachIs, Zenon
  <2>2. worker' = [at |-> "update", obj |-> worker.obj, new |-> <<t, attached[t] + 1>>]
    BY <1>5, Zenon DEF Replayed
  <2>3. <<t, attached[t] + 1>> \in Hash
    BY <1>3, <2>1, Zenon DEF Hash
  <2>4. /\ worker' \in Workers /\ worker'.at = "update" /\ worker'.obj = worker.obj
        /\ worker'.new = <<t, attached'[t]>>
    <3>1. worker' \in Workers
      BY <1>2, <2>2, <2>3, Zenon DEF Workers
    <3>2. worker'.at = "update" /\ worker'.obj = worker.obj /\ worker'.new = <<t, attached[t] + 1>>
      BY <2>2, Zenon
    <3> QED BY <2>1, <3>1, <3>2, Zenon
  <2>5. attached[t] # 0
    BY <1>2, <1>3, NoRow, Zenon
  <2>6. ReattacherTypeOK'
    BY <1>1, <1>2, <1>5, <2>1, <2>4, InvIs, Zenon DEF ReattacherTypeOK
  <2>7. RowsNamed'
    <3>1. ASSUME NEW i \in identity
          PROVE  /\ i.hash \in known /\ i.hash[1] = i.id /\ i.hash[2] <= attached'[i.id]
                 /\ i.status = "CONFIRMED" => i.hash \in confirmed
                 /\ i.hash[2] = attached'[i.id] => i.age <= fresh'[i.id]
      <4>1. /\ i.hash \in known /\ i.hash[1] = i.id /\ i.hash[2] <= attached[i.id]
            /\ i.status = "CONFIRMED" => i.hash \in confirmed
            /\ i.hash[2] = attached[i.id] => i.age <= fresh[i.id]
        BY InvIs, Zenon DEF RowsNamed
      <4>2. i.id \in Txn /\ i.hash[2] \in Nat
        BY InvIs, RowIs, Zenon
      <4>3. CASE i.id = t
        <5>1. i.hash[2] <= attached[t]
          BY <4>1, <4>3, Zenon
        <5>2. i.hash[2] <= attached'[t] /\ i.hash[2] # attached'[t]
          BY <2>1, <4>2, <5>1, SMTT(20)
        <5> QED BY <4>1, <4>3, <5>2, Zenon
      <4>4. CASE i.id # t
        BY <2>1, <4>1, <4>2, <4>4, Zenon
      <4> QED BY <4>3, <4>4, Zenon
    <3> QED BY <1>1, <3>1, InvIs, Zenon DEF RowsNamed
  <2>8. Copies'
    BY <1>1, <1>2, <2>4, InvIs, Zenon DEF Copies
  <2>9. Requested'
    <3>1. ASSUME NEW u \in Txn
          PROVE  /\ sending[u] \in {"idle", "buffered"} => attached'[u] = 0
                 /\ sending[u] \in {"attached", "insert"} => attached'[u] = 1 /\ \A i \in identity : i.id # u
                 /\ sending[u] = "answered" => \E i \in identity : i.id = u
                 /\ sending[u] \in {"buffered", "broadcast"} => spent >= 1
      <4>1. /\ sending[u] \in {"idle", "buffered"} => attached[u] = 0
            /\ sending[u] \in {"attached", "insert"} => attached[u] = 1 /\ \A i \in identity : i.id # u
            /\ sending[u] = "answered" => \E i \in identity : i.id = u
            /\ sending[u] \in {"buffered", "broadcast"} => spent >= 1
        BY InvIs, Zenon DEF Requested
      <4>2. CASE u = t
        BY <1>2, <2>5, <4>1, <4>2, Zenon
      <4>3. CASE u # t
        BY <2>1, <4>1, <4>3, Zenon
      <4> QED BY <4>2, <4>3, Zenon
    <3> QED BY <1>1, <1>5, <3>1, Zenon DEF Requested
  <2>10. ASSUME NEW u \in Txn PROVE Untracked(u)' \subseteq Untracked(u)
    <3>1. CASE u # t
      <4>1. worker.at # "update"
        BY <1>1, Zenon
      <4> QED BY <1>1, <2>1, <3>1, <4>1, Zenon DEF Untracked
    <3>2. CASE u = t
      <4>1. \A n \in 1..attached'[t] : n = attached'[t] \/ n \in 1..attached[t]
        BY <2>1, SMTT(20)
      <4>2. ASSUME NEW h \in Untracked(u)' PROVE h \in Untracked(u)
        <5>1. /\ h \in {t} \X (1..attached'[t]) /\ h \notin known /\ h # <<t, attached'[t]>>
              /\ sending[t] \notin {"attached", "insert"}
          BY <1>1, <2>4, <3>2, <4>2, Zenon DEF Untracked
        <5>2. PICK n \in 1..attached'[t] : h = <<t, n>>
          BY <5>1, SMTT(20)
        <5>3. n \in 1..attached[t]
          BY <4>1, <5>1, <5>2, Zenon
        <5>4. h \in {t} \X (1..attached[t])
          BY <5>2, <5>3, Zenon
        <5> QED BY <1>1, <3>2, <5>1, <5>4, Zenon DEF Untracked
      <4> QED BY <4>2, Zenon
    <3> QED BY <3>1, <3>2, Zenon
  <2>11. OneOrphanPerFault'
    <3>1. spent' \in Nat /\ spent' >= spent
      BY <1>5, InvIs, SMTT(20)
    <3> QED BY <2>10, <3>1, OrphansBounded, Zenon
  <2> QED BY <2>4, <2>6, <2>7, <2>8, <2>9, <2>11, Zenon DEF ReattacherInv
<1> QED BY <1>4, <1>5, Zenon DEF Replay, ReplayFails

\* A row one tick later.
Aged(i) == [i EXCEPT !.age = Older(@)]

\* Ages grow in step: what is persistent stays so.
LEMMA OlderIs ==
  ASSUME NEW a \in Age, NEW f \in Age
  PROVE  /\ Older(a) \in Age /\ (a <= f => Older(a) <= Older(f)) /\ (a > Persistent => Older(a) > Persistent)
BY ReattacherAssumption, SMTT(20) DEF Older, Age

\* Only the age of a row changes with time.
LEMMA AgedIs ==
  ASSUME NEW i \in Identity
  PROVE  /\ Aged(i) \in Identity /\ Aged(i).id = i.id /\ Aged(i).hash = i.hash
         /\ Aged(i).status = i.status /\ Aged(i).age = Older(i.age)
<1>1. Older(i.age) \in Age
  BY RowIs, OlderIs, Zenon
<1>2. Aged(i) \in Identity
  BY <1>1, Zenon DEF Identity, Aged
<1>3. /\ Aged(i).id = i.id /\ Aged(i).hash = i.hash
      /\ Aged(i).status = i.status /\ Aged(i).age = Older(i.age)
  BY SMTT(20) DEF Identity, Aged
<1> QED BY <1>2, <1>3, Zenon

\* Time passes for the rows and for the copies that were read.
LEMMA TickKeeps == ReattacherInv /\ Tick => ReattacherInv'
<1> SUFFICES ASSUME ReattacherInv, Tick PROVE ReattacherInv'
  OBVIOUS
<1>1. /\ fresh' = [t \in Txn |-> IF attached[t] = 0 THEN 0 ELSE Older(fresh[t])]
      /\ identity' = {Aged(i) : i \in identity} /\ batch' = {Aged(i) : i \in batch}
      /\ UNCHANGED <<attached, confirmed, sending, spent, known>>
  BY Zenon DEF Tick, Aged
<1>2. worker' = IF worker = Sleeping THEN worker ELSE [worker EXCEPT !.obj.age = Older(@)]
  BY Zenon DEF Tick
<1>3. worker # Sleeping => worker' = [worker EXCEPT !.obj = Aged(worker.obj)]
  BY <1>2, SMTT(20) DEF Aged
<1>4. \A i \in identity : i \in Identity
  BY InvIs, Zenon
<1>5. \A i \in Identity : /\ Aged(i) \in Identity /\ Aged(i).id = i.id /\ Aged(i).hash = i.hash
                          /\ Aged(i).status = i.status /\ Aged(i).age = Older(i.age)
  BY AgedIs, Zenon
<1>6. \A t \in Txn : attached[t] # 0 => fresh'[t] = Older(fresh[t])
  BY <1>1, Zenon
<1>7. fresh' \in [Txn -> Age]
  <2>1. 0 \in Age
    BY ReattacherAssumption, SMTT(20) DEF Age
  <2>2. \A t \in Txn : Older(fresh[t]) \in Age
    BY InvIs, OlderIs, Zenon
  <2> QED BY <1>1, <2>1, <2>2, Zenon
<1>8. /\ worker' \in Workers /\ worker'.at = worker.at
      /\ worker # Sleeping => worker' # Sleeping /\ worker'.obj = Aged(worker.obj)
      /\ worker = Sleeping => worker' = Sleeping
      /\ worker.at = "update" => worker'.new = worker.new
  <2>1. CASE worker = Sleeping
    <3>1. worker' = worker /\ worker.at = "sleep"
      BY <1>2, <2>1, Zenon DEF Sleeping
    <3> QED BY <2>1, <3>1, InvIs, Zenon
  <2>2. CASE worker \in [at : {"confirm", "replay"}, obj : Identity] /\ worker # Sleeping
    <3>1. Aged(worker.obj) \in Identity /\ worker' = [worker EXCEPT !.obj = Aged(worker.obj)]
      BY <1>3, <1>5, <2>2, Zenon
    <3>2. worker' \in [at : {"confirm", "replay"}, obj : Identity]
      BY <2>2, <3>1, Zenon
    <3>3. worker'.at = worker.at /\ worker'.obj = Aged(worker.obj) /\ worker.at # "update" /\ worker'.at # "sleep"
      BY <2>2, <3>1, SMTT(20)
    <3> QED BY <2>2, <3>2, <3>3, SMTT(20) DEF Workers, Sleeping
  <2>3. CASE worker \in [at : {"update"}, obj : Identity, new : Hash] /\ worker # Sleeping
    <3>1. Aged(worker.obj) \in Identity /\ worker' = [worker EXCEPT !.obj = Aged(worker.obj)]
      BY <1>3, <1>5, <2>3, Zenon
    <3>2. worker' \in [at : {"update"}, obj : Identity, new : Hash]
      BY <2>3, <3>1, Zenon
    <3>3. worker'.at = worker.at /\ worker'.obj = Aged(worker.obj) /\ worker'.new = worker.new /\ worker'.at # "sleep"
      BY <2>3, <3>1, SMTT(20)
    <3> QED BY <2>3, <3>2, <3>3, SMTT(20) DEF Workers, Sleeping
  <2> QED BY <2>1, <2>2, <2>3, InvIs, Zenon DEF Workers
<1>9. ReattacherTypeOK'
  <2>1. worker' # Sleeping => worker'.at \in {"confirm", "replay", "update"} /\ worker'.obj \in Identity
    BY <1>5, <1>8, InvIs, WorkerIs, Zenon
  <2>2. identity' \subseteq Identity /\ batch' \subseteq Identity
    BY <1>1, <1>5, InvIs, Zenon
  <2> QED BY <1>1, <1>7, <2>1, <2>2, InvIs, Zenon DEF ReattacherTypeOK
<1>10. RowsNamed'
  <2>1. ASSUME NEW i \in identity
        PROVE  LET j == Aged(i) IN
               /\ j.hash \in known /\ j.hash[1] = j.id /\ j.hash[2] <= attached[j.id]
               /\ j.status = "CONFIRMED" => j.hash \in confirmed
               /\ j.hash[2] = attached[j.id] => j.age <= fresh'[j.id]
    <3>1. /\ i.hash \in known /\ i.hash[1] = i.id /\ i.hash[2] <= attached[i.id]
          /\ i.status = "CONFIRMED" => i.hash \in confirmed
          /\ i.hash[2] = attached[i.id] => i.age <= fresh[i.id]
      BY InvIs, Zenon DEF RowsNamed
    <3>2. i.id \in Txn /\ i.age \in Age /\ fresh[i.id] \in Age /\ fresh'[i.id] = Older(fresh[i.id])
      <4>1. i.id \in Txn /\ i.age \in Age
        BY <1>4, RowIs, Zenon
      <4>2. attached[i.id] # 0
        BY <4>1, NoRow, Zenon
      <4> QED BY <1>6, <4>1, <4>2, InvIs, Zenon
    <3>3. i.age <= fresh[i.id] => Older(i.age) <= fresh'[i.id]
      BY <3>2, OlderIs, Zenon
    <3> QED BY <1>4, <1>5, <3>1, <3>3, Zenon
  <2>2. ASSUME NEW i \in identity, NEW j \in identity, Aged(i).id = Aged(j).id PROVE Aged(i) = Aged(j)
    BY <1>4, <1>5, <2>2, InvIs, SMTT(20) DEF RowsNamed
  <2> QED BY <1>1, <2>1, <2>2, SMTT(20) DEF RowsNamed
<1>11. Copies'
  <2>1. batch' \subseteq identity' /\ \A i \in batch' : i.status = "PENDING"
    BY <1>1, <1>4, <1>5, InvIs, SMTT(20) DEF Copies
  <2>2. ASSUME worker # Sleeping
        PROVE  Aged(worker.obj) \in identity' /\ Aged(worker.obj) \notin batch' /\ Aged(worker.obj).status = "PENDING"
    <3>1. worker.obj \in identity /\ worker.obj \notin batch /\ worker.obj.status = "PENDING" /\ batch \subseteq identity
      BY <2>2, InvIs, Zenon DEF Copies
    <3>2. ASSUME NEW i \in batch PROVE Aged(worker.obj) # Aged(i)
      BY <1>4, <1>5, <3>1, InvIs, SMTT(20) DEF RowsNamed
    <3> QED BY <1>1, <1>4, <1>5, <3>1, <3>2, Zenon
  <2>3. worker.at = "confirm" => worker # Sleeping /\ Aged(worker.obj).hash \in confirmed
    BY <1>5, InvIs, WorkerIs, Zenon DEF Copies
  <2>4. worker.at = "replay" => worker # Sleeping /\ Aged(worker.obj).age > Persistent
    <3> SUFFICES ASSUME worker.at = "replay" PROVE worker # Sleeping /\ Aged(worker.obj).age > Persistent
      OBVIOUS
    <3>1. worker # Sleeping /\ worker.obj \in Identity /\ worker.obj.age > Persistent
      BY InvIs, WorkerIs, Zenon DEF Copies
    <3>2. worker.obj.age \in Age
      BY <3>1, RowIs, Zenon
    <3> QED BY <1>5, <3>1, <3>2, OlderIs, Zenon
  <2>5. worker.at = "update" =>
           worker # Sleeping /\ worker.new = <<Aged(worker.obj).id, attached[Aged(worker.obj).id]>>
    BY <1>5, InvIs, WorkerIs, Zenon DEF Copies
  <2> QED BY <1>1, <1>8, <2>1, <2>2, <2>3, <2>4, <2>5, Zenon DEF Copies
<1>12. Requested'
  <2>1. \A u \in Txn : (\A i \in identity : i.id # u) => \A i \in identity' : i.id # u
    BY <1>1, <1>4, <1>5, SMTT(20)
  <2>2. \A u \in Txn : (\E i \in identity : i.id = u) => \E i \in identity' : i.id = u
    BY <1>1, <1>4, <1>5, SMTT(20)
  <2> QED BY <1>1, <2>1, <2>2, InvIs, Zenon DEF Requested
<1>13. OneOrphanPerFault'
  <2>1. \A u \in Txn : Untracked(u)' \subseteq Untracked(u)
    BY <1>1, <1>8, Zenon DEF Untracked
  <2>2. spent' \in Nat /\ spent' >= spent
    BY <1>1, InvIs, SMTT(20)
  <2> QED BY <2>1, <2>2, OrphansBounded, Zenon
<1> QED BY <1>8, <1>9, <1>10, <1>11, <1>12, <1>13, Zenon DEF ReattacherInv

\* Every step keeps the invariant of the reattacher.
LEMMA ReattacherInvStep == ReattacherInv /\ [ReattacherNext]_rvars => ReattacherInv'
<1> SUFFICES ASSUME ReattacherInv, [ReattacherNext]_rvars PROVE ReattacherInv'
  OBVIOUS
<1>1. ASSUME NEW t \in Txn, Transfer(t) \/ BroadcastBuffered(t) \/ FindObject(t) \/ InsertTx(t)
      PROVE  ReattacherInv'
  BY <1>1, RequestKeeps, InsertTxKeeps, Zenon
<1>2. CASE CrashAccelerator
  BY <1>2, CrashAcceleratorKeeps, Zenon
<1>3. CASE Reattach
  BY <1>3, SelectKeeps, CheckInclusionKeeps, WriteKeeps, ReplayKeeps, Zenon DEF Reattach
<1>4. CASE CrashReattacher
  BY <1>4, SelectKeeps, Zenon
<1>5. ASSUME NEW h \in Hash, Confirm(h) PROVE ReattacherInv'
  BY <1>5, ConfirmKeeps, Zenon
<1>6. CASE Tick
  BY <1>6, TickKeeps, Zenon
<1>7. CASE UNCHANGED rvars
  <2>1. UNCHANGED <<attached, fresh, confirmed, identity, batch, worker, known>> /\ sending' = sending /\ spent' = spent
    BY <1>7, Zenon DEF rvars
  <2>2. spent' \in 0..ReattachFaults /\ spent' >= spent
    BY <2>1, InvIs, SMTT(20)
  <2>3. sending' \in [Txn -> {"idle", "buffered", "broadcast", "attached", "insert", "answered", "error"}]
    BY <2>1, InvIs, Zenon DEF ReattacherTypeOK
  <2> QED BY <2>1, <2>2, <2>3, OnlyRequests, Zenon
<1> QED BY <1>1, <1>2, <1>3, <1>4, <1>5, <1>6, <1>7, Zenon DEF ReattacherNext

\* The invariant always holds.
LEMMA ReattacherInvHolds == ReattacherSpec => []ReattacherInv
BY ReattacherInvInit, ReattacherInvStep, PTL DEF ReattacherSpec

\* The identity table stays right whatever is interleaved, refused or killed: an
\* answered client finds exactly one attachment of its transfer by its uuid,
\* CONFIRMED is reported of confirmed transactions only, and each fault of
\* handle_pending_txn or of a send costs at most one attachment that no row names
\* (reattacher_main.c:39-99).
THEOREM RowsStayRight == ReattacherSpec => []RowsMatchTangle
<1>1. ReattacherInv => RowsMatchTangle
  <2> SUFFICES ASSUME ReattacherInv PROVE RowsMatchTangle
    OBVIOUS
  <2>1. AnsweredIsFound
    <3> SUFFICES ASSUME NEW t \in Txn, sending[t] = "answered"
                 PROVE  \E n \in 1..attached[t] : api_find_transactions_by_id(t) = {<<t, n>>}
      BY Zenon DEF AnsweredIsFound
    <3>1. PICK i \in identity : i.id = t
      BY InvIs, Zenon DEF Requested
    <3>2. \A j \in identity : j.id = t => j = i
      BY <3>1, InvIs, Zenon DEF RowsNamed
    <3>3. i \in Identity /\ i.hash[1] = t /\ i.hash[2] <= attached[t]
      BY <3>1, InvIs, Zenon DEF RowsNamed
    <3>4. i.hash = <<t, i.hash[2]>> /\ i.hash[2] \in 1..attached[t]
      BY <3>3, InvIs, SMTT(20) DEF Identity, Hash, ReattacherTypeOK
    <3>5. api_find_transactions_by_id(t) = {i.hash}
      BY <3>1, <3>2, Zenon DEF api_find_transactions_by_id, db_get_identity_objs_by_uuid_string
    <3> QED BY <3>4, <3>5, Zenon
  <2>2. ReportedIsConfirmed
    BY InvIs, Zenon DEF ReportedIsConfirmed, api_get_identity_info, db_get_identity_objs_by_hash, RowsNamed
  <2> QED BY <2>1, <2>2, Zenon DEF RowsMatchTangle, ReattacherInv
<1> QED BY <1>1, ReattacherInvHolds, PTL

\* Nothing is attached again before its time: the step of handle_pending_txn that
\* replays a bundle finds the newest attachment persistent, although the age it
\* tests is that of a row read earlier, unless a lost write has left the row with
\* an older attachment (reattacher_main.c:68).
THEOREM RenewedOnlyWhenDue == ReattacherSpec => NewestIsPersistent
<1>1. ReattacherInv /\ [ReattacherNext]_rvars => [AttachesPersistent]_rvars
  <2> SUFFICES ASSUME ReattacherInv, ReattacherNext, NEW t \in Txn, attached[t] > 0, attached'[t] > attached[t],
                      api_find_transactions_by_id(t) = {<<t, attached[t]>>}
               PROVE  fresh[t] > Persistent
    BY Zenon DEF AttachesPersistent
  <2>1. attached[t] \in Nat /\ attached[t] # 0 /\ attached'[t] # attached[t]
    BY InvIs, SMTT(20) DEF ReattacherTypeOK
  <2>2. ASSUME NEW u \in Txn, Transfer(u) \/ BroadcastBuffered(u) PROVE FALSE
    <3>1. sending[u] \in {"idle", "buffered"} /\ (Attach(u) \/ UNCHANGED attached)
      BY <2>2, Zenon DEF Transfer, BroadcastBuffered
    <3>2. attached[u] = 0
      BY <3>1, InvIs, Zenon DEF Requested
    <3> QED BY <2>1, <3>1, <3>2, InvIs, AttachIs, Zenon
  <2>3. ~ UNCHANGED attached
    BY <2>1, Zenon
  <2>4. Replay /\ Attach(worker.obj.id)
    BY <2>2, <2>3, Zenon DEF ReattacherNext, FindObject, InsertTx, CrashAccelerator, Reattach, Select,
          CheckInclusion, WriteConfirmed, Replay, WriteHash, CrashReattacher, Confirm, Tick
  <2>5. /\ worker.obj \in identity /\ worker.obj \in Identity /\ worker.obj.id \in Txn
        /\ worker.obj.age \in Age /\ worker.obj.age > Persistent
    <3>1. worker.at = "replay" /\ worker # Sleeping
      BY <2>4, InvIs, WorkerIs, Zenon DEF Replay
    <3>2. worker.obj \in identity /\ worker.obj \in Identity /\ worker.obj.age > Persistent
      BY <3>1, InvIs, WorkerIs, Zenon DEF Copies
    <3> QED BY <3>2, RowIs, Zenon
  <2>6. t = worker.obj.id
    BY <2>1, <2>4, <2>5, InvIs, AttachIs, Zenon
  <2>7. worker.obj.hash = <<t, attached[t]>>
    BY <2>5, <2>6, Zenon DEF api_find_transactions_by_id, db_get_identity_objs_by_uuid_string
  <2>8. worker.obj.age <= fresh[t]
    <3>1. worker.obj.hash[2] = attached[t]
      BY <2>7, SMTT(20)
    <3> QED BY <2>5, <2>6, <3>1, InvIs, Zenon DEF RowsNamed
  <2>9. fresh[t] \in Age
    BY InvIs, Zenon DEF ReattacherTypeOK
  <2> QED BY <2>5, <2>8, <2>9, ReattacherAssumption, SMTT(20) DEF Age
<1> QED BY <1>1, ReattacherInvHolds, PTL DEF ReattacherSpec, NewestIsPersistent

-----------------------------------------------------------------------------
(* The permanode *)

\* What an insertion has written is as far as it has come; an approvee has its
\* row, and approves what it stands under.
WrittenInOrder ==
    /\ \A h \in Stored :
          /\ insert[h] \in {"trunk", "branch", "ok"} => h \in rows
          /\ insert[h] \in {"branch", "ok"} => h \in approvees[Trunk[h]]
          /\ insert[h] = "ok" => h \in approvees[Branch[h]]
    /\ \A h \in inserted : insert[h] = "ok"
    /\ \A k \in Tx : \A h \in approvees[k] : h \in rows /\ k \in {Trunk[h], Branch[h]}

\* The rows with a value in a column.
Hits(c) == {h \in rows : c.column \in Fields[h]}

\* Each criterion that was asked had a hit, and its hits are complete.
AskedWell(c) ==
    /\ Matches(c) \cap search.found # {}
    /\ \/ c \in [column : Column] /\ Cardinality(Hits(c)) > Limit
       \/ Matches(c) \cap search.before \subseteq search.found

\* What a search has found so far.
SearchInv ==
    /\ search.found \subseteq rows /\ search.before \subseteq inserted
    /\ search.at = "run" => \A c \in search.done : AskedWell(c)

SearchRecord ==
    [at : {"idle", "run", "error"}, todo : SUBSET Criterion, done : SUBSET Criterion,
     found : SUBSET Stored, before : SUBSET Stored]

\* The inductive invariant of the permanode.
PermanodeInv ==
    /\ PermanodeTypeOK /\ search \in SearchRecord
    /\ WrittenInOrder /\ SearchInv

\* The tables are empty at first.
LEMMA PermanodeInvInit == PermanodeInit => PermanodeInv
<1> SUFFICES ASSUME PermanodeInit PROVE PermanodeInv
  OBVIOUS
<1>1. search \in SearchRecord /\ search.found = {} /\ search.before = {} /\ search.done = {} /\ search.todo = {}
  BY DEF PermanodeInit, NoSearch, SearchRecord
<1>2. PermanodeTypeOK
  BY <1>1, PermanodeAssumption DEF PermanodeInit, PermanodeTypeOK, NoSearch
<1>3. WrittenInOrder
  BY DEF PermanodeInit, WrittenInOrder
<1> QED BY <1>1, <1>2, <1>3 DEF PermanodeInv, SearchInv

\* Hits are only added: a criterion that was cut off by the LIMIT stays so.
LEMMA HitsGrow ==
    ASSUME rows \subseteq rows', rows' \subseteq Stored, NEW c
    PROVE  Cardinality(Hits(c)) > Limit => Cardinality(Hits(c)') > Limit
<1>1. IsFiniteSet(Hits(c)') /\ Hits(c) \in SUBSET (Hits(c)')
  BY PermanodeAssumption, FS_Subset DEF Hits
<1>2. IsFiniteSet(Hits(c)) /\ Cardinality(Hits(c)) <= Cardinality(Hits(c)')
  BY <1>1, FS_Subset
<1>3. Cardinality(Hits(c)) \in Nat /\ Cardinality(Hits(c)') \in Nat
  BY <1>1, <1>2, FS_CardinalityType
<1> QED BY <1>2, <1>3, PermanodeAssumption

\* A statement of an insertion, whether it fails or not.
LEMMA InsertKeeps ==
    ASSUME PermanodeInv, NEW h \in Stored, db_permanode_insert_transaction(h)
    PROVE  PermanodeInv'
<1> DEFINE at == IF insert[h] = "idle" THEN NextWrite("idle") ELSE insert[h]
<1> USE PermanodeAssumption
<1>1. /\ insert[h] \in {"idle", "row", "trunk", "branch"} /\ insert[h] # "ok"
      /\ at \in {"row", "trunk", "branch"} /\ at = IF insert[h] = "idle" THEN "row" ELSE insert[h]
      /\ NextWrite(at) = IF at = "row" THEN "trunk" ELSE IF at = "trunk" THEN "branch" ELSE "ok"
  BY DEF db_permanode_insert_transaction, PermanodeInv, PermanodeTypeOK, NextWrite
<1>2. /\ \/ Write(h, at)
         \/ UNCHANGED <<rows, approvees>>
      /\ \/ /\ Write(h, at) /\ insert' = [insert EXCEPT ![h] = NextWrite(at)]
            /\ inserted' = IF NextWrite(at) = "ok" THEN inserted \cup {h} ELSE inserted
            /\ failures' = failures
         \/ /\ insert' = [insert EXCEPT ![h] = "idle"] /\ inserted' = inserted
            /\ failures < PermanodeFaults /\ failures' = failures + 1
      /\ UNCHANGED search
  BY Zenon DEF db_permanode_insert_transaction, StatementFails, InsertFails
<1>3. /\ rows \in SUBSET Stored /\ approvees \in [Tx -> SUBSET Stored] /\ inserted \in SUBSET Stored
      /\ insert \in [Stored -> {"idle", "row", "trunk", "branch", "ok"}] /\ failures \in 0..PermanodeFaults
      /\ WrittenInOrder /\ SearchInv /\ search \in SearchRecord /\ Tx = Stored \cup Missing
      /\ Trunk[h] \in Tx /\ Branch[h] \in Tx
  BY DEF PermanodeInv, PermanodeTypeOK, Tx
<1>4. \/ at = "row" /\ rows' = rows \cup {h} /\ approvees' = approvees
      \/ at = "trunk" /\ approvees' = [approvees EXCEPT ![Trunk[h]] = @ \cup {h}] /\ rows' = rows
      \/ at = "branch" /\ approvees' = [approvees EXCEPT ![Branch[h]] = @ \cup {h}] /\ rows' = rows
      \/ rows' = rows /\ approvees' = approvees
  BY <1>1, <1>2, Zenon DEF Write, insert_transaction, insert_approvee
<1> HIDE DEF at
<1>5. /\ rows' \in SUBSET Stored /\ approvees' \in [Tx -> SUBSET Stored] /\ rows \subseteq rows'
      /\ \A k \in Tx : approvees[k] \subseteq approvees'[k]
  BY <1>3, <1>4
<1>6. /\ insert' \in [Stored -> {"idle", "row", "trunk", "branch", "ok"}] /\ inserted' \in SUBSET Stored
      /\ failures' \in 0..PermanodeFaults /\ inserted \subseteq inserted'
      /\ \A g \in Stored \ {h} : insert'[g] = insert[g]
  BY <1>1, <1>2, <1>3
<1>7. \A k \in Tx : \A g \in approvees'[k] : g \in rows' /\ k \in {Trunk[g], Branch[g]}
  <2>1. \A k \in Tx : \A g \in approvees[k] : g \in rows' /\ k \in {Trunk[g], Branch[g]}
    BY <1>3, <1>5 DEF WrittenInOrder
  <2>2. at \in {"trunk", "branch"} => h \in rows
    BY <1>1, <1>3 DEF WrittenInOrder
  <2>3. \A k \in Tx : \A g \in approvees'[k] : g \in approvees[k] \/ (g = h /\ at = "trunk" /\ k = Trunk[h]) \/ (g = h /\ at = "branch" /\ k = Branch[h])
    BY <1>3, <1>4
  <2> QED BY <1>5, <2>1, <2>2, <2>3
<1>8. \A g \in Stored :
         /\ insert'[g] \in {"trunk", "branch", "ok"} => g \in rows'
         /\ insert'[g] \in {"branch", "ok"} => g \in approvees'[Trunk[g]]
         /\ insert'[g] = "ok" => g \in approvees'[Branch[g]]
  <2> TAKE g \in Stored
  <2>1. CASE g # h
    <3>1. /\ insert[g] \in {"trunk", "branch", "ok"} => g \in rows
          /\ insert[g] \in {"branch", "ok"} => g \in approvees[Trunk[g]]
          /\ insert[g] = "ok" => g \in approvees[Branch[g]]
      BY <1>3 DEF WrittenInOrder
    <3>2. Trunk[g] \in Tx /\ Branch[g] \in Tx
      BY <1>3
    <3> QED BY <1>5, <1>6, <2>1, <3>1, <3>2
  <2>2. CASE g = h
    <3>1. CASE insert'[h] = "idle"
      BY <2>2, <3>1
    <3>2. CASE insert'[h] # "idle"
      <4>1. Write(h, at) /\ insert'[h] = NextWrite(at)
        BY <1>2, <1>3, <3>2
      <4>2. CASE at = "row"
        BY <1>1, <2>2, <4>1, <4>2, Zenon DEF Write, insert_transaction
      <4>3. CASE at = "trunk"
        <5>1. h \in rows /\ insert'[h] = "branch"
          BY <1>1, <1>3, <4>1, <4>3 DEF WrittenInOrder
        <5>2. h \in approvees'[Trunk[h]]
          BY <1>3, <4>1, <4>3 DEF Write, insert_approvee
        <5> QED BY <1>5, <2>2, <5>1, <5>2
      <4>4. CASE at = "branch"
        <5>1. h \in rows /\ h \in approvees[Trunk[h]]
          BY <1>1, <1>3, <4>4 DEF WrittenInOrder
        <5>2. h \in approvees'[Branch[h]]
          BY <1>3, <4>1, <4>4 DEF Write, insert_approvee
        <5> QED BY <1>3, <1>5, <2>2, <5>1, <5>2
      <4> QED BY <1>1, <4>2, <4>3, <4>4
    <3> QED BY <3>1, <3>2
  <2> QED BY <2>1, <2>2
<1>9. \A g \in inserted' : insert'[g] = "ok"
  <2>1. \A g \in inserted : g # h /\ insert[g] = "ok"
    BY <1>1, <1>3 DEF WrittenInOrder
  <2>2. \A g \in inserted' : g \in inserted \/ (g = h /\ insert'[h] = "ok")
    BY <1>2, <1>3
  <2> QED BY <1>3, <1>6, <2>1, <2>2
<1>10. SearchInv'
  <2>1. search' = search
    BY <1>2
  <2>2. ASSUME NEW c \in search.done, AskedWell(c)
        PROVE  AskedWell(c)'
    <3>1. Matches(c)' = Matches(c)
      BY DEF Matches
    <3> QED BY <1>5, <2>1, <2>2, <3>1, HitsGrow DEF AskedWell
  <2> QED BY <1>3, <1>5, <1>6, <2>1, <2>2 DEF SearchInv
<1>11. PermanodeTypeOK'
  BY <1>2, <1>5, <1>6 DEF PermanodeInv, PermanodeTypeOK
<1> QED BY <1>2, <1>3, <1>7, <1>8, <1>9, <1>10, <1>11 DEF PermanodeInv, WrittenInOrder

\* What a query gives matches its criterion and is there; it leaves out what was
\* recorded only where the LIMIT cut it off.
LEMMA QueryFinds ==
    ASSUME PermanodeInv, NEW c \in Criterion, NEW answer \in Query(c)
    PROVE  /\ answer \subseteq Matches(c) /\ answer \subseteq rows
           /\ \/ c \in [column : Column] /\ Cardinality(Hits(c)) > Limit
              \/ Matches(c) \cap inserted \subseteq answer
<1> USE PermanodeAssumption
<1>1. rows \subseteq Stored /\ inserted \subseteq Stored /\ WrittenInOrder /\ approvees \in [Tx -> SUBSET Stored]
  BY DEF PermanodeInv, PermanodeTypeOK
<1>2. CASE c \in [column : Column]
  <2>1. Matches(c) = {h \in Stored : c.column \in Fields[h]}
    BY <1>2 DEF Matches
  <2>2. Query(c) = IF Cardinality(Hits(c)) <= Limit THEN {Hits(c)} ELSE kSubset(Limit, Hits(c))
    BY <1>2 DEF Query, get_hash_from_transaction_table, Hits
  <2>3. Hits(c) \subseteq Matches(c) /\ Hits(c) \subseteq rows
    BY <1>1, <2>1 DEF Hits
  <2>4. Matches(c) \cap inserted \subseteq Hits(c)
    BY <1>1, <2>1 DEF Hits, WrittenInOrder
  <2>5. CASE Cardinality(Hits(c)) <= Limit
    BY <2>2, <2>3, <2>4, <2>5
  <2>6. CASE ~(Cardinality(Hits(c)) <= Limit)
    <3>1. IsFiniteSet(Hits(c)) /\ Cardinality(Hits(c)) \in Nat
      BY <1>1, FS_Subset, FS_CardinalityType DEF Hits
    <3> QED BY <1>2, <2>2, <2>3, <2>6, <3>1 DEF kSubset
  <2> QED BY <2>5, <2>6
<1>3. CASE c \notin [column : Column]
  <2>1. c \in [approves : Tx] /\ c.approves \in Tx
    BY <1>3 DEF Criterion
  <2>2. answer = approvees[c.approves] /\ Matches(c) = {h \in Stored : c.approves \in {Trunk[h], Branch[h]}}
    BY <1>3 DEF Query, db_get_approvee, Matches
  <2>3. answer \subseteq Matches(c) /\ answer \subseteq rows
    BY <1>1, <2>1, <2>2 DEF WrittenInOrder
  <2>4. \A h \in inserted : h \in approvees[Trunk[h]] /\ h \in approvees[Branch[h]]
    BY <1>1 DEF WrittenInOrder
  <2> QED BY <2>2, <2>3, <2>4
<1> QED BY <1>2, <1>3

\* The steps of a search.
LEMMA SearchKeeps ==
    ASSUME PermanodeInv, StartSearch \/ db_client_find_transactions \/ EndSearch
    PROVE  PermanodeInv'
<1>1. UNCHANGED <<rows, approvees, insert, inserted>> /\ failures' \in 0..PermanodeFaults
  <2>1. UNCHANGED <<rows, approvees, insert, inserted>>
    BY Zenon DEF StartSearch, db_client_find_transactions, EndSearch
  <2>2. failures' = failures \/ (failures < PermanodeFaults /\ failures' = failures + 1)
    BY Zenon DEF StartSearch, db_client_find_transactions, EndSearch, StatementFails
  <2>3. failures \in 0..PermanodeFaults /\ PermanodeFaults \in Nat
    BY PermanodeAssumption DEF PermanodeInv, PermanodeTypeOK
  <2> QED BY <2>1, <2>2, <2>3
<1>2. SUFFICES search' \in SearchRecord /\ SearchInv'
  <2>1. search' \in SearchRecord => PermanodeTypeOK'
    BY <1>1 DEF PermanodeInv, PermanodeTypeOK, SearchRecord
  <2> QED BY <1>1, <1>2, <2>1 DEF PermanodeInv, WrittenInOrder
<1>3. /\ search \in SearchRecord /\ SearchInv /\ inserted \subseteq Stored /\ rows \subseteq Stored
  BY DEF PermanodeInv, PermanodeTypeOK
<1>4. CASE StartSearch
  <2>1. PICK todo \in SUBSET Criterion :
           search' = [at |-> "run", todo |-> todo, done |-> {}, found |-> {}, before |-> inserted]
    BY <1>4, Zenon DEF StartSearch
  <2> QED BY <1>1, <1>3, <2>1 DEF SearchRecord, SearchInv
<1>5. CASE EndSearch
  <2>1. search' = NoSearch
    BY <1>5 DEF EndSearch
  <2> QED BY <1>1, <2>1 DEF NoSearch, SearchRecord, SearchInv
<1>6. CASE db_client_find_transactions
  <2>1. PICK c \in search.todo :
          \/ \E answer \in Query(c) :
                search' = [search EXCEPT !.todo = @ \ {c}, !.done = @ \cup {c}, !.found = @ \cup answer,
                                         !.at = IF Answered(answer) THEN "run" ELSE "error"]
          \/ search' = [search EXCEPT !.at = "error"]
    BY <1>6, Zenon DEF db_client_find_transactions
  <2>2. c \in Criterion
    BY <1>3 DEF SearchRecord
  <2>3. CASE search' = [search EXCEPT !.at = "error"]
    BY <1>1, <1>3, <2>3 DEF SearchRecord, SearchInv
  <2>4. ASSUME NEW answer \in Query(c),
               search' = [search EXCEPT !.todo = @ \ {c}, !.done = @ \cup {c}, !.found = @ \cup answer,
                                        !.at = IF Answered(answer) THEN "run" ELSE "error"]
        PROVE  search' \in SearchRecord /\ SearchInv'
    <3>1. /\ answer \subseteq Matches(c) /\ answer \subseteq rows
          /\ \/ c \in [column : Column] /\ Cardinality(Hits(c)) > Limit
             \/ Matches(c) \cap inserted \subseteq answer
      BY <2>2, QueryFinds
    <3>2. /\ search'.todo = search.todo \ {c} /\ search'.done = search.done \cup {c}
          /\ search'.found = search.found \cup answer /\ search'.before = search.before
          /\ search'.at \in {"run", "error"} /\ (search'.at = "run" => answer # {})
      BY <1>3, <2>4 DEF SearchRecord, Answered
    <3>3. search' \in SearchRecord
      BY <1>3, <2>2, <2>4, <3>1, <3>2, Zenon DEF SearchRecord
    <3>4. ASSUME search'.at = "run", NEW d \in search'.done
          PROVE  AskedWell(d)'
      <4>1. Matches(d)' = Matches(d) /\ Hits(d)' = Hits(d)
        BY <1>1 DEF Matches, Hits
      <4>2. CASE d = c
        BY <1>3, <3>1, <3>2, <3>4, <4>1, <4>2 DEF AskedWell, SearchInv
      <4>3. CASE d # c
        <5>1. search.at = "run"
          BY <1>6, Zenon DEF db_client_find_transactions
        <5>2. AskedWell(d)
          BY <1>3, <3>2, <4>3, <5>1 DEF SearchInv
        <5> QED BY <3>2, <4>1, <5>2 DEF AskedWell
      <4> QED BY <4>2, <4>3
    <3> QED BY <1>1, <1>3, <3>1, <3>2, <3>3, <3>4 DEF SearchInv
  <2> QED BY <2>1, <2>3, <2>4, Zenon
<1> QED BY <1>4, <1>5, <1>6

\* Every step of the listener and of a search keeps the invariant.
LEMMA PermanodeInvStep == PermanodeInv /\ [PermanodeNext]_pvars => PermanodeInv'
<1> SUFFICES ASSUME PermanodeInv, [PermanodeNext]_pvars PROVE PermanodeInv'
  OBVIOUS
<1>1. CASE UNCHANGED pvars
  <2>1. \A c : AskedWell(c)' <=> AskedWell(c)
    BY <1>1 DEF AskedWell, Matches, Hits, pvars
  <2>2. SearchInv'
    BY <1>1, <2>1, Zenon DEF pvars, PermanodeInv, SearchInv
  <2>3. WrittenInOrder'
    BY <1>1, Zenon DEF pvars, PermanodeInv, WrittenInOrder
  <2> QED BY <1>1, <2>2, <2>3, Zenon DEF pvars, PermanodeInv, PermanodeTypeOK
<1> QED BY <1>1, InsertKeeps, SearchKeeps DEF PermanodeNext

\* The invariant always holds.
LEMMA PermanodeInvHolds == PermanodeSpec => []PermanodeInv
BY PermanodeInvInit, PermanodeInvStep, PTL DEF PermanodeSpec

\* A search that ends well gives what is held, leaves out nothing that was
\* recorded before it but what the LIMIT cuts off, and each of its criteria was
\* met, for any number of transactions, feeders and failed statements.
THEOREM SearchesAreRight == PermanodeSpec => []SearchIsRight
<1>1. PermanodeInv => SearchIsRight
  <2> SUFFICES ASSUME PermanodeInv PROVE SearchIsRight
    OBVIOUS
  <2>1. search.found \subseteq rows /\ WrittenInOrder /\ SearchInv /\ inserted \subseteq Stored
    BY DEF PermanodeInv, SearchInv, PermanodeTypeOK
  <2>2. FoundIsHeld
    BY <2>1 DEF FoundIsHeld, db_client_get_trytes, db_client_get_inclusion_states
  <2>3. FoundIsComplete /\ FoundMatchesAll
    BY <2>1, Zenon DEF FoundIsComplete, FoundMatchesAll, SearchInv, AskedWell, Hits
  <2>4. InsertedIsRecorded
    BY <2>1 DEF InsertedIsRecorded, WrittenInOrder
  <2> QED BY <2>2, <2>3, <2>4 DEF SearchIsRight
<1> QED BY <1>1, PermanodeInvHolds, PTL
=============================================================================
