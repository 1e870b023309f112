------------------------------- MODULE MamChannel_proofs -------------------------------
EXTENDS MamChannel, TLAPS, FiniteSetTheorems

\* A step that names no prover is tried with SMT and then with Zenon, 20 s each.
USE SMTT(20), ZenonT(20)

-----------------------------------------------------------------------------
(* The key and the operation that ta_mam_written_msg_to_bundle chooses.     *)

\* A set of naturals that is not empty has a least member.
LEMMA MinIsLeast ==
  ASSUME NEW S \in SUBSET Nat, S # {}
  PROVE  Min(S) \in S /\ \A x \in S : Min(S) <= x
<1> DEFINE Less == {ss \in Nat \X Nat : ss[1] < ss[2]}
<1>1. OpToRel(<, Nat) = Less
  BY Zenon DEF OpToRel
<1>2. IsWellFoundedOn(Less, Nat)
  BY <1>1, NatLessThanWellFounded, Zenon
<1>3. \A x, y \in Nat : <<x, y>> \notin Less => y <= x
  BY SMTT(20)
<1> HIDE DEF Less
<1>4. PICK x \in S : \A y \in S : <<y, x>> \notin Less
  BY <1>2, WFMin, Zenon
<1>5. \A y \in S : x <= y
  BY <1>3, <1>4, Zenon
<1> QED BY <1>5, Zenon DEF Min

\* A channel has at least two keys.
LEMMA TwoKeys == \A d \in Depth : NumKeys(d) \in Nat /\ NumKeys(d) >= 2
BY MamChannelAssumption, Zenon DEF NumKeys

\* The inner loop stops at a key with no message, after keys that all have one.
LEMMA FirstFreeIs ==
  ASSUME NEW d \in Depth, NEW tags \in SUBSET (0 .. NumKeys(d) - 1)
  PROVE  /\ FirstFree(d, tags) \in 0 .. NumKeys(d)
         /\ FirstFree(d, tags) \notin tags
         /\ \A k \in 0 .. FirstFree(d, tags) - 1 : k \in tags
<1> DEFINE n == NumKeys(d)
           S == {k \in 0 .. n : k \notin tags}
           free == Min(S)
<1>1. n \in Nat
  BY TwoKeys, Zenon
<1>0. FirstFree(d, tags) = free
  BY Zenon DEF FirstFree
<1>2. tags \subseteq 0 .. n - 1
  OBVIOUS
<1> HIDE DEF n
<1>3. n \in S
  BY <1>1, <1>2, SMTT(20)
<1>4. S \subseteq Nat
  BY <1>1, SMTT(20)
<1>5. free \in S /\ \A x \in S : free <= x
  <2> HIDE DEF S
  <2> QED BY <1>3, <1>4, MinIsLeast, Zenon
<1>6. ASSUME NEW k \in 0 .. free - 1 PROVE k \in tags
  BY <1>1, <1>5, SMTT(20)
<1> QED BY <1>0, <1>5, <1>6, Zenon DEF n

\* A part of a finite set: finite, not larger, and all of it when as large.
LEMMA PartOf ==
  ASSUME NEW n, NEW T, NEW S, IsFiniteSet(T), Cardinality(T) = n, S \subseteq T
  PROVE  IsFiniteSet(S) /\ Cardinality(S) <= n /\ (n = Cardinality(S) => T = S)
BY FS_Subset, Zenon

\* The counters tell a full channel, a channel whose announcement is due and any
\* other channel apart.
LEMMA OperationIs ==
  ASSUME NEW d \in Depth, NEW tags \in SUBSET (0 .. NumKeys(d) - 1)
  PROVE  /\ Operation(d, tags) \in {"next", "SEND_MESSAGE", "ANNOUNCE_CHID"}
         /\ Operation(d, tags) = "next" <=> FirstFree(d, tags) = NumKeys(d)
         /\ Operation(d, tags) = "ANNOUNCE_CHID" <=> FirstFree(d, tags) = NumKeys(d) - 2
<1> DEFINE n == NumKeys(d)
           free == FirstFree(d, tags)
           tried == Min({free + 1, n})
           remain == n - tried
           size == Cardinality(tags)
           op == CASE remain = 1 -> "ANNOUNCE_CHID"
                   [] remain = 0 /\ size - tried = 0 -> "next"
                   [] OTHER -> "SEND_MESSAGE"
<1>1. n \in Nat /\ n >= 2
  BY TwoKeys, Zenon
<1>2. free \in 0 .. n /\ free \notin tags /\ \A k \in 0 .. free - 1 : k \in tags
  BY FirstFreeIs, Zenon
<1>3. Operation(d, tags) = op
  BY Zenon DEF Operation
<1>4. tags \subseteq 0 .. n - 1
  OBVIOUS
<1>5. IsFiniteSet(0 .. n - 1) /\ Cardinality(0 .. n - 1) = n
  <2> HIDE DEF n
  <2>1. 0 \in Int /\ n - 1 \in Int /\ ~(0 > n - 1) /\ n - 1 - 0 + 1 = n
    BY <1>1, SMTT(20)
  <2> QED BY <2>1, FS_Interval, Zenon
<1>6. /\ size \in Nat /\ size <= n
      /\ size = n => tags = 0 .. n - 1
  <2> HIDE DEF n, free, tried, remain, op
  <2>1. IsFiniteSet(tags) /\ size <= n /\ (n = size => 0 .. n - 1 = tags)
    <3>1. PICK T : T = 0 .. n - 1
      BY Zenon
    <3>2. IsFiniteSet(T) /\ Cardinality(T) = n /\ tags \subseteq T
      BY <1>4, <1>5, <3>1, Zenon
    <3>3. IsFiniteSet(tags) /\ Cardinality(tags) <= n /\ (n = Cardinality(tags) => T = tags)
      BY <3>2, PartOf, Zenon
    <3> QED BY <3>1, <3>3, Zenon
  <2>2. size \in Nat
    BY <2>1, FS_CardinalityType, Zenon
  <2> QED BY <2>1, <2>2, Zenon
<1>7. size = n <=> free = n
  <2>1. ASSUME size = n PROVE free = n
    <3>1. tags = 0 .. n - 1
      BY <1>6, <2>1, Zenon
    <3> HIDE DEF n, free, size
    <3> QED BY <1>1, <1>2, <3>1, SMTT(20)
  <2>2. ASSUME free = n PROVE size = n
    <3> HIDE DEF n, free
    <3>2. \A k \in 0 .. n - 1 : k \in tags
      BY <1>2, <2>2, Zenon
    <3>1. tags = 0 .. n - 1
      BY <1>4, <3>2, Zenon
    <3> QED BY <1>5, <3>1, Zenon
  <2> QED BY <2>1, <2>2, Zenon
<1>8. tried \in {free + 1, n} /\ tried <= free + 1 /\ tried <= n
  <2> HIDE DEF n, free
  <2>1. {free + 1, n} \subseteq Nat
    BY <1>1, <1>2, SMTT(20)
  <2>2. tried \in {free + 1, n} /\ \A x \in {free + 1, n} : tried <= x
    BY <2>1, MinIsLeast, Zenon
  <2> QED BY <2>2, Zenon
<1> HIDE DEF n, free, tried, size
<1>9. (remain = 1 <=> free = n - 2) /\ (remain = 0 /\ size - tried = 0 <=> free = n)
  BY <1>1, <1>2, <1>6, <1>7, <1>8, SMTT(20)
<1>10. ~(free = n - 2 /\ free = n)
  BY <1>1, <1>2, SMTT(20)
<1>11. /\ op \in {"next", "SEND_MESSAGE", "ANNOUNCE_CHID"}
       /\ op = "next" <=> free = n
       /\ op = "ANNOUNCE_CHID" <=> free = n - 2
  <2>1. CASE remain = 1
    BY <1>9, <1>10, <2>1, Zenon
  <2>2. CASE remain # 1 /\ remain = 0 /\ size - tried = 0
    BY <1>9, <1>10, <2>2, Zenon
  <2>3. CASE remain # 1 /\ ~(remain = 0 /\ size - tried = 0)
    BY <1>9, <1>10, <2>3, Zenon
  <2> QED BY <2>1, <2>2, <2>3, Zenon
<1> HIDE DEF op
<1> QED BY <1>3, <1>11, Zenon DEF n, free

-----------------------------------------------------------------------------
(* The invariant.                                                           *)

\* The next channel of the same seed, and the key kept for announcing it.
Successor(ch) == Channel(ch.seed, ch.depth, ch.ord + 1)
LastKey(ch) == NumKeys(ch.depth) - 1

\* The announcement of the next channel is published, or was signed and lost.
Settled(bundles, gone, ch) ==
    \/ \E c \in bundles : c.ch = ch /\ c.key = LastKey(ch) /\ c.body = [chid1 |-> Successor(ch)]
    \/ <<ch, LastKey(ch)>> \in gone

\* Every earlier channel of a client's seed is settled.
Chained(bundles, gone, ch) ==
    ch.seed \in Seed =>
       \A j \in 0 .. ch.ord - 1 : Settled(bundles, gone, Channel(ch.seed, ch.depth, j))

\* A key signed a bundle that is published, or was lost.
UsedOrLost(bundles, gone, ch, k) == k \in KeysOn(bundles, ch) \/ <<ch, k>> \in gone

\* An announcement has the last key, and the keys below it signed something.
AnnouncedInOrder(bundles, gone, b) ==
    /\ b.key = LastKey(b.ch) /\ b.body = [chid1 |-> Successor(b.ch)]
    /\ \A k \in 0 .. b.key - 1 : UsedOrLost(bundles, gone, b.ch, k)

\* A message has messages below it, and the announcement follows the last but one.
SentInOrder(bundles, gone, pending, b) ==
    /\ \A k \in 0 .. b.key - 1 : k \in KeysOn(bundles, b.ch)
    /\ b.key = LastKey(b.ch) - 1 => Settled(bundles, gone, b.ch) \/ b.ch \in pending

\* The channel whose announcement the sender is about to publish.
Pending == IF s.pc = "announce" THEN {s.ch} ELSE {}

\* The keys of every channel were used in their order.
SignedInOrder ==
    \A b \in tangle : AnnouncedInOrder(tangle, lost, b) \/ SentInOrder(tangle, lost, Pending, b)

\* A channel that is in use, or that a client was told of, can be reached.
Linked ==
    /\ \A b \in tangle : Chained(tangle, lost, b.ch)
    /\ \A ch \in told : Chained(tangle, lost, ch)

\* What the locals of the sender say of the channel and of the key at hand.
Writing ==
    /\ s.ord > 0 /\ s.ch = ChannelOf(s, s.ord - 1) /\ Chained(tangle, lost, s.ch)
    /\ s.key \in 0 .. LastKey(s.ch) /\ \A k \in 0 .. s.key - 1 : k \in KeysOn(tangle, s.ch)

\* The channel that the outer loop looks at next.
Looked(x) == ChannelOf(x, IF x.given THEN x.ord - 1 ELSE x.ord)

\* Where the sender stands, and what it knows there.
Signing ==
    /\ s.pc = "start" => s.req.chid \in told /\ (s.req.seed # None => s.ord = 0)
    /\ s.pc = "fetch" => (s.given => s.ord > 0) /\ Chained(tangle, lost, Looked(s))
    /\ s.pc = "send" => Writing /\ (s.op = "ANNOUNCE_CHID" <=> s.key = LastKey(s.ch) - 1)
    /\ s.pc = "announce" =>
          Writing /\ s.key = LastKey(s.ch) - 1 /\ UsedOrLost(tangle, lost, s.ch, s.key)

\* Nothing but the announcement itself has the key of the announcement.
KeptForNext(bundles, ch) ==
    \A b \in bundles : b.ch = ch /\ b.key = LastKey(ch) => b.body = [chid1 |-> Successor(ch)]

\* While no full node has lagged behind, the key at hand is a fresh one.
NewKey ==
    ~lagged =>
        /\ view = tangle
        /\ \A b, c \in tangle : SameBody(b, c)
        /\ s.pc = "send" => s.key \notin KeysOn(tangle, s.ch)
        /\ s.pc = "announce" => KeptForNext(tangle, s.ch)

\* Types of the sender and of the bounds.
Requests == [seed : Seed \cup {None}, depth : Depth, chid : ChannelSet \cup {None}, enc : BOOLEAN]

Sender ==
    [pc : {"start", "fetch", "send", "announce", "save", "saving"}, req : Requests, msg : Nat,
     given : BOOLEAN, ch : ChannelSet \cup {None}, key : Nat,
     op : {"none", "next", "SEND_MESSAGE", "ANNOUNCE_CHID"}, ord : Nat]

Budget == [msgs : Nat, reads : Nat, faults : Nat]

\* The types, with the sender's record spelled out.
Types ==
    /\ TypeOK
    /\ budget \in Budget
    /\ s = Resting \/ s \in Sender
    /\ lagged \in BOOLEAN

\* The inductive invariant of the channels.
MamInv == Types /\ SignedInOrder /\ Linked /\ Signing /\ NewKey

\* Nothing is published and no one sends at first.
LEMMA MamInvInit == Init => MamInv
<1> SUFFICES ASSUME Init PROVE MamInv
  OBVIOUS
<1>1. tangle = {} /\ view = {} /\ told = {} /\ lagged = FALSE /\ s = Resting /\ r = Resting
  BY Zenon DEF Init
<1>2. s.pc = "idle" /\ r.pc = "idle"
  BY <1>1, SMTT(20) DEF Resting
<1>3. budget \in Budget
  BY MamChannelAssumption, SMTT(20) DEF Init, Budget
<1>4. Types
  BY <1>1, <1>2, <1>3, Zenon DEF Types, TypeOK, Init
<1>5. SignedInOrder /\ Linked
  BY <1>1, Zenon DEF SignedInOrder, Linked
<1>6. Signing /\ NewKey
  BY <1>1, <1>2, Zenon DEF Signing, NewKey
<1> QED BY <1>4, <1>5, <1>6, Zenon DEF MamInv

\* What is settled, chained or used stays so while bundles are only added.
LEMMA LedgerGrows ==
  ASSUME NEW T, NEW L, NEW U, NEW M, T \subseteq U, L \subseteq M
  PROVE  /\ \A ch : \A k \in KeysOn(T, ch) : k \in KeysOn(U, ch)
         /\ \A ch, k : UsedOrLost(T, L, ch, k) => UsedOrLost(U, M, ch, k)
         /\ \A ch : Settled(T, L, ch) => Settled(U, M, ch)
         /\ \A ch : Chained(T, L, ch) => Chained(U, M, ch)
         /\ \A b : AnnouncedInOrder(T, L, b) => AnnouncedInOrder(U, M, b)
<1>1. ASSUME NEW ch, NEW k \in KeysOn(T, ch) PROVE k \in KeysOn(U, ch)
  BY <1>1, Zenon DEF KeysOn
<1>2. ASSUME NEW ch, NEW k, UsedOrLost(T, L, ch, k) PROVE UsedOrLost(U, M, ch, k)
  BY <1>1, <1>2, Zenon DEF UsedOrLost
<1>3. ASSUME NEW ch, Settled(T, L, ch) PROVE Settled(U, M, ch)
  BY <1>3, Zenon DEF Settled
<1>4. ASSUME NEW ch, Chained(T, L, ch) PROVE Chained(U, M, ch)
  BY <1>3, <1>4, Zenon DEF Chained
<1>5. ASSUME NEW b, AnnouncedInOrder(T, L, b) PROVE AnnouncedInOrder(U, M, b)
  BY <1>2, <1>5, Zenon DEF AnnouncedInOrder
<1> QED BY <1>1, <1>2, <1>3, <1>4, <1>5, Zenon

\* The first channel of a seed has no predecessor, and no reader follows the
\* channels of the seed of the configuration.
LEMMA FirstIsChained ==
  ASSUME NEW T, NEW L, NEW ch, ch.seed \notin Seed \/ ch.ord = 0
  PROVE  Chained(T, L, ch)
<1>1. ASSUME ch.ord = 0 PROVE 0 .. ch.ord - 1 = {}
  BY <1>1, SMTT(20)
<1> QED BY <1>1, Zenon DEF Chained

\* The fields of a channel.
LEMMA ChannelIs ==
  ASSUME NEW x, NEW n
  PROVE  /\ ChannelOf(x, n).seed = Owner(x.req)
         /\ ChannelOf(x, n).depth = x.req.depth
         /\ ChannelOf(x, n).ord = n
         /\ x.req.seed = None => ChannelOf(x, n).seed \notin Seed
         /\ x \in Sender /\ n \in Nat => ChannelOf(x, n) \in ChannelSet
<1>1. /\ ChannelOf(x, n).seed = Owner(x.req)
      /\ ChannelOf(x, n).depth = x.req.depth
      /\ ChannelOf(x, n).ord = n
  BY SMTT(20) DEF ChannelOf, Channel
<1>2. x.req.seed = None => Owner(x.req) \notin Seed
  BY MamChannelAssumption, Zenon DEF Owner
<1>3. ASSUME x \in Sender, n \in Nat PROVE ChannelOf(x, n) \in ChannelSet
  <2>1. x.req \in Requests
    BY <1>3, SMTT(20) DEF Sender
  <2>2. x.req.seed \in Seed \cup {None} /\ x.req.depth \in Depth
    BY <2>1, SMTT(20) DEF Requests
  <2>3. Owner(x.req) \in Seed \cup {ConfSeed}
    BY <2>2, Zenon DEF Owner
  <2> QED BY <1>3, <2>2, <2>3, SMTT(20) DEF ChannelOf, Channel, ChannelSet
<1> QED BY <1>1, <1>2, <1>3, Zenon

\* A budget that is not used up can be spent.
LEMMA SpendTypes ==
  ASSUME NEW b \in {"msgs", "reads", "faults"}, budget \in Budget, Spend(b)
  PROVE  budget' \in Budget
BY SMTT(20) DEF Spend, Budget

\* A step that publishes nothing and leaves no announcement pending.
LEMMA NothingSigned ==
  ASSUME MamInv, UNCHANGED <<tangle, lost, told>>, s.pc # "announce" \/ UNCHANGED s
  PROVE  SignedInOrder' /\ Linked'
<1>1. tangle' = tangle /\ lost' = lost /\ told' = told
  BY Zenon
<1>2. ASSUME NEW b \in tangle, SentInOrder(tangle, lost, Pending, b)
      PROVE  SentInOrder(tangle, lost, Pending', b)
  BY <1>2, Zenon DEF SentInOrder, Pending
<1>3. SignedInOrder'
  BY <1>1, <1>2, Zenon DEF MamInv, SignedInOrder
<1>4. Linked'
  BY <1>1, Zenon DEF MamInv, Linked
<1> QED BY <1>3, <1>4, Zenon

\* The sender rests or is in a call.
LEMMA SenderIs ==
  ASSUME Types, s.pc # "idle"
  PROVE  s \in Sender /\ s.req \in Requests
<1>1. Resting.pc = "idle"
  BY SMTT(20) DEF Resting
<1>2. s \in Sender
  BY <1>1, Zenon DEF Types
<1> QED BY <1>2, Zenon DEF Sender

\* A request to send: the channel it names is one that a client was told of.
LEMMA SendInitKeeps == MamInv /\ SendInit => MamInv'
<1> SUFFICES ASSUME MamInv, SendInit PROVE MamInv'
  OBVIOUS
<1>1. /\ s.pc = "idle" /\ Spend("msgs")
      /\ UNCHANGED <<tangle, view, file, r, lost, lagged, told>>
  BY Zenon DEF SendInit, history
<1>2. SignedInOrder' /\ Linked'
  BY <1>1, NothingSigned, Zenon
<1>3. Types /\ Signing /\ NewKey
  BY Zenon DEF MamInv
<1>4. budget' \in Budget
  BY <1>1, <1>3, SpendTypes, Zenon DEF Types
<1>5. CASE UNCHANGED s
  <2>1. Types'
    BY <1>1, <1>3, <1>4, <1>5, Zenon DEF Types, TypeOK
  <2>2. Signing' /\ NewKey'
    BY <1>1, <1>3, <1>5, Zenon DEF Signing, NewKey, Writing
  <2> QED BY <1>2, <2>1, <2>2, Zenon DEF MamInv
<1>6. ASSUME NEW req \in Request, req.seed # None \/ file # Torn,
             s' = [pc |-> IF req.chid = None THEN "fetch" ELSE "start",
                   req |-> req, msg |-> budget.msgs, given |-> FALSE, ch |-> None, key |-> 0, op |-> "none",
                   ord |-> IF req.seed # None \/ file = Absent THEN 0 ELSE file]
      PROVE  MamInv'
  <2> DEFINE pc == IF req.chid = None THEN "fetch" ELSE "start"
             ord == IF req.seed # None \/ file = Absent THEN 0 ELSE file
             msg == budget.msgs
  <2>1. ord \in Nat
    <3>1. file \in {Absent, Torn} \cup Nat /\ 0 \in Nat
      BY <1>3, Zenon DEF Types, TypeOK
    <3> QED BY <1>6, <3>1, Zenon
  <2>2. req.chid \in told \cup {None} /\ told \subseteq ChannelSet
    BY <1>3, Zenon DEF Request, Types, TypeOK
  <2>3. req \in Requests
    <3>1. req.chid \in ChannelSet \cup {None}
      BY <2>2, Zenon
    <3> QED BY <3>1, MamChannelAssumption, SMTT(20) DEF Request, Requests
  <2>4. msg \in Nat
    BY <1>3, SMTT(20) DEF Types, Budget
  <2>5. pc \in {"start", "fetch"}
    BY Zenon
  <2>6. pc = "start" => req.chid \in told
    BY <2>2, Zenon
  <2>7. req.seed # None => ord = 0
    BY Zenon
  <2> HIDE DEF pc, ord, msg
  <2>8. s' = [pc |-> pc, req |-> req, msg |-> msg, given |-> FALSE, ch |-> None, key |-> 0,
              op |-> "none", ord |-> ord]
    BY <1>6, Zenon DEF pc, ord, msg
  <2>9. s' \in Sender
    <3>1. pc \in {"start", "fetch", "send", "announce", "save", "saving"}
      BY <2>5, Zenon
    <3>2. FALSE \in BOOLEAN /\ None \in ChannelSet \cup {None} /\ 0 \in Nat
      BY Zenon
    <3> QED BY <2>1, <2>3, <2>4, <2>8, <3>1, <3>2, Zenon DEF Sender
  <2>10. s'.pc = pc /\ s'.req = req /\ s'.given = FALSE /\ s'.ord = ord
    BY <2>8, Zenon
  <2>11. s'.pc \in {"start", "fetch"}
    BY <2>5, <2>10, Zenon
  <2>12. Types'
    BY <1>1, <1>3, <1>4, <2>9, <2>11, Zenon DEF Types, TypeOK
  <2>13. Chained(tangle', lost', Looked(s'))
    <3>1. Looked(s') = ChannelOf(s', ord)
      BY <2>10, Zenon DEF Looked
    <3>3. ChannelOf(s', ord).ord = ord /\ (s'.req.seed = None => ChannelOf(s', ord).seed \notin Seed)
      BY ChannelIs, Zenon
    <3>2. Looked(s').seed \notin Seed \/ Looked(s').ord = 0
      BY <2>7, <2>10, <3>1, <3>3, Zenon
    <3> QED BY <3>2, FirstIsChained, Zenon
  <2>14. Signing'
    <3>1. s'.pc = "start" => s'.req.chid \in told' /\ (s'.req.seed # None => s'.ord = 0)
      BY <1>1, <2>6, <2>7, <2>10, Zenon
    <3> QED BY <2>10, <2>11, <2>13, <3>1, Zenon DEF Signing
  <2>15. NewKey'
    BY <1>1, <1>3, <2>11, Zenon DEF NewKey
  <2> QED BY <1>2, <2>12, <2>14, <2>15, Zenon DEF MamInv
<1> QED BY <1>5, <1>6, Zenon DEF SendInit

\* Steps of the sender in a call that sign nothing and end in a state with no
\* key at hand, short of what they find out about the channel.
LEMMA CallGoesOn ==
  ASSUME MamInv, s' = Resting \/ s' \in Sender,
         s'.pc \in {"idle", "fetch", "save", "saving"}, s.pc # "announce",
         budget' \in Budget, file' \in {Absent, Torn} \cup Nat,
         UNCHANGED <<tangle, view, r, lost, lagged, told>>,
         s'.pc = "fetch" => (s'.given => s'.ord > 0) /\ Chained(tangle, lost, Looked(s'))
  PROVE  MamInv'
<1>1. SignedInOrder' /\ Linked'
  BY NothingSigned, Zenon
<1>2. Types /\ Signing /\ NewKey
  BY Zenon DEF MamInv
<1>3. Types'
  BY <1>2, Zenon DEF Types, TypeOK
<1>4. Signing'
  BY Zenon DEF Signing
<1>5. NewKey'
  BY <1>2, Zenon DEF NewKey
<1> QED BY <1>1, <1>3, <1>4, <1>5, Zenon DEF MamInv

\* ta_mam_find_start_idx moves on to the channel that is to be looked at first.
LEMMA FindStartKeeps == MamInv /\ FindStart => MamInv'
<1> SUFFICES ASSUME MamInv, FindStart PROVE MamInv'
  OBVIOUS
<1> DEFINE want == s.req.chid
           begin(ord) == s' = [s EXCEPT !.pc = "fetch", !.given = TRUE, !.ord = ord + 1]
           found == /\ want.seed = Owner(s.req) /\ want.depth = s.req.depth
           exceeded == s' = [s EXCEPT !.pc = "save", !.ord = @ + ChidIter + 3]
<1>1. Types /\ Signing /\ s.pc = "start" /\ UNCHANGED <<tangle, view, file, r, lost, lagged, told>>
  BY Zenon DEF FindStart, MamInv, history
<1>2. s \in Sender /\ s.ord \in Nat /\ s.req \in Requests
  <2>1. s \in Sender /\ s.req \in Requests
    BY <1>1, SenderIs, Zenon
  <2> QED BY <2>1, Zenon DEF Sender
<1>3. want \in told /\ want \in ChannelSet /\ (s.req.seed # None => s.ord = 0)
  BY <1>1, Zenon DEF Signing, Types, TypeOK
<1>4. want.ord \in Nat
  BY <1>3, Zenon DEF ChannelSet
<1>5. /\ UNCHANGED budget \/ Spend("faults")
      /\ begin(s.ord) \/ (begin(want.ord) /\ found) \/ exceeded
  BY ChannelIs, ZenonT(30) DEF FindStart
<1>6. budget' \in Budget
  BY <1>1, <1>5, SpendTypes, Zenon DEF Types
<1>7. file' \in {Absent, Torn} \cup Nat
  BY <1>1, Zenon DEF Types, TypeOK
<1>8. ASSUME NEW n \in Nat, begin(n), Chained(tangle, lost, ChannelOf(s, n)) PROVE MamInv'
  <2>1. s' = [s EXCEPT !.pc = "fetch", !.given = TRUE, !.ord = n + 1]
    BY <1>8, Zenon
  <2> HIDE DEF want
  <2>4. n + 1 \in Nat /\ n + 1 > 0 /\ n + 1 - 1 = n
    BY SMTT(20)
  <2>5. s' \in Sender
    BY <1>2, <2>1, <2>4, Zenon DEF Sender
  <2>6. s'.pc = "fetch" /\ s'.given = TRUE /\ s'.req = s.req /\ s'.ord = n + 1
    BY <1>2, <2>1, SMTT(20) DEF Sender
  <2>2. /\ s' \in Sender /\ s'.pc = "fetch" /\ s'.given = TRUE /\ s'.req = s.req
        /\ s'.ord > 0 /\ s'.ord - 1 = n
    <3>1. s'.ord > 0 /\ s'.ord - 1 = n
      BY <2>6, SMTT(20)
    <3> QED BY <2>5, <2>6, <3>1, Zenon
  <2>3. Looked(s') = ChannelOf(s, n)
    BY <2>2, Zenon DEF Looked, ChannelOf
  <2> QED BY <1>1, <1>6, <1>7, <1>8, <2>2, <2>3, CallGoesOn, Zenon
<1>9. CASE begin(s.ord)
  <2>1. Chained(tangle, lost, ChannelOf(s, s.ord))
    BY <1>3, ChannelIs, FirstIsChained, Zenon
  <2> QED BY <1>2, <1>8, <1>9, <2>1, Zenon
<1>10. CASE begin(want.ord) /\ found
  <2>1. ChannelOf(s, want.ord) = want
    <3> HIDE DEF want
    <3> QED BY <1>3, <1>10, SMTT(20) DEF ChannelSet, ChannelOf, Channel
  <2>2. Chained(tangle, lost, want)
    BY <1>3, Zenon DEF MamInv, Linked
  <2> QED BY <1>4, <1>8, <1>10, <2>1, <2>2, Zenon
<1>11. CASE exceeded
  <2>2. s.ord + ChidIter + 3 \in Nat
    BY <1>2, MamChannelAssumption, SMTT(20)
  <2>1. s' \in Sender /\ s'.pc = "save"
    BY <1>2, <1>11, <2>2, Zenon DEF Sender
  <2> QED BY <1>1, <1>6, <1>7, <2>1, CallGoesOn, Zenon
<1> QED BY <1>5, <1>9, <1>10, <1>11, Zenon

\* The channel after a chained and settled one is chained.
LEMMA ChainGrows ==
  ASSUME NEW T, NEW L, NEW ch \in ChannelSet, Chained(T, L, ch), Settled(T, L, ch)
  PROVE  Chained(T, L, Successor(ch))
<1>1. /\ Successor(ch).seed = ch.seed /\ Successor(ch).depth = ch.depth
      /\ Successor(ch).ord = ch.ord + 1
  BY SMTT(20) DEF Successor, Channel
<1>2. ch.ord \in Nat /\ ch = Channel(ch.seed, ch.depth, ch.ord)
  BY SMTT(20) DEF ChannelSet, Channel
<1>3. ASSUME ch.seed \in Seed, NEW j \in 0 .. Successor(ch).ord - 1
      PROVE  Settled(T, L, Channel(ch.seed, ch.depth, j))
  <2>1. j = ch.ord \/ j \in 0 .. ch.ord - 1
    BY <1>1, <1>2, SMTT(20)
  <2> QED BY <1>2, <1>3, <2>1, Zenon DEF Chained
<1> QED BY <1>1, <1>3, Zenon DEF Chained

\* A full channel has its announcement, unless that was lost: the last key has
\* it, or the last key but one, whose message it follows.
LEMMA FullIsSettled ==
  ASSUME Types, SignedInOrder, s.pc # "announce", NEW ch \in ChannelSet,
         \A k \in 0 .. LastKey(ch) : k \in KeysOn(tangle, ch)
  PROVE  Settled(tangle, lost, ch)
<1> DEFINE last == LastKey(ch)
<1>1. last \in Nat /\ last - 1 \in 0 .. last - 1 /\ last \in 0 .. last /\ last - 1 \in 0 .. last
  <2>1. ch.depth \in Depth
    BY Zenon DEF ChannelSet
  <2>2. NumKeys(ch.depth) \in Nat /\ NumKeys(ch.depth) >= 2
    BY <2>1, TwoKeys, Zenon
  <2> QED BY <2>2, SMTT(20) DEF LastKey
<1>2. ASSUME NEW k \in 0 .. last PROVE \E b \in tangle : b.ch = ch /\ b.key = k
  BY Zenon DEF KeysOn
<1>3. PICK b \in tangle : b.ch = ch /\ b.key = last
  BY <1>1, <1>2, Zenon
<1>4. PICK c \in tangle : c.ch = ch /\ c.key = last - 1
  BY <1>1, <1>2, Zenon
<1>5. last - 1 # last
  BY <1>1, SMTT(20)
<1>6. CASE AnnouncedInOrder(tangle, lost, b)
  BY <1>3, <1>6, Zenon DEF AnnouncedInOrder, Settled
<1>7. CASE AnnouncedInOrder(tangle, lost, c)
  BY <1>4, <1>5, <1>7, Zenon DEF AnnouncedInOrder
<1>8. CASE SentInOrder(tangle, lost, Pending, c)
  BY <1>4, <1>8, Zenon DEF SentInOrder, Pending
<1> QED BY <1>7, <1>8, Zenon DEF SignedInOrder

\* A look at one channel chooses a free key, or the next channel.
LEMMA FetchAndWriteKeeps == MamInv /\ FetchAndWrite => MamInv'
<1> SUFFICES ASSUME MamInv, FetchAndWrite PROVE MamInv'
  OBVIOUS
<1> DEFINE ord == IF s.given THEN s.ord - 1 ELSE s.ord
           ch == ChannelOf(s, ord)
           tags == KeysOn(view, ch)
           op == Operation(s.req.depth, tags)
           key == FirstFree(s.req.depth, tags)
           pc == IF op = "next" THEN "fetch" ELSE "send"
<1>1. /\ s.pc = "fetch" /\ UNCHANGED <<tangle, view, file, r, budget, lost, lagged, told>>
      /\ s' = [s EXCEPT !.pc = pc, !.given = FALSE, !.ord = ord + 1, !.op = op, !.ch = ch, !.key = key]
  BY Zenon DEF FetchAndWrite, history
<1>2. Types /\ SignedInOrder /\ Linked /\ Signing /\ NewKey
  BY Zenon DEF MamInv
<1>3. s \in Sender /\ s.ord \in Nat /\ s.given \in BOOLEAN /\ s.req \in Requests
  <2>1. s \in Sender /\ s.req \in Requests
    BY <1>1, <1>2, SenderIs, Zenon
  <2> QED BY <2>1, Zenon DEF Sender
<1>4. s.req.depth \in Depth
  BY <1>3, Zenon DEF Requests
<1>5. ord \in Nat
  <2>1. s.given => s.ord > 0
    BY <1>1, <1>2, Zenon DEF Signing
  <2> QED BY <1>3, <2>1, SMTT(20)
<1>6. Chained(tangle, lost, ch)
  BY <1>1, <1>2, Zenon DEF Signing, Looked
<1> HIDE DEF ord
<1>7. ch \in ChannelSet /\ ch.depth = s.req.depth
  BY <1>3, <1>5, ChannelIs, Zenon
<1> HIDE DEF ch
<1>8. tags \subseteq 0 .. NumKeys(s.req.depth) - 1
  BY <1>2, <1>7, Zenon DEF Types, TypeOK, KeysOn
<1>9. \A k \in tags : k \in KeysOn(tangle, ch)
  <2>1. view \subseteq tangle
    BY <1>2, Zenon DEF Types, TypeOK
  <2> QED BY <2>1, Zenon DEF KeysOn
<1>10. ~lagged => tags = KeysOn(tangle, ch)
  BY <1>2, Zenon DEF NewKey
<1> HIDE DEF tags
<1>11. /\ key \in 0 .. NumKeys(s.req.depth) /\ key \notin tags
       /\ \A k \in 0 .. key - 1 : k \in tags
  BY <1>4, <1>8, FirstFreeIs, Zenon
<1>12. /\ op \in {"next", "SEND_MESSAGE", "ANNOUNCE_CHID"}
       /\ op = "next" <=> key = NumKeys(s.req.depth)
       /\ op = "ANNOUNCE_CHID" <=> key = NumKeys(s.req.depth) - 2
  BY <1>4, <1>8, OperationIs, Zenon
<1>13. NumKeys(s.req.depth) \in Nat /\ NumKeys(s.req.depth) >= 2
  BY <1>4, TwoKeys, Zenon
<1>14. LastKey(ch) = NumKeys(s.req.depth) - 1
  BY <1>7, Zenon DEF LastKey
<1> HIDE DEF op, key
<1>15. key \in Nat /\ ord + 1 \in Nat
  BY <1>5, <1>11, <1>13, SMTT(20)
<1>16. pc \in {"fetch", "send"} /\ (pc = "fetch" <=> op = "next")
  BY Zenon
<1> HIDE DEF pc
<1>17. s' \in Sender
  <2>1. /\ pc \in {"start", "fetch", "send", "announce", "save", "saving"}
        /\ op \in {"none", "next", "SEND_MESSAGE", "ANNOUNCE_CHID"}
        /\ ch \in ChannelSet \cup {None} /\ FALSE \in BOOLEAN
    BY <1>7, <1>12, <1>16, Zenon
  <2> QED BY <1>1, <1>3, <1>15, <2>1, Zenon DEF Sender
<1>18. /\ s'.pc = pc /\ s'.given = FALSE /\ s'.ord = ord + 1 /\ s'.op = op /\ s'.ch = ch
       /\ s'.key = key /\ s'.req = s.req
  BY <1>1, <1>3, SMTT(20) DEF Sender
<1>19. CASE op = "next"
  <2>1. \A k \in 0 .. LastKey(ch) : k \in KeysOn(tangle, ch)
    BY <1>9, <1>11, <1>12, <1>14, <1>19, Zenon
  <2>2. Settled(tangle, lost, ch)
    BY <1>1, <1>2, <1>7, <2>1, FullIsSettled, Zenon
  <2>3. Looked(s') = Successor(ch)
    <3>1. Looked(s') = Channel(Owner(s.req), s.req.depth, ord + 1)
      BY <1>18, Zenon DEF Looked, ChannelOf
    <3>2. ch.seed = Owner(s.req) /\ ch.depth = s.req.depth /\ ch.ord = ord
      BY ChannelIs, Zenon DEF ch
    <3> QED BY <3>1, <3>2, Zenon DEF Successor
  <2>4. Chained(tangle, lost, Looked(s'))
    BY <1>6, <1>7, <2>2, <2>3, ChainGrows, Zenon
  <2>5. budget' \in Budget /\ file' \in {Absent, Torn} \cup Nat
    BY <1>1, <1>2, Zenon DEF Types, TypeOK
  <2> QED BY <1>1, <1>16, <1>17, <1>18, <1>19, <2>4, <2>5, CallGoesOn, Zenon
<1>20. CASE op # "next"
  <2>1. s'.pc = "send"
    BY <1>16, <1>18, <1>20, Zenon
  <2>2. Types'
    BY <1>1, <1>2, <1>17, <2>1, Zenon DEF Types, TypeOK
  <2>3. SignedInOrder' /\ Linked'
    BY <1>1, NothingSigned, Zenon
  <2>4. key \in 0 .. LastKey(ch) /\ (op = "ANNOUNCE_CHID" <=> key = LastKey(ch) - 1)
    <3>1. key # NumKeys(s.req.depth)
      BY <1>12, <1>20, Zenon
    <3>2. key \in 0 .. LastKey(ch) /\ NumKeys(s.req.depth) - 2 = LastKey(ch) - 1
      BY <1>11, <1>13, <1>14, <3>1, SMTT(20)
    <3> QED BY <1>12, <3>2, Zenon
  <2>5. s'.ord > 0 /\ s'.ord - 1 = ord
    BY <1>5, <1>18, SMTT(20)
  <2>6. ChannelOf(s', s'.ord - 1) = ch
    BY <1>18, <2>5, Zenon DEF ChannelOf, ch
  <2>7. Writing'
    BY <1>1, <1>6, <1>9, <1>11, <1>18, <2>4, <2>5, <2>6, Zenon DEF Writing
  <2>8. Signing'
    BY <1>18, <2>1, <2>4, <2>7, Zenon DEF Signing
  <2>9. NewKey'
    BY <1>1, <1>2, <1>10, <1>11, <1>18, <2>1, Zenon DEF NewKey
  <2> QED BY <2>2, <2>3, <2>8, <2>9, Zenon DEF MamInv
<1> QED BY <1>19, <1>20, Zenon

\* The sender and what is published stay as they are.
LEMMA SenderWaits ==
  ASSUME MamInv, UNCHANGED <<tangle, s, lost, told>>, view' \subseteq tangle,
         budget' \in Budget, file' \in {Absent, Torn} \cup Nat,
         r'.pc \in {"idle", "save", "saving"}, lagged' \in BOOLEAN,
         ~lagged' => ~lagged /\ view' = tangle
  PROVE  MamInv'
<1>1. SignedInOrder' /\ Linked'
  BY NothingSigned, Zenon
<1>2. Types /\ Signing /\ NewKey
  BY Zenon DEF MamInv
<1>3. Types'
  BY <1>2, Zenon DEF Types, TypeOK
<1>4. Signing' /\ NewKey'
  BY <1>2, Zenon DEF Signing, NewKey, Writing
<1> QED BY <1>1, <1>3, <1>4, Zenon DEF MamInv

\* A reader changes nothing that a sender relies on.
LEMMA RecvKeeps == MamInv /\ Recv => MamInv'
<1> SUFFICES ASSUME MamInv, Recv PROVE MamInv'
  OBVIOUS
<1>1. Types /\ NewKey
  BY Zenon DEF MamInv
<1>2. view \subseteq tangle /\ lagged \in BOOLEAN /\ (~lagged => view = tangle) /\ budget \in Budget
  BY <1>1, Zenon DEF Types, TypeOK, NewKey
<1>3. file \in {Absent, Torn} \cup Nat
  BY <1>1, Zenon DEF Types, TypeOK
<1>4. CASE RecvRead
  <2>1. Spend("reads") /\ UNCHANGED <<tangle, view, file, s, lost, lagged, told>>
    BY <1>4, Zenon DEF RecvRead, history
  <2>2. budget' \in Budget
    BY <1>2, <2>1, SpendTypes, Zenon
  <2>4. \/ r' = [pc |-> "save", ret |-> "failed"]
        \/ \E ch, whole, chid1 :
             r' = [pc |-> "save", ret |-> "SC_OK", ch |-> ch, whole |-> whole, chid1 |-> chid1]
    BY <1>4, Zenon DEF RecvRead
  <2>3. r'.pc = "save"
    <3>1. CASE r' = [pc |-> "save", ret |-> "failed"]
      BY <3>1, Zenon
    <3>2. ASSUME NEW ch, NEW whole, NEW chid1,
                 r' = [pc |-> "save", ret |-> "SC_OK", ch |-> ch, whole |-> whole, chid1 |-> chid1]
          PROVE  r'.pc = "save"
      BY <3>2, SMTT(20)
    <3> QED BY <2>4, <3>1, <3>2, Zenon
  <2> QED BY <1>2, <1>3, <2>1, <2>2, <2>3, SenderWaits, Zenon
<1>5. CASE RecvSaveBegin
  <2>1. UNCHANGED <<tangle, view, s, budget, lost, lagged, told>> /\ file' = Torn
    BY <1>5, Zenon DEF RecvSaveBegin, history
  <2>2. r'.pc = "saving"
    BY <1>5, Zenon DEF RecvSaveBegin
  <2> QED BY <1>2, <2>1, <2>2, SenderWaits, Zenon
<1>6. CASE RecvSaveEnd
  <2>1. UNCHANGED <<tangle, view, s, budget, lost, lagged, told>> /\ file' = 0
    BY <1>6, Zenon DEF RecvSaveEnd, history
  <2>2. r'.pc = "idle"
    BY <1>6, Zenon DEF RecvSaveEnd, Resting
  <2>3. file' \in {Absent, Torn} \cup Nat
    BY <2>1, SMTT(20)
  <2> QED BY <1>2, <2>1, <2>2, <2>3, SenderWaits, Zenon
<1> QED BY <1>4, <1>5, <1>6, Zenon DEF Recv

\* Another full node, or gossip between the nodes.
LEMMA NodeKeeps == MamInv /\ (ChangeNode \/ Gossip) => MamInv'
<1> SUFFICES ASSUME MamInv, ChangeNode \/ Gossip PROVE MamInv'
  OBVIOUS
<1>1. Types /\ NewKey
  BY Zenon DEF MamInv
<1>2. /\ view \subseteq tangle /\ lagged \in BOOLEAN /\ (~lagged => view = tangle)
      /\ budget \in Budget /\ file \in {Absent, Torn} \cup Nat /\ r.pc \in {"idle", "save", "saving"}
  BY <1>1, Zenon DEF Types, TypeOK, NewKey
<1>3. CASE ChangeNode
  <2>1. Spend("faults") /\ lagged' = TRUE /\ UNCHANGED <<tangle, file, s, r, lost, told>>
    BY <1>3, Zenon DEF ChangeNode
  <2>2. view' \subseteq tangle
    BY <1>2, <1>3, Zenon DEF ChangeNode
  <2>3. budget' \in Budget
    BY <1>2, <2>1, SpendTypes, Zenon
  <2> QED BY <1>2, <2>1, <2>2, <2>3, SenderWaits, Zenon
<1>4. CASE Gossip
  <2>1. view' = tangle /\ UNCHANGED <<tangle, file, s, r, budget, lost, lagged, told>>
    BY <1>4, Zenon DEF Gossip, history
  <2> QED BY <1>2, <2>1, SenderWaits, Zenon
<1> QED BY <1>3, <1>4, Zenon

\* A failed look at a channel ends the request.
LEMMA FetchFailsKeeps == MamInv /\ FetchFails => MamInv'
<1> SUFFICES ASSUME MamInv, FetchFails PROVE MamInv'
  OBVIOUS
<1> DEFINE ord == IF s.given THEN s.ord ELSE s.ord + 1
<1>1. /\ s.pc = "fetch" /\ Spend("faults") /\ UNCHANGED <<tangle, view, file, r, lost, lagged, told>>
      /\ s' = [s EXCEPT !.pc = "save", !.ord = ord]
  BY Zenon DEF FetchFails, history
<1>2. Types
  BY Zenon DEF MamInv
<1>3. s \in Sender /\ s.ord \in Nat
  <2>1. s \in Sender
    BY <1>1, <1>2, SenderIs, Zenon
  <2> QED BY <2>1, Zenon DEF Sender
<1>4. ord \in Nat
  BY <1>3, SMTT(20)
<1> HIDE DEF ord
<1>5. s' \in Sender /\ s'.pc = "save"
  BY <1>1, <1>3, <1>4, Zenon DEF Sender
<1>6. budget' \in Budget /\ file' \in {Absent, Torn} \cup Nat
  BY <1>1, <1>2, SpendTypes, Zenon DEF Types, TypeOK
<1> QED BY <1>1, <1>5, <1>6, CallGoesOn, Zenon

\* The file of the API is written in two steps.
LEMMA SaveKeeps == MamInv /\ (SaveBegin \/ SaveEnd) => MamInv'
<1> SUFFICES ASSUME MamInv, SaveBegin \/ SaveEnd PROVE MamInv'
  OBVIOUS
<1>1. /\ s.pc \in {"save", "saving"} /\ s.pc # "announce" /\ s.pc # "idle"
      /\ UNCHANGED <<tangle, view, r, budget, lost, lagged, told>>
  BY Zenon DEF SaveBegin, SaveEnd, history
<1>2. Types
  BY Zenon DEF MamInv
<1>3. s \in Sender /\ s.ord \in Nat
  <2>1. s \in Sender
    BY <1>1, <1>2, SenderIs, Zenon
  <2> QED BY <2>1, Zenon DEF Sender
<1>4. budget' \in Budget /\ file' \in {Absent, Torn} \cup Nat
  BY <1>1, <1>2, <1>3, Zenon DEF Types, TypeOK, SaveBegin, SaveEnd
<1>5. s' = Resting \/ s' = [s EXCEPT !.pc = "saving"]
  BY Zenon DEF SaveBegin, SaveEnd
<1>6. (s' = Resting \/ s' \in Sender) /\ s'.pc \in {"idle", "saving"}
  <2>1. CASE s' = Resting
    BY <2>1, Zenon DEF Resting
  <2>2. CASE s' = [s EXCEPT !.pc = "saving"]
    BY <1>3, <2>2, Zenon DEF Sender
  <2> QED BY <1>5, <2>1, <2>2, Zenon
<1> QED BY <1>1, <1>4, <1>6, CallGoesOn, Zenon

\* A bundle that is published or lost, whatever it carries.
LEMMA BundleGoes ==
  ASSUME NEW m, m.ch = s.ch, Types, ta_send_bundle(m)
  PROVE  /\ tangle' \in {tangle, tangle \cup {m}}
         /\ tangle \subseteq tangle' /\ lost \subseteq lost' /\ \A b \in tangle' : b \in tangle \/ b = m
         /\ m \in tangle' \/ <<s.ch, m.key>> \in lost'
         /\ view' \subseteq tangle' /\ (view = tangle => view' = tangle')
         /\ budget' \in Budget
<1>1. \/ tangle' = tangle \cup {m} /\ view' = view \cup {m} /\ lost' = lost
      \/ tangle' = tangle /\ view' = view /\ lost' = lost \cup {<<s.ch, m.key>>}
  BY Zenon DEF ta_send_bundle
<1>2. budget' \in Budget
  BY SpendTypes, Zenon DEF ta_send_bundle, Types
<1>3. view \subseteq tangle
  BY Zenon DEF Types, TypeOK
<1>4. view' \subseteq tangle' /\ (view = tangle => view' = tangle')
  BY <1>1, <1>3, Zenon
<1>5. /\ tangle' \in {tangle, tangle \cup {m}}
      /\ tangle \subseteq tangle' /\ lost \subseteq lost' /\ \A b \in tangle' : b \in tangle \/ b = m
  BY <1>1, Zenon
<1>6. m \in tangle' \/ <<s.ch, m.key>> \in lost'
  BY <1>1, Zenon
<1> QED BY <1>2, <1>4, <1>5, <1>6, Zenon

\* The sender with a key at hand.
LEMMA WritingIs ==
  ASSUME MamInv, s.pc \in {"send", "announce"}
  PROVE  /\ s \in Sender /\ s.ord \in Nat \ {0} /\ s.ch \in ChannelSet
         /\ LastKey(s.ch) = NumKeys(s.ch.depth) - 1 /\ LastKey(s.ch) \in Nat \ {0}
         /\ s.key \in 0 .. LastKey(s.ch)
         /\ ChannelOf(s, s.ord) = Successor(s.ch)
         /\ Writing
<1>1. Types /\ Writing
  BY Zenon DEF MamInv, Signing
<1>2. s \in Sender
  BY <1>1, SenderIs, Zenon
<1>0. s.ord \in Nat /\ s.ord > 0
  BY <1>1, <1>2, Zenon DEF Sender, Writing
<1>8. s.ord \in Nat \ {0}
  BY <1>0, SMTT(20)
<1>3. PICK n \in Nat : s.ord = n + 1 /\ s.ord - 1 = n
  BY <1>0, SMTT(20)
<1>4. s.ch = ChannelOf(s, n) /\ s.ch \in ChannelSet
  <2>1. s.ch = ChannelOf(s, n)
    BY <1>1, <1>3, Zenon DEF Writing
  <2>2. ChannelOf(s, n) \in ChannelSet
    BY <1>2, ChannelIs, Zenon
  <2> QED BY <2>1, <2>2, Zenon
<1>5. LastKey(s.ch) = NumKeys(s.ch.depth) - 1 /\ LastKey(s.ch) \in Nat \ {0}
  <2>1. s.ch.depth \in Depth
    BY <1>4, Zenon DEF ChannelSet
  <2>2. NumKeys(s.ch.depth) \in Nat /\ NumKeys(s.ch.depth) >= 2
    BY <2>1, TwoKeys, Zenon
  <2> QED BY <2>2, SMTT(20) DEF LastKey
<1>6. ChannelOf(s, s.ord) = Successor(s.ch)
  <2>2. /\ ChannelOf(s, n).seed = Owner(s.req) /\ ChannelOf(s, n).depth = s.req.depth
        /\ ChannelOf(s, n).ord = n
    BY ChannelIs, Zenon
  <2>1. s.ch.seed = Owner(s.req) /\ s.ch.depth = s.req.depth /\ s.ch.ord = n
    BY <1>4, <2>2, Zenon
  <2> QED BY <1>3, <2>1, Zenon DEF Successor, ChannelOf
<1>7. s.key \in 0 .. LastKey(s.ch)
  BY <1>1, Zenon DEF Writing
<1> QED BY <1>1, <1>2, <1>4, <1>5, <1>6, <1>7, <1>8, Zenon

\* The types after a bundle with a key of the channel at hand.
LEMMA TypesAfterBundle ==
  ASSUME Types, s.ch \in ChannelSet, NEW m, m.ch = s.ch, m.key \in 0 .. NumKeys(s.ch.depth) - 1,
         tangle' \in {tangle, tangle \cup {m}}, view' \subseteq tangle', budget' \in Budget,
         told' \subseteq ChannelSet, s' \in Sender, s'.pc \in {"announce", "save"},
         UNCHANGED <<file, r, lagged>>
  PROVE  Types'
<1>1. \A b \in tangle' : b.ch \in ChannelSet /\ b.key \in 0 .. NumKeys(b.ch.depth) - 1
  BY Zenon DEF Types, TypeOK
<1> QED BY <1>1, Zenon DEF Types, TypeOK

\* The message is signed, and published or lost.
LEMMA SendMessageKeeps == MamInv /\ SendMessage => MamInv'
<1> SUFFICES ASSUME MamInv, SendMessage PROVE MamInv'
  OBVIOUS
<1> DEFINE pc == IF s.op = "ANNOUNCE_CHID" THEN "announce" ELSE "save"
           last == LastKey(s.ch)
<1>1. /\ s.pc = "send" /\ s' = [s EXCEPT !.pc = pc] /\ told' = told \cup {s.ch}
      /\ UNCHANGED <<file, r, lagged>>
  BY Zenon DEF SendMessage
<1>2. PICK m : m = Bundle(s.key, [msg |-> s.msg]) /\ ta_send_bundle(m)
  BY Zenon DEF SendMessage
<1>0. m.ch = s.ch /\ m.key = s.key
  BY <1>2, Zenon DEF Bundle
<1>3. Types /\ SignedInOrder /\ Linked /\ NewKey /\ (s.op = "ANNOUNCE_CHID" <=> s.key = last - 1)
  BY <1>1, Zenon DEF MamInv, Signing
<1>4. /\ s \in Sender /\ s.ch \in ChannelSet /\ last = NumKeys(s.ch.depth) - 1
      /\ last \in Nat \ {0} /\ s.key \in 0 .. last /\ Writing
  BY <1>1, WritingIs, Zenon
<1>5. /\ Chained(tangle, lost, s.ch) /\ \A k \in 0 .. s.key - 1 : k \in KeysOn(tangle, s.ch)
  BY <1>4, Zenon DEF Writing
<1>6. /\ m.ch = s.ch /\ m.key = s.key /\ tangle' \in {tangle, tangle \cup {m}}
      /\ tangle \subseteq tangle' /\ lost \subseteq lost' /\ \A b \in tangle' : b \in tangle \/ b = m
      /\ m \in tangle' \/ <<s.ch, s.key>> \in lost'
      /\ view' \subseteq tangle' /\ (view = tangle => view' = tangle')
      /\ budget' \in Budget
  BY <1>0, <1>2, <1>3, BundleGoes, Zenon
<1>7. pc \in {"announce", "save"} /\ (pc = "announce" <=> s.key = last - 1)
  BY <1>3, Zenon
<1> HIDE DEF pc, last
<1>8. /\ s' \in Sender /\ s'.pc = pc /\ s'.ch = s.ch /\ s'.ord = s.ord /\ s'.key = s.key
      /\ s'.req = s.req
  <2>1. pc \in {"start", "fetch", "send", "announce", "save", "saving"}
    BY <1>7, Zenon
  <2>2. s' \in Sender
    BY <1>1, <1>4, <2>1, Zenon DEF Sender
  <2>3. s'.pc = pc /\ s'.ch = s.ch /\ s'.ord = s.ord /\ s'.key = s.key /\ s'.req = s.req
    BY <1>1, <1>4, SMTT(20) DEF Sender
  <2> QED BY <2>2, <2>3, Zenon
<1>9. Types'
  <2>1. told' \subseteq ChannelSet
    BY <1>1, <1>3, <1>4, Zenon DEF Types, TypeOK
  <2> QED BY <1>1, <1>3, <1>4, <1>6, <1>7, <1>8, <2>1, TypesAfterBundle, Zenon
<1>10. SignedInOrder'
  <2>1. ASSUME NEW b \in tangle
        PROVE  AnnouncedInOrder(tangle', lost', b) \/ SentInOrder(tangle', lost', Pending', b)
    <3>1. CASE AnnouncedInOrder(tangle, lost, b)
      BY <1>6, <3>1, LedgerGrows, Zenon
    <3>2. CASE SentInOrder(tangle, lost, Pending, b)
      <4>1. Pending = {}
        BY <1>1, Zenon DEF Pending
      <4> QED BY <1>6, <3>2, <4>1, LedgerGrows, Zenon DEF SentInOrder
    <3> QED BY <1>3, <3>1, <3>2, Zenon DEF SignedInOrder
  <2>2. SentInOrder(tangle', lost', Pending', m)
    <3>1. \A k \in 0 .. m.key - 1 : k \in KeysOn(tangle', m.ch)
      BY <1>5, <1>6, LedgerGrows, Zenon
    <3>2. m.key = LastKey(m.ch) - 1 => m.ch \in Pending'
      BY <1>6, <1>7, <1>8, Zenon DEF Pending, last
    <3> QED BY <3>1, <3>2, Zenon DEF SentInOrder
  <2>3. \A b \in tangle' : b \in tangle \/ b = m
    BY <1>6, Zenon
  <2> QED BY <2>1, <2>2, <2>3, Zenon DEF SignedInOrder
<1>11. Linked'
  <2>1. Chained(tangle', lost', s.ch)
    BY <1>5, <1>6, LedgerGrows, Zenon
  <2>2. \A b \in tangle : Chained(tangle', lost', b.ch)
    BY <1>3, <1>6, LedgerGrows, Zenon DEF Linked
  <2>3. \A ch \in told : Chained(tangle', lost', ch)
    BY <1>3, <1>6, LedgerGrows, Zenon DEF Linked
  <2> QED BY <1>1, <1>6, <2>1, <2>2, <2>3, Zenon DEF Linked
<1>12. Signing'
  <2>1. Chained(tangle', lost', s.ch) /\ \A k \in 0 .. s.key - 1 : k \in KeysOn(tangle', s.ch)
    BY <1>5, <1>6, LedgerGrows, Zenon
  <2>2. ChannelOf(s', s'.ord - 1) = ChannelOf(s, s.ord - 1)
    BY <1>8, Zenon DEF ChannelOf
  <2>3. Writing'
    BY <1>4, <1>8, <2>1, <2>2, Zenon DEF Writing
  <2>4. UsedOrLost(tangle', lost', s.ch, s.key)
    BY <1>6, Zenon DEF UsedOrLost, KeysOn
  <2> QED BY <1>7, <1>8, <2>3, <2>4, Zenon DEF Signing, last
<1>13. NewKey'
  <2> SUFFICES ASSUME ~lagged PROVE NewKey'
    BY <1>1, Zenon DEF NewKey
  <2>1. /\ view' = tangle' /\ s.key \notin KeysOn(tangle, s.ch)
        /\ \A b, c \in tangle : SameBody(b, c)
    BY <1>1, <1>3, <1>6, Zenon DEF NewKey
  <2>2. ASSUME NEW b \in tangle PROVE ~(b.ch = s.ch /\ b.key = s.key)
    BY <2>1, Zenon DEF KeysOn
  <2>3. \A b, c \in tangle' : SameBody(b, c)
    BY <1>6, <2>1, <2>2, Zenon DEF SameBody
  <2>4. ASSUME pc = "announce", NEW b \in tangle', b.ch = s.ch, b.key = last
        PROVE  b.body = [chid1 |-> Successor(s.ch)]
    <3>1. s.key = last - 1 /\ s.key # last /\ last - 1 \in 0 .. last - 1
      <4>1. s.key = last - 1
        BY <1>7, <2>4, Zenon
      <4> QED BY <1>4, <4>1, SMTT(20)
    <3>2. b \in tangle
      BY <1>6, <2>4, <3>1, Zenon
    <3>3. ~SentInOrder(tangle, lost, Pending, b)
      BY <2>1, <2>4, <3>1, Zenon DEF SentInOrder
    <3> QED BY <1>3, <2>4, <3>2, <3>3, Zenon DEF SignedInOrder, AnnouncedInOrder
  <2>5. pc = "announce" => KeptForNext(tangle', s.ch)
    BY <2>4, Zenon DEF KeptForNext, last
  <2>6. s'.pc # "send"
    BY <1>7, <1>8, Zenon
  <2> QED BY <1>8, <2>1, <2>3, <2>5, <2>6, Zenon DEF NewKey
<1> QED BY <1>9, <1>10, <1>11, <1>12, <1>13, Zenon DEF MamInv

\* The announcement is signed with the last key, and published or lost.
LEMMA AnnounceKeeps == MamInv /\ Announce => MamInv'
<1> SUFFICES ASSUME MamInv, Announce PROVE MamInv'
  OBVIOUS
<1> DEFINE last == LastKey(s.ch)
           next == Successor(s.ch)
<1>1. /\ s.pc = "announce" /\ s' = [s EXCEPT !.pc = "save", !.ord = s.ord + 1]
      /\ told' = told \cup {ChannelOf(s, s.ord)} /\ UNCHANGED <<file, r, lagged>>
  BY Zenon DEF Announce
<1>2. PICK m : m = Bundle(s.key + 1, [chid1 |-> ChannelOf(s, s.ord)]) /\ ta_send_bundle(m)
  BY Zenon DEF Announce
<1>3. Types /\ SignedInOrder /\ Linked /\ NewKey /\ s.key = last - 1 /\ UsedOrLost(tangle, lost, s.ch, s.key)
  BY <1>1, Zenon DEF MamInv, Signing
<1>4. /\ s \in Sender /\ s.ord \in Nat \ {0} /\ s.ch \in ChannelSet /\ last = NumKeys(s.ch.depth) - 1
      /\ last \in Nat \ {0} /\ ChannelOf(s, s.ord) = next /\ Writing
  BY <1>1, WritingIs, Zenon
<1>5. Chained(tangle, lost, s.ch) /\ \A k \in 0 .. s.key - 1 : k \in KeysOn(tangle, s.ch)
  BY <1>4, Zenon DEF Writing
<1>6. s.key + 1 = last /\ last \in 0 .. last
  BY <1>3, <1>4, SMTT(20)
<1>7. m.ch = s.ch /\ m.key = last /\ m.body = [chid1 |-> next]
  BY <1>2, <1>4, <1>6, Zenon DEF Bundle
<1>8. /\ tangle' \in {tangle, tangle \cup {m}}
      /\ tangle \subseteq tangle' /\ lost \subseteq lost' /\ \A b \in tangle' : b \in tangle \/ b = m
      /\ m \in tangle' \/ <<s.ch, last>> \in lost'
      /\ view' \subseteq tangle' /\ (view = tangle => view' = tangle')
      /\ budget' \in Budget
  BY <1>2, <1>3, <1>7, BundleGoes, Zenon
<1>9. s' \in Sender /\ s'.pc = "save"
  <2>1. s.ord + 1 \in Nat
    BY <1>4, SMTT(20)
  <2> QED BY <1>1, <1>4, <2>1, Zenon DEF Sender
<1>10. Settled(tangle', lost', s.ch)
  BY <1>7, <1>8, Zenon DEF Settled
<1>11. Types'
  <2>1. next \in ChannelSet
    <3>1. s.ord \in Nat
      BY <1>4, Zenon
    <3>2. s \in Sender
      BY <1>4, Zenon
    <3>3. ChannelOf(s, s.ord) \in ChannelSet
      BY <3>1, <3>2, ChannelIs, Zenon
    <3> QED BY <1>4, <3>3, Zenon
  <2>2. told' \subseteq ChannelSet
    BY <1>1, <1>3, <1>4, <2>1, Zenon DEF Types, TypeOK
  <2>3. m.key \in 0 .. NumKeys(s.ch.depth) - 1
    BY <1>4, <1>6, <1>7, Zenon
  <2> QED BY <1>1, <1>3, <1>4, <1>7, <1>8, <1>9, <2>2, <2>3, TypesAfterBundle, Zenon
<1>12. SignedInOrder'
  <2>1. ASSUME NEW b \in tangle
        PROVE  AnnouncedInOrder(tangle', lost', b) \/ SentInOrder(tangle', lost', Pending', b)
    <3>1. CASE AnnouncedInOrder(tangle, lost, b)
      BY <1>8, <3>1, LedgerGrows, Zenon
    <3>2. CASE SentInOrder(tangle, lost, Pending, b)
      <4>1. b.ch \in Pending => b.ch = s.ch
        BY <1>1, Zenon DEF Pending
      <4>2. \A k \in 0 .. b.key - 1 : k \in KeysOn(tangle', b.ch)
        BY <1>8, <3>2, LedgerGrows, Zenon DEF SentInOrder
      <4>3. b.key = LastKey(b.ch) - 1 => Settled(tangle', lost', b.ch)
        BY <1>8, <1>10, <3>2, <4>1, LedgerGrows, Zenon DEF SentInOrder
      <4> QED BY <4>2, <4>3, Zenon DEF SentInOrder
    <3> QED BY <1>3, <3>1, <3>2, Zenon DEF SignedInOrder
  <2>2. AnnouncedInOrder(tangle', lost', m)
    <3>1. ASSUME NEW k \in 0 .. last - 1 PROVE UsedOrLost(tangle, lost, s.ch, k)
      <4>1. k \in 0 .. s.key - 1 \/ k = s.key
        BY <1>3, <1>4, SMTT(20)
      <4> QED BY <1>3, <1>5, <4>1, Zenon DEF UsedOrLost
    <3>2. \A k \in 0 .. last - 1 : UsedOrLost(tangle', lost', s.ch, k)
      BY <1>8, <3>1, LedgerGrows, Zenon
    <3> QED BY <1>7, <3>2, Zenon DEF AnnouncedInOrder
  <2> QED BY <1>8, <2>1, <2>2, Zenon DEF SignedInOrder
<1>13. Linked'
  <2>1. Chained(tangle', lost', s.ch)
    BY <1>5, <1>8, LedgerGrows, Zenon
  <2>2. Chained(tangle', lost', next)
    BY <1>4, <1>10, <2>1, ChainGrows, Zenon
  <2>3. \A b \in tangle : Chained(tangle', lost', b.ch)
    BY <1>3, <1>8, LedgerGrows, Zenon DEF Linked
  <2>4. \A ch \in told : Chained(tangle', lost', ch)
    BY <1>3, <1>8, LedgerGrows, Zenon DEF Linked
  <2>5. \A b \in tangle' : Chained(tangle', lost', b.ch)
    BY <1>7, <1>8, <2>1, <2>3, Zenon
  <2>6. \A ch \in told' : Chained(tangle', lost', ch)
    BY <1>1, <1>4, <2>2, <2>4, Zenon
  <2> QED BY <2>5, <2>6, Zenon DEF Linked
<1>14. Signing'
  BY <1>9, Zenon DEF Signing
<1>15. NewKey'
  <2> SUFFICES ASSUME ~lagged PROVE NewKey'
    BY <1>1, Zenon DEF NewKey
  <2>1. view' = tangle' /\ KeptForNext(tangle, s.ch) /\ \A b, c \in tangle : SameBody(b, c)
    BY <1>1, <1>3, <1>8, Zenon DEF NewKey
  <2>2. ASSUME NEW b \in tangle PROVE SameBody(b, m) /\ SameBody(m, b)
    BY <1>7, <2>1, Zenon DEF SameBody, KeptForNext
  <2>3. SameBody(m, m)
    BY Zenon DEF SameBody
  <2>4. \A b, c \in tangle' : SameBody(b, c)
    BY <1>8, <2>1, <2>2, <2>3, Zenon
  <2> QED BY <1>9, <2>1, <2>4, Zenon DEF NewKey
<1> QED BY <1>11, <1>12, <1>13, <1>14, <1>15, Zenon DEF MamInv

\* The process is killed: a signed bundle may be lost.
LEMMA CrashKeeps == MamInv /\ Crash => MamInv'
<1> SUFFICES ASSUME MamInv, Crash PROVE MamInv'
  OBVIOUS
<1>1. /\ Spend("faults") /\ s' = Resting /\ r' = Resting /\ file' \in {Absent, Torn}
      /\ lost' = IF s.pc = "announce" THEN lost \cup {<<s.ch, s.key + 1>>} ELSE lost
      /\ UNCHANGED <<tangle, view, lagged, told>>
  BY Zenon DEF Crash
<1>2. s'.pc = "idle" /\ r'.pc = "idle"
  BY <1>1, Zenon DEF Resting
<1>3. Types /\ SignedInOrder /\ Linked /\ NewKey
  BY Zenon DEF MamInv
<1>4. tangle \subseteq tangle' /\ lost \subseteq lost'
  BY <1>1, Zenon
<1>5. Types'
  <2>1. budget' \in Budget
    BY <1>1, <1>3, SpendTypes, Zenon DEF Types
  <2> QED BY <1>1, <1>2, <1>3, <2>1, Zenon DEF Types, TypeOK
<1>6. s.pc = "announce" => Settled(tangle', lost', s.ch)
  <2> SUFFICES ASSUME s.pc = "announce" PROVE Settled(tangle', lost', s.ch)
    OBVIOUS
  <2>1. s.key = LastKey(s.ch) - 1
    BY Zenon DEF MamInv, Signing
  <2>2. LastKey(s.ch) \in Nat \ {0}
    BY WritingIs, Zenon
  <2>3. s.key + 1 = LastKey(s.ch)
    BY <2>1, <2>2, SMTT(20)
  <2> QED BY <1>1, <2>3, Zenon DEF Settled
<1>7. ASSUME NEW b \in tangle
      PROVE  AnnouncedInOrder(tangle', lost', b) \/ SentInOrder(tangle', lost', Pending', b)
  <2>1. CASE AnnouncedInOrder(tangle, lost, b)
    BY <1>4, <2>1, LedgerGrows, Zenon
  <2>2. CASE SentInOrder(tangle, lost, Pending, b)
    <3>1. b.ch \in Pending => s.pc = "announce" /\ b.ch = s.ch
      BY Zenon DEF Pending
    <3>2. \A k \in 0 .. b.key - 1 : k \in KeysOn(tangle', b.ch)
      BY <1>4, <2>2, LedgerGrows, Zenon DEF SentInOrder
    <3>3. b.key = LastKey(b.ch) - 1 => Settled(tangle', lost', b.ch)
      BY <1>4, <1>6, <2>2, <3>1, LedgerGrows, Zenon DEF SentInOrder
    <3> QED BY <3>2, <3>3, Zenon DEF SentInOrder
  <2> QED BY <1>3, <2>1, <2>2, Zenon DEF SignedInOrder
<1>8. SignedInOrder'
  BY <1>1, <1>7, Zenon DEF SignedInOrder
<1>9. Linked'
  <2>1. \A b \in tangle : Chained(tangle', lost', b.ch)
    BY <1>3, <1>4, LedgerGrows, Zenon DEF Linked
  <2>2. \A ch \in told : Chained(tangle', lost', ch)
    BY <1>3, <1>4, LedgerGrows, Zenon DEF Linked
  <2> QED BY <1>1, <2>1, <2>2, Zenon DEF Linked
<1>10. Signing' /\ NewKey'
  BY <1>1, <1>2, <1>3, Zenon DEF Signing, NewKey
<1> QED BY <1>5, <1>8, <1>9, <1>10, Zenon DEF MamInv

\* Every step keeps the invariant.
LEMMA MamInvStep == MamInv /\ [Next]_vars => MamInv'
<1> SUFFICES ASSUME MamInv, [Next]_vars PROVE MamInv'
  OBVIOUS
<1>1. CASE UNCHANGED vars
  <2>1. UNCHANGED <<tangle, view, file, s, r, budget, lost, lagged, told>>
    BY <1>1, Zenon DEF vars, history
  <2>2. Types /\ NewKey
    BY Zenon DEF MamInv
  <2>3. /\ view' \subseteq tangle /\ lagged' \in BOOLEAN /\ (~lagged' => ~lagged /\ view' = tangle)
        /\ budget' \in Budget /\ file' \in {Absent, Torn} \cup Nat /\ r'.pc \in {"idle", "save", "saving"}
    BY <2>1, <2>2, Zenon DEF Types, TypeOK, NewKey
  <2> QED BY <2>1, <2>3, SenderWaits, Zenon
<1>2. CASE Send
  BY <1>2, FindStartKeeps, FetchAndWriteKeeps, FetchFailsKeeps, SendMessageKeeps, AnnounceKeeps,
     SaveKeeps, Zenon DEF Send
<1> QED BY <1>1, <1>2, SendInitKeeps, RecvKeeps, NodeKeeps, CrashKeeps, Zenon DEF Next

\* The invariant always holds: for any seeds, channel depths, requests, readers,
\* failures, crashes and changes of the full node.
LEMMA MamInvHolds == Spec => []MamInv
BY MamInvInit, MamInvStep, PTL DEF Spec

\* Bundles, the MAM file and the channels named to clients keep their types, and
\* every bundle is signed with a key that its channel has.
THEOREM ChannelTypes == Spec => []TypeOK
<1>1. MamInv => TypeOK
  BY Zenon DEF MamInv, Types
<1> QED BY <1>1, MamInvHolds, PTL

\* A key with a bundle on the tangle signs nothing else, unless a full node lagged
\* behind, with any number of requests, losses and crashes: see SpentKeyRests.
THEOREM SpentKeysRest == Spec => SpentKeyRests
<1>1. ASSUME MamInv, Next, ~lagged, NEW b \in signed' \ signed, NEW c \in tangle
      PROVE  SameBody(b, c)
  <2>1. signed' # signed
    BY <1>1, Zenon
  <2>2. SendMessage \/ Announce
    BY <1>1, <2>1, Zenon DEF Next, Send, Recv, SendInit, FindStart, FetchAndWrite, FetchFails,
       SaveBegin, SaveEnd, RecvRead, RecvSaveBegin, RecvSaveEnd, ChangeNode, Gossip, Crash, history
  <2>3. CASE SendMessage
    <3>1. PICK m : m = Bundle(s.key, [msg |-> s.msg]) /\ ta_send_bundle(m)
      BY <2>3, Zenon DEF SendMessage
    <3>4. b = m
      BY <1>1, <3>1, Zenon DEF ta_send_bundle
    <3>2. b.ch = s.ch /\ b.key = s.key
      BY <3>1, <3>4, Zenon DEF Bundle
    <3>3. s.key \notin KeysOn(tangle, s.ch)
      BY <1>1, <2>3, Zenon DEF MamInv, NewKey, SendMessage
    <3> QED BY <1>1, <3>2, <3>3, Zenon DEF KeysOn, SameBody
  <2>4. CASE Announce
    <3>1. PICK m : m = Bundle(s.key + 1, [chid1 |-> ChannelOf(s, s.ord)]) /\ ta_send_bundle(m)
      BY <2>4, Zenon DEF Announce
    <3>2. s.pc = "announce"
      BY <2>4, Zenon DEF Announce
    <3>3. /\ LastKey(s.ch) \in Nat \ {0} /\ ChannelOf(s, s.ord) = Successor(s.ch)
          /\ s.key = LastKey(s.ch) - 1 /\ KeptForNext(tangle, s.ch)
      BY <1>1, <3>2, WritingIs, Zenon DEF MamInv, Signing, NewKey
    <3>4. s.key + 1 = LastKey(s.ch)
      BY <3>3, SMTT(20)
    <3>6. b = m
      BY <1>1, <3>1, Zenon DEF ta_send_bundle
    <3>5. b.ch = s.ch /\ b.key = LastKey(s.ch) /\ b.body = [chid1 |-> Successor(s.ch)]
      BY <3>1, <3>3, <3>4, <3>6, Zenon DEF Bundle
    <3> QED BY <1>1, <3>3, <3>5, Zenon DEF KeptForNext, SameBody
  <2> QED BY <2>2, <2>3, <2>4, Zenon
<1>2. MamInv /\ [Next]_vars => [SignsAfresh]_vars
  BY <1>1, Zenon DEF SignsAfresh
<1> QED BY <1>2, MamInvHolds, PTL DEF Spec, SpentKeyRests

\* A reader that takes keys in order and follows the announcements misses no
\* message, but behind something that was signed and lost: see ReaderMissesNone.
THEOREM ReaderFindsAll == Spec => []ReaderMissesNone
<1>1. ASSUME MamInv PROVE SmallestKey
  BY <1>1, Zenon DEF MamInv, SmallestKey, SignedInOrder, AnnouncedInOrder, SentInOrder, UsedOrLost
<1>2. ASSUME MamInv PROVE Announced
  <2> SUFFICES ASSUME NEW b \in tangle, NEW prev, prev = [b.ch EXCEPT !.ord = @ - 1],
                      b.ch.seed \in Seed, b.ch.ord > 0
               PROVE  \/ \E c \in tangle : c.ch = prev /\ c.body = [chid1 |-> b.ch]
                      \/ \E k \in 0 .. NumKeys(prev.depth) - 1 : <<prev, k>> \in lost
    BY Zenon DEF Announced
  <2>1. b.ch \in ChannelSet
    BY <1>2, Zenon DEF MamInv, Types, TypeOK
  <2>2. /\ prev = Channel(b.ch.seed, b.ch.depth, b.ch.ord - 1)
        /\ prev.seed = b.ch.seed /\ prev.depth = b.ch.depth /\ prev.depth \in Depth
        /\ prev.ord = b.ch.ord - 1 /\ b.ch.ord - 1 \in 0 .. b.ch.ord - 1
    BY <2>1, SMTT(20) DEF ChannelSet, Channel
  <2>3. Successor(prev) = b.ch
    BY <2>1, <2>2, SMTT(20) DEF Successor, Channel, ChannelSet
  <2>4. Settled(tangle, lost, prev)
    BY <1>2, <2>2, Zenon DEF MamInv, Linked, Chained
  <2>5. LastKey(prev) \in 0 .. NumKeys(prev.depth) - 1
    <3>1. NumKeys(prev.depth) \in Nat /\ NumKeys(prev.depth) >= 2
      BY <2>2, TwoKeys, Zenon
    <3> QED BY <3>1, SMTT(20) DEF LastKey
  <2> QED BY <2>3, <2>4, <2>5, Zenon DEF Settled
<1>3. MamInv => ReaderMissesNone
  BY <1>1, <1>2, Zenon DEF ReaderMissesNone
<1> QED BY <1>3, MamInvHolds, PTL

\* The step of the reader: what it reads from a whole channel without finding an
\* announcement is the last channel in use.
LEMMA ReadTellsEnd ==
  ASSUME MamInv, NEW ch \in told, NEW read,
         read = {b \in view : b.ch = ch}, NewTrusted(read) = {}, view = tangle, ch.seed # ConfSeed,
         ~ \E k \in 0 .. NumKeys(ch.depth) - 1 : <<ch, k>> \in lost,
         NEW b \in tangle, b.ch.seed = ch.seed, b.ch.depth = ch.depth
  PROVE  b.ch.ord <= ch.ord
<1>1. ch \in ChannelSet /\ b.ch \in ChannelSet /\ Chained(tangle, lost, b.ch)
  BY Zenon DEF MamInv, Types, TypeOK, Linked
<1>2. /\ ch.ord \in Nat /\ b.ch.ord \in Nat /\ ch.seed \in Seed /\ ch.depth \in Depth
      /\ ch = Channel(ch.seed, ch.depth, ch.ord)
  BY <1>1, SMTT(20) DEF ChannelSet, Channel
<1>3. ~Settled(tangle, lost, ch)
  <2>1. LastKey(ch) \in 0 .. NumKeys(ch.depth) - 1
    <3>1. NumKeys(ch.depth) \in Nat /\ NumKeys(ch.depth) >= 2
      BY <1>2, TwoKeys, Zenon
    <3> QED BY <3>1, SMTT(20) DEF LastKey
  <2>2. <<ch, LastKey(ch)>> \notin lost
    BY <2>1, Zenon
  <2>3. ASSUME NEW c \in tangle, c.ch = ch, c.body = [chid1 |-> Successor(ch)] PROVE FALSE
    <3>1. c \in read
      BY <2>3, Zenon
    <3>2. IsAnnouncement(c)
      BY <2>3, Zenon DEF IsAnnouncement
    <3> QED BY <3>1, <3>2, Zenon DEF NewTrusted
  <2> QED BY <2>2, <2>3, Zenon DEF Settled
<1>4. ch.ord \notin 0 .. b.ch.ord - 1
  BY <1>1, <1>2, <1>3, Zenon DEF Chained
<1> QED BY <1>2, <1>4, SMTT(20)

\* A reader of a whole channel that gets no chid1 is at the last channel in use,
\* but for announcements that were lost or that the full node lacks: see
\* NoChid1IsEnd.
THEOREM EndIsTheEnd == Spec => NoChid1IsEnd
<1>1. ASSUME MamInv, Next PROVE RecvTellsEnd
  <2> SUFFICES ASSUME r.pc = "idle", r'.pc = "save", r'.ret = "SC_OK",
                      r'.chid1 = {}, r'.whole, view = tangle, r'.ch.seed # ConfSeed,
                      ~ \E k \in 0 .. NumKeys(r'.ch.depth) - 1 : <<r'.ch, k>> \in lost,
                      NEW b \in tangle, b.ch.seed = r'.ch.seed, b.ch.depth = r'.ch.depth
               PROVE  b.ch.ord <= r'.ch.ord
    BY Zenon DEF RecvTellsEnd
  <2>1. r' # r
    BY Zenon
  <2>2. r' # Resting
    <3>1. Resting.pc = "idle"
      BY SMTT(20) DEF Resting
    <3> QED BY <3>1, Zenon
  <2>3. RecvRead
    BY <1>1, <2>1, <2>2, Zenon DEF Next, Send, Recv, SendInit, FindStart, FetchAndWrite, FetchFails,
       SendMessage, Announce, SaveBegin, SaveEnd, RecvSaveBegin, RecvSaveEnd, ChangeNode, Gossip, Crash
  <2>4. r' # [pc |-> "save", ret |-> "failed"]
    BY SMTT(20)
  <2>5. PICK ch \in told, psk \in BOOLEAN :
             LET all == {c \in view : c.ch = ch}
             IN  \E read \in ({all} \cup {{c} : c \in all}) \ {{}} :
                    LET readable == \A c \in read : Readable(c, psk)
                    IN  r' = [pc |-> "save", ret |-> "SC_OK", ch |-> ch, whole |-> readable /\ read = all,
                              chid1 |-> IF readable THEN NewTrusted(read) ELSE {}]
    BY <2>3, <2>4, Zenon DEF RecvRead
  <2>6. PICK read :
             LET readable == \A c \in read : Readable(c, psk)
             IN  r' = [pc |-> "save", ret |-> "SC_OK", ch |-> ch,
                       whole |-> readable /\ read = {c \in view : c.ch = ch},
                       chid1 |-> IF readable THEN NewTrusted(read) ELSE {}]
    BY <2>5, Zenon
  <2> DEFINE readable == \A c \in read : Readable(c, psk)
  <2>7. /\ r'.ch = ch /\ r'.whole = (readable /\ read = {c \in view : c.ch = ch})
        /\ r'.chid1 = IF readable THEN NewTrusted(read) ELSE {}
    BY <2>6, Zenon
  <2> HIDE DEF readable
  <2>8. read = {c \in view : c.ch = ch} /\ NewTrusted(read) = {}
    BY <2>7, Zenon
  <2> QED BY <1>1, <2>7, <2>8, ReadTellsEnd, Zenon
<1>2. MamInv /\ [Next]_vars => [RecvTellsEnd]_vars
  BY <1>1, Zenon
<1> QED BY <1>2, MamInvHolds, PTL DEF Spec, NoChid1IsEnd
=============================================================================
