----------------------------- MODULE MamChannel -----------------------------
(***************************************************************************)
(* MAM channels (mam_core.c).  A message is signed with a one-time key of  *)
(* a channel, a Merkle tree of 2^depth keys.  TA keeps no record of the    *)
(* keys of a seed that a client supplies: ta_send_mam_message derives the  *)
(* channels of the seed from the first one on and asks the full node which *)
(* message ids exist, so what is on the tangle is all the memory there is. *)
(* Without a seed the MAM file remembers how many channels were created.   *)
(* The last key but one of a channel signs a message and the last one the  *)
(* announcement of the next channel.                                       *)
(*                                                                         *)
(* One sender, the health thread, and one reader, an HTTP thread in        *)
(* ta_recv_mam_message, which share the MAM file.  A channel is a record   *)
(* of what its id is derived from, and a message id a channel and a key.   *)
(***************************************************************************)
EXTENDS Integers, FiniteSets, FiniteSetsExt

CONSTANTS Seed,          \* seeds of clients
          ConfSeed,      \* iota_conf.seed
          None,
          Depth,         \* ch_mss_depth of the requests
          Encrypt,       \* whether requests have a PSK: a subset of BOOLEAN
          ChidIter,      \* the 100 of the search for a starting channel
          MaxMsgs,       \* bound on messages sent
          MaxReads,      \* bound on calls of ta_recv_mam_message
          MaxFaults      \* bound on failures of the full node, changes to a node
                         \* that lags behind and crashes of the process

ASSUME MamChannelAssumption ==
    /\ ConfSeed \notin Seed
    /\ Depth \subseteq Nat \ {0}
    /\ \A d \in Depth : 2 ^ d \in Nat /\ 2 ^ d >= 2
    /\ Encrypt \subseteq BOOLEAN
    /\ \A n \in {ChidIter, MaxMsgs, MaxReads, MaxFaults} : n \in Nat

VARIABLES tangle,    \* bundles published
          view,      \* the ones the full node in use has
          file,      \* the MAM file: Absent, Torn or the number of channels created
          s, r,      \* the sender and the reader, with their locals
          budget     \* what is left of the bounds

\* History.
VARIABLES lost,      \* message ids <<channel, key>> signed by a bundle that was not published
          lagged,    \* the full node in use has lagged behind
          told,      \* channels that answers named: the ids clients know
          signed     \* bundles given to ta_send_bundle: their signatures have left TA

history == <<lost, lagged, told, signed>>
vars == <<tangle, view, file, s, r, budget, history>>

Absent == -1   \* there is no MAM file
Torn == -2     \* the MAM file is empty or half written

Channel(seed, depth, ord) == [seed |-> seed, depth |-> depth, ord |-> ord]

Request == [seed : Seed \cup {None}, depth : Depth, chid : told \cup {None}, enc : Encrypt]

Resting == [pc |-> "idle"]

Init ==
    /\ tangle = {} /\ view = {}
    /\ file \in {Absent, Torn}    \* mkstemp failed, or left an empty file
    /\ s = Resting /\ r = Resting
    /\ budget = [msgs |-> MaxMsgs, reads |-> MaxReads, faults |-> MaxFaults]
    /\ lost = {} /\ lagged = FALSE /\ told = {} /\ signed = {}

Spend(b) == budget[b] > 0 /\ budget' = [budget EXCEPT ![b] = @ - 1]

-----------------------------------------------------------------------------
(* ta_send_mam_message.                                                     *)

Owner(req) == IF req.seed = None THEN ConfSeed ELSE req.seed
ChannelOf(x, ord) == Channel(Owner(x.req), x.req.depth, ord)

\* What find_transactions by the address of a channel returns, by message id.
KeysOn(bundles, ch) == {b.key : b \in {c \in bundles : c.ch = ch}}

\* ta_mam_init.  SC_MAM_FAILED_INIT ends the call without saving the file.
SendInit ==
    /\ s.pc = "idle"
    /\ Spend("msgs")
    /\ \E req \in Request :
          \/ /\ req.seed # None \/ file # Torn
             /\ s' = [pc |-> IF req.chid = None THEN "fetch" ELSE "start",
                      req |-> req, msg |-> budget.msgs, given |-> FALSE, ch |-> None, key |-> 0, op |-> "none",
                      ord |-> IF req.seed # None \/ file = Absent THEN 0 ELSE file]
          \/ req.seed = None /\ file = Torn /\ UNCHANGED s
    /\ UNCHANGED <<tangle, view, file, r, history>>

\* is_setting_changed creates the first channel and looks for transactions on
\* it; a failed request counts as "changed".  An unchanged setting creates
\* channels up to the given one.
FindStart ==
    /\ s.pc = "start"
    /\ LET first == ChannelOf(s, s.ord)
           want == s.req.chid
           ahead == want.ord - s.ord
           begin(ord) == s' = [s EXCEPT !.pc = "fetch", !.given = TRUE, !.ord = ord + 1]
           found == want.seed = first.seed /\ want.depth = first.depth
                      /\ ahead \in 0 .. ChidIter + 1
       IN  \/ KeysOn(view, first) = {} /\ begin(s.ord) /\ UNCHANGED budget
           \/ Spend("faults") /\ begin(s.ord)
           \/ KeysOn(view, first) # {} /\ found /\ begin(want.ord) /\ UNCHANGED budget
           \/ /\ KeysOn(view, first) # {} /\ ~found    \* SC_MAM_EXCEEDED_CHID_ITER
              /\ s' = [s EXCEPT !.pc = "save", !.ord = @ + ChidIter + 3]
              /\ UNCHANGED budget
    /\ UNCHANGED <<tangle, view, file, r, history>>

\* The inner loop of ta_mam_written_msg_to_bundle tries the keys of a channel in
\* order until one has no message id among the tags found.
NumKeys(depth) == 2 ^ depth

\* Mutant of FirstFree: the key is the number of tags found.
CountedFree(depth, tags) == Cardinality(tags)

\* Mutant of FirstFree: mam_mss_next comes before the first key is tried.
FirstFreeSkips(depth, tags) == Min({k \in 1 .. NumKeys(depth) : k \notin tags})

FirstFree(depth, tags) == Min({k \in 0 .. NumKeys(depth) : k \notin tags})

\* Mutant of Operation: the announcement is left to the last key.
OperationLate(depth, tags) ==
    LET free == FirstFree(depth, tags)
    IN  CASE free = NumKeys(depth) - 1 -> "ANNOUNCE_CHID"
          [] free = NumKeys(depth) -> "next"
          [] OTHER -> "SEND_MESSAGE"

\* What follows from the code's counters ch_remain_key_num and used_key_num when
\* the inner loop ends.
Operation(depth, tags) ==
    LET free == FirstFree(depth, tags)
        tried == Min({free + 1, NumKeys(depth)})
        remain == NumKeys(depth) - tried
        used == Cardinality(tags) - tried
    IN  CASE remain = 1 -> "ANNOUNCE_CHID"
          [] remain = 0 /\ used = 0 -> "next"
          [] OTHER -> "SEND_MESSAGE"

\* Mutant of FetchAndWrite: a full channel is tried again.
FetchAndWriteAgain ==
    /\ s.pc = "fetch"
    /\ LET ord == IF s.given THEN s.ord - 1 ELSE s.ord
           tags == KeysOn(view, ChannelOf(s, ord))
           op == Operation(s.req.depth, tags)
       IN  s' = [s EXCEPT !.pc = IF op = "next" THEN "fetch" ELSE "send", !.given = op = "next",
                          !.ord = ord + 1, !.op = op,
                          !.ch = ChannelOf(s, ord), !.key = FirstFree(s.req.depth, tags)]
    /\ UNCHANGED <<tangle, view, file, r, budget, history>>

\* One round of the outer loop: create the next channel, unless a given one was
\* just found, fetch its tags, choose a key and write the message.
FetchAndWrite ==
    /\ s.pc = "fetch"
    /\ LET ord == IF s.given THEN s.ord - 1 ELSE s.ord
           tags == KeysOn(view, ChannelOf(s, ord))
           op == Operation(s.req.depth, tags)
       IN  s' = [s EXCEPT !.pc = IF op = "next" THEN "fetch" ELSE "send", !.given = FALSE,
                          !.ord = ord + 1, !.op = op,
                          !.ch = ChannelOf(s, ord), !.key = FirstFree(s.req.depth, tags)]
    /\ UNCHANGED <<tangle, view, file, r, budget, history>>

\* create_channel_fetch_all_transactions: find_transactions fails.
FetchFails ==
    /\ s.pc = "fetch"
    /\ Spend("faults")
    /\ s' = [s EXCEPT !.pc = "save", !.ord = IF s.given THEN @ ELSE @ + 1]
    /\ UNCHANGED <<tangle, view, file, r, history>>

Bundle(key, body) == [ch |-> s.ch, key |-> key, body |-> body, enc |-> s.req.enc]

\* ta_send_bundle says SC_OK whatever ta_send_trytes says.
ta_send_bundle(bundle) ==
    /\ signed' = signed \cup {bundle}
    /\ \/ /\ tangle' = tangle \cup {bundle}
          /\ view' = view \cup {bundle}
          /\ UNCHANGED <<budget, lost>>
       \/ /\ Spend("faults")
          /\ lost' = lost \cup {<<bundle.ch, bundle.key>>}
          /\ UNCHANGED <<tangle, view>>

\* The message, and send_mam_res_set_msg_result.
SendMessage ==
    /\ s.pc = "send"
    /\ ta_send_bundle(Bundle(s.key, [msg |-> s.msg]))
    /\ s' = [s EXCEPT !.pc = IF s.op = "ANNOUNCE_CHID" THEN "announce" ELSE "save"]
    /\ told' = told \cup {s.ch}
    /\ UNCHANGED <<file, r, lagged>>

\* Mutant of Announce: the announcement names the channel it is on.
AnnounceSelf ==
    /\ s.pc = "announce"
    /\ ta_send_bundle(Bundle(s.key + 1, [chid1 |-> s.ch]))
    /\ s' = [s EXCEPT !.pc = "save"]
    /\ UNCHANGED <<file, r, lagged, told>>

\* ta_mam_write_announce_to_bundle: creates the next channel and signs its id
\* with the key after the one of the message.
Announce ==
    LET chid1 == ChannelOf(s, s.ord)
    IN  /\ s.pc = "announce"
        /\ ta_send_bundle(Bundle(s.key + 1, [chid1 |-> chid1]))
        /\ s' = [s EXCEPT !.pc = "save", !.ord = @ + 1]
        /\ told' = told \cup {chid1}
        /\ UNCHANGED <<file, r, lagged>>

\* mam_api_save truncates the file and writes it; only without a seed.
SaveBegin ==
    /\ s.pc = "save"
    /\ \/ s.req.seed # None /\ s' = Resting /\ UNCHANGED file
       \/ s.req.seed = None /\ s' = [s EXCEPT !.pc = "saving"] /\ file' = Torn
    /\ UNCHANGED <<tangle, view, r, budget, history>>

SaveEnd ==
    /\ s.pc = "saving"
    /\ file' = s.ord
    /\ s' = Resting
    /\ UNCHANGED <<tangle, view, r, budget, history>>

Send == FindStart \/ FetchAndWrite \/ FetchFails \/ SendMessage \/ Announce \/ SaveBegin \/ SaveEnd

-----------------------------------------------------------------------------
(* ta_recv_mam_message.                                                     *)

Readable(b, psk) == b.enc => psk

IsAnnouncement(b) == DOMAIN b.body = {"chid1"}

\* Mutant of NewTrusted: the trusted channels are copied after the bundles are read.
NewTrustedNone(bundles) == {}

\* The channels that reading the bundles adds to the trusted ones.
NewTrusted(bundles) == {b.body.chid1 : b \in {c \in bundles : IsAnnouncement(c)}}

\* The bundles of the channel, or the one whose hash is given.  A bundle that
\* cannot be read ends the call, which then gives no chid1 and still SC_OK.
RecvRead ==
    /\ r.pc = "idle"
    /\ Spend("reads")
    /\ \/ r' = [pc |-> "save", ret |-> "failed"]    \* nothing found, or no answer
       \/ \E ch \in told, psk \in BOOLEAN :
             LET all == {b \in view : b.ch = ch}
             IN  \E read \in ({all} \cup {{b} : b \in all}) \ {{}} :
                    LET readable == \A b \in read : Readable(b, psk)
                    IN  r' = [pc |-> "save", ret |-> "SC_OK", ch |-> ch, whole |-> readable /\ read = all,
                              chid1 |-> IF readable THEN NewTrusted(read) ELSE {}]
    /\ UNCHANGED <<tangle, view, file, s, history>>

\* Whatever happened, the file is replaced by the state of an API object that has
\* created no channel.
RecvSaveBegin ==
    /\ r.pc = "save"
    /\ file' = Torn
    /\ r' = [pc |-> "saving"]
    /\ UNCHANGED <<tangle, view, s, budget, history>>

RecvSaveEnd ==
    /\ r.pc = "saving"
    /\ file' = 0
    /\ r' = Resting
    /\ UNCHANGED <<tangle, view, s, budget, history>>

Recv == RecvRead \/ RecvSaveBegin \/ RecvSaveEnd

-----------------------------------------------------------------------------
(* The full nodes and the process.                                          *)

\* ta_update_full_node_connection moves to a node that lacks a recent bundle.
ChangeNode ==
    /\ Spend("faults")
    /\ \E b \in view : view' = view \ {b}
    /\ lagged' = TRUE
    /\ UNCHANGED <<tangle, file, s, r, lost, told, signed>>

\* The node catches up.
Gossip ==
    /\ view # tangle
    /\ view' = tangle
    /\ UNCHANGED <<tangle, file, s, r, budget, history>>

\* The next process makes a file of its own.
Crash ==
    /\ Spend("faults")
    /\ s' = Resting /\ r' = Resting
    /\ file' \in {Absent, Torn}
    /\ lost' = IF s.pc = "announce" THEN lost \cup {<<s.ch, s.key + 1>>} ELSE lost
    /\ UNCHANGED <<tangle, view, lagged, told, signed>>

Next == SendInit \/ Send \/ Recv \/ ChangeNode \/ Gossip \/ Crash

Spec == Init /\ [][Next]_vars

\* The health thread runs on, and so do the HTTP threads.
FairSpec == Spec /\ WF_vars(Send) /\ WF_vars(Recv)

-----------------------------------------------------------------------------
(* Properties.                                                              *)

ChannelSet == [seed : Seed \cup {ConfSeed}, depth : Depth, ord : Nat]

\* Types; every bundle on the tangle is signed with a key its channel has
\* (mam_core.c:454).
TypeOK ==
    /\ view \subseteq tangle
    /\ \A b \in tangle : b.ch \in ChannelSet /\ b.key \in 0 .. NumKeys(b.ch.depth) - 1
    /\ file \in {Absent, Torn} \cup Nat
    /\ s.pc \in {"idle", "start", "fetch", "send", "announce", "save", "saving"}
    /\ r.pc \in {"idle", "save", "saving"}
    /\ told \subseteq ChannelSet

SameBody(b, c) == b.ch = c.ch /\ b.key = c.key => b.body = c.body

\* The step of the sender that SpentKeyRests is about.
SignsAfresh == ~lagged => \A b \in signed' \ signed : \A c \in tangle : SameBody(b, c)

\* A one-time key is spent once a bundle it signed is on the tangle: TA signs
\* nothing else with it, neither another message nor another announcement,
\* published or lost, whatever failed or crashed since and although TA keeps no
\* record of the keys it used, unless a full node lagged behind (mam_core.c:454).
\* A key whose bundle did not reach the tangle is not spent: see KeySignsOnce.
SpentKeyRests == [][SignsAfresh]_vars

\* A reader that follows the announcements from the first channel of a seed
\* finds every message: a channel after the first is in use only when the one
\* before it announces it, unless the announcement was signed and lost
\* (mam_core.c:643).
Announced ==
    \A b \in tangle :
       LET prev == [b.ch EXCEPT !.ord = @ - 1]
       IN  b.ch.seed \in Seed /\ b.ch.ord > 0 =>
              \/ \E c \in tangle : c.ch = prev /\ c.body = [chid1 |-> b.ch]
              \/ \E k \in 0 .. NumKeys(prev.depth) - 1 : <<prev, k>> \in lost

\* Messages take the smallest key (the comment of ta_mam_written_msg_to_bundle):
\* a key below a used one is used, or what it signed was lost.
SmallestKey ==
    \A b \in tangle : \A k \in 0 .. b.key - 1 :
       k \in KeysOn(tangle, b.ch) \/ <<b.ch, k>> \in lost

\* A reader that starts at the first channel of a seed, takes its keys one
\* after the other and follows the announcements misses no message, except
\* behind something that was signed and lost (mam_core.c:454, mam_core.c:643).
ReaderMissesNone == SmallestKey /\ Announced

\* ta_send_mam_message ends: its loops reach a channel with a free key
\* (mam_core.c:426).
SendEnds == s.pc # "idle" ~> s.pc = "idle"

\* The step of the reader that NoChid1IsEnd is about.
RecvTellsEnd ==
    r.pc = "idle" /\ r'.pc = "save" /\ r'.ret = "SC_OK" =>
        \/ r'.chid1 # {} \/ ~r'.whole \/ view # tangle \/ r'.ch.seed = ConfSeed
        \/ \E k \in 0 .. NumKeys(r'.ch.depth) - 1 : <<r'.ch, k>> \in lost
        \/ \A b \in tangle : b.ch.seed = r'.ch.seed /\ b.ch.depth = r'.ch.depth => b.ch.ord <= r'.ch.ord

\* A reader that gets a channel with no chid1 is at the end: no later channel of
\* the seed is in use when ta_recv_mam_message reads, unless an announcement was
\* lost, the full node lags behind, or the reader asked for a single bundle
\* or could not decrypt all of them and still got SC_OK (mam_core.c:761).
NoChid1IsEnd == [][RecvTellsEnd]_vars

\* Violated: the message id is unique under a channel.
MsgIdUnique == \A b, c \in tangle : SameBody(b, c)

\* Violated: a key signs one body.  ta_send_bundle hides that a bundle was lost,
\* and the next message is signed with the key that signed the lost one
\* (core.c:466).
KeySignsOnce == \A b, c \in signed : SameBody(b, c)

\* Violated: the last key of a channel is for the announcement of the next one.
LastKeyAnnounces ==
    \A b \in tangle : b.key = NumKeys(b.ch.depth) - 1 => IsAnnouncement(b)
=============================================================================
