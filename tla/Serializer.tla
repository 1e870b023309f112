----------------------------- MODULE Serializer -----------------------------
(***************************************************************************)
(* How request objects are read from JSON and how response objects survive *)
(* it.  A deserializer walks the fields of its form in a fixed order: it   *)
(* stores what it finds, allocates, or stops with a status; the API then   *)
(* uses the object or not, and frees it.  A response is written, buffered  *)
(* or sent as text, and read back.  A text is a length and a kind; JSON    *)
(* itself is cJSON's, whose cJSON_HasObjectItem ignores case while         *)
(* cJSON_GetObjectItemCaseSensitive does not.                              *)
(***************************************************************************)
EXTENDS Integers, Sequences, FiniteSets, FiniteSetsExt, Functions, Folds

CONSTANTS HashLen,     \* NUM_TRYTES_HASH and NUM_TRYTES_ADDRESS
          TagLen,      \* NUM_TRYTES_TAG
          MessageLen,  \* NUM_TRYTES_MESSAGE
          MaxLen,      \* bound: length of a text
          MaxPayloads  \* bound: payloads of a received message

ASSUME SerializerAssumption ==
    {HashLen, TagLen, MessageLen, MaxLen, MaxPayloads} \subseteq Nat \ {0}

VARIABLES form,    \* the kind of object
          json,    \* the document: field -> value (a msg_id has HashLen too)
          at,      \* the next field
          object,  \* the object: field -> value
          origin,  \* the response before it was written
          heap,    \* allocations made for the object
          ret,     \* status of the deserializer
          stage    \* "encode", "decode", "decoded", "crashed", "freed"

zvars == <<form, json, at, object, origin, heap, ret, stage>>

Value(t, n, k) == [type |-> t, len |-> n, kind |-> k]
Text(n, k) == Value("text", n, k)
Absent == Value("absent", 0, "none")
Numeral == Value("number", 0, "none")
Cased == Value("cased", 0, "none")     \* present under another case only
IsText(v) == v.type = "text"
Texts(kinds) == {Text(n, k) : n \in 1..MaxLen, k \in kinds} \cup {Absent, Numeral}
Lists == {Absent, Cased, Value("array", 1, "texts"), Value("array", 1, "mixed")}
Protocols == {Absent, Numeral, Text(1, "MAM_V1"), Text(1, "other")}
Objects == {Absent, Value("object", 0, "none")}

\* The fields of every form in the order they are read.
Fields ==
    [send_transfer |-> <<"value", "address", "tag", "message_format", "message">>,
     send_mam      |-> <<"protocol", "x_api_key", "psk", "ntru", "data", "seed", "chid", "message", "ch_mss_depth">>,
     recv_mam      |-> <<"protocol", "psk", "ntru", "data_id", "bundle_hash", "chid", "msg_id", "set_data_id">>,
     register      |-> <<"seed">>,
     send_mam_res  |-> <<"chid", "msg_id", "bundle_hash", "chid1", "announcement_bundle_hash">>,
     recv_mam_res  |-> <<"payload", "chid1">>]

FieldsOf(f) == Range(Fields[f])
New(f) == [x \in FieldsOf(f) |-> Absent]

\* Documents a client may send.
Document ==
    [send_transfer |->
        [value : {Absent, Numeral}, address : Texts({"tryte", "ascii"}), tag : Texts({"tryte", "ascii"}),
         message_format : {Absent, Numeral, Text(1, "trytes"), Text(1, "other")},
         message : Texts({"ascii", "unicode"})],
     send_mam |->
        [protocol : Protocols, x_api_key : {Absent, Cased, Text(1, "ascii")}, psk : Lists, ntru : Lists,
         data : Objects, seed : Texts({"tryte"}), chid : {Absent, Text(1, "tryte"), Text(HashLen, "tryte")},
         message : {Absent, Text(1, "ascii"), Text(1, "unicode")}, ch_mss_depth : {Absent, Numeral}],
     recv_mam |->
        [protocol : Protocols, psk : Lists, ntru : {Absent, Value("array", 1, "mixed")}, data_id : Objects,
         bundle_hash : Texts({"tryte"}) \cup {Cased}, chid : Texts({"tryte"}) \cup {Cased},
         msg_id : Texts({"tryte"}) \cup {Cased}, set_data_id : {Absent}],
     register |-> [seed : Texts({"tryte"})]]

\* A payload is a time stamp of 20 characters and a body, which is "a" or "b";
\* "short" is one of another publisher with fewer than 20 characters in all.
Payload == {"a", "b", "short"}

\* Responses of this side: a hash is set or empty, the chid may be replaced by a uuid.
Hash == Text(HashLen, "tryte")
Response ==
    [send_mam_res |->
        {r \in [chid : {Absent, Hash}, msg_id : {Absent, Hash}, bundle_hash : {Absent, Hash},
                chid1 : {Absent, Hash}, announcement_bundle_hash : {Absent, Hash}] :
            /\ r.chid = r.msg_id /\ r.chid = r.bundle_hash
            /\ r.chid1 = r.announcement_bundle_hash /\ (r.chid1 = Hash => r.chid = Hash)},
     recv_mam_res |-> [payload : UNION {[1..n -> Payload] : n \in 0..MaxPayloads}, chid1 : {Absent, Hash}]]

Start(f, document, response, s) ==
    /\ form = f /\ json = document /\ origin = response /\ stage = s
    /\ at = 1 /\ object = New(f) /\ heap = {"object"} /\ ret = "OK"

SerializerInit ==
    \/ \E f \in DOMAIN Document : \E d \in Document[f] : Start(f, d, Absent, "decode")
    \/ \E f \in DOMAIN Response : \E r \in Response[f] : Start(f, New(f), r, "encode")

-----------------------------------------------------------------------------
(* Writing a response *)

\* The first 20 characters and what follows them become the two members of an
\* array.  The length is not looked at: a short payload is all time stamp, and
\* its body is read behind the end of the text, where anything may stand.
Split(payload) == IF payload = "short" THEN {"short"} \X {"a", "garbage"} ELSE {<<"stamp", payload>>}
Pairs(payloads) ==
    {pairs \in [DOMAIN payloads -> UNION {Split(x) : x \in Range(payloads)}] :
        \A i \in DOMAIN payloads : pairs[i] \in Split(payloads[i])}

\* send_mam_message_res_serialize: the fields, or the uuid of a buffered request.
\* recv_mam_message_res_serialize: the payloads and the next channel.
Encode ==
    /\ stage = "encode" /\ stage' = "decode"
    /\ IF form = "recv_mam_res" THEN \E pairs \in Pairs(origin.payload) : json' = [origin EXCEPT !.payload = pairs]
       ELSE json' = origin
    /\ UNCHANGED <<form, at, object, origin, heap, ret>>

-----------------------------------------------------------------------------
(* Reading: the status of a field, what is stored and what is allocated *)

Raw == json.message_format # Text(1, "trytes")

\* An ASCII character becomes two trytes.
MsgLen(v) == IF Raw THEN 2 * v.len ELSE v.len

\* Mutant: the length is checked before it is doubled.
TransferStatusEarly(f, v) ==
    CASE f \in {"address", "tag"} /\ IsText(v) /\ v.kind # "tryte" -> "NOT_TRYTE"
      [] f = "message" /\ IsText(v) /\ v.kind = "unicode" -> "NOT_TRYTE"
      [] f = "message" /\ IsText(v) /\ v.kind # "unicode" /\ v.len > MessageLen -> "MESSAGE_OVERRUN"
      [] OTHER -> "OK"

TransferStatus(f, v) ==
    CASE f \in {"address", "tag"} /\ IsText(v) /\ v.kind # "tryte" -> "NOT_TRYTE"
      [] f = "message" /\ IsText(v) /\ v.kind = "unicode" -> "NOT_TRYTE"
      [] f = "message" /\ IsText(v) /\ v.kind # "unicode" /\ MsgLen(v) > MessageLen -> "MESSAGE_OVERRUN"
      [] OTHER -> "OK"

\* flex_trits_from_trytes reads n trytes, whatever the length of the text.
Trytes(v, n) == Text(n, IF v.len < n THEN "overread" ELSE v.kind)

\* A short tag is filled with nines, a missing one is the default.
TagOf(v) == CASE IsText(v) /\ v.len < TagLen -> Text(TagLen, "tryte")
              [] IsText(v) /\ v.len >= TagLen -> Trytes(v, TagLen)
              [] OTHER -> Text(TagLen, "default")

\* The default message is stored as trits, with the length of the trits.
TransferValue(f, v) ==
    CASE f = "address" -> IF IsText(v) THEN Trytes(v, HashLen) ELSE Text(HashLen, "default")
      [] f = "tag" -> TagOf(v)
      [] f = "message" -> IF IsText(v) THEN Text(MsgLen(v), IF Raw THEN "tryte" ELSE v.kind) ELSE Text(3, "trits")
      [] OTHER -> v

ListStatus(v) == IF v \in {Absent, Value("array", 1, "texts")} THEN "OK" ELSE "JSON_PARSE"

\* ta_json_get_string of a field that must be there.
StringStatus(v) == CASE v \in {Absent, Cased} -> "JSON_KEY"
                     [] v = Numeral -> "CCLIENT_JSON_PARSE"
                     [] OTHER -> "OK"

\* A text longer than a hash is cut to its length by strnlen.
SendMamStatus(f, v) ==
    CASE f = "protocol" -> StringStatus(v)
      [] f = "x_api_key" -> IF v = Absent THEN "OK" ELSE StringStatus(v)
      [] f \in {"psk", "ntru"} -> ListStatus(v)
      [] f = "data" -> IF v = Absent THEN "JSON_PARSE" ELSE "OK"
      [] f \in {"seed", "chid"} -> IF IsText(v) /\ v.len < HashLen THEN "INVALID_REQ" ELSE "OK"
      [] f = "message" -> IF ~IsText(v) THEN "SERIALIZER_NULL" ELSE IF v.kind = "unicode" THEN "NOT_TRYTE" ELSE "OK"
      [] OTHER -> "OK"

IdFields == {"bundle_hash", "chid", "msg_id"}

RecvFieldStatus(f, v) ==
    CASE f = "protocol" -> StringStatus(v)
      [] f \in {"psk", "ntru"} -> ListStatus(v)
      [] f = "data_id" -> IF v = Absent THEN "JSON_PARSE" ELSE "OK"
      [] f \in IdFields /\ v = Cased -> "JSON_KEY"
      [] f \in IdFields /\ v \notin {Absent, Cased, Hash} -> "CCLIENT_JSON_PARSE"
      [] OTHER -> "OK"

\* recv_mam_set_mam_v1_data_id wants an identifier.
RecvMamStatus(f, v) ==
    IF f = "set_data_id" THEN (IF \A x \in IdFields : object[x] = Absent THEN "SC_NULL" ELSE "OK")
    ELSE RecvFieldStatus(f, v)

RegisterStatus(v) == CASE v = Absent -> "KEY_NOT_EXISTS" [] v = Numeral -> "VALUE_EMPTY"
                       [] IsText(v) /\ v.len # HashLen -> "VALUE_INVALID" [] OTHER -> "OK"

\* Mutant: the next channel is required.
SendMamResStatusAll(f, v) == IF v = Absent THEN "SERIALIZER_NULL" ELSE "OK"

\* The next channel and its announcement are optional.
SendMamResStatus(f, v) ==
    IF v = Absent /\ f \notin {"chid1", "announcement_bundle_hash"} THEN "SERIALIZER_NULL" ELSE "OK"

Status(f, v) ==
    CASE form = "send_transfer" -> TransferStatus(f, v)
      [] form = "send_mam" -> SendMamStatus(f, v)
      [] form = "recv_mam" -> RecvMamStatus(f, v)
      [] form = "register" -> RegisterStatus(v)
      [] form = "send_mam_res" -> SendMamResStatus(f, v)
      [] form = "recv_mam_res" -> "OK"

\* Every member of every pair is a string of its own.
Flatten(pairs) ==
    MapThenFoldSet(LAMBDA pair, seq : seq \o pair, <<>>, LAMBDA j : pairs[j], Max, DOMAIN pairs)

Stored(f, v) ==
    CASE form = "send_transfer" -> TransferValue(f, v)
      [] form = "recv_mam_res" /\ f = "payload" -> Flatten(v)
      [] form = "send_mam" /\ f \in {"seed", "chid"} /\ IsText(v) -> Text(HashLen, v.kind)
      [] form = "send_mam" /\ f \in {"seed", "chid", "message"} /\ ~IsText(v) -> Absent
      [] OTHER -> v

\* req->protocol is only assigned when the document names MAM_V1.
Protocol(v) == IF v = Text(1, "MAM_V1") THEN {"MAM_V1"} ELSE {"MAM_V1", "garbage"}

\* Allocations that survive the step.  The identifiers of recv_mam are local
\* copies until recv_mam_set_mam_v1_data_id duplicates them.
Allocated(f, v) ==
    CASE form = "send_mam" /\ f = "protocol" -> {"data", "key"}
      [] form = "recv_mam" /\ f = "protocol" -> {"data_id", "key"}
      [] form = "send_mam" /\ f \in {"seed", "chid", "message"} /\ IsText(v) -> {f}
      [] form = "recv_mam" /\ f \in IdFields /\ v = Hash -> {"local"}
      [] form = "recv_mam" /\ f = "set_data_id" -> {x \in IdFields : object[x] # Absent}
      [] OTHER -> {}

\* strncmp with the text of a number.
Crashes(f, v) == form = "send_transfer" /\ f = "message_format" /\ v = Numeral

\* Mutant: the last status read is the one returned.
MergeLast(s) == s

\* A missing message does not stop the reading; its status is kept.
Merge(s) == IF s = "OK" THEN ret ELSE s

Failed(s) == s # "OK" /\ ~(form = "send_mam" /\ s = "SERIALIZER_NULL")

\* Mutant: msg_id is the only error path that frees the copies.
ReleaseFew(f, v, h) == IF f = "set_data_id" THEN h \ {"local"} ELSE h

\* done: frees the local copies, except after the early return of msg_id.
Release(f, v, h) == IF f = "msg_id" /\ v = Cased THEN h ELSE h \ {"local"}

\* Mutant: past the end after a bundle hash.
FollowingPast(f) == IF form = "recv_mam" /\ f = "bundle_hash" /\ json[f] # Absent THEN Len(Fields[form]) + 1 ELSE at + 1

\* A bundle hash makes the other identifiers unread.
Following(f) == IF form = "recv_mam" /\ f = "bundle_hash" /\ json[f] # Absent THEN Len(Fields[form]) ELSE at + 1

\* One field f of value v, with p the protocol the object then holds.
DecodeField(f, v, p) ==
    LET s == Status(f, v)
        skipped == form = "recv_mam" /\ f = "protocol" /\ p = "garbage"
        h == heap \cup (IF (s = "OK" /\ ~skipped) \/ f = "message" THEN Allocated(f, v) ELSE {})
    IN /\ ret' = Merge(s)
       /\ object' = CASE f = "protocol" -> [object EXCEPT ![f] = Text(1, p)]
                      [] f # "protocol" /\ s = "OK" -> [object EXCEPT ![f] = Stored(f, v)]
                      [] OTHER -> object
       /\ IF Failed(s) \/ skipped \/ at = Len(Fields[form])
            THEN stage' = "decoded" /\ heap' = Release(f, v, h) /\ UNCHANGED at
            ELSE heap' = h /\ at' = Following(f) /\ UNCHANGED stage
       /\ UNCHANGED <<form, json, origin>>

Decode ==
    /\ stage = "decode"
    /\ LET f == Fields[form][at]
           v == json[f]
       IN /\ ~Crashes(f, v)
          /\ \E p \in IF f = "protocol" THEN Protocol(v) ELSE {"MAM_V1"} : DecodeField(f, v, p)

Crash ==
    /\ stage = "decode" /\ Crashes(Fields[form][at], json[Fields[form][at]])
    /\ stage' = "crashed"
    /\ UNCHANGED <<form, json, at, object, origin, heap, ret>>

\* The object's free function; the MAM ones look at the protocol.
Free ==
    /\ stage = "decoded" /\ stage' = "freed"
    /\ heap' = IF form \in {"send_mam", "recv_mam"} /\ object.protocol # Text(1, "MAM_V1")
                 THEN heap \ {"object"} ELSE heap \cap {"local"}
    /\ UNCHANGED <<form, json, at, object, origin, ret>>

SerializerNext == Encode \/ Decode \/ Crash \/ Free

SerializerSpec == SerializerInit /\ [][SerializerNext]_zvars

-----------------------------------------------------------------------------
(* Properties *)

\* Types: a deserializer stays within its fields and its object holds no others,
\* also when a bundle hash makes it skip some (ser_mam.c:251).
SerializerTypeOK ==
    /\ form \in DOMAIN Fields /\ at \in 1..Len(Fields[form])
    /\ DOMAIN json = FieldsOf(form) /\ DOMAIN object = FieldsOf(form)
    /\ stage \in {"encode", "decode", "decoded", "crashed", "freed"}

Used == stage = "decoded" /\ ret = "OK"

\* What ta_send_transfer takes from an accepted request, its address apart, has
\* its size: a tag of TagLen trytes that was read within its text, and a given
\* message that fits the buffer after its conversion (serializer.c:157,
\* serializer.c:202).
TransferUsable ==
    Used /\ form = "send_transfer" =>
        /\ object.tag.len = TagLen /\ object.tag.kind # "overread"
        /\ object.message.kind # "trits" => object.message.len <= MessageLen

\* An accepted address was read within its text.  Violated: a text of trytes that
\* is shorter than an address is accepted, and HashLen trytes are read
\* (serializer.c:125, serializer.c:132).
AddressWithinText == Used /\ form = "send_transfer" => object.address.kind # "overread"

\* ta_send_mam_message finds a message, and identifiers of HashLen or none,
\* in every accepted request.  ta_recv_mam_message finds an identifier, and no
\* other beside a bundle hash, unless the protocol was not named (ser_mam.c:145,
\* ser_mam.c:184, ser_mam.c:251, ta_recv_mam.c:89).
MamUsable ==
    Used =>
        /\ form = "send_mam" => /\ IsText(object.message)
                                /\ \A f \in {"seed", "chid"} : object[f] = Absent \/ object[f].len = HashLen
        /\ form = "recv_mam" /\ json.protocol = Text(1, "MAM_V1") =>
               /\ \E f \in IdFields : object[f] # Absent
               /\ object.bundle_hash # Absent => object.chid = Absent /\ object.msg_id = Absent

\* Whatever status a deserializer stops with, freeing the request returns
\* every allocation, except when the protocol was not named (the free
\* functions go by req->protocol) or msg_id is spelt in another case
\* (ser_mam.c:277, ta_send_mam.c:74, ta_recv_mam.c:49).
FreedOnEveryPath ==
    stage = "freed" /\ heap # {} =>
        \/ form = "recv_mam" /\ json.msg_id = Cased
        \/ form \in {"send_mam", "recv_mam"} /\ json.protocol # Text(1, "MAM_V1")

\* A MAM response read back is the response written: the next channel, and two
\* texts for each payload, which are its time stamp and its body if it has a
\* stamp.  Of a payload shorter than a stamp the first one is the whole text, and
\* the second one is not known.  The answer of a buffered request, which has a
\* uuid only, is refused (ser_mam.c:47, ser_mam.c:344, ser_mam.c:403, ser_mam.c:496).
ResponseSurvives ==
    stage = "decoded" =>
        /\ form = "send_mam_res" => IF origin.chid = Absent THEN ret # "OK" ELSE ret = "OK" /\ object = origin
        /\ form = "recv_mam_res" => /\ ret = "OK" /\ object.chid1 = origin.chid1
                                    /\ Len(object.payload) = 2 * Len(origin.payload)
                                    /\ \A i \in 1..Len(origin.payload) :
                                           IF origin.payload[i] = "short" THEN object.payload[2 * i - 1] = "short"
                                           ELSE /\ object.payload[2 * i - 1] = "stamp"
                                                /\ object.payload[2 * i] = origin.payload[i]

\* What is read is right: a request that was accepted can be used by its API, but
\* for the address of a transfer, and a response is the one that was written, but
\* for payloads without a stamp (serializer.c:98, ser_mam.c:93, ser_mam.c:344).
ReadIsRight == TransferUsable /\ MamUsable /\ ResponseSurvives
=============================================================================
