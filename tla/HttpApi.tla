------------------------------ MODULE HttpApi ------------------------------
(***************************************************************************)
(* A connection of the HTTP server and the API call behind it.  libmicro-  *)
(* httpd calls ta_http_handler() once for the headers, once for every      *)
(* chunk of the body and once at its end; the handler collects the body,   *)
(* picks the API by path and answers with its status.  An API is a         *)
(* sequence of stages (decoding, cache, node, database, encoding), each of *)
(* which may fail with its statuses.  Memory exhaustion is left out.       *)
(***************************************************************************)
EXTENDS Integers, Sequences, FiniteSets, Functions

CONSTANTS MaxRequestLen,  \* MAX_REQUEST_LEN, in units of a chunk's length
          MaxChunks,      \* bound: chunks of one body
          MaxRequests     \* bound: requests on the connection

ASSUME HttpApiAssumption ==
    MaxRequestLen \in Nat \ {0} /\ MaxChunks \in Nat /\ MaxRequests \in Nat

VARIABLES conf,      \* cache.state and CLI_PROXY_PASSTHROUGH
          client,    \* the request as the client sends it
          http_req,  \* *ptr: what the handler keeps between its calls
          api,       \* the API call in progress
          effect,    \* what the call has done outside of the process
          response,  \* status code queued for the client, 0 for none
          requests,
          leaked     \* http_req objects no call will free

hvars == <<conf, client, http_req, api, effect, response, requests, leaked>>

Chunk == {1, 2}
Null == [null |-> TRUE]
NoApi == [name |-> "none", at |-> 0, status |-> "OK", uuid |-> FALSE, undefined |-> FALSE]
NoEffect == [attached |-> FALSE, buffered |-> FALSE, row |-> FALSE]

\* The stages of the APIs.
api_get_ta_info == <<"encode">>
api_find_transaction_object_single == <<"objects", "encode">>
api_find_transaction_objects == <<"decode", "objects", "encode">>
api_find_transactions_by_tag == <<"node", "encode">>
api_find_transactions_obj_by_tag == <<"node", "objects", "encode">>
api_recv_mam_message == <<"decode", "recv_mam", "encode">>
api_send_mam_message == <<"decode", "cache_set", "list_push", "encode">>
ta_send_transfer == <<"prepare", "send", "find">>
api_send_transfer == <<"decode">> \o ta_send_transfer \o <<"objects", "insert", "encode">>
api_send_trytes == <<"decode", "send", "encode">>
api_get_node_status == <<"node_status", "encode">>
api_fetch_buffered_request_status == <<"cache", "cache", "encode">>
api_find_transactions_by_id == <<"db">> \o api_find_transaction_object_single
api_get_identity_info_by_hash == <<"db", "encode">>
api_get_identity_info_by_id == <<"db", "encode">>

\* The calls forwarded to the full node; getNodeInfo has no argument.
api_check_consistency == <<"decode_proxy", "node", "encode_proxy">>
api_find_transactions == <<"decode_proxy", "node", "encode_proxy">>
api_get_balances == <<"decode_proxy", "node", "encode_proxy">>
api_get_inclusion_states == <<"decode_proxy", "node", "encode_proxy">>
api_get_node_info == <<"node", "encode_proxy">>
api_get_trytes == <<"decode_proxy", "node", "encode_proxy">>
proxy_api_wrapper(call) == <<"command">> \o call

Stages ==
    [recv_mam       |-> api_recv_mam_message,
     send_mam       |-> api_send_mam_message,
     fetch          |-> api_fetch_buffered_request_status,
     object_single  |-> api_find_transaction_object_single,
     objects        |-> api_find_transaction_objects,
     hashes_by_tag  |-> api_find_transactions_by_tag,
     objects_by_tag |-> api_find_transactions_obj_by_tag,
     status         |-> api_get_node_status,
     identity_hash  |-> api_get_identity_info_by_hash,
     identity_id    |-> api_get_identity_info_by_id,
     transaction_id |-> api_find_transactions_by_id,
     transaction    |-> api_send_transfer,
     tryte          |-> api_send_trytes,
     info           |-> api_get_ta_info,
     checkConsistency   |-> proxy_api_wrapper(api_check_consistency),
     findTransactions   |-> proxy_api_wrapper(api_find_transactions),
     getBalances        |-> proxy_api_wrapper(api_get_balances),
     getInclusionStates |-> proxy_api_wrapper(api_get_inclusion_states),
     getNodeInfo        |-> proxy_api_wrapper(api_get_node_info),
     getTrytes          |-> proxy_api_wrapper(api_get_trytes),
     passthrough    |-> <<"node">>]

Commands == {"checkConsistency", "findTransactions", "getBalances", "getInclusionStates", "getNodeInfo", "getTrytes"}

\* No answer for the tips or the broadcast; or the proof of work failed.
ta_send_trytes == {"FAILED_RESPONSE", "OTHER"}

\* The statuses a stage may fail with; OTHER is any status without a case of
\* its own in set_response_content.
Fails ==
    [decode |-> {"CCLIENT_JSON_KEY", "SERIALIZER_MESSAGE_OVERRUN", "OTHER"},
     recv_mam |-> {"MAM_NOT_FOUND", "MAM_NO_PAYLOAD", "FAILED_RESPONSE", "OTHER"},
     cache_set |-> {"OTHER"}, list_push |-> {"OTHER"}, cache |-> {"OTHER"},
     objects |-> {"FAILED_RESPONSE", "CCLIENT_NOT_FOUND", "OTHER"},
     node |-> {"FAILED_RESPONSE"}, node_status |-> {"FAILED_RESPONSE", "NODE_UNSYNC", "OTHER"},
     db |-> {"OTHER"}, insert |-> {"OTHER"},
     prepare |-> {"FAILED_RESPONSE"}, send |-> ta_send_trytes, find |-> {"FAILED_RESPONSE"},
     command |-> {"COMMAND_NOT_MATCH"}, decode_proxy |-> {"OTHER"}, encode_proxy |-> {"OTHER"},
     encode |-> {"OTHER"}]

\* Paths whose API needs a body.
NeedsBody == {"recv_mam", "send_mam", "objects", "transaction", "tryte", "proxy"}
Path == (DOMAIN Stages \ ({"passthrough"} \cup Commands)) \cup {"proxy", "unknown"}

\* A Content-Type only matters to a POST; the body comes in chunks.
Request ==
    {r \in [method : {"GET", "POST", "OPTIONS", "PUT"}, ctype : {"json", "other", "absent"},
            path : Path, body : UNION {[1..n -> Chunk] : n \in 0..MaxChunks}, sent : {0}] :
        r.method # "POST" => r.ctype = "absent"}

HttpInit ==
    /\ conf \in [cache : BOOLEAN, passthrough : BOOLEAN]
    /\ client = Null /\ http_req = Null /\ api = NoApi /\ effect = NoEffect
    /\ response = 0 /\ requests = 0 /\ leaked = 0

Size(chunks) == SumFunction(chunks)

-----------------------------------------------------------------------------
(* The calls of ta_http_handler *)

NewRequest ==
    /\ client = Null /\ requests < MaxRequests
    /\ client' \in Request /\ requests' = requests + 1
    /\ api' = NoApi /\ effect' = NoEffect /\ response' = 0
    /\ UNCHANGED <<conf, http_req, leaked>>

Close == client' = Null

\* Headers.  valid_content_type is read uninitialised when no header sets it.
FirstCall ==
    /\ client # Null /\ http_req = Null /\ client.sent = 0 /\ response = 0
    /\ IF client.method = "PUT"
         THEN Close /\ UNCHANGED http_req
         ELSE /\ \E valid \in IF client.ctype = "absent" THEN BOOLEAN ELSE {client.ctype = "json"} :
                    http_req' = [request |-> <<>>, code |-> 0, valid |-> valid]
              /\ UNCHANGED client
    /\ UNCHANGED <<conf, api, effect, response, requests, leaked>>

BadType == client.method = "POST" /\ ~http_req.valid

Collecting == http_req # Null /\ api = NoApi

\* Mutant: the request is only freed after an API call.
CleanupLate == IF api = NoApi THEN http_req' = Null /\ leaked' = leaked + 1 ELSE http_req' = Null /\ UNCHANGED leaked

Cleanup == http_req' = Null /\ UNCHANGED leaked

\* The request is freed and the connection closed without an answer.
Refuse ==
    /\ Collecting /\ response = 0
    /\ \/ BadType
       \/ client.sent = Len(client.body) /\ client.method = "POST" /\ http_req.request = <<>>
    /\ Cleanup /\ Close
    /\ UNCHANGED <<conf, api, effect, response, requests>>

\* Mutant: a chunk that does not fit leaves no mark.
build_requestForgets(req, data) ==
    IF Size(req.request) + data >= MaxRequestLen THEN req
    ELSE [req EXCEPT !.request = Append(@, data)]

\* Mutant: the terminating byte is forgotten.
build_requestFull(req, data) ==
    IF Size(req.request) + data > MaxRequestLen THEN [req EXCEPT !.code = 500]
    ELSE [req EXCEPT !.request = Append(@, data)]

\* The chunk is appended, or the answer becomes an error.
build_request(req, data) ==
    IF Size(req.request) + data >= MaxRequestLen THEN [req EXCEPT !.code = 500]
    ELSE [req EXCEPT !.request = Append(@, data)]

\* A chunk after an error is dropped.
Upload ==
    /\ Collecting /\ ~BadType /\ client.sent < Len(client.body)
    /\ http_req' = IF http_req.code # 0 THEN http_req
                   ELSE build_request(http_req, client.body[client.sent + 1])
    /\ client' = [client EXCEPT !.sent = @ + 1]
    /\ UNCHANGED <<conf, api, effect, response, requests, leaked>>

LastCall == /\ Collecting /\ ~BadType /\ client.sent = Len(client.body) /\ response = 0
            /\ client.method = "POST" => http_req.request # <<>>

\* ta_http_process_request: an answer of its own, or 0 for the API's.
Route ==
    CASE client.method = "OPTIONS" -> 200
      [] client.method # "OPTIONS" /\ client.path = "unknown" -> 400
      [] client.method # "OPTIONS" /\ client.path \in NeedsBody /\ http_req.request = <<>> -> 405
      [] OTHER -> 0

\* The proxy path forwards, or picks one of its commands.
Command == CASE client.path # "proxy" -> {client.path}
             [] client.path = "proxy" /\ conf.passthrough -> {"passthrough"}
             [] OTHER -> Commands

StartApi ==
    /\ LastCall /\ http_req.code = 0 /\ Route = 0
    /\ \E name \in Command : api' = [NoApi EXCEPT !.name = name, !.at = 1]
    /\ UNCHANGED <<conf, client, http_req, effect, response, requests, leaked>>

\* Mutant: only the router's own answers are given.
AnswerOwnRouted ==
    /\ LastCall /\ http_req.code = 0 /\ Route # 0
    /\ response' = Route
    /\ UNCHANGED <<conf, client, http_req, api, effect, requests, leaked>>

AnswerOwn ==
    /\ LastCall
    /\ http_req.code # 0 \/ Route # 0
    /\ response' = IF http_req.code # 0 THEN http_req.code ELSE Route
    /\ UNCHANGED <<conf, client, http_req, api, effect, requests, leaked>>

-----------------------------------------------------------------------------
(* The API call *)

Calling == api.name # "none" /\ response = 0 /\ api.status = "OK" /\ api.at <= Len(Stages[api.name])
Stage == Stages[api.name][api.at]

\* What a successful stage leaves behind.
Done(stage) ==
    CASE stage = "send"      -> [effect EXCEPT !.attached = TRUE]
      [] stage = "list_push" -> [effect EXCEPT !.buffered = TRUE]
      [] stage = "insert"    -> [effect EXCEPT !.row = TRUE]
      [] OTHER -> effect

\* The cache stages of send_mam fail when the cache is off.
StageOk ==
    /\ Calling
    /\ Stage \in {"cache_set", "list_push", "cache"} => conf.cache
    /\ api' = [api EXCEPT !.at = @ + 1]
    /\ effect' = Done(Stage)
    /\ UNCHANGED <<conf, client, http_req, response, requests, leaked>>

\* api_send_transfer takes FAILED_RESPONSE for a buffered transfer.
TakenAsCached(status) == api.name = "transaction" /\ status = "FAILED_RESPONSE" /\ Stage \in {"prepare", "send", "find"}

\* api_get_node_status reports two statuses as its answer.
Reported(status) == api.name = "status" /\ status \in {"FAILED_RESPONSE", "NODE_UNSYNC"}

\* Mutant: a failed insertion is only logged.
StageErrorLogged(status) == api' = IF Stage = "insert" THEN [api EXCEPT !.at = @ + 1] ELSE [api EXCEPT !.status = status]

StageError(status) == api' = [api EXCEPT !.status = status]

Encode == Len(Stages[api.name])

\* When ta_send_trytes fails, ta_send_transfer calls push_txn_to_buffer and
\* ignores its status.
Buffer == \E kept \in {conf.cache, FALSE} : effect' = [effect EXCEPT !.buffered = kept]

\* The uuid is answered; without one the serialiser reads an unset array.
AnswerUuid == api' = [api EXCEPT !.at = Encode, !.uuid = (Stage = "send"), !.undefined = (Stage # "send")]

StageFails ==
    /\ Calling
    /\ \E status \in Fails[Stage] :
          \/ TakenAsCached(status) /\ AnswerUuid
          \/ Reported(status) /\ api' = [api EXCEPT !.at = Encode]
          \/ ~TakenAsCached(status) /\ ~Reported(status) /\ StageError(status)
    /\ IF api.name = "transaction" /\ Stage = "send" THEN Buffer ELSE UNCHANGED effect
    /\ UNCHANGED <<conf, client, http_req, response, requests, leaked>>

\* Mutant: what has no case of its own is the client's fault.
set_response_contentBlames(status) ==
    CASE status = "OK" -> 200
      [] status \in {"CCLIENT_NOT_FOUND", "MAM_NOT_FOUND"} -> 404
      [] OTHER -> 400

\* Mutant: an unknown status is no error.
set_response_contentLenient(status) ==
    CASE status \in {"CCLIENT_NOT_FOUND", "MAM_NOT_FOUND"} -> 404
      [] status \in {"CCLIENT_JSON_KEY", "MAM_NO_PAYLOAD", "SERIALIZER_MESSAGE_OVERRUN"} -> 400
      [] OTHER -> 200

set_response_content(status) ==
    CASE status = "OK" -> 200
      [] status \in {"CCLIENT_NOT_FOUND", "MAM_NOT_FOUND"} -> 404
      [] status \in {"CCLIENT_JSON_KEY", "MAM_NO_PAYLOAD", "SERIALIZER_MESSAGE_OVERRUN"} -> 400
      [] OTHER -> 500

AnswerApi ==
    /\ api.name # "none" /\ response = 0 /\ ~Calling
    /\ response' = set_response_content(api.status)
    /\ UNCHANGED <<conf, client, http_req, api, effect, requests, leaked>>

\* The response is queued, the request freed.
QueueResponse ==
    /\ response # 0 /\ client # Null /\ http_req # Null
    /\ Cleanup /\ Close
    /\ UNCHANGED <<conf, api, effect, response, requests>>

\* The client goes away during the upload: nothing frees http_req.
Abort ==
    /\ client # Null /\ client.sent < Len(client.body) /\ api = NoApi /\ response = 0
    /\ Close /\ http_req' = Null
    /\ leaked' = IF http_req = Null THEN leaked ELSE leaked + 1
    /\ UNCHANGED <<conf, api, effect, response, requests>>

ta_http_handler == \/ FirstCall \/ Refuse \/ Upload \/ StartApi \/ AnswerOwn
                   \/ StageOk \/ StageFails \/ AnswerApi \/ QueueResponse

HttpNext ==
    \/ NewRequest
    \/ ta_http_handler
    \/ Abort

\* The stages that are over without an answer from outside.
Local == {"command", "decode", "decode_proxy", "encode", "encode_proxy"}

\* What the server still wants: a chunk of the body, which also triggers the
\* call that refuses a bad type, or the answer of a full node, redis or the
\* database.  No timeout is set for any of them (http.c:478).
WaitsForClient == http_req # Null /\ client.sent < Len(client.body)
WaitsForService == Calling /\ Stage \notin Local

\* The calls libmicrohttpd makes, and the steps they take, by themselves.
HandlerProceeds == ~WaitsForClient /\ ~WaitsForService /\ ta_http_handler

HttpSpec == HttpInit /\ [][HttpNext]_hvars /\ WF_hvars(HandlerProceeds)

-----------------------------------------------------------------------------
(* Properties *)

\* Types; the body collected so far leaves room for its terminating byte
\* (http.c:340).
HttpTypeOK ==
    /\ client # Null => client.path \in Path /\ client.sent \in 0..Len(client.body)
    /\ http_req # Null => http_req.code \in {0, 500} /\ http_req.valid \in BOOLEAN /\ Size(http_req.request) < MaxRequestLen
    /\ api.name \in DOMAIN Stages \cup {"none"}
    /\ effect \in [attached : BOOLEAN, buffered : BOOLEAN, row : BOOLEAN]
    /\ response \in {0, 200, 400, 404, 405, 500}
    /\ leaked \in 0..MaxRequests

\* An API works on exactly the bytes the client sent: a body that grew past
\* MAX_REQUEST_LEN is never handed over with a chunk missing (http.c:403).
BodyWhole == api # NoApi /\ http_req # Null => http_req.request = client.body

\* 200 is answered only when every stage of the API was completed, or when the
\* API reports a failed node itself: no error is lost on the way up
\* (common.c:47).
OkIsComplete ==
    response = 200 /\ api # NoApi
        => api.status = "OK" /\ api.at > Len(Stages[api.name])

\* A client told that its request is bad (400, 405) may correct and repeat it:
\* nothing was attached, buffered or stored before the error was found
\* (common.c:47, http.c:234).
BadRequestHasNoEffect == response \in {400, 405} => effect = NoEffect

\* A client that is answered 200 for a transfer can rely on it: it is attached,
\* or the answer is a uuid, unless the serialiser read an unset array
\* (apis.c:287).
TransferAnswered ==
    response = 200 /\ api.name = "transaction" /\ ~api.undefined => (effect.attached /\ effect.row) \/ api.uuid

\* The status a client is given is true of the request it sent: the whole body
\* was looked at, 200 means done, and 400 and 405 mean that nothing was done
\* (http.c:363, common.c:47).
StatusIsTrue == BodyWhole /\ OkIsComplete /\ BadRequestHasNoEffect /\ TransferAnswered

\* Every request object is freed once its connection is done, except those of
\* clients that left in the middle of their upload (http.c:449).
FreedUnlessAborted == [][leaked' # leaked => client # Null /\ client.sent < Len(client.body)]_hvars

\* Every request ends, answered, refused or abandoned, unless from some time on
\* the server waits for nothing but the client's next chunk, or for nothing but
\* the answer of a service: it never stops by itself between two calls of the
\* handler, nor behind an error in the middle of a body (http.c:363, http.c:404).
RequestEnds == []<>(client = Null) \/ <>[]WaitsForClient \/ <>[]WaitsForService

\* apis.c: on FAILED_RESPONSE, "Cache the request and serialize UUID as
\* response directly": who is answered with a uuid has the transfer buffered.
CachedIsBuffered == response = 200 /\ api.uuid => effect.buffered
=============================================================================
