------------------------------ MODULE Endpoint ------------------------------
(***************************************************************************)
(* The endpoint, the program on a device that sends one encrypted message  *)
(* to the accelerator: the configuration file its key lives in, then       *)
(* send_mam_message: encrypt, pack, encode, format, connect (with TLS or   *)
(* without), write, read one answer, parse it.                             *)
(*                                                                         *)
(* Messages are lengths; the lengths the buffers see are computed as the   *)
(* code computes them.  The allocations that are live are the set heap.    *)
(***************************************************************************)
EXTENDS Integers

CONSTANTS
  Key,           \* device keys
  MessageLens,   \* lengths of the messages that are sent
  MaxMsgLen,     \* MAX_MSG_LEN
  FlatOverhead,  \* bytes of the packed message besides the ciphertext
  BodyOverhead,  \* bytes of REQ_BODY and the seed
  MaxParts,      \* pieces a request may be written in
  MaxCrashes     \* bound on power losses

VARIABLES
  keyfile,     \* endpoint.conf: "absent", "empty" or the key in it
  disk,        \* what of it has reached the disk
  device_key,  \* the key in memory
  crashes,     \* power losses so far
  https,       \* ENDPOINT_HTTPS, fixed at build time
  ssl_seed,    \* whether the option was given
  step,        \* where the process is
  msg,         \* [len, cipher, body, full]: lengths of the message as it is transformed
  left,        \* pieces of the request not yet written
  answer,      \* what was read: "none", "ok" (status 200), "other"
  heap,        \* live allocations
  ret          \* status_t that send_mam_message returns

\* History.
VARIABLES
  chosen,      \* the key whose writing finished last, or "absent"
  used,        \* all the keys whose writing finished
  cut,         \* since then the process ended while it was writing the file
  unsaved      \* since then the power was lost before the file was on the disk

khistory == <<chosen, used, cut, unsaved>>
Build == <<https, ssl_seed>>
Device == <<keyfile, disk, device_key, crashes, khistory>>
Call == <<msg, left, answer, heap, ret>>
evars == <<Device, Build, step, Call>>

NoKey == "no key"

\* A key is none of the words that say that there is none.
ASSUME EndpointAssumption ==
  /\ Key \cap {"absent", "empty", NoKey} = {}
  /\ MessageLens \subseteq Nat /\ MaxMsgLen \in Nat \ {0}
  /\ FlatOverhead \in Nat /\ BodyOverhead \in Nat
  /\ MaxParts \in Nat /\ MaxCrashes \in Nat

NoMsg == [len |-> 0, cipher |-> 0, body |-> 0, full |-> 0]

EndpointInit ==
  /\ keyfile \in {"absent"} \cup Key /\ disk = keyfile /\ device_key = NoKey
  /\ chosen = keyfile /\ used = {keyfile} \cap Key /\ cut = FALSE /\ unsaved = FALSE
  /\ crashes = 0
  /\ https \in BOOLEAN /\ ssl_seed \in BOOLEAN
  /\ step = "down"
  /\ msg = NoMsg /\ left = 0 /\ answer = "none" /\ heap = {} /\ ret = "none"

-----------------------------------------------------------------------------
(* The device key (the simulator's file). *)

\* endpoint_conf_init: reads the key; creates the file with a random key when
\* there is none, or leaves it empty when there is no hostname to go with it;
\* gives up on a file without a key.
endpoint_conf_init ==
  /\ step = "down"
  /\ \/ /\ keyfile \in Key
        /\ device_key' = keyfile /\ step' = "up" /\ UNCHANGED keyfile
     \/ /\ keyfile = "absent"
        /\ keyfile' = "empty"
        /\ \/ device_key' \in Key /\ step' = "writing"
           \/ step' = "failed" /\ UNCHANGED device_key
     \/ /\ keyfile = "empty"
        /\ step' = "failed" /\ UNCHANGED <<keyfile, device_key>>
  /\ UNCHANGED <<disk, crashes, khistory, Build, Call>>

\* A key was written: the history of the file starts afresh.
Written(key) ==
  /\ chosen' = key /\ used' = used \cup {key}
  /\ cut' = FALSE /\ unsaved' = FALSE

\* Mutant: the key is only changed in memory.
set_device_keyMemory ==
  /\ step = "up"
  /\ device_key' \in Key /\ Written(device_key')
  /\ UNCHANGED <<keyfile, disk, step, crashes, Build, Call>>

\* set_device_key: "wb+" empties the file before the new key is written to it.
set_device_key ==
  /\ step = "up"
  /\ keyfile' = "empty" /\ device_key' \in Key /\ step' = "writing"
  /\ UNCHANGED <<disk, crashes, khistory, Build, Call>>

\* fclose: what was printed is written to the file, in one piece.
CloseConf ==
  /\ step = "writing"
  /\ keyfile' = device_key /\ Written(device_key)
  /\ step' = "up"
  /\ UNCHANGED <<disk, device_key, crashes, Build, Call>>

\* The operating system writes the file to the disk when it likes: no one calls
\* fsync.
WriteBack ==
  /\ disk # keyfile
  /\ disk' = keyfile
  /\ UNCHANGED <<keyfile, device_key, crashes, khistory, Build, step, Call>>

\* Nothing is left of the process.
Gone ==
  /\ step' = "down" /\ device_key' = NoKey
  /\ msg' = NoMsg /\ left' = 0 /\ answer' = "none" /\ heap' = {} /\ ret' = "none"

\* The process returns or is killed: the file stays as it is.
ProcessEnds ==
  /\ step # "down"
  /\ Gone
  /\ cut' = (cut \/ step = "writing")
  /\ UNCHANGED <<keyfile, disk, crashes, chosen, used, unsaved, Build>>

\* The device loses power: what is on the disk is left, or the file without its
\* contents when these were still to be written.
PowerLoss ==
  /\ crashes < MaxCrashes
  /\ crashes' = crashes + 1
  /\ Gone
  /\ keyfile' \in {disk} \cup (IF disk = keyfile THEN {} ELSE {"empty"})
  /\ disk' = keyfile'
  /\ cut' = (cut \/ step = "writing") /\ unsaved' = (unsaved \/ disk # keyfile)
  /\ UNCHANGED <<chosen, used, Build>>

-----------------------------------------------------------------------------
(* send_mam_message. *)

\* The return of send_mam_message.
Leave(status, kept) ==
  /\ step' = "done" /\ ret' = status /\ heap' = kept

\* Mutant: the padding block is left out of the comparison.
TooLongPlain(n) == n > MaxMsgLen

\* The length of the ciphertext: a whole block is added to a message that fills
\* its last block.
EncryptedLen(n) == n + (16 - (n % 16))

\* aes_encrypt's check of the ciphertext buffer.
TooLong(n) == EncryptedLen(n) > MaxMsgLen

\* LE_BASE64_ENCODED_SIZE.
Base64(n) == 4 * ((n + 2) \div 3)

\* The length snprintf would print.
BodyLen(cipher) == BodyOverhead + Base64(cipher + FlatOverhead)

\* The process has its key and its arguments: aes_encrypt.  A digest that cannot
\* be set up leaves status at 0, and the untouched buffer counts as ciphertext;
\* the other failures of the library are errors.
aes_encrypt ==
  /\ step = "up"
  /\ \E n \in MessageLens :
     \/ /\ ~TooLong(n)
        /\ msg' = [NoMsg EXCEPT !.len = n, !.cipher = EncryptedLen(n)]
        /\ step' = "pack" /\ UNCHANGED <<heap, ret>>
     \/ /\ msg' = [NoMsg EXCEPT !.len = n, !.cipher = MaxMsgLen]
        /\ step' = "pack" /\ UNCHANGED <<heap, ret>>
     \/ /\ msg' = [NoMsg EXCEPT !.len = n]
        /\ Leave("error", {})
  /\ UNCHANGED <<Device, Build, left, answer>>

\* The flatbuffer is built, encoded and printed into req_body, which cuts off
\* what does not fit: snprintf returns the length it would have needed, and only
\* a negative one is an error.  A failed encoding returns SC_OK and keeps the
\* buffer it was to fill.
Pack ==
  /\ step = "pack"
  /\ \/ /\ LET full == BodyLen(msg.cipher) IN
           msg' = [msg EXCEPT !.full = full, !.body = IF full < MaxMsgLen THEN full ELSE MaxMsgLen - 1]
        /\ heap' = {"builder", "buffer", "request"}
        /\ step' = "open" /\ UNCHANGED ret
     \/ Leave("ok", {"encoded"}) /\ UNCHANGED msg
  /\ UNCHANGED <<Device, Build, left, answer>>

\* The contexts http_open allocates.
Contexts == IF https THEN {"net", "tls"} ELSE {"net"}

\* Mutant: a failed send returns without closing.
CloseConnectionNot(status) ==
  IF status = "ok" THEN Leave("ok", {}) ELSE Leave("error", heap)

\* exit: of send_https_msg closes the connection and frees the request.  On
\* success send_mam_message frees the answer and the packed message; on an error
\* it returns before that.
CloseConnection(status) ==
  IF status = "ok"
  THEN Leave("ok", heap \ {"net", "tls", "request", "response", "builder", "buffer"})
  ELSE Leave("error", heap \ {"net", "tls", "request"})

\* http_open: allocate, seed, load the certificate, connect, configure.  The
\* length of a seed that was not given is taken all the same.
http_open ==
  /\ step = "open"
  /\ \/ /\ https /\ ~ssl_seed
        /\ step' = "crashed" /\ UNCHANGED <<left, heap, ret>>
     \/ /\ ~https \/ ssl_seed
        /\ \/ /\ heap' = heap \cup Contexts
              /\ step' = IF https THEN "handshake" ELSE "write"
              /\ left' \in 1..MaxParts
              /\ UNCHANGED ret
           \/ CloseConnection("error") /\ UNCHANGED left
  /\ UNCHANGED <<Device, Build, msg, answer>>

\* mbedtls_ssl_handshake: done, refused, or it wants more: the loop around it
\* never calls it again and tests the same value for ever.
Handshake ==
  /\ step = "handshake"
  /\ \/ step' = "write" /\ UNCHANGED <<heap, ret>>
     \/ step' = "spin" /\ UNCHANGED <<heap, ret>>
     \/ CloseConnection("error")
  /\ UNCHANGED <<Device, Build, msg, left, answer>>

\* Mutant: the first piece is taken for the whole.
AfterWriteOnce == "read"

\* write_len < req_len.
AfterWrite == IF left' = 0 THEN "read" ELSE "write"

\* One round of http_send_request: a piece is written; "want write" tries again,
\* which changes nothing; nothing written, or an error, ends it.
http_send_request ==
  /\ step = "write"
  /\ \/ left' = left - 1 /\ step' = AfterWrite /\ UNCHANGED <<heap, ret>>
     \/ CloseConnection("error") /\ UNCHANGED left
  /\ UNCHANGED <<Device, Build, msg, answer>>

\* Mutant: without an answer the message is sent again.
AfterReadRetries == IF answer' = "none" THEN "open" ELSE "parse"

\* http_read_response returns SC_OK whatever the read returned.
AfterRead == "parse"

\* http_read_response: one read.  An answer, an error that leaves the buffer
\* empty, or a read that must be repeated: then the TLS session is reset, which
\* a plain connection does not have.
http_read_response ==
  /\ step = "read"
  /\ \/ answer' \in {"ok", "other", "none"} /\ step' = AfterRead
     \/ https /\ answer' = "none" /\ step' = AfterRead
     \/ ~https /\ step' = "crashed" /\ UNCHANGED answer
  /\ UNCHANGED <<Device, Build, msg, left, heap, ret>>

\* The comparison with SC_HTTP_OK; the status of an empty answer is 0.
StatusOf(a) == IF a = "ok" THEN "ok" ELSE "error"

\* http_parser_execute: https_parser_callback allocates the body anew for every
\* piece it is given, so the body of a chunked answer leaves the pieces before.
https_parser_callback ==
  /\ step = "parse"
  /\ \E body \in IF answer = "none" THEN {{}} ELSE {{}, {"response"}, {"response", "piece"}} :
       heap' = heap \cup body
  /\ step' = "close"
  /\ UNCHANGED <<Device, Build, msg, left, answer, ret>>

\* The end of send_https_msg and of send_mam_message.
send_mam_message ==
  /\ step = "close"
  /\ CloseConnection(StatusOf(answer))
  /\ UNCHANGED <<Device, Build, msg, left, answer>>

SendStep ==
  \/ Pack
  \/ http_open
  \/ Handshake
  \/ http_send_request
  \/ http_read_response
  \/ https_parser_callback
  \/ send_mam_message

EndpointNext ==
  \/ endpoint_conf_init
  \/ set_device_key
  \/ CloseConf
  \/ WriteBack
  \/ ProcessEnds
  \/ PowerLoss
  \/ aes_encrypt
  \/ SendStep

\* The calls that return when the peer does something: the handshake, a write and
\* a read of TLS, which has no timeout; a plain read has one of 5 s.
WaitsForPeer == step \in {"handshake", "write"} \/ (https /\ step = "read")

\* A step that waits for no one.
SendProceeds == ~WaitsForPeer /\ SendStep

\* The process runs; nothing is assumed of the peer.
EndpointSpec == EndpointInit /\ [][EndpointNext]_evars /\ WF_evars(SendProceeds)

-----------------------------------------------------------------------------
Steps == {"pack", "open", "handshake", "write", "read", "parse", "close"}

\* Types, and the buffer of the ciphertext: what aes_encrypt writes fits in it,
\* the padding block included (cipher.c:163).
EndpointTypeOK ==
  /\ {keyfile, disk} \subseteq {"absent", "empty"} \cup Key /\ device_key \in {NoKey} \cup Key
  /\ step \in Steps \cup {"down", "writing", "up", "failed", "spin", "crashed", "done"}
  /\ msg.cipher \in 0..MaxMsgLen /\ msg.body \in 0..(MaxMsgLen - 1)
  /\ left \in 0..MaxParts /\ answer \in {"none", "ok", "other"}
  /\ heap \subseteq {"builder", "buffer", "encoded", "request", "net", "tls", "response", "piece"}
  /\ ret \in {"none", "ok", "error"}

\* SC_OK means that the whole request was written and the accelerator answered it
\* with status 200, whatever the reads and writes did in between; the one way
\* around it is a failed encoding (endpoint_core.c:119), after which nothing was
\* sent (https.c:96).
OkIsAnswered == ret = "ok" /\ "encoded" \notin heap => left = 0 /\ answer = "ok"

\* Every way out of send_https_msg closes the connection and frees the request;
\* on success nothing else stays behind but the earlier pieces of a chunked
\* answer (https.c:104, endpoint_core.c:159).
Released ==
  step = "done" =>
    /\ heap \cap {"net", "tls", "request"} = {}
    /\ ret = "ok" => heap \subseteq {"encoded", "piece"}

\* The result of send_mam_message is true and the call leaves nothing open
\* (endpoint_core.c:149, https.c:96).
SendOutcome == OkIsAnswered /\ Released

\* The process has read or made its key.
Running == step \notin {"down", "writing", "failed"}

\* A process uses the key that was written last, in whatever process that was and
\* however it ended.  Only after a loss of power that came before the file was on
\* the disk may it be an older one.  It only refuses to start on a device that
\* never had a key, after such a loss of power, or when a process ended between
\* emptying the file and writing it (simulator/impl.c:75).
KeySurvives ==
  /\ Running => device_key = chosen \/ (unsaved /\ device_key \in used)
  /\ step = "failed" => chosen = "absent" \/ cut \/ unsaved

\* Violated: a key that set_device_key has set is in use after a loss of power
\* (nothing is flushed to the disk, simulator/impl.c:84).
KeyOutlastsPower == Running => device_key = chosen

\* A send that was begun comes to its end; otherwise it waits for its peer for
\* ever, as TLS has no timeout (conn_http.c:139), or turns in the loop around the
\* handshake (conn_http.c:142).
SendReturns ==
  \/ []<>(step \notin Steps \cup {"spin"})
  \/ <>[]WaitsForPeer
  \/ <>[](step = "spin")

\* "The message is too long.\n" (endpoint_core.c:130): a message that does not fit
\* in the request is refused, so one that is sent is whole.
SentIsWhole == step = "done" /\ ret = "ok" => msg.body = msg.full

\* "Personalization data, that is device-specific identifiers. Can be NULL."
\* (conn_http.h:53): a connection without a seed is opened or refused.
SeedMayBeNull == step = "crashed" => ssl_seed \/ ~https
=============================================================================
