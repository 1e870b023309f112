------------------------------- MODULE Query -------------------------------
(***************************************************************************)
(* The queries for transactions and bundles: ta_find_transaction_objects() *)
(* with its callers in apis.c, and ta_get_bundle() and                     *)
(* ta_get_bundles_by_addr(), which the MAM receiver uses.  A transaction   *)
(* is <<b, c, i>>: number i of the c-th attachment of bundle b; its trunk  *)
(* is the next one of the attachment.                                      *)
(***************************************************************************)
EXTENDS Integers, Sequences, FiniteSets, FiniteSetsExt, Functions, Folds

CONSTANTS Bundle,      \* bundle hashes
          Copies,      \* attachments of a bundle
          BundleLen,   \* transactions of a bundle
          ResultLimit, \* RESULT_SET_LIMIT
          MaxAsked     \* bound: hashes in one request or one listing

ASSUME QueryAssumption ==
    /\ Copies \in Nat \ {0} /\ BundleLen \in Nat \ {0}
    /\ ResultLimit \in Nat \ {0} /\ MaxAsked \in Nat

VARIABLES tangle,  \* transactions the node knows
          cached,  \* transactions a cache_get by hash finds
          query    \* the query in progress

qvars == <<tangle, cached, query>>

Txn == Bundle \X (1..Copies) \X (0..(BundleLen - 1))
Trunk(t) == <<t[1], t[2], t[3] + 1>>
NullTxn == <<"null", 0, 0>>
NoQuery == [kind |-> "none"]
\* What a node may list of a set of transactions, in any order.
Listings(S) == UNION {Injection(1..n, S) : n \in 0..MaxAsked}
Whole == \A t \in tangle : \A i \in 0..(BundleLen - 1) : <<t[1], t[2], i>> \in tangle

QueryInit ==
    /\ \E attached \in SUBSET (Bundle \X (1..Copies)) : \E missing \in {{}} \cup {{t} : t \in {u \in Txn : u[2] = 1}} :
          tangle = {t \in Txn : <<t[1], t[2]>> \in attached} \ missing
    /\ cached \in {{}} \cup {{t} : t \in tangle}
    /\ query = NoQuery

-----------------------------------------------------------------------------
(* The callers *)

NewQuery(kind, asked) ==
    [kind |-> kind, asked |-> asked, at |-> "lookup", i |-> 1,
     uncached |-> <<>>, fetched |-> <<>>, res |-> <<>>, bundles |-> <<>>, status |-> "OK"]

Begin(kind, asked) == query' = NewQuery(kind, asked)

\* iota_client_find_transactions failed, or listed nothing where that is an error.
Refuse(kind, status) == query' = [NewQuery(kind, <<>>) EXCEPT !.at = "done", !.status = status]

\* Mutant: one hash too many is let through.
LimitedLate(hashes) ==
    IF Len(hashes) > ResultLimit + 1 THEN SubSeq(hashes, Len(hashes) - ResultLimit, Len(hashes)) ELSE hashes

\* hash243_queue_pop until the count is right: the front goes.
Limited(hashes) ==
    IF Len(hashes) > ResultLimit THEN SubSeq(hashes, Len(hashes) - ResultLimit + 1, Len(hashes)) ELSE hashes

api_find_transaction_object_single ==
    /\ query = NoQuery
    /\ \E t \in Txn : Begin("single", <<t>>)
    /\ UNCHANGED <<tangle, cached>>

api_find_transaction_objects ==
    /\ query = NoQuery
    /\ \E hashes \in UNION {[1..n -> Txn] : n \in 0..MaxAsked} : Begin("objects", Limited(hashes))
    /\ UNCHANGED <<tangle, cached>>

\* iota_client_find_transactions lists what it knows of the tag; the first
\* RESULT_SET_LIMIT are taken.
ta_find_transactions_obj_by_tag ==
    /\ query = NoQuery
    /\ \/ \E hashes \in Listings(tangle) :
             Begin("by_tag", SubSeq(hashes, 1, Min({Len(hashes), ResultLimit})))
       \/ Refuse("by_tag", "FAILED_RESPONSE")
    /\ UNCHANGED <<tangle, cached>>

\* ta_get_bundles_by_addr up to its call of ta_find_transaction_objects: every
\* transaction of a message has the channel's address; none is an error.
BundlesByAddr ==
    /\ query = NoQuery
    /\ \/ \E hashes \in Listings(tangle) \ {<<>>} : Begin("by_addr", hashes)
       \/ Refuse("by_addr", "FAILED_RESPONSE")
       \/ Refuse("by_addr", "NOT_FOUND")
    /\ UNCHANGED <<tangle, cached>>

-----------------------------------------------------------------------------
(* ta_find_transaction_objects *)

Fail(status) == query' = [query EXCEPT !.at = "done", !.status = status]

\* The cache is asked for every hash in turn.
Lookup ==
    /\ query # NoQuery /\ query.at = "lookup"
    /\ LET t == query.asked[query.i]
       IN  query' = IF query.i > Len(query.asked) THEN [query EXCEPT !.at = "fetch", !.i = 1]
                    ELSE IF t \in cached THEN [query EXCEPT !.i = @ + 1, !.res = Append(@, t)]
                    ELSE [query EXCEPT !.i = @ + 1, !.uncached = Append(@, t)]
    /\ UNCHANGED <<tangle, cached>>

\* Mutant: only the first element of the array is taken over.
FetchedFirst(array, object) == LET grown == Append(array, object) IN <<grown[1], grown[1]>>

\* The object is appended to the array and then the array's first element.
Fetched(array, object) == LET grown == Append(array, object) IN Append(grown, grown[1])

\* One getTrytes per hash; an unknown one is answered with nines.
GetObject ==
    /\ query # NoQuery /\ query.at = "fetch"
    /\ \/ query.i > Len(query.uncached) /\ query' = [query EXCEPT !.at = "append", !.i = 1]
       \/ /\ query.i <= Len(query.uncached)
          /\ LET t == query.uncached[query.i]
             IN  query' = [query EXCEPT !.i = @ + 1,
                                        !.fetched = Fetched(@, IF t \in tangle THEN t ELSE NullTxn)]
       \/ query.i <= Len(query.uncached) /\ Fail("FAILED_RESPONSE")
    /\ UNCHANGED <<tangle, cached>>

\* Mutant: the trits are not looked at.
NotFoundNever(array) == FALSE

\* A transaction of nines ends the loop with an error.
NotFound(array) == NullTxn \in Range(array)

\* The fetched objects join the result, or the query fails.
AppendFetched ==
    /\ query # NoQuery /\ query.at = "append"
    /\ IF NotFound(query.fetched)
         THEN Fail("NOT_FOUND")
         ELSE query' = [query EXCEPT !.at = IF query.kind = "by_addr" THEN "bundles" ELSE "done",
                                     !.i = 1, !.res = @ \o query.fetched]
    /\ UNCHANGED <<tangle, cached>>

-----------------------------------------------------------------------------
(* ta_get_bundle *)

\* Mutant: the trunk is not compared.
FollowsAny(t, prev) == t[3] = prev[3] + 1

Follows(t, prev) == t[3] = prev[3] + 1 /\ t = Trunk(prev)

\* The transactions in the order of their index; equal ones in any order.
IndexSorted(S) == {s \in Bijection(1..Cardinality(S), S) : \A j \in 1..(Len(s) - 1) : s[j][3] <= s[j + 1][3]}

get_first_bundle_from_transactions(s) ==
    MapThenFoldSet(LAMBDA t, bundle : IF Follows(t, bundle[Len(bundle)]) THEN Append(bundle, t) ELSE bundle,
                   <<s[1]>>, LAMBDA j : s[j], Max, DOMAIN s)

\* Mutant: bundle hashes already met are not remembered.
SeenNever(b) == FALSE

Seen(b) == \E j \in 1..Len(query.bundles) : query.bundles[j][1][1] = b

\* The bundle of the next object, unless it was fetched already.
ta_get_bundle ==
    /\ query # NoQuery /\ query.at = "bundles" /\ query.i <= Len(query.res)
    /\ LET b == query.res[query.i][1]
       IN  IF Seen(b) THEN query' = [query EXCEPT !.i = @ + 1]
           ELSE \/ \E s \in IndexSorted({t \in tangle : t[1] = b}) :
                      query' = [query EXCEPT !.i = @ + 1,
                                             !.bundles = Append(@, get_first_bundle_from_transactions(s))]
                \/ Fail("FAILED_RESPONSE")
    /\ UNCHANGED <<tangle, cached>>

\* ta_recv_mam_message by a bundle hash.  A hash that no transaction has leaves an
\* empty list, whose first element is NULL and is copied all the same.
BundleByHash ==
    /\ query = NoQuery
    /\ \/ \E b \in Bundle : \E s \in IndexSorted({t \in tangle : t[1] = b}) :
             query' = IF s = <<>> THEN [NewQuery("by_bundle", <<>>) EXCEPT !.at = "crashed"]
                      ELSE [NewQuery("by_bundle", <<>>) EXCEPT
                              !.at = "done", !.bundles = <<get_first_bundle_from_transactions(s)>>]
       \/ Refuse("by_bundle", "FAILED_RESPONSE")
    /\ UNCHANGED <<tangle, cached>>

BundlesDone ==
    /\ query # NoQuery /\ query.at = "bundles" /\ query.i > Len(query.res)
    /\ query' = [query EXCEPT !.at = "done"]
    /\ UNCHANGED <<tangle, cached>>

QueryNext ==
    \/ api_find_transaction_object_single \/ api_find_transaction_objects
    \/ ta_find_transactions_obj_by_tag \/ BundlesByAddr \/ BundleByHash
    \/ Lookup \/ GetObject \/ AppendFetched \/ ta_get_bundle \/ BundlesDone

QuerySpec == QueryInit /\ [][QueryNext]_qvars

-----------------------------------------------------------------------------
(* Properties *)

Answered == query # NoQuery /\ query.at = "done" /\ query.status = "OK"

\* Types, and no answer holds the object of a transaction that the node did not
\* find (core.c:359).
QueryTypeOK ==
    query # NoQuery =>
        /\ query.kind \in {"single", "objects", "by_tag", "by_addr", "by_bundle"}
        /\ query.at \in {"lookup", "fetch", "append", "bundles", "done", "crashed"}
        /\ Range(query.asked) \cup Range(query.uncached) \cup Range(query.res) \subseteq Txn
        /\ Range(query.fetched) \subseteq Txn \cup {NullTxn}
        /\ query.status \in {"OK", "FAILED_RESPONSE", "NOT_FOUND"}

\* A successful ta_find_transaction_objects returns the objects of exactly the
\* transactions it was asked for, whichever of them came from the cache and
\* although the array they are fetched into is read back at every step
\* (core.c:350).
FoundAreAsked == Answered => Range(query.res) = Range(query.asked)

\* At most RESULT_SET_LIMIT transactions are asked from the cache and the node
\* (apis.c:77, core.c:238).
AsksWithinLimit == query # NoQuery /\ query.kind \in {"objects", "by_tag"} => Len(query.asked) <= ResultLimit

\* Every bundle that ta_get_bundle returns is one attachment from its first
\* transaction to its last, even when several attachments are on the tangle
\* (core.c:403).
BundlesAreAttachments ==
    Answered /\ Whole =>
        \A j \in DOMAIN query.bundles : \E b \in Bundle, c \in 1..Copies :
            query.bundles[j] = [i \in 1..BundleLen |-> <<b, c, i - 1>>]

\* A receiver gets every bundle of the address once, although the objects of
\* its transactions come several times (core.c:513).
EachBundleOnce ==
    Answered /\ query.kind = "by_addr" =>
        \A b \in {t[1] : t \in Range(query.asked)} :
            Cardinality({j \in DOMAIN query.bundles : query.bundles[j][1][1] = b}) = 1

\* A query that succeeds returns what was asked for, in whole attachments, and
\* asks no more than the limit (core.c:285, core.c:391, core.c:469).
QueryIsRight == FoundAreAsked /\ AsksWithinLimit /\ BundlesAreAttachments /\ EachBundleOnce

\* apis.c:76: "Limit the returned transaction objects less equal than
\* 'RESULT_SET_LIMIT'".
ResultWithinLimit == Answered /\ query.kind \in {"objects", "by_tag"} => Len(query.res) <= ResultLimit

\* Violated: "SC_OK on success", "non-zero on error" (core.h:163): ta_get_bundle
\* returns, also when no transaction has the hash.
BundleLookupReturns == query # NoQuery => query.at # "crashed"
=============================================================================
