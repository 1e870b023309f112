------------------------------- MODULE Permanode -------------------------------
(***************************************************************************)
(* The transaction table of the permanode.  One insertion is three writes  *)
(* of an unlogged kind: the transaction's own row, then the transaction    *)
(* as an approvee of its trunk and of its branch; any of them may fail,    *)
(* applied or not, and the caller may then start from the first again.     *)
(* A search asks one query per criterion, each against the table as it is  *)
(* by then.  A tag, an address and a bundle are the same kind of indexed   *)
(* column.                                                                 *)
(***************************************************************************)
EXTENDS Integers, FiniteSets, FiniteSetsExt

CONSTANTS Stored,          \* transactions the feeders insert
          Missing,         \* transactions approved but never inserted
          Trunk, Branch,   \* the transactions each of Stored approves
          Column,          \* set of <<column, value>> pairs in use
          Fields,          \* the pairs each of Stored carries
          Limit,           \* LIMIT of the SELECT on an indexed column
          PermanodeFaults  \* bound: failed statements

ASSUME PermanodeAssumption ==
    /\ IsFiniteSet(Stored) /\ Stored \cap Missing = {}
    /\ Trunk \in [Stored -> Stored \cup Missing]
    /\ Branch \in [Stored -> Stored \cup Missing]
    /\ Fields \in [Stored -> SUBSET Column]
    /\ Limit \in Nat \ {0} /\ PermanodeFaults \in Nat

VARIABLES rows,       \* hashes whose own columns are written
          approvees,  \* the approvees column of every hash
          insert,     \* where the insertion of a transaction stands
          inserted,   \* history: insertions that returned SC_OK
          search,     \* the search in progress
          failures    \* failed statements so far

pvars == <<rows, approvees, insert, inserted, search, failures>>

Tx == Stored \cup Missing
NoSearch == [at |-> "idle", todo |-> {}, done |-> {}, found |-> {}, before |-> {}]

PermanodeInit ==
    /\ rows = {} /\ approvees = [h \in Tx |-> {}]
    /\ insert = [h \in Stored |-> "idle"] /\ inserted = {}
    /\ search = NoSearch /\ failures = 0

StatementFails == failures < PermanodeFaults /\ failures' = failures + 1

-----------------------------------------------------------------------------
(* Writes *)

insert_transaction(h) == rows' = rows \cup {h} /\ UNCHANGED approvees

\* Mutant: the two hashes are bound the wrong way round.
insert_approver(h, approvee) ==
    approvees' = [approvees EXCEPT ![approvee] = @ \cup {h}] /\ UNCHANGED rows

insert_approvee(h, approvee) ==
    approvees' = [approvees EXCEPT ![h] = @ \cup {approvee}] /\ UNCHANGED rows

\* Mutant: the approvees are written before the row.
NextWriteLate(at) == CASE at = "idle" -> "trunk" [] at = "trunk" -> "branch" [] at = "branch" -> "row" [] OTHER -> "ok"

\* Mutant: the approvee of the branch is forgotten.
NextWriteShort(at) == CASE at = "idle" -> "row" [] at = "row" -> "trunk" [] OTHER -> "ok"

\* The order of the writes of db_permanode_insert_transaction.
NextWrite(at) == CASE at = "idle" -> "row" [] at = "row" -> "trunk" [] at = "trunk" -> "branch" [] OTHER -> "ok"

Write(h, at) ==
    CASE at = "row" -> insert_transaction(h)
      [] at = "trunk" -> insert_approvee(Trunk[h], h)
      [] at = "branch" -> insert_approvee(Branch[h], h)

\* Mutant: the status of a failed statement is not looked at.
InsertFailsUnchecked(h, at) == insert' = [insert EXCEPT ![h] = NextWrite(at)]

\* The insertion returns an error; what it has written stays.
InsertFails(h, at) == insert' = [insert EXCEPT ![h] = "idle"]

\* One statement of the insertion of h; insert[h] is the one that comes next.
db_permanode_insert_transaction(h) ==
    LET at == IF insert[h] = "idle" THEN NextWrite("idle") ELSE insert[h]
    IN  /\ insert[h] # "ok"
        /\ \/ /\ Write(h, at)
              /\ insert' = [insert EXCEPT ![h] = NextWrite(at)]
              /\ inserted' = IF NextWrite(at) = "ok" THEN inserted \cup {h} ELSE inserted
              /\ UNCHANGED failures
           \/ /\ StatementFails
              /\ Write(h, at) \/ UNCHANGED <<rows, approvees>>
              /\ InsertFails(h, at)
              /\ UNCHANGED inserted
        /\ UNCHANGED search

-----------------------------------------------------------------------------
(* Queries *)

\* At most Limit hashes of an indexed column, whichever the index gives.
get_hash_from_transaction_table(c) ==
    LET hits == {h \in rows : c \in Fields[h]}
    IN  IF Cardinality(hits) <= Limit THEN {hits} ELSE kSubset(Limit, hits)

db_get_approvee(h) == {approvees[h]}

\* A criterion is [column |-> pair] or [approvees |-> hash].
Criterion == [column : Column] \cup [approves : Tx]
Query(c) == IF c \in [column : Column] THEN get_hash_from_transaction_table(c.column) ELSE db_get_approvee(c.approves)
Matches(c) == IF c \in [column : Column] THEN {h \in Stored : c.column \in Fields[h]}
              ELSE {h \in Stored : c.approves \in {Trunk[h], Branch[h]}}

StartSearch ==
    /\ search = NoSearch
    /\ \E todo \in (SUBSET Criterion) \ {{}} :
          /\ Cardinality(todo) <= 2
          /\ search' = [at |-> "run", todo |-> todo, done |-> {}, found |-> {}, before |-> inserted]
    /\ UNCHANGED <<rows, approvees, insert, inserted, failures>>

\* Mutant: a criterion without a hit is skipped instead of ending the search.
AnsweredAnyway(answer) == TRUE

Answered(answer) == answer # {}

\* The next criterion: columns first, then approvees; no hit ends the search.
db_client_find_transactions ==
    /\ search.at = "run" /\ search.todo # {}
    /\ \E c \in search.todo :
          /\ c \in [approves : Tx] => search.todo \subseteq [approves : Tx]
          /\ \/ \E answer \in Query(c) :
                   search' = [search EXCEPT !.todo = @ \ {c}, !.done = @ \cup {c}, !.found = @ \cup answer,
                                            !.at = IF Answered(answer) THEN "run" ELSE "error"]
                /\ UNCHANGED failures
             \/ StatementFails /\ search' = [search EXCEPT !.at = "error"]
    /\ UNCHANGED <<rows, approvees, insert, inserted>>

EndSearch ==
    /\ search.at = "error" \/ (search.at = "run" /\ search.todo = {})
    /\ search' = NoSearch
    /\ UNCHANGED <<rows, approvees, insert, inserted, failures>>

\* SELECT COUNT: a row exists as soon as any of its columns was written.
db_client_get_inclusion_states(h) == h \in rows \/ approvees[h] # {}

\* The trytes column is set only by insert_transaction.
db_client_get_trytes(hashes) == hashes \subseteq rows

PermanodeNext ==
    \/ \E h \in Stored : db_permanode_insert_transaction(h)
    \/ StartSearch \/ db_client_find_transactions \/ EndSearch

PermanodeSpec == PermanodeInit /\ [][PermanodeNext]_pvars

-----------------------------------------------------------------------------
(* Properties *)

\* Only transactions that are inserted have a row, and the hashes under a key
\* are ones whose insertion wrote them (insert_approvee, scylladb_permanode.c:132).
PermanodeTypeOK ==
    /\ rows \in SUBSET Stored /\ approvees \in [Tx -> SUBSET Stored]
    /\ insert \in [Stored -> {"idle", "row", "trunk", "branch", "ok"}]
    /\ inserted \in SUBSET Stored /\ failures \in 0..PermanodeFaults
    /\ search.at \in {"idle", "run", "error"} /\ search.todo \cup search.done \in SUBSET Criterion
    /\ search.found \in SUBSET Stored /\ search.before \in SUBSET Stored

\* Every hash a search gives is reported as included and its trytes can be
\* fetched, whatever insertions run or were cut short meanwhile: no approvee is
\* recorded before its own row (scylladb_permanode.c:466).
FoundIsHeld ==
    /\ db_client_get_trytes(search.found)
    /\ \A h \in search.found : db_client_get_inclusion_states(h)

\* A search that ends well (scylladb_permanode.c:557) has every matching
\* transaction whose insertion had returned before it began, unless the LIMIT
\* cut a criterion short.
FoundIsComplete ==
    (search.at = "run" /\ search.todo = {}) =>
        \A c \in search.done :
            \/ c \in [column : Column] /\ Cardinality({h \in rows : c.column \in Fields[h]}) > Limit
            \/ Matches(c) \cap search.before \subseteq search.found

\* A search ends well only if each of its criteria had a hit: a criterion without
\* one is SC_CCLIENT_NOT_FOUND for the whole search (scylladb_permanode.c:269).
FoundMatchesAll ==
    (search.at = "run" /\ search.todo = {}) =>
        \A c \in search.done : Matches(c) \cap search.found # {}

\* An insertion that returned SC_OK is recorded with its row and with both of
\* its approvals, although the three writes of db_permanode_insert_transaction
\* are no transaction and earlier attempts may have stopped at any of them.
InsertedIsRecorded ==
    inserted \subseteq {h \in rows : h \in approvees[Trunk[h]] /\ h \in approvees[Branch[h]]}

\* A search of the permanode that ends well is right, whatever insertions and
\* failures run beside it: what it gives is held, nothing is left out, and
\* every criterion was met (scylladb_permanode.c:527).
SearchIsRight == FoundIsHeld /\ FoundIsComplete /\ FoundMatchesAll /\ InsertedIsRecorded
=============================================================================
