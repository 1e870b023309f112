---------------------------- MODULE BackendRedis ----------------------------
(***************************************************************************)
(* The redis commands that utils/cache/backend_redis.c issues, as          *)
(* operators on the value stored under one key, and the process-wide       *)
(* pthread_rwlock that cache_init allocates next to the connection.        *)
(*                                                                         *)
(* A list is a sequence whose first element is the redis head: the code    *)
(* pushes with LPUSH and pops with LPOP, so a list is a stack.  A key that *)
(* redis does not hold is the empty sequence (redis deletes empty lists).  *)
(* Indices of LINDEX start at 0.  One redis command is one atomic step.    *)
(***************************************************************************)
EXTENDS Integers, Sequences, FiniteSets, Functions

CONSTANT MaxReaders   \* read locks one rwlock can hold; tryrdlock then says EAGAIN

ASSUME MaxReadersAssumption == MaxReaders \in Nat \ {0}

VARIABLES writer,     \* the rwlock is held for writing
          readers     \* how many times it is held for reading

lock == <<writer, readers>>

\* LPUSH key value
list_push(s, x) == <<x>> \o s

\* LINDEX key i: is there an element, and which one (list_peek is i = 0).
list_has(s, i) == i < Len(s)
list_at(s, i) == s[i + 1]

\* LPOP key: what stays in the list.
list_pop(s) == Tail(s)

\* One turn of the loop of redis_list_exist: the scan keeps the length it read
\* first, goes on after an error, and never stops early.
list_exist_step(r, s) ==
    [r EXCEPT !.idx = @ + 1,
              !.exist = @ \/ (list_has(s, r.idx) /\ list_at(s, r.idx) = r.uuid),
              !.err = @ \/ ~list_has(s, r.idx)]

-----------------------------------------------------------------------------
\* The rwlock.  Only the try variants are used, so no thread ever waits for it.
LockInit == writer = FALSE /\ readers = 0

LockTypeOK == writer \in BOOLEAN /\ readers \in 0..MaxReaders

tryrdlock == ~writer /\ readers < MaxReaders /\ readers' = readers + 1 /\ UNCHANGED writer

trywrlock == ~writer /\ readers = 0 /\ writer' = TRUE /\ UNCHANGED readers

rdunlock == readers' = readers - 1 /\ UNCHANGED writer

wrunlock == writer' = FALSE /\ UNCHANGED readers
=============================================================================
