------------------------------- MODULE Timer -------------------------------
(***************************************************************************)
(* A callback run in a thread with a time limit: ta_timer_start() arms the *)
(* timer and creates the thread, the expiration handler cancels it from a  *)
(* thread of its own, ta_timer_stop() joins it and frees the timer.  The   *)
(* three run concurrently; timer_lock is held by the handler around the    *)
(* cancellation and by ta_timer_stop() around the release.                 *)
(***************************************************************************)
CONSTANT Endless  \* whether the callback may run for ever

ASSUME TimerAssumption == Endless \subseteq BOOLEAN /\ Endless # {}

VARIABLES endless,   \* the callback runs until it is cancelled
          caller,    \* "start", "armed", "join", "release", or the status returned
          callback,  \* "none", "run", "asked" to cancel, "returned", "cancelled"
          handler,   \* "none", "log", "lock", "cancel", "unlock", "done"
          lock,      \* owner of timer_lock
          freed,     \* the ta_timer_t was freed
          stale      \* history: how the handler read a ta_timer_t it must not

tvars == <<endless, caller, callback, handler, lock, freed, stale>>

Statuses == {"SC_OK", "SC_UTILS_TIMER_EXPIRED"}

TimerInit ==
    /\ endless \in Endless /\ caller = "start" /\ callback = "none"
    /\ handler = "none" /\ lock = "none" /\ freed = FALSE /\ stale = {}

\* ta_timer_start: the timer is armed before the thread exists.
Arm ==
    /\ caller = "start" /\ caller' = "armed"
    /\ UNCHANGED <<endless, callback, handler, lock, freed, stale>>

CreateThread ==
    /\ caller = "armed" /\ caller' = "join" /\ callback' = "run"
    /\ UNCHANGED <<endless, handler, lock, freed, stale>>

Expire ==
    /\ caller \notin {"start"} \cup Statuses /\ handler = "none" /\ handler' = "log"
    /\ UNCHANGED <<endless, caller, callback, lock, freed, stale>>

\* Reading args->timer_id or args->thread_id.
Reads == stale' = stale \cup IF freed THEN {"freed"} ELSE IF callback = "none" THEN {"unset"} ELSE {}

HandlerLogs ==
    /\ handler = "log" /\ handler' = "lock" /\ Reads
    /\ UNCHANGED <<endless, caller, callback, lock, freed>>

\* Mutant: the lock is not taken.
HandlerLocksNot == handler = "lock" /\ handler' = "cancel" /\ UNCHANGED <<endless, caller, callback, lock, freed, stale>>

HandlerLocks ==
    /\ handler = "lock" /\ handler' = "cancel" /\ lock = "none" /\ lock' = "handler"
    /\ UNCHANGED <<endless, caller, callback, freed, stale>>

HandlerCancels ==
    /\ handler = "cancel" /\ handler' = "unlock" /\ Reads
    /\ callback' = IF callback = "run" /\ ~freed THEN "asked" ELSE callback
    /\ UNCHANGED <<endless, caller, lock, freed>>

\* Mutant: the lock is kept.
HandlerUnlocksNot == handler = "unlock" /\ handler' = "done" /\ UNCHANGED <<endless, caller, callback, lock, freed, stale>>

HandlerUnlocks ==
    /\ handler = "unlock" /\ handler' = "done" /\ lock' = "none"
    /\ UNCHANGED <<endless, caller, callback, freed, stale>>

Handler == HandlerLogs \/ HandlerLocks \/ HandlerCancels \/ HandlerUnlocks

Return ==
    /\ ~endless /\ callback \in {"run", "asked"} /\ callback' = "returned"
    /\ UNCHANGED <<endless, caller, handler, lock, freed, stale>>

\* A request to cancel is acted on at the next cancellation point.
CancellationPoint ==
    /\ callback = "asked" /\ callback' = "cancelled"
    /\ UNCHANGED <<endless, caller, handler, lock, freed, stale>>

Callback == Return \/ CancellationPoint

\* Mutant: the thread is not waited for.
JoinNot == caller = "join" /\ caller' = "release" /\ UNCHANGED <<endless, callback, handler, lock, freed, stale>>

Join ==
    /\ caller = "join" /\ callback \in {"returned", "cancelled"} /\ caller' = "release"
    /\ UNCHANGED <<endless, callback, handler, lock, freed, stale>>

\* Mutant: the timer decides, not the value of the join.
ResultByTimer == IF handler = "done" THEN "SC_UTILS_TIMER_EXPIRED" ELSE "SC_OK"

\* rval is PTHREAD_CANCELED or the callback's own.
Result == IF callback = "cancelled" THEN "SC_UTILS_TIMER_EXPIRED" ELSE "SC_OK"

\* timer_delete and the frees, under the lock.  A handler that has started is
\* not waited for.
Release ==
    /\ caller = "release" /\ lock = "none"
    /\ freed' = TRUE /\ caller' = Result
    /\ UNCHANGED <<endless, callback, handler, lock, stale>>

Caller == Arm \/ CreateThread \/ Join \/ Release

TimerNext == Caller \/ Expire \/ Handler \/ Callback

\* All threads run, and an armed timer expires unless it is deleted.
TimerSpec ==
    /\ TimerInit /\ [][TimerNext]_tvars
    /\ WF_tvars(Caller) /\ WF_tvars(Expire) /\ WF_tvars(Handler) /\ WF_tvars(Callback)

-----------------------------------------------------------------------------

\* The handler holds the lock exactly while it cancels, and ta_timer_stop
\* returns only what it has released (timer.c:33, timer.c:82).
TimerTypeOK ==
    /\ (lock = "handler") = (handler \in {"cancel", "unlock"})
    /\ freed = (caller \in Statuses)
    /\ stale \subseteq {"freed", "unset"}

\* A ta_timer_stop that reports SC_UTILS_TIMER_EXPIRED was preceded by the
\* expiration, and one that reports SC_OK has the callback's value (timer.c:94).
ExpiredIsCancelled ==
    caller \in Statuses =>
        (caller = "SC_OK") = (callback = "returned") /\ (callback = "cancelled" => handler \in {"unlock", "done"})

\* A handler whose cancellation took effect has read the ta_timer_t for the
\* last time before it is freed, since both are under timer_lock.  Nothing is
\* said of a handler that lost the race with the callback's own return: that
\* one is not waited for and may read freed memory (timer.c:34, timer.c:82).
CancelledIsLive == "freed" \in stale => callback = "returned"

\* The caller of ta_timer_stop learns how its callback ended, and a timer is
\* not freed under a handler that has cancelled the callback
\* (timer.c:34, timer.c:94).
TimerIsSafe == ExpiredIsCancelled /\ CancelledIsLive

\* The handler reads only a ta_timer_t that is there and has its thread id.
\* Violated twice: the timer may expire before pthread_create has stored the id,
\* and the handler may start when the callback has returned and the timer is
\* about to be freed (timer.c:30, timer.c:61).
HandlerReadsLive == stale = {}

\* ta_timer_stop returns, also from a callback that never ends: the expiry
\* cancels it.  The exception is an endless callback whose timer expired before
\* the thread was created, which cancelled nothing (timer.c:61, timer.c:73).
TimerStops == (caller = "join") ~> (caller \in Statuses \/ (endless /\ "unset" \in stale))
=============================================================================
