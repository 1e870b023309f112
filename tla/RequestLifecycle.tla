-------------------------- MODULE RequestLifecycle --------------------------
(***************************************************************************)
(* What the request buffer promises to the owner of a UUID, without lists, *)
(* locks and threads: an accepted request is unsent, then sent, then gone. *)
(* It can get lost on the way only when redis or the process fails.  The   *)
(* result of a request is handed out at most once.                         *)
(*                                                                         *)
(* One thing the code does is visible even here: handing out the result of *)
(* one request removes some sent request, not necessarily the same one.    *)
(***************************************************************************)
EXTENDS Naturals

CONSTANT Request

VARIABLES stage,      \* "none", "unsent", "sent", "gone" or "lost"
          handed,     \* how often the result was handed out
          reliable    \* redis and the process have not failed yet

vars == <<stage, handed, reliable>>

Init ==
    /\ stage = [r \in Request |-> "none"]
    /\ handed = [r \in Request |-> 0]
    /\ reliable = TRUE

Move(r, from, to) == stage[r] = from /\ stage' = [stage EXCEPT ![r] = to]

Accept(r) == Move(r, "none", "unsent") /\ UNCHANGED <<handed, reliable>>

Complete(r) == Move(r, "unsent", "sent") /\ UNCHANGED <<handed, reliable>>

Evict(r) == Move(r, "sent", "gone") /\ UNCHANGED <<handed, reliable>>

HandOut(r, removed) ==
    /\ stage[r] \in {"sent", "gone"}
    /\ handed[r] = 0
    /\ handed' = [handed EXCEPT ![r] = 1]
    /\ Move(removed, "sent", "gone")
    /\ UNCHANGED reliable

Lose(r) == Move(r, "unsent", "lost") /\ reliable' = FALSE /\ UNCHANGED handed

Fail == reliable' = FALSE /\ UNCHANGED <<stage, handed>>

Next ==
    \/ \E r \in Request : Accept(r) \/ Complete(r) \/ Evict(r) \/ Lose(r)
    \/ \E r, removed \in Request : HandOut(r, removed)
    \/ Fail

Spec == Init /\ [][Next]_vars
=============================================================================
