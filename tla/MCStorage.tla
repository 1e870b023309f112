------------------------------ MODULE MCStorage ------------------------------
(***************************************************************************)
(* The two ScyllaDB keyspaces.  They share no data, so a behaviour runs    *)
(* one of them: the state space is the sum of the two and not a product.   *)
(***************************************************************************)
EXTENDS Reattacher, Permanode, TLC

CONSTANTS t1, t2, x1, x2, x3, genesis

\* x2 approves x1 and x3 approves both; all approve a genesis never stored.
MCTrunk == x1 :> genesis @@ x2 :> x1 @@ x3 :> x2
MCBranch == x1 :> genesis @@ x2 :> genesis @@ x3 :> x1
MCColumn == {<<"tag", 1>>, <<"address", 1>>}
MCFields == x1 :> {<<"tag", 1>>} @@ x2 :> {<<"tag", 1>>} @@ x3 :> {<<"tag", 1>>, <<"address", 1>>}

VARIABLE active

mvars == <<rvars, pvars, active>>

Init ==
    /\ ReattacherInit /\ PermanodeInit
    /\ active \in {"reattacher", "permanode"}

ReattacherStep == active = "reattacher" /\ ReattacherNext /\ UNCHANGED <<pvars, active>>
PermanodeStep == active = "permanode" /\ PermanodeNext /\ UNCHANGED <<rvars, active>>

Next == ReattacherStep \/ PermanodeStep

\* The reattacher's loop never ends and time passes.
Fairness ==
    /\ WF_mvars(active = "reattacher" /\ Reattach /\ UNCHANGED <<pvars, active>>)
    /\ WF_mvars(active = "reattacher" /\ Tick /\ UNCHANGED <<pvars, active>>)

Spec == Init /\ [][Next]_mvars /\ Fairness

\* The type invariants of the two.
TypesOK == ReattacherTypeOK /\ PermanodeTypeOK
=============================================================================
