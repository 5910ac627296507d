------------------------------ MODULE MCWorkflow -------------------------------
(*****************************************************************************)
(* Workflow over four steps: two paths of unlike length that join, a fork    *)
(* that joins, one that does not, and two roots that share a successor;      *)
(* each with one or two conditionals and at most one loop, with and          *)
(* without fail_fast.                                                        *)
(*****************************************************************************)
EXTENDS Workflow

MCSteps == 1..4

Skew == {<<1, 2>>, <<2, 3>>, <<1, 4>>, <<3, 4>>}
Diamond == {<<1, 2>>, <<1, 3>>, <<2, 4>>, <<3, 4>>}
Fork == {<<1, 2>>, <<1, 3>>, <<3, 4>>}
Shared == {<<1, 3>>, <<2, 3>>, <<2, 4>>}

MCKinds == {k \in [MCSteps -> Kinds] :
    /\ Cardinality({s \in MCSteps : k[s] = "cond"}) \in 1..2
    /\ Cardinality({s \in MCSteps : k[s] = "loop"}) <= 1}

MCWorkflows == [edges : {Skew, Diamond, Fork, Shared}, kind : MCKinds, failFast : BOOLEAN]
=============================================================================
