------------------------------ MODULE StagesMC ------------------------------
(* Instances of Stages: which audits are considered. *)
EXTENDS Stages

Kind(deep, trainable, evaluated, contract) ==
    [deep |-> deep, trainable |-> trainable, evaluated |-> evaluated, contract |-> contract]

MCAudits == {Kind(TRUE, TRUE, TRUE, FALSE), Kind(TRUE, FALSE, TRUE, TRUE)}
=============================================================================
