--------------------------- MODULE MCSchemaRepair ---------------------------
EXTENDS SchemaRepair, TLC

CONSTANTS script1, script2, skill1, new1, new2, old1

OneScript  == <<{script1}, {skill1}>>
TwoScripts == <<{script1, script2}, {skill1}>>
OneSkill   == <<{skill1}>>

(* Pods are named after the release they run.                              *)
MCVersion == [p \in Pods |-> IF p = old1 THEN MinVersion ELSE Latest]

Symmetry == Permutations({new1, new2} \cap Pods)
=============================================================================
