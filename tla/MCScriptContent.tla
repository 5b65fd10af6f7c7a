--------------------------- MODULE MCScriptContent ---------------------------
EXTENDS ScriptContent, TLC

CONSTANTS c1, c2, store1, store2, inline1, none1

(* Tasks are named after the configuration of their pod.                   *)
ModeOfTask == [t \in {store1, store2, inline1, none1} |->
    IF t \in {store1, store2} THEN "store"
    ELSE IF t = inline1 THEN "inline" ELSE "none"]
MCMode == [t \in Tasks |-> ModeOfTask[t]]

(* Ids and contents are only compared.                                     *)
Symmetry == Permutations(Ids) \cup Permutations(Contents)
=============================================================================
