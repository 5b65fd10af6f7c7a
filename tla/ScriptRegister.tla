--------------------------- MODULE ScriptRegister ---------------------------
(***************************************************************************)
(* What the script part of a plugin skill store promises its callers: each *)
(* script is a register that is written and cleared atomically, and a read *)
(* answers with something the register held while the read was under way,  *)
(* or gives up.  Nothing is said of where the text is kept.                *)
(***************************************************************************)
CONSTANTS
    Scripts,    \* scripts of one skill, by normalised name
    Contents,   \* script texts
    Tasks,      \* concurrent callers
    Errors,     \* the errors a read may raise other than "not found"
    None        \* no script, no answer

VARIABLES
    value,      \* value[s]: the text of script s, None when there is no s
    reader      \* reader[t]: the read t has open, None when it has none

vars == <<value, reader>>

OpenRead == [script : Scripts,
             seen   : SUBSET (Contents \cup {None}),
             ended  : BOOLEAN,
             answer : Contents \cup Errors \cup {None}]

TypeOK ==
    /\ value \in [Scripts -> Contents \cup {None}]
    /\ reader \in [Tasks -> OpenRead \cup {None}]

Init ==
    /\ value \in [Scripts -> Contents \cup {None}]
    /\ reader = [t \in Tasks |-> None]

(* Every open read remembers what its script held since it was opened.     *)
Witness(newValue) ==
    [t \in Tasks |->
        IF reader[t] = None \/ reader[t].ended THEN reader[t]
        ELSE [reader[t] EXCEPT !.seen = @ \cup {newValue[reader[t].script]}]]

Write(s, c) ==
    /\ value' = [value EXCEPT ![s] = c]
    /\ reader' = Witness(value')

Clear(S) ==
    /\ value' = [s \in Scripts |-> IF s \in S THEN None ELSE value[s]]
    /\ reader' = Witness(value')

Open(t, s) ==
    /\ reader[t] = None
    /\ reader' = [reader EXCEPT ![t] =
                    [script |-> s, seen |-> {value[s]},
                     ended |-> FALSE, answer |-> None]]
    /\ UNCHANGED value

(* The answer is for the implementation to choose.                         *)
End(t) ==
    /\ UNCHANGED value
    /\ reader[t] # None
    /\ ~reader[t].ended
    /\ reader'[t] # None
    /\ reader'[t].answer \in reader[t].seen \cup Errors
    /\ reader' = [reader EXCEPT ![t] =
                    [script |-> reader[t].script, seen |-> reader[t].seen,
                     ended |-> TRUE, answer |-> reader'[t].answer]]

Close(t) ==
    /\ UNCHANGED value
    /\ reader[t] # None
    /\ reader' = [reader EXCEPT ![t] = None]

Next ==
    \/ \E t \in Tasks :
         \/ \E s \in Scripts : Open(t, s)
         \/ End(t)
         \/ Close(t)
    \/ \E s \in Scripts, c \in Contents : Write(s, c)
    \/ \E S \in SUBSET Scripts : Clear(S)

Spec == Init /\ [][Next]_vars
=============================================================================
