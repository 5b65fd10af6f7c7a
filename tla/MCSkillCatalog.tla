--------------------------- MODULE MCSkillCatalog ---------------------------
EXTENDS SkillCatalog

(* A skill of the marketplace, the reader's version of it, and one of the  *)
(* same name that another author has in another plugin.                    *)
MCSystem == 1
MCUser == 2
MCAuthors == 1..3
MCKeys == {<<1, 1, MCSystem>>, <<1, 1, MCUser>>, <<2, 1, 3>>}
MCHome == CHOOSE p \in Pods : TRUE
MCFilters ==
    {[plugin |-> None, staging |-> TRUE, states |-> None],
     [plugin |-> 1, staging |-> FALSE, states |-> {"draft", "staging"}]}

(* The first release has the skill, and the second drops it.  The pod      *)
(* seeds the store once: without failures a second sync would only write   *)
(* the same skill again.                                                   *)
MCBounds ==
    /\ release.skills = IF release.n = 1 THEN Skills ELSE {}
    /\ pod[MCHome].pc # "refresh"
=============================================================================
