----------------------------- MODULE MCSkillSync -----------------------------
EXTENDS SkillSync, TLC

Symmetry == Permutations(Pods)

(* Two plugins have a skill of one name.                                   *)
MCSystem == 1
MCAuthors == {MCSystem}
MCKeys == {<<1, 1, MCSystem>>, <<2, 1, MCSystem>>}

(* Of the two plugins, call the first the one that has the skill first.    *)
MCFirst == release.n = 1 => \A s \in release.skills : s[1] = 1
=============================================================================
