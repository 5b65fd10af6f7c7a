--------------------------- MODULE MCSkillHistory ---------------------------
EXTENDS SkillHistory, TLC

Symmetry == Permutations(Tasks)
=============================================================================
