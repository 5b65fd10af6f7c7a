--------------------------- MODULE MCPublishSkill ---------------------------
EXTENDS PublishSkill, TLC

CONSTANTS ann, bob, skill1, skill2, t1, t2, t3

TwoAuthors == [author : {ann, bob}, name : {skill1}]
TwoSkills  == [author : {ann}, name : {skill1, skill2}]

(* One text for each skill, or two for the only one.                       *)
OneText == [s \in Skills |-> IF s.author = bob THEN {t2}
                             ELSE IF s.name = skill2 THEN {t3} ELSE {t1}]
TwoTexts == [s \in Skills |-> {t1, t2}]

(* The two authors change places together with their texts.                *)
Swap == ann :> bob @@ bob :> ann @@ t1 :> t2 @@ t2 :> t1

Symmetry == Permutations(Calls) \cup Permutations(Workers) \cup {Swap}
=============================================================================
