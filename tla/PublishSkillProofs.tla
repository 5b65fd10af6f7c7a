-------------------------- MODULE PublishSkillProofs --------------------------
(***************************************************************************)
(* Proofs about PublishSkill and MarketplacePublisher for any number of    *)
(* skills, calls, workers and commits.                                     *)
(*                                                                         *)
(* The inductive invariant follows a text from the author's document over  *)
(* the task and its commit to the branch (DocCarries, CallCarries,         *)
(* JobCarries, RepoCarries), and says what a task may rely on while        *)
(* others work on the repository (JobBuilt, JobReviewed).                  *)
(***************************************************************************)
EXTENDS PublishSkill, TLAPS

USE SkillsAssumption, TextsAssumption, ModeAssumption, NoneAssumption, ServiceAssumption

DocCarries == \A s \in Skills : doc[s] # None => doc[s].text \in held[s]

CallCarries ==
    \A c \in Calls :
        /\ call[c].pc # "idle" => call[c].skill \in Skills
        /\ call[c].pc = "autosave" => call[c].text \in AnyText

Built == {"move", "advance", "findpr", "openpr", "updatepr"}

(* What the task of one worker has in hand.                                *)
Carries(j) ==
    /\ j.pc # "idle" => j.skill \in Skills
    /\ j.pc = "base" /\ j.publish => j.text \in held[j.skill]
    /\ j.pc \in Built => j.commit \in Commits
    /\ j.pc = "move" /\ j.publish => j.commit.files[j.skill.name] \in held[j.skill]
    /\ j.ok => j.pc = "ended" /\ j.commit \in Commits
JobCarries == \A w \in Workers : Carries(job[w])

RepoCarries ==
    /\ \A b \in prs : branches[b] \in Commits
    /\ BranchCarriesOwnDocument

(* A commit for the base branch, when there are no pull requests: if the   *)
(* head it was built on is the head still, it differs from it in the       *)
(* skill's directory only.                                                 *)
BuiltOn(j, head) ==
    j.pc = "advance" =>
        /\ ~UseBranch
        /\ j.commit.on <= head.id
        /\ j.commit.on = head.id =>
             \A n \in Names : n # j.skill.name => j.commit.files[n] = head.files[n]
JobBuilt == \A w \in Workers : BuiltOn(job[w], base)

(* What stands in the registry and what was asked to stop are tasks.       *)
Registry ==
    /\ \A w \in cancelled : job[w].pc # "idle"
    /\ \A s \in Skills, w \in Workers : pending[s] = w => job[w].pc # "idle"
    /\ RegistryHoldsLiveTask

IInv == TypeOK /\ DocCarries /\ CallCarries /\ JobCarries /\ RepoCarries /\ JobBuilt

-----------------------------------------------------------------------------
(* Names and branches                                                      *)

(* Two publishes share a branch only if they are of one skill, and no      *)
(* withdrawal shares one with a publish.                                   *)
LEMMA BranchFacts ==
  ASSUME NEW s \in Skills, NEW p \in BOOLEAN
  PROVE  /\ s.name \in Names
         /\ Branch(s, p) \in BranchNames /\ Branch(s, p).name = s.name
         /\ \A u \in Skills : Branch(s, p) = Branch(u, TRUE) => p = TRUE /\ s = u
<1>1. s.name \in Names
  BY DEF Names
<1>2. \A u \in Skills : /\ Branch(u, TRUE).kind = "skill-publish"
                        /\ Branch(u, TRUE).author = u.author
                        /\ Branch(u, TRUE).name = u.name
  BY DEF Branch
<1>3. \A u \in Skills : Branch(u, FALSE).kind = "skill-unpublish" /\ Branch(u, FALSE).name = u.name
  BY DEF Branch
<1>4. s.author \in {u.author : u \in Skills}
  OBVIOUS
<1>5. Branch(s, TRUE) \in BranchNames /\ Branch(s, FALSE) \in BranchNames
  BY <1>1, <1>4 DEF BranchNames, Branch
<1>6. \A u \in Skills : Branch(s, TRUE) = Branch(u, TRUE) => s = u
  BY DEF Branch
<1>7. \A u \in Skills : Branch(s, FALSE) # Branch(u, TRUE)
  BY DEF Branch
<1>8. CASE p = TRUE
  BY <1>1, <1>2, <1>5, <1>6, <1>8, Zenon
<1>9. CASE p = FALSE
  BY <1>1, <1>3, <1>5, <1>7, <1>9, Zenon
<1> QED
  BY <1>8, <1>9

-----------------------------------------------------------------------------
(* What a step does to the tasks                                           *)

(* The same task, which reviewers or others may have passed meanwhile.     *)
Same(j, k) ==
    /\ j.pc = k.pc
    /\ j.skill = k.skill
    /\ j.publish = k.publish
    /\ j.text = k.text
    /\ j.commit = k.commit
    /\ j.ok = k.ok

LEMMA EndFacts ==
  ASSUME job \in [Workers -> Jobs], NEW w \in Workers, NEW ok \in BOOLEAN, End(w, ok)
  PROVE  /\ job' \in [Workers -> Jobs]
         /\ \A v \in Workers : v # w => job'[v] = job[v]
         /\ job'[w].pc = "ended" /\ job'[w].ok = ok
         /\ job'[w].skill = job[w].skill /\ job'[w].publish = job[w].publish
         /\ job'[w].commit = job[w].commit
         /\ job'[w].decided = job[w].decided /\ job'[w].replaced = job[w].replaced
<1> DEFINE J == [job EXCEPT ![w].pc = "ended"]
<1>1. job' = [J EXCEPT ![w].ok = ok]
  BY DEF End
<1>2. /\ J \in [Workers -> Jobs]
      /\ \A v \in Workers : v # w => J[v] = job[v]
      /\ J[w].pc = "ended" /\ J[w].skill = job[w].skill /\ J[w].publish = job[w].publish
      /\ J[w].commit = job[w].commit
      /\ J[w].decided = job[w].decided /\ J[w].replaced = job[w].replaced
  BY DEF Jobs, Pcs
<1> HIDE DEF J
<1> QED
  BY <1>1, <1>2 DEF Jobs

(* A commit that is forced over others marks them replaced.                *)
LEMMA ReplacedFacts ==
  ASSUME job \in [Workers -> Jobs], NEW b, NEW w \in Workers
  PROVE  /\ Mark(b, w, FALSE) \in [Workers -> Jobs]
         /\ Mark(b, w, FALSE)[w] = job[w]
         /\ \A v \in Workers :
              /\ Same(Mark(b, w, FALSE)[v], job[v])
              /\ job[v].decided = TRUE => Mark(b, w, FALSE)[v].decided = TRUE
              /\ job[v].replaced = TRUE => Mark(b, w, FALSE)[v].replaced = TRUE
<1> DEFINE M == Mark(b, w, FALSE)
<1>1. M = [v \in Workers |-> IF v # w /\ Moved(v) /\ BranchOf(v) = b
                             THEN [job[v] EXCEPT !.replaced = TRUE] ELSE job[v]]
  BY DEF Mark
<1> HIDE DEF M
<1>2. ASSUME NEW v \in Workers
      PROVE  /\ M[v] \in Jobs /\ Same(M[v], job[v])
             /\ job[v].decided = TRUE => M[v].decided = TRUE
             /\ job[v].replaced = TRUE => M[v].replaced = TRUE
  <2>1. CASE M[v] = job[v]
    BY <2>1 DEF Same
  <2>2. CASE M[v] = [job[v] EXCEPT !.replaced = TRUE]
    <3>1. job[v] \in Jobs
      OBVIOUS
    <3>2. M[v] \in Jobs /\ M[v].replaced = TRUE /\ M[v].decided = job[v].decided
      BY <2>2, <3>1 DEF Jobs
    <3>3. Same(M[v], job[v])
      BY <2>2, <3>1 DEF Same, Jobs
    <3> QED
      BY <3>2, <3>3
  <2> QED
    BY <1>1, <2>1, <2>2
<1>3. M \in [Workers -> Jobs] /\ M[w] = job[w]
  BY <1>1, <1>2
<1> QED
  BY <1>2, <1>3 DEF M

(* Reviewers mark every commit of the branch they decide on.               *)
LEMMA DecidedFacts ==
  ASSUME job \in [Workers -> Jobs], NEW b
  PROVE  /\ Mark(b, None, TRUE) \in [Workers -> Jobs]
         /\ \A v \in Workers :
              /\ Same(Mark(b, None, TRUE)[v], job[v])
              /\ job[v].decided = TRUE => Mark(b, None, TRUE)[v].decided = TRUE
              /\ job[v].replaced = TRUE => Mark(b, None, TRUE)[v].replaced = TRUE
              /\ Moved(v) /\ BranchOf(v) = b => Mark(b, None, TRUE)[v].decided = TRUE
<1> DEFINE M == Mark(b, None, TRUE)
<1>1. M = [v \in Workers |-> IF Moved(v) /\ BranchOf(v) = b
                             THEN [job[v] EXCEPT !.decided = TRUE] ELSE job[v]]
  BY DEF Mark
<1> HIDE DEF M
<1>2. ASSUME NEW v \in Workers
      PROVE  /\ M[v] \in Jobs /\ Same(M[v], job[v])
             /\ job[v].decided = TRUE => M[v].decided = TRUE
             /\ job[v].replaced = TRUE => M[v].replaced = TRUE
             /\ Moved(v) /\ BranchOf(v) = b => M[v].decided = TRUE
  <2>1. CASE M[v] = job[v] /\ ~(Moved(v) /\ BranchOf(v) = b)
    BY <2>1 DEF Same
  <2>2. CASE M[v] = [job[v] EXCEPT !.decided = TRUE]
    <3>1. job[v] \in Jobs
      OBVIOUS
    <3>2. M[v] \in Jobs /\ M[v].decided = TRUE /\ M[v].replaced = job[v].replaced
      BY <2>2, <3>1 DEF Jobs
    <3>3. Same(M[v], job[v])
      BY <2>2, <3>1 DEF Same, Jobs
    <3> QED
      BY <3>2, <3>3
  <2> QED
    BY <1>1, <2>1, <2>2
<1>3. M \in [Workers -> Jobs]
  BY <1>1, <1>2
<1> QED
  BY <1>2, <1>3 DEF M

(* A step that changes the tasks it changes to well-made ones, and at most *)
(* advances the base branch, keeps what tasks rely on.                     *)
LEMMA TasksKeep ==
  ASSUME TypeOK, JobCarries, JobBuilt, UNCHANGED held,
         base' = base \/ (base'.id = base.id + 1),
         \A v \in Workers :
            Same(job'[v], job[v]) \/ (Carries(job'[v]) /\ BuiltOn(job'[v], base'))
  PROVE  JobCarries' /\ JobBuilt'
<1>1. ASSUME NEW v \in Workers, Same(job'[v], job[v])
      PROVE  Carries(job'[v]) /\ BuiltOn(job'[v], base')
  <2>1. Carries(job[v]) /\ BuiltOn(job[v], base)
    BY DEF JobCarries, JobBuilt
  <2>2. Carries(job'[v])
    BY <1>1, <2>1 DEF Same, Carries, Built
  <2>3. BuiltOn(job'[v], base')
    <3> SUFFICES ASSUME job[v].pc = "advance" PROVE BuiltOn(job'[v], base')
      BY <1>1 DEF Same, BuiltOn
    <3>1. job[v].commit.on \in Nat /\ base.id \in Nat
      BY <2>1 DEF Carries, Built, Commits, TypeOK, RepoTypeOK
    <3> QED
      BY <1>1, <2>1, <3>1 DEF Same, BuiltOn
  <2> QED
    BY <2>2, <2>3
<1>2. \A v \in Workers : Carries(job'[v]) /\ BuiltOn(job'[v], base')
  BY <1>1
<1>3. \A v \in Workers : Carries(job'[v]) => Carries(job[v])'
  BY DEF Carries
<1>4. \A v \in Workers : BuiltOn(job'[v], base') => BuiltOn(job[v], base)'
  BY DEF BuiltOn
<1> QED
  BY <1>2, <1>3, <1>4 DEF JobCarries, JobBuilt

-----------------------------------------------------------------------------
(* Users and calls                                                         *)

(* Nothing happens to the marketplace.                                     *)
LEMMA MarketplaceRests ==
  ASSUME IInv, UNCHANGED <<repo, job>>, \A s \in Skills : held[s] \subseteq held'[s]
  PROVE  RepoTypeOK' /\ JobCarries' /\ RepoCarries' /\ JobBuilt'
<1>1. RepoTypeOK' /\ JobBuilt'
  BY DEF IInv, TypeOK, RepoTypeOK, JobBuilt, BuiltOn, repo
<1>2. JobCarries'
  <2> SUFFICES ASSUME NEW w \in Workers PROVE Carries(job[w])'
    BY DEF JobCarries
  <2>1. job[w]' = job[w] /\ Carries(job[w])
    BY DEF IInv, JobCarries
  <2> QED
    BY <2>1 DEF Carries
<1>3. RepoCarries'
  BY DEF IInv, RepoCarries, BranchCarriesOwnDocument, repo
<1> QED
  BY <1>1, <1>2, <1>3

LEMMA SaveFacts ==
  ASSUME IInv, NEW s \in Skills, NEW text \in AnyText, NEW state \in {None, "staging"},
         SaveSkill(s, text, state)
  PROVE  /\ doc' \in [Skills -> SkillDocs \cup {None}] /\ DocCarries'
         /\ held' \in [Skills -> SUBSET AnyText] /\ \A u \in Skills : held[u] \subseteq held'[u]
<1> DEFINE st == IF state # None THEN state
                 ELSE IF doc[s] # None THEN doc[s].state ELSE "draft"
<1>1. doc \in [Skills -> SkillDocs \cup {None}] /\ held \in [Skills -> SUBSET AnyText]
  BY DEF IInv, TypeOK
<1>2. st \in States
  BY <1>1 DEF SkillDocs, States
<1>3. doc' = [doc EXCEPT ![s] = [text |-> text, state |-> st]]
  BY DEF SaveSkill
<1> HIDE DEF st
<1>4. [text |-> text, state |-> st] \in SkillDocs
  BY <1>2 DEF SkillDocs
<1>5. held' = [held EXCEPT ![s] = held[s] \cup {text}]
  BY <1>1 DEF SaveSkill
<1>6. held' \in [Skills -> SUBSET AnyText] /\ \A u \in Skills : held[u] \subseteq held'[u]
  BY <1>1, <1>5
<1>7. DocCarries'
  BY <1>1, <1>3, <1>5 DEF DocCarries, IInv
<1> QED
  BY <1>1, <1>3, <1>4, <1>6, <1>7

LEMMA UsersKeep ==
  ASSUME IInv, NEW s \in Skills, UserSaves(s) \/ UserDeletes(s)
  PROVE  IInv'
<1>1. /\ doc' \in [Skills -> SkillDocs \cup {None}] /\ DocCarries'
      /\ held' \in [Skills -> SUBSET AnyText] /\ \A u \in Skills : held[u] \subseteq held'[u]
  <2>1. CASE UserSaves(s)
    <3>1. PICK text \in Texts[s], state \in {None, "staging"} : SaveSkill(s, text, state)
      BY <2>1 DEF UserSaves
    <3>2. text \in AnyText
      BY DEF AnyText
    <3> QED
      BY <3>1, <3>2, SaveFacts
  <2>2. CASE UserDeletes(s)
    BY <2>2 DEF UserDeletes, IInv, TypeOK, DocCarries
  <2> QED
    BY <2>1, <2>2
<1>2. made' \in 0..MaxCalls
  BY DEF UserSaves, UserDeletes, IInv, TypeOK
<1>3. UNCHANGED <<repo, job, call, pending, cancelled>>
  BY DEF UserSaves, UserDeletes
<1>4. CallCarries'
  BY <1>3 DEF CallCarries, IInv
<1> QED
  BY <1>1, <1>2, <1>3, <1>4, MarketplaceRests DEF IInv, TypeOK

(* A call stays at its skill, and has its text when it is about to save.   *)
CallOK(k) ==
    /\ k \in CallStates
    /\ k.pc # "idle" => k.skill \in Skills
    /\ k.pc = "autosave" => k.text \in AnyText

LEMMA CallKeeps ==
  ASSUME IInv, NEW c \in Calls, NEW k, CallOK(k), call' = [call EXCEPT ![c] = k]
  PROVE  call' \in [Calls -> CallStates] /\ CallCarries'
BY DEF IInv, TypeOK, CallOK, CallCarries

LEMMA ReturnKeeps ==
  ASSUME IInv, NEW c \in Calls, Return(c)
  PROVE  call' \in [Calls -> CallStates] /\ CallCarries'
<1>1. CallOK(NoCall)
  BY DEF CallOK, NoCall, CallStates
<1> QED
  BY <1>1, CallKeeps DEF Return

LEMMA StepKeeps ==
  ASSUME IInv, NEW c \in Calls, NEW pc \in {"own", "shared", "validate", "setstate", "schedule"},
         call[c].pc # "idle", Step(c, pc)
  PROVE  call' \in [Calls -> CallStates] /\ CallCarries'
BY DEF Step, IInv, TypeOK, CallCarries, CallStates

LEMMA FoundKeeps ==
  ASSUME IInv, NEW c \in Calls, NEW text \in AnyText, call[c].pc # "idle", Found(c, text)
  PROVE  call' \in [Calls -> CallStates] /\ CallCarries'
<1> DEFINE k == [call[c] EXCEPT !.pc = "autosave"]
<1>1. call[c] \in CallStates /\ call[c].skill \in Skills
  BY DEF IInv, TypeOK, CallCarries
<1>2. call' = [call EXCEPT ![c] = [k EXCEPT !.text = text]]
  BY DEF Found
<1>3. k \in CallStates /\ k.pc = "autosave" /\ k.skill = call[c].skill
  BY <1>1 DEF CallStates
<1> HIDE DEF k
<1>4. CallOK([k EXCEPT !.text = text])
  BY <1>1, <1>3 DEF CallOK, CallStates
<1> QED
  BY <1>2, <1>4, CallKeeps

LEMMA BeginKeeps ==
  ASSUME IInv, NEW c \in Calls, NEW s \in Skills, NEW publish \in BOOLEAN, Begin(c, s, publish)
  PROVE  IInv'
<1> DEFINE k == [pc |-> IF publish THEN "exists" ELSE "setstate",
                 skill |-> s, publish |-> publish, text |-> None]
<1>1. CallOK(k)
  BY DEF CallOK, CallStates
<1>2. call' = [call EXCEPT ![c] = k]
  BY DEF Begin
<1> HIDE DEF k
<1>3. call' \in [Calls -> CallStates] /\ CallCarries'
  BY <1>1, <1>2, CallKeeps
<1>4. made' \in 0..MaxCalls
  BY DEF Begin, IInv, TypeOK
<1>5. UNCHANGED <<repo, job, doc, pending, cancelled, held>>
  BY DEF Begin
<1>6. DocCarries'
  BY <1>5 DEF DocCarries, IInv
<1> QED
  BY <1>3, <1>4, <1>5, <1>6, MarketplaceRests DEF IInv, TypeOK

(* The steps of a call before it schedules a task.                         *)
LEMMA CallStepKeeps ==
  ASSUME IInv, NEW c \in Calls,
         \/ CheckExists(c) \/ ReadOwn(c) \/ ReadShared(c) \/ AutoSave(c)
         \/ Validate(c) \/ SetState(c) \/ CallFails(c)
  PROVE  IInv'
<1>1. UNCHANGED <<repo, job, pending, cancelled, made>>
  BY DEF CheckExists, ReadOwn, ReadShared, AutoSave, Validate,
         SetState, CallFails
<1>2. CASE UNCHANGED <<doc, held>> /\ call' \in [Calls -> CallStates] /\ CallCarries'
  BY <1>1, <1>2, MarketplaceRests DEF IInv, TypeOK, DocCarries
<1>3. CASE CheckExists(c)
  BY <1>2, <1>3, StepKeeps DEF CheckExists
<1>8. CASE ReadOwn(c)
  <2>1. call[c].skill \in Skills
    BY <1>8 DEF ReadOwn, IInv, CallCarries
  <2>2. CASE doc[call[c].skill] # None
    <3>1. doc[call[c].skill].text \in AnyText
      BY <2>1, <2>2 DEF IInv, TypeOK, SkillDocs
    <3> QED
      BY <1>2, <1>8, <2>2, <3>1, FoundKeeps DEF ReadOwn
  <2>3. CASE doc[call[c].skill] = None
    BY <1>2, <1>8, <2>3, StepKeeps DEF ReadOwn
  <2> QED
    BY <2>2, <2>3
<1>9. CASE ReadShared(c)
  <2>1. \A u \in SharedOfName(call[c].skill.name) : doc[u].text \in AnyText
    BY DEF SharedOfName, IInv, TypeOK, SkillDocs
  <2> QED
    BY <1>2, <1>9, <2>1, FoundKeeps, ReturnKeeps DEF ReadShared
<1>4. CASE AutoSave(c)
  <2>1. call[c].skill \in Skills /\ call[c].text \in AnyText
    BY <1>4 DEF AutoSave, IInv, CallCarries
  <2>2. /\ doc' \in [Skills -> SkillDocs \cup {None}] /\ DocCarries'
        /\ held' \in [Skills -> SUBSET AnyText] /\ \A u \in Skills : held[u] \subseteq held'[u]
    BY <1>4, <2>1, SaveFacts DEF AutoSave
  <2> DEFINE k == [call[c] EXCEPT !.pc = "validate"]
  <2>3. call' = [call EXCEPT ![c] = [k EXCEPT !.text = None]]
    BY <1>4 DEF AutoSave
  <2>4. k \in CallStates /\ k.pc = "validate" /\ k.skill = call[c].skill
    BY DEF IInv, TypeOK, CallStates
  <2> HIDE DEF k
  <2>5. CallOK([k EXCEPT !.text = None])
    BY <2>1, <2>4 DEF CallOK, CallStates
  <2>6. call' \in [Calls -> CallStates] /\ CallCarries'
    BY <2>3, <2>5, CallKeeps
  <2> QED
    BY <1>1, <2>2, <2>6, MarketplaceRests DEF IInv, TypeOK
<1>5. CASE Validate(c)
  BY <1>2, <1>5, StepKeeps, ReturnKeeps DEF Validate
<1>6. CASE SetState(c)
  <2>1. call[c].skill \in Skills /\ call[c].pc # "idle"
    BY <1>6 DEF SetState, IInv, CallCarries
  <2>2. CASE doc[call[c].skill] = None
    BY <1>2, <1>6, <2>2, ReturnKeeps DEF SetState
  <2>3. CASE doc[call[c].skill] # None
    <3>0. held' = held
      BY <1>6 DEF SetState
    <3>1. PICK st \in {"in_review", "draft"} : doc' = [doc EXCEPT ![call[c].skill].state = st]
      BY <1>6, <2>3, Zenon DEF SetState
    <3>2. doc \in [Skills -> SkillDocs \cup {None}] /\ doc[call[c].skill] \in SkillDocs
      BY <2>1, <2>3 DEF IInv, TypeOK
    <3>3. doc' \in [Skills -> SkillDocs \cup {None}]
      BY <2>1, <3>1, <3>2 DEF SkillDocs, States
    <3>4. DocCarries'
      BY <2>1, <2>3, <3>0, <3>1, <3>2 DEF DocCarries, IInv, SkillDocs
    <3>5. call' \in [Calls -> CallStates] /\ CallCarries'
      BY <1>6, <2>1, <2>3, StepKeeps DEF SetState
    <3> QED
      BY <1>1, <3>0, <3>3, <3>4, <3>5, MarketplaceRests DEF IInv, TypeOK
  <2> QED
    BY <2>2, <2>3
<1>7. CASE CallFails(c)
  BY <1>2, <1>7, ReturnKeeps DEF CallFails
<1> QED
  BY <1>3, <1>8, <1>9, <1>4, <1>5, <1>6, <1>7

-----------------------------------------------------------------------------
(* Tasks                                                                   *)

LEMMA ServiceRests ==
  ASSUME IInv, UNCHANGED service, RepoTypeOK', JobCarries', JobBuilt', RepoCarries'
  PROVE  IInv'
BY DEF IInv, TypeOK, DocCarries, CallCarries, service

LEMMA OfTask ==
  ASSUME IInv, NEW w \in Workers
  PROVE  /\ job \in [Workers -> Jobs] /\ job[w] \in Jobs
         /\ Carries(job[w]) /\ BuiltOn(job[w], base)
         /\ base \in [id : Nat, files : Directories]
         /\ branches \in [BranchNames -> Commits \cup {None}]
         /\ prs \subseteq BranchNames
         /\ job[w].pc # "idle" => BranchOf(w) \in BranchNames
<1>1. /\ job \in [Workers -> Jobs] /\ job[w] \in Jobs
      /\ Carries(job[w]) /\ BuiltOn(job[w], base)
      /\ base \in [id : Nat, files : Directories]
      /\ branches \in [BranchNames -> Commits \cup {None}]
      /\ prs \subseteq BranchNames
  BY DEF IInv, TypeOK, RepoTypeOK, JobCarries, JobBuilt
<1>2. job[w].pc # "idle" => job[w].skill \in Skills /\ job[w].publish \in BOOLEAN
  BY <1>1 DEF Carries, Jobs
<1>3. job[w].pc # "idle" => BranchOf(w) \in BranchNames
  BY <1>2, BranchFacts DEF BranchOf
<1> QED
  BY <1>1, <1>3

(* A step that gives one worker a well-made task.                          *)
LEMMA TaskKeeps ==
  ASSUME IInv, UNCHANGED held, NEW w \in Workers, NEW j \in Jobs, job' = [job EXCEPT ![w] = j],
         base' = base \/ base'.id = base.id + 1, Carries(j), BuiltOn(j, base')
  PROVE  job' \in [Workers -> Jobs] /\ JobCarries' /\ JobBuilt'
<1>1. job' \in [Workers -> Jobs] /\ job'[w] = j /\ \A v \in Workers : v # w => job'[v] = job[v]
  BY DEF IInv, TypeOK, RepoTypeOK
<1>2. \A v \in Workers : Same(job'[v], job[v]) \/ (Carries(job'[v]) /\ BuiltOn(job'[v], base'))
  BY <1>1 DEF Same
<1> QED
  BY <1>1, <1>2, TasksKeep DEF IInv

LEMMA EndKeeps ==
  ASSUME IInv, UNCHANGED held, NEW w \in Workers, NEW ok \in BOOLEAN, End(w, ok),
         job[w].pc # "idle", ok = TRUE => job[w].pc \in Built,
         base' = base \/ base'.id = base.id + 1
  PROVE  job' \in [Workers -> Jobs] /\ JobCarries' /\ JobBuilt'
<1>1. /\ job' \in [Workers -> Jobs]
      /\ \A v \in Workers : v # w => job'[v] = job[v]
      /\ job'[w].pc = "ended" /\ job'[w].ok = ok
      /\ job'[w].skill = job[w].skill /\ job'[w].commit = job[w].commit
  BY EndFacts, OfTask
<1>2. job'[w].skill \in Skills /\ (ok = TRUE => job'[w].commit \in Commits)
  BY <1>1, OfTask DEF Carries
<1>3. Carries(job'[w]) /\ BuiltOn(job'[w], base')
  BY <1>1, <1>2 DEF Carries, Built, BuiltOn
<1>4. \A v \in Workers : Same(job'[v], job[v]) \/ (Carries(job'[v]) /\ BuiltOn(job'[v], base'))
  BY <1>1, <1>3 DEF Same
<1> QED
  BY <1>1, <1>4, TasksKeep DEF IInv

(* The branch is moved to a commit that carries the author's text.         *)
LEMMA MoveFacts ==
  ASSUME IInv, NEW w \in Workers, NEW pc \in {"findpr", "ended"}, job[w].pc = "move",
         branches' = [branches EXCEPT ![BranchOf(w)] = job[w].commit],
         job' = [Mark(BranchOf(w), w, FALSE) EXCEPT ![w].pc = pc],
         UNCHANGED <<base, prs, held>>
  PROVE  RepoTypeOK' /\ JobCarries' /\ JobBuilt' /\ RepoCarries'
<1>1. /\ job[w].commit \in Commits /\ job[w].skill \in Skills /\ job[w].publish \in BOOLEAN
      /\ BranchOf(w) \in BranchNames
      /\ job[w].publish => job[w].commit.files[job[w].skill.name] \in held[job[w].skill]
      /\ ~job[w].ok
  BY OfTask DEF Carries, Built, Jobs
<1> DEFINE M == Mark(BranchOf(w), w, FALSE)
<1>2. M \in [Workers -> Jobs] /\ M[w] = job[w] /\ \A v \in Workers : Same(M[v], job[v])
  <2>1. job \in [Workers -> Jobs]
    BY OfTask
  <2> QED
    BY <2>1, ReplacedFacts
<1>3. job' = [M EXCEPT ![w].pc = pc]
  OBVIOUS
<1> HIDE DEF M
<1>4. /\ job' \in [Workers -> Jobs]
      /\ \A v \in Workers : v # w => Same(job'[v], job[v])
      /\ job'[w] = [job[w] EXCEPT !.pc = pc]
  <2>1. job' = [M EXCEPT ![w] = [job[w] EXCEPT !.pc = pc]]
    BY <1>2, <1>3
  <2>2. [job[w] EXCEPT !.pc = pc] \in Jobs
    BY OfTask DEF Jobs, Pcs
  <2> QED
    BY <1>2, <2>1, <2>2
<1>5. Carries(job'[w]) /\ BuiltOn(job'[w], base')
  <2>1. /\ job'[w].pc = pc /\ job'[w].skill = job[w].skill
        /\ job'[w].commit = job[w].commit /\ job'[w].ok = job[w].ok
    <3> DEFINE k == [job[w] EXCEPT !.pc = pc]
    <3>1. k.pc = pc /\ k.skill = job[w].skill /\ k.commit = job[w].commit /\ k.ok = job[w].ok
      BY OfTask DEF Jobs
    <3>2. job'[w] = k
      BY <1>4
    <3> HIDE DEF k
    <3> QED
      BY <3>1, <3>2
  <2> QED
    BY <1>1, <2>1 DEF Carries, Built, BuiltOn
<1>6. JobCarries' /\ JobBuilt'
  BY <1>4, <1>5, TasksKeep DEF IInv
<1>7. branches' \in [BranchNames -> Commits \cup {None}]
  BY <1>1, OfTask
<1>8. \A b \in prs' : branches'[b] \in Commits
  BY <1>1, OfTask DEF IInv, RepoCarries
<1>9. ASSUME NEW s \in Skills, branches'[Branch(s, TRUE)] # None
      PROVE  branches'[Branch(s, TRUE)].files[s.name] \in held[s]
  <2>1. Branch(s, TRUE) \in BranchNames
    BY BranchFacts
  <2>2. CASE BranchOf(w) = Branch(s, TRUE)
    <3>1. job[w].publish = TRUE /\ s = job[w].skill
      <4>1. Branch(job[w].skill, job[w].publish) = Branch(s, TRUE)
        BY <2>2 DEF BranchOf
      <4> DEFINE u == job[w].skill
                 p == job[w].publish
      <4>2. u \in Skills /\ p \in BOOLEAN /\ Branch(u, p) = Branch(s, TRUE)
        BY <1>1, <4>1
      <4> HIDE DEF u, p
      <4>3. \A v \in Skills : Branch(u, p) = Branch(v, TRUE) => p = TRUE /\ u = v
        BY <4>2, BranchFacts, Zenon
      <4>4. p = TRUE /\ u = s
        BY <4>2, <4>3, Zenon
      <4> QED
        BY <4>4, Zenon DEF u, p
    <3>2. branches'[Branch(s, TRUE)] = job[w].commit
      BY <2>1, <2>2, OfTask
    <3> QED
      BY <1>1, <3>1, <3>2
  <2>3. CASE BranchOf(w) # Branch(s, TRUE)
    <3>1. branches'[Branch(s, TRUE)] = branches[Branch(s, TRUE)]
      BY <2>1, <2>3, OfTask
    <3> QED
      BY <1>9, <3>1 DEF IInv, RepoCarries, BranchCarriesOwnDocument
  <2> QED
    BY <2>2, <2>3
<1>10. RepoCarries'
  BY <1>8, <1>9 DEF RepoCarries, BranchCarriesOwnDocument
<1> QED
  BY <1>4, <1>6, <1>7, <1>10, OfTask DEF RepoTypeOK

(* A pull request is opened for a branch that is there.                    *)
LEMMA OpenFacts ==
  ASSUME IInv, NEW b \in BranchNames, branches[b] # None, prs' = prs \cup {b},
         UNCHANGED <<base, branches, held>>
  PROVE  prs' \subseteq BranchNames /\ RepoCarries'
BY DEF IInv, TypeOK, RepoTypeOK, RepoCarries, BranchCarriesOwnDocument

(* The base branch takes a commit.                                         *)
LEMMA AdvanceFacts ==
  ASSUME IInv, NEW w \in Workers, job[w].pc = "advance",
         base' = [id |-> base.id + 1, files |-> job[w].commit.files]
  PROVE  base' \in [id : Nat, files : Directories] /\ base'.id = base.id + 1
<1>1. job[w].commit \in Commits /\ base.id \in Nat
  BY OfTask DEF Carries, Built
<1> QED
  BY <1>1 DEF Commits

(* Nothing happens to the branches.                                        *)
LEMMA BranchesRest ==
  ASSUME IInv, UNCHANGED <<branches, prs, held>>
  PROVE  /\ RepoCarries'
         /\ branches' \in [BranchNames -> Commits \cup {None}] /\ prs' \subseteq BranchNames
BY DEF IInv, TypeOK, RepoTypeOK, RepoCarries, BranchCarriesOwnDocument

LEMMA ScheduleKeeps ==
  ASSUME IInv, NEW c \in Calls, Schedule(c)
  PROVE  IInv'
<1> DEFINE s == call[c].skill
<1>1. s \in Skills /\ call[c].publish \in BOOLEAN
  BY DEF Schedule, IInv, TypeOK, CallCarries, CallStates
<1>2. PICK w \in Workers :
        /\ job' = [job EXCEPT ![w] = [NoJob EXCEPT !.pc = "start", !.skill = s,
                                        !.publish = call[c].publish]]
        /\ pending' = [pending EXCEPT ![s] = w]
  BY DEF Schedule
<1> DEFINE j1 == [NoJob EXCEPT !.pc = "start"]
           j2 == [j1 EXCEPT !.skill = s]
           j3 == [j2 EXCEPT !.publish = call[c].publish]
<1>3. job' = [job EXCEPT ![w] = j3]
  BY <1>2
<1>4. j1 \in Jobs /\ j1.pc = "start" /\ j1.ok = FALSE
  BY DEF NoJob, Jobs, Pcs
<1> HIDE DEF j1
<1>5. j2 \in Jobs /\ j2.pc = "start" /\ j2.ok = FALSE /\ j2.skill = s
  BY <1>1, <1>4 DEF Jobs
<1> HIDE DEF j2
<1>6. j3 \in Jobs /\ j3.pc = "start" /\ j3.ok = FALSE /\ j3.skill = s
  BY <1>1, <1>5 DEF Jobs
<1> HIDE DEF j3, s
<1>7. Carries(j3) /\ BuiltOn(j3, base')
  BY <1>1, <1>6 DEF Carries, Built, BuiltOn
<1>8. UNCHANGED <<repo, doc, made, held>>
  BY DEF Schedule
<1>9. job' \in [Workers -> Jobs] /\ JobCarries' /\ JobBuilt'
  BY <1>3, <1>6, <1>7, <1>8, TaskKeeps DEF repo
<1>10. RepoTypeOK' /\ RepoCarries'
  BY <1>8, <1>9, BranchesRest, OfTask DEF repo, RepoTypeOK
<1>11. call' \in [Calls -> CallStates] /\ CallCarries'
  BY ReturnKeeps DEF Schedule
<1>12. pending' \in [Skills -> Workers \cup {None}] /\ cancelled' \subseteq Workers
  BY <1>1, <1>2 DEF Schedule, IInv, TypeOK
<1> QED
  BY <1>8, <1>9, <1>10, <1>11, <1>12 DEF IInv, TypeOK, DocCarries

(* What a task publishes is what its author's document says then.          *)
LEMMA ReadSkillKeeps ==
  ASSUME IInv, NEW w \in Workers, ReadSkill(w)
  PROVE  IInv'
<1> held' = held
  BY DEF ReadSkill, service
<1>1. /\ job[w].pc = "start" /\ job[w].skill \in Skills /\ job[w].publish \in BOOLEAN
      /\ job[w] \in Jobs /\ job[w].ok = FALSE
      /\ UNCHANGED <<repo, service>>
  <2>1. job[w].pc = "start" /\ UNCHANGED <<repo, service>>
    BY DEF ReadSkill
  <2>2. job[w] \in Jobs /\ job[w].skill \in Skills /\ ~job[w].ok
    BY <2>1, OfTask DEF Carries
  <2> QED
    BY <2>1, <2>2 DEF Jobs
<1> DEFINE d == doc[job[w].skill]
           text == IF job[w].publish THEN d.text ELSE None
           j == [[job[w] EXCEPT !.pc = "base"] EXCEPT !.text = text]
<1>2. CASE job[w].publish /\ d = None
  <2>1. End(w, FALSE)
    BY <1>2 DEF ReadSkill
  <2>2. job' \in [Workers -> Jobs] /\ JobCarries' /\ JobBuilt'
    BY <1>1, <2>1, EndKeeps DEF repo
  <2> QED
    BY <1>1, <2>2, BranchesRest, ServiceRests, OfTask DEF repo, RepoTypeOK
<1>3. CASE ~(job[w].publish /\ d = None)
  <2>1. job' = [job EXCEPT ![w] = j]
    <3>1. job' = [job EXCEPT ![w].pc = "base", ![w].text = text]
      BY <1>3 DEF ReadSkill
    <3> HIDE DEF text
    <3> QED
      BY <3>1, OfTask
  <2>2. text \in AnyText \cup {None} /\ (job[w].publish => text \in held[job[w].skill])
    <3>1. job[w].publish => d.text \in held[job[w].skill]
      BY <1>1, <1>3 DEF IInv, DocCarries
    <3> QED
      BY <1>1, <3>1 DEF IInv, TypeOK
  <2> HIDE DEF text
  <2> DEFINE k == [job[w] EXCEPT !.pc = "base"]
  <2>3. k \in Jobs /\ k.pc = "base" /\ k.skill = job[w].skill /\ k.publish = job[w].publish
        /\ k.ok = FALSE
    BY <1>1 DEF Jobs, Pcs
  <2> HIDE DEF k
  <2>4. j = [k EXCEPT !.text = text]
    BY DEF k
  <2> HIDE DEF j
  <2>5. j \in Jobs /\ j.pc = "base" /\ j.skill = job[w].skill /\ j.publish = job[w].publish
        /\ j.ok = FALSE /\ j.text = text
    BY <2>2, <2>3, <2>4 DEF Jobs
  <2>6. Carries(j) /\ BuiltOn(j, base')
    BY <1>1, <2>2, <2>5 DEF Carries, Built, BuiltOn
  <2>7. job' \in [Workers -> Jobs] /\ JobCarries' /\ JobBuilt'
    BY <1>1, <2>1, <2>5, <2>6, TaskKeeps DEF repo
  <2> QED
    BY <1>1, <2>7, BranchesRest, ServiceRests, OfTask DEF repo, RepoTypeOK
<1> QED
  BY <1>2, <1>3

(* The commit differs from the head it is built on in one directory.       *)
LEMMA ResolveBaseKeeps ==
  ASSUME IInv, NEW w \in Workers, ResolveBase(w), UNCHANGED service
  PROVE  IInv'
<1> held' = held
  BY DEF service
<1> DEFINE n == job[w].skill.name
           commit == [on |-> base.id, files |-> [base.files EXCEPT ![n] = job[w].text]]
           pc == IF UseBranch THEN "move" ELSE "advance"
<1>1. /\ job[w].pc = "base" /\ job[w].skill \in Skills /\ n \in Names
      /\ job[w] \in Jobs /\ job[w].ok = FALSE /\ job[w].text \in AnyText \cup {None}
      /\ job[w].publish => job[w].text \in held[job[w].skill]
      /\ UNCHANGED <<base, branches, prs>>
  <2>1. job[w].pc = "base" /\ UNCHANGED <<base, branches, prs>>
    BY DEF ResolveBase, repo
  <2>2. job[w] \in Jobs /\ Carries(job[w])
    BY OfTask
  <2>3. job[w].skill \in Skills /\ ~job[w].ok
        /\ (job[w].publish => job[w].text \in held[job[w].skill])
    BY <2>1, <2>2 DEF Carries
  <2> QED
    BY <2>1, <2>2, <2>3, BranchFacts DEF Jobs
<1>2. CASE End(w, FALSE)
  <2>1. job' \in [Workers -> Jobs] /\ JobCarries' /\ JobBuilt'
    BY <1>1, <1>2, EndKeeps
  <2> QED
    BY <1>1, <2>1, BranchesRest, ServiceRests, OfTask DEF RepoTypeOK
<1>3. CASE job' = [job EXCEPT ![w].pc = pc, ![w].commit = commit]
  <2>1. /\ commit \in Commits /\ commit.on = base.id
        /\ commit.files[n] = job[w].text
        /\ \A m \in Names : m # n => commit.files[m] = base.files[m]
    <3>1. base.id \in Nat /\ base.files \in Directories
      BY OfTask
    <3>2. [base.files EXCEPT ![n] = job[w].text] \in Directories
      BY <1>1, <3>1 DEF Directories
    <3> QED
      BY <1>1, <3>1, <3>2 DEF Commits, Directories
  <2>2. pc \in {"move", "advance"} /\ (pc = "advance" => ~UseBranch)
    OBVIOUS
  <2> HIDE DEF commit, pc
  <2> DEFINE k == [job[w] EXCEPT !.pc = pc]
             j == [k EXCEPT !.commit = commit]
  <2>3. job' = [job EXCEPT ![w] = j]
    BY <1>3, OfTask
  <2>4. k \in Jobs /\ k.pc = pc /\ k.skill = job[w].skill /\ k.publish = job[w].publish
        /\ k.ok = FALSE
    BY <1>1, <2>2 DEF Jobs, Pcs
  <2> HIDE DEF k
  <2>5. j \in Jobs /\ j.pc = pc /\ j.skill = job[w].skill /\ j.publish = job[w].publish
        /\ j.ok = FALSE /\ j.commit = commit
    BY <2>1, <2>4 DEF Jobs
  <2> HIDE DEF j
  <2>6. Carries(j)
    BY <1>1, <2>1, <2>2, <2>5 DEF Carries, Built
  <2>7. BuiltOn(j, base')
    BY <1>1, <2>1, <2>2, <2>5, OfTask DEF BuiltOn
  <2>8. job' \in [Workers -> Jobs] /\ JobCarries' /\ JobBuilt'
    BY <1>1, <2>3, <2>5, <2>6, <2>7, TaskKeeps
  <2> QED
    BY <1>1, <2>8, BranchesRest, ServiceRests, OfTask DEF RepoTypeOK
<1> QED
  BY <1>2, <1>3 DEF ResolveBase

LEMMA RequestKeeps ==
  ASSUME IInv, NEW w \in Workers, Request(w), UNCHANGED service
  PROVE  IInv'
<1> held' = held
  BY DEF service
<1>1. CASE ResolveBase(w)
  BY <1>1, ResolveBaseKeeps
<1>2. CASE MoveBranch(w)
  BY <1>2, MoveFacts, ServiceRests DEF MoveBranch
<1>3. CASE FindPr(w)
  <2>1. PICK pc \in {"updatepr", "openpr"} : job' = [job EXCEPT ![w] = [job[w] EXCEPT !.pc = pc]]
    BY <1>3, OfTask DEF FindPr
  <2> DEFINE j == [job[w] EXCEPT !.pc = pc]
  <2>2. job[w].pc = "findpr" /\ UNCHANGED <<base, branches, prs>>
    BY <1>3 DEF FindPr, repo
  <2>3. /\ j \in Jobs /\ j.pc = pc /\ j.skill = job[w].skill /\ j.publish = job[w].publish
        /\ j.commit = job[w].commit /\ j.ok = job[w].ok
    BY OfTask DEF Jobs, Pcs
  <2>4. job' = [job EXCEPT ![w] = j]
    BY <2>1
  <2> HIDE DEF j
  <2>5. Carries(j) /\ BuiltOn(j, base')
    BY <2>2, <2>3, OfTask DEF Carries, Built, BuiltOn
  <2>6. job' \in [Workers -> Jobs] /\ JobCarries' /\ JobBuilt'
    BY <2>2, <2>3, <2>4, <2>5, TaskKeeps
  <2> QED
    BY <2>2, <2>6, BranchesRest, ServiceRests, OfTask DEF RepoTypeOK
<1>4. CASE OpenPr(w)
  <2>1. job[w].pc = "openpr" /\ UNCHANGED <<base, branches>>
    BY <1>4 DEF OpenPr
  <2>2. PICK ok \in BOOLEAN : End(w, ok)
    BY <1>4 DEF OpenPr
  <2>3. job' \in [Workers -> Jobs] /\ JobCarries' /\ JobBuilt'
    BY <2>1, <2>2, EndKeeps DEF Built
  <2>4. prs' \subseteq BranchNames /\ RepoCarries'
    <3>1. CASE UNCHANGED prs
      BY <2>1, <3>1, BranchesRest
    <3>2. CASE branches[BranchOf(w)] # None /\ prs' = prs \cup {BranchOf(w)}
      BY <2>1, <3>2, OpenFacts, OfTask
    <3> QED
      BY <1>4, <3>1, <3>2 DEF OpenPr
  <2> QED
    BY <2>1, <2>3, <2>4, ServiceRests, OfTask DEF RepoTypeOK
<1>5. CASE UpdatePr(w)
  <2>1. job[w].pc = "updatepr" /\ End(w, TRUE) /\ UNCHANGED <<base, branches, prs>>
    BY <1>5 DEF UpdatePr, repo
  <2>2. job' \in [Workers -> Jobs] /\ JobCarries' /\ JobBuilt'
    BY <2>1, EndKeeps DEF Built
  <2> QED
    BY <2>1, <2>2, BranchesRest, ServiceRests, OfTask DEF RepoTypeOK
<1>6. CASE AdvanceBase(w)
  <2>1. job[w].pc = "advance" /\ UNCHANGED <<branches, prs>>
    BY <1>6 DEF AdvanceBase
  <2>2. PICK ok \in BOOLEAN : End(w, ok)
    BY <1>6 DEF AdvanceBase
  <2>3. \/ base' = base
        \/ base' = [id |-> base.id + 1, files |-> job[w].commit.files]
    BY <1>6 DEF AdvanceBase
  <2>4. base' \in [id : Nat, files : Directories] /\ (base' = base \/ base'.id = base.id + 1)
    BY <2>1, <2>3, AdvanceFacts, OfTask
  <2>5. job' \in [Workers -> Jobs] /\ JobCarries' /\ JobBuilt'
    <3>1. job[w].pc \in Built /\ job[w].pc # "idle"
      BY <2>1 DEF Built
    <3>2. CASE base' = base
      BY <2>2, <3>1, <3>2, EndKeeps
    <3>3. CASE base'.id = base.id + 1
      BY <2>2, <3>1, <3>3, EndKeeps
    <3> QED
      BY <2>4, <3>2, <3>3
  <2> QED
    BY <2>1, <2>4, <2>5, BranchesRest, ServiceRests DEF RepoTypeOK
<1> QED
  BY <1>1, <1>2, <1>3, <1>4, <1>5, <1>6 DEF Request

(* A task that fails or is stopped ends without having reported success;   *)
(* the request it was at may have been served.                             *)
LEMMA FailureKeeps ==
  ASSUME IInv, Registry, NEW w \in Workers, RequestFails(w) \/ TaskCancelled(w), UNCHANGED service
  PROVE  IInv'
<1> held' = held
  BY DEF service
<1>1. job[w].pc # "idle"
  BY DEF RequestFails, TaskCancelled, Registry
<1>2. ASSUME End(w, FALSE), base' = base \/ base'.id = base.id + 1
      PROVE  job' \in [Workers -> Jobs] /\ JobCarries' /\ JobBuilt'
  BY <1>1, <1>2, EndKeeps
<1>3. CASE End(w, FALSE) /\ UNCHANGED repo
  BY <1>2, <1>3, BranchesRest, ServiceRests, OfTask DEF repo, RepoTypeOK
<1>4. CASE /\ job[w].pc = "move"
           /\ branches' = [branches EXCEPT ![BranchOf(w)] = job[w].commit]
           /\ job' = [Mark(BranchOf(w), w, FALSE) EXCEPT ![w].pc = "ended"]
           /\ UNCHANGED <<base, prs>>
  BY <1>4, MoveFacts, ServiceRests
<1>5. CASE /\ End(w, FALSE)
           /\ branches[BranchOf(w)] # None
           /\ prs' = prs \cup {BranchOf(w)}
           /\ UNCHANGED <<base, branches>>
  <2>1. prs' \subseteq BranchNames /\ RepoCarries'
    BY <1>1, <1>5, OpenFacts, OfTask
  <2> QED
    BY <1>2, <1>5, <2>1, ServiceRests, OfTask DEF RepoTypeOK
<1>6. CASE /\ job[w].pc = "advance" /\ End(w, FALSE)
           /\ base' = [id |-> base.id + 1, files |-> job[w].commit.files]
           /\ UNCHANGED <<branches, prs>>
  <2>1. base' \in [id : Nat, files : Directories] /\ base'.id = base.id + 1
    BY <1>6, AdvanceFacts
  <2> QED
    BY <1>2, <1>6, <2>1, BranchesRest, ServiceRests, OfTask DEF RepoTypeOK
<1>7. CASE RequestFails(w)
  BY <1>3, <1>7 DEF RequestFails
<1>8. CASE TaskCancelled(w)
  BY <1>3, <1>4, <1>5, <1>6, <1>8 DEF TaskCancelled
<1> QED
  BY <1>7, <1>8

LEMMA CleanupKeeps ==
  ASSUME IInv, NEW w \in Workers, Cleanup(w)
  PROVE  IInv'
<1>1. job' = [job EXCEPT ![w] = NoJob] /\ UNCHANGED <<repo, doc, call, made, held>>
  BY DEF Cleanup
<1>2. NoJob \in Jobs /\ Carries(NoJob) /\ BuiltOn(NoJob, base')
  BY DEF NoJob, Jobs, Pcs, Carries, Built, BuiltOn
<1>3. job' \in [Workers -> Jobs] /\ JobCarries' /\ JobBuilt'
  BY <1>1, <1>2, TaskKeeps DEF repo
<1>4. pending' \in [Skills -> Workers \cup {None}] /\ cancelled' \subseteq Workers
  BY DEF Cleanup, IInv, TypeOK
<1> QED
  BY <1>1, <1>3, <1>4, BranchesRest, OfTask
     DEF IInv, TypeOK, RepoTypeOK, DocCarries, CallCarries, repo

-----------------------------------------------------------------------------
(* People                                                                  *)

LEMMA PeopleKeep ==
  ASSUME IInv, People, UNCHANGED service
  PROVE  IInv'
<1> held' = held
  BY DEF service
<1>0. /\ base.id \in Nat /\ base.files \in Directories
      /\ branches \in [BranchNames -> Commits \cup {None}] /\ prs \subseteq BranchNames
      /\ job \in [Workers -> Jobs]
  BY DEF IInv, TypeOK, RepoTypeOK
<1>1. ASSUME NEW b \in BranchNames, MergePr(b) PROVE IInv'
  <2>1. branches[b] \in Commits /\ b.name \in Names
    BY <1>1 DEF MergePr, IInv, RepoCarries, BranchNames
  <2>2. base' = [id |-> base.id + 1,
                 files |-> [base.files EXCEPT ![b.name] = branches[b].files[b.name]]]
    BY <1>1 DEF MergePr
  <2>3. base' \in [id : Nat, files : Directories] /\ base'.id = base.id + 1
    <3>1. [base.files EXCEPT ![b.name] = branches[b].files[b.name]] \in Directories
      BY <1>0, <2>1 DEF Commits, Directories
    <3> QED
      BY <1>0, <2>2, <3>1
  <2>4. PICK c \in {None, branches[b]} : branches' = [branches EXCEPT ![b] = c]
    BY <1>1 DEF MergePr
  <2>5. branches' \in [BranchNames -> Commits \cup {None}] /\ prs' \subseteq BranchNames
    BY <1>0, <1>1, <2>1, <2>4 DEF MergePr
  <2>6. RepoCarries'
    <3>1. \A a \in prs' : branches'[a] \in Commits
      BY <1>0, <1>1, <2>4 DEF MergePr, IInv, RepoCarries
    <3>2. \A a \in BranchNames : branches'[a] # None => branches'[a] = branches[a]
      BY <1>0, <2>4
    <3>3. \A s \in Skills : Branch(s, TRUE) \in BranchNames
      BY BranchFacts
    <3> QED
      BY <3>1, <3>2, <3>3 DEF IInv, RepoCarries, BranchCarriesOwnDocument
  <2>7. job' \in [Workers -> Jobs] /\ \A v \in Workers : Same(job'[v], job[v])
    BY <1>0, <1>1, DecidedFacts DEF MergePr
  <2>8. JobCarries' /\ JobBuilt'
    BY <2>3, <2>7, TasksKeep DEF IInv
  <2> QED
    BY <2>3, <2>5, <2>6, <2>7, <2>8, ServiceRests DEF RepoTypeOK
<1>2. ASSUME NEW b \in BranchNames, ClosePr(b) PROVE IInv'
  <2>1. job' \in [Workers -> Jobs] /\ \A v \in Workers : Same(job'[v], job[v])
    BY <1>0, <1>2, DecidedFacts DEF ClosePr
  <2>2. JobCarries' /\ JobBuilt'
    BY <1>2, <2>1, TasksKeep DEF ClosePr, IInv
  <2>3. RepoCarries'
    BY <1>2 DEF ClosePr, IInv, RepoCarries, BranchCarriesOwnDocument
  <2>4. RepoTypeOK'
    BY <1>2, <2>1 DEF ClosePr, IInv, TypeOK, RepoTypeOK
  <2> QED
    BY <2>2, <2>3, <2>4, ServiceRests
<1>3. ASSUME NEW n \in Names, NEW c \in AnyText \cup {None}, Push(n, c) PROVE IInv'
  <2>1. /\ base' = [id |-> base.id + 1, files |-> [base.files EXCEPT ![n] = c]]
        /\ UNCHANGED <<branches, prs, job>>
    BY <1>3 DEF Push
  <2>2. base' \in [id : Nat, files : Directories] /\ base'.id = base.id + 1
    <3>1. [base.files EXCEPT ![n] = c] \in Directories
      BY <1>0 DEF Directories
    <3> QED
      BY <1>0, <2>1, <3>1
  <2>3. JobCarries' /\ JobBuilt'
    BY <2>1, <2>2, TasksKeep DEF IInv, Same
  <2> QED
    BY <1>0, <2>1, <2>2, <2>3, BranchesRest, ServiceRests DEF RepoTypeOK
<1> QED
  BY <1>1, <1>2, <1>3 DEF People

-----------------------------------------------------------------------------
(* What the step of one worker means to the others                         *)

(* Nobody touches the task of another but to pass its commit.              *)
Passed(v) ==
    /\ Same(job'[v], job[v])
    /\ job[v].decided = TRUE => job'[v].decided = TRUE
    /\ job[v].replaced = TRUE => job'[v].replaced = TRUE

(* A step of w: its task goes on or ends, a pull request is open when it   *)
(* is about to update it and when it reports one it has opened, and the    *)
(* base branch takes its commit only if that is built on the head.         *)
WorkerStep(w) ==
    /\ \A v \in Workers : v # w => Passed(v)
    /\ job[w].pc \notin {"idle", "ended"} /\ job'[w].pc # "idle"
    /\ job'[w].skill = job[w].skill /\ job'[w].publish = job[w].publish
    /\ job'[w].decided = job[w].decided /\ job'[w].replaced = job[w].replaced
    /\ prs \subseteq prs'
    /\ job'[w].pc = "updatepr" => BranchOf(w) \in prs
    /\ job'[w].pc = "ended" /\ job'[w].ok = TRUE =>
          job[w].pc \in {"updatepr", "advance"} \/ BranchOf(w) \in prs'
    /\ \/ base' = base
       \/ /\ job[w].pc = "advance" /\ base.id = job[w].commit.on
          /\ base' = [id |-> base.id + 1, files |-> job[w].commit.files]

LEMMA EndIsStep ==
  ASSUME IInv, NEW w \in Workers, NEW ok \in BOOLEAN, End(w, ok),
         job[w].pc \notin {"idle", "ended"}, prs \subseteq prs',
         ok = TRUE => job[w].pc \in {"updatepr", "advance"} \/ BranchOf(w) \in prs',
         \/ base' = base
         \/ /\ job[w].pc = "advance" /\ base.id = job[w].commit.on
            /\ base' = [id |-> base.id + 1, files |-> job[w].commit.files]
  PROVE  WorkerStep(w)
<1>1. /\ \A v \in Workers : v # w => job'[v] = job[v]
      /\ job'[w].pc = "ended" /\ job'[w].ok = ok
      /\ job'[w].skill = job[w].skill /\ job'[w].publish = job[w].publish
      /\ job'[w].decided = job[w].decided /\ job'[w].replaced = job[w].replaced
  BY EndFacts, OfTask
<1>2. \A v \in Workers : v # w => Passed(v)
  BY <1>1 DEF Passed, Same
<1> QED
  BY <1>1, <1>2 DEF WorkerStep

LEMMA GoOnIsStep ==
  ASSUME IInv, NEW w \in Workers, NEW j, job' = [job EXCEPT ![w] = j],
         job[w].pc \notin {"idle", "ended"}, j.pc \notin {"idle", "ended"},
         j.skill = job[w].skill, j.publish = job[w].publish,
         j.decided = job[w].decided, j.replaced = job[w].replaced,
         j.pc = "updatepr" => BranchOf(w) \in prs, UNCHANGED repo
  PROVE  WorkerStep(w)
<1>1. job'[w] = j /\ \A v \in Workers : v # w => job'[v] = job[v]
  BY OfTask
<1>2. \A v \in Workers : v # w => Passed(v)
  BY <1>1 DEF Passed, Same
<1> QED
  BY <1>1, <1>2 DEF WorkerStep, repo

LEMMA MoveIsStep ==
  ASSUME IInv, NEW w \in Workers, NEW pc \in {"findpr", "ended"}, job[w].pc = "move",
         job' = [Mark(BranchOf(w), w, FALSE) EXCEPT ![w].pc = pc],
         UNCHANGED <<base, prs>>
  PROVE  WorkerStep(w)
<1> DEFINE M == Mark(BranchOf(w), w, FALSE)
<1>1. /\ M \in [Workers -> Jobs] /\ M[w] = job[w]
      /\ \A v \in Workers : /\ Same(M[v], job[v])
                            /\ job[v].decided = TRUE => M[v].decided = TRUE
                            /\ job[v].replaced = TRUE => M[v].replaced = TRUE
  <2>1. job \in [Workers -> Jobs]
    BY OfTask
  <2> QED
    BY <2>1, ReplacedFacts
<1>2. job' = [M EXCEPT ![w].pc = pc]
  OBVIOUS
<1> HIDE DEF M
<1>3. /\ \A v \in Workers : v # w => job'[v] = M[v]
      /\ job'[w] = [job[w] EXCEPT !.pc = pc]
  BY <1>1, <1>2
<1>4. \A v \in Workers : v # w => Passed(v)
  BY <1>1, <1>3 DEF Passed
<1>5. /\ job'[w].pc = pc /\ job'[w].ok = job[w].ok
      /\ job'[w].skill = job[w].skill /\ job'[w].publish = job[w].publish
      /\ job'[w].decided = job[w].decided /\ job'[w].replaced = job[w].replaced
  <2> DEFINE k == [job[w] EXCEPT !.pc = pc]
  <2>1. /\ k.pc = pc /\ k.ok = job[w].ok
        /\ k.skill = job[w].skill /\ k.publish = job[w].publish
        /\ k.decided = job[w].decided /\ k.replaced = job[w].replaced
    BY OfTask DEF Jobs
  <2>2. job'[w] = k
    BY <1>3
  <2> HIDE DEF k
  <2> QED
    BY <2>1, <2>2
<1>6. job[w].ok = FALSE
  <2>1. job[w].ok \in BOOLEAN /\ ~job[w].ok
    BY OfTask DEF Carries, Jobs
  <2> QED
    BY <2>1
<1> QED
  BY <1>4, <1>5, <1>6 DEF WorkerStep

LEMMA TasksStep ==
  ASSUME IInv, Registry, NEW w \in Workers,
         ReadSkill(w) \/ Request(w) \/ RequestFails(w) \/ TaskCancelled(w)
  PROVE  WorkerStep(w)
<1>0. job[w] \in Jobs /\ job[w].pc \in Pcs
  BY OfTask DEF Jobs
<1>1. CASE ReadSkill(w)
  <2>1. job[w].pc = "start" /\ UNCHANGED repo
    BY <1>1 DEF ReadSkill
  <2>2. CASE End(w, FALSE)
    BY <2>1, <2>2, EndIsStep DEF repo
  <2>3. CASE ~End(w, FALSE)
    <3>1. PICK text : job' = [job EXCEPT ![w].pc = "base", ![w].text = text]
      BY <1>1, <2>3 DEF ReadSkill
    <3> DEFINE k == [job[w] EXCEPT !.pc = "base"]
               j == [k EXCEPT !.text = text]
    <3>2. job' = [job EXCEPT ![w] = j]
      BY <3>1, OfTask
    <3>3. k.pc = "base" /\ k.skill = job[w].skill /\ k.publish = job[w].publish
          /\ k.decided = job[w].decided /\ k.replaced = job[w].replaced /\ k \in Jobs
      BY <1>0 DEF Jobs, Pcs
    <3> HIDE DEF k
    <3>4. j.pc = "base" /\ j.skill = job[w].skill /\ j.publish = job[w].publish
          /\ j.decided = job[w].decided /\ j.replaced = job[w].replaced
      BY <3>3 DEF Jobs
    <3> HIDE DEF j
    <3> QED
      BY <2>1, <3>2, <3>4, GoOnIsStep
  <2> QED
    BY <2>2, <2>3
<1>2. CASE ResolveBase(w)
  <2>1. job[w].pc = "base" /\ UNCHANGED repo
    BY <1>2 DEF ResolveBase
  <2>2. CASE End(w, FALSE)
    BY <2>1, <2>2, EndIsStep DEF repo
  <2>3. CASE ~End(w, FALSE)
    <3>0. PICK pc \in {"move", "advance"} :
            \E c : job' = [job EXCEPT ![w].pc = pc, ![w].commit = c]
      BY <1>2, <2>3 DEF ResolveBase
    <3>1. PICK commit : job' = [job EXCEPT ![w].pc = pc, ![w].commit = commit]
      BY <3>0
    <3> DEFINE k == [job[w] EXCEPT !.pc = pc]
               j == [k EXCEPT !.commit = commit]
    <3>2. job' = [job EXCEPT ![w] = j]
      BY <3>1, OfTask
    <3>3. k.pc = pc /\ k.skill = job[w].skill /\ k.publish = job[w].publish
          /\ k.decided = job[w].decided /\ k.replaced = job[w].replaced /\ k \in Jobs
      BY <1>0 DEF Jobs, Pcs
    <3> HIDE DEF k
    <3>4. j.pc = pc /\ j.skill = job[w].skill /\ j.publish = job[w].publish
          /\ j.decided = job[w].decided /\ j.replaced = job[w].replaced
      BY <3>3 DEF Jobs
    <3> HIDE DEF j
    <3> QED
      BY <2>1, <3>2, <3>4, GoOnIsStep
  <2> QED
    BY <2>2, <2>3
<1>3. CASE MoveBranch(w)
  BY <1>3, MoveIsStep DEF MoveBranch
<1>4. CASE FindPr(w)
  <2>1. PICK pc \in {"updatepr", "openpr"} :
          /\ job' = [job EXCEPT ![w] = [job[w] EXCEPT !.pc = pc]]
          /\ pc = "updatepr" => BranchOf(w) \in prs
    BY <1>4, OfTask DEF FindPr
  <2> DEFINE j == [job[w] EXCEPT !.pc = pc]
  <2>2. j \in Jobs /\ j.pc = pc /\ j.skill = job[w].skill /\ j.publish = job[w].publish
        /\ j.decided = job[w].decided /\ j.replaced = job[w].replaced
    BY <1>0 DEF Jobs, Pcs
  <2>3. job' = [job EXCEPT ![w] = j]
    BY <2>1
  <2> HIDE DEF j
  <2>4. job[w].pc = "findpr" /\ UNCHANGED repo
    BY <1>4 DEF FindPr
  <2> QED
    BY <2>1, <2>2, <2>3, <2>4, GoOnIsStep
<1>5. CASE OpenPr(w)
  <2>1. job[w].pc = "openpr" /\ base' = base
    BY <1>5 DEF OpenPr
  <2>2. CASE End(w, TRUE) /\ prs' = prs \cup {BranchOf(w)}
    BY <2>1, <2>2, EndIsStep
  <2>3. CASE End(w, FALSE) /\ UNCHANGED prs
    BY <2>1, <2>3, EndIsStep
  <2> QED
    BY <1>5, <2>2, <2>3 DEF OpenPr
<1>6. CASE UpdatePr(w)
  BY <1>6, EndIsStep DEF UpdatePr, repo
<1>7. CASE AdvanceBase(w)
  <2>1. job[w].pc = "advance" /\ prs' = prs
    BY <1>7 DEF AdvanceBase
  <2>2. PICK ok \in BOOLEAN : End(w, ok)
    BY <1>7 DEF AdvanceBase
  <2>3. \/ base' = base
        \/ /\ base.id = job[w].commit.on
           /\ base' = [id |-> base.id + 1, files |-> job[w].commit.files]
    BY <1>7 DEF AdvanceBase
  <2> QED
    BY <2>1, <2>2, <2>3, EndIsStep
<1>8. CASE RequestFails(w)
  BY <1>8, EndIsStep DEF RequestFails, repo
<1>9. CASE TaskCancelled(w)
  <2>1. job[w].pc \notin {"idle", "ended"}
    BY <1>9 DEF TaskCancelled, Registry
  <2>2. CASE End(w, FALSE) /\ UNCHANGED repo
    BY <2>1, <2>2, EndIsStep DEF repo
  <2>3. CASE /\ job[w].pc = "move"
             /\ job' = [Mark(BranchOf(w), w, FALSE) EXCEPT ![w].pc = "ended"]
             /\ UNCHANGED <<base, prs>>
    BY <2>3, MoveIsStep
  <2>4. CASE End(w, FALSE) /\ prs' = prs \cup {BranchOf(w)} /\ base' = base
    BY <2>1, <2>4, EndIsStep
  <2>5. CASE /\ job[w].pc = "advance" /\ base.id = job[w].commit.on
             /\ base' = [id |-> base.id + 1, files |-> job[w].commit.files]
             /\ End(w, FALSE) /\ prs' = prs
    BY <2>1, <2>5, EndIsStep
  <2> QED
    BY <1>9, <2>2, <2>3, <2>4, <2>5 DEF TaskCancelled
<1> QED
  BY <1>1, <1>2, <1>3, <1>4, <1>5, <1>6, <1>7, <1>8, <1>9 DEF Request

(* Reviewers and other people pass commits, and what they decide they mark.*)
LEMMA PeopleFacts ==
  ASSUME IInv, People
  PROVE  /\ \A v \in Workers : Passed(v)
         /\ \A v \in Workers :
              Moved(v) /\ BranchOf(v) \in prs => BranchOf(v) \in prs' \/ job'[v].decided = TRUE
<1>1. job \in [Workers -> Jobs]
  BY DEF IInv, TypeOK, RepoTypeOK
<1>2. CASE UNCHANGED <<job, prs>>
  BY <1>2 DEF Passed, Same
<1>3. ASSUME NEW b \in BranchNames, job' = Mark(b, None, TRUE), prs' = prs \ {b}
      PROVE  /\ \A v \in Workers : Passed(v)
             /\ \A v \in Workers :
                  Moved(v) /\ BranchOf(v) \in prs =>
                      BranchOf(v) \in prs' \/ job'[v].decided = TRUE
  <2> DEFINE M == Mark(b, None, TRUE)
  <2>1. \A v \in Workers :
          /\ Same(M[v], job[v])
          /\ job[v].decided = TRUE => M[v].decided = TRUE
          /\ job[v].replaced = TRUE => M[v].replaced = TRUE
          /\ Moved(v) /\ BranchOf(v) = b => M[v].decided = TRUE
    BY <1>1, DecidedFacts
  <2>2. job' = M
    BY <1>3
  <2> HIDE DEF M
  <2> QED
    BY <1>3, <2>1, <2>2 DEF Passed
<1> QED
  BY <1>2, <1>3 DEF People, MergePr, ClosePr, Push

LEMMA StepKinds ==
  ASSUME IInv, Registry, [Next]_vars
  PROVE  \/ UNCHANGED <<repo, job>>
         \/ \E w \in Workers : WorkerStep(w)
         \/ \E c \in Calls : Schedule(c)
         \/ \E w \in Workers : Cleanup(w)
         \/ People
<1>1. ASSUME NEW w \in Workers, TaskSteps(w) \/ TaskFails(w) \/ TaskCancelled(w)
      PROVE  WorkerStep(w)
  BY <1>1, TasksStep DEF TaskSteps, TaskFails
<1>2. ASSUME NEW s \in Skills, UserSaves(s) \/ UserDeletes(s) PROVE UNCHANGED <<repo, job>>
  BY <1>2 DEF UserSaves, UserDeletes
<1>3. ASSUME NEW c \in Calls, NEW s \in Skills, NEW publish \in BOOLEAN, Begin(c, s, publish)
      PROVE  UNCHANGED <<repo, job>>
  BY <1>3 DEF Begin
<1>4. ASSUME NEW c \in Calls, CallSteps(c) \/ CallFails(c)
      PROVE  Schedule(c) \/ UNCHANGED <<repo, job>>
  BY <1>4 DEF CallSteps, CheckExists, ReadOwn, ReadShared, AutoSave, Validate,
         SetState, CallFails
<1>5. CASE UNCHANGED vars
  BY <1>5 DEF vars
<1> QED
  BY <1>1, <1>2, <1>3, <1>4, <1>5 DEF Next, Resting

-----------------------------------------------------------------------------
(* The invariants                                                          *)

(* A new task starts in the place of an idle worker.                       *)
LEMMA ScheduleFacts ==
  ASSUME IInv, NEW c \in Calls, Schedule(c)
  PROVE  \E w \in Workers :
            /\ job[w].pc = "idle" /\ job'[w].pc = "start" /\ job'[w].skill = call[c].skill
            /\ \A u \in Workers : u # w => job'[u] = job[u]
            /\ pending' = [pending EXCEPT ![call[c].skill] = w]
<1>1. PICK w \in Workers :
        /\ job[w].pc = "idle"
        /\ job' = [job EXCEPT ![w] = [NoJob EXCEPT !.pc = "start", !.skill = call[c].skill,
                                        !.publish = call[c].publish]]
        /\ pending' = [pending EXCEPT ![call[c].skill] = w]
  BY DEF Schedule
<1> DEFINE j1 == [NoJob EXCEPT !.pc = "start"]
           j2 == [j1 EXCEPT !.skill = call[c].skill]
           j3 == [j2 EXCEPT !.publish = call[c].publish]
<1>2. job' = [job EXCEPT ![w] = j3]
  BY <1>1
<1>3. j3.pc = "start" /\ j3.skill = call[c].skill
  BY DEF NoJob
<1> HIDE DEF j3
<1>4. job'[w] = j3 /\ \A u \in Workers : u # w => job'[u] = job[u]
  BY <1>2, OfTask
<1> QED
  BY <1>1, <1>3, <1>4

LEMMA RegistryStep ==
  ASSUME IInv, Registry, [Next]_vars
  PROVE  Registry'
<1>0. /\ job \in [Workers -> Jobs] /\ pending \in [Skills -> Workers \cup {None}]
      /\ cancelled \subseteq Workers
      /\ \A w \in Workers : job[w].pc # "idle" => job[w].skill \in Skills
  BY DEF IInv, TypeOK, RepoTypeOK, JobCarries, Carries
<1>1. ASSUME UNCHANGED <<pending, cancelled>>,
             \A v \in Workers :
                /\ job'[v].skill = job[v].skill
                /\ job'[v].pc = "idle" <=> job[v].pc = "idle"
                /\ job[v].pc = "ended" => job'[v].pc = "ended"
      PROVE  Registry'
  BY <1>0, <1>1 DEF Registry, RegistryHoldsLiveTask
<1>2. CASE UNCHANGED <<job, pending, cancelled>>
  BY <1>2 DEF Registry, RegistryHoldsLiveTask
<1>3. ASSUME NEW w \in Workers,
             ReadSkill(w) \/ Request(w) \/ RequestFails(w) \/ TaskCancelled(w), UNCHANGED service
      PROVE  Registry'
  <2>1. WorkerStep(w)
    BY <1>3, TasksStep
  <2> QED
    BY <1>1, <1>3, <2>1 DEF WorkerStep, Passed, Same, service
<1>4. ASSUME NEW c \in Calls, Schedule(c) PROVE Registry'
  <2> DEFINE s == call[c].skill
  <2>1. s \in Skills
    BY <1>4 DEF Schedule, IInv, CallCarries
  <2>2. PICK w \in Workers :
          /\ job[w].pc = "idle" /\ job'[w].pc = "start" /\ job'[w].skill = s
          /\ \A u \in Workers : u # w => job'[u] = job[u]
          /\ pending' = [pending EXCEPT ![s] = w]
    BY <1>4, ScheduleFacts
  <2>3. cancelled' = cancelled \cup {u \in Workers : u = pending[s] /\ job[u].pc # "ended"}
    BY <1>4 DEF Schedule
  <2>4. pending'[s] = w /\ \A u \in Skills : u # s => pending'[u] = pending[u]
    BY <1>0, <2>1, <2>2
  <2> HIDE DEF s
  <2>5. \A u \in cancelled' : job'[u].pc # "idle"
    BY <1>0, <2>1, <2>2, <2>3 DEF Registry
  <2>6. \A r \in Skills, u \in Workers : pending'[r] = u => job'[u].pc # "idle"
    BY <1>0, <2>2, <2>4 DEF Registry
  <2>7. ASSUME NEW u \in Workers, job'[u].pc \notin {"idle", "ended"}, u \notin cancelled'
        PROVE  pending'[job'[u].skill] = u
    BY <1>0, <2>2, <2>3, <2>4, <2>7 DEF Registry, RegistryHoldsLiveTask
  <2> QED
    BY <2>5, <2>6, <2>7 DEF Registry, RegistryHoldsLiveTask
<1>5. ASSUME NEW w \in Workers, Cleanup(w) PROVE Registry'
  <2>1. job'[w] = NoJob /\ \A u \in Workers : u # w => job'[u] = job[u]
    BY <1>0, <1>5 DEF Cleanup
  <2>2. /\ cancelled' = cancelled \ {w}
        /\ pending' = [s \in Skills |-> IF pending[s] = w THEN None ELSE pending[s]]
    BY <1>5 DEF Cleanup
  <2>3. \A u \in cancelled' : job'[u].pc # "idle"
    BY <1>0, <2>1, <2>2 DEF Registry
  <2>4. \A s \in Skills, u \in Workers : pending'[s] = u => u # w /\ pending[s] = u
    BY <2>2
  <2>5. \A s \in Skills, u \in Workers : pending'[s] = u => job'[u].pc # "idle"
    BY <2>1, <2>4 DEF Registry
  <2>6. RegistryHoldsLiveTask'
    BY <1>0, <2>1, <2>2 DEF Registry, RegistryHoldsLiveTask, NoJob
  <2> QED
    BY <2>3, <2>5, <2>6 DEF Registry
<1>6. CASE People /\ UNCHANGED service
  <2>1. \A v \in Workers : Same(job'[v], job[v])
    BY <1>6, PeopleFacts DEF Passed
  <2> QED
    BY <1>1, <1>6, <2>1 DEF Same, service
<1>7. ASSUME NEW c \in Calls, CallSteps(c) \/ CallFails(c) PROVE Registry'
  BY <1>2, <1>4, <1>7
     DEF CallSteps, CheckExists, ReadOwn, ReadShared, AutoSave, Validate,
         SetState, CallFails
<1>8. ASSUME NEW w \in Workers, TaskSteps(w) \/ TaskFails(w) \/ TaskCancelled(w) PROVE Registry'
  <2>1. UNCHANGED service
    BY <1>8 DEF TaskSteps, TaskFails, TaskCancelled, ReadSkill
  <2> QED
    BY <1>3, <1>8, <2>1 DEF TaskSteps, TaskFails
<1>9. CASE UNCHANGED vars
  BY <1>2, <1>9 DEF vars, service
<1>10. ASSUME NEW s \in Skills, UserSaves(s) \/ UserDeletes(s) PROVE Registry'
  BY <1>2, <1>10 DEF UserSaves, UserDeletes
<1>11. ASSUME NEW c \in Calls, NEW s \in Skills, NEW publish \in BOOLEAN, Begin(c, s, publish)
       PROVE  Registry'
  BY <1>2, <1>11 DEF Begin
<1> QED
  BY <1>5, <1>6, <1>7, <1>8, <1>9, <1>10, <1>11 DEF Next, Resting

LEMMA IInvStep ==
  ASSUME IInv, Registry, [Next]_vars
  PROVE  IInv'
<1>1. ASSUME NEW c \in Calls, CallSteps(c) \/ CallFails(c) PROVE IInv'
  BY <1>1, CallStepKeeps, ScheduleKeeps DEF CallSteps
<1>2. ASSUME NEW w \in Workers, TaskSteps(w) \/ TaskFails(w) \/ TaskCancelled(w) PROVE IInv'
  <2>1. UNCHANGED service
    BY <1>2 DEF TaskSteps, TaskFails, TaskCancelled, ReadSkill
  <2> QED
    BY <1>2, <2>1, ReadSkillKeeps, RequestKeeps, FailureKeeps DEF TaskSteps, TaskFails
<1>3. CASE UNCHANGED vars
  <2>1. UNCHANGED <<repo, job>> /\ UNCHANGED service
    BY <1>3 DEF vars
  <2>2. \A s \in Skills : held[s] \subseteq held'[s]
    BY <2>1 DEF service
  <2> QED
    BY <2>1, <2>2, MarketplaceRests, ServiceRests
<1> QED
  BY <1>1, <1>2, <1>3, UsersKeep, BeginKeeps, CleanupKeeps, PeopleKeep DEF Next, Resting

LEMMA InvInit == Init => IInv /\ Registry
<1> SUFFICES ASSUME Init PROVE IInv /\ Registry
  OBVIOUS
<1>1. NoJob \in Jobs /\ Carries(NoJob) /\ BuiltOn(NoJob, base)
  BY DEF NoJob, Jobs, Pcs, Carries, Built, BuiltOn
<1>2. NoCall \in CallStates
  BY DEF NoCall, CallStates
<1>3. /\ job = [w \in Workers |-> NoJob] /\ branches = [b \in BranchNames |-> None] /\ prs = {}
      /\ base \in [id : {0}, files : Directories]
  BY DEF Init, RepoInit
<1>4. /\ doc = [s \in Skills |-> None] /\ call = [c \in Calls |-> NoCall]
      /\ pending = [s \in Skills |-> None] /\ cancelled = {} /\ made = 0
      /\ held = [s \in Skills |-> {}]
  BY DEF Init
<1>5. RepoTypeOK
  BY <1>1, <1>3 DEF RepoTypeOK
<1>6. TypeOK
  BY <1>2, <1>4, <1>5 DEF TypeOK
<1>7. JobCarries /\ JobBuilt
  BY <1>1, <1>3 DEF JobCarries, JobBuilt
<1>8. DocCarries /\ CallCarries
  BY <1>4 DEF DocCarries, CallCarries, NoCall
<1>9. RepoCarries
  <2>1. \A s \in Skills : Branch(s, TRUE) \in BranchNames
    BY BranchFacts
  <2> QED
    BY <1>3, <2>1 DEF RepoCarries, BranchCarriesOwnDocument
<1>10. Registry
  BY <1>3, <1>4 DEF Registry, RegistryHoldsLiveTask, NoJob
<1> QED
  BY <1>6, <1>7, <1>8, <1>9, <1>10 DEF IInv

(* The invariant the theorems below rest on.                               *)
THEOREM Invariant == Spec => [](IInv /\ Registry)
<1>1. IInv /\ Registry /\ [Next]_vars => (IInv /\ Registry)'
  BY IInvStep, RegistryStep
<1> QED
  BY <1>1, InvInit, PTL DEF Spec

-----------------------------------------------------------------------------
(* What follows from them                                                  *)

(* Documents, calls, tasks and the repository keep their types: a commit   *)
(* holds texts and nothing else, and a task in flight has a skill.         *)
THEOREM TypeCorrect == Spec => []TypeOK
BY Invariant, PTL DEF IInv

(* Every task that runs on, unasked to stop, is the registered one, so the *)
(* next call for its skill finds and cancels it (execute, _cleanup).       *)
THEOREM LiveTaskRegistered == Spec => []RegistryHoldsLiveTask
BY Invariant, PTL DEF Registry

(* A branch under review carries a text that the document of the author it *)
(* is named after has had, however saves, auto-saves, calls and tasks of   *)
(* authors with skills of one name interleave (_branch_segment).           *)
THEOREM BranchKeepsAuthor == Spec => []BranchCarriesOwnDocument
<1>1. IInv => BranchCarriesOwnDocument
  BY DEF IInv, RepoCarries
<1> QED
  BY <1>1, Invariant, PTL

(* A commit of the publisher on the base branch changes the directory of   *)
(* its skill and no other, whoever pushed meanwhile (_update_branch, which *)
(* does not force).                                                        *)
THEOREM CommitsStayInDirectory == Spec => CommitsTouchOwnDirectory
<1>1. ASSUME IInv, Registry, [Next]_vars, NEW w \in Workers,
             job[w].pc = "advance", job'[w].pc = "ended",
             NEW n \in Names, base'.files[n] # base.files[n]
      PROVE  n = job[w].skill.name
  <2>1. CASE WorkerStep(w)
    <3>1. base.id = job[w].commit.on /\ base'.files = job[w].commit.files
      BY <1>1, <2>1 DEF WorkerStep
    <3>2. BuiltOn(job[w], base)
      BY <1>1, OfTask
    <3> QED
      BY <1>1, <3>1, <3>2 DEF BuiltOn
  <2>2. ASSUME NEW v \in Workers, v # w, WorkerStep(v) PROVE FALSE
    BY <1>1, <2>2 DEF WorkerStep, Passed, Same
  <2>3. CASE job'[w].pc = job[w].pc
    BY <1>1, <2>3
  <2>4. ASSUME NEW c \in Calls, Schedule(c) PROVE job'[w].pc = job[w].pc
    BY <1>1, <2>4, ScheduleFacts
  <2>5. ASSUME NEW v \in Workers, Cleanup(v) PROVE job'[w].pc = job[w].pc
    BY <1>1, <2>5, OfTask DEF Cleanup
  <2>6. CASE People
    BY <1>1, <2>3, <2>6, PeopleFacts DEF Passed, Same
  <2> QED
    BY <1>1, <2>1, <2>2, <2>3, <2>4, <2>5, <2>6, StepKinds
<1>2. IInv /\ Registry /\ [Next]_vars =>
        [\A w \in Workers : job[w].pc = "advance" /\ job'[w].pc = "ended" =>
            \A n \in Names : base'.files[n] # base.files[n] => n = job[w].skill.name]_vars
  BY <1>1
<1> QED
  BY <1>2, Invariant, PTL DEF Spec, CommitsTouchOwnDirectory

-----------------------------------------------------------------------------
(* Reviews                                                                 *)

Decided(v) == BranchOf(v) \in prs \/ job[v].decided = TRUE \/ job[v].replaced = TRUE
ToBeReviewed(v) ==
    \/ job[v].pc = "updatepr"
    \/ UseBranch /\ job[v].pc = "ended" /\ job[v].ok = TRUE
Reviewed(v) == ToBeReviewed(v) => Decided(v)

LEMMA ReviewStep ==
  ASSUME IInv, Registry, [Next]_vars, NEW v \in Workers, Reviewed(v)
  PROVE  Reviewed(v)'
<1>1. ASSUME Passed(v) PROVE /\ BranchOf(v)' = BranchOf(v)
                             /\ ToBeReviewed(v)' <=> ToBeReviewed(v)
  BY <1>1 DEF Passed, Same, BranchOf, ToBeReviewed
<1>2. CASE Passed(v) /\ prs \subseteq prs'
  BY <1>1, <1>2 DEF Passed, Reviewed, Decided
<1>3. CASE UNCHANGED <<repo, job>>
  BY <1>2, <1>3 DEF Passed, Same, repo
<1>4. ASSUME NEW w \in Workers, WorkerStep(w) PROVE Reviewed(v)'
  <2>1. CASE v # w
    BY <1>2, <1>4, <2>1 DEF WorkerStep
  <2>2. CASE v = w
    <3>1. BranchOf(v)' = BranchOf(v)
      BY <1>4, <2>2 DEF WorkerStep, BranchOf
    <3>2. BuiltOn(job[v], base)
      BY OfTask
    <3>3. ToBeReviewed(v)' => ToBeReviewed(v) \/ BranchOf(v) \in prs'
      BY <1>4, <2>2, <3>2 DEF WorkerStep, ToBeReviewed, BuiltOn
    <3>4. Decided(v) => Decided(v)'
      BY <1>4, <2>2, <3>1 DEF WorkerStep, Decided
    <3> QED
      BY <3>1, <3>3, <3>4 DEF Reviewed, Decided
  <2> QED
    BY <2>1, <2>2
<1>5. ASSUME NEW c \in Calls, Schedule(c) PROVE Reviewed(v)'
  <2>1. UNCHANGED prs /\ (job'[v].pc = "start" \/ job'[v] = job[v])
    BY <1>5, ScheduleFacts DEF Schedule, repo
  <2>2. CASE job'[v].pc = "start"
    BY <2>2 DEF Reviewed, ToBeReviewed
  <2>3. CASE job'[v] = job[v]
    BY <1>2, <2>1, <2>3 DEF Passed, Same
  <2> QED
    BY <2>1, <2>2, <2>3
<1>6. ASSUME NEW w \in Workers, Cleanup(w) PROVE Reviewed(v)'
  <2>1. UNCHANGED prs /\ (job'[v] = NoJob \/ job'[v] = job[v])
    BY <1>6, OfTask DEF Cleanup, repo
  <2>2. CASE job'[v] = NoJob
    BY <2>2 DEF Reviewed, ToBeReviewed, NoJob
  <2>3. CASE job'[v] = job[v]
    BY <1>2, <2>1, <2>3 DEF Passed, Same
  <2> QED
    BY <2>1, <2>2, <2>3
<1>7. CASE People
  <2>1. /\ Passed(v)
        /\ Moved(v) /\ BranchOf(v) \in prs => BranchOf(v) \in prs' \/ job'[v].decided = TRUE
    BY <1>7, PeopleFacts
  <2>2. ToBeReviewed(v) => Moved(v)
    BY OfTask DEF ToBeReviewed, Moved, Carries, Built
  <2> QED
    BY <1>1, <2>1, <2>2 DEF Reviewed, Decided, Passed
<1> QED
  BY <1>3, <1>4, <1>5, <1>6, <1>7, StepKinds

(* A publish that reports a pull request is open for review, unless the    *)
(* reviewers have decided or a later task has replaced its commit since,   *)
(* whatever tasks of other authors, reviewers and lost answers do between  *)
(* the branch, the search and the pull request (_upsert_pr).               *)
THEOREM ReportIsReviewed == Spec => []ReportedIsUnderReview
<1> DEFINE Inv == \A v \in Workers : Reviewed(v)
<1>1. Init => Inv
  BY DEF Init, RepoInit, NoJob, Reviewed, ToBeReviewed
<1>2. IInv /\ Registry /\ Inv /\ [Next]_vars => Inv'
  BY ReviewStep
<1>3. IInv /\ Inv => ReportedIsUnderReview
  <2> SUFFICES ASSUME IInv, Inv, NEW w \in Workers,
                      UseBranch, job[w].pc = "ended", job[w].ok
               PROVE  BranchOf(w) \in prs \/ job[w].decided \/ job[w].replaced
    BY DEF ReportedIsUnderReview
  <2>1. job[w].ok = TRUE
    BY OfTask DEF Jobs
  <2>2. Decided(w)
    BY <2>1 DEF Reviewed, ToBeReviewed
  <2> QED
    BY <2>2 DEF Decided
<1> HIDE DEF Inv
<1> QED
  BY <1>1, <1>2, <1>3, Invariant, PTL DEF Spec
=============================================================================
