----------------------------- MODULE PublishSkill -----------------------------
(***************************************************************************)
(* PublishSkillService: a skill is submitted for review or withdrawn.  A   *)
(* call checks the skill's state, changes it, and leaves the change in the *)
(* marketplace to a background task of MarketplacePublisher.  A registry   *)
(* shared by all calls of the process holds one task for each skill; a new *)
(* call cancels the task it finds there.  Meanwhile users save and delete  *)
(* skills.  Calls and tasks run on one event loop and interleave at every  *)
(* await.                                                                  *)
(***************************************************************************)
EXTENDS MarketplacePublisher

CONSTANTS
    Calls,       \* executions of the service in flight
    MaxCalls,    \* bound: calls, saves and deletions in all
    MayFail      \* may calls of the store and of GitHub fail?

ASSUME ServiceAssumption == MaxCalls \in Nat /\ MayFail \in BOOLEAN

VARIABLES
    doc,         \* doc[s]: the skill in MongoDB, or None
    call,        \* call[c]: the execution c
    pending,     \* pending[s]: the registered task, or None
    cancelled,   \* tasks that have been asked to stop
    made,        \* calls and saves so far
    held         \* held[s]: for the properties, the texts doc[s] has had

service == <<doc, call, pending, cancelled, made, held>>
vars == <<repo, job, service>>

States == {"draft", "staging", "in_review", "published"}
SkillDocs == [text : AnyText, state : States]

CallStates ==
    [pc      : {"idle", "exists", "own", "shared", "autosave", "validate", "setstate",
                "schedule"},
     skill   : Skills \cup {None},
     publish : BOOLEAN,
     text    : AnyText \cup {None}]

NoCall == [pc |-> "idle", skill |-> None, publish |-> FALSE, text |-> None]

TypeOK ==
    /\ RepoTypeOK
    /\ doc \in [Skills -> SkillDocs \cup {None}]
    /\ call \in [Calls -> CallStates]
    /\ pending \in [Skills -> Workers \cup {None}]
    /\ cancelled \subseteq Workers
    /\ made \in 0..MaxCalls
    /\ held \in [Skills -> SUBSET AnyText]

Init ==
    /\ RepoInit
    /\ doc = [s \in Skills |-> None]
    /\ call = [c \in Calls |-> NoCall]
    /\ pending = [s \in Skills |-> None]
    /\ cancelled = {}
    /\ made = 0
    /\ held = [s \in Skills |-> {}]

-----------------------------------------------------------------------------
(* Users.                                                                  *)

(* Mutant: a new skill gets no state.                                      *)
SaveSkillNoDefault(s, text, state) ==
    /\ doc' = [doc EXCEPT ![s] =
                 [text |-> text,
                  state |-> IF state # None THEN state
                            ELSE IF doc[s] # None THEN doc[s].state ELSE None]]
    /\ held' = [held EXCEPT ![s] = @ \cup {text}]

(* save_skill keeps the state unless one is given; new skills are drafts.  *)
SaveSkill(s, text, state) ==
    /\ doc' = [doc EXCEPT ![s] =
                 [text |-> text,
                  state |-> IF state # None THEN state
                            ELSE IF doc[s] # None THEN doc[s].state ELSE "draft"]]
    /\ held' = [held EXCEPT ![s] = @ \cup {text}]

UserSaves(s) ==
    /\ made < MaxCalls
    /\ made' = made + 1
    /\ \E text \in Texts[s], state \in {None, "staging"} : SaveSkill(s, text, state)
    /\ UNCHANGED <<repo, job, call, pending, cancelled>>

UserDeletes(s) ==
    /\ made < MaxCalls
    /\ made' = made + 1
    /\ doc[s] # None
    /\ doc' = [doc EXCEPT ![s] = None]
    /\ UNCHANGED <<repo, job, call, pending, cancelled, held>>

-----------------------------------------------------------------------------
(* execute                                                                 *)

Step(c, pc) == call' = [call EXCEPT ![c].pc = pc]
Return(c) == call' = [call EXCEPT ![c] = NoCall]

Begin(c, s, publish) ==
    /\ made < MaxCalls
    /\ made' = made + 1
    /\ call[c].pc = "idle"
    /\ call' = [call EXCEPT ![c] =
                  [pc |-> IF publish THEN "exists" ELSE "setstate",
                   skill |-> s, publish |-> publish, text |-> None]]
    /\ UNCHANGED <<repo, job, doc, pending, cancelled, held>>

(* _ensure_exists_in_staging: a skill that its author does not have in     *)
(* MongoDB is looked up as get_skill_details_for_user does for a reader,   *)
(* one read after the other, and what is found is saved as the author's.   *)
CheckExists(c) ==
    /\ call[c].pc = "exists"
    /\ Step(c, IF doc[call[c].skill] # None THEN "validate" ELSE "own")
    /\ UNCHANGED <<repo, job, doc, pending, cancelled, made, held>>

Found(c, text) == call' = [call EXCEPT ![c].pc = "autosave", ![c].text = text]

(* The author's own skill: another call may have saved it by now.          *)
ReadOwn(c) ==
    LET s == call[c].skill IN
    /\ call[c].pc = "own"
    /\ IF doc[s] # None THEN Found(c, doc[s].text) ELSE Step(c, "shared")
    /\ UNCHANGED <<repo, job, doc, pending, cancelled, made, held>>

(* load_shared_snapshot(include_staging=True): any author's.               *)
SharedOfName(n) ==
    {u \in Skills : /\ u.name = n
                    /\ doc[u] # None
                    /\ doc[u].state \in {"published", "staging", "in_review"}}

(* Only a name that nobody shares is looked up in the snapshot of the      *)
(* marketplace, which is of any age: it has any text, or none.             *)
ReadShared(c) ==
    LET shared == SharedOfName(call[c].skill.name) IN
    /\ call[c].pc = "shared"
    /\ \/ \E u \in shared : Found(c, doc[u].text)
       \/ shared = {} /\ \E text \in AnyText : Found(c, text)
       \/ shared = {} /\ Return(c)
    /\ UNCHANGED <<repo, job, doc, pending, cancelled, made, held>>

AutoSave(c) ==
    /\ call[c].pc = "autosave"
    /\ SaveSkill(call[c].skill, call[c].text, "staging")
    /\ call' = [call EXCEPT ![c].pc = "validate", ![c].text = None]
    /\ UNCHANGED <<repo, job, pending, cancelled, made>>

Validate(c) ==
    LET d == doc[call[c].skill] IN
    /\ call[c].pc = "validate"
    /\ IF d # None /\ d.state = "staging" THEN Step(c, "setstate") ELSE Return(c)
    /\ UNCHANGED <<repo, job, doc, pending, cancelled, made, held>>

(* set_skill_state asks for nothing but that the skill exists.             *)
SetState(c) ==
    LET s == call[c].skill IN
    /\ call[c].pc = "setstate"
    /\ IF doc[s] = None THEN Return(c) /\ UNCHANGED doc
       ELSE /\ doc' = [doc EXCEPT ![s].state =
                         IF call[c].publish THEN "in_review" ELSE "draft"]
            /\ Step(c, "schedule")
    /\ UNCHANGED <<repo, job, pending, cancelled, made, held>>

(* The registered task is asked to stop and a new one takes its place.     *)
Schedule(c) ==
    LET s == call[c].skill IN
    /\ call[c].pc = "schedule"
    /\ \E w \in Workers :
         /\ job[w].pc = "idle"
         /\ job' = [job EXCEPT ![w] = [NoJob EXCEPT !.pc = "start", !.skill = s,
                                         !.publish = call[c].publish]]
         /\ pending' = [pending EXCEPT ![s] = w]
    /\ cancelled' = cancelled \cup
         {w \in Workers : w = pending[s] /\ job[w].pc # "ended"}
    /\ Return(c)
    /\ UNCHANGED <<repo, doc, made, held>>

(* The store raises, before or after a write, or the caller goes away.     *)
CallFails(c) ==
    /\ MayFail
    /\ call[c].pc # "idle"
    /\ Return(c)
    /\ UNCHANGED <<repo, job, doc, pending, cancelled, made, held>>

-----------------------------------------------------------------------------
(* _try_publish, the background task.                                      *)

(* What is published is what MongoDB has when the task gets to it.         *)
ReadSkill(w) ==
    LET d == doc[job[w].skill] IN
    /\ job[w].pc = "start"
    /\ IF job[w].publish /\ d = None THEN End(w, FALSE)
       ELSE job' = [job EXCEPT ![w].pc = "base",
                      ![w].text = IF job[w].publish THEN d.text ELSE None]
    /\ UNCHANGED <<repo, service>>

TaskSteps(w) ==
    \/ w \notin cancelled /\ ReadSkill(w)
    \/ w \notin cancelled /\ Request(w) /\ UNCHANGED service

TaskFails(w) == MayFail /\ RequestFails(w) /\ UNCHANGED service

(* CancelledError reaches the task at its await; a request that is under   *)
(* way may still be served.                                                *)
TaskCancelled(w) ==
    /\ w \in cancelled
    /\ job[w].pc # "ended"
    /\ \/ UNCHANGED repo /\ End(w, FALSE)
       \/ /\ job[w].pc = "move"
          /\ branches' = [branches EXCEPT ![BranchOf(w)] = job[w].commit]
          /\ job' = [Mark(BranchOf(w), w, FALSE) EXCEPT ![w].pc = "ended"]
          /\ UNCHANGED <<base, prs>>
       \/ /\ job[w].pc = "openpr"
          /\ branches[BranchOf(w)] # None
          /\ prs' = prs \cup {BranchOf(w)}
          /\ End(w, FALSE)
          /\ UNCHANGED <<base, branches>>
       \/ /\ job[w].pc = "advance"
          /\ base.id = job[w].commit.on
          /\ base' = [id |-> base.id + 1, files |-> job[w].commit.files]
          /\ End(w, FALSE)
          /\ UNCHANGED <<branches, prs>>
    /\ UNCHANGED service

(* Mutant: the callback removes whatever is registered for the skill.      *)
CleanupAny(w) ==
    /\ job[w].pc = "ended"
    /\ pending' = [pending EXCEPT ![job[w].skill] = None]
    /\ job' = [job EXCEPT ![w] = NoJob]
    /\ cancelled' = cancelled \ {w}
    /\ UNCHANGED <<repo, doc, call, made, held>>

(* Mutant: nothing is removed.                                             *)
CleanupNothing(w) ==
    /\ job[w].pc = "ended"
    /\ job' = [job EXCEPT ![w] = NoJob]
    /\ cancelled' = cancelled \ {w}
    /\ UNCHANGED <<repo, doc, call, pending, made, held>>

(* The done callback removes only the task's own entry.                    *)
Cleanup(w) ==
    /\ job[w].pc = "ended"
    /\ pending' = [s \in Skills |-> IF pending[s] = w THEN None ELSE pending[s]]
    /\ job' = [job EXCEPT ![w] = NoJob]
    /\ cancelled' = cancelled \ {w}
    /\ UNCHANGED <<repo, doc, call, made, held>>

-----------------------------------------------------------------------------
(* Nobody has to call.                                                     *)
Resting ==
    /\ made = MaxCalls
    /\ \A c \in Calls : call[c].pc = "idle"
    /\ \A w \in Workers : job[w].pc = "idle"
    /\ UNCHANGED vars

CallSteps(c) ==
    \/ CheckExists(c)
    \/ ReadOwn(c)
    \/ ReadShared(c)
    \/ AutoSave(c)
    \/ Validate(c)
    \/ SetState(c)
    \/ Schedule(c)

Next ==
    \/ \E s \in Skills : UserSaves(s) \/ UserDeletes(s)
    \/ \E c \in Calls :
         \/ \E s \in Skills, publish \in BOOLEAN : Begin(c, s, publish)
         \/ CallSteps(c)
         \/ CallFails(c)
    \/ \E w \in Workers :
         TaskSteps(w) \/ TaskFails(w) \/ TaskCancelled(w) \/ Cleanup(w)
    \/ People /\ UNCHANGED service
    \/ Resting

Spec == Init /\ [][Next]_vars

(* The event loop runs every call, task and callback that can go on.       *)
FairSpec ==
    /\ Spec
    /\ \A c \in Calls : WF_vars(CallSteps(c))
    /\ \A w \in Workers : WF_vars(TaskSteps(w)) /\ WF_vars(TaskCancelled(w)) /\ WF_vars(Cleanup(w))

-----------------------------------------------------------------------------
(* Properties                                                              *)

(* Every task that runs on, unasked to stop, is the registered one: no two *)
(* tasks of a skill work on the marketplace at once, and the next call     *)
(* finds the task it must cancel (execute, _cleanup).                      *)
RegistryHoldsLiveTask ==
    \A w \in Workers :
        job[w].pc \notin {"idle", "ended"} /\ w \notin cancelled =>
            pending[job[w].skill] = w

(* A commit of the publisher changes the directory of its skill and no     *)
(* other: a commit that somebody else has put on the base branch in the    *)
(* meantime is not undone (_update_branch without force).                  *)
CommitsTouchOwnDirectory ==
    [][\A w \in Workers : job[w].pc = "advance" /\ job'[w].pc = "ended" =>
         \A n \in Names : base'.files[n] # base.files[n] => n = job[w].skill.name]_vars

(* A branch under review carries a text that the document of the author it *)
(* is named after has had, although authors publish skills of one name     *)
(* (_branch_segment).  Another author's text gets there only if the        *)
(* service has saved it as his before (_ensure_exists_in_staging).         *)
BranchCarriesOwnDocument ==
    \A s \in Skills :
        LET b == Branch(s, TRUE) IN
        branches[b] # None => branches[b].files[s.name] \in held[s]

(* A publish that reports a pull request is open for review, unless the    *)
(* reviewers have decided or a later task has replaced its commit since    *)
(* (_upsert_pr after _create_branch).                                      *)
ReportedIsUnderReview ==
    \A w \in Workers :
        UseBranch /\ job[w].pc = "ended" /\ job[w].ok =>
            BranchOf(w) \in prs \/ job[w].decided \/ job[w].replaced

(* Entries of the registry do not pile up: each one is removed or handed   *)
(* to a newer task.                                                        *)
RegistryDrains ==
    \A s \in Skills, w \in Workers : pending[s] = w ~> pending[s] # w
=============================================================================
