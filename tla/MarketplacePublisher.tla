------------------------- MODULE MarketplacePublisher -------------------------
(***************************************************************************)
(* GitHubMarketplacePublisher: commits that add or remove the directory of *)
(* a skill, put on a branch of their own with a pull request, or straight  *)
(* on the base branch.  Each worker runs one publish_skill or              *)
(* unpublish_skill at a time; one action is one request that others can    *)
(* see, together with the requests that only create Git objects.           *)
(*                                                                         *)
(* A directory stands for the SKILL.md in it, and a text for its contents. *)
(* (A commit adds and replaces files: one that the skill has lost since it *)
(* was published stays.)  Reviewers merge or close pull requests, and      *)
(* people push to the base branch, at any time.                            *)
(***************************************************************************)
EXTENDS Naturals

CONSTANTS
    Skills,      \* records [author, name]; name stands for plugin and skill
    Texts,       \* Texts[s]: what the author of s may write
    Workers,     \* calls of the publisher
    UseBranch,   \* pull requests, or commits on the base branch
    MaxCommits,  \* bound: people push and merge on the first of them only
    None

Names == {s.name : s \in Skills}
AnyText == UNION {Texts[s] : s \in Skills}

(* A skill is known by its author and its name.                            *)
ASSUME SkillsAssumption ==
    \A s, u \in Skills : s.author = u.author /\ s.name = u.name => s = u
ASSUME TextsAssumption == None \notin AnyText
ASSUME ModeAssumption == UseBranch \in BOOLEAN /\ MaxCommits \in Nat

VARIABLES
    base,      \* the base branch: number of its head, and its directories
    branches,  \* branches[b]: the commit branch b points at, or None
    prs,       \* branches with an open pull request
    job        \* job[w]: the call worker w runs

repo == <<base, branches, prs>>

(* Mutant: the branch of a publish is not scoped to the author.            *)
SharedBranch(s, publish) ==
    IF publish THEN [kind |-> "skill-publish", author |-> None, name |-> s.name]
    ELSE [kind |-> "skill-unpublish", author |-> None, name |-> s.name]

Branch(s, publish) ==
    IF publish THEN [kind |-> "skill-publish", author |-> s.author, name |-> s.name]
    ELSE [kind |-> "skill-unpublish", author |-> None, name |-> s.name]

BranchNames == [kind : {"skill-publish", "skill-unpublish"},
                author : {s.author : s \in Skills} \cup {None}, name : Names]

Directories == [Names -> AnyText \cup {None}]

(* A commit built on a head of the base branch.                            *)
Commits == [on : Nat, files : Directories]

ASSUME NoneAssumption == None \notin Workers /\ None \notin Commits

Pcs == {"idle", "start", "base", "move", "advance", "findpr", "openpr", "updatepr",
        "ended"}

(* decided, replaced: for the properties, what reviewers and other workers *)
(* have done to the commit since it was put on its branch.                 *)
Jobs == [pc       : Pcs,
         skill    : Skills \cup {None},
         publish  : BOOLEAN,
         text     : AnyText \cup {None},
         commit   : Commits \cup {None},
         ok       : BOOLEAN,
         decided  : BOOLEAN,
         replaced : BOOLEAN]

NoJob == [pc |-> "idle", skill |-> None, publish |-> FALSE, text |-> None,
          commit |-> None, ok |-> FALSE, decided |-> FALSE, replaced |-> FALSE]

RepoTypeOK ==
    /\ base \in [id : Nat, files : Directories]
    /\ branches \in [BranchNames -> Commits \cup {None}]
    /\ prs \subseteq BranchNames
    /\ job \in [Workers -> Jobs]

RepoInit ==
    /\ base \in [id : {0}, files : Directories]
    /\ branches = [b \in BranchNames |-> None]
    /\ prs = {}
    /\ job = [w \in Workers |-> NoJob]

BranchOf(w) == Branch(job[w].skill, job[w].publish)

(* The commit of w is on its branch.                                       *)
Moved(w) == job[w].pc \in {"findpr", "openpr", "updatepr", "ended"} /\ job[w].commit # None

Mark(b, w, decided) ==
    [v \in Workers |->
        IF v # w /\ Moved(v) /\ BranchOf(v) = b
        THEN IF decided THEN [job[v] EXCEPT !.decided = TRUE]
             ELSE [job[v] EXCEPT !.replaced = TRUE]
        ELSE job[v]]

-----------------------------------------------------------------------------
(* Requests of a worker.                                                   *)

End(w, ok) == job' = [job EXCEPT ![w].pc = "ended", ![w].ok = ok]

(* The head of the base branch and its tree; blobs, tree and commit.  A    *)
(* removal of a directory that is not there needs no commit.               *)
ResolveBase(w) ==
    LET n == job[w].skill.name IN
    /\ job[w].pc = "base"
    /\ IF ~job[w].publish /\ base.files[n] = None
       THEN End(w, FALSE)
       ELSE job' = [job EXCEPT
              ![w].pc = IF UseBranch THEN "move" ELSE "advance",
              ![w].commit = [on |-> base.id, files |-> [base.files EXCEPT ![n] = job[w].text]]]
    /\ UNCHANGED repo

(* Mutant: a branch that exists is taken to have an open pull request.     *)
MoveBranchExpectsPr(w) ==
    LET b == BranchOf(w) IN
    /\ job[w].pc = "move"
    /\ branches' = [branches EXCEPT ![b] = job[w].commit]
    /\ job' = [Mark(b, w, FALSE) EXCEPT
                 ![w].pc = IF branches[b] = None THEN "findpr" ELSE "updatepr"]
    /\ UNCHANGED <<base, prs>>

(* The branch is created, or forced to the commit if it exists.            *)
MoveBranch(w) ==
    LET b == BranchOf(w) IN
    /\ job[w].pc = "move"
    /\ branches' = [branches EXCEPT ![b] = job[w].commit]
    /\ job' = [Mark(b, w, FALSE) EXCEPT ![w].pc = "findpr"]
    /\ UNCHANGED <<base, prs>>

FindPr(w) ==
    /\ job[w].pc = "findpr"
    /\ job' = [job EXCEPT ![w].pc = IF BranchOf(w) \in prs THEN "updatepr" ELSE "openpr"]
    /\ UNCHANGED repo

(* GitHub refuses a second pull request for a branch, one for a branch     *)
(* that is gone, and one for commits that the base branch already has.     *)
OpenPr(w) ==
    LET b == BranchOf(w)
        n == job[w].skill.name IN
    /\ job[w].pc = "openpr"
    /\ \/ b \notin prs /\ branches[b] # None /\ End(w, TRUE) /\ prs' = prs \cup {b}
       \/ /\ b \notin prs /\ branches[b] # None => branches[b].files[n] = base.files[n]
          /\ End(w, FALSE)
          /\ UNCHANGED prs
    /\ UNCHANGED <<base, branches>>

(* Title and body only, and also of a pull request decided meanwhile.      *)
UpdatePr(w) ==
    /\ job[w].pc = "updatepr"
    /\ End(w, TRUE)
    /\ UNCHANGED repo

(* Mutant: the update of the base branch is forced.                        *)
AdvanceBaseForced(w) ==
    /\ job[w].pc = "advance"
    /\ End(w, TRUE)
    /\ base' = [id |-> base.id + 1, files |-> job[w].commit.files]
    /\ UNCHANGED <<branches, prs>>

(* Direct mode: a fast-forward, or an error if the base branch has moved.  *)
AdvanceBase(w) ==
    /\ job[w].pc = "advance"
    /\ IF base.id = job[w].commit.on
       THEN /\ End(w, TRUE)
            /\ base' = [id |-> base.id + 1, files |-> job[w].commit.files]
       ELSE End(w, FALSE) /\ UNCHANGED base
    /\ UNCHANGED <<branches, prs>>

(* A request fails and the error is logged; what a lost answer had already *)
(* changed is the state one step later.                                    *)
RequestFails(w) ==
    /\ job[w].pc \notin {"idle", "ended"}
    /\ End(w, FALSE)
    /\ UNCHANGED repo

Request(w) ==
    \/ ResolveBase(w)
    \/ MoveBranch(w)
    \/ FindPr(w)
    \/ OpenPr(w)
    \/ UpdatePr(w)
    \/ AdvanceBase(w)

-----------------------------------------------------------------------------
(* People.                                                                 *)

(* The merge takes over what the branch changes; the branch may be deleted *)
(* with it.                                                                *)
MergePr(b) ==
    /\ b \in prs
    /\ base.id < MaxCommits
    /\ base' = [id |-> base.id + 1,
                files |-> [base.files EXCEPT ![b.name] = branches[b].files[b.name]]]
    /\ prs' = prs \ {b}
    /\ \E c \in {None, branches[b]} : branches' = [branches EXCEPT ![b] = c]
    /\ job' = Mark(b, None, TRUE)

ClosePr(b) ==
    /\ b \in prs
    /\ prs' = prs \ {b}
    /\ job' = Mark(b, None, TRUE)
    /\ UNCHANGED <<base, branches>>

Push(n, c) ==
    /\ base.id < MaxCommits
    /\ base' = [id |-> base.id + 1, files |-> [base.files EXCEPT ![n] = c]]
    /\ UNCHANGED <<branches, prs, job>>

People ==
    \/ \E b \in BranchNames : MergePr(b) \/ ClosePr(b)
    \/ \E n \in Names, c \in AnyText \cup {None} : Push(n, c)
=============================================================================
