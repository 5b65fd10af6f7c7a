---------------------------- MODULE SkillCatalog ----------------------------
(***************************************************************************)
(* What a reader gets from CompositeSkillLoader and the services over it,  *)
(* while users change their skills and a pod syncs the marketplace: the    *)
(* reader's own skills come before those the store shares, and these       *)
(* before the marketplace snapshot of the reader's pod.                    *)
(*                                                                         *)
(* A call reads one source after the other, one query or one look at the   *)
(* snapshot a step; each query sees the store at one time.  Of several     *)
(* documents that match, a query may give any first.  The changes of users *)
(* are one step here; SkillHistory has their steps.                        *)
(***************************************************************************)
EXTENDS SkillSync

CONSTANTS
    Home,           \* the pod that answers
    User,           \* the reader
    UserStates,     \* the states users put skills in
    Filters,        \* [plugin, staging, states] of a paged listing
    PageLimit,
    MaxTouched      \* bound: skills that change during one call

Disk == 0           \* in place of an author: the skill is the snapshot's
NotFound == <<0, 0, 0>>

ASSUME CatalogAssumption ==
    /\ Home \in Pods
    /\ User \in Authors \ {System}
    /\ Disk \notin Authors
    /\ UserStates \subseteq States
    /\ PageLimit \in Nat \ {0}
    /\ MaxTouched \in Nat
    /\ Filters \subseteq [plugin : Plugins \cup {None}, staging : BOOLEAN,
                          states : (SUBSET States) \cup {None}]

(* Keys are compared part by part; no skill has an empty name.             *)
ASSUME OrderAssumption ==
    /\ Authors \subseteq Nat
    /\ IsFiniteSet(Keys)
    /\ \A k \in Keys : k[2] # 0

ASSUME AbsentAssumption ==
    /\ None \notin States
    /\ None \notin [key : Keys, filter : Filters]

Names == {k[2] : k \in Keys}
OnDisk(s) == <<s[1], s[2], Disk>>
Entries == Keys \cup {OnDisk(s) : s \in Skills}

VARIABLES
    call        \* the call the reader is in, or None

vars == <<row, file, plugins, release, loaded, defs, pod, missed, call>>

Ops == {"open", "detail", "file", "list", "walk"}
CallPcs == {"own", "shared", "owner", "disk", "own_files", "system_files",
            "own_meta", "system_meta", "base", "details", "gather", "page",
            "done", "rejected", "failed"}

(* touched is the observer's: what has come, gone, changed its state or    *)
(* its files since the call began.                                         *)
Calls == [op : Ops, pc : CallPcs,
          plugin : Plugins \cup {None}, name : Names \cup {None}, file : Files \cup {None},
          staging : BOOLEAN,
          answer : Entries \cup {NotFound, None}, owner : Authors \cup {None},
          files : SUBSET Files, state : States \cup {None},
          names : SUBSET Names, base : SUBSET Entries,
          shared : (SUBSET Keys) \cup {None}, own : (SUBSET Keys) \cup {None},
          cursor : [key : Keys, filter : Filters] \cup {None},
          filter : Filters \cup {None},
          seen : SUBSET Keys, twice : BOOLEAN,
          touched : SUBSET Entries]

Fresh(op, pc, plugin, n) ==
    [op |-> op, pc |-> pc, plugin |-> plugin, name |-> n, file |-> None, staging |-> FALSE,
     answer |-> None, owner |-> None, files |-> {}, state |-> None,
     names |-> {}, base |-> {}, shared |-> None, own |-> None,
     cursor |-> None, filter |-> None, seen |-> {}, twice |-> FALSE, touched |-> {}]

CatalogTypeOK ==
    /\ TypeOK
    /\ call \in Calls \cup {None}

State(k) == IF row[k] = None THEN None ELSE row[k].state
Held(k) == {f \in Files : file[k][f] # None}
UserKeys == {k \in Keys : k[3] # System}

Init == SyncInit /\ call = None

(***************************************************************************)
(* Users.                                                                  *)
(***************************************************************************)
UserSaves(k) ==
    /\ row[k] = None
    /\ row' = [row EXCEPT ![k] = [state |-> "draft", text |-> Own]]
    /\ UNCHANGED file

UserSetsState(k, state) ==
    /\ row[k] # None /\ State(k) # state
    /\ row' = [row EXCEPT ![k].state = state]
    /\ UNCHANGED file

UserDeletes(k) ==
    /\ row[k] # None
    /\ row' = [row EXCEPT ![k] = None]
    /\ file' = [file EXCEPT ![k] = [f \in Files |-> None]]

UserSavesFile(k, f) ==
    /\ row[k] # None /\ file[k][f] = None
    /\ file' = [file EXCEPT ![k][f] = Own]
    /\ UNCHANGED row

UserDeletesFile(k, f) ==
    /\ file[k][f] # None
    /\ file' = [file EXCEPT ![k][f] = None]
    /\ UNCHANGED row

UserChange ==
    /\ \E k \in UserKeys :
          \/ UserSaves(k)
          \/ \E state \in UserStates : UserSetsState(k, state)
          \/ UserDeletes(k)
          \/ \E f \in Files : UserSavesFile(k, f) \/ UserDeletesFile(k, f)
    /\ UNCHANGED <<plugins, release, loaded, defs, pod, missed>>

(***************************************************************************)
(* Calls.                                                                  *)
(***************************************************************************)
LoadSkill ==
    \E q \in Plugins \cup {None}, n \in Names : call' = Fresh("open", "own", q, n)

GetSkillDetail ==
    \E q \in Plugins \cup {None}, n \in Names : call' = Fresh("detail", "own", q, n)

(* read_skill_resource, read_skill_script and run_skill_script.            *)
ReadFile ==
    \E q \in Plugins \cup {None}, n \in Names, f \in Files :
        call' = [Fresh("file", "own", q, n) EXCEPT !.file = f]

ListForUser ==
    \E staging \in BOOLEAN :
        call' = [Fresh("list", "base", None, None) EXCEPT !.staging = staging]

WalkPages == call' = Fresh("walk", "page", None, None)

(* The pod is up: it serves while a sync runs.                             *)
BeginCall ==
    /\ call = None
    /\ pod[Home].pc # "down"
    /\ LoadSkill \/ GetSkillDetail \/ ReadFile \/ ListForUser \/ WalkPages
    /\ UNCHANGED syncVars

Asked(k) == k[2] = call.name /\ call.plugin \in {None, k[1]}

(* get_skill_details and read_resource / read_script of one author.        *)
Theirs(author) == {k \in Keys : k[3] = author /\ Asked(k) /\ row[k] # None}
TheirFiles(author) ==
    {k \in Keys : k[3] = author /\ Asked(k) /\ call.file \in Held(k)}

(* Mutant: direct loads see published skills only.                         *)
published_only(staging) == {"published"}

(* load_shared_snapshot                                                    *)
shared_states(staging) ==
    IF staging THEN {"published", "staging", "in_review"} ELSE {"published"}

Shared(staging) == {k \in Keys : State(k) \in shared_states(staging)}

Goto(pc) == call' = [call EXCEPT !.pc = pc]

(* open and file end with the answer, detail goes on.                      *)
Answer(k) ==
    call' = [call EXCEPT !.answer = k,
                         !.pc = IF call.op = "detail" /\ k # NotFound
                                THEN "own_files" ELSE "done"]

ReadOwn ==
    /\ call.pc = "own"
    /\ LET found == IF call.op = "file" THEN TheirFiles(User) ELSE Theirs(User)
       IN  IF found = {} THEN Goto("shared") ELSE \E k \in found : Answer(k)
    /\ UNCHANGED <<loaded, defs>>

ReadShared ==
    /\ call.pc = "shared"
    /\ LET found == {k \in Shared(TRUE) : Asked(k)}
       IN  IF found = {} THEN Goto("disk")
           ELSE \E k \in found :
                   IF call.op = "file"
                   THEN call' = [call EXCEPT !.pc = "owner", !.owner = k[3]]
                   ELSE Answer(k)
    /\ UNCHANGED <<loaded, defs>>

(* Mutant: the file is looked for among the reader's own again.            *)
ReadOwnerOfReader ==
    /\ call.pc = "owner"
    /\ LET found == TheirFiles(User)
       IN  IF found = {} THEN Goto("disk") ELSE \E k \in found : Answer(k)
    /\ UNCHANGED <<loaded, defs>>

ReadOwner ==
    /\ call.pc = "owner"
    /\ LET found == TheirFiles(call.owner)
       IN  IF found = {} THEN Goto("disk") ELSE \E k \in found : Answer(k)
    /\ UNCHANGED <<loaded, defs>>

(* The snapshot knows names only.                                          *)
ReadDisk ==
    /\ call.pc = "disk"
    /\ Consult(Home)
    /\ LET found == {s \in loaded'[Home].skills : s[2] = call.name}
       IN  IF found = {} THEN Answer(NotFound) ELSE \E s \in found : Answer(OnDisk(s))

(***************************************************************************)
(* GetSkillDetailService, after the skill was found.                       *)
(***************************************************************************)
(* resolved_plugin_name                                                    *)
resolved_plugin(author) ==
    {k \in Keys : k[3] = author /\ k[1] = call.answer[1] /\ k[2] = call.name}

HeldBy(author) == UNION {Held(k) : k \in resolved_plugin(author)}

(* _union_with_system                                                      *)
ListOwnFiles ==
    /\ call.pc = "own_files"
    /\ call' = [call EXCEPT !.pc = "system_files", !.files = HeldBy(User)]
    /\ UNCHANGED <<loaded, defs>>

ListSystemFiles ==
    /\ call.pc = "system_files"
    /\ call' = [call EXCEPT !.pc = "own_meta", !.files = @ \cup HeldBy(System)]
    /\ UNCHANGED <<loaded, defs>>

(* _resolve_metadata                                                       *)
ReadMeta(author, next) ==
    LET found == {k \in resolved_plugin(author) : row[k] # None}
    IN  IF found = {} THEN next
        ELSE \E k \in found : call' = [call EXCEPT !.pc = "done", !.state = State(k)]

(* Mutant: the marketplace's folder and state win.                         *)
ReadSystemMetaFirst ==
    /\ call.pc = "own_meta"
    /\ ReadMeta(System, ReadMeta(User, Goto("system_meta")))
    /\ UNCHANGED <<loaded, defs>>

ReadOwnMeta ==
    /\ call.pc = "own_meta"
    /\ ReadMeta(User, Goto("system_meta"))
    /\ UNCHANGED <<loaded, defs>>

(* Mutant: a skill in neither place has a state of its own.                *)
ReadUnknownMeta ==
    /\ call.pc = "system_meta"
    /\ ReadMeta(System, call' = [call EXCEPT !.pc = "done", !.state = "unknown"])
    /\ UNCHANGED <<loaded, defs>>

ReadSystemMeta ==
    /\ call.pc = "system_meta"
    /\ ReadMeta(System, call' = [call EXCEPT !.pc = "done", !.state = "draft"])
    /\ UNCHANGED <<loaded, defs>>

(***************************************************************************)
(* list_all_summaries: _merged_snapshot.                                   *)
(***************************************************************************)
(* A snapshot has one skill of each name.                                  *)
ByName(K) == {T \in SUBSET K : \A k \in K : Cardinality({t \in T : t[2] = k[2]}) = 1}

(* _shared_details_by_name looks at the snapshot once for the names, and   *)
(* again for each of them.                                                 *)
LookUp(names, base) ==
    call' = [call EXCEPT !.pc = IF names = {} THEN "gather" ELSE "details",
                         !.names = names, !.base = base]

ListDisk ==
    /\ call.pc = "base"
    /\ Consult(Home)
    /\ LookUp({s[2] : s \in loaded'[Home].skills}, {})

(* SkillNotFoundError is not caught: the listing fails.                    *)
ReadDetails ==
    /\ call.pc = "details"
    /\ Consult(Home)
    /\ \E n \in call.names :
          LET found == {s \in loaded'[Home].skills : s[2] = n}
          IN  IF found = {} THEN Goto("failed")
              ELSE \E s \in found : LookUp(call.names \ {n}, call.base \cup {OnDisk(s)})

(* load_snapshot                                                           *)
OwnListed(staging) ==
    {k \in Keys : k[3] = User /\ row[k] # None /\ (staging \/ State(k) # "staging")}

ListShared ==
    /\ call.pc = "gather"
    /\ call.shared = None
    /\ \E K \in ByName(Shared(call.staging)) : call' = [call EXCEPT !.shared = K]
    /\ UNCHANGED <<loaded, defs>>

ListOwn ==
    /\ call.pc = "gather"
    /\ call.own = None
    /\ \E K \in ByName(OwnListed(call.staging)) : call' = [call EXCEPT !.own = K]
    /\ UNCHANGED <<loaded, defs>>

(* What is in low and not overlaid by an entry of high.                    *)
Overlay(low, high) == high \cup {e \in low : \A h \in high : h[2] # e[2]}

(* Mutant: shared skills win over the reader's own.                        *)
merge_shared_last(c) == Overlay(Overlay(c.base, c.own), c.shared)

Merged(c) == Overlay(Overlay(c.base, c.shared), c.own)

Merge ==
    /\ call.pc = "gather"
    /\ call.shared # None /\ call.own # None
    /\ Goto("done")
    /\ UNCHANGED <<loaded, defs>>

(***************************************************************************)
(* list_all_summaries_page: one call of the walk after the other.          *)
(***************************************************************************)
(* LISTING_SORT_KEYS                                                       *)
Before(k, j) ==
    \/ k[1] < j[1]
    \/ k[1] = j[1] /\ k[2] < j[2]
    \/ k[1] = j[1] /\ k[2] = j[2] /\ k[3] < j[3]

(* Mutant: the cursor does not tell authors of one skill apart.            *)
resumes_at_next_skill(cursor, k) ==
    cursor # None => \/ cursor.key[1] < k[1]
                     \/ cursor.key[1] = k[1] /\ cursor.key[2] < k[2]

Resumes(cursor, k) == cursor # None => Before(cursor.key, k)

Passes(k, f) ==
    /\ row[k] # None
    /\ f.plugin \in {None, k[1]}
    /\ f.states # None => State(k) \in f.states
    /\ f.staging \/ State(k) # "staging"

(* decode_cursor refuses a cursor that was issued for other filters.       *)
RejectCursor(f) ==
    /\ call.cursor # None /\ call.cursor.filter # f
    /\ Goto("rejected")

Page(f) ==
    /\ call.cursor # None => call.cursor.filter = f
    /\ LET after == {k \in Keys : Passes(k, f) /\ Resumes(call.cursor, k)}
           docs == {k \in after : Cardinality({j \in after : Before(j, k)}) < PageLimit}
           more == docs # after
           last == CHOOSE k \in docs : ~\E j \in docs : Before(k, j)
       IN  call' = [call EXCEPT
                      !.pc = IF more THEN "page" ELSE "done",
                      !.cursor = IF more THEN [key |-> last, filter |-> f] ELSE None,
                      !.filter = f,
                      !.seen = @ \cup docs,
                      !.twice = @ \/ docs \cap call.seen # {}]

ListPage ==
    /\ call.pc = "page"
    /\ \E f \in Filters : RejectCursor(f) \/ Page(f)
    /\ UNCHANGED <<loaded, defs>>

(***************************************************************************)
(* The specification.                                                      *)
(***************************************************************************)
CallStep ==
    /\ call # None
    /\ \/ ReadOwn \/ ReadShared \/ ReadOwner \/ ReadDisk
       \/ ListOwnFiles \/ ListSystemFiles \/ ReadOwnMeta \/ ReadSystemMeta
       \/ ListDisk \/ ReadDetails \/ ListShared \/ ListOwn \/ Merge
       \/ ListPage
    /\ UNCHANGED <<release, pod, missed>>
    /\ UNCHANGED stored

Over == call.pc \in {"done", "rejected", "failed"}

EndCall ==
    /\ call # None
    /\ Over
    /\ call' = None
    /\ UNCHANGED syncVars

Touched ==
    {k \in Keys : State(k)' # State(k) \/ Held(k)' # Held(k)}
        \cup {OnDisk(s) : s \in {t \in Skills :
                 (t \in loaded[Home].skills) # (t \in loaded'[Home].skills)}}

(* A call that has its answer ends, and so does one whose pod died.        *)
Watch ==
    /\ call # None => Cardinality(call.touched \cup Touched) <= MaxTouched
    /\ call' = IF call = None \/ pod'[Home].pc = "down" THEN None
               ELSE IF Over THEN None
               ELSE [call EXCEPT !.touched = @ \cup Touched]

Next ==
    \/ SyncNext /\ Watch
    \/ UserChange /\ Watch
    \/ BeginCall
    \/ CallStep
    \/ EndCall

Spec == Init /\ [][Next]_vars

(***************************************************************************)
(* Properties of answers.  A call has no snapshot of the sources, so each  *)
(* speaks of what stayed as it was while the call ran.                     *)
(***************************************************************************)
Done(ops) == call # None /\ call.pc = "done" /\ call.op \in ops
Stays(k) == k \in Keys \ call.touched
Sharable(k, staging) == State(k) \in IF staging THEN States \ {"draft"} ELSE {"published"}
Visible(k, staging) == k[3] = User \/ Sharable(k, staging)

(* composite_skill_loader.py:160: a skill that stays is found, in any      *)
(* state if it is the reader's, which then hides all others, and in any    *)
(* shared state else, which hides the snapshot's; what is found and stays  *)
(* is one the reader may see.                                              *)
OpensWhatStays ==
    Done({"open", "detail"}) =>
        LET asked == {k \in Keys : Asked(k) /\ row[k] # None /\ Stays(k) /\ Visible(k, TRUE)}
        IN  /\ call.answer[3] = Disk => asked = {}
            /\ call.answer = NotFound =>
                  \A s \in loaded[Home].skills :
                      s[2] = call.name => OnDisk(s) \in call.touched
            /\ (\E k \in asked : k[3] = User) => call.answer[3] = User
            /\ Stays(call.answer) => call.answer \in asked

(* composite_skill_loader.py:278: the owner of a shared skill is looked up *)
(* first and its file read after that.  A file of a skill that stays is    *)
(* found if no other skill shared its name, and with the plugin named, a   *)
(* file comes from a skill the reader may see.                             *)
ReadsFilesThatStay ==
    Done({"file"}) =>
        LET asked == {k \in Keys : Asked(k) /\ call.file \in Held(k) /\ row[k] # None
                                  /\ Stays(k) /\ Visible(k, TRUE)}
            alone(k) == \A j \in Keys \ {k} : Asked(j) => ~Sharable(j, TRUE) /\ Stays(j)
        IN  /\ call.answer = NotFound =>
                  \A k \in asked : k[3] # User /\ ~alone(k)
            /\ (\E k \in asked : k[3] = User) => call.answer[3] = User
            /\ call.plugin # None /\ Stays(call.answer) => call.answer \in asked

(* composite_skill_loader.py:573: a listing merges what it read at         *)
(* different times.  Each skill that stays and the reader may see is       *)
(* listed by name, an own one as the reader's, a shared one not as the     *)
(* snapshot's; what is listed and stays may be seen.  It fails only if the *)
(* loader has lost a skill whose details it still wanted (:568).           *)
ListsWhatStays ==
    /\ Done({"list"}) =>
          LET listed == Merged(call)
              mine == {k \in Keys : k[3] = User /\ State(k) # None
                                   /\ (State(k) = "staging" => call.staging)}
              others == {k \in Keys : Sharable(k, call.staging)}
          IN  /\ \A k \in mine \cup others : Stays(k) =>
                    \E e \in listed : /\ e[2] = k[2] /\ e[3] # Disk
                                     /\ k \in mine => e[3] = User
              /\ \A e \in listed : Stays(e) => e \in mine \cup others
              /\ \A s \in loaded[Home].skills :
                    OnDisk(s) \notin call.touched => \E e \in listed : e[2] = s[2]
    /\ call # None /\ call.pc = "failed" =>
          \E s \in Skills : s[2] \in call.names /\ OnDisk(s) \in call.touched

(* summary_page_cursor.py:5 "concurrent inserts and deletes never          *)
(* duplicate or skip a surviving row": the pages of a walk have each       *)
(* skill that stays and passes the filters, and none twice.                *)
PagesCover ==
    Done({"walk"}) =>
        /\ ~call.twice
        /\ \A k \in Keys : Stays(k) => (k \in call.seen <=> Passes(k, call.filter))

(* get_skill_detail_service.py:90: content, file names and state are read  *)
(* in five calls.  If the skill opened is the reader's or the              *)
(* marketplace's and nothing of that name moved, the state is that of the  *)
(* skill opened and its files are listed.                                  *)
DetailTellsOpened ==
    Done({"detail"}) /\ call.answer[3] \in {User, System}
        /\ (\A k \in Keys : k[2] = call.name => Stays(k))
        => State(call.answer) = call.state /\ Held(call.answer) \subseteq call.files

(* composite_skill_loader.py:160: all that is loaded for one user.         *)
AnswersTellWhatStays == OpensWhatStays /\ ReadsFilesThatStay /\ DetailTellsOpened
=============================================================================
