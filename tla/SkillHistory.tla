---------------------------- MODULE SkillHistory ----------------------------
(***************************************************************************)
(* One skill of one author, with its resources and scripts, as callers of  *)
(* the save and delete services see it: HistoryTrackingPluginSkillStore     *)
(* wraps MongoPluginSkillLoader and writes a history record after every    *)
(* change, best effort.  A script's text may go to the content store, for  *)
(* the live document and, as a copy of its own, for the record.            *)
(*                                                                         *)
(* A task is one service call in flight, in any pod.  One action is one    *)
(* round trip that others can see with the local code after it, except     *)
(* that a live script is saved or removed in one step (ScriptRegister is   *)
(* what ScriptContent implements) and that a record gets its timestamp as  *)
(* it is inserted: history is in the order of timestamps.  Every save      *)
(* writes a text of its own, which is the number of the call.  A call that *)
(* fails before it changed anything leaves the state that Crash leaves.    *)
(***************************************************************************)
EXTENDS Naturals, Sequences, FiniteSets

CONSTANTS
    Skill,          \* the skill document
    Resources,      \* resource documents of the skill
    Scripts,        \* script documents of the skill
    Folders,        \* folders a save may name; None is no folder
    States,         \* lifecycle states set_skill_state may write
    Tasks,          \* calls in flight
    MaxCalls,       \* bound: service calls in a behaviour
    WriteScripts,   \* live script text goes to the content store
    WriteHistory,   \* script text of records goes to the content store
    MayFail,        \* may round trips fail and callers die?
    None

Children == Resources \cup Scripts
Docs == {Skill} \cup Children

ASSUME DocsAssumption ==
    /\ Skill \notin Children
    /\ Resources \cap Scripts = {}
    /\ None \notin Docs
ASSUME ValuesAssumption ==
    /\ MaxCalls \in Nat
    /\ None \notin Nat
    /\ None \notin Folders
    /\ "draft" \in States
    /\ None \notin States
ASSUME FlagsAssumption == {WriteScripts, WriteHistory, MayFail} \subseteq BOOLEAN

Texts == 0..MaxCalls
Markers == {"live", "history"}
Refs == [doc : Scripts, text : Texts, id : Texts, marker : Markers]

build_script_content_ref(d, text, n) ==
    [doc |-> d, text |-> text, id |-> n, marker |-> "live"]

(* Mutant: the record shares the ref of the live document.                 *)
shared_history_content_ref(d, text, n) == build_script_content_ref(d, text, text)

build_script_history_content_ref(d, text, n) ==
    [doc |-> d, text |-> text, id |-> n, marker |-> "history"]

SkillDocs == [text : Texts, folder : Folders \cup {None}, state : States]
ChildDocs == [text : Texts, ref : Refs \cup {None}]
Kinds == {"created", "updated", "deleted", "state_changed"}

ASSUME RecordsAssumption ==
    /\ None \notin Refs
    /\ None \notin SkillDocs
    /\ None \notin ChildDocs
    /\ None \notin Kinds

VARIABLES
    skill,      \* the skill document, or None
    child,      \* child[d]: the resource or script document, or None
    content,    \* refs the content store holds; a ref tells its text
    history,    \* history records, oldest first
    task,       \* task[t]: the call t runs, or None
    calls,      \* calls begun
    (* What an observer of the whole system would remember.                *)
    excused,    \* documents whose last change has no true record, for cause
    stray       \* children saved while the skill was absent or going

store == <<skill, child, content>>
ghosts == <<excused, stray>>
vars == <<skill, child, content, history, task, calls, excused, stray>>

Doc(d) == IF d = Skill THEN skill ELSE child[d]
Exists(d) == Doc(d) # None
TextOf(d) == IF Exists(d) THEN Doc(d).text ELSE None

(* was and fresh are the observer's: the text just before the change, and  *)
(* whether nobody else wrote between the call's first look and its change. *)
Records == [doc   : Docs,
            kind  : Kinds,
            text  : Texts \cup {None},
            ref   : Refs \cup {None},
            state : States \cup {None},
            was   : Texts \cup {None},
            fresh : BOOLEAN]

Pcs == {"look", "folder", "write", "copy", "record", "list_resources",
        "list_scripts", "purge_resources", "purge_scripts", "purge_skill"}

(* listed: children delete_skill has enumerated and not recorded yet.      *)
(* wrote, raced: documents this call changed and has not recorded yet, and *)
(* those another call changed since this one looked at or changed them.    *)
Calls == [op     : {"save", "delete", "state", "delete_skill"},
          doc    : Docs,
          n      : Texts,
          pc     : Pcs,
          kind   : Kinds \cup {None},
          named  : BOOLEAN,
          create : BOOLEAN,
          folder : Folders \cup {None},
          text   : Texts \cup {None},
          ref    : Refs \cup {None},
          state  : States \cup {None},
          listed : SUBSET Children,
          wrote  : SUBSET Docs,
          raced  : SUBSET Docs,
          was    : Texts \cup {None},
          fresh  : BOOLEAN]

ASSUME CallsAssumption == None \notin Calls

TypeOK ==
    /\ skill \in SkillDocs \cup {None}
    /\ child \in [Children -> ChildDocs \cup {None}]
    /\ content \in SUBSET Refs
    /\ history \in Seq(Records)
    /\ task \in [Tasks -> Calls \cup {None}]
    /\ calls \in Texts
    /\ excused \in SUBSET Docs
    /\ stray \in SUBSET Children

(* Nothing yet, or a complete skill older than the history.                *)
Init ==
    /\ \/ /\ skill = None
          /\ child = [d \in Children |-> None]
          /\ excused = {}
       \/ /\ skill = [text |-> 0, folder |-> None, state |-> "draft"]
          /\ child = [d \in Children |-> [text |-> 0, ref |-> None]]
          /\ excused = Docs
    /\ content = {}
    /\ history = <<>>
    /\ task = [t \in Tasks |-> None]
    /\ calls = 0
    /\ stray = {}

-----------------------------------------------------------------------------
Started(op, d) ==
    [op |-> op, doc |-> d, n |-> calls + 1, pc |-> "write", kind |-> None,
     named |-> FALSE, create |-> FALSE, folder |-> None, text |-> None, ref |-> None,
     state |-> None, listed |-> {}, wrote |-> {}, raced |-> {}, was |-> None,
     fresh |-> TRUE]

Begin(t, call) ==
    /\ task[t] = None
    /\ calls < MaxCalls
    /\ calls' = calls + 1
    /\ task' = [task EXCEPT ![t] = call]

At(t, pc) == task[t] # None /\ task[t].pc = pc
Step(t, call) == task' = [task EXCEPT ![t] = call]

(* Task t changes the documents D and goes on as call, or returns.         *)
Change(t, D, call) ==
    task' = [u \in Tasks |->
                IF u = t
                THEN IF call = None THEN None
                     ELSE [call EXCEPT !.wrote = @ \cup D, !.raced = @ \ D]
                ELSE IF task[u] = None THEN None
                ELSE [task[u] EXCEPT !.raced = @ \cup D]]

(* After its change a script's record first puts a copy of the text.       *)
RecordPc(d, text) ==
    IF d \in Scripts /\ WriteHistory /\ text # None THEN "copy" ELSE "record"

-----------------------------------------------------------------------------
(* save_skill, save_resource, save_script.                                 *)

LabelFor(d) == IF Exists(d) THEN "updated" ELSE "created"

(* Mutant: the record of a save is not told what the look found.           *)
unlabelled(call) ==
    [call EXCEPT !.pc = IF call.doc = Skill /\ ~call.named THEN "folder" ELSE "write"]

Looked(call) ==
    [call EXCEPT !.kind = LabelFor(call.doc),
                 !.pc = IF call.doc = Skill /\ ~call.named THEN "folder" ELSE "write"]

(* Mutant: the service's skill_exists answer is not looked at.             *)
create_unchecked(t) ==
    /\ Begin(t, [Started("save", Skill) EXCEPT !.create = TRUE, !.pc = "look"])
    /\ UNCHANGED <<store, history, ghosts>>

(* SaveSkillService with update_if_exists=False asks before it saves.      *)
BeginCreate(t) ==
    /\ skill = None
    /\ Begin(t, [Started("save", Skill) EXCEPT !.create = TRUE, !.pc = "look"])
    /\ UNCHANGED <<store, history, ghosts>>

Look(t) ==
    /\ At(t, "look")
    /\ Step(t, Looked(task[t]))
    /\ UNCHANGED <<store, history, calls, ghosts>>

BeginSave(t, d, folder) ==
    /\ Begin(t, Looked([Started("save", d) EXCEPT !.folder = folder,
                                                  !.named = folder # None]))
    /\ UNCHANGED <<store, history, ghosts>>

BeginSaveSkill(t) == \E folder \in Folders \cup {None} : BeginSave(t, Skill, folder)

BeginSaveResource(t) == \E d \in Resources : BeginSave(t, d, None)

BeginSaveScript(t) == \E d \in Scripts : BeginSave(t, d, None)

FolderOfSkill == IF skill = None THEN None ELSE skill.folder

LookFolder(t) ==
    /\ At(t, "folder")
    /\ Step(t, [task[t] EXCEPT !.folder = FolderOfSkill, !.pc = "write"])
    /\ UNCHANGED <<store, history, calls, ghosts>>

SkillUpsert(call) ==
    [text |-> call.n, folder |-> call.folder,
     state |-> IF skill = None THEN "draft" ELSE skill.state]

LiveRef(call) ==
    IF call.doc \in Scripts /\ WriteScripts
    THEN build_script_content_ref(call.doc, call.n, call.n) ELSE None

(* Live content follows its document: the new ref is put before and the    *)
(* one it replaced is deleted after.                                       *)
Retire(d) == IF child[d] = None THEN content ELSE content \ {child[d].ref}
InStore(ref) == {ref} \ {None}

Deleting == \E u \in Tasks : task[u] # None /\ task[u].op = "delete_skill"

(* Ends the write of d by t; told is FALSE when the round trip raises      *)
(* although the server applied it.                                         *)
Written(t, d, told, done) ==
    /\ told \/ MayFail
    /\ Change(t, {d}, IF told THEN done ELSE None)
    /\ excused' = IF told THEN excused \ {d} ELSE excused \cup {d}
    /\ UNCHANGED <<history, calls>>

Saved(t, state) ==
    LET d == task[t].doc
    IN  [task[t] EXCEPT !.text = task[t].n, !.was = TextOf(d),
                        !.fresh = d \notin task[t].raced,
                        !.state = state, !.pc = RecordPc(d, task[t].n)]

Saving(t, D) == At(t, "write") /\ task[t].op = "save" /\ task[t].doc \in D

SaveSkill(t, told) ==
    /\ Saving(t, {Skill})
    /\ skill' = SkillUpsert(task[t])
    /\ Written(t, Skill, told, Saved(t, SkillUpsert(task[t]).state))
    /\ UNCHANGED <<child, content, stray>>

SaveChild(t, d, ref, told) ==
    /\ child' = [child EXCEPT ![d] = [text |-> task[t].n, ref |-> ref]]
    /\ stray' = IF skill = None \/ Deleting THEN stray \cup {d} ELSE stray
    /\ Written(t, d, told, Saved(t, None))
    /\ UNCHANGED skill

SaveResource(t, told) ==
    /\ Saving(t, Resources)
    /\ SaveChild(t, task[t].doc, None, told)
    /\ UNCHANGED content

(* An upsert that raises deletes the content that was put for it.          *)
SaveScript(t, told) ==
    LET ref == LiveRef(task[t])
    IN  /\ Saving(t, Scripts)
        /\ content' = IF told THEN Retire(task[t].doc) \cup InStore(ref) ELSE content
        /\ SaveChild(t, task[t].doc, ref, told)

-----------------------------------------------------------------------------
(* set_skill_state: one conditional update, then the record.               *)

(* Mutant: the record shows the state the skill was in before.             *)
record_old_state(state) == skill.state

StateInRecord(state) == state

SetState(t, state) ==
    /\ task[t] = None
    /\ calls < MaxCalls
    /\ skill # None
    /\ skill' = [skill EXCEPT !.state = state]
    /\ calls' = calls + 1
    /\ Change(t, {Skill},
              [Started("state", Skill) EXCEPT
                  !.kind = "state_changed", !.text = skill.text, !.was = skill.text,
                  !.state = StateInRecord(state), !.pc = "record"])
    /\ excused' = excused \ {Skill}
    /\ UNCHANGED <<child, content, history, stray>>

-----------------------------------------------------------------------------
(* delete_resource, delete_script: the text is read first, best effort.    *)

BestEffort(value) == {value} \cup (IF MayFail THEN {None} ELSE {})

BeginDelete(t, d) ==
    /\ \E text \in BestEffort(TextOf(d)) :
         Begin(t, [Started("delete", d) EXCEPT !.kind = "deleted", !.text = text])
    /\ UNCHANGED <<store, history, ghosts>>

BeginDeleteResource(t) == \E d \in Resources : BeginDelete(t, d)

BeginDeleteScript(t) == \E d \in Scripts : BeginDelete(t, d)

DeleteChild(t, D, told) ==
    LET d    == task[t].doc
        done == [task[t] EXCEPT !.was = TextOf(d),
                                !.fresh = d \notin task[t].raced /\ task[t].text # None,
                                !.pc = RecordPc(d, task[t].text)]
    IN  /\ At(t, "write")
        /\ task[t].op = "delete"
        /\ d \in D
        /\ Exists(d)
        /\ child' = [child EXCEPT ![d] = None]
        /\ content' = Retire(d)
        /\ stray' = stray \ {d}
        /\ Written(t, d, told, done)
        /\ UNCHANGED skill

DeleteResource(t, told) == DeleteChild(t, Resources, told)

DeleteScript(t, told) == DeleteChild(t, Scripts, told)

NothingToDelete(t) ==
    /\ At(t, "write")
    /\ task[t].op = "delete"
    /\ ~Exists(task[t].doc)
    /\ Step(t, None)
    /\ UNCHANGED <<store, history, calls, ghosts>>

-----------------------------------------------------------------------------
(* delete_skill: the wrapper reads the skill and lists its children, each  *)
(* best effort; the loader then deletes resources, scripts and the skill.  *)

BeginDeleteSkill(t) ==
    /\ \E text \in BestEffort(TextOf(Skill)) :
         Begin(t, [Started("delete_skill", Skill) EXCEPT
                      !.kind = "deleted", !.text = text, !.pc = "list_resources"])
    /\ UNCHANGED <<store, history, ghosts>>

Listing(S) ==
    {{d \in S : Exists(d)}} \cup (IF MayFail THEN {{}} ELSE {})

ListResources(t) ==
    /\ At(t, "list_resources")
    /\ \E S \in Listing(Resources) :
         Step(t, [task[t] EXCEPT !.listed = S, !.pc = "list_scripts"])
    /\ UNCHANGED <<store, history, calls, ghosts>>

(* Mutant: the skill document goes before its children.                    *)
list_then_delete_skill(t) ==
    /\ At(t, "list_scripts")
    /\ \E S \in Listing(Scripts) :
         Step(t, [task[t] EXCEPT !.listed = @ \cup S, !.pc = "purge_skill"])
    /\ UNCHANGED <<store, history, calls, ghosts>>

ListScripts(t) ==
    /\ At(t, "list_scripts")
    /\ \E S \in Listing(Scripts) :
         Step(t, [task[t] EXCEPT !.listed = @ \cup S, !.pc = "purge_resources"])
    /\ UNCHANGED <<store, history, calls, ghosts>>

(* Removes the children D in one round trip and goes on at pc.             *)
Purge(t, D, pc) ==
    LET gone == {d \in D : Exists(d)}
    IN  /\ child' = [d \in Children |-> IF d \in D THEN None ELSE child[d]]
        /\ content' = content \ {child[d].ref : d \in gone}
        /\ Change(t, gone, [task[t] EXCEPT !.pc = pc, !.raced = @ \ D])
        /\ excused' = (excused \ gone) \cup (gone \ task[t].listed)
        /\ stray' = stray \ D
        /\ UNCHANGED <<skill, history, calls>>

PurgeResources(t) ==
    /\ At(t, "purge_resources")
    /\ Purge(t, Resources, "purge_scripts")

(* With a content store, one script at a time until none is found.         *)
PurgeScript(t) ==
    /\ At(t, "purge_scripts")
    /\ \E d \in Scripts : Exists(d) /\ Purge(t, {d}, "purge_scripts")

PurgeEnds(t) ==
    /\ At(t, "purge_scripts")
    /\ \A d \in Scripts : ~Exists(d)
    /\ Step(t, [task[t] EXCEPT !.pc = "purge_skill", !.raced = @ \ Scripts])
    /\ UNCHANGED <<store, history, calls, ghosts>>

PurgeSkill(t) ==
    LET call == task[t]
    IN  /\ At(t, "purge_skill")
        /\ Exists(Skill)
        /\ skill' = None
        /\ Change(t, {Skill}, [call EXCEPT
                !.was = skill.text, !.pc = "record",
                !.fresh = Skill \notin call.raced /\ call.text # None])
        /\ excused' = excused \ {Skill}
        /\ UNCHANGED <<child, content, history, calls, stray>>

(* Without a skill document the children go all the same, unrecorded.      *)
PurgeNoSkill(t) ==
    /\ At(t, "purge_skill")
    /\ ~Exists(Skill)
    /\ excused' = excused \cup task[t].wrote
    /\ Step(t, None)
    /\ UNCHANGED <<store, history, calls, stray>>

-----------------------------------------------------------------------------
(* History records.                                                        *)

(* _externalize_script_snapshot; a put that raises may have stored.        *)
PutCopy(t) ==
    LET ref == build_script_history_content_ref(task[t].doc, task[t].text, task[t].n)
    IN  /\ At(t, "copy")
        /\ content' = content \cup {ref}
        /\ Step(t, [task[t] EXCEPT !.ref = ref, !.text = None, !.pc = "record"])
        /\ UNCHANGED <<skill, child, history, calls, ghosts>>

(* Mutant: the text is dropped although its copy could not be put.         *)
put_copy_fails_drops_text(t) ==
    /\ At(t, "copy")
    /\ MayFail
    /\ Step(t, [task[t] EXCEPT !.text = None, !.pc = "record"])
    /\ UNCHANGED <<store, history, calls, ghosts>>

PutCopyFails(t) ==
    LET ref == build_script_history_content_ref(task[t].doc, task[t].text, task[t].n)
    IN  /\ At(t, "copy")
        /\ MayFail
        /\ content' \in {content, content \cup {ref}}
        /\ Step(t, [task[t] EXCEPT !.pc = "record"])
        /\ UNCHANGED <<skill, child, history, calls, ghosts>>

RecordOf(call, d) ==
    IF d = call.doc
    THEN [doc |-> d, kind |-> call.kind, text |-> call.text, ref |-> call.ref,
          state |-> call.state, was |-> call.was, fresh |-> call.fresh]
    ELSE [doc |-> d, kind |-> "deleted", text |-> None, ref |-> None,
          state |-> None, was |-> None, fresh |-> FALSE]

(* Mutant: the copy is deleted when the insert raises.                     *)
drop_copy_of_failed_insert(ref) == content \ {ref}

(* The insert may raise after it was stored, so the copy stays.            *)
AfterFailedInsert(ref) == content

(* HistoryWriter._write: what fails is only logged.                        *)
Insert(record, stored, raised) ==
    /\ stored \/ raised
    /\ raised => MayFail
    /\ history' = IF stored THEN Append(history, record) ELSE history
    /\ content' = IF raised THEN AfterFailedInsert(record.ref) ELSE content

(* d stays without a true record if the insert was lost or came too late.  *)
Excused(t, stored, d) ==
    IF stored /\ d \notin task[t].raced THEN excused ELSE excused \cup {d}

(* Mutant: delete_skill records the skill alone.                           *)
no_child_records(t) == {}

ChildrenToRecord(t) ==
    IF task[t].listed \cap Resources # {} THEN task[t].listed \cap Resources
    ELSE task[t].listed

RecordChild(t, d) ==
    /\ At(t, "record")
    /\ d \in ChildrenToRecord(t)
    /\ \E stored, raised \in BOOLEAN :
         /\ Insert(RecordOf(task[t], d), stored, raised)
         /\ excused' = Excused(t, stored, d)
    /\ Step(t, [task[t] EXCEPT !.listed = @ \ {d}, !.wrote = @ \ {d}])
    /\ UNCHANGED <<skill, child, calls, stray>>

Record(t) ==
    LET d == task[t].doc
    IN  /\ At(t, "record")
        /\ ChildrenToRecord(t) = {}
        /\ \E stored, raised \in BOOLEAN :
             /\ Insert(RecordOf(task[t], d), stored, raised)
             /\ excused' = Excused(t, stored, d)
        /\ Step(t, None)
        /\ UNCHANGED <<skill, child, calls, stray>>

(* The caller is cancelled, its pod dies, or a round trip raises.          *)
Crash(t) ==
    /\ MayFail
    /\ task[t] # None
    /\ excused' = excused \cup task[t].wrote
    /\ Step(t, None)
    /\ UNCHANGED <<store, history, calls, stray>>

TaskStep(t) ==
    \/ BeginCreate(t)
    \/ BeginSaveSkill(t)
    \/ BeginSaveResource(t)
    \/ BeginSaveScript(t)
    \/ \E state \in States : SetState(t, state)
    \/ BeginDeleteResource(t)
    \/ BeginDeleteScript(t)
    \/ BeginDeleteSkill(t)
    \/ Look(t)
    \/ LookFolder(t)
    \/ \E told \in BOOLEAN :
         \/ SaveSkill(t, told)
         \/ SaveResource(t, told)
         \/ SaveScript(t, told)
         \/ DeleteResource(t, told)
         \/ DeleteScript(t, told)
    \/ NothingToDelete(t)
    \/ ListResources(t)
    \/ ListScripts(t)
    \/ PurgeResources(t)
    \/ PurgeScript(t)
    \/ PurgeEnds(t)
    \/ PurgeSkill(t)
    \/ PurgeNoSkill(t)
    \/ PutCopy(t)
    \/ PutCopyFails(t)
    \/ \E d \in Children : RecordChild(t, d)
    \/ Record(t)
    \/ Crash(t)

Next == \E t \in Tasks : TaskStep(t)

Spec == Init /\ [][Next]_vars

-----------------------------------------------------------------------------
(* _resolve_script_history_content, where a content store is configured.   *)
Resolved(record) ==
    IF record.text = None /\ record.ref \in content THEN record.ref.text ELSE record.text

RecordsOf(d) == {i \in DOMAIN history : history[i].doc = d}
Newest(d) == history[CHOOSE i \in RecordsOf(d) : \A j \in RecordsOf(d) : j <= i]

(* The copy a history record points at is there for good, whatever         *)
(* happens to the live script, to its content and to the insert of the     *)
(* record (_externalize_script_snapshot).                                  *)
HistoryCopiesKept ==
    \A i \in DOMAIN history : history[i].ref # None => Resolved(history[i]) # None

Describes(record, d) ==
    IF record.kind = "deleted" THEN ~Exists(d)
    ELSE /\ Exists(d)
         /\ Resolved(record) = TextOf(d)
         /\ d = Skill => record.state = skill.state

Unrecorded == UNION {task[t].wrote : t \in {u \in Tasks : task[u] # None}}

(* Once every change of a document is recorded, the newest record tells    *)
(* what the document is now, or that it is gone.  Excused are documents    *)
(* whose last change lost its record, was overtaken by another call        *)
(* between the change and its record, or was made by a deletion that had   *)
(* not listed the child or found no skill document.                        *)
HistoryFollowsDocuments ==
    \A d \in Docs \ (excused \cup Unrecorded) :
        IF RecordsOf(d) = {} THEN ~Exists(d) ELSE Describes(Newest(d), d)

(* A record is right about its own change unless another call wrote the    *)
(* document after this one's first look: "created" if and only if nothing  *)
(* was there, and a deletion keeps the text it removed.                    *)
RecordsTellTheChange ==
    \A i \in DOMAIN history :
        LET r == history[i]
        IN  r.fresh =>
              /\ r.kind = "created" => r.was = None
              /\ r.kind \in {"updated", "deleted"} => r.was # None
              /\ r.kind = "deleted" => Resolved(r) = r.was

(* A child is left without its skill only if it was saved while the skill  *)
(* was absent or being deleted: a deletion that stops half way leaves the  *)
(* skill, and can be called again (delete_skill removes children first).   *)
ChildrenGoWithSkill ==
    skill = None => \A d \in Children : Exists(d) => d \in stray

(* A save changes the folder only if its caller named one, and a save that *)
(* must not overwrite does not, unless another call wrote the skill after  *)
(* the save had looked (save_skill, SaveSkillService.execute).             *)
SavesRespectLooks ==
    [][\A t \in Tasks :
         (/\ At(t, "write")
          /\ task[t].doc = Skill
          /\ Skill \notin task[t].raced
          /\ skill # None
          /\ skill' # skill
          /\ ~At(t, "write")')
         => /\ ~task[t].create
            /\ ~task[t].named => skill'.folder = skill.folder]_vars
=============================================================================
