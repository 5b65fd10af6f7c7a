-------------------------- MODULE SkillHistoryProofs --------------------------
(***************************************************************************)
(* SkillHistory keeps its types, every copy a history record points at     *)
(* stays in the content store, and no child is left behind a deleted skill *)
(* but those saved while the skill was absent or being deleted; and the    *)
(* history tells what was done; for any documents, calls and flags.        *)
(*                                                                         *)
(* HistoryCopiesKept is not inductive: the state must say in addition that *)
(* the ref a call carries to its record is that of a copy already put      *)
(* (CallsFit), that the refs of live documents are of the other kind, so   *)
(* that retiring them deletes no copy (LiveRefsLive), and that a record    *)
(* with a ref has no text of its own (RecordsFit).                         *)
(***************************************************************************)
EXTENDS SkillHistory, TLAPS

(* The copies of texts that records point at, among the refs C.            *)
IsCopy(ref, C) == ref \in C /\ ref.marker = "history"

(* A call that fits its place in the code.                                 *)
Fits(call, C) ==
    /\ call \in Calls
    /\ call.pc # "look" => call.kind # None
    /\ call.pc # "record" => call.ref = None
    /\ call.pc = "copy" => call.doc \in Scripts /\ call.text # None
    /\ call.ref # None => call.text = None /\ IsCopy(call.ref, C)

CallsFit == \A t \in Tasks : task[t] # None => Fits(task[t], content)

LiveRefsLive ==
    \A d \in Children : child[d] # None /\ child[d].ref # None => child[d].ref.marker = "live"

RecordFits(record, C) ==
    record.ref # None => record.text = None /\ IsCopy(record.ref, C)

RecordsFit == \A i \in DOMAIN history : RecordFits(history[i], content)

IInv == TypeOK /\ CallsFit /\ LiveRefsLive /\ RecordsFit

CopiesKept == \A ref \in content : ref.marker = "history" => ref \in content'

-----------------------------------------------------------------------------
(* Records and calls that fit still do when the store loses no copy.       *)
LEMMA FitsOn ==
    ASSUME CopiesKept, NEW call, Fits(call, content)
    PROVE  Fits(call, content')
BY DEF Fits, IsCopy, CopiesKept

(* One task goes on as a call that fits, or returns.                       *)
LEMMA StepFits ==
    ASSUME IInv, CopiesKept, NEW t \in Tasks, NEW call,
           call # None => Fits(call, content'), Step(t, call)
    PROVE  task' \in [Tasks -> Calls \cup {None}] /\ CallsFit'
<1>1. task \in [Tasks -> Calls \cup {None}]
    BY DEF IInv, TypeOK
<1>2. call \in Calls \cup {None}
    BY DEF Fits
<1>3. task' = [task EXCEPT ![t] = call]
    BY DEF Step
<1>4. task' \in [Tasks -> Calls \cup {None}]
    BY <1>1, <1>2, <1>3
<1>5. ASSUME NEW u \in Tasks, task'[u] # None
      PROVE  Fits(task'[u], content')
    <2>1. CASE u = t
        BY <1>1, <1>3, <1>5, <2>1
    <2>2. CASE u # t
        <3>1. task'[u] = task[u]
            BY <1>1, <1>3, <2>2
        <3>2. Fits(task[u], content)
            BY <1>5, <3>1 DEF IInv, CallsFit
        <3>3. QED
            BY <3>1, <3>2, FitsOn
    <2>3. QED
        BY <2>1, <2>2
<1>6. QED
    BY <1>4, <1>5 DEF CallsFit

(* The bookkeeping of a change touches only what the observer remembers.   *)
LEMMA BookkeepingFits ==
    ASSUME NEW call, NEW C, Fits(call, C),
           NEW wrote \in SUBSET Docs, NEW raced \in SUBSET Docs
    PROVE  /\ Fits([call EXCEPT !.wrote = wrote, !.raced = raced], C)
           /\ Fits([call EXCEPT !.raced = raced], C)
<1>1. call \in Calls
    BY DEF Fits
<1>2. [call EXCEPT !.wrote = wrote, !.raced = raced] \in Calls
    BY <1>1 DEF Calls
<1>3. [call EXCEPT !.raced = raced] \in Calls
    BY <1>1 DEF Calls
<1>4. QED
    BY <1>1, <1>2, <1>3 DEF Fits, Calls

(* The same for a step that changes the documents D.                       *)
LEMMA ChangeFits ==
    ASSUME IInv, CopiesKept, NEW t \in Tasks, NEW call, NEW D \in SUBSET Docs,
           call # None => Fits(call, content'), Change(t, D, call)
    PROVE  task' \in [Tasks -> Calls \cup {None}] /\ CallsFit'
<1> DEFINE next(u) ==
        IF u = t
        THEN IF call = None THEN None
             ELSE [call EXCEPT !.wrote = @ \cup D, !.raced = @ \ D]
        ELSE IF task[u] = None THEN None
        ELSE [task[u] EXCEPT !.raced = @ \cup D]
<1>1. task' = [u \in Tasks |-> next(u)]
    BY DEF Change
<1>2. ASSUME NEW u \in Tasks
      PROVE  next(u) = None \/ Fits(next(u), content')
    <2>1. CASE u = t
        <3>1. CASE call = None
            BY <2>1, <3>1
        <3>2. CASE call # None
            <4>1. call.wrote \cup D \in SUBSET Docs /\ call.raced \ D \in SUBSET Docs
                BY <3>2 DEF Fits, Calls
            <4>2. QED
                BY <2>1, <3>2, <4>1, BookkeepingFits
        <3>3. QED
            BY <3>1, <3>2
    <2>2. CASE u # t
        <3>1. CASE task[u] = None
            BY <2>2, <3>1
        <3>2. CASE task[u] # None
            <4>1. Fits(task[u], content')
                BY <3>2, FitsOn DEF IInv, CallsFit
            <4>2. task[u].raced \cup D \in SUBSET Docs
                BY <4>1 DEF Fits, Calls
            <4>3. QED
                BY <2>2, <3>2, <4>1, <4>2, BookkeepingFits
        <3>3. QED
            BY <3>1, <3>2
    <2>3. QED
        BY <2>1, <2>2
<1> HIDE DEF next
<1>3. \A u \in Tasks : task'[u] = next(u)
    BY <1>1
<1>4. \A u \in Tasks : next(u) \in Calls \cup {None}
    BY <1>2 DEF Fits
<1>5. QED
    BY <1>1, <1>2, <1>3, <1>4 DEF CallsFit

-----------------------------------------------------------------------------
(* The invariant after a step that writes no record: the documents keep    *)
(* their types and their kind of refs, and the store loses no copy.        *)
DocumentsFit ==
    /\ skill \in SkillDocs \cup {None}
    /\ child \in [Children -> ChildDocs \cup {None}]
    /\ content \in SUBSET Refs
    /\ calls \in Texts
    /\ excused \in SUBSET Docs
    /\ stray \in SUBSET Children
    /\ LiveRefsLive

LEMMA NoRecord ==
    ASSUME IInv, CopiesKept, DocumentsFit', history' = history,
           task' \in [Tasks -> Calls \cup {None}], CallsFit'
    PROVE  IInv'
<1>1. \A i \in DOMAIN history : RecordFits(history[i], content')
    BY DEF IInv, RecordsFit, RecordFits, IsCopy, CopiesKept
<1>2. RecordsFit'
    BY <1>1 DEF RecordsFit
<1>3. TypeOK'
    BY DEF IInv, TypeOK, DocumentsFit
<1>4. QED
    BY <1>2, <1>3 DEF IInv, DocumentsFit

(* A step of one call that changes no document.                            *)
LEMMA CallGoesOn ==
    ASSUME IInv, NEW t \in Tasks, NEW call,
           call # None => Fits(call, content), Step(t, call),
           UNCHANGED <<store, history>>, calls' \in Texts,
           excused' \in SUBSET Docs, UNCHANGED stray
    PROVE  IInv'
<1>1. CopiesKept /\ content' = content
    BY DEF CopiesKept, store
<1>2. DocumentsFit'
    BY DEF IInv, TypeOK, DocumentsFit, LiveRefsLive, store
<1>3. QED
    BY <1>1, <1>2, StepFits, NoRecord

(* A new call changes nothing but the count.                               *)
LEMMA CallBegins ==
    ASSUME IInv, NEW t \in Tasks, NEW call, Fits(call, content), Begin(t, call),
           UNCHANGED <<store, history, ghosts>>
    PROVE  IInv'
<1>1. calls' \in Texts
    BY ValuesAssumption DEF Begin, IInv, TypeOK, Texts
<1>2. excused' \in SUBSET Docs /\ UNCHANGED stray
    BY DEF ghosts, IInv, TypeOK
<1>3. QED
    BY <1>1, <1>2, CallGoesOn DEF Begin, Step

LEMMA StartedFits ==
    ASSUME IInv, calls < MaxCalls,
           NEW op \in {"save", "delete", "state", "delete_skill"}, NEW d \in Docs
    PROVE  /\ Started(op, d) \in Calls
           /\ Started(op, d).pc = "write"
           /\ Started(op, d).ref = None
<1>1. calls + 1 \in Texts
    BY ValuesAssumption DEF IInv, TypeOK, Texts
<1>2. QED
    BY <1>1 DEF Started, Calls, Pcs

LEMMA DocTypes ==
    ASSUME IInv, NEW d \in Docs
    PROVE  /\ TextOf(d) \in Texts \cup {None}
           /\ Exists(d) => TextOf(d) \in Texts
<1>1. CASE d = Skill
    BY <1>1 DEF IInv, TypeOK, TextOf, Exists, Doc, SkillDocs
<1>2. CASE d # Skill
    BY <1>2 DEF IInv, TypeOK, TextOf, Exists, Doc, ChildDocs, Docs
<1>3. QED
    BY <1>1, <1>2

LEMMA PcsAre ==
    /\ "look" \in Pcs /\ "folder" \in Pcs /\ "write" \in Pcs
    /\ "copy" \in Pcs /\ "record" \in Pcs
    /\ "list_resources" \in Pcs /\ "list_scripts" \in Pcs
    /\ "purge_resources" \in Pcs /\ "purge_scripts" \in Pcs /\ "purge_skill" \in Pcs
BY DEF Pcs

-----------------------------------------------------------------------------
(* Saves.                                                                  *)
LEMMA LookedFits ==
    ASSUME NEW call \in Calls, call.ref = None, NEW C
    PROVE  Fits(Looked(call), C)
<1> DEFINE kind == LabelFor(call.doc)
           pc   == IF call.doc = Skill /\ ~call.named THEN "folder" ELSE "write"
<1>1. kind \in Kinds /\ kind # None
    BY RecordsAssumption DEF LabelFor, Kinds
<1>2. pc \in Pcs /\ pc \notin {"look", "copy", "record"}
    BY DEF Pcs
<1>3. Looked(call) = [call EXCEPT !.kind = kind, !.pc = pc]
    BY DEF Looked
<1> HIDE DEF kind, pc
<1>4. [call EXCEPT !.kind = kind, !.pc = pc] \in Calls
    BY <1>1, <1>2, ZenonT(60) DEF Calls
<1>5. QED
    BY <1>1, <1>2, <1>3, <1>4 DEF Fits, Calls

LEMMA BeginCreateKeeps ==
    ASSUME IInv, NEW t \in Tasks, BeginCreate(t)
    PROVE  IInv'
<1> DEFINE begun == Started("save", Skill)
           call == [begun EXCEPT !.create = TRUE, !.pc = "look"]
<1>1. Begin(t, call) /\ UNCHANGED <<store, history, ghosts>>
    BY DEF BeginCreate
<1>2. begun \in Calls /\ begun.ref = None
    <2>1. calls < MaxCalls
        BY <1>1 DEF Begin
    <2>2. Skill \in Docs
        BY DEF Docs
    <2>3. QED
        BY <2>1, <2>2, StartedFits
<1> HIDE DEF begun
<1>3. call \in Calls
    BY <1>2, PcsAre, ZenonT(60) DEF Calls
<1>4. call.pc = "look" /\ call.ref = None
    BY <1>2 DEF Calls
<1>5. Fits(call, content)
    BY <1>3, <1>4 DEF Fits
<1>6. QED
    BY <1>1, <1>5, CallBegins

LEMMA BeginSaveKeeps ==
    ASSUME IInv, NEW t \in Tasks, NEW d \in Docs,
           NEW folder \in Folders \cup {None}, BeginSave(t, d, folder)
    PROVE  IInv'
<1> DEFINE begun == Started("save", d)
           placed == [begun EXCEPT !.folder = folder]
           named == folder # None
           call == [placed EXCEPT !.named = named]
<1>1. Begin(t, Looked(call)) /\ UNCHANGED <<store, history, ghosts>>
    BY DEF BeginSave
<1>2. begun \in Calls /\ begun.ref = None
    <2>1. calls < MaxCalls
        BY <1>1 DEF Begin
    <2>2. QED
        BY <2>1, StartedFits
<1> HIDE DEF begun
<1>3. placed \in Calls /\ placed.ref = None
    BY <1>2 DEF Calls
<1>4. named \in BOOLEAN
    OBVIOUS
<1> HIDE DEF placed, named
<1>5. call \in Calls
    BY <1>3, <1>4 DEF Calls
<1>6. call.ref = None
    BY <1>3 DEF Calls
<1> HIDE DEF call
<1>7. QED
    BY <1>1, <1>5, <1>6, LookedFits, CallBegins

(* What every call in flight is known to be.                               *)
LEMMA InFlight ==
    ASSUME IInv, NEW t \in Tasks, NEW pc, At(t, pc)
    PROVE  /\ task[t] # None
           /\ task[t] \in Calls
           /\ task[t].pc = pc
           /\ Fits(task[t], content)
BY DEF IInv, CallsFit, Fits, At

LEMMA LookKeeps ==
    ASSUME IInv, NEW t \in Tasks, Look(t)
    PROVE  IInv'
<1>1. task[t] \in Calls /\ task[t].ref = None
    BY InFlight DEF Look, Fits
<1>2. Fits(Looked(task[t]), content)
    BY <1>1, LookedFits
<1>3. calls' \in Texts /\ excused' \in SUBSET Docs
    BY DEF IInv, TypeOK, Look, ghosts
<1>4. QED
    BY <1>2, <1>3, CallGoesOn DEF Look, ghosts

LEMMA LookFolderKeeps ==
    ASSUME IInv, NEW t \in Tasks, LookFolder(t)
    PROVE  IInv'
<1> DEFINE folder == FolderOfSkill
           call == [task[t] EXCEPT !.folder = folder, !.pc = "write"]
<1>1. task[t] \in Calls /\ task[t].ref = None /\ task[t].kind # None
    BY InFlight DEF LookFolder, Fits
<1>2. folder \in Folders \cup {None}
    BY DEF FolderOfSkill, IInv, TypeOK, SkillDocs
<1> HIDE DEF folder
<1>3. call \in Calls
    BY <1>1, <1>2, PcsAre, ZenonT(60) DEF Calls
<1>4. call.pc = "write" /\ call.ref = None /\ call.kind = task[t].kind
    BY <1>1 DEF Calls
<1>5. Fits(call, content)
    BY <1>1, <1>3, <1>4 DEF Fits
<1>6. Step(t, call)
    BY DEF LookFolder, folder
<1>7. calls' \in Texts /\ excused' \in SUBSET Docs
    BY DEF IInv, TypeOK, LookFolder, ghosts
<1>8. QED
    BY <1>5, <1>6, <1>7, CallGoesOn DEF LookFolder, ghosts

LEMMA TextsAreTexts == None \notin Texts
BY ValuesAssumption DEF Texts

LEMMA RecordPcIs ==
    ASSUME NEW d, NEW text
    PROVE  /\ RecordPc(d, text) \in {"copy", "record"}
           /\ RecordPc(d, text) = "copy" => d \in Scripts /\ text # None
BY DEF RecordPc

(* A call after its change, on its way to the record.                      *)
LEMMA SavedFits ==
    ASSUME IInv, NEW t \in Tasks, At(t, "write"),
           NEW state \in States \cup {None}, NEW C
    PROVE  Fits(Saved(t, state), C)
<1> DEFINE d     == task[t].doc
           text  == task[t].n
           was   == TextOf(d)
           fresh == d \notin task[t].raced
           pc    == RecordPc(d, task[t].n)
           c1    == [task[t] EXCEPT !.text = text, !.was = was]
           c2    == [c1 EXCEPT !.fresh = fresh]
           c3    == [c2 EXCEPT !.state = state, !.pc = pc]
<1>1. Saved(t, state) = c3
    BY DEF Saved
<1>2. task[t] \in Calls /\ task[t].ref = None /\ task[t].kind # None
    BY InFlight DEF Fits
<1>3. d \in Docs /\ text \in Texts /\ text # None
    BY <1>2, TextsAreTexts DEF Calls
<1>4. was \in Texts \cup {None}
    BY <1>3, DocTypes
<1>5. fresh \in BOOLEAN
    OBVIOUS
<1>6. pc \in Pcs /\ pc \in {"copy", "record"} /\ (pc = "copy" => d \in Scripts)
    BY RecordPcIs, PcsAre
<1> HIDE DEF text, was, fresh, pc
<1>7. /\ c1 \in Calls /\ c1.ref = None /\ c1.kind # None
      /\ c1.text = text /\ c1.doc = d
    BY <1>2, <1>3, <1>4, ZenonT(60) DEF Calls
<1> HIDE DEF c1, d
<1>8. c2 \in Calls
    BY <1>5, <1>7 DEF Calls
<1>9. c2.ref = None /\ c2.kind # None /\ c2.text = text /\ c2.doc = d
    BY <1>7 DEF Calls
<1> HIDE DEF c2
<1>10. c3 \in Calls
    BY <1>6, <1>8 DEF Calls
<1>11. c3.ref = None /\ c3.kind # None /\ c3.text = text /\ c3.doc = d /\ c3.pc = pc
    BY <1>8, <1>9 DEF Calls
<1> HIDE DEF c3
<1>12. QED
    BY <1>1, <1>3, <1>6, <1>10, <1>11 DEF Fits

(* A write by t of d, which leaves documents that fit and every copy.      *)
LEMMA WrittenKeeps ==
    ASSUME IInv, NEW t \in Tasks, NEW d \in Docs, NEW told \in BOOLEAN,
           NEW done, Fits(done, content'), CopiesKept, Written(t, d, told, done),
           skill' \in SkillDocs \cup {None},
           child' \in [Children -> ChildDocs \cup {None}],
           content' \in SUBSET Refs, stray' \in SUBSET Children, LiveRefsLive'
    PROVE  IInv'
<1> DEFINE next == IF told THEN done ELSE None
<1>1. Change(t, {d}, next) /\ UNCHANGED <<history, calls>>
    BY DEF Written
<1>2. excused' \in SUBSET Docs
    BY DEF Written, IInv, TypeOK
<1>3. next # None => Fits(next, content')
    OBVIOUS
<1> HIDE DEF next
<1>4. task' \in [Tasks -> Calls \cup {None}] /\ CallsFit'
    BY <1>1, <1>3, ChangeFits
<1>5. DocumentsFit'
    BY <1>1, <1>2 DEF DocumentsFit, IInv, TypeOK
<1>6. QED
    BY <1>1, <1>4, <1>5, NoRecord

LEMMA SaveSkillKeeps ==
    ASSUME IInv, NEW t \in Tasks, NEW told \in BOOLEAN, SaveSkill(t, told)
    PROVE  IInv'
<1> DEFINE doc == SkillUpsert(task[t])
<1>1. At(t, "write") /\ task[t] \in Calls
    BY InFlight DEF SaveSkill, Saving
<1>2. skill.state \in States \/ skill = None
    BY DEF IInv, TypeOK, SkillDocs
<1>3. doc \in SkillDocs
    BY <1>1, <1>2, ValuesAssumption DEF SkillUpsert, SkillDocs, Calls
<1>4. doc.state \in States \cup {None}
    BY <1>3 DEF SkillDocs
<1> HIDE DEF doc
<1>5. Fits(Saved(t, doc.state), content')
    BY <1>1, <1>4, SavedFits
<1>6. skill' = doc /\ Written(t, Skill, told, Saved(t, doc.state))
    BY DEF SaveSkill, doc
<1>7. UNCHANGED <<child, content, stray>>
    BY DEF SaveSkill
<1>8. CopiesKept /\ LiveRefsLive'
    BY <1>7 DEF CopiesKept, LiveRefsLive, IInv
<1>9. Skill \in Docs
    BY DEF Docs
<1>10. QED
    BY <1>3, <1>5, <1>6, <1>7, <1>8, <1>9, WrittenKeeps DEF IInv, TypeOK

LEMMA SaveChildKeeps ==
    ASSUME IInv, NEW t \in Tasks, NEW told \in BOOLEAN, At(t, "write"),
           NEW d \in Children, d = task[t].doc,
           NEW ref \in Refs \cup {None}, ref # None => ref.marker = "live",
           SaveChild(t, d, ref, told), CopiesKept, content' \in SUBSET Refs
    PROVE  IInv'
<1> DEFINE doc == [text |-> task[t].n, ref |-> ref]
<1>1. task[t] \in Calls
    BY InFlight
<1>2. doc \in ChildDocs /\ doc.ref = ref
    BY <1>1 DEF ChildDocs, Calls
<1>3. child' = [child EXCEPT ![d] = doc] /\ skill' = skill
    BY DEF SaveChild
<1> HIDE DEF doc
<1>4. child' \in [Children -> ChildDocs \cup {None}]
    BY <1>2, <1>3 DEF IInv, TypeOK
<1>5. LiveRefsLive'
    BY <1>2, <1>3 DEF IInv, TypeOK, LiveRefsLive
<1>6. stray' \in SUBSET Children
    BY DEF SaveChild, IInv, TypeOK
<1>7. None \in States \cup {None} /\ d \in Docs
    BY DEF Docs
<1>8. Fits(Saved(t, None), content')
    BY <1>7, SavedFits
<1>9. Written(t, d, told, Saved(t, None))
    BY DEF SaveChild
<1>10. QED
    BY <1>3, <1>4, <1>5, <1>6, <1>7, <1>8, <1>9, WrittenKeeps DEF IInv, TypeOK

LEMMA SaveResourceKeeps ==
    ASSUME IInv, NEW t \in Tasks, NEW told \in BOOLEAN, SaveResource(t, told)
    PROVE  IInv'
<1>1. At(t, "write") /\ task[t].doc \in Children
    BY DEF SaveResource, Saving, Children
<1>2. CopiesKept /\ content' \in SUBSET Refs
    BY DEF SaveResource, CopiesKept, IInv, TypeOK
<1>3. SaveChild(t, task[t].doc, None, told)
    BY DEF SaveResource
<1>4. QED
    BY <1>1, <1>2, <1>3, SaveChildKeeps

(* Retiring the ref of a live document deletes no copy.                    *)
LEMMA RetireKeepsCopies ==
    ASSUME IInv, NEW d \in Children
    PROVE  /\ Retire(d) \in SUBSET content
           /\ \A ref \in content : ref.marker = "history" => ref \in Retire(d)
<1>1. CASE child[d] = None
    BY <1>1 DEF Retire
<1>2. CASE child[d] # None /\ child[d].ref = None
    BY <1>2, RecordsAssumption DEF Retire, IInv, TypeOK
<1>3. CASE child[d] # None /\ child[d].ref # None
    BY <1>3 DEF Retire, IInv, LiveRefsLive
<1>4. QED
    BY <1>1, <1>2, <1>3

LEMMA LiveRefIs ==
    ASSUME NEW call \in Calls
    PROVE  /\ LiveRef(call) \in Refs \cup {None}
           /\ LiveRef(call) # None => LiveRef(call).marker = "live"
BY DEF LiveRef, build_script_content_ref, Refs, Markers, Calls

LEMMA SaveScriptKeeps ==
    ASSUME IInv, NEW t \in Tasks, NEW told \in BOOLEAN, SaveScript(t, told)
    PROVE  IInv'
<1> DEFINE ref == LiveRef(task[t])
           d   == task[t].doc
<1>1. At(t, "write") /\ d \in Children
    BY DEF SaveScript, Saving, Children
<1>2. ref \in Refs \cup {None} /\ (ref # None => ref.marker = "live")
    BY <1>1, InFlight, LiveRefIs
<1>3. /\ content' = IF told THEN Retire(d) \cup InStore(ref) ELSE content
      /\ SaveChild(t, d, ref, told)
    BY DEF SaveScript
<1> HIDE DEF ref, d
<1>4. InStore(ref) \in SUBSET Refs
    BY <1>2 DEF InStore
<1>5. content' \in SUBSET Refs /\ CopiesKept
    BY <1>1, <1>3, <1>4, RetireKeepsCopies DEF CopiesKept, IInv, TypeOK
<1>6. QED
    BY <1>1, <1>2, <1>3, <1>5, SaveChildKeeps DEF d

-----------------------------------------------------------------------------
(* State changes.                                                          *)
LEMMA SetStateKeeps ==
    ASSUME IInv, NEW t \in Tasks, NEW state \in States, SetState(t, state)
    PROVE  IInv'
<1> DEFINE begun == Started("state", Skill)
           text  == skill.text
           told  == [begun EXCEPT !.kind = "state_changed", !.text = text, !.was = text]
           call  == [told EXCEPT !.state = state, !.pc = "record"]
<1>1. Skill \in Docs
    BY DEF Docs
<1>2. begun \in Calls /\ begun.ref = None
    BY <1>1, StartedFits DEF SetState
<1>3. skill \in SkillDocs /\ text \in Texts
    BY DEF SetState, IInv, TypeOK, SkillDocs
<1>4. "state_changed" \in Kinds /\ "state_changed" # None
    BY RecordsAssumption DEF Kinds
<1>5. Change(t, {Skill}, call)
    BY DEF SetState, StateInRecord
<1> HIDE DEF begun, text
<1>6. told \in Calls /\ told.ref = None /\ told.kind = "state_changed"
    BY <1>2, <1>3, <1>4, ZenonT(60) DEF Calls
<1> HIDE DEF told
<1>7. call \in Calls
    BY <1>6, PcsAre, ZenonT(60) DEF Calls
<1>8. call.pc = "record" /\ call.ref = None /\ call.kind = "state_changed"
    BY <1>6 DEF Calls
<1> HIDE DEF call
<1>9. Fits(call, content)
    BY <1>4, <1>7, <1>8 DEF Fits
<1>10. CopiesKept /\ content' = content
    BY DEF SetState, CopiesKept
<1>11. task' \in [Tasks -> Calls \cup {None}] /\ CallsFit'
    BY <1>1, <1>5, <1>9, <1>10, ChangeFits
<1>12. skill' \in SkillDocs
    BY <1>3 DEF SetState, SkillDocs
<1>13. calls' \in Texts
    BY ValuesAssumption DEF SetState, IInv, TypeOK, Texts
<1>14. DocumentsFit'
    BY <1>12, <1>13 DEF SetState, DocumentsFit, IInv, TypeOK, LiveRefsLive
<1>15. QED
    BY <1>10, <1>11, <1>14, NoRecord DEF SetState

-----------------------------------------------------------------------------
(* Deletions of a resource or a script.                                    *)
LEMMA BeginDeleteKeeps ==
    ASSUME IInv, NEW t \in Tasks, NEW d \in Children, BeginDelete(t, d)
    PROVE  IInv'
<1>1. PICK text \in BestEffort(TextOf(d)) :
         Begin(t, [Started("delete", d) EXCEPT !.kind = "deleted", !.text = text])
    BY DEF BeginDelete
<1> DEFINE begun == Started("delete", d)
           call  == [begun EXCEPT !.kind = "deleted", !.text = text]
<1>2. d \in Docs
    BY DEF Docs
<1>3. begun \in Calls /\ begun.ref = None /\ begun.pc = "write"
    <2>1. calls < MaxCalls
        BY <1>1 DEF Begin
    <2>2. QED
        BY <1>2, <2>1, StartedFits
<1>4. text \in Texts \cup {None}
    BY <1>2, DocTypes DEF BestEffort
<1>5. "deleted" \in Kinds /\ "deleted" # None
    BY RecordsAssumption DEF Kinds
<1>6. Begin(t, call)
    BY <1>1
<1> HIDE DEF begun
<1>7. call \in Calls
    BY <1>3, <1>4, <1>5, ZenonT(60) DEF Calls
<1>8. call.pc = "write" /\ call.ref = None /\ call.kind = "deleted"
    BY <1>3 DEF Calls
<1> HIDE DEF call
<1>9. Fits(call, content)
    BY <1>5, <1>7, <1>8 DEF Fits
<1>10. QED
    BY <1>6, <1>9, CallBegins DEF BeginDelete

(* A call that has deleted its child, on its way to the record.            *)
Deleted(t) ==
    [task[t] EXCEPT !.was = TextOf(task[t].doc),
                    !.fresh = task[t].doc \notin task[t].raced /\ task[t].text # None,
                    !.pc = RecordPc(task[t].doc, task[t].text)]

LEMMA DeletedFits ==
    ASSUME IInv, NEW t \in Tasks, At(t, "write"), task[t].doc \in Children, NEW C
    PROVE  Fits(Deleted(t), C) /\ Deleted(t).pc \in {"copy", "record"}
<1> DEFINE d     == task[t].doc
           was   == TextOf(d)
           fresh == d \notin task[t].raced /\ task[t].text # None
           pc    == RecordPc(d, task[t].text)
           c1    == [task[t] EXCEPT !.was = was]
           c2    == [c1 EXCEPT !.fresh = fresh]
           done  == [c2 EXCEPT !.pc = pc]
<1>1. /\ task[t] \in Calls /\ task[t].ref = None /\ task[t].kind # None
      /\ d \in Children /\ d \in Docs
    BY InFlight DEF Fits, Docs
<1>2. Deleted(t) = done
    BY DEF Deleted
<1>3. was \in Texts \cup {None}
    BY <1>1, DocTypes
<1>4. fresh \in BOOLEAN
    OBVIOUS
<1>5. pc \in Pcs /\ pc \in {"copy", "record"}
          /\ (pc = "copy" => d \in Scripts /\ task[t].text # None)
    BY RecordPcIs, PcsAre
<1> HIDE DEF was, fresh, pc
<1>6. /\ c1 \in Calls /\ c1.ref = None /\ c1.kind # None
      /\ c1.text = task[t].text /\ c1.doc = d
    BY <1>1, <1>3 DEF Calls
<1> HIDE DEF c1, d
<1>7. c2 \in Calls
    BY <1>4, <1>6 DEF Calls
<1>8. c2.ref = None /\ c2.kind # None /\ c2.text = task[t].text /\ c2.doc = d
    BY <1>6 DEF Calls
<1> HIDE DEF c2
<1>9. done \in Calls
    BY <1>5, <1>7 DEF Calls
<1>10. /\ done.ref = None /\ done.kind # None /\ done.text = task[t].text
       /\ done.doc = d /\ done.pc = pc
    BY <1>7, <1>8 DEF Calls
<1> HIDE DEF done
<1>11. QED
    BY <1>2, <1>5, <1>9, <1>10 DEF Fits

LEMMA DeleteChildKeeps ==
    ASSUME IInv, NEW t \in Tasks, NEW told \in BOOLEAN, NEW D \in SUBSET Children,
           DeleteChild(t, D, told)
    PROVE  IInv'
<1> DEFINE d == task[t].doc
<1>1. At(t, "write") /\ d \in Children /\ d \in Docs
    BY DEF DeleteChild, Docs
<1>2. /\ child' = [child EXCEPT ![d] = None]
      /\ content' = Retire(d)
      /\ stray' = stray \ {d}
      /\ skill' = skill
      /\ Written(t, d, told, Deleted(t))
    BY DEF DeleteChild, Deleted
<1>3. Fits(Deleted(t), content')
    BY <1>1, DeletedFits
<1>4. CopiesKept /\ content' \in SUBSET Refs
    BY <1>1, <1>2, RetireKeepsCopies DEF CopiesKept, IInv, TypeOK
<1>5. child' \in [Children -> ChildDocs \cup {None}] /\ LiveRefsLive'
    BY <1>1, <1>2 DEF IInv, TypeOK, LiveRefsLive
<1>6. QED
    BY <1>1, <1>2, <1>3, <1>4, <1>5, WrittenKeeps DEF IInv, TypeOK

LEMMA NothingToDeleteKeeps ==
    ASSUME IInv, NEW t \in Tasks, NothingToDelete(t)
    PROVE  IInv'
<1>1. Step(t, None) /\ UNCHANGED <<store, history, stray>>
    BY DEF NothingToDelete, ghosts
<1>2. calls' \in Texts /\ excused' \in SUBSET Docs
    BY DEF NothingToDelete, ghosts, IInv, TypeOK
<1>3. QED
    BY <1>1, <1>2, CallGoesOn

-----------------------------------------------------------------------------
(* delete_skill.                                                           *)
LEMMA BeginDeleteSkillKeeps ==
    ASSUME IInv, NEW t \in Tasks, BeginDeleteSkill(t)
    PROVE  IInv'
<1>1. PICK text \in BestEffort(TextOf(Skill)) :
         Begin(t, [Started("delete_skill", Skill) EXCEPT
                      !.kind = "deleted", !.text = text, !.pc = "list_resources"])
    BY DEF BeginDeleteSkill
<1> DEFINE begun == Started("delete_skill", Skill)
           told  == [begun EXCEPT !.kind = "deleted", !.text = text]
           call  == [told EXCEPT !.pc = "list_resources"]
<1>2. Skill \in Docs
    BY DEF Docs
<1>3. begun \in Calls /\ begun.ref = None
    <2>1. calls < MaxCalls
        BY <1>1 DEF Begin
    <2>2. QED
        BY <1>2, <2>1, StartedFits
<1>4. text \in Texts \cup {None}
    BY <1>2, DocTypes DEF BestEffort
<1>5. "deleted" \in Kinds /\ "deleted" # None
    BY RecordsAssumption DEF Kinds
<1>6. Begin(t, call)
    BY <1>1
<1> HIDE DEF begun
<1>7. told \in Calls /\ told.ref = None /\ told.kind = "deleted"
    BY <1>3, <1>4, <1>5, ZenonT(60) DEF Calls
<1> HIDE DEF told
<1>8. call \in Calls
    BY <1>7, PcsAre DEF Calls
<1>9. call.pc = "list_resources" /\ call.ref = None /\ call.kind = "deleted"
    BY <1>7 DEF Calls
<1> HIDE DEF call
<1>10. Fits(call, content)
    BY <1>5, <1>8, <1>9 DEF Fits
<1>11. QED
    BY <1>6, <1>10, CallBegins DEF BeginDeleteSkill

(* A deletion goes on to pc, with nothing but its listing changed.         *)
LEMMA ListedFits ==
    ASSUME NEW call \in Calls, call.ref = None, call.kind # None, NEW C,
           NEW S \in SUBSET Children, NEW raced \in SUBSET Docs,
           NEW pc \in Pcs, pc # "copy"
    PROVE  /\ Fits([call EXCEPT !.listed = S, !.pc = pc], C)
           /\ Fits([call EXCEPT !.pc = pc, !.raced = raced], C)
<1> DEFINE told   == [call EXCEPT !.listed = S]
           known  == [call EXCEPT !.raced = raced]
           listed == [call EXCEPT !.listed = S, !.pc = pc]
           moved  == [call EXCEPT !.pc = pc, !.raced = raced]
<1>a. told \in Calls
    BY DEF Calls
<1>b. known \in Calls
    BY DEF Calls
<1>c. listed = [told EXCEPT !.pc = pc] /\ moved = [known EXCEPT !.pc = pc]
    BY DEF Calls
<1> HIDE DEF told, known
<1>1. listed \in Calls /\ moved \in Calls
    BY <1>a, <1>b, <1>c DEF Calls
<1>2. listed.pc = pc /\ listed.ref = None /\ listed.kind # None
    BY DEF Calls
<1>3. moved.pc = pc /\ moved.ref = None /\ moved.kind # None
    BY DEF Calls
<1> HIDE DEF listed, moved
<1>4. Fits(listed, C) /\ Fits(moved, C)
    BY <1>1, <1>2, <1>3 DEF Fits
<1>5. QED
    BY <1>4 DEF listed, moved

LEMMA ListingIs ==
    ASSUME NEW D \in SUBSET Children, NEW S \in Listing(D)
    PROVE  S \in SUBSET Children
BY DEF Listing

LEMMA ListResourcesKeeps ==
    ASSUME IInv, NEW t \in Tasks, ListResources(t)
    PROVE  IInv'
<1>1. PICK S \in Listing(Resources) :
         Step(t, [task[t] EXCEPT !.listed = S, !.pc = "list_scripts"])
    BY DEF ListResources
<1>2. S \in SUBSET Children
    BY ListingIs DEF Children
<1>3. task[t] \in Calls /\ task[t].ref = None /\ task[t].kind # None
    BY InFlight DEF ListResources, Fits
<1>4. Fits([task[t] EXCEPT !.listed = S, !.pc = "list_scripts"], content)
    BY <1>2, <1>3, ListedFits, PcsAre
<1>5. calls' \in Texts /\ excused' \in SUBSET Docs
    BY DEF ListResources, ghosts, IInv, TypeOK
<1>6. QED
    BY <1>1, <1>4, <1>5, CallGoesOn DEF ListResources, ghosts

LEMMA ListScriptsKeeps ==
    ASSUME IInv, NEW t \in Tasks, ListScripts(t)
    PROVE  IInv'
<1>1. PICK S \in Listing(Scripts) :
         Step(t, [task[t] EXCEPT !.listed = @ \cup S, !.pc = "purge_resources"])
    BY DEF ListScripts
<1>2. S \in SUBSET Children
    BY ListingIs DEF Children
<1>3. task[t] \in Calls /\ task[t].ref = None /\ task[t].kind # None
    BY InFlight DEF ListScripts, Fits
<1>4. task[t].listed \cup S \in SUBSET Children
    BY <1>2, <1>3 DEF Calls
<1>5. Fits([task[t] EXCEPT !.listed = @ \cup S, !.pc = "purge_resources"], content)
    BY <1>3, <1>4, ListedFits, PcsAre
<1>6. calls' \in Texts /\ excused' \in SUBSET Docs
    BY DEF ListScripts, ghosts, IInv, TypeOK
<1>7. QED
    BY <1>1, <1>5, <1>6, CallGoesOn DEF ListScripts, ghosts

LEMMA PurgeKeeps ==
    ASSUME IInv, NEW t \in Tasks, NEW D \in SUBSET Children,
           NEW from, At(t, from), from # "record", from # "look",
           NEW pc \in Pcs, pc # "copy", Purge(t, D, pc)
    PROVE  IInv'
<1> DEFINE gone == {d \in D : Exists(d)}
           call == [task[t] EXCEPT !.pc = pc, !.raced = @ \ D]
<1>1. task[t] \in Calls /\ task[t].ref = None /\ task[t].kind # None
    BY InFlight DEF Fits
<1>2. gone \in SUBSET Docs /\ task[t].raced \ D \in SUBSET Docs
    BY <1>1 DEF Docs, Calls
<1>3. Fits(call, content')
    BY <1>1, <1>2, ListedFits
<1>4. /\ child' = [d \in Children |-> IF d \in D THEN None ELSE child[d]]
      /\ content' = content \ {child[d].ref : d \in gone}
      /\ Change(t, gone, call)
      /\ excused' = (excused \ gone) \cup (gone \ task[t].listed)
      /\ stray' = stray \ D
      /\ UNCHANGED <<skill, history, calls>>
    BY DEF Purge
<1> HIDE DEF call
<1>5. CopiesKept
    <2>1. ASSUME NEW ref \in content, ref.marker = "history", NEW d \in gone
          PROVE  ref # child[d].ref
        <3>1. d \in Children /\ child[d] # None
            BY DocsAssumption DEF Exists, Doc
        <3>2. CASE child[d].ref = None
            BY <3>2, RecordsAssumption DEF IInv, TypeOK
        <3>3. CASE child[d].ref # None
            BY <2>1, <3>1, <3>3 DEF IInv, LiveRefsLive
        <3>4. QED
            BY <3>2, <3>3
    <2>2. QED
        BY <1>4, <2>1 DEF CopiesKept
<1>6. task' \in [Tasks -> Calls \cup {None}] /\ CallsFit'
    BY <1>2, <1>3, <1>4, <1>5, ChangeFits
<1>7. DocumentsFit'
    <2>1. child' \in [Children -> ChildDocs \cup {None}] /\ LiveRefsLive'
        BY <1>4 DEF IInv, TypeOK, LiveRefsLive
    <2>2. QED
        BY <1>2, <1>4, <2>1 DEF DocumentsFit, IInv, TypeOK
<1>8. QED
    BY <1>4, <1>5, <1>6, <1>7, NoRecord

LEMMA PurgeEndsKeeps ==
    ASSUME IInv, NEW t \in Tasks, PurgeEnds(t)
    PROVE  IInv'
<1> DEFINE call == [task[t] EXCEPT !.pc = "purge_skill", !.raced = @ \ Scripts]
<1>1. task[t] \in Calls /\ task[t].ref = None /\ task[t].kind # None
    BY InFlight DEF PurgeEnds, Fits
<1>2. task[t].raced \ Scripts \in SUBSET Docs
    BY <1>1 DEF Calls
<1>3. Fits(call, content)
    BY <1>1, <1>2, ListedFits, PcsAre
<1>4. Step(t, call)
    BY DEF PurgeEnds
<1> HIDE DEF call
<1>5. calls' \in Texts /\ excused' \in SUBSET Docs
    BY DEF PurgeEnds, ghosts, IInv, TypeOK
<1>6. QED
    BY <1>3, <1>4, <1>5, CallGoesOn DEF PurgeEnds, ghosts

LEMMA PurgeSkillKeeps ==
    ASSUME IInv, NEW t \in Tasks, PurgeSkill(t)
    PROVE  IInv'
<1> DEFINE text  == skill.text
           fresh == Skill \notin task[t].raced /\ task[t].text # None
           told  == [task[t] EXCEPT !.was = text, !.pc = "record"]
           call  == [told EXCEPT !.fresh = fresh]
<1>1. task[t] \in Calls /\ task[t].ref = None /\ task[t].kind # None
    BY InFlight DEF PurgeSkill, Fits
<1>2. text \in Texts
    BY DEF PurgeSkill, Exists, Doc, IInv, TypeOK, SkillDocs
<1>3. fresh \in BOOLEAN /\ Skill \in Docs
    BY DEF Docs
<1>4. /\ Change(t, {Skill}, call)
      /\ excused' = excused \ {Skill}
      /\ skill' = None
      /\ UNCHANGED <<child, content, history, calls, stray>>
    BY DEF PurgeSkill
<1> HIDE DEF text, fresh
<1>5. told \in Calls /\ told.ref = None /\ told.kind # None /\ told.pc = "record"
    BY <1>1, <1>2, PcsAre, ZenonT(60) DEF Calls
<1> HIDE DEF told
<1>6. call \in Calls
    BY <1>3, <1>5 DEF Calls
<1>7. call.ref = None /\ call.kind # None /\ call.pc = "record"
    BY <1>5 DEF Calls
<1> HIDE DEF call
<1>8. Fits(call, content')
    BY <1>6, <1>7 DEF Fits
<1>9. CopiesKept
    BY <1>4 DEF CopiesKept
<1>10. task' \in [Tasks -> Calls \cup {None}] /\ CallsFit'
    BY <1>3, <1>4, <1>8, <1>9, ChangeFits
<1>11. DocumentsFit'
    BY <1>4 DEF DocumentsFit, IInv, TypeOK, LiveRefsLive
<1>12. QED
    BY <1>4, <1>9, <1>10, <1>11, NoRecord

(* A call that ends excuses what it has not recorded.                      *)
LEMMA EndKeeps ==
    ASSUME IInv, NEW t \in Tasks, task[t] # None, Step(t, None),
           excused' = excused \cup task[t].wrote,
           UNCHANGED <<store, history, calls, stray>>
    PROVE  IInv'
<1>1. task[t].wrote \in SUBSET Docs
    BY DEF IInv, CallsFit, Fits, Calls
<1>2. calls' \in Texts /\ excused' \in SUBSET Docs
    BY <1>1 DEF IInv, TypeOK
<1>3. QED
    BY <1>2, CallGoesOn

LEMMA PurgeNoSkillKeeps ==
    ASSUME IInv, NEW t \in Tasks, PurgeNoSkill(t)
    PROVE  IInv'
BY EndKeeps DEF PurgeNoSkill, At

LEMMA CrashKeeps ==
    ASSUME IInv, NEW t \in Tasks, Crash(t)
    PROVE  IInv'
BY EndKeeps DEF Crash

-----------------------------------------------------------------------------
(* Copies and records.                                                     *)
LEMMA CopyIs ==
    ASSUME IInv, NEW t \in Tasks, At(t, "copy"),
           NEW ref, ref = build_script_history_content_ref(task[t].doc, task[t].text, task[t].n)
    PROVE  ref \in Refs /\ ref.marker = "history"
<1>1. /\ task[t] \in Calls /\ task[t].doc \in Scripts
      /\ task[t].text # None
    BY InFlight DEF Fits
<1>2. task[t].text \in Texts /\ task[t].n \in Texts
    BY <1>1 DEF Calls
<1>3. QED
    BY <1>1, <1>2 DEF build_script_history_content_ref, Refs, Markers

(* Putting a copy, or failing to, changes no document.                     *)
LEMMA PutKeeps ==
    ASSUME IInv, NEW t \in Tasks, NEW call, Fits(call, content'), Step(t, call),
           CopiesKept, content' \in SUBSET Refs,
           UNCHANGED <<skill, child, history, calls, ghosts>>
    PROVE  IInv'
<1>1. task' \in [Tasks -> Calls \cup {None}] /\ CallsFit'
    BY StepFits
<1>2. DocumentsFit'
    BY DEF DocumentsFit, IInv, TypeOK, LiveRefsLive, ghosts
<1>3. QED
    BY <1>1, <1>2, NoRecord

LEMMA PutCopyKeeps ==
    ASSUME IInv, NEW t \in Tasks, PutCopy(t)
    PROVE  IInv'
<1> DEFINE ref == build_script_history_content_ref(task[t].doc, task[t].text, task[t].n)
           call == [task[t] EXCEPT !.ref = ref, !.text = None, !.pc = "record"]
<1>1. At(t, "copy") /\ content' = content \cup {ref} /\ Step(t, call)
    BY DEF PutCopy
<1>2. ref \in Refs /\ ref.marker = "history"
    BY <1>1, CopyIs
<1>3. task[t] \in Calls /\ task[t].kind # None
    BY <1>1, InFlight DEF Fits
<1> HIDE DEF ref
<1>4. call \in Calls
    BY <1>2, <1>3, PcsAre DEF Calls
<1>5. call.pc = "record" /\ call.kind # None /\ call.ref = ref /\ call.text = None
    BY <1>3 DEF Calls
<1> HIDE DEF call
<1>6. Fits(call, content')
    BY <1>1, <1>2, <1>4, <1>5 DEF Fits, IsCopy
<1>7. CopiesKept /\ content' \in SUBSET Refs
    BY <1>1, <1>2 DEF CopiesKept, IInv, TypeOK
<1>8. QED
    BY <1>1, <1>6, <1>7, PutKeeps DEF PutCopy

LEMMA PutCopyFailsKeeps ==
    ASSUME IInv, NEW t \in Tasks, PutCopyFails(t)
    PROVE  IInv'
<1> DEFINE ref == build_script_history_content_ref(task[t].doc, task[t].text, task[t].n)
           call == [task[t] EXCEPT !.pc = "record"]
<1>1. /\ At(t, "copy")
      /\ content' = content \/ content' = content \cup {ref}
      /\ Step(t, call)
    BY DEF PutCopyFails
<1>2. ref \in Refs
    BY <1>1, CopyIs
<1>3. task[t] \in Calls /\ task[t].ref = None /\ task[t].kind # None
    BY <1>1, InFlight DEF Fits
<1> HIDE DEF ref
<1>4. call \in Calls
    BY <1>3, PcsAre DEF Calls
<1>5. call.pc = "record" /\ call.kind # None /\ call.ref = None
    BY <1>3 DEF Calls
<1> HIDE DEF call
<1>6. Fits(call, content')
    BY <1>4, <1>5 DEF Fits
<1>7. CopiesKept /\ content' \in SUBSET Refs
    BY <1>1, <1>2 DEF CopiesKept, IInv, TypeOK
<1>8. QED
    BY <1>1, <1>6, <1>7, PutKeeps DEF PutCopyFails

(* A record that fits is inserted, or not, and its call goes on.           *)
LEMMA InsertKeeps ==
    ASSUME IInv, NEW t \in Tasks, NEW call, call # None => Fits(call, content),
           Step(t, call), NEW record \in Records, RecordFits(record, content),
           NEW stored \in BOOLEAN, NEW raised \in BOOLEAN,
           Insert(record, stored, raised), excused' \in SUBSET Docs,
           UNCHANGED <<skill, child, calls, stray>>
    PROVE  IInv'
<1>1. content' = content /\ CopiesKept
    BY DEF Insert, AfterFailedInsert, CopiesKept
<1>2. history' = history \/ history' = Append(history, record)
    BY DEF Insert
<1>3. task' \in [Tasks -> Calls \cup {None}] /\ CallsFit'
    BY <1>1, StepFits
<1>4. history \in Seq(Records)
    BY DEF IInv, TypeOK
<1>5. history' \in Seq(Records) /\ RecordsFit'
    <2>1. CASE history' = history
        BY <1>1, <1>4, <2>1 DEF RecordsFit, IInv
    <2>2. CASE history' = Append(history, record)
        <3>1. history' \in Seq(Records)
            BY <1>4, <2>2
        <3>2. ASSUME NEW i \in DOMAIN history'
              PROVE  RecordFits(history'[i], content)
            <4>1. CASE i \in DOMAIN history
                <5>1. history'[i] = history[i]
                    BY <1>4, <2>2, <4>1
                <5>2. QED
                    BY <4>1, <5>1 DEF IInv, RecordsFit
            <4>2. CASE i \notin DOMAIN history
                <5>1. history'[i] = record
                    BY <1>4, <2>2, <3>2, <4>2
                <5>2. QED
                    BY <5>1
            <4>3. QED
                BY <4>1, <4>2
        <3>3. QED
            BY <1>1, <3>1, <3>2 DEF RecordsFit
    <2>3. QED
        BY <1>2, <2>1, <2>2
<1>6. TypeOK' /\ LiveRefsLive'
    BY <1>1, <1>3, <1>5 DEF IInv, TypeOK, LiveRefsLive
<1>7. QED
    BY <1>3, <1>5, <1>6 DEF IInv

LEMMA ExcusedIs ==
    ASSUME IInv, NEW t \in Tasks, NEW stored \in BOOLEAN, NEW d \in Docs
    PROVE  Excused(t, stored, d) \in SUBSET Docs
BY DEF Excused, IInv, TypeOK

LEMMA RecordChildKeeps ==
    ASSUME IInv, NEW t \in Tasks, NEW d \in Children, RecordChild(t, d)
    PROVE  IInv'
<1> DEFINE record == RecordOf(task[t], d)
           call   == [task[t] EXCEPT !.listed = @ \ {d}, !.wrote = @ \ {d}]
<1>1. PICK stored \in BOOLEAN, raised \in BOOLEAN :
         /\ Insert(record, stored, raised)
         /\ excused' = Excused(t, stored, d)
    BY DEF RecordChild
<1>2. Step(t, call) /\ At(t, "record") /\ UNCHANGED <<skill, child, calls, stray>>
    BY DEF RecordChild
<1>3. Fits(task[t], content) /\ task[t] \in Calls /\ task[t].pc = "record"
    BY <1>2, InFlight
<1>4. call \in Calls
    BY <1>3 DEF Calls
<1>5. /\ call.pc = "record" /\ call.kind = task[t].kind
      /\ call.ref = task[t].ref /\ call.text = task[t].text
    BY <1>3 DEF Calls
<1> HIDE DEF call
<1>6. Fits(call, content)
    BY <1>3, <1>4, <1>5 DEF Fits
<1>7. record \in Records /\ RecordFits(record, content)
    <2>1. d \in Docs /\ "deleted" \in Kinds
        BY DEF Docs, Kinds
    <2>2. CASE d = task[t].doc
        BY <1>3, <2>1, <2>2 DEF RecordOf, Records, RecordFits, Fits, Calls
    <2>3. CASE d # task[t].doc
        BY <2>1, <2>3 DEF RecordOf, Records, RecordFits
    <2>4. QED
        BY <2>2, <2>3
<1> HIDE DEF record
<1>8. excused' \in SUBSET Docs
    BY <1>1, ExcusedIs DEF Docs
<1>9. QED
    BY <1>1, <1>2, <1>6, <1>7, <1>8, InsertKeeps

LEMMA RecordKeeps ==
    ASSUME IInv, NEW t \in Tasks, Record(t)
    PROVE  IInv'
<1> DEFINE d      == task[t].doc
           record == RecordOf(task[t], d)
<1>1. PICK stored \in BOOLEAN, raised \in BOOLEAN :
         /\ Insert(record, stored, raised)
         /\ excused' = Excused(t, stored, d)
    BY DEF Record
<1>2. Step(t, None) /\ At(t, "record") /\ UNCHANGED <<skill, child, calls, stray>>
    BY DEF Record
<1>3. Fits(task[t], content) /\ task[t] \in Calls /\ task[t].pc = "record"
    BY <1>2, InFlight
<1>4. record \in Records /\ RecordFits(record, content) /\ d \in Docs
    BY <1>3 DEF RecordOf, Records, RecordFits, Fits, Calls
<1> HIDE DEF record, d
<1>5. excused' \in SUBSET Docs
    BY <1>1, <1>4, ExcusedIs
<1>6. QED
    BY <1>1, <1>2, <1>4, <1>5, InsertKeeps

-----------------------------------------------------------------------------
LEMMA InitHolds == Init => IInv
<1> SUFFICES ASSUME Init PROVE IInv
    OBVIOUS
<1>1. 0 \in Texts
    BY ValuesAssumption DEF Texts
<1>2. TypeOK
    BY <1>1, ValuesAssumption DEF Init, TypeOK, SkillDocs, ChildDocs
<1>3. CallsFit /\ LiveRefsLive /\ RecordsFit
    BY DEF Init, CallsFit, LiveRefsLive, RecordsFit
<1>4. QED
    BY <1>2, <1>3 DEF IInv

LEMMA NextKeeps ==
    ASSUME IInv, [Next]_vars
    PROVE  IInv'
<1>1. CASE UNCHANGED vars
    BY <1>1 DEF vars, IInv, TypeOK, CallsFit, LiveRefsLive, RecordsFit
<1>2. ASSUME NEW t \in Tasks, TaskStep(t)
      PROVE  IInv'
    <2>1. CASE BeginCreate(t)
        BY <2>1, BeginCreateKeeps
    <2>2. CASE BeginSaveSkill(t) \/ BeginSaveResource(t) \/ BeginSaveScript(t)
        BY <2>2, BeginSaveKeeps DEF BeginSaveSkill, BeginSaveResource, BeginSaveScript,
                                    Docs, Children
    <2>3. CASE \E state \in States : SetState(t, state)
        BY <2>3, SetStateKeeps
    <2>4. CASE BeginDeleteResource(t) \/ BeginDeleteScript(t)
        BY <2>4, BeginDeleteKeeps DEF BeginDeleteResource, BeginDeleteScript, Children
    <2>5. CASE BeginDeleteSkill(t)
        BY <2>5, BeginDeleteSkillKeeps
    <2>6. CASE Look(t) \/ LookFolder(t)
        BY <2>6, LookKeeps, LookFolderKeeps
    <2>7. ASSUME NEW told \in BOOLEAN,
                 SaveSkill(t, told) \/ SaveResource(t, told) \/ SaveScript(t, told)
          PROVE  IInv'
        BY <2>7, SaveSkillKeeps, SaveResourceKeeps, SaveScriptKeeps
    <2>8. ASSUME NEW told \in BOOLEAN, DeleteResource(t, told) \/ DeleteScript(t, told)
          PROVE  IInv'
        <3>1. Resources \in SUBSET Children /\ Scripts \in SUBSET Children
            BY DEF Children
        <3>2. QED
            BY <2>8, <3>1, DeleteChildKeeps DEF DeleteResource, DeleteScript
    <2>9. CASE NothingToDelete(t)
        BY <2>9, NothingToDeleteKeeps
    <2>10. CASE ListResources(t) \/ ListScripts(t)
        BY <2>10, ListResourcesKeeps, ListScriptsKeeps
    <2>11. CASE PurgeResources(t)
        <3>1. Resources \in SUBSET Children
            BY DEF Children
        <3>2. At(t, "purge_resources") /\ Purge(t, Resources, "purge_scripts")
            BY <2>11 DEF PurgeResources
        <3>3. QED
            BY <3>1, <3>2, PurgeKeeps, PcsAre
    <2>12. CASE PurgeScript(t)
        <3>1. PICK d \in Scripts : Purge(t, {d}, "purge_scripts")
            BY <2>12 DEF PurgeScript
        <3>2. {d} \in SUBSET Children /\ At(t, "purge_scripts")
            BY <2>12 DEF PurgeScript, Children
        <3>3. QED
            BY <3>1, <3>2, PurgeKeeps, PcsAre
    <2>13. CASE PurgeEnds(t) \/ PurgeSkill(t) \/ PurgeNoSkill(t)
        BY <2>13, PurgeEndsKeeps, PurgeSkillKeeps, PurgeNoSkillKeeps
    <2>14. CASE PutCopy(t) \/ PutCopyFails(t)
        BY <2>14, PutCopyKeeps, PutCopyFailsKeeps
    <2>15. CASE \E d \in Children : RecordChild(t, d)
        BY <2>15, RecordChildKeeps
    <2>16. CASE Record(t)
        BY <2>16, RecordKeeps
    <2>17. CASE Crash(t)
        BY <2>17, CrashKeeps
    <2>18. QED
        BY <1>2, <2>1, <2>2, <2>3, <2>4, <2>5, <2>6, <2>7, <2>8, <2>9, <2>10, <2>11,
           <2>12, <2>13, <2>14, <2>15, <2>16, <2>17 DEF TaskStep
<1>3. QED
    BY <1>1, <1>2 DEF Next

LEMMA Inductive == Spec => []IInv
<1>1. IInv /\ [Next]_vars => IInv'
    BY NextKeeps
<1>2. QED
    BY InitHolds, <1>1, PTL DEF Spec

(* Every variable keeps its type, whatever the wrapper, the loader and the *)
(* failures between their round trips do.                                  *)
THEOREM TypeCorrect == Spec => []TypeOK
<1>1. IInv => TypeOK
    BY DEF IInv
<1>2. QED
    BY Inductive, <1>1, PTL

(* The copy a history record points at is never deleted: by no save, no    *)
(* deletion, no failed put and no failed insert of any overlapping call.   *)
THEOREM CopiesStay == Spec => []HistoryCopiesKept
<1>1. IInv => HistoryCopiesKept
    <2> SUFFICES ASSUME IInv, NEW i \in DOMAIN history, history[i].ref # None
                 PROVE  Resolved(history[i]) # None
        BY DEF HistoryCopiesKept
    <2>1. history[i].text = None /\ history[i].ref \in content
        BY DEF IInv, RecordsFit, RecordFits, IsCopy
    <2>2. history[i].ref.text \in Texts
        BY <2>1 DEF IInv, TypeOK, Refs
    <2>3. QED
        BY <2>1, <2>2, TextsAreTexts DEF Resolved
<1>2. QED
    BY Inductive, <1>1, PTL

-----------------------------------------------------------------------------
(***************************************************************************)
(* Children of a deleted skill.                                            *)
(*                                                                         *)
(* ChildrenGoWithSkill is not inductive: it does not say why the children  *)
(* are gone when delete_skill comes to the skill document.  They are       *)
(* because the deletion has passed resources, then scripts (PurgesDone),   *)
(* and what was saved since is stray, for the saves saw a deletion in      *)
(* flight (DeletionsKnown).                                                *)
(***************************************************************************)
DeletePcs == {"list_resources", "list_scripts", "purge_resources", "purge_scripts",
              "purge_skill"}

(* Calls at a place of delete_skill are calls of delete_skill.             *)
DeletionsKnown ==
    \A t \in Tasks : task[t] # None /\ task[t].pc \in DeletePcs => task[t].op = "delete_skill"

(* What a deletion at pc has passed is gone, or was saved since.           *)
Passed(pc) ==
    \A d \in Children :
        child[d] # None /\ (d \in Resources \/ pc = "purge_skill") => d \in stray

Late == {"purge_scripts", "purge_skill"}

PurgesDone ==
    \A t \in Tasks : task[t] # None /\ task[t].pc \in Late => Passed(task[t].pc)

ChildInv == ChildrenGoWithSkill /\ DeletionsKnown /\ PurgesDone

(* The same of the state after the step.                                   *)
PassedAfter(pc) ==
    \A d \in Children :
        child'[d] # None /\ (d \in Resources \/ pc = "purge_skill") => d \in stray'

(* A step of t that goes on as call, and moves no other call.              *)
Advance(t, call) ==
    \A u \in Tasks : task'[u] # None =>
        IF u = t
        THEN call # None /\ task'[u].pc = call.pc /\ task'[u].op = call.op
        ELSE task[u] # None /\ task'[u].pc = task[u].pc /\ task'[u].op = task[u].op

(* Whatever is there and not stray was so before.                          *)
NoNewChild ==
    \A d \in Children : child'[d] # None => d \in stray' \/ (child[d] # None /\ d \notin stray)

LEMMA StepAdvances ==
    ASSUME IInv, NEW t \in Tasks, NEW call, Step(t, call)
    PROVE  Advance(t, call)
BY DEF IInv, TypeOK, Step, Advance

(* The observer's bookkeeping leaves a call where it is.                   *)
SamePlace(c1, c2) == c1.pc = c2.pc /\ c1.op = c2.op

LEMMA ChangeAdvances ==
    ASSUME IInv, NEW t \in Tasks, NEW call, NEW D, Change(t, D, call),
           call # None =>
               SamePlace([call EXCEPT !.wrote = @ \cup D, !.raced = @ \ D], call)
    PROVE  Advance(t, call)
<1> DEFINE next(u) ==
        IF u = t
        THEN IF call = None THEN None
             ELSE [call EXCEPT !.wrote = @ \cup D, !.raced = @ \ D]
        ELSE IF task[u] = None THEN None
        ELSE [task[u] EXCEPT !.raced = @ \cup D]
<1>1. \A u \in Tasks : task'[u] = next(u)
    BY DEF Change
<1>2. ASSUME NEW u \in Tasks, next(u) # None, u = t
      PROVE  call # None /\ next(u).pc = call.pc /\ next(u).op = call.op
    BY <1>2 DEF SamePlace
<1>3. ASSUME NEW u \in Tasks, next(u) # None, u # t
      PROVE  task[u] # None /\ next(u).pc = task[u].pc /\ next(u).op = task[u].op
    <2>1. task[u] # None
        BY <1>3
    <2>2. task[u] \in Calls
        BY <2>1 DEF IInv, TypeOK
    <2>3. next(u) = [task[u] EXCEPT !.raced = @ \cup D]
        BY <1>3, <2>1
    <2>4. QED
        BY <2>1, <2>2, <2>3 DEF Calls
<1> HIDE DEF next
<1>4. QED
    BY <1>1, <1>2, <1>3 DEF Advance

LEMMA ChildIs ==
    ASSUME NEW d \in Children
    PROVE  Exists(d) <=> child[d] # None
BY DocsAssumption DEF Exists, Doc

(* A step keeps ChildInv if the call it goes on with fits its place, and   *)
(* if a deletion in flight, or the lack of a skill, makes stray every      *)
(* child that the step leaves new.                                         *)
LEMMA AdvanceKeeps ==
    ASSUME ChildInv, NEW t \in Tasks, NEW call, Advance(t, call),
           call # None /\ call.pc \in DeletePcs => call.op = "delete_skill",
           call # None /\ call.pc \in Late => PassedAfter(call.pc),
           NoNewChild \/ (~Deleting /\ skill' # None),
           skill' = None => skill = None \/ At(t, "purge_skill")
    PROVE  ChildInv'
<1>1. DeletionsKnown'
    BY DEF ChildInv, DeletionsKnown, Advance
<1>2. ASSUME NEW u \in Tasks, task'[u] # None, task'[u].pc \in Late
      PROVE  PassedAfter(task'[u].pc)
    <2>1. CASE u = t
        BY <1>2, <2>1 DEF Advance
    <2>2. CASE u # t
        <3>1. task[u] # None /\ task[u].pc = task'[u].pc
            BY <1>2, <2>2 DEF Advance
        <3>2. Deleting
            BY <1>2, <3>1 DEF ChildInv, DeletionsKnown, Deleting, Late, DeletePcs
        <3>3. NoNewChild
            BY <3>2
        <3>4. Passed(task[u].pc)
            BY <1>2, <3>1 DEF ChildInv, PurgesDone
        <3>5. QED
            BY <3>1, <3>3, <3>4 DEF Passed, PassedAfter, NoNewChild
    <2>3. QED
        BY <2>1, <2>2
<1>3. PurgesDone'
    BY <1>2 DEF PurgesDone, Passed, PassedAfter
<1>4. ASSUME skill' = None, NEW d \in Children, child'[d] # None
      PROVE  d \in stray'
    <2>1. NoNewChild
        BY <1>4
    <2>2. d \in stray' \/ (child[d] # None /\ d \notin stray)
        BY <1>4, <2>1 DEF NoNewChild
    <2>3. CASE skill = None
        BY <2>2, <2>3, ChildIs DEF ChildInv, ChildrenGoWithSkill
    <2>4. CASE At(t, "purge_skill")
        <3>1. Passed("purge_skill")
            BY <2>4 DEF ChildInv, PurgesDone, At, Late
        <3>2. QED
            BY <2>2, <3>1 DEF Passed
    <2>5. QED
        BY <1>4, <2>3, <2>4
<1>5. ChildrenGoWithSkill'
    BY <1>4, DocsAssumption DEF ChildrenGoWithSkill, Exists, Doc
<1>6. QED
    BY <1>1, <1>3, <1>5 DEF ChildInv

(* Steps that leave the children alone.                                    *)
LEMMA QuietKeeps ==
    ASSUME ChildInv, NEW t \in Tasks, NEW call, Advance(t, call),
           call # None /\ call.pc \in DeletePcs => call.op = "delete_skill",
           call # None /\ call.pc \in Late => Passed(call.pc),
           UNCHANGED <<child, stray>>,
           skill' = None => skill = None \/ At(t, "purge_skill")
    PROVE  ChildInv'
<1>1. NoNewChild
    BY DEF NoNewChild
<1>2. call # None /\ call.pc \in Late => PassedAfter(call.pc)
    BY DEF Passed, PassedAfter
<1>3. QED
    BY <1>1, <1>2, AdvanceKeeps

Away == Pcs \ DeletePcs

LEMMA AwayIs ==
    /\ "look" \in Away /\ "folder" \in Away /\ "write" \in Away
    /\ "copy" \in Away /\ "record" \in Away
BY DEF Away, Pcs, DeletePcs

-----------------------------------------------------------------------------
(* Calls begin.                                                            *)
LEMMA CallBeginsSafely ==
    ASSUME IInv, ChildInv, NEW t \in Tasks, NEW call, Begin(t, call),
           UNCHANGED <<store, history, ghosts>>,
           call.pc \in Away \/ (call.pc = "list_resources" /\ call.op = "delete_skill")
    PROVE  ChildInv'
<1>1. Advance(t, call)
    BY StepAdvances DEF Begin, Step
<1>2. call.pc \notin Late
    BY DEF Late, Away, DeletePcs
<1>3. UNCHANGED <<skill, child, stray>>
    BY DEF store, ghosts
<1>4. QED
    BY <1>1, <1>2, <1>3, QuietKeeps DEF Away

LEMMA LookedPc ==
    ASSUME NEW call \in Calls
    PROVE  Looked(call).pc \in Away
BY AwayIs DEF Looked, Calls

LEMMA SavesBegin ==
    ASSUME IInv, ChildInv, NEW t \in Tasks,
           BeginCreate(t) \/ \E d \in Docs, folder \in Folders \cup {None} : BeginSave(t, d, folder)
    PROVE  ChildInv'
<1>1. CASE BeginCreate(t)
    <2> DEFINE call == [Started("save", Skill) EXCEPT !.create = TRUE, !.pc = "look"]
    <2>1. Begin(t, call) /\ UNCHANGED <<store, history, ghosts>>
        BY <1>1 DEF BeginCreate
    <2>2. call.pc \in Away
        BY AwayIs DEF Started
    <2>3. QED
        BY <2>1, <2>2, CallBeginsSafely
<1>2. ASSUME NEW d \in Docs, NEW folder \in Folders \cup {None}, BeginSave(t, d, folder)
      PROVE  ChildInv'
    <2> DEFINE begun == [Started("save", d) EXCEPT !.folder = folder,
                                                   !.named = folder # None]
               call  == Looked(begun)
    <2>1. Begin(t, call) /\ UNCHANGED <<store, history, ghosts>>
        BY <1>2 DEF BeginSave
    <2>2. call.pc \in Away
        BY AwayIs DEF Started, Looked
    <2> HIDE DEF call
    <2>3. QED
        BY <2>1, <2>2, CallBeginsSafely
<1>3. QED
    BY <1>1, <1>2

LEMMA DeletionsBegin ==
    ASSUME IInv, ChildInv, NEW t \in Tasks,
           BeginDeleteSkill(t) \/ \E d \in Children : BeginDelete(t, d)
    PROVE  ChildInv'
<1>1. CASE BeginDeleteSkill(t)
    <2>1. PICK text \in BestEffort(TextOf(Skill)) :
            Begin(t, [Started("delete_skill", Skill) EXCEPT
                         !.kind = "deleted", !.text = text, !.pc = "list_resources"])
        BY <1>1 DEF BeginDeleteSkill
    <2> DEFINE call == [Started("delete_skill", Skill) EXCEPT
                           !.kind = "deleted", !.text = text, !.pc = "list_resources"]
    <2>2. call.pc = "list_resources" /\ call.op = "delete_skill"
        BY DEF Started
    <2>3. Begin(t, call) /\ UNCHANGED <<store, history, ghosts>>
        BY <1>1, <2>1 DEF BeginDeleteSkill
    <2> HIDE DEF call
    <2>4. QED
        BY <2>2, <2>3, CallBeginsSafely
<1>2. ASSUME NEW d \in Children, BeginDelete(t, d)
      PROVE  ChildInv'
    <2>1. PICK text \in BestEffort(TextOf(d)) :
            Begin(t, [Started("delete", d) EXCEPT !.kind = "deleted", !.text = text])
        BY <1>2 DEF BeginDelete
    <2> DEFINE call == [Started("delete", d) EXCEPT !.kind = "deleted", !.text = text]
    <2>2. call.pc \in Away
        BY AwayIs DEF Started
    <2>3. Begin(t, call) /\ UNCHANGED <<store, history, ghosts>>
        BY <1>2, <2>1 DEF BeginDelete
    <2> HIDE DEF call
    <2>4. QED
        BY <2>2, <2>3, CallBeginsSafely
<1>3. QED
    BY <1>1, <1>2

LEMMA SetStateSafe ==
    ASSUME IInv, ChildInv, NEW t \in Tasks, NEW state \in States, SetState(t, state)
    PROVE  ChildInv'
<1> DEFINE call == [Started("state", Skill) EXCEPT
                       !.kind = "state_changed", !.text = skill.text, !.was = skill.text,
                       !.state = state, !.pc = "record"]
<1>1. Change(t, {Skill}, call)
    BY DEF SetState, StateInRecord
<1>2. call.pc \in Away
    BY AwayIs DEF Started
<1>3. SamePlace([call EXCEPT !.wrote = @ \cup {Skill}, !.raced = @ \ {Skill}], call)
    BY DEF SamePlace, Started
<1> HIDE DEF call
<1>4. Advance(t, call)
    BY <1>1, <1>3, ChangeAdvances
<1>5. skill' # None
    BY RecordsAssumption DEF SetState, IInv, TypeOK, SkillDocs
<1>6. UNCHANGED <<child, stray>>
    BY DEF SetState
<1>7. call.pc \notin DeletePcs /\ call.pc \notin Late
    BY <1>2 DEF Away, Late, DeletePcs
<1>8. QED
    BY <1>4, <1>5, <1>6, <1>7, QuietKeeps

-----------------------------------------------------------------------------
(* Calls in flight.                                                        *)
LEMMA BookkeepingStays ==
    ASSUME NEW call \in Calls, NEW D
    PROVE  SamePlace([call EXCEPT !.wrote = @ \cup D, !.raced = @ \ D], call)
BY DEF SamePlace, Calls

(* A step that changes no document and goes on elsewhere, or returns.      *)
LEMMA QuietStepSafe ==
    ASSUME IInv, ChildInv, NEW t \in Tasks, NEW call, Step(t, call),
           call # None => call.pc \in Away, UNCHANGED <<skill, child, stray>>
    PROVE  ChildInv'
<1>1. Advance(t, call)
    BY StepAdvances
<1>2. call # None => call.pc \notin DeletePcs /\ call.pc \notin Late
    BY DEF Away, Late, DeletePcs
<1>3. QED
    BY <1>1, <1>2, QuietKeeps

LEMMA LooksSafe ==
    ASSUME IInv, ChildInv, NEW t \in Tasks, Look(t) \/ LookFolder(t)
    PROVE  ChildInv'
<1>1. UNCHANGED <<skill, child, stray>>
    BY DEF Look, LookFolder, store, ghosts
<1>2. CASE Look(t)
    <2>1. Looked(task[t]).pc \in Away
        BY <1>2, InFlight, LookedPc DEF Look
    <2>2. QED
        BY <1>1, <1>2, <2>1, QuietStepSafe DEF Look
<1>3. CASE LookFolder(t)
    <2> DEFINE call == [task[t] EXCEPT !.folder = FolderOfSkill, !.pc = "write"]
    <2>1. task[t] \in Calls
        BY <1>3, InFlight DEF LookFolder
    <2>2. call.pc \in Away
        BY <2>1, AwayIs DEF Calls
    <2>3. Step(t, call)
        BY <1>3 DEF LookFolder
    <2> HIDE DEF call
    <2>4. QED
        BY <1>1, <2>2, <2>3, QuietStepSafe
<1>4. QED
    BY <1>2, <1>3

(* Calls that return, and those that put a copy or write a record.         *)
LEMMA EndsSafe ==
    ASSUME IInv, ChildInv, NEW t \in Tasks,
           \/ NothingToDelete(t)
           \/ PurgeNoSkill(t)
           \/ Record(t)
           \/ Crash(t)
    PROVE  ChildInv'
<1>1. Step(t, None) /\ UNCHANGED <<skill, child, stray>>
    BY DEF NothingToDelete, PurgeNoSkill, Record, Crash, store, ghosts
<1>2. QED
    BY <1>1, QuietStepSafe

LEMMA RecordsSafe ==
    ASSUME IInv, ChildInv, NEW t \in Tasks,
           PutCopy(t) \/ PutCopyFails(t) \/ \E d \in Children : RecordChild(t, d)
    PROVE  ChildInv'
<1>1. UNCHANGED <<skill, child, stray>>
    BY DEF PutCopy, PutCopyFails, RecordChild, ghosts
<1>2. task[t] \in Calls /\ (task[t].pc = "copy" \/ task[t].pc = "record")
    BY InFlight DEF PutCopy, PutCopyFails, RecordChild
<1>3. CASE PutCopy(t)
    <2> DEFINE ref  == build_script_history_content_ref(task[t].doc, task[t].text, task[t].n)
               call == [task[t] EXCEPT !.ref = ref, !.text = None, !.pc = "record"]
    <2>1. Step(t, call)
        BY <1>3 DEF PutCopy
    <2>2. call.pc \in Away
        BY <1>2, AwayIs DEF Calls
    <2> HIDE DEF call
    <2>3. QED
        BY <1>1, <2>1, <2>2, QuietStepSafe
<1>4. CASE PutCopyFails(t)
    <2> DEFINE call == [task[t] EXCEPT !.pc = "record"]
    <2>1. Step(t, call)
        BY <1>4 DEF PutCopyFails
    <2>2. call.pc \in Away
        BY <1>2, AwayIs DEF Calls
    <2> HIDE DEF call
    <2>3. QED
        BY <1>1, <2>1, <2>2, QuietStepSafe
<1>5. ASSUME NEW d \in Children, RecordChild(t, d)
      PROVE  ChildInv'
    <2> DEFINE call == [task[t] EXCEPT !.listed = @ \ {d}, !.wrote = @ \ {d}]
    <2>1. Step(t, call)
        BY <1>5 DEF RecordChild
    <2>2. call.pc \in Away
        BY <1>2, AwayIs DEF Calls
    <2> HIDE DEF call
    <2>3. QED
        BY <1>1, <2>1, <2>2, QuietStepSafe
<1>6. QED
    BY <1>3, <1>4, <1>5

-----------------------------------------------------------------------------
(* Writes.                                                                 *)
LEMMA WrittenAdvances ==
    ASSUME IInv, NEW t \in Tasks, NEW d, NEW told \in BOOLEAN, NEW done \in Calls,
           Written(t, d, told, done), done.pc \in {"copy", "record"}
    PROVE  \E call : /\ Advance(t, call)
                     /\ call # None => call.pc \notin DeletePcs /\ call.pc \notin Late
<1> DEFINE call == IF told THEN done ELSE None
<1>1. Change(t, {d}, call)
    BY DEF Written
<1>2. call # None => SamePlace([call EXCEPT !.wrote = @ \cup {d}, !.raced = @ \ {d}], call)
    BY BookkeepingStays
<1>3. call # None => call.pc \notin DeletePcs /\ call.pc \notin Late
    BY DEF DeletePcs, Late
<1> HIDE DEF call
<1>4. Advance(t, call)
    BY <1>1, <1>2, ChangeAdvances
<1>5. QED
    BY <1>3, <1>4

(* A write by t that leaves no new child, or one that is allowed.          *)
LEMMA WrittenSafe ==
    ASSUME IInv, ChildInv, NEW t \in Tasks, NEW d, NEW told \in BOOLEAN,
           NEW done \in Calls, Written(t, d, told, done), done.pc \in {"copy", "record"},
           NoNewChild \/ (~Deleting /\ skill' # None),
           skill' = None => skill = None
    PROVE  ChildInv'
<1>1. PICK call : /\ Advance(t, call)
                  /\ call # None => call.pc \notin DeletePcs /\ call.pc \notin Late
    BY WrittenAdvances
<1>2. QED
    BY <1>1, AdvanceKeeps

LEMMA SavedPc ==
    ASSUME IInv, NEW t \in Tasks, At(t, "write"), NEW state \in States \cup {None}
    PROVE  Saved(t, state) \in Calls /\ Saved(t, state).pc \in {"copy", "record"}
<1>1. Saved(t, state) \in Calls
    BY SavedFits DEF Fits
<1>2. task[t] \in Calls
    BY InFlight
<1>3. Saved(t, state).pc = RecordPc(task[t].doc, task[t].n)
    BY <1>2 DEF Saved, Calls
<1>4. QED
    BY <1>1, <1>3, RecordPcIs

LEMMA SaveSkillSafe ==
    ASSUME IInv, ChildInv, NEW t \in Tasks, NEW told \in BOOLEAN, SaveSkill(t, told)
    PROVE  ChildInv'
<1> DEFINE doc == SkillUpsert(task[t])
<1>1. At(t, "write") /\ task[t] \in Calls
    BY InFlight DEF SaveSkill, Saving
<1>2. skill.state \in States \/ skill = None
    BY DEF IInv, TypeOK, SkillDocs
<1>3. doc \in SkillDocs
    BY <1>1, <1>2, ValuesAssumption DEF SkillUpsert, SkillDocs, Calls
<1>4. doc.state \in States \cup {None}
    BY <1>3 DEF SkillDocs
<1> HIDE DEF doc
<1>5. skill' = doc /\ Written(t, Skill, told, Saved(t, doc.state))
    BY DEF SaveSkill, doc
<1>6. NoNewChild
    BY DEF SaveSkill, NoNewChild
<1>7. skill' # None
    BY <1>3, <1>5, RecordsAssumption
<1>8. QED
    BY <1>1, <1>4, <1>5, <1>6, <1>7, SavedPc, WrittenSafe

(* The one place where a child appears.                                    *)
LEMMA SaveChildSafe ==
    ASSUME IInv, ChildInv, NEW t \in Tasks, NEW told \in BOOLEAN, NEW d \in Children,
           NEW ref, At(t, "write"), SaveChild(t, d, ref, told)
    PROVE  ChildInv'
<1>1. Written(t, d, told, Saved(t, None)) /\ skill' = skill
    BY DEF SaveChild
<1>2. NoNewChild \/ (~Deleting /\ skill' # None)
    <2>1. CASE skill = None \/ Deleting
        <3>1. stray' = stray \cup {d}
            BY <2>1 DEF SaveChild
        <3>2. \A e \in Children : e # d => child'[e] = child[e]
            BY DEF SaveChild, IInv, TypeOK
        <3>3. QED
            BY <3>1, <3>2 DEF NoNewChild
    <2>2. CASE ~(skill = None \/ Deleting)
        BY <1>1, <2>2
    <2>3. QED
        BY <2>1, <2>2
<1>3. None \in States \cup {None}
    OBVIOUS
<1>4. Saved(t, None) \in Calls /\ Saved(t, None).pc \in {"copy", "record"}
    BY <1>3, SavedPc
<1>5. QED
    BY <1>1, <1>2, <1>4, WrittenSafe

LEMMA DeleteChildSafe ==
    ASSUME IInv, ChildInv, NEW t \in Tasks, NEW told \in BOOLEAN,
           NEW D \in SUBSET Children, DeleteChild(t, D, told)
    PROVE  ChildInv'
<1> DEFINE d == task[t].doc
<1>1. At(t, "write") /\ d \in Children /\ skill' = skill
    BY DEF DeleteChild
<1>2. Written(t, d, told, Deleted(t))
    BY DEF DeleteChild, Deleted
<1>3. Deleted(t) \in Calls /\ Deleted(t).pc \in {"copy", "record"}
    BY <1>1, DeletedFits DEF Fits
<1>4. child' = [child EXCEPT ![d] = None] /\ stray' = stray \ {d}
    BY DEF DeleteChild
<1>5. NoNewChild
    BY <1>4 DEF NoNewChild, IInv, TypeOK
<1>6. QED
    BY <1>1, <1>2, <1>3, <1>5, WrittenSafe

-----------------------------------------------------------------------------
(* delete_skill.                                                           *)
LEMMA DeletionIs ==
    ASSUME IInv, ChildInv, NEW t \in Tasks, NEW pc \in DeletePcs, At(t, pc)
    PROVE  /\ task[t] \in Calls
           /\ task[t].op = "delete_skill"
           /\ pc \in Late => Passed(pc)
BY InFlight DEF ChildInv, DeletionsKnown, PurgesDone

LEMMA ListingsSafe ==
    ASSUME IInv, ChildInv, NEW t \in Tasks, ListResources(t) \/ ListScripts(t)
    PROVE  ChildInv'
<1>0. PICK pc \in {"list_scripts", "purge_resources"} :
         \E S : Step(t, [task[t] EXCEPT !.listed = S, !.pc = pc])
    <2>1. CASE ListResources(t)
        BY <2>1 DEF ListResources
    <2>2. CASE ListScripts(t)
        BY <2>2 DEF ListScripts
    <2>3. QED
        BY <2>1, <2>2
<1>1. PICK listed : Step(t, [task[t] EXCEPT !.listed = listed, !.pc = pc])
    BY <1>0
<1> DEFINE call == [task[t] EXCEPT !.listed = listed, !.pc = pc]
<1>2. task[t] \in Calls /\ task[t].op = "delete_skill"
    BY DeletionIs DEF ListResources, ListScripts, DeletePcs
<1>3. call.pc = pc /\ call.op = "delete_skill"
    BY <1>2 DEF Calls
<1>4. UNCHANGED <<skill, child, stray>>
    BY DEF ListResources, ListScripts, store, ghosts
<1>5. Step(t, call)
    BY <1>1
<1> HIDE DEF call
<1>6. Advance(t, call)
    BY <1>5, StepAdvances
<1>7. call.pc \notin Late
    BY <1>3 DEF Late
<1>8. QED
    BY <1>3, <1>4, <1>6, <1>7, QuietKeeps

(* A purge of D by a deletion that has passed resources once D is gone.    *)
LEMMA PurgeSafe ==
    ASSUME IInv, ChildInv, NEW t \in Tasks, NEW D \in SUBSET Children,
           Purge(t, D, "purge_scripts"), task[t] \in Calls, task[t].op = "delete_skill",
           Resources \subseteq D \/ Passed("purge_scripts")
    PROVE  ChildInv'
<1> DEFINE gone == {d \in D : Exists(d)}
           call == [task[t] EXCEPT !.pc = "purge_scripts", !.raced = @ \ D]
<1>1. /\ Change(t, gone, call)
      /\ child' = [d \in Children |-> IF d \in D THEN None ELSE child[d]]
      /\ stray' = stray \ D
      /\ skill' = skill
    BY DEF Purge
<1>2. call.pc = "purge_scripts" /\ call.op = "delete_skill"
    BY DEF Calls
<1>3. SamePlace([call EXCEPT !.wrote = @ \cup gone, !.raced = @ \ gone], call)
    BY DEF SamePlace, Calls
<1> HIDE DEF call, gone
<1>4. Advance(t, call)
    BY <1>1, <1>3, ChangeAdvances
<1>5. NoNewChild
    BY <1>1 DEF NoNewChild
<1>6. PassedAfter("purge_scripts")
    BY <1>1 DEF PassedAfter, Passed
<1>7. QED
    BY <1>1, <1>2, <1>4, <1>5, <1>6, AdvanceKeeps

LEMMA PurgesSafe ==
    ASSUME IInv, ChildInv, NEW t \in Tasks, PurgeResources(t) \/ PurgeScript(t)
    PROVE  ChildInv'
<1>1. CASE PurgeResources(t)
    <2>1. task[t] \in Calls /\ task[t].op = "delete_skill"
        BY <1>1, DeletionIs DEF PurgeResources, DeletePcs
    <2>2. Resources \in SUBSET Children
        BY DEF Children
    <2>3. QED
        BY <1>1, <2>1, <2>2, PurgeSafe DEF PurgeResources
<1>2. CASE PurgeScript(t)
    <2>1. PICK d \in Scripts : Purge(t, {d}, "purge_scripts")
        BY <1>2 DEF PurgeScript
    <2>2. /\ task[t] \in Calls /\ task[t].op = "delete_skill"
          /\ Passed("purge_scripts")
        BY <1>2, DeletionIs DEF PurgeScript, DeletePcs, Late
    <2>3. {d} \in SUBSET Children
        BY DEF Children
    <2>4. QED
        BY <2>1, <2>2, <2>3, PurgeSafe
<1>3. QED
    BY <1>1, <1>2

LEMMA PurgeEndsSafe ==
    ASSUME IInv, ChildInv, NEW t \in Tasks, PurgeEnds(t)
    PROVE  ChildInv'
<1> DEFINE call == [task[t] EXCEPT !.pc = "purge_skill", !.raced = @ \ Scripts]
<1>1. Step(t, call) /\ UNCHANGED <<skill, child, stray>>
    BY DEF PurgeEnds, store, ghosts
<1>2. /\ task[t] \in Calls /\ task[t].op = "delete_skill"
      /\ Passed("purge_scripts")
    BY DeletionIs DEF PurgeEnds, DeletePcs, Late
<1>3. call.pc = "purge_skill" /\ call.op = "delete_skill"
    BY <1>2 DEF Calls
<1> HIDE DEF call
<1>4. Advance(t, call)
    BY <1>1, StepAdvances
<1>5. \A d \in Scripts : child[d] = None
    BY ChildIs DEF PurgeEnds, Children
<1>6. Passed("purge_skill")
    BY <1>2, <1>5 DEF Passed, Children
<1>7. QED
    BY <1>1, <1>3, <1>4, <1>6, QuietKeeps

LEMMA PurgeSkillSafe ==
    ASSUME IInv, ChildInv, NEW t \in Tasks, PurgeSkill(t)
    PROVE  ChildInv'
<1> DEFINE call == [task[t] EXCEPT
                      !.was = skill.text, !.pc = "record",
                      !.fresh = Skill \notin task[t].raced /\ task[t].text # None]
<1>1. Change(t, {Skill}, call) /\ UNCHANGED <<child, stray>>
    BY DEF PurgeSkill
<1>2. task[t] \in Calls /\ At(t, "purge_skill")
    BY InFlight DEF PurgeSkill
<1>3. call.pc = "record"
    BY <1>2 DEF Calls
<1>4. SamePlace([call EXCEPT !.wrote = @ \cup {Skill}, !.raced = @ \ {Skill}], call)
    BY <1>2 DEF SamePlace, Calls
<1> HIDE DEF call
<1>5. Advance(t, call)
    BY <1>1, <1>4, ChangeAdvances
<1>6. call.pc \notin DeletePcs /\ call.pc \notin Late
    BY <1>3 DEF DeletePcs, Late
<1>7. QED
    BY <1>1, <1>2, <1>5, <1>6, QuietKeeps

-----------------------------------------------------------------------------
(* The invariant.                                                          *)
LEMMA DraftIsDoc == [text |-> 0, folder |-> None, state |-> "draft"] \in SkillDocs
BY ValuesAssumption DEF SkillDocs, Texts

LEMMA ChildInvHolds == Init => ChildInv
<1> SUFFICES ASSUME Init PROVE ChildInv
    OBVIOUS
<1>1. DeletionsKnown /\ PurgesDone
    BY DEF Init, DeletionsKnown, PurgesDone
<1>2. skill = None => \A d \in Children : child[d] = None
    <2>1. CASE skill = [text |-> 0, folder |-> None, state |-> "draft"]
        <3>1. skill \in SkillDocs
            BY <2>1, DraftIsDoc
        <3>2. QED
            BY <3>1, RecordsAssumption
    <2>2. QED
        BY <2>1 DEF Init
<1>3. ChildrenGoWithSkill
    BY <1>2, ChildIs DEF ChildrenGoWithSkill
<1>4. QED
    BY <1>1, <1>3 DEF ChildInv

LEMMA ChildInvKept ==
    ASSUME IInv, ChildInv, [Next]_vars
    PROVE  ChildInv'
<1>1. CASE UNCHANGED vars
    BY <1>1 DEF vars, ChildInv, ChildrenGoWithSkill, DeletionsKnown, PurgesDone,
                Passed, Exists, Doc
<1>2. ASSUME NEW t \in Tasks, TaskStep(t)
      PROVE  ChildInv'
    <2>1. CASE BeginCreate(t) \/ BeginSaveSkill(t) \/ BeginSaveResource(t) \/ BeginSaveScript(t)
        BY <2>1, SavesBegin DEF BeginSaveSkill, BeginSaveResource, BeginSaveScript,
                                Docs, Children
    <2>2. CASE \E state \in States : SetState(t, state)
        BY <2>2, SetStateSafe
    <2>3. CASE BeginDeleteResource(t) \/ BeginDeleteScript(t) \/ BeginDeleteSkill(t)
        BY <2>3, DeletionsBegin DEF BeginDeleteResource, BeginDeleteScript, Children
    <2>4. CASE Look(t) \/ LookFolder(t)
        BY <2>4, LooksSafe
    <2>5. ASSUME NEW told \in BOOLEAN,
                 SaveSkill(t, told) \/ SaveResource(t, told) \/ SaveScript(t, told)
          PROVE  ChildInv'
        <3>1. CASE SaveSkill(t, told)
            BY <3>1, SaveSkillSafe
        <3>2. CASE SaveResource(t, told) \/ SaveScript(t, told)
            <4>1. PICK ref : SaveChild(t, task[t].doc, ref, told)
                BY <3>2 DEF SaveResource, SaveScript
            <4>2. At(t, "write") /\ task[t].doc \in Children
                BY <3>2 DEF SaveResource, SaveScript, Saving, Children
            <4>3. QED
                BY <4>1, <4>2, SaveChildSafe
        <3>3. QED
            BY <2>5, <3>1, <3>2
    <2>6. ASSUME NEW told \in BOOLEAN, DeleteResource(t, told) \/ DeleteScript(t, told)
          PROVE  ChildInv'
        <3>1. Resources \in SUBSET Children /\ Scripts \in SUBSET Children
            BY DEF Children
        <3>2. QED
            BY <2>6, <3>1, DeleteChildSafe DEF DeleteResource, DeleteScript
    <2>7. CASE NothingToDelete(t) \/ PurgeNoSkill(t) \/ Record(t) \/ Crash(t)
        BY <2>7, EndsSafe
    <2>8. CASE ListResources(t) \/ ListScripts(t)
        BY <2>8, ListingsSafe
    <2>9. CASE PurgeResources(t) \/ PurgeScript(t)
        BY <2>9, PurgesSafe
    <2>10. CASE PurgeEnds(t) \/ PurgeSkill(t)
        BY <2>10, PurgeEndsSafe, PurgeSkillSafe
    <2>11. CASE PutCopy(t) \/ PutCopyFails(t) \/ \E d \in Children : RecordChild(t, d)
        BY <2>11, RecordsSafe
    <2>12. QED
        BY <1>2, <2>1, <2>2, <2>3, <2>4, <2>5, <2>6, <2>7, <2>8, <2>9, <2>10, <2>11
           DEF TaskStep
<1>3. QED
    BY <1>1, <1>2 DEF Next

(* A child is left without its skill only if it was saved while the skill  *)
(* was absent or being deleted, however saves, deletions and failures      *)
(* interleave (delete_skill removes the children first).                   *)
THEOREM NoChildLeftBehind == Spec => []ChildrenGoWithSkill
<1>1. IInv /\ ChildInv /\ [Next]_vars => ChildInv'
    BY ChildInvKept
<1>2. ChildInv => ChildrenGoWithSkill
    BY DEF ChildInv
<1>3. QED
    BY Inductive, ChildInvHolds, <1>1, <1>2, PTL DEF Spec

-----------------------------------------------------------------------------
(***************************************************************************)
(* What the history tells is true: each record about its own change, and   *)
(* the newest record of a document about the document; and saves respect   *)
(* what they looked at.                                                    *)
(*                                                                         *)
(* None of the three is inductive.  A record is made of what its call has  *)
(* seen, so the state must say what each call in flight knows, as long as  *)
(* nobody else has changed the documents it looked at (CallTells): before  *)
(* its change that what it saw is still there, afterwards that the record  *)
(* it is going to write describes the document.  And a document without a  *)
(* true record is excused, or some call owes the record (FollowInv): that  *)
(* a call has changed it is not enough, since a deletion also removes      *)
(* children which it has not listed and will not record.                   *)
(***************************************************************************)

After == {"copy", "record"}

(* The documents as one function; None for those that are not there.       *)
AllDocs == [d \in Docs |-> Doc(d)]
TextIn(doc) == IF doc = None THEN None ELSE doc.text
FolderIn(doc) == IF doc = None THEN None ELSE doc.folder

(* The text that a call or a record carries, itself or in a copy.          *)
Carried(r) == IF r.ref = None THEN r.text ELSE r.ref.text

DescribesIn(r, doc) ==
    IF r.kind = "deleted" THEN doc = None
    ELSE /\ doc # None
         /\ Carried(r) = doc.text
         /\ r.doc = Skill => r.state = doc.state

Truthful(r) ==
    /\ r.kind = "created" => r.was = None
    /\ r.kind \in {"updated", "deleted"} => r.was # None
    /\ r.kind = "deleted" => Carried(r) = r.was

(* Where a call can be.                                                    *)
Placed(c) ==
    /\ c.pc \in {"look", "folder"} => c.op = "save"
    /\ c.pc \in DeletePcs => c.op = "delete_skill"
    /\ c.op = "delete_skill" => c.doc = Skill
    /\ c.op # "delete_skill" => c.listed = {}
    /\ c.op = "save" => c.kind \in {None, "created", "updated"}
    /\ c.op = "state" => c.kind = "state_changed"
    /\ c.op \in {"delete", "delete_skill"} => c.kind = "deleted"
    /\ c.pc \notin After \cup Late => c.wrote = {}

(* What a call knows of its document, doc, unless another has changed it.  *)
Knows(c, doc) ==
    /\ c.op = "save" /\ c.pc \in {"folder", "write"} => (c.kind = "created" <=> doc = None)
    /\ c.op = "save" /\ c.doc = Skill /\ c.pc \notin After =>
          /\ c.create = TRUE => doc = None
          /\ c.pc = "write" /\ c.named = FALSE => c.folder = FolderIn(doc)
    /\ c.kind = "deleted" /\ c.pc \notin After /\ c.text # None => c.text = TextIn(doc)
    /\ c.pc \in After => DescribesIn(c, doc)

(* The children that a deletion has removed.                               *)
Swept(op, pc) ==
    {d \in Children :
        /\ op = "delete_skill"
        /\ pc \in {"purge_skill", "record"} \/ (pc = "purge_scripts" /\ d \in Resources)}

Cleared(c, raced, docs) == \A d \in Swept(c.op, c.pc) \ raced : docs[d] = None

CallTells(c, docs) ==
    /\ Placed(c)
    /\ c.doc \notin c.raced => Knows(c, docs[c.doc])
    /\ Cleared(c, c.raced, docs)
    /\ c.pc \in After /\ c.fresh = TRUE => Truthful(c)

CallsTell == \A t \in Tasks : task[t] # None => CallTells(task[t], AllDocs)

RecordsTell == \A i \in DOMAIN history : history[i].fresh = TRUE => Truthful(history[i])

(* The documents a call has changed and will record.                       *)
Owes(c) == c.wrote \cap ({c.doc} \cup c.listed)
Owing(d) == \E t \in Tasks : task[t] # None /\ d \in Owes(task[t])

IsNewest(i, d) == i \in RecordsOf(d) /\ \A j \in RecordsOf(d) : j <= i

Follows(d) ==
    \/ RecordsOf(d) = {} /\ AllDocs[d] = None
    \/ \E i \in DOMAIN history : IsNewest(i, d) /\ DescribesIn(history[i], AllDocs[d])

FollowInv == \A d \in Docs : d \in excused \/ Owing(d) \/ Follows(d)

TrackInv == CallsTell /\ RecordsTell /\ FollowInv

-----------------------------------------------------------------------------
(* Steps that write no record.                                             *)
LEMMA DocsAre ==
    /\ AllDocs[Skill] = skill /\ AllDocs'[Skill] = skill'
    /\ \A d \in Children : AllDocs[d] = child[d] /\ AllDocs'[d] = child'[d]
<1>1. Skill \in Docs /\ \A d \in Children : d \in Docs /\ d # Skill
    BY DocsAssumption DEF Docs
<1>2. QED
    BY <1>1 DEF AllDocs, Doc

SameDocs(D) == \A d \in Docs \ D : AllDocs'[d] = AllDocs[d]

(* Calls with the same fields but those of the observer.                   *)
Alike(b, c) ==
    /\ b.op = c.op /\ b.doc = c.doc /\ b.pc = c.pc /\ b.kind = c.kind
    /\ b.text = c.text /\ b.ref = c.ref /\ b.state = c.state /\ b.folder = c.folder
    /\ b.listed = c.listed /\ b.was = c.was
    /\ b.named = FALSE => c.named = FALSE
    /\ b.create = TRUE => c.create = TRUE
    /\ b.fresh = TRUE => c.fresh = TRUE

LEMMA RacedAlike ==
    ASSUME NEW c \in Calls, NEW raced
    PROVE  Alike([c EXCEPT !.raced = raced], c)
<1> DEFINE b == [c EXCEPT !.raced = raced]
<1>1. b.op = c.op /\ b.doc = c.doc /\ b.pc = c.pc /\ b.kind = c.kind /\ b.text = c.text
    BY DEF Calls
<1>2. b.ref = c.ref /\ b.state = c.state /\ b.folder = c.folder /\ b.listed = c.listed
    BY DEF Calls
<1>3. b.was = c.was
    BY DEF Calls
<1>4. b.named = c.named /\ b.create = c.create /\ b.fresh = c.fresh
    BY DEF Calls
<1>5. QED
    BY <1>1, <1>2, <1>3, <1>4 DEF Alike

LEMMA AlikeKnows ==
    ASSUME NEW b, NEW c, Alike(b, c), NEW doc, Knows(c, doc)
    PROVE  Knows(b, doc)
<1>1. Carried(b) = Carried(c)
    BY DEF Alike, Carried
<1>2. DescribesIn(c, doc) => DescribesIn(b, doc)
    BY <1>1 DEF Alike, DescribesIn
<1>3. QED
    BY <1>2 DEF Alike, Knows

LEMMA AlikeTruthful ==
    ASSUME NEW b, NEW c, Alike(b, c), Truthful(c)
    PROVE  Truthful(b)
<1>1. Carried(b) = Carried(c)
    BY DEF Alike, Carried
<1>2. QED
    BY <1>1 DEF Alike, Truthful

(* What a call knows survives a change by another, which is noted as a     *)
(* race of the documents D that it changes.                                *)
LEMMA OthersTell ==
    ASSUME NEW c \in Calls, NEW D, NEW before, NEW after, CallTells(c, before),
           \A d \in Docs \ D : after[d] = before[d],
           NEW b, b = [c EXCEPT !.raced = @ \cup D]
    PROVE  CallTells(b, after)
<1> DEFINE raced == c.raced \cup D
<1>1. b = [c EXCEPT !.raced = raced]
    OBVIOUS
<1> HIDE DEF raced
<1>2. Alike(b, c) /\ b.wrote = c.wrote /\ b.raced = raced
    <2>1. Alike(b, c)
        BY <1>1, RacedAlike
    <2>2. b.wrote = c.wrote /\ b.raced = raced
        BY <1>1 DEF Calls
    <2>3. QED
        BY <2>1, <2>2
<1>3. c.doc \in Docs
    BY DEF Calls
<1>4. Placed(b)
    BY <1>2 DEF CallTells, Placed, Alike
<1>5. b.doc \notin b.raced => Knows(b, after[b.doc])
    <2>1. b.doc = c.doc
        BY <1>2 DEF Alike
    <2>2. b.doc \notin b.raced => c.doc \notin c.raced /\ after[b.doc] = before[c.doc]
        BY <1>2, <1>3, <2>1 DEF raced
    <2>3. c.doc \notin c.raced => Knows(b, before[c.doc])
        BY <1>2, AlikeKnows DEF CallTells
    <2>4. QED
        BY <2>2, <2>3
<1>6. Cleared(b, b.raced, after)
    <2>1. Swept(b.op, b.pc) = Swept(c.op, c.pc)
        BY <1>2 DEF Alike
    <2>2. Swept(b.op, b.pc) \subseteq Docs
        BY DEF Swept, Docs
    <2>3. QED
        BY <1>2, <2>1, <2>2 DEF CallTells, Cleared, raced
<1>7. b.pc \in After /\ b.fresh = TRUE => Truthful(b)
    <2>1. b.pc \in After /\ b.fresh = TRUE => c.pc \in After /\ c.fresh = TRUE
        BY <1>2 DEF Alike
    <2>2. QED
        BY <1>2, <2>1, AlikeTruthful DEF CallTells
<1>8. QED
    BY <1>4, <1>5, <1>6, <1>7 DEF CallTells

Marked(call, D) == [call EXCEPT !.wrote = @ \cup D, !.raced = @ \ D]

LEMMA MarkedIs ==
    ASSUME NEW c \in Calls, NEW D
    PROVE  /\ Alike(Marked(c, D), c)
           /\ Marked(c, D).wrote = c.wrote \cup D
           /\ Marked(c, D).raced = c.raced \ D
<1> DEFINE wrote == c.wrote \cup D
           raced == c.raced \ D
           b     == [c EXCEPT !.wrote = wrote, !.raced = raced]
<1>1. Marked(c, D) = b
    BY DEF Marked
<1> HIDE DEF wrote, raced
<1>2. b.op = c.op /\ b.doc = c.doc /\ b.pc = c.pc /\ b.kind = c.kind /\ b.text = c.text
    BY DEF Calls
<1>3. b.ref = c.ref /\ b.state = c.state /\ b.folder = c.folder /\ b.listed = c.listed
    BY DEF Calls
<1>4. b.was = c.was /\ b.wrote = wrote /\ b.raced = raced
    BY DEF Calls
<1>5. b.named = c.named /\ b.create = c.create /\ b.fresh = c.fresh
    BY DEF Calls
<1> HIDE DEF b
<1>6. QED
    BY <1>1, <1>2, <1>3, <1>4, <1>5 DEF Alike, wrote, raced

(* After a step that changes the documents D: where each call is.          *)
LEMMA ChangeIs ==
    ASSUME NEW t \in Tasks, NEW call, NEW D, Change(t, D, call)
    PROVE  /\ task'[t] = IF call = None THEN None ELSE Marked(call, D)
           /\ \A u \in Tasks \ {t} :
                  task'[u] = IF task[u] = None THEN None ELSE [task[u] EXCEPT !.raced = @ \cup D]
BY DEF Change, Marked

LEMMA ChangeTells ==
    ASSUME IInv, CallsTell, NEW t \in Tasks, NEW call, NEW D, Change(t, D, call), SameDocs(D),
           call # None => CallTells(Marked(call, D), AllDocs')
    PROVE  CallsTell'
<1> SUFFICES ASSUME NEW u \in Tasks, task'[u] # None
             PROVE  CallTells(task'[u], AllDocs')
    BY DEF CallsTell, CallTells, Placed, Knows, Truthful, DescribesIn, Carried
<1>1. CASE u = t
    BY <1>1, ChangeIs
<1>2. CASE u # t
    <2>1. task[u] # None /\ task'[u] = [task[u] EXCEPT !.raced = @ \cup D]
        BY <1>2, ChangeIs
    <2>2. task[u] \in Calls /\ CallTells(task[u], AllDocs)
        BY <2>1 DEF IInv, TypeOK, CallsTell
    <2>3. QED
        BY <2>1, <2>2, OthersTell DEF SameDocs
<1>3. QED
    BY <1>1, <1>2

LEMMA StepTells ==
    ASSUME IInv, CallsTell, NEW t \in Tasks, NEW call, Step(t, call), UNCHANGED <<skill, child>>,
           call # None => CallTells(call, AllDocs)
    PROVE  CallsTell'
<1>1. AllDocs' = AllDocs
    BY DEF AllDocs, Doc
<1> SUFFICES ASSUME NEW u \in Tasks, task'[u] # None
             PROVE  CallTells(task'[u], AllDocs)
    BY <1>1 DEF CallsTell
<1>2. task'[u] = IF u = t THEN call ELSE task[u]
    BY DEF IInv, TypeOK, Step
<1>3. QED
    BY <1>2 DEF CallsTell

-----------------------------------------------------------------------------
(* What calls owe.                                                         *)
LEMMA FollowOn ==
    ASSUME history' = history, NEW d, AllDocs'[d] = AllDocs[d], Follows(d)
    PROVE  Follows(d)'
<1>1. \A i : IsNewest(i, d)' <=> IsNewest(i, d)
    BY DEF IsNewest, RecordsOf
<1>2. RecordsOf(d)' = RecordsOf(d)
    BY DEF RecordsOf
<1>3. \A i : DescribesIn(history[i], AllDocs[d]) => DescribesIn(history[i], AllDocs[d])'
    BY DEF DescribesIn, Carried
<1>4. QED
    BY <1>1, <1>2, <1>3 DEF Follows

LEMMA MarkedCall ==
    ASSUME NEW c \in Calls, NEW D \in SUBSET Docs
    PROVE  Marked(c, D) \in Calls
<1> DEFINE wrote == c.wrote \cup D
           raced == c.raced \ D
<1>1. wrote \in SUBSET Docs /\ raced \in SUBSET Docs
    BY DEF Calls
<1>2. Marked(c, D) = [c EXCEPT !.wrote = wrote, !.raced = raced]
    BY DEF Marked
<1> HIDE DEF wrote, raced
<1>3. [c EXCEPT !.wrote = wrote, !.raced = raced] \in Calls
    BY <1>1 DEF Calls
<1>4. QED
    BY <1>2, <1>3

(* What another call owes it still owes.                                   *)
LEMMA OthersOwe ==
    ASSUME IInv, NEW t \in Tasks, NEW call, NEW D \in SUBSET Docs, Change(t, D, call),
           NEW u \in Tasks \ {t}, task[u] # None
    PROVE  task'[u] # None /\ Owes(task'[u]) = Owes(task[u])
<1> DEFINE raced == task[u].raced \cup D
           b     == [task[u] EXCEPT !.raced = raced]
<1>1. task'[u] = b
    BY ChangeIs
<1>2. task[u] \in Calls
    BY DEF IInv, TypeOK
<1>3. raced \in SUBSET Docs
    BY <1>2 DEF Calls
<1> HIDE DEF raced
<1>4. b \in Calls
    BY <1>2, <1>3 DEF Calls
<1>5. b.wrote = task[u].wrote /\ b.doc = task[u].doc /\ b.listed = task[u].listed
    BY <1>2 DEF Calls
<1> HIDE DEF b
<1>6. QED
    BY <1>1, <1>4, <1>5, CallsAssumption DEF Owes

(* The documents D that a step of t changes are excused or owed by t.      *)
LEMMA ChangeFollows ==
    ASSUME IInv, FollowInv, NEW t \in Tasks, NEW call, call # None => call \in Calls,
           NEW D \in SUBSET Docs, Change(t, D, call), SameDocs(D), history' = history,
           task[t] # None =>
               \A d \in Owes(task[t]) : d \in excused' \/ (call # None /\ d \in Owes(call)),
           \A d \in D \cup excused :
               d \in excused' \/ (call # None /\ d \in D \cap ({call.doc} \cup call.listed))
    PROVE  FollowInv'
<1> SUFFICES ASSUME NEW d \in Docs, d \notin excused', ~Owing(d)'
             PROVE  Follows(d)'
    BY DEF FollowInv
<1>1. task'[t] = IF call = None THEN None ELSE Marked(call, D)
    BY ChangeIs
<1>2. ASSUME call # None
      PROVE  d \notin Owes(call) /\ d \notin D \cap ({call.doc} \cup call.listed)
    <2>1. /\ Alike(Marked(call, D), call)
          /\ Marked(call, D).wrote = call.wrote \cup D
        BY <1>2, MarkedIs
    <2>2. Marked(call, D) # None
        BY <1>2, MarkedCall, CallsAssumption
    <2>3. d \notin Owes(Marked(call, D))
        BY <1>1, <1>2, <2>2 DEF Owing
    <2>4. QED
        BY <2>1, <2>3 DEF Owes, Alike
<1>3. d \notin D /\ d \notin excused
    BY <1>2
<1>4. ~Owing(d)
    <2>1. ASSUME NEW u \in Tasks, task[u] # None, d \in Owes(task[u])
          PROVE  FALSE
        <3>1. CASE u = t
            BY <1>2, <2>1, <3>1
        <3>2. CASE u # t
            BY <2>1, <3>2, OthersOwe DEF Owing
        <3>3. QED
            BY <3>1, <3>2
    <2>2. QED
        BY <2>1 DEF Owing
<1>5. Follows(d)
    BY <1>3, <1>4 DEF FollowInv
<1>6. AllDocs'[d] = AllDocs[d]
    BY <1>3 DEF SameDocs
<1>7. QED
    BY <1>5, <1>6, FollowOn

(* A step of t that changes no document and forgets nothing it owes.       *)
LEMMA StepFollows ==
    ASSUME IInv, FollowInv, NEW t \in Tasks, NEW call, Step(t, call),
           UNCHANGED <<skill, child>>, history' = history, excused \subseteq excused',
           task[t] # None =>
               \A d \in Owes(task[t]) : d \in excused' \/ (call # None /\ d \in Owes(call))
    PROVE  FollowInv'
<1> SUFFICES ASSUME NEW d \in Docs, d \notin excused', ~Owing(d)'
             PROVE  Follows(d)'
    BY DEF FollowInv
<1>1. \A u \in Tasks : task'[u] = IF u = t THEN call ELSE task[u]
    BY DEF IInv, TypeOK, Step
<1>2. ~Owing(d)
    BY <1>1 DEF Owing
<1>3. Follows(d)
    BY <1>2 DEF FollowInv
<1>4. AllDocs' = AllDocs
    BY DEF AllDocs, Doc
<1>5. QED
    BY <1>3, <1>4, FollowOn

(* The two kinds of steps that write no record.                            *)
LEMMA ChangeTracks ==
    ASSUME IInv, TrackInv, NEW t \in Tasks, NEW call, call # None => call \in Calls,
           NEW D \in SUBSET Docs, Change(t, D, call), SameDocs(D), history' = history,
           task[t] # None =>
               \A d \in Owes(task[t]) : d \in excused' \/ (call # None /\ d \in Owes(call)),
           \A d \in D \cup excused :
               d \in excused' \/ (call # None /\ d \in D \cap ({call.doc} \cup call.listed)),
           call # None => CallTells(Marked(call, D), AllDocs')
    PROVE  TrackInv'
<1>1. CallsTell'
    BY ChangeTells DEF TrackInv
<1>2. RecordsTell'
    BY DEF TrackInv, RecordsTell, Truthful, Carried
<1>3. FollowInv'
    BY ChangeFollows DEF TrackInv
<1>4. QED
    BY <1>1, <1>2, <1>3 DEF TrackInv

LEMMA StepTracks ==
    ASSUME IInv, TrackInv, NEW t \in Tasks, NEW call, Step(t, call),
           UNCHANGED <<skill, child>>, history' = history, excused \subseteq excused',
           call # None => CallTells(call, AllDocs),
           task[t] # None =>
               \A d \in Owes(task[t]) : d \in excused' \/ (call # None /\ d \in Owes(call))
    PROVE  TrackInv'
<1>1. CallsTell'
    BY StepTells DEF TrackInv
<1>2. RecordsTell'
    BY DEF TrackInv, RecordsTell, Truthful, Carried
<1>3. FollowInv'
    BY StepFollows DEF TrackInv
<1>4. QED
    BY <1>1, <1>2, <1>3 DEF TrackInv

(* A step that inserts a record, of a document d that t then owes no more. *)
LEMMA RecordTracks ==
    ASSUME IInv, TrackInv, NEW t \in Tasks, task[t] # None, NEW call, Step(t, call),
           UNCHANGED <<skill, child>>, call # None => CallTells(call, AllDocs),
           NEW record \in Records, NEW d \in Docs, record.doc = d,
           NEW stored \in BOOLEAN, NEW raised \in BOOLEAN,
           Insert(record, stored, raised), excused' = Excused(t, stored, d),
           record.fresh = TRUE => Truthful(record),
           d \notin task[t].raced => DescribesIn(record, AllDocs[d]),
           \A x \in Owes(task[t]) \ {d} : call # None /\ x \in Owes(call)
    PROVE  TrackInv'
<1>1. CallsTell'
    BY StepTells DEF TrackInv
<1>2. AllDocs' = AllDocs
    BY DEF AllDocs, Doc
<1>3. history \in Seq(Records)
    BY DEF IInv, TypeOK
<1>4. CASE history' = history
    <2>1. stored = FALSE
        <3>1. CASE stored = TRUE
            <4>1. history' = Append(history, record)
                BY <3>1 DEF Insert
            <4>2. Len(history') = Len(history) + 1
                BY <1>3, <4>1
            <4>3. QED
                BY <1>3, <1>4, <4>2
        <3>2. QED
            BY <3>1
    <2>2. excused' = excused \cup {d}
        BY <2>1 DEF Excused
    <2>3. RecordsTell'
        BY <1>4 DEF TrackInv, RecordsTell, Truthful, Carried
    <2>4. \A x \in Owes(task[t]) : x \in excused' \/ (call # None /\ x \in Owes(call))
        BY <2>2
    <2>5. FollowInv'
        BY <1>4, <2>2, <2>4, StepFollows DEF TrackInv
    <2>6. QED
        BY <1>1, <2>3, <2>5 DEF TrackInv
<1>5. CASE history' = Append(history, record)
    <2>0. PICK n : n = Len(history) + 1
        OBVIOUS
    <2>1. /\ DOMAIN history' = DOMAIN history \cup {n}
          /\ history'[n] = record
          /\ \A i \in DOMAIN history : history'[i] = history[i] /\ i < n /\ i \in Nat
        BY <1>3, <1>5, <2>0
    <2>2. n \notin DOMAIN history /\ n \in Nat
        BY <1>3, <2>0
    <2>3. RecordsTell'
        <3>1. ASSUME NEW i \in DOMAIN history', history'[i].fresh = TRUE
              PROVE  Truthful(history'[i])
            BY <2>1, <3>1 DEF TrackInv, RecordsTell
        <3>2. QED
            BY <3>1 DEF RecordsTell, Truthful, Carried
    <2>4. ASSUME NEW x \in Docs, x \notin excused', ~Owing(x)'
          PROVE  Follows(x)'
        <3>1. CASE x = d
            <4>1. d \notin task[t].raced
                BY <2>4, <3>1 DEF Excused
            <4>2. DescribesIn(record, AllDocs[d])
                BY <4>1
            <4>3. DescribesIn(history'[n], AllDocs'[d])
                BY <1>2, <2>1, <4>2
            <4>4. IsNewest(n, d)'
                BY <2>1, <2>2 DEF IsNewest, RecordsOf
            <4>5. QED
                BY <2>1, <3>1, <4>3, <4>4 DEF Follows, DescribesIn, Carried
        <3>2. CASE x # d
            <4>1. x \notin excused
                BY <2>4 DEF Excused
            <4>2. ~Owing(x)
                <5>1. \A u \in Tasks : task'[u] = IF u = t THEN call ELSE task[u]
                    BY DEF IInv, TypeOK, Step
                <5>2. QED
                    BY <2>4, <3>2, <5>1 DEF Owing
            <4>3. Follows(x)
                BY <4>1, <4>2 DEF TrackInv, FollowInv
            <4>4. RecordsOf(x)' = RecordsOf(x)
                BY <2>1, <2>2, <3>2 DEF RecordsOf
            <4>5. \A i : IsNewest(i, x)' <=> IsNewest(i, x)
                BY <4>4 DEF IsNewest
            <4>6. \A i \in DOMAIN history :
                     DescribesIn(history[i], AllDocs[x]) => DescribesIn(history'[i], AllDocs'[x])
                BY <1>2, <2>1
            <4>7. QED
                BY <2>1, <4>3, <4>4, <4>5, <4>6, <1>2 DEF Follows, DescribesIn, Carried
        <3>3. QED
            BY <3>1, <3>2
    <2>5. FollowInv'
        BY <2>4 DEF FollowInv
    <2>6. QED
        BY <1>1, <2>3, <2>5 DEF TrackInv
<1>6. QED
    BY <1>4, <1>5 DEF Insert

-----------------------------------------------------------------------------
(* Saves.                                                                  *)
LEMMA BeginTracks ==
    ASSUME IInv, TrackInv, NEW t \in Tasks, NEW call, Begin(t, call),
           UNCHANGED <<store, history, ghosts>>, CallTells(call, AllDocs)
    PROVE  TrackInv'
<1>1. Step(t, call) /\ task[t] = None
    BY DEF Begin, Step
<1>2. UNCHANGED <<skill, child>> /\ history' = history /\ excused' = excused
    BY DEF store, ghosts
<1>3. QED
    BY <1>1, <1>2, StepTracks

LEMMA NoSweep ==
    ASSUME NEW op, NEW pc, op # "delete_skill" \/ pc \notin Late \cup {"record"}
    PROVE  Swept(op, pc) = {}
BY DEF Swept, Late

(* A call before its change.                                               *)
LEMMA BeforeTells ==
    ASSUME NEW c, NEW docs, Placed(c), c.pc \notin After \cup Late,
           c.doc \notin c.raced => Knows(c, docs[c.doc])
    PROVE  CallTells(c, docs)
<1>1. Swept(c.op, c.pc) = {}
    BY NoSweep DEF After
<1>2. QED
    BY <1>1 DEF CallTells, Cleared

LEMMA KindsApart == None \notin {"created", "updated", "deleted", "state_changed"}
BY RecordsAssumption DEF Kinds

LEMMA BeginCreateTracks ==
    ASSUME IInv, TrackInv, NEW t \in Tasks, BeginCreate(t)
    PROVE  TrackInv'
<1> DEFINE call == [Started("save", Skill) EXCEPT !.create = TRUE, !.pc = "look"]
<1>1. Begin(t, call) /\ UNCHANGED <<store, history, ghosts>> /\ skill = None
    BY DEF BeginCreate
<1>2. /\ call.op = "save" /\ call.doc = Skill /\ call.pc = "look" /\ call.kind = None
      /\ call.listed = {} /\ call.wrote = {}
    BY DEF Started
<1> HIDE DEF call
<1>3. Placed(call)
    BY <1>2 DEF Placed, DeletePcs
<1>4. Knows(call, AllDocs[call.doc])
    BY <1>1, <1>2, DocsAre, KindsApart DEF Knows, After
<1>5. call.pc \notin After \cup Late
    BY <1>2 DEF After, Late
<1>6. QED
    BY <1>1, <1>3, <1>4, <1>5, BeforeTells, BeginTracks

LEMMA LabelIs ==
    ASSUME NEW d \in Docs
    PROVE  /\ LabelFor(d) \in {"created", "updated"}
           /\ LabelFor(d) = "created" <=> AllDocs[d] = None
BY DEF LabelFor, Exists, AllDocs

(* A save that has looked.                                                 *)
LEMMA LookedTells ==
    ASSUME NEW c \in Calls, c.op = "save", c.listed = {}, c.wrote = {},
           c.doc = Skill /\ c.doc \notin c.raced /\ c.create = TRUE => skill = None
    PROVE  CallTells(Looked(c), AllDocs) /\ Owes(Looked(c)) = {}
<1> DEFINE kind == LabelFor(c.doc)
           pc   == IF c.doc = Skill /\ ~c.named THEN "folder" ELSE "write"
           b    == [c EXCEPT !.kind = kind, !.pc = pc]
<1>1. Looked(c) = b
    BY DEF Looked
<1>2. kind \in {"created", "updated"} /\ (kind = "created" <=> AllDocs[c.doc] = None)
    BY LabelIs DEF Calls
<1>3. pc \in {"folder", "write"} /\ (c.doc = Skill /\ pc = "write" => c.named # FALSE)
    OBVIOUS
<1> HIDE DEF kind, pc
<1>4. b.op = "save" /\ b.doc = c.doc /\ b.pc = pc /\ b.kind = kind
    BY DEF Calls
<1>5. b.listed = {} /\ b.wrote = {} /\ b.raced = c.raced
    BY DEF Calls
<1>6. b.named = c.named /\ b.create = c.create
    BY DEF Calls
<1> HIDE DEF b
<1>7. Placed(b)
    BY <1>2, <1>3, <1>4, <1>5 DEF Placed, DeletePcs
<1>8. b.pc \notin After \cup Late
    BY <1>3, <1>4 DEF After, Late
<1>9. b.doc \notin b.raced => Knows(b, AllDocs[b.doc])
    BY <1>2, <1>3, <1>4, <1>5, <1>6, <1>8, DocsAre DEF Knows
<1>10. QED
    BY <1>1, <1>5, <1>7, <1>8, <1>9, BeforeTells DEF Owes

LEMMA BeginSaveTracks ==
    ASSUME IInv, TrackInv, NEW t \in Tasks, NEW d \in Docs,
           NEW folder \in Folders \cup {None}, BeginSave(t, d, folder)
    PROVE  TrackInv'
<1> DEFINE begun  == Started("save", d)
           placed == [begun EXCEPT !.folder = folder]
           named  == folder # None
           call   == [placed EXCEPT !.named = named]
<1>1. Begin(t, Looked(call)) /\ UNCHANGED <<store, history, ghosts>>
    BY DEF BeginSave
<1>2. begun \in Calls
    <2>1. calls < MaxCalls
        BY <1>1 DEF Begin
    <2>2. QED
        BY <2>1, StartedFits
<1>3. /\ begun.op = "save" /\ begun.listed = {} /\ begun.wrote = {}
      /\ begun.create = FALSE
    BY DEF Started
<1> HIDE DEF begun
<1>4. placed \in Calls
    BY <1>2 DEF Calls
<1>5. /\ placed.op = "save" /\ placed.listed = {} /\ placed.wrote = {}
      /\ placed.create = FALSE
    BY <1>2, <1>3 DEF Calls
<1>6. named \in BOOLEAN
    OBVIOUS
<1> HIDE DEF placed, named
<1>7. call \in Calls
    BY <1>4, <1>6 DEF Calls
<1>8. call.op = "save" /\ call.listed = {} /\ call.wrote = {} /\ call.create = FALSE
    BY <1>4, <1>5 DEF Calls
<1> HIDE DEF call
<1>9. CallTells(Looked(call), AllDocs)
    BY <1>7, <1>8, LookedTells
<1>10. QED
    BY <1>1, <1>9, BeginTracks

(* What a call in flight is known to be.                                   *)
LEMMA CallIs ==
    ASSUME IInv, TrackInv, NEW t \in Tasks, NEW pc, At(t, pc)
    PROVE  /\ task[t] # None /\ task[t] \in Calls /\ task[t].pc = pc
           /\ CallTells(task[t], AllDocs) /\ Placed(task[t])
BY InFlight DEF TrackInv, CallsTell, CallTells, At

LEMMA LookTracks ==
    ASSUME IInv, TrackInv, NEW t \in Tasks, Look(t)
    PROVE  TrackInv'
<1> DEFINE c == task[t]
<1>1. c \in Calls /\ c.pc = "look" /\ CallTells(c, AllDocs) /\ Placed(c)
    BY CallIs DEF Look
<1>2. Step(t, Looked(c)) /\ UNCHANGED <<skill, child, history, excused>>
    BY DEF Look, store, ghosts
<1>3. c.op = "save" /\ c.listed = {} /\ c.wrote = {}
    BY <1>1 DEF Placed, After, Late
<1>4. c.doc = Skill /\ c.doc \notin c.raced /\ c.create = TRUE => skill = None
    BY <1>1, <1>3, DocsAre DEF CallTells, Knows, After
<1>5. CallTells(Looked(c), AllDocs)
    BY <1>1, <1>3, <1>4, LookedTells
<1>6. Owes(c) = {}
    BY <1>3 DEF Owes
<1>7. QED
    BY <1>2, <1>5, <1>6, StepTracks

LEMMA LookFolderTracks ==
    ASSUME IInv, TrackInv, NEW t \in Tasks, LookFolder(t)
    PROVE  TrackInv'
<1> DEFINE c      == task[t]
           folder == FolderOfSkill
           b      == [c EXCEPT !.folder = folder, !.pc = "write"]
<1>1. c \in Calls /\ c.pc = "folder" /\ CallTells(c, AllDocs) /\ Placed(c)
    BY CallIs DEF LookFolder
<1>2. Step(t, b) /\ UNCHANGED <<skill, child, history, excused>>
    BY DEF LookFolder, store, ghosts
<1>3. c.op = "save" /\ c.listed = {} /\ c.wrote = {}
    BY <1>1 DEF Placed, After, Late
<1>4. folder = FolderIn(AllDocs[Skill])
    BY DocsAre DEF FolderOfSkill, FolderIn
<1> HIDE DEF folder
<1>5. b.op = c.op /\ b.doc = c.doc /\ b.pc = "write" /\ b.kind = c.kind
    BY <1>1 DEF Calls
<1>6. b.listed = c.listed /\ b.wrote = c.wrote /\ b.raced = c.raced
    BY <1>1 DEF Calls
<1>7. b.folder = folder /\ b.create = c.create
    BY <1>1 DEF Calls
<1> HIDE DEF b
<1>8. Placed(b)
    BY <1>1, <1>3, <1>5, <1>6 DEF Placed, DeletePcs
<1>9. b.pc \notin After \cup Late
    BY <1>5 DEF After, Late
<1>10. b.doc \notin b.raced => Knows(b, AllDocs[b.doc])
    <2>1. c.doc \notin c.raced => Knows(c, AllDocs[c.doc])
        BY <1>1 DEF CallTells
    <2>2. c.kind # "deleted"
        BY <1>1, <1>3, KindsApart DEF Placed
    <2>3. QED
        BY <1>1, <1>3, <1>4, <1>5, <1>6, <1>7, <1>9, <2>1, <2>2 DEF Knows, After
<1>11. CallTells(b, AllDocs)
    BY <1>8, <1>9, <1>10, BeforeTells
<1>12. Owes(c) = {}
    BY <1>3 DEF Owes
<1>13. QED
    BY <1>2, <1>11, <1>12, StepTracks

(* A call after its change of D, on its way to the record or further on in *)
(* the deletion.                                                           *)
LEMMA MarkedTells ==
    ASSUME NEW c \in Calls, NEW D, NEW docs, Placed(c), c.pc \in After \cup Late,
           c.doc \notin c.raced \ D => Knows(c, docs[c.doc]),
           Cleared(c, c.raced \ D, docs),
           c.pc \in After /\ c.fresh = TRUE => Truthful(c)
    PROVE  CallTells(Marked(c, D), docs)
<1> DEFINE b == Marked(c, D)
<1>1. Alike(b, c) /\ b.raced = c.raced \ D
    BY MarkedIs
<1> HIDE DEF b
<1>2. Placed(b)
    BY <1>1 DEF Placed, Alike
<1>3. b.doc \notin b.raced => Knows(b, docs[b.doc])
    <2>1. b.doc = c.doc
        BY <1>1 DEF Alike
    <2>2. QED
        BY <1>1, <2>1, AlikeKnows
<1>4. Cleared(b, b.raced, docs)
    BY <1>1 DEF Alike, Cleared
<1>5. b.pc \in After /\ b.fresh = TRUE => Truthful(b)
    <2>1. b.pc \in After /\ b.fresh = TRUE => c.pc \in After /\ c.fresh = TRUE
        BY <1>1 DEF Alike
    <2>2. QED
        BY <1>1, <2>1, AlikeTruthful
<1>6. CallTells(b, docs)
    BY <1>2, <1>3, <1>4, <1>5 DEF CallTells
<1>7. QED
    BY <1>6 DEF b

LEMMA AfterTells ==
    ASSUME NEW c \in Calls, NEW D, NEW docs, Placed(c), c.pc \in After, c.op # "delete_skill",
           DescribesIn(c, docs[c.doc]), c.fresh = TRUE => Truthful(c)
    PROVE  CallTells(Marked(c, D), docs)
<1>1. Knows(c, docs[c.doc])
    BY DEF Knows, After
<1>2. Cleared(c, c.raced \ D, docs)
    BY NoSweep DEF Cleared
<1>3. QED
    BY <1>1, <1>2, MarkedTells

(* A write by t of its document d.                                         *)
LEMMA WrittenTracks ==
    ASSUME IInv, TrackInv, NEW t \in Tasks, At(t, "write"), NEW d \in Docs,
           NEW told \in BOOLEAN, NEW done \in Calls, done.pc \in After, done.doc = d,
           done.op # "delete_skill", Placed(done), Written(t, d, told, done),
           SameDocs({d}), DescribesIn(done, AllDocs'[d]),
           done.fresh = TRUE => Truthful(done)
    PROVE  TrackInv'
<1> DEFINE next == IF told THEN done ELSE None
<1>1. /\ Change(t, {d}, next) /\ history' = history
      /\ excused' = IF told THEN excused \ {d} ELSE excused \cup {d}
    BY DEF Written
<1>2. next # None => told = TRUE /\ next = done
    OBVIOUS
<1>3. done # None
    BY CallsAssumption
<1>4. \A x \in {d} \cup excused :
         x \in excused' \/ (next # None /\ x \in {d} \cap ({next.doc} \cup next.listed))
    BY <1>1, <1>3
<1> HIDE DEF next
<1>5. Owes(task[t]) = {}
    BY CallIs DEF Placed, After, Late, Owes
<1>6. CallTells(Marked(done, {d}), AllDocs')
    BY AfterTells
<1>7. next # None => next \in Calls /\ CallTells(Marked(next, {d}), AllDocs')
    BY <1>2, <1>6
<1>8. {d} \in SUBSET Docs
    OBVIOUS
<1>9. QED
    BY <1>1, <1>4, <1>5, <1>7, <1>8, ChangeTracks

(* A save after its change.                                                *)
SavedAs(b, c, was, state) ==
    /\ b.op = c.op /\ b.doc = c.doc /\ b.kind = c.kind /\ b.text = c.n
    /\ b.ref = c.ref /\ b.state = state /\ b.listed = c.listed /\ b.was = was
    /\ b.fresh = TRUE => c.doc \notin c.raced

LEMMA SavedIs ==
    ASSUME NEW t, NEW state, task[t] \in Calls
    PROVE  SavedAs(Saved(t, state), task[t], TextOf(task[t].doc), state)
<1> DEFINE c     == task[t]
           text  == c.n
           was   == TextOf(c.doc)
           fresh == c.doc \notin c.raced
           pc    == RecordPc(c.doc, c.n)
           b     == [c EXCEPT !.text = text, !.was = was, !.fresh = fresh,
                              !.state = state, !.pc = pc]
<1>1. Saved(t, state) = b
    BY DEF Saved
<1> HIDE DEF text, was, fresh, pc
<1>2. b.op = c.op /\ b.doc = c.doc /\ b.kind = c.kind
    BY DEF Calls
<1>3. b.text = text /\ b.ref = c.ref /\ b.state = state /\ b.listed = c.listed
    BY DEF Calls
<1>4. b.was = was /\ b.fresh = fresh
    BY DEF Calls
<1> HIDE DEF b
<1>5. QED
    BY <1>1, <1>2, <1>3, <1>4 DEF text, was, fresh, SavedAs

LEMMA TextIs ==
    ASSUME IInv, NEW d \in Docs
    PROVE  TextOf(d) = TextIn(AllDocs[d]) /\ (TextOf(d) = None <=> AllDocs[d] = None)
<1>1. AllDocs[d] = Doc(d)
    BY DEF AllDocs
<1>2. Exists(d) => TextOf(d) # None
    BY DocTypes, TextsAreTexts
<1>3. QED
    BY <1>1, <1>2 DEF TextOf, TextIn, Exists

LEMMA SavedTracks ==
    ASSUME IInv, TrackInv, NEW t \in Tasks, At(t, "write"), task[t].op = "save",
           NEW d, d = task[t].doc, NEW told \in BOOLEAN, NEW state \in States \cup {None},
           Written(t, d, told, Saved(t, state)), SameDocs({d}), AllDocs'[d] # None,
           AllDocs'[d].text = task[t].n, d = Skill => state = AllDocs'[d].state
    PROVE  TrackInv'
<1> DEFINE c == task[t]
           b == Saved(t, state)
<1>1. /\ c \in Calls /\ c.pc = "write" /\ CallTells(c, AllDocs) /\ Placed(c) /\ d \in Docs
      /\ c.ref = None /\ c.kind # None
    BY CallIs, InFlight DEF Fits, Calls
<1>2. b \in Calls /\ b.pc \in After
    BY SavedPc DEF After
<1>3. /\ b.op = "save" /\ b.doc = d /\ b.kind = c.kind /\ b.text = c.n /\ b.ref = None
      /\ b.state = state /\ b.listed = c.listed /\ b.was = TextOf(d)
      /\ b.fresh = TRUE => d \notin c.raced
    <2>1. SavedAs(b, c, TextOf(c.doc), state)
        BY <1>1, SavedIs
    <2>2. QED
        BY <1>1, <2>1 DEF SavedAs
<1> HIDE DEF b
<1>4. b.kind \in {"created", "updated"} /\ b.kind # "deleted"
    BY <1>1, <1>3, KindsApart DEF Placed
<1>5. Placed(b)
    BY <1>1, <1>2, <1>3, <1>4 DEF Placed, After, DeletePcs
<1>6. DescribesIn(b, AllDocs'[d])
    BY <1>3, <1>4 DEF DescribesIn, Carried
<1>7. ASSUME b.fresh = TRUE
      PROVE  Truthful(b)
    <2>1. Knows(c, AllDocs[d])
        BY <1>1, <1>3, <1>7 DEF CallTells
    <2>2. c.kind = "created" <=> AllDocs[d] = None
        BY <1>1, <2>1 DEF Knows
    <2>3. TextOf(d) = None <=> AllDocs[d] = None
        BY <1>1, TextIs
    <2>4. QED
        BY <1>3, <1>4, <2>2, <2>3 DEF Truthful
<1>8. Written(t, d, told, b)
    BY DEF b
<1>9. b.op # "delete_skill"
    BY <1>3
<1>10. QED
    BY <1>1, <1>2, <1>3, <1>5, <1>6, <1>7, <1>8, <1>9, WrittenTracks

LEMMA SaveSkillTracks ==
    ASSUME IInv, TrackInv, NEW t \in Tasks, NEW told \in BOOLEAN, SaveSkill(t, told)
    PROVE  TrackInv'
<1> DEFINE doc == SkillUpsert(task[t])
<1>1. /\ At(t, "write") /\ task[t] \in Calls /\ task[t].op = "save"
      /\ task[t].doc = Skill
    BY InFlight DEF SaveSkill, Saving
<1>2. skill.state \in States \/ skill = None
    BY DEF IInv, TypeOK, SkillDocs
<1>3. doc \in SkillDocs /\ doc.text = task[t].n
    BY <1>1, <1>2, ValuesAssumption DEF SkillUpsert, SkillDocs, Calls
<1>4. doc.state \in States \cup {None}
    BY <1>3 DEF SkillDocs
<1> HIDE DEF doc
<1>5. skill' = doc /\ Written(t, Skill, told, Saved(t, doc.state)) /\ child' = child
    BY DEF SaveSkill, doc
<1>6. AllDocs'[Skill] = doc
    BY <1>5, DocsAre
<1>7. doc # None
    BY <1>3, RecordsAssumption
<1>8. SameDocs({Skill})
    BY <1>5, DocsAre DEF SameDocs, Docs
<1>9. QED
    BY <1>1, <1>3, <1>4, <1>5, <1>6, <1>7, <1>8, SavedTracks

LEMMA SaveChildTracks ==
    ASSUME IInv, TrackInv, NEW t \in Tasks, NEW told \in BOOLEAN,
           NEW ref \in Refs \cup {None}, Saving(t, Children),
           SaveChild(t, task[t].doc, ref, told)
    PROVE  TrackInv'
<1> DEFINE d   == task[t].doc
           doc == [text |-> task[t].n, ref |-> ref]
<1>1. At(t, "write") /\ task[t].op = "save" /\ d \in Children /\ task[t] \in Calls
    BY InFlight DEF Saving
<1>2. doc \in ChildDocs /\ doc.text = task[t].n
    BY <1>1 DEF ChildDocs, Calls
<1>3. child' = [child EXCEPT ![d] = doc] /\ skill' = skill
    BY DEF SaveChild
<1>4. Written(t, d, told, Saved(t, None))
    BY DEF SaveChild
<1> HIDE DEF doc
<1>5. child \in [Children -> ChildDocs \cup {None}]
    BY DEF IInv, TypeOK
<1>6. AllDocs'[d] = doc
    BY <1>1, <1>3, <1>5, DocsAre
<1>7. doc # None /\ d # Skill
    BY <1>1, <1>2, RecordsAssumption, DocsAssumption
<1>8. SameDocs({d})
    BY <1>1, <1>3, <1>5, DocsAre DEF SameDocs, Docs
<1>9. None \in States \cup {None}
    OBVIOUS
<1>10. QED
    BY <1>1, <1>2, <1>4, <1>6, <1>7, <1>8, <1>9, SavedTracks

LEMMA SavesTrack ==
    ASSUME IInv, TrackInv, NEW t \in Tasks, NEW told \in BOOLEAN,
           SaveResource(t, told) \/ SaveScript(t, told)
    PROVE  TrackInv'
<1>1. CASE SaveResource(t, told)
    <2>1. Saving(t, Children) /\ SaveChild(t, task[t].doc, None, told)
        BY <1>1 DEF SaveResource, Saving, Children
    <2>2. QED
        BY <2>1, SaveChildTracks
<1>2. CASE SaveScript(t, told)
    <2>1. /\ Saving(t, Children) /\ SaveChild(t, task[t].doc, LiveRef(task[t]), told)
          /\ task[t] \in Calls
        BY <1>2, InFlight DEF SaveScript, Saving, Children
    <2>2. LiveRef(task[t]) \in Refs \cup {None}
        BY <2>1, LiveRefIs
    <2>3. QED
        BY <2>1, <2>2, SaveChildTracks
<1>3. QED
    BY <1>1, <1>2

-----------------------------------------------------------------------------
(* State changes, and deletions of a resource or a script.                 *)
LEMMA SetStateTracks ==
    ASSUME IInv, TrackInv, NEW t \in Tasks, NEW state \in States, SetState(t, state)
    PROVE  TrackInv'
<1> DEFINE begun == Started("state", Skill)
           text  == skill.text
           told  == [begun EXCEPT !.kind = "state_changed", !.text = text, !.was = text]
           call  == [told EXCEPT !.state = state, !.pc = "record"]
<1>1. Skill \in Docs /\ task[t] = None /\ skill # None
    BY DEF Docs, SetState
<1>2. begun \in Calls
    BY <1>1, StartedFits DEF SetState
<1>3. begun.op = "state" /\ begun.doc = Skill /\ begun.ref = None /\ begun.listed = {}
    BY DEF Started
<1>4. skill \in SkillDocs /\ text \in Texts
    BY <1>1 DEF IInv, TypeOK, SkillDocs
<1>5. "state_changed" \in Kinds
    BY DEF Kinds
<1>6. /\ Change(t, {Skill}, call) /\ history' = history /\ child' = child
      /\ excused' = excused \ {Skill} /\ skill' = [skill EXCEPT !.state = state]
    BY DEF SetState, StateInRecord
<1> HIDE DEF begun
<1>7. told \in Calls
    BY <1>2, <1>4, <1>5, ZenonT(60) DEF Calls
<1>8. /\ told.op = "state" /\ told.doc = Skill /\ told.ref = None /\ told.listed = {}
      /\ told.kind = "state_changed" /\ told.text = text
    BY <1>2, <1>3 DEF Calls
<1> HIDE DEF told
<1>9. call \in Calls
    BY <1>7, PcsAre, ZenonT(60) DEF Calls
<1>10. /\ call.op = "state" /\ call.doc = Skill /\ call.ref = None /\ call.listed = {}
       /\ call.kind = "state_changed" /\ call.text = text
    BY <1>7, <1>8 DEF Calls
<1>11. call.state = state /\ call.pc = "record"
    BY <1>7 DEF Calls
<1> HIDE DEF call
<1>12. skill'.text = skill.text /\ skill'.state = state /\ skill' \in SkillDocs
    BY <1>4, <1>6 DEF SkillDocs
<1>13. AllDocs'[Skill] = skill' /\ skill' # None /\ SameDocs({Skill})
    BY <1>6, <1>12, DocsAre, RecordsAssumption DEF SameDocs, Docs
<1>14. Placed(call)
    BY <1>10, <1>11 DEF Placed, DeletePcs, After
<1>15. DescribesIn(call, AllDocs'[Skill])
    BY <1>10, <1>11, <1>12, <1>13 DEF DescribesIn, Carried
<1>16. Truthful(call)
    BY <1>10 DEF Truthful
<1>17. CallTells(Marked(call, {Skill}), AllDocs')
    BY <1>9, <1>10, <1>11, <1>14, <1>15, <1>16, AfterTells DEF After
<1>18. call # None /\ {Skill} \in SUBSET Docs
    BY <1>1, <1>9, CallsAssumption
<1>19. \A d \in {Skill} \cup excused :
          d \in excused' \/ (call # None /\ d \in {Skill} \cap ({call.doc} \cup call.listed))
    BY <1>6, <1>10, <1>18
<1>20. QED
    BY <1>1, <1>6, <1>9, <1>13, <1>17, <1>18, <1>19, ChangeTracks

(* Both deletions read the text first, or do without it.                   *)
LEMMA ReadTells ==
    ASSUME IInv, NEW d \in Docs, NEW text \in BestEffort(TextOf(d)),
           NEW call, call.doc = d, call.text = text, call.pc \notin After \cup Late,
           call.op = "delete" \/ (call.op = "delete_skill" /\ call.doc = Skill),
           call.kind = "deleted", call.listed = {}, call.wrote = {},
           call.pc \in DeletePcs => call.op = "delete_skill",
           call.pc \notin {"look", "folder"}
    PROVE  CallTells(call, AllDocs)
<1>1. Placed(call)
    BY DEF Placed
<1>2. call.text # None => call.text = TextIn(AllDocs[d])
    BY TextIs DEF BestEffort
<1>3. Knows(call, AllDocs[call.doc])
    BY <1>2 DEF Knows
<1>4. QED
    BY <1>1, <1>3, BeforeTells

LEMMA BeginDeleteTracks ==
    ASSUME IInv, TrackInv, NEW t \in Tasks, NEW d \in Children, BeginDelete(t, d)
    PROVE  TrackInv'
<1>1. PICK text \in BestEffort(TextOf(d)) :
         Begin(t, [Started("delete", d) EXCEPT !.kind = "deleted", !.text = text])
    BY DEF BeginDelete
<1> DEFINE call == [Started("delete", d) EXCEPT !.kind = "deleted", !.text = text]
<1>2. Begin(t, call) /\ UNCHANGED <<store, history, ghosts>>
    BY <1>1 DEF BeginDelete
<1>3. /\ call.op = "delete" /\ call.doc = d /\ call.kind = "deleted" /\ call.text = text
      /\ call.pc = "write" /\ call.listed = {} /\ call.wrote = {}
    BY DEF Started
<1> HIDE DEF call
<1>4. call.pc \notin After \cup Late \cup DeletePcs
    BY <1>3 DEF After, Late, DeletePcs
<1>5. d \in Docs
    BY DEF Docs
<1>6. CallTells(call, AllDocs)
    BY <1>3, <1>4, <1>5, ReadTells
<1>7. QED
    BY <1>2, <1>6, BeginTracks

LEMMA BeginDeleteSkillTracks ==
    ASSUME IInv, TrackInv, NEW t \in Tasks, BeginDeleteSkill(t)
    PROVE  TrackInv'
<1>1. PICK text \in BestEffort(TextOf(Skill)) :
         Begin(t, [Started("delete_skill", Skill) EXCEPT
                      !.kind = "deleted", !.text = text, !.pc = "list_resources"])
    BY DEF BeginDeleteSkill
<1> DEFINE call == [Started("delete_skill", Skill) EXCEPT
                       !.kind = "deleted", !.text = text, !.pc = "list_resources"]
<1>2. Begin(t, call) /\ UNCHANGED <<store, history, ghosts>>
    BY <1>1 DEF BeginDeleteSkill
<1>3. /\ call.op = "delete_skill" /\ call.doc = Skill /\ call.kind = "deleted"
      /\ call.text = text /\ call.pc = "list_resources" /\ call.listed = {}
      /\ call.wrote = {}
    BY DEF Started
<1> HIDE DEF call
<1>4. call.pc \notin After \cup Late \cup {"look", "folder"}
    BY <1>3 DEF After, Late
<1>5. Skill \in Docs
    BY DEF Docs
<1>6. CallTells(call, AllDocs)
    BY <1>3, <1>4, <1>5, ReadTells
<1>7. QED
    BY <1>2, <1>6, BeginTracks

LEMMA NothingToDeleteTracks ==
    ASSUME IInv, TrackInv, NEW t \in Tasks, NothingToDelete(t)
    PROVE  TrackInv'
<1>1. Owes(task[t]) = {}
    BY CallIs DEF NothingToDelete, Placed, After, Late, Owes
<1>2. Step(t, None) /\ UNCHANGED <<skill, child, history, excused>>
    BY DEF NothingToDelete, store, ghosts
<1>3. QED
    BY <1>1, <1>2, StepTracks

LEMMA DeletedIs ==
    ASSUME NEW t, task[t] \in Calls
    PROVE  /\ Deleted(t).op = task[t].op /\ Deleted(t).doc = task[t].doc
           /\ Deleted(t).kind = task[t].kind /\ Deleted(t).text = task[t].text
           /\ Deleted(t).ref = task[t].ref /\ Deleted(t).listed = task[t].listed
           /\ Deleted(t).was = TextOf(task[t].doc)
           /\ Deleted(t).fresh = TRUE => task[t].doc \notin task[t].raced /\ task[t].text # None
<1> DEFINE c     == task[t]
           was   == TextOf(c.doc)
           fresh == c.doc \notin c.raced /\ c.text # None
           pc    == RecordPc(c.doc, c.text)
           b     == [c EXCEPT !.was = was, !.fresh = fresh, !.pc = pc]
<1>1. Deleted(t) = b
    BY DEF Deleted
<1> HIDE DEF was, fresh, pc
<1>2. b.op = c.op /\ b.doc = c.doc /\ b.kind = c.kind
    BY DEF Calls
<1>3. b.text = c.text /\ b.ref = c.ref /\ b.listed = c.listed
    BY DEF Calls
<1>4. b.was = was /\ b.fresh = fresh
    BY DEF Calls
<1> HIDE DEF b
<1>5. QED
    BY <1>1, <1>2, <1>3, <1>4 DEF was, fresh

LEMMA DeleteChildTracks ==
    ASSUME IInv, TrackInv, NEW t \in Tasks, NEW told \in BOOLEAN,
           NEW D \in SUBSET Children, DeleteChild(t, D, told)
    PROVE  TrackInv'
<1> DEFINE c == task[t]
           d == c.doc
           b == Deleted(t)
<1>1. /\ At(t, "write") /\ c.op = "delete" /\ d \in Children /\ d \in Docs
      /\ skill' = skill /\ child' = [child EXCEPT ![d] = None]
      /\ Written(t, d, told, b) /\ Exists(d)
    BY DEF DeleteChild, Deleted, Docs
<1>2. c \in Calls /\ c.pc = "write" /\ CallTells(c, AllDocs) /\ Placed(c) /\ c.ref = None
    BY <1>1, CallIs, InFlight DEF Fits
<1>3. b \in Calls /\ b.pc \in After
    BY <1>1, DeletedFits DEF Fits, After
<1>4. b.op = c.op /\ b.doc = d /\ b.kind = c.kind
    BY <1>2, DeletedIs
<1>5. b.text = c.text /\ b.ref = c.ref /\ b.listed = c.listed
    BY <1>2, DeletedIs
<1>6. b.was = TextOf(d) /\ (b.fresh = TRUE => d \notin c.raced /\ c.text # None)
    BY <1>2, DeletedIs
<1> HIDE DEF b
<1>7. c.kind = "deleted" /\ c.listed = {}
    BY <1>1, <1>2 DEF Placed
<1>8. Placed(b)
    BY <1>1, <1>3, <1>4, <1>5, <1>7 DEF Placed, After, DeletePcs
<1>9. AllDocs'[d] = None /\ SameDocs({d})
    <2>1. child \in [Children -> ChildDocs \cup {None}]
        BY DEF IInv, TypeOK
    <2>2. QED
        BY <1>1, <2>1, DocsAre DEF SameDocs, Docs
<1>10. DescribesIn(b, AllDocs'[d])
    BY <1>4, <1>7, <1>9 DEF DescribesIn
<1>11. ASSUME b.fresh = TRUE
       PROVE  Truthful(b)
    <2>1. Knows(c, AllDocs[d])
        BY <1>2, <1>6, <1>11 DEF CallTells
    <2>2. c.text = TextIn(AllDocs[d])
        BY <1>2, <1>6, <1>7, <1>11, <2>1 DEF Knows, After
    <2>3. TextOf(d) = TextIn(AllDocs[d]) /\ TextOf(d) # None
        BY <1>1, TextIs, DocTypes, TextsAreTexts
    <2>4. QED
        BY <1>2, <1>4, <1>5, <1>6, <1>7, <2>2, <2>3 DEF Truthful, Carried
<1>12. b.op # "delete_skill"
    BY <1>1, <1>4
<1>13. Written(t, d, told, b)
    BY <1>1
<1> HIDE DEF d
<1>14. QED
    BY <1>1, <1>3, <1>4, <1>8, <1>9, <1>10, <1>11, <1>12, <1>13, WrittenTracks

-----------------------------------------------------------------------------
(* delete_skill.                                                           *)
LEMMA ListTracks ==
    ASSUME IInv, TrackInv, NEW t \in Tasks, NEW from \in {"list_resources", "list_scripts"},
           At(t, from), NEW S, NEW pc \in {"list_scripts", "purge_resources"},
           NEW b, b = [task[t] EXCEPT !.listed = S, !.pc = pc], Step(t, b),
           UNCHANGED <<skill, child, history, excused>>
    PROVE  TrackInv'
<1> DEFINE c == task[t]
<1>1. c \in Calls /\ c.pc = from /\ CallTells(c, AllDocs) /\ Placed(c)
    BY CallIs
<1>2. c.op = "delete_skill" /\ c.doc = Skill /\ c.kind = "deleted" /\ c.wrote = {}
    BY <1>1 DEF Placed, DeletePcs, After, Late
<1>3. b.op = c.op /\ b.doc = c.doc /\ b.kind = c.kind /\ b.text = c.text
    BY <1>1 DEF Calls
<1>4. b.wrote = c.wrote /\ b.raced = c.raced /\ b.pc = pc
    BY <1>1 DEF Calls
<1>5. Placed(b)
    BY <1>2, <1>3, <1>4 DEF Placed
<1>6. b.pc \notin After \cup Late
    BY <1>4 DEF After, Late
<1>7. b.doc \notin b.raced => Knows(b, AllDocs[b.doc])
    <2>1. b.doc \notin b.raced => Knows(c, AllDocs[c.doc])
        BY <1>1, <1>3, <1>4 DEF CallTells
    <2>2. Knows(c, AllDocs[c.doc]) => Knows(b, AllDocs[b.doc])
        BY <1>1, <1>2, <1>3, <1>6 DEF Knows, After
    <2>3. QED
        BY <2>1, <2>2
<1>8. CallTells(b, AllDocs)
    BY <1>5, <1>6, <1>7, BeforeTells
<1>9. Owes(c) = {}
    BY <1>2 DEF Owes
<1>10. QED
    BY <1>8, <1>9, StepTracks

LEMMA ListingsTrack ==
    ASSUME IInv, TrackInv, NEW t \in Tasks, ListResources(t) \/ ListScripts(t)
    PROVE  TrackInv'
<1>1. UNCHANGED <<skill, child, history, excused>>
    BY DEF ListResources, ListScripts, store, ghosts
<1>2. CASE ListResources(t)
    <2>1. PICK S : Step(t, [task[t] EXCEPT !.listed = S, !.pc = "list_scripts"])
        BY <1>2 DEF ListResources
    <2>2. At(t, "list_resources")
        BY <1>2 DEF ListResources
    <2>3. QED
        BY <1>1, <2>1, <2>2, ListTracks
<1>3. CASE ListScripts(t)
    <2>1. PICK S : Step(t, [task[t] EXCEPT !.listed = @ \cup S, !.pc = "purge_resources"])
        BY <1>3 DEF ListScripts
    <2>2. At(t, "list_scripts")
        BY <1>3 DEF ListScripts
    <2>3. QED
        BY <1>1, <2>1, <2>2, ListTracks
<1>4. QED
    BY <1>2, <1>3

LEMMA SweepsAre ==
    /\ Swept("delete_skill", "purge_scripts") = Resources
    /\ Swept("delete_skill", "purge_skill") = Children
    /\ Swept("delete_skill", "record") = Children
BY DEF Swept, Children

(* A call of delete_skill that removes documents.                          *)
LEMMA PurgingIs ==
    ASSUME IInv, TrackInv, NEW t \in Tasks, NEW pc \in {"purge_resources"} \cup Late, At(t, pc)
    PROVE  /\ task[t] \in Calls /\ task[t].pc = pc /\ CallTells(task[t], AllDocs)
           /\ task[t].op = "delete_skill" /\ task[t].doc = Skill
           /\ task[t].kind = "deleted" /\ task[t].ref = None
<1>1. task[t] \in Calls /\ task[t].pc = pc /\ CallTells(task[t], AllDocs) /\ Placed(task[t])
    BY CallIs
<1>2. task[t].ref = None
    BY <1>1, InFlight DEF Fits, Late
<1>3. QED
    BY <1>1, <1>2 DEF Placed, DeletePcs, Late

(* What it knows of the skill it knows at the next place too.              *)
LEMMA PurgingKnows ==
    ASSUME NEW c, c.kind = "deleted", c.op = "delete_skill", c.pc \notin After,
           NEW doc, Knows(c, doc),
           NEW b, b.kind = "deleted", b.op = "delete_skill", b.pc \notin After, b.text = c.text
    PROVE  Knows(b, doc)
BY DEF Knows

LEMMA PurgeTracks ==
    ASSUME IInv, TrackInv, NEW t \in Tasks, NEW from \in {"purge_resources", "purge_scripts"},
           At(t, from), NEW D \in SUBSET Children, D = Resources \/ from = "purge_scripts",
           Purge(t, D, "purge_scripts")
    PROVE  TrackInv'
<1> DEFINE c     == task[t]
           gone  == {d \in D : Exists(d)}
           raced == c.raced \ D
           call  == [c EXCEPT !.pc = "purge_scripts", !.raced = raced]
<1>1. /\ c \in Calls /\ c.pc = from /\ CallTells(c, AllDocs)
      /\ c.op = "delete_skill" /\ c.doc = Skill /\ c.kind = "deleted" /\ c.ref = None
    BY PurgingIs DEF Late
<1>2. /\ child' = [d \in Children |-> IF d \in D THEN None ELSE child[d]] /\ skill' = skill
      /\ Change(t, gone, call) /\ history' = history
      /\ excused' = (excused \ gone) \cup (gone \ c.listed)
    BY DEF Purge
<1>3. gone \in SUBSET Docs /\ raced \in SUBSET Docs /\ Skill \notin D
    BY <1>1, DocsAssumption DEF Docs, Calls
<1>4. call \in Calls
    <2>1. c.kind # None
        BY <1>1, KindsApart
    <2>2. Fits(call, content)
        BY <1>1, <1>3, <2>1, ListedFits, PcsAre
    <2>3. QED
        BY <2>2 DEF Fits
<1> HIDE DEF raced
<1>5. call.op = c.op /\ call.doc = c.doc /\ call.kind = c.kind /\ call.text = c.text
    BY <1>1 DEF Calls
<1>6. call.listed = c.listed /\ call.wrote = c.wrote /\ call.ref = c.ref
    BY <1>1 DEF Calls
<1>7. call.pc = "purge_scripts" /\ call.raced = raced
    BY <1>1 DEF Calls
<1> HIDE DEF call
<1>8. SameDocs(gone)
    BY <1>2, DocsAre, ChildIs DEF SameDocs, Docs
<1>9. Placed(call)
    BY <1>1, <1>5, <1>7 DEF Placed, Late
<1>10. call.pc \in Late /\ call.pc \notin After
    BY <1>7 DEF Late, After
<1>11. call.doc \notin call.raced \ gone => Knows(call, AllDocs'[call.doc])
    <2>1. Skill \notin gone /\ AllDocs'[Skill] = AllDocs[Skill]
        BY <1>2, <1>3, DocsAre
    <2>2. call.doc \notin call.raced \ gone => Knows(c, AllDocs[Skill])
        BY <1>1, <1>3, <1>5, <1>7, <2>1 DEF CallTells, raced
    <2>3. c.pc \notin After
        BY <1>1 DEF After
    <2>4. Knows(c, AllDocs[Skill]) => Knows(call, AllDocs[Skill])
        BY <1>1, <1>5, <1>10, <2>3, PurgingKnows
    <2>5. QED
        BY <1>1, <1>5, <2>1, <2>2, <2>4
<1>12. ASSUME NEW d \in Resources, d \notin call.raced \ gone
       PROVE  AllDocs'[d] = None
    <2>1. d \in Children
        BY DEF Children
    <2>2. CASE d \in D
        BY <1>2, <2>1, <2>2, DocsAre
    <2>3. CASE d \notin D
        <3>1. from = "purge_scripts" /\ d \notin c.raced
            BY <1>7, <1>12, <2>3 DEF raced
        <3>2. AllDocs[d] = None
            BY <1>1, <3>1, SweepsAre DEF CallTells, Cleared
        <3>3. QED
            BY <1>2, <2>1, <2>3, <3>2, DocsAre
    <2>4. QED
        BY <2>2, <2>3
<1>13. CallTells(Marked(call, gone), AllDocs')
    <2>1. Cleared(call, call.raced \ gone, AllDocs')
        BY <1>1, <1>5, <1>7, <1>12, SweepsAre DEF Cleared
    <2>2. QED
        BY <1>4, <1>9, <1>10, <1>11, <2>1, MarkedTells
<1>14. call # None
    BY <1>4, CallsAssumption
<1>15. \A d \in Owes(c) : d \in Owes(call)
    BY <1>5, <1>6 DEF Owes
<1>16. \A d \in gone \cup excused :
          d \in excused' \/ (call # None /\ d \in gone \cap ({call.doc} \cup call.listed))
    BY <1>2, <1>6, <1>14
<1>17. Change(t, gone, call) /\ history' = history
    BY <1>2 DEF raced
<1> HIDE DEF gone
<1>18. QED
    BY <1>3, <1>4, <1>8, <1>13, <1>14, <1>15, <1>16, <1>17, ChangeTracks

LEMMA PurgesTrack ==
    ASSUME IInv, TrackInv, NEW t \in Tasks, PurgeResources(t) \/ PurgeScript(t)
    PROVE  TrackInv'
<1>1. CASE PurgeResources(t)
    <2>1. Resources \in SUBSET Children
        BY DEF Children
    <2>2. QED
        BY <1>1, <2>1, PurgeTracks DEF PurgeResources
<1>2. CASE PurgeScript(t)
    <2>1. PICK d \in Scripts : Purge(t, {d}, "purge_scripts")
        BY <1>2 DEF PurgeScript
    <2>2. {d} \in SUBSET Children /\ At(t, "purge_scripts")
        BY <1>2 DEF PurgeScript, Children
    <2>3. QED
        BY <2>1, <2>2, PurgeTracks
<1>3. QED
    BY <1>1, <1>2

LEMMA PurgeEndsTracks ==
    ASSUME IInv, TrackInv, NEW t \in Tasks, PurgeEnds(t)
    PROVE  TrackInv'
<1> DEFINE c     == task[t]
           raced == c.raced \ Scripts
           call  == [c EXCEPT !.pc = "purge_skill", !.raced = raced]
<1>1. /\ c \in Calls /\ c.pc = "purge_scripts" /\ CallTells(c, AllDocs)
      /\ c.op = "delete_skill" /\ c.doc = Skill /\ c.kind = "deleted" /\ c.ref = None
    BY PurgingIs DEF PurgeEnds, Late
<1>2. /\ Step(t, call) /\ UNCHANGED <<skill, child, history, excused>>
      /\ \A d \in Scripts : ~Exists(d)
    BY DEF PurgeEnds, store, ghosts
<1> HIDE DEF raced
<1>3. call.op = c.op /\ call.doc = c.doc /\ call.kind = c.kind /\ call.text = c.text
    BY <1>1 DEF Calls
<1>4. call.listed = c.listed /\ call.wrote = c.wrote
    BY <1>1 DEF Calls
<1>5. call.pc = "purge_skill" /\ call.raced = raced /\ c.kind # None
    BY <1>1, KindsApart DEF Calls
<1>6. call \in Calls
    <2>1. Fits(call, content)
        <3>1. raced \in SUBSET Docs
            BY <1>1 DEF raced, Calls
        <3>2. QED
            BY <1>1, <1>5, <3>1, ListedFits, PcsAre
    <2>2. QED
        BY <2>1 DEF Fits
<1> HIDE DEF call
<1>7. Placed(call)
    BY <1>1, <1>3, <1>5 DEF Placed, Late
<1>8. call.pc \in Late /\ call.pc \notin After
    BY <1>5 DEF Late, After
<1>9. call.doc \notin call.raced => Knows(call, AllDocs[call.doc])
    <2>1. Skill \notin Scripts /\ c.pc \notin After
        BY <1>1, DocsAssumption DEF Children, After
    <2>2. call.doc \notin call.raced => Knows(c, AllDocs[Skill])
        BY <1>1, <1>3, <1>5, <2>1 DEF CallTells, raced
    <2>3. Knows(c, AllDocs[Skill]) => Knows(call, AllDocs[Skill])
        BY <1>1, <1>3, <1>8, <2>1, PurgingKnows
    <2>4. QED
        BY <1>1, <1>3, <2>2, <2>3
<1>10. ASSUME NEW d \in Children, d \notin call.raced
       PROVE  AllDocs[d] = None
    <2>1. CASE d \in Scripts
        BY <1>2, <2>1, DocsAre, ChildIs
    <2>2. CASE d \in Resources
        <3>1. d \notin c.raced
            BY <1>5, <1>10, <2>2, DocsAssumption DEF raced
        <3>2. QED
            BY <1>1, <2>2, <3>1, SweepsAre DEF CallTells, Cleared
    <2>3. QED
        BY <2>1, <2>2 DEF Children
<1>11. CallTells(call, AllDocs)
    <2>1. Cleared(call, call.raced, AllDocs)
        BY <1>1, <1>3, <1>5, <1>10, SweepsAre DEF Cleared
    <2>2. QED
        BY <1>7, <1>8, <1>9, <2>1 DEF CallTells
<1>12. call # None /\ Owes(call) = Owes(c)
    BY <1>3, <1>4, <1>6, CallsAssumption DEF Owes
<1>13. QED
    BY <1>2, <1>11, <1>12, StepTracks

LEMMA PurgeSkillTracks ==
    ASSUME IInv, TrackInv, NEW t \in Tasks, PurgeSkill(t)
    PROVE  TrackInv'
<1> DEFINE c     == task[t]
           was   == skill.text
           fresh == Skill \notin c.raced /\ c.text # None
           told  == [c EXCEPT !.was = was, !.fresh = fresh]
           call  == [told EXCEPT !.pc = "record"]
<1>1. /\ c \in Calls /\ c.pc = "purge_skill" /\ CallTells(c, AllDocs)
      /\ c.op = "delete_skill" /\ c.doc = Skill /\ c.kind = "deleted" /\ c.ref = None
    BY PurgingIs DEF PurgeSkill, Late
<1>2. /\ Change(t, {Skill}, call) /\ skill' = None /\ child' = child /\ history' = history
      /\ excused' = excused \ {Skill} /\ Exists(Skill)
    <2>1. call = [c EXCEPT !.was = was, !.pc = "record", !.fresh = fresh]
        BY <1>1 DEF Calls
    <2>2. QED
        BY <2>1 DEF PurgeSkill
<1>3. skill # None /\ was \in Texts /\ TextOf(Skill) = was /\ Skill \in Docs
    BY <1>2 DEF IInv, TypeOK, SkillDocs, Exists, Doc, TextOf, Docs
<1>4. fresh \in BOOLEAN
    OBVIOUS
<1> HIDE DEF was, fresh
<1>5. told \in Calls
    <2> DEFINE kept == [c EXCEPT !.was = was]
    <2>1. kept \in Calls
        BY <1>1, <1>3 DEF Calls
    <2>2. told = [kept EXCEPT !.fresh = fresh]
        BY <1>1 DEF Calls
    <2> HIDE DEF kept, told
    <2>3. [kept EXCEPT !.fresh = fresh] \in Calls
        BY <1>4, <2>1 DEF Calls
    <2>4. QED
        BY <2>2, <2>3
<1>6. told.op = c.op /\ told.doc = c.doc /\ told.kind = c.kind /\ told.text = c.text
    BY <1>1 DEF Calls
<1>7. told.listed = c.listed /\ told.wrote = c.wrote /\ told.raced = c.raced
    BY <1>1 DEF Calls
<1>8. told.ref = c.ref /\ told.was = was /\ told.fresh = fresh
    BY <1>1 DEF Calls
<1> HIDE DEF told
<1>9. call \in Calls
    BY <1>5, PcsAre DEF Calls
<1>10. call.op = c.op /\ call.doc = c.doc /\ call.kind = c.kind /\ call.text = c.text
    BY <1>5, <1>6 DEF Calls
<1>11. call.listed = c.listed /\ call.wrote = c.wrote /\ call.raced = c.raced
    BY <1>5, <1>7 DEF Calls
<1>12. call.ref = c.ref /\ call.was = was /\ call.fresh = fresh /\ call.pc = "record"
    BY <1>5, <1>8 DEF Calls
<1> HIDE DEF call
<1>13. Placed(call)
    BY <1>1, <1>10, <1>12 DEF Placed, After, DeletePcs
<1>14. SameDocs({Skill}) /\ AllDocs'[Skill] = None
    BY <1>2, DocsAre DEF SameDocs, Docs
<1>15. Knows(call, AllDocs'[call.doc])
    BY <1>1, <1>10, <1>12, <1>14 DEF Knows, DescribesIn, After
<1>16. Cleared(call, call.raced \ {Skill}, AllDocs')
    <2>1. Swept(call.op, call.pc) = Children /\ Swept(c.op, c.pc) = Children
        BY <1>1, <1>10, <1>12, SweepsAre
    <2>2. \A d \in Children : AllDocs'[d] = AllDocs[d] /\ d # Skill
        BY <1>2, DocsAre, DocsAssumption
    <2>3. QED
        BY <1>1, <1>11, <2>1, <2>2 DEF CallTells, Cleared
<1>17. ASSUME call.fresh = TRUE
       PROVE  Truthful(call)
    <2>1. Skill \notin c.raced /\ c.text # None
        BY <1>12, <1>17 DEF fresh
    <2>2. Knows(c, AllDocs[Skill])
        BY <1>1, <2>1 DEF CallTells
    <2>3. c.text = TextIn(AllDocs[Skill])
        BY <1>1, <2>1, <2>2 DEF Knows, After
    <2>4. c.text = was /\ was # None
        BY <1>3, <2>3, TextIs, TextsAreTexts
    <2>5. QED
        BY <1>1, <1>10, <1>12, <2>4 DEF Truthful, Carried
<1>18. CallTells(Marked(call, {Skill}), AllDocs')
    <2>1. call.pc \in After \cup Late
        BY <1>12 DEF After
    <2>2. QED
        BY <1>9, <1>13, <1>15, <1>16, <1>17, <2>1, MarkedTells
<1>19. call # None /\ {Skill} \in SUBSET Docs
    BY <1>3, <1>9, CallsAssumption
<1>20. Owes(call) = Owes(c)
    BY <1>10, <1>11 DEF Owes
<1>21. \A d \in {Skill} \cup excused :
          d \in excused' \/ (call # None /\ d \in {Skill} \cap ({call.doc} \cup call.listed))
    BY <1>1, <1>2, <1>10, <1>19
<1>22. QED
    BY <1>2, <1>9, <1>14, <1>18, <1>19, <1>20, <1>21, ChangeTracks

(* A call that ends excuses what it has not recorded.                      *)
LEMMA EndTracks ==
    ASSUME IInv, TrackInv, NEW t \in Tasks, PurgeNoSkill(t) \/ Crash(t)
    PROVE  TrackInv'
<1>1. /\ Step(t, None) /\ UNCHANGED <<skill, child, history>>
      /\ excused' = excused \cup task[t].wrote
    BY DEF PurgeNoSkill, Crash, store
<1>2. \A d \in Owes(task[t]) : d \in excused'
    BY <1>1 DEF Owes
<1>3. QED
    BY <1>1, <1>2, StepTracks

-----------------------------------------------------------------------------
(* Copies and records.                                                     *)

(* From the copy to the record, with the text or with a ref to its copy.   *)
LEMMA ToRecordTracks ==
    ASSUME IInv, TrackInv, NEW t \in Tasks, At(t, "copy"), NEW c, c = task[t],
           NEW call \in Calls, Step(t, call),
           UNCHANGED <<skill, child, history, excused>>,
           call.op = c.op, call.doc = c.doc, call.kind = c.kind, call.state = c.state,
           call.listed = c.listed, call.wrote = c.wrote, call.raced = c.raced,
           call.was = c.was, call.fresh = TRUE => c.fresh = TRUE, call.pc = "record",
           Carried(call) = Carried(c)
    PROVE  TrackInv'
<1>1. c \in Calls /\ c.pc = "copy" /\ CallTells(c, AllDocs) /\ Placed(c)
    BY CallIs
<1>2. c.op # "delete_skill"
    <2>1. c.doc \in Scripts
        BY InFlight DEF Fits
    <2>2. QED
        BY <1>1, <2>1, DocsAssumption DEF Placed, Children
<1>3. Placed(call)
    BY <1>1, <1>2 DEF Placed, After, DeletePcs
<1>4. c.doc \notin c.raced => Knows(call, AllDocs[call.doc])
    <2>1. c.doc \notin c.raced => DescribesIn(c, AllDocs[c.doc])
        BY <1>1 DEF CallTells, Knows, After
    <2>2. DescribesIn(c, AllDocs[c.doc]) => DescribesIn(call, AllDocs[call.doc])
        BY DEF DescribesIn
    <2>3. QED
        BY <2>1, <2>2 DEF Knows, After
<1>5. Cleared(call, call.raced, AllDocs)
    BY <1>2, NoSweep DEF Cleared
<1>6. call.fresh = TRUE => Truthful(call)
    <2>1. call.fresh = TRUE => Truthful(c)
        BY <1>1 DEF CallTells, After
    <2>2. QED
        BY <2>1 DEF Truthful
<1>7. CallTells(call, AllDocs)
    BY <1>3, <1>4, <1>5, <1>6 DEF CallTells
<1>8. call # None /\ Owes(call) = Owes(c)
    BY CallsAssumption DEF Owes
<1>9. QED
    BY <1>7, <1>8, StepTracks

LEMMA CopiesTrack ==
    ASSUME IInv, TrackInv, NEW t \in Tasks, PutCopy(t) \/ PutCopyFails(t)
    PROVE  TrackInv'
<1> DEFINE c   == task[t]
           ref == build_script_history_content_ref(c.doc, c.text, c.n)
<1>1. At(t, "copy") /\ UNCHANGED <<skill, child, history, excused>>
    BY DEF PutCopy, PutCopyFails, ghosts
<1>2. c \in Calls /\ c.pc = "copy" /\ c.ref = None
    BY <1>1, InFlight DEF Fits
<1>3. ref \in Refs /\ ref.text = c.text
    BY <1>1, CopyIs DEF build_script_history_content_ref
<1>4. CASE PutCopy(t)
    <2> DEFINE call == [c EXCEPT !.ref = ref, !.text = None, !.pc = "record"]
    <2>1. Step(t, call)
        BY <1>4 DEF PutCopy
    <2> HIDE DEF ref
    <2>2. call \in Calls
        <3>1. c \in Calls /\ ref \in Refs
            BY <1>2, <1>3
        <3>2. QED
            BY <3>1, PcsAre DEF Calls
    <2>3. call.op = c.op /\ call.doc = c.doc /\ call.kind = c.kind /\ call.state = c.state
        BY <1>2 DEF Calls
    <2>4. call.listed = c.listed /\ call.wrote = c.wrote /\ call.raced = c.raced
        BY <1>2 DEF Calls
    <2>5. call.was = c.was /\ call.fresh = c.fresh /\ call.pc = "record"
        BY <1>2 DEF Calls
    <2>6. call.ref = ref
        BY <1>2 DEF Calls
    <2> HIDE DEF call
    <2>7. Carried(call) = Carried(c)
        BY <1>2, <1>3, <2>6, RecordsAssumption DEF Carried
    <2>8. QED
        BY <1>1, <2>1, <2>2, <2>3, <2>4, <2>5, <2>7, ToRecordTracks
<1>5. CASE PutCopyFails(t)
    <2> DEFINE call == [c EXCEPT !.pc = "record"]
    <2>1. Step(t, call)
        BY <1>5 DEF PutCopyFails
    <2> HIDE DEF ref
    <2>2. call \in Calls
        BY <1>2, PcsAre DEF Calls
    <2>3. call.op = c.op /\ call.doc = c.doc /\ call.kind = c.kind /\ call.state = c.state
        BY <1>2 DEF Calls
    <2>4. call.listed = c.listed /\ call.wrote = c.wrote /\ call.raced = c.raced
        BY <1>2 DEF Calls
    <2>5. call.was = c.was /\ call.fresh = c.fresh /\ call.pc = "record"
        BY <1>2 DEF Calls
    <2>6. call.ref = c.ref /\ call.text = c.text
        BY <1>2 DEF Calls
    <2> HIDE DEF call
    <2>7. Carried(call) = Carried(c)
        BY <1>2, <2>6 DEF Carried
    <2>8. QED
        BY <1>1, <2>1, <2>2, <2>3, <2>4, <2>5, <2>7, ToRecordTracks
<1>6. QED
    BY <1>4, <1>5

LEMMA RecordChildTracks ==
    ASSUME IInv, TrackInv, NEW t \in Tasks, NEW d \in Children, RecordChild(t, d)
    PROVE  TrackInv'
<1> DEFINE c      == task[t]
           record == RecordOf(c, d)
           listed == c.listed \ {d}
           wrote  == c.wrote \ {d}
           call   == [c EXCEPT !.listed = listed, !.wrote = wrote]
<1>1. /\ At(t, "record") /\ Step(t, call) /\ UNCHANGED <<skill, child>>
      /\ d \in ChildrenToRecord(t)
    BY DEF RecordChild
<1>2. PICK stored \in BOOLEAN, raised \in BOOLEAN :
         /\ Insert(record, stored, raised)
         /\ excused' = Excused(t, stored, d)
    BY DEF RecordChild
<1>3. c \in Calls /\ c.pc = "record" /\ CallTells(c, AllDocs) /\ Placed(c) /\ c # None
    BY <1>1, CallIs
<1>4. d \in c.listed /\ c.op = "delete_skill" /\ c.doc = Skill /\ d # Skill /\ d \in Docs
    <2>1. d \in c.listed
        BY <1>1 DEF ChildrenToRecord
    <2>2. QED
        BY <1>3, <2>1, DocsAssumption DEF Placed, Docs
<1>5. record = [doc |-> d, kind |-> "deleted", text |-> None, ref |-> None,
                state |-> None, was |-> None, fresh |-> FALSE]
    BY <1>4 DEF RecordOf
<1>6. record \in Records
    BY <1>4, <1>5 DEF Records, Kinds
<1>7. record.doc = d /\ record.kind = "deleted" /\ record.fresh = FALSE
    BY <1>5
<1> HIDE DEF record, listed, wrote
<1>8. call.op = c.op /\ call.doc = c.doc /\ call.pc = c.pc /\ call.kind = c.kind
    BY <1>3 DEF Calls
<1>9. call.text = c.text /\ call.ref = c.ref /\ call.state = c.state /\ call.was = c.was
    BY <1>3 DEF Calls
<1>10. call.listed = listed /\ call.wrote = wrote /\ call.raced = c.raced
    BY <1>3 DEF Calls
<1>11. call.fresh = c.fresh
    BY <1>3 DEF Calls
<1> HIDE DEF call
<1>12. Placed(call)
    BY <1>3, <1>4, <1>8 DEF Placed, After
<1>13. Carried(call) = Carried(c)
    BY <1>9 DEF Carried
<1>14. call.doc \notin call.raced => Knows(call, AllDocs[call.doc])
    <2>1. call.doc \notin call.raced => DescribesIn(c, AllDocs[c.doc])
        BY <1>3, <1>8, <1>10 DEF CallTells, Knows, After
    <2>2. DescribesIn(c, AllDocs[c.doc]) => DescribesIn(call, AllDocs[call.doc])
        BY <1>8, <1>9, <1>13 DEF DescribesIn
    <2>3. QED
        BY <1>3, <1>8, <2>1, <2>2 DEF Knows, After
<1>15. Cleared(call, call.raced, AllDocs)
    BY <1>3, <1>8, <1>10 DEF CallTells, Cleared
<1>16. call.pc \in After /\ call.fresh = TRUE => Truthful(call)
    <2>1. call.pc \in After /\ call.fresh = TRUE => Truthful(c)
        BY <1>3, <1>8, <1>11 DEF CallTells
    <2>2. QED
        BY <1>8, <1>9, <1>13, <2>1 DEF Truthful
<1>17. CallTells(call, AllDocs)
    BY <1>12, <1>14, <1>15, <1>16 DEF CallTells
<1>18. d \notin c.raced => DescribesIn(record, AllDocs[d])
    <2>1. d \notin c.raced => AllDocs[d] = None
        BY <1>3, <1>4, SweepsAre DEF CallTells, Cleared
    <2>2. QED
        BY <1>7, <2>1 DEF DescribesIn
<1>19. \A x \in Owes(c) \ {d} : x \in Owes(call)
    BY <1>8, <1>10 DEF Owes, listed, wrote
<1>20. call # None
    <2>1. task[t] \in Calls /\ listed \in SUBSET Children /\ wrote \in SUBSET Docs
        BY <1>3 DEF Calls, listed, wrote
    <2>2. [task[t] EXCEPT !.listed = listed, !.wrote = wrote] \in Calls
        BY <2>1 DEF Calls
    <2>3. QED
        BY <2>2, CallsAssumption DEF call
<1>21. record.fresh = TRUE => Truthful(record)
    BY <1>7
<1>22. QED
    BY <1>1, <1>2, <1>3, <1>4, <1>6, <1>7, <1>17, <1>18, <1>19, <1>20, <1>21, RecordTracks

LEMMA RecordIsTracked ==
    ASSUME IInv, TrackInv, NEW t \in Tasks, Record(t)
    PROVE  TrackInv'
<1> DEFINE c      == task[t]
           d      == c.doc
           record == RecordOf(c, d)
<1>1. /\ At(t, "record") /\ Step(t, None) /\ UNCHANGED <<skill, child>>
      /\ ChildrenToRecord(t) = {}
    BY DEF Record
<1>2. PICK stored \in BOOLEAN, raised \in BOOLEAN :
         /\ Insert(record, stored, raised)
         /\ excused' = Excused(t, stored, d)
    BY DEF Record
<1>3. c \in Calls /\ c.pc = "record" /\ CallTells(c, AllDocs) /\ c # None
    BY <1>1, CallIs
<1>4. record = [doc |-> d, kind |-> c.kind, text |-> c.text, ref |-> c.ref,
                state |-> c.state, was |-> c.was, fresh |-> c.fresh]
    BY DEF RecordOf
<1>5. c.kind \in Kinds /\ d \in Docs
    BY <1>1, InFlight DEF Fits, Calls
<1>6. record \in Records
    BY <1>3, <1>4, <1>5 DEF Records, Calls
<1>7. record.doc = d /\ record.kind = c.kind /\ record.text = c.text /\ record.ref = c.ref
    BY <1>4
<1>8. record.state = c.state /\ record.was = c.was /\ record.fresh = c.fresh
    BY <1>4
<1> HIDE DEF record
<1>9. Carried(record) = Carried(c)
    BY <1>7 DEF Carried
<1>10. record.fresh = TRUE => Truthful(record)
    <2>1. record.fresh = TRUE => Truthful(c)
        BY <1>3, <1>8 DEF CallTells, After
    <2>2. QED
        BY <1>7, <1>8, <1>9, <2>1 DEF Truthful
<1>11. d \notin c.raced => DescribesIn(record, AllDocs[d])
    <2>1. d \notin c.raced => DescribesIn(c, AllDocs[d])
        BY <1>3 DEF CallTells, Knows, After
    <2>2. DescribesIn(c, AllDocs[d]) => DescribesIn(record, AllDocs[d])
        BY <1>7, <1>8, <1>9 DEF DescribesIn
    <2>3. QED
        BY <2>1, <2>2
<1>12. Owes(c) \ {d} = {}
    BY <1>1 DEF ChildrenToRecord, Owes
<1>13. QED
    BY <1>1, <1>2, <1>3, <1>5, <1>6, <1>7, <1>10, <1>11, <1>12, RecordTracks

-----------------------------------------------------------------------------
(* The invariant.                                                          *)
LEMMA TrackInvHolds == Init => TrackInv
<1> SUFFICES ASSUME Init PROVE TrackInv
    OBVIOUS
<1>1. CallsTell /\ RecordsTell
    BY DEF Init, CallsTell, RecordsTell
<1>2. CASE excused = Docs
    BY <1>1, <1>2 DEF TrackInv, FollowInv
<1>3. CASE skill = None /\ child = [d \in Children |-> None]
    <2>1. \A d \in Docs : AllDocs[d] = None
        BY <1>3, DocsAre DEF Docs
    <2>2. \A d \in Docs : RecordsOf(d) = {}
        BY DEF Init, RecordsOf
    <2>3. QED
        BY <1>1, <2>1, <2>2 DEF TrackInv, FollowInv, Follows
<1>4. QED
    BY <1>2, <1>3 DEF Init

LEMMA TrackInvKept ==
    ASSUME IInv, TrackInv, [Next]_vars
    PROVE  TrackInv'
<1>1. CASE UNCHANGED vars
    <2>1. /\ task' = task /\ history' = history /\ excused' = excused
          /\ AllDocs' = AllDocs
        BY <1>1 DEF vars, AllDocs, Doc
    <2>2. CallsTell' /\ RecordsTell'
        BY <2>1 DEF TrackInv, CallsTell, RecordsTell
    <2>3. ASSUME NEW d \in Docs, d \notin excused', ~Owing(d)'
          PROVE  Follows(d)'
        <3>1. Follows(d)
            BY <2>1, <2>3 DEF TrackInv, FollowInv, Owing
        <3>2. QED
            BY <2>1, <3>1, FollowOn
    <2>4. QED
        BY <2>2, <2>3 DEF TrackInv, FollowInv
<1>2. ASSUME NEW t \in Tasks, TaskStep(t)
      PROVE  TrackInv'
    <2>1. CASE BeginCreate(t)
        BY <2>1, BeginCreateTracks
    <2>2. CASE BeginSaveSkill(t) \/ BeginSaveResource(t) \/ BeginSaveScript(t)
        BY <2>2, BeginSaveTracks DEF BeginSaveSkill, BeginSaveResource, BeginSaveScript,
                                     Docs, Children
    <2>3. CASE \E state \in States : SetState(t, state)
        BY <2>3, SetStateTracks
    <2>4. CASE BeginDeleteResource(t) \/ BeginDeleteScript(t)
        BY <2>4, BeginDeleteTracks DEF BeginDeleteResource, BeginDeleteScript, Children
    <2>5. CASE BeginDeleteSkill(t)
        BY <2>5, BeginDeleteSkillTracks
    <2>6. CASE Look(t) \/ LookFolder(t)
        BY <2>6, LookTracks, LookFolderTracks
    <2>7. ASSUME NEW told \in BOOLEAN,
                 SaveSkill(t, told) \/ SaveResource(t, told) \/ SaveScript(t, told)
          PROVE  TrackInv'
        BY <2>7, SaveSkillTracks, SavesTrack
    <2>8. ASSUME NEW told \in BOOLEAN, DeleteResource(t, told) \/ DeleteScript(t, told)
          PROVE  TrackInv'
        <3>1. Resources \in SUBSET Children /\ Scripts \in SUBSET Children
            BY DEF Children
        <3>2. QED
            BY <2>8, <3>1, DeleteChildTracks DEF DeleteResource, DeleteScript
    <2>9. CASE NothingToDelete(t)
        BY <2>9, NothingToDeleteTracks
    <2>10. CASE ListResources(t) \/ ListScripts(t)
        BY <2>10, ListingsTrack
    <2>11. CASE PurgeResources(t) \/ PurgeScript(t)
        BY <2>11, PurgesTrack
    <2>12. CASE PurgeEnds(t) \/ PurgeSkill(t)
        BY <2>12, PurgeEndsTracks, PurgeSkillTracks
    <2>13. CASE PurgeNoSkill(t) \/ Crash(t)
        BY <2>13, EndTracks
    <2>14. CASE PutCopy(t) \/ PutCopyFails(t)
        BY <2>14, CopiesTrack
    <2>15. CASE \E d \in Children : RecordChild(t, d)
        BY <2>15, RecordChildTracks
    <2>16. CASE Record(t)
        BY <2>16, RecordIsTracked
    <2>17. QED
        BY <1>2, <2>1, <2>2, <2>3, <2>4, <2>5, <2>6, <2>7, <2>8, <2>9, <2>10, <2>11,
           <2>12, <2>13, <2>14, <2>15, <2>16 DEF TaskStep
<1>3. QED
    BY <1>1, <1>2 DEF Next

LEMMA Tracked == Spec => [](IInv /\ TrackInv)
<1>1. IInv /\ TrackInv /\ [Next]_vars => TrackInv'
    BY TrackInvKept
<1>2. QED
    BY Inductive, TrackInvHolds, <1>1, PTL DEF Spec

(* What a record resolves to is what its call carried.                     *)
LEMMA ResolvedIs ==
    ASSUME IInv, NEW i \in DOMAIN history
    PROVE  Resolved(history[i]) = Carried(history[i])
<1>1. RecordFits(history[i], content)
    BY DEF IInv, RecordsFit
<1>2. CASE history[i].ref = None
    BY <1>2, RecordsAssumption DEF IInv, TypeOK, Resolved, Carried
<1>3. CASE history[i].ref # None
    BY <1>1, <1>3 DEF RecordFits, IsCopy, Resolved, Carried
<1>4. QED
    BY <1>2, <1>3

(* A record is right about its own change unless another call wrote the    *)
(* document between the call's first look and its change: "created" if and *)
(* only if nothing was there, and a deletion keeps the text it removed.    *)
THEOREM RecordsTrue == Spec => []RecordsTellTheChange
<1>1. IInv /\ TrackInv => RecordsTellTheChange
    <2> SUFFICES ASSUME IInv, TrackInv, NEW i \in DOMAIN history, history[i].fresh
                 PROVE  /\ history[i].kind = "created" => history[i].was = None
                        /\ history[i].kind \in {"updated", "deleted"} => history[i].was # None
                        /\ history[i].kind = "deleted" => Resolved(history[i]) = history[i].was
        BY DEF RecordsTellTheChange
    <2>1. Truthful(history[i])
        BY DEF TrackInv, RecordsTell
    <2>2. QED
        BY <2>1, ResolvedIs DEF Truthful
<1>2. QED
    BY Tracked, <1>1, PTL

(* Once every change of a document is recorded, its newest record tells    *)
(* what the document is, or that it is gone, unless the last change lost   *)
(* its record, was overtaken, or was made by a deletion that had not       *)
(* listed the child or found no skill: no interleaving of calls, failures  *)
(* and lost inserts has another way to leave the history wrong.            *)
THEOREM HistoryFollows == Spec => []HistoryFollowsDocuments
<1>1. ASSUME IInv, TrackInv, NEW d \in Docs \ (excused \cup Unrecorded)
      PROVE  IF RecordsOf(d) = {} THEN ~Exists(d) ELSE Describes(Newest(d), d)
    <2>1. ~Owing(d)
        BY <1>1 DEF Owing, Owes, Unrecorded
    <2>2. Follows(d)
        BY <1>1, <2>1 DEF TrackInv, FollowInv
    <2>3. AllDocs[d] = Doc(d)
        BY DEF AllDocs
    <2>4. CASE RecordsOf(d) = {} /\ AllDocs[d] = None
        BY <2>3, <2>4 DEF Exists
    <2>5. ASSUME NEW i \in DOMAIN history, IsNewest(i, d), DescribesIn(history[i], AllDocs[d])
          PROVE  RecordsOf(d) # {} /\ Describes(Newest(d), d)
        <3>1. i \in RecordsOf(d) /\ history[i].doc = d
            BY <2>5 DEF IsNewest, RecordsOf
        <3>2. \A j \in RecordsOf(d) : (\A k \in RecordsOf(d) : k <= j) => j = i
            <4>1. \A j \in RecordsOf(d) : j \in Nat
                BY <1>1 DEF RecordsOf, IInv, TypeOK
            <4>2. QED
                BY <2>5, <3>1, <4>1 DEF IsNewest
        <3>3. Newest(d) = history[i]
            BY <2>5, <3>1, <3>2 DEF Newest, IsNewest
        <3>4. Resolved(history[i]) = Carried(history[i])
            BY <1>1, ResolvedIs
        <3>5. d = Skill => Doc(d) = skill
            BY DEF Doc
        <3>6. Describes(history[i], d)
            BY <2>3, <2>5, <3>1, <3>4, <3>5 DEF DescribesIn, Describes, Exists, TextOf
        <3>7. QED
            BY <3>1, <3>3, <3>6
    <2>6. QED
        BY <2>2, <2>4, <2>5 DEF Follows
<1>2. IInv /\ TrackInv => HistoryFollowsDocuments
    BY <1>1 DEF HistoryFollowsDocuments
<1>3. QED
    BY Tracked, <1>2, PTL

-----------------------------------------------------------------------------
(* Saves and what they looked at.                                          *)

(* A change by u leaves every other call where it is.                      *)
LEMMA OthersStay ==
    ASSUME IInv, NEW u \in Tasks, NEW call, NEW D \in SUBSET Docs, Change(u, D, call),
           NEW t \in Tasks \ {u}, At(t, "write")
    PROVE  At(t, "write")'
<1> DEFINE raced == task[t].raced \cup D
           b     == [task[t] EXCEPT !.raced = raced]
<1>1. task'[t] = b
    BY ChangeIs DEF At
<1>2. task[t] \in Calls /\ task[t].pc = "write"
    BY InFlight
<1>3. raced \in SUBSET Docs
    BY <1>2 DEF Calls
<1> HIDE DEF raced
<1>4. b \in Calls /\ b.pc = "write"
    BY <1>2, <1>3 DEF Calls
<1> HIDE DEF b
<1>5. QED
    BY <1>1, <1>4, CallsAssumption DEF At

(* Only three steps change the skill document.                             *)
LEMMA SkillChanges ==
    ASSUME NEW u \in Tasks, TaskStep(u), skill' # skill
    PROVE  \/ \E told \in BOOLEAN : SaveSkill(u, told)
           \/ \E state \in States : SetState(u, state)
           \/ PurgeSkill(u)
<1> USE DEF store
<1>1. ~(BeginCreate(u) \/ BeginSaveSkill(u) \/ BeginSaveResource(u) \/ BeginSaveScript(u))
    BY DEF BeginCreate, BeginSaveSkill, BeginSaveResource, BeginSaveScript, BeginSave
<1>2. ~(BeginDeleteResource(u) \/ BeginDeleteScript(u) \/ BeginDeleteSkill(u))
    BY DEF BeginDeleteResource, BeginDeleteScript, BeginDelete, BeginDeleteSkill
<1>3. ~(Look(u) \/ LookFolder(u) \/ NothingToDelete(u) \/ ListResources(u) \/ ListScripts(u))
    BY DEF Look, LookFolder, NothingToDelete, ListResources, ListScripts
<1>4. \A told \in BOOLEAN :
         ~(SaveResource(u, told) \/ SaveScript(u, told) \/ DeleteResource(u, told)
           \/ DeleteScript(u, told))
    BY DEF SaveResource, SaveScript, SaveChild, DeleteResource, DeleteScript, DeleteChild
<1>5. ~(PurgeResources(u) \/ PurgeScript(u) \/ PurgeEnds(u) \/ PurgeNoSkill(u))
    BY DEF PurgeResources, PurgeScript, Purge, PurgeEnds, PurgeNoSkill
<1>6. ~(PutCopy(u) \/ PutCopyFails(u) \/ Record(u) \/ Crash(u))
    BY DEF PutCopy, PutCopyFails, Record, Crash
<1>7. \A d \in Children : ~RecordChild(u, d)
    BY DEF RecordChild
<1>8. QED
    BY <1>1, <1>2, <1>3, <1>4, <1>5, <1>6, <1>7 DEF TaskStep

(* A save changes the folder only if its caller named one, and a save that *)
(* must not overwrite does not, unless another call wrote the skill after  *)
(* the save had looked (save_skill, SaveSkillService.execute).             *)
THEOREM SavesAreCareful == Spec => SavesRespectLooks
<1> DEFINE Respects(t) ==
        (/\ At(t, "write")
         /\ task[t].doc = Skill
         /\ Skill \notin task[t].raced
         /\ skill # None
         /\ skill' # skill
         /\ ~At(t, "write")')
        => /\ ~task[t].create
           /\ ~task[t].named => skill'.folder = skill.folder
<1>1. ASSUME IInv, TrackInv, Next, NEW t \in Tasks
      PROVE  Respects(t)
    <2> SUFFICES ASSUME At(t, "write"), task[t].doc = Skill, Skill \notin task[t].raced,
                        skill # None, skill' # skill, ~At(t, "write")'
                 PROVE  ~task[t].create /\ (~task[t].named => skill'.folder = skill.folder)
        OBVIOUS
    <2>1. PICK u \in Tasks : TaskStep(u)
        BY <1>1 DEF Next
    <2>2. Skill \in Docs
        BY DEF Docs
    <2>3. \E D \in SUBSET Docs : \E call : Change(u, D, call)
        BY <2>1, <2>2, SkillChanges DEF SaveSkill, Written, SetState, PurgeSkill
    <2>4. u = t
        BY <1>1, <2>3, OthersStay
    <2>5. PICK told \in BOOLEAN : SaveSkill(t, told)
        BY <2>1, <2>4, SkillChanges DEF SetState, PurgeSkill, At
    <2>6. task[t] \in Calls /\ CallTells(task[t], AllDocs) /\ task[t].pc = "write"
        BY <1>1, CallIs
    <2>7. task[t].op = "save" /\ skill' = SkillUpsert(task[t])
        BY <2>5 DEF SaveSkill, Saving
    <2>8. Knows(task[t], skill)
        BY <2>6, DocsAre DEF CallTells
    <2>9. /\ task[t].create # TRUE
          /\ task[t].named = FALSE => task[t].folder = skill.folder
        BY <2>6, <2>7, <2>8 DEF Knows, After, FolderIn
    <2>10. task[t].create \in BOOLEAN /\ task[t].named \in BOOLEAN
        BY <2>6 DEF Calls
    <2>11. skill'.folder = task[t].folder
        BY <2>7 DEF SkillUpsert
    <2>12. QED
        BY <2>9, <2>10, <2>11
<1>2. ASSUME NEW t \in Tasks, UNCHANGED vars
      PROVE  Respects(t)
    BY <1>2 DEF vars
<1>3. IInv /\ TrackInv /\ [Next]_vars => [\A t \in Tasks : Respects(t)]_vars
    BY <1>1
<1>4. QED
    BY Tracked, <1>3, PTL DEF Spec, SavesRespectLooks
=============================================================================
