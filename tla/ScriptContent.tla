---------------------------- MODULE ScriptContent ----------------------------
(***************************************************************************)
(* Scripts of one skill as MongoPluginSkillLoader keeps them: a metadata    *)
(* document per script in plugin_scripts, and the text either inline in    *)
(* the document or in a separate content store that the document points    *)
(* at with content_ref.  Two systems, no transaction across them.          *)
(*                                                                         *)
(* A task is one call in flight.  Tasks of one pod and tasks of different  *)
(* pods interleave at every await, so a task only carries its pod's        *)
(* configuration (Mode).  One action is one round trip to MongoDB or to    *)
(* the content store that others can see, together with the local code up  *)
(* to the next one; a put under a ref nobody else knows is taken together  *)
(* with the read that precedes it.  A call that fails after its write was  *)
(* applied, or is cancelled, leaves the same state as Crash does at that   *)
(* point; the only such failure the code handles is SaveUpsertUncertain.   *)
(***************************************************************************)
EXTENDS Naturals, FiniteSets

CONSTANTS
    Scripts,          \* script names of the skill
    Contents,         \* script texts; a text stands for its own digest
    Dates,            \* values date_modified can take (ties are possible)
    Ids,              \* ObjectIds and uuid4 save ids, never drawn twice
    Tasks,            \* calls in flight
    Mode,             \* Mode[t]: how the pod of t is configured
    UncertainWrites,  \* may the driver raise for a write that was applied?
    None              \* absent document, field or value

ConfiguredModes == {"store", "inline", "none"}
ReadErrors == {"missing", "unconfigured"}

ASSUME ScriptsAssumption  == None \notin Scripts
ASSUME ContentsAssumption ==
    /\ None \notin Contents
    /\ None \notin ReadErrors
    /\ Contents \cap ReadErrors = {}
ASSUME ModeAssumption     == Mode \in [Tasks -> ConfiguredModes]
ASSUME UncertainAssumption == UncertainWrites \in BOOLEAN

(* <script key>@<digest>#<save id>                                         *)
Refs == [script : Scripts, digest : Contents, id : Ids]

(* Mutant: refs derived from the content alone, without a save id.         *)
content_addressed_ref(s, c, i) ==
    [script |-> s, digest |-> c, id |-> CHOOSE x \in Ids : TRUE]

build_script_content_ref(s, c, i) == [script |-> s, digest |-> c, id |-> i]

Docs == [id      : Ids,
         content : Contents \cup {None},
         ref     : Refs \cup {None},
         digest  : Contents,
         date    : Dates]

ASSUME RecordsAssumption == None \notin Refs /\ None \notin Docs

VARIABLES
    docs,       \* docs[s]: the current-version document of script s, or None
    store,      \* the content store: a function from the refs it holds
    used,       \* ids ever drawn
    task,       \* task[t]: the local state of the call t runs
    (* What an observer of the whole system would remember.                *)
    watch,      \* watch[t]: what happened to the script t is reading
    lost,       \* refs given up by a crash, a failed call or a "none" pod
    overtaken,  \* refs a migration replaced without having read them
    revoked     \* refs a save deletes although its upsert was applied

ghosts == <<lost, overtaken, revoked>>
vars == <<docs, store, used, task, watch, lost, overtaken, revoked>>

ReadingPcs == {"find", "get", "reread", "getagain"}
Pcs == ReadingPcs \cup
       {"idle", "upsert", "dispose", "purge", "purgedispose", "flip", "answered"}

(* hand is the one ref the task has in hand: the copy it has just put, or  *)
(* the ref it is about to delete.  seen is the document it has read.       *)
Locals == [pc      : Pcs,
           script  : Scripts \cup {None},
           content : Contents \cup ReadErrors \cup {None},
           date    : Dates \cup {None},
           hand    : Refs \cup {None},
           raw     : Docs \cup {None}]

At(pc, s, c, d, hand, raw) ==
    [pc |-> pc, script |-> s, content |-> c, date |-> d, hand |-> hand, raw |-> raw]
Idle == At("idle", None, None, None, None, None)

(* seen: what the script held since the read began; churn: how often its   *)
(* pointer went away since find_one, counted up to 2.                      *)
Watches == [seen : SUBSET (Contents \cup {None}), churn : 0..2]
Unwatched == [seen |-> {}, churn |-> 0]

Reading(t) == task[t].pc \in ReadingPcs
PointerOf(s) == IF docs[s] = None THEN None ELSE docs[s].ref
ValueOf(doc) == IF doc = None THEN None ELSE doc.digest
InHand(r) == {r} \ {None}

TypeOK ==
    /\ docs \in [Scripts -> Docs \cup {None}]
    /\ DOMAIN store \subseteq Refs
    /\ store \in [DOMAIN store -> Contents]
    /\ used \in SUBSET Ids
    /\ task \in [Tasks -> Locals]
    /\ watch \in [Tasks -> Watches]
    /\ lost \in SUBSET Refs
    /\ overtaken \in SUBSET Refs
    /\ revoked \in SUBSET Refs

(* Before the content store is introduced every script is inline.          *)
Init ==
    /\ docs \in [Scripts -> {None} \cup
                   [id : Ids, content : Contents, ref : {None},
                    digest : Contents, date : Dates]]
    /\ \A s \in Scripts : docs[s] # None => docs[s].digest = docs[s].content
    /\ \A s1, s2 \in Scripts :
         docs[s1] # None /\ docs[s2] # None /\ docs[s1].id = docs[s2].id => s1 = s2
    /\ used = {docs[s].id : s \in {x \in Scripts : docs[x] # None}}
    /\ store = [r \in {} |-> None]
    /\ task = [t \in Tasks |-> Idle]
    /\ watch = [t \in Tasks |-> Unwatched]
    /\ lost = {}
    /\ overtaken = {}
    /\ revoked = {}

-----------------------------------------------------------------------------
(* The content store.                                                      *)

StoreWith(r, c) ==
    [x \in DOMAIN store \cup {r} |-> IF x = r THEN c ELSE store[x]]
StoreWithout(r) == [x \in DOMAIN store \ {r} |-> store[x]]

(* Watching what readers live through: a script that goes away counts for  *)
(* two changes, since a reader that has its _id cannot follow it.          *)
ChurnOf(old, new) ==
    IF old = None THEN 0
    ELSE IF new = None THEN 2
    ELSE IF new.ref # old.ref THEN 1 ELSE 0

WatchScripts ==
    watch' = [t \in Tasks |->
        LET s == task[t].script IN
        IF Reading(t)
        THEN [seen  |-> watch[t].seen \cup {ValueOf(docs'[s])},
              churn |-> LET n == watch[t].churn + ChurnOf(docs[s], docs'[s])
                        IN IF n > 2 THEN 2 ELSE n]
        ELSE watch[t]]

(* What a task does next when it has made a pointer unreachable.           *)
DisposingUnchecked(r) ==     \* mutant: no test that there is a ref
    At("dispose", None, None, None, r, None)

Disposing(r) ==
    IF r = None THEN Idle ELSE At("dispose", None, None, None, r, None)

-----------------------------------------------------------------------------
(* save_script                                                             *)

(* The upsert.  It keeps an existing document's _id; a document it inserts *)
(* gets a new one, which may as well be the id of the save.  A "store" pod *)
(* sets content_ref and unsets content, an "inline" pod the reverse, and a *)
(* pod without a store sets content and leaves content_ref as it is.       *)
IdsForUpsert(s, r) ==
    IF docs[s] # None THEN {docs[s].id}
    ELSE IF r # None THEN {r.id} ELSE Ids \ used

(* Mutant: a "store" pod sets content_ref and does not unset content.      *)
UpsertScriptNoUnset(t, s, c, d, r) ==
    \E i \in IdsForUpsert(s, r) :
        /\ docs' = [docs EXCEPT ![s] =
              [id      |-> i,
               content |-> IF Mode[t] = "store"
                           THEN IF docs[s] = None THEN None ELSE docs[s].content
                           ELSE c,
               ref     |-> IF Mode[t] = "store" THEN r
                           ELSE IF Mode[t] = "inline" THEN None
                           ELSE PointerOf(s),
               digest  |-> c,
               date    |-> d]]
        /\ used' = used \cup {i}
        /\ WatchScripts

UpsertScript(t, s, c, d, r) ==
    \E i \in IdsForUpsert(s, r) :
        /\ docs' = [docs EXCEPT ![s] =
              [id      |-> i,
               content |-> IF Mode[t] = "store" THEN None ELSE c,
               ref     |-> IF Mode[t] = "store" THEN r
                           ELSE IF Mode[t] = "inline" THEN None
                           ELSE PointerOf(s),
               digest  |-> c,
               date    |-> d]]
        /\ used' = used \cup {i}
        /\ WatchScripts

(* A pod that writes to the store puts the content under a fresh ref.      *)
SavePut(t, s, c, d) ==
    /\ task[t].pc = "idle"
    /\ Mode[t] = "store"
    /\ \E i \in Ids \ used :
         LET new_ref == build_script_content_ref(s, c, i) IN
         /\ store' = StoreWith(new_ref, c)
         /\ used' = used \cup {i}
         /\ task' = [task EXCEPT ![t] = At("upsert", s, c, d, new_ref, None)]
    /\ UNCHANGED <<docs, watch, ghosts>>

(* The pointer flips and the ref of the previous document is retired.      *)
SaveUpsert(t) ==
    LET me == task[t] IN
    /\ me.pc = "upsert"
    /\ UpsertScript(t, me.script, me.content, me.date, me.hand)
    /\ task' = [task EXCEPT ![t] = Disposing(PointerOf(me.script))]
    /\ UNCHANGED <<store, ghosts>>

(* Mutant: the error handler only raises.                                  *)
SaveUpsertRaisesOnly(t) ==
    /\ task[t].pc = "upsert"
    /\ task' = [task EXCEPT ![t] = Idle]
    /\ UNCHANGED <<docs, store, used, watch, ghosts>>

(* The upsert raises and was not applied: the new content is deleted.      *)
SaveUpsertRaises(t) ==
    /\ task[t].pc = "upsert"
    /\ task' = [task EXCEPT ![t] = Disposing(task[t].hand)]
    /\ UNCHANGED <<docs, store, used, watch, ghosts>>

(* The upsert raises although the server applied it (a timeout, a lost     *)
(* connection): the same handler deletes content that is now referenced.   *)
SaveUpsertUncertain(t) ==
    LET me == task[t] IN
    /\ UncertainWrites
    /\ me.pc = "upsert"
    /\ UpsertScript(t, me.script, me.content, me.date, me.hand)
    /\ task' = [task EXCEPT ![t] = Disposing(me.hand)]
    /\ revoked' = revoked \cup {me.hand}
    /\ lost' = lost \cup InHand(PointerOf(me.script))
    /\ UNCHANGED <<store, overtaken>>

(* A pod that stores inline: only a pod with a store retires the old ref.  *)
SaveInline(t, s, c, d) ==
    /\ task[t].pc = "idle"
    /\ Mode[t] # "store"
    /\ UpsertScript(t, s, c, d, None)
    /\ task' = [task EXCEPT ![t] =
                  Disposing(IF Mode[t] = "inline" THEN PointerOf(s) ELSE None)]
    /\ UNCHANGED <<store, ghosts>>

-----------------------------------------------------------------------------
(* delete_script and delete_skill                                          *)

RemoveDocs(S) == docs' = [s \in Scripts |-> IF s \in S THEN None ELSE docs[s]]
PointersOf(S) == {PointerOf(s) : s \in S} \ {None}

DeleteScript(t, s) ==
    /\ task[t].pc = "idle"
    /\ docs[s] # None
    /\ RemoveDocs({s})
    /\ WatchScripts
    /\ IF Mode[t] = "none"
       THEN /\ lost' = lost \cup PointersOf({s})
            /\ UNCHANGED task
       ELSE /\ task' = [task EXCEPT ![t] = Disposing(PointerOf(s))]
            /\ UNCHANGED lost
    /\ UNCHANGED <<store, used, overtaken, revoked>>

(* Without a store: one delete_many.                                       *)
DeleteSkillScripts(t) ==
    /\ task[t].pc = "idle"
    /\ Mode[t] = "none"
    /\ RemoveDocs(Scripts)
    /\ WatchScripts
    /\ lost' = lost \cup PointersOf(Scripts)
    /\ UNCHANGED <<store, used, task, overtaken, revoked>>

(* With a store: documents are taken one at a time until none is left.     *)
Purging(r) ==
    At(IF r = None THEN "purge" ELSE "purgedispose", None, None, None, r, None)

BeginPurge(t) ==
    /\ task[t].pc = "idle"
    /\ Mode[t] # "none"
    /\ task' = [task EXCEPT ![t] = Purging(None)]
    /\ UNCHANGED <<docs, store, used, watch, ghosts>>

(* Mutant: the documents are taken without looking at their refs.          *)
PurgeOneForgets(t, s) ==
    /\ task[t].pc = "purge"
    /\ docs[s] # None
    /\ RemoveDocs({s})
    /\ WatchScripts
    /\ UNCHANGED <<store, used, task, ghosts>>

PurgeOne(t, s) ==
    /\ task[t].pc = "purge"
    /\ docs[s] # None
    /\ RemoveDocs({s})
    /\ WatchScripts
    /\ task' = [task EXCEPT ![t] = Purging(PointerOf(s))]
    /\ UNCHANGED <<store, used, ghosts>>

EndPurge(t) ==
    /\ task[t].pc = "purge"
    /\ \A s \in Scripts : docs[s] = None
    /\ task' = [task EXCEPT ![t] = Idle]
    /\ UNCHANGED <<docs, store, used, watch, ghosts>>

-----------------------------------------------------------------------------
(* _delete_content_best_effort                                             *)

AfterDispose(t) ==
    IF task[t].pc = "purgedispose" THEN Purging(None) ELSE Idle

Dispose(t) ==
    /\ task[t].pc \in {"dispose", "purgedispose"}
    /\ store' = StoreWithout(task[t].hand)
    /\ task' = [task EXCEPT ![t] = AfterDispose(t)]
    /\ UNCHANGED <<docs, used, watch, ghosts>>

(* The delete raises: logged, and the operation succeeds all the same.     *)
DisposeFails(t) ==
    /\ task[t].pc \in {"dispose", "purgedispose"}
    /\ task' = [task EXCEPT ![t] = AfterDispose(t)]
    /\ lost' = lost \cup {task[t].hand}
    /\ UNCHANGED <<docs, store, used, watch, overtaken, revoked>>

-----------------------------------------------------------------------------
(* read_script, and each document of list_script_documents                 *)

BeginRead(t, s) ==
    /\ task[t].pc = "idle"
    /\ task' = [task EXCEPT ![t] = At("find", s, None, None, None, None)]
    /\ watch' = [watch EXCEPT ![t] = [seen |-> {ValueOf(docs[s])}, churn |-> 0]]
    /\ UNCHANGED <<docs, store, used, ghosts>>

Answered(t, a) ==
    [task EXCEPT ![t] = At("answered", task[t].script, a, None, None, None)]

Following(t, pc, doc) == At(pc, task[t].script, None, None, None, doc)

(* find_one and the local half of _hydrate_script_content: inline content  *)
(* wins, then content_ref.  None is the answer "no such script".           *)
FindScript(t) ==
    LET doc == docs[task[t].script] IN
    /\ task[t].pc = "find"
    /\ watch' = [watch EXCEPT ![t] = [seen |-> watch[t].seen, churn |-> 0]]
    /\ task' = IF doc = None THEN Answered(t, None)
               ELSE IF doc.content # None THEN Answered(t, doc.content)
               ELSE IF doc.ref = None THEN Answered(t, "missing")
               ELSE IF Mode[t] = "none" THEN Answered(t, "unconfigured")
               ELSE [task EXCEPT ![t] = Following(t, "get", doc)]
    /\ UNCHANGED <<docs, store, used, ghosts>>

GetContent(t) ==
    LET ref == task[t].raw.ref IN
    /\ task[t].pc = "get"
    /\ task' = IF ref \in DOMAIN store THEN Answered(t, store[ref])
               ELSE [task EXCEPT ![t] = Following(t, "reread", task[t].raw)]
    /\ UNCHANGED <<docs, store, used, watch, ghosts>>

(* Mutant: no second look.                                                 *)
RereadScriptNever(t) ==
    /\ task[t].pc = "reread"
    /\ task' = Answered(t, "missing")
    /\ UNCHANGED <<docs, store, used, watch, ghosts>>

(* The content is gone: the document is read once more, by _id.            *)
RereadScript(t) ==
    LET doc == docs[task[t].script]
        raw == task[t].raw IN
    /\ task[t].pc = "reread"
    /\ task' = IF doc = None \/ doc.id # raw.id THEN Answered(t, "missing")
               ELSE IF doc.content # None THEN Answered(t, doc.content)
               ELSE IF doc.ref \in {None, raw.ref} THEN Answered(t, "missing")
               ELSE [task EXCEPT ![t] = Following(t, "getagain", doc)]
    /\ UNCHANGED <<docs, store, used, watch, ghosts>>

GetContentAgain(t) ==
    LET ref == task[t].raw.ref IN
    /\ task[t].pc = "getagain"
    /\ task' = Answered(t, IF ref \in DOMAIN store THEN store[ref] ELSE "missing")
    /\ UNCHANGED <<docs, store, used, watch, ghosts>>

EndRead(t) ==
    /\ task[t].pc = "answered"
    /\ task' = [task EXCEPT ![t] = Idle]
    /\ watch' = [watch EXCEPT ![t] = Unwatched]
    /\ UNCHANGED <<docs, store, used, ghosts>>

-----------------------------------------------------------------------------
(* migrate_inline_script_content, one document of the batch                *)

MigratePut(t, s) ==
    /\ task[t].pc = "idle"
    /\ Mode[t] # "none"
    /\ docs[s] # None
    /\ docs[s].content # None
    /\ \E i \in Ids \ used :
         LET ref == build_script_content_ref(s, docs[s].content, i) IN
         /\ store' = StoreWith(ref, docs[s].content)
         /\ used' = used \cup {i}
         /\ task' = [task EXCEPT ![t] = At("flip", s, None, None, ref, docs[s])]
    /\ UNCHANGED <<docs, watch, ghosts>>

(* Mutant: the filter relies on date_modified to tell saves apart.         *)
SameSaveByDate(doc, raw) ==
    /\ doc # None
    /\ doc.id = raw.id
    /\ doc.date = raw.date

(* The update's filter: the document is still the save that was copied.    *)
SameSave(doc, raw) ==
    /\ doc # None
    /\ doc.id = raw.id
    /\ doc.date = raw.date
    /\ doc.digest = raw.digest

PointingAt(doc, r) ==
    [id |-> doc.id, content |-> None, ref |-> r, digest |-> doc.digest, date |-> doc.date]

MigrateFlip(t) ==
    LET me == task[t] IN
    /\ me.pc = "flip"
    /\ IF SameSave(docs[me.script], me.raw)
       THEN /\ docs' = [docs EXCEPT ![me.script] = PointingAt(@, me.hand)]
            /\ WatchScripts
            /\ task' = [task EXCEPT ![t] = Disposing(me.raw.ref)]
            /\ overtaken' = overtaken \cup
                              (InHand(docs[me.script].ref) \ {me.raw.ref})
       ELSE /\ task' = [task EXCEPT ![t] = Disposing(me.hand)]
            /\ UNCHANGED <<docs, watch, overtaken>>
    /\ UNCHANGED <<store, used, lost, revoked>>

-----------------------------------------------------------------------------
(* The process dies, or the call is cancelled or raises, at any point.     *)
Crash(t) ==
    /\ task[t].pc # "idle"
    /\ task' = [task EXCEPT ![t] = Idle]
    /\ watch' = [watch EXCEPT ![t] = Unwatched]
    /\ lost' = lost \cup InHand(task[t].hand)
    /\ UNCHANGED <<docs, store, used, overtaken, revoked>>

(* What an operation does on its own once it has started.                  *)
Continue(t) ==
    \/ SaveUpsert(t)
    \/ EndPurge(t)
    \/ \E s \in Scripts : PurgeOne(t, s)
    \/ Dispose(t)
    \/ FindScript(t)
    \/ GetContent(t)
    \/ RereadScript(t)
    \/ GetContentAgain(t)
    \/ EndRead(t)
    \/ MigrateFlip(t)

Fail(t) ==
    \/ SaveUpsertRaises(t)
    \/ SaveUpsertUncertain(t)
    \/ DisposeFails(t)
    \/ Crash(t)

Call(t) ==
    \/ \E s \in Scripts :
         \/ \E c \in Contents, d \in Dates :
              \/ SavePut(t, s, c, d)
              \/ SaveInline(t, s, c, d)
         \/ DeleteScript(t, s)
         \/ BeginRead(t, s)
         \/ MigratePut(t, s)
    \/ DeleteSkillScripts(t)
    \/ BeginPurge(t)

Next == \E t \in Tasks : Call(t) \/ Continue(t) \/ Fail(t)

Spec == Init /\ [][Next]_vars

(* A call in flight is scheduled until it ends or fails; nobody is obliged *)
(* to call, and nothing is obliged to fail.                                *)
FairSpec == Spec /\ \A t \in Tasks : WF_vars(Continue(t))

-----------------------------------------------------------------------------
(* Properties                                                              *)

PointsAt(s, r) == PointerOf(s) = r

(* A document without inline content points at content the store holds,    *)
(* whatever saves, deletes, migrations and failures overlap; the only      *)
(* exception is a pointer whose own save deleted the content because the   *)
(* driver reported a failure for an upsert that was applied.  This is what *)
(* putting first, flipping next and deleting last is for (save_script,     *)
(* migrate_inline_script_content).                                         *)
PointersResolve ==
    \A s \in Scripts :
        docs[s] # None /\ docs[s].content = None =>
            /\ docs[s].ref # None
            /\ docs[s].ref \in DOMAIN store \cup revoked

(* What makes PointersResolve inductive.  Between its put and its flip the *)
(* copy a task holds is private; what a task deletes is unreachable.       *)
HasCopy(t) == task[t].pc \in {"upsert", "flip"}
Disposes(t) == task[t].pc \in {"dispose", "purgedispose"}

LocalsOK ==
    \A t \in Tasks :
        LET me == task[t] IN
        /\ Reading(t) \/ HasCopy(t) \/ me.pc = "answered" => me.script \in Scripts
        /\ HasCopy(t) \/ Disposes(t) => me.hand \in Refs
        /\ ~(HasCopy(t) \/ Disposes(t)) => me.hand = None
        /\ me.pc = "upsert" =>
             Mode[t] = "store" /\ me.content \in Contents /\ me.date \in Dates
        /\ me.pc \in {"get", "reread", "getagain"} =>
             me.raw \in Docs /\ me.raw.content = None /\ me.raw.ref \in Refs
        /\ me.pc = "flip" => me.raw \in Docs /\ me.raw.content \in Contents
        /\ me.pc \notin {"get", "reread", "getagain", "flip"} => me.raw = None

(* Refs that anything remembers were drawn, and name their own script.     *)
RefsKnown ==
    /\ \A r \in DOMAIN store : r.id \in used
    /\ \A s \in Scripts : PointerOf(s) # None =>
          PointerOf(s).id \in used /\ PointerOf(s).script = s
    /\ \A t \in Tasks : task[t].hand # None => task[t].hand.id \in used
    /\ \A t \in Tasks : task[t].raw # None /\ task[t].raw.ref # None =>
          task[t].raw.ref.id \in used /\ task[t].raw.ref.script = task[t].script

CopiesPrivate ==
    \A t \in Tasks : HasCopy(t) =>
        /\ task[t].hand \in DOMAIN store
        /\ task[t].hand.script = task[t].script
        /\ \A s \in Scripts : PointerOf(s) # task[t].hand
        /\ \A u \in Tasks :
             /\ u # t => task[u].hand # task[t].hand
             /\ task[u].raw # None => task[u].raw.ref # task[t].hand

DisposedUnreachable ==
    \A t \in Tasks : Disposes(t) =>
        \/ \A s \in Scripts : PointerOf(s) # task[t].hand
        \/ task[t].hand \in revoked

IInv ==
    /\ TypeOK
    /\ LocalsOK
    /\ RefsKnown
    /\ CopiesPrivate
    /\ DisposedUnreachable
    /\ PointersResolve

(* The same without the exception: the comment in save_script's error      *)
(* handler says that the metadata never pointed at the ref it deletes.     *)
NoDanglingPointer ==
    \A s \in Scripts :
        docs[s] # None /\ docs[s].content = None => docs[s].ref \in DOMAIN store

(* The text a document leads to is the text its digest was computed from:  *)
(* pointer and digest change together, and a migration that raced with an  *)
(* edit never puts the older text under the newer digest.                  *)
ContentMatchesDigest ==
    \A s \in Scripts :
        docs[s] # None =>
            IF docs[s].content # None
            THEN docs[s].content = docs[s].digest
            ELSE docs[s].ref \in DOMAIN store => store[docs[s].ref] = docs[s].digest

(* What makes ContentMatchesDigest inductive.                              *)
DigestsAgree ==
    /\ \A r \in DOMAIN store : store[r] = r.digest
    /\ \A s \in Scripts : docs[s] # None =>
         IF docs[s].content # None
         THEN docs[s].content = docs[s].digest
         ELSE docs[s].ref.digest = docs[s].digest
    /\ \A t \in Tasks :
         /\ task[t].pc = "upsert" => task[t].hand.digest = task[t].content
         /\ task[t].pc = "flip" => task[t].hand.digest = task[t].raw.digest

(* A read that raises "content missing" lived through two replacements of  *)
(* the pointer, or a deletion, or the content was revoked by its own save: *)
(* one concurrent save is absorbed by the second look                      *)
(* _hydrate_script_content takes.                                          *)
MissingOnlyUnderChurn ==
    \A t \in Tasks :
        task[t].pc = "answered" /\ task[t].content = "missing" =>
            \/ watch[t].churn = 2
            \/ \E r \in revoked : r.script = task[t].script

(* Every entry of the content store is referenced, is in the hands of a    *)
(* call that will delete or reference it, was given up by a failure or by  *)
(* a pod without a store, or was overtaken by a second migration.          *)
ContentAccounted ==
    \A r \in DOMAIN store :
        \/ \E s \in Scripts : PointsAt(s, r)
        \/ \E t \in Tasks : task[t].hand = r
        \/ r \in lost \cup overtaken

(* Each script behaves as one atomic register: an operation on two systems *)
(* takes effect at one point, moving the text changes nothing, and a read  *)
(* answers with a text the script had while the read was under way.        *)
readers ==
    [t \in Tasks |->
        IF ~Reading(t) /\ task[t].pc # "answered" THEN None
        ELSE [script |-> task[t].script,
              seen   |-> watch[t].seen,
              ended  |-> task[t].pc = "answered",
              answer |-> task[t].content]]

Register == INSTANCE ScriptRegister WITH
    Errors <- ReadErrors,
    value  <- [s \in Scripts |-> ValueOf(docs[s])],
    reader <- readers

ScriptsAreRegisters == Register!Spec

ASSUME ReadersAssumption == None \notin Register!OpenRead

(* Content that lost its last reference is deleted in the end, unless a    *)
(* failure gave it up: no chain of saves, deletes and purges strands it.   *)
SupersededContentCollected ==
    \A r \in Refs :
        (r \in DOMAIN store /\ \A s \in Scripts : ~PointsAt(s, r))
            ~> \/ r \notin DOMAIN store
               \/ \E s \in Scripts : PointsAt(s, r)
               \/ r \in lost \cup overtaken
=============================================================================
