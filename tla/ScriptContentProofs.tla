------------------------- MODULE ScriptContentProofs -------------------------
(***************************************************************************)
(* Proofs about ScriptContent for every set of scripts, texts, ids and     *)
(* calls in flight.  IInv is inductive.  Its steps are of three kinds,     *)
(* each with a lemma: a call moves on without touching a document          *)
(* (TaskStep), a call puts a copy under a fresh ref (PutStep), or pointers *)
(* change (PointerStep).  The lemmas about the actions reduce to these.    *)
(***************************************************************************)
EXTENDS ScriptContent, TLAPS

USE ScriptsAssumption, ContentsAssumption, ModeAssumption, RecordsAssumption
USE DEF At, Idle

(* The program starts with every script inline and nobody at work.         *)
LEMMA InitIInv == Init => IInv
<1> SUFFICES ASSUME Init PROVE IInv
  OBVIOUS
<1>1. TypeOK
  BY DEF Init, TypeOK, Docs, Locals, Unwatched, Watches, Pcs
<1>2. LocalsOK
  BY DEF Init, LocalsOK, Reading, HasCopy, Disposes, ReadingPcs
<1>3. RefsKnown
  BY DEF Init, RefsKnown, PointerOf
<1>4. CopiesPrivate /\ DisposedUnreachable
  BY DEF Init, CopiesPrivate, DisposedUnreachable, HasCopy, Disposes
<1>5. PointersResolve
  BY DEF Init, PointersResolve
<1> QED
  BY <1>1, <1>2, <1>3, <1>4, <1>5 DEF IInv

-----------------------------------------------------------------------------
(* Facts about a state in which IInv holds                                 *)

(* The copy a save or a migration has put is a drawn ref nobody else has.  *)
LEMMA CopyFacts ==
  ASSUME IInv, NEW t \in Tasks, HasCopy(t)
  PROVE  /\ task[t].script \in Scripts
         /\ task[t].hand \in Refs
         /\ task[t].hand.id \in used
         /\ task[t].hand \in DOMAIN store
         /\ \A s \in Scripts : PointerOf(s) # task[t].hand
         /\ \A u \in Tasks \ {t} : task[u].hand # task[t].hand
BY DEF IInv, LocalsOK, RefsKnown, CopiesPrivate

(* The pointer of a script belongs to no other script and is no copy.      *)
LEMMA PointerFacts ==
  ASSUME IInv, NEW s \in Scripts
  PROVE  /\ PointerOf(s) \in Refs \cup {None}
         /\ PointerOf(s) # None =>
              /\ PointerOf(s).id \in used
              /\ \A x \in Scripts \ {s} : PointerOf(x) # PointerOf(s)
              /\ \A u \in Tasks : HasCopy(u) => task[u].hand # PointerOf(s)
BY DEF IInv, TypeOK, PointerOf, Docs, RefsKnown, CopiesPrivate

(* A call that ends by deleting r, or by deleting nothing.                 *)
LEMMA DisposingFacts ==
  ASSUME NEW r \in Refs \cup {None}
  PROVE  /\ Disposing(r) \in Locals
         /\ Disposing(r).raw = None
         /\ r = None => Disposing(r).pc = "idle" /\ Disposing(r).hand = None
         /\ r # None => Disposing(r).pc = "dispose" /\ Disposing(r).hand = r
BY DEF Disposing, Locals, Pcs

(* Watching readers keeps the type of watch.                               *)
LEMMA WatchType ==
  ASSUME TypeOK, LocalsOK, WatchScripts, docs' \in [Scripts -> Docs \cup {None}]
  PROVE  watch' \in [Tasks -> Watches]
<1> SUFFICES ASSUME NEW t \in Tasks
             PROVE  watch'[t] \in Watches
  BY DEF WatchScripts
<1> DEFINE s == task[t].script
<1>1. CASE ~Reading(t)
  BY <1>1 DEF WatchScripts, TypeOK, Watches
<1>2. CASE Reading(t)
  <2>1. s \in Scripts
    BY <1>2 DEF LocalsOK
  <2>2. ValueOf(docs'[s]) \in Contents \cup {None}
    BY <2>1 DEF ValueOf, Docs
  <2>3. ChurnOf(docs[s], docs'[s]) \in 0..2
    BY <2>1 DEF ChurnOf
  <2> QED
    BY <1>2, <2>1, <2>2, <2>3 DEF WatchScripts, TypeOK, Watches
<1> QED
  BY <1>1, <1>2

(* What an applied upsert of script s leaves behind.                        *)
LEMMA UpsertFacts ==
  ASSUME IInv, NEW t \in Tasks, NEW s \in Scripts, NEW c \in Contents,
         NEW d \in Dates, NEW r \in Refs \cup {None},
         Mode[t] = "store" <=> r # None, UpsertScript(t, s, c, d, r)
  PROVE  /\ docs' \in [Scripts -> Docs \cup {None}]
         /\ watch' \in [Tasks -> Watches]
         /\ used' \in SUBSET Ids
         /\ used \subseteq used'
         /\ docs'[s] # None
         /\ docs'[s].content = None => r # None
         /\ PointerOf(s)' = IF Mode[t] = "store" THEN r
                            ELSE IF Mode[t] = "inline" THEN None ELSE PointerOf(s)
         /\ \A x \in Scripts \ {s} : docs'[x] = docs[x] /\ PointerOf(x)' = PointerOf(x)
<1>1. PICK i \in IdsForUpsert(s, r) :
        /\ docs' = [docs EXCEPT ![s] =
              [id      |-> i,
               content |-> IF Mode[t] = "store" THEN None ELSE c,
               ref     |-> IF Mode[t] = "store" THEN r
                           ELSE IF Mode[t] = "inline" THEN None
                           ELSE PointerOf(s),
               digest  |-> c,
               date    |-> d]]
        /\ used' = used \cup {i}
        /\ WatchScripts
  BY DEF UpsertScript
<1>2. i \in Ids
  BY DEF IdsForUpsert, IInv, TypeOK, Docs, Refs
<1>3. PointerOf(s) \in Refs \cup {None}
  BY DEF IInv, TypeOK, PointerOf, Docs
<1>4. docs'[s] \in Docs
  BY <1>1, <1>2, <1>3 DEF Docs, IInv, TypeOK
<1>5. docs' \in [Scripts -> Docs \cup {None}]
  BY <1>1, <1>4 DEF IInv, TypeOK
<1>6. watch' \in [Tasks -> Watches]
  BY <1>1, <1>5, WatchType DEF IInv
<1> QED
  BY <1>1, <1>2, <1>4, <1>5, <1>6 DEF PointerOf, IInv, TypeOK

-----------------------------------------------------------------------------
(* The three kinds of step                                                 *)

(* What a call carries while it moves on without touching a document: it   *)
(* keeps a ref only to delete it, and a document only to follow it.        *)
QuietLocals(t, me) ==
    /\ \/ me.hand = None /\ me.pc \notin {"upsert", "flip", "dispose", "purgedispose"}
       \/ /\ me.pc = "dispose"
          /\ me.hand = task[t].hand
          /\ HasCopy(t)
    /\ me.pc \in ReadingPcs \cup {"answered"} => me.script \in Scripts
    /\ IF me.pc \in {"get", "reread", "getagain"}
       THEN /\ me.raw \in Docs /\ me.raw.content = None /\ me.raw.ref \in Refs
            /\ \/ me.raw = docs[me.script]
               \/ me.raw = task[t].raw /\ me.script = task[t].script
       ELSE me.raw = None

(* A call moves on and no document changes; content goes only if the call  *)
(* was deleting it.                                                        *)
LEMMA TaskStep ==
  ASSUME IInv, NEW t \in Tasks, NEW me \in Locals, QuietLocals(t, me),
         task' = [task EXCEPT ![t] = me],
         UNCHANGED <<docs, used, overtaken, revoked>>,
         store' = store \/ (Disposes(t) /\ store' = StoreWithout(task[t].hand)),
         watch' \in [Tasks -> Watches], lost' \in SUBSET Refs
  PROVE  IInv'
<1>0. /\ task'[t] = me
      /\ \A u \in Tasks \ {t} : task'[u] = task[u]
      /\ \A s \in Scripts : PointerOf(s)' = PointerOf(s)
  BY DEF IInv, TypeOK, PointerOf
<1>1. /\ DOMAIN store' \subseteq DOMAIN store
      /\ \A r \in DOMAIN store : r \in DOMAIN store' \/ (Disposes(t) /\ r = task[t].hand)
  <2>1. CASE store' = store
    BY <2>1
  <2>2. CASE Disposes(t) /\ store' = StoreWithout(task[t].hand)
    <3>1. DOMAIN store' = DOMAIN store \ {task[t].hand}
      BY <2>2 DEF StoreWithout
    <3> QED
      BY <2>2, <3>1
  <2> QED
    BY <2>1, <2>2
<1>2. TypeOK'
  BY DEF IInv, TypeOK, StoreWithout
<1>3. LocalsOK'
  BY <1>0 DEF QuietLocals, IInv, LocalsOK, TypeOK, Reading, HasCopy, Disposes, ReadingPcs
<1>4. RefsKnown'
  <2>1. me.raw # None => me.raw.ref.id \in used /\ me.raw.ref.script = me.script
    BY DEF QuietLocals, IInv, RefsKnown, PointerOf, ReadingPcs
  <2>2. me.hand # None => me.hand.id \in used
    BY DEF QuietLocals, IInv, RefsKnown
  <2> QED
    BY <1>0, <1>1, <2>1, <2>2 DEF IInv, RefsKnown
<1>5. CopiesPrivate'
  <2>1. \A u \in Tasks : HasCopy(u)' => u # t /\ HasCopy(u)
    BY <1>0 DEF HasCopy, QuietLocals, ReadingPcs
  <2>2. ASSUME NEW u \in Tasks \ {t}, HasCopy(u)
        PROVE  /\ task[u].hand \in DOMAIN store'
               /\ me.hand # task[u].hand
               /\ me.raw # None => me.raw.ref # task[u].hand
    <3>1. me.hand # task[u].hand
      BY <2>2, CopyFacts DEF QuietLocals
    <3>2. task[u].hand \in DOMAIN store'
      BY <1>1, <2>2, CopyFacts
    <3>3. me.raw # None => me.raw.ref # task[u].hand
      BY <2>2 DEF QuietLocals, IInv, CopiesPrivate, PointerOf, ReadingPcs
    <3> QED
      BY <3>1, <3>2, <3>3
  <2>3. ASSUME NEW u \in Tasks, HasCopy(u)', NEW w \in Tasks
        PROVE  /\ w # u => task'[w].hand # task'[u].hand
               /\ task'[w].raw # None => task'[w].raw.ref # task'[u].hand
    BY <1>0, <2>1, <2>2, <2>3 DEF IInv, CopiesPrivate
  <2>4. ASSUME NEW u \in Tasks, HasCopy(u)'
        PROVE  /\ task'[u].hand \in DOMAIN store'
               /\ task'[u].hand.script = task'[u].script
               /\ \A s \in Scripts : PointerOf(s)' # task'[u].hand
    BY <1>0, <2>1, <2>2, <2>4 DEF IInv, CopiesPrivate
  <2> QED
    BY <2>3, <2>4 DEF CopiesPrivate, HasCopy
<1>6. DisposedUnreachable'
  <2>1. Disposes(t)' => \A s \in Scripts : PointerOf(s)' # me.hand
    BY <1>0, CopyFacts DEF Disposes, QuietLocals
  <2> QED
    BY <1>0, <2>1 DEF IInv, DisposedUnreachable, Disposes
<1>7. PointersResolve'
  <2> SUFFICES ASSUME NEW s \in Scripts, docs[s] # None, docs[s].content = None
               PROVE  docs[s].ref # None /\ docs[s].ref \in DOMAIN store' \cup revoked
    BY DEF PointersResolve
  <2>1. PointerOf(s) = docs[s].ref
    BY DEF PointerOf
  <2> QED
    BY <1>1, <2>1 DEF IInv, PointersResolve, DisposedUnreachable
<1> QED
  BY <1>2, <1>3, <1>4, <1>5, <1>6, <1>7 DEF IInv

(* A call puts a copy of c for script s under the fresh id i; a migration  *)
(* also keeps the document it has read.                                    *)
LEMMA PutStep ==
  ASSUME IInv, NEW t \in Tasks, NEW s \in Scripts, NEW c \in Contents,
         NEW i \in Ids \ used, NEW me \in Locals,
         NEW r \in Refs, r = build_script_content_ref(s, c, i),
         store' = StoreWith(r, c), used' = used \cup {i},
         task' = [task EXCEPT ![t] = me],
         me.script = s, me.hand = r,
         \/ /\ me.pc = "upsert" /\ me.raw = None /\ Mode[t] = "store"
            /\ me.content \in Contents /\ me.date \in Dates
         \/ /\ me.pc = "flip" /\ me.raw = docs[s] /\ me.raw # None
            /\ me.raw.content \in Contents,
         UNCHANGED <<docs, watch, lost, overtaken, revoked>>
  PROVE  IInv'
<1>0. /\ task'[t] = me
      /\ \A u \in Tasks \ {t} : task'[u] = task[u]
      /\ \A x \in Scripts : PointerOf(x)' = PointerOf(x)
  BY DEF IInv, TypeOK, PointerOf
<1>1. r.script = s /\ r.id = i
  BY DEF build_script_content_ref
<1>2. /\ DOMAIN store' = DOMAIN store \cup {r}
      /\ store' \in [DOMAIN store' -> Contents]
  BY DEF StoreWith, IInv, TypeOK
<1>3. TypeOK'
  BY <1>2 DEF IInv, TypeOK
<1>4. LocalsOK'
  <2>1. me.raw # None => me.raw \in Docs
    BY DEF IInv, TypeOK
  <2> QED
    BY <1>0, <2>1 DEF IInv, LocalsOK, TypeOK, Reading, HasCopy, Disposes, ReadingPcs
<1>5. /\ \A x \in Scripts : PointerOf(x) # r
      /\ \A u \in Tasks : task[u].hand # r /\ (task[u].raw # None => task[u].raw.ref # r)
  BY <1>1 DEF IInv, RefsKnown
<1>6. me.raw # None => me.raw.ref = PointerOf(s)
  BY DEF PointerOf
<1>7. RefsKnown'
  <2>1. \A x \in DOMAIN store' : x.id \in used'
    BY <1>1, <1>2 DEF IInv, RefsKnown
  <2>2. me.raw # None /\ me.raw.ref # None =>
          me.raw.ref.id \in used' /\ me.raw.ref.script = me.script
    BY <1>6 DEF IInv, RefsKnown
  <2> QED
    BY <1>0, <1>1, <2>1, <2>2 DEF IInv, RefsKnown
<1>8. CopiesPrivate'
  <2>1. \A u \in Tasks \ {t} : HasCopy(u)' <=> HasCopy(u)
    BY <1>0 DEF HasCopy
  <2>2. ASSUME NEW u \in Tasks, HasCopy(u)', NEW w \in Tasks
        PROVE  /\ w # u => task'[w].hand # task'[u].hand
               /\ task'[w].raw # None => task'[w].raw.ref # task'[u].hand
    <3>1. CASE u = t
      BY <1>0, <1>5, <1>6, <3>1
    <3>2. CASE u # t
      <4>1. HasCopy(u) /\ task'[u] = task[u]
        BY <1>0, <2>1, <2>2, <3>2
      <4> QED
        BY <1>0, <1>5, <1>6, <4>1 DEF IInv, CopiesPrivate
    <3> QED
      BY <3>1, <3>2
  <2>3. ASSUME NEW u \in Tasks, HasCopy(u)'
        PROVE  /\ task'[u].hand \in DOMAIN store'
               /\ task'[u].hand.script = task'[u].script
               /\ \A x \in Scripts : PointerOf(x)' # task'[u].hand
    BY <1>0, <1>1, <1>2, <1>5, <2>1, <2>3 DEF IInv, CopiesPrivate
  <2> QED
    BY <2>2, <2>3 DEF CopiesPrivate, HasCopy
<1>9. DisposedUnreachable'
  BY <1>0 DEF IInv, DisposedUnreachable, Disposes
<1>10. PointersResolve'
  BY <1>2 DEF IInv, PointersResolve
<1> QED
  BY <1>3, <1>4, <1>7, <1>8, <1>9, <1>10 DEF IInv

(* Pointers change: each one stays, goes away or becomes the copy the call *)
(* holds; the call is then done or has an unreachable ref to delete.       *)
LEMMA PointerStep ==
  ASSUME IInv, NEW t \in Tasks, NEW me \in Locals,
         task' = [task EXCEPT ![t] = me],
         docs' \in [Scripts -> Docs \cup {None}],
         store' = store,
         used' \in SUBSET Ids, used \subseteq used',
         watch' \in [Tasks -> Watches],
         lost' \in SUBSET Refs, overtaken' \in SUBSET Refs,
         revoked' \in SUBSET Refs, revoked \subseteq revoked',
         \A s \in Scripts :
            \/ PointerOf(s)' \in {PointerOf(s), None}
            \/ HasCopy(t) /\ s = task[t].script /\ PointerOf(s)' = task[t].hand,
         \A s \in Scripts :
            docs'[s] # None /\ docs'[s].content = None =>
               \/ docs'[s] = docs[s]
               \/ HasCopy(t) /\ docs'[s].ref = task[t].hand,
         me.raw = None,
         \/ me.pc \in {"idle", "purge"} /\ me.hand = None
         \/ /\ me.pc \in {"dispose", "purgedispose"}
            /\ me.hand \in Refs /\ me.hand.id \in used
            /\ me.hand \in revoked' \/ \A s \in Scripts : PointerOf(s)' # me.hand
            /\ \A u \in Tasks \ {t} : HasCopy(u) => task[u].hand # me.hand
  PROVE  IInv'
<1>0. task'[t] = me /\ \A u \in Tasks \ {t} : task'[u] = task[u]
  BY DEF IInv, TypeOK
<1>1. TypeOK'
  BY DEF IInv, TypeOK
<1>2. LocalsOK'
  BY <1>0 DEF IInv, LocalsOK, Reading, HasCopy, Disposes, ReadingPcs
<1>3. RefsKnown'
  <2>1. \A s \in Scripts : PointerOf(s)' # None =>
          PointerOf(s)'.id \in used' /\ PointerOf(s)'.script = s
    <3> SUFFICES ASSUME NEW s \in Scripts, PointerOf(s)' # None
                 PROVE  PointerOf(s)'.id \in used' /\ PointerOf(s)'.script = s
      OBVIOUS
    <3>1. CASE PointerOf(s)' = PointerOf(s)
      BY <3>1 DEF IInv, RefsKnown
    <3>2. CASE HasCopy(t) /\ s = task[t].script /\ PointerOf(s)' = task[t].hand
      BY <3>2 DEF IInv, RefsKnown, CopiesPrivate
    <3> QED
      BY <3>1, <3>2
  <2> QED
    BY <1>0, <2>1 DEF IInv, RefsKnown
<1>4. CopiesPrivate'
  <2>1. \A u \in Tasks : HasCopy(u)' => u # t /\ HasCopy(u)
    BY <1>0 DEF HasCopy
  <2>4. \A u \in Tasks \ {t} : HasCopy(u) => task[u].hand \in DOMAIN store'
    BY DEF IInv, CopiesPrivate
  <2>5. \A u \in Tasks : task'[u].raw # None => task'[u] = task[u]
    BY <1>0
  <2>2. ASSUME NEW u \in Tasks \ {t}, HasCopy(u)
        PROVE  \A s \in Scripts : PointerOf(s)' # task[u].hand
    BY <2>2 DEF IInv, CopiesPrivate, LocalsOK
  <2>3. ASSUME NEW u \in Tasks \ {t}, HasCopy(u)
        PROVE  me.hand # task[u].hand
    BY <2>3 DEF IInv, LocalsOK
  <2>6. ASSUME NEW u \in Tasks, HasCopy(u)', NEW w \in Tasks
        PROVE  /\ w # u => task'[w].hand # task'[u].hand
               /\ task'[w].raw # None => task'[w].raw.ref # task'[u].hand
    BY <1>0, <2>1, <2>3, <2>5, <2>6 DEF IInv, CopiesPrivate
  <2>7. ASSUME NEW u \in Tasks, HasCopy(u)'
        PROVE  /\ task'[u].hand \in DOMAIN store'
               /\ task'[u].hand.script = task'[u].script
               /\ \A s \in Scripts : PointerOf(s)' # task'[u].hand
    BY <1>0, <2>1, <2>2, <2>4, <2>7 DEF IInv, CopiesPrivate
  <2> QED
    <3> SUFFICES ASSUME NEW u \in Tasks, HasCopy(u)'
                 PROVE  /\ task'[u].hand \in DOMAIN store'
                        /\ task'[u].hand.script = task'[u].script
                        /\ \A s \in Scripts : PointerOf(s)' # task'[u].hand
                        /\ \A w \in Tasks :
                             /\ w # u => task'[w].hand # task'[u].hand
                             /\ task'[w].raw # None => task'[w].raw.ref # task'[u].hand
      BY DEF CopiesPrivate
    <3> QED
      BY <2>6, <2>7
<1>5. DisposedUnreachable'
  <2>1. ASSUME NEW u \in Tasks \ {t}, Disposes(u)
        PROVE  \/ \A s \in Scripts : PointerOf(s)' # task[u].hand
               \/ task[u].hand \in revoked'
    <3>1. HasCopy(t) => task[u].hand # task[t].hand
      BY DEF IInv, CopiesPrivate
    <3>2. task[u].hand # None
      BY <2>1 DEF IInv, LocalsOK
    <3> QED
      BY <2>1, <3>1, <3>2 DEF IInv, DisposedUnreachable
  <2> QED
    BY <1>0, <2>1 DEF DisposedUnreachable, Disposes
<1>6. PointersResolve'
  BY DEF IInv, PointersResolve, CopiesPrivate, LocalsOK
<1> QED
  BY <1>1, <1>2, <1>3, <1>4, <1>5, <1>6 DEF IInv

-----------------------------------------------------------------------------
(* The actions                                                             *)

(* Locals a quiet step may end in.                                         *)
LEMMA PlainFacts ==
  ASSUME NEW t \in Tasks, NEW pc \in {"idle", "purge"}
  PROVE  /\ At(pc, None, None, None, None, None) \in Locals
         /\ QuietLocals(t, At(pc, None, None, None, None, None))
BY DEF Locals, Pcs, QuietLocals, ReadingPcs

(* A read that answers: with a text, an error, or that there is no script. *)
LEMMA AnsweredFacts ==
  ASSUME NEW t \in Tasks, NEW s \in Scripts,
         NEW a \in Contents \cup ReadErrors \cup {None}
  PROVE  /\ At("answered", s, a, None, None, None) \in Locals
         /\ QuietLocals(t, At("answered", s, a, None, None, None))
BY DEF Locals, Pcs, QuietLocals, ReadingPcs

(* A read that follows the pointer of a document it knows.                 *)
LEMMA FollowingFacts ==
  ASSUME NEW t \in Tasks, task[t].script \in Scripts,
         NEW pc \in {"get", "reread", "getagain"}, NEW doc \in Docs,
         doc.content = None, doc.ref \in Refs,
         doc = docs[task[t].script] \/ doc = task[t].raw
  PROVE  /\ Following(t, pc, doc) \in Locals
         /\ QuietLocals(t, Following(t, pc, doc))
BY DEF Following, Locals, Pcs, QuietLocals, ReadingPcs

(* A read that begins only remembers the name of its script.               *)
LEMMA BeginReadIInv ==
  ASSUME IInv, NEW t \in Tasks, NEW s \in Scripts, BeginRead(t, s)
  PROVE  IInv'
<1> DEFINE me == At("find", s, None, None, None, None)
<1>1. me \in Locals /\ QuietLocals(t, me)
  BY DEF Locals, Pcs, QuietLocals, ReadingPcs
<1>2. ValueOf(docs[s]) \in Contents \cup {None}
  BY DEF IInv, TypeOK, ValueOf, Docs
<1>3. watch' \in [Tasks -> Watches] /\ lost' \in SUBSET Refs
  BY <1>2 DEF BeginRead, IInv, TypeOK, Watches, ghosts
<1>4. task' = [task EXCEPT ![t] = me] /\ UNCHANGED <<docs, store, used, overtaken, revoked>>
  BY DEF BeginRead, ghosts
<1> QED
  BY <1>1, <1>3, <1>4, TaskStep

(* find_one answers, or sends the read after the pointer it found.         *)
LEMMA FindScriptIInv ==
  ASSUME IInv, NEW t \in Tasks, FindScript(t)
  PROVE  IInv'
<1>1. task[t].script \in Scripts
  BY DEF FindScript, IInv, LocalsOK, Reading, ReadingPcs
<1>2. PICK s \in Scripts : s = task[t].script
  BY <1>1
<1>3. docs[s] # None =>
        docs[s] \in Docs /\ docs[s].content \in Contents \cup {None}
                         /\ docs[s].ref \in Refs \cup {None}
  BY DEF IInv, TypeOK, Docs
<1>4. watch' \in [Tasks -> Watches] /\ lost' \in SUBSET Refs
  BY DEF FindScript, IInv, TypeOK, Watches, ghosts
<1>5. UNCHANGED <<docs, store, used, overtaken, revoked>>
  BY DEF FindScript, ghosts
<1>6. ASSUME NEW a \in Contents \cup ReadErrors \cup {None}, task' = Answered(t, a)
      PROVE  IInv'
  BY <1>2, <1>4, <1>5, <1>6, AnsweredFacts, TaskStep DEF Answered
<1>7. ASSUME docs[s] # None, docs[s].content = None, docs[s].ref # None,
             task' = [task EXCEPT ![t] = Following(t, "get", docs[s])]
      PROVE  IInv'
  <2>1. PICK doc \in Docs : doc = docs[s]
    BY <1>3, <1>7
  <2> DEFINE me == Following(t, "get", doc)
  <2>2. me \in Locals /\ QuietLocals(t, me)
    BY <1>1, <1>2, <1>3, <1>7, <2>1, FollowingFacts
  <2>3. task' = [task EXCEPT ![t] = me]
    BY <1>7, <2>1
  <2> HIDE DEF me
  <2> QED
    BY <1>4, <1>5, <2>2, <2>3, TaskStep
<1> QED
  BY <1>2, <1>3, <1>6, <1>7 DEF FindScript, ReadErrors

(* Reading the content store answers, or asks for a second look.           *)
LEMMA GetContentIInv ==
  ASSUME IInv, NEW t \in Tasks, GetContent(t) \/ GetContentAgain(t)
  PROVE  IInv'
<1>1. task[t].script \in Scripts
  BY DEF GetContent, GetContentAgain, IInv, LocalsOK, Reading, ReadingPcs
<1>2. PICK s \in Scripts : s = task[t].script
  BY <1>1
<1>3. PICK doc \in Docs : doc = task[t].raw /\ doc.content = None /\ doc.ref \in Refs
  BY DEF GetContent, GetContentAgain, IInv, LocalsOK
<1>4. watch' \in [Tasks -> Watches] /\ lost' \in SUBSET Refs
  BY DEF GetContent, GetContentAgain, IInv, TypeOK, ghosts
<1>5. UNCHANGED <<docs, store, used, overtaken, revoked>>
  BY DEF GetContent, GetContentAgain, ghosts
<1>6. \A r \in DOMAIN store : store[r] \in Contents
  BY DEF IInv, TypeOK
<1>7. ASSUME NEW a \in Contents \cup ReadErrors \cup {None}, task' = Answered(t, a)
      PROVE  IInv'
  BY <1>2, <1>4, <1>5, <1>7, AnsweredFacts, TaskStep DEF Answered
<1>8. ASSUME task' = [task EXCEPT ![t] = Following(t, "reread", doc)]
      PROVE  IInv'
  <2> DEFINE me == Following(t, "reread", doc)
  <2>1. me \in Locals /\ QuietLocals(t, me)
    BY <1>1, <1>3, FollowingFacts
  <2>2. task' = [task EXCEPT ![t] = me]
    BY <1>8
  <2> HIDE DEF me
  <2> QED
    BY <1>4, <1>5, <2>1, <2>2, TaskStep
<1> QED
  BY <1>3, <1>6, <1>7, <1>8 DEF GetContent, GetContentAgain, ReadErrors

(* The second look answers, or follows the pointer of the newer document.  *)
LEMMA RereadScriptIInv ==
  ASSUME IInv, NEW t \in Tasks, RereadScript(t)
  PROVE  IInv'
<1>1. task[t].script \in Scripts
  BY DEF RereadScript, IInv, LocalsOK, Reading, ReadingPcs
<1>2. PICK s \in Scripts : s = task[t].script
  BY <1>1
<1>3. docs[s] # None =>
        docs[s] \in Docs /\ docs[s].content \in Contents \cup {None}
                         /\ docs[s].ref \in Refs \cup {None}
  BY DEF IInv, TypeOK, Docs
<1>4. watch' \in [Tasks -> Watches] /\ lost' \in SUBSET Refs
  BY DEF RereadScript, IInv, TypeOK, ghosts
<1>5. UNCHANGED <<docs, store, used, overtaken, revoked>>
  BY DEF RereadScript, ghosts
<1>6. ASSUME NEW a \in Contents \cup ReadErrors \cup {None}, task' = Answered(t, a)
      PROVE  IInv'
  BY <1>2, <1>4, <1>5, <1>6, AnsweredFacts, TaskStep DEF Answered
<1>7. ASSUME docs[s] # None, docs[s].content = None, docs[s].ref # None,
             task' = [task EXCEPT ![t] = Following(t, "getagain", docs[s])]
      PROVE  IInv'
  <2>1. PICK doc \in Docs : doc = docs[s]
    BY <1>3, <1>7
  <2> DEFINE me == Following(t, "getagain", doc)
  <2>2. me \in Locals /\ QuietLocals(t, me)
    BY <1>1, <1>2, <1>3, <1>7, <2>1, FollowingFacts
  <2>3. task' = [task EXCEPT ![t] = me]
    BY <1>7, <2>1
  <2> HIDE DEF me
  <2> QED
    BY <1>4, <1>5, <2>2, <2>3, TaskStep
<1> QED
  BY <1>2, <1>3, <1>6, <1>7 DEF RereadScript, ReadErrors

(* Calls that end, or go back to looking for documents to purge.           *)
LEMMA PlainIInv ==
  ASSUME IInv, NEW t \in Tasks,
         \/ EndRead(t) \/ Crash(t) \/ BeginPurge(t) \/ EndPurge(t)
         \/ Dispose(t) \/ DisposeFails(t)
  PROVE  IInv'
<1>1. Disposes(t) \/ task[t].pc \notin {"dispose", "purgedispose"}
  BY DEF Disposes
<1>2. PICK pc \in {"idle", "purge"} :
        task' = [task EXCEPT ![t] = At(pc, None, None, None, None, None)]
  BY DEF EndRead, Crash, BeginPurge, EndPurge, Dispose, DisposeFails, AfterDispose, Purging
<1>3. Unwatched \in Watches
  BY DEF Unwatched, Watches
<1>4. watch' \in [Tasks -> Watches]
  BY <1>3 DEF EndRead, Crash, BeginPurge, EndPurge, Dispose, DisposeFails, IInv, TypeOK
<1>5. lost' \in SUBSET Refs
  <2>1. task[t].hand \in Refs \cup {None} /\ (Disposes(t) => task[t].hand \in Refs)
    BY DEF IInv, TypeOK, Locals, LocalsOK
  <2>2. InHand(task[t].hand) \subseteq Refs
    BY <2>1 DEF InHand
  <2> QED
    BY <2>1, <2>2 DEF EndRead, Crash, BeginPurge, EndPurge, Dispose, DisposeFails,
       ghosts, IInv, TypeOK, Disposes
<1>6. /\ UNCHANGED <<docs, used, overtaken, revoked>>
      /\ store' = store \/ (Disposes(t) /\ store' = StoreWithout(task[t].hand))
  BY DEF EndRead, Crash, BeginPurge, EndPurge, Dispose, DisposeFails, ghosts, Disposes
<1> QED
  BY <1>2, <1>4, <1>5, <1>6, PlainFacts, TaskStep

(* The error handler of a save deletes a ref nobody points at.             *)
LEMMA SaveUpsertRaisesIInv ==
  ASSUME IInv, NEW t \in Tasks, SaveUpsertRaises(t)
  PROVE  IInv'
<1>1. HasCopy(t) /\ task[t].hand \in Refs
  BY DEF SaveUpsertRaises, HasCopy, IInv, LocalsOK
<1>2. PICK r \in Refs : r = task[t].hand
  BY <1>1
<1> DEFINE me == At("dispose", None, None, None, r, None)
<1>3. me \in Locals /\ QuietLocals(t, me)
  BY <1>1, <1>2 DEF Locals, Pcs, QuietLocals, ReadingPcs
<1>4. task' = [task EXCEPT ![t] = me]
  BY <1>2 DEF SaveUpsertRaises, Disposing
<1>5. /\ UNCHANGED <<docs, store, used, overtaken, revoked>>
      /\ watch' \in [Tasks -> Watches] /\ lost' \in SUBSET Refs
  BY DEF SaveUpsertRaises, ghosts, IInv, TypeOK
<1> HIDE DEF me
<1> QED
  BY <1>3, <1>4, <1>5, TaskStep

(* A save puts its content first.                                          *)
LEMMA SavePutIInv ==
  ASSUME IInv, NEW t \in Tasks, NEW s \in Scripts, NEW c \in Contents, NEW d \in Dates,
         SavePut(t, s, c, d)
  PROVE  IInv'
<1>1. PICK i \in Ids \ used :
        LET r == build_script_content_ref(s, c, i) IN
        /\ store' = StoreWith(r, c)
        /\ used' = used \cup {i}
        /\ task' = [task EXCEPT ![t] = At("upsert", s, c, d, r, None)]
  BY DEF SavePut
<1>2. PICK r \in Refs : r = build_script_content_ref(s, c, i)
  BY DEF build_script_content_ref, Refs
<1> DEFINE me == At("upsert", s, c, d, r, None)
<1>3. me \in Locals /\ me.script = s /\ me.hand = r /\ me.pc = "upsert" /\ me.raw = None
      /\ me.content \in Contents /\ me.date \in Dates
  BY DEF Locals, Pcs
<1>4. task' = [task EXCEPT ![t] = me] /\ store' = StoreWith(r, c) /\ used' = used \cup {i}
  BY <1>1, <1>2
<1>5. Mode[t] = "store" /\ UNCHANGED <<docs, watch, lost, overtaken, revoked>>
  BY DEF SavePut, ghosts
<1> HIDE DEF me
<1> QED
  BY <1>2, <1>3, <1>4, <1>5, PutStep

(* A migration copies the document it has just read.                       *)
LEMMA MigratePutIInv ==
  ASSUME IInv, NEW t \in Tasks, NEW s \in Scripts, MigratePut(t, s)
  PROVE  IInv'
<1>1. docs[s] # None /\ docs[s] \in Docs /\ docs[s].content \in Contents
  BY DEF MigratePut, IInv, TypeOK, Docs
<1>2. PICK c \in Contents, doc \in Docs : c = docs[s].content /\ doc = docs[s]
  BY <1>1
<1>3. PICK i \in Ids \ used :
        LET r == build_script_content_ref(s, c, i) IN
        /\ store' = StoreWith(r, c)
        /\ used' = used \cup {i}
        /\ task' = [task EXCEPT ![t] = At("flip", s, None, None, r, doc)]
  BY <1>2 DEF MigratePut
<1>4. PICK r \in Refs : r = build_script_content_ref(s, c, i)
  BY DEF build_script_content_ref, Refs
<1> DEFINE me == At("flip", s, None, None, r, doc)
<1>5. me \in Locals /\ me.script = s /\ me.hand = r /\ me.pc = "flip"
      /\ me.raw = docs[s] /\ me.raw # None /\ me.raw.content \in Contents
  BY <1>1, <1>2 DEF Locals, Pcs
<1>6. task' = [task EXCEPT ![t] = me] /\ store' = StoreWith(r, c) /\ used' = used \cup {i}
  BY <1>3, <1>4
<1>7. UNCHANGED <<docs, watch, lost, overtaken, revoked>>
  BY DEF MigratePut, ghosts
<1> HIDE DEF me
<1> QED
  BY <1>4, <1>5, <1>6, <1>7, PutStep

(* A save whose upsert was applied, whatever it then does with a ref.      *)
LEMMA UpsertStep ==
  ASSUME IInv, NEW t \in Tasks, NEW s \in Scripts, NEW c \in Contents, NEW d \in Dates,
         NEW r \in Refs \cup {None}, Mode[t] = "store" <=> r # None,
         UpsertScript(t, s, c, d, r),
         r # None => HasCopy(t) /\ s = task[t].script /\ r = task[t].hand,
         NEW old \in Refs \cup {None},
         task' = [task EXCEPT ![t] = Disposing(old)],
         \/ old \in {None, PointerOf(s)} /\ (old # None => Mode[t] # "none")
         \/ old = r /\ old \in revoked',
         store' = store,
         lost' \in SUBSET Refs, overtaken' \in SUBSET Refs,
         revoked' \in SUBSET Refs, revoked \subseteq revoked'
  PROVE  IInv'
<1>1. /\ PointerOf(s)' = IF Mode[t] = "store" THEN r
                         ELSE IF Mode[t] = "inline" THEN None ELSE PointerOf(s)
      /\ docs'[s] # None
      /\ docs'[s].content = None => r # None
      /\ \A x \in Scripts \ {s} : docs'[x] = docs[x] /\ PointerOf(x)' = PointerOf(x)
  BY UpsertFacts
<1>2. r # None => docs'[s].ref = r
  BY <1>1 DEF PointerOf
<1>3. /\ docs' \in [Scripts -> Docs \cup {None}]
      /\ watch' \in [Tasks -> Watches]
      /\ used' \in SUBSET Ids /\ used \subseteq used'
  BY UpsertFacts
<1>4. r # None => /\ r.id \in used
                  /\ \A x \in Scripts : PointerOf(x) # r
                  /\ \A u \in Tasks \ {t} : task[u].hand # r
  BY CopyFacts
<1>5. old # None => /\ old.id \in used
                    /\ old \in revoked' \/ \A x \in Scripts : PointerOf(x)' # old
                    /\ \A u \in Tasks \ {t} : HasCopy(u) => task[u].hand # old
  <2>1. CASE old = r /\ old \in revoked'
    BY <2>1, <1>4
  <2>2. CASE old = PointerOf(s) /\ (old # None => Mode[t] # "none")
    <3>1. old # None => PointerOf(s)' # old
      BY <2>2, <1>1, <1>4, ModeAssumption DEF ConfiguredModes
    <3> QED
      BY <2>2, <3>1, <1>1, PointerFacts
  <2> QED
    BY <2>1, <2>2
<1> DEFINE me == Disposing(old)
<1>6. /\ me \in Locals /\ me.raw = None
      /\ \/ me.pc \in {"idle", "purge"} /\ me.hand = None
         \/ me.pc \in {"dispose", "purgedispose"} /\ me.hand = old /\ old # None
  BY DisposingFacts
<1>7. task' = [task EXCEPT ![t] = me]
  OBVIOUS
<1>8. \A x \in Scripts :
        \/ PointerOf(x)' \in {PointerOf(x), None}
        \/ HasCopy(t) /\ x = task[t].script /\ PointerOf(x)' = task[t].hand
  BY <1>1
<1>9. \A x \in Scripts :
        docs'[x] # None /\ docs'[x].content = None =>
           \/ docs'[x] = docs[x]
           \/ HasCopy(t) /\ docs'[x].ref = task[t].hand
  BY <1>1, <1>2
<1>10. \/ me.pc \in {"idle", "purge"} /\ me.hand = None
       \/ /\ me.pc \in {"dispose", "purgedispose"}
          /\ me.hand \in Refs /\ me.hand.id \in used
          /\ me.hand \in revoked' \/ \A x \in Scripts : PointerOf(x)' # me.hand
          /\ \A u \in Tasks \ {t} : HasCopy(u) => task[u].hand # me.hand
  BY <1>5, <1>6
<1>11. me \in Locals /\ me.raw = None
  BY <1>6
<1> HIDE DEF me
<1> QED
  BY <1>3, <1>7, <1>8, <1>9, <1>10, <1>11, PointerStep

(* A save flips the pointer to its copy, whether the driver admits it or not.*)
LEMMA SaveUpsertIInv ==
  ASSUME IInv, NEW t \in Tasks, SaveUpsert(t) \/ SaveUpsertUncertain(t)
  PROVE  IInv'
<1>1. /\ task[t].script \in Scripts /\ task[t].hand \in Refs /\ HasCopy(t)
      /\ Mode[t] = "store" /\ task[t].content \in Contents /\ task[t].date \in Dates
  BY DEF SaveUpsert, SaveUpsertUncertain, IInv, LocalsOK, HasCopy
<1>2. PICK s \in Scripts, c \in Contents, d \in Dates, r \in Refs :
        s = task[t].script /\ c = task[t].content /\ d = task[t].date /\ r = task[t].hand
  BY <1>1
<1>3. UpsertScript(t, s, c, d, r) /\ store' = store
  BY <1>2 DEF SaveUpsert, SaveUpsertUncertain
<1>4. PointerOf(s) \in Refs \cup {None} /\ r # None
  BY PointerFacts
<1>5. lost \in SUBSET Refs /\ overtaken \in SUBSET Refs /\ revoked \in SUBSET Refs
  BY DEF IInv, TypeOK
<1>6. CASE SaveUpsert(t)
  <2>1. task' = [task EXCEPT ![t] = Disposing(PointerOf(s))] /\ UNCHANGED ghosts
    BY <1>2, <1>6 DEF SaveUpsert
  <2>2. UNCHANGED <<lost, overtaken, revoked>>
    BY <2>1 DEF ghosts
  <2>3. PICK old \in Refs \cup {None} : old = PointerOf(s)
    BY <1>4
  <2> QED
    BY <1>1, <1>2, <1>3, <1>4, <1>5, <2>1, <2>2, <2>3, UpsertStep
<1>7. CASE SaveUpsertUncertain(t)
  <2>1. /\ task' = [task EXCEPT ![t] = Disposing(r)]
        /\ revoked' = revoked \cup {r} /\ overtaken' = overtaken
        /\ lost' = lost \cup InHand(PointerOf(s))
    BY <1>2, <1>7 DEF SaveUpsertUncertain
  <2>2. lost' \in SUBSET Refs
    BY <1>4, <1>5, <2>1 DEF InHand
  <2> QED
    BY <1>1, <1>2, <1>3, <1>4, <1>5, <2>1, <2>2, UpsertStep
<1> QED
  BY <1>6, <1>7

(* A save of a pod that stores text inline.                                *)
LEMMA SaveInlineIInv ==
  ASSUME IInv, NEW t \in Tasks, NEW s \in Scripts, NEW c \in Contents, NEW d \in Dates,
         SaveInline(t, s, c, d)
  PROVE  IInv'
<1>1. PointerOf(s) \in Refs \cup {None}
  BY PointerFacts
<1>2. PICK old \in Refs \cup {None} :
        old = IF Mode[t] = "inline" THEN PointerOf(s) ELSE None
  BY <1>1
<1>3. /\ UpsertScript(t, s, c, d, None) /\ store' = store /\ Mode[t] # "store"
      /\ task' = [task EXCEPT ![t] = Disposing(old)]
      /\ UNCHANGED <<lost, overtaken, revoked>>
  BY <1>2 DEF SaveInline, ghosts
<1>4. lost \in SUBSET Refs /\ overtaken \in SUBSET Refs /\ revoked \in SUBSET Refs
  BY DEF IInv, TypeOK
<1> QED
  BY <1>2, <1>3, <1>4, UpsertStep

(* Documents are removed, and the call may keep one of their pointers.     *)
LEMMA RemoveStep ==
  ASSUME IInv, NEW t \in Tasks, ~HasCopy(t), NEW S \in SUBSET Scripts, RemoveDocs(S), WatchScripts,
         NEW me \in Locals, task' = [task EXCEPT ![t] = me], me.raw = None,
         \/ me.pc \in {"idle", "purge"} /\ me.hand = None
         \/ /\ me.pc \in {"dispose", "purgedispose"}
            /\ \E s \in S : me.hand = PointerOf(s) /\ me.hand # None,
         store' = store, used' = used, lost' \in SUBSET Refs,
         overtaken' = overtaken, revoked' = revoked
  PROVE  IInv'
<1>1. \A x \in Scripts : docs'[x] = IF x \in S THEN None ELSE docs[x]
  BY DEF RemoveDocs
<1>2. \A x \in Scripts : PointerOf(x)' = IF x \in S THEN None ELSE PointerOf(x)
  BY <1>1 DEF PointerOf
<1>3. docs' \in [Scripts -> Docs \cup {None}]
  BY DEF RemoveDocs, IInv, TypeOK
<1>4. watch' \in [Tasks -> Watches]
  BY <1>3, WatchType DEF IInv
<1>5. ASSUME NEW s \in S, me.hand = PointerOf(s), me.hand # None
      PROVE  /\ me.hand \in Refs /\ me.hand.id \in used
             /\ \A x \in Scripts : PointerOf(x)' # me.hand
             /\ \A u \in Tasks \ {t} : HasCopy(u) => task[u].hand # me.hand
  BY <1>2, <1>5, PointerFacts
<1>6. used \in SUBSET Ids /\ overtaken \in SUBSET Refs /\ revoked \in SUBSET Refs
  BY DEF IInv, TypeOK
<1> QED
  BY <1>1, <1>2, <1>3, <1>4, <1>5, <1>6, PointerStep

(* Deleting a script, all scripts of the skill, or one of them at a time.  *)
LEMMA RemovalsIInv ==
  ASSUME IInv, NEW t \in Tasks,
         \/ \E s \in Scripts : DeleteScript(t, s) \/ PurgeOne(t, s)
         \/ DeleteSkillScripts(t)
  PROVE  IInv'
<1>1. task[t] \in Locals /\ lost \in SUBSET Refs /\ ~HasCopy(t)
  BY DEF IInv, TypeOK, DeleteScript, PurgeOne, DeleteSkillScripts, HasCopy
<1>2. ASSUME NEW s \in Scripts, DeleteScript(t, s), Mode[t] = "none"
      PROVE  IInv'
  <2> DEFINE me == task[t]
  <2>1. /\ task' = [task EXCEPT ![t] = me]
        /\ me.pc = "idle" /\ me.hand = None /\ me.raw = None
    BY <1>2 DEF DeleteScript, IInv, TypeOK, LocalsOK, HasCopy, Disposes
  <2>2. lost' \in SUBSET Refs
    BY <1>2, <1>1, PointerFacts DEF DeleteScript, PointersOf
  <2> HIDE DEF me
  <2>3. me \in Locals
    BY <1>1 DEF me
  <2>4. /\ RemoveDocs({s}) /\ WatchScripts /\ store' = store /\ used' = used
        /\ overtaken' = overtaken /\ revoked' = revoked /\ {s} \in SUBSET Scripts
    BY <1>2 DEF DeleteScript
  <2> QED
    BY <1>1, <1>2, <2>1, <2>2, <2>3, <2>4, RemoveStep
<1>3. ASSUME NEW s \in Scripts, DeleteScript(t, s), Mode[t] # "none"
      PROVE  IInv'
  <2> DEFINE me == Disposing(PointerOf(s))
  <2>1. task' = [task EXCEPT ![t] = me] /\ lost' = lost
    BY <1>3 DEF DeleteScript
  <2>2. /\ me \in Locals /\ me.raw = None
        /\ \/ me.pc = "idle" /\ me.hand = None
           \/ me.pc = "dispose" /\ me.hand = PointerOf(s) /\ me.hand # None
    BY PointerFacts, DisposingFacts
  <2> HIDE DEF me
  <2>3. /\ RemoveDocs({s}) /\ WatchScripts /\ store' = store /\ used' = used
        /\ overtaken' = overtaken /\ revoked' = revoked /\ {s} \in SUBSET Scripts
    BY <1>3 DEF DeleteScript
  <2> QED
    BY <1>1, <2>1, <2>2, <2>3, RemoveStep
<1>4. ASSUME NEW s \in Scripts, PurgeOne(t, s)
      PROVE  IInv'
  <2> DEFINE me == Purging(PointerOf(s))
  <2>1. task' = [task EXCEPT ![t] = me] /\ UNCHANGED <<lost, overtaken, revoked>>
    BY <1>4 DEF PurgeOne, ghosts
  <2>2. /\ me \in Locals /\ me.raw = None
        /\ \/ me.pc = "purge" /\ me.hand = None
           \/ me.pc = "purgedispose" /\ me.hand = PointerOf(s) /\ me.hand # None
    BY PointerFacts DEF Purging, Locals, Pcs
  <2> HIDE DEF me
  <2>3. /\ RemoveDocs({s}) /\ WatchScripts /\ store' = store /\ used' = used
        /\ overtaken' = overtaken /\ revoked' = revoked /\ {s} \in SUBSET Scripts
        /\ lost' \in SUBSET Refs
    BY <1>1, <1>4, <2>1 DEF PurgeOne
  <2> QED
    BY <1>1, <2>1, <2>2, <2>3, RemoveStep
<1>5. CASE DeleteSkillScripts(t)
  <2> DEFINE me == task[t]
  <2>1. /\ task' = [task EXCEPT ![t] = me]
        /\ me.pc = "idle" /\ me.hand = None /\ me.raw = None
    BY <1>5 DEF DeleteSkillScripts, IInv, TypeOK, LocalsOK, HasCopy, Disposes
  <2>2. lost' \in SUBSET Refs
    BY <1>5, <1>1, PointerFacts DEF DeleteSkillScripts, PointersOf
  <2> HIDE DEF me
  <2>3. me \in Locals
    BY <1>1 DEF me
  <2> QED
    BY <1>1, <1>5, <2>1, <2>2, <2>3, RemoveStep DEF DeleteSkillScripts
<1> QED
  BY <1>2, <1>3, <1>4, <1>5

(* A migration flips the pointer of the save it copied, or gives up.       *)
LEMMA MigrateFlipIInv ==
  ASSUME IInv, NEW t \in Tasks, MigrateFlip(t)
  PROVE  IInv'
<1>1. /\ task[t].script \in Scripts /\ task[t].hand \in Refs /\ HasCopy(t)
      /\ task[t].raw \in Docs
  BY DEF MigrateFlip, IInv, LocalsOK, HasCopy
<1>2. PICK s \in Scripts, r \in Refs, old \in Refs \cup {None} :
        s = task[t].script /\ r = task[t].hand /\ old = task[t].raw.ref
  BY <1>1 DEF Docs
<1>3. lost \in SUBSET Refs /\ overtaken \in SUBSET Refs /\ revoked \in SUBSET Refs
      /\ used \in SUBSET Ids /\ docs \in [Scripts -> Docs \cup {None}]
  BY DEF IInv, TypeOK
<1>4. UNCHANGED <<store, used, lost, revoked>>
  BY DEF MigrateFlip
<1>5. r.id \in used /\ (\A x \in Scripts : PointerOf(x) # r)
      /\ \A u \in Tasks \ {t} : task[u].hand # r
  BY <1>1, <1>2, CopyFacts
<1>6. CASE SameSave(docs[s], task[t].raw)
  <2>1. /\ docs' = [docs EXCEPT ![s] = PointingAt(docs[s], r)]
        /\ WatchScripts
        /\ task' = [task EXCEPT ![t] = Disposing(old)]
        /\ overtaken' = overtaken \cup (InHand(docs[s].ref) \ {old})
    BY <1>2, <1>6 DEF MigrateFlip
  <2>2. docs[s] \in Docs /\ docs[s] # None
    BY <1>3, <1>6, RecordsAssumption DEF SameSave
  <2>3. /\ docs'[s] \in Docs /\ docs'[s].ref = r
        /\ \A x \in Scripts \ {s} : docs'[x] = docs[x]
    BY <1>3, <2>1, <2>2 DEF Docs, PointingAt
  <2>4. docs' \in [Scripts -> Docs \cup {None}]
    BY <1>3, <2>1, <2>3
  <2>5. PointerOf(s)' = r /\ \A x \in Scripts \ {s} : PointerOf(x)' = PointerOf(x)
    BY <2>3, RecordsAssumption DEF PointerOf
  <2>6. watch' \in [Tasks -> Watches]
    BY <2>1, <2>4, WatchType DEF IInv
  <2>7. overtaken' \in SUBSET Refs
    BY <1>3, <2>1, <2>2 DEF InHand, Docs
  <2>8. old # None => /\ old.id \in used
                      /\ \A x \in Scripts : PointerOf(x)' # old
                      /\ \A u \in Tasks : HasCopy(u) => task[u].hand # old
    <3>1. task[t].raw # None
      BY <1>1, RecordsAssumption
    <3>2. old # None => old.id \in used /\ old.script = s
      BY <1>2, <3>1 DEF IInv, RefsKnown
    <3>3. \A u \in Tasks : HasCopy(u) => task[u].hand # old
      BY <1>2, <3>1 DEF IInv, CopiesPrivate
    <3>4. \A x \in Scripts \ {s} : PointerOf(x) # None => PointerOf(x).script # s
      BY DEF IInv, RefsKnown
    <3> QED
      BY <1>1, <1>2, <2>5, <3>2, <3>3, <3>4
  <2> DEFINE me == Disposing(old)
  <2>9. /\ me \in Locals /\ me.raw = None
        /\ \/ me.pc = "idle" /\ me.hand = None
           \/ me.pc = "dispose" /\ me.hand = old /\ old # None
    BY DisposingFacts
  <2> HIDE DEF me
  <2>10. task' = [task EXCEPT ![t] = me]
    BY <2>1 DEF me
  <2>11. \A x \in Scripts :
           \/ PointerOf(x)' \in {PointerOf(x), None}
           \/ HasCopy(t) /\ x = task[t].script /\ PointerOf(x)' = task[t].hand
    BY <1>1, <1>2, <2>5
  <2>12. \A x \in Scripts :
           docs'[x] # None /\ docs'[x].content = None =>
              \/ docs'[x] = docs[x]
              \/ HasCopy(t) /\ docs'[x].ref = task[t].hand
    BY <1>1, <1>2, <2>3
  <2>13. \/ me.pc \in {"idle", "purge"} /\ me.hand = None
         \/ /\ me.pc \in {"dispose", "purgedispose"}
            /\ me.hand \in Refs /\ me.hand.id \in used
            /\ me.hand \in revoked' \/ \A x \in Scripts : PointerOf(x)' # me.hand
            /\ \A u \in Tasks \ {t} : HasCopy(u) => task[u].hand # me.hand
    BY <2>8, <2>9
  <2> QED
    BY <1>3, <1>4, <2>4, <2>6, <2>7, <2>9, <2>10, <2>11, <2>12, <2>13, PointerStep
<1>7. CASE ~SameSave(docs[s], task[t].raw)
  <2> DEFINE me == At("dispose", None, None, None, r, None)
  <2>1. me \in Locals /\ QuietLocals(t, me)
    BY <1>1, <1>2 DEF Locals, Pcs, QuietLocals, ReadingPcs
  <2>2. task' = [task EXCEPT ![t] = me] /\ UNCHANGED <<docs, watch, overtaken>>
    BY <1>2, <1>7 DEF MigrateFlip, Disposing
  <2>3. watch' \in [Tasks -> Watches]
    BY <2>2 DEF IInv, TypeOK
  <2> HIDE DEF me
  <2> QED
    BY <1>3, <1>4, <2>1, <2>2, <2>3, TaskStep
<1> QED
  BY <1>6, <1>7

(* Nothing in IInv is about anything but the variables.                    *)
LEMMA StutterIInv ==
  ASSUME IInv, UNCHANGED vars
  PROVE  IInv'
<1>1. UNCHANGED <<docs, store, used, task, watch, lost, overtaken, revoked>>
  BY DEF vars, ghosts
<1>2. TypeOK' /\ LocalsOK'
  BY <1>1 DEF IInv, TypeOK, LocalsOK, Reading, HasCopy, Disposes
<1>3. RefsKnown' /\ CopiesPrivate' /\ DisposedUnreachable' /\ PointersResolve'
  BY <1>1 DEF IInv, RefsKnown, CopiesPrivate, DisposedUnreachable, PointersResolve,
     PointerOf, HasCopy, Disposes
<1> QED
  BY <1>2, <1>3 DEF IInv

(* IInv is inductive.                                                      *)
LEMMA NextIInv == IInv /\ [Next]_vars => IInv'
<1> SUFFICES ASSUME IInv, [Next]_vars PROVE IInv'
  OBVIOUS
<1>1. CASE UNCHANGED vars
  BY <1>1, StutterIInv
<1>2. ASSUME NEW t \in Tasks, Call(t) PROVE IInv'
  <2>1. ASSUME NEW s \in Scripts, NEW c \in Contents, NEW d \in Dates, SavePut(t, s, c, d)
        PROVE  IInv'
    BY <2>1, SavePutIInv
  <2>2. ASSUME NEW s \in Scripts, NEW c \in Contents, NEW d \in Dates, SaveInline(t, s, c, d)
        PROVE  IInv'
    BY <2>2, SaveInlineIInv
  <2>3. ASSUME NEW s \in Scripts, DeleteScript(t, s) PROVE IInv'
    BY <2>3, RemovalsIInv
  <2>4. ASSUME NEW s \in Scripts, BeginRead(t, s) PROVE IInv'
    BY <2>4, BeginReadIInv
  <2>5. ASSUME NEW s \in Scripts, MigratePut(t, s) PROVE IInv'
    BY <2>5, MigratePutIInv
  <2>6. CASE DeleteSkillScripts(t)
    BY <2>6, RemovalsIInv
  <2>7. CASE BeginPurge(t)
    BY <2>7, PlainIInv
  <2> QED
    BY <1>2, <2>1, <2>2, <2>3, <2>4, <2>5, <2>6, <2>7 DEF Call
<1>3. ASSUME NEW t \in Tasks, Continue(t) PROVE IInv'
  <2>1. ASSUME NEW s \in Scripts, PurgeOne(t, s) PROVE IInv'
    BY <2>1, RemovalsIInv
  <2> QED
    BY <1>3, <2>1, SaveUpsertIInv, PlainIInv, FindScriptIInv, GetContentIInv,
       RereadScriptIInv, MigrateFlipIInv DEF Continue
<1>4. ASSUME NEW t \in Tasks, Fail(t) PROVE IInv'
  BY <1>4, SaveUpsertRaisesIInv, SaveUpsertIInv, PlainIInv DEF Fail
<1> QED
  BY <1>1, <1>2, <1>3, <1>4 DEF Next

-----------------------------------------------------------------------------
(* Theorems                                                                *)

(* IInv holds in every reachable state.                                    *)
LEMMA SpecIInv == Spec => []IInv
BY InitIInv, NextIInv, PTL DEF Spec

(* Every variable keeps its type: in particular no operation of the store  *)
(* ever leaves a half-built document or forgets which ref it holds.        *)
THEOREM TypeCorrect == Spec => []TypeOK
<1>1. IInv => TypeOK
  BY DEF IInv
<1> QED
  BY <1>1, SpecIInv, PTL

(* Put first, flip next, delete last: however saves, deletes, purges,      *)
(* migrations, crashes and failed calls of any number of pods interleave,  *)
(* a document without inline content points at content the store holds,    *)
(* unless its own save took that content back.                             *)
THEOREM PointersStayResolved == Spec => []PointersResolve
<1>1. IInv => PointersResolve
  BY DEF IInv
<1> QED
  BY <1>1, SpecIInv, PTL

(* No save takes back content it has published when a driver only raises   *)
(* for writes that were not applied.                                       *)
LEMMA NothingRevoked ==
  ASSUME UncertainWrites = FALSE
  PROVE  Spec => [](revoked = {})
<1>1. Init => revoked = {}
  BY DEF Init
<1>2. revoked = {} /\ [Next]_vars => (revoked = {})'
  <2> SUFFICES ASSUME [Next]_vars PROVE revoked' = revoked
    OBVIOUS
  <2>1. CASE UNCHANGED vars
    BY <2>1 DEF vars, ghosts
  <2>2. ASSUME NEW t \in Tasks, Call(t) PROVE revoked' = revoked
    BY <2>2 DEF Call, ghosts, SavePut, SaveInline, DeleteScript, BeginRead, MigratePut,
       DeleteSkillScripts, BeginPurge
  <2>3. ASSUME NEW t \in Tasks, Continue(t) PROVE revoked' = revoked
    BY <2>3 DEF Continue, ghosts, SaveUpsert, EndPurge, PurgeOne, Dispose, FindScript,
       GetContent, RereadScript, GetContentAgain, EndRead, MigrateFlip
  <2>4. ASSUME NEW t \in Tasks, Fail(t) PROVE revoked' = revoked
    BY <2>4 DEF Fail, ghosts, SaveUpsertRaises, SaveUpsertUncertain, DisposeFails, Crash
  <2> QED
    BY <2>1, <2>2, <2>3, <2>4 DEF Next
<1> QED
  BY <1>1, <1>2, PTL DEF Spec

(* With such a driver the comment in save_script's error handler is right: *)
(* no pointer dangles, ever.                                               *)
THEOREM NoPointerDangles ==
  ASSUME UncertainWrites = FALSE
  PROVE  Spec => []NoDanglingPointer
<1>1. PointersResolve /\ revoked = {} => NoDanglingPointer
  BY DEF PointersResolve, NoDanglingPointer
<1> QED
  BY <1>1, PointersStayResolved, NothingRevoked, PTL

-----------------------------------------------------------------------------
(* Pointers and digests                                                    *)

(* The content store never holds a text under a ref of another digest.     *)
StoreAgrees == \A r \in DOMAIN store : store[r] = r.digest
DocAgrees(s) ==
    docs[s] # None =>
        IF docs[s].content # None
        THEN docs[s].content = docs[s].digest
        ELSE docs[s].ref.digest = docs[s].digest
TaskAgrees(t) ==
    /\ task[t].pc = "upsert" => task[t].hand.digest = task[t].content
    /\ task[t].pc = "flip" => task[t].hand.digest = task[t].raw.digest

(* The store gains a text only under a ref of its own digest.              *)
LEMMA StoreAgreesStep ==
  ASSUME IInv, DigestsAgree, [Next]_vars
  PROVE  StoreAgrees'
<1>1. ASSUME store' = store PROVE StoreAgrees'
  BY <1>1 DEF StoreAgrees, DigestsAgree
<1>2. ASSUME NEW r, store' = StoreWithout(r) PROVE StoreAgrees'
  BY <1>2 DEF StoreWithout, StoreAgrees, DigestsAgree
<1>3. ASSUME NEW s, NEW c, NEW i, store' = StoreWith(build_script_content_ref(s, c, i), c)
      PROVE  StoreAgrees'
  BY <1>3 DEF StoreWith, build_script_content_ref, StoreAgrees, DigestsAgree
<1>4. CASE UNCHANGED vars
  BY <1>1, <1>4 DEF vars
<1>5. ASSUME NEW t \in Tasks, Call(t) PROVE StoreAgrees'
  BY <1>1, <1>3, <1>5 DEF Call, SavePut, SaveInline, DeleteScript, BeginRead, MigratePut,
     DeleteSkillScripts, BeginPurge
<1>6. ASSUME NEW t \in Tasks, Continue(t) PROVE StoreAgrees'
  BY <1>1, <1>2, <1>6 DEF Continue, SaveUpsert, EndPurge, PurgeOne, Dispose, FindScript,
     GetContent, RereadScript, GetContentAgain, EndRead, MigrateFlip
<1>7. ASSUME NEW t \in Tasks, Fail(t) PROVE StoreAgrees'
  BY <1>1, <1>7 DEF Fail, SaveUpsertRaises, SaveUpsertUncertain, DisposeFails, Crash
<1> QED
  BY <1>4, <1>5, <1>6, <1>7 DEF Next

(* An upsert writes digest and pointer, or digest and text, together.      *)
LEMMA UpsertAgrees ==
  ASSUME IInv, DigestsAgree, NEW t \in Tasks, NEW s \in Scripts, NEW c \in Contents,
         NEW d, NEW r, Mode[t] = "store" => r.digest = c, UpsertScript(t, s, c, d, r),
         NEW x \in Scripts
  PROVE  DocAgrees(x)'
BY DEF UpsertScript, DocAgrees, DigestsAgree, IInv, TypeOK

(* No step separates a document's digest from its text or its pointer.     *)
LEMMA DocAgreesStep ==
  ASSUME IInv, DigestsAgree, [Next]_vars, NEW x \in Scripts
  PROVE  DocAgrees(x)'
<1>1. ASSUME docs' = docs PROVE DocAgrees(x)'
  BY <1>1 DEF DocAgrees, DigestsAgree
<1>2. ASSUME NEW S, RemoveDocs(S) PROVE DocAgrees(x)'
  BY <1>2 DEF RemoveDocs, DocAgrees, DigestsAgree
<1>3. CASE UNCHANGED vars
  BY <1>1, <1>3 DEF vars
<1>4. ASSUME NEW t \in Tasks, Call(t) PROVE DocAgrees(x)'
  <2>1. ASSUME NEW s \in Scripts, NEW c \in Contents, NEW d \in Dates, SaveInline(t, s, c, d)
        PROVE  DocAgrees(x)'
    BY <2>1, UpsertAgrees DEF SaveInline
  <2> QED
    BY <1>1, <1>2, <1>4, <2>1 DEF Call, SavePut, DeleteScript, BeginRead, MigratePut,
       DeleteSkillScripts, BeginPurge
<1>5. ASSUME NEW t \in Tasks, SaveUpsert(t) \/ SaveUpsertUncertain(t) PROVE DocAgrees(x)'
  <2>1. task[t].script \in Scripts /\ task[t].content \in Contents
        /\ task[t].hand.digest = task[t].content
    BY <1>5 DEF SaveUpsert, SaveUpsertUncertain, IInv, LocalsOK, HasCopy, DigestsAgree
  <2>2. PICK s \in Scripts, c \in Contents : s = task[t].script /\ c = task[t].content
    BY <2>1
  <2>3. UpsertScript(t, s, c, task[t].date, task[t].hand)
    BY <1>5, <2>2 DEF SaveUpsert, SaveUpsertUncertain
  <2> QED
    BY <2>1, <2>2, <2>3, UpsertAgrees
<1>6. ASSUME NEW t \in Tasks, MigrateFlip(t) PROVE DocAgrees(x)'
  <2>1. CASE ~SameSave(docs[task[t].script], task[t].raw)
    BY <1>1, <1>6, <2>1 DEF MigrateFlip
  <2>2. CASE SameSave(docs[task[t].script], task[t].raw)
    <3>1. task[t].hand.digest = docs[task[t].script].digest
      BY <1>6, <2>2 DEF MigrateFlip, SameSave, DigestsAgree
    <3>2. docs' = [docs EXCEPT ![task[t].script] =
                                  PointingAt(docs[task[t].script], task[t].hand)]
      BY <1>6, <2>2 DEF MigrateFlip
    <3> QED
      BY <3>1, <3>2 DEF PointingAt, DocAgrees, DigestsAgree, IInv, TypeOK
  <2> QED
    BY <2>1, <2>2
<1>7. ASSUME NEW t \in Tasks, Continue(t) PROVE DocAgrees(x)'
  BY <1>1, <1>2, <1>5, <1>6, <1>7 DEF Continue, EndPurge, PurgeOne, Dispose, FindScript,
     GetContent, RereadScript, GetContentAgain, EndRead
<1>8. ASSUME NEW t \in Tasks, Fail(t) PROVE DocAgrees(x)'
  BY <1>1, <1>5, <1>8 DEF Fail, SaveUpsertRaises, DisposeFails, Crash
<1> QED
  BY <1>3, <1>4, <1>7, <1>8 DEF Next

(* A copy waiting to be pointed at has the digest of what was copied.      *)
LEMMA TaskAgreesStep ==
  ASSUME IInv, DigestsAgree, [Next]_vars, NEW u \in Tasks
  PROVE  TaskAgrees(u)'
<1>1. ASSUME task'[u] = task[u] PROVE TaskAgrees(u)'
  BY <1>1 DEF TaskAgrees, DigestsAgree
<1>2. ASSUME task'[u].pc \notin {"upsert", "flip"} PROVE TaskAgrees(u)'
  BY <1>2 DEF TaskAgrees
<1>3. ASSUME NEW t \in Tasks, NEW me, task' = [task EXCEPT ![t] = me],
             me.pc \notin {"upsert", "flip"}
      PROVE  TaskAgrees(u)'
  BY <1>1, <1>2, <1>3 DEF IInv, TypeOK
<1>4. CASE UNCHANGED vars
  BY <1>1, <1>4 DEF vars
<1>5. ASSUME NEW r PROVE Disposing(r).pc \notin {"upsert", "flip"}
  BY DEF Disposing
<1>6. ASSUME NEW t \in Tasks, Call(t) PROVE TaskAgrees(u)'
  <2>1. ASSUME NEW s \in Scripts, NEW c \in Contents, NEW d \in Dates, SavePut(t, s, c, d)
        PROVE  TaskAgrees(u)'
    BY <1>1, <2>1 DEF SavePut, build_script_content_ref, TaskAgrees, IInv, TypeOK
  <2>2. ASSUME NEW s \in Scripts, MigratePut(t, s) PROVE TaskAgrees(u)'
    <3>1. docs[s].content = docs[s].digest
      BY <2>2 DEF MigratePut, DigestsAgree
    <3> QED
      BY <1>1, <2>2, <3>1 DEF MigratePut, build_script_content_ref, TaskAgrees, IInv, TypeOK
  <2>3. ASSUME NEW s \in Scripts, NEW c \in Contents, NEW d \in Dates, SaveInline(t, s, c, d)
        PROVE  TaskAgrees(u)'
    BY <1>3, <1>5, <2>3 DEF SaveInline
  <2>4. ASSUME NEW s \in Scripts, DeleteScript(t, s) PROVE TaskAgrees(u)'
    BY <1>1, <1>3, <1>5, <2>4 DEF DeleteScript
  <2> QED
    BY <1>1, <1>3, <1>6, <2>1, <2>2, <2>3, <2>4 DEF Call, BeginRead, DeleteSkillScripts,
       BeginPurge, Purging
<1>7. ASSUME NEW t \in Tasks, Continue(t) PROVE TaskAgrees(u)'
  BY <1>1, <1>3, <1>5, <1>7 DEF Continue, SaveUpsert, EndPurge, PurgeOne, Dispose,
     FindScript, GetContent, RereadScript, GetContentAgain, EndRead, MigrateFlip,
     AfterDispose, Purging, Answered, Following
<1>8. ASSUME NEW t \in Tasks, Fail(t) PROVE TaskAgrees(u)'
  BY <1>1, <1>3, <1>5, <1>8 DEF Fail, SaveUpsertRaises, SaveUpsertUncertain, DisposeFails,
     Crash, AfterDispose, Purging
<1> QED
  BY <1>4, <1>6, <1>7, <1>8 DEF Next

(* Digests agree in every reachable state.                                 *)
LEMMA SpecDigestsAgree == Spec => []DigestsAgree
<1>1. Init => DigestsAgree
  BY DEF Init, DigestsAgree
<1>2. IInv /\ DigestsAgree /\ [Next]_vars => DigestsAgree'
  <2> SUFFICES ASSUME IInv, DigestsAgree, [Next]_vars PROVE DigestsAgree'
    OBVIOUS
  <2>1. StoreAgrees' /\ (\A s \in Scripts : DocAgrees(s)') /\ \A t \in Tasks : TaskAgrees(t)'
    BY StoreAgreesStep, DocAgreesStep, TaskAgreesStep
  <2> QED
    BY <2>1 DEF DigestsAgree, StoreAgrees, DocAgrees, TaskAgrees
<1> QED
  BY <1>1, <1>2, SpecIInv, PTL DEF Spec

(* A document never leads to a text other than the one its digest was      *)
(* computed from, although the text is copied, moved between two systems   *)
(* and overwritten by pods with different configurations, and although the *)
(* dates that tell saves apart may be equal.                               *)
THEOREM ContentKeepsDigest == Spec => []ContentMatchesDigest
<1>1. DigestsAgree => ContentMatchesDigest
  BY DEF DigestsAgree, ContentMatchesDigest
<1> QED
  BY <1>1, SpecDigestsAgree, PTL

-----------------------------------------------------------------------------
(* Content is accounted for                                                *)

(* Whoever is responsible for ref r: a document, a call or a failure.      *)
Accounted(r) ==
    \/ \E s \in Scripts : PointerOf(s) = r
    \/ \E t \in Tasks : task[t].hand = r
    \/ r \in lost \cup overtaken

(* One call moves on: content it adds is in its hand, and what it lets go  *)
(* of, or what documents let go of, is in its hand or given up.            *)
LEMMA AccountedStep ==
  ASSUME IInv, ContentAccounted, NEW t \in Tasks, NEW me,
         task' = [task EXCEPT ![t] = me],
         lost \subseteq lost', overtaken \subseteq overtaken',
         \A r \in DOMAIN store' : r \in DOMAIN store \/ r = me.hand,
         \A s \in Scripts : PointerOf(s) \in {None, me.hand} \cup lost' \cup overtaken'
                              \/ \E x \in Scripts : PointerOf(x)' = PointerOf(s),
         \/ task[t].hand \in {None, me.hand} \cup lost'
         \/ \E x \in Scripts : PointerOf(x)' = task[t].hand
         \/ task[t].hand \notin DOMAIN store'
  PROVE  ContentAccounted'
<1>1. task'[t] = me /\ \A u \in Tasks \ {t} : task'[u] = task[u]
  BY DEF IInv, TypeOK
<1>2. \A r \in DOMAIN store : r # None
  BY DEF IInv, TypeOK
<1>3. ASSUME NEW r \in DOMAIN store' PROVE Accounted(r)'
  <2>1. CASE r = me.hand
    BY <1>1, <2>1 DEF Accounted
  <2>2. CASE r \in DOMAIN store
    <3>1. Accounted(r)
      BY <2>2 DEF ContentAccounted, Accounted, PointsAt
    <3>2. CASE \E s \in Scripts : PointerOf(s) = r
      BY <1>1, <1>2, <2>2, <3>2 DEF Accounted
    <3>3. CASE \E u \in Tasks : task[u].hand = r
      BY <1>1, <1>2, <1>3, <2>2, <3>3 DEF Accounted
    <3>4. CASE r \in lost \cup overtaken
      BY <3>4 DEF Accounted
    <3> QED
      BY <3>1, <3>2, <3>3, <3>4 DEF Accounted
  <2> QED
    BY <1>3, <2>1, <2>2
<1> QED
  BY <1>3 DEF ContentAccounted, Accounted, PointsAt

(* A call that has no ref in hand and takes none.                          *)
LEMMA EmptyHand ==
  ASSUME IInv, NEW t \in Tasks, ~HasCopy(t), ~Disposes(t)
  PROVE  task[t].hand = None
BY DEF IInv, LocalsOK

(* The refs a call has in hand on its way to deleting them.                *)
LEMMA HandFacts ==
  ASSUME NEW r
  PROVE  /\ r # None => Disposing(r).hand = r
         /\ r = None => Disposing(r).hand = None
         /\ Purging(r).hand = r
         /\ Idle.hand = None
BY DEF Disposing, Purging

(* No step of a save strands content.                                      *)
LEMMA SavesAccounted ==
  ASSUME IInv, ContentAccounted, NEW t \in Tasks,
         \/ SaveUpsert(t) \/ SaveUpsertUncertain(t) \/ SaveUpsertRaises(t)
         \/ \E s \in Scripts, c \in Contents, d \in Dates :
              SavePut(t, s, c, d) \/ SaveInline(t, s, c, d)
  PROVE  ContentAccounted'
<1>1. CASE SaveUpsert(t) \/ SaveUpsertUncertain(t)
  <2>1. /\ task[t].script \in Scripts /\ task[t].hand \in Refs
        /\ Mode[t] = "store" /\ task[t].content \in Contents /\ task[t].date \in Dates
    BY <1>1 DEF SaveUpsert, SaveUpsertUncertain, IInv, LocalsOK, HasCopy
  <2>2. PICK s \in Scripts, r \in Refs : s = task[t].script /\ r = task[t].hand
    BY <2>1
  <2>3. /\ UpsertScript(t, s, task[t].content, task[t].date, r)
        /\ store' = store /\ overtaken' = overtaken
    BY <1>1, <2>2 DEF SaveUpsert, SaveUpsertUncertain, ghosts
  <2>4. PointerOf(s)' = r /\ \A x \in Scripts \ {s} : PointerOf(x)' = PointerOf(x)
    BY <2>1, <2>3, UpsertFacts
  <2>5. \/ task' = [task EXCEPT ![t] = Disposing(PointerOf(s))] /\ lost' = lost
        \/ /\ task' = [task EXCEPT ![t] = Disposing(r)]
           /\ lost' = lost \cup InHand(PointerOf(s))
    BY <1>1, <2>2 DEF SaveUpsert, SaveUpsertUncertain, ghosts
  <2>6. CASE task' = [task EXCEPT ![t] = Disposing(PointerOf(s))] /\ lost' = lost
    <3> DEFINE me == Disposing(PointerOf(s))
    <3>1. PointerOf(s) \in {None, me.hand}
      BY HandFacts
    <3>2. task' = [task EXCEPT ![t] = me]
      BY <2>6
    <3> HIDE DEF me
    <3> QED
      BY <2>2, <2>3, <2>4, <2>6, <3>1, <3>2, AccountedStep
  <2>7. CASE /\ task' = [task EXCEPT ![t] = Disposing(r)]
             /\ lost' = lost \cup InHand(PointerOf(s))
    <3> DEFINE me == Disposing(r)
    <3>1. PointerOf(s) \in {None} \cup lost'
      BY <2>7 DEF InHand
    <3>2. task' = [task EXCEPT ![t] = me] /\ lost \subseteq lost'
      BY <2>7
    <3> HIDE DEF me
    <3> QED
      BY <2>2, <2>3, <2>4, <3>1, <3>2, AccountedStep
  <2> QED
    BY <2>5, <2>6, <2>7
<1>2. CASE SaveUpsertRaises(t)
  <2> DEFINE me == Disposing(task[t].hand)
  <2>1. task' = [task EXCEPT ![t] = me] /\ UNCHANGED <<docs, store, lost, overtaken>>
    BY <1>2 DEF SaveUpsertRaises, ghosts
  <2>2. task[t].hand \in {None, me.hand}
    BY HandFacts
  <2>3. \A s \in Scripts : PointerOf(s)' = PointerOf(s)
    BY <2>1 DEF PointerOf
  <2> HIDE DEF me
  <2> QED
    BY <2>1, <2>2, <2>3, AccountedStep
<1>3. ASSUME NEW s \in Scripts, NEW c \in Contents, NEW d \in Dates, SavePut(t, s, c, d)
      PROVE  ContentAccounted'
  <2>1. PICK r : /\ task' = [task EXCEPT ![t] = At("upsert", s, c, d, r, None)]
                 /\ store' = StoreWith(r, c)
    BY <1>3 DEF SavePut
  <2> DEFINE me == At("upsert", s, c, d, r, None)
  <2>2. \A x \in DOMAIN store' : x \in DOMAIN store \/ x = me.hand
    BY <2>1 DEF StoreWith
  <2>3. task' = [task EXCEPT ![t] = me] /\ UNCHANGED <<docs, lost, overtaken>>
    BY <1>3, <2>1 DEF SavePut, ghosts
  <2>4. task[t].hand = None
    BY <1>3, EmptyHand DEF SavePut, HasCopy, Disposes
  <2>5. \A x \in Scripts : PointerOf(x)' = PointerOf(x)
    BY <2>3 DEF PointerOf
  <2> HIDE DEF me
  <2> QED
    BY <2>2, <2>3, <2>4, <2>5, AccountedStep
<1>4. ASSUME NEW s \in Scripts, NEW c \in Contents, NEW d \in Dates, SaveInline(t, s, c, d)
      PROVE  ContentAccounted'
  <2>1. /\ PointerOf(s)' = IF Mode[t] = "inline" THEN None ELSE PointerOf(s)
        /\ \A x \in Scripts \ {s} : PointerOf(x)' = PointerOf(x)
    BY <1>4, UpsertFacts DEF SaveInline
  <2> DEFINE me == Disposing(IF Mode[t] = "inline" THEN PointerOf(s) ELSE None)
  <2>2. PointerOf(s) \in {None, me.hand, PointerOf(s)'}
    BY <2>1, HandFacts
  <2>3. task' = [task EXCEPT ![t] = me] /\ UNCHANGED <<store, lost, overtaken>>
    BY <1>4 DEF SaveInline, ghosts
  <2>4. task[t].hand = None
    BY <1>4, EmptyHand DEF SaveInline, HasCopy, Disposes
  <2> HIDE DEF me
  <2> QED
    BY <2>1, <2>2, <2>3, <2>4, AccountedStep
<1> QED
  BY <1>1, <1>2, <1>3, <1>4

(* No step of a deletion strands content.                                  *)
LEMMA DeletesAccounted ==
  ASSUME IInv, ContentAccounted, NEW t \in Tasks,
         \/ \E s \in Scripts : DeleteScript(t, s) \/ PurgeOne(t, s)
         \/ DeleteSkillScripts(t)
  PROVE  ContentAccounted'
<1>1. task[t].hand = None
  BY EmptyHand DEF DeleteScript, PurgeOne, DeleteSkillScripts, HasCopy, Disposes
<1>2. ASSUME NEW S, RemoveDocs(S), NEW x \in Scripts, x \notin S
      PROVE  PointerOf(x)' = PointerOf(x)
  BY <1>2 DEF RemoveDocs, PointerOf
<1>3. ASSUME NEW S \in SUBSET Scripts, RemoveDocs(S), NEW me,
             task' = [task EXCEPT ![t] = me],
             lost \subseteq lost', UNCHANGED <<store, overtaken>>,
             \A s \in S : PointerOf(s) \in {None, me.hand} \cup lost'
      PROVE  ContentAccounted'
  BY <1>1, <1>2, <1>3, AccountedStep
<1>4. task' = task => task' = [task EXCEPT ![t] = task[t]]
  BY DEF IInv, TypeOK
<1>5. ASSUME NEW s \in Scripts, DeleteScript(t, s) PROVE ContentAccounted'
  <2>1. /\ {s} \in SUBSET Scripts /\ RemoveDocs({s}) /\ lost \subseteq lost'
        /\ UNCHANGED <<store, overtaken>>
    BY <1>5 DEF DeleteScript
  <2>2. CASE Mode[t] = "none"
    <3>1. lost' = lost \cup PointersOf({s}) /\ task' = task
      BY <1>5, <2>2 DEF DeleteScript
    <3>2. PointerOf(s) \in {None} \cup lost'
      BY <3>1 DEF PointersOf
    <3> QED
      BY <1>3, <1>4, <2>1, <3>1, <3>2
  <2>3. CASE Mode[t] # "none"
    <3> DEFINE me == Disposing(PointerOf(s))
    <3>1. task' = [task EXCEPT ![t] = me]
      BY <1>5, <2>3 DEF DeleteScript
    <3>2. PointerOf(s) \in {None, me.hand}
      BY HandFacts
    <3> HIDE DEF me
    <3> QED
      BY <1>3, <2>1, <3>1, <3>2
  <2> QED
    BY <2>2, <2>3
<1>6. ASSUME NEW s \in Scripts, PurgeOne(t, s) PROVE ContentAccounted'
  <2> DEFINE me == Purging(PointerOf(s))
  <2>1. /\ {s} \in SUBSET Scripts /\ RemoveDocs({s}) /\ UNCHANGED <<lost, store, overtaken>>
        /\ task' = [task EXCEPT ![t] = me]
    BY <1>6 DEF PurgeOne, ghosts
  <2>2. PointerOf(s) = me.hand
    BY HandFacts
  <2> HIDE DEF me
  <2> QED
    BY <1>3, <2>1, <2>2
<1>7. CASE DeleteSkillScripts(t)
  <2>1. /\ RemoveDocs(Scripts) /\ UNCHANGED <<store, task, overtaken>>
        /\ lost' = lost \cup PointersOf(Scripts)
    BY <1>7 DEF DeleteSkillScripts
  <2>2. \A s \in Scripts : PointerOf(s) \in {None} \cup lost'
    BY <2>1 DEF PointersOf
  <2> QED
    BY <1>3, <1>4, <2>1, <2>2
<1> QED
  BY <1>5, <1>6, <1>7

(* Neither does a migration, although two may overtake each other.         *)
LEMMA MigrationsAccounted ==
  ASSUME IInv, ContentAccounted, NEW t \in Tasks,
         MigrateFlip(t) \/ \E s \in Scripts : MigratePut(t, s)
  PROVE  ContentAccounted'
<1>1. ASSUME NEW s \in Scripts, MigratePut(t, s) PROVE ContentAccounted'
  <2>1. PICK r : /\ task' = [task EXCEPT ![t] = At("flip", s, None, None, r, docs[s])]
                 /\ store' = StoreWith(r, docs[s].content)
    BY <1>1 DEF MigratePut
  <2> DEFINE me == At("flip", s, None, None, r, docs[s])
  <2>2. \A x \in DOMAIN store' : x \in DOMAIN store \/ x = me.hand
    BY <2>1 DEF StoreWith
  <2>3. task' = [task EXCEPT ![t] = me] /\ UNCHANGED <<docs, lost, overtaken>>
    BY <1>1, <2>1 DEF MigratePut, ghosts
  <2>4. task[t].hand = None
    BY <1>1, EmptyHand DEF MigratePut, HasCopy, Disposes
  <2>5. \A x \in Scripts : PointerOf(x)' = PointerOf(x)
    BY <2>3 DEF PointerOf
  <2> HIDE DEF me
  <2> QED
    BY <2>2, <2>3, <2>4, <2>5, AccountedStep
<1>2. CASE MigrateFlip(t)
  <2>1. PICK s \in Scripts, r \in Refs : s = task[t].script /\ r = task[t].hand
    BY <1>2 DEF MigrateFlip, IInv, LocalsOK, HasCopy
  <2>2. UNCHANGED <<store, lost>>
    BY <1>2 DEF MigrateFlip
  <2>3. CASE ~SameSave(docs[s], task[t].raw)
    <3> DEFINE me == Disposing(r)
    <3>1. task' = [task EXCEPT ![t] = me] /\ UNCHANGED <<docs, overtaken>>
      BY <1>2, <2>1, <2>3 DEF MigrateFlip
    <3>2. r = me.hand
      BY HandFacts
    <3>3. \A x \in Scripts : PointerOf(x)' = PointerOf(x)
      BY <3>1 DEF PointerOf
    <3> HIDE DEF me
    <3> QED
      BY <2>1, <2>2, <3>1, <3>2, <3>3, AccountedStep
  <2>4. CASE SameSave(docs[s], task[t].raw)
    <3> DEFINE me == Disposing(task[t].raw.ref)
    <3>1. /\ docs' = [docs EXCEPT ![s] = PointingAt(docs[s], r)]
          /\ task' = [task EXCEPT ![t] = me]
          /\ overtaken' = overtaken \cup (InHand(docs[s].ref) \ {task[t].raw.ref})
      BY <1>2, <2>1, <2>4 DEF MigrateFlip
    <3>2. docs[s] # None /\ docs[s] \in Docs
      BY <2>4 DEF SameSave, IInv, TypeOK
    <3>3. PointingAt(docs[s], r) \in Docs
      BY <3>2 DEF PointingAt, Docs
    <3>4. PointerOf(s)' = r /\ \A x \in Scripts \ {s} : PointerOf(x)' = PointerOf(x)
      BY <3>1, <3>3 DEF PointingAt, PointerOf, IInv, TypeOK
    <3>5. PointerOf(s) = docs[s].ref
      BY <3>2 DEF PointerOf
    <3>6. PointerOf(s) \in {None, me.hand} \cup overtaken'
      BY <3>1, <3>5, HandFacts DEF InHand
    <3> HIDE DEF me
    <3> QED
      BY <2>1, <2>2, <3>1, <3>4, <3>6, AccountedStep
  <2> QED
    BY <2>3, <2>4
<1> QED
  BY <1>1, <1>2

(* Calls that delete content, read, end or die.                            *)
LEMMA OthersAccounted ==
  ASSUME IInv, ContentAccounted, NEW t \in Tasks,
         \/ BeginPurge(t) \/ EndPurge(t) \/ Dispose(t) \/ DisposeFails(t) \/ Crash(t)
         \/ \E s \in Scripts : BeginRead(t, s)
         \/ FindScript(t) \/ GetContent(t) \/ RereadScript(t) \/ GetContentAgain(t)
         \/ EndRead(t)
  PROVE  ContentAccounted'
<1>1. /\ docs' = docs /\ overtaken' = overtaken /\ lost \subseteq lost'
      /\ \A r \in DOMAIN store' : r \in DOMAIN store
  BY DEF BeginPurge, EndPurge, Dispose, DisposeFails, Crash, BeginRead, FindScript,
     GetContent, RereadScript, GetContentAgain, EndRead, StoreWithout, ghosts
<1>2. \A x \in Scripts : PointerOf(x)' = PointerOf(x)
  BY <1>1 DEF PointerOf
<1>3. PICK me : task' = [task EXCEPT ![t] = me]
  BY DEF BeginPurge, EndPurge, Dispose, DisposeFails, Crash, BeginRead, FindScript,
     GetContent, RereadScript, GetContentAgain, EndRead, Answered
<1>4. \/ task[t].hand \in {None} \cup lost'
      \/ task[t].hand \notin DOMAIN store'
  <2>1. CASE Dispose(t)
    BY <2>1 DEF Dispose, StoreWithout
  <2>2. CASE DisposeFails(t) \/ Crash(t)
    BY <2>2 DEF DisposeFails, Crash, InHand
  <2>3. CASE \/ BeginPurge(t) \/ EndPurge(t) \/ \E s \in Scripts : BeginRead(t, s)
             \/ FindScript(t) \/ GetContent(t) \/ RereadScript(t) \/ GetContentAgain(t)
             \/ EndRead(t)
    BY <2>3, EmptyHand DEF BeginPurge, EndPurge, BeginRead, FindScript, GetContent,
       RereadScript, GetContentAgain, EndRead, HasCopy, Disposes
  <2> QED
    BY <2>1, <2>2, <2>3
<1> QED
  BY <1>1, <1>2, <1>3, <1>4, AccountedStep

(* Whatever saves, deletes, purges, migrations and crashes overlap, every  *)
(* text in the content store is pointed at, in the hands of a call, or was *)
(* given up by a failure, a pod without a store or a second migration:     *)
(* nothing leaks unnoticed.                                                *)
THEOREM ContentStaysAccounted == Spec => []ContentAccounted
<1>1. Init => ContentAccounted
  BY DEF Init, ContentAccounted
<1>2. IInv /\ ContentAccounted /\ [Next]_vars => ContentAccounted'
  <2> SUFFICES ASSUME IInv, ContentAccounted, [Next]_vars PROVE ContentAccounted'
    OBVIOUS
  <2>1. CASE UNCHANGED vars
    BY <2>1 DEF vars, ghosts, ContentAccounted, PointsAt, PointerOf
  <2>2. ASSUME NEW t \in Tasks, Call(t) PROVE ContentAccounted'
    BY <2>2, SavesAccounted, DeletesAccounted, MigrationsAccounted, OthersAccounted DEF Call
  <2>3. ASSUME NEW t \in Tasks, Continue(t) PROVE ContentAccounted'
    BY <2>3, SavesAccounted, DeletesAccounted, MigrationsAccounted, OthersAccounted DEF Continue
  <2>4. ASSUME NEW t \in Tasks, Fail(t) PROVE ContentAccounted'
    BY <2>4, SavesAccounted, OthersAccounted DEF Fail
  <2> QED
    BY <2>1, <2>2, <2>3, <2>4 DEF Next
<1> QED
  BY <1>1, <1>2, SpecIInv, PTL DEF Spec

-----------------------------------------------------------------------------
(* ScriptContent implements ScriptRegister: what readers are told.  The    *)
(* invariants below speak of a read between its steps, in terms of what    *)
(* its watch has seen; they rest on IInv and DigestsAgree.                 *)
(*                                                                         *)
(* Steps come in two kinds.  A step of a call that does not read (Apart)   *)
(* may change documents, and then every reader's watch is told             *)
(* (WritersApart).  A step of a read changes no document.                  *)

InRead(me) == me.pc \in ReadingPcs \cup {"answered"}

(* A read under way has a watch that has seen what its script holds, and   *)
(* carries no document but one its watch has seen.                         *)
Follows(t) ==
    /\ Reading(t) =>
         task[t].content = None /\ ValueOf(docs[task[t].script]) \in watch[t].seen
    /\ task[t].pc \in {"get", "reread", "getagain"} =>
         /\ task[t].raw.digest \in watch[t].seen
         /\ task[t].raw.ref.digest = task[t].raw.digest
ReadsFollow == \A t \in Tasks : Follows(t)

(* How the documents may change in a step: a script is written, scripts    *)
(* are cleared, or the scripts keep their values.                          *)
WrittenOne(s, c) ==
    \A x \in Scripts : ValueOf(docs[x])' = IF x = s THEN c ELSE ValueOf(docs[x])
Cleared(S) ==
    \A x \in Scripts : ValueOf(docs[x])' = IF x \in S THEN None ELSE ValueOf(docs[x])
Moved == \A x \in Scripts : ValueOf(docs[x])' = ValueOf(docs[x])
Changes ==
    \/ \E s \in Scripts, c \in Contents : WrittenOne(s, c)
    \/ \E S \in SUBSET Scripts : Cleared(S)
    \/ Moved

(* A document that stays keeps its id.                                     *)
IdsStay ==
    \A x \in Scripts :
        docs[x] # None /\ docs'[x] # None => docs'[x].id = docs[x].id

(* A step of t, which is not reading, with all watches kept up to date.    *)
Apart(t) ==
    /\ \A u \in Tasks \ {t} : task'[u] = task[u]
    /\ ~InRead(task[t])
    /\ ~InRead(task'[t])
    /\ \/ UNCHANGED <<docs, watch>>
       \/ WatchScripts /\ Changes /\ IdsStay
    /\ revoked \subseteq revoked'

-----------------------------------------------------------------------------
(* Calls that do not read                                                  *)

(* An upsert writes one script, and keeps the id of a document it finds.   *)
LEMMA UpsertChanges ==
  ASSUME IInv, NEW t \in Tasks, NEW s \in Scripts, NEW c \in Contents, NEW d \in Dates,
         NEW r \in Refs \cup {None}, Mode[t] = "store" <=> r # None,
         UpsertScript(t, s, c, d, r)
  PROVE  WatchScripts /\ Changes /\ IdsStay
<1>1. PICK i \in IdsForUpsert(s, r) :
        /\ docs' = [docs EXCEPT ![s] =
              [id      |-> i,
               content |-> IF Mode[t] = "store" THEN None ELSE c,
               ref     |-> IF Mode[t] = "store" THEN r
                           ELSE IF Mode[t] = "inline" THEN None
                           ELSE PointerOf(s),
               digest  |-> c,
               date    |-> d]]
        /\ WatchScripts
  BY DEF UpsertScript
<1>2. /\ docs'[s].digest = c
      /\ docs'[s].id = i
      /\ \A x \in Scripts \ {s} : docs'[x] = docs[x]
  BY <1>1 DEF IInv, TypeOK
<1>3. docs'[s] # None
  BY UpsertFacts
<1>4. WrittenOne(s, c)
  BY <1>2, <1>3 DEF WrittenOne, ValueOf
<1>5. IdsStay
  BY <1>2 DEF IdsStay, IdsForUpsert
<1> QED
  BY <1>1, <1>4, <1>5 DEF Changes

(* Where a call that does not read may go next.                            *)
LEMMA NextLocals ==
  ASSUME NEW r
  PROVE  ~InRead(Disposing(r)) /\ ~InRead(Purging(r)) /\ ~InRead(Idle)
BY DEF InRead, ReadingPcs, Disposing, Purging

(* A call that moves from one state to another, neither of them a read.    *)
LEMMA ApartStep ==
  ASSUME IInv, NEW t \in Tasks, NEW me, task' = [task EXCEPT ![t] = me],
         ~InRead(task[t]), ~InRead(me),
         \/ UNCHANGED <<docs, watch>>
         \/ WatchScripts /\ Changes /\ IdsStay,
         revoked \subseteq revoked'
  PROVE  Apart(t)
BY DEF Apart, IInv, TypeOK

(* The two systems of a save: its upsert, applied or not.                  *)
LEMMA SavesApart ==
  ASSUME IInv, NEW t \in Tasks,
         \/ SaveUpsert(t) \/ SaveUpsertUncertain(t) \/ SaveUpsertRaises(t)
         \/ \E s \in Scripts, c \in Contents, d \in Dates :
              SavePut(t, s, c, d) \/ SaveInline(t, s, c, d)
  PROVE  Apart(t)
<1>1. task[t].pc \in {"idle", "upsert"}
  BY DEF SaveUpsert, SaveUpsertUncertain, SaveUpsertRaises, SavePut, SaveInline
<1>2. ~InRead(task[t])
  BY <1>1 DEF InRead, ReadingPcs
<1>3. CASE SaveUpsert(t) \/ SaveUpsertUncertain(t)
  <2>1. /\ task[t].script \in Scripts /\ task[t].hand \in Refs
        /\ Mode[t] = "store" /\ task[t].content \in Contents /\ task[t].date \in Dates
    BY <1>3 DEF SaveUpsert, SaveUpsertUncertain, IInv, LocalsOK, HasCopy
  <2>2. UpsertScript(t, task[t].script, task[t].content, task[t].date, task[t].hand)
    BY <1>3 DEF SaveUpsert, SaveUpsertUncertain
  <2>3. WatchScripts /\ Changes /\ IdsStay
    BY <2>1, <2>2, UpsertChanges
  <2>4. revoked \subseteq revoked'
    BY <1>3 DEF SaveUpsert, SaveUpsertUncertain, ghosts
  <2>5. PICK r : task' = [task EXCEPT ![t] = Disposing(r)]
    BY <1>3 DEF SaveUpsert, SaveUpsertUncertain
  <2> QED
    BY <1>2, <2>3, <2>4, <2>5, NextLocals, ApartStep
<1>4. CASE SaveUpsertRaises(t)
  BY <1>2, <1>4, NextLocals, ApartStep DEF SaveUpsertRaises, ghosts
<1>5. ASSUME NEW s \in Scripts, NEW c \in Contents, NEW d \in Dates, SavePut(t, s, c, d)
      PROVE  Apart(t)
  <2>1. PICK r : task' = [task EXCEPT ![t] = At("upsert", s, c, d, r, None)]
    BY <1>5 DEF SavePut
  <2>2. ~InRead(At("upsert", s, c, d, r, None))
    BY DEF InRead, ReadingPcs
  <2> QED
    BY <1>2, <1>5, <2>1, <2>2, ApartStep DEF SavePut, ghosts
<1>6. ASSUME NEW s \in Scripts, NEW c \in Contents, NEW d \in Dates, SaveInline(t, s, c, d)
      PROVE  Apart(t)
  <2>1. WatchScripts /\ Changes /\ IdsStay
    BY <1>6, UpsertChanges DEF SaveInline
  <2> QED
    BY <1>2, <1>6, <2>1, NextLocals, ApartStep DEF SaveInline, ghosts
<1> QED
  BY <1>3, <1>4, <1>5, <1>6

(* Removing documents clears their scripts.                                *)
LEMMA RemoveChanges ==
  ASSUME NEW S \in SUBSET Scripts, RemoveDocs(S)
  PROVE  Changes /\ IdsStay
<1>1. \A x \in Scripts : docs'[x] = IF x \in S THEN None ELSE docs[x]
  BY DEF RemoveDocs
<1>2. Cleared(S)
  BY <1>1 DEF Cleared, ValueOf
<1> QED
  BY <1>1, <1>2 DEF Changes, IdsStay

(* Deletes, purges and the deletion of content.                            *)
LEMMA DeletesApart ==
  ASSUME IInv, NEW t \in Tasks,
         \/ \E s \in Scripts : DeleteScript(t, s) \/ PurgeOne(t, s)
         \/ DeleteSkillScripts(t)
         \/ BeginPurge(t) \/ EndPurge(t) \/ Dispose(t) \/ DisposeFails(t)
  PROVE  Apart(t)
<1>1. task[t].pc \in {"idle", "purge", "dispose", "purgedispose"}
  BY DEF DeleteScript, PurgeOne, DeleteSkillScripts, BeginPurge, EndPurge, Dispose,
     DisposeFails
<1>2. ~InRead(task[t])
  BY <1>1 DEF InRead, ReadingPcs
<1>3. task' = task \/ \E r : task' \in {[task EXCEPT ![t] = Disposing(r)],
                                        [task EXCEPT ![t] = Purging(r)],
                                        [task EXCEPT ![t] = Idle]}
  BY DEF DeleteScript, PurgeOne, DeleteSkillScripts, BeginPurge, EndPurge, Dispose,
     DisposeFails, AfterDispose
<1>4. UNCHANGED <<docs, watch>> \/ (WatchScripts /\ Changes /\ IdsStay)
  BY RemoveChanges DEF DeleteScript, PurgeOne, DeleteSkillScripts, BeginPurge, EndPurge,
     Dispose, DisposeFails
<1>5. revoked \subseteq revoked'
  BY DEF DeleteScript, PurgeOne, DeleteSkillScripts, BeginPurge, EndPurge, Dispose,
     DisposeFails, ghosts
<1>6. task' = task => task' = [task EXCEPT ![t] = task[t]]
  BY DEF IInv, TypeOK
<1> QED
  BY <1>2, <1>3, <1>4, <1>5, <1>6, NextLocals, ApartStep

(* Moving a text to the store changes no value.                            *)
LEMMA MigrationsApart ==
  ASSUME IInv, NEW t \in Tasks,
         MigrateFlip(t) \/ \E s \in Scripts : MigratePut(t, s)
  PROVE  Apart(t)
<1>1. ~InRead(task[t])
  BY DEF MigrateFlip, MigratePut, InRead, ReadingPcs
<1>2. ASSUME NEW s \in Scripts, MigratePut(t, s) PROVE Apart(t)
  <2>1. PICK r : task' = [task EXCEPT ![t] = At("flip", s, None, None, r, docs[s])]
    BY <1>2 DEF MigratePut
  <2>2. ~InRead(At("flip", s, None, None, r, docs[s]))
    BY DEF InRead, ReadingPcs
  <2> QED
    BY <1>1, <1>2, <2>1, <2>2, ApartStep DEF MigratePut, ghosts
<1>3. CASE MigrateFlip(t)
  <2>1. PICK s \in Scripts, r \in Refs : s = task[t].script /\ r = task[t].hand
    BY <1>3 DEF MigrateFlip, IInv, LocalsOK, HasCopy
  <2>2. PICK q : task' = [task EXCEPT ![t] = Disposing(q)]
    BY <1>3 DEF MigrateFlip
  <2>3. revoked' = revoked
    BY <1>3 DEF MigrateFlip
  <2>4. CASE ~SameSave(docs[s], task[t].raw)
    BY <1>1, <1>3, <2>1, <2>2, <2>3, <2>4, NextLocals, ApartStep DEF MigrateFlip
  <2>5. CASE SameSave(docs[s], task[t].raw)
    <3>1. docs' = [docs EXCEPT ![s] = PointingAt(docs[s], r)] /\ WatchScripts
      BY <1>3, <2>1, <2>5 DEF MigrateFlip
    <3>2. docs[s] # None /\ docs[s] \in Docs
      BY <2>5 DEF SameSave, IInv, TypeOK
    <3>3. PointingAt(docs[s], r) \in Docs
      BY <3>2 DEF PointingAt, Docs
    <3>4. /\ docs'[s] # None /\ docs'[s].id = docs[s].id /\ docs'[s].digest = docs[s].digest
          /\ \A x \in Scripts \ {s} : docs'[x] = docs[x]
      BY <3>1, <3>3 DEF PointingAt, IInv, TypeOK
    <3>5. Moved /\ IdsStay
      BY <3>2, <3>4 DEF Moved, IdsStay, ValueOf
    <3> QED
      BY <1>1, <2>2, <2>3, <3>1, <3>5, NextLocals, ApartStep DEF Changes
  <2> QED
    BY <2>4, <2>5
<1> QED
  BY <1>2, <1>3

-----------------------------------------------------------------------------
(* Calls that read                                                         *)

(* A step of t alone, in which no document changes.                        *)
Alone(t) ==
    /\ UNCHANGED <<docs, store, revoked>>
    /\ \A u \in Tasks \ {t} : task'[u] = task[u] /\ watch'[u] = watch[u]

ReadStep(t) ==
    \/ \E s \in Scripts : BeginRead(t, s)
    \/ FindScript(t)
    \/ GetContent(t)
    \/ RereadScript(t)
    \/ GetContentAgain(t)
    \/ EndRead(t)

(* Reads, and calls that die, leave everybody else alone.                  *)
LEMMA ReadsAlone ==
  ASSUME IInv, NEW t \in Tasks, ReadStep(t) \/ Crash(t)
  PROVE  Alone(t)
BY DEF ReadStep, BeginRead, FindScript, GetContent, RereadScript, GetContentAgain, EndRead,
   Crash, Alone, Answered, Following, ghosts, IInv, TypeOK

(* Every step is of one of these kinds.                                    *)
LEMMA StepKinds ==
  ASSUME IInv, [Next]_vars
  PROVE  \/ UNCHANGED vars
         \/ \E t \in Tasks : Apart(t)
         \/ \E t \in Tasks : ReadStep(t) \/ Crash(t)
<1>1. CASE UNCHANGED vars
  BY <1>1
<1>2. ASSUME NEW t \in Tasks, Call(t)
      PROVE  Apart(t) \/ ReadStep(t) \/ Crash(t)
  BY <1>2, SavesApart, DeletesApart, MigrationsApart DEF Call, ReadStep
<1>3. ASSUME NEW t \in Tasks, Continue(t)
      PROVE  Apart(t) \/ ReadStep(t) \/ Crash(t)
  BY <1>3, SavesApart, DeletesApart, MigrationsApart DEF Continue, ReadStep
<1>4. ASSUME NEW t \in Tasks, Fail(t)
      PROVE  Apart(t) \/ ReadStep(t) \/ Crash(t)
  BY <1>4, SavesApart, DeletesApart, MigrationsApart DEF Fail, ReadStep
<1> QED
  BY <1>1, <1>2, <1>3, <1>4 DEF Next

(* What a watch has seen after a step of somebody else: the value its      *)
(* script has now, besides what it had seen.                               *)
LEMMA WatchApart ==
  ASSUME IInv, ReadsFollow, NEW t \in Tasks, Apart(t), NEW u \in Tasks, InRead(task[u])
  PROVE  /\ task'[u] = task[u]
         /\ ~Reading(u) => watch'[u] = watch[u]
         /\ Reading(u) =>
              watch'[u].seen = watch[u].seen \cup {ValueOf(docs'[task[u].script])}
<1>1. u # t
  BY DEF Apart
<1>2. task'[u] = task[u]
  BY <1>1 DEF Apart
<1>3. CASE UNCHANGED <<docs, watch>>
  BY <1>2, <1>3 DEF ReadsFollow, Follows
<1>4. CASE WatchScripts
  BY <1>2, <1>4 DEF WatchScripts
<1> QED
  BY <1>2, <1>3, <1>4 DEF Apart

(* No write makes a read lose sight of its script.                         *)
LEMMA FollowsApart ==
  ASSUME IInv, ReadsFollow, NEW t \in Tasks, Apart(t), NEW u \in Tasks
  PROVE  Follows(u)'
<1>1. CASE ~InRead(task'[u])
  BY <1>1 DEF Follows, Reading, InRead, ReadingPcs
<1>2. CASE InRead(task'[u])
  <2>1. u # t
    BY <1>2 DEF Apart
  <2>2. InRead(task[u]) /\ task'[u] = task[u]
    BY <1>2, <2>1 DEF Apart
  <2>3. /\ ~Reading(u) => watch'[u] = watch[u]
        /\ Reading(u) =>
             watch'[u].seen = watch[u].seen \cup {ValueOf(docs'[task[u].script])}
    BY <2>2, WatchApart
  <2>4. Follows(u)
    BY DEF ReadsFollow
  <2>5. Reading(u)' <=> Reading(u)
    BY <2>2 DEF Reading
  <2>6. task[u].pc \in {"get", "reread", "getagain"} => Reading(u)
    BY DEF Reading, ReadingPcs
  <2>7. ValueOf(docs[task[u].script])' = ValueOf(docs'[task[u].script])
    BY <2>2 DEF ValueOf
  <2> QED
    BY <2>2, <2>3, <2>4, <2>5, <2>6, <2>7 DEF Follows
<1> QED
  BY <1>1, <1>2

(* The document a read finds is one its watch has just seen, and its text  *)
(* or its pointer agrees with its digest.                                  *)
LEMMA DocSeen ==
  ASSUME IInv, DigestsAgree, ReadsFollow, NEW t \in Tasks, Reading(t),
         docs[task[t].script] # None
  PROVE  LET doc == docs[task[t].script] IN
         /\ doc \in Docs
         /\ doc.digest \in watch[t].seen
         /\ IF doc.content # None THEN doc.content = doc.digest
            ELSE doc.ref \in Refs /\ doc.ref.digest = doc.digest
<1>1. task[t].script \in Scripts
  BY DEF IInv, LocalsOK
<1>2. docs[task[t].script].digest \in watch[t].seen
  BY DEF ReadsFollow, Follows, ValueOf
<1>3. docs[task[t].script] \in Docs
  BY <1>1 DEF IInv, TypeOK
<1>4. docs[task[t].script].content = None => docs[task[t].script].ref \in Refs
  BY <1>1, <1>3 DEF IInv, PointersResolve, Docs
<1> QED
  BY <1>1, <1>2, <1>3, <1>4 DEF DigestsAgree

(* Where a read goes next, and what it carries there.                      *)
LEMMA FollowsRead ==
  ASSUME IInv, DigestsAgree, ReadsFollow, NEW t \in Tasks, ReadStep(t) \/ Crash(t)
  PROVE  Follows(t)'
<1>0. task \in [Tasks -> Locals] /\ watch \in [Tasks -> Watches] /\ Follows(t)
  BY DEF IInv, TypeOK, ReadsFollow
<1>1. ASSUME task'[t].pc \notin ReadingPcs PROVE Follows(t)'
  BY <1>1 DEF Follows, Reading, ReadingPcs
<1>2. ASSUME NEW a, task' = Answered(t, a) PROVE Follows(t)'
  BY <1>0, <1>1, <1>2 DEF Answered, ReadingPcs
<1>3. CASE EndRead(t) \/ Crash(t)
  BY <1>0, <1>1, <1>3 DEF EndRead, Crash, ReadingPcs
<1>4. ASSUME NEW s \in Scripts, BeginRead(t, s) PROVE Follows(t)'
  <2>1. /\ task'[t] = At("find", s, None, None, None, None)
        /\ watch'[t] = [seen |-> {ValueOf(docs[s])}, churn |-> 0]
        /\ docs' = docs
    BY <1>0, <1>4 DEF BeginRead
  <2> QED
    BY <2>1 DEF Follows, ValueOf
<1>5. ASSUME NEW pc \in {"get", "reread", "getagain"}, NEW doc,
             Reading(t), doc.digest \in watch[t].seen, doc.ref.digest = doc.digest,
             task' = [task EXCEPT ![t] = Following(t, pc, doc)],
             watch'[t].seen = watch[t].seen, docs' = docs
      PROVE  Follows(t)'
  <2>1. task'[t] = At(pc, task[t].script, None, None, None, doc)
    BY <1>0, <1>5 DEF Following
  <2>2. ValueOf(docs[task[t].script])' = ValueOf(docs[task[t].script])
    BY <1>5, <2>1 DEF ValueOf
  <2> QED
    BY <1>0, <1>5, <2>1, <2>2 DEF Follows
<1>6. CASE FindScript(t)
  <2>1. Reading(t)
    BY <1>6 DEF FindScript, Reading, ReadingPcs
  <2>2. watch'[t].seen = watch[t].seen /\ docs' = docs
    BY <1>0, <1>6 DEF FindScript
  <2>3. \/ \E a : task' = Answered(t, a)
        \/ /\ docs[task[t].script] # None /\ docs[task[t].script].content = None
           /\ task' = [task EXCEPT ![t] = Following(t, "get", docs[task[t].script])]
    BY <1>6 DEF FindScript
  <2> QED
    BY <1>2, <1>5, <2>1, <2>2, <2>3, DocSeen
<1>7. CASE GetContent(t)
  <2>1. Reading(t)
    BY <1>7 DEF GetContent, Reading, ReadingPcs
  <2>2. watch' = watch /\ docs' = docs
    BY <1>7 DEF GetContent
  <2>3. \/ \E a : task' = Answered(t, a)
        \/ task' = [task EXCEPT ![t] = Following(t, "reread", task[t].raw)]
    BY <1>7 DEF GetContent
  <2>4. task[t].raw.digest \in watch[t].seen /\ task[t].raw.ref.digest = task[t].raw.digest
    BY <1>0, <1>7 DEF GetContent, Follows
  <2> QED
    BY <1>2, <1>5, <2>1, <2>2, <2>3, <2>4
<1>8. CASE RereadScript(t)
  <2>1. Reading(t)
    BY <1>8 DEF RereadScript, Reading, ReadingPcs
  <2>2. watch' = watch /\ docs' = docs
    BY <1>8 DEF RereadScript
  <2>3. \/ \E a : task' = Answered(t, a)
        \/ /\ docs[task[t].script] # None /\ docs[task[t].script].content = None
           /\ task' = [task EXCEPT ![t] = Following(t, "getagain", docs[task[t].script])]
    BY <1>8 DEF RereadScript
  <2> QED
    BY <1>2, <1>5, <2>1, <2>2, <2>3, DocSeen
<1>9. CASE GetContentAgain(t)
  BY <1>2, <1>9 DEF GetContentAgain
<1> QED
  BY <1>3, <1>4, <1>6, <1>7, <1>8, <1>9 DEF ReadStep

(* Reads follow their scripts, whatever step is taken.                     *)
LEMMA ReadsFollowStep ==
  ASSUME IInv, DigestsAgree, ReadsFollow, [Next]_vars
  PROVE  ReadsFollow'
<1> SUFFICES ASSUME NEW u \in Tasks PROVE Follows(u)'
  BY DEF ReadsFollow
<1>1. ASSUME NEW t \in Tasks, Apart(t) PROVE Follows(u)'
  BY <1>1, FollowsApart
<1>2. ASSUME task'[u] = task[u], watch'[u] = watch[u], docs' = docs PROVE Follows(u)'
  <2>1. Follows(u)
    BY DEF ReadsFollow
  <2>2. ValueOf(docs[task[u].script])' = ValueOf(docs[task[u].script])
    BY <1>2 DEF ValueOf
  <2> QED
    BY <1>2, <2>1, <2>2 DEF Follows, Reading
<1>3. ASSUME NEW t \in Tasks, ReadStep(t) \/ Crash(t) PROVE Follows(u)'
  BY <1>2, <1>3, FollowsRead, ReadsAlone DEF Alone
<1>4. CASE UNCHANGED vars
  BY <1>2, <1>4 DEF vars
<1> QED
  BY <1>1, <1>3, <1>4, StepKinds

-----------------------------------------------------------------------------
(* The refinement                                                          *)

values == [s \in Scripts |-> ValueOf(docs[s])]

(* The abstract read of a task: what the record readers[t] is.             *)
ReaderOf(me, w) ==
    IF ~InRead(me) THEN None
    ELSE [script |-> me.script, seen |-> w.seen,
          ended  |-> me.pc = "answered", answer |-> me.content]

LEMMA ReadersAre == readers = [t \in Tasks |-> ReaderOf(task[t], watch[t])]
BY DEF readers, ReaderOf, InRead, Reading

(* An open read is not mistaken for no read.                               *)
LEMMA OpenReads ==
  ASSUME IInv, NEW t \in Tasks, InRead(task[t])
  PROVE  readers[t] # None
<1>1. /\ task[t].script \in Scripts
      /\ watch[t].seen \in SUBSET (Contents \cup {None})
      /\ task[t].content \in Contents \cup ReadErrors \cup {None}
  BY DEF IInv, TypeOK, LocalsOK, Locals, Watches, InRead, Reading
<1>2. ReaderOf(task[t], watch[t]) \in Register!OpenRead
  BY <1>1 DEF ReaderOf, Register!OpenRead
<1> QED
  BY <1>2, ReadersAre, ReadersAssumption

(* Every reader is told of a write: the abstract Witness.                  *)
LEMMA WitnessApart ==
  ASSUME IInv, ReadsFollow, NEW t \in Tasks, Apart(t)
  PROVE  readers' = Register!Witness(values')
<1> DEFINE told(u) ==
      IF readers[u] = None \/ readers[u].ended THEN readers[u]
      ELSE [readers[u] EXCEPT !.seen = @ \cup {values'[readers[u].script]}]
<1>1. Register!Witness(values') = [u \in Tasks |-> told(u)]
  BY DEF Register!Witness
<1>2. readers' = [u \in Tasks |-> ReaderOf(task'[u], watch'[u])]
  BY ReadersAre DEF readers, ReaderOf, InRead, Reading
<1>3. ASSUME NEW u \in Tasks PROVE ReaderOf(task'[u], watch'[u]) = told(u)
  <2>1. readers[u] = ReaderOf(task[u], watch[u])
    BY ReadersAre
  <2>2. CASE ~InRead(task[u])
    <3>1. ~InRead(task'[u])
      BY <2>2 DEF Apart
    <3> QED
      BY <2>1, <2>2, <3>1 DEF ReaderOf
  <2>3. CASE InRead(task[u])
    <3>1. /\ task'[u] = task[u]
          /\ ~Reading(u) => watch'[u] = watch[u]
          /\ Reading(u) =>
               watch'[u].seen = watch[u].seen \cup {ValueOf(docs'[task[u].script])}
      BY <2>3, WatchApart
    <3>2. readers[u] # None /\ readers[u].ended = (task[u].pc = "answered")
      BY <2>1, <2>3, OpenReads DEF ReaderOf
    <3>3. CASE task[u].pc = "answered"
      <4>1. ~Reading(u)
        BY <3>3 DEF Reading, ReadingPcs
      <4> QED
        BY <2>1, <3>1, <3>2, <3>3, <4>1
    <3>4. CASE task[u].pc # "answered"
      <4>1. Reading(u)
        BY <2>3, <3>4 DEF Reading, InRead
      <4>2. task[u].script \in Scripts
        BY <4>1 DEF IInv, LocalsOK
      <4>3. values'[task[u].script] = ValueOf(docs'[task[u].script])
        BY <4>2 DEF values, ValueOf
      <4>4. readers[u].script = task[u].script /\ readers[u].seen = watch[u].seen
        BY <2>1, <2>3 DEF ReaderOf
      <4>5. told(u) = [readers[u] EXCEPT !.seen = watch'[u].seen]
        BY <3>1, <3>2, <3>4, <4>1, <4>3, <4>4
      <4> QED
        BY <2>1, <2>3, <3>1, <4>5 DEF ReaderOf
    <3> QED
      BY <3>3, <3>4
  <2> QED
    BY <2>2, <2>3
<1> HIDE DEF told
<1>4. [u \in Tasks |-> ReaderOf(task'[u], watch'[u])] = [u \in Tasks |-> told(u)]
  BY <1>3
<1> QED
  BY <1>1, <1>2, <1>4

(* A call that does not read writes, clears, or does nothing anyone sees.  *)
LEMMA ApartRefines ==
  ASSUME IInv, ReadsFollow, NEW t \in Tasks, Apart(t)
  PROVE  \/ \E s \in Scripts, c \in Contents : Register!Write(s, c)
         \/ \E S \in SUBSET Scripts : Register!Clear(S)
<1>1. readers' = Register!Witness(values')
  BY WitnessApart
<1>2. ASSUME NEW s \in Scripts, NEW c \in Contents, WrittenOne(s, c)
      PROVE  Register!Write(s, c)
  <2>1. values' = [values EXCEPT ![s] = c]
    BY <1>2 DEF WrittenOne, values
  <2> QED
    BY <1>1, <2>1 DEF Register!Write, values
<1>3. ASSUME NEW S \in SUBSET Scripts, Cleared(S) PROVE Register!Clear(S)
  <2>1. values' = [s \in Scripts |-> IF s \in S THEN None ELSE values[s]]
    BY <1>3 DEF Cleared, values
  <2> QED
    BY <1>1, <2>1 DEF Register!Clear, values
<1>4. Moved \/ docs' = docs => Cleared({})
  BY DEF Moved, Cleared, ValueOf
<1> QED
  BY <1>2, <1>3, <1>4 DEF Apart, Changes

(* A step of t alone changes at most the abstract read of t.               *)
LEMMA AloneReaders ==
  ASSUME IInv, NEW t \in Tasks, Alone(t), NEW r, r = ReaderOf(task'[t], watch'[t])
  PROVE  readers' = [readers EXCEPT ![t] = r] /\ UNCHANGED values
<1>1. readers' = [u \in Tasks |-> ReaderOf(task'[u], watch'[u])]
  BY ReadersAre DEF readers, ReaderOf, InRead, Reading
<1>2. \A u \in Tasks \ {t} : ReaderOf(task'[u], watch'[u]) = readers[u]
  BY ReadersAre DEF Alone
<1>3. UNCHANGED values
  BY DEF Alone, values
<1> QED
  BY <1>1, <1>2, <1>3, ReadersAre

(* A read that ends answers with something its watch has seen, or raises.  *)
LEMMA AnswerEnds ==
  ASSUME IInv, NEW t \in Tasks, Alone(t), Reading(t),
         NEW a \in watch[t].seen \cup ReadErrors,
         task' = Answered(t, a), watch'[t].seen = watch[t].seen
  PROVE  Register!End(t)
<1> DEFINE r == [script |-> task[t].script, seen |-> watch[t].seen,
                 ended |-> TRUE, answer |-> a]
<1>1. task'[t] = At("answered", task[t].script, a, None, None, None)
  BY DEF Answered, IInv, TypeOK
<1>2. r = ReaderOf(task'[t], watch'[t])
  <2>1. InRead(task'[t]) /\ task'[t].script = task[t].script /\ task'[t].content = a
    BY <1>1 DEF InRead
  <2>2. (task'[t].pc = "answered") = TRUE
    BY <1>1
  <2> QED
    BY <2>1, <2>2, Zenon DEF ReaderOf
<1>3. readers' = [readers EXCEPT ![t] = r] /\ UNCHANGED values
  BY <1>2, AloneReaders
<1>4. /\ InRead(task[t]) /\ task[t].pc # "answered"
      /\ readers[t] = [script |-> task[t].script, seen |-> watch[t].seen,
                       ended |-> FALSE, answer |-> task[t].content]
  BY ReadersAre DEF Reading, InRead, ReaderOf, ReadingPcs
<1>5. readers[t] # None
  BY <1>4, OpenReads
<1>6. r \in Register!OpenRead
  <2>1. /\ task[t].script \in Scripts
        /\ watch[t].seen \in SUBSET (Contents \cup {None})
    BY DEF IInv, TypeOK, LocalsOK, Watches
  <2>2. a \in Contents \cup ReadErrors \cup {None}
    BY <2>1
  <2> QED
    BY <2>1, <2>2 DEF Register!OpenRead
<1>7. r # None
  BY <1>6, ReadersAssumption
<1>8. readers'[t] = r
  BY <1>3, ReadersAre
<1>9. readers[t].script = task[t].script /\ readers[t].seen = watch[t].seen
  BY <1>4
<1>10. readers' = [readers EXCEPT ![t] =
                     [script |-> readers[t].script, seen |-> readers[t].seen,
                      ended |-> TRUE, answer |-> readers'[t].answer]]
  <2>1. readers'[t].answer = a
    BY <1>8
  <2> QED
    BY <1>3, <1>9, <2>1
<1>11. readers'[t].answer \in readers[t].seen \cup ReadErrors
  BY <1>4, <1>8
<1>12. ~readers[t].ended
  BY <1>4
<1> QED
  BY <1>3, <1>5, <1>7, <1>8, <1>10, <1>11, <1>12 DEF Register!End, values

(* A read that goes on looks the same from outside.                        *)
LEMMA FollowingStutters ==
  ASSUME IInv, ReadsFollow, NEW t \in Tasks, Alone(t), Reading(t),
         NEW pc \in {"get", "reread", "getagain"}, NEW doc,
         task' = [task EXCEPT ![t] = Following(t, pc, doc)],
         watch'[t].seen = watch[t].seen
  PROVE  UNCHANGED Register!vars
<1>1. task'[t] = At(pc, task[t].script, None, None, None, doc)
  BY DEF Following, IInv, TypeOK
<1>2. task[t].content = None
  BY DEF ReadsFollow, Follows
<1>3. readers[t] = ReaderOf(task'[t], watch'[t])
  BY <1>1, <1>2, ReadersAre DEF ReaderOf, InRead, Reading, ReadingPcs
<1>4. readers' = [readers EXCEPT ![t] = readers[t]] /\ UNCHANGED values
  BY <1>3, AloneReaders
<1>5. readers' = readers
  BY <1>4, ReadersAre
<1> QED
  BY <1>4, <1>5 DEF Register!vars, values

(* What a read makes of the abstract register.                             *)
LEMMA ReadRefines ==
  ASSUME IInv, DigestsAgree, ReadsFollow, NEW t \in Tasks, ReadStep(t) \/ Crash(t)
  PROVE  \/ \E s \in Scripts : Register!Open(t, s)
         \/ Register!End(t)
         \/ Register!Close(t)
         \/ UNCHANGED Register!vars
<1>0. Alone(t) /\ Follows(t) /\ task[t] \in Locals /\ task \in [Tasks -> Locals]
      /\ watch \in [Tasks -> Watches]
  BY ReadsAlone DEF ReadsFollow, IInv, TypeOK
<1>1. ASSUME NEW s \in Scripts, BeginRead(t, s) PROVE Register!Open(t, s)
  <2>1. /\ task'[t] = At("find", s, None, None, None, None)
        /\ watch'[t] = [seen |-> {ValueOf(docs[s])}, churn |-> 0]
        /\ ~InRead(task[t])
    BY <1>0, <1>1 DEF BeginRead, InRead, ReadingPcs
  <2> DEFINE r == [script |-> s, seen |-> {values[s]}, ended |-> FALSE, answer |-> None]
  <2>2. r = ReaderOf(task'[t], watch'[t])
    <3>1. /\ InRead(task'[t]) /\ task'[t].script = s /\ task'[t].content = None
          /\ watch'[t].seen = {values[s]}
      BY <2>1 DEF InRead, ReadingPcs, values
    <3>2. (task'[t].pc = "answered") = FALSE
      BY <2>1
    <3> QED
      BY <3>1, <3>2, Zenon DEF ReaderOf
  <2>3. readers' = [readers EXCEPT ![t] = r] /\ UNCHANGED values
    BY <1>0, <2>2, AloneReaders
  <2>4. readers[t] = None
    BY <2>1, ReadersAre DEF ReaderOf
  <2> QED
    BY <2>3, <2>4 DEF Register!Open, values
<1>2. CASE EndRead(t) \/ Crash(t)
  <2>1. task'[t] = Idle
    BY <1>0, <1>2 DEF EndRead, Crash
  <2>2. ReaderOf(task'[t], watch'[t]) = None
    BY <2>1 DEF ReaderOf, InRead, ReadingPcs
  <2>3. readers' = [readers EXCEPT ![t] = None] /\ UNCHANGED values
    BY <1>0, <2>2, AloneReaders
  <2>4. CASE InRead(task[t])
    BY <2>3, <2>4, OpenReads DEF Register!Close, values
  <2>5. CASE ~InRead(task[t])
    <3>1. readers[t] = None
      BY <2>5, ReadersAre DEF ReaderOf
    <3>2. readers' = readers
      BY <2>3, <3>1, ReadersAre
    <3> QED
      BY <2>3, <3>2 DEF Register!vars, values
  <2> QED
    BY <2>4, <2>5
<1>3. CASE FindScript(t)
  <2>1. Reading(t) /\ watch'[t].seen = watch[t].seen
    BY <1>0, <1>3 DEF FindScript, Reading, ReadingPcs
  <2>2. CASE docs[task[t].script] = None
    <3>1. task' = Answered(t, None) /\ None \in watch[t].seen
      BY <1>0, <1>3, <2>1, <2>2 DEF FindScript, Follows, ValueOf
    <3> QED
      BY <1>0, <2>1, <3>1, AnswerEnds
  <2>3. CASE docs[task[t].script] # None
    <3>1. \/ \E a \in watch[t].seen \cup ReadErrors : task' = Answered(t, a)
          \/ task' = [task EXCEPT ![t] = Following(t, "get", docs[task[t].script])]
      BY <1>3, <2>1, <2>3, DocSeen DEF FindScript, ReadErrors
    <3> QED
      BY <1>0, <2>1, <3>1, AnswerEnds, FollowingStutters
  <2> QED
    BY <2>2, <2>3
<1>4. CASE GetContent(t) \/ GetContentAgain(t)
  <2>1. Reading(t) /\ watch'[t].seen = watch[t].seen
    BY <1>4 DEF GetContent, GetContentAgain, Reading, ReadingPcs
  <2>2. task[t].raw.ref.digest \in watch[t].seen
    BY <1>0, <1>4 DEF GetContent, GetContentAgain, Follows
  <2>3. task[t].raw.ref \in DOMAIN store => store[task[t].raw.ref] \in watch[t].seen
    BY <2>2 DEF DigestsAgree
  <2>4. \/ \E a \in watch[t].seen \cup ReadErrors : task' = Answered(t, a)
        \/ task' = [task EXCEPT ![t] = Following(t, "reread", task[t].raw)]
    BY <1>4, <2>3 DEF GetContent, GetContentAgain, ReadErrors
  <2> QED
    BY <1>0, <2>1, <2>4, AnswerEnds, FollowingStutters
<1>5. CASE RereadScript(t)
  <2>1. Reading(t) /\ watch'[t].seen = watch[t].seen
    BY <1>5 DEF RereadScript, Reading, ReadingPcs
  <2>2. \/ \E a \in watch[t].seen \cup ReadErrors : task' = Answered(t, a)
        \/ task' = [task EXCEPT ![t] = Following(t, "getagain", docs[task[t].script])]
    BY <1>5, <2>1, DocSeen DEF RereadScript, ReadErrors
  <2> QED
    BY <1>0, <2>1, <2>2, AnswerEnds, FollowingStutters
<1> QED
  BY <1>1, <1>2, <1>3, <1>4, <1>5 DEF ReadStep

(* Reads follow their scripts in every reachable state.                    *)
LEMMA SpecReadsFollow == Spec => []ReadsFollow
<1>1. Init => ReadsFollow
  BY DEF Init, ReadsFollow, Follows, Reading, ReadingPcs
<1>2. IInv /\ DigestsAgree /\ ReadsFollow /\ [Next]_vars => ReadsFollow'
  BY ReadsFollowStep
<1> QED
  BY <1>1, <1>2, SpecIInv, SpecDigestsAgree, PTL DEF Spec

(* Every script behaves as one atomic register: however many round trips   *)
(* to two systems an operation takes, whichever pods run it and whatever   *)
(* fails, it takes effect at one point; moving a text to the store is not  *)
(* seen; and a read answers with a text its script had while the read was  *)
(* under way, or with an error.                                            *)
THEOREM ScriptsRefineRegisters == Spec => ScriptsAreRegisters
<1>1. Init => Register!Init
  BY DEF Init, Register!Init, readers, Reading, ReadingPcs, ValueOf
<1>2. IInv /\ DigestsAgree /\ ReadsFollow /\ [Next]_vars => [Register!Next]_(Register!vars)
  <2> SUFFICES ASSUME IInv, DigestsAgree, ReadsFollow, [Next]_vars
               PROVE  Register!Next \/ UNCHANGED Register!vars
    OBVIOUS
  <2>1. CASE UNCHANGED vars
    BY <2>1 DEF vars, Register!vars, readers, Reading, ValueOf
  <2>2. ASSUME NEW t \in Tasks, Apart(t) PROVE Register!Next
    BY <2>2, ApartRefines DEF Register!Next
  <2>3. ASSUME NEW t \in Tasks, ReadStep(t) \/ Crash(t)
        PROVE  Register!Next \/ UNCHANGED Register!vars
    BY <2>3, ReadRefines DEF Register!Next
  <2> QED
    BY <2>1, <2>2, <2>3, StepKinds
<1> QED
  BY <1>1, <1>2, SpecIInv, SpecDigestsAgree, SpecReadsFollow, PTL
     DEF Spec, ScriptsAreRegisters, Register!Spec

-----------------------------------------------------------------------------
(* Reads that find their content missing                                   *)

Revoked(s) == \E r \in revoked : r.script = s

(* PointersResolve for pointers next to inline text as well.               *)
AllPointersResolve ==
    \A s \in Scripts : PointerOf(s) # None => PointerOf(s) \in DOMAIN store \cup revoked

(* The watch of a read counts its script's pointers: none has come since   *)
(* the read took its own, or one, and by the second look at least one.     *)
Counted(t) ==
    LET s == task[t].script
        pc == task[t].pc
        n == watch[t].churn IN
    /\ pc \in {"get", "reread"} =>
         \/ n = 2
         \/ /\ docs[s] # None
            /\ docs[s].id = task[t].raw.id
            /\ n = 0 <=> docs[s].ref = task[t].raw.ref
    /\ pc = "reread" => n > 0 \/ Revoked(s)
    /\ pc = "getagain" =>
         \/ n = 2 \/ Revoked(s)
         \/ n = 1 /\ docs[s] # None /\ docs[s].ref = task[t].raw.ref
    /\ pc = "answered" /\ task[t].content = "missing" => n = 2 \/ Revoked(s)
ReadsCounted == \A t \in Tasks : Counted(t)

(* Every pointer, followed or not, leads to content or was revoked.        *)
LEMMA AllPointersResolveStep ==
  ASSUME IInv, AllPointersResolve, [Next]_vars
  PROVE  AllPointersResolve'
<1>0. ASSUME revoked \subseteq revoked',
             \A s \in Scripts :
               \/ PointerOf(s)' \in DOMAIN store' \cup {None}
               \/ /\ PointerOf(s)' = PointerOf(s)
                  /\ PointerOf(s) \in DOMAIN store => PointerOf(s) \in DOMAIN store' \cup revoked
      PROVE  AllPointersResolve'
  BY <1>0 DEF AllPointersResolve
<1>1. ASSUME docs' = docs, revoked' = revoked, DOMAIN store \subseteq DOMAIN store'
      PROVE  AllPointersResolve'
  <2>1. \A s \in Scripts : PointerOf(s)' = PointerOf(s)
    BY <1>1 DEF PointerOf
  <2> QED
    BY <1>0, <1>1, <2>1
<1>2. ASSUME NEW S, RemoveDocs(S), store' = store, revoked' = revoked
      PROVE  AllPointersResolve'
  <2>1. \A s \in Scripts : PointerOf(s)' \in {None, PointerOf(s)}
    BY <1>2 DEF RemoveDocs, PointerOf
  <2> QED
    BY <1>0, <1>2, <2>1
<1>3. ASSUME NEW t \in Tasks, Dispose(t) PROVE AllPointersResolve'
  <2>1. DOMAIN store' = DOMAIN store \ {task[t].hand} /\ docs' = docs /\ revoked' = revoked
    BY <1>3 DEF Dispose, StoreWithout, ghosts
  <2>2. (\A s \in Scripts : PointerOf(s) # task[t].hand) \/ task[t].hand \in revoked
    BY <1>3 DEF Dispose, Disposes, IInv, DisposedUnreachable
  <2>3. \A s \in Scripts : PointerOf(s)' = PointerOf(s)
    BY <2>1 DEF PointerOf
  <2> QED
    BY <1>0, <2>1, <2>2, <2>3
<1>4. ASSUME NEW t \in Tasks, SaveUpsert(t) \/ SaveUpsertUncertain(t)
      PROVE  AllPointersResolve'
  <2>1. /\ task[t].script \in Scripts /\ task[t].hand \in Refs /\ HasCopy(t)
        /\ Mode[t] = "store" /\ task[t].content \in Contents /\ task[t].date \in Dates
    BY <1>4 DEF SaveUpsert, SaveUpsertUncertain, IInv, LocalsOK, HasCopy
  <2>2. /\ UpsertScript(t, task[t].script, task[t].content, task[t].date, task[t].hand)
        /\ store' = store /\ revoked \subseteq revoked'
    BY <1>4 DEF SaveUpsert, SaveUpsertUncertain, ghosts
  <2>3. task[t].hand \in DOMAIN store
    BY <2>1, CopyFacts
  <2>4. \A s \in Scripts : PointerOf(s)' \in {task[t].hand, PointerOf(s)}
    BY <2>1, <2>2, UpsertFacts
  <2> QED
    BY <1>0, <2>2, <2>3, <2>4
<1>5. ASSUME NEW t \in Tasks, NEW s \in Scripts, NEW c \in Contents, NEW d \in Dates,
             SaveInline(t, s, c, d)
      PROVE  AllPointersResolve'
  <2>1. \A x \in Scripts : PointerOf(x)' \in {None, PointerOf(x)}
    BY <1>5, UpsertFacts DEF SaveInline
  <2> QED
    BY <1>0, <1>5, <2>1 DEF SaveInline, ghosts
<1>6. ASSUME NEW t \in Tasks, MigrateFlip(t) PROVE AllPointersResolve'
  <2>1. task[t].hand \in DOMAIN store
    BY <1>6, CopyFacts DEF MigrateFlip, HasCopy
  <2>2. store' = store /\ revoked' = revoked
    BY <1>6 DEF MigrateFlip
  <2>3. docs' = docs \/ docs' = [docs EXCEPT ![task[t].script] =
                                    PointingAt(docs[task[t].script], task[t].hand)]
    BY <1>6 DEF MigrateFlip
  <2>4. \A s \in Scripts : PointerOf(s)' \in {None, task[t].hand, PointerOf(s)}
    BY <2>3 DEF PointerOf, PointingAt, IInv, TypeOK
  <2> QED
    BY <1>0, <2>1, <2>2, <2>4
<1>7. ASSUME NEW t \in Tasks, Call(t) PROVE AllPointersResolve'
  <2>1. ASSUME NEW r, NEW c, store' = StoreWith(r, c), UNCHANGED <<docs, ghosts>>
        PROVE  AllPointersResolve'
    BY <1>1, <2>1 DEF StoreWith, ghosts
  <2>2. ASSUME NEW s \in Scripts, NEW c \in Contents, NEW d \in Dates, SavePut(t, s, c, d)
        PROVE  AllPointersResolve'
    BY <2>1, <2>2 DEF SavePut
  <2>3. ASSUME NEW s \in Scripts, MigratePut(t, s) PROVE AllPointersResolve'
    BY <2>1, <2>3 DEF MigratePut
  <2>4. ASSUME NEW s \in Scripts, DeleteScript(t, s) PROVE AllPointersResolve'
    BY <1>2, <2>4 DEF DeleteScript
  <2>5. ASSUME NEW s \in Scripts, BeginRead(t, s) PROVE AllPointersResolve'
    BY <1>1, <2>5 DEF BeginRead, ghosts
  <2>6. CASE DeleteSkillScripts(t)
    BY <1>2, <2>6 DEF DeleteSkillScripts
  <2>7. CASE BeginPurge(t)
    BY <1>1, <2>7 DEF BeginPurge, ghosts
  <2> QED
    BY <1>5, <1>7, <2>2, <2>3, <2>4, <2>5, <2>6, <2>7 DEF Call
<1>8. ASSUME NEW t \in Tasks, Continue(t) PROVE AllPointersResolve'
  BY <1>1, <1>2, <1>3, <1>4, <1>6, <1>8 DEF Continue, EndPurge, PurgeOne, FindScript,
     GetContent, RereadScript, GetContentAgain, EndRead, ghosts
<1>9. ASSUME NEW t \in Tasks, Fail(t) PROVE AllPointersResolve'
  BY <1>1, <1>4, <1>9 DEF Fail, SaveUpsertRaises, DisposeFails, Crash, ghosts
<1>10. CASE UNCHANGED vars
  BY <1>1, <1>10 DEF vars
<1> QED
  BY <1>7, <1>8, <1>9, <1>10 DEF Next

(* What a watch has counted after a step of somebody else.                 *)
LEMMA CountApart ==
  ASSUME IInv, ReadsFollow, NEW t \in Tasks, Apart(t), NEW u \in Tasks, Reading(u)
  PROVE  LET s == task[u].script
             n == watch[u].churn + ChurnOf(docs[s], docs'[s]) IN
         watch'[u].churn = IF n > 2 THEN 2 ELSE n
<1>1. watch[u].churn \in 0..2
  BY DEF IInv, TypeOK, Watches
<1>2. CASE UNCHANGED <<docs, watch>>
  BY <1>1, <1>2 DEF ChurnOf
<1>3. CASE WatchScripts
  BY <1>3 DEF WatchScripts
<1> QED
  BY <1>2, <1>3 DEF Apart

(* No write makes a read lose count.                                       *)
LEMMA CountedApart ==
  ASSUME IInv, ReadsFollow, ReadsCounted, NEW t \in Tasks, Apart(t), NEW u \in Tasks
  PROVE  Counted(u)'
<1>1. CASE ~InRead(task'[u])
  BY <1>1 DEF Counted, InRead, ReadingPcs
<1>2. CASE InRead(task'[u])
  <2>1. InRead(task[u]) /\ task'[u] = task[u] /\ revoked \subseteq revoked'
    BY <1>2 DEF Apart
  <2>2. Counted(u) /\ watch[u].churn \in 0..2
    BY DEF ReadsCounted, IInv, TypeOK, Watches
  <2>3. ASSUME NEW s, Revoked(s) PROVE Revoked(s)'
    BY <2>1, <2>3 DEF Revoked
  <2>4. CASE ~Reading(u)
    <3>1. watch'[u] = watch[u] /\ task[u].pc = "answered"
      BY <2>1, <2>4, WatchApart DEF InRead, Reading
    <3> QED
      BY <2>1, <2>2, <2>3, <3>1 DEF Counted, Revoked
  <2>5. CASE Reading(u)
    <3>1. task[u].script \in Scripts
      BY <2>5 DEF IInv, LocalsOK
    <3>2. PICK s \in Scripts : s = task[u].script
      BY <3>1
    <3>3. watch'[u].churn = IF watch[u].churn + ChurnOf(docs[s], docs'[s]) > 2
                            THEN 2 ELSE watch[u].churn + ChurnOf(docs[s], docs'[s])
      BY <2>5, <3>2, CountApart
    <3>4. docs[s] # None /\ docs'[s] # None => docs'[s].id = docs[s].id
      BY DEF Apart, IdsStay
    <3>5. Revoked(s) => Revoked(s)'
      BY <2>3
    <3>6. docs[s] # None =>
            \/ watch'[u].churn = 2
            \/ /\ docs'[s] # None
               /\ docs'[s].ref = docs[s].ref => watch'[u].churn = watch[u].churn
               /\ docs'[s].ref # docs[s].ref => watch'[u].churn = watch[u].churn + 1
      BY <2>2, <3>3 DEF ChurnOf
    <3>7. watch[u].churn = 2 => watch'[u].churn = 2
      BY <3>3 DEF ChurnOf
    <3>8. watch'[u].churn \in 0..2
      BY <2>2, <3>3 DEF ChurnOf
    <3> QED
      BY <2>1, <2>2, <2>5, <3>2, <3>4, <3>5, <3>6, <3>7, <3>8 DEF Counted, Revoked, Reading, ReadingPcs
  <2> QED
    BY <2>4, <2>5
<1> QED
  BY <1>1, <1>2

(* What a read has counted when it takes its next step.                    *)
LEMMA CountedRead ==
  ASSUME IInv, AllPointersResolve, ReadsCounted, NEW t \in Tasks, ReadStep(t) \/ Crash(t)
  PROVE  Counted(t)'
<1>0. /\ task \in [Tasks -> Locals] /\ watch \in [Tasks -> Watches]
      /\ watch[t].churn \in 0..2 /\ Counted(t) /\ UNCHANGED <<docs, revoked>>
      /\ \A s : Revoked(s)' <=> Revoked(s)
  BY ReadsAlone DEF IInv, TypeOK, Watches, ReadsCounted, Alone, Revoked
<1>1. ASSUME task'[t].pc \in {"idle", "find"} PROVE Counted(t)'
  BY <1>1 DEF Counted
<1>2. ASSUME NEW a, task' = Answered(t, a),
             a = "missing" => watch'[t].churn = 2 \/ Revoked(task[t].script)
      PROVE  Counted(t)'
  <2>1. task'[t] = At("answered", task[t].script, a, None, None, None)
    BY <1>0, <1>2 DEF Answered
  <2> QED
    BY <1>0, <1>2, <2>1 DEF Counted
<1>3. ASSUME NEW pc \in {"get", "reread", "getagain"}, NEW doc,
             task' = [task EXCEPT ![t] = Following(t, pc, doc)]
      PROVE  task'[t] = At(pc, task[t].script, None, None, None, doc)
  BY <1>0, <1>3 DEF Following
<1>4. ASSUME Reading(t) PROVE task[t].script \in Scripts
  BY <1>4 DEF IInv, LocalsOK
<1>5. ASSUME NEW s \in Scripts, docs[s] # None, docs[s].content # None
      PROVE  docs[s].content # "missing"
  BY <1>5 DEF IInv, TypeOK, Docs, ReadErrors
<1>6. ASSUME NEW s \in Scripts, docs[s] # None, docs[s].content = None
      PROVE  docs[s].ref # None
  BY <1>6 DEF IInv, PointersResolve
<1>7. CASE EndRead(t) \/ Crash(t) \/ \E s \in Scripts : BeginRead(t, s)
  BY <1>0, <1>1, <1>7 DEF EndRead, Crash, BeginRead
<1>8. CASE FindScript(t)
  <2>1. Reading(t)
    BY <1>8 DEF FindScript, Reading, ReadingPcs
  <2>2. PICK s \in Scripts : s = task[t].script
    BY <1>4, <2>1
  <2>3. watch'[t].churn = 0
    BY <1>0, <1>8 DEF FindScript
  <2>4. \/ \E a : task' = Answered(t, a) /\ a # "missing"
        \/ /\ docs[s] # None
           /\ task' = [task EXCEPT ![t] = Following(t, "get", docs[s])]
    BY <1>5, <1>6, <1>8, <2>2 DEF FindScript, ReadErrors
  <2>5. CASE \E a : task' = Answered(t, a) /\ a # "missing"
    BY <1>2, <2>5
  <2>6. CASE docs[s] # None /\ task' = [task EXCEPT ![t] = Following(t, "get", docs[s])]
    <3>1. task'[t] = At("get", task[t].script, None, None, None, docs[s])
      BY <1>3, <2>6
    <3> QED
      BY <1>0, <2>2, <2>3, <2>6, <3>1 DEF Counted
  <2> QED
    BY <2>4, <2>5, <2>6
<1>9. CASE GetContent(t)
  <2>1. Reading(t) /\ task[t].pc = "get" /\ watch' = watch
    BY <1>9 DEF GetContent, Reading, ReadingPcs
  <2>2. PICK s \in Scripts : s = task[t].script
    BY <1>4, <2>1
  <2>3. CASE task[t].raw.ref \in DOMAIN store
    <3>1. store[task[t].raw.ref] # "missing"
      BY <2>3 DEF IInv, TypeOK, ReadErrors
    <3> QED
      BY <1>2, <1>9, <2>3, <3>1 DEF GetContent
  <2>4. CASE task[t].raw.ref \notin DOMAIN store
    <3>1. task'[t] = At("reread", task[t].script, None, None, None, task[t].raw)
      BY <1>3, <1>9, <2>4 DEF GetContent
    <3>2. watch[t].churn = 0 => PointerOf(s) = task[t].raw.ref
      BY <1>0, <2>1, <2>2 DEF Counted, PointerOf
    <3>3. task[t].raw.ref # None
      BY <2>1 DEF IInv, LocalsOK
    <3>4. watch[t].churn = 0 => Revoked(s)
      BY <2>2, <2>4, <3>2, <3>3 DEF AllPointersResolve, IInv, RefsKnown, Revoked
    <3> QED
      BY <1>0, <2>1, <2>2, <3>1, <3>4 DEF Counted
  <2> QED
    BY <2>3, <2>4
<1>10. CASE RereadScript(t)
  <2>1. Reading(t) /\ task[t].pc = "reread" /\ watch' = watch
    BY <1>10 DEF RereadScript, Reading, ReadingPcs
  <2>2. PICK s \in Scripts : s = task[t].script
    BY <1>4, <2>1
  <2>3. /\ watch[t].churn = 2 \/ Revoked(s) \/ watch[t].churn = 1
        /\ \/ watch[t].churn = 2
           \/ /\ docs[s] # None /\ docs[s].id = task[t].raw.id
              /\ watch[t].churn = 0 <=> docs[s].ref = task[t].raw.ref
    BY <1>0, <2>1, <2>2 DEF Counted
  <2>4. CASE \/ docs[s] = None \/ docs[s].id # task[t].raw.id
             \/ docs[s].content = None /\ docs[s].ref \in {None, task[t].raw.ref}
    <3>1. watch[t].churn = 2 \/ Revoked(s)
      BY <1>6, <2>3, <2>4
    <3>2. task' = Answered(t, "missing") \/ task' = Answered(t, docs[s].content)
      BY <1>10, <2>2, <2>4 DEF RereadScript
    <3> QED
      BY <1>2, <2>1, <2>2, <3>1, <3>2
  <2>5. CASE docs[s] # None /\ docs[s].id = task[t].raw.id /\ docs[s].content # None
    BY <1>2, <1>5, <1>10, <2>2, <2>5 DEF RereadScript
  <2>6. CASE /\ docs[s] # None /\ docs[s].id = task[t].raw.id
             /\ docs[s].content = None /\ docs[s].ref \notin {None, task[t].raw.ref}
    <3>1. task' = [task EXCEPT ![t] = Following(t, "getagain", docs[s])]
      BY <1>10, <2>2, <2>6 DEF RereadScript
    <3>2. task'[t] = At("getagain", task[t].script, None, None, None, docs[s])
      BY <1>3, <3>1
    <3> QED
      BY <1>0, <2>1, <2>2, <2>3, <2>6, <3>2 DEF Counted
  <2> QED
    BY <2>4, <2>5, <2>6
<1>11. CASE GetContentAgain(t)
  <2>1. Reading(t) /\ task[t].pc = "getagain" /\ watch' = watch
    BY <1>11 DEF GetContentAgain, Reading, ReadingPcs
  <2>2. PICK s \in Scripts : s = task[t].script
    BY <1>4, <2>1
  <2>3. CASE task[t].raw.ref \in DOMAIN store
    <3>1. store[task[t].raw.ref] # "missing"
      BY <2>3 DEF IInv, TypeOK, ReadErrors
    <3> QED
      BY <1>2, <1>11, <2>3, <3>1 DEF GetContentAgain
  <2>4. CASE task[t].raw.ref \notin DOMAIN store
    <3>1. task' = Answered(t, "missing")
      BY <1>11, <2>4 DEF GetContentAgain
    <3>2. task[t].raw.ref # None
      BY <2>1 DEF IInv, LocalsOK
    <3>3. PointerOf(s) = task[t].raw.ref => Revoked(s)
      BY <2>4, <3>2 DEF AllPointersResolve, IInv, RefsKnown, Revoked
    <3>4. watch[t].churn = 2 \/ Revoked(s)
      BY <1>0, <2>1, <2>2, <3>3 DEF Counted, PointerOf
    <3> QED
      BY <1>2, <2>1, <2>2, <3>1, <3>4
  <2> QED
    BY <2>3, <2>4
<1> QED
  BY <1>7, <1>8, <1>9, <1>10, <1>11 DEF ReadStep

(* Reads keep count, whatever step is taken.                               *)
LEMMA ReadsCountedStep ==
  ASSUME IInv, ReadsFollow, AllPointersResolve, ReadsCounted, [Next]_vars
  PROVE  ReadsCounted'
<1> SUFFICES ASSUME NEW u \in Tasks PROVE Counted(u)'
  BY DEF ReadsCounted
<1>1. ASSUME NEW t \in Tasks, Apart(t) PROVE Counted(u)'
  BY <1>1, CountedApart
<1>2. ASSUME task'[u] = task[u], watch'[u] = watch[u], docs' = docs, revoked' = revoked
      PROVE  Counted(u)'
  <2>1. Counted(u)
    BY DEF ReadsCounted
  <2> QED
    BY <1>2, <2>1 DEF Counted, Revoked
<1>3. ASSUME NEW t \in Tasks, ReadStep(t) \/ Crash(t) PROVE Counted(u)'
  BY <1>2, <1>3, CountedRead, ReadsAlone DEF Alone
<1>4. CASE UNCHANGED vars
  BY <1>2, <1>4 DEF vars, ghosts
<1> QED
  BY <1>1, <1>3, <1>4, StepKinds

(* The second look absorbs one concurrent save, for any number of pods: a  *)
(* read that raises "content missing" lived through two replacements of    *)
(* its pointer, or a deletion, or its script's content was taken back by   *)
(* its own save.                                                           *)
THEOREM ReadsMissOnlyUnderChurn == Spec => []MissingOnlyUnderChurn
<1>1. Init => AllPointersResolve /\ ReadsCounted
  BY DEF Init, AllPointersResolve, PointerOf, ReadsCounted, Counted
<1>2. IInv /\ AllPointersResolve /\ [Next]_vars => AllPointersResolve'
  BY AllPointersResolveStep
<1>3. IInv /\ ReadsFollow /\ AllPointersResolve /\ ReadsCounted /\ [Next]_vars => ReadsCounted'
  BY ReadsCountedStep
<1>4. ReadsCounted => MissingOnlyUnderChurn
  BY DEF ReadsCounted, Counted, MissingOnlyUnderChurn, Revoked
<1> QED
  BY <1>1, <1>2, <1>3, <1>4, SpecIInv, SpecReadsFollow, PTL DEF Spec
=============================================================================
