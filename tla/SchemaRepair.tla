----------------------------- MODULE SchemaRepair -----------------------------
(***************************************************************************)
(* Repair of documents stored under an older schema_version, run by every  *)
(* MongoPluginSkillLoader while pods of several versions serve calls.  A   *)
(* pod sees and writes only documents of its own version, so one identity  *)
(* (Key) can have a document at each version; a unique index allows one    *)
(* per identity and version.  A pass walks the collections in a fixed      *)
(* order and moves, merges or skips the stale documents it finds, one      *)
(* round trip at a time, while other pods save, delete and repair.         *)
(*                                                                         *)
(* The first reply of a cursor holds the whole batch, as it does for small *)
(* batches.  Who starts a pass (_repairs_first) and how callers wait for   *)
(* it is left out, except that a pod serves nobody before its first pass.  *)
(***************************************************************************)
EXTENDS Naturals, FiniteSets, Sequences

CONSTANTS
    Collections,  \* the identities of each collection, in order of repair
    Pods,
    Version,      \* Version[p]: the schema_version of pod p
    MinVersion,   \* MIN_MIGRATABLE_VERSION
    Latest,       \* the newest version, the first one with a digest
    BatchSize,    \* repair_batch_size
    MaxSkipped,   \* MAX_SKIPPED_IDS
    Broken,       \* identities whose first document has a float as version
    ReadOnly,     \* pods that cannot write
    InitDates,    \* values of date_modified before the model starts
    StartClock,   \* the clock when it starts
    MaxEdits,     \* bound: saves and deletions
    MaxFailures,  \* bound: failed passes, cancellations and restarts
    None

Stages == 1..Len(Collections)
Keys == UNION {Collections[s] : s \in Stages}
Skills == Collections[Len(Collections)]
Children == Keys \ Skills
Versions == MinVersion..Latest

ASSUME CollectionsAssumption ==
    /\ Collections \in Seq(SUBSET Keys) /\ Collections # <<>>
    /\ \A s1, s2 \in Stages : s1 # s2 => Collections[s1] \cap Collections[s2] = {}
ASSUME VersionAssumption ==
    /\ MinVersion \in Nat /\ Latest \in Nat /\ MinVersion <= Latest
    /\ Version \in [Pods -> Versions]
ASSUME BoundsAssumption ==
    /\ BatchSize \in Nat \ {0}
    /\ {MaxSkipped, MaxEdits, MaxFailures, StartClock} \subseteq Nat
    /\ InitDates \subseteq 0..StartClock \cup {None}

(* The n-th save made at version v; 0 is the document found at the start.  *)
(* A stamp stands for a text, and for the _id a save draws when it inserts. *)
Stamps == Versions \X (0..MaxEdits)

(* A text stands for its digest; documents before Latest have no digest.   *)
Docs == [id     : Stamps,
         text   : Stamps,
         date   : Nat \cup {None},
         digest : Stamps \cup {None}]

VARIABLES
    docs,      \* docs[k][v]: the document of identity k at version v, or None
    pod,       \* pod[p]: throttle and running pass of a loader
    skipped,   \* skipped[p]: <<k, _id>> excluded from later passes
    clock,     \* the latest date_modified any pod has written
    edits,
    failures,
    raced      \* for the properties: identities saved or deleted while passes
               \* were running, forgotten once a pass begins alone

vars == <<docs, pod, skipped, clock, edits, failures, raced>>

(* A stale document as the pass has read it.                               *)
Found == [key : Keys, version : Versions, doc : Docs]

ASSUME NoneAssumption == None \notin Nat \cup Stamps \cup Docs \cup Found

PodStates ==
    [pc         : {"idle", "find", "pick", "update", "refind", "replace", "delete"},
     auto       : BOOLEAN,          \* _auto_repair
     due        : BOOLEAN,          \* the interval has passed, or no check yet
     open       : BOOLEAN,          \* a pass has ended: callers get through
     manual     : BOOLEAN,          \* repair_stale_documents, without a batch size
     stage      : Stages,
     todo       : SUBSET Found,     \* rest of the batch
     truncated  : BOOLEAN,          \* the batch was full
     incomplete : BOOLEAN,          \* _repair_incomplete
     stale      : Found \cup {None},
     sibling    : Stamps \cup {None}]

Restarted ==
    [pc |-> "idle", auto |-> TRUE, due |-> TRUE, open |-> FALSE, manual |-> FALSE,
     stage |-> 1, todo |-> {}, truncated |-> FALSE, incomplete |-> FALSE,
     stale |-> None, sibling |-> None]

TypeOK ==
    /\ docs \in [Keys -> [Versions -> Docs \cup {None}]]
    /\ pod \in [Pods -> PodStates]
    /\ skipped \in [Pods -> SUBSET (Keys \X Stamps)]
    /\ clock \in Nat
    /\ edits \in 0..MaxEdits
    /\ failures \in 0..MaxFailures
    /\ raced \in SUBSET Keys

(* What the previous releases have left at version v.                      *)
Leftovers(v) ==
    {None} \cup [id : {<<v, 0>>}, text : {<<v, 0>>}, date : InitDates,
                 digest : {IF v = Latest THEN <<v, 0>> ELSE None}]

Init ==
    /\ docs \in [Keys -> {f \in [Versions -> UNION {Leftovers(v) : v \in Versions}] :
                            \A v \in Versions : f[v] \in Leftovers(v)}]
    /\ pod = [p \in Pods |-> Restarted]
    /\ skipped = [p \in Pods |-> {}]
    /\ clock = StartClock
    /\ edits = 0
    /\ failures = 0
    /\ raced = {}

-----------------------------------------------------------------------------
(* Calls that pods serve: an upsert and a deletion at the pod's version.   *)

Put(k, v, doc) == docs' = [docs EXCEPT ![k][v] = doc]

(* Clocks of pods agree up to a tick, so that two saves can be dated alike. *)
Save(p, k) ==
    LET v     == Version[p]
        stamp == <<v, edits + 1>>
        old   == docs[k][v] IN
    /\ pod[p].open
    /\ p \notin ReadOnly
    /\ edits < MaxEdits
    /\ \E now \in {clock, clock + 1} :
         /\ clock' = now
         /\ Put(k, v, [id     |-> IF old = None THEN stamp ELSE old.id,
                       text   |-> stamp,
                       date   |-> now,
                       digest |-> IF v = Latest THEN stamp ELSE None])
    /\ edits' = edits + 1
    /\ raced' = raced \cup {k}
    /\ UNCHANGED <<pod, skipped, failures>>

Remove(p, k) ==
    /\ pod[p].open
    /\ p \notin ReadOnly
    /\ edits < MaxEdits
    /\ docs[k][Version[p]] # None
    /\ Put(k, Version[p], None)
    /\ edits' = edits + 1
    /\ raced' = raced \cup {k}
    /\ UNCHANGED <<pod, skipped, clock, failures>>

-----------------------------------------------------------------------------
(* A pass.                                                                 *)

BeginAt(p, manual) ==
    /\ pod[p].pc = "idle"
    /\ pod' = [pod EXCEPT ![p].pc = "find", ![p].manual = manual,
                          ![p].stage = 1, ![p].incomplete = FALSE]
    /\ raced' = IF \A q \in Pods : pod[q].pc = "idle" THEN {} ELSE raced
    /\ UNCHANGED <<docs, skipped, clock, edits, failures>>

(* _ensure_current, for the caller that finds a check is due.              *)
BeginPass(p) == pod[p].auto /\ pod[p].due /\ BeginAt(p, FALSE)

(* repair_stale_documents, called by an operator.                          *)
BeginManual(p) == BeginAt(p, TRUE)

IntervalElapses(p) ==
    /\ ~pod[p].due
    /\ pod' = [pod EXCEPT ![p].due = TRUE]
    /\ UNCHANGED <<docs, skipped, clock, edits, failures, raced>>

(* The pass is over; only an automatic one sets the time of the last check. *)
Ended(p, due) ==
    [Restarted EXCEPT !.auto = pod[p].auto,
                      !.due  = IF pod[p].manual THEN pod[p].due ELSE due,
                      !.open = pod[p].open \/ ~pod[p].manual]

(* Mutant: the pass runs past the last collection.                         *)
NextCollectionUnbounded(p, truncated) ==
    [Ended(p, FALSE) EXCEPT
        !.pc = "find", !.due = pod[p].due, !.open = pod[p].open,
        !.manual = pod[p].manual, !.stage = pod[p].stage + 1,
        !.incomplete = pod[p].incomplete \/ truncated]

(* A collection is done: its batch was full, or there may be nothing left. *)
NextCollection(p, truncated) ==
    LET incomplete == pod[p].incomplete \/ truncated IN
    IF pod[p].stage = Len(Collections) THEN Ended(p, incomplete)
    ELSE [Ended(p, FALSE) EXCEPT
             !.pc = "find", !.due = pod[p].due, !.open = pod[p].open,
             !.manual = pod[p].manual, !.stage = pod[p].stage + 1,
             !.incomplete = incomplete]

(* Go on with the rest of the batch.                                       *)
Continuing(p, rest) ==
    IF rest = {} THEN NextCollection(p, pod[p].truncated)
    ELSE [pod[p] EXCEPT !.pc = "pick", !.todo = rest, !.stale = None, !.sibling = None]

(* Mutant: the filter does not exclude the skipped documents.              *)
StaleOrSkipped(p, s) ==
    {[key |-> x[1], version |-> x[2], doc |-> docs[x[1]][x[2]]] :
        x \in {y \in Collections[s] \X Versions :
                 y[2] < Version[p] /\ docs[y[1]][y[2]] # None}}

Stale(p, s) ==
    {[key |-> x[1], version |-> x[2], doc |-> docs[x[1]][x[2]]] :
        x \in {y \in Collections[s] \X Versions :
                 /\ y[2] < Version[p]
                 /\ docs[y[1]][y[2]] # None
                 /\ <<y[1], docs[y[1]][y[2]].id>> \notin skipped[p]}}

Batches(p, S) ==
    IF pod[p].manual \/ Cardinality(S) <= BatchSize THEN {S}
    ELSE {T \in SUBSET S : Cardinality(T) = BatchSize}

(* Mutant: a batch counts as full when it is over full.                    *)
OverFull(p, batch) == ~pod[p].manual /\ Cardinality(batch) > BatchSize

Full(p, batch) == ~pod[p].manual /\ Cardinality(batch) >= BatchSize

(* Skills wait until nothing was left behind in the other collections.     *)
FindStale(p) ==
    LET s     == pod[p].stage
        found == Stale(p, s) IN
    /\ pod[p].pc = "find"
    /\ \/ /\ s = Len(Collections) /\ pod[p].incomplete
          /\ pod' = [pod EXCEPT ![p] = NextCollection(p, FALSE)]
       \/ /\ ~(s = Len(Collections) /\ pod[p].incomplete)
          /\ found = {}
          /\ pod' = [pod EXCEPT ![p] = NextCollection(p, FALSE)]
       \/ /\ ~(s = Len(Collections) /\ pod[p].incomplete)
          /\ found # {}
          /\ \E batch \in Batches(p, found) :
               pod' = [pod EXCEPT ![p].pc = "pick", ![p].todo = batch,
                         ![p].truncated = Full(p, batch)]
    /\ UNCHANGED <<docs, skipped, clock, edits, failures, raced>>

(* Mutant: a tie goes to the stale document.                               *)
NotEarlier(d1, d2) == d1 # None /\ d2 # None /\ d1 >= d2

Later(d1, d2) == d1 # None /\ d2 # None /\ d1 > d2

(* Which of the two is kept: the newer one, the current one on a tie.      *)
Reconciling(p, f, sibling) ==
    [pod[p] EXCEPT !.pc = IF Later(f.doc.date, sibling.date) THEN "replace" ELSE "delete",
                   !.todo = @ \ {f}, !.stale = f, !.sibling = sibling.id]

(* _skip; too many skipped documents turn automatic repair off.            *)
Skip(p, f, next) ==
    LET ids == skipped[p] \cup {<<f.key, f.doc.id>>} IN
    /\ skipped' = [skipped EXCEPT ![p] = ids]
    /\ pod' = [pod EXCEPT ![p] =
                 [next EXCEPT !.auto = @ /\ Cardinality(ids) <= MaxSkipped]]

IsBroken(f) == f.key \in Broken /\ f.doc.id = <<f.version, 0>>

PickDoc(p) ==
    /\ pod[p].pc = "pick"
    /\ \E f \in pod[p].todo :
         LET sibling == docs[f.key][Version[p]] IN
         IF IsBroken(f) THEN Skip(p, f, Continuing(p, pod[p].todo \ {f}))
         ELSE /\ UNCHANGED skipped
              /\ pod' = [pod EXCEPT ![p] =
                    IF sibling # None THEN Reconciling(p, f, sibling)
                    ELSE [pod[p] EXCEPT !.pc = "update", !.todo = @ \ {f}, !.stale = f]]
    /\ UNCHANGED <<docs, clock, edits, failures, raced>>

(* migrate_fields: the digest is computed from the text that was read.     *)
Migrated(doc, read, v) ==
    [doc EXCEPT !.digest = IF v = Latest THEN read.text ELSE @]

(* The document is where it was found.                                     *)
StillThere(f) == docs[f.key][f.version] # None /\ docs[f.key][f.version].id = f.doc.id

(* Mutant: the update is conditional on _id alone.                         *)
UpdateDocById(p) ==
    LET f == pod[p].stale
        v == Version[p]
        now == docs[f.key][v] IN
    /\ pod[p].pc = "update"
    /\ p \notin ReadOnly
    /\ docs' = IF StillThere(f) /\ now = None
               THEN [docs EXCEPT ![f.key][f.version] = None,
                       ![f.key][v] = Migrated(docs[f.key][f.version], f.doc, v)]
               ELSE IF now # None /\ now.id = f.doc.id
               THEN [docs EXCEPT ![f.key][v] = Migrated(@, f.doc, v)]
               ELSE docs
    /\ pod' = [pod EXCEPT ![p] = Continuing(p, pod[p].todo)]
    /\ UNCHANGED <<skipped, clock, edits, failures, raced>>

UpdateDoc(p) ==
    LET f == pod[p].stale
        v == Version[p] IN
    /\ pod[p].pc = "update"
    /\ p \notin ReadOnly
    /\ IF StillThere(f) /\ docs[f.key][v] # None
       THEN /\ pod' = [pod EXCEPT ![p].pc = "refind"]
            /\ UNCHANGED docs
       ELSE /\ IF StillThere(f)
               THEN docs' = [docs EXCEPT ![f.key][f.version] = None,
                               ![f.key][v] = Migrated(docs[f.key][f.version], f.doc, v)]
               ELSE UNCHANGED docs
            /\ pod' = [pod EXCEPT ![p] = Continuing(p, pod[p].todo)]
    /\ UNCHANGED <<skipped, clock, edits, failures, raced>>

(* After a DuplicateKeyError the twin is looked up again.                  *)
Refind(p) ==
    LET f       == pod[p].stale
        sibling == docs[f.key][Version[p]] IN
    /\ pod[p].pc = "refind"
    /\ IF sibling = None THEN Skip(p, f, Continuing(p, pod[p].todo))
       ELSE /\ pod' = [pod EXCEPT ![p] = Reconciling(p, f, sibling)]
            /\ UNCHANGED skipped
    /\ UNCHANGED <<docs, clock, edits, failures, raced>>

(* replace_one of _reconcile_conflict: it does nothing when the twin has   *)
(* gone, and asks for nothing else.                                        *)
Replace(p) ==
    LET f   == pod[p].stale
        v   == Version[p]
        now == docs[f.key][v] IN
    /\ pod[p].pc = "replace"
    /\ p \notin ReadOnly
    /\ IF now # None /\ now.id = pod[p].sibling
       THEN Put(f.key, v, [Migrated(f.doc, f.doc, v) EXCEPT !.id = now.id])
       ELSE UNCHANGED docs
    /\ pod' = [pod EXCEPT ![p].pc = "delete"]
    /\ UNCHANGED <<skipped, clock, edits, failures, raced>>

DeleteStale(p) ==
    LET f == pod[p].stale IN
    /\ pod[p].pc = "delete"
    /\ p \notin ReadOnly
    /\ IF StillThere(f) THEN Put(f.key, f.version, None) ELSE UNCHANGED docs
    /\ pod' = [pod EXCEPT ![p] = Continuing(p, pod[p].todo)]
    /\ UNCHANGED <<skipped, clock, edits, failures, raced>>

-----------------------------------------------------------------------------
(* Failures.  An automatic pass swallows them and waits for the interval.  *)

PassUnauthorized(p) ==
    /\ p \in ReadOnly
    /\ pod[p].pc \in {"update", "replace", "delete"}
    /\ pod' = [pod EXCEPT ![p] = [Ended(p, FALSE) EXCEPT !.auto = @ /\ pod[p].manual]]
    /\ UNCHANGED <<docs, skipped, clock, edits, failures, raced>>

PassFails(p) ==
    /\ pod[p].pc # "idle"
    /\ failures < MaxFailures
    /\ pod' = [pod EXCEPT ![p] = Ended(p, FALSE)]
    /\ failures' = failures + 1
    /\ UNCHANGED <<docs, skipped, clock, edits, raced>>

(* The caller whose turn it was is cancelled: only the finally clause runs. *)
PassCancelled(p) ==
    /\ pod[p].pc # "idle"
    /\ failures < MaxFailures
    /\ pod' = [pod EXCEPT ![p] = Ended(p, pod[p].incomplete)]
    /\ failures' = failures + 1
    /\ UNCHANGED <<docs, skipped, clock, edits, raced>>

Restart(p) ==
    /\ failures < MaxFailures
    /\ pod' = [pod EXCEPT ![p] = Restarted]
    /\ skipped' = [skipped EXCEPT ![p] = {}]
    /\ failures' = failures + 1
    /\ UNCHANGED <<docs, clock, edits, raced>>

-----------------------------------------------------------------------------
Repair(p) ==
    \/ FindStale(p)
    \/ PickDoc(p)
    \/ UpdateDoc(p)
    \/ Refind(p)
    \/ Replace(p)
    \/ DeleteStale(p)
    \/ PassUnauthorized(p)

Fails(p) == PassFails(p) \/ PassCancelled(p) \/ Restart(p)

Next ==
    \E p \in Pods :
        \/ \E k \in Keys : Save(p, k) \/ Remove(p, k)
        \/ BeginPass(p)
        \/ BeginManual(p)
        \/ IntervalElapses(p)
        \/ Repair(p)
        \/ Fails(p)

Spec == Init /\ [][Next]_vars

(* A pass that has begun goes on; calls keep coming, and every one of them *)
(* looks whether a check is due; time passes.  Nobody is obliged to save,  *)
(* to delete, to repair by hand or to fail.                                *)
FairSpec ==
    /\ Spec
    /\ \A p \in Pods :
         /\ WF_vars(Repair(p))
         /\ WF_vars(BeginPass(p))
         /\ WF_vars(IntervalElapses(p))

-----------------------------------------------------------------------------
(* Properties                                                              *)

(* The texts of identity k that are its latest edit: a document yields to  *)
(* a later one, and on a tie or without dates to the one at the version    *)
(* all are moved to.                                                       *)
ModifiedAfter(d, e) == d.date # None /\ e.date # None /\ d.date > e.date

Beats(k, v, w) ==
    LET d == docs[k][v]
        e == docs[k][w] IN
    /\ d # None
    /\ e # None
    /\ ModifiedAfter(d, e) \/ (v = Latest /\ w # v /\ ~ModifiedAfter(e, d))

LatestDocs(k) ==
    {docs[k][v] : v \in {x \in Versions :
        docs[k][x] # None /\ \A w \in Versions : ~Beats(k, w, x)}}

KeepsLatestEdit(k) ==
    LatestDocs(k) # {} =>
        \E d \in LatestDocs(k), e \in LatestDocs(k)' :
            e.text = d.text \/ ModifiedAfter(e, d)

(* Moving, merging and deleting documents keeps the latest edit of every   *)
(* identity, or a later one, however often a pass fails or is repeated and *)
(* whoever else repairs; it is lost only if the identity was saved or      *)
(* deleted while passes were running (_repair_collection,                  *)
(* _reconcile_conflict).  Where documents have two versions, or one loader *)
(* repairs: with three versions and two loaders, Replace may put an        *)
(* earlier edit over a later one.                                          *)
LatestEditKeptUnlessRaced ==
    [][edits' = edits => \A k \in Keys \ raced : KeepsLatestEdit(k)]_vars

(* A skill becomes current by repair only when no document of the other    *)
(* collections is left behind, but those this process cannot migrate and   *)
(* those saved while the pass was under way (_repair_all).                 *)
BecomesCurrent(p, k) ==
    /\ pod'[p] # pod[p]
    /\ edits' = edits
    /\ docs[k][Version[p]] = None
    /\ docs'[k][Version[p]] # None

HiddenChildren(p) ==
    {x \in Children \X Versions : x[2] < Version[p] /\ docs[x[1]][x[2]] # None}

SkillsAfterChildren ==
    [][\A p \in Pods, k \in Skills : BecomesCurrent(p, k) =>
         \A x \in HiddenChildren(p) :
            \/ x[1] \in raced
            \/ <<x[1], docs[x[1]][x[2]].id>> \in skipped[p]]_vars

(* The digest of a current document is that of its text, unless a pod of   *)
(* an older release has changed the text since it inserted the document:   *)
(* repair may then have read the document before that and updated it after *)
(* (_repair_collection).                                                   *)
DigestFits ==
    \A k \in Keys :
        LET d == docs[k][Latest] IN
        d # None => d.digest = d.text \/ (d.text # d.id /\ d.text[1] < Latest)

(* The backlog drains: every stale document is moved, merged or excluded   *)
(* by every loader that can write, in batches, past documents that cannot  *)
(* be migrated, and although skills wait for all the others.               *)
Repairers == {p \in Pods : Version[p] = Latest /\ p \notin ReadOnly}
BacklogDrains ==
    \A p \in Repairers, k \in Keys, v \in Versions \ {Latest} :
        docs[k][v] # None ~>
            \/ docs[k][v] = None
            \/ <<k, docs[k][v].id>> \in skipped[p]
            \/ ~pod[p].auto
=============================================================================
