-------------------------- MODULE SchemaRepairProofs --------------------------
(***************************************************************************)
(* Proofs about SchemaRepair for every number of pods, releases, versions, *)
(* identities and edits.                                                   *)
(*                                                                         *)
(* Four parts:                                                             *)
(*                                                                         *)
(* DigestFits.  The digest a pass writes is that of a text it read some    *)
(* round trips before.  IInv says what may have become of the document     *)
(* since.  It speaks of copies: the documents stored, and those a pass has *)
(* in hand.  Most steps make no new copy (CarryKeeps); a save and a        *)
(* replacement do.                                                         *)
(*                                                                         *)
(* SkillsAfterChildren.  PassInv says what a pass has in hand and what it  *)
(* has left behind.                                                        *)
(*                                                                         *)
(* LatestEditKeptUnlessRaced.  EditInv says that passes which race have    *)
(* the same edit in hand, and what the current document is meanwhile.      *)
(*                                                                         *)
(* The same at any number of versions, where one loader repairs.  AloneInv *)
(* says that what it has in hand is stored, and what it is about to do     *)
(* with it still right.                                                    *)
(***************************************************************************)
EXTENDS SchemaRepair, TLAPS, WellFoundedInduction

USE CollectionsAssumption, VersionAssumption, BoundsAssumption, NoneAssumption

Holding == {"update", "refind", "replace", "delete"}

(* What a pass has in hand where it stands.                                *)
PodsFit ==
    \A p \in Pods :
        /\ pod[p].pc \in Holding => pod[p].stale \in Found
        /\ pod[p].pc = "replace" => pod[p].sibling \in Stamps

Holds(p, f) == f \in pod[p].todo \/ f = pod[p].stale

Copies(k) ==
    {d \in Docs :
        \/ \E v \in Versions : docs[k][v] = d
        \/ \E p \in Pods, f \in Found : Holds(p, f) /\ f.key = k /\ f.doc = d}

(* Stamps are drawn one after the other, and dates come from the clock.    *)
StampsKnown ==
    \A k \in Keys : \A d \in Copies(k) :
        /\ d.id[2] <= edits
        /\ d.text[2] <= edits
        /\ d.date # None => d.date <= clock

(* Texts move up: a text is found at no version below the one it was saved *)
(* at, and a pass looks only below its own.                                *)
TextsMoveUp ==
    /\ \A k \in Keys, v \in Versions :
         docs[k][v] # None => docs[k][v].text[1] <= v
    /\ \A p \in Pods, f \in Found :
         Holds(p, f) => f.version < Version[p] /\ f.doc.text[1] <= f.version

IdsApart ==
    \A k \in Keys, v \in Versions, w \in Versions :
        docs[k][v] # None /\ docs[k][w] # None /\ docs[k][v].id = docs[k][w].id
            => v = w

(* A document is never dated before the text it was inserted with, wherever *)
(* that text has been copied to.                                           *)
NotBefore(d, e) == e.date # None => d.date # None /\ d.date >= e.date

DatesMoveOn ==
    \A k \in Keys : \A d \in Copies(k), e \in Copies(k) :
        d.id = e.text => NotBefore(d, e)

(* So no replacement puts back the text its target was inserted with ...   *)
Replacing(f, id) ==
    /\ id[2] <= edits
    /\ f.doc.text # id
    /\ \A e \in Copies(f.key) : e.text = id => NotBefore(f.doc, e)
ReplacesMoveOn ==
    \A p \in Pods, f \in Found, id \in Stamps :
        pod[p].pc = "replace" /\ pod[p].stale = f /\ pod[p].sibling = id
            => Replacing(f, id)

(* ... and a text once changed is never again the one of the insertion.    *)
StaysChanged ==
    \A k \in Keys, v \in Versions : \A c \in Copies(k) :
        /\ docs[k][v] # None
        /\ docs[k][v].id = c.id
        /\ c.text # c.id
        => docs[k][v].text # c.id

IInv ==
    /\ TypeOK
    /\ PodsFit
    /\ StampsKnown
    /\ TextsMoveUp
    /\ IdsApart
    /\ DatesMoveOn
    /\ ReplacesMoveOn
    /\ StaysChanged
    /\ DigestFits

(***************************************************************************)
(* Copies                                                                  *)
(***************************************************************************)
Same(c, d) == c.id = d.id /\ c.text = d.text /\ c.date = d.date

LEMMA VersionsKnown ==
    /\ Versions \subseteq Nat
    /\ Latest \in Versions
    /\ \A v \in Versions : v <= Latest
    /\ \A p \in Pods : Version[p] \in Versions
BY DEF Versions

LEMMA StagesKnown ==
    /\ 1 \in Stages
    /\ Len(Collections) \in Stages
    /\ \A s \in Stages : s # Len(Collections) => s + 1 \in Stages
    /\ \A s \in Stages : Collections[s] \subseteq Keys
    /\ Skills \subseteq Keys
BY DEF Stages, Keys, Skills

LEMMA StoredCopy ==
    ASSUME TypeOK, NEW k \in Keys, NEW v \in Versions, docs[k][v] # None
    PROVE  docs[k][v] \in Docs /\ docs[k][v] \in Copies(k)
BY DEF TypeOK, Copies

LEMMA FoundCopy ==
    ASSUME NEW p \in Pods, NEW f \in Found, Holds(p, f)
    PROVE  /\ f.key \in Keys /\ f.version \in Versions /\ f.doc \in Docs
           /\ f.doc \in Copies(f.key)
BY DEF Found, Copies

LEMMA StampNumbers == \A s \in Stamps : s[1] \in Versions /\ s[2] \in Nat
BY DEF Stamps

LEMMA FieldsOfDocs ==
    ASSUME NEW d \in Docs
    PROVE  /\ d.id \in Stamps /\ d.text \in Stamps
           /\ d.text[1] \in Nat /\ d.text[2] \in Nat /\ d.id[2] \in Nat
           /\ d.text[1] \in Versions
           /\ d.date # None => d.date \in Nat
<1>1. d.id \in Stamps /\ d.text \in Stamps /\ d.date \in Nat \cup {None}
  BY DEF Docs
<1> QED
  BY <1>1, StampNumbers, VersionsKnown

(* A later document than one that is not before a third is not before it.  *)
LEMMA NotBeforeLater ==
    ASSUME NEW c \in Docs, NEW d \in Docs, NEW e \in Docs,
           NotBefore(d, e), Later(c.date, d.date)
    PROVE  NotBefore(c, e)
BY FieldsOfDocs DEF NotBefore, Later

(***************************************************************************)
(* Steps that make no new copy: documents move up or go, and passes pick   *)
(* up what is stored.                                                      *)
(***************************************************************************)
FoundNow(p, f) == f.version < Version[p] /\ docs[f.key][f.version] = f.doc

FindsCarried ==
    \A p \in Pods, f \in Found : Holds(p, f)' => Holds(p, f) \/ FoundNow(p, f)

DocsFewer ==
    \A k \in Keys, v \in Versions : docs'[k][v] = docs[k][v] \/ docs'[k][v] = None

DocMoves(k, w, v) ==
    /\ w < v
    /\ docs[k][w] # None /\ docs[k][v] = None
    /\ docs'[k][w] = None
    /\ docs'[k][v] \in Docs
    /\ Same(docs'[k][v], docs[k][w])
    /\ \A l \in Keys, x \in Versions :
         l # k \/ x \notin {v, w} => docs'[l][x] = docs[l][x]

DocsCarried ==
    \/ DocsFewer
    \/ \E k \in Keys, w \in Versions, v \in Versions : DocMoves(k, w, v)

ChoosesReplace(p) ==
    \E f \in Found :
        /\ Holds(p, f)
        /\ pod'[p].stale = f
        /\ docs[f.key][Version[p]] # None
        /\ pod'[p].sibling = docs[f.key][Version[p]].id
        /\ Later(f.doc.date, docs[f.key][Version[p]].date)

ReplacesCarried ==
    \A p \in Pods : pod'[p].pc = "replace" =>
        \/ /\ pod[p].pc = "replace"
           /\ pod'[p].stale = pod[p].stale
           /\ pod'[p].sibling = pod[p].sibling
        \/ ChoosesReplace(p)

LEMMA DocsComeFrom ==
    ASSUME TypeOK, DocsCarried,
           NEW k \in Keys, NEW v \in Versions, docs'[k][v] # None
    PROVE  \E w \in Versions :
               /\ w <= v
               /\ docs[k][w] # None
               /\ Same(docs'[k][v], docs[k][w])
               /\ w # v => docs'[k][w] = None /\ DocMoves(k, w, v)
<1>1. CASE docs'[k][v] = docs[k][v]
  BY <1>1, VersionsKnown DEF Same
<1>2. CASE docs'[k][v] # docs[k][v]
  <2>1. PICK l \in Keys, w \in Versions, x \in Versions : DocMoves(l, w, x)
    BY <1>2 DEF DocsCarried, DocsFewer
  <2>2. l = k /\ x = v
    BY <1>2, <2>1 DEF DocMoves
  <2> QED
    BY <2>1, <2>2, VersionsKnown DEF DocMoves
<1> QED
  BY <1>1, <1>2

LEMMA CopiesComeFrom ==
    ASSUME TypeOK, DocsCarried, FindsCarried,
           NEW k \in Keys, NEW d \in Copies(k)'
    PROVE  \E c \in Copies(k) : Same(d, c)
<1>1. d \in Docs
  BY DEF Copies
<1>2. CASE \E v \in Versions : docs'[k][v] = d
  <2>1. PICK v \in Versions : docs'[k][v] = d
    BY <1>2
  <2>2. docs'[k][v] # None
    BY <1>1, <2>1
  <2>3. PICK w \in Versions : docs[k][w] # None /\ Same(docs'[k][v], docs[k][w])
    BY <2>2, DocsComeFrom
  <2> QED
    BY <2>1, <2>3, StoredCopy
<1>3. CASE \E p \in Pods, f \in Found : Holds(p, f)' /\ f.key = k /\ f.doc = d
  <2>1. PICK p \in Pods, f \in Found : Holds(p, f)' /\ f.key = k /\ f.doc = d
    BY <1>3
  <2>2. Holds(p, f) \/ FoundNow(p, f)
    BY <2>1 DEF FindsCarried
  <2>3. f.version \in Versions
    BY DEF Found
  <2>4. d \in Copies(k)
    BY <1>1, <2>1, <2>2, <2>3 DEF FoundNow, Copies
  <2> QED
    BY <2>4 DEF Same
<1> QED
  BY <1>2, <1>3 DEF Copies, Holds

LEMMA CarriedStampsKnown ==
    ASSUME IInv, DocsCarried, FindsCarried,
           edits \in Nat, edits' \in Nat, edits <= edits',
           clock \in Nat, clock' \in Nat, clock <= clock'
    PROVE  StampsKnown'
<1> SUFFICES ASSUME NEW k \in Keys, NEW d \in Copies(k)'
             PROVE  /\ d.id[2] <= edits'
                    /\ d.text[2] <= edits'
                    /\ d.date # None => d.date <= clock'
  BY DEF StampsKnown
<1>1. PICK c \in Copies(k) : Same(d, c)
  BY CopiesComeFrom DEF IInv
<1>2. c \in Docs
  BY DEF Copies
<1>3. /\ c.id[2] <= edits /\ c.text[2] <= edits
      /\ c.date # None => c.date <= clock
  BY DEF IInv, StampsKnown
<1> QED
  BY SMTT(30), <1>1, <1>2, <1>3, FieldsOfDocs DEF Same

LEMMA CarriedTextsMoveUp ==
    ASSUME IInv, DocsCarried, FindsCarried
    PROVE  TextsMoveUp'
<1>1. ASSUME NEW k \in Keys, NEW v \in Versions, docs'[k][v] # None
      PROVE  docs'[k][v].text[1] <= v
  <2>1. PICK w \in Versions : w <= v /\ docs[k][w] # None /\ Same(docs'[k][v], docs[k][w])
    BY <1>1, DocsComeFrom DEF IInv
  <2>2. docs[k][w].text[1] <= w /\ docs[k][w] \in Docs
    BY <2>1, StoredCopy DEF IInv, TextsMoveUp
  <2> QED
    BY SMTT(30), <2>1, <2>2, FieldsOfDocs, VersionsKnown DEF Same
<1>2. ASSUME NEW p \in Pods, NEW f \in Found, Holds(p, f)'
      PROVE  f.version < Version[p] /\ f.doc.text[1] <= f.version
  <2>1. CASE Holds(p, f)
    BY <2>1 DEF IInv, TextsMoveUp
  <2>2. CASE FoundNow(p, f)
    <3>1. f.key \in Keys /\ f.version \in Versions /\ f.doc # None
      BY DEF Found
    <3> QED
      BY <2>2, <3>1 DEF FoundNow, IInv, TextsMoveUp
  <2> QED
    BY <1>2, <2>1, <2>2 DEF FindsCarried
<1> QED
  BY <1>1, <1>2 DEF TextsMoveUp, Holds

LEMMA CarriedIdsApart ==
    ASSUME IInv, DocsCarried
    PROVE  IdsApart'
<1> SUFFICES ASSUME NEW k \in Keys, NEW v \in Versions, NEW w \in Versions,
                    docs'[k][v] # None, docs'[k][w] # None,
                    docs'[k][v].id = docs'[k][w].id
             PROVE  v = w
  BY DEF IdsApart
<1>1. PICK x \in Versions :
          /\ docs[k][x] # None /\ Same(docs'[k][v], docs[k][x])
          /\ x # v => docs'[k][x] = None /\ DocMoves(k, x, v)
  BY DocsComeFrom DEF IInv
<1>2. PICK y \in Versions :
          /\ docs[k][y] # None /\ Same(docs'[k][w], docs[k][y])
          /\ y # w => docs'[k][y] = None /\ DocMoves(k, y, w)
  BY DocsComeFrom DEF IInv
<1>3. x = y
  BY <1>1, <1>2 DEF Same, IInv, IdsApart
<1>4. CASE x = v
  BY <1>2, <1>3, <1>4
<1>5. CASE x # v
  BY <1>1, <1>2, <1>3, <1>5 DEF DocMoves
<1> QED
  BY <1>4, <1>5

LEMMA CarriedDatesMoveOn ==
    ASSUME IInv, DocsCarried, FindsCarried
    PROVE  DatesMoveOn'
<1> SUFFICES ASSUME NEW k \in Keys, NEW d \in Copies(k)', NEW e \in Copies(k)',
                    d.id = e.text
             PROVE  NotBefore(d, e)
  BY DEF DatesMoveOn, NotBefore
<1>1. PICK c \in Copies(k) : Same(d, c)
  BY CopiesComeFrom DEF IInv
<1>2. PICK b \in Copies(k) : Same(e, b)
  BY CopiesComeFrom DEF IInv
<1>3. NotBefore(c, b)
  BY <1>1, <1>2 DEF Same, IInv, DatesMoveOn
<1> QED
  BY <1>1, <1>2, <1>3 DEF Same, NotBefore

LEMMA CarriedReplacesMoveOn ==
    ASSUME IInv, DocsCarried, FindsCarried, ReplacesCarried,
           edits \in Nat, edits' \in Nat, edits <= edits'
    PROVE  ReplacesMoveOn'
<1> SUFFICES ASSUME NEW p \in Pods, NEW f \in Found, NEW id \in Stamps,
                    pod'[p].pc = "replace", pod'[p].stale = f, pod'[p].sibling = id
             PROVE  /\ id[2] <= edits'
                    /\ f.doc.text # id
                    /\ \A e \in Copies(f.key)' : e.text = id => NotBefore(f.doc, e)
  BY DEF ReplacesMoveOn, Replacing, NotBefore
<1>1. f.key \in Keys /\ f.doc \in Docs
  BY DEF Found
<1>2. CASE /\ pod[p].pc = "replace"
           /\ pod'[p].stale = pod[p].stale
           /\ pod'[p].sibling = pod[p].sibling
  <2>1. Replacing(f, id)
    BY <1>2 DEF IInv, ReplacesMoveOn
  <2>2. ASSUME NEW e \in Copies(f.key)', e.text = id
        PROVE  NotBefore(f.doc, e)
    <3>1. PICK b \in Copies(f.key) : Same(e, b)
      BY <1>1, CopiesComeFrom DEF IInv
    <3>2. NotBefore(f.doc, b)
      BY <2>1, <2>2, <3>1 DEF Replacing, Same
    <3> QED
      BY <3>1, <3>2 DEF Same, NotBefore
  <2>3. id[2] <= edits'
    BY <2>1, StampNumbers DEF Replacing
  <2> QED
    BY <2>1, <2>2, <2>3 DEF Replacing
<1>3. CASE ChoosesReplace(p)
  <2> DEFINE d == docs[f.key][Version[p]]
  <2>1. Holds(p, f) /\ d # None /\ id = d.id /\ Later(f.doc.date, d.date)
    BY <1>3 DEF ChoosesReplace
  <2>2. f.doc \in Copies(f.key)
    BY <2>1, FoundCopy
  <2>3. d \in Docs /\ d \in Copies(f.key)
    BY <1>1, <2>1, StoredCopy, VersionsKnown DEF IInv
  <2>4. f.doc.text # d.id
    <3>1. SUFFICES ASSUME f.doc.text = d.id PROVE FALSE
      OBVIOUS
    <3>2. NotBefore(d, f.doc)
      BY <1>1, <2>2, <2>3, <3>1 DEF IInv, DatesMoveOn
    <3> QED
      BY <1>1, <2>1, <2>3, <3>2, FieldsOfDocs DEF NotBefore, Later
  <2>5. ASSUME NEW e \in Copies(f.key)', e.text = d.id
        PROVE  NotBefore(f.doc, e)
    <3>1. PICK b \in Copies(f.key) : Same(e, b)
      BY <1>1, CopiesComeFrom DEF IInv
    <3>2. NotBefore(d, b)
      BY <1>1, <2>3, <2>5, <3>1 DEF IInv, DatesMoveOn, Same
    <3>3. b \in Docs
      BY DEF Copies
    <3>4. NotBefore(f.doc, b)
      BY <1>1, <2>1, <2>3, <3>2, <3>3, NotBeforeLater
    <3> QED
      BY <3>1, <3>4 DEF Same, NotBefore
  <2>6. id[2] <= edits'
    BY SMTT(30), <1>1, <2>1, <2>3, FieldsOfDocs DEF IInv, StampsKnown
  <2> QED
    BY <2>1, <2>4, <2>5, <2>6
<1> QED
  BY <1>2, <1>3 DEF ReplacesCarried

LEMMA CarriedStaysChanged ==
    ASSUME IInv, DocsCarried, FindsCarried
    PROVE  StaysChanged'
<1> SUFFICES ASSUME NEW k \in Keys, NEW v \in Versions, NEW c \in Copies(k)',
                    docs'[k][v] # None, docs'[k][v].id = c.id, c.text # c.id
             PROVE  docs'[k][v].text # c.id
  BY DEF StaysChanged
<1>1. PICK w \in Versions : docs[k][w] # None /\ Same(docs'[k][v], docs[k][w])
  BY DocsComeFrom DEF IInv
<1>2. PICK b \in Copies(k) : Same(c, b)
  BY CopiesComeFrom DEF IInv
<1>3. docs[k][w].text # b.id
  BY <1>1, <1>2 DEF Same, IInv, StaysChanged
<1> QED
  BY <1>1, <1>2, <1>3 DEF Same

LEMMA CarryKeeps ==
    ASSUME IInv, TypeOK', PodsFit', DocsCarried, FindsCarried, ReplacesCarried,
           edits' = edits \/ edits' = edits + 1, clock' = clock, DigestFits'
    PROVE  IInv'
<1>1. edits \in Nat /\ edits' \in Nat /\ edits <= edits' /\ clock \in Nat
  BY DEF IInv, TypeOK
<1> QED
  BY <1>1, CarriedStampsKnown, CarriedTextsMoveUp, CarriedIdsApart, CarriedDatesMoveOn,
     CarriedReplacesMoveOn, CarriedStaysChanged DEF IInv

(***************************************************************************)
(* Steps of a pass                                                         *)
(***************************************************************************)
(* A state the pod p can go on to.                                         *)
Chooses(p, r) ==
    /\ r.stale \in Found
    /\ Holds(p, r.stale)
    /\ docs[r.stale.key][Version[p]] # None
    /\ r.sibling = docs[r.stale.key][Version[p]].id
    /\ Later(r.stale.doc.date, docs[r.stale.key][Version[p]].date)

GoesOn(p, r) ==
    /\ r \in PodStates
    /\ r.pc \in Holding => r.stale \in Found
    /\ \A f \in Found : f \in r.todo \/ f = r.stale => Holds(p, f) \/ FoundNow(p, f)
    /\ r.pc = "replace" => Chooses(p, r)

LEMMA PodGoesOn ==
    ASSUME IInv, NEW p \in Pods, NEW r, GoesOn(p, r), pod' = [pod EXCEPT ![p] = r]
    PROVE  /\ pod' \in [Pods -> PodStates]
           /\ PodsFit' /\ FindsCarried /\ ReplacesCarried
<1>1. pod \in [Pods -> PodStates]
  BY DEF IInv, TypeOK
<1>2. pod' \in [Pods -> PodStates] /\ pod'[p] = r /\ \A q \in Pods : q # p => pod'[q] = pod[q]
  BY <1>1 DEF GoesOn
<1>3. r.pc = "replace" => r.sibling \in Stamps
  <2> SUFFICES ASSUME r.pc = "replace" PROVE r.sibling \in Stamps
    OBVIOUS
  <2>1. r.stale \in Found /\ docs[r.stale.key][Version[p]] # None
        /\ r.sibling = docs[r.stale.key][Version[p]].id
    BY DEF GoesOn, Chooses
  <2>2. docs[r.stale.key][Version[p]] \in Docs
    BY <2>1, VersionsKnown, StoredCopy DEF IInv, Found
  <2> QED
    BY <2>1, <2>2, FieldsOfDocs
<1>4. PodsFit'
  BY <1>2, <1>3 DEF PodsFit, IInv, GoesOn
<1>5. FindsCarried
  BY <1>2 DEF FindsCarried, Holds, GoesOn
<1>6. ReplacesCarried
  BY <1>2 DEF ReplacesCarried, ChoosesReplace, Chooses, GoesOn
<1> QED
  BY <1>2, <1>4, <1>5, <1>6

LEMMA PodStateFields ==
    ASSUME IInv, NEW p \in Pods
    PROVE  /\ pod[p] \in PodStates
           /\ pod[p].auto \in BOOLEAN /\ pod[p].due \in BOOLEAN /\ pod[p].open \in BOOLEAN
           /\ pod[p].manual \in BOOLEAN /\ pod[p].stage \in Stages
           /\ pod[p].todo \in SUBSET Found /\ pod[p].truncated \in BOOLEAN
           /\ pod[p].incomplete \in BOOLEAN
<1>1. pod[p] \in PodStates
  BY DEF IInv, TypeOK
<1> QED
  BY <1>1 DEF PodStates

(* A pass that is over, or between two documents.                          *)
Between(r, rest) ==
    /\ r \in PodStates
    /\ r.pc \notin Holding
    /\ r.todo \subseteq rest
    /\ r.stale = None

LEMMA RestartedFits ==
    Restarted \in PodStates /\ Between(Restarted, {}) /\ Restarted.pc = "idle"
<1>1. Restarted \in PodStates
  BY StagesKnown DEF Restarted, PodStates
<1> QED
  BY <1>1 DEF Between, Holding, Restarted

LEMMA RestartedWith ==
    ASSUME NEW auto \in BOOLEAN, NEW due \in BOOLEAN, NEW open \in BOOLEAN, NEW s,
           s = [Restarted EXCEPT !.auto = auto, !.due = due, !.open = open]
    PROVE  Between(s, {}) /\ s.pc = "idle"
<1>1. /\ s \in PodStates /\ s.pc = Restarted.pc
      /\ s.todo = Restarted.todo /\ s.stale = Restarted.stale
  BY RestartedFits DEF PodStates
<1> QED
  BY <1>1, RestartedFits DEF Between

LEMMA EndedFits ==
    ASSUME IInv, NEW p \in Pods, NEW due \in BOOLEAN
    PROVE  Between(Ended(p, due), {}) /\ Ended(p, due).pc = "idle"
<1> DEFINE d == IF pod[p].manual THEN pod[p].due ELSE due
           open == pod[p].open \/ ~pod[p].manual
           auto == pod[p].auto
<1>1. auto \in BOOLEAN /\ d \in BOOLEAN /\ open \in BOOLEAN
  BY PodStateFields
<1>2. Ended(p, due) = [Restarted EXCEPT !.auto = auto, !.due = d, !.open = open]
  BY DEF Ended
<1> HIDE DEF auto, d, open
<1> QED
  BY <1>1, <1>2, RestartedWith, Zenon

LEMMA NextCollectionFits ==
    ASSUME IInv, NEW p \in Pods, NEW truncated \in BOOLEAN
    PROVE  Between(NextCollection(p, truncated), {})
<1> DEFINE incomplete == pod[p].incomplete \/ truncated
<1>1. incomplete \in BOOLEAN
  OBVIOUS
<1>2. CASE pod[p].stage = Len(Collections)
  BY <1>1, <1>2, EndedFits DEF NextCollection
<1>3. CASE pod[p].stage # Len(Collections)
  <2>1. NextCollection(p, truncated) =
          [pc |-> "find", auto |-> pod[p].auto, due |-> pod[p].due,
           open |-> pod[p].open, manual |-> pod[p].manual,
           stage |-> pod[p].stage + 1, todo |-> {}, truncated |-> FALSE,
           incomplete |-> incomplete, stale |-> None, sibling |-> None]
    BY <1>3 DEF NextCollection, Ended, Restarted
  <2>2. NextCollection(p, truncated) \in PodStates
    BY <1>1, <1>3, <2>1, PodStateFields, StagesKnown DEF PodStates
  <2> QED
    BY <2>1, <2>2 DEF Between, Holding
<1> QED
  BY <1>2, <1>3

LEMMA ContinuingFits ==
    ASSUME IInv, NEW p \in Pods, NEW rest \in SUBSET Found
    PROVE  Between(Continuing(p, rest), rest)
<1>1. CASE rest = {}
  BY <1>1, NextCollectionFits, PodStateFields DEF Continuing
<1>2. CASE rest # {}
  <2>1. Continuing(p, rest) =
          [pod[p] EXCEPT !.pc = "pick", !.todo = rest, !.stale = None, !.sibling = None]
    BY <1>2 DEF Continuing
  <2>2. pod[p] \in PodStates
    BY PodStateFields
  <2> QED
    BY <2>1, <2>2 DEF Between, PodStates, Holding
<1> QED
  BY <1>1, <1>2

(* A pass that ends or goes on to the next document, with the documents as *)
(* they are or moved, keeps IInv.                                          *)
LEMMA BetweenGoesOn ==
    ASSUME IInv, NEW p \in Pods, NEW r, NEW rest, Between(r, rest),
           \A f \in Found : f \in rest => Holds(p, f)
    PROVE  GoesOn(p, r)
BY DEF Between, GoesOn, Holding

LEMMA PutOne ==
    ASSUME IInv, NEW k \in Keys, NEW v \in Versions, NEW d \in Docs \cup {None},
           Put(k, v, d)
    PROVE  /\ docs' \in [Keys -> [Versions -> Docs \cup {None}]]
           /\ docs'[k][v] = d
           /\ \A l \in Keys, x \in Versions : l # k \/ x # v => docs'[l][x] = docs[l][x]
BY DEF IInv, TypeOK, Put

LEMMA PutNone ==
    ASSUME IInv, NEW k \in Keys, NEW v \in Versions, Put(k, v, None)
    PROVE  /\ docs' \in [Keys -> [Versions -> Docs \cup {None}]]
           /\ DocsFewer
BY PutOne DEF DocsFewer

LEMMA FewerFits ==
    ASSUME IInv, DocsFewer
    PROVE  DocsCarried /\ DigestFits'
<1>1. DigestFits'
  <2> SUFFICES ASSUME NEW k \in Keys, docs'[k][Latest] # None
               PROVE  LET d == docs'[k][Latest] IN
                      d.digest = d.text \/ (d.text # d.id /\ d.text[1] < Latest)
    BY DEF DigestFits
  <2> QED
    BY VersionsKnown DEF DocsFewer, IInv, DigestFits
<1> QED
  BY <1>1 DEF DocsCarried

LEMMA SameDocs == ASSUME docs' = docs PROVE DocsFewer
BY DEF DocsFewer

LEMMA IdlesOn ==
    ASSUME IInv, pod' = pod
    PROVE  pod' \in [Pods -> PodStates] /\ PodsFit' /\ FindsCarried /\ ReplacesCarried
BY DEF IInv, TypeOK, PodsFit, FindsCarried, Holds, ReplacesCarried

(* The step of a pass that leaves the documents alone, or removes one.     *)
LEMMA PassStep ==
    ASSUME IInv, NEW p \in Pods, NEW r, GoesOn(p, r), pod' = [pod EXCEPT ![p] = r],
           docs' \in [Keys -> [Versions -> Docs \cup {None}]], DocsFewer,
           skipped' \in [Pods -> SUBSET (Keys \X Stamps)],
           clock' = clock, edits' = edits, failures' \in 0..MaxFailures,
           raced' \in SUBSET Keys
    PROVE  IInv' /\ FindsCarried
<1>1. pod' \in [Pods -> PodStates] /\ PodsFit' /\ FindsCarried /\ ReplacesCarried
  BY PodGoesOn
<1>2. TypeOK'
  BY <1>1 DEF IInv, TypeOK
<1> QED
  BY <1>1, <1>2, FewerFits, CarryKeeps

LEMMA Types ==
    ASSUME IInv
    PROVE  /\ docs \in [Keys -> [Versions -> Docs \cup {None}]]
           /\ skipped \in [Pods -> SUBSET (Keys \X Stamps)]
           /\ clock \in Nat /\ edits \in 0..MaxEdits /\ failures \in 0..MaxFailures
           /\ raced \in SUBSET Keys
BY DEF IInv, TypeOK

LEMMA BeginAtKeeps ==
    ASSUME IInv, NEW p \in Pods, NEW manual \in BOOLEAN, BeginAt(p, manual)
    PROVE  IInv' /\ FindsCarried
<1> DEFINE r == [pod[p] EXCEPT !.pc = "find", !.manual = manual,
                               !.stage = 1, !.incomplete = FALSE]
<1>1. pod \in [Pods -> PodStates] /\ pod[p] \in PodStates
  BY DEF IInv, TypeOK
<1>2. pod' = [pod EXCEPT ![p] = r]
  BY <1>1 DEF BeginAt
<1>3. r \in PodStates /\ r.pc = "find" /\ r.todo = pod[p].todo /\ r.stale = pod[p].stale
  BY <1>1, StagesKnown DEF PodStates
<1>4. GoesOn(p, r)
  BY <1>3 DEF GoesOn, Holds, Holding
<1> HIDE DEF r
<1> QED
  BY <1>2, <1>4, SameDocs, Types, PassStep DEF BeginAt

LEMMA IntervalElapsesKeeps ==
    ASSUME IInv, NEW p \in Pods, IntervalElapses(p)
    PROVE  IInv' /\ FindsCarried
<1>1. pod \in [Pods -> PodStates] /\ pod[p] \in PodStates
  BY DEF IInv, TypeOK
<1>2. /\ pod' \in [Pods -> PodStates]
      /\ \A q \in Pods : /\ pod'[q].pc = pod[q].pc /\ pod'[q].todo = pod[q].todo
                         /\ pod'[q].stale = pod[q].stale
                         /\ pod'[q].sibling = pod[q].sibling
  BY <1>1 DEF IntervalElapses, PodStates
<1>3. PodsFit' /\ FindsCarried /\ ReplacesCarried
  BY <1>2 DEF IInv, PodsFit, FindsCarried, Holds, ReplacesCarried
<1>4. TypeOK'
  BY <1>2 DEF IntervalElapses, IInv, TypeOK
<1> QED
  BY <1>3, <1>4, SameDocs, FewerFits, CarryKeeps DEF IntervalElapses

LEMMA StaleFound ==
    ASSUME IInv, NEW p \in Pods, NEW s \in Stages, NEW f \in Stale(p, s)
    PROVE  f \in Found /\ FoundNow(p, f) /\ f.key \in Collections[s]
<1>1. PICK y \in Collections[s] \X Versions :
        /\ y[2] < Version[p]
        /\ docs[y[1]][y[2]] # None
        /\ f = [key |-> y[1], version |-> y[2], doc |-> docs[y[1]][y[2]]]
  BY DEF Stale
<1>2. y[1] \in Keys /\ y[2] \in Versions
  BY StagesKnown
<1>3. docs[y[1]][y[2]] \in Docs
  BY <1>1, <1>2, StoredCopy DEF IInv
<1> QED
  BY <1>1, <1>2, <1>3 DEF Found, FoundNow

LEMMA FindStaleKeeps ==
    ASSUME IInv, NEW p \in Pods, FindStale(p)
    PROVE  IInv' /\ FindsCarried
<1>1. pod \in [Pods -> PodStates] /\ pod[p] \in PodStates
  BY DEF IInv, TypeOK
<1>2. CASE pod' = [pod EXCEPT ![p] = NextCollection(p, FALSE)]
  <2>1. GoesOn(p, NextCollection(p, FALSE))
    BY NextCollectionFits, BetweenGoesOn
  <2> QED
    BY <1>2, <2>1, SameDocs, Types, PassStep DEF FindStale
<1>3. CASE \E batch \in Batches(p, Stale(p, pod[p].stage)) :
             pod' = [pod EXCEPT ![p].pc = "pick", ![p].todo = batch,
                                ![p].truncated = Full(p, batch)]
  <2>1. PICK batch \in Batches(p, Stale(p, pod[p].stage)) :
             pod' = [pod EXCEPT ![p].pc = "pick", ![p].todo = batch,
                                ![p].truncated = Full(p, batch)]
    BY <1>3
  <2>2. batch \subseteq Stale(p, pod[p].stage)
    BY DEF Batches
  <2>3. batch \in SUBSET Found /\ \A f \in batch : FoundNow(p, f)
    BY <2>2, StaleFound, PodStateFields
  <2> DEFINE full == Full(p, batch)
             r == [pod[p] EXCEPT !.pc = "pick", !.todo = batch, !.truncated = full]
  <2>4. full \in BOOLEAN
    BY DEF Full
  <2> HIDE DEF full
  <2>5. r \in PodStates /\ r.pc = "pick" /\ r.todo = batch /\ r.stale = pod[p].stale
    BY <1>1, <2>3, <2>4 DEF PodStates
  <2>6. pod' = [pod EXCEPT ![p].pc = "pick", ![p].todo = batch, ![p].truncated = full]
    BY <2>1 DEF full
  <2>7. pod' = [pod EXCEPT ![p] = r]
    BY <1>1, <2>6
  <2>8. GoesOn(p, r)
    BY <2>3, <2>5 DEF GoesOn, Holds, Holding
  <2> HIDE DEF r
  <2> QED
    BY <2>7, <2>8, SameDocs, Types, PassStep DEF FindStale
<1> QED
  BY <1>2, <1>3 DEF FindStale

LEMMA AutoSet ==
    ASSUME NEW r, NEW rest, Between(r, rest), NEW auto \in BOOLEAN
    PROVE  Between([r EXCEPT !.auto = auto], rest)
BY DEF Between, PodStates

LEMMA SkipKeeps ==
    ASSUME IInv, NEW p \in Pods, NEW f \in Found, Holds(p, f),
           NEW rest \in SUBSET pod[p].todo, Skip(p, f, Continuing(p, rest)),
           UNCHANGED <<docs, clock, edits, failures, raced>>
    PROVE  IInv' /\ FindsCarried
<1> DEFINE ids  == skipped[p] \cup {<<f.key, f.doc.id>>}
           next == Continuing(p, rest)
           auto == next.auto /\ Cardinality(ids) <= MaxSkipped
           r    == [next EXCEPT !.auto = auto]
<1>1. Between(next, rest)
  BY ContinuingFits, PodStateFields
<1>2. auto \in BOOLEAN
  BY <1>1 DEF Between, PodStates
<1>3. pod' = [pod EXCEPT ![p] = r] /\ skipped' = [skipped EXCEPT ![p] = ids]
  BY Zenon DEF Skip
<1>4. ids \in SUBSET (Keys \X Stamps)
  <2>1. f.key \in Keys /\ f.doc.id \in Stamps
    BY FoundCopy, FieldsOfDocs
  <2> QED
    BY <2>1, Types
<1>5. skipped' \in [Pods -> SUBSET (Keys \X Stamps)]
  <2> HIDE DEF ids
  <2> QED
    BY <1>3, <1>4, Types
<1> HIDE DEF auto, next
<1>6. Between(r, rest)
  BY <1>1, <1>2, AutoSet
<1>7. GoesOn(p, r)
  BY <1>6, BetweenGoesOn DEF Holds
<1> HIDE DEF r, ids
<1> QED
  BY <1>3, <1>5, <1>7, SameDocs, Types, PassStep

LEMMA ReconcilingGoesOn ==
    ASSUME IInv, NEW p \in Pods, NEW f \in Found, Holds(p, f),
           docs[f.key][Version[p]] # None
    PROVE  GoesOn(p, Reconciling(p, f, docs[f.key][Version[p]]))
<1> DEFINE d == docs[f.key][Version[p]]
           r == Reconciling(p, f, d)
<1>1. pod[p] \in PodStates
  BY PodStateFields
<1>2. d \in Docs /\ d.id \in Stamps
  BY FoundCopy, StoredCopy, VersionsKnown, FieldsOfDocs DEF IInv
<1>3. /\ r \in PodStates
      /\ r.pc \in {"replace", "delete"}
      /\ r.pc = "replace" => Later(f.doc.date, d.date)
      /\ r.todo = pod[p].todo \ {f} /\ r.stale = f /\ r.sibling = d.id
  <2> HIDE DEF d
  <2> QED
    BY <1>1, <1>2 DEF Reconciling, PodStates
<1>4. r.pc = "replace" => Chooses(p, r)
  <2> HIDE DEF r
  <2> QED
    BY <1>3 DEF Chooses
<1> HIDE DEF r
<1> QED
  BY <1>3, <1>4 DEF GoesOn, Holds, Holding, r

LEMMA PickDocKeeps ==
    ASSUME IInv, NEW p \in Pods, PickDoc(p)
    PROVE  IInv' /\ FindsCarried
<1>1. pod \in [Pods -> PodStates] /\ pod[p] \in PodStates
  BY DEF IInv, TypeOK
<1>2. PICK f \in pod[p].todo :
        IF IsBroken(f) THEN Skip(p, f, Continuing(p, pod[p].todo \ {f}))
        ELSE /\ UNCHANGED skipped
             /\ pod' = [pod EXCEPT ![p] =
                   IF docs[f.key][Version[p]] # None
                   THEN Reconciling(p, f, docs[f.key][Version[p]])
                   ELSE [pod[p] EXCEPT !.pc = "update", !.todo = @ \ {f}, !.stale = f]]
  BY DEF PickDoc
<1>3. f \in Found /\ Holds(p, f)
  BY PodStateFields DEF Holds
<1>4. CASE IsBroken(f)
  BY <1>2, <1>3, <1>4, SkipKeeps DEF PickDoc
<1>5. CASE ~IsBroken(f) /\ docs[f.key][Version[p]] # None
  <2>1. GoesOn(p, Reconciling(p, f, docs[f.key][Version[p]]))
    BY <1>3, <1>5, ReconcilingGoesOn
  <2> QED
    BY <1>2, <1>5, <2>1, SameDocs, Types, PassStep DEF PickDoc
<1>6. CASE ~IsBroken(f) /\ docs[f.key][Version[p]] = None
  <2> DEFINE r == [pod[p] EXCEPT !.pc = "update", !.todo = @ \ {f}, !.stale = f]
  <2>1. r \in PodStates /\ r.pc = "update" /\ r.todo \subseteq pod[p].todo /\ r.stale = f
    BY <1>1, <1>3 DEF PodStates
  <2>2. GoesOn(p, r)
    BY <1>3, <2>1 DEF GoesOn, Holds, Holding
  <2>3. pod' = [pod EXCEPT ![p] = r]
    BY <1>2, <1>6
  <2> HIDE DEF r
  <2> QED
    BY <1>2, <1>6, <2>2, <2>3, SameDocs, Types, PassStep DEF PickDoc
<1> QED
  BY <1>4, <1>5, <1>6

LEMMA MigratedFits ==
    ASSUME NEW doc \in Docs, NEW read \in Docs, NEW v \in Versions
    PROVE  /\ Migrated(doc, read, v) \in Docs
           /\ Same(Migrated(doc, read, v), doc)
           /\ v = Latest => Migrated(doc, read, v).digest = read.text
BY DEF Migrated, Docs, Same

(* A document is moved: the digest is that of the text read, and if the    *)
(* text has changed since it is not the one of the insertion.              *)
LEMMA MoveKeeps ==
    ASSUME IInv, NEW p \in Pods, NEW f \in Found, Holds(p, f),
           StillThere(f), docs[f.key][Version[p]] = None,
           docs' = [docs EXCEPT ![f.key][f.version] = None,
                      ![f.key][Version[p]] =
                          Migrated(docs[f.key][f.version], f.doc, Version[p])]
    PROVE  /\ docs' \in [Keys -> [Versions -> Docs \cup {None}]]
           /\ DocsCarried /\ DigestFits'
<1> DEFINE k == f.key
           w == f.version
           v == Version[p]
           d == docs[k][w]
           x == Migrated(d, f.doc, v)
<1>1. k \in Keys /\ w \in Versions /\ f.doc \in Docs /\ f.doc \in Copies(k)
  BY FoundCopy
<1>2. w < v /\ w # v /\ v \in Versions
  BY <1>1, VersionsKnown DEF IInv, TextsMoveUp
<1>3. d # None /\ d \in Docs /\ d.id = f.doc.id
  BY <1>1, StoredCopy DEF StillThere, IInv
<1>4. x \in Docs /\ Same(x, d) /\ (v = Latest => x.digest = f.doc.text)
  <2>1. /\ Migrated(d, f.doc, v) \in Docs
        /\ Same(Migrated(d, f.doc, v), d)
    BY <1>1, <1>2, <1>3, MigratedFits
  <2>2. v = Latest => Migrated(d, f.doc, v).digest = f.doc.text
    BY <1>1, <1>2, <1>3 DEF Migrated, Docs
  <2> QED
    BY <2>1, <2>2
<1> HIDE DEF x
<1>5. /\ docs' \in [Keys -> [Versions -> Docs \cup {None}]]
      /\ docs'[k][w] = None /\ docs'[k][v] = x
      /\ \A l \in Keys, y \in Versions :
           l # k \/ y \notin {v, w} => docs'[l][y] = docs[l][y]
  <2>1. docs \in [Keys -> [Versions -> Docs \cup {None}]]
    BY Types
  <2>2. docs' = [docs EXCEPT ![k][w] = None, ![k][v] = x]
    BY DEF x
  <2> QED
    BY <1>1, <1>2, <1>4, <2>1, <2>2
<1>6. DocMoves(k, w, v)
  BY <1>2, <1>3, <1>4, <1>5 DEF DocMoves
<1>7. DigestFits'
  <2> SUFFICES ASSUME NEW l \in Keys, docs'[l][Latest] # None
               PROVE  LET e == docs'[l][Latest] IN
                      e.digest = e.text \/ (e.text # e.id /\ e.text[1] < Latest)
    BY DEF DigestFits
  <2>1. CASE l = k /\ v = Latest
    <3>1. d.text[1] <= w
      BY <1>1, <1>3 DEF IInv, TextsMoveUp
    <3>2. d.text[1] < Latest
      BY SMTT(30), <1>1, <1>2, <1>3, <2>1, <3>1, FieldsOfDocs, VersionsKnown
    <3>3. d.text # f.doc.text => d.text # d.id
      BY <1>1, <1>3 DEF IInv, StaysChanged
    <3>4. docs'[l][Latest] = x
      BY <1>5, <2>1
    <3>5. x.digest = x.text \/ (x.text # x.id /\ x.text[1] < Latest)
      <4> HIDE DEF d, v
      <4> QED
        BY <1>4, <2>1, <3>2, <3>3 DEF Same
    <3> QED
      BY <3>4, <3>5
  <2>2. CASE ~(l = k /\ v = Latest)
    <3>1. Latest # w
      BY <1>1, <1>2, VersionsKnown
    <3>2. docs'[l][Latest] = docs[l][Latest]
      BY <1>5, <2>2, <3>1, VersionsKnown
    <3> QED
      BY <3>2 DEF IInv, DigestFits
  <2> QED
    BY <2>1, <2>2
<1> QED
  BY <1>1, <1>2, <1>5, <1>6, <1>7 DEF DocsCarried

LEMMA UpdateDocKeeps ==
    ASSUME IInv, NEW p \in Pods, UpdateDoc(p)
    PROVE  IInv' /\ FindsCarried
<1> DEFINE f == pod[p].stale
           v == Version[p]
           next == Continuing(p, pod[p].todo)
<1>1. pod \in [Pods -> PodStates] /\ pod[p] \in PodStates /\ pod[p].pc = "update"
  BY DEF IInv, TypeOK, UpdateDoc
<1>2. f \in Found /\ Holds(p, f)
  BY <1>1 DEF IInv, PodsFit, Holding, Holds
<1>3. GoesOn(p, next)
  BY ContinuingFits, PodStateFields, BetweenGoesOn DEF Holds
<1>4. CASE StillThere(f) /\ docs[f.key][v] # None
  <2> DEFINE r == [pod[p] EXCEPT !.pc = "refind"]
  <2>1. r \in PodStates /\ r.pc = "refind" /\ r.todo = pod[p].todo /\ r.stale = f
    BY <1>1 DEF PodStates
  <2>2. GoesOn(p, r)
    BY <1>2, <2>1 DEF GoesOn, Holds, Holding
  <2>3. pod' = [pod EXCEPT ![p] = r] /\ docs' = docs
    BY <1>1, <1>4 DEF UpdateDoc
  <2> HIDE DEF r
  <2> QED
    BY <2>2, <2>3, SameDocs, Types, PassStep DEF UpdateDoc
<1>5. CASE StillThere(f) /\ docs[f.key][v] = None
  <2>1. /\ docs' = [docs EXCEPT ![f.key][f.version] = None,
                      ![f.key][v] = Migrated(docs[f.key][f.version], f.doc, v)]
        /\ pod' = [pod EXCEPT ![p] = next]
    BY <1>5 DEF UpdateDoc
  <2>2. /\ docs' \in [Keys -> [Versions -> Docs \cup {None}]]
        /\ DocsCarried /\ DigestFits'
    BY <1>2, <1>5, <2>1, MoveKeeps
  <2>3. pod' \in [Pods -> PodStates] /\ PodsFit' /\ FindsCarried /\ ReplacesCarried
    BY <1>3, <2>1, PodGoesOn
  <2>4. TypeOK'
    BY <2>2, <2>3, Types DEF TypeOK, UpdateDoc
  <2> QED
    BY <2>2, <2>3, <2>4, CarryKeeps DEF UpdateDoc
<1>6. CASE ~StillThere(f)
  <2>1. pod' = [pod EXCEPT ![p] = next] /\ docs' = docs
    BY <1>6 DEF UpdateDoc
  <2> HIDE DEF next
  <2> QED
    BY <1>3, <2>1, SameDocs, Types, PassStep DEF UpdateDoc
<1> QED
  BY <1>4, <1>5, <1>6

LEMMA RefindKeeps ==
    ASSUME IInv, NEW p \in Pods, Refind(p)
    PROVE  IInv' /\ FindsCarried
<1> DEFINE f == pod[p].stale
<1>1. f \in Found /\ Holds(p, f) /\ f \in Found
  BY DEF IInv, PodsFit, Holding, Holds, Refind
<1>2. CASE docs[f.key][Version[p]] = None
  <2>1. Skip(p, f, Continuing(p, pod[p].todo))
    BY <1>2 DEF Refind
  <2> QED
    BY <1>1, <2>1, SkipKeeps DEF Refind
<1>3. CASE docs[f.key][Version[p]] # None
  <2>1. GoesOn(p, Reconciling(p, f, docs[f.key][Version[p]]))
    BY <1>1, <1>3, ReconcilingGoesOn
  <2>2. pod' = [pod EXCEPT ![p] = Reconciling(p, f, docs[f.key][Version[p]])]
    BY <1>3 DEF Refind
  <2> QED
    BY <1>3, <2>1, <2>2, SameDocs, Types, PassStep DEF Refind
<1> QED
  BY <1>2, <1>3

LEMMA DeleteStaleKeeps ==
    ASSUME IInv, NEW p \in Pods, DeleteStale(p)
    PROVE  IInv' /\ FindsCarried
<1> DEFINE f == pod[p].stale
           next == Continuing(p, pod[p].todo)
<1>1. f \in Found /\ f.key \in Keys /\ f.version \in Versions
  BY DEF IInv, PodsFit, Holding, DeleteStale, Found
<1>2. GoesOn(p, next) /\ pod' = [pod EXCEPT ![p] = next]
  BY ContinuingFits, PodStateFields, BetweenGoesOn DEF Holds, DeleteStale
<1>3. docs' \in [Keys -> [Versions -> Docs \cup {None}]] /\ DocsFewer
  BY <1>1, PutNone, SameDocs, Types DEF DeleteStale
<1> HIDE DEF next
<1> QED
  BY <1>2, <1>3, Types, PassStep DEF DeleteStale

(***************************************************************************)
(* Steps that make a new copy                                              *)
(***************************************************************************)
NewDoc(k, v, x) ==
    /\ docs'[k][v] = x
    /\ \A l \in Keys, y \in Versions : l # k \/ y # v => docs'[l][y] = docs[l][y]

LEMMA NewCopy ==
    ASSUME IInv, NEW k \in Keys, NEW v \in Versions, NEW x \in Docs, NewDoc(k, v, x),
           \A q \in Pods, f \in Found : Holds(q, f)' => Holds(q, f),
           NEW l \in Keys, NEW d \in Copies(l)'
    PROVE  (l = k /\ d = x) \/ d \in Copies(l)
BY DEF Copies, NewDoc

LEMMA ReplaceKeeps ==
    ASSUME IInv, NEW p \in Pods, Replace(p)
    PROVE  IInv' /\ FindsCarried
<1> DEFINE f   == pod[p].stale
           id  == pod[p].sibling
           k   == f.key
           v   == Version[p]
           now == docs[k][v]
           x   == [Migrated(f.doc, f.doc, v) EXCEPT !.id = id]
           r   == [pod[p] EXCEPT !.pc = "delete"]
<1>1. pod \in [Pods -> PodStates] /\ pod[p] \in PodStates /\ pod[p].pc = "replace"
  BY DEF IInv, TypeOK, Replace
<1>2. f \in Found /\ Holds(p, f) /\ id \in Stamps /\ Replacing(f, id)
  BY <1>1 DEF IInv, PodsFit, Holding, Holds, ReplacesMoveOn
<1>3. /\ k \in Keys /\ v \in Versions /\ f.doc \in Docs /\ f.doc \in Copies(k)
      /\ f.version < v /\ f.doc.text[1] <= f.version /\ f.version \in Versions
  BY <1>2, FoundCopy, VersionsKnown DEF IInv, TextsMoveUp
<1>4. r \in PodStates /\ r.pc = "delete" /\ r.todo = pod[p].todo /\ r.stale = f
  BY <1>1 DEF PodStates
<1>5. GoesOn(p, r)
  BY <1>2, <1>4 DEF GoesOn, Holds, Holding
<1>6. pod' = [pod EXCEPT ![p] = r]
  BY <1>1 DEF Replace
<1> HIDE DEF r
<1>7. CASE ~(now # None /\ now.id = id)
  <2>1. docs' = docs
    BY <1>7 DEF Replace
  <2> QED
    BY <1>5, <1>6, <2>1, SameDocs, Types, PassStep DEF Replace
<1>8. CASE now # None /\ now.id = id
  <2>1. now \in Docs /\ now \in Copies(k)
    BY <1>3, <1>8, StoredCopy DEF IInv
  <2>2. /\ x \in Docs /\ x.id = id /\ x.text = f.doc.text /\ x.date = f.doc.date
        /\ v = Latest => x.digest = x.text
    <3>1. /\ Migrated(f.doc, f.doc, v) \in Docs
          /\ Same(Migrated(f.doc, f.doc, v), f.doc)
      BY <1>3, MigratedFits
    <3>2. v = Latest => Migrated(f.doc, f.doc, v).digest = f.doc.text
      BY <1>3 DEF Migrated, Docs
    <3> QED
      BY <1>2, <3>1, <3>2 DEF Docs, Same
  <2>3. Put(k, v, x)
    BY <1>8 DEF Replace
  <2> HIDE DEF x, f, id, now, v
  <2>4. docs' \in [Keys -> [Versions -> Docs \cup {None}]] /\ NewDoc(k, v, x)
    BY <1>3, <2>2, <2>3, PutOne DEF NewDoc
  <2> HIDE DEF k
  <2>5. pod' \in [Pods -> PodStates] /\ PodsFit'
    BY <1>5, <1>6, PodGoesOn
  <2>6. /\ \A q \in Pods : q # p => pod'[q] = pod[q]
        /\ pod'[p].pc = "delete" /\ pod'[p].todo = pod[p].todo /\ pod'[p].stale = pod[p].stale
    BY <1>1, <1>4, <1>6 DEF r, f
  <2>7. \A q \in Pods, g \in Found : Holds(q, g)' => Holds(q, g)
    BY <2>6 DEF Holds
  <2>8. \A l \in Keys : \A d \in Copies(l)' : (l = k /\ d = x) \/ d \in Copies(l)
    BY <1>3, <2>2, <2>4, <2>7, NewCopy
  <2>9. TypeOK' /\ edits' = edits /\ clock' = clock
    BY <2>4, <2>5, Types DEF Replace, TypeOK
  <2>10. StampsKnown'
    <3>1. /\ x.id[2] <= edits /\ x.text[2] <= edits
          /\ x.date # None => x.date <= clock
      BY <1>2, <1>3, <2>2 DEF IInv, StampsKnown, Replacing
    <3> QED
      BY <2>8, <2>9, <3>1 DEF IInv, StampsKnown
  <2>11. TextsMoveUp'
    <3>1. x.text[1] <= v
      <4>1. f.doc.text[1] \in Nat /\ f.version \in Nat /\ v \in Nat
        BY <1>3, FieldsOfDocs, VersionsKnown
      <4>2. x.text[1] = f.doc.text[1]
        BY <2>2
      <4> QED
        BY <1>3, <4>1, <4>2
    <3> QED
      BY <2>4, <2>7, <3>1 DEF IInv, TextsMoveUp, NewDoc
  <2>12. IdsApart'
    <3>1. \A l \in Keys, y \in Versions : docs'[l][y] # None =>
            docs[l][y] # None /\ docs'[l][y].id = docs[l][y].id
      BY <1>8, <2>2, <2>4 DEF NewDoc, now
    <3> QED
      BY <3>1 DEF IInv, IdsApart
  <2>13. DatesMoveOn'
    <3> SUFFICES ASSUME NEW l \in Keys, NEW d \in Copies(l)', NEW e \in Copies(l)',
                        d.id = e.text
                 PROVE  NotBefore(d, e)
      BY DEF DatesMoveOn, NotBefore
    <3>1. CASE l = k /\ d = x
      <4>1. e \in Copies(k)
        BY <1>2, <2>2, <2>8, <3>1 DEF Replacing
      <4>2. NotBefore(f.doc, e)
        BY <1>2, <2>2, <3>1, <4>1 DEF Replacing, k
      <4> QED
        BY <2>2, <3>1, <4>2 DEF NotBefore
    <3>2. CASE d \in Copies(l) /\ l = k /\ e = x
      <4>1. NotBefore(d, f.doc)
        BY <1>3, <2>2, <3>2 DEF IInv, DatesMoveOn
      <4> QED
        BY <2>2, <3>2, <4>1 DEF NotBefore
    <3>3. CASE d \in Copies(l) /\ e \in Copies(l)
      BY <3>3 DEF IInv, DatesMoveOn
    <3> QED
      BY <2>8, <3>1, <3>2, <3>3
  <2>14. ReplacesMoveOn'
    <3> SUFFICES ASSUME NEW q \in Pods, NEW g \in Found, NEW i \in Stamps,
                        pod'[q].pc = "replace", pod'[q].stale = g, pod'[q].sibling = i
                 PROVE  /\ i[2] <= edits' /\ g.doc.text # i
                        /\ \A e \in Copies(g.key)' : e.text = i => NotBefore(g.doc, e)
      BY DEF ReplacesMoveOn, Replacing, NotBefore
    <3>1. Replacing(g, i)
      BY <2>6 DEF IInv, ReplacesMoveOn
    <3>2. g.key \in Keys
      BY DEF Found
    <3>3. ASSUME NEW e \in Copies(g.key)', e.text = i
          PROVE  NotBefore(g.doc, e)
      <4>1. CASE g.key = k /\ e = x
        <5>1. NotBefore(g.doc, f.doc)
          BY <1>3, <2>2, <3>1, <3>3, <4>1 DEF Replacing
        <5> QED
          BY <2>2, <4>1, <5>1 DEF NotBefore
      <4>2. CASE e \in Copies(g.key)
        BY <3>1, <3>3, <4>2 DEF Replacing
      <4> QED
        BY <2>8, <3>2, <4>1, <4>2
    <3> QED
      BY <2>9, <3>1, <3>3 DEF Replacing
  <2>15. StaysChanged'
    <3> SUFFICES ASSUME NEW l \in Keys, NEW y \in Versions, NEW c \in Copies(l)',
                        docs'[l][y] # None, docs'[l][y].id = c.id, c.text # c.id
                 PROVE  docs'[l][y].text # c.id
      BY DEF StaysChanged
    <3>1. CASE l = k /\ y = v
      BY <1>2, <2>2, <2>4, <3>1 DEF NewDoc, Replacing
    <3>2. CASE ~(l = k /\ y = v)
      <4>1. docs'[l][y] = docs[l][y]
        BY <2>4, <3>2 DEF NewDoc
      <4>2. CASE l = k /\ c = x
        BY <1>3, <1>8, <2>2, <3>2, <4>1, <4>2 DEF IInv, IdsApart, now
      <4>3. CASE c \in Copies(l)
        BY <4>1, <4>3 DEF IInv, StaysChanged
      <4> QED
        BY <2>8, <4>2, <4>3
    <3> QED
      BY <3>1, <3>2
  <2>16. DigestFits'
    BY <2>2, <2>4, VersionsKnown DEF IInv, DigestFits, NewDoc
  <2>17. FindsCarried
    BY <2>7 DEF FindsCarried
  <2> QED
    BY <2>5, <2>9, <2>10, <2>11, <2>12, <2>13, <2>14, <2>15, <2>16, <2>17 DEF IInv
<1> QED
  BY <1>7, <1>8

LEMMA SaveKeeps ==
    ASSUME IInv, NEW p \in Pods, NEW k \in Keys, Save(p, k)
    PROVE  IInv'
<1> DEFINE v     == Version[p]
           stamp == <<v, edits + 1>>
           old   == docs[k][v]
<1>1. v \in Versions /\ edits \in Nat /\ edits < MaxEdits /\ clock \in Nat
  BY VersionsKnown, Types DEF Save
<1>2. stamp \in Stamps /\ stamp[1] = v /\ stamp[2] = edits + 1
  BY <1>1 DEF Stamps
<1>3. old # None => old \in Docs /\ old \in Copies(k) /\ old.id \in Stamps
  BY <1>1, StoredCopy, FieldsOfDocs DEF IInv
<1>4. PICK now \in {clock, clock + 1} :
        /\ clock' = now
        /\ Put(k, v, [id     |-> IF old = None THEN stamp ELSE old.id,
                      text   |-> stamp,
                      date   |-> now,
                      digest |-> IF v = Latest THEN stamp ELSE None])
  BY DEF Save
<1> DEFINE id == IF old = None THEN stamp ELSE old.id
           x  == [id |-> id, text |-> stamp, date |-> now,
                  digest |-> IF v = Latest THEN stamp ELSE None]
<1> HIDE DEF stamp, old
<1>5. /\ id \in Stamps
      /\ old = None => id = stamp
      /\ old # None => id = old.id
  BY <1>2, <1>3
<1>6. now \in Nat /\ clock <= now
  BY <1>1
<1> HIDE DEF id
<1>7. /\ x \in Docs /\ x.id = id /\ x.text = stamp /\ x.date = now
      /\ v = Latest => x.digest = x.text
  BY <1>2, <1>5, <1>6 DEF Docs
<1>8. Put(k, v, x)
  BY <1>4 DEF id
<1> HIDE DEF x, v
<1>9. docs' \in [Keys -> [Versions -> Docs \cup {None}]] /\ NewDoc(k, v, x)
  BY <1>1, <1>7, <1>8, PutOne DEF NewDoc
<1>10. pod' = pod /\ edits' = edits + 1 /\ clock' = now
  BY <1>4 DEF Save
<1>11. TypeOK'
  BY <1>1, <1>6, <1>9, <1>10, Types DEF Save, IInv, TypeOK
<1>12. PodsFit' /\ \A q \in Pods, g \in Found : Holds(q, g)' => Holds(q, g)
  BY <1>10 DEF IInv, PodsFit, Holds
<1>13. \A l \in Keys : \A d \in Copies(l)' : (l = k /\ d = x) \/ d \in Copies(l)
  BY <1>1, <1>7, <1>9, <1>12, NewCopy
<1>14. \A l \in Keys : \A d \in Copies(l) :
         /\ d \in Docs /\ d.id[2] <= edits /\ d.text[2] <= edits
         /\ d.id # stamp /\ d.text # stamp
         /\ d.date # None => d.date \in Nat /\ d.date <= clock
  <2> SUFFICES ASSUME NEW l \in Keys, NEW d \in Copies(l)
               PROVE  /\ d \in Docs /\ d.id[2] <= edits /\ d.text[2] <= edits
                      /\ d.id # stamp /\ d.text # stamp
                      /\ d.date # None => d.date \in Nat /\ d.date <= clock
    OBVIOUS
  <2>1. d \in Docs
    BY DEF Copies
  <2>2. /\ d.id[2] <= edits /\ d.text[2] <= edits
        /\ d.date # None => d.date <= clock
    BY DEF IInv, StampsKnown
  <2>3. d.id[2] \in Nat /\ d.text[2] \in Nat
    BY <2>1, FieldsOfDocs
  <2>4. d.id # stamp /\ d.text # stamp
    BY <1>1, <1>2, <2>2, <2>3
  <2> QED
    BY <2>1, <2>2, <2>4, FieldsOfDocs
<1>15. StampsKnown'
  <2>1. /\ x.id[2] <= edits + 1 /\ x.text[2] <= edits + 1 /\ x.date <= now
    <3>1. id[2] \in Nat /\ id[2] <= edits + 1
      BY <1>1, <1>2, <1>3, <1>5, <1>14, StampNumbers
    <3> QED
      BY <1>1, <1>2, <1>6, <1>7, <3>1
  <2>2. ASSUME NEW l \in Keys, NEW d \in Copies(l)
        PROVE  /\ d.id[2] <= edits + 1 /\ d.text[2] <= edits + 1
               /\ d.date # None => d.date <= now
    BY SMTT(30), <1>1, <1>6, <1>14, FieldsOfDocs
  <2> QED
    BY <1>10, <1>13, <2>1, <2>2 DEF StampsKnown
<1>16. TextsMoveUp'
  <2>1. x.text[1] <= v
    BY <1>1, <1>2, <1>7, VersionsKnown
  <2> QED
    BY <1>9, <1>12, <2>1 DEF IInv, TextsMoveUp, NewDoc
<1>17. \A y \in Versions : y # v /\ docs[k][y] # None => docs[k][y].id # id
  <2> SUFFICES ASSUME NEW y \in Versions, y # v, docs[k][y] # None
               PROVE  docs[k][y].id # id
    OBVIOUS
  <2>1. docs[k][y] \in Copies(k)
    BY StoredCopy DEF IInv
  <2>2. CASE old = None
    BY <1>5, <1>14, <2>1, <2>2
  <2>3. CASE old # None
    BY <1>1, <1>5, <2>3 DEF IInv, IdsApart, old, v
  <2> QED
    BY <2>2, <2>3
<1>18. IdsApart'
  <2> SUFFICES ASSUME NEW l \in Keys, NEW y \in Versions, NEW w \in Versions,
                      docs'[l][y] # None, docs'[l][w] # None,
                      docs'[l][y].id = docs'[l][w].id
               PROVE  y = w
    BY DEF IdsApart
  <2>1. CASE l # k \/ (y # v /\ w # v)
    BY <1>9, <2>1 DEF IInv, IdsApart, NewDoc
  <2>2. CASE l = k /\ (y = v \/ w = v)
    BY <1>7, <1>9, <1>17, <2>2 DEF NewDoc
  <2> QED
    BY <2>1, <2>2
<1>19. DatesMoveOn'
  <2> SUFFICES ASSUME NEW l \in Keys, NEW d \in Copies(l)', NEW e \in Copies(l)',
                      d.id = e.text
               PROVE  NotBefore(d, e)
    BY DEF DatesMoveOn, NotBefore
  <2>1. CASE d = x
    <3>1. e.date # None => e.date \in Nat /\ e.date <= now
      <4>1. CASE e = x
        BY <1>6, <1>7, <4>1
      <4>2. CASE e \in Copies(l)
        BY <1>1, <1>6, <1>14, <4>2
      <4> QED
        BY <1>13, <4>1, <4>2
    <3> QED
      BY <1>6, <1>7, <2>1, <3>1 DEF NotBefore
  <2>2. CASE d \in Copies(l) /\ e = x
    BY <1>7, <1>14, <2>2
  <2>3. CASE d \in Copies(l) /\ e \in Copies(l)
    BY <2>3 DEF IInv, DatesMoveOn
  <2> QED
    BY <1>13, <2>1, <2>2, <2>3
<1>20. ReplacesMoveOn'
  <2> SUFFICES ASSUME NEW q \in Pods, NEW g \in Found, NEW i \in Stamps,
                      pod'[q].pc = "replace", pod'[q].stale = g, pod'[q].sibling = i
               PROVE  /\ i[2] <= edits' /\ g.doc.text # i
                      /\ \A e \in Copies(g.key)' : e.text = i => NotBefore(g.doc, e)
    BY DEF ReplacesMoveOn, Replacing, NotBefore
  <2>1. Replacing(g, i)
    BY <1>10 DEF IInv, ReplacesMoveOn
  <2>2. g.key \in Keys
    BY DEF Found
  <2>3. i[2] \in Nat /\ i[2] <= edits
    BY <2>1, StampNumbers DEF Replacing
  <2>4. i # stamp
    BY <1>1, <1>2, <2>3
  <2>5. ASSUME NEW e \in Copies(g.key)', e.text = i
        PROVE  NotBefore(g.doc, e)
    <3>1. e \in Copies(g.key)
      BY <1>7, <1>13, <2>2, <2>4, <2>5
    <3> QED
      BY <2>1, <2>5, <3>1 DEF Replacing
  <2> QED
    BY <1>1, <1>10, <2>1, <2>3, <2>5 DEF Replacing
<1>21. StaysChanged'
  <2> SUFFICES ASSUME NEW l \in Keys, NEW y \in Versions, NEW c \in Copies(l)',
                      docs'[l][y] # None, docs'[l][y].id = c.id, c.text # c.id
               PROVE  docs'[l][y].text # c.id
    BY DEF StaysChanged
  <2>1. CASE l = k /\ y = v
    BY <1>7, <1>9, <1>13, <1>14, <2>1 DEF NewDoc
  <2>2. CASE ~(l = k /\ y = v)
    <3>1. docs'[l][y] = docs[l][y]
      BY <1>9, <2>2 DEF NewDoc
    <3>2. CASE l = k /\ c = x
      BY <1>7, <1>17, <2>2, <3>1, <3>2
    <3>3. CASE c \in Copies(l)
      BY <3>1, <3>3 DEF IInv, StaysChanged
    <3> QED
      BY <1>13, <3>2, <3>3
  <2> QED
    BY <2>1, <2>2
<1>22. DigestFits'
  BY <1>7, <1>9, VersionsKnown DEF IInv, DigestFits, NewDoc
<1> QED
  BY <1>11, <1>12, <1>15, <1>16, <1>18, <1>19, <1>20, <1>21, <1>22 DEF IInv

LEMMA RemoveKeeps ==
    ASSUME IInv, NEW p \in Pods, NEW k \in Keys, Remove(p, k)
    PROVE  IInv'
<1>1. /\ docs' \in [Keys -> [Versions -> Docs \cup {None}]]
      /\ DocsFewer
  BY PutNone, VersionsKnown DEF Remove
<1>2. pod' \in [Pods -> PodStates] /\ PodsFit' /\ FindsCarried /\ ReplacesCarried
  BY IdlesOn DEF Remove
<1>3. edits' \in 0..MaxEdits /\ raced' \in SUBSET Keys
  BY Types DEF Remove
<1>4. TypeOK'
  BY <1>1, <1>2, <1>3, Types DEF Remove, TypeOK
<1> QED
  BY <1>1, <1>2, <1>4, FewerFits, CarryKeeps DEF Remove

(***************************************************************************)
(* Passes that end, and restarts                                           *)
(***************************************************************************)
LEMMA EndGoesOn ==
    ASSUME IInv, NEW p \in Pods, NEW r, Between(r, {})
    PROVE  GoesOn(p, r)
BY BetweenGoesOn

LEMMA PassUnauthorizedKeeps ==
    ASSUME IInv, NEW p \in Pods, PassUnauthorized(p)
    PROVE  IInv' /\ FindsCarried
<1> DEFINE e    == Ended(p, FALSE)
           auto == e.auto /\ pod[p].manual
           r    == [e EXCEPT !.auto = auto]
<1>1. Between(e, {})
  BY EndedFits
<1>2. auto \in BOOLEAN
  BY <1>1, PodStateFields DEF Between, PodStates
<1>3. pod' = [pod EXCEPT ![p] = r]
  BY Zenon DEF PassUnauthorized
<1> HIDE DEF auto, e
<1>4. GoesOn(p, r)
  BY <1>1, <1>2, AutoSet, EndGoesOn
<1> HIDE DEF r
<1> QED
  BY <1>3, <1>4, SameDocs, Types, PassStep DEF PassUnauthorized

LEMMA FailsKeeps ==
    ASSUME IInv, NEW p \in Pods, Fails(p)
    PROVE  IInv' /\ FindsCarried
<1>1. CASE PassFails(p)
  <2>1. GoesOn(p, Ended(p, FALSE))
    BY EndedFits, EndGoesOn
  <2>2. failures' \in 0..MaxFailures
    BY <1>1, Types DEF PassFails
  <2> QED
    BY <1>1, <2>1, <2>2, SameDocs, Types, PassStep DEF PassFails
<1>2. CASE PassCancelled(p)
  <2>1. GoesOn(p, Ended(p, pod[p].incomplete))
    BY EndedFits, EndGoesOn, PodStateFields
  <2>2. failures' \in 0..MaxFailures
    BY <1>2, Types DEF PassCancelled
  <2> QED
    BY <1>2, <2>1, <2>2, SameDocs, Types, PassStep DEF PassCancelled
<1>3. CASE Restart(p)
  <2>1. GoesOn(p, Restarted)
    BY RestartedFits, EndGoesOn
  <2>2. failures' \in 0..MaxFailures /\ skipped' \in [Pods -> SUBSET (Keys \X Stamps)]
    BY <1>3, Types DEF Restart
  <2> QED
    BY <1>3, <2>1, <2>2, SameDocs, Types, PassStep DEF Restart
<1> QED
  BY <1>1, <1>2, <1>3 DEF Fails

(***************************************************************************)
(* The invariant, and what follows from it                                 *)
(***************************************************************************)
LEMMA LeftoversFit ==
    ASSUME Init, NEW k \in Keys, NEW v \in Versions
    PROVE  /\ docs[k][v] \in Docs \cup {None}
           /\ docs[k][v] # None =>
                /\ docs[k][v].id = <<v, 0>> /\ docs[k][v].text = <<v, 0>>
                /\ docs[k][v].date \in InitDates
                /\ v = Latest => docs[k][v].digest = <<v, 0>>
<1>1. docs[k][v] \in Leftovers(v)
  BY DEF Init
<1>2. <<v, 0>> \in Stamps
  BY DEF Stamps
<1>3. InitDates \subseteq Nat \cup {None}
  OBVIOUS
<1> QED
  BY <1>1, <1>2, <1>3 DEF Leftovers, Docs

LEMMA InitIInv == Init => IInv
<1> SUFFICES ASSUME Init PROVE IInv
  OBVIOUS
<1>1. docs \in [Keys -> [Versions -> Docs \cup {None}]]
  <2>1. docs \in [Keys -> [Versions -> UNION {Leftovers(v) : v \in Versions}]]
    BY DEF Init
  <2> QED
    BY <2>1, LeftoversFit
<1>2. \A p \in Pods : pod[p] = Restarted
  BY DEF Init
<1>3. TypeOK
  BY <1>1, RestartedFits, VersionsKnown DEF Init, TypeOK
<1>4. PodsFit
  BY <1>2, RestartedFits DEF PodsFit, Between
<1>5. \A p \in Pods, f \in Found : ~Holds(p, f)
  BY <1>2 DEF Holds, Restarted
<1>6. \A k \in Keys : \A d \in Copies(k) :
        /\ d \in Docs
        /\ \E v \in Versions : /\ d = docs[k][v] /\ d.id = <<v, 0>> /\ d.text = <<v, 0>>
                               /\ d.date \in InitDates
  <2> SUFFICES ASSUME NEW k \in Keys, NEW d \in Copies(k)
               PROVE  /\ d \in Docs
                      /\ \E v \in Versions :
                            /\ d = docs[k][v] /\ d.id = <<v, 0>> /\ d.text = <<v, 0>>
                            /\ d.date \in InitDates
    OBVIOUS
  <2>1. d \in Docs /\ \E v \in Versions : docs[k][v] = d
    BY <1>5 DEF Copies
  <2>2. PICK v \in Versions : docs[k][v] = d
    BY <2>1
  <2> QED
    BY <2>1, <2>2, LeftoversFit
<1>7. StampsKnown
  BY <1>6 DEF StampsKnown, Init
<1>8. TextsMoveUp
  BY <1>5, LeftoversFit, VersionsKnown DEF TextsMoveUp
<1>9. IdsApart
  BY LeftoversFit DEF IdsApart
<1>10. DatesMoveOn
  <2> SUFFICES ASSUME NEW k \in Keys, NEW d \in Copies(k), NEW e \in Copies(k), d.id = e.text
               PROVE  NotBefore(d, e)
    BY DEF DatesMoveOn
  <2>1. d = e
    BY <1>6
  <2> QED
    BY <1>6, <2>1, FieldsOfDocs DEF NotBefore
<1>11. ReplacesMoveOn
  BY <1>2 DEF ReplacesMoveOn, Restarted
<1>12. StaysChanged
  BY <1>6 DEF StaysChanged
<1>13. DigestFits
  BY LeftoversFit, VersionsKnown DEF DigestFits
<1> QED
  BY <1>3, <1>4, <1>7, <1>8, <1>9, <1>10, <1>11, <1>12, <1>13 DEF IInv

LEMMA NextIInv == IInv /\ [Next]_vars => IInv'
<1> SUFFICES ASSUME IInv, [Next]_vars PROVE IInv'
  OBVIOUS
<1>1. CASE UNCHANGED vars
  BY <1>1 DEF vars, IInv, TypeOK, PodsFit, StampsKnown, TextsMoveUp, IdsApart, DatesMoveOn,
     ReplacesMoveOn, Replacing, StaysChanged, DigestFits, Copies, Holds, NotBefore
<1>2. ASSUME NEW p \in Pods, NEW k \in Keys, Save(p, k) PROVE IInv'
  BY <1>2, SaveKeeps
<1>3. ASSUME NEW p \in Pods, NEW k \in Keys, Remove(p, k) PROVE IInv'
  BY <1>3, RemoveKeeps
<1>4. ASSUME NEW p \in Pods, BeginPass(p) PROVE IInv'
  BY <1>4, BeginAtKeeps DEF BeginPass
<1>5. ASSUME NEW p \in Pods, BeginManual(p) PROVE IInv'
  BY <1>5, BeginAtKeeps DEF BeginManual
<1>6. ASSUME NEW p \in Pods, IntervalElapses(p) PROVE IInv'
  BY <1>6, IntervalElapsesKeeps
<1>7. ASSUME NEW p \in Pods, Repair(p) PROVE IInv'
  BY <1>7, FindStaleKeeps, PickDocKeeps, UpdateDocKeeps, RefindKeeps, ReplaceKeeps,
     DeleteStaleKeeps, PassUnauthorizedKeeps DEF Repair
<1>8. ASSUME NEW p \in Pods, Fails(p) PROVE IInv'
  BY <1>8, FailsKeeps
<1> QED
  BY <1>1, <1>2, <1>3, <1>4, <1>5, <1>6, <1>7, <1>8 DEF Next

LEMMA SpecIInv == Spec => []IInv
BY InitIInv, NextIInv, PTL DEF Spec

(* The types of the repair's state hold at all times, for any number of    *)
(* pods of any releases.                                                   *)
THEOREM TypeCorrect == Spec => []TypeOK
<1>1. IInv => TypeOK
  BY DEF IInv
<1> QED
  BY <1>1, SpecIInv, PTL

(* Repair writes the digest of the text it moves, whoever else saves,      *)
(* deletes, repairs, fails or restarts meanwhile, unless an older release  *)
(* has changed the document since it was inserted (_repair_collection,     *)
(* migrate_fields).                                                        *)
THEOREM DigestsFit == Spec => []DigestFits
<1>1. IInv => DigestFits
  BY DEF IInv
<1> QED
  BY <1>1, SpecIInv, PTL

-----------------------------------------------------------------------------
(***************************************************************************)
(* What a pass has in hand while one release replaces another: pods are of *)
(* version old or of the newest, and no document is older than old.  Then  *)
(* documents below the newest version only go, and a pass finds the        *)
(* document it has read, or none, unless the identity was edited.          *)
(***************************************************************************)
NoneBetween(old) == \A p \in Pods : Version[p] \in {old, Latest}
NothingOlder(old) == \A k \in Keys, w \in Versions : docs[k][w] # None => old <= w

OneRepairs(old) ==
    /\ old \in Versions
    /\ NoneBetween(old)
    /\ NothingOlder(old)
    /\ \A p \in Pods, f \in Found : Holds(p, f) => old <= f.version

InHand(r, f) == f \in r.todo \/ f = r.stale

(* A pass has documents in hand of one collection only, and skills only if *)
(* nothing was left behind.                                                *)
Tidy(r) ==
    /\ r.pc \in {"idle", "find"} => r.todo = {} /\ r.stale = None
    /\ r.pc = "pick" => r.stale = None
    /\ \A f \in Found : InHand(r, f) => f.key \in Collections[r.stage]
    /\ r.stage = Len(Collections) /\ r.pc \notin {"idle", "find"} => r.incomplete = FALSE
PassesTidy == \A p \in Pods : Tidy(pod[p])

ThereOrGone ==
    \A p \in Pods, f \in Found :
        Holds(p, f) /\ f.key \notin raced => docs[f.key][f.version] \in {f.doc, None}

(* What would be left behind if the pass ended now: documents hidden from  *)
(* the pod that were neither edited nor excluded.                          *)
LeftBehind(p) ==
    {x \in Keys \X Versions :
        /\ x[2] < Version[p]
        /\ docs[x[1]][x[2]] # None
        /\ x[1] \notin raced
        /\ <<x[1], docs[x[1]][x[2]].id>> \notin skipped[p]}

(* Nothing was left behind in the collections a pass has gone through, and *)
(* what is left of the present one is in its hand.                         *)
Through(r, left) ==
    r.pc # "idle" /\ r.incomplete = FALSE =>
        \A x \in left, s \in Stages : s < r.stage => x[1] \notin Collections[s]
Covers(rest, x) == \E f \in Found : f \in rest /\ f.key = x[1] /\ f.version = x[2]
Covered(r, left) ==
    r.pc \notin {"idle", "find"} /\ r.truncated = FALSE =>
        \A x \in left : x[1] \in Collections[r.stage] => Covers(r.todo \cup {r.stale}, x)

PassInv ==
    /\ PassesTidy
    /\ ThereOrGone
    /\ \A p \in Pods : Through(pod[p], LeftBehind(p)) /\ Covered(pod[p], LeftBehind(p))

(* Documents of identities that are not edited only go below the newest    *)
(* version, so what is left behind only gets less.                         *)
OldOnesGo ==
    \A k \in Keys, w \in Versions :
        k \notin raced' /\ w < Latest => docs'[k][w] \in {docs[k][w], None}

LEMMA BelowLatest ==
    ASSUME NEW p \in Pods, NEW w \in Versions, w < Version[p]
    PROVE  w < Latest
<1>1. w \in Nat /\ Version[p] \in Nat /\ Latest \in Nat /\ Version[p] <= Latest
  BY VersionsKnown
<1> QED
  BY <1>1

LEMMA LessLeft ==
    ASSUME IInv, OldOnesGo, raced \subseteq raced', NEW p \in Pods, skipped[p] \subseteq skipped'[p]
    PROVE  LeftBehind(p)' \subseteq LeftBehind(p)
<1> SUFFICES ASSUME NEW k \in Keys, NEW w \in Versions,
                    w < Version[p], docs'[k][w] # None, k \notin raced',
                    <<k, docs'[k][w].id>> \notin skipped'[p]
             PROVE  /\ docs[k][w] # None /\ k \notin raced
                    /\ <<k, docs[k][w].id>> \notin skipped[p]
  BY DEF LeftBehind
<1>1. w < Latest
  BY BelowLatest
<1>2. docs'[k][w] = docs[k][w]
  BY <1>1 DEF OldOnesGo
<1> QED
  BY <1>2

LEMMA ThroughLess ==
    ASSUME NEW r, NEW left, NEW less, less \subseteq left
    PROVE  /\ Through(r, left) => Through(r, less)
           /\ Covered(r, left) => Covered(r, less)
BY DEF Through, Covered

TellsAll(p) ==
    Tidy(pod[p]) /\ Through(pod[p], LeftBehind(p)) /\ Covered(pod[p], LeftBehind(p))

LEMMA PassInvStep ==
    ASSUME IInv, PassInv, FindsCarried, OldOnesGo, raced \subseteq raced',
           \A q \in Pods :
               \/ pod'[q] = pod[q] /\ skipped[q] \subseteq skipped'[q]
               \/ TellsAll(q)'
    PROVE  PassInv'
<1>1. \A q \in Pods : TellsAll(q)'
  <2> SUFFICES ASSUME NEW q \in Pods, pod'[q] = pod[q], skipped[q] \subseteq skipped'[q]
               PROVE  TellsAll(q)'
    OBVIOUS
  <2>1. LeftBehind(q)' \subseteq LeftBehind(q)
    BY LessLeft
  <2>2. Tidy(pod[q]) /\ Through(pod[q], LeftBehind(q)) /\ Covered(pod[q], LeftBehind(q))
    BY DEF PassInv, PassesTidy
  <2>3. Through(pod[q], LeftBehind(q)') /\ Covered(pod[q], LeftBehind(q)')
    BY <2>1, <2>2, ThroughLess
  <2> QED
    BY <2>2, <2>3 DEF TellsAll, Tidy, Through, Covered, InHand, Covers
<1>2. ThereOrGone'
  <2> SUFFICES ASSUME NEW q \in Pods, NEW f \in Found, Holds(q, f)', f.key \notin raced'
               PROVE  docs'[f.key][f.version] \in {f.doc, None}
    BY DEF ThereOrGone
  <2>1. f.key \in Keys /\ f.version \in Versions
    BY DEF Found
  <2>2. f.version < Version[q] /\ docs[f.key][f.version] \in {f.doc, None}
    <3>1. Holds(q, f) \/ FoundNow(q, f)
      BY DEF FindsCarried
    <3>2. CASE Holds(q, f)
      BY <3>2 DEF PassInv, ThereOrGone, IInv, TextsMoveUp
    <3>3. CASE FoundNow(q, f)
      BY <3>3 DEF FoundNow
    <3> QED
      BY <3>1, <3>2, <3>3
  <2>3. f.version < Latest
    BY <2>1, <2>2, BelowLatest
  <2> QED
    BY <2>1, <2>2, <2>3 DEF OldOnesGo
<1> QED
  BY <1>1, <1>2 DEF PassInv, PassesTidy, TellsAll, Tidy, Through, Covered, InHand, Covers

(* The form the step of one pass takes.                                    *)
Tells(r, left) == Tidy(r) /\ Through(r, left) /\ Covered(r, left)

LEMMA OnePassSteps ==
    ASSUME IInv, PassInv, NEW p \in Pods, NEW r, pod' = [pod EXCEPT ![p] = r],
           \A f \in Found : InHand(r, f) => Holds(p, f) \/ FoundNow(p, f),
           OldOnesGo, raced \subseteq raced',
           \A q \in Pods : q # p => skipped[q] \subseteq skipped'[q],
           Tells(r, LeftBehind(p)')
    PROVE  PassInv'
<1>1. pod'[p] = r /\ \A q \in Pods : q # p => pod'[q] = pod[q]
  BY DEF IInv, TypeOK
<1>2. FindsCarried
  BY <1>1 DEF FindsCarried, Holds, InHand
<1>3. TellsAll(p)'
  BY <1>1 DEF TellsAll, Tells, Tidy, Through, Covered, InHand, Covers
<1> QED
  BY <1>1, <1>2, <1>3, PassInvStep

LEMMA GoesOnHas ==
    ASSUME NEW p \in Pods, NEW r, GoesOn(p, r)
    PROVE  \A f \in Found : InHand(r, f) => Holds(p, f) \/ FoundNow(p, f)
BY DEF GoesOn, InHand

LEMMA SameDocsGo == ASSUME docs' = docs PROVE OldOnesGo
BY DEF OldOnesGo

(* A pass that is over tells nothing.                                      *)
LEMMA IdleTells ==
    ASSUME NEW r, NEW left, Between(r, {}), r.pc = "idle"
    PROVE  Tells(r, left)
BY DEF Tells, Tidy, Through, Covered, InHand, Between

LEMMA NextCollectionIs ==
    ASSUME IInv, NEW p \in Pods, NEW truncated \in BOOLEAN, pod[p].stage # Len(Collections)
    PROVE  LET r == NextCollection(p, truncated) IN
           /\ r.pc = "find" /\ r.todo = {} /\ r.stale = None
           /\ r.stage = pod[p].stage + 1
           /\ r.incomplete = FALSE => pod[p].incomplete = FALSE /\ truncated = FALSE
<1> DEFINE incomplete == pod[p].incomplete \/ truncated
<1>1. NextCollection(p, truncated) =
        [pc |-> "find", auto |-> pod[p].auto, due |-> pod[p].due,
         open |-> pod[p].open, manual |-> pod[p].manual,
         stage |-> pod[p].stage + 1, todo |-> {}, truncated |-> FALSE,
         incomplete |-> incomplete, stale |-> None, sibling |-> None]
  BY DEF NextCollection, Ended, Restarted
<1>2. incomplete \in BOOLEAN /\ (incomplete = FALSE => pod[p].incomplete = FALSE /\ truncated = FALSE)
  BY PodStateFields
<1> HIDE DEF incomplete
<1> QED
  BY <1>1, <1>2

LEMMA NextCollectionTells ==
    ASSUME IInv, NEW p \in Pods, NEW truncated \in BOOLEAN, NEW left \in SUBSET (Keys \X Versions),
           Through(pod[p], left), pod[p].pc # "idle",
           pod[p].stage # Len(Collections) /\ truncated = FALSE =>
               \A x \in left : x[1] \notin Collections[pod[p].stage]
    PROVE  Tells(NextCollection(p, truncated), left)
<1>1. CASE pod[p].stage = Len(Collections)
  <2>1. /\ Between(Ended(p, pod[p].incomplete \/ truncated), {})
        /\ Ended(p, pod[p].incomplete \/ truncated).pc = "idle"
    <3>1. (pod[p].incomplete \/ truncated) \in BOOLEAN
      OBVIOUS
    <3> QED
      BY <3>1, EndedFits
  <2>2. NextCollection(p, truncated) = Ended(p, pod[p].incomplete \/ truncated)
    BY <1>1, Zenon DEF NextCollection
  <2> QED
    BY <2>1, <2>2, IdleTells
<1>2. CASE pod[p].stage # Len(Collections)
  <2> DEFINE r == NextCollection(p, truncated)
  <2>1. /\ r.pc = "find" /\ r.todo = {} /\ r.stale = None
        /\ r.stage = pod[p].stage + 1
        /\ r.incomplete = FALSE => pod[p].incomplete = FALSE /\ truncated = FALSE
    BY <1>2, NextCollectionIs
  <2>2. pod[p].stage \in Stages /\ Stages \subseteq Nat
    BY PodStateFields DEF Stages
  <2> HIDE DEF r
  <2>3. Tidy(r) /\ Covered(r, left)
    BY <2>1 DEF Tidy, Covered, InHand
  <2>4. Through(r, left)
    <3> SUFFICES ASSUME r.incomplete = FALSE, NEW x \in left, NEW s \in Stages,
                        s < pod[p].stage + 1
                 PROVE  x[1] \notin Collections[s]
      BY <2>1 DEF Through
    <3>1. pod[p].incomplete = FALSE /\ truncated = FALSE
      BY <2>1
    <3>2. s < pod[p].stage \/ s = pod[p].stage
      <4>1. s \in Nat /\ pod[p].stage \in Nat
        BY <2>2
      <4> QED
        BY <4>1
    <3> QED
      BY <1>2, <3>1, <3>2 DEF Through
  <2> QED
    BY <2>3, <2>4 DEF Tells, r
<1> QED
  BY <1>1, <1>2

LEMMA ContinuingTells ==
    ASSUME IInv, NEW p \in Pods, NEW left \in SUBSET (Keys \X Versions),
           Tidy(pod[p]), Through(pod[p], left), pod[p].pc \notin {"idle", "find"},
           NEW rest \in SUBSET pod[p].todo,
           pod[p].truncated = FALSE =>
               \A x \in left : x[1] \in Collections[pod[p].stage] => Covers(rest, x)
    PROVE  Tells(Continuing(p, rest), left)
<1>1. CASE rest = {}
  <2>1. pod[p].truncated = FALSE => \A x \in left : x[1] \notin Collections[pod[p].stage]
    BY <1>1 DEF Covers
  <2>2. Continuing(p, rest) = NextCollection(p, pod[p].truncated)
    BY <1>1 DEF Continuing
  <2>3. pod[p].truncated \in BOOLEAN
    BY PodStateFields
  <2>4. Tells(NextCollection(p, pod[p].truncated), left)
    BY <2>1, <2>3, NextCollectionTells
  <2> QED
    BY <2>2, <2>4
<1>2. CASE rest # {}
  <2> DEFINE r == Continuing(p, rest)
  <2>1. /\ r.pc = "pick" /\ r.todo = rest /\ r.stale = None /\ r.stage = pod[p].stage
        /\ r.incomplete = pod[p].incomplete /\ r.truncated = pod[p].truncated
    BY <1>2, PodStateFields DEF Continuing, PodStates
  <2>2. rest \subseteq Found
    BY PodStateFields
  <2> HIDE DEF r
  <2>3. Tidy(r)
    BY <2>1, <2>2 DEF Tidy, InHand
  <2>4. Through(r, left)
    BY <2>1 DEF Through
  <2>5. Covered(r, left)
    BY <2>1 DEF Covered, Covers
  <2> QED
    BY <2>3, <2>4, <2>5 DEF Tells, r
<1> QED
  BY <1>1, <1>2

LEMMA TellsLess ==
    ASSUME NEW r, NEW left, NEW less, less \subseteq left, Tells(r, left)
    PROVE  Tells(r, less)
BY ThroughLess DEF Tells

LEMMA PassTells == ASSUME PassInv, NEW p \in Pods PROVE Tells(pod[p], LeftBehind(p))
BY DEF PassInv, PassesTidy, Tells

LEMMA LeftTyped ==
    ASSUME NEW p \in Pods
    PROVE  LeftBehind(p) \in SUBSET (Keys \X Versions)
BY DEF LeftBehind

(* A pass is done with a document once it is not left behind.              *)
LEMMA DoneTells ==
    ASSUME IInv, PassInv, NEW p \in Pods, pod[p].pc \notin {"idle", "find"},
           NEW left \in SUBSET LeftBehind(p), NEW rest \in SUBSET pod[p].todo,
           NEW f \in Found, <<f.key, f.version>> \notin left,
           \A g \in Found : Holds(p, g) => g \in rest \/ g = f
    PROVE  Tells(Continuing(p, rest), left)
<1>1. left \in SUBSET (Keys \X Versions)
  BY LeftTyped
<1>2. Tells(pod[p], left)
  BY PassTells, TellsLess
<1>3. pod[p].truncated = FALSE =>
          \A x \in left : x[1] \in Collections[pod[p].stage] => Covers(rest, x)
  <2> SUFFICES ASSUME pod[p].truncated = FALSE, NEW x \in left,
                      x[1] \in Collections[pod[p].stage]
               PROVE  Covers(rest, x)
    OBVIOUS
  <2>1. PICK g \in Found : /\ g \in pod[p].todo \cup {pod[p].stale}
                           /\ g.key = x[1] /\ g.version = x[2]
    BY <1>2 DEF Tells, Covered, Covers
  <2>2. x = <<x[1], x[2]>>
    BY <1>1
  <2>3. g # f
    BY <2>1, <2>2
  <2> QED
    BY <2>1, <2>3 DEF Covers, Holds
<1> QED
  BY <1>1, <1>2, <1>3, ContinuingTells DEF Tells

(* It goes on with the same documents in hand.                             *)
LEMMA SameHandTells ==
    ASSUME IInv, PassInv, NEW p \in Pods, pod[p].pc \notin {"idle", "find"},
           NEW r, r.pc \in Holding,
           r.stage = pod[p].stage, r.incomplete = pod[p].incomplete,
           r.truncated = pod[p].truncated,
           \A g \in Found : InHand(r, g) <=> Holds(p, g)
    PROVE  Tells(r, LeftBehind(p))
<1>1. Tells(pod[p], LeftBehind(p))
  BY PassTells
<1>2. Tidy(r)
  BY <1>1 DEF Tells, Tidy, Holding, InHand, Holds
<1>3. Through(r, LeftBehind(p))
  BY <1>1 DEF Tells, Through, Holding
<1>4. Covered(r, LeftBehind(p))
  <2>1. \A x : Covers(pod[p].todo \cup {pod[p].stale}, x) => Covers(r.todo \cup {r.stale}, x)
    BY DEF Covers, InHand, Holds
  <2> QED
    BY <1>1, <2>1 DEF Tells, Covered, Holding
<1> QED
  BY <1>2, <1>3, <1>4 DEF Tells

LEMMA SameTells ==
    ASSUME NEW r, NEW s, NEW left, Tells(r, left),
           s.pc = r.pc, s.stage = r.stage, s.todo = r.todo, s.stale = r.stale,
           s.truncated = r.truncated, s.incomplete = r.incomplete
    PROVE  Tells(s, left)
BY DEF Tells, Tidy, Through, Covered, InHand

(* A pass goes on and the documents stay.                                  *)
LEMMA DocsStayTells ==
    ASSUME IInv, PassInv, NEW p \in Pods, NEW r, GoesOn(p, r), pod' = [pod EXCEPT ![p] = r],
           docs' = docs, skipped' = skipped, raced' = raced, Tells(r, LeftBehind(p))
    PROVE  PassInv'
<1>1. LeftBehind(p)' \subseteq LeftBehind(p)
  BY SameDocsGo, LessLeft
<1>2. Tells(r, LeftBehind(p)')
  BY <1>1, TellsLess
<1> QED
  BY <1>2, SameDocsGo, GoesOnHas, OnePassSteps

LEMMA BeginAtTells ==
    ASSUME IInv, PassInv, NEW p \in Pods, NEW manual \in BOOLEAN, BeginAt(p, manual)
    PROVE  PassInv'
<1> DEFINE r == [pod[p] EXCEPT !.pc = "find", !.manual = manual,
                               !.stage = 1, !.incomplete = FALSE]
<1>1. pod \in [Pods -> PodStates] /\ pod[p] \in PodStates
  BY DEF IInv, TypeOK
<1>2. pod' = [pod EXCEPT ![p] = r] /\ docs' = docs /\ skipped' = skipped
  BY <1>1 DEF BeginAt
<1>3. r \in PodStates /\ r.pc = "find" /\ r.stage = 1 /\ r.todo = {} /\ r.stale = None
  <2>1. pod[p].todo = {} /\ pod[p].stale = None
    BY DEF PassInv, PassesTidy, Tidy, BeginAt
  <2> QED
    BY <1>1, <2>1, StagesKnown DEF PodStates
<1>4. GoesOn(p, r)
  BY <1>3 DEF GoesOn, Holding
<1>5. \A left : Tells(r, left)
  <2>1. \A s \in Stages : ~(s < 1)
    BY DEF Stages
  <2> QED
    BY <1>3, <2>1 DEF Tells, Tidy, Through, Covered, InHand
<1> HIDE DEF r
<1>6. CASE raced' = raced
  BY <1>2, <1>4, <1>5, <1>6, DocsStayTells
<1>7. CASE raced' = {} /\ \A q \in Pods : pod[q].pc = "idle"
  <2>1. \A q \in Pods, f \in Found : ~Holds(q, f)'
    BY <1>1, <1>2, <1>3, <1>7 DEF Holds, PassInv, PassesTidy, Tidy
  <2>2. ThereOrGone'
    BY <2>1 DEF ThereOrGone
  <2>3. \A q \in Pods : Tells(pod'[q], LeftBehind(q)')
    <3> SUFFICES ASSUME NEW q \in Pods PROVE Tells(pod'[q], LeftBehind(q)')
      OBVIOUS
    <3>1. CASE q = p
      BY <1>1, <1>2, <1>5, <3>1
    <3>2. CASE q # p
      <4>1. pod'[q] = pod[q] /\ pod[q].pc = "idle" /\ Tidy(pod[q])
        BY <1>1, <1>2, <1>7, <3>2 DEF PassInv, PassesTidy
      <4> QED
        BY <4>1 DEF Tells, Through, Covered
    <3> QED
      BY <3>1, <3>2
  <2> QED
    BY <2>2, <2>3 DEF PassInv, PassesTidy, Tells, Tidy, Through, Covered, InHand, Covers
<1> QED
  BY <1>6, <1>7 DEF BeginAt

LEMMA IntervalElapsesTells ==
    ASSUME IInv, PassInv, NEW p \in Pods, IntervalElapses(p)
    PROVE  PassInv'
<1> DEFINE r == [pod[p] EXCEPT !.due = TRUE]
<1>1. pod \in [Pods -> PodStates] /\ pod[p] \in PodStates
  BY DEF IInv, TypeOK
<1>2. pod' = [pod EXCEPT ![p] = r]
  BY <1>1 DEF IntervalElapses
<1>3. /\ r \in PodStates
      /\ r.pc = pod[p].pc /\ r.stage = pod[p].stage /\ r.todo = pod[p].todo
      /\ r.stale = pod[p].stale /\ r.truncated = pod[p].truncated
      /\ r.incomplete = pod[p].incomplete
  BY <1>1 DEF PodStates
<1> HIDE DEF r
<1>4. LeftBehind(p)' \subseteq LeftBehind(p)
  BY SameDocsGo, LessLeft DEF IntervalElapses
<1>5. Tells(r, LeftBehind(p)')
  <2>1. Tells(pod[p], LeftBehind(p)')
    BY <1>4, PassTells, TellsLess
  <2> QED
    BY <1>3, <2>1, SameTells
<1>6. \A f \in Found : InHand(r, f) => Holds(p, f) \/ FoundNow(p, f)
  BY <1>3 DEF InHand, Holds
<1> QED
  BY <1>2, <1>5, <1>6, SameDocsGo, OnePassSteps DEF IntervalElapses

LEMMA CallTells ==
    ASSUME IInv, PassInv, NEW p \in Pods, NEW k \in Keys, Save(p, k) \/ Remove(p, k)
    PROVE  PassInv'
<1>1. PICK x : Put(k, Version[p], x)
  BY DEF Save, Remove
<1>2. pod' = pod /\ skipped' = skipped /\ raced' = raced \cup {k}
  BY DEF Save, Remove
<1>3. \A l \in Keys, w \in Versions : l # k => docs'[l][w] = docs[l][w]
  BY <1>1, Types DEF Put
<1>4. OldOnesGo
  BY <1>2, <1>3 DEF OldOnesGo
<1>5. FindsCarried
  BY <1>2, IdlesOn
<1> QED
  BY <1>2, <1>4, <1>5, PassInvStep

LEMMA EndedTells ==
    ASSUME IInv, PassInv, NEW p \in Pods, NEW r, Between(r, {}), r.pc = "idle",
           pod' = [pod EXCEPT ![p] = r], docs' = docs, raced' = raced,
           \A q \in Pods : q # p => skipped[q] \subseteq skipped'[q]
    PROVE  PassInv'
BY SameDocsGo, EndGoesOn, GoesOnHas, IdleTells, OnePassSteps

LEMMA FailsTells ==
    ASSUME IInv, PassInv, NEW p \in Pods, Fails(p)
    PROVE  PassInv'
<1>1. CASE PassFails(p)
  BY <1>1, EndedFits, EndedTells DEF PassFails
<1>2. CASE PassCancelled(p)
  BY <1>2, EndedFits, EndedTells, PodStateFields DEF PassCancelled
<1>3. CASE Restart(p)
  BY <1>3, RestartedFits, EndedTells, Types DEF Restart
<1> QED
  BY <1>1, <1>2, <1>3 DEF Fails

LEMMA PassUnauthorizedTells ==
    ASSUME IInv, PassInv, NEW p \in Pods, PassUnauthorized(p)
    PROVE  PassInv'
<1> DEFINE e    == Ended(p, FALSE)
           auto == e.auto /\ pod[p].manual
           r    == [e EXCEPT !.auto = auto]
<1>1. Between(e, {}) /\ e.pc = "idle"
  BY EndedFits
<1>2. auto \in BOOLEAN
  BY <1>1, PodStateFields DEF Between, PodStates
<1>3. pod' = [pod EXCEPT ![p] = r]
  BY Zenon DEF PassUnauthorized
<1> HIDE DEF auto, e
<1>4. Between(r, {}) /\ r.pc = "idle"
  BY SMTT(30), <1>1, <1>2, AutoSet DEF Between, PodStates
<1> HIDE DEF r
<1> QED
  BY <1>3, <1>4, EndedTells DEF PassUnauthorized

(* A batch that is not full holds all the stale documents of a collection. *)
LEMMA WholeBatch ==
    ASSUME IInv, NEW p \in Pods, NEW S, NEW batch \in Batches(p, S), Full(p, batch) = FALSE
    PROVE  batch = S
<1>1. BatchSize \in Nat
  OBVIOUS
<1> QED
  BY <1>1 DEF Batches, Full

LEMMA LeftIsStale ==
    ASSUME IInv, NEW p \in Pods, NEW x \in LeftBehind(p), NEW s \in Stages,
           x[1] \in Collections[s]
    PROVE  /\ [key |-> x[1], version |-> x[2], doc |-> docs[x[1]][x[2]]] \in Stale(p, s)
           /\ Covers(Stale(p, s), x)
<1> DEFINE f == [key |-> x[1], version |-> x[2], doc |-> docs[x[1]][x[2]]]
<1>1. /\ x \in Collections[s] \X Versions
      /\ x[2] < Version[p]
      /\ docs[x[1]][x[2]] # None
      /\ <<x[1], docs[x[1]][x[2]].id>> \notin skipped[p]
  BY DEF LeftBehind
<1>2. f \in Stale(p, s)
  BY <1>1, Zenon DEF Stale
<1>3. f \in Found
  BY <1>2, StaleFound
<1> QED
  BY <1>2, <1>3 DEF Covers

LEMMA FindStaleTells ==
    ASSUME IInv, PassInv, NEW p \in Pods, FindStale(p)
    PROVE  PassInv'
<1> DEFINE s == pod[p].stage
           found == Stale(p, s)
           left == LeftBehind(p)
<1>1. pod \in [Pods -> PodStates] /\ pod[p] \in PodStates /\ s \in Stages
  BY PodStateFields DEF IInv, TypeOK
<1>2. pod[p].pc = "find" /\ docs' = docs /\ skipped' = skipped /\ raced' = raced
  BY DEF FindStale
<1>3. Tells(pod[p], left)
  BY PassTells
<1>4. CASE /\ pod' = [pod EXCEPT ![p] = NextCollection(p, FALSE)]
           /\ s = Len(Collections) \/ found = {}
  <2>1. GoesOn(p, NextCollection(p, FALSE))
    BY NextCollectionFits, BetweenGoesOn
  <2>2. s # Len(Collections) => \A x \in left : x[1] \notin Collections[s]
    BY <1>1, <1>4, LeftIsStale
  <2>3. Tells(NextCollection(p, FALSE), left)
    BY <1>2, <1>3, <2>2, LeftTyped, NextCollectionTells DEF Tells
  <2> QED
    BY <1>2, <1>4, <2>1, <2>3, DocsStayTells
<1>5. CASE /\ ~(s = Len(Collections) /\ pod[p].incomplete)
           /\ \E batch \in Batches(p, found) :
                pod' = [pod EXCEPT ![p].pc = "pick", ![p].todo = batch,
                                   ![p].truncated = Full(p, batch)]
  <2>1. PICK batch \in Batches(p, found) :
             pod' = [pod EXCEPT ![p].pc = "pick", ![p].todo = batch,
                                ![p].truncated = Full(p, batch)]
    BY <1>5
  <2>2. batch \subseteq found
    BY DEF Batches
  <2>3. /\ batch \in SUBSET Found
        /\ \A f \in batch : FoundNow(p, f) /\ f.key \in Collections[s]
    BY <1>1, <2>2, StaleFound
  <2> DEFINE full == Full(p, batch)
             r == [pod[p] EXCEPT !.pc = "pick", !.todo = batch, !.truncated = full]
  <2>4. full \in BOOLEAN /\ (full = FALSE => batch = found)
    BY WholeBatch DEF Full
  <2> HIDE DEF full
  <2>5. /\ r \in PodStates /\ r.pc = "pick" /\ r.todo = batch /\ r.truncated = full
        /\ r.stale = pod[p].stale /\ r.stage = s /\ r.incomplete = pod[p].incomplete
    BY <1>1, <2>3, <2>4 DEF PodStates
  <2>6. pod' = [pod EXCEPT ![p].pc = "pick", ![p].todo = batch, ![p].truncated = full]
    BY <2>1 DEF full
  <2>7. pod' = [pod EXCEPT ![p] = r]
    BY <1>1, <2>6
  <2> HIDE DEF r
  <2>8. r.stale = None
    BY <1>2, <1>3, <2>5 DEF Tells, Tidy
  <2>9. GoesOn(p, r)
    BY <2>3, <2>5, <2>8 DEF GoesOn, Holds, Holding
  <2>10. Tidy(r)
    <3>1. s = Len(Collections) => pod[p].incomplete = FALSE
      BY <1>5, PodStateFields
    <3> QED
      BY <2>3, <2>5, <2>8, <3>1 DEF Tidy, InHand
  <2>11. Through(r, left)
    BY <1>2, <1>3, <2>5 DEF Tells, Through
  <2>12. Covered(r, left)
    <3> SUFFICES ASSUME full = FALSE, NEW x \in left, x[1] \in Collections[s]
                 PROVE  Covers(batch \cup {None}, x)
      BY <2>5, <2>8 DEF Covered
    <3>1. Covers(found, x)
      BY <1>1, LeftIsStale
    <3> QED
      BY <2>4, <3>1 DEF Covers
  <2> QED
    BY <1>2, <2>7, <2>9, <2>10, <2>11, <2>12, DocsStayTells DEF Tells
<1> QED
  BY <1>4, <1>5 DEF FindStale

(* A document excluded is no longer left behind.                           *)
LEMMA SkipTells ==
    ASSUME IInv, PassInv, NEW p \in Pods, pod[p].pc \notin {"idle", "find"},
           NEW f \in Found, Holds(p, f), NEW rest \in SUBSET pod[p].todo,
           \A g \in Found : Holds(p, g) => g \in rest \/ g = f,
           Skip(p, f, Continuing(p, rest)), docs' = docs, raced' = raced
    PROVE  PassInv'
<1> DEFINE ids  == skipped[p] \cup {<<f.key, f.doc.id>>}
           next == Continuing(p, rest)
           auto == next.auto /\ Cardinality(ids) <= MaxSkipped
           r    == [next EXCEPT !.auto = auto]
           left == LeftBehind(p)'
<1>1. Between(next, rest)
  BY ContinuingFits, PodStateFields
<1>2. auto \in BOOLEAN
  BY <1>1 DEF Between, PodStates
<1>3. pod' = [pod EXCEPT ![p] = r] /\ skipped' = [skipped EXCEPT ![p] = ids]
  BY Zenon DEF Skip
<1>4. /\ skipped'[p] = ids
      /\ \A q \in Pods : skipped[q] \subseteq skipped'[q]
  <2>1. skipped \in [Pods -> SUBSET (Keys \X Stamps)]
    BY Types
  <2> HIDE DEF ids
  <2>2. skipped'[p] = ids /\ \A q \in Pods : q # p => skipped'[q] = skipped[q]
    BY <1>3, <2>1
  <2>3. skipped[p] \subseteq ids
    BY DEF ids
  <2> QED
    BY <2>2, <2>3
<1>5. left \subseteq LeftBehind(p)
  BY <1>4, SameDocsGo, LessLeft
<1>6. <<f.key, f.version>> \notin left
  <2> SUFFICES ASSUME <<f.key, f.version>> \in left PROVE FALSE
    OBVIOUS
  <2>1. /\ docs[f.key][f.version] # None /\ f.key \notin raced
        /\ <<f.key, docs[f.key][f.version].id>> \notin ids
    BY <1>4 DEF LeftBehind
  <2>2. docs[f.key][f.version] = f.doc
    BY <2>1 DEF PassInv, ThereOrGone
  <2> QED
    BY <2>1, <2>2
<1> HIDE DEF left, ids
<1>7. Tells(next, left)
  BY <1>5, <1>6, DoneTells
<1> HIDE DEF auto, next
<1>8. /\ Between(r, rest)
      /\ r.pc = next.pc /\ r.stage = next.stage /\ r.todo = next.todo
      /\ r.stale = next.stale /\ r.truncated = next.truncated
      /\ r.incomplete = next.incomplete
  BY SMTT(30), <1>1, <1>2, AutoSet DEF Between, PodStates
<1> HIDE DEF r
<1>9. Tells(r, left)
  BY <1>7, <1>8, SameTells
<1>10. \A g \in Found : InHand(r, g) => Holds(p, g) \/ FoundNow(p, g)
  BY <1>8 DEF Between, InHand, Holds
<1> QED
  BY <1>3, <1>4, <1>9, <1>10, SameDocsGo, OnePassSteps DEF left

LEMMA ReconcilingTells ==
    ASSUME IInv, PassInv, NEW p \in Pods, pod[p].pc \notin {"idle", "find"},
           NEW f \in Found, Holds(p, f), pod[p].stale \in {f, None},
           docs[f.key][Version[p]] # None,
           pod' = [pod EXCEPT ![p] = Reconciling(p, f, docs[f.key][Version[p]])],
           docs' = docs, skipped' = skipped, raced' = raced
    PROVE  PassInv'
<1> DEFINE d == docs[f.key][Version[p]]
           r == Reconciling(p, f, d)
<1>1. pod[p] \in PodStates
  BY PodStateFields
<1>2. GoesOn(p, r)
  BY ReconcilingGoesOn
<1>3. /\ r.pc \in {"replace", "delete"}
      /\ r.todo = pod[p].todo \ {f} /\ r.stale = f
      /\ r.stage = pod[p].stage /\ r.incomplete = pod[p].incomplete
      /\ r.truncated = pod[p].truncated
  <2> HIDE DEF d
  <2> QED
    BY <1>1 DEF Reconciling, PodStates
<1> HIDE DEF r
<1>4. \A g \in Found : InHand(r, g) <=> Holds(p, g)
  BY <1>3 DEF InHand, Holds
<1>5. Tells(r, LeftBehind(p))
  BY <1>3, <1>4, SameHandTells DEF Holding
<1> QED
  BY <1>2, <1>5, DocsStayTells DEF r

LEMMA PickDocTells ==
    ASSUME IInv, PassInv, NEW p \in Pods, PickDoc(p)
    PROVE  PassInv'
<1>1. pod \in [Pods -> PodStates] /\ pod[p] \in PodStates /\ pod[p].pc = "pick"
  BY DEF IInv, TypeOK, PickDoc
<1>2. PICK f \in pod[p].todo :
        IF IsBroken(f) THEN Skip(p, f, Continuing(p, pod[p].todo \ {f}))
        ELSE /\ UNCHANGED skipped
             /\ pod' = [pod EXCEPT ![p] =
                   IF docs[f.key][Version[p]] # None
                   THEN Reconciling(p, f, docs[f.key][Version[p]])
                   ELSE [pod[p] EXCEPT !.pc = "update", !.todo = @ \ {f}, !.stale = f]]
  BY DEF PickDoc
<1>3. f \in Found /\ Holds(p, f) /\ docs' = docs /\ raced' = raced
  BY PodStateFields DEF Holds, PickDoc
<1>4. pod[p].stale = None
  BY <1>1 DEF PassInv, PassesTidy, Tidy
<1>5. CASE IsBroken(f)
  <2>1. \A g \in Found : Holds(p, g) => g \in pod[p].todo \ {f} \/ g = f
    BY <1>4 DEF Holds
  <2> QED
    BY <1>1, <1>2, <1>3, <1>5, <2>1, SkipTells
<1>6. CASE ~IsBroken(f) /\ docs[f.key][Version[p]] # None
  BY <1>1, <1>2, <1>3, <1>4, <1>6, ReconcilingTells
<1>7. CASE ~IsBroken(f) /\ docs[f.key][Version[p]] = None
  <2> DEFINE r == [pod[p] EXCEPT !.pc = "update", !.todo = @ \ {f}, !.stale = f]
  <2>1. /\ r \in PodStates /\ r.pc = "update" /\ r.todo = pod[p].todo \ {f} /\ r.stale = f
        /\ r.stage = pod[p].stage /\ r.incomplete = pod[p].incomplete
        /\ r.truncated = pod[p].truncated
    BY <1>1, <1>3 DEF PodStates
  <2>2. pod' = [pod EXCEPT ![p] = r] /\ skipped' = skipped
    BY <1>2, <1>7
  <2> HIDE DEF r
  <2>3. GoesOn(p, r)
    BY <1>3, <2>1 DEF GoesOn, Holds, Holding
  <2>4. \A g \in Found : InHand(r, g) <=> Holds(p, g)
    BY <1>2, <1>4, <2>1 DEF InHand, Holds
  <2>5. Tells(r, LeftBehind(p))
    BY <1>1, <2>1, <2>4, SameHandTells DEF Holding
  <2> QED
    BY <1>3, <2>2, <2>3, <2>5, DocsStayTells
<1> QED
  BY <1>5, <1>6, <1>7

LEMMA HeldStale ==
    ASSUME IInv, NEW p \in Pods, pod[p].pc \in Holding
    PROVE  /\ pod[p].stale \in Found /\ Holds(p, pod[p].stale)
           /\ pod[p].stale.key \in Keys /\ pod[p].stale.version \in Versions
           /\ pod[p].stale.doc \in Docs
           /\ pod[p].stale.version < Version[p]
BY DEF IInv, PodsFit, Holds, Found, TextsMoveUp

LEMMA RefindTells ==
    ASSUME IInv, PassInv, NEW p \in Pods, Refind(p)
    PROVE  PassInv'
<1> DEFINE f == pod[p].stale
<1>1. pod[p].pc = "refind" /\ f \in Found /\ Holds(p, f) /\ docs' = docs /\ raced' = raced
  BY HeldStale DEF Holding, Refind
<1>2. CASE docs[f.key][Version[p]] = None
  <2>1. Skip(p, f, Continuing(p, pod[p].todo))
    BY <1>2 DEF Refind
  <2>2. \A g \in Found : Holds(p, g) => g \in pod[p].todo \/ g = f
    BY DEF Holds
  <2> HIDE DEF f
  <2> QED
    BY <1>1, <2>1, <2>2, SkipTells
<1>3. CASE docs[f.key][Version[p]] # None
  <2>1. /\ pod' = [pod EXCEPT ![p] = Reconciling(p, f, docs[f.key][Version[p]])]
        /\ skipped' = skipped
    BY <1>3 DEF Refind
  <2> QED
    BY <1>1, <1>3, <2>1, ReconcilingTells
<1> QED
  BY <1>2, <1>3

(* A pass is done with the document it holds: it is gone.                  *)
LEMMA GoneTells ==
    ASSUME IInv, PassInv, NEW p \in Pods, pod[p].pc \in Holding,
           OldOnesGo, skipped' = skipped, raced' = raced,
           pod' = [pod EXCEPT ![p] = Continuing(p, pod[p].todo)],
           \/ docs'[pod[p].stale.key][pod[p].stale.version] = None
           \/ ~StillThere(pod[p].stale)
    PROVE  PassInv'
<1> DEFINE f == pod[p].stale
           r == Continuing(p, pod[p].todo)
           left == LeftBehind(p)'
<1>1. /\ f \in Found /\ Holds(p, f) /\ f.key \in Keys /\ f.version \in Versions
      /\ f.version < Version[p]
  BY HeldStale
<1>2. left \subseteq LeftBehind(p)
  BY LessLeft
<1>3. <<f.key, f.version>> \notin left
  <2> SUFFICES ASSUME <<f.key, f.version>> \in left PROVE FALSE
    OBVIOUS
  <2>1. docs'[f.key][f.version] # None /\ f.key \notin raced
    BY DEF LeftBehind
  <2>2. docs[f.key][f.version] = docs'[f.key][f.version]
    BY <1>1, <2>1, BelowLatest DEF OldOnesGo
  <2>3. docs[f.key][f.version] = f.doc
    BY <1>1, <2>1, <2>2 DEF PassInv, ThereOrGone
  <2> QED
    BY <2>1, <2>2, <2>3 DEF StillThere
<1>4. \A g \in Found : Holds(p, g) => g \in pod[p].todo \/ g = f
  BY DEF Holds
<1> HIDE DEF left
<1>5. Tells(r, left)
  BY <1>1, <1>2, <1>3, <1>4, DoneTells DEF Holding
<1>6. GoesOn(p, r)
  BY ContinuingFits, PodStateFields, BetweenGoesOn DEF Holds
<1> HIDE DEF r
<1> QED
  BY <1>5, <1>6, GoesOnHas, OnePassSteps DEF r, left

(* A pass changes documents of the newest version, or removes one.         *)
LEMMA RepairsLatest ==
    ASSUME IInv, NEW old, OneRepairs(old), NEW p \in Pods, pod[p].pc \in Holding
    PROVE  Version[p] = Latest
<1>1. /\ pod[p].stale.version \in Nat /\ pod[p].stale.version < Version[p]
      /\ old \in Nat /\ old <= pod[p].stale.version
  BY HeldStale, VersionsKnown DEF OneRepairs
<1>2. Version[p] # old
  BY <1>1
<1> QED
  BY <1>2 DEF OneRepairs, NoneBetween

LEMMA UpdateDocTells ==
    ASSUME IInv, PassInv, NEW old, OneRepairs(old), NEW p \in Pods, UpdateDoc(p)
    PROVE  PassInv'
<1> DEFINE f == pod[p].stale
           v == Version[p]
<1>1. pod \in [Pods -> PodStates] /\ pod[p] \in PodStates /\ pod[p].pc = "update"
  BY DEF IInv, TypeOK, UpdateDoc
<1>2. /\ f \in Found /\ Holds(p, f) /\ f.key \in Keys /\ f.version \in Versions
      /\ f.version < v /\ v = Latest /\ skipped' = skipped /\ raced' = raced
  BY <1>1, HeldStale, RepairsLatest DEF Holding, UpdateDoc
<1>3. CASE StillThere(f) /\ docs[f.key][v] # None
  <2> DEFINE r == [pod[p] EXCEPT !.pc = "refind"]
  <2>1. /\ r \in PodStates /\ r.pc = "refind" /\ r.todo = pod[p].todo /\ r.stale = f
        /\ r.stage = pod[p].stage /\ r.incomplete = pod[p].incomplete
        /\ r.truncated = pod[p].truncated
    BY <1>1 DEF PodStates
  <2>2. GoesOn(p, r)
    BY <1>2, <2>1 DEF GoesOn, Holds, Holding
  <2>3. pod' = [pod EXCEPT ![p] = r] /\ docs' = docs
    BY <1>1, <1>3 DEF UpdateDoc
  <2> HIDE DEF r
  <2>4. Tells(r, LeftBehind(p))
    BY <1>1, <2>1, SameHandTells DEF Holding, InHand, Holds
  <2> QED
    BY <1>2, <2>2, <2>3, <2>4, DocsStayTells
<1>4. CASE StillThere(f) /\ docs[f.key][v] = None
  <2> DEFINE x == Migrated(docs[f.key][f.version], f.doc, v)
  <2>1. /\ docs' = [docs EXCEPT ![f.key][f.version] = None, ![f.key][v] = x]
        /\ pod' = [pod EXCEPT ![p] = Continuing(p, pod[p].todo)]
    BY <1>4 DEF UpdateDoc
  <2> HIDE DEF x, f, v
  <2>2. /\ docs'[f.key][f.version] = None
        /\ \A l \in Keys, y \in Versions :
             l # f.key \/ y \notin {v, f.version} => docs'[l][y] = docs[l][y]
    BY <1>2, <2>1, Types
  <2>3. OldOnesGo
    BY <1>2, <2>2 DEF OldOnesGo
  <2> QED
    BY <1>1, <1>2, <2>1, <2>2, <2>3, GoneTells DEF Holding, f
<1>5. CASE ~StillThere(f)
  <2>1. docs' = docs /\ pod' = [pod EXCEPT ![p] = Continuing(p, pod[p].todo)]
    BY <1>5 DEF UpdateDoc
  <2> QED
    BY <1>1, <1>2, <1>5, <2>1, SameDocsGo, GoneTells DEF Holding
<1> QED
  BY <1>3, <1>4, <1>5

LEMMA ReplaceTells ==
    ASSUME IInv, PassInv, NEW old, OneRepairs(old), NEW p \in Pods, Replace(p)
    PROVE  PassInv'
<1> DEFINE f == pod[p].stale
           r == [pod[p] EXCEPT !.pc = "delete"]
<1>1. pod \in [Pods -> PodStates] /\ pod[p] \in PodStates /\ pod[p].pc = "replace"
  BY DEF IInv, TypeOK, Replace
<1>2. /\ f \in Found /\ Holds(p, f) /\ f.key \in Keys
      /\ Version[p] = Latest /\ skipped' = skipped /\ raced' = raced
  BY <1>1, HeldStale, RepairsLatest DEF Holding, Replace
<1>3. \A l \in Keys, y \in Versions : y # Latest => docs'[l][y] = docs[l][y]
  BY <1>2, Types DEF Replace, Put
<1>4. OldOnesGo
  BY <1>3, VersionsKnown DEF OldOnesGo
<1>5. /\ r \in PodStates /\ r.pc = "delete" /\ r.todo = pod[p].todo /\ r.stale = f
      /\ r.stage = pod[p].stage /\ r.incomplete = pod[p].incomplete
      /\ r.truncated = pod[p].truncated
  BY <1>1 DEF PodStates
<1>6. pod' = [pod EXCEPT ![p] = r]
  BY <1>1 DEF Replace
<1> HIDE DEF r
<1>7. \A g \in Found : InHand(r, g) <=> Holds(p, g)
  BY <1>5 DEF InHand, Holds
<1>8. Tells(r, LeftBehind(p)')
  <2>1. LeftBehind(p)' \subseteq LeftBehind(p)
    BY <1>2, <1>4, LessLeft
  <2>2. Tells(r, LeftBehind(p))
    BY <1>1, <1>5, <1>7, SameHandTells DEF Holding
  <2> QED
    BY <2>1, <2>2, TellsLess
<1> QED
  BY <1>2, <1>4, <1>6, <1>7, <1>8, OnePassSteps

LEMMA DeleteStaleTells ==
    ASSUME IInv, PassInv, NEW p \in Pods, DeleteStale(p)
    PROVE  PassInv'
<1> DEFINE f == pod[p].stale
<1>1. /\ pod[p].pc = "delete" /\ skipped' = skipped /\ raced' = raced
      /\ pod' = [pod EXCEPT ![p] = Continuing(p, pod[p].todo)]
  BY DEF DeleteStale
<1>2. f.key \in Keys /\ f.version \in Versions
  BY <1>1, HeldStale DEF Holding
<1>3. CASE StillThere(f)
  <2>1. Put(f.key, f.version, None)
    BY <1>3 DEF DeleteStale
  <2>2. docs'[f.key][f.version] = None /\ DocsFewer
    BY <1>2, <2>1, PutOne, PutNone
  <2> QED
    BY <1>1, <2>2, GoneTells DEF Holding, OldOnesGo, DocsFewer
<1>4. CASE ~StillThere(f)
  BY <1>1, <1>4, SameDocsGo, GoneTells DEF DeleteStale, Holding
<1> QED
  BY <1>3, <1>4

(* A pod writes at its own version; elsewhere it only removes documents.   *)
LEMMA WritesAtOwn ==
    ASSUME IInv, [Next]_vars, NEW k \in Keys, NEW w \in Versions
    PROVE  \/ docs'[k][w] \in {docs[k][w], None}
           \/ \E p \in Pods \ ReadOnly : w = Version[p]
<1>1. CASE docs' = docs
  BY <1>1
<1>2. ASSUME NEW p \in Pods, NEW l \in Keys, Save(p, l) \/ Remove(p, l), w # Version[p]
      PROVE  docs'[k][w] = docs[k][w]
  <2>1. PICK x : Put(l, Version[p], x)
    BY <1>2 DEF Save, Remove
  <2> QED
    BY <1>2, <2>1, Types DEF Put
<1>3. ASSUME NEW p \in Pods, UpdateDoc(p), w # Version[p]
      PROVE  docs'[k][w] \in {docs[k][w], None}
  <2> DEFINE f == pod[p].stale
             x == Migrated(docs[f.key][f.version], f.doc, Version[p])
  <2>1. f.key \in Keys /\ f.version \in Versions
    BY <1>3, HeldStale DEF UpdateDoc, Holding
  <2>2. CASE docs' = [docs EXCEPT ![f.key][f.version] = None, ![f.key][Version[p]] = x]
    <3> HIDE DEF f, x
    <3> QED
      BY <1>3, <2>1, <2>2, Types
  <2> QED
    BY <1>3, <2>2 DEF UpdateDoc
<1>4. ASSUME NEW p \in Pods, Replace(p), w # Version[p]
      PROVE  docs'[k][w] = docs[k][w]
  BY <1>4, Types DEF Replace, Put
<1>5. ASSUME NEW p \in Pods, DeleteStale(p)
      PROVE  docs'[k][w] \in {docs[k][w], None}
  <2>1. pod[p].stale.key \in Keys /\ pod[p].stale.version \in Versions
    BY <1>5, HeldStale DEF DeleteStale, Holding
  <2> QED
    BY <1>5, <2>1, PutNone, SameDocs DEF DeleteStale, DocsFewer
<1>6. CASE docs' # docs
  <2>1. PICK p \in Pods :
          \/ \E l \in Keys : Save(p, l) \/ Remove(p, l)
          \/ UpdateDoc(p) \/ Replace(p) \/ DeleteStale(p)
    BY <1>6 DEF Next, vars, BeginPass, BeginManual, BeginAt, IntervalElapses, Repair, FindStale,
       PickDoc, Refind, PassUnauthorized, Fails, PassFails, PassCancelled, Restart
  <2>2. p \notin ReadOnly
    BY <2>1 DEF Save, Remove, UpdateDoc, Replace, DeleteStale
  <2> QED
    BY <1>2, <1>3, <1>4, <1>5, <2>1, <2>2
<1> QED
  BY <1>1, <1>6

LEMMA NextFinds ==
    ASSUME IInv, [Next]_vars
    PROVE  FindsCarried
<1>1. ASSUME pod' = pod PROVE FindsCarried
  BY <1>1, IdlesOn
<1>2. ASSUME NEW p \in Pods, Repair(p) PROVE FindsCarried
  BY <1>2, FindStaleKeeps, PickDocKeeps, UpdateDocKeeps, RefindKeeps, ReplaceKeeps,
     DeleteStaleKeeps, PassUnauthorizedKeeps DEF Repair
<1>3. ASSUME NEW p \in Pods, BeginPass(p) \/ BeginManual(p) \/ IntervalElapses(p) \/ Fails(p)
      PROVE  FindsCarried
  BY <1>3, BeginAtKeeps, IntervalElapsesKeeps, FailsKeeps DEF BeginPass, BeginManual
<1>4. ASSUME NEW p \in Pods, NEW k \in Keys, Save(p, k) \/ Remove(p, k) PROVE FindsCarried
  BY <1>1, <1>4 DEF Save, Remove
<1> QED
  BY <1>1, <1>2, <1>3, <1>4 DEF Next, vars

LEMMA InitOneRepairs ==
    ASSUME NEW old \in Versions, NoneBetween(old), NothingOlder(old), Init
    PROVE  OneRepairs(old)
BY DEF OneRepairs, Init, Holds, Restarted

LEMMA NextOneRepairs ==
    ASSUME NEW old, OneRepairs(old), IInv, [Next]_vars
    PROVE  OneRepairs(old)'
<1>1. old \in Versions /\ old <= old /\ old <= Latest
  BY VersionsKnown DEF OneRepairs
<1>2. NothingOlder(old)'
  <2> SUFFICES ASSUME NEW k \in Keys, NEW w \in Versions, docs'[k][w] # None
               PROVE  old <= w
    BY DEF NothingOlder
  <2> QED
    BY <1>1, WritesAtOwn DEF OneRepairs, NoneBetween, NothingOlder
<1>3. \A p \in Pods, f \in Found : Holds(p, f)' => old <= f.version
  <2>1. \A f \in Found : f.key \in Keys /\ f.version \in Versions /\ f.doc # None
    BY DEF Found
  <2> QED
    BY <2>1, NextFinds DEF FindsCarried, FoundNow, OneRepairs, NothingOlder
<1> QED
  BY <1>1, <1>2, <1>3 DEF OneRepairs, NoneBetween

LEMMA InitPassInv == Init => PassInv
<1> SUFFICES ASSUME Init PROVE PassInv
  OBVIOUS
<1>1. \A p \in Pods : pod[p] = Restarted
  BY DEF Init
<1>2. \A p \in Pods, f \in Found : ~Holds(p, f)
  BY <1>1 DEF Holds, Restarted
<1>3. \A left : Tells(Restarted, left)
  BY DEF Tells, Tidy, Through, Covered, InHand, Restarted
<1> QED
  BY <1>1, <1>2, <1>3 DEF PassInv, PassesTidy, ThereOrGone, Tells

LEMMA NextPassInv ==
    ASSUME NEW old, OneRepairs(old), IInv, PassInv, [Next]_vars
    PROVE  PassInv'
<1>1. CASE UNCHANGED vars
  BY <1>1 DEF vars, PassInv, PassesTidy, ThereOrGone, Holds, LeftBehind
<1>2. ASSUME NEW p \in Pods, NEW k \in Keys, Save(p, k) \/ Remove(p, k) PROVE PassInv'
  BY <1>2, CallTells
<1>3. ASSUME NEW p \in Pods, BeginPass(p) \/ BeginManual(p) PROVE PassInv'
  BY <1>3, BeginAtTells DEF BeginPass, BeginManual
<1>4. ASSUME NEW p \in Pods, IntervalElapses(p) PROVE PassInv'
  BY <1>4, IntervalElapsesTells
<1>5. ASSUME NEW p \in Pods, Repair(p) PROVE PassInv'
  BY <1>5, FindStaleTells, PickDocTells, UpdateDocTells, RefindTells, ReplaceTells,
     DeleteStaleTells, PassUnauthorizedTells DEF Repair
<1>6. ASSUME NEW p \in Pods, Fails(p) PROVE PassInv'
  BY <1>6, FailsTells
<1> QED
  BY <1>1, <1>2, <1>3, <1>4, <1>5, <1>6 DEF Next

(* Who makes a document current by repair is moving it.                    *)
LEMMA BecomesCurrentByMove ==
    ASSUME IInv, [Next]_vars, NEW p \in Pods, NEW k \in Keys, BecomesCurrent(p, k)
    PROVE  pod[p].pc = "update" /\ pod[p].stale.key = k
<1>1. pod'[p] # pod[p] /\ edits' = edits /\ docs'[k][Version[p]] # docs[k][Version[p]]
      /\ docs[k][Version[p]] = None
  BY DEF BecomesCurrent
<1>2. ~UNCHANGED vars
  BY <1>1 DEF vars
<1>3. PICK q \in Pods :
        \/ \E l \in Keys : Save(q, l) \/ Remove(q, l)
        \/ BeginPass(q)
        \/ BeginManual(q)
        \/ IntervalElapses(q)
        \/ Repair(q)
        \/ Fails(q)
  BY <1>2 DEF Next
<1>4. ~(\E l \in Keys : Save(q, l) \/ Remove(q, l))
  BY <1>1 DEF Save, Remove
<1>5. UpdateDoc(q) \/ Replace(q) \/ DeleteStale(q)
  BY <1>1, <1>3, <1>4 DEF BeginPass, BeginManual, BeginAt, IntervalElapses, Repair, FindStale,
     PickDoc, Refind, PassUnauthorized, Fails, PassFails, PassCancelled, Restart
<1>6. q = p
  <2>1. \E r : pod' = [pod EXCEPT ![q] = r]
    <3>1. CASE Replace(q)
      <4>1. pod' = [pod EXCEPT ![q] = [pod[q] EXCEPT !.pc = "delete"]]
        BY <3>1, Types DEF Replace, IInv, TypeOK
      <4> QED
        BY <4>1
    <3>2. CASE UpdateDoc(q) /\ pod' = [pod EXCEPT ![q].pc = "refind"]
      <4>1. pod' = [pod EXCEPT ![q] = [pod[q] EXCEPT !.pc = "refind"]]
        BY <3>2 DEF IInv, TypeOK
      <4> QED
        BY <4>1
    <3>3. CASE pod' = [pod EXCEPT ![q] = Continuing(q, pod[q].todo)]
      BY <3>3
    <3> QED
      BY <1>5, <3>1, <3>2, <3>3 DEF UpdateDoc, DeleteStale
  <2> QED
    BY <1>1, <2>1 DEF IInv, TypeOK
<1>7. pod[p].stale.key \in Keys /\ pod[p].stale.version \in Versions
  BY <1>5, <1>6, HeldStale DEF UpdateDoc, Replace, DeleteStale, Holding
<1>8. ~DeleteStale(p)
  <2>1. SUFFICES ASSUME DeleteStale(p), StillThere(pod[p].stale) PROVE FALSE
    BY <1>1 DEF DeleteStale
  <2>2. DocsFewer
    BY <1>7, <2>1, PutNone DEF DeleteStale
  <2> QED
    BY <1>1, <2>2, VersionsKnown DEF DocsFewer
<1>9. ~Replace(p)
  <2> SUFFICES ASSUME Replace(p) PROVE FALSE
    OBVIOUS
  <2> DEFINE f == pod[p].stale
  <2>1. docs[f.key][Version[p]] # None
    BY <1>1 DEF Replace
  <2>2. \A l \in Keys, y \in Versions : l # f.key => docs'[l][y] = docs[l][y]
    BY Types DEF Replace, Put
  <2> QED
    BY <1>1, <2>1, <2>2, VersionsKnown
<1>10. UpdateDoc(p)
  BY <1>5, <1>6, <1>8, <1>9
<1>11. \A l \in Keys : l # pod[p].stale.key => docs'[l] = docs[l]
  BY <1>10, Types DEF UpdateDoc
<1> QED
  BY <1>1, <1>10, <1>11 DEF UpdateDoc

LEMMA SkillsWait ==
    ASSUME IInv, PassInv, [Next]_vars, NEW p \in Pods, NEW k \in Skills, BecomesCurrent(p, k),
           NEW x \in HiddenChildren(p)
    PROVE  x[1] \in raced \/ <<x[1], docs[x[1]][x[2]].id>> \in skipped[p]
<1> DEFINE f == pod[p].stale
<1>1. k \in Keys
  BY StagesKnown
<1>2. pod[p].pc = "update" /\ f.key = k
  BY <1>1, BecomesCurrentByMove
<1>3. f \in Found /\ pod[p].stage \in Stages
  BY <1>2, HeldStale, PodStateFields DEF Holding
<1>4. Tidy(pod[p]) /\ Through(pod[p], LeftBehind(p))
  BY DEF PassInv, PassesTidy
<1>5. k \in Collections[pod[p].stage]
  BY <1>2, <1>3, <1>4 DEF Tidy, InHand
<1>6. pod[p].stage = Len(Collections)
  BY <1>3, <1>5, StagesKnown DEF Skills
<1>7. pod[p].incomplete = FALSE
  BY <1>2, <1>4, <1>6 DEF Tidy
<1>8. x \in Keys \X Versions /\ x[2] < Version[p] /\ docs[x[1]][x[2]] # None /\ x[1] \notin Skills
  BY DEF HiddenChildren, Children
<1>9. PICK s \in Stages : x[1] \in Collections[s]
  BY <1>8 DEF Keys
<1>10. s < pod[p].stage
  <2>1. s # Len(Collections)
    BY <1>8, <1>9 DEF Skills
  <2>2. s <= Len(Collections) /\ s \in Nat /\ Len(Collections) \in Nat
    BY DEF Stages
  <2> QED
    BY <1>6, <2>1, <2>2
<1>11. x \notin LeftBehind(p)
  BY <1>2, <1>4, <1>7, <1>9, <1>10 DEF Through
<1> QED
  BY <1>8, <1>11 DEF LeftBehind

(* While one release replaces another, and nothing older is left, a skill  *)
(* becomes current by repair only when no document of the other            *)
(* collections is left behind, but those this process cannot migrate and   *)
(* those saved while the pass was under way: for any number of pods and    *)
(* collections and batches of any size (_repair_all).                      *)
THEOREM SkillsComeLast ==
    ASSUME NEW old \in Versions, NoneBetween(old)
    PROVE  Spec /\ NothingOlder(old) => SkillsAfterChildren
<1>1. Init /\ NothingOlder(old) => OneRepairs(old) /\ PassInv
  BY InitOneRepairs, InitPassInv
<1>2. IInv /\ (OneRepairs(old) /\ PassInv) /\ [Next]_vars => (OneRepairs(old) /\ PassInv)'
  BY NextOneRepairs, NextPassInv
<1>3. IInv /\ (OneRepairs(old) /\ PassInv) /\ [Next]_vars =>
        [\A p \in Pods, k \in Skills : BecomesCurrent(p, k) =>
            \A x \in HiddenChildren(p) :
               \/ x[1] \in raced
               \/ <<x[1], docs[x[1]][x[2]].id>> \in skipped[p]]_vars
  BY SkillsWait
<1> QED
  BY <1>1, <1>2, <1>3, SpecIInv, PTL DEF Spec, SkillsAfterChildren

-----------------------------------------------------------------------------
(***************************************************************************)
(* The latest edit, where one release replaces another and documents have  *)
(* the versions of the two.  All passes then have the same document of an  *)
(* identity in hand, and the current document e is no older once it is     *)
(* gone, or about to go.                                                   *)
(***************************************************************************)
OnlyVersions(old) ==
    \A k \in Keys, w \in Versions : docs[k][w] # None => w \in {old, Latest}

Upgrade(old) ==
    /\ old \in Versions
    /\ old < Latest
    /\ NoneBetween(old)
    /\ OnlyVersions(old)
    /\ \A p \in Pods, f \in Found : Holds(p, f) => f.version = old

Settled(e, f) == e # None /\ ~Later(f.doc.date, e.date)
SameEdit(d, e) == d.text = e.text /\ d.date = e.date
Merging(e, f, id) ==
    /\ e # None
    /\ e.id = id
    /\ SameEdit(e, f.doc) \/ Later(f.doc.date, e.date)

InPlace(r, e, f) ==
    /\ r.pc = "refind" => e # None
    /\ r.pc = "replace" => Merging(e, f, r.sibling)
    /\ r.pc = "delete" => Settled(e, f)

OneEdit ==
    \A p \in Pods, q \in Pods, f \in Found, g \in Found :
        Holds(p, f) /\ Holds(q, g) /\ f.key = g.key /\ f.key \notin raced => f.doc = g.doc
GoneIfSettled(old) ==
    \A p \in Pods, f \in Found :
        Holds(p, f) /\ f.key \notin raced =>
            docs[f.key][old] # None \/ Settled(docs[f.key][Latest], f)
StaleInPlace ==
    \A p \in Pods, f \in Found :
        pod[p].stale = f /\ f.key \notin raced => InPlace(pod[p], docs[f.key][Latest], f)

EditInv(old) == OneEdit /\ GoneIfSettled(old) /\ StaleInPlace

LEMMA UpgradeVersions ==
    ASSUME NEW old, Upgrade(old)
    PROVE  /\ old \in Versions /\ Latest \in Versions /\ old # Latest
           /\ OneRepairs(old)
<1>1. old \in Nat /\ Latest \in Nat /\ old < Latest /\ old \in Versions
  BY VersionsKnown DEF Upgrade
<1>2. \A w \in {old, Latest} : old <= w
  BY <1>1
<1> QED
  BY <1>1, <1>2, VersionsKnown DEF Upgrade, OneRepairs, OnlyVersions, NothingOlder

LEMMA HeldOldOnes ==
    ASSUME IInv, NEW old, Upgrade(old), NEW p \in Pods, NEW f \in Found,
           Holds(p, f) \/ FoundNow(p, f)
    PROVE  f.version = old /\ Version[p] = Latest
<1>1. f.key \in Keys /\ f.version \in Versions /\ f.doc # None
  BY DEF Found
<1>2. f.version < Version[p]
  BY DEF IInv, TextsMoveUp, FoundNow
<1>3. f.version # Latest
  BY <1>1, <1>2, BelowLatest, VersionsKnown
<1>4. f.version = old
  BY <1>1, <1>3 DEF Upgrade, OnlyVersions, FoundNow
<1>5. Version[p] # old
  BY <1>1, <1>2, <1>4, VersionsKnown
<1> QED
  BY <1>4, <1>5 DEF Upgrade, NoneBetween

(* What a pass reads or has read of an identity that is not edited.        *)
LEMMA EditRead ==
    ASSUME NEW old, Upgrade(old), IInv, PassInv, EditInv(old), NEW p \in Pods, NEW f \in Found,
           Holds(p, f) \/ FoundNow(p, f), f.key \notin raced
    PROVE  /\ f.key \in Keys /\ f.doc \in Docs /\ f.doc # None
           /\ f.version = old /\ Version[p] = Latest
           /\ docs[f.key][old] \in {f.doc, None}
           /\ docs[f.key][old] # None \/ Settled(docs[f.key][Latest], f)
<1>1. f.key \in Keys /\ f.doc \in Docs /\ f.doc # None
  BY DEF Found
<1>2. f.version < Version[p]
  BY DEF IInv, TextsMoveUp, FoundNow
<1>3. f.version = old /\ Version[p] = Latest
  BY HeldOldOnes
<1>4. docs[f.key][old] \in {f.doc, None}
  BY <1>3 DEF PassInv, ThereOrGone, FoundNow
<1>5. docs[f.key][old] # None \/ Settled(docs[f.key][Latest], f)
  BY <1>1, <1>3 DEF EditInv, GoneIfSettled, FoundNow
<1> QED
  BY <1>1, <1>3, <1>4, <1>5

LEMMA OneRead ==
    ASSUME NEW old, Upgrade(old), IInv, PassInv, EditInv(old), NEW p \in Pods, NEW q \in Pods,
           NEW f \in Found, NEW g \in Found,
           Holds(p, f) \/ FoundNow(p, f), Holds(q, g) \/ FoundNow(q, g),
           f.key = g.key, f.key \notin raced
    PROVE  f.doc = g.doc
<1>1. CASE Holds(p, f) /\ Holds(q, g)
  BY <1>1 DEF EditInv, OneEdit
<1>2. CASE FoundNow(p, f) \/ FoundNow(q, g)
  BY <1>2, EditRead DEF FoundNow
<1> QED
  BY <1>1, <1>2

(* The documents of identity k stay, or the current one settles whatever   *)
(* passes have in hand of it.                                              *)
Stays(k) == \A w \in Versions : docs'[k][w] = docs[k][w]
Settles(k) ==
    /\ docs'[k][Latest] # None
    /\ \A q \in Pods, g \in Found :
         g.key = k /\ Holds(q, g)' => Settled(docs'[k][Latest], g)
    /\ \A q \in Pods, g \in Found :
         g.key = k /\ pod[q].stale = g /\ pod[q].pc = "replace" =>
             Merging(docs'[k][Latest], g, pod[q].sibling)

LEMMA EditStep ==
    ASSUME NEW old, Upgrade(old), IInv, PassInv, EditInv(old), FindsCarried, raced \subseteq raced',
           NEW p \in Pods, \A q \in Pods : q # p => pod'[q] = pod[q],
           \A f \in Found : pod'[p].stale = f /\ f.key \notin raced' =>
               InPlace(pod'[p], docs'[f.key][Latest], f),
           \A k \in Keys : k \notin raced' => Stays(k) \/ Settles(k)
    PROVE  EditInv(old)'
<1>1. OneEdit'
  BY OneRead DEF OneEdit, FindsCarried
<1>2. GoneIfSettled(old)'
  <2> SUFFICES ASSUME NEW q \in Pods, NEW f \in Found, Holds(q, f)', f.key \notin raced'
               PROVE  docs'[f.key][old] # None \/ Settled(docs'[f.key][Latest], f)
    BY DEF GoneIfSettled
  <2>1. /\ f.key \in Keys
        /\ docs[f.key][old] # None \/ Settled(docs[f.key][Latest], f)
    BY EditRead DEF FindsCarried
  <2> QED
    BY <2>1, UpgradeVersions DEF Stays, Settles
<1>3. StaleInPlace'
  <2> SUFFICES ASSUME NEW q \in Pods, NEW f \in Found, pod'[q].stale = f, f.key \notin raced'
               PROVE  InPlace(pod'[q], docs'[f.key][Latest], f)
    BY DEF StaleInPlace
  <2>1. CASE q = p
    BY <2>1
  <2>2. CASE q # p
    <3>1. pod'[q] = pod[q] /\ pod[q].stale = f /\ Holds(q, f)' /\ f.key \in Keys
      BY <2>2 DEF Holds, Found
    <3>2. InPlace(pod[q], docs[f.key][Latest], f)
      BY <3>1 DEF EditInv, StaleInPlace
    <3> QED
      BY <3>1, <3>2, UpgradeVersions DEF Stays, Settles, InPlace
  <2> QED
    BY <2>1, <2>2
<1> QED
  BY <1>1, <1>2, <1>3 DEF EditInv

(* The documents stay, and the pass chooses nothing new.                   *)
LEMMA QuietEdit ==
    ASSUME NEW old, Upgrade(old), IInv, PassInv, EditInv(old), FindsCarried, NEW p \in Pods,
           \A q \in Pods : q # p => pod'[q] = pod[q],
           pod'[p].pc \notin {"refind", "replace", "delete"},
           docs' = docs, raced' = raced
    PROVE  EditInv(old)'
BY EditStep DEF InPlace, Stays

LEMMA OneSteps ==
    ASSUME IInv, NEW p \in Pods, NEW r, pod' = [pod EXCEPT ![p] = r]
    PROVE  pod'[p] = r /\ \A q \in Pods : q # p => pod'[q] = pod[q]
BY DEF IInv, TypeOK

LEMMA NothingHeld ==
    ASSUME PassInv, NEW p \in Pods, NEW f \in Found, pod[p].pc = "idle"
    PROVE  ~Holds(p, f)
BY DEF PassInv, PassesTidy, Tidy, Holds

LEMMA BeginAtEdits ==
    ASSUME NEW old, Upgrade(old), IInv, PassInv, EditInv(old),
           NEW p \in Pods, NEW manual \in BOOLEAN, BeginAt(p, manual)
    PROVE  EditInv(old)'
<1>1. pod \in [Pods -> PodStates] /\ pod[p] \in PodStates /\ docs' = docs
  BY DEF IInv, TypeOK, BeginAt
<1>2. /\ pod'[p].pc = "find" /\ pod'[p].todo = pod[p].todo /\ pod'[p].stale = pod[p].stale
      /\ \A q \in Pods : q # p => pod'[q] = pod[q]
  BY <1>1 DEF BeginAt, PodStates
<1>3. CASE raced' = raced
  BY <1>1, <1>2, <1>3, BeginAtKeeps, QuietEdit
<1>4. CASE \A q \in Pods : pod[q].pc = "idle"
  <2>1. \A q \in Pods, f \in Found : ~Holds(q, f)'
    BY <1>2, <1>4, NothingHeld DEF Holds
  <2> QED
    BY <2>1 DEF EditInv, OneEdit, GoneIfSettled, StaleInPlace, Holds
<1> QED
  BY <1>3, <1>4 DEF BeginAt

LEMMA IntervalElapsesEdits ==
    ASSUME NEW old, Upgrade(old), IInv, PassInv, EditInv(old), NEW p \in Pods, IntervalElapses(p)
    PROVE  EditInv(old)'
<1>1. pod \in [Pods -> PodStates] /\ pod[p] \in PodStates
  BY DEF IInv, TypeOK
<1>2. /\ pod'[p].pc = pod[p].pc /\ pod'[p].stale = pod[p].stale
      /\ pod'[p].sibling = pod[p].sibling
      /\ \A q \in Pods : q # p => pod'[q] = pod[q]
      /\ docs' = docs /\ raced' = raced
  BY <1>1 DEF IntervalElapses, PodStates
<1>3. \A f \in Found : pod'[p].stale = f /\ f.key \notin raced' =>
        InPlace(pod'[p], docs'[f.key][Latest], f)
  BY <1>2 DEF EditInv, StaleInPlace, InPlace
<1> QED
  BY <1>2, <1>3, IntervalElapsesKeeps, EditStep DEF Stays

LEMMA CallEdits ==
    ASSUME NEW old, Upgrade(old), IInv, PassInv, EditInv(old), NEW p \in Pods, NEW k \in Keys,
           Save(p, k) \/ Remove(p, k)
    PROVE  EditInv(old)'
<1>1. PICK x : Put(k, Version[p], x)
  BY DEF Save, Remove
<1>2. pod' = pod /\ raced' = raced \cup {k}
  BY DEF Save, Remove
<1>3. \A l \in Keys : l # k => Stays(l)
  BY <1>1, Types DEF Put, Stays
<1>4. \A f \in Found : f.key \in Keys
  BY DEF Found
<1>5. \A f \in Found : pod'[p].stale = f /\ f.key \notin raced' =>
        InPlace(pod'[p], docs'[f.key][Latest], f)
  BY <1>2, <1>3, <1>4, UpgradeVersions DEF EditInv, StaleInPlace, Stays
<1> QED
  BY <1>2, <1>3, <1>5, IdlesOn, EditStep

LEMMA FailsEdits ==
    ASSUME NEW old, Upgrade(old), IInv, PassInv, EditInv(old), NEW p \in Pods, Fails(p)
    PROVE  EditInv(old)'
<1>1. FindsCarried /\ docs' = docs /\ raced' = raced
  BY FailsKeeps DEF Fails, PassFails, PassCancelled, Restart
<1>2. \E r : r.pc = "idle" /\ pod' = [pod EXCEPT ![p] = r]
  BY EndedFits, RestartedFits, PodStateFields DEF Fails, PassFails, PassCancelled, Restart
<1> QED
  BY <1>1, <1>2, OneSteps, QuietEdit

LEMMA PassUnauthorizedEdits ==
    ASSUME NEW old, Upgrade(old), IInv, PassInv, EditInv(old), NEW p \in Pods, PassUnauthorized(p)
    PROVE  EditInv(old)'
<1> DEFINE e    == Ended(p, FALSE)
           auto == e.auto /\ pod[p].manual
           r    == [e EXCEPT !.auto = auto]
<1>1. Between(e, {}) /\ e.pc = "idle"
  BY EndedFits
<1>2. pod' = [pod EXCEPT ![p] = r]
  BY Zenon DEF PassUnauthorized
<1> HIDE DEF auto, e
<1>3. r.pc = "idle"
  BY <1>1 DEF Between, PodStates
<1> HIDE DEF r
<1> QED
  BY <1>2, <1>3, PassUnauthorizedKeeps, OneSteps, QuietEdit DEF PassUnauthorized

LEMMA FindStaleEdits ==
    ASSUME NEW old, Upgrade(old), IInv, PassInv, EditInv(old), NEW p \in Pods, FindStale(p)
    PROVE  EditInv(old)'
<1>1. FindsCarried /\ docs' = docs /\ raced' = raced
  BY FindStaleKeeps DEF FindStale
<1>2. CASE pod' = [pod EXCEPT ![p] = NextCollection(p, FALSE)]
  <2>1. NextCollection(p, FALSE).pc \notin Holding
    BY NextCollectionFits DEF Between
  <2>2. pod'[p] = NextCollection(p, FALSE) /\ \A q \in Pods : q # p => pod'[q] = pod[q]
    BY <1>2, OneSteps
  <2>3. pod'[p].pc \notin {"refind", "replace", "delete"}
    BY <2>1, <2>2 DEF Holding
  <2> QED
    BY <1>1, <2>2, <2>3, QuietEdit
<1>3. CASE \E batch \in Batches(p, Stale(p, pod[p].stage)) :
             pod' = [pod EXCEPT ![p].pc = "pick", ![p].todo = batch,
                                ![p].truncated = Full(p, batch)]
  <2>1. pod \in [Pods -> PodStates] /\ pod[p] \in PodStates
    BY DEF IInv, TypeOK
  <2>2. PICK batch, full :
             pod' = [pod EXCEPT ![p].pc = "pick", ![p].todo = batch, ![p].truncated = full]
    BY <1>3
  <2>3. pod'[p].pc = "pick" /\ \A q \in Pods : q # p => pod'[q] = pod[q]
    BY <2>1, <2>2 DEF PodStates
  <2> QED
    BY <1>1, <2>3, QuietEdit
<1> QED
  BY <1>2, <1>3 DEF FindStale

(* A pass leaves the document it held, and the documents stay.             *)
LEMMA SkipEdits ==
    ASSUME NEW old, Upgrade(old), IInv, PassInv, EditInv(old), FindsCarried, NEW p \in Pods, NEW f \in Found,
           NEW rest \in SUBSET Found, Skip(p, f, Continuing(p, rest)),
           docs' = docs, raced' = raced
    PROVE  EditInv(old)'
<1> DEFINE next == Continuing(p, rest)
           auto == next.auto /\ Cardinality(skipped[p] \cup {<<f.key, f.doc.id>>}) <= MaxSkipped
           r    == [next EXCEPT !.auto = auto]
<1>1. Between(next, rest)
  BY ContinuingFits
<1>2. pod' = [pod EXCEPT ![p] = r]
  BY Zenon DEF Skip
<1> HIDE DEF auto, next
<1>3. r.pc \notin {"refind", "replace", "delete"}
  BY <1>1 DEF Between, PodStates, Holding
<1> HIDE DEF r
<1> QED
  BY <1>2, <1>3, OneSteps, QuietEdit

(* The stale document is newer, or the current one settles it.             *)
LEMMA ReconcilingEdits ==
    ASSUME NEW old, Upgrade(old), IInv, PassInv, EditInv(old), FindsCarried, NEW p \in Pods, NEW f \in Found,
           Holds(p, f), docs[f.key][Version[p]] # None,
           pod' = [pod EXCEPT ![p] = Reconciling(p, f, docs[f.key][Version[p]])],
           docs' = docs, raced' = raced
    PROVE  EditInv(old)'
<1> DEFINE d == docs[f.key][Version[p]]
           r == Reconciling(p, f, d)
<1>1. pod[p] \in PodStates /\ pod'[p] = r /\ \A q \in Pods : q # p => pod'[q] = pod[q]
  BY PodStateFields, OneSteps
<1>2. /\ r.pc \in {"replace", "delete"}
      /\ r.pc = "replace" => Later(f.doc.date, d.date)
      /\ r.pc = "delete" => ~Later(f.doc.date, d.date)
      /\ r.stale = f /\ r.sibling = d.id
  <2> HIDE DEF d
  <2> QED
    BY <1>1 DEF Reconciling, PodStates
<1> HIDE DEF r
<1>3. ASSUME NEW g \in Found, pod'[p].stale = g, g.key \notin raced'
      PROVE  InPlace(pod'[p], docs'[g.key][Latest], g)
  <2>1. g = f /\ Version[p] = Latest
    BY <1>1, <1>2, <1>3, EditRead
  <2> QED
    BY <1>1, <1>2, <2>1 DEF InPlace, Merging, Settled
<1> QED
  BY <1>1, <1>3, EditStep DEF Stays

LEMMA PickDocEdits ==
    ASSUME NEW old, Upgrade(old), IInv, PassInv, EditInv(old), NEW p \in Pods, PickDoc(p)
    PROVE  EditInv(old)'
<1>1. pod \in [Pods -> PodStates] /\ pod[p] \in PodStates
  BY DEF IInv, TypeOK
<1>2. PICK f \in pod[p].todo :
        IF IsBroken(f) THEN Skip(p, f, Continuing(p, pod[p].todo \ {f}))
        ELSE /\ UNCHANGED skipped
             /\ pod' = [pod EXCEPT ![p] =
                   IF docs[f.key][Version[p]] # None
                   THEN Reconciling(p, f, docs[f.key][Version[p]])
                   ELSE [pod[p] EXCEPT !.pc = "update", !.todo = @ \ {f}, !.stale = f]]
  BY DEF PickDoc
<1>3. /\ f \in Found /\ Holds(p, f) /\ docs' = docs /\ raced' = raced
      /\ FindsCarried /\ pod[p].todo \ {f} \in SUBSET Found
  BY PodStateFields, PickDocKeeps DEF Holds, PickDoc
<1>4. CASE IsBroken(f)
  BY <1>2, <1>3, <1>4, SkipEdits
<1>5. CASE ~IsBroken(f) /\ docs[f.key][Version[p]] # None
  BY <1>2, <1>3, <1>5, ReconcilingEdits
<1>6. CASE ~IsBroken(f) /\ docs[f.key][Version[p]] = None
  <2> DEFINE r == [pod[p] EXCEPT !.pc = "update", !.todo = @ \ {f}, !.stale = f]
  <2>1. pod' = [pod EXCEPT ![p] = r] /\ r.pc = "update"
    BY <1>1, <1>2, <1>6 DEF PodStates
  <2> HIDE DEF r
  <2> QED
    BY <1>3, <2>1, OneSteps, QuietEdit
<1> QED
  BY <1>4, <1>5, <1>6

LEMMA RefindEdits ==
    ASSUME NEW old, Upgrade(old), IInv, PassInv, EditInv(old), NEW p \in Pods, Refind(p)
    PROVE  EditInv(old)'
<1> DEFINE f == pod[p].stale
<1>1. /\ f \in Found /\ Holds(p, f) /\ docs' = docs /\ raced' = raced
      /\ FindsCarried /\ pod[p].todo \in SUBSET Found
  BY HeldStale, RefindKeeps, PodStateFields DEF Holding, Refind
<1>2. CASE docs[f.key][Version[p]] = None
  <2>1. Skip(p, f, Continuing(p, pod[p].todo))
    BY <1>2 DEF Refind
  <2> HIDE DEF f
  <2> QED
    BY <1>1, <2>1, SkipEdits
<1>3. CASE docs[f.key][Version[p]] # None
  <2>1. pod' = [pod EXCEPT ![p] = Reconciling(p, f, docs[f.key][Version[p]])]
    BY <1>3 DEF Refind
  <2> QED
    BY <1>1, <1>3, <2>1, ReconcilingEdits
<1> QED
  BY <1>2, <1>3

LEMMA ContinuingQuiet ==
    ASSUME IInv, NEW p \in Pods, pod' = [pod EXCEPT ![p] = Continuing(p, pod[p].todo)]
    PROVE  /\ pod'[p].pc \notin {"refind", "replace", "delete"}
           /\ \A q \in Pods : q # p => pod'[q] = pod[q]
<1>1. Continuing(p, pod[p].todo).pc \notin Holding
  BY ContinuingFits, PodStateFields DEF Between
<1>2. /\ pod'[p] = Continuing(p, pod[p].todo)
      /\ \A q \in Pods : q # p => pod'[q] = pod[q]
  BY OneSteps
<1> QED
  BY <1>1, <1>2 DEF Holding

LEMMA UpdateDocEdits ==
    ASSUME NEW old, Upgrade(old), IInv, PassInv, EditInv(old), NEW p \in Pods, UpdateDoc(p)
    PROVE  EditInv(old)'
<1> DEFINE f == pod[p].stale
           v == Version[p]
<1>1. pod \in [Pods -> PodStates] /\ pod[p] \in PodStates /\ pod[p].pc = "update"
  BY DEF IInv, TypeOK, UpdateDoc
<1>2. /\ f \in Found /\ Holds(p, f) /\ f.key \in Keys /\ f.version < v
      /\ raced' = raced /\ FindsCarried
  BY <1>1, HeldStale, UpdateDocKeeps DEF Holding, UpdateDoc
<1>3. f.version = old /\ v = Latest /\ old # Latest
      /\ old \in Versions /\ Latest \in Versions
  BY <1>2, HeldOldOnes, UpgradeVersions
<1>4. CASE StillThere(f) /\ docs[f.key][v] # None
  <2>1. pod' = [pod EXCEPT ![p].pc = "refind"] /\ docs' = docs
    BY <1>4 DEF UpdateDoc
  <2>2. /\ pod'[p].pc = "refind" /\ pod'[p].stale = f
        /\ \A q \in Pods : q # p => pod'[q] = pod[q]
    BY <1>1, <2>1 DEF PodStates
  <2>3. \A g \in Found : pod'[p].stale = g /\ g.key \notin raced' =>
          InPlace(pod'[p], docs'[g.key][Latest], g)
    BY <1>3, <1>4, <2>1, <2>2 DEF InPlace
  <2> QED
    BY <1>2, <2>1, <2>2, <2>3, EditStep DEF Stays
<1>5. CASE StillThere(f) /\ docs[f.key][v] = None
  <2> DEFINE x == Migrated(docs[f.key][f.version], f.doc, v)
             k == f.key
  <2>1. /\ docs' = [docs EXCEPT ![k][f.version] = None, ![k][v] = x]
        /\ pod' = [pod EXCEPT ![p] = Continuing(p, pod[p].todo)]
    BY <1>5 DEF UpdateDoc
  <2>2. docs[k][old] \in Docs /\ f.doc \in Docs
    BY <1>2, <1>3, <1>5, StoredCopy, FoundCopy DEF StillThere, IInv
  <2>3. x \in Docs /\ Same(x, docs[k][old])
    BY <1>3, <2>2, MigratedFits
  <2> HIDE DEF x
  <2>4. docs'[k][Latest] = x /\ \A l \in Keys : l # k => Stays(l)
    BY <1>2, <1>3, <2>1, Types DEF Stays
  <2>5. /\ pod'[p].pc \notin {"refind", "replace", "delete"}
        /\ \A q \in Pods : q # p => pod'[q] = pod[q]
    BY <2>1, ContinuingQuiet
  <2>6. ASSUME k \notin raced PROVE Settles(k)
    <3>1. docs[k][old] = f.doc
      BY <1>2, <1>3, <1>5, <2>6, EditRead DEF StillThere
    <3>2. ASSUME NEW q \in Pods, NEW g \in Found, g.key = k, Holds(q, g)'
          PROVE  Settled(x, g)
      <4>1. g.doc = f.doc
        BY <1>2, <2>6, <3>2, OneRead DEF FindsCarried
      <4>2. x.date = g.doc.date
        BY <2>3, <3>1, <4>1 DEF Same
      <4>3. ~Later(g.doc.date, g.doc.date)
        BY <4>1, <2>2, FieldsOfDocs DEF Later
      <4> QED
        BY <2>3, <4>2, <4>3 DEF Settled
    <3>3. ASSUME NEW q \in Pods, NEW g \in Found,
                 g.key = k, pod[q].stale = g, pod[q].pc = "replace"
          PROVE  FALSE
      BY <1>3, <1>5, <2>6, <3>3 DEF EditInv, StaleInPlace, InPlace, Merging
    <3> QED
      BY <2>3, <2>4, <3>2, <3>3 DEF Settles
  <2>7. \A g \in Found : pod'[p].stale = g /\ g.key \notin raced' =>
          InPlace(pod'[p], docs'[g.key][Latest], g)
    BY <2>5 DEF InPlace
  <2> HIDE DEF k, f
  <2>8. \A l \in Keys : l \notin raced' => Stays(l) \/ Settles(l)
    BY <1>2, <2>4, <2>6
  <2> QED
    BY <1>2, <2>5, <2>7, <2>8, EditStep
<1>6. CASE ~StillThere(f)
  <2>1. docs' = docs /\ pod' = [pod EXCEPT ![p] = Continuing(p, pod[p].todo)]
    BY <1>6 DEF UpdateDoc
  <2> QED
    BY <1>2, <2>1, ContinuingQuiet, QuietEdit
<1> QED
  BY <1>4, <1>5, <1>6

(* What a replacement puts in the place of the current document.           *)
LEMMA ReplaceDoes ==
    ASSUME NEW old, Upgrade(old), IInv, PassInv, EditInv(old), NEW p \in Pods, Replace(p)
    PROVE  LET f == pod[p].stale IN
           /\ f \in Found /\ Holds(p, f) /\ f.key \in Keys /\ f.doc \in Docs
           /\ \A l \in Keys : l # f.key => Stays(l)
           /\ docs'[f.key][old] = docs[f.key][old]
           /\ f.key \notin raced =>
                /\ Merging(docs[f.key][Latest], f, pod[p].sibling)
                /\ docs'[f.key][Latest] \in Docs
                /\ docs'[f.key][Latest].id = pod[p].sibling
                /\ SameEdit(docs'[f.key][Latest], f.doc)
<1> DEFINE f  == pod[p].stale
           id == pod[p].sibling
           x  == [Migrated(f.doc, f.doc, Latest) EXCEPT !.id = id]
<1>1. pod[p].pc = "replace"
  BY DEF Replace
<1>2. /\ f \in Found /\ Holds(p, f) /\ f.key \in Keys /\ f.doc \in Docs
      /\ f.version < Version[p] /\ id \in Stamps
  BY <1>1, HeldStale DEF Holding, IInv, PodsFit
<1>3. Version[p] = Latest /\ old # Latest /\ old \in Versions /\ Latest \in Versions
  BY <1>2, HeldOldOnes, UpgradeVersions
<1>4. /\ \A l \in Keys : l # f.key => Stays(l)
      /\ docs'[f.key][old] = docs[f.key][old]
  BY <1>2, <1>3, Types DEF Replace, Put, Stays
<1>5. ASSUME f.key \notin raced
      PROVE  /\ Merging(docs[f.key][Latest], f, id)
             /\ docs'[f.key][Latest] \in Docs
             /\ docs'[f.key][Latest].id = id
             /\ SameEdit(docs'[f.key][Latest], f.doc)
  <2>1. Merging(docs[f.key][Latest], f, id)
    BY <1>1, <1>2, <1>5 DEF EditInv, StaleInPlace, InPlace
  <2>2. Put(f.key, Latest, x)
    BY <1>3, <2>1 DEF Replace, Merging
  <2>3. x \in Docs /\ x.id = id /\ SameEdit(x, f.doc)
    <3>1. /\ Migrated(f.doc, f.doc, Latest) \in Docs
          /\ Same(Migrated(f.doc, f.doc, Latest), f.doc)
      BY <1>2, <1>3, MigratedFits
    <3> QED
      BY <1>2, <3>1 DEF Same, SameEdit, Docs
  <2> HIDE DEF x
  <2>4. docs'[f.key][Latest] = x
    BY <1>2, <1>3, <2>2, <2>3, PutOne
  <2> QED
    BY <2>1, <2>3, <2>4
<1> QED
  BY <1>2, <1>4, <1>5

LEMMA ReplaceEdits ==
    ASSUME NEW old, Upgrade(old), IInv, PassInv, EditInv(old), NEW p \in Pods, Replace(p)
    PROVE  EditInv(old)'
<1> DEFINE f == pod[p].stale
           k == f.key
           e == docs'[k][Latest]
<1>1. /\ f \in Found /\ Holds(p, f) /\ k \in Keys /\ f.doc \in Docs
      /\ \A l \in Keys : l # k => Stays(l)
      /\ k \notin raced =>
           /\ Merging(docs[k][Latest], f, pod[p].sibling)
           /\ e \in Docs /\ e.id = pod[p].sibling /\ SameEdit(e, f.doc)
  BY ReplaceDoes
<1>2. FindsCarried /\ raced' = raced
  BY ReplaceKeeps DEF Replace
<1>3. /\ pod'[p].pc = "delete" /\ pod'[p].stale = f
      /\ \A q \in Pods : q # p => pod'[q] = pod[q]
  BY DEF IInv, TypeOK, PodStates, Replace
<1> HIDE DEF e
<1>4. ASSUME k \notin raced, NEW q \in Pods, NEW g \in Found,
             g.key = k, Holds(q, g) \/ FoundNow(q, g)
      PROVE  g.doc = f.doc /\ Settled(e, g) /\ SameEdit(e, g.doc)
  <2>1. g.doc = f.doc
    BY <1>1, <1>4, OneRead
  <2>2. e # None /\ SameEdit(e, g.doc)
    BY <1>1, <1>4, <2>1
  <2>3. ~Later(g.doc.date, g.doc.date)
    BY <1>1, <2>1, FieldsOfDocs DEF Later
  <2> QED
    BY <2>1, <2>2, <2>3 DEF Settled, SameEdit
<1>5. ASSUME k \notin raced PROVE Settles(k)
  <2>1. e # None
    BY <1>1, <1>5
  <2>2. \A q \in Pods, g \in Found : g.key = k /\ Holds(q, g)' => Settled(e, g)
    BY <1>2, <1>4, <1>5 DEF FindsCarried
  <2>3. ASSUME NEW q \in Pods, NEW g \in Found,
               g.key = k, pod[q].stale = g, pod[q].pc = "replace"
        PROVE  Merging(e, g, pod[q].sibling)
    <3>1. Merging(docs[k][Latest], g, pod[q].sibling)
      BY <1>5, <2>3 DEF EditInv, StaleInPlace, InPlace
    <3>2. SameEdit(e, g.doc)
      BY <1>4, <1>5, <2>3 DEF Holds
    <3> QED
      BY <1>1, <1>5, <2>1, <3>1, <3>2 DEF Merging
  <2> QED
    BY <2>1, <2>2, <2>3 DEF Settles, e
<1>6. \A g \in Found : pod'[p].stale = g /\ g.key \notin raced' =>
        InPlace(pod'[p], docs'[g.key][Latest], g)
  <2> SUFFICES ASSUME k \notin raced
               PROVE  InPlace(pod'[p], docs'[k][Latest], f)
    BY <1>2, <1>3
  <2>1. Settled(docs'[k][Latest], f)
    BY <1>1, <1>4 DEF e
  <2> QED
    BY <1>3, <2>1 DEF InPlace
<1> HIDE DEF k, f
<1>7. \A l \in Keys : l \notin raced' => Stays(l) \/ Settles(l)
  BY <1>1, <1>2, <1>5
<1> QED
  BY <1>2, <1>3, <1>6, <1>7, EditStep

(* A document is deleted once the current one settles it.                  *)
LEMMA DeleteDoes ==
    ASSUME NEW old, Upgrade(old), IInv, PassInv, EditInv(old), NEW p \in Pods, DeleteStale(p)
    PROVE  LET f == pod[p].stale IN
           /\ f \in Found /\ Holds(p, f) /\ f.key \in Keys
           /\ \A l \in Keys : docs'[l][Latest] = docs[l][Latest]
           /\ \A l \in Keys : l # f.key => Stays(l)
           /\ f.key \notin raced => Settled(docs[f.key][Latest], f)
           /\ f.key \notin raced => docs[f.key][old] \in {f.doc, None}
<1> DEFINE f == pod[p].stale
<1>1. pod[p].pc = "delete"
  BY DEF DeleteStale
<1>2. /\ f \in Found /\ Holds(p, f) /\ f.key \in Keys /\ f.version < Version[p]
  BY <1>1, HeldStale DEF Holding
<1>3. f.version = old /\ old # Latest /\ old \in Versions
  BY <1>2, HeldOldOnes, UpgradeVersions
<1>4. \A l \in Keys : docs'[l][Latest] = docs[l][Latest] /\ (l # f.key => Stays(l))
  <2>1. CASE StillThere(f)
    <3>1. Put(f.key, old, None)
      BY <1>3, <2>1 DEF DeleteStale
    <3>2. \A l \in Keys, w \in Versions : l # f.key \/ w # old => docs'[l][w] = docs[l][w]
      BY <1>2, <1>3, <3>1, PutOne
    <3> QED
      BY <1>3, <3>2, VersionsKnown DEF Stays
  <2>2. CASE ~StillThere(f)
    BY <2>2 DEF DeleteStale, Stays
  <2> QED
    BY <2>1, <2>2
<1>5. f.key \notin raced =>
        /\ Settled(docs[f.key][Latest], f)
        /\ docs[f.key][old] \in {f.doc, None}
  BY <1>1, <1>2, EditRead DEF EditInv, StaleInPlace, InPlace
<1> QED
  BY <1>2, <1>4, <1>5

LEMMA DeleteStaleEdits ==
    ASSUME NEW old, Upgrade(old), IInv, PassInv, EditInv(old), NEW p \in Pods, DeleteStale(p)
    PROVE  EditInv(old)'
<1> DEFINE f == pod[p].stale
           k == f.key
           e == docs[k][Latest]
<1>1. /\ f \in Found /\ Holds(p, f) /\ k \in Keys
      /\ docs'[k][Latest] = e
      /\ \A l \in Keys : l # k => Stays(l)
      /\ k \notin raced => Settled(e, f)
  BY DeleteDoes
<1>2. /\ pod' = [pod EXCEPT ![p] = Continuing(p, pod[p].todo)]
      /\ FindsCarried /\ raced' = raced
  BY DeleteStaleKeeps DEF DeleteStale
<1>3. /\ pod'[p].pc \notin {"refind", "replace", "delete"}
      /\ \A q \in Pods : q # p => pod'[q] = pod[q]
  BY <1>2, ContinuingQuiet
<1>4. ASSUME k \notin raced PROVE Settles(k)
  <2>1. \A q \in Pods, g \in Found : g.key = k /\ Holds(q, g)' => g.doc = f.doc
    BY <1>1, <1>2, <1>4, OneRead DEF FindsCarried
  <2>2. \A q \in Pods, g \in Found : g.key = k /\ Holds(q, g)' => Settled(e, g)
    BY <1>1, <1>4, <2>1 DEF Settled
  <2>3. \A q \in Pods, g \in Found :
          g.key = k /\ pod[q].stale = g /\ pod[q].pc = "replace" =>
              Merging(e, g, pod[q].sibling)
    BY <1>4 DEF EditInv, StaleInPlace, InPlace
  <2> QED
    BY <1>1, <1>4, <2>2, <2>3 DEF Settles, Settled
<1>5. \A g \in Found : pod'[p].stale = g /\ g.key \notin raced' =>
        InPlace(pod'[p], docs'[g.key][Latest], g)
  BY <1>3 DEF InPlace
<1> HIDE DEF k, f
<1>6. \A l \in Keys : l \notin raced' => Stays(l) \/ Settles(l)
  BY <1>1, <1>2, <1>4
<1> QED
  BY <1>2, <1>3, <1>5, <1>6, EditStep

LEMMA InitEditInv ==
    ASSUME NEW old, Init
    PROVE  EditInv(old)
<1>1. \A p \in Pods : pod[p] = Restarted
  BY DEF Init
<1> QED
  BY <1>1 DEF EditInv, OneEdit, GoneIfSettled, StaleInPlace, Holds, Restarted

LEMMA NextEditInv ==
    ASSUME NEW old, Upgrade(old), IInv, PassInv, EditInv(old), [Next]_vars
    PROVE  EditInv(old)'
<1>1. CASE UNCHANGED vars
  BY <1>1 DEF vars, EditInv, OneEdit, GoneIfSettled, StaleInPlace, Holds
<1>2. ASSUME NEW p \in Pods, NEW k \in Keys, Save(p, k) \/ Remove(p, k) PROVE EditInv(old)'
  BY <1>2, CallEdits
<1>3. ASSUME NEW p \in Pods, BeginPass(p) \/ BeginManual(p) PROVE EditInv(old)'
  BY <1>3, BeginAtEdits DEF BeginPass, BeginManual
<1>4. ASSUME NEW p \in Pods, IntervalElapses(p) PROVE EditInv(old)'
  BY <1>4, IntervalElapsesEdits
<1>5. ASSUME NEW p \in Pods, Repair(p) PROVE EditInv(old)'
  BY <1>5, FindStaleEdits, PickDocEdits, UpdateDocEdits, RefindEdits, ReplaceEdits,
     DeleteStaleEdits, PassUnauthorizedEdits DEF Repair
<1>6. ASSUME NEW p \in Pods, Fails(p) PROVE EditInv(old)'
  BY <1>6, FailsEdits
<1> QED
  BY <1>1, <1>2, <1>3, <1>4, <1>5, <1>6 DEF Next

LEMMA InitUpgrade ==
    ASSUME NEW old \in Versions, old < Latest, NoneBetween(old), OnlyVersions(old), Init
    PROVE  Upgrade(old)
BY DEF Upgrade, Init, Holds, Restarted

LEMMA NextUpgrade ==
    ASSUME NEW old, Upgrade(old), IInv, [Next]_vars
    PROVE  Upgrade(old)'
<1>1. OnlyVersions(old)'
  <2> SUFFICES ASSUME NEW k \in Keys, NEW w \in Versions, docs'[k][w] # None
               PROVE  w \in {old, Latest}
    BY DEF OnlyVersions
  <2> QED
    BY WritesAtOwn DEF Upgrade, NoneBetween, OnlyVersions
<1>2. \A p \in Pods, f \in Found : Holds(p, f)' => f.version = old
  BY NextFinds, HeldOldOnes DEF FindsCarried
<1> QED
  BY <1>1, <1>2 DEF Upgrade, NoneBetween

LEMMA LaterOrders ==
    ASSUME NEW d \in Docs, NEW e \in Docs
    PROVE  /\ ~ModifiedAfter(d, d)
           /\ ModifiedAfter(d, e) => ~ModifiedAfter(e, d)
           /\ ModifiedAfter(d, e) <=> Later(d.date, e.date)
BY FieldsOfDocs DEF ModifiedAfter, Later

(* Which of the two documents of an identity is its latest edit.           *)
LEMMA LatestOfTwo ==
    ASSUME NEW old, Upgrade(old), TypeOK, NEW k \in Keys
    PROVE  LET d == docs[k][old]
               e == docs[k][Latest] IN
           /\ e # None /\ (d = None \/ ~Later(d.date, e.date)) => e \in LatestDocs(k)
           /\ d # None /\ (e = None \/ Later(d.date, e.date)) => d \in LatestDocs(k)
<1> DEFINE d == docs[k][old]
           e == docs[k][Latest]
<1>1. old \in Versions /\ Latest \in Versions /\ old # Latest
  BY UpgradeVersions
<1>2. \A v \in Versions : docs[k][v] # None => docs[k][v] \in Docs /\ v \in {old, Latest}
  BY DEF TypeOK, Upgrade, OnlyVersions
<1>3. ASSUME e # None, d = None \/ ~Later(d.date, e.date)
      PROVE  \A w \in Versions : ~Beats(k, w, Latest)
  BY <1>1, <1>2, <1>3, LaterOrders DEF Beats
<1>4. ASSUME d # None, e = None \/ Later(d.date, e.date)
      PROVE  \A w \in Versions : ~Beats(k, w, old)
  <2>1. ~Beats(k, old, old)
    BY <1>1, <1>2, LaterOrders DEF Beats
  <2>2. ~Beats(k, Latest, old)
    BY <1>1, <1>2, <1>4, LaterOrders DEF Beats
  <2> QED
    BY <1>2, <2>1, <2>2 DEF Beats
<1> QED
  BY <1>1, <1>3, <1>4 DEF LatestDocs

LEMMA LatestOfTwoNext ==
    ASSUME NEW old, Upgrade(old)', TypeOK', NEW k \in Keys
    PROVE  LET d == docs'[k][old]
               e == docs'[k][Latest] IN
           e # None /\ (d = None \/ ~Later(d.date, e.date)) => e \in LatestDocs(k)'
<1>1. old \in Versions /\ Latest \in Versions /\ old # Latest
  BY VersionsKnown DEF Upgrade
<1>2. \A v \in Versions : docs'[k][v] # None => docs'[k][v] \in Docs /\ v \in {old, Latest}
  BY DEF TypeOK, Upgrade, OnlyVersions
<1> QED
  BY <1>1, <1>2, LaterOrders DEF LatestDocs, Beats

LEMMA StaysLatest ==
    ASSUME NEW k \in Keys, Stays(k)
    PROVE  KeepsLatestEdit(k)
<1>1. \A v \in Versions : docs'[k][v] = docs[k][v]
  BY DEF Stays
<1>2. LatestDocs(k)' = LatestDocs(k)
  BY <1>1 DEF LatestDocs, Beats
<1> QED
  BY <1>2 DEF KeepsLatestEdit

LEMMA MoveKeepsEdit ==
    ASSUME NEW old, Upgrade(old), Upgrade(old)', IInv, TypeOK', NEW p \in Pods, UpdateDoc(p), NEW k \in Keys
    PROVE  KeepsLatestEdit(k)
<1> DEFINE f == pod[p].stale
           x == Migrated(docs[f.key][old], f.doc, Latest)
<1>1. /\ f \in Found /\ f.key \in Keys /\ f.doc \in Docs
      /\ f.version = old /\ Version[p] = Latest /\ old # Latest
      /\ old \in Versions /\ Latest \in Versions
  BY HeldStale, HeldOldOnes, UpgradeVersions DEF UpdateDoc, Holding
<1>2. CASE StillThere(f) /\ docs[f.key][Latest] = None
  <2>1. docs' = [docs EXCEPT ![f.key][old] = None, ![f.key][Latest] = x]
    BY <1>1, <1>2 DEF UpdateDoc
  <2>2. docs[f.key][old] \in Docs
    BY <1>1, <1>2, StoredCopy DEF StillThere, IInv
  <2>3. x \in Docs /\ x.text = docs[f.key][old].text
    <3>1. /\ Migrated(docs[f.key][old], f.doc, Latest) \in Docs
          /\ Same(Migrated(docs[f.key][old], f.doc, Latest), docs[f.key][old])
      BY <1>1, <2>2, MigratedFits
    <3> QED
      BY <3>1 DEF Same
  <2> HIDE DEF x
  <2>4. /\ docs'[f.key][Latest] = x /\ docs'[f.key][old] = None
        /\ \A l \in Keys : l # f.key => Stays(l)
    BY <1>1, <2>1, Types DEF Stays
  <2>5. CASE k = f.key
    <3>1. docs[k][old] \in LatestDocs(k)
      BY <1>2, <2>2, <2>5, LatestOfTwo DEF IInv
    <3>2. x \in LatestDocs(k)'
      BY <2>3, <2>4, <2>5, LatestOfTwoNext
    <3> QED
      BY <2>3, <2>5, <3>1, <3>2 DEF KeepsLatestEdit
  <2>6. CASE k # f.key
    BY <2>4, <2>6, StaysLatest
  <2> QED
    BY <2>5, <2>6
<1>3. CASE ~(StillThere(f) /\ docs[f.key][Latest] = None)
  <2>1. docs' = docs
    BY <1>1, <1>3 DEF UpdateDoc
  <2> QED
    BY <2>1, StaysLatest DEF Stays
<1> QED
  BY <1>2, <1>3

LEMMA ReplaceKeepsEdit ==
    ASSUME NEW old, Upgrade(old), Upgrade(old)', IInv, PassInv, EditInv(old), TypeOK',
           NEW p \in Pods, Replace(p),
           NEW k \in Keys, k \notin raced
    PROVE  KeepsLatestEdit(k)
<1> DEFINE f == pod[p].stale
           c == docs[k][Latest]
           d == docs[k][old]
           e == docs'[k][Latest]
<1>1. CASE k # f.key
  BY <1>1, ReplaceDoes, StaysLatest
<1>2. CASE k = f.key
  <2>1. /\ f \in Found /\ Holds(p, f) /\ f.doc \in Docs
        /\ docs'[k][old] = d
        /\ Merging(c, f, pod[p].sibling)
        /\ e \in Docs /\ SameEdit(e, f.doc)
    BY <1>2, ReplaceDoes
  <2>2. d \in {f.doc, None}
    BY <1>2, <2>1, EditRead
  <2>3. c \in Docs
    BY <2>1, VersionsKnown DEF Merging, IInv, TypeOK
  <2>4. e \in LatestDocs(k)'
    <3>1. d # None => ~Later(d.date, e.date)
      BY <2>1, <2>2, LaterOrders DEF SameEdit
    <3> QED
      BY <2>1, <3>1, LatestOfTwoNext
  <2>5. CASE Later(f.doc.date, c.date) /\ d = f.doc
    <3>1. d \in LatestDocs(k)
      BY <2>1, <2>5, LatestOfTwo DEF IInv
    <3> QED
      BY <2>1, <2>4, <2>5, <3>1 DEF KeepsLatestEdit, SameEdit
  <2>6. CASE ~(Later(f.doc.date, c.date) /\ d = f.doc)
    <3>1. c \in LatestDocs(k)
      BY <2>1, <2>2, <2>3, <2>6, LatestOfTwo DEF IInv
    <3>2. e.text = c.text \/ ModifiedAfter(e, c)
      BY <2>1, <2>3, LaterOrders DEF Merging, SameEdit, ModifiedAfter, Later
    <3> QED
      BY <2>4, <3>1, <3>2 DEF KeepsLatestEdit
  <2> QED
    BY <2>5, <2>6
<1> QED
  BY <1>1, <1>2

LEMMA DeleteKeepsEdit ==
    ASSUME NEW old, Upgrade(old), Upgrade(old)', IInv, PassInv, EditInv(old), TypeOK',
           NEW p \in Pods, DeleteStale(p),
           NEW k \in Keys, k \notin raced
    PROVE  KeepsLatestEdit(k)
<1> DEFINE f == pod[p].stale
           e == docs[k][Latest]
<1>1. CASE k # f.key
  BY <1>1, DeleteDoes, StaysLatest
<1>2. CASE k = f.key
  <2>1. /\ f \in Found /\ Settled(e, f) /\ docs'[k][Latest] = e
        /\ docs[k][old] \in {f.doc, None}
    BY <1>2, DeleteDoes
  <2>2. e \in LatestDocs(k)
    BY <2>1, LatestOfTwo DEF IInv, Settled
  <2>3. docs'[k][old] \in {docs[k][old], None}
    <3>1. k \in Keys /\ f.version \in Versions
      BY <1>2, <2>1 DEF Found
    <3>2. DocsFewer
      BY <1>2, <3>1, PutNone, SameDocs DEF DeleteStale
    <3> QED
      BY <3>2, UpgradeVersions DEF DocsFewer
  <2>4. e \in LatestDocs(k)'
    BY <2>1, <2>3, LatestOfTwoNext DEF Settled
  <2> QED
    BY <2>2, <2>4 DEF KeepsLatestEdit
<1> QED
  BY <1>1, <1>2

LEMMA EditKept ==
    ASSUME NEW old, Upgrade(old), IInv, PassInv, EditInv(old), [Next]_vars, edits' = edits,
           NEW k \in Keys, k \notin raced
    PROVE  KeepsLatestEdit(k)
<1>1. TypeOK' /\ Upgrade(old)'
  BY NextIInv, NextUpgrade DEF IInv
<1>2. CASE docs' = docs
  BY <1>2, StaysLatest DEF Stays
<1>3. CASE docs' # docs
  <2>1. PICK p \in Pods :
          \/ \E l \in Keys : Save(p, l) \/ Remove(p, l)
          \/ UpdateDoc(p) \/ Replace(p) \/ DeleteStale(p)
    BY <1>3 DEF Next, vars, BeginPass, BeginManual, BeginAt, IntervalElapses, Repair, FindStale,
       PickDoc, Refind, PassUnauthorized, Fails, PassFails, PassCancelled, Restart
  <2>2. ~(\E l \in Keys : Save(p, l) \/ Remove(p, l))
    <3>1. edits \in Nat /\ edits + 1 # edits
      BY Types
    <3> QED
      BY <3>1 DEF Save, Remove
  <2> QED
    BY <1>1, <2>1, <2>2, MoveKeepsEdit, ReplaceKeepsEdit, DeleteKeepsEdit
<1> QED
  BY <1>2, <1>3

(* While one release replaces another, and documents have no other         *)
(* version, moving, merging and deleting them keeps the latest edit of     *)
(* every identity, or a later one, whoever repairs at once, fails or       *)
(* restarts: it is lost only if the identity was saved or deleted while    *)
(* passes were running (_repair_collection, _reconcile_conflict).          *)
THEOREM LatestEditSurvives ==
    ASSUME NEW old \in Versions, old < Latest, NoneBetween(old)
    PROVE  Spec /\ OnlyVersions(old) => LatestEditKeptUnlessRaced
<1> DEFINE Inv == Upgrade(old) /\ PassInv /\ EditInv(old)
<1>1. Init /\ OnlyVersions(old) => Inv
  BY InitUpgrade, InitPassInv, InitEditInv
<1>2. IInv /\ Inv /\ [Next]_vars => Inv'
  BY UpgradeVersions, NextUpgrade, NextPassInv, NextEditInv
<1>3. IInv /\ Inv /\ [Next]_vars =>
        [edits' = edits => \A k \in Keys \ raced : KeepsLatestEdit(k)]_vars
  BY EditKept
<1> HIDE DEF Inv
<1> QED
  BY <1>1, <1>2, <1>3, SpecIInv, PTL DEF Spec, LatestEditKeptUnlessRaced

-----------------------------------------------------------------------------
(***************************************************************************)
(* The latest edit at any number of versions, while one loader repairs:    *)
(* the others are read-only or find nothing older than themselves.  Then   *)
(* what the loader r has in hand of an identity that nobody edits is what  *)
(* is stored, and what it has decided by the current document holds on.    *)
(***************************************************************************)
OthersIdle(r, old) == \A q \in Pods \ {r} : q \in ReadOnly \/ Version[q] = old

OnlyRepairer(r, old) ==
    /\ old \in Versions
    /\ r \in Pods /\ Version[r] = Latest
    /\ OthersIdle(r, old)
    /\ NothingOlder(old)
    /\ \A q \in Pods \ {r}, f \in Found : Holds(q, f) => q \in ReadOnly

Decided(s, e, f) ==
    /\ s.pc # "refind"
    /\ s.pc = "update" => e = None
    /\ s.pc = "replace" => e # None /\ e.id = s.sibling /\ Later(f.doc.date, e.date)
    /\ s.pc = "delete" => Settled(e, f)

RestsEmptyHanded(r) ==
    pod[r].pc \in {"idle", "find"} => \A f \in Found : ~Holds(r, f)

HeldIsStored(r) ==
    \A f \in Found : Holds(r, f) /\ f.key \notin raced => docs[f.key][f.version] = f.doc

DecidedRightly(r) ==
    \A f \in Found :
        pod[r].stale = f /\ f.key \notin raced =>
            f \notin pod[r].todo /\ Decided(pod[r], docs[f.key][Latest], f)

AloneInv(r) == RestsEmptyHanded(r) /\ HeldIsStored(r) /\ DecidedRightly(r)

(***************************************************************************)
(* The others stay idle.                                                   *)
(***************************************************************************)
LEMMA InitOnlyRepairer ==
    ASSUME NEW r \in Pods, NEW old \in Versions, Version[r] = Latest, OthersIdle(r, old),
           NothingOlder(old), Init
    PROVE  OnlyRepairer(r, old) /\ AloneInv(r)
<1>1. \A q \in Pods, f \in Found : ~Holds(q, f)
  BY DEF Init, Holds, Restarted
<1> QED
  BY <1>1 DEF OnlyRepairer, AloneInv, RestsEmptyHanded, HeldIsStored, DecidedRightly, Holds

LEMMA NextOnlyRepairer ==
    ASSUME NEW r, NEW old, OnlyRepairer(r, old), IInv, [Next]_vars
    PROVE  OnlyRepairer(r, old)'
<1>1. old \in Versions /\ old <= old /\ old <= Latest
  BY VersionsKnown DEF OnlyRepairer
<1>2. \A p \in Pods \ ReadOnly : Version[p] \in {old, Latest}
  BY DEF OnlyRepairer, OthersIdle
<1>3. NothingOlder(old)'
  <2> SUFFICES ASSUME NEW k \in Keys, NEW w \in Versions, docs'[k][w] # None
               PROVE  old <= w
    BY DEF NothingOlder
  <2> QED
    BY <1>1, <1>2, WritesAtOwn DEF OnlyRepairer, NothingOlder
<1>4. ASSUME NEW q \in Pods \ {r}, NEW f \in Found, Holds(q, f)'
      PROVE  q \in ReadOnly
  <2>1. CASE Holds(q, f)
    BY <2>1 DEF OnlyRepairer
  <2>2. CASE FoundNow(q, f)
    <3>1. f.key \in Keys /\ f.version \in Versions /\ f.doc # None
      BY DEF Found
    <3>2. old <= f.version /\ f.version < Version[q]
      BY <2>2, <3>1 DEF FoundNow, OnlyRepairer, NothingOlder
    <3>3. Version[q] # old
      BY <1>1, <3>1, <3>2, VersionsKnown
    <3> QED
      BY <3>3 DEF OnlyRepairer, OthersIdle
  <2> QED
    BY <1>4, <2>1, <2>2, NextFinds DEF FindsCarried
<1> QED
  BY <1>3, <1>4 DEF OnlyRepairer, OthersIdle

(* Whoever writes in a pass is the one loader.                             *)
LEMMA OthersWriteNot ==
    ASSUME IInv, NEW r, NEW old, OnlyRepairer(r, old), NEW p \in Pods,
           UpdateDoc(p) \/ Replace(p) \/ DeleteStale(p)
    PROVE  p = r
<1>1. pod[p].pc \in Holding /\ p \notin ReadOnly
  BY DEF UpdateDoc, Replace, DeleteStale, Holding
<1>2. pod[p].stale \in Found /\ Holds(p, pod[p].stale)
  BY <1>1, HeldStale
<1> QED
  BY <1>1, <1>2 DEF OnlyRepairer

(***************************************************************************)
(* AloneInv is kept.                                                       *)
(***************************************************************************)
(* The loader stays where it is.                                           *)
LEMMA WaitsAlone ==
    ASSUME IInv, NEW r \in Pods, AloneInv(r), raced \subseteq raced',
           pod'[r].pc = pod[r].pc, pod'[r].todo = pod[r].todo,
           pod'[r].stale = pod[r].stale, pod'[r].sibling = pod[r].sibling,
           \A k \in Keys : k \notin raced' => Stays(k)
    PROVE  AloneInv(r)'
<1>1. \A f \in Found : f.key \in Keys /\ f.version \in Versions /\ Latest \in Versions
  BY VersionsKnown DEF Found
<1>2. \A f \in Found : f.key \notin raced' =>
        /\ docs'[f.key][f.version] = docs[f.key][f.version]
        /\ docs'[f.key][Latest] = docs[f.key][Latest]
  BY <1>1 DEF Stays
<1>3. \A f \in Found : Holds(r, f)' <=> Holds(r, f)
  BY DEF Holds
<1>4. HeldIsStored(r)'
  BY <1>2, <1>3 DEF AloneInv, HeldIsStored
<1>5. DecidedRightly(r)'
  BY <1>2 DEF AloneInv, DecidedRightly, Decided
<1> QED
  BY <1>3, <1>4, <1>5 DEF AloneInv, RestsEmptyHanded

(* The loader goes on, and what it still has in hand is not disturbed.     *)
LEMMA GoesOnAlone ==
    ASSUME IInv, NEW r \in Pods, AloneInv(r), FindsCarried, raced' = raced,
           pod'[r].pc \in {"idle", "find"} => \A f \in Found : ~Holds(r, f)',
           \A f \in Found : Holds(r, f)' /\ f.key \notin raced =>
               docs'[f.key][f.version] = docs[f.key][f.version],
           \A f \in Found : pod'[r].stale = f /\ f.key \notin raced =>
               f \notin pod'[r].todo /\ Decided(pod'[r], docs'[f.key][Latest], f)
    PROVE  AloneInv(r)'
<1>1. HeldIsStored(r)'
  BY DEF AloneInv, HeldIsStored, FindsCarried, FoundNow
<1>2. DecidedRightly(r)'
  BY DEF DecidedRightly
<1>3. RestsEmptyHanded(r)'
  BY DEF RestsEmptyHanded
<1> QED
  BY <1>1, <1>2, <1>3 DEF AloneInv

(* It is between two documents, or over.                                   *)
LEMMA BetweenAlone ==
    ASSUME IInv, NEW r \in Pods, AloneInv(r), FindsCarried, raced' = raced,
           NEW s, NEW rest, Between(s, rest), pod'[r] = s,
           s.pc \in {"idle", "find"} => s.todo = {},
           \A f \in Found : f \in rest /\ f.key \notin raced =>
               docs'[f.key][f.version] = docs[f.key][f.version]
    PROVE  AloneInv(r)'
<1>1. \A f \in Found : f # None
  OBVIOUS
<1>2. \A f \in Found : Holds(r, f)' => f \in s.todo /\ f \in rest
  BY <1>1 DEF Holds, Between
<1>3. \A f \in Found : pod'[r].stale # f
  BY <1>1 DEF Between
<1> QED
  BY <1>2, <1>3, GoesOnAlone

LEMMA BeginAtAlone ==
    ASSUME IInv, NEW r \in Pods, AloneInv(r),
           NEW p \in Pods, NEW manual \in BOOLEAN, BeginAt(p, manual)
    PROVE  AloneInv(r)'
<1>1. pod \in [Pods -> PodStates] /\ pod[p] \in PodStates /\ docs' = docs /\ pod[p].pc = "idle"
  BY DEF IInv, TypeOK, BeginAt
<1>2. /\ pod'[p].pc = "find" /\ pod'[p].todo = pod[p].todo /\ pod'[p].stale = pod[p].stale
      /\ \A q \in Pods : q # p => pod'[q] = pod[q]
  BY <1>1 DEF BeginAt, PodStates
<1>3. CASE p # r /\ raced' = raced
  BY <1>1, <1>2, <1>3, WaitsAlone DEF Stays
<1>4. CASE pod[r].pc = "idle"
  <2>1. \A f \in Found : ~Holds(r, f)
    BY <1>4 DEF AloneInv, RestsEmptyHanded
  <2>2. pod'[r].todo = pod[r].todo /\ pod'[r].stale = pod[r].stale
    BY <1>2
  <2>3. \A f \in Found : ~Holds(r, f)' /\ pod'[r].stale # f
    BY <2>1, <2>2 DEF Holds
  <2> QED
    BY <2>3 DEF AloneInv, RestsEmptyHanded, HeldIsStored, DecidedRightly
<1> QED
  BY <1>1, <1>3, <1>4 DEF BeginAt

LEMMA CallAlone ==
    ASSUME IInv, NEW r \in Pods, AloneInv(r), NEW p \in Pods, NEW k \in Keys,
           Save(p, k) \/ Remove(p, k)
    PROVE  AloneInv(r)'
<1>1. PICK x : Put(k, Version[p], x)
  BY DEF Save, Remove
<1>2. pod' = pod /\ raced' = raced \cup {k}
  BY DEF Save, Remove
<1>3. \A l \in Keys : l # k => Stays(l)
  BY <1>1, Types DEF Put, Stays
<1> QED
  BY <1>2, <1>3, WaitsAlone

LEMMA FailsAlone ==
    ASSUME IInv, NEW r \in Pods, AloneInv(r), Fails(r) \/ PassUnauthorized(r)
    PROVE  AloneInv(r)'
<1>1. FindsCarried /\ raced' = raced
  BY FailsKeeps, PassUnauthorizedKeeps
     DEF Fails, PassFails, PassCancelled, Restart, PassUnauthorized
<1>2. \E s : Between(s, {}) /\ pod' = [pod EXCEPT ![r] = s]
  <2>1. CASE Fails(r)
    BY <2>1, EndedFits, RestartedFits, PodStateFields
       DEF Fails, PassFails, PassCancelled, Restart
  <2>2. CASE PassUnauthorized(r)
    <3> DEFINE e    == Ended(r, FALSE)
               auto == e.auto /\ pod[r].manual
    <3>1. Between(e, {}) /\ auto \in BOOLEAN
      BY EndedFits, PodStateFields DEF Between, PodStates
    <3>2. pod' = [pod EXCEPT ![r] = [e EXCEPT !.auto = auto]]
      BY Zenon, <2>2 DEF PassUnauthorized
    <3> HIDE DEF e, auto
    <3> QED
      BY <3>1, <3>2, AutoSet
  <2> QED
    BY <2>1, <2>2
<1>3. PICK s : Between(s, {}) /\ pod' = [pod EXCEPT ![r] = s]
  BY <1>2
<1>4. pod'[r] = s /\ s.todo = {}
  BY <1>3, OneSteps DEF Between
<1> QED
  BY <1>1, <1>3, <1>4, BetweenAlone

LEMMA FindStaleAlone ==
    ASSUME IInv, NEW r \in Pods, AloneInv(r), FindStale(r)
    PROVE  AloneInv(r)'
<1>1. FindsCarried /\ docs' = docs /\ raced' = raced
  BY FindStaleKeeps DEF FindStale
<1>2. CASE pod' = [pod EXCEPT ![r] = NextCollection(r, FALSE)]
  <2>1. Between(NextCollection(r, FALSE), {}) /\ NextCollection(r, FALSE).todo = {}
    BY NextCollectionFits DEF Between
  <2>2. pod'[r] = NextCollection(r, FALSE)
    BY <1>2, OneSteps
  <2> QED
    BY <1>1, <2>1, <2>2, BetweenAlone
<1>3. CASE \E batch \in Batches(r, Stale(r, pod[r].stage)) :
             pod' = [pod EXCEPT ![r].pc = "pick", ![r].todo = batch,
                                ![r].truncated = Full(r, batch)]
  <2>1. pod \in [Pods -> PodStates] /\ pod[r] \in PodStates /\ pod[r].pc = "find"
    BY DEF IInv, TypeOK, FindStale
  <2>2. PICK batch, full :
             pod' = [pod EXCEPT ![r].pc = "pick", ![r].todo = batch, ![r].truncated = full]
    BY <1>3
  <2>3. pod'[r].pc = "pick" /\ pod'[r].stale = pod[r].stale
    BY <2>1, <2>2 DEF PodStates
  <2>4. \A f \in Found : pod'[r].stale # f
    BY <2>1, <2>3 DEF AloneInv, RestsEmptyHanded, Holds
  <2> QED
    BY <1>1, <2>3, <2>4, GoesOnAlone
<1> QED
  BY <1>2, <1>3 DEF FindStale

LEMMA ContinuingRests ==
    ASSUME IInv, NEW p \in Pods, NEW rest
    PROVE  Continuing(p, rest).pc \in {"idle", "find"} => Continuing(p, rest).todo = {}
<1>1. CASE rest = {}
  BY <1>1, NextCollectionFits, PodStateFields DEF Continuing, Between
<1>2. CASE rest # {}
  <2>1. Continuing(p, rest) =
          [pod[p] EXCEPT !.pc = "pick", !.todo = rest, !.stale = None, !.sibling = None]
    BY <1>2 DEF Continuing
  <2>2. Continuing(p, rest).pc = "pick"
    BY <2>1, PodStateFields DEF PodStates
  <2> QED
    BY <2>2
<1> QED
  BY <1>1, <1>2

(* It skips a document, and the documents stay.                            *)
LEMMA SkipAlone ==
    ASSUME IInv, NEW r \in Pods, AloneInv(r), FindsCarried, NEW f \in Found,
           NEW rest \in SUBSET Found, Skip(r, f, Continuing(r, rest)),
           docs' = docs, raced' = raced
    PROVE  AloneInv(r)'
<1> DEFINE next == Continuing(r, rest)
           auto == next.auto /\ Cardinality(skipped[r] \cup {<<f.key, f.doc.id>>}) <= MaxSkipped
           s    == [next EXCEPT !.auto = auto]
<1>1. Between(next, rest) /\ (next.pc \in {"idle", "find"} => next.todo = {})
  BY ContinuingFits, ContinuingRests
<1>2. pod' = [pod EXCEPT ![r] = s] /\ auto \in BOOLEAN
  BY Zenon, <1>1 DEF Skip
<1> HIDE DEF auto, next
<1>3. Between(s, rest) /\ s.pc = next.pc /\ s.todo = next.todo
  BY <1>1, <1>2, AutoSet DEF Between, PodStates
<1> HIDE DEF s
<1>4. pod'[r] = s
  BY <1>2, OneSteps
<1> QED
  BY <1>1, <1>3, <1>4, BetweenAlone

(* It decides by the document that is stored.                              *)
LEMMA ReconcilingAlone ==
    ASSUME IInv, NEW r \in Pods, Version[r] = Latest, AloneInv(r), FindsCarried, NEW f \in Found,
           docs[f.key][Latest] # None,
           pod' = [pod EXCEPT ![r] = Reconciling(r, f, docs[f.key][Latest])],
           docs' = docs, raced' = raced
    PROVE  AloneInv(r)'
<1> DEFINE d == docs[f.key][Latest]
           s == Reconciling(r, f, d)
<1>1. pod[r] \in PodStates /\ pod'[r] = s
  BY PodStateFields, OneSteps
<1>2. /\ s.pc \in {"replace", "delete"}
      /\ s.pc = "replace" => Later(f.doc.date, d.date)
      /\ s.pc = "delete" => ~Later(f.doc.date, d.date)
      /\ s.todo = pod[r].todo \ {f} /\ s.stale = f /\ s.sibling = d.id
  <2> HIDE DEF d
  <2> QED
    BY <1>1 DEF Reconciling, PodStates
<1> HIDE DEF s
<1>3. f \notin s.todo /\ Decided(s, docs[f.key][Latest], f)
  BY <1>2 DEF Decided, Settled
<1> HIDE DEF d
<1> QED
  BY <1>1, <1>2, <1>3, GoesOnAlone

LEMMA PickDocAlone ==
    ASSUME IInv, NEW r \in Pods, Version[r] = Latest, AloneInv(r), PickDoc(r)
    PROVE  AloneInv(r)'
<1>1. pod \in [Pods -> PodStates] /\ pod[r] \in PodStates
  BY DEF IInv, TypeOK
<1>2. PICK f \in pod[r].todo :
        IF IsBroken(f) THEN Skip(r, f, Continuing(r, pod[r].todo \ {f}))
        ELSE /\ UNCHANGED skipped
             /\ pod' = [pod EXCEPT ![r] =
                   IF docs[f.key][Latest] # None
                   THEN Reconciling(r, f, docs[f.key][Latest])
                   ELSE [pod[r] EXCEPT !.pc = "update", !.todo = @ \ {f}, !.stale = f]]
  BY DEF PickDoc
<1>3. /\ f \in Found /\ docs' = docs /\ raced' = raced
      /\ FindsCarried /\ pod[r].todo \ {f} \in SUBSET Found
  BY PodStateFields, PickDocKeeps DEF PickDoc
<1>4. CASE IsBroken(f)
  BY <1>2, <1>3, <1>4, SkipAlone
<1>5. CASE ~IsBroken(f) /\ docs[f.key][Latest] # None
  BY <1>2, <1>3, <1>5, ReconcilingAlone
<1>6. CASE ~IsBroken(f) /\ docs[f.key][Latest] = None
  <2> DEFINE s == [pod[r] EXCEPT !.pc = "update", !.todo = @ \ {f}, !.stale = f]
  <2>1. /\ pod' = [pod EXCEPT ![r] = s]
        /\ s.pc = "update" /\ s.todo = pod[r].todo \ {f} /\ s.stale = f
    BY <1>1, <1>2, <1>6 DEF PodStates
  <2> HIDE DEF s
  <2>2. pod'[r] = s
    BY <2>1, OneSteps
  <2>3. f \notin s.todo /\ Decided(s, docs[f.key][Latest], f)
    BY <1>6, <2>1 DEF Decided
  <2> QED
    BY <1>3, <2>1, <2>2, <2>3, GoesOnAlone
<1> QED
  BY <1>4, <1>5, <1>6

LEMMA RefindAlone ==
    ASSUME IInv, NEW r \in Pods, Version[r] = Latest, AloneInv(r), Refind(r)
    PROVE  AloneInv(r)'
<1> DEFINE f == pod[r].stale
<1>1. /\ f \in Found /\ docs' = docs /\ raced' = raced
      /\ FindsCarried /\ pod[r].todo \in SUBSET Found
  BY HeldStale, RefindKeeps, PodStateFields DEF Holding, Refind
<1>2. CASE docs[f.key][Latest] = None
  <2>1. Skip(r, f, Continuing(r, pod[r].todo))
    BY <1>2 DEF Refind
  <2> HIDE DEF f
  <2> QED
    BY <1>1, <2>1, SkipAlone
<1>3. CASE docs[f.key][Latest] # None
  <2>1. pod' = [pod EXCEPT ![r] = Reconciling(r, f, docs[f.key][Latest])]
    BY <1>3 DEF Refind
  <2> HIDE DEF f
  <2> QED
    BY <1>1, <1>3, <2>1, ReconcilingAlone
<1> QED
  BY <1>2, <1>3

(* What the loader has in hand besides the stale document is stored        *)
(* elsewhere.                                                              *)
LEMMA RestElsewhere ==
    ASSUME IInv, NEW r \in Pods, AloneInv(r), NEW f \in Found, pod[r].stale = f,
           f.key \notin raced,
           NEW g \in Found, g \in pod[r].todo, g.key = f.key
    PROVE  g.version # f.version
<1>1. f \notin pod[r].todo
  BY DEF AloneInv, DecidedRightly
<1>2. docs[f.key][f.version] = f.doc /\ docs[g.key][g.version] = g.doc
  BY DEF AloneInv, HeldIsStored, Holds
<1>3. g.version = f.version => g = f
  BY <1>2 DEF Found
<1> QED
  BY <1>1, <1>3

(* It is done with the stale document, and no other place below the newest *)
(* version has changed.                                                    *)
LEMMA DoneAlone ==
    ASSUME IInv, NEW r \in Pods, AloneInv(r), FindsCarried, raced' = raced,
           pod' = [pod EXCEPT ![r] = Continuing(r, pod[r].todo)],
           NEW f \in Found, pod[r].stale = f,
           \A k \in Keys, w \in Versions :
               k # f.key \/ w \notin {f.version, Latest} => docs'[k][w] = docs[k][w]
    PROVE  AloneInv(r)'
<1> DEFINE rest == pod[r].todo
           s    == Continuing(r, rest)
<1>1. pod'[r] = s
  BY OneSteps
<1>2. rest \in SUBSET Found
  BY PodStateFields
<1>3. Between(s, rest)
  BY <1>2, ContinuingFits
<1>4. s.pc \in {"idle", "find"} => s.todo = {}
  BY ContinuingRests
<1>5. ASSUME NEW g \in Found, g \in rest, g.key \notin raced
      PROVE  docs'[g.key][g.version] = docs[g.key][g.version]
  <2>1. g.key \in Keys /\ g.version \in Versions /\ g.version < Version[r]
    BY <1>5 DEF Found, IInv, TextsMoveUp, Holds
  <2>2. g.version # Latest
    BY <2>1, BelowLatest, VersionsKnown
  <2> QED
    BY <1>5, <2>1, <2>2, RestElsewhere
<1>6. \A g \in Found : g \in rest /\ g.key \notin raced =>
        docs'[g.key][g.version] = docs[g.key][g.version]
  BY <1>5
<1> HIDE DEF s, rest
<1> QED
  BY <1>1, <1>3, <1>4, <1>6, BetweenAlone

LEMMA UpdateDocAlone ==
    ASSUME IInv, NEW r \in Pods, Version[r] = Latest, AloneInv(r), UpdateDoc(r)
    PROVE  AloneInv(r)'
<1> DEFINE f == pod[r].stale
<1>1. pod \in [Pods -> PodStates] /\ pod[r] \in PodStates /\ pod[r].pc = "update"
  BY DEF IInv, TypeOK, UpdateDoc
<1>2. /\ f \in Found /\ f.key \in Keys /\ f.version \in Versions
      /\ raced' = raced /\ FindsCarried
  BY <1>1, HeldStale, UpdateDocKeeps DEF Holding, UpdateDoc
<1>3. CASE StillThere(f) /\ docs[f.key][Latest] # None
  <2>1. pod' = [pod EXCEPT ![r].pc = "refind"] /\ docs' = docs
    BY <1>3 DEF UpdateDoc
  <2>2. pod'[r].pc = "refind" /\ pod'[r].stale = f
    BY <1>1, <2>1 DEF PodStates
  <2>3. f.key \in raced
    BY <1>1, <1>2, <1>3 DEF AloneInv, DecidedRightly, Decided
  <2> HIDE DEF f
  <2> QED
    BY <1>2, <2>1, <2>2, <2>3, GoesOnAlone
<1>4. CASE StillThere(f) /\ docs[f.key][Latest] = None
  <2> DEFINE x == Migrated(docs[f.key][f.version], f.doc, Latest)
  <2>1. /\ docs' = [docs EXCEPT ![f.key][f.version] = None, ![f.key][Latest] = x]
        /\ pod' = [pod EXCEPT ![r] = Continuing(r, pod[r].todo)]
    BY <1>4 DEF UpdateDoc
  <2> HIDE DEF x, f
  <2>2. \A k \in Keys, w \in Versions :
          k # f.key \/ w \notin {f.version, Latest} => docs'[k][w] = docs[k][w]
    BY <1>2, <2>1, Types
  <2> QED
    BY <1>2, <2>1, <2>2, DoneAlone DEF f
<1>5. CASE ~StillThere(f)
  <2>1. docs' = docs /\ pod' = [pod EXCEPT ![r] = Continuing(r, pod[r].todo)]
    BY <1>5 DEF UpdateDoc
  <2> QED
    BY <1>2, <2>1, DoneAlone
<1> QED
  BY <1>3, <1>4, <1>5

LEMMA DeleteStaleAlone ==
    ASSUME IInv, NEW r \in Pods, AloneInv(r), DeleteStale(r)
    PROVE  AloneInv(r)'
<1> DEFINE f == pod[r].stale
<1>1. /\ f \in Found /\ f.key \in Keys /\ f.version \in Versions
      /\ raced' = raced /\ FindsCarried
      /\ pod' = [pod EXCEPT ![r] = Continuing(r, pod[r].todo)]
  BY HeldStale, DeleteStaleKeeps DEF Holding, DeleteStale
<1>2. \A k \in Keys, w \in Versions :
        k # f.key \/ w \notin {f.version, Latest} => docs'[k][w] = docs[k][w]
  <2>1. docs' = docs \/ Put(f.key, f.version, None)
    BY DEF DeleteStale
  <2> HIDE DEF f
  <2> QED
    BY <2>1, Types DEF Put
<1>3. pod[r].stale = f
  OBVIOUS
<1> HIDE DEF f
<1> QED
  BY <1>1, <1>2, <1>3, DoneAlone

LEMMA ReplaceAlone ==
    ASSUME IInv, NEW r \in Pods, Version[r] = Latest, AloneInv(r), Replace(r)
    PROVE  AloneInv(r)'
<1> DEFINE f  == pod[r].stale
           id == pod[r].sibling
           x  == [Migrated(f.doc, f.doc, Latest) EXCEPT !.id = id]
<1>1. /\ f \in Found /\ f.key \in Keys /\ f.doc \in Docs /\ id \in Stamps
      /\ raced' = raced /\ FindsCarried
  BY HeldStale, ReplaceKeeps DEF Holding, Replace, IInv, PodsFit
<1>2. /\ pod[r].pc = "replace" /\ pod'[r].pc = "delete"
      /\ pod'[r].stale = f /\ pod'[r].todo = pod[r].todo
  BY DEF IInv, TypeOK, PodStates, Replace
<1>3. \A k \in Keys, w \in Versions : k # f.key \/ w # Latest => docs'[k][w] = docs[k][w]
  <2>1. docs' = docs \/ \E y : Put(f.key, Latest, y)
    BY DEF Replace
  <2>2. ASSUME NEW y, NEW l, docs' = [docs EXCEPT ![l][Latest] = y]
        PROVE  \A k \in Keys, w \in Versions : k # l \/ w # Latest => docs'[k][w] = docs[k][w]
    BY <2>2, Types
  <2> QED
    BY Zenon, <2>1, <2>2 DEF Put
<1>4. ASSUME NEW g \in Found, Holds(r, g)'
      PROVE  docs'[g.key][g.version] = docs[g.key][g.version]
  <2>1. Holds(r, g)
    BY <1>2, <1>4 DEF Holds
  <2>2. g.key \in Keys /\ g.version \in Versions /\ g.version < Version[r]
    BY <2>1 DEF Found, IInv, TextsMoveUp
  <2>3. g.version # Latest
    BY <2>2, BelowLatest, VersionsKnown
  <2> QED
    BY <1>3, <2>2, <2>3
<1>5. ASSUME f.key \notin raced
      PROVE  f \notin pod'[r].todo /\ Decided(pod'[r], docs'[f.key][Latest], f)
  <2>1. /\ f \notin pod[r].todo
        /\ docs[f.key][Latest] # None /\ docs[f.key][Latest].id = id
    BY <1>1, <1>2, <1>5 DEF AloneInv, DecidedRightly, Decided
  <2>2. Put(f.key, Latest, x)
    BY <2>1 DEF Replace
  <2>3. x \in Docs /\ x.date = f.doc.date
    <3>1. /\ Migrated(f.doc, f.doc, Latest) \in Docs
          /\ Same(Migrated(f.doc, f.doc, Latest), f.doc)
      BY <1>1, VersionsKnown, MigratedFits
    <3> QED
      BY <1>1, <3>1 DEF Same, Docs
  <2> HIDE DEF x
  <2>4. docs'[f.key][Latest] = x /\ x # None
    BY <1>1, <2>2, <2>3, PutOne, VersionsKnown
  <2>5. ~Later(f.doc.date, x.date)
    BY <1>1, <2>3, FieldsOfDocs DEF Later
  <2> QED
    BY <1>2, <2>1, <2>4, <2>5 DEF Decided, Settled
<1> HIDE DEF f
<1> QED
  BY <1>1, <1>2, <1>4, <1>5, GoesOnAlone

(* Repair by one loader moves no other.                                    *)
LEMMA OthersStay ==
    ASSUME IInv, NEW p \in Pods, NEW r \in Pods, r # p,
           \/ FindStale(p) \/ PickDoc(p) \/ Refind(p) \/ PassUnauthorized(p)
           \/ PassFails(p) \/ PassCancelled(p) \/ Restart(p)
    PROVE  pod'[r] = pod[r]
<1>1. pod \in [Pods -> PodStates]
  BY DEF IInv, TypeOK
<1>2. CASE FindStale(p)
  BY <1>1, <1>2 DEF FindStale
<1>3. CASE PickDoc(p)
  BY <1>1, <1>3 DEF PickDoc, Skip
<1>4. CASE Refind(p)
  BY <1>1, <1>4 DEF Refind, Skip
<1>5. CASE PassUnauthorized(p) \/ PassFails(p) \/ PassCancelled(p) \/ Restart(p)
  BY <1>1, <1>5 DEF PassUnauthorized, PassFails, PassCancelled, Restart
<1> QED
  BY <1>2, <1>3, <1>4, <1>5

LEMMA NextAloneInv ==
    ASSUME IInv, NEW r, NEW old, OnlyRepairer(r, old), AloneInv(r), [Next]_vars
    PROVE  AloneInv(r)'
<1>1. r \in Pods /\ Version[r] = Latest
  BY DEF OnlyRepairer
<1>2. CASE UNCHANGED vars
  BY <1>1, <1>2, WaitsAlone DEF vars, Stays
<1>3. ASSUME NEW p \in Pods, NEW k \in Keys, Save(p, k) \/ Remove(p, k) PROVE AloneInv(r)'
  BY <1>1, <1>3, CallAlone
<1>4. ASSUME NEW p \in Pods, BeginPass(p) \/ BeginManual(p) PROVE AloneInv(r)'
  BY <1>1, <1>4, BeginAtAlone DEF BeginPass, BeginManual
<1>5. ASSUME NEW p \in Pods, IntervalElapses(p) PROVE AloneInv(r)'
  <2>1. pod \in [Pods -> PodStates]
    BY DEF IInv, TypeOK
  <2>2. /\ pod'[r].pc = pod[r].pc /\ pod'[r].todo = pod[r].todo
        /\ pod'[r].stale = pod[r].stale /\ pod'[r].sibling = pod[r].sibling
        /\ docs' = docs /\ raced' = raced
    BY <1>1, <1>5, <2>1 DEF IntervalElapses, PodStates
  <2> QED
    BY <1>1, <2>2, WaitsAlone DEF Stays
<1>6. ASSUME Repair(r) \/ Fails(r) PROVE AloneInv(r)'
  BY <1>1, <1>6, FindStaleAlone, PickDocAlone, UpdateDocAlone, RefindAlone, ReplaceAlone,
     DeleteStaleAlone, FailsAlone DEF Repair
<1>7. ASSUME NEW p \in Pods, p # r, Repair(p) \/ Fails(p) PROVE AloneInv(r)'
  <2>1. ~(UpdateDoc(p) \/ Replace(p) \/ DeleteStale(p))
    BY <1>7, OthersWriteNot
  <2>2. \/ FindStale(p) \/ PickDoc(p) \/ Refind(p) \/ PassUnauthorized(p)
        \/ PassFails(p) \/ PassCancelled(p) \/ Restart(p)
    BY <1>7, <2>1 DEF Repair, Fails
  <2>3. docs' = docs /\ raced' = raced
    BY <2>2 DEF FindStale, PickDoc, Refind, PassUnauthorized, PassFails,
       PassCancelled, Restart
  <2>4. pod'[r] = pod[r]
    BY <1>1, <1>7, <2>2, OthersStay
  <2> QED
    BY <1>1, <2>3, <2>4, WaitsAlone DEF Stays
<1> QED
  BY <1>2, <1>3, <1>4, <1>5, <1>6, <1>7 DEF Next

(***************************************************************************)
(* What is the latest edit, at any number of versions.                     *)
(***************************************************************************)
LEMMA HasGreatest ==
    ASSUME NEW S \in SUBSET Nat, S # {}, NEW bound \in Nat, \A m \in S : m <= bound
    PROVE  \E m \in S : \A n \in S : n <= m
<1> DEFINE gaps == {n \in Nat : bound - n \in S}
           less == OpToRel(<, Nat)
<1>1. gaps \subseteq Nat /\ gaps # {}
  <2>1. PICK m \in S : TRUE
    OBVIOUS
  <2>2. m \in Nat /\ bound - m \in Nat /\ bound - (bound - m) = m
    BY <2>1
  <2> QED
    BY <2>2
<1>2. IsWellFoundedOn(less, Nat)
  BY NatLessThanWellFounded
<1>3. PICK n \in gaps : \A m \in gaps : <<m, n>> \notin less
  <2> HIDE DEF gaps, less
  <2> QED
    BY <1>1, <1>2, WFMin
<1>4. n \in Nat /\ bound - n \in S
  BY <1>3
<1>5. ASSUME NEW m \in S PROVE m <= bound - n
  <2>1. m \in Nat /\ bound - m \in Nat /\ bound - (bound - m) = m
    OBVIOUS
  <2>2. bound - m \in gaps
    BY <2>1
  <2>3. ~(bound - m < n)
    BY <1>3, <1>4, <2>1, <2>2 DEF OpToRel
  <2> QED
    BY <1>4, <2>1, <2>3
<1> QED
  BY <1>4, <1>5

(* An old document that is dated after the current one, or has no current  *)
(* one beside it, is the latest edit, or another old one is, dated later.  *)
LEMMA NewestAbove ==
    ASSUME IInv, NEW k \in Keys, NEW v \in Versions \ {Latest}, docs[k][v] # None,
           docs[k][Latest] = None \/ Later(docs[k][v].date, docs[k][Latest].date)
    PROVE  \/ docs[k][v] \in LatestDocs(k)
           \/ \E w \in Versions \ {Latest} :
                /\ docs[k][w] # None /\ docs[k][w] \in LatestDocs(k)
                /\ ModifiedAfter(docs[k][w], docs[k][v])
<1> DEFINE d     == docs[k][v]
           above == {w \in Versions : docs[k][w] # None /\ ModifiedAfter(docs[k][w], d)}
           dates == {docs[k][w].date : w \in above}
<1>1. \A w \in Versions : docs[k][w] # None =>
        /\ docs[k][w] \in Docs
        /\ docs[k][w].date # None => docs[k][w].date \in Nat /\ docs[k][w].date <= clock
  <2> SUFFICES ASSUME NEW w \in Versions, docs[k][w] # None
               PROVE  /\ docs[k][w] \in Docs
                      /\ docs[k][w].date # None =>
                           docs[k][w].date \in Nat /\ docs[k][w].date <= clock
    OBVIOUS
  <2>1. docs[k][w] \in Docs /\ docs[k][w] \in Copies(k)
    BY StoredCopy DEF IInv
  <2> QED
    BY <2>1, FieldsOfDocs DEF IInv, StampsKnown
<1>2. Latest \in Versions /\ clock \in Nat
  BY VersionsKnown, Types
<1>3. Latest \notin above
  BY <1>1, <1>2, LaterOrders
<1>4. CASE above = {}
  <2>1. \A w \in Versions : ~Beats(k, w, v)
    BY <1>1, <1>2, <1>4, LaterOrders DEF Beats
  <2> QED
    BY <2>1 DEF LatestDocs
<1>5. CASE above # {}
  <2>1. dates \in SUBSET Nat /\ dates # {} /\ \A m \in dates : m <= clock
    <3>1. ASSUME NEW w \in above
          PROVE  docs[k][w].date \in Nat /\ docs[k][w].date <= clock
      <4>1. w \in Versions /\ docs[k][w] # None /\ docs[k][w].date # None
        BY DEF ModifiedAfter
      <4> QED
        BY <1>1, <4>1
    <3> HIDE DEF above
    <3>2. PICK w \in above : TRUE
      BY <1>5
    <3>3. docs[k][w].date \in dates
      BY <3>2
    <3> QED
      BY <3>1, <3>3
  <2>2. PICK m \in dates : \A n \in dates : n <= m
    <3> HIDE DEF dates
    <3> QED
      BY <1>2, <2>1, HasGreatest
  <2>3. PICK w \in above : m = docs[k][w].date
    BY <2>2
  <2>4. /\ w \in Versions \ {Latest} /\ docs[k][w] # None
        /\ ModifiedAfter(docs[k][w], d)
    BY <1>3, <2>3
  <2>5. ASSUME NEW u \in Versions PROVE ~Beats(k, u, w)
    <3>1. CASE u \in above
      <4>1. docs[k][u].date <= docs[k][w].date
        BY <2>2, <2>3, <3>1
      <4> QED
        BY <1>1, <1>3, <2>4, <3>1, <4>1 DEF Beats, ModifiedAfter
    <3>2. CASE u = Latest
      <4>1. docs[k][u] # None => ModifiedAfter(d, docs[k][u])
        BY <1>1, <1>2, <3>2, LaterOrders
      <4>2. docs[k][u] # None => ModifiedAfter(docs[k][w], docs[k][u])
        BY <1>1, <2>4, <4>1 DEF ModifiedAfter
      <4> QED
        BY <1>1, <2>4, <4>2, LaterOrders DEF Beats
    <3>3. CASE u \notin above /\ u # Latest
      BY <1>1, <2>4, <3>3 DEF Beats, ModifiedAfter
    <3> QED
      BY <3>1, <3>2, <3>3
  <2>6. docs[k][w] \in LatestDocs(k)
    BY <2>4, <2>5 DEF LatestDocs
  <2> QED
    BY <2>4, <2>6
<1> QED
  BY <1>4, <1>5

(* An old document's edit comes to the newest version, and the document    *)
(* itself stays or goes: the latest edit is kept.                          *)
LEMMA LiftKeepsEdit ==
    ASSUME IInv, NEW k \in Keys, NEW v \in Versions \ {Latest}, docs[k][v] # None,
           docs[k][Latest] = None \/ Later(docs[k][v].date, docs[k][Latest].date),
           docs'[k][Latest] \in Docs, SameEdit(docs'[k][Latest], docs[k][v]),
           docs'[k][v] \in {docs[k][v], None},
           \A w \in Versions : w \notin {v, Latest} => docs'[k][w] = docs[k][w]
    PROVE  KeepsLatestEdit(k)
<1> DEFINE d == docs[k][v]
           x == docs'[k][Latest]
<1>1. \A w \in Versions : docs[k][w] # None => docs[k][w] \in Docs
  BY DEF IInv, TypeOK
<1>2. Latest \in Versions /\ x # None /\ d \in Docs
  BY <1>1, VersionsKnown
<1>3. \A w \in Versions \ {Latest} : docs'[k][w] \in {docs[k][w], None}
  OBVIOUS
<1>4. \A e \in Docs : /\ ModifiedAfter(x, e) <=> ModifiedAfter(d, e)
                      /\ ModifiedAfter(e, x) <=> ModifiedAfter(e, d)
  BY DEF ModifiedAfter, SameEdit
<1>5. CASE d \in LatestDocs(k)
  <2>1. PICK w \in Versions : docs[k][w] = d /\ \A u \in Versions : ~Beats(k, u, w)
    BY <1>5 DEF LatestDocs
  <2>2. ASSUME NEW u \in Versions PROVE ~Beats(k, u, Latest)'
    <3>1. CASE u = Latest
      BY <1>2, <3>1, LaterOrders DEF Beats
    <3>2. CASE u # Latest
      <4>1. docs[k][u] # None => ~ModifiedAfter(docs[k][u], d)
        BY <1>2, <2>1 DEF Beats
      <4> QED
        BY <1>1, <1>3, <1>4, <3>2, <4>1 DEF Beats
    <3> QED
      BY <3>1, <3>2
  <2>3. x \in LatestDocs(k)'
    BY <1>2, <2>2 DEF LatestDocs
  <2> QED
    BY <1>5, <2>3 DEF KeepsLatestEdit, SameEdit
<1>6. ASSUME NEW w \in Versions \ {Latest}, docs[k][w] # None, docs[k][w] \in LatestDocs(k),
             ModifiedAfter(docs[k][w], d)
      PROVE  KeepsLatestEdit(k)
  <2> DEFINE e == docs[k][w]
  <2>1. w # v /\ e \in Docs /\ docs'[k][w] = e
    BY <1>1, <1>2, <1>6, LaterOrders
  <2>2. PICK w2 \in Versions : docs[k][w2] = e /\ \A u \in Versions : ~Beats(k, u, w2)
    BY <1>6 DEF LatestDocs
  <2>3. ASSUME NEW u \in Versions PROVE ~Beats(k, u, w)'
    <3>1. CASE u = Latest
      <4>1. ModifiedAfter(e, x)
        BY <1>4, <1>6, <2>1
      <4> QED
        BY <1>2, <1>6, <2>1, <3>1, <4>1, LaterOrders DEF Beats
    <3>2. CASE u # Latest
      <4>1. docs[k][u] # None => ~ModifiedAfter(docs[k][u], e)
        BY <2>1, <2>2 DEF Beats
      <4> QED
        BY <1>3, <2>1, <3>2, <4>1 DEF Beats
    <3> QED
      BY <3>1, <3>2
  <2>4. e \in LatestDocs(k)'
    BY <1>6, <2>1, <2>3 DEF LatestDocs
  <2> QED
    BY <1>6, <2>4 DEF KeepsLatestEdit
<1> QED
  BY <1>5, <1>6, NewestAbove

(* A document that the current one beats is not the latest edit.           *)
LEMMA DropKeepsEdit ==
    ASSUME IInv, NEW k \in Keys, NEW v \in Versions \ {Latest},
           docs[k][v] # None =>
               docs[k][Latest] # None /\ ~Later(docs[k][v].date, docs[k][Latest].date),
           docs'[k][v] = None,
           \A w \in Versions : w # v => docs'[k][w] = docs[k][w]
    PROVE  KeepsLatestEdit(k)
<1>1. \A w \in Versions : docs[k][w] # None => docs[k][w] \in Docs
  BY DEF IInv, TypeOK
<1>2. docs[k][v] # None => Beats(k, Latest, v)
  BY <1>1, VersionsKnown, LaterOrders DEF Beats
<1>3. ASSUME NEW d \in LatestDocs(k) PROVE d \in LatestDocs(k)'
  <2>1. PICK w \in Versions :
          d = docs[k][w] /\ docs[k][w] # None /\ \A u \in Versions : ~Beats(k, u, w)
    BY DEF LatestDocs
  <2>2. w # v
    BY <1>2, <2>1, VersionsKnown
  <2>3. \A u \in Versions : ~Beats(k, u, w)'
    BY <2>1, <2>2 DEF Beats
  <2> QED
    BY <2>1, <2>2, <2>3 DEF LatestDocs
<1> QED
  BY <1>3 DEF KeepsLatestEdit

(***************************************************************************)
(* The one loader keeps the latest edit.                                   *)
(***************************************************************************)
LEMMA HeldBelow ==
    ASSUME IInv, NEW r \in Pods, AloneInv(r), pod[r].pc \in Holding,
           pod[r].stale.key \notin raced
    PROVE  LET f == pod[r].stale IN
           /\ f \in Found /\ f.key \in Keys /\ f.doc \in Docs
           /\ f.version \in Versions \ {Latest}
           /\ docs[f.key][f.version] = f.doc
           /\ Decided(pod[r], docs[f.key][Latest], f)
<1> DEFINE f == pod[r].stale
<1>1. /\ f \in Found /\ Holds(r, f) /\ f.key \in Keys /\ f.doc \in Docs
      /\ f.version \in Versions /\ f.version < Version[r]
  BY HeldStale
<1>2. f.version # Latest
  BY <1>1, BelowLatest, VersionsKnown
<1> QED
  BY <1>1, <1>2 DEF AloneInv, HeldIsStored, DecidedRightly

LEMMA MoveAloneKeepsEdit ==
    ASSUME IInv, NEW r \in Pods, Version[r] = Latest, AloneInv(r), UpdateDoc(r),
           NEW k \in Keys, k \notin raced
    PROVE  KeepsLatestEdit(k)
<1> DEFINE f == pod[r].stale
           x == Migrated(docs[f.key][f.version], f.doc, Latest)
<1>1. pod[r].pc = "update" /\ f.key \in Keys /\ f.version \in Versions
  BY HeldStale DEF UpdateDoc, Holding
<1>2. CASE ~(StillThere(f) /\ docs[f.key][Latest] = None)
  <2>1. docs' = docs
    BY <1>2 DEF UpdateDoc
  <2> QED
    BY <2>1, StaysLatest DEF Stays
<1>3. CASE StillThere(f) /\ docs[f.key][Latest] = None
  <2>1. docs' = [docs EXCEPT ![f.key][f.version] = None, ![f.key][Latest] = x]
    BY <1>3 DEF UpdateDoc
  <2>2. CASE k # f.key
    <3> HIDE DEF x, f
    <3>1. Stays(k)
      BY <2>1, <2>2, Types DEF Stays
    <3> QED
      BY <3>1, StaysLatest
  <2>3. CASE k = f.key
    <3>1. /\ f.doc \in Docs /\ f.version \in Versions \ {Latest}
          /\ docs[k][f.version] = f.doc /\ docs[k][Latest] = None
      BY <1>1, <1>3, <2>3, HeldBelow DEF Holding
    <3>2. /\ Migrated(f.doc, f.doc, Latest) \in Docs
          /\ Same(Migrated(f.doc, f.doc, Latest), f.doc)
      BY <3>1, VersionsKnown, MigratedFits
    <3>3. x \in Docs /\ SameEdit(x, f.doc)
      BY <2>3, <3>1, <3>2 DEF Same, SameEdit
    <3> HIDE DEF x, f
    <3>4. /\ docs'[k][Latest] = x /\ docs'[k][f.version] = None
          /\ \A w \in Versions : w \notin {f.version, Latest} => docs'[k][w] = docs[k][w]
      BY <2>1, <2>3, <3>1, Types, VersionsKnown
    <3> QED
      BY <3>1, <3>3, <3>4, LiftKeepsEdit
  <2> QED
    BY <2>2, <2>3
<1> QED
  BY <1>2, <1>3

LEMMA ReplaceAloneKeepsEdit ==
    ASSUME IInv, NEW r \in Pods, Version[r] = Latest, AloneInv(r), Replace(r),
           NEW k \in Keys, k \notin raced
    PROVE  KeepsLatestEdit(k)
<1> DEFINE f  == pod[r].stale
           id == pod[r].sibling
           x  == [Migrated(f.doc, f.doc, Latest) EXCEPT !.id = id]
<1>1. pod[r].pc = "replace" /\ f.key \in Keys /\ id \in Stamps
  BY HeldStale DEF Replace, Holding, IInv, PodsFit
<1>2. CASE k # f.key
  <2>1. docs' = docs \/ \E y : Put(f.key, Latest, y)
    BY DEF Replace
  <2>2. ASSUME NEW y, NEW l, l # k, docs' = [docs EXCEPT ![l][Latest] = y]
        PROVE  Stays(k)
    BY <2>2, Types DEF Stays
  <2>3. docs' = docs => Stays(k)
    BY DEF Stays
  <2>4. Stays(k)
    BY Zenon, <1>2, <2>1, <2>2, <2>3 DEF Put
  <2> QED
    BY <2>4, StaysLatest
<1>3. CASE k = f.key
  <2>1. /\ f.doc \in Docs /\ f.version \in Versions \ {Latest}
        /\ docs[k][f.version] = f.doc
        /\ docs[k][Latest] # None /\ docs[k][Latest].id = id
        /\ Later(f.doc.date, docs[k][Latest].date)
    BY <1>1, <1>3, HeldBelow DEF Holding, Decided
  <2>2. Put(f.key, Latest, x)
    BY <1>3, <2>1 DEF Replace
  <2>3. x \in Docs /\ SameEdit(x, f.doc)
    <3>1. /\ Migrated(f.doc, f.doc, Latest) \in Docs
          /\ Same(Migrated(f.doc, f.doc, Latest), f.doc)
      BY <2>1, VersionsKnown, MigratedFits
    <3> QED
      BY <1>1, <3>1 DEF Same, SameEdit, Docs
  <2> HIDE DEF x, f
  <2>4. /\ docs'[k][Latest] = x
        /\ \A w \in Versions : w # Latest => docs'[k][w] = docs[k][w]
    BY <1>3, <2>2, <2>3, PutOne, VersionsKnown
  <2>5. f.doc # None
    BY <2>1
  <2> QED
    BY <2>1, <2>3, <2>4, <2>5, LiftKeepsEdit
<1> QED
  BY <1>2, <1>3

LEMMA DeleteAloneKeepsEdit ==
    ASSUME IInv, NEW r \in Pods, AloneInv(r), DeleteStale(r), NEW k \in Keys, k \notin raced
    PROVE  KeepsLatestEdit(k)
<1> DEFINE f == pod[r].stale
<1>1. pod[r].pc = "delete" /\ f.key \in Keys /\ f.version \in Versions
  BY HeldStale DEF DeleteStale, Holding
<1>2. docs' = docs \/ Put(f.key, f.version, None)
  BY DEF DeleteStale
<1>3. CASE docs' = docs
  BY <1>3, StaysLatest DEF Stays
<1>4. CASE Put(f.key, f.version, None) /\ k # f.key
  <2> HIDE DEF f
  <2>1. Stays(k)
    BY <1>4, Types DEF Put, Stays
  <2> QED
    BY <2>1, StaysLatest
<1>5. CASE Put(f.key, f.version, None) /\ k = f.key
  <2>1. /\ f.version \in Versions \ {Latest} /\ docs[k][f.version] = f.doc
        /\ Settled(docs[k][Latest], f)
    BY <1>1, <1>5, HeldBelow DEF Holding, Decided
  <2> HIDE DEF f
  <2>2. /\ docs'[k][f.version] = None
        /\ \A w \in Versions : w # f.version => docs'[k][w] = docs[k][w]
    BY <1>1, <1>5, PutOne
  <2> QED
    BY <2>1, <2>2, DropKeepsEdit DEF Settled
<1> QED
  BY <1>2, <1>3, <1>4, <1>5

LEMMA EditKeptAlone ==
    ASSUME IInv, NEW r, NEW old, OnlyRepairer(r, old), AloneInv(r), [Next]_vars, edits' = edits,
           NEW k \in Keys, k \notin raced
    PROVE  KeepsLatestEdit(k)
<1>1. r \in Pods /\ Version[r] = Latest
  BY DEF OnlyRepairer
<1>2. CASE docs' = docs
  BY <1>2, StaysLatest DEF Stays
<1>3. CASE docs' # docs
  <2>1. PICK p \in Pods :
          \/ \E l \in Keys : Save(p, l) \/ Remove(p, l)
          \/ UpdateDoc(p) \/ Replace(p) \/ DeleteStale(p)
    BY <1>3 DEF Next, vars, BeginPass, BeginManual, BeginAt, IntervalElapses, Repair, FindStale,
       PickDoc, Refind, PassUnauthorized, Fails, PassFails, PassCancelled, Restart
  <2>2. ~(\E l \in Keys : Save(p, l) \/ Remove(p, l))
    <3>1. edits \in Nat /\ edits + 1 # edits
      BY Types
    <3> QED
      BY <3>1 DEF Save, Remove
  <2>3. p = r
    BY <2>1, <2>2, OthersWriteNot
  <2> QED
    BY <1>1, <2>1, <2>2, <2>3, MoveAloneKeepsEdit, ReplaceAloneKeepsEdit, DeleteAloneKeepsEdit
<1> QED
  BY <1>2, <1>3

(* While only one loader repairs, because every other one is read-only or  *)
(* of a release that no document is older than, moving, merging and        *)
(* deleting documents of any number of versions keeps the latest edit of   *)
(* every identity, or a later one, wherever a pass fails, is cancelled or  *)
(* is cut off by a restart, and whatever the other pods save: it is lost   *)
(* only if the identity was saved or deleted while passes were running     *)
(* (_repair_collection, _reconcile_conflict).                              *)
THEOREM LatestEditSurvivesAlone ==
    ASSUME NEW r \in Pods, NEW old \in Versions, Version[r] = Latest, OthersIdle(r, old)
    PROVE  Spec /\ NothingOlder(old) => LatestEditKeptUnlessRaced
<1> DEFINE Inv == OnlyRepairer(r, old) /\ AloneInv(r)
<1>1. Init /\ NothingOlder(old) => Inv
  BY InitOnlyRepairer
<1>2. IInv /\ Inv /\ [Next]_vars => Inv'
  BY NextOnlyRepairer, NextAloneInv
<1>3. IInv /\ Inv /\ [Next]_vars =>
        [edits' = edits => \A k \in Keys \ raced : KeepsLatestEdit(k)]_vars
  BY EditKeptAlone
<1> HIDE DEF Inv
<1> QED
  BY <1>1, <1>2, <1>3, SpecIInv, PTL DEF Spec, LatestEditKeptUnlessRaced
=============================================================================
