-------------------------- MODULE SkillCatalogProofs --------------------------
(***************************************************************************)
(* What SkillCatalog says of calls holds for all skills, authors, files,   *)
(* pods and filters: a call finds, lists and pages what stays while it     *)
(* runs, however users and syncs interleave with its reads.                *)
(*                                                                         *)
(* A property of answers is not inductive: it is about a call that is      *)
(* done.  Before that the state must say what the reads so far have shown  *)
(* of what still stays (Told): which skills the source read was without,   *)
(* what an answer that was found is, which files of it are listed, up to   *)
(* where the pages have come.  Each such fact is about a call c and a view *)
(* v of the sources, not about the state, so that it can be carried from   *)
(* one view to the next.                                                   *)
(***************************************************************************)
EXTENDS SkillCatalog, SkillSyncProofs, FiniteSetTheorems, WellFoundedInduction

(* What a call can see of the sources.                                     *)
View == [state |-> [k \in Keys |-> State(k)],
         held  |-> [k \in Keys |-> Held(k)],
         disk  |-> loaded[Home].skills]

Views == [state : [Keys -> States \cup {None}], held : [Keys -> SUBSET Files],
          disk : SUBSET Skills]

Stayed(c) == Keys \ c.touched
Shares == States \ {"draft"}
AskedBy(c, k) == k[2] = c.name /\ c.plugin \in {None, k[1]}

(* The skills of the name that stay and that the reader may see.           *)
AskedIn(c, v) ==
    {k \in Stayed(c) : /\ AskedBy(c, k)
                       /\ v.state[k] # None
                       /\ k[3] = User \/ v.state[k] \in Shares}

(* The reader had none, of the name and, for a file, with the file.        *)
NoneOwn(c, v) ==
    \A k \in Stayed(c) : k[3] = User /\ AskedBy(c, k) =>
        IF c.op = "file" THEN c.file \notin v.held[k] ELSE v.state[k] = None

NoneShared(c, v) == \A k \in Stayed(c) : AskedBy(c, k) => v.state[k] \notin Shares

OwnerShares(c, v) ==
    \E j \in Keys : /\ AskedBy(c, j)
                    /\ j[3] = c.owner
                    /\ j \in Stayed(c) => v.state[j] \in Shares

AloneIn(c, v, k) ==
    \A j \in Keys \ {k} : AskedBy(c, j) => v.state[j] \notin Shares /\ j \in Stayed(c)

NoFile(c, v) ==
    \A k \in AskedIn(c, v) : c.file \in v.held[k] => k[3] # User /\ ~AloneIn(c, v, k)

RightAuthor(c, v) ==
    /\ c.answer[3] = Disk => AskedIn(c, v) = {}
    /\ (\E k \in AskedIn(c, v) : k[3] = User) => c.answer[3] = User
    /\ c.answer \in Stayed(c) => c.answer \in AskedIn(c, v)

(* What was found.                                                         *)
Found(c, v) ==
    /\ c.answer \in Entries
    /\ c.answer[2] = c.name
    /\ c.answer \in Keys => AskedBy(c, c.answer)
    /\ RightAuthor(c, v)

FilesTold(c, v, authors) ==
    c.answer[3] \in authors /\ c.answer \in Stayed(c) => v.held[c.answer] \subseteq c.files

NoOwnMeta(c, v) ==
    \A k \in Stayed(c) :
        k[3] = User /\ k[1] = c.answer[1] /\ k[2] = c.name => v.state[k] = None

(* The answers of open, detail and file.                                   *)
Opened(c, v) ==
    /\ c.answer \in Entries \cup {NotFound}
    /\ c.answer = NotFound =>
          \A s \in v.disk : s[2] = c.name => OnDisk(s) \in c.touched
    /\ RightAuthor(c, v)

FileAnswered(c, v) ==
    /\ c.answer = NotFound => NoFile(c, v)
    /\ (\E k \in AskedIn(c, v) : c.file \in v.held[k] /\ k[3] = User) => c.answer[3] = User
    /\ c.plugin # None /\ c.answer \in Stayed(c) =>
          c.answer \in AskedIn(c, v) /\ c.file \in v.held[c.answer]

Detailed(c, v) ==
    c.answer[3] \in {User, System} /\ (\A k \in Keys : k[2] = c.name => k \in Stayed(c))
        => v.state[c.answer] = c.state /\ v.held[c.answer] \subseteq c.files

DetailPcs == {"own_files", "system_files", "own_meta", "system_meta"}

OpenTold(c, v) ==
    /\ c.pc \in {"own", "shared", "owner", "disk", "done"} \cup DetailPcs
    /\ c.pc \in {"shared", "owner", "disk"} => NoneOwn(c, v)
    /\ c.pc = "owner" => c.op = "file" /\ OwnerShares(c, v)
    /\ c.pc = "disk" => IF c.op = "file" THEN NoFile(c, v) ELSE NoneShared(c, v)
    /\ c.pc \in DetailPcs => c.op = "detail" /\ Found(c, v)
    /\ c.pc = "system_files" => FilesTold(c, v, {User})
    /\ c.pc \in {"own_meta", "system_meta"} => FilesTold(c, v, {User, System})
    /\ c.pc = "system_meta" => NoOwnMeta(c, v)
    /\ c.pc = "done" =>
          /\ c.op \in {"open", "detail"} => Opened(c, v)
          /\ c.op = "detail" => Detailed(c, v)
          /\ c.op = "file" => FileAnswered(c, v)

(* A listing: what the three reads gave.                                   *)
Mine(c, v, k) == k[3] = User /\ v.state[k] # None /\ (v.state[k] = "staging" => c.staging)
Other(c, v, k) == v.state[k] \in IF c.staging THEN Shares ELSE {"published"}

(* What the snapshot has is looked up, or is still to be looked up.        *)
BaseTold(c, v) ==
    /\ \A e \in c.base : e[3] = Disk
    /\ \A s \in v.disk : OnDisk(s) \notin c.touched =>
          s[2] \in c.names \/ \E e \in c.base : e[2] = s[2]

(* A name to be looked up is there, or its skill has gone.                 *)
NamesTold(c, v) ==
    \A n \in c.names : \E s \in Skills : s[2] = n /\ (s \in v.disk \/ OnDisk(s) \in c.touched)

Lost(c) == \E s \in Skills : s[2] \in c.names /\ OnDisk(s) \in c.touched

SharedTold(c, v) ==
    /\ \A e \in c.shared : e \in Stayed(c) => Other(c, v, e)
    /\ \A k \in Stayed(c) : Other(c, v, k) => \E e \in c.shared : e[2] = k[2]

OwnTold(c, v) ==
    /\ \A e \in c.own : e[3] = User /\ (e \in Stayed(c) => Mine(c, v, e))
    /\ \A k \in Stayed(c) : Mine(c, v, k) => \E e \in c.own : e[2] = k[2]

ListTold(c, v) ==
    /\ c.pc \in {"base", "details", "gather", "done", "failed"}
    /\ c.pc \in {"base", "details"} => c.shared = None /\ c.own = None
    /\ c.pc \in {"details", "gather", "done"} => BaseTold(c, v)
    /\ c.pc = "details" => NamesTold(c, v)
    /\ c.pc = "failed" => Lost(c)
    /\ c.pc \in {"gather", "done"} =>
          /\ c.names = {}
          /\ c.shared # None => SharedTold(c, v)
          /\ c.own # None => OwnTold(c, v)
    /\ c.pc = "done" => c.shared # None /\ c.own # None

(* A walk: the pages have come up to the cursor.                           *)
PassesIn(v, k, f) ==
    /\ v.state[k] # None
    /\ f.plugin \in {None, k[1]}
    /\ f.states # None => v.state[k] \in f.states
    /\ f.staging \/ v.state[k] # "staging"

PagesTold(c, v) ==
    IF c.cursor = None THEN c.seen = {}
    ELSE \A k \in Stayed(c) : ~Before(c.cursor.key, k) =>
             (k \in c.seen <=> PassesIn(v, k, c.cursor.filter))

SeenIsBehind(c) == c.cursor # None => \A k \in c.seen : ~Before(c.cursor.key, k)

Walked(c, v) == \A k \in Stayed(c) : k \in c.seen <=> PassesIn(v, k, c.filter)

WalkTold(c, v) ==
    /\ c.pc \in {"page", "done", "rejected"}
    /\ ~c.twice
    /\ c.pc = "page" => PagesTold(c, v) /\ SeenIsBehind(c)
    /\ c.pc = "done" => Walked(c, v)

Told(c, v) ==
    /\ c.op \in {"open", "detail", "file"} => OpenTold(c, v)
    /\ c.op = "list" => ListTold(c, v)
    /\ c.op = "walk" => WalkTold(c, v)

(* Files are those of skills that are there, where the marketplace does    *)
(* not write them.                                                         *)
UserFiles == \A k \in UserKeys : row[k] = None => Held(k) = {}

(* A loader that has been asked keeps a snapshot, this one or a later one. *)
Loaded == call # None /\ call.pc = "details" => loaded[Home] # Nothing

CatalogInv ==
    /\ CatalogTypeOK
    /\ SyncInv
    /\ UserFiles
    /\ Loaded
    /\ call # None => Told(call, View)

-----------------------------------------------------------------------------
(* Keys and entries.                                                       *)
LEMMA KeyParts ==
    ASSUME NEW k \in Keys
    PROVE  /\ k[1] \in Nat /\ k[2] \in Nat /\ k[3] \in Authors /\ k[3] \in Nat
           /\ k = <<k[1], k[2], k[3]>>
           /\ k[2] \in Names
           /\ k[2] # 0 /\ k[3] # Disk
<1>1. k \in Nat \X Nat \X Authors
    BY KeysAssumption
<1>2. /\ k[1] \in Nat /\ k[2] \in Nat /\ k[3] \in Authors
      /\ k = <<k[1], k[2], k[3]>>
    BY <1>1
<1>3. k[3] # Disk
    BY <1>2, CatalogAssumption
<1>4. k[2] \in Names
    BY DEF Names
<1>5. QED
    BY <1>2, <1>3, <1>4, OrderAssumption

LEMMA SameKey ==
    ASSUME NEW k \in Keys, NEW j \in Keys, k[1] = j[1], k[2] = j[2], k[3] = j[3]
    PROVE  k = j
    BY KeyParts

LEMMA DiskEntries ==
    ASSUME NEW s \in Skills
    PROVE  /\ OnDisk(s) \in Entries
           /\ OnDisk(s) \notin Keys
           /\ OnDisk(s)[2] = s[2] /\ OnDisk(s)[3] = Disk
           /\ s[2] # 0 /\ s[2] \in Names
<1>1. PICK k \in Keys : s = <<k[1], k[2]>>
    BY DEF Skills
<1>2. s[2] = k[2]
    BY <1>1
<1>3. OnDisk(s)[3] = Disk /\ OnDisk(s)[2] = s[2]
    BY DEF OnDisk
<1>4. OnDisk(s) \notin Keys
    BY <1>3, KeyParts
<1>5. QED
    BY <1>2, <1>3, <1>4, KeyParts DEF Entries

LEMMA NotFoundIsNone == NotFound \notin Entries /\ NotFound[3] = Disk /\ Disk \notin Authors
<1>1. NotFound[2] = 0 /\ NotFound[3] = Disk
    BY DEF NotFound, Disk
<1>2. QED
    BY <1>1, KeyParts, DiskEntries, CatalogAssumption DEF Entries

(* Before orders the keys.                                                 *)
LEMMA BeforeOrders ==
    /\ \A k \in Keys : ~Before(k, k)
    /\ \A i, j, k \in Keys : Before(i, j) /\ Before(j, k) => Before(i, k)
    /\ \A j, k \in Keys : j = k \/ Before(j, k) \/ Before(k, j)
<1>1. ASSUME NEW k \in Keys
      PROVE  ~Before(k, k)
    BY KeyParts DEF Before
<1>2. ASSUME NEW i \in Keys, NEW j \in Keys, NEW k \in Keys, Before(i, j), Before(j, k)
      PROVE  Before(i, k)
    <2>1. /\ i[1] \in Nat /\ i[2] \in Nat /\ i[3] \in Nat
          /\ j[1] \in Nat /\ j[2] \in Nat /\ j[3] \in Nat
          /\ k[1] \in Nat /\ k[2] \in Nat /\ k[3] \in Nat
        BY KeyParts
    <2>2. QED
        BY <1>2, <2>1 DEF Before
<1>3. ASSUME NEW j \in Keys, NEW k \in Keys
      PROVE  j = k \/ Before(j, k) \/ Before(k, j)
    <2>1. /\ j[1] \in Nat /\ j[2] \in Nat /\ j[3] \in Nat
          /\ k[1] \in Nat /\ k[2] \in Nat /\ k[3] \in Nat
        BY KeyParts
    <2>2. CASE j[1] = k[1] /\ j[2] = k[2] /\ j[3] = k[3]
        BY <2>2, SameKey
    <2>3. CASE ~(j[1] = k[1] /\ j[2] = k[2] /\ j[3] = k[3])
        BY <2>1, <2>3 DEF Before
    <2>4. QED
        BY <2>2, <2>3
<1>4. QED
    BY <1>1, <1>2, <1>3

(* A finite set that is not empty has an element with none below it: one   *)
(* with the fewest below it, for what is below that has fewer.             *)
LEMMA HasLeast ==
    ASSUME NEW D, IsFiniteSet(D), D # {}, NEW R,
           \A k \in D : <<k, k>> \notin R,
           \A i, j, k \in D : <<i, j>> \in R /\ <<j, k>> \in R => <<i, k>> \in R
    PROVE  \E k \in D : \A j \in D : <<j, k>> \notin R
<1> DEFINE below(k) == {j \in D : <<j, k>> \in R}
           counts   == {Cardinality(below(k)) : k \in D}
<1>1. ASSUME NEW k \in D
      PROVE  IsFiniteSet(below(k)) /\ Cardinality(below(k)) \in Nat
    <2>1. below(k) \in SUBSET D
        OBVIOUS
    <2>2. IsFiniteSet(below(k))
        BY <2>1, FS_Subset
    <2>3. QED
        BY <2>2, FS_CardinalityType
<1>2. counts \subseteq Nat /\ counts # {}
    <2>1. counts \subseteq Nat
        <3> HIDE DEF below
        <3>1. ASSUME NEW n \in counts
              PROVE  n \in Nat
            <4>1. PICK k \in D : n = Cardinality(below(k))
                OBVIOUS
            <4>2. QED
                BY <1>1, <4>1
        <3>2. QED
            BY <3>1
    <2>2. PICK k \in D : TRUE
        OBVIOUS
    <2>3. Cardinality(below(k)) \in counts
        OBVIOUS
    <2>4. QED
        BY <2>1, <2>3
<1>3. PICK n \in counts : \A m \in counts : <<m, n>> \notin OpToRel(<, Nat)
    <2>1. IsWellFoundedOn(OpToRel(<, Nat), Nat)
        BY NatLessThanWellFounded
    <2> DEFINE less == OpToRel(<, Nat)
    <2> HIDE DEF counts, less
    <2>2. \E n \in counts : \A m \in counts : <<m, n>> \notin less
        BY <1>2, <2>1, WFMin DEF less
    <2>3. QED
        BY <2>2 DEF less
<1>4. PICK k \in D : n = Cardinality(below(k))
    OBVIOUS
<1>5. ASSUME NEW j \in D, <<j, k>> \in R
      PROVE  FALSE
    <2>1. below(j) \subseteq below(k)
        BY <1>5
    <2>2. j \in below(k) /\ j \notin below(j)
        BY <1>5
    <2>3. Cardinality(below(j)) <= Cardinality(below(k))
             /\ Cardinality(below(k)) # Cardinality(below(j))
        <3> HIDE DEF below
        <3>1. below(j) \in SUBSET below(k) /\ below(j) # below(k)
            BY <2>1, <2>2
        <3>2. QED
            BY <1>1, <3>1, FS_Subset
    <2>4. Cardinality(below(j)) < Cardinality(below(k))
        <3> HIDE DEF below
        <3>1. Cardinality(below(j)) \in Nat /\ Cardinality(below(k)) \in Nat
            BY <1>1
        <3>2. QED
            BY <2>3, <3>1
    <2>5. <<Cardinality(below(j)), n>> \in OpToRel(<, Nat)
        <3>1. Cardinality(below(j)) \in Nat /\ n \in Nat
            BY <1>1, <1>2
        <3> HIDE DEF below
        <3>2. QED
            BY <1>4, <2>4, <3>1 DEF OpToRel
    <2>6. Cardinality(below(j)) \in counts
        OBVIOUS
    <2>7. QED
        BY <1>3, <2>5, <2>6
<1>6. QED
    BY <1>5

(***************************************************************************)
(* A page of the skills that are left is a first part of them, and it has  *)
(* a last skill when more are left.                                        *)
(***************************************************************************)
PageOf(after) == {k \in after : Cardinality({j \in after : Before(j, k)}) < PageLimit}

LEMMA PageIsFirstPart ==
    ASSUME NEW after \in SUBSET Keys
    PROVE  /\ PageOf(after) \subseteq after
           /\ \A k \in after, d \in PageOf(after) : Before(k, d) => k \in PageOf(after)
           /\ PageOf(after) # after => \E k \in PageOf(after) : ~\E j \in PageOf(after) : Before(k, j)
<1> DEFINE below(k) == {j \in after : Before(j, k)}
           docs     == PageOf(after)
<1>1. IsFiniteSet(after)
    BY OrderAssumption, FS_Subset
<1>2. ASSUME NEW k \in after
      PROVE  IsFiniteSet(below(k)) /\ Cardinality(below(k)) \in Nat
    <2>1. below(k) \in SUBSET after
        OBVIOUS
    <2>2. IsFiniteSet(below(k))
        BY <1>1, <2>1, FS_Subset
    <2>3. QED
        BY <2>2, FS_CardinalityType
<1>3. docs = {k \in after : Cardinality(below(k)) < PageLimit}
    BY DEF PageOf
<1>4. docs \subseteq after
    BY <1>3
<1>5. ASSUME NEW k \in after, NEW d \in docs, Before(k, d)
      PROVE  k \in docs
    <2>1. d \in after /\ Cardinality(below(d)) < PageLimit
        BY <1>3
    <2>2. below(k) \in SUBSET below(d)
        <3>1. k \in Keys /\ d \in Keys
            BY <2>1
        <3>2. QED
            BY <1>5, <3>1, BeforeOrders
    <2> HIDE DEF below, docs
    <2>3. Cardinality(below(k)) <= Cardinality(below(d))
        BY <1>2, <2>1, <2>2, FS_Subset
    <2>4. Cardinality(below(k)) \in Nat /\ Cardinality(below(d)) \in Nat
        BY <1>2, <2>1
    <2>5. PageLimit \in Nat
        BY CatalogAssumption
    <2>6. Cardinality(below(k)) < PageLimit
        BY <2>1, <2>3, <2>4, <2>5
    <2>7. QED
        BY <1>3, <2>6
<1>6. ASSUME docs # after
      PROVE  docs # {}
    <2> DEFINE before == {p \in Keys \X Keys : Before(p[1], p[2])}
    <2>1. after # {}
        BY <1>4, <1>6
    <2>2. /\ \A k \in after : <<k, k>> \notin before
          /\ \A i, j, k \in after :
                <<i, j>> \in before /\ <<j, k>> \in before => <<i, k>> \in before
        BY BeforeOrders
    <2>3. PICK k \in after : \A j \in after : <<j, k>> \notin before
        <3> HIDE DEF before
        <3>1. QED
            BY <1>1, <2>1, <2>2, HasLeast
    <2>4. below(k) = {}
        BY <2>3
    <2>5. Cardinality(below(k)) = 0
        BY <2>4, FS_EmptySet
    <2>6. 0 < PageLimit
        BY CatalogAssumption
    <2>7. QED
        BY <1>3, <2>5, <2>6
<1>7. ASSUME docs # after
      PROVE  \E k \in docs : ~\E j \in docs : Before(k, j)
    <2> DEFINE later == {p \in Keys \X Keys : Before(p[2], p[1])}
    <2> HIDE DEF docs
    <2>1. docs # {} /\ IsFiniteSet(docs)
        BY <1>1, <1>4, <1>6, <1>7, FS_Subset
    <2>2. /\ \A k \in docs : <<k, k>> \notin later
          /\ \A i, j, k \in docs :
                <<i, j>> \in later /\ <<j, k>> \in later => <<i, k>> \in later
        BY <1>4, BeforeOrders
    <2>3. PICK k \in docs : \A j \in docs : <<j, k>> \notin later
        <3> HIDE DEF later
        <3>1. QED
            BY <2>1, <2>2, HasLeast
    <2>4. \A j \in docs : ~Before(k, j)
        BY <1>4, <2>3
    <2>5. QED
        BY <2>4
<1>8. QED
    BY <1>4, <1>5, <1>7

-----------------------------------------------------------------------------
(* The view.                                                               *)
LEMMA ViewIs ==
    ASSUME TypeOK
    PROVE  /\ View \in Views
           /\ \A k \in Keys : /\ View.state[k] = State(k)
                              /\ View.held[k] = Held(k)
                              /\ row[k] = None <=> View.state[k] = None
           /\ View.disk = loaded[Home].skills
<1>1. ASSUME NEW k \in Keys
      PROVE  /\ State(k) \in States \cup {None}
             /\ row[k] = None <=> State(k) = None
    BY AbsentAssumption DEF TypeOK, State, Rows
<1>2. loaded[Home].skills \subseteq Skills
    BY CatalogAssumption DEF TypeOK, Releases, Contents
<1>3. ASSUME NEW k \in Keys
      PROVE  Held(k) \subseteq Files
    BY DEF Held
<1>4. QED
    BY <1>1, <1>2, <1>3 DEF View, Views

LEMMA ViewAfter ==
    ASSUME TypeOK'
    PROVE  /\ View' \in Views
           /\ \A k \in Keys : /\ View'.state[k] = State(k)'
                              /\ View'.held[k] = Held(k)'
                              /\ row'[k] = None <=> View'.state[k] = None
           /\ View'.disk = loaded'[Home].skills
<1>1. ASSUME NEW k \in Keys
      PROVE  /\ State(k)' \in States \cup {None}
             /\ row'[k] = None <=> State(k)' = None
    BY AbsentAssumption DEF TypeOK, State, Rows
<1>2. loaded'[Home].skills \subseteq Skills
    BY CatalogAssumption DEF TypeOK, Releases, Contents
<1>3. ASSUME NEW k \in Keys
      PROVE  Held(k)' \subseteq Files
    BY DEF Held
<1>4. QED
    BY <1>1, <1>2, <1>3 DEF View, Views

(* The reads of a call, as the view has it.                                *)
LEMMA SourcesAre ==
    ASSUME TypeOK
    PROVE  /\ \A k \in Keys : Asked(k) <=> AskedBy(call, k)
           /\ \A a \in Authors : /\ Theirs(a) = {k \in Keys : /\ k[3] = a
                                                       /\ AskedBy(call, k)
                                                       /\ View.state[k] # None}
                                 /\ TheirFiles(a) = {k \in Keys : /\ k[3] = a
                                                           /\ AskedBy(call, k)
                                                           /\ call.file \in View.held[k]}
           /\ {k \in Shared(TRUE) : Asked(k)} = {k \in Keys : /\ View.state[k] \in Shares
                                                       /\ AskedBy(call, k)}
<1>1. \A k \in Keys : Asked(k) <=> AskedBy(call, k)
    BY DEF Asked, AskedBy
<1>2. ASSUME NEW a \in Authors
      PROVE  /\ Theirs(a) = {k \in Keys : k[3] = a /\ AskedBy(call, k) /\ View.state[k] # None}
             /\ TheirFiles(a) = {k \in Keys : k[3] = a /\ AskedBy(call, k)
                                              /\ call.file \in View.held[k]}
    BY <1>1, ViewIs DEF Theirs, TheirFiles
<1>3. shared_states(TRUE) = Shares
    BY DEF shared_states, Shares, States
<1>4. {k \in Shared(TRUE) : Asked(k)} = {k \in Keys : View.state[k] \in Shares /\ AskedBy(call, k)}
    BY <1>1, <1>3, ViewIs DEF Shared
<1>5. QED
    BY <1>1, <1>2, <1>4

-----------------------------------------------------------------------------
(***************************************************************************)
(* What a call has been told stays true while users and the marketplace    *)
(* move: d is the call c with all that moved from v to w noted as touched. *)
(***************************************************************************)
Waits(c, d) ==
    /\ d.op = c.op /\ d.pc = c.pc /\ d.plugin = c.plugin /\ d.name = c.name
    /\ d.file = c.file /\ d.staging = c.staging /\ d.answer = c.answer
    /\ d.owner = c.owner /\ d.files = c.files /\ d.state = c.state
    /\ d.names = c.names /\ d.base = c.base /\ d.shared = c.shared /\ d.own = c.own
    /\ d.cursor = c.cursor /\ d.filter = c.filter /\ d.seen = c.seen /\ d.twice = c.twice
    /\ c.touched \subseteq d.touched

Moved(v, w, d) ==
    /\ \A k \in Stayed(d) : w.state[k] = v.state[k] /\ w.held[k] = v.held[k]
    /\ \A s : OnDisk(s) \notin d.touched => (s \in w.disk <=> s \in v.disk)

LEMMA FewerStay ==
    ASSUME NEW c, NEW d, NEW v, NEW w, Waits(c, d), Moved(v, w, d)
    PROVE  /\ Stayed(d) \subseteq Stayed(c)
           /\ \A k : AskedBy(d, k) <=> AskedBy(c, k)
           /\ \A k \in Stayed(d) : k \in AskedIn(d, w) <=> k \in AskedIn(c, v)
           /\ AskedIn(d, w) \subseteq AskedIn(c, v) /\ AskedIn(d, w) \subseteq Stayed(d)
<1>1. Stayed(d) \subseteq Stayed(c)
    BY DEF Waits, Stayed
<1>2. \A k : AskedBy(d, k) <=> AskedBy(c, k)
    BY DEF Waits, AskedBy
<1>3. ASSUME NEW k \in Stayed(d)
      PROVE  k \in AskedIn(d, w) <=> k \in AskedIn(c, v)
    <2>1. w.state[k] = v.state[k]
        BY DEF Moved
    <2>2. QED
        BY <1>1, <1>2, <2>1 DEF AskedIn
<1>4. AskedIn(d, w) \subseteq Stayed(d)
    BY DEF AskedIn
<1>5. QED
    BY <1>1, <1>2, <1>3, <1>4

LEMMA FoundStays ==
    ASSUME NEW c, NEW d, NEW v, NEW w, Waits(c, d), Moved(v, w, d), Found(c, v)
    PROVE  Found(d, w)
<1>1. d.answer = c.answer /\ d.name = c.name
    BY DEF Waits
<1>2. RightAuthor(d, w)
    <2>1. (\E k \in AskedIn(d, w) : k[3] = User) => d.answer[3] = User
        BY <1>1, FewerStay DEF Found, RightAuthor
    <2>2. d.answer \in Stayed(d) => d.answer \in AskedIn(d, w)
        BY <1>1, FewerStay DEF Found, RightAuthor
    <2>3. d.answer[3] = Disk => AskedIn(d, w) = {}
        BY <1>1, FewerStay DEF Found, RightAuthor
    <2>4. QED
        BY <2>1, <2>2, <2>3 DEF RightAuthor
<1>3. QED
    BY <1>1, <1>2, FewerStay DEF Found

LEMMA OwnerStays ==
    ASSUME NEW c, NEW d, NEW v, NEW w, Waits(c, d), Moved(v, w, d), OwnerShares(c, v)
    PROVE  OwnerShares(d, w)
<1>1. PICK j \in Keys : AskedBy(c, j) /\ j[3] = c.owner /\ (j \in Stayed(c) => v.state[j] \in Shares)
    BY DEF OwnerShares
<1>2. d.owner = c.owner
    BY DEF Waits
<1>3. j \in Stayed(d) => w.state[j] \in Shares
    BY <1>1, FewerStay DEF Moved
<1>4. QED
    BY <1>1, <1>2, <1>3, FewerStay DEF OwnerShares

LEMMA NoFileStays ==
    ASSUME NEW c, NEW d, NEW v, NEW w, Waits(c, d), Moved(v, w, d), NoFile(c, v)
    PROVE  NoFile(d, w)
<1> SUFFICES ASSUME NEW k \in AskedIn(d, w), d.file \in w.held[k]
             PROVE  k[3] # User /\ ~AloneIn(d, w, k)
    BY DEF NoFile
<1>1. k \in Stayed(d) /\ k \in AskedIn(c, v)
    BY FewerStay
<1>2. c.file \in v.held[k]
    BY <1>1 DEF Moved, Waits
<1>3. k[3] # User /\ ~AloneIn(c, v, k)
    BY <1>1, <1>2 DEF NoFile
<1>4. PICK j \in Keys \ {k} : AskedBy(c, j) /\ ~(v.state[j] \notin Shares /\ j \in Stayed(c))
    BY <1>3 DEF AloneIn
<1>5. ~(w.state[j] \notin Shares /\ j \in Stayed(d))
    BY <1>4, FewerStay DEF Moved
<1>6. QED
    BY <1>3, <1>4, <1>5, FewerStay DEF AloneIn

LEMMA OpenStays ==
    ASSUME NEW c, NEW d, NEW v, NEW w, Waits(c, d), Moved(v, w, d),
           OpenTold(c, v), c.pc # "done"
    PROVE  OpenTold(d, w)
<1>1. d.pc = c.pc /\ d.op = c.op /\ d.answer = c.answer /\ d.files = c.files
      /\ d.name = c.name /\ d.file = c.file
    BY DEF Waits
<1>2. ASSUME NEW k \in Stayed(d)
      PROVE  k \in Stayed(c) /\ w.state[k] = v.state[k] /\ w.held[k] = v.held[k]
             /\ (AskedBy(d, k) <=> AskedBy(c, k))
    BY FewerStay DEF Moved
<1>3. NoneOwn(c, v) => NoneOwn(d, w)
    BY <1>1, <1>2 DEF NoneOwn
<1>4. NoneShared(c, v) => NoneShared(d, w)
    BY <1>2 DEF NoneShared
<1>5. OwnerShares(c, v) => OwnerShares(d, w)
    BY OwnerStays
<1>6. NoFile(c, v) => NoFile(d, w)
    BY NoFileStays
<1>7. Found(c, v) => Found(d, w)
    BY FoundStays
<1>8. ASSUME NEW A, FilesTold(c, v, A)
      PROVE  FilesTold(d, w, A)
    BY <1>1, <1>2, <1>8 DEF FilesTold
<1>9. NoOwnMeta(c, v) => NoOwnMeta(d, w)
    BY <1>1, <1>2 DEF NoOwnMeta
<1>10. QED
    BY <1>1, <1>3, <1>4, <1>5, <1>6, <1>7, <1>8, <1>9 DEF OpenTold

LEMMA ListStays ==
    ASSUME NEW c, NEW d, NEW v, NEW w, Waits(c, d), Moved(v, w, d),
           ListTold(c, v), c.pc # "done"
    PROVE  ListTold(d, w)
<1>1. d.pc = c.pc /\ d.staging = c.staging /\ d.base = c.base /\ d.shared = c.shared
      /\ d.own = c.own /\ d.names = c.names /\ c.touched \subseteq d.touched
    BY DEF Waits
<1>2. ASSUME NEW k \in Stayed(d)
      PROVE  k \in Stayed(c) /\ (Mine(d, w, k) <=> Mine(c, v, k))
             /\ (Other(d, w, k) <=> Other(c, v, k))
    BY <1>1, FewerStay DEF Moved, Mine, Other
<1>3. BaseTold(c, v) => BaseTold(d, w)
    <2> SUFFICES ASSUME BaseTold(c, v), NEW s \in w.disk, OnDisk(s) \notin d.touched
                 PROVE  s[2] \in d.names \/ \E e \in d.base : e[2] = s[2]
        BY <1>1 DEF BaseTold
    <2>1. s \in v.disk
        BY DEF Moved
    <2>2. OnDisk(s) \notin c.touched
        BY <1>1
    <2>3. QED
        BY <1>1, <2>1, <2>2 DEF BaseTold
<1>4. SharedTold(c, v) => SharedTold(d, w)
    BY <1>1, <1>2 DEF SharedTold
<1>5. OwnTold(c, v) => OwnTold(d, w)
    BY <1>1, <1>2 DEF OwnTold
<1>6. NamesTold(c, v) => NamesTold(d, w)
    <2> SUFFICES ASSUME NamesTold(c, v), NEW n \in d.names
                 PROVE  \E s \in Skills : s[2] = n /\ (s \in w.disk \/ OnDisk(s) \in d.touched)
        BY DEF NamesTold
    <2>1. PICK s \in Skills : s[2] = n /\ (s \in v.disk \/ OnDisk(s) \in c.touched)
        BY <1>1 DEF NamesTold
    <2>2. s \in w.disk \/ OnDisk(s) \in d.touched
        BY <1>1, <2>1 DEF Moved
    <2>3. QED
        BY <2>1, <2>2
<1>7. Lost(c) => Lost(d)
    BY <1>1 DEF Lost
<1>8. QED
    BY <1>1, <1>3, <1>4, <1>5, <1>6, <1>7 DEF ListTold

LEMMA WalkStays ==
    ASSUME NEW c, NEW d, NEW v, NEW w, Waits(c, d), Moved(v, w, d),
           WalkTold(c, v), c.pc # "done"
    PROVE  WalkTold(d, w)
<1>1. d.pc = c.pc /\ d.cursor = c.cursor /\ d.seen = c.seen /\ d.twice = c.twice
    BY DEF Waits
<1>2. ASSUME NEW k \in Stayed(d), NEW f
      PROVE  k \in Stayed(c) /\ (PassesIn(w, k, f) <=> PassesIn(v, k, f))
    BY FewerStay DEF Moved, PassesIn
<1>3. PagesTold(c, v) => PagesTold(d, w)
    BY <1>1, <1>2 DEF PagesTold
<1>4. SeenIsBehind(c) => SeenIsBehind(d)
    BY <1>1 DEF SeenIsBehind
<1>5. QED
    BY <1>1, <1>3, <1>4 DEF WalkTold

LEMMA ToldStays ==
    ASSUME NEW c, NEW d, NEW v, NEW w, Waits(c, d), Moved(v, w, d),
           Told(c, v), c.pc # "done"
    PROVE  Told(d, w)
<1>1. d.op = c.op
    BY DEF Waits
<1>2. QED
    BY <1>1, OpenStays, ListStays, WalkStays DEF Told

-----------------------------------------------------------------------------
(* Users and syncs.                                                        *)
LEMMA TouchedIs ==
    ASSUME TypeOK, TypeOK'
    PROVE  /\ Touched \subseteq Entries
           /\ \A k \in Keys \ Touched : /\ View'.state[k] = View.state[k]
                                        /\ View'.held[k] = View.held[k]
           /\ \A s : OnDisk(s) \notin Touched => (s \in View'.disk <=> s \in View.disk)
<1> DEFINE flipped == {t \in Skills : (t \in loaded[Home].skills) # (t \in loaded'[Home].skills)}
<1>1. Touched = {k \in Keys : State(k)' # State(k) \/ Held(k)' # Held(k)}
                    \cup {OnDisk(s) : s \in flipped}
    BY DEF Touched
<1>2. flipped \subseteq Skills
    OBVIOUS
<1>3. ASSUME NEW s \in Skills, ~(s \in loaded'[Home].skills <=> s \in loaded[Home].skills)
      PROVE  s \in flipped
    BY <1>3
<1> HIDE DEF flipped
<1>4. Touched \subseteq Entries
    BY <1>1, <1>2 DEF Entries
<1>5. ASSUME NEW k \in Keys, k \notin Touched
      PROVE  View'.state[k] = View.state[k] /\ View'.held[k] = View.held[k]
    <2>1. State(k)' = State(k) /\ Held(k)' = Held(k)
        BY <1>1, <1>5
    <2>2. QED
        BY <2>1, ViewIs, ViewAfter
<1>6. ASSUME NEW s, OnDisk(s) \notin Touched
      PROVE  s \in View'.disk <=> s \in View.disk
    <2>1. /\ View'.disk = loaded'[Home].skills /\ View'.disk \subseteq Skills
          /\ View.disk = loaded[Home].skills /\ View.disk \subseteq Skills
        BY ViewIs, ViewAfter DEF Views
    <2>2. s \notin flipped
        BY <1>1, <1>6
    <2>3. QED
        BY <1>3, <2>1, <2>2
<1>7. QED
    BY <1>4, <1>5, <1>6

LEMMA WatchedFit ==
    ASSUME NEW c \in Calls
    PROVE  /\ c.touched \subseteq Entries
           /\ \A touched \in SUBSET Entries : [c EXCEPT !.touched = touched] \in Calls
    BY DEF Calls

(* A loader that has been asked keeps a snapshot.                          *)
LEMMA SnapshotRemains ==
    ASSUME SyncInv, SyncNext, loaded[Home] # Nothing
    PROVE  loaded'[Home] # Nothing \/ pod'[Home].pc = "down"
<1>1. /\ loaded \in [Pods -> Releases] /\ pod \in [Pods -> Syncs] /\ Home \in Pods
    BY CatalogAssumption DEF SyncInv, TypeOK
<1>2. release # Nothing
    BY DEF SyncInv, SnapshotsReal, Nothing
<1>3. CASE loaded' = loaded
    BY <1>3
<1>4. CASE loaded' # loaded
    <2>1. PICK p \in Pods : Start(p) \/ BeginReload(p) \/ Reload(p) \/ Step(p) \/ Crash(p)
        BY <1>4 DEF SyncNext, Publish
    <2>2. \/ loaded' = [loaded EXCEPT ![p] = release]
          \/ Stop(p)
        <3>1. CASE Reload(p)
            BY <3>1 DEF Reload, Build
        <3>2. CASE Crash(p)
            BY <3>2 DEF Crash
        <3>3. CASE Step(p)
            <4>1. ~SyncSkills(p)
                BY <1>4 DEF SyncSkills, SaveSkill, PublishSkill, SkillFails, SaveFile,
                            FileFails, SkipFile, market
            <4>2. ~SyncPlugins(p)
                BY <1>4 DEF SyncPlugins, ListDefinitions, DefinitionsFail, SyncDone,
                            SavePlugin, PluginFails, market
            <4>3. QED
                BY <1>4, <3>3, <4>1, <4>2
                   DEF Step, LookForPlugins, StartFails, Refresh, ListSkills, LoaderFails,
                       Consult, Build, market
        <3>4. QED
            BY <1>4, <2>1, <3>1, <3>2, <3>3 DEF Start, BeginReload, market
    <2>3. CASE loaded' = [loaded EXCEPT ![p] = release]
        BY <1>1, <1>2, <2>3
    <2>4. CASE Stop(p)
        <3>1. loaded' = [loaded EXCEPT ![p] = Nothing]
              /\ pod' = [pod EXCEPT ![p] = [Serving EXCEPT !.pc = "down"]]
            BY <2>4 DEF Stop, Begin
        <3>2. [Serving EXCEPT !.pc = "down"].pc = "down"
            BY DEF Serving
        <3>3. QED
            BY <1>1, <3>1, <3>2
    <2>5. QED
        BY <2>2, <2>3, <2>4
<1>5. QED
    BY <1>3, <1>4

LEMMA WatchTells ==
    ASSUME CatalogInv, TypeOK', Watch,
           loaded[Home] # Nothing => loaded'[Home] # Nothing \/ pod'[Home].pc = "down"
    PROVE  /\ call' \in Calls \cup {None}
           /\ call' # None => Told(call', View')
           /\ Loaded'
<1>1. CASE call' = None
    BY <1>1 DEF Loaded
<1>2. CASE call' # None
    <2> DEFINE touched == call.touched \cup Touched
    <2>1. call # None /\ call.pc \notin {"done", "rejected", "failed"}
          /\ call' = [call EXCEPT !.touched = touched] /\ pod'[Home].pc # "down"
        BY <1>2 DEF Watch, Over
    <2>2. call \in Calls /\ Told(call, View) /\ TypeOK
        BY <2>1 DEF CatalogInv, CatalogTypeOK
    <2>3. touched \subseteq Entries /\ call.touched \subseteq touched
        BY <2>2, TouchedIs, WatchedFit
    <2>4. Touched \subseteq touched
        OBVIOUS
    <2> HIDE DEF touched
    <2>5. call' \in Calls /\ call'.touched = touched
        <3>1. touched \in SUBSET Entries /\ call \in Calls
            BY <2>2, <2>3
        <3>2. call' \in Calls
            BY <2>1, <3>1, WatchedFit
        <3>3. call'.touched = touched
            BY <2>1, <3>1 DEF Calls
        <3>4. QED
            BY <3>2, <3>3
    <2>6. Waits(call, call')
        BY <2>1, <2>2, <2>3 DEF Waits, Calls
    <2>7. Moved(View, View', call')
        <3>1. Stayed(call') \subseteq Keys \ Touched
            BY <2>4, <2>5 DEF Stayed
        <3>2. \A s : OnDisk(s) \notin call'.touched => OnDisk(s) \notin Touched
            BY <2>4, <2>5
        <3>3. QED
            BY <2>2, <3>1, <3>2, TouchedIs DEF Moved
    <2>8. Told(call', View')
        BY <2>1, <2>2, <2>6, <2>7, ToldStays
    <2>9. Loaded'
        BY <2>1, <2>6 DEF Loaded, CatalogInv, Waits
    <2>10. QED
        BY <2>5, <2>8, <2>9
<1>3. QED
    BY <1>1, <1>2

(* Users do not write the marketplace's skills.                            *)
LEMMA UserKeysApart ==
    ASSUME NEW s \in Skills
    PROVE  Key(s) \in Keys \ UserKeys
<1>1. Key(s) \in Keys /\ Key(s)[3] = System
    BY KeyIs DEF Key
<1>2. QED
    BY <1>1 DEF UserKeys

(* What a change by a user leaves.                                         *)
UserLeaves(k) ==
    /\ row' \in [Keys -> Rows \cup {None}]
    /\ file' \in [Keys -> [Files -> Texts \cup {Own, None}]]
    /\ \A j \in Keys \ {k} : row'[j] = row[j] /\ file'[j] = file[j]
    /\ row'[k] = None => \A f \in Files : file'[k][f] = None

LEMMA UserWrites ==
    ASSUME CatalogInv, NEW k \in UserKeys,
           \/ UserSaves(k)
           \/ \E state \in UserStates : UserSetsState(k, state)
           \/ UserDeletes(k)
           \/ \E f \in Files : UserSavesFile(k, f) \/ UserDeletesFile(k, f)
    PROVE  UserLeaves(k)
<1>1. /\ row \in [Keys -> Rows \cup {None}]
      /\ file \in [Keys -> [Files -> Texts \cup {Own, None}]]
      /\ k \in Keys
      /\ row[k] = None => \A f \in Files : file[k][f] = None
    BY DEF CatalogInv, SyncInv, TypeOK, UserKeys, UserFiles, Held
<1>2. CASE UserSaves(k)
    <2> DEFINE new == [state |-> "draft", text |-> Own]
    <2>1. new \in Rows
        BY DEF Rows, States
    <2>2. row' = [row EXCEPT ![k] = new] /\ file' = file
        BY <1>2 DEF UserSaves
    <2> HIDE DEF new
    <2>3. QED
        BY <1>1, <2>1, <2>2, NoneAssumption DEF UserLeaves
<1>3. ASSUME NEW state \in UserStates, UserSetsState(k, state)
      PROVE  UserLeaves(k)
    <2> DEFINE new == [row[k] EXCEPT !.state = state]
    <2>1. row[k] \in Rows /\ state \in States
        BY <1>1, <1>3, CatalogAssumption DEF UserSetsState
    <2>2. new \in Rows
        BY <2>1 DEF Rows
    <2>3. row' = [row EXCEPT ![k] = new] /\ file' = file
        BY <1>1, <1>3 DEF UserSetsState
    <2> HIDE DEF new
    <2>4. QED
        BY <1>1, <2>2, <2>3, NoneAssumption DEF UserLeaves
<1>4. CASE UserDeletes(k)
    BY <1>1, <1>4 DEF UserDeletes, UserLeaves
<1>5. ASSUME NEW f \in Files, UserSavesFile(k, f)
      PROVE  UserLeaves(k)
    <2> DEFINE new == [file[k] EXCEPT ![f] = Own]
    <2>1. new \in [Files -> Texts \cup {Own, None}]
        BY <1>1
    <2>2. file' = [file EXCEPT ![k] = new] /\ row' = row /\ row[k] # None
        BY <1>1, <1>5 DEF UserSavesFile
    <2> HIDE DEF new
    <2>3. QED
        BY <1>1, <2>1, <2>2 DEF UserLeaves
<1>6. ASSUME NEW f \in Files, UserDeletesFile(k, f)
      PROVE  UserLeaves(k)
    <2> DEFINE new == [file[k] EXCEPT ![f] = None]
    <2>1. new \in [Files -> Texts \cup {Own, None}]
          /\ ((\A g \in Files : file[k][g] = None) => \A g \in Files : new[g] = None)
        BY <1>1
    <2>2. file' = [file EXCEPT ![k] = new] /\ row' = row
        BY <1>1, <1>6 DEF UserDeletesFile
    <2> HIDE DEF new
    <2>3. QED
        BY <1>1, <2>1, <2>2 DEF UserLeaves
<1>7. QED
    BY <1>2, <1>3, <1>4, <1>5, <1>6

LEMMA UserChangeKept ==
    ASSUME CatalogInv, UserChange, Watch
    PROVE  CatalogInv'
<1>1. PICK k \in UserKeys : UserLeaves(k)
    BY UserWrites DEF UserChange
<1>2. UNCHANGED <<plugins, release, loaded, defs, pod, missed>>
    BY DEF UserChange
<1>3. TypeOK'
    BY <1>1, <1>2 DEF CatalogInv, SyncInv, TypeOK, UserLeaves
<1>4. \A s \in Skills : row'[Key(s)] = row[Key(s)]
    BY <1>1, UserKeysApart DEF UserLeaves
<1>5. SyncInv'
    <2>1. Kept
        BY <1>2, <1>4 DEF Kept, Published, PublishedAfter
    <2>2. ASSUME NEW p \in Pods
          PROVE  ToldAfter(pod'[p])
        <3>1. pod[p] \in Syncs /\ SyncTold(pod[p]) /\ pod'[p] = pod[p]
            BY <1>2 DEF CatalogInv, SyncInv, TypeOK, SyncsTold
        <3>2. SameSync(pod'[p], pod[p])
            BY <3>1 DEF SameSync
        <3>3. QED
            BY <2>1, <3>1, <3>2, ToldOn
    <2>3. SyncsTold'
        BY <2>2 DEF SyncsTold, SyncTold, ToldAfter, Published, PublishedAfter
    <2>4. SnapshotsReal'
        BY <1>2 DEF CatalogInv, SyncInv, SnapshotsReal
    <2>5. PluginsListPublished'
        <3>1. \A q \in Plugins : plugins[q] # None => plugins[q] \subseteq Skills
            BY DEF CatalogInv, SyncInv, TypeOK
        <3>2. QED
            BY <1>2, <1>4, <3>1 DEF CatalogInv, SyncInv, PluginsListPublished
    <2>6. QED
        BY <1>3, <2>3, <2>4, <2>5 DEF SyncInv
<1>6. UserFiles'
    <2> SUFFICES ASSUME NEW j \in UserKeys, row'[j] = None
                 PROVE  Held(j)' = {}
        BY DEF UserFiles, UserKeys
    <2>1. \A f \in Files : file'[j][f] = None
        <3>1. CASE j = k
            BY <1>1, <3>1 DEF UserLeaves
        <3>2. CASE j # k
            <4>1. row[j] = None /\ file'[j] = file[j]
                BY <1>1, <3>2 DEF UserLeaves, UserKeys
            <4>2. Held(j) = {}
                BY <4>1 DEF CatalogInv, UserFiles
            <4>3. QED
                BY <4>1, <4>2 DEF Held
        <3>3. QED
            BY <3>1, <3>2
    <2>2. QED
        BY <2>1 DEF Held
<1>7. QED
    BY <1>2, <1>3, <1>5, <1>6, WatchTells DEF CatalogInv, CatalogTypeOK

(* A sync writes the marketplace's skills only.                            *)
LEMMA SyncLeavesUsers ==
    ASSUME CatalogInv, SyncNext
    PROVE  \A k \in UserKeys : row'[k] = row[k] /\ file'[k] = file[k]
<1> SUFFICES ASSUME NEW k \in UserKeys
             PROVE  row'[k] = row[k] /\ file'[k] = file[k]
    OBVIOUS
<1>1. /\ row \in [Keys -> Rows \cup {None}]
      /\ file \in [Keys -> [Files -> Texts \cup {Own, None}]]
      /\ \A p \in Pods : pod[p] \in Syncs /\ SyncTold(pod[p])
      /\ k \in Keys
    BY DEF CatalogInv, SyncInv, TypeOK, SyncsTold, UserKeys
<1>2. CASE UNCHANGED <<row, file>>
    BY <1>2
<1>3. CASE ~UNCHANGED <<row, file>>
    <2>1. PICK p \in Pods : Start(p) \/ BeginReload(p) \/ Reload(p) \/ Step(p) \/ Crash(p)
        BY <1>3 DEF SyncNext, Publish, stored
    <2>2. Step(p)
        BY <1>3, <2>1 DEF Start, BeginReload, Reload, Crash, Stop, stored
    <2>3. SyncSkills(p)
        <3>1. ~SyncPlugins(p)
            BY <1>3 DEF SyncPlugins, ListDefinitions, DefinitionsFail, SyncDone, stored,
                        SavePlugin, PluginFails
        <3>2. QED
            BY <1>3, <2>2, <3>1 DEF Step, LookForPlugins, StartFails, Stop, Refresh,
                                    ListSkills, LoaderFails, stored
    <2>4. ASSUME NEW s \in Skills, NEW text, save_skill(Key(s), text)
          PROVE  row'[k] = row[k]
        BY <1>1, <2>4, UserKeysApart DEF save_skill
    <2>5. ASSUME NEW s \in Skills, publish_skill(Key(s))
          PROVE  row'[k] = row[k]
        BY <1>1, <2>5, UserKeysApart DEF publish_skill
    <2>6. ASSUME NEW f, pod[p].pc = "files", save_file(p, f)
          PROVE  file'[k] = file[k]
        <3>1. Key(pod[p].skill) # k
            BY <1>1, <2>6, UserKeysApart DEF SyncTold
        <3>2. QED
            BY <1>1, <2>6, <3>1 DEF save_file
    <2>7. ASSUME NEW s \in Skills, SaveSkill(p, s)
          PROVE  row'[k] = row[k] /\ file' = file
        BY <2>4, <2>7 DEF SaveSkill
    <2>8. CASE PublishSkill(p)
        <3>1. pod[p].skill \in Skills
            BY <1>1, <2>8 DEF PublishSkill, SyncTold
        <3>2. QED
            BY <2>5, <2>8, <3>1 DEF PublishSkill
    <2>9. CASE SkillFails(p)
        <3>1. pod[p].todo \subseteq Skills
            BY <1>1 DEF Syncs
        <3>2. pod[p].pc = "publish" => pod[p].skill \in Skills
            BY <1>1 DEF SyncTold
        <3>3. CASE pod[p].pc = "publish" /\ publish_skill(Key(pod[p].skill))
            BY <2>5, <2>9, <3>2, <3>3 DEF SkillFails
        <3>4. ASSUME NEW s \in pod[p].todo, save_skill(Key(s), TextOf(p, s))
              PROVE  row'[k] = row[k]
            BY <2>4, <3>1, <3>4
        <3>5. QED
            BY <2>9, <3>3, <3>4 DEF SkillFails
    <2>10. ASSUME NEW f \in Files, SaveFile(p, f) \/ FileFails(p, f) \/ SkipFile(p, f)
           PROVE  row' = row /\ file'[k] = file[k]
        BY <2>6, <2>10 DEF SaveFile, FileFails, SkipFile, stored
    <2>11. QED
        BY <2>3, <2>7, <2>8, <2>9, <2>10 DEF SyncSkills
<1>4. QED
    BY <1>2, <1>3

LEMMA SyncStepKept ==
    ASSUME CatalogInv, SyncNext, Watch
    PROVE  CatalogInv'
<1>1. SyncInv' /\ TypeOK'
    BY NextKept DEF CatalogInv, SyncInv
<1>2. UserFiles'
    <2> SUFFICES ASSUME NEW k \in UserKeys, row'[k] = None
                 PROVE  Held(k)' = {}
        BY DEF UserFiles, UserKeys
    <2>1. row[k] = None /\ file'[k] = file[k]
        BY SyncLeavesUsers
    <2>2. Held(k) = {}
        BY <2>1 DEF CatalogInv, UserFiles
    <2>3. QED
        BY <2>1, <2>2 DEF Held
<1>3. loaded[Home] # Nothing => loaded'[Home] # Nothing \/ pod'[Home].pc = "down"
    BY SnapshotRemains DEF CatalogInv
<1>4. QED
    BY <1>1, <1>2, <1>3, WatchTells DEF CatalogInv, CatalogTypeOK

-----------------------------------------------------------------------------
(* The reader's call begins, goes on, and ends.                            *)
LEMMA FreshIs ==
    ASSUME NEW op \in Ops, NEW pc \in CallPcs, NEW q \in Plugins \cup {None},
           NEW n \in Names \cup {None}, NEW f \in Files \cup {None}, NEW staging \in BOOLEAN
    PROVE  [op |-> op, pc |-> pc, plugin |-> q, name |-> n, file |-> f, staging |-> staging,
            answer |-> None, owner |-> None, files |-> {}, state |-> None,
            names |-> {}, base |-> {}, shared |-> None, own |-> None,
            cursor |-> None, filter |-> None, seen |-> {}, twice |-> FALSE, touched |-> {}]
               \in Calls
    BY DEF Calls

LEMMA FreshFits ==
    ASSUME NEW op \in Ops, NEW pc \in CallPcs, NEW q \in Plugins \cup {None},
           NEW n \in Names \cup {None}
    PROVE  /\ Fresh(op, pc, q, n) \in Calls
           /\ Fresh(op, pc, q, n).op = op /\ Fresh(op, pc, q, n).pc = pc
           /\ Fresh(op, pc, q, n).shared = None /\ Fresh(op, pc, q, n).own = None
<1>1. Fresh(op, pc, q, n) \in Calls
    <2>1. None \in Files \cup {None} /\ FALSE \in BOOLEAN
        OBVIOUS
    <2>2. QED
        BY <2>1, FreshIs DEF Fresh
<1>2. QED
    BY <1>1 DEF Fresh

LEMMA StoreStays ==
    ASSUME CatalogInv, UNCHANGED <<stored, release, pod, missed>>,
           UNCHANGED <<loaded, defs>> \/ Consult(Home)
    PROVE  /\ SyncInv' /\ TypeOK' /\ UserFiles'
           /\ View'.state = View.state /\ View'.held = View.held /\ View' \in Views
           /\ UNCHANGED <<loaded, defs>> => View' = View
<1>1. UNCHANGED <<row, file, plugins, release, pod, missed>>
    BY DEF stored
<1>2. MarketFits'
    <2>1. CASE UNCHANGED <<loaded, defs>>
        BY <1>1, <2>1 DEF MarketFits, CatalogInv, SyncInv, TypeOK, SnapshotsReal
    <2>2. CASE Consult(Home) /\ loaded[Home] = Nothing
        BY <1>1, <2>2, CatalogAssumption, MarketTaken DEF Consult, Build, CatalogInv
    <2>3. QED
        BY <2>1, <2>2 DEF Consult
<1>3. TypeOK' /\ SnapshotsReal'
    BY <1>1, <1>2 DEF CatalogInv, SyncInv, TypeOK, MarketFits
<1>4. SyncsTold' /\ PluginsListPublished'
    BY <1>1 DEF CatalogInv, SyncInv, SyncsTold, SyncTold, Published, PluginsListPublished
<1>5. UserFiles'
    BY <1>1 DEF CatalogInv, UserFiles, UserKeys, Held
<1>6. View'.state = View.state /\ View'.held = View.held
    BY <1>1 DEF View, State, Held
<1>7. View' \in Views
    BY <1>3, ViewAfter
<1>8. UNCHANGED <<loaded, defs>> => View' = View
    BY <1>1 DEF View, State, Held
<1>9. QED
    BY <1>3, <1>4, <1>5, <1>6, <1>7, <1>8 DEF SyncInv

LEMMA SyncVarsStay ==
    ASSUME CatalogInv, UNCHANGED syncVars
    PROVE  SyncInv' /\ TypeOK' /\ UserFiles' /\ View' = View
    BY StoreStays DEF syncVars, stored

LEMMA BeginCallKept ==
    ASSUME CatalogInv, BeginCall
    PROVE  CatalogInv'
<1>1. SyncInv' /\ TypeOK' /\ UserFiles'
    BY SyncVarsStay DEF BeginCall
<1>2. ASSUME NEW op \in {"open", "detail"}, NEW q \in Plugins \cup {None}, NEW n \in Names,
             call' = Fresh(op, "own", q, n)
      PROVE  call' \in Calls /\ Told(call', View') /\ call'.pc # "details"
    <2>1. op \in Ops /\ "own" \in CallPcs
        BY DEF Ops, CallPcs
    <2>4. call' \in Calls /\ call'.op = op /\ call'.pc = "own"
        BY <1>2, <2>1, FreshFits
    <2>2. OpenTold(call', View')
        BY <2>4 DEF OpenTold, DetailPcs
    <2>3. QED
        BY <2>2, <2>4 DEF Told
<1>3. ASSUME NEW q \in Plugins \cup {None}, NEW n \in Names, NEW f \in Files,
             call' = [Fresh("file", "own", q, n) EXCEPT !.file = f]
      PROVE  call' \in Calls /\ Told(call', View') /\ call'.pc # "details"
    <2> DEFINE fresh == Fresh("file", "own", q, n)
    <2>6. "file" \in Ops /\ "own" \in CallPcs
        BY DEF Ops, CallPcs
    <2>1. fresh \in Calls /\ fresh.op = "file" /\ fresh.pc = "own"
        BY <2>6, FreshFits
    <2> HIDE DEF fresh
    <2>2. call' = [fresh EXCEPT !.file = f]
        BY <1>3 DEF fresh
    <2>3. call' \in Calls /\ call'.op = "file" /\ call'.pc = "own"
        BY <2>1, <2>2 DEF Calls
    <2>4. OpenTold(call', View')
        BY <2>3 DEF OpenTold, DetailPcs
    <2>5. QED
        BY <2>3, <2>4 DEF Told
<1>4. ASSUME NEW staging \in BOOLEAN,
             call' = [Fresh("list", "base", None, None) EXCEPT !.staging = staging]
      PROVE  call' \in Calls /\ Told(call', View') /\ call'.pc # "details"
    <2> DEFINE fresh == Fresh("list", "base", None, None)
    <2>6. "list" \in Ops /\ "base" \in CallPcs
        BY DEF Ops, CallPcs
    <2>1. fresh \in Calls /\ fresh.op = "list" /\ fresh.pc = "base"
          /\ fresh.shared = None /\ fresh.own = None
        BY <2>6, FreshFits
    <2> HIDE DEF fresh
    <2>2. call' = [fresh EXCEPT !.staging = staging]
        BY <1>4 DEF fresh
    <2>3. call' \in Calls /\ call'.op = "list" /\ call'.pc = "base"
          /\ call'.shared = None /\ call'.own = None
        BY <2>1, <2>2 DEF Calls
    <2>4. ListTold(call', View')
        BY <2>3 DEF ListTold
    <2>5. QED
        BY <2>3, <2>4 DEF Told
<1>5. ASSUME WalkPages
      PROVE  call' \in Calls /\ Told(call', View') /\ call'.pc # "details"
    <2>1. "walk" \in Ops /\ "page" \in CallPcs
        BY DEF Ops, CallPcs
    <2>2. call' \in Calls
        BY <1>5, <2>1, FreshFits DEF WalkPages
    <2>3. /\ call'.op = "walk" /\ call'.pc = "page"
          /\ call'.cursor = None /\ call'.seen = {} /\ call'.twice = FALSE
        BY <1>5 DEF WalkPages, Fresh
    <2>4. WalkTold(call', View')
        BY <2>3 DEF WalkTold, PagesTold, SeenIsBehind
    <2>5. QED
        BY <2>2, <2>3, <2>4 DEF Told
<1>6. call' \in Calls /\ Told(call', View') /\ call'.pc # "details"
    BY <1>2, <1>3, <1>4, <1>5 DEF BeginCall, LoadSkill, GetSkillDetail, ReadFile, ListForUser
<1>7. QED
    BY <1>1, <1>6 DEF CatalogInv, CatalogTypeOK, Loaded

(* What a read of the call leaves of it.                                   *)
LEMMA MovesFit ==
    ASSUME NEW c \in Calls
    PROVE  /\ \A o \in Authors : [c EXCEPT !.pc = "owner", !.owner = o] \in Calls
           /\ \A fs \in SUBSET Files : [c EXCEPT !.pc = "system_files", !.files = fs] \in Calls
           /\ \A fs \in SUBSET Files : [c EXCEPT !.pc = "own_meta", !.files = fs] \in Calls
           /\ \A state \in States : [c EXCEPT !.pc = "done", !.state = state] \in Calls
<1>1. /\ "owner" \in CallPcs /\ "system_files" \in CallPcs /\ "own_meta" \in CallPcs
      /\ "done" \in CallPcs
    BY DEF CallPcs
<1>2. \A o \in Authors : [c EXCEPT !.pc = "owner", !.owner = o] \in Calls
    BY <1>1 DEF Calls
<1>3. \A fs \in SUBSET Files : [c EXCEPT !.pc = "system_files", !.files = fs] \in Calls
    BY <1>1 DEF Calls
<1>4. \A fs \in SUBSET Files : [c EXCEPT !.pc = "own_meta", !.files = fs] \in Calls
    BY <1>1 DEF Calls
<1>5. \A state \in States : [c EXCEPT !.pc = "done", !.state = state] \in Calls
    BY <1>1 DEF Calls
<1>6. QED
    BY <1>2, <1>3, <1>4, <1>5

Continues(c, d) ==
    /\ d.op = c.op /\ d.plugin = c.plugin /\ d.name = c.name /\ d.file = c.file
    /\ d.staging = c.staging /\ d.touched = c.touched

LEMMA SameReach ==
    ASSUME NEW c, NEW d, Continues(c, d)
    PROVE  /\ Stayed(d) = Stayed(c)
           /\ \A k : AskedBy(d, k) <=> AskedBy(c, k)
           /\ \A v : AskedIn(d, v) = AskedIn(c, v)
<1>1. Stayed(d) = Stayed(c) /\ \A k : AskedBy(d, k) <=> AskedBy(c, k)
    BY DEF Continues, Stayed, AskedBy
<1>2. QED
    BY <1>1 DEF AskedIn

LEMMA SameDocs ==
    ASSUME NEW v, NEW w, w.state = v.state
    PROVE  \A c : AskedIn(c, w) = AskedIn(c, v)
    BY DEF AskedIn

LEMMA GotoIs ==
    ASSUME call \in Calls, NEW pc \in CallPcs, Goto(pc)
    PROVE  /\ call' \in Calls
           /\ call'.pc = pc
           /\ Continues(call, call')
           /\ call'.answer = call.answer /\ call'.files = call.files
           /\ call'.names = call.names /\ call'.base = call.base
           /\ call'.shared = call.shared /\ call'.own = call.own
           /\ call'.twice = call.twice
    BY DEF Goto, Calls, Continues

LEMMA AnswerIs ==
    ASSUME call \in Calls, NEW k \in Entries \cup {NotFound}, Answer(k)
    PROVE  /\ call' \in Calls
           /\ call'.answer = k
           /\ call'.pc = IF call.op = "detail" /\ k # NotFound THEN "own_files" ELSE "done"
           /\ Continues(call, call')
<1> DEFINE pc == IF call.op = "detail" /\ k # NotFound THEN "own_files" ELSE "done"
<1>1. call' = [call EXCEPT !.answer = k, !.pc = pc]
    BY DEF Answer
<1>2. pc \in CallPcs
    BY DEF CallPcs
<1> HIDE DEF pc
<1>3. /\ call' \in Calls
      /\ call'.answer = k
      /\ call'.pc = pc
      /\ Continues(call, call')
    <2>1. call' \in Calls
        BY <1>1, <1>2 DEF Calls
    <2>2. call'.answer = k /\ call'.pc = pc
        BY <1>1 DEF Calls
    <2>3. Continues(call, call')
        BY <1>1 DEF Calls, Continues
    <2>4. QED
        BY <2>1, <2>2, <2>3
<1>4. QED
    BY <1>3 DEF pc

(* Who reads what.                                                         *)
LEMMA PlacedOp ==
    ASSUME call \in Calls, NEW v, Told(call, v)
    PROVE  /\ call.pc \in {"own", "shared", "owner", "disk"} \cup DetailPcs =>
                  call.op \in {"open", "detail", "file"} /\ OpenTold(call, v)
           /\ call.pc \in {"base", "details", "gather"} => call.op = "list" /\ ListTold(call, v)
           /\ call.pc = "page" => call.op = "walk" /\ WalkTold(call, v)
<1>1. call.op \in Ops
    BY DEF Calls
<1>2. QED
    BY <1>1 DEF Told, OpenTold, ListTold, WalkTold, Ops, DetailPcs

-----------------------------------------------------------------------------
(* Something is found for open or detail.                                  *)
LEMMA OpenFinds ==
    ASSUME call \in Calls, call.op \in {"open", "detail"}, NEW w,
           NEW k \in Entries, Answer(k), k[2] = call.name,
           k \in Keys => AskedBy(call, k),
           k[3] = Disk => AskedIn(call, w) = {},
           (\E j \in AskedIn(call, w) : j[3] = User) => k[3] = User,
           k \in Stayed(call) => k \in AskedIn(call, w)
    PROVE  call' \in Calls /\ Told(call', w)
<1>1. /\ call' \in Calls
      /\ call'.answer = k /\ k # NotFound
      /\ call'.pc = IF call.op = "detail" THEN "own_files" ELSE "done"
      /\ Continues(call, call')
    BY AnswerIs, NotFoundIsNone
<1>2. call'.op = call.op /\ call'.name = call.name
    BY <1>1 DEF Continues
<1>3. RightAuthor(call', w)
    BY <1>1, SameReach DEF RightAuthor
<1>4. CASE call.op = "detail"
    <2>1. Found(call', w)
        BY <1>1, <1>2, <1>3, SameReach DEF Found
    <2>2. OpenTold(call', w)
        BY <1>1, <1>2, <1>4, <2>1 DEF OpenTold, DetailPcs
    <2>3. QED
        BY <1>1, <1>2, <1>4, <2>2 DEF Told
<1>5. CASE call.op = "open"
    <2>1. Opened(call', w)
        BY <1>1, <1>3 DEF Opened
    <2>2. OpenTold(call', w)
        BY <1>1, <1>2, <1>5, <2>1 DEF OpenTold, DetailPcs
    <2>3. QED
        BY <1>1, <1>2, <1>5, <2>2 DEF Told
<1>6. QED
    BY <1>4, <1>5

(* A file is found, or is not.                                             *)
LEMMA FileFinds ==
    ASSUME call \in Calls, call.op = "file", NEW w,
           NEW k \in Entries \cup {NotFound}, Answer(k),
           k = NotFound => NoFile(call, w),
           (\E j \in AskedIn(call, w) : call.file \in w.held[j] /\ j[3] = User) => k[3] = User,
           call.plugin # None /\ k \in Stayed(call) =>
               k \in AskedIn(call, w) /\ call.file \in w.held[k]
    PROVE  call' \in Calls /\ Told(call', w)
<1>1. /\ call' \in Calls
      /\ call'.answer = k
      /\ call'.pc = "done"
      /\ Continues(call, call')
    BY AnswerIs
<1>2. call'.op = call.op /\ call'.plugin = call.plugin /\ call'.file = call.file
    BY <1>1 DEF Continues
<1>3. NoFile(call, w) => NoFile(call', w)
    BY <1>1, <1>2, SameReach DEF NoFile, AloneIn
<1>4. FileAnswered(call', w)
    BY <1>1, <1>2, <1>3, SameReach DEF FileAnswered
<1>5. OpenTold(call', w)
    BY <1>1, <1>2, <1>4 DEF OpenTold, DetailPcs
<1>6. QED
    BY <1>1, <1>2, <1>5 DEF Told

LEMMA ReadOwnTells ==
    ASSUME CatalogInv, call # None, ReadOwn, View' = View
    PROVE  call' \in Calls /\ Told(call', View')
<1> DEFINE v == View
<1>1. call \in Calls /\ TypeOK /\ Told(call, v)
    BY DEF CatalogInv, CatalogTypeOK
<1>2. call.pc = "own" /\ call.op \in {"open", "detail", "file"}
    BY <1>1, PlacedOp DEF ReadOwn
<1> DEFINE theirs == {k \in Keys : k[3] = User /\ AskedBy(call, k) /\ v.state[k] # None}
           files  == {k \in Keys : k[3] = User /\ AskedBy(call, k) /\ call.file \in v.held[k]}
           found  == IF call.op = "file" THEN files ELSE theirs
<1>3. IF found = {} THEN Goto("shared") ELSE \E k \in found : Answer(k)
    <2>1. Theirs(User) = theirs /\ TheirFiles(User) = files
        BY <1>1, SourcesAre, CatalogAssumption
    <2>2. QED
        BY <2>1 DEF ReadOwn
<1>4. CASE found = {}
    <2>1. Goto("shared")
        BY <1>3, <1>4
    <2>2. call' \in Calls /\ call'.pc = "shared" /\ Continues(call, call')
        BY <1>1, <2>1, GotoIs DEF CallPcs
    <2>3. call'.op = call.op /\ call'.file = call.file
        BY <2>2 DEF Continues
    <2>4. NoneOwn(call', v)
        <3>1. \A k \in Stayed(call) : k[3] = User /\ AskedBy(call, k) =>
                  IF call.op = "file" THEN call.file \notin v.held[k] ELSE v.state[k] = None
            BY <1>4 DEF Stayed
        <3>2. QED
            BY <2>2, <2>3, <3>1, SameReach DEF NoneOwn
    <2>5. OpenTold(call', v)
        BY <2>2, <2>4 DEF OpenTold, DetailPcs
    <2>6. QED
        BY <1>2, <2>2, <2>3, <2>5 DEF Told
<1>5. ASSUME NEW k \in found, Answer(k)
      PROVE  call' \in Calls /\ Told(call', v)
    <2>1. k \in Keys /\ k[3] = User /\ AskedBy(call, k) /\ k \in Entries
        BY <1>5 DEF Entries
    <2>2. k # NotFound
        BY <2>1, NotFoundIsNone
    <2>3. v.state[k] # None
        <3>1. CASE call.op = "file"
            <4>1. call.file \in Held(k) /\ k \in UserKeys
                BY <1>1, <1>5, <2>1, <3>1, ViewIs, CatalogAssumption DEF UserKeys
            <4>2. row[k] # None
                BY <4>1 DEF CatalogInv, UserFiles
            <4>3. QED
                BY <1>1, <2>1, <4>2, ViewIs
        <3>2. CASE call.op # "file"
            BY <1>5, <3>2
        <3>3. QED
            BY <3>1, <3>2
    <2>4. k \in Stayed(call) => k \in AskedIn(call, v)
        BY <2>1, <2>3 DEF AskedIn
    <2>5. CASE call.op = "file"
        <3>1. call.file \in v.held[k]
            BY <1>5, <2>5
        <3> HIDE DEF v, found
        <3>2. QED
            BY <1>1, <1>5, <2>1, <2>2, <2>4, <2>5, <3>1, FileFinds
    <2>6. CASE call.op # "file"
        <3>1. k[2] = call.name /\ k[3] # Disk /\ call.op \in {"open", "detail"}
            BY <1>2, <2>1, <2>6, KeyParts DEF AskedBy
        <3> HIDE DEF v, found
        <3>2. QED
            BY <1>1, <1>5, <2>1, <2>4, <3>1, OpenFinds
    <2>7. QED
        BY <2>5, <2>6
<1>6. QED
    BY <1>3, <1>4, <1>5

(* Without one of the reader's own, what may be found is shared.           *)
LEMMA NoneOwnAsked ==
    ASSUME NEW c, NEW v, NoneOwn(c, v), NEW k \in AskedIn(c, v),
           c.op = "file" => c.file \in v.held[k]
    PROVE  k[3] # User /\ v.state[k] \in Shares
    BY DEF NoneOwn, AskedIn

LEMMA ReadSharedTells ==
    ASSUME CatalogInv, call # None, ReadShared, View' = View
    PROVE  call' \in Calls /\ Told(call', View')
<1> DEFINE v     == View
           found == {k \in Keys : v.state[k] \in Shares /\ AskedBy(call, k)}
<1>1. call \in Calls /\ TypeOK /\ Told(call, v)
    BY DEF CatalogInv, CatalogTypeOK
<1>2. call.pc = "shared" /\ call.op \in {"open", "detail", "file"} /\ NoneOwn(call, v)
    BY <1>1, PlacedOp DEF ReadShared, OpenTold
<1>3. IF found = {} THEN Goto("disk")
      ELSE \E k \in found : IF call.op = "file"
                            THEN call' = [call EXCEPT !.pc = "owner", !.owner = k[3]]
                            ELSE Answer(k)
    <2>1. {k \in Shared(TRUE) : Asked(k)} = found
        BY <1>1, SourcesAre
    <2>2. QED
        BY <2>1 DEF ReadShared
<1>4. CASE found = {}
    <2>1. Goto("disk")
        BY <1>3, <1>4
    <2>2. call' \in Calls /\ call'.pc = "disk" /\ Continues(call, call')
        BY <1>1, <2>1, GotoIs DEF CallPcs
    <2>3. call'.op = call.op /\ call'.file = call.file
        BY <2>2 DEF Continues
    <2>4. NoneOwn(call', v)
        BY <1>2, <2>2, <2>3, SameReach DEF NoneOwn
    <2>5. \A k \in Keys : AskedBy(call, k) => v.state[k] \notin Shares
        BY <1>4
    <2>6. NoneShared(call', v)
        BY <2>2, <2>5, SameReach DEF NoneShared, Stayed
    <2>7. call.op = "file" => NoFile(call', v)
        <3>1. ASSUME call.op = "file", NEW k \in AskedIn(call', v), call'.file \in v.held[k]
              PROVE  FALSE
            <4>1. v.state[k] \in Shares
                BY <2>3, <2>4, <3>1, NoneOwnAsked
            <4>2. k \in Keys /\ AskedBy(call, k)
                BY <2>2, SameReach DEF AskedIn, Stayed
            <4>3. QED
                BY <2>5, <4>1, <4>2
        <3>2. QED
            BY <3>1 DEF NoFile
    <2>8. OpenTold(call', v)
        BY <2>2, <2>3, <2>4, <2>6, <2>7 DEF OpenTold, DetailPcs
    <2>9. QED
        BY <1>2, <2>2, <2>3, <2>8 DEF Told
<1>5. ASSUME NEW k \in found
      PROVE  k \in Keys /\ k \in Entries /\ k[3] \in Authors /\ k[3] # Disk /\ k[2] = call.name
             /\ AskedBy(call, k) /\ v.state[k] \in Shares /\ v.state[k] # None
    BY KeyParts, AbsentAssumption DEF Entries, AskedBy, Shares
<1>6. ASSUME NEW k \in found, call.op = "file",
             call' = [call EXCEPT !.pc = "owner", !.owner = k[3]]
      PROVE  call' \in Calls /\ Told(call', v)
    <2>1. call' \in Calls /\ call'.pc = "owner" /\ call'.owner = k[3] /\ Continues(call, call')
        <3>1. call' \in Calls
            BY <1>1, <1>5, <1>6, MovesFit
        <3>2. call'.pc = "owner" /\ call'.owner = k[3] /\ Continues(call, call')
            BY <1>1, <1>5, <1>6 DEF Calls, Continues
        <3>3. QED
            BY <3>1, <3>2
    <2>2. call'.op = "file" /\ call'.file = call.file
        BY <1>6, <2>1 DEF Continues
    <2>3. NoneOwn(call', v)
        BY <1>2, <1>6, <2>1, <2>2, SameReach DEF NoneOwn
    <2>4. OwnerShares(call', v)
        BY <1>5, <2>1, SameReach DEF OwnerShares
    <2>5. OpenTold(call', v)
        BY <2>1, <2>2, <2>3, <2>4 DEF OpenTold, DetailPcs
    <2>6. QED
        BY <2>1, <2>2, <2>5 DEF Told
<1>7. ASSUME NEW k \in found, call.op # "file", Answer(k)
      PROVE  call' \in Calls /\ Told(call', v)
    <2>1. ~\E j \in AskedIn(call, v) : j[3] = User
        BY <1>2, <1>7, NoneOwnAsked
    <2>2. k \in Stayed(call) => k \in AskedIn(call, v)
        BY <1>5 DEF AskedIn
    <2>3. call.op \in {"open", "detail"}
        BY <1>2, <1>7
    <2> HIDE DEF v, found
    <2>4. QED
        BY <1>1, <1>5, <1>7, <2>1, <2>2, <2>3, OpenFinds
<1>8. QED
    BY <1>3, <1>4, <1>6, <1>7

LEMMA ReadOwnerTells ==
    ASSUME CatalogInv, call # None, ReadOwner, View' = View
    PROVE  call' \in Calls /\ Told(call', View')
<1> DEFINE v     == View
           found == {k \in Keys : /\ k[3] = call.owner
                                  /\ AskedBy(call, k)
                                  /\ call.file \in v.held[k]}
<1>1. call \in Calls /\ TypeOK /\ Told(call, v)
    BY DEF CatalogInv, CatalogTypeOK
<1>2. call.pc = "owner" /\ call.op = "file" /\ NoneOwn(call, v) /\ OwnerShares(call, v)
    BY <1>1, PlacedOp DEF ReadOwner, OpenTold
<1>3. PICK j \in Keys : /\ AskedBy(call, j)
                        /\ j[3] = call.owner
                        /\ j \in Stayed(call) => v.state[j] \in Shares
    BY <1>2 DEF OwnerShares
<1>4. call.owner \in Authors
    BY <1>3, KeyParts
<1>5. IF found = {} THEN Goto("disk") ELSE \E k \in found : Answer(k)
    <2>1. TheirFiles(call.owner) = found
        BY <1>1, <1>4, SourcesAre
    <2>2. QED
        BY <2>1 DEF ReadOwner
<1>6. CASE found = {}
    <2>1. Goto("disk")
        BY <1>5, <1>6
    <2>2. call' \in Calls /\ call'.pc = "disk" /\ Continues(call, call')
        BY <1>1, <2>1, GotoIs DEF CallPcs
    <2>3. call'.op = call.op /\ call'.file = call.file
        BY <2>2 DEF Continues
    <2>4. NoneOwn(call', v)
        BY <1>2, <2>2, <2>3, SameReach DEF NoneOwn
    <2>5. NoFile(call', v)
        <3>1. ASSUME NEW k \in AskedIn(call', v), call'.file \in v.held[k]
              PROVE  k[3] # User /\ ~AloneIn(call', v, k)
            <4>1. k[3] # User /\ k \in Keys /\ AskedBy(call, k)
                BY <2>2, <2>4, <3>1, NoneOwnAsked, SameReach DEF AskedIn, Stayed
            <4>2. j # k
                BY <1>3, <1>6, <2>3, <3>1, <4>1
            <4>3. ~(v.state[j] \notin Shares /\ j \in Stayed(call))
                BY <1>3
            <4>4. QED
                BY <1>3, <2>2, <4>1, <4>2, <4>3, SameReach DEF AloneIn
        <3>2. QED
            BY <3>1 DEF NoFile
    <2>6. OpenTold(call', v)
        BY <1>2, <2>2, <2>3, <2>4, <2>5 DEF OpenTold, DetailPcs
    <2>7. QED
        BY <1>2, <2>2, <2>3, <2>6 DEF Told
<1>7. ASSUME NEW k \in found, Answer(k)
      PROVE  call' \in Calls /\ Told(call', v)
    <2>1. k \in Keys /\ k[3] = call.owner /\ AskedBy(call, k) /\ call.file \in v.held[k]
          /\ k \in Entries
        BY DEF Entries
    <2>2. ~\E i \in AskedIn(call, v) : call.file \in v.held[i] /\ i[3] = User
        BY <1>2, NoneOwnAsked
    <2>3. ASSUME call.plugin # None, k \in Stayed(call)
          PROVE  k \in AskedIn(call, v)
        <3>1. k = j
            BY <1>3, <2>1, <2>3, SameKey DEF AskedBy
        <3>2. v.state[k] \in Shares /\ v.state[k] # None
            BY <1>3, <2>3, <3>1, AbsentAssumption DEF Shares
        <3>3. QED
            BY <2>1, <2>3, <3>2 DEF AskedIn
    <2>4. k # NotFound
        BY <2>1, NotFoundIsNone
    <2> HIDE DEF v, found
    <2>5. QED
        BY <1>1, <1>2, <1>7, <2>1, <2>2, <2>3, <2>4, FileFinds
<1>8. QED
    BY <1>5, <1>6, <1>7

LEMMA ReadDiskTells ==
    ASSUME CatalogInv, call # None, ReadDisk, TypeOK',
           View'.state = View.state, View'.held = View.held
    PROVE  call' \in Calls /\ Told(call', View') /\ Loaded'
<1> DEFINE v     == View
           w     == View'
           found == {s \in w.disk : s[2] = call.name}
<1>1. call \in Calls /\ TypeOK /\ Told(call, v)
    BY DEF CatalogInv, CatalogTypeOK
<1>2. call.pc = "disk" /\ call.op \in {"open", "detail", "file"} /\ NoneOwn(call, v)
      /\ IF call.op = "file" THEN NoFile(call, v) ELSE NoneShared(call, v)
    BY <1>1, PlacedOp DEF ReadDisk, OpenTold
<1>3. w.disk = loaded'[Home].skills /\ w.disk \subseteq Skills
    BY ViewAfter DEF Views
<1>4. IF found = {} THEN Answer(NotFound) ELSE \E s \in found : Answer(OnDisk(s))
    BY <1>3 DEF ReadDisk
<1>5. /\ AskedIn(call, w) = AskedIn(call, v)
      /\ \A k \in AskedIn(call, w) : (call.op = "file" /\ call.file \notin w.held[k]) \/ k[3] # User
      /\ NoneShared(call, v) /\ call.op # "file" => AskedIn(call, w) = {}
      /\ call.op = "file" => NoFile(call, w)
    <2>1. AskedIn(call, w) = AskedIn(call, v)
        BY SameDocs
    <2>2. \A k \in AskedIn(call, w) : (call.op = "file" /\ call.file \notin w.held[k]) \/ k[3] # User
        BY <1>2, <2>1, NoneOwnAsked
    <2>3. NoneShared(call, v) /\ call.op # "file" => AskedIn(call, w) = {}
        BY <1>2, <2>1, NoneOwnAsked DEF NoneShared, AskedIn
    <2>4. call.op = "file" => NoFile(call, w)
        BY <1>2, <2>1 DEF NoFile, AloneIn
    <2>5. QED
        BY <2>1, <2>2, <2>3, <2>4
<1>6. ASSUME found = {}, call.op = "file"
      PROVE  call' \in Calls /\ Told(call', w)
    <2>1. Answer(NotFound)
        BY <1>4, <1>6
    <2>2. NotFound \notin Stayed(call)
        BY NotFoundIsNone DEF Entries, Stayed
    <2>3. ~\E k \in AskedIn(call, w) : call.file \in w.held[k] /\ k[3] = User
        BY <1>5
    <2> HIDE DEF v, w, found
    <2>4. call' \in Calls /\ Told(call', w)
        BY <1>1, <1>5, <1>6, <2>1, <2>2, <2>3, FileFinds
    <2>5. QED
        BY <2>4 DEF w
<1>7. ASSUME found = {}, call.op # "file"
      PROVE  call' \in Calls /\ Told(call', w)
    <2>1. Answer(NotFound)
        BY <1>4, <1>7
    <2>2. call' \in Calls /\ call'.answer = NotFound /\ call'.pc = "done" /\ Continues(call, call')
        BY <1>1, <2>1, AnswerIs
    <2>3. call'.op = call.op /\ call'.name = call.name
        BY <2>2 DEF Continues
    <2>4. AskedIn(call', w) = {}
        BY <1>2, <1>5, <1>7, <2>2, SameReach
    <2>5. NotFound \notin Stayed(call')
        BY NotFoundIsNone DEF Entries, Stayed
    <2>6. Opened(call', w)
        BY <1>7, <2>2, <2>3, <2>4, <2>5 DEF Opened, RightAuthor
    <2>7. Detailed(call', w)
        BY <2>2, NotFoundIsNone, CatalogAssumption, KeysAssumption DEF Detailed
    <2>8. OpenTold(call', w)
        BY <1>7, <2>2, <2>3, <2>6, <2>7 DEF OpenTold, DetailPcs
    <2>9. QED
        BY <1>2, <2>2, <2>3, <2>8 DEF Told
<1>8. ASSUME NEW s \in found, Answer(OnDisk(s))
      PROVE  call' \in Calls /\ Told(call', w)
    <2>1. s \in Skills /\ s[2] = call.name
        BY <1>3
    <2> DEFINE k == OnDisk(s)
    <2>2. k \in Entries /\ k \notin Keys /\ k[2] = call.name
        BY <2>1, DiskEntries
    <2>3. k \notin Stayed(call) /\ k # NotFound
        BY <2>2, NotFoundIsNone DEF Stayed
    <2>4. Answer(k)
        BY <1>8
    <2> HIDE DEF k
    <2>5. CASE call.op = "file"
        <3>1. ~\E j \in AskedIn(call, w) : call.file \in w.held[j] /\ j[3] = User
            BY <1>5
        <3> HIDE DEF v, w, found
        <3>2. QED
            BY <1>1, <2>2, <2>3, <2>4, <2>5, <3>1, FileFinds
    <2>6. CASE call.op # "file"
        <3>1. AskedIn(call, w) = {}
            BY <1>2, <1>5, <2>6
        <3>2. call.op \in {"open", "detail"}
            BY <1>2, <2>6
        <3> HIDE DEF v, w, found
        <3>3. QED
            BY <1>1, <2>2, <2>3, <2>4, <3>1, <3>2, OpenFinds
    <2>7. QED
        BY <2>5, <2>6
<1>9. call' \in Calls /\ Told(call', w)
    BY <1>4, <1>6, <1>7, <1>8
<1>10. call'.pc # "details"
    <2>1. \E k \in Entries \cup {NotFound} : Answer(k)
        BY <1>3, <1>4, DiskEntries
    <2>2. QED
        BY <1>1, <2>1, AnswerIs
<1>11. QED
    BY <1>9, <1>10 DEF Loaded

-----------------------------------------------------------------------------
(* GetSkillDetailService: files and state of what was found.               *)
LEMMA FoundOn ==
    ASSUME NEW c, NEW d, NEW v, Continues(c, d), d.answer = c.answer, Found(c, v)
    PROVE  Found(d, v)
<1>1. d.name = c.name
    BY DEF Continues
<1>2. RightAuthor(d, v)
    BY SameReach DEF Found, RightAuthor
<1>3. QED
    BY <1>1, <1>2, SameReach DEF Found

LEMMA HeldByIs ==
    ASSUME TypeOK, NEW a
    PROVE  /\ HeldBy(a) \subseteq Files
           /\ \A k \in Keys : k[3] = a /\ k[1] = call.answer[1] /\ k[2] = call.name
                  => View.held[k] \subseteq HeldBy(a)
<1>1. \A k \in Keys : Held(k) \subseteq Files
    BY DEF Held
<1>2. HeldBy(a) \subseteq Files
    BY <1>1 DEF HeldBy, resolved_plugin
<1>3. ASSUME NEW k \in Keys, k[3] = a, k[1] = call.answer[1], k[2] = call.name
      PROVE  View.held[k] \subseteq HeldBy(a)
    <2>1. k \in resolved_plugin(a)
        BY <1>3 DEF resolved_plugin
    <2>2. Held(k) \subseteq HeldBy(a)
        BY <2>1 DEF HeldBy
    <2>3. QED
        BY <2>2, ViewIs
<1>4. QED
    BY <1>2, <1>3

LEMMA ListOwnFilesTells ==
    ASSUME CatalogInv, call # None, ListOwnFiles, View' = View
    PROVE  call' \in Calls /\ Told(call', View')
<1> DEFINE files == HeldBy(User)
<1>1. call \in Calls /\ TypeOK /\ Told(call, View)
    BY DEF CatalogInv, CatalogTypeOK
<1>2. call.op = "detail" /\ Found(call, View)
    BY <1>1, PlacedOp DEF ListOwnFiles, OpenTold, DetailPcs
<1>3. files \subseteq Files
    BY <1>1, HeldByIs
<1>4. \A k \in Keys : k[3] = User /\ k[1] = call.answer[1] /\ k[2] = call.name
          => View.held[k] \subseteq files
    BY <1>1, HeldByIs
<1>5. call' = [call EXCEPT !.pc = "system_files", !.files = files]
    BY DEF ListOwnFiles
<1> HIDE DEF files
<1>6. /\ call' \in Calls /\ call'.pc = "system_files" /\ call'.files = files
      /\ call'.answer = call.answer /\ Continues(call, call')
    <2>1. call' \in Calls
        BY <1>1, <1>3, <1>5, MovesFit
    <2>2. /\ call'.pc = "system_files" /\ call'.files = files
           /\ call'.answer = call.answer /\ Continues(call, call')
        BY <1>1, <1>3, <1>5 DEF Calls, Continues
    <2>3. QED
        BY <2>1, <2>2
<1>7. FilesTold(call', View, {User})
    BY <1>2, <1>4, <1>6, SameReach DEF FilesTold, Found, Stayed
<1>8. Found(call', View)
    BY <1>2, <1>6, FoundOn
<1>9. call'.op = "detail"
    BY <1>2, <1>6 DEF Continues
<1>10. OpenTold(call', View)
    BY <1>6, <1>7, <1>8, <1>9 DEF OpenTold, DetailPcs
<1>11. QED
    BY <1>6, <1>9, <1>10 DEF Told

LEMMA ListSystemFilesTells ==
    ASSUME CatalogInv, call # None, ListSystemFiles, View' = View
    PROVE  call' \in Calls /\ Told(call', View')
<1> DEFINE files == call.files \cup HeldBy(System)
<1>1. call \in Calls /\ TypeOK /\ Told(call, View)
    BY DEF CatalogInv, CatalogTypeOK
<1>2. call.op = "detail" /\ Found(call, View) /\ FilesTold(call, View, {User})
    BY <1>1, PlacedOp DEF ListSystemFiles, OpenTold, DetailPcs
<1>3. files \subseteq Files /\ call.files \subseteq files
    BY <1>1, HeldByIs DEF Calls
<1>4. \A k \in Keys : k[3] = System /\ k[1] = call.answer[1] /\ k[2] = call.name
          => View.held[k] \subseteq files
    BY <1>1, HeldByIs
<1>5. call' = [call EXCEPT !.pc = "own_meta", !.files = files]
    BY <1>1 DEF ListSystemFiles
<1> HIDE DEF files
<1>6. /\ call' \in Calls /\ call'.pc = "own_meta" /\ call'.files = files
      /\ call'.answer = call.answer /\ Continues(call, call')
    <2>1. call' \in Calls
        BY <1>1, <1>3, <1>5, MovesFit
    <2>2. /\ call'.pc = "own_meta" /\ call'.files = files
           /\ call'.answer = call.answer /\ Continues(call, call')
        BY <1>1, <1>3, <1>5 DEF Calls, Continues
    <2>3. QED
        BY <2>1, <2>2
<1>7. FilesTold(call', View, {User, System})
    <2> SUFFICES ASSUME call.answer[3] \in {User, System}, call.answer \in Stayed(call)
                 PROVE  View.held[call.answer] \subseteq files
        BY <1>6, SameReach DEF FilesTold
    <2>1. CASE call.answer[3] = User
        BY <1>2, <1>3, <2>1 DEF FilesTold
    <2>2. CASE call.answer[3] = System
        BY <1>2, <1>4, <2>2 DEF Found, Stayed
    <2>3. QED
        BY <2>1, <2>2
<1>8. Found(call', View)
    BY <1>2, <1>6, FoundOn
<1>9. call'.op = "detail"
    BY <1>2, <1>6 DEF Continues
<1>10. OpenTold(call', View)
    BY <1>6, <1>7, <1>8, <1>9 DEF OpenTold, DetailPcs
<1>11. QED
    BY <1>6, <1>9, <1>10 DEF Told

(* A detail ends: what was found is told, if the state is.                 *)
LEMMA DetailEnds ==
    ASSUME call \in Calls, call.op = "detail", NEW v, Found(call, v),
           FilesTold(call, v, {User, System}), NEW state \in States,
           call' = [call EXCEPT !.pc = "done", !.state = state],
           call.answer[3] \in {User, System} /\ call.answer \in Keys
               /\ (\A k \in Keys : k[2] = call.name => k \in Stayed(call))
               => v.state[call.answer] = state
    PROVE  call' \in Calls /\ Told(call', v)
<1>1. /\ call' \in Calls /\ call'.pc = "done" /\ call'.state = state
      /\ call'.answer = call.answer /\ call'.files = call.files /\ Continues(call, call')
    <2>1. call' \in Calls
        BY MovesFit
    <2>2. /\ call'.pc = "done" /\ call'.state = state
           /\ call'.answer = call.answer /\ call'.files = call.files /\ Continues(call, call')
        BY DEF Calls, Continues
    <2>3. QED
        BY <2>1, <2>2
<1>2. call'.op = "detail" /\ call'.name = call.name
    BY <1>1 DEF Continues
<1>3. Found(call', v) /\ call.answer # NotFound
    <2>1. Found(call', v)
        BY <1>1, FoundOn
    <2>2. call.answer # NotFound
        BY NotFoundIsNone DEF Found
    <2>3. QED
        BY <2>1, <2>2
<1>4. Opened(call', v)
    BY <1>1, <1>3 DEF Opened, Found
<1>5. Detailed(call', v)
    <2> SUFFICES ASSUME call.answer[3] \in {User, System},
                        \A k \in Keys : k[2] = call.name => k \in Stayed(call)
                 PROVE  v.state[call.answer] = state /\ v.held[call.answer] \subseteq call.files
        BY <1>1, <1>2, SameReach DEF Detailed
    <2>1. call.answer \in Keys
        <3>1. call.answer \in Entries /\ Disk \notin {User, System}
            BY CatalogAssumption, KeysAssumption DEF Found
        <3>2. QED
            BY <3>1, DiskEntries DEF Entries
    <2>2. call.answer \in Stayed(call)
        BY <2>1 DEF Found
    <2>3. QED
        BY <2>1, <2>2 DEF FilesTold
<1>6. OpenTold(call', v)
    BY <1>1, <1>2, <1>4, <1>5 DEF OpenTold, DetailPcs
<1>7. QED
    BY <1>1, <1>2, <1>6 DEF Told

(* The documents of an author of the skill found.                          *)
LEMMA ResolvedIs ==
    ASSUME TypeOK, NEW a
    PROVE  {k \in resolved_plugin(a) : row[k] # None} =
               {k \in Keys : /\ k[3] = a /\ k[1] = call.answer[1] /\ k[2] = call.name
                             /\ View.state[k] # None}
    BY ViewIs DEF resolved_plugin

LEMMA ReadOwnMetaTells ==
    ASSUME CatalogInv, call # None, ReadOwnMeta, View' = View
    PROVE  call' \in Calls /\ Told(call', View')
<1> DEFINE v     == View
           found == {k \in Keys : /\ k[3] = User /\ k[1] = call.answer[1] /\ k[2] = call.name
                                  /\ v.state[k] # None}
<1>1. call \in Calls /\ TypeOK /\ Told(call, v)
    BY DEF CatalogInv, CatalogTypeOK
<1>2. call.op = "detail" /\ Found(call, v) /\ FilesTold(call, v, {User, System})
    BY <1>1, PlacedOp DEF ReadOwnMeta, OpenTold, DetailPcs
<1>3. IF found = {} THEN Goto("system_meta")
      ELSE \E k \in found : call' = [call EXCEPT !.pc = "done", !.state = State(k)]
    <2>1. {k \in resolved_plugin(User) : row[k] # None} = found
        BY <1>1, ResolvedIs
    <2>2. QED
        BY <2>1 DEF ReadOwnMeta, ReadMeta
<1>4. CASE found = {}
    <2>1. Goto("system_meta")
        BY <1>3, <1>4
    <2>2. /\ call' \in Calls /\ call'.pc = "system_meta" /\ call'.files = call.files
          /\ call'.answer = call.answer /\ Continues(call, call')
        BY <1>1, <2>1, GotoIs DEF CallPcs
    <2>3. call'.op = "detail" /\ call'.name = call.name
        BY <1>2, <2>2 DEF Continues
    <2>4. Found(call', v)
        BY <1>2, <2>2, FoundOn
    <2>5. FilesTold(call', v, {User, System})
        BY <1>2, <2>2, SameReach DEF FilesTold
    <2>6. NoOwnMeta(call', v)
        BY <1>4, <2>2, <2>3, SameReach DEF NoOwnMeta, Stayed
    <2>7. OpenTold(call', v)
        BY <2>2, <2>3, <2>4, <2>5, <2>6 DEF OpenTold, DetailPcs
    <2>8. QED
        BY <2>2, <2>3, <2>7 DEF Told
<1>5. ASSUME NEW k \in found, call' = [call EXCEPT !.pc = "done", !.state = State(k)]
      PROVE  call' \in Calls /\ Told(call', v)
    <2>1. /\ k \in Keys /\ k[3] = User /\ k[1] = call.answer[1] /\ k[2] = call.name
          /\ v.state[k] # None
        BY <1>5
    <2>2. State(k) = v.state[k] /\ State(k) \in States
        BY <1>1, <2>1, ViewIs DEF Views
    <2>3. ASSUME call.answer[3] \in {User, System}, call.answer \in Keys,
                 \A j \in Keys : j[2] = call.name => j \in Stayed(call)
          PROVE  v.state[call.answer] = State(k)
        <3>1. AskedBy(call, k) /\ call.answer[2] = call.name
            BY <1>2, <2>1, <2>3 DEF Found, AskedBy
        <3>2. k \in AskedIn(call, v)
            BY <2>1, <2>3, <3>1 DEF AskedIn
        <3>3. call.answer[3] = User
            BY <1>2, <2>1, <3>2 DEF Found, RightAuthor
        <3>4. call.answer = k
            BY <2>1, <2>3, <3>1, <3>3, SameKey
        <3>5. QED
            BY <2>2, <3>4
    <2> DEFINE state == State(k)
    <2>4. call' = [call EXCEPT !.pc = "done", !.state = state]
        BY <1>5
    <2>5. state \in States
        BY <2>2
    <2>6. call.answer[3] \in {User, System} /\ call.answer \in Keys
               /\ (\A j \in Keys : j[2] = call.name => j \in Stayed(call))
               => v.state[call.answer] = state
        BY <2>3
    <2> HIDE DEF state, v, found
    <2>7. QED
        BY <1>1, <1>2, <2>4, <2>5, <2>6, DetailEnds
<1>6. QED
    BY <1>3, <1>4, <1>5

LEMMA ReadSystemMetaTells ==
    ASSUME CatalogInv, call # None, ReadSystemMeta, View' = View
    PROVE  call' \in Calls /\ Told(call', View')
<1> DEFINE v     == View
           found == {k \in Keys : /\ k[3] = System /\ k[1] = call.answer[1] /\ k[2] = call.name
                                  /\ v.state[k] # None}
<1>1. call \in Calls /\ TypeOK /\ Told(call, v)
    BY DEF CatalogInv, CatalogTypeOK
<1>2. /\ call.op = "detail" /\ Found(call, v) /\ FilesTold(call, v, {User, System})
      /\ NoOwnMeta(call, v)
    BY <1>1, PlacedOp DEF ReadSystemMeta, OpenTold, DetailPcs
<1>3. \/ found = {} /\ call' = [call EXCEPT !.pc = "done", !.state = "draft"]
      \/ \E k \in found : call' = [call EXCEPT !.pc = "done", !.state = State(k)]
    <2>1. {k \in resolved_plugin(System) : row[k] # None} = found
        BY <1>1, ResolvedIs
    <2>2. QED
        BY <2>1 DEF ReadSystemMeta, ReadMeta
<1>4. ASSUME call.answer[3] \in {User, System}, call.answer \in Stayed(call)
      PROVE  call.answer[3] = System /\ call.answer \in found
    <2>1. call.answer \in AskedIn(call, v) /\ call.answer[2] = call.name
        BY <1>2, <1>4 DEF Found, RightAuthor
    <2>2. v.state[call.answer] # None /\ call.answer \in Keys
        BY <2>1 DEF AskedIn, Stayed
    <2>3. call.answer[3] # User
        BY <1>2, <1>4, <2>1, <2>2 DEF NoOwnMeta
    <2>4. QED
        BY <1>4, <2>1, <2>2, <2>3
<1>5. call.answer \in Keys /\ (\A j \in Keys : j[2] = call.name => j \in Stayed(call))
          => call.answer \in Stayed(call)
    BY <1>2 DEF Found
<1>6. CASE found = {} /\ call' = [call EXCEPT !.pc = "done", !.state = "draft"]
    <2> DEFINE state == "draft"
    <2>1. state \in States
        BY DEF States
    <2>2. call' = [call EXCEPT !.pc = "done", !.state = state]
        BY <1>6
    <2>3. call.answer[3] \in {User, System} /\ call.answer \in Keys
               /\ (\A j \in Keys : j[2] = call.name => j \in Stayed(call))
               => v.state[call.answer] = state
        BY <1>4, <1>5, <1>6
    <2> HIDE DEF state, v, found
    <2>4. call' \in Calls /\ Told(call', v)
        BY <1>1, <1>2, <2>1, <2>2, <2>3, DetailEnds
    <2>5. QED
        BY <2>4 DEF v
<1>7. ASSUME NEW k \in found, call' = [call EXCEPT !.pc = "done", !.state = State(k)]
      PROVE  call' \in Calls /\ Told(call', v)
    <2> DEFINE state == State(k)
    <2>1. k \in Keys /\ state = v.state[k] /\ state \in States
        BY <1>1, ViewIs DEF Views
    <2>2. call' = [call EXCEPT !.pc = "done", !.state = state]
        BY <1>7
    <2>3. ASSUME call.answer[3] \in {User, System}, call.answer \in Keys,
                 \A j \in Keys : j[2] = call.name => j \in Stayed(call)
          PROVE  v.state[call.answer] = state
        <3>1. call.answer \in found
            BY <1>4, <1>5, <2>3
        <3>2. call.answer = k
            BY <2>1, <3>1, SameKey
        <3>3. QED
            BY <2>1, <3>2
    <2>4. call.answer[3] \in {User, System} /\ call.answer \in Keys
               /\ (\A j \in Keys : j[2] = call.name => j \in Stayed(call))
               => v.state[call.answer] = state
        BY <2>3
    <2> HIDE DEF state, v, found
    <2>5. QED
        BY <1>1, <1>2, <2>1, <2>2, <2>4, DetailEnds
<1>8. QED
    BY <1>3, <1>6, <1>7

-----------------------------------------------------------------------------
(* Listings.                                                               *)
LEMMA LookUpTells ==
    ASSUME call \in Calls, call.op = "list", call.shared = None, call.own = None,
           NEW v \in Views, NEW names \in SUBSET Names, NEW base \in SUBSET Entries,
           LookUp(names, base),
           \A e \in base : e[3] = Disk,
           \A s \in v.disk : OnDisk(s) \notin call.touched =>
               s[2] \in names \/ \E e \in base : e[2] = s[2],
           \A n \in names : \E s \in Skills :
               s[2] = n /\ (s \in v.disk \/ OnDisk(s) \in call.touched)
    PROVE  /\ call' \in Calls /\ Told(call', v)
           /\ call'.pc = "details" => names # {}
<1> DEFINE pc == IF names = {} THEN "gather" ELSE "details"
<1>1. call' = [call EXCEPT !.pc = pc, !.names = names, !.base = base]
    BY DEF LookUp
<1>2. pc \in CallPcs /\ pc \in {"gather", "details"} /\ (pc = "gather" <=> names = {})
    BY DEF CallPcs
<1> HIDE DEF pc
<1>3. call' \in Calls
    BY <1>1, <1>2 DEF Calls
<1>4. /\ call'.pc = pc /\ call'.names = names /\ call'.base = base /\ call'.op = "list"
      /\ call'.shared = None /\ call'.own = None /\ call'.touched = call.touched
    BY <1>1 DEF Calls
<1>5. BaseTold(call', v) /\ NamesTold(call', v)
    BY <1>4 DEF BaseTold, NamesTold
<1>6. ListTold(call', v)
    BY <1>2, <1>4, <1>5 DEF ListTold
<1>7. QED
    BY <1>2, <1>3, <1>4, <1>6 DEF Told

LEMMA ListDiskTells ==
    ASSUME CatalogInv, call # None, ListDisk, TypeOK'
    PROVE  call' \in Calls /\ Told(call', View') /\ Loaded'
<1> DEFINE names == {s[2] : s \in loaded'[Home].skills}
           v     == View'
<1>1. call \in Calls /\ TypeOK /\ Told(call, View)
    BY DEF CatalogInv, CatalogTypeOK
<1>2. call.op = "list" /\ call.pc = "base" /\ call.shared = None /\ call.own = None
    BY <1>1, PlacedOp DEF ListDisk, ListTold
<1>3. v \in Views /\ v.disk = loaded'[Home].skills /\ v.disk \subseteq Skills
    BY ViewAfter DEF Views
<1>4. names \subseteq Names /\ \A s \in v.disk : s[2] \in names
    BY <1>3, DiskEntries
<1>5. \A n \in names : \E s \in Skills : s[2] = n /\ (s \in v.disk \/ OnDisk(s) \in call.touched)
    BY <1>3
<1> DEFINE base == {}
<1>6. /\ LookUp(names, base) /\ base \in SUBSET Entries
      /\ \A e \in base : e[3] = Disk
    BY DEF ListDisk
<1>7. names # {} => loaded'[Home] # Nothing
    BY NothingIs
<1> HIDE DEF names, v, base
<1>8. /\ call' \in Calls /\ Told(call', v)
      /\ call'.pc = "details" => names # {}
    BY <1>1, <1>2, <1>3, <1>4, <1>5, <1>6, LookUpTells
<1>9. Loaded'
    BY <1>7, <1>8 DEF Loaded
<1>10. QED
    BY <1>8, <1>9 DEF v

(* A look that finds the skill, and one that comes after a reload that has *)
(* lost it.                                                                *)
LEMMA ReadDetailsTells ==
    ASSUME CatalogInv, call # None, ReadDetails, TypeOK',
           UNCHANGED <<loaded, defs>> => View' = View
    PROVE  call' \in Calls /\ Told(call', View') /\ Loaded'
<1> DEFINE v == View
<1>1. call \in Calls /\ TypeOK /\ Told(call, v)
    BY DEF CatalogInv, CatalogTypeOK
<1>2. /\ call.op = "list" /\ call.pc = "details" /\ call.shared = None /\ call.own = None
      /\ BaseTold(call, v) /\ NamesTold(call, v)
    BY <1>1, PlacedOp DEF ReadDetails, ListTold
<1>3. loaded[Home] # Nothing /\ loaded' = loaded /\ View' = v
    BY <1>2 DEF ReadDetails, Consult, CatalogInv, Loaded
<1>4. v \in Views /\ v.disk = loaded'[Home].skills /\ v.disk \subseteq Skills
    BY <1>1, <1>3, ViewIs DEF Views
<1>5. Loaded'
    BY <1>3 DEF Loaded
<1>6. PICK n \in call.names :
          LET found == {s \in loaded'[Home].skills : s[2] = n}
          IN  IF found = {} THEN Goto("failed")
              ELSE \E s \in found : LookUp(call.names \ {n}, call.base \cup {OnDisk(s)})
    BY DEF ReadDetails
<1> HIDE DEF v
<1>7. CASE {s \in loaded'[Home].skills : s[2] = n} = {}
    <2>1. Goto("failed")
        BY <1>6, <1>7
    <2>2. /\ call' \in Calls /\ call'.pc = "failed" /\ call'.names = call.names
          /\ call'.shared = call.shared /\ call'.own = call.own /\ Continues(call, call')
        BY <1>1, <2>1, GotoIs DEF CallPcs
    <2>3. call'.op = "list" /\ call'.touched = call.touched
        BY <1>2, <2>2 DEF Continues
    <2>4. PICK s \in Skills : s[2] = n /\ (s \in v.disk \/ OnDisk(s) \in call.touched)
        BY <1>2 DEF NamesTold
    <2>5. OnDisk(s) \in call.touched
        BY <1>4, <1>7, <2>4
    <2>6. Lost(call')
        BY <2>2, <2>3, <2>4, <2>5 DEF Lost
    <2>7. ListTold(call', v)
        BY <2>2, <2>6 DEF ListTold
    <2>8. QED
        BY <1>3, <1>5, <2>2, <2>3, <2>7 DEF Told
<1>8. ASSUME NEW s \in loaded'[Home].skills, s[2] = n,
             LookUp(call.names \ {n}, call.base \cup {OnDisk(s)})
      PROVE  call' \in Calls /\ Told(call', v)
    <2> DEFINE names == call.names \ {n}
               base  == call.base \cup {OnDisk(s)}
    <2>1. s \in Skills
        BY <1>4
    <2>2. OnDisk(s) \in Entries /\ OnDisk(s)[2] = n /\ OnDisk(s)[3] = Disk
        BY <1>8, <2>1, DiskEntries
    <2>3. names \in SUBSET Names /\ base \in SUBSET Entries
        BY <1>1, <2>2 DEF Calls
    <2>4. \A e \in base : e[3] = Disk
        BY <1>2, <2>2 DEF BaseTold
    <2>5. ASSUME NEW t \in v.disk, OnDisk(t) \notin call.touched
          PROVE  t[2] \in names \/ \E e \in base : e[2] = t[2]
        BY <1>2, <2>2, <2>5 DEF BaseTold
    <2>6. \A m \in names : \E t \in Skills :
              t[2] = m /\ (t \in v.disk \/ OnDisk(t) \in call.touched)
        BY <1>2 DEF NamesTold
    <2>7. LookUp(names, base)
        BY <1>8
    <2> HIDE DEF names, base
    <2>8. QED
        BY <1>1, <1>2, <1>4, <2>3, <2>4, <2>5, <2>6, <2>7, LookUpTells
<1>9. QED
    BY <1>3, <1>5, <1>6, <1>7, <1>8

(* One skill of each name, and of each name there is.                      *)
LEMMA ByNameIs ==
    ASSUME NEW K \in SUBSET Keys, NEW T \in ByName(K)
    PROVE  T \subseteq K /\ \A k \in K : \E t \in T : t[2] = k[2]
<1>1. T \subseteq K /\ \A k \in K : Cardinality({t \in T : t[2] = k[2]}) = 1
    BY DEF ByName
<1>2. ASSUME NEW k \in K, {t \in T : t[2] = k[2]} = {}
      PROVE  FALSE
    <2>1. Cardinality({t \in T : t[2] = k[2]}) = 0
        BY <1>2, FS_EmptySet
    <2>2. QED
        BY <1>1, <2>1
<1>3. QED
    BY <1>1, <1>2

LEMMA ListSharedTells ==
    ASSUME CatalogInv, call # None, ListShared, View' = View
    PROVE  call' \in Calls /\ Told(call', View')
<1> DEFINE shared == Shared(call.staging)
<1>1. call \in Calls /\ TypeOK /\ Told(call, View)
    BY DEF CatalogInv, CatalogTypeOK
<1>2. call.op = "list" /\ call.pc = "gather" /\ ListTold(call, View) /\ call.names = {}
    BY <1>1, PlacedOp DEF ListShared, ListTold
<1>3. PICK K \in ByName(shared) : call' = [call EXCEPT !.shared = K]
    BY DEF ListShared
<1>4. shared \subseteq Keys /\ \A k \in Keys : k \in shared <=> Other(call, View, k)
    <2>1. shared_states(call.staging) = IF call.staging THEN Shares ELSE {"published"}
        BY DEF shared_states, Shares, States
    <2>2. QED
        BY <1>1, <2>1, ViewIs DEF Shared, Other
<1> HIDE DEF shared
<1>5. K \subseteq shared /\ \A k \in shared : \E t \in K : t[2] = k[2]
    BY <1>3, <1>4, ByNameIs
<1>6. /\ call' \in Calls /\ call'.pc = "gather" /\ call'.shared = K
      /\ call'.names = {} /\ call'.base = call.base /\ call'.own = call.own /\ Continues(call, call')
    BY <1>1, <1>2, <1>3, <1>4, <1>5 DEF Calls, Continues
<1>7. Stayed(call') = Stayed(call) /\ Stayed(call) \subseteq Keys
      /\ call'.staging = call.staging /\ call'.op = "list" /\ call'.touched = call.touched
    BY <1>2, <1>6, SameReach DEF Continues, Stayed
<1>8. SharedTold(call', View)
    BY <1>4, <1>5, <1>6, <1>7 DEF SharedTold, Other
<1>9. BaseTold(call', View)
    BY <1>2, <1>6, <1>7 DEF BaseTold, ListTold
<1>10. call'.own # None => OwnTold(call', View)
    BY <1>2, <1>6, <1>7 DEF OwnTold, ListTold, Mine
<1>11. ListTold(call', View)
    BY <1>6, <1>8, <1>9, <1>10 DEF ListTold
<1>12. QED
    BY <1>6, <1>7, <1>11 DEF Told

LEMMA ListOwnTells ==
    ASSUME CatalogInv, call # None, ListOwn, View' = View
    PROVE  call' \in Calls /\ Told(call', View')
<1> DEFINE own == OwnListed(call.staging)
<1>1. call \in Calls /\ TypeOK /\ Told(call, View)
    BY DEF CatalogInv, CatalogTypeOK
<1>2. call.op = "list" /\ call.pc = "gather" /\ ListTold(call, View) /\ call.names = {}
    BY <1>1, PlacedOp DEF ListOwn, ListTold
<1>3. PICK K \in ByName(own) : call' = [call EXCEPT !.own = K]
    BY DEF ListOwn
<1>4. own \subseteq Keys /\ \A k \in Keys : k \in own <=> Mine(call, View, k)
    BY <1>1, ViewIs DEF OwnListed, Mine
<1> HIDE DEF own
<1>5. K \subseteq own /\ \A k \in own : \E t \in K : t[2] = k[2]
    BY <1>3, <1>4, ByNameIs
<1>6. /\ call' \in Calls /\ call'.pc = "gather" /\ call'.own = K
      /\ call'.names = {} /\ call'.base = call.base /\ call'.shared = call.shared /\ Continues(call, call')
    BY <1>1, <1>2, <1>3, <1>4, <1>5 DEF Calls, Continues
<1>7. Stayed(call') = Stayed(call) /\ Stayed(call) \subseteq Keys
      /\ call'.staging = call.staging /\ call'.op = "list" /\ call'.touched = call.touched
    BY <1>2, <1>6, SameReach DEF Continues, Stayed
<1>8. OwnTold(call', View)
    BY <1>4, <1>5, <1>6, <1>7 DEF OwnTold, Mine
<1>9. BaseTold(call', View)
    BY <1>2, <1>6, <1>7 DEF BaseTold, ListTold
<1>10. call'.shared # None => SharedTold(call', View)
    BY <1>2, <1>6, <1>7 DEF SharedTold, ListTold, Other
<1>11. ListTold(call', View)
    BY <1>6, <1>8, <1>9, <1>10 DEF ListTold
<1>12. QED
    BY <1>6, <1>7, <1>11 DEF Told

LEMMA MergeTells ==
    ASSUME CatalogInv, call # None, Merge, View' = View
    PROVE  call' \in Calls /\ Told(call', View')
<1>1. call \in Calls /\ TypeOK /\ Told(call, View)
    BY DEF CatalogInv, CatalogTypeOK
<1>2. call.op = "list" /\ call.pc = "gather" /\ ListTold(call, View) /\ call.names = {}
      /\ call.shared # None /\ call.own # None /\ Goto("done")
    BY <1>1, PlacedOp DEF Merge, ListTold
<1>3. /\ call' \in Calls /\ call'.pc = "done" /\ call'.names = {} /\ call'.base = call.base
      /\ call'.shared = call.shared /\ call'.own = call.own /\ Continues(call, call')
    BY <1>1, <1>2, GotoIs DEF CallPcs
<1>4. Stayed(call') = Stayed(call) /\ call'.staging = call.staging
      /\ call'.op = "list" /\ call'.touched = call.touched
    BY <1>2, <1>3, SameReach DEF Continues
<1>5. BaseTold(call', View) /\ SharedTold(call', View) /\ OwnTold(call', View)
    BY <1>2, <1>3, <1>4 DEF ListTold, BaseTold, SharedTold, OwnTold, Mine, Other
<1>6. ListTold(call', View)
    BY <1>2, <1>3, <1>5 DEF ListTold
<1>7. QED
    BY <1>3, <1>4, <1>6 DEF Told

-----------------------------------------------------------------------------
(* Pages.                                                                  *)
LEMMA PassesIs ==
    ASSUME TypeOK, NEW k \in Keys, NEW f
    PROVE  Passes(k, f) <=> PassesIn(View, k, f)
    BY ViewIs DEF Passes, PassesIn

(* What the next page goes on from: of the skills that stay, those seen    *)
(* are those up to the cursor that pass.                                   *)
LEMMA WalkedSoFar ==
    ASSUME NEW c \in Calls, NEW v, PagesTold(c, v), SeenIsBehind(c),
           NEW f, c.cursor # None => c.cursor.filter = f
    PROVE  /\ \A k \in c.seen : k \in Keys /\ ~Resumes(c.cursor, k)
           /\ \A k \in Stayed(c) : ~Resumes(c.cursor, k) =>
                  (k \in c.seen <=> PassesIn(v, k, f))
           /\ c.cursor # None => c.cursor.key \in Keys
<1>1. c.cursor # None => c.cursor.key \in Keys
    BY DEF Calls
<1>2. ASSUME NEW k \in c.seen
      PROVE  k \in Keys /\ ~Resumes(c.cursor, k)
    <2>1. c.cursor # None
        BY DEF PagesTold
    <2>2. k \in Keys
        BY DEF Calls
    <2>3. QED
        BY <2>1, <2>2 DEF SeenIsBehind, Resumes
<1>3. \A k \in Stayed(c) : ~Resumes(c.cursor, k) =>
          (k \in c.seen <=> PassesIn(v, k, f))
    BY DEF PagesTold, Resumes
<1>4. QED
    BY <1>1, <1>2, <1>3

LEMMA PageTells ==
    ASSUME CatalogInv, call # None, call.pc = "page", NEW f \in Filters, Page(f)
    PROVE  call' \in Calls /\ Told(call', View)
<1> DEFINE after == {k \in Keys : Passes(k, f) /\ Resumes(call.cursor, k)}
           docs  == PageOf(after)
           more  == docs # after
           last  == CHOOSE k \in docs : ~\E j \in docs : Before(k, j)
           pc    == IF more THEN "page" ELSE "done"
           cursor == IF more THEN [key |-> last, filter |-> f] ELSE None
           seen  == call.seen \cup docs
           twice == call.twice \/ docs \cap call.seen # {}
<1>1. call \in Calls /\ TypeOK /\ Told(call, View)
    BY DEF CatalogInv, CatalogTypeOK
<1>2. /\ call.op = "walk" /\ ~call.twice
      /\ PagesTold(call, View) /\ SeenIsBehind(call)
      /\ call.cursor # None => call.cursor.filter = f
    BY <1>1, PlacedOp DEF WalkTold, Page
<1>3. /\ \A k \in call.seen : k \in Keys /\ ~Resumes(call.cursor, k)
      /\ \A k \in Stayed(call) : ~Resumes(call.cursor, k) =>
             (k \in call.seen <=> PassesIn(View, k, f))
      /\ call.cursor # None => call.cursor.key \in Keys
    BY <1>1, <1>2, WalkedSoFar
<1>4. call' = [call EXCEPT !.pc = pc, !.cursor = cursor, !.filter = f,
                           !.seen = seen, !.twice = twice]
    BY <1>1 DEF Page, PageOf
<1>5. after \subseteq Keys
      /\ \A k \in Keys : k \in after <=> PassesIn(View, k, f) /\ Resumes(call.cursor, k)
    BY <1>1, PassesIs
<1> HIDE DEF after
<1>6. /\ docs \subseteq after
      /\ \A k \in after, d \in docs : Before(k, d) => k \in docs
      /\ more => \E k \in docs : ~\E j \in docs : Before(k, j)
    BY <1>5, PageIsFirstPart
<1> HIDE DEF docs
<1>7. more => last \in docs /\ last \in Keys /\ \A j \in docs : ~Before(last, j)
    BY <1>5, <1>6
<1> HIDE DEF last
<1>8. docs \cap call.seen = {}
    BY <1>3, <1>5, <1>6
<1>9. twice = FALSE
    BY <1>2, <1>8
<1>10. pc \in CallPcs /\ cursor \in [key : Keys, filter : Filters] \cup {None}
       /\ seen \subseteq Keys
    BY <1>1, <1>5, <1>6, <1>7 DEF CallPcs, Calls
<1>11. /\ more => pc = "page" /\ cursor # None /\ cursor.key = last /\ cursor.filter = f
       /\ ~more => pc = "done"
    <2>1. more => cursor = [key |-> last, filter |-> f] /\ last \in Keys
        BY <1>7
    <2>2. more => cursor \in [key : Keys, filter : Filters]
        BY <2>1
    <2>3. QED
        BY <2>1, <2>2, AbsentAssumption
<1>12. \A k : k \in seen <=> k \in call.seen \/ k \in docs
    OBVIOUS
<1> HIDE DEF twice, pc, cursor, seen, more
<1>13. /\ call' \in Calls /\ call'.pc = pc /\ call'.cursor = cursor /\ call'.filter = f
       /\ call'.seen = seen /\ call'.twice = FALSE /\ Continues(call, call')
    <2>1. call' = [call EXCEPT !.pc = pc, !.cursor = cursor, !.filter = f,
                               !.seen = seen, !.twice = FALSE]
        BY <1>4, <1>9
    <2>2. call' \in Calls
        BY <1>1, <1>10, <2>1 DEF Calls
    <2>3. /\ call'.pc = pc /\ call'.cursor = cursor /\ call'.filter = f
          /\ call'.seen = seen /\ call'.twice = FALSE
        BY <1>1, <2>1 DEF Calls
    <2>4. Continues(call, call')
        BY <1>1, <2>1 DEF Calls, Continues
    <2>5. QED
        BY <2>2, <2>3, <2>4
<1>14. Stayed(call') = Stayed(call) /\ Stayed(call) \subseteq Keys /\ call'.op = "walk"
    BY <1>2, <1>13, SameReach DEF Continues, Stayed
<1>15. ASSUME NEW k \in Stayed(call), ~Resumes(call.cursor, k)
       PROVE  k \in seen <=> PassesIn(View, k, f)
    <2>1. k \notin docs
        BY <1>5, <1>6, <1>14, <1>15
    <2>2. QED
        BY <1>3, <1>12, <1>15, <2>1
<1>16. ASSUME NEW k \in Stayed(call), Resumes(call.cursor, k), k \in docs <=> k \in after
       PROVE  k \in seen <=> PassesIn(View, k, f)
    <2>1. k \notin call.seen
        BY <1>3, <1>16
    <2>2. k \in after <=> PassesIn(View, k, f)
        BY <1>5, <1>14, <1>16
    <2>3. QED
        BY <1>12, <1>16, <2>1, <2>2
<1>17. CASE ~more
    <2>1. docs = after
        BY <1>17 DEF more
    <2>2. Walked(call', View)
        BY <1>13, <1>14, <1>15, <1>16, <2>1 DEF Walked
    <2>3. WalkTold(call', View)
        BY <1>9, <1>11, <1>13, <1>17, <2>2 DEF WalkTold
    <2>4. QED
        BY <1>13, <1>14, <2>3 DEF Told
<1>18. CASE more
    <2>1. ASSUME NEW k \in Stayed(call), ~Before(last, k)
          PROVE  k \in seen <=> PassesIn(View, k, f)
        <3>1. k \in after => k \in docs
            <4>1. k = last \/ Before(k, last)
                BY <1>7, <1>14, <1>18, <2>1, BeforeOrders
            <4>2. QED
                BY <1>6, <1>7, <1>18, <4>1
        <3>2. k \in docs <=> k \in after
            BY <1>6, <3>1
        <3>3. QED
            BY <1>15, <1>16, <3>2
    <2>2. PagesTold(call', View)
        BY <1>11, <1>13, <1>14, <1>18, <2>1 DEF PagesTold
    <2>3. SeenIsBehind(call')
        <3>1. ASSUME NEW k \in seen, Before(last, k)
              PROVE  FALSE
            <4>1. k \in call.seen
                BY <1>7, <1>12, <1>18, <3>1
            <4>2. k \in Keys /\ call.cursor # None /\ ~Before(call.cursor.key, k)
                BY <1>3, <4>1 DEF Resumes
            <4>3. Before(call.cursor.key, last)
                BY <1>5, <1>6, <1>7, <1>18, <4>2 DEF Resumes
            <4>4. QED
                BY <1>3, <1>7, <1>18, <3>1, <4>2, <4>3, BeforeOrders
        <3>2. QED
            BY <1>11, <1>13, <1>18, <3>1 DEF SeenIsBehind
    <2>4. WalkTold(call', View)
        BY <1>9, <1>11, <1>13, <1>18, <2>2, <2>3 DEF WalkTold
    <2>5. QED
        BY <1>13, <1>14, <2>4 DEF Told
<1>19. QED
    BY <1>17, <1>18

LEMMA ListPageTells ==
    ASSUME CatalogInv, call # None, ListPage, View' = View
    PROVE  call' \in Calls /\ Told(call', View')
<1>1. call \in Calls /\ Told(call, View) /\ call.pc = "page"
    BY DEF CatalogInv, CatalogTypeOK, ListPage
<1>2. PICK f \in Filters : RejectCursor(f) \/ Page(f)
    BY DEF ListPage
<1>3. CASE Page(f)
    BY <1>1, <1>3, PageTells
<1>4. CASE RejectCursor(f)
    <2>1. /\ call' \in Calls /\ call'.pc = "rejected" /\ call'.twice = call.twice
          /\ Continues(call, call')
        BY <1>1, <1>4, GotoIs DEF RejectCursor, CallPcs
    <2>2. call.op = "walk" /\ ~call.twice
        BY <1>1, PlacedOp DEF WalkTold
    <2>3. call'.op = "walk"
        BY <2>1, <2>2 DEF Continues
    <2>4. WalkTold(call', View)
        BY <2>1, <2>2 DEF WalkTold
    <2>5. QED
        BY <2>1, <2>3, <2>4 DEF Told
<1>5. QED
    BY <1>2, <1>3, <1>4

-----------------------------------------------------------------------------
(* The inductive step, and what follows from the invariant.                *)
(* Only a listing goes on to look up details.                              *)
LEMMA LooksUpNoMore ==
    ASSUME call \in Calls,
           \/ ReadOwn \/ ReadShared \/ ReadOwner
           \/ ListOwnFiles \/ ListSystemFiles \/ ReadOwnMeta \/ ReadSystemMeta
           \/ ListShared \/ ListOwn \/ Merge
           \/ ListPage
    PROVE  Loaded'
<1>1. ASSUME NEW k, Answer(k)
      PROVE  call'.pc # "details"
    BY <1>1 DEF Answer, Calls
<1>2. ASSUME NEW pc, Goto(pc), pc # "details"
      PROVE  call'.pc # "details"
    BY <1>2 DEF Goto, Calls
<1>3. CASE ReadOwn \/ ReadShared \/ ReadOwner
    BY <1>1, <1>2, <1>3 DEF ReadOwn, ReadShared, ReadOwner, Calls, Loaded
<1>4. CASE ListOwnFiles \/ ListSystemFiles
    BY <1>4 DEF ListOwnFiles, ListSystemFiles, Calls, Loaded
<1>5. CASE ReadOwnMeta \/ ReadSystemMeta
    BY <1>2, <1>5 DEF ReadOwnMeta, ReadSystemMeta, ReadMeta, Calls, Loaded
<1>6. CASE ListShared \/ ListOwn \/ Merge
    BY <1>2, <1>6 DEF ListShared, ListOwn, Merge, Calls, Loaded
<1>7. CASE ListPage
    BY <1>2, <1>7 DEF ListPage, RejectCursor, Page, Calls, Loaded
<1>8. QED
    BY <1>3, <1>4, <1>5, <1>6, <1>7

LEMMA CallStepKept ==
    ASSUME CatalogInv, CallStep
    PROVE  CatalogInv'
<1>1. call # None /\ UNCHANGED <<stored, release, pod, missed>>
    BY DEF CallStep
<1>2. \/ ReadOwn \/ ReadShared \/ ReadOwner \/ ReadDisk
      \/ ListOwnFiles \/ ListSystemFiles \/ ReadOwnMeta \/ ReadSystemMeta
      \/ ListDisk \/ ReadDetails \/ ListShared \/ ListOwn \/ Merge
      \/ ListPage
    BY DEF CallStep
<1>3. CASE ReadDisk \/ ListDisk \/ ReadDetails
    <2>1. Consult(Home)
        BY <1>3 DEF ReadDisk, ListDisk, ReadDetails
    <2>2. /\ SyncInv' /\ TypeOK' /\ UserFiles'
          /\ View'.state = View.state /\ View'.held = View.held
          /\ UNCHANGED <<loaded, defs>> => View' = View
        BY <1>1, <2>1, StoreStays
    <2>3. call' \in Calls /\ Told(call', View') /\ Loaded'
        BY <1>1, <1>3, <2>2, ReadDiskTells, ListDiskTells, ReadDetailsTells
    <2>4. QED
        BY <2>2, <2>3 DEF CatalogInv, CatalogTypeOK
<1>4. CASE ~(ReadDisk \/ ListDisk \/ ReadDetails)
    <2>1. UNCHANGED <<loaded, defs>>
        BY <1>2, <1>4
           DEF ReadOwn, ReadShared, ReadOwner, ListOwnFiles, ListSystemFiles, ReadOwnMeta,
               ReadSystemMeta, ListShared, ListOwn, Merge, ListPage
    <2>2. SyncInv' /\ TypeOK' /\ UserFiles' /\ View' = View
        BY <1>1, <2>1, StoreStays
    <2>3. call' \in Calls /\ Told(call', View')
        BY <1>1, <1>2, <1>4, <2>2, ReadOwnTells, ReadSharedTells, ReadOwnerTells,
           ListOwnFilesTells, ListSystemFilesTells, ReadOwnMetaTells, ReadSystemMetaTells,
           ListSharedTells, ListOwnTells, MergeTells, ListPageTells
    <2>4. Loaded'
        BY <1>1, <1>2, <1>4, <2>1, LooksUpNoMore DEF CatalogInv, CatalogTypeOK
    <2>5. QED
        BY <2>2, <2>3, <2>4 DEF CatalogInv, CatalogTypeOK
<1>5. QED
    BY <1>3, <1>4

LEMMA CatalogInvKept ==
    ASSUME CatalogInv, [Next]_vars
    PROVE  CatalogInv'
<1>1. CASE UNCHANGED vars
    <2>1. UNCHANGED syncVars /\ call' = call
        BY <1>1 DEF vars, syncVars
    <2>2. SyncInv' /\ TypeOK' /\ UserFiles' /\ View' = View
        BY <2>1, SyncVarsStay
    <2>3. QED
        BY <2>1, <2>2 DEF CatalogInv, CatalogTypeOK, Loaded, syncVars
<1>2. CASE EndCall
    <2>1. UNCHANGED syncVars /\ call' = None
        BY <1>2 DEF EndCall
    <2>2. SyncInv' /\ TypeOK' /\ UserFiles'
        BY <2>1, SyncVarsStay
    <2>3. QED
        BY <2>1, <2>2 DEF CatalogInv, CatalogTypeOK, Loaded
<1>3. QED
    BY <1>1, <1>2, SyncStepKept, UserChangeKept, BeginCallKept, CallStepKept DEF Next

LEMMA CatalogInvStarts ==
    ASSUME Init
    PROVE  CatalogInv
<1>1. SyncInv /\ call = None
    BY InitKept DEF Init
<1>2. \A k \in Keys : Held(k) = {}
    BY DEF Init, SyncInit, Held
<1>3. UserFiles
    BY <1>2 DEF UserFiles, UserKeys
<1>4. QED
    BY <1>1, <1>3 DEF CatalogInv, CatalogTypeOK, SyncInv, Loaded

LEMMA CatalogInvHolds == Spec => []CatalogInv
<1>1. Init => CatalogInv
    BY CatalogInvStarts
<1>2. CatalogInv /\ [Next]_vars => CatalogInv'
    BY CatalogInvKept
<1>3. QED
    BY <1>1, <1>2, PTL DEF Spec

(* A call that is done.                                                    *)
LEMMA DoneTold ==
    ASSUME CatalogInv, call # None, call.pc = "done"
    PROVE  /\ call \in Calls /\ TypeOK
           /\ call.op \in {"open", "detail"} => Opened(call, View)
           /\ call.op = "detail" => Detailed(call, View)
           /\ call.op = "file" => FileAnswered(call, View)
           /\ call.op = "list" => ListTold(call, View)
           /\ call.op = "walk" => WalkTold(call, View)
    BY DEF CatalogInv, CatalogTypeOK, Told, OpenTold

LEMMA StaysIs ==
    /\ \A k : Stays(k) <=> k \in Stayed(call)
    /\ \A k : Sharable(k, TRUE) <=> State(k) \in Shares
    BY DEF Stays, Stayed, Sharable, Shares

LEMMA AskedIs ==
    ASSUME TypeOK
    PROVE  /\ \A k \in Keys : Sharable(k, TRUE) <=> View.state[k] \in Shares
           /\ {k \in Keys : Asked(k) /\ row[k] # None /\ Stays(k) /\ Visible(k, TRUE)}
                  = AskedIn(call, View)
<1>1. \A k \in Keys : Sharable(k, TRUE) <=> View.state[k] \in Shares
    BY StaysIs, ViewIs
<1>2. ASSUME NEW k \in Keys
      PROVE  Asked(k) /\ row[k] # None /\ Stays(k) /\ Visible(k, TRUE)
                 <=> k \in AskedIn(call, View)
    BY <1>1, SourcesAre, StaysIs, ViewIs DEF Visible, AskedIn
<1>3. AskedIn(call, View) \subseteq Keys
    BY DEF AskedIn, Stayed
<1>4. QED
    BY <1>1, <1>2, <1>3

LEMMA OpensTold ==
    ASSUME CatalogInv
    PROVE  OpensWhatStays
<1> SUFFICES ASSUME call # None, call.pc = "done", call.op \in {"open", "detail"}
             PROVE  OpensWhatStays
    BY DEF OpensWhatStays, Done
<1>1. TypeOK /\ Opened(call, View)
    BY DoneTold
<1>2. {k \in Keys : Asked(k) /\ row[k] # None /\ Stays(k) /\ Visible(k, TRUE)}
          = AskedIn(call, View)
    BY <1>1, AskedIs
<1>3. View.disk = loaded[Home].skills
    BY <1>1, ViewIs
<1>4. QED
    BY <1>1, <1>2, <1>3, StaysIs DEF OpensWhatStays, Opened, RightAuthor

LEMMA FilesRead ==
    ASSUME CatalogInv
    PROVE  ReadsFilesThatStay
<1> SUFFICES ASSUME call # None, call.pc = "done", call.op = "file"
             PROVE  ReadsFilesThatStay
    BY DEF ReadsFilesThatStay, Done
<1> DEFINE asked    == {k \in Keys : Asked(k) /\ call.file \in Held(k) /\ row[k] # None
                                     /\ Stays(k) /\ Visible(k, TRUE)}
           alone(k) == \A j \in Keys \ {k} : Asked(j) => ~Sharable(j, TRUE) /\ Stays(j)
<1>1. TypeOK /\ FileAnswered(call, View)
    BY DoneTold
<1>2. \A k : k \in asked <=> k \in AskedIn(call, View) /\ call.file \in View.held[k]
    <2>1. AskedIn(call, View) \subseteq Keys
        BY DEF AskedIn, Stayed
    <2>2. \A k \in Keys : View.held[k] = Held(k)
        BY <1>1, ViewIs
    <2>3. \A k : k \in AskedIn(call, View) <=>
                 k \in Keys /\ Asked(k) /\ row[k] # None /\ Stays(k) /\ Visible(k, TRUE)
        BY <1>1, AskedIs
    <2>4. QED
        BY <2>1, <2>2, <2>3
<1>3. ASSUME NEW k \in Keys
      PROVE  alone(k) <=> AloneIn(call, View, k)
    BY <1>1, AskedIs, SourcesAre, StaysIs DEF AloneIn
<1>4. asked \subseteq Keys
    OBVIOUS
<1> HIDE DEF asked, alone
<1>5. /\ call.answer = NotFound => \A k \in asked : k[3] # User /\ ~alone(k)
      /\ (\E k \in asked : k[3] = User) => call.answer[3] = User
      /\ call.plugin # None /\ Stays(call.answer) => call.answer \in asked
    BY <1>1, <1>2, <1>3, <1>4, StaysIs DEF FileAnswered, NoFile
<1>6. QED
    BY <1>5 DEF ReadsFilesThatStay, asked, alone

LEMMA DetailTold ==
    ASSUME CatalogInv
    PROVE  DetailTellsOpened
<1> SUFFICES ASSUME call # None, call.pc = "done", call.op = "detail",
                    call.answer[3] \in {User, System},
                    \A k \in Keys : k[2] = call.name => Stays(k)
             PROVE  State(call.answer) = call.state /\ Held(call.answer) \subseteq call.files
    BY DEF DetailTellsOpened, Done
<1>1. TypeOK /\ Detailed(call, View) /\ call \in Calls
    BY DoneTold
<1>2. View.state[call.answer] = call.state /\ View.held[call.answer] \subseteq call.files
    BY <1>1, StaysIs DEF Detailed
<1>3. call.answer \in Keys
    <2>1. call.answer \in Entries \cup {NotFound}
        BY DoneTold DEF Opened
    <2>2. Disk \notin {User, System}
        BY CatalogAssumption, KeysAssumption
    <2>3. QED
        BY <2>1, <2>2, DiskEntries, NotFoundIsNone DEF Entries
<1>4. QED
    BY <1>1, <1>2, <1>3, ViewIs

(* The entries of a listing, by what they overlay.                         *)
LEMMA MergedIs ==
    ASSUME NEW c
    PROVE  /\ c.own \subseteq Merged(c)
           /\ \A e \in c.base \cup c.shared : \E h \in Merged(c) : h[2] = e[2]
           /\ \A e \in c.shared : \E h \in Merged(c) \cap (c.own \cup c.shared) : h[2] = e[2]
           /\ Merged(c) \subseteq c.own \cup c.shared \cup c.base
<1> DEFINE low == c.shared \cup {e \in c.base : \A h \in c.shared : h[2] # e[2]}
<1>1. Merged(c) = c.own \cup {e \in low : \A h \in c.own : h[2] # e[2]}
    BY DEF Merged, Overlay
<1>2. \A e \in c.base \cup c.shared : \E h \in low : h[2] = e[2]
    OBVIOUS
<1>3. low \subseteq c.shared \cup c.base /\ c.shared \subseteq low
    OBVIOUS
<1> HIDE DEF low
<1>4. ASSUME NEW l \in low
      PROVE  \E h \in Merged(c) \cap (c.own \cup {l}) : h[2] = l[2]
    <2>1. CASE \A h \in c.own : h[2] # l[2]
        BY <1>1, <2>1
    <2>2. CASE \E h \in c.own : h[2] = l[2]
        BY <1>1, <2>2
    <2>3. QED
        BY <2>1, <2>2
<1>5. ASSUME NEW e \in c.base \cup c.shared
      PROVE  \E h \in Merged(c) : h[2] = e[2]
    <2>1. PICK l \in low : l[2] = e[2]
        BY <1>2
    <2>2. PICK h \in Merged(c) \cap (c.own \cup {l}) : h[2] = l[2]
        BY <1>4
    <2>3. QED
        BY <2>1, <2>2
<1>6. ASSUME NEW e \in c.shared
      PROVE  \E h \in Merged(c) \cap (c.own \cup c.shared) : h[2] = e[2]
    <2>1. PICK h \in Merged(c) \cap (c.own \cup {e}) : h[2] = e[2]
        BY <1>3, <1>4
    <2>2. QED
        BY <2>1
<1>7. QED
    BY <1>1, <1>3, <1>5, <1>6

(* A listing that fails has lost a skill it still wanted.                  *)
LEMMA FailureTold ==
    ASSUME CatalogInv, call # None, call.pc = "failed"
    PROVE  \E s \in Skills : s[2] \in call.names /\ OnDisk(s) \in call.touched
<1>1. call \in Calls /\ Told(call, View)
    BY DEF CatalogInv, CatalogTypeOK
<1>2. call.op = "list"
    BY <1>1 DEF Told, OpenTold, WalkTold, DetailPcs, Calls, Ops
<1>3. QED
    BY <1>1, <1>2 DEF Told, ListTold, Lost

LEMMA ListedTells ==
    ASSUME CatalogInv
    PROVE  ListsWhatStays
<1> DEFINE listed == Merged(call)
           mine   == {k \in Keys : k[3] = User /\ State(k) # None
                                  /\ (State(k) = "staging" => call.staging)}
           others == {k \in Keys : Sharable(k, call.staging)}
<1>1. ASSUME call # None, call.pc = "done", call.op = "list"
      PROVE  /\ \A k \in mine \cup others : Stays(k) =>
                    \E e \in listed : /\ e[2] = k[2] /\ e[3] # Disk
                                     /\ k \in mine => e[3] = User
             /\ \A e \in listed : Stays(e) => e \in mine \cup others
             /\ \A s \in loaded[Home].skills :
                    OnDisk(s) \notin call.touched => \E e \in listed : e[2] = s[2]
    <2>1. /\ TypeOK /\ call \in Calls /\ call.names = {}
          /\ call.own # None /\ call.shared # None
          /\ BaseTold(call, View) /\ SharedTold(call, View) /\ OwnTold(call, View)
        BY <1>1, DoneTold DEF ListTold
    <2>2. \A k \in Keys : /\ k \in mine <=> Mine(call, View, k)
                          /\ k \in others <=> Other(call, View, k)
        <3>1. ASSUME NEW k \in Keys
              PROVE  k \in mine <=> Mine(call, View, k)
            BY <2>1, ViewIs DEF Mine
        <3>2. ASSUME NEW k \in Keys
              PROVE  k \in others <=> Other(call, View, k)
            BY <2>1, ViewIs DEF Other, Sharable, Shares
        <3>3. QED
            BY <3>1, <3>2
    <2>3. mine \cup others \subseteq Keys /\ Stayed(call) \subseteq Keys
        BY DEF Stayed
    <2>4. /\ call.own \subseteq listed
          /\ \A e \in call.base \cup call.shared : \E h \in listed : h[2] = e[2]
          /\ \A e \in call.shared :
                 \E h \in listed \cap (call.own \cup call.shared) : h[2] = e[2]
          /\ listed \subseteq call.own \cup call.shared \cup call.base
        BY MergedIs
    <2>5. \A e \in call.own \cup call.shared : e \in Keys /\ e[3] # Disk
        <3>1. call.own \subseteq Keys /\ call.shared \subseteq Keys
            BY <2>1 DEF Calls
        <3>2. QED
            BY <3>1, KeyParts
    <2> HIDE DEF listed, mine, others
    <2>6. ASSUME NEW k \in mine \cup others, Stays(k)
          PROVE  \E e \in listed : e[2] = k[2] /\ e[3] # Disk /\ (k \in mine => e[3] = User)
        <3>1. k \in Stayed(call) /\ k \in Keys
            BY <2>3, <2>6, StaysIs
        <3>2. CASE k \in mine
            <4>1. PICK e \in call.own : e[2] = k[2]
                BY <2>1, <2>2, <3>1, <3>2 DEF OwnTold
            <4>2. QED
                BY <2>1, <2>4, <2>5, <4>1 DEF OwnTold
        <3>3. CASE k \notin mine
            <4>1. PICK e \in call.shared : e[2] = k[2]
                BY <2>1, <2>2, <3>1, <3>3 DEF SharedTold
            <4>2. PICK h \in listed \cap (call.own \cup call.shared) : h[2] = e[2]
                BY <2>4
            <4>3. QED
                BY <2>5, <3>3, <4>1, <4>2
        <3>4. QED
            BY <3>2, <3>3
    <2>7. ASSUME NEW e \in listed, Stays(e)
          PROVE  e \in mine \cup others
        <3>1. e \in Stayed(call) /\ e \in Keys
            BY <2>3, <2>7, StaysIs
        <3>2. e \notin call.base
            BY <2>1, <3>1, KeyParts DEF BaseTold
        <3>3. QED
            BY <2>1, <2>2, <2>4, <3>1, <3>2 DEF OwnTold, SharedTold
    <2>8. ASSUME NEW s \in loaded[Home].skills, OnDisk(s) \notin call.touched
          PROVE  \E e \in listed : e[2] = s[2]
        <3>1. PICK e \in call.base : e[2] = s[2]
            BY <2>1, <2>8, ViewIs DEF BaseTold
        <3>2. QED
            BY <2>4, <3>1
    <2>9. QED
        BY <2>6, <2>7, <2>8
<1> HIDE DEF listed, mine, others
<1>2. QED
    BY <1>1, FailureTold DEF ListsWhatStays, Done, listed, mine, others

LEMMA PagesTell ==
    ASSUME CatalogInv
    PROVE  PagesCover
<1> SUFFICES ASSUME call # None, call.pc = "done", call.op = "walk"
             PROVE  /\ ~call.twice
                    /\ \A k \in Keys : Stays(k) => (k \in call.seen <=> Passes(k, call.filter))
    BY DEF PagesCover, Done
<1>1. TypeOK /\ WalkTold(call, View)
    BY DoneTold
<1>2. QED
    BY <1>1, StaysIs, PassesIs DEF WalkTold, Walked

(* The store, the snapshots and the reader's call keep their types, while  *)
(* users and a sync write between any two reads of the call: an answer is  *)
(* a skill of the store or of the snapshot, or none, and a state told is   *)
(* one of the four.                                                        *)
THEOREM CatalogTypeCorrect == Spec => []CatalogTypeOK
<1>1. CatalogInv => CatalogTypeOK
    BY DEF CatalogInv
<1>2. QED
    BY CatalogInvHolds, <1>1, PTL

(* What a call opens, reads a file of or tells in detail is right for all  *)
(* that stays while the call runs (composite_skill_loader.py:160): a skill *)
(* the reader may see is found, the reader's own first, what is found is   *)
(* one the reader may see, a file that is reported missing was hidden by   *)
(* another skill of its name at most, and a detail tells the state and     *)
(* the files of the skill that was opened; for any skills, authors,        *)
(* plugins and files, any snapshot, and any writes between the reads.      *)
THEOREM AnswersAreRight == Spec => []AnswersTellWhatStays
<1>1. CatalogInv => AnswersTellWhatStays
    BY OpensTold, FilesRead, DetailTold DEF AnswersTellWhatStays
<1>2. QED
    BY CatalogInvHolds, <1>1, PTL

(* A listing looks at the snapshot for the names and again for each of     *)
(* them, and reads the store twice, at as many times.  It has each skill   *)
(* that stays and that the reader may see, an own one as the reader's, a   *)
(* shared one not as the snapshot's, and nothing else that stays           *)
(* (composite_skill_loader.py:573); and if it fails, then because the      *)
(* loader lost, while the listing ran, a skill it still wanted (:568).     *)
THEOREM ListingsAreRight == Spec => []ListsWhatStays
<1>1. CatalogInv => ListsWhatStays
    BY ListedTells
<1>2. QED
    BY CatalogInvHolds, <1>1, PTL

(* The pages of a walk have each skill that stays and passes the filters,  *)
(* and none twice, for any page size, however many skills come, go and     *)
(* change their states between the pages (summary_page_cursor.py:5).       *)
THEOREM PagesAreComplete == Spec => []PagesCover
<1>1. CatalogInv => PagesCover
    BY PagesTell
<1>2. QED
    BY CatalogInvHolds, <1>1, PTL

(* What holds of the syncs alone holds with users writing beside them: a   *)
(* definition in the store lists published skills but for those a sync     *)
(* missed, and no step takes back what is published of the marketplace.    *)
THEOREM SyncsHoldWithUsers == Spec => []PluginsListPublished /\ PublishedStays
<1>1. CatalogInv => PluginsListPublished
    BY DEF CatalogInv, SyncInv
<1>2. CatalogInv /\ [Next]_vars => \A s \in Skills : Published(s) => PublishedAfter(s)
    <2> SUFFICES ASSUME CatalogInv, [Next]_vars
                 PROVE  \A s \in Skills : Published(s) => PublishedAfter(s)
        OBVIOUS
    <2>1. CASE SyncNext
        BY <2>1, PublishedKept DEF CatalogInv
    <2>2. CASE UserChange
        <3>1. PICK k \in UserKeys : UserLeaves(k)
            BY <2>2, UserWrites DEF UserChange
        <3>2. \A s \in Skills : row'[Key(s)] = row[Key(s)]
            BY <3>1, UserKeysApart DEF UserLeaves
        <3>3. QED
            BY <3>2 DEF Published, PublishedAfter
    <2>3. CASE BeginCall \/ CallStep \/ EndCall \/ UNCHANGED vars
        <3>1. row' = row
            BY <2>3 DEF BeginCall, CallStep, EndCall, vars, syncVars, stored
        <3>2. QED
            BY <3>1 DEF Published, PublishedAfter
    <2>4. QED
        BY <2>1, <2>2, <2>3 DEF Next
<1>3. CatalogInv /\ [Next]_vars
          => [\A s \in Skills : row[Key(s)] # None /\ row[Key(s)].state = "published"
                => row'[Key(s)] # None /\ row'[Key(s)].state = "published"]_syncVars
    BY <1>2 DEF Published, PublishedAfter
<1>4. QED
    BY CatalogInvHolds, <1>1, <1>3, PTL DEF Spec, PublishedStays
=============================================================================
