--------------------------- MODULE SkillSyncProofs ---------------------------
(***************************************************************************)
(* SkillSync keeps its types, a sync never takes back what is published, a *)
(* definition in the store lists published skills only, but for the skills *)
(* a sync missed, and a sync that reports no error and was not disturbed   *)
(* has written the skills it listed with their files, but for the files it *)
(* left out; for any pods, skills, files and releases.                     *)
(*                                                                         *)
(* PluginsListPublished is not inductive: when a definition is written,    *)
(* the state must say what the sync that writes it has done (SyncsTold):   *)
(* every skill it listed and is through with is published, by it or by     *)
(* another sync, or is missed.  CleanSyncAccounts needs what a sync has    *)
(* written so far, and that it is of the snapshot it has (CleanInv).       *)
(***************************************************************************)
EXTENDS SkillSync, TLAPS

Published(s) == row[Key(s)] # None /\ row[Key(s)].state = "published"

(* What the sync of a pod has done when the pod is at local.               *)
SyncTold(local) ==
    /\ local.pc \in {"definitions", "plugins"} => local.todo = {}
    /\ local.pc \in {"publish", "files"} => local.skill \in Skills
    /\ local.pc = "publish" => row[Key(local.skill)] # None
    /\ \A s \in local.listed \ local.todo :
          \/ local.pc = "publish" /\ s = local.skill
          \/ s \in missed
          \/ Published(s)

SyncsTold == \A p \in Pods : SyncTold(pod[p])

(* The marketplace numbers its releases from 1, and only they have skills. *)
SnapshotsReal ==
    /\ release.n # 0
    /\ \A p \in Pods : /\ loaded[p].skills # {} => loaded[p].n # 0
                       /\ defs[p].skills # {} => defs[p].n # 0

SyncInv == TypeOK /\ SnapshotsReal /\ SyncsTold /\ PluginsListPublished

-----------------------------------------------------------------------------
(* The same after a step of which local is the outcome.                    *)
PublishedAfter(s) == row'[Key(s)] # None /\ row'[Key(s)].state = "published"

ToldAfter(local) ==
    /\ local.pc \in {"definitions", "plugins"} => local.todo = {}
    /\ local.pc \in {"publish", "files"} => local.skill \in Skills
    /\ local.pc = "publish" => row'[Key(local.skill)] # None
    /\ \A s \in local.listed \ local.todo :
          \/ local.pc = "publish" /\ s = local.skill
          \/ s \in missed'
          \/ PublishedAfter(s)

(* A step takes no skill away, unpublishes none, and forgets a missed one  *)
(* only when it is published.                                              *)
Kept ==
    \A s \in Skills :
        /\ row[Key(s)] # None => row'[Key(s)] # None
        /\ Published(s) => PublishedAfter(s)
        /\ s \in missed => s \in missed' \/ PublishedAfter(s)

SameSync(a, b) ==
    a.pc = b.pc /\ a.listed = b.listed /\ a.todo = b.todo /\ a.skill = b.skill

(* Pod p goes on as local, and the others where they were.                 *)
Goes(p, local) ==
    /\ pod' \in [Pods -> Syncs]
    /\ pod'[p] = local
    /\ \A r \in Pods : r # p => SameSync(pod'[r], pod[r])

MarketFits ==
    /\ release \in Releases
    /\ loaded \in [Pods -> Releases]
    /\ defs \in [Pods -> Releases]
    /\ SnapshotsReal

StoreFits ==
    /\ row \in [Keys -> Rows \cup {None}]
    /\ file \in [Keys -> [Files -> Texts \cup {Own, None}]]
    /\ plugins \in [Plugins -> (SUBSET Skills) \cup {None}]
    /\ missed \subseteq Skills

LEMMA KeyIs ==
    ASSUME NEW s \in Skills
    PROVE  Key(s) \in Keys /\ s[1] \in Plugins
<1>1. PICK k \in Keys : k[3] = System /\ s = <<k[1], k[2]>>
    BY DEF Skills
<1>2. k \in Nat \X Nat \X Authors
    BY KeysAssumption
<1>3. k = <<k[1], k[2], k[3]>>
    BY <1>2
<1>4. Key(s) = k
    BY <1>1, <1>3 DEF Key
<1>5. QED
    BY <1>1, <1>4 DEF Plugins

(* A sync that does not move stays told.                                   *)
LEMMA ToldOn ==
    ASSUME NEW a \in Syncs, NEW b, SameSync(b, a), SyncTold(a), Kept
    PROVE  ToldAfter(b)
<1>1. a.listed \subseteq Skills
    BY DEF Syncs
<1>2. QED
    BY <1>1 DEF SameSync, SyncTold, ToldAfter, Kept

LEMMA SyncInvKept ==
    ASSUME SyncInv, NEW p \in Pods, NEW local, Goes(p, local), ToldAfter(local),
           Kept, MarketFits', StoreFits', PluginsListPublished'
    PROVE  SyncInv'
<1>1. TypeOK' /\ SnapshotsReal'
    BY DEF TypeOK, MarketFits, StoreFits, Goes
<1>2. ASSUME NEW r \in Pods
      PROVE  ToldAfter(pod'[r])
    <2>1. CASE r = p
        BY <2>1 DEF Goes
    <2>2. CASE r # p
        BY <2>2, ToldOn DEF Goes, SyncInv, TypeOK, SyncsTold
    <2>3. QED
        BY <2>1, <2>2
<1>3. SyncsTold'
    BY <1>2 DEF SyncsTold, SyncTold, ToldAfter, Published, PublishedAfter
<1>4. QED
    BY <1>1, <1>3 DEF SyncInv

(* A step that writes nothing to the store.                                *)
LEMMA QuietKept ==
    ASSUME SyncInv, NEW p \in Pods, NEW local, Goes(p, local), ToldAfter(local),
           MarketFits', UNCHANGED <<stored, missed>>
    PROVE  SyncInv'
<1>1. UNCHANGED <<row, file, plugins, missed>>
    BY DEF stored
<1>2. Kept
    BY <1>1 DEF Kept, Published, PublishedAfter
<1>3. StoreFits' /\ PluginsListPublished'
    BY <1>1 DEF SyncInv, TypeOK, StoreFits, PluginsListPublished
<1>4. QED
    BY <1>2, <1>3, SyncInvKept

-----------------------------------------------------------------------------
(* Where pods go.                                                          *)
LEMMA SpoilIs ==
    ASSUME NEW c \in Syncs
    PROVE  /\ Spoil(c) \in Syncs /\ SameSync(Spoil(c), c)
           /\ Spoil(c).files = c.files /\ Spoil(c).defs = c.defs
           /\ Spoil(c).clean = FALSE
<1>1. Spoil(c) \in Syncs
    BY DEF Spoil, Syncs
<1>2. SameSync(Spoil(c), c)
    BY DEF Spoil, Syncs, SameSync
<1>3. Spoil(c).files = c.files /\ Spoil(c).defs = c.defs /\ Spoil(c).clean = FALSE
    BY DEF Spoil, Syncs
<1>4. QED
    BY <1>1, <1>2, <1>3

LEMMA DisturbedIs ==
    ASSUME SyncInv, NEW p \in Pods
    PROVE  Disturbed(p) \in Syncs /\ SameSync(Disturbed(p), pod[p])
<1>1. pod[p] \in Syncs
    BY DEF SyncInv, TypeOK
<1>2. SameSync(pod[p], pod[p])
    BY DEF SameSync
<1>3. QED
    BY <1>1, <1>2, SpoilIs DEF Disturbed

LEMMA MoveGoes ==
    ASSUME SyncInv, NEW p \in Pods, NEW local \in Syncs, pod' = [pod EXCEPT ![p] = local]
    PROVE  Goes(p, local)
BY DEF Goes, SameSync, SyncInv, TypeOK

LEMMA DisturbGoes ==
    ASSUME SyncInv, NEW p \in Pods, NEW local \in Syncs, Disturb(p, local)
    PROVE  Goes(p, local)
<1> DEFINE next(r) == IF r = p THEN local ELSE Disturbed(r)
<1>1. pod' = [r \in Pods |-> next(r)]
    BY DEF Disturb
<1>2. ASSUME NEW r \in Pods, r # p
      PROVE  next(r) \in Syncs /\ SameSync(next(r), pod[r])
    BY <1>2, DisturbedIs
<1>3. next(p) = local
    OBVIOUS
<1> HIDE DEF next
<1>4. QED
    BY <1>1, <1>2, <1>3 DEF Goes

(* Serving, down, or at the beginning: nothing is listed.                  *)
LEMMA BeginGoes ==
    ASSUME SyncInv, NEW p \in Pods,
           NEW pc \in {"down", "serving", "look", "refresh", "list"}, Begin(p, pc)
    PROVE  \E local : Goes(p, local) /\ ToldAfter(local)
<1> DEFINE local == [Serving EXCEPT !.pc = pc]
<1>1. local \in Syncs
    BY DEF Serving, Syncs, Pcs
<1>2. ToldAfter(local)
    BY DEF ToldAfter, Serving
<1>3. pod' = [pod EXCEPT ![p] = local]
    BY DEF Begin
<1> HIDE DEF local
<1>4. QED
    BY <1>1, <1>2, <1>3, MoveGoes

(* A pod that moves to pc with its listing as it was.                      *)
LEMMA MovedIs ==
    ASSUME NEW local \in Syncs, local.pc \in {"look", "refresh"}, SyncTold(local), Kept,
           NEW pc \in {"serving", "list"}
    PROVE  [local EXCEPT !.pc = pc] \in Syncs /\ ToldAfter([local EXCEPT !.pc = pc])
<1> DEFINE moved == [local EXCEPT !.pc = pc]
<1>1. moved \in Syncs
    BY DEF Syncs, Pcs
<1>2. moved.pc = pc /\ moved.listed = local.listed /\ moved.todo = local.todo
    BY DEF Syncs
<1>3. local.listed \subseteq Skills
    BY DEF Syncs
<1> HIDE DEF moved
<1>4. ToldAfter(moved)
    BY <1>2, <1>3 DEF ToldAfter, SyncTold, Kept
<1>5. QED
    BY <1>1, <1>4 DEF moved

-----------------------------------------------------------------------------
(* The marketplace.                                                        *)
LEMMA NothingIs == Nothing \in Releases /\ Nothing.skills = {}
BY BoundAssumption DEF Nothing, Releases, Contents

LEMMA MarketStays ==
    ASSUME SyncInv, UNCHANGED market
    PROVE  MarketFits'
BY DEF SyncInv, TypeOK, MarketFits, SnapshotsReal, market

(* A loader takes what the marketplace holds, or drops what it had; its    *)
(* definitions may stay.                                                   *)
LEMMA MarketTaken ==
    ASSUME SyncInv, NEW p \in Pods, NEW r \in {release, Nothing}, release' = release,
           loaded' = [loaded EXCEPT ![p] = r], defs' \in {defs, [defs EXCEPT ![p] = r]}
    PROVE  MarketFits'
<1>1. r \in Releases /\ (r.skills # {} => r.n # 0)
    BY NothingIs DEF SyncInv, TypeOK, SnapshotsReal
<1>2. loaded' \in [Pods -> Releases] /\ defs' \in [Pods -> Releases]
    BY <1>1 DEF SyncInv, TypeOK
<1>3. SnapshotsReal'
    BY <1>1 DEF SyncInv, TypeOK, SnapshotsReal
<1>4. QED
    BY <1>2, <1>3 DEF MarketFits, SyncInv, TypeOK

LEMMA PublishKept ==
    ASSUME SyncInv, Publish
    PROVE  SyncInv'
<1>1. UNCHANGED <<row, file, plugins, loaded, defs, pod, missed>>
    BY DEF Publish, stored
<1>2. PICK S \in Contents : release' = [n |-> release.n + 1, skills |-> S]
    BY DEF Publish
<1>3. release.n \in 0..MaxReleases /\ release.n < MaxReleases
    BY DEF Publish, SyncInv, TypeOK, Releases
<1>4. release' \in Releases /\ release'.n # 0
    BY <1>2, <1>3, BoundAssumption DEF Releases
<1>5. TypeOK' /\ SnapshotsReal'
    BY <1>1, <1>4 DEF SyncInv, TypeOK, SnapshotsReal
<1>6. SyncsTold' /\ PluginsListPublished'
    BY <1>1 DEF SyncInv, SyncsTold, SyncTold, Published, PluginsListPublished
<1>7. QED
    BY <1>5, <1>6 DEF SyncInv

-----------------------------------------------------------------------------
(* Steps of a pod that write nothing.                                      *)
LEMMA NothingWritten ==
    ASSUME UNCHANGED <<stored, missed>>
    PROVE  Kept
BY DEF stored, Kept, Published, PublishedAfter

LEMMA BeginKept ==
    ASSUME SyncInv, NEW p \in Pods, MarketFits', UNCHANGED <<stored, missed>>,
           NEW pc \in {"down", "serving", "look", "refresh", "list"}, Begin(p, pc)
    PROVE  SyncInv'
<1>1. PICK local : Goes(p, local) /\ ToldAfter(local)
    BY BeginGoes
<1>2. QED
    BY <1>1, QuietKept

LEMMA StopKept ==
    ASSUME SyncInv, NEW p \in Pods, Stop(p), UNCHANGED missed
    PROVE  SyncInv'
<1>1. MarketFits'
    BY MarketTaken DEF Stop
<1>2. QED
    BY <1>1, BeginKept DEF Stop

LEMMA BeginsKept ==
    ASSUME SyncInv, NEW p \in Pods,
           \/ Start(p) \/ BeginReload(p) \/ LoaderFails(p)
           \/ DefinitionsFail(p) \/ SyncDone(p)
    PROVE  SyncInv'
<1>1. /\ UNCHANGED <<stored, missed>> /\ UNCHANGED market
      /\ \E pc \in {"serving", "look", "refresh"} : Begin(p, pc)
    BY DEF Start, BeginReload, LoaderFails, DefinitionsFail, SyncDone
<1>2. QED
    BY <1>1, MarketStays, BeginKept

LEMMA MoveKept ==
    ASSUME SyncInv, NEW p \in Pods, MarketFits', UNCHANGED <<stored, missed>>,
           pod[p].pc \in {"look", "refresh"}, NEW pc \in {"serving", "list"}, Move(p, pc)
    PROVE  SyncInv'
<1> DEFINE moved == [pod[p] EXCEPT !.pc = pc]
<1>1. pod[p] \in Syncs /\ SyncTold(pod[p])
    BY DEF SyncInv, TypeOK, SyncsTold
<1>2. moved \in Syncs /\ ToldAfter(moved)
    BY <1>1, NothingWritten, MovedIs
<1>3. pod' = [pod EXCEPT ![p] = moved]
    BY DEF Move
<1> HIDE DEF moved
<1>4. QED
    BY <1>2, <1>3, MoveGoes, QuietKept

LEMMA LooksKept ==
    ASSUME SyncInv, NEW p \in Pods, LookForPlugins(p) \/ Refresh(p)
    PROVE  SyncInv'
<1>1. CASE LookForPlugins(p)
    <2>1. MarketFits' /\ UNCHANGED <<stored, missed>>
        BY <1>1, MarketStays DEF LookForPlugins
    <2>2. PICK pc \in {"serving", "list"} : Move(p, pc)
        BY <1>1 DEF LookForPlugins
    <2>3. QED
        BY <1>1, <2>1, <2>2, MoveKept DEF LookForPlugins
<1>2. CASE Refresh(p)
    <2>1. MarketFits'
        BY <1>2, MarketTaken DEF Refresh, Build
    <2>2. QED
        BY <1>2, <2>1, MoveKept DEF Refresh
<1>3. QED
    BY <1>1, <1>2

LEMMA ReloadKept ==
    ASSUME SyncInv, NEW p \in Pods, Reload(p)
    PROVE  SyncInv'
<1> DEFINE local == Disturbed(p)
<1>1. pod[p] \in Syncs /\ SyncTold(pod[p])
    BY DEF SyncInv, TypeOK, SyncsTold
<1>3. pod' = [pod EXCEPT ![p] = local]
    BY DEF Reload
<1>4. local \in Syncs /\ SameSync(local, pod[p])
    BY DisturbedIs
<1> HIDE DEF local
<1>5. UNCHANGED <<stored, missed>>
    BY DEF Reload
<1>6. ToldAfter(local)
    BY <1>1, <1>4, <1>5, ToldOn, NothingWritten
<1>7. MarketFits'
    BY MarketTaken DEF Reload, Build
<1>8. QED
    BY <1>3, <1>4, <1>5, <1>6, <1>7, MoveGoes, QuietKept

-----------------------------------------------------------------------------
(* Steps of a sync.                                                        *)
ListedTold(local) ==
    \A s \in local.listed \ local.todo : s \in missed' \/ PublishedAfter(s)

LEMMA NextSkillIs ==
    ASSUME NEW local \in Syncs, ListedTold(local)
    PROVE  NextSkill(local) \in Syncs /\ ToldAfter(NextSkill(local))
<1> DEFINE pc   == IF local.todo = {} THEN "definitions" ELSE "skills"
           next == [local EXCEPT !.pc = pc, !.skill = None, !.files = {}]
<1>1. NextSkill(local) = next
    BY DEF NextSkill
<1>2. pc \in Pcs /\ pc \notin {"publish", "files", "plugins"}
    BY DEF Pcs
<1>3. pc = "definitions" => local.todo = {}
    OBVIOUS
<1> HIDE DEF pc
<1>4. next \in Syncs
    BY <1>2 DEF Syncs
<1>5. next.pc = pc /\ next.listed = local.listed /\ next.todo = local.todo
    BY DEF Syncs
<1> HIDE DEF next
<1>6. ToldAfter(next)
    BY <1>2, <1>3, <1>5 DEF ToldAfter, ListedTold
<1>7. QED
    BY <1>1, <1>4, <1>6

LEMMA OnwardIs ==
    ASSUME NEW local \in Syncs, ListedTold(local), local.pc = "files", local.skill \in Skills
    PROVE  Onward(local) \in Syncs /\ ToldAfter(Onward(local))
<1>1. ToldAfter(local)
    BY DEF ToldAfter, ListedTold
<1>2. QED
    BY <1>1, NextSkillIs DEF Onward

LEMMA ContentsAre ==
    ASSUME SyncInv, NEW p \in Pods
    PROVE  loaded[p].skills \subseteq Skills /\ defs[p].skills \subseteq Skills
BY DEF SyncInv, TypeOK, Releases, Contents

LEMMA ListSkillsKept ==
    ASSUME SyncInv, NEW p \in Pods, ListSkills(p)
    PROVE  SyncInv'
<1> DEFINE skills == loaded'[p].skills
           local  == [Serving EXCEPT !.listed = skills, !.todo = skills]
<1>1. UNCHANGED <<stored, missed>> /\ release' = release
    BY DEF ListSkills
<1>2. MarketFits'
    <2>1. CASE loaded[p] = Nothing
        BY <1>1, <2>1, MarketTaken DEF ListSkills, Consult, Build
    <2>2. CASE loaded[p] # Nothing
        BY <1>1, <2>2, MarketStays DEF ListSkills, Consult, market
    <2>3. QED
        BY <2>1, <2>2
<1>3. skills \subseteq Skills
    BY <1>2 DEF MarketFits, Releases, Contents
<1>4. pod' = [pod EXCEPT ![p] = NextSkill(local)]
    BY DEF ListSkills
<1> HIDE DEF skills
<1>5. local \in Syncs
    BY <1>3 DEF Serving, Syncs, Pcs
<1>6. ListedTold(local)
    BY DEF ListedTold, Serving
<1> HIDE DEF local
<1>7. NextSkill(local) \in Syncs /\ ToldAfter(NextSkill(local))
    BY <1>5, <1>6, NextSkillIs
<1>8. QED
    BY <1>1, <1>2, <1>4, <1>7, MoveGoes, QuietKept

LEMMA ListDefinitionsKept ==
    ASSUME SyncInv, NEW p \in Pods, ListDefinitions(p)
    PROVE  SyncInv'
<1> DEFINE skills == defs[p].skills
           local  == [pod[p] EXCEPT !.pc = "plugins", !.defs = skills]
<1>1. UNCHANGED <<stored, missed>> /\ UNCHANGED market
    BY DEF ListDefinitions
<1>2. pod[p] \in Syncs /\ SyncTold(pod[p]) /\ pod[p].pc = "definitions"
    BY DEF ListDefinitions, SyncInv, TypeOK, SyncsTold
<1>3. skills \subseteq Skills
    BY ContentsAre
<1>4. pod' = [pod EXCEPT ![p] = local]
    BY DEF ListDefinitions
<1> HIDE DEF skills
<1>5. local \in Syncs
    BY <1>2, <1>3 DEF Syncs, Pcs
<1>6. local.pc = "plugins" /\ local.listed = pod[p].listed /\ local.todo = pod[p].todo
    BY <1>2 DEF Syncs
<1> HIDE DEF local
<1>7. pod[p].listed \subseteq Skills
    BY <1>2 DEF Syncs
<1>8. Kept
    BY <1>1, NothingWritten
<1>9. ToldAfter(local)
    BY <1>2, <1>6, <1>7, <1>8 DEF ToldAfter, SyncTold, Kept
<1>10. QED
    BY <1>1, <1>4, <1>5, <1>9, MarketStays, MoveGoes, QuietKept

(* A sync at its files goes on, whatever became of the file.               *)
LEMMA FileDone ==
    ASSUME SyncInv, NEW p \in Pods, pod[p].pc = "files", Kept,
           NEW local \in Syncs, SameSync(local, pod[p])
    PROVE  Onward(local) \in Syncs /\ ToldAfter(Onward(local))
<1>1. pod[p] \in Syncs /\ SyncTold(pod[p])
    BY DEF SyncInv, TypeOK, SyncsTold
<1>2. pod[p].listed \subseteq Skills
    BY <1>1 DEF Syncs
<1>3. local.pc = "files" /\ local.skill \in Skills /\ ListedTold(local)
    BY <1>1, <1>2 DEF SameSync, SyncTold, ListedTold, Kept
<1>4. QED
    BY <1>3, OnwardIs

(* A sync that is through with a file, and has skipped these so far.       *)
LEMMA ThroughFile ==
    ASSUME NEW c \in Syncs, NEW f, NEW skipped \in SUBSET (Skills \X Files)
    PROVE  LET local == [c EXCEPT !.files = @ \ {f}, !.skipped = skipped]
           IN  local \in Syncs /\ SameSync(local, c)
<1> DEFINE files == c.files \ {f}
           local == [c EXCEPT !.files = files, !.skipped = skipped]
<1>1. files \in SUBSET Files
    BY DEF Syncs
<1> HIDE DEF files
<1>2. local \in Syncs
    BY <1>1 DEF Syncs
<1>3. SameSync(local, c)
    BY DEF Syncs, SameSync
<1>4. QED
    BY <1>2, <1>3 DEF files

LEMMA ThroughSaved ==
    ASSUME NEW c \in Syncs, NEW f
    PROVE  [c EXCEPT !.files = @ \ {f}] \in Syncs /\ SameSync([c EXCEPT !.files = @ \ {f}], c)
<1>1. c.skipped \in SUBSET (Skills \X Files)
    BY DEF Syncs
<1>2. [c EXCEPT !.files = @ \ {f}] = [c EXCEPT !.files = @ \ {f}, !.skipped = c.skipped]
    BY DEF Syncs
<1>3. QED
    BY <1>1, <1>2, ThroughFile

LEMMA SkipFileKept ==
    ASSUME SyncInv, NEW p \in Pods, NEW f \in Files, SkipFile(p, f)
    PROVE  SyncInv'
<1> DEFINE skipped == IF pod[p].clean THEN pod[p].skipped \cup {<<pod[p].skill, f>>}
                                      ELSE pod[p].skipped
           local   == [pod[p] EXCEPT !.files = @ \ {f}, !.skipped = skipped]
<1>1. UNCHANGED <<stored, missed>> /\ UNCHANGED market
    BY DEF SkipFile
<1>2. pod[p] \in Syncs /\ pod[p].pc = "files" /\ pod[p].skill \in Skills
    BY DEF SkipFile, SyncInv, TypeOK, SyncsTold, SyncTold
<1>3. skipped \in SUBSET (Skills \X Files)
    BY <1>2 DEF Syncs
<1>4. pod' = [pod EXCEPT ![p] = Onward(local)]
    BY DEF SkipFile
<1> HIDE DEF skipped
<1>5. local \in Syncs /\ SameSync(local, pod[p])
    BY <1>2, <1>3, ThroughFile
<1> HIDE DEF local
<1>6. Onward(local) \in Syncs /\ ToldAfter(Onward(local))
    BY <1>1, <1>2, <1>5, NothingWritten, FileDone
<1>7. QED
    BY <1>1, <1>4, <1>6, MarketStays, MoveGoes, QuietKept

-----------------------------------------------------------------------------
(* What the writes of a sync do to the skill documents.                    *)
RowsFit == row \in [Keys -> Rows \cup {None}] /\ missed \subseteq Skills

LEMMA SourceIs ==
    ASSUME SyncInv, NEW p \in Pods, NEW s, Named(p, s) # {}
    PROVE  Source(p, s) \in Plugins /\ loaded[p].n \in 1..MaxReleases
<1> DEFINE named == CHOOSE t \in Named(p, s) : TRUE
<1>1. named \in loaded[p].skills
    BY DEF Named
<1> HIDE DEF named
<1>2. named \in Skills
    BY <1>1, ContentsAre
<1>3. loaded[p].n \in 1..MaxReleases
    BY <1>1 DEF SyncInv, TypeOK, Releases, SnapshotsReal
<1>4. named[1] \in Plugins
    BY <1>2, KeyIs
<1>5. Source(p, s) = named[1]
    BY DEF Source, named
<1>6. QED
    BY <1>3, <1>4, <1>5

LEMMA TextIs ==
    ASSUME SyncInv, NEW p \in Pods, NEW s, Named(p, s) # {}
    PROVE  TextOf(p, s) \in Texts
BY SourceIs DEF TextOf, Texts

LEMMA FileTextIs ==
    ASSUME SyncInv, NEW p \in Pods, NEW s, HasDirectory(p, s)
    PROVE  FileText(p, s) \in Texts
<1>1. Named(p, s) # {} /\ defs[p].skills # {}
    BY DEF HasDirectory
<1>2. defs[p].n \in 1..MaxReleases
    BY <1>1 DEF SyncInv, TypeOK, Releases, SnapshotsReal
<1>3. QED
    BY <1>1, <1>2, SourceIs DEF FileText, Texts

LEMMA RowsStay ==
    ASSUME SyncInv, row' = row, missed' \subseteq Skills, missed \subseteq missed'
    PROVE  Kept /\ RowsFit'
BY DEF Kept, RowsFit, Published, PublishedAfter, SyncInv, TypeOK

LEMMA SavedRows ==
    ASSUME SyncInv, NEW s \in Skills, NEW text \in Texts, save_skill(Key(s), text),
           missed' \subseteq Skills, missed \subseteq missed'
    PROVE  Kept /\ RowsFit' /\ row'[Key(s)] # None
<1> DEFINE k     == Key(s)
           state == IF row[k] = None THEN "draft" ELSE row[k].state
           new   == [state |-> state, text |-> text]
<1>1. k \in Keys
    BY KeyIs
<1>2. row' = [row EXCEPT ![k] = new]
    BY DEF save_skill
<1>3. row \in [Keys -> Rows \cup {None}]
    BY DEF SyncInv, TypeOK
<1>4. state \in States
    BY <1>1, <1>3 DEF Rows, States
<1>5. Published(s) => state = "published"
    BY DEF Published
<1> HIDE DEF state
<1>6. new \in Rows /\ new.state = state
    BY <1>4 DEF Rows
<1>7. new # None
    BY <1>6, NoneAssumption
<1> HIDE DEF new
<1>8. RowsFit' /\ row'[k] = new
    BY <1>1, <1>2, <1>3, <1>6 DEF RowsFit
<1>9. ASSUME NEW t \in Skills
      PROVE  /\ row[Key(t)] # None => row'[Key(t)] # None
             /\ Published(t) => PublishedAfter(t)
    <2>1. CASE Key(t) = k
        BY <1>5, <1>6, <1>7, <1>8, <2>1 DEF Published, PublishedAfter
    <2>2. CASE Key(t) # k
        <3>1. row'[Key(t)] = row[Key(t)]
            BY <1>2, <1>3, <2>2, KeyIs
        <3>2. QED
            BY <3>1 DEF Published, PublishedAfter
    <2>3. QED
        BY <2>1, <2>2
<1>10. QED
    BY <1>7, <1>8, <1>9 DEF Kept

LEMMA PublishedRows ==
    ASSUME SyncInv, NEW s \in Skills, row[Key(s)] # None, publish_skill(Key(s)),
           missed' \subseteq Skills, missed \ {s} \subseteq missed'
    PROVE  Kept /\ RowsFit' /\ PublishedAfter(s)
<1> DEFINE k   == Key(s)
           new == [row[k] EXCEPT !.state = "published"]
<1>1. k \in Keys
    BY KeyIs
<1>2. row' = [row EXCEPT ![k] = new]
    BY DEF publish_skill
<1>3. row \in [Keys -> Rows \cup {None}]
    BY DEF SyncInv, TypeOK
<1>4. row[k] \in Rows
    BY <1>1, <1>3
<1>5. new \in Rows /\ new.state = "published"
    BY <1>4 DEF Rows, States
<1>6. new # None
    BY <1>5, NoneAssumption
<1> HIDE DEF new
<1>7. RowsFit' /\ row'[k] = new
    BY <1>1, <1>2, <1>3, <1>5 DEF RowsFit
<1>8. PublishedAfter(s)
    BY <1>5, <1>6, <1>7 DEF PublishedAfter
<1>9. ASSUME NEW t \in Skills
      PROVE  /\ row[Key(t)] # None => row'[Key(t)] # None
             /\ Published(t) => PublishedAfter(t)
    <2>1. CASE Key(t) = k
        BY <1>6, <1>7, <1>8, <2>1 DEF PublishedAfter
    <2>2. CASE Key(t) # k
        <3>1. row'[Key(t)] = row[Key(t)]
            BY <1>2, <1>3, <2>2, KeyIs
        <3>2. QED
            BY <3>1 DEF Published, PublishedAfter
    <2>3. QED
        BY <2>1, <2>2
<1>10. QED
    BY <1>7, <1>8, <1>9 DEF Kept

(* What a definition lists stays published, or missed.                     *)
LEMMA ListedStay ==
    ASSUME SyncInv, Kept, plugins' = plugins
    PROVE  PluginsListPublished'
<1> SUFFICES ASSUME NEW q \in Plugins, plugins[q] # None, NEW s \in plugins[q],
                    s \notin missed'
             PROVE  PublishedAfter(s)
    BY DEF PluginsListPublished, PublishedAfter
<1>1. s \in Skills
    BY DEF SyncInv, TypeOK
<1>2. CASE s \in missed
    BY <1>1, <1>2 DEF Kept
<1>3. CASE s \notin missed
    <2>1. Published(s)
        BY <1>3 DEF SyncInv, PluginsListPublished, Published
    <2>2. QED
        BY <1>1, <2>1 DEF Kept
<1>4. QED
    BY <1>2, <1>3

(* A write of a skill by p, which goes on as local.                        *)
LEMMA WriteKept ==
    ASSUME SyncInv, NEW p \in Pods, NEW local \in Syncs, Disturb(p, local),
           ToldAfter(local), Kept, RowsFit', UNCHANGED <<file, plugins>>, UNCHANGED market
    PROVE  SyncInv'
<1>1. StoreFits' /\ PluginsListPublished'
    BY ListedStay DEF StoreFits, RowsFit, SyncInv, TypeOK
<1>2. QED
    BY <1>1, DisturbGoes, MarketStays, SyncInvKept

(* The skills a sync is through with, after a step that may have left one. *)
LEMMA ThroughWith ==
    ASSUME SyncInv, NEW p \in Pods, Kept, NEW local, local.listed = pod[p].listed,
           NEW gone, \A s \in gone : s \in missed' \/ PublishedAfter(s),
           pod[p].todo \subseteq local.todo \cup gone,
           pod[p].pc = "publish" => pod[p].skill \in gone
    PROVE  ListedTold(local)
<1>1. pod[p] \in Syncs /\ SyncTold(pod[p])
    BY DEF SyncInv, TypeOK, SyncsTold
<1>2. pod[p].listed \subseteq Skills
    BY <1>1 DEF Syncs
<1>3. QED
    BY <1>1, <1>2 DEF ListedTold, SyncTold, Kept

LEMMA SaveSkillKept ==
    ASSUME SyncInv, NEW p \in Pods, NEW s \in Skills, SaveSkill(p, s)
    PROVE  SyncInv'
<1> DEFINE todo  == pod[p].todo \ {s}
           local == [pod[p] EXCEPT !.pc = "publish", !.skill = s, !.todo = todo]
<1>1. pod[p] \in Syncs /\ SyncTold(pod[p]) /\ pod[p].pc = "skills"
    BY DEF SaveSkill, SyncInv, TypeOK, SyncsTold
<1>2. TextOf(p, s) \in Texts
    BY TextIs DEF SaveSkill
<1>3. UNCHANGED <<file, plugins, missed>> /\ UNCHANGED market
    BY DEF SaveSkill
<1>4. Kept /\ RowsFit' /\ row'[Key(s)] # None
    <2>1. save_skill(Key(s), TextOf(p, s)) /\ missed' \subseteq Skills
        BY <1>3 DEF SaveSkill, SyncInv, TypeOK
    <2>2. QED
        BY <1>2, <1>3, <2>1, SavedRows
<1>5. Disturb(p, local)
    BY DEF SaveSkill
<1>6. todo \in SUBSET Skills
    BY <1>1 DEF Syncs
<1>7. pod[p].todo \subseteq todo \cup {s}
    OBVIOUS
<1> HIDE DEF todo
<1>8. local \in Syncs
    BY <1>1, <1>6 DEF Syncs, Pcs
<1>9. local.pc = "publish" /\ local.skill = s /\ local.todo = todo
      /\ local.listed = pod[p].listed
    BY <1>1 DEF Syncs
<1>10. pod[p].listed \subseteq Skills
    BY <1>1 DEF Syncs
<1> HIDE DEF local
<1>11. ToldAfter(local)
    BY <1>1, <1>4, <1>7, <1>9, <1>10 DEF ToldAfter, SyncTold, Kept
<1>12. QED
    BY <1>3, <1>4, <1>5, <1>8, <1>11, WriteKept

LEMMA PublishSkillKept ==
    ASSUME SyncInv, NEW p \in Pods, PublishSkill(p)
    PROVE  SyncInv'
<1> DEFINE s     == pod[p].skill
           local == [pod[p] EXCEPT !.pc = "files", !.files = Files]
<1>1. pod[p] \in Syncs /\ pod[p].pc = "publish"
    BY DEF PublishSkill, SyncInv, TypeOK
<1>2. s \in Skills /\ row[Key(s)] # None
    BY <1>1 DEF SyncInv, SyncsTold, SyncTold
<1>3. UNCHANGED <<file, plugins>> /\ UNCHANGED market /\ missed' = missed \ {s}
    BY DEF PublishSkill
<1>4. Kept /\ RowsFit' /\ PublishedAfter(s)
    <2>1. publish_skill(Key(s)) /\ missed' \subseteq Skills
        BY <1>3 DEF PublishSkill, SyncInv, TypeOK
    <2>2. QED
        BY <1>2, <1>3, <2>1, PublishedRows
<1>5. Disturb(p, Onward(local))
    BY DEF PublishSkill
<1>6. local \in Syncs
    BY <1>1 DEF Syncs, Pcs
<1>7. local.pc = "files" /\ local.skill = s /\ local.todo = pod[p].todo
      /\ local.listed = pod[p].listed
    BY <1>1 DEF Syncs
<1> HIDE DEF local
<1>8. ListedTold(local)
    <2> DEFINE gone == {s}
    <2>1. \A t \in gone : PublishedAfter(t)
        BY <1>4
    <2>2. pod[p].skill \in gone
        OBVIOUS
    <2> HIDE DEF gone, s
    <2>3. QED
        BY <1>4, <1>7, <2>1, <2>2, ThroughWith
<1>9. Onward(local) \in Syncs /\ ToldAfter(Onward(local))
    BY <1>2, <1>6, <1>7, <1>8, OnwardIs
<1>10. QED
    BY <1>3, <1>4, <1>5, <1>9, WriteKept

(* A skill that failed, before or after the store had it.                  *)
LEMMA FailedIs ==
    ASSUME SyncInv, NEW p \in Pods, Kept, NEW s \in Skills, s \in missed',
           NEW todo \in SUBSET Skills, pod[p].todo \subseteq todo \cup {s},
           pod[p].pc = "publish" => pod[p].skill = s,
           NEW local, local = Spoil([pod[p] EXCEPT !.todo = todo])
    PROVE  NextSkill(local) \in Syncs /\ ToldAfter(NextSkill(local))
<1> DEFINE through == [pod[p] EXCEPT !.todo = todo]
<1>1. through \in Syncs /\ through.todo = todo /\ through.listed = pod[p].listed
    BY DEF SyncInv, TypeOK, Syncs
<1>1a. local = Spoil(through)
    OBVIOUS
<1> HIDE DEF through
<1>2. local \in Syncs
    BY <1>1, <1>1a, SpoilIs
<1>3. local.todo = todo /\ local.listed = pod[p].listed
    BY <1>1, <1>1a, SpoilIs DEF SameSync
<1> DEFINE gone == {s}
<1>4. /\ \A t \in gone : t \in missed'
      /\ pod[p].todo \subseteq local.todo \cup gone
      /\ pod[p].pc = "publish" => pod[p].skill \in gone
    BY <1>3
<1> HIDE DEF gone
<1>5. ListedTold(local)
    BY <1>3, <1>4, ThroughWith
<1>6. QED
    BY <1>2, <1>5, NextSkillIs

LEMMA SaveFailsKept ==
    ASSUME SyncInv, NEW p \in Pods, SkillFails(p), pod[p].pc = "skills"
    PROVE  SyncInv'
<1>1. PICK s \in pod[p].todo :
        /\ \/ UNCHANGED row
           \/ Named(p, s) # {} /\ save_skill(Key(s), TextOf(p, s))
        /\ missed' = missed \cup {s}
        /\ Disturb(p, NextSkill(Spoil([pod[p] EXCEPT !.todo = @ \ {s}])))
    BY DEF SkillFails
<1>2. UNCHANGED <<file, plugins>> /\ UNCHANGED market
    BY DEF SkillFails
<1>3. pod[p] \in Syncs
    BY DEF SyncInv, TypeOK
<1>4. s \in Skills
    BY <1>3 DEF Syncs
<1>5. missed' \subseteq Skills /\ missed \subseteq missed' /\ s \in missed'
    BY <1>1, <1>4 DEF SyncInv, TypeOK
<1>6. Kept /\ RowsFit'
    <2>1. CASE row' = row
        BY <1>5, <2>1, RowsStay
    <2>2. CASE Named(p, s) # {} /\ save_skill(Key(s), TextOf(p, s))
        BY <1>4, <1>5, <2>2, TextIs, SavedRows
    <2>3. QED
        BY <1>1, <2>1, <2>2
<1> DEFINE todo  == pod[p].todo \ {s}
           local == Spoil([pod[p] EXCEPT !.todo = todo])
<1>7. Disturb(p, NextSkill(local))
    BY <1>1
<1>8. todo \in SUBSET Skills /\ pod[p].todo \subseteq todo \cup {s}
    BY <1>3 DEF Syncs
<1> HIDE DEF todo
<1>9. local = Spoil([pod[p] EXCEPT !.todo = todo])
    OBVIOUS
<1> HIDE DEF local
<1>10. NextSkill(local) \in Syncs /\ ToldAfter(NextSkill(local))
    BY <1>4, <1>5, <1>6, <1>8, <1>9, FailedIs
<1>11. QED
    BY <1>2, <1>6, <1>7, <1>10, WriteKept

LEMMA PublishFailsKept ==
    ASSUME SyncInv, NEW p \in Pods, SkillFails(p), pod[p].pc = "publish"
    PROVE  SyncInv'
<1> DEFINE s     == pod[p].skill
           local == Spoil(pod[p])
<1>1. pod[p] \in Syncs
    BY DEF SyncInv, TypeOK
<1>2. s \in Skills /\ row[Key(s)] # None
    BY DEF SyncInv, SyncsTold, SyncTold
<1>3. /\ missed' = missed \cup {s}
      /\ UNCHANGED row \/ publish_skill(Key(s))
      /\ Disturb(p, NextSkill(local))
      /\ UNCHANGED <<file, plugins>> /\ UNCHANGED market
    BY DEF SkillFails
<1>4. missed' \subseteq Skills /\ missed \subseteq missed' /\ s \in missed'
    BY <1>2, <1>3 DEF SyncInv, TypeOK
<1>5. Kept /\ RowsFit'
    <2>1. CASE row' = row
        BY <1>4, <2>1, RowsStay
    <2>2. CASE publish_skill(Key(s))
        <3>1. missed \ {s} \subseteq missed'
            BY <1>4
        <3> HIDE DEF s
        <3>2. QED
            BY <1>2, <1>4, <2>2, <3>1, PublishedRows
    <2>3. QED
        BY <1>3, <2>1, <2>2
<1>6. local = Spoil([pod[p] EXCEPT !.todo = pod[p].todo])
    <2>1. pod[p] = [pod[p] EXCEPT !.todo = pod[p].todo]
        BY <1>1 DEF Syncs
    <2>2. QED
        BY <2>1
<1>7. pod[p].todo \in SUBSET Skills /\ pod[p].todo \subseteq pod[p].todo \cup {s}
    BY <1>1 DEF Syncs
<1>8. pod[p].skill = s
    OBVIOUS
<1> HIDE DEF local, s
<1>9. NextSkill(local) \in Syncs /\ ToldAfter(NextSkill(local))
    BY <1>2, <1>4, <1>5, <1>6, <1>7, <1>8, FailedIs
<1>10. QED
    BY <1>3, <1>5, <1>9, WriteKept

LEMMA SavedFiles ==
    ASSUME SyncInv, NEW p \in Pods, NEW f \in Files, pod[p].pc = "files", save_file(p, f)
    PROVE  file' \in [Keys -> [Files -> Texts \cup {Own, None}]]
<1> DEFINE k    == Key(pod[p].skill)
           text == FileText(p, pod[p].skill)
<1>1. pod[p].skill \in Skills
    BY DEF SyncInv, SyncsTold, SyncTold
<1>2. k \in Keys
    BY <1>1, KeyIs
<1>3. text \in Texts
    BY FileTextIs DEF save_file
<1>4. file' = [file EXCEPT ![k][f] = text]
    BY DEF save_file
<1> HIDE DEF k, text
<1>5. QED
    BY <1>2, <1>3, <1>4 DEF SyncInv, TypeOK

(* A step with a file f that the sync of p is at.                          *)
LEMMA FileKept ==
    ASSUME SyncInv, NEW p \in Pods, NEW f \in Files, SaveFile(p, f) \/ FileFails(p, f)
    PROVE  SyncInv'
<1>1. UNCHANGED <<row, plugins, missed>> /\ UNCHANGED market /\ pod[p].pc = "files"
    BY DEF SaveFile, FileFails
<1>2. StoreFits'
    <2>1. CASE file' = file
        BY <1>1, <2>1 DEF StoreFits, SyncInv, TypeOK
    <2>2. CASE save_file(p, f)
        BY <1>1, <2>2, SavedFiles DEF StoreFits, SyncInv, TypeOK
    <2>3. QED
        BY <2>1, <2>2 DEF SaveFile, FileFails
<1>3. Kept
    BY <1>1, RowsStay DEF SyncInv, TypeOK
<1> DEFINE saved == [pod[p] EXCEPT !.files = @ \ {f}]
<1>4. saved \in Syncs /\ SameSync(saved, pod[p])
    BY ThroughSaved DEF SyncInv, TypeOK
<1>5. Disturb(p, Onward(saved)) \/ Disturb(p, Onward(Spoil(saved)))
    BY DEF SaveFile, FileFails
<1> HIDE DEF saved
<1>6. Spoil(saved) \in Syncs /\ SameSync(Spoil(saved), pod[p])
    BY <1>4, SpoilIs DEF SameSync
<1>7. PICK local \in Syncs : SameSync(local, pod[p]) /\ Disturb(p, Onward(local))
    BY <1>4, <1>5, <1>6
<1>9. Onward(local) \in Syncs /\ ToldAfter(Onward(local))
    BY <1>1, <1>3, <1>7, FileDone
<1>10. PluginsListPublished'
    BY <1>1, <1>3, ListedStay
<1>11. QED
    BY <1>1, <1>2, <1>3, <1>7, <1>9, <1>10, DisturbGoes, MarketStays, SyncInvKept

-----------------------------------------------------------------------------
(* What a definition written at the end of a sync lists.                   *)
LEMMA DefinitionTold ==
    ASSUME SyncInv, NEW p \in Pods, pod[p].pc = "plugins", row' = row,
           NEW q \in Plugins, NEW skills \in SUBSET Skills, save_plugin(q, skills),
           missed' = missed \cup (skills \ pod[p].listed)
    PROVE  PluginsListPublished'
<1>1. plugins' = [plugins EXCEPT ![q] = skills]
    BY DEF save_plugin
<1>2. plugins \in [Plugins -> (SUBSET Skills) \cup {None}]
    BY DEF SyncInv, TypeOK
<1>3. \A t \in Skills : Published(t) => PublishedAfter(t)
    BY DEF Published, PublishedAfter
<1>4. ASSUME NEW t \in skills, t \notin missed'
      PROVE  PublishedAfter(t)
    <2>1. t \in pod[p].listed \ pod[p].todo
        BY <1>4 DEF SyncInv, SyncsTold, SyncTold
    <2>2. Published(t)
        BY <1>4, <2>1 DEF SyncInv, SyncsTold, SyncTold
    <2>3. QED
        BY <1>3, <2>2
<1>5. ASSUME NEW r \in Plugins, plugins'[r] # None, NEW t \in plugins'[r], t \notin missed'
      PROVE  PublishedAfter(t)
    <2>1. CASE r = q
        BY <1>1, <1>2, <1>4, <1>5, <2>1
    <2>2. CASE r # q
        <3>1. plugins'[r] = plugins[r]
            BY <1>1, <1>2, <2>2
        <3>2. t \in Skills /\ t \notin missed
            BY <1>2, <1>5, <3>1
        <3>3. Published(t)
            BY <1>5, <3>1, <3>2 DEF SyncInv, PluginsListPublished, Published
        <3>4. QED
            BY <1>3, <3>2, <3>3
    <2>3. QED
        BY <2>1, <2>2
<1>6. QED
    BY <1>5 DEF PluginsListPublished, PublishedAfter

LEMMA PluginKept ==
    ASSUME SyncInv, NEW p \in Pods, NEW q \in Plugins, SavePlugin(p, q) \/ PluginFails(p, q)
    PROVE  SyncInv'
<1> DEFINE skills == Of(q, pod[p].defs)
           left   == pod[p].defs \ skills
<1>1. UNCHANGED <<row, file>> /\ UNCHANGED market /\ pod[p].pc = "plugins"
    BY DEF SavePlugin, PluginFails
<1>2. pod[p] \in Syncs /\ SyncTold(pod[p])
    BY DEF SyncInv, TypeOK, SyncsTold
<1>3. skills \in SUBSET Skills /\ left \in SUBSET Skills
    BY <1>2 DEF Syncs, Of
<1>4. \/ UNCHANGED <<plugins, missed>>
      \/ save_plugin(q, skills) /\ missed' = missed \cup (skills \ pod[p].listed)
    BY DEF SavePlugin, PluginFails
<1> DEFINE saved == [pod[p] EXCEPT !.defs = left]
<1>5. Disturb(p, saved) \/ Disturb(p, Spoil(saved))
    BY DEF SavePlugin, PluginFails
<1> HIDE DEF skills, left
<1>6. missed' \subseteq Skills /\ missed \subseteq missed'
    BY <1>3, <1>4 DEF SyncInv, TypeOK
<1>7. Kept
    BY <1>1, <1>6, RowsStay
<1>8. plugins' \in [Plugins -> (SUBSET Skills) \cup {None}]
    BY <1>3, <1>4 DEF save_plugin, SyncInv, TypeOK
<1>9. StoreFits'
    BY <1>1, <1>6, <1>8 DEF StoreFits, SyncInv, TypeOK
<1>10. PluginsListPublished'
    <2>1. CASE UNCHANGED <<plugins, missed>>
        BY <1>7, <2>1, ListedStay
    <2>2. CASE save_plugin(q, skills) /\ missed' = missed \cup (skills \ pod[p].listed)
        BY <1>1, <1>3, <2>2, DefinitionTold
    <2>3. QED
        BY <1>4, <2>1, <2>2
<1>11. saved \in Syncs /\ SameSync(saved, pod[p])
    BY <1>2, <1>3 DEF Syncs, SameSync
<1> HIDE DEF saved
<1>1a. Spoil(saved) \in Syncs /\ SameSync(Spoil(saved), pod[p])
    BY <1>11, SpoilIs DEF SameSync
<1>12. PICK local \in Syncs : SameSync(local, pod[p]) /\ Disturb(p, local)
    BY <1>5, <1>11, <1>1a
<1>13. ToldAfter(local)
    BY <1>2, <1>7, <1>12, ToldOn
<1>14. QED
    BY <1>1, <1>7, <1>9, <1>10, <1>12, <1>13, DisturbGoes, MarketStays, SyncInvKept

-----------------------------------------------------------------------------
(* The specification.                                                      *)
LEMMA InitKept ==
    ASSUME SyncInit
    PROVE  SyncInv
<1>1. Nothing \in Releases /\ Nothing.skills = {}
    BY NothingIs
<1>2. release \in Releases /\ release.n # 0
    BY BoundAssumption DEF SyncInit, Releases
<1> DEFINE down == [Serving EXCEPT !.pc = "down"]
<1>3. down \in Syncs
    BY DEF Serving, Syncs, Pcs
<1>4. SyncTold(down)
    BY DEF Serving, SyncTold
<1>5. pod = [r \in Pods |-> down]
    BY DEF SyncInit
<1> HIDE DEF down
<1>6. TypeOK
    BY <1>1, <1>2, <1>3, <1>5 DEF SyncInit, TypeOK
<1>7. SnapshotsReal
    BY <1>1, <1>2 DEF SyncInit, SnapshotsReal
<1>8. SyncsTold
    BY <1>4, <1>5 DEF SyncsTold
<1>9. PluginsListPublished
    BY DEF SyncInit, PluginsListPublished
<1>10. QED
    BY <1>6, <1>7, <1>8, <1>9 DEF SyncInv

LEMMA SyncSkillsKept ==
    ASSUME SyncInv, NEW p \in Pods, SyncSkills(p)
    PROVE  SyncInv'
<1>1. CASE \E s \in Skills : SaveSkill(p, s)
    BY <1>1, SaveSkillKept
<1>2. CASE PublishSkill(p)
    BY <1>2, PublishSkillKept
<1>3. CASE SkillFails(p)
    <2>1. pod[p].pc \in {"skills", "publish"}
        BY <1>3 DEF SkillFails
    <2>2. QED
        BY <1>3, <2>1, SaveFailsKept, PublishFailsKept
<1>4. CASE \E f \in Files : SaveFile(p, f) \/ FileFails(p, f) \/ SkipFile(p, f)
    BY <1>4, FileKept, SkipFileKept
<1>5. QED
    BY <1>1, <1>2, <1>3, <1>4 DEF SyncSkills

LEMMA StopsKept ==
    ASSUME SyncInv, NEW p \in Pods, StartFails(p) \/ Crash(p)
    PROVE  SyncInv'
<1>1. Stop(p)
    BY DEF StartFails, Crash
<1>2. UNCHANGED missed
    BY <1>1 DEF Stop
<1>3. QED
    BY <1>1, <1>2, StopKept

LEMMA StepKept ==
    ASSUME SyncInv, NEW p \in Pods, Step(p)
    PROVE  SyncInv'
<1>1. CASE LookForPlugins(p) \/ Refresh(p)
    BY <1>1, LooksKept
<1>2. CASE StartFails(p)
    BY <1>2, StopsKept
<1>3. CASE ListSkills(p)
    BY <1>3, ListSkillsKept
<1>4. CASE LoaderFails(p)
    BY <1>4, BeginsKept
<1>5. CASE SyncSkills(p)
    BY <1>5, SyncSkillsKept
<1>6. CASE SyncPlugins(p)
    <2>1. CASE ListDefinitions(p)
        BY <2>1, ListDefinitionsKept
    <2>2. CASE DefinitionsFail(p) \/ SyncDone(p)
        BY <2>2, BeginsKept
    <2>3. CASE \E q \in Plugins : SavePlugin(p, q) \/ PluginFails(p, q)
        BY <2>3, PluginKept
    <2>4. QED
        BY <1>6, <2>1, <2>2, <2>3 DEF SyncPlugins
<1>7. QED
    BY <1>1, <1>2, <1>3, <1>4, <1>5, <1>6 DEF Step

LEMMA NextKept ==
    ASSUME SyncInv, [SyncNext]_syncVars
    PROVE  SyncInv'
<1>1. CASE UNCHANGED syncVars
    <2>1. UNCHANGED <<row, file, plugins, release, loaded, defs, pod, missed>>
        BY <1>1 DEF syncVars
    <2>2. TypeOK' /\ SnapshotsReal'
        BY <2>1 DEF SyncInv, TypeOK, SnapshotsReal
    <2>3. SyncsTold' /\ PluginsListPublished'
        BY <2>1 DEF SyncInv, SyncsTold, SyncTold, Published, PluginsListPublished
    <2>4. QED
        BY <2>2, <2>3 DEF SyncInv
<1>2. CASE Publish
    BY <1>2, PublishKept
<1>3. ASSUME NEW p \in Pods, Start(p) \/ BeginReload(p)
      PROVE  SyncInv'
    BY <1>3, BeginsKept
<1>4. ASSUME NEW p \in Pods, Reload(p)
      PROVE  SyncInv'
    BY <1>4, ReloadKept
<1>5. ASSUME NEW p \in Pods, Step(p)
      PROVE  SyncInv'
    BY <1>5, StepKept
<1>6. ASSUME NEW p \in Pods, Crash(p)
      PROVE  SyncInv'
    BY <1>6, StopsKept
<1>7. QED
    BY <1>1, <1>2, <1>3, <1>4, <1>5, <1>6 DEF SyncNext

LEMMA SyncInvHolds == SyncSpec => []SyncInv
<1>1. SyncInit => SyncInv
    BY InitKept
<1>2. SyncInv /\ [SyncNext]_syncVars => SyncInv'
    BY NextKept
<1>3. QED
    BY <1>1, <1>2, PTL DEF SyncSpec

(* No step takes back what is published.                                   *)
LEMMA RowsKept ==
    ASSUME SyncInv, NEW p \in Pods,
           (\E s \in Skills : SaveSkill(p, s)) \/ PublishSkill(p) \/ SkillFails(p)
    PROVE  \A t \in Skills : Published(t) => PublishedAfter(t)
<1>1. pod[p] \in Syncs /\ SyncTold(pod[p])
    BY DEF SyncInv, TypeOK, SyncsTold
<1>2. ASSUME NEW s \in Skills, NEW text \in Texts, save_skill(Key(s), text),
             missed' \in {missed, missed \cup {s}}
      PROVE  Kept
    <2>1. missed' \subseteq Skills /\ missed \subseteq missed'
        BY <1>2 DEF SyncInv, TypeOK
    <2>2. QED
        BY <1>2, <2>1, SavedRows
<1>3. ASSUME NEW s \in Skills, row[Key(s)] # None, publish_skill(Key(s)),
             missed' \in {missed \ {s}, missed \cup {s}}
      PROVE  Kept
    <2>1. missed' \subseteq Skills /\ missed \ {s} \subseteq missed'
        BY <1>3 DEF SyncInv, TypeOK
    <2>2. QED
        BY <1>3, <2>1, PublishedRows
<1>4. ASSUME NEW s \in Skills, SaveSkill(p, s)
      PROVE  Kept
    BY <1>2, <1>4, TextIs DEF SaveSkill
<1>5. CASE PublishSkill(p)
    <2>1. pod[p].pc = "publish" /\ publish_skill(Key(pod[p].skill))
          /\ missed' = missed \ {pod[p].skill}
        BY <1>5 DEF PublishSkill
    <2>2. Kept
        BY <1>1, <1>3, <2>1 DEF SyncTold
    <2>3. QED
        BY <2>2 DEF Kept
<1>6. CASE SkillFails(p) /\ pod[p].pc = "publish"
    <2>1. CASE row' = row
        BY <2>1 DEF Published, PublishedAfter
    <2>2. CASE publish_skill(Key(pod[p].skill))
        <3>1. Kept
            BY <1>1, <1>3, <1>6, <2>2 DEF SkillFails, SyncTold
        <3>2. QED
            BY <3>1 DEF Kept
    <2>3. QED
        BY <1>6, <2>1, <2>2 DEF SkillFails
<1>7. CASE SkillFails(p) /\ pod[p].pc = "skills"
    <2>1. PICK s \in pod[p].todo :
            /\ \/ UNCHANGED row
               \/ Named(p, s) # {} /\ save_skill(Key(s), TextOf(p, s))
            /\ missed' = missed \cup {s}
        BY <1>7 DEF SkillFails
    <2>2. s \in Skills
        BY <1>1 DEF Syncs
    <2>3. CASE row' = row
        BY <2>3 DEF Published, PublishedAfter
    <2>4. CASE Named(p, s) # {} /\ save_skill(Key(s), TextOf(p, s))
        <3>1. Kept
            BY <1>2, <2>1, <2>2, <2>4, TextIs
        <3>2. QED
            BY <3>1 DEF Kept
    <2>5. QED
        BY <2>1, <2>3, <2>4
<1>8. SkillFails(p) => pod[p].pc \in {"skills", "publish"}
    BY DEF SkillFails
<1>9. QED
    BY <1>4, <1>5, <1>6, <1>7, <1>8 DEF Kept

LEMMA PublishedKept ==
    ASSUME SyncInv, [SyncNext]_syncVars
    PROVE  \A t \in Skills : Published(t) => PublishedAfter(t)
<1>1. CASE row' = row
    BY <1>1 DEF Published, PublishedAfter
<1>2. CASE row' # row
    <2>1. PICK p \in Pods : Start(p) \/ BeginReload(p) \/ Reload(p) \/ Step(p) \/ Crash(p)
        BY <1>2 DEF SyncNext, syncVars, Publish, stored
    <2>2. Step(p)
        BY <1>2, <2>1 DEF Start, BeginReload, Reload, Crash, Stop, stored
    <2>3. SyncSkills(p)
        <3>1. ~SyncPlugins(p)
            BY <1>2 DEF SyncPlugins, ListDefinitions, DefinitionsFail, SyncDone, stored,
                        SavePlugin, PluginFails
        <3>2. QED
            BY <1>2, <2>2, <3>1 DEF Step, LookForPlugins, StartFails, Stop, Refresh,
                                    ListSkills, LoaderFails, stored
    <2>4. ~\E f \in Files : SaveFile(p, f) \/ FileFails(p, f) \/ SkipFile(p, f)
        BY <1>2 DEF SaveFile, FileFails, SkipFile, stored
    <2>5. QED
        BY <2>3, <2>4, RowsKept DEF SyncSkills
<1>3. QED
    BY <1>1, <1>2

-----------------------------------------------------------------------------
(* The store, the snapshots and every sync keep their types: no half done  *)
(* or failed sync leaves a skill without a state, or a text that is of no  *)
(* release.                                                                *)
THEOREM TypeCorrect == SyncSpec => []TypeOK
<1>1. SyncInv => TypeOK
    BY DEF SyncInv
<1>2. QED
    BY <1>1, SyncInvHolds, PTL

(* skill_sync.py:99: the definitions come last, so a store whose plugins   *)
(* make later starts skip the sync has the skills they list, published,    *)
(* but for those a sync missed.                                            *)
THEOREM ListedArePublished == SyncSpec => []PluginsListPublished
<1>1. SyncInv => PluginsListPublished
    BY DEF SyncInv
<1>2. QED
    BY <1>1, SyncInvHolds, PTL

(* skill_sync.py:111: no start, reload, failure or crash, of any number of *)
(* pods at once, takes back a published skill of the marketplace.          *)
THEOREM NoneUnpublished == SyncSpec => PublishedStays
<1>1. SyncInv /\ [SyncNext]_syncVars
        => [\A s \in Skills : row[Key(s)] # None /\ row[Key(s)].state = "published"
                => row'[Key(s)] # None /\ row'[Key(s)].state = "published"]_syncVars
    BY PublishedKept DEF Published, PublishedAfter
<1>2. QED
    BY <1>1, SyncInvHolds, PTL DEF SyncSpec, PublishedStays

-----------------------------------------------------------------------------
(* What an undisturbed sync has written                                    *)

(* The document of s is that of a snapshot, and its files are those of a   *)
(* directory, but for what was left out.                                   *)
TextIn(content, s) == [plugin |-> s[1], n |-> content.n]
RowIn(rows, snapshot, s) ==
    rows[Key(s)] = [state |-> "published", text |-> TextIn(snapshot, s)]
FileIn(files, disk, left, s, f) == <<s, f>> \in left \/ files[Key(s)][f] = TextIn(disk, s)
WrittenIn(rows, files, snapshot, disk, left, s) ==
    RowIn(rows, snapshot, s) /\ \A f \in Files : FileIn(files, disk, left, s, f)

SyncingPcs == {"skills", "publish", "files", "definitions", "plugins"}
Undisturbed(local) == local.pc \in SyncingPcs /\ local.clean = TRUE

(* A sync that has counted no error and was not disturbed works through    *)
(* the loader's snapshot and directory: place by place, what it has        *)
(* written of them.                                                        *)
CleanIn(rows, files, snapshot, disk, local) ==
    Undisturbed(local) =>
        /\ local.listed = snapshot.skills
        /\ local.todo \subseteq local.listed
        /\ local.pc \in {"publish", "files"} => local.skill \in local.listed
        /\ local.pc = "publish" =>
              rows[Key(local.skill)] # None
              /\ rows[Key(local.skill)].text = TextIn(snapshot, local.skill)
        /\ local.pc = "files" =>
              RowIn(rows, snapshot, local.skill)
              /\ \A f \in Files \ local.files :
                    FileIn(files, disk, local.skipped, local.skill, f)
        /\ \A s \in local.listed \ local.todo :
              \/ WrittenIn(rows, files, snapshot, disk, local.skipped, s)
              \/ local.pc \in {"publish", "files"} /\ s = local.skill

CleanInv == \A p \in Pods : CleanIn(row, file, loaded[p], defs[p], pod[p])

(* A snapshot has one skill of a name, so the loader finds the right one.  *)
LEMMA OwnText ==
    ASSUME SyncInv, NEW p \in Pods, NEW s \in loaded[p].skills
    PROVE  TextOf(p, s) = TextIn(loaded[p], s) /\ FileText(p, s) = TextIn(defs[p], s)
<1>1. \A t \in loaded[p].skills : t[2] = s[2] => t = s
    BY DEF SyncInv, TypeOK, Releases, Contents
<1>2. Named(p, s) = {s}
    BY <1>1 DEF Named
<1>3. Source(p, s) = s[1]
    BY <1>2 DEF Source
<1>4. QED
    BY <1>3 DEF TextOf, FileText, TextIn

LEMMA KeysApart ==
    ASSUME NEW s \in Skills, NEW t \in Skills, Key(s) = Key(t)
    PROVE  s = t
<1>1. PICK k \in Keys : s = <<k[1], k[2]>>
    BY DEF Skills
<1>2. PICK m \in Keys : t = <<m[1], m[2]>>
    BY DEF Skills
<1>3. QED
    BY <1>1, <1>2 DEF Key

LEMMA NextClean ==
    ASSUME NEW rows, NEW files, NEW snapshot, NEW disk, NEW local \in Syncs,
           local.listed = snapshot.skills, local.todo \subseteq local.listed,
           \A s \in local.listed \ local.todo : WrittenIn(rows, files, snapshot, disk, local.skipped, s)
    PROVE  CleanIn(rows, files, snapshot, disk, NextSkill(local))
<1> DEFINE pc   == IF local.todo = {} THEN "definitions" ELSE "skills"
           next == [local EXCEPT !.pc = pc, !.skill = None, !.files = {}]
<1>1. NextSkill(local) = next
    BY DEF NextSkill
<1>2. pc \notin {"publish", "files"}
    OBVIOUS
<1> HIDE DEF pc
<1>3. /\ next.pc = pc /\ next.listed = local.listed /\ next.todo = local.todo
      /\ next.skipped = local.skipped
    BY DEF Syncs
<1> HIDE DEF next
<1>4. QED
    BY <1>1, <1>2, <1>3 DEF CleanIn

LEMMA OnwardClean ==
    ASSUME NEW rows, NEW files, NEW snapshot, NEW disk, NEW local \in Syncs,
           local.pc = "files", local.listed = snapshot.skills,
           local.todo \subseteq local.listed, local.skill \in local.listed,
           RowIn(rows, snapshot, local.skill),
           \A f \in Files \ local.files : FileIn(files, disk, local.skipped, local.skill, f),
           \A s \in local.listed \ local.todo :
               WrittenIn(rows, files, snapshot, disk, local.skipped, s) \/ s = local.skill
    PROVE  CleanIn(rows, files, snapshot, disk, Onward(local))
<1>1. CASE local.files = {}
    <2>1. WrittenIn(rows, files, snapshot, disk, local.skipped, local.skill)
        BY <1>1 DEF WrittenIn
    <2>2. \A s \in local.listed \ local.todo : WrittenIn(rows, files, snapshot, disk, local.skipped, s)
        BY <2>1
    <2>3. CleanIn(rows, files, snapshot, disk, NextSkill(local))
        BY <2>2, NextClean
    <2>4. QED
        BY <1>1, <2>3 DEF Onward
<1>2. CASE local.files # {}
    <2>1. Onward(local) = local
        BY <1>2 DEF Onward
    <2>2. CleanIn(rows, files, snapshot, disk, local)
        BY DEF CleanIn
    <2>3. QED
        BY <2>1, <2>2
<1>3. QED
    BY <1>1, <1>2

(* A sync that has counted an error, or was disturbed, claims nothing.     *)
LEMMA NextDirty ==
    ASSUME NEW rows, NEW files, NEW snapshot, NEW disk, NEW local \in Syncs,
           local.clean = FALSE
    PROVE  /\ CleanIn(rows, files, snapshot, disk, NextSkill(local))
           /\ CleanIn(rows, files, snapshot, disk, Onward(local))
<1> DEFINE pc   == IF local.todo = {} THEN "definitions" ELSE "skills"
           next == [local EXCEPT !.pc = pc, !.skill = None, !.files = {}]
<1>1. NextSkill(local) = next
    BY DEF NextSkill
<1> HIDE DEF pc
<1>2. next.clean = local.clean
    BY DEF Syncs
<1> HIDE DEF next
<1>3. ~Undisturbed(next) /\ ~Undisturbed(local)
    BY <1>2 DEF Undisturbed
<1>4. CleanIn(rows, files, snapshot, disk, next) /\ CleanIn(rows, files, snapshot, disk, local)
    BY <1>3 DEF CleanIn
<1>5. QED
    BY <1>1, <1>4 DEF Onward

(* A pod that writes to the store disturbs the syncs of the others.        *)
LEMMA DisturbClean ==
    ASSUME SyncInv, NEW p \in Pods, NEW local, Disturb(p, local),
           CleanIn(row', file', loaded'[p], defs'[p], local)
    PROVE  CleanInv'
<1> SUFFICES ASSUME NEW r \in Pods
             PROVE  CleanIn(row', file', loaded'[r], defs'[r], pod'[r])
    BY DEF CleanInv
<1>1. CASE r = p
    BY <1>1 DEF Disturb
<1>2. CASE r # p
    <2>1. pod[r] \in Syncs /\ pod \in [Pods -> Syncs]
        BY DEF SyncInv, TypeOK
    <2>2. pod'[r] = Disturbed(r)
        BY <1>2 DEF Disturb
    <2>3. CASE Syncing(r)
        <3>1. pod'[r].clean = FALSE
            BY <2>1, <2>2, <2>3, SpoilIs DEF Disturbed
        <3>2. QED
            BY <3>1 DEF CleanIn, Undisturbed
    <2>4. CASE ~Syncing(r)
        <3>1. pod'[r].pc \notin SyncingPcs
            BY <2>2, <2>4 DEF Disturbed, Syncing, SyncingPcs
        <3>2. QED
            BY <3>1 DEF CleanIn, Undisturbed
    <2>5. QED
        BY <2>3, <2>4
<1>3. QED
    BY <1>1, <1>2

(* The loaders of other pods.                                              *)
OthersStay(p) ==
    \A r \in Pods \ {p} : loaded'[r] = loaded[r] /\ defs'[r] = defs[r]

(* A pod that moves and writes nothing leaves the other syncs alone.       *)
LEMMA QuietClean ==
    ASSUME SyncInv, CleanInv, NEW p \in Pods, NEW local, pod' = [pod EXCEPT ![p] = local],
           UNCHANGED <<row, file>>, OthersStay(p),
           CleanIn(row, file, loaded'[p], defs'[p], local)
    PROVE  CleanInv'
<1> SUFFICES ASSUME NEW r \in Pods
             PROVE  CleanIn(row, file, loaded'[r], defs'[r], pod'[r])
    BY DEF CleanInv
<1>1. pod \in [Pods -> Syncs]
    BY DEF SyncInv, TypeOK
<1>2. CASE r = p
    BY <1>1, <1>2
<1>3. CASE r # p
    <2>1. pod'[r] = pod[r] /\ loaded'[r] = loaded[r] /\ defs'[r] = defs[r]
        BY <1>1, <1>3 DEF OthersStay
    <2>2. QED
        BY <2>1 DEF CleanInv
<1>4. QED
    BY <1>2, <1>3

(* A pod that is at no sync, or whose sync is not clean, claims nothing.   *)
LEMMA IdleClean ==
    ASSUME NEW rows, NEW files, NEW snapshot, NEW disk, NEW local, ~Undisturbed(local)
    PROVE  CleanIn(rows, files, snapshot, disk, local)
BY DEF CleanIn

LEMMA BeginClean ==
    ASSUME SyncInv, CleanInv, NEW p \in Pods, UNCHANGED <<row, file>>,
           OthersStay(p),
           NEW pc \in Pcs \ SyncingPcs, Begin(p, pc)
    PROVE  CleanInv'
<1> DEFINE local == [Serving EXCEPT !.pc = pc]
<1>1. local.pc = pc
    BY DEF Serving
<1>2. pod' = [pod EXCEPT ![p] = local]
    BY DEF Begin
<1> HIDE DEF local
<1>3. ~Undisturbed(local)
    BY <1>1 DEF Undisturbed
<1>4. QED
    BY <1>2, <1>3, IdleClean, QuietClean

LEMMA MoveClean ==
    ASSUME SyncInv, CleanInv, NEW p \in Pods, UNCHANGED <<row, file>>,
           OthersStay(p),
           NEW pc \in Pcs \ SyncingPcs, Move(p, pc)
    PROVE  CleanInv'
<1> DEFINE local == [pod[p] EXCEPT !.pc = pc]
<1>1. pod[p] \in Syncs
    BY DEF SyncInv, TypeOK
<1>2. local.pc = pc
    BY <1>1 DEF Syncs
<1>3. pod' = [pod EXCEPT ![p] = local]
    BY DEF Move
<1> HIDE DEF local
<1>4. ~Undisturbed(local)
    BY <1>2 DEF Undisturbed
<1>5. QED
    BY <1>3, <1>4, IdleClean, QuietClean

LEMMA OthersLoaded ==
    ASSUME SyncInv, NEW p \in Pods, NEW r,
           loaded' \in {loaded, [loaded EXCEPT ![p] = r]},
           defs' \in {defs, [defs EXCEPT ![p] = r]}
    PROVE  OthersStay(p)
BY DEF OthersStay, SyncInv, TypeOK

LEMMA IdlesClean ==
    ASSUME SyncInv, CleanInv, NEW p \in Pods,
           \/ Start(p) \/ BeginReload(p) \/ LoaderFails(p)
           \/ DefinitionsFail(p) \/ SyncDone(p)
           \/ LookForPlugins(p) \/ Refresh(p) \/ StartFails(p) \/ Crash(p)
    PROVE  CleanInv'
<1>1. UNCHANGED <<row, file>>
    BY DEF Start, BeginReload, LoaderFails, DefinitionsFail, SyncDone, LookForPlugins,
           Refresh, StartFails, Crash, Stop, stored
<1>2. \E r : /\ loaded' \in {loaded, [loaded EXCEPT ![p] = r]}
             /\ defs' \in {defs, [defs EXCEPT ![p] = r]}
    BY DEF Start, BeginReload, LoaderFails, DefinitionsFail, SyncDone, LookForPlugins,
           Refresh, Build, StartFails, Crash, Stop, market
<1>3. OthersStay(p)
    BY <1>2, OthersLoaded
<1>4. \E pc \in Pcs \ SyncingPcs : Begin(p, pc) \/ Move(p, pc)
    <2>1. {"down", "serving", "look", "refresh", "list"} \subseteq Pcs \ SyncingPcs
        BY DEF Pcs, SyncingPcs
    <2>2. \E pc \in {"down", "serving", "look", "refresh", "list"} :
              Begin(p, pc) \/ Move(p, pc)
        BY DEF Start, BeginReload, LoaderFails, DefinitionsFail, SyncDone, LookForPlugins,
               Refresh, StartFails, Crash, Stop
    <2>3. QED
        BY <2>1, <2>2
<1>5. QED
    BY <1>1, <1>3, <1>4, BeginClean, MoveClean

(* A reload under way of a sync disturbs it.                               *)
LEMMA ReloadClean ==
    ASSUME SyncInv, CleanInv, NEW p \in Pods, Reload(p)
    PROVE  CleanInv'
<1> DEFINE local == Disturbed(p)
<1>1. pod[p] \in Syncs
    BY DEF SyncInv, TypeOK
<1>2. pod' = [pod EXCEPT ![p] = local]
    BY DEF Reload
<1>5. ~Undisturbed(local)
    BY <1>1, SpoilIs DEF Disturbed, Undisturbed, Syncing, SyncingPcs
<1> HIDE DEF local
<1>6. UNCHANGED <<row, file>>
    BY DEF Reload, stored
<1>7. OthersStay(p)
    BY OthersLoaded DEF Reload, Build
<1>8. QED
    BY <1>2, <1>5, <1>6, <1>7, IdleClean, QuietClean

LEMMA ListSkillsClean ==
    ASSUME SyncInv, CleanInv, NEW p \in Pods, ListSkills(p)
    PROVE  CleanInv'
<1> DEFINE skills == loaded'[p].skills
           local  == [Serving EXCEPT !.listed = skills, !.todo = skills]
<1>1. UNCHANGED <<row, file>> /\ pod' = [pod EXCEPT ![p] = NextSkill(local)]
    BY DEF ListSkills, stored
<1>2. OthersStay(p)
    BY OthersLoaded DEF ListSkills, Consult, Build
<1>3. MarketFits'
    <2>1. CASE loaded[p] = Nothing
        BY <2>1, MarketTaken DEF ListSkills, Consult, Build
    <2>2. CASE loaded[p] # Nothing
        BY <2>2, MarketStays DEF ListSkills, Consult, market
    <2>3. QED
        BY <2>1, <2>2
<1>4. skills \subseteq Skills
    BY <1>3 DEF MarketFits, Releases, Contents
<1>5. local \in Syncs
    BY <1>4 DEF Serving, Syncs, Pcs
<1>6. local.listed = skills /\ local.todo = skills
    BY DEF Serving
<1> HIDE DEF local
<1>7. CleanIn(row, file, loaded'[p], defs'[p], NextSkill(local))
    BY <1>5, <1>6, NextClean
<1>8. QED
    BY <1>1, <1>2, <1>7, QuietClean

(* Skill s is being written by p: what p wrote of the others stays.        *)
LEMMA SavedApart ==
    ASSUME SyncInv, NEW s \in Skills, NEW new, row' = [row EXCEPT ![Key(s)] = new]
    PROVE  /\ row'[Key(s)] = new
           /\ \A t \in Skills \ {s} : row'[Key(t)] = row[Key(t)]
<1>1. row \in [Keys -> Rows \cup {None}]
    BY DEF SyncInv, TypeOK
<1>2. \A t \in Skills : Key(t) \in Keys
    BY KeyIs
<1>3. \A t \in Skills \ {s} : Key(t) # Key(s)
    BY KeysApart
<1>4. QED
    BY <1>1, <1>2, <1>3

LEMMA SaveSkillClean ==
    ASSUME SyncInv, CleanInv, NEW p \in Pods, NEW s \in Skills, SaveSkill(p, s)
    PROVE  CleanInv'
<1> DEFINE todo  == pod[p].todo \ {s}
           local == [pod[p] EXCEPT !.pc = "publish", !.skill = s, !.todo = todo]
           state == IF row[Key(s)] = None THEN "draft" ELSE row[Key(s)].state
           new   == [state |-> state, text |-> TextOf(p, s)]
<1>1. pod[p] \in Syncs /\ pod[p].pc = "skills" /\ s \in pod[p].todo
    BY DEF SaveSkill, SyncInv, TypeOK
<1>2. file' = file /\ UNCHANGED <<loaded, defs>> /\ Disturb(p, local)
    BY DEF SaveSkill, market
<1>3. row' = [row EXCEPT ![Key(s)] = new] /\ new.text = TextOf(p, s)
    BY DEF SaveSkill, save_skill
<1> HIDE DEF new
<1>4. row'[Key(s)] = new /\ \A t \in Skills \ {s} : row'[Key(t)] = row[Key(t)]
    BY <1>3, SavedApart
<1>5. row'[Key(s)] # None
    <2>1. TextOf(p, s) \in Texts /\ save_skill(Key(s), TextOf(p, s))
        BY TextIs DEF SaveSkill
    <2>2. missed' \subseteq Skills /\ missed \subseteq missed'
        BY DEF SaveSkill, SyncInv, TypeOK
    <2>3. QED
        BY <2>1, <2>2, SavedRows
<1>6. row'[Key(s)].text = TextOf(p, s)
    BY <1>3, <1>4
<1>7. /\ local.pc = "publish" /\ local.skill = s /\ local.todo = todo
      /\ local.listed = pod[p].listed
      /\ local.clean = pod[p].clean /\ local.skipped = pod[p].skipped
    BY <1>1 DEF Syncs
<1> HIDE DEF local
<1>8. ASSUME Undisturbed(local)
      PROVE  /\ local.listed = loaded[p].skills
             /\ local.todo \subseteq local.listed
             /\ s \in local.listed
             /\ row'[Key(s)].text = TextIn(loaded[p], s)
             /\ \A t \in local.listed \ local.todo :
                    WrittenIn(row', file, loaded[p], defs[p], pod[p].skipped, t) \/ t = s
    <2>1. Undisturbed(pod[p])
        BY <1>1, <1>7, <1>8 DEF Undisturbed, SyncingPcs
    <2>2. CleanIn(row, file, loaded[p], defs[p], pod[p])
        BY DEF CleanInv
    <2>3. /\ pod[p].listed = loaded[p].skills /\ pod[p].todo \subseteq pod[p].listed
          /\ \A t \in pod[p].listed \ pod[p].todo : WrittenIn(row, file, loaded[p], defs[p], pod[p].skipped, t)
        BY <1>1, <2>1, <2>2 DEF CleanIn
    <2>4. s \in loaded[p].skills
        BY <1>1, <2>3
    <2>5. TextOf(p, s) = TextIn(loaded[p], s)
        BY <2>4, OwnText
    <2>6. pod[p].listed \subseteq Skills
        BY <1>1 DEF Syncs
    <2>7. \A t \in pod[p].listed \ pod[p].todo :
              WrittenIn(row', file, loaded[p], defs[p], pod[p].skipped, t) \/ t = s
        BY <1>4, <2>3, <2>6 DEF WrittenIn, RowIn
    <2>8. QED
        BY <1>1, <1>6, <1>7, <2>3, <2>5, <2>7
<1>9. CleanIn(row', file', loaded'[p], defs'[p], local)
    BY <1>2, <1>5, <1>7, <1>8 DEF CleanIn
<1>10. QED
    BY <1>2, <1>9, DisturbClean

LEMMA PublishSkillClean ==
    ASSUME SyncInv, CleanInv, NEW p \in Pods, PublishSkill(p)
    PROVE  CleanInv'
<1> DEFINE s     == pod[p].skill
           new   == [row[Key(s)] EXCEPT !.state = "published"]
           local == [pod[p] EXCEPT !.pc = "files", !.files = Files]
<1>1. pod[p] \in Syncs /\ pod[p].pc = "publish"
    BY DEF PublishSkill, SyncInv, TypeOK
<1>2. s \in Skills /\ row[Key(s)] # None
    BY <1>1 DEF SyncInv, SyncsTold, SyncTold
<1>3. file' = file /\ UNCHANGED <<loaded, defs>> /\ Disturb(p, Onward(local))
    BY DEF PublishSkill, market
<1>4. row' = [row EXCEPT ![Key(s)] = new]
    BY DEF PublishSkill, publish_skill
<1>5. row[Key(s)] \in Rows
    BY <1>2, KeyIs DEF SyncInv, TypeOK
<1>6. new = [state |-> "published", text |-> row[Key(s)].text]
    BY <1>5 DEF Rows
<1> HIDE DEF new
<1>7. local \in Syncs
    BY <1>1 DEF Syncs, Pcs
<1>8. /\ local.pc = "files" /\ local.skill = s /\ local.files = Files
      /\ local.todo = pod[p].todo /\ local.listed = pod[p].listed
      /\ local.clean = pod[p].clean /\ local.skipped = pod[p].skipped
    BY <1>1 DEF Syncs
<1> HIDE DEF local
<1>9. CASE Undisturbed(pod[p])
    <2>1. CleanIn(row, file, loaded[p], defs[p], pod[p])
        BY DEF CleanInv
    <2>2. /\ pod[p].listed = loaded[p].skills /\ pod[p].todo \subseteq pod[p].listed
          /\ s \in pod[p].listed /\ row[Key(s)].text = TextIn(loaded[p], s)
          /\ \A t \in pod[p].listed \ pod[p].todo :
                 WrittenIn(row, file, loaded[p], defs[p], pod[p].skipped, t) \/ t = s
        BY <1>1, <1>9, <2>1 DEF CleanIn
    <2>3. pod[p].listed \subseteq Skills
        BY <1>1 DEF Syncs
    <2> HIDE DEF s
    <2>4. row'[Key(s)] = new /\ \A t \in Skills \ {s} : row'[Key(t)] = row[Key(t)]
        BY <1>2, <1>4, SavedApart
    <2>5. RowIn(row', loaded[p], s)
        BY <1>6, <2>2, <2>4 DEF RowIn
    <2>6. \A t \in local.listed \ local.todo : WrittenIn(row', file, loaded[p], defs[p], pod[p].skipped, t) \/ t = s
        BY <1>8, <2>2, <2>3, <2>4 DEF WrittenIn, RowIn
    <2>7. \A f \in Files \ local.files : FileIn(file, defs[p], local.skipped, s, f)
        BY <1>8
    <2>8. CleanIn(row', file, loaded[p], defs[p], Onward(local))
        BY <1>7, <1>8, <2>2, <2>5, <2>6, <2>7, OnwardClean
    <2>9. QED
        BY <1>3, <2>8, DisturbClean
<1>10. CASE ~Undisturbed(pod[p])
    <2>1. pod[p].clean = FALSE
        BY <1>1, <1>10 DEF Undisturbed, SyncingPcs, Syncs
    <2>2. CleanIn(row', file', loaded'[p], defs'[p], Onward(local))
        BY <1>7, <1>8, <2>1, NextDirty
    <2>3. QED
        BY <1>3, <2>2, DisturbClean
<1>11. QED
    BY <1>9, <1>10

LEMMA SkillFailsClean ==
    ASSUME SyncInv, CleanInv, NEW p \in Pods, SkillFails(p)
    PROVE  CleanInv'
<1>1. pod[p] \in Syncs
    BY DEF SyncInv, TypeOK
<1>2. PICK todo \in SUBSET Skills :
        Disturb(p, NextSkill(Spoil([pod[p] EXCEPT !.todo = todo])))
    <2>1. CASE pod[p].pc = "skills"
        <3>1. PICK s \in pod[p].todo :
                Disturb(p, NextSkill(Spoil([pod[p] EXCEPT !.todo = @ \ {s}])))
            BY <2>1 DEF SkillFails
        <3>2. pod[p].todo \ {s} \in SUBSET Skills
            BY <1>1 DEF Syncs
        <3>3. QED
            BY <3>1, <3>2
    <2>2. CASE pod[p].pc = "publish"
        <3>1. Disturb(p, NextSkill(Spoil(pod[p])))
            BY <2>2 DEF SkillFails
        <3>2. pod[p] = [pod[p] EXCEPT !.todo = pod[p].todo] /\ pod[p].todo \in SUBSET Skills
            BY <1>1 DEF Syncs
        <3>3. QED
            BY <3>1, <3>2
    <2>3. QED
        BY <2>1, <2>2 DEF SkillFails
<1> DEFINE through == [pod[p] EXCEPT !.todo = todo]
           local   == Spoil(through)
<1>3. Disturb(p, NextSkill(local))
    BY <1>2
<1>4. through \in Syncs
    BY <1>1, <1>2 DEF Syncs
<1> HIDE DEF through
<1>5. local \in Syncs /\ local.clean = FALSE
    BY <1>4, SpoilIs
<1> HIDE DEF local
<1>6. CleanIn(row', file', loaded'[p], defs'[p], NextSkill(local))
    BY <1>5, NextDirty
<1>7. QED
    BY <1>3, <1>6, DisturbClean

(* One more file of the skill a clean sync is at.                          *)
LEMMA SaveFileClean ==
    ASSUME SyncInv, CleanInv, NEW p \in Pods, NEW f \in Files, SaveFile(p, f)
    PROVE  CleanInv'
<1> DEFINE s     == pod[p].skill
           files == pod[p].files \ {f}
           local == [pod[p] EXCEPT !.files = files]
           text  == FileText(p, s)
<1>1. pod[p] \in Syncs /\ pod[p].pc = "files"
    BY DEF SaveFile, SyncInv, TypeOK
<1>2. s \in Skills
    BY <1>1 DEF SyncInv, SyncsTold, SyncTold
<1>3. row' = row /\ UNCHANGED <<loaded, defs>> /\ Disturb(p, Onward(local))
    BY DEF SaveFile, market
<1>4. file' = [file EXCEPT ![Key(s)][f] = text]
    BY DEF SaveFile, save_file
<1>5. files \in SUBSET Files
    BY <1>1 DEF Syncs
<1> HIDE DEF files
<1>6. local \in Syncs
    BY <1>1, <1>5 DEF Syncs
<1>7. /\ local.pc = "files" /\ local.skill = s /\ local.files = files
      /\ local.todo = pod[p].todo /\ local.listed = pod[p].listed
      /\ local.clean = pod[p].clean /\ local.skipped = pod[p].skipped
    BY <1>1 DEF Syncs
<1> HIDE DEF local
<1>8. CASE Undisturbed(pod[p])
    <2>1. CleanIn(row, file, loaded[p], defs[p], pod[p])
        BY DEF CleanInv
    <2>2. /\ pod[p].listed = loaded[p].skills /\ pod[p].todo \subseteq pod[p].listed
          /\ s \in pod[p].listed /\ RowIn(row, loaded[p], s)
          /\ \A g \in Files \ pod[p].files : FileIn(file, defs[p], pod[p].skipped, s, g)
          /\ \A t \in pod[p].listed \ pod[p].todo :
                 WrittenIn(row, file, loaded[p], defs[p], pod[p].skipped, t) \/ t = s
        BY <1>1, <1>8, <2>1 DEF CleanIn
    <2>3. pod[p].listed \subseteq Skills
        BY <1>1 DEF Syncs
    <2>4. text = TextIn(defs[p], s)
        BY <2>2, OwnText
    <2> HIDE DEF s, text
    <2>5. file \in [Keys -> [Files -> Texts \cup {Own, None}]]
        BY DEF SyncInv, TypeOK
    <2>6. Key(s) \in Keys
        BY <1>2, KeyIs
    <2>7. file'[Key(s)][f] = text /\ \A g \in Files \ {f} : file'[Key(s)][g] = file[Key(s)][g]
        BY <1>4, <2>5, <2>6
    <2>8. \A g \in Files \ local.files : FileIn(file', defs[p], local.skipped, s, g)
        BY <1>7, <2>2, <2>4, <2>7 DEF FileIn, files
    <2>9. \A t \in Skills \ {s} : file'[Key(t)] = file[Key(t)]
        <3>1. \A t \in Skills \ {s} : Key(t) \in Keys /\ Key(t) # Key(s)
            BY <1>2, KeyIs, KeysApart
        <3>2. QED
            BY <1>4, <2>5, <3>1
    <2>10. \A t \in local.listed \ local.todo : WrittenIn(row, file', loaded[p], defs[p], pod[p].skipped, t) \/ t = s
        BY <1>7, <2>2, <2>3, <2>9 DEF WrittenIn, FileIn
    <2>11. CleanIn(row, file', loaded[p], defs[p], Onward(local))
        BY <1>6, <1>7, <2>2, <2>8, <2>10, OnwardClean
    <2>12. QED
        BY <1>3, <2>11, DisturbClean
<1>9. CASE ~Undisturbed(pod[p])
    <2>1. pod[p].clean = FALSE
        BY <1>1, <1>9 DEF Undisturbed, SyncingPcs, Syncs
    <2>2. CleanIn(row', file', loaded'[p], defs'[p], Onward(local))
        BY <1>6, <1>7, <2>1, NextDirty
    <2>3. QED
        BY <1>3, <2>2, DisturbClean
<1>10. QED
    BY <1>8, <1>9

LEMMA FileFailsClean ==
    ASSUME SyncInv, CleanInv, NEW p \in Pods, NEW f \in Files, FileFails(p, f)
    PROVE  CleanInv'
<1> DEFINE through == [pod[p] EXCEPT !.files = @ \ {f}]
           local   == Spoil(through)
<1>1. Disturb(p, Onward(local))
    BY DEF FileFails
<1>2. through \in Syncs
    BY ThroughSaved DEF SyncInv, TypeOK
<1> HIDE DEF through
<1>3. local \in Syncs /\ local.clean = FALSE
    BY <1>2, SpoilIs
<1> HIDE DEF local
<1>4. CleanIn(row', file', loaded'[p], defs'[p], Onward(local))
    BY <1>3, NextDirty
<1>5. QED
    BY <1>1, <1>4, DisturbClean

(* A file left out without an error is told of.                            *)
LEMMA SkipFileClean ==
    ASSUME SyncInv, CleanInv, NEW p \in Pods, NEW f \in Files, SkipFile(p, f)
    PROVE  CleanInv'
<1> DEFINE s       == pod[p].skill
           files   == pod[p].files \ {f}
           skipped == IF pod[p].clean THEN pod[p].skipped \cup {<<s, f>>}
                                      ELSE pod[p].skipped
           local   == [pod[p] EXCEPT !.files = files, !.skipped = skipped]
<1>1. pod[p] \in Syncs /\ pod[p].pc = "files" /\ s \in Skills
    BY DEF SkipFile, SyncInv, TypeOK, SyncsTold, SyncTold
<1>2. pod' = [pod EXCEPT ![p] = Onward(local)]
    BY DEF SkipFile
<1>3. UNCHANGED <<row, file>> /\ UNCHANGED <<loaded, defs>>
    BY DEF SkipFile, stored, market
<1>4. skipped \in SUBSET (Skills \X Files)
    BY <1>1 DEF Syncs
<1>5. local \in Syncs
    BY <1>1, <1>4, ThroughFile
<1>6. pod[p].skipped \subseteq skipped /\ (pod[p].clean = TRUE => <<s, f>> \in skipped)
    OBVIOUS
<1> HIDE DEF files, skipped
<1>7. /\ local.pc = "files" /\ local.skill = s /\ local.files = files
      /\ local.todo = pod[p].todo /\ local.listed = pod[p].listed
      /\ local.clean = pod[p].clean /\ local.skipped = skipped
    BY <1>1 DEF Syncs
<1> HIDE DEF local
<1>8. CASE Undisturbed(pod[p])
    <2>1. CleanIn(row, file, loaded[p], defs[p], pod[p])
        BY DEF CleanInv
    <2>2. /\ pod[p].listed = loaded[p].skills /\ pod[p].todo \subseteq pod[p].listed
          /\ s \in pod[p].listed /\ RowIn(row, loaded[p], s)
          /\ \A g \in Files \ pod[p].files : FileIn(file, defs[p], pod[p].skipped, s, g)
          /\ \A t \in pod[p].listed \ pod[p].todo :
                 WrittenIn(row, file, loaded[p], defs[p], pod[p].skipped, t) \/ t = s
        BY <1>1, <1>8, <2>1 DEF CleanIn
    <2>3. <<s, f>> \in skipped
        BY <1>6, <1>8 DEF Undisturbed
    <2> HIDE DEF s
    <2>4. \A g \in Files \ local.files : FileIn(file, defs[p], local.skipped, s, g)
        BY <1>6, <1>7, <2>2, <2>3 DEF FileIn, files
    <2>5. \A t \in local.listed \ local.todo :
              WrittenIn(row, file, loaded[p], defs[p], local.skipped, t) \/ t = s
        BY <1>6, <1>7, <2>2 DEF WrittenIn, FileIn
    <2>6. CleanIn(row, file, loaded[p], defs[p], Onward(local))
        BY <1>5, <1>7, <2>2, <2>4, <2>5, OnwardClean
    <2>7. QED
        BY <1>2, <1>3, <2>6, QuietClean DEF OthersStay
<1>9. CASE ~Undisturbed(pod[p])
    <2>1. pod[p].clean = FALSE
        BY <1>1, <1>9 DEF Undisturbed, SyncingPcs, Syncs
    <2>2. CleanIn(row, file, loaded[p], defs[p], Onward(local))
        BY <1>5, <1>7, <2>1, NextDirty
    <2>3. QED
        BY <1>2, <1>3, <2>2, QuietClean DEF OthersStay
<1>10. QED
    BY <1>8, <1>9

(* At the plugins every skill is done; the skills are not written again.   *)
LEMMA ThroughClean ==
    ASSUME NEW rows, NEW files, NEW snapshot, NEW disk, NEW a, NEW b,
           a.pc \in {"definitions", "plugins"}, b.pc = "plugins",
           b.listed = a.listed, b.todo = a.todo,
           Undisturbed(b) => Undisturbed(a) /\ b.skipped = a.skipped,
           CleanIn(rows, files, snapshot, disk, a)
    PROVE  CleanIn(rows, files, snapshot, disk, b)
BY DEF CleanIn

LEMMA ListDefinitionsClean ==
    ASSUME SyncInv, CleanInv, NEW p \in Pods, ListDefinitions(p)
    PROVE  CleanInv'
<1> DEFINE skills == defs[p].skills
           local  == [pod[p] EXCEPT !.pc = "plugins", !.defs = skills]
<1>1. UNCHANGED <<row, file>> /\ UNCHANGED <<loaded, defs>>
    BY DEF ListDefinitions, stored, market
<1>2. pod[p] \in Syncs /\ pod[p].pc = "definitions"
    BY DEF ListDefinitions, SyncInv, TypeOK
<1>3. pod' = [pod EXCEPT ![p] = local]
    BY DEF ListDefinitions
<1> HIDE DEF skills
<1>4. /\ local.pc = "plugins" /\ local.listed = pod[p].listed /\ local.todo = pod[p].todo
      /\ local.clean = pod[p].clean /\ local.skipped = pod[p].skipped
    BY <1>2 DEF Syncs
<1> HIDE DEF local
<1>5. Undisturbed(local) => Undisturbed(pod[p]) /\ local.skipped = pod[p].skipped
    BY <1>2, <1>4 DEF Undisturbed, SyncingPcs
<1>6. CleanIn(row, file, loaded[p], defs[p], local)
    BY <1>2, <1>4, <1>5, ThroughClean DEF CleanInv
<1>7. QED
    BY <1>1, <1>3, <1>6, QuietClean DEF OthersStay

LEMMA PluginClean ==
    ASSUME SyncInv, CleanInv, NEW p \in Pods, NEW q \in Plugins,
           SavePlugin(p, q) \/ PluginFails(p, q)
    PROVE  CleanInv'
<1> DEFINE left == pod[p].defs \ Of(q, pod[p].defs)
<1>1. UNCHANGED <<row, file>> /\ UNCHANGED <<loaded, defs>> /\ pod[p].pc = "plugins"
    BY DEF SavePlugin, PluginFails, market
<1>2. pod[p] \in Syncs
    BY DEF SyncInv, TypeOK
<1> DEFINE saved == [pod[p] EXCEPT !.defs = left]
<1>3. Disturb(p, saved) \/ Disturb(p, Spoil(saved))
    BY DEF SavePlugin, PluginFails
<1>4. left \in SUBSET Skills
    BY <1>2 DEF Syncs
<1> HIDE DEF left
<1>5. /\ saved.pc = "plugins" /\ saved.listed = pod[p].listed /\ saved.todo = pod[p].todo
      /\ saved.clean = pod[p].clean /\ saved.skipped = pod[p].skipped /\ saved \in Syncs
    BY <1>1, <1>2, <1>4 DEF Syncs
<1> HIDE DEF saved
<1>6. CleanIn(row, file, loaded[p], defs[p], saved)
    <2>1. Undisturbed(saved) => Undisturbed(pod[p]) /\ saved.skipped = pod[p].skipped
        BY <1>1, <1>5 DEF Undisturbed, SyncingPcs
    <2>2. QED
        BY <1>1, <1>5, <2>1, ThroughClean DEF CleanInv
<1>7. CleanIn(row, file, loaded[p], defs[p], Spoil(saved))
    <2>1. ~Undisturbed(Spoil(saved))
        BY <1>5, SpoilIs DEF Undisturbed
    <2>2. QED
        BY <2>1, IdleClean
<1>8. PICK local : CleanIn(row, file, loaded[p], defs[p], local) /\ Disturb(p, local)
    BY <1>3, <1>6, <1>7
<1>9. QED
    BY <1>1, <1>8, DisturbClean

LEMMA CleanStays ==
    ASSUME SyncInv, CleanInv, UNCHANGED <<row, file, loaded, defs, pod>>
    PROVE  CleanInv'
BY DEF CleanInv

LEMMA NextKeepsClean ==
    ASSUME SyncInv, CleanInv, [SyncNext]_syncVars
    PROVE  CleanInv'
<1>1. CASE Publish
    BY <1>1, CleanStays DEF Publish, stored
<1>2. ASSUME NEW p \in Pods, Start(p) \/ BeginReload(p) \/ Reload(p) \/ Crash(p)
      PROVE  CleanInv'
    BY <1>2, IdlesClean, ReloadClean
<1>3. ASSUME NEW p \in Pods, SyncSkills(p)
      PROVE  CleanInv'
    BY <1>3, SaveSkillClean, PublishSkillClean, SkillFailsClean, SaveFileClean,
       FileFailsClean, SkipFileClean DEF SyncSkills
<1>4. ASSUME NEW p \in Pods, SyncPlugins(p)
      PROVE  CleanInv'
    BY <1>4, ListDefinitionsClean, IdlesClean, PluginClean DEF SyncPlugins
<1>5. ASSUME NEW p \in Pods, Step(p)
      PROVE  CleanInv'
    BY <1>3, <1>4, <1>5, IdlesClean, ListSkillsClean DEF Step
<1>6. CASE UNCHANGED syncVars
    BY <1>6, CleanStays DEF syncVars
<1>7. QED
    BY <1>1, <1>2, <1>5, <1>6 DEF SyncNext

LEMMA CleanAtStart ==
    ASSUME SyncInit
    PROVE  CleanInv
<1>1. \A p \in Pods : pod[p].pc = "down"
    BY DEF SyncInit, Serving
<1>2. QED
    BY <1>1 DEF CleanInv, CleanIn, Undisturbed, SyncingPcs

(* skill_sync.py:111: a sync that nothing disturbed and that counts no     *)
(* error leaves every skill it listed published with its own text; its     *)
(* files are those of the loader's directory, or are among the files left  *)
(* out without an error; whatever other pods did before and how many       *)
(* skills, files and releases there are.                                   *)
THEOREM CleanSyncs == SyncSpec => []CleanSyncAccounts
<1>1. SyncInv /\ CleanInv => CleanSyncAccounts
    <2> SUFFICES ASSUME SyncInv, CleanInv, NEW p \in Pods, pod[p].pc = "plugins",
                        pod[p].clean, NEW s \in pod[p].listed
                 PROVE  WrittenIn(row, file, loaded[p], defs[p], pod[p].skipped, s)
        BY DEF CleanSyncAccounts, WrittenIn, RowIn, FileIn, TextIn
    <2>1. pod[p].clean = TRUE
        BY DEF SyncInv, TypeOK, Syncs
    <2>2. Undisturbed(pod[p])
        BY <2>1 DEF Undisturbed, SyncingPcs
    <2>3. pod[p].todo = {}
        BY DEF SyncInv, SyncsTold, SyncTold
    <2>4. QED
        BY <2>2, <2>3 DEF CleanInv, CleanIn
<1>2. SyncInit => CleanInv
    BY CleanAtStart
<1>3. SyncInv /\ CleanInv /\ [SyncNext]_syncVars => CleanInv'
    BY NextKeepsClean
<1>4. QED
    BY <1>1, <1>2, <1>3, SyncInvHolds, PTL DEF SyncSpec

=============================================================================
