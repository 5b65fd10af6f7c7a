------------------------------ MODULE SkillSync ------------------------------
(***************************************************************************)
(* The start of a pod (initialize_skills) and reload_plugins: SkillSync    *)
(* copies the marketplace skills the pod's loader has into the store, as   *)
(* published skills of the author "system", and writes the plugin          *)
(* definitions last.  Later starts skip the copying when the store has any *)
(* plugin.                                                                 *)
(*                                                                         *)
(* Pods share the store; each has a loader of its own, whose snapshot may  *)
(* be replaced between two steps of a sync: a request of the pod reloaded  *)
(* it.  A snapshot finds skills by name alone.  How it is built and cached *)
(* is MarketplaceSnapshot.  A step is one round trip to the store.         *)
(***************************************************************************)
EXTENDS Naturals, FiniteSets

CONSTANTS
    Pods,
    Authors,        \* who owns skills of the store; ordered, as keys are
    System,         \* SYSTEM_USER_ID
    Keys,           \* <<plugin, name, author>>: the skills that may be stored
    Files,          \* resources and scripts a marketplace skill has
    PluginScripts,  \* those that are kept at the plugin, beside its skills
    SharedCache,    \* do the loaders share a cache of snapshots?
    MaxReleases,    \* bound: marketplace contents in a behaviour
    MayFail,        \* may round trips fail and pods die?
    None

ASSUME KeysAssumption == Keys \subseteq Nat \X Nat \X Authors /\ System \in Authors
ASSUME FilesAssumption == PluginScripts \subseteq Files
ASSUME BoundAssumption ==
    MaxReleases \in Nat \ {0} /\ MayFail \in BOOLEAN /\ SharedCache \in BOOLEAN

Skills == {<<k[1], k[2]>> : k \in {key \in Keys : key[3] = System}}
Plugins == {k[1] : k \in Keys}
Key(s) == <<s[1], s[2], System>>

(* _build_snapshot keeps the first of two skills of one name.              *)
Contents == {S \in SUBSET Skills : \A s, t \in S : s[2] = t[2] => s = t}
Releases == [n : 0..MaxReleases, skills : Contents]
Nothing == [n |-> 0, skills |-> {}]

(* What a marketplace file holds: the plugin it is of, and the release.    *)
Texts == [plugin : Plugins, n : 1..MaxReleases]
Own == [plugin |-> 0, n |-> 0]    \* any text a user wrote

States == {"draft", "staging", "in_review", "published"}
Rows == [state : States, text : Texts \cup {Own}]

ASSUME NoneAssumption == None \notin Rows

VARIABLES
    row,        \* row[k]: the skill document of k, or None
    file,       \* file[k][f]: the text of a resource or script, or None
    plugins,    \* plugins[q]: the skills the definition of q lists, or None
    release,    \* what the marketplace repository holds
    loaded,     \* loaded[p]: the snapshot of the loader of p
    defs,           \* defs[p]: its directory and plugin definitions, both
                \* of its last build
    pod,        \* pod[p]: the start or the reload p runs
    missed      \* for the properties: skills a sync gave up on, and those
                \* that a definition lists and its sync had not seen

stored == <<row, file, plugins>>
market == <<release, loaded, defs>>
syncVars == <<row, file, plugins, release, loaded, defs, pod, missed>>

Pcs == {"down", "serving", "look", "refresh", "list", "skills", "publish",
        "files", "definitions", "plugins"}

(* The last two are the observer's.  clean: SyncResult counts no error,    *)
(* and since the sync listed the skills the loader has kept its snapshot   *)
(* and its directory, and no other pod has written.  skipped: the files    *)
(* that a clean sync has left out without counting an error.               *)
Syncs == [pc      : Pcs,
          listed  : SUBSET Skills,
          todo    : SUBSET Skills,
          files   : SUBSET Files,
          skill   : Skills \cup {None},
          defs    : SUBSET Skills,
          clean   : BOOLEAN,
          skipped : SUBSET (Skills \X Files)]

Serving == [pc |-> "serving", listed |-> {}, todo |-> {}, files |-> {}, skill |-> None,
            defs |-> {}, clean |-> TRUE, skipped |-> {}]

TypeOK ==
    /\ row \in [Keys -> Rows \cup {None}]
    /\ file \in [Keys -> [Files -> Texts \cup {Own, None}]]
    /\ plugins \in [Plugins -> (SUBSET Skills) \cup {None}]
    /\ release \in Releases
    /\ loaded \in [Pods -> Releases]
    /\ defs \in [Pods -> Releases]
    /\ pod \in [Pods -> Syncs]
    /\ missed \subseteq Skills

SyncInit ==
    /\ row = [k \in Keys |-> None]
    /\ file = [k \in Keys |-> [f \in Files |-> None]]
    /\ plugins = [q \in Plugins |-> None]
    /\ release \in [n : {1}, skills : Contents]
    /\ loaded = [p \in Pods |-> Nothing]
    /\ defs = [p \in Pods |-> Nothing]
    /\ pod = [p \in Pods |-> [Serving EXCEPT !.pc = "down"]]
    /\ missed = {}

(***************************************************************************)
(* The marketplace and the loaders.                                        *)
(***************************************************************************)
Publish ==
    /\ release.n < MaxReleases
    /\ \E S \in Contents : release' = [n |-> release.n + 1, skills |-> S]
    /\ UNCHANGED <<loaded, defs, pod, missed>>
    /\ UNCHANGED stored

Syncing(p) == pod[p].pc \in {"skills", "publish", "files", "definitions", "plugins"}
Spoil(local) == [local EXCEPT !.clean = FALSE, !.skipped = {}]
Disturbed(p) == IF Syncing(p) THEN Spoil(pod[p]) ELSE pod[p]

Build(p) ==
    /\ loaded' = [loaded EXCEPT ![p] = release]
    /\ defs' = [defs EXCEPT ![p] = release]

(* A loader that has no snapshot builds one when it is asked.              *)
Consult(p) == IF loaded[p] = Nothing THEN Build(p) ELSE UNCHANGED <<loaded, defs>>

(* Another request of p found the snapshot too old.  One that finds a      *)
(* snapshot in the shared cache takes that, and keeps its directory and    *)
(* its definitions.                                                        *)
Reload(p) ==
    /\ pod[p].pc # "down"
    /\ \/ <<loaded[p], defs[p]>> # <<release, release>> /\ Build(p)
       \/ /\ SharedCache /\ loaded[p] # release
          /\ loaded' = [loaded EXCEPT ![p] = release]
          /\ UNCHANGED defs
    /\ pod' = [pod EXCEPT ![p] = Disturbed(p)]
    /\ UNCHANGED <<release, missed>>
    /\ UNCHANGED stored

(* get_skill_details ignores the plugin it is asked for.                   *)
Named(p, s) == {t \in loaded[p].skills : t[2] = s[2]}
Source(p, s) == (CHOOSE t \in Named(p, s) : TRUE)[1]
TextOf(p, s) == [plugin |-> Source(p, s), n |-> loaded[p].n]

(* The files are in the directory of the skill the snapshot names, if      *)
(* there is one.                                                           *)
HasDirectory(p, s) == Named(p, s) \cap defs[p].skills # {}
FileText(p, s) == [plugin |-> Source(p, s), n |-> defs[p].n]

(***************************************************************************)
(* The start of a pod.                                                     *)
(***************************************************************************)
Begin(p, pc) == pod' = [pod EXCEPT ![p] = [Serving EXCEPT !.pc = pc]]
Move(p, pc) == pod' = [pod EXCEPT ![p].pc = pc]

(* ensure_indexes changes none of this.                                    *)
Start(p) ==
    /\ pod[p].pc = "down"
    /\ Begin(p, "look")
    /\ UNCHANGED missed
    /\ UNCHANGED <<stored, market>>

has_plugins == \E q \in Plugins : plugins[q] # None

LookForPlugins(p) ==
    /\ pod[p].pc = "look"
    /\ Move(p, IF has_plugins THEN "serving" ELSE "list")
    /\ UNCHANGED missed
    /\ UNCHANGED <<stored, market>>

Stop(p) ==
    /\ Begin(p, "down")
    /\ loaded' = [loaded EXCEPT ![p] = Nothing]
    /\ defs' = [defs EXCEPT ![p] = Nothing]
    /\ UNCHANGED <<release, missed>>
    /\ UNCHANGED stored

(* A start that cannot reach the store fails.                              *)
StartFails(p) ==
    /\ MayFail
    /\ pod[p].pc = "look"
    /\ Stop(p)

BeginReload(p) ==
    /\ pod[p].pc = "serving"
    /\ Begin(p, "refresh")
    /\ UNCHANGED missed
    /\ UNCHANGED <<stored, market>>

Refresh(p) ==
    /\ pod[p].pc = "refresh"
    /\ Build(p)
    /\ Move(p, "list")
    /\ UNCHANGED <<release, missed>>
    /\ UNCHANGED stored

(***************************************************************************)
(* SkillSync.sync.                                                         *)
(***************************************************************************)
(* The next skill, when the present one failed or is done, and on to the   *)
(* plugins when there is none.                                             *)
NextSkill(local) ==
    [local EXCEPT !.pc = IF local.todo = {} THEN "definitions" ELSE "skills",
                  !.skill = None, !.files = {}]

(* What the loops do before the next round trip.                           *)
Onward(local) == IF local.files = {} THEN NextSkill(local) ELSE local

ListSkills(p) ==
    /\ pod[p].pc = "list"
    /\ Consult(p)
    /\ pod' = [pod EXCEPT ![p] = NextSkill([Serving EXCEPT
                 !.listed = loaded'[p].skills,
                 !.todo = loaded'[p].skills])]
    /\ UNCHANGED <<release, missed>>
    /\ UNCHANGED stored

(* Neither a reload nor the start goes on without the marketplace: the     *)
(* exception ends the reload, and the start is done without a sync.        *)
LoaderFails(p) ==
    /\ MayFail
    /\ pod[p].pc \in {"refresh", "list"}
    /\ Begin(p, "serving")
    /\ UNCHANGED missed
    /\ UNCHANGED <<stored, market>>

(* Mutant: an upsert puts the skill back to draft.                         *)
save_skill_as_draft(k, text) == row' = [row EXCEPT ![k] = [state |-> "draft", text |-> text]]

(* Mutant: a new skill gets a state of its own.                            *)
save_skill_as_personal(k, text) ==
    row' = [row EXCEPT ![k] = [state |-> IF @ = None THEN "personal" ELSE @.state, text |-> text]]

(* Mutant: a skill the store has keeps its text.                           *)
save_skill_if_missing(k, text) ==
    row' = [row EXCEPT ![k] = IF @ = None THEN [state |-> "draft", text |-> text] ELSE @]

(* No state is given: a new skill is a draft, an old one keeps its state.  *)
save_skill(k, text) ==
    row' = [row EXCEPT ![k] = [state |-> IF @ = None THEN "draft" ELSE @.state, text |-> text]]

(* Other syncs at work are not alone any more.                             *)
Disturb(p, local) ==
    pod' = [r \in Pods |-> IF r = p THEN local ELSE Disturbed(r)]

SaveSkill(p, s) ==
    /\ pod[p].pc = "skills"
    /\ s \in pod[p].todo
    /\ Named(p, s) # {}
    /\ save_skill(Key(s), TextOf(p, s))
    /\ Disturb(p, [pod[p] EXCEPT !.pc = "publish", !.skill = s, !.todo = @ \ {s}])
    /\ UNCHANGED <<file, plugins, missed>>
    /\ UNCHANGED market

publish_skill(k) == row' = [row EXCEPT ![k].state = "published"]

PublishSkill(p) ==
    /\ pod[p].pc = "publish"
    /\ publish_skill(Key(pod[p].skill))
    /\ Disturb(p, Onward([pod[p] EXCEPT !.pc = "files", !.files = Files]))
    /\ missed' = missed \ {pod[p].skill}
    /\ UNCHANGED <<file, plugins>>
    /\ UNCHANGED market

(* The skill has gone from the loader, or a call failed, which may have    *)
(* had its effect all the same.                                            *)
SkillFails(p) ==
    /\ \/ /\ pod[p].pc = "skills"
          /\ \E s \in pod[p].todo :
                /\ \/ Named(p, s) = {} /\ UNCHANGED row
                   \/ /\ MayFail
                      /\ \/ UNCHANGED row
                         \/ Named(p, s) # {} /\ save_skill(Key(s), TextOf(p, s))
                /\ missed' = missed \cup {s}
                /\ Disturb(p, NextSkill(Spoil([pod[p] EXCEPT !.todo = @ \ {s}])))
       \/ /\ pod[p].pc = "publish" /\ MayFail
          /\ missed' = missed \cup {pod[p].skill}
          /\ UNCHANGED row \/ publish_skill(Key(pod[p].skill))
          /\ Disturb(p, NextSkill(Spoil(pod[p])))
    /\ UNCHANGED <<file, plugins>>
    /\ UNCHANGED market

(* save_resource, save_script.  A script is looked for in the directory of *)
(* the skill: one of the plugin is not found there.                        *)
save_file(p, f) ==
    /\ f \notin PluginScripts
    /\ HasDirectory(p, pod[p].skill)
    /\ file' = [file EXCEPT ![Key(pod[p].skill)][f] = FileText(p, pod[p].skill)]

SaveFile(p, f) ==
    /\ pod[p].pc = "files"
    /\ f \in pod[p].files
    /\ save_file(p, f)
    /\ Disturb(p, Onward([pod[p] EXCEPT !.files = @ \ {f}]))
    /\ UNCHANGED <<row, plugins, missed>>
    /\ UNCHANGED market

(* A call fails, or the file has gone since it was listed.                 *)
FileFails(p, f) ==
    /\ pod[p].pc = "files"
    /\ f \in pod[p].files
    /\ \/ ~HasDirectory(p, pod[p].skill) /\ UNCHANGED file
       \/ MayFail /\ (UNCHANGED file \/ save_file(p, f))
    /\ Disturb(p, Onward(Spoil([pod[p] EXCEPT !.files = @ \ {f}])))
    /\ UNCHANGED <<row, plugins, missed>>
    /\ UNCHANGED market

(* No error is counted when the files cannot be listed, when there is no   *)
(* skill or no directory to list, and for a script that is not found.      *)
SkipFile(p, f) ==
    /\ pod[p].pc = "files"
    /\ f \in pod[p].files
    /\ f \in PluginScripts \/ ~HasDirectory(p, pod[p].skill) \/ MayFail
    /\ pod' = [pod EXCEPT ![p] = Onward([pod[p] EXCEPT
                 !.files = @ \ {f},
                 !.skipped = IF pod[p].clean THEN @ \cup {<<pod[p].skill, f>>} ELSE @])]
    /\ UNCHANGED missed
    /\ UNCHANGED <<stored, market>>

(***************************************************************************)
(* _sync_plugins.                                                          *)
(***************************************************************************)
ListDefinitions(p) ==
    /\ pod[p].pc = "definitions"
    /\ pod' = [pod EXCEPT ![p].pc = "plugins", ![p].defs = defs[p].skills]
    /\ UNCHANGED missed
    /\ UNCHANGED <<stored, market>>

(* Not counted as an error.                                                *)
DefinitionsFail(p) ==
    /\ MayFail
    /\ pod[p].pc = "definitions"
    /\ Begin(p, "serving")
    /\ UNCHANGED missed
    /\ UNCHANGED <<stored, market>>

Of(q, skills) == {s \in skills : s[1] = q}

save_plugin(q, skills) == plugins' = [plugins EXCEPT ![q] = skills]

(* Mutant: the definitions are written while the skills are.               *)
save_plugin_first(p, q) ==
    /\ pod[p].pc \in {"skills", "plugins"}
    /\ LET skills == Of(q, IF pod[p].pc = "skills" THEN pod[p].listed ELSE pod[p].defs)
       IN  /\ skills # {}
           /\ save_plugin(q, skills)
           /\ missed' = missed \cup (skills \ pod[p].listed)
           /\ Disturb(p, [pod[p] EXCEPT !.defs = @ \ skills])
    /\ UNCHANGED <<row, file>>
    /\ UNCHANGED market

SavePlugin(p, q) ==
    /\ pod[p].pc = "plugins"
    /\ LET skills == Of(q, pod[p].defs)
       IN  /\ skills # {}
           /\ save_plugin(q, skills)
           /\ missed' = missed \cup (skills \ pod[p].listed)
           /\ Disturb(p, [pod[p] EXCEPT !.defs = @ \ skills])
    /\ UNCHANGED <<row, file>>
    /\ UNCHANGED market

PluginFails(p, q) ==
    /\ MayFail
    /\ pod[p].pc = "plugins"
    /\ LET skills == Of(q, pod[p].defs)
       IN  /\ skills # {}
           /\ \/ UNCHANGED <<plugins, missed>>
              \/ save_plugin(q, skills) /\ missed' = missed \cup (skills \ pod[p].listed)
           /\ Disturb(p, Spoil([pod[p] EXCEPT !.defs = @ \ skills]))
    /\ UNCHANGED <<row, file>>
    /\ UNCHANGED market

(* The start, or the reload, is done.                                      *)
SyncDone(p) ==
    /\ pod[p].pc = "plugins"
    /\ pod[p].defs = {}
    /\ Begin(p, "serving")
    /\ UNCHANGED missed
    /\ UNCHANGED <<stored, market>>

Crash(p) ==
    /\ MayFail
    /\ pod[p].pc # "down"
    /\ Stop(p)

(***************************************************************************)
(* The specification.                                                      *)
(***************************************************************************)
SyncSkills(p) ==
    \/ \E s \in Skills : SaveSkill(p, s)
    \/ PublishSkill(p)
    \/ SkillFails(p)
    \/ \E f \in Files : SaveFile(p, f) \/ FileFails(p, f) \/ SkipFile(p, f)

SyncPlugins(p) ==
    \/ ListDefinitions(p)
    \/ DefinitionsFail(p)
    \/ \E q \in Plugins : SavePlugin(p, q) \/ PluginFails(p, q)
    \/ SyncDone(p)

Step(p) ==
    \/ LookForPlugins(p)
    \/ StartFails(p)
    \/ Refresh(p)
    \/ ListSkills(p)
    \/ LoaderFails(p)
    \/ SyncSkills(p)
    \/ SyncPlugins(p)

SyncNext ==
    \/ Publish
    \/ \E p \in Pods : \/ Start(p)
                       \/ BeginReload(p)
                       \/ Reload(p)
                       \/ Step(p)
                       \/ Crash(p)

SyncSpec == SyncInit /\ [][SyncNext]_syncVars

(***************************************************************************)
(* Properties.                                                             *)
(***************************************************************************)
(* skill_sync.py:99, startup.py:36: later starts take any plugin for a     *)
(* store that has been seeded, so a plugin may be written only after its   *)
(* skills: each skill a definition lists is published, unless a sync gave  *)
(* up on it or got the definition from a newer snapshot than the skills.   *)
PluginsListPublished ==
    \A q \in Plugins : plugins[q] # None =>
        \A s \in plugins[q] \ missed :
            row[Key(s)] # None /\ row[Key(s)].state = "published"

(* skill_sync.py:111: a sync writes skills that readers are using; what is *)
(* published stays published, also while a reload is half way, fails or is *)
(* run by two pods.                                                        *)
PublishedStays ==
    [][\A s \in Skills : row[Key(s)] # None /\ row[Key(s)].state = "published"
            => row'[Key(s)] # None /\ row'[Key(s)].state = "published"]_syncVars

(* skill_sync.py:111 "replaces existing content with the latest from the   *)
(* marketplace": when a sync that nothing disturbed reports no error, each *)
(* skill it listed is published with the text its loader has, and each     *)
(* file is the one in the loader's directory or was left out without a     *)
(* word.  No error does not mean that nothing is left out.                 *)
CleanSyncAccounts ==
    \A p \in Pods :
        pod[p].pc = "plugins" /\ pod[p].clean
            => \A s \in pod[p].listed :
                   /\ row[Key(s)] = [state |-> "published",
                                     text |-> [plugin |-> s[1], n |-> loaded[p].n]]
                   /\ \A f \in Files :
                         \/ file[Key(s)][f] = [plugin |-> s[1], n |-> defs[p].n]
                         \/ <<s, f>> \in pod[p].skipped
=============================================================================
