# Verification of langchain-ai-skills-framework

TLA+ models of the stateful core of `src/langchain_ai_skills_framework/`, TLC
configurations that check them on small instances, and proofs checked by TLAPS.
Paths below are relative to that package unless they start with `src/`.

    tlc -workers 2 -config ScriptContentPods.cfg MCScriptContent.tla   # one run
    tlapm ScriptContentProofs.tla                                      # proofs; likewise
                                    # the other modules whose names end in Proofs

## 1. The system

The framework serves *skills* (a `SKILL.md` with reference files and scripts,
grouped in plugins) to agents. Several processes ("pods", possibly of several
releases at once) share a MongoDB database, an optional content store for script
texts, an optional shared snapshot cache and a GitHub repository, the marketplace.
There is no transaction across any two of these, and none inside MongoDB; within a
process, calls are `asyncio` tasks that interleave at every `await`.

| Component | State | Operations | Talks to |
|---|---|---|---|
| **Scripts and their content** `loaders/mongo_plugin_skill_loader.py` (`save_script` … `migrate_inline_script_content`), `persistence/script_content_store.py` | `plugin_scripts` documents (inline `content` or `content_ref`, digest, `date_modified`); entries of the content store | save, delete, purge with the skill, read, migrate inline texts | MongoDB and the content store |
| **Schema repair** same file, `_repairs_first` … `_version_filter`; `loaders/schema_migrations.py` | documents at several `schema_version`s; per loader: time of the last check, skipped ids, `_auto_repair` | automatic pass before a call, `repair_stale_documents` | MongoDB, every other operation of the loader |
| **Skills, resources, plugins, usage, summaries** same file | `plugin_skills`, `plugin_resources`, `plugins`, `skill_usage` | upserts and deletes, state changes, folder moves, keyset pages | MongoDB |
| **History** `loaders/history_tracking_plugin_skill_store.py`, `persistence/history_writer.py`, `error_writer.py` | append-only history and error records, private copies of script texts | wraps every mutation of the store, best effort | the store, the content store |
| **Publish service** `services/publish_skill_service.py` | the skill's `state`; the registry of background tasks | `execute` (publish, unpublish), `_try_publish`, `_cleanup` | store, history, publisher |
| **Marketplace publisher** `publishing/github_marketplace_publisher.py` | branches, pull requests and base branch of the repository | `publish_skill`, `unpublish_skill` | GitHub REST |
| **Marketplace loader and snapshot cache** `loaders/marketplace_directory_loader.py`, `snapshot_cache_mixin.py` | snapshot in memory (L1), shared snapshot (L2), plugin definitions | get, refresh, write plugins | downloader, key-value store, MongoDB |
| **Downloader, token provider** `loaders/github_directory_downloader.py`, `github/token_provider.py` | a directory with a freshness mark; a cached token | download with retries and stale fallback; renew | GitHub |
| **Seeding** `loaders/skill_sync.py`, `startup.py` | none of its own | copy skills, then plugins, into an empty store | loaders, store |
| **Composite loader** `loaders/composite_skill_loader.py` | merged snapshot | precedence of sources | loaders |
| **Plugin manager** `loaders/marketplace_plugin_manager.py` | JSON files of registered marketplaces | add, remove, list | file system |
| **Services, LangChain tools, executors, container, models** | none that outlives a call | validation, mapping, subprocesses, wiring | the above |

### What is hard

* A save of a script is two writes to two systems, and a reader, a delete, a
  migration and a second save can be anywhere in between. Pods with a content
  store, pods that only read it and pods without one serve the same documents
  during a rolling deploy.
* Repair reads a document, reads its twin at the current version, and then writes
  or deletes one of them. Users, older pods and other repairers write meanwhile.
* The review gate reads a state and sets it later; the publication itself runs in a
  task of its own that the next call cancels; people merge, close and push.
* A driver may raise for a write that was applied; a process may die anywhere.
* A thread lock guards the marketplace loader across awaits of an event loop, and its
  snapshot goes through three caches whose clocks start one after the other.
* A history record, its copy of the text and the change it tells of are three writes,
  and each may fail, or fail after it was done.
* A download is put in place by two moves, any step of which may fail or be the last, while
  others read the directory, one file after the other.
* A start seeds a store that others may be seeding, skill by skill, from a loader that
  requests may reload meanwhile, and is never repeated once there is any plugin.
* One answer to a reader is put together from up to five reads of sources that change.

`PROJECT.json` lists these hazards with their lines and the properties that cover
each of them.

### What makes each component correct

* **Scripts**: a document leads to the text its digest names; a script is a register
  to its callers; nothing unreferenced is kept for ever; a read fails only while the
  script keeps changing under it.
* **Repair**: the latest edit of a document survives; a digest belongs to its text;
  skills become visible after their parts; the backlog drains.
* **Publishing**: one task per skill works on the repository; what is reported as
  under review is; nobody's commit or branch is overwritten by somebody else's;
  registry entries go away.
* **Snapshots**: an answer is never older than the three caches allow together; a
  refresh holds; calls do not block each other for ever.
* **Downloader and plugin manager**: a reader that no swap runs into sees one complete download
  and all of it that the filters leave, and never what they do not; a failed swap loses nothing;
  a fresh mark is not given to an old directory.
* **History**: records tell what the documents are; their copies of texts are
  private and stay. **Skills**: children go with their skill; a save respects what it looked up.
* **Seeding**: what a definition lists is published, and stays so; what an undisturbed sync
  without errors has written is what its loader had, and the files it has left out are of the
  kinds the code leaves out without counting an error (it does not promise a complete copy).
  **Reads**: what stays while a call runs is found, once, as the
  precedence of sources says.

## 2. Modules

| Module | Models | Checked through |
|---|---|---|
| `ScriptRegister` | abstract: each script an atomic register | refinement target |
| `ScriptContent` | scripts and content store | `MCScriptContent` |
| `ScriptContentProofs` | theorems about `ScriptContent`, and that it implements `ScriptRegister` | TLAPS |
| `SchemaRepair` | repair passes beside live traffic | `MCSchemaRepair` |
| `SchemaRepairProofs` | theorems about `SchemaRepair` | TLAPS |
| `SkillHistory` | saves, deletions, state changes and their history | `MCSkillHistory` |
| `SkillHistoryProofs` | theorems about `SkillHistory` | TLAPS |
| `MarketplacePublisher` | publisher, repository, people | through `PublishSkill` |
| `PublishSkill` | publish service; extends `MarketplacePublisher` | `MCPublishSkill` |
| `PublishSkillProofs` | theorems about `PublishSkill` and `MarketplacePublisher` | TLAPS |
| `MarketplaceSnapshot` | marketplace loader, its lock and its caches | `MCMarketplaceSnapshot` |
| `MarketplaceSnapshotProofs` | theorems about `MarketplaceSnapshot` | TLAPS |
| `DirectoryCache` | downloader and plugin discovery on a shared directory | `MCDirectoryCache` |
| `DirectoryCacheProofs` | theorems about `DirectoryCache` | TLAPS |
| `SkillSync` | start and reload: seeding the store from the marketplace | `MCSkillSync` |
| `SkillSyncProofs` | theorems about `SkillSync` | TLAPS |
| `SkillCatalog` | reads, listings and pages; extends `SkillSync` | `MCSkillCatalog` |
| `SkillCatalogProofs` | theorems about `SkillCatalog`, over those about `SkillSync` | TLAPS |

The `MC*` modules only name model values, the pods' configurations and the
symmetries. Operators with a comment that begins with "Mutant:" are plausible bugs; they are in
no specification, and serve to show that each property notices one.

### `ScriptContent`

One task is one call in flight; `Mode[t]` is how its pod is configured: `"store"`
(writes texts to the store), `"inline"` (reads the store but writes inline) or
`"none"` (has no store). One action is one round trip others can see together with
the local code up to the next.

| Code | Actions |
|---|---|
| `save_script`, external | `SavePut`, `SaveUpsert`, `Dispose`/`DisposeFails`; on an error `SaveUpsertRaises`, `SaveUpsertUncertain` |
| `save_script`, inline or no store | `SaveInline` |
| `delete_script` | `DeleteScript`, `Dispose` |
| `delete_skill`, the script part | `DeleteSkillScripts` (one `delete_many`) or `BeginPurge`, `PurgeOne`, `Dispose`, `EndPurge` |
| `read_script`, `_hydrate_script_content` | `BeginRead`, `FindScript`, `GetContent`, `RereadScript`, `GetContentAgain`, `EndRead` |
| `migrate_inline_script_content`, per document | `MigratePut`, `MigrateFlip`, `Dispose` |
| death or cancellation | `Crash` |

A text stands for its own digest; names, folders and paths are left out. An id stands
for a fresh ObjectId or `uuid4` and is never drawn twice. `watch`, `lost`,
`overtaken` and `revoked` are history variables: what an open read lived through, and
the refs given up by failures, replaced unread by a second migration, or deleted by
a save whose upsert was applied although it raised. No guard reads them.

### `SchemaRepair`

`docs[k][v]` is the document of identity `k` at version `v` (the unique index
allows one); a pod sees and writes its own version only. `pod[p]` is the loader: its
throttle and the state of the pass it runs. `BeginPass`/`BeginManual`,
`FindStale` (a batch, without the skipped ids; skills only if nothing was left
behind), `PickDoc`, `UpdateDoc` (the conditional `update_one`), `Refind` (after
`DuplicateKeyError`), `Replace`, `DeleteStale` (the two writes of
`_reconcile_conflict`), `PassUnauthorized`, `PassFails`, `PassCancelled`, `Restart`;
`Save` and `Remove` are the calls other pods serve.

Abstractions: the first reply of the cursor holds the batch; the usage
collection (no identity to merge) is left out; how callers throttle and wait for a
pass is reduced to `due` and `open` (a pod serves nobody before its first pass has
ended); `Broken` identities are documents whose `schema_version` is stored as a float,
which the migration rejects; clocks of pods agree up to a tick, so two saves can carry one
date; `auto_repair=False` loaders and manual passes with a batch size are not
modelled. `raced` is a history variable: identities edited while passes ran.

### `MarketplacePublisher` and `PublishSkill`

A worker runs `publish_skill` or `unpublish_skill` one request at a time:
`ResolveBase` (head, tree, blobs, commit), `MoveBranch`, `FindPr`, `OpenPr`,
`UpdatePr` with pull requests, `AdvanceBase` without; `RequestFails` at any of them.
`MergePr`, `ClosePr` and `Push` are people. A call of the service is
`Begin`, `CheckExists`, `ReadOwn`, `ReadShared` and `AutoSave` (`_ensure_exists_in_staging`),
`Validate`, `SetState`, `Schedule` (cancel the registered task, start and register another), or
`CallFails`; its task is `ReadSkill` followed by the requests, `TaskCancelled`,
and `Cleanup` (the done callback).

A skill that its author does not have in MongoDB is looked up as a reader's would be
(`get_skill_details_for_user`), read by read: his own, which another call may have saved since; one
that any author shares under the name (`load_shared_snapshot` with staging); the marketplace's, of any
text. What is found is saved as his, so that an author's document may hold a text that another
author wrote. `held` is a history variable: the texts each document has had; no guard reads it.

Abstractions: one process, hence one registry; plugin and skill name are one
name; a directory stands for its `SKILL.md` (the separate reads of
resources and scripts, which can be torn, are left out, and so are files that a skill
has lost: commits only add and replace); a merge takes over the branch's own
directory; users save with no state or with `"staging"`; `branch_name` and a process
without publisher are left out.

### `MarketplaceSnapshot`

`directory[p]`, `loader[p]` and `shared` are the three caches: the download, the
snapshot in memory and the snapshot all processes share. `lock[p]` is the `RLock` with owner
and depth; tasks of an event loop are one owner, a thread (`asyncio.to_thread` in the composite
loader) is one of its own. `stuck` holds a task that asked for the lock while a
thread had it: with it its whole loop stands still (`Runs`).

| Code | Actions |
|---|---|
| `_get_snapshot_async` | `Look`, `ReadShared`, then `StoreShared` or `BuildAndHold`, `Put`, `Shelve` |
| `refresh_async` | `RefreshOnLoop`, `Put` |
| `list_plugin_definitions`, `get_plugin_mcp_configs` (`_get_snapshot` on the loop) | `ListDefinitions` |
| `_get_snapshot` in a thread | `LoadInThread`, `Loaded` |
| `refresh` in a thread | `RefreshInThread`, `Reloaded` |
| `_build_snapshot`, `download`, failures | `Build`, `BuildFails` |
| waiting for the lock; cancellation; a new process | `Block`; `Cancel`; `Restart` |

The repository is taken to change all the time, so a snapshot is its age.
`Tick` is the only passing of time; a call lasts at most one tick (`late`), so `TTL`
ticks mean "a call takes no longer than a `TTL`-th of the timeout". Every process has
its own directory. `Build` is one step on the event loop, which runs nothing else
meanwhile; in a thread it takes from `LoadInThread` to `Loaded`. A snapshot says
whether its download failed and an older directory was served (`stale`). The plugin
definitions written to their own collection are read by nobody and left out. Left out too are
an unconfigured or local marketplace, and a timeout of zero or less, with which
nothing expires. `refreshed` is a history variable: the last refresh, while it must hold.

### `SkillHistory`

One skill of one author with its children. A task is one service call through
`SaveSkillService`, `DeleteSkillService` and the wrapper to the store.

| Code | Actions |
|---|---|
| `SaveSkillService.execute` with `update_if_exists=False`; `save_skill` | `BeginCreate`, `Look`; `BeginSaveSkill`, `LookFolder`, `SaveSkill` |
| `save_resource`, `save_script` | `BeginSaveResource`/`BeginSaveScript` (the look that labels the record), `SaveResource`/`SaveScript` |
| `delete_resource`, `delete_script` | `BeginDelete...` (the text, best effort), `DeleteResource`/`DeleteScript`, `NothingToDelete` |
| `delete_skill` | `BeginDeleteSkill`, `ListResources`, `ListScripts` (the wrapper), `PurgeResources`, `PurgeScript`, `PurgeEnds`, `PurgeSkill`/`PurgeNoSkill` (the loader) |
| `set_skill_state` | `SetState` |
| `_externalize_script_snapshot`, `HistoryWriter._write` | `PutCopy`, `PutCopyFails`, `RecordChild`, `Record` |
| death or cancellation | `Crash` |

A write may raise although it was applied (`told`), and so may an insert and a put.
Abstractions: a live script is saved or removed in one step, which is what
`ScriptContent` implements; texts are numbers of calls, so every save writes a
text of its own; a record's timestamp is taken as it is inserted; saves that name a
state are left to `PublishSkill`; plugin records and error records are left out. `was`, `fresh`,
`raced`, `wrote`, `excused` and `stray` are an observer's; no guard reads them.

### `DirectoryCache`

`dir` is what is at `<target>`, `<target>.staging` and `<target>.old`, item by
item with the commit each was got at; `fresh` is `<target>.ts`.

| Code | Actions |
|---|---|
| `download`, `_is_cache_fresh` | `Download` |
| `_fetch_to_directory` | `Stage`, `List`, `Get`, `Got`, `RemoveOld`, `MoveOld`, `MoveNew`, `CleanUp` |
| `_download_filtered`, `_download_repo_root` | `_download_filtered`, `_download_repo_root` (what is left to get) |
| `_mark_cache_fresh` | `_mark_cache_fresh` |
| retries and fall back | `StageFails`, `FetchFails`, `SwapFails`, with `AfterFailure` |
| `_discover_raw`, `_parse_marketplace_json` | `_parse_marketplace_json`, `NoManifest`; per plugin `CheckEntry` |
| `_discover_from_directories` | `ChooseLayout`, `_discover_from_directories`; per plugin `CheckEntry` |
| `discover_plugins` | `discover_plugins`, with `_apply_filters` |
| `MarketplaceDirectoryLoader._build_snapshot` | per plugin `ReadPlugin`: its MCP configuration, the list of its skills, their contents; `EndLook` |
| death; the world | `Crash`; `Commit`, `Expire` |

`rmtree` that fails leaves an empty directory for any remainder: what is left is removed or
overlaid by the next attempt and read by nobody. `shutil.move` onto a directory moves
into it, so the destination keeps its contents. Both source layouts are covered: the
repository's root, where the manifest names the plugin root, and a path.

A look at the directory is not one step. `look[w]` is how far it has got: the entries still to
check, the plugins found, and what was read of which of their parts, with the commit it is from. The
other worker may swap the directory between any two of these steps. A plugin whose directory is
away when it is checked is skipped, one whose skills are away when they are read is defined without
any, and a scan of a directory that is away raises. `calm` and `got` are an observer's: no swap
ran into the look so far, and what it has served. Abstractions: finding the manifest and
reading it are one step, as the outcome depends on the second alone; a manifest may be unreadable at any time, and
lists the same plugins at every commit; every plugin has skills, and those of one plugin are listed in one
step and read in one; the order of plugins is any fixed one; files that are there can be
read and parsed. What `_build_snapshot` makes of equal skill names is in `SkillSync`.

### `SkillSync`

Pods share `row`, `file` and `plugins` (the collections); each has `loaded[p]`, the
snapshot of its loader, and `defs[p]`, its plugin definitions.

| Code | Actions |
|---|---|
| `initialize_skills` | `Start`, `LookForPlugins`, `StartFails`, `LoaderFails` |
| `reload_plugins` | `BeginReload`, `Refresh`, then as a start that syncs |
| `SkillSync.sync`, `_sync_skill` | `ListSkills`; per skill `SaveSkill`, `PublishSkill`, `SaveFile`, `FileFails`, `SkipFile`, `SkillFails` |
| `_sync_plugins` | `ListDefinitions`, `DefinitionsFail`; per plugin `SavePlugin`, `PluginFails`; `SyncDone` |
| the loader beside it; the world | `Reload` (from its directory or from the shared cache); `Publish`, `Crash` |

The code leaves files out without counting an error (`SkipFile`), and does so in syncs that nobody disturbs:

* an error in listing resources or scripts is swallowed (`skill_sync.py:131`, `:165`), as is one in
  listing the plugin definitions (`:215`, `DefinitionsFail`);
* a skill that has gone from the loader, or whose directory has, lists no files
  (`marketplace_directory_loader.py:276`, `:293`);
* a script that is listed but not found is passed over (`skill_sync.py:191`). This
  befalls every script kept at the plugin beside its skills (`PluginScripts`), in every sync: such scripts are listed
  (`marketplace_directory_loader.py:302`) but looked for in the skill's own directory only
  (`script_path_resolver.py:14`).

Files come from the pod's directory, which a snapshot taken from the shared cache does not renew, so
that a text may be of one release and the files beside it of an older one (`defs[p]` is the release of the
directory). `clean` and `skipped` are an observer's: the sync has counted no error and nothing has
disturbed it, and the files it has left out so far.

A key is plugin, name and author; the marketplace may have two plugins with a skill
of one name, of which `_build_snapshot` keeps the first. Abstractions: a download and the
snapshot built from it are one step (`MarketplaceSnapshot` and `DirectoryCache` have the
steps), a snapshot in the shared cache is of the present release (an older one is the snapshot of a loader that
has not been reloaded), resources and scripts are both files, and
plugins without skills are left out. A write that raises may have been applied. `missed` is an observer's.

### `SkillCatalog`

One call of a reader in the pod `Home`, beside everything `SkillSync` does and
`UserChange` (a save, state change or deletion by any author, as one step).

| Code | Actions |
|---|---|
| `get_skill_details_for_user` (`LoadSkill`) | `ReadOwn`, `ReadShared`, `ReadDisk` |
| `GetSkillDetailService.execute` | the same, then `ListOwnFiles`, `ListSystemFiles`, `ReadOwnMeta`, `ReadSystemMeta` |
| `read_skill_resource_for_user`, `read_skill_script_for_user` (`ReadFile`) | `ReadOwn`, `ReadShared`, `ReadOwner`, `ReadDisk` |
| `_merged_snapshot` (`ListForUser`) | `ListDisk`, per name `ReadDetails`, then `ListShared` and `ListOwn` in either order, `Merge` |
| `list_all_summaries_page` (`WalkPages`) | `ListPage` (`Page`, `RejectCursor`) until there is no cursor |

`_shared_details_by_name` looks at the snapshot once for the names and once more for the details of
each. A reload in between may have dropped a name; nothing catches the `SkillNotFoundError`, and the whole
listing fails (`"failed"`).

Each query sees the store at one time; of several documents that match, any may come
first. A page is a query of its own, so the walk goes on over changes.

## 3. Runs

All with two workers. Bounds count whole calls or pods, so every interleaving of
that many is covered.

**Scripts**

* `script_pods` - three overlapping calls on one script, one per kind of pod, two
  texts, uncertain writes on: `TypeOK`, `PointersResolve`,
  `ContentMatchesDigest`, `MissingOnlyUnderChurn`, `ScriptsAreRegisters`. Each race the
  code guards against is between two calls of two of the three kinds; all dates are equal, which is the case
  in which only the digest separates two saves. Two ids cap the number of stored
  copies, not of calls: inline saves and deletions draw none for an existing script,
  and the proofs below remove the cap for all five properties.
  `ScriptsAreRegisters` says that `ScriptContent` implements
  `ScriptRegister` under the mapping `value[s]` = digest of the document, `reader` =
  the open reads. A read may answer only with a text the script had while it was
  open, or with an error.
* `script_purge` - two scripts, two `"store"` calls, three copies:
  `ContentAccounted`, and under `FairSpec` `SupersededContentCollected`. The second
  script is what makes the purge loop a loop.

**Repair**

* `repair_rolling` - two loaders of release 4, one of release 3, one identity with
  any combination of leftovers and dates (none, 1), two edits, one failure,
  cancellation or restart: `TypeOK`, `DigestFits`, `LatestEditKeptUnlessRaced`.
  One identity suffices for what is stated per identity.
  With `Pods = {new1, old1}`, `MinVersion = 2`, `InitDates = {None, 0, 1}` and `BatchSize` 1 or 2, the same cfg,
  without `SYMMETRY`, is about documents of three versions and one loader that repairs; TLC finds
  `LatestEditKeptUnlessRaced` to hold there, too.
* `repair_drains` - two scripts, one of them not migratable, and a skill; batch size
  one, at most one skipped id, a read-only loader beside, one failure; `FairSpec`:
  `SkillsAfterChildren`, `BacklogDrains`. Batch size one makes every batch full.

**Publishing**

* `publish_branch` - two authors with a skill of one name, two overlapping
  calls, two workers, three calls, saves or deletions, one push or merge, failures on:
  `TypeOK`, `RegistryHoldsLiveTask`, `ReportedIsUnderReview`, `BranchCarriesOwnDocument`. Two authors of
  one name are what it takes for a publish to copy another author's shared skill.
* `publish_direct` - two skills committed straight to the base branch, two workers,
  two commits of other people; `FairSpec`: `CommitsTouchOwnDirectory`,
  `RegistryDrains`. `MaxCommits` bounds people only.

**Snapshots**

* `marketplace_cache` - one process with two tasks of its loop and a thread,
  `TTL` one tick, `FairSpec`: `TypeOK`, `StalenessBounded`, `RefreshHolds`,
  `CallsReturn`. Two tasks are the least that pass one lock together, the thread is what
  they wait for. The bound of three `TTL` is reached: one in the directory, one in the shared
  cache, one in memory. It also held with `TTL` two ticks and with two
  processes, which take too long to be kept as runs. Calls are not bounded.
* `directory_cache` - two workers, two plugins of which one is filtered out, both
  layouts, two commits, two retries (the code has 3; one retry already follows each failure),
  `Overlap = FALSE`: `TypeOK`, `DirectoryKept`, `MarkTellsAge`, `ServesWholeCatalog`.
  One worker may still read or die while the other swaps: a look takes up to ten steps, and either move of a
  swap, or several swaps, can fall between any two of them. Workers are interchangeable.
* `directory_two_workers` - the same with `Overlap = TRUE`; violation, see findings. It is
  why `directory_cache` assumes what the code does not enforce: that two workers do
  not fetch at the same time.

**History, seeding and reads**

* `history` - two tasks, three calls, a skill with one resource and one script, empty or
  complete at first, failures on, script texts of documents and records in the store: `TypeOK`, `HistoryCopiesKept`,
  `HistoryFollowsDocuments`, `RecordsTellTheChange`, `ChildrenGoWithSkill`,
  `SavesRespectLooks`. Three calls are what an overlap of two with a change before or
  after takes. `CHECK_DEADLOCK FALSE`: when the calls are used up, the system rests.
* `seeding` - two pods, two plugins with a skill of one name, two releases, failures
  on, a file of the skill and a script of its plugin, loaders that share a cache:
  `TypeOK`, `PluginsListPublished`, `CleanSyncAccounts`, `PublishedStays`. Starts,
  reloads and crashes are not bounded. The two plugins are interchangeable, so the first is the one that
  may have the skill in the first release (`MCFirst`, a state constraint).
* `catalog` - a marketplace skill, the reader's own version of it, and a namesake that
  another author has in another plugin; one call, two changes by users during it (those between
  calls are free), page size one, two states, two filters:
  `CatalogTypeOK`, `AnswersTellWhatStays`, `ListsWhatStays`, `PagesCover`. Three keys in
  key order are what a cursor between two authors of one skill takes. The first release has the skill
  and the second drops it, so that a reload can take the skill from a listing
  under way, and the pod seeds the store once, as a second sync without failures would write the same again
  (`MCBounds`, a state constraint). Failures of the sync and the shared cache are left to `seeding`.

### Fairness

* `ScriptContent!FairSpec`: a call in flight goes on (`Continue`), as `asyncio`
  schedules every runnable task. Calls, failures and crashes are never obliged.
* `SchemaRepair!FairSpec`: a pass that has begun goes on; the interval elapses; a
  check that is due is made, which needs calls to keep coming, since the code
  repairs on behalf of callers. A loader that nobody calls repairs nothing.
* `PublishSkill!FairSpec`: calls, tasks, cancellations and done callbacks are run by
  the event loop. Users, reviewers and failures are free.
* `MarketplaceSnapshot!FairSpec`: a call that has begun goes on, and is not passed over for
  ever at the lock (strong fairness: the lock comes free again and again, and a waiter
  gets it some time). Calls, cancellations and time are free.

`SkillHistory`, `DirectoryCache`, `SkillSync` and `SkillCatalog` state no fairness:
their properties are safety.

Deadlock is checked in every run but `history`: a state without a step would be a call
that cannot go on. `PublishSkill` has an explicit `Resting` step for the states in which all
calls allowed by the bound are over.

## 4. Findings

A run that TLC ends with a counterexample to what a comment says.

| Run | The text | What the code does |
|---|---|---|
| `directory_two_workers` | `github_directory_downloader.py:85`: "Multiple workers may check this concurrently — that is fine; the worst case is a few redundant downloads whose atomic swaps are harmless." | both use the directory `<target>.staging`, which `_fetch_to_directory` removes and creates anew: the worker that finishes first may move into place what the other has just emptied or half filled, and marks it as fresh |

Exceptions that the passing properties carry, because the code does these things:

* A save whose upsert was applied although it raised deletes the text in use
  (`mongo_plugin_skill_loader.py:937`; `revoked` in `PointersResolve`). `NoPointerDangles` proves that
  nothing else leaves a pointer without its text.
* The second of two migrations of one script overwrites the ref of the first, whose
  copy stays in the store (`overtaken` in `ContentAccounted`).
* A pod that is configured without a store deletes documents and leaves their texts
  (`lost`), and so does a crash before the delete.
* An older pod saves between a pass's read and its `update_one`: the current document gets
  the digest of the text that was read (`DigestFits`, which excuses documents whose text an
  older release has changed since it inserted them).
* An older pod saves between a pass's read and its `delete_one`: the edit is lost
  (`raced` in `LatestEditKeptUnlessRaced`).
* `replace_one` in `_reconcile_conflict` (`:495`) asks for the sibling's `_id` and the current
  version, which a replacement leaves as they are, and not for the date it compared. With documents of
  one identity at versions 2, 3 and 4 (`MIN_MIGRATABLE_VERSION` to `SCHEMA_VERSION`), two
  pods of release 4 can both find their stale document later than the sibling; the one that writes last
  puts the earlier edit over the later, whose own document the other deletes. The docstring says "Safe to run
  concurrently from several pods: each update is conditional on the document still being at
  the old version, so a race is a no-op for the loser" (`:348`). To see it: in
  `SchemaRepairRolling.cfg` set `Pods = {new1, new2}`, `MinVersion = 2`, `MaxEdits = 0`,
  `InitDates = {0, 1, 2}` and `StartClock = 2`; TLC then finds `LatestEditKeptUnlessRaced`
  violated, first for two edits of one date, of which the current document had the one
  and gets the other. It takes both: `repair_rolling` and `LatestEditSurvives` are for two
  versions, `LatestEditSurvivesAlone` for one loader that repairs.
* The twin that caused a `DuplicateKeyError` is gone at the second look: the document
  is skipped until the process restarts (`skipped` in `BacklogDrains`).
* A script that cannot be migrated is skipped and does not hold its skill back, although
  `mongo_plugin_skill_loader.py:368` says that a skill never reads back as current before its
  children (`skipped` in `SkillsAfterChildren`).
* A read-only loader, or one with more than `MAX_SKIPPED_IDS` skipped documents, stops
  repairing (`~auto` in `BacklogDrains`).
* The review gate reads the state and `set_skill_state` writes it later without a
  condition (`publish_skill_service.py:145`): a skill that is a draft again is set to
  `in_review`. No property asks for more.
* Two calls for one skill may resume after `set_skill_state` in another order than
  the database served them; the task registered last may do what was withdrawn
  (`RegistryHoldsLiveTask` says that there is one task, not which).
* A load that a refresh overtakes stores its older snapshot over the refreshed one
  (`RefreshHolds` is about refreshes no load overlaps).
* A download that fails serves a directory of any age (`stale` in `StalenessBounded`); so a
  refresh can put an older snapshot in the place of a newer one from the shared cache.
* A snapshot from the shared cache fills no plugin definitions
  (`marketplace_directory_loader.py:430`): the list is empty, or that of the last build
  (`missed` in `PluginsListPublished`).
* A second swap that breaks off may leave neither the old nor the new download
  (`broken` in `DirectoryKept`); between the two moves there is no directory at all.
* A document's newest record may not tell what the document is when its insert was lost,
  when another call came between change and record, when a child was not listed by the
  deletion that took it, or when `delete_skill` found no skill document and recorded nothing
  (`excused` in `HistoryFollowsDocuments`).
* A child saved while its skill is absent or being deleted outlives it (`stray` in
  `ChildrenGoWithSkill`).
* A skill that a sync missed is not retried by later starts, which find plugins and skip
  the sync; a crash between two plugins leaves definitions out for good, and a skill that has gone from
  the marketplace stays in the store. `PluginsListPublished` is about what definitions
  do list.
* The loader looks a skill up by its name alone, so a sync may write the text of another
  plugin's skill of that name when the loader is reloaded under it, and two pods that sync two releases
  leave a mixture of both (`clean` in `CleanSyncAccounts`).
* A sync leaves files out with `errors=0`, undisturbed: `skill_sync.py:129-133`, `:163-167` and `:191-202`
  (`skipped` in `CleanSyncAccounts`; section 2 lists the cases). So `errors=0` does not mean that the
  copy is complete, and a script of a plugin is never copied.
* The auto-save of a publish copies what a reader of that name gets, and so possibly another author's shared
  skill, into the publisher's own (`publish_skill_service.py:236-252`), and publishes it under his name
  (`held` in `BranchCarriesOwnDocument`); a skill he has saved since the look is overwritten.
* A look at the marketplace directory that a swap runs into can find a part of the plugins, none at all, or
  parts of two downloads, and can raise `FileNotFoundError`; what it found is then cached as good for a
  timeout (`calm` in `ServesWholeCatalog`).
* A reload between the looks of a listing makes it raise `SkillNotFoundError`
  (`composite_skill_loader.py:564-571`; the last conjunct of `ListsWhatStays`).
* A skill that moves from one source to another during a call can be missed, and so can one that changes at
  all; what an answer says of those is left open (`touched` in `SkillCatalog`).
* With no plugin named, a file of a shared skill may come from its owner's skill of
  that name in another plugin (`ReadsFilesThatStay` asks for a named plugin).
* The detail of another author's shared skill shows the state of the system's
  skill of that name, or `draft`, and leaves out that author's files
  (`DetailTellsOpened` is about the reader's and the marketplace's skills).

## 5. Proofs

`ScriptContentProofs` proves, for all sets of scripts, texts, dates, ids and tasks and every
assignment of modes:

* `TypeCorrect`: `Spec => []TypeOK`;
* `PointersStayResolved`: `Spec => []PointersResolve`;
* `NoPointerDangles`: if the driver raises only for writes that were not applied,
  no pointer ever dangles;
* `ContentKeepsDigest`: `Spec => []ContentMatchesDigest`;
* `ContentStaysAccounted`: `Spec => []ContentAccounted`.

They assume only what `ScriptContent` declares: `None` is no script, text, ref,
document or read in progress, the error answers are no texts, modes are the configured ones, and
`UncertainWrites` is a Boolean. That ids are never drawn twice is not an
assumption but part of the model (`Ids \ used`).

`PointersResolve` alone is not inductive: a state in which a call is about to delete
a ref in use, or to flip to a copy that is gone, satisfies it. `IInv` adds that a task's local
state fits its place in the code (`LocalsOK`), that every ref anybody remembers was
drawn before and names its own script (`RefsKnown`), that the copy between put and
flip is in the store, held by nobody else and pointed at by nothing (`CopiesPrivate`),
and that what a call is about to delete is pointed at by nothing, unless its own save
revoked it (`DisposedUnreachable`). Fresh ids give the third, the order put - flip -
delete the fourth. The proof has one lemma per action over three shared ones: a
call moves on without touching a document (`TaskStep`), puts a copy under a fresh ref
(`PutStep`), or changes pointers (`PointerStep`). `ContentKeepsDigest` adds
`DigestsAgree`: the digest in a ref is that of the text stored under it, and of the
document that points at it. `ContentAccounted` is inductive beside `IInv`: whoever takes
a ref out of a document has it in hand, or gives it up by name, in the same step.

The same module builds on them:

* `ScriptsRefineRegisters`: `Spec => ScriptsAreRegisters`, the refinement of
  `ScriptRegister` under the mapping above, step by step;
* `ReadsMissOnlyUnderChurn`: `Spec => []MissingOnlyUnderChurn`.

A step is either one of a call that does not read (`Apart`: it writes one script, clears some,
or moves a text without changing any value, and every open read's watch is told), or one
of a read, which changes no document. What a read carries it must have seen
(`ReadsFollow`): the digest of the document it found is one its script had while the
read was open, and with `DigestsAgree` so is the text it then gets from the store. For the second
theorem, what the watch has counted must be enough for the place the read is at
(`ReadsCounted`): a ref found gone was replaced or deleted since it was read, because pointers resolve.

`SchemaRepairProofs` proves, for all collections, pods, releases, versions, batch sizes and
bounds, with edits, failures and restarts:

* `TypeCorrect`: `Spec => []TypeOK`;
* `DigestsFit`: `Spec => []DigestFits`;
* `SkillsComeLast`: `Spec /\ NothingOlder(old) => SkillsAfterChildren`, if every pod
  is of version `old` or `Latest`;
* `LatestEditSurvives`: `Spec /\ OnlyVersions(old) => LatestEditKeptUnlessRaced`, if every
  pod is of version `old` or `Latest`, and `old < Latest`;
* `LatestEditSurvivesAlone`: `Spec /\ NothingOlder(old) => LatestEditKeptUnlessRaced`, if pod `r`
  is of version `Latest` and every other one is read-only or of version `old` (`OthersIdle`).

They assume what `SchemaRepair` declares: identities are in one collection each,
pods have one of the versions, batches are not empty, and `None` is nothing else. The last three
theorems are action properties, and `SkillsComeLast` and `LatestEditSurvives` are about one release that
replaces another:
`NoneBetween(old)` is about the pods, and `NothingOlder(old)` and `OnlyVersions(old)` are
about the documents at the start: none below `old`, or none but at `old` and
`Latest`. Neither is a convenience. A release in between moves documents to a version that a
pass of the newest has already searched, so that skills need not come last; and with
documents at a third version and two loaders that repair, the latest edit can be lost (section 4).
`LatestEditSurvivesAlone` allows any versions in between, but one repairer: one pod of the newest
release beside pods that cannot write or that find nothing older than themselves. For
`old = 3` the theorems cover the code's deploys from release 3 to 4 once the backlog of release 2 has drained, for
`old = 2` those that skip a release.

`DigestFits` is not inductive, because the digest a pass writes is that of a text it read some
round trips before. `IInv` says what may have become of the document meanwhile. It speaks of
copies, the documents stored and those a pass has in hand: stamps and
dates of copies come from the past (`StampsKnown`), a text is found at no version below
the one it was saved at (`TextsMoveUp`), two documents of an identity never share an `_id` (`IdsApart`), and a
document is dated no earlier than any copy of the text it was inserted with (`DatesMoveOn`).
So a replacement, which demands a later date, cannot put back the text
its target began with (`ReplacesMoveOn`). Most actions make no new copy and are dealt with by
one lemma (`CarryKeeps`).

For `SkillsAfterChildren`, `PassInv` says what a pass knows at each place of `_repair_all`: what it has in hand is
where it was found or gone (`ThereOrGone`), belongs to the collection it is at, and is a skill only if the pass is not
incomplete (`Tidy`); and of the collections it has been through, nothing is left behind but what
it skipped and what was edited meanwhile, or the pass is incomplete (`Through`, `LeftBehind`).
That a full batch counts as incomplete is what makes it inductive.

For `LatestEditKeptUnlessRaced`, `EditInv` relates the passes with one another: all that have a document of an
identity in hand have the same edit (`OneEdit`); once that document is gone, the current one is no older
(`GoneIfSettled`); and at each place of `_reconcile_conflict` the current document is one that
the write about to happen may replace, or no earlier than the one about to be deleted
(`StaleInPlace`). So of passes that race, each leaves the latest edit for the next.

Where one loader repairs, `OnlyRepairer` says that the others have nothing in hand that they could
write, and `AloneInv` that the loader has nothing in hand between passes (`RestsEmptyHanded`), that
what it has in hand is stored as it was read (`HeldIsStored`), and that what it has decided by the
current document holds of the one that is current now (`DecidedRightly`), each unless somebody edited
the identity meanwhile. What is left is about documents only: a document the current one beats is
not the latest edit and may go (`DropKeepsEdit`), and one that is dated after the current one may take its
place (`LiftKeepsEdit`), since it is the latest edit or another old document is, dated later
(`NewestAbove`, by the greatest of finitely many dates up to the clock).

`SkillHistoryProofs` proves, for all resources, scripts, folders, states, tasks, numbers of
calls and settings of the flags:

* `TypeCorrect`: `Spec => []TypeOK`;
* `CopiesStay`: `Spec => []HistoryCopiesKept`;
* `NoChildLeftBehind`: `Spec => []ChildrenGoWithSkill`.

They assume what `SkillHistory` declares: skill, resources and scripts are different, `None`
is no value or call of any kind, and `"draft"` is a state. `HistoryCopiesKept` is not
inductive: a call may be about to record a ref, and a live document may hold one that is
about to be retired. `IInv` adds that a call carries a ref only when the copy is put and its
text dropped (`CallsFit`, which also says what a call in flight has set at each place), that
live documents hold refs of the other marker (`LiveRefsLive`), and that a record with a ref
has no text (`RecordsFit`). The two markers are what makes retiring a live text harmless. There is one lemma per
action over six shared ones: a step of one call (`CallGoesOn`, `CallBegins`), a write of a
document (`WrittenKeeps`), a purge (`PurgeKeeps`), a put (`PutKeeps`) and a record (`InsertKeeps`).

`ChildrenGoWithSkill` needs two more facts about deletions in flight (`ChildInv`): each is known
to the observer that marks what is saved beside it (`DeletionsKnown`), and what it has swept is
either gone or was saved since (`PurgesDone`, place by place of `delete_skill`). Of two overlapping
deletions either may be the one that removes the skill document, which is why both are kept for every call.

The same module goes on from there, over the same `IInv`:

* `RecordsTrue`: `Spec => []RecordsTellTheChange`;
* `HistoryFollows`: `Spec => []HistoryFollowsDocuments`;
* `SavesAreCareful`: `Spec => SavesRespectLooks`, an action property.

A record is made of what its call has seen, round trips ago. `CallsTell` says what that is worth
at each place, as long as nobody else has changed the document: before the change, that the label, the
folder and the text a call has read are still those of the document, and afterwards that the
record it will write describes the document (`Knows`), is right about the change (`Truthful`), and that the
children a deletion has passed are gone (`Cleared`). A change of another call is noted as a
race, and ends what is known (`OthersTell`). For the newest record, `HistoryFollowsDocuments` is not
enough either: a deletion also removes children that it has not listed and will never record, so that a call has
changed a document does not mean a record is coming. `FollowInv` says that each document is
excused, or some call owes its record (`Owes`), or the newest record describes it. Three
lemmas carry all actions: a step that changes documents (`ChangeTracks`), one that changes none
(`StepTracks`), and one that inserts a record (`RecordTracks`).

`SkillSyncProofs` proves, for all pods, skills, files, numbers of releases, with and without
failures:

* `TypeCorrect`: `SyncSpec => []TypeOK`;
* `ListedArePublished`: `SyncSpec => []PluginsListPublished`;
* `NoneUnpublished`: `SyncSpec => PublishedStays`;
* `CleanSyncs`: `SyncSpec => []CleanSyncAccounts`.

They assume that keys are triples of plugin, name and author, that the system is an author,
that there is a first release, and that `None` is no document.
`PluginsListPublished` is not inductive: when a definition is written, the state must tell what
the sync that writes it has done. `SyncInv` adds that every skill a sync listed and is through
with is published or missed (`SyncsTold`; the skill between its two writes is the exception,
and is then in the store) and that only releases have skills (`SnapshotsReal`). All steps rest
on one fact about the writes, whoever makes them (`Kept`): they take no skill away, unpublish
none, and forget a missed one only when it is published. So what one sync knows stays true
while others write.
`CleanSyncAccounts` has an invariant of its own, `CleanInv`: of a sync that nothing
disturbed and that has counted no error, what it listed is what its loader still holds, and of each skill it is through
with, the document is of the snapshot's release and each file is of the directory's or noted as skipped; of the one it
is at, as many as its place says. A write by another pod and a reload of the loader are the two disturbances,
so that each lemma is about the sync's own steps.

`SkillCatalogProofs` proves, for all skills, authors, plugins, files, pods, page sizes and
filters, with any number of changes by users and any syncs between the reads of a call:

* `CatalogTypeCorrect`: `Spec => []CatalogTypeOK`;
* `AnswersAreRight`: `Spec => []AnswersTellWhatStays`;
* `ListingsAreRight`: `Spec => []ListsWhatStays`;
* `PagesAreComplete`: `Spec => []PagesCover`;
* `SyncsHoldWithUsers`: `Spec => []PluginsListPublished /\ PublishedStays`.

Beside what `SkillSync` assumes, `SkillCatalog` assumes that the reader is not the system, that
a page holds at least one skill (the code rejects a smaller limit), and that filters and user states are of the kinds the code has. Of
the keys it assumes that there are finitely many, that authors are numbers, as plugins and names are, so that keys can be compared part by part as the
index does, and that 0 names no skill, since `NotFound` is a triple of zeros. `None` is no state and no cursor.

The properties are about calls that are done, and say nothing while one runs. `CatalogInv`
adds what the reads so far have shown of the skills that still stay (`Told`), place by place: that the
reader had none (`NoneOwn`), that nobody shared one (`NoneShared`), that the owner named for a
file shared the skill (`OwnerShares`), what was found and which of its files and states have been read (`Found`,
`FilesTold`, `NoOwnMeta`); for a listing, that a name still to be looked up is that of a skill
of the snapshot or of one that has gone (`NamesTold`), that it fails only over a name of the second kind
(`Lost`, `FailureTold`), and what each of the reads must hold (`BaseTold`, `SharedTold`, `OwnTold`); for a walk,
that everything that passes the filters up to the cursor has been seen, nothing seen twice and nothing
beyond it (`PagesTold`, `SeenIsBehind`). Each is a formula about a call and a *view*, the states,
files and snapshot a read would meet now. One lemma then carries all of them over everything
others do (`ToldStays`): their steps change the view only at skills that they also strike
off what stays. What is left is one lemma per read.

A sync and a user never write the same document, since users write as themselves and a sync as the system
(`UserKeysApart`, `SyncLeavesUsers`), which is why the invariants of `SkillSyncProofs` go through
with users beside the syncs, and their lemmas are cited as they are. That a page is the first
part of what is left and ends with its last skill (`PageIsFirstPart`) is counted, not computed: keys are ordered (`BeforeOrders`), the page is what has
fewer than `PageLimit` before it, and whatever set of skills is not empty has one with the fewest
before or behind it (`HasLeast`), since numbers are well-founded. So no induction over the page is needed.

`PublishSkillProofs` proves, for all skills, texts, calls, workers and commits, with and
without pull requests, and however many pushes, merges, closes and failures:

* `TypeCorrect`: `Spec => []TypeOK`;
* `LiveTaskRegistered`: `Spec => []RegistryHoldsLiveTask`;
* `BranchKeepsAuthor`: `Spec => []BranchCarriesOwnDocument`;
* `CommitsStayInDirectory`: `Spec => CommitsTouchOwnDirectory`, an action property;
* `ReportIsReviewed`: `Spec => []ReportedIsUnderReview`.

They assume that a skill is known by its author and its name (the unique index of the
skills), and that `None` is no text, worker or commit. Texts may be shared between skills.
The inductive invariant follows a text from the author's document, once it has held it (`DocCarries`), through
the task's read, tree and commit (`JobCarries`) to the branch
(`RepoCarries`), and keeps what a call is about to save a text (`CallCarries`); an auto-save may bring any text,
but into the document first; two publishes share a branch only if they are of one skill, so nobody else's step
disturbs it. For the base branch it says what a commit was built on (`JobBuilt`): if the
head is still the one it was built on, the commit differs from it in the skill's directory
only, and if not, the update that does not force is refused. `ReportIsReviewed` has an invariant of
its own, place by place of `_upsert_pr`: once its pull request was found or opened, the task's
branch has one, or reviewers have decided, or a later task has replaced the commit (`Reviewed`).

`MarketplaceSnapshotProofs` proves, for all processes, tasks, threads and timeouts of a tick or more:

* `TypeCorrect`: `Spec => []TypeOK`;
* `AnswersStayYoung`: `Spec => []StalenessBounded`;
* `RefreshesHold`: `Spec => []RefreshHolds`.

They assume that `None` and the name of the event loop are nothing else. The types alone need an invariant: the depth
of the lock is the number of calls at places where it is held, all of them of the loop or the one thread
(`LockFits`), or a release would go below zero. The age of a snapshot is followed from cache to
cache: less than a timeout when it is built, a tick more when it is shared (`TaskAged`), less than
two when it leaves the shared cache (`SharedAged`), and then as long as the loader has had it
(`LoaderAged`). A loader whose lock a task of the loop holds may be past its time, and is answered
from all the same; it was filled within the last tick, because the lock is only taken together
with a new snapshot (`HeldYoung`). After a refresh nobody is on the way to put another snapshot there, and nobody
sets out, since the loader has had its snapshot no longer than the refresh is ago, and is
valid (`RefreshFits`). All steps of calls are brought to one form (`TaskStep`), so that each part of
the invariant is dealt with once and not once per action.

`DirectoryCacheProofs` proves, for any number of workers, items, commits and retries,
`TypeCorrect`: `Spec => []TypeOK`, and if one worker fetches at a time (`Overlap = FALSE`)
while others read:

* `SwapKeepsDirectory`: `Spec => []DirectoryKept`;
* `MarkIsTrue`: `Spec => []MarkTellsAge`;
* `CatalogServedWhole`: `Spec => []ServesWholeCatalog`.

`Overlap = FALSE` is not something the code ensures, and with `TRUE` the three are false: that is
the finding of `directory_two_workers`. What they say is that overlap is all that can
break the swap: no failure, retry or death anywhere does. The other assumptions say that listings and filters name
plugins, that there is a commit and an attempt, and that `None` is no directory. The inductive invariant says that one worker is under way
(`OneFetches`), that it has staged what it need not get any more (`Staged`), where the directory it replaces is
at each step of the swap, also after a swap of an earlier attempt broke off (`Kept`), and how old
the files in staging and target are (`Aged`).

`CatalogServedWhole` is about looks that take many steps while another worker swaps, and has an
invariant of its own (`LookInv`). Of a look that no swap has run into, it says that what it has found is a filtered part of the
listing and of the directory, that what it has still to go to is the rest, and that each part it has read is the
target's (`LookCalm`, `LookKept`). Of any look, disturbed or not, it says that nothing that can be put in the target from now on is older
than what it has read, or than what is there (`LookForward`, `TargetOld`; `Past`: no directory is ahead of the repository): downloads are begun one after the other, so a swap never takes a target back
(`NewerKept`). That no two fetch at once is needed for both.

Every other property the runs check is stated by one of these theorems. Only model-checked is all liveness
(`SupersededContentCollected`, `BacklogDrains`, `RegistryDrains`, `CallsReturn`), which is
beyond the prover.

## 6. Not modelled

* Usage counters (an atomic increment each), tag and text search, the null store and the store factory.
* Records of plugins and error records: one insert after one write, read back by nobody here.
* Tokens: renewal and caching; a token that cannot be had is a download that fails.
* MCP configurations, manifests and environment settings: parsing without behaviour over time.
* Validation of arguments, error mapping and wording in services and LangChain tools.
* Script executors: subprocesses and remote interpreters in a temporary directory per call.
* Container, configuration, logging and data models: wiring and record types.

`PROJECT.json` gives the reason for every component.

## 7. Plan

The modules are written, and every safety property a run checks is proved; nothing of the plan is left.
