--------------------------- MODULE DirectoryCache ---------------------------
(***************************************************************************)
(* GithubDirectoryDownloader.download and what MarketplacePluginManager    *)
(* discovers in the directory it returns.  A download is fetched item by   *)
(* item into <target>.staging and then swapped into place, with the        *)
(* directory it replaces kept as <target>.old for the length of the swap.  *)
(* <target>.ts tells how fresh the target is.                              *)
(*                                                                         *)
(* A worker is a process; several share the cache path.  The call blocks   *)
(* its process, so a worker runs one at a time.  One action is one file    *)
(* system or network step.  A step that raises may have been done in part. *)
(* A worker that dies leaves the files as they are.  Discovery goes to the *)
(* file system once for the manifest, once for every plugin directory and  *)
(* three times for what a plugin holds, while others may swap the target.  *)
(***************************************************************************)
EXTENDS Naturals, FiniteSets

CONSTANTS
    Workers,        \* processes that share the cache path
    Plugins,        \* plugin directories of the repository
    Manifest,       \* .claude-plugin/marketplace.json
    Listed,         \* plugins the manifest lists
    Include,        \* include filter: a set of plugins, or None
    Exclude,        \* exclude filter
    Overlap,        \* may two workers fetch at the same time?
    Layouts,        \* is the source the repository root, or a path in it?
    MaxVersions,    \* bound: commits of the repository
    MaxRetries,     \* _MAX_RETRIES
    None

Items == Plugins \cup {Manifest}

ASSUME ItemsAssumption ==
    /\ Manifest \notin Plugins
    /\ Listed \subseteq Plugins
    /\ Exclude \subseteq Plugins
    /\ Include = None \/ Include \subseteq Plugins
ASSUME BoundsAssumption ==
    /\ MaxVersions \in Nat \ {0}
    /\ MaxRetries \in Nat \ {0}
    /\ Overlap \in BOOLEAN
    /\ Layouts \subseteq {"root", "path"}
    /\ None \notin Nat

Versions == 1..MaxVersions
Paths == {"target", "staging", "old"}

(* A directory holds some of the items, each at the commit it was got at.  *)
Directories == UNION {[S -> Versions] : S \in SUBSET Items}

ASSUME NoneAssumption == None \notin Directories /\ \A S \in SUBSET Plugins : S # None

Empty == [i \in {} |-> None]

VARIABLES
    remote,     \* the commit the branch is at
    layout,     \* "root" or "path", by configuration
    dir,        \* dir[p]: the directory at path p, or None
    fresh,      \* is <target>.ts younger than the time to live?
    worker,     \* worker[w]: the call w runs
    look,       \* look[w]: what discovery has seen in that call
    (* What an observer of the whole system would remember.                *)
    had,        \* a download has been in place
    broken,     \* swaps that failed or died since the last one that ended
    marked      \* the commit the marked download was begun at

vars == <<remote, layout, dir, fresh, worker, look, had, broken, marked>>

Pcs == {"idle", "stage", "list", "get", "rm_old", "move_old", "move_new",
        "clean", "mark", "read"}
Fetching == Pcs \ {"idle", "read"}
Swapping == {"rm_old", "move_old", "move_new"}

Calls == [pc : Pcs, attempt : 1..MaxRetries, todo : SUBSET Items, since : Versions]
Idle == [pc |-> "idle", attempt |-> 1, todo |-> {}, since |-> 1]
Reading == [Idle EXCEPT !.pc = "read"]

(* What is read of a plugin, in this order: its MCP configuration, the     *)
(* list of its skills and their contents.                                  *)
Parts == 1..3
Steps == {"manifest", "scan", "nested", "direct", "entries", "plugins", "raised"}

(* todo holds the plugins the step has still to go to; got what was read   *)
(* of which part of a plugin: the commit it is from, or None if it was not *)
(* there.  An observer adds whether the target was left alone (calm).      *)
Looks == [step : Steps, todo : SUBSET Plugins, found : SUBSET Plugins, part : Parts,
          got : SUBSET (Plugins \X Parts \X (Versions \cup {None})), calm : BOOLEAN]
Before == [step |-> "manifest", todo |-> {}, found |-> {}, part |-> 1, got |-> {},
           calm |-> TRUE]

At(w, pc) == worker[w].pc = pc

TypeOK ==
    /\ remote \in Versions
    /\ layout \in Layouts
    /\ dir \in [Paths -> Directories \cup {None}]
    /\ fresh \in BOOLEAN
    /\ worker \in [Workers -> Calls]
    /\ look \in [Workers -> Looks]
    /\ had \in BOOLEAN
    /\ broken \in 0..2
    /\ marked \in Versions

Init ==
    /\ remote = 1
    /\ layout \in Layouts
    /\ dir = [p \in Paths |-> None]
    /\ fresh = FALSE
    /\ worker = [w \in Workers |-> Idle]
    /\ look = [w \in Workers |-> Before]
    /\ had = FALSE
    /\ broken = 0
    /\ marked = 1

-----------------------------------------------------------------------------
Goto(w, pc) == worker' = [worker EXCEPT ![w].pc = pc]

_is_cache_fresh == fresh /\ dir["target"] # None

(* A forced call has a time to live of zero.                               *)
Download(w, forced) ==
    /\ At(w, "idle")
    /\ IF ~forced /\ _is_cache_fresh
       THEN worker' = [worker EXCEPT ![w] = Reading]
       ELSE /\ Overlap \/ \A u \in Workers : worker[u].pc \notin Fetching
            /\ worker' = [worker EXCEPT ![w] =
                  [pc |-> "stage", attempt |-> 1, todo |-> {}, since |-> remote]]
    /\ UNCHANGED <<remote, layout, dir, fresh, look, had, broken, marked>>

-----------------------------------------------------------------------------
(* _fetch_to_directory.                                                    *)

Stage(w) ==
    /\ At(w, "stage")
    /\ dir' = [dir EXCEPT !["staging"] = Empty]
    /\ worker' = [worker EXCEPT ![w].pc = "list", ![w].since = remote]
    /\ UNCHANGED <<remote, layout, fresh, look, had, broken, marked>>

(* An empty include filter includes everything.                            *)
Filtered(S) == {i \in S : (Include # None /\ Include # {} => i \in Include) /\ i \notin Exclude}
HasFilters == Exclude # {} \/ (Include # None /\ Include # {})

_download_filtered == IF HasFilters THEN Filtered(Items) ELSE Items

(* At the root only the plugin root is filtered, and only if the manifest  *)
(* that names it can be read.                                              *)
_download_repo_root(manifestRead) ==
    IF HasFilters /\ manifestRead THEN Filtered(Plugins) \cup {Manifest} ELSE Items

List(w) ==
    /\ At(w, "list")
    /\ \E manifestRead \in BOOLEAN :
         worker' = [worker EXCEPT
            ![w].pc = "get",
            ![w].todo = IF layout = "path" THEN _download_filtered
                        ELSE _download_repo_root(manifestRead)]
    /\ UNCHANGED <<remote, layout, dir, fresh, look, had, broken, marked>>

With(d, i, v) ==
    LET held == IF d = None THEN Empty ELSE d
    IN  [j \in DOMAIN held \cup {i} |-> IF j = i THEN v ELSE held[j]]

(* Items are got in the order of the listing, whichever that is.           *)
Get(w) ==
    LET i == CHOOSE j \in worker[w].todo : TRUE
    IN
    /\ At(w, "get")
    /\ worker[w].todo # {}
    /\ dir' = [dir EXCEPT !["staging"] = With(@, i, remote)]
    /\ worker' = [worker EXCEPT ![w].todo = @ \ {i}]
    /\ UNCHANGED <<remote, layout, fresh, look, had, broken, marked>>

(* Mutant: the swap begins without waiting for every item.                 *)
swap_while_getting(w) ==
    /\ At(w, "get")
    /\ Goto(w, "rm_old")
    /\ UNCHANGED <<remote, layout, dir, fresh, look, had, broken, marked>>

Got(w) ==
    /\ At(w, "get")
    /\ worker[w].todo = {}
    /\ Goto(w, "rm_old")
    /\ UNCHANGED <<remote, layout, dir, fresh, look, had, broken, marked>>

(* A directory after rmtree: gone, or some of it left when that failed.    *)
(* What is left is removed by the next attempt and read by nobody.         *)
Remains(d) == IF d = None THEN {None} ELSE {None, Empty}

RemoveOld(w) ==
    /\ At(w, "rm_old")
    /\ dir' = [dir EXCEPT !["old"] = None]
    /\ Goto(w, "move_old")
    /\ UNCHANGED <<remote, layout, fresh, look, had, broken, marked>>

(* shutil.move puts the source inside a destination that is a directory.   *)
Moved(from, to) ==
    [dir EXCEPT ![from] = None, ![to] = IF @ = None THEN dir[from] ELSE @]

(* Every look at a target that changes is disturbed.                       *)
Watched ==
    [w \in Workers |->
        IF At(w, "read") /\ dir'["target"] # dir["target"]
        THEN [look[w] EXCEPT !.calm = FALSE] ELSE look[w]]

(* Mutant: the target is removed, not kept until the new one is in place.  *)
discard_old(w) ==
    /\ At(w, "move_old")
    /\ dir' = [dir EXCEPT !["target"] = None]
    /\ look' = Watched
    /\ Goto(w, "move_new")
    /\ UNCHANGED <<remote, layout, fresh, had, broken, marked>>

MoveOld(w) ==
    /\ At(w, "move_old")
    /\ dir' = IF dir["target"] = None THEN dir ELSE Moved("target", "old")
    /\ look' = Watched
    /\ Goto(w, "move_new")
    /\ UNCHANGED <<remote, layout, fresh, had, broken, marked>>

MoveNew(w) ==
    /\ At(w, "move_new")
    /\ dir["staging"] # None
    /\ dir' = Moved("staging", "target")
    /\ look' = Watched
    /\ Goto(w, "clean")
    /\ broken' = 0
    /\ had' = TRUE
    /\ UNCHANGED <<remote, layout, fresh, marked>>

CleanUp(w) ==
    /\ At(w, "clean")
    /\ \E d \in Remains(dir["old"]) : dir' = [dir EXCEPT !["old"] = d]
    /\ Goto(w, "mark")
    /\ UNCHANGED <<remote, layout, fresh, look, had, broken, marked>>

_mark_cache_fresh(w) ==
    /\ At(w, "mark")
    /\ fresh' = TRUE
    /\ marked' = worker[w].since
    /\ worker' = [worker EXCEPT ![w] = Reading]
    /\ UNCHANGED <<remote, layout, dir, look, had, broken>>

-----------------------------------------------------------------------------
(* Failures, retries and the fall back to what is there.                   *)

(* Mutant: one attempt too many.                                           *)
one_more_attempt(w) ==
    [worker[w] EXCEPT !.pc = IF worker[w].attempt <= MaxRetries THEN "stage" ELSE "idle",
                      !.todo = {}, !.attempt = @ + 1]

(* Mutant: falling back to the directory that is there marks it as fresh.  *)
mark_stale_directory(w) ==
    IF dir["target"] # None THEN [worker[w] EXCEPT !.pc = "mark", !.todo = {}] ELSE Idle

AfterFailure(w) ==
    IF worker[w].attempt < MaxRetries
    THEN [worker[w] EXCEPT !.pc = "stage", !.todo = {}, !.attempt = @ + 1]
    ELSE IF dir["target"] # None THEN Reading ELSE Idle

(* The network fails; the staging directory goes.                          *)
FetchFails(w) ==
    /\ worker[w].pc \in {"list", "get"}
    /\ \E d \in Remains(dir["staging"]) : dir' = [dir EXCEPT !["staging"] = d]
    /\ worker' = [worker EXCEPT ![w] = AfterFailure(w)]
    /\ UNCHANGED <<remote, layout, fresh, look, had, broken, marked>>

StageFails(w) ==
    /\ At(w, "stage")
    /\ \E d \in Remains(dir["staging"]) : dir' = [dir EXCEPT !["staging"] = d]
    /\ worker' = [worker EXCEPT ![w] = AfterFailure(w)]
    /\ UNCHANGED <<remote, layout, fresh, look, had, broken, marked>>

Broken == IF broken < 2 THEN broken + 1 ELSE 2

(* A step of the swap raises: nothing is put back, the next attempt begins *)
(* with a new staging directory.                                           *)
SwapFails(w) ==
    /\ worker[w].pc \in Swapping
    /\ dir' \in IF At(w, "rm_old")
                THEN {[dir EXCEPT !["old"] = d] : d \in Remains(dir["old"])} ELSE {dir}
    /\ worker' = [worker EXCEPT ![w] = AfterFailure(w)]
    /\ broken' = Broken
    /\ UNCHANGED <<remote, layout, fresh, look, had, marked>>

Crash(w) ==
    /\ ~At(w, "idle")
    /\ worker' = [worker EXCEPT ![w] = Idle]
    /\ look' = [look EXCEPT ![w] = Before]
    /\ broken' = IF worker[w].pc \in Swapping THEN Broken ELSE broken
    /\ UNCHANGED <<remote, layout, dir, fresh, had, marked>>

-----------------------------------------------------------------------------
(* discover_plugins and the reading of what it found.  Files come and go   *)
(* with the target only, a file that is there can be read, and the         *)
(* manifest lists the same plugins at every commit.                        *)

There(i) == dir["target"] # None /\ i \in DOMAIN dir["target"]
Directory == IF dir["target"] = None THEN {} ELSE Plugins \cap DOMAIN dir["target"]

(* At the root the plugins are in a directory of their own.                *)
HasPluginsDirectory == layout = "root" /\ Directory # {}

Looking(w, step) == At(w, "read") /\ look[w].step = step
Sees(w, l) ==
    /\ look' = [look EXCEPT ![w] = l]
    /\ UNCHANGED <<remote, layout, dir, fresh, worker, had, broken, marked>>

_parse_marketplace_json(w) ==
    /\ Looking(w, "manifest")
    /\ There(Manifest)
    /\ Sees(w, [look[w] EXCEPT !.step = "entries", !.todo = Listed])

(* There is no manifest, or it cannot be read.                             *)
NoManifest(w) ==
    /\ Looking(w, "manifest")
    /\ Sees(w, [look[w] EXCEPT !.step = "scan"])

ChooseLayout(w) ==
    /\ Looking(w, "scan")
    /\ Sees(w, [look[w] EXCEPT !.step = IF HasPluginsDirectory THEN "nested" ELSE "direct"])

(* The directory that is scanned may be gone by then.                      *)
_discover_from_directories(w) ==
    \/ /\ Looking(w, "nested")
       /\ Sees(w, IF HasPluginsDirectory
                  THEN [look[w] EXCEPT !.step = "entries", !.todo = Directory]
                  ELSE [look[w] EXCEPT !.step = "raised"])
    \/ /\ Looking(w, "direct")
       /\ Sees(w, IF dir["target"] # None
                  THEN [look[w] EXCEPT !.step = "entries",
                           !.todo = IF layout = "path" THEN Directory ELSE {}]
                  ELSE [look[w] EXCEPT !.step = "raised"])

Current(w) == CHOOSE p \in look[w].todo : TRUE

(* A plugin without a directory is skipped.                                *)
CheckEntry(w) ==
    /\ Looking(w, "entries")
    /\ look[w].todo # {}
    /\ Sees(w, [look[w] EXCEPT !.todo = @ \ {Current(w)},
                               !.found = @ \cup ({Current(w)} \cap Directory)])

(* Mutant: filters are trusted to have been applied by the download.       *)
trust_download(S) == S

_apply_filters(S) ==
    {p \in S : (Include # None /\ Include # {} => p \in Include) /\ p \notin Exclude}

discover_plugins(w) ==
    /\ Looking(w, "entries")
    /\ look[w].todo = {}
    /\ LET found == _apply_filters(look[w].found)
       IN  Sees(w, [look[w] EXCEPT !.step = "plugins", !.found = found, !.todo = found])

(* A part that is not there is left out of the definition; there is        *)
(* nothing to load from skills that are not there.                         *)
ReadPlugin(w) ==
    LET p == Current(w)
        part == look[w].part
        v == IF There(p) THEN dir["target"][p] ELSE None
        last == part = 3 \/ (part = 2 /\ v = None)
    IN
    /\ Looking(w, "plugins")
    /\ look[w].todo # {}
    /\ Sees(w, [look[w] EXCEPT !.got = @ \cup {<<p, part, v>>},
                               !.part = IF last THEN 1 ELSE part + 1,
                               !.todo = IF last THEN @ \ {p} ELSE @])

Served(w) == Looking(w, "plugins") /\ look[w].todo = {}

(* The definitions are returned, or the error goes to the caller.          *)
EndLook(w) ==
    /\ Served(w) \/ Looking(w, "raised")
    /\ worker' = [worker EXCEPT ![w] = Idle]
    /\ look' = [look EXCEPT ![w] = Before]
    /\ UNCHANGED <<remote, layout, dir, fresh, had, broken, marked>>

Commit ==
    /\ remote < MaxVersions
    /\ remote' = remote + 1
    /\ UNCHANGED <<layout, dir, fresh, worker, look, had, broken, marked>>

Expire ==
    /\ fresh
    /\ fresh' = FALSE
    /\ UNCHANGED <<remote, layout, dir, worker, look, had, broken, marked>>

Proceed(w) ==
    \/ Stage(w)
    \/ List(w)
    \/ Get(w)
    \/ Got(w)
    \/ RemoveOld(w)
    \/ MoveOld(w)
    \/ MoveNew(w)
    \/ CleanUp(w)
    \/ _mark_cache_fresh(w)
    \/ FetchFails(w)
    \/ StageFails(w)
    \/ SwapFails(w)

Discover(w) ==
    \/ _parse_marketplace_json(w)
    \/ NoManifest(w)
    \/ ChooseLayout(w)
    \/ _discover_from_directories(w)
    \/ CheckEntry(w)
    \/ discover_plugins(w)
    \/ ReadPlugin(w)
    \/ EndLook(w)

Next ==
    \/ \E w \in Workers :
         \/ \E forced \in BOOLEAN : Download(w, forced)
         \/ Proceed(w)
         \/ Discover(w)
         \/ Crash(w)
    \/ Commit
    \/ Expire

Spec == Init /\ [][Next]_vars

-----------------------------------------------------------------------------
Complete(d) ==
    /\ d # None
    /\ DOMAIN d \in {Items, _download_filtered, _download_repo_root(TRUE)}

AtMove(w) == At(w, "move_new")

(* The target is never a partial download, and once there is one it stays: *)
(* it is away only between the two moves of a swap, or after a swap was    *)
(* broken off there ("the existing target_dir is left untouched").         *)
TargetWhole ==
    /\ dir["target"] # None => Complete(dir["target"])
    /\ (dir["target"] = None /\ had) =>
           broken > 0 \/ \E w \in Workers : AtMove(w)

(* After one broken swap the directory it was replacing, or the complete   *)
(* download that was to replace it, is still on disk.                      *)
HeldCopies ==
    {dir["target"], dir["old"]} \cup
        (IF \E w \in Workers : worker[w].pc \in Swapping THEN {dir["staging"]} ELSE {})
CopyKept ==
    (had /\ broken < 2) => \E d \in HeldCopies : Complete(d)

(* github_directory_downloader.py:260: a swap takes several file system    *)
(* steps, each of which may fail or be the last: both of the above.        *)
DirectoryKept == TargetWhole /\ CopyKept

(* A marked target is no older than the beginning of the download that     *)
(* marked it, whatever failed since.                                       *)
MarkTellsAge ==
    (fresh /\ dir["target"] # None) =>
        \A i \in DOMAIN dir["target"] : dir["target"][i] >= marked

(* What one look served: nothing that is filtered out, and of one plugin   *)
(* nothing from an older download than what it read of it before.          *)
ServedInOrder(w) ==
    /\ look[w].found \subseteq _apply_filters(Plugins)
    /\ \A a, b \in look[w].got :
          a[1] = b[1] /\ a[2] < b[2] /\ a[3] # None /\ b[3] # None => a[3] <= b[3]

(* A look nobody disturbed served every part of every plugin the filters   *)
(* leave, as it is in the target.                                          *)
ServedWhole(w) ==
    /\ look[w].found \in {_apply_filters(Listed), _apply_filters(Plugins)}
    /\ look[w].found \subseteq Directory
    /\ look[w].got = {<<p, part, dir["target"][p]>> : p \in look[w].found, part \in Parts}

(* Discovery goes to the file system many times and takes what it finds    *)
(* (a plugin that is not there is skipped).  Unless a swap ran into it, it *)
(* serves the whole catalog the filters leave, whichever way the download  *)
(* was filtered, and does not fail; and even then it neither serves what   *)
(* is filtered out nor goes back to an older download in one plugin.       *)
ServesWholeCatalog ==
    \A w \in Workers :
        /\ Looking(w, "raised") => ~look[w].calm
        /\ Served(w) => ServedInOrder(w) /\ (look[w].calm => ServedWhole(w))
=============================================================================
