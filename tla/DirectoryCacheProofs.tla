------------------------- MODULE DirectoryCacheProofs -------------------------
(***************************************************************************)
(* Proofs about DirectoryCache for any number of workers, items, commits   *)
(* and retries.  Types are kept whatever workers do; everything else is    *)
(* proved of one fetch at a time (Overlap = FALSE), any number of workers  *)
(* reading meanwhile: what two fetches at once do to the directory is a    *)
(* finding of the model checker.                                           *)
(*                                                                         *)
(* The inductive invariant follows a download from staging to target:      *)
(* OneFetches says that only one worker is under way, Staged what it has   *)
(* staged, Kept where the directory it replaces is, Aged how old the files *)
(* are.                                                                    *)
(* LookInv follows a look through the target that others swap meanwhile:   *)
(* an undisturbed one keeps to the directory it began with, and no swap    *)
(* puts back anything older than what a look has read.                     *)
(***************************************************************************)
EXTENDS DirectoryCache, TLAPS

USE ItemsAssumption, BoundsAssumption, NoneAssumption

(* The items a complete download of this configuration holds.              *)
Wanted ==
    IF layout = "path" THEN {_download_filtered}
    ELSE {_download_repo_root(b) : b \in BOOLEAN}
Whole(d) == d # None /\ DOMAIN d \in Wanted
Since(d, v) == d # None /\ \A i \in DOMAIN d : d[i] >= v

OneFetches ==
    \A u, w \in Workers :
        worker[u].pc \in Fetching /\ worker[w].pc \in Fetching => u = w

WorkerStaged(w) ==
    /\ At(w, "list") => dir["staging"] = Empty
    /\ At(w, "get") =>
         dir["staging"] # None /\ worker[w].todo \cup DOMAIN dir["staging"] \in Wanted
    /\ worker[w].pc \in Swapping => Whole(dir["staging"])
Staged == \A w \in Workers : WorkerStaged(w)

(* A directory that was in place is in place still, or about to be         *)
(* replaced, or kept as old by the first swap that broke.                  *)
Moving == \E w \in Workers : AtMove(w)
Swaps == \E w \in Workers : worker[w].pc \in Swapping
TargetKept ==
    /\ dir["target"] # None => had /\ Whole(dir["target"])
    /\ had /\ dir["target"] = None => broken > 0 \/ Moving
OldKept == had /\ broken = 1 /\ ~Swaps => dir["target"] # None \/ Whole(dir["old"])
WorkerKept(w) ==
    /\ At(w, "move_old") => dir["old"] = None
    /\ At(w, "move_new") =>
         dir["target"] = None /\ (had /\ broken = 0 => Whole(dir["old"]))
    /\ worker[w].pc \in {"clean", "mark"} => broken = 0 /\ dir["target"] # None
    /\ At(w, "read") => had
Kept == TargetKept /\ OldKept /\ \A w \in Workers : WorkerKept(w)

WorkerAged(w) ==
    /\ worker[w].pc \in Fetching => marked <= worker[w].since /\ worker[w].since <= remote
    /\ worker[w].pc \in {"get"} \cup Swapping => Since(dir["staging"], worker[w].since)
    /\ worker[w].pc \in {"clean", "mark"} => Since(dir["target"], worker[w].since)
TargetAged ==
    /\ marked <= remote
    /\ fresh /\ dir["target"] # None => Since(dir["target"], marked)
Aged == TargetAged /\ \A w \in Workers : WorkerAged(w)

IInv == TypeOK /\ OneFetches /\ Staged /\ Kept /\ Aged

-----------------------------------------------------------------------------
(* Types                                                                   *)

(* A staging directory just made is a directory.                           *)
LEMMA EmptyDirectory == Empty \in Directories
<1>1. Empty \in [{} -> Versions]
  BY DEF Empty
<1> QED
  BY <1>1 DEF Directories

(* A directory with one item more.                                         *)
LEMMA WithFacts ==
  ASSUME NEW d \in Directories \cup {None}, NEW i \in Items, NEW v \in Versions
  PROVE  /\ With(d, i, v) \in Directories
         /\ With(d, i, v) # None
         /\ d # None =>
              /\ DOMAIN With(d, i, v) = DOMAIN d \cup {i}
              /\ \A j \in DOMAIN With(d, i, v) :
                    With(d, i, v)[j] = IF j = i THEN v ELSE d[j]
<1> DEFINE held == IF d = None THEN Empty ELSE d
<1>1. held \in Directories
  BY EmptyDirectory
<1>2. PICK S \in SUBSET Items : held \in [S -> Versions]
  BY <1>1 DEF Directories
<1>3. With(d, i, v) = [j \in DOMAIN held \cup {i} |-> IF j = i THEN v ELSE held[j]]
  BY DEF With
<1>4. With(d, i, v) \in [S \cup {i} -> Versions]
  BY <1>2, <1>3
<1>5. S \cup {i} \in SUBSET Items
  OBVIOUS
<1>6. With(d, i, v) \in Directories
  BY <1>4, <1>5 DEF Directories
<1> QED
  BY <1>2, <1>3, <1>6

(* What rmtree may leave.                                                  *)
LEMMA RemainsFacts ==
  ASSUME NEW d, NEW e \in Remains(d)
  PROVE  e \in Directories \cup {None}
BY EmptyDirectory DEF Remains

(* What is fetched are items.                                              *)
LEMMA WantedItems ==
  /\ _download_filtered \in SUBSET Items
  /\ \A b \in BOOLEAN : _download_repo_root(b) \in SUBSET Items
BY DEF _download_filtered, _download_repo_root, Filtered, Items

(* A worker between calls, and one that begins to look.                    *)
LEMMA RestTypes == Idle \in Calls /\ Reading \in Calls /\ Before \in Looks
<1>1. 1 \in 1..MaxRetries /\ 1 \in Versions
  BY DEF Versions
<1>2. Idle \in Calls /\ Reading \in Calls
  BY <1>1 DEF Idle, Reading, Calls, Pcs
<1>3. Before \in Looks
  BY DEF Before, Looks, Steps, Parts
<1> QED
  BY <1>2, <1>3

(* What is left of the types without what discovery has seen.              *)
CacheTypes ==
    /\ remote \in Versions
    /\ layout \in Layouts
    /\ dir \in [Paths -> Directories \cup {None}]
    /\ fresh \in BOOLEAN
    /\ worker \in [Workers -> Calls]
    /\ had \in BOOLEAN
    /\ broken \in 0..2
    /\ marked \in Versions

(* Where a failed call goes: it tries again, or takes what is there.       *)
LEMMA FailureFacts ==
  ASSUME CacheTypes, NEW w \in Workers
  PROVE  /\ AfterFailure(w) \in Calls
         /\ AfterFailure(w).pc \in {"stage", "read", "idle"}
         /\ AfterFailure(w).pc = "stage" => AfterFailure(w).since = worker[w].since
         /\ AfterFailure(w).pc = "read" => dir["target"] # None
<1>1. worker[w] \in Calls
  BY DEF CacheTypes
<1>2. CASE worker[w].attempt < MaxRetries
  <2>1. AfterFailure(w) = [worker[w] EXCEPT !.pc = "stage", !.todo = {}, !.attempt = @ + 1]
    BY <1>2 DEF AfterFailure
  <2>2. worker[w].attempt + 1 \in 1..MaxRetries
    BY <1>1, <1>2 DEF Calls
  <2> QED
    BY <1>1, <2>1, <2>2 DEF Calls, Pcs
<1>3. CASE ~(worker[w].attempt < MaxRetries)
  BY <1>3, RestTypes DEF AfterFailure, Idle, Reading
<1> QED
  BY <1>2, <1>3

(* Discovery changes nothing but what it has seen, until it ends.          *)
LEMMA DiscoverLeaves ==
  ASSUME NEW w \in Workers, Discover(w)
  PROVE  /\ At(w, "read")
         /\ UNCHANGED <<remote, layout, dir, fresh, had, broken, marked>>
         /\ worker' = worker \/ (EndLook(w) /\ worker' = [worker EXCEPT ![w] = Idle])
BY DEF Discover, _parse_marketplace_json, NoManifest, ChooseLayout, _discover_from_directories,
       CheckEntry, discover_plugins, ReadPlugin, EndLook, Served, Looking, Sees

(* Every step keeps the types, one fetch at a time or not.                 *)
LEMMA CacheTypeStep ==
  ASSUME CacheTypes, [Next]_vars
  PROVE  CacheTypes'
<1>0. /\ remote \in Versions /\ dir \in [Paths -> Directories \cup {None}]
      /\ worker \in [Workers -> Calls] /\ broken \in 0..2 /\ MaxRetries \in Nat \ {0}
      /\ \A p \in {"target", "staging", "old"} : p \in Paths
  BY DEF CacheTypes, Paths
<1>1. CASE UNCHANGED vars
  BY <1>1 DEF vars, CacheTypes
<1>2. CASE Commit
  BY <1>0, <1>2 DEF Commit, CacheTypes, Versions
<1>3. CASE Expire
  BY <1>3 DEF Expire, CacheTypes
<1>4. ASSUME NEW w \in Workers, NEW forced \in BOOLEAN, Download(w, forced) PROVE CacheTypes'
  <2>1. [pc |-> "stage", attempt |-> 1, todo |-> {}, since |-> remote] \in Calls
    BY <1>0 DEF Calls, Pcs
  <2>2. worker' \in [Workers -> Calls]
    BY <1>0, <1>4, <2>1, RestTypes DEF Download
  <2> QED
    BY <1>4, <2>2 DEF Download, CacheTypes
<1>5. ASSUME NEW w \in Workers, Crash(w) PROVE CacheTypes'
  <2>1. Idle \in Calls /\ Broken \in 0..2
    BY <1>0, RestTypes DEF Broken
  <2> QED
    BY <1>5, <2>1 DEF Crash, CacheTypes
<1>6. ASSUME NEW w \in Workers, Proceed(w) PROVE CacheTypes'
  <2>1. ASSUME NEW pc \in Pcs, Goto(w, pc) PROVE worker' \in [Workers -> Calls]
    BY <1>0, <2>1 DEF Goto, Calls
  <2>2. ASSUME NEW p \in Paths, NEW d \in Directories \cup {None}, dir' = [dir EXCEPT ![p] = d]
        PROVE  dir' \in [Paths -> Directories \cup {None}]
    BY <1>0, <2>2
  <2>3. ASSUME NEW from \in Paths, NEW to \in Paths, dir' = Moved(from, to)
        PROVE  dir' \in [Paths -> Directories \cup {None}]
    BY <1>0, <2>3 DEF Moved
  <2>4. CASE Stage(w)
    <3>1. worker' = [[worker EXCEPT ![w].pc = "list"] EXCEPT ![w].since = remote]
      BY <2>4 DEF Stage
    <3>2. [worker EXCEPT ![w].pc = "list"] \in [Workers -> Calls]
      BY <1>0 DEF Calls, Pcs
    <3>3. worker' \in [Workers -> Calls]
      BY <1>0, <3>1, <3>2 DEF Calls
    <3> QED
      BY <1>0, <2>2, <2>4, <3>3, EmptyDirectory DEF Stage, CacheTypes
  <2>5. CASE List(w)
    <3>1. PICK todo \in SUBSET Items :
            worker' = [worker EXCEPT ![w].pc = "get", ![w].todo = todo]
      <4>1. PICK b \in BOOLEAN :
              worker' = [worker EXCEPT ![w].pc = "get",
                  ![w].todo = IF layout = "path" THEN _download_filtered
                              ELSE _download_repo_root(b)]
        BY <2>5 DEF List
      <4>2. PICK todo \in SUBSET Items :
              todo = IF layout = "path" THEN _download_filtered ELSE _download_repo_root(b)
        BY WantedItems
      <4> QED
        BY <4>1, <4>2
    <3>2. worker' = [[worker EXCEPT ![w].pc = "get"] EXCEPT ![w].todo = todo]
      BY <3>1
    <3>3. [worker EXCEPT ![w].pc = "get"] \in [Workers -> Calls]
      BY <1>0 DEF Calls, Pcs
    <3>4. worker' \in [Workers -> Calls]
      BY <1>0, <3>2, <3>3 DEF Calls
    <3> QED
      BY <2>5, <3>4 DEF List, CacheTypes
  <2>6. CASE Get(w)
    <3>1. PICK i \in worker[w].todo :
            /\ dir' = [dir EXCEPT !["staging"] = With(dir["staging"], i, remote)]
            /\ worker' = [worker EXCEPT ![w].todo = worker[w].todo \ {i}]
      <4> DEFINE j == CHOOSE k \in worker[w].todo : TRUE
      <4>1. j \in worker[w].todo
        BY <2>6 DEF Get
      <4>2. /\ dir' = [dir EXCEPT !["staging"] = With(dir["staging"], j, remote)]
            /\ worker' = [worker EXCEPT ![w].todo = worker[w].todo \ {j}]
        BY <1>0, <2>6 DEF Get
      <4> HIDE DEF j
      <4> QED
        BY <4>1, <4>2
    <3>2. i \in Items
      BY <1>0, <3>1 DEF Calls
    <3>3. With(dir["staging"], i, remote) \in Directories
      BY <1>0, <3>2, WithFacts
    <3>4. worker' \in [Workers -> Calls]
      BY <1>0, <3>1 DEF Calls
    <3> QED
      BY <1>0, <2>2, <2>6, <3>1, <3>3, <3>4 DEF Get, CacheTypes
  <2>7. CASE Got(w)
    BY <2>1, <2>7 DEF Got, CacheTypes, Pcs
  <2>8. CASE RemoveOld(w)
    BY <1>0, <2>1, <2>2, <2>8 DEF RemoveOld, CacheTypes, Pcs
  <2>9. CASE MoveOld(w)
    BY <1>0, <2>1, <2>3, <2>9 DEF MoveOld, CacheTypes, Pcs
  <2>10. CASE MoveNew(w)
    BY <1>0, <2>1, <2>3, <2>10 DEF MoveNew, CacheTypes, Pcs
  <2>11. CASE CleanUp(w)
    BY <1>0, <2>1, <2>2, <2>11, RemainsFacts DEF CleanUp, CacheTypes, Pcs
  <2>12. CASE _mark_cache_fresh(w)
    BY <1>0, <2>12, RestTypes DEF _mark_cache_fresh, CacheTypes, Calls
  <2>14. CASE FetchFails(w) \/ StageFails(w)
    BY <1>0, <2>2, <2>14, RemainsFacts, FailureFacts DEF FetchFails, StageFails, CacheTypes
  <2>15. CASE SwapFails(w)
    <3>1. dir' \in [Paths -> Directories \cup {None}]
      BY <1>0, <2>2, <2>15, RemainsFacts DEF SwapFails
    <3>2. broken' \in 0..2
      BY <1>0, <2>15 DEF SwapFails, Broken
    <3> QED
      BY <2>15, <3>1, <3>2, FailureFacts DEF SwapFails, CacheTypes
  <2> QED
    BY <1>6, <2>4, <2>5, <2>6, <2>7, <2>8, <2>9, <2>10, <2>11, <2>12, <2>14, <2>15
       DEF Proceed
<1>7. ASSUME NEW w \in Workers, Discover(w) PROVE CacheTypes'
  BY <1>0, <1>7, DiscoverLeaves, RestTypes DEF CacheTypes
<1> QED
  BY <1>1, <1>2, <1>3, <1>4, <1>5, <1>6, <1>7 DEF Next

(* A look disturbed keeps its type.                                        *)
LEMMA WatchedTypes ==
  ASSUME look \in [Workers -> Looks]
  PROVE  Watched \in [Workers -> Looks]
BY DEF Watched, Looks

LEMMA LookTypeStep ==
  ASSUME TypeOK, [Next]_vars
  PROVE  look' \in [Workers -> Looks]
<1>0. look \in [Workers -> Looks]
  BY DEF TypeOK
<1>1. CASE UNCHANGED look
  BY <1>0, <1>1
<1>2. ASSUME NEW w \in Workers, Crash(w) \/ EndLook(w) PROVE look' \in [Workers -> Looks]
  BY <1>0, <1>2, RestTypes DEF Crash, EndLook
<1>3. ASSUME NEW w \in Workers, MoveOld(w) \/ MoveNew(w) PROVE look' \in [Workers -> Looks]
  BY <1>0, <1>3, WatchedTypes DEF MoveOld, MoveNew
<1>4. ASSUME NEW w \in Workers, Discover(w) PROVE look' \in [Workers -> Looks]
  <2>0. look[w] \in Looks
    BY <1>0
  <2>1. ASSUME NEW l \in Looks, Sees(w, l) PROVE look' \in [Workers -> Looks]
    BY <1>0, <2>1 DEF Sees
  <2>2. Listed \in SUBSET Plugins /\ Directory \in SUBSET Plugins /\ 1 \in Parts
    BY DEF Directory, Parts
  <2>3. CASE _parse_marketplace_json(w)
    <3>1. [look[w] EXCEPT !.step = "entries", !.todo = Listed] \in Looks
      BY <2>0, <2>2 DEF Looks, Steps
    <3> QED
      BY <2>1, <2>3, <3>1 DEF _parse_marketplace_json
  <2>4. CASE NoManifest(w) \/ ChooseLayout(w)
    <3>1. \A step \in Steps : [look[w] EXCEPT !.step = step] \in Looks
      BY <2>0 DEF Looks
    <3> QED
      BY <2>1, <2>4, <3>1 DEF NoManifest, ChooseLayout, Steps
  <2>5. CASE _discover_from_directories(w)
    <3>1. [look[w] EXCEPT !.step = "raised"] \in Looks
      BY <2>0 DEF Looks, Steps
    <3>2. \A S \in SUBSET Plugins : [look[w] EXCEPT !.step = "entries", !.todo = S] \in Looks
      BY <2>0 DEF Looks, Steps
    <3>3. (IF layout = "path" THEN Directory ELSE {}) \in SUBSET Plugins
      BY <2>2
    <3> QED
      BY <2>1, <2>2, <2>5, <3>1, <3>2, <3>3 DEF _discover_from_directories
  <2>6. CASE CheckEntry(w)
    <3>1. \A S, T \in SUBSET Plugins : [look[w] EXCEPT !.todo = S, !.found = T] \in Looks
      BY <2>0 DEF Looks
    <3>2. /\ look[w].todo \ {Current(w)} \in SUBSET Plugins
          /\ look[w].found \cup ({Current(w)} \cap Directory) \in SUBSET Plugins
      BY <2>0, <2>2 DEF Looks
    <3> QED
      BY <2>1, <2>6, <3>1, <3>2 DEF CheckEntry
  <2>7. CASE discover_plugins(w)
    <3>1. _apply_filters(look[w].found) \in SUBSET Plugins
      BY <2>0 DEF Looks, _apply_filters
    <3>2. \A S \in SUBSET Plugins :
            [look[w] EXCEPT !.step = "plugins", !.found = S, !.todo = S] \in Looks
      BY <2>0 DEF Looks, Steps
    <3> QED
      BY <2>1, <2>7, <3>1, <3>2 DEF discover_plugins
  <2>8. CASE ReadPlugin(w)
    <3> DEFINE p == Current(w)
               v == IF There(p) THEN dir["target"][p] ELSE None
               last == look[w].part = 3 \/ (look[w].part = 2 /\ v = None)
               part == IF last THEN 1 ELSE look[w].part + 1
               todo == IF last THEN look[w].todo \ {p} ELSE look[w].todo
               got == look[w].got \cup {<<p, look[w].part, v>>}
    <3>1. p \in Plugins
      BY <2>0, <2>8 DEF ReadPlugin, Current, Looks
    <3>2. v \in Versions \cup {None}
      <4>1. dir["target"] \in Directories \cup {None}
        BY DEF TypeOK, Paths
      <4> QED
        BY <4>1 DEF There, Directories
    <3>3. Sees(w, [look[w] EXCEPT !.got = got, !.part = part, !.todo = todo])
      BY <2>8 DEF ReadPlugin
    <3>4. look[w].part \in Parts /\ look[w].todo \in SUBSET Plugins
          /\ look[w].got \in SUBSET (Plugins \X Parts \X (Versions \cup {None}))
      BY <2>0 DEF Looks
    <3>5. part \in Parts /\ todo \in SUBSET Plugins
      BY <3>4 DEF Parts
    <3>6. got \in SUBSET (Plugins \X Parts \X (Versions \cup {None}))
      BY <3>1, <3>2, <3>4
    <3> HIDE DEF got, part, todo
    <3>7. [look[w] EXCEPT !.got = got, !.part = part, !.todo = todo] \in Looks
      BY <2>0, <3>5, <3>6 DEF Looks
    <3> QED
      BY <2>1, <3>3, <3>7
  <2> QED
    BY <1>2, <1>4, <2>3, <2>4, <2>5, <2>6, <2>7, <2>8 DEF Discover
<1>5. ASSUME NEW w \in Workers, Proceed(w) PROVE look' \in [Workers -> Looks]
  BY <1>1, <1>3, <1>5
     DEF Proceed, Stage, List, Get, Got, RemoveOld, CleanUp, _mark_cache_fresh,
         FetchFails, StageFails, SwapFails
<1> QED
  BY <1>1, <1>2, <1>4, <1>5 DEF Next, Download, Commit, Expire, vars

LEMMA TypeStep ==
  ASSUME TypeOK, [Next]_vars
  PROVE  TypeOK'
BY CacheTypeStep, LookTypeStep DEF TypeOK, CacheTypes

LEMMA TypeInit == Init => TypeOK
<1>1. Idle \in Calls /\ Before \in Looks /\ 1 \in Versions
  BY RestTypes DEF Versions
<1>2. ASSUME Init PROVE worker \in [Workers -> Calls] /\ look \in [Workers -> Looks]
  BY <1>1, <1>2 DEF Init
<1>3. ASSUME Init PROVE dir \in [Paths -> Directories \cup {None}]
  BY <1>3 DEF Init
<1>4. ASSUME Init PROVE fresh \in BOOLEAN /\ had \in BOOLEAN
  BY <1>4, Zenon DEF Init
<1>5. 0 \in 0..2
  OBVIOUS
<1>6. ASSUME Init PROVE remote \in Versions /\ layout \in Layouts /\ broken \in 0..2 /\ marked \in Versions
  BY <1>1, <1>5, <1>6, Zenon DEF Init
<1> QED
  BY <1>2, <1>3, <1>4, <1>6 DEF TypeOK

(* Every variable keeps its type, whatever workers run into each other: no *)
(* step of a download leaves a path with anything but a directory of items *)
(* of known commits, and no call makes more attempts than it may.          *)
THEOREM TypeCorrect == Spec => []TypeOK
BY TypeInit, TypeStep, PTL DEF Spec

-----------------------------------------------------------------------------
(* One fetch at a time                                                     *)

Only(w) == \A u \in Workers : u # w => worker'[u] = worker[u]
Goes(w, pc) ==
    /\ Only(w)
    /\ worker'[w].pc = pc
    /\ worker'[w].todo = worker[w].todo
    /\ worker'[w].since = worker[w].since

LEMMA GotoFacts ==
  ASSUME TypeOK, NEW w \in Workers, NEW pc, Goto(w, pc)
  PROVE  Goes(w, pc)
BY DEF TypeOK, Goto, Goes, Only, Calls

(* What the invariant says of a worker that neither fetches nor swaps.     *)
LEMMA QuietWorker ==
  ASSUME NEW u \in Workers, worker[u].pc \in {"idle", "read"}, At(u, "read") => had
  PROVE  WorkerStaged(u) /\ WorkerKept(u) /\ WorkerAged(u)
BY DEF WorkerStaged, WorkerKept, WorkerAged, At, Fetching, Swapping, Pcs

(* A step of the one that fetches leaves the others quiet, so that the     *)
(* invariant is about the directory and that worker.                       *)
LEMMA FetcherAlone ==
  ASSUME IInv, NEW w \in Workers, worker[w].pc \in Fetching, Only(w)
  PROVE  /\ \A u \in Workers : u # w =>
              worker[u].pc \in {"idle", "read"} /\ worker'[u].pc \in {"idle", "read"}
         /\ Moving <=> AtMove(w)
         /\ Swaps <=> worker[w].pc \in Swapping
         /\ Moving' <=> AtMove(w)'
         /\ Swaps' <=> (worker[w].pc \in Swapping)'
<1>1. \A u \in Workers : u # w => worker[u].pc \in {"idle", "read"}
  BY DEF IInv, OneFetches, TypeOK, Calls, Fetching
<1>2. \A u \in Workers : u # w => worker'[u].pc \in {"idle", "read"}
  BY <1>1 DEF Only
<1> QED
  BY <1>1, <1>2 DEF Moving, Swaps, AtMove, At, Swapping

LEMMA FetcherStep ==
  ASSUME IInv, TypeOK', NEW w \in Workers, worker[w].pc \in Fetching, Only(w), had => had',
         TargetKept', OldKept', TargetAged',
         WorkerStaged(w)', WorkerKept(w)', WorkerAged(w)'
  PROVE  IInv'
<1>1. \A u \in Workers : u # w =>
        worker[u].pc \in {"idle", "read"} /\ worker'[u].pc \in {"idle", "read"}
  BY FetcherAlone
<1>2. OneFetches'
  BY <1>1 DEF OneFetches, Fetching
<1>3. ASSUME NEW u \in Workers, u # w
      PROVE  WorkerStaged(u)' /\ WorkerKept(u)' /\ WorkerAged(u)'
  <2>1. worker'[u].pc \in {"idle", "read"} /\ (At(u, "read")' => had')
    BY <1>1, <1>3 DEF IInv, Kept, WorkerKept, Only, At
  <2> QED
    BY <2>1 DEF WorkerStaged, WorkerKept, WorkerAged, At, Fetching, Swapping, Pcs
<1> QED
  BY <1>2, <1>3 DEF IInv, Staged, Kept, Aged

(* What the invariant says of one worker, and what does not change with it.*)
LEMMA OfOne ==
  ASSUME IInv, NEW w \in Workers
  PROVE  /\ TypeOK /\ CacheTypes /\ TargetKept /\ OldKept /\ TargetAged
         /\ WorkerStaged(w) /\ WorkerKept(w) /\ WorkerAged(w)
         /\ remote \in Nat /\ worker[w].since \in Nat /\ marked \in Nat /\ broken \in 0..2
         /\ layout' = layout => Wanted' = Wanted
BY DEF IInv, Staged, Kept, Aged, TypeOK, CacheTypes, Calls, Versions, Wanted

-----------------------------------------------------------------------------
(* The steps of a fetch                                                    *)

LEMMA StageKeeps ==
  ASSUME IInv, TypeOK', NEW w \in Workers, Stage(w)
  PROVE  IInv'
<1>1. /\ Only(w) /\ worker'[w].pc = "list" /\ worker'[w].since = remote
      /\ worker[w].pc = "stage" /\ worker[w].pc \in Fetching
      /\ dir'["target"] = dir["target"] /\ dir'["old"] = dir["old"] /\ dir'["staging"] = Empty
      /\ UNCHANGED <<remote, layout, fresh, had, broken, marked>>
  BY DEF Stage, Only, At, IInv, TypeOK, Calls, Paths, Fetching, Pcs
<1>2. /\ Moving <=> AtMove(w)
      /\ Swaps <=> worker[w].pc \in Swapping
      /\ Moving' <=> AtMove(w)'
      /\ Swaps' <=> (worker[w].pc \in Swapping)'
  BY <1>1, FetcherAlone
<1>3. TargetKept' /\ OldKept' /\ TargetAged'
  BY <1>1, <1>2, OfOne
     DEF TargetKept, OldKept, TargetAged, Whole, Since, AtMove, At, Swapping
<1>4. WorkerStaged(w)' /\ WorkerKept(w)'
  BY <1>1 DEF WorkerStaged, WorkerKept, At, Swapping
<1>5. WorkerAged(w)'
  BY <1>1, OfOne DEF WorkerAged, TargetAged, Swapping
<1> QED
  BY <1>1, <1>3, <1>4, <1>5, FetcherStep

LEMMA ListKeeps ==
  ASSUME IInv, TypeOK', NEW w \in Workers, List(w)
  PROVE  IInv'
<1>1. PICK todo \in Wanted :
        worker' = [[worker EXCEPT ![w].pc = "get"] EXCEPT ![w].todo = todo]
  BY DEF List, Wanted, IInv, TypeOK
<1>2. /\ Only(w) /\ worker'[w].pc = "get" /\ worker'[w].since = worker[w].since
      /\ worker'[w].todo = todo
      /\ worker[w].pc = "list" /\ worker[w].pc \in Fetching
      /\ UNCHANGED <<remote, layout, dir, fresh, had, broken, marked>>
  BY <1>1 DEF List, Only, At, IInv, TypeOK, Calls, Fetching, Pcs
<1>3. /\ Moving <=> AtMove(w)
      /\ Swaps <=> worker[w].pc \in Swapping
      /\ Moving' <=> AtMove(w)'
      /\ Swaps' <=> (worker[w].pc \in Swapping)'
  BY <1>2, FetcherAlone
<1>4. TargetKept' /\ OldKept' /\ TargetAged'
  BY <1>2, <1>3, OfOne
     DEF TargetKept, OldKept, TargetAged, Whole, Since, AtMove, At, Swapping
<1>5. dir["staging"] # None /\ DOMAIN dir["staging"] = {}
  BY <1>2, OfOne, EmptyDirectory DEF WorkerStaged, At, Empty
<1>6. WorkerStaged(w)' /\ WorkerKept(w)' /\ WorkerAged(w)'
  BY <1>1, <1>2, <1>5, OfOne DEF WorkerStaged, WorkerKept, WorkerAged, Since, At, Fetching, Swapping
<1> QED
  BY <1>2, <1>4, <1>6, FetcherStep

LEMMA GetKeeps ==
  ASSUME IInv, TypeOK', NEW w \in Workers, Get(w)
  PROVE  IInv'
<1> DEFINE d == dir["staging"]
           e == dir'["staging"]
<1>1. PICK i \in worker[w].todo :
        /\ dir' = [dir EXCEPT !["staging"] = With(dir["staging"], i, remote)]
        /\ worker' = [worker EXCEPT ![w].todo = worker[w].todo \ {i}]
  <2> DEFINE j == CHOOSE k \in worker[w].todo : TRUE
  <2>1. j \in worker[w].todo
    BY DEF Get
  <2>2. /\ dir' = [dir EXCEPT !["staging"] = With(dir["staging"], j, remote)]
        /\ worker' = [worker EXCEPT ![w].todo = worker[w].todo \ {j}]
    BY DEF Get, IInv, TypeOK, Paths
  <2> HIDE DEF j
  <2> QED
    BY <2>1, <2>2
<1>2. /\ Only(w) /\ worker'[w].pc = "get" /\ worker'[w].since = worker[w].since
      /\ worker'[w].todo = worker[w].todo \ {i}
      /\ worker[w].pc = "get" /\ worker[w].pc \in Fetching
      /\ dir'["target"] = dir["target"] /\ dir'["old"] = dir["old"] /\ e = With(d, i, remote)
      /\ UNCHANGED <<remote, layout, fresh, had, broken, marked>>
  BY <1>1 DEF Get, Only, At, IInv, TypeOK, Calls, Paths, Fetching, Pcs
<1>3. /\ Moving <=> AtMove(w)
      /\ Swaps <=> worker[w].pc \in Swapping
      /\ Moving' <=> AtMove(w)'
      /\ Swaps' <=> (worker[w].pc \in Swapping)'
  BY <1>2, FetcherAlone
<1>4. TargetKept' /\ OldKept' /\ TargetAged'
  BY <1>2, <1>3, OfOne
     DEF TargetKept, OldKept, TargetAged, Whole, Since, AtMove, At, Swapping
<1>5. d # None /\ worker[w].todo \cup DOMAIN d \in Wanted /\ Since(d, worker[w].since)
  BY <1>2, OfOne DEF WorkerStaged, WorkerAged, At
<1>6. /\ e # None /\ DOMAIN e = DOMAIN d \cup {i}
      /\ \A j \in DOMAIN e : e[j] = IF j = i THEN remote ELSE d[j]
  <2>1. d \in Directories \cup {None} /\ i \in Items /\ remote \in Versions
    BY <1>1 DEF IInv, TypeOK, Calls, Paths
  <2>2. e = With(d, i, remote) /\ d # None
    BY <1>2, <1>5
  <2> HIDE DEF d, e
  <2> QED
    BY <2>1, <2>2, WithFacts
<1> HIDE DEF d, e
<1>7. (worker[w].todo \ {i}) \cup DOMAIN e = worker[w].todo \cup DOMAIN d
  BY <1>6
<1>8. Since(e, worker[w].since)
  <2>1. worker[w].since <= remote
    BY <1>2, OfOne DEF WorkerAged
  <2> QED
    BY <1>5, <1>6, <2>1, OfOne DEF Since
<1>9. WorkerStaged(w)' /\ WorkerKept(w)' /\ WorkerAged(w)'
  <2>1. e = dir'["staging"]
    BY DEF e
  <2>2. WorkerStaged(w)'
    <3>1. Wanted' = Wanted
      BY <1>2, OfOne
    <3> QED
      BY <1>2, <1>5, <1>6, <1>7, <2>1, <3>1 DEF WorkerStaged, At, Swapping
  <2>3. WorkerKept(w)'
    BY <1>2 DEF WorkerKept, At
  <2>4. WorkerAged(w)'
    <3>1. marked <= worker[w].since /\ worker[w].since <= remote
      BY <1>2, OfOne DEF WorkerAged
    <3>2. Since(dir["staging"], worker[w].since)'
      BY <1>2, <1>8, <2>1 DEF Since
    <3> QED
      BY <1>2, <3>1, <3>2 DEF WorkerAged
  <2> QED
    BY <2>2, <2>3, <2>4
<1> QED
  BY <1>2, <1>4, <1>9, FetcherStep

LEMMA GotKeeps ==
  ASSUME IInv, TypeOK', NEW w \in Workers, Got(w)
  PROVE  IInv'
<1>1. /\ Goes(w, "rm_old") /\ Only(w)
      /\ worker[w].pc = "get" /\ worker[w].pc \in Fetching /\ worker[w].todo = {}
      /\ UNCHANGED <<remote, layout, dir, fresh, had, broken, marked>>
  BY GotoFacts, OfOne DEF Got, Goes, At, Fetching, Pcs
<1>2. /\ Moving <=> AtMove(w)
      /\ Swaps <=> worker[w].pc \in Swapping
      /\ Moving' <=> AtMove(w)'
      /\ Swaps' <=> (worker[w].pc \in Swapping)'
  BY <1>1, FetcherAlone
<1>3. TargetKept' /\ OldKept' /\ TargetAged'
  BY <1>1, <1>2, OfOne
     DEF Goes, TargetKept, OldKept, TargetAged, Whole, Since, AtMove, At, Swapping
<1>4. WorkerStaged(w)' /\ WorkerKept(w)' /\ WorkerAged(w)'
  BY <1>1, OfOne DEF Goes, WorkerStaged, WorkerKept, WorkerAged, Whole, Since, At, Fetching, Swapping
<1> QED
  BY <1>1, <1>3, <1>4, FetcherStep

-----------------------------------------------------------------------------
(* The swap                                                                *)

LEMMA RemoveOldKeeps ==
  ASSUME IInv, TypeOK', NEW w \in Workers, RemoveOld(w)
  PROVE  IInv'
<1>1. /\ Goes(w, "move_old") /\ Only(w)
      /\ worker[w].pc = "rm_old" /\ worker[w].pc \in Fetching
      /\ dir'["target"] = dir["target"] /\ dir'["staging"] = dir["staging"] /\ dir'["old"] = None
      /\ UNCHANGED <<remote, layout, fresh, had, broken, marked>>
  BY GotoFacts, OfOne DEF RemoveOld, Goes, At, Fetching, Pcs, TypeOK, Paths
<1>2. /\ Moving <=> AtMove(w)
      /\ Swaps <=> worker[w].pc \in Swapping
      /\ Moving' <=> AtMove(w)'
      /\ Swaps' <=> (worker[w].pc \in Swapping)'
  BY <1>1, FetcherAlone
<1>3. TargetKept' /\ OldKept' /\ TargetAged'
  BY <1>1, <1>2, OfOne
     DEF Goes, TargetKept, OldKept, TargetAged, Whole, Since, AtMove, At, Swapping
<1>4. WorkerStaged(w)'
  <2>1. Whole(dir["staging"]) /\ Wanted' = Wanted
    BY <1>1, OfOne DEF WorkerStaged, Swapping
  <2> QED
    BY <1>1, <2>1 DEF Goes, WorkerStaged, Whole, At
<1>5. WorkerKept(w)'
  BY <1>1 DEF Goes, WorkerKept, At
<1>6. WorkerAged(w)'
  BY <1>1, OfOne DEF Goes, WorkerAged, Since, Swapping
<1> QED
  BY <1>1, <1>3, <1>4, <1>5, <1>6, FetcherStep

LEMMA MoveOldKeeps ==
  ASSUME IInv, TypeOK', NEW w \in Workers, MoveOld(w)
  PROVE  IInv'
<1>1. /\ Goes(w, "move_new") /\ Only(w)
      /\ worker[w].pc = "move_old" /\ worker[w].pc \in Fetching
      /\ UNCHANGED <<remote, layout, fresh, had, broken, marked>>
  BY GotoFacts, OfOne DEF MoveOld, Goes, At, Fetching, Pcs
<1>2. /\ Moving <=> AtMove(w)
      /\ Swaps <=> worker[w].pc \in Swapping
      /\ Moving' <=> AtMove(w)'
      /\ Swaps' <=> (worker[w].pc \in Swapping)'
  BY <1>1, FetcherAlone
<1>3. dir["old"] = None
  BY <1>1, OfOne DEF WorkerKept, At
<1>4. dir'["target"] = None /\ dir'["staging"] = dir["staging"] /\ dir'["old"] = dir["target"]
  <2>1. CASE dir["target"] = None
    BY <1>3, <2>1 DEF MoveOld
  <2>2. CASE dir["target"] # None
    BY <1>3, <2>2, OfOne DEF MoveOld, Moved, TypeOK, Paths
  <2> QED
    BY <2>1, <2>2
<1>5. had /\ broken = 0 => Whole(dir["target"])
  BY <1>1, <1>2, OfOne DEF TargetKept, AtMove, At
<1>6. TargetKept' /\ OldKept' /\ TargetAged'
  <2>1. Moving' /\ Swaps'
    BY <1>1, <1>2 DEF Goes, AtMove, At, Swapping
  <2>2. TargetKept' /\ OldKept'
    BY <1>4, <2>1 DEF TargetKept, OldKept
  <2>3. TargetAged'
    BY <1>1, <1>4, OfOne DEF TargetAged
  <2> QED
    BY <2>2, <2>3
<1>7. WorkerStaged(w)'
  <2>1. Whole(dir["staging"]) /\ Wanted' = Wanted
    BY <1>1, OfOne DEF WorkerStaged, Swapping
  <2> QED
    BY <1>1, <1>4, <2>1 DEF Goes, WorkerStaged, Whole, At
<1>8. WorkerKept(w)'
  BY <1>1, <1>4, <1>5, OfOne DEF Goes, WorkerKept, Whole, At
<1>9. WorkerAged(w)'
  BY <1>1, <1>4, OfOne DEF Goes, WorkerAged, Since, Swapping
<1> QED
  BY <1>1, <1>6, <1>7, <1>8, <1>9, FetcherStep

LEMMA MoveNewKeeps ==
  ASSUME IInv, TypeOK', NEW w \in Workers, MoveNew(w)
  PROVE  IInv'
<1>1. /\ Goes(w, "clean") /\ Only(w)
      /\ worker[w].pc = "move_new" /\ worker[w].pc \in Fetching
      /\ had' = TRUE /\ broken' = 0
      /\ UNCHANGED <<remote, layout, fresh, marked>>
  BY GotoFacts, OfOne DEF MoveNew, Goes, At, Fetching, Pcs
<1>2. /\ Moving <=> AtMove(w)
      /\ Swaps <=> worker[w].pc \in Swapping
      /\ Moving' <=> AtMove(w)'
      /\ Swaps' <=> (worker[w].pc \in Swapping)'
  BY <1>1, FetcherAlone
<1>3. dir["target"] = None
  BY <1>1, OfOne DEF WorkerKept, At
<1>4. dir'["target"] = dir["staging"] /\ dir["staging"] # None
  BY <1>3, OfOne DEF MoveNew, Moved, TypeOK, Paths
<1>5. Whole(dir["staging"]) /\ Since(dir["staging"], worker[w].since)
  BY <1>1, OfOne DEF WorkerStaged, WorkerAged, Swapping
<1>6. marked <= worker[w].since /\ worker[w].since <= remote
  BY <1>1, OfOne DEF WorkerAged
<1>7. Since(dir["staging"], marked)
  <2>1. dir["staging"] \in Directories
    BY <1>4, OfOne DEF TypeOK, Paths
  <2>2. \A i \in DOMAIN dir["staging"] : dir["staging"][i] \in Nat
    BY <2>1 DEF Directories, Versions
  <2> QED
    BY <1>5, <1>6, <2>2, OfOne DEF Since
<1>8. TargetKept' /\ OldKept'
  BY <1>1, <1>4, <1>5, OfOne DEF TargetKept, OldKept, Whole
<1>9. TargetAged'
  BY <1>1, <1>4, <1>7, OfOne DEF TargetAged, Since
<1>10. WorkerStaged(w)' /\ WorkerKept(w)'
  BY <1>1, <1>4 DEF Goes, WorkerStaged, WorkerKept, At, Swapping
<1>11. WorkerAged(w)'
  BY <1>1, <1>4, <1>5, <1>6, OfOne DEF Goes, WorkerAged, Since, Swapping
<1> QED
  BY <1>1, <1>8, <1>9, <1>10, <1>11, FetcherStep

LEMMA CleanUpKeeps ==
  ASSUME IInv, TypeOK', NEW w \in Workers, CleanUp(w)
  PROVE  IInv'
<1>1. /\ Goes(w, "mark") /\ Only(w)
      /\ worker[w].pc = "clean" /\ worker[w].pc \in Fetching
      /\ dir'["target"] = dir["target"] /\ dir'["staging"] = dir["staging"]
      /\ UNCHANGED <<remote, layout, fresh, had, broken, marked>>
  BY GotoFacts, OfOne DEF CleanUp, Goes, At, Fetching, Pcs, TypeOK, Paths
<1>2. dir["target"] # None /\ broken = 0
  BY <1>1, OfOne DEF WorkerKept
<1>3. TargetKept' /\ OldKept' /\ TargetAged'
  BY <1>1, <1>2, OfOne DEF TargetKept, OldKept, TargetAged, Whole, Since
<1>4. WorkerStaged(w)' /\ WorkerKept(w)'
  BY <1>1, <1>2 DEF Goes, WorkerStaged, WorkerKept, At, Swapping
<1>5. WorkerAged(w)'
  BY <1>1, OfOne DEF Goes, WorkerAged, Since, Swapping
<1> QED
  BY <1>1, <1>3, <1>4, <1>5, FetcherStep

LEMMA MarkKeeps ==
  ASSUME IInv, TypeOK', NEW w \in Workers, _mark_cache_fresh(w)
  PROVE  IInv'
<1>1. /\ worker'[w].pc = "read" /\ Only(w)
      /\ worker[w].pc = "mark" /\ worker[w].pc \in Fetching
      /\ fresh' = TRUE /\ marked' = worker[w].since
      /\ UNCHANGED <<remote, layout, dir, had, broken>>
  BY OfOne DEF _mark_cache_fresh, Only, Reading, Idle, At, TypeOK, Fetching, Pcs
<1>2. dir["target"] # None /\ broken = 0
  BY <1>1, OfOne DEF WorkerKept
<1>3. TargetKept' /\ OldKept'
  BY <1>1, <1>2, OfOne DEF TargetKept, OldKept, Whole
<1>4. worker[w].since <= remote /\ Since(dir["target"], worker[w].since)
  BY <1>1, OfOne DEF WorkerAged
<1>5. TargetAged'
  BY <1>1, <1>4 DEF TargetAged, Since
<1>6. had
  BY <1>2, OfOne DEF TargetKept
<1>7. WorkerStaged(w)' /\ WorkerKept(w)' /\ WorkerAged(w)'
  BY <1>1, <1>6 DEF WorkerStaged, WorkerKept, WorkerAged, At, Fetching, Swapping, Pcs
<1> QED
  BY <1>1, <1>3, <1>5, <1>7, FetcherStep

-----------------------------------------------------------------------------
(* Failures                                                                *)

(* A fetch that fails leaves the target and the directory kept as it was.  *)
LEMMA FetchFailureKeeps ==
  ASSUME IInv, TypeOK', NEW w \in Workers, FetchFails(w) \/ StageFails(w)
  PROVE  IInv'
<1>1. /\ Only(w) /\ worker'[w] = AfterFailure(w)
      /\ worker[w].pc \in {"stage", "list", "get"} /\ worker[w].pc \in Fetching
      /\ dir'["target"] = dir["target"] /\ dir'["old"] = dir["old"]
      /\ UNCHANGED <<remote, layout, fresh, had, broken, marked>>
  BY OfOne DEF FetchFails, StageFails, Only, At, TypeOK, Paths, Fetching, Pcs
<1>2. /\ worker'[w].pc \in {"stage", "read", "idle"}
      /\ worker'[w].pc = "stage" => worker'[w].since = worker[w].since
      /\ worker'[w].pc = "read" => dir["target"] # None
  BY <1>1, FailureFacts, OfOne
<1>3. /\ Moving <=> AtMove(w)
      /\ Swaps <=> worker[w].pc \in Swapping
      /\ Moving' <=> AtMove(w)'
      /\ Swaps' <=> (worker[w].pc \in Swapping)'
  BY <1>1, FetcherAlone
<1>4. TargetKept' /\ OldKept' /\ TargetAged'
  BY <1>1, <1>2, <1>3, OfOne
     DEF TargetKept, OldKept, TargetAged, Whole, Since, AtMove, At, Swapping
<1>5. worker'[w].pc = "read" => had'
  BY <1>1, <1>2, OfOne DEF TargetKept
<1>6. marked <= worker[w].since /\ worker[w].since <= remote
  BY <1>1, OfOne DEF WorkerAged
<1>7. WorkerStaged(w)' /\ WorkerKept(w)' /\ WorkerAged(w)'
  BY <1>1, <1>2, <1>5, <1>6 DEF WorkerStaged, WorkerKept, WorkerAged, At, Fetching, Swapping
<1> QED
  BY <1>1, <1>4, <1>7, FetcherStep

(* The first swap that breaks, wherever it does, leaves the directory it   *)
(* was replacing at the target or at old.                                  *)
LEMMA FirstBreakKeeps ==
  ASSUME IInv, NEW w \in Workers, worker[w].pc \in Swapping, Only(w), had,
         Broken = 1, dir["target"] = None
  PROVE  At(w, "move_new") /\ Whole(dir["old"])
<1>1. broken = 0
  BY OfOne DEF Broken
<1>2. Moving
  BY <1>1, OfOne DEF TargetKept
<1>3. AtMove(w)
  BY <1>2, FetcherAlone DEF Swapping, Fetching, Pcs
<1> QED
  BY <1>1, <1>3, OfOne DEF AtMove, WorkerKept

LEMMA SwapFailureKeeps ==
  ASSUME IInv, TypeOK', NEW w \in Workers, SwapFails(w)
  PROVE  IInv'
<1>1. /\ Only(w) /\ worker'[w] = AfterFailure(w)
      /\ worker[w].pc \in Swapping /\ worker[w].pc \in Fetching
      /\ dir'["target"] = dir["target"]
      /\ At(w, "move_new") => dir'["old"] = dir["old"]
      /\ broken' = Broken
      /\ UNCHANGED <<remote, layout, fresh, had, marked>>
  BY OfOne DEF SwapFails, Only, At, TypeOK, Paths, Swapping, Fetching, Pcs
<1>2. /\ worker'[w].pc \in {"stage", "read", "idle"}
      /\ worker'[w].pc = "stage" => worker'[w].since = worker[w].since
      /\ worker'[w].pc = "read" => dir["target"] # None
  BY <1>1, FailureFacts, OfOne
<1>3. broken' > 0
  BY <1>1, OfOne DEF Broken
<1>4. TargetKept'
  BY <1>1, <1>3, OfOne DEF TargetKept, Whole
<1>5. OldKept'
  <2>1. Wanted' = Wanted
    BY <1>1, OfOne
  <2> QED
    BY <1>1, <2>1, FirstBreakKeeps DEF OldKept, Whole
<1>6. TargetAged'
  BY <1>1, OfOne DEF TargetAged, Since
<1>7. worker'[w].pc = "read" => had'
  BY <1>1, <1>2, OfOne DEF TargetKept
<1>8. marked <= worker[w].since /\ worker[w].since <= remote
  BY <1>1, OfOne DEF WorkerAged
<1>9. WorkerStaged(w)' /\ WorkerKept(w)' /\ WorkerAged(w)'
  BY <1>1, <1>2, <1>7, <1>8 DEF WorkerStaged, WorkerKept, WorkerAged, At, Fetching, Swapping
<1> QED
  BY <1>1, <1>4, <1>5, <1>6, <1>9, FetcherStep

-----------------------------------------------------------------------------
(* Everyone else                                                           *)

LEMMA BystandersKeep ==
  ASSUME IInv, TypeOK', UNCHANGED <<layout, dir, had, broken, marked>>,
         remote <= remote', fresh' => fresh,
         \A u \in Workers :
            \/ worker'[u] = worker[u]
            \/ /\ worker[u].pc \in {"idle", "read"} /\ worker'[u].pc \in {"idle", "read"}
               /\ At(u, "read")' => had
  PROVE  IInv'
<1>1. /\ TypeOK /\ TargetKept /\ OldKept /\ TargetAged /\ OneFetches
      /\ Wanted' = Wanted
  BY DEF IInv, Kept, Aged, Wanted
<1>2. remote \in Nat /\ remote' \in Nat /\ marked \in Nat
  BY <1>1 DEF TypeOK, Versions
<1>3. OneFetches'
  BY <1>1 DEF OneFetches, Fetching
<1>4. (Moving' <=> Moving) /\ (Swaps' <=> Swaps)
  BY DEF Moving, Swaps, AtMove, At, Swapping
<1>5. TargetKept' /\ OldKept'
  BY <1>1, <1>4 DEF TargetKept, OldKept, Whole
<1>6. TargetAged'
  BY <1>1, <1>2 DEF TargetAged, Since
<1>7. ASSUME NEW u \in Workers PROVE WorkerStaged(u)' /\ WorkerKept(u)' /\ WorkerAged(u)'
  <2>1. CASE worker'[u] = worker[u]
    <3>1. WorkerStaged(u) /\ WorkerKept(u) /\ WorkerAged(u) /\ worker[u].since \in Nat
      BY OfOne
    <3>2. WorkerStaged(u)'
      BY <1>1, <2>1, <3>1 DEF WorkerStaged, Whole, At
    <3>3. WorkerKept(u)'
      BY <1>1, <2>1, <3>1 DEF WorkerKept, Whole, At
    <3>4. WorkerAged(u)'
      BY <1>1, <1>2, <2>1, <3>1 DEF WorkerAged, Since
    <3> QED
      BY <3>2, <3>3, <3>4
  <2>2. CASE worker'[u].pc \in {"idle", "read"} /\ (At(u, "read")' => had)
    BY <2>2 DEF WorkerStaged, WorkerKept, WorkerAged, At, Fetching, Swapping, Pcs
  <2> QED
    BY <2>1, <2>2
<1> QED
  BY <1>3, <1>5, <1>6, <1>7 DEF IInv, Staged, Kept, Aged

(* A worker that dies in a swap may be the first to break one.             *)
LEMMA CrashKeeps ==
  ASSUME IInv, TypeOK', NEW w \in Workers, Crash(w)
  PROVE  IInv'
<1>0. /\ Only(w) /\ worker'[w].pc = "idle"
      /\ broken' = IF worker[w].pc \in Swapping THEN Broken ELSE broken
      /\ UNCHANGED <<remote, layout, dir, fresh, had, marked>>
      /\ worker[w].pc \in Fetching \/ worker[w].pc = "read"
  BY OfOne DEF Crash, Idle, Only, At, TypeOK, Calls, Fetching
<1>1. CASE worker[w].pc \in Fetching
  <2>1. /\ Moving <=> AtMove(w)
        /\ Swaps <=> worker[w].pc \in Swapping
        /\ ~Moving' /\ ~Swaps'
    BY <1>0, <1>1, FetcherAlone DEF AtMove, At, Swapping
  <2>2. /\ TargetKept /\ OldKept /\ TargetAged /\ broken \in 0..2
        /\ Wanted' = Wanted
    BY <1>0, OfOne
  <2>3. TargetKept'
    BY <1>0, <2>1, <2>2 DEF TargetKept, Whole, Broken, AtMove, At, Swapping
  <2>4. OldKept'
    <3>1. CASE worker[w].pc \in Swapping
      BY <1>0, <2>2, <3>1, FirstBreakKeeps DEF OldKept, Whole
    <3>2. CASE worker[w].pc \notin Swapping
      BY <1>0, <2>1, <2>2, <3>2 DEF OldKept, Whole
    <3> QED
      BY <3>1, <3>2
  <2>5. TargetAged'
    BY <1>0, <2>2 DEF TargetAged, Since
  <2>6. WorkerStaged(w)' /\ WorkerKept(w)' /\ WorkerAged(w)'
    BY <1>0 DEF WorkerStaged, WorkerKept, WorkerAged, At, Fetching, Swapping, Pcs
  <2> QED
    BY <1>0, <1>1, <2>3, <2>4, <2>5, <2>6, FetcherStep
<1>2. CASE worker[w].pc = "read"
  <2>1. worker[w].pc \notin Swapping /\ remote <= remote'
    BY <1>0, <1>2, OfOne DEF Swapping
  <2> QED
    BY <1>0, <1>2, <2>1, BystandersKeep DEF Only, At
<1> QED
  BY <1>0, <1>1, <1>2

(* A call that finds a fresh directory reads it; another one fetches, and  *)
(* only when no one else does.                                             *)
LEMMA DownloadKeeps ==
  ASSUME IInv, TypeOK', Overlap = FALSE, NEW w \in Workers, NEW forced \in BOOLEAN,
         Download(w, forced)
  PROVE  IInv'
<1>0. /\ worker[w].pc = "idle" /\ Only(w)
      /\ UNCHANGED <<remote, layout, dir, fresh, had, broken, marked>>
      /\ remote <= remote'
  BY OfOne DEF Download, Only, At, TypeOK
<1>1. CASE ~forced /\ _is_cache_fresh
  <2>1. worker'[w].pc = "read"
    BY <1>1, OfOne DEF Download, TypeOK, Reading, Idle
  <2>2. had
    BY <1>1, OfOne DEF _is_cache_fresh, TargetKept
  <2> QED
    BY <1>0, <2>1, <2>2, BystandersKeep DEF Only
<1>2. CASE ~(~forced /\ _is_cache_fresh)
  <2>1. /\ worker'[w].pc = "stage" /\ worker'[w].since = remote
        /\ \A u \in Workers : worker[u].pc \notin Fetching
    BY <1>2, OfOne DEF Download, TypeOK
  <2>2. \A u \in Workers : worker[u].pc \in {"idle", "read"}
    BY <2>1 DEF IInv, TypeOK, Calls, Fetching
  <2>3. ~Moving /\ ~Swaps /\ ~Moving' /\ ~Swaps'
    BY <1>0, <2>1, <2>2 DEF Only, Moving, Swaps, AtMove, At, Swapping
  <2>4. /\ TargetKept /\ OldKept /\ TargetAged /\ Wanted' = Wanted /\ remote \in Nat
    BY <1>0, OfOne
  <2>5. TargetKept' /\ OldKept' /\ TargetAged'
    BY <1>0, <2>3, <2>4 DEF TargetKept, OldKept, TargetAged, Whole, Since
  <2>6. OneFetches'
    BY <1>0, <2>2 DEF Only, OneFetches, Fetching
  <2>7. WorkerStaged(w)' /\ WorkerKept(w)' /\ WorkerAged(w)'
    BY <1>0, <2>1, <2>4 DEF WorkerStaged, WorkerKept, WorkerAged, TargetAged, At, Swapping
  <2>8. ASSUME NEW u \in Workers, u # w
        PROVE  WorkerStaged(u)' /\ WorkerKept(u)' /\ WorkerAged(u)'
    <3>1. worker'[u].pc \in {"idle", "read"} /\ (At(u, "read")' => had')
      BY <1>0, <2>2, <2>8, OfOne DEF Only, WorkerKept, At
    <3> QED
      BY <3>1 DEF WorkerStaged, WorkerKept, WorkerAged, At, Fetching, Swapping, Pcs
  <2> QED
    BY <2>5, <2>6, <2>7, <2>8 DEF IInv, Staged, Kept, Aged
<1> QED
  BY <1>1, <1>2

LEMMA IInvStep ==
  ASSUME Overlap = FALSE, IInv, [Next]_vars
  PROVE  IInv'
<1>0. TypeOK' /\ remote \in Nat
  BY TypeStep DEF IInv, TypeOK, Versions
<1>1. CASE UNCHANGED vars
  BY <1>0, <1>1, BystandersKeep DEF vars
<1>2. CASE Commit
  BY <1>0, <1>2, BystandersKeep DEF Commit
<1>3. CASE Expire
  BY <1>0, <1>3, BystandersKeep DEF Expire
<1>4. ASSUME NEW w \in Workers, NEW forced \in BOOLEAN, Download(w, forced) PROVE IInv'
  BY <1>0, <1>4, DownloadKeeps
<1>5. ASSUME NEW w \in Workers, Crash(w) PROVE IInv'
  BY <1>0, <1>5, CrashKeeps
<1>6. ASSUME NEW w \in Workers, Discover(w) PROVE IInv'
  <2>1. /\ UNCHANGED <<remote, layout, dir, fresh, had, broken, marked>>
        /\ worker' = worker \/ worker' = [worker EXCEPT ![w] = Idle]
        /\ worker[w].pc = "read"
    BY <1>6, DiscoverLeaves DEF At
  <2>2. \A u \in Workers : worker'[u] = worker[u] \/ (u = w /\ worker'[u].pc = "idle")
    BY <2>1, OfOne DEF TypeOK, Idle
  <2> QED
    BY <1>0, <2>1, <2>2, BystandersKeep DEF At
<1>7. ASSUME NEW w \in Workers, Proceed(w) PROVE IInv'
  BY <1>0, <1>7, StageKeeps, ListKeeps, GetKeeps, GotKeeps, RemoveOldKeeps, MoveOldKeeps,
     MoveNewKeeps, CleanUpKeeps, MarkKeeps, FetchFailureKeeps, SwapFailureKeeps
     DEF Proceed
<1> QED
  BY <1>1, <1>2, <1>3, <1>4, <1>5, <1>6, <1>7 DEF Next

LEMMA OneFetchInitially == Init => IInv
<1>1. ASSUME Init PROVE TypeOK
  BY <1>1, TypeInit
<1>2. ASSUME Init PROVE \A w \in Workers : worker[w].pc = "idle"
  BY <1>2 DEF Init, Idle
<1>3. ASSUME Init PROVE dir["target"] = None /\ broken = 0 /\ marked <= remote
  BY <1>3 DEF Init, Paths
<1>4. ASSUME Init PROVE ~had /\ ~fresh
  BY <1>4, Zenon DEF Init
<1>5. ASSUME Init, NEW w \in Workers PROVE WorkerStaged(w) /\ WorkerKept(w) /\ WorkerAged(w)
  BY <1>2, <1>5 DEF WorkerStaged, WorkerKept, WorkerAged, At, Fetching, Swapping, Pcs
<1>6. ASSUME Init PROVE OneFetches
  BY <1>2, <1>6 DEF OneFetches, Fetching
<1>7. ASSUME Init PROVE TargetKept /\ OldKept /\ TargetAged
  BY <1>3, <1>4, <1>7 DEF TargetKept, OldKept, TargetAged
<1> QED
  BY <1>1, <1>5, <1>6, <1>7 DEF IInv, Staged, Kept, Aged

(* The inductive invariant holds whatever fails, is retried or dies, when  *)
(* one worker fetches at a time.                                           *)
THEOREM OneFetchInvariant ==
  ASSUME Overlap = FALSE
  PROVE  Spec => []IInv
BY OneFetchInitially, IInvStep, PTL DEF Spec

-----------------------------------------------------------------------------
(* What follows from it                                                    *)

(* A whole download of this configuration is a complete one.               *)
LEMMA WholeIsComplete == \A d : Whole(d) => Complete(d)
BY DEF Whole, Complete, Wanted, _download_repo_root

(* A swap takes several file system steps, each of which may fail or be    *)
(* the last: the target is never a partial download, it is away only in a  *)
(* swap or after a broken one, and one broken swap never loses both the    *)
(* directory that was in place and the one that was to replace it          *)
(* (_atomic_swap, with its ".old" and ".staging").                         *)
THEOREM SwapKeepsDirectory ==
  ASSUME Overlap = FALSE
  PROVE  Spec => []DirectoryKept
<1>1. IInv => DirectoryKept
  <2> SUFFICES ASSUME IInv PROVE DirectoryKept
    OBVIOUS
  <2>1. TargetKept /\ OldKept /\ broken \in 0..2
    BY DEF IInv, Kept, TypeOK
  <2>2. TargetWhole
    BY <2>1, WholeIsComplete DEF TargetWhole, TargetKept, Moving
  <2>3. ASSUME had, broken < 2 PROVE \E d \in HeldCopies : Complete(d)
    <3>1. CASE dir["target"] # None
      BY <2>1, <3>1, WholeIsComplete DEF TargetKept, HeldCopies
    <3>2. CASE Swaps
      BY <3>2, WholeIsComplete DEF Swaps, HeldCopies, IInv, Staged, WorkerStaged
    <3>3. CASE dir["target"] = None /\ ~Swaps
      <4>1. ~Moving
        BY <3>3 DEF Moving, Swaps, AtMove, At, Swapping
      <4>2. broken = 1
        BY <2>1, <2>3, <3>3, <4>1 DEF TargetKept
      <4> QED
        BY <2>1, <2>3, <3>3, <4>2, WholeIsComplete DEF OldKept, HeldCopies
    <3> QED
      BY <3>1, <3>2, <3>3
  <2> QED
    BY <2>2, <2>3 DEF DirectoryKept, CopyKept
<1> QED
  BY <1>1, OneFetchInvariant, PTL

(* The time stamp beside the target tells its age: nothing in a marked     *)
(* target is older than the beginning of the download that marked it,      *)
(* whatever failed, was retried or died since (_mark_cache_fresh).         *)
THEOREM MarkIsTrue ==
  ASSUME Overlap = FALSE
  PROVE  Spec => []MarkTellsAge
<1>1. IInv => MarkTellsAge
  BY DEF IInv, Aged, TargetAged, Since, MarkTellsAge
<1> QED
  BY <1>1, OneFetchInvariant, PTL
-----------------------------------------------------------------------------
(* What discovery sees                                                     *)

(* No download that is under way will put back anything older than v.      *)
Replacing == {"list", "get"} \cup Swapping
Newer(v) ==
    /\ v <= remote
    /\ \A u \in Workers : worker[u].pc \in Replacing => v <= worker[u].since

Past == \A p \in Paths : dir[p] # None => \A i \in DOMAIN dir[p] : dir[p][i] <= remote
TargetOld == \A i \in Items : There(i) => Newer(dir["target"][i])

(* What a look keeps, disturbed or not.                                    *)
LookShape(w) ==
    /\ ~At(w, "read") => look[w] = Before
    /\ look[w].step # "plugins" => look[w].got = {} /\ look[w].part = 1
    /\ look[w].step = "plugins" => look[w].found \subseteq _apply_filters(Plugins)
    /\ \A a \in look[w].got :
         a[1] \in look[w].todo => a[1] = Current(w) /\ a[2] < look[w].part

LookForward(w) ==
    /\ \A a \in look[w].got :
         a[3] # None => Newer(a[3]) /\ (There(a[1]) => a[3] <= dir["target"][a[1]])
    /\ \A a, b \in look[w].got :
         a[1] = b[1] /\ a[2] < b[2] /\ a[3] # None /\ b[3] # None => a[3] <= b[3]

(* An undisturbed look: it goes on with what is in the target.             *)
LookCalm(w) ==
    /\ dir["target"] # None
    /\ look[w].step # "raised"
    /\ look[w].step \in {"manifest", "scan", "nested", "direct"} => look[w].found = {}
    /\ look[w].step = "nested" => HasPluginsDirectory
    /\ look[w].step = "direct" => ~HasPluginsDirectory
    /\ look[w].step = "entries" => \E S \in {Listed, Plugins} :
         look[w].found \cup (look[w].todo \cap Directory) = S \cap Directory
    /\ look[w].step = "plugins" =>
         /\ look[w].found \in {_apply_filters(Listed), _apply_filters(Plugins)}
         /\ look[w].todo \subseteq look[w].found
         /\ \A a \in look[w].got :
              a[1] \in look[w].found /\ a[3] = dir["target"][a[1]]
         /\ \A p \in look[w].found, part \in Parts :
              p \notin look[w].todo \/ (p = Current(w) /\ part < look[w].part) =>
                 <<p, part, dir["target"][p]>> \in look[w].got

LookKept(w) ==
    /\ LookShape(w)
    /\ LookForward(w)
    /\ At(w, "read") /\ look[w].calm => LookCalm(w)
LookInv == Past /\ TargetOld /\ \A w \in Workers : LookKept(w)

(* The parts of what was read.                                             *)
LEMMA GotTypes ==
  ASSUME TypeOK, NEW w \in Workers, NEW a \in look[w].got
  PROVE  /\ a[1] \in Plugins /\ a[2] \in Parts /\ a[3] \in Versions \cup {None}
         /\ a = <<a[1], a[2], a[3]>>
         /\ a[3] # None => a[3] \in Nat
<1>1. look[w].got \in SUBSET (Plugins \X Parts \X (Versions \cup {None}))
  BY DEF TypeOK, Looks
<1>2. a \in Plugins \X Parts \X (Versions \cup {None})
  BY <1>1
<1>3. a[1] \in Plugins /\ a[2] \in Parts /\ a[3] \in Versions \cup {None}
      /\ a = <<a[1], a[2], a[3]>>
  BY <1>2
<1> QED
  BY <1>3 DEF Versions

(* Items of a directory have commits.                                      *)
LEMMA ItemTypes ==
  ASSUME TypeOK, NEW p \in Paths, dir[p] # None, NEW i \in DOMAIN dir[p]
  PROVE  i \in Items /\ dir[p][i] \in Versions /\ dir[p][i] \in Nat
<1>1. dir[p] \in Directories
  BY DEF TypeOK
<1> QED
  BY <1>1 DEF Directories, Versions

(* Commits come one after the other.                                       *)
LEMMA RemoteGrows ==
  ASSUME TypeOK, [Next]_vars
  PROVE  remote \in Nat /\ remote' \in Nat /\ remote <= remote'
<1>0. remote \in Nat
  BY DEF TypeOK, Versions
<1>1. CASE Commit
  BY <1>0, <1>1 DEF Commit
<1>2. ASSUME NEW w \in Workers, Proceed(w) PROVE remote' = remote
  BY <1>2 DEF Proceed, Stage, List, Get, Got, RemoveOld, MoveOld, MoveNew, CleanUp,
              _mark_cache_fresh, FetchFails, StageFails, SwapFails
<1>3. ASSUME NEW w \in Workers, Discover(w) PROVE remote' = remote
  BY <1>3, DiscoverLeaves
<1> QED
  BY <1>0, <1>1, <1>2, <1>3 DEF Next, Download, Crash, Expire, vars

(* A download begins with the commit of that moment.                       *)
LEMMA NewerKept ==
  ASSUME TypeOK, [Next]_vars, NEW v \in Nat, Newer(v)
  PROVE  Newer(v)'
<1>0. /\ remote \in Nat /\ worker \in [Workers -> Calls]
      /\ \A u \in Workers : worker[u].since \in Nat
  BY DEF TypeOK, Calls, Versions
<1>1. remote' \in Nat /\ remote <= remote'
  BY RemoteGrows
<1>2. ASSUME NEW u \in Workers, worker'[u].pc \in Replacing
      PROVE  \/ worker[u].pc \in Replacing /\ worker'[u].since = worker[u].since
             \/ worker'[u].since = remote
  <2>1. CASE worker'[u] = worker[u]
    BY <1>2, <2>1
  <2>2. ASSUME NEW w \in Workers, worker' = [worker EXCEPT ![w] = Idle]
                                  \/ worker' = [worker EXCEPT ![w] = Reading]
        PROVE  worker'[u] = worker[u]
    BY <1>0, <1>2, <2>2 DEF Idle, Reading, Replacing, Swapping
  <2>3. ASSUME NEW w \in Workers, NEW forced \in BOOLEAN, Download(w, forced)
        PROVE  worker'[u] = worker[u]
    BY <1>0, <1>2, <2>2, <2>3 DEF Download, Replacing, Swapping
  <2>4. ASSUME NEW w \in Workers, Crash(w) PROVE worker'[u] = worker[u]
    BY <2>2, <2>4 DEF Crash
  <2>5. ASSUME NEW w \in Workers, Discover(w) PROVE worker'[u] = worker[u]
    BY <2>2, <2>5, DiscoverLeaves
  <2>6. ASSUME NEW w \in Workers, Stage(w)
        PROVE  worker'[u] = worker[u] \/ worker'[u].since = remote
    BY <1>0, <2>6 DEF Stage, Calls
  <2>7. ASSUME NEW w \in Workers, List(w) \/ Get(w)
        PROVE  worker'[u] = worker[u] \/
               (worker[u].pc \in Replacing /\ worker'[u].since = worker[u].since)
    BY <1>0, <2>7 DEF List, Get, At, Calls, Replacing
  <2>8. ASSUME NEW w \in Workers, NEW pc \in Pcs, Goto(w, pc), worker[w].pc \in Replacing
        PROVE  worker'[u] = worker[u] \/
               (worker[u].pc \in Replacing /\ worker'[u].since = worker[u].since)
    BY <1>0, <2>8 DEF Goto, Calls
  <2>9. ASSUME NEW w \in Workers, Got(w) \/ RemoveOld(w) \/ MoveOld(w) \/ MoveNew(w)
        PROVE  worker'[u] = worker[u] \/
               (worker[u].pc \in Replacing /\ worker'[u].since = worker[u].since)
    BY <2>8, <2>9 DEF Got, RemoveOld, MoveOld, MoveNew, At, Replacing, Swapping, Pcs
  <2>10. ASSUME NEW w \in Workers, CleanUp(w) \/ _mark_cache_fresh(w)
         PROVE  worker'[u] = worker[u]
    BY <1>0, <1>2, <2>2, <2>10
       DEF CleanUp, _mark_cache_fresh, Goto, Replacing, Swapping, Calls
  <2>11. ASSUME NEW w \in Workers, FetchFails(w) \/ StageFails(w) \/ SwapFails(w)
         PROVE  worker'[u] = worker[u]
    <3>1. AfterFailure(w).pc \in {"stage", "read", "idle"}
      BY FailureFacts DEF TypeOK, CacheTypes
    <3> QED
      BY <1>0, <1>2, <2>11, <3>1 DEF FetchFails, StageFails, SwapFails, Replacing, Swapping
  <2>12. CASE UNCHANGED vars \/ Commit \/ Expire
    BY <2>1, <2>12 DEF vars, Commit, Expire
  <2>13. ASSUME NEW w \in Workers, Proceed(w)
         PROVE  \/ worker'[u] = worker[u]
                \/ worker[u].pc \in Replacing /\ worker'[u].since = worker[u].since
                \/ worker'[u].since = remote
    BY <2>6, <2>7, <2>9, <2>10, <2>11, <2>13 DEF Proceed
  <2> QED
    BY <2>1, <2>3, <2>4, <2>5, <2>12, <2>13 DEF Next
<1> QED
  BY <1>0, <1>1, <1>2 DEF Newer

(* How a step may change the target: a swap takes it away, or puts the     *)
(* staged download where there is none.                                    *)
LEMMA TargetChanges ==
  ASSUME IInv, [Next]_vars
  PROVE  \/ dir'["target"] = dir["target"]
         \/ dir'["target"] = None
         \/ \E w \in Workers : MoveNew(w) /\ dir'["target"] = dir["staging"]
                               /\ dir["staging"] # None
<1>0. dir \in [Paths -> Directories \cup {None}]
      /\ \A p \in {"target", "staging", "old"} : p \in Paths
  BY DEF IInv, TypeOK, Paths
<1>1. ASSUME NEW w \in Workers, MoveOld(w)
      PROVE  dir'["target"] = dir["target"] \/ dir'["target"] = None
  BY <1>0, <1>1 DEF MoveOld, Moved
<1>2. ASSUME NEW w \in Workers, MoveNew(w)
      PROVE  dir'["target"] = dir["staging"] /\ dir["staging"] # None
  <2>1. dir["target"] = None
    BY <1>2, OfOne DEF MoveNew, WorkerKept, At
  <2> QED
    BY <1>0, <1>2, <2>1 DEF MoveNew, Moved
<1>3. ASSUME NEW w \in Workers, Stage(w) \/ Get(w) \/ RemoveOld(w) \/ CleanUp(w)
                                \/ FetchFails(w) \/ StageFails(w) \/ SwapFails(w)
      PROVE  dir'["target"] = dir["target"]
  BY <1>0, <1>3 DEF Stage, Get, RemoveOld, CleanUp, FetchFails, StageFails, SwapFails
<1>4. ASSUME NEW w \in Workers, Discover(w) PROVE dir' = dir
  BY <1>4, DiscoverLeaves
<1>5. ASSUME NEW w \in Workers, Proceed(w)
      PROVE  \/ dir'["target"] = dir["target"]
             \/ dir'["target"] = None
             \/ MoveNew(w) /\ dir'["target"] = dir["staging"] /\ dir["staging"] # None
  BY <1>1, <1>2, <1>3, <1>5 DEF Proceed, List, Got, _mark_cache_fresh
<1> QED
  BY <1>4, <1>5 DEF Next, Download, Crash, Commit, Expire, vars

(* Where what is on disk after a step came from.                           *)
LEMMA DiskChanges ==
  ASSUME TypeOK, [Next]_vars, NEW p \in Paths
  PROVE  \/ dir'[p] = None \/ dir'[p] = Empty
         \/ \E q \in Paths : dir'[p] = dir[q]
         \/ \E i \in Items : dir'[p] = With(dir[p], i, remote)
<1>0. /\ dir \in [Paths -> Directories \cup {None}]
      /\ \A q \in {"target", "staging", "old"} : q \in Paths
  BY DEF TypeOK, Paths
<1>1. ASSUME NEW w \in Workers, MoveOld(w) \/ MoveNew(w)
      PROVE  dir'[p] = None \/ \E q \in Paths : dir'[p] = dir[q]
  BY <1>0, <1>1 DEF MoveOld, MoveNew, Moved
<1>2. ASSUME NEW w \in Workers, Get(w)
      PROVE  dir'[p] = dir[p] \/ \E i \in Items : dir'[p] = With(dir[p], i, remote)
  <2> DEFINE i == CHOOSE j \in worker[w].todo : TRUE
  <2>1. i \in Items
    BY <1>2 DEF Get, TypeOK, Calls
  <2>2. dir' = [dir EXCEPT !["staging"] = With(dir["staging"], i, remote)]
    BY <1>0, <1>2 DEF Get
  <2> HIDE DEF i
  <2> QED
    BY <1>0, <2>1, <2>2
<1>3. ASSUME NEW w \in Workers, Stage(w) \/ RemoveOld(w) \/ CleanUp(w)
                                \/ FetchFails(w) \/ StageFails(w) \/ SwapFails(w)
      PROVE  dir'[p] = dir[p] \/ dir'[p] = None \/ dir'[p] = Empty
  BY <1>0, <1>3 DEF Stage, RemoveOld, CleanUp, FetchFails, StageFails, SwapFails, Remains
<1>4. ASSUME NEW w \in Workers, Discover(w) PROVE dir' = dir
  BY <1>4, DiscoverLeaves
<1>5. CASE dir' = dir
  BY <1>5
<1> QED
  BY <1>1, <1>2, <1>3, <1>4, <1>5
     DEF Next, Proceed, List, Got, _mark_cache_fresh, Download, Crash, Commit, Expire, vars

(* Nothing on disk is of a commit that is still to come, and a target that *)
(* is replaced is replaced by nothing older.                               *)
LEMMA PastKept ==
  ASSUME IInv, LookInv, [Next]_vars
  PROVE  Past' /\ TargetOld'
<1>0. /\ TypeOK /\ TypeOK' /\ Past /\ TargetOld
      /\ remote \in Nat /\ remote' \in Nat /\ remote <= remote'
      /\ \A p \in {"target", "staging", "old"} : p \in Paths
  BY TypeStep, RemoteGrows DEF IInv, LookInv, Paths
<1>1. ASSUME NEW p \in Paths, dir'[p] # None, NEW i \in DOMAIN dir'[p]
      PROVE  dir'[p][i] <= remote'
  <2>1. CASE dir'[p] = Empty
    BY <1>1, <2>1 DEF Empty
  <2>2. ASSUME NEW q \in Paths, dir'[p] = dir[q] PROVE dir'[p][i] <= remote'
    <3>1. dir[q][i] \in Nat /\ dir[q][i] <= remote
      BY <1>0, <1>1, <2>2, ItemTypes DEF Past
    <3> QED
      BY <1>0, <2>2, <3>1
  <2>3. ASSUME NEW k \in Items, dir'[p] = With(dir[p], k, remote) PROVE dir'[p][i] <= remote'
    <3>1. CASE i = k
      BY <1>0, <1>1, <2>3, <3>1 DEF With
    <3>2. CASE i # k
      <4>1. dir[p] # None /\ i \in DOMAIN dir[p] /\ dir'[p][i] = dir[p][i]
        BY <1>1, <2>3, <3>2 DEF With, Empty
      <4>2. dir[p][i] \in Nat /\ dir[p][i] <= remote
        BY <1>0, <4>1, ItemTypes DEF Past
      <4> QED
        BY <1>0, <4>1, <4>2
    <3> QED
      BY <3>1, <3>2
  <2> QED
    BY <1>0, <1>1, <2>1, <2>2, <2>3, DiskChanges
<1>2. ASSUME NEW i \in Items, There(i)' PROVE Newer(dir["target"][i])'
  <2>1. CASE dir'["target"] = dir["target"]
    <3>1. There(i)
      BY <1>2, <2>1 DEF There
    <3>2. dir["target"][i] \in Nat /\ Newer(dir["target"][i])
      BY <1>0, <3>1, ItemTypes DEF There, TargetOld
    <3>3. PICK v \in Nat : v = dir["target"][i]
      BY <3>2
    <3>4. Newer(v)'
      BY <1>0, <3>2, <3>3, NewerKept
    <3> QED
      BY <2>1, <3>3, <3>4 DEF Newer
  <2>2. ASSUME NEW w \in Workers, MoveNew(w) PROVE Newer(dir["target"][i])'
    <3>1. worker[w].pc \in Fetching /\ worker'[w].pc = "clean" /\ Only(w)
      BY <1>0, <2>2, GotoFacts DEF MoveNew, Goes, At, Fetching, Pcs
    <3>2. \A u \in Workers : worker'[u].pc \notin Replacing
      <4>1. "clean" \notin Replacing /\ Replacing \subseteq Fetching
        BY DEF Replacing, Swapping, Fetching, Pcs
      <4> QED
        BY <3>1, <4>1 DEF Only, IInv, OneFetches
    <3>3. dir'["target"][i] <= remote'
      BY <1>0, <1>1, <1>2 DEF There
    <3> QED
      BY <3>2, <3>3 DEF Newer
  <2>3. dir'["target"] # None
    BY <1>2 DEF There
  <2> QED
    BY <2>1, <2>2, <2>3, TargetChanges
<1> QED
  BY <1>1, <1>2 DEF Past, TargetOld

(* What was read stays no newer than what can be read after a step.        *)
LEMMA GotStays ==
  ASSUME IInv, LookInv, [Next]_vars, NEW u \in Workers, NEW a \in look[u].got, a[3] # None
  PROVE  Newer(a[3])' /\ (There(a[1])' => a[3] <= dir'["target"][a[1]])
<1>0. /\ TypeOK /\ TypeOK' /\ a[3] \in Nat /\ Newer(a[3])
      /\ There(a[1]) => a[3] <= dir["target"][a[1]]
      /\ \A p \in {"target", "staging", "old"} : p \in Paths
  BY TypeStep, GotTypes DEF IInv, LookInv, LookKept, LookForward, Paths
<1>1. Newer(a[3])'
  <2>1. PICK v \in Nat : v = a[3]
    BY <1>0
  <2> QED
    BY <1>0, <2>1, NewerKept
<1>2. CASE dir'["target"] = dir["target"] \/ dir'["target"] = None
  BY <1>0, <1>1, <1>2 DEF There
<1>3. ASSUME NEW w \in Workers, MoveNew(w), dir'["target"] = dir["staging"],
             dir["staging"] # None, There(a[1])'
      PROVE  a[3] <= dir'["target"][a[1]]
  <2>1. Since(dir["staging"], worker[w].since) /\ worker[w].since \in Nat
    BY <1>3, OfOne DEF MoveNew, WorkerAged, At, Swapping
  <2>2. a[3] <= worker[w].since
    BY <1>0, <1>3 DEF Newer, MoveNew, At, Replacing, Swapping
  <2>3. a[1] \in DOMAIN dir["staging"]
    BY <1>3 DEF There
  <2>4. dir["staging"][a[1]] \in Nat /\ dir["staging"][a[1]] >= worker[w].since
    BY <1>0, <1>3, <2>1, <2>3, ItemTypes DEF Since
  <2> QED
    BY <1>0, <1>3, <2>1, <2>2, <2>4
<1> QED
  BY <1>1, <1>2, <1>3, TargetChanges

(* A look that begins, and a worker that does not look.                    *)
LEMMA BeforeKept ==
  ASSUME NEW u \in Workers, look'[u] = Before, At(u, "read")' => dir'["target"] # None
  PROVE  LookKept(u)'
<1>1. LookShape(u)' /\ LookForward(u)'
  BY DEF LookShape, LookForward, Before
<1>2. At(u, "read")' => LookCalm(u)'
  BY DEF LookCalm, Before
<1> QED
  BY <1>1, <1>2 DEF LookKept

(* A look nobody took part in, over a target that is as it was.            *)
LEMMA LeftAloneKept ==
  ASSUME IInv, LookInv, [Next]_vars, NEW u \in Workers, look'[u] = look[u],
         At(u, "read")' <=> At(u, "read"), layout' = layout,
         dir'["target"] = dir["target"]
  PROVE  LookKept(u)'
<1>0. LookKept(u)
  BY DEF LookInv
<1>1. LookShape(u)'
  BY <1>0 DEF LookKept, LookShape, Current
<1>2. LookForward(u)'
  BY <1>0, GotStays DEF LookKept, LookForward
<1>3. Directory' = Directory /\ HasPluginsDirectory' = HasPluginsDirectory
      /\ Current(u)' = Current(u)
  BY DEF Directory, HasPluginsDirectory, Current
<1>4. LookCalm(u) => LookCalm(u)'
  BY <1>3 DEF LookCalm
<1> QED
  BY <1>0, <1>1, <1>2, <1>4 DEF LookKept

(* A look a swap runs into.                                                *)
LEMMA DisturbedKept ==
  ASSUME IInv, LookInv, [Next]_vars, NEW u \in Workers,
         look'[u] = [look[u] EXCEPT !.calm = FALSE], At(u, "read"), At(u, "read")'
  PROVE  LookKept(u)'
<1>0. LookKept(u) /\ look[u] \in Looks
  BY DEF LookInv, IInv, TypeOK
<1>1. /\ look'[u].step = look[u].step /\ look'[u].todo = look[u].todo
      /\ look'[u].found = look[u].found /\ look'[u].part = look[u].part
      /\ look'[u].got = look[u].got /\ look'[u].calm = FALSE
  BY <1>0 DEF Looks
<1>2. LookShape(u)'
  BY <1>0, <1>1 DEF LookKept, LookShape, Current
<1>3. LookForward(u)'
  BY <1>0, <1>1, GotStays DEF LookKept, LookForward
<1> QED
  BY <1>1, <1>2, <1>3 DEF LookKept

(* A whole download holds every plugin the filters leave, whichever way it *)
(* was filtered.                                                           *)
LEMMA WholeHoldsFiltered ==
  ASSUME Whole(dir["target"]), NEW S \in SUBSET Plugins
  PROVE  /\ _apply_filters(S \cap Directory) = _apply_filters(S)
         /\ _apply_filters(S) \subseteq Directory
         /\ _apply_filters(S) \subseteq _apply_filters(Plugins)
<1> DEFINE D == DOMAIN dir["target"]
<1>1. D \in Wanted /\ Directory = Plugins \cap D
  BY DEF Whole, Directory
<1> HIDE DEF D
<1>2. ASSUME NEW p \in _apply_filters(S) PROVE p \in D
  <2>1. /\ p \in Plugins /\ p \notin Exclude
        /\ Include # None /\ Include # {} => p \in Include
    BY <1>2 DEF _apply_filters
  <2>2. D = Items \/ D = Filtered(Items) \/ D = Filtered(Plugins) \cup {Manifest}
    BY <1>1 DEF Wanted, _download_filtered, _download_repo_root
  <2> QED
    BY <2>1, <2>2 DEF Filtered, Items
<1> QED
  BY <1>1, <1>2 DEF _apply_filters

(* What a scan has seen after a step.                                      *)
LEMMA SeesFacts ==
  ASSUME TypeOK, NEW u \in Workers, NEW step \in Steps, NEW todo \in SUBSET Plugins,
         \/ Sees(u, [look[u] EXCEPT !.step = step])
         \/ Sees(u, [look[u] EXCEPT !.step = step, !.todo = todo])
  PROVE  /\ look'[u].found = look[u].found /\ look'[u].got = look[u].got
         /\ look'[u].part = look[u].part /\ look'[u].calm = look[u].calm
         /\ look'[u].step = step
         /\ Sees(u, [look[u] EXCEPT !.step = step, !.todo = todo]) => look'[u].todo = todo
<1>1. look[u] \in Looks /\ look \in [Workers -> Looks]
  BY DEF TypeOK
<1>2. CASE Sees(u, [look[u] EXCEPT !.step = step])
  <2>1. look'[u] = [look[u] EXCEPT !.step = step]
    BY <1>1, <1>2 DEF Sees
  <2>2. Sees(u, [look[u] EXCEPT !.step = step, !.todo = todo]) =>
          look'[u] = [look[u] EXCEPT !.step = step, !.todo = todo]
    BY <1>1 DEF Sees
  <2> QED
    BY <1>1, <2>1, <2>2 DEF Looks
<1>3. CASE Sees(u, [look[u] EXCEPT !.step = step, !.todo = todo])
  <2>1. look'[u] = [look[u] EXCEPT !.step = step, !.todo = todo]
    BY <1>1, <1>3 DEF Sees
  <2> QED
    BY <1>1, <2>1 DEF Looks
<1> QED
  BY <1>2, <1>3

(* The steps before discovery looks at the plugins.                        *)
LEMMA ScanKept ==
  ASSUME IInv, LookInv, [Next]_vars, NEW u \in Workers,
         \/ _parse_marketplace_json(u)
         \/ NoManifest(u)
         \/ ChooseLayout(u)
         \/ _discover_from_directories(u)
  PROVE  LookKept(u)'
<1> DEFINE l == look[u]
           m == look'[u]
<1>0. /\ look[u] \in Looks /\ look \in [Workers -> Looks] /\ layout \in Layouts
      /\ At(u, "read") /\ At(u, "read")'
      /\ UNCHANGED <<layout, dir, worker>>
      /\ look[u].step \in {"manifest", "scan", "nested", "direct"}
      /\ LookKept(u)
  BY DEF IInv, TypeOK, LookInv, _parse_marketplace_json, NoManifest, ChooseLayout,
         _discover_from_directories, Looking, Sees, At
<1>1. l.found = m.found /\ l.got = m.got /\ l.part = m.part /\ l.calm = m.calm
      /\ m.step \in {"entries", "scan", "nested", "direct", "raised"}
  <2>1. PICK step \in {"entries", "scan", "nested", "direct", "raised"},
             todo \in SUBSET Plugins :
          \/ Sees(u, [look[u] EXCEPT !.step = step])
          \/ Sees(u, [look[u] EXCEPT !.step = step, !.todo = todo])
    <3>1. CASE _parse_marketplace_json(u)
      BY <3>1 DEF _parse_marketplace_json
    <3>2. CASE NoManifest(u) \/ ChooseLayout(u)
      BY <3>2 DEF NoManifest, ChooseLayout
    <3>3. CASE _discover_from_directories(u)
      <4>1. Directory \in SUBSET Plugins /\ {} \in SUBSET Plugins
        BY DEF Directory
      <4> QED
        BY <3>3, <4>1 DEF _discover_from_directories
    <3> QED
      BY <3>1, <3>2, <3>3
  <2>2. step \in Steps /\ TypeOK
    BY DEF Steps, IInv
  <2> QED
    BY <2>1, <2>2, SeesFacts
<1>2. l.got = {} /\ l.part = 1
  BY <1>0 DEF LookKept, LookShape
<1>3. LookShape(u)' /\ LookForward(u)'
  BY <1>0, <1>1, <1>2 DEF LookShape, LookForward
<1>4. Directory' = Directory /\ HasPluginsDirectory' = HasPluginsDirectory
      /\ Directory \subseteq Plugins
  BY <1>0 DEF Directory, HasPluginsDirectory
<1>5. ASSUME l.calm PROVE LookCalm(u)'
  <2>1. LookCalm(u)
    BY <1>0, <1>5 DEF LookKept
  <2>2. dir["target"] # None /\ l.found = {}
    BY <1>0, <2>1 DEF LookCalm
  <2>3. CASE _parse_marketplace_json(u)
    <3>1. m.step = "entries" /\ m.todo = Listed
      BY <1>0, <2>3 DEF _parse_marketplace_json, Sees, Looks
    <3> QED
      BY <1>0, <1>1, <1>4, <2>2, <3>1 DEF LookCalm
  <2>4. CASE NoManifest(u)
    <3>1. m.step = "scan"
      BY <1>0, <2>4 DEF NoManifest, Sees, Looks
    <3> QED
      BY <1>0, <1>1, <2>2, <3>1 DEF LookCalm
  <2>5. CASE ChooseLayout(u)
    <3>1. m.step = IF HasPluginsDirectory THEN "nested" ELSE "direct"
      BY <1>0, <2>5 DEF ChooseLayout, Sees, Looks
    <3> QED
      BY <1>0, <1>1, <1>4, <2>2, <3>1 DEF LookCalm
  <2>6. CASE _discover_from_directories(u)
    <3>1. m.step = "entries" /\ m.todo = Directory
      <4>1. CASE Looking(u, "nested")
        <5>1. HasPluginsDirectory
          BY <2>1, <4>1 DEF LookCalm, Looking
        <5>2. Sees(u, [look[u] EXCEPT !.step = "entries", !.todo = Directory])
          BY <2>6, <4>1, <5>1 DEF _discover_from_directories, Looking
        <5> QED
          BY <1>4, <5>2, SeesFacts DEF Steps, IInv
      <4>2. CASE Looking(u, "direct")
        <5>1. ~HasPluginsDirectory
          BY <2>1, <4>2 DEF LookCalm, Looking
        <5>2. Directory = IF layout = "path" THEN Directory ELSE {}
          BY <1>0, <5>1 DEF HasPluginsDirectory
        <5>3. Sees(u, [look[u] EXCEPT !.step = "entries",
                         !.todo = IF layout = "path" THEN Directory ELSE {}])
          BY <2>2, <2>6, <4>2 DEF _discover_from_directories, Looking
        <5>4. Sees(u, [look[u] EXCEPT !.step = "entries", !.todo = Directory])
          BY <5>2, <5>3
        <5> QED
          BY <1>4, <5>4, SeesFacts DEF Steps, IInv
      <4> QED
        BY <2>6, <4>1, <4>2 DEF _discover_from_directories
    <3>2. m.found \cup (m.todo \cap Directory') = Plugins \cap Directory'
      BY <1>1, <1>4, <2>2, <3>1
    <3> QED
      BY <1>0, <1>1, <1>4, <2>2, <3>1, <3>2 DEF LookCalm
  <2> QED
    BY <2>3, <2>4, <2>5, <2>6
<1> QED
  BY <1>1, <1>3, <1>5 DEF LookKept

(* One entry more, found in the target or not.                             *)
LEMMA EntryKept ==
  ASSUME IInv, LookInv, [Next]_vars, NEW u \in Workers, CheckEntry(u)
  PROVE  LookKept(u)'
<1> DEFINE l == look[u]
           m == look'[u]
           p == Current(u)
<1>0. /\ look[u] \in Looks /\ look \in [Workers -> Looks]
      /\ At(u, "read") /\ At(u, "read")'
      /\ UNCHANGED <<layout, dir, worker>>
      /\ l.step = "entries"
      /\ LookKept(u)
  BY DEF IInv, TypeOK, LookInv, CheckEntry, Looking, Sees, At
<1>1. /\ l.got = m.got /\ l.part = m.part /\ l.calm = m.calm /\ m.step = "entries"
      /\ m.todo = l.todo \ {p}
      /\ m.found = l.found \cup ({p} \cap Directory)
  BY <1>0 DEF CheckEntry, Sees, Looks
<1>2. p \in l.todo
  BY DEF CheckEntry, Current
<1>3. LookShape(u)' /\ LookForward(u)'
  BY <1>0, <1>1 DEF LookKept, LookShape, LookForward
<1>4. Directory' = Directory
  BY <1>0 DEF Directory
<1>5. ASSUME l.calm PROVE LookCalm(u)'
  <2>1. PICK S \in {Listed, Plugins} :
          l.found \cup (l.todo \cap Directory) = S \cap Directory
    BY <1>0, <1>5 DEF LookKept, LookCalm
  <2>2. dir["target"] # None
    BY <1>0, <1>5 DEF LookKept, LookCalm
  <2> HIDE DEF p
  <2>3. m.found \cup (m.todo \cap Directory) = S \cap Directory
    BY <1>1, <1>2, <2>1
  <2> QED
    BY <1>0, <1>1, <1>4, <2>2, <2>3 DEF LookCalm
<1> QED
  BY <1>1, <1>3, <1>5 DEF LookKept

(* The filters of discovery leave what the filters of the download left.   *)
LEMMA FilterKept ==
  ASSUME IInv, LookInv, [Next]_vars, NEW u \in Workers, discover_plugins(u)
  PROVE  LookKept(u)'
<1> DEFINE l == look[u]
           m == look'[u]
<1>0. /\ look[u] \in Looks /\ look \in [Workers -> Looks]
      /\ At(u, "read") /\ At(u, "read")'
      /\ UNCHANGED <<layout, dir, worker>>
      /\ l.step = "entries" /\ l.todo = {}
      /\ LookKept(u)
  BY DEF IInv, TypeOK, LookInv, discover_plugins, Looking, Sees, At
<1>1. /\ l.got = m.got /\ l.part = m.part /\ l.calm = m.calm /\ m.step = "plugins"
      /\ m.found = _apply_filters(l.found) /\ m.todo = m.found
  BY <1>0 DEF discover_plugins, Sees, Looks
<1>2. l.got = {} /\ l.part = 1
  BY <1>0 DEF LookKept, LookShape
<1>3. m.found \subseteq _apply_filters(Plugins)
  BY <1>0, <1>1 DEF _apply_filters, Looks
<1>4. LookShape(u)' /\ LookForward(u)'
  BY <1>0, <1>1, <1>2, <1>3 DEF LookShape, LookForward
<1>5. ASSUME l.calm PROVE LookCalm(u)'
  <2>1. PICK S \in {Listed, Plugins} : l.found = S \cap Directory
    BY <1>0, <1>5 DEF LookKept, LookCalm
  <2>2. dir["target"] # None
    BY <1>0, <1>5 DEF LookKept, LookCalm
  <2>3. m.found = _apply_filters(S)
    BY <1>1, <2>1, <2>2, OfOne, WholeHoldsFiltered DEF TargetKept
  <2>4. m.found \in {_apply_filters(Listed), _apply_filters(Plugins)}
    BY <2>3
  <2>5. \A part \in Parts : ~(part < m.part)
    BY <1>1, <1>2 DEF Parts
  <2> QED
    BY <1>0, <1>1, <1>2, <2>2, <2>4, <2>5 DEF LookCalm
<1> QED
  BY <1>1, <1>4, <1>5 DEF LookKept

(* One part more of the current plugin.                                    *)
LEMMA ReadFacts ==
  ASSUME TypeOK, NEW u \in Workers, ReadPlugin(u)
  PROVE  \E v \in Versions \cup {None}, last \in BOOLEAN :
            /\ v = IF There(Current(u)) THEN dir["target"][Current(u)] ELSE None
            /\ last <=> look[u].part = 3 \/ (look[u].part = 2 /\ v = None)
            /\ look'[u].got = look[u].got \cup {<<Current(u), look[u].part, v>>}
            /\ look'[u].part = IF last THEN 1 ELSE look[u].part + 1
            /\ look'[u].todo = IF last THEN look[u].todo \ {Current(u)} ELSE look[u].todo
            /\ look'[u].step = "plugins"
            /\ look'[u].found = look[u].found /\ look'[u].calm = look[u].calm
<1> DEFINE p == Current(u)
           v == IF There(p) THEN dir["target"][p] ELSE None
           last == look[u].part = 3 \/ (look[u].part = 2 /\ v = None)
           part == IF last THEN 1 ELSE look[u].part + 1
           todo == IF last THEN look[u].todo \ {p} ELSE look[u].todo
           got == look[u].got \cup {<<p, look[u].part, v>>}
<1>1. v \in Versions \cup {None}
  <2>1. dir["target"] \in Directories \cup {None}
    BY DEF TypeOK, Paths
  <2> QED
    BY <2>1 DEF There, Directories
<1>2. /\ Sees(u, [look[u] EXCEPT !.got = got, !.part = part, !.todo = todo])
      /\ look[u].step = "plugins"
  BY DEF ReadPlugin, Looking
<1>3. look[u] \in Looks /\ look \in [Workers -> Looks]
  BY DEF TypeOK
<1> HIDE DEF got, part, todo
<1>4. /\ look'[u].got = got /\ look'[u].part = part /\ look'[u].todo = todo
      /\ look'[u].step = "plugins"
      /\ look'[u].found = look[u].found /\ look'[u].calm = look[u].calm
  BY <1>2, <1>3 DEF Sees, Looks
<1>5. last \in BOOLEAN
  OBVIOUS
<1> USE DEF got, part, todo
<1> HIDE DEF v, last
<1>6. v = IF There(p) THEN dir["target"][p] ELSE None
  BY DEF v
<1>7. last <=> look[u].part = 3 \/ (look[u].part = 2 /\ v = None)
  BY DEF last
<1> HIDE DEF p
<1> QED
  BY <1>1, <1>4, <1>5, <1>6, <1>7 DEF p

LEMMA ReadKept ==
  ASSUME IInv, LookInv, [Next]_vars, NEW u \in Workers, ReadPlugin(u)
  PROVE  LookKept(u)'
<1>0. /\ TypeOK /\ look[u] \in Looks /\ LookKept(u) /\ TargetOld
      /\ At(u, "read") /\ At(u, "read")' /\ look[u].step = "plugins"
      /\ UNCHANGED <<remote, layout, dir, worker>>
      /\ Current(u) \in look[u].todo /\ look[u].todo # {} /\ Current(u) \in Plugins
  BY DEF IInv, TypeOK, LookInv, ReadPlugin, Looking, Sees, At, Current, Looks
<1>1. PICK v \in Versions \cup {None}, last \in BOOLEAN :
        /\ v = IF There(Current(u)) THEN dir["target"][Current(u)] ELSE None
        /\ last <=> look[u].part = 3 \/ (look[u].part = 2 /\ v = None)
        /\ look'[u].got = look[u].got \cup {<<Current(u), look[u].part, v>>}
        /\ look'[u].part = IF last THEN 1 ELSE look[u].part + 1
        /\ look'[u].todo = IF last THEN look[u].todo \ {Current(u)} ELSE look[u].todo
        /\ look'[u].step = "plugins"
        /\ look'[u].found = look[u].found /\ look'[u].calm = look[u].calm
  BY <1>0, ReadFacts
<1>2. PICK p \in Plugins : p = Current(u) /\ p \in look[u].todo
  BY <1>0
<1>3. /\ look[u].part \in Parts /\ look[u].part \in Nat
      /\ v # None => v \in Nat
      /\ ~last => Current(u)' = p
  BY <1>0, <1>1, <1>2 DEF Looks, Parts, Versions, Current
<1>4. \A a \in look[u].got :
        /\ a[2] \in Nat
        /\ a[3] # None => a[3] \in Nat
        /\ a[1] \in look[u].todo => a[1] = p /\ a[2] < look[u].part
  BY <1>0, <1>2, GotTypes DEF LookKept, LookShape, Parts
<1>5. LookShape(u)'
  <2>1. ASSUME NEW a \in look'[u].got, a[1] \in look'[u].todo
        PROVE  a[1] = Current(u)' /\ a[2] < look'[u].part
    <3>1. a[1] \in look[u].todo /\ (a \in look[u].got \/ a = <<p, look[u].part, v>>)
      BY <1>1, <1>2, <2>1
    <3>2. a[1] = p /\ a[2] <= look[u].part /\ a[2] \in Nat
      BY <1>3, <1>4, <3>1
    <3>3. ~last
      BY <1>1, <1>2, <2>1, <3>2
    <3> QED
      BY <1>1, <1>3, <3>2, <3>3
  <2>2. look'[u].found \subseteq _apply_filters(Plugins)
    BY <1>0, <1>1 DEF LookKept, LookShape
  <2> QED
    BY <1>0, <1>1, <2>1, <2>2 DEF LookShape
<1>6. There(p)' <=> There(p)
  BY <1>0 DEF There
<1>7. v # None => There(p) /\ v = dir["target"][p]
  BY <1>1, <1>2
<1>8. LookForward(u)'
  <2>1. ASSUME NEW a \in look'[u].got, a[3] # None
        PROVE  Newer(a[3])' /\ (There(a[1])' => a[3] <= dir'["target"][a[1]])
    <3>1. CASE a \in look[u].got
      BY <2>1, <3>1, GotStays
    <3>2. CASE a = <<p, look[u].part, v>>
      <4>1. Newer(v)
        BY <1>0, <1>7, <2>1, <3>2 DEF TargetOld, Items
      <4>2. Newer(v)'
        BY <1>0, <4>1 DEF Newer
      <4>3. dir'["target"][p] = v /\ v \in Nat
        BY <1>0, <1>3, <1>7, <2>1, <3>2
      <4> QED
        BY <3>2, <4>2, <4>3
    <3> QED
      BY <1>1, <1>2, <2>1, <3>1, <3>2
  <2>2. ASSUME NEW a \in look'[u].got, NEW b \in look'[u].got,
               a[1] = b[1], a[2] < b[2], a[3] # None, b[3] # None
        PROVE  a[3] <= b[3]
    <3> DEFINE n == <<p, look[u].part, v>>
    <3>1. (a \in look[u].got \/ a = n) /\ (b \in look[u].got \/ b = n)
      BY <1>1, <1>2
    <3>2. CASE a \in look[u].got /\ b \in look[u].got
      BY <1>0, <2>2, <3>2 DEF LookKept, LookForward
    <3>3. CASE a \in look[u].got /\ b = n
      <4>1. There(p) /\ v = dir["target"][p] /\ a[1] = p
        BY <1>7, <2>2, <3>3
      <4> QED
        BY <1>0, <2>2, <3>3, <4>1 DEF LookKept, LookForward
    <3>4. CASE a = n /\ b \in look[u].got
      BY <1>2, <1>3, <1>4, <2>2, <3>4
    <3>5. CASE a = n /\ b = n
      BY <1>3, <2>2, <3>5
    <3> QED
      BY <3>1, <3>2, <3>3, <3>4, <3>5
  <2> QED
    BY <2>1, <2>2 DEF LookForward
<1>9. ASSUME look[u].calm PROVE LookCalm(u)'
  <2>1. /\ dir["target"] # None
        /\ look[u].found \in {_apply_filters(Listed), _apply_filters(Plugins)}
        /\ look[u].todo \subseteq look[u].found
        /\ \A a \in look[u].got : a[1] \in look[u].found /\ a[3] = dir["target"][a[1]]
        /\ \A q \in look[u].found, part \in Parts :
             q \notin look[u].todo \/ (q = p /\ part < look[u].part) =>
               <<q, part, dir["target"][q]>> \in look[u].got
    BY <1>0, <1>2, <1>9 DEF LookKept, LookCalm
  <2>2. p \in look[u].found /\ p \in Directory
    <3>1. Whole(dir["target"]) /\ Plugins \in SUBSET Plugins /\ Listed \in SUBSET Plugins
      BY <2>1, OfOne DEF TargetKept
    <3>2. _apply_filters(Listed) \subseteq Directory /\ _apply_filters(Plugins) \subseteq Directory
      BY <3>1, WholeHoldsFiltered
    <3> QED
      BY <1>2, <2>1, <3>2
  <2>3. v = dir["target"][p] /\ v # None
    <3>1. There(p)
      BY <2>1, <2>2 DEF There, Directory
    <3>2. dir["target"][p] \in Nat
      BY <1>0, <3>1, ItemTypes DEF There, Paths
    <3> QED
      BY <1>1, <1>2, <3>1, <3>2
  <2>4. last <=> look[u].part = 3
    BY <1>1, <2>3
  <2>5. look'[u].todo \subseteq look'[u].found
    BY <1>1, <2>1
  <2>6. \A a \in look'[u].got : a[1] \in look'[u].found /\ a[3] = dir'["target"][a[1]]
    BY <1>0, <1>1, <1>2, <2>1, <2>2, <2>3
  <2>7. ASSUME NEW q \in look'[u].found, NEW part \in Parts,
               q \notin look'[u].todo \/ (q = Current(u)' /\ part < look'[u].part)
        PROVE  <<q, part, dir'["target"][q]>> \in look'[u].got
    <3>1. part \in 1..3
      BY DEF Parts
    <3>2. \/ q \notin look[u].todo \/ (q = p /\ part < look[u].part)
          \/ q = p /\ part = look[u].part
      <4>1. CASE last
        BY <1>1, <1>2, <2>4, <2>7, <3>1, <4>1
      <4>2. CASE ~last
        BY <1>1, <1>3, <2>7, <3>1, <4>2
      <4> QED
        BY <4>1, <4>2
    <3>3. CASE q \notin look[u].todo \/ (q = p /\ part < look[u].part)
      BY <1>0, <1>1, <2>1, <3>3
    <3>4. CASE q = p /\ part = look[u].part
      BY <1>0, <1>1, <1>2, <2>3, <3>4
    <3> QED
      BY <3>2, <3>3, <3>4
  <2> QED
    BY <1>0, <1>1, <2>1, <2>5, <2>6, <2>7 DEF LookCalm
<1> QED
  BY <1>1, <1>5, <1>8, <1>9 DEF LookKept

(* A step of a fetch, as the looks of the others see it.                   *)
LEMMA ProceedSeen ==
  ASSUME IInv, NEW w \in Workers, Proceed(w)
  PROVE  /\ Only(w) /\ ~At(w, "read") /\ layout' = layout
         /\ \/ look' = look /\ dir'["target"] = dir["target"]
            \/ look' = Watched /\ ~At(w, "read")'
         /\ At(w, "read")' => dir'["target"] # None
<1>0. /\ worker \in [Workers -> Calls] /\ TypeOK /\ CacheTypes
      /\ dir \in [Paths -> Directories \cup {None}]
      /\ \A p \in {"target", "staging", "old"} : p \in Paths
      /\ WorkerKept(w)
  BY OfOne DEF TypeOK, Paths
<1> DEFINE Seen ==
      /\ Only(w) /\ ~At(w, "read") /\ layout' = layout
      /\ \/ look' = look /\ dir'["target"] = dir["target"]
         \/ look' = Watched /\ ~At(w, "read")'
      /\ At(w, "read")' => dir'["target"] # None
<1>1. CASE Stage(w)
  BY <1>0, <1>1 DEF Stage, Only, At, Calls
<1>2. CASE List(w)
  BY <1>0, <1>2 DEF List, Only, At, Calls
<1>3. CASE Get(w)
  BY <1>0, <1>3 DEF Get, Only, At, Calls
<1>4. CASE Got(w) \/ RemoveOld(w) \/ CleanUp(w)
  BY <1>0, <1>4, GotoFacts DEF Got, RemoveOld, CleanUp, Goes, Only, At
<1>5. CASE MoveOld(w) \/ MoveNew(w)
  BY <1>0, <1>5, GotoFacts DEF MoveOld, MoveNew, Goes, Only, At
<1>6. CASE _mark_cache_fresh(w)
  BY <1>0, <1>6 DEF _mark_cache_fresh, WorkerKept, Only, At
<1>7. CASE FetchFails(w) \/ StageFails(w) \/ SwapFails(w)
  <2>1. AfterFailure(w).pc = "read" => dir["target"] # None
    BY <1>0, FailureFacts
  <2>2. look' = look /\ layout' = layout /\ worker' = [worker EXCEPT ![w] = AfterFailure(w)]
    BY <1>7 DEF FetchFails, StageFails, SwapFails
  <2>3. dir'["target"] = dir["target"] /\ ~At(w, "read")
    BY <1>0, <1>7 DEF FetchFails, StageFails, SwapFails, Swapping, At
  <2>4. Only(w) /\ worker'[w] = AfterFailure(w)
    BY <1>0, <2>2 DEF Only
  <2> QED
    BY <2>1, <2>2, <2>3, <2>4 DEF At
<1> QED
  BY <1>1, <1>2, <1>3, <1>4, <1>5, <1>6, <1>7 DEF Proceed

LEMMA LookStep ==
  ASSUME IInv, LookInv, [Next]_vars
  PROVE  LookInv'
<1>0. /\ TypeOK /\ look \in [Workers -> Looks] /\ worker \in [Workers -> Calls]
      /\ \A u \in Workers : LookKept(u)
  BY DEF IInv, LookInv, TypeOK
<1>1. \A u \in Workers : ~At(u, "read") => look[u] = Before
  BY <1>0 DEF LookKept, LookShape
<1> SUFFICES ASSUME NEW u \in Workers PROVE LookKept(u)'
  BY PastKept DEF LookInv
<1>2. CASE UNCHANGED vars \/ Commit \/ Expire
  BY <1>2, LeftAloneKept DEF vars, Commit, Expire, At
<1>3. ASSUME NEW w \in Workers, NEW forced \in BOOLEAN, Download(w, forced) PROVE LookKept(u)'
  <2>1. UNCHANGED <<layout, dir, look>> /\ ~At(w, "read")
    BY <1>3 DEF Download, At
  <2>2. CASE u # w
    <3>1. worker'[u] = worker[u]
      BY <1>0, <1>3, <2>2 DEF Download
    <3> QED
      BY <2>1, <3>1, LeftAloneKept DEF At
  <2>3. CASE u = w
    <3>1. look'[u] = Before
      BY <1>1, <2>1, <2>3
    <3>2. At(u, "read")' => dir'["target"] # None
      BY <1>0, <1>3, <2>1, <2>3 DEF Download, _is_cache_fresh, At
    <3> QED
      BY <3>1, <3>2, BeforeKept
  <2> QED
    BY <2>2, <2>3
<1>4. ASSUME NEW w \in Workers, Crash(w) \/ EndLook(w) PROVE LookKept(u)'
  <2>1. /\ UNCHANGED <<layout, dir>>
        /\ worker' = [worker EXCEPT ![w] = Idle] /\ look' = [look EXCEPT ![w] = Before]
    BY <1>4 DEF Crash, EndLook
  <2>2. CASE u # w
    <3>1. worker'[u] = worker[u] /\ look'[u] = look[u]
      BY <1>0, <2>1, <2>2
    <3> QED
      BY <2>1, <3>1, LeftAloneKept DEF At
  <2>3. CASE u = w
    <3>1. look'[u] = Before /\ ~At(u, "read")'
      BY <1>0, <2>1, <2>3 DEF At, Idle
    <3> QED
      BY <3>1, BeforeKept
  <2> QED
    BY <2>2, <2>3
<1>5. ASSUME NEW w \in Workers, Discover(w) PROVE LookKept(u)'
  <2>1. CASE EndLook(w)
    BY <1>4, <2>1
  <2>2. CASE u = w /\ ~EndLook(w)
    BY <1>5, <2>2, ScanKept, EntryKept, FilterKept, ReadKept DEF Discover
  <2>3. CASE u # w /\ ~EndLook(w)
    <3>1. UNCHANGED <<layout, dir, worker>>
      BY <1>5, <2>3, DiscoverLeaves
    <3>2. look'[u] = look[u]
      BY <1>0, <1>5, <2>3
         DEF Discover, _parse_marketplace_json, NoManifest, ChooseLayout,
             _discover_from_directories, CheckEntry, discover_plugins, ReadPlugin, Sees
    <3> QED
      BY <3>1, <3>2, LeftAloneKept DEF At
  <2> QED
    BY <2>1, <2>2, <2>3
<1>6. ASSUME NEW w \in Workers, Proceed(w) PROVE LookKept(u)'
  <2>1. /\ Only(w) /\ ~At(w, "read") /\ layout' = layout
        /\ \/ look' = look /\ dir'["target"] = dir["target"]
           \/ look' = Watched /\ ~At(w, "read")'
        /\ At(w, "read")' => dir'["target"] # None
    BY <1>6, ProceedSeen
  <2>2. CASE ~At(u, "read")
    <3>1. look'[u] = Before
      BY <1>0, <1>1, <2>1, <2>2 DEF Watched
    <3>2. At(u, "read")' => dir'["target"] # None
      BY <2>1, <2>2 DEF Only, At
    <3> QED
      BY <3>1, <3>2, BeforeKept
  <2>3. CASE At(u, "read")
    <3>1. At(u, "read")'
      BY <2>1, <2>3 DEF Only, At
    <3>2. CASE dir'["target"] = dir["target"]
      <4>1. look'[u] = look[u]
        BY <2>1, <3>2 DEF Watched
      <4> QED
        BY <2>1, <2>3, <3>1, <3>2, <4>1, LeftAloneKept
    <3>3. CASE dir'["target"] # dir["target"]
      <4>1. look'[u] = [look[u] EXCEPT !.calm = FALSE]
        BY <2>1, <2>3, <3>3 DEF Watched
      <4> QED
        BY <2>3, <3>1, <4>1, DisturbedKept
    <3> QED
      BY <3>2, <3>3
  <2> QED
    BY <2>2, <2>3
<1> QED
  BY <1>2, <1>3, <1>4, <1>5, <1>6 DEF Next

(* Discovery goes to the file system many times, while others swap the     *)
(* target.  A look no swap runs into serves every part of every plugin of  *)
(* one complete download that the filters leave, and does not fail; one a  *)
(* swap runs into serves nothing that is filtered out, and of one plugin   *)
(* nothing from an older download than what it read of it before           *)
(* (discover_plugins and the reading of each plugin, after download).      *)
THEOREM CatalogServedWhole ==
  ASSUME Overlap = FALSE
  PROVE  Spec => []ServesWholeCatalog
<1>1. Init => IInv /\ LookInv
  <2> SUFFICES ASSUME Init PROVE LookInv
    BY OneFetchInitially
  <2>1. \A u \in Workers : look[u] = Before /\ worker[u].pc = "idle"
    BY DEF Init, Idle
  <2>2. \A p \in Paths : dir[p] = None
    BY DEF Init
  <2>3. \A u \in Workers : LookKept(u)
    BY <2>1 DEF LookKept, LookShape, LookForward, At, Before
  <2> QED
    BY <2>2, <2>3 DEF LookInv, Past, TargetOld, There, Paths
<1>2. IInv /\ LookInv /\ [Next]_vars => IInv' /\ LookInv'
  BY IInvStep, LookStep
<1>3. IInv /\ LookInv => ServesWholeCatalog
  <2> SUFFICES ASSUME IInv, LookInv, NEW w \in Workers
               PROVE  /\ Looking(w, "raised") => ~look[w].calm
                      /\ Served(w) =>
                           ServedInOrder(w) /\ (look[w].calm => ServedWhole(w))
    BY DEF ServesWholeCatalog
  <2>0. LookKept(w) /\ TypeOK
    BY DEF LookInv, IInv
  <2>1. Looking(w, "raised") => ~look[w].calm
    BY <2>0 DEF LookKept, LookCalm, Looking
  <2>2. Served(w) => ServedInOrder(w)
    BY <2>0 DEF LookKept, LookShape, LookForward, Served, Looking, ServedInOrder
  <2>3. ASSUME Served(w), look[w].calm PROVE ServedWhole(w)
    <3>1. LookCalm(w) /\ look[w].step = "plugins" /\ look[w].todo = {}
      BY <2>0, <2>3 DEF LookKept, Served, Looking
    <3>2. look[w].found \in {_apply_filters(Listed), _apply_filters(Plugins)}
      BY <3>1 DEF LookCalm
    <3>3. look[w].found \subseteq Directory
      <4>1. Whole(dir["target"])
        BY <3>1, OfOne DEF LookCalm, TargetKept
      <4>2. /\ _apply_filters(Listed) \subseteq Directory
            /\ _apply_filters(Plugins) \subseteq Directory
        BY <4>1, WholeHoldsFiltered
      <4> QED
        BY <3>2, <4>2
    <3>4. \A a \in look[w].got :
            \E p \in look[w].found, part \in Parts : a = <<p, part, dir["target"][p]>>
      BY <2>0, <3>1, GotTypes DEF LookCalm
    <3>5. \A p \in look[w].found, part \in Parts : <<p, part, dir["target"][p]>> \in look[w].got
      BY <3>1 DEF LookCalm
    <3>6. look[w].got = {<<p, part, dir["target"][p]>> : p \in look[w].found, part \in Parts}
      BY <3>4, <3>5
    <3> QED
      BY <3>2, <3>3, <3>6 DEF ServedWhole
  <2> QED
    BY <2>1, <2>2, <2>3
<1> QED
  BY <1>1, <1>2, <1>3, PTL DEF Spec
=============================================================================
