------------------------- MODULE MarketplaceSnapshot -------------------------
(***************************************************************************)
(* MarketplaceDirectoryLoader: the skills of the marketplace repository,   *)
(* cached three times.  Each process downloads the repository into a       *)
(* directory of its own, which counts as fresh for TTL; builds a snapshot  *)
(* from it, which it keeps for TTL; and puts that snapshot into a cache    *)
(* that all processes share, where it stays for TTL.                       *)
(*                                                                         *)
(* Calls are tasks of the process's event loop, or run in threads of their *)
(* own (asyncio.to_thread).  A reentrant lock guards the loader.  It is    *)
(* held across awaits, so a second task of the loop passes it, and while a *)
(* thread has it a task that asks for it stops the whole loop.             *)
(*                                                                         *)
(* The repository changes all the time, so what counts of a snapshot is    *)
(* its age: the time since its contents were downloaded.  Times are kept   *)
(* as ages, up to the one from which nothing changes any more.             *)
(***************************************************************************)
EXTENDS Naturals

CONSTANTS
    Pods,
    Tasks,      \* calls in flight
    PodOf,      \* PodOf[t]: the process of t
    Threaded,   \* tasks that run in a thread of their own
    TTL,        \* _reload_ttl_seconds; the directory's is the same in whole seconds
    None

ASSUME TasksAssumption == PodOf \in [Tasks -> Pods] /\ Threaded \subseteq Tasks
ASSUME TtlAssumption == TTL \in Nat \ {0}

Old == 3 * TTL + 1
Ages == 0..Old
Older(age) == IF age = Old THEN Old ELSE age + 1

(* stale: the download failed, and an older directory was taken instead.   *)
Snapshots == [age : Ages, stale : BOOLEAN]
SharedOnes == [snapshot : Snapshots, left : 1..TTL]
Refreshes == [ago : 0..(TTL - 1), age : Ages]

Loop == "loop"
ThreadOf(t) == IF t \in Threaded THEN t ELSE Loop

ASSUME NoneAssumption ==
    /\ None \notin Ages \cup Snapshots \cup SharedOnes \cup Refreshes
    /\ None \notin Threaded \cup {Loop}
    /\ Loop \notin Threaded

VARIABLES
    directory,  \* directory[p]: the age of the files process p has, or None
    loader,     \* loader[p]: the snapshot of process p, for how long it has had
                \* it, and whether a build has left plugin definitions
    lock,       \* lock[p]: who holds the lock, and how often
    shared,     \* the shared snapshot and the time it has left, or None
    task,       \* task[t]: the call t runs
    stuck,      \* tasks of a loop that wait for the lock, and the loop with them
    refreshed   \* for the properties: the age of the last refresh of p's loader
                \* and of its contents, or None if a load overlapped it

vars == <<directory, loader, lock, shared, task, stuck, refreshed>>

Pcs == {"idle", "get", "read", "store", "build", "put", "shelve",
        "refresh", "share", "list", "loading", "reloading"}

(* late: a tick has passed since the call began.                           *)
Locals == [pc : Pcs, snapshot : Snapshots \cup {None}, late : BOOLEAN]
Idle == [pc |-> "idle", snapshot |-> None, late |-> FALSE]

TypeOK ==
    /\ directory \in [Pods -> Ages \cup {None}]
    /\ loader \in [Pods -> [snapshot : Snapshots \cup {None}, kept : 0..TTL, defs : BOOLEAN]]
    /\ lock \in [Pods -> [owner : Threaded \cup {Loop, None}, depth : Nat]]
    /\ \A p \in Pods : lock[p].owner = None <=> lock[p].depth = 0
    /\ shared = None \/ shared \in SharedOnes
    /\ task \in [Tasks -> Locals]
    /\ stuck \subseteq Tasks \ Threaded
    /\ refreshed \in [Pods -> Refreshes \cup {None}]

Empty == [snapshot |-> None, kept |-> 0, defs |-> FALSE]
Free == [owner |-> None, depth |-> 0]

Init ==
    /\ directory = [p \in Pods |-> None]
    /\ loader = [p \in Pods |-> Empty]
    /\ lock = [p \in Pods |-> Free]
    /\ shared = None
    /\ task = [t \in Tasks |-> Idle]
    /\ stuck = {}
    /\ refreshed = [p \in Pods |-> None]

-----------------------------------------------------------------------------
(* The lock and the event loop.                                            *)

(* A loop whose task waits for the lock runs nothing else.                 *)
Runs(t) ==
    t \in Threaded \/ \A u \in stuck : PodOf[u] = PodOf[t] => u = t

(* Mutant: the lock is not reentrant.                                      *)
NotHeld(t) == lock[PodOf[t]].owner = None

Acquirable(t) == lock[PodOf[t]].owner \in {None, ThreadOf(t)}

(* t comes to the lock at pc, and gets it.  A call may begin there.        *)
Arrives(t, pc) ==
    /\ Runs(t)
    /\ task[t].pc = pc \/ (pc \in {"get", "refresh", "list"} /\ task[t].pc = "idle")

AtLock(t, pc) ==
    /\ Arrives(t, pc)
    /\ Acquirable(t)
    /\ stuck' = stuck \ {t}

AtAwait(t, pc) ==
    /\ Runs(t)
    /\ task[t].pc = pc
    /\ UNCHANGED stuck

Acquire(t) ==
    lock' = [lock EXCEPT ![PodOf[t]] = [owner |-> ThreadOf(t), depth |-> @.depth + 1]]

(* Mutant: the depth is not looked at.                                     *)
ReleaseOnce(t) == lock' = [lock EXCEPT ![PodOf[t]].owner = None]

Release(t) ==
    lock' = [lock EXCEPT ![PodOf[t]] =
               IF @.depth = 1 THEN Free ELSE [owner |-> @.owner, depth |-> @.depth - 1]]

Goes(t, pc, snapshot) ==
    task' = [task EXCEPT ![t] = [pc |-> pc, snapshot |-> snapshot, late |-> @.late]]
Ends(t) == task' = [task EXCEPT ![t] = Idle]

(* A thread that has to wait is as good as not called yet.                 *)
Block(t, pc) ==
    /\ t \notin Threaded \cup stuck
    /\ Arrives(t, pc)
    /\ ~Acquirable(t)
    /\ stuck' = stuck \cup {t}
    /\ Goes(t, pc, task[t].snapshot)
    /\ UNCHANGED <<directory, loader, lock, shared, refreshed>>

-----------------------------------------------------------------------------
(* The three caches.                                                       *)

Valid(p) == loader[p].snapshot # None /\ loader[p].kept < TTL

(* Mutant: the age of the directory is not looked at.                      *)
FreshForEver(p) == directory[p] # None

Fresh(p) == directory[p] # None /\ directory[p] < TTL

Keeps(p, snapshot, defs) ==
    loader' = [loader EXCEPT ![p] = [snapshot |-> snapshot, kept |-> 0, defs |-> defs]]

(* _build_snapshot: a download, unless the directory is fresh and nothing  *)
(* is forced.  A download that fails leaves the directory as it was, and   *)
(* that is taken if there is one.                                          *)
Build(p, force) ==
    \/ /\ Fresh(p) /\ ~force
       /\ Keeps(p, [age |-> directory[p], stale |-> FALSE], TRUE)
       /\ UNCHANGED directory
    \/ /\ ~Fresh(p) \/ force
       /\ directory' = [directory EXCEPT ![p] = 0]
       /\ Keeps(p, [age |-> 0, stale |-> FALSE], TRUE)
    \/ /\ ~Fresh(p) \/ force
       /\ directory[p] # None
       /\ Keeps(p, [age |-> directory[p], stale |-> TRUE], TRUE)
       /\ UNCHANGED directory

(* No directory, or no token to download with (_mint_token_sync raises,    *)
(* and is asked for a token even if nothing is to be downloaded).          *)
BuildFails(p) == UNCHANGED <<directory, loader>>

-----------------------------------------------------------------------------
(* _get_snapshot_async.  Answers are not recorded: it is always what the   *)
(* loader has at the end of the call.                                      *)

(* Mutant: the shared cache is asked first.                                *)
LookElsewhere(t) ==
    /\ t \notin Threaded
    /\ AtLock(t, "get")
    /\ Goes(t, "read", None)
    /\ UNCHANGED <<directory, loader, lock, shared, refreshed>>

Look(t) ==
    /\ t \notin Threaded
    /\ AtLock(t, "get")
    /\ IF Valid(PodOf[t]) THEN Ends(t) ELSE Goes(t, "read", None)
    /\ UNCHANGED <<directory, loader, lock, shared, refreshed>>

(* A read that fails, or finds nothing it understands, is a miss.          *)
ReadShared(t) ==
    /\ AtAwait(t, "read")
    /\ \/ shared # None /\ Goes(t, "store", shared.snapshot)
       \/ Goes(t, "build", None)
    /\ UNCHANGED <<directory, loader, lock, shared, refreshed>>

(* What has been stored meanwhile is overwritten.                          *)
StoreShared(t) ==
    LET p == PodOf[t] IN
    /\ AtLock(t, "store")
    /\ Keeps(p, task[t].snapshot, loader[p].defs)
    /\ Ends(t)
    /\ UNCHANGED <<directory, lock, shared, refreshed>>

(* The lock is taken, and kept until the snapshot is in the shared cache.  *)
BuildAndHold(t) ==
    LET p == PodOf[t] IN
    /\ AtLock(t, "build")
    /\ \/ Valid(p) /\ Ends(t) /\ UNCHANGED <<directory, loader, lock>>
       \/ ~Valid(p) /\ Build(p, FALSE) /\ Goes(t, "put", loader'[p].snapshot) /\ Acquire(t)
       \/ ~Valid(p) /\ BuildFails(p) /\ Ends(t) /\ UNCHANGED lock
    /\ UNCHANGED <<shared, refreshed>>

(* Best effort, like the plugin definitions that get and refresh_async     *)
(* write next (nobody reads those: they are left out).                     *)
Put(t, pc, next) ==
    /\ AtAwait(t, pc)
    /\ \/ shared' = [snapshot |-> task[t].snapshot, left |-> TTL]
       \/ UNCHANGED shared
    /\ IF next = "idle" THEN Ends(t) ELSE Goes(t, next, None)
    /\ UNCHANGED <<directory, loader, lock, refreshed>>

Shelve(t) ==
    /\ AtAwait(t, "shelve")
    /\ Ends(t)
    /\ Release(t)
    /\ UNCHANGED <<directory, loader, shared, refreshed>>

(* list_plugin_definitions: a build on the event loop if need be, and then *)
(* whatever definitions the last build has left.                           *)
ListDefinitions(t) ==
    LET p == PodOf[t] IN
    /\ t \notin Threaded
    /\ AtLock(t, "list")
    /\ \/ Valid(p) /\ UNCHANGED <<directory, loader>>
       \/ ~Valid(p) /\ (Build(p, FALSE) \/ BuildFails(p))
    /\ Ends(t)
    /\ UNCHANGED <<lock, shared, refreshed>>

-----------------------------------------------------------------------------
(* refresh_async: the snapshot is shared after the lock was released.      *)

(* For the properties.                                                     *)
LoadUnderWay(p) == \E u \in Tasks : PodOf[u] = p /\ task[u].pc \in {"read", "store"}
Remember(p) ==
    refreshed' = [refreshed EXCEPT ![p] =
        IF LoadUnderWay(p) THEN None ELSE [ago |-> 0, age |-> loader'[p].snapshot.age]]

RefreshOnLoop(t) ==
    LET p == PodOf[t] IN
    /\ t \notin Threaded
    /\ AtLock(t, "refresh")
    /\ \/ Build(p, TRUE) /\ Goes(t, "share", loader'[p].snapshot) /\ Remember(p)
       \/ BuildFails(p) /\ Ends(t) /\ UNCHANGED refreshed
    /\ UNCHANGED <<lock, shared>>

-----------------------------------------------------------------------------
(* _get_snapshot and refresh in a thread: the lock is held while it loads. *)

LoadInThread(t) ==
    /\ t \in Threaded
    /\ AtLock(t, "get")
    /\ ~Valid(PodOf[t])
    /\ Goes(t, "loading", None)
    /\ Acquire(t)
    /\ UNCHANGED <<directory, loader, shared, refreshed>>

Loaded(t) ==
    LET p == PodOf[t] IN
    /\ AtAwait(t, "loading")
    /\ Build(p, FALSE) \/ BuildFails(p)
    /\ Ends(t)
    /\ Release(t)
    /\ UNCHANGED <<shared, refreshed>>

RefreshInThread(t) ==
    /\ t \in Threaded
    /\ AtLock(t, "refresh")
    /\ Goes(t, "reloading", None)
    /\ Acquire(t)
    /\ UNCHANGED <<directory, loader, shared, refreshed>>

Reloaded(t) ==
    LET p == PodOf[t] IN
    /\ AtAwait(t, "reloading")
    /\ \/ Build(p, TRUE) /\ Remember(p)
       \/ BuildFails(p) /\ UNCHANGED refreshed
    /\ Ends(t)
    /\ Release(t)
    /\ UNCHANGED shared

-----------------------------------------------------------------------------
(* Cancellation reaches a task at an await; a with statement releases.     *)
Cancel(t) ==
    /\ task[t].pc \in {"read", "put", "shelve", "share"}
    /\ Runs(t)
    /\ Ends(t)
    /\ IF task[t].pc \in {"put", "shelve"} THEN Release(t) ELSE UNCHANGED lock
    /\ UNCHANGED <<directory, loader, shared, stuck, refreshed>>

(* A process starts anew, with its directory or without.                   *)
Restart(p) ==
    /\ \E d \in {directory[p], None} : directory' = [directory EXCEPT ![p] = d]
    /\ loader' = [loader EXCEPT ![p] = Empty]
    /\ lock' = [lock EXCEPT ![p] = Free]
    /\ task' = [t \in Tasks |-> IF PodOf[t] = p THEN Idle ELSE task[t]]
    /\ stuck' = {t \in stuck : PodOf[t] # p}
    /\ refreshed' = [refreshed EXCEPT ![p] = None]
    /\ UNCHANGED shared

(* Time passes.  A call lasts one tick at the most.                        *)
Aged(s) == IF s = None THEN None ELSE [s EXCEPT !.age = Older(@)]

(* A snapshot that no call will be answered with is forgotten at once: it  *)
(* has expired, and nobody holds the lock to return it after its put.      *)
Later(p) ==
    LET held == loader[p] IN
    IF held.snapshot = None THEN held
    ELSE IF held.kept + 1 >= TTL /\ lock[p].owner # Loop
         THEN [snapshot |-> None, kept |-> 0, defs |-> held.defs]
         ELSE [snapshot |-> Aged(held.snapshot),
               kept |-> IF held.kept < TTL THEN held.kept + 1 ELSE TTL,
               defs |-> held.defs]

Tick ==
    /\ \A t \in Tasks : ~task[t].late
    /\ directory' = [p \in Pods |-> IF directory[p] = None THEN None ELSE Older(directory[p])]
    /\ loader' = [p \in Pods |-> Later(p)]
    /\ shared' = IF shared = None \/ shared.left = 1 THEN None
                 ELSE [snapshot |-> Aged(shared.snapshot), left |-> shared.left - 1]
    /\ task' = [t \in Tasks |->
         [pc |-> task[t].pc, snapshot |-> Aged(task[t].snapshot), late |-> task[t].pc # "idle"]]
    /\ refreshed' = [p \in Pods |->
         IF refreshed[p] = None \/ refreshed[p].ago = TTL - 1 THEN None
         ELSE [ago |-> refreshed[p].ago + 1, age |-> Older(refreshed[p].age)]]
    /\ UNCHANGED <<lock, stuck>>

-----------------------------------------------------------------------------
(* What calls do of their own.  Begun calls go on.                         *)
Begins(t) ==
    \/ Look(t)
    \/ ListDefinitions(t)
    \/ RefreshOnLoop(t)
    \/ LoadInThread(t)
    \/ RefreshInThread(t)

Continues(t) ==
    \/ ReadShared(t)
    \/ StoreShared(t)
    \/ BuildAndHold(t)
    \/ Put(t, "put", "shelve")
    \/ Shelve(t)
    \/ Put(t, "share", "idle")
    \/ Loaded(t)
    \/ Reloaded(t)

Next ==
    \/ \E t \in Tasks :
         \/ Begins(t)
         \/ Continues(t)
         \/ \E pc \in {"get", "store", "build", "refresh", "list"} : Block(t, pc)
         \/ Cancel(t)
    \/ \E p \in Pods : Restart(p)
    \/ Tick

Spec == Init /\ [][Next]_vars

(* The event loop gets round to every task, and a lock that is released    *)
(* again and again is had in the end by whoever waits for it.              *)
FairSpec ==
    /\ Spec
    /\ \A t \in Tasks : SF_vars(task[t].pc # "idle" /\ (Begins(t) \/ Continues(t)))

-----------------------------------------------------------------------------
(* Properties                                                              *)

(* What calls are answered with is at most three times TTL old, whichever  *)
(* way it came through the three caches, unless a download has failed: no  *)
(* two caches keep a snapshot alive in turns (_is_snapshot_valid_unlocked, *)
(* the ttl of the shared entry and of the directory).                      *)
StalenessBounded ==
    \A p \in Pods :
        Valid(p) \/ lock[p].owner = Loop =>
            loader[p].snapshot.stale \/ loader[p].snapshot.age <= 3 * TTL

(* For TTL after a refresh that no load has overlapped, its process has a  *)
(* snapshot at least as new, whatever other processes share (refresh,      *)
(* _get_snapshot_async).                                                   *)
RefreshHolds ==
    \A p \in Pods :
        refreshed[p] # None =>
            loader[p].snapshot # None /\ loader[p].snapshot.age <= refreshed[p].age

(* Every call returns: tasks of one loop that hold the lock across awaits, *)
(* and threads that hold it through a download, do not wait on each other  *)
(* for ever (_get_snapshot_async under the RLock).                         *)
CallsReturn == \A t \in Tasks : task[t].pc # "idle" ~> task[t].pc = "idle"
=============================================================================
