---------------------- MODULE MarketplaceSnapshotProofs ----------------------
(***************************************************************************)
(* Proofs about MarketplaceSnapshot for any number of processes, tasks and *)
(* threads, and any timeout.                                               *)
(*                                                                         *)
(* The inductive invariant counts who holds the lock (LockFits), says that *)
(* a loader whose lock a task of the loop holds has been filled within the *)
(* last tick (HeldYoung), follows the age of a snapshot from one cache to  *)
(* the next (LoaderAged, SharedAged, TaskAged), and says that nothing a    *)
(* refresh must outlast is under way (RefreshFits).                        *)
(*                                                                         *)
(* TaskStep lists all a step of a call may do to each of these, so that    *)
(* each part of the invariant is dealt with once and not once per action.  *)
(***************************************************************************)
EXTENDS MarketplaceSnapshot, FiniteSetTheorems, TLAPS

USE TasksAssumption, TtlAssumption, NoneAssumption

HoldingPcs == {"put", "shelve", "loading", "reloading"}
LoadingPcs == {"read", "store", "loading"}

(* Calls of threads and of the loop are at places of their own, and carry  *)
(* a snapshot where they need one.                                         *)
Placed(t) ==
    /\ task[t].pc \in {"loading", "reloading"} => t \in Threaded
    /\ task[t].pc \notin {"idle", "loading", "reloading"} => t \notin Threaded
    /\ task[t].pc \in {"store", "put", "share"} => task[t].snapshot \in Snapshots

Holds(t) == task[t].pc \in HoldingPcs
Holders(p) == {t \in Tasks : PodOf[t] = p /\ Holds(t)}

(* The lock is held once for each call at a place where it is held, by the *)
(* loop or by the one thread.                                              *)
LockFits(p) ==
    /\ IsFiniteSet(Holders(p))
    /\ lock[p].owner \in Threaded \cup {Loop, None}
    /\ lock[p].depth = Cardinality(Holders(p))
    /\ Holders(p) = {} => lock[p].owner = None
    /\ \A t \in Holders(p) : lock[p].owner = ThreadOf(t)

(* Calls took the lock on the loop with a new snapshot, and within a tick  *)
(* they are gone.                                                          *)
HeldYoung(t) ==
    task[t].pc \in {"put", "shelve"} =>
        LET held == loader[PodOf[t]] IN
        /\ held.snapshot # None
        /\ held.kept <= 1
        /\ task[t].late = FALSE => held.kept = 0

(* How old a snapshot is that the downloads did not fail for.              *)
Within(s, age) == s.stale = FALSE => s.age <= age

LateBy(t) == IF task[t].late = TRUE THEN 1 ELSE 0

LoaderAged(p) ==
    loader[p].snapshot # None =>
        Within(loader[p].snapshot, 2 * TTL + loader[p].kept)
SharedAged ==
    shared # None => Within(shared.snapshot, 2 * TTL - shared.left)
TaskAged(t) ==
    /\ task[t].pc \in {"put", "share"} => Within(task[t].snapshot, TTL - 1 + LateBy(t))
    /\ task[t].pc = "store" => Within(task[t].snapshot, 2 * TTL - 1 + LateBy(t))

(* While a refresh must hold, the loader has not had its snapshot longer   *)
(* than the refresh is ago, and nobody is about to put another there.      *)
RefreshFits(p) ==
    refreshed[p] # None =>
        /\ loader[p].snapshot # None
        /\ loader[p].snapshot.age <= refreshed[p].age
        /\ loader[p].kept <= refreshed[p].ago
        /\ \A t \in Tasks : PodOf[t] = p => task[t].pc \notin LoadingPcs

Calls == \A t \in Tasks : Placed(t) /\ HeldYoung(t) /\ TaskAged(t)
Loaders == \A p \in Pods : LockFits(p) /\ LoaderAged(p) /\ RefreshFits(p)
IInv == TypeOK /\ Calls /\ Loaders /\ SharedAged

-----------------------------------------------------------------------------
(* What a step of a call may do                                            *)

LoaderRecords == [snapshot : Snapshots \cup {None}, kept : 0..TTL, defs : BOOLEAN]

TaskMoves(t) ==
    /\ task' \in [Tasks -> Locals]
    /\ \A u \in Tasks \ {t} : task'[u] = task[u]
    /\ stuck' \subseteq Tasks \ Threaded
    /\ Placed(t)'
    /\ TaskAged(t)'
    /\ HeldYoung(t)'

(* The lock is as it was, or t has come to hold it, or has let go of it.   *)
HoldMoves(t) ==
    \/ UNCHANGED lock /\ (Holds(t)' <=> Holds(t))
    \/ Acquirable(t) /\ Acquire(t) /\ ~Holds(t) /\ Holds(t)'
    \/ Release(t) /\ Holds(t) /\ ~Holds(t)'

Filled(p) ==
    /\ loader'[p].snapshot # None
    /\ loader'[p].kept = 0
    /\ Within(loader'[p].snapshot, 2 * TTL)
LoaderMoves(p) ==
    /\ directory' \in [Pods -> Ages \cup {None}]
    /\ loader' \in [Pods -> LoaderRecords]
    /\ \A q \in Pods \ {p} : loader'[q] = loader[q]
    /\ loader'[p] = loader[p] \/ Filled(p)

SharedMoves ==
    shared' = shared \/ (shared' \in SharedOnes /\ SharedAged')

(* A refresh holds no longer, or what must last is left alone, or p has    *)
(* been refreshed.                                                         *)
RefreshMoves(t) ==
    LET p == PodOf[t] IN
    /\ refreshed' \in [Pods -> Refreshes \cup {None}]
    /\ \A q \in Pods \ {p} : refreshed'[q] = refreshed[q]
    /\ \/ refreshed'[p] = None
       \/ refreshed'[p] = refreshed[p] /\ loader'[p] = loader[p]
          /\ task'[t].pc \notin LoadingPcs
       \/ /\ refreshed'[p] = [ago |-> 0, age |-> loader'[p].snapshot.age]
          /\ loader'[p].snapshot # None /\ loader'[p].kept = 0
          /\ \A u \in Tasks : PodOf[u] = p => task'[u].pc \notin LoadingPcs

TaskStep(t) ==
    /\ TaskMoves(t)
    /\ HoldMoves(t)
    /\ LoaderMoves(PodOf[t])
    /\ SharedMoves
    /\ RefreshMoves(t)

-----------------------------------------------------------------------------
(* Pieces of steps                                                         *)

(* A build leaves a snapshot of a directory that is fresh, or of one that  *)
(* no download has renewed.                                                *)
LEMMA BuildFills ==
  ASSUME TypeOK, NEW p \in Pods, Build(p, FALSE) \/ Build(p, TRUE)
  PROVE  /\ LoaderMoves(p)
         /\ Filled(p)
         /\ loader'[p].snapshot \in Snapshots
         /\ Within(loader'[p].snapshot, TTL - 1)
<1> DEFINE Got(s) == [snapshot |-> s, kept |-> 0, defs |-> TRUE]
<1>1. PICK s \in Snapshots :
        /\ loader' = [loader EXCEPT ![p] = Got(s)]
        /\ Within(s, TTL - 1)
        /\ directory' \in [Pods -> Ages \cup {None}]
  <2>1. CASE Fresh(p) /\ Keeps(p, [age |-> directory[p], stale |-> FALSE], TRUE)
             /\ UNCHANGED directory
    <3>1. [age |-> directory[p], stale |-> FALSE] \in Snapshots
      BY <2>1 DEF TypeOK, Fresh, Snapshots
    <3>2. directory[p] <= TTL - 1
      BY <2>1 DEF TypeOK, Fresh, Ages
    <3> QED
      BY <2>1, <3>1, <3>2 DEF Keeps, Within, TypeOK
  <2>2. CASE directory' = [directory EXCEPT ![p] = 0]
             /\ Keeps(p, [age |-> 0, stale |-> FALSE], TRUE)
    <3>1. [age |-> 0, stale |-> FALSE] \in Snapshots
      BY DEF Snapshots, Ages, Old
    <3>2. directory' \in [Pods -> Ages \cup {None}]
      BY <2>2 DEF TypeOK, Ages, Old
    <3>3. Within([age |-> 0, stale |-> FALSE], TTL - 1)
      BY DEF Within
    <3> QED
      BY <2>2, <3>1, <3>2, <3>3 DEF Keeps
  <2>3. CASE directory[p] # None /\ UNCHANGED directory
             /\ Keeps(p, [age |-> directory[p], stale |-> TRUE], TRUE)
    <3>1. [age |-> directory[p], stale |-> TRUE] \in Snapshots
      BY <2>3 DEF TypeOK, Snapshots
    <3> QED
      BY <2>3, <3>1 DEF Keeps, Within, TypeOK
  <2> QED
    BY <2>1, <2>2, <2>3 DEF Build
<1>2. Got(s) \in LoaderRecords
  BY DEF LoaderRecords
<1>3. loader' \in [Pods -> LoaderRecords] /\ loader'[p] = Got(s)
  BY <1>1, <1>2 DEF TypeOK, LoaderRecords
<1>4. \A q \in Pods \ {p} : loader'[q] = loader[q]
  BY <1>1 DEF TypeOK
<1>5. Within(s, 2 * TTL)
  BY <1>1 DEF Within, Snapshots, Ages
<1> QED
  BY <1>1, <1>3, <1>4, <1>5 DEF LoaderMoves, Filled

(* As long as a refresh must hold, its process answers from the loader.    *)
LEMMA RefreshedIsValid ==
  ASSUME TypeOK, NEW p \in Pods, RefreshFits(p), refreshed[p] # None
  PROVE  Valid(p)
<1>1. refreshed[p].ago \in 0..(TTL - 1) /\ loader[p].kept \in 0..TTL
  BY DEF TypeOK, Refreshes
<1> QED
  BY <1>1 DEF RefreshFits, Valid

(* A call goes on at another place, with or without a snapshot.            *)
LEMMA GoesOn ==
  ASSUME TypeOK, NEW t \in Tasks, NEW pc \in Pcs, NEW s \in Snapshots \cup {None},
         Goes(t, pc, s)
  PROVE  /\ task' \in [Tasks -> Locals]
         /\ \A u \in Tasks \ {t} : task'[u] = task[u]
         /\ task'[t] = [pc |-> pc, snapshot |-> s, late |-> task[t].late]
<1>1. [pc |-> pc, snapshot |-> s, late |-> task[t].late] \in Locals
  BY DEF TypeOK, Locals
<1> QED
  BY <1>1 DEF Goes, TypeOK

LEMMA EndsHere ==
  ASSUME TypeOK, NEW t \in Tasks, Ends(t)
  PROVE  /\ task' \in [Tasks -> Locals]
         /\ \A u \in Tasks \ {t} : task'[u] = task[u]
         /\ task'[t] = Idle
<1>1. Idle \in Locals
  BY DEF Idle, Locals, Pcs
<1> QED
  BY <1>1 DEF Ends, TypeOK

(* An ended call is nowhere, and carries and holds nothing.                *)
LEMMA EndedFits ==
  ASSUME NEW t \in Tasks, task'[t] = Idle
  PROVE  Placed(t)' /\ TaskAged(t)' /\ HeldYoung(t)' /\ ~Holds(t)'
         /\ task'[t].pc \notin LoadingPcs
BY DEF Idle, Placed, TaskAged, HeldYoung, Holds, HoldingPcs, LoadingPcs

(* A loader that is left alone.                                            *)
LEMMA LoaderStays ==
  ASSUME TypeOK, NEW t \in Tasks, UNCHANGED <<directory, loader>>
  PROVE  LoaderMoves(PodOf[t])
BY DEF LoaderMoves, TypeOK, LoaderRecords

(* What a refresh left is left alone.                                      *)
LEMMA RefreshStays ==
  ASSUME TypeOK, NEW t \in Tasks, UNCHANGED <<loader, refreshed>>,
         task'[t].pc \notin LoadingPcs
  PROVE  RefreshMoves(t)
BY DEF RefreshMoves, TypeOK

(* There was no refresh that must hold.                                    *)
LEMMA RefreshGone ==
  ASSUME TypeOK, NEW t \in Tasks, UNCHANGED refreshed, refreshed[PodOf[t]] = None
  PROVE  RefreshMoves(t)
BY DEF RefreshMoves, TypeOK

(* A call that asks for the lock holds none, and is not stuck any more.    *)
LEMMA AtLockFacts ==
  ASSUME TypeOK, NEW t \in Tasks,
         NEW pc \in {"get", "store", "build", "refresh", "list"}, AtLock(t, pc)
  PROVE  /\ ~Holds(t)
         /\ Acquirable(t)
         /\ stuck' \subseteq Tasks \ Threaded
BY DEF AtLock, Arrives, Holds, HoldingPcs, TypeOK

LEMMA AtAwaitFacts ==
  ASSUME TypeOK, NEW t \in Tasks, NEW pc \in Pcs, AtAwait(t, pc)
  PROVE  /\ task[t].pc = pc
         /\ stuck' \subseteq Tasks \ Threaded
BY DEF AtAwait, TypeOK

(* The whole of a step, put together from its parts.                       *)
LEMMA Parts ==
  ASSUME NEW t \in Tasks, TaskMoves(t), HoldMoves(t), LoaderMoves(PodOf[t]), SharedMoves,
         RefreshMoves(t)
  PROVE  TaskStep(t)
BY DEF TaskStep

-----------------------------------------------------------------------------
(* The actions                                                             *)

USE DEF Placed, Pcs

(* A call of the loop that goes on at an await or the lock, at a place     *)
(* where it holds nothing and loads nothing.                               *)
LEMMA LookStep ==
  ASSUME IInv, NEW t \in Tasks, Look(t)
  PROVE  TaskStep(t)
<1>1. TypeOK /\ RefreshFits(PodOf[t])
  BY DEF IInv, Loaders
<1>2. ~Holds(t) /\ stuck' \subseteq Tasks \ Threaded
  BY <1>1, AtLockFacts DEF Look
<1>3. LoaderMoves(PodOf[t]) /\ SharedMoves
  BY <1>1, LoaderStays DEF Look, SharedMoves
<1>4. CASE Valid(PodOf[t])
  <2>1. Ends(t)
    BY <1>4 DEF Look
  <2>2. TaskMoves(t) /\ HoldMoves(t)
    BY <1>1, <1>2, <2>1, EndsHere, EndedFits DEF Look, TaskMoves, HoldMoves
  <2>3. RefreshMoves(t)
    BY <1>1, <2>1, EndsHere, EndedFits, RefreshStays DEF Look
  <2> QED
    BY <1>3, <2>2, <2>3, Parts
<1>5. CASE ~Valid(PodOf[t])
  <2>1. Goes(t, "read", None)
    BY <1>5 DEF Look
  <2>2. task' \in [Tasks -> Locals] /\ (\A u \in Tasks \ {t} : task'[u] = task[u])
        /\ task'[t] = [pc |-> "read", snapshot |-> None, late |-> task[t].late]
    BY <1>1, <2>1, GoesOn
  <2>3. Placed(t)' /\ TaskAged(t)' /\ HeldYoung(t)' /\ ~Holds(t)'
    BY <2>2 DEF Look, TaskAged, HeldYoung, Holds, HoldingPcs
  <2>4. TaskMoves(t) /\ HoldMoves(t)
    BY <1>2, <2>2, <2>3 DEF Look, TaskMoves, HoldMoves
  <2>5. RefreshMoves(t)
    BY <1>1, <1>5, RefreshedIsValid, RefreshGone DEF Look
  <2> QED
    BY <1>3, <2>4, <2>5, Parts
<1> QED
  BY <1>4, <1>5

LEMMA ReadSharedStep ==
  ASSUME IInv, NEW t \in Tasks, ReadShared(t)
  PROVE  TaskStep(t)
<1>1. TypeOK /\ RefreshFits(PodOf[t]) /\ Placed(t) /\ SharedAged
  BY DEF IInv, Loaders, Calls
<1>2. task[t].pc = "read" /\ ~Holds(t) /\ stuck' \subseteq Tasks \ Threaded
  BY <1>1, AtAwaitFacts DEF ReadShared, Holds, HoldingPcs
<1>3. LoaderMoves(PodOf[t]) /\ SharedMoves
  BY <1>1, LoaderStays DEF ReadShared, SharedMoves
<1>4. PICK s \in Snapshots \cup {None}, pc \in {"store", "build"} :
        /\ Goes(t, pc, s)
        /\ pc = "store" => s \in Snapshots /\ Within(s, 2 * TTL - 1)
  <2>1. CASE shared # None /\ Goes(t, "store", shared.snapshot)
    <3>1. shared.snapshot \in Snapshots /\ shared.left \in 1..TTL
      BY <1>1, <2>1 DEF TypeOK, SharedOnes
    <3>2. Within(shared.snapshot, 2 * TTL - 1)
      BY <1>1, <2>1, <3>1 DEF SharedAged, Within, Snapshots, Ages
    <3> QED
      BY <2>1, <3>1, <3>2
  <2>2. CASE Goes(t, "build", None)
    BY <2>2
  <2> QED
    BY <2>1, <2>2 DEF ReadShared
<1>5. task' \in [Tasks -> Locals] /\ (\A u \in Tasks \ {t} : task'[u] = task[u])
      /\ task'[t] = [pc |-> pc, snapshot |-> s, late |-> task[t].late]
  BY <1>1, <1>4, GoesOn
<1>6. Placed(t)' /\ HeldYoung(t)' /\ ~Holds(t)'
  BY <1>1, <1>2, <1>4, <1>5 DEF ReadShared, HeldYoung, Holds, HoldingPcs
<1>7. TaskAged(t)'
  BY <1>4, <1>5 DEF TaskAged, Within, LateBy, Snapshots, Ages
<1>8. TaskMoves(t) /\ HoldMoves(t)
  BY <1>2, <1>5, <1>6, <1>7 DEF ReadShared, TaskMoves, HoldMoves
<1>9. refreshed[PodOf[t]] = None
  BY <1>1, <1>2 DEF RefreshFits, LoadingPcs
<1>10. RefreshMoves(t)
  BY <1>1, <1>9, RefreshGone DEF ReadShared
<1> QED
  BY <1>3, <1>8, <1>10, Parts

(* What another process shared is not older than two timeouts when it is   *)
(* stored, and no refresh overtook its load that must hold.                *)
LEMMA StoreSharedStep ==
  ASSUME IInv, NEW t \in Tasks, StoreShared(t)
  PROVE  TaskStep(t)
<1> DEFINE p == PodOf[t]
           k == [snapshot |-> task[t].snapshot, kept |-> 0, defs |-> loader[p].defs]
<1>1. TypeOK /\ RefreshFits(p) /\ Placed(t) /\ TaskAged(t) /\ p \in Pods
  BY DEF IInv, Loaders, Calls
<1>2. ~Holds(t) /\ stuck' \subseteq Tasks \ Threaded
  BY <1>1, AtLockFacts DEF StoreShared
<1>3. task[t].pc = "store"
  BY DEF StoreShared, AtLock, Arrives
<1>4. task[t].snapshot \in Snapshots /\ Within(task[t].snapshot, 2 * TTL)
  BY <1>1, <1>3 DEF TaskAged, Within, LateBy, Snapshots, Ages
<1>5. k \in LoaderRecords
  BY <1>1, <1>4 DEF TypeOK, LoaderRecords
<1>6. loader' = [loader EXCEPT ![p] = k]
  BY DEF StoreShared, Keeps
<1>7. loader' \in [Pods -> LoaderRecords] /\ loader'[p] = k
      /\ \A q \in Pods \ {p} : loader'[q] = loader[q]
  BY <1>1, <1>5, <1>6 DEF TypeOK, LoaderRecords
<1>8. LoaderMoves(p) /\ SharedMoves
  BY <1>1, <1>4, <1>7 DEF LoaderMoves, Filled, SharedMoves, StoreShared, TypeOK
<1>9. TaskMoves(t) /\ HoldMoves(t)
  BY <1>1, <1>2, EndsHere, EndedFits DEF StoreShared, TaskMoves, HoldMoves
<1>10. refreshed[p] = None
  BY <1>1, <1>3 DEF RefreshFits, LoadingPcs
<1>11. RefreshMoves(t)
  BY <1>1, <1>10, RefreshGone DEF StoreShared
<1> QED
  BY <1>8, <1>9, <1>11, Parts

(* The end of a call that changed nothing else.                            *)
LEMMA EndsAndLeaves ==
  ASSUME TypeOK, NEW t \in Tasks, Ends(t), ~Holds(t), UNCHANGED lock,
         UNCHANGED <<directory, loader, shared, refreshed>>,
         stuck' \subseteq Tasks \ Threaded
  PROVE  TaskStep(t)
<1>1. LoaderMoves(PodOf[t]) /\ SharedMoves
  BY LoaderStays DEF SharedMoves
<1>2. TaskMoves(t) /\ HoldMoves(t)
  BY EndsHere, EndedFits DEF TaskMoves, HoldMoves
<1>3. RefreshMoves(t)
  BY EndsHere, EndedFits, RefreshStays
<1> QED
  BY <1>1, <1>2, <1>3, Parts

(* A task of the loop takes the lock together with the snapshot it made.   *)
LEMMA BuildAndHoldStep ==
  ASSUME IInv, NEW t \in Tasks, BuildAndHold(t)
  PROVE  TaskStep(t)
<1> DEFINE p == PodOf[t]
           s == loader'[p].snapshot
<1>1. TypeOK /\ RefreshFits(p) /\ Placed(t) /\ p \in Pods
  BY DEF IInv, Loaders, Calls
<1>2. ~Holds(t) /\ Acquirable(t) /\ stuck' \subseteq Tasks \ Threaded
  BY <1>1, AtLockFacts DEF BuildAndHold
<1>3. CASE Ends(t) /\ UNCHANGED <<directory, loader, lock>>
  BY <1>1, <1>2, <1>3, EndsAndLeaves DEF BuildAndHold
<1>4. CASE ~Valid(p) /\ Build(p, FALSE) /\ Goes(t, "put", s) /\ Acquire(t)
  <2>1. LoaderMoves(p) /\ Filled(p) /\ s \in Snapshots /\ Within(s, TTL - 1)
    BY <1>1, <1>4, BuildFills
  <2>2. task' \in [Tasks -> Locals] /\ (\A u \in Tasks \ {t} : task'[u] = task[u])
        /\ task'[t] = [pc |-> "put", snapshot |-> s, late |-> task[t].late]
    BY <1>1, <1>4, <2>1, GoesOn
  <2>3. t \notin Threaded
    BY <1>1 DEF BuildAndHold, AtLock, Arrives
  <2>4. Placed(t)' /\ HeldYoung(t)' /\ Holds(t)'
    BY <2>1, <2>2, <2>3 DEF HeldYoung, Holds, HoldingPcs, Filled
  <2>5. TaskAged(t)'
    BY <2>1, <2>2 DEF TaskAged, Within, LateBy, Snapshots, Ages
  <2>6. TaskMoves(t) /\ HoldMoves(t)
    BY <1>2, <1>4, <2>2, <2>4, <2>5 DEF TaskMoves, HoldMoves
  <2>7. RefreshMoves(t) /\ SharedMoves
    BY <1>1, <1>4, RefreshedIsValid, RefreshGone DEF BuildAndHold, SharedMoves
  <2> QED
    BY <2>1, <2>6, <2>7, Parts
<1> QED
  BY <1>3, <1>4 DEF BuildAndHold, BuildFails

(* What is shared was downloaded at most one timeout and a tick ago.       *)
LEMMA PutShares ==
  ASSUME IInv, NEW t \in Tasks, task[t].pc \in {"put", "share"},
         \/ shared' = [snapshot |-> task[t].snapshot, left |-> TTL]
         \/ UNCHANGED shared
  PROVE  SharedMoves
<1>1. TypeOK /\ Placed(t) /\ TaskAged(t)
  BY DEF IInv, Calls
<1>2. CASE UNCHANGED shared
  BY <1>2 DEF SharedMoves
<1>3. CASE shared' = [snapshot |-> task[t].snapshot, left |-> TTL]
  <2>1. task[t].snapshot \in Snapshots /\ Within(task[t].snapshot, TTL)
    BY <1>1 DEF TaskAged, Within, LateBy, Snapshots, Ages
  <2>2. shared' \in SharedOnes
    BY <1>3, <2>1 DEF SharedOnes
  <2>3. SharedAged'
    BY <1>3, <2>1 DEF SharedAged, Within
  <2> QED
    BY <2>2, <2>3 DEF SharedMoves
<1> QED
  BY <1>2, <1>3

LEMMA PutStep ==
  ASSUME IInv, NEW t \in Tasks, Put(t, "put", "shelve")
  PROVE  TaskStep(t)
<1>1. TypeOK /\ Placed(t) /\ HeldYoung(t)
  BY DEF IInv, Calls
<1>2. task[t].pc = "put" /\ stuck' \subseteq Tasks \ Threaded
  BY <1>1, AtAwaitFacts DEF Put
<1>3. Goes(t, "shelve", None) /\ UNCHANGED <<directory, loader, lock, refreshed>>
  BY DEF Put
<1>4. task' \in [Tasks -> Locals] /\ (\A u \in Tasks \ {t} : task'[u] = task[u])
      /\ task'[t] = [pc |-> "shelve", snapshot |-> None, late |-> task[t].late]
  BY <1>1, <1>3, GoesOn
<1>5. Placed(t)' /\ HeldYoung(t)' /\ TaskAged(t)' /\ Holds(t) /\ Holds(t)'
      /\ task'[t].pc \notin LoadingPcs
  BY <1>1, <1>2, <1>3, <1>4 DEF HeldYoung, TaskAged, Holds, HoldingPcs, LoadingPcs
<1>6. TaskMoves(t) /\ HoldMoves(t)
  BY <1>2, <1>3, <1>4, <1>5 DEF TaskMoves, HoldMoves
<1>7. SharedMoves
  BY <1>2, PutShares DEF Put
<1>8. LoaderMoves(PodOf[t]) /\ RefreshMoves(t)
  BY <1>1, <1>3, <1>5, LoaderStays, RefreshStays
<1> QED
  BY <1>6, <1>7, <1>8, Parts

LEMMA ShareStep ==
  ASSUME IInv, NEW t \in Tasks, Put(t, "share", "idle")
  PROVE  TaskStep(t)
<1>1. TypeOK
  BY DEF IInv
<1>2. task[t].pc = "share" /\ stuck' \subseteq Tasks \ Threaded
  BY <1>1, AtAwaitFacts DEF Put
<1>3. Ends(t) /\ UNCHANGED <<directory, loader, lock, refreshed>>
  BY DEF Put
<1>4. ~Holds(t)
  BY <1>2 DEF Holds, HoldingPcs
<1>5. TaskMoves(t) /\ HoldMoves(t)
  BY <1>1, <1>2, <1>3, <1>4, EndsHere, EndedFits DEF TaskMoves, HoldMoves
<1>6. SharedMoves
  BY <1>2, PutShares DEF Put
<1>7. LoaderMoves(PodOf[t]) /\ RefreshMoves(t)
  BY <1>1, <1>3, EndsHere, EndedFits, LoaderStays, RefreshStays
<1> QED
  BY <1>5, <1>6, <1>7, Parts

(* A call that ends lets go of the lock it holds.                          *)
LEMMA EndsAndReleases ==
  ASSUME TypeOK, NEW t \in Tasks, Ends(t), Holds(t), Release(t),
         UNCHANGED <<directory, loader, shared, refreshed>>,
         stuck' \subseteq Tasks \ Threaded
  PROVE  TaskStep(t)
<1>1. LoaderMoves(PodOf[t]) /\ SharedMoves
  BY LoaderStays DEF SharedMoves
<1>2. TaskMoves(t) /\ HoldMoves(t)
  BY EndsHere, EndedFits DEF TaskMoves, HoldMoves
<1>3. RefreshMoves(t)
  BY EndsHere, EndedFits, RefreshStays
<1> QED
  BY <1>1, <1>2, <1>3, Parts

LEMMA ShelveStep ==
  ASSUME IInv, NEW t \in Tasks, Shelve(t)
  PROVE  TaskStep(t)
<1>1. TypeOK
  BY DEF IInv
<1>2. Holds(t) /\ stuck' \subseteq Tasks \ Threaded
  BY <1>1, AtAwaitFacts DEF Shelve, Holds, HoldingPcs
<1> QED
  BY <1>1, <1>2, EndsAndReleases DEF Shelve

LEMMA CancelStep ==
  ASSUME IInv, NEW t \in Tasks, Cancel(t)
  PROVE  TaskStep(t)
<1>1. TypeOK /\ Placed(t) /\ stuck' \subseteq Tasks \ Threaded
  BY DEF IInv, Calls, Cancel, TypeOK
<1>2. CASE task[t].pc \in {"put", "shelve"}
  <2>1. Holds(t) /\ Release(t)
    BY <1>2 DEF Cancel, Holds, HoldingPcs
  <2> QED
    BY <1>1, <2>1, EndsAndReleases DEF Cancel
<1>3. CASE task[t].pc \in {"read", "share"}
  <2>1. ~Holds(t) /\ UNCHANGED lock
    BY <1>3 DEF Cancel, Holds, HoldingPcs
  <2> QED
    BY <1>1, <2>1, EndsAndLeaves DEF Cancel
<1> QED
  BY <1>2, <1>3 DEF Cancel

(* A build at the end of a call, with the lock as the call leaves it.      *)
LEMMA BuildsAndEnds ==
  ASSUME IInv, NEW t \in Tasks, Build(PodOf[t], FALSE), Ends(t), HoldMoves(t),
         refreshed[PodOf[t]] = None, UNCHANGED <<shared, refreshed>>,
         stuck' \subseteq Tasks \ Threaded
  PROVE  TaskStep(t)
<1>1. TypeOK /\ PodOf[t] \in Pods
  BY DEF IInv
<1>2. LoaderMoves(PodOf[t]) /\ SharedMoves
  BY <1>1, BuildFills DEF SharedMoves
<1>3. TaskMoves(t) /\ RefreshMoves(t)
  BY <1>1, EndsHere, EndedFits, RefreshGone DEF TaskMoves
<1> QED
  BY <1>2, <1>3, Parts

LEMMA ListDefinitionsStep ==
  ASSUME IInv, NEW t \in Tasks, ListDefinitions(t)
  PROVE  TaskStep(t)
<1> DEFINE p == PodOf[t]
<1>1. TypeOK /\ RefreshFits(p) /\ p \in Pods
  BY DEF IInv, Loaders
<1>2. ~Holds(t) /\ stuck' \subseteq Tasks \ Threaded /\ Ends(t)
  BY <1>1, AtLockFacts DEF ListDefinitions
<1>3. CASE UNCHANGED <<directory, loader>>
  BY <1>1, <1>2, <1>3, EndsAndLeaves DEF ListDefinitions
<1>4. CASE ~Valid(p) /\ Build(p, FALSE)
  <2>1. refreshed[p] = None
    BY <1>1, <1>4, RefreshedIsValid
  <2>2. HoldMoves(t)
    BY <1>1, <1>2, EndsHere, EndedFits DEF HoldMoves, ListDefinitions
  <2> QED
    BY <1>2, <1>4, <2>1, <2>2, BuildsAndEnds DEF ListDefinitions
<1> QED
  BY <1>3, <1>4 DEF ListDefinitions, BuildFails

(* The age of what p has been refreshed with is remembered, unless a load  *)
(* is under way that may still put an older snapshot in its place.         *)
LEMMA RemembersRefresh ==
  ASSUME IInv, NEW t \in Tasks, Build(PodOf[t], TRUE), Remember(PodOf[t]),
         task'[t].pc \notin LoadingPcs,
         \A u \in Tasks \ {t} : task'[u] = task[u],
         \A u \in Tasks \ {t} : PodOf[u] = PodOf[t] => task[u].pc # "loading"
  PROVE  RefreshMoves(t)
<1> DEFINE p == PodOf[t]
<1>1. TypeOK /\ p \in Pods
  BY DEF IInv
<1>2. Filled(p) /\ loader'[p].snapshot \in Snapshots
  BY <1>1, BuildFills
<1>3. [ago |-> 0, age |-> loader'[p].snapshot.age] \in Refreshes
  BY <1>2 DEF Refreshes, Snapshots
<1>4. refreshed' \in [Pods -> Refreshes \cup {None}]
      /\ \A q \in Pods \ {p} : refreshed'[q] = refreshed[q]
  BY <1>1, <1>3 DEF Remember, TypeOK
<1>5. CASE LoadUnderWay(p)
  <2>1. refreshed'[p] = None
    BY <1>1, <1>5 DEF Remember, TypeOK
  <2> QED
    BY <1>4, <2>1 DEF RefreshMoves
<1>6. CASE ~LoadUnderWay(p)
  <2>1. refreshed'[p] = [ago |-> 0, age |-> loader'[p].snapshot.age]
    BY <1>1, <1>6 DEF Remember, TypeOK
  <2>2. \A u \in Tasks : PodOf[u] = p => task'[u].pc \notin LoadingPcs
    BY <1>6 DEF LoadUnderWay, LoadingPcs
  <2> QED
    BY <1>2, <1>4, <2>1, <2>2 DEF RefreshMoves, Filled
<1> QED
  BY <1>5, <1>6

(* While the loop may take the lock, no thread loads.                      *)
LEMMA LoopAlone ==
  ASSUME IInv, NEW t \in Tasks \ Threaded, Acquirable(t)
  PROVE  \A u \in Tasks : PodOf[u] = PodOf[t] => task[u].pc # "loading"
<1> SUFFICES ASSUME NEW u \in Tasks, PodOf[u] = PodOf[t], task[u].pc = "loading"
             PROVE  FALSE
  OBVIOUS
<1>1. u \in Threaded /\ LockFits(PodOf[t])
  BY DEF IInv, Calls, Loaders
<1>2. lock[PodOf[t]].owner = u
  BY <1>1 DEF LockFits, Holders, Holds, HoldingPcs, ThreadOf
<1> QED
  BY <1>1, <1>2 DEF Acquirable, ThreadOf

LEMMA RefreshOnLoopStep ==
  ASSUME IInv, NEW t \in Tasks, RefreshOnLoop(t)
  PROVE  TaskStep(t)
<1> DEFINE p == PodOf[t]
           s == loader'[p].snapshot
<1>1. TypeOK /\ p \in Pods
  BY DEF IInv
<1>2. ~Holds(t) /\ Acquirable(t) /\ stuck' \subseteq Tasks \ Threaded
  BY <1>1, AtLockFacts DEF RefreshOnLoop
<1>3. CASE BuildFails(p) /\ Ends(t) /\ UNCHANGED refreshed
  BY <1>1, <1>2, <1>3, EndsAndLeaves DEF RefreshOnLoop, BuildFails
<1>4. CASE Build(p, TRUE) /\ Goes(t, "share", s) /\ Remember(p)
  <2>1. LoaderMoves(p) /\ s \in Snapshots /\ Within(s, TTL - 1)
    BY <1>1, <1>4, BuildFills
  <2>2. task' \in [Tasks -> Locals] /\ (\A u \in Tasks \ {t} : task'[u] = task[u])
        /\ task'[t] = [pc |-> "share", snapshot |-> s, late |-> task[t].late]
    BY <1>1, <1>4, <2>1, GoesOn
  <2>3. Placed(t)' /\ HeldYoung(t)' /\ ~Holds(t)' /\ task'[t].pc \notin LoadingPcs
    BY <2>1, <2>2 DEF RefreshOnLoop, HeldYoung, Holds, HoldingPcs, LoadingPcs
  <2>4. TaskAged(t)'
    BY <2>1, <2>2 DEF TaskAged, Within, LateBy, Snapshots, Ages
  <2>5. TaskMoves(t) /\ HoldMoves(t) /\ SharedMoves
    BY <1>2, <2>2, <2>3, <2>4 DEF TaskMoves, HoldMoves, SharedMoves, RefreshOnLoop
  <2>6. RefreshMoves(t)
    BY <1>2, <1>4, <2>2, <2>3, LoopAlone, RemembersRefresh DEF RefreshOnLoop
  <2> QED
    BY <2>1, <2>5, <2>6, Parts
<1> QED
  BY <1>3, <1>4 DEF RefreshOnLoop

(* A thread holds the lock while it loads.                                 *)
LEMMA ThreadTakesLock ==
  ASSUME IInv, NEW t \in Threaded, NEW pc \in {"loading", "reloading"},
         Goes(t, pc, None), ~Holds(t), Acquirable(t), Acquire(t),
         stuck' \subseteq Tasks \ Threaded,
         UNCHANGED <<directory, loader, shared, refreshed>>,
         pc = "loading" => ~Valid(PodOf[t])
  PROVE  TaskStep(t)
<1>1. TypeOK /\ t \in Tasks /\ RefreshFits(PodOf[t])
  BY DEF IInv, Loaders
<1>2. task' \in [Tasks -> Locals] /\ (\A u \in Tasks \ {t} : task'[u] = task[u])
      /\ task'[t] = [pc |-> pc, snapshot |-> None, late |-> task[t].late]
  BY <1>1, GoesOn
<1>3. Placed(t)' /\ HeldYoung(t)' /\ TaskAged(t)' /\ Holds(t)'
  BY <1>2 DEF HeldYoung, TaskAged, Holds, HoldingPcs
<1>4. TaskMoves(t) /\ HoldMoves(t) /\ SharedMoves /\ LoaderMoves(PodOf[t])
  BY <1>1, <1>2, <1>3, LoaderStays DEF TaskMoves, HoldMoves, SharedMoves
<1>5. CASE pc = "loading"
  <2>1. RefreshMoves(t)
    BY <1>1, <1>5, RefreshedIsValid, RefreshGone
  <2> QED
    BY <1>1, <1>4, <2>1, Parts
<1>6. CASE pc = "reloading"
  <2>1. RefreshMoves(t)
    BY <1>1, <1>2, <1>6, RefreshStays DEF LoadingPcs
  <2> QED
    BY <1>1, <1>4, <2>1, Parts
<1> QED
  BY <1>5, <1>6

LEMMA LoadInThreadStep ==
  ASSUME IInv, NEW t \in Tasks, LoadInThread(t)
  PROVE  TaskStep(t)
<1>1. ~Holds(t) /\ Acquirable(t) /\ stuck' \subseteq Tasks \ Threaded
  BY AtLockFacts DEF IInv, LoadInThread
<1> QED
  BY <1>1, ThreadTakesLock DEF LoadInThread

LEMMA RefreshInThreadStep ==
  ASSUME IInv, NEW t \in Tasks, RefreshInThread(t)
  PROVE  TaskStep(t)
<1>1. ~Holds(t) /\ Acquirable(t) /\ stuck' \subseteq Tasks \ Threaded
  BY AtLockFacts DEF IInv, RefreshInThread
<1> QED
  BY <1>1, ThreadTakesLock DEF RefreshInThread

LEMMA LoadedStep ==
  ASSUME IInv, NEW t \in Tasks, Loaded(t)
  PROVE  TaskStep(t)
<1>1. TypeOK /\ RefreshFits(PodOf[t])
  BY DEF IInv, Loaders
<1>2. task[t].pc = "loading" /\ Holds(t) /\ stuck' \subseteq Tasks \ Threaded
  BY <1>1, AtAwaitFacts DEF Loaded, Holds, HoldingPcs
<1>3. CASE BuildFails(PodOf[t])
  BY <1>1, <1>2, <1>3, EndsAndReleases DEF Loaded, BuildFails
<1>4. CASE Build(PodOf[t], FALSE)
  <2>1. refreshed[PodOf[t]] = None
    BY <1>1, <1>2 DEF RefreshFits, LoadingPcs
  <2>2. HoldMoves(t)
    BY <1>1, <1>2, EndsHere, EndedFits DEF Loaded, HoldMoves
  <2> QED
    BY <1>2, <1>4, <2>1, <2>2, BuildsAndEnds DEF Loaded
<1> QED
  BY <1>3, <1>4 DEF Loaded

LEMMA ReloadedStep ==
  ASSUME IInv, NEW t \in Tasks, Reloaded(t)
  PROVE  TaskStep(t)
<1> DEFINE p == PodOf[t]
<1>1. TypeOK /\ LockFits(p) /\ p \in Pods /\ \A u \in Tasks : Placed(u)
  BY DEF IInv, Loaders, Calls
<1>2. task[t].pc = "reloading" /\ Holds(t) /\ stuck' \subseteq Tasks \ Threaded
  BY <1>1, AtAwaitFacts DEF Reloaded, Holds, HoldingPcs
<1>3. CASE BuildFails(p) /\ UNCHANGED refreshed
  BY <1>1, <1>2, <1>3, EndsAndReleases DEF Reloaded, BuildFails
<1>4. CASE Build(p, TRUE) /\ Remember(p)
  <2>1. /\ task' \in [Tasks -> Locals] /\ \A u \in Tasks \ {t} : task'[u] = task[u]
        /\ task'[t] = Idle
    BY <1>1, EndsHere DEF Reloaded
  <2>2. Placed(t)' /\ TaskAged(t)' /\ HeldYoung(t)' /\ ~Holds(t)'
        /\ task'[t].pc \notin LoadingPcs
    BY <2>1, EndedFits
  <2>3. TaskMoves(t) /\ HoldMoves(t) /\ SharedMoves /\ LoaderMoves(p)
    BY <1>1, <1>2, <1>4, <2>1, <2>2, BuildFills DEF Reloaded, TaskMoves, HoldMoves, SharedMoves
  <2>4. ASSUME NEW u \in Tasks \ {t}, PodOf[u] = p, task[u].pc = "loading" PROVE FALSE
    <3>1. u \in Threaded /\ t \in Threaded
      BY <1>1, <1>2, <2>4
    <3>2. lock[p].owner = u /\ lock[p].owner = t
      BY <1>1, <1>2, <2>4, <3>1 DEF LockFits, Holders, Holds, HoldingPcs, ThreadOf
    <3> QED
      BY <3>2
  <2>5. RefreshMoves(t)
    BY <1>4, <2>1, <2>2, <2>4, RemembersRefresh
  <2> QED
    BY <2>3, <2>5, Parts
<1> QED
  BY <1>3, <1>4 DEF Reloaded

(* A task that waits for the lock stands where it was.                     *)
LEMMA BlockStep ==
  ASSUME IInv, NEW t \in Tasks, NEW pc \in {"get", "store", "build", "refresh", "list"},
         Block(t, pc)
  PROVE  TaskStep(t)
<1>1. TypeOK /\ Placed(t) /\ TaskAged(t) /\ RefreshFits(PodOf[t])
  BY DEF IInv, Calls, Loaders
<1>2. t \notin Threaded /\ stuck' \subseteq Tasks \ Threaded
      /\ task[t].pc \in {pc, "idle"} /\ (pc = "store" => task[t].pc = "store")
  BY <1>1 DEF Block, Arrives, TypeOK
<1>3. task[t].snapshot \in Snapshots \cup {None}
  BY <1>1 DEF TypeOK, Locals
<1>4. task' \in [Tasks -> Locals] /\ (\A u \in Tasks \ {t} : task'[u] = task[u])
      /\ task'[t] = [pc |-> pc, snapshot |-> task[t].snapshot, late |-> task[t].late]
  BY <1>1, <1>3, GoesOn DEF Block
<1>5. Placed(t)' /\ HeldYoung(t)' /\ ~Holds(t)' /\ ~Holds(t)
  BY <1>1, <1>2, <1>4 DEF HeldYoung, Holds, HoldingPcs
<1>6. TaskAged(t)'
  BY <1>1, <1>2, <1>4 DEF TaskAged, LateBy
<1>7. TaskMoves(t) /\ HoldMoves(t) /\ SharedMoves /\ LoaderMoves(PodOf[t])
  BY <1>1, <1>2, <1>4, <1>5, <1>6, LoaderStays DEF Block, TaskMoves, HoldMoves, SharedMoves
<1>8. CASE pc = "store"
  <2>1. refreshed[PodOf[t]] = None
    BY <1>1, <1>2, <1>8 DEF RefreshFits, LoadingPcs
  <2>2. RefreshMoves(t)
    BY <1>1, <2>1, RefreshGone DEF Block
  <2> QED
    BY <1>7, <2>2, Parts
<1>9. CASE pc # "store"
  <2>1. RefreshMoves(t)
    BY <1>1, <1>4, <1>9, RefreshStays DEF Block, LoadingPcs
  <2> QED
    BY <1>7, <2>1, Parts
<1> QED
  BY <1>8, <1>9

LEMMA AnyCall ==
  ASSUME IInv, NEW t \in Tasks,
         \/ Begins(t) \/ Continues(t) \/ Cancel(t)
         \/ \E pc \in {"get", "store", "build", "refresh", "list"} : Block(t, pc)
  PROVE  TaskStep(t)
<1>1. CASE Begins(t)
  BY <1>1, LookStep, ListDefinitionsStep, RefreshOnLoopStep, LoadInThreadStep,
     RefreshInThreadStep DEF Begins
<1>2. CASE Continues(t)
  BY <1>2, ReadSharedStep, StoreSharedStep, BuildAndHoldStep, PutStep, ShelveStep, ShareStep,
     LoadedStep, ReloadedStep DEF Continues
<1>3. CASE Cancel(t)
  BY <1>3, CancelStep
<1>4. CASE \E pc \in {"get", "store", "build", "refresh", "list"} : Block(t, pc)
  BY <1>4, BlockStep
<1> QED
  BY <1>1, <1>2, <1>3, <1>4

-----------------------------------------------------------------------------
(* What a step of a call keeps                                             *)

(* The holders of a lock, when t has come or gone.                         *)
LEMMA HoldersMove ==
  ASSUME NEW t \in Tasks, TaskMoves(t)
  PROVE  /\ \A q \in Pods \ {PodOf[t]} : Holders(q)' = Holders(q)
         /\ (Holds(t)' <=> Holds(t)) => Holders(PodOf[t])' = Holders(PodOf[t])
         /\ Holds(t)' => Holders(PodOf[t])' = Holders(PodOf[t]) \cup {t}
         /\ ~Holds(t)' => Holders(PodOf[t])' = Holders(PodOf[t]) \ {t}
<1>1. \A u \in Tasks \ {t} : Holds(u)' <=> Holds(u)
  BY DEF TaskMoves, Holds
<1>2. \A q \in Pods \ {PodOf[t]} : Holders(q)' = Holders(q)
  BY <1>1 DEF Holders
<1>3. (Holds(t)' <=> Holds(t)) => Holders(PodOf[t])' = Holders(PodOf[t])
  BY <1>1 DEF Holders
<1>4. Holds(t)' => Holders(PodOf[t])' = Holders(PodOf[t]) \cup {t}
  BY <1>1 DEF Holders
<1>5. ~Holds(t)' => Holders(PodOf[t])' = Holders(PodOf[t]) \ {t}
  BY <1>1 DEF Holders
<1> QED
  BY <1>2, <1>3, <1>4, <1>5

LEMMA LockStep ==
  ASSUME IInv, NEW t \in Tasks, TaskMoves(t), HoldMoves(t)
  PROVE  /\ \A q \in Pods : LockFits(q)'
         /\ lock' \in [Pods -> [owner : Threaded \cup {Loop, None}, depth : Nat]]
<1> DEFINE p == PodOf[t]
           Owners == Threaded \cup {Loop, None}
           Locks == [owner : Owners, depth : Nat]
<1>1. p \in Pods /\ lock \in [Pods -> Locks] /\ \A q \in Pods : LockFits(q)
  BY DEF IInv, TypeOK, Loaders
<1>2. ASSUME NEW q \in Pods, Holders(q)' = Holders(q), lock'[q] = lock[q] PROVE LockFits(q)'
  BY <1>1, <1>2 DEF LockFits
<1>3. CASE UNCHANGED lock /\ (Holds(t)' <=> Holds(t))
  BY <1>1, <1>2, <1>3, HoldersMove
<1>4. ThreadOf(t) \in Threaded \cup {Loop} /\ ThreadOf(t) # None
  BY DEF ThreadOf
<1>5. CASE Acquirable(t) /\ Acquire(t) /\ ~Holds(t) /\ Holds(t)'
  <2> DEFINE k == [owner |-> ThreadOf(t), depth |-> lock[p].depth + 1]
  <2>1. k \in Locks
    BY <1>1, <1>4
  <2>2. lock' \in [Pods -> Locks] /\ lock'[p] = k /\ \A q \in Pods \ {p} : lock'[q] = lock[q]
    BY <1>1, <1>5, <2>1 DEF Acquire
  <2>3. Holders(p)' = Holders(p) \cup {t} /\ t \notin Holders(p)
    BY <1>5, HoldersMove DEF Holders
  <2>4. IsFiniteSet(Holders(p)') /\ Cardinality(Holders(p)') = Cardinality(Holders(p)) + 1
    BY <1>1, <2>3, FS_AddElement DEF LockFits
  <2>5. \A u \in Holders(p) : ThreadOf(u) = ThreadOf(t)
    <3> SUFFICES ASSUME NEW u \in Holders(p) PROVE ThreadOf(u) = ThreadOf(t)
      OBVIOUS
    <3>1. lock[p].owner = ThreadOf(u) /\ ThreadOf(u) # None
      BY <1>1 DEF LockFits, ThreadOf, Holders
    <3> QED
      BY <1>5, <3>1 DEF Acquirable
  <2>6. LockFits(p)'
    <3>1. lock'[p].depth = Cardinality(Holders(p)')
      BY <1>1, <2>2, <2>4 DEF LockFits
    <3>2. lock'[p].owner \in Threaded \cup {Loop, None}
      BY <1>4, <2>2
    <3>3. \A u \in Holders(p)' : lock'[p].owner = ThreadOf(u)
      BY <2>2, <2>3, <2>5
    <3>4. Holders(p)' # {}
      BY <2>3
    <3> QED
      BY <2>4, <3>1, <3>2, <3>3, <3>4 DEF LockFits
  <2>7. \A q \in Pods \ {p} : LockFits(q)'
    BY <1>2, <2>2, HoldersMove
  <2> QED
    BY <2>2, <2>6, <2>7
<1>6. CASE Release(t) /\ Holds(t) /\ ~Holds(t)'
  <2> DEFINE k == IF lock[p].depth = 1 THEN Free
                  ELSE [owner |-> lock[p].owner, depth |-> lock[p].depth - 1]
  <2>1. Holders(p)' = Holders(p) \ {t} /\ t \in Holders(p)
    BY <1>6, HoldersMove DEF Holders
  <2>2. /\ IsFiniteSet(Holders(p)') /\ Cardinality(Holders(p)') \in Nat
        /\ Cardinality(Holders(p)') = lock[p].depth - 1
    BY <1>1, <2>1, FS_RemoveElement, FS_CardinalityType DEF LockFits
  <2>3. lock[p].depth \in Nat \ {0}
    BY <1>1, <2>2
  <2>4. k \in Locks
    BY <1>1, <2>3 DEF Free
  <2>5. lock' \in [Pods -> Locks] /\ lock'[p] = k /\ \A q \in Pods \ {p} : lock'[q] = lock[q]
    BY <1>1, <1>6, <2>4 DEF Release
  <2>6. LockFits(p)'
    <3>1. CASE lock[p].depth = 1
      <4>1. Holders(p)' = {}
        BY <2>2, <3>1, FS_EmptySet
      <4> QED
        BY <2>2, <2>5, <3>1, <4>1 DEF LockFits, Free
    <3>2. CASE lock[p].depth # 1
      <4>1. Cardinality(Holders(p)') # 0
        BY <2>2, <2>3, <3>2
      <4>2. Holders(p)' # {}
        BY <4>1, FS_EmptySet
      <4>3. lock'[p].owner = lock[p].owner /\ lock'[p].depth = Cardinality(Holders(p)')
        BY <2>2, <2>5, <3>2
      <4>4. \A u \in Holders(p)' : lock'[p].owner = ThreadOf(u)
        BY <1>1, <2>1, <4>3 DEF LockFits
      <4> QED
        BY <1>1, <2>2, <4>2, <4>3, <4>4 DEF LockFits
    <3> QED
      BY <3>1, <3>2
  <2>7. \A q \in Pods \ {p} : LockFits(q)'
    BY <1>2, <2>5, HoldersMove
  <2> QED
    BY <2>5, <2>6, <2>7
<1> QED
  BY <1>3, <1>5, <1>6 DEF HoldMoves

(* That nobody has the lock and that its depth is zero are one thing.      *)
LEMMA LockIsFree ==
  ASSUME NEW p \in Pods, LockFits(p)'
  PROVE  lock'[p].owner = None <=> lock'[p].depth = 0
<1>1. lock'[p].depth = 0 <=> Holders(p)' = {}
  BY FS_EmptySet DEF LockFits
<1>2. \A t \in Holders(p)' : ThreadOf(t) # None
  BY DEF Holders, ThreadOf
<1> QED
  BY <1>1, <1>2 DEF LockFits

LEMMA CallKeeps ==
  ASSUME IInv, NEW t \in Tasks, TaskStep(t)
  PROVE  IInv'
<1> DEFINE p == PodOf[t]
<1>1. p \in Pods /\ TypeOK /\ Calls /\ Loaders /\ SharedAged
  BY DEF IInv
<1>2. TaskMoves(t) /\ HoldMoves(t) /\ LoaderMoves(p) /\ SharedMoves /\ RefreshMoves(t)
  BY DEF TaskStep
<1>3. (\A q \in Pods : LockFits(q)')
      /\ lock' \in [Pods -> [owner : Threaded \cup {Loop, None}, depth : Nat]]
  BY <1>2, LockStep
<1>4. TypeOK'
  <2>1. \A q \in Pods : lock'[q].owner = None <=> lock'[q].depth = 0
    BY <1>3, LockIsFree
  <2>2. shared' = None \/ shared' \in SharedOnes
    BY <1>1, <1>2 DEF SharedMoves, TypeOK
  <2> QED
    BY <1>2, <1>3, <2>1, <2>2
    DEF TypeOK, TaskMoves, LoaderMoves, RefreshMoves, LoaderRecords
<1>5. ASSUME NEW u \in Tasks PROVE Placed(u)' /\ HeldYoung(u)' /\ TaskAged(u)'
  <2>1. CASE u = t
    BY <1>2, <2>1 DEF TaskMoves
  <2>2. CASE u # t
    <3>1. task'[u] = task[u] /\ Placed(u) /\ HeldYoung(u) /\ TaskAged(u) /\ PodOf[u] \in Pods
      BY <1>1, <1>2, <2>2 DEF TaskMoves, Calls
    <3>2. loader'[PodOf[u]] = loader[PodOf[u]] \/ Filled(PodOf[u])
      BY <1>2, <3>1 DEF LoaderMoves
    <3>3. HeldYoung(u)'
      BY <3>1, <3>2 DEF HeldYoung, Filled
    <3> QED
      BY <3>1, <3>3 DEF TaskAged, LateBy
  <2> QED
    BY <2>1, <2>2
<1>6. ASSUME NEW q \in Pods PROVE LoaderAged(q)'
  <2>1. LoaderAged(q) /\ (loader'[q] = loader[q] \/ Filled(q))
    BY <1>1, <1>2 DEF Loaders, LoaderMoves
  <2> QED
    BY <2>1 DEF LoaderAged, Filled, Within
<1>7. ASSUME NEW q \in Pods PROVE RefreshFits(q)'
  <2>1. RefreshFits(q)
    BY <1>1 DEF Loaders
  <2>2. CASE q # p
    <3>1. loader'[q] = loader[q] /\ refreshed'[q] = refreshed[q]
      BY <1>2, <2>2 DEF LoaderMoves, RefreshMoves
    <3>2. \A u \in Tasks : PodOf[u] = q => task'[u] = task[u]
      BY <1>2, <2>2 DEF TaskMoves
    <3> QED
      BY <2>1, <3>1, <3>2 DEF RefreshFits
  <2>3. CASE q = p /\ refreshed'[p] = None
    BY <2>3 DEF RefreshFits
  <2>4. CASE q = p /\ refreshed'[p] = refreshed[p] /\ loader'[p] = loader[p]
             /\ task'[t].pc \notin LoadingPcs
    <3>1. \A u \in Tasks \ {t} : task'[u] = task[u]
      BY <1>2 DEF TaskMoves
    <3> QED
      BY <2>1, <2>4, <3>1 DEF RefreshFits
  <2>5. CASE /\ q = p
             /\ refreshed'[p] = [ago |-> 0, age |-> loader'[p].snapshot.age]
             /\ loader'[p].snapshot # None /\ loader'[p].kept = 0
             /\ \A u \in Tasks : PodOf[u] = p => task'[u].pc \notin LoadingPcs
    <3>1. loader'[p].snapshot \in Snapshots
      BY <1>1, <1>2, <2>5 DEF LoaderMoves, LoaderRecords
    <3>2. loader'[p].snapshot.age \in Nat
      BY <3>1 DEF Snapshots, Ages
    <3> QED
      BY <2>5, <3>2 DEF RefreshFits
  <2> QED
    BY <1>2, <2>2, <2>3, <2>4, <2>5 DEF RefreshMoves
<1>8. SharedAged'
  BY <1>1, <1>2 DEF SharedMoves, SharedAged
<1> QED
  BY <1>3, <1>4, <1>5, <1>6, <1>7, <1>8 DEF IInv, Calls, Loaders

-----------------------------------------------------------------------------
(* Restarts and time                                                       *)

HIDE DEF Placed, Pcs

LEMMA RestartKeeps ==
  ASSUME IInv, NEW p \in Pods, Restart(p)
  PROVE  IInv'
<1>1. TypeOK /\ Calls /\ Loaders /\ SharedAged
  BY DEF IInv
<1>2. \A q \in Pods \ {p} :
        loader'[q] = loader[q] /\ lock'[q] = lock[q] /\ refreshed'[q] = refreshed[q]
  BY <1>1 DEF Restart, TypeOK
<1>3. loader'[p] = Empty /\ lock'[p] = Free /\ refreshed'[p] = None
  BY <1>1 DEF Restart, TypeOK
<1>4. \A t \in Tasks : task'[t] = IF PodOf[t] = p THEN Idle ELSE task[t]
  BY DEF Restart
<1>5. TypeOK'
  <2>1. directory' \in [Pods -> Ages \cup {None}]
    BY <1>1 DEF Restart, TypeOK
  <2>2. loader' \in [Pods -> LoaderRecords]
    <3>1. Empty \in LoaderRecords
      BY DEF Empty, LoaderRecords
    <3> QED
      BY <1>1, <3>1 DEF Restart, TypeOK, LoaderRecords
  <2>3. lock' \in [Pods -> [owner : Threaded \cup {Loop, None}, depth : Nat]]
    <3>1. Free \in [owner : Threaded \cup {Loop, None}, depth : Nat]
      BY DEF Free
    <3> QED
      BY <1>1, <3>1 DEF Restart, TypeOK
  <2>4. \A q \in Pods : lock'[q].owner = None <=> lock'[q].depth = 0
    BY <1>1, <1>2, <1>3 DEF TypeOK, Free
  <2>5. task' \in [Tasks -> Locals]
    <3>1. Idle \in Locals
      BY DEF Idle, Locals, Pcs
    <3> QED
      BY <1>1, <3>1 DEF Restart, TypeOK
  <2>6. stuck' \subseteq Tasks \ Threaded /\ refreshed' \in [Pods -> Refreshes \cup {None}]
        /\ shared' = shared
    BY <1>1 DEF Restart, TypeOK
  <2> QED
    BY <1>1, <2>1, <2>2, <2>3, <2>4, <2>5, <2>6 DEF TypeOK, LoaderRecords
<1>6. ASSUME NEW t \in Tasks PROVE Placed(t)' /\ HeldYoung(t)' /\ TaskAged(t)'
  <2>1. CASE PodOf[t] = p
    BY <1>4, <2>1, EndedFits
  <2>2. CASE PodOf[t] # p
    <3>1. task'[t] = task[t] /\ loader'[PodOf[t]] = loader[PodOf[t]]
      BY <1>2, <1>4, <2>2
    <3>2. Placed(t) /\ HeldYoung(t) /\ TaskAged(t)
      BY <1>1 DEF Calls
    <3> QED
      BY <3>1, <3>2 DEF Placed, HeldYoung, TaskAged, LateBy
  <2> QED
    BY <2>1, <2>2
<1>7. Holders(p)' = {}
  BY <1>4 DEF Holders, Holds, HoldingPcs, Idle
<1>8. \A q \in Pods \ {p} : Holders(q)' = Holders(q)
  BY <1>4 DEF Holders, Holds
<1>9. ASSUME NEW q \in Pods PROVE LockFits(q)' /\ LoaderAged(q)' /\ RefreshFits(q)'
  <2>1. CASE q = p
    <3>1. LockFits(q)'
      BY <1>3, <1>7, <2>1, FS_EmptySet DEF LockFits, Free
    <3> QED
      BY <1>3, <2>1, <3>1 DEF LoaderAged, RefreshFits, Empty
  <2>2. CASE q # p
    <3>1. LockFits(q) /\ LoaderAged(q) /\ RefreshFits(q)
      BY <1>1 DEF Loaders
    <3>2. LockFits(q)'
      BY <1>2, <1>8, <2>2, <3>1 DEF LockFits
    <3>3. \A t \in Tasks : PodOf[t] = q => task'[t] = task[t]
      BY <1>4, <2>2
    <3> QED
      BY <1>2, <2>2, <3>1, <3>2, <3>3 DEF LoaderAged, RefreshFits
  <2> QED
    BY <2>1, <2>2
<1>10. SharedAged'
  BY <1>1 DEF Restart, SharedAged
<1> QED
  BY <1>5, <1>6, <1>9, <1>10 DEF IInv, Calls, Loaders

LEMMA OlderAges ==
  ASSUME NEW a \in Ages
  PROVE  /\ Older(a) \in Ages /\ Older(a) <= a + 1
         /\ \A b \in Ages : a <= b => Older(a) <= Older(b)
BY DEF Older, Ages, Old

LEMMA AgedSnapshot ==
  ASSUME NEW s \in Snapshots
  PROVE  /\ Aged(s) \in Snapshots
         /\ Aged(s).age = Older(s.age)
         /\ \A n \in Nat : Within(s, n) => Within(Aged(s), n + 1)
<1>1. s # None /\ s.age \in Ages /\ Older(s.age) \in Ages /\ Older(s.age) <= s.age + 1
  BY OlderAges DEF Snapshots
<1>2. Aged(s) = [s EXCEPT !.age = Older(s.age)]
  BY <1>1 DEF Aged
<1>3. Aged(s) \in Snapshots /\ Aged(s).age = Older(s.age) /\ Aged(s).stale = s.stale
  BY <1>1, <1>2 DEF Snapshots
<1> QED
  BY <1>1, <1>3 DEF Within, Ages

(* A task of the loop that holds the lock at a tick has just taken it.     *)
LEMMA HeldAtTick ==
  ASSUME IInv, NEW p \in Pods, lock[p].owner = Loop, \A t \in Tasks : ~task[t].late
  PROVE  loader[p].snapshot # None /\ loader[p].kept = 0
<1>1. LockFits(p) /\ TypeOK
  BY DEF IInv, Loaders
<1>2. PICK t \in Holders(p) : TRUE
  BY <1>1 DEF LockFits
<1>3. t \in Tasks /\ PodOf[t] = p /\ t \notin Threaded /\ Holds(t)
  BY <1>1, <1>2 DEF LockFits, Holders, ThreadOf
<1>4. task[t].pc \in {"put", "shelve"} /\ HeldYoung(t)
  BY <1>3 DEF IInv, Calls, Placed, Holds, HoldingPcs
<1>5. task[t].late = FALSE
  BY <1>1, <1>3 DEF TypeOK, Locals
<1> QED
  BY <1>3, <1>4, <1>5 DEF HeldYoung

(* How a tick leaves a loader: empty, or with its snapshot older by one.   *)
LEMMA LaterLoader ==
  ASSUME IInv, NEW p \in Pods, \A t \in Tasks : ~task[t].late
  PROVE  /\ Later(p) \in LoaderRecords
         /\ Later(p).snapshot # None =>
              /\ loader[p].snapshot \in Snapshots
              /\ Later(p).snapshot = Aged(loader[p].snapshot)
              /\ Later(p).kept = loader[p].kept + 1
         /\ loader[p].snapshot # None /\ (loader[p].kept + 1 < TTL \/ lock[p].owner = Loop) =>
              Later(p).snapshot # None
<1>1. TypeOK
  BY DEF IInv
<1>2. loader[p] \in LoaderRecords
  BY <1>1 DEF TypeOK, LoaderRecords
<1>3. CASE loader[p].snapshot = None
  BY <1>2, <1>3 DEF Later
<1>4. CASE loader[p].snapshot # None /\ loader[p].kept + 1 >= TTL /\ lock[p].owner # Loop
  <2>1. Later(p) = [snapshot |-> None, kept |-> 0, defs |-> loader[p].defs]
    BY <1>4 DEF Later
  <2> QED
    BY <1>2, <1>4, <2>1 DEF LoaderRecords
<1>5. CASE loader[p].snapshot # None /\ (loader[p].kept + 1 < TTL \/ lock[p].owner = Loop)
  <2>1. loader[p].kept < TTL
    BY <1>2, <1>5, HeldAtTick DEF LoaderRecords
  <2>2. Later(p) = [snapshot |-> Aged(loader[p].snapshot), kept |-> loader[p].kept + 1,
                    defs |-> loader[p].defs]
    BY <1>2, <1>5, <2>1 DEF Later, LoaderRecords
  <2>3. loader[p].snapshot \in Snapshots /\ Aged(loader[p].snapshot) \in Snapshots
    BY <1>2, <1>5, AgedSnapshot DEF LoaderRecords
  <2> QED
    BY <1>2, <2>1, <2>2, <2>3 DEF LoaderRecords
<1> QED
  BY <1>2, <1>3, <1>4, <1>5 DEF LoaderRecords

LEMMA TickKeeps ==
  ASSUME IInv, Tick
  PROVE  IInv'
<1>1. TypeOK /\ Calls /\ Loaders /\ SharedAged
  BY DEF IInv
<1>2. \A q \in Pods : loader'[q] = Later(q)
  BY DEF Tick
<1>3. (\A t \in Tasks : ~task[t].late) /\ \A t \in Tasks : task[t].late = FALSE
  BY <1>1 DEF Tick, TypeOK, Locals
<1>4. ASSUME NEW t \in Tasks
      PROVE  /\ task'[t] \in Locals
             /\ task'[t].pc = task[t].pc
             /\ task'[t].snapshot = Aged(task[t].snapshot)
             /\ task[t].pc # "idle" => task'[t].late = TRUE
  <2>1. Aged(task[t].snapshot) \in Snapshots \cup {None}
    BY <1>1, AgedSnapshot DEF TypeOK, Locals, Aged
  <2>2. task[t].pc \in Pcs
    BY <1>1 DEF TypeOK, Locals
  <2>3. CASE task[t].pc = "idle"
    <3>1. task'[t] = [pc |-> "idle", snapshot |-> Aged(task[t].snapshot), late |-> FALSE]
      BY <2>3 DEF Tick
    <3> QED
      BY <2>1, <2>2, <2>3, <3>1 DEF Locals
  <2>4. CASE task[t].pc # "idle"
    <3>1. task'[t] = [pc |-> task[t].pc, snapshot |-> Aged(task[t].snapshot), late |-> TRUE]
      BY <2>4 DEF Tick
    <3> QED
      BY <2>1, <2>2, <3>1 DEF Locals
  <2> QED
    BY <2>3, <2>4
<1>5. TypeOK'
  <2>1. directory' \in [Pods -> Ages \cup {None}]
    BY <1>1, OlderAges DEF Tick, TypeOK
  <2>2. loader' \in [Pods -> LoaderRecords]
    BY <1>3, LaterLoader DEF Tick
  <2>3. task' \in [Tasks -> Locals]
    BY <1>4 DEF Tick
  <2>4. shared' = None \/ shared' \in SharedOnes
    <3>1. CASE shared = None \/ shared.left = 1
      BY <3>1 DEF Tick
    <3>2. CASE shared # None /\ shared.left # 1
      <4>1. shared.snapshot \in Snapshots /\ shared.left \in 2..TTL
        BY <1>1, <3>2 DEF TypeOK, SharedOnes
      <4>2. shared' = [snapshot |-> Aged(shared.snapshot), left |-> shared.left - 1]
        BY <3>2 DEF Tick
      <4> QED
        BY <4>1, <4>2, AgedSnapshot DEF SharedOnes
    <3> QED
      BY <3>1, <3>2
  <2>5. refreshed' \in [Pods -> Refreshes \cup {None}]
    <3> SUFFICES ASSUME NEW q \in Pods PROVE refreshed'[q] \in Refreshes \cup {None}
      BY DEF Tick
    <3>1. CASE refreshed[q] = None \/ refreshed[q].ago = TTL - 1
      BY <3>1 DEF Tick
    <3>2. CASE refreshed[q] # None /\ refreshed[q].ago # TTL - 1
      <4> refreshed[q] \in Refreshes
        BY <1>1, <3>2 DEF TypeOK
      <4>1. refreshed[q].age \in Ages /\ refreshed[q].ago + 1 \in 0..(TTL - 1)
        BY <3>2 DEF Refreshes
      <4>2. refreshed'[q] = [ago |-> refreshed[q].ago + 1, age |-> Older(refreshed[q].age)]
        BY <3>2 DEF Tick
      <4> QED
        BY <4>1, <4>2, OlderAges DEF Refreshes
    <3> QED
      BY <3>1, <3>2
  <2> QED
    BY <1>1, <2>1, <2>2, <2>3, <2>4, <2>5 DEF Tick, TypeOK, LoaderRecords
<1>6. ASSUME NEW q \in Pods PROVE LockFits(q)'
  <2>1. Holders(q)' = Holders(q)
    BY <1>4 DEF Holders, Holds
  <2> QED
    BY <1>1, <2>1 DEF Tick, Loaders, LockFits
<1>7. ASSUME NEW t \in Tasks PROVE Placed(t)' /\ HeldYoung(t)' /\ TaskAged(t)'
  <2>1. Placed(t) /\ HeldYoung(t) /\ TaskAged(t) /\ PodOf[t] \in Pods
    BY <1>1 DEF Calls
  <2>2. Placed(t)'
    BY <1>4, <2>1, AgedSnapshot DEF Placed
  <2>3. HeldYoung(t)'
    <3> SUFFICES ASSUME task[t].pc \in {"put", "shelve"} PROVE HeldYoung(t)'
      BY <1>4 DEF HeldYoung
    <3>1. t \in Holders(PodOf[t]) /\ t \notin Threaded
      BY <2>1 DEF Placed, Holders, Holds, HoldingPcs
    <3>2. lock[PodOf[t]].owner = Loop
      BY <1>1, <2>1, <3>1 DEF Loaders, LockFits, ThreadOf
    <3>3. loader[PodOf[t]].snapshot # None /\ loader[PodOf[t]].kept = 0
      BY <1>3, <2>1, <3>2, HeldAtTick
    <3>4. loader'[PodOf[t]].snapshot # None /\ loader'[PodOf[t]].kept = 1
      BY <1>2, <1>3, <2>1, <3>2, <3>3, LaterLoader
    <3>5. task'[t].late = TRUE
      BY <1>4
    <3> QED
      BY <3>4, <3>5 DEF HeldYoung
  <2>4. TaskAged(t)'
    <3>1. CASE task[t].pc \in {"put", "share"}
      <4>1. task[t].snapshot \in Snapshots /\ Within(task[t].snapshot, TTL - 1)
        BY <1>3, <2>1, <3>1 DEF Placed, TaskAged, LateBy, Within
      <4>2. Within(Aged(task[t].snapshot), TTL - 1 + 1)
        BY <4>1, AgedSnapshot
      <4> QED
        BY <1>4, <3>1, <4>2 DEF TaskAged, LateBy
    <3>2. CASE task[t].pc = "store"
      <4>1. task[t].snapshot \in Snapshots /\ Within(task[t].snapshot, 2 * TTL - 1)
        BY <1>3, <2>1, <3>2 DEF Placed, TaskAged, LateBy, Within
      <4>2. Within(Aged(task[t].snapshot), 2 * TTL - 1 + 1)
        BY <4>1, AgedSnapshot
      <4> QED
        BY <1>4, <3>2, <4>2 DEF TaskAged, LateBy
    <3> QED
      BY <1>4, <3>1, <3>2 DEF TaskAged
  <2> QED
    BY <2>2, <2>3, <2>4
<1>8. ASSUME NEW q \in Pods PROVE LoaderAged(q)'
  <2> SUFFICES ASSUME loader'[q].snapshot # None PROVE LoaderAged(q)'
    BY DEF LoaderAged
  <2>1. /\ loader[q].snapshot \in Snapshots
        /\ loader'[q].snapshot = Aged(loader[q].snapshot)
        /\ loader'[q].kept = loader[q].kept + 1
    BY <1>2, <1>3, LaterLoader
  <2>2. 2 * TTL + loader[q].kept \in Nat
    BY <1>1 DEF TypeOK
  <2>3. Within(loader[q].snapshot, 2 * TTL + loader[q].kept)
    BY <1>1, <2>1 DEF Loaders, LoaderAged
  <2>4. Within(loader'[q].snapshot, 2 * TTL + loader[q].kept + 1)
    BY <2>1, <2>2, <2>3, AgedSnapshot
  <2>5. 2 * TTL + loader[q].kept + 1 = 2 * TTL + loader'[q].kept
    BY <1>1, <2>1 DEF TypeOK
  <2> QED
    BY <2>4, <2>5 DEF LoaderAged
<1>9. ASSUME NEW q \in Pods PROVE RefreshFits(q)'
  <2> SUFFICES ASSUME refreshed'[q] # None PROVE RefreshFits(q)'
    BY DEF RefreshFits
  <2>1. refreshed[q] # None /\ refreshed[q].ago # TTL - 1
        /\ refreshed'[q] = [ago |-> refreshed[q].ago + 1, age |-> Older(refreshed[q].age)]
    BY DEF Tick
  <2>2. refreshed[q].ago \in 0..(TTL - 1) /\ refreshed[q].age \in Ages
        /\ loader[q].kept \in 0..TTL
    BY <1>1, <2>1 DEF TypeOK, Refreshes
  <2>3. /\ loader[q].snapshot # None
        /\ loader[q].snapshot.age <= refreshed[q].age
        /\ loader[q].kept <= refreshed[q].ago
        /\ \A t \in Tasks : PodOf[t] = q => task[t].pc \notin LoadingPcs
    BY <1>1, <2>1 DEF Loaders, RefreshFits
  <2>4. loader'[q].snapshot # None
    <3>1. loader[q].kept + 1 < TTL
      BY <2>1, <2>2, <2>3
    <3> QED
      BY <1>2, <1>3, <2>3, <3>1, LaterLoader
  <2>5. /\ loader[q].snapshot \in Snapshots
        /\ loader'[q].snapshot = Aged(loader[q].snapshot)
        /\ loader'[q].kept = loader[q].kept + 1
    BY <1>2, <1>3, <2>4, LaterLoader
  <2>6. loader'[q].snapshot.age <= Older(refreshed[q].age)
    <3>1. loader[q].snapshot.age \in Ages
      BY <2>5 DEF Snapshots
    <3>2. Older(loader[q].snapshot.age) <= Older(refreshed[q].age)
      BY <2>2, <2>3, <3>1, OlderAges
    <3> QED
      BY <2>5, <3>2, AgedSnapshot
  <2>7. refreshed'[q].ago = refreshed[q].ago + 1 /\ refreshed'[q].age = Older(refreshed[q].age)
    BY <2>1
  <2> QED
    <3>1. loader'[q].kept <= refreshed'[q].ago
      BY <2>2, <2>3, <2>5, <2>7
    <3>2. \A t \in Tasks : PodOf[t] = q => task'[t].pc \notin LoadingPcs
      BY <1>4, <2>3
    <3> QED
      BY <2>4, <2>6, <2>7, <3>1, <3>2 DEF RefreshFits
<1>10. SharedAged'
  <2> SUFFICES ASSUME shared' # None PROVE SharedAged'
    BY DEF SharedAged
  <2>1. shared # None
        /\ shared' = [snapshot |-> Aged(shared.snapshot), left |-> shared.left - 1]
    BY DEF Tick
  <2>2. shared.snapshot \in Snapshots /\ shared.left \in 1..TTL
    BY <1>1, <2>1 DEF TypeOK, SharedOnes
  <2>3. 2 * TTL - shared.left \in Nat /\ Within(shared.snapshot, 2 * TTL - shared.left)
    BY <1>1, <2>1, <2>2 DEF SharedAged
  <2>4. Within(Aged(shared.snapshot), 2 * TTL - shared.left + 1)
    BY <2>2, <2>3, AgedSnapshot
  <2>5. 2 * TTL - shared.left + 1 = 2 * TTL - (shared.left - 1)
    BY <2>2
  <2> QED
    BY <2>1, <2>4, <2>5 DEF SharedAged
<1> QED
  BY <1>5, <1>6, <1>7, <1>8, <1>9, <1>10 DEF IInv, Calls, Loaders

-----------------------------------------------------------------------------
(* The theorems                                                            *)

LEMMA InitFits == Init => IInv
<1> SUFFICES ASSUME Init PROVE IInv
  OBVIOUS
<1> USE DEF Init
<1>1. TypeOK
  BY DEF TypeOK, Empty, Free, Idle, Locals, Pcs
<1>2. \A q \in Pods : Holders(q) = {}
  BY DEF Holders, Holds, HoldingPcs, Idle
<1>3. Calls
  BY DEF Calls, Placed, HeldYoung, TaskAged, Idle
<1>4. ASSUME NEW q \in Pods PROVE LockFits(q)
  BY <1>2, FS_EmptySet DEF LockFits, Free
<1>5. Loaders
  BY <1>4 DEF Loaders, LoaderAged, RefreshFits, Empty
<1> QED
  BY <1>1, <1>3, <1>5 DEF IInv, SharedAged

LEMMA StepFits == IInv /\ [Next]_vars => IInv'
<1> SUFFICES ASSUME IInv, [Next]_vars PROVE IInv'
  OBVIOUS
<1>1. ASSUME NEW t \in Tasks,
             \/ Begins(t) \/ Continues(t) \/ Cancel(t)
             \/ \E pc \in {"get", "store", "build", "refresh", "list"} : Block(t, pc)
      PROVE  IInv'
  BY <1>1, AnyCall, CallKeeps
<1>2. ASSUME NEW p \in Pods, Restart(p) PROVE IInv'
  BY <1>2, RestartKeeps
<1>3. CASE Tick
  BY <1>3, TickKeeps
<1>4. CASE UNCHANGED vars
  <2>1. \A q \in Pods : Holders(q)' = Holders(q)
    BY <1>4 DEF vars, Holders, Holds
  <2>2. ASSUME NEW q \in Pods PROVE LockFits(q)' /\ LoaderAged(q)' /\ RefreshFits(q)'
    BY <1>4, <2>1 DEF vars, IInv, Loaders, LockFits, LoaderAged, RefreshFits
  <2> QED
    BY <1>4, <2>2
    DEF vars, IInv, TypeOK, Calls, Loaders, SharedAged, Placed, HeldYoung, TaskAged, LateBy
<1> QED
  BY <1>1, <1>2, <1>3, <1>4 DEF Next

(* The inductive invariant holds in every reachable state.                 *)
THEOREM Invariant == Spec => []IInv
BY InitFits, StepFits, PTL DEF Spec

(* Caches, lock and calls keep their types: in particular the lock is let  *)
(* go of as often as it was taken, whatever is cancelled.                  *)
THEOREM TypeCorrect == Spec => []TypeOK
<1>1. IInv => TypeOK
  BY DEF IInv
<1> QED
  BY <1>1, Invariant, PTL

(* What calls are answered with is at most three timeouts old, however it  *)
(* passes through the directory, the shared cache and memory of any number *)
(* of processes, unless a download has failed                              *)
(* (_is_snapshot_valid_unlocked and the ttl of the shared entry).          *)
THEOREM AnswersStayYoung == Spec => []StalenessBounded
<1>1. ASSUME IInv, NEW p \in Pods, Valid(p) \/ lock[p].owner = Loop
      PROVE  loader[p].snapshot.stale \/ loader[p].snapshot.age <= 3 * TTL
  <2>1. TypeOK /\ LockFits(p) /\ LoaderAged(p)
    BY <1>1 DEF IInv, Loaders
  <2>2. loader[p].snapshot # None /\ loader[p].kept <= TTL
    <3>1. CASE Valid(p)
      BY <2>1, <3>1 DEF Valid, TypeOK
    <3>2. CASE lock[p].owner = Loop
      <4>1. PICK t \in Holders(p) : TRUE
        BY <2>1, <3>2 DEF LockFits
      <4>2. t \in Tasks /\ PodOf[t] = p /\ t \notin Threaded /\ Holds(t)
        BY <2>1, <3>2, <4>1 DEF LockFits, Holders, ThreadOf
      <4>3. HeldYoung(t) /\ task[t].pc \in {"put", "shelve"}
        BY <1>1, <4>2 DEF IInv, Calls, Placed, Holds, HoldingPcs
      <4> QED
        BY <2>1, <4>2, <4>3 DEF HeldYoung, TypeOK
    <3> QED
      BY <1>1, <3>1, <3>2
  <2>3. loader[p].snapshot \in Snapshots /\ loader[p].kept \in 0..TTL
    BY <2>1, <2>2 DEF TypeOK
  <2> QED
    BY <2>1, <2>2, <2>3 DEF LoaderAged, Within, Snapshots, Ages
<1>2. IInv => StalenessBounded
  BY <1>1 DEF StalenessBounded
<1> QED
  BY <1>2, Invariant, PTL

(* A refresh that no load has overlapped holds for a timeout: until then   *)
(* nothing puts an older snapshot in its process's loader, whatever other  *)
(* processes share (refresh, _get_snapshot_async).                         *)
THEOREM RefreshesHold == Spec => []RefreshHolds
<1>1. IInv => RefreshHolds
  BY DEF IInv, Loaders, RefreshFits, RefreshHolds
<1> QED
  BY <1>1, Invariant, PTL
=============================================================================
