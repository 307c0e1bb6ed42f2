--------------------------- MODULE DatasetHandle ---------------------------
(***************************************************************************)
(* One Dataset handle used by many goroutines: the read/write lock and the *)
(* lifecycle of the Go object (lance/dataset.go, lance/ops.go), the mutex  *)
(* around the native dataset (rust/src/dataset.rs), and how the operations *)
(* that commit move the handle to the version they committed.              *)
(*                                                                         *)
(* Every element of Ops is one call of a method of the handle.  Kind says  *)
(* which of the code's patterns the method follows:                        *)
(*   read     work on a clone (CountRows, Schema, Version, Checkout, ...)  *)
(*   mutate   commit from a clone, then store the result in the handle     *)
(*            (Delete, Update, MergeInsert)                                *)
(*   commit   commit with the mutex held throughout (Append, Restore, the  *)
(*            schema evolution methods, index creation, ...)               *)
(*   udf      as commit, calling Go callbacks before it (AddColumnsUDF)    *)
(*   refresh  CheckoutLatest                                               *)
(*   close    Close                                                        *)
(* The operations in Nested are made by a callback of a udf operation on   *)
(* the same handle; FfiCall shows that their ffiCall is always rejected.   *)
(***************************************************************************)
EXTENDS Naturals

CONSTANTS
    Ops,          \* method calls on the handle
    Kind,         \* the pattern each of them follows
    Nested,       \* the calls made by a Go callback
    Cancellable,  \* the calls whose context may end while they run
    NoOp,         \* nobody
    MaxVersion    \* bound on the versions committed to the dataset

Kinds == {"read", "mutate", "commit", "udf", "refresh", "close"}

ASSUME HandleAssumption ==
    /\ Kind \in [Ops -> Kinds]
    /\ Nested \subseteq Ops
    /\ Cancellable \subseteq Ops
    /\ NoOp \notin Ops
    /\ MaxVersion \in Nat

VARIABLES
    pc,       \* where each call is
    outer,    \* for a nested call, the udf operation whose callback made it
    res,      \* what the call returned
    readers,  \* d.mu: the calls that hold the read lock
    blocked,  \* d.mu: the calls RLock has parked behind a pending Lock
    writer,   \* d.mu: the Close that holds or waits for the write lock
    ptr,      \* d.ptr is not nil
    native,   \* the LanceDataset behind it: live or freed
    frees,    \* how often lance_dataset_close was called on it
    cleanup,  \* the GC safety net: armed, stopped or ran
    dropped,  \* the application has no reference to the handle any more
    owner,    \* who holds the Mutex inside LanceDataset
    version,  \* the version the native dataset is at
    latest,   \* the latest committed version, in storage
    won,      \* the version each call has committed, 0 for none
    base,     \* the version of the clone that each mutation works on
    acked,    \* history: newest version committed by a call that returned nil
    settled   \* history: the same, for calls that returned during no mutation

rwmutex == <<readers, blocked, writer>>
object == <<ptr, native, frees, cleanup, dropped>>
data == <<version, latest, won, base>>
history == <<acked, settled>>
vars == <<pc, outer, res, rwmutex, object, owner, data, history>>

Pcs == {"idle", "lock", "parked", "check", "ffi", "native", "driving", "store",
        "runlock", "drain", "stop", "done"}
Results == {"pending", "ok", "closed", "ctx.Err", "ErrReentrantCall", "failed"}
OpOrNone == Ops \cup {NoOp}

\* Every variable has its type.
TypeOK ==
    /\ pc \in [Ops -> Pcs]
    /\ outer \in [Ops -> OpOrNone]
    /\ res \in [Ops -> Results]
    /\ readers \subseteq Ops
    /\ blocked \subseteq Ops
    /\ writer \in OpOrNone
    /\ ptr \in BOOLEAN
    /\ native \in {"live", "freed"}
    /\ frees \in Nat
    /\ cleanup \in {"armed", "stopped", "ran"}
    /\ dropped \in BOOLEAN
    /\ owner \in OpOrNone
    /\ version \in Nat
    /\ latest \in Nat
    /\ won \in [Ops -> Nat]
    /\ base \in [Ops -> Nat]
    /\ acked \in Nat
    /\ settled \in Nat

\* newDataset: an open handle at the latest version, its cleanup armed.
Init ==
    /\ pc = [o \in Ops |-> "idle"]
    /\ outer = [o \in Ops |-> NoOp]
    /\ res = [o \in Ops |-> "pending"]
    /\ readers = {}
    /\ blocked = {}
    /\ writer = NoOp
    /\ ptr = TRUE
    /\ native = "live"
    /\ frees = 0
    /\ cleanup = "armed"
    /\ dropped = FALSE
    /\ owner = NoOp
    /\ version = 1
    /\ latest = 1
    /\ won = [o \in Ops |-> 0]
    /\ base = [o \in Ops |-> 0]
    /\ acked = 1
    /\ settled = 1

Goto(o, l) == pc' = [pc EXCEPT ![o] = l]

Give(o, r) == res' = [res EXCEPT ![o] = r]

InFlight(o) == pc[o] \notin {"idle", "done"}

-----------------------------------------------------------------------------
(* The application, the collector and other writers.                       *)

Begin(o) ==
    /\ pc[o] = "idle"
    /\ o \notin Nested
    /\ ~dropped
    /\ Goto(o, "lock")
    /\ UNCHANGED <<outer, res, rwmutex, object, owner, data, history>>

\* A callback of u uses the handle that u is running on.
BeginNested(o, u) ==
    /\ pc[o] = "idle"
    /\ o \in Nested
    /\ Kind[u] = "udf"
    /\ pc[u] = "driving"
    /\ won[u] = 0
    /\ outer' = [outer EXCEPT ![o] = u]
    /\ Goto(o, "lock")
    /\ UNCHANGED <<res, rwmutex, object, owner, data, history>>

Drop ==
    /\ ~dropped
    /\ dropped' = TRUE
    /\ UNCHANGED <<pc, outer, res, rwmutex, ptr, native, frees, cleanup, owner,
                   data, history>>

\* The collector finds the handle unreachable (a running method still refers
\* to it) and runs the cleanup registered by newDataset.
RunCleanup ==
    /\ dropped
    /\ \A o \in Ops : ~InFlight(o)
    /\ cleanup = "armed"
    /\ native' = "freed"
    /\ frees' = frees + 1
    /\ cleanup' = "ran"
    /\ UNCHANGED <<pc, outer, res, rwmutex, ptr, dropped, owner, data, history>>

\* Another handle or process commits a version.
CommitElsewhere ==
    /\ latest < MaxVersion
    /\ latest' = latest + 1
    /\ UNCHANGED <<pc, outer, res, rwmutex, object, owner, version, won, base, history>>

-----------------------------------------------------------------------------
(* datasetOp: read lock, open check, fn, read unlock.                      *)

\* d.mu.RLock() parks behind a Lock that is pending or held.
RLock(o) ==
    /\ pc[o] = "lock"
    /\ Kind[o] # "close"
    /\ IF writer = NoOp
       THEN /\ readers' = readers \cup {o}
            /\ Goto(o, "check")
            /\ UNCHANGED blocked
       ELSE /\ blocked' = blocked \cup {o}
            /\ Goto(o, "parked")
            /\ UNCHANGED readers
    /\ UNCHANGED <<outer, res, writer, object, owner, data, history>>

\* ctx.Err() first, then the closed handle, else on to fn and ffiCall.
CheckOpen(o) ==
    /\ pc[o] = "check"
    /\ \/ /\ o \in Cancellable
          /\ Give(o, "ctx.Err")
          /\ Goto(o, "runlock")
       \/ /\ ~ptr
          /\ Give(o, "closed")
          /\ Goto(o, "runlock")
       \/ /\ ptr
          /\ Goto(o, "ffi")
          /\ UNCHANGED res
    /\ UNCHANGED <<outer, rwmutex, object, owner, data, history>>

\* Mutant of FfiCall: a call from a callback is not rejected.
FfiCallReentrant(o) ==
    /\ pc[o] = "ffi"
    /\ Goto(o, "native")
    /\ UNCHANGED <<outer, res, rwmutex, object, owner, data, history>>

\* The early returns of ffiCall, else into the native function.
FfiCall(o) ==
    /\ pc[o] = "ffi"
    /\ \/ /\ outer[o] # NoOp
          /\ Give(o, "ErrReentrantCall")
          /\ Goto(o, "runlock")
       \/ /\ outer[o] = NoOp
          /\ o \in Cancellable
          /\ Give(o, "ctx.Err")
          /\ Goto(o, "runlock")
       \/ /\ outer[o] = NoOp
          /\ Goto(o, "native")
          /\ UNCHANGED res
    /\ UNCHANGED <<outer, rwmutex, object, owner, data, history>>

RUnlock(o) ==
    /\ pc[o] = "runlock"
    /\ readers' = readers \ {o}
    /\ Goto(o, "done")
    /\ UNCHANGED <<outer, res, blocked, writer, object, owner, data, history>>

-----------------------------------------------------------------------------
(* The native functions.                                                   *)

Guarded(o) == Kind[o] \in {"commit", "udf", "refresh"}

Committing(o) == Kind[o] \in {"mutate", "commit", "udf"}

\* A NULL pointer, an argument that does not parse: nothing has been locked.
RejectArguments(o) ==
    /\ pc[o] = "native"
    /\ Give(o, "failed")
    /\ Goto(o, "runlock")
    /\ UNCHANGED <<outer, rwmutex, object, owner, data, history>>

\* handle.dataset(): lock, clone, unlock; waiting here is not cancellable.
Clone(o) ==
    /\ pc[o] = "native"
    /\ ~Guarded(o)
    /\ owner = NoOp
    /\ base' = [base EXCEPT ![o] = IF Kind[o] = "mutate" THEN version ELSE 0]
    /\ Goto(o, "driving")
    /\ UNCHANGED <<outer, res, rwmutex, object, owner, version, latest, won, history>>

\* Mutant of TakeGuard: the method works on a clone and keeps no guard.
TakeNoGuard(o) ==
    /\ pc[o] = "native"
    /\ Guarded(o)
    /\ owner = NoOp
    /\ Goto(o, "driving")
    /\ UNCHANGED <<outer, res, rwmutex, object, owner, data, history>>

\* ds.0.lock(), with the guard kept across block_on_cc!.
TakeGuard(o) ==
    /\ pc[o] = "native"
    /\ Guarded(o)
    /\ owner = NoOp
    /\ owner' = o
    /\ Goto(o, "driving")
    /\ UNCHANGED <<outer, res, rwmutex, object, data, history>>

CallbacksDone(o) == \A n \in Ops : outer[n] = o => pc[n] = "done"

\* The commit becomes durable, on top of whatever is the latest version.
Commit(o) ==
    /\ pc[o] = "driving"
    /\ Committing(o)
    /\ won[o] = 0
    /\ CallbacksDone(o)
    /\ latest < MaxVersion
    /\ latest' = latest + 1
    /\ won' = [won EXCEPT ![o] = latest + 1]
    /\ UNCHANGED <<pc, outer, res, rwmutex, object, owner, version, base, history>>

\* A mutation that has its clone and will put its result into the handle.
Unstored(o) == Kind[o] = "mutate" /\ pc[o] \in {"driving", "store"}

\* The version of the dataset a mutation has in hand.
Held(o) == IF won[o] > 0 THEN won[o] ELSE base[o]

\* The call returns nil, having moved the handle to version v.
Acknowledge(o, v) ==
    /\ Give(o, "ok")
    /\ Goto(o, "runlock")
    /\ version' = v
    /\ acked' = IF won[o] > acked THEN won[o] ELSE acked
    /\ settled' = IF won[o] > settled /\ \A m \in Ops \ {o} : ~Unstored(m)
                  THEN won[o] ELSE settled

\* A read ends, on its clone.
ReadDone(o) ==
    /\ pc[o] = "driving"
    /\ Kind[o] = "read"
    /\ Acknowledge(o, version)
    /\ UNCHANGED <<outer, rwmutex, object, owner, latest, won, base>>

\* delete, update and merge_insert end with the new dataset in hand, or with the
\* one they started from if there was nothing to change ...
MutationDone(o) ==
    /\ pc[o] = "driving"
    /\ Kind[o] = "mutate"
    /\ Goto(o, "store")
    /\ UNCHANGED <<outer, res, rwmutex, object, owner, data, history>>

\* ... and store_new_dataset puts it into the handle.
StoreNewDataset(o) ==
    /\ pc[o] = "store"
    /\ owner = NoOp
    /\ Acknowledge(o, Held(o))
    /\ UNCHANGED <<outer, rwmutex, object, owner, latest, won, base>>

\* An operation that held the guard has moved the handle itself, unless it
\* found nothing to commit (CompactFiles on a compact dataset).
GuardedDone(o) ==
    /\ pc[o] = "driving"
    /\ Guarded(o)
    /\ CallbacksDone(o)
    /\ Acknowledge(o, IF Kind[o] = "refresh" THEN latest
                      ELSE IF won[o] > 0 THEN won[o] ELSE version)
    /\ owner' = NoOp
    /\ UNCHANGED <<outer, rwmutex, object, latest, won, base>>

\* Mutant of Abort: the guard outlives the failed function.
AbortKeepsGuard(o) ==
    /\ pc[o] = "driving"
    /\ Give(o, "failed")
    /\ Goto(o, "runlock")
    /\ UNCHANGED <<outer, rwmutex, object, owner, data, history>>

\* The future fails, panics or is dropped by a cancellation.  The guard is
\* released (a poisoned mutex is taken over); a commit that was already
\* durable stays, and a guarded method may or may not have moved the handle.
Abort(o) ==
    /\ pc[o] = "driving"
    /\ Give(o, "failed")
    /\ Goto(o, "runlock")
    /\ owner' = IF owner = o THEN NoOp ELSE owner
    /\ version' \in {version} \cup (IF Guarded(o) /\ won[o] > 0 THEN {won[o]} ELSE {})
    /\ UNCHANGED <<outer, rwmutex, object, latest, won, base, history>>

Fail(o) == CallbacksDone(o) /\ Abort(o)

Cancel(o) == o \in Cancellable /\ Abort(o)

-----------------------------------------------------------------------------
(* Close.                                                                  *)

\* d.mu.Lock() announces itself, which stops new readers ...
Lock(o) ==
    /\ pc[o] = "lock"
    /\ Kind[o] = "close"
    /\ writer = NoOp
    /\ writer' = o
    /\ Goto(o, "drain")
    /\ UNCHANGED <<outer, res, readers, blocked, object, owner, data, history>>

\* Mutants of CloseNative: it does not wait for the readers; it forgets the
\* native handle.
CloseAtOnce(o) ==
    /\ pc[o] = "drain"
    /\ IF ptr THEN native' = "freed" /\ frees' = frees + 1
              ELSE UNCHANGED <<native, frees>>
    /\ Goto(o, "stop")
    /\ UNCHANGED <<outer, res, rwmutex, ptr, cleanup, dropped, owner, data, history>>
CloseGoOnly(o) ==
    /\ pc[o] = "drain"
    /\ readers = {}
    /\ Goto(o, "stop")
    /\ UNCHANGED <<outer, res, rwmutex, object, owner, data, history>>

\* ... and waits for the present ones; then the native handle is freed.
CloseNative(o) ==
    /\ pc[o] = "drain"
    /\ readers = {}
    /\ IF ptr THEN native' = "freed" /\ frees' = frees + 1
              ELSE UNCHANGED <<native, frees>>
    /\ Goto(o, "stop")
    /\ UNCHANGED <<outer, res, rwmutex, ptr, cleanup, dropped, owner, data, history>>

\* Mutant of CloseReturn: the lock is not released.
CloseKeepsLock(o) ==
    /\ pc[o] = "stop"
    /\ cleanup' = "stopped"
    /\ ptr' = FALSE
    /\ Goto(o, "done")
    /\ Give(o, "ok")
    /\ UNCHANGED <<outer, rwmutex, native, frees, dropped, owner, data, history>>

\* cleanup.Stop(), d.ptr = nil, d.mu.Unlock(): the parked readers go on.
CloseReturn(o) ==
    /\ pc[o] = "stop"
    /\ cleanup' = IF ptr THEN "stopped" ELSE cleanup
    /\ ptr' = FALSE
    /\ writer' = NoOp
    /\ readers' = blocked
    /\ blocked' = {}
    /\ pc' = [n \in Ops |-> IF n = o THEN "done"
                            ELSE IF n \in blocked THEN "check" ELSE pc[n]]
    /\ Give(o, "ok")
    /\ UNCHANGED <<outer, native, frees, dropped, owner, data, history>>

-----------------------------------------------------------------------------
OpStep(o) ==
    \/ RLock(o)
    \/ CheckOpen(o)
    \/ FfiCall(o)
    \/ RUnlock(o)
    \/ Clone(o)
    \/ TakeGuard(o)
    \/ Commit(o)
    \/ ReadDone(o)
    \/ MutationDone(o)
    \/ StoreNewDataset(o)
    \/ GuardedDone(o)
    \/ Fail(o)
    \/ Lock(o)
    \/ CloseNative(o)
    \/ CloseReturn(o)

Environment ==
    \/ \E o \in Ops : Begin(o) \/ Cancel(o) \/ RejectArguments(o)
    \/ \E o, u \in Ops : BeginNested(o, u)
    \/ Drop
    \/ CommitElsewhere

Terminated ==
    /\ dropped
    /\ cleanup # "armed"
    /\ \A o \in Ops : ~InFlight(o)
    /\ UNCHANGED vars

Next == (\E o \in Ops : OpStep(o)) \/ Environment \/ RunCleanup \/ Terminated

Spec == Init /\ [][Next]_vars

\* Goroutines run when they can, and native work ends, in a result or in a
\* failure.  Nothing is assumed of the application (which may pass arguments
\* that are rejected) or of the collector.
FairSpec == Spec /\ \A o \in Ops : WF_vars(OpStep(o))

-----------------------------------------------------------------------------
(* Properties.                                                             *)

\* No method is inside native code with a handle that Close or the collector
\* has freed: Close waits for the readers, and they keep the object alive.
NoUseAfterClose ==
    \A o \in Ops : pc[o] \in {"ffi", "native", "driving", "store"} => native = "live"

\* lance_dataset_close is called at most once on the handle, by Close or by
\* the safety net but never by both ("closed at most once", dataset.rs).
FreedOnce == frees <= 1

\* Once the application has dropped the handle and every method has returned,
\* the native handle has been freed or the safety net still will free it.
NoLeak == native = "live" => cleanup = "armed"

\* A commit whose method returned nil is visible through the handle from then on,
\* unless a Delete, Update or MergeInsert was in the middle at that time: it may
\* still put an older version into the handle.
SettledVisible == version >= settled

\* The handle always tracks the newest version that was committed through it.
HandleTracksNewest == version >= acked

\* The handle never moves back to an older version.
HandleNeverRegresses == [][version' >= version]_vars

\* The mutex in the native handle is held only inside a running native
\* function, so an aborted operation never leaves it locked.
GuardReleased == owner # NoOp => pc[owner] = "driving" /\ Guarded(owner)

\* The lock, the open check and the safety net together keep the promise of
\* SharedHandle: a method works on the native dataset only while it exists, and
\* it is freed once, when no method is working on it.
InNative == {"ffi", "native", "driving", "store"}
Shared == INSTANCE SharedHandle WITH
    Users <- Ops,
    using <- {o \in Ops : pc[o] \in InNative},
    frees <- frees
ImplementsHandle == Shared!Spec

\* The next statement of o can be executed now.
Ready(o) ==
    \/ pc[o] = "lock" /\ (Kind[o] = "close" => writer = NoOp)
    \/ pc[o] \in {"check", "ffi", "runlock", "stop"}
    \/ pc[o] \in {"native", "store"} /\ owner = NoOp
    \/ pc[o] = "driving" /\ CallbacksDone(o)
    \/ pc[o] = "drain" /\ readers = {}

\* Whom o is waiting for: the Close that has the lock or is before it in the
\* queue, the readers, the holder of the native mutex, its own callbacks.
WaitsFor(o, p) ==
    \/ (pc[o] = "parked" \/ (pc[o] = "lock" /\ Kind[o] = "close")) /\ writer = p
    \/ pc[o] = "drain" /\ p \in readers
    \/ pc[o] \in {"native", "store"} /\ owner = p
    \/ pc[o] = "driving" /\ outer[p] = o /\ pc[p] # "done"

\* The order in which the code acquires: who waits is above whom it waits for.
Rank(o) ==
    CASE pc[o] = "parked" \/ (pc[o] = "lock" /\ Kind[o] = "close") -> 4
      [] pc[o] \in {"drain", "stop"} -> 3
      [] pc[o] \in {"native", "store"} -> 2
      [] pc[o] = "driving" -> 1
      [] OTHER -> 0

\* A callback of a method of the handle does not use the handle, or nobody
\* closes the handle (handle_reentrant shows what happens otherwise).
NoReentrantClose == Nested = {} \/ \A o \in Ops : Kind[o] # "close"

\* Whoever cannot go on waits for a call in progress that is lower in one fixed
\* order: nobody waits for a wake-up that has been missed, and readers, Close,
\* the native mutex and callbacks never wait for each other in a circle.
NoCircularWait ==
    NoReentrantClose =>
        \A o \in Ops :
            /\ InFlight(o) => Ready(o) \/ \E p \in Ops : WaitsFor(o, p)
            /\ \A p \in Ops : WaitsFor(o, p) => InFlight(p) /\ Rank(p) < Rank(o)

\* While calls are in progress, one of them can go on.
SomeoneCanGoOn ==
    NoReentrantClose => ((\E o \in Ops : InFlight(o)) => \E o \in Ops : Ready(o))

\* How many steps a method can still take, at most.
StepsLeft(o) ==
    CASE pc[o] = "idle" -> 12
      [] pc[o] = "lock" -> 11
      [] pc[o] = "parked" -> 10
      [] pc[o] = "check" -> 9
      [] pc[o] = "ffi" -> 8
      [] pc[o] = "native" -> 7
      [] pc[o] = "driving" -> IF won[o] = 0 THEN 6 ELSE 5
      [] pc[o] = "store" -> 4
      [] pc[o] = "drain" -> 4
      [] pc[o] \in {"runlock", "stop"} -> 3
      [] OTHER -> 2

\* No step of any method, of Close or of the collector sets a method back, and
\* each of its own steps brings it closer to its return.
OpAdvances ==
    [][\A o \in Ops :
          /\ StepsLeft(o)' <= StepsLeft(o)
          /\ OpStep(o) => StepsLeft(o)' < StepsLeft(o)]_vars

\* Every method returns: readers, Close and the native mutex never wait for
\* each other in a circle.
EveryOpReturns == \A o \in Ops : (pc[o] = "lock") ~> (pc[o] = "done")

\* A call made by a callback is rejected with ErrReentrantCall (or reports
\* that its handle is closed or its context done): it returns.
NestedReturns == \A o \in Nested : (pc[o] = "lock") ~> (pc[o] = "done")

-----------------------------------------------------------------------------
(* The inductive invariant behind the safety properties.                   *)

Reading == {"check", "ffi", "native", "driving", "store", "runlock"}

\* The lock, by where the calls are.  While Close frees, nobody reads.
LockInv ==
    /\ \A o \in Ops :
          /\ o \in readers <=> pc[o] \in Reading
          /\ o \in blocked <=> pc[o] = "parked"
          /\ writer = o <=> pc[o] \in {"drain", "stop"}
          /\ pc[o] = "stop" => readers = {}

\* What is freed, by how far Close or the safety net has come.
ObjectInv ==
    /\ \/ /\ ptr /\ cleanup = "armed"
          /\ native = "live" <=> frees = 0
          /\ frees = 0 \/ (frees = 1 /\ \E o \in Ops : pc[o] = "stop")
       \/ ptr /\ cleanup = "ran" /\ native = "freed" /\ frees = 1 /\ dropped
       \/ ~ptr /\ cleanup = "stopped" /\ native = "freed" /\ frees = 1
    /\ cleanup = "ran" => \A o \in Ops : ~InFlight(o)
    /\ \A o \in Ops :
          /\ pc[o] \in {"ffi", "native", "driving", "store"} => ptr
          /\ pc[o] = "stop" => frees = 1

\* The native mutex and the commits: what an operation in the middle has
\* in hand is not older than anything the handle owes to earlier ones.
VersionInv ==
    /\ version <= latest /\ acked <= latest /\ settled <= acked
    /\ \A o \in Ops :
          /\ won[o] <= latest
          /\ owner = o <=> pc[o] = "driving" /\ Guarded(o)
          /\ pc[o] \in {"idle", "lock", "parked", "check", "ffi", "native"} => won[o] = 0
          /\ pc[o] = "store" => Kind[o] = "mutate"
          /\ Unstored(o) => Held(o) \in settled..latest
          /\ owner = o /\ won[o] > 0 => won[o] > version /\ won[o] > acked
          /\ won[o] > 0 => Committing(o)

\* Without mutations of the clone-and-store kind the handle never falls back.
NewestInv == (\A o \in Ops : Kind[o] # "mutate") => HandleTracksNewest

\* Who can be waiting: a parked reader has a Close that will wake it, only Close
\* drains, and a call from a callback never gets into the native function.
WaitInv ==
    /\ blocked # {} => writer # NoOp
    /\ \A o \in Ops :
          /\ pc[o] \in {"drain", "stop"} => Kind[o] = "close"
          /\ pc[o] = "idle" => outer[o] = NoOp
          /\ outer[o] # NoOp =>
                o \in Nested /\ pc[o] \notin {"native", "driving", "store"}

IInv ==
    /\ TypeOK
    /\ LockInv
    /\ ObjectInv
    /\ VersionInv
    /\ SettledVisible
    /\ NewestInv
=============================================================================
