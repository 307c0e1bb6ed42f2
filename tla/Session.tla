------------------------------ MODULE Session ------------------------------
(***************************************************************************)
(* A session with a Go cache backend (lance/session.go, rust/src/          *)
(* session.rs), the operations that share it, and what they borrow from    *)
(* Go: the exported reader of a Write (lance/dataset.go), the progress     *)
(* callback, and the registration of the backend in the plugin registry    *)
(* (lance/callbacks.go, rust/src/callbacks.rs).                            *)
(*                                                                         *)
(* Every element of Ops is one call.  "open", "write", "stats" and "close" *)
(* are made on the session; "scan" is a method of a dataset opened through *)
(* it, which holds a clone of the native session but not the Session's     *)
(* lock.  ffiCall is reduced to what module FfiCall establishes of it: a   *)
(* call from a callback is rejected, a done context ends the call before   *)
(* or during the native function.                                          *)
(***************************************************************************)
EXTENDS Naturals

CONSTANTS
    Ops,           \* calls
    Kind,          \* "open", "write", "stats", "close" or "scan"
    Sessionless,   \* writes without WithWriteSession
    Progress,      \* writes with WithWriteProgress
    Nested,        \* calls made by a progress callback
    Cancellable,   \* calls whose context can be cancelled
    NoOp,          \* no call
    Handle         \* the LanceSession behind Session.ptr, as an owner

ASSUME SessionAssumption ==
    /\ Kind \in [Ops -> {"open", "write", "stats", "close", "scan"}]
    /\ Sessionless \subseteq {o \in Ops : Kind[o] = "write"}
    /\ Progress \subseteq {o \in Ops : Kind[o] = "write"}
    /\ Cancellable \subseteq {o \in Ops : Kind[o] \in {"open", "write", "scan"}}
    /\ Nested \subseteq {o \in Ops : Kind[o] # "scan"}
    /\ NoOp \notin Ops
    /\ Handle \notin Ops

VARIABLES
    pc,         \* where each call is
    outer,      \* for a nested call, the write whose callback made it
    from,       \* for a scan, the call that returned its dataset
    ctx,        \* the call's context
    result,     \* how the call ended
    mu,         \* Session.mu: the call that holds it
    ptr,        \* Session.ptr is not nil
    closes,     \* how often lance_session_close was called
    armed,      \* the runtime cleanup of the Session is in effect
    forgotten,  \* the application has dropped the Session
    owners,     \* who holds a clone of the native session
    backend,    \* the registry entry of the cache backend
    call,       \* a call to the backend on the blocking pool
    progress,   \* the registry entry of the progress callback
    report,     \* the progress callback itself
    stream      \* the reader exported for a write

go == <<pc, outer, from, ctx, result>>
session == <<mu, ptr, closes, armed, forgotten>>
lease == <<owners, backend>>
hooks == <<progress, report>>
vars == <<go, session, lease, call, hooks, stream>>

Pcs == {"idle", "ctx?", "register", "lock", "close", "export", "ffi", "native",
        "driving", "unlock", "unregister", "done"}
Results == {"pending", "ok", "closed", "ctx.Err", "ErrReentrantCall",
            "failed", "cancelled"}

\* Every variable has its type.
TypeOK ==
    /\ pc \in [Ops -> Pcs]
    /\ outer \in [Ops -> Ops \cup {NoOp}]
    /\ from \in [Ops -> Ops \cup {NoOp}]
    /\ ctx \in [Ops -> {"background", "active", "done"}]
    /\ result \in [Ops -> Results]
    /\ mu \in Ops \cup {NoOp}
    /\ ptr \in BOOLEAN
    /\ closes \in Nat
    /\ armed \in BOOLEAN
    /\ forgotten \in BOOLEAN
    /\ owners \subseteq Ops \cup {Handle}
    /\ backend \in {"absent", "registered", "dropping", "released"}
    /\ call \in [Ops -> {"none", "queued", "found", "missing", "returned"}]
    /\ progress \in [Ops -> {"none", "registered", "released"}]
    /\ report \in [Ops -> {"none", "running", "returned"}]
    /\ stream \in [Ops -> {"none", "exported", "imported", "released"}]

Init ==
    /\ pc = [o \in Ops |-> "idle"]
    /\ outer = [o \in Ops |-> NoOp]
    /\ from = [o \in Ops |-> NoOp]
    /\ ctx = [o \in Ops |-> IF o \in Cancellable THEN "active" ELSE "background"]
    /\ result = [o \in Ops |-> "pending"]
    /\ mu = NoOp
    /\ ptr = FALSE
    /\ closes = 0
    /\ armed = FALSE
    /\ forgotten = FALSE
    /\ owners = {}
    /\ backend = "absent"
    /\ call = [o \in Ops |-> "none"]
    /\ progress = [o \in Ops |-> "none"]
    /\ report = [o \in Ops |-> "none"]
    /\ stream = [o \in Ops |-> "none"]

-----------------------------------------------------------------------------
(* The session and the lease on its backend.                               *)

UsesSession(o) == Kind[o] # "scan" /\ o \notin Sessionless

Goto(o, l) == pc' = [pc EXCEPT ![o] = l]

Return(o, r, l) ==
    /\ result' = [result EXCEPT ![o] = r]
    /\ Goto(o, l)

\* Mutant of DropClone: the backend is unregistered together with the handle.
DropWithHandle(x) ==
    /\ owners' = owners \ {x}
    /\ backend' = IF x = Handle THEN "dropping" ELSE backend

\* x lets go of the native session; the last to do so drops OwnedGoPlugin.
DropClone(x) ==
    /\ owners' = owners \ {x}
    /\ backend' = IF x \in owners /\ owners' = {} THEN "dropping" ELSE backend

\* NewSessionWithCacheBackend: the backend is registered, and stays so only if
\* the native constructor succeeds.
NewSession ==
    /\ backend = "absent"
    /\ \/ /\ backend' = "registered"
          /\ owners' = {Handle}
          /\ ptr' = TRUE
          /\ armed' = TRUE
       \/ /\ backend' = "released"
          /\ UNCHANGED <<owners, ptr, armed>>
    /\ UNCHANGED <<go, mu, closes, forgotten, call, hooks, stream>>

\* go_handle_release, called by the drop of the last lease.
ReleaseBackend ==
    /\ backend = "dropping"
    /\ backend' = "released"
    /\ UNCHANGED <<go, session, owners, call, hooks, stream>>

\* The application drops its last reference to the Session.
Forget ==
    /\ backend # "absent"
    /\ ~forgotten
    /\ forgotten' = TRUE
    /\ UNCHANGED <<go, mu, ptr, closes, armed, lease, call, hooks, stream>>

\* The collector finds the Session unreachable and runs its cleanup.
RunCleanup ==
    /\ forgotten
    /\ armed
    /\ \A o \in Ops : UsesSession(o) => pc[o] \in {"idle", "done"}
    /\ armed' = FALSE
    /\ closes' = closes + 1
    /\ DropClone(Handle)
    /\ UNCHANGED <<go, mu, ptr, forgotten, call, hooks, stream>>

-----------------------------------------------------------------------------
(* Calls.                                                                  *)

CtxDone(o) ==
    /\ ctx[o] = "active"
    /\ ctx' = [ctx EXCEPT ![o] = "done"]
    /\ UNCHANGED <<pc, outer, from, result, session, lease, call, hooks, stream>>

SessionExists == armed \/ closes > 0

First(o) == IF Kind[o] \in {"open", "write"} THEN "ctx?" ELSE "lock"

\* A call is made on a Session the application still has.
Begin(o) ==
    /\ pc[o] = "idle"
    /\ Kind[o] # "scan"
    /\ UsesSession(o) => SessionExists /\ ~forgotten
    /\ \/ o \notin Nested /\ UNCHANGED outer
       \/ /\ o \in Nested
          /\ \E w \in Progress : /\ report[w] = "running"
                                 /\ outer' = [outer EXCEPT ![o] = w]
    /\ Goto(o, First(o))
    /\ UNCHANGED <<from, ctx, result, session, lease, call, hooks, stream>>

\* Scan on a dataset that an earlier call returned and that is still open.
BeginScan(o, d) ==
    /\ pc[o] = "idle"
    /\ Kind[o] = "scan"
    /\ Kind[d] \in {"open", "write"}
    /\ pc[d] = "done"
    /\ d \in owners
    /\ from' = [from EXCEPT ![o] = d]
    /\ Goto(o, "ffi")
    /\ UNCHANGED <<outer, ctx, result, session, lease, call, hooks, stream>>

\* if err = ctx.Err(); err != nil at the top of Open and Write.
CheckCtx(o) ==
    /\ pc[o] = "ctx?"
    /\ IF ctx[o] = "done" THEN Return(o, "ctx.Err", "done")
                          ELSE Goto(o, "register") /\ UNCHANGED result
    /\ UNCHANGED <<outer, from, ctx, session, lease, call, hooks, stream>>

\* registerPlugin(writeProgressAdapter{...}), if there is a callback.
RegisterProgress(o) ==
    /\ pc[o] = "register"
    /\ progress' = [progress EXCEPT ![o] = IF o \in Progress THEN "registered" ELSE @]
    /\ Goto(o, IF UsesSession(o) THEN "lock" ELSE "export")
    /\ UNCHANGED <<outer, from, ctx, result, session, lease, call, report, stream>>

\* What follows the lock, on a session that is not closed.
Locked(o) ==
    CASE Kind[o] = "close" -> "close"
      [] Kind[o] = "write" -> "export"
      [] OTHER             -> "ffi"

\* Mutant of LockSession: the pointer is not tested under the lock.
LockUntested(o) ==
    /\ pc[o] = "lock"
    /\ mu = NoOp
    /\ mu' = o
    /\ Goto(o, Locked(o))
    /\ UNCHANGED <<outer, from, ctx, result, ptr, closes, armed, forgotten, lease,
                   call, hooks, stream>>

\* s.mu.Lock(), and the test of s.ptr under it.
LockSession(o) ==
    /\ pc[o] = "lock"
    /\ mu = NoOp
    /\ mu' = o
    /\ IF ptr \/ Kind[o] = "close"
       THEN Goto(o, Locked(o)) /\ UNCHANGED result
       ELSE Return(o, "closed", "unlock")
    /\ UNCHANGED <<outer, from, ctx, ptr, closes, armed, forgotten, lease, call,
                   hooks, stream>>

\* Session.Close under its lock.
CloseSession(o) ==
    /\ pc[o] = "close"
    /\ IF ptr THEN /\ closes' = closes + 1
                   /\ armed' = FALSE
                   /\ ptr' = FALSE
                   /\ DropClone(Handle)
              ELSE UNCHANGED <<closes, armed, ptr, lease>>
    /\ Return(o, "ok", "unlock")
    /\ UNCHANGED <<outer, from, ctx, mu, forgotten, call, hooks, stream>>

\* cdata.ExportRecordReader
Export(o) ==
    /\ pc[o] = "export"
    /\ stream' = [stream EXCEPT ![o] = "exported"]
    /\ Goto(o, "ffi")
    /\ UNCHANGED <<outer, from, ctx, result, session, lease, call, hooks>>

\* ffiCall up to the native function.
FfiCall(o) ==
    /\ pc[o] = "ffi"
    /\ \/ outer[o] # NoOp /\ Return(o, "ErrReentrantCall", "unlock")
       \/ outer[o] = NoOp /\ ctx[o] = "done" /\ Return(o, "ctx.Err", "unlock")
       \/ outer[o] = NoOp /\ ctx[o] # "done" /\ Goto(o, "native") /\ UNCHANGED result
    /\ UNCHANGED <<outer, from, ctx, session, lease, call, hooks, stream>>

-----------------------------------------------------------------------------
(* The native functions.                                                   *)

HasReader(o) == stream[o] = "exported"

\* An argument is invalid; the stream, imported first, is dropped.
RejectArguments(o) ==
    /\ pc[o] = "native"
    /\ Return(o, "failed", "unlock")
    /\ stream' = [stream EXCEPT ![o] = IF HasReader(o) THEN "released" ELSE @]
    /\ UNCHANGED <<outer, from, ctx, session, lease, call, hooks>>

\* The stream is imported, the session (for a scan, the dataset) cloned, and
\* the runtime drives the future.
Drive(o) ==
    /\ pc[o] = "native"
    /\ stream' = [stream EXCEPT ![o] = IF HasReader(o) THEN "imported" ELSE @]
    /\ owners' = IF o \in Sessionless THEN owners ELSE owners \cup {o}
    /\ Goto(o, "driving")
    /\ UNCHANGED <<outer, from, ctx, result, session, backend, call, hooks>>

\* WriteProgressFn: the future calls Go and waits for it.
ReportProgress(o) ==
    /\ pc[o] = "driving"
    /\ progress[o] = "registered"
    /\ report[o] = "none"
    /\ report' = [report EXCEPT ![o] = "running"]
    /\ UNCHANGED <<go, session, lease, call, progress, stream>>

ProgressReturns(o) ==
    /\ report[o] = "running"
    /\ \A n \in Nested : outer[n] = o => pc[n] = "done"
    /\ report' = [report EXCEPT ![o] = "returned"]
    /\ UNCHANGED <<go, session, lease, call, progress, stream>>

\* GoCacheBackend: call_blocking puts a task on the blocking pool, which keeps
\* the handle but not the lease.
CallBackend(o) ==
    /\ pc[o] = "driving"
    /\ o \in owners
    /\ call[o] = "none"
    /\ call' = [call EXCEPT ![o] = "queued"]
    /\ UNCHANGED <<go, session, lease, hooks, stream>>

\* go_callback_invoke looks the handle up.
Lookup(o) ==
    /\ call[o] = "queued"
    /\ call' = [call EXCEPT ![o] =
                  IF backend \in {"registered", "dropping"} THEN "found" ELSE "missing"]
    /\ UNCHANGED <<go, session, lease, hooks, stream>>

BackendReturns(o) ==
    /\ call[o] \in {"found", "missing"}
    /\ call' = [call EXCEPT ![o] = "returned"]
    /\ UNCHANGED <<go, session, lease, hooks, stream>>

\* What the driven future waits for has returned.
Idle(o) == report[o] # "running" /\ call[o] \in {"none", "returned"}

\* Mutant of Complete: the imported reader is not dropped.
CompleteKeepsReader(o, r) ==
    /\ pc[o] = "driving"
    /\ Idle(o)
    /\ Return(o, r, "unlock")
    /\ IF r = "ok" /\ Kind[o] # "stats" THEN UNCHANGED lease ELSE DropClone(o)
    /\ UNCHANGED <<outer, from, ctx, session, call, hooks, stream>>

\* The future completes.  A dataset or a stream that is returned keeps the
\* clone of the session; the imported reader is dropped.
Complete(o, r) ==
    /\ pc[o] = "driving"
    /\ Idle(o)
    /\ Return(o, r, "unlock")
    /\ stream' = [stream EXCEPT ![o] = IF @ = "imported" THEN "released" ELSE @]
    /\ IF r = "ok" /\ Kind[o] # "stats" THEN UNCHANGED lease ELSE DropClone(o)
    /\ UNCHANGED <<outer, from, ctx, session, call, hooks>>

\* The context is done: the future is dropped.  A task on the blocking pool
\* goes on, and so may a task of the crate that still has the reader.
Cancelled(o) ==
    /\ pc[o] = "driving"
    /\ ctx[o] = "done"
    /\ report[o] # "running"
    /\ Return(o, "cancelled", "unlock")
    /\ DropClone(o)
    /\ UNCHANGED <<outer, from, ctx, session, call, hooks, stream>>

\* The crate drops the reader of a cancelled write.
DropReader(o) ==
    /\ stream[o] = "imported"
    /\ result[o] = "cancelled"
    /\ stream' = [stream EXCEPT ![o] = "released"]
    /\ UNCHANGED <<go, session, lease, call, hooks>>

-----------------------------------------------------------------------------
(* The way out, and what the application does with the result.             *)

\* Mutant of Unlock: the lock is given back only on success.
UnlockOnSuccess(o) ==
    /\ pc[o] = "unlock"
    /\ mu' = IF mu = o /\ result[o] = "ok" THEN NoOp ELSE mu
    /\ Goto(o, "unregister")
    /\ UNCHANGED <<outer, from, ctx, result, ptr, closes, armed, forgotten, lease,
                   call, hooks, stream>>

\* The deferred s.mu.Unlock().
Unlock(o) ==
    /\ pc[o] = "unlock"
    /\ mu' = IF mu = o THEN NoOp ELSE mu
    /\ Goto(o, "unregister")
    /\ UNCHANGED <<outer, from, ctx, result, ptr, closes, armed, forgotten, lease,
                   call, hooks, stream>>

\* The deferred releasePlugin(progressHandle), and the return.
Unregister(o) ==
    /\ pc[o] = "unregister"
    /\ progress' = [progress EXCEPT ![o] = IF @ = "registered" THEN "released" ELSE @]
    /\ Goto(o, "done")
    /\ UNCHANGED <<outer, from, ctx, result, session, lease, call, report, stream>>

\* The application closes the dataset, or releases the reader, that o
\* returned.  Dataset.Close waits for the methods in progress on it.
CloseResult(o) ==
    /\ pc[o] = "done"
    /\ o \in owners
    /\ \A n \in Ops : from[n] = o => pc[n] = "done"
    /\ DropClone(o)
    /\ UNCHANGED <<go, session, call, hooks, stream>>

-----------------------------------------------------------------------------
OpStep(o) ==
    \/ CheckCtx(o)
    \/ RegisterProgress(o)
    \/ LockSession(o)
    \/ CloseSession(o)
    \/ Export(o)
    \/ FfiCall(o)
    \/ RejectArguments(o)
    \/ Drive(o)
    \/ ReportProgress(o)
    \/ ProgressReturns(o)
    \/ CallBackend(o)
    \/ Lookup(o)
    \/ BackendReturns(o)
    \/ \E r \in {"ok", "failed"} : Complete(o, r)
    \/ Cancelled(o)
    \/ DropReader(o)
    \/ Unlock(o)
    \/ Unregister(o)

Application(o) ==
    \/ CtxDone(o)
    \/ Begin(o)
    \/ \E d \in Ops : BeginScan(o, d)
    \/ CloseResult(o)

Collector == ReleaseBackend \/ RunCleanup

\* The application may stop when no call is in progress.
Quiescent == (\A o \in Ops : pc[o] \in {"idle", "done"}) /\ UNCHANGED vars

Next == (\E o \in Ops : OpStep(o) \/ Application(o))
        \/ NewSession \/ Forget \/ Collector \/ Quiescent

Spec == Init /\ [][Next]_vars

\* Calls and callbacks in progress go on; nothing is assumed of the
\* application's next call, of contexts or of the collector.
FairSpec == Spec /\ (\A o \in Ops : WF_vars(OpStep(o))) /\ WF_vars(ReleaseBackend)

-----------------------------------------------------------------------------
(* Properties.                                                             *)

\* The native session is closed at most once, by Close or by the cleanup, and
\* not while a call that was given its pointer is running.
SessionValidInUse ==
    /\ closes <= 1
    /\ \A o \in Ops :
          UsesSession(o) /\ pc[o] \in {"export", "ffi", "native", "driving"} => closes = 0

\* A call to the cache backend that an operation is waiting for finds the
\* backend registered, whatever has been closed meanwhile; only a call whose
\* operation was cancelled can come too late (go_callback_invoke then answers
\* with an error).
AwaitedCallServed == \A o \in Ops : pc[o] = "driving" => call[o] # "missing"

\* The backend is registered exactly as long as the session or something
\* opened through it is alive ("released when the last clone is dropped").
BackendFollowsOwners == backend = "registered" <=> owners # {}

\* The lease on the backend behaves as OwnedGoPlugin promises: clones come
\* from clones, and a released registration is never revived.
Lease == INSTANCE PluginLease WITH Owners <- Ops \cup {Handle}, entry <- backend
ImplementsLease == Lease!Spec

\* The reader exported for a write is left behind only by a write that
\* returned before its native function: a closed session, an invalid
\* argument, a failure or a completed write leave nothing exported.
ReaderLeftOnlyBeforeNative ==
    \A o \in Ops : pc[o] \in {"unlock", "unregister", "done"} =>
        (stream[o] = "exported" => result[o] \in {"ErrReentrantCall", "ctx.Err"})

\* A call that has returned holds neither the lock nor a registration, on
\* whichever path it returned; its callback is not running.
ReturnsClean ==
    \A o \in Ops : pc[o] = "done" =>
        mu # o /\ progress[o] # "registered" /\ report[o] # "running"

\* The lock, the test of the pointer under it and the cleanup keep the promise
\* of SharedHandle: a call is given the native session only while it exists, and
\* the session is closed once, by Close or by the cleanup, with no call inside.
Shared == INSTANCE SharedHandle WITH
    Users <- Ops,
    using <- {o \in Ops : UsesSession(o) /\ pc[o] \in {"export", "ffi", "native", "driving"}},
    frees <- closes
ImplementsHandle == Shared!Spec

InProgress(o) == pc[o] \notin {"idle", "done"}

\* The next statement of o, or of the callback it has called, can be executed.
Ready(o) ==
    /\ InProgress(o)
    /\ pc[o] = "lock" => mu = NoOp
    /\ report[o] = "running" => \A n \in Nested : outer[n] = o => pc[n] = "done"

\* Whom o is waiting for: the holder of the session's lock, or the calls that
\* its progress callback has made.
WaitsFor(o, p) ==
    \/ pc[o] = "lock" /\ mu = p
    \/ report[o] = "running" /\ p \in Nested /\ outer[p] = o /\ pc[p] # "done"

Rank(o) ==
    CASE pc[o] = "lock" -> 2
      [] pc[o] = "driving" -> 1
      [] OTHER -> 0

\* As long as no progress callback uses the session of its own write, whoever
\* cannot go on waits for a call in progress that is lower in one fixed order:
\* the session's lock and the callbacks never wait for each other in a circle.
NoCircularWait ==
    Nested \subseteq Sessionless =>
        \A o \in Ops :
            /\ InProgress(o) => Ready(o) \/ \E p \in Ops : WaitsFor(o, p)
            /\ \A p \in Ops : WaitsFor(o, p) => InProgress(p) /\ Rank(p) < Rank(o)

\* While calls are in progress, one of them can go on.
SomeoneCanGoOn ==
    Nested \subseteq Sessionless =>
        ((\E o \in Ops : InProgress(o)) => \E o \in Ops : Ready(o))

\* How many steps are left, at most, to a call, to the progress report and the
\* call of the backend that it makes, and to the reader it has lent.
CallSteps(o) ==
    CASE pc[o] = "idle" -> 11
      [] pc[o] = "ctx?" -> 10
      [] pc[o] = "register" -> 9
      [] pc[o] = "lock" -> 8
      [] pc[o] \in {"export", "close"} -> 7
      [] pc[o] = "ffi" -> 6
      [] pc[o] = "native" -> 5
      [] pc[o] = "driving" -> 4
      [] pc[o] = "unlock" -> 3
      [] pc[o] = "unregister" -> 2
      [] OTHER -> 1
ReportSteps(o) == CASE report[o] = "none" -> 2 [] report[o] = "running" -> 1 [] OTHER -> 0
BackendSteps(o) ==
    CASE call[o] = "none" -> 3
      [] call[o] = "queued" -> 2
      [] call[o] \in {"found", "missing"} -> 1
      [] OTHER -> 0
ReaderSteps(o) ==
    CASE stream[o] = "none" -> 3
      [] stream[o] = "exported" -> 2
      [] stream[o] = "imported" -> 1
      [] OTHER -> 0
StepsLeft(o) == CallSteps(o) + ReportSteps(o) + BackendSteps(o) + ReaderSteps(o)

\* No step of any call, callback or collector sets a call back, and each of its
\* own steps brings it closer to its end.
OpAdvances ==
    [][\A o \in Ops :
          /\ StepsLeft(o)' <= StepsLeft(o)
          /\ OpStep(o) => StepsLeft(o)' < StepsLeft(o)]_vars

\* A reader that the native side has taken and not released belongs to a write
\* that is still running or to one that was cancelled: no other path out of the
\* native function keeps it.
ReaderOwed ==
    \A o \in Ops : stream[o] = "imported" => pc[o] = "driving" \/ result[o] = "cancelled"

\* Every call returns, however the calls are interleaved, as long as no
\* progress callback uses the session of its own write.
EveryOpReturns == \A o \in Ops : (pc[o] # "idle") ~> (pc[o] = "done")

\* A reader the native side has taken is released in the end, by a completed
\* write, a failed one or a cancelled one.
ImportedReaderReleased ==
    \A o \in Ops : (stream[o] = "imported") ~> (stream[o] = "released")

-----------------------------------------------------------------------------
(* The inductive invariant behind the safety properties.                   *)

Running == Pcs \ {"idle", "done"}
GivenPtr == {"export", "ffi", "native", "driving"}
Returned == {"unlock", "unregister", "done"}

\* The lock is held from LockSession to Unlock by calls on the session, and
\* by nobody else.
LockInv ==
    \A o \in Ops :
        /\ mu = o <=> UsesSession(o) /\ pc[o] \in GivenPtr \cup {"close", "unlock"}
        /\ pc[o] \in {"lock", "close"} => UsesSession(o)

\* The handle is closed either by Close, which clears the pointer, or by the
\* cleanup, after which no call on the session can be running.
SessionInv ==
    /\ armed => closes = 0 /\ ptr /\ Handle \in owners
    /\ ~armed => Handle \notin owners /\ closes <= 1
    /\ ptr /\ ~armed =>
          forgotten /\ \A o \in Ops : UsesSession(o) => pc[o] \notin Running
    /\ \A o \in Ops : UsesSession(o) /\ pc[o] \in GivenPtr => ptr

\* Who may own a clone, and that calls which will make one have one to copy.
OwnerInv ==
    /\ backend = "registered" <=> owners # {}
    /\ backend = "absent" => ~armed /\ ~ptr /\ closes = 0
    /\ \A o \in Ops :
          /\ o \in owners => o \notin Sessionless /\ pc[o] \in {"driving"} \cup Returned
          /\ pc[o] = "driving" /\ o \notin Sessionless => o \in owners
          /\ Kind[o] = "scan" /\ pc[o] \in Running =>
                from[o] \in owners \cap Ops /\ pc[from[o]] = "done"
          /\ Kind[o] = "scan" => pc[o] \in {"idle", "ffi", "native", "driving"} \cup Returned

\* What a call has lent to the native side, by where it is.
LentInv ==
    \A o \in Ops :
        /\ call[o] # "none" => o \notin Sessionless /\ pc[o] \in {"driving"} \cup Returned
        /\ pc[o] = "driving" => call[o] # "missing"
        /\ progress[o] = "registered" => pc[o] \notin {"idle", "ctx?", "done"}
        /\ report[o] = "running" => pc[o] = "driving"
        /\ stream[o] = "exported" =>
              \/ pc[o] \in {"ffi", "native"}
              \/ pc[o] \in Returned /\ result[o] \in {"ErrReentrantCall", "ctx.Err"}

\* A call from a callback is never inside a native function, and the reader of a
\* write is where its progress says; a reader imported by a write that does not
\* run any more was left by a cancellation.
WaitInv ==
    /\ ReaderOwed
    /\ \A o \in Ops :
          /\ pc[o] \in {"idle", "ctx?", "register", "lock", "close", "export"} =>
                stream[o] = "none"
          /\ pc[o] \in {"ffi", "native"} => stream[o] \in {"none", "exported"}
          /\ pc[o] = "idle" => outer[o] = NoOp
          /\ outer[o] # NoOp => o \in Nested /\ pc[o] \notin {"native", "driving"}

IInv == TypeOK /\ LockInv /\ SessionInv /\ OwnerInv /\ LentInv
=============================================================================
