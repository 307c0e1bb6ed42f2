------------------------------ MODULE FfiCall ------------------------------
(***************************************************************************)
(* The call protocol between the Go package and the native library: the   *)
(* ffiCall helper (lance/errors.go) and the thread-local state it drives   *)
(* on the Rust side, the cancellation slot and the runtime                 *)
(* (rust/src/runtime.rs) and the last-error slot (rust/src/error.rs).      *)
(*                                                                         *)
(* Every element of Calls is one execution of ffiCall.  It runs on an OS   *)
(* thread of Threads that other calls use before and after it.  A nested   *)
(* call is one made by a Go callback while the native operation of an      *)
(* outer call is running: it executes on the thread that drives the outer  *)
(* operation or on a worker thread of the shared tokio runtime.            *)
(***************************************************************************)
EXTENDS Naturals

CONSTANTS
    Calls,        \* executions of ffiCall
    Threads,      \* OS threads the Go scheduler runs goroutines on
    Workers,      \* threads owned by the shared tokio runtime
    Migrations,   \* the calls whose native function uses the plain block_on
    NoCall,       \* no call, no token, no owner
    NoThread,     \* a call that is not on any thread
    MaxBlockOn    \* most futures one native function drives in sequence

ASSUME FfiAssumption ==
    /\ Migrations \subseteq Calls
    /\ NoCall \notin Calls
    /\ NoThread \notin Threads \cup Workers
    /\ Threads \cap Workers = {}
    /\ MaxBlockOn \in Nat

VARIABLES
    pc,         \* where each call is inside ffiCall
    thr,        \* the thread each call's goroutine is on
    locked,     \* runtime.LockOSThread is in effect for the call
    outer,      \* for a nested call, the call whose callback made it
    ctx,        \* the call's context: never cancellable, active, or done
    tok,        \* the token handle: not created, live, or freed
    cancelled,  \* the token (shared by handle and clones) has been cancelled
    watcher,    \* the watcher goroutine: absent, in select, firing, finished
    slot,       \* CURRENT_CANCEL of each thread: whose token is installed
    lastErr,    \* LAST_ERROR of each thread: the call that recorded it
    racing,     \* the token captured to race against the future
    ready,      \* the future being driven has completed
    polled,     \* a poll of this future has found it pending
    driven,     \* how many futures the native function has driven
    rc,         \* the code the native function returned
    result,     \* the error ffiCall returns to its caller
    reported    \* the call whose error lastError() found, if it was called

sched == <<thr, locked, outer>>
token == <<tok, cancelled, watcher>>
tls == <<slot, lastErr>>
future == <<racing, ready, polled, driven>>
outcome == <<result, reported>>
vars == <<pc, sched, ctx, token, tls, future, rc, outcome>>

Pcs == {"idle", "start", "reentrant?", "ctx?", "newtoken", "settoken", "spawn",
        "native", "driving", "ret", "stop", "join", "clear", "free",
        "unlock", "done"}
AnyThread == Threads \cup Workers
CallOrNone == Calls \cup {NoCall}
Codes == {"Ok", "Cancelled", "Failed"}
Kinds == {"pending", "nil", "ErrReentrantCall", "ctx.Err", "ErrCanceled",
          "lastError", "ErrInternal"}

\* Every variable has its type.
TypeOK ==
    /\ pc \in [Calls -> Pcs]
    /\ thr \in [Calls -> AnyThread \cup {NoThread}]
    /\ locked \in [Calls -> BOOLEAN]
    /\ outer \in [Calls -> CallOrNone]
    /\ ctx \in [Calls -> {"background", "active", "done"}]
    /\ tok \in [Calls -> {"none", "live", "freed"}]
    /\ cancelled \in [Calls -> BOOLEAN]
    /\ watcher \in [Calls -> {"none", "select", "firing", "finished"}]
    /\ slot \in [AnyThread -> CallOrNone]
    /\ lastErr \in [AnyThread -> CallOrNone]
    /\ racing \in [Calls -> CallOrNone]
    /\ ready \in [Calls -> BOOLEAN]
    /\ polled \in [Calls -> BOOLEAN]
    /\ driven \in [Calls -> Nat]
    /\ rc \in [Calls -> Codes]
    /\ result \in [Calls -> Kinds]
    /\ reported \in [Calls -> CallOrNone]

Init ==
    /\ pc = [c \in Calls |-> "idle"]
    /\ thr = [c \in Calls |-> NoThread]
    /\ locked = [c \in Calls |-> FALSE]
    /\ outer = [c \in Calls |-> NoCall]
    /\ ctx \in [Calls -> {"background", "active"}]
    /\ tok = [c \in Calls |-> "none"]
    /\ cancelled = [c \in Calls |-> FALSE]
    /\ watcher = [c \in Calls |-> "none"]
    /\ slot = [t \in AnyThread |-> NoCall]
    /\ lastErr = [t \in AnyThread |-> NoCall]
    /\ racing = [c \in Calls |-> NoCall]
    /\ ready = [c \in Calls |-> FALSE]
    /\ polled = [c \in Calls |-> FALSE]
    /\ driven = [c \in Calls |-> 0]
    /\ rc = [c \in Calls |-> "Ok"]
    /\ result = [c \in Calls |-> "pending"]
    /\ reported = [c \in Calls |-> NoCall]

-----------------------------------------------------------------------------
(* Contexts, threads and goroutines.                                       *)

Goto(c, l) == pc' = [pc EXCEPT ![c] = l]

Vacant(t) == \A c \in Calls : thr[c] # t

\* Mutant of InTokioRuntime: a thread inside block_on is not recognised.
OnlyWorkerThreads(t) == t \in Workers

\* lance_in_tokio_runtime: runtime threads, and a thread inside block_on.
InTokioRuntime(t) ==
    \/ t \in Workers
    \/ \E o \in Calls : pc[o] = "driving" /\ thr[o] = t

\* The context of a call is cancelled, or its deadline passes, at any time.
CtxDone(c) ==
    /\ ctx[c] = "active"
    /\ ctx' = [ctx EXCEPT ![c] = "done"]
    /\ UNCHANGED <<pc, sched, token, tls, future, rc, outcome>>

\* Application code enters ffiCall on whatever thread its goroutine is on.
Begin(c, t) ==
    /\ pc[c] = "idle"
    /\ Vacant(t)
    /\ thr' = [thr EXCEPT ![c] = t]
    /\ Goto(c, "start")
    /\ UNCHANGED <<locked, outer, ctx, token, tls, future, rc, outcome>>

\* A Go callback running inside the native operation of o enters ffiCall: on
\* the thread that drives o, or on a worker thread of the runtime.
BeginNested(c, o, t) ==
    /\ pc[c] = "idle"
    /\ pc[o] = "driving"
    /\ ~ready[o]
    /\ t \in Workers \cup {thr[o]}
    /\ \A n \in Calls \ {o} : thr[n] # t
    /\ thr' = [thr EXCEPT ![c] = t]
    /\ outer' = [outer EXCEPT ![c] = o]
    /\ Goto(c, "start")
    /\ UNCHANGED <<locked, ctx, token, tls, future, rc, outcome>>

\* The Go scheduler moves a goroutine that is neither locked to its thread,
\* nor inside C, nor serving a callback from C.
Migrate(c, t) ==
    /\ pc[c] \notin {"idle", "native", "driving", "done"}
    /\ ~locked[c]
    /\ outer[c] = NoCall
    /\ Vacant(t)
    /\ thr' = [thr EXCEPT ![c] = t]
    /\ UNCHANGED <<pc, locked, outer, ctx, token, tls, future, rc, outcome>>

-----------------------------------------------------------------------------
(* ffiCall up to the native function.                                      *)

\* Mutant of LockOSThread: the goroutine is not pinned.
NoLockOSThread(c) ==
    /\ pc[c] = "start"
    /\ Goto(c, "reentrant?")
    /\ UNCHANGED <<sched, ctx, token, tls, future, rc, outcome>>

LockOSThread(c) ==
    /\ pc[c] = "start"
    /\ locked' = [locked EXCEPT ![c] = TRUE]
    /\ Goto(c, "reentrant?")
    /\ UNCHANGED <<thr, outer, ctx, token, tls, future, rc, outcome>>

\* A call made on a runtime thread returns ErrReentrantCall at once.
RejectReentrant(c) ==
    /\ pc[c] = "reentrant?"
    /\ IF InTokioRuntime(thr[c])
       THEN /\ result' = [result EXCEPT ![c] = "ErrReentrantCall"]
            /\ Goto(c, "unlock")
       ELSE /\ Goto(c, "ctx?")
            /\ UNCHANGED result
    /\ UNCHANGED <<sched, ctx, token, tls, future, rc, reported>>

\* if err := ctx.Err(); err != nil, then if ctx.Done() != nil.
CheckCtx(c) ==
    /\ pc[c] = "ctx?"
    /\ \/ /\ ctx[c] = "done"
          /\ result' = [result EXCEPT ![c] = "ctx.Err"]
          /\ Goto(c, "unlock")
       \/ /\ ctx[c] = "background"
          /\ Goto(c, "native")
          /\ UNCHANGED result
       \/ /\ ctx[c] = "active"
          /\ Goto(c, "newtoken")
          /\ UNCHANGED result
    /\ UNCHANGED <<sched, ctx, token, tls, future, rc, reported>>

\* lance_cancel_token_new
NewToken(c) ==
    /\ pc[c] = "newtoken"
    /\ tok' = [tok EXCEPT ![c] = "live"]
    /\ Goto(c, "settoken")
    /\ UNCHANGED <<sched, ctx, cancelled, watcher, tls, future, rc, outcome>>

\* lance_thread_set_cancel_token(tok): a clone goes into the thread's slot.
SetToken(c) ==
    /\ pc[c] = "settoken"
    /\ slot' = [slot EXCEPT ![thr[c]] = c]
    /\ Goto(c, "spawn")
    /\ UNCHANGED <<sched, ctx, token, lastErr, future, rc, outcome>>

\* The watcher goroutine is started and f() is entered.
SpawnWatcher(c) ==
    /\ pc[c] = "spawn"
    /\ watcher' = [watcher EXCEPT ![c] = "select"]
    /\ Goto(c, "native")
    /\ UNCHANGED <<sched, ctx, tok, cancelled, tls, future, rc, outcome>>

-----------------------------------------------------------------------------
(* The watcher goroutine.                                                  *)

\* close(stop) has been executed.
Stopped(c) == pc[c] \in {"join", "clear", "free", "unlock", "done"}

\* case <-ctx.Done(): chosen (select picks any ready case).
WatcherWake(c) ==
    /\ watcher[c] = "select"
    /\ ctx[c] = "done"
    /\ watcher' = [watcher EXCEPT ![c] = "firing"]
    /\ UNCHANGED <<pc, sched, ctx, tok, cancelled, tls, future, rc, outcome>>

\* Mutant of WatcherFire: the watcher ends without cancelling the token.
FireNothing(c) ==
    /\ watcher[c] = "firing"
    /\ watcher' = [watcher EXCEPT ![c] = "finished"]
    /\ UNCHANGED <<pc, sched, ctx, tok, cancelled, tls, future, rc, outcome>>

\* lance_cancel_token_cancel(tok), then the deferred close(watcherDone).
WatcherFire(c) ==
    /\ watcher[c] = "firing"
    /\ cancelled' = [cancelled EXCEPT ![c] = TRUE]
    /\ watcher' = [watcher EXCEPT ![c] = "finished"]
    /\ UNCHANGED <<pc, sched, ctx, tok, tls, future, rc, outcome>>

\* case <-stop:
WatcherStop(c) ==
    /\ watcher[c] = "select"
    /\ Stopped(c)
    /\ watcher' = [watcher EXCEPT ![c] = "finished"]
    /\ UNCHANGED <<pc, sched, ctx, tok, cancelled, tls, future, rc, outcome>>

-----------------------------------------------------------------------------
(* The native function: it drives zero or more futures in sequence, then   *)
(* returns a code, having set or cleared the thread's last error.          *)

\* No callback is occupying the thread that drives c's future.
DriverFree(c) == \A n \in Calls \ {c} : thr[n] # thr[c]

\* block_on_cancellable captures the thread's token before entering the
\* runtime; the plain block_on of a migration captures none.
BlockOn(c) ==
    /\ pc[c] = "native"
    /\ driven[c] < MaxBlockOn
    /\ racing' = [racing EXCEPT ![c] = IF c \in Migrations THEN NoCall
                                                           ELSE slot[thr[c]]]
    /\ ready' = [ready EXCEPT ![c] = FALSE]
    /\ polled' = [polled EXCEPT ![c] = FALSE]
    /\ driven' = [driven EXCEPT ![c] = @ + 1]
    /\ Goto(c, "driving")
    /\ UNCHANGED <<sched, ctx, token, tls, rc, outcome>>

\* The work behind the future completes; a callback in it has returned.
FutureReady(c) ==
    /\ pc[c] = "driving"
    /\ ~ready[c]
    /\ \A n \in Calls : outer[n] = c => pc[n] = "done"
    /\ ready' = [ready EXCEPT ![c] = TRUE]
    /\ UNCHANGED <<pc, sched, ctx, token, tls, racing, polled, driven, rc, outcome>>

\* select! { biased; out = future => Ok(out), ... }: a poll finds the future
\* complete.
PollReady(c) ==
    /\ pc[c] = "driving"
    /\ DriverFree(c)
    /\ ready[c]
    /\ Goto(c, "native")
    /\ UNCHANGED <<sched, ctx, token, tls, future, rc, outcome>>

\* A poll finds the future pending; only then the select polls the token.
PollPending(c) ==
    /\ pc[c] = "driving"
    /\ DriverFree(c)
    /\ ~ready[c]
    /\ racing[c] # NoCall
    /\ ~polled[c]
    /\ polled' = [polled EXCEPT ![c] = TRUE]
    /\ UNCHANGED <<pc, sched, ctx, token, tls, racing, ready, driven, rc, outcome>>

\* The code the native function returns, with what it does to LAST_ERROR.
Return(c, code) ==
    /\ rc' = [rc EXCEPT ![c] = code]
    /\ lastErr' = [lastErr EXCEPT ![thr[c]] =
                     IF code = "Ok" THEN NoCall ELSE c]
    /\ Goto(c, "ret")

\* ... _ = tok.cancelled() => Err(Cancelled): block_on_cc! records the
\* cancellation and returns from the native function.  The future may have
\* completed since it was polled: its result is dropped with it.
PollCancelled(c) ==
    /\ pc[c] = "driving"
    /\ DriverFree(c)
    /\ polled[c]
    /\ cancelled[racing[c]]
    /\ Return(c, "Cancelled")
    /\ UNCHANGED <<sched, ctx, token, slot, future, outcome>>

\* ok(), or set_error with a mapped code ("Failed"), which is also what
\* ffi_guard does with a contained panic.
NativeReturn(c, code) ==
    /\ pc[c] = "native"
    /\ Return(c, code)
    /\ UNCHANGED <<sched, ctx, token, slot, future, outcome>>

-----------------------------------------------------------------------------
(* ffiCall after the native function: classify, tear down, unlock.         *)

\* Mutant of AfterReturn: a cancelled call returns without the teardown.
AfterReturnUnlessCancelled(c) ==
    IF tok[c] = "none" \/ rc[c] = "Cancelled" THEN "unlock" ELSE "stop"

\* The deferred teardown runs only when a token was created.
AfterReturn(c) == IF tok[c] = "none" THEN "unlock" ELSE "stop"

ReturnNil(c) ==
    /\ pc[c] = "ret"
    /\ rc[c] = "Ok"
    /\ result' = [result EXCEPT ![c] = "nil"]
    /\ Goto(c, AfterReturn(c))
    /\ UNCHANGED <<sched, ctx, token, tls, future, rc, reported>>

\* ERROR_CODE_CANCELLED surfaces as ctx.Err(), else as ErrCanceled.
ReturnCancelled(c) ==
    /\ pc[c] = "ret"
    /\ rc[c] = "Cancelled"
    /\ result' = [result EXCEPT ![c] =
                    IF ctx[c] = "done" THEN "ctx.Err" ELSE "ErrCanceled"]
    /\ Goto(c, AfterReturn(c))
    /\ UNCHANGED <<sched, ctx, token, tls, future, rc, reported>>

\* lastError() reads the slot of the thread the goroutine is on now; an empty
\* slot is code OK, and ffiCall then returns a bare ErrInternal.
ReturnLastError(c) ==
    /\ pc[c] = "ret"
    /\ rc[c] \notin {"Ok", "Cancelled"}
    /\ reported' = [reported EXCEPT ![c] = lastErr[thr[c]]]
    /\ result' = [result EXCEPT ![c] = IF reported'[c] = NoCall THEN "ErrInternal"
                                                              ELSE "lastError"]
    /\ Goto(c, AfterReturn(c))
    /\ UNCHANGED <<sched, ctx, token, tls, future, rc>>

\* close(stop)
CloseStop(c) ==
    /\ pc[c] = "stop"
    /\ Goto(c, "join")
    /\ UNCHANGED <<sched, ctx, token, tls, future, rc, outcome>>

\* Mutant of JoinWatcher: the teardown does not wait for the watcher.
SkipJoin(c) ==
    /\ pc[c] = "join"
    /\ Goto(c, "clear")
    /\ UNCHANGED <<sched, ctx, token, tls, future, rc, outcome>>

\* <-watcherDone
JoinWatcher(c) ==
    /\ pc[c] = "join"
    /\ watcher[c] = "finished"
    /\ Goto(c, "clear")
    /\ UNCHANGED <<sched, ctx, token, tls, future, rc, outcome>>

\* Mutant of ClearSlot: the token stays installed on the thread.
KeepSlot(c) ==
    /\ pc[c] = "clear"
    /\ Goto(c, "free")
    /\ UNCHANGED <<sched, ctx, token, tls, future, rc, outcome>>

\* lance_thread_set_cancel_token(nil)
ClearSlot(c) ==
    /\ pc[c] = "clear"
    /\ slot' = [slot EXCEPT ![thr[c]] = NoCall]
    /\ Goto(c, "free")
    /\ UNCHANGED <<sched, ctx, token, lastErr, future, rc, outcome>>

\* lance_cancel_token_free(tok)
FreeToken(c) ==
    /\ pc[c] = "free"
    /\ tok' = [tok EXCEPT ![c] = "freed"]
    /\ Goto(c, "unlock")
    /\ UNCHANGED <<sched, ctx, cancelled, watcher, tls, future, rc, outcome>>

\* runtime.UnlockOSThread and return; the thread is free for other work.
UnlockOSThread(c) ==
    /\ pc[c] = "unlock"
    /\ locked' = [locked EXCEPT ![c] = FALSE]
    /\ thr' = [thr EXCEPT ![c] = NoThread]
    /\ Goto(c, "done")
    /\ UNCHANGED <<outer, ctx, token, tls, future, rc, outcome>>

-----------------------------------------------------------------------------
\* What the call itself does next.  Completion of the native work is the
\* environment's business (FutureReady); everything else the code performs.
CallStep(c) ==
    \/ LockOSThread(c)
    \/ RejectReentrant(c)
    \/ CheckCtx(c)
    \/ NewToken(c)
    \/ SetToken(c)
    \/ SpawnWatcher(c)
    \/ BlockOn(c)
    \/ PollReady(c)
    \/ PollPending(c)
    \/ PollCancelled(c)
    \/ \E code \in Codes \ {"Cancelled"} : NativeReturn(c, code)
    \/ ReturnNil(c)
    \/ ReturnCancelled(c)
    \/ ReturnLastError(c)
    \/ CloseStop(c)
    \/ JoinWatcher(c)
    \/ ClearSlot(c)
    \/ FreeToken(c)
    \/ UnlockOSThread(c)

WatcherStep(c) == WatcherWake(c) \/ WatcherFire(c) \/ WatcherStop(c)

Environment(c) ==
    \/ CtxDone(c)
    \/ FutureReady(c)
    \/ \E t \in Threads : Begin(c, t) \/ Migrate(c, t)
    \/ \E o \in Calls : \E t \in AnyThread : BeginNested(c, o, t)

Terminated == (\A c \in Calls : pc[c] = "done") /\ UNCHANGED vars

Next == (\E c \in Calls : CallStep(c) \/ WatcherStep(c) \/ Environment(c))
        \/ Terminated

Spec == Init /\ [][Next]_vars

\* The goroutines of the package run whenever they can; nothing is assumed of
\* the native work, of contexts or of the application.
Fairness == \A c \in Calls : WF_vars(CallStep(c)) /\ WF_vars(WatcherStep(c))

FairSpec == Spec /\ Fairness

-----------------------------------------------------------------------------
(* Properties.                                                             *)

InTokenWindow(c) ==
    pc[c] \in {"spawn", "native", "driving", "ret", "stop", "join", "clear"}

\* The watcher never hands a freed token to lance_cancel_token_cancel: the
\* teardown joins it before it frees ("watcher can no longer touch tok").
NoUseAfterFree == \A c \in Calls : watcher[c] \in {"select", "firing"} => tok[c] = "live"

\* A token sits in a thread's slot only while the call that installed it owns
\* that thread: a later call on the reused thread cannot be cancelled by it.
SlotBelongsToCall ==
    \A t \in AnyThread : slot[t] # NoCall =>
        thr[slot[t]] = t /\ InTokenWindow(slot[t])

\* ERROR_CODE_CANCELLED means this call's context is done, so neither
\* ErrCanceled nor the ErrInternal fallback of ffiCall is ever returned; a
\* call with a background context, or a migration, is never cancelled.
CancelledOnlyByOwnCtx ==
    \A c \in Calls :
        /\ rc[c] = "Cancelled" => ctx[c] = "done" /\ c \notin Migrations
        /\ result[c] \notin {"ErrCanceled", "ErrInternal"}

\* lastError() reports the error that this call's native function recorded,
\* never one another call left in the slot of a shared thread (pinning).
LastErrorIsOwn ==
    \A c \in Calls : result[c] = "lastError" => reported[c] = c /\ rc[c] = "Failed"

\* No call drives the runtime from a thread that is already inside it, which
\* would panic in tokio: such calls were rejected with ErrReentrantCall.
NoNestedBlockOn ==
    \A c \in Calls : pc[c] = "driving" =>
        /\ thr[c] \in Threads
        /\ \A o \in Calls : pc[o] = "driving" /\ thr[o] = thr[c] => o = c

\* A call made by a callback returns ErrReentrantCall and nothing else.
NestedRejected ==
    \A c \in Calls : pc[c] = "done" /\ outer[c] # NoCall =>
        result[c] = "ErrReentrantCall"

\* When ffiCall returns nothing is left behind: its watcher has finished, its
\* token is freed, and an unused thread has an empty slot.
NothingLeaks ==
    /\ \A c \in Calls : pc[c] = "done" =>
          tok[c] # "live" /\ watcher[c] \in {"none", "finished"}
    /\ \A t \in AnyThread : Vacant(t) => slot[t] = NoCall

\* A cancellation is never lost: while a cancellable call drives a future and
\* its context is done, its watcher has yet to cancel the token, or the token
\* is cancelled and the future is racing this very token.
CancelReaches ==
    \A c \in Calls \ Migrations : pc[c] = "driving" /\ ctx[c] = "done" =>
        \/ watcher[c] \in {"select", "firing"}
        \/ cancelled[c] /\ racing[c] = c

\* How far ffiCall is, and what its caller will get: what the native function
\* said as soon as that has returned, the returned error from then on.
Stage(c) ==
    CASE pc[c] = "idle" -> "idle"
      [] pc[c] \in {"start", "reentrant?", "ctx?", "newtoken", "settoken", "spawn"} -> "called"
      [] pc[c] \in {"native", "driving"} -> "inside"
      [] pc[c] = "done" -> "returned"
      [] OTHER -> "answered"

Outcome(c) ==
    CASE Stage(c) \in {"idle", "called", "inside"} -> "none"
      [] pc[c] = "ret" -> (CASE rc[c] = "Ok" -> "ok"
                             [] rc[c] = "Cancelled" -> "ended"
                             [] OTHER -> "failed")
      [] OTHER -> (CASE result[c] = "nil" -> "ok"
                     [] result[c] = "ctx.Err" -> "ended"
                     [] result[c] = "ErrReentrantCall" -> "reentrant"
                     [] result[c] = "lastError" /\ reported[c] = c -> "failed"
                     [] OTHER -> "unexplained")

\* ffiCall keeps the promise of NativeCall: in particular the error it returns
\* is what the native function of the same call said.
Promise == INSTANCE NativeCall WITH
    Uncancellable <- Migrations,
    stage <- [c \in Calls |-> Stage(c)],
    inner <- [c \in Calls |-> outer[c] # NoCall],
    ended <- [c \in Calls |-> ctx[c] = "done"],
    outcome <- [c \in Calls |-> Outcome(c)]

ImplementsCall == Promise!Spec

\* How many steps a call can still take, at most.
StepsLeft(c) ==
    CASE pc[c] = "idle" -> 3 * MaxBlockOn + 16
      [] pc[c] = "start" -> 3 * MaxBlockOn + 15
      [] pc[c] = "reentrant?" -> 3 * MaxBlockOn + 14
      [] pc[c] = "ctx?" -> 3 * MaxBlockOn + 13
      [] pc[c] = "newtoken" -> 3 * MaxBlockOn + 12
      [] pc[c] = "settoken" -> 3 * MaxBlockOn + 11
      [] pc[c] = "spawn" -> 3 * MaxBlockOn + 10
      [] pc[c] = "driving" -> 3 * (MaxBlockOn - driven[c]) + IF polled[c] THEN 9 ELSE 10
      [] pc[c] = "native" -> 3 * (MaxBlockOn - driven[c]) + 8
      [] pc[c] = "ret" -> 7
      [] pc[c] = "stop" -> 6
      [] pc[c] = "join" -> 5
      [] pc[c] = "clear" -> 4
      [] pc[c] = "free" -> 3
      [] pc[c] = "unlock" -> 2
      [] OTHER -> 1

\* No step of any call, watcher or scheduler sets a call back, and each of its
\* own steps brings it closer to its return.
CallAdvances ==
    [][\A c \in Calls :
          /\ StepsLeft(c)' <= StepsLeft(c)
          /\ CallStep(c) => StepsLeft(c)' < StepsLeft(c)]_vars

\* Cancelling the context ends the call even if the native work never
\* completes; a migration is the documented exception.
CancelEndsCall ==
    \A c \in Calls \ Migrations :
        (pc[c] # "idle" /\ ctx[c] = "done") ~> (pc[c] = "done")

-----------------------------------------------------------------------------
(* The inductive invariant behind the safety properties.                   *)

NotOnThread == {"idle", "done"}
BeforeToken == {"idle", "start", "reentrant?", "ctx?", "newtoken"}
BeforeReturn == BeforeToken \cup {"settoken", "spawn", "native", "driving"}

\* A call is on a thread exactly while it runs, and locked to it from
\* LockOSThread to UnlockOSThread.  Two calls are on one thread only when one
\* was made by a callback of the other, which is still driving its future.
ThreadInv ==
    /\ \A c \in Calls :
          /\ thr[c] = NoThread <=> pc[c] \in NotOnThread
          /\ locked[c] <=> pc[c] \notin NotOnThread \cup {"start"}
          /\ outer[c] = NoCall => thr[c] \in Threads \cup {NoThread}
    /\ \A c, d \in Calls :
          c # d /\ thr[c] = thr[d] /\ thr[c] # NoThread =>
              \/ outer[c] = d /\ pc[d] = "driving"
              \/ outer[d] = c /\ pc[c] = "driving"

\* A nested call never gets past the re-entrancy check.
NestedInv ==
    \A c \in Calls : outer[c] # NoCall =>
        /\ pc[c] \in {"start", "reentrant?", "unlock", "done"}
        /\ pc[c] \in {"start", "reentrant?"} => InTokioRuntime(thr[c])
        /\ pc[c] \in {"unlock", "done"} => result[c] = "ErrReentrantCall"

\* Which token and watcher a call has, by where it is.
TokenInv ==
    \A c \in Calls :
        /\ pc[c] \in BeforeToken => tok[c] = "none" /\ watcher[c] = "none"
        /\ pc[c] \in {"settoken", "spawn"} => tok[c] = "live" /\ watcher[c] = "none"
        /\ pc[c] \in {"native", "driving", "ret"} =>
              (tok[c] = "live" <=> watcher[c] # "none") /\ tok[c] # "freed"
        /\ pc[c] \in {"stop", "join"} => tok[c] = "live" /\ watcher[c] # "none"
        /\ pc[c] \in {"clear", "free"} => tok[c] = "live" /\ watcher[c] = "finished"
        /\ pc[c] \in {"unlock", "done"} =>
              tok[c] # "live" /\ watcher[c] \in {"none", "finished"}

\* What is in a slot is the live token of a call that owns the thread.
SlotInv ==
    /\ SlotBelongsToCall
    /\ \A t \in AnyThread : slot[t] # NoCall => tok[slot[t]] = "live"

\* A token is cancelled only after its context is done, and only that token
\* can be in a race with the call's future.
RaceInv ==
    \A c \in Calls :
        /\ watcher[c] = "firing" \/ cancelled[c] => ctx[c] = "done"
        /\ racing[c] \in {NoCall, c}
        /\ c \in Migrations => racing[c] = NoCall
        /\ polled[c] => racing[c] = c

\* The code and the error of a call, by where it is.
OutcomeInv ==
    \A c \in Calls :
        /\ pc[c] \in BeforeReturn => rc[c] = "Ok"
        /\ pc[c] \in BeforeReturn \cup {"ret"} /\ outer[c] = NoCall =>
              result[c] = "pending"
        /\ pc[c] = "ret" /\ rc[c] # "Ok" =>
              lastErr[thr[c]] = c

\* Why a cancellation reaches the future: without a token the context cannot
\* end, the token stays in the slot of the call's thread, every future races
\* it, and before the teardown only firing ends the watcher.
CancelInv ==
    \A c \in Calls :
        /\ pc[c] \in {"native", "driving"} /\ tok[c] = "none" => ctx[c] = "background"
        /\ InTokenWindow(c) /\ tok[c] = "live" => slot[thr[c]] = c
        /\ pc[c] = "driving" /\ tok[c] = "live" /\ c \notin Migrations => racing[c] = c
        /\ watcher[c] = "finished" /\ ~Stopped(c) => cancelled[c]
        /\ driven[c] <= MaxBlockOn

IInv ==
    /\ TypeOK
    /\ ThreadInv
    /\ NestedInv
    /\ TokenInv
    /\ SlotInv
    /\ RaceInv
    /\ OutcomeInv
    /\ CancelledOnlyByOwnCtx
    /\ LastErrorIsOwn
=============================================================================
