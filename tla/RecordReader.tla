---------------------------- MODULE RecordReader ----------------------------
(***************************************************************************)
(* ownedRecordReader (lance/reader.go): a reference-counted reader over an *)
(* Arrow C stream exported by the native library.  Goroutines share it:    *)
(* one may be blocked in Next while another drops the last reference, the  *)
(* context ends, or all of them forget the reader and leave it to the      *)
(* finalizer.                                                              *)
(*                                                                         *)
(* get_next blocks in the native library, so Next is two steps with r.mu   *)
(* held between them.  Release drops the count and then, if that was the   *)
(* last reference, waits for r.mu in forceRelease: also two steps.         *)
(***************************************************************************)
EXTENDS Naturals

CONSTANTS
    Users,      \* goroutines that share the reader
    NoUser,     \* r.mu is free
    Batches,    \* how many batches the native stream holds
    MaxRefs     \* bound on the reference count

ASSUME ReaderAssumption ==
    /\ NoUser \notin Users
    /\ Batches \in Nat
    /\ MaxRefs \in Nat

VARIABLES
    pc,         \* what each goroutine is doing with the reader
    refs,       \* r.refs
    phase,      \* being opened, in use, or forgotten by every goroutine
    mu,         \* who holds r.mu
    stream,     \* r.stream is not nil
    current,    \* r.current: 0 for nil, else the number of the batch
    err,        \* r.err
    released,   \* r.released
    finalizer,  \* runtime.SetFinalizer is in effect
    ctxDone,    \* r.ctx is done
    rows,       \* r.rows, one row per batch
    live,       \* imported batches that have not been released
    frees,      \* how often lance_go_stream_release ran
    finished,   \* r.finished
    finishes,   \* how often r.finish was called
    span        \* the error and the rows it was called with last

batch == <<current, rows, live>>
closed == <<stream, frees, finished, finishes, span>>
vars == <<pc, refs, phase, mu, batch, closed, err, released, finalizer, ctxDone>>

Errors == {"none", "open", "ctx.Err", "stream", "import"}

\* Every variable has its type.
TypeOK ==
    /\ pc \in [Users -> {"idle", "get_next", "release"}]
    /\ refs \in Nat
    /\ phase \in {"opening", "shared", "forgotten"}
    /\ mu \in Users \cup {NoUser}
    /\ stream \in BOOLEAN
    /\ current \in Nat
    /\ err \in Errors
    /\ released \in BOOLEAN
    /\ finalizer \in BOOLEAN
    /\ ctxDone \in BOOLEAN
    /\ rows \in Nat
    /\ live \subseteq Nat
    /\ frees \in Nat
    /\ finished \in BOOLEAN
    /\ finishes \in Nat
    /\ span \in Errors \X Nat

\* The native call has filled the stream that newOwnedRecordReader takes over.
Init ==
    /\ pc = [u \in Users |-> "idle"]
    /\ refs = 0
    /\ phase = "opening"
    /\ mu = NoUser
    /\ stream = TRUE
    /\ current = 0
    /\ err = "none"
    /\ released = FALSE
    /\ finalizer = FALSE
    /\ ctxDone = FALSE
    /\ rows = 0
    /\ live = {}
    /\ frees = 0
    /\ finished = FALSE
    /\ finishes = 0
    /\ span = <<"none", 0>>

Goto(u, l) == pc' = [pc EXCEPT ![u] = l]

\* Mutant of CloseStreamLocked: r.stream is not set to nil.
CloseStreamKeepsPointer ==
    IF stream THEN frees' = frees + 1 /\ UNCHANGED stream ELSE UNCHANGED <<stream, frees>>

CloseStreamLocked ==
    IF stream THEN stream' = FALSE /\ frees' = frees + 1 ELSE UNCHANGED <<stream, frees>>

\* Mutant of FinishLocked: r.finished is not set.
FinishForgets(e) ==
    IF finished THEN UNCHANGED <<finished, finishes, span>>
    ELSE /\ UNCHANGED finished
         /\ finishes' = finishes + 1
         /\ span' = <<e, rows>>

FinishLocked(e) ==
    IF finished THEN UNCHANGED <<finished, finishes, span>>
    ELSE /\ finished' = TRUE
         /\ finishes' = finishes + 1
         /\ span' = <<e, rows>>

CloseAndFinish(e) == CloseStreamLocked /\ FinishLocked(e)

-----------------------------------------------------------------------------
(* Opening.                                                                *)

\* newOwnedRecordReader succeeds: the caller has the one reference.
NewOwnedRecordReader ==
    /\ phase = "opening"
    /\ phase' = "shared"
    /\ refs' = 1
    /\ finalizer' = TRUE
    /\ UNCHANGED <<pc, mu, batch, closed, err, released, ctxDone>>

\* Mutant of OpenFails: the deferred release is missing.
OpenLeaksStream ==
    /\ phase = "opening"
    /\ phase' = "forgotten"
    /\ err' = "open"
    /\ FinishLocked("open")
    /\ UNCHANGED <<pc, refs, mu, batch, stream, frees, released, finalizer, ctxDone>>

\* The schema cannot be read or imported: the deferred cleanup releases the
\* stream and endOnError closes the span, since no reader will.
OpenFails ==
    /\ phase = "opening"
    /\ phase' = "forgotten"
    /\ err' = "open"
    /\ CloseAndFinish("open")
    /\ UNCHANGED <<pc, refs, mu, batch, released, finalizer, ctxDone>>

-----------------------------------------------------------------------------
(* Next.                                                                   *)

\* The previous batch is released, then the context is checked, then get_next
\* is entered.  A reader that is released, closed or failed changes nothing.
NextEnter(u) ==
    /\ phase = "shared"
    /\ pc[u] = "idle"
    /\ mu = NoUser
    /\ ~released /\ stream /\ err = "none"
    /\ current' = 0
    /\ live' = live \ {current}
    /\ IF ctxDone
       THEN /\ err' = "ctx.Err"
            /\ CloseAndFinish("ctx.Err")
            /\ UNCHANGED <<pc, mu>>
       ELSE /\ mu' = u
            /\ Goto(u, "get_next")
            /\ UNCHANGED <<closed, err>>
    /\ UNCHANGED <<refs, phase, rows, released, finalizer, ctxDone>>

Unlock(u) ==
    /\ pc[u] = "get_next"
    /\ mu' = NoUser
    /\ Goto(u, "idle")
    /\ UNCHANGED <<refs, phase, released, finalizer, ctxDone>>

\* get_next produced a batch and it was imported.
NextBatch(u) ==
    /\ Unlock(u)
    /\ rows < Batches
    /\ rows' = rows + 1
    /\ current' = rows + 1
    /\ live' = live \cup {rows + 1}
    /\ UNCHANGED <<closed, err>>

\* get_next reported the end of the stream.
NextEnd(u) ==
    /\ Unlock(u)
    /\ rows = Batches
    /\ CloseAndFinish("none")
    /\ UNCHANGED <<batch, err>>

\* get_next failed, or its batch could not be imported and was released.
NextError(u, e) ==
    /\ Unlock(u)
    /\ e = "import" => rows < Batches
    /\ err' = e
    /\ CloseAndFinish(e)
    /\ UNCHANGED batch

-----------------------------------------------------------------------------
(* References.                                                             *)

Retain(u) ==
    /\ phase = "shared"
    /\ pc[u] = "idle"
    /\ 0 < refs /\ refs < MaxRefs
    /\ refs' = refs + 1
    /\ UNCHANGED <<pc, phase, mu, batch, closed, err, released, finalizer, ctxDone>>

\* refs.Add(-1): the goroutine that drops the last reference must release.
Release(u) ==
    /\ phase = "shared"
    /\ pc[u] = "idle"
    /\ 0 < refs
    /\ refs' = refs - 1
    /\ Goto(u, IF refs = 1 THEN "release" ELSE "idle")
    /\ UNCHANGED <<phase, mu, batch, closed, err, released, finalizer, ctxDone>>

\* The body of forceRelease, under r.mu.
ReleaseLocked ==
    /\ released' = TRUE
    /\ finalizer' = FALSE
    /\ current' = 0
    /\ live' = live \ {current}
    /\ CloseAndFinish(err)
    /\ UNCHANGED <<refs, phase, mu, err, rows, ctxDone>>

\* Mutants of ForceRelease: it does not take r.mu; it gives up if r.mu is held.
ForceReleaseUnlocked(u) ==
    /\ pc[u] = "release"
    /\ Goto(u, "idle")
    /\ ReleaseLocked
ForceReleaseIfIdle(u) ==
    /\ pc[u] = "release"
    /\ Goto(u, "idle")
    /\ IF mu = NoUser THEN ReleaseLocked
       ELSE UNCHANGED <<refs, phase, mu, batch, closed, err, released,
                        finalizer, ctxDone>>

ForceRelease(u) ==
    /\ pc[u] = "release"
    /\ mu = NoUser
    /\ Goto(u, "idle")
    /\ IF released THEN UNCHANGED <<refs, phase, mu, batch, closed, err, released,
                                   finalizer, ctxDone>>
       ELSE ReleaseLocked

\* Every goroutine drops the reader without a Release (it is not in use).
Forget ==
    /\ phase = "shared"
    /\ \A u \in Users : pc[u] = "idle"
    /\ phase' = "forgotten"
    /\ UNCHANGED <<pc, refs, mu, batch, closed, err, released, finalizer, ctxDone>>

Finalize ==
    /\ phase = "forgotten"
    /\ finalizer
    /\ UNCHANGED pc
    /\ ReleaseLocked

CtxDone ==
    /\ ~ctxDone
    /\ ctxDone' = TRUE
    /\ UNCHANGED <<pc, refs, phase, mu, batch, closed, err, released, finalizer>>

-----------------------------------------------------------------------------
\* What goroutines do once they have called Next or the last Release; the
\* native library answers get_next.
UserStep(u) ==
    \/ NextBatch(u)
    \/ NextEnd(u)
    \/ \E e \in {"stream", "import"} : NextError(u, e)
    \/ ForceRelease(u)

Application(u) == NextEnter(u) \/ Retain(u) \/ Release(u)

Terminated == phase = "forgotten" /\ ~finalizer /\ UNCHANGED vars

Next ==
    \/ \E u \in Users : UserStep(u) \/ Application(u)
    \/ NewOwnedRecordReader
    \/ OpenFails
    \/ Forget
    \/ Finalize
    \/ CtxDone
    \/ Terminated

Spec == Init /\ [][Next]_vars

FairSpec == Spec /\ \A u \in Users : WF_vars(UserStep(u))

-----------------------------------------------------------------------------
(* Properties.                                                             *)

\* get_next only ever runs on a stream that has not been released, although
\* another goroutine may drop the last reference meanwhile (r.mu).
NoUseAfterFree == \A u \in Users : pc[u] = "get_next" => stream /\ frees = 0

\* The native stream is freed as soon as the reader has ended or is released,
\* and only once.
FreedExactlyOnce ==
    /\ frees = (IF stream THEN 0 ELSE 1)
    /\ (released \/ err # "none" \/ finished) => ~stream

\* The span is closed exactly when the stream is, with the error and the row
\* count that Err and the batches show from then on.
SpanAgrees ==
    /\ finishes = frees
    /\ finishes > 0 => span = <<err, rows>>

\* The reader keeps at most the batch it last handed out, and nothing once it
\* has ended or is released.
NoBatchLeak == live = (IF current = 0 THEN {} ELSE {current}) /\ (~stream => live = {})

\* Dropping the last reference frees the native stream, even while another
\* goroutine is inside Next.
LastReleaseFrees == (refs = 0 /\ phase = "shared") ~> (frees = 1)

\* The reader implements the promise of BatchStream.
Promise == INSTANCE BatchStream WITH
    Outcomes <- {<<e, n>> : e \in Errors, n \in 0 .. Batches},
    open <- stream,
    delivered <- rows,
    outcome <- IF finishes = 0 THEN <<>> ELSE span

ImplementsPromise == Promise!Spec

\* The safety half of LastReleaseFrees: when the count of a reader in use is zero
\* and its stream is still open, some goroutine is on its way into forceRelease;
\* the duty to free the stream is never lost between the two steps of Release.
ReleaseOwed ==
    refs = 0 /\ phase = "shared" /\ stream => \E u \in Users : pc[u] = "release"

\* What is left of an open stream: two steps for each batch to come, and for its end.
Left == IF stream THEN 2 * (Batches - rows) + (IF mu = NoUser THEN 2 ELSE 1) ELSE 0

\* A reader comes to its end: every step that Next or forceRelease takes on an open
\* stream brings the end closer, and nothing any goroutine does sets it back.  So
\* goroutines that go on calling Next cannot hold up a forceRelease for ever.
ReaderAdvances ==
    [][ /\ Left' <= Left
        /\ \A u \in Users : stream /\ (NextEnter(u) \/ UserStep(u)) => Left' < Left ]_vars

-----------------------------------------------------------------------------
(* The inductive invariant behind the theorems of RecordReaderProofs.      *)

\* r.mu is held exactly by the goroutine inside get_next, and only while the
\* reader is in use.
LockInv ==
    /\ \A u \in Users : pc[u] = "get_next" <=> mu = u
    /\ phase # "shared" => \A u \in Users : pc[u] = "idle"

\* A reader that is still being iterated has not ended in any way.
StreamInv ==
    /\ (mu # NoUser) => (stream /\ ~released /\ err = "none" /\ current = 0)
    /\ stream => (~finished /\ frees = 0 /\ finishes = 0 /\ err = "none" /\ ~released)
    /\ ~stream => (finished /\ frees = 1 /\ finishes = 1 /\ span = <<err, rows>> /\ current = 0)
    /\ phase = "opening" => (stream /\ rows = 0 /\ current = 0)
    /\ rows <= Batches

IInv == TypeOK /\ LockInv /\ StreamInv /\ NoBatchLeak
=============================================================================
