------------------------- MODULE RecordReaderProofs -------------------------
(***************************************************************************)
(* Theorems about RecordReader, for any number of goroutines, batches and  *)
(* references.  Each action preserves IInv; the properties follow from it. *)
(***************************************************************************)
EXTENDS RecordReader, TLAPS

LEMMA InitInv == Init => IInv
<1> SUFFICES ASSUME Init PROVE IInv
  OBVIOUS
<1> USE ReaderAssumption DEF Init
<1>1. TypeOK
  BY Zenon DEF TypeOK, Errors
<1>2. LockInv
  BY DEF LockInv
<1>3. StreamInv /\ NoBatchLeak
  BY DEF StreamInv, NoBatchLeak
<1> QED
  BY <1>1, <1>2, <1>3 DEF IInv

\* On an open stream, closeStreamLocked and finishLocked both act.
LEMMA ClosesOpen ==
  ASSUME StreamInv, stream, NEW e, CloseAndFinish(e)
  PROVE  /\ stream' = FALSE /\ finished' = TRUE
         /\ frees' = 1 /\ finishes' = 1 /\ span' = <<e, rows>>
  BY DEF StreamInv, CloseAndFinish, CloseStreamLocked, FinishLocked

\* On a closed stream, neither does.
LEMMA ClosesClosed ==
  ASSUME StreamInv, ~stream, NEW e, CloseAndFinish(e)
  PROVE  UNCHANGED closed
  BY DEF StreamInv, CloseAndFinish, CloseStreamLocked, FinishLocked, closed

LEMMA NextEnterStep ==
  ASSUME IInv, NEW u \in Users, NextEnter(u)
  PROVE  IInv'
<1> USE ReaderAssumption DEF IInv
<1>a. stream /\ mu = NoUser /\ ~released /\ err = "none" /\ phase = "shared"
  BY DEF NextEnter
<1>b. current' = 0 /\ live' = {} /\ rows' = rows
  BY DEF NextEnter, NoBatchLeak
<1>c. UNCHANGED <<refs, phase, released, finalizer, ctxDone>>
  BY DEF NextEnter
<1>1. CASE ctxDone
  <2>a. err' = "ctx.Err" /\ UNCHANGED <<pc, mu>> /\ CloseAndFinish("ctx.Err")
    BY <1>1 DEF NextEnter
  <2>b. /\ stream' = FALSE /\ finished' = TRUE
        /\ frees' = 1 /\ finishes' = 1 /\ span' = <<"ctx.Err", rows>>
    BY <1>a, <2>a, ClosesOpen, Zenon
  <2>1. TypeOK'
    BY <1>b, <1>c, <2>a, <2>b, Zenon DEF TypeOK, Errors
  <2>2. LockInv'
    BY <1>c, <2>a DEF LockInv
  <2>3. StreamInv'
    BY <1>a, <1>b, <1>c, <2>a, <2>b DEF StreamInv
  <2>4. NoBatchLeak'
    BY <1>b DEF NoBatchLeak
  <2> QED
    BY <2>1, <2>2, <2>3, <2>4
<1>2. CASE ~ctxDone
  <2>a. mu' = u /\ Goto(u, "get_next") /\ UNCHANGED <<closed, err>>
    BY <1>2 DEF NextEnter
  <2>b. UNCHANGED <<stream, frees, finished, finishes, span>>
    BY <2>a DEF closed
  <2>1. TypeOK'
    BY <1>b, <1>c, <2>a, <2>b DEF TypeOK, Goto
  <2>2. LockInv'
    BY <1>a, <1>c, <2>a DEF TypeOK, LockInv, Goto
  <2>3. StreamInv'
    BY <1>a, <1>b, <1>c, <2>a, <2>b DEF StreamInv
  <2>4. NoBatchLeak'
    BY <1>b DEF NoBatchLeak
  <2> QED
    BY <2>1, <2>2, <2>3, <2>4
<1> QED
  BY <1>1, <1>2

LEMMA NextBatchStep ==
  ASSUME IInv, NEW u \in Users, NextBatch(u)
  PROVE  IInv'
<1> USE ReaderAssumption DEF IInv, NextBatch, Unlock, Goto, batch, closed
<1>1. TypeOK'
  BY DEF TypeOK, StreamInv, Errors
<1>2. LockInv'
  BY DEF TypeOK, LockInv, StreamInv
<1>3. StreamInv'
  BY DEF TypeOK, LockInv, StreamInv
<1>4. NoBatchLeak'
  BY DEF TypeOK, LockInv, StreamInv, NoBatchLeak
<1> QED
  BY <1>1, <1>2, <1>3, <1>4

LEMMA NextEndStep ==
  ASSUME IInv, NEW u \in Users, NextEnd(u)
  PROVE  IInv'
<1> USE ReaderAssumption DEF IInv
<1>a. pc[u] = "get_next" /\ mu' = NoUser /\ Goto(u, "idle")
      /\ UNCHANGED <<refs, phase, released, finalizer, ctxDone, batch>>
  BY DEF NextEnd, Unlock
<1>b. UNCHANGED <<current, rows, live>>
  BY <1>a DEF batch
<1>c. mu = u /\ stream /\ ~released /\ err = "none" /\ current = 0 /\ phase = "shared"
  BY <1>a DEF LockInv, StreamInv
<1>d. err' = "none" /\ CloseAndFinish("none")
  BY <1>c DEF NextEnd
<1>e. /\ stream' = FALSE /\ finished' = TRUE
      /\ frees' = 1 /\ finishes' = 1 /\ span' = <<"none", rows>>
  BY <1>c, <1>d, ClosesOpen, Zenon
<1>1. TypeOK'
  BY <1>a, <1>b, <1>d, <1>e, Zenon DEF TypeOK, Errors, Goto
<1>2. LockInv'
  BY <1>a, <1>c DEF TypeOK, LockInv, Goto
<1>3. StreamInv'
  BY <1>a, <1>b, <1>c, <1>d, <1>e DEF StreamInv
<1>4. NoBatchLeak'
  BY <1>b, <1>c DEF NoBatchLeak
<1> QED
  BY <1>1, <1>2, <1>3, <1>4

LEMMA NextErrorStep ==
  ASSUME IInv, NEW u \in Users, NEW e \in {"stream", "import"}, NextError(u, e)
  PROVE  IInv'
<1> USE ReaderAssumption DEF IInv
<1>a. pc[u] = "get_next" /\ mu' = NoUser /\ Goto(u, "idle")
      /\ UNCHANGED <<refs, phase, released, finalizer, ctxDone, batch>>
  BY DEF NextError, Unlock
<1>b. UNCHANGED <<current, rows, live>>
  BY <1>a DEF batch
<1>c. mu = u /\ stream /\ ~released /\ err = "none" /\ current = 0 /\ phase = "shared"
  BY <1>a DEF LockInv, StreamInv
<1>d. err' = e /\ CloseAndFinish(e)
  BY <1>c DEF NextError
<1>e. /\ stream' = FALSE /\ finished' = TRUE
      /\ frees' = 1 /\ finishes' = 1 /\ span' = <<e, rows>>
  BY <1>c, <1>d, ClosesOpen, Zenon
<1>1. TypeOK'
  BY <1>a, <1>b, <1>d, <1>e, Zenon DEF TypeOK, Errors, Goto
<1>2. LockInv'
  BY <1>a, <1>c DEF TypeOK, LockInv, Goto
<1>3. StreamInv'
  BY <1>a, <1>b, <1>c, <1>d, <1>e DEF StreamInv
<1>4. NoBatchLeak'
  BY <1>b, <1>c DEF NoBatchLeak
<1> QED
  BY <1>1, <1>2, <1>3, <1>4

LEMMA RetainStep ==
  ASSUME IInv, NEW u \in Users, Retain(u)
  PROVE  IInv'
<1> USE ReaderAssumption DEF IInv, Retain, batch, closed
<1>1. TypeOK'
  BY DEF TypeOK, StreamInv, Errors
<1>2. LockInv'
  BY DEF TypeOK, LockInv, StreamInv
<1>3. StreamInv'
  BY DEF TypeOK, LockInv, StreamInv
<1>4. NoBatchLeak'
  BY DEF TypeOK, LockInv, StreamInv, NoBatchLeak
<1> QED
  BY <1>1, <1>2, <1>3, <1>4

LEMMA ReleaseStep ==
  ASSUME IInv, NEW u \in Users, Release(u)
  PROVE  IInv'
<1> USE ReaderAssumption DEF IInv, Release, Goto, batch, closed
<1>1. TypeOK'
  BY DEF TypeOK, StreamInv, Errors
<1>2. LockInv'
  BY DEF TypeOK, LockInv, StreamInv
<1>3. StreamInv'
  BY DEF TypeOK, LockInv, StreamInv
<1>4. NoBatchLeak'
  BY DEF TypeOK, LockInv, StreamInv, NoBatchLeak
<1> QED
  BY <1>1, <1>2, <1>3, <1>4

\* The body of forceRelease preserves all but the goroutines' part of IInv.
LEMMA ReleaseLockedStep ==
  ASSUME IInv, mu = NoUser, phase # "opening", pc' \in [Users -> {"idle", "get_next", "release"}],
         ReleaseLocked
  PROVE  TypeOK' /\ StreamInv' /\ NoBatchLeak'
<1> USE ReaderAssumption DEF IInv
<1>a. /\ released' = TRUE /\ finalizer' = FALSE /\ current' = 0 /\ live' = {}
      /\ UNCHANGED <<refs, phase, mu, err, rows, ctxDone>>
  BY DEF ReleaseLocked, NoBatchLeak
<1>b. CloseAndFinish(err)
  BY DEF ReleaseLocked
<1>c. /\ stream' = FALSE /\ finished' = TRUE
      /\ frees' = 1 /\ finishes' = 1 /\ span' = <<err, rows>>
  <2>1. CASE stream
    BY <1>b, <2>1, ClosesOpen, Zenon
  <2>2. CASE ~stream
    BY <1>b, <2>2, ClosesClosed, Zenon DEF closed, StreamInv, TypeOK
  <2> QED
    BY <2>1, <2>2, Zenon
<1>1. TypeOK'
  BY <1>a, <1>c, Zenon DEF TypeOK
<1>2. StreamInv'
  BY <1>a, <1>c DEF StreamInv
<1>3. NoBatchLeak'
  BY <1>a DEF NoBatchLeak
<1> QED
  BY <1>1, <1>2, <1>3

LEMMA ForceReleaseStep ==
  ASSUME IInv, NEW u \in Users, ForceRelease(u)
  PROVE  IInv'
<1> USE ReaderAssumption DEF IInv
<1>a. pc[u] = "release" /\ mu = NoUser /\ Goto(u, "idle")
  BY DEF ForceRelease
<1>b. phase = "shared"
  BY <1>a DEF LockInv
<1>c. pc' \in [Users -> {"idle", "get_next", "release"}]
  BY <1>a DEF TypeOK, Goto
<1>d. UNCHANGED <<mu, phase>>
  BY DEF ForceRelease, ReleaseLocked
<1>1. LockInv'
  BY <1>a, <1>b, <1>d DEF TypeOK, LockInv, Goto
<1>2. CASE released
  <2>1. UNCHANGED <<refs, batch, closed, err, released, finalizer, ctxDone>>
    BY <1>2 DEF ForceRelease
  <2>2. TypeOK' /\ StreamInv' /\ NoBatchLeak'
    BY <1>c, <1>d, <2>1 DEF TypeOK, StreamInv, NoBatchLeak, batch, closed
  <2> QED
    BY <1>1, <2>2
<1>3. CASE ~released
  <2>1. ReleaseLocked
    BY <1>3 DEF ForceRelease
  <2> QED
    BY <1>a, <1>b, <1>c, <1>1, <2>1, ReleaseLockedStep
<1> QED
  BY <1>2, <1>3

LEMMA NewOwnedRecordReaderStep ==
  ASSUME IInv, NewOwnedRecordReader
  PROVE  IInv'
<1> USE ReaderAssumption DEF IInv, NewOwnedRecordReader, batch, closed
<1>1. TypeOK'
  BY DEF TypeOK, StreamInv, Errors
<1>2. LockInv'
  BY DEF TypeOK, LockInv, StreamInv
<1>3. StreamInv'
  BY DEF TypeOK, LockInv, StreamInv
<1>4. NoBatchLeak'
  BY DEF TypeOK, LockInv, StreamInv, NoBatchLeak
<1> QED
  BY <1>1, <1>2, <1>3, <1>4

LEMMA OpenFailsStep ==
  ASSUME IInv, OpenFails
  PROVE  IInv'
<1> USE ReaderAssumption DEF IInv
<1>a. /\ phase = "opening" /\ phase' = "forgotten" /\ err' = "open"
      /\ UNCHANGED <<pc, refs, mu, current, rows, live, released, finalizer, ctxDone>>
  BY DEF OpenFails, batch
<1>b. stream /\ CloseAndFinish("open")
  BY <1>a DEF OpenFails, StreamInv
<1>c. /\ stream' = FALSE /\ finished' = TRUE
      /\ frees' = 1 /\ finishes' = 1 /\ span' = <<"open", rows>>
  BY <1>b, ClosesOpen, Zenon
<1>d. mu = NoUser
  BY <1>a DEF LockInv, TypeOK
<1>1. TypeOK'
  BY <1>a, <1>c, Zenon DEF TypeOK, Errors
<1>2. LockInv'
  BY <1>a DEF LockInv
<1>3. StreamInv'
  BY <1>a, <1>c, <1>d DEF StreamInv
<1>4. NoBatchLeak'
  BY <1>a, <1>c DEF NoBatchLeak, StreamInv
<1> QED
  BY <1>1, <1>2, <1>3, <1>4

LEMMA ForgetStep ==
  ASSUME IInv, Forget
  PROVE  IInv'
<1> USE ReaderAssumption DEF IInv, Forget, batch, closed
<1>1. TypeOK'
  BY DEF TypeOK, StreamInv, Errors
<1>2. LockInv'
  BY DEF TypeOK, LockInv, StreamInv
<1>3. StreamInv'
  BY DEF TypeOK, LockInv, StreamInv
<1>4. NoBatchLeak'
  BY DEF TypeOK, LockInv, StreamInv, NoBatchLeak
<1> QED
  BY <1>1, <1>2, <1>3, <1>4

LEMMA FinalizeStep ==
  ASSUME IInv, Finalize
  PROVE  IInv'
<1> USE ReaderAssumption DEF IInv
<1>a. phase = "forgotten" /\ UNCHANGED <<pc, mu, phase>> /\ ReleaseLocked
  BY DEF Finalize, ReleaseLocked
<1>b. mu = NoUser
  BY <1>a DEF LockInv, TypeOK
<1>1. LockInv'
  BY <1>a DEF LockInv
<1>2. pc' \in [Users -> {"idle", "get_next", "release"}]
  BY <1>a DEF TypeOK
<1> QED
  BY <1>a, <1>b, <1>1, <1>2, ReleaseLockedStep

LEMMA CtxDoneStep ==
  ASSUME IInv, CtxDone
  PROVE  IInv'
<1> USE ReaderAssumption DEF IInv, CtxDone, batch, closed
<1>1. TypeOK'
  BY DEF TypeOK, StreamInv, Errors
<1>2. LockInv'
  BY DEF TypeOK, LockInv, StreamInv
<1>3. StreamInv'
  BY DEF TypeOK, LockInv, StreamInv
<1>4. NoBatchLeak'
  BY DEF TypeOK, LockInv, StreamInv, NoBatchLeak
<1> QED
  BY <1>1, <1>2, <1>3, <1>4

LEMMA NextInv == IInv /\ [Next]_vars => IInv'
<1> SUFFICES ASSUME IInv, [Next]_vars PROVE IInv'
  OBVIOUS
<1>1. CASE UNCHANGED vars
  BY <1>1 DEF vars, batch, closed, IInv, TypeOK, LockInv, StreamInv, NoBatchLeak
<1>2. ASSUME NEW u \in Users, UserStep(u) PROVE IInv'
  BY <1>2, NextBatchStep, NextEndStep, NextErrorStep, ForceReleaseStep DEF UserStep
<1>3. ASSUME NEW u \in Users, Application(u) PROVE IInv'
  BY <1>3, NextEnterStep, RetainStep, ReleaseStep DEF Application
<1> QED
  BY <1>1, <1>2, <1>3, NewOwnedRecordReaderStep, OpenFailsStep, ForgetStep,
     FinalizeStep, CtxDoneStep DEF Next, Terminated

\* IInv holds throughout.
THEOREM Inductive == Spec => []IInv
  BY InitInv, NextInv, PTL DEF Spec

\* Every variable keeps its type.
THEOREM TypeCorrect == Spec => []TypeOK
  BY Inductive, PTL DEF IInv

\* Next never calls get_next on a stream that Release has freed.
THEOREM StreamUsedWhileOpen == Spec => []NoUseAfterFree
<1>1. IInv => NoUseAfterFree
  BY ReaderAssumption DEF IInv, LockInv, StreamInv, NoUseAfterFree
<1> QED
  BY <1>1, Inductive, PTL

\* The native stream is freed once, as soon as the reader ends.
THEOREM StreamFreedOnce == Spec => []FreedExactlyOnce
<1>1. IInv => FreedExactlyOnce
  BY DEF IInv, TypeOK, StreamInv, FreedExactlyOnce
<1> QED
  BY <1>1, Inductive, PTL

\* The span is closed once, with the final error and row count.
THEOREM SpanClosedOnce == Spec => []SpanAgrees
<1>1. IInv => SpanAgrees
  BY DEF IInv, TypeOK, StreamInv, SpanAgrees
<1> QED
  BY <1>1, Inductive, PTL

\* No batch is leaked.
THEOREM BatchesReleased == Spec => []NoBatchLeak
  BY Inductive, PTL DEF IInv

-----------------------------------------------------------------------------
(* The reader implements BatchStream.                                      *)

\* The action that ends the stream is a Finish of the promise.
LEMMA EndIsFinish ==
  ASSUME IInv, IInv', stream, ~stream', rows' = rows
  PROVE  Promise!Finish
<1>1. finishes' = 1 /\ span' = <<err', rows>> /\ err' \in Errors /\ rows \in 0 .. Batches
  BY ReaderAssumption DEF IInv, TypeOK, StreamInv
<1>2. stream' = FALSE
  BY DEF IInv, TypeOK
<1> QED
  BY <1>1, <1>2 DEF Promise!Finish

\* Every step of the reader is a step of the promise or a stutter.
LEMMA StepRefines ==
  ASSUME IInv, IInv', [Next]_vars
  PROVE  [Promise!Next]_<<stream, rows, IF finishes = 0 THEN <<>> ELSE span>>
<1>1. CASE \E u \in Users : NextBatch(u)
  <2>1. PICK u \in Users : NextBatch(u)
    BY <1>1
  <2>2. rows' = rows + 1 /\ UNCHANGED <<stream, finishes, span>> /\ stream
    BY <2>1, ReaderAssumption DEF NextBatch, Unlock, closed, IInv, LockInv, StreamInv
  <2> QED
    BY <2>2 DEF Promise!Next, Promise!Deliver
<1>2. CASE ~ \E u \in Users : NextBatch(u)
  <2>1. rows' = rows
    BY <1>2, Zenon DEF Next, vars, batch, UserStep, Application, Terminated, NextEnter, NextEnd,
       NextError, Retain, Release, ForceRelease, ReleaseLocked, NewOwnedRecordReader,
       OpenFails, Forget, Finalize, CtxDone
  <2>2. stream' => stream
    BY Zenon DEF Next, vars, closed, UserStep, Application, Terminated, NextBatch, NextEnter,
       NextEnd, NextError, Retain, Release, ForceRelease, ReleaseLocked, CloseAndFinish,
       CloseStreamLocked, NewOwnedRecordReader, OpenFails, Forget, Finalize, CtxDone
  <2>3. CASE stream /\ ~stream'
    BY <2>1, <2>3, EndIsFinish DEF Promise!Next
  <2>4. CASE stream /\ stream'
    BY <2>1, <2>4 DEF IInv, TypeOK, StreamInv
  <2>5. CASE ~stream /\ ~stream'
    <3>1. finishes' = finishes /\ span' = span
      BY <2>5, Zenon DEF IInv, StreamInv, Next, vars, closed, UserStep, Application, Terminated,
         NextBatch, NextEnter, NextEnd, NextError, Retain, Release, ForceRelease,
         ReleaseLocked, CloseAndFinish, FinishLocked, NewOwnedRecordReader, OpenFails,
         Forget, Finalize, CtxDone
    <3>2. stream' = stream
      BY <2>5 DEF IInv, TypeOK
    <3> QED
      BY <2>1, <3>1, <3>2
  <2> QED
    BY <2>2, <2>3, <2>4, <2>5
<1> QED
  BY <1>1, <1>2

\* The reader implements the promise of BatchStream: once it has ended it
\* delivers nothing more, and its outcome never changes.
THEOREM ReaderKeepsPromise == Spec => ImplementsPromise
<1>1. Init => Promise!Init
  BY DEF Init, Promise!Init
<1>2. IInv /\ IInv' /\ [Next]_vars
      => [Promise!Next]_<<stream, rows, IF finishes = 0 THEN <<>> ELSE span>>
  BY StepRefines
<1> QED
  BY <1>1, <1>2, Inductive, PTL DEF Spec, ImplementsPromise, Promise!Spec

-----------------------------------------------------------------------------
(* The safety half of LastReleaseFrees.                                    *)

\* The goroutine that drops the last reference is the one that owes the release,
\* and only the release itself discharges it.
LEMMA OwedStep ==
  ASSUME IInv, ReleaseOwed, [Next]_vars
  PROVE  ReleaseOwed'
<1> SUFFICES ASSUME refs' = 0, phase' = "shared", stream' = TRUE
             PROVE  \E u \in Users : pc'[u] = "release"
  <2>1. stream' \in BOOLEAN
    BY NextInv DEF IInv, TypeOK
  <2> QED
    BY <2>1 DEF ReleaseOwed
<1>t. pc \in [Users -> {"idle", "get_next", "release"}] /\ refs \in Nat /\ stream \in BOOLEAN
  BY DEF IInv, TypeOK
<1>o. ASSUME refs = 0, phase = "shared", stream PROVE \E u \in Users : pc[u] = "release"
  BY <1>o DEF ReleaseOwed
<1>1. ASSUME NEW u \in Users, UserStep(u) PROVE \E v \in Users : pc'[v] = "release"
  <2>1. CASE ForceRelease(u)
    BY <2>1, Zenon DEF ForceRelease, ReleaseLocked, CloseAndFinish, CloseStreamLocked, IInv,
       StreamInv, closed
  <2>2. CASE ~ ForceRelease(u)
    <3>1. /\ pc[u] = "get_next" /\ pc' = [pc EXCEPT ![u] = "idle"]
          /\ refs' = refs /\ phase' = phase
      BY <1>1, <2>2 DEF UserStep, NextBatch, NextEnd, NextError, Unlock, Goto
    <3>2. stream
      BY <3>1, ReaderAssumption DEF IInv, LockInv, StreamInv
    <3> QED
      BY <1>t, <1>o, <3>1, <3>2
  <2> QED
    BY <2>1, <2>2
<1>2. ASSUME NEW u \in Users, Application(u) PROVE \E v \in Users : pc'[v] = "release"
  <2>1. CASE NextEnter(u)
    <3>1. /\ pc[u] = "idle" /\ refs' = refs /\ phase' = phase /\ stream
          /\ pc' = pc \/ pc' = [pc EXCEPT ![u] = "get_next"]
      BY <2>1 DEF NextEnter, Goto
    <3> QED
      BY <1>t, <1>o, <3>1
  <2>2. CASE Retain(u)
    BY <1>t, <2>2 DEF Retain
  <2>3. CASE Release(u)
    <3>1. refs' = refs - 1 /\ pc' = [pc EXCEPT ![u] = IF refs = 1 THEN "release" ELSE "idle"]
      BY <2>3, Zenon DEF Release, Goto
    <3>2. refs = 1
      BY <1>t, <3>1
    <3> QED
      BY <1>t, <3>1, <3>2
  <2> QED
    BY <1>2, <2>1, <2>2, <2>3 DEF Application
<1>3. CASE NewOwnedRecordReader \/ OpenFails \/ Forget \/ Finalize
  BY <1>3, <1>t DEF NewOwnedRecordReader, OpenFails, Forget, Finalize, ReleaseLocked
<1>4. CASE CtxDone \/ Terminated \/ UNCHANGED vars
  <2>1. UNCHANGED <<pc, refs, phase, stream>>
    BY <1>4, Zenon DEF CtxDone, Terminated, vars, closed
  <2> QED
    BY <1>o, <2>1
<1> QED
  BY <1>1, <1>2, <1>3, <1>4 DEF Next

\* The duty to free the stream is never lost.
THEOREM ReleaseAlwaysOwed == Spec => []ReleaseOwed
<1>1. Init => ReleaseOwed
  BY DEF Init, ReleaseOwed
<1>2. IInv /\ ReleaseOwed /\ [Next]_vars => ReleaseOwed'
  BY OwedStep
<1> QED
  BY <1>1, <1>2, Inductive, PTL DEF Spec

\* Where a step leaves the stream, the rows and r.mu, and so what is left.
LEMMA LeftStep ==
  ASSUME IInv, [Next]_vars
  PROVE  /\ Left' <= Left
         /\ \A u \in Users : stream /\ (NextEnter(u) \/ UserStep(u)) => Left' < Left
<1>t. /\ rows \in Nat /\ rows <= Batches /\ Batches \in Nat /\ stream \in BOOLEAN
      /\ NoUser \notin Users /\ \A u \in Users : pc[u] = "get_next" <=> mu = u
  BY ReaderAssumption DEF IInv, TypeOK, StreamInv, LockInv
<1>p. IInv' /\ stream' \in BOOLEAN
  BY NextInv DEF IInv, TypeOK
<1>l. Left \in Nat /\ (stream => Left > 0)
  BY <1>t DEF Left
<1>1. ASSUME NEW u \in Users, UserStep(u) PROVE Left' <= Left /\ (stream => Left' < Left)
  <2>1. CASE NextBatch(u)
    <3>1. /\ rows < Batches /\ rows' = rows + 1 /\ stream' = stream /\ mu' = NoUser /\ mu = u
      BY <1>t, <2>1 DEF NextBatch, Unlock, closed
    <3> QED
      BY <1>t, <3>1 DEF Left
  <2>2. CASE NextEnd(u) \/ \E e \in {"stream", "import"} : NextError(u, e)
    <3>1. ~ stream'
      BY <2>2, <1>t DEF NextEnd, NextError, CloseAndFinish, CloseStreamLocked
    <3> QED
      BY <1>l, <3>1 DEF Left
  <2>3. CASE ForceRelease(u)
    <3>1. ~ stream'
      BY <2>3, <1>t DEF ForceRelease, ReleaseLocked, CloseAndFinish, CloseStreamLocked, IInv,
         StreamInv, closed
    <3> QED
      BY <1>l, <3>1 DEF Left
  <2> QED
    BY <1>1, <2>1, <2>2, <2>3 DEF UserStep
<1>2. ASSUME NEW u \in Users, NextEnter(u) PROVE Left' <= Left /\ Left' < Left
  <2>1. /\ rows' = rows /\ mu = NoUser /\ stream
        /\ ~ stream' \/ (mu' = u /\ stream' = stream)
    BY <1>2, Zenon DEF NextEnter, CloseAndFinish, CloseStreamLocked, closed
  <2>2. CASE ~ stream'
    BY <1>l, <2>1, <2>2 DEF Left
  <2>3. CASE stream' = stream /\ mu' = u
    <3>1. Left = 2 * (Batches - rows) + 2 /\ Left' = 2 * (Batches - rows) + 1
      BY <1>t, <2>1, <2>3 DEF Left
    <3> QED
      BY <1>t, <3>1
  <2> QED
    BY <2>1, <2>2, <2>3, Zenon
<1>3. ASSUME NEW u \in Users, Retain(u) \/ Release(u) PROVE Left' = Left
  <2>1. UNCHANGED <<stream, rows, mu>>
    BY <1>3 DEF Retain, Release, batch, closed
  <2> QED
    BY <2>1 DEF Left
<1>4. ASSUME NewOwnedRecordReader \/ Forget \/ CtxDone \/ Terminated \/ UNCHANGED vars
      PROVE  Left' = Left
  <2>1. UNCHANGED <<stream, rows, mu>>
    BY <1>4 DEF NewOwnedRecordReader, Forget, CtxDone, Terminated, vars, batch, closed
  <2> QED
    BY <2>1 DEF Left
<1>5. ASSUME OpenFails \/ Finalize PROVE Left' <= Left
  <2>1. ~ stream'
    BY <1>5, <1>t DEF OpenFails, Finalize, ReleaseLocked, CloseAndFinish, CloseStreamLocked
  <2> QED
    BY <1>l, <2>1 DEF Left
<1>6. Left' <= Left
  <2>1. CASE \E u \in Users : UserStep(u) \/ NextEnter(u)
    BY <1>1, <1>2, <1>l, <2>1
  <2>2. CASE Left' = Left
    BY <1>l, <2>2
  <2> QED
    BY <1>3, <1>4, <1>5, <2>1, <2>2 DEF Next, Application
<1> QED
  BY <1>1, <1>2, <1>6

\* Next and forceRelease bring an open stream to its end, and nothing sets it back.
THEOREM ReadersAdvance == Spec => ReaderAdvances
<1>1. IInv /\ [Next]_vars =>
        [ /\ Left' <= Left
          /\ \A u \in Users : stream /\ (NextEnter(u) \/ UserStep(u)) => Left' < Left ]_vars
  BY LeftStep
<1> QED
  BY <1>1, Inductive, PTL DEF Spec, ReaderAdvances
=============================================================================
