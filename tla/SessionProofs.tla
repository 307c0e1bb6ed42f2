--------------------------- MODULE SessionProofs ---------------------------
(* Proofs of the safety properties of Session, for any set of calls.       *)
EXTENDS Session, TLAPS

-----------------------------------------------------------------------------
(* Every action preserves the invariant: one lemma per action.             *)

\* Creating a session starts the lease, or leaves nothing registered.
LEMMA NewSessionStep ==
    ASSUME IInv, NewSession
    PROVE  IInv'
<1> USE SessionAssumption DEF NewSession, Goto, Return, go, session, lease, hooks
<1>1. TypeOK'
  BY Zenon DEF IInv, TypeOK, Pcs, Results
<1>2. LockInv'
  BY DEF IInv, TypeOK, LockInv, OwnerInv, UsesSession, GivenPtr
<1>3. SessionInv'
  BY DEF IInv, TypeOK, OwnerInv, SessionInv, UsesSession, GivenPtr, Running, Pcs
<1>4. OwnerInv'
  BY SMTT(20) DEF IInv, TypeOK, SessionInv, OwnerInv, UsesSession, GivenPtr, Running, Returned, Pcs
<1>5. LentInv'
  BY DEF IInv, TypeOK, OwnerInv, LentInv, Returned, Pcs
<1> QED BY <1>1, <1>2, <1>3, <1>4, <1>5 DEF IInv

\* The backend leaves the registry only when nobody owns a clone.
LEMMA ReleaseBackendStep ==
    ASSUME IInv, ReleaseBackend
    PROVE  IInv'
<1> USE SessionAssumption DEF ReleaseBackend, Goto, Return, go, session, lease, hooks
<1>1. TypeOK'
  BY DEF IInv, TypeOK, Pcs, Results
<1>2. LockInv'
  BY DEF IInv, TypeOK, LockInv, OwnerInv, UsesSession, GivenPtr
<1>3. SessionInv'
  BY DEF IInv, TypeOK, LockInv, SessionInv, UsesSession, GivenPtr, Running, Pcs
<1>4. OwnerInv'
  BY DEF IInv, TypeOK, SessionInv, OwnerInv, UsesSession, GivenPtr, Running, Returned, Pcs
<1>5. LentInv'
  BY DEF IInv, TypeOK, OwnerInv, LentInv, Returned, Pcs
<1> QED BY <1>1, <1>2, <1>3, <1>4, <1>5 DEF IInv

\* Forgetting the session changes nothing it owns.
LEMMA ForgetStep ==
    ASSUME IInv, Forget
    PROVE  IInv'
<1> USE SessionAssumption DEF Forget, Goto, Return, go, session, lease, hooks
<1>1. TypeOK'
  BY DEF IInv, TypeOK, Pcs, Results
<1>2. LockInv'
  BY DEF IInv, TypeOK, LockInv, OwnerInv, UsesSession, GivenPtr
<1>3. SessionInv'
  BY Zenon DEF IInv, TypeOK, LockInv, SessionInv, UsesSession, GivenPtr, Running, Pcs
<1>4. OwnerInv'
  BY Zenon DEF IInv, TypeOK, SessionInv, OwnerInv, UsesSession, GivenPtr, Running, Returned, Pcs
<1>5. LentInv'
  BY DEF IInv, TypeOK, OwnerInv, LentInv, Returned, Pcs
<1> QED BY <1>1, <1>2, <1>3, <1>4, <1>5 DEF IInv

\* The cleanup closes the handle once, with no call running.
LEMMA RunCleanupStep ==
    ASSUME IInv, RunCleanup
    PROVE  IInv'
<1> USE SessionAssumption DEF RunCleanup, DropClone, Goto, Return, go, session, lease, hooks
<1>0. /\ owners' \subseteq Ops \cup {Handle}
      /\ backend' \in {"absent", "registered", "dropping", "released"}
      /\ closes' \in Nat
  BY DEF IInv, TypeOK
<1>1. TypeOK'
  BY <1>0, Zenon DEF IInv, TypeOK, Pcs, Results
<1>2. LockInv'
  BY DEF IInv, TypeOK, LockInv, OwnerInv, UsesSession, GivenPtr
<1>3. SessionInv'
  BY DEF IInv, TypeOK, LockInv, SessionInv, UsesSession, GivenPtr, Running, Pcs
<1>4. OwnerInv'
  BY DEF IInv, TypeOK, SessionInv, OwnerInv, UsesSession, GivenPtr, Running, Returned, Pcs
<1>5. LentInv'
  BY DEF IInv, TypeOK, OwnerInv, LentInv, Returned, Pcs
<1> QED BY Zenon, <1>1, <1>2, <1>3, <1>4, <1>5 DEF IInv

\* A context may end at any time.
LEMMA CtxDoneStep ==
    ASSUME IInv, NEW o \in Ops, CtxDone(o)
    PROVE  IInv'
<1> USE SessionAssumption DEF CtxDone, Goto, Return, go, session, lease, hooks
<1>1. TypeOK'
  BY Zenon DEF IInv, TypeOK, Pcs, Results
<1>2. LockInv'
  BY Zenon DEF IInv, TypeOK, LockInv, OwnerInv, UsesSession, GivenPtr
<1>3. SessionInv'
  BY Zenon DEF IInv, TypeOK, LockInv, SessionInv, UsesSession, GivenPtr, Running, Pcs
<1>4. OwnerInv'
  BY Zenon DEF IInv, TypeOK, SessionInv, OwnerInv, UsesSession, GivenPtr, Running, Returned, Pcs
<1>5. LentInv'
  BY DEF IInv, TypeOK, OwnerInv, LentInv, Returned, Pcs
<1> QED BY Zenon, <1>1, <1>2, <1>3, <1>4, <1>5 DEF IInv

\* A call begins with nothing lent and nothing held.
LEMMA BeginStep ==
    ASSUME IInv, NEW o \in Ops, Begin(o)
    PROVE  IInv'
<1> USE SessionAssumption DEF Begin, First, SessionExists, Goto, Return, go, session, lease, hooks
<1>1. TypeOK'
  BY DEF IInv, TypeOK, Pcs, Results
<1>2. LockInv'
  BY DEF IInv, TypeOK, LockInv, OwnerInv, UsesSession, GivenPtr
<1>3. SessionInv'
  BY DEF IInv, TypeOK, LockInv, SessionInv, UsesSession, GivenPtr, Running, Pcs
<1>4. OwnerInv'
  BY DEF IInv, TypeOK, SessionInv, OwnerInv, UsesSession, GivenPtr, Running, Returned, Pcs
<1>5. LentInv'
  BY DEF IInv, TypeOK, OwnerInv, LentInv, Returned, Pcs
<1> QED BY Zenon, <1>1, <1>2, <1>3, <1>4, <1>5 DEF IInv

\* Returning before the lock leaves nothing behind.
LEMMA CheckCtxStep ==
    ASSUME IInv, NEW o \in Ops, CheckCtx(o)
    PROVE  IInv'
<1> USE SessionAssumption DEF CheckCtx, Goto, Return, go, session, lease, hooks
<1>1. TypeOK'
  BY DEF IInv, TypeOK, Pcs, Results
<1>2. LockInv'
  BY DEF IInv, TypeOK, LockInv, OwnerInv, UsesSession, GivenPtr
<1>3. SessionInv'
  BY DEF IInv, TypeOK, LockInv, SessionInv, UsesSession, GivenPtr, Running, Pcs
<1>4. OwnerInv'
  BY DEF IInv, TypeOK, SessionInv, OwnerInv, UsesSession, GivenPtr, Running, Returned, Pcs
<1>5. LentInv'
  BY DEF IInv, TypeOK, OwnerInv, LentInv, Returned, Pcs
<1> QED BY Zenon, <1>1, <1>2, <1>3, <1>4, <1>5 DEF IInv

\* The callback is registered before the lock is taken.
LEMMA RegisterProgressStep ==
    ASSUME IInv, NEW o \in Ops, RegisterProgress(o)
    PROVE  IInv'
<1> USE SessionAssumption DEF RegisterProgress, Goto, Return, go, session, lease, hooks
<1>1. TypeOK'
  BY Zenon DEF IInv, TypeOK, Pcs, Results
<1>2. LockInv'
  BY DEF IInv, TypeOK, LockInv, OwnerInv, UsesSession, GivenPtr
<1>3. SessionInv'
  BY DEF IInv, TypeOK, LockInv, SessionInv, UsesSession, GivenPtr, Running, Pcs
<1>4. OwnerInv'
  BY DEF IInv, TypeOK, SessionInv, OwnerInv, UsesSession, GivenPtr, Running, Returned, Pcs
<1>5. LentInv'
  BY DEF IInv, TypeOK, OwnerInv, LentInv, Returned, Pcs
<1> QED BY Zenon, <1>1, <1>2, <1>3, <1>4, <1>5 DEF IInv

\* The lock is exclusive, and the pointer is valid under it.
LEMMA LockSessionStep ==
    ASSUME IInv, NEW o \in Ops, LockSession(o)
    PROVE  IInv'
<1> USE SessionAssumption DEF LockSession, Locked, Goto, Return, go, session, lease, hooks
<1>1. TypeOK'
  BY DEF IInv, TypeOK, Pcs, Results
<1>2. LockInv'
  BY DEF IInv, TypeOK, LockInv, OwnerInv, UsesSession, GivenPtr
<1>3. SessionInv'
  BY DEF IInv, TypeOK, LockInv, SessionInv, UsesSession, GivenPtr, Running, Pcs
<1>4. OwnerInv'
  BY DEF IInv, TypeOK, SessionInv, OwnerInv, UsesSession, GivenPtr, Running, Returned, Pcs
<1>5. LentInv'
  BY DEF IInv, TypeOK, OwnerInv, LentInv, Returned, Pcs
<1> QED BY <1>1, <1>2, <1>3, <1>4, <1>5 DEF IInv

\* Close finds the cleanup armed if the pointer is set.
LEMMA CloseSessionStep ==
    ASSUME IInv, NEW o \in Ops, CloseSession(o)
    PROVE  IInv'
<1> USE SessionAssumption DEF CloseSession, DropClone, Goto, Return, go, session, lease, hooks
<1>0. /\ owners' \subseteq Ops \cup {Handle}
      /\ backend' \in {"absent", "registered", "dropping", "released"}
      /\ closes' \in Nat
  BY DEF IInv, TypeOK
<1>1. TypeOK'
  BY <1>0, Zenon DEF IInv, TypeOK, Pcs, Results
<1>2. LockInv'
  BY DEF IInv, TypeOK, LockInv, OwnerInv, UsesSession, GivenPtr
<1>3. SessionInv'
  BY DEF IInv, TypeOK, LockInv, SessionInv, UsesSession, GivenPtr, Running, Pcs
<1>4. OwnerInv'
  BY DEF IInv, TypeOK, SessionInv, OwnerInv, UsesSession, GivenPtr, Running, Returned, Pcs
<1>5. LentInv'
  BY DEF IInv, TypeOK, OwnerInv, LentInv, Returned, Pcs
<1> QED BY Zenon, <1>1, <1>2, <1>3, <1>4, <1>5 DEF IInv

\* The reader is exported under the lock, on an open session.
LEMMA ExportStep ==
    ASSUME IInv, NEW o \in Ops, Export(o)
    PROVE  IInv'
<1> USE SessionAssumption DEF Export, Goto, Return, go, session, lease, hooks
<1>1. TypeOK'
  BY Zenon DEF IInv, TypeOK, Pcs, Results
<1>2. LockInv'
  BY DEF IInv, TypeOK, LockInv, OwnerInv, UsesSession, GivenPtr
<1>3. SessionInv'
  BY DEF IInv, TypeOK, LockInv, SessionInv, UsesSession, GivenPtr, Running, Pcs
<1>4. OwnerInv'
  BY DEF IInv, TypeOK, SessionInv, OwnerInv, UsesSession, GivenPtr, Running, Returned, Pcs
<1>5. LentInv'
  BY DEF IInv, TypeOK, OwnerInv, LentInv, Returned, Pcs
<1> QED BY Zenon, <1>1, <1>2, <1>3, <1>4, <1>5 DEF IInv

\* An early return leaves the reader exported.
LEMMA FfiCallStep ==
    ASSUME IInv, NEW o \in Ops, FfiCall(o)
    PROVE  IInv'
<1> USE SessionAssumption DEF FfiCall, Goto, Return, go, session, lease, hooks
<1>1. TypeOK'
  BY DEF IInv, TypeOK, Pcs, Results
<1>2. LockInv'
  BY DEF IInv, TypeOK, LockInv, OwnerInv, UsesSession, GivenPtr
<1>3. SessionInv'
  BY DEF IInv, TypeOK, LockInv, SessionInv, UsesSession, GivenPtr, Running, Pcs
<1>4. OwnerInv'
  BY DEF IInv, TypeOK, SessionInv, OwnerInv, UsesSession, GivenPtr, Running, Returned, Pcs
<1>5. LentInv'
  BY DEF IInv, TypeOK, OwnerInv, LentInv, Returned, Pcs
<1> QED BY Zenon, <1>1, <1>2, <1>3, <1>4, <1>5 DEF IInv

\* Invalid arguments release the imported reader.
LEMMA RejectArgumentsStep ==
    ASSUME IInv, NEW o \in Ops, RejectArguments(o)
    PROVE  IInv'
<1> USE SessionAssumption DEF RejectArguments, HasReader, Goto, Return, go, session, lease, hooks
<1>1. TypeOK'
  BY Zenon DEF IInv, TypeOK, Pcs, Results
<1>2. LockInv'
  BY DEF IInv, TypeOK, LockInv, OwnerInv, UsesSession, GivenPtr
<1>3. SessionInv'
  BY DEF IInv, TypeOK, LockInv, SessionInv, UsesSession, GivenPtr, Running, Pcs
<1>4. OwnerInv'
  BY DEF IInv, TypeOK, SessionInv, OwnerInv, UsesSession, GivenPtr, Running, Returned, Pcs
<1>5. LentInv'
  BY DEF IInv, TypeOK, OwnerInv, LentInv, Returned, Pcs
<1> QED BY Zenon, <1>1, <1>2, <1>3, <1>4, <1>5 DEF IInv

\* The future owns a clone of the session while it is driven.
LEMMA DriveStep ==
    ASSUME IInv, NEW o \in Ops, Drive(o)
    PROVE  IInv'
<1> USE SessionAssumption DEF Drive, HasReader, Goto, Return, go, session, lease, hooks
<1>1. TypeOK'
  BY DEF IInv, TypeOK, Pcs, Results
<1>2. LockInv'
  BY DEF IInv, TypeOK, LockInv, OwnerInv, UsesSession, GivenPtr
<1>3. SessionInv'
  BY DEF IInv, TypeOK, LockInv, SessionInv, UsesSession, GivenPtr, Running, Pcs
<1>4. OwnerInv'
  BY DEF IInv, TypeOK, SessionInv, OwnerInv, UsesSession, GivenPtr, Running, Returned, Pcs
<1>5. LentInv'
  BY DEF IInv, TypeOK, OwnerInv, LentInv, Returned, Pcs
<1> QED BY Zenon, <1>1, <1>2, <1>3, <1>4, <1>5 DEF IInv

\* The callback runs while its write is driven.
LEMMA ReportProgressStep ==
    ASSUME IInv, NEW o \in Ops, ReportProgress(o)
    PROVE  IInv'
<1> USE SessionAssumption DEF ReportProgress, Goto, Return, go, session, lease, hooks
<1>1. TypeOK'
  BY Zenon DEF IInv, TypeOK, Pcs, Results
<1>2. LockInv'
  BY Zenon DEF IInv, TypeOK, LockInv, OwnerInv, UsesSession, GivenPtr
<1>3. SessionInv'
  BY Zenon DEF IInv, TypeOK, LockInv, SessionInv, UsesSession, GivenPtr, Running, Pcs
<1>4. OwnerInv'
  BY Zenon DEF IInv, TypeOK, SessionInv, OwnerInv, UsesSession, GivenPtr, Running, Returned, Pcs
<1>5. LentInv'
  BY DEF IInv, TypeOK, OwnerInv, LentInv, Returned, Pcs
<1> QED BY Zenon, <1>1, <1>2, <1>3, <1>4, <1>5 DEF IInv

\* The callback returns.
LEMMA ProgressReturnsStep ==
    ASSUME IInv, NEW o \in Ops, ProgressReturns(o)
    PROVE  IInv'
<1> USE SessionAssumption DEF ProgressReturns, Goto, Return, go, session, lease, hooks
<1>1. TypeOK'
  BY Zenon DEF IInv, TypeOK, Pcs, Results
<1>2. LockInv'
  BY Zenon DEF IInv, TypeOK, LockInv, OwnerInv, UsesSession, GivenPtr
<1>3. SessionInv'
  BY Zenon DEF IInv, TypeOK, LockInv, SessionInv, UsesSession, GivenPtr, Running, Pcs
<1>4. OwnerInv'
  BY Zenon DEF IInv, TypeOK, SessionInv, OwnerInv, UsesSession, GivenPtr, Running, Returned, Pcs
<1>5. LentInv'
  BY DEF IInv, TypeOK, OwnerInv, LentInv, Returned, Pcs
<1> QED BY Zenon, <1>1, <1>2, <1>3, <1>4, <1>5 DEF IInv

\* Only an owner calls the backend.
LEMMA CallBackendStep ==
    ASSUME IInv, NEW o \in Ops, CallBackend(o)
    PROVE  IInv'
<1> USE SessionAssumption DEF CallBackend, Goto, Return, go, session, lease, hooks
<1>1. TypeOK'
  BY Zenon DEF IInv, TypeOK, Pcs, Results
<1>2. LockInv'
  BY Zenon DEF IInv, TypeOK, LockInv, OwnerInv, UsesSession, GivenPtr
<1>3. SessionInv'
  BY Zenon DEF IInv, TypeOK, LockInv, SessionInv, UsesSession, GivenPtr, Running, Pcs
<1>4. OwnerInv'
  BY Zenon DEF IInv, TypeOK, SessionInv, OwnerInv, UsesSession, GivenPtr, Running, Returned, Pcs
<1>5. LentInv'
  BY DEF IInv, TypeOK, OwnerInv, LentInv, Returned, Pcs
<1> QED BY Zenon, <1>1, <1>2, <1>3, <1>4, <1>5 DEF IInv

\* An owner finds the backend.
LEMMA LookupStep ==
    ASSUME IInv, NEW o \in Ops, Lookup(o)
    PROVE  IInv'
<1> USE SessionAssumption DEF Lookup, Goto, Return, go, session, lease, hooks
<1>1. TypeOK'
  BY Zenon DEF IInv, TypeOK, Pcs, Results
<1>2. LockInv'
  BY Zenon DEF IInv, TypeOK, LockInv, OwnerInv, UsesSession, GivenPtr
<1>3. SessionInv'
  BY Zenon DEF IInv, TypeOK, LockInv, SessionInv, UsesSession, GivenPtr, Running, Pcs
<1>4. OwnerInv'
  BY Zenon DEF IInv, TypeOK, SessionInv, OwnerInv, UsesSession, GivenPtr, Running, Returned, Pcs
<1>5. LentInv'
  BY DEF IInv, TypeOK, OwnerInv, LentInv, Returned, Pcs
<1> QED BY Zenon, <1>1, <1>2, <1>3, <1>4, <1>5 DEF IInv

\* The call to the backend returns.
LEMMA BackendReturnsStep ==
    ASSUME IInv, NEW o \in Ops, BackendReturns(o)
    PROVE  IInv'
<1> USE SessionAssumption DEF BackendReturns, Goto, Return, go, session, lease, hooks
<1>1. TypeOK'
  BY Zenon DEF IInv, TypeOK, Pcs, Results
<1>2. LockInv'
  BY Zenon DEF IInv, TypeOK, LockInv, OwnerInv, UsesSession, GivenPtr
<1>3. SessionInv'
  BY Zenon DEF IInv, TypeOK, LockInv, SessionInv, UsesSession, GivenPtr, Running, Pcs
<1>4. OwnerInv'
  BY Zenon DEF IInv, TypeOK, SessionInv, OwnerInv, UsesSession, GivenPtr, Running, Returned, Pcs
<1>5. LentInv'
  BY DEF IInv, TypeOK, OwnerInv, LentInv, Returned, Pcs
<1> QED BY Zenon, <1>1, <1>2, <1>3, <1>4, <1>5 DEF IInv

\* A cancelled future lets go of its clone.
LEMMA CancelledStep ==
    ASSUME IInv, NEW o \in Ops, Cancelled(o)
    PROVE  IInv'
<1> USE SessionAssumption DEF Cancelled, DropClone, Goto, Return, go, session, lease, hooks
<1>1. TypeOK'
  BY Zenon DEF IInv, TypeOK, Pcs, Results
<1>2. LockInv'
  BY DEF IInv, TypeOK, LockInv, OwnerInv, UsesSession, GivenPtr
<1>3. SessionInv'
  BY DEF IInv, TypeOK, LockInv, SessionInv, UsesSession, GivenPtr, Running, Pcs
<1>4. OwnerInv'
  BY DEF IInv, TypeOK, SessionInv, OwnerInv, UsesSession, GivenPtr, Running, Returned, Pcs
<1>5. LentInv'
  BY DEF IInv, TypeOK, OwnerInv, LentInv, Returned, Pcs
<1> QED BY Zenon, <1>1, <1>2, <1>3, <1>4, <1>5 DEF IInv

\* The reader of a cancelled write is released later.
LEMMA DropReaderStep ==
    ASSUME IInv, NEW o \in Ops, DropReader(o)
    PROVE  IInv'
<1> USE SessionAssumption DEF DropReader, Goto, Return, go, session, lease, hooks
<1>1. TypeOK'
  BY Zenon DEF IInv, TypeOK, Pcs, Results
<1>2. LockInv'
  BY Zenon DEF IInv, TypeOK, LockInv, OwnerInv, UsesSession, GivenPtr
<1>3. SessionInv'
  BY Zenon DEF IInv, TypeOK, LockInv, SessionInv, UsesSession, GivenPtr, Running, Pcs
<1>4. OwnerInv'
  BY Zenon DEF IInv, TypeOK, SessionInv, OwnerInv, UsesSession, GivenPtr, Running, Returned, Pcs
<1>5. LentInv'
  BY DEF IInv, TypeOK, OwnerInv, LentInv, Returned, Pcs
<1> QED BY Zenon, <1>1, <1>2, <1>3, <1>4, <1>5 DEF IInv

\* The lock is given back on every path.
LEMMA UnlockStep ==
    ASSUME IInv, NEW o \in Ops, Unlock(o)
    PROVE  IInv'
<1> USE SessionAssumption DEF Unlock, Goto, Return, go, session, lease, hooks
<1>1. TypeOK'
  BY Zenon DEF IInv, TypeOK, Pcs, Results
<1>2. LockInv'
  BY DEF IInv, TypeOK, LockInv, OwnerInv, UsesSession, GivenPtr
<1>3. SessionInv'
  BY SMTT(20) DEF IInv, TypeOK, LockInv, SessionInv, UsesSession, GivenPtr, Running, Pcs
<1>4. OwnerInv'
  BY DEF IInv, TypeOK, SessionInv, OwnerInv, UsesSession, GivenPtr, Running, Returned, Pcs
<1>5. LentInv'
  BY DEF IInv, TypeOK, OwnerInv, LentInv, Returned, Pcs
<1> QED BY Zenon, <1>1, <1>2, <1>3, <1>4, <1>5 DEF IInv

\* The registration of the callback is given back on every path.
LEMMA UnregisterStep ==
    ASSUME IInv, NEW o \in Ops, Unregister(o)
    PROVE  IInv'
<1> USE SessionAssumption DEF Unregister, Goto, Return, go, session, lease, hooks
<1>1. TypeOK'
  BY Zenon DEF IInv, TypeOK, Pcs, Results
<1>2. LockInv'
  BY DEF IInv, TypeOK, LockInv, OwnerInv, UsesSession, GivenPtr
<1>3. SessionInv'
  BY SMTT(20) DEF IInv, TypeOK, LockInv, SessionInv, UsesSession, GivenPtr, Running, Pcs
<1>4. OwnerInv'
  BY SMTT(20) DEF IInv, TypeOK, SessionInv, OwnerInv, UsesSession, GivenPtr, Running, Returned, Pcs
<1>5. LentInv'
  BY DEF IInv, TypeOK, OwnerInv, LentInv, Returned, Pcs
<1> QED BY Zenon, <1>1, <1>2, <1>3, <1>4, <1>5 DEF IInv

\* A dataset is closed after the scans on it.
LEMMA CloseResultStep ==
    ASSUME IInv, NEW o \in Ops, CloseResult(o)
    PROVE  IInv'
<1> USE SessionAssumption DEF CloseResult, DropClone, Goto, Return, go, session, lease, hooks
<1>1. TypeOK'
  BY Zenon DEF IInv, TypeOK, Pcs, Results
<1>2. LockInv'
  BY Zenon DEF IInv, TypeOK, LockInv, OwnerInv, UsesSession, GivenPtr
<1>3. SessionInv'
  BY SMTT(20) DEF IInv, TypeOK, LockInv, SessionInv, UsesSession, GivenPtr, Running, Pcs
<1>4. OwnerInv'
  BY Zenon DEF IInv, TypeOK, SessionInv, OwnerInv, UsesSession, GivenPtr, Running, Returned, Pcs
<1>5. LentInv'
  BY Zenon DEF IInv, TypeOK, OwnerInv, LentInv, Returned, Pcs
<1> QED BY Zenon, <1>1, <1>2, <1>3, <1>4, <1>5 DEF IInv

\* A scan begins on a dataset that stays open for it.
LEMMA BeginScanStep ==
    ASSUME IInv, NEW o \in Ops, NEW d \in Ops, BeginScan(o, d)
    PROVE  IInv'
<1> USE SessionAssumption DEF BeginScan, Goto, Return, go, session, lease, hooks
<1>1. TypeOK'
  BY Zenon DEF IInv, TypeOK, Pcs, Results
<1>2. LockInv'
  BY SMTT(20) DEF IInv, TypeOK, LockInv, OwnerInv, UsesSession, GivenPtr
<1>3. SessionInv'
  BY SMTT(20) DEF IInv, TypeOK, LockInv, SessionInv, UsesSession, GivenPtr, Running, Pcs
<1>4. OwnerInv'
  BY SMTT(20) DEF IInv, TypeOK, SessionInv, OwnerInv, UsesSession, GivenPtr, Running, Returned, Pcs
<1>5. LentInv'
  BY DEF IInv, TypeOK, OwnerInv, LentInv, Returned, Pcs
<1> QED BY Zenon, <1>1, <1>2, <1>3, <1>4, <1>5 DEF IInv

\* A completed call keeps its clone only with what it returns.
LEMMA CompleteStep ==
    ASSUME IInv, NEW o \in Ops, NEW r \in {"ok", "failed"}, Complete(o, r)
    PROVE  IInv'
<1> USE SessionAssumption DEF Complete, DropClone, Idle, Goto, Return, go, session, lease, hooks
<1>1. TypeOK'
  BY SMTT(20) DEF IInv, TypeOK, Pcs, Results
<1>2. LockInv'
  BY SMTT(20) DEF IInv, TypeOK, LockInv, OwnerInv, UsesSession, GivenPtr
<1>3. SessionInv'
  BY SMTT(20) DEF IInv, TypeOK, LockInv, SessionInv, UsesSession, GivenPtr, Running, Pcs
<1>4. OwnerInv'
  BY SMTT(20) DEF IInv, TypeOK, SessionInv, OwnerInv, UsesSession, GivenPtr, Running, Returned, Pcs
<1>5. LentInv'
  BY DEF IInv, TypeOK, OwnerInv, LentInv, Returned, Pcs
<1> QED BY Zenon, <1>1, <1>2, <1>3, <1>4, <1>5 DEF IInv

-----------------------------------------------------------------------------
\* The initial state satisfies the invariant.
LEMMA InitInv == Init => IInv
<1> SUFFICES ASSUME Init PROVE IInv
  OBVIOUS
<1> USE SessionAssumption DEF Init
<1>1. TypeOK
  BY Zenon DEF TypeOK, Pcs, Results
<1>2. LockInv
  BY Zenon DEF LockInv, GivenPtr
<1>3. SessionInv
  BY DEF SessionInv, GivenPtr
<1>4. OwnerInv
  BY DEF OwnerInv, Running
<1>5. LentInv
  BY Zenon DEF LentInv
<1> QED BY <1>1, <1>2, <1>3, <1>4, <1>5 DEF IInv

\* Every step preserves it.
LEMMA NextInv == IInv /\ [Next]_vars => IInv'
<1> SUFFICES ASSUME IInv, [Next]_vars PROVE IInv'
  BY Zenon
<1>1. ASSUME NEW o \in Ops, OpStep(o) PROVE IInv'
  BY Zenon, <1>1, CheckCtxStep, RegisterProgressStep, LockSessionStep, CloseSessionStep,
     ExportStep, FfiCallStep, RejectArgumentsStep, DriveStep, ReportProgressStep,
     ProgressReturnsStep, CallBackendStep, LookupStep, BackendReturnsStep,
     CompleteStep, CancelledStep, DropReaderStep, UnlockStep, UnregisterStep
     DEF OpStep
<1>2. ASSUME NEW o \in Ops, Application(o) PROVE IInv'
  BY Zenon, <1>2, CtxDoneStep, BeginStep, BeginScanStep, CloseResultStep DEF Application
<1>3. CASE UNCHANGED vars
  <2> USE <1>3 DEF vars, go, session, lease, hooks, IInv
  <2>1. TypeOK'
    BY Zenon DEF TypeOK
  <2>2. LockInv' /\ SessionInv'
    BY Zenon DEF LockInv, SessionInv
  <2>3. OwnerInv'
    BY Zenon DEF OwnerInv
  <2>4. LentInv'
    BY DEF LentInv
  <2> QED BY Zenon, <2>1, <2>2, <2>3, <2>4
<1> QED BY <1>1, <1>2, <1>3, NewSessionStep, ForgetStep, ReleaseBackendStep,
           RunCleanupStep DEF Next, Collector, Quiescent

\* IInv is an invariant of the specification.
THEOREM Inductive == Spec => []IInv
BY InitInv, NextInv, PTL DEF Spec

-----------------------------------------------------------------------------
\* Every reachable state of a session is well typed.
THEOREM TypeCorrect == Spec => []TypeOK
<1>1. IInv => TypeOK
  BY DEF IInv
<1> QED BY <1>1, Inductive, PTL

\* The native session is closed at most once, and never under a call that was
\* given its pointer, however Close, the cleanup and the calls interleave.
THEOREM NeverUsedAfterClose == Spec => []SessionValidInUse
<1>1. IInv => SessionValidInUse
  <2> SUFFICES ASSUME IInv PROVE SessionValidInUse
    BY Zenon
  <2>1. closes <= 1
    BY DEF IInv, TypeOK, SessionInv
  <2>2. ASSUME NEW o \in Ops, UsesSession(o), pc[o] \in GivenPtr PROVE closes = 0
    <3>1. ptr /\ pc[o] \in Running
      BY Zenon, <2>2 DEF IInv, SessionInv, GivenPtr, Running, Pcs
    <3>2. armed
      BY Zenon, <2>2, <3>1 DEF IInv, SessionInv
    <3> QED BY Zenon, <3>2 DEF IInv, SessionInv
  <2> QED BY <2>1, <2>2 DEF SessionValidInUse, GivenPtr
<1> QED BY <1>1, Inductive, PTL

\* A call to the backend that an operation is waiting for is never refused by
\* the registry.
THEOREM BackendThereWhenAwaited == Spec => []AwaitedCallServed
<1>1. IInv => AwaitedCallServed
  BY Zenon DEF IInv, LentInv, AwaitedCallServed
<1> QED BY <1>1, Inductive, PTL

\* The backend is registered exactly while the session, a dataset, a stream or
\* a running operation owns a clone of the native session.
THEOREM RegisteredWhileOwned == Spec => []BackendFollowsOwners
<1>1. IInv => BackendFollowsOwners
  BY Zenon DEF IInv, OwnerInv, BackendFollowsOwners
<1> QED BY <1>1, Inductive, PTL

\* An exported reader is left behind only by the early returns of ffiCall.
THEOREM ReaderHandedOver == Spec => []ReaderLeftOnlyBeforeNative
<1>1. IInv => ReaderLeftOnlyBeforeNative
  BY Zenon DEF IInv, LentInv, Returned, ReaderLeftOnlyBeforeNative
<1> QED BY <1>1, Inductive, PTL

\* A call that has returned holds neither the lock nor a registration.
THEOREM CallsReturnClean == Spec => []ReturnsClean
<1>1. IInv => ReturnsClean
  BY DEF IInv, LockInv, LentInv, GivenPtr, ReturnsClean
<1> QED BY <1>1, Inductive, PTL

-----------------------------------------------------------------------------
(* The session implements the lease of PluginLease.                        *)

\* Letting go of a clone is a step of the lease, or nothing if there was none.
LEMMA DropCloneIsDrop ==
    ASSUME NEW x \in Ops \cup {Handle}, DropClone(x)
    PROVE  [Lease!Next]_<<owners, backend>>
<1>1. CASE x \in owners
  BY <1>1 DEF DropClone, Lease!Next, Lease!Drop
<1>2. CASE x \notin owners
  BY <1>2 DEF DropClone
<1> QED BY Zenon, <1>1, <1>2

\* A native function that clones the session has one to clone from.
LEMMA DriveIsClone ==
    ASSUME IInv, NEW o \in Ops, Drive(o)
    PROVE  [Lease!Next]_<<owners, backend>>
<1>1. CASE o \in Sessionless
  BY <1>1 DEF Drive
<1>2. CASE o \notin Sessionless
  <2>1. pc[o] = "native" /\ owners' = owners \cup {o} /\ UNCHANGED backend
    BY Zenon, <1>2 DEF Drive
  <2>2. pc[o] \in Running /\ pc[o] \in GivenPtr
    BY <2>1 DEF Running, Pcs, GivenPtr
  <2>3. owners # {}
    <3>1. CASE Kind[o] = "scan"
      BY Zenon, <2>2, <3>1 DEF IInv, OwnerInv
    <3>2. CASE Kind[o] # "scan"
      <4>1. ptr /\ UsesSession(o)
        BY Zenon, <1>2, <2>2, <3>2 DEF IInv, SessionInv, UsesSession
      <4>2. armed
        BY <2>2, <4>1 DEF IInv, SessionInv
      <4> QED BY Zenon, <4>2 DEF IInv, SessionInv
    <3> QED BY Zenon, <3>1, <3>2
  <2> QED BY Zenon, <2>1, <2>3 DEF Lease!Next, Lease!Clone
<1> QED BY Zenon, <1>1, <1>2

\* Every step of the session is a step of the lease or leaves it alone.
LEMMA StepIsLeaseStep ==
    IInv /\ [Next]_vars => [Lease!Next]_<<owners, backend>>
<1> SUFFICES ASSUME IInv, [Next]_vars PROVE [Lease!Next]_<<owners, backend>>
  BY Zenon
<1>1. CASE NewSession
  BY <1>1 DEF NewSession, Lease!Next, Lease!New, Lease!Refused
<1>2. CASE ReleaseBackend
  BY <1>2 DEF ReleaseBackend, Lease!Next, Lease!Release
<1>3. CASE RunCleanup
  BY Zenon, <1>3, DropCloneIsDrop DEF RunCleanup
<1>4. ASSUME NEW o \in Ops, CloseSession(o) \/ Cancelled(o) \/ CloseResult(o)
      PROVE  [Lease!Next]_<<owners, backend>>
  BY Zenon, <1>4, DropCloneIsDrop DEF CloseSession, Cancelled, CloseResult, lease
<1>5. ASSUME NEW o \in Ops, NEW r \in {"ok", "failed"}, Complete(o, r)
      PROVE  [Lease!Next]_<<owners, backend>>
  BY <1>5, DropCloneIsDrop DEF Complete, lease
<1>6. ASSUME NEW o \in Ops, OpStep(o) PROVE [Lease!Next]_<<owners, backend>>
  BY <1>4, <1>5, <1>6, DriveIsClone, Zenon
     DEF OpStep, CheckCtx, RegisterProgress, LockSession, Export, FfiCall,
         RejectArguments, ReportProgress, ProgressReturns, CallBackend, Lookup,
         BackendReturns, DropReader, Unlock, Unregister, lease
<1>7. ASSUME NEW o \in Ops, Application(o) PROVE [Lease!Next]_<<owners, backend>>
  BY <1>4, <1>7, Zenon DEF Application, CtxDone, Begin, BeginScan, lease
<1>8. CASE Forget \/ Quiescent \/ UNCHANGED vars
  BY <1>8 DEF Forget, Quiescent, vars, lease
<1> QED BY <1>1, <1>2, <1>3, <1>6, <1>7, <1>8 DEF Next, Collector

\* A session, its datasets and its operations together treat the registration
\* of the cache backend as OwnedGoPlugin promises.
THEOREM SessionKeepsLease == Spec => ImplementsLease
<1>1. Init => Lease!Init
  BY DEF Init, Lease!Init
<1> QED BY <1>1, StepIsLeaseStep, Inductive, PTL
        DEF Spec, ImplementsLease, Lease!Spec, Lease!vars

-----------------------------------------------------------------------------
(* Waiting and progress.                                                   *)

\* What a step of another call leaves alone.
Untouched(d) ==
    /\ pc'[d] = pc[d] /\ result'[d] = result[d] /\ report'[d] = report[d]
    /\ call'[d] = call[d] /\ stream'[d] = stream[d]

\* A step of o, of its callbacks or of its reader concerns no other call.
LEMMA OpStepOthers ==
    ASSUME IInv, NEW o \in Ops, OpStep(o)
    PROVE  outer' = outer /\ \A d \in Ops \ {o} : Untouched(d)
<1> USE DEF Untouched, Goto, Return, go, session, lease, hooks
<1>1. TypeOK
  BY Zenon DEF IInv
<1>2. CASE CheckCtx(o)
  BY Zenon, <1>1, <1>2 DEF CheckCtx, TypeOK
<1>3. CASE RegisterProgress(o)
  BY Zenon, <1>1, <1>3 DEF RegisterProgress, TypeOK
<1>4. CASE LockSession(o)
  BY <1>1, <1>4 DEF LockSession, TypeOK
<1>5. CASE CloseSession(o)
  BY Zenon, <1>1, <1>5 DEF CloseSession, TypeOK
<1>6. CASE Export(o)
  BY Zenon, <1>1, <1>6 DEF Export, TypeOK
<1>7. CASE FfiCall(o)
  BY <1>1, <1>7 DEF FfiCall, TypeOK
<1>8. CASE RejectArguments(o)
  BY Zenon, <1>1, <1>8 DEF RejectArguments, TypeOK
<1>9. CASE Drive(o)
  BY Zenon, <1>1, <1>9 DEF Drive, TypeOK
<1>10. CASE ReportProgress(o)
  BY Zenon, <1>1, <1>10 DEF ReportProgress, TypeOK
<1>11. CASE ProgressReturns(o)
  BY Zenon, <1>1, <1>11 DEF ProgressReturns, TypeOK
<1>12. CASE CallBackend(o)
  BY Zenon, <1>1, <1>12 DEF CallBackend, TypeOK
<1>13. CASE Lookup(o)
  BY Zenon, <1>1, <1>13 DEF Lookup, TypeOK
<1>14. CASE BackendReturns(o)
  BY Zenon, <1>1, <1>14 DEF BackendReturns, TypeOK
<1>15. CASE Cancelled(o)
  BY Zenon, <1>1, <1>15 DEF Cancelled, TypeOK
<1>16. CASE DropReader(o)
  BY Zenon, <1>1, <1>16 DEF DropReader, TypeOK
<1>17. CASE Unlock(o)
  BY Zenon, <1>1, <1>17 DEF Unlock, TypeOK
<1>18. CASE Unregister(o)
  BY Zenon, <1>1, <1>18 DEF Unregister, TypeOK
<1>19. CASE \E r \in {"ok", "failed"} : Complete(o, r)
  BY <1>1, <1>19 DEF Complete, TypeOK
<1> QED
  BY <1>2, <1>3, <1>4, <1>5, <1>6, <1>7, <1>8, <1>9, <1>10, <1>11, <1>12, <1>13, <1>14, <1>15, <1>16, <1>17, <1>18, <1>19, Zenon
  DEF OpStep

\* A step of o brings o closer to its end.
LEMMA OpStepCloser ==
    ASSUME IInv, WaitInv, NEW o \in Ops, OpStep(o)
    PROVE  StepsLeft(o)' < StepsLeft(o)
<1> USE DEF Goto, Return, go, session, lease, hooks, StepsLeft, CallSteps, ReportSteps,
      BackendSteps, ReaderSteps
<1>1. TypeOK
  BY DEF IInv
<1>2. CASE CheckCtx(o)
  BY <1>1, <1>2 DEF CheckCtx, TypeOK
<1>3. CASE RegisterProgress(o)
  BY <1>1, <1>3 DEF RegisterProgress, TypeOK
<1>4. CASE LockSession(o)
  BY <1>1, <1>4 DEF LockSession, TypeOK, Locked
<1>5. CASE CloseSession(o)
  BY <1>1, <1>5 DEF CloseSession, TypeOK
<1>6. CASE Export(o)
  BY <1>1, <1>6 DEF Export, TypeOK, WaitInv
<1>7. CASE FfiCall(o)
  BY <1>1, <1>7 DEF FfiCall, TypeOK
<1>8. CASE RejectArguments(o)
  BY <1>1, <1>8 DEF RejectArguments, TypeOK, HasReader
<1>9. CASE Drive(o)
  BY <1>1, <1>9 DEF Drive, TypeOK, HasReader
<1>10. CASE ReportProgress(o)
  BY <1>1, <1>10 DEF ReportProgress, TypeOK
<1>11. CASE ProgressReturns(o)
  BY <1>1, <1>11 DEF ProgressReturns, TypeOK
<1>12. CASE CallBackend(o)
  BY <1>1, <1>12 DEF CallBackend, TypeOK
<1>13. CASE Lookup(o)
  BY <1>1, <1>13 DEF Lookup, TypeOK
<1>14. CASE BackendReturns(o)
  BY <1>1, <1>14 DEF BackendReturns, TypeOK
<1>15. CASE Cancelled(o)
  BY <1>1, <1>15 DEF Cancelled, TypeOK
<1>16. CASE DropReader(o)
  BY <1>1, <1>16 DEF DropReader, TypeOK
<1>17. CASE Unlock(o)
  BY <1>1, <1>17 DEF Unlock, TypeOK
<1>18. CASE Unregister(o)
  BY <1>1, <1>18 DEF Unregister, TypeOK
<1>19. CASE \E r \in {"ok", "failed"} : Complete(o, r)
  BY <1>1, <1>19 DEF Complete, TypeOK
<1> QED
  BY <1>2, <1>3, <1>4, <1>5, <1>6, <1>7, <1>8, <1>9, <1>10, <1>11, <1>12, <1>13, <1>14, <1>15, <1>16, <1>17, <1>18, <1>19, ZenonT(30)
  DEF OpStep

\* The call of a callback stays out of native functions, and every path out of a
\* native function but a cancellation drops the reader.
LEMMA WaitOpStep ==
    ASSUME IInv, WaitInv, NEW o \in Ops, OpStep(o)
    PROVE  WaitInv'
<1> USE SessionAssumption DEF Goto, Return, go, session, lease, hooks
<1>1. TypeOK /\ WaitInv /\ LentInv
  BY Zenon DEF IInv
<1>2. CASE CheckCtx(o)
  BY <1>1, <1>2 DEF CheckCtx, TypeOK, WaitInv, ReaderOwed
<1>3. CASE RegisterProgress(o)
  BY <1>1, <1>3 DEF RegisterProgress, TypeOK, WaitInv, ReaderOwed
<1>4. CASE LockSession(o)
  BY <1>1, <1>4 DEF LockSession, TypeOK, WaitInv, ReaderOwed, Locked
<1>5. CASE CloseSession(o)
  BY <1>1, <1>5 DEF CloseSession, TypeOK, WaitInv, ReaderOwed
<1>6. CASE Export(o)
  BY <1>1, <1>6 DEF Export, TypeOK, WaitInv, ReaderOwed
<1>7. CASE FfiCall(o)
  BY <1>1, <1>7 DEF FfiCall, TypeOK, WaitInv, ReaderOwed
<1>8. CASE RejectArguments(o)
  BY SMTT(20), <1>1, <1>8 DEF RejectArguments, TypeOK, WaitInv, ReaderOwed, HasReader
<1>9. CASE Drive(o)
  BY <1>1, <1>9 DEF Drive, TypeOK, WaitInv, ReaderOwed, HasReader
<1>10. CASE ReportProgress(o)
  BY <1>1, <1>10, Zenon DEF ReportProgress, TypeOK, WaitInv, ReaderOwed
<1>11. CASE ProgressReturns(o)
  BY <1>1, <1>11, Zenon DEF ProgressReturns, TypeOK, WaitInv, ReaderOwed
<1>12. CASE CallBackend(o)
  BY <1>1, <1>12, Zenon DEF CallBackend, TypeOK, WaitInv, ReaderOwed
<1>13. CASE Lookup(o)
  BY <1>1, <1>13, Zenon DEF Lookup, TypeOK, WaitInv, ReaderOwed
<1>14. CASE BackendReturns(o)
  BY <1>1, <1>14, ZenonT(30) DEF BackendReturns, TypeOK, WaitInv, ReaderOwed
<1>15. CASE Cancelled(o)
  BY SMTT(20), <1>1, <1>15 DEF Cancelled, TypeOK, WaitInv, ReaderOwed
<1>16. CASE DropReader(o)
  BY SMTT(20), <1>1, <1>16 DEF DropReader, TypeOK, WaitInv, ReaderOwed
<1>17. CASE Unlock(o)
  BY SMTT(20), <1>1, <1>17 DEF Unlock, TypeOK, WaitInv, ReaderOwed
<1>18. CASE Unregister(o)
  BY SMTT(20), <1>1, <1>18 DEF Unregister, TypeOK, WaitInv, ReaderOwed
<1>19. CASE \E r \in {"ok", "failed"} : Complete(o, r)
  BY <1>1, <1>19 DEF Complete, TypeOK, WaitInv, ReaderOwed
<1> QED
  BY Zenon, <1>2, <1>3, <1>4, <1>5, <1>6, <1>7, <1>8, <1>9, <1>10, <1>11, <1>12, <1>13, <1>14, <1>15, <1>16, <1>17, <1>18, <1>19
  DEF OpStep

\* WaitInv is an invariant too.
LEMMA WaitInductive == Spec => [](IInv /\ WaitInv)
<1>1. Init => WaitInv
  BY DEF Init, WaitInv, ReaderOwed
<1>2. IInv /\ WaitInv /\ [Next]_vars => WaitInv'
  <2> SUFFICES ASSUME IInv, WaitInv, [Next]_vars PROVE WaitInv'
    OBVIOUS
  <2> USE SessionAssumption DEF WaitInv, ReaderOwed, Goto, go, session, lease, hooks
  <2>1. TypeOK
    BY Zenon DEF IInv
  <2>2. ASSUME NEW o \in Ops, Application(o) PROVE WaitInv'
    <3>1. CASE Begin(o)
      BY SMTT(20), <2>1, <3>1 DEF Begin, First, TypeOK
    <3>2. ASSUME NEW d \in Ops, BeginScan(o, d) PROVE WaitInv'
      BY SMTT(20), <2>1, <3>2 DEF BeginScan, TypeOK
    <3>3. CASE CtxDone(o) \/ CloseResult(o)
      BY ZenonT(30), <3>3 DEF CtxDone, CloseResult
    <3> QED BY <2>2, <3>1, <3>2, <3>3, ZenonT(30) DEF Application
  <2>3. CASE NewSession \/ Forget \/ Collector \/ UNCHANGED vars
    BY Zenon, <2>3 DEF NewSession, Forget, Collector, ReleaseBackend, RunCleanup, vars
  <2> QED BY <2>2, <2>3, WaitOpStep, Zenon DEF Next, Quiescent
<1> QED BY <1>1, <1>2, InitInv, NextInv, PTL DEF Spec

\* A reader the native side has taken and not released is with a running or a
\* cancelled write.
THEOREM ReaderAlwaysOwed == Spec => []ReaderOwed
<1>1. WaitInv => ReaderOwed
  BY DEF WaitInv
<1> QED BY <1>1, WaitInductive, PTL

\* The session's lock and the progress callbacks never wait for each other in a
\* circle, as long as the callbacks stay away from the session.
THEOREM NeverWaitsInCircle == Spec => []NoCircularWait
<1>1. ASSUME IInv, WaitInv, Nested \subseteq Sessionless, NEW o \in Ops, NEW p \in Ops,
             WaitsFor(o, p)
      PROVE  InProgress(p) /\ Rank(p) < Rank(o)
  <2>1. CASE pc[o] = "lock" /\ mu = p
    <3>1. pc[p] \in GivenPtr \cup {"close", "unlock"}
      BY Zenon, <1>1, <2>1 DEF IInv, LockInv
    <3>2. InProgress(p) /\ pc[p] # "lock"
      BY <3>1 DEF InProgress, GivenPtr
    <3> QED BY <2>1, <3>2 DEF Rank
  <2>2. CASE report[o] = "running" /\ p \in Nested /\ outer[p] = o /\ pc[p] # "done"
    <3>1. pc[o] = "driving" /\ ~UsesSession(p)
      BY Zenon, <1>1, <2>2 DEF IInv, LentInv, UsesSession
    <3>2. pc[p] \notin {"idle", "native", "driving", "lock", "done"}
      BY ZenonT(30), <1>1, <2>2, <3>1, SessionAssumption DEF WaitInv, IInv, LockInv
    <3> QED BY SMTT(20), <3>1, <3>2 DEF InProgress, Rank
  <2> QED BY <1>1, <2>1, <2>2 DEF WaitsFor
<1>2. ASSUME IInv, NEW o \in Ops, InProgress(o), ~Ready(o)
      PROVE  \E p \in Ops : WaitsFor(o, p)
  BY Zenon, <1>2, SessionAssumption DEF Ready, WaitsFor, IInv, TypeOK
<1>3. IInv /\ WaitInv => NoCircularWait
  BY <1>1, <1>2, Zenon DEF NoCircularWait
<1> QED BY <1>3, WaitInductive, PTL

\* So some call can always go on.
THEOREM NeverStuck == Spec => []SomeoneCanGoOn
<1>1. NoCircularWait => SomeoneCanGoOn
  <2> SUFFICES ASSUME NoCircularWait, Nested \subseteq Sessionless,
                      \A o \in Ops : ~Ready(o), NEW q \in Ops, InProgress(q)
               PROVE  FALSE
    BY Zenon DEF SomeoneCanGoOn
  <2>1. ASSUME NEW o \in Ops, InProgress(o)
        PROVE  \E p \in Ops : InProgress(p) /\ Rank(p) < Rank(o)
    BY <2>1 DEF NoCircularWait
  <2>2. \A o \in Ops : Rank(o) \in {0, 1, 2}
    BY Zenon DEF Rank
  <2>3. ASSUME NEW o \in Ops, InProgress(o), Rank(o) = 0 PROVE FALSE
    BY <2>1, <2>2, <2>3
  <2>4. ASSUME NEW o \in Ops, InProgress(o), Rank(o) = 1 PROVE FALSE
    BY <2>1, <2>2, <2>3, <2>4
  <2>5. ASSUME NEW o \in Ops, InProgress(o), Rank(o) = 2 PROVE FALSE
    BY <2>1, <2>2, <2>3, <2>4, <2>5
  <2> QED BY Zenon, <2>2, <2>3, <2>4, <2>5
<1> QED BY <1>1, NeverWaitsInCircle, PTL

\* No interleaving sets a call back, and each of its steps, of its callbacks and
\* of its reader brings the end closer.
THEOREM OpsAdvance == Spec => OpAdvances
<1>1. ASSUME IInv, WaitInv, [Next]_vars, NEW d \in Ops PROVE StepsLeft(d)' <= StepsLeft(d)
  <2>1. TypeOK /\ StepsLeft(d) \in Nat /\ StepsLeft(d)' \in Nat
    BY <1>1 DEF IInv, StepsLeft, CallSteps, ReportSteps, BackendSteps, ReaderSteps
  <2>2. ASSUME report'[d] = report[d], call'[d] = call[d], stream'[d] = stream[d],
               pc'[d] = pc[d] \/ pc[d] = "idle"
        PROVE  StepsLeft(d)' <= StepsLeft(d)
    <3>1. /\ ReportSteps(d)' = ReportSteps(d) /\ ReportSteps(d) \in Nat
          /\ BackendSteps(d)' = BackendSteps(d) /\ BackendSteps(d) \in Nat
          /\ ReaderSteps(d)' = ReaderSteps(d) /\ ReaderSteps(d) \in Nat
      BY <2>2 DEF ReportSteps, BackendSteps, ReaderSteps
    <3>2. CallSteps(d)' <= CallSteps(d) /\ CallSteps(d) \in Nat /\ CallSteps(d)' \in Nat
      BY <2>2 DEF CallSteps
    <3> QED BY <3>1, <3>2 DEF StepsLeft
  <2>3. ASSUME NEW o \in Ops, OpStep(o) PROVE StepsLeft(d)' <= StepsLeft(d)
    <3>1. CASE d = o
      BY SMTT(20), <1>1, <2>1, <2>3, <3>1, OpStepCloser
    <3>2. CASE d # o
      BY Zenon, <1>1, <2>2, <2>3, <3>2, OpStepOthers DEF Untouched
    <3> QED BY Zenon, <3>1, <3>2
  <2>4. ASSUME NEW o \in Ops, Application(o) PROVE StepsLeft(d)' <= StepsLeft(d)
    <3>1. CASE CtxDone(o) \/ CloseResult(o)
      BY Zenon, <2>2, <3>1 DEF CtxDone, CloseResult, go, hooks
    <3>2. CASE Begin(o)
      BY Zenon, <2>1, <2>2, <3>2 DEF Begin, Goto, go, hooks, TypeOK
    <3>3. ASSUME NEW e \in Ops, BeginScan(o, e) PROVE StepsLeft(d)' <= StepsLeft(d)
      BY Zenon, <2>1, <2>2, <3>3 DEF BeginScan, Goto, go, hooks, TypeOK
    <3> QED BY Zenon, <2>4, <3>1, <3>2, <3>3 DEF Application
  <2>5. CASE NewSession \/ Forget \/ Collector \/ UNCHANGED vars
    BY Zenon, <2>2, <2>5 DEF NewSession, Forget, Collector, ReleaseBackend, RunCleanup, vars, go, hooks
  <2> QED BY Zenon, <1>1, <2>3, <2>4, <2>5 DEF Next, Quiescent
<1>2. ASSUME IInv, WaitInv, [Next]_vars
      PROVE  [\A o \in Ops :
                /\ StepsLeft(o)' <= StepsLeft(o)
                /\ OpStep(o) => StepsLeft(o)' < StepsLeft(o)]_vars
  BY Zenon, <1>1, <1>2, OpStepCloser
<1> QED BY <1>2, WaitInductive, PTL DEF Spec, OpAdvances

-----------------------------------------------------------------------------
(* The session implements SharedHandle.                                    *)

Inside(o) == UsesSession(o) /\ pc[o] \in GivenPtr

\* A session that a running call finds under its lock has not been closed.
LEMMA UnclosedInUse ==
    ASSUME IInv, NEW o \in Ops, UsesSession(o), pc[o] \in Running, ptr
    PROVE  armed /\ closes = 0
BY Zenon DEF IInv, SessionInv

\* A step of o that closes nothing enters, leaves or stutters.
LEMMA UserStep ==
    ASSUME NEW o \in Ops, closes' = closes,
           \A d \in Ops \ {o} : Inside(d)' <=> Inside(d),
           Inside(o)' /\ ~Inside(o) => closes = 0
    PROVE  [Shared!Next]_(Shared!vars)
<1> DEFINE using == {d \in Ops : Inside(d)}
<1>0. using = {d \in Ops : UsesSession(d) /\ pc[d] \in {"export", "ffi", "native", "driving"}}
  BY Zenon DEF Inside, GivenPtr
<1>1. CASE Inside(o)' <=> Inside(o)
  BY Zenon, <1>0, <1>1 DEF Shared!vars, Inside, GivenPtr
<1>2. CASE Inside(o)' /\ ~Inside(o)
  <2>1. using' = using \cup {o}
    BY Zenon, <1>2
  <2>2. Shared!Enter(o)
    BY Zenon, <1>2, <2>1 DEF Shared!Enter, Inside, GivenPtr
  <2> QED BY Zenon, <2>2 DEF Shared!Next
<1>3. CASE ~Inside(o)' /\ Inside(o)
  <2>1. using' = using \ {o}
    BY Zenon, <1>3
  <2>2. Shared!Leave(o)
    BY Zenon, <1>3, <2>1 DEF Shared!Leave, Inside, GivenPtr
  <2> QED BY Zenon, <2>2 DEF Shared!Next
<1> QED BY Zenon, <1>1, <1>2, <1>3

\* Closing the native session with nobody inside.
LEMMA FreeStep ==
    ASSUME closes = 0, closes' = 1, \A d \in Ops : ~Inside(d) /\ ~Inside(d)'
    PROVE  Shared!Next
<1>1. Shared!Free
  BY Zenon DEF Shared!Free, Inside, GivenPtr
<1> QED BY Zenon, <1>1 DEF Shared!Next

\* Only LockSession gives a call the session, and only CloseSession closes it.
LEMMA OnlyLockEnters ==
    ASSUME TypeOK, NEW o \in Ops, OpStep(o), ~CloseSession(o), ~LockSession(o)
    PROVE  closes' = closes /\ (Inside(o)' => Inside(o))
<1> USE DEF Goto, Return, go, session, lease, hooks, Inside, UsesSession, GivenPtr
<1>1. CASE CheckCtx(o)
  BY Zenon, <1>1 DEF CheckCtx, TypeOK
<1>2. CASE RegisterProgress(o)
  BY Zenon, <1>2 DEF RegisterProgress, TypeOK
<1>3. CASE Export(o)
  BY Zenon, <1>3 DEF Export, TypeOK
<1>4. CASE FfiCall(o)
  BY Zenon, <1>4 DEF FfiCall, TypeOK
<1>5. CASE RejectArguments(o)
  BY Zenon, <1>5 DEF RejectArguments, TypeOK
<1>6. CASE Drive(o)
  BY Zenon, <1>6 DEF Drive, TypeOK
<1>7. CASE ReportProgress(o)
  BY Zenon, <1>7 DEF ReportProgress, TypeOK
<1>8. CASE ProgressReturns(o)
  BY Zenon, <1>8 DEF ProgressReturns, TypeOK
<1>9. CASE CallBackend(o)
  BY Zenon, <1>9 DEF CallBackend, TypeOK
<1>10. CASE Lookup(o)
  BY Zenon, <1>10 DEF Lookup, TypeOK
<1>11. CASE BackendReturns(o)
  BY Zenon, <1>11 DEF BackendReturns, TypeOK
<1>12. CASE \E r \in {"ok", "failed"} : Complete(o, r)
  BY Zenon, <1>12 DEF Complete, TypeOK
<1>13. CASE Cancelled(o)
  BY Zenon, <1>13 DEF Cancelled, TypeOK
<1>14. CASE DropReader(o)
  BY Zenon, <1>14 DEF DropReader, TypeOK
<1>15. CASE Unlock(o)
  BY Zenon, <1>15 DEF Unlock, TypeOK
<1>16. CASE Unregister(o)
  BY <1>16 DEF Unregister, TypeOK
<1> QED BY ZenonT(30), <1>1, <1>2, <1>3, <1>4, <1>5, <1>6, <1>7, <1>8, <1>9,
  <1>10, <1>11, <1>12, <1>13, <1>14, <1>15, <1>16 DEF OpStep

\* A session keeps the promise of SharedHandle for any number of calls: its
\* pointer is given out only while it exists, and it is closed once, with no call
\* inside.
THEOREM SessionImplementsShared == Spec => ImplementsHandle
<1>1. Init => Shared!Init
  BY Zenon DEF Init, Shared!Init
<1>2. ASSUME IInv, [Next]_vars PROVE [Shared!Next]_(Shared!vars)
  <2> USE <1>2 DEF Goto, Return, go, session, lease, hooks
  <2>1. TypeOK /\ LockInv
    BY Zenon DEF IInv
  <2>2. ASSUME NEW o \in Ops, OpStep(o), ~CloseSession(o)
        PROVE  [Shared!Next]_(Shared!vars)
    <3>1. \A d \in Ops \ {o} : Inside(d)' <=> Inside(d)
      BY Zenon, <2>2, OpStepOthers DEF Inside, UsesSession, Untouched
    <3>2. closes' = closes
      <4>1. CASE LockSession(o)
        BY <4>1 DEF LockSession
      <4> QED BY Zenon, <2>1, <2>2, <4>1, OnlyLockEnters
    <3>3. ASSUME Inside(o)', ~Inside(o) PROVE closes = 0
      <4>1. CASE LockSession(o)
        <5>1. ptr /\ pc[o] = "lock" /\ UsesSession(o)
          BY Zenon, <2>1, <3>3, <4>1 DEF LockSession, Locked, Inside, UsesSession, GivenPtr, TypeOK
        <5> QED BY Zenon, <5>1, UnclosedInUse DEF Running, Pcs
      <4>2. CASE ~LockSession(o)
        BY Zenon, <2>1, <2>2, <3>3, <4>2, OnlyLockEnters
      <4> QED BY Zenon, <4>1, <4>2
    <3> QED BY Zenon, <3>1, <3>2, <3>3, UserStep
  <2>3. ASSUME NEW o \in Ops, CloseSession(o) PROVE [Shared!Next]_(Shared!vars)
    <3>1. /\ pc[o] = "close" /\ UsesSession(o)
          /\ pc' = [pc EXCEPT ![o] = "unlock"]
          /\ closes' = IF ptr THEN closes + 1 ELSE closes
      BY Zenon, <2>1, <2>3 DEF CloseSession, LockInv
    <3>2. \A d \in Ops : ~Inside(d) /\ ~Inside(d)'
      BY <2>1, <3>1 DEF LockInv, Inside, UsesSession, GivenPtr, TypeOK
    <3>3. CASE ptr
      <4>1. closes = 0 /\ closes' = 1
        BY <3>1, <3>3, UnclosedInUse DEF Running, Pcs
      <4> QED BY Zenon, <3>2, <4>1, FreeStep
    <3>4. CASE ~ptr
      BY Zenon, <3>1, <3>2, <3>4, UserStep
    <3> QED BY Zenon, <3>3, <3>4
  <2>4. ASSUME NEW o \in Ops, Application(o) PROVE [Shared!Next]_(Shared!vars)
    <3>1. /\ closes' = closes
          /\ \A d \in Ops \ {o} : pc'[d] = pc[d]
          /\ \/ pc'[o] = pc[o]
             \/ pc'[o] \in {"ctx?", "lock"}
             \/ Kind[o] = "scan"
      BY ZenonT(30), <2>1, <2>4
         DEF Application, CtxDone, Begin, First, BeginScan, CloseResult, TypeOK
    <3>2. /\ \A d \in Ops \ {o} : Inside(d)' <=> Inside(d)
          /\ Inside(o)' => Inside(o)
      BY <3>1 DEF Inside, UsesSession, GivenPtr
    <3> QED BY Zenon, <3>1, <3>2, UserStep
  <2>5. CASE RunCleanup
    <3>1. /\ armed /\ closes' = closes + 1 /\ pc' = pc
          /\ \A o \in Ops : UsesSession(o) => pc[o] \in {"idle", "done"}
      BY Zenon, <2>5 DEF RunCleanup
    <3>2. closes = 0 /\ closes' = 1
      BY <3>1 DEF IInv, SessionInv
    <3>3. \A d \in Ops : ~Inside(d) /\ ~Inside(d)'
      BY Zenon, <3>1 DEF Inside, UsesSession, GivenPtr
    <3> QED BY <3>2, <3>3, FreeStep
  <2>6. CASE NewSession \/ Forget \/ ReleaseBackend \/ UNCHANGED vars
    BY <2>6 DEF NewSession, Forget, ReleaseBackend, vars, Shared!vars
  <2> QED BY <1>2, <2>2, <2>3, <2>4, <2>5, <2>6 DEF Next, Collector, Quiescent
<1> QED BY <1>1, <1>2, Inductive, PTL DEF Spec, ImplementsHandle, Shared!Spec
=============================================================================
