------------------------ MODULE DatasetHandleProofs ------------------------
(***************************************************************************)
(* The safety properties of DatasetHandle hold for any number of method    *)
(* calls of any kinds and any number of versions.                          *)
(***************************************************************************)
EXTENDS DatasetHandle, TLAPS

\* A method is called.
LEMMA BeginStep ==
    ASSUME IInv, NEW o \in Ops, Begin(o)
    PROVE  IInv'
<1> USE HandleAssumption DEF IInv, Goto, Give, rwmutex, object, data,
      history, Begin
<1>1. TypeOK'
  BY DEF TypeOK, Pcs, Results, OpOrNone
<1>2. LockInv'
  BY DEF TypeOK, LockInv, Reading
<1>3. ObjectInv'
  BY DEF TypeOK, ObjectInv, InFlight, LockInv, Reading, OpOrNone
<1>4. VersionInv'
  BY DEF TypeOK, VersionInv, Guarded, Committing, Unstored, Held, SettledVisible,
         OpOrNone
<1>5. SettledVisible' /\ NewestInv'
  BY DEF TypeOK, VersionInv, SettledVisible, NewestInv, HandleTracksNewest,
         Guarded, Committing, Unstored, Held
<1> QED BY <1>1, <1>2, <1>3, <1>4, <1>5

\* A callback of u calls a method.
LEMMA BeginNestedStep ==
    ASSUME IInv, NEW o \in Ops, NEW u \in Ops, BeginNested(o, u)
    PROVE  IInv'
<1> USE HandleAssumption DEF IInv, Goto, Give, rwmutex, object, data,
      history, BeginNested
<1>1. TypeOK'
  BY DEF TypeOK, Pcs, Results, OpOrNone
<1>2. LockInv'
  BY DEF TypeOK, LockInv, Reading
<1>3. ObjectInv'
  BY DEF TypeOK, ObjectInv, InFlight, LockInv, Reading, OpOrNone
<1>4. VersionInv'
  BY DEF TypeOK, VersionInv, Guarded, Committing, Unstored, Held, SettledVisible,
         OpOrNone
<1>5. SettledVisible' /\ NewestInv'
  BY DEF TypeOK, VersionInv, SettledVisible, NewestInv, HandleTracksNewest,
         Guarded, Committing, Unstored, Held
<1> QED BY <1>1, <1>2, <1>3, <1>4, <1>5

\* The application drops the handle.
LEMMA DropStep ==
    ASSUME IInv, Drop
    PROVE  IInv'
<1> USE HandleAssumption DEF IInv, Goto, Give, rwmutex, object, data,
      history, Drop
<1>1. TypeOK'
  BY DEF TypeOK, Pcs, Results, OpOrNone
<1>2. LockInv'
  BY DEF TypeOK, LockInv, Reading
<1>3. ObjectInv'
  BY DEF TypeOK, ObjectInv, InFlight, LockInv, Reading, OpOrNone
<1>4. VersionInv'
  BY DEF TypeOK, VersionInv, Guarded, Committing, Unstored, Held, SettledVisible,
         OpOrNone
<1>5. SettledVisible' /\ NewestInv'
  BY DEF TypeOK, VersionInv, SettledVisible, NewestInv, HandleTracksNewest,
         Guarded, Committing, Unstored, Held
<1> QED BY <1>1, <1>2, <1>3, <1>4, <1>5

\* The safety net runs: nothing is in flight.
LEMMA RunCleanupStep ==
    ASSUME IInv, RunCleanup
    PROVE  IInv'
<1> USE HandleAssumption DEF IInv, Goto, Give, rwmutex, object, data,
      history, RunCleanup, InFlight
<1>1. TypeOK'
  BY DEF TypeOK, Pcs, Results, OpOrNone
<1>2. LockInv'
  BY DEF TypeOK, LockInv, Reading
<1>3. ObjectInv'
  BY DEF TypeOK, ObjectInv, LockInv, Reading, OpOrNone
<1>4. VersionInv'
  BY DEF TypeOK, VersionInv, Guarded, Committing, Unstored, Held, SettledVisible,
         OpOrNone
<1>5. SettledVisible' /\ NewestInv'
  BY DEF TypeOK, VersionInv, SettledVisible, NewestInv, HandleTracksNewest,
         Guarded, Committing, Unstored, Held
<1> QED BY <1>1, <1>2, <1>3, <1>4, <1>5

\* Somebody else commits.
LEMMA CommitElsewhereStep ==
    ASSUME IInv, CommitElsewhere
    PROVE  IInv'
<1> USE HandleAssumption DEF IInv, Goto, Give, rwmutex, object, data,
      history, CommitElsewhere
<1>1. TypeOK'
  BY DEF TypeOK, Pcs, Results, OpOrNone
<1>2. LockInv'
  BY DEF TypeOK, LockInv, Reading
<1>3. ObjectInv'
  BY DEF TypeOK, ObjectInv, InFlight, LockInv, Reading, OpOrNone
<1>4. VersionInv'
  BY DEF TypeOK, VersionInv, Guarded, Committing, Unstored, Held, SettledVisible,
         OpOrNone
<1>5. SettledVisible' /\ NewestInv'
  BY DEF TypeOK, VersionInv, SettledVisible, NewestInv, HandleTracksNewest,
         Guarded, Committing, Unstored, Held
<1> QED BY <1>1, <1>2, <1>3, <1>4, <1>5

\* The read lock is taken, or the call is parked.
LEMMA RLockStep ==
    ASSUME IInv, NEW o \in Ops, RLock(o)
    PROVE  IInv'
<1> USE HandleAssumption DEF IInv, Goto, Give, rwmutex, object, data,
      history, RLock
<1>1. TypeOK'
  BY DEF TypeOK, Pcs, Results, OpOrNone
<1>2. LockInv'
  BY DEF TypeOK, LockInv, Reading
<1>3. ObjectInv'
  BY DEF TypeOK, ObjectInv, InFlight, LockInv, Reading, OpOrNone
<1>4. VersionInv'
  BY DEF TypeOK, VersionInv, Guarded, Committing, Unstored, Held, SettledVisible,
         OpOrNone
<1>5. SettledVisible' /\ NewestInv'
  BY DEF TypeOK, VersionInv, SettledVisible, NewestInv, HandleTracksNewest,
         Guarded, Committing, Unstored, Held
<1> QED BY <1>1, <1>2, <1>3, <1>4, <1>5

\* The open check.
LEMMA CheckOpenStep ==
    ASSUME IInv, NEW o \in Ops, CheckOpen(o)
    PROVE  IInv'
<1> USE HandleAssumption DEF IInv, Goto, Give, rwmutex, object, data,
      history, CheckOpen
<1>1. TypeOK'
  BY DEF TypeOK, Pcs, Results, OpOrNone
<1>2. LockInv'
  BY DEF TypeOK, LockInv, Reading
<1>3. ObjectInv'
  BY DEF TypeOK, ObjectInv, InFlight, LockInv, Reading, OpOrNone
<1>4. VersionInv'
  BY DEF TypeOK, VersionInv, Guarded, Committing, Unstored, Held, SettledVisible,
         OpOrNone
<1>5. SettledVisible' /\ NewestInv'
  BY Zenon DEF TypeOK, VersionInv, SettledVisible, NewestInv, HandleTracksNewest,
         Guarded, Committing, Unstored, Held
<1> QED BY <1>1, <1>2, <1>3, <1>4, <1>5

\* The early returns of ffiCall.
LEMMA FfiCallStep ==
    ASSUME IInv, NEW o \in Ops, FfiCall(o)
    PROVE  IInv'
<1> USE HandleAssumption DEF IInv, Goto, Give, rwmutex, object, data,
      history, FfiCall
<1>1. TypeOK'
  BY DEF TypeOK, Pcs, Results, OpOrNone
<1>2. LockInv'
  BY DEF TypeOK, LockInv, Reading
<1>3. ObjectInv'
  BY Zenon DEF TypeOK, ObjectInv, InFlight, LockInv, Reading, OpOrNone
<1>4. VersionInv'
  BY DEF TypeOK, VersionInv, Guarded, Committing, Unstored, Held, SettledVisible,
         OpOrNone
<1>5. SettledVisible' /\ NewestInv'
  BY DEF TypeOK, VersionInv, SettledVisible, NewestInv, HandleTracksNewest,
         Guarded, Committing, Unstored, Held
<1> QED BY Zenon, <1>1, <1>2, <1>3, <1>4, <1>5

\* The read lock is released.
LEMMA RUnlockStep ==
    ASSUME IInv, NEW o \in Ops, RUnlock(o)
    PROVE  IInv'
<1> USE HandleAssumption DEF IInv, Goto, Give, rwmutex, object, data,
      history, RUnlock
<1>1. TypeOK'
  BY Zenon DEF TypeOK, Pcs, Results, OpOrNone
<1>2. LockInv'
  BY Zenon DEF TypeOK, LockInv, Reading
<1>3. ObjectInv'
  BY Zenon DEF TypeOK, ObjectInv, InFlight, LockInv, Reading, OpOrNone
<1>4. VersionInv'
  BY Zenon DEF TypeOK, VersionInv, Guarded, Committing, Unstored, Held, SettledVisible,
         OpOrNone
<1>5. SettledVisible' /\ NewestInv'
  BY DEF TypeOK, VersionInv, SettledVisible, NewestInv, HandleTracksNewest,
         Guarded, Committing, Unstored, Held
<1> QED BY Zenon, <1>1, <1>2, <1>3, <1>4, <1>5

\* Arguments are rejected.
LEMMA RejectArgumentsStep ==
    ASSUME IInv, NEW o \in Ops, RejectArguments(o)
    PROVE  IInv'
<1> USE HandleAssumption DEF IInv, Goto, Give, rwmutex, object, data,
      history, RejectArguments
<1>1. TypeOK'
  BY DEF TypeOK, Pcs, Results, OpOrNone
<1>2. LockInv'
  BY Zenon DEF TypeOK, LockInv, Reading
<1>3. ObjectInv'
  BY Zenon DEF TypeOK, ObjectInv, InFlight, LockInv, Reading, OpOrNone
<1>4. VersionInv'
  BY Zenon DEF TypeOK, VersionInv, Guarded, Committing, Unstored, Held, SettledVisible,
         OpOrNone
<1>5. SettledVisible' /\ NewestInv'
  BY DEF TypeOK, VersionInv, SettledVisible, NewestInv, HandleTracksNewest,
         Guarded, Committing, Unstored, Held
<1> QED BY Zenon, <1>1, <1>2, <1>3, <1>4, <1>5

\* A clone is taken.
LEMMA CloneStep ==
    ASSUME IInv, NEW o \in Ops, Clone(o)
    PROVE  IInv'
<1> USE HandleAssumption DEF IInv, Goto, Give, rwmutex, object, data,
      history, Clone
<1>1. TypeOK'
  BY DEF TypeOK, Pcs, Results, OpOrNone
<1>2. LockInv'
  BY Zenon DEF TypeOK, LockInv, Reading
<1>3. ObjectInv'
  BY Zenon DEF TypeOK, ObjectInv, InFlight, LockInv, Reading, OpOrNone
<1>4. VersionInv'
  BY DEF TypeOK, VersionInv, Guarded, Committing, Unstored, Held, SettledVisible,
         OpOrNone
<1>5. SettledVisible' /\ NewestInv'
  BY DEF TypeOK, VersionInv, SettledVisible, NewestInv, HandleTracksNewest,
         Guarded, Committing, Unstored, Held
<1> QED BY Zenon, <1>1, <1>2, <1>3, <1>4, <1>5

\* The guard is taken.
LEMMA TakeGuardStep ==
    ASSUME IInv, NEW o \in Ops, TakeGuard(o)
    PROVE  IInv'
<1> USE HandleAssumption DEF IInv, Goto, Give, rwmutex, object, data,
      history, TakeGuard
<1>1. TypeOK'
  BY Zenon DEF TypeOK, Pcs, Results, OpOrNone, Guarded
<1>2. LockInv'
  BY Zenon DEF TypeOK, LockInv, Reading
<1>3. ObjectInv'
  BY Zenon DEF TypeOK, ObjectInv, InFlight, LockInv, Reading, OpOrNone
<1>4. VersionInv'
  BY DEF TypeOK, VersionInv, Guarded, Committing, Unstored, Held, SettledVisible,
         OpOrNone
<1>5. SettledVisible' /\ NewestInv'
  BY DEF TypeOK, VersionInv, SettledVisible, NewestInv, HandleTracksNewest,
         Guarded, Committing, Unstored, Held
<1> QED BY Zenon, <1>1, <1>2, <1>3, <1>4, <1>5

\* A commit becomes durable.
LEMMA CommitStep ==
    ASSUME IInv, NEW o \in Ops, Commit(o)
    PROVE  IInv'
<1> USE HandleAssumption DEF IInv, Goto, Give, rwmutex, object, data,
      history, Commit
<1>1. TypeOK'
  BY DEF TypeOK, Pcs, Results, OpOrNone
<1>2. LockInv'
  BY Zenon DEF TypeOK, LockInv, Reading
<1>3. ObjectInv'
  BY Zenon DEF TypeOK, ObjectInv, InFlight, LockInv, Reading, OpOrNone
<1>4. VersionInv'
  BY DEF TypeOK, VersionInv, Guarded, Committing, Unstored, Held, SettledVisible,
         OpOrNone
<1>5. SettledVisible' /\ NewestInv'
  BY Zenon DEF TypeOK, VersionInv, SettledVisible, NewestInv, HandleTracksNewest,
         Guarded, Committing, Unstored, Held
<1> QED BY Zenon, <1>1, <1>2, <1>3, <1>4, <1>5

\* A read ends.
LEMMA ReadDoneStep ==
    ASSUME IInv, NEW o \in Ops, ReadDone(o)
    PROVE  IInv'
<1> USE HandleAssumption DEF IInv, Goto, Give, rwmutex, object, data,
      history, ReadDone, Acknowledge
<1>1. TypeOK'
  BY DEF TypeOK, Pcs, Results, OpOrNone
<1>2. LockInv'
  BY Zenon DEF TypeOK, LockInv, Reading
<1>3. ObjectInv'
  BY Zenon DEF TypeOK, ObjectInv, InFlight, LockInv, Reading, OpOrNone
<1>4. VersionInv'
  BY DEF TypeOK, VersionInv, Guarded, Committing, Unstored, Held, SettledVisible,
         OpOrNone
<1>5. SettledVisible' /\ NewestInv'
  BY DEF TypeOK, VersionInv, SettledVisible, NewestInv, HandleTracksNewest,
         Guarded, Committing, Unstored, Held
<1> QED BY Zenon, <1>1, <1>2, <1>3, <1>4, <1>5

\* A mutation ends, its result still to be stored.
LEMMA MutationDoneStep ==
    ASSUME IInv, NEW o \in Ops, MutationDone(o)
    PROVE  IInv'
<1> USE HandleAssumption DEF IInv, Goto, Give, rwmutex, object, data,
      history, MutationDone
<1>1. TypeOK'
  BY Zenon DEF TypeOK, Pcs, Results, OpOrNone
<1>2. LockInv'
  BY Zenon DEF TypeOK, LockInv, Reading
<1>3. ObjectInv'
  BY Zenon DEF TypeOK, ObjectInv, InFlight, LockInv, Reading, OpOrNone
<1>4. VersionInv'
  BY Zenon DEF TypeOK, VersionInv, Guarded, Committing, Unstored, Held, SettledVisible,
         OpOrNone
<1>5. SettledVisible' /\ NewestInv'
  BY Zenon DEF TypeOK, VersionInv, SettledVisible, NewestInv, HandleTracksNewest,
         Guarded, Committing, Unstored, Held
<1> QED BY Zenon, <1>1, <1>2, <1>3, <1>4, <1>5

\* A mutation stores its result.
LEMMA StoreNewDatasetStep ==
    ASSUME IInv, NEW o \in Ops, StoreNewDataset(o)
    PROVE  IInv'
<1> USE HandleAssumption DEF IInv, Goto, Give, rwmutex, object, data,
      history, StoreNewDataset, Acknowledge
<1>1. TypeOK'
  <2>1. Held(o) \in Nat
    BY Zenon DEF TypeOK, Held
  <2> QED BY Zenon, <2>1 DEF TypeOK, Pcs, Results, OpOrNone
<1>2. LockInv'
  BY Zenon DEF TypeOK, LockInv, Reading
<1>3. ObjectInv'
  BY Zenon DEF TypeOK, ObjectInv, InFlight, LockInv, Reading, OpOrNone
<1>4. VersionInv'
  BY DEF TypeOK, VersionInv, Guarded, Committing, Unstored, Held, SettledVisible,
         OpOrNone
<1>5. SettledVisible' /\ NewestInv'
  BY DEF TypeOK, VersionInv, SettledVisible, NewestInv, HandleTracksNewest,
         Guarded, Committing, Unstored, Held
<1> QED BY Zenon, <1>1, <1>2, <1>3, <1>4, <1>5

\* A guarded operation ends.
LEMMA GuardedDoneStep ==
    ASSUME IInv, NEW o \in Ops, GuardedDone(o)
    PROVE  IInv'
<1> USE HandleAssumption DEF IInv, Goto, Give, rwmutex, object, data,
      history, GuardedDone, Acknowledge
<1>1. TypeOK'
  BY Zenon DEF TypeOK, Pcs, Results, OpOrNone, Guarded
<1>2. LockInv'
  BY Zenon DEF TypeOK, LockInv, Reading
<1>3. ObjectInv'
  BY Zenon DEF TypeOK, ObjectInv, InFlight, LockInv, Reading, OpOrNone
<1>4. VersionInv'
  BY DEF TypeOK, VersionInv, Guarded, Committing, Unstored, Held, SettledVisible,
         OpOrNone
<1>5. SettledVisible' /\ NewestInv'
  BY DEF TypeOK, VersionInv, SettledVisible, NewestInv, HandleTracksNewest,
         Guarded, Committing, Unstored, Held
<1> QED BY Zenon, <1>1, <1>2, <1>3, <1>4, <1>5

\* A native operation fails.
LEMMA AbortStep ==
    ASSUME IInv, NEW o \in Ops, Abort(o)
    PROVE  IInv'
<1> USE HandleAssumption DEF IInv, Goto, Give, rwmutex, object, data,
      history, Abort
<1>1. TypeOK'
  BY DEF TypeOK, Pcs, Results, OpOrNone, Guarded
<1>2. LockInv'
  BY Zenon DEF TypeOK, LockInv, Reading
<1>3. ObjectInv'
  BY Zenon DEF TypeOK, ObjectInv, InFlight, LockInv, Reading, OpOrNone
<1>4. VersionInv'
  BY DEF TypeOK, VersionInv, Guarded, Committing, Unstored, Held, SettledVisible,
         OpOrNone
<1>5. SettledVisible' /\ NewestInv'
  BY DEF TypeOK, VersionInv, SettledVisible, NewestInv, HandleTracksNewest,
         Guarded, Committing, Unstored, Held
<1> QED BY Zenon, <1>1, <1>2, <1>3, <1>4, <1>5

\* Close announces itself.
LEMMA LockStep ==
    ASSUME IInv, NEW o \in Ops, Lock(o)
    PROVE  IInv'
<1> USE HandleAssumption DEF IInv, Goto, Give, rwmutex, object, data,
      history, Lock
<1>1. TypeOK'
  BY Zenon DEF TypeOK, Pcs, Results, OpOrNone
<1>2. LockInv'
  BY Zenon DEF TypeOK, LockInv, Reading
<1>3. ObjectInv'
  BY Zenon DEF TypeOK, ObjectInv, InFlight, LockInv, Reading, OpOrNone
<1>4. VersionInv'
  BY Zenon DEF TypeOK, VersionInv, Guarded, Committing, Unstored, Held, SettledVisible,
         OpOrNone
<1>5. SettledVisible' /\ NewestInv'
  BY Zenon DEF TypeOK, VersionInv, SettledVisible, NewestInv, HandleTracksNewest,
         Guarded, Committing, Unstored, Held
<1> QED BY Zenon, <1>1, <1>2, <1>3, <1>4, <1>5

\* Close frees the native handle.
LEMMA CloseNativeStep ==
    ASSUME IInv, NEW o \in Ops, CloseNative(o)
    PROVE  IInv'
<1> USE HandleAssumption DEF IInv, Goto, Give, rwmutex, object, data,
      history, CloseNative
<1>1. TypeOK'
  BY DEF TypeOK, Pcs, Results, OpOrNone
<1>2. LockInv'
  BY Zenon DEF TypeOK, LockInv, Reading
<1>3. ObjectInv'
  BY DEF TypeOK, ObjectInv, InFlight, LockInv, Reading, OpOrNone
<1>4. VersionInv'
  BY Zenon DEF TypeOK, VersionInv, Guarded, Committing, Unstored, Held, SettledVisible,
         OpOrNone
<1>5. SettledVisible' /\ NewestInv'
  BY DEF TypeOK, VersionInv, SettledVisible, NewestInv, HandleTracksNewest,
         Guarded, Committing, Unstored, Held
<1> QED BY Zenon, <1>1, <1>2, <1>3, <1>4, <1>5

\* Close releases the lock.
LEMMA CloseReturnStep ==
    ASSUME IInv, NEW o \in Ops, CloseReturn(o)
    PROVE  IInv'
<1> USE HandleAssumption DEF IInv, Goto, Give, rwmutex, object, data,
      history, CloseReturn
<1>1. TypeOK'
  BY Zenon DEF TypeOK, Pcs, Results, OpOrNone
<1>2. LockInv'
  BY Zenon DEF TypeOK, LockInv, Reading
<1>3. ObjectInv'
  BY DEF TypeOK, ObjectInv, InFlight, LockInv, Reading, OpOrNone
<1>4. VersionInv'
  BY DEF TypeOK, VersionInv, Guarded, Committing, Unstored, Held, SettledVisible,
         OpOrNone, LockInv
<1>5. SettledVisible' /\ NewestInv'
  BY DEF TypeOK, VersionInv, SettledVisible, NewestInv, HandleTracksNewest,
         Guarded, Committing, Unstored, Held
<1> QED BY <1>1, <1>2, <1>3, <1>4, <1>5

-----------------------------------------------------------------------------
\* A handle fresh from newDataset satisfies the invariant.
LEMMA InitInv == Init => IInv
<1> SUFFICES ASSUME Init PROVE IInv
  OBVIOUS
<1> USE HandleAssumption DEF Init
<1>1. TypeOK
  BY Zenon DEF TypeOK, Pcs, Results, OpOrNone
<1>2. LockInv /\ ObjectInv
  BY DEF LockInv, Reading, ObjectInv, InFlight
<1>3. VersionInv /\ SettledVisible /\ NewestInv
  BY DEF VersionInv, Unstored, SettledVisible, NewestInv, HandleTracksNewest
<1> QED BY <1>1, <1>2, <1>3 DEF IInv

\* Every step preserves it.
LEMMA NextInv == IInv /\ [Next]_vars => IInv'
<1> SUFFICES ASSUME IInv, [Next]_vars PROVE IInv'
  BY Zenon
<1>1. ASSUME NEW o \in Ops, OpStep(o) PROVE IInv'
  BY Zenon, <1>1, RLockStep, CheckOpenStep, FfiCallStep, RUnlockStep, CloneStep,
     TakeGuardStep, CommitStep, ReadDoneStep, MutationDoneStep, StoreNewDatasetStep,
     GuardedDoneStep, AbortStep, LockStep, CloseNativeStep, CloseReturnStep
     DEF OpStep, Fail
<1>2. CASE Environment
  BY Zenon, <1>2, BeginStep, BeginNestedStep, DropStep, CommitElsewhereStep, AbortStep,
     RejectArgumentsStep
     DEF Environment, Cancel
<1>3. CASE UNCHANGED vars
  <2> USE <1>3 DEF vars, rwmutex, object, data, history, IInv
  <2>1. TypeOK' /\ LockInv' /\ ObjectInv'
    BY Zenon DEF TypeOK, LockInv, ObjectInv, InFlight
  <2>2. VersionInv' /\ SettledVisible' /\ NewestInv'
    BY Zenon DEF VersionInv, Unstored, Held, SettledVisible, NewestInv, HandleTracksNewest
  <2> QED BY Zenon, <2>1, <2>2
<1> QED BY <1>1, <1>2, <1>3, RunCleanupStep DEF Next, Terminated

\* IInv is an invariant of the specification.
THEOREM Inductive == Spec => []IInv
BY InitInv, NextInv, PTL DEF Spec

-----------------------------------------------------------------------------
\* Every reachable state of a handle is well typed.
THEOREM TypeCorrect == Spec => []TypeOK
<1>1. IInv => TypeOK
  BY DEF IInv
<1> QED BY <1>1, Inductive, PTL

\* No method is ever inside native code with a freed handle, however Close,
\* the collector and the methods interleave.
THEOREM NeverUsedAfterClose == Spec => []NoUseAfterClose
<1>1. IInv => NoUseAfterClose
  <2> SUFFICES ASSUME IInv, NEW o \in Ops,
                      pc[o] \in {"ffi", "native", "driving", "store"}
               PROVE  native = "live"
    BY Zenon DEF NoUseAfterClose
  <2>1. ptr /\ o \in readers /\ InFlight(o)
    BY Zenon DEF IInv, ObjectInv, LockInv, Reading, InFlight
  <2>2. cleanup = "armed" /\ \A n \in Ops : pc[n] # "stop"
    BY Zenon, <2>1 DEF IInv, ObjectInv, LockInv
  <2> QED BY <2>1, <2>2 DEF IInv, ObjectInv
<1> QED BY <1>1, Inductive, PTL

\* Close and the collector never free the native handle twice.
THEOREM NeverFreedTwice == Spec => []FreedOnce
<1>1. IInv => FreedOnce
  BY DEF IInv, ObjectInv, FreedOnce
<1> QED BY <1>1, Inductive, PTL

\* A native handle that is still live is still guarded by the safety net.
THEOREM NeverLeaked == Spec => []NoLeak
<1>1. IInv => NoLeak
  BY Zenon DEF IInv, ObjectInv, NoLeak
<1> QED BY <1>1, Inductive, PTL

\* The mutex in the native handle is never left locked.
THEOREM GuardAlwaysReleased == Spec => []GuardReleased
<1>1. IInv => GuardReleased
  BY DEF IInv, TypeOK, OpOrNone, VersionInv, GuardReleased
<1> QED BY <1>1, Inductive, PTL

\* What a method committed stays visible through the handle, unless a
\* mutation with an older commit was still to be stored when it returned.
THEOREM SettledStaysVisible == Spec => []SettledVisible
<1>1. IInv => SettledVisible
  BY DEF IInv
<1> QED BY <1>1, Inductive, PTL

\* Where no Delete, Update or MergeInsert is used, the handle always tracks
\* the newest version committed through it.
THEOREM GuardedTracksNewest ==
    (\A o \in Ops : Kind[o] # "mutate") => (Spec => []HandleTracksNewest)
<1> SUFFICES ASSUME \A o \in Ops : Kind[o] # "mutate"
             PROVE  Spec => []HandleTracksNewest
  OBVIOUS
<1>1. IInv => HandleTracksNewest
  BY DEF IInv, NewestInv
<1> QED BY <1>1, Inductive, PTL

\* In that case the handle never moves back either.
THEOREM GuardedNeverRegresses ==
    (\A o \in Ops : Kind[o] # "mutate") => (Spec => HandleNeverRegresses)
<1> SUFFICES ASSUME \A o \in Ops : Kind[o] # "mutate"
             PROVE  Spec => HandleNeverRegresses
  OBVIOUS
<1>1. IInv /\ [Next]_vars => [version' >= version]_vars
  <2> SUFFICES ASSUME IInv, Next PROVE version' >= version
    BY Zenon DEF vars
  <2>1. ASSUME NEW o \in Ops, StoreNewDataset(o) PROVE FALSE
    BY Zenon, <2>1 DEF StoreNewDataset, IInv, VersionInv
  <2>2. ASSUME NEW o \in Ops, GuardedDone(o) PROVE version' >= version
    BY <2>2 DEF GuardedDone, Acknowledge, Guarded, Committing, IInv, TypeOK,
                VersionInv
  <2>3. ASSUME NEW o \in Ops, Abort(o) PROVE version' >= version
    BY <2>3 DEF Abort, Guarded, IInv, TypeOK, VersionInv
  <2>4. ASSUME UNCHANGED version PROVE version' >= version
    BY <2>4 DEF IInv, TypeOK
  <2>5. ASSUME NEW o \in Ops, OpStep(o) PROVE version' >= version
    BY <2>1, <2>2, <2>3, <2>4, <2>5, Zenon
       DEF OpStep, RLock, CheckOpen, FfiCall, RUnlock, Clone, TakeGuard, Commit,
           ReadDone, Acknowledge, MutationDone, Fail, Lock, CloseNative,
           CloseReturn, data
  <2>6. CASE Environment
    BY <2>3, <2>4, <2>6, Zenon
       DEF Environment, Begin, Cancel, RejectArguments, BeginNested, Drop,
           CommitElsewhere, data
  <2>7. CASE RunCleanup \/ Terminated
    BY <2>4, <2>7 DEF RunCleanup, Terminated, vars, data
  <2> QED BY <2>5, <2>6, <2>7 DEF Next
<1> QED BY <1>1, Inductive, PTL DEF Spec, HandleNeverRegresses

-----------------------------------------------------------------------------
(* Waiting.                                                                *)

\* Every step of a method preserves WaitInv.
LEMMA WaitOpStep ==
    ASSUME IInv, WaitInv, NEW o \in Ops, OpStep(o) \/ Cancel(o) \/ RejectArguments(o)
    PROVE  WaitInv'
<1> USE HandleAssumption DEF WaitInv, Goto, Give, rwmutex, object, data, history
<1>1. TypeOK /\ LockInv
  BY Zenon DEF IInv
<1>2. CASE RLock(o)
  BY <1>1, <1>2 DEF RLock, TypeOK
<1>3. CASE CheckOpen(o)
  BY <1>1, <1>3 DEF CheckOpen, TypeOK
<1>4. CASE FfiCall(o)
  BY <1>1, <1>4 DEF FfiCall, TypeOK
<1>5. CASE RUnlock(o)
  BY Zenon, <1>1, <1>5 DEF RUnlock, TypeOK
<1>6. CASE Clone(o)
  BY Zenon, <1>1, <1>6 DEF Clone, TypeOK
<1>7. CASE TakeGuard(o)
  BY Zenon, <1>1, <1>7 DEF TakeGuard, TypeOK
<1>8. CASE Commit(o)
  BY Zenon, <1>1, <1>8 DEF Commit, TypeOK
<1>9. CASE ReadDone(o)
  BY Zenon, <1>1, <1>9 DEF ReadDone, Acknowledge, TypeOK
<1>10. CASE MutationDone(o)
  BY Zenon, <1>1, <1>10 DEF MutationDone, TypeOK
<1>11. CASE StoreNewDataset(o)
  BY Zenon, <1>1, <1>11 DEF StoreNewDataset, Acknowledge, TypeOK
<1>12. CASE GuardedDone(o)
  BY Zenon, <1>1, <1>12 DEF GuardedDone, Acknowledge, TypeOK
<1>13. CASE Abort(o)
  BY Zenon, <1>1, <1>13 DEF Abort, TypeOK
<1>14. CASE Lock(o)
  BY Zenon, <1>1, <1>14 DEF Lock, TypeOK
<1>15. CASE CloseNative(o)
  BY Zenon, <1>1, <1>15 DEF CloseNative, TypeOK, LockInv
<1>16. CASE CloseReturn(o)
  BY Zenon, <1>1, <1>16 DEF CloseReturn, TypeOK, LockInv
<1>17. CASE RejectArguments(o)
  BY <1>1, <1>17 DEF RejectArguments, TypeOK
<1> QED
  BY <1>2, <1>3, <1>4, <1>5, <1>6, <1>7, <1>8, <1>9, <1>10, <1>11, <1>12, <1>13, <1>14, <1>15, <1>16, <1>17, Zenon
  DEF OpStep, Fail, Cancel

\* WaitInv is an invariant too.
LEMMA WaitInductive == Spec => [](IInv /\ WaitInv)
<1>1. Init => WaitInv
  BY DEF Init, WaitInv
<1>2. IInv /\ WaitInv /\ [Next]_vars => WaitInv'
  <2> SUFFICES ASSUME IInv, WaitInv, [Next]_vars PROVE WaitInv'
    BY Zenon
  <2> USE HandleAssumption DEF WaitInv, Goto, rwmutex, object, data, history
  <2>1. TypeOK
    BY Zenon DEF IInv
  <2>2. ASSUME NEW o \in Ops, Begin(o) PROVE WaitInv'
    BY Zenon, <2>1, <2>2 DEF Begin, TypeOK
  <2>3. ASSUME NEW o \in Ops, NEW u \in Ops, BeginNested(o, u) PROVE WaitInv'
    BY Zenon, <2>1, <2>3 DEF BeginNested, TypeOK
  <2>4. CASE Drop \/ CommitElsewhere \/ RunCleanup \/ UNCHANGED vars
    BY Zenon, <2>4 DEF Drop, CommitElsewhere, RunCleanup, vars
  <2> QED BY <2>2, <2>3, <2>4, WaitOpStep, Zenon DEF Next, Environment, Terminated
<1> QED BY <1>1, <1>2, InitInv, NextInv, PTL DEF Spec

\* A call that waits does so for a lower one.
LEMMA WaitsDownwards ==
    ASSUME IInv, WaitInv, NoReentrantClose,
           NEW o \in Ops, NEW p \in Ops, WaitsFor(o, p)
    PROVE  InFlight(p) /\ Rank(p) < Rank(o)
<1> USE HandleAssumption
<1>1. TypeOK /\ LockInv /\ VersionInv
  BY DEF IInv
<1>2. CASE (pc[o] = "parked" \/ (pc[o] = "lock" /\ Kind[o] = "close")) /\ writer = p
  <2>1. pc[p] \in {"drain", "stop"} /\ Rank(o) = 4
    BY <1>1, <1>2 DEF LockInv, Rank
  <2> QED BY <2>1 DEF Rank, InFlight
<1>3. CASE pc[o] = "drain" /\ p \in readers
  <2>1. pc[p] \in Reading /\ Rank(o) = 3
    BY <1>1, <1>3 DEF LockInv, Rank
  <2> QED BY <2>1 DEF Rank, InFlight, Reading
<1>4. CASE pc[o] \in {"native", "store"} /\ owner = p
  <2>1. pc[p] = "driving" /\ Rank(o) = 2
    BY Zenon, <1>1, <1>4 DEF VersionInv, Rank
  <2> QED BY <2>1 DEF Rank, InFlight
<1>5. CASE pc[o] = "driving" /\ outer[p] = o /\ pc[p] # "done"
  <2>1. p \in Nested /\ pc[p] \notin {"idle", "native", "driving", "store", "done"}
    BY Zenon, <1>5 DEF WaitInv
  <2>2. Kind[p] # "close" /\ pc[p] \notin {"drain", "stop"} /\ writer = NoOp
    BY Zenon, <1>1, <2>1 DEF NoReentrantClose, WaitInv, LockInv, TypeOK, OpOrNone
  <2>3. pc[p] # "parked"
    BY <1>1, <2>2 DEF WaitInv, LockInv
  <2>4. Rank(o) = 1 /\ Rank(p) = 0
    BY Zenon, <1>5, <2>1, <2>2, <2>3 DEF Rank
  <2> QED BY <2>1, <2>4 DEF InFlight
<1> QED BY Zenon, <1>2, <1>3, <1>4, <1>5 DEF WaitsFor

\* A call in progress that cannot go on waits for some call.
LEMMA ReadyOrWaits ==
    ASSUME IInv, WaitInv, NEW o \in Ops, InFlight(o), ~Ready(o)
    PROVE  \E p \in Ops : WaitsFor(o, p)
<1>1. TypeOK /\ LockInv
  BY Zenon DEF IInv
<1>2. CASE pc[o] \in {"lock", "parked"}
  <2>1. writer \in Ops
    BY Zenon, <1>1, <1>2 DEF TypeOK, OpOrNone, Ready, LockInv, WaitInv
  <2> QED BY Zenon, <1>2, <2>1 DEF WaitsFor, Ready
<1>3. CASE pc[o] = "drain"
  BY Zenon, <1>1, <1>3 DEF TypeOK, Ready, WaitsFor
<1>4. CASE pc[o] \in {"native", "store"}
  BY Zenon, <1>1, <1>4 DEF TypeOK, OpOrNone, Ready, WaitsFor
<1>5. CASE pc[o] = "driving"
  BY Zenon, <1>5 DEF Ready, CallbacksDone, WaitsFor
<1>6. pc[o] \in Pcs
  BY <1>1 DEF TypeOK
<1> QED BY <1>2, <1>3, <1>4, <1>5, <1>6 DEF Pcs, InFlight, Ready

\* Readers, Close, the native mutex and callbacks never wait in a circle, and
\* no parked reader has missed its wake-up.
THEOREM NeverWaitsInCircle == Spec => []NoCircularWait
<1>1. IInv /\ WaitInv => NoCircularWait
  BY WaitsDownwards, ReadyOrWaits, Zenon DEF NoCircularWait
<1> QED BY <1>1, WaitInductive, PTL

\* So some call can always go on: following the waits leads down to it.
THEOREM NeverStuck == Spec => []SomeoneCanGoOn
<1>1. NoCircularWait => SomeoneCanGoOn
  <2> SUFFICES ASSUME NoCircularWait, NoReentrantClose, \A o \in Ops : ~Ready(o),
                      NEW q \in Ops, InFlight(q)
               PROVE  FALSE
    BY Zenon DEF SomeoneCanGoOn
  <2>1. ASSUME NEW o \in Ops, InFlight(o)
        PROVE  \E p \in Ops : InFlight(p) /\ Rank(p) < Rank(o)
    BY <2>1 DEF NoCircularWait
  <2>2. \A o \in Ops : Rank(o) \in {0, 1, 2, 3, 4}
    BY Zenon DEF Rank
  <2>3. ASSUME NEW o \in Ops, InFlight(o), Rank(o) = 0 PROVE FALSE
    BY <2>1, <2>2, <2>3
  <2>4. ASSUME NEW o \in Ops, InFlight(o), Rank(o) = 1 PROVE FALSE
    BY <2>1, <2>2, <2>3, <2>4
  <2>5. ASSUME NEW o \in Ops, InFlight(o), Rank(o) = 2 PROVE FALSE
    BY <2>1, <2>2, <2>3, <2>4, <2>5
  <2>6. ASSUME NEW o \in Ops, InFlight(o), Rank(o) = 3 PROVE FALSE
    BY <2>1, <2>2, <2>3, <2>4, <2>5, <2>6
  <2>7. ASSUME NEW o \in Ops, InFlight(o), Rank(o) = 4 PROVE FALSE
    BY <2>1, <2>2, <2>3, <2>4, <2>5, <2>6, <2>7
  <2> QED BY <2>2, <2>3, <2>4, <2>5, <2>6, <2>7
<1> QED BY <1>1, NeverWaitsInCircle, PTL

-----------------------------------------------------------------------------
(* Progress.                                                               *)

\* A step of o moves no other method, except that Close wakes parked readers.
LEMMA OpStepOthers ==
    ASSUME IInv, NEW o \in Ops, OpStep(o) \/ Abort(o) \/ RejectArguments(o), NEW d \in Ops \ {o}
    PROVE  /\ won'[d] = won[d]
           /\ pc'[d] = pc[d] \/ (pc[d] = "parked" /\ pc'[d] = "check")
<1> USE DEF Goto, Give, rwmutex, object, data, history
<1>1. TypeOK /\ LockInv
  BY Zenon DEF IInv
<1>2. CASE RLock(o)
  BY Zenon, <1>1, <1>2 DEF RLock, TypeOK
<1>3. CASE CheckOpen(o)
  BY Zenon, <1>1, <1>3 DEF CheckOpen, TypeOK
<1>4. CASE FfiCall(o)
  BY Zenon, <1>1, <1>4 DEF FfiCall, TypeOK
<1>5. CASE RUnlock(o)
  BY Zenon, <1>1, <1>5 DEF RUnlock, TypeOK
<1>6. CASE Clone(o)
  BY Zenon, <1>1, <1>6 DEF Clone, TypeOK
<1>7. CASE TakeGuard(o)
  BY Zenon, <1>1, <1>7 DEF TakeGuard, TypeOK
<1>8. CASE Commit(o)
  BY Zenon, <1>1, <1>8 DEF Commit, TypeOK
<1>9. CASE ReadDone(o)
  BY Zenon, <1>1, <1>9 DEF ReadDone, Acknowledge, TypeOK
<1>10. CASE MutationDone(o)
  BY Zenon, <1>1, <1>10 DEF MutationDone, TypeOK
<1>11. CASE StoreNewDataset(o)
  BY Zenon, <1>1, <1>11 DEF StoreNewDataset, Acknowledge, TypeOK
<1>12. CASE GuardedDone(o)
  BY Zenon, <1>1, <1>12 DEF GuardedDone, Acknowledge, TypeOK
<1>13. CASE Abort(o)
  BY Zenon, <1>1, <1>13 DEF Abort, TypeOK
<1>14. CASE Lock(o)
  BY Zenon, <1>1, <1>14 DEF Lock, TypeOK
<1>15. CASE CloseNative(o)
  BY Zenon, <1>1, <1>15 DEF CloseNative, TypeOK
<1>16. CASE CloseReturn(o)
  BY Zenon, <1>1, <1>16 DEF CloseReturn, TypeOK, LockInv
<1>17. CASE RejectArguments(o)
  BY Zenon, <1>1, <1>17 DEF RejectArguments, TypeOK
<1> QED
  BY <1>2, <1>3, <1>4, <1>5, <1>6, <1>7, <1>8, <1>9, <1>10, <1>11, <1>12, <1>13, <1>14, <1>15, <1>16, <1>17, Zenon
  DEF OpStep, Fail

\* A step of o, however it ends, brings o closer to its return.
LEMMA OpStepCloser ==
    ASSUME IInv, NEW o \in Ops, OpStep(o) \/ Abort(o) \/ RejectArguments(o)
    PROVE  StepsLeft(o)' < StepsLeft(o)
<1> USE HandleAssumption DEF Goto, Give, rwmutex, object, data, history, StepsLeft
<1>1. TypeOK /\ VersionInv
  BY DEF IInv
<1>2. CASE RLock(o)
  BY <1>1, <1>2 DEF RLock, TypeOK
<1>3. CASE CheckOpen(o)
  BY <1>1, <1>3 DEF CheckOpen, TypeOK
<1>4. CASE FfiCall(o)
  BY <1>1, <1>4 DEF FfiCall, TypeOK
<1>5. CASE RUnlock(o)
  BY <1>1, <1>5 DEF RUnlock, TypeOK
<1>6. CASE Clone(o)
  BY <1>1, <1>6 DEF Clone, TypeOK
<1>7. CASE TakeGuard(o)
  BY <1>1, <1>7 DEF TakeGuard, TypeOK
<1>8. CASE Commit(o)
  BY <1>1, <1>8 DEF Commit, TypeOK
<1>9. CASE ReadDone(o)
  BY <1>1, <1>9 DEF ReadDone, Acknowledge, TypeOK
<1>10. CASE MutationDone(o)
  BY <1>1, <1>10 DEF MutationDone, TypeOK
<1>11. CASE StoreNewDataset(o)
  BY <1>1, <1>11 DEF StoreNewDataset, Acknowledge, TypeOK
<1>12. CASE GuardedDone(o)
  BY <1>1, <1>12 DEF GuardedDone, Acknowledge, TypeOK
<1>13. CASE Abort(o)
  BY <1>1, <1>13 DEF Abort, TypeOK
<1>14. CASE Lock(o)
  BY <1>1, <1>14 DEF Lock, TypeOK
<1>15. CASE CloseNative(o)
  BY <1>1, <1>15 DEF CloseNative, TypeOK
<1>16. CASE CloseReturn(o)
  BY <1>1, <1>16 DEF CloseReturn, TypeOK
<1>17. CASE RejectArguments(o)
  BY <1>1, <1>17 DEF RejectArguments, TypeOK
<1> QED
  BY Zenon, <1>2, <1>3, <1>4, <1>5, <1>6, <1>7, <1>8, <1>9, <1>10, <1>11, <1>12, <1>13, <1>14, <1>15, <1>16, <1>17
  DEF OpStep, Fail

\* No interleaving sets a method back, and each of its steps brings its return
\* closer.
THEOREM OpsAdvance == Spec => OpAdvances
<1>1. ASSUME IInv, [Next]_vars, NEW d \in Ops PROVE StepsLeft(d)' <= StepsLeft(d)
  <2>1. TypeOK /\ StepsLeft(d) \in Nat /\ StepsLeft(d)' \in Nat
    BY <1>1 DEF IInv, StepsLeft
  <2>2. ASSUME won'[d] = won[d],
               \/ pc'[d] = pc[d]
               \/ pc[d] = "parked" /\ pc'[d] = "check"
               \/ pc[d] = "idle" /\ pc'[d] = "lock"
        PROVE  StepsLeft(d)' <= StepsLeft(d)
    BY <2>2 DEF StepsLeft
  <2>3. ASSUME NEW o \in Ops, OpStep(o) \/ Abort(o) \/ RejectArguments(o)
        PROVE  StepsLeft(d)' <= StepsLeft(d)
    <3>1. CASE d = o
      BY <1>1, <2>1, <2>3, <3>1, OpStepCloser
    <3>2. CASE d # o
      BY Zenon, <1>1, <2>2, <2>3, <3>2, OpStepOthers
    <3> QED BY <3>1, <3>2
  <2>4. ASSUME NEW o \in Ops, Begin(o) \/ (\E u \in Ops : BeginNested(o, u))
        PROVE  StepsLeft(d)' <= StepsLeft(d)
    BY Zenon, <2>1, <2>2, <2>4 DEF Begin, BeginNested, Goto, data, TypeOK
  <2>5. CASE Drop \/ CommitElsewhere \/ RunCleanup \/ UNCHANGED vars
    BY Zenon, <2>2, <2>5 DEF Drop, CommitElsewhere, RunCleanup, vars, data
  <2> QED BY <1>1, <2>3, <2>4, <2>5 DEF Next, Environment, Cancel, Terminated
<1>2. ASSUME IInv, [Next]_vars
      PROVE  [\A o \in Ops :
                /\ StepsLeft(o)' <= StepsLeft(o)
                /\ OpStep(o) => StepsLeft(o)' < StepsLeft(o)]_vars
  BY Zenon, <1>1, <1>2, OpStepCloser
<1> QED BY <1>2, Inductive, PTL DEF Spec, OpAdvances

-----------------------------------------------------------------------------
(* The handle implements SharedHandle.                                     *)

\* A method is in native code only while the handle has not been freed, and a
\* handle that is about to be freed has not been freed before.
LEMMA UnfreedInUse ==
    ASSUME IInv, NEW o \in Ops, ptr, pc[o] \in Reading \cup {"drain"}
    PROVE  frees = 0
<1>1. InFlight(o)
  BY Zenon DEF InFlight, Reading
<1>2. \A n \in Ops : pc[n] # "stop"
  BY Zenon DEF IInv, LockInv
<1> QED BY Zenon, <1>1, <1>2 DEF IInv, ObjectInv

\* A step of o that frees nothing enters, leaves or stutters.
LEMMA UserStep ==
    ASSUME NEW o \in Ops, IInv, frees' = frees,
           \A d \in Ops \ {o} : pc'[d] \in InNative <=> pc[d] \in InNative,
           pc'[o] \in InNative /\ pc[o] \notin InNative => frees = 0
    PROVE  [Shared!Next]_(Shared!vars)
<1> DEFINE using == {d \in Ops : pc[d] \in InNative}
<1>1. CASE pc'[o] \in InNative <=> pc[o] \in InNative
  BY Zenon, <1>1 DEF Shared!vars
<1>2. CASE pc'[o] \in InNative /\ pc[o] \notin InNative
  <2>1. using' = using \cup {o}
    BY Zenon, <1>2
  <2>2. Shared!Enter(o)
    BY Zenon, <1>2, <2>1 DEF Shared!Enter
  <2> QED BY Zenon, <2>2 DEF Shared!Next
<1>3. CASE pc'[o] \notin InNative /\ pc[o] \in InNative
  <2>1. using' = using \ {o}
    BY Zenon, <1>3
  <2>2. Shared!Leave(o)
    BY <1>3, <2>1 DEF Shared!Leave
  <2> QED BY Zenon, <2>2 DEF Shared!Next
<1> QED BY Zenon, <1>1, <1>2, <1>3

\* The dataset handle keeps the promise of SharedHandle for any number of
\* methods: given out only while it exists, freed once, with nobody inside.
THEOREM HandleImplementsShared == Spec => ImplementsHandle
<1>1. Init => Shared!Init
  BY Zenon DEF Init, Shared!Init, InNative
<1>2. ASSUME IInv, [Next]_vars PROVE [Shared!Next]_(Shared!vars)
  <2> USE <1>2 DEF Goto, Give, rwmutex, object, data, history
  <2>1. TypeOK /\ LockInv
    BY Zenon DEF IInv
  <2>2. ASSUME NEW o \in Ops, OpStep(o) \/ Abort(o) \/ RejectArguments(o), ~CloseNative(o)
        PROVE  [Shared!Next]_(Shared!vars)
    <3>1. \A d \in Ops \ {o} : pc'[d] \in InNative <=> pc[d] \in InNative
      BY <2>2, OpStepOthers DEF InNative
    <3>2. frees' = frees
      BY <2>2, Zenon DEF OpStep, RLock, CheckOpen, FfiCall, RUnlock, Clone, TakeGuard, Commit,
         ReadDone, MutationDone, StoreNewDataset, GuardedDone, Fail, Abort, Lock,
         CloseReturn, RejectArguments
    <3>3. ASSUME pc'[o] \in InNative, pc[o] \notin InNative PROVE frees = 0
      <4>1. CASE CheckOpen(o)
        <5>1. ptr /\ pc[o] = "check"
          BY <2>1, <3>3, <4>1 DEF CheckOpen, InNative, TypeOK
        <5> QED BY Zenon, <5>1, UnfreedInUse DEF Reading
      <4>2. CASE ~CheckOpen(o)
        BY <2>1, <2>2, <3>3, <4>2, Zenon
           DEF OpStep, RLock, FfiCall, RUnlock, Clone, TakeGuard, Commit, ReadDone,
               Acknowledge, MutationDone, StoreNewDataset, GuardedDone, Fail, Abort,
               Lock, CloseReturn, RejectArguments, InNative, TypeOK
      <4> QED BY <4>1, <4>2
    <3> QED BY Zenon, <3>1, <3>2, <3>3, UserStep
  <2>3. ASSUME NEW o \in Ops, CloseNative(o) PROVE [Shared!Next]_(Shared!vars)
    <3>1. /\ pc[o] = "drain" /\ readers = {} /\ pc' = [pc EXCEPT ![o] = "stop"]
          /\ (frees' = frees \/ (ptr /\ frees' = frees + 1))
      BY Zenon, <2>3 DEF CloseNative
    <3>2. {d \in Ops : pc[d] \in InNative} = {}
      BY Zenon, <2>1, <3>1 DEF LockInv, Reading, InNative
    <3>3. {d \in Ops : pc[d] \in InNative}' = {}
      BY Zenon, <2>1, <3>1, <3>2 DEF InNative, TypeOK
    <3>4. CASE frees' = frees
      BY <3>2, <3>3, <3>4 DEF Shared!vars
    <3>5. CASE ptr /\ frees' = frees + 1
      <4>1. frees = 0 /\ frees' = 1
        BY <3>1, <3>5, UnfreedInUse
      <4>2. Shared!Free
        BY Zenon, <3>2, <3>3, <4>1 DEF Shared!Free
      <4> QED BY <4>2 DEF Shared!Next
    <3> QED BY Zenon, <3>1, <3>4, <3>5
  <2>4. ASSUME NEW o \in Ops, Begin(o) \/ (\E u \in Ops : BeginNested(o, u))
        PROVE  UNCHANGED Shared!vars
    <3>1. frees' = frees /\ pc[o] = "idle" /\ pc' = [pc EXCEPT ![o] = "lock"]
      BY Zenon, <2>4 DEF Begin, BeginNested
    <3>2. {d \in Ops : pc[d] \in InNative}' = {d \in Ops : pc[d] \in InNative}
      BY <2>1, <3>1 DEF InNative, TypeOK
    <3> QED BY Zenon, <3>1, <3>2 DEF Shared!vars
  <2>5. CASE RunCleanup
    <3>1. /\ pc' = pc /\ frees' = frees + 1 /\ cleanup = "armed"
          /\ \A o \in Ops : ~InFlight(o)
      BY Zenon, <2>5 DEF RunCleanup
    <3>2. frees = 0 /\ frees' = 1
      BY <3>1 DEF IInv, ObjectInv, InFlight
    <3>3. {d \in Ops : pc[d] \in InNative} = {}
      BY Zenon, <3>1 DEF InFlight, InNative
    <3>4. Shared!Free
      BY Zenon, <3>1, <3>2, <3>3 DEF Shared!Free
    <3> QED BY Zenon, <3>4 DEF Shared!Next
  <2>6. CASE Drop \/ CommitElsewhere \/ UNCHANGED vars
    BY <2>6 DEF Drop, CommitElsewhere, vars, Shared!vars
  <2> QED BY <1>2, <2>2, <2>3, <2>4, <2>5, <2>6 DEF Next, Environment, Cancel, Terminated
<1> QED BY <1>1, <1>2, Inductive, PTL DEF Spec, ImplementsHandle, Shared!Spec
=============================================================================
