--------------------------- MODULE FfiCallProofs ---------------------------
(***************************************************************************)
(* The safety properties of FfiCall hold for any sets of calls and threads *)
(* and any number of futures per call.  One lemma per action shows that it *)
(* preserves the inductive invariant IInv; the theorems follow from it.    *)
(***************************************************************************)
EXTENDS FfiCall, TLAPS

\* A running call is on a real thread.
LEMMA OnThread ==
    ASSUME TypeOK, ThreadInv, NEW c \in Calls, pc[c] \notin NotOnThread
    PROVE  thr[c] \in AnyThread
BY DEF TypeOK, ThreadInv

\* The context of c is done.
LEMMA CtxDoneStep ==
    ASSUME IInv, NEW c \in Calls, CtxDone(c)
    PROVE  IInv'
<1> USE FfiAssumption DEF IInv, Goto, sched, token, tls, future, outcome,
      CtxDone
<1>1. TypeOK'
  BY DEF TypeOK, Pcs, AnyThread, CallOrNone, Codes, Kinds, ThreadInv,
         NotOnThread
<1>2. ThreadInv' /\ NestedInv'
  BY DEF TypeOK, ThreadInv, NestedInv, NotOnThread, AnyThread, InTokioRuntime
<1>3. TokenInv' /\ SlotInv'
  BY DEF TypeOK, TokenInv, BeforeToken, SlotInv, SlotBelongsToCall,
         InTokenWindow, ThreadInv, NotOnThread, AnyThread
<1>4. RaceInv' /\ OutcomeInv' /\ CancelledOnlyByOwnCtx' /\ LastErrorIsOwn'
  BY DEF TypeOK, CancelledOnlyByOwnCtx, LastErrorIsOwn, RaceInv, OutcomeInv, BeforeReturn,
         BeforeToken, ThreadInv, NotOnThread, NestedInv, Codes
<1> QED BY Zenon, <1>1, <1>2, <1>3, <1>4

\* A call starts on a vacant thread.
LEMMA BeginStep ==
    ASSUME IInv, NEW c \in Calls, NEW t \in Threads, Begin(c, t)
    PROVE  IInv'
<1> USE FfiAssumption DEF IInv, Goto, sched, token, tls, future, outcome,
      Begin, Vacant
<1>1. TypeOK'
  BY DEF TypeOK, Pcs, AnyThread, CallOrNone, Codes, Kinds, ThreadInv,
         NotOnThread
<1>2. ThreadInv' /\ NestedInv'
  BY DEF TypeOK, ThreadInv, NestedInv, NotOnThread, AnyThread, InTokioRuntime
<1>3. TokenInv' /\ SlotInv'
  BY DEF TypeOK, TokenInv, BeforeToken, SlotInv, SlotBelongsToCall,
         InTokenWindow, ThreadInv, NotOnThread, AnyThread
<1>4. RaceInv' /\ OutcomeInv' /\ CancelledOnlyByOwnCtx' /\ LastErrorIsOwn'
  BY DEF TypeOK, CancelledOnlyByOwnCtx, LastErrorIsOwn, RaceInv, OutcomeInv, BeforeReturn,
         BeforeToken, ThreadInv, NotOnThread, NestedInv, Codes
<1> QED BY <1>1, <1>2, <1>3, <1>4

\* A callback of o makes the call c.
LEMMA BeginNestedStep ==
    ASSUME IInv, NEW c \in Calls, NEW o \in Calls, NEW t \in AnyThread, BeginNested(c, o, t)
    PROVE  IInv'
<1> USE FfiAssumption DEF IInv, Goto, sched, token, tls, future, outcome,
      BeginNested
<1>1. TypeOK'
  BY Zenon DEF TypeOK, Pcs, AnyThread, CallOrNone, Codes, Kinds, ThreadInv,
         NotOnThread
<1>2. ThreadInv' /\ NestedInv'
  BY DEF TypeOK, ThreadInv, NestedInv, NotOnThread, AnyThread, InTokioRuntime
<1>3. TokenInv' /\ SlotInv'
  BY DEF TypeOK, TokenInv, BeforeToken, SlotInv, SlotBelongsToCall,
         InTokenWindow, ThreadInv, NotOnThread, AnyThread
<1>4. RaceInv' /\ OutcomeInv' /\ CancelledOnlyByOwnCtx' /\ LastErrorIsOwn'
  BY DEF TypeOK, CancelledOnlyByOwnCtx, LastErrorIsOwn, RaceInv, OutcomeInv, BeforeReturn,
         BeforeToken, ThreadInv, NotOnThread, NestedInv, Codes
<1> QED BY Zenon, <1>1, <1>2, <1>3, <1>4

\* The scheduler moves c: it has not locked its thread yet.
LEMMA MigrateStep ==
    ASSUME IInv, NEW c \in Calls, NEW t \in Threads, Migrate(c, t)
    PROVE  IInv'
<1> USE FfiAssumption DEF IInv, Goto, sched, token, tls, future, outcome,
      Migrate, Vacant
<1>1. TypeOK'
  BY Zenon DEF TypeOK, Pcs, AnyThread, CallOrNone, Codes, Kinds, ThreadInv,
         NotOnThread
<1>2. ThreadInv' /\ NestedInv'
  BY DEF TypeOK, ThreadInv, NestedInv, NotOnThread, AnyThread, InTokioRuntime
<1>3. TokenInv' /\ SlotInv'
  BY DEF TypeOK, TokenInv, BeforeToken, SlotInv, SlotBelongsToCall,
         InTokenWindow, ThreadInv, NotOnThread, AnyThread
<1>4. RaceInv' /\ OutcomeInv' /\ CancelledOnlyByOwnCtx' /\ LastErrorIsOwn'
  BY DEF TypeOK, CancelledOnlyByOwnCtx, LastErrorIsOwn, RaceInv, OutcomeInv, BeforeReturn,
         BeforeToken, ThreadInv, NotOnThread, NestedInv, Codes
<1> QED BY Zenon, <1>1, <1>2, <1>3, <1>4

\* c is pinned.
LEMMA LockOSThreadStep ==
    ASSUME IInv, NEW c \in Calls, LockOSThread(c)
    PROVE  IInv'
<1> USE FfiAssumption DEF IInv, Goto, sched, token, tls, future, outcome,
      LockOSThread
<1>1. TypeOK'
  BY Zenon DEF TypeOK, Pcs, AnyThread, CallOrNone, Codes, Kinds, ThreadInv,
         NotOnThread
<1>2. ThreadInv' /\ NestedInv'
  BY DEF TypeOK, ThreadInv, NestedInv, NotOnThread, AnyThread, InTokioRuntime
<1>3. TokenInv' /\ SlotInv'
  BY DEF TypeOK, TokenInv, BeforeToken, SlotInv, SlotBelongsToCall,
         InTokenWindow, ThreadInv, NotOnThread, AnyThread
<1>4. RaceInv' /\ OutcomeInv' /\ CancelledOnlyByOwnCtx' /\ LastErrorIsOwn'
  BY DEF TypeOK, CancelledOnlyByOwnCtx, LastErrorIsOwn, RaceInv, OutcomeInv, BeforeReturn,
         BeforeToken, ThreadInv, NotOnThread, NestedInv, Codes
<1> QED BY Zenon, <1>1, <1>2, <1>3, <1>4

\* The re-entrancy check.
LEMMA RejectReentrantStep ==
    ASSUME IInv, NEW c \in Calls, RejectReentrant(c)
    PROVE  IInv'
<1> USE FfiAssumption DEF IInv, Goto, sched, token, tls, future, outcome,
      RejectReentrant, InTokioRuntime
<1>1. TypeOK'
  BY SMTT(20) DEF TypeOK, Pcs, AnyThread, CallOrNone, Codes, Kinds, ThreadInv,
         NotOnThread
<1>2. ThreadInv' /\ NestedInv'
  BY SMTT(20) DEF TypeOK, ThreadInv, NestedInv, NotOnThread, AnyThread
<1>3. TokenInv' /\ SlotInv'
  <2>1. pc[c] = "reentrant?" /\ \E l \in {"unlock", "ctx?"} : pc' = [pc EXCEPT ![c] = l]
    BY Zenon
  <2>2. UNCHANGED <<tok, watcher, slot, thr>>
    OBVIOUS
  <2>3. TokenInv'
    BY <2>1, <2>2 DEF TypeOK, TokenInv, BeforeToken
  <2>4. SlotInv'
    BY <2>1, <2>2 DEF TypeOK, SlotInv, SlotBelongsToCall, InTokenWindow
  <2> QED BY <2>3, <2>4
<1>4. RaceInv' /\ OutcomeInv' /\ CancelledOnlyByOwnCtx' /\ LastErrorIsOwn'
  BY DEF TypeOK, CancelledOnlyByOwnCtx, LastErrorIsOwn, RaceInv, OutcomeInv, BeforeReturn,
         BeforeToken, ThreadInv, NotOnThread, NestedInv, Codes
<1> QED BY Zenon, <1>1, <1>2, <1>3, <1>4

\* The context check.
LEMMA CheckCtxStep ==
    ASSUME IInv, NEW c \in Calls, CheckCtx(c)
    PROVE  IInv'
<1> USE FfiAssumption DEF IInv, Goto, sched, token, tls, future, outcome,
      CheckCtx
<1>1. TypeOK'
  <2>1. pc' \in [Calls -> Pcs] /\ result' \in [Calls -> Kinds]
    BY DEF TypeOK, Pcs, Kinds
  <2> QED BY Zenon, <2>1 DEF TypeOK
<1>2. ThreadInv' /\ NestedInv'
  BY SMTT(20) DEF TypeOK, ThreadInv, NestedInv, NotOnThread, AnyThread, InTokioRuntime
<1>3. TokenInv' /\ SlotInv'
  <2>1. pc[c] = "ctx?" /\ \E l \in {"unlock", "native", "newtoken"} : pc' = [pc EXCEPT ![c] = l]
    BY Zenon
  <2>2. UNCHANGED <<tok, watcher, slot, thr>>
    OBVIOUS
  <2>3. TokenInv'
    BY <2>1, <2>2 DEF TypeOK, TokenInv, BeforeToken
  <2>4. SlotInv'
    BY <2>1, <2>2 DEF TypeOK, SlotInv, SlotBelongsToCall, InTokenWindow
  <2> QED BY <2>3, <2>4
<1>4. RaceInv' /\ OutcomeInv' /\ CancelledOnlyByOwnCtx' /\ LastErrorIsOwn'
  BY DEF TypeOK, CancelledOnlyByOwnCtx, LastErrorIsOwn, RaceInv, OutcomeInv, BeforeReturn,
         BeforeToken, ThreadInv, NotOnThread, NestedInv, Codes
<1> QED BY Zenon, <1>1, <1>2, <1>3, <1>4

\* A token is created.
LEMMA NewTokenStep ==
    ASSUME IInv, NEW c \in Calls, NewToken(c)
    PROVE  IInv'
<1> USE FfiAssumption DEF IInv, Goto, sched, token, tls, future, outcome,
      NewToken
<1>1. TypeOK'
  BY Zenon DEF TypeOK, Pcs, AnyThread, CallOrNone, Codes, Kinds, ThreadInv,
         NotOnThread
<1>2. ThreadInv' /\ NestedInv'
  BY DEF TypeOK, ThreadInv, NestedInv, NotOnThread, AnyThread, InTokioRuntime
<1>3. TokenInv' /\ SlotInv'
  BY DEF TypeOK, TokenInv, BeforeToken, SlotInv, SlotBelongsToCall,
         InTokenWindow, ThreadInv, NotOnThread, AnyThread
<1>4. RaceInv' /\ OutcomeInv' /\ CancelledOnlyByOwnCtx' /\ LastErrorIsOwn'
  BY DEF TypeOK, CancelledOnlyByOwnCtx, LastErrorIsOwn, RaceInv, OutcomeInv, BeforeReturn,
         BeforeToken, ThreadInv, NotOnThread, NestedInv, Codes
<1> QED BY Zenon, <1>1, <1>2, <1>3, <1>4

\* The token goes into the slot of c's thread.
LEMMA SetTokenStep ==
    ASSUME IInv, NEW c \in Calls, SetToken(c)
    PROVE  IInv'
<1> USE FfiAssumption DEF IInv, Goto, sched, token, tls, future, outcome,
      SetToken
<1>1. TypeOK'
  BY Zenon DEF TypeOK, Pcs, AnyThread, CallOrNone, Codes, Kinds, ThreadInv,
         NotOnThread
<1>2. ThreadInv' /\ NestedInv'
  BY DEF TypeOK, ThreadInv, NestedInv, NotOnThread, AnyThread, InTokioRuntime
<1>3. TokenInv' /\ SlotInv'
  BY DEF TypeOK, TokenInv, BeforeToken, SlotInv, SlotBelongsToCall,
         InTokenWindow, ThreadInv, NotOnThread, AnyThread
<1>4. RaceInv' /\ OutcomeInv' /\ CancelledOnlyByOwnCtx' /\ LastErrorIsOwn'
  BY DEF TypeOK, CancelledOnlyByOwnCtx, LastErrorIsOwn, RaceInv, OutcomeInv, BeforeReturn,
         BeforeToken, ThreadInv, NotOnThread, NestedInv, Codes
<1> QED BY <1>1, <1>2, <1>3, <1>4

\* The watcher starts.
LEMMA SpawnWatcherStep ==
    ASSUME IInv, NEW c \in Calls, SpawnWatcher(c)
    PROVE  IInv'
<1> USE FfiAssumption DEF IInv, Goto, sched, token, tls, future, outcome,
      SpawnWatcher
<1>1. TypeOK'
  BY Zenon DEF TypeOK, Pcs, AnyThread, CallOrNone, Codes, Kinds, ThreadInv,
         NotOnThread
<1>2. ThreadInv' /\ NestedInv'
  BY DEF TypeOK, ThreadInv, NestedInv, NotOnThread, AnyThread, InTokioRuntime
<1>3. TokenInv' /\ SlotInv'
  BY DEF TypeOK, TokenInv, BeforeToken, SlotInv, SlotBelongsToCall,
         InTokenWindow, ThreadInv, NotOnThread, AnyThread
<1>4. RaceInv' /\ OutcomeInv' /\ CancelledOnlyByOwnCtx' /\ LastErrorIsOwn'
  BY DEF TypeOK, CancelledOnlyByOwnCtx, LastErrorIsOwn, RaceInv, OutcomeInv, BeforeReturn,
         BeforeToken, ThreadInv, NotOnThread, NestedInv, Codes
<1> QED BY Zenon, <1>1, <1>2, <1>3, <1>4

\* The watcher sees the context done.
LEMMA WatcherWakeStep ==
    ASSUME IInv, NEW c \in Calls, WatcherWake(c)
    PROVE  IInv'
<1> USE FfiAssumption DEF IInv, Goto, sched, token, tls, future, outcome,
      WatcherWake
<1>1. TypeOK'
  BY Zenon DEF TypeOK, Pcs, AnyThread, CallOrNone, Codes, Kinds, ThreadInv,
         NotOnThread
<1>2. ThreadInv' /\ NestedInv'
  BY DEF TypeOK, ThreadInv, NestedInv, NotOnThread, AnyThread, InTokioRuntime
<1>3. TokenInv' /\ SlotInv'
  BY DEF TypeOK, TokenInv, BeforeToken, SlotInv, SlotBelongsToCall,
         InTokenWindow, ThreadInv, NotOnThread, AnyThread
<1>4. RaceInv' /\ OutcomeInv' /\ CancelledOnlyByOwnCtx' /\ LastErrorIsOwn'
  BY DEF TypeOK, CancelledOnlyByOwnCtx, LastErrorIsOwn, RaceInv, OutcomeInv, BeforeReturn,
         BeforeToken, ThreadInv, NotOnThread, NestedInv, Codes
<1> QED BY Zenon, <1>1, <1>2, <1>3, <1>4

\* The watcher cancels the token.
LEMMA WatcherFireStep ==
    ASSUME IInv, NEW c \in Calls, WatcherFire(c)
    PROVE  IInv'
<1> USE FfiAssumption DEF IInv, Goto, sched, token, tls, future, outcome,
      WatcherFire
<1>1. TypeOK'
  BY Zenon DEF TypeOK, Pcs, AnyThread, CallOrNone, Codes, Kinds, ThreadInv,
         NotOnThread
<1>2. ThreadInv' /\ NestedInv'
  BY DEF TypeOK, ThreadInv, NestedInv, NotOnThread, AnyThread, InTokioRuntime
<1>3. TokenInv' /\ SlotInv'
  BY DEF TypeOK, TokenInv, BeforeToken, SlotInv, SlotBelongsToCall,
         InTokenWindow, ThreadInv, NotOnThread, AnyThread
<1>4. RaceInv' /\ OutcomeInv' /\ CancelledOnlyByOwnCtx' /\ LastErrorIsOwn'
  BY DEF TypeOK, CancelledOnlyByOwnCtx, LastErrorIsOwn, RaceInv, OutcomeInv, BeforeReturn,
         BeforeToken, ThreadInv, NotOnThread, NestedInv, Codes
<1> QED BY Zenon, <1>1, <1>2, <1>3, <1>4

\* The watcher is told to stop.
LEMMA WatcherStopStep ==
    ASSUME IInv, NEW c \in Calls, WatcherStop(c)
    PROVE  IInv'
<1> USE FfiAssumption DEF IInv, Goto, sched, token, tls, future, outcome,
      WatcherStop, Stopped
<1>1. TypeOK'
  BY Zenon DEF TypeOK, Pcs, AnyThread, CallOrNone, Codes, Kinds, ThreadInv,
         NotOnThread
<1>2. ThreadInv' /\ NestedInv'
  BY DEF TypeOK, ThreadInv, NestedInv, NotOnThread, AnyThread, InTokioRuntime
<1>3. TokenInv' /\ SlotInv'
  BY DEF TypeOK, TokenInv, BeforeToken, SlotInv, SlotBelongsToCall,
         InTokenWindow, ThreadInv, NotOnThread, AnyThread
<1>4. RaceInv' /\ OutcomeInv' /\ CancelledOnlyByOwnCtx' /\ LastErrorIsOwn'
  BY DEF TypeOK, CancelledOnlyByOwnCtx, LastErrorIsOwn, RaceInv, OutcomeInv, BeforeReturn,
         BeforeToken, ThreadInv, NotOnThread, NestedInv, Codes
<1> QED BY Zenon, <1>1, <1>2, <1>3, <1>4

\* The native function starts driving a future: the token it captures can only be that of c.
LEMMA BlockOnStep ==
    ASSUME IInv, NEW c \in Calls, BlockOn(c)
    PROVE  IInv'
<1> USE FfiAssumption DEF IInv, Goto, sched, token, tls, future, outcome,
      BlockOn
<1>1. TypeOK'
  BY SMTT(20) DEF TypeOK, Pcs, AnyThread, CallOrNone, Codes, Kinds, ThreadInv,
         NotOnThread
<1>2. ThreadInv' /\ NestedInv'
  BY DEF TypeOK, ThreadInv, NestedInv, NotOnThread, AnyThread, InTokioRuntime
<1>3. TokenInv' /\ SlotInv'
  BY SMTT(20) DEF TypeOK, TokenInv, BeforeToken, SlotInv, SlotBelongsToCall,
         InTokenWindow, ThreadInv, NotOnThread, AnyThread
<1>4. RaceInv' /\ OutcomeInv' /\ CancelledOnlyByOwnCtx' /\ LastErrorIsOwn'
  <2>1. slot[thr[c]] \in {NoCall, c}
    <3>1. thr[c] \in AnyThread
      BY Zenon, OnThread DEF NotOnThread
    <3>2. SUFFICES ASSUME NEW d \in Calls, slot[thr[c]] = d, d # c
                   PROVE  FALSE
      BY Zenon, <3>1 DEF TypeOK, CallOrNone
    <3>3. thr[d] = thr[c] /\ thr[c] # NoThread
      BY Zenon, <3>1, <3>2 DEF SlotInv, SlotBelongsToCall, AnyThread
    <3>4. outer[c] = d \/ pc[c] = "driving"
      BY Zenon, <3>2, <3>3 DEF ThreadInv
    <3> QED BY Zenon, <3>4 DEF NestedInv
  <2>2. RaceInv'
    BY <2>1 DEF TypeOK, RaceInv
  <2>3. OutcomeInv'
    BY DEF TypeOK, OutcomeInv, BeforeReturn, BeforeToken
  <2>4. CancelledOnlyByOwnCtx' /\ LastErrorIsOwn'
    BY SMTT(20) DEF TypeOK, OutcomeInv, BeforeReturn, BeforeToken,
           CancelledOnlyByOwnCtx, LastErrorIsOwn
  <2> QED BY Zenon, <2>2, <2>3, <2>4
<1> QED BY Zenon, <1>1, <1>2, <1>3, <1>4

\* The future completes.
LEMMA FutureReadyStep ==
    ASSUME IInv, NEW c \in Calls, FutureReady(c)
    PROVE  IInv'
<1> USE FfiAssumption DEF IInv, Goto, sched, token, tls, future, outcome,
      FutureReady
<1>1. TypeOK'
  BY Zenon DEF TypeOK, Pcs, AnyThread, CallOrNone, Codes, Kinds, ThreadInv,
         NotOnThread
<1>2. ThreadInv' /\ NestedInv'
  BY DEF TypeOK, ThreadInv, NestedInv, NotOnThread, AnyThread, InTokioRuntime
<1>3. TokenInv' /\ SlotInv'
  BY DEF TypeOK, TokenInv, BeforeToken, SlotInv, SlotBelongsToCall,
         InTokenWindow, ThreadInv, NotOnThread, AnyThread
<1>4. RaceInv' /\ OutcomeInv' /\ CancelledOnlyByOwnCtx' /\ LastErrorIsOwn'
  BY SMTT(20) DEF TypeOK, CancelledOnlyByOwnCtx, LastErrorIsOwn, RaceInv, OutcomeInv, BeforeReturn,
         BeforeToken, ThreadInv, NotOnThread, NestedInv, Codes
<1> QED BY Zenon, <1>1, <1>2, <1>3, <1>4

\* The result of the future is delivered.
LEMMA PollReadyStep ==
    ASSUME IInv, NEW c \in Calls, PollReady(c)
    PROVE  IInv'
<1> USE FfiAssumption DEF IInv, Goto, sched, token, tls, future, outcome,
      PollReady, DriverFree
<1>1. TypeOK'
  BY Zenon DEF TypeOK, Pcs, AnyThread, CallOrNone, Codes, Kinds, ThreadInv,
         NotOnThread
<1>2. ThreadInv' /\ NestedInv'
  BY DEF TypeOK, ThreadInv, NestedInv, NotOnThread, AnyThread, InTokioRuntime
<1>3. TokenInv' /\ SlotInv'
  BY DEF TypeOK, TokenInv, BeforeToken, SlotInv, SlotBelongsToCall,
         InTokenWindow, ThreadInv, NotOnThread, AnyThread
<1>4. RaceInv' /\ OutcomeInv' /\ CancelledOnlyByOwnCtx' /\ LastErrorIsOwn'
  BY SMTT(20) DEF TypeOK, CancelledOnlyByOwnCtx, LastErrorIsOwn, RaceInv, OutcomeInv, BeforeReturn,
         BeforeToken, ThreadInv, NotOnThread, NestedInv, Codes
<1> QED BY Zenon, <1>1, <1>2, <1>3, <1>4

\* The future is found pending.
LEMMA PollPendingStep ==
    ASSUME IInv, NEW c \in Calls, PollPending(c)
    PROVE  IInv'
<1> USE FfiAssumption DEF IInv, Goto, sched, token, tls, future, outcome,
      PollPending, DriverFree
<1>1. TypeOK'
  BY Zenon DEF TypeOK, Pcs, AnyThread, CallOrNone, Codes, Kinds, ThreadInv,
         NotOnThread
<1>2. ThreadInv' /\ NestedInv'
  BY DEF TypeOK, ThreadInv, NestedInv, NotOnThread, AnyThread, InTokioRuntime
<1>3. TokenInv' /\ SlotInv'
  BY DEF TypeOK, TokenInv, BeforeToken, SlotInv, SlotBelongsToCall,
         InTokenWindow, ThreadInv, NotOnThread, AnyThread
<1>4. RaceInv' /\ OutcomeInv' /\ CancelledOnlyByOwnCtx' /\ LastErrorIsOwn'
  BY SMTT(20) DEF TypeOK, CancelledOnlyByOwnCtx, LastErrorIsOwn, RaceInv, OutcomeInv, BeforeReturn,
         BeforeToken, ThreadInv, NotOnThread, NestedInv, Codes
<1> QED BY Zenon, <1>1, <1>2, <1>3, <1>4

\* The token wins the race.
LEMMA PollCancelledStep ==
    ASSUME IInv, NEW c \in Calls, PollCancelled(c)
    PROVE  IInv'
<1> USE FfiAssumption DEF IInv, Goto, sched, token, tls, future, outcome,
      PollCancelled, DriverFree, Return
<1>1. TypeOK'
  BY Zenon DEF TypeOK, Pcs, AnyThread, CallOrNone, Codes, Kinds, ThreadInv,
         NotOnThread
<1>2. ThreadInv' /\ NestedInv'
  BY DEF TypeOK, ThreadInv, NestedInv, NotOnThread, AnyThread, InTokioRuntime
<1>3. TokenInv' /\ SlotInv'
  BY DEF TypeOK, TokenInv, BeforeToken, SlotInv, SlotBelongsToCall,
         InTokenWindow, ThreadInv, NotOnThread, AnyThread
<1>4. RaceInv' /\ OutcomeInv' /\ CancelledOnlyByOwnCtx' /\ LastErrorIsOwn'
  BY SMTT(20) DEF TypeOK, CancelledOnlyByOwnCtx, LastErrorIsOwn, RaceInv, OutcomeInv, BeforeReturn,
         BeforeToken, ThreadInv, NotOnThread, NestedInv, Codes
<1> QED BY Zenon, <1>1, <1>2, <1>3, <1>4

\* The native function returns.
LEMMA NativeReturnStep ==
    ASSUME IInv, NEW c \in Calls, NEW code \in Codes \ {"Cancelled"}, NativeReturn(c, code)
    PROVE  IInv'
<1> USE FfiAssumption DEF IInv, Goto, sched, token, tls, future, outcome,
      NativeReturn, Return
<1>1. TypeOK'
  BY Zenon DEF TypeOK, Pcs, AnyThread, CallOrNone, Codes, Kinds, ThreadInv,
         NotOnThread
<1>2. ThreadInv' /\ NestedInv'
  BY SMTT(20) DEF TypeOK, ThreadInv, NestedInv, NotOnThread, AnyThread, InTokioRuntime
<1>3. TokenInv' /\ SlotInv'
  BY SMTT(20) DEF TypeOK, TokenInv, BeforeToken, SlotInv, SlotBelongsToCall,
         InTokenWindow, ThreadInv, NotOnThread, AnyThread
<1>4. RaceInv' /\ OutcomeInv' /\ CancelledOnlyByOwnCtx' /\ LastErrorIsOwn'
  BY SMTT(20) DEF TypeOK, CancelledOnlyByOwnCtx, LastErrorIsOwn, RaceInv, OutcomeInv, BeforeReturn,
         BeforeToken, ThreadInv, NotOnThread, NestedInv, Codes
<1> QED BY Zenon, <1>1, <1>2, <1>3, <1>4

\* Success is reported.
LEMMA ReturnNilStep ==
    ASSUME IInv, NEW c \in Calls, ReturnNil(c)
    PROVE  IInv'
<1> USE FfiAssumption DEF IInv, Goto, sched, token, tls, future, outcome,
      ReturnNil, AfterReturn
<1>1. TypeOK'
  BY Zenon DEF TypeOK, Pcs, AnyThread, CallOrNone, Codes, Kinds, ThreadInv,
         NotOnThread
<1>2. ThreadInv' /\ NestedInv'
  BY SMTT(20) DEF TypeOK, ThreadInv, NestedInv, NotOnThread, AnyThread, InTokioRuntime
<1>3. TokenInv' /\ SlotInv'
  BY SMTT(20) DEF TypeOK, TokenInv, BeforeToken, SlotInv, SlotBelongsToCall,
         InTokenWindow, ThreadInv, NotOnThread, AnyThread
<1>4. RaceInv' /\ OutcomeInv' /\ CancelledOnlyByOwnCtx' /\ LastErrorIsOwn'
  BY DEF TypeOK, CancelledOnlyByOwnCtx, LastErrorIsOwn, RaceInv, OutcomeInv, BeforeReturn,
         BeforeToken, ThreadInv, NotOnThread, NestedInv, Codes
<1> QED BY Zenon, <1>1, <1>2, <1>3, <1>4

\* Cancellation is reported.
LEMMA ReturnCancelledStep ==
    ASSUME IInv, NEW c \in Calls, ReturnCancelled(c)
    PROVE  IInv'
<1> USE FfiAssumption DEF IInv, Goto, sched, token, tls, future, outcome,
      ReturnCancelled, AfterReturn
<1>1. TypeOK'
  BY Zenon DEF TypeOK, Pcs, AnyThread, CallOrNone, Codes, Kinds, ThreadInv,
         NotOnThread
<1>2. ThreadInv' /\ NestedInv'
  BY SMTT(20) DEF TypeOK, ThreadInv, NestedInv, NotOnThread, AnyThread, InTokioRuntime
<1>3. TokenInv' /\ SlotInv'
  BY SMTT(20) DEF TypeOK, TokenInv, BeforeToken, SlotInv, SlotBelongsToCall,
         InTokenWindow, ThreadInv, NotOnThread, AnyThread
<1>4. RaceInv' /\ OutcomeInv' /\ CancelledOnlyByOwnCtx' /\ LastErrorIsOwn'
  BY DEF TypeOK, CancelledOnlyByOwnCtx, LastErrorIsOwn, RaceInv, OutcomeInv, BeforeReturn,
         BeforeToken, ThreadInv, NotOnThread, NestedInv, Codes
<1> QED BY <1>1, <1>2, <1>3, <1>4, ZenonT(30)

\* A failure is reported.
LEMMA ReturnLastErrorStep ==
    ASSUME IInv, NEW c \in Calls, ReturnLastError(c)
    PROVE  IInv'
<1> USE FfiAssumption DEF IInv, Goto, sched, token, tls, future, outcome,
      ReturnLastError, AfterReturn
<1>1. TypeOK'
  BY SMTT(20) DEF TypeOK, Pcs, AnyThread, CallOrNone, Codes, Kinds, ThreadInv,
         NotOnThread
<1>2. ThreadInv' /\ NestedInv'
  BY SMTT(20) DEF TypeOK, ThreadInv, NestedInv, NotOnThread, AnyThread, InTokioRuntime
<1>3. TokenInv' /\ SlotInv'
  BY SMTT(20) DEF TypeOK, TokenInv, BeforeToken, SlotInv, SlotBelongsToCall,
         InTokenWindow, ThreadInv, NotOnThread, AnyThread
<1>4. RaceInv' /\ OutcomeInv' /\ CancelledOnlyByOwnCtx' /\ LastErrorIsOwn'
  BY DEF TypeOK, CancelledOnlyByOwnCtx, LastErrorIsOwn, RaceInv, OutcomeInv, BeforeReturn,
         BeforeToken, ThreadInv, NotOnThread, NestedInv, Codes
<1> QED BY <1>1, <1>2, <1>3, <1>4, Zenon

\* Teardown: stop the watcher.
LEMMA CloseStopStep ==
    ASSUME IInv, NEW c \in Calls, CloseStop(c)
    PROVE  IInv'
<1> USE FfiAssumption DEF IInv, Goto, sched, token, tls, future, outcome,
      CloseStop
<1>1. TypeOK'
  BY Zenon DEF TypeOK, Pcs, AnyThread, CallOrNone, Codes, Kinds, ThreadInv,
         NotOnThread
<1>2. ThreadInv' /\ NestedInv'
  BY SMTT(20) DEF TypeOK, ThreadInv, NestedInv, NotOnThread, AnyThread, InTokioRuntime
<1>3. TokenInv' /\ SlotInv'
  BY SMTT(20) DEF TypeOK, TokenInv, BeforeToken, SlotInv, SlotBelongsToCall,
         InTokenWindow, ThreadInv, NotOnThread, AnyThread
<1>4. RaceInv' /\ OutcomeInv' /\ CancelledOnlyByOwnCtx' /\ LastErrorIsOwn'
  BY DEF TypeOK, CancelledOnlyByOwnCtx, LastErrorIsOwn, RaceInv, OutcomeInv, BeforeReturn,
         BeforeToken, ThreadInv, NotOnThread, NestedInv, Codes
<1> QED BY Zenon, <1>1, <1>2, <1>3, <1>4

\* Teardown: join the watcher.
LEMMA JoinWatcherStep ==
    ASSUME IInv, NEW c \in Calls, JoinWatcher(c)
    PROVE  IInv'
<1> USE FfiAssumption DEF IInv, Goto, sched, token, tls, future, outcome,
      JoinWatcher
<1>1. TypeOK'
  BY Zenon DEF TypeOK, Pcs, AnyThread, CallOrNone, Codes, Kinds, ThreadInv,
         NotOnThread
<1>2. ThreadInv' /\ NestedInv'
  BY SMTT(20) DEF TypeOK, ThreadInv, NestedInv, NotOnThread, AnyThread, InTokioRuntime
<1>3. TokenInv' /\ SlotInv'
  BY SMTT(20) DEF TypeOK, TokenInv, BeforeToken, SlotInv, SlotBelongsToCall,
         InTokenWindow, ThreadInv, NotOnThread, AnyThread
<1>4. RaceInv' /\ OutcomeInv' /\ CancelledOnlyByOwnCtx' /\ LastErrorIsOwn'
  BY DEF TypeOK, CancelledOnlyByOwnCtx, LastErrorIsOwn, RaceInv, OutcomeInv, BeforeReturn,
         BeforeToken, ThreadInv, NotOnThread, NestedInv, Codes
<1> QED BY <1>1, <1>2, <1>3, <1>4, Zenon

\* Teardown: clear the slot.
LEMMA ClearSlotStep ==
    ASSUME IInv, NEW c \in Calls, ClearSlot(c)
    PROVE  IInv'
<1> USE FfiAssumption DEF IInv, Goto, sched, token, tls, future, outcome,
      ClearSlot
<1>1. TypeOK'
  BY Zenon DEF TypeOK, Pcs, AnyThread, CallOrNone, Codes, Kinds, ThreadInv,
         NotOnThread
<1>2. ThreadInv' /\ NestedInv'
  BY SMTT(20) DEF TypeOK, ThreadInv, NestedInv, NotOnThread, AnyThread, InTokioRuntime
<1>3. TokenInv' /\ SlotInv'
  BY SMTT(20) DEF TypeOK, TokenInv, BeforeToken, SlotInv, SlotBelongsToCall,
         InTokenWindow, ThreadInv, NotOnThread, AnyThread
<1>4. RaceInv' /\ OutcomeInv' /\ CancelledOnlyByOwnCtx' /\ LastErrorIsOwn'
  BY DEF TypeOK, CancelledOnlyByOwnCtx, LastErrorIsOwn, RaceInv, OutcomeInv, BeforeReturn,
         BeforeToken, ThreadInv, NotOnThread, NestedInv, Codes
<1> QED BY <1>1, <1>2, <1>3, <1>4, Zenon

\* Teardown: free the token.
LEMMA FreeTokenStep ==
    ASSUME IInv, NEW c \in Calls, FreeToken(c)
    PROVE  IInv'
<1> USE FfiAssumption DEF IInv, Goto, sched, token, tls, future, outcome,
      FreeToken
<1>1. TypeOK'
  BY Zenon DEF TypeOK, Pcs, AnyThread, CallOrNone, Codes, Kinds, ThreadInv,
         NotOnThread
<1>2. ThreadInv' /\ NestedInv'
  BY SMTT(20) DEF TypeOK, ThreadInv, NestedInv, NotOnThread, AnyThread, InTokioRuntime
<1>3. TokenInv' /\ SlotInv'
  BY SMTT(20) DEF TypeOK, TokenInv, BeforeToken, SlotInv, SlotBelongsToCall,
         InTokenWindow, ThreadInv, NotOnThread, AnyThread
<1>4. RaceInv' /\ OutcomeInv' /\ CancelledOnlyByOwnCtx' /\ LastErrorIsOwn'
  BY DEF TypeOK, CancelledOnlyByOwnCtx, LastErrorIsOwn, RaceInv, OutcomeInv, BeforeReturn,
         BeforeToken, ThreadInv, NotOnThread, NestedInv, Codes
<1> QED BY Zenon, <1>1, <1>2, <1>3, <1>4

\* The call returns.
LEMMA UnlockOSThreadStep ==
    ASSUME IInv, NEW c \in Calls, UnlockOSThread(c)
    PROVE  IInv'
<1> USE FfiAssumption DEF IInv, Goto, sched, token, tls, future, outcome,
      UnlockOSThread
<1>1. TypeOK'
  BY Zenon DEF TypeOK, Pcs, AnyThread, CallOrNone, Codes, Kinds, ThreadInv,
         NotOnThread
<1>2. ThreadInv' /\ NestedInv'
  BY SMTT(20) DEF TypeOK, ThreadInv, NestedInv, NotOnThread, AnyThread, InTokioRuntime
<1>3. TokenInv' /\ SlotInv'
  BY SMTT(20) DEF TypeOK, TokenInv, BeforeToken, SlotInv, SlotBelongsToCall,
         InTokenWindow, ThreadInv, NotOnThread, AnyThread
<1>4. RaceInv' /\ OutcomeInv' /\ CancelledOnlyByOwnCtx' /\ LastErrorIsOwn'
  BY DEF TypeOK, CancelledOnlyByOwnCtx, LastErrorIsOwn, RaceInv, OutcomeInv, BeforeReturn,
         BeforeToken, ThreadInv, NotOnThread, NestedInv, Codes
<1> QED BY Zenon, <1>1, <1>2, <1>3, <1>4

-----------------------------------------------------------------------------
\* The initial states satisfy the invariant.
LEMMA InitInv == Init => IInv
<1> SUFFICES ASSUME Init PROVE IInv
  BY Zenon
<1> USE FfiAssumption DEF Init
<1>1. TypeOK
  BY Zenon DEF TypeOK, Pcs, AnyThread, CallOrNone, Codes, Kinds
<1>2. ThreadInv /\ NestedInv /\ TokenInv /\ SlotInv
  BY Zenon DEF ThreadInv, NestedInv, TokenInv, SlotInv, SlotBelongsToCall,
         NotOnThread, BeforeToken, AnyThread
<1>3. RaceInv /\ OutcomeInv /\ CancelledOnlyByOwnCtx /\ LastErrorIsOwn
  BY DEF RaceInv, OutcomeInv, CancelledOnlyByOwnCtx, LastErrorIsOwn
<1> QED BY <1>1, <1>2, <1>3 DEF IInv

\* Every step preserves it.
LEMMA NextInv == IInv /\ [Next]_vars => IInv'
<1> SUFFICES ASSUME IInv, [Next]_vars PROVE IInv'
  BY Zenon
<1>1. ASSUME NEW c \in Calls, CallStep(c) PROVE IInv'
  BY Zenon, <1>1, LockOSThreadStep, RejectReentrantStep, CheckCtxStep, NewTokenStep,
     SetTokenStep, SpawnWatcherStep, BlockOnStep, PollReadyStep,
     PollPendingStep, PollCancelledStep, NativeReturnStep, ReturnNilStep, ReturnCancelledStep,
     ReturnLastErrorStep, CloseStopStep, JoinWatcherStep, ClearSlotStep,
     FreeTokenStep, UnlockOSThreadStep
     DEF CallStep
<1>2. ASSUME NEW c \in Calls, WatcherStep(c) PROVE IInv'
  BY Zenon, <1>2, WatcherWakeStep, WatcherFireStep, WatcherStopStep DEF WatcherStep
<1>3. ASSUME NEW c \in Calls, Environment(c) PROVE IInv'
  BY Zenon, <1>3, CtxDoneStep, FutureReadyStep, BeginStep, MigrateStep,
     BeginNestedStep DEF Environment
<1>4. CASE UNCHANGED vars
  <2> USE <1>4 DEF vars, sched, token, tls, future, outcome, IInv
  <2>1. TypeOK'
    BY Zenon DEF TypeOK
  <2>2. ThreadInv'
    BY Zenon DEF ThreadInv
  <2>3. NestedInv'
    BY Zenon DEF NestedInv, InTokioRuntime
  <2>4. TokenInv'
    BY Zenon DEF TokenInv
  <2>5. SlotInv'
    BY Zenon DEF SlotInv, SlotBelongsToCall, InTokenWindow
  <2>6. RaceInv'
    BY Zenon DEF RaceInv
  <2>7. OutcomeInv'
    BY Zenon DEF OutcomeInv
  <2>8. CancelledOnlyByOwnCtx' /\ LastErrorIsOwn'
    BY DEF CancelledOnlyByOwnCtx, LastErrorIsOwn
  <2> QED BY Zenon, <2>1, <2>2, <2>3, <2>4, <2>5, <2>6, <2>7, <2>8
<1> QED BY <1>1, <1>2, <1>3, <1>4 DEF Next, Terminated

\* IInv is an invariant of the specification.
THEOREM Inductive == Spec => []IInv
BY InitInv, NextInv, PTL DEF Spec

-----------------------------------------------------------------------------
\* Every reachable state of the call protocol is well typed.
THEOREM TypeCorrect == Spec => []TypeOK
<1>1. IInv => TypeOK
  BY DEF IInv
<1> QED BY <1>1, Inductive, PTL

\* ffiCall's teardown order keeps the watcher goroutine away from a freed
\* token, whatever the interleaving.
THEOREM WatcherNeverUsesFreedToken == Spec => []NoUseAfterFree
<1>1. IInv => NoUseAfterFree
  BY Zenon DEF IInv, TypeOK, TokenInv, BeforeToken, NoUseAfterFree, Pcs
<1> QED BY <1>1, Inductive, PTL

\* A reused OS thread never carries the cancel token of an earlier call.
THEOREM SlotNeverStale == Spec => []SlotBelongsToCall
<1>1. IInv => SlotBelongsToCall
  BY DEF IInv, SlotInv
<1> QED BY <1>1, Inductive, PTL

\* A call is cancelled only through its own context, so both defensive
\* fallbacks of ffiCall are unreachable.
THEOREM CancellationIsOwn == Spec => []CancelledOnlyByOwnCtx
<1>1. IInv => CancelledOnlyByOwnCtx
  BY DEF IInv
<1> QED BY <1>1, Inductive, PTL

\* The error a failed call returns is the one its own native function set.
THEOREM ErrorIsOwn == Spec => []LastErrorIsOwn
<1>1. IInv => LastErrorIsOwn
  BY DEF IInv
<1> QED BY <1>1, Inductive, PTL

\* No call enters block_on on a thread that is already inside the runtime.
THEOREM RuntimeNeverReentered == Spec => []NoNestedBlockOn
<1>1. IInv => NoNestedBlockOn
  <2> SUFFICES ASSUME IInv, NEW c \in Calls, pc[c] = "driving"
               PROVE  /\ thr[c] \in Threads
                      /\ \A o \in Calls : pc[o] = "driving" /\ thr[o] = thr[c] => o = c
    BY Zenon DEF NoNestedBlockOn
  <2>1. outer[c] = NoCall /\ thr[c] # NoThread
    BY Zenon DEF IInv, NestedInv, ThreadInv, NotOnThread
  <2>2. thr[c] \in Threads
    BY Zenon, <2>1 DEF IInv, ThreadInv
  <2>3. ASSUME NEW o \in Calls, pc[o] = "driving", thr[o] = thr[c], o # c
        PROVE  FALSE
    BY <2>1, <2>3, FfiAssumption DEF IInv, ThreadInv, NestedInv
  <2> QED BY Zenon, <2>2, <2>3
<1> QED BY <1>1, Inductive, PTL

\* A call made from inside a callback only ever returns ErrReentrantCall.
THEOREM ReentrantCallsRejected == Spec => []NestedRejected
<1>1. IInv => NestedRejected
  BY Zenon DEF IInv, NestedInv, NestedRejected
<1> QED BY <1>1, Inductive, PTL

\* A returned call leaves no live token, no watcher and no installed token.
THEOREM NothingLeft == Spec => []NothingLeaks
<1>1. IInv => NothingLeaks
  <2> SUFFICES ASSUME IInv PROVE NothingLeaks
    BY Zenon
  <2>1. \A c \in Calls : pc[c] = "done" =>
          tok[c] # "live" /\ watcher[c] \in {"none", "finished"}
    BY Zenon DEF IInv, TokenInv
  <2>2. ASSUME NEW t \in AnyThread, Vacant(t) PROVE slot[t] = NoCall
    BY <2>2 DEF IInv, TypeOK, CallOrNone, SlotInv, SlotBelongsToCall, Vacant
  <2> QED BY <2>1, <2>2 DEF NothingLeaks
<1> QED BY <1>1, Inductive, PTL

-----------------------------------------------------------------------------
(* A cancellation reaches the future.                                      *)

\* Every step of a call preserves CancelInv.  Only SetToken and ClearSlot touch
\* a slot; no other call can be on that thread with a token of its own.
LEMMA CancelCallStep ==
    ASSUME IInv, CancelInv, NEW c \in Calls, CallStep(c)
    PROVE  CancelInv'
<1> USE FfiAssumption DEF CancelInv, InTokenWindow, Stopped, Goto, sched, token, tls,
      future, outcome
<1>1. TypeOK /\ ThreadInv /\ NestedInv /\ TokenInv
  BY Zenon DEF IInv
<1>2. ASSUME pc[c] \notin NotOnThread PROVE thr[c] \in AnyThread
  BY <1>1, <1>2, OnThread, Zenon
<1>3. CASE LockOSThread(c)
  BY <1>1, <1>2, <1>3 DEF LockOSThread, TypeOK, TokenInv, BeforeToken
<1>4. CASE RejectReentrant(c)
  BY SMTT(20), <1>1, <1>2, <1>4 DEF RejectReentrant, TypeOK, TokenInv, BeforeToken
<1>5. CASE CheckCtx(c)
  BY <1>1, <1>2, <1>5 DEF CheckCtx, TypeOK, TokenInv, BeforeToken
<1>6. CASE NewToken(c)
  BY SMTT(20), <1>1, <1>2, <1>6 DEF NewToken, TypeOK, TokenInv, BeforeToken
<1>7. CASE SetToken(c)
  BY SMTT(20), <1>1, <1>2, <1>7 DEF SetToken, TypeOK, TokenInv, BeforeToken, ThreadInv, NestedInv, NotOnThread
<1>8. CASE SpawnWatcher(c)
  BY SMTT(20), <1>1, <1>2, <1>8 DEF SpawnWatcher, TypeOK, TokenInv, BeforeToken
<1>9. CASE BlockOn(c)
  BY SMTT(20), <1>1, <1>2, <1>9 DEF BlockOn, TypeOK, TokenInv, BeforeToken
<1>10. CASE PollReady(c)
  BY SMTT(20), <1>1, <1>2, <1>10 DEF PollReady, TypeOK, TokenInv, BeforeToken
<1>11. CASE PollCancelled(c)
  BY SMTT(20), <1>1, <1>2, <1>11 DEF PollCancelled, Return, TypeOK, TokenInv, BeforeToken
<1>21. CASE PollPending(c)
  BY Zenon, <1>1, <1>2, <1>21 DEF PollPending, TypeOK
<1>12. CASE ReturnNil(c)
  BY SMTT(20), <1>1, <1>2, <1>12 DEF ReturnNil, AfterReturn, TypeOK, TokenInv, BeforeToken
<1>13. CASE ReturnCancelled(c)
  BY SMTT(20), <1>1, <1>2, <1>13 DEF ReturnCancelled, AfterReturn, TypeOK, TokenInv, BeforeToken
<1>14. CASE ReturnLastError(c)
  BY SMTT(20), <1>1, <1>2, <1>14 DEF ReturnLastError, AfterReturn, TypeOK, TokenInv, BeforeToken
<1>15. CASE CloseStop(c)
  BY SMTT(20), <1>1, <1>2, <1>15 DEF CloseStop, TypeOK, TokenInv, BeforeToken
<1>16. CASE JoinWatcher(c)
  BY SMTT(20), <1>1, <1>2, <1>16 DEF JoinWatcher, TypeOK, TokenInv, BeforeToken
<1>17. CASE ClearSlot(c)
  BY SMTT(20), <1>1, <1>2, <1>17 DEF ClearSlot, TypeOK, TokenInv, BeforeToken, ThreadInv, NestedInv, NotOnThread
<1>18. CASE FreeToken(c)
  BY SMTT(20), <1>1, <1>2, <1>18 DEF FreeToken, TypeOK, TokenInv, BeforeToken
<1>19. CASE UnlockOSThread(c)
  BY SMTT(20), <1>1, <1>2, <1>19 DEF UnlockOSThread, TypeOK, TokenInv, BeforeToken
<1>20. ASSUME NEW code \in Codes, NativeReturn(c, code) PROVE CancelInv'
  BY <1>1, <1>2, <1>20 DEF NativeReturn, Return, TypeOK, TokenInv, BeforeToken
<1> QED BY <1>3, <1>4, <1>5, <1>6, <1>7, <1>8, <1>9, <1>10, <1>11, <1>12, <1>13, <1>14, <1>15, <1>16, <1>17, <1>18, <1>19, <1>20, <1>21, Zenon DEF CallStep

\* So do the watchers, the contexts, the scheduler and new calls.
LEMMA CancelOtherStep ==
    ASSUME IInv, CancelInv, NEW c \in Calls, WatcherStep(c) \/ Environment(c)
    PROVE  CancelInv'
<1> USE FfiAssumption DEF CancelInv, InTokenWindow, Stopped, Goto, sched, token, tls,
      future, outcome
<1>1. TypeOK /\ ThreadInv /\ NestedInv /\ TokenInv
  BY Zenon DEF IInv
<1>2. CASE WatcherWake(c)
  BY <1>1, <1>2 DEF WatcherWake, TypeOK, TokenInv, BeforeToken
<1>3. CASE WatcherFire(c)
  BY SMTT(20), <1>1, <1>3 DEF WatcherFire, TypeOK, TokenInv, BeforeToken
<1>4. CASE WatcherStop(c)
  BY <1>1, <1>4 DEF WatcherStop, TypeOK, TokenInv, BeforeToken
<1>5. CASE CtxDone(c)
  BY <1>1, <1>5 DEF CtxDone, TypeOK
<1>6. CASE FutureReady(c)
  BY Zenon, <1>1, <1>6 DEF FutureReady, TypeOK
<1>7. ASSUME NEW t \in Threads, Begin(c, t) PROVE CancelInv'
  BY <1>1, <1>7 DEF Begin, TypeOK, TokenInv, BeforeToken
<1>8. ASSUME NEW t \in Threads, Migrate(c, t) PROVE CancelInv'
  BY SMTT(20), <1>1, <1>8 DEF Migrate, TypeOK, ThreadInv, NotOnThread
<1>9. ASSUME NEW o \in Calls, NEW t \in AnyThread, BeginNested(c, o, t) PROVE CancelInv'
  BY <1>1, <1>9 DEF BeginNested, TypeOK, TokenInv, BeforeToken
<1> QED BY <1>2, <1>3, <1>4, <1>5, <1>6, <1>7, <1>8, <1>9, ZenonT(30) DEF WatcherStep, Environment

\* IInv and CancelInv together are inductive.
LEMMA CancelInductive == Spec => [](IInv /\ CancelInv)
<1>1. Init => CancelInv
  <2> SUFFICES ASSUME Init, NEW c \in Calls
               PROVE  /\ pc[c] = "idle" /\ watcher[c] = "none"
                      /\ driven[c] <= MaxBlockOn
    BY Zenon DEF CancelInv, InTokenWindow, Stopped
  <2>1. driven[c] = 0
    BY DEF Init
  <2> QED BY <2>1, FfiAssumption DEF Init
<1>2. IInv /\ CancelInv /\ [Next]_vars => CancelInv'
  <2> SUFFICES ASSUME IInv, CancelInv, [Next]_vars PROVE CancelInv'
    BY Zenon
  <2>1. CASE UNCHANGED vars
    BY <2>1 DEF vars, sched, token, tls, future, outcome, CancelInv, InTokenWindow, Stopped
  <2> QED BY <2>1, CancelCallStep, CancelOtherStep DEF Next, Terminated
<1> QED BY <1>1, <1>2, InitInv, NextInv, PTL DEF Spec

\* A cancellation that has happened is always on its way to the future that the
\* call is driving, or has arrived there: no interleaving of the watcher, of
\* nested calls and of calls that reuse the thread loses it.
THEOREM CancellationReaches == Spec => []CancelReaches
<1>1. IInv /\ CancelInv => CancelReaches
  BY DEF IInv, TypeOK, TokenInv, CancelInv, CancelReaches, Stopped
<1> QED BY <1>1, CancelInductive, PTL

-----------------------------------------------------------------------------
(* Progress: where each step takes its own call and leaves the others.     *)

\* What a step of another call leaves alone.
Untouched(d) ==
    /\ pc'[d] = pc[d] /\ driven'[d] = driven[d] /\ polled'[d] = polled[d]
    /\ rc'[d] = rc[d] /\ result'[d] = result[d] /\ reported'[d] = reported[d]

\* A step of c moves no other call, counts none of its futures and does not
\* change what it returns.
LEMMA CallStepOthers ==
    ASSUME IInv, NEW c \in Calls, CallStep(c)
    PROVE  outer' = outer /\ ctx' = ctx /\ \A d \in Calls \ {c} : Untouched(d)
<1> USE DEF Goto, sched, token, tls, future, outcome, Untouched
<1>1. TypeOK
  BY Zenon DEF IInv
<1>2. CASE LockOSThread(c)
  BY Zenon, <1>1, <1>2 DEF LockOSThread, TypeOK
<1>3. CASE RejectReentrant(c)
  BY <1>1, <1>3 DEF RejectReentrant, TypeOK
<1>4. CASE CheckCtx(c)
  BY <1>1, <1>4 DEF CheckCtx, TypeOK
<1>5. CASE NewToken(c)
  BY Zenon, <1>1, <1>5 DEF NewToken, TypeOK
<1>6. CASE SetToken(c)
  BY Zenon, <1>1, <1>6 DEF SetToken, TypeOK
<1>7. CASE SpawnWatcher(c)
  BY Zenon, <1>1, <1>7 DEF SpawnWatcher, TypeOK
<1>8. CASE BlockOn(c)
  BY Zenon, <1>1, <1>8 DEF BlockOn, TypeOK
<1>9. CASE PollReady(c)
  BY Zenon, <1>1, <1>9 DEF PollReady, TypeOK
<1>10. CASE PollCancelled(c)
  BY Zenon, <1>1, <1>10 DEF PollCancelled, Return, TypeOK
<1>20. CASE PollPending(c)
  BY Zenon, <1>1, <1>20 DEF PollPending, TypeOK
<1>11. CASE ReturnNil(c)
  BY Zenon, <1>1, <1>11 DEF ReturnNil, AfterReturn, TypeOK
<1>12. CASE ReturnCancelled(c)
  BY Zenon, <1>1, <1>12 DEF ReturnCancelled, AfterReturn, TypeOK
<1>13. CASE ReturnLastError(c)
  BY Zenon, <1>1, <1>13 DEF ReturnLastError, AfterReturn, TypeOK
<1>14. CASE CloseStop(c)
  BY Zenon, <1>1, <1>14 DEF CloseStop, TypeOK
<1>15. CASE JoinWatcher(c)
  BY Zenon, <1>1, <1>15 DEF JoinWatcher, TypeOK
<1>16. CASE ClearSlot(c)
  BY Zenon, <1>1, <1>16 DEF ClearSlot, TypeOK
<1>17. CASE FreeToken(c)
  BY Zenon, <1>1, <1>17 DEF FreeToken, TypeOK
<1>18. CASE UnlockOSThread(c)
  BY Zenon, <1>1, <1>18 DEF UnlockOSThread, TypeOK
<1>19. CASE \E code \in Codes : NativeReturn(c, code)
  BY <1>1, <1>19 DEF NativeReturn, Return, TypeOK
<1> QED BY <1>2, <1>3, <1>4, <1>5, <1>6, <1>7, <1>8, <1>9, <1>10, <1>11, <1>12, <1>13, <1>14, <1>15, <1>16, <1>17, <1>18, <1>19, <1>20, Zenon DEF CallStep

\* A step of c brings c closer to its return.
LEMMA CallStepCloser ==
    ASSUME IInv, CancelInv, NEW c \in Calls, CallStep(c)
    PROVE  StepsLeft(c)' < StepsLeft(c)
<1> USE FfiAssumption DEF Goto, sched, token, tls, future, outcome, StepsLeft
<1>1. /\ TypeOK
      /\ driven[c] \in Nat /\ driven[c] <= MaxBlockOn
      /\ pc[c] \in Pcs
  BY DEF IInv, TypeOK, CancelInv
<1>2. CASE LockOSThread(c)
  BY <1>1, <1>2 DEF LockOSThread, TypeOK
<1>3. CASE RejectReentrant(c)
  BY <1>1, <1>3 DEF RejectReentrant, TypeOK
<1>4. CASE CheckCtx(c)
  BY <1>1, <1>4 DEF CheckCtx, TypeOK
<1>5. CASE NewToken(c)
  BY <1>1, <1>5 DEF NewToken, TypeOK
<1>6. CASE SetToken(c)
  BY <1>1, <1>6 DEF SetToken, TypeOK
<1>7. CASE SpawnWatcher(c)
  BY <1>1, <1>7 DEF SpawnWatcher, TypeOK
<1>8. CASE BlockOn(c)
  BY <1>1, <1>8 DEF BlockOn, TypeOK
<1>9. CASE PollReady(c)
  BY <1>1, <1>9 DEF PollReady, TypeOK
<1>10. CASE PollCancelled(c)
  BY <1>1, <1>10 DEF PollCancelled, Return, TypeOK
<1>20. CASE PollPending(c)
  BY <1>1, <1>20 DEF PollPending, TypeOK
<1>11. CASE ReturnNil(c)
  BY <1>1, <1>11 DEF ReturnNil, AfterReturn, TypeOK
<1>12. CASE ReturnCancelled(c)
  BY <1>1, <1>12 DEF ReturnCancelled, AfterReturn, TypeOK
<1>13. CASE ReturnLastError(c)
  BY <1>1, <1>13 DEF ReturnLastError, AfterReturn, TypeOK
<1>14. CASE CloseStop(c)
  BY <1>1, <1>14 DEF CloseStop, TypeOK
<1>15. CASE JoinWatcher(c)
  BY <1>1, <1>15 DEF JoinWatcher, TypeOK
<1>16. CASE ClearSlot(c)
  BY <1>1, <1>16 DEF ClearSlot, TypeOK
<1>17. CASE FreeToken(c)
  BY <1>1, <1>17 DEF FreeToken, TypeOK
<1>18. CASE UnlockOSThread(c)
  BY <1>1, <1>18 DEF UnlockOSThread, TypeOK
<1>19. CASE \E code \in Codes : NativeReturn(c, code)
  BY SMTT(20), <1>1, <1>19 DEF NativeReturn, Return, TypeOK
<1> QED BY <1>2, <1>3, <1>4, <1>5, <1>6, <1>7, <1>8, <1>9, <1>10, <1>11, <1>12, <1>13, <1>14, <1>15, <1>16, <1>17, <1>18, <1>19, <1>20, ZenonT(30) DEF CallStep

\* Watchers, contexts and the scheduler move no call; a new call starts.
LEMMA OtherStepsMove ==
    ASSUME IInv, NEW c \in Calls, WatcherStep(c) \/ Environment(c)
    PROVE  /\ driven' = driven /\ polled' = polled
           /\ \/ pc' = pc
              \/ pc[c] = "idle" /\ pc' = [pc EXCEPT ![c] = "start"]
<1> USE DEF Goto, sched, token, tls, future, outcome
<1> QED BY Zenon DEF IInv, TypeOK, WatcherStep, Environment, WatcherWake, WatcherFire,
      WatcherStop, CtxDone, FutureReady, Begin, BeginNested, Migrate

\* A call never goes back, and each of its steps brings its return closer.
THEOREM CallsAdvance == Spec => CallAdvances
<1>1. ASSUME IInv, CancelInv, [Next]_vars, NEW d \in Calls
      PROVE  StepsLeft(d)' <= StepsLeft(d)
  <2>1. TypeOK /\ driven[d] \in Nat /\ driven[d] <= MaxBlockOn /\ MaxBlockOn \in Nat
    BY Zenon, <1>1, FfiAssumption DEF IInv, TypeOK, CancelInv
  <2>2. ASSUME pc'[d] = pc[d], driven'[d] = driven[d], polled'[d] = polled[d] PROVE StepsLeft(d)' <= StepsLeft(d)
    BY <2>1, <2>2 DEF StepsLeft
  <2>3. CASE UNCHANGED vars
    BY Zenon, <2>2, <2>3 DEF vars, future
  <2>4. ASSUME NEW c \in Calls, CallStep(c) PROVE StepsLeft(d)' <= StepsLeft(d)
    <3>1. CASE d # c
      BY <1>1, <2>2, <2>4, <3>1, CallStepOthers, Zenon DEF Untouched
    <3>2. CASE d = c
      <4>1. StepsLeft(d) \in Nat /\ StepsLeft(d)' \in Nat
        <5>1. IInv' /\ CancelInv'
          BY Zenon, <1>1, <2>4, NextInv, CancelCallStep
        <5>2. driven'[d] \in Nat /\ driven'[d] <= MaxBlockOn
          BY Zenon, <5>1 DEF IInv, TypeOK, CancelInv
        <5> QED BY <2>1, <5>2 DEF StepsLeft
      <4> QED BY <1>1, <2>4, <3>2, <4>1, CallStepCloser
    <3> QED BY <3>1, <3>2
  <2>5. ASSUME NEW c \in Calls, WatcherStep(c) \/ Environment(c)
        PROVE  StepsLeft(d)' <= StepsLeft(d)
    <3>1. /\ driven'[d] = driven[d] /\ polled'[d] = polled[d]
          /\ pc'[d] = pc[d] \/ (pc[d] = "idle" /\ pc'[d] = "start")
      BY Zenon, <1>1, <2>1, <2>5, OtherStepsMove DEF TypeOK
    <3> QED BY <2>1, <3>1 DEF StepsLeft
  <2> QED BY Zenon, <1>1, <2>3, <2>4, <2>5 DEF Next, Terminated
<1>2. ASSUME IInv, CancelInv, [Next]_vars
      PROVE  [\A c \in Calls :
                /\ StepsLeft(c)' <= StepsLeft(c)
                /\ CallStep(c) => StepsLeft(c)' < StepsLeft(c)]_vars
  BY <1>1, <1>2, CallStepCloser
<1> QED BY <1>2, CancelInductive, PTL DEF Spec, CallAdvances

-----------------------------------------------------------------------------
(* ffiCall implements NativeCall.                                          *)

\* An untouched call keeps its stage and its outcome.
LEMMA UntouchedMaps ==
    ASSUME NEW d \in Calls, Untouched(d)
    PROVE  Stage(d)' = Stage(d) /\ Outcome(d)' = Outcome(d)
<1>1. Stage(d)' = Stage(d)
  BY DEF Untouched, Stage
<1> QED BY <1>1 DEF Untouched, Outcome

\* A step that keeps the stages, the outcomes, who is nested and the contexts
\* is a stutter of NativeCall.
LEMMA Stutters ==
    ASSUME NEW c \in Calls, outer' = outer, ctx' = ctx,
           \A d \in Calls \ {c} : Untouched(d),
           Stage(c)' = Stage(c), Outcome(c)' = Outcome(c)
    PROVE  UNCHANGED Promise!vars
<1>1. \A d \in Calls : Stage(d)' = Stage(d) /\ Outcome(d)' = Outcome(d)
  BY Zenon, UntouchedMaps
<1> QED BY <1>1, Zenon DEF Promise!vars

\* A step that moves c alone from one stage to another, as NativeCall sees it.
LEMMA Moves ==
    ASSUME NEW c \in Calls, NEW from, NEW to, NEW o, outer' = outer, ctx' = ctx,
           \A d \in Calls \ {c} : Untouched(d),
           Stage(c) = from, Stage(c)' = to, Outcome(c)' = o
    PROVE  /\ Promise!Move(c, from, to)
           /\ [d \in Calls |-> Outcome(d)]' = [[d \in Calls |-> Outcome(d)] EXCEPT ![c] = o]
           /\ UNCHANGED [d \in Calls |-> outer[d] # NoCall]
           /\ UNCHANGED [d \in Calls |-> ctx[d] = "done"]
<1>1. \A d \in Calls \ {c} : Stage(d)' = Stage(d) /\ Outcome(d)' = Outcome(d)
  BY UntouchedMaps
<1>2. Promise!Move(c, from, to)
  BY <1>1, Zenon DEF Promise!Move
<1>3. [d \in Calls |-> Outcome(d)]' = [[d \in Calls |-> Outcome(d)] EXCEPT ![c] = o]
  BY <1>1, Zenon
<1> QED BY Zenon, <1>2, <1>3

\* Each step of a call is a step or a stutter of NativeCall.
LEMMA CallStepMaps ==
    ASSUME IInv, NEW c \in Calls, CallStep(c)
    PROVE  [Promise!Next]_(Promise!vars)
<1> USE FfiAssumption
<1>1. TypeOK /\ ThreadInv /\ NestedInv /\ OutcomeInv /\ CancelledOnlyByOwnCtx
  BY Zenon DEF IInv
<1>2. pc[c] \in Pcs /\ rc[c] \in Codes
  BY Zenon, <1>1 DEF TypeOK
<1>3. outer' = outer /\ ctx' = ctx /\ \A d \in Calls \ {c} : Untouched(d)
  BY Zenon, CallStepOthers
<1>4. ASSUME Stage(c)' = Stage(c), Outcome(c)' = Outcome(c)
      PROVE  UNCHANGED Promise!vars
  BY Zenon, <1>3, <1>4, Stutters
<1>5. CASE LockOSThread(c)
  <2>1. pc[c] = "start" /\ pc'[c] = "reentrant?" /\ result'[c] = result[c] /\ reported'[c] = reported[c]
    BY <1>1, <1>5 DEF LockOSThread, Goto, sched, token, tls, future, outcome, TypeOK
  <2>2. Stage(c)' = Stage(c) /\ Outcome(c)' = Outcome(c)
    BY Zenon, <2>1 DEF Stage, Outcome
  <2> QED BY Zenon, <1>4, <2>2
<1>6. CASE NewToken(c)
  <2>1. pc[c] = "newtoken" /\ pc'[c] = "settoken" /\ result'[c] = result[c] /\ reported'[c] = reported[c]
    BY <1>1, <1>6 DEF NewToken, Goto, sched, token, tls, future, outcome, TypeOK
  <2>2. Stage(c)' = Stage(c) /\ Outcome(c)' = Outcome(c)
    BY Zenon, <2>1 DEF Stage, Outcome
  <2> QED BY <1>4, <2>2
<1>7. CASE SetToken(c)
  <2>1. pc[c] = "settoken" /\ pc'[c] = "spawn" /\ result'[c] = result[c] /\ reported'[c] = reported[c]
    BY <1>1, <1>7 DEF SetToken, Goto, sched, token, tls, future, outcome, TypeOK
  <2>2. Stage(c)' = Stage(c) /\ Outcome(c)' = Outcome(c)
    BY Zenon, <2>1 DEF Stage, Outcome
  <2> QED BY <1>4, <2>2
<1>8. CASE BlockOn(c)
  <2>1. pc[c] = "native" /\ pc'[c] = "driving" /\ result'[c] = result[c] /\ reported'[c] = reported[c]
    BY <1>1, <1>8 DEF BlockOn, Goto, sched, token, tls, future, outcome, TypeOK
  <2>2. Stage(c)' = Stage(c) /\ Outcome(c)' = Outcome(c)
    BY Zenon, <2>1 DEF Stage, Outcome
  <2> QED BY <1>4, <2>2
<1>9. CASE PollReady(c)
  <2>1. pc[c] = "driving" /\ pc'[c] = "native" /\ result'[c] = result[c] /\ reported'[c] = reported[c]
    BY <1>1, <1>9 DEF PollReady, Goto, sched, token, tls, future, outcome, TypeOK
  <2>2. Stage(c)' = Stage(c) /\ Outcome(c)' = Outcome(c)
    BY Zenon, <2>1 DEF Stage, Outcome
  <2> QED BY <1>4, <2>2
<1>23. CASE PollPending(c)
  <2>1. pc' = pc /\ rc' = rc /\ result' = result /\ reported' = reported
    BY <1>23 DEF PollPending, outcome
  <2>2. Stage(c)' = Stage(c) /\ Outcome(c)' = Outcome(c)
    BY Zenon, <2>1 DEF Stage, Outcome
  <2> QED BY <1>4, <2>2
<1>10. CASE CloseStop(c)
  <2>1. pc[c] = "stop" /\ pc'[c] = "join" /\ result'[c] = result[c] /\ reported'[c] = reported[c]
    BY <1>1, <1>10 DEF CloseStop, Goto, sched, token, tls, future, outcome, TypeOK
  <2>2. Stage(c)' = Stage(c) /\ Outcome(c)' = Outcome(c)
    BY Zenon, <2>1 DEF Stage, Outcome
  <2> QED BY <1>4, <2>2
<1>11. CASE JoinWatcher(c)
  <2>1. pc[c] = "join" /\ pc'[c] = "clear" /\ result'[c] = result[c] /\ reported'[c] = reported[c]
    BY <1>1, <1>11 DEF JoinWatcher, Goto, sched, token, tls, future, outcome, TypeOK
  <2>2. Stage(c)' = Stage(c) /\ Outcome(c)' = Outcome(c)
    BY <2>1 DEF Stage, Outcome
  <2> QED BY <1>4, <2>2
<1>12. CASE ClearSlot(c)
  <2>1. pc[c] = "clear" /\ pc'[c] = "free" /\ result'[c] = result[c] /\ reported'[c] = reported[c]
    BY <1>1, <1>12 DEF ClearSlot, Goto, sched, token, tls, future, outcome, TypeOK
  <2>2. Stage(c)' = Stage(c) /\ Outcome(c)' = Outcome(c)
    BY Zenon, <2>1 DEF Stage, Outcome
  <2> QED BY <1>4, <2>2
<1>13. CASE FreeToken(c)
  <2>1. pc[c] = "free" /\ pc'[c] = "unlock" /\ result'[c] = result[c] /\ reported'[c] = reported[c]
    BY <1>1, <1>13 DEF FreeToken, Goto, sched, token, tls, future, outcome, TypeOK
  <2>2. Stage(c)' = Stage(c) /\ Outcome(c)' = Outcome(c)
    BY <2>1 DEF Stage, Outcome
  <2> QED BY <1>4, <2>2
<1>14. CASE ReturnNil(c)
  <2>1. /\ pc[c] = "ret" /\ pc'[c] \in {"unlock", "stop"}
        /\ rc[c] = "Ok" /\ result'[c] = "nil"
    BY <1>1, <1>14 DEF ReturnNil, AfterReturn, Goto, TypeOK
  <2>2. Stage(c)' = Stage(c) /\ Outcome(c)' = Outcome(c)
    BY Zenon, <2>1 DEF Stage, Outcome
  <2> QED BY <1>4, <2>2
<1>15. CASE ReturnCancelled(c)
  <2>1. /\ pc[c] = "ret" /\ pc'[c] \in {"unlock", "stop"}
        /\ rc[c] = "Cancelled" /\ result'[c] = "ctx.Err"
    BY <1>1, <1>15 DEF ReturnCancelled, AfterReturn, Goto, TypeOK, CancelledOnlyByOwnCtx
  <2>2. Stage(c)' = Stage(c) /\ Outcome(c)' = Outcome(c)
    BY Zenon, <2>1 DEF Stage, Outcome
  <2> QED BY <1>4, <2>2
<1>16. CASE ReturnLastError(c)
  <2>1. /\ pc[c] = "ret" /\ pc'[c] \in {"unlock", "stop"}
        /\ rc[c] \notin {"Ok", "Cancelled"}
    BY Zenon, <1>1, <1>16 DEF ReturnLastError, AfterReturn, Goto, TypeOK
  <2>2. reported'[c] = c /\ result'[c] = "lastError"
    BY <1>1, <1>16, <2>1 DEF ReturnLastError, TypeOK, OutcomeInv
  <2>3. Stage(c)' = Stage(c) /\ Outcome(c)' = Outcome(c)
    BY Zenon, <2>1, <2>2 DEF Stage, Outcome
  <2> QED BY <1>4, <2>3
<1>17. CASE UnlockOSThread(c)
  <2>1. /\ pc[c] = "unlock" /\ pc'[c] = "done"
        /\ result'[c] = result[c] /\ reported'[c] = reported[c]
    BY <1>1, <1>17 DEF UnlockOSThread, Goto, outcome, TypeOK
  <2>2. Stage(c) = "answered" /\ Stage(c)' = "returned" /\ Outcome(c)' = Outcome(c)
    BY <2>1 DEF Stage, Outcome
  <2>3. Promise!Return(c)
    BY <1>3, <2>2, Moves, ZenonT(30) DEF Promise!Return
  <2> QED BY Zenon, <2>3 DEF Promise!Next
<1>18. CASE RejectReentrant(c)
  <2>1. pc[c] = "reentrant?" /\ rc'[c] = rc[c] /\ reported'[c] = reported[c]
    BY <1>1, <1>18 DEF RejectReentrant, TypeOK
  <2>2. CASE InTokioRuntime(thr[c])
    <3>1. outer[c] # NoCall
      <4>1. CASE thr[c] \in Workers
        BY <1>1, <2>1, <4>1 DEF ThreadInv, NotOnThread
      <4>2. ASSUME NEW o \in Calls, pc[o] = "driving", thr[o] = thr[c] PROVE outer[c] # NoCall
        <5>1. o # c /\ thr[c] # NoThread
          BY Zenon, <1>1, <2>1, <4>2 DEF ThreadInv, NotOnThread
        <5>2. outer[c] = o \/ pc[c] = "driving"
          BY Zenon, <1>1, <4>2, <5>1 DEF ThreadInv
        <5> QED BY Zenon, <2>1, <5>2
      <4> QED BY <2>2, <4>1, <4>2 DEF InTokioRuntime
    <3>2. pc'[c] = "unlock" /\ result'[c] = "ErrReentrantCall"
      BY <1>1, <1>18, <2>2 DEF RejectReentrant, Goto, TypeOK
    <3>3. Stage(c) = "called" /\ Stage(c)' = "answered" /\ Outcome(c)' = "reentrant"
      BY <2>1, <3>2 DEF Stage, Outcome
    <3>4. Promise!Refuse(c)
      BY <1>3, <3>1, <3>3, Moves, ZenonT(30) DEF Promise!Refuse
    <3> QED BY <3>4 DEF Promise!Next
  <2>3. CASE ~InTokioRuntime(thr[c])
    <3>1. pc'[c] = "ctx?" /\ result'[c] = result[c]
      BY <1>1, <1>18, <2>3 DEF RejectReentrant, Goto, TypeOK
    <3>2. Stage(c)' = Stage(c) /\ Outcome(c)' = Outcome(c)
      BY <2>1, <3>1 DEF Stage, Outcome
    <3> QED BY <1>4, <3>2
  <2> QED BY <2>2, <2>3
<1>19. CASE CheckCtx(c)
  <2>1. pc[c] = "ctx?" /\ reported'[c] = reported[c] /\ outer[c] = NoCall
    BY Zenon, <1>1, <1>19 DEF CheckCtx, NestedInv
  <2>2. CASE ctx[c] = "done"
    <3>1. pc'[c] = "unlock" /\ result'[c] = "ctx.Err"
      BY <1>1, <1>19, <2>2 DEF CheckCtx, Goto, TypeOK
    <3>2. Stage(c) = "called" /\ Stage(c)' = "answered" /\ Outcome(c)' = "ended"
      BY <2>1, <3>1 DEF Stage, Outcome
    <3>3. Promise!Refuse(c)
      BY <1>3, <2>1, <2>2, <3>2, Moves, Zenon DEF Promise!Refuse
    <3> QED BY <3>3 DEF Promise!Next
  <2>3. CASE ctx[c] = "background"
    <3>1. pc'[c] = "native"
      BY <1>1, <1>19, <2>3 DEF CheckCtx, Goto, TypeOK
    <3>2. /\ Stage(c) = "called" /\ Stage(c)' = "inside"
          /\ Outcome(c)' = "none" /\ Outcome(c) = "none"
      BY Zenon, <2>1, <3>1 DEF Stage, Outcome
    <3>3. [d \in Calls |-> Outcome(d)]' = [d \in Calls |-> Outcome(d)]
      BY <1>3, <3>2, UntouchedMaps
    <3>4. Promise!Enter(c)
      BY <1>3, <2>1, <3>2, <3>3, Moves, Zenon DEF Promise!Enter
    <3> QED BY <3>4 DEF Promise!Next
  <2>4. CASE ctx[c] = "active"
    <3>1. pc'[c] = "newtoken"
      BY <1>1, <1>19, <2>4 DEF CheckCtx, Goto, TypeOK
    <3>2. Stage(c)' = Stage(c) /\ Outcome(c)' = Outcome(c)
      BY Zenon, <2>1, <3>1 DEF Stage, Outcome
    <3> QED BY <1>4, <3>2
  <2> QED BY <1>1, <2>2, <2>3, <2>4 DEF TypeOK
<1>20. CASE SpawnWatcher(c)
  <2>1. pc[c] = "spawn" /\ pc'[c] = "native" /\ outer[c] = NoCall
    BY Zenon, <1>1, <1>20 DEF SpawnWatcher, Goto, TypeOK, NestedInv
  <2>2. /\ Stage(c) = "called" /\ Stage(c)' = "inside"
        /\ Outcome(c)' = "none" /\ Outcome(c) = "none"
    BY <2>1 DEF Stage, Outcome
  <2>3. [d \in Calls |-> Outcome(d)]' = [d \in Calls |-> Outcome(d)]
    BY <1>3, <2>2, UntouchedMaps
  <2>4. Promise!Enter(c)
    BY <1>3, <2>1, <2>2, <2>3, Moves, Zenon DEF Promise!Enter
  <2> QED BY <2>4 DEF Promise!Next
<1>21. CASE PollCancelled(c)
  <2>1. pc[c] = "driving" /\ pc'[c] = "ret" /\ rc'[c] = "Cancelled"
    BY Zenon, <1>1, <1>21 DEF PollCancelled, Return, Goto, TypeOK
  <2>2. ctx[c] = "done" /\ c \notin Migrations
    BY <1>21, FfiAssumption DEF IInv, RaceInv, PollCancelled
  <2>3. Stage(c) = "inside" /\ Stage(c)' = "answered" /\ Outcome(c)' = "ended"
    BY <2>1 DEF Stage, Outcome
  <2>4. Promise!Answer(c)
    BY <1>3, <2>2, <2>3, Moves, Zenon DEF Promise!Answer
  <2> QED BY Zenon, <2>4 DEF Promise!Next
<1>22. ASSUME NEW code \in Codes \ {"Cancelled"}, NativeReturn(c, code)
       PROVE  [Promise!Next]_(Promise!vars)
  <2>1. pc[c] = "native" /\ pc'[c] = "ret" /\ rc'[c] = code
    BY <1>1, <1>22 DEF NativeReturn, Return, Goto, TypeOK
  <2>2. /\ Stage(c) = "inside" /\ Stage(c)' = "answered"
        /\ Outcome(c)' \in {"ok", "failed"}
    BY <2>1, <1>22 DEF Stage, Outcome, Codes
  <2>3. Promise!Answer(c)
    BY <1>3, <2>2, Moves, Zenon DEF Promise!Answer
  <2> QED BY <2>3 DEF Promise!Next
<1> QED
  BY Zenon, <1>5, <1>6, <1>7, <1>8, <1>9, <1>10, <1>11, <1>12, <1>13, <1>14, <1>15, <1>16,
     <1>17, <1>18, <1>19, <1>20, <1>21, <1>22, <1>23
  DEF CallStep

\* So is each step of a watcher, of a context, of the scheduler and of a new call.
LEMMA OtherStepMaps ==
    ASSUME IInv, NEW c \in Calls, WatcherStep(c) \/ Environment(c)
    PROVE  [Promise!Next]_(Promise!vars)
<1> USE DEF Goto, sched, token, tls, future, outcome
<1>1. TypeOK
  BY DEF IInv
<1>2. ASSUME pc' = pc, rc' = rc, result' = result, reported' = reported,
             outer' = outer, ctx' = ctx
      PROVE  UNCHANGED Promise!vars
  BY <1>2 DEF Promise!vars, Stage, Outcome
<1>3. CASE WatcherStep(c) \/ FutureReady(c) \/ (\E t \in Threads : Migrate(c, t))
  BY <1>2, <1>3, Zenon DEF WatcherStep, WatcherWake, WatcherFire, WatcherStop, FutureReady, Migrate
<1>4. CASE CtxDone(c)
  <2>1. /\ pc' = pc /\ rc' = rc /\ result' = result /\ reported' = reported
        /\ outer' = outer /\ ctx' = [ctx EXCEPT ![c] = "done"]
    BY <1>4 DEF CtxDone
  <2>2. \A d \in Calls : Stage(d)' = Stage(d) /\ Outcome(d)' = Outcome(d)
    BY <2>1 DEF Stage, Outcome
  <2>3. Promise!End(c)
    BY <1>1, <2>1, <2>2, Zenon DEF Promise!End, TypeOK
  <2> QED BY Zenon, <2>3 DEF Promise!Next
<1>5. ASSUME NEW o \in CallOrNone, pc[c] = "idle", pc' = [pc EXCEPT ![c] = "start"],
             outer' = [outer EXCEPT ![c] = o], ctx' = ctx,
             rc' = rc, result' = result, reported' = reported
      PROVE  [Promise!Next]_(Promise!vars)
  <2>1. \A d \in Calls \ {c} : Stage(d)' = Stage(d) /\ Outcome(d)' = Outcome(d)
    BY <1>1, <1>5 DEF Stage, Outcome, TypeOK
  <2>2. /\ Stage(c) = "idle" /\ Stage(c)' = "called"
        /\ Outcome(c) = "none" /\ Outcome(c)' = "none"
    BY <1>1, <1>5 DEF Stage, Outcome, TypeOK
  <2>3. Promise!Move(c, "idle", "called")
    BY <2>1, <2>2, Zenon DEF Promise!Move
  <2>4. UNCHANGED [d \in Calls |-> Outcome(d)] /\ UNCHANGED [d \in Calls |-> ctx[d] = "done"]
    BY <1>5, <2>1, <2>2
  <2>5. [d \in Calls |-> outer[d] # NoCall]'
          = [[d \in Calls |-> outer[d] # NoCall] EXCEPT ![c] = (o # NoCall)]
    BY <1>1, <1>5, Zenon DEF TypeOK
  <2>6. Promise!Begin(c)
    BY <2>3, <2>4, <2>5, Zenon DEF Promise!Begin
  <2> QED BY <2>6 DEF Promise!Next
<1>6. ASSUME NEW t \in Threads, Begin(c, t) PROVE [Promise!Next]_(Promise!vars)
  <2>1. outer' = [outer EXCEPT ![c] = outer[c]] /\ outer[c] \in CallOrNone
    BY <1>1, <1>6, Zenon DEF Begin, TypeOK
  <2> QED BY <1>5, <1>6, <2>1, Zenon DEF Begin
<1>7. ASSUME NEW o \in Calls, NEW t \in AnyThread, BeginNested(c, o, t)
      PROVE  [Promise!Next]_(Promise!vars)
  BY <1>5, <1>7, Zenon DEF BeginNested, CallOrNone
<1> QED BY <1>3, <1>4, <1>6, <1>7 DEF Environment

\* Whatever the threads, the tokens, the watchers and the callbacks do, a
\* caller of ffiCall sees NativeCall: one refusal or one run of the native
\* function, and the answer of that very run.
THEOREM FfiKeepsPromise == Spec => ImplementsCall
<1>1. Init => Promise!Init
  <2> SUFFICES ASSUME Init, NEW c \in Calls
               PROVE  /\ Stage(c) = "idle" /\ Outcome(c) = "none"
                      /\ outer[c] = NoCall /\ ctx[c] # "done"
    BY Zenon DEF Promise!Init
  <2>1. pc[c] = "idle" /\ outer[c] = NoCall /\ ctx[c] # "done"
    BY Zenon DEF Init
  <2> QED BY <2>1 DEF Stage, Outcome
<1>2. IInv /\ [Next]_vars => [Promise!Next]_(Promise!vars)
  <2> SUFFICES ASSUME IInv, [Next]_vars PROVE [Promise!Next]_(Promise!vars)
    OBVIOUS
  <2>1. CASE UNCHANGED vars
    BY <2>1 DEF vars, sched, outcome, Promise!vars, Stage, Outcome
  <2> QED BY <2>1, CallStepMaps, OtherStepMaps DEF Next, Terminated
<1> QED BY <1>1, <1>2, Inductive, PTL DEF Spec, ImplementsCall, Promise!Spec
=============================================================================
