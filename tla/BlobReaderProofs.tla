-------------------------- MODULE BlobReaderProofs --------------------------
(***************************************************************************)
(* The safety properties of BlobReader for any number of goroutines, any   *)
(* int64 width, blob size, buffer length and offset.  The invariant says   *)
(* that a Read owns the cursor from its mutex to its return, and what each *)
(* step of readAt has already tested.                                      *)
(***************************************************************************)
EXTENDS BlobReader, TLAPS

InRead == {"check", "size", "range", "native"}

\* The mutex, and the offset that Read passed on, still stand for the cursor.
Owner(r) ==
    /\ pc[r] = "idle" => call[r] = NoCall
    /\ pc[r] = "mu" => call[r].kind \in {"read", "seek"}
    /\ pc[r] \in InRead /\ call[r].kind = "read" => mu = r /\ from[r] = off
    /\ pc[r] = "seek" => mu = r /\ call[r].kind = "seek"
    /\ pc[r] \in InRead => call[r].kind \in {"read", "readAt"}
    /\ pc[r] \in InRead /\ call[r].kind = "readAt" => from[r] = call[r].arg

\* What readAt has tested.
Tested(r) ==
    /\ pc[r] \in {"size", "range", "native"} => from[r] >= 0 /\ call[r].len > 0
    /\ pc[r] \in {"range", "native"} => from[r] < size
    /\ pc[r] = "native" => r \in rd

Answered(r) ==
    pc[r] = "return" /\ call[r].kind # "seek" =>
        /\ ret[r].err = "nil" => ret[r].n = call[r].len
        /\ ret[r].err = "eof" => ret[r].n < call[r].len /\ from[r] + ret[r].n >= size
        /\ ret[r].err \notin {"nil", "eof"} => ret[r].n = 0

ReaderInv(r) == Owner(r) /\ Tested(r) /\ Answered(r)

ListHeld == rd # {} => listOpen

IInv == TypeOK /\ CursorInRange /\ ListHeld /\ \A r \in Readers : ReaderInv(r)

-----------------------------------------------------------------------------
\* The parts of a call are what the Go types allow.
LEMMA CallFields ==
    ASSUME NEW a \in ReaderCalls
    PROVE  /\ a.kind \in {"none", "read", "readAt", "seek"}
           /\ a.len \in 0..MaxInt
           /\ a.arg \in Int64
           /\ a.whence \in Whences
BY DEF ReaderCalls

\* The range that readAt computes, for a cursor inside the blob.
LEMMA WantBounds ==
    ASSUME TypeOK, NEW r \in Readers, from[r] >= 0, from[r] < size, call[r].len > 0
    PROVE  /\ Want(r) \in 1..MaxInt
           /\ Want(r) <= call[r].len
           /\ from[r] + Want(r) <= size
           /\ Want(r) < call[r].len => from[r] + Want(r) = size
<1>1. call[r] \in ReaderCalls /\ from[r] \in Int64 /\ size \in 0..2 * MaxInt + 1
    BY BlobAssumption DEF TypeOK
<1>2. call[r].len \in 0..MaxInt
    BY <1>1, CallFields
<1> QED BY <1>1, <1>2, BlobAssumption DEF Want, Int64

\* The initial states satisfy the invariant.
LEMMA InitInv == Init => IInv
<1> SUFFICES ASSUME Init PROVE IInv
    OBVIOUS
<1>1. TypeOK
    <2>1. NoCall \in ReaderCalls /\ 0 \in Int64
        BY BlobAssumption DEF NoCall, ReaderCalls, Int64, Whences
    <2>2. call \in [Readers -> ReaderCalls] /\ from \in [Readers -> Int64]
        BY <2>1 DEF Init
    <2>3. ret \in [Readers -> [n : 0..MaxInt, err : {"nil", "eof", "invalid", "ctx", "io"}]]
        BY BlobAssumption DEF Init
    <2> QED BY <2>1, <2>2, <2>3, Zenon DEF Init, TypeOK
<1>2. CursorInRange
    BY BlobAssumption DEF Init, CursorInRange
<1>3. ListHeld /\ \A r \in Readers : ReaderInv(r)
    BY DEF Init, ListHeld, ReaderInv, Owner, Tested, Answered, InRead
<1> QED BY <1>1, <1>2, <1>3 DEF IInv

\* A step of r leaves other goroutines, and the cursor of one that holds the
\* mutex, alone.
Only(r) ==
    /\ size' = size
    /\ \A q \in Readers \ {r} :
          /\ pc'[q] = pc[q] /\ call'[q] = call[q] /\ from'[q] = from[q] /\ ret'[q] = ret[q]
          /\ q \in rd <=> q \in rd'
          /\ mu = q => mu' = q /\ off' = off

\* The invariant after a step of r follows from what the step does to r.
LEMMA Others ==
    ASSUME IInv, NEW r \in Readers, Only(r), TypeOK', CursorInRange', ListHeld', ReaderInv(r)'
    PROVE  IInv'
<1>1. ASSUME NEW q \in Readers \ {r} PROVE ReaderInv(q)'
    <2>1. ReaderInv(q)
        BY <1>1 DEF IInv
    <2> QED BY <1>1, <2>1 DEF Only, ReaderInv, Owner, Tested, Answered
<1> QED BY <1>1 DEF IInv

\* The answers that callers wait for change only for r.
LEMMA AnswerFrame ==
    ASSUME NEW r \in Readers, Only(r)
    PROVE  [q \in Readers |-> Answer(q)]'
               = [[q \in Readers |-> Answer(q)] EXCEPT ![r] = Answer(r)']
<1>1. ASSUME NEW q \in Readers, q # r PROVE Answer(q)' = Answer(q)
    BY <1>1 DEF Only, Answer
<1> QED BY <1>1, Zenon

\* A call that neither returns nor moves the cursor does nothing for the callers.
LEMMA Unseen ==
    ASSUME NEW r \in Readers, Only(r), pc[r] # "return", pc'[r] # "return",
           UNCHANGED <<size, off, call>>
    PROVE  UNCHANGED Cursor!cursor
<1>1. Answer(r)' = Answer(r)
    BY DEF Answer
<1>2. [q \in Readers |-> Answer(q)]' = [q \in Readers |-> Answer(q)]
    BY <1>1, AnswerFrame, Zenon
<1> QED BY <1>2 DEF Cursor!cursor

\* The step with which a call returns is the one in which it answers.
LEMMA Settles ==
    ASSUME NEW r \in Readers, Only(r), pc[r] # "return", UNCHANGED <<size, call>>,
           NEW a, Answer(r)' = a
    PROVE  Cursor!Answers(r, call[r].kind, a)
<1>1. [q \in Readers |-> Answer(q)][r] = Cursor!NoAnswer
    BY DEF Answer, Cursor!NoAnswer
<1>2. [q \in Readers |-> Answer(q)]' = [[q \in Readers |-> Answer(q)] EXCEPT ![r] = a]
    BY AnswerFrame
<1> QED BY <1>1, <1>2 DEF Cursor!Answers

\* What readAt may answer with.
MayAnswer(r, n, err) ==
    /\ n \in 0..MaxInt
    /\ err \in {"nil", "eof", "invalid", "ctx", "io"}
    /\ n > 0 => from[r] >= 0 /\ from[r] + n <= size
    /\ err = "nil" => n = call[r].len
    /\ err = "eof" => n < call[r].len /\ from[r] + n >= size
    /\ err \notin {"nil", "eof"} => n = 0

\* A readAt that returns such an answer preserves the invariant, and for the
\* callers it is a Read or a ReadAt of ByteCursor, or a failure.
LEMMA DoneInv ==
    ASSUME IInv, NEW r \in Readers, pc[r] \in InRead, NEW n, NEW err, MayAnswer(r, n, err),
           Done(r, n, err), rd' \in {rd, rd \ {r}},
           UNCHANGED <<closing, listOpen, fileOpen>>
    PROVE  IInv' /\ [Cursor!Next]_(Cursor!cursor)
<1> USE DEF Done, Goto, MayAnswer
<1>1. /\ TypeOK /\ CursorInRange /\ ListHeld /\ ReaderInv(r)
      /\ off \in Int64 /\ from[r] \in Int64 /\ size \in 0..2 * MaxInt + 1 /\ MaxInt \in Nat
    BY BlobAssumption DEF IInv, TypeOK
<1>2. /\ call[r].kind \in {"read", "readAt"}
      /\ call[r].kind = "read" => mu = r /\ from[r] = off
      /\ call[r].kind = "readAt" => from[r] = call[r].arg
    BY <1>1 DEF ReaderInv, Owner
<1>3. call[r].kind = "read" /\ n = 0 => off' = off
    BY <1>1 DEF Wrap, Int64
<1>4. call[r].kind = "read" =>
        /\ off' = Cursor!Wrap(off + n) /\ off' \in Int64
        /\ n > 0 /\ size <= MaxInt => off' \in 0..MaxInt
    BY <1>1, <1>2 DEF Wrap, Cursor!Wrap, Int64
<1>5. TypeOK'
    <2>1. off' \in Int64
        BY <1>1, <1>4
    <2>2. ret' \in [Readers -> [n : 0..MaxInt, err : {"nil", "eof", "invalid", "ctx", "io"}]]
        BY <1>1 DEF TypeOK
    <2>3. mu' \in Readers \cup {NoOne} /\ rd' \in SUBSET Readers
        BY <1>1 DEF TypeOK
    <2> QED BY <1>1, <2>1, <2>2, <2>3 DEF TypeOK
<1>6. CursorInRange' /\ ListHeld'
    BY <1>1, <1>3, <1>4 DEF CursorInRange, ListHeld
<1>7. Only(r)
    BY <1>1, <1>2, BlobAssumption DEF Only, TypeOK
<1>8. ReaderInv(r)'
    <2>1. Answered(r)'
        BY <1>1 DEF Answered, TypeOK
    <2>2. Owner(r)' /\ Tested(r)'
        BY <1>1 DEF Owner, Tested, InRead, TypeOK
    <2> QED BY <2>1, <2>2 DEF ReaderInv
<1>9. Cursor!Next
    <2>1. /\ pc'[r] = "return" /\ ret'[r] = [n |-> n, err |-> err] /\ pc[r] # "return"
          /\ call' = call /\ from' = from /\ size' = size
        BY <1>1 DEF TypeOK, InRead
    <2>2. CASE err \notin {"nil", "eof"}
        <3>1. Answer(r)' = Cursor!Failed
            BY <2>1, <2>2 DEF Answer, Cursor!Failed
        <3>2. Cursor!Answers(r, call[r].kind, Cursor!Failed)
            BY <1>7, <2>1, <3>1, Settles
        <3>3. off' = off
            BY <1>2, <1>3, <2>2
        <3> QED BY <3>2, <3>3, Zenon DEF Cursor!Fail, Cursor!Next
    <2>3. CASE err \in {"nil", "eof"}
        <3> DEFINE a == [is |-> "ok", at |-> from[r], n |-> n]
        <3>1. Answer(r)' = a
            BY <1>2, <2>1, <2>3 DEF Answer
        <3> HIDE DEF a
        <3>2. Cursor!Answers(r, call[r].kind, a)
            BY <1>7, <2>1, <3>1, Settles
        <3>3. call[r].len \in 0..MaxInt
            BY <1>1, CallFields DEF TypeOK
        <3>4. n \in 0..call[r].len /\ Cursor!Delivered(r, from[r], n)
            BY <1>1, <2>3, <3>3 DEF Cursor!Delivered
        <3>5. CASE call[r].kind = "read"
            <4>1. Cursor!Read(r)
                BY <1>2, <1>4, <3>2, <3>4, <3>5 DEF Cursor!Read, a
            <4> QED BY <4>1, Zenon DEF Cursor!Next
        <3>6. CASE call[r].kind = "readAt"
            <4>1. Cursor!ReadAt(r)
                BY <1>2, <3>2, <3>4, <3>6 DEF Cursor!ReadAt, a
            <4> QED BY <4>1, Zenon DEF Cursor!Next
        <3> QED BY <1>2, <3>5, <3>6
    <2> QED BY <2>2, <2>3
<1> QED BY <1>1, <1>5, <1>6, <1>7, <1>8, <1>9, Others

-----------------------------------------------------------------------------
\* A goroutine calls the reader.
LEMMA CallReaderStep ==
    ASSUME IInv, NEW r \in Readers, CallReader(r) PROVE IInv' /\ [Cursor!Next]_(Cursor!cursor)
<1> USE DEF CallReader, Goto, blob
<1>1. TypeOK /\ ReaderInv(r)
    BY DEF IInv
<1>2. PICK a \in MayCall[r] :
        /\ call' = [call EXCEPT ![r] = a]
        /\ IF a.kind = "readAt"
           THEN from' = [from EXCEPT ![r] = a.arg] /\ pc' = [pc EXCEPT ![r] = "check"]
           ELSE UNCHANGED from /\ pc' = [pc EXCEPT ![r] = "mu"]
    BY Zenon
<1>3. a \in ReaderCalls /\ a.kind \in {"read", "readAt", "seek"} /\ a.arg \in Int64
    BY <1>2, MayCallAssumption, CallFields
<1>4. TypeOK'
    BY <1>1, <1>2, <1>3 DEF TypeOK
<1>5. ReaderInv(r)'
    BY <1>1, <1>2, <1>3 DEF TypeOK, ReaderInv, Owner, Tested, Answered, InRead
<1>6. Only(r) /\ CursorInRange' /\ ListHeld'
    BY <1>1, <1>2 DEF Only, TypeOK, IInv, CursorInRange, ListHeld
<1>7. Cursor!Next
    <2>1. call[r] = NoCall
        BY <1>1 DEF ReaderInv, Owner
    <2>2. Answer(r)' = Answer(r)
        BY <1>1, <1>2 DEF Answer, TypeOK
    <2>3. [q \in Readers |-> Answer(q)]' = [q \in Readers |-> Answer(q)]
        BY <1>6, <2>2, AnswerFrame, Zenon
    <2>4. Cursor!Ask(r)
        BY <1>2, <2>1, <2>3, Zenon DEF Cursor!Ask
    <2> QED BY <2>4, Zenon DEF Cursor!Next
<1> QED BY <1>4, <1>5, <1>6, <1>7, Others

\* Read and Seek own the cursor from here on.
LEMMA LockMuStep ==
    ASSUME IInv, NEW r \in Readers, LockMu(r) PROVE IInv' /\ UNCHANGED Cursor!cursor
<1> USE DEF LockMu, Goto, blob
<1>1. TypeOK /\ ReaderInv(r) /\ call[r] \in ReaderCalls
    BY DEF IInv, TypeOK
<1>2. TypeOK'
    BY <1>1, Zenon DEF TypeOK
<1>3. ReaderInv(r)'
    BY <1>1, CallFields DEF TypeOK, ReaderInv, Owner, Tested, Answered, InRead
<1>4. Only(r) /\ CursorInRange' /\ ListHeld'
    BY <1>1, BlobAssumption DEF Only, TypeOK, IInv, CursorInRange, ListHeld
<1>5. UNCHANGED Cursor!cursor
    <2>1. pc[r] # "return" /\ pc'[r] # "return"
        BY <1>1 DEF TypeOK
    <2> QED BY <1>4, <2>1, Unseen
<1> QED BY <1>2, <1>3, <1>4, <1>5, Others

\* A step of readAt towards the native read.
LEMMA Advance ==
    ASSUME IInv, NEW r \in Readers, NEW l \in {"size", "range", "native"}, Goto(r, l),
           pc[r] \in InRead, from[r] >= 0, call[r].len > 0,
           l \in {"range", "native"} => from[r] < size,
           rd' = IF l = "native" THEN rd \cup {r} ELSE rd, l = "native" => listOpen,
           UNCHANGED <<call, from, ret, size, off, mu, closing, listOpen, fileOpen, ctxDone>>
    PROVE  IInv' /\ UNCHANGED Cursor!cursor
<1> USE DEF Goto
<1>1. TypeOK /\ ReaderInv(r)
    BY DEF IInv
<1>2. TypeOK'
    BY <1>1 DEF TypeOK
<1>3. ReaderInv(r)'
    BY <1>1 DEF TypeOK, ReaderInv, Owner, Tested, Answered, InRead
<1>4. Only(r)
    BY <1>1 DEF Only, TypeOK
<1>5. CursorInRange' /\ ListHeld'
    BY DEF IInv, CursorInRange, ListHeld
<1>6. UNCHANGED Cursor!cursor
    <2>1. pc[r] # "return" /\ pc'[r] # "return"
        BY <1>1 DEF TypeOK, InRead
    <2> QED BY <1>4, <2>1, Unseen
<1> QED BY <1>2, <1>3, <1>4, <1>5, <1>6, Others

\* readAt tests its arguments and the context.
LEMMA CheckStep ==
    ASSUME IInv, NEW r \in Readers, Check(r) PROVE IInv' /\ [Cursor!Next]_(Cursor!cursor)
<1> USE DEF Check, blob
<1>1. /\ pc[r] \in InRead /\ MaxInt \in Nat
      /\ call[r].len \in 0..MaxInt /\ from[r] \in Int64
    BY CallFields, BlobAssumption DEF IInv, TypeOK, InRead
<1>2. CASE call[r].len = 0
    <2>1. MayAnswer(r, 0, "nil")
        BY <1>1, <1>2 DEF MayAnswer
    <2> QED BY <1>1, <1>2, <2>1, DoneInv
<1>3. CASE call[r].len # 0 /\ (from[r] < 0 \/ ctxDone)
    <2>1. MayAnswer(r, 0, "invalid") /\ MayAnswer(r, 0, "ctx")
        BY <1>1 DEF MayAnswer
    <2> QED BY <1>1, <1>3, <2>1, DoneInv
<1>4. CASE call[r].len # 0 /\ ~(from[r] < 0 \/ ctxDone)
    BY <1>1, <1>4, Advance DEF Int64
<1> QED BY <1>2, <1>3, <1>4

\* readAt asks for the size.
LEMMA GetSizeStep ==
    ASSUME IInv, NEW r \in Readers, GetSize(r) PROVE IInv' /\ [Cursor!Next]_(Cursor!cursor)
<1> USE DEF GetSize, blob
<1>1. /\ pc[r] \in InRead /\ MaxInt \in Nat /\ from[r] >= 0 /\ call[r].len > 0
      /\ call[r].len \in 0..MaxInt /\ from[r] \in Int64 /\ size \in 0..2 * MaxInt + 1
    BY CallFields, BlobAssumption DEF IInv, TypeOK, InRead, ReaderInv, Tested
<1>2. MayAnswer(r, 0, "ctx") /\ MayAnswer(r, 0, "invalid")
    BY <1>1 DEF MayAnswer
<1>3. CASE Goto(r, "range")
    <2>1. from[r] < size /\ UNCHANGED <<call, from, ret, size, off, mu, ctxDone>>
        BY <1>1, <1>3 DEF Goto, Done, IInv, TypeOK, Int64
    <2> QED BY <1>1, <1>3, <2>1, Advance
<1>4. CASE from[r] >= size /\ Done(r, 0, "eof")
    <2>1. MayAnswer(r, 0, "eof")
        BY <1>1, <1>4 DEF MayAnswer, Int64
    <2> QED BY <1>1, <1>4, <2>1, DoneInv
<1>5. CASE Done(r, 0, "ctx") \/ Done(r, 0, "invalid")
    BY <1>1, <1>2, <1>5, DoneInv
<1> QED BY <1>3, <1>4, <1>5

\* ReadRange takes the lock again.
LEMMA RangeLockStep ==
    ASSUME IInv, NEW r \in Readers, RangeLock(r) PROVE IInv' /\ [Cursor!Next]_(Cursor!cursor)
<1> USE DEF RangeLock
<1>1. /\ pc[r] \in InRead /\ MaxInt \in Nat /\ from[r] >= 0 /\ call[r].len > 0 /\ from[r] < size
    BY BlobAssumption DEF IInv, TypeOK, InRead, ReaderInv, Tested
<1>2. MayAnswer(r, 0, "ctx") /\ MayAnswer(r, 0, "invalid")
    BY <1>1 DEF MayAnswer
<1>3. CASE Goto(r, "native")
    <2>1. /\ listOpen /\ rd' = rd \cup {r}
          /\ UNCHANGED <<call, from, ret, size, off, mu, ctxDone>>
        BY <1>3 DEF Goto, Done, IInv, TypeOK
    <2> QED BY <1>1, <1>3, <2>1, Advance
<1>4. CASE Done(r, 0, "ctx") /\ UNCHANGED rd
    BY <1>1, <1>2, <1>4, DoneInv
<1>5. CASE Done(r, 0, "invalid") /\ UNCHANGED rd
    BY <1>1, <1>2, <1>5, DoneInv
<1> QED BY <1>3, <1>4, <1>5

\* The native read returns.
LEMMA NativeRangeStep ==
    ASSUME IInv, NEW r \in Readers, NativeRange(r) PROVE IInv' /\ [Cursor!Next]_(Cursor!cursor)
<1> USE DEF NativeRange
<1>1. /\ TypeOK /\ pc[r] \in InRead /\ from[r] >= 0 /\ call[r].len > 0 /\ from[r] < size
      /\ call[r].len \in 0..MaxInt /\ from[r] \in Int64 /\ size \in 0..2 * MaxInt + 1
      /\ MaxInt \in Nat
    BY CallFields, BlobAssumption DEF IInv, TypeOK, InRead, ReaderInv, Tested
<1>2. MayAnswer(r, 0, "io")
    BY <1>1 DEF MayAnswer
<1>3. MayAnswer(r, Want(r), IF Want(r) < call[r].len THEN "eof" ELSE "nil")
    BY <1>1, WantBounds DEF MayAnswer, Int64
<1> QED BY <1>1, <1>2, <1>3, DoneInv

\* The overflow test lets exactly the sums that are an int64 through.
LEMMA TargetExact ==
    ASSUME NEW b \in Int, NEW o \in Int64, b >= -MaxInt - 1, b <= MaxInt, ~Overflows(b, o)
    PROVE  Wrap(b + o) = b + o /\ b + o <= MaxInt
BY BlobAssumption DEF Overflows, Wrap, Int64

\* A Seek that returns preserves the invariant.
LEMMA SeekDoneInv ==
    ASSUME IInv, NEW r \in Readers, pc[r] = "seek", NEW n \in 0..MaxInt,
           NEW err \in {"nil", "invalid", "ctx"}, SeekDone(r, n, err)
    PROVE  IInv' /\ Only(r)
<1> USE DEF SeekDone, Goto, blob
<1>1. TypeOK /\ CursorInRange /\ ListHeld /\ ReaderInv(r) /\ mu = r /\ MaxInt \in Nat
      /\ call[r].kind = "seek"
    BY BlobAssumption DEF IInv, ReaderInv, Owner
<1>2. off' = off \/ off' \in 0..MaxInt
    OBVIOUS
<1>3. TypeOK'
    BY <1>1, <1>2 DEF TypeOK, Int64
<1>4. CursorInRange' /\ ListHeld'
    BY <1>1, <1>2 DEF CursorInRange, ListHeld
<1>5. ReaderInv(r)'
    BY <1>1 DEF TypeOK, ReaderInv, Owner, Tested, Answered, InRead
<1>6. Only(r)
    BY <1>1 DEF Only, TypeOK
<1> QED BY <1>3, <1>4, <1>5, <1>6, Others

\* Seek moves the cursor to the target of the call and answers with it, or fails.
LEMMA SeekStep ==
    ASSUME IInv, NEW r \in Readers, Seek(r) PROVE IInv' /\ [Cursor!Next]_(Cursor!cursor)
<1>1. /\ pc[r] = "seek" /\ TypeOK /\ MaxInt \in Nat /\ call[r].kind = "seek" /\ off \in Int64
      /\ size \in 0..2 * MaxInt + 1 /\ call[r].arg \in Int64 /\ call[r].whence \in Whences
    BY BlobAssumption, CallFields DEF Seek, IInv, TypeOK, ReaderInv, Owner
<1>2. ASSUME NEW err \in {"invalid", "ctx"}, SeekDone(r, 0, err)
      PROVE  IInv' /\ [Cursor!Next]_(Cursor!cursor)
    <2>1. IInv' /\ Only(r)
        BY <1>1, <1>2, SeekDoneInv
    <2>2. Answer(r)' = Cursor!Failed /\ UNCHANGED <<size, off, call>>
        BY <1>1, <1>2 DEF SeekDone, Goto, TypeOK, Answer, Cursor!Failed
    <2>3. Cursor!Answers(r, call[r].kind, Cursor!Failed)
        BY <1>1, <2>1, <2>2, Settles
    <2> QED BY <2>1, <2>2, <2>3, Zenon DEF Cursor!Fail, Cursor!Next
<1>3. ASSUME SeekValid(r), SeekDone(r, Target(r), "nil")
      PROVE  IInv' /\ [Cursor!Next]_(Cursor!cursor)
    <2>1. Base(r) \in Int /\ Base(r) >= -MaxInt - 1 /\ Base(r) <= MaxInt
        BY <1>1, <1>3 DEF SeekValid, Base, Whences, Int64
    <2>2. Target(r) = Base(r) + call[r].arg /\ Target(r) \in 0..MaxInt
        BY <1>1, <1>3, <2>1, TargetExact DEF SeekValid, Target, Int64
    <2>3. Cursor!Target(r) = Target(r)
        BY <1>1, <2>2 DEF Base, Cursor!Target, Whences, Int64
    <2>4. IInv' /\ Only(r)
        BY <1>1, <1>3, <2>2, SeekDoneInv
    <2> DEFINE a == [is |-> "ok", at |-> Target(r), n |-> 0]
    <2>5. Answer(r)' = a /\ off' = Target(r) /\ UNCHANGED <<size, call>>
        <3>1. pc'[r] = "return" /\ ret'[r] = [n |-> Target(r), err |-> "nil"] /\ call' = call
            BY <1>1, <1>3 DEF SeekDone, Goto, TypeOK
        <3>2. Answer(r)' = a
            BY <1>1, <3>1 DEF Answer
        <3> QED BY <1>3, <3>1, <3>2 DEF SeekDone
    <2> HIDE DEF a
    <2>6. Cursor!Answers(r, "seek", a)
        BY <1>1, <2>4, <2>5, Settles
    <2>7. Cursor!Seek(r)
        BY <2>2, <2>3, <2>5, <2>6, Zenon DEF Cursor!Seek, a
    <2> QED BY <2>4, <2>7, Zenon DEF Cursor!Next
<1> QED BY <1>2, <1>3 DEF Seek

\* The caller takes its result.
LEMMA ReturnStep ==
    ASSUME IInv, NEW r \in Readers, Return(r) PROVE IInv' /\ [Cursor!Next]_(Cursor!cursor)
<1> USE DEF Return, Goto, blob
<1>1. TypeOK /\ CursorInRange /\ ListHeld /\ ReaderInv(r) /\ MaxInt \in Nat
    BY BlobAssumption DEF IInv
<1>2. TypeOK'
    <2>1. NoCall \in ReaderCalls /\ 0 \in Int64 /\ 0 \in 0..MaxInt
        BY <1>1 DEF NoCall, ReaderCalls, Int64, Whences
    <2>2. ret' \in [Readers -> [n : 0..MaxInt, err : {"nil", "eof", "invalid", "ctx", "io"}]]
        BY <1>1, <2>1 DEF TypeOK
    <2>3. call' \in [Readers -> ReaderCalls] /\ from' \in [Readers -> Int64]
        BY <1>1, <2>1 DEF TypeOK
    <2> QED BY <1>1, <2>2, <2>3 DEF TypeOK
<1>3. CursorInRange' /\ ListHeld'
    BY <1>1 DEF CursorInRange, ListHeld
<1>4. ReaderInv(r)'
    BY <1>1 DEF TypeOK, ReaderInv, Owner, Tested, Answered, InRead
<1>5. Only(r)
    BY <1>1 DEF Only, TypeOK
<1>6. Cursor!Next
    <2>1. Answer(r)' = Cursor!NoAnswer
        BY <1>1 DEF Answer, Cursor!NoAnswer, TypeOK
    <2>2. [q \in Readers |-> Answer(q)]'
              = [[q \in Readers |-> Answer(q)] EXCEPT ![r] = Cursor!NoAnswer]
        BY <1>5, <2>1, AnswerFrame
    <2>3. Answer(r).is # "none"
        BY DEF Answer
    <2>4. [q \in Readers |-> Answer(q)][r] # Cursor!NoAnswer
        BY <2>3 DEF Cursor!NoAnswer
    <2>5. Cursor!Return(r)
        BY <2>2, <2>4, Zenon DEF Cursor!Return
    <2> QED BY <2>5, Zenon DEF Cursor!Next
<1> QED BY <1>2, <1>3, <1>4, <1>5, <1>6, Others

\* Closing the blob or its list, and the context, concern no cursor; the list is
\* closed when nobody holds its lock.
LEMMA BlobStep ==
    ASSUME IInv, CloseFile \/ CloseList \/ ListClosed \/ CtxDone
    PROVE  IInv' /\ UNCHANGED Cursor!cursor
<1> USE DEF CloseFile, CloseList, ListClosed, CtxDone, blob
<1>1. TypeOK'
    BY Zenon DEF IInv, TypeOK
<1>2. CursorInRange' /\ ListHeld'
    BY DEF IInv, CursorInRange, ListHeld
<1>3. \A r \in Readers : ReaderInv(r)'
    BY DEF IInv, ReaderInv, Owner, Tested, Answered
<1>4. UNCHANGED Cursor!cursor
    BY Zenon DEF Answer, Cursor!cursor
<1> QED BY <1>1, <1>2, <1>3, <1>4 DEF IInv

\* Every step preserves the invariant and is a step of ByteCursor or invisible.
LEMMA NextInv == IInv /\ [Next]_vars => IInv' /\ [Cursor!Next]_(Cursor!cursor)
<1> SUFFICES ASSUME IInv, [Next]_vars PROVE IInv' /\ [Cursor!Next]_(Cursor!cursor)
    OBVIOUS
<1>1. ASSUME NEW r \in Readers, CallReader(r) \/ ReaderStep(r)
      PROVE  IInv' /\ [Cursor!Next]_(Cursor!cursor)
    BY <1>1, CallReaderStep, LockMuStep, CheckStep, GetSizeStep, RangeLockStep, NativeRangeStep,
       SeekStep, ReturnStep DEF ReaderStep
<1>2. CASE CloseFile \/ CloseList \/ ListClosed \/ CtxDone
    BY <1>2, BlobStep, Zenon
<1>3. CASE UNCHANGED vars
    BY <1>3 DEF vars, blob, IInv, TypeOK, CursorInRange, ListHeld, ReaderInv, Owner, Tested,
                Answered, Answer, Cursor!cursor
<1> QED BY <1>1, <1>2, <1>3 DEF Next

\* The invariant holds throughout.
THEOREM Invariant == Spec => []IInv
BY InitInv, NextInv, PTL DEF Spec

-----------------------------------------------------------------------------
\* Every state is well typed: r.off never leaves int64.
THEOREM TypeCorrect == Spec => []TypeOK
<1>1. IInv => TypeOK
    BY DEF IInv
<1> QED BY <1>1, Invariant, PTL

\* The range that readAt passes to ReadRange lies inside the blob.
THEOREM RangesInBlob == Spec => []RangeInBlob
<1>1. IInv => RangeInBlob
    <2> SUFFICES ASSUME IInv, NEW r \in Readers, pc[r] = "native"
                 PROVE  /\ 0 <= from[r] /\ Want(r) > 0 /\ from[r] + Want(r) <= size
                        /\ listOpen
        BY Zenon DEF RangeInBlob
    <2>1. TypeOK /\ from[r] >= 0 /\ from[r] < size /\ call[r].len > 0 /\ r \in rd
        BY Zenon DEF IInv, ReaderInv, Tested
    <2>2. listOpen
        BY <2>1, Zenon DEF IInv, ListHeld
    <2> QED BY <2>1, <2>2, WantBounds, BlobAssumption DEF TypeOK, Int64
<1> QED BY <1>1, Invariant, PTL

\* readAt keeps the contracts of io.Reader and io.ReaderAt.
THEOREM ReadContractKept == Spec => []ReadContract
<1>1. IInv => ReadContract
    BY DEF IInv, ReaderInv, Answered, ReadContract
<1> QED BY <1>1, Invariant, PTL

\* Seek and Read keep r.off in range.
THEOREM CursorStaysInRange == Spec => []CursorInRange
<1>1. IInv => CursorInRange
    BY DEF IInv
<1> QED BY <1>1, Invariant, PTL

\* A BlobReader implements ByteCursor.
THEOREM ReaderKeepsPromise == Spec => ImplementsCursor
<1>1. Init => Cursor!Init
    <2> SUFFICES ASSUME Init PROVE Cursor!Init
        OBVIOUS
    <2>1. \A r \in Readers : Answer(r) = Cursor!NoAnswer
        BY Zenon DEF Init, Answer, Cursor!NoAnswer
    <2> QED BY <2>1 DEF Init, Cursor!Init
<1>2. IInv /\ [Next]_vars => [Cursor!Next]_(Cursor!cursor)
    BY NextInv
<1> QED BY <1>1, <1>2, Invariant, PTL DEF Spec, Cursor!Spec, ImplementsCursor

-----------------------------------------------------------------------------
(* Waiting.                                                                *)

\* Who holds the mutex and the list's lock, and where its holder is.
WaitInv ==
    /\ closing => listOpen
    /\ \A r \in rd : pc[r] = "native"
    /\ mu # NoOne =>
          /\ pc[mu] \in InRead \cup {"seek"}
          /\ pc[mu] \in InRead => call[mu].kind = "read"

\* A readAt that returns gives back what it held.
LEMMA DoneWait ==
    ASSUME IInv, WaitInv, NEW r \in Readers, NEW n, NEW err, Done(r, n, err), pc[r] \in InRead,
           rd' = rd \ {r}, UNCHANGED <<closing, listOpen>>
    PROVE  WaitInv'
<1>1. TypeOK /\ (call[r].kind = "read" => mu = r)
    BY DEF IInv, ReaderInv, Owner
<1>2. \A q \in rd' : pc'[q] = "native"
    BY <1>1 DEF Done, Goto, TypeOK, WaitInv
<1>3. mu' # NoOne => mu' = mu /\ mu # r /\ pc'[mu] = pc[mu] /\ call'[mu] = call[mu]
    BY <1>1 DEF Done, Goto, TypeOK, WaitInv
<1> QED BY <1>2, <1>3 DEF WaitInv

\* Every step preserves WaitInv.
LEMMA WaitNext == IInv /\ WaitInv /\ [Next]_vars => WaitInv'
<1> SUFFICES ASSUME IInv, WaitInv, [Next]_vars PROVE WaitInv'
    OBVIOUS
<1> USE BlobAssumption DEF Goto, blob
<1>1. TypeOK
    BY DEF IInv
<1>2. ASSUME NEW r \in Readers, CallReader(r) PROVE WaitInv'
    BY <1>1, <1>2 DEF CallReader, TypeOK, WaitInv, InRead
<1>3. ASSUME NEW r \in Readers, LockMu(r) PROVE WaitInv'
    BY <1>1, <1>3, Zenon DEF LockMu, TypeOK, WaitInv, InRead
<1>4. ASSUME NEW r \in Readers, Check(r) PROVE WaitInv'
    <2>1. pc[r] = "check" /\ rd' = rd /\ r \notin rd /\ UNCHANGED <<closing, listOpen>>
        BY <1>4 DEF Check, WaitInv
    <2>2. ASSUME NEW err, Done(r, 0, err) PROVE WaitInv'
        BY <2>1, <2>2, DoneWait DEF InRead
    <2>3. CASE pc' = [pc EXCEPT ![r] = "size"] /\ UNCHANGED <<call, mu>>
        BY <1>1, <2>1, <2>3 DEF TypeOK, WaitInv, InRead
    <2> QED BY <1>4, <2>2, <2>3 DEF Check
<1>5. ASSUME NEW r \in Readers, GetSize(r) PROVE WaitInv'
    <2>1. pc[r] = "size" /\ rd' = rd /\ r \notin rd /\ UNCHANGED <<closing, listOpen>>
        BY <1>5 DEF GetSize, WaitInv
    <2>2. ASSUME NEW err, Done(r, 0, err) PROVE WaitInv'
        BY <2>1, <2>2, DoneWait DEF InRead
    <2>3. CASE pc' = [pc EXCEPT ![r] = "range"] /\ UNCHANGED <<call, mu>>
        BY <1>1, <2>1, <2>3 DEF TypeOK, WaitInv, InRead
    <2> QED BY <1>5, <2>2, <2>3 DEF GetSize
<1>6. ASSUME NEW r \in Readers, RangeLock(r) PROVE WaitInv'
    <2>1. pc[r] = "range" /\ r \notin rd /\ UNCHANGED <<closing, listOpen>>
        BY <1>6 DEF RangeLock, WaitInv
    <2>2. ASSUME NEW err, Done(r, 0, err), rd' = rd PROVE WaitInv'
        BY <2>1, <2>2, DoneWait DEF InRead
    <2>3. CASE pc' = [pc EXCEPT ![r] = "native"] /\ rd' = rd \cup {r} /\ UNCHANGED <<call, mu>>
        BY <1>1, <2>1, <2>3 DEF TypeOK, WaitInv, InRead
    <2> QED BY <1>6, <2>2, <2>3 DEF RangeLock
<1>7. ASSUME NEW r \in Readers, NativeRange(r) PROVE WaitInv'
    BY <1>7, DoneWait DEF NativeRange, InRead
<1>8. ASSUME NEW r \in Readers, Seek(r) PROVE WaitInv'
    BY <1>1, <1>8 DEF Seek, SeekDone, TypeOK, WaitInv, InRead
<1>9. ASSUME NEW r \in Readers, Return(r) PROVE WaitInv'
    BY <1>1, <1>9 DEF Return, TypeOK, WaitInv, InRead
<1>10. CASE CloseFile \/ CloseList \/ ListClosed \/ CtxDone \/ UNCHANGED vars
    BY <1>10 DEF CloseFile, CloseList, ListClosed, CtxDone, vars, WaitInv
<1> QED BY <1>2, <1>3, <1>4, <1>5, <1>6, <1>7, <1>8, <1>9, <1>10 DEF Next, ReaderStep

\* WaitInv is an invariant too.
LEMMA WaitInductive == Spec => [](IInv /\ WaitInv)
<1>1. Init => WaitInv
    BY DEF Init, WaitInv
<1> QED BY <1>1, WaitNext, InitInv, NextInv, PTL DEF Spec

\* The reader's mutex, the list's lock and a waiting Close are never waited for
\* in a circle.
THEOREM NeverWaitsInCircle == Spec => []NoCircularWait
<1>1. IInv /\ WaitInv => NoCircularWait
    <2> SUFFICES ASSUME IInv, WaitInv PROVE NoCircularWait
        OBVIOUS
    <2>1. mu # NoOne => pc[mu] \notin {"idle", "mu", "return"}
        BY DEF WaitInv, InRead
    <2>2. ASSUME NEW r \in Readers, pc[r] \notin {"idle", "mu"}, ~Ready(r)
          PROVE  AsksList(r) /\ closing
        BY <2>2 DEF Ready, CanRLock, IInv, TypeOK
    <2>3. ASSUME NEW r \in rd PROVE Ready(r) /\ ~AsksList(r)
        BY <2>3 DEF WaitInv, Ready, AsksList
    <2> QED BY <2>1, <2>2, <2>3 DEF NoCircularWait
<1> QED BY <1>1, WaitInductive, PTL

\* So a call of the reader or the waiting Close can always go on.
THEOREM NeverStuck == Spec => []SomeoneCanGoOn
<1>1. IInv /\ NoCircularWait => SomeoneCanGoOn
    <2> SUFFICES ASSUME IInv, NoCircularWait, \A r \in Readers : ~Ready(r),
                        closing \/ \E r \in Readers : pc[r] # "idle"
                 PROVE  closing /\ rd = {}
        BY DEF SomeoneCanGoOn
    <2>1. rd = {}
        BY DEF NoCircularWait, IInv, TypeOK
    <2>2. ASSUME NEW r \in Readers, pc[r] \notin {"idle", "mu"} PROVE closing
        BY <2>2 DEF NoCircularWait
    <2>3. ASSUME NEW r \in Readers, pc[r] = "mu" PROVE closing
        <3>1. mu \in Readers /\ pc[mu] \notin {"idle", "mu"}
            BY <2>3 DEF NoCircularWait, Ready, AsksList, IInv, TypeOK
        <3> QED BY <2>2, <3>1
    <2> QED BY <2>1, <2>2, <2>3
<1> QED BY <1>1, NeverWaitsInCircle, Invariant, PTL

\* No goroutine sets the call of another back, and each step of a call brings
\* its return closer.
THEOREM CallsAdvance == Spec => CallAdvances
<1>1. ASSUME IInv, NEW r \in Readers, ReaderStep(r)
      PROVE  /\ StepsLeft(r)' < StepsLeft(r)
             /\ \A q \in Readers \ {r} : pc'[q] = pc[q]
    BY <1>1 DEF ReaderStep, LockMu, Check, GetSize, RangeLock, NativeRange, Seek, SeekDone, Return,
                Done, Goto, StepsLeft, IInv, TypeOK
<1>2. ASSUME IInv, [Next]_vars, NEW q \in Readers, pc[q] # "idle"
      PROVE  StepsLeft(q)' <= StepsLeft(q)
    <2>1. ASSUME pc'[q] = pc[q] PROVE StepsLeft(q)' <= StepsLeft(q)
        BY <2>1 DEF StepsLeft
    <2>2. ASSUME NEW r \in Readers, ReaderStep(r) PROVE StepsLeft(q)' <= StepsLeft(q)
        <3>1. CASE q = r
            <4>1. StepsLeft(q) \in Int /\ StepsLeft(q)' \in Int
                BY DEF StepsLeft
            <4> QED BY <1>1, <1>2, <2>2, <3>1, <4>1
        <3>2. CASE q # r
            BY <1>1, <1>2, <2>1, <2>2, <3>2, Zenon
        <3> QED BY <3>1, <3>2
    <2>3. ASSUME NEW r \in Readers, CallReader(r) PROVE pc'[q] = pc[q]
        BY <1>2, <2>3 DEF CallReader, Goto, IInv, TypeOK
    <2>4. CASE CloseFile \/ CloseList \/ ListClosed \/ CtxDone \/ UNCHANGED vars
        BY <2>1, <2>4 DEF CloseFile, CloseList, ListClosed, CtxDone, vars
    <2> QED BY <1>2, <2>1, <2>2, <2>3, <2>4 DEF Next
<1>3. ASSUME IInv, [Next]_vars
      PROVE  [\A r \in Readers : pc[r] # "idle" =>
                /\ StepsLeft(r)' <= StepsLeft(r)
                /\ ReaderStep(r) => StepsLeft(r)' < StepsLeft(r)]_vars
    BY <1>1, <1>2, <1>3
<1> QED BY <1>3, Invariant, PTL DEF Spec, CallAdvances

-----------------------------------------------------------------------------
(* The list of blobs implements SharedHandle.                              *)

\* A native read has the list only while it exists, and the list is freed once,
\* when no native read has it.
THEOREM ListImplementsShared == Spec => ImplementsHandle
<1>1. Init => Shared!Init
    BY DEF Init, Shared!Init
<1>2. ASSUME IInv, WaitInv, [Next]_vars PROVE [Shared!Next]_(Shared!vars)
    <2> USE <1>2 DEF blob
    <2>1. ASSUME NEW r \in Readers, RangeLock(r) PROVE [Shared!Next]_(Shared!vars)
        <3>1. UNCHANGED listOpen /\ (rd' = rd \/ (listOpen /\ rd' = rd \cup {r}))
            BY <2>1 DEF RangeLock
        <3> QED BY <3>1 DEF Shared!Next, Shared!Enter, Shared!vars
    <2>2. ASSUME NEW r \in Readers, NativeRange(r) PROVE [Shared!Next]_(Shared!vars)
        <3>1. UNCHANGED listOpen /\ rd' = rd \ {r} /\ r \in rd
            BY <2>2 DEF NativeRange, IInv, ReaderInv, Tested
        <3> QED BY <3>1 DEF Shared!Next, Shared!Leave
    <2>3. ASSUME NEW r \in Readers, CallReader(r) \/ ReaderStep(r), ~RangeLock(r), ~NativeRange(r)
          PROVE  UNCHANGED <<rd, listOpen>>
        BY <2>3, Zenon DEF ReaderStep, CallReader, LockMu, Check, GetSize, Seek, SeekDone, Return
    <2>4. CASE ListClosed
        <3>1. listOpen /\ ~listOpen' /\ rd = {} /\ rd' = rd
            BY <2>4 DEF ListClosed, WaitInv
        <3> QED BY <3>1 DEF Shared!Next, Shared!Free
    <2>5. CASE CloseFile \/ CloseList \/ CtxDone \/ UNCHANGED vars
        BY <2>5 DEF CloseFile, CloseList, CtxDone, vars, Shared!vars
    <2>6. UNCHANGED <<rd, listOpen>> => UNCHANGED Shared!vars
        BY DEF Shared!vars
    <2> QED BY <1>2, <2>1, <2>2, <2>3, <2>4, <2>5, <2>6 DEF Next, ReaderStep
<1> QED BY <1>1, <1>2, WaitInductive, PTL DEF Spec, ImplementsHandle, Shared!Spec
=============================================================================
