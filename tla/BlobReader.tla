----------------------------- MODULE BlobReader -----------------------------
(***************************************************************************)
(* A BlobReader (blob.go) that several goroutines share: Read and Seek     *)
(* under the reader's mutex, ReadAt without it, while the blob is closed   *)
(* and BlobList.Close waits for the list's lock.  A read takes that lock   *)
(* twice, for the size and for the range, and the list can be closed in    *)
(* between.  Bytes are represented by their offsets, int64 by the numbers  *)
(* from -MaxInt - 1 to MaxInt.                                             *)
(***************************************************************************)
EXTENDS Integers

CONSTANTS
    Readers,    \* goroutines that call the reader's methods
    MayCall,    \* the calls that each of them makes
    NoOne,      \* nobody holds the mutex
    MaxInt,     \* the largest value of int64
    Sizes       \* the sizes a blob may have

ASSUME BlobAssumption ==
    /\ MaxInt \in Nat
    /\ Sizes \subseteq 0..2 * MaxInt + 1
    /\ NoOne \notin Readers

VARIABLES
    pc,         \* where each goroutine is
    call,       \* its current call of the reader
    from,       \* the offset its readAt was called with
    ret,        \* what its readAt or Seek returned
    size, off,  \* the blob's size and the reader's cursor
    mu,         \* the holder of the reader's mutex
    rd,         \* holders of the list's read lock
    closing,    \* BlobList.Close waits for the list's lock
    listOpen,   \* the list, and with it the native blob, exists
    fileOpen,   \* the native blob has not been closed
    ctxDone     \* the reader's context is done

blob == <<rd, closing, listOpen, fileOpen>>
vars == <<pc, call, from, ret, size, off, mu, blob, ctxDone>>

Int64 == -MaxInt - 1..MaxInt
Whences == {"start", "current", "end"}

\* A method with the length of its buffer, its offset and its whence.
ReaderCalls ==
    [kind : {"none", "read", "readAt", "seek"}, len : 0..MaxInt, arg : Int64, whence : Whences]
NoCall == [kind |-> "none", len |-> 0, arg |-> 0, whence |-> "start"]

ASSUME MayCallAssumption ==
    MayCall \in [Readers -> SUBSET {a \in ReaderCalls : a.kind # "none"}]

\* Every variable has its type; in particular the cursor is an int64.
TypeOK ==
    /\ pc \in [Readers ->
               {"idle", "mu", "check", "size", "range", "native", "seek", "return"}]
    /\ call \in [Readers -> ReaderCalls]
    /\ from \in [Readers -> Int64]
    /\ ret \in [Readers -> [n : 0..MaxInt, err : {"nil", "eof", "invalid", "ctx", "io"}]]
    /\ size \in Sizes /\ off \in Int64
    /\ mu \in Readers \cup {NoOne}
    /\ rd \in SUBSET Readers
    /\ closing \in BOOLEAN /\ listOpen \in BOOLEAN /\ fileOpen \in BOOLEAN
    /\ ctxDone \in BOOLEAN

Init ==
    /\ pc = [o \in Readers |-> "idle"]
    /\ call = [r \in Readers |-> NoCall]
    /\ from = [r \in Readers |-> 0]
    /\ ret = [r \in Readers |-> [n |-> 0, err |-> "nil"]]
    /\ size \in Sizes
    /\ off = 0
    /\ mu = NoOne
    /\ rd = {} /\ closing = FALSE /\ listOpen = TRUE /\ fileOpen = TRUE
    /\ ctxDone = FALSE

Goto(o, l) == pc' = [pc EXCEPT ![o] = l]

\* The value that an int64 has after an addition.
Wrap(x) ==
    CASE x > MaxInt -> x - 2 * (MaxInt + 1)
      [] x < -MaxInt - 1 -> x + 2 * (MaxInt + 1)
      [] OTHER -> x

\* RLock of the list's lock succeeds: a waiting Close comes first.
CanRLock == ~closing

\* Mutant of Want: the rest of the blob is not considered.
WantAll(r) == call[r].len

\* How many bytes readAt asks for.
Want(r) == IF call[r].len > size - from[r] THEN size - from[r] ELSE call[r].len

-----------------------------------------------------------------------------
(* Read and ReadAt.                                                        *)

CallReader(r) ==
    /\ pc[r] = "idle"
    /\ \E a \in MayCall[r] :
          /\ call' = [call EXCEPT ![r] = a]
          /\ IF a.kind = "readAt"
             THEN from' = [from EXCEPT ![r] = a.arg] /\ Goto(r, "check")
             ELSE UNCHANGED from /\ Goto(r, "mu")
    /\ UNCHANGED <<ret, size, off, mu, blob, ctxDone>>

\* Mutant of LockMu: the cursor is read without the mutex.
LockMuNot(r) ==
    /\ pc[r] = "mu"
    /\ IF call[r].kind = "read"
       THEN from' = [from EXCEPT ![r] = off] /\ Goto(r, "check")
       ELSE UNCHANGED from /\ Goto(r, "seek")
    /\ UNCHANGED <<call, ret, size, off, mu, blob, ctxDone>>

LockMu(r) ==
    /\ pc[r] = "mu" /\ mu = NoOne
    /\ mu' = r
    /\ IF call[r].kind = "read"
       THEN from' = [from EXCEPT ![r] = off] /\ Goto(r, "check")
       ELSE UNCHANGED from /\ Goto(r, "seek")
    /\ UNCHANGED <<call, ret, size, off, blob, ctxDone>>

\* readAt returns; Read then moves the cursor and unlocks.
Done(r, n, err) ==
    /\ Goto(r, "return")
    /\ ret' = [ret EXCEPT ![r] = [n |-> n, err |-> err]]
    /\ IF call[r].kind = "read"
       THEN off' = Wrap(off + n) /\ mu' = NoOne
       ELSE UNCHANGED <<off, mu>>
    /\ UNCHANGED <<call, from, size, ctxDone>>

Check(r) ==
    /\ pc[r] = "check"
    /\ IF call[r].len = 0 THEN Done(r, 0, "nil")
       ELSE IF from[r] < 0 THEN Done(r, 0, "invalid")
       ELSE IF ctxDone THEN Done(r, 0, "ctx")
       ELSE Goto(r, "size") /\ UNCHANGED <<call, from, ret, size, off, mu, ctxDone>>
    /\ UNCHANGED blob

\* Mutant of GetSize: the lock is kept until the range has been read.
GetSizeKeepsLock(r) ==
    /\ pc[r] = "size"
    /\ CanRLock
    /\ IF ~listOpen THEN Done(r, 0, "invalid") /\ UNCHANGED rd
       ELSE IF from[r] >= size THEN Done(r, 0, "eof") /\ UNCHANGED rd
       ELSE /\ Goto(r, "range") /\ rd' = rd \cup {r}
            /\ UNCHANGED <<call, from, ret, size, off, mu, ctxDone>>
    /\ UNCHANGED <<closing, listOpen, fileOpen>>

\* BlobFile.size: the lock is taken, the size read and the lock given back.  The
\* context counts if it ends before the lock is asked for.
GetSize(r) ==
    /\ pc[r] = "size"
    /\ \/ ctxDone /\ Done(r, 0, "ctx")
       \/ /\ CanRLock
          /\ IF ~listOpen THEN Done(r, 0, "invalid")
             ELSE IF from[r] >= size THEN Done(r, 0, "eof")
             ELSE /\ Goto(r, "range")
                  /\ UNCHANGED <<call, from, ret, size, off, mu, ctxDone>>
    /\ UNCHANGED blob

\* ReadRange up to the native call, which it makes with the lock held.
RangeLock(r) ==
    /\ pc[r] = "range"
    /\ \/ ctxDone /\ Done(r, 0, "ctx") /\ UNCHANGED rd
       \/ /\ CanRLock
          /\ IF ~listOpen THEN Done(r, 0, "invalid") /\ UNCHANGED rd
             ELSE /\ Goto(r, "native") /\ rd' = rd \cup {r}
                  /\ UNCHANGED <<call, from, ret, size, off, mu, ctxDone>>
    /\ UNCHANGED <<closing, listOpen, fileOpen>>

\* Mutant of NativeRange: a short read is not the end of the blob.
NativeRangeNoEOF(r) ==
    /\ pc[r] = "native"
    /\ \/ Done(r, 0, "io")
       \/ fileOpen /\ Done(r, Want(r), "nil")
    /\ rd' = rd \ {r}
    /\ UNCHANGED <<closing, listOpen, fileOpen>>

\* The native read returns the whole range or fails, as it does when the blob was
\* closed or the context ends; the bytes are copied to the buffer.
NativeRange(r) ==
    /\ pc[r] = "native"
    /\ \/ Done(r, 0, "io")
       \/ fileOpen /\ Done(r, Want(r), IF Want(r) < call[r].len THEN "eof" ELSE "nil")
    /\ rd' = rd \ {r}
    /\ UNCHANGED <<closing, listOpen, fileOpen>>

-----------------------------------------------------------------------------
(* Seek.                                                                   *)

Base(r) == CASE call[r].whence = "start" -> 0
             [] call[r].whence = "current" -> off
             [] call[r].whence = "end" -> size

\* The test for an overflow, which itself does not overflow.
Overflows(base, offset) ==
    \/ offset > 0 /\ base > MaxInt - offset
    \/ offset < 0 /\ base < (-MaxInt - 1) - offset

\* Where Seek goes, and when it does.
Target(r) == Wrap(Base(r) + call[r].arg)
SeekValid(r) ==
    /\ call[r].whence = "end" => size <= MaxInt
    /\ ~Overflows(Base(r), call[r].arg)
    /\ Target(r) >= 0

\* Seek unlocks the reader's mutex and returns.
SeekDone(r, n, err) ==
    /\ Goto(r, "return")
    /\ ret' = [ret EXCEPT ![r] = [n |-> n, err |-> err]]
    /\ off' = IF err = "nil" THEN n ELSE off
    /\ mu' = NoOne
    /\ UNCHANGED <<call, from, size, blob, ctxDone>>

\* Seek; only a seek from the end asks for the size, under the list's lock.
Seek(r) ==
    /\ pc[r] = "seek"
    /\ LET fromEnd == call[r].whence = "end" IN
       \/ fromEnd /\ ctxDone /\ SeekDone(r, 0, "ctx")
       \/ fromEnd /\ CanRLock /\ ~listOpen /\ SeekDone(r, 0, "invalid")
       \/ /\ fromEnd => CanRLock /\ listOpen
          /\ IF SeekValid(r) THEN SeekDone(r, Target(r), "nil") ELSE SeekDone(r, 0, "invalid")

\* The caller has its result.
Return(r) ==
    /\ pc[r] = "return"
    /\ Goto(r, "idle")
    /\ call' = [call EXCEPT ![r] = NoCall]
    /\ from' = [from EXCEPT ![r] = 0]
    /\ ret' = [ret EXCEPT ![r] = [n |-> 0, err |-> "nil"]]
    /\ UNCHANGED <<size, off, mu, blob, ctxDone>>

-----------------------------------------------------------------------------
(* The BlobFile and its list.                                              *)

\* BlobFile.Close; its other methods only concern the BlobFile's own cursor.
CloseFile ==
    /\ fileOpen /\ listOpen /\ CanRLock
    /\ fileOpen' = FALSE
    /\ UNCHANGED <<pc, call, from, ret, size, off, mu, rd, closing, listOpen, ctxDone>>

\* BlobList.Close asks for the lock and gets it when the readers have left.
CloseList ==
    /\ listOpen /\ ~closing
    /\ closing' = TRUE
    /\ UNCHANGED <<pc, call, from, ret, size, off, mu, rd, listOpen, fileOpen, ctxDone>>

ListClosed ==
    /\ closing /\ rd = {}
    /\ closing' = FALSE /\ listOpen' = FALSE
    /\ UNCHANGED <<pc, call, from, ret, size, off, mu, rd, fileOpen, ctxDone>>

CtxDone ==
    /\ ~ctxDone
    /\ ctxDone' = TRUE
    /\ UNCHANGED <<pc, call, from, ret, size, off, mu, blob>>

ReaderStep(r) ==
    LockMu(r) \/ Check(r) \/ GetSize(r) \/ RangeLock(r) \/ NativeRange(r) \/ Seek(r)
    \/ Return(r)

Next ==
    \/ \E r \in Readers : CallReader(r) \/ ReaderStep(r)
    \/ CloseFile \/ CloseList \/ ListClosed \/ CtxDone

Spec == Init /\ [][Next]_vars

\* A running goroutine proceeds, native calls return, and Go's locks starve
\* nobody who waits for them.
FairSpec ==
    /\ Spec
    /\ \A r \in Readers :
          /\ SF_vars(LockMu(r))
          /\ WF_vars(Check(r)) /\ WF_vars(GetSize(r)) /\ WF_vars(RangeLock(r))
          /\ WF_vars(NativeRange(r)) /\ WF_vars(Seek(r)) /\ WF_vars(Return(r))
    /\ WF_vars(ListClosed)

-----------------------------------------------------------------------------
(* Properties.                                                             *)

\* The range that readAt asks the native side for is not empty, lies inside the
\* blob whatever the cursor, the length and the size are, and belongs to a list
\* that still exists, although it was computed under an earlier lock.
RangeInBlob ==
    \A r \in Readers : pc[r] = "native" =>
        /\ 0 <= from[r] /\ Want(r) > 0 /\ from[r] + Want(r) <= size
        /\ listOpen

\* What io.Reader and io.ReaderAt ask of readAt: fewer bytes than the buffer
\* holds come with an error, io.EOF means that the blob ends there, and any other
\* error comes without bytes.
ReadContract ==
    \A r \in Readers : pc[r] = "return" /\ call[r].kind # "seek" =>
        /\ ret[r].err = "nil" => ret[r].n = call[r].len
        /\ ret[r].err = "eof" => ret[r].n < call[r].len /\ from[r] + ret[r].n >= size
        /\ ret[r].err \notin {"nil", "eof"} => ret[r].n = 0

\* Unless the blob is too large for an int64, no sequence of seeks and reads by
\* any goroutine moves the cursor out of range.
CursorInRange == size <= MaxInt => off \in 0..MaxInt

\* What the caller of r is about to get, as ByteCursor puts it.
Answer(r) ==
    IF pc[r] # "return" THEN [is |-> "none", at |-> 0, n |-> 0]
    ELSE IF ret[r].err \notin {"nil", "eof"} THEN [is |-> "error", at |-> 0, n |-> 0]
    ELSE IF call[r].kind = "seek" THEN [is |-> "ok", at |-> ret[r].n, n |-> 0]
    ELSE [is |-> "ok", at |-> from[r], n |-> ret[r].n]

\* Goroutines that share the reader get consecutive bytes from Read, each byte
\* once; a ReadAt delivers the bytes at its own offset and moves nothing; a Seek
\* goes exactly to the target of that call, or nowhere when it overflows; a failed
\* call moves nothing: the reader implements ByteCursor.
Cursor == INSTANCE ByteCursor WITH
    pending <- call,
    answer <- [r \in Readers |-> Answer(r)]
ImplementsCursor == Cursor!Spec

\* The lock of the list keeps the promise of SharedHandle for it: a native read
\* has the list only while it exists, and the list is freed once, with no reader
\* inside.
Shared == INSTANCE SharedHandle WITH
    Users <- Readers,
    using <- rd,
    frees <- IF listOpen THEN 0 ELSE 1
ImplementsHandle == Shared!Spec

\* A call at this point asks for the lock of the list.
AsksList(r) ==
    pc[r] \in {"size", "range"} \/ (pc[r] = "seek" /\ call[r].whence = "end")

\* The next statement of r can be executed now.
Ready(r) ==
    /\ pc[r] # "idle"
    /\ pc[r] = "mu" => mu = NoOne
    /\ AsksList(r) => CanRLock \/ ctxDone

\* The waits go one way: for the reader's mutex, whose holder waits at most for
\* the list's lock; for that lock, which only a Close that is waiting keeps from
\* readers; and a Close waits for native reads, which wait for nobody.
NoCircularWait ==
    /\ mu # NoOne => pc[mu] \notin {"idle", "mu", "return"}
    /\ \A r \in Readers : pc[r] \notin {"idle", "mu"} /\ ~Ready(r) => AsksList(r) /\ closing
    /\ \A r \in rd : Ready(r) /\ ~AsksList(r)

\* While a call or a Close is in progress, one of them can go on.
SomeoneCanGoOn ==
    (closing \/ \E r \in Readers : pc[r] # "idle") =>
        (closing /\ rd = {}) \/ \E r \in Readers : Ready(r)

\* How many steps a call of the reader can still take, at most.
StepsLeft(r) ==
    CASE pc[r] = "mu" -> 6
      [] pc[r] = "check" -> 5
      [] pc[r] = "size" -> 4
      [] pc[r] = "range" -> 3
      [] pc[r] \in {"native", "seek"} -> 2
      [] pc[r] = "return" -> 1
      [] OTHER -> 0

\* No other goroutine sets a call back, and each of its own steps brings it
\* closer to its return.
CallAdvances ==
    [][\A r \in Readers : pc[r] # "idle" =>
          /\ StepsLeft(r)' <= StepsLeft(r)
          /\ ReaderStep(r) => StepsLeft(r)' < StepsLeft(r)]_vars

\* Every call of the reader returns, although it asks for the list's lock twice
\* and Close may wait for it in between; and Close returns.
EveryCallReturns ==
    /\ \A r \in Readers : pc[r] # "idle" ~> pc[r] = "idle"
    /\ closing ~> ~closing
=============================================================================
