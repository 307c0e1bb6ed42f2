----------------------------- MODULE ByteCursor -----------------------------
(***************************************************************************)
(* What a BlobReader promises to the goroutines that share it: io.Reader,  *)
(* io.ReaderAt and io.Seeker over a blob that never changes.  Each call    *)
(* takes effect at one moment between its start and its return.  A Read    *)
(* delivers the bytes at the cursor and leaves the cursor behind the last  *)
(* of them, a ReadAt delivers the bytes at its offset, a Seek moves the    *)
(* cursor to its target and answers with it; a call that fails moves       *)
(* nothing and delivers nothing.                                           *)
(***************************************************************************)
EXTENDS Integers

CONSTANTS
    Readers,    \* goroutines that call the reader's methods
    MayCall,    \* the calls that each of them makes
    NoCall,     \* no call
    MaxInt,     \* the largest value of Go's int64
    Sizes       \* the sizes a blob may have

VARIABLES
    size,       \* the size of the blob
    off,        \* the cursor
    pending,    \* the call that each goroutine has made
    answer      \* what it will return, once it has taken effect

cursor == <<size, off, pending, answer>>

NoAnswer == [is |-> "none", at |-> 0, n |-> 0]
Failed == [is |-> "error", at |-> 0, n |-> 0]

\* The value that an int64 has after an addition of bytes.
Wrap(x) == IF x > MaxInt THEN x - 2 * (MaxInt + 1) ELSE x

Init ==
    /\ size \in Sizes
    /\ off = 0
    /\ pending = [r \in Readers |-> NoCall]
    /\ answer = [r \in Readers |-> NoAnswer]

Ask(r) ==
    /\ pending[r] = NoCall
    /\ \E a \in MayCall[r] : pending' = [pending EXCEPT ![r] = a]
    /\ UNCHANGED <<size, off, answer>>

Answers(r, kind, a) ==
    /\ pending[r].kind = kind /\ answer[r] = NoAnswer
    /\ answer' = [answer EXCEPT ![r] = a]
    /\ UNCHANGED <<size, pending>>

\* Bytes of the blob, and fewer than the buffer holds only where the blob ends.
Delivered(r, at, n) ==
    /\ n > 0 => at >= 0 /\ at + n <= size
    /\ n < pending[r].len => at + n >= size

Read(r) ==
    \E n \in 0..pending[r].len :
        /\ Delivered(r, off, n)
        /\ Answers(r, "read", [is |-> "ok", at |-> off, n |-> n])
        /\ off' = Wrap(off + n)

ReadAt(r) ==
    \E n \in 0..pending[r].len :
        /\ Delivered(r, pending[r].arg, n)
        /\ Answers(r, "readAt", [is |-> "ok", at |-> pending[r].arg, n |-> n])
        /\ UNCHANGED off

\* Where a Seek goes, computed without any bound.
Target(r) ==
    pending[r].arg + (CASE pending[r].whence = "start" -> 0
                        [] pending[r].whence = "current" -> off
                        [] pending[r].whence = "end" -> size)

Seek(r) ==
    /\ Target(r) \in 0..MaxInt
    /\ Answers(r, "seek", [is |-> "ok", at |-> Target(r), n |-> 0])
    /\ off' = Target(r)

Fail(r) ==
    /\ Answers(r, pending[r].kind, Failed)
    /\ UNCHANGED off

Return(r) ==
    /\ answer[r] # NoAnswer
    /\ pending' = [pending EXCEPT ![r] = NoCall]
    /\ answer' = [answer EXCEPT ![r] = NoAnswer]
    /\ UNCHANGED <<size, off>>

Next == \E r \in Readers :
    Ask(r) \/ Read(r) \/ ReadAt(r) \/ Seek(r) \/ Fail(r) \/ Return(r)

Spec == Init /\ [][Next]_cursor
=============================================================================
