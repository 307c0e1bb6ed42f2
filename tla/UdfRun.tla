------------------------------ MODULE UdfRun ------------------------------
(***************************************************************************)
(* AddColumnsUDF: new columns computed batch by batch by a Go function,    *)
(* with an optional checkpoint store that lets an interrupted run resume.  *)
(* The mapper and the store are called across the Arrow C Data Interface:  *)
(* a batch travels as a pair of C structs that is exported on one side and *)
(* imported, which empties the pair, on the other.                         *)
(*                                                                         *)
(* A callback may fail or panic, the operation may be cancelled wherever   *)
(* it waits, and the process may crash; the store outlives all of them.    *)
(* It holds one reference of each batch it keeps and hands out references  *)
(* of their own.  The dataset does not change between the runs.  The order *)
(* in which the lance crate asks for fragments and batches is external.    *)
(***************************************************************************)
EXTENDS Integers, Sequences

CONSTANTS
    Fragments,   \* the number of fragments
    Batches,     \* the number of batches of each
    MaxRuns,     \* how often the operation is started
    None         \* nothing

Positions == (1..Fragments) \X (1..Batches)

ASSUME UdfAssumption ==
    /\ Fragments \in Nat /\ Batches \in Nat /\ MaxRuns \in Nat
    /\ None \notin Positions /\ None \notin Seq(Positions)

(* Arrow references: the C struct pairs of a callback, the records that    *)
(* its Go side holds (the input, the mapper's output, the batch that the   *)
(* store handed out), and the result that the native side holds.           *)
Refs == {"in_arr", "rec", "out", "stored", "out_arr", "result"}

VARIABLES
    pc,        \* the step the operation is at
    runs,      \* the runs started so far
    store,     \* is a checkpoint store attached to this run?
    frag,      \* the fragment and
    batch,     \*   the batch that are worked on
    value,     \* the value of the new columns for this batch
    written,   \* the values of this fragment so far
    done,      \* the fragments that are complete
    refs,      \* unreleased Arrow references
    ckBatch,   \* the store: batches
    ckFrag,    \*            and fragments
    table      \* the committed columns

vars == <<pc, runs, store, frag, batch, value, written, done, refs, ckBatch, ckFrag, table>>

\* The mapper is a function of its input batch; a complete fragment has the
\* values of its batches.
Mapped(f, b) == <<f, b>>
Complete(f) == [b \in 1..Batches |-> Mapped(f, b)]
NoRefs == [x \in Refs |-> 0]

\* Every variable has its type: in particular a reference is never released
\* twice, and the store holds whole fragments only.
TypeOK ==
    /\ pc \in {"idle", "fragment", "read", "lookup", "hand", "fetch", "map", "import", "call",
               "export", "take", "insert", "receive", "save", "update", "finish", "keep"}
    /\ runs \in 0..MaxRuns /\ store \in BOOLEAN
    /\ frag \in 1..(Fragments + 1) /\ batch \in 1..(Batches + 1)
    /\ value \in Positions \cup {None}
    /\ written \in Seq(Positions) /\ done \in Seq(Seq(Positions))
    /\ refs \in [Refs -> {0, 1}]
    /\ ckBatch \in [Positions -> Positions \cup {None}]
    /\ ckFrag \in [1..Fragments -> Seq(Positions) \cup {None}]
    /\ table \in Seq(Seq(Positions)) \cup {None}

Init ==
    /\ pc = "idle" /\ runs = 0 /\ store = FALSE /\ frag = 1 /\ batch = 1
    /\ value = None /\ written = <<>> /\ done = <<>> /\ refs = NoRefs
    /\ ckBatch = [p \in Positions |-> None]
    /\ ckFrag = [f \in 1..Fragments |-> None]
    /\ table = None

Here == <<frag, batch>>

-----------------------------------------------------------------------------
(* The ends of a run.                                                      *)

\* The operation returns.  The native frames drop what they own; of the records
\* of Go, only those go whose Release was deferred.
Leave(deferred) ==
    /\ pc' = "idle"
    /\ refs' = [x \in Refs |-> IF x \in {"in_arr", "out_arr", "result"} \cup deferred
                               THEN 0 ELSE refs[x]]
    /\ frag' = 1 /\ batch' = 1 /\ value' = None /\ written' = <<>> /\ done' = <<>>
    /\ UNCHANGED <<runs, store>>

\* A callback or a native step fails, and the operation with it.
Fail(deferred) == Leave(deferred) /\ UNCHANGED <<ckBatch, ckFrag, table>>

\* The operation's future is dropped where it waits for I/O.
Cancel ==
    /\ pc \in {"fragment", "read", "update", "finish"}
    /\ Fail({})

\* The process dies; what the store has persists.
Crash ==
    /\ pc # "idle"
    /\ Leave(Refs) /\ UNCHANGED <<ckBatch, ckFrag, table>>

-----------------------------------------------------------------------------
(* A run.                                                                  *)

\* AddColumnsUDF, with or without WithUDFCheckpoint.
AddColumnsUDF ==
    /\ pc = "idle" /\ runs < MaxRuns /\ table = None
    /\ pc' = "fragment" /\ runs' = runs + 1
    /\ store' \in BOOLEAN
    /\ UNCHANGED <<frag, batch, value, written, done, refs, ckBatch, ckFrag, table>>

\* get_fragment: a fragment that an earlier run completed is not worked on.
GetFragment ==
    /\ pc = "fragment" /\ frag <= Fragments
    /\ \/ /\ store /\ ckFrag[frag] # None
          /\ done' = Append(done, ckFrag[frag]) /\ frag' = frag + 1
          /\ UNCHANGED <<pc, runs, store, batch, value, written, refs, ckBatch, ckFrag, table>>
       \/ /\ ~ store \/ ckFrag[frag] = None
          /\ pc' = "read"
          /\ UNCHANGED <<runs, store, frag, batch, value, written, done, refs, ckBatch, ckFrag, table>>
       \/ store /\ Fail({})

\* The next input batch of the fragment, or its end.
Read ==
    /\ pc = "read"
    /\ pc' = IF batch > Batches THEN "finish" ELSE IF store THEN "lookup" ELSE "map"
    /\ UNCHANGED <<runs, store, frag, batch, value, written, done, refs, ckBatch, ckFrag, table>>

\* Mutant of GetBatch: a miss and a hit are told apart by the returned bytes,
\* which are empty in both cases.
GetBatchByBytes ==
    /\ pc = "lookup" /\ pc' = "map"
    /\ UNCHANGED <<runs, store, frag, batch, value, written, done, refs, ckBatch, ckFrag, table>>

\* Mutant of GetBatch: the fragment id is lost from the payload.
GetBatchByIndex ==
    /\ pc = "lookup"
    /\ \/ /\ ckBatch[<<1, batch>>] # None /\ pc' = "hand"
          /\ value' = ckBatch[<<1, batch>>] /\ refs' = [refs EXCEPT !["stored"] = 1]
          /\ UNCHANGED <<runs, store, frag, batch, written, done, ckBatch, ckFrag, table>>
       \/ /\ ckBatch[<<1, batch>>] = None /\ pc' = "map"
          /\ UNCHANGED <<runs, store, frag, batch, value, written, done, refs, ckBatch, ckFrag, table>>
       \/ Fail({})

\* get_batch calls Go with an empty pair: the store hands out a reference of its
\* batch, has none, or fails.
GetBatch ==
    /\ pc = "lookup"
    /\ \/ /\ ckBatch[Here] # None /\ pc' = "hand"
          /\ value' = ckBatch[Here] /\ refs' = [refs EXCEPT !["stored"] = 1]
          /\ UNCHANGED <<runs, store, frag, batch, written, done, ckBatch, ckFrag, table>>
       \/ /\ ckBatch[Here] = None /\ pc' = "map"
          /\ UNCHANGED <<runs, store, frag, batch, value, written, done, refs, ckBatch, ckFrag, table>>
       \/ Fail({})

\* The adapter exports the stored batch into the pair; its own reference goes with
\* the deferred Release, also when the export panics.
HandOver ==
    /\ pc = "hand"
    /\ \/ /\ pc' = "fetch"
          /\ refs' = [refs EXCEPT !["stored"] = 0, !["out_arr"] = 1]
          /\ UNCHANGED <<runs, store, frag, batch, value, written, done, ckBatch, ckFrag, table>>
       \/ Fail({"stored"})

\* import_batch on the pair that a callback filled: the import consumes the array
\* whether or not it is a valid batch.
ImportOut(from, to) ==
    /\ pc = from
    /\ \/ /\ pc' = to
          /\ refs' = [refs EXCEPT !["out_arr"] = 0, !["result"] = 1]
          /\ UNCHANGED <<runs, store, frag, batch, value, written, done, ckBatch, ckFrag, table>>
       \/ Fail({})

\* The end of get_batch.
Fetch == ImportOut("fetch", "update")

\* call_go_mapper exports the input batch and calls Go.
Map ==
    /\ pc = "map" /\ pc' = "import"
    /\ refs' = [refs EXCEPT !["in_arr"] = 1]
    /\ UNCHANGED <<runs, store, frag, batch, value, written, done, ckBatch, ckFrag, table>>

\* The adapter imports the input, which empties the pair.
Import ==
    /\ pc = "import"
    /\ \/ /\ pc' = "call"
          /\ refs' = [refs EXCEPT !["in_arr"] = 0, !["rec"] = 1]
          /\ UNCHANGED <<runs, store, frag, batch, value, written, done, ckBatch, ckFrag, table>>
       \/ Fail({})

\* The Go function runs; it may return an error or panic.
Call ==
    /\ pc = "call"
    /\ \/ /\ pc' = "export"
          /\ refs' = [refs EXCEPT !["out"] = 1]
          /\ UNCHANGED <<runs, store, frag, batch, value, written, done, ckBatch, ckFrag, table>>
       \/ Fail({"rec"})

\* The result is exported into the pair; the deferred Releases drop Go's records.
Export ==
    /\ pc = "export"
    /\ \/ /\ refs' = [refs EXCEPT !["rec"] = 0, !["out"] = 0, !["out_arr"] = 1]
          /\ value' = Mapped(frag, batch) /\ pc' = "take"
          /\ UNCHANGED <<runs, store, frag, batch, written, done, ckBatch, ckFrag, table>>
       \/ Fail({"rec", "out"})

\* The end of call_go_mapper.
Take == ImportOut("take", IF store THEN "insert" ELSE "update")

\* insert_batch exports the result and calls Go.
InsertBatch ==
    /\ pc = "insert" /\ pc' = "receive"
    /\ refs' = [refs EXCEPT !["in_arr"] = 1]
    /\ UNCHANGED <<runs, store, frag, batch, value, written, done, ckBatch, ckFrag, table>>

\* The checkpoint adapter imports the pair.
Receive ==
    /\ pc = "receive"
    /\ \/ /\ pc' = "save"
          /\ refs' = [refs EXCEPT !["in_arr"] = 0, !["rec"] = 1]
          /\ UNCHANGED <<runs, store, frag, batch, value, written, done, ckBatch, ckFrag, table>>
       \/ Fail({})

\* Mutant of Save: the batch is not handed to the store.
SaveLost ==
    /\ pc = "save" /\ pc' = "update"
    /\ refs' = [refs EXCEPT !["rec"] = 0]
    /\ UNCHANGED <<runs, store, frag, batch, value, written, done, ckBatch, ckFrag, table>>

\* Mutant of Save: the record is released after the call instead of by a deferred
\* statement, so not when the store panics.
SaveNotDeferred ==
    /\ pc = "save"
    /\ \/ /\ ckBatch' = [ckBatch EXCEPT ![Here] = value]
          /\ pc' = "update" /\ refs' = [refs EXCEPT !["rec"] = 0]
          /\ UNCHANGED <<runs, store, frag, batch, value, written, done, ckFrag, table>>
       \/ /\ ckBatch' \in {ckBatch, [ckBatch EXCEPT ![Here] = value]}
          /\ Leave({}) /\ UNCHANGED <<ckFrag, table>>

\* The store's InsertBatch, which may fail or panic, also after it kept the batch;
\* the adapter's deferred Release follows.
Save ==
    /\ pc = "save"
    /\ \/ /\ ckBatch' = [ckBatch EXCEPT ![Here] = value]
          /\ pc' = "update" /\ refs' = [refs EXCEPT !["rec"] = 0]
          /\ UNCHANGED <<runs, store, frag, batch, value, written, done, ckFrag, table>>
       \/ /\ ckBatch' \in {ckBatch, [ckBatch EXCEPT ![Here] = value]}
          /\ Leave({"rec"}) /\ UNCHANGED <<ckFrag, table>>

\* The result is written to the fragment's new data file.
Update ==
    /\ pc = "update"
    /\ written' = Append(written, value)
    /\ value' = None /\ refs' = [refs EXCEPT !["result"] = 0]
    /\ batch' = batch + 1 /\ pc' = "read"
    /\ UNCHANGED <<runs, store, frag, done, ckBatch, ckFrag, table>>

\* The fragment is complete and goes to the next one, through the store if there
\* is one.
Finish ==
    /\ pc = "finish"
    /\ IF store THEN pc' = "keep" /\ UNCHANGED <<frag, batch, written, done>>
       ELSE /\ pc' = "fragment" /\ frag' = frag + 1 /\ batch' = 1
            /\ written' = <<>> /\ done' = Append(done, written)
    /\ UNCHANGED <<runs, store, value, refs, ckBatch, ckFrag, table>>

\* insert_fragment; the fragment id is part of the JSON.
InsertFragment ==
    /\ pc = "keep"
    /\ \/ /\ ckFrag' = [ckFrag EXCEPT ![frag] = written]
          /\ pc' = "fragment" /\ frag' = frag + 1 /\ batch' = 1
          /\ written' = <<>> /\ done' = Append(done, written)
          /\ UNCHANGED <<runs, store, value, refs, ckBatch, table>>
       \/ /\ ckFrag' \in {ckFrag, [ckFrag EXCEPT ![frag] = written]}
          /\ Leave({}) /\ UNCHANGED <<ckBatch, table>>

\* All fragments are done: the new version is committed, or is not.
Commit ==
    /\ pc = "fragment" /\ frag > Fragments
    /\ table' \in {None, done}
    /\ Leave({})
    /\ UNCHANGED <<ckBatch, ckFrag>>

Step ==
    \/ GetFragment \/ Read \/ GetBatch \/ HandOver \/ Fetch \/ Map \/ Import \/ Call \/ Export
    \/ Take \/ InsertBatch \/ Receive \/ Save \/ Update \/ Finish \/ InsertFragment \/ Commit

Next == AddColumnsUDF \/ Step \/ Cancel \/ Crash

Spec == Init /\ [][Next]_vars

-----------------------------------------------------------------------------
(* Properties.                                                             *)

\* Whatever interrupted the earlier runs, and whatever part of the result comes
\* from the store, the committed columns are the mapper's values, batch by batch
\* and fragment by fragment.
ColumnsRight ==
    table # None => table = [f \in 1..Fragments |-> Complete(f)]

\* A resumed run does not recompute: the mapper is not called for a batch that
\* the store holds, nor for a batch of a fragment that it holds.
NotRecomputed ==
    pc \in {"map", "import", "call"} /\ store =>
        ckBatch[Here] = None /\ ckFrag[frag] = None

\* No Arrow batch is left behind by a failed, cancelled or finished run: neither a
\* filled pair nor a record that the mapper's or the store's adapter imported,
\* computed or was handed.
RefsReleased ==
    pc = "idle" => refs = NoRefs

\* Whatever interrupts the runs, the checkpoint store and the table behave as
\* Checkpoint promises: nothing saved is saved again, changed or lost, a fragment
\* is kept only when each of its batches is, and the columns are committed once.
Promise == INSTANCE Checkpoint WITH
    Value <- [p \in Positions |-> Mapped(p[1], p[2])],
    batches <- ckBatch, fragments <- ckFrag, columns <- table

ImplementsCheckpoint == Promise!Spec
=============================================================================
