--------------------------- MODULE UdfRunProofs ---------------------------
(***************************************************************************)
(* Proofs that AddColumnsUDF commits the mapper's values and releases its  *)
(* Arrow batches, for any number of fragments, batches and interrupted     *)
(* runs.                                                                   *)
(***************************************************************************)
EXTENDS UdfRun, SequenceTheorems, TLAPS

\* The references that are held at each step of a run.
Held == CASE pc = "import" -> {"in_arr"}
          [] pc = "call" -> {"rec"}
          [] pc = "export" -> {"rec", "out"}
          [] pc = "hand" -> {"stored"}
          [] pc \in {"fetch", "take"} -> {"out_arr"}
          [] pc = "receive" -> {"in_arr", "result"}
          [] pc = "save" -> {"rec", "result"}
          [] pc \in {"insert", "update"} -> {"result"}
          [] OTHER -> {}

\* The steps at which the value of the batch is known, and all steps of a batch.
HasValue == {"hand", "fetch", "take", "insert", "receive", "save", "update"}
InBatch == HasValue \cup {"lookup", "map", "import", "call", "export"}

\* The store holds only values of the mapper, under their own positions.
StoreInv ==
    /\ \A p \in Positions : ckBatch[p] \in {p, None}
    /\ \A f \in 1..Fragments : ckFrag[f] \in {Complete(f), None}

\* What the run has so far is right, wherever it came from.
WorkInv ==
    /\ Len(done) = frag - 1 /\ \A g \in 1..(frag - 1) : done[g] = Complete(g)
    /\ Len(written) = batch - 1 /\ \A b \in 1..(batch - 1) : written[b] = Mapped(frag, b)
    /\ pc \in HasValue => value = Here
    /\ pc = "idle" => frag = 1
    /\ pc \in {"idle", "fragment"} => batch = 1
    /\ pc \notin {"idle", "fragment"} => frag <= Fragments
    /\ pc \in InBatch => batch <= Batches
    /\ pc \in {"finish", "keep"} => batch = Batches + 1

\* A run works only on what the store does not have.
FreshInv ==
    store =>
      /\ pc \notin {"idle", "fragment"} => ckFrag[frag] = None
      /\ pc \in {"map", "import", "call"} => ckBatch[Here] = None

IInv ==
    /\ TypeOK /\ StoreInv /\ WorkInv /\ FreshInv /\ ColumnsRight
    /\ \A x \in Refs : refs[x] = IF x \in Held THEN 1 ELSE 0

\* A position is made of a fragment and a batch of it.
LEMMA HereIn ==
    ASSUME frag \in 1..Fragments, batch \in 1..Batches
    PROVE  Here \in Positions /\ Mapped(frag, batch) = Here
  BY DEF Here, Positions, Mapped

\* Before the first run nothing is held and nothing is stored.
LEMMA InitInv ==
    Init => IInv
<1> SUFFICES ASSUME Init PROVE IInv
  OBVIOUS
<1>0. Len(<<>>) = 0
  OBVIOUS
<1>1. TypeOK
  <2>1. refs \in [Refs -> {0, 1}]
    BY DEF Init, NoRefs
  <2>2. /\ ckBatch \in [Positions -> Positions \cup {None}]
        /\ ckFrag \in [1..Fragments -> Seq(Positions) \cup {None}]
    BY DEF Init
  <2>3. written \in Seq(Positions) /\ done \in Seq(Seq(Positions))
    BY DEF Init
  <2>4. runs \in 0..MaxRuns /\ frag \in 1..(Fragments + 1) /\ batch \in 1..(Batches + 1)
    <3>1. runs = 0 /\ frag = 1 /\ batch = 1
      BY DEF Init
    <3> QED
      BY <3>1, UdfAssumption
  <2>5. /\ store \in BOOLEAN
        /\ value \in Positions \cup {None} /\ table \in Seq(Seq(Positions)) \cup {None}
    BY Zenon DEF Init
  <2> QED
    BY <2>1, <2>2, <2>3, <2>4, <2>5 DEF Init, TypeOK
<1>2. StoreInv /\ FreshInv /\ ColumnsRight
  BY DEF Init, StoreInv, FreshInv, ColumnsRight
<1>3. WorkInv
  BY <1>0 DEF Init, WorkInv, HasValue, InBatch
<1>4. \A x \in Refs : refs[x] = IF x \in Held THEN 1 ELSE 0
  BY DEF Init, NoRefs, Held
<1> QED
  BY <1>1, <1>2, <1>3, <1>4 DEF IInv

\* Leave: a run that ends forgets its work and holds no reference, provided that
\* the records of Go that are held have a deferred Release.
LEMMA LeaveStep ==
    ASSUME IInv, NEW deferred, Leave(deferred),
           Held \subseteq {"in_arr", "out_arr", "result"} \cup deferred,
           ckBatch' \in [Positions -> Positions \cup {None}],
           ckFrag' \in [1..Fragments -> Seq(Positions) \cup {None}],
           table' \in Seq(Seq(Positions)) \cup {None}, StoreInv', ColumnsRight'
    PROVE  IInv'
<1>1. /\ pc' = "idle" /\ frag' = 1 /\ batch' = 1 /\ value' = None /\ written' = <<>> /\ done' = <<>>
      /\ runs' = runs /\ store' = store
      /\ refs' = [x \in Refs |-> IF x \in {"in_arr", "out_arr", "result"} \cup deferred
                                 THEN 0 ELSE refs[x]]
  BY DEF Leave
<1>2. \A x \in Refs : refs[x] = IF x \in Held THEN 1 ELSE 0
  BY DEF IInv
<1>3. \A x \in Refs : refs'[x] = 0
  BY <1>1, <1>2, Zenon
<1>4. Held' = {}
  BY <1>1 DEF Held
<1>5. refs' \in [Refs -> {0, 1}]
  BY <1>1, <1>3
<1>6. TypeOK'
  BY <1>1, <1>5, UdfAssumption DEF IInv, TypeOK
<1>7. WorkInv' /\ FreshInv'
  <2>1. Len(<<>>) = 0
    OBVIOUS
  <2> QED
    BY <1>1, <2>1 DEF WorkInv, FreshInv, HasValue, InBatch
<1> QED
  BY <1>3, <1>4, <1>6, <1>7 DEF IInv

\* Fail: the same when neither the store nor the table changes.
LEMMA FailStep ==
    ASSUME IInv, NEW deferred, Fail(deferred),
           Held \subseteq {"in_arr", "out_arr", "result"} \cup deferred
    PROVE  IInv'
<1>1. Leave(deferred) /\ ckBatch' = ckBatch /\ ckFrag' = ckFrag /\ table' = table
  BY DEF Fail
<1>2. /\ ckBatch' \in [Positions -> Positions \cup {None}]
      /\ ckFrag' \in [1..Fragments -> Seq(Positions) \cup {None}]
      /\ table' \in Seq(Seq(Positions)) \cup {None}
  BY <1>1 DEF IInv, TypeOK
<1>3. StoreInv' /\ ColumnsRight'
  BY <1>1 DEF IInv, StoreInv, ColumnsRight
<1> QED
  BY <1>1, <1>2, <1>3, LeaveStep

\* AddColumnsUDF and Read move on without touching the work or the store.
LEMMA MoveStep ==
    ASSUME IInv, AddColumnsUDF \/ Read
    PROVE  IInv'
<1>1. /\ frag' = frag /\ batch' = batch /\ value' = value /\ written' = written /\ done' = done
      /\ ckBatch' = ckBatch /\ ckFrag' = ckFrag /\ table' = table /\ Here' = Here
  BY DEF AddColumnsUDF, Read, Here
<1>2. \A x \in Refs : refs[x] = IF x \in Held THEN 1 ELSE 0
  BY DEF IInv
<1>3. CASE AddColumnsUDF
  <2>1. TypeOK'
    BY <1>3, UdfAssumption DEF IInv, TypeOK, AddColumnsUDF
  <2>2. WorkInv' /\ FreshInv' /\ Held' = {} /\ Held = {} /\ refs' = refs
    BY <1>1, <1>3 DEF IInv, WorkInv, FreshInv, HasValue, InBatch, AddColumnsUDF, Held
  <2>3. StoreInv' /\ ColumnsRight'
    BY <1>1 DEF IInv, StoreInv, ColumnsRight
  <2> QED
    BY <1>2, <2>1, <2>2, <2>3 DEF IInv
<1>4. CASE Read
  <2>1. TypeOK'
    BY <1>4 DEF IInv, TypeOK, Read
  <2>2. WorkInv' /\ Held' = {} /\ Held = {} /\ refs' = refs
    <3>1. batch \in 1..(Batches + 1) /\ Batches \in Nat
      BY UdfAssumption DEF IInv, TypeOK
    <3> QED
      BY <1>1, <1>4, <3>1 DEF IInv, WorkInv, HasValue, InBatch, Read, Held
  <2>3. FreshInv'
    BY <1>1, <1>4 DEF IInv, FreshInv, Read
  <2>4. StoreInv' /\ ColumnsRight'
    BY <1>1 DEF IInv, StoreInv, ColumnsRight
  <2> QED
    BY <1>2, <2>1, <2>2, <2>3, <2>4 DEF IInv
<1> QED
  BY <1>3, <1>4

\* GetFragment: what the store has of a fragment is the whole fragment.
LEMMA GetFragmentStep ==
    ASSUME IInv, GetFragment
    PROVE  IInv'
<1>0. /\ pc = "fragment" /\ frag \in 1..Fragments /\ batch = 1 /\ Held = {}
      /\ Fragments \in Nat
  BY UdfAssumption DEF IInv, TypeOK, WorkInv, GetFragment, Held
<1>r. \A x \in Refs : refs[x] = 0
  BY <1>0 DEF IInv
<1>1. CASE store /\ Fail({})
  BY <1>0, <1>1, FailStep
<1>2. ASSUME store, ckFrag[frag] # None,
             done' = Append(done, ckFrag[frag]), frag' = frag + 1,
             UNCHANGED <<pc, runs, store, batch, value, written, refs, ckBatch, ckFrag, table>>
      PROVE  IInv'
  <2>1. ckFrag[frag] = Complete(frag) /\ ckFrag[frag] \in Seq(Positions)
    BY <1>0, <1>2 DEF IInv, StoreInv, TypeOK
  <2>2. done \in Seq(Seq(Positions)) /\ Len(done) = frag - 1
    BY DEF IInv, TypeOK, WorkInv
  <2>3. /\ done' \in Seq(Seq(Positions)) /\ Len(done') = frag' - 1
        /\ done'[frag] = Complete(frag) /\ \A g \in 1..(frag - 1) : done'[g] = done[g]
    BY <1>0, <1>2, <2>1, <2>2
  <2>4. \A g \in 1..(frag' - 1) : done'[g] = Complete(g)
    BY <1>0, <1>2, <2>3 DEF IInv, WorkInv
  <2>5. TypeOK'
    BY <1>0, <1>2, <2>3 DEF IInv, TypeOK
  <2>6. Len(written) = 0 /\ written' = written /\ batch' = 1 /\ pc' = "fragment"
    BY <1>0, <1>2 DEF IInv, WorkInv
  <2>7. WorkInv'
    BY <2>3, <2>4, <2>6 DEF WorkInv, HasValue, InBatch
  <2>8. StoreInv' /\ ColumnsRight'
    BY <1>2 DEF IInv, StoreInv, ColumnsRight
  <2>9. FreshInv' /\ Held' = {}
    BY <2>6 DEF FreshInv, Held
  <2> QED
    BY <1>2, <1>r, <2>5, <2>7, <2>8, <2>9 DEF IInv
<1>3. ASSUME ~ store \/ ckFrag[frag] = None, pc' = "read",
             UNCHANGED <<runs, store, frag, batch, value, written, done, refs,
                         ckBatch, ckFrag, table>>
      PROVE  IInv'
  <2>1. TypeOK'
    BY <1>3 DEF IInv, TypeOK
  <2>2. WorkInv' /\ FreshInv' /\ Held' = {}
    BY <1>0, <1>3 DEF IInv, WorkInv, FreshInv, HasValue, InBatch, Held
  <2>3. StoreInv' /\ ColumnsRight'
    BY <1>3 DEF IInv, StoreInv, ColumnsRight
  <2> QED
    BY <1>3, <1>r, <2>1, <2>2, <2>3 DEF IInv
<1> QED
  BY <1>1, <1>2, <1>3 DEF GetFragment

\* A step within a batch that leaves the store alone.
LEMMA BatchMove ==
    ASSUME IInv, pc \in InBatch, pc' \in InBatch,
           UNCHANGED <<runs, store, frag, batch, written, done, ckBatch, ckFrag, table>>,
           value' \in Positions \cup {None}, pc' \in HasValue => value' = Here,
           pc' \in {"map", "import", "call"} => (store => ckBatch[Here] = None),
           refs' \in [Refs -> {0, 1}],
           \A x \in Refs : refs'[x] = IF x \in Held' THEN 1 ELSE 0
    PROVE  IInv'
<1>1. TypeOK'
  BY DEF IInv, TypeOK, HasValue, InBatch
<1>2. Here' = Here
  BY DEF Here
<1>3. pc \notin {"idle", "fragment", "finish", "keep"} /\ pc' \notin {"idle", "fragment", "finish", "keep"}
  BY DEF HasValue, InBatch
<1>4. WorkInv'
  BY <1>2, <1>3 DEF IInv, WorkInv
<1>5. FreshInv'
  BY <1>2, <1>3 DEF IInv, FreshInv
<1>6. StoreInv' /\ ColumnsRight'
  BY DEF IInv, StoreInv, ColumnsRight
<1> QED
  BY <1>1, <1>4, <1>5, <1>6 DEF IInv

\* The callback of get_batch: the value that comes from the store is the mapper's.
LEMMA LookupStep ==
    ASSUME IInv, GetBatch \/ HandOver \/ Fetch
    PROVE  IInv'
<1>0. pc \in InBatch /\ frag \in 1..Fragments /\ batch \in 1..Batches
  BY UdfAssumption DEF IInv, TypeOK, WorkInv, HasValue, InBatch, GetBatch, HandOver, Fetch, ImportOut
<1>r. refs \in [Refs -> {0, 1}] /\ \A x \in Refs : refs[x] = IF x \in Held THEN 1 ELSE 0
  BY DEF IInv, TypeOK
<1>h. Here \in Positions
  BY <1>0, HereIn
<1>1. CASE GetBatch
  <2>1. pc = "lookup" /\ Held = {}
    BY <1>1 DEF GetBatch, Held
  <2>2. CASE Fail({})
    BY <2>1, <2>2, FailStep
  <2>3. CASE ckBatch[Here] # None /\ pc' = "hand"
    <3>1. value' = Here /\ refs' = [refs EXCEPT !["stored"] = 1]
          /\ UNCHANGED <<runs, store, frag, batch, written, done, ckBatch, ckFrag, table>>
      BY <1>1, <1>h, <2>3 DEF GetBatch, Fail, Leave, IInv, StoreInv
    <3>2. Held' = {"stored"}
      BY <2>3 DEF Held
    <3>3. refs' \in [Refs -> {0, 1}] /\ \A x \in Refs : refs'[x] = IF x \in Held' THEN 1 ELSE 0
      BY <1>r, <2>1, <3>1, <3>2, Zenon
    <3> QED
      BY <1>0, <1>h, <2>3, <3>1, <3>3, BatchMove DEF HasValue, InBatch
  <2>4. CASE ckBatch[Here] = None /\ pc' = "map"
    <3>1. UNCHANGED <<runs, store, frag, batch, value, written, done, refs,
                      ckBatch, ckFrag, table>>
      BY <1>1, <2>4 DEF GetBatch, Fail, Leave
    <3>2. Held' = {}
      BY <2>4 DEF Held
    <3>3. value' \in Positions \cup {None}
      BY <3>1 DEF IInv, TypeOK
    <3> QED
      BY <1>0, <1>r, <2>1, <2>4, <3>1, <3>2, <3>3, BatchMove DEF HasValue, InBatch
  <2> QED
    BY <1>1, <2>2, <2>3, <2>4 DEF GetBatch
<1>2. CASE HandOver
  <2>1. pc = "hand" /\ Held = {"stored"}
    BY <1>2 DEF HandOver, Held
  <2>2. CASE Fail({"stored"})
    BY <2>1, <2>2, FailStep
  <2>3. CASE ~ Fail({"stored"})
    <3>1. /\ pc' = "fetch" /\ refs' = [refs EXCEPT !["stored"] = 0, !["out_arr"] = 1]
          /\ UNCHANGED <<runs, store, frag, batch, value, written, done, ckBatch, ckFrag, table>>
      BY <1>2, <2>3 DEF HandOver
    <3>2. Held' = {"out_arr"}
      BY <3>1 DEF Held
    <3>3. refs' \in [Refs -> {0, 1}] /\ \A x \in Refs : refs'[x] = IF x \in Held' THEN 1 ELSE 0
      BY <1>r, <2>1, <3>1, <3>2, Zenon
    <3>4. value' = Here /\ Here \in Positions
      BY <1>h, <2>1, <3>1 DEF IInv, WorkInv, HasValue
    <3> QED
      BY <1>0, <2>1, <3>1, <3>3, <3>4, BatchMove DEF HasValue, InBatch
  <2> QED
    BY <2>2, <2>3
<1>3. CASE Fetch
  <2>1. pc = "fetch" /\ Held = {"out_arr"}
    BY <1>3 DEF Fetch, ImportOut, Held
  <2>2. CASE Fail({})
    BY <2>1, <2>2, FailStep
  <2>3. CASE ~ Fail({})
    <3>1. /\ pc' = "update" /\ refs' = [refs EXCEPT !["out_arr"] = 0, !["result"] = 1]
          /\ UNCHANGED <<runs, store, frag, batch, value, written, done, ckBatch, ckFrag, table>>
      BY <1>3, <2>3 DEF Fetch, ImportOut
    <3>2. Held' = {"result"}
      BY <3>1 DEF Held
    <3>3. refs' \in [Refs -> {0, 1}] /\ \A x \in Refs : refs'[x] = IF x \in Held' THEN 1 ELSE 0
      BY <1>r, <2>1, <3>1, <3>2, Zenon
    <3>4. value' = Here /\ Here \in Positions
      BY <1>h, <2>1, <3>1 DEF IInv, WorkInv, HasValue
    <3> QED
      BY <1>0, <2>1, <3>1, <3>3, <3>4, BatchMove DEF HasValue, InBatch
  <2> QED
    BY <2>2, <2>3
<1> QED
  BY <1>1, <1>2, <1>3

\* The callback of the mapper.
LEMMA MapperStep ==
    ASSUME IInv, Map \/ Import \/ Call \/ Export \/ Take
    PROVE  IInv'
<1>0. pc \in InBatch /\ frag \in 1..Fragments /\ batch \in 1..Batches
  BY UdfAssumption DEF IInv, TypeOK, WorkInv, HasValue, InBatch, Map, Import, Call, Export,
     Take, ImportOut
<1>r. refs \in [Refs -> {0, 1}] /\ \A x \in Refs : refs[x] = IF x \in Held THEN 1 ELSE 0
  BY DEF IInv, TypeOK
<1>h. Here \in Positions /\ Mapped(frag, batch) = Here
  BY <1>0, HereIn
<1>v. value \in Positions \cup {None}
  BY DEF IInv, TypeOK
<1>1. CASE Map
  <2>1. pc = "map" /\ Held = {}
    BY <1>1 DEF Map, Held
  <2>2. /\ pc' = "import" /\ refs' = [refs EXCEPT !["in_arr"] = 1]
        /\ UNCHANGED <<runs, store, frag, batch, value, written, done, ckBatch, ckFrag, table>>
    BY <1>1 DEF Map
  <2>3. Held' = {"in_arr"}
    BY <2>2 DEF Held
  <2>4. refs' \in [Refs -> {0, 1}] /\ \A x \in Refs : refs'[x] = IF x \in Held' THEN 1 ELSE 0
    BY <1>r, <2>1, <2>2, <2>3, Zenon
  <2>5. store => ckBatch[Here] = None
    BY <2>1 DEF IInv, FreshInv
  <2> QED
    BY <1>0, <1>v, <2>2, <2>4, <2>5, BatchMove DEF HasValue, InBatch
<1>2. CASE Import
  <2>1. pc = "import" /\ Held = {"in_arr"}
    BY <1>2 DEF Import, Held
  <2>2. CASE Fail({})
    BY <2>1, <2>2, FailStep
  <2>3. CASE ~ Fail({})
    <3>1. /\ pc' = "call" /\ refs' = [refs EXCEPT !["in_arr"] = 0, !["rec"] = 1]
          /\ UNCHANGED <<runs, store, frag, batch, value, written, done, ckBatch, ckFrag, table>>
      BY <1>2, <2>3 DEF Import
    <3>2. Held' = {"rec"}
      BY <3>1 DEF Held
    <3>3. refs' \in [Refs -> {0, 1}] /\ \A x \in Refs : refs'[x] = IF x \in Held' THEN 1 ELSE 0
      BY <1>r, <2>1, <3>1, <3>2, Zenon
    <3>4. value' \in Positions \cup {None} /\ (store => ckBatch[Here] = None)
      BY <1>v, <2>1, <3>1 DEF IInv, FreshInv
    <3> QED
      BY <1>0, <2>1, <3>1, <3>3, <3>4, BatchMove DEF HasValue, InBatch
  <2> QED
    BY <2>2, <2>3
<1>3. CASE Call
  <2>1. pc = "call" /\ Held = {"rec"}
    BY <1>3 DEF Call, Held
  <2>2. CASE Fail({"rec"})
    BY <2>1, <2>2, FailStep
  <2>3. CASE ~ Fail({"rec"})
    <3>1. /\ pc' = "export" /\ refs' = [refs EXCEPT !["out"] = 1]
          /\ UNCHANGED <<runs, store, frag, batch, value, written, done, ckBatch, ckFrag, table>>
      BY <1>3, <2>3 DEF Call
    <3>2. Held' = {"rec", "out"}
      BY <3>1 DEF Held
    <3>3. refs' \in [Refs -> {0, 1}] /\ \A x \in Refs : refs'[x] = IF x \in Held' THEN 1 ELSE 0
      BY <1>r, <2>1, <3>1, <3>2, Zenon
    <3>4. value' \in Positions \cup {None}
      BY <1>v, <3>1
    <3> QED
      BY <1>0, <2>1, <3>1, <3>3, <3>4, BatchMove DEF HasValue, InBatch
  <2> QED
    BY <2>2, <2>3
<1>4. CASE Export
  <2>1. pc = "export" /\ Held = {"rec", "out"}
    BY <1>4 DEF Export, Held
  <2>2. CASE Fail({"rec", "out"})
    BY <2>1, <2>2, FailStep
  <2>3. CASE ~ Fail({"rec", "out"})
    <3>1. /\ pc' = "take" /\ refs' = [refs EXCEPT !["rec"] = 0, !["out"] = 0, !["out_arr"] = 1]
          /\ UNCHANGED <<runs, store, frag, batch, written, done, ckBatch, ckFrag, table>>
      BY <1>4, <2>3 DEF Export
    <3>2. Held' = {"out_arr"}
      BY <3>1 DEF Held
    <3>3. refs' \in [Refs -> {0, 1}] /\ \A x \in Refs : refs'[x] = IF x \in Held' THEN 1 ELSE 0
      BY <1>r, <2>1, <3>1, <3>2, Zenon
    <3>4. value' = Here
      BY <1>4, <1>h, <2>3 DEF Export
    <3> QED
      BY <1>0, <2>1, <3>1, <3>3, <3>4, <1>h, BatchMove DEF HasValue, InBatch
  <2> QED
    BY <2>2, <2>3
<1>5. CASE Take
  <2>1. pc = "take" /\ Held = {"out_arr"}
    BY <1>5 DEF Take, ImportOut, Held
  <2>2. CASE Fail({})
    BY <2>1, <2>2, FailStep
  <2>3. CASE ~ Fail({})
    <3>1. /\ pc' \in {"insert", "update"} /\ refs' = [refs EXCEPT !["out_arr"] = 0, !["result"] = 1]
          /\ UNCHANGED <<runs, store, frag, batch, value, written, done, ckBatch, ckFrag, table>>
      BY <1>5, <2>3 DEF Take, ImportOut
    <3>2. Held' = {"result"}
      BY <3>1 DEF Held
    <3>3. refs' \in [Refs -> {0, 1}] /\ \A x \in Refs : refs'[x] = IF x \in Held' THEN 1 ELSE 0
      BY <1>r, <2>1, <3>1, <3>2, Zenon
    <3>4. value' = Here /\ Here \in Positions
      BY <1>h, <2>1, <3>1 DEF IInv, WorkInv, HasValue
    <3> QED
      BY <1>0, <2>1, <3>1, <3>3, <3>4, BatchMove DEF HasValue, InBatch
  <2> QED
    BY <2>2, <2>3
<1> QED
  BY <1>1, <1>2, <1>3, <1>4, <1>5

\* The callback of insert_batch, up to the store.
LEMMA InsertStep ==
    ASSUME IInv, InsertBatch \/ Receive
    PROVE  IInv'
<1>0. pc \in InBatch /\ frag \in 1..Fragments /\ batch \in 1..Batches
  BY UdfAssumption DEF IInv, TypeOK, WorkInv, HasValue, InBatch, InsertBatch, Receive
<1>r. refs \in [Refs -> {0, 1}] /\ \A x \in Refs : refs[x] = IF x \in Held THEN 1 ELSE 0
  BY DEF IInv, TypeOK
<1>h. Here \in Positions
  BY <1>0, HereIn
<1>1. CASE InsertBatch
  <2>1. pc = "insert" /\ Held = {"result"}
    BY <1>1 DEF InsertBatch, Held
  <2>2. /\ pc' = "receive" /\ refs' = [refs EXCEPT !["in_arr"] = 1]
        /\ UNCHANGED <<runs, store, frag, batch, value, written, done, ckBatch, ckFrag, table>>
    BY <1>1 DEF InsertBatch
  <2>3. Held' = {"in_arr", "result"}
    BY <2>2 DEF Held
  <2>4. refs' \in [Refs -> {0, 1}] /\ \A x \in Refs : refs'[x] = IF x \in Held' THEN 1 ELSE 0
    BY <1>r, <2>1, <2>2, <2>3, Zenon
  <2>5. value' = Here
    BY <2>1, <2>2 DEF IInv, WorkInv, HasValue
  <2> QED
    BY <1>0, <1>h, <2>2, <2>4, <2>5, BatchMove DEF HasValue, InBatch
<1>2. CASE Receive
  <2>1. pc = "receive" /\ Held = {"in_arr", "result"}
    BY <1>2 DEF Receive, Held
  <2>2. CASE Fail({})
    BY <2>1, <2>2, FailStep
  <2>3. CASE ~ Fail({})
    <3>1. /\ pc' = "save" /\ refs' = [refs EXCEPT !["in_arr"] = 0, !["rec"] = 1]
          /\ UNCHANGED <<runs, store, frag, batch, value, written, done, ckBatch, ckFrag, table>>
      BY <1>2, <2>3 DEF Receive
    <3>2. Held' = {"rec", "result"}
      BY <3>1 DEF Held
    <3>3. refs' \in [Refs -> {0, 1}] /\ \A x \in Refs : refs'[x] = IF x \in Held' THEN 1 ELSE 0
      BY <1>r, <2>1, <3>1, <3>2, Zenon
    <3>4. value' = Here /\ Here \in Positions
      BY <1>h, <2>1, <3>1 DEF IInv, WorkInv, HasValue
    <3> QED
      BY <1>0, <2>1, <3>1, <3>3, <3>4, BatchMove DEF HasValue, InBatch
  <2> QED
    BY <2>2, <2>3
<1> QED
  BY <1>1, <1>2

\* Save: the store gets the mapper's value under its own position, even when it
\* fails.
LEMMA SaveStep ==
    ASSUME IInv, Save
    PROVE  IInv'
<1>0. /\ pc = "save" /\ frag \in 1..Fragments /\ batch \in 1..Batches
      /\ value = Here /\ Held = {"rec", "result"}
  BY UdfAssumption DEF IInv, TypeOK, WorkInv, HasValue, InBatch, Save, Held
<1>h. Here \in Positions
  BY <1>0, HereIn
<1>1. ckBatch' \in {ckBatch, [ckBatch EXCEPT ![Here] = value]} /\ ckFrag' = ckFrag /\ table' = table
  BY Zenon DEF Save
<1>2. ckBatch' \in [Positions -> Positions \cup {None}]
  BY <1>0, <1>1, <1>h, Zenon DEF IInv, TypeOK
<1>3. \A p \in Positions : ckBatch'[p] \in {p, None}
  BY <1>0, <1>1, <1>h DEF IInv, TypeOK, StoreInv
<1>4. StoreInv' /\ ColumnsRight'
  BY <1>1, <1>3 DEF IInv, StoreInv, ColumnsRight
<1>5. CASE Leave({"rec"})
  <2>1. ckFrag' \in [1..Fragments -> Seq(Positions) \cup {None}]
        /\ table' \in Seq(Seq(Positions)) \cup {None}
    BY <1>1 DEF IInv, TypeOK
  <2> QED
    BY <1>0, <1>2, <1>4, <1>5, <2>1, LeaveStep
<1>6. CASE ~ Leave({"rec"})
  <2>1. /\ pc' = "update" /\ refs' = [refs EXCEPT !["rec"] = 0]
        /\ UNCHANGED <<runs, store, frag, batch, value, written, done, ckFrag, table>>
    BY <1>6 DEF Save
  <2>2. Here' = Here /\ Held' = {"result"}
    BY <2>1 DEF Here, Held
  <2>3. refs' \in [Refs -> {0, 1}] /\ \A x \in Refs : refs'[x] = IF x \in Held' THEN 1 ELSE 0
    <3>1. refs \in [Refs -> {0, 1}] /\ \A x \in Refs : refs[x] = IF x \in Held THEN 1 ELSE 0
      BY DEF IInv, TypeOK
    <3> QED
      BY <1>0, <2>1, <2>2, <3>1, Zenon
  <2>4. TypeOK'
    BY <1>2, <2>1, <2>3 DEF IInv, TypeOK
  <2>5. WorkInv' /\ FreshInv'
    BY <1>0, <2>1, <2>2 DEF IInv, WorkInv, FreshInv, HasValue, InBatch
  <2> QED
    BY <1>4, <2>3, <2>4, <2>5 DEF IInv
<1> QED
  BY <1>5, <1>6

\* Update: the value goes to the end of what is written of the fragment.
LEMMA UpdateStep ==
    ASSUME IInv, Update
    PROVE  IInv'
<1>0. /\ pc = "update" /\ frag \in 1..Fragments /\ batch \in 1..Batches /\ value = Here
      /\ Batches \in Nat
  BY UdfAssumption DEF IInv, TypeOK, WorkInv, HasValue, InBatch, Update
<1>h. Here \in Positions /\ Mapped(frag, batch) = Here
  BY <1>0, HereIn
<1>1. /\ written' = Append(written, value) /\ value' = None
      /\ refs' = [refs EXCEPT !["result"] = 0] /\ batch' = batch + 1 /\ pc' = "read"
      /\ UNCHANGED <<runs, store, frag, done, ckBatch, ckFrag, table>>
  BY DEF Update
<1>2. written \in Seq(Positions) /\ Len(written) = batch - 1
  BY DEF IInv, TypeOK, WorkInv
<1>3. /\ written' \in Seq(Positions) /\ Len(written') = batch' - 1 /\ written'[batch] = Here
      /\ \A b \in 1..(batch - 1) : written'[b] = written[b]
  BY <1>0, <1>1, <1>2, <1>h
<1>4. \A b \in 1..(batch' - 1) : written'[b] = Mapped(frag, b)
  <2>1. \A b \in 1..(batch - 1) : written[b] = Mapped(frag, b)
    BY Zenon, <1>0 DEF IInv, WorkInv
  <2>2. \A b \in 1..(batch' - 1) : b \in 1..(batch - 1) \/ b = batch
    BY <1>0, <1>1
  <2> QED BY Zenon, <1>3, <1>h, <2>1, <2>2
<1>5. refs' \in [Refs -> {0, 1}]
  BY <1>1, Zenon DEF IInv, TypeOK
<1>6. batch' \in 1..(Batches + 1)
  BY <1>0, <1>1
<1>7. TypeOK'
  BY <1>1, <1>3, <1>5, <1>6 DEF IInv, TypeOK
<1>8. WorkInv' /\ FreshInv'
  BY <1>0, <1>1, <1>3, <1>4 DEF IInv, WorkInv, FreshInv, HasValue, InBatch
<1>9. \A x \in Refs : refs'[x] = IF x \in Held' THEN 1 ELSE 0
  BY <1>0, <1>1 DEF IInv, TypeOK, Held
<1>10. StoreInv' /\ ColumnsRight'
  BY <1>1 DEF IInv, StoreInv, ColumnsRight
<1> QED
  BY <1>7, <1>8, <1>9, <1>10 DEF IInv

\* What is written when the last batch is done is the complete fragment.
LEMMA WrittenComplete ==
    ASSUME IInv, pc \in {"finish", "keep"}
    PROVE  /\ written \in Seq(Positions) /\ written = Complete(frag) /\ frag \in 1..Fragments
           /\ Held = {}
<1>1. /\ written \in Seq(Positions) /\ Len(written) = Batches /\ frag \in 1..Fragments
      /\ \A b \in 1..Batches : written[b] = Mapped(frag, b)
  BY UdfAssumption DEF IInv, TypeOK, WorkInv
<1>2. written = [b \in 1..Batches |-> written[b]]
  BY <1>1
<1>3. written = Complete(frag)
  BY <1>1, <1>2 DEF Complete
<1> QED
  BY <1>1, <1>3 DEF Held

\* A complete fragment is added to the ones that are done.
LEMMA AdvanceStep ==
    ASSUME IInv, pc \in {"finish", "keep"},
           pc' = "fragment", frag' = frag + 1, batch' = 1,
           written' = <<>>, done' = Append(done, written),
           UNCHANGED <<runs, store, value, refs, ckBatch, table>>,
           ckFrag' \in [1..Fragments -> Seq(Positions) \cup {None}], StoreInv'
    PROVE  IInv'
<1>1. /\ written \in Seq(Positions) /\ written = Complete(frag) /\ frag \in 1..Fragments
      /\ Held = {}
  BY WrittenComplete
<1>2. done \in Seq(Seq(Positions)) /\ Len(done) = frag - 1
  BY DEF IInv, TypeOK, WorkInv
<1>3. /\ done' \in Seq(Seq(Positions)) /\ Len(done') = frag' - 1
      /\ done'[frag] = Complete(frag) /\ \A g \in 1..(frag - 1) : done'[g] = done[g]
  BY <1>1, <1>2
<1>4. \A g \in 1..(frag' - 1) : done'[g] = Complete(g)
  BY <1>1, <1>3 DEF IInv, WorkInv
<1>5. frag' \in 1..(Fragments + 1) /\ batch' \in 1..(Batches + 1)
  BY <1>1, UdfAssumption
<1>6. TypeOK'
  BY <1>3, <1>5 DEF IInv, TypeOK
<1>7. Len(<<>>) = 0
  OBVIOUS
<1>8. WorkInv' /\ FreshInv' /\ Held' = {}
  BY <1>3, <1>4, <1>7 DEF WorkInv, FreshInv, HasValue, InBatch, Held
<1>9. ColumnsRight' /\ \A x \in Refs : refs'[x] = 0
  BY <1>1 DEF IInv, ColumnsRight
<1> QED
  BY <1>6, <1>8, <1>9 DEF IInv

\* Finish and InsertFragment: the store gets complete fragments only.
LEMMA FragmentStep ==
    ASSUME IInv, Finish \/ InsertFragment
    PROVE  IInv'
<1>0. /\ written \in Seq(Positions) /\ written = Complete(frag) /\ frag \in 1..Fragments
      /\ Held = {} /\ pc \in {"finish", "keep"}
  BY WrittenComplete DEF Finish, InsertFragment
<1>1. ckFrag' \in {ckFrag, [ckFrag EXCEPT ![frag] = written]} /\ ckBatch' = ckBatch /\ table' = table
  BY DEF Finish, InsertFragment
<1>2. ckFrag' \in [1..Fragments -> Seq(Positions) \cup {None}]
  BY <1>0, <1>1 DEF IInv, TypeOK
<1>3. \A f \in 1..Fragments : ckFrag'[f] \in {Complete(f), None}
  BY <1>0, <1>1, Zenon DEF IInv, TypeOK, StoreInv
<1>4. StoreInv' /\ ColumnsRight'
  BY <1>1, <1>3 DEF IInv, StoreInv, ColumnsRight
<1>5. CASE InsertFragment /\ Leave({})
  <2>1. ckBatch' \in [Positions -> Positions \cup {None}]
        /\ table' \in Seq(Seq(Positions)) \cup {None}
    BY <1>1 DEF IInv, TypeOK
  <2> QED
    BY <1>0, <1>2, <1>4, <1>5, <2>1, LeaveStep
<1>6. CASE InsertFragment /\ ~ Leave({})
  <2>1. /\ pc' = "fragment" /\ frag' = frag + 1 /\ batch' = 1
        /\ written' = <<>> /\ done' = Append(done, written)
        /\ UNCHANGED <<runs, store, value, refs, ckBatch, table>>
    BY <1>6 DEF InsertFragment
  <2> QED
    BY <1>0, <1>2, <1>4, <2>1, AdvanceStep
<1>7. CASE Finish /\ ~ store
  <2>1. /\ pc' = "fragment" /\ frag' = frag + 1 /\ batch' = 1
        /\ written' = <<>> /\ done' = Append(done, written)
        /\ UNCHANGED <<runs, store, value, refs, ckBatch, table>>
    BY <1>7 DEF Finish
  <2> QED
    BY <1>0, <1>2, <1>4, <2>1, AdvanceStep
<1>8. CASE Finish /\ store
  <2>1. /\ pc = "finish" /\ pc' = "keep"
        /\ UNCHANGED <<frag, batch, written, done, runs, store, value, refs, ckBatch, ckFrag, table>>
    BY <1>8 DEF Finish
  <2>2. TypeOK'
    BY <2>1 DEF IInv, TypeOK
  <2>3. WorkInv' /\ FreshInv' /\ Held' = {}
    BY <2>1 DEF IInv, WorkInv, FreshInv, HasValue, InBatch, Held
  <2>4. \A x \in Refs : refs'[x] = 0
    BY <1>0, <2>1 DEF IInv
  <2> QED
    BY <1>4, <2>2, <2>3, <2>4 DEF IInv
<1> QED
  BY <1>5, <1>6, <1>7, <1>8

\* Commit: every fragment is done, so the columns are complete.
LEMMA CommitStep ==
    ASSUME IInv, Commit
    PROVE  IInv'
<1>1. /\ done \in Seq(Seq(Positions)) /\ Len(done) = Fragments
      /\ \A g \in 1..Fragments : done[g] = Complete(g)
  BY UdfAssumption DEF IInv, TypeOK, WorkInv, Commit
<1>2. done = [f \in 1..Fragments |-> done[f]]
  BY <1>1
<1>3. done = [f \in 1..Fragments |-> Complete(f)]
  BY <1>1, <1>2
<1>4. ckBatch' = ckBatch /\ ckFrag' = ckFrag /\ table' \in {None, done} /\ Leave({}) /\ Held = {}
  BY DEF Commit, Held
<1>5. StoreInv' /\ ColumnsRight'
  BY <1>3, <1>4 DEF IInv, StoreInv, ColumnsRight
<1>6. /\ ckBatch' \in [Positions -> Positions \cup {None}]
      /\ ckFrag' \in [1..Fragments -> Seq(Positions) \cup {None}]
      /\ table' \in Seq(Seq(Positions)) \cup {None}
  BY <1>1, <1>4 DEF IInv, TypeOK
<1> QED
  BY <1>4, <1>5, <1>6, LeaveStep

\* Every step of a run, and every interruption, keeps the invariant.
LEMMA NextInv ==
    IInv /\ [Next]_vars => IInv'
<1> SUFFICES ASSUME IInv, [Next]_vars PROVE IInv'
  OBVIOUS
<1>1. CASE AddColumnsUDF \/ Read
  BY <1>1, MoveStep
<1>2. CASE GetFragment
  BY <1>2, GetFragmentStep
<1>3. CASE GetBatch \/ HandOver \/ Fetch
  BY <1>3, LookupStep
<1>4. CASE Map \/ Import \/ Call \/ Export \/ Take
  BY <1>4, MapperStep
<1>11. CASE InsertBatch \/ Receive
  BY <1>11, InsertStep
<1>12. CASE Save
  BY <1>12, SaveStep
<1>5. CASE Update
  BY <1>5, UpdateStep
<1>6. CASE Finish \/ InsertFragment
  BY <1>6, FragmentStep
<1>7. CASE Commit
  BY <1>7, CommitStep
<1>8. CASE Cancel
  <2>1. Fail({}) /\ Held \subseteq {"in_arr", "out_arr", "result"}
    BY <1>8 DEF Cancel, Held
  <2> QED
    BY <2>1, FailStep
<1>9. CASE Crash
  <2>1. Fail(Refs) /\ Held \subseteq Refs
    BY <1>9 DEF Crash, Fail, Held, Refs
  <2> QED
    BY <2>1, FailStep
<1>10. CASE UNCHANGED vars
  <2>1. TypeOK'
    BY <1>10 DEF IInv, TypeOK, vars
  <2>2. Here' = Here /\ Held' = Held
    BY <1>10 DEF vars, Here, Held
  <2>3. StoreInv' /\ WorkInv' /\ FreshInv' /\ ColumnsRight'
    BY <1>10, <2>2, Zenon DEF IInv, StoreInv, WorkInv, FreshInv, ColumnsRight, vars
  <2> QED
    BY <1>10, <2>1, <2>2, <2>3 DEF IInv, vars
<1> QED
  BY <1>1, <1>2, <1>3, <1>4, <1>5, <1>6, <1>7, <1>8, <1>9, <1>10, <1>11, <1>12
     DEF Next, Step

\* The inductive invariant holds of AddColumnsUDF.
THEOREM Invariant ==
    Spec => []IInv
  BY InitInv, NextInv, PTL DEF Spec

\* The variables of AddColumnsUDF keep their types.
THEOREM TypeCorrect ==
    Spec => []TypeOK
<1>1. IInv => TypeOK
  BY DEF IInv
<1> QED
  BY <1>1, Invariant, PTL

\* The columns that AddColumnsUDF commits are the mapper's values, however often
\* it was interrupted and resumed from the checkpoint store.
THEOREM CommitsMappedValues ==
    Spec => []ColumnsRight
<1>1. IInv => ColumnsRight
  BY DEF IInv
<1> QED
  BY <1>1, Invariant, PTL

\* A resumed AddColumnsUDF calls the mapper only for what the store lacks.
THEOREM ResumesWithoutRecomputing ==
    Spec => []NotRecomputed
<1>1. IInv => NotRecomputed
  BY DEF IInv, FreshInv, NotRecomputed
<1> QED
  BY <1>1, Invariant, PTL

\* AddColumnsUDF leaves no Arrow batch behind, however it ends.
THEOREM BatchesReleased ==
    Spec => []RefsReleased
<1>1. IInv => RefsReleased
  <2> SUFFICES ASSUME IInv, pc = "idle" PROVE refs = NoRefs
    BY DEF RefsReleased
  <2>1. refs \in [Refs -> {0, 1}] /\ \A x \in Refs : refs[x] = 0
    BY DEF IInv, TypeOK, Held
  <2> QED
    BY <2>1 DEF NoRefs
<1> QED
  BY <1>1, Invariant, PTL

-----------------------------------------------------------------------------
(* The checkpoint store and the table implement Checkpoint.                *)

\* The steps that only a run with a store takes.
StoreSteps == {"lookup", "hand", "fetch", "insert", "receive", "save", "keep"}

\* With a store, the batches of the fragment that are behind the run are saved and
\* the one it computes is not; and a run works only towards columns that are not
\* committed yet.
SavedInv ==
    /\ pc # "idle" => table = None
    /\ pc \in StoreSteps => store
    /\ store =>
         /\ pc \in {"export", "take", "insert", "receive", "save"} => ckBatch[Here] = None
         /\ pc \in {"hand", "fetch", "update"} => ckBatch[Here] # None
         /\ pc \notin {"idle", "fragment"} =>
               \A b \in 1..(batch - 1) : ckBatch[<<frag, b>>] # None

\* A run that has ended has nothing left to save.
LEMMA IdleSaved ==
    ASSUME pc' = "idle"
    PROVE  SavedInv'
  BY DEF SavedInv, StoreSteps

\* Steps within a batch that leave the store alone.
LEMMA StageSaved ==
    ASSUME SavedInv, UNCHANGED <<store, frag, batch, ckBatch, table>>,
           pc # "idle", pc \notin {"idle", "fragment"} \/ batch = 1,
           pc' \in StoreSteps => store,
           pc' \in {"export", "take", "insert", "receive", "save"} /\ store => ckBatch[Here] = None,
           pc' \in {"hand", "fetch", "update"} /\ store => ckBatch[Here] # None
    PROVE  SavedInv'
<1>1. Here' = Here
  BY Zenon DEF Here
<1>2. CASE batch = 1
  <2>1. 1..(batch' - 1) = {}
    BY <1>2
  <2> QED
    BY <1>1, <2>1 DEF SavedInv
<1>3. CASE pc \notin {"idle", "fragment"}
  BY <1>1, <1>3 DEF SavedInv
<1> QED
  BY <1>2, <1>3

\* Every step keeps what is saved in line with where the run is.
LEMMA SavedStep ==
    ASSUME IInv, SavedInv, [Next]_vars
    PROVE  SavedInv'
<1>t. /\ pc = "fragment" => batch = 1
      /\ pc \in InBatch => frag \in 1..Fragments /\ batch \in 1..Batches /\ Here \in Positions
      /\ None \notin Positions /\ ckBatch \in [Positions -> Positions \cup {None}]
      /\ batch \in Nat /\ Batches \in Nat
  BY UdfAssumption, HereIn DEF IInv, TypeOK, WorkInv, HasValue, InBatch
<1>1. CASE pc' = "idle"
  BY <1>1, IdleSaved
<1>2. CASE AddColumnsUDF
  BY <1>2 DEF AddColumnsUDF, SavedInv, StoreSteps
<1>3. CASE GetFragment /\ pc' # "idle"
  <2>1. /\ pc = "fragment" /\ pc' \in {"fragment", "read"}
        /\ UNCHANGED <<store, batch, ckBatch, table>> /\ (pc' = "read" => frag' = frag)
    BY <1>3 DEF GetFragment, Fail, Leave
  <2>2. CASE pc' = "fragment"
    BY <2>1, <2>2 DEF SavedInv, StoreSteps
  <2>3. CASE pc' = "read"
    BY <1>t, <2>1, <2>3, StageSaved DEF StoreSteps
  <2> QED
    BY <2>1, <2>2, <2>3
<1>4. CASE Read \/ Map \/ (Import /\ pc' # "idle")
  <2>1. /\ pc \in {"read", "map", "import"} /\ pc' \in {"finish", "lookup", "map", "import", "call"}
        /\ UNCHANGED <<store, frag, batch, ckBatch, table>>
        /\ pc' = "lookup" => store
    BY <1>4 DEF Read, Map, Import, Fail, Leave
  <2> QED
    BY <2>1, StageSaved DEF StoreSteps
<1>5. CASE (GetBatch \/ HandOver \/ Fetch) /\ pc' # "idle"
  <2>1. /\ pc \in {"lookup", "hand", "fetch"} /\ UNCHANGED <<store, frag, batch, ckBatch, table>>
        /\ \/ pc = "lookup" /\ pc' = "hand" /\ ckBatch[Here] # None
           \/ pc = "lookup" /\ pc' = "map"
           \/ pc \in {"hand", "fetch"} /\ pc' \in {"fetch", "update"}
    BY <1>5 DEF GetBatch, HandOver, Fetch, ImportOut, Fail, Leave
  <2>2. store /\ (pc \in {"hand", "fetch"} => ckBatch[Here] # None)
    BY <2>1 DEF SavedInv, StoreSteps
  <2> QED
    BY <2>1, <2>2, StageSaved
<1>6. CASE Call /\ pc' # "idle"
  <2>1. /\ pc = "call" /\ pc' = "export" /\ UNCHANGED <<store, frag, batch, ckBatch, table>>
    BY <1>6 DEF Call, Fail, Leave
  <2>2. store => ckBatch[Here] = None
    BY <2>1 DEF IInv, FreshInv
  <2> QED
    BY <2>1, <2>2, StageSaved DEF StoreSteps
<1>7. CASE (Export \/ Take \/ InsertBatch \/ Receive) /\ pc' # "idle"
  <2>1. /\ pc \in {"export", "take", "insert", "receive"}
        /\ UNCHANGED <<store, frag, batch, ckBatch, table>>
        /\ \/ pc' = "take"
           \/ pc' \in {"insert", "receive", "save"} /\ (store \/ pc \in {"insert", "receive"})
           \/ pc' = "update" /\ ~ store
    BY <1>7 DEF Export, Take, ImportOut, InsertBatch, Receive, Fail, Leave
  <2>2. (store => ckBatch[Here] = None) /\ (pc \in {"insert", "receive"} => store)
    BY <2>1 DEF SavedInv, StoreSteps
  <2> QED
    BY <2>1, <2>2, StageSaved DEF StoreSteps
<1>8. CASE Save /\ pc' # "idle"
  <2>1. /\ pc = "save" /\ pc' = "update" /\ UNCHANGED <<store, frag, batch, table>>
        /\ ckBatch' = [ckBatch EXCEPT ![Here] = value]
    BY <1>8, Zenon DEF Save, Leave
  <2>2. Here' = Here /\ value = Here /\ Here \in Positions
    BY <1>t, <2>1 DEF Here, IInv, WorkInv, HasValue, InBatch
  <2>3. ckBatch'[Here] # None
    BY <1>t, <2>1, <2>2
  <2>4. ASSUME store, NEW b \in 1..(batch - 1) PROVE ckBatch'[<<frag, b>>] # None
    <3>1. <<frag, b>> \in Positions
      BY <1>t, <2>1 DEF Positions, HasValue, InBatch
    <3>2. ckBatch[<<frag, b>>] # None
      BY <2>1, <2>4 DEF SavedInv
    <3> QED
      BY <1>t, <2>1, <2>2, <3>1, <3>2
  <2> QED
    BY <2>1, <2>2, <2>3, <2>4 DEF SavedInv, StoreSteps
<1>9. CASE Update
  <2>1. /\ pc = "update" /\ pc' = "read" /\ batch' = batch + 1
        /\ UNCHANGED <<store, frag, ckBatch, table>>
    BY <1>9 DEF Update
  <2>2. ASSUME store, NEW b \in 1..batch PROVE ckBatch[<<frag, b>>] # None
    <3>1. CASE b = batch
      BY <2>1, <2>2, <3>1 DEF SavedInv, Here
    <3>2. CASE b # batch
      <4>1. b \in 1..(batch - 1)
        BY <1>t, <3>2
      <4> QED
        BY <2>1, <2>2, <4>1 DEF SavedInv
    <3> QED
      BY <3>1, <3>2
  <2>3. batch' - 1 = batch
    BY <1>t, <2>1
  <2> QED
    BY <2>1, <2>2, <2>3 DEF SavedInv, StoreSteps
<1>10. CASE (Finish \/ InsertFragment) /\ pc' # "idle"
  <2>1. CASE pc' = "fragment"
    <3>1. table' = table /\ pc # "idle"
      BY <1>10, <2>1 DEF Finish, InsertFragment, Leave
    <3> QED
      BY <2>1, <3>1 DEF SavedInv, StoreSteps
  <2>2. CASE pc' # "fragment"
    <3>1. pc = "finish" /\ pc' = "keep" /\ store /\ UNCHANGED <<store, frag, batch, ckBatch, table>>
      BY <1>10, <2>2 DEF Finish, InsertFragment, Leave
    <3> QED
      BY <3>1, StageSaved DEF StoreSteps
  <2> QED
    BY <2>1, <2>2
<1>11. CASE Commit \/ Cancel \/ Crash
  BY <1>1, <1>11 DEF Commit, Cancel, Crash, Fail, Leave
<1>12. CASE UNCHANGED vars
  BY <1>12 DEF vars, SavedInv, Here
<1> QED
  BY <1>1, <1>2, <1>3, <1>4, <1>5, <1>6, <1>7, <1>8, <1>9, <1>10, <1>11, <1>12 DEF Next, Step

\* What is saved is in line with where the run is, throughout.
LEMMA SavedInductive ==
    Spec => []SavedInv
<1>1. Init => SavedInv
  BY DEF Init, SavedInv, StoreSteps
<1>2. IInv /\ SavedInv /\ [Next]_vars => SavedInv'
  BY SavedStep
<1> QED
  BY <1>1, <1>2, Invariant, PTL DEF Spec

\* The value of a batch, and the row of a fragment, as Checkpoint names them.
LEMMA PromisedRow ==
    ASSUME NEW f \in 1..Fragments
    PROVE  /\ Promise!Row(f) = Complete(f)
           /\ \A b \in 1..Batches : [p \in Positions |-> Mapped(p[1], p[2])][<<f, b>>] = <<f, b>>
<1>1. \A b \in 1..Batches : [p \in Positions |-> Mapped(p[1], p[2])][<<f, b>>] = Mapped(f, b)
  BY DEF Positions
<1> QED
  BY <1>1 DEF Promise!Row, Complete, Mapped

\* insert_batch adds a batch that the store does not have, or changes nothing.
LEMMA SaveMaps ==
    ASSUME IInv, SavedInv, Save
    PROVE  [Promise!Next]_<<ckBatch, ckFrag, table>>
<1>0. /\ pc = "save" /\ store /\ frag \in 1..Fragments /\ batch \in 1..Batches
      /\ value = <<frag, batch>> /\ table = None /\ ckFrag[frag] = None
  <2>1. pc = "save"
    BY DEF Save
  <2>2. store
    BY <2>1 DEF SavedInv, StoreSteps
  <2> QED
    BY <2>1, <2>2, UdfAssumption DEF IInv, TypeOK, WorkInv, HasValue, InBatch, SavedInv, FreshInv, Here
<1>1. ckBatch[<<frag, batch>>] = None
  BY <1>0 DEF SavedInv, Here
<1>2. ckBatch' \in {ckBatch, [ckBatch EXCEPT ![<<frag, batch>>] = value]}
      /\ ckFrag' = ckFrag /\ table' = table
  BY DEF Save, Here
<1>3. CASE ckBatch' = ckBatch
  BY <1>2, <1>3
<1>4. CASE ckBatch' = [ckBatch EXCEPT ![<<frag, batch>>] = value]
  <2>1. Promise!Save(frag, batch)
    BY <1>0, <1>1, <1>2, <1>4, PromisedRow, Zenon DEF Promise!Save
  <2> QED
    BY <1>0, <2>1 DEF Promise!Next
<1> QED
  BY <1>2, <1>3, <1>4

\* insert_fragment adds a fragment that the store does not have and all of whose
\* batches it has, or changes nothing.
LEMMA InsertFragmentMaps ==
    ASSUME IInv, SavedInv, InsertFragment
    PROVE  [Promise!Next]_<<ckBatch, ckFrag, table>>
<1>0. /\ pc = "keep" /\ store /\ frag \in 1..Fragments /\ batch = Batches + 1
      /\ written = Complete(frag) /\ table = None /\ ckFrag[frag] = None
  <2>1. pc = "keep"
    BY DEF InsertFragment
  <2>2. store
    BY <2>1 DEF SavedInv, StoreSteps
  <2> QED
    BY <2>1, <2>2, WrittenComplete DEF IInv, WorkInv, SavedInv, FreshInv
<1>1. \A b \in 1..Batches : ckBatch[<<frag, b>>] # None
  <2>1. batch - 1 = Batches
    BY <1>0, UdfAssumption
  <2> QED
    BY <1>0, <2>1 DEF SavedInv
<1>2. ckFrag' \in {ckFrag, [ckFrag EXCEPT ![frag] = written]}
      /\ ckBatch' = ckBatch /\ table' = table
  BY DEF InsertFragment
<1>3. CASE ckFrag' = ckFrag
  BY <1>2, <1>3
<1>4. CASE ckFrag' = [ckFrag EXCEPT ![frag] = written]
  <2>1. Promise!Keep(frag)
    BY <1>0, <1>1, <1>2, <1>4, PromisedRow, Zenon DEF Promise!Keep
  <2> QED
    BY <1>0, <2>1 DEF Promise!Next
<1> QED
  BY <1>2, <1>3, <1>4

\* The commit writes all rows at once, or fails.
LEMMA CommitMaps ==
    ASSUME IInv, SavedInv, Commit
    PROVE  [Promise!Next]_<<ckBatch, ckFrag, table>>
<1>1. /\ table = None /\ table' \in {None, done} /\ ckBatch' = ckBatch /\ ckFrag' = ckFrag
  BY Zenon DEF Commit, SavedInv
<1>2. CASE table' = None
  BY <1>1, <1>2
<1>3. CASE table' # None
  <2>1. ColumnsRight'
    BY CommitStep DEF IInv
  <2>2. table' = [f \in 1..Fragments |-> Complete(f)]
    BY <1>3, <2>1 DEF ColumnsRight, Complete, Mapped
  <2>3. [f \in 1..Fragments |-> Promise!Row(f)] = [f \in 1..Fragments |-> Complete(f)]
    BY PromisedRow
  <2>4. Promise!Commit
    BY <1>1, <2>2, <2>3 DEF Promise!Commit
  <2> QED
    BY <2>4 DEF Promise!Next
<1> QED
  BY <1>2, <1>3

\* Every other step leaves the store and the table alone.
LEMMA StepMaps ==
    ASSUME IInv, SavedInv, [Next]_vars
    PROVE  [Promise!Next]_<<ckBatch, ckFrag, table>>
<1>1. CASE Save \/ InsertFragment \/ Commit
  BY <1>1, SaveMaps, InsertFragmentMaps, CommitMaps
<1>2. CASE ~(Save \/ InsertFragment \/ Commit)
  <2>1. UNCHANGED <<ckBatch, ckFrag, table>>
    BY <1>2, Zenon DEF Next, Step, vars, AddColumnsUDF, GetFragment, Read, GetBatch, HandOver,
       Fetch, ImportOut, Map, Import, Call, Export, Take, InsertBatch, Receive, Update, Finish,
       Cancel, Crash, Fail
  <2> QED
    BY <2>1
<1> QED
  BY <1>1, <1>2

\* The checkpoint store and the table behave as Checkpoint promises, across all
\* failures, cancellations, crashes and resumed runs.
THEOREM RunKeepsCheckpoint ==
    Spec => ImplementsCheckpoint
<1>1. Init => Promise!Init
  BY DEF Init, Promise!Init, Positions
<1>2. IInv /\ SavedInv /\ [Next]_vars => [Promise!Next]_<<ckBatch, ckFrag, table>>
  BY StepMaps
<1> QED
  BY <1>1, <1>2, Invariant, SavedInductive, PTL
     DEF Spec, ImplementsCheckpoint, Promise!Spec, Promise!vars
=============================================================================
