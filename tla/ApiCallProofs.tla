--------------------------- MODULE ApiCallProofs ---------------------------
(***************************************************************************)
(* The safety properties of ApiCall, for any number of concurrent calls of *)
(* any methods whose description is in Shapes: the table of Methods may    *)
(* grow without a new proof.                                               *)
(*                                                                         *)
(* The inductive invariant says, for each step of a call, which of its     *)
(* lock, handle, scanner, plugin and exported structs it has.              *)
(***************************************************************************)
EXTENDS ApiCall, TLAPS

\* A call owns its handle's lock, and the handle is open, from checkOpen to the
\* end of the native call.
Locked(c) ==
    /\ pc[c] \in {"idle", "args", "lock"} => ~holds[c]
    /\ pc[c] \in {"prepare", "ffi", "native"} /\ m[c].on \in Handles
       => holds[c] /\ open[m[c].on]

\* Results and native objects exist in the steps that expect them, and nothing
\* but what was handed out outlives the call.
Owned(c) ==
    /\ pc[c] # "idle" => use[c] \in m[c].with
    /\ pc[c] \in {"second", "ffi2", "native2"} => temp[c] /\ m[c].temp # "none"
    /\ outs[c] # {} => pc[c] = "collect"
    /\ given[c] # {} => pc[c] \in {"return", "done"} /\ res[c] = "ok"
    /\ pc[c] = "done" => ~holds[c] /\ mem[c] = {} /\ ~temp[c] /\ plug[c] # "registered"
    /\ pc[c] = "done" /\ plug[c] = "leased" => given[c] # {}
    /\ res[c] \in {"ok", "refused", "closed", "ctx", "rejected"} => pc[c] \in {"return", "done"}
    /\ res[c] = "failed" => pc[c] \in {"collect", "return", "done"}

\* Where the registration of a plugin is.
Plugged(c) ==
    "plugin" \in use[c] =>
        /\ pc[c] \in {"lock", "prepare"} /\ m[c].plugin = "scoped" => plug[c] = "registered"
        /\ pc[c] \in {"ffi", "native"} /\ m[c].temp # "unwrapped" => plug[c] = "registered"
        /\ pc[c] = "second" /\ m[c].temp = "scanner" => plug[c] = "leased"
        /\ pc[c] \in {"ffi2", "native2"} => plug[c] \in {"registered", "leased"}
        /\ pc[c] = "collect" /\ res[c] # "failed" /\ m[c].plugin = "leased" => plug[c] = "leased"
        /\ given[c] # {} /\ m[c].plugin = "leased" => plug[c] = "leased"

\* Where the exported structs are.
Exported(c) ==
    /\ pc[c] \in {"idle", "args", "lock", "prepare"} => arrow[c] = "none"
    /\ res[c] \in {"refused", "closed", "ctx"} => arrow[c] = "none"
    /\ arrow[c] = "exported" => pc[c] = "ffi" \/ (pc[c] \in {"return", "done"} /\ res[c] = "rejected")
    /\ arrow[c] = "imported" => pc[c] = "native"

\* The lock of a fragment has one holder.
OneHolder ==
    \A c, d \in Calls :
        holds[c] /\ holds[d] /\ m[c].on = "fragment" /\ m[d].on = "fragment" => c = d

CallInv(c) == Locked(c) /\ Owned(c) /\ Plugged(c) /\ Exported(c)

IInv == TypeOK /\ OneHolder /\ \A c \in Calls : CallInv(c)

-----------------------------------------------------------------------------
\* The fields of a method's description, and who may own a plugin.
LEMMA ShapeFields ==
    ASSUME NEW s \in Shapes
    PROVE  /\ s.on \in Handles \cup {"none"}
           /\ s.ctx \in BOOLEAN
           /\ s.refuse \in SUBSET Places
           /\ s.args \in SUBSET Places
           /\ s.with \in SUBSET (SUBSET {"arrow", "plugin"})
           /\ s.plugin \in {"none", "scoped", "leased"}
           /\ s.outs \in SUBSET Outs
           /\ s.temp \in {"none", "scanner", "unwrapped"}
           /\ s.plugin = "leased" => s.temp # "none" \/ "handle" \in s.outs
           /\ s.plugin = "scoped" => s.temp = "none"
           /\ s.plugin = "none" => \A w \in s.with : "plugin" \notin w
           /\ s.temp = "unwrapped" => s.plugin = "leased" /\ s.on = "none"
BY DEF Shapes

\* The shape of most methods, which Init uses too.
LEMMA DatasetDoShape == DatasetDo \in Shapes
BY DEF DatasetDo, Shapes, Handles

\* The initial states satisfy the invariant.
LEMMA InitInv == Init => IInv
<1> SUFFICES ASSUME Init PROVE IInv
    OBVIOUS
<1>1. TypeOK
    BY DatasetDoShape DEF Init, TypeOK, Steps, Results
<1>2. OneHolder
    BY DEF Init, OneHolder
<1>3. \A c \in Calls : CallInv(c)
    BY DEF Init, CallInv, Locked, Owned, Plugged, Exported
<1> QED BY <1>1, <1>2, <1>3 DEF IInv

-----------------------------------------------------------------------------
\* A step of call c leaves every other call as it is.
Only(c) ==
    \A d \in Calls \ {c} :
        /\ pc'[d] = pc[d] /\ m'[d] = m[d] /\ use'[d] = use[d] /\ holds'[d] = holds[d]
        /\ mem'[d] = mem[d] /\ arrow'[d] = arrow[d] /\ plug'[d] = plug[d] /\ temp'[d] = temp[d]
        /\ outs'[d] = outs[d] /\ given'[d] = given[d] /\ res'[d] = res[d]

\* The lock of c's handle is kept, given up, or taken while it is free.
LockKept(c) ==
    holds'[c] => \/ holds[c] /\ m'[c] = m[c]
                 \/ m'[c] = m[c] /\ LockFree(c)

\* The invariant after a step of c follows from what the step does to c.
LEMMA Others ==
    ASSUME IInv, NEW c \in Calls, TypeOK', Only(c), open' = open, LockKept(c), CallInv(c)'
    PROVE  IInv'
<1>1. OneHolder'
    BY DEF IInv, OneHolder, Only, LockKept, LockFree, TypeOK
<1>2. ASSUME NEW d \in Calls \ {c} PROVE CallInv(d)'
    <2>1. CallInv(d)
        BY <1>2 DEF IInv
    <2>2. Locked(d)'
        BY Zenon, <2>1, <1>2 DEF Only, CallInv, Locked
    <2>3. Owned(d)'
        BY Zenon, <2>1, <1>2 DEF Only, CallInv, Owned
    <2>4. Plugged(d)'
        BY Zenon, <2>1, <1>2 DEF Only, CallInv, Plugged
    <2>5. Exported(d)'
        BY <2>1, <1>2 DEF Only, CallInv, Exported
    <2> QED BY <2>2, <2>3, <2>4, <2>5 DEF CallInv
<1> QED BY Zenon, <1>1, <1>2 DEF IInv

\* A call that begins has nothing yet.
LEMMA BeginStep == ASSUME IInv, NEW c \in Calls, Begin(c) PROVE IInv'
<1> USE DEF Begin, api, Goto
<1>1. TypeOK /\ CallInv(c) /\ m[c] \in Shapes
    BY Zenon DEF IInv, TypeOK
<1>2. TypeOK'
    <2>1. pc' \in [Calls -> Steps]
        BY <1>1 DEF TypeOK, Steps
    <2>2. m' \in [Calls -> Shapes]
        BY <1>1, MayCallAssumption DEF TypeOK
    <2>3. use' \in [Calls -> SUBSET {"arrow", "plugin"}]
        BY <1>1, ShapeFields, MayCallAssumption DEF TypeOK
    <2>4. nested' \in [Calls -> BOOLEAN]
        BY Zenon, <1>1 DEF TypeOK
    <2> QED BY Zenon, <1>1, <2>1, <2>2, <2>3, <2>4 DEF TypeOK
<1>3. Only(c) /\ open' = open
    BY Zenon, <1>1 DEF Only, TypeOK
<1>4. LockKept(c)
    BY Zenon, <1>1 DEF LockKept, TypeOK, CallInv, Locked
<1>6. CallInv(c)'
    <2>1. Locked(c)'
        BY Zenon, <1>1 DEF TypeOK, CallInv, Locked
    <2>2. Owned(c)'
        BY Zenon, <1>1 DEF TypeOK, CallInv, Owned
    <2>3. Plugged(c)'
        BY Zenon, <1>1 DEF TypeOK, CallInv, Plugged, Owned
    <2>4. Exported(c)'
        BY Zenon, <1>1 DEF TypeOK, CallInv, Exported, Owned
    <2> QED BY Zenon, <2>1, <2>2, <2>3, <2>4 DEF CallInv
<1> QED BY Zenon, <1>1, <1>2, <1>3, <1>4, <1>6, Others

\* Argument conversion registers at most a scoped plugin.
LEMMA ArgsStep == ASSUME IInv, NEW c \in Calls, Args(c) PROVE IInv'
<1> USE DEF Args, api, Goto, Fail, MayAlloc, Alloc, Ended, Registers, SetPlug
<1>1. TypeOK /\ CallInv(c) /\ m[c] \in Shapes
    BY Zenon DEF IInv, TypeOK
<1>2. TypeOK'
    <2>1. pc' \in [Calls -> Steps]
        BY <1>1 DEF TypeOK, Steps
    <2>2. res' \in [Calls -> Results]
        BY Zenon, <1>1 DEF TypeOK, Results
    <2>3. mem' \in [Calls -> SUBSET Places]
        BY <1>1, ShapeFields DEF TypeOK
    <2>4. plug' \in [Calls -> {"none", "registered", "leased", "released"}]
        BY <1>1 DEF TypeOK
    <2> QED BY Zenon, <1>1, <2>1, <2>2, <2>3, <2>4 DEF TypeOK
<1>3. Only(c) /\ open' = open
    BY <1>1 DEF Only, TypeOK
<1>4. LockKept(c)
    BY Zenon, <1>1 DEF LockKept, TypeOK, CallInv, Locked
<1>5. /\ m[c].plugin = "scoped" => m[c].temp = "none"
      /\ m[c].plugin = "none" /\ use[c] \in m[c].with => "plugin" \notin use[c]
      /\ m[c].temp = "unwrapped" => m[c].plugin = "leased"
      /\ m[c].plugin \in {"none", "scoped", "leased"}
      /\ m[c].temp \in {"none", "scanner", "unwrapped"}
    BY Zenon, <1>1, ShapeFields
<1>6. CallInv(c)'
    <2>1. Locked(c)'
        BY Zenon, <1>1 DEF TypeOK, CallInv, Locked
    <2>2. Owned(c)'
        BY <1>1 DEF TypeOK, CallInv, Owned
    <2>3. Plugged(c)'
        BY SMTT(20), <1>1, <1>5 DEF TypeOK, CallInv, Plugged, Owned
    <2>4. Exported(c)'
        BY Zenon, <1>1 DEF TypeOK, CallInv, Exported, Owned
    <2> QED BY Zenon, <2>1, <2>2, <2>3, <2>4 DEF CallInv
<1> QED BY Zenon, <1>1, <1>2, <1>3, <1>4, <1>6, Others

\* The lock, and the test that the handle is open.
LEMMA LockStep == ASSUME IInv, NEW c \in Calls, Lock(c) PROVE IInv'
<1> USE DEF Lock, api, Goto, Fail, LockFree, Ended
<1>1. TypeOK /\ CallInv(c) /\ m[c] \in Shapes
    BY Zenon DEF IInv, TypeOK
<1>2. TypeOK'
    <2>1. pc' \in [Calls -> Steps]
        BY <1>1 DEF TypeOK, Steps
    <2>2. res' \in [Calls -> Results]
        BY <1>1 DEF TypeOK, Results
    <2>3. holds' \in [Calls -> BOOLEAN]
        BY <1>1, Zenon DEF TypeOK
    <2> QED BY Zenon, <1>1, <2>1, <2>2, <2>3 DEF TypeOK
<1>3. Only(c) /\ open' = open
    BY <1>1 DEF Only, TypeOK
<1>4. LockKept(c)
    BY Zenon, <1>1 DEF LockKept, TypeOK, CallInv, Locked
<1>6. CallInv(c)'
    <2>1. Locked(c)'
        <3>1. CASE m[c].on = "none"
            BY Zenon, <1>1, <3>1 DEF TypeOK, CallInv, Locked, Handles
        <3>2. CASE m[c].on # "none"
            BY <1>1, <3>2 DEF TypeOK, CallInv, Locked
        <3> QED BY Zenon, <3>1, <3>2
    <2>2. Owned(c)'
        BY SMTT(20), <1>1 DEF TypeOK, CallInv, Owned
    <2>3. Plugged(c)'
        BY SMTT(20), <1>1 DEF TypeOK, CallInv, Plugged, Owned
    <2>4. Exported(c)'
        BY Zenon, <1>1 DEF TypeOK, CallInv, Exported, Owned
    <2> QED BY Zenon, <2>1, <2>2, <2>3, <2>4 DEF CallInv
<1> QED BY Zenon, <1>1, <1>2, <1>3, <1>4, <1>6, Others

\* Structs are exported and leased plugins registered only if nothing is refused.
LEMMA PrepareStep == ASSUME IInv, NEW c \in Calls, Prepare(c) PROVE IInv'
<1> USE DEF Prepare, api, Goto, Fail, MayAlloc, Alloc, Registers, SetPlug
<1>1. TypeOK /\ CallInv(c) /\ m[c] \in Shapes
    BY Zenon DEF IInv, TypeOK
<1>2. TypeOK'
    <2>1. pc' \in [Calls -> Steps]
        BY <1>1 DEF TypeOK, Steps
    <2>2. res' \in [Calls -> Results]
        BY Zenon, <1>1 DEF TypeOK, Results
    <2>3. mem' \in [Calls -> SUBSET Places]
        BY <1>1, ShapeFields DEF TypeOK
    <2>4. plug' \in [Calls -> {"none", "registered", "leased", "released"}]
        BY <1>1 DEF TypeOK
    <2>5. arrow' \in [Calls -> {"none", "exported", "imported", "released"}]
        BY <1>1 DEF TypeOK
    <2> QED BY Zenon, <1>1, <2>1, <2>2, <2>3, <2>4, <2>5 DEF TypeOK
<1>3. Only(c) /\ open' = open
    BY <1>1 DEF Only, TypeOK
<1>4. LockKept(c)
    BY Zenon, <1>1 DEF LockKept, TypeOK, CallInv, Locked
<1>5. /\ m[c].plugin = "scoped" => m[c].temp = "none"
      /\ m[c].plugin = "none" /\ use[c] \in m[c].with => "plugin" \notin use[c]
      /\ m[c].temp = "unwrapped" => m[c].plugin = "leased"
      /\ m[c].plugin \in {"none", "scoped", "leased"}
      /\ m[c].temp \in {"none", "scanner", "unwrapped"}
    BY Zenon, <1>1, ShapeFields
<1>6. CallInv(c)'
    <2>1. Locked(c)'
        BY Zenon, <1>1 DEF TypeOK, CallInv, Locked
    <2>0. /\ pc[c] = "prepare"
          /\ (pc'[c] = "ffi" /\ res'[c] = res[c]) \/ (pc'[c] = "return" /\ res'[c] = "refused")
          /\ m' = m /\ use' = use /\ given' = given /\ outs' = outs
        <3>1. pc[c] = "prepare" /\ m' = m /\ use' = use /\ given' = given /\ outs' = outs
            BY Zenon
        <3>2. CASE Goto(c, "ffi") /\ UNCHANGED res
            BY Zenon, <1>1, <3>1, <3>2 DEF TypeOK
        <3>3. CASE Fail(c, "refused")
            BY Zenon, <1>1, <3>1, <3>3 DEF TypeOK
        <3> QED BY Zenon, <3>2, <3>3
    <2>a. given[c] = {} /\ outs[c] = {} /\ use[c] \in m[c].with
        BY Zenon, <1>1, <2>0 DEF CallInv, Owned
    <2>2. Owned(c)'
        <3> HIDE DEF Prepare
        <3>1. res[c] \notin {"ok", "refused", "closed", "ctx", "rejected", "failed"}
            BY Zenon, <1>1, <2>0 DEF CallInv, Owned
        <3> QED BY Zenon, <2>0, <2>a, <3>1 DEF Owned
    <2>3. Plugged(c)'
        <3>1. pc'[c] = "ffi" => plug'[c] = IF /\ "plugin" \in use[c]
                                             /\ m[c].plugin = "leased"
                                             /\ m[c].temp # "unwrapped"
                                          THEN "registered" ELSE plug[c]
            BY SMTT(20), <1>1 DEF TypeOK
        <3> HIDE DEF Prepare
        <3>2. "plugin" \in use[c] /\ m[c].plugin = "scoped" => plug[c] = "registered"
            BY Zenon, <1>1, <2>0 DEF CallInv, Plugged
        <3> QED BY Zenon, <1>5, <2>0, <2>a, <3>1, <3>2 DEF Plugged
    <2>4. Exported(c)'
        BY SMTT(20), <1>1 DEF TypeOK, CallInv, Exported, Owned
    <2> QED BY Zenon, <2>1, <2>2, <2>3, <2>4 DEF CallInv
<1> QED BY Zenon, <1>1, <1>2, <1>3, <1>4, <1>6, Others

\* ffiCall's early returns take back a leased plugin.
LEMMA RejectStep == ASSUME IInv, NEW c \in Calls, Reject(c) PROVE IInv'
<1> USE DEF Reject, api, Goto, Fail, TakeBackPlugin, SetPlug
<1>1. TypeOK /\ CallInv(c) /\ m[c] \in Shapes
    BY Zenon DEF IInv, TypeOK
<1>2. TypeOK'
    <2>1. pc' \in [Calls -> Steps]
        BY Zenon, <1>1 DEF TypeOK, Steps
    <2>2. res' \in [Calls -> Results]
        BY Zenon, <1>1 DEF TypeOK, Results
    <2>3. plug' \in [Calls -> {"none", "registered", "leased", "released"}]
        BY <1>1 DEF TypeOK
    <2> QED BY Zenon, <1>1, <2>1, <2>2, <2>3 DEF TypeOK
<1>3. Only(c) /\ open' = open
    BY Zenon, <1>1 DEF Only, TypeOK
<1>4. LockKept(c)
    BY Zenon, <1>1 DEF LockKept, TypeOK, CallInv, Locked
<1>6. CallInv(c)'
    <2>1. Locked(c)'
        BY Zenon, <1>1 DEF TypeOK, CallInv, Locked
    <2>2. Owned(c)'
        BY Zenon, <1>1 DEF TypeOK, CallInv, Owned
    <2>3. Plugged(c)'
        <3>1. pc[c] = "ffi" /\ pc'[c] = "return"
            BY Zenon, <1>1 DEF TypeOK
        <3>2. m' = m /\ use' = use /\ given' = given
            BY Zenon
        <3> HIDE DEF Reject
        <3>3. given[c] = {}
            BY Zenon, <1>1, <3>1 DEF CallInv, Owned
        <3> QED BY Zenon, <3>1, <3>2, <3>3 DEF Plugged
    <2>4. Exported(c)'
        BY Zenon, <1>1 DEF TypeOK, CallInv, Exported, Owned
    <2> QED BY Zenon, <2>1, <2>2, <2>3, <2>4 DEF CallInv
<1> QED BY Zenon, <1>1, <1>2, <1>3, <1>4, <1>6, Others

\* The native function owns the structs as soon as it runs.
LEMMA EnterStep == ASSUME IInv, NEW c \in Calls, Enter(c) PROVE IInv'
<1> USE DEF Enter, api, Goto
<1>1. TypeOK /\ CallInv(c) /\ m[c] \in Shapes
    BY Zenon DEF IInv, TypeOK
<1>2. TypeOK'
    <2>1. pc' \in [Calls -> Steps]
        BY Zenon, <1>1 DEF TypeOK, Steps
    <2>2. arrow' \in [Calls -> {"none", "exported", "imported", "released"}]
        BY Zenon, <1>1 DEF TypeOK
    <2> QED BY Zenon, <1>1, <2>1, <2>2 DEF TypeOK
<1>3. Only(c) /\ open' = open
    BY Zenon, <1>1 DEF Only, TypeOK
<1>4. LockKept(c)
    BY Zenon, <1>1 DEF LockKept, TypeOK, CallInv, Locked
<1>6. CallInv(c)'
    <2>1. Locked(c)'
        BY Zenon, <1>1 DEF TypeOK, CallInv, Locked
    <2>2. Owned(c)'
        BY Zenon, <1>1 DEF TypeOK, CallInv, Owned
    <2>3. Plugged(c)'
        BY ZenonT(30), <1>1 DEF TypeOK, CallInv, Plugged, Owned
    <2>4. Exported(c)'
        BY Zenon, <1>1 DEF TypeOK, CallInv, Exported, Owned
    <2> QED BY Zenon, <2>1, <2>2, <2>3, <2>4 DEF CallInv
<1> QED BY Zenon, <1>1, <1>2, <1>3, <1>4, <1>6, Others

\* A failing native function drops the structs.
LEMMA NativeFailsStep == ASSUME IInv, NEW c \in Calls, NativeFails(c) PROVE IInv'
<1> USE DEF NativeFails, api, Goto, TakeBackPlugin, SetPlug, DropArrow
<1>1. TypeOK /\ CallInv(c) /\ m[c] \in Shapes
    BY Zenon DEF IInv, TypeOK
<1>2. TypeOK'
    <2>1. pc' \in [Calls -> Steps]
        BY Zenon, <1>1 DEF TypeOK, Steps
    <2>2. res' \in [Calls -> Results]
        BY Zenon, <1>1 DEF TypeOK, Results
    <2>3. outs' \in [Calls -> SUBSET Outs]
        <3>1. PICK o \in SUBSET (m[c].outs \cap {"bytes"}) : outs' = [outs EXCEPT ![c] = o]
            BY Zenon
        <3>2. o \in SUBSET Outs
            BY Zenon, <1>1, ShapeFields
        <3> HIDE DEF NativeFails
        <3> QED BY <1>1, <3>1, <3>2 DEF TypeOK
    <2>4. plug' \in [Calls -> {"none", "registered", "leased", "released"}]
        BY <1>1 DEF TypeOK
    <2>5. arrow' \in [Calls -> {"none", "exported", "imported", "released"}]
        BY Zenon, <1>1 DEF TypeOK
    <2> QED BY Zenon, <1>1, <2>1, <2>2, <2>3, <2>4, <2>5 DEF TypeOK
<1>3. Only(c) /\ open' = open
    BY SMTT(20), <1>1 DEF Only, TypeOK
<1>4. LockKept(c)
    BY Zenon, <1>1 DEF LockKept, TypeOK, CallInv, Locked
<1>6. CallInv(c)'
    <2>1. Locked(c)'
        BY Zenon, <1>1 DEF TypeOK, CallInv, Locked
    <2>2. Owned(c)'
        BY Zenon, <1>1 DEF TypeOK, CallInv, Owned
    <2>3. Plugged(c)'
        <3>1. pc[c] = "native" /\ pc'[c] = "collect" /\ res'[c] = "failed"
            BY Zenon, <1>1 DEF TypeOK
        <3>2. m' = m /\ use' = use /\ given' = given
            BY Zenon
        <3> HIDE DEF NativeFails
        <3>3. given[c] = {}
            BY Zenon, <1>1, <3>1 DEF CallInv, Owned
        <3> QED BY Zenon, <3>1, <3>2, <3>3 DEF Plugged
    <2>4. Exported(c)'
        BY ZenonT(30), <1>1 DEF TypeOK, CallInv, Exported, Owned
    <2> QED BY Zenon, <2>1, <2>2, <2>3, <2>4 DEF CallInv
<1> QED BY Zenon, <1>1, <1>2, <1>3, <1>4, <1>6, Others

\* The native object takes over a leased plugin.
LEMMA NativeReturnsStep == ASSUME IInv, NEW c \in Calls, NativeReturns(c) PROVE IInv'
<1> USE DEF NativeReturns, api, Goto, DropArrow, SetPlug
<1>1. TypeOK /\ CallInv(c) /\ m[c] \in Shapes
    BY Zenon DEF IInv, TypeOK
<1>2. TypeOK'
    <2>1. pc' \in [Calls -> Steps]
        BY <1>1 DEF TypeOK, Steps
    <2>2. temp' \in [Calls -> BOOLEAN]
        BY <1>1, ZenonT(30) DEF TypeOK
    <2>3. outs' \in [Calls -> SUBSET Outs]
        BY SMTT(20), <1>1, ShapeFields DEF TypeOK
    <2>4. plug' \in [Calls -> {"none", "registered", "leased", "released"}]
        BY SMTT(20), <1>1 DEF TypeOK
    <2>5. arrow' \in [Calls -> {"none", "exported", "imported", "released"}]
        BY Zenon, <1>1 DEF TypeOK
    <2> QED BY Zenon, <1>1, <2>1, <2>2, <2>3, <2>4, <2>5 DEF TypeOK
<1>3. Only(c) /\ open' = open
    BY SMTT(20), <1>1 DEF Only, TypeOK
<1>4. LockKept(c)
    BY Zenon, <1>1 DEF LockKept, TypeOK, CallInv, Locked
<1>5. /\ m[c].plugin = "scoped" => m[c].temp = "none"
      /\ m[c].plugin = "none" /\ use[c] \in m[c].with => "plugin" \notin use[c]
      /\ m[c].temp = "unwrapped" => m[c].plugin = "leased"
      /\ m[c].plugin \in {"none", "scoped", "leased"}
      /\ m[c].temp \in {"none", "scanner", "unwrapped"}
    BY Zenon, <1>1, ShapeFields
<1>6. CallInv(c)'
    <2>1. Locked(c)'
        BY SMTT(20), <1>1 DEF TypeOK, CallInv, Locked
    <2>2. Owned(c)'
        BY <1>1 DEF TypeOK, CallInv, Owned
    <2>3. Plugged(c)'
        <3>1. /\ pc[c] = "native"
              /\ pc'[c] = IF m[c].temp = "none" THEN "collect" ELSE "second"
            BY Zenon, <1>1 DEF TypeOK
        <3>2. plug'[c] = IF plug[c] = "registered" /\ m[c].plugin = "leased"
                         THEN "leased" ELSE plug[c]
            BY <1>1 DEF TypeOK
        <3>3. m' = m /\ use' = use /\ given' = given /\ res' = res
            BY Zenon
        <3>4. given[c] = {} /\ use[c] \in m[c].with
            BY Zenon, <1>1, <3>1 DEF CallInv, Owned
        <3> HIDE DEF NativeReturns
        <3>5. "plugin" \in use[c] /\ m[c].temp # "unwrapped" => plug[c] = "registered"
            BY Zenon, <1>1, <3>1 DEF CallInv, Plugged
        <3> QED BY <1>5, <3>1, <3>2, <3>3, <3>4, <3>5, ZenonT(30) DEF Plugged
    <2>4. Exported(c)'
        BY <1>1 DEF TypeOK, CallInv, Exported, Owned
    <2> QED BY Zenon, <2>1, <2>2, <2>3, <2>4 DEF CallInv
<1> QED BY <1>1, <1>2, <1>3, <1>4, <1>6, Others, Zenon

\* newNative lets go of the lock; wrapObjectStoreCache registers.
LEMMA SecondStep == ASSUME IInv, NEW c \in Calls, Second(c) PROVE IInv'
<1> USE DEF Second, api, Goto, Registers, SetPlug
<1>1. TypeOK /\ CallInv(c) /\ m[c] \in Shapes
    BY Zenon DEF IInv, TypeOK
<1>2. TypeOK'
    <2>1. pc' \in [Calls -> Steps]
        BY <1>1 DEF TypeOK, Steps
    <2>2. holds' \in [Calls -> BOOLEAN]
        BY <1>1, Zenon DEF TypeOK
    <2>3. mem' \in [Calls -> SUBSET Places]
        BY Zenon, <1>1 DEF TypeOK
    <2>4. plug' \in [Calls -> {"none", "registered", "leased", "released"}]
        BY Zenon, <1>1 DEF TypeOK
    <2> QED BY Zenon, <1>1, <2>1, <2>2, <2>3, <2>4 DEF TypeOK
<1>3. Only(c) /\ open' = open
    BY Zenon, <1>1 DEF Only, TypeOK
<1>4. LockKept(c)
    BY Zenon, <1>1 DEF LockKept, TypeOK, CallInv, Locked
<1>5. /\ m[c].plugin = "scoped" => m[c].temp = "none"
      /\ m[c].plugin = "none" /\ use[c] \in m[c].with => "plugin" \notin use[c]
      /\ m[c].temp = "unwrapped" => m[c].plugin = "leased"
      /\ m[c].plugin \in {"none", "scoped", "leased"}
      /\ m[c].temp \in {"none", "scanner", "unwrapped"}
    BY Zenon, <1>1, ShapeFields
<1>6. CallInv(c)'
    <2>1. Locked(c)'
        BY <1>1 DEF TypeOK, CallInv, Locked
    <2>2. Owned(c)'
        BY <1>1, Zenon DEF TypeOK, CallInv, Owned
    <2>3. Plugged(c)'
        <3>1. pc[c] = "second" /\ pc'[c] = "ffi2"
            BY Zenon, <1>1 DEF TypeOK
        <3>2. m' = m /\ use' = use /\ given' = given
            BY Zenon
        <3>3. plug'[c] = IF m[c].temp # "scanner" /\ "plugin" \in use[c] /\ m[c].plugin = "leased"
                         THEN "registered" ELSE plug[c]
            BY Zenon, <1>1 DEF TypeOK
        <3> HIDE DEF Second
        <3>4. given[c] = {} /\ m[c].temp # "none"
            BY Zenon, <1>1, <3>1 DEF CallInv, Owned
        <3>5. "plugin" \in use[c] /\ m[c].temp = "scanner" => plug[c] = "leased"
            BY <1>1, <3>1 DEF CallInv, Plugged
        <3> QED BY <1>5, <3>1, <3>2, <3>3, <3>4, <3>5, Zenon DEF Plugged
    <2>4. Exported(c)'
        BY <1>1, ZenonT(30) DEF TypeOK, CallInv, Exported, Owned
    <2> QED BY Zenon, <2>1, <2>2, <2>3, <2>4 DEF CallInv
<1> QED BY <1>1, <1>2, <1>3, <1>4, <1>6, Others

\* A plugin that was not taken over is released.
LEMMA SecondFailsStep == ASSUME IInv, NEW c \in Calls, SecondFails(c) PROVE IInv'
<1> USE DEF SecondFails, api, Goto, Fail, SetPlug
<1>1. TypeOK /\ CallInv(c) /\ m[c] \in Shapes
    BY Zenon DEF IInv, TypeOK
<1>2. TypeOK'
    <2>1. pc' \in [Calls -> Steps]
        BY Zenon, <1>1 DEF TypeOK, Steps
    <2>2. res' \in [Calls -> Results]
        BY Zenon, <1>1 DEF TypeOK, Results
    <2>3. plug' \in [Calls -> {"none", "registered", "leased", "released"}]
        BY <1>1 DEF TypeOK
    <2> QED BY Zenon, <1>1, <2>1, <2>2, <2>3 DEF TypeOK
<1>3. Only(c) /\ open' = open
    BY Zenon, <1>1 DEF Only, TypeOK
<1>4. LockKept(c)
    BY Zenon, <1>1 DEF LockKept, TypeOK, CallInv, Locked
<1>6. CallInv(c)'
    <2>1. Locked(c)'
        BY <1>1 DEF TypeOK, CallInv, Locked
    <2>2. Owned(c)'
        BY <1>1, Zenon DEF TypeOK, CallInv, Owned
    <2>3. Plugged(c)'
        BY <1>1, Zenon DEF TypeOK, CallInv, Plugged, Owned
    <2>4. Exported(c)'
        BY <1>1, Zenon DEF TypeOK, CallInv, Exported, Owned
    <2> QED BY Zenon, <2>1, <2>2, <2>3, <2>4 DEF CallInv
<1> QED BY Zenon, <1>1, <1>2, <1>3, <1>4, <1>6, Others

\* The second native call starts.
LEMMA Enter2Step == ASSUME IInv, NEW c \in Calls, Enter2(c) PROVE IInv'
<1> USE DEF Enter2, api, Goto
<1>1. TypeOK /\ CallInv(c) /\ m[c] \in Shapes
    BY DEF IInv, TypeOK
<1>2. TypeOK'
    <2>1. pc' \in [Calls -> Steps]
        BY Zenon, <1>1 DEF TypeOK, Steps
    <2> QED BY <1>1, <2>1, Zenon DEF TypeOK
<1>3. Only(c) /\ open' = open
    BY Zenon, <1>1 DEF Only, TypeOK
<1>4. LockKept(c)
    BY Zenon, <1>1 DEF LockKept, TypeOK, CallInv, Locked
<1>6. CallInv(c)'
    <2>1. Locked(c)'
        BY <1>1 DEF TypeOK, CallInv, Locked
    <2>2. Owned(c)'
        BY <1>1, Zenon DEF TypeOK, CallInv, Owned
    <2>3. Plugged(c)'
        BY <1>1, Zenon DEF TypeOK, CallInv, Plugged, Owned
    <2>4. Exported(c)'
        BY <1>1, ZenonT(30) DEF TypeOK, CallInv, Exported, Owned
    <2> QED BY Zenon, <2>1, <2>2, <2>3, <2>4 DEF CallInv
<1> QED BY Zenon, <1>1, <1>2, <1>3, <1>4, <1>6, Others

\* The wrapped dataset takes over the plugin.
LEMMA Native2ReturnsStep == ASSUME IInv, NEW c \in Calls, Native2Returns(c) PROVE IInv'
<1> USE DEF Native2Returns, api, Goto, SetPlug
<1>1. TypeOK /\ CallInv(c) /\ m[c] \in Shapes
    BY Zenon DEF IInv, TypeOK
<1>2. TypeOK'
    <2>1. pc' \in [Calls -> Steps]
        BY Zenon, <1>1 DEF TypeOK, Steps
    <2>2. outs' \in [Calls -> SUBSET Outs]
        BY Zenon, <1>1, ShapeFields DEF TypeOK
    <2>3. plug' \in [Calls -> {"none", "registered", "leased", "released"}]
        BY SMTT(20), <1>1 DEF TypeOK
    <2> QED BY Zenon, <1>1, <2>1, <2>2, <2>3 DEF TypeOK
<1>3. Only(c) /\ open' = open
    BY <1>1 DEF Only, TypeOK
<1>4. LockKept(c)
    BY <1>1, Zenon DEF LockKept, TypeOK, CallInv, Locked
<1>6. CallInv(c)'
    <2>1. Locked(c)'
        BY <1>1 DEF TypeOK, CallInv, Locked
    <2>2. Owned(c)'
        BY <1>1, Zenon DEF TypeOK, CallInv, Owned
    <2>3. Plugged(c)'
        BY <1>1, ZenonT(30) DEF TypeOK, CallInv, Plugged, Owned
    <2>4. Exported(c)'
        BY <1>1, Zenon DEF TypeOK, CallInv, Exported, Owned
    <2> QED BY Zenon, <2>1, <2>2, <2>3, <2>4 DEF CallInv
<1> QED BY <1>1, <1>2, <1>3, <1>4, <1>6, Others, ZenonT(30)

\* Outputs are freed or handed to the caller.
LEMMA CollectStep == ASSUME IInv, NEW c \in Calls, Collect(c) PROVE IInv'
<1> USE DEF Collect, api, Goto
<1>1. TypeOK /\ CallInv(c) /\ m[c] \in Shapes
    BY DEF IInv, TypeOK
<1>2. TypeOK'
    <2>1. pc' \in [Calls -> Steps]
        BY Zenon, <1>1 DEF TypeOK, Steps
    <2>2. outs' \in [Calls -> SUBSET Outs]
        BY Zenon, <1>1 DEF TypeOK
    <2>3. given' \in [Calls -> SUBSET Handed]
        BY <1>1 DEF TypeOK
    <2>4. res' \in [Calls -> Results]
        BY Zenon, <1>1 DEF TypeOK, Results
    <2> QED BY Zenon, <1>1, <2>1, <2>2, <2>3, <2>4 DEF TypeOK
<1>3. Only(c) /\ open' = open
    BY <1>1 DEF Only, TypeOK
<1>4. LockKept(c)
    BY Zenon, <1>1 DEF LockKept, TypeOK, CallInv, Locked
<1>6. CallInv(c)'
    <2>1. Locked(c)'
        BY <1>1 DEF TypeOK, CallInv, Locked
    <2>2. Owned(c)'
        BY <1>1, Zenon DEF TypeOK, CallInv, Owned
    <2>3. Plugged(c)'
        BY <1>1, Zenon DEF TypeOK, CallInv, Plugged, Owned
    <2>4. Exported(c)'
        BY <1>1, Zenon DEF TypeOK, CallInv, Exported, Owned
    <2> QED BY Zenon, <2>1, <2>2, <2>3, <2>4 DEF CallInv
<1> QED BY <1>1, <1>2, <1>3, <1>4, <1>6, Others, Zenon

\* The deferred functions.
LEMMA ReturnStep == ASSUME IInv, NEW c \in Calls, Return(c) PROVE IInv'
<1> USE DEF Return, api, Goto, SetPlug
<1>1. TypeOK /\ CallInv(c) /\ m[c] \in Shapes
    BY Zenon DEF IInv, TypeOK
<1>2. TypeOK'
    <2>1. pc' \in [Calls -> Steps]
        BY Zenon, <1>1 DEF TypeOK, Steps
    <2>2. holds' \in [Calls -> BOOLEAN]
        BY Zenon, <1>1 DEF TypeOK
    <2>3. mem' \in [Calls -> SUBSET Places]
        BY Zenon, <1>1 DEF TypeOK
    <2>4. temp' \in [Calls -> BOOLEAN]
        BY Zenon, <1>1 DEF TypeOK
    <2>5. plug' \in [Calls -> {"none", "registered", "leased", "released"}]
        BY <1>1 DEF TypeOK
    <2> QED BY Zenon, <1>1, <2>1, <2>2, <2>3, <2>4, <2>5 DEF TypeOK
<1>3. Only(c) /\ open' = open
    BY Zenon, <1>1 DEF Only, TypeOK
<1>4. LockKept(c)
    BY Zenon, <1>1 DEF LockKept, TypeOK, CallInv, Locked
<1>6. CallInv(c)'
    <2>1. Locked(c)'
        BY <1>1 DEF TypeOK, CallInv, Locked
    <2>2. Owned(c)'
        BY <1>1, ZenonT(30) DEF TypeOK, CallInv, Owned
    <2>3. Plugged(c)'
        BY <1>1, Zenon DEF TypeOK, CallInv, Plugged, Owned
    <2>4. Exported(c)'
        BY <1>1, Zenon DEF TypeOK, CallInv, Exported, Owned
    <2> QED BY Zenon, <2>1, <2>2, <2>3, <2>4 DEF CallInv
<1> QED BY Zenon, <1>1, <1>2, <1>3, <1>4, <1>6, Others

\* The caller ends the lease.
LEMMA CallerReleasesStep == ASSUME IInv, NEW c \in Calls, CallerReleases(c) PROVE IInv'
<1> USE DEF CallerReleases, api, SetPlug
<1>1. TypeOK /\ CallInv(c) /\ m[c] \in Shapes
    BY Zenon DEF IInv, TypeOK
<1>2. TypeOK'
    <2>1. given' \in [Calls -> SUBSET Handed]
        BY Zenon, <1>1 DEF TypeOK
    <2>2. plug' \in [Calls -> {"none", "registered", "leased", "released"}]
        BY <1>1 DEF TypeOK
    <2> QED BY Zenon, <1>1, <2>1, <2>2 DEF TypeOK
<1>3. Only(c) /\ open' = open
    BY Zenon, <1>1 DEF Only, TypeOK
<1>4. LockKept(c)
    BY Zenon, <1>1 DEF LockKept, TypeOK, CallInv, Locked
<1>6. CallInv(c)'
    <2>1. Locked(c)'
        BY <1>1 DEF TypeOK, CallInv, Locked
    <2>2. Owned(c)'
        BY <1>1, ZenonT(30) DEF TypeOK, CallInv, Owned
    <2>3. Plugged(c)'
        BY <1>1, Zenon DEF TypeOK, CallInv, Plugged, Owned
    <2>4. Exported(c)'
        BY <1>1, Zenon DEF TypeOK, CallInv, Exported, Owned
    <2> QED BY Zenon, <2>1, <2>2, <2>3, <2>4 DEF CallInv
<1> QED BY Zenon, <1>1, <1>2, <1>3, <1>4, <1>6, Others

\* A context that ends changes nothing by itself.
LEMMA CtxDoneStep == ASSUME IInv, NEW c \in Calls, CtxDone(c) PROVE IInv'
<1> USE DEF CtxDone, api
<1>1. TypeOK /\ CallInv(c) /\ m[c] \in Shapes
    BY Zenon DEF IInv, TypeOK
<1>2. TypeOK'
    <2>1. ctxDone' \in [Calls -> BOOLEAN]
        BY Zenon, <1>1 DEF TypeOK
    <2> QED BY Zenon, <1>1, <2>1 DEF TypeOK
<1>3. Only(c) /\ open' = open
    BY Zenon, <1>1 DEF Only, TypeOK
<1>4. LockKept(c)
    BY Zenon, <1>1 DEF LockKept, TypeOK, CallInv, Locked
<1>6. CallInv(c)'
    <2>1. Locked(c)'
        BY <1>1 DEF TypeOK, CallInv, Locked
    <2>2. Owned(c)'
        BY <1>1, Zenon DEF TypeOK, CallInv, Owned
    <2>3. Plugged(c)'
        BY <1>1, Zenon DEF TypeOK, CallInv, Plugged, Owned
    <2>4. Exported(c)'
        BY <1>1, Zenon DEF TypeOK, CallInv, Exported, Owned
    <2> QED BY Zenon, <2>1, <2>2, <2>3, <2>4 DEF CallInv
<1> QED BY <1>1, <1>2, <1>3, <1>4, <1>6, Others, Zenon

\* Close finds no holder, so no call that needs the handle open sees it closed.
LEMMA CloseHandleStep == ASSUME IInv, NEW h \in Handles, CloseHandle(h) PROVE IInv'
<1> USE DEF CloseHandle, api
<1>1. TypeOK'
    BY Zenon DEF IInv, TypeOK
<1>2. OneHolder'
    BY Zenon DEF IInv, OneHolder
<1>3. ASSUME NEW c \in Calls PROVE CallInv(c)'
    <2>1. CallInv(c) /\ TypeOK
        BY Zenon DEF IInv
    <2>2. Locked(c)'
        BY <2>1 DEF TypeOK, CallInv, Locked
    <2>3. Owned(c)' /\ Plugged(c)' /\ Exported(c)'
        BY <2>1, ZenonT(30) DEF CallInv, Owned, Plugged, Exported
    <2> QED BY Zenon, <2>2, <2>3 DEF CallInv
<1> QED BY <1>1, <1>2, <1>3, Zenon DEF IInv

\* Every step preserves the invariant.
LEMMA NextInv == IInv /\ [Next]_vars => IInv'
<1> SUFFICES ASSUME IInv, [Next]_vars PROVE IInv'
    OBVIOUS
<1>1. ASSUME NEW c \in Calls, CallStep(c) PROVE IInv'
    BY <1>1, BeginStep, ArgsStep, LockStep, PrepareStep, RejectStep, EnterStep, NativeFailsStep,
       NativeReturnsStep, SecondStep, SecondFailsStep, Enter2Step, Native2ReturnsStep,
       CollectStep, ReturnStep DEF CallStep
<1>2. ASSUME NEW c \in Calls, CallerReleases(c) \/ CtxDone(c) PROVE IInv'
    BY Zenon, <1>2, CallerReleasesStep, CtxDoneStep
<1>3. ASSUME NEW h \in Handles, CloseHandle(h) PROVE IInv'
    BY Zenon, <1>3, CloseHandleStep
<1>4. CASE UNCHANGED vars
    <2> USE <1>4 DEF vars, api
    <2>1. TypeOK'
        BY DEF IInv, TypeOK
    <2>2. OneHolder'
        BY Zenon DEF IInv, OneHolder
    <2>3. ASSUME NEW c \in Calls PROVE CallInv(c)'
        <3>1. CallInv(c)
            BY DEF IInv
        <3>2. Locked(c)'
            BY <3>1, Zenon DEF CallInv, Locked
        <3>3. Owned(c)'
            BY <3>1, Zenon DEF CallInv, Owned
        <3>4. Plugged(c)'
            BY <3>1, Zenon DEF CallInv, Plugged
        <3>5. Exported(c)'
            BY <3>1, Zenon DEF CallInv, Exported
        <3> QED BY Zenon, <3>2, <3>3, <3>4, <3>5 DEF CallInv
    <2> QED BY Zenon, <2>1, <2>2, <2>3 DEF IInv
<1> QED BY <1>1, <1>2, <1>3, <1>4 DEF Next, Terminated

\* The invariant holds throughout.
THEOREM Invariant == Spec => []IInv
BY InitInv, NextInv, PTL DEF Spec

-----------------------------------------------------------------------------
\* Every state of a method call is well typed.
THEOREM TypeCorrect == Spec => []TypeOK
<1>1. IInv => TypeOK
    BY DEF IInv
<1> QED BY <1>1, Invariant, PTL

\* datasetOp, fragmentOp, withLock and newNative: native code runs only on open
\* handles and existing scanners, whatever is closed when.
THEOREM NativeOnOpenHandles == Spec => []NoUseAfterClose
<1>1. IInv => NoUseAfterClose
    BY ZenonT(30) DEF IInv, CallInv, Locked, Owned, NoUseAfterClose
<1> QED BY <1>1, Invariant, PTL

\* fragmentOp's lock serialises the native calls on a fragment.
THEOREM FragmentsSerialised == Spec => []FragmentSerial
<1>1. IInv => FragmentSerial
    BY ZenonT(30) DEF IInv, CallInv, Locked, OneHolder, FragmentSerial, Handles
<1> QED BY <1>1, Invariant, PTL

\* registerPlugin, releasePlugin and the leases: a callback that native code can
\* still make finds its plugin registered.
THEOREM CallbacksServed == Spec => []CallbackServed
<1>1. IInv => CallbackServed
    BY Zenon DEF IInv, CallInv, Plugged, CallbackServed
<1> QED BY <1>1, Invariant, PTL

\* The deferred functions of every method undo what it did on every path.
THEOREM CallsReturnClean == Spec => []ReturnsClean
<1>1. IInv => ReturnsClean
    BY Zenon DEF IInv, CallInv, Owned, ReturnsClean
<1> QED BY <1>1, Invariant, PTL

\* A method that refuses a call has not touched the reader it was given.
THEOREM RefusalKeepsReader == Spec => []RefusedKeepsReader
<1>1. IInv => RefusedKeepsReader
    BY Zenon DEF IInv, CallInv, Exported, RefusedKeepsReader
<1> QED BY <1>1, Invariant, PTL

\* Exported structs are lost only when ffiCall returns before the native call.
THEOREM ArrowHandedOver == Spec => []ArrowLeftOnlyBeforeNative
<1>1. IInv => ArrowLeftOnlyBeforeNative
    BY DEF IInv, CallInv, Exported, ArrowLeftOnlyBeforeNative
<1> QED BY <1>1, Invariant, PTL

-----------------------------------------------------------------------------
(* Calls advance, and use their structs and their plugin once.             *)

\* Where each step takes the call that makes it.
Forward(c) ==
    \E l, k \in Steps : pc[c] = l /\ pc' = [pc EXCEPT ![c] = k] /\ Stage(k) > Stage(l)

\* The order of the steps.
LEMMA StageOrder ==
    /\ Stage("args") > Stage("idle") /\ Stage("lock") > Stage("args")
    /\ Stage("prepare") > Stage("lock") /\ Stage("ffi") > Stage("prepare")
    /\ Stage("native") > Stage("ffi") /\ Stage("second") > Stage("native")
    /\ Stage("ffi2") > Stage("second") /\ Stage("native2") > Stage("ffi2")
    /\ Stage("collect") > Stage("native") /\ Stage("collect") > Stage("native2")
    /\ Stage("done") > Stage("return")
    /\ \A l \in {"args", "lock", "prepare", "ffi", "ffi2", "native2", "collect"} :
          Stage("return") > Stage(l)
BY DEF Stage

\* Every step of a call takes it forward.
LEMMA StepForward ==
    ASSUME IInv, NEW c \in Calls, CallStep(c)
    PROVE  Forward(c)
<1> USE DEF Goto, Fail, Steps
<1>1. CASE Begin(c)
    <2>1. pc[c] = "idle" /\ pc' = [pc EXCEPT ![c] = "args"]
        BY <1>1 DEF Begin
    <2> QED BY Zenon, <2>1, StageOrder DEF Forward
<1>2. CASE Args(c)
    <2>1. pc[c] = "args" /\ \E k \in {"return", "lock"} : pc' = [pc EXCEPT ![c] = k]
        BY <1>2, Zenon DEF Args
    <2> QED BY <2>1, StageOrder, Zenon DEF Forward
<1>3. CASE Lock(c)
    <2>1. pc[c] = "lock" /\ \E k \in {"return", "prepare"} : pc' = [pc EXCEPT ![c] = k]
        BY <1>3, Zenon DEF Lock
    <2> QED BY <2>1, StageOrder, Zenon DEF Forward
<1>4. CASE Prepare(c)
    <2>1. pc[c] = "prepare" /\ \E k \in {"return", "ffi"} : pc' = [pc EXCEPT ![c] = k]
        BY <1>4, Zenon DEF Prepare
    <2> QED BY <2>1, StageOrder, Zenon DEF Forward
<1>5. CASE Reject(c) \/ Enter(c)
    <2>1. pc[c] = "ffi" /\ \E k \in {"return", "native"} : pc' = [pc EXCEPT ![c] = k]
        BY <1>5 DEF Reject, Enter
    <2> QED BY <2>1, StageOrder, Zenon DEF Forward
<1>6. CASE NativeFails(c) \/ NativeReturns(c)
    <2>1. pc[c] = "native" /\ \E k \in {"collect", "second"} : pc' = [pc EXCEPT ![c] = k]
        BY <1>6, Zenon DEF NativeFails, NativeReturns
    <2> QED BY <2>1, StageOrder, Zenon DEF Forward
<1>7. CASE Second(c)
    <2>1. pc[c] = "second" /\ pc' = [pc EXCEPT ![c] = "ffi2"]
        BY <1>7 DEF Second
    <2> QED BY Zenon, <2>1, StageOrder DEF Forward
<1>8. CASE SecondFails(c) \/ Enter2(c) \/ Native2Returns(c)
    <2>1. \/ pc[c] = "ffi2" /\ \E k \in {"return", "native2"} : pc' = [pc EXCEPT ![c] = k]
          \/ pc[c] = "native2" /\ \E k \in {"return", "collect"} : pc' = [pc EXCEPT ![c] = k]
        BY <1>8, Zenon DEF SecondFails, Enter2, Native2Returns
    <2> QED BY <2>1, StageOrder, Zenon DEF Forward
<1>9. CASE Collect(c) \/ Return(c)
    <2>1. \/ pc[c] = "collect" /\ pc' = [pc EXCEPT ![c] = "return"]
          \/ pc[c] = "return" /\ pc' = [pc EXCEPT ![c] = "done"]
        BY <1>9, Zenon DEF Collect, Return
    <2> QED BY <2>1, StageOrder, Zenon DEF Forward
<1> QED BY Zenon, <1>1, <1>2, <1>3, <1>4, <1>5, <1>6, <1>7, <1>8, <1>9 DEF CallStep

\* The steps that are not a call's own leave every call where it is.
LEMMA OtherSteps ==
    ASSUME [Next]_vars, ~ \E c \in Calls : CallStep(c)
    PROVE  pc' = pc /\ m' = m /\ arrow' = arrow
BY Zenon DEF Next, CallerReleases, CtxDone, CloseHandle, Terminated, vars, api

\* Every step of a method call takes it closer to its return and nothing sets it
\* back, so a call takes at most eleven steps, whatever its method and its fate.
THEOREM CallsAdvance == Spec => CallAdvances
<1>1. ASSUME IInv, [Next]_vars, NEW c \in Calls
      PROVE  /\ CallStep(c) => Stage(pc'[c]) > Stage(pc[c])
             /\ pc'[c] # pc[c] => CallStep(c)
    <2>t. pc \in [Calls -> Steps]
        BY Zenon, <1>1 DEF IInv, TypeOK
    <2>1. ASSUME CallStep(c) PROVE Stage(pc'[c]) > Stage(pc[c])
        BY Zenon, <1>1, <2>1, <2>t, StepForward DEF Forward
    <2>2. ASSUME pc'[c] # pc[c] PROVE CallStep(c)
        <3>1. PICK d \in Calls : CallStep(d)
            BY <1>1, <2>2, OtherSteps
        <3>2. Forward(d)
            BY <1>1, <3>1, StepForward
        <3>3. d = c
            BY Zenon, <2>t, <2>2, <3>2 DEF Forward
        <3> QED BY Zenon, <3>1, <3>3
    <2> QED BY Zenon, <2>1, <2>2
<1>2. IInv /\ [Next]_vars =>
        [\A c \in Calls : /\ CallStep(c) => Stage(pc'[c]) > Stage(pc[c])
                          /\ pc'[c] # pc[c] => CallStep(c)]_vars
    BY <1>1
<1> QED BY <1>2, Invariant, PTL DEF Spec, CallAdvances

\* What each step does to the registration and the structs of its own call, and
\* that the registration is made only once.
LEMMA OwnStep ==
    ASSUME IInv, PlugFresh, NEW c \in Calls, CallStep(c) \/ CallerReleases(c)
    PROVE  /\ arrow'[c] = arrow[c] \/ <<arrow[c], arrow'[c]>> \in ArrowMoves
           /\ plug'[c] = plug[c] \/ <<plug[c], plug'[c]>> \in PlugMoves
           /\ Fresh(c)'
<1>t. TypeOK /\ CallInv(c) /\ Fresh(c) /\ m[c] \in Shapes
    BY Zenon DEF IInv, TypeOK, PlugFresh
<1>s. /\ m[c].plugin \in {"none", "scoped", "leased"}
      /\ m[c].plugin = "scoped" => m[c].temp = "none"
      /\ m[c].temp = "unwrapped" => m[c].plugin = "leased"
    BY <1>t, ShapeFields, Zenon
<1> USE DEF Goto, Fail, SetPlug, Registers
<1>1. CASE Begin(c)
    <2>1. pc[c] = "idle" /\ pc'[c] = "args" /\ UNCHANGED <<arrow, plug>>
        BY <1>1, <1>t, Zenon DEF Begin, TypeOK
    <2> QED BY <1>t, <2>1, Zenon DEF Fresh
<1>2. CASE Args(c)
    <2>1. /\ pc[c] = "args" /\ pc'[c] \in {"return", "lock"} /\ UNCHANGED <<arrow, m>>
          /\ plug' = plug \/ (plug' = [plug EXCEPT ![c] = "registered"] /\ m[c].plugin = "scoped")
        BY <1>2, <1>t, Zenon DEF Args, TypeOK, api
    <2>2. plug[c] = "none"
        BY <1>t, <2>1, Zenon DEF Fresh
    <2> QED BY <1>t, <1>s, <2>1, <2>2, Zenon DEF Fresh, PlugMoves, TypeOK
<1>3. CASE Lock(c)
    <2>1. pc[c] = "lock" /\ pc'[c] \in {"return", "prepare"} /\ UNCHANGED <<arrow, plug, m>>
        BY <1>3, <1>t, ZenonT(30) DEF Lock, TypeOK, api
    <2> QED BY <1>t, <2>1, Zenon DEF Fresh
<1>4. CASE Prepare(c)
    <2>1. /\ pc[c] = "prepare" /\ pc'[c] \in {"return", "ffi"} /\ m' = m
          /\ arrow' \in {arrow, [arrow EXCEPT ![c] = "exported"]}
          /\ \/ plug' = plug
             \/ plug' = [plug EXCEPT ![c] = "released"] /\ m[c].plugin = "leased" /\ pc'[c] = "return"
             \/ /\ plug' = [plug EXCEPT ![c] = "registered"] /\ m[c].plugin = "leased"
                /\ m[c].temp # "unwrapped"
        BY <1>4, <1>t, Zenon DEF Prepare, TypeOK, api
    <2>2. arrow[c] = "none"
        BY <1>t, <2>1, Zenon DEF CallInv, Exported
    <2>3. arrow'[c] = arrow[c] \/ <<arrow[c], arrow'[c]>> \in ArrowMoves
        BY <1>t, <2>1, <2>2, Zenon DEF TypeOK, ArrowMoves
    <2>4. m[c].plugin = "leased" => plug[c] = "none"
        BY <1>t, <2>1, Zenon DEF Fresh
    <2>5. plug'[c] = plug[c] \/ <<plug[c], plug'[c]>> \in PlugMoves
        BY <1>t, <2>1, <2>4, Zenon DEF TypeOK, PlugMoves
    <2>6. Fresh(c)'
        BY <1>t, <1>s, <2>1, <2>4, Zenon DEF TypeOK, Fresh
    <2> QED BY <2>3, <2>5, <2>6, Zenon
<1>5. CASE Reject(c) \/ Enter(c)
    <2>1. /\ pc[c] = "ffi" /\ pc'[c] \in {"return", "native"} /\ m' = m
          /\ arrow' = arrow \/ (arrow[c] = "exported" /\ arrow' = [arrow EXCEPT ![c] = "imported"])
          /\ plug' = plug \/ (/\ plug[c] = "registered" /\ plug' = [plug EXCEPT ![c] = "released"]
                             /\ pc'[c] = "return")
        BY <1>5, <1>t, Zenon DEF Reject, Enter, TakeBackPlugin, TypeOK, api
    <2> QED BY <1>t, <2>1, Zenon DEF TypeOK, ArrowMoves, PlugMoves, Fresh
<1>6. CASE NativeFails(c) \/ NativeReturns(c)
    <2>1. /\ pc[c] = "native" /\ pc'[c] \in {"collect", "second"} /\ m' = m
          /\ arrow' = arrow \/ (arrow[c] = "imported" /\ arrow' = [arrow EXCEPT ![c] = "released"])
          /\ plug' = plug \/ (/\ plug[c] = "registered"
                             /\ plug' \in {[plug EXCEPT ![c] = "released"],
                                           [plug EXCEPT ![c] = "leased"]})
        BY <1>6, <1>t, Zenon DEF NativeFails, NativeReturns, TakeBackPlugin, DropArrow, TypeOK, api
    <2> QED BY <1>t, <2>1, Zenon DEF TypeOK, ArrowMoves, PlugMoves, Fresh
<1>7. CASE Second(c)
    <2>1. /\ pc[c] = "second" /\ pc'[c] = "ffi2" /\ UNCHANGED <<m, arrow>>
          /\ plug' = plug \/ (m[c].temp # "scanner" /\ plug' = [plug EXCEPT ![c] = "registered"])
        BY <1>7, <1>t, Zenon DEF Second, TypeOK, api
    <2>2. m[c].temp # "scanner" => plug[c] = "none"
        BY <1>t, <2>1, ShapeFields, Zenon DEF CallInv, Owned, Fresh
    <2> QED BY <1>t, <2>1, <2>2, Zenon DEF TypeOK, PlugMoves, Fresh
<1>8. CASE SecondFails(c) \/ Enter2(c) \/ Native2Returns(c)
    <2>1. /\ pc'[c] \in {"return", "native2", "collect"} /\ UNCHANGED <<m, arrow>>
          /\ plug' = plug \/ (/\ plug[c] = "registered"
                             /\ plug' \in {[plug EXCEPT ![c] = "released"],
                                           [plug EXCEPT ![c] = "leased"]})
        BY <1>8, <1>t, Zenon DEF SecondFails, Enter2, Native2Returns, TypeOK, api
    <2> QED BY <1>t, <2>1, Zenon DEF TypeOK, PlugMoves, Fresh
<1>9. CASE Collect(c) \/ Return(c) \/ CallerReleases(c)
    <2>1. /\ pc'[c] \in {"return", "done"} /\ UNCHANGED <<m, arrow>>
          /\ plug' = plug \/ (/\ plug[c] \in {"registered", "leased"}
                             /\ plug' = [plug EXCEPT ![c] = "released"])
        BY SMTT(20), <1>9, <1>t DEF Collect, Return, CallerReleases, TypeOK, api
    <2> QED BY <1>t, <2>1, ZenonT(30) DEF TypeOK, PlugMoves, Fresh
<1> QED BY <1>1, <1>2, <1>3, <1>4, <1>5, <1>6, <1>7, <1>8, <1>9, Zenon DEF CallStep

\* And to those of the other calls: nothing.
LEMMA OthersKeep ==
    ASSUME IInv, NEW c \in Calls, CallStep(c) \/ CallerReleases(c), NEW d \in Calls \ {c}
    PROVE  pc'[d] = pc[d] /\ m'[d] = m[d] /\ arrow'[d] = arrow[d] /\ plug'[d] = plug[d]
<1>t. TypeOK
    BY Zenon DEF IInv
<1>1. pc'[d] = pc[d]
    <2>1. CASE CallStep(c)
        BY <1>t, <2>1, StepForward DEF Forward, TypeOK
    <2>2. CASE CallerReleases(c)
        BY <2>2, Zenon DEF CallerReleases
    <2> QED BY Zenon, <2>1, <2>2
<1> SUFFICES m'[d] = m[d] /\ arrow'[d] = arrow[d] /\ plug'[d] = plug[d]
    BY Zenon, <1>1
<1>2. CASE Begin(c)
    BY ZenonT(30), <1>t, <1>2 DEF Begin, TypeOK
<1>3. CASE Args(c)
    BY Zenon, <1>t, <1>3 DEF Args, SetPlug, api, TypeOK
<1>4. CASE Lock(c)
    BY Zenon, <1>t, <1>4 DEF Lock, api, TypeOK
<1>5. CASE Prepare(c)
    BY Zenon, <1>t, <1>5 DEF Prepare, SetPlug, api, TypeOK
<1>6. CASE Reject(c)
    BY Zenon, <1>t, <1>6 DEF Reject, TakeBackPlugin, SetPlug, api, TypeOK
<1>7. CASE Enter(c)
    BY Zenon, <1>t, <1>7 DEF Enter, api, TypeOK
<1>8. CASE NativeFails(c)
    BY ZenonT(30), <1>t, <1>8 DEF NativeFails, TakeBackPlugin, DropArrow, SetPlug, api, TypeOK
<1>9. CASE NativeReturns(c)
    BY Zenon, <1>t, <1>9 DEF NativeReturns, DropArrow, SetPlug, api, TypeOK
<1>10. CASE Second(c)
    BY Zenon, <1>t, <1>10 DEF Second, SetPlug, api, TypeOK
<1>11. CASE SecondFails(c)
    BY Zenon, <1>t, <1>11 DEF SecondFails, SetPlug, api, TypeOK
<1>12. CASE Enter2(c)
    BY Zenon, <1>t, <1>12 DEF Enter2, api, TypeOK
<1>13. CASE Native2Returns(c)
    BY Zenon, <1>t, <1>13 DEF Native2Returns, SetPlug, api, TypeOK
<1>14. CASE Collect(c)
    BY Zenon, <1>t, <1>14 DEF Collect, api, TypeOK
<1>15. CASE Return(c)
    BY Zenon, <1>t, <1>15 DEF Return, SetPlug, api, TypeOK
<1>16. CASE CallerReleases(c)
    BY <1>t, <1>16 DEF CallerReleases, SetPlug, api, TypeOK
<1> QED BY Zenon, <1>2, <1>3, <1>4, <1>5, <1>6, <1>7, <1>8, <1>9, <1>10, <1>11, <1>12, <1>13, <1>14, <1>15, <1>16
    DEF CallStep

\* Both, for all calls and all steps.
LEMMA UseStep ==
    ASSUME IInv, PlugFresh, [Next]_vars
    PROVE  /\ PlugFresh'
           /\ \A c \in Calls :
                 /\ arrow'[c] = arrow[c] \/ <<arrow[c], arrow'[c]>> \in ArrowMoves
                 /\ plug'[c] = plug[c] \/ <<plug[c], plug'[c]>> \in PlugMoves
<1>1. ASSUME NEW c \in Calls, CallStep(c) \/ CallerReleases(c), NEW d \in Calls
      PROVE  /\ arrow'[d] = arrow[d] \/ <<arrow[d], arrow'[d]>> \in ArrowMoves
             /\ plug'[d] = plug[d] \/ <<plug[d], plug'[d]>> \in PlugMoves
             /\ Fresh(d)'
    <2>1. CASE d = c
        BY <1>1, <2>1, OwnStep, Zenon
    <2>2. CASE d # c
        <3>1. pc'[d] = pc[d] /\ m'[d] = m[d] /\ arrow'[d] = arrow[d] /\ plug'[d] = plug[d]
            BY <1>1, <2>2, OthersKeep, Zenon
        <3>2. Fresh(d)
            BY DEF PlugFresh
        <3> QED BY <3>1, <3>2, Zenon DEF Fresh
    <2> QED BY <2>1, <2>2, Zenon
<1>2. CASE \E c \in Calls : CallStep(c) \/ CallerReleases(c)
    BY <1>1, <1>2, Zenon DEF PlugFresh
<1>3. CASE ~ \E c \in Calls : CallStep(c) \/ CallerReleases(c)
    <2>1. UNCHANGED <<pc, m, arrow, plug>>
        BY <1>3, Zenon DEF Next, CtxDone, CloseHandle, Terminated, vars, api
    <2> QED BY <2>1, Zenon DEF PlugFresh, Fresh
<1> QED BY <1>2, <1>3, Zenon

\* Structs are exported, imported and released, and a plugin is registered and
\* released, at most once each.
THEOREM UsedOnce == Spec => SingleUse
<1>1. Init => PlugFresh
    BY Zenon DEF Init, PlugFresh, Fresh
<1>2. IInv /\ PlugFresh /\ [Next]_vars => PlugFresh'
    BY Zenon, UseStep
<1>3. IInv /\ PlugFresh /\ [Next]_vars =>
        [\A c \in Calls :
            /\ arrow'[c] = arrow[c] \/ <<arrow[c], arrow'[c]>> \in ArrowMoves
            /\ plug'[c] = plug[c] \/ <<plug[c], plug'[c]>> \in PlugMoves]_vars
    BY Zenon, UseStep
<1> QED BY <1>1, <1>2, <1>3, Invariant, PTL DEF Spec, SingleUse

-----------------------------------------------------------------------------
(* Every handle implements SharedHandle.                                   *)

\* A step of SharedHandle, for the handle h.
HandleStep(h) ==
    \/ InNative(h)' = InNative(h) /\ Frees(h)' = Frees(h)
    \/ \E c \in Calls :
          /\ Frees(h)' = Frees(h)
          /\ \/ Frees(h) = 0 /\ InNative(h)' = InNative(h) \cup {c}
             \/ c \in InNative(h) /\ InNative(h)' = InNative(h) \ {c}
    \/ Frees(h) = 0 /\ InNative(h) = {} /\ Frees(h)' = 1 /\ InNative(h)' = InNative(h)

\* A step of a call: only the native call itself enters and leaves a handle, and
\* it enters with the handle locked and open.
LEMMA CallOnHandle ==
    ASSUME IInv, NEW c \in Calls, CallStep(c), NEW h \in Handles
    PROVE  HandleStep(h)
<1>t. TypeOK /\ CallInv(c)
    BY DEF IInv
<1>o. \A d \in Calls \ {c} : pc'[d] = pc[d] /\ m'[d] = m[d]
    BY OthersKeep, Zenon
<1>f. open' = open /\ Frees(h)' = Frees(h)
    BY Zenon DEF CallStep, Begin, Args, Lock, Prepare, Reject, Enter, NativeFails, NativeReturns,
       Second, SecondFails, Enter2, Native2Returns, Collect, Return, Frees
<1>1. CASE Enter(c)
    <2>1. pc[c] = "ffi" /\ pc'[c] = "native" /\ m' = m
        BY <1>1, <1>t, Zenon DEF Enter, Goto, api, TypeOK
    <2>2. CASE m[c].on = h
        <3>1. Frees(h) = 0
            BY <1>t, <2>1, <2>2, Zenon DEF CallInv, Locked, Frees
        <3>2. InNative(h)' = InNative(h) \cup {c}
            BY Zenon, <1>o, <2>1, <2>2 DEF InNative
        <3> QED BY <1>f, <3>1, <3>2, Zenon DEF HandleStep
    <2>3. CASE m[c].on # h
        <3>1. InNative(h)' = InNative(h)
            BY <1>o, <2>1, <2>3, Zenon DEF InNative
        <3> QED BY <1>f, <3>1 DEF HandleStep
    <2> QED BY <2>2, <2>3
<1>2. CASE NativeFails(c) \/ NativeReturns(c)
    <2>1. pc[c] = "native" /\ pc'[c] # "native" /\ m' = m
        BY <1>2, <1>t, Zenon DEF NativeFails, NativeReturns, Goto, api, TypeOK
    <2>2. CASE m[c].on = h
        <3>1. c \in InNative(h) /\ InNative(h)' = InNative(h) \ {c}
            BY <1>o, <2>1, <2>2, Zenon DEF InNative
        <3> QED BY <1>f, <3>1, Zenon DEF HandleStep
    <2>3. CASE m[c].on # h
        <3>1. InNative(h)' = InNative(h)
            BY <1>o, <2>1, <2>3, Zenon DEF InNative
        <3> QED BY <1>f, <3>1 DEF HandleStep
    <2> QED BY <2>2, <2>3
<1>3. CASE ~(Enter(c) \/ NativeFails(c) \/ NativeReturns(c))
    <2>1. pc[c] # "native" /\ pc'[c] # "native"
        BY <1>3, <1>t, ZenonT(30) DEF CallStep, Begin, Args, Lock, Prepare, Reject, Second, SecondFails, Enter2,
           Native2Returns, Collect, Return, Goto, Fail, TypeOK
    <2>2. InNative(h)' = InNative(h)
        BY <1>o, <2>1, Zenon DEF InNative
    <2> QED BY <1>f, <2>2 DEF HandleStep
<1> QED BY Zenon, <1>1, <1>2, <1>3

\* Close frees the handle when nobody holds its lock, so nobody is inside it.
LEMMA CloseOnHandle ==
    ASSUME IInv, NEW k \in Handles, CloseHandle(k), NEW h \in Handles
    PROVE  HandleStep(h)
<1>t. TypeOK
    BY DEF IInv
<1>1. pc' = pc /\ m' = m /\ InNative(h)' = InNative(h)
    BY Zenon DEF CloseHandle, api, InNative
<1>2. open[k] /\ open' = [open EXCEPT ![k] = FALSE]
    BY Zenon DEF CloseHandle
<1>3. CASE h = k
    <2>1. Frees(h) = 0 /\ Frees(h)' = 1
        BY <1>t, <1>2, <1>3, Zenon DEF Frees, TypeOK
    <2>2. InNative(h) = {}
        <3>1. ASSUME NEW c \in Calls, pc[c] = "native", m[c].on = h PROVE FALSE
            BY <1>3, <3>1, Zenon DEF IInv, CallInv, Locked, CloseHandle
        <3> QED BY <3>1 DEF InNative
    <2> QED BY <1>1, <2>1, <2>2, Zenon DEF HandleStep
<1>4. CASE h # k
    <2>1. Frees(h)' = Frees(h)
        BY <1>t, <1>2, <1>4, Zenon DEF Frees, TypeOK
    <2> QED BY <1>1, <2>1, Zenon DEF HandleStep
<1> QED BY <1>3, <1>4

\* Every step is a step of SharedHandle or a stutter.
LEMMA OnHandle ==
    ASSUME IInv, [Next]_vars, NEW h \in Handles
    PROVE  HandleStep(h)
<1>1. CASE \E c \in Calls : CallStep(c)
    BY Zenon, <1>1, CallOnHandle
<1>2. CASE \E k \in Handles : CloseHandle(k)
    BY <1>2, CloseOnHandle
<1>3. CASE ~(\E c \in Calls : CallStep(c)) /\ ~(\E k \in Handles : CloseHandle(k))
    <2>1. UNCHANGED <<pc, m, open>>
        BY <1>3, Zenon DEF Next, CallerReleases, CtxDone, Terminated, vars, api
    <2>2. InNative(h)' = InNative(h) /\ Frees(h)' = Frees(h)
        BY <2>1, Zenon DEF InNative, Frees
    <2> QED BY <2>2, Zenon DEF HandleStep
<1> QED BY Zenon, <1>1, <1>2, <1>3

\* Before the first call every handle is open and nobody is inside.
LEMMA HandlesOpen ==
    ASSUME Init, NEW h \in Handles
    PROVE  InNative(h) = {} /\ Frees(h) = 0
BY Zenon DEF Init, InNative, Frees

\* Datasets, fragments and blob lists are the shared objects that SharedHandle
\* promises, for any number of calls of any methods.
THEOREM HandlesImplementShared == Spec => ImplementsHandle
<1> USE DEF Handles
<1>1. Init => TheDataset!Init /\ TheFragment!Init /\ TheBlobList!Init
    BY HandlesOpen DEF TheDataset!Init, TheFragment!Init, TheBlobList!Init
<1>2. IInv /\ [Next]_vars => [TheDataset!Next]_<<InNative("dataset"), Frees("dataset")>>
    <2> SUFFICES ASSUME IInv, [Next]_vars
                 PROVE  [TheDataset!Next]_<<InNative("dataset"), Frees("dataset")>>
        OBVIOUS
    <2>1. HandleStep("dataset")
        BY OnHandle
    <2> QED BY <2>1, Zenon DEF HandleStep, TheDataset!Next, TheDataset!Enter, TheDataset!Leave,
                        TheDataset!Free
<1>3. IInv /\ [Next]_vars => [TheFragment!Next]_<<InNative("fragment"), Frees("fragment")>>
    <2> SUFFICES ASSUME IInv, [Next]_vars
                 PROVE  [TheFragment!Next]_<<InNative("fragment"), Frees("fragment")>>
        OBVIOUS
    <2>1. HandleStep("fragment")
        BY Zenon, OnHandle
    <2> QED BY <2>1, Zenon DEF HandleStep, TheFragment!Next, TheFragment!Enter, TheFragment!Leave,
                        TheFragment!Free
<1>4. IInv /\ [Next]_vars => [TheBlobList!Next]_<<InNative("bloblist"), Frees("bloblist")>>
    <2> SUFFICES ASSUME IInv, [Next]_vars
                 PROVE  [TheBlobList!Next]_<<InNative("bloblist"), Frees("bloblist")>>
        OBVIOUS
    <2>1. HandleStep("bloblist")
        BY OnHandle
    <2> QED BY Zenon, <2>1 DEF HandleStep, TheBlobList!Next, TheBlobList!Enter, TheBlobList!Leave,
                        TheBlobList!Free
<1> QED BY <1>1, <1>2, <1>3, <1>4, Invariant, PTL
           DEF Spec, ImplementsHandle, TheDataset!Spec, TheFragment!Spec, TheBlobList!Spec,
               TheDataset!vars, TheFragment!vars, TheBlobList!vars
=============================================================================
