------------------------------ MODULE ApiCall ------------------------------
(***************************************************************************)
(* The life of a method call (ops.go and the method bodies): arguments are *)
(* converted to C memory, a handle is locked, Arrow structs are exported,  *)
(* a callback may be registered, the native function runs, its outputs are *)
(* copied or handed to the caller, and deferred functions undo the rest.   *)
(* Each of these can fail, the context can end at any time, and other      *)
(* goroutines call methods of the same handles and close them.             *)
(*                                                                         *)
(* A call runs the method m[c] of the Methods table.  Scanner terminals,   *)
(* and Open with an object-store cache, make a second native call on an    *)
(* object that the first one returned.                                     *)
(***************************************************************************)
EXTENDS Methods, Naturals

CONSTANTS
    Calls,      \* method calls, each made once
    MayCall,    \* the methods that each call may be of
    FromPlugins \* the calls that a callback of some other native call may make

ASSUME MayCallAssumption == MayCall \in [Calls -> SUBSET Shapes]

VARIABLES
    pc,         \* where each call is
    m,          \* its method
    use,        \* which of m.with it uses
    ctxDone,    \* its context is done
    nested,     \* it is made from a callback
    holds,      \* it holds the lock of m.on
    mem,        \* C memory allocated for its arguments
    arrow,      \* its exported C Data structs
    plug,       \* its plugin registration
    temp,       \* its native scanner or unwrapped dataset exists
    outs,       \* native outputs it has not freed
    given,      \* what it handed to the caller, until that is released
    res,        \* its result
    open        \* which handles are open

api == <<m, use, nested>>
vars == <<pc, api, ctxDone, holds, mem, arrow, plug, temp, outs, given, res, open>>

Steps == {"idle", "args", "lock", "prepare", "ffi", "native", "second", "ffi2", "native2",
          "collect", "return", "done"}
Results == {"none", "ok", "refused", "closed", "ctx", "rejected", "failed"}

\* Every variable has its type.
TypeOK ==
    /\ pc \in [Calls -> Steps]
    /\ m \in [Calls -> Shapes]
    /\ use \in [Calls -> SUBSET {"arrow", "plugin"}]
    /\ ctxDone \in [Calls -> BOOLEAN]
    /\ nested \in [Calls -> BOOLEAN]
    /\ holds \in [Calls -> BOOLEAN]
    /\ mem \in [Calls -> SUBSET Places]
    /\ arrow \in [Calls -> {"none", "exported", "imported", "released"}]
    /\ plug \in [Calls -> {"none", "registered", "leased", "released"}]
    /\ temp \in [Calls -> BOOLEAN]
    /\ outs \in [Calls -> SUBSET Outs]
    /\ given \in [Calls -> SUBSET Handed]
    /\ res \in [Calls -> Results]
    /\ open \in [Handles -> BOOLEAN]

Init ==
    /\ pc = [c \in Calls |-> "idle"]
    /\ m = [c \in Calls |-> DatasetDo]
    /\ use = [c \in Calls |-> {}]
    /\ ctxDone = [c \in Calls |-> FALSE]
    /\ nested = [c \in Calls |-> FALSE]
    /\ holds = [c \in Calls |-> FALSE]
    /\ mem = [c \in Calls |-> {}]
    /\ arrow = [c \in Calls |-> "none"]
    /\ plug = [c \in Calls |-> "none"]
    /\ temp = [c \in Calls |-> FALSE]
    /\ outs = [c \in Calls |-> {}]
    /\ given = [c \in Calls |-> {}]
    /\ res = [c \in Calls |-> "none"]
    /\ open = [h \in Handles |-> TRUE]

Goto(c, l) == pc' = [pc EXCEPT ![c] = l]

\* An error is returned: only the deferred functions still run.
Fail(c, r) == Goto(c, "return") /\ res' = [res EXCEPT ![c] = r]

Alloc(c, place) == mem' = [mem EXCEPT ![c] = @ \cup (m[c].args \cap {place})]

\* A refusal comes before or after the allocation.
MayAlloc(c, place) == Alloc(c, place) \/ UNCHANGED mem

\* The context that ffiCall and the checks before it see.
Ended(c) == m[c].ctx /\ ctxDone[c]

Registers(c, kind) == "plugin" \in use[c] /\ m[c].plugin = kind

SetPlug(c, s) == plug' = [plug EXCEPT ![c] = s]

-----------------------------------------------------------------------------
(* Up to the native call.                                                  *)

Begin(c) ==
    /\ pc[c] = "idle"
    /\ \E s \in MayCall[c] : \E u \in s.with, n \in BOOLEAN :
          /\ n => c \in FromPlugins
          /\ m' = [m EXCEPT ![c] = s]
          /\ use' = [use EXCEPT ![c] = u]
          /\ nested' = [nested EXCEPT ![c] = n]
    /\ Goto(c, "args")
    /\ UNCHANGED <<ctxDone, holds, mem, arrow, plug, temp, outs, given, res, open>>

\* What precedes the lock.  Methods without a receiver, and withLock, look at
\* the context first; scoped plugins are registered here.
Args(c) ==
    /\ pc[c] = "args"
    /\ \/ /\ m[c].on \in {"none", "bloblist"} /\ Ended(c)
          /\ Fail(c, "ctx")
          /\ UNCHANGED <<mem, plug>>
       \/ /\ "before" \in m[c].refuse
          /\ Fail(c, "refused")
          /\ MayAlloc(c, "before")
          /\ UNCHANGED plug
       \/ /\ ~(m[c].on \in {"none", "bloblist"} /\ Ended(c))
          /\ Alloc(c, "before")
          /\ IF Registers(c, "scoped") THEN SetPlug(c, "registered") ELSE UNCHANGED plug
          /\ Goto(c, "lock")
          /\ UNCHANGED res
    /\ UNCHANGED <<api, ctxDone, holds, arrow, temp, outs, given, open>>

\* Dataset and blob list have a read lock, which Close takes for writing; a
\* fragment's lock is exclusive.
LockFree(c) == m[c].on = "fragment" => \A d \in Calls \ {c} : ~(holds[d] /\ m[d].on = "fragment")

\* The lock, then checkOpen.
Lock(c) ==
    /\ pc[c] = "lock"
    /\ IF m[c].on = "none" THEN Goto(c, "prepare") /\ UNCHANGED <<holds, res>>
       ELSE /\ LockFree(c)
            /\ holds' = [holds EXCEPT ![c] = TRUE]
            /\ IF m[c].on # "bloblist" /\ Ended(c) THEN Fail(c, "ctx")
               ELSE IF ~open[m[c].on] THEN Fail(c, "closed")
               ELSE Goto(c, "prepare") /\ UNCHANGED res
    /\ UNCHANGED <<api, ctxDone, mem, arrow, plug, temp, outs, given, open>>

\* In the method body: newNative registers its plugin and gives it back if
\* the options cannot be marshalled; Arrow structs are exported last.
Prepare(c) ==
    /\ pc[c] = "prepare"
    /\ \/ /\ "inside" \in m[c].refuse
          /\ Fail(c, "refused")
          /\ MayAlloc(c, "inside")
          /\ IF Registers(c, "leased") THEN SetPlug(c, "released") ELSE UNCHANGED plug
          /\ UNCHANGED arrow
       \/ /\ Goto(c, "ffi")
          /\ Alloc(c, "inside")
          /\ IF Registers(c, "leased") /\ m[c].temp # "unwrapped"
             THEN SetPlug(c, "registered") ELSE UNCHANGED plug
          /\ arrow' = IF "arrow" \in use[c] THEN [arrow EXCEPT ![c] = "exported"] ELSE arrow
          /\ UNCHANGED res
    /\ UNCHANGED <<api, ctxDone, holds, temp, outs, given, open>>

\* Go gives back a plugin that no native object has taken over.
TakeBackPlugin(c) ==
    IF plug[c] = "registered" /\ m[c].plugin = "leased"
    THEN SetPlug(c, "released") ELSE UNCHANGED plug

\* ffiCall returns before the native function runs.
Reject(c) ==
    /\ pc[c] = "ffi"
    /\ nested[c] \/ Ended(c)
    /\ Fail(c, "rejected")
    /\ TakeBackPlugin(c)
    /\ UNCHANGED <<api, ctxDone, holds, mem, arrow, temp, outs, given, open>>

\* Mutant of Enter: the structs are imported after the arguments are checked.
EnterImportsLater(c) ==
    /\ pc[c] = "ffi"
    /\ ~nested[c] /\ ~Ended(c)
    /\ Goto(c, "native")
    /\ UNCHANGED <<api, ctxDone, holds, mem, arrow, plug, temp, outs, given, res, open>>

\* The native function starts and imports the structs before all else.
Enter(c) ==
    /\ pc[c] = "ffi"
    /\ ~nested[c] /\ ~Ended(c)
    /\ Goto(c, "native")
    /\ arrow' = IF arrow[c] = "exported" THEN [arrow EXCEPT ![c] = "imported"] ELSE arrow
    /\ UNCHANGED <<api, ctxDone, holds, mem, plug, temp, outs, given, res, open>>

-----------------------------------------------------------------------------
(* The native call.                                                        *)

DropArrow(c) ==
    arrow' = IF arrow[c] = "imported" THEN [arrow EXCEPT ![c] = "released"] ELSE arrow

\* A byte buffer may have been filled when the text that goes with it fails.
NativeFails(c) ==
    /\ pc[c] = "native"
    /\ Goto(c, "collect")
    /\ res' = [res EXCEPT ![c] = "failed"]
    /\ \E o \in SUBSET (m[c].outs \cap {"bytes"}) : outs' = [outs EXCEPT ![c] = o]
    /\ TakeBackPlugin(c)
    /\ DropArrow(c)
    /\ UNCHANGED <<api, ctxDone, holds, mem, temp, given, open>>

\* The native object that the call returns owns a leased plugin from now on.
NativeReturns(c) ==
    /\ pc[c] = "native"
    /\ DropArrow(c)
    /\ IF m[c].temp = "none"
       THEN /\ Goto(c, "collect")
            /\ outs' = [outs EXCEPT ![c] = m[c].outs]
            /\ UNCHANGED temp
       ELSE /\ Goto(c, "second")
            /\ temp' = [temp EXCEPT ![c] = TRUE]
            /\ UNCHANGED outs
    /\ IF plug[c] = "registered" /\ m[c].plugin = "leased"
       THEN SetPlug(c, "leased") ELSE UNCHANGED plug
    /\ UNCHANGED <<api, ctxDone, holds, mem, given, res, open>>

-----------------------------------------------------------------------------
(* The second native call of scanner terminals and wrapObjectStoreCache.   *)

\* Mutant of Second: the caller of newNative releases the plugin at once.
SecondReleases(c) ==
    /\ pc[c] = "second"
    /\ Goto(c, "ffi2")
    /\ holds' = [holds EXCEPT ![c] = FALSE]
    /\ mem' = [mem EXCEPT ![c] = {}]
    /\ SetPlug(c, "released")
    /\ UNCHANGED <<api, ctxDone, arrow, temp, outs, given, res, open>>

\* newNative returns, and with it its lock and C memory; or the object-store
\* cache is registered.
Second(c) ==
    /\ pc[c] = "second"
    /\ Goto(c, "ffi2")
    /\ IF m[c].temp = "scanner"
       THEN /\ holds' = [holds EXCEPT ![c] = FALSE]
            /\ mem' = [mem EXCEPT ![c] = {}]
            /\ UNCHANGED plug
       ELSE /\ IF Registers(c, "leased") THEN SetPlug(c, "registered") ELSE UNCHANGED plug
            /\ UNCHANGED <<holds, mem>>
    /\ UNCHANGED <<api, ctxDone, arrow, temp, outs, given, res, open>>

\* wrapObjectStoreCache passes context.Background.
Barred2(c) == nested[c] \/ (m[c].temp = "scanner" /\ Ended(c))

\* Rejected or failed: a plugin that was not taken over is released.
SecondFails(c) ==
    /\ \/ pc[c] = "ffi2" /\ Barred2(c)
       \/ pc[c] = "native2"
    /\ Fail(c, "failed")
    /\ IF plug[c] = "registered" THEN SetPlug(c, "released") ELSE UNCHANGED plug
    /\ UNCHANGED <<api, ctxDone, holds, mem, arrow, temp, outs, given, open>>

Enter2(c) ==
    /\ pc[c] = "ffi2" /\ ~Barred2(c)
    /\ Goto(c, "native2")
    /\ UNCHANGED <<api, ctxDone, holds, mem, arrow, plug, temp, outs, given, res, open>>

Native2Returns(c) ==
    /\ pc[c] = "native2"
    /\ Goto(c, "collect")
    /\ outs' = [outs EXCEPT ![c] = m[c].outs]
    /\ IF plug[c] = "registered" THEN SetPlug(c, "leased") ELSE UNCHANGED plug
    /\ UNCHANGED <<api, ctxDone, holds, mem, arrow, temp, given, res, open>>

-----------------------------------------------------------------------------
(* After the native calls.                                                 *)

\* Outputs whose conversion to Go values can fail.
Decoded == {"json", "bytes", "schema", "batch", "stream"}

\* Mutant of Collect: buffers are freed only when the call succeeded.
CollectOnSuccess(c) ==
    /\ pc[c] = "collect"
    /\ Goto(c, "return")
    /\ IF res[c] = "failed"
       THEN UNCHANGED <<outs, given, res>>
       ELSE /\ outs' = [outs EXCEPT ![c] = {}]
            /\ given' = [given EXCEPT ![c] = outs[c] \cap Handed]
            /\ res' = [res EXCEPT ![c] = "ok"]
    /\ UNCHANGED <<api, ctxDone, holds, mem, arrow, plug, temp, open>>

\* Outputs are converted and freed, or handed to the caller; if a conversion
\* fails they are freed all the same.
Collect(c) ==
    /\ pc[c] = "collect"
    /\ Goto(c, "return")
    /\ outs' = [outs EXCEPT ![c] = {}]
    /\ \/ /\ res[c] = "failed" \/ outs[c] \cap Decoded # {}
          /\ res' = [res EXCEPT ![c] = "failed"]
          /\ UNCHANGED given
       \/ /\ res[c] # "failed"
          /\ given' = [given EXCEPT ![c] = outs[c] \cap Handed]
          /\ res' = [res EXCEPT ![c] = "ok"]
    /\ UNCHANGED <<api, ctxDone, holds, mem, arrow, plug, temp, open>>

\* The deferred functions: unlock, free, close the scanner or the unwrapped
\* dataset, release a scoped plugin.  A lease ends with its last owner.
Return(c) ==
    /\ pc[c] = "return"
    /\ Goto(c, "done")
    /\ holds' = [holds EXCEPT ![c] = FALSE]
    /\ mem' = [mem EXCEPT ![c] = {}]
    /\ temp' = [temp EXCEPT ![c] = FALSE]
    /\ IF plug[c] = "registered" \/ (plug[c] = "leased" /\ given[c] = {})
       THEN SetPlug(c, "released") ELSE UNCHANGED plug
    /\ UNCHANGED <<api, ctxDone, arrow, outs, given, res, open>>

\* The caller releases the reader or closes the handle.
CallerReleases(c) ==
    /\ pc[c] = "done" /\ given[c] # {}
    /\ given' = [given EXCEPT ![c] = {}]
    /\ IF plug[c] = "leased" THEN SetPlug(c, "released") ELSE UNCHANGED plug
    /\ UNCHANGED <<pc, api, ctxDone, holds, mem, arrow, temp, outs, res, open>>

\* Mutant of CloseHandle: Close does not take the lock.
CloseUnlocked(h) ==
    /\ open[h]
    /\ open' = [open EXCEPT ![h] = FALSE]
    /\ UNCHANGED <<pc, api, ctxDone, holds, mem, arrow, plug, temp, outs, given, res>>

\* Dataset.Close, Fragment.Close, BlobList.Close
CloseHandle(h) ==
    /\ open[h]
    /\ \A c \in Calls : ~(holds[c] /\ m[c].on = h)
    /\ open' = [open EXCEPT ![h] = FALSE]
    /\ UNCHANGED <<pc, api, ctxDone, holds, mem, arrow, plug, temp, outs, given, res>>

CtxDone(c) ==
    /\ pc[c] # "done" /\ ~ctxDone[c]
    /\ ctxDone' = [ctxDone EXCEPT ![c] = TRUE]
    /\ UNCHANGED <<pc, api, holds, mem, arrow, plug, temp, outs, given, res, open>>

CallStep(c) ==
    \/ Begin(c) \/ Args(c) \/ Lock(c) \/ Prepare(c) \/ Reject(c) \/ Enter(c)
    \/ NativeFails(c) \/ NativeReturns(c)
    \/ Second(c) \/ SecondFails(c) \/ Enter2(c) \/ Native2Returns(c)
    \/ Collect(c) \/ Return(c)

Terminated == (\A c \in Calls : pc[c] = "done" /\ given[c] = {}) /\ UNCHANGED vars

Next ==
    \/ \E c \in Calls : CallStep(c) \/ CallerReleases(c) \/ CtxDone(c)
    \/ \E h \in Handles : CloseHandle(h)
    \/ Terminated

Spec == Init /\ [][Next]_vars

-----------------------------------------------------------------------------
(* Properties.                                                             *)

\* Native code only runs on a handle that is open, although Close may be
\* called at any time, and on a scanner that exists, although the dataset it
\* was made from may be closed by then.
NoUseAfterClose ==
    \A c \in Calls :
        /\ pc[c] = "native" /\ m[c].on \in Handles => open[m[c].on]
        /\ pc[c] = "native2" => temp[c]

\* Methods of one fragment never run native code at the same time, whatever
\* goroutines call them (fragmentOp).
FragmentSerial ==
    \A c, d \in Calls :
        pc[c] = "native" /\ pc[d] = "native" /\ m[c].on = "fragment" /\ m[d].on = "fragment"
        => c = d

\* While native code may call a plugin back - during the call, and for as long
\* as a reader or handle that shares it lives - the plugin is registered.
CallbackServed ==
    \A c \in Calls : "plugin" \in use[c] =>
        /\ pc[c] = "native" /\ m[c].temp # "unwrapped" => plug[c] = "registered"
        /\ pc[c] = "native2" => plug[c] \in {"registered", "leased"}
        /\ given[c] # {} /\ m[c].plugin = "leased" => plug[c] = "leased"

\* However a method returns, it leaves no lock, C memory, scanner or native
\* output behind; what it handed out it handed out on success; and its plugin
\* outlives it only with something of the caller's that uses it.
ReturnsClean ==
    \A c \in Calls : pc[c] = "done" =>
        /\ ~holds[c] /\ mem[c] = {} /\ ~temp[c] /\ outs[c] = {}
        /\ given[c] # {} => res[c] = "ok"
        /\ plug[c] # "registered"
        /\ plug[c] = "leased" => given[c] # {}

\* A method that refuses its arguments, its handle or its context has not
\* exported anything: a reader it was given is still the caller's to use.
RefusedKeepsReader ==
    \A c \in Calls : res[c] \in {"refused", "closed", "ctx"} => arrow[c] = "none"

\* Exported structs are released by the native side on every path through it:
\* they are left behind only if ffiCall returned without running it.
ArrowLeftOnlyBeforeNative ==
    \A c \in Calls :
        pc[c] = "done" => arrow[c] # "imported" /\ (arrow[c] = "exported" => res[c] = "rejected")

\* "The native side always takes ownership of the exported pair, even on
\* error, so the producer is released exactly once" (newNative; the other
\* exporting methods say the same): no returned method leaves structs behind.
ArrowReleased == \A c \in Calls : pc[c] = "done" => arrow[c] # "exported"

\* The calls whose native code is inside a handle, and the handle's frees.
InNative(h) == {c \in Calls : pc[c] = "native" /\ m[c].on = h}
Frees(h) == IF open[h] THEN 0 ELSE 1

TheDataset == INSTANCE SharedHandle WITH
    Users <- Calls, using <- InNative("dataset"), frees <- Frees("dataset")
TheFragment == INSTANCE SharedHandle WITH
    Users <- Calls, using <- InNative("fragment"), frees <- Frees("fragment")
TheBlobList == INSTANCE SharedHandle WITH
    Users <- Calls, using <- InNative("bloblist"), frees <- Frees("bloblist")

\* Every handle is the shared object that SharedHandle promises: native code is
\* given it only while it is open, and Close frees it once, when no native code is
\* inside it, whichever methods and goroutines meet.
ImplementsHandle == TheDataset!Spec /\ TheFragment!Spec /\ TheBlobList!Spec

\* How far a call is.
Stage(l) ==
    CASE l = "idle" -> 0 [] l = "args" -> 1 [] l = "lock" -> 2 [] l = "prepare" -> 3
      [] l = "ffi" -> 4 [] l = "native" -> 5 [] l = "second" -> 6 [] l = "ffi2" -> 7
      [] l = "native2" -> 8 [] l = "collect" -> 9 [] l = "return" -> 10 [] OTHER -> 11

\* Every step of a method call takes it closer to its return, on the error paths
\* too, and no other call, Close or context sets it back.
CallAdvances ==
    [][\A c \in Calls : /\ CallStep(c) => Stage(pc'[c]) > Stage(pc[c])
                        /\ pc'[c] # pc[c] => CallStep(c)]_vars

\* What becomes of exported structs and of a registration.
ArrowMoves == {<<"none", "exported">>, <<"exported", "imported">>, <<"imported", "released">>}
PlugMoves == {<<"none", "registered">>, <<"none", "released">>, <<"registered", "leased">>,
              <<"registered", "released">>, <<"leased", "released">>}

\* Structs are exported, imported and released at most once each, and a plugin is
\* registered and released at most once: whichever of Go, the native call and the
\* caller ends a registration, it never comes back and no other of them ends it too.
SingleUse ==
    [][\A c \in Calls :
          /\ arrow'[c] = arrow[c] \/ <<arrow[c], arrow'[c]>> \in ArrowMoves
          /\ plug'[c] = plug[c] \/ <<plug[c], plug'[c]>> \in PlugMoves]_vars

\* A plugin is registered only by the step that the method registers it in.
Fresh(c) ==
    /\ pc[c] \in {"idle", "args"} => plug[c] = "none"
    /\ pc[c] \in {"lock", "prepare"} /\ m[c].plugin = "leased" => plug[c] = "none"
    /\ pc[c] \in {"ffi", "native", "second"} /\ m[c].temp = "unwrapped" => plug[c] = "none"
PlugFresh == \A c \in Calls : Fresh(c)
=============================================================================
