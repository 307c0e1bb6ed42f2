----------------------------- MODULE NativeCall -----------------------------
(***************************************************************************)
(* What ffiCall promises to the methods that use it, whatever the threads, *)
(* the tokens and the watcher do: a call that a callback makes is refused, *)
(* a call whose context has ended may be refused or ended, every other one *)
(* runs the native function once and reports what that function said.  The *)
(* outcome is decided once, and only then does ffiCall return.             *)
(***************************************************************************)

CONSTANTS
    Calls,           \* executions of ffiCall
    Uncancellable    \* those whose native function ignores the context

VARIABLES
    stage,           \* idle, called, inside (the native function), answered, returned
    inner,           \* the call is made by a callback
    ended,           \* its context has ended
    outcome          \* what it returns

vars == <<stage, inner, ended, outcome>>

Init ==
    /\ stage = [c \in Calls |-> "idle"]
    /\ inner = [c \in Calls |-> FALSE]
    /\ ended = [c \in Calls |-> FALSE]
    /\ outcome = [c \in Calls |-> "none"]

Move(c, from, to) ==
    /\ stage[c] = from
    /\ stage' = [stage EXCEPT ![c] = to]

End(c) ==
    /\ ended' = [ended EXCEPT ![c] = TRUE]
    /\ UNCHANGED <<stage, inner, outcome>>

Begin(c) ==
    /\ Move(c, "idle", "called")
    /\ \E b \in BOOLEAN : inner' = [inner EXCEPT ![c] = b]
    /\ UNCHANGED <<ended, outcome>>

\* ffiCall returns without running the native function.
Refuse(c) ==
    /\ Move(c, "called", "answered")
    /\ \/ inner[c] /\ outcome' = [outcome EXCEPT ![c] = "reentrant"]
       \/ ~inner[c] /\ ended[c] /\ outcome' = [outcome EXCEPT ![c] = "ended"]
    /\ UNCHANGED <<inner, ended>>

Enter(c) ==
    /\ Move(c, "called", "inside")
    /\ ~inner[c]
    /\ UNCHANGED <<inner, ended, outcome>>

\* The native function returns: with a result, with an error of its own, or
\* because its context has ended.
Answer(c) ==
    /\ Move(c, "inside", "answered")
    /\ \E r \in {"ok", "failed", "ended"} :
          /\ r = "ended" => ended[c] /\ c \notin Uncancellable
          /\ outcome' = [outcome EXCEPT ![c] = r]
    /\ UNCHANGED <<inner, ended>>

Return(c) ==
    /\ Move(c, "answered", "returned")
    /\ UNCHANGED <<inner, ended, outcome>>

Next == \E c \in Calls : End(c) \/ Begin(c) \/ Refuse(c) \/ Enter(c) \/ Answer(c) \/ Return(c)

Spec == Init /\ [][Next]_vars
=============================================================================
