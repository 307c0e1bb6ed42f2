---------------------------- MODULE SharedHandle ----------------------------
(***************************************************************************)
(* What the package promises about a native object that several calls      *)
(* share, a dataset, a session or a list of blobs: a call is given the     *)
(* object only while it exists, and the object is freed once, when no call *)
(* is using it.  How the callers are kept out (a lock, a reference count,  *)
(* an owner goroutine) is left to the module that implements it.           *)
(***************************************************************************)
EXTENDS Naturals

CONSTANT Users     \* the calls that may use the object

VARIABLES
    using,         \* the calls that have been given the object
    frees          \* how often the object has been freed

vars == <<using, frees>>

Init == using = {} /\ frees = 0

Enter(u) ==
    /\ frees = 0
    /\ using' = using \cup {u}
    /\ UNCHANGED frees

Leave(u) ==
    /\ u \in using
    /\ using' = using \ {u}
    /\ UNCHANGED frees

Free ==
    /\ frees = 0
    /\ using = {}
    /\ frees' = 1
    /\ UNCHANGED using

Next == (\E u \in Users : Enter(u) \/ Leave(u)) \/ Free

Spec == Init /\ [][Next]_vars
=============================================================================
