----------------------------- MODULE Checkpoint -----------------------------
(***************************************************************************)
(* What a resumable computation of new columns promises: a checkpoint only *)
(* grows, each batch is saved once and with its value, a fragment is kept  *)
(* once and when all its batches are saved, and the columns are committed  *)
(* at most once.  Crashes, failures and cancellations lose none of it.     *)
(***************************************************************************)
EXTENDS Naturals

CONSTANTS
    Fragments,   \* the number of fragments
    Batches,     \* the number of batches of each
    Value,       \* the value of each batch, by fragment and batch
    None         \* nothing

VARIABLES
    batches,     \* the batches saved
    fragments,   \* the fragments kept
    columns      \* the columns committed

vars == <<batches, fragments, columns>>

Row(f) == [b \in 1..Batches |-> Value[<<f, b>>]]

Init ==
    /\ batches = [p \in (1..Fragments) \X (1..Batches) |-> None]
    /\ fragments = [f \in 1..Fragments |-> None]
    /\ columns = None

Save(f, b) ==
    /\ batches[<<f, b>>] = None /\ fragments[f] = None /\ columns = None
    /\ batches' = [batches EXCEPT ![<<f, b>>] = Value[<<f, b>>]]
    /\ UNCHANGED <<fragments, columns>>

Keep(f) ==
    /\ fragments[f] = None /\ columns = None
    /\ \A b \in 1..Batches : batches[<<f, b>>] # None
    /\ fragments' = [fragments EXCEPT ![f] = Row(f)]
    /\ UNCHANGED <<batches, columns>>

Commit ==
    /\ columns = None
    /\ columns' = [f \in 1..Fragments |-> Row(f)]
    /\ UNCHANGED <<batches, fragments>>

Next ==
    \/ \E f \in 1..Fragments : Keep(f) \/ \E b \in 1..Batches : Save(f, b)
    \/ Commit

Spec == Init /\ [][Next]_vars
=============================================================================
