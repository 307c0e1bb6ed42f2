---------------------------- MODULE BatchStream ----------------------------
(***************************************************************************)
(* What a reader over a native stream promises: it delivers batches while  *)
(* it is open, it ends exactly once, in one outcome that never changes,    *)
(* and the native stream is released and the span is closed in that step.  *)
(***************************************************************************)
EXTENDS Naturals

CONSTANT Outcomes   \* how a stream can end

VARIABLES
    open,           \* the native stream has not been released
    delivered,      \* how many batches the consumer has got
    outcome         \* how it ended, empty until then

Init ==
    /\ open = TRUE
    /\ delivered = 0
    /\ outcome = <<>>

Deliver ==
    /\ open
    /\ delivered' = delivered + 1
    /\ UNCHANGED <<open, outcome>>

Finish ==
    /\ open
    /\ open' = FALSE
    /\ outcome' \in Outcomes
    /\ UNCHANGED delivered

Next == Deliver \/ Finish

Spec == Init /\ [][Next]_<<open, delivered, outcome>>
=============================================================================
