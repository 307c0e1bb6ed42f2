-------------------------- MODULE MCDatasetHandle --------------------------
(* Instances of DatasetHandle for TLC: which methods race on the handle.   *)
EXTENDS DatasetHandle, TLC

CONSTANTS del, upd, app, lat, udf, cnt, cls

\* Delete, Append, CountRows and Close.
CallsKind ==
    (del :> "mutate") @@ (app :> "commit") @@ (cnt :> "read") @@ (cls :> "close")

\* Delete and Update.
RaceKind == (del :> "mutate") @@ (upd :> "mutate")

\* Operations that hold the native mutex throughout, with a call to CountRows
\* from the callback of AddColumnsUDF.
GuardedKind ==
    (app :> "commit") @@ (udf :> "udf") @@ (lat :> "refresh") @@ (cnt :> "read")

\* AddColumnsUDF, with a call to CountRows from its callback, and Close.
ReentrantKind == (udf :> "udf") @@ (cnt :> "read") @@ (cls :> "close")
=============================================================================
