----------------------------- MODULE MCSession -----------------------------
(* The instance of Session for TLC: which calls share the session.         *)
EXTENDS Session, TLC

CONSTANTS wr, sc, cl, pw

\* Session.WriteWithProgress, Scan, Close, and a Write without the session from
\* the progress callback.
SharedKind == (wr :> "write") @@ (sc :> "scan") @@ (cl :> "close") @@ (pw :> "write")
=============================================================================
