----------------------------- MODULE MCApiCall -----------------------------
EXTENDS ApiCall

CONSTANTS c1, c2

\* One goroutine calls any method; another scans the fragment.
MCMayCall ==
    [c \in {c1, c2} |-> IF c = c1 THEN AllMethods ELSE {FragmentScannerReader}]
=============================================================================
