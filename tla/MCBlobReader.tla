---------------------------- MODULE MCBlobReader ----------------------------
EXTENDS BlobReader

CONSTANTS r1, r2

\* A blob that ends inside a buffer, and one that an int64 cannot measure.
MCSizes == {2, 5}

\* The cursor is moved and read at, before the blob, inside and behind it.
MCOffsets == {-1, 3}

MCReads == [kind : {"read"}, len : {0, 2}, arg : {0}, whence : {"start"}]
MCReadAts == [kind : {"readAt"}, len : {0, 2}, arg : MCOffsets, whence : {"start"}]
MCSeeks == [kind : {"seek"}, len : {0}, arg : MCOffsets, whence : Whences]

\* One goroutine makes any call, another only reads.
MCMayCall ==
    [r \in {r1, r2} |-> IF r = r1 THEN MCReads \cup MCReadAts \cup MCSeeks
                        ELSE {a \in MCReads : a.len = 2}]
=============================================================================
