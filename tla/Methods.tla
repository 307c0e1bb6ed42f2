------------------------------ MODULE Methods ------------------------------
(***************************************************************************)
(* The exported methods of lance-go, one definition each.  A method is     *)
(* described by what it locks, what it allocates and where, what crosses   *)
(* the FFI boundary and what comes back: everything about it that ApiCall, *)
(* which runs it, can tell apart.  What a method asks of the native        *)
(* library is DatasetHandle's subject.                                     *)
(*                                                                         *)
(*   on      the handle whose lock is held over the native call            *)
(*   ctx     the caller's context governs the call                         *)
(*   refuse  where the method may return an error of its own: "before" it  *)
(*           takes the lock, or "inside" (bad argument, marshalling)       *)
(*   args    where it allocates C memory for its arguments                 *)
(*   with    which of these a call may use: "arrow", C Data structs that   *)
(*           it exports to the native side; "plugin", a Go callback        *)
(*   plugin  "scoped": released when the method returns;                   *)
(*           "leased": passed on to the native object that calls back      *)
(*   outs    what the native side allocates for it                         *)
(*   temp    a native object that the method makes, uses and closes        *)
(***************************************************************************)
Handles == {"dataset", "fragment", "bloblist"}
Places == {"before", "inside"}

\* Strings that are decoded or only copied, byte buffers, an Arrow schema, a
\* stream that is drained into one batch, and what the caller receives: a
\* stream and a handle.
Outs == {"json", "text", "bytes", "schema", "batch", "stream", "handle"}
Handed == {"stream", "handle"}

\* A leased plugin needs a native object to own it.
Shapes ==
    {m \in [on : Handles \cup {"none"},
            ctx : BOOLEAN,
            refuse : SUBSET Places,
            args : SUBSET Places,
            with : SUBSET (SUBSET {"arrow", "plugin"}),
            plugin : {"none", "scoped", "leased"},
            outs : SUBSET Outs,
            temp : {"none", "scanner", "unwrapped"}] :
        /\ m.plugin = "leased" => m.temp # "none" \/ "handle" \in m.outs
        /\ m.plugin = "scoped" => m.temp = "none"
        /\ m.plugin = "none" => \A w \in m.with : "plugin" \notin w
        /\ m.temp = "unwrapped" => m.plugin = "leased" /\ m.on = "none"}

-----------------------------------------------------------------------------
(* The shapes most methods share.                                          *)

\* datasetOp and datasetDo around one native call that fills a scalar, if
\* anything.
DatasetDo == [on |-> "dataset", ctx |-> TRUE, refuse |-> {}, args |-> {}, with |-> {{}},
              plugin |-> "none", outs |-> {}, temp |-> "none"]

\* The native call returns a JSON string, which is decoded and freed.
GetJSON == [DatasetDo EXCEPT !.outs = {"json"}]

\* A string argument, converted under the lock.
CString == [DatasetDo EXCEPT !.args = {"inside"}]

\* Options marshalled before datasetOp, or in the function it runs.
MarshalOptions == [DatasetDo EXCEPT !.args = {"before"}, !.refuse = {"before"}]
MarshalInside == [DatasetDo EXCEPT !.args = {"inside"}, !.refuse = {"inside"}]

\* The result is a stream for the caller, or one batch drained from a stream.
ObservedStream == [MarshalInside EXCEPT !.outs = {"stream"}]
DrainSingleBatch == [MarshalInside EXCEPT !.outs = {"batch"}]

\* No receiver, hence no lock.
Constructor == [MarshalOptions EXCEPT !.on = "none", !.outs = {"handle"}]

\* A serialised message and its JSON view.
EmitBytes == [DatasetDo EXCEPT !.outs = {"bytes", "json"}]

FragmentOp == [DatasetDo EXCEPT !.on = "fragment"]

\* BlobFile.withLock
WithLock == [DatasetDo EXCEPT !.on = "bloblist"]

-----------------------------------------------------------------------------
(* dataset.go, cache.go, session.go                                        *)

Open == Constructor
\* Open, then wrapObjectStoreCache.
OpenWithObjectStoreCache ==
    [Open EXCEPT !.with = {{"plugin"}}, !.plugin = "leased", !.temp = "unwrapped"]
Write == [Constructor EXCEPT !.with = {{"arrow"}, {"arrow", "plugin"}}, !.plugin = "scoped"]
DatasetCountRows == CString
Schema == [DatasetDo EXCEPT !.outs = {"schema"}]
Version == GetJSON
LatestVersion == DatasetDo
NewSession == [DatasetDo EXCEPT !.on = "none", !.ctx = FALSE, !.outs = {"handle"}]
NewSessionWithCacheBackend ==
    [NewSession EXCEPT !.refuse = {"before"}, !.with = {{"plugin"}}, !.plugin = "leased"]

(* config.go, maintenance.go, writeparams.go                               *)

UpdateMap == [MarshalOptions EXCEPT !.outs = {"json"}]
Config == GetJSON
StorageOptions == GetJSON
UpdateConfig == UpdateMap
DeleteConfigKeys == MarshalOptions
Metadata == GetJSON
UpdateMetadata == UpdateMap
DeleteMetadataKeys == UpdateMap
UpdateSchemaMetadata == UpdateMap
ReplaceSchemaMetadata == UpdateMap
FieldMetadata == [MarshalOptions EXCEPT !.args = Places]
TruncateTable == DatasetDo
CountDeletedRows == DatasetDo
IsStale == DatasetDo
HasSuccessorVersion == DatasetDo
Validate == DatasetDo
MigrateManifestPathsV2 == DatasetDo
NumSmallFiles == DatasetDo
CacheStats == GetJSON
Paths == GetJSON
DataStats == GetJSON
CleanupWithPolicy == [MarshalOptions EXCEPT !.outs = {"json"}]
CompactFiles == [MarshalOptions EXCEPT !.outs = {"json"}]
CleanupOldVersions == [MarshalOptions EXCEPT !.outs = {"json"}]
AddBases == MarshalInside

(* version.go, branch.go                                                   *)

Checkout == [MarshalInside EXCEPT !.outs = {"handle"}]
CheckoutLatest == DatasetDo
Restore == DatasetDo
Versions == GetJSON
TagsMutate == MarshalInside
TagsList == GetJSON
TagsGet == [CString EXCEPT !.outs = {"json"}]
TagsGetVersion == CString
ManifestLocation == GetJSON
CreateBranch == [MarshalInside EXCEPT !.outs = {"handle"}]
CheckoutBranch == [CString EXCEPT !.outs = {"handle"}]
DeleteBranch == CString
ListBranches == GetJSON
Clone == [MarshalInside EXCEPT !.outs = {"handle"}]
AppendRows == [DatasetDo EXCEPT !.with = {{"arrow"}}]
TagsListOrdered == GetJSON
TagsReplaceMetadata == MarshalInside

(* take.go, delta.go, sql.go, fragment.go, blob.go                         *)

Take == DrainSingleBatch
TakeScan == ObservedStream
Sample == DrainSingleBatch
DeltaRows == ObservedStream
DeltaTransactions == [MarshalInside EXCEPT !.outs = {"json"}]
SQLReader == ObservedStream
Fragments == GetJSON
Fragment == [DatasetDo EXCEPT !.outs = {"handle"}]
FragmentCountRows == [FragmentOp EXCEPT !.args = {"inside"}]
CountDeletions == FragmentOp
PhysicalRows == FragmentOp
FragmentMetadata == [FragmentOp EXCEPT !.outs = {"json"}]
FragmentTake == [DrainSingleBatch EXCEPT !.on = "fragment"]
FragmentScannerReader == [ObservedStream EXCEPT !.on = "fragment"]
TakeBlobs == [MarshalInside EXCEPT !.outs = {"handle"}]
BlobRead == [WithLock EXCEPT !.outs = {"bytes"}]
BlobReadRange == [WithLock EXCEPT !.outs = {"bytes"}]
BlobSeek == WithLock
BlobTell == WithLock
BlobURI == [WithLock EXCEPT !.outs = {"text"}]
BlobFileClose == [WithLock EXCEPT !.ctx = FALSE]

(* mutation.go, evolution.go, hooks.go                                     *)

Delete == [CString EXCEPT !.refuse = {"before"}, !.outs = {"json"}]
Update == [MarshalInside EXCEPT !.refuse = Places, !.outs = {"json"}]
MergeInsertExecute == [MarshalInside EXCEPT !.with = {{"arrow"}}, !.outs = {"json"}]
AddColumnsSQL == MarshalOptions
AddColumnsFromReader == [MarshalOptions EXCEPT !.with = {{"arrow"}}]
AddColumnsAllNulls == [MarshalOptions EXCEPT !.with = {{"arrow"}}]
DropColumns == MarshalOptions
AlterColumns == MarshalOptions
Merge == [MarshalOptions EXCEPT !.with = {{"arrow"}}]
AddColumnsUDF ==
    [MarshalInside EXCEPT !.refuse = Places, !.with = {{"arrow", "plugin"}}, !.plugin = "scoped"]

(* index.go, distributed.go                                                *)

CreateIndex == [MarshalInside EXCEPT !.with = {{}, {"arrow"}}]
ListIndices == GetJSON
IndexStatistics == [CString EXCEPT !.outs = {"text"}]
DropIndex == CString
OptimizeIndices == MarshalInside
PrewarmIndex == CString
PrewarmIndexWithOptions == MarshalInside
DescribeIndices == [MarshalInside EXCEPT !.outs = {"json"}]
LoadIndicesByCriteria == [CString EXCEPT !.refuse = {"before"}, !.outs = {"json"}]
RemapIndex == CString
CreateIndexUncommitted ==
    [EmitBytes EXCEPT !.refuse = Places, !.args = {"inside"}, !.with = {{}, {"arrow"}}]
MergeIndexSegments == [EmitBytes EXCEPT !.refuse = {"inside"}, !.args = {"inside"}]
CommitIndexSegments == [MarshalInside EXCEPT !.outs = {"text"}]
ReadIndexPartition == [CString EXCEPT !.outs = {"stream"}]
PlanCompaction == [MarshalOptions EXCEPT !.outs = {"json"}]

(* transaction.go                                                          *)

WriteFragments == [Constructor EXCEPT !.with = {{"arrow"}}, !.outs = {"bytes", "json"}]
CommitExecute == Constructor
CommitExecuteBatch == [Constructor EXCEPT !.outs = {"json"}]
CommitOperation == Constructor
ReadTransaction == EmitBytes
Transactions == GetJSON
Manifest == GetJSON
ListDetachedManifests == GetJSON

(* scanner.go                                                              *)

\* Every terminal method makes a native scanner under the dataset's lock and
\* executes it after the lock is released.
NewNative ==
    [MarshalInside EXCEPT !.refuse = Places, !.with = SUBSET {"arrow", "plugin"},
                          !.plugin = "leased", !.temp = "scanner"]
ScannerReader == [NewNative EXCEPT !.outs = {"stream"}]
ScannerCountRows == NewNative
ScannerBatch == [NewNative EXCEPT !.outs = {"batch"}]
ScannerExplain == [NewNative EXCEPT !.outs = {"text"}]
ScannerAnalyze == [NewNative EXCEPT !.outs = {"text"}]

-----------------------------------------------------------------------------
AllMethods ==
    {Open, OpenWithObjectStoreCache, Write, DatasetCountRows, Schema, Version, LatestVersion,
     NewSession, NewSessionWithCacheBackend, Config, StorageOptions, UpdateConfig,
     DeleteConfigKeys, Metadata, UpdateMetadata, DeleteMetadataKeys, UpdateSchemaMetadata,
     ReplaceSchemaMetadata, FieldMetadata, TruncateTable, CountDeletedRows, IsStale,
     HasSuccessorVersion, Validate, MigrateManifestPathsV2, NumSmallFiles, CacheStats, Paths,
     DataStats, CleanupWithPolicy, CompactFiles, CleanupOldVersions, AddBases, Checkout,
     CheckoutLatest, Restore, Versions, TagsMutate, TagsList, TagsGet, TagsGetVersion,
     ManifestLocation, CreateBranch, CheckoutBranch, DeleteBranch, ListBranches, Clone,
     AppendRows, TagsListOrdered, TagsReplaceMetadata, Take, TakeScan, Sample, DeltaRows,
     DeltaTransactions, SQLReader, Fragments, Fragment, FragmentCountRows, CountDeletions,
     PhysicalRows, FragmentMetadata, FragmentTake, FragmentScannerReader, TakeBlobs, BlobRead,
     BlobReadRange, BlobSeek, BlobTell, BlobURI, BlobFileClose, Delete, Update,
     MergeInsertExecute, AddColumnsSQL, AddColumnsFromReader, AddColumnsAllNulls, DropColumns,
     AlterColumns, Merge, AddColumnsUDF, CreateIndex, ListIndices, IndexStatistics, DropIndex,
     OptimizeIndices, PrewarmIndex, PrewarmIndexWithOptions, DescribeIndices,
     LoadIndicesByCriteria, RemapIndex, CreateIndexUncommitted, MergeIndexSegments,
     CommitIndexSegments, ReadIndexPartition, PlanCompaction, WriteFragments, CommitExecute,
     CommitExecuteBatch, CommitOperation, ReadTransaction, Transactions, Manifest,
     ListDetachedManifests, ScannerReader, ScannerCountRows, ScannerBatch, ScannerExplain,
     ScannerAnalyze}
=============================================================================
