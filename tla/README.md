# A TLA+ model of lance-go

lance-go is a Go package (`lance/`) over a Rust library (`rust/`) that exports
the `lance` crate through C functions. Most of what can go wrong lies between
the two: OS threads with state of their own, a shared asynchronous runtime,
native memory with explicit owners, and one handle used by many goroutines.
This directory models that part, checks it with TLC and proves the central
properties with TLAPS.

## Inventory

| Part | State | Operations | What is hard |
| --- | --- | --- | --- |
| FFI call protocol (`errors.go`, `runtime.rs`, `error.rs`) | thread-local cancel slot and last error, token, watcher goroutine | `ffiCall`, token new/set/cancel/free, `block_on`, `block_on_cancellable` | thread reuse, cancellation racing completion, teardown order, callbacks that call back |
| Dataset handle (`dataset.go`, `ops.go`, `dataset.rs`, `mutation.rs`) | `d.mu`, `d.ptr`, GC cleanup, native mutex, version | every `Dataset` method, `Close` | close racing methods and collector, order of commit and store, lock cycles |
| Record readers (`reader.go`, `iter.go`) | reference count, stream, current batch, error, span | `Next`, `Retain`, `Release`, finalizer | last `Release` during `Next`, ends that race |
| Exported structs (`arrow_bridge.rs`, `Write`, `MergeInsert`, scanner) | owner of the stream or array | export, import, release | early return between export and import |
| Plugin registry (`callbacks.go`, `callbacks.rs`) | handle table, native owners | register, look up, invoke, release | stale handles, last owner, calls in flight |
| Sessions (`session.go`, `session.rs`) | lock, native session, cache registrations | `Open`, `Write`, `Stats`, `Close` | progress callbacks under the session's lock |
| Go caches (`cache.go`, `cache.rs`) | entries, byte ranges | get, insert, ranges, invalidate | hits and misses mixed, short reads, foreign entries, failing caches |
| UDF hooks (`hooks.go`, `hooks.rs`) | checkpoints, batches in transit | map, get and insert batch or fragment | crash and resumption, failing callbacks |
| Scanner (`scanner.go`, `scanner.rs`) | builder configuration, first error | setters, terminal methods | terminal methods run concurrently |
| Blobs and fragments (`blob.go`, `fragment.go`) | child handles, cursor | `Get`, `Read`, `Seek`, `Close` | children outliving the parent, cursor at the end |
| Transactions, branches, distributed builds | staged fragments, references, tasks | write, plan, execute, commit | conflicts, partial failure, stale plans |
| Options, encodings, storage | none | pure conversions | boundary values, conflicting options |

`PROJECT.json` lists every part with its status, and the hazards at the lines
where they bite.

Everything goes through `ffiCall` (`FfiCall`). A method locks its handle, lends
arguments, Arrow structs and plugins to the native side and takes back outputs
(`ApiCall`, with one description per method in `Methods`); what it does to the
version of the handle is `DatasetHandle`. Streams it returns are `RecordReader`s.
Native code calls back into Go for progress (`Session`), caches (`Session` for
their registration, `PluginCache` for their contents) and user functions
(`UdfRun`). `BlobReader` adds a Go cursor on top of a native blob.

## Modules

### FfiCall and NativeCall

One element of `Calls` is one execution of `ffiCall`; `pc` follows its source
lines, with one action per statement that touches shared state. `slot` and
`lastErr` are the thread-locals `CURRENT_CANCEL` and `LAST_ERROR`; `watcher` is
the goroutine; `racing`, `ready`, `polled` and `driven` describe the future that
`block_on_cancellable` drives. Its biased select is two polls, of the future and
then of the token, and the future may complete between them: then its result is
dropped and the call reports the end of its context, although the work may be
done. A nested call is made by a callback and runs on
the driving thread or on a runtime worker. `Migrations` are calls whose native
function uses the plain `block_on`. Error codes are reduced to Ok, Cancelled and
Failed. `get_next` of a stream drives the runtime without `ffiCall`
(`arrow_bridge.rs:57`) and so without its test for re-entrancy: `NoNestedBlockOn`
is about calls through `ffiCall`, and a callback must not read a stream either.

`NativeCall` is the promise of `ffiCall` to the methods that use it: a call from a
callback is refused, one whose context has ended may be refused or ended, every
other one runs its native function once and reports what that function said. The
outcome is decided once, when the native function returns.

### DatasetHandle and SharedHandle

One element of `Ops` is one method call, following one of the patterns in the
source: read on a clone, mutate (commit from a clone, then
`store_new_dataset`), commit with the native mutex held, the same with
callbacks, refresh, close. `readers`, `blocked` and `writer` model Go's RWMutex,
where a waiting `Lock` stops new readers. A commit gets the next version;
conflicts and retries inside the crate end in a commit or a failure. A mutation
that finds nothing to change commits nothing and stores the clone it started from
(`base`), whatever the handle is at by then. `acked` and
`settled` are history variables for the properties. That calls from callbacks
are rejected is taken from `FfiCall` (`NestedRejected`).

`SharedHandle` is the promise of every handle of the package: a call is given the
native object only while it exists, and the object is freed once, with no call
inside. `DatasetHandle`, `Session`, `BlobReader` (for the list) and `ApiCall` (for
dataset, fragment and list) implement it, each with its own locks and cleanups.

### RecordReader and BatchStream

`ownedRecordReader`, from the moment the native call has filled the stream.
`Next` is two steps around `get_next` with `r.mu` held; `Release` is two steps,
the atomic decrement and `forceRelease`. Any goroutine may call `Next` while
another drops the last reference; calls that the code answers with a panic
(more releases than references, retaining a released reader) are not made. Each
batch counts one row. `BatchStream` is the promise: batches while open, one end,
one outcome.

### Session and PluginLease

One element of `Ops` is one call: `Open`, `Write`, `Stats` and `Close` on a
session, or a scan on a dataset opened through it. `pc` follows `Write` from its
context check to its deferred functions in the order they run (unlock, then
unregister); the other methods take the part of that path they have. `mu` and
`ptr` are the fields of `Session`, `armed` its cleanup. `owners` are the holders
of a clone of the native session: the handle, running operations and what they
returned. `backend` and `progress` are registry entries, `call` a task on the
blocking pool and `stream` the exported reader. A cancelled operation drops its
future, while its task on the pool goes on without a lease, and the crate may
drop the reader later. `ffiCall` is reduced to the results of `FfiCall`.
Dataset methods other than the scan are in `DatasetHandle`.

`PluginLease` is the promise of `OwnedGoPlugin`: clones are made from clones,
the drop of the last one releases the registration, and nothing revives it.

### ApiCall and Methods

`Methods` has one record per exported method: the handle it locks, whether the
context governs it, where it may refuse, where it allocates C memory, what it may
export or register, what the native side allocates for it. `ApiCall` runs such
records. One element of `Calls` is one call; `pc` follows `datasetOp` and its
variants: arguments, lock and `checkOpen`, preparation in the body, `ffiCall`,
the native function, for scanner terminals and `wrapObjectStoreCache` a second
native call, the conversion of the outputs, the deferred functions. `mem`,
`arrow`, `plug`, `temp`, `outs` and `given` say who owns what. A call in
`FromPlugins` may come from a callback, where `ffiCall` rejects it. Waiting
writers, which only matter for progress, are in `DatasetHandle`.

### BlobReader and ByteCursor

One `BlobReader` and the goroutines that share it. `Read` and `Seek` hold `r.mu`;
`ReadAt` does not. The size and the range are read under two separate read locks
of the blob list, which a waiting `Close` bars, so each is an action. `MaxInt`
stands for the largest int64; sizes may exceed it, and additions wrap.
`Seek` tests for overflow as the code does, on wrapping numbers (`Overflows`,
`Target`). The native read is taken to return the whole range or to fail; a
shorter answer, which `readAt` would pass on with `io.EOF`, is not considered.
`ByteCursor` is the promise of `io.ReadSeeker` and `io.ReaderAt`, call by call:
each call takes effect at one moment between its start and its return, a `Read`
delivers the bytes at the cursor and moves it past them, a `ReadAt` delivers the
bytes at its offset, a `Seek` goes to base plus offset of that very call, computed
without any bound, and a call that fails moves nothing.

### PluginCache

`Tasks` read through the Go caches: `get`, `insert` and `get_or_insert` of an
index entry (`GoCacheBackend`), `get_opts` and `get_ranges` of file ranges
(`CachingObjectStore`). Each request encodes its key as the Rust side does and
decodes it as the Go side does; a string is a short sequence of numbers, a length
takes one place and is written modulo `Word` (2^32). The Go side also compares
lengths modulo 2^32 (`uint32(len(rd)) < n`), so it may reject a payload of 4 GiB or
more, which is a put that is lost. Key strings are assumed to be shorter than that.
A cache may fail a request, evict, be invalidated and hold an
entry that another version of Lance wrote. `Served` is the range that the inner
store returns for a request that runs past the end of the file. `get_opts` files
the bytes under that range, `get_ranges` under the range it asked for, so the cache
may hold short bytes under a longer range. `EntriesTrue` says that they are then
what a fetch of that range returns. A hit of `get_opts` on such an entry reports the
longer range (`Reported`, `cached_get_result`); `ResultsTrue` states that this is
the only case in which the reported range is not that of the bytes.

### UdfRun and Checkpoint

Runs of `AddColumnsUDF`, batch by batch: look the fragment up, look the batch up,
map it, save it, save the fragment, commit. Each callback of the mapper and of the
store has the steps of its adapter (import, call, export, deferred releases), and
`refs` counts the Arrow references that each side holds. A callback
may fail or panic, also after the store has saved the data; the run may be
cancelled; the process may crash. The store survives and the next run uses it,
or runs without one. The order in which the crate asks is external. The model
has two obligations of the application that the code relies on: the mapper is a
function of its batch, and the store gives away a reference with every batch it
returns, because the adapter releases it (`defer batch.Release()`), which the
comment on `UDFCheckpointStore` does not say.

`Checkpoint` is the promise of a resumable computation: each batch is saved once
and with its value, a fragment is kept once and after all its batches, the columns
are committed once. It has no runs, crashes or failures: they must not show.

## Runs

| Run | Instance | Shows |
| --- | --- | --- |
| `ffi_call` | 2 calls, 2 threads, 1 worker, 2 futures each | safety of `FfiCall`, that it implements `NativeCall`, that cancellations arrive (`CancelReaches`) and end the call (`CancelEndsCall`) |
| `handle_calls` | Delete (which may change nothing), Append, CountRows, Close, 3 versions | that it implements `SharedHandle` and leaks nothing; `SettledVisible`; waits follow one order (`NoCircularWait`); `EveryOpReturns` |
| `handle_guarded` | Append, AddColumnsUDF with a nested CountRows, CheckoutLatest | the handle never falls back; nested calls return |
| `handle_race` | Delete, Update | a violation, below |
| `handle_reentrant` | AddColumnsUDF, nested CountRows, Close | a violation, below |
| `record_reader` | 3 goroutines, 3 batches, 3 references | all properties of `RecordReader`, and refinement |
| `session` | Write with progress, scan, Close, a sessionless Write from the callback | that it implements `SharedHandle` and `PluginLease`, that awaited backend calls are served, that calls return |
| `api_calls` | any method, perhaps from a callback, and a scan of the fragment | who owns what on every path through a method |
| `api_export` | the same | a violation, below |
| `blob_reader` | any call and a `Read`, int64 up to 3, blobs of 2 and 5 bytes | the contracts of `io.Reader`, `io.ReaderAt` and `io.Seeker`; refinement; calls return |
| `plugin_cache` | 2 reads, 3 entries, ranges up to and beyond the end of a file of 2 bytes, lengths modulo 6 | results and entries are what a fetch of their keys returns |
| `udf_run` | 3 fragments of 3 batches, 4 runs | committed values, resumption, that it implements `Checkpoint`, released batches |

Bounds. Two calls on two threads let one leave state on a thread that the other
finds there, and run inside it from a callback. `MaxBlockOn` bounds the futures
one native function drives; two of them let a cancellation fall between futures.
`MaxVersion` leaves room for each committing method and for a commit from
elsewhere. Three goroutines let one be in `Next`, one in the last `Release` and
one idle. In `Session` an operation makes at most one backend call and one
progress report: later ones meet the same states of lock, lease and registration
as the first. The session run has no `Open` and no `Stats`, which take part of
the path of `Write`; the theorems hold for them too. In `ApiCall` calls interact
only through locks and `Close`, so two of them, one on the fragment with its
exclusive lock, meet every conflict; the methods that share a shape are one
element of `AllMethods`. In `BlobReader` the sizes are one that ends inside a
buffer and one beyond `MaxInt`, and the offsets lie before, inside and behind the
blob, so that sums overflow. The keys of `MCPluginCache` agree when their strings
are joined, or in all but the type, one is so long that its put is rejected, and its
ranges end inside, at and behind the end of the file. Four runs of the UDF let three be interrupted. The theorems have
none of these bounds.

Fairness. `CallStep` and `WatcherStep` are weakly fair: goroutines that can run
do run. Completion of native work is not assumed in `FfiCall`. In
`DatasetHandle`, `RecordReader`, `Session` and `BlobReader` native work
is assumed to end, in a result or a failure. What cannot be cancelled must end by
itself: `CancelEndsCall` is about futures that race the token, and not about a native
function that waits for a mutex (that is `EveryOpReturns`) or a callback that does
not return. `LockMu` of `BlobReader` is strongly
fair, since Go's mutexes hand over to a goroutine that has waited long. Nothing is
assumed of the application, contexts or the collector.

Deadlock is checked in every passing run but `udf_run`, where the application
stops after `MaxRuns` runs or when the columns are committed.

## Findings

* `handle_race`: Delete commits version 2, Update commits version 3 and stores
  it, Delete stores version 2. The handle is behind a version whose method has
  returned, against the comment on `store_new_dataset`. A Delete that finds nothing
  to delete does the same with the version it started from. `SettledVisible` is the
  weaker statement that holds.
* `handle_reentrant`: `datasetOp` takes the read lock before `ffiCall` tests for
  re-entrancy. With a `Close` waiting, a callback that uses its own handle parks
  in `RLock`; `Close` waits for the operation, and the operation for the
  callback. `handle_guarded` shows that without `Close` the call returns. `Write`
  holds the mutex of its session in the same way (`dataset.go:457`), so a
  progress callback must not call a method of that session; the session run has
  callbacks that use other entry points only.
* `api_export`: a method passes its context check, exports a reader, an array or
  a schema, and by then the context is done, or the call came from a callback:
  `ffiCall` returns before the native function and nobody releases what was
  exported, against the comments above the exports. `ArrowLeftOnlyBeforeNative`
  is what holds: these are the only windows. `ReaderLeftOnlyBeforeNative` says the
  same of `Write` while it waits for the session's lock, and is also what covers an
  argument that the native side rejects: `ImportedReaderReleased` starts where the
  reader has been imported.

## Proofs

Each proof module has one lemma per action (the action preserves `IInv`), then
the theorems. The assumptions are the named ones of each module: constants that
stand for "none" are not elements of the sets they extend, bounds are naturals.

* `FfiCall!IInv` adds who is on which thread, which token and watcher a call has
  at each point, and that a race involves only the call's own token. The safety
  properties alone are not inductive: that the slot is not stale, for instance,
  needs that two calls share a thread only if one is nested in the other.
* `DatasetHandle!IInv` ties the lock to the program counters, the state of the
  native object to how far `Close` or the cleanup has come, and the version that a
  mutation has in hand to what the handle owes to settled calls. `GuardedTracksNewest` and `GuardedNeverRegresses`
  assume that no method is of the mutate kind; `handle_race` shows why.
* `RecordReader!IInv` says that `r.mu` is held exactly by the goroutine in
  `get_next`, over an open stream, and that a closed stream means a closed span
  with the final error and count. `ReaderKeepsPromise` maps `open` to the
  stream, `delivered` to the rows and `outcome` to the arguments of the span.
* `Session!IInv` says who holds the lock at each point, that the handle is closed
  by `Close` or by the cleanup and not by both, that whoever will clone the
  session has an owner to clone from, and what each call has lent to the native
  side. `AwaitedCallServed` needs the last two: a driven operation is itself an
  owner, so the backend cannot be unregistered under it. `SessionKeepsLease`
  maps `owners` to itself and `entry` to `backend`.

* `ApiCall!IInv` relates each resource of a call to its program counter: what a
  call may hold, have exported, registered or been given at each step. Each
  property is about one resource, yet `ReturnsClean` needs all of them, and that
  no two calls hold the fragment's lock.
* `BlobReader!IInv` says that a `Read` or `Seek` past `LockMu` holds the mutex,
  that the offset of a `Read` is still the cursor, and that a call past its size
  check starts inside the blob. `RangeInBlob` needs the last
  one because the check was made under an earlier lock. `ReaderKeepsPromise` maps
  `call` to the pending call and `ret`, once the call is about to return, to its
  answer; `TargetExact` is the lemma that the test for overflow lets no sum through
  that wraps.
* `PluginCache!IInv` adds what a read has collected: its misses are positions of
  its request, fetched values belong to them in order, and a position that is still
  empty is a miss whose turn has not come. That decoding inverts encoding, for a
  payload that the adapter accepts, is a lemma, and needs that lengths below `Word`
  survive the remainder.
* `UdfRun!IInv` says that the store and the work in progress hold mapped values
  only, that a run past the lookup works on what the store does not have, and
  which references exist at each step of a callback.

### Progress, as far as safety goes

TLAPS proves nothing about fairness, so the liveness properties stay with TLC. What
each of them rests on is proved, for any number of calls:

* nobody waits in a circle (`NoCircularWait` of `DatasetHandle`, `Session` and
  `BlobReader`): whoever cannot take its next step waits for a call in progress,
  and that call is lower in a fixed order. In `DatasetHandle` the order is: parked
  in `RLock` or asking for `Lock`, draining readers, waiting for the native mutex,
  waiting for callbacks. `IInv` does not imply it; `WaitInv`, inductive together
  with `IInv`, adds who can be waiting: a parked reader has a `Close` that will wake
  it, only `Close` drains, and a call from a callback never gets into the native
  function;
* so one of the calls in progress can go on (`SomeoneCanGoOn`): a lowest one that
  is in progress exists, because the ranks are a few naturals;
* and there is an end to it (`...Advances`, all modules but `UdfRun`): a number of remaining
  steps falls with each step of a call and never rises through steps of others. In
  `RecordReader` it is what is left of the stream, so goroutines that keep calling
  `Next` cannot hold up the last `Release`; in `PluginCache` it is lexicographic, by
  position and stage, with bounds from `ReadsStayBounded`;
* duties are never dropped: `CancelReaches` (a context that ended has a watcher
  still to fire, or its token in the race; `CancelInv` is the strengthening: the
  token stays in the slot of the call's thread and every future races it),
  `ReleaseOwed` (a count of zero and an
  open stream mean a goroutine on its way into `forceRelease`), `ReaderOwed` (an
  imported reader belongs to a write that is running or was cancelled).

What is missing to liveness is that a call which can go on does, which is the
fairness that the runs assume.

`DatasetHandle` assumes `NoReentrantClose` for its first two (callbacks do not use
their own handle, or nobody closes it) and `Session` that callbacks make calls
without the session: `handle_reentrant` is what happens otherwise. `ApiCall` has no
theorem on waits, since there a call from a callback is not tied to the call that
waits for it.

### Refinements

Each abstract module is shown to be implemented step by step: initial states map
to initial states, every action to an abstract one or to a stutter. All but two are
also checked by runs; the mappings are next to the `INSTANCE`s.

* `FfiKeepsPromise`: the outcome is taken from the return code until `ffiCall` has
  looked at it and from the returned error afterwards, so the steps that
  turn one into the other must stutter. That needs that the last error of the
  thread is this call's (`OutcomeInv`) and `CancelledOnlyByOwnCtx`.
* `HandleImplementsShared`, `SessionImplementsShared`, `ListImplementsShared` and
  `HandlesImplementShared`: the users are the calls in native code. The step that
  frees must find none of them, which is what the lock invariants are for.
* `RunKeepsCheckpoint`: `SavedInv` says that the batches of a fragment which a run
  has finished were saved, by this run or an earlier one, so that `insert_fragment`
  maps to `Keep`. The constant `None` must differ from positions and values, which
  `UdfAssumption` says.
* `ReaderKeepsPromise` (twice) and `SessionKeepsLease` are described above.

`UsedOnce` is an action property of `ApiCall`: exported structs and registrations
move along their states once. `PlugFresh` is the invariant it needs: nothing is
registered before the step in which the method does it. `WireUnambiguous` follows
from the lemma that decoding inverts encoding, for payloads of any length that the
adapters accept.

### Which check shows what

Only proved: the type invariants, the properties of the two sections above that no
run lists, and safety properties that a run property implies or that are about a
hazard it covers (`CancelledOnlyByOwnCtx` and `LastErrorIsOwn`, by `ImplementsCall`;
`NoUseAfterClose` and `FreedOnce` of `DatasetHandle` and `SessionValidInUse`, by
`ImplementsHandle`; `CursorInRange`, by `ImplementsCursor`; `NestedRejected`,
`GuardReleased`, `HandleNeverRegresses`, `NoBatchLeak`, `BackendFollowsOwners`,
`ReaderLeftOnlyBeforeNative`, `Session!ReturnsClean`, `FragmentSerial`,
`RefusedKeepsReader`).

Only model-checked: the liveness properties (`CancelEndsCall`, `EveryOpReturns`,
`NestedReturns`, `LastReleaseFrees`, `ImportedReaderReleased`, `EveryCallReturns`),
which need fairness.

## Not modelled

* What the `lance` crate computes: queries, commits and their conflicts, cleanup
  policies, compaction and index contents. Whether a cancelled commit took effect
  is decided there, so a commit is one step.
* The setters of the scanner and of the option types, and the conversion of
  options to JSON: assignments without control.
* The iterator adapters of `iter.go`, a loop over `RecordReader`.
* Cache entries without a codec, which a library keeps in the process, and the
  size counters of the caches.
* A dataset that changes between two runs of `AddColumnsUDF` with the same store:
  the interface leaves it to the application to choose the right store.
* Object-store I/O, tracing exporters, the generated C header and the artifact
  scripts.
