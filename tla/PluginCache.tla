---------------------------- MODULE PluginCache ----------------------------
(***************************************************************************)
(* Reads through a cache that the application implements in Go: index      *)
(* entries (CacheBackend, used by GoCacheBackend) and byte ranges of data  *)
(* files (ObjectStoreCache, used by CachingObjectStore).  A read asks the  *)
(* cache for each of its keys, fetches the ones that are missing and puts  *)
(* them into the cache.  Every request crosses the FFI boundary as bytes.  *)
(*                                                                         *)
(* The cache may fail at any request, lose entries and hold entries of     *)
(* another Lance version; several reads are under way at a time, and the   *)
(* cancellation of a call drops the reads it waits for.  A string is a     *)
(* sequence of numbers, and so is an encoded key, in which a length (a     *)
(* number below Word) or a file offset takes one place.  Entries without a *)
(* codec never leave the process and are not modelled.                     *)
(***************************************************************************)
EXTENDS Integers, Sequences

CONSTANTS
    Tasks,      \* concurrent reads
    Requests,   \* what a read may ask for
    Entries,    \* keys of index entries
    Ranges,     \* keys of byte ranges
    FileSize,   \* the size of a data file
    Word,       \* lengths are written and compared modulo this, 2^32
    Absent      \* no value

VARIABLES
    pc,         \* where each read is
    req,        \* its request
    out,        \* the values it has, by position in the request
    miss,       \* the positions that the cache did not have
    fetched,    \* their values
    next,       \* the position that is asked for or put next
    store       \* the Go cache

vars == <<pc, req, out, miss, fetched, next, store>>

Keys == Entries \cup Ranges

\* The part of a range that lies in the file, which the inner store serves.
Served(k) == [k EXCEPT !.end = IF k.end > FileSize THEN FileSize ELSE k.end]

\* The value of a key, as a Lance version encodes it.
Body(k, codec) == [of |-> k, codec |-> codec]
Bodies == {Body(k, c) : k \in Keys, c \in {"this", "other"}}

\* get, insert and get_or_insert take one entry, get_opts one range and get_ranges
\* any number of them, which may reach beyond the end of the file.
ASSUME CacheAssumption ==
    /\ FileSize \in Nat
    /\ Word \in Nat \ {0}
    /\ \A k \in Entries : /\ k \in [prefix : Seq(Nat), key : Seq(Nat), type : Seq(Nat)]
                          /\ Len(k.prefix) < Word /\ Len(k.key) < Word /\ Len(k.type) < Word
    /\ \A k \in Ranges : /\ k \in [path : Seq(Nat), start : Nat, end : Nat]
                         /\ Len(k.path) < Word
                         /\ Served(k) \in Ranges
    /\ Entries \cap Ranges = {}
    /\ Absent \notin Bodies
    /\ \A r \in Requests :
          /\ r.op \in {"get", "insert", "get_or_insert", "get_opts", "get_ranges"}
          /\ r.keys \in Seq(Keys)
          /\ r.op \in {"get", "insert", "get_or_insert"} => Len(r.keys) = 1 /\ r.keys[1] \in Entries
          /\ r.op = "get_opts" => Len(r.keys) = 1 /\ r.keys[1] \in Ranges
          /\ r.op = "get_ranges" => \A n \in DOMAIN r.keys : r.keys[n] \in Ranges

NoRequest == [op |-> "none", keys |-> <<>>]

\* Every variable has its type.
TypeOK ==
    /\ pc \in [Tasks -> {"idle", "get", "load", "put", "done"}]
    /\ req \in [Tasks -> Requests \cup {NoRequest}]
    /\ out \in [Tasks -> Seq(Bodies \cup {Absent})]
    /\ \A t \in Tasks : Len(out[t]) = Len(req[t].keys)
    /\ miss \in [Tasks -> Seq(Nat)]
    /\ fetched \in [Tasks -> Seq(Bodies)]
    /\ next \in [Tasks -> Nat]
    /\ store \in [Keys -> Bodies \cup {Absent}]

Init ==
    /\ pc = [t \in Tasks |-> "idle"]
    /\ req = [t \in Tasks |-> NoRequest]
    /\ out = [t \in Tasks |-> <<>>]
    /\ miss = [t \in Tasks |-> <<>>]
    /\ fetched = [t \in Tasks |-> <<>>]
    /\ next = [t \in Tasks |-> 1]
    /\ store = [k \in Keys |-> Absent]

-----------------------------------------------------------------------------
(* The wire format, produced by cache.rs and read by cache.go.             *)

put_str(s) == <<Len(s) % Word>> \o s

encode_cache_key(k) == put_str(k.prefix) \o put_str(k.key) \o put_str(k.type)

encode_range_key(k) == put_str(k.path) \o <<k.start, k.end>>

encode(k) == IF k \in Entries THEN encode_cache_key(k) ELSE encode_range_key(k)

Truncated == [ok |-> FALSE]

\* The string at the front of a payload, and what follows it.  What is left of a
\* payload of Word bytes or more may be taken for too short.
readStr(rd) ==
    IF Len(rd) < 1 \/ (Len(rd) - 1) % Word < rd[1] THEN Truncated
    ELSE [ok |-> TRUE, s |-> SubSeq(rd, 2, 1 + rd[1]), rest |-> SubSeq(rd, 2 + rd[1], Len(rd))]

decodeCacheKey(payload) ==
    LET p == readStr(payload)
        k == readStr(p.rest)
        t == readStr(k.rest)
    IN  IF p.ok /\ k.ok /\ t.ok
        THEN [ok |-> TRUE, key |-> [prefix |-> p.s, key |-> k.s, type |-> t.s], data |-> t.rest]
        ELSE Truncated

decodeRangeKey(payload) ==
    LET p == readStr(payload) IN
    IF p.ok /\ Len(p.rest) >= 2
    THEN [ok |-> TRUE, key |-> [path |-> p.s, start |-> p.rest[1], end |-> p.rest[2]],
          data |-> SubSeq(p.rest, 3, Len(p.rest))]
    ELSE Truncated

decode(k, payload) == IF k \in Entries THEN decodeCacheKey(payload) ELSE decodeRangeKey(payload)

\* Invoke of the adapters: what a GET finds, and the cache after a PUT.
InvokeGet(k) ==
    LET d == decode(k, encode(k)) IN IF d.ok THEN store[d.key] ELSE Absent
InvokePut(k, v) ==
    LET d == decode(k, encode(k) \o <<v>>)
    IN  IF d.ok THEN [store EXCEPT ![d.key] = d.data[1]] ELSE store

-----------------------------------------------------------------------------
(* A read.                                                                 *)

Goto(t, l) == pc' = [pc EXCEPT ![t] = l]

\* What the loader or the inner store returns for a key, and when it can.
Truth(k) == IF k \in Ranges THEN Served(k) ELSE k
Fetch(k) == Body(Truth(k), "this")
Readable(k) == k \in Ranges => k.start < FileSize

\* The read is over, and the next one starts afresh.
Leave(t) ==
    /\ Goto(t, "idle")
    /\ req' = [req EXCEPT ![t] = NoRequest]
    /\ out' = [out EXCEPT ![t] = <<>>]
    /\ miss' = [miss EXCEPT ![t] = <<>>]
    /\ fetched' = [fetched EXCEPT ![t] = <<>>]
    /\ next' = [next EXCEPT ![t] = 1]

Begin(t) ==
    /\ pc[t] = "idle"
    /\ \E r \in Requests :
          /\ req' = [req EXCEPT ![t] = r]
          /\ out' = [out EXCEPT ![t] = [n \in 1..Len(r.keys) |-> Absent]]
          /\ IF r.op = "insert"
             THEN /\ Goto(t, "put")
                  /\ miss' = [miss EXCEPT ![t] = <<1>>]
                  /\ fetched' = [fetched EXCEPT ![t] = <<Fetch(r.keys[1])>>]
             ELSE Goto(t, "get") /\ UNCHANGED <<miss, fetched>>
    /\ UNCHANGED <<next, store>>

\* One request for one key.  A failed request, and a value that the codec does
\* not accept, count as a miss.
Get(t) ==
    LET n == next[t]
        v == InvokeGet(req[t].keys[n])
    IN
    /\ pc[t] = "get" /\ n <= Len(req[t].keys)
    /\ \/ miss' = [miss EXCEPT ![t] = Append(@, n)] /\ UNCHANGED out
       \/ /\ v # Absent /\ v.codec = "this"
          /\ out' = [out EXCEPT ![t][n] = v]
          /\ UNCHANGED miss
    /\ next' = [next EXCEPT ![t] = n + 1]
    /\ UNCHANGED <<pc, req, fetched, store>>

\* All keys have been asked for.
Asked(t) ==
    /\ pc[t] = "get" /\ next[t] > Len(req[t].keys)
    /\ Goto(t, IF req[t].op = "get" \/ miss[t] = <<>> THEN "done" ELSE "load")
    /\ next' = [next EXCEPT ![t] = 1]
    /\ UNCHANGED <<req, out, miss, fetched, store>>

\* The loader runs, or the inner store is read, for the missing keys only.  The
\* store returns fewer bytes for a range that the end of the file cuts short, and
\* none for one that starts there.
Load(t) ==
    /\ pc[t] = "load"
    /\ \A j \in 1..Len(miss[t]) : Readable(req[t].keys[miss[t][j]])
    /\ Goto(t, "put")
    /\ fetched' = [fetched EXCEPT ![t] =
          [j \in 1..Len(miss[t]) |-> Fetch(req[t].keys[miss[t][j]])]]
    /\ UNCHANGED <<req, out, miss, next, store>>

\* It fails, and so does the read.
LoadFails(t) == pc[t] = "load" /\ Leave(t) /\ UNCHANGED store

\* Mutants of Put: the position among the misses is taken for the position in
\* the request, for the result or for the cache.
PutBySlot(t) ==
    LET j == next[t]
        k == req[t].keys[miss[t][j]]
    IN
    /\ pc[t] = "put"
    /\ store' = InvokePut(IF req[t].op = "get_opts" THEN Served(k) ELSE k, fetched[t][j])
    /\ out' = [out EXCEPT ![t][j] = fetched[t][j]]
    /\ next' = [next EXCEPT ![t] = j + 1]
    /\ Goto(t, IF j = Len(miss[t]) THEN "done" ELSE "put")
    /\ UNCHANGED <<req, miss, fetched>>
PutMisfiled(t) ==
    LET j == next[t]
        k == req[t].keys[j]
    IN
    /\ pc[t] = "put"
    /\ store' = InvokePut(IF req[t].op = "get_opts" THEN Served(k) ELSE k, fetched[t][j])
    /\ out' = [out EXCEPT ![t][miss[t][j]] = fetched[t][j]]
    /\ next' = [next EXCEPT ![t] = j + 1]
    /\ Goto(t, IF j = Len(miss[t]) THEN "done" ELSE "put")
    /\ UNCHANGED <<req, miss, fetched>>

\* A fetched value is put into the cache, whose errors are ignored.  get_opts
\* puts it under the range that was served, get_ranges under the range that was
\* asked for, also when fewer bytes were served.
Put(t) ==
    LET j == next[t]
        k == req[t].keys[miss[t][j]]
    IN
    /\ pc[t] = "put"
    /\ \/ store' = InvokePut(IF req[t].op = "get_opts" THEN Served(k) ELSE k, fetched[t][j])
       \/ UNCHANGED store
    /\ out' = [out EXCEPT ![t][miss[t][j]] = fetched[t][j]]
    /\ next' = [next EXCEPT ![t] = j + 1]
    /\ Goto(t, IF j = Len(miss[t]) THEN "done" ELSE "put")
    /\ UNCHANGED <<req, miss, fetched>>

\* The call that waits for the read is cancelled, which drops the read.
Drop(t) == pc[t] \in {"get", "load", "put"} /\ Leave(t) /\ UNCHANGED store

\* The range that get_opts reports with its bytes: the one asked for if they came
\* from the cache, the one served if they were fetched.
Reported(t) == LET k == req[t].keys[1] IN IF miss[t] = <<>> THEN k ELSE Served(k)

Return(t) == pc[t] = "done" /\ Leave(t) /\ UNCHANGED store

-----------------------------------------------------------------------------
(* The cache.                                                              *)

IsPrefix(p, s) == Len(p) <= Len(s) /\ SubSeq(s, 1, Len(p)) = p

\* invalidate_prefix; if the request fails, nothing is dropped.
InvalidatePrefix ==
    /\ \E e \in Entries :
          store' = [k \in Keys |-> IF k \in Entries /\ IsPrefix(e.prefix, k.prefix)
                                   THEN Absent ELSE store[k]]
    /\ UNCHANGED <<pc, req, out, miss, fetched, next>>

Clear ==
    /\ store' = [k \in Keys |-> IF k \in Entries THEN Absent ELSE store[k]]
    /\ UNCHANGED <<pc, req, out, miss, fetched, next>>

\* The cache drops an entry of its own accord.
Evict ==
    /\ \E k \in Keys : store[k] # Absent /\ store' = [store EXCEPT ![k] = Absent]
    /\ UNCHANGED <<pc, req, out, miss, fetched, next>>

\* A process with another version of Lance shares the backend.
PutElsewhere ==
    /\ \E k \in Entries : store' = [store EXCEPT ![k] = Body(k, "other")]
    /\ UNCHANGED <<pc, req, out, miss, fetched, next>>

Next ==
    \/ \E t \in Tasks :
          \/ Begin(t) \/ Get(t) \/ Asked(t) \/ Load(t) \/ LoadFails(t) \/ Put(t)
          \/ Drop(t) \/ Return(t)
    \/ InvalidatePrefix \/ Clear \/ Evict \/ PutElsewhere

Spec == Init /\ [][Next]_vars

-----------------------------------------------------------------------------
(* Properties.                                                             *)

\* Whatever mixture of hits, failed requests, foreign entries and concurrent puts
\* and invalidations a read meets, every position of its result holds what a
\* fetch of the key at that position returns, and no position is left empty (the
\* expect of get_ranges) except by a get that found nothing.  The range that
\* get_opts reports is the range of its bytes, unless get_ranges has put bytes
\* under a range that the end of the file cuts short and get_opts asks for it.
ResultsTrue ==
    \A t \in Tasks : pc[t] = "done" =>
        /\ \A n \in DOMAIN req[t].keys :
              \/ out[t][n] = Fetch(req[t].keys[n])
              \/ req[t].op = "get" /\ out[t][n] = Absent
        /\ req[t].op = "get_opts" =>
              Reported(t) = out[t][1].of \/ (miss[t] = <<>> /\ req[t].keys[1].end > FileSize)

\* What the cache holds under a key is what a fetch of that key returns: the wire
\* format keeps keys apart, the positions of get_ranges are not mixed up, and bytes
\* that the end of the file cut short are held only under a range that a fetch
\* would cut short in the same way.
EntriesTrue ==
    \A k \in Keys : store[k] # Absent => store[k].of = Truth(k)

\* How far a read is.
Stage(l) == CASE l = "get" -> 1 [] l = "load" -> 2 [] l = "put" -> 3 [] OTHER -> 4

\* A read asks for and puts no position beyond its request.
ReadBounded ==
    \A t \in Tasks :
        /\ pc[t] = "get" => next[t] <= Len(req[t].keys) + 1
        /\ pc[t] = "put" => next[t] <= Len(miss[t])

\* A read comes to its end: every step of it ends it or takes it to a later position
\* or a later stage of the same request, and nothing that other reads or the cache
\* do sets it back.  With ReadBounded, no mixture of hits and misses keeps it going.
ReadAdvances ==
    [][\A t \in Tasks : pc[t] # "idle" =>
          \/ pc'[t] = "idle"
          \/ UNCHANGED <<pc[t], req[t], out[t], miss[t], fetched[t], next[t]>>
          \/ /\ req'[t] = req[t]
             /\ \/ Stage(pc'[t]) > Stage(pc[t])
                \/ pc'[t] = pc[t] /\ next'[t] > next[t]]_vars
=============================================================================
