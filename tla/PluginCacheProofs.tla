------------------------- MODULE PluginCacheProofs -------------------------
(***************************************************************************)
(* Proofs that the wire format of the plugin caches loses nothing, and     *)
(* that reads through a cache return what they would return without it.    *)
(***************************************************************************)
EXTENDS PluginCache, SequenceTheorems, TLAPS

\* A length below Word is written as it is.
LEMMA LengthKept ==
    ASSUME NEW n \in Nat, n < Word PROVE n % Word = n
  BY CacheAssumption

\* put_str of cache.rs and readStr of cache.go: a length-prefixed string is read
\* back whatever follows it, unless the payload is rejected.
LEMMA StringRead ==
    ASSUME NEW S, Nat \subseteq S, NEW s \in Seq(Nat), Len(s) < Word, NEW r \in Seq(S)
    PROVE  readStr(put_str(s) \o r) \in {Truncated, [ok |-> TRUE, s |-> s, rest |-> r]}
<1> DEFINE rd == put_str(s) \o r
<1>0. Len(s) \in Nat /\ Len(r) \in Nat /\ Len(s) % Word = Len(s)
  BY LengthKept
<1>1. s \in Seq(S) /\ <<Len(s)>> \in Seq(S) /\ put_str(s) = <<Len(s)>> \o s /\ put_str(s) \in Seq(S)
  BY <1>0 DEF put_str
<1>2. /\ rd \in Seq(S)
      /\ Len(rd) = 1 + Len(s) + Len(r)
      /\ rd[1] = Len(s)
      /\ \A i \in 1..Len(s) : rd[1 + i] = s[i]
      /\ \A i \in 1..Len(r) : rd[1 + Len(s) + i] = r[i]
  BY <1>0, <1>1
<1> HIDE DEF rd
<1>3. SubSeq(rd, 2, 1 + Len(s)) = s
  BY <1>0, <1>1, <1>2
<1>4. SubSeq(rd, 2 + Len(s), Len(rd)) = r
  <2> DEFINE q == SubSeq(rd, 2 + Len(s), Len(rd))
  <2>1. q \in Seq(S) /\ Len(q) = Len(r)
    BY <1>0, <1>1, <1>2
  <2>2. ASSUME NEW i \in 1..Len(r)
        PROVE  q[i] = rd[1 + Len(s) + i]
    BY <1>0, <1>1, <1>2
  <2>3. \A i \in 1..Len(r) : q[i] = r[i]
    BY Zenon, <1>2, <2>2
  <2> HIDE DEF q
  <2>4. q = r
    BY Zenon, <2>1, <2>3, SeqEqual
  <2> QED
    BY Zenon, <2>4 DEF q
<1>5. ~ (Len(rd) < 1)
  BY <1>0, <1>2
<1>6. readStr(rd) \in {Truncated, [ok |-> TRUE, s |-> s, rest |-> r]}
  BY <1>2, <1>3, <1>4, <1>5, Zenon DEF readStr
<1> QED
  BY Zenon, <1>6 DEF rd

\* encode_cache_key and decodeCacheKey: an entry's key is read back whatever
\* value follows it, unless the payload is rejected.
LEMMA CacheKeyRead ==
    ASSUME NEW S, Nat \subseteq S, NEW r \in Seq(S),
           NEW k \in [prefix : Seq(Nat), key : Seq(Nat), type : Seq(Nat)],
           Len(k.prefix) < Word, Len(k.key) < Word, Len(k.type) < Word
    PROVE  decodeCacheKey(encode_cache_key(k) \o r)
               \in {Truncated, [ok |-> TRUE, key |-> k, data |-> r]}
<1> DEFINE r3 == put_str(k.type) \o r
           r2 == put_str(k.key) \o r3
           r1 == put_str(k.prefix) \o r2
<1>1. /\ k.prefix \in Seq(Nat) /\ k.key \in Seq(Nat) /\ k.type \in Seq(Nat)
      /\ k = [prefix |-> k.prefix, key |-> k.key, type |-> k.type]
  BY Zenon
<1>2. ASSUME NEW s \in Seq(Nat), Len(s) < Word
      PROVE  put_str(s) \in Seq(S)
  <2>1. Len(s) % Word \in S
    BY <1>2, LengthKept
  <2> QED
    BY <2>1 DEF put_str
<1>3. /\ put_str(k.prefix) \in Seq(S) /\ put_str(k.key) \in Seq(S) /\ put_str(k.type) \in Seq(S)
      /\ r3 \in Seq(S) /\ r2 \in Seq(S)
  BY <1>1, <1>2
<1>4. encode_cache_key(k) \o r = r1
  <2>1. PICK a \in Seq(S), b \in Seq(S), c \in Seq(S) :
           a = put_str(k.prefix) /\ b = put_str(k.key) /\ c = put_str(k.type)
    BY <1>3, Zenon
  <2> DEFINE x == ((a \o b) \o c) \o r
             y == a \o (b \o (c \o r))
  <2>2. /\ x \in Seq(S) /\ y \in Seq(S)
        /\ Len(x) = Len(a) + Len(b) + Len(c) + Len(r)
        /\ Len(y) = Len(a) + Len(b) + Len(c) + Len(r)
    OBVIOUS
  <2>3. \A i \in 1..Len(x) : x[i] = y[i]
    OBVIOUS
  <2>4. encode_cache_key(k) \o r = x
    BY <2>1, Zenon DEF encode_cache_key
  <2>5. r1 = y
    BY <2>1, Zenon
  <2> HIDE DEF x, y, r1
  <2>6. x = y
    BY Zenon, <2>2, <2>3, SeqEqual
  <2> QED
    BY <2>4, <2>5, <2>6, Zenon
<1>5. readStr(r1) \in {Truncated, [ok |-> TRUE, s |-> k.prefix, rest |-> r2]}
  BY <1>1, <1>3, StringRead, Zenon
<1>6. readStr(r2) \in {Truncated, [ok |-> TRUE, s |-> k.key, rest |-> r3]}
  BY <1>1, <1>3, StringRead, Zenon
<1>7. readStr(r3) \in {Truncated, [ok |-> TRUE, s |-> k.type, rest |-> r]}
  BY <1>1, <1>3, StringRead, Zenon
<1> HIDE DEF r1, r2, r3
<1>8. ~ Truncated.ok
  BY DEF Truncated
<1>9. CASE readStr(r1) = Truncated
  BY <1>4, <1>8, <1>9, Zenon DEF decodeCacheKey
<1>a. CASE readStr(r1) = [ok |-> TRUE, s |-> k.prefix, rest |-> r2]
  <2>1. readStr(r1).ok /\ readStr(r1).s = k.prefix /\ readStr(r1).rest = r2
    BY <1>a
  <2>2. CASE readStr(r2) = Truncated
    BY <1>4, <1>8, <2>1, <2>2, Zenon DEF decodeCacheKey
  <2>3. CASE readStr(r2) = [ok |-> TRUE, s |-> k.key, rest |-> r3]
    <3>1. readStr(r2).ok /\ readStr(r2).s = k.key /\ readStr(r2).rest = r3
      BY <2>3
    <3>2. CASE readStr(r3) = Truncated
      BY <1>4, <1>8, <2>1, <3>1, <3>2, Zenon DEF decodeCacheKey
    <3>3. CASE readStr(r3) = [ok |-> TRUE, s |-> k.type, rest |-> r]
      <4>1. readStr(r3).ok /\ readStr(r3).s = k.type /\ readStr(r3).rest = r
        BY <3>3
      <4>2. decodeCacheKey(r1) =
              [ok |-> TRUE, key |-> [prefix |-> k.prefix, key |-> k.key, type |-> k.type], data |-> r]
        BY <2>1, <3>1, <4>1, Zenon DEF decodeCacheKey
      <4> QED
        BY <1>1, <1>4, <4>2, Zenon
    <3> QED
      BY <1>7, <3>2, <3>3, Zenon
  <2> QED
    BY <1>6, <2>2, <2>3, Zenon
<1> QED
  BY <1>5, <1>9, <1>a, Zenon

\* encode_range_key and decodeRangeKey: likewise for the key of a byte range.
LEMMA RangeKeyRead ==
    ASSUME NEW S, Nat \subseteq S, NEW r \in Seq(S),
           NEW k \in [path : Seq(Nat), start : Nat, end : Nat], Len(k.path) < Word
    PROVE  decodeRangeKey(encode_range_key(k) \o r)
               \in {Truncated, [ok |-> TRUE, key |-> k, data |-> r]}
<1> DEFINE r2 == <<k.start, k.end>> \o r
           r1 == put_str(k.path) \o r2
<1>1. /\ k.path \in Seq(Nat) /\ k.start \in S /\ k.end \in S
      /\ k = [path |-> k.path, start |-> k.start, end |-> k.end]
  BY Zenon
<1>2. /\ put_str(k.path) \in Seq(S) /\ <<k.start, k.end>> \in Seq(S) /\ r2 \in Seq(S)
  <2>1. Len(k.path) % Word \in S
    BY <1>1, LengthKept
  <2> QED
    BY <1>1, <2>1 DEF put_str
<1>3. encode_range_key(k) \o r = r1
  BY SMTT(20), <1>2 DEF encode_range_key
<1>4. readStr(r1) \in {Truncated, [ok |-> TRUE, s |-> k.path, rest |-> r2]}
  BY <1>1, <1>2, StringRead, Zenon
<1>5. /\ Len(r2) = 2 + Len(r) /\ Len(r) \in Nat
      /\ r2[1] = k.start /\ r2[2] = k.end
      /\ \A i \in 1..Len(r) : r2[2 + i] = r[i]
  BY <1>1, <1>2
<1> HIDE DEF r1, r2
<1>6. Len(r2) >= 2 /\ SubSeq(r2, 3, Len(r2)) = r
  BY <1>2, <1>5
<1>7. CASE readStr(r1) = Truncated
  <2>1. ~ Truncated.ok
    BY DEF Truncated
  <2> QED
    BY <1>3, <1>7, <2>1, Zenon DEF decodeRangeKey
<1>8. CASE readStr(r1) = [ok |-> TRUE, s |-> k.path, rest |-> r2]
  <2>1. readStr(r1).ok /\ readStr(r1).s = k.path /\ readStr(r1).rest = r2
    BY <1>8
  <2>2. decodeRangeKey(r1) =
          [ok |-> TRUE, key |-> [path |-> k.path, start |-> k.start, end |-> k.end], data |-> r]
    BY <1>5, <1>6, <2>1, Zenon DEF decodeRangeKey
  <2> QED
    BY <1>1, <1>3, <2>2, Zenon
<1> QED
  BY <1>4, <1>7, <1>8, Zenon

\* What the adapters read back of a payload is the key and the value it was made of.
LEMMA KeyRead ==
    ASSUME NEW S, Nat \subseteq S, NEW k \in Keys, NEW r \in Seq(S)
    PROVE  decode(k, encode(k) \o r) \in {Truncated, [ok |-> TRUE, key |-> k, data |-> r]}
<1>1. CASE k \in Entries
  <2>1. /\ k \in [prefix : Seq(Nat), key : Seq(Nat), type : Seq(Nat)]
        /\ Len(k.prefix) < Word /\ Len(k.key) < Word /\ Len(k.type) < Word
    BY Zenon, <1>1, CacheAssumption
  <2> QED
    BY <1>1, <2>1, CacheKeyRead, Zenon DEF encode, decode
<1>2. CASE k \notin Entries
  <2>1. k \in [path : Seq(Nat), start : Nat, end : Nat] /\ Len(k.path) < Word
    BY Zenon, <1>2, CacheAssumption DEF Keys
  <2> QED
    BY <1>2, <2>1, RangeKeyRead, Zenon DEF encode, decode
<1> QED
  BY Zenon, <1>1, <1>2

\* The two Invoke methods see the key and the value that the native side sent, or
\* reject the request.
LEMMA KeysKept ==
    ASSUME NEW k \in Keys, NEW v
    PROVE  /\ InvokeGet(k) \in {store[k], Absent}
           /\ InvokePut(k, v) \in {[store EXCEPT ![k] = v], store}
<1> DEFINE S == Nat \cup {v}
<1>1. /\ <<>> \in Seq(S) /\ <<v>> \in Seq(S) /\ <<v>>[1] = v /\ Nat \subseteq S
  OBVIOUS
<1> HIDE DEF S
<1>2. encode(k) \o <<>> = encode(k)
  <2>1. CASE k \in Entries
    <3>1. /\ k.prefix \in Seq(Nat) /\ k.key \in Seq(Nat) /\ k.type \in Seq(Nat)
          /\ Len(k.prefix) < Word /\ Len(k.key) < Word /\ Len(k.type) < Word
      BY Zenon, <2>1, CacheAssumption
    <3>2. ASSUME NEW s \in Seq(Nat), Len(s) < Word PROVE put_str(s) \in Seq(Nat)
      BY <3>2, LengthKept DEF put_str
    <3>3. put_str(k.prefix) \in Seq(Nat) /\ put_str(k.key) \in Seq(Nat) /\ put_str(k.type) \in Seq(Nat)
      BY <3>1, <3>2, Zenon
    <3>4. encode(k) \in Seq(Nat)
      BY <2>1, <3>3 DEF encode, encode_cache_key
    <3> QED
      BY Zenon, <3>4, ConcatEmptySeq
  <2>2. CASE k \notin Entries
    <3>1. k \in [path : Seq(Nat), start : Nat, end : Nat] /\ Len(k.path) < Word
      BY Zenon, <2>2, CacheAssumption DEF Keys
    <3>2. k.path \in Seq(Nat) /\ k.start \in Nat /\ k.end \in Nat
      BY <3>1
    <3>3. put_str(k.path) \in Seq(Nat)
      BY <3>1, <3>2, LengthKept DEF put_str
    <3>4. encode(k) \in Seq(Nat)
      BY <2>2, <3>2, <3>3 DEF encode, encode_range_key
    <3> QED
      BY Zenon, <3>4, ConcatEmptySeq
  <2> QED
    BY Zenon, <2>1, <2>2
<1>3. ~ Truncated.ok
  BY DEF Truncated
<1>4. decode(k, encode(k)) \in {Truncated, [ok |-> TRUE, key |-> k, data |-> <<>>]}
  BY <1>1, <1>2, KeyRead, Zenon
<1>5. decode(k, encode(k) \o <<v>>) \in {Truncated, [ok |-> TRUE, key |-> k, data |-> <<v>>]}
  BY <1>1, KeyRead, Zenon
<1>6. InvokeGet(k) \in {store[k], Absent}
  <2>1. CASE decode(k, encode(k)) = Truncated
    BY <1>3, <2>1, Zenon DEF InvokeGet
  <2>2. CASE decode(k, encode(k)) = [ok |-> TRUE, key |-> k, data |-> <<>>]
    <3>1. decode(k, encode(k)).ok /\ decode(k, encode(k)).key = k
      BY <2>2
    <3> QED
      BY <3>1, Zenon DEF InvokeGet
  <2> QED
    BY <1>4, <2>1, <2>2, Zenon
<1>7. InvokePut(k, v) \in {[store EXCEPT ![k] = v], store}
  <2>1. CASE decode(k, encode(k) \o <<v>>) = Truncated
    BY <1>3, <2>1, Zenon DEF InvokePut
  <2>2. CASE decode(k, encode(k) \o <<v>>) = [ok |-> TRUE, key |-> k, data |-> <<v>>]
    <3>1. /\ decode(k, encode(k) \o <<v>>).ok
          /\ decode(k, encode(k) \o <<v>>).key = k
          /\ decode(k, encode(k) \o <<v>>).data[1] = v
      BY <1>1, <2>2
    <3> QED
      BY <3>1, Zenon DEF InvokePut
  <2> QED
    BY <1>5, <2>1, <2>2, Zenon
<1> QED
  BY Zenon, <1>6, <1>7

-----------------------------------------------------------------------------
(* The inductive invariant.                                                *)

Slots(t) == 1..Len(req[t].keys)
Wanted(t, n) == Fetch(req[t].keys[n])
Missed(t, n, from) == \E j \in from..Len(miss[t]) : miss[t][j] = n

\* What holds of one read, by the step it is at: a slot of the result is right or
\* empty, and the empty ones are among the misses that are still to be filled.
TaskInv(t) ==
    /\ IF pc[t] = "idle"
       THEN /\ req[t] = NoRequest /\ out[t] = <<>> /\ miss[t] = <<>> /\ fetched[t] = <<>>
            /\ next[t] = 1
       ELSE req[t] \in Requests
    /\ \A n \in Slots(t) : out[t][n] \in {Wanted(t, n), Absent}
    /\ \A j \in 1..Len(miss[t]) : miss[t][j] \in Slots(t)
    /\ pc[t] = "get" =>
          /\ next[t] \in 1..(Len(req[t].keys) + 1)
          /\ \A n \in Slots(t) : n < next[t] /\ out[t][n] = Absent => Missed(t, n, 1)
    /\ pc[t] = "load" =>
          /\ next[t] = 1 /\ miss[t] # <<>>
          /\ \A n \in Slots(t) : out[t][n] = Absent => Missed(t, n, 1)
    /\ pc[t] = "put" =>
          /\ next[t] \in 1..Len(miss[t]) /\ Len(fetched[t]) = Len(miss[t])
          /\ \A j \in 1..Len(miss[t]) : fetched[t][j] = Wanted(t, miss[t][j])
          /\ \A n \in Slots(t) : out[t][n] = Absent => Missed(t, n, next[t])
    /\ pc[t] = "done" /\ req[t].op # "get" => \A n \in Slots(t) : out[t][n] # Absent

\* What holds of the cache: besides EntriesTrue, only entries have a codec to reject.
Filed ==
    /\ EntriesTrue
    /\ \A k \in Ranges : store[k] # Absent => store[k].codec = "this"

IInv == TypeOK /\ Filed /\ \A t \in Tasks : TaskInv(t)

\* What the inner store serves of a range: all of it inside the file, and all of
\* what it serves.
LEMMA ServedFacts ==
    ASSUME NEW k \in Ranges
    PROVE  /\ Served(k) \in Ranges /\ Served(Served(k)) = Served(k)
           /\ ~ (k.end > FileSize) => Served(k) = k
<1>1. k \in [path : Seq(Nat), start : Nat, end : Nat] /\ FileSize \in Nat /\ Served(k) \in Ranges
  BY Zenon, CacheAssumption
<1>2. ~ (k.end > FileSize) => Served(k) = k
  BY <1>1 DEF Served
<1>3. Served(Served(k)) = Served(k)
  BY Zenon, <1>1 DEF Served
<1> QED
  BY Zenon, <1>1, <1>2, <1>3

\* What the loader or the inner store returns for a key (Fetch).
LEMMA FetchFacts ==
    ASSUME NEW k \in Keys
    PROVE  /\ Fetch(k) \in Bodies /\ Fetch(k) # Absent
           /\ Fetch(k).codec = "this" /\ Fetch(k).of = Truth(k)
<1>1. Truth(k) \in Keys
  BY Zenon, ServedFacts DEF Truth, Keys
<1>2. Fetch(k) \in Bodies
  BY <1>1 DEF Fetch, Bodies
<1>3. Fetch(k).codec = "this" /\ Fetch(k).of = Truth(k)
  BY DEF Fetch, Body
<1> QED
  BY Zenon, <1>2, <1>3, CacheAssumption

\* A request names keys of the kind that its operation takes.
LEMMA RequestFacts ==
    ASSUME NEW r \in Requests
    PROVE  /\ r.keys \in Seq(Keys) /\ Len(r.keys) \in Nat
           /\ \A n \in 1..Len(r.keys) : r.keys[n] \in Keys
           /\ r.op = "insert" => Len(r.keys) = 1 /\ r.keys[1] \in Entries
  BY CacheAssumption

\* The steps of one read leave the others as they are.
LEMMA OthersKept ==
    ASSUME NEW u \in Tasks, TaskInv(u),
           pc'[u] = pc[u], req'[u] = req[u], out'[u] = out[u], miss'[u] = miss[u],
           fetched'[u] = fetched[u], next'[u] = next[u]
    PROVE  TaskInv(u)'
  BY DEF TaskInv, Slots, Wanted, Missed

\* The invariant holds before the first read.
LEMMA InitInv ==
    Init => IInv
<1> SUFFICES ASSUME Init PROVE IInv
  BY Zenon
<1>1. TypeOK
  BY DEF Init, TypeOK, NoRequest
<1>2. Filed
  BY Zenon DEF Init, Filed, EntriesTrue, Keys
<1>3. ASSUME NEW t \in Tasks PROVE TaskInv(t)
  BY DEF Init, TaskInv, Slots, NoRequest
<1> QED
  BY Zenon, <1>1, <1>2, <1>3 DEF IInv

\* Begin: the request gets one empty slot for each key.
LEMMA BeginStep ==
    ASSUME IInv, NEW t \in Tasks, Begin(t)
    PROVE  IInv'
<1> PICK r \in Requests :
       /\ req' = [req EXCEPT ![t] = r]
       /\ out' = [out EXCEPT ![t] = [n \in 1..Len(r.keys) |-> Absent]]
       /\ IF r.op = "insert"
          THEN /\ Goto(t, "put")
               /\ miss' = [miss EXCEPT ![t] = <<1>>]
               /\ fetched' = [fetched EXCEPT ![t] = <<Fetch(r.keys[1])>>]
          ELSE Goto(t, "get") /\ UNCHANGED <<miss, fetched>>
  BY Zenon DEF Begin
<1> USE DEF IInv
<1>1. /\ pc[t] = "idle" /\ next' = next /\ store' = store /\ TypeOK /\ TaskInv(t)
      /\ miss[t] = <<>> /\ fetched[t] = <<>> /\ next[t] = 1
  BY Zenon DEF Begin, TaskInv
<1>2. /\ r.keys \in Seq(Keys) /\ Len(r.keys) \in Nat
      /\ \A n \in 1..Len(r.keys) : r.keys[n] \in Keys
      /\ r.op = "insert" => Len(r.keys) = 1 /\ r.keys[1] \in Entries
  BY Zenon, RequestFacts
<1>3. r.op = "insert" => Fetch(r.keys[1]) \in Bodies
  BY Zenon, <1>2, FetchFacts DEF Keys
<1>4. /\ req'[t] = r /\ next'[t] = 1
      /\ out'[t] = [n \in 1..Len(r.keys) |-> Absent] /\ Len(out'[t]) = Len(r.keys)
      /\ out'[t] \in Seq(Bodies \cup {Absent})
      /\ \A n \in 1..Len(r.keys) : out'[t][n] = Absent
  BY <1>1, <1>2 DEF TypeOK
<1>5. TypeOK'
  <2>1. req' \in [Tasks -> Requests \cup {NoRequest}]
    BY Zenon, <1>1 DEF TypeOK
  <2>2. out' \in [Tasks -> Seq(Bodies \cup {Absent})]
    BY Zenon, <1>1, <1>4 DEF TypeOK
  <2>3. \A u \in Tasks : Len(out'[u]) = Len(req'[u].keys)
    BY Zenon, <1>1, <1>4 DEF TypeOK
  <2>4. pc' \in [Tasks -> {"idle", "get", "load", "put", "done"}]
    BY <1>1, Zenon DEF TypeOK, Goto
  <2>5. miss' \in [Tasks -> Seq(Nat)] /\ fetched' \in [Tasks -> Seq(Bodies)]
    <3>1. CASE r.op = "insert"
      <4>1. <<1>> \in Seq(Nat) /\ <<Fetch(r.keys[1])>> \in Seq(Bodies)
        BY <1>3, <3>1
      <4>2. miss' = [miss EXCEPT ![t] = <<1>>] /\ fetched' = [fetched EXCEPT ![t] = <<Fetch(r.keys[1])>>]
        BY Zenon, <3>1
      <4> QED
        BY Zenon, <1>1, <4>1, <4>2 DEF TypeOK
    <3>2. CASE r.op # "insert"
      BY Zenon, <1>1, <3>2 DEF TypeOK
    <3> QED
      BY Zenon, <3>1, <3>2
  <2> QED
    BY Zenon, <1>1, <2>1, <2>2, <2>3, <2>4, <2>5 DEF TypeOK
<1>6. Filed'
  BY Zenon, <1>1 DEF Filed, EntriesTrue
<1>7. TaskInv(t)'
  <2>1. CASE r.op = "insert"
    <3>1. pc'[t] = "put" /\ miss'[t] = <<1>> /\ fetched'[t] = <<Fetch(r.keys[1])>>
      BY Zenon, <1>1, <2>1 DEF TypeOK, Goto
    <3>2. /\ Len(miss'[t]) = 1 /\ miss'[t][1] = 1
          /\ Len(fetched'[t]) = 1 /\ fetched'[t][1] = Fetch(r.keys[1])
      BY <3>1
    <3> QED
      BY <1>2, <1>4, <2>1, <3>1, <3>2 DEF TaskInv, Slots, Wanted, Missed
  <2>2. CASE r.op # "insert"
    <3>1. pc'[t] = "get" /\ miss'[t] = <<>>
      BY Zenon, <1>1, <2>2 DEF TypeOK, Goto
    <3> QED
      BY <1>2, <1>4, <3>1 DEF TaskInv, Slots, Wanted, Missed
  <2> QED
    BY Zenon, <2>1, <2>2
<1>8. ASSUME NEW u \in Tasks, u # t PROVE TaskInv(u)'
  BY Zenon, <1>1, <1>8, OthersKept DEF TypeOK, Goto
<1> QED
  BY Zenon, <1>5, <1>6, <1>7, <1>8

\* What an active read knows of its request.
LEMMA ActiveFacts ==
    ASSUME IInv, NEW t \in Tasks, pc[t] # "idle"
    PROVE  /\ req[t] \in Requests /\ req[t].keys \in Seq(Keys) /\ Len(req[t].keys) \in Nat
           /\ \A n \in Slots(t) : /\ req[t].keys[n] \in Keys
                                  /\ Wanted(t, n) \in Bodies /\ Wanted(t, n) # Absent
           /\ out[t] \in Seq(Bodies \cup {Absent}) /\ Len(out[t]) = Len(req[t].keys)
           /\ miss[t] \in Seq(Nat) /\ Len(miss[t]) \in Nat
           /\ fetched[t] \in Seq(Bodies) /\ next[t] \in Nat
<1>1. req[t] \in Requests
  BY Zenon DEF IInv, TaskInv
<1>2. /\ req[t].keys \in Seq(Keys) /\ Len(req[t].keys) \in Nat
      /\ \A n \in 1..Len(req[t].keys) : req[t].keys[n] \in Keys
  BY Zenon, <1>1, RequestFacts
<1>3. \A n \in Slots(t) : Wanted(t, n) \in Bodies /\ Wanted(t, n) # Absent
  BY Zenon, <1>2, FetchFacts DEF Slots, Wanted
<1>4. /\ out[t] \in Seq(Bodies \cup {Absent}) /\ Len(out[t]) = Len(req[t].keys)
      /\ miss[t] \in Seq(Nat) /\ fetched[t] \in Seq(Bodies) /\ next[t] \in Nat
  BY Zenon DEF IInv, TypeOK
<1>5. Len(miss[t]) \in Nat
  BY <1>4
<1> QED
  BY Zenon, <1>1, <1>2, <1>3, <1>4, <1>5 DEF Slots

\* A value that Get accepts as a hit is the one that Load would have fetched.
LEMMA HitIsWanted ==
    ASSUME IInv, NEW k \in Keys, store[k] # Absent, store[k].codec = "this"
    PROVE  store[k] = Fetch(k)
<1>1. store[k] \in Bodies /\ store[k].of = Truth(k)
  BY Zenon DEF IInv, TypeOK, Filed, EntriesTrue
<1>2. PICK l \in Keys, c \in {"this", "other"} : store[k] = Body(l, c)
  BY <1>1 DEF Bodies
<1>3. store[k] = Body(Truth(k), "this")
  BY Zenon, <1>1, <1>2 DEF Body
<1> QED
  BY Zenon, <1>3 DEF Fetch

\* Get: a slot is filled with the value of its own key, or becomes a miss.
LEMMA GetStep ==
    ASSUME IInv, NEW t \in Tasks, Get(t)
    PROVE  IInv'
<1> DEFINE n == next[t]
           v == store[req[t].keys[n]]
<1>1. /\ pc[t] = "get" /\ n <= Len(req[t].keys)
      /\ next' = [next EXCEPT ![t] = n + 1]
      /\ pc' = pc /\ req' = req /\ fetched' = fetched /\ store' = store
  BY Zenon DEF Get
<1>2. /\ req[t] \in Requests /\ req[t].keys \in Seq(Keys) /\ Len(req[t].keys) \in Nat
      /\ \A i \in Slots(t) : /\ req[t].keys[i] \in Keys
                             /\ Wanted(t, i) \in Bodies /\ Wanted(t, i) # Absent
      /\ out[t] \in Seq(Bodies \cup {Absent}) /\ Len(out[t]) = Len(req[t].keys)
      /\ miss[t] \in Seq(Nat) /\ Len(miss[t]) \in Nat
      /\ fetched[t] \in Seq(Bodies) /\ next[t] \in Nat
  BY Zenon, <1>1, ActiveFacts
<1>3. n \in Slots(t) /\ n \in 1..Len(req[t].keys)
  BY <1>1, <1>2 DEF IInv, TaskInv, Slots
<1>4. InvokeGet(req[t].keys[n]) \in {v, Absent}
  BY <1>2, <1>3, KeysKept, Zenon
<1>5. TypeOK
  BY Zenon DEF IInv
<1>6. Filed'
  BY Zenon, <1>1 DEF IInv, Filed, EntriesTrue
<1>7. next'[t] = n + 1 /\ pc'[t] = "get" /\ req'[t] = req[t] /\ next' \in [Tasks -> Nat]
  BY <1>1, <1>2, <1>5 DEF TypeOK
<1>a. /\ \A i \in Slots(t) : out[t][i] \in {Wanted(t, i), Absent}
      /\ \A j \in 1..Len(miss[t]) : miss[t][j] \in Slots(t)
      /\ \A i \in Slots(t) : i < n /\ out[t][i] = Absent =>
            \E j \in 1..Len(miss[t]) : miss[t][j] = i
  BY Zenon, <1>1 DEF IInv, TaskInv, Missed
<1>b. Slots(t)' = Slots(t) /\ \A i : Wanted(t, i)' = Wanted(t, i)
  BY Zenon, <1>1 DEF Slots, Wanted
<1>c. n + 1 \in 1..(Len(req[t].keys) + 1) /\ \A i \in Slots(t) : i \in Nat /\ (i < n + 1 <=> i < n \/ i = n)
  BY <1>2, <1>3 DEF Slots
<1>8. CASE miss' = [miss EXCEPT ![t] = Append(@, n)] /\ out' = out
  <2>1. miss'[t] = Append(miss[t], n) /\ Append(miss[t], n) \in Seq(Nat)
    BY <1>2, <1>5, <1>8 DEF TypeOK
  <2>2. /\ Len(miss'[t]) = Len(miss[t]) + 1
        /\ \A j \in 1..Len(miss[t]) : miss'[t][j] = miss[t][j]
        /\ miss'[t][Len(miss[t]) + 1] = n
    BY <1>2, <2>1
  <2>3. TypeOK'
    BY Zenon, <1>1, <1>5, <1>7, <1>8, <2>1 DEF TypeOK
  <2>4. TaskInv(t)'
    <3>1. ASSUME NEW j \in 1..Len(miss'[t])
          PROVE  miss'[t][j] \in Slots(t)
      <4>1. j \in 1..Len(miss[t]) \/ j = Len(miss[t]) + 1
        BY <1>2, <2>2
      <4> QED
        BY Zenon, <1>3, <1>a, <2>2, <4>1
    <3>2. ASSUME NEW i \in Slots(t), i < n + 1, out[t][i] = Absent
          PROVE  \E j \in 1..Len(miss'[t]) : miss'[t][j] = i
      <4>1. CASE i = n
        <5>1. Len(miss[t]) + 1 \in 1..Len(miss'[t])
          BY <1>2, <2>2
        <5> QED
          BY Zenon, <2>2, <4>1, <5>1
      <4>2. CASE i < n
        <5>1. PICK j \in 1..Len(miss[t]) : miss[t][j] = i
          BY Zenon, <1>a, <3>2, <4>2
        <5>2. j \in 1..Len(miss'[t]) /\ miss'[t][j] = i
          BY SMTT(20), <1>2, <2>2, <5>1
        <5> QED
          BY Zenon, <5>2
      <4> QED
        BY Zenon, <1>c, <3>2, <4>1, <4>2
    <3> QED
      BY Zenon, <1>2, <1>7, <1>8, <1>a, <1>b, <1>c, <3>1, <3>2 DEF TaskInv, Missed
  <2>5. ASSUME NEW u \in Tasks, u # t PROVE TaskInv(u)'
    BY Zenon, <1>1, <1>5, <1>8, <2>5, OthersKept DEF TypeOK, IInv
  <2> QED
    BY Zenon, <1>6, <2>3, <2>4, <2>5 DEF IInv
<1>9. CASE /\ v # Absent /\ v.codec = "this"
           /\ out' = [out EXCEPT ![t][n] = v] /\ miss' = miss
  <2>1. v = Wanted(t, n)
    BY Zenon, <1>2, <1>3, <1>9, HitIsWanted DEF Wanted
  <2>2. /\ out'[t] = [out[t] EXCEPT ![n] = v] /\ out'[t] \in Seq(Bodies \cup {Absent})
        /\ Len(out'[t]) = Len(out[t]) /\ out'[t][n] = v
        /\ \A i \in Slots(t) : i # n => out'[t][i] = out[t][i]
    BY SMTT(20), <1>2, <1>3, <1>5, <1>9, <2>1 DEF TypeOK, Slots
  <2>3. TypeOK'
    <3>1. out' \in [Tasks -> Seq(Bodies \cup {Absent})]
      BY Zenon, <1>5, <1>9, <2>2 DEF TypeOK
    <3>2. \A u \in Tasks : Len(out'[u]) = Len(req'[u].keys)
      BY Zenon, <1>1, <1>5, <1>9, <2>2 DEF TypeOK
    <3> QED
      BY Zenon, <1>1, <1>5, <1>7, <1>9, <3>1, <3>2 DEF TypeOK
  <2>4. TaskInv(t)'
    <3>1. \A i \in Slots(t) : out'[t][i] \in {Wanted(t, i), Absent}
      BY Zenon, <1>a, <2>1, <2>2
    <3>2. ASSUME NEW i \in Slots(t), i < n + 1, out'[t][i] = Absent
          PROVE  i < n /\ out[t][i] = Absent
      BY Zenon, <1>9, <1>c, <2>2, <3>2
    <3> QED
      BY SMTT(20), <1>2, <1>7, <1>9, <1>a, <1>b, <1>c, <3>1, <3>2 DEF TaskInv, Missed
  <2>5. ASSUME NEW u \in Tasks, u # t PROVE TaskInv(u)'
    BY Zenon, <1>1, <1>5, <1>9, <2>5, OthersKept DEF TypeOK, IInv
  <2> QED
    BY Zenon, <1>6, <2>3, <2>4, <2>5 DEF IInv
<1> QED
  BY Zenon, <1>4, <1>8, <1>9 DEF Get

\* A fetched value is filed under a key that a fetch would return it for: get_opts
\* takes the range that was served, all others the key itself.
LEMMA FiledKey ==
    ASSUME NEW r \in Requests, NEW n \in 1..Len(r.keys)
    PROVE  LET k == r.keys[n]
               f == IF r.op = "get_opts" THEN Served(k) ELSE k
           IN  k \in Keys /\ f \in Keys /\ Fetch(k).of = Truth(f)
<1> DEFINE k == r.keys[n]
<1>1. k \in Keys
  BY CacheAssumption
<1>2. CASE r.op = "get_opts"
  <2>1. k \in Ranges
    BY <1>2, CacheAssumption
  <2>2. Served(k) \in Ranges /\ Truth(k) = Served(k) /\ Truth(Served(k)) = Served(k)
    BY Zenon, <2>1, ServedFacts DEF Truth
  <2> QED
    BY Zenon, <1>1, <1>2, <2>2, FetchFacts DEF Keys
<1>3. CASE r.op # "get_opts"
  BY Zenon, <1>1, <1>3, FetchFacts
<1> QED
  BY Zenon, <1>2, <1>3

\* Asked: the slots that are empty after the last key are the misses.
LEMMA AskedStep ==
    ASSUME IInv, NEW t \in Tasks, Asked(t)
    PROVE  IInv'
<1>1. /\ pc[t] = "get" /\ next[t] > Len(req[t].keys)
      /\ pc' = [pc EXCEPT ![t] = IF req[t].op = "get" \/ miss[t] = <<>> THEN "done" ELSE "load"]
      /\ next' = [next EXCEPT ![t] = 1]
      /\ req' = req /\ out' = out /\ miss' = miss /\ fetched' = fetched /\ store' = store
  BY Zenon DEF Asked, Goto
<1>2. TypeOK /\ TaskInv(t)
  BY Zenon DEF IInv
<1>3. /\ req[t] \in Requests /\ Len(req[t].keys) \in Nat /\ miss[t] \in Seq(Nat) /\ next[t] \in Nat
  BY Zenon, <1>1, ActiveFacts
<1>4. /\ pc'[t] = IF req[t].op = "get" \/ miss[t] = <<>> THEN "done" ELSE "load"
      /\ next'[t] = 1 /\ TypeOK'
  BY Zenon, <1>1, <1>2 DEF TypeOK
<1>5. /\ \A i \in Slots(t) : out[t][i] \in {Wanted(t, i), Absent}
      /\ \A j \in 1..Len(miss[t]) : miss[t][j] \in Slots(t)
      /\ \A i \in Slots(t) : out[t][i] = Absent => \E j \in 1..Len(miss[t]) : miss[t][j] = i
  <2>1. \A i \in Slots(t) : i < next[t]
    BY <1>1, <1>3 DEF Slots
  <2> QED
    BY Zenon, <1>1, <1>2, <2>1 DEF TaskInv, Missed
<1>6. miss[t] = <<>> => \A i \in Slots(t) : out[t][i] # Absent
  <2>1. miss[t] = <<>> => Len(miss[t]) = 0
    OBVIOUS
  <2> QED
    BY <1>5, <2>1
<1>7. Slots(t)' = Slots(t) /\ \A i : Wanted(t, i)' = Wanted(t, i)
  BY Zenon, <1>1 DEF Slots, Wanted
<1>8. TaskInv(t)'
  BY SMTT(20), <1>1, <1>3, <1>4, <1>5, <1>6, <1>7 DEF TaskInv, Missed
<1>9. ASSUME NEW u \in Tasks, u # t PROVE TaskInv(u)'
  BY Zenon, <1>1, <1>2, <1>9, OthersKept DEF TypeOK, IInv
<1> QED
  BY Zenon, <1>1, <1>4, <1>8, <1>9 DEF IInv, Filed, EntriesTrue

\* Load: what is fetched corresponds to the misses, in their order.
LEMMA LoadStep ==
    ASSUME IInv, NEW t \in Tasks, Load(t)
    PROVE  IInv'
<1> DEFINE f == [j \in 1..Len(miss[t]) |-> Fetch(req[t].keys[miss[t][j]])]
<1>1. /\ pc[t] = "load" /\ pc' = [pc EXCEPT ![t] = "put"]
      /\ fetched' = [fetched EXCEPT ![t] = f]
      /\ req' = req /\ out' = out /\ miss' = miss /\ next' = next /\ store' = store
  BY Zenon DEF Load, Goto
<1>2. TypeOK /\ TaskInv(t)
  BY Zenon DEF IInv
<1>3. /\ req[t] \in Requests /\ miss[t] \in Seq(Nat) /\ Len(miss[t]) \in Nat
      /\ \A n \in Slots(t) : Wanted(t, n) \in Bodies
  BY Zenon, <1>1, ActiveFacts
<1>4. /\ next[t] = 1 /\ miss[t] # <<>>
      /\ \A i \in Slots(t) : out[t][i] \in {Wanted(t, i), Absent}
      /\ \A j \in 1..Len(miss[t]) : miss[t][j] \in Slots(t)
      /\ \A i \in Slots(t) : out[t][i] = Absent => \E j \in 1..Len(miss[t]) : miss[t][j] = i
  BY Zenon, <1>1, <1>2 DEF TaskInv, Missed
<1>5. next[t] \in 1..Len(miss[t])
  <2>1. Len(miss[t]) # 0
    BY <1>3, <1>4
  <2> QED
    BY <1>3, <1>4, <2>1
<1>6. /\ \A j \in 1..Len(miss[t]) : f[j] = Wanted(t, miss[t][j]) /\ f[j] \in Bodies
      /\ f \in Seq(Bodies) /\ Len(f) = Len(miss[t])
  <2>1. \A j \in 1..Len(miss[t]) : f[j] = Wanted(t, miss[t][j]) /\ f[j] \in Bodies
    BY Zenon, <1>3, <1>4 DEF Wanted
  <2>2. f \in [1..Len(miss[t]) -> Bodies]
    BY <2>1, Zenon
  <2> HIDE DEF f
  <2>3. f \in Seq(Bodies) /\ Len(f) = Len(miss[t])
    BY <1>3, <2>2
  <2> QED
    BY Zenon, <2>1, <2>3
<1> HIDE DEF f
<1>7. fetched'[t] = f /\ pc'[t] = "put" /\ TypeOK'
  BY Zenon, <1>1, <1>2, <1>6 DEF TypeOK
<1>8. Slots(t)' = Slots(t) /\ \A i : Wanted(t, i)' = Wanted(t, i)
  BY Zenon, <1>1 DEF Slots, Wanted
<1>9. TaskInv(t)'
  BY <1>1, <1>3, <1>4, <1>5, <1>6, <1>7, <1>8, Zenon DEF TaskInv, Missed
<1>a. ASSUME NEW u \in Tasks, u # t PROVE TaskInv(u)'
  BY Zenon, <1>1, <1>2, <1>a, OthersKept DEF TypeOK, IInv
<1> QED
  BY Zenon, <1>1, <1>7, <1>9, <1>a DEF IInv, Filed, EntriesTrue

\* LoadFails, Drop and Return: the read is forgotten.
LEMMA LeaveStep ==
    ASSUME IInv, NEW t \in Tasks, Leave(t), store' = store
    PROVE  IInv'
<1>1. TypeOK
  BY Zenon DEF IInv
<1>2. /\ pc'[t] = "idle" /\ req'[t] = NoRequest /\ out'[t] = <<>> /\ miss'[t] = <<>>
      /\ fetched'[t] = <<>> /\ next'[t] = 1
  BY Zenon, <1>1 DEF TypeOK, Leave, Goto
<1>3. NoRequest.keys = <<>> /\ Len(<<>>) = 0
  BY Zenon DEF NoRequest
<1>4. TypeOK'
  <2>1. pc' \in [Tasks -> {"idle", "get", "load", "put", "done"}] /\ next' \in [Tasks -> Nat]
    BY Zenon, <1>1 DEF TypeOK, Leave, Goto
  <2>2. req' \in [Tasks -> Requests \cup {NoRequest}]
    BY Zenon, <1>1 DEF TypeOK, Leave
  <2>3. out' \in [Tasks -> Seq(Bodies \cup {Absent})]
    BY <1>1 DEF TypeOK, Leave
  <2>4. miss' \in [Tasks -> Seq(Nat)] /\ fetched' \in [Tasks -> Seq(Bodies)]
    BY <1>1 DEF TypeOK, Leave
  <2>5. \A u \in Tasks : Len(out'[u]) = Len(req'[u].keys)
    BY Zenon, <1>1, <1>2, <1>3 DEF TypeOK, Leave
  <2> QED
    BY <1>1, <2>1, <2>2, <2>3, <2>4, <2>5, Zenon DEF TypeOK
<1>5. TaskInv(t)'
  BY <1>2, <1>3 DEF TaskInv, Slots
<1>6. ASSUME NEW u \in Tasks, u # t PROVE TaskInv(u)'
  BY Zenon, <1>1, <1>6, OthersKept DEF TypeOK, IInv, Leave, Goto
<1> QED
  BY Zenon, <1>4, <1>5, <1>6 DEF IInv, Filed, EntriesTrue

\* Put: the value goes into its own slot and, if the cache takes it, under its
\* own key.
LEMMA PutStep ==
    ASSUME IInv, NEW t \in Tasks, Put(t)
    PROVE  IInv'
<1> DEFINE j == next[t]
           n == miss[t][j]
           k == req[t].keys[n]
           f == IF req[t].op = "get_opts" THEN Served(k) ELSE k
           v == fetched[t][j]
<1>1. /\ pc[t] = "put"
      /\ store' = InvokePut(f, v) \/ store' = store
      /\ out' = [out EXCEPT ![t][n] = v]
      /\ next' = [next EXCEPT ![t] = j + 1]
      /\ pc' = [pc EXCEPT ![t] = IF j = Len(miss[t]) THEN "done" ELSE "put"]
      /\ req' = req /\ miss' = miss /\ fetched' = fetched
  BY Zenon DEF Put, Goto
<1>2. TypeOK /\ TaskInv(t)
  BY Zenon DEF IInv
<1>3. /\ req[t] \in Requests /\ Len(req[t].keys) \in Nat
      /\ \A i \in Slots(t) : Wanted(t, i) \in Bodies /\ Wanted(t, i) # Absent
      /\ out[t] \in Seq(Bodies \cup {Absent}) /\ Len(out[t]) = Len(req[t].keys)
      /\ miss[t] \in Seq(Nat) /\ Len(miss[t]) \in Nat /\ next[t] \in Nat
  BY Zenon, <1>1, ActiveFacts
<1>4. /\ j \in 1..Len(miss[t]) /\ Len(fetched[t]) = Len(miss[t])
      /\ \A i \in Slots(t) : out[t][i] \in {Wanted(t, i), Absent}
      /\ \A i \in 1..Len(miss[t]) : miss[t][i] \in Slots(t) /\ fetched[t][i] = Wanted(t, miss[t][i])
      /\ \A i \in Slots(t) : out[t][i] = Absent => \E l \in j..Len(miss[t]) : miss[t][l] = i
  BY Zenon, <1>1, <1>2 DEF TaskInv, Missed
<1>5. n \in Slots(t) /\ v = Wanted(t, n) /\ v \in Bodies /\ v # Absent
  BY <1>3, <1>4
<1>6. k \in Keys /\ f \in Keys /\ v.of = Truth(f) /\ v.codec = "this"
  <2>1. n \in 1..Len(req[t].keys)
    BY Zenon, <1>5 DEF Slots
  <2>2. k \in Keys /\ f \in Keys /\ Fetch(k).of = Truth(f)
    BY <1>3, <2>1, FiledKey, Zenon
  <2>3. Fetch(k).codec = "this"
    BY <2>2, FetchFacts, Zenon
  <2> QED
    BY <1>5, <2>2, <2>3, Zenon DEF Wanted
<1> HIDE DEF n, f, v, k
<1>7. store' = [store EXCEPT ![f] = v] \/ store' = store
  BY Zenon, <1>1, <1>6, KeysKept
<1>8. store' \in [Keys -> Bodies \cup {Absent}]
  BY <1>2, <1>5, <1>6, <1>7, Zenon DEF TypeOK
<1>9. Filed'
  <2>1. CASE store' = store
    BY Zenon, <2>1 DEF IInv, Filed, EntriesTrue
  <2>2. CASE store' = [store EXCEPT ![f] = v]
    <3>1. \A l \in Keys : store'[l] = IF l = f THEN v ELSE store[l]
      BY Zenon, <1>2, <1>6, <2>2 DEF TypeOK
    <3> QED
      BY Zenon, <1>6, <3>1 DEF IInv, Filed, EntriesTrue, Keys
  <2> QED
    BY Zenon, <1>7, <2>1, <2>2
<1>a. /\ out'[t] = [out[t] EXCEPT ![n] = v] /\ out'[t] \in Seq(Bodies \cup {Absent})
      /\ Len(out'[t]) = Len(out[t]) /\ out'[t][n] = v
      /\ \A i \in Slots(t) : i # n => out'[t][i] = out[t][i]
  BY <1>1, <1>2, <1>3, <1>5 DEF TypeOK, Slots
<1>b. TypeOK'
  <2>1. out' \in [Tasks -> Seq(Bodies \cup {Absent})]
    BY Zenon, <1>1, <1>2, <1>a DEF TypeOK
  <2>2. \A u \in Tasks : Len(out'[u]) = Len(req'[u].keys)
    BY Zenon, <1>1, <1>2, <1>a DEF TypeOK
  <2>3. next' \in [Tasks -> Nat] /\ pc' \in [Tasks -> {"idle", "get", "load", "put", "done"}]
    BY <1>1, <1>2, <1>3 DEF TypeOK
  <2> QED
    BY Zenon, <1>1, <1>2, <1>8, <2>1, <2>2, <2>3 DEF TypeOK
<1>c. Slots(t)' = Slots(t) /\ \A i : Wanted(t, i)' = Wanted(t, i)
  BY Zenon, <1>1 DEF Slots, Wanted
<1>d. \A i \in Slots(t) : out'[t][i] \in {Wanted(t, i), Absent}
  BY Zenon, <1>4, <1>5, <1>a
<1>e. ASSUME NEW i \in Slots(t), out'[t][i] = Absent
      PROVE  \E l \in (j + 1)..Len(miss[t]) : miss[t][l] = i
  <2>1. i # n /\ out[t][i] = Absent
    BY Zenon, <1>5, <1>a, <1>e
  <2>2. PICK l \in j..Len(miss[t]) : miss[t][l] = i
    BY Zenon, <1>4, <2>1
  <2>3. l # j
    BY Zenon, <2>1, <2>2 DEF n
  <2>4. l \in (j + 1)..Len(miss[t])
    BY <1>3, <2>2, <2>3
  <2> QED
    BY Zenon, <2>2, <2>4
<1>f. TaskInv(t)'
  <2>1. next'[t] = j + 1 /\ pc'[t] = IF j = Len(miss[t]) THEN "done" ELSE "put"
    BY Zenon, <1>1, <1>2 DEF TypeOK
  <2>2. CASE j = Len(miss[t])
    <3>1. \A i \in Slots(t) : out'[t][i] # Absent
      BY <1>3, <1>e, <2>2
    <3> QED
      BY <1>1, <1>3, <1>4, <1>c, <1>d, <2>1, <2>2, <3>1 DEF TaskInv
  <2>3. CASE j # Len(miss[t])
    <3>1. j + 1 \in 1..Len(miss[t])
      BY <1>3, <1>4, <2>3
    <3> QED
      BY SMTT(20), <1>1, <1>3, <1>4, <1>c, <1>d, <1>e, <2>1, <2>3, <3>1 DEF TaskInv, Missed
  <2> QED
    BY Zenon, <2>2, <2>3
<1>g. ASSUME NEW u \in Tasks, u # t PROVE TaskInv(u)'
  BY Zenon, <1>1, <1>2, <1>g, OthersKept DEF TypeOK, IInv
<1> QED
  BY Zenon, <1>9, <1>b, <1>f, <1>g DEF IInv

\* InvalidatePrefix, Clear, Evict and PutElsewhere: the cache changes under the
\* reads that are under way.
LEMMA StoreStep ==
    ASSUME IInv, InvalidatePrefix \/ Clear \/ Evict \/ PutElsewhere
    PROVE  IInv'
<1>1. /\ pc' = pc /\ req' = req /\ out' = out /\ miss' = miss /\ fetched' = fetched /\ next' = next
      /\ TypeOK /\ Filed
  BY Zenon DEF IInv, InvalidatePrefix, Clear, Evict, PutElsewhere
<1>2. /\ store' \in [Keys -> Bodies \cup {Absent}]
      /\ \A k \in Keys : \/ store'[k] \in {store[k], Absent}
                         \/ k \in Entries /\ store'[k] = Body(k, "other")
  <2>1. CASE InvalidatePrefix \/ Clear
    BY Zenon, <1>1, <2>1 DEF InvalidatePrefix, Clear, TypeOK
  <2>2. CASE Evict
    BY Zenon, <1>1, <2>2 DEF Evict, TypeOK
  <2>3. CASE PutElsewhere
    <3>1. PICK e \in Entries : store' = [store EXCEPT ![e] = Body(e, "other")]
      BY <2>3, Zenon DEF PutElsewhere
    <3>2. Body(e, "other") \in Bodies
      BY DEF Bodies, Keys
    <3> QED
      BY Zenon, <1>1, <3>1, <3>2 DEF TypeOK, Keys
  <2> QED
    BY Zenon, <2>1, <2>2, <2>3
<1>3. TypeOK'
  BY Zenon, <1>1, <1>2 DEF TypeOK
<1>4. Filed'
  <2>1. ASSUME NEW k \in Keys, store'[k] # Absent
        PROVE  store'[k].of = Truth(k)
    <3>1. CASE store'[k] \in {store[k], Absent}
      BY Zenon, <1>1, <2>1, <3>1 DEF Filed, EntriesTrue
    <3>2. CASE k \in Entries /\ store'[k] = Body(k, "other")
      <4>1. Truth(k) = k
        BY Zenon, <3>2, CacheAssumption DEF Truth
      <4> QED
        BY <3>2, <4>1 DEF Body
    <3> QED
      BY Zenon, <1>2, <3>1, <3>2
  <2>2. ASSUME NEW k \in Ranges, store'[k] # Absent
        PROVE  store'[k].codec = "this"
    <3>1. k \in Keys /\ k \notin Entries
      BY Zenon, CacheAssumption DEF Keys
    <3>2. store'[k] = store[k]
      BY Zenon, <1>2, <2>2, <3>1
    <3> QED
      BY Zenon, <1>1, <2>2, <3>2 DEF Filed
  <2> QED
    BY Zenon, <2>1, <2>2 DEF Filed, EntriesTrue
<1>5. ASSUME NEW u \in Tasks PROVE TaskInv(u)'
  BY Zenon, <1>1, OthersKept DEF IInv
<1> QED
  BY Zenon, <1>3, <1>4, <1>5 DEF IInv

\* Every step keeps the invariant.
LEMMA NextInv ==
    IInv /\ [Next]_vars => IInv'
<1> SUFFICES ASSUME IInv, [Next]_vars PROVE IInv'
  BY Zenon
<1>1. ASSUME NEW t \in Tasks,
             LoadFails(t) \/ Drop(t) \/ Return(t)
      PROVE  IInv'
  BY Zenon, <1>1, LeaveStep DEF LoadFails, Drop, Return
<1>2. CASE UNCHANGED vars
  BY Zenon, <1>2, OthersKept DEF vars, IInv, TypeOK, Filed, EntriesTrue
<1> QED
  BY Zenon, <1>1, <1>2, BeginStep, GetStep, AskedStep, LoadStep, PutStep, StoreStep DEF Next

\* The inductive invariant holds in every reachable state.
THEOREM Invariant == Spec => []IInv
  BY InitInv, NextInv, PTL DEF Spec

\* Every variable of a cached read keeps its type, and a result always has one
\* slot per key.
THEOREM TypeCorrect == Spec => []TypeOK
<1>1. IInv => TypeOK
  BY Zenon DEF IInv
<1> QED
  BY <1>1, Invariant, PTL

\* The Go cache holds under a key what a fetch of that key returns, for any file,
\* any ranges and any number of concurrent reads.
THEOREM EntriesStayTrue == Spec => []EntriesTrue
<1>1. IInv => EntriesTrue
  BY Zenon DEF IInv, Filed
<1> QED
  BY <1>1, Invariant, PTL

\* A read through the cache returns, slot by slot, what the loader or the inner
\* store would have returned, and get_opts reports the range of its bytes but for
\* a hit on a range that reaches beyond the file.
THEOREM ReadsReturnTruth == Spec => []ResultsTrue
<1>1. IInv => ResultsTrue
  <2> SUFFICES ASSUME IInv, NEW t \in Tasks, pc[t] = "done"
               PROVE  /\ \A n \in DOMAIN req[t].keys :
                            \/ out[t][n] = Fetch(req[t].keys[n])
                            \/ req[t].op = "get" /\ out[t][n] = Absent
                      /\ req[t].op = "get_opts" =>
                            \/ Reported(t) = out[t][1].of
                            \/ miss[t] = <<>> /\ req[t].keys[1].end > FileSize
    BY Zenon DEF ResultsTrue
  <2>1. req[t].keys \in Seq(Keys) /\ req[t] \in Requests
    BY Zenon, ActiveFacts
  <2>2. DOMAIN req[t].keys = Slots(t)
    BY <2>1 DEF Slots
  <2>3. ASSUME NEW n \in Slots(t)
        PROVE  \/ out[t][n] = Fetch(req[t].keys[n])
               \/ req[t].op = "get" /\ out[t][n] = Absent
    BY Zenon DEF IInv, TaskInv, Wanted
  <2>4. ASSUME req[t].op = "get_opts"
        PROVE  \/ Reported(t) = out[t][1].of
               \/ miss[t] = <<>> /\ req[t].keys[1].end > FileSize
    <3>1. Len(req[t].keys) = 1 /\ req[t].keys[1] \in Ranges
      BY Zenon, <2>1, <2>4, CacheAssumption
    <3>2. 1 \in Slots(t)
      BY <3>1 DEF Slots
    <3>3. out[t][1] = Fetch(req[t].keys[1])
      BY <2>3, <2>4, <3>2
    <3>4. out[t][1].of = Served(req[t].keys[1])
      BY Zenon, <3>1, <3>3, FetchFacts DEF Keys, Truth
    <3> QED
      BY Zenon, <3>1, <3>4, ServedFacts DEF Reported
  <2> QED
    BY Zenon, <2>2, <2>3, <2>4
<1> QED
  BY <1>1, Invariant, PTL

-----------------------------------------------------------------------------
(* The wire format is unambiguous, and reads come to their end.            *)

\* Two requests of a kind have the same bytes, and the adapters accept them, only
\* if the requests are the same: no key runs into the next string of the key or into
\* the value that follows it.
THEOREM WireUnambiguous ==
    ASSUME NEW S, Nat \subseteq S, NEW r \in Seq(S), NEW q \in Seq(S),
           NEW k \in Keys, NEW l \in Keys, k \in Entries <=> l \in Entries,
           encode(k) \o r = encode(l) \o q, decode(k, encode(k) \o r).ok
    PROVE  k = l /\ r = q
<1>1. ~ Truncated.ok
  BY DEF Truncated
<1>2. decode(k, encode(k) \o r) = decode(l, encode(l) \o q)
  BY Zenon DEF decode
<1>3. [ok |-> TRUE, key |-> k, data |-> r] = [ok |-> TRUE, key |-> l, data |-> q]
  BY <1>1, <1>2, KeyRead, Zenon
<1> QED
  BY Zenon, <1>3

\* What a step of a read changes of the read itself.
LEMMA ReadStep ==
    ASSUME IInv, NEW t \in Tasks, pc[t] # "idle",
           \/ Begin(t) \/ Get(t) \/ Asked(t) \/ Load(t) \/ LoadFails(t) \/ Put(t)
           \/ Drop(t) \/ Return(t)
    PROVE  \/ pc'[t] = "idle"
           \/ /\ req'[t] = req[t]
              /\ \/ Stage(pc'[t]) > Stage(pc[t])
                 \/ pc'[t] = pc[t] /\ next'[t] > next[t]
<1>t. /\ pc \in [Tasks -> {"idle", "get", "load", "put", "done"}]
      /\ next \in [Tasks -> Nat]
  BY Zenon DEF IInv, TypeOK
<1>1. CASE LoadFails(t) \/ Drop(t) \/ Return(t)
  BY Zenon, <1>t, <1>1 DEF LoadFails, Drop, Return, Leave, Goto
<1>2. CASE Get(t)
  <2>1. req' = req /\ pc' = pc /\ next' = [next EXCEPT ![t] = next[t] + 1]
    BY Zenon, <1>2 DEF Get
  <2> QED
    BY <1>t, <2>1
<1>3. CASE Asked(t)
  <2>1. pc[t] = "get" /\ pc'[t] \in {"done", "load"} /\ req' = req
    BY Zenon, <1>t, <1>3 DEF Asked, Goto
  <2> QED
    BY SMTT(20), <2>1 DEF Stage
<1>4. CASE Load(t)
  <2>1. pc[t] = "load" /\ pc'[t] = "put" /\ req' = req
    BY Zenon, <1>t, <1>4 DEF Load, Goto
  <2> QED
    BY SMTT(20), <2>1 DEF Stage
<1>5. CASE Put(t)
  <2>1. /\ pc[t] = "put" /\ pc'[t] \in {"done", "put"} /\ req' = req
        /\ next' = [next EXCEPT ![t] = next[t] + 1]
    BY Zenon, <1>t, <1>5 DEF Put, Goto
  <2> QED
    BY SMTT(20), <1>t, <2>1 DEF Stage
<1>6. ~ Begin(t)
  BY ZenonT(30) DEF Begin
<1> QED
  BY Zenon, <1>1, <1>2, <1>3, <1>4, <1>5, <1>6

\* The steps of other reads, and of the cache, leave a read as it is.
LEMMA ReadAlone ==
    ASSUME IInv, NEW t \in Tasks, NEW u \in Tasks \ {t},
           \/ Begin(u) \/ Get(u) \/ Asked(u) \/ Load(u) \/ LoadFails(u) \/ Put(u)
           \/ Drop(u) \/ Return(u)
    PROVE  UNCHANGED <<pc[t], req[t], out[t], miss[t], fetched[t], next[t]>>
<1>t. /\ pc \in [Tasks -> {"idle", "get", "load", "put", "done"}]
      /\ req \in [Tasks -> Requests \cup {NoRequest}]
      /\ out \in [Tasks -> Seq(Bodies \cup {Absent})] /\ miss \in [Tasks -> Seq(Nat)]
      /\ fetched \in [Tasks -> Seq(Bodies)] /\ next \in [Tasks -> Nat]
  BY ZenonT(30) DEF IInv, TypeOK
<1>1. CASE Begin(u)
  BY ZenonT(30), <1>t, <1>1 DEF Begin, Goto
<1>2. CASE Get(u)
  BY Zenon, <1>t, <1>2 DEF Get
<1>3. CASE Asked(u)
  BY Zenon, <1>t, <1>3 DEF Asked, Goto
<1>4. CASE Load(u)
  BY Zenon, <1>t, <1>4 DEF Load, Goto
<1>5. CASE LoadFails(u)
  BY Zenon, <1>t, <1>5 DEF LoadFails, Leave, Goto
<1>6. CASE Put(u)
  BY Zenon, <1>t, <1>6 DEF Put, Goto
<1>7. CASE Drop(u)
  BY Zenon, <1>t, <1>7 DEF Drop, Leave, Goto
<1>8. CASE Return(u)
  BY Zenon, <1>t, <1>8 DEF Return, Leave, Goto
<1> QED
  BY Zenon, <1>1, <1>2, <1>3, <1>4, <1>5, <1>6, <1>7, <1>8

\* Positions stay inside the request.
THEOREM ReadsStayBounded == Spec => []ReadBounded
<1>1. IInv => ReadBounded
  <2> SUFFICES ASSUME IInv, NEW t \in Tasks
               PROVE  /\ pc[t] = "get" => next[t] <= Len(req[t].keys) + 1
                      /\ pc[t] = "put" => next[t] <= Len(miss[t])
    BY Zenon DEF ReadBounded
  <2>1. TaskInv(t)
    BY Zenon DEF IInv
  <2>2. CASE pc[t] = "get"
    <3>1. next[t] \in 1..(Len(req[t].keys) + 1)
      BY Zenon, <2>1, <2>2 DEF TaskInv
    <3>2. Len(req[t].keys) \in Nat
      BY Zenon, <2>2, ActiveFacts
    <3> QED
      BY <2>2, <3>1, <3>2
  <2>3. CASE pc[t] = "put"
    <3>1. next[t] \in 1..Len(miss[t])
      BY Zenon, <2>1, <2>3 DEF TaskInv
    <3>2. Len(miss[t]) \in Nat
      BY Zenon, <2>3, ActiveFacts
    <3> QED
      BY <2>3, <3>1, <3>2
  <2> QED
    BY Zenon, <2>2, <2>3
<1> QED
  BY <1>1, Invariant, PTL

\* Every step of a read takes it closer to its end, and nothing sets it back.
THEOREM ReadsAdvance == Spec => ReadAdvances
<1> DEFINE Still(t) == UNCHANGED <<pc[t], req[t], out[t], miss[t], fetched[t], next[t]>>
           Ahead(t) == /\ req'[t] = req[t]
                       /\ \/ Stage(pc'[t]) > Stage(pc[t])
                          \/ pc'[t] = pc[t] /\ next'[t] > next[t]
           Acts(t) == \/ Begin(t) \/ Get(t) \/ Asked(t) \/ Load(t) \/ LoadFails(t) \/ Put(t)
                      \/ Drop(t) \/ Return(t)
<1>1. ASSUME IInv, [Next]_vars, NEW t \in Tasks, pc[t] # "idle"
      PROVE  pc'[t] = "idle" \/ Still(t) \/ Ahead(t)
  <2>1. CASE Acts(t)
    BY Zenon, <1>1, <2>1, ReadStep
  <2>2. CASE \E u \in Tasks \ {t} : Acts(u)
    BY Zenon, <1>1, <2>2, ReadAlone
  <2>3. CASE InvalidatePrefix \/ Clear \/ Evict \/ PutElsewhere \/ UNCHANGED vars
    BY Zenon, <2>3 DEF InvalidatePrefix, Clear, Evict, PutElsewhere, vars
  <2> QED
    BY Zenon, <1>1, <2>1, <2>2, <2>3 DEF Next
<1>2. IInv /\ [Next]_vars =>
        [\A t \in Tasks : pc[t] # "idle" =>
          \/ pc'[t] = "idle"
          \/ UNCHANGED <<pc[t], req[t], out[t], miss[t], fetched[t], next[t]>>
          \/ /\ req'[t] = req[t]
             /\ \/ Stage(pc'[t]) > Stage(pc[t])
                \/ pc'[t] = pc[t] /\ next'[t] > next[t]]_vars
  BY Zenon, <1>1
<1> QED
  BY <1>2, Invariant, PTL DEF Spec, ReadAdvances
=============================================================================
