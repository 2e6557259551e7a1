--------------------------- MODULE QueryServingProofs ---------------------------
(***************************************************************************)
(* For every cache size, queue depth and number of clients, writes and     *)
(* respawns: what the cache answers is current, seeds reach nobody but     *)
(* whoever asked for them, the cache keeps its budgets, and QueryServing   *)
(* implements FreshAnswers.                                                *)
(***************************************************************************)
EXTENDS QueryServing, FiniteSetTheorems, SequenceTheorems, WellFoundedInduction, TLAPS

-----------------------------------------------------------------------------
(* The inductive invariant. *)

Entries == [key : Keys, value : Values]

\* The variables' types, the sequences as sequences.
Typed ==
    /\ TypeOK
    /\ cache \in Seq(Entries)
    /\ queue \in Seq(Requests)
    /\ key \in Keys \cup {None}

\* The one query that holds the lock, from the look into the cache to its answer.
OneQuery ==
    /\ step = "free" <=> holder = None
    /\ holder # None => question[holder] # None
    /\ step \in {"free", "look", "submit", "hook"} => part = None
    /\ step \in {"submit", "hook"} => question[holder] \in Asks
    /\ step = "look" => key # None

\* An open question knows what the databases were when it was put.
Opened ==
    \A c \in Clients : question[c] # None =>
        /\ since[c] \in [graph : 0..MaxWrites, embed : 0..MaxEmbeds]
        /\ since[c].graph <= graph /\ since[c].embed <= embed

\* Open questions that have not called the hook yet.
Uncalled ==
    {c \in Clients : question[c] # None} \
        (IF step \in {"hook", "read", "finish"} THEN {holder} ELSE {})

\* No query calls the hook twice.
CallsCounted ==
    /\ IsFiniteSet({c \in Clients : question[c] # None})
    /\ calls + Cardinality(Uncalled) <= sent

\* The request with the last number is that of the query that waits.
Numbered(request) ==
    /\ request.number <= calls
    /\ step = "hook" /\ request.number = calls => request.q = question[holder]

Calls ==
    /\ \A i \in 1..Len(queue) : Numbered(queue[i])
    /\ busy # None => Numbered(busy)

\* A new process is counted when it is up, and serves when it is swapped in.
Sidecars ==
    /\ generation <= respawns + 1
    /\ spawned => ~sidecar.alive /\ sidecar.id + 1 = generation
    /\ ~spawned => sidecar.id = generation

\* The seeds of an answer to q, got since the serving generation was from.
SeedsOf(seeds, q, from) ==
    /\ q \notin Asks => seeds = None
    /\ q \in Asks => \/ seeds = FTS
                     \/ /\ seeds \in [q : Asks, by : 1..MaxRespawns + 1]
                        /\ seeds.q = q
                        /\ from <= seeds.by /\ seeds.by <= sidecar.id

\* What a query has read when it gets to its first and its last statement.
Reads ==
    /\ step = "read" =>
        SeedsOf(part, question[holder], IF key = None THEN 0 ELSE key.generation)
    /\ step = "finish" =>
        /\ part \in [seeds : Seeds, lo : 0..MaxWrites]
        /\ SeedsOf(part.seeds, question[holder], IF key = None THEN 0 ELSE key.generation)
        /\ since[holder].graph <= part.lo /\ part.lo <= graph
        /\ key # None => key.graph <= part.lo

\* The key is made of what the databases were since the question was put, and of
\* a generation that served since.
KeyRead ==
    step # "free" /\ key # None =>
        /\ key.q = question[holder]
        /\ since[holder].graph <= key.graph /\ key.graph <= graph
        /\ key.q \in Asks =>
            /\ key.embed \in 0..MaxEmbeds /\ key.generation \in 0..MaxRespawns + 1
            /\ since[holder].embed <= key.embed /\ key.embed <= embed
            /\ key.generation <= generation
        /\ key.q \notin Asks => key.embed = None /\ key.generation = None

\* A cache entry is no older than its key says, and answers its question.
Entry(e) ==
    /\ e.key.graph <= e.value.lo /\ e.value.lo <= e.value.hi /\ e.value.hi <= graph
    /\ e.key.q \in Asks =>
        /\ e.key.embed \in 0..MaxEmbeds /\ e.value.embed \in 0..MaxEmbeds
        /\ e.key.generation \in 0..MaxRespawns + 1
        /\ e.key.embed <= e.value.embed /\ e.value.embed <= embed
        /\ step = "look" /\ key.q \in Asks => e.value.embed <= key.embed
    /\ e.key.q \notin Asks => e.key.embed = None /\ e.value.embed = None
    /\ SeedsOf(e.value.seeds, e.key.q, e.key.generation)

CacheTrue == \A i \in 1..Len(cache) : Entry(cache[i])

UniqueKeys(entries) ==
    \A i, j \in 1..Len(entries) : entries[i].key = entries[j].key => i = j

Within == UniqueKeys(cache) /\ Len(cache) <= Cap /\ Bytes(cache) <= MaxBytes

Inv ==
    /\ Typed /\ OneQuery /\ Opened /\ CallsCounted /\ Calls /\ Sidecars
    /\ Reads /\ KeyRead /\ CacheTrue /\ Within

-----------------------------------------------------------------------------
(* Natural numbers: the least one of a set, and induction over a set. *)

LEMMA LeastNat == ASSUME NEW T, T \subseteq Nat, T # {}
                  PROVE  \E m \in T : \A k \in T : m <= k
<1>1. PICK m \in T : \A k \in T : ~(<<k, m>> \in OpToRel(<, Nat))
    BY NatLessThanWellFounded, WFMin
<1>2. \A k \in T : ~(k < m)
    BY <1>1 DEF OpToRel
<1> QED
    BY <1>2

LEMMA InductiveSet ==
    ASSUME NEW T, 0 \in T, \A n \in Nat : n \in T => n + 1 \in T
    PROVE  Nat \subseteq T
<1> SUFFICES ASSUME Nat \ T # {} PROVE FALSE
    OBVIOUS
<1>1. PICK m \in Nat \ T : \A k \in Nat \ T : m <= k
    BY LeastNat
<1>2. m - 1 \in Nat /\ m - 1 \notin Nat \ T
    BY <1>1
<1> QED
    BY <1>1, <1>2

-----------------------------------------------------------------------------
(* The sum of the costs. *)

\* f sums up the costs of the entries.
Sums(f, entries) ==
    /\ f \in [0..Len(entries) -> Nat]
    /\ f[0] = 0
    /\ \A n \in 1..Len(entries) : f[n] = f[n - 1] + Cost(entries[n])

LEMMA CostNat == ASSUME NEW e \in Entries PROVE Cost(e) \in Nat \ {0}
<1>1. e.key.q \in Queries /\ e.value.hi \in 0..MaxWrites
    BY DEF Entries, Keys, Values
<1> QED
    BY <1>1, ServingAssumption DEF Cost

\* Every sequence of entries has such a function, and Bytes is its last value.
LEMMA BytesIsSum ==
    ASSUME NEW entries \in Seq(Entries)
    PROVE  \E f : Sums(f, entries) /\ Bytes(entries) = f[Len(entries)]
<1> DEFINE L == Len(entries)
           Upto(f, m) == /\ f \in [0..m -> Nat]
                         /\ f[0] = 0
                         /\ \A n \in 1..m : f[n] = f[n - 1] + Cost(entries[n])
           T == {m \in Nat : m <= L => \E f : Upto(f, m)}
<1>0. L \in Nat /\ \A n \in 1..L : Cost(entries[n]) \in Nat
    BY CostNat, ElementOfSeq, LenProperties
<1> HIDE DEF L, Upto
<1>1. 0 \in T
  <2>1. Upto([n \in 0..0 |-> 0], 0)
      BY DEF Upto
  <2> QED
      BY <2>1
<1>2. ASSUME NEW m \in Nat, m \in T PROVE m + 1 \in T
  <2>1. SUFFICES ASSUME m + 1 <= L PROVE \E f : Upto(f, m + 1)
    <3>1. m + 1 \in Nat
        OBVIOUS
    <3> QED
        BY <2>1, <3>1
  <2>2. PICK f : Upto(f, m)
      BY <1>0, <1>2, <2>1
  <2> DEFINE g == [n \in 0..m + 1 |-> IF n <= m THEN f[n] ELSE f[m] + Cost(entries[m + 1])]
  <2>3. Cost(entries[m + 1]) \in Nat /\ f[m] \in Nat
      BY <1>0, <2>1, <2>2 DEF Upto
  <2>4. g \in [0..m + 1 -> Nat] /\ g[0] = 0
      BY <2>2, <2>3 DEF Upto
  <2>5. ASSUME NEW n \in 1..m + 1 PROVE g[n] = g[n - 1] + Cost(entries[n])
    <3>1. CASE n = m + 1
        BY <3>1
    <3>2. CASE n \in 1..m
        BY <2>2, <3>2 DEF Upto
    <3> QED
        BY <2>5, <3>1, <3>2
  <2>6. Upto(g, m + 1)
      BY <2>4, <2>5 DEF Upto
  <2> QED
      BY <2>6
<1>3. L \in T
  <2> HIDE DEF T
  <2> QED
      BY <1>0, <1>1, <1>2, InductiveSet
<1>4. PICK f : Upto(f, L)
    BY <1>0, <1>3
<1>5. f = [n \in 0..L |-> IF n = 0 THEN 0 ELSE f[n - 1] + Cost(entries[n])]
    BY <1>0, <1>4 DEF Upto
<1> DEFINE g == CHOOSE h : h = [n \in 0..L |-> IF n = 0 THEN 0 ELSE h[n - 1] + Cost(entries[n])]
<1>6. g = [n \in 0..L |-> IF n = 0 THEN 0 ELSE g[n - 1] + Cost(entries[n])]
    BY <1>5
<1>7. Bytes(entries) = g[L]
    BY DEF Bytes, L
<1> HIDE DEF g
<1>8. g = f
  <2> DEFINE E == {n \in Nat : n <= L => g[n] = f[n]}
  <2>1. 0 \in E
      BY <1>0, <1>4, <1>6 DEF Upto
  <2>2. ASSUME NEW n \in Nat, n \in E PROVE n + 1 \in E
      BY <1>0, <1>4, <1>6, <2>2 DEF Upto
  <2>3. Nat \subseteq E
      BY <2>1, <2>2, InductiveSet
  <2>4. \A n \in 0..L : g[n] = f[n]
      BY <1>0, <2>3
  <2> QED
      BY <1>4, <1>6, <2>4 DEF Upto
<1> QED
    BY <1>4, <1>7, <1>8 DEF Sums, Upto, L

-----------------------------------------------------------------------------
(* What the operations of the cache do to its entries. *)

LEMMA RemoveAtIs ==
    ASSUME NEW entries \in Seq(Entries), NEW i \in 1..Len(entries)
    PROVE  /\ RemoveAt(entries, i) \in Seq(Entries)
           /\ Len(RemoveAt(entries, i)) = Len(entries) - 1
           /\ \A j \in 1..Len(entries) - 1 :
                RemoveAt(entries, i)[j] = IF j < i THEN entries[j] ELSE entries[j + 1]
<1> DEFINE L == Len(entries)
           a == SubSeq(entries, 1, i - 1)
           b == SubSeq(entries, i + 1, L)
<1>1. L \in Nat /\ i \in Nat /\ 1 <= i /\ i <= L
      /\ \A j \in 1..L : entries[j] \in Entries
    BY ElementOfSeq, LenProperties
<1>2. /\ a \in Seq(Entries) /\ Len(a) = i - 1
      /\ \A j \in 1..i - 1 : a[j] = entries[j]
    BY <1>1, SubSeqProperties
<1>3. /\ b \in Seq(Entries) /\ Len(b) = L - i
      /\ \A j \in 1..L - i : b[j] = entries[j + i]
    BY <1>1, SubSeqProperties
<1> HIDE DEF L, a, b
<1>4. /\ a \o b \in Seq(Entries)
      /\ Len(a \o b) = L - 1
      /\ \A j \in 1..L - 1 : (a \o b)[j] = IF j <= i - 1 THEN a[j] ELSE b[j - (i - 1)]
  <2>1. /\ a \o b \in Seq(Entries)
        /\ Len(a \o b) = Len(a) + Len(b)
        /\ \A j \in 1..Len(a) + Len(b) :
             (a \o b)[j] = IF j <= Len(a) THEN a[j] ELSE b[j - Len(a)]
      BY <1>2, <1>3, ConcatProperties
  <2>2. Len(a) + Len(b) = L - 1
      BY <1>1, <1>2, <1>3
  <2> QED
      BY <1>2, <2>1, <2>2
<1>5. ASSUME NEW j \in 1..L - 1
      PROVE  (a \o b)[j] = IF j < i THEN entries[j] ELSE entries[j + 1]
  <2>1. CASE j < i
      BY <1>1, <1>2, <1>4, <2>1
  <2>2. CASE ~(j < i)
    <3>1. j - (i - 1) \in 1..L - i /\ (j - (i - 1)) + i = j + 1
        BY <1>1, <2>2
    <3> QED
        BY <1>1, <1>3, <1>4, <2>2, <3>1
  <2> QED
      BY <2>1, <2>2
<1> QED
    BY <1>4, <1>5 DEF RemoveAt, L, a, b

\* Without(entries, k) has no entry but those of entries, in their order, and
\* none with the key k.
LEMMA WithoutIs ==
    ASSUME NEW entries \in Seq(Entries), NEW k
    PROVE  /\ Without(entries, k) \in Seq(Entries)
           /\ \A i \in 1..Len(Without(entries, k)) : \E j \in 1..Len(entries) :
                Without(entries, k)[i] = entries[j]
           /\ UniqueKeys(entries) =>
                /\ UniqueKeys(Without(entries, k))
                /\ \A i \in 1..Len(Without(entries, k)) : Without(entries, k)[i].key # k
<1> DEFINE L == Len(entries)
           w == Without(entries, k)
<1>1. L \in Nat /\ DOMAIN entries = 1..L
    BY LenProperties
<1>2. CASE ~Found(entries, k)
    BY <1>1, <1>2 DEF Without, Found
<1>3. CASE Found(entries, k)
  <2> DEFINE i == Lookup(entries, k)
  <2>1. i \in 1..L /\ entries[i].key = k
      BY <1>1, <1>3 DEF Found, Lookup
  <2>2. w = RemoveAt(entries, i)
      BY <1>3 DEF Without
  <2> HIDE DEF i
  <2>3. /\ w \in Seq(Entries) /\ Len(w) = L - 1
        /\ \A j \in 1..L - 1 : w[j] = IF j < i THEN entries[j] ELSE entries[j + 1]
      BY <2>1, <2>2, RemoveAtIs
  <2> HIDE DEF w
  <2>4. ASSUME NEW j \in 1..Len(w) PROVE \E n \in 1..L : n # i /\ w[j] = entries[n]
    <3>1. CASE j < i
        BY <1>1, <2>1, <2>3, <3>1
    <3>2. CASE ~(j < i)
      <4>1. j + 1 \in 1..L /\ j + 1 # i
          BY <1>1, <2>1, <2>3, <3>2
      <4> QED
          BY <2>3, <3>2, <4>1
    <3> QED
        BY <3>1, <3>2
  <2>5. UniqueKeys(entries) => UniqueKeys(w)
    <3>1. SUFFICES ASSUME UniqueKeys(entries), NEW m \in 1..Len(w), NEW n \in 1..Len(w),
                          w[m].key = w[n].key
                   PROVE  m = n
        BY DEF UniqueKeys
    <3> DEFINE at(j) == IF j < i THEN j ELSE j + 1
    <3>2. \A j \in 1..Len(w) : at(j) \in 1..L /\ w[j] = entries[at(j)]
        BY <1>1, <2>1, <2>3
    <3>3. at(m) = at(n)
        BY <3>1, <3>2 DEF UniqueKeys
    <3> QED
        BY <1>1, <2>1, <2>3, <3>3
  <2>6. UniqueKeys(entries) => \A j \in 1..Len(w) : w[j].key # k
      BY <2>1, <2>4 DEF UniqueKeys
  <2> QED
      BY <2>3, <2>4, <2>5, <2>6 DEF w
<1> QED
    BY <1>2, <1>3

\* A used entry moves to the end: the cache has as many entries, the same ones, and
\* as many bytes.
LEMMA TouchedIs ==
    ASSUME cache \in Seq(Entries), NEW k, Found(cache, k)
    PROVE  /\ Lookup(cache, k) \in 1..Len(cache) /\ cache[Lookup(cache, k)].key = k
           /\ Touched(k) \in Seq(Entries)
           /\ Len(Touched(k)) = Len(cache)
           /\ \A i \in 1..Len(Touched(k)) : \E j \in 1..Len(cache) : Touched(k)[i] = cache[j]
           /\ UniqueKeys(cache) => UniqueKeys(Touched(k))
           /\ Bytes(Touched(k)) = Bytes(cache)
<1> DEFINE L == Len(cache)
           i == Lookup(cache, k)
           w == Without(cache, k)
           t == Touched(k)
<1>1. L \in Nat /\ DOMAIN cache = 1..L /\ \A j \in 1..L : cache[j] \in Entries
    BY LenProperties, ElementOfSeq
<1>2. i \in 1..L /\ cache[i].key = k
    BY <1>1 DEF Found, Lookup
<1>11. i \in Nat /\ 1 <= i /\ i <= L /\ L - 1 \in Nat /\ (L - 1) + 1 = L
    BY <1>1, <1>2
<1>3. w = RemoveAt(cache, i)
    BY DEF Without
<1>4. t = Append(w, cache[i])
    BY DEF Touched
<1> HIDE DEF i, t
<1>5. /\ w \in Seq(Entries) /\ Len(w) = L - 1
      /\ \A j \in 1..L - 1 : w[j] = IF j < i THEN cache[j] ELSE cache[j + 1]
    BY <1>2, <1>3, RemoveAtIs
<1>6. UniqueKeys(cache) => UniqueKeys(w) /\ \A j \in 1..Len(w) : w[j].key # k
    BY WithoutIs
<1> HIDE DEF w, L
<1>7. /\ t \in Seq(Entries) /\ Len(t) = L
      /\ \A j \in 1..L - 1 : t[j] = w[j]
      /\ t[L] = cache[i]
  <2>1. cache[i] \in Entries
      BY <1>1, <1>2
  <2>2. /\ t \in Seq(Entries) /\ Len(t) = Len(w) + 1
        /\ \A j \in 1..Len(w) : t[j] = w[j]
        /\ t[Len(w) + 1] = cache[i]
      BY <1>4, <1>5, <2>1, AppendProperties
  <2> QED
      BY <1>11, <1>5, <2>2
<1>8. ASSUME NEW j \in 1..L PROVE \E n \in 1..L : t[j] = cache[n]
  <2>1. CASE j = L
      BY <1>2, <1>7, <2>1
  <2>2. CASE j \in 1..L - 1 /\ j < i
      BY <1>5, <1>7, <2>2
  <2>3. CASE j \in 1..L - 1 /\ ~(j < i)
    <3>1. j + 1 \in 1..L
        BY <1>1, <2>3
    <3> QED
        BY <1>5, <1>7, <2>3, <3>1
  <2>4. j = L \/ j \in 1..L - 1
      BY <1>1
  <2> QED
      BY <2>1, <2>2, <2>3, <2>4
<1>9. ASSUME UniqueKeys(cache) PROVE UniqueKeys(t)
  <2>1. SUFFICES ASSUME NEW m \in 1..L, NEW n \in 1..L, t[m].key = t[n].key PROVE m = n
      BY <1>7 DEF UniqueKeys
  <2>2. CASE m = L /\ n = L
      BY <2>2
  <2>3. CASE m \in 1..L - 1 /\ n \in 1..L - 1
      BY <1>1, <1>5, <1>6, <1>7, <1>9, <2>1, <2>3 DEF UniqueKeys
  <2>4. CASE m = L /\ n \in 1..L - 1
      BY <1>1, <1>2, <1>5, <1>6, <1>7, <1>9, <2>1, <2>4
  <2>5. CASE n = L /\ m \in 1..L - 1
      BY <1>1, <1>2, <1>5, <1>6, <1>7, <1>9, <2>1, <2>5
  <2>6. (m = L \/ m \in 1..L - 1) /\ (n = L \/ n \in 1..L - 1)
      BY <1>1
  <2> QED
      BY <2>2, <2>3, <2>4, <2>5, <2>6
<1>10. Bytes(t) = Bytes(cache)
  <2>1. PICK f : Sums(f, cache) /\ Bytes(cache) = f[L]
      BY BytesIsSum DEF L
  <2>2. PICK g : Sums(g, t) /\ Bytes(t) = g[L]
      BY <1>7, BytesIsSum
  <2>3. \A j \in 1..L : f[j] = f[j - 1] + Cost(cache[j]) /\ g[j] = g[j - 1] + Cost(t[j])
      BY <1>7, <2>1, <2>2 DEF Sums, L
  <2>4. /\ \A j \in 0..L : f[j] \in Nat /\ g[j] \in Nat
        /\ f[0] = 0 /\ g[0] = 0
      BY <1>1, <1>7, <2>1, <2>2 DEF Sums, L
  <2>5. Cost(cache[i]) \in Nat
      BY <1>1, <1>2, CostNat
  <2> DEFINE Same == {n \in Nat : n <= L - 1 =>
                        g[n] = IF n < i THEN f[n] ELSE f[n + 1] - Cost(cache[i])}
  <2>6. 0 \in Same
      BY <1>2, <2>4
  <2>7. ASSUME NEW n \in Nat, n \in Same PROVE n + 1 \in Same
    <3>1. SUFFICES ASSUME n + 1 <= L - 1
                   PROVE  g[n + 1] = IF n + 1 < i THEN f[n + 1]
                                     ELSE f[n + 2] - Cost(cache[i])
      <4>1. (n + 1) + 1 = n + 2 /\ n + 1 \in Nat
          OBVIOUS
      <4> QED
          BY <3>1, <4>1
    <3>2. g[n] = IF n < i THEN f[n] ELSE f[n + 1] - Cost(cache[i])
        BY <1>1, <2>7, <3>1
    <3>3. g[n + 1] = g[n] + Cost(t[n + 1]) /\ f[n + 1] = f[n] + Cost(cache[n + 1])
        BY <1>1, <2>3, <3>1
    <3>4. f[n + 2] = f[n + 1] + Cost(cache[n + 2])
        BY <1>1, <2>3, <3>1
    <3>5. t[n + 1] = IF n + 1 < i THEN cache[n + 1] ELSE cache[n + 2]
        BY <1>1, <1>5, <1>7, <3>1
    <3>6. /\ f[n] \in Nat /\ f[n + 1] \in Nat /\ f[n + 2] \in Nat
          /\ Cost(cache[n + 1]) \in Nat /\ Cost(cache[n + 2]) \in Nat
        BY <1>1, <2>4, <3>1, CostNat
    <3>7. CASE n + 1 < i
        BY <1>2, <3>2, <3>3, <3>5, <3>7
    <3>8. CASE n + 1 = i
      <4>1. g[n] = f[n] /\ g[n + 1] = g[n] + Cost(cache[n + 2])
          BY <3>2, <3>3, <3>5, <3>8
      <4>2. f[n + 2] = f[n] + Cost(cache[i]) + Cost(cache[n + 2])
          BY <3>3, <3>4, <3>8
      <4>3. g[n + 1] = f[n + 2] - Cost(cache[i])
          BY <2>5, <3>6, <4>1, <4>2
      <4> QED
          BY <3>8, <4>3
    <3>9. CASE i < n + 1
        BY <1>2, <2>5, <3>2, <3>3, <3>4, <3>5, <3>6, <3>9
    <3> QED
        BY <1>2, <3>7, <3>8, <3>9
  <2>8. L - 1 \in Same
    <3>1. L - 1 \in Nat
        BY <1>1, <1>2
    <3> HIDE DEF Same
    <3> QED
        BY <2>6, <2>7, <3>1, InductiveSet
  <2>9. g[L - 1] = f[L] - Cost(cache[i])
    <3>1. g[L - 1] = IF L - 1 < i THEN f[L - 1] ELSE f[L] - Cost(cache[i])
      <4>1. (L - 1) + 1 = L
          BY <1>1
      <4> QED
          BY <1>1, <2>8, <4>1
    <3>2. L - 1 < i => i = L
        BY <1>1, <1>2
    <3>3. f[L] = f[L - 1] + Cost(cache[L])
        BY <1>1, <1>2, <2>3
    <3> QED
        BY <1>1, <1>2, <2>4, <2>5, <3>1, <3>2, <3>3
  <2>10. g[L] = g[L - 1] + Cost(cache[i])
      BY <1>1, <1>2, <1>7, <2>3
  <2> QED
      BY <1>1, <1>2, <2>1, <2>2, <2>4, <2>5, <2>9, <2>10
<1> QED
    BY <1>2, <1>7, <1>8, <1>9, <1>10 DEF i, t, L

\* As many of the oldest entries go as it takes: what stays is the rest, within both
\* budgets.
LEMMA TrimIs ==
    ASSUME NEW entries \in Seq(Entries)
    PROVE  \E n \in 0..Len(entries) :
             /\ Trim(entries) \in Seq(Entries)
             /\ Len(Trim(entries)) = Len(entries) - n
             /\ \A i \in 1..Len(Trim(entries)) : Trim(entries)[i] = entries[i + n]
             /\ Len(Trim(entries)) <= Cap
             /\ Bytes(Trim(entries)) <= MaxBytes
<1> DEFINE L == Len(entries)
           fits(n) == /\ L - n <= Cap
                      /\ Bytes(SubSeq(entries, n + 1, L)) <= MaxBytes
           Fit == {n \in 0..L : fits(n)}
           gone == CHOOSE n \in 0..L : fits(n) /\ \A m \in 0..n - 1 : ~fits(m)
<1>1. L \in Nat /\ \A j \in 1..L : entries[j] \in Entries
    BY ElementOfSeq, LenProperties
<1>2. L \in Fit
  <2>1. SubSeq(entries, L + 1, L) = << >>
      BY <1>1, SubSeqEmpty
  <2>2. Bytes(<< >>) = 0
    <3>1. << >> \in Seq(Entries) /\ Len(<< >>) = 0
        BY EmptySeq
    <3> QED
        BY <3>1, BytesIsSum DEF Sums
  <2>3. L - L <= Cap /\ 0 <= MaxBytes
      BY <1>1, ServingAssumption
  <2>4. fits(L)
      BY <2>1, <2>2, <2>3
  <2> HIDE DEF fits
  <2> QED
      BY <1>1, <2>4
<1> HIDE DEF fits
<1>3. PICK n \in Fit : \A m \in Fit : n <= m
  <2>1. Fit \subseteq Nat /\ Fit # {}
      BY <1>1, <1>2
  <2> HIDE DEF Fit
  <2> QED
      BY <2>1, LeastNat
<1>4. fits(n) /\ \A m \in 0..n - 1 : ~fits(m)
    BY <1>1, <1>3
<1>5. gone \in 0..L /\ fits(gone)
    BY <1>3, <1>4
<1>6. Trim(entries) = SubSeq(entries, gone + 1, L)
    BY DEF Trim, fits
<1> HIDE DEF gone
<1>7. /\ SubSeq(entries, gone + 1, L) \in Seq(Entries)
      /\ Len(SubSeq(entries, gone + 1, L)) = L - gone
      /\ \A j \in 1..L - gone : SubSeq(entries, gone + 1, L)[j] = entries[j + gone]
    BY <1>1, <1>5, SubSeqProperties
<1> QED
    BY <1>5, <1>6, <1>7 DEF fits

\* A new result takes the place of one with its key and pushes out the oldest ones.
LEMMA PutIs ==
    ASSUME cache \in Seq(Entries), NEW k \in Keys, NEW value \in Values
    PROVE  /\ Put(k, value) \in Seq(Entries)
           /\ \A i \in 1..Len(Put(k, value)) :
                \/ Put(k, value)[i] = [key |-> k, value |-> value]
                \/ \E j \in 1..Len(cache) : Put(k, value)[i] = cache[j]
           /\ UniqueKeys(cache) => UniqueKeys(Put(k, value))
           /\ Put(k, value) # cache =>
                Len(Put(k, value)) <= Cap /\ Bytes(Put(k, value)) <= MaxBytes
<1> DEFINE entry == [key |-> k, value |-> value]
           w == Without(cache, k)
           a == Append(w, entry)
<1>0. entry \in Entries /\ entry.key = k
    BY DEF Entries
<1>1. CASE Put(k, value) = cache
    BY <1>1
<1>2. CASE Put(k, value) = Trim(a)
  <2>1. /\ w \in Seq(Entries)
        /\ \A i \in 1..Len(w) : \E j \in 1..Len(cache) : w[i] = cache[j]
        /\ UniqueKeys(cache) =>
             UniqueKeys(w) /\ \A i \in 1..Len(w) : w[i].key # k
      BY WithoutIs
  <2> HIDE DEF w, entry
  <2>2. /\ a \in Seq(Entries) /\ Len(a) = Len(w) + 1
        /\ \A i \in 1..Len(w) : a[i] = w[i]
        /\ a[Len(w) + 1] = entry
      BY <1>0, <2>1, AppendProperties
  <2>3. Len(w) \in Nat
      BY <2>1, LenProperties
  <2> HIDE DEF a
  <2>4. PICK n \in 0..Len(a) :
             /\ Trim(a) \in Seq(Entries)
             /\ Len(Trim(a)) = Len(a) - n
             /\ \A i \in 1..Len(Trim(a)) : Trim(a)[i] = a[i + n]
             /\ Len(Trim(a)) <= Cap
             /\ Bytes(Trim(a)) <= MaxBytes
      BY <2>2, TrimIs
  <2>5. ASSUME NEW i \in 1..Len(Trim(a))
        PROVE  /\ i + n \in 1..Len(a)
               /\ Trim(a)[i] = entry \/ \E j \in 1..Len(cache) : Trim(a)[i] = cache[j]
    <3>1. i + n \in 1..Len(w) + 1 /\ Trim(a)[i] = a[i + n]
        BY <2>2, <2>3, <2>4
    <3>2. CASE i + n = Len(w) + 1
        BY <2>2, <3>1, <3>2
    <3>3. CASE i + n \in 1..Len(w)
        BY <2>1, <2>2, <3>1, <3>3
    <3>4. i + n = Len(w) + 1 \/ i + n \in 1..Len(w)
        BY <2>3, <3>1
    <3> QED
        BY <2>2, <3>1, <3>2, <3>3, <3>4
  <2>6. ASSUME UniqueKeys(cache) PROVE UniqueKeys(Trim(a))
    <3>1. UniqueKeys(a)
      <4>1. SUFFICES ASSUME NEW i \in 1..Len(a), NEW j \in 1..Len(a), a[i].key = a[j].key
                     PROVE  i = j
          BY DEF UniqueKeys
      <4>2. CASE i \in 1..Len(w) /\ j \in 1..Len(w)
          BY <2>1, <2>2, <2>6, <4>1, <4>2 DEF UniqueKeys
      <4>3. CASE i = Len(w) + 1 /\ j \in 1..Len(w)
          BY <1>0, <2>1, <2>2, <2>6, <4>1, <4>3
      <4>4. CASE j = Len(w) + 1 /\ i \in 1..Len(w)
          BY <1>0, <2>1, <2>2, <2>6, <4>1, <4>4
      <4> QED
          BY <2>2, <2>3, <4>2, <4>3, <4>4
    <3>2. SUFFICES ASSUME NEW i \in 1..Len(Trim(a)), NEW j \in 1..Len(Trim(a)),
                          Trim(a)[i].key = Trim(a)[j].key
                   PROVE  i = j
        BY DEF UniqueKeys
    <3>3. i + n = j + n
      <4>1. i + n \in 1..Len(a) /\ j + n \in 1..Len(a)
          BY <2>5
      <4>2. a[i + n].key = a[j + n].key
          BY <2>4, <3>2
      <4> QED
          BY <3>1, <4>1, <4>2 DEF UniqueKeys
    <3>4. i \in Int /\ j \in Int /\ n \in Int
        BY <2>2, <2>3, <2>4
    <3> QED
        BY <3>3, <3>4
  <2> QED
      BY <1>2, <2>4, <2>5, <2>6 DEF entry
<1> QED
    BY <1>1, <1>2 DEF Put

-----------------------------------------------------------------------------
(* The invariant holds at the start. *)

LEMMA NoBytes == << >> \in Seq(Entries) /\ Len(<< >>) = 0 /\ Bytes(<< >>) = 0
<1>1. << >> \in Seq(Entries) /\ Len(<< >>) = 0
    BY EmptySeq
<1> QED
    BY <1>1, BytesIsSum DEF Sums

LEMMA Bounds ==
    /\ MaxQueries \in Nat /\ MaxWrites \in Nat /\ MaxEmbeds \in Nat
    /\ MaxRespawns \in Nat /\ MaxErrors \in Nat
BY ServingAssumption

LEMMA Numbers ==
    ASSUME Inv
    PROVE  /\ graph \in 0..MaxWrites /\ graph \in Nat
           /\ embed \in 0..MaxEmbeds /\ embed \in Nat
           /\ sidecar.id \in 1..MaxRespawns + 1 /\ sidecar.id \in Nat
           /\ generation \in 1..MaxRespawns + 1 /\ generation \in Nat
           /\ generation \in 0..MaxRespawns + 1
           /\ errors \in 0..MaxErrors
           /\ cache \in Seq(Entries) /\ key \in Keys \cup {None}
<1>1. TypeOK /\ cache \in Seq(Entries) /\ key \in Keys \cup {None}
    BY DEF Inv, Typed
<1>2. /\ graph \in 0..MaxWrites /\ embed \in 0..MaxEmbeds
      /\ generation \in 1..MaxRespawns + 1 /\ errors \in 0..MaxErrors
      /\ sidecar \in [id : 1..MaxRespawns + 1, alive : BOOLEAN]
    BY <1>1 DEF TypeOK
<1>3. sidecar.id \in 1..MaxRespawns + 1
    BY <1>2
<1> QED
    BY <1>1, <1>2, <1>3, Bounds

LEMMA InitInv == Init => Inv
<1> SUFFICES ASSUME Init PROVE Inv
    OBVIOUS
<1>1. Typed
  <2>1. << >> \in Seq(Requests) /\ DOMAIN << >> = {}
      BY EmptySeq
  <2>2. 0 \in 0..MaxQueries /\ 0 \in 0..MaxWrites /\ 0 \in 0..MaxEmbeds
        /\ 0 \in 0..MaxRespawns /\ 0 \in 0..MaxErrors /\ 1 \in 1..MaxRespawns + 1
      BY Bounds
  <2>3. TypeOK
      BY <2>1, <2>2 DEF Init, TypeOK
  <2> QED
      BY <2>1, <2>3, NoBytes DEF Init, Typed
<1>2. OneQuery /\ Opened /\ Calls /\ Sidecars /\ Reads /\ KeyRead
    BY NoBytes DEF Init, OneQuery, Opened, Calls, Sidecars, Reads, KeyRead
<1>3. CallsCounted
  <2>1. {c \in Clients : question[c] # None} = {} /\ Uncalled = {}
      BY DEF Init, Uncalled
  <2> QED
      BY <2>1, FS_EmptySet DEF Init, CallsCounted
<1>4. CacheTrue /\ Within
    BY NoBytes, ServingAssumption DEF Init, CacheTrue, Within, UniqueKeys
<1> QED
    BY <1>1, <1>2, <1>3, <1>4 DEF Inv

-----------------------------------------------------------------------------
(* What the steps have in common. *)

\* The query that holds the lock is a client's, and open.
LEMMA Holding ==
    ASSUME Inv, step # "free"
    PROVE  /\ holder \in Clients /\ question[holder] \in Queries
           /\ since[holder] \in [graph : 0..MaxWrites, embed : 0..MaxEmbeds]
           /\ since[holder].graph <= graph /\ since[holder].embed <= embed
BY ServingAssumption DEF Inv, Typed, TypeOK, OneQuery, Opened

\* The open questions that have not called the hook do not get more.
LEMMA FewerUncalled ==
    ASSUME Inv, UNCHANGED <<sent, calls>>,
           \A c \in Clients : question'[c] # None => question[c] # None,
           Uncalled' \subseteq Uncalled
    PROVE  CallsCounted'
<1> DEFINE open == {c \in Clients : question[c] # None}
<1>1. open' \subseteq open /\ Uncalled \subseteq open
    BY DEF Uncalled
<1>2. IsFiniteSet(open) /\ IsFiniteSet(open') /\ IsFiniteSet(Uncalled)
    BY <1>1, FS_Subset DEF Inv, CallsCounted
<1>3. /\ Cardinality(Uncalled) \in Nat /\ Cardinality(Uncalled') \in Nat
      /\ Cardinality(Uncalled') <= Cardinality(Uncalled)
    BY <1>2, FS_Subset, FS_CardinalityType
<1> QED
    BY <1>2, <1>3 DEF Inv, Typed, TypeOK, CallsCounted

\* What is true of an entry stays true of it.
LEMMA EntriesStay ==
    ASSUME Inv, Typed', graph <= graph', embed <= embed', sidecar.id <= sidecar'.id,
           step' = "look" /\ key'.q \in Asks =>
             (step = "look" /\ key' = key) \/ key'.embed = embed
    PROVE  \A e \in Entries : Entry(e) => Entry(e)'
<1> SUFFICES ASSUME NEW e \in Entries, Entry(e) PROVE Entry(e)'
    OBVIOUS
<1>1. /\ graph \in Nat /\ graph' \in Nat /\ embed \in Nat /\ embed' \in Nat
      /\ sidecar.id \in Nat /\ sidecar'.id \in Nat
  <2>1. /\ graph' \in 0..MaxWrites /\ embed' \in 0..MaxEmbeds
        /\ sidecar' \in [id : 1..MaxRespawns + 1, alive : BOOLEAN]
      BY DEF Typed, TypeOK
  <2>2. sidecar'.id \in 1..MaxRespawns + 1
      BY <2>1
  <2> QED
      BY <2>1, <2>2, Numbers, Bounds
<1>2. /\ e.value.lo \in Nat /\ e.value.hi \in Nat /\ e.key.graph \in Nat
      /\ e.value.embed \in 0..MaxEmbeds => e.value.embed \in Nat
    BY ServingAssumption DEF Entries, Keys, Values
<1>3. SeedsOf(e.value.seeds, e.key.q, e.key.generation)'
  <2>1. ASSUME NEW n \in 1..MaxRespawns + 1, n <= sidecar.id PROVE n <= sidecar'.id
      BY <1>1, <2>1, Bounds
  <2>2. SeedsOf(e.value.seeds, e.key.q, e.key.generation)
      BY DEF Entry
  <2>3. CASE e.key.q \notin Asks \/ e.value.seeds = FTS
      BY <2>2, <2>3 DEF SeedsOf, FTS
  <2>4. CASE e.key.q \in Asks /\ e.value.seeds # FTS
    <3>1. e.value.seeds.by \in 1..MaxRespawns + 1 /\ e.value.seeds.by <= sidecar'.id
        BY <2>1, <2>2, <2>4 DEF SeedsOf
    <3> QED
        BY <2>2, <2>4, <3>1 DEF SeedsOf, FTS
  <2> QED
      BY <2>3, <2>4
<1>4. e.value.hi <= graph'
    BY <1>1, <1>2 DEF Entry
<1>5. e.key.q \in Asks =>
        /\ e.value.embed <= embed'
        /\ step' = "look" /\ key'.q \in Asks => e.value.embed <= key'.embed
  <2>1. SUFFICES ASSUME e.key.q \in Asks PROVE
          /\ e.value.embed <= embed'
          /\ step' = "look" /\ key'.q \in Asks => e.value.embed <= key'.embed
      OBVIOUS
  <2>2. e.value.embed \in Nat /\ e.value.embed <= embed
        /\ (step = "look" /\ key.q \in Asks => e.value.embed <= key.embed)
      BY <1>2, <2>1 DEF Entry
  <2> QED
      BY <1>1, <2>2
<1> QED
    BY <1>3, <1>4, <1>5 DEF Entry

\* So a step that leaves the cache alone leaves it true, and within its budgets.
LEMMA CacheStays ==
    ASSUME Inv, Typed', graph <= graph', embed <= embed', sidecar.id <= sidecar'.id,
           step' = "look" /\ key'.q \in Asks =>
             (step = "look" /\ key' = key) \/ key'.embed = embed,
           UNCHANGED cache
    PROVE  CacheTrue' /\ Within'
<1>1. \A i \in 1..Len(cache) : cache[i] \in Entries /\ Entry(cache[i])
    BY ElementOfSeq DEF Inv, Typed, CacheTrue
<1>2. \A e \in Entries : Entry(e) => Entry(e)'
    BY EntriesStay
<1>3. CacheTrue'
    BY <1>1, <1>2 DEF CacheTrue, Entry, SeedsOf
<1> QED
    BY <1>3 DEF Inv, Within

-----------------------------------------------------------------------------
(* Clients and writers. *)

LEMMA StepSend ==
    ASSUME Inv, NEW c \in Clients, NEW q \in Queries, Send(c, q)
    PROVE  Inv'
<1> USE DEF Send, query, worker, supervisor
<1>0. q # None /\ question[c] = None /\ holder # c /\ question'[c] = q
      /\ \A d \in Clients \ {c} : question'[d] = question[d] /\ since'[d] = since[d]
      /\ since'[c] = [graph |-> graph, embed |-> embed]
    BY ServingAssumption DEF Inv, Typed, TypeOK, OneQuery
<1>1. Typed'
    BY Bounds DEF Inv, Typed, TypeOK
<1>2. OneQuery' /\ Opened' /\ Calls' /\ Sidecars'
    BY <1>0, Bounds DEF Inv, Typed, TypeOK, OneQuery, Opened, Calls, Numbered, Sidecars
<1>3. Reads' /\ KeyRead'
    BY <1>0, Holding DEF Inv, Reads, KeyRead, SeedsOf
<1>4. CallsCounted'
  <2> DEFINE open == {d \in Clients : question[d] # None}
  <2>1. open' = open \cup {c} /\ c \notin open
      BY <1>0
  <2>2. Uncalled' = Uncalled \cup {c} /\ c \notin Uncalled /\ Uncalled \subseteq open
      BY <1>0 DEF Uncalled
  <2>3. IsFiniteSet(open') /\ IsFiniteSet(Uncalled)
      BY <2>1, <2>2, FS_AddElement, FS_Subset DEF Inv, CallsCounted
  <2>4. Cardinality(Uncalled') = Cardinality(Uncalled) + 1 /\ Cardinality(Uncalled) \in Nat
      BY <2>2, <2>3, FS_AddElement, FS_CardinalityType
  <2> QED
      BY <2>3, <2>4 DEF Inv, Typed, TypeOK, CallsCounted
<1>5. CacheTrue' /\ Within'
    BY <1>1, CacheStays, Numbers
<1> QED
    BY <1>1, <1>2, <1>3, <1>4, <1>5 DEF Inv

LEMMA StepWrite ==
    ASSUME Inv, WriteGraph \/ WriteEmbed
    PROVE  Inv'
<1> USE DEF WriteGraph, WriteEmbed, client, query, worker, supervisor
<1>0. graph \in Nat /\ graph' \in Nat /\ graph <= graph'
      /\ embed \in Nat /\ embed' \in Nat /\ embed <= embed'
    BY Numbers
<1>1. Typed'
  <2>1. graph' \in 0..MaxWrites /\ embed' \in 0..MaxEmbeds
      BY Numbers, Bounds
  <2>2. UNCHANGED <<client, query, cache, worker, supervisor, errors>>
      OBVIOUS
  <2> QED
      BY <2>1, <2>2 DEF Inv, Typed, TypeOK
<1>2. OneQuery' /\ Opened' /\ Calls' /\ Sidecars'
    BY <1>0, Bounds DEF Inv, OneQuery, Opened, Calls, Numbered, Sidecars
<1>3. Reads' /\ KeyRead'
  <2>1. UNCHANGED <<step, key, holder, part, question, since, sidecar, generation>>
      OBVIOUS
  <2>2. Reads'
    <3>1. step = "finish" => part.lo \in Nat /\ part.lo <= graph'
        BY <1>0, Bounds DEF Inv, Reads
    <3> QED
        BY <2>1, <3>1 DEF Inv, Reads, SeedsOf
  <2>3. KeyRead'
    <3>1. step # "free" /\ key # None =>
            /\ key.graph \in Nat /\ key.graph <= graph'
            /\ key.q \in Asks => key.embed <= embed'
        BY <1>0, Numbers, Bounds DEF Inv, KeyRead, Keys
    <3> QED
        BY <2>1, <3>1 DEF Inv, KeyRead
  <2> QED
      BY <2>2, <2>3
<1>4. CallsCounted'
    BY DEF Inv, CallsCounted, Uncalled
<1>5. CacheTrue' /\ Within'
    BY <1>0, <1>1, CacheStays, Numbers
<1> QED
    BY <1>1, <1>2, <1>3, <1>4, <1>5 DEF Inv

-----------------------------------------------------------------------------
(* The Query arm. *)

LEMMA StepLockStore ==
    ASSUME Inv, NEW c \in Clients, LockStore(c)
    PROVE  Inv'
<1> USE DEF LockStore, client, worker, supervisor
<1>0. /\ step = "free" /\ step' = "look" /\ holder = None /\ holder' = c /\ c # None
      /\ question' = question /\ question[c] \in Queries
      /\ since' = since /\ since[c].graph <= graph /\ since[c].embed <= embed
      /\ key' = KeyOf(question[c])
    BY ServingAssumption DEF Inv, Typed, TypeOK, OneQuery, Opened
<1>1. key' \in Keys /\ key' # None
    BY <1>0, ValuesAssumption, Bounds DEF Inv, Typed, TypeOK, KeyOf, Keys
<1>2. Typed'
  <2>1. UNCHANGED <<graph, embed, client, part, cache, worker, supervisor, errors>>
      OBVIOUS
  <2> QED
      BY <1>0, <1>1, <2>1 DEF Inv, Typed, TypeOK
<1>3. OneQuery' /\ Reads'
    BY <1>0, <1>1, ServingAssumption DEF Inv, OneQuery, Reads
<1>7. Opened' /\ Calls' /\ Sidecars'
    BY <1>0 DEF Inv, Opened, Calls, Numbered, Sidecars
<1>4. KeyRead'
  <2>1. /\ graph \in Nat /\ embed \in 0..MaxEmbeds /\ embed \in Nat
        /\ generation \in 0..MaxRespawns + 1 /\ generation \in Nat
      BY Bounds DEF Inv, Typed, TypeOK
  <2>2. /\ key'.q = question[c] /\ key'.graph = graph
        /\ key'.embed = IF question[c] \in Asks THEN embed ELSE None
        /\ key'.generation = IF question[c] \in Asks THEN generation ELSE None
      BY <1>0 DEF KeyOf
  <2> QED
      BY <1>0, <2>1, <2>2 DEF KeyRead
<1>5. CallsCounted'
    BY <1>0, FewerUncalled DEF Uncalled
<1>6. CacheTrue' /\ Within'
    BY <1>0, <1>2, CacheStays, Numbers DEF KeyOf
<1> QED
    BY <1>2, <1>3, <1>4, <1>5, <1>6, <1>7 DEF Inv

\* What the cache has for the key of the question is current, and about it.
LEMMA Hit ==
    ASSUME Inv, step = "look", NEW k, NEW value,
           k = [KeyOf(question[holder]) EXCEPT !.embed = key.embed],
           Found(cache, k), value = cache[Lookup(cache, k)].value
    PROVE  /\ value \in Values
           /\ value.lo = graph /\ value.hi = graph
           /\ value.embed = key.embed
           /\ question[holder] \in Asks => value.embed \in since[holder].embed .. embed
           /\ question[holder] \notin Asks => value.embed = None
           /\ \/ value.seeds \in {FTS, None}
              \/ value.seeds.by = sidecar.id /\ value.seeds.q = question[holder]
<1> DEFINE e == cache[Lookup(cache, k)]
<1>1. e \in Entries /\ e.key = k /\ Entry(e)
    BY TouchedIs, ElementOfSeq DEF Inv, Typed, CacheTrue
<1> HIDE DEF e
<1>2. /\ k.q = question[holder] /\ k.graph = graph /\ k.embed = key.embed
      /\ k.generation = IF question[holder] \in Asks THEN generation ELSE None
    BY DEF KeyOf
<1>3. value = e.value /\ value \in Values
    BY <1>1 DEF e, Entries
<1>4. value.lo \in Nat /\ value.hi \in Nat /\ graph \in Nat
    BY <1>3, Numbers, Bounds DEF Values
<1>5. value.lo = graph /\ value.hi = graph
    BY <1>1, <1>2, <1>3, <1>4 DEF Entry
<1>6. key # None /\ key.q = question[holder]
    BY DEF Inv, OneQuery, KeyRead
<1>7. CASE question[holder] \in Asks
  <2>1. /\ key.embed \in 0..MaxEmbeds /\ value.embed \in 0..MaxEmbeds
        /\ key.embed <= value.embed /\ value.embed <= key.embed
        /\ since[holder].embed <= key.embed /\ key.embed <= embed
      BY <1>1, <1>2, <1>3, <1>6, <1>7 DEF Inv, KeyRead, Entry
  <2>2. since[holder].embed \in Nat /\ embed \in Nat
      BY Holding, Numbers
  <2>3. /\ value.embed = key.embed
        /\ value.embed \in since[holder].embed .. embed
      BY <2>1, <2>2, Bounds
  <2>4. value.seeds = FTS \/ /\ value.seeds.by \in 1..MaxRespawns + 1
                             /\ value.seeds.q = question[holder]
                             /\ generation <= value.seeds.by
                             /\ value.seeds.by <= sidecar.id
      BY <1>1, <1>2, <1>3, <1>7 DEF Entry, SeedsOf
  <2>5. generation \in Nat /\ sidecar.id \in Nat /\ sidecar.id <= generation
      BY Numbers DEF Inv, Sidecars
  <2>6. ASSUME value.seeds # FTS PROVE value.seeds.by = sidecar.id
      BY <2>4, <2>5, <2>6, Bounds
  <2>7. value.seeds \in {FTS, None} \/
          (value.seeds.by = sidecar.id /\ value.seeds.q = question[holder])
      BY <2>4, <2>6
  <2> QED
      BY <1>3, <1>5, <1>7, <2>3, <2>7
<1>8. CASE question[holder] \notin Asks
  <2>1. value.seeds = None /\ value.embed = None /\ key.embed = None
      BY <1>1, <1>2, <1>3, <1>6, <1>8 DEF Inv, KeyRead, Entry, SeedsOf
  <2> QED
      BY <1>3, <1>5, <1>8, <2>1
<1> QED
    BY <1>7, <1>8

\* The answer leaves: the query is over, and the client may ask again.
LEMMA Answering ==
    ASSUME Inv, step # "free", NEW value \in Values \cup {Failed}, Reply(value),
           UNCHANGED <<graph, embed, worker, supervisor>>,
           cache' \in Seq(Entries), errors' \in 0..MaxErrors, Within',
           \A i \in 1..Len(cache') : Entry(cache'[i])
    PROVE  Inv'
<1> USE DEF Reply, worker, supervisor
<1>0. /\ holder \in Clients /\ step' = "free" /\ holder' = None /\ key' = None /\ part' = None
      /\ question'[holder] = None /\ since'[holder] = None
      /\ \A c \in Clients \ {holder} : question'[c] = question[c] /\ since'[c] = since[c]
    BY Holding DEF Inv, Typed, TypeOK
<1>1. \A i \in 1..Len(cache') : cache'[i] \in Entries
    BY ElementOfSeq
<1>2. Typed'
  <2>1. \A i \in DOMAIN cache' : cache'[i].key \in Keys /\ cache'[i].value \in Values
      BY <1>1, LenProperties DEF Entries
  <2>2. reply' \in {None} \cup Replies
      BY <1>0 DEF Replies
  <2>3. /\ question' \in [Clients -> Queries \cup {None}]
        /\ since' \in [Clients -> [graph : 0..MaxWrites, embed : 0..MaxEmbeds] \cup {None}]
      BY DEF Inv, Typed, TypeOK
  <2>4. UNCHANGED <<graph, embed, worker, supervisor, sent>>
      OBVIOUS
  <2> QED
      BY <1>0, <2>1, <2>2, <2>3, <2>4 DEF Inv, Typed, TypeOK
<1>3. OneQuery' /\ Opened' /\ Calls' /\ Sidecars'
    BY <1>0 DEF Inv, OneQuery, Opened, Calls, Numbered, Sidecars
<1>4. Reads' /\ KeyRead'
    BY <1>0 DEF Reads, KeyRead
<1>5. CallsCounted'
  <2>1. Uncalled' \subseteq Uncalled
      BY <1>0 DEF Uncalled
  <2> QED
      BY <1>0, <2>1, FewerUncalled
<1>6. CacheTrue'
  <2>1. \A e \in Entries : Entry(e) => Entry(e)'
    <3>1. graph <= graph' /\ embed <= embed' /\ sidecar.id <= sidecar'.id
        BY Numbers
    <3> QED
        BY <1>0, <1>2, <3>1, EntriesStay
  <2> QED
      BY <1>1, <2>1 DEF CacheTrue, Entry, SeedsOf
<1> QED
    BY <1>2, <1>3, <1>4, <1>5, <1>6 DEF Inv

LEMMA StepLookUp ==
    ASSUME Inv, LookUp
    PROVE  Inv'
<1> DEFINE k == [KeyOf(question[holder]) EXCEPT !.embed = key.embed]
<1>0. step = "look" /\ UNCHANGED <<graph, embed, worker, supervisor>>
    BY DEF LookUp
<1>1. /\ holder \in Clients /\ question[holder] \in Queries
      /\ since[holder].graph <= graph /\ key \in Keys /\ key # None /\ part = None
      /\ key.q = question[holder]
    BY <1>0, Holding DEF Inv, Typed, OneQuery, KeyRead
<1>2. k \in Keys /\ k # None
  <2>1. k \in Keys
      BY <1>1, Numbers DEF KeyOf, Keys
  <2> HIDE DEF k
  <2> QED
      BY <2>1, ValuesAssumption
<1>3. /\ k.q = question[holder] /\ k.graph = graph /\ k.embed = key.embed
      /\ k.generation = IF question[holder] \in Asks THEN generation ELSE None
    BY DEF KeyOf
<1>4. \/ Found(cache, k) /\ cache' = Touched(k) /\ Reply(cache[Lookup(cache, k)].value)
         /\ UNCHANGED errors
      \/ key' \in {k, None} /\ step' = Dispatch
         /\ UNCHANGED <<client, holder, part, cache>> /\ errors' \in 0..MaxErrors
    BY Numbers, Bounds DEF LookUp
<1> HIDE DEF k
<1>5. CASE /\ Found(cache, k) /\ cache' = Touched(k)
           /\ Reply(cache[Lookup(cache, k)].value) /\ UNCHANGED errors
  <2>1. cache[Lookup(cache, k)].value \in Values
      BY <1>0, <1>5, Hit DEF k
  <2>2. /\ cache' \in Seq(Entries) /\ Len(cache') = Len(cache)
        /\ \A i \in 1..Len(cache') : \E j \in 1..Len(cache) : cache'[i] = cache[j]
        /\ UniqueKeys(cache') /\ Bytes(cache') = Bytes(cache)
    <3>1. cache \in Seq(Entries) /\ UniqueKeys(cache)
        BY DEF Inv, Typed, Within
    <3>2. /\ Touched(k) \in Seq(Entries) /\ Len(Touched(k)) = Len(cache)
          /\ \A i \in 1..Len(Touched(k)) : \E j \in 1..Len(cache) : Touched(k)[i] = cache[j]
          /\ UniqueKeys(Touched(k)) /\ Bytes(Touched(k)) = Bytes(cache)
        BY <1>5, <3>1, TouchedIs
    <3> QED
        BY <1>5, <3>2
  <2>3. Within' /\ \A i \in 1..Len(cache') : Entry(cache'[i])
      BY <2>2 DEF Inv, CacheTrue, Within
  <2> QED
      BY <1>0, <1>5, <2>1, <2>2, <2>3, Answering DEF Inv, Typed, TypeOK
<1>6. CASE /\ key' \in {k, None} /\ step' = Dispatch
           /\ UNCHANGED <<client, holder, part, cache>> /\ errors' \in 0..MaxErrors
  <2> USE DEF client, worker, supervisor
  <2>1. step' = IF question[holder] \in Asks THEN "submit" ELSE "read"
      BY <1>6 DEF Dispatch
  <2>2. Typed'
      BY <1>0, <1>2, <1>6, <2>1 DEF Inv, Typed, TypeOK
  <2>3. OneQuery' /\ Opened' /\ Calls' /\ Sidecars'
      BY <1>0, <1>1, <1>6, <2>1 DEF Inv, OneQuery, Opened, Calls, Numbered, Sidecars
  <2>4. Reads'
      BY <1>1, <1>6, <2>1 DEF Reads, SeedsOf
  <2>5. KeyRead'
    <3>1. /\ graph \in Nat /\ generation \in 0..MaxRespawns + 1 /\ generation \in Nat
        BY Numbers
    <3>2. /\ question[holder] \in Asks =>
               /\ key.embed \in 0..MaxEmbeds
               /\ since[holder].embed <= key.embed /\ key.embed <= embed
          /\ question[holder] \notin Asks => key.embed = None
        BY <1>0, <1>1 DEF Inv, KeyRead
    <3> QED
        BY <1>0, <1>1, <1>3, <1>6, <3>1, <3>2 DEF KeyRead
  <2>6. CallsCounted'
      BY <1>0, <1>6, <2>1, FewerUncalled DEF Uncalled
  <2>7. CacheTrue' /\ Within'
      BY <1>0, <1>6, <2>1, <2>2, CacheStays, Numbers
  <2> QED
      BY <2>2, <2>3, <2>4, <2>5, <2>6, <2>7 DEF Inv
<1> QED
    BY <1>4, <1>5, <1>6

LEMMA StepSubmit ==
    ASSUME Inv, Submit
    PROVE  Inv'
<1> USE DEF Submit, client, supervisor
<1>0. /\ step = "submit" /\ holder \in Clients /\ holder # None
      /\ question[holder] \in Queries /\ question[holder] # None /\ question[holder] \in Asks
      /\ part = None /\ calls \in Nat /\ sent \in 0..MaxQueries
    BY Holding, ServingAssumption, Bounds DEF Inv, Typed, TypeOK, OneQuery
<1>1. UNCHANGED <<graph, embed, client, holder, key, cache, busy, supervisor, errors>>
    OBVIOUS
<1>2. OneQuery' /\ Opened' /\ Sidecars'
    BY <1>0 DEF Inv, OneQuery, Opened, Sidecars
<1>3. Reads' /\ KeyRead'
    BY <1>0 DEF Inv, Reads, KeyRead, SeedsOf
<1>4. CASE part' = FTS /\ step' = "read" /\ UNCHANGED <<calls, queue, late>>
  <2>1. Typed'
      BY <1>1, <1>4 DEF Inv, Typed, TypeOK
  <2>2. Calls'
      BY <1>0, <1>4 DEF Inv, Calls, Numbered
  <2>3. CallsCounted'
      BY <1>0, <1>4, FewerUncalled DEF Uncalled
  <2>4. CacheTrue' /\ Within'
      BY <1>0, <1>4, <2>1, CacheStays, Numbers
  <2> QED
      BY <1>2, <1>3, <2>1, <2>2, <2>3, <2>4 DEF Inv
<1>5. CASE /\ calls' = calls + 1
           /\ queue' = Append(queue, [number |-> calls + 1, q |-> question[holder]])
           /\ late' = FALSE /\ step' = "hook" /\ UNCHANGED part
  <2> DEFINE open == {c \in Clients : question[c] # None}
             request == [number |-> calls + 1, q |-> question[holder]]
  <2>1. Uncalled' = Uncalled \ {holder} /\ holder \in Uncalled /\ Uncalled \subseteq open
        /\ open' = open
      BY <1>0, <1>5 DEF Uncalled
  <2>2. IsFiniteSet(open) /\ IsFiniteSet(Uncalled)
      BY <2>1, FS_Subset DEF Inv, CallsCounted
  <2>3. /\ Cardinality(Uncalled') = Cardinality(Uncalled) - 1
        /\ Cardinality(Uncalled) \in Nat /\ Cardinality(Uncalled') \in Nat
      BY <2>1, <2>2, FS_RemoveElement, FS_CardinalityType
  <2>4. CallsCounted' /\ calls' \in 0..MaxQueries
    <3>1. calls + Cardinality(Uncalled) <= sent
        BY DEF Inv, CallsCounted
    <3>2. calls' + Cardinality(Uncalled') <= sent
        BY <1>0, <1>5, <2>3, <3>1
    <3>3. calls' \in 0..MaxQueries
        BY <1>0, <1>5, <2>3, <3>2, Bounds
    <3> QED
        BY <2>1, <2>2, <3>2, <3>3 DEF CallsCounted
  <2>5. request \in Requests
      BY <1>0, <1>5, <2>4, Bounds DEF Requests
  <2> HIDE DEF request
  <2>6. /\ queue' \in Seq(Requests) /\ Len(queue') = Len(queue) + 1
        /\ \A i \in 1..Len(queue) : queue'[i] = queue[i]
        /\ queue'[Len(queue) + 1] = request
        /\ Len(queue) \in Nat
      BY <1>5, <2>5, AppendProperties, LenProperties DEF Inv, Typed, request
  <2>7. Typed'
    <3>1. \A i \in DOMAIN queue' : queue'[i] \in Requests
        BY <2>6, ElementOfSeq, LenProperties
    <3> QED
        BY <1>1, <1>5, <2>4, <2>6, <3>1 DEF Inv, Typed, TypeOK
  <2>8. Calls'
    <3>1. ASSUME NEW i \in 1..Len(queue) PROVE Numbered(queue[i])' /\ queue'[i] = queue[i]
      <4>1. queue[i].number \in Nat /\ queue[i].number <= calls
        <5>1. queue[i] \in Requests
            BY ElementOfSeq DEF Inv, Typed
        <5>2. Numbered(queue[i])
            BY DEF Inv, Calls
        <5> QED
            BY <5>1, <5>2, Bounds DEF Requests, Numbered
      <4> QED
          BY <1>0, <1>5, <2>6, <4>1 DEF Numbered
    <3>2. request.number = calls' /\ request.q = question'[holder']
        BY <1>5 DEF request
    <3>3. ASSUME busy # None PROVE Numbered(busy)'
      <4>1. busy.number \in Nat /\ busy.number <= calls
          BY <3>3, Bounds DEF Inv, Typed, TypeOK, Calls, Numbered, Requests
      <4> QED
          BY <1>0, <1>5, <4>1 DEF Numbered
    <3>4. ASSUME NEW i \in 1..Len(queue') PROVE Numbered(queue[i])'
      <4>1. CASE i \in 1..Len(queue)
          BY <3>1, <4>1
      <4>2. CASE i = Len(queue) + 1
          BY <1>0, <1>5, <2>6, <3>2, <4>2 DEF Numbered
      <4> QED
          BY <2>6, <4>1, <4>2
    <3> QED
        BY <3>3, <3>4 DEF Calls
  <2>9. CacheTrue' /\ Within'
      BY <1>0, <1>5, <2>7, CacheStays, Numbers
  <2> QED
      BY <1>2, <1>3, <2>4, <2>7, <2>8, <2>9 DEF Inv
<1> QED
    BY <1>4, <1>5

LEMMA StepExpire ==
    ASSUME Inv, Expire \/ GiveUp
    PROVE  Inv'
<1> USE DEF Expire, GiveUp, client, query, worker, supervisor
<1>0. /\ step = "hook" /\ step' \in {"hook", "read"} /\ holder \in Clients
      /\ UNCHANGED <<graph, embed, client, holder, key, cache, calls, queue, busy,
                     supervisor, errors>>
      /\ question[holder] \in Asks /\ part = None /\ late' \in BOOLEAN
      /\ step' = "hook" => part' = None
      /\ step' = "read" => part' = FTS
    BY Holding DEF Inv, Typed, TypeOK, OneQuery
<1>1. Typed'
    BY <1>0 DEF Inv, Typed, TypeOK
<1>2. OneQuery' /\ Opened' /\ Sidecars'
    BY <1>0 DEF Inv, OneQuery, Opened, Sidecars
<1>3. Reads' /\ KeyRead'
    BY <1>0 DEF Inv, Reads, KeyRead, SeedsOf
<1>4. Calls'
    BY <1>0 DEF Inv, Calls, Numbered
<1>5. CallsCounted'
    BY <1>0, FewerUncalled DEF Uncalled
<1>6. CacheTrue' /\ Within'
    BY <1>0, <1>1, CacheStays, Numbers
<1> QED
    BY <1>1, <1>2, <1>3, <1>4, <1>5, <1>6 DEF Inv

LEMMA StepReadFirst ==
    ASSUME Inv, ReadFirst
    PROVE  Inv'
<1> USE DEF ReadFirst, client, worker, supervisor
<1>0. /\ step = "read" /\ step' = "finish" /\ holder \in Clients
      /\ question[holder] \in Queries /\ since[holder].graph <= graph
      /\ UNCHANGED <<graph, embed, client, holder, key, cache, worker, supervisor, errors>>
      /\ part' = [seeds |-> part, lo |-> graph]
    BY Holding DEF Inv, Typed, TypeOK, OneQuery
<1>1. graph \in 0..MaxWrites /\ graph \in Nat
    BY Bounds DEF Inv, Typed, TypeOK
<1>2. Typed'
    BY <1>0 DEF Inv, Typed, TypeOK
<1>3. OneQuery' /\ Opened' /\ Sidecars' /\ KeyRead'
    BY <1>0 DEF Inv, OneQuery, Opened, Sidecars, KeyRead
<1>4. Reads'
  <2>1. SeedsOf(part, question[holder], IF key = None THEN 0 ELSE key.generation)
      BY <1>0 DEF Inv, Reads
  <2>2. part \in Seeds
      BY <2>1 DEF SeedsOf, Seeds
  <2>3. part' \in [seeds : Seeds, lo : 0..MaxWrites]
      BY <1>0, <1>1, <2>2
  <2>4. key # None => key.graph <= graph
      BY <1>0 DEF Inv, KeyRead
  <2> QED
      BY <1>0, <1>1, <2>1, <2>3, <2>4 DEF Reads, SeedsOf
<1>5. Calls'
    BY <1>0 DEF Inv, Calls, Numbered
<1>6. CallsCounted'
    BY <1>0, FewerUncalled DEF Uncalled
<1>7. CacheTrue' /\ Within'
    BY <1>0, <1>2, CacheStays, Numbers
<1> QED
    BY <1>2, <1>3, <1>4, <1>5, <1>6, <1>7 DEF Inv

\* What a query computes is made of states since it was put.
LEMMA Computed ==
    ASSUME Inv, step = "finish", NEW value,
           value = [lo |-> part.lo, hi |-> graph, seeds |-> part.seeds,
                    embed |-> IF question[holder] \in Asks THEN embed ELSE None]
    PROVE  /\ value \in Values
           /\ since[holder].graph <= value.lo /\ value.lo <= value.hi /\ value.hi <= graph
           /\ \/ value.seeds \in {FTS, None}
              \/ value.seeds.q = question[holder]
           /\ key # None => key \in Keys /\ Entry([key |-> key, value |-> value])
<1>1. /\ part \in [seeds : Seeds, lo : 0..MaxWrites]
      /\ SeedsOf(part.seeds, question[holder], IF key = None THEN 0 ELSE key.generation)
      /\ since[holder].graph <= part.lo /\ part.lo <= graph
      /\ key # None => key.graph <= part.lo
    BY DEF Inv, Reads
<1>2. graph \in 0..MaxWrites /\ graph \in Nat /\ embed \in 0..MaxEmbeds /\ embed \in Nat
    BY Bounds DEF Inv, Typed, TypeOK
<1>3. value \in Values
    BY <1>1, <1>2 DEF Values
<1>4. value.seeds \in {FTS, None} \/ value.seeds.q = question[holder]
    BY <1>1 DEF SeedsOf
<1>5. ASSUME key # None PROVE key \in Keys /\ Entry([key |-> key, value |-> value])
  <2>1. key \in Keys /\ key.q = question[holder]
      BY <1>5 DEF Inv, Typed, KeyRead
  <2>2. /\ key.q \in Asks => /\ key.embed \in 0..MaxEmbeds /\ key.embed <= embed
                             /\ key.generation \in 0..MaxRespawns + 1
        /\ key.q \notin Asks => key.embed = None /\ key.generation = None
      BY <1>5 DEF Inv, KeyRead
  <2>3. SeedsOf(value.seeds, key.q, key.generation)
      BY <1>1, <1>5, <2>1
  <2> QED
      BY <1>1, <1>2, <1>5, <2>1, <2>2, <2>3 DEF Entry
<1> QED
    BY <1>1, <1>2, <1>3, <1>4, <1>5

LEMMA StepFinish ==
    ASSUME Inv, Finish
    PROVE  Inv'
<1> DEFINE value == [lo |-> part.lo, hi |-> graph, seeds |-> part.seeds,
                     embed |-> IF question[holder] \in Asks THEN embed ELSE None]
<1>0. step = "finish" /\ UNCHANGED <<graph, embed, worker, supervisor>>
    BY DEF Finish
<1>1. errors' \in 0..MaxErrors
    BY Bounds DEF Finish, Inv, Typed, TypeOK
<1>2. /\ cache \in Seq(Entries) /\ Within /\ UniqueKeys(cache)
      /\ \A i \in 1..Len(cache) : Entry(cache[i])
    BY DEF Inv, Typed, Within, CacheTrue
<1>3. \/ Reply(Failed) /\ UNCHANGED cache
      \/ Reply(value) /\ cache' = IF key = None THEN cache ELSE Put(key, value)
    BY DEF Finish, Stamp
<1> HIDE DEF value
<1>4. /\ value \in Values
      /\ key # None => key \in Keys /\ Entry([key |-> key, value |-> value])
    BY <1>0, Computed DEF value
<1>5. CASE UNCHANGED cache
  <2>1. Within'
      BY <1>2, <1>5 DEF Within
  <2> QED
      BY <1>0, <1>1, <1>2, <1>3, <1>4, <1>5, <2>1, Answering
<1>6. CASE cache' # cache
  <2>1. key \in Keys /\ cache' = Put(key, value) /\ Reply(value)
      BY <1>3, <1>4, <1>6
  <2>2. /\ Put(key, value) \in Seq(Entries)
        /\ \A i \in 1..Len(Put(key, value)) :
             \/ Put(key, value)[i] = [key |-> key, value |-> value]
             \/ \E j \in 1..Len(cache) : Put(key, value)[i] = cache[j]
        /\ UniqueKeys(Put(key, value))
        /\ Put(key, value) # cache =>
             Len(Put(key, value)) <= Cap /\ Bytes(Put(key, value)) <= MaxBytes
      BY <1>2, <1>4, <2>1, PutIs
  <2>3. Within'
      BY <1>6, <2>1, <2>2 DEF Within
  <2>4. Entry([key |-> key, value |-> value])
      BY <1>3, <1>4, <1>6
  <2>5. \A i \in 1..Len(cache') : Entry(cache'[i])
      BY <1>2, <2>1, <2>2, <2>4
  <2> QED
      BY <1>0, <1>1, <1>4, <2>1, <2>2, <2>3, <2>5, Answering
<1> QED
    BY <1>5, <1>6

-----------------------------------------------------------------------------
(* The hook's worker thread. *)

\* A step of the worker: the query that waits for the hook gets its seeds, or
\* goes on waiting.
LEMMA Delivered ==
    ASSUME Inv, NEW seeds,
           UNCHANGED <<graph, embed, client, holder, key, cache, calls, late, supervisor,
                       errors>>,
           queue' \in Seq(Requests), busy' \in Requests \cup {None},
           \A i \in 1..Len(queue') : Numbered(queue'[i]),
           busy' # None => Numbered(busy'),
           \/ UNCHANGED <<part, step>>
           \/ /\ step = "hook" /\ step' = "read" /\ part' = seeds
              /\ SeedsOf(seeds, question[holder], IF key = None THEN 0 ELSE key.generation)
    PROVE  Inv'
<1> USE DEF client, supervisor
<1>1. Typed'
  <2>1. \A i \in DOMAIN queue' : queue'[i] \in Requests
      BY ElementOfSeq, LenProperties
  <2> QED
      BY <2>1 DEF Inv, Typed, TypeOK
<1>2. OneQuery' /\ Opened' /\ Sidecars' /\ KeyRead'
    BY DEF Inv, OneQuery, Opened, Sidecars, KeyRead
<1>3. Reads'
    BY DEF Inv, Reads, SeedsOf
<1>4. Calls'
    BY DEF Calls, Numbered
<1>5. CallsCounted'
  <2>1. Uncalled' = Uncalled
      BY DEF Uncalled
  <2> QED
      BY <2>1, FewerUncalled
<1>6. CacheTrue' /\ Within'
    BY <1>1, CacheStays, Numbers
<1> QED
    BY <1>1, <1>2, <1>3, <1>4, <1>5, <1>6 DEF Inv

LEMMA StepWorkerTakes ==
    ASSUME Inv, WorkerTakes
    PROVE  Inv'
<1>1. /\ busy = None /\ queue # << >> /\ queue' = Tail(queue)
      /\ UNCHANGED <<graph, embed, client, holder, key, cache, calls, late, supervisor,
                     errors>>
      /\ busy' \in {None, Head(queue)}
      /\ \/ UNCHANGED <<part, step>>
         \/ step = "hook" /\ step' = "read" /\ part' = FTS
    BY DEF WorkerTakes, Deliver, Waits
<1>2. queue \in Seq(Requests) /\ \A i \in 1..Len(queue) : Numbered(queue[i])
    BY DEF Inv, Typed, Calls
<1>3. /\ Tail(queue) \in Seq(Requests) /\ Head(queue) \in Requests
      /\ Head(queue) = queue[1] /\ Len(queue) \in Nat /\ 1 <= Len(queue)
      /\ \A i \in 1..Len(Tail(queue)) : Tail(queue)[i] = queue[i + 1] /\ i + 1 \in 1..Len(queue)
    BY <1>1, <1>2, HeadTailProperties, EmptySeq, LenProperties
<1>4. Numbered(Head(queue)) /\ \A i \in 1..Len(queue') : Numbered(queue'[i])
    BY <1>1, <1>2, <1>3
<1>5. ASSUME step = "hook"
      PROVE  SeedsOf(FTS, question[holder], IF key = None THEN 0 ELSE key.generation)
    BY <1>5 DEF Inv, OneQuery, SeedsOf
<1> QED
    BY <1>1, <1>3, <1>4, <1>5, Delivered

LEMMA StepWorkerReplies ==
    ASSUME Inv, WorkerReplies
    PROVE  Inv'
<1>1. /\ busy # None /\ busy' = None
      /\ UNCHANGED <<graph, embed, client, holder, key, cache, calls, queue, late, supervisor,
                     errors>>
    BY DEF WorkerReplies
<1>2. queue \in Seq(Requests) /\ \A i \in 1..Len(queue) : Numbered(queue[i])
    BY DEF Inv, Typed, Calls
<1>3. PICK seeds : /\ Deliver(busy, seeds)
                   /\ \/ seeds = FTS
                      \/ sidecar.alive /\ seeds = [q |-> busy.q, by |-> sidecar.id]
    BY DEF WorkerReplies
<1>4. CASE UNCHANGED <<part, step>>
    BY <1>1, <1>2, <1>4, Delivered
<1>5. CASE step = "hook" /\ busy.number = calls /\ part' = seeds /\ step' = "read"
  <2>1. question[holder] \in Asks /\ busy.q = question[holder] /\ busy \in Requests
      BY <1>1, <1>5 DEF Inv, Typed, TypeOK, OneQuery, Calls, Numbered
  <2>2. CASE seeds = FTS
    <3>1. SeedsOf(seeds, question[holder], IF key = None THEN 0 ELSE key.generation)
        BY <2>1, <2>2 DEF SeedsOf
    <3> QED
        BY <1>1, <1>2, <1>5, <3>1, Delivered
  <2>3. CASE sidecar.alive /\ seeds = [q |-> busy.q, by |-> sidecar.id]
    <3>1. sidecar.id = generation /\ sidecar.id \in 1..MaxRespawns + 1 /\ sidecar.id \in Nat
        BY <2>3, Bounds DEF Inv, Typed, TypeOK, Sidecars
    <3>2. (IF key = None THEN 0 ELSE key.generation) <= sidecar.id
        BY <1>5, <2>1, <3>1 DEF Inv, KeyRead
    <3>3. SeedsOf(seeds, question[holder], IF key = None THEN 0 ELSE key.generation)
        BY <2>1, <2>3, <3>1, <3>2 DEF SeedsOf
    <3> QED
        BY <1>1, <1>2, <1>5, <3>3, Delivered
  <2> QED
      BY <1>3, <2>2, <2>3
<1> QED
    BY <1>3, <1>4, <1>5 DEF Deliver, Waits

-----------------------------------------------------------------------------
(* The sidecar. *)

LEMMA StepSidecar ==
    ASSUME Inv, Crash \/ Respawn \/ SwapIn
    PROVE  Inv'
<1> USE DEF Crash, Respawn, SwapIn, client, query, worker
<1>1. UNCHANGED <<graph, embed, client, query, cache, worker, errors>>
    OBVIOUS
<1>2. /\ generation \in 1..MaxRespawns + 1 /\ respawns \in 0..MaxRespawns
      /\ sidecar \in [id : 1..MaxRespawns + 1, alive : BOOLEAN]
      /\ generation \in Nat /\ respawns \in Nat /\ sidecar.id \in Nat
    BY Bounds DEF Inv, Typed, TypeOK
<1>3. /\ Sidecars' /\ generation <= generation' /\ sidecar.id <= sidecar'.id
      /\ generation' \in 1..MaxRespawns + 1 /\ respawns' \in 0..MaxRespawns
      /\ sidecar' \in [id : 1..MaxRespawns + 1, alive : BOOLEAN] /\ spawned' \in BOOLEAN
  <2>0. /\ spawned \in BOOLEAN /\ generation <= respawns + 1
        /\ spawned => ~sidecar.alive /\ sidecar.id + 1 = generation
        /\ ~spawned => sidecar.id = generation
      BY DEF Inv, Typed, TypeOK, Sidecars
  <2>1. CASE Crash
    <3>1. /\ sidecar.alive /\ sidecar'.id = sidecar.id
          /\ sidecar' \in [id : 1..MaxRespawns + 1, alive : BOOLEAN]
          /\ UNCHANGED <<generation, respawns, spawned>>
        BY <1>2, <2>1
    <3> QED
        BY <1>2, <2>0, <3>1 DEF Sidecars
  <2>2. CASE Respawn
    <3>1. /\ ~sidecar.alive /\ ~spawned /\ respawns < MaxRespawns /\ respawns' = respawns + 1
          /\ UNCHANGED sidecar
          /\ \/ generation' = generation + 1 /\ spawned' = TRUE
             \/ UNCHANGED <<generation, spawned>>
        BY <1>2, <2>2, Bounds DEF MayRespawn
    <3>2. respawns' \in 0..MaxRespawns /\ generation' \in 1..MaxRespawns + 1
        BY <1>2, <2>0, <3>1, Bounds
    <3>3. Sidecars' /\ generation <= generation' /\ sidecar.id <= sidecar'.id
        BY <1>2, <2>0, <3>1 DEF Sidecars
    <3> QED
        BY <1>2, <2>0, <3>1, <3>2, <3>3
  <2>3. CASE SwapIn
    <3>1. /\ sidecar' = [id |-> sidecar.id + 1, alive |-> TRUE] /\ sidecar.id + 1 = generation
          /\ spawned' = FALSE /\ UNCHANGED <<generation, respawns>>
        BY <2>0, <2>3
    <3>2. sidecar' \in [id : 1..MaxRespawns + 1, alive : BOOLEAN] /\ sidecar'.id = generation
        BY <1>2, <3>1
    <3>3. generation' \in Nat /\ sidecar.id <= sidecar'.id /\ generation <= generation'
        BY <1>2, <3>1, <3>2
    <3>4. Sidecars'
      <4>1. generation' <= respawns' + 1 /\ sidecar'.id = generation' /\ ~spawned'
          BY <1>2, <2>0, <3>1, <3>2
      <4> QED
          BY <4>1 DEF Sidecars
    <3> QED
        BY <1>2, <3>1, <3>2, <3>3, <3>4
  <2> QED
      BY <2>1, <2>2, <2>3
<1>4. Typed'
    BY <1>1, <1>3 DEF Inv, Typed, TypeOK
<1>5. OneQuery' /\ Opened' /\ Calls'
    BY <1>1 DEF Inv, OneQuery, Opened, Calls, Numbered
<1>6. CallsCounted'
    BY <1>1 DEF Inv, CallsCounted, Uncalled
<1>7. KeyRead'
    BY <1>1, <1>2, <1>3, Bounds DEF Inv, KeyRead
<1>8. Reads'
  <2>1. ASSUME NEW seeds, NEW from,
               SeedsOf(seeds, question[holder], from)
        PROVE  SeedsOf(seeds, question[holder], from)'
      BY <1>1, <1>2, <1>3, <2>1, Bounds DEF SeedsOf
  <2> QED
      BY <1>1, <2>1 DEF Inv, Reads, SeedsOf
<1>9. CacheTrue' /\ Within'
  <2>1. /\ graph <= graph' /\ embed <= embed'
        /\ step' = step /\ key' = key /\ UNCHANGED cache
      BY <1>1, Bounds DEF Inv, Typed, TypeOK
  <2> QED
      BY <1>3, <1>4, <2>1, CacheStays
<1> QED
    BY <1>3, <1>4, <1>5, <1>6, <1>7, <1>8, <1>9 DEF Inv

LEMMA Stutter ==
    ASSUME Inv, UNCHANGED vars
    PROVE  Inv'
<1> USE DEF vars, client, query, worker, supervisor
<1>1. Typed'
    BY DEF Inv, Typed, TypeOK
<1>2. OneQuery' /\ Opened' /\ Calls' /\ Sidecars'
    BY DEF Inv, OneQuery, Opened, Calls, Numbered, Sidecars
<1>3. Reads' /\ KeyRead'
    BY DEF Inv, Reads, KeyRead, SeedsOf
<1>4. CallsCounted'
    BY DEF Inv, CallsCounted, Uncalled
<1>5. CacheTrue' /\ Within'
    BY <1>1, CacheStays, Numbers
<1> QED
    BY <1>1, <1>2, <1>3, <1>4, <1>5 DEF Inv

-----------------------------------------------------------------------------
(* The theorems. *)

LEMMA StepInv == Inv /\ [Next]_vars => Inv'
<1> SUFFICES ASSUME Inv, [Next]_vars PROVE Inv'
    OBVIOUS
<1>1. ASSUME NEW c \in Clients, NEW q \in Queries, Send(c, q) PROVE Inv'
    BY <1>1, StepSend
<1>2. CASE WriteGraph \/ WriteEmbed
    BY <1>2, StepWrite
<1>3. ASSUME NEW c \in Clients, LockStore(c) PROVE Inv'
    BY <1>3, StepLockStore
<1>4. CASE LookUp
    BY <1>4, StepLookUp
<1>5. CASE Submit
    BY <1>5, StepSubmit
<1>6. CASE Expire \/ GiveUp
    BY <1>6, StepExpire
<1>7. CASE ReadFirst
    BY <1>7, StepReadFirst
<1>8. CASE Finish
    BY <1>8, StepFinish
<1>9. CASE WorkerTakes
    BY <1>9, StepWorkerTakes
<1>10. CASE WorkerReplies
    BY <1>10, StepWorkerReplies
<1>11. CASE Crash \/ Respawn \/ SwapIn
    BY <1>11, StepSidecar
<1>12. CASE UNCHANGED vars
    BY <1>12, Stutter
<1>13. CASE AllAnswered
    BY <1>13, Stutter DEF AllAnswered
<1> QED
    BY <1>1, <1>2, <1>3, <1>4, <1>5, <1>6, <1>7, <1>8, <1>9, <1>10, <1>11, <1>12, <1>13
       DEF Next, QueryStep

LEMMA Invariance == Spec => []Inv
BY InitInv, StepInv, PTL DEF Spec

\* Every variable keeps its type: no more queries, calls of the hook, respawns and
\* generations than the daemon allows, and every entry of the cache has a whole key
\* and a whole value.
THEOREM TypeCorrect == Spec => []TypeOK
<1>1. Inv => TypeOK
    BY DEF Inv, Typed
<1> QED
    BY <1>1, Invariance, PTL

\* The cache stays within its number of entries and its bytes and has one entry per
\* key, whatever get, put and evict_lru do, for every size of the results.
THEOREM CacheKeepsBudgets == Spec => []CacheBounded
<1>1. Inv => CacheBounded
  <2> SUFFICES ASSUME Inv PROVE CacheBounded
      OBVIOUS
  <2>1. DOMAIN cache = 1..Len(cache)
      BY LenProperties DEF Inv, Typed
  <2> QED
      BY <2>1 DEF Inv, Within, UniqueKeys, CacheBounded
<1> QED
    BY <1>1, Invariance, PTL

\* A step that answers from the look into the cache is a hit.
LEMMA OnlyHitsAnswer ==
    ASSUME Next, step = "look", step' = "free", Inv
    PROVE  \E k : /\ k = [KeyOf(question[holder]) EXCEPT !.embed = key.embed]
                  /\ Found(cache, k) /\ Reply(cache[Lookup(cache, k)].value)
                  /\ LookUp
<1>1. LookUp
    BY DEF Next, QueryStep, Send, WriteGraph, WriteEmbed, LockStore, Submit, Expire, GiveUp,
           ReadFirst, Finish, WorkerTakes, Deliver, Waits, WorkerReplies, Crash, Respawn,
           SwapIn, AllAnswered, vars, query
<1> QED
    BY <1>1 DEF LookUp, Dispatch

\* What the cache answers is what the query would compute now: a commit to graph.db
\* or embed.db, or a new sidecar, is never answered with what was true before it.
THEOREM HitsAreCurrent == Spec => HitIsCurrent
<1>1. Inv /\ [Next]_vars =>
        [step = "look" /\ step' = "free" =>
          LET value == reply'.value
          IN  /\ value.lo = graph /\ value.hi = graph
              /\ value.embed = key.embed
              /\ value.seeds \in {FTS, None} \/ value.seeds.by = sidecar.id]_vars
  <2> SUFFICES ASSUME Inv, Next, step = "look", step' = "free"
               PROVE  /\ reply'.value.lo = graph /\ reply'.value.hi = graph
                      /\ reply'.value.embed = key.embed
                      /\ \/ reply'.value.seeds \in {FTS, None}
                         \/ reply'.value.seeds.by = sidecar.id
      OBVIOUS
  <2>1. PICK k : /\ k = [KeyOf(question[holder]) EXCEPT !.embed = key.embed]
                 /\ Found(cache, k) /\ Reply(cache[Lookup(cache, k)].value)
      BY OnlyHitsAnswer
  <2>2. reply'.value = cache[Lookup(cache, k)].value
      BY <2>1 DEF Reply
  <2> QED
      BY <2>1, <2>2, Hit
<1> QED
    BY <1>1, Invariance, PTL DEF Spec, HitIsCurrent

\* An answer is that of the query that holds the lock: a hit, or what it computed.
LEMMA OnlyAnswers ==
    ASSUME Inv, Next, reply' # reply, reply' # None, reply'.value # Failed
    PROVE  /\ step # "free" /\ reply' = [client |-> holder, value |-> reply'.value]
           /\ \/ reply'.value.seeds \in {FTS, None}
              \/ reply'.value.seeds.q = question[holder]
<1>1. LookUp \/ Finish
    BY DEF Next, QueryStep, Send, WriteGraph, WriteEmbed, LockStore, Submit, Expire, GiveUp,
           ReadFirst, WorkerTakes, WorkerReplies, Crash, Respawn, SwapIn, AllAnswered, vars,
           client
<1>2. CASE LookUp
  <2>1. PICK k : /\ step = "look" /\ k = [KeyOf(question[holder]) EXCEPT !.embed = key.embed]
                 /\ Found(cache, k) /\ Reply(cache[Lookup(cache, k)].value)
      BY <1>2 DEF LookUp, client
  <2>2. reply' = [client |-> holder, value |-> cache[Lookup(cache, k)].value]
      BY <2>1 DEF Reply
  <2> QED
      BY <2>1, <2>2, Hit
<1>3. CASE Finish
  <2>1. PICK value : /\ step = "finish" /\ Reply(value)
                     /\ value = [lo |-> part.lo, hi |-> graph, seeds |-> part.seeds,
                                 embed |-> IF question[holder] \in Asks THEN embed ELSE None]
      BY <1>3 DEF Finish, Reply
  <2>2. reply' = [client |-> holder, value |-> value]
      BY <2>1 DEF Reply
  <2> QED
      BY <2>1, <2>2, Computed
<1> QED
    BY <1>1, <1>2, <1>3

\* The seeds in an answer are for the question it answers, however late the sidecar
\* replies to a request whose caller has given up.
THEOREM SeedsReachTheirQuestion == Spec => SeedsMatchQuestion
<1>1. Inv /\ [Next]_vars =>
        [reply' # reply /\ reply' # None /\ reply'.value # Failed =>
          LET seeds == reply'.value.seeds
          IN  seeds \in {FTS, None} \/ seeds.q = question[reply'.client]]_vars
  <2> SUFFICES ASSUME Inv, Next, reply' # reply, reply' # None, reply'.value # Failed
               PROVE  \/ reply'.value.seeds \in {FTS, None}
                      \/ reply'.value.seeds.q = question[reply'.client]
      OBVIOUS
  <2>1. reply'.client = holder
      BY OnlyAnswers
  <2> QED
      BY <2>1, OnlyAnswers
<1> QED
    BY <1>1, Invariance, PTL DEF Spec, SeedsMatchQuestion

-----------------------------------------------------------------------------
(* The refinement. *)

\* The reply, as FreshAnswers sees it.
Seen == IF reply = None \/ reply.value = Failed THEN reply
        ELSE [reply EXCEPT !.value = States(@)]

LEMMA RefinesInit == Init => Fresh!Init
BY DEF Init, Fresh!Init

LEMMA RefinesAnswer ==
    ASSUME Inv, step # "free", NEW value, Reply(value), UNCHANGED <<graph, embed>>,
           \/ value = Failed
           \/ /\ value \in Values
              /\ since[holder].graph <= value.lo /\ value.lo <= value.hi /\ value.hi <= graph
              /\ question[holder] \in Asks => value.embed \in since[holder].embed .. embed
              /\ question[holder] \notin Asks => value.embed = None
    PROVE  Fresh!Answer(holder)
<1>1. reply' = [client |-> holder, value |-> value] /\ question[holder] # None
      /\ question' = [question EXCEPT ![holder] = None]
      /\ since' = [since EXCEPT ![holder] = None]
    BY DEF Reply, Inv, OneQuery
<1>2. CASE value = Failed
  <2>1. Seen' = [client |-> holder, value |-> Failed]
      BY <1>1, <1>2 DEF Seen
  <2> QED
      BY <1>1, <2>1 DEF Fresh!Answer, Seen
<1>3. CASE value # Failed
  <2>1. /\ value \in Values /\ holder \in Clients
        /\ value.lo \in Nat /\ value.hi \in Nat /\ graph \in Nat /\ since[holder].graph \in Nat
      BY <1>3, Holding, Bounds DEF Values, Inv, Typed, TypeOK
  <2>2. reply' \in Replies
      BY <1>1, <2>1 DEF Replies
  <2>3. Seen' = [client |-> holder, value |-> States(value)]
      BY <1>1, <1>3, <2>2, ValuesAssumption DEF Seen, States
  <2>4. value.lo \in since[holder].graph .. graph /\ value.hi \in value.lo .. graph
      BY <1>3, <2>1
  <2>5. value.embed \in IF question[holder] \in Asks THEN since[holder].embed .. embed ELSE {None}
      BY <1>3
  <2> QED
      BY <1>1, <2>3, <2>4, <2>5 DEF Fresh!Answer, Seen, States
<1> QED
    BY <1>2, <1>3

LEMMA RefinesStep == Inv /\ [Next]_vars => [Fresh!Next]_(Fresh!vars)
<1> SUFFICES ASSUME Inv, [Next]_vars PROVE Fresh!Next \/ UNCHANGED Fresh!vars
    OBVIOUS
<1>1. ASSUME UNCHANGED <<graph, embed, question, since, reply>> PROVE UNCHANGED Fresh!vars
    BY <1>1 DEF Fresh!vars
<1>2. ASSUME NEW c \in Clients, NEW q \in Queries, Send(c, q) PROVE Fresh!Next
  <2>1. Fresh!Ask(c, q)
      BY <1>2 DEF Send, Fresh!Ask
  <2> QED
      BY <2>1 DEF Fresh!Next
<1>3. CASE WriteGraph
  <2>1. Fresh!WriteGraph
      BY <1>3 DEF WriteGraph, client, Fresh!WriteGraph
  <2> QED
      BY <2>1 DEF Fresh!Next
<1>4. CASE WriteEmbed
  <2>1. Fresh!WriteEmbed
      BY <1>4 DEF WriteEmbed, client, Fresh!WriteEmbed
  <2> QED
      BY <2>1 DEF Fresh!Next
<1>5. CASE LookUp
  <2> DEFINE k == [KeyOf(question[holder]) EXCEPT !.embed = key.embed]
             value == cache[Lookup(cache, k)].value
  <2>1. CASE UNCHANGED <<graph, embed, client>>
      BY <1>1, <2>1 DEF client
  <2>2. CASE Found(cache, k) /\ Reply(value)
    <3>1. step = "look" /\ UNCHANGED <<graph, embed>>
        BY <1>5 DEF LookUp
    <3>2. /\ holder \in Clients
          /\ since[holder].graph \in Nat /\ since[holder].graph <= graph /\ graph \in Nat
        BY <3>1, Holding, Bounds DEF Inv, Typed, TypeOK
    <3>3. /\ value \in Values /\ value.lo = graph /\ value.hi = graph
          /\ question[holder] \in Asks => value.embed \in since[holder].embed .. embed
          /\ question[holder] \notin Asks => value.embed = None
        BY <2>2, <3>1, Hit
    <3> HIDE DEF value
    <3>4. Fresh!Answer(holder)
        BY <2>2, <3>1, <3>2, <3>3, RefinesAnswer
    <3> QED
        BY <3>2, <3>4 DEF Fresh!Next
  <2> QED
      BY <1>5, <2>1, <2>2 DEF LookUp
<1>6. CASE Finish
  <2> DEFINE value == [lo |-> part.lo, hi |-> graph, seeds |-> part.seeds,
                       embed |-> IF question[holder] \in Asks THEN embed ELSE None]
  <2>1. /\ step = "finish" /\ UNCHANGED <<graph, embed>> /\ holder \in Clients
        /\ Reply(value) \/ Reply(Failed)
      BY <1>6, Holding DEF Finish
  <2>2. /\ value \in Values
        /\ since[holder].graph <= value.lo /\ value.lo <= value.hi /\ value.hi <= graph
      BY <2>1, Computed
  <2>3. /\ question[holder] \in Asks => value.embed \in since[holder].embed .. embed
        /\ question[holder] \notin Asks => value.embed = None
    <3>1. since[holder].embed \in Nat /\ since[holder].embed <= embed /\ embed \in Nat
        BY <2>1, Holding, Bounds DEF Inv, Typed, TypeOK
    <3> QED
        BY <3>1
  <2> HIDE DEF value
  <2>4. Fresh!Answer(holder)
    <3>1. CASE Reply(Failed)
        BY <2>1, <3>1, RefinesAnswer
    <3>2. CASE Reply(value)
        BY <2>1, <2>2, <2>3, <3>2, RefinesAnswer
    <3> QED
        BY <2>1, <3>1, <3>2
  <2> QED
      BY <2>1, <2>4 DEF Fresh!Next
<1>7. ASSUME \/ \E c \in Clients : LockStore(c)
             \/ Submit \/ Expire \/ GiveUp \/ ReadFirst
             \/ WorkerTakes \/ WorkerReplies \/ Crash \/ Respawn \/ SwapIn
             \/ AllAnswered \/ UNCHANGED vars
      PROVE  UNCHANGED Fresh!vars
  <2>1. UNCHANGED <<graph, embed, client>>
      BY <1>7 DEF LockStore, Submit, Expire, GiveUp, ReadFirst, WorkerTakes, WorkerReplies,
                  Crash, Respawn, SwapIn, AllAnswered, vars
  <2> QED
      BY <1>1, <2>1 DEF client
<1> QED
    BY <1>2, <1>3, <1>4, <1>5, <1>6, <1>7 DEF Next, QueryStep

\* Every answer is made of states that the databases were in since the question was
\* put: cache, hook and sidecar are invisible but for the time they take.
THEOREM ServesFreshAnswers == Spec => ImplementsFreshAnswers
<1>1. Spec => Fresh!Init /\ [][Fresh!Next]_(Fresh!vars)
    BY RefinesInit, RefinesStep, Invariance, PTL DEF Spec
<1> QED
    BY <1>1 DEF ImplementsFreshAnswers, Fresh!Spec

=============================================================================
