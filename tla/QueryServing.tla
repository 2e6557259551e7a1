----------------------------- MODULE QueryServing ------------------------------
(***************************************************************************)
(* How the daemon answers read-only queries: the Query arm of              *)
(* handle_control_message (crates/travsr-daemon/src/lib.rs), the result    *)
(* cache (query_cache.rs), and for `ask' the KNN hook with its worker      *)
(* thread and the sidecar behind it (crates/travsr-plugin-host/src/        *)
(* embed_supervisor.rs).                                                   *)
(*                                                                         *)
(* A query holds the lock of the read connection from the first read of    *)
(* its cache key to its answer, but writers of graph.db and embed.db use   *)
(* other connections and other processes, so they commit between any two   *)
(* of its reads.  Both databases are their PRAGMA data_version, which      *)
(* moves with every commit; the commit markers in the key are rows of      *)
(* graph.db and move with it.                                              *)
(***************************************************************************)
EXTENDS Naturals, SequencesExt

CONSTANTS
    Clients,        \* connections that send Query
    Queries,        \* tool and arguments, normalized
    Asks,           \* the queries of tool `ask' (reads_embeddings)
    Size,           \* the bytes of a query's result in a state of graph.db
    Cap,            \* entries the cache holds (256)
    MaxBytes,       \* MAX_CACHE_BYTES
    Depth,          \* HOOK_QUEUE_DEPTH
    MaxRespawns,    \* MAX_RESPAWN_ATTEMPTS
    MaxQueries,     \* bound on the queries sent
    MaxWrites,      \* bound on the commits to graph.db
    MaxEmbeds,      \* bound on the commits to embed.db
    MaxErrors,      \* bound on failing pragmas and failing queries
    None,           \* no query, no key, no embedding
    Failed          \* an error as answer

ASSUME ServingAssumption ==
    /\ Asks \subseteq Queries
    /\ {None, Failed} \cap (Clients \cup Queries) = {} /\ None # Failed
    /\ Size \in [Queries -> [0..MaxWrites -> Nat \ {0}]]
    /\ {Cap, Depth} \subseteq Nat \ {0}
    /\ {MaxBytes, MaxRespawns, MaxQueries, MaxWrites, MaxEmbeds, MaxErrors} \subseteq Nat

VARIABLES
    graph,          \* data_version of graph.db
    embed,          \* data_version of embed.db
    question,       \* the query each client waits for, or None
    since,          \* history: the databases when it was sent
    reply,          \* the answer that goes out last, and to whom, or None
    step,           \* where the query that holds the lock is
    holder,         \* the client whose query holds the lock of read_store
    key,            \* the cache key that the query read, None to bypass the cache
    part,           \* what it has read so far: graph.db's state and the seeds
    cache,          \* the entries, least recently used first
    sent,           \* queries sent so far
    calls,          \* requests to the hook so far: the number of the last one
    queue,          \* the channel to the hook's worker thread
    busy,           \* the request that the worker runs with the sidecar locked
    late,           \* the deadline (600 ms) of the last request has passed
    sidecar,        \* the process the hook talks to
    generation,     \* SERVING_GENERATION
    spawned,        \* a new sidecar is up and not yet swapped in
    respawns,       \* respawn_count
    errors          \* errors so far

client == <<question, since, reply, sent>>
query == <<step, holder, key, part>>
worker == <<calls, queue, busy, late>>
supervisor == <<sidecar, generation, spawned, respawns>>
vars == <<graph, embed, client, query, cache, worker, supervisor, errors>>

\* What the KNN hook contributes when it has nothing: full-text search answers.
FTS == [q |-> None, by |-> 0]

\* The part of a value that FreshAnswers speaks of.
States(value) == [lo |-> value.lo, hi |-> value.hi, embed |-> value.embed]

Fresh == INSTANCE FreshAnswers WITH
    reply <- IF reply = None \/ reply.value = Failed THEN reply
             ELSE [reply EXCEPT !.value = States(@)]

-----------------------------------------------------------------------------
Init ==
    /\ graph = 0 /\ embed = 0
    /\ question = [c \in Clients |-> None]
    /\ since = [c \in Clients |-> None]
    /\ reply = None
    /\ sent = 0
    /\ step = "free" /\ holder = None /\ key = None /\ part = None
    /\ cache = <<>>
    /\ calls = 0 /\ queue = <<>> /\ busy = None /\ late = FALSE
    \* try_inject_embed_hook: started, warmed, and then armed.
    /\ sidecar = [id |-> 1, alive |-> TRUE]
    /\ generation = 1
    /\ spawned = FALSE
    /\ respawns = 0
    /\ errors = 0

-----------------------------------------------------------------------------
\* Mutated forms of definitions below: slips the properties must catch.

\* The serving generation is left out of the key.
KeyOfEarlier(q) == [q |-> q, embed |-> IF q \in Asks THEN embed ELSE None,
                    generation |-> None, graph |-> graph]

\* embed.db is left out of the key.
KeyWithoutEmbed(q) == [q |-> q, embed |-> None,
                       generation |-> IF q \in Asks THEN generation ELSE None,
                       graph |-> graph]

\* The cache is trimmed to its entry count alone.
TrimByCount(entries) ==
    IF Len(entries) > Cap THEN Tail(entries) ELSE entries

\* The reply goes to whoever waits for the hook.
AnyoneWaits(request) == step = "hook"

\* The worker's caller has no timeout.
NeverExpires == FALSE /\ UNCHANGED vars

\* One respawn more than allowed.
OneMoreRespawn == respawns <= MaxRespawns

-----------------------------------------------------------------------------
(* Clients and writers. *)

Send(c, q) ==
    /\ question[c] = None
    /\ sent < MaxQueries
    /\ question' = [question EXCEPT ![c] = q]
    /\ since' = [since EXCEPT ![c] = [graph |-> graph, embed |-> embed]]
    /\ reply' = None
    /\ sent' = sent + 1
    /\ UNCHANGED <<graph, embed, query, cache, worker, supervisor, errors>>

\* The indexer worker, Phase B, a hook, fsck: anything that commits.
WriteGraph ==
    /\ graph < MaxWrites
    /\ graph' = graph + 1
    /\ UNCHANGED <<embed, client, query, cache, worker, supervisor, errors>>

WriteEmbed ==
    /\ embed < MaxEmbeds
    /\ embed' = embed + 1
    /\ UNCHANGED <<graph, client, query, cache, worker, supervisor, errors>>

-----------------------------------------------------------------------------
(* The cache. *)

KeyOf(q) == [q |-> q,
             embed |-> IF q \in Asks THEN embed ELSE None,
             generation |-> IF q \in Asks THEN generation ELSE None,
             graph |-> graph]

Cost(entry) == Size[entry.key.q][entry.value.hi]
Bytes(entries) ==
    LET sum[n \in 0..Len(entries)] ==
            IF n = 0 THEN 0 ELSE sum[n - 1] + Cost(entries[n])
    IN  sum[Len(entries)]

\* The map from keys to entries.
Found(entries, k) == \E i \in DOMAIN entries : entries[i].key = k
Lookup(entries, k) == CHOOSE i \in DOMAIN entries : entries[i].key = k

Without(entries, k) ==
    IF Found(entries, k) THEN RemoveAt(entries, Lookup(entries, k)) ELSE entries

\* QueryCache::get marks the entry as used last.
Touched(k) == Append(Without(cache, k), cache[Lookup(cache, k)])

\* The loop of evict_lru: as many of the oldest entries go as it takes.
Trim(entries) ==
    LET fits(n) == /\ Len(entries) - n <= Cap
                   /\ Bytes(SubSeq(entries, n + 1, Len(entries))) <= MaxBytes
        gone == CHOOSE n \in 0 .. Len(entries) :
                    fits(n) /\ \A m \in 0 .. n - 1 : ~fits(m)
    IN  SubSeq(entries, gone + 1, Len(entries))

\* QueryCache::put; a result that would not fit alone is refused.
Put(k, value) ==
    LET entry == [key |-> k, value |-> value]
    IN  IF Cost(entry) > MaxBytes THEN cache
        ELSE Trim(Append(Without(cache, k), entry))

-----------------------------------------------------------------------------
(* The Query arm. *)

\* The answer leaves, and the lock with it.
Reply(value) ==
    /\ reply' = [client |-> holder, value |-> value]
    /\ question' = [question EXCEPT ![holder] = None]
    /\ since' = [since EXCEPT ![holder] = None]
    /\ step' = "free" /\ holder' = None /\ key' = None /\ part' = None
    /\ UNCHANGED sent

\* read_store.lock(), and embed_data_version with it; the other parts of the
\* key follow in LookUp.  A pragma that fails makes the query bypass the cache.
LockStore(c) ==
    /\ question[c] # None
    /\ holder = None
    /\ holder' = c
    /\ step' = "look"
    /\ key' = KeyOf(question[c])
    /\ UNCHANGED <<graph, embed, client, part, cache, worker, supervisor, errors>>

Dispatch == IF question[holder] \in Asks THEN "submit" ELSE "read"

LookUp ==
    /\ step = "look"
    /\ LET k == [KeyOf(question[holder]) EXCEPT !.embed = key.embed]
       IN  \/ /\ Found(cache, k)
              /\ cache' = Touched(k)
              /\ Reply(cache[Lookup(cache, k)].value)
              /\ UNCHANGED errors
           \/ /\ ~Found(cache, k)
              /\ key' = k
              /\ step' = Dispatch
              /\ UNCHANGED <<client, holder, part, cache, errors>>
           \/ /\ errors < MaxErrors
              /\ errors' = errors + 1
              /\ key' = None
              /\ step' = Dispatch
              /\ UNCHANGED <<client, holder, part, cache>>
    /\ UNCHANGED <<graph, embed, worker, supervisor>>

\* HookWorker::call: try_send, shed at once when the queue is full.
Submit ==
    /\ step = "submit"
    /\ \/ /\ Len(queue) < Depth
          /\ calls' = calls + 1
          /\ queue' = Append(queue, [number |-> calls + 1, q |-> question[holder]])
          /\ late' = FALSE
          /\ step' = "hook"
          /\ UNCHANGED part
       \/ /\ Len(queue) = Depth
          /\ part' = FTS
          /\ step' = "read"
          /\ UNCHANGED <<calls, queue, late>>
    /\ UNCHANGED <<graph, embed, client, holder, key, cache, busy, supervisor, errors>>

\* The deadline passes; a little later recv_timeout gives up.
Expire ==
    /\ step = "hook" /\ ~late
    /\ late' = TRUE
    /\ UNCHANGED <<graph, embed, client, query, cache, calls, queue, busy, supervisor,
                   errors>>

GiveUp ==
    /\ step = "hook" /\ late
    /\ part' = FTS
    /\ step' = "read"
    /\ UNCHANGED <<graph, embed, client, holder, key, cache, worker, supervisor, errors>>

\* run_query reads graph.db with one statement after another.
ReadFirst ==
    /\ step = "read"
    /\ part' = [seeds |-> part, lo |-> graph]
    /\ step' = "finish"
    /\ UNCHANGED <<graph, embed, client, holder, key, cache, worker, supervisor, errors>>

\* The entry is stamped with the versions read before the query ran.
Stamp == key

Finish ==
    /\ step = "finish"
    /\ \/ LET q == question[holder]
              value == [lo |-> part.lo, hi |-> graph, seeds |-> part.seeds,
                        embed |-> IF q \in Asks THEN embed ELSE None]
          IN  /\ cache' = IF key = None THEN cache ELSE Put(Stamp, value)
              /\ Reply(value)
              /\ UNCHANGED errors
       \/ /\ errors < MaxErrors
          /\ errors' = errors + 1
          /\ Reply(Failed)
          /\ UNCHANGED cache
    /\ UNCHANGED <<graph, embed, worker, supervisor>>

-----------------------------------------------------------------------------
(* The hook's worker thread. *)

\* The reply channel is the request's own: a caller that gave up has dropped it.
Waits(request) == step = "hook" /\ request.number = calls

\* Whoever sent an earlier request has an answer or has given up.
Expired(request) == request.number < calls \/ late

\* The reply, or nothing: the caller sees the channel close and does without.
Deliver(request, seeds) ==
    IF Waits(request) THEN part' = seeds /\ step' = "read"
    ELSE UNCHANGED <<part, step>>

\* A request past its deadline is skipped, and one is over at once when the
\* sidecar is dead.
WorkerTakes ==
    /\ busy = None
    /\ queue # <<>>
    /\ queue' = Tail(queue)
    /\ \/ /\ Expired(Head(queue))
          /\ UNCHANGED <<busy, part, step>>
       \/ /\ ~Expired(Head(queue)) /\ sidecar.alive
          /\ busy' = Head(queue)
          /\ UNCHANGED <<part, step>>
       \/ /\ ~Expired(Head(queue)) /\ ~sidecar.alive
          /\ Deliver(Head(queue), FTS)
          /\ UNCHANGED busy
    /\ UNCHANGED <<graph, embed, client, holder, key, cache, calls, late, supervisor,
                   errors>>

\* The sidecar answers, in its own time, or the request fails.
WorkerReplies ==
    /\ busy # None
    /\ busy' = None
    /\ \/ sidecar.alive /\ Deliver(busy, [q |-> busy.q, by |-> sidecar.id])
       \/ Deliver(busy, FTS)
    /\ UNCHANGED <<graph, embed, client, holder, key, cache, calls, queue,
                   late, supervisor, errors>>

-----------------------------------------------------------------------------
(* The sidecar and maybe_respawn, called by the embed tick. *)

Crash ==
    /\ sidecar.alive
    /\ sidecar' = [sidecar EXCEPT !.alive = FALSE]
    /\ UNCHANGED <<graph, embed, client, query, cache, worker, generation, spawned,
                   respawns, errors>>

MayRespawn == respawns < MaxRespawns

\* The new process is up: note_sidecar_now_serving; or the spawn fails.
Respawn ==
    /\ ~sidecar.alive /\ ~spawned
    /\ busy = None
    /\ MayRespawn
    /\ respawns' = respawns + 1
    /\ \/ generation' = generation + 1 /\ spawned' = TRUE
       \/ UNCHANGED <<generation, spawned>>
    /\ UNCHANGED <<graph, embed, client, query, cache, worker, sidecar, errors>>

\* The swap waits for the worker's lock on the sidecar.
SwapIn ==
    /\ spawned
    /\ busy = None
    /\ sidecar' = [id |-> sidecar.id + 1, alive |-> TRUE]
    /\ spawned' = FALSE
    /\ UNCHANGED <<graph, embed, client, query, cache, worker, generation, respawns,
                   errors>>

-----------------------------------------------------------------------------
AllAnswered ==
    /\ sent = MaxQueries
    /\ \A c \in Clients : question[c] = None
    /\ UNCHANGED vars

QueryStep ==
    \/ \E c \in Clients : LockStore(c)
    \/ LookUp \/ Submit \/ Expire \/ GiveUp \/ ReadFirst \/ Finish

Next ==
    \/ \E c \in Clients, q \in Queries : Send(c, q)
    \/ WriteGraph \/ WriteEmbed
    \/ QueryStep
    \/ WorkerTakes \/ WorkerReplies
    \/ Crash \/ Respawn \/ SwapIn
    \/ AllAnswered

\* The daemon goes on with a query it has begun and takes the next one; nothing
\* makes the sidecar answer, or the worker that waits for it.
Spec == Init /\ [][Next]_vars /\ WF_vars(QueryStep)

-----------------------------------------------------------------------------
Keys == [q : Queries, embed : 0..MaxEmbeds \cup {None},
         generation : 0..MaxRespawns + 1 \cup {None}, graph : 0..MaxWrites]
Seeds == {FTS, None} \cup [q : Asks, by : 1..MaxRespawns + 1]
Values == [lo : 0..MaxWrites, hi : 0..MaxWrites, seeds : Seeds,
           embed : 0..MaxEmbeds \cup {None}]
Requests == [number : 1..MaxQueries, q : Asks]
Replies == [client : Clients, value : Values \cup {Failed}]

ASSUME ValuesAssumption ==
    None \notin Keys \cup Replies /\ Failed \notin Values

TypeOK ==
    /\ graph \in 0..MaxWrites /\ embed \in 0..MaxEmbeds
    /\ question \in [Clients -> Queries \cup {None}]
    /\ since \in [Clients -> [graph : 0..MaxWrites, embed : 0..MaxEmbeds] \cup {None}]
    /\ reply \in {None} \cup Replies
    /\ {sent, calls} \subseteq 0..MaxQueries
    /\ step \in {"free", "look", "submit", "hook", "read", "finish"}
    /\ holder \in Clients \cup {None}
    /\ \A i \in DOMAIN cache : cache[i].key \in Keys /\ cache[i].value \in Values
    /\ \A i \in DOMAIN queue : queue[i] \in Requests
    /\ busy \in Requests \cup {None}
    /\ late \in BOOLEAN
    /\ sidecar \in [id : 1..MaxRespawns + 1, alive : BOOLEAN]
    /\ generation \in 1..MaxRespawns + 1
    /\ spawned \in BOOLEAN
    /\ respawns \in 0..MaxRespawns
    /\ errors \in 0..MaxErrors

\* The cache stays within both budgets and holds one entry per key, whatever is
\* replaced, refused or used again (QueryCache::put, evict_lru).
CacheBounded ==
    /\ Len(cache) <= Cap
    /\ Bytes(cache) <= MaxBytes
    /\ \A i, j \in DOMAIN cache : cache[i].key = cache[j].key => i = j

\* What the cache answers is what the query would compute now: one state of
\* graph.db and embed.db, as the query found them, and seeds of no sidecar but the one
\* that serves.  A query that a commit overtook may give a mixed answer once,
\* but never again from the cache (the Query arm: `a stale entry can never be
\* returned').
HitIsCurrent ==
    [][step = "look" /\ step' = "free" =>
        LET value == reply'.value
        IN  /\ value.lo = graph /\ value.hi = graph
            /\ value.embed = key.embed
            /\ value.seeds \in {FTS, None} \/ value.seeds.by = sidecar.id]_vars

\* The seeds in an answer are for its question: the late reply to a request
\* whose caller gave up reaches nobody else, and no cache entry mixes two
\* questions (HookWorker's reply channel).
SeedsMatchQuestion ==
    [][reply' # reply /\ reply' # None /\ reply'.value # Failed =>
        LET seeds == reply'.value.seeds
        IN  seeds \in {FTS, None} \/ seeds.q = question[reply'.client]]_vars

\* Every answer is made of states the databases were in since the question.
ImplementsFreshAnswers == Fresh!Spec

\* Every query is answered, even when the sidecar hangs or is gone for good: no
\* client is left waiting (the queries are bounded, so waiting for the next one
\* to be sent does not hide one that is not answered).
EveryQueryAnswered == []<>(\A c \in Clients : question[c] = None)

=============================================================================
