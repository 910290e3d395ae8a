------------------------------ MODULE ResponseCache -----------------------------
(***************************************************************************)
(* The two-tier response cache (omnisource/cache/store.py), the middleware *)
(* that fills it (omnisource/api/cache.py) and the purge that follows a    *)
(* publication (omnisource/cache/invalidation.py).  A process keeps its    *)
(* own memory tier; Redis is shared and holds, next to the responses, one  *)
(* set per tag with the keys to delete when the tag is purged.             *)
(*                                                                         *)
(* A response is the version of the catalogue it was rendered from.  Time  *)
(* is counted in what is left of each lifetime.  A step of a task runs     *)
(* from one await to the next: the store's lock is never held across one.  *)
(*                                                                         *)
(* The purge's one caller is the feed publisher, whose batches roll back   *)
(* before they come to it (FeedSync): what the cache does with a purge is  *)
(* checked for the day one is asked for.                                   *)
(***************************************************************************)
EXTENDS Integers, FiniteSets

CONSTANTS
    Processes,   \* API replicas and workers
    Requests,    \* tasks that serve GET requests
    Publishers,  \* tasks that publish and then purge
    Keys,        \* cache keys
    Tags,        \* the tags a publication purges
    TagsOf,      \* _tags_for
    Ttl,         \* _ttl_for
    MaxEntries,  \* max_entries, 2000 in the code
    Latency,     \* bound: ticks a request that missed takes
    Horizon,     \* bound: how far ages are counted
    MaxWrites    \* bound: publications

ASSUME ParametersAssumption ==
    /\ TagsOf \in [Keys -> SUBSET Tags]
    /\ Ttl \in [Keys -> Nat \ {0}]
    /\ {MaxEntries, Latency, Horizon} \subseteq Nat \ {0}
    /\ MaxWrites \in Nat
    /\ IsFiniteSet(Keys)
    /\ \A k \in Keys : Horizon >= Ttl[k] + 2 * Latency

VARIABLES
    catalogue,  \* version the database holds
    age,        \* ticks since each version was superseded
    local,      \* memory tier of each process
    remote,     \* Redis: the responses
    registry,   \* Redis: the tag sets
    redis,      \* whether each process still uses Redis
    request,    \* what each request is doing
    publisher   \* what each publisher is doing

vars == <<catalogue, age, local, remote, registry, redis, request, publisher>>

Versions == 0 .. MaxWrites

\* CachedResponse, left being what is left until expires_at, and its copy in Redis,
\* which Redis keeps for ttl
Entries == [version : Versions, left : Nat]
Copies  == [version : Versions, left : Nat, ttl : Nat]
NoEntry == [version |-> 0, left |-> 0]
NoCopy  == [version |-> 0, left |-> 0, ttl |-> 0]

TagSets  == [members : SUBSET Keys, ttl : Nat]
EmptySet == [members |-> {}, ttl |-> 0]

EmptyTier == [k \in Keys |-> NoEntry]

Live(entry) == entry.left > 0
Held(copy)  == copy.ttl > 0

Stages == {"idle", "asking", "found", "rendering", "rendered", "storing"}
Idle(q) == request[q].stage = "idle"

RequestStates   == [stage : Stages, process : Processes, key : Keys,
                    entry : Entries, waited : 0 .. Latency]
PublisherStates == [stage : {"idle", "committed", "listing", "deleting"},
                    process : Processes, listed : SUBSET Keys]

Init ==
    /\ catalogue = 0
    /\ age = [v \in Versions |-> 0]
    /\ local = [p \in Processes |-> EmptyTier]
    /\ remote = [k \in Keys |-> NoCopy]
    /\ registry = [t \in Tags |-> EmptySet]
    /\ redis = [p \in Processes |-> TRUE]
    /\ \E p \in Processes, k \in Keys :
          request = [q \in Requests |-> [stage |-> "idle", process |-> p, key |-> k,
                                         entry |-> NoEntry, waited |-> 0]]
    /\ \E p \in Processes :
          publisher = [u \in Publishers |-> [stage |-> "idle", process |-> p, listed |-> {}]]

--------------------------------------------------------------------------------
(* ResponseCacheMiddleware and ResponseCacheStore.get, set *)

Step(q, stage) == request' = [request EXCEPT ![q].stage = stage]
Finish(q)      == request' = [request EXCEPT ![q].stage = "idle", ![q].entry = NoEntry,
                                             ![q].waited = 0]

LiveKeys(tier) == {x \in Keys : Live(tier[x])}

\* Mutant: nothing is dropped
Put_Unbounded(p, k, entry) == local' = [local EXCEPT ![p][k] = entry]
\* _put_memory: a full tier drops its oldest entry, which may be any but the new one;
\* entries that have expired and were not asked for since still count
Put(p, k, entry) ==
    LET tier == [local[p] EXCEPT ![k] = entry]
    IN  \/ /\ Cardinality(LiveKeys(tier)) <= MaxEntries
           /\ local' = [local EXCEPT ![p] = tier]
        \/ \E x \in LiveKeys(tier) \ {k} :
              local' = [local EXCEPT ![p] = [tier EXCEPT ![x] = NoEntry]]

\* get finds nothing in memory; a hit is answered at once and changes nothing
Miss(q, p, k) ==
    /\ Idle(q) /\ ~Live(local[p][k])
    /\ request' = [request EXCEPT ![q] =
                      [stage |-> IF redis[p] THEN "asking" ELSE "rendering",
                       process |-> p, key |-> k, entry |-> NoEntry, waited |-> 0]]
    /\ UNCHANGED <<catalogue, age, local, remote, registry, redis, publisher>>

RedisAnswers(q) ==
    LET copy == remote[request[q].key]
    IN  /\ request[q].stage = "asking"
        /\ IF Held(copy)
           THEN request' = [request EXCEPT ![q].stage = "found",
                    ![q].entry = [version |-> copy.version, left |-> copy.left]]
           ELSE Step(q, "rendering")
        /\ UNCHANGED <<catalogue, age, local, remote, registry, redis, publisher>>

\* max(1, int(expires_unix - time.time()))
Remaining(q) == IF request[q].entry.left > 0 THEN request[q].entry.left ELSE 1

\* Mutant: a hit in Redis starts its lifetime again there
KeepFound_Sliding(q) ==
    LET k == request[q].key
    IN  /\ Put(request[q].process, k, [version |-> request[q].entry.version, left |-> Ttl[k]])
        /\ remote' = [remote EXCEPT ![k] =
                         [version |-> request[q].entry.version, left |-> Ttl[k], ttl |-> Ttl[k]]]
KeepFound(q) ==
    /\ Put(request[q].process, request[q].key,
           [version |-> request[q].entry.version, left |-> Remaining(q)])
    /\ UNCHANGED remote

\* The answer arrives, is kept in memory and served
Found(q) ==
    /\ request[q].stage = "found"
    /\ KeepFound(q)
    /\ Finish(q)
    /\ UNCHANGED <<catalogue, age, registry, redis, publisher>>

\* The endpoint reads the database ...
Render(q) ==
    /\ request[q].stage = "rendering"
    /\ request' = [request EXCEPT ![q].stage = "rendered", ![q].entry.version = catalogue]
    /\ UNCHANGED <<catalogue, age, local, remote, registry, redis, publisher>>

\* ... and its response is stamped and kept in memory ...
Keep(q) ==
    LET p == request[q].process
        k == request[q].key
        entry == [version |-> request[q].entry.version, left |-> Ttl[k]]
    IN  /\ request[q].stage = "rendered"
        /\ Put(p, k, entry)
        /\ IF redis[p]
           THEN request' = [request EXCEPT ![q].stage = "storing", ![q].entry = entry]
           ELSE Finish(q)
        /\ UNCHANGED <<catalogue, age, remote, registry, redis, publisher>>

\* ... unless it is an error, no JSON, too large or has a TTL of 0
NotCacheable(q) ==
    /\ request[q].stage = "rendered"
    /\ Finish(q)
    /\ UNCHANGED <<catalogue, age, local, remote, registry, redis, publisher>>

\* SETEX, and SADD and EXPIRE for every tag, in one transaction
Save(q) ==
    LET k == request[q].key
        entry == request[q].entry
    IN  /\ remote' = [remote EXCEPT ![k] =
                         [version |-> entry.version, left |-> entry.left, ttl |-> Ttl[k]]]
        /\ registry' = [t \in Tags |->
                IF t \in TagsOf[k]
                THEN [members |-> registry[t].members \cup {k}, ttl |-> Ttl[k]]
                ELSE registry[t]]

Store(q) ==
    /\ request[q].stage = "storing"
    /\ Save(q)
    /\ Finish(q)
    /\ UNCHANGED <<catalogue, age, local, redis, publisher>>

\* _disable_redis: until it restarts, the process does without
Disable(p) == redis' = [redis EXCEPT ![p] = FALSE]

LookupFails(q) ==
    /\ request[q].stage \in {"asking", "found"}
    /\ request' = [request EXCEPT ![q].stage = "rendering", ![q].entry = NoEntry]
    /\ Disable(request[q].process)
    /\ UNCHANGED <<catalogue, age, local, remote, registry, publisher>>

\* The transaction is lost, or only its answer is
StoreFails(q) ==
    /\ request[q].stage = "storing"
    /\ Save(q) \/ UNCHANGED <<remote, registry>>
    /\ Finish(q)
    /\ Disable(request[q].process)
    /\ UNCHANGED <<catalogue, age, local, publisher>>

--------------------------------------------------------------------------------
(* FeedPublisher, delete_tagged_keys *)

Goto(u, stage) == publisher' = [publisher EXCEPT ![u].stage = stage]
EndPurge(u)    == publisher' = [publisher EXCEPT ![u].stage = "idle", ![u].listed = {}]

\* publish commits; webhooks and the search index come before the cache
Publish(u, p) ==
    /\ publisher[u].stage = "idle"
    /\ catalogue < MaxWrites
    /\ catalogue' = catalogue + 1
    /\ publisher' = [publisher EXCEPT ![u] = [stage |-> "committed", process |-> p, listed |-> {}]]
    /\ UNCHANGED <<age, local, remote, registry, redis, request>>

\* clear_local
Clear(u) ==
    LET p == publisher[u].process
    IN  /\ publisher[u].stage = "committed"
        /\ local' = [local EXCEPT ![p] = EmptyTier]
        /\ Goto(u, IF redis[p] THEN "listing" ELSE "idle")
        /\ UNCHANGED <<catalogue, age, remote, registry, redis, request>>

\* SMEMBERS of every tag
ListTags(u) ==
    LET listed == UNION {registry[t].members : t \in Tags}
    IN  /\ publisher[u].stage = "listing"
        /\ IF listed # {}
           THEN publisher' = [publisher EXCEPT ![u].stage = "deleting", ![u].listed = listed]
           ELSE EndPurge(u)
        /\ UNCHANGED <<catalogue, age, local, remote, registry, redis, request>>

\* DEL of the keys and of the tag sets, in one transaction
Remove(u) ==
    /\ remote' = [k \in Keys |-> IF k \in publisher[u].listed THEN NoCopy ELSE remote[k]]
    /\ registry' = [t \in Tags |-> EmptySet]

Delete(u) ==
    /\ publisher[u].stage = "deleting"
    /\ Remove(u)
    /\ EndPurge(u)
    /\ UNCHANGED <<catalogue, age, local, redis, request>>

PurgeFails(u) ==
    /\ publisher[u].stage \in {"listing", "deleting"}
    /\ \/ publisher[u].stage = "deleting" /\ Remove(u)
       \/ UNCHANGED <<remote, registry>>
    /\ EndPurge(u)
    /\ Disable(publisher[u].process)
    /\ UNCHANGED <<catalogue, age, local, request>>

--------------------------------------------------------------------------------
\* A process dies, with its memory and its tasks, and starts again
Restart(p) ==
    /\ local' = [local EXCEPT ![p] = EmptyTier]
    /\ redis' = [redis EXCEPT ![p] = TRUE]
    /\ request' = [q \in Requests |->
          IF request[q].process = p
          THEN [request[q] EXCEPT !.stage = "idle", !.entry = NoEntry, !.waited = 0]
          ELSE request[q]]
    /\ publisher' = [u \in Publishers |->
          IF publisher[u].process = p
          THEN [publisher[u] EXCEPT !.stage = "idle", !.listed = {}]
          ELSE publisher[u]]
    /\ UNCHANGED <<catalogue, age, remote, registry>>

Less(n) == IF n > 0 THEN n - 1 ELSE 0

\* What has expired is not there any more
EntryAfterTick(e)  == IF e.left > 1 THEN [e EXCEPT !.left = @ - 1] ELSE NoEntry
CopyAfterTick(c)   == IF c.ttl > 1 THEN [c EXCEPT !.left = Less(@), !.ttl = @ - 1] ELSE NoCopy
TagSetAfterTick(s) == IF s.ttl > 1 THEN [s EXCEPT !.ttl = @ - 1] ELSE EmptySet

Tick ==
    /\ \A q \in Requests : ~Idle(q) => request[q].waited < Latency
    /\ age' = [v \in Versions |-> IF v < catalogue /\ age[v] < Horizon THEN age[v] + 1 ELSE age[v]]
    /\ local' = [p \in Processes |-> [k \in Keys |-> EntryAfterTick(local[p][k])]]
    /\ remote' = [k \in Keys |-> CopyAfterTick(remote[k])]
    /\ registry' = [t \in Tags |-> TagSetAfterTick(registry[t])]
    /\ request' = [q \in Requests |->
          IF Idle(q) THEN request[q]
          ELSE [request[q] EXCEPT !.waited = @ + 1, !.entry.left = Less(@)]]
    /\ UNCHANGED <<catalogue, redis, publisher>>

Proceed(q) ==
    \/ RedisAnswers(q) \/ Found(q) \/ Render(q) \/ Keep(q) \/ Store(q)
    \/ NotCacheable(q) \/ LookupFails(q) \/ StoreFails(q)

Purge(u) == Clear(u) \/ ListTags(u) \/ Delete(u) \/ PurgeFails(u)

Next ==
    \/ \E q \in Requests :
          \/ \E p \in Processes, k \in Keys : Miss(q, p, k)
          \/ Proceed(q)
    \/ \E u \in Publishers :
          \/ \E p \in Processes : Publish(u, p)
          \/ Purge(u)
    \/ \E p \in Processes : Restart(p)
    \/ Tick

Spec == Init /\ [][Next]_vars

\* Time passes and the event loop runs what it has started; purges may fail
FairSpec == Spec /\ WF_vars(Tick) /\ \A q \in Requests : WF_vars(Proceed(q))

--------------------------------------------------------------------------------
(* Properties *)

\* The type of every variable; no process holds more than MaxEntries responses that
\* could be served.
TypeOK ==
    /\ catalogue \in Versions
    /\ age \in [Versions -> 0 .. Horizon]
    /\ local \in [Processes -> [Keys -> Entries]]
    /\ remote \in [Keys -> Copies]
    /\ registry \in [Tags -> TagSets]
    /\ redis \in [Processes -> BOOLEAN]
    /\ request \in [Requests -> RequestStates]
    /\ publisher \in [Publishers -> PublisherStates]
    /\ \A p \in Processes : Cardinality(LiveKeys(local[p])) <= MaxEntries

\* No process serves a response from memory that has been out of date for longer
\* than its lifetime and the time of the two requests that carried it there, one
\* into Redis and one out of it; whatever fails, and whether it was purged or not.
StalenessBounded ==
    \A p \in Processes, k \in Keys :
        Live(local[p][k]) => age[local[p][k].version] < Ttl[k] + 2 * Latency

Behind(v) ==
    \/ \E p \in Processes, k \in Keys : Live(local[p][k]) /\ local[p][k].version < v
    \/ \E k \in Keys : Held(remote[k]) /\ remote[k].version < v

\* Every publication is seen everywhere and for good in the end, its purge lost or
\* not: both tiers forget every response rendered before it.
EveryoneCatchesUp ==
    \A v \in Versions : catalogue = v ~> []~Behind(v)

--------------------------------------------------------------------------------
(* What comments of the code say and the code does not do *)

\* store.py:5-6: "every cached response key is registered under the tags that should
\* invalidate it".  A response in Redis is in one tag set at least, or no purge finds it.
EveryResponseRegistered ==
    \A k \in Keys : Held(remote[k]) => \E t \in TagsOf[k] : k \in registry[t].members
================================================================================
