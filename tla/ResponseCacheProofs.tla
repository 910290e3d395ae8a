-------------------------- MODULE ResponseCacheProofs --------------------------
(* Theorems about ResponseCache, for any processes, keys, lifetimes and tasks *)
EXTENDS ResponseCache, FiniteSetTheorems, TLAPS

\* The current version is not out of date, nor are those to come.
CurrentIsNew == \A v \in Versions : v >= catalogue => age[v] = 0

\* What is left of a response in memory makes up for the time it is out of date.
MemoryYoung ==
    \A p \in Processes, k \in Keys :
        Live(local[p][k]) =>
            age[local[p][k].version] + local[p][k].left <= Ttl[k] + 2 * Latency

\* A response in Redis was at most one request's latency old when it got there.
CopyYoung(version, left, k) == left > 0 => age[version] + left <= Ttl[k] + Latency

RedisYoung ==
    \A k \in Keys :
        Held(remote[k]) =>
            /\ age[remote[k].version] + remote[k].ttl <= Ttl[k] + Latency
            /\ CopyYoung(remote[k].version, remote[k].left, k)

\* What a request carries grows old with the request.
CarriedYoung(r) ==
    /\ r.stage = "found" =>
          /\ age[r.entry.version] < Ttl[r.key] + Latency + r.waited
          /\ CopyYoung(r.entry.version, r.entry.left, r.key)
    /\ r.stage \in {"rendered", "storing"} => age[r.entry.version] <= r.waited
    /\ r.stage = "storing" => CopyYoung(r.entry.version, r.entry.left, r.key)

RequestsYoung == \A q \in Requests : CarriedYoung(request[q])

IInv ==
    /\ TypeOK
    /\ CurrentIsNew
    /\ MemoryYoung
    /\ RedisYoung
    /\ RequestsYoung

--------------------------------------------------------------------------------
(* What the helpers do *)

LEMMA ConstantFacts ==
    /\ MaxEntries \in Nat \ {0} /\ Latency \in Nat \ {0} /\ Horizon \in Nat \ {0}
    /\ MaxWrites \in Nat /\ IsFiniteSet(Keys)
    /\ \A k \in Keys : Ttl[k] \in Nat \ {0} /\ TagsOf[k] \in SUBSET Tags
BY ParametersAssumption DEF ParametersAssumption

\* A tier that holds nothing is well-formed and within its bound.
LEMMA EmptyTierFits ==
    /\ EmptyTier \in [Keys -> Entries]
    /\ Cardinality(LiveKeys(EmptyTier)) <= MaxEntries
<1>1. LiveKeys(EmptyTier) = {}
  BY DEF LiveKeys, EmptyTier, NoEntry, Live
<1>2. EmptyTier \in [Keys -> Entries]
  BY ConstantFacts DEF EmptyTier, NoEntry, Entries, Versions
<1> QED BY <1>1, <1>2, FS_EmptySet, ConstantFacts

\* A tier with fewer live responses than one within the bound is within it.
LEMMA SmallerTierFits ==
    ASSUME NEW tier \in [Keys -> Entries], NEW tier2 \in [Keys -> Entries],
           LiveKeys(tier2) \subseteq LiveKeys(tier),
           Cardinality(LiveKeys(tier)) <= MaxEntries
    PROVE  Cardinality(LiveKeys(tier2)) <= MaxEntries
<1>1. IsFiniteSet(LiveKeys(tier))
  BY ConstantFacts, FS_Subset DEF LiveKeys
<1>2. IsFiniteSet(LiveKeys(tier2)) /\ Cardinality(LiveKeys(tier2)) <= Cardinality(LiveKeys(tier))
  BY <1>1, FS_Subset
<1>3. Cardinality(LiveKeys(tier)) \in Nat /\ Cardinality(LiveKeys(tier2)) \in Nat
  BY <1>1, <1>2, FS_CardinalityType
<1> QED BY <1>2, <1>3, ConstantFacts

\* What is in a tier after _put_memory was there before, or is the new response; and
\* the tier is within its bound.
LEMMA PutKeeps ==
    ASSUME TypeOK, NEW p \in Processes, NEW k \in Keys, NEW entry \in Entries, Put(p, k, entry)
    PROVE  /\ local' \in [Processes -> [Keys -> Entries]]
           /\ \A x \in Processes : Cardinality(LiveKeys(local'[x])) <= MaxEntries
           /\ \A x \in Processes, y \in Keys :
                 \/ local'[x][y] = local[x][y]
                 \/ x = p /\ y = k /\ local'[x][y] = entry
                 \/ local'[x][y] = NoEntry
<1> DEFINE tier == [local[p] EXCEPT ![k] = entry]
<1>0. local \in [Processes -> [Keys -> Entries]] /\ tier \in [Keys -> Entries]
  BY DEF TypeOK
<1>1. NoEntry \in Entries /\ ~Live(NoEntry)
  BY ConstantFacts DEF NoEntry, Entries, Versions, Live
<1>2. CASE Cardinality(LiveKeys(tier)) <= MaxEntries /\ local' = [local EXCEPT ![p] = tier]
  <2>1. \A x \in Processes : Cardinality(LiveKeys(local'[x])) <= MaxEntries
    BY <1>0, <1>2 DEF TypeOK
  <2> QED BY <1>0, <1>2, <2>1
<1>3. ASSUME NEW z \in LiveKeys(tier) \ {k},
             local' = [local EXCEPT ![p] = [tier EXCEPT ![z] = NoEntry]]
      PROVE  /\ local' \in [Processes -> [Keys -> Entries]]
             /\ \A x \in Processes : Cardinality(LiveKeys(local'[x])) <= MaxEntries
             /\ \A x \in Processes, y \in Keys :
                   \/ local'[x][y] = local[x][y]
                   \/ x = p /\ y = k /\ local'[x][y] = entry
                   \/ local'[x][y] = NoEntry
  <2> DEFINE after == [tier EXCEPT ![z] = NoEntry]
             old   == LiveKeys(local[p])
  <2>1. after \in [Keys -> Entries] /\ z \in Keys /\ z # k /\ Live(tier[z])
    BY <1>0, <1>1, <1>3 DEF LiveKeys
  <2>2. z \in old /\ LiveKeys(after) \subseteq (old \ {z}) \cup {k}
    BY <1>0, <1>1, <2>1 DEF LiveKeys
  <2>3. IsFiniteSet(old) /\ Cardinality(old) \in Nat
    BY ConstantFacts, FS_Subset, FS_CardinalityType DEF LiveKeys
  <2>4. IsFiniteSet(old \ {z}) /\ Cardinality(old \ {z}) = Cardinality(old) - 1
    BY <2>2, <2>3, FS_RemoveElement
  <2>5. /\ IsFiniteSet((old \ {z}) \cup {k})
        /\ Cardinality((old \ {z}) \cup {k}) <= Cardinality(old)
    <3> DEFINE rest == old \ {z}
    <3>1. IsFiniteSet(rest) /\ Cardinality(rest) = Cardinality(old) - 1
      BY <2>4
    <3> HIDE DEF rest, old
    <3>2. /\ IsFiniteSet(rest \cup {k})
          /\ Cardinality(rest \cup {k}) = IF k \in rest THEN Cardinality(rest)
                                          ELSE Cardinality(rest) + 1
      BY <3>1, FS_AddElement
    <3>3. Cardinality(rest \cup {k}) <= Cardinality(old)
      BY <2>3, <3>1, <3>2
    <3> QED BY <3>2, <3>3 DEF rest
  <2>6. /\ IsFiniteSet(LiveKeys(after))
        /\ Cardinality(LiveKeys(after)) <= Cardinality((old \ {z}) \cup {k})
    BY <2>2, <2>5, FS_Subset
  <2>7. Cardinality(LiveKeys(after)) <= MaxEntries
    <3>1. Cardinality(old) <= MaxEntries
      BY DEF TypeOK
    <3>2. Cardinality(LiveKeys(after)) \in Nat /\ Cardinality((old \ {z}) \cup {k}) \in Nat
      BY <2>5, <2>6, FS_CardinalityType
    <3> QED BY <2>3, <2>5, <2>6, <3>1, <3>2, ConstantFacts
  <2>8. \A x \in Processes : Cardinality(LiveKeys(local'[x])) <= MaxEntries
    BY <1>0, <1>3, <2>7 DEF TypeOK
  <2> QED BY <1>0, <1>3, <2>1, <2>8
<1> QED BY <1>2, <1>3 DEF Put

--------------------------------------------------------------------------------
(* Types *)

\* What a transaction on Redis leaves behind is well-formed.
LEMMA SaveType ==
    ASSUME TypeOK, NEW q \in Requests, Save(q)
    PROVE  remote' \in [Keys -> Copies] /\ registry' \in [Tags -> TagSets]
<1>1. request[q].key \in Keys /\ request[q].entry \in Entries
  BY DEF TypeOK, RequestStates
<1>2. Ttl[request[q].key] \in Nat
  BY <1>1, ConstantFacts
<1> QED BY <1>1, <1>2 DEF TypeOK, Save, Entries, Copies, TagSets

LEMMA RemoveType ==
    ASSUME TypeOK, NEW u \in Publishers, Remove(u)
    PROVE  remote' \in [Keys -> Copies] /\ registry' \in [Tags -> TagSets]
BY ConstantFacts DEF TypeOK, Remove, Copies, TagSets, NoCopy, EmptySet, Versions

\* The memory tiers after _put_memory are well-formed.
LEMMA LocalType ==
    ASSUME TypeOK, NEW p \in Processes, NEW k \in Keys, NEW entry \in Entries, Put(p, k, entry)
    PROVE  /\ local' \in [Processes -> [Keys -> Entries]]
           /\ \A x \in Processes : Cardinality(LiveKeys(local'[x])) <= MaxEntries
BY PutKeeps

\* Changing a task's record field by field keeps it well-formed.
LEMMA RequestType ==
    ASSUME TypeOK, NEW q \in Requests
    PROVE  /\ \A stage \in Stages, entry \in Entries :
                 [request EXCEPT ![q].stage = stage, ![q].entry = entry]
                     \in [Requests -> RequestStates]
           /\ \A stage \in Stages : [request EXCEPT ![q].stage = stage]
                     \in [Requests -> RequestStates]
           /\ [request EXCEPT ![q].stage = "idle", ![q].entry = NoEntry, ![q].waited = 0]
                     \in [Requests -> RequestStates]
<1>1. request[q] \in RequestStates /\ request \in [Requests -> RequestStates]
  BY DEF TypeOK
<1>2. NoEntry \in Entries /\ 0 \in 0 .. Latency /\ "idle" \in Stages
  BY ConstantFacts DEF NoEntry, Entries, Versions, Stages
<1> HIDE DEF Entries, Stages
<1>3. \A stage \in Stages, entry \in Entries :
          [request[q] EXCEPT !.stage = stage, !.entry = entry] \in RequestStates
  BY <1>1 DEF RequestStates
<1>4. \A stage \in Stages : [request[q] EXCEPT !.stage = stage] \in RequestStates
  BY <1>1 DEF RequestStates
<1>5. [request[q] EXCEPT !.stage = "idle", !.entry = NoEntry, !.waited = 0] \in RequestStates
  BY <1>1, <1>2 DEF RequestStates
<1> QED BY <1>1, <1>3, <1>4, <1>5

LEMMA PublisherType ==
    ASSUME TypeOK, NEW u \in Publishers
    PROVE  /\ \A stage \in {"idle", "listing", "deleting"}, listed \in SUBSET Keys :
                 [publisher EXCEPT ![u].stage = stage, ![u].listed = listed]
                     \in [Publishers -> PublisherStates]
           /\ \A stage \in {"idle", "listing"} : [publisher EXCEPT ![u].stage = stage]
                     \in [Publishers -> PublisherStates]
BY DEF TypeOK, PublisherStates

LEMMA TypeInit == Init => TypeOK
<1> SUFFICES ASSUME Init PROVE TypeOK
  OBVIOUS
<1>1. /\ \A p \in Processes : Cardinality(LiveKeys(local[p])) <= MaxEntries
      /\ local \in [Processes -> [Keys -> Entries]]
  BY EmptyTierFits DEF Init
<1>2. NoEntry \in Entries /\ NoCopy \in Copies /\ EmptySet \in TagSets
  BY ConstantFacts DEF NoEntry, Entries, NoCopy, Copies, EmptySet, TagSets, Versions
<1>3. request \in [Requests -> RequestStates]
  BY <1>2, ConstantFacts DEF Init, RequestStates, Stages
<1>4. publisher \in [Publishers -> PublisherStates]
  BY DEF Init, PublisherStates
<1>5. catalogue \in Versions /\ age \in [Versions -> 0 .. Horizon]
  BY ConstantFacts DEF Init, Versions
<1>6. /\ remote \in [Keys -> Copies] /\ registry \in [Tags -> TagSets]
      /\ redis \in [Processes -> BOOLEAN]
  BY <1>2 DEF Init
<1> QED BY <1>1, <1>3, <1>4, <1>5, <1>6 DEF TypeOK

LEMMA TypeStep == TypeOK /\ [Next]_vars => TypeOK'
<1> SUFFICES ASSUME TypeOK, [Next]_vars PROVE TypeOK'
  OBVIOUS
<1>0. NoEntry \in Entries /\ catalogue \in Versions
  BY ConstantFacts DEF NoEntry, Entries, Versions, TypeOK
<1>1. ASSUME NEW q \in Requests, NEW p \in Processes, NEW k \in Keys, Miss(q, p, k)
      PROVE  TypeOK'
  <2>1. request' \in [Requests -> RequestStates]
    BY <1>0, <1>1, ConstantFacts DEF TypeOK, Miss, RequestStates, Stages
  <2> QED BY <1>1, <2>1 DEF TypeOK, Miss
<1>2. ASSUME NEW q \in Requests, Proceed(q)
      PROVE  TypeOK'
  <2> DEFINE p == request[q].process
             k == request[q].key
             carried == request[q].entry
  <2>0. p \in Processes /\ k \in Keys /\ carried \in Entries /\ Ttl[k] \in Nat \ {0}
    BY ConstantFacts DEF TypeOK, RequestStates
  <2>1. CASE RedisAnswers(q)
    <3>1. [version |-> remote[k].version, left |-> remote[k].left] \in Entries
      BY <2>0 DEF TypeOK, Copies, Entries
    <3>2. request' \in [Requests -> RequestStates]
      <4>1. CASE Held(remote[k])
        <5>1. request' = [request EXCEPT ![q].stage = "found",
                 ![q].entry = [version |-> remote[k].version, left |-> remote[k].left]]
          BY <2>1, <4>1 DEF RedisAnswers
        <5>2. "found" \in Stages
          BY DEF Stages
        <5> QED BY <3>1, <5>1, <5>2, RequestType
      <4>2. CASE ~Held(remote[k])
        <5>1. request' = [request EXCEPT ![q].stage = "rendering"]
          BY <2>1, <4>2 DEF RedisAnswers, Step
        <5>2. "rendering" \in Stages
          BY DEF Stages
        <5> QED BY <5>1, <5>2, RequestType
      <4> QED BY <4>1, <4>2
    <3> QED BY <2>1, <3>2 DEF TypeOK, RedisAnswers
  <2>2. CASE Found(q)
    <3> DEFINE entry == [version |-> carried.version, left |-> Remaining(q)]
    <3>1. entry \in Entries
      BY <2>0 DEF Entries, Remaining
    <3>2. Put(p, k, entry)
      BY <2>2 DEF Found, KeepFound
    <3>3. /\ local' \in [Processes -> [Keys -> Entries]]
          /\ \A x \in Processes : Cardinality(LiveKeys(local'[x])) <= MaxEntries
      <4> HIDE DEF entry, p, k
      <4> QED BY <2>0, <3>1, <3>2, PutKeeps
    <3>4. request' \in [Requests -> RequestStates]
      BY <2>2, RequestType DEF Found, Finish
    <3> QED BY <2>2, <3>3, <3>4 DEF TypeOK, Found, KeepFound
  <2>3. CASE Render(q)
    <3>1. [carried EXCEPT !.version = catalogue] \in Entries
      BY <1>0, <2>0 DEF Entries
    <3>2. request'[q] \in RequestStates
      BY <2>3, <3>1 DEF Render, TypeOK, RequestStates, Stages
    <3>3. request' \in [Requests -> RequestStates]
      BY <2>3, <3>2 DEF Render, TypeOK
    <3> QED BY <2>3, <3>3 DEF TypeOK, Render
  <2>4. CASE Keep(q)
    <3> DEFINE entry == [version |-> carried.version, left |-> Ttl[k]]
    <3>1. entry \in Entries
      BY <2>0 DEF Entries
    <3>2. Put(p, k, entry)
      BY <2>4 DEF Keep
    <3>3. /\ local' \in [Processes -> [Keys -> Entries]]
          /\ \A x \in Processes : Cardinality(LiveKeys(local'[x])) <= MaxEntries
      <4> HIDE DEF entry, p, k
      <4> QED BY <2>0, <3>1, <3>2, PutKeeps
    <3>4. request' \in [Requests -> RequestStates]
      <4>1. CASE redis[p]
        <5>1. request' = [request EXCEPT ![q].stage = "storing", ![q].entry = entry]
          BY <2>4, <4>1 DEF Keep
        <5>2. "storing" \in Stages
          BY DEF Stages
        <5> HIDE DEF entry
        <5> QED BY <3>1, <5>1, <5>2, RequestType
      <4>2. CASE ~redis[p]
        BY <2>4, <4>2, RequestType DEF Keep, Finish
      <4> QED BY <4>1, <4>2
    <3> QED BY <2>4, <3>3, <3>4 DEF TypeOK, Keep
  <2>5. CASE Store(q)
    <3>1. remote' \in [Keys -> Copies] /\ registry' \in [Tags -> TagSets]
      BY <2>5, SaveType DEF Store
    <3>2. request' \in [Requests -> RequestStates]
      BY <2>5, RequestType DEF Store, Finish
    <3> QED BY <2>5, <3>1, <3>2 DEF TypeOK, Store
  <2>6. CASE NotCacheable(q)
    <3>1. request' \in [Requests -> RequestStates]
      BY <2>6, RequestType DEF NotCacheable, Finish
    <3> QED BY <2>6, <3>1 DEF TypeOK, NotCacheable
  <2>7. CASE LookupFails(q)
    <3>1. request' \in [Requests -> RequestStates]
      BY <1>0, <2>7, RequestType DEF LookupFails, Stages
    <3>2. redis' \in [Processes -> BOOLEAN]
      BY <2>7 DEF LookupFails, Disable, TypeOK
    <3> QED BY <2>7, <3>1, <3>2, SMTT(30) DEF TypeOK, LookupFails
  <2>8. CASE StoreFails(q)
    <3>1. remote' \in [Keys -> Copies] /\ registry' \in [Tags -> TagSets]
      <4>1. CASE Save(q)
        BY <4>1, SaveType
      <4>2. CASE UNCHANGED <<remote, registry>>
        BY <4>2 DEF TypeOK
      <4> QED BY <2>8, <4>1, <4>2 DEF StoreFails
    <3>2. request' \in [Requests -> RequestStates]
      BY <2>8, RequestType DEF StoreFails, Finish
    <3>3. redis' \in [Processes -> BOOLEAN]
      BY <2>8 DEF StoreFails, Disable, TypeOK
    <3> QED BY <2>8, <3>1, <3>2, <3>3 DEF TypeOK, StoreFails
  <2> QED BY <1>2, <2>1, <2>2, <2>3, <2>4, <2>5, <2>6, <2>7, <2>8 DEF Proceed
<1>3. ASSUME NEW u \in Publishers, NEW p \in Processes, Publish(u, p)
      PROVE  TypeOK'
  <2>1. catalogue' \in Versions
    BY <1>0, <1>3, ConstantFacts DEF Publish, Versions
  <2>2. publisher' \in [Publishers -> PublisherStates]
    BY <1>3 DEF Publish, TypeOK, PublisherStates
  <2> QED BY <1>3, <2>1, <2>2 DEF TypeOK, Publish
<1>4. ASSUME NEW u \in Publishers, Purge(u)
      PROVE  TypeOK'
  <2>1. CASE Clear(u)
    <3>1. publisher[u].process \in Processes
      BY DEF TypeOK, PublisherStates
    <3>2. /\ local' \in [Processes -> [Keys -> Entries]]
          /\ \A x \in Processes : Cardinality(LiveKeys(local'[x])) <= MaxEntries
      BY <2>1, <3>1, EmptyTierFits DEF TypeOK, Clear
    <3>3. publisher' \in [Publishers -> PublisherStates]
      BY <2>1, PublisherType DEF Clear, Goto
    <3> QED BY <2>1, <3>2, <3>3 DEF TypeOK, Clear
  <2>2. CASE ListTags(u)
    <3> DEFINE listed == UNION {registry[t].members : t \in Tags}
    <3>1. listed \in SUBSET Keys
      BY DEF TypeOK, TagSets
    <3>2. publisher' \in [Publishers -> PublisherStates]
      <4>1. CASE listed # {}
        <5>1. publisher' = [publisher EXCEPT ![u].stage = "deleting", ![u].listed = listed]
          BY <2>2, <4>1 DEF ListTags
        <5> HIDE DEF listed
        <5> QED BY <3>1, <5>1, PublisherType
      <4>2. CASE listed = {}
        <5>1. publisher' = [publisher EXCEPT ![u].stage = "idle", ![u].listed = {}]
          BY <2>2, <4>2 DEF ListTags, EndPurge
        <5> QED BY <5>1, PublisherType
      <4> QED BY <4>1, <4>2
    <3> QED BY <2>2, <3>2 DEF TypeOK, ListTags
  <2>3. CASE Delete(u)
    <3>1. remote' \in [Keys -> Copies] /\ registry' \in [Tags -> TagSets]
      BY <2>3, RemoveType DEF Delete
    <3>2. publisher' \in [Publishers -> PublisherStates]
      BY <2>3, PublisherType DEF Delete, EndPurge
    <3> QED BY <2>3, <3>1, <3>2 DEF TypeOK, Delete
  <2>4. CASE PurgeFails(u)
    <3>1. remote' \in [Keys -> Copies] /\ registry' \in [Tags -> TagSets]
      <4>1. CASE Remove(u)
        BY <4>1, RemoveType
      <4>2. CASE UNCHANGED <<remote, registry>>
        BY <4>2 DEF TypeOK
      <4> QED BY <2>4, <4>1, <4>2 DEF PurgeFails
    <3>2. publisher' \in [Publishers -> PublisherStates]
      BY <2>4, PublisherType DEF PurgeFails, EndPurge
    <3>3. redis' \in [Processes -> BOOLEAN]
      BY <2>4 DEF PurgeFails, Disable, TypeOK
    <3> QED BY <2>4, <3>1, <3>2, <3>3 DEF TypeOK, PurgeFails
  <2> QED BY <1>4, <2>1, <2>2, <2>3, <2>4 DEF Purge
<1>5. ASSUME NEW p \in Processes, Restart(p)
      PROVE  TypeOK'
  <2>1. /\ local' \in [Processes -> [Keys -> Entries]]
        /\ \A x \in Processes : Cardinality(LiveKeys(local'[x])) <= MaxEntries
    BY <1>5, EmptyTierFits DEF TypeOK, Restart
  <2>2. request' \in [Requests -> RequestStates]
    <3> SUFFICES ASSUME NEW q \in Requests PROVE request'[q] \in RequestStates
      BY <1>5 DEF Restart
    <3>1. request[q] \in RequestStates
      BY DEF TypeOK
    <3>2. [request[q] EXCEPT !.stage = "idle", !.entry = NoEntry, !.waited = 0] \in RequestStates
      <4>1. 0 \in 0 .. Latency /\ "idle" \in Stages
        BY ConstantFacts DEF Stages
      <4> QED BY <1>0, <3>1, <4>1 DEF RequestStates
    <3> QED BY <1>5, <3>1, <3>2 DEF Restart
  <2>3. publisher' \in [Publishers -> PublisherStates]
    BY <1>5 DEF TypeOK, Restart, PublisherStates
  <2>4. redis' \in [Processes -> BOOLEAN]
    BY <1>5 DEF TypeOK, Restart
  <2> QED BY <1>5, <2>1, <2>2, <2>3, <2>4 DEF TypeOK, Restart
<1>6. CASE Tick
  <2>1. \A e \in Entries : EntryAfterTick(e) \in Entries /\ (Live(EntryAfterTick(e)) => Live(e))
    BY <1>0 DEF EntryAfterTick, Entries, Live, NoEntry
  <2>2. local' \in [Processes -> [Keys -> Entries]]
    BY <1>6, <2>1 DEF Tick, TypeOK
  <2>3. \A p \in Processes : Cardinality(LiveKeys(local'[p])) <= MaxEntries
    <3> SUFFICES ASSUME NEW p \in Processes
                 PROVE  Cardinality(LiveKeys(local'[p])) <= MaxEntries
      OBVIOUS
    <3>1. LiveKeys(local'[p]) \subseteq LiveKeys(local[p])
      <4>1. \A k \in Keys : local'[p][k] = EntryAfterTick(local[p][k]) /\ local[p][k] \in Entries
        BY <1>6 DEF Tick, TypeOK
      <4> QED BY <2>1, <4>1 DEF LiveKeys
    <3> QED BY <2>2, <3>1, SmallerTierFits DEF TypeOK
  <2>4. remote' \in [Keys -> Copies]
    <3>1. NoCopy \in Copies
      BY ConstantFacts DEF NoCopy, Copies, Versions
    <3>2. ASSUME NEW c \in Copies PROVE CopyAfterTick(c) \in Copies
      <4>1. Less(c.left) \in Nat /\ (c.ttl > 1 => c.ttl - 1 \in Nat)
        BY DEF Less, Copies
      <4>2. c.ttl > 1 => [c EXCEPT !.left = Less(@), !.ttl = @ - 1] \in Copies
        BY <4>1 DEF Copies
      <4> QED BY <3>1, <4>2 DEF CopyAfterTick
    <3> QED BY <1>6, <3>2 DEF Tick, TypeOK
  <2>5. registry' \in [Tags -> TagSets]
    <3>1. \A s \in TagSets : TagSetAfterTick(s) \in TagSets
      BY DEF TagSetAfterTick, TagSets, EmptySet
    <3> QED BY <1>6, <3>1 DEF Tick, TypeOK
  <2>6. age' \in [Versions -> 0 .. Horizon]
    <3>1. \A v \in Versions : age[v] \in 0 .. Horizon
      BY DEF TypeOK
    <3>2. \A n \in 0 .. Horizon : n < Horizon => n + 1 \in 0 .. Horizon
      BY ConstantFacts
    <3>3. age' = [v \in Versions |-> IF v < catalogue /\ age[v] < Horizon THEN age[v] + 1 ELSE age[v]]
      BY <1>6 DEF Tick
    <3> QED BY <3>1, <3>2, <3>3
  <2>7. request' \in [Requests -> RequestStates]
    <3> SUFFICES ASSUME NEW q \in Requests PROVE request'[q] \in RequestStates
      BY <1>6 DEF Tick
    <3>1. request[q] \in RequestStates
      BY DEF TypeOK
    <3>2. CASE Idle(q)
      BY <1>6, <3>1, <3>2 DEF Tick
    <3>3. CASE ~Idle(q)
      <4>1. [request[q].entry EXCEPT !.left = Less(@)] \in Entries
        BY <3>1 DEF RequestStates, Entries, Less
      <4>2. request[q].waited + 1 \in 0 .. Latency
        <5>1. request[q].waited \in 0 .. Latency /\ request[q].waited < Latency
          BY <1>6, <3>1, <3>3 DEF Tick, RequestStates
        <5> QED BY <5>1, ConstantFacts
      <4>3. request'[q] = [request[q] EXCEPT !.waited = @ + 1, !.entry.left = Less(@)]
        BY <1>6, <3>3 DEF Tick
      <4> QED BY <3>1, <4>1, <4>2, <4>3 DEF RequestStates
    <3> QED BY <3>2, <3>3
  <2> QED BY <1>6, <2>2, <2>3, <2>4, <2>5, <2>6, <2>7 DEF Tick, TypeOK
<1>7. CASE UNCHANGED vars
  BY <1>7 DEF TypeOK, vars
<1> QED BY <1>1, <1>2, <1>3, <1>4, <1>5, <1>6, <1>7 DEF Next

\* Every variable keeps its type and no memory tier grows beyond its bound.
THEOREM TypeCorrect == Spec => []TypeOK
BY TypeInit, TypeStep, PTL DEF Spec

--------------------------------------------------------------------------------
(* Staleness *)

LEMMA EntryFacts ==
    ASSUME TypeOK
    PROVE  /\ \A v \in Versions : age[v] \in Nat
           /\ \A p \in Processes, k \in Keys :
                 local[p][k].version \in Versions /\ local[p][k].left \in Nat
           /\ \A k \in Keys : /\ remote[k].version \in Versions
                              /\ remote[k].left \in Nat /\ remote[k].ttl \in Nat
           /\ \A q \in Requests : /\ request[q].entry.version \in Versions
                                  /\ request[q].entry.left \in Nat
                                  /\ request[q].key \in Keys
                                  /\ request[q].waited \in 0 .. Latency
<1>1. \A v \in Versions : age[v] \in Nat
  BY ConstantFacts DEF TypeOK
<1>2. \A p \in Processes, k \in Keys :
          local[p][k].version \in Versions /\ local[p][k].left \in Nat
  BY DEF TypeOK, Entries
<1>3. \A k \in Keys : /\ remote[k].version \in Versions
                      /\ remote[k].left \in Nat /\ remote[k].ttl \in Nat
  BY DEF TypeOK, Copies
<1>4. \A q \in Requests : /\ request[q].entry \in Entries /\ request[q].key \in Keys
                          /\ request[q].waited \in 0 .. Latency
  BY DEF TypeOK, RequestStates
<1> QED BY <1>1, <1>2, <1>3, <1>4 DEF Entries

\* A young response put into memory leaves the memory tiers young.
LEMMA PutYoung ==
    ASSUME TypeOK, MemoryYoung, UNCHANGED age,
           NEW p \in Processes, NEW k \in Keys, NEW entry \in Entries, Put(p, k, entry),
           age[entry.version] + entry.left <= Ttl[k] + 2 * Latency
    PROVE  MemoryYoung'
<1> SUFFICES ASSUME NEW x \in Processes, NEW y \in Keys, Live(local'[x][y])
             PROVE  age[local'[x][y].version] + local'[x][y].left <= Ttl[y] + 2 * Latency
  BY DEF MemoryYoung, Live
<1>1. ~Live(NoEntry)
  BY DEF NoEntry, Live
<1>2. local'[x][y] = local[x][y] \/ (y = k /\ local'[x][y] = entry)
  BY <1>1, PutKeeps
<1> QED BY <1>2 DEF MemoryYoung

\* What a storing request saves leaves Redis young.
LEMMA SaveYoung ==
    ASSUME TypeOK, RedisYoung, UNCHANGED age, NEW q \in Requests,
           CarriedYoung(request[q]), request[q].stage = "storing", Save(q)
    PROVE  RedisYoung'
<1> DEFINE k == request[q].key
           entry == request[q].entry
<1>1. /\ k \in Keys /\ entry.version \in Versions /\ age[entry.version] \in Nat
      /\ request[q].waited \in 0 .. Latency /\ Ttl[k] \in Nat /\ Latency \in Nat
  BY EntryFacts, ConstantFacts
<1>2. age[entry.version] <= request[q].waited /\ CopyYoung(entry.version, entry.left, k)
  BY DEF CarriedYoung
<1>3. age[entry.version] + Ttl[k] <= Ttl[k] + Latency
  BY <1>1, <1>2
<1> SUFFICES ASSUME NEW y \in Keys, Held(remote'[y])
             PROVE  /\ age[remote'[y].version] + remote'[y].ttl <= Ttl[y] + Latency
                    /\ remote'[y].left > 0 =>
                          age[remote'[y].version] + remote'[y].left <= Ttl[y] + Latency
  BY DEF RedisYoung, CopyYoung, Held
<1>4. CASE y = k
  <2>1. remote'[y] = [version |-> entry.version, left |-> entry.left, ttl |-> Ttl[k]]
    BY <1>1, <1>4 DEF Save, TypeOK
  <2> QED BY <1>2, <1>3, <1>4, <2>1 DEF CopyYoung
<1>5. CASE y # k
  <2>1. remote'[y] = remote[y]
    BY <1>5 DEF Save, TypeOK
  <2> QED BY <2>1 DEF RedisYoung, CopyYoung
<1> QED BY <1>4, <1>5

\* A purge only takes responses away.
LEMMA RemoveYoung ==
    ASSUME RedisYoung, UNCHANGED age, NEW u \in Publishers, Remove(u)
    PROVE  RedisYoung'
<1> SUFFICES ASSUME NEW y \in Keys, Held(remote'[y])
             PROVE  /\ age[remote'[y].version] + remote'[y].ttl <= Ttl[y] + Latency
                    /\ remote'[y].left > 0 =>
                          age[remote'[y].version] + remote'[y].left <= Ttl[y] + Latency
  BY DEF RedisYoung, CopyYoung, Held
<1>1. ~Held(NoCopy)
  BY DEF Held, NoCopy
<1>2. remote'[y] = remote[y]
  BY <1>1 DEF Remove
<1> QED BY <1>2 DEF RedisYoung, CopyYoung

\* A step of one request leaves the others young.
LEMMA OneRequestYoung ==
    ASSUME RequestsYoung, UNCHANGED age, NEW q \in Requests,
           \A x \in Requests \ {q} : request'[x] = request[x],
           CarriedYoung(request[q])'
    PROVE  RequestsYoung'
BY DEF RequestsYoung, CarriedYoung, CopyYoung

\* A request that ends carries nothing.
LEMMA FinishYoung ==
    ASSUME TypeOK, RequestsYoung, UNCHANGED age, NEW q \in Requests, Finish(q)
    PROVE  RequestsYoung'
<1>1. request'[q].stage = "idle" /\ \A x \in Requests \ {q} : request'[x] = request[x]
  BY DEF Finish, TypeOK, RequestStates
<1>2. CarriedYoung(request[q])'
  BY <1>1 DEF CarriedYoung
<1> QED BY <1>1, <1>2, OneRequestYoung

LEMMA YoungInit == Init => CurrentIsNew /\ MemoryYoung /\ RedisYoung /\ RequestsYoung
BY DEF Init, CurrentIsNew, MemoryYoung, RedisYoung, RequestsYoung, CarriedYoung,
       EmptyTier, NoEntry, NoCopy, Live, Held

\* What time does to the ages: none grows by more than a tick, the current stays new.
LEMMA AgesAfterTick ==
    ASSUME TypeOK, CurrentIsNew, Tick
    PROVE  /\ \A v \in Versions : age'[v] \in Nat /\ age'[v] <= age[v] + 1
           /\ CurrentIsNew'
<1>1. age' = [v \in Versions |-> IF v < catalogue /\ age[v] < Horizon THEN age[v] + 1 ELSE age[v]]
  BY DEF Tick
<1>2. \A v \in Versions : age[v] \in Nat /\ v \in Nat
  BY EntryFacts, ConstantFacts DEF Versions
<1>3. catalogue' = catalogue
  BY DEF Tick
<1>4. catalogue \in Nat
  BY ConstantFacts DEF TypeOK, Versions
<1> QED BY <1>1, <1>2, <1>3, <1>4 DEF CurrentIsNew

LEMMA TickYoung ==
    ASSUME IInv, Tick
    PROVE  CurrentIsNew' /\ MemoryYoung' /\ RedisYoung' /\ RequestsYoung'
<1> USE DEF IInv
<1>1. \A v \in Versions : age[v] \in Nat /\ age'[v] \in Nat /\ age'[v] <= age[v] + 1
  BY AgesAfterTick, EntryFacts
<1>2. MemoryYoung'
  <2> SUFFICES ASSUME NEW p \in Processes, NEW k \in Keys, Live(local'[p][k])
               PROVE  age'[local'[p][k].version] + local'[p][k].left <= Ttl[k] + 2 * Latency
    BY DEF MemoryYoung, Live
  <2>1. local'[p][k] = EntryAfterTick(local[p][k]) /\ local[p][k] \in Entries
    BY DEF Tick, TypeOK
  <2>2. /\ local[p][k].left > 1
        /\ local'[p][k] = [local[p][k] EXCEPT !.left = @ - 1]
    BY <2>1 DEF EntryAfterTick, NoEntry, Live
  <2>3. local'[p][k].version = local[p][k].version /\ local'[p][k].left = local[p][k].left - 1
    BY <2>1, <2>2 DEF Entries
  <2>4. /\ local[p][k].version \in Versions /\ local[p][k].left \in Nat
        /\ Ttl[k] \in Nat /\ Latency \in Nat
    BY EntryFacts, ConstantFacts
  <2>5. age[local[p][k].version] + local[p][k].left <= Ttl[k] + 2 * Latency
    BY <2>2, <2>4 DEF MemoryYoung, Live
  <2> QED BY <1>1, <2>3, <2>4, <2>5
<1>3. RedisYoung'
  <2> SUFFICES ASSUME NEW k \in Keys, Held(remote'[k])
               PROVE  /\ age'[remote'[k].version] + remote'[k].ttl <= Ttl[k] + Latency
                      /\ remote'[k].left > 0 =>
                            age'[remote'[k].version] + remote'[k].left <= Ttl[k] + Latency
    BY DEF RedisYoung, CopyYoung, Held
  <2>1. remote'[k] = CopyAfterTick(remote[k]) /\ remote[k] \in Copies
    BY DEF Tick, TypeOK
  <2>2. /\ remote[k].ttl > 1
        /\ remote'[k] = [remote[k] EXCEPT !.left = Less(@), !.ttl = @ - 1]
    BY <2>1 DEF CopyAfterTick, NoCopy, Held
  <2>3. /\ remote'[k].version = remote[k].version /\ remote'[k].ttl = remote[k].ttl - 1
        /\ remote'[k].left = Less(remote[k].left)
    BY <2>1, <2>2 DEF Copies
  <2>4. /\ remote[k].version \in Versions /\ remote[k].left \in Nat /\ remote[k].ttl \in Nat
        /\ Ttl[k] \in Nat /\ Latency \in Nat
    BY EntryFacts, ConstantFacts
  <2>5. /\ age[remote[k].version] + remote[k].ttl <= Ttl[k] + Latency
        /\ remote[k].left > 0 => age[remote[k].version] + remote[k].left <= Ttl[k] + Latency
    BY <2>2, <2>4 DEF RedisYoung, Held, CopyYoung
  <2>6. remote'[k].left > 0 => remote[k].left > 0 /\ remote'[k].left = remote[k].left - 1
    BY <2>3, <2>4 DEF Less
  <2> QED BY <1>1, <2>3, <2>4, <2>5, <2>6
<1>4. RequestsYoung'
  <2> SUFFICES ASSUME NEW q \in Requests PROVE CarriedYoung(request[q])'
    BY DEF RequestsYoung
  <2>1. CASE Idle(q)
    <3>1. request'[q].stage = "idle"
      BY <2>1 DEF Tick, Idle
    <3> QED BY <3>1 DEF CarriedYoung
  <2>2. CASE ~Idle(q)
    <3>1. request'[q] = [request[q] EXCEPT !.waited = @ + 1, !.entry.left = Less(@)]
      BY <2>2 DEF Tick
    <3>2. request[q] \in RequestStates /\ request[q].entry \in Entries
      BY DEF TypeOK, RequestStates
    <3>3. /\ request'[q].stage = request[q].stage /\ request'[q].key = request[q].key
          /\ request'[q].waited = request[q].waited + 1
          /\ request'[q].entry = [request[q].entry EXCEPT !.left = Less(@)]
      BY <3>1, <3>2 DEF RequestStates
    <3>4. /\ request'[q].entry.version = request[q].entry.version
          /\ request'[q].entry.left = Less(request[q].entry.left)
      BY <3>2, <3>3 DEF Entries
    <3>5. /\ request[q].entry.version \in Versions /\ request[q].entry.left \in Nat
          /\ request[q].waited \in Nat /\ Ttl[request[q].key] \in Nat /\ Latency \in Nat
      BY EntryFacts, ConstantFacts
    <3>6. request'[q].entry.left > 0 =>
              /\ request[q].entry.left > 0
              /\ request'[q].entry.left = request[q].entry.left - 1
      BY <3>4, <3>5 DEF Less
    <3>7. CarriedYoung(request[q])
      BY DEF RequestsYoung
    <3>8. age'[request[q].entry.version] \in Nat /\ age[request[q].entry.version] \in Nat
          /\ age'[request[q].entry.version] <= age[request[q].entry.version] + 1
      BY <1>1, <3>5
    <3>9. CopyYoung(request[q].entry.version, request[q].entry.left, request[q].key)
              => CopyYoung(request[q].entry.version, request[q].entry.left, request[q].key)'
      BY <3>3, <3>4, <3>5, <3>6, <3>8 DEF CopyYoung
    <3>10. request'[q].stage = "found" =>
              age'[request'[q].entry.version]
                  < Ttl[request'[q].key] + Latency + request'[q].waited
      BY <3>3, <3>4, <3>5, <3>7, <3>8 DEF CarriedYoung
    <3>11. request'[q].stage \in {"rendered", "storing"} =>
              age'[request'[q].entry.version] <= request'[q].waited
      BY <3>3, <3>4, <3>5, <3>7, <3>8 DEF CarriedYoung
    <3> QED BY <3>3, <3>7, <3>9, <3>10, <3>11 DEF CarriedYoung
  <2> QED BY <2>1, <2>2
<1> QED BY <1>2, <1>3, <1>4, AgesAfterTick

\* What a request does keeps everything young.
LEMMA ProceedYoung ==
    ASSUME IInv, NEW q \in Requests, Proceed(q)
    PROVE  CurrentIsNew' /\ MemoryYoung' /\ RedisYoung' /\ RequestsYoung'
<1> USE DEF IInv
<1> DEFINE p == request[q].process
           k == request[q].key
           carried == request[q].entry
<1>0. /\ p \in Processes /\ k \in Keys /\ carried \in Entries
      /\ request[q].waited \in Nat /\ request[q].waited <= Latency
      /\ Ttl[k] \in Nat /\ Ttl[k] > 0 /\ Latency \in Nat /\ Latency > 0
      /\ carried.version \in Versions /\ carried.left \in Nat
      /\ age[carried.version] \in Nat
  BY EntryFacts, ConstantFacts DEF TypeOK, RequestStates
<1>1. UNCHANGED <<catalogue, age>> /\ CurrentIsNew'
  <2>1. UNCHANGED <<catalogue, age>>
    BY DEF Proceed, RedisAnswers, Found, Render, Keep, Store, NotCacheable, LookupFails, StoreFails
  <2> QED BY <2>1 DEF CurrentIsNew
<1>2. CarriedYoung(request[q])
  BY DEF RequestsYoung
<1>3. UNCHANGED local => MemoryYoung'
  BY <1>1 DEF MemoryYoung
<1>4. UNCHANGED remote => RedisYoung'
  BY <1>1 DEF RedisYoung, CopyYoung
<1>5. CASE RedisAnswers(q)
  <2>1. UNCHANGED <<local, remote>>
    BY <1>5 DEF RedisAnswers
  <2>2. CASE Held(remote[k])
    <3>1. request' = [request EXCEPT ![q].stage = "found",
             ![q].entry = [version |-> remote[k].version, left |-> remote[k].left]]
      BY <1>5, <2>2 DEF RedisAnswers
    <3>2. /\ request'[q].stage = "found" /\ request'[q].key = k
          /\ request'[q].waited = request[q].waited
          /\ request'[q].entry = [version |-> remote[k].version, left |-> remote[k].left]
          /\ \A x \in Requests \ {q} : request'[x] = request[x]
      BY <3>1 DEF TypeOK, RequestStates
    <3>3. /\ age[remote[k].version] + remote[k].ttl <= Ttl[k] + Latency
          /\ CopyYoung(remote[k].version, remote[k].left, k)
      BY <1>0, <2>2 DEF RedisYoung
    <3>4. /\ remote[k].ttl \in Nat /\ remote[k].ttl > 0 /\ age[remote[k].version] \in Nat
      BY <1>0, <2>2, EntryFacts DEF Held
    <3>5. age[remote[k].version] < Ttl[k] + Latency + request[q].waited
      BY <1>0, <3>3, <3>4
    <3>6. CarriedYoung(request[q])'
      BY <1>1, <3>2, <3>3, <3>5 DEF CarriedYoung, CopyYoung
    <3> QED BY <1>1, <1>3, <1>4, <2>1, <3>2, <3>6, OneRequestYoung
  <2>3. CASE ~Held(remote[k])
    <3>1. request' = [request EXCEPT ![q].stage = "rendering"]
      BY <1>5, <2>3 DEF RedisAnswers, Step
    <3>2. request'[q].stage = "rendering" /\ \A x \in Requests \ {q} : request'[x] = request[x]
      BY <3>1 DEF TypeOK, RequestStates
    <3>3. CarriedYoung(request[q])'
      BY <3>2 DEF CarriedYoung
    <3> QED BY <1>1, <1>3, <1>4, <2>1, <3>2, <3>3, OneRequestYoung
  <2> QED BY <2>2, <2>3
<1>6. CASE Found(q)
  <2> DEFINE entry == [version |-> carried.version, left |-> Remaining(q)]
  <2>1. Put(p, k, entry) /\ UNCHANGED remote /\ Finish(q) /\ request[q].stage = "found"
    BY <1>6 DEF Found, KeepFound
  <2>2. /\ age[carried.version] < Ttl[k] + Latency + request[q].waited
        /\ carried.left > 0 => age[carried.version] + carried.left <= Ttl[k] + Latency
    BY <1>2, <2>1 DEF CarriedYoung, CopyYoung
  <2>3. entry \in Entries /\ entry.left = (IF carried.left > 0 THEN carried.left ELSE 1)
    BY <1>0 DEF Entries, Remaining
  <2>4. age[entry.version] + entry.left <= Ttl[k] + 2 * Latency
    BY <1>0, <2>2, <2>3
  <2>5. MemoryYoung'
    <3> HIDE DEF entry, p, k
    <3> QED BY <1>0, <1>1, <2>1, <2>3, <2>4, PutYoung
  <2> QED BY <1>1, <1>4, <2>1, <2>5, FinishYoung
<1>7. CASE Render(q)
  <2>1. UNCHANGED <<local, remote>>
    BY <1>7 DEF Render
  <2>2. /\ request'[q].stage = "rendered" /\ request'[q].entry.version = catalogue
        /\ request'[q].waited = request[q].waited
        /\ \A x \in Requests \ {q} : request'[x] = request[x]
    BY <1>0, <1>7 DEF Render, TypeOK, RequestStates, Entries
  <2>3. age[catalogue] = 0
    BY ConstantFacts DEF CurrentIsNew, TypeOK, Versions
  <2>4. CarriedYoung(request[q])'
    BY <1>0, <1>1, <2>2, <2>3 DEF CarriedYoung
  <2> QED BY <1>1, <1>3, <1>4, <2>1, <2>2, <2>4, OneRequestYoung
<1>8. CASE Keep(q)
  <2> DEFINE entry == [version |-> carried.version, left |-> Ttl[k]]
  <2>1. Put(p, k, entry) /\ UNCHANGED remote /\ request[q].stage = "rendered"
    BY <1>8 DEF Keep
  <2>2. age[carried.version] <= request[q].waited
    BY <1>2, <2>1 DEF CarriedYoung
  <2>3. /\ entry \in Entries /\ age[entry.version] + entry.left <= Ttl[k] + Latency
        /\ Ttl[k] + Latency <= Ttl[k] + 2 * Latency
    BY <1>0, <2>2 DEF Entries
  <2>4. MemoryYoung'
    <3>1. age[entry.version] + entry.left <= Ttl[k] + 2 * Latency
      BY <1>0, <2>3
    <3> HIDE DEF entry, p, k
    <3> QED BY <1>0, <1>1, <2>1, <2>3, <3>1, PutYoung
  <2>5. CASE redis[p]
    <3>1. request' = [request EXCEPT ![q].stage = "storing", ![q].entry = entry]
      BY <1>8, <2>5 DEF Keep
    <3>2. /\ request'[q].stage = "storing" /\ request'[q].entry = entry
          /\ request'[q].key = k /\ request'[q].waited = request[q].waited
          /\ \A x \in Requests \ {q} : request'[x] = request[x]
      BY <3>1 DEF TypeOK, RequestStates
    <3>3. CarriedYoung(request[q])'
      BY <1>1, <2>2, <2>3, <3>2 DEF CarriedYoung, CopyYoung
    <3> QED BY <1>1, <1>4, <2>1, <2>4, <3>2, <3>3, OneRequestYoung
  <2>6. CASE ~redis[p]
    <3>1. Finish(q)
      BY <1>8, <2>6 DEF Keep
    <3> QED BY <1>1, <1>4, <2>1, <2>4, <3>1, FinishYoung
  <2> QED BY <2>5, <2>6
<1>9. CASE Store(q)
  <2>1. Save(q) /\ Finish(q) /\ UNCHANGED local /\ request[q].stage = "storing"
    BY <1>9 DEF Store
  <2> QED BY <1>1, <1>2, <1>3, <2>1, SaveYoung, FinishYoung
<1>10. CASE NotCacheable(q)
  <2>1. Finish(q) /\ UNCHANGED <<local, remote>>
    BY <1>10 DEF NotCacheable
  <2> QED BY <1>1, <1>3, <1>4, <2>1, FinishYoung
<1>11. CASE LookupFails(q)
  <2>1. UNCHANGED <<local, remote>>
    BY <1>11 DEF LookupFails
  <2>2. request'[q].stage = "rendering" /\ \A x \in Requests \ {q} : request'[x] = request[x]
    BY <1>11 DEF LookupFails, TypeOK, RequestStates
  <2>3. CarriedYoung(request[q])'
    BY <2>2 DEF CarriedYoung
  <2> QED BY <1>1, <1>3, <1>4, <2>1, <2>2, <2>3, OneRequestYoung
<1>12. CASE StoreFails(q)
  <2>1. /\ Save(q) \/ UNCHANGED remote
        /\ Finish(q) /\ UNCHANGED local /\ request[q].stage = "storing"
    BY <1>12 DEF StoreFails
  <2> QED BY <1>1, <1>2, <1>3, <1>4, <2>1, SaveYoung, FinishYoung
<1> QED BY <1>5, <1>6, <1>7, <1>8, <1>9, <1>10, <1>11, <1>12 DEF Proceed

LEMMA YoungStep == IInv /\ [Next]_vars => (CurrentIsNew /\ MemoryYoung /\ RedisYoung /\ RequestsYoung)'
<1> SUFFICES ASSUME IInv, [Next]_vars
             PROVE  CurrentIsNew' /\ MemoryYoung' /\ RedisYoung' /\ RequestsYoung'
  OBVIOUS
<1> USE DEF IInv
<1>1. ASSUME NEW q \in Requests, NEW p \in Processes, NEW k \in Keys, Miss(q, p, k)
      PROVE  CurrentIsNew' /\ MemoryYoung' /\ RedisYoung' /\ RequestsYoung'
  <2>1. UNCHANGED <<catalogue, age, local, remote>>
    BY <1>1 DEF Miss
  <2>2. /\ request'[q].stage \in {"asking", "rendering"}
        /\ \A x \in Requests \ {q} : request'[x] = request[x]
    BY <1>1 DEF Miss, TypeOK
  <2>3. CarriedYoung(request[q])'
    BY <2>2 DEF CarriedYoung
  <2>4. RequestsYoung'
    BY <2>1, <2>2, <2>3, OneRequestYoung
  <2> QED BY <2>1, <2>4 DEF CurrentIsNew, MemoryYoung, RedisYoung, CopyYoung
<1>2. ASSUME NEW q \in Requests, Proceed(q)
      PROVE  CurrentIsNew' /\ MemoryYoung' /\ RedisYoung' /\ RequestsYoung'
  BY <1>2, ProceedYoung
<1>3. ASSUME NEW u \in Publishers, NEW p \in Processes, Publish(u, p)
      PROVE  CurrentIsNew' /\ MemoryYoung' /\ RedisYoung' /\ RequestsYoung'
  <2>1. UNCHANGED <<age, local, remote, request>> /\ catalogue' = catalogue + 1
    BY <1>3 DEF Publish
  <2>2. CurrentIsNew'
    BY <2>1, ConstantFacts DEF CurrentIsNew, TypeOK, Versions
  <2> QED BY <2>1, <2>2 DEF MemoryYoung, RedisYoung, RequestsYoung, CarriedYoung, CopyYoung
<1>4. ASSUME NEW u \in Publishers, Purge(u)
      PROVE  CurrentIsNew' /\ MemoryYoung' /\ RedisYoung' /\ RequestsYoung'
  <2>1. UNCHANGED <<catalogue, age, request>>
    BY <1>4 DEF Purge, Clear, ListTags, Delete, PurgeFails
  <2>2. UNCHANGED remote \/ Remove(u)
    BY <1>4 DEF Purge, Clear, ListTags, Delete, PurgeFails
  <2>3. RedisYoung'
    BY <2>1, <2>2, RemoveYoung DEF RedisYoung, CopyYoung
  <2>4. MemoryYoung'
    <3>1. CASE UNCHANGED local
      BY <2>1, <3>1 DEF MemoryYoung
    <3>2. CASE Clear(u)
      <4>1. \A x \in Processes, y \in Keys :
                local'[x][y] = local[x][y] \/ ~Live(local'[x][y])
        BY <3>2 DEF Clear, TypeOK, EmptyTier, NoEntry, Live
      <4> QED BY <2>1, <4>1 DEF MemoryYoung, Live
    <3> QED BY <1>4, <3>1, <3>2 DEF Purge, ListTags, Delete, PurgeFails
  <2> QED BY <2>1, <2>3, <2>4 DEF CurrentIsNew, RequestsYoung, CarriedYoung, CopyYoung
<1>5. ASSUME NEW p \in Processes, Restart(p)
      PROVE  CurrentIsNew' /\ MemoryYoung' /\ RedisYoung' /\ RequestsYoung'
  <2>1. UNCHANGED <<catalogue, age, remote>>
    BY <1>5 DEF Restart
  <2>2. MemoryYoung'
    <3>1. \A x \in Processes, y \in Keys :
              local'[x][y] = local[x][y] \/ ~Live(local'[x][y])
      <4>1. local' = [local EXCEPT ![p] = EmptyTier]
        BY <1>5 DEF Restart
      <4>2. \A y \in Keys : ~Live(EmptyTier[y])
        BY DEF EmptyTier, NoEntry, Live
      <4> QED BY <4>1, <4>2 DEF TypeOK
    <3> QED BY <2>1, <3>1 DEF MemoryYoung, Live
  <2>3. RequestsYoung'
    <3> SUFFICES ASSUME NEW q \in Requests PROVE CarriedYoung(request[q])'
      BY DEF RequestsYoung
    <3>1. request'[q] = request[q] \/ request'[q].stage = "idle"
      BY <1>5 DEF Restart, TypeOK, RequestStates
    <3> QED BY <2>1, <3>1 DEF RequestsYoung, CarriedYoung, CopyYoung
  <2> QED BY <2>1, <2>2, <2>3 DEF CurrentIsNew, RedisYoung, CopyYoung
<1>6. CASE Tick
  BY <1>6, TickYoung
<1>7. CASE UNCHANGED vars
  BY <1>7 DEF vars, CurrentIsNew, MemoryYoung, RedisYoung, RequestsYoung, CarriedYoung, CopyYoung
<1> QED BY <1>1, <1>2, <1>3, <1>4, <1>5, <1>6, <1>7 DEF Next

\* invalidation.py:3, "TTLs bound staleness", for every lifetime, latency, size and
\* number of processes: whatever is purged, lost or late, no process has in memory a
\* response that has been out of date for its lifetime and two latencies.
THEOREM Staleness == Spec => []StalenessBounded
<1>1. Init => IInv
  BY TypeInit, YoungInit DEF IInv
<1>2. IInv /\ [Next]_vars => IInv'
  <2> SUFFICES ASSUME IInv, [Next]_vars PROVE IInv'
    OBVIOUS
  <2>1. TypeOK' /\ (CurrentIsNew /\ MemoryYoung /\ RedisYoung /\ RequestsYoung)'
    BY TypeStep, YoungStep DEF IInv
  <2> QED BY <2>1 DEF IInv
<1>3. IInv => StalenessBounded
  <2> SUFFICES ASSUME IInv, NEW p \in Processes, NEW k \in Keys, Live(local[p][k])
               PROVE  age[local[p][k].version] < Ttl[k] + 2 * Latency
    BY DEF StalenessBounded
  <2>1. /\ local[p][k].version \in Versions /\ age[local[p][k].version] \in Nat
        /\ local[p][k].left \in Nat /\ Ttl[k] \in Nat /\ Latency \in Nat
    BY EntryFacts, ConstantFacts DEF IInv
  <2>2. age[local[p][k].version] + local[p][k].left <= Ttl[k] + 2 * Latency
    BY DEF IInv, MemoryYoung
  <2> QED BY <2>1, <2>2 DEF Live
<1> QED BY <1>1, <1>2, <1>3, PTL DEF Spec
================================================================================
