---------------------------- MODULE FeedSyncProofs -----------------------------
(* Theorems about FeedSync, for any number of repositories and of versions *)
EXTENDS FeedSync, FiniteSetTheorems, SequenceTheorems, TLAPS

FeedItems == [repo : Repos, slug : Slugs, version : Versions,
              pushed : 1 .. MaxVersion + 1, releases : SUBSET Versions]

--------------------------------------------------------------------------------
(* What a batch keeps *)

KeysOf(item) == {<<"app", item.repo>>, <<"slug", item.slug>>, <<"repo", item.repo>>}
KeySlug(k)   == IF k[1] = "slug" THEN k[2] ELSE slug[k[2]]

\* The keys of what is kept lead to it, and every key to an item of its slug.
Indexed(b) ==
    /\ b.kept \in Seq(FeedItems)
    /\ \A i \in DOMAIN b.kept :
          /\ b.kept[i].slug = slug[b.kept[i].repo]
          /\ \A k \in KeysOf(b.kept[i]) : k \in DOMAIN b.index /\ b.index[k] = i
    /\ \A k \in DOMAIN b.index :
          b.index[k] \in DOMAIN b.kept /\ b.kept[b.index[k]].slug = KeySlug(k)

\* Something of the item's slug is kept that is as fresh.
Covered(b, item) ==
    \E i \in DOMAIN b.kept : b.kept[i].slug = item.slug /\ b.kept[i].pushed >= item.pushed

LEMMA MinOfKnown ==
    ASSUME NEW S \in SUBSET (1 .. 3), S # {}
    PROVE  Min(S) \in S
<1>1. \E x \in S : \A y \in S : x =< y
  <2>1. CASE 1 \in S
    BY <2>1
  <2>2. CASE 1 \notin S /\ 2 \in S
    BY <2>2
  <2>3. CASE 1 \notin S /\ 2 \notin S
    <3>1. ASSUME NEW y \in S PROVE y = 3
      <4>1. y \in 1 .. 3 /\ y # 1 /\ y # 2
        BY <2>3
      <4> QED BY <4>1
    <3>2. 3 \in S
      BY <3>1
    <3> QED BY <3>1, <3>2
  <2> QED BY <2>1, <2>2, <2>3
<1> QED BY <1>1 DEF Min

LEMMA IdentityKeys ==
    ASSUME NEW item
    PROVE  /\ DOMAIN Identity(item) = 1 .. 3 /\ Range(Identity(item)) = KeysOf(item)
           /\ \A k \in 1 .. 3 : Identity(item)[k] \in KeysOf(item)
BY DEF Identity, Range, KeysOf

LEMMA KeySlugs ==
    ASSUME NEW item, item.slug = slug[item.repo], NEW k \in KeysOf(item)
    PROVE  KeySlug(k) = item.slug
BY DEF KeysOf, KeySlug

\* Two kept items of one slug are one.
LEMMA KeptDistinct ==
    ASSUME NEW b, Indexed(b), NEW i \in DOMAIN b.kept, NEW j \in DOMAIN b.kept,
           b.kept[i].slug = b.kept[j].slug
    PROVE  i = j
<1>1. <<"slug", b.kept[i].slug>> \in KeysOf(b.kept[i])
      /\ <<"slug", b.kept[j].slug>> \in KeysOf(b.kept[j])
  BY DEF KeysOf
<1> QED BY <1>1, ZenonT(40) DEF Indexed

LEMMA FresherIsNotOlder ==
    ASSUME NEW a \in FeedItems, NEW c \in FeedItems
    PROVE  IF IsFresher(a, c) THEN a.pushed >= c.pushed ELSE c.pushed >= a.pushed
<1>1. /\ a.pushed \in Nat /\ c.pushed \in Nat /\ a.pushed # NoTime /\ c.pushed # NoTime
  BY ParametersAssumption DEF FeedItems, NoTime
<1> QED BY <1>1 DEF IsFresher

\* An item without a known key is appended.
LEMMA AppendKeeps ==
    ASSUME NEW b, Indexed(b), NEW item \in FeedItems, item.slug = slug[item.repo],
           \A k \in KeysOf(item) : k \notin DOMAIN b.index,
           NEW c,
           c.kept = Append(b.kept, item),
           c.index = [k \in DOMAIN b.index \cup KeysOf(item) |->
                         IF k \in DOMAIN b.index THEN b.index[k] ELSE Len(b.kept) + 1]
    PROVE  /\ Indexed(c) /\ Covered(c, item) /\ Range(c.kept) \subseteq Range(b.kept) \cup {item}
           /\ \A other : Covered(b, other) => Covered(c, other)
<1> DEFINE slot == Len(b.kept) + 1
<1>1. /\ c.kept \in Seq(FeedItems) /\ Len(b.kept) \in Nat
      /\ DOMAIN b.kept = 1 .. Len(b.kept) /\ DOMAIN c.kept = 1 .. slot
      /\ slot \in DOMAIN c.kept /\ slot \notin DOMAIN b.kept /\ c.kept[slot] = item
      /\ \A i \in DOMAIN b.kept : i \in DOMAIN c.kept /\ c.kept[i] = b.kept[i]
      /\ \A i \in DOMAIN c.kept : i \in DOMAIN b.kept \/ i = slot
  BY AppendProperties DEF Indexed
<1> HIDE DEF slot
<1>2. DOMAIN c.index = DOMAIN b.index \cup KeysOf(item)
  OBVIOUS
<1>3. ASSUME NEW k \in DOMAIN b.index PROVE c.index[k] = b.index[k]
  BY <1>2
<1>4. ASSUME NEW k \in KeysOf(item) PROVE c.index[k] = slot
  BY <1>2 DEF slot
<1>5. ASSUME NEW i \in DOMAIN c.kept
      PROVE  /\ c.kept[i].slug = slug[c.kept[i].repo]
             /\ \A k \in KeysOf(c.kept[i]) : k \in DOMAIN c.index /\ c.index[k] = i
  BY <1>1, <1>2, <1>3, <1>4 DEF Indexed
<1>6. ASSUME NEW k \in DOMAIN c.index
      PROVE  c.index[k] \in DOMAIN c.kept /\ c.kept[c.index[k]].slug = KeySlug(k)
  <2>1. CASE k \in DOMAIN b.index
    BY <1>1, <1>3, <2>1 DEF Indexed
  <2>2. CASE k \in KeysOf(item)
    BY <1>1, <1>4, <2>2, KeySlugs
  <2> QED BY <1>2, <2>1, <2>2
<1>7. Indexed(c)
  BY <1>1, <1>5, <1>6 DEF Indexed
<1>8. item.pushed \in Nat
  BY ParametersAssumption DEF FeedItems
<1>9. Covered(c, item)
  BY <1>1, <1>8 DEF Covered
<1>10. \A other : Covered(b, other) => Covered(c, other)
  BY <1>1 DEF Covered
<1>11. Range(c.kept) \subseteq Range(b.kept) \cup {item}
  BY <1>1 DEF Range
<1> QED BY <1>7, <1>9, <1>10, <1>11

\* A fresher item takes the slot of the one with its slug.
LEMMA ReplaceKeeps ==
    ASSUME NEW b, Indexed(b), NEW item \in FeedItems, item.slug = slug[item.repo],
           NEW slot \in DOMAIN b.kept, b.kept[slot].slug = item.slug,
           item.pushed >= b.kept[slot].pushed,
           NEW c,
           c.kept = [b.kept EXCEPT ![slot] = item],
           c.index = [k \in DOMAIN b.index \cup KeysOf(item) |->
                         IF k \in KeysOf(item) THEN slot ELSE b.index[k]]
    PROVE  /\ Indexed(c) /\ Covered(c, item) /\ Range(c.kept) \subseteq Range(b.kept) \cup {item}
           /\ \A other \in FeedItems : Covered(b, other) => Covered(c, other)
<1>1. /\ c.kept \in Seq(FeedItems) /\ DOMAIN c.kept = DOMAIN b.kept /\ c.kept[slot] = item
      /\ \A i \in DOMAIN b.kept : i # slot => c.kept[i] = b.kept[i]
      /\ \A i \in DOMAIN b.kept : b.kept[i] \in FeedItems
  BY ExceptSeq, ElementOfSeq DEF Indexed
<1>2. DOMAIN c.index = DOMAIN b.index \cup KeysOf(item)
  OBVIOUS
<1>3. ASSUME NEW k \in DOMAIN b.index, k \notin KeysOf(item) PROVE c.index[k] = b.index[k]
  BY <1>2, <1>3
<1>4. ASSUME NEW k \in KeysOf(item) PROVE c.index[k] = slot
  BY <1>2
<1>5. ASSUME NEW i \in DOMAIN c.kept
      PROVE  /\ c.kept[i].slug = slug[c.kept[i].repo]
             /\ \A k \in KeysOf(c.kept[i]) : k \in DOMAIN c.index /\ c.index[k] = i
  <2>1. CASE i = slot
    BY <1>1, <1>2, <1>4, <2>1
  <2>2. CASE i # slot
    <3>1. c.kept[i] = b.kept[i] /\ c.kept[i].slug = slug[c.kept[i].repo]
      BY <1>1, <2>2 DEF Indexed
    <3>2. ASSUME NEW k \in KeysOf(b.kept[i]) PROVE k \notin KeysOf(item)
      <4>1. KeySlug(k) = b.kept[i].slug
        BY <1>1, <3>1, KeySlugs
      <4>2. k \in KeysOf(item) => KeySlug(k) = item.slug
        BY KeySlugs
      <4> QED BY <1>1, <2>2, <4>1, <4>2, KeptDistinct
    <3>3. ASSUME NEW k \in KeysOf(b.kept[i]) PROVE k \in DOMAIN c.index /\ c.index[k] = i
      <4>1. k \in DOMAIN b.index /\ b.index[k] = i
        BY <1>1 DEF Indexed
      <4> QED BY <1>2, <1>3, <3>2, <4>1
    <3> QED BY <3>1, <3>3
  <2> QED BY <2>1, <2>2
<1>6. ASSUME NEW k \in DOMAIN c.index
      PROVE  c.index[k] \in DOMAIN c.kept /\ c.kept[c.index[k]].slug = KeySlug(k)
  <2>1. CASE k \in KeysOf(item)
    BY <1>1, <1>4, <2>1, KeySlugs
  <2>2. CASE k \notin KeysOf(item)
    <3>1. /\ k \in DOMAIN b.index /\ c.index[k] = b.index[k]
          /\ b.index[k] \in DOMAIN b.kept /\ b.kept[b.index[k]].slug = KeySlug(k)
      BY <1>2, <1>3, <2>2 DEF Indexed
    <3> QED BY <1>1, <3>1
  <2> QED BY <2>1, <2>2
<1>7. Indexed(c)
  BY <1>1, <1>5, <1>6 DEF Indexed
<1>8. item.pushed \in Nat /\ b.kept[slot].pushed \in Nat
  BY <1>1, ParametersAssumption DEF FeedItems
<1>9. Covered(c, item)
  BY <1>1, <1>8 DEF Covered
<1>10. ASSUME NEW other \in FeedItems, Covered(b, other) PROVE Covered(c, other)
  <2>1. PICK i \in DOMAIN b.kept : b.kept[i].slug = other.slug /\ b.kept[i].pushed >= other.pushed
    BY <1>10 DEF Covered
  <2>2. other.pushed \in Nat
    BY ParametersAssumption DEF FeedItems
  <2>3. CASE i = slot
    <3>1. item.pushed >= other.pushed
      BY <1>8, <2>1, <2>2, <2>3
    <3> QED BY <1>1, <2>1, <2>3, <3>1 DEF Covered
  <2>4. CASE i # slot
    BY <1>1, <2>1, <2>4 DEF Covered
  <2> QED BY <2>3, <2>4
<1>11. Range(c.kept) \subseteq Range(b.kept) \cup {item}
  BY <1>1 DEF Range
<1> QED BY <1>7, <1>9, <1>10, <1>11

\* However an item is placed, the batch stays indexed and covers what it covered.
LEMMA PlaceKeeps ==
    ASSUME NEW b, Indexed(b), NEW item \in FeedItems, item.slug = slug[item.repo]
    PROVE  LET c == PlaceItem(b, item)
           IN  /\ Indexed(c) /\ Covered(c, item)
               /\ Range(c.kept) \subseteq Range(b.kept) \cup {item}
               /\ \A other \in FeedItems : Covered(b, other) => Covered(c, other)
<1> DEFINE keys  == Identity(item)
           known == {k \in DOMAIN keys : keys[k] \in DOMAIN b.index}
           c     == PlaceItem(b, item)
<1>1. CASE known = {}
  <2>1. \A k \in KeysOf(item) : k \notin DOMAIN b.index
    BY <1>1 DEF Identity, KeysOf
  <2>2. c = [kept  |-> Append(b.kept, item),
             index |-> [k \in DOMAIN b.index \cup KeysOf(item) |->
                           IF k \in DOMAIN b.index THEN b.index[k] ELSE Len(b.kept) + 1]]
    BY <1>1, IdentityKeys, Zenon DEF PlaceItem
  <2> HIDE DEF c
  <2>3. /\ c.kept = Append(b.kept, item)
        /\ c.index = [k \in DOMAIN b.index \cup KeysOf(item) |->
                         IF k \in DOMAIN b.index THEN b.index[k] ELSE Len(b.kept) + 1]
    BY <2>2, Zenon
  <2>4. /\ Indexed(c) /\ Covered(c, item) /\ Range(c.kept) \subseteq Range(b.kept) \cup {item}
        /\ \A other : Covered(b, other) => Covered(c, other)
    BY <2>1, <2>3, AppendKeeps
  <2> QED BY <2>4, Zenon DEF c
<1>2. CASE known # {}
  <2> DEFINE slot == b.index[keys[Min(known)]]
  <2>1. keys[Min(known)] \in KeysOf(item) /\ keys[Min(known)] \in DOMAIN b.index
    <3>1. Min(known) \in known
      BY <1>2, IdentityKeys, MinOfKnown
    <3> QED BY <3>1, IdentityKeys
  <2>2. slot \in DOMAIN b.kept /\ b.kept[slot].slug = item.slug
    BY <2>1, KeySlugs DEF Indexed
  <2>3. b.kept[slot] \in FeedItems
    <3>1. b.kept \in Seq(FeedItems)
      BY DEF Indexed
    <3> HIDE DEF slot
    <3> QED BY <2>2, <3>1, ElementOfSeq
  <2>4. c = IF IsFresher(item, b.kept[slot])
            THEN [kept  |-> [b.kept EXCEPT ![slot] = item],
                  index |-> [k \in DOMAIN b.index \cup KeysOf(item) |->
                                IF k \in KeysOf(item) THEN slot ELSE b.index[k]]]
            ELSE b
    BY <1>2, IdentityKeys, Zenon DEF PlaceItem
  <2> HIDE DEF c, slot
  <2>5. CASE IsFresher(item, b.kept[slot])
    <3>1. /\ c.kept = [b.kept EXCEPT ![slot] = item]
          /\ c.index = [k \in DOMAIN b.index \cup KeysOf(item) |->
                           IF k \in KeysOf(item) THEN slot ELSE b.index[k]]
      BY <2>4, <2>5, Zenon
    <3>2. item.pushed >= b.kept[slot].pushed
      BY <2>3, <2>5, FresherIsNotOlder
    <3>3. /\ Indexed(c) /\ Covered(c, item) /\ Range(c.kept) \subseteq Range(b.kept) \cup {item}
          /\ \A other \in FeedItems : Covered(b, other) => Covered(c, other)
      BY <2>2, <3>1, <3>2, ReplaceKeeps
    <3> QED BY <3>3, Zenon DEF c
  <2>6. CASE ~IsFresher(item, b.kept[slot])
    <3>1. c = b
      BY <2>4, <2>6
    <3>2. b.kept[slot].pushed >= item.pushed
      BY <2>3, <2>6, FresherIsNotOlder
    <3>3. Covered(b, item)
      BY <2>2, <3>2 DEF Covered
    <3>4. /\ Indexed(c) /\ Covered(c, item) /\ Range(c.kept) \subseteq Range(b.kept) \cup {item}
          /\ \A other \in FeedItems : Covered(b, other) => Covered(c, other)
      BY <3>1, <3>3
    <3> QED BY <3>4, Zenon DEF c
  <2> QED BY <2>5, <2>6
<1> QED BY <1>1, <1>2

LEMMA NoBatchIndexed == Indexed(NoBatch) /\ Range(NoBatch.kept) = {}
BY DEF Indexed, NoBatch, Range

\* Items share an identity key when they share the slug.
LEMMA SameAppSameSlug ==
    ASSUME NEW a, NEW c, a.slug = slug[a.repo], c.slug = slug[c.repo]
    PROVE  SameApp(a, c) <=> a.slug = c.slug
<1>1. SameApp(a, c) <=> KeysOf(a) \cap KeysOf(c) # {}
  BY IdentityKeys DEF SameApp
<1>2. ASSUME a.slug = c.slug PROVE KeysOf(a) \cap KeysOf(c) # {}
  <2>1. <<"slug", a.slug>> \in KeysOf(a) /\ <<"slug", c.slug>> \in KeysOf(c)
    BY DEF KeysOf
  <2> QED BY <1>2, <2>1
<1>3. ASSUME NEW k \in KeysOf(a), k \in KeysOf(c) PROVE a.slug = c.slug
  BY <1>3, KeySlugs
<1> QED BY <1>1, <1>2, <1>3

--------------------------------------------------------------------------------
(* Types *)

CheckpointTables == [Repos -> [Keys -> Seq(Versions)]]

\* What is kept of a batch came with it, and covers all of it.
BatchInv ==
    /\ Indexed(batch)
    /\ Range(Kept) \subseteq items
    /\ \A item \in items : /\ item.slug = slug[item.repo]
                           /\ item.pushed = item.version + lead[item.repo]
                           /\ Covered(batch, item)

\* While a payload is looked at, there is one, and the turn is not over.
PayloadThere ==
    stage = "payload" => current \in Repos /\ payload \in Versions /\ turns[current] > 0

Typed ==
    /\ version \in [Repos -> Versions] /\ released \in [Repos -> SUBSET Versions]
    /\ slug \in [Repos -> Slugs] /\ lead \in [Repos -> 0 .. 1]
    /\ states \in CheckpointTables /\ seen \in CheckpointTables
    /\ pending \in [Repos -> Seq(Versions)]
    /\ stage \in Stages /\ turns \in [Repos -> 0 .. 2] /\ key \in [Repos -> Keys]
    /\ current \in Repos \cup {NoRepo} /\ payload \in 0 .. MaxVersion
    /\ items \subseteq FeedItems
    /\ firsts \in [Repos -> SUBSET Versions] /\ got \in [Repos -> SUBSET Versions]
    /\ lost \in 0 .. MaxLost
    /\ PayloadThere

LEMMA KeysCount ==
    /\ Cardinality(Keys) = 2
    /\ \A S \in SUBSET Keys : Cardinality(S) \in 0 .. 2
<1>1. IsFiniteSet(Keys) /\ Cardinality(Keys) = 2
  <2>1. IsFiniteSet({"feed"}) /\ Cardinality({"feed"}) = 1
    BY FS_Singleton
  <2>2. /\ IsFiniteSet({"feed"} \cup {"found"})
        /\ Cardinality({"feed"} \cup {"found"}) = Cardinality({"feed"}) + 1
    BY <2>1, FS_AddElement
  <2>3. Keys = {"feed"} \cup {"found"}
    BY DEF Keys
  <2> QED BY <2>1, <2>2, <2>3
<1>2. ASSUME NEW S \in SUBSET Keys PROVE Cardinality(S) \in 0 .. 2
  <2>1. IsFiniteSet(S) /\ Cardinality(S) <= Cardinality(Keys)
    BY <1>1, FS_Subset
  <2>2. Cardinality(S) \in Nat
    BY <2>1, FS_CardinalityType
  <2> QED BY <1>1, <2>1, <2>2
<1> QED BY <1>1, <1>2

LEMMA EmptyTables ==
    NoStates \in CheckpointTables /\ NoRows \in [Repos -> Seq(Versions)]
BY DEF NoStates, NoRows, CheckpointTables

RowsOf(table, r) == UNION {Range(table[r][k]) : k \in Keys}

LEMMA ConcatRange ==
    ASSUME NEW S, NEW s \in Seq(S), NEW t \in Seq(S)
    PROVE  s \o t \in Seq(S) /\ Range(s \o t) \subseteq Range(s) \cup Range(t)
<1>1. /\ s \o t \in Seq(S) /\ Len(s) \in Nat /\ Len(t) \in Nat
      /\ DOMAIN s = 1 .. Len(s) /\ DOMAIN t = 1 .. Len(t)
      /\ DOMAIN (s \o t) = 1 .. Len(s) + Len(t)
  OBVIOUS
<1>2. ASSUME NEW i \in DOMAIN (s \o t) PROVE (s \o t)[i] \in Range(s) \cup Range(t)
  <2>1. CASE i <= Len(s)
    <3>1. i \in DOMAIN s /\ (s \o t)[i] = s[i]
      BY <1>1, <2>1
    <3> QED BY <3>1 DEF Range
  <2>2. CASE i > Len(s)
    <3>1. i - Len(s) \in DOMAIN t /\ (s \o t)[i] = t[i - Len(s)]
      BY <1>1, <2>2
    <3> QED BY <3>1 DEF Range
  <2> QED BY <1>1, <2>1, <2>2
<1> QED BY <1>1, <1>2 DEF Range

\* A flush adds the pending rows to what the session sees.
LEMMA FlushedFacts ==
    ASSUME Typed, NEW table \in CheckpointTables
    PROVE  /\ Flushed(table) \in CheckpointTables
           /\ \A r \in Repos : RowsOf(Flushed(table), r) \subseteq RowsOf(table, r) \cup Range(pending[r])
<1>1. ASSUME NEW r \in Repos
      PROVE  /\ Flushed(table)[r] = [table[r] EXCEPT ![key[r]] = @ \o pending[r]]
             /\ table[r] \in [Keys -> Seq(Versions)] /\ key[r] \in Keys
             /\ pending[r] \in Seq(Versions)
  BY DEF Flushed, Typed, CheckpointTables
<1>2. ASSUME NEW r \in Repos, NEW k \in Keys
      PROVE  /\ Flushed(table)[r][k] \in Seq(Versions)
             /\ Range(Flushed(table)[r][k]) \subseteq Range(table[r][k]) \cup Range(pending[r])
  <2>1. table[r][k] \in Seq(Versions)
    BY <1>1
  <2>2. CASE k = key[r]
    <3>1. Flushed(table)[r][k] = table[r][k] \o pending[r]
      BY <1>1, <2>2
    <3>2. pending[r] \in Seq(Versions)
      BY <1>1
    <3>3. /\ table[r][k] \o pending[r] \in Seq(Versions)
          /\ Range(table[r][k] \o pending[r]) \subseteq Range(table[r][k]) \cup Range(pending[r])
      BY <2>1, <3>2, ConcatRange
    <3> QED BY <3>1, <3>3, Zenon
  <2>3. CASE k # key[r]
    <3>1. Flushed(table)[r][k] = table[r][k]
      BY <1>1, <2>3, ZenonT(40)
    <3> QED BY <2>1, <3>1
  <2> QED BY <2>2, <2>3
<1>3. ASSUME NEW r \in Repos PROVE Flushed(table)[r] \in [Keys -> Seq(Versions)]
  <2>1. Flushed(table)[r] = [k \in Keys |-> Flushed(table)[r][k]]
    BY <1>1
  <2> QED BY <1>2, <2>1
<1>4. Flushed(table) \in CheckpointTables
  <2>1. Flushed(table) = [r \in Repos |-> Flushed(table)[r]]
    BY DEF Flushed
  <2> QED BY <1>3, <2>1 DEF CheckpointTables
<1>5. ASSUME NEW r \in Repos, NEW row \in RowsOf(Flushed(table), r)
      PROVE  row \in RowsOf(table, r) \cup Range(pending[r])
  <2>1. PICK k \in Keys : row \in Range(Flushed(table)[r][k])
    BY DEF RowsOf
  <2> QED BY <1>2, <2>1 DEF RowsOf
<1> QED BY <1>4, <1>5

\* The session's view after row i of a repository was written
Written(c, i, row) == [seen EXCEPT ![c][key[c]][i] = row]

LEMMA WrittenType ==
    ASSUME Typed, NEW c \in Repos, NEW i \in DOMAIN Mine(c), NEW row \in Versions
    PROVE  Written(c, i, row) \in CheckpointTables
<1> DEFINE mine == [seen[c][key[c]] EXCEPT ![i] = row]
<1>1. /\ seen \in [Repos -> [Keys -> Seq(Versions)]] /\ key[c] \in Keys
      /\ seen[c][key[c]] \in Seq(Versions) /\ i \in DOMAIN seen[c][key[c]]
  BY DEF Typed, CheckpointTables, Mine
<1>2. mine \in Seq(Versions)
  BY <1>1, ExceptSeq
<1>3. Written(c, i, row) = [seen EXCEPT ![c] = [seen[c] EXCEPT ![key[c]] = mine]]
  BY <1>1 DEF Written
<1> HIDE DEF mine
<1> QED BY <1>1, <1>2, <1>3 DEF CheckpointTables

LEMMA KeptFacts ==
    ASSUME Typed, BatchInv
    PROVE  /\ Kept \in Seq(FeedItems)
           /\ \A i \in DOMAIN Kept : Kept[i] \in FeedItems /\ Kept[i] \in items /\ i \in Nat
<1>1. Kept \in Seq(FeedItems) /\ Indexed(batch)
  BY DEF BatchInv, Indexed, Kept
<1>2. \A i \in DOMAIN Kept : Kept[i] \in FeedItems /\ Kept[i] \in items /\ i \in Nat
  BY <1>1, ElementOfSeq DEF BatchInv, Range
<1> QED BY <1>1, <1>2

LEMMA CloseTyped ==
    ASSUME Typed, CloseSession, UNCHANGED <<upstream, firsts>>,
           states' \in CheckpointTables, got' \in [Repos -> SUBSET Versions],
           lost' \in 0 .. MaxLost
    PROVE  Typed' /\ BatchInv'
<1>1. /\ seen' \in CheckpointTables /\ pending' \in [Repos -> Seq(Versions)]
      /\ turns' \in [Repos -> 0 .. 2] /\ key' \in [Repos -> Keys]
      /\ current' \in Repos \cup {NoRepo} /\ payload' \in 0 .. MaxVersion
      /\ stage' = "idle" /\ stage' \in Stages /\ items' = {} /\ batch' = NoBatch
  BY EmptyTables, ParametersAssumption DEF CloseSession, Stages, Keys
<1>2. UNCHANGED <<version, released, slug, lead, firsts>>
  BY DEF upstream
<1>3. PayloadThere'
  BY <1>1 DEF PayloadThere
<1>4. Typed'
  BY <1>1, <1>2, <1>3 DEF Typed
<1>5. BatchInv'
  BY <1>1 DEF BatchInv, Kept, Indexed, NoBatch, Range
<1> QED BY <1>4, <1>5

LEMMA InitTyped == Init => Typed /\ BatchInv
<1> SUFFICES ASSUME Init PROVE Typed /\ BatchInv
  OBVIOUS
<1>1. 1 \in Versions /\ 0 \in 0 .. MaxVersion /\ 0 \in 0 .. MaxLost
  BY ParametersAssumption DEF Versions
<1>2. firsts \in [Repos -> SUBSET Versions] /\ got \in [Repos -> SUBSET Versions]
  BY DEF Init
<1>4. PayloadThere
  BY DEF Init, PayloadThere
<1>5. /\ version \in [Repos -> Versions] /\ released \in [Repos -> SUBSET Versions]
      /\ slug \in [Repos -> Slugs] /\ lead \in [Repos -> 0 .. 1]
      /\ states \in CheckpointTables /\ seen \in CheckpointTables
      /\ pending \in [Repos -> Seq(Versions)]
  BY <1>1, EmptyTables DEF Init
<1>6. /\ stage \in Stages /\ turns \in [Repos -> 0 .. 2] /\ key \in [Repos -> Keys]
      /\ current \in Repos \cup {NoRepo} /\ payload \in 0 .. MaxVersion /\ items \subseteq FeedItems
      /\ lost \in 0 .. MaxLost
  BY <1>1 DEF Init, Stages, Keys
<1>7. Typed
  BY <1>2, <1>4, <1>5, <1>6, Zenon DEF Typed
<1>8. BatchInv
  BY DEF Init, BatchInv, Kept, Indexed, NoBatch, Range
<1> QED BY <1>7, <1>8

\* The end of a turn is that of the current repository.
LEMMA FinishTurnFacts ==
    ASSUME Typed, stage = "payload", FinishTurn
    PROVE  /\ stage' = "list" /\ stage' \in Stages /\ turns' \in [Repos -> 0 .. 2]
           /\ current' \in Repos \cup {NoRepo} /\ payload' \in 0 .. MaxVersion /\ PayloadThere'
<1>1. current \in Repos /\ turns[current] > 0 /\ turns \in [Repos -> 0 .. 2]
  BY DEF Typed, PayloadThere
<1>2. turns' \in [Repos -> 0 .. 2]
  BY <1>1 DEF FinishTurn, EndTurn
<1> QED BY <1>2, ParametersAssumption DEF FinishTurn, Stages, PayloadThere

LEMMA ItemFacts ==
    ASSUME Typed, stage = "payload"
    PROVE  /\ Item \in FeedItems /\ Item.repo = current /\ Item.slug = slug[current]
           /\ Item.version = payload /\ Item.pushed = payload + lead[current]
           /\ Item.releases = released[current]
<1>1. /\ current \in Repos /\ payload \in Versions /\ lead[current] \in 0 .. 1
      /\ slug[current] \in Slugs /\ released[current] \subseteq Versions
  BY DEF Typed, PayloadThere
<1>2. payload + lead[current] \in 1 .. MaxVersion + 1
  BY <1>1, ParametersAssumption DEF Versions
<1> QED BY <1>1, <1>2 DEF Item, FeedItems

LEMMA NextTyped ==
    ASSUME Typed, BatchInv, [Next]_vars
    PROVE  Typed'
<1> USE DEF upstream, history
<1>1. CASE UNCHANGED vars
  BY <1>1 DEF vars, Typed, PayloadThere
<1>2. ASSUME NEW r \in Repos, Push(r) PROVE Typed'
  <2>1. version' \in [Repos -> Versions]
    BY <1>2, ParametersAssumption, SMTT(30) DEF Push, Typed, Versions
  <2>2. released' \in [Repos -> SUBSET Versions]
    <3>1. released \in [Repos -> SUBSET Versions] /\ version[r] + 1 \in Versions
      BY <1>2, ParametersAssumption, SMTT(30) DEF Push, Typed, Versions
    <3>2. PICK now \in {released[r], released[r] \cup {version[r] + 1}, {}} :
             released' = [released EXCEPT ![r] = now]
      BY <1>2 DEF Push
    <3>3. now \in SUBSET Versions
      BY <3>1, <3>2
    <3> QED BY <3>1, <3>2, <3>3
  <2>3. UNCHANGED <<slug, lead, states, stage, turns, key, current, payload, seen,
                   pending, items, batch, firsts, got, lost>>
    BY <1>2 DEF Push
  <2> QED BY <2>1, <2>2, <2>3 DEF Typed, PayloadThere
<1>3. CASE StartRun
  <2>1. turns' \in [Repos -> 0 .. 2]
    <3>1. \A r \in Repos : Known[r] \in SUBSET Keys
      BY ParametersAssumption
    <3> QED BY <1>3, <3>1, KeysCount DEF StartRun
  <2>2. /\ key' \in [Repos -> Keys] /\ seen' \in CheckpointTables /\ stage' \in Stages
        /\ PayloadThere'
    BY <1>3 DEF StartRun, Typed, Stages, PayloadThere
  <2>3. UNCHANGED <<version, released, slug, lead, states, current, payload, pending,
                   items, firsts, got, lost>>
    BY <1>3 DEF StartRun
  <2> QED BY <2>1, <2>2, <2>3 DEF Typed
<1>4. ASSUME NEW r \in Repos, NotModified(r) \/ FetchFails(r) PROVE Typed'
  <2>1. stage = "list" /\ turns' \in [Repos -> 0 .. 2] /\ lost' \in 0 .. MaxLost
    <3>1. stage = "list" /\ turns[r] > 0 /\ turns' = [turns EXCEPT ![r] = @ - 1]
      BY <1>4 DEF NotModified, FetchFails, EndTurn
    <3>2. turns' \in [Repos -> 0 .. 2]
      BY <3>1 DEF Typed
    <3>3. lost' = lost \/ (lost < MaxLost /\ lost' = lost + 1)
      BY <1>4 DEF NotModified, FetchFails
    <3>4. lost \in 0 .. MaxLost /\ MaxLost \in Nat
      BY ParametersAssumption DEF Typed
    <3>5. lost' \in 0 .. MaxLost
      BY <3>3, <3>4
    <3> QED BY <3>1, <3>2, <3>5
  <2>2. UNCHANGED <<version, released, slug, lead, states, stage, key, current, payload,
                   seen, pending, items, firsts, got>>
    BY <1>4 DEF NotModified, FetchFails
  <2> QED BY <2>1, <2>2 DEF Typed, PayloadThere
<1>5. ASSUME NEW r \in Repos, FetchRepository(r) PROVE Typed'
  <2>1. /\ stage' = "payload" /\ current' = r /\ payload' = version[r] /\ turns' = turns
        /\ turns[r] > 0
    BY <1>5 DEF FetchRepository
  <2>2. payload' \in Versions /\ payload' \in 0 .. MaxVersion /\ stage' \in Stages
    BY <2>1, ParametersAssumption DEF Typed, Versions, Stages
  <2>3. UNCHANGED <<version, released, slug, lead, states, turns, key, seen, pending,
                   items, firsts, got, lost>>
    BY <1>5 DEF FetchRepository
  <2> QED BY <2>1, <2>2, <2>3 DEF Typed, PayloadThere
<1>6. CASE RejectItem \/ ReleasesFail
  <2>1. stage = "payload" /\ FinishTurn /\ lost' \in 0 .. MaxLost
    BY <1>6, ParametersAssumption DEF RejectItem, ReleasesFail, Typed
  <2>2. UNCHANGED <<version, released, slug, lead, states, key, seen, pending, items,
                   firsts, got>>
    BY <1>6 DEF RejectItem, ReleasesFail
  <2> QED BY <2>1, <2>2, FinishTurnFacts DEF Typed
<1>7. CASE SaveCheckpoint
  <2>1. stage = "payload" /\ FinishTurn
    BY <1>7 DEF SaveCheckpoint
  <2>2. seen' \in CheckpointTables
    <3>1. current \in Repos /\ payload \in Versions
      BY <2>1 DEF Typed, PayloadThere, Versions
    <3>2. PICK i \in DOMAIN Mine(current) :
             seen' = Flushed(Written(current, i, payload))
      BY <1>7, Zenon DEF SaveCheckpoint, Written
    <3>3. Written(current, i, payload) \in CheckpointTables
      BY <3>1, WrittenType
    <3> QED BY <3>2, <3>3, FlushedFacts
  <2>3. pending' \in [Repos -> Seq(Versions)] /\ items' \subseteq FeedItems
    BY <1>7, <2>1, EmptyTables, ItemFacts DEF SaveCheckpoint, Typed
  <2>4. UNCHANGED <<version, released, slug, lead, states, key, firsts, got, lost>>
    BY <1>7 DEF SaveCheckpoint
  <2> QED BY <2>1, <2>2, <2>3, <2>4, FinishTurnFacts DEF Typed
<1>8. CASE FirstCheckpoint
  <2>1. stage = "payload" /\ FinishTurn
    BY <1>8 DEF FirstCheckpoint
  <2>2. pending' \in [Repos -> Seq(Versions)]
    <3>1. /\ current \in Repos /\ payload \in Versions
          /\ pending \in [Repos -> Seq(Versions)]
      BY <2>1 DEF Typed, PayloadThere, Versions
    <3>2. Append(pending[current], payload) \in Seq(Versions)
      BY <3>1
    <3> QED BY <1>8, <3>1, <3>2 DEF FirstCheckpoint
  <2>3. UNCHANGED <<version, released, slug, lead, states, key, seen, items, got, lost>>
    BY <1>8 DEF FirstCheckpoint
  <2>4. firsts' \in [Repos -> SUBSET Versions]
    <3>1. current \in Repos /\ payload \in Versions /\ firsts \in [Repos -> SUBSET Versions]
      BY <2>1 DEF Typed, PayloadThere
    <3> QED BY <1>8, <3>1 DEF FirstCheckpoint
  <2> QED BY <2>1, <2>2, <2>3, <2>4, FinishTurnFacts DEF Typed
<1>9. CASE FinishEmpty \/ Publish \/ Crash
  <2>1. /\ CloseSession /\ UNCHANGED <<version, released, slug, lead, firsts>>
        /\ states' = states \/ states' = Flushed(seen)
    BY <1>9 DEF FinishEmpty, Publish, Crash
  <2>2. states' \in CheckpointTables
    BY <2>1, FlushedFacts DEF Typed
  <2>3. lost' \in 0 .. MaxLost
    BY <1>9, ParametersAssumption DEF FinishEmpty, Publish, Crash, Typed
  <2>4. got' \in [Repos -> SUBSET Versions]
    <3>1. \A r \in Repos : Fetched(r) \subseteq Versions
      BY DEF Fetched, Typed, FeedItems
    <3>2. Handed \in [Repos -> SUBSET Versions]
      BY <3>1 DEF Handed, Typed
    <3> QED BY <1>9, <3>2 DEF FinishEmpty, Publish, Crash, Typed
  <2> QED BY <2>1, <2>2, <2>3, <2>4, CloseTyped
<1> QED
  BY <1>1, <1>2, <1>3, <1>4, <1>5, <1>6, <1>7, <1>8, <1>9, Zenon
  DEF Next, Work, Environment

LEMMA NextBatch ==
    ASSUME Typed, BatchInv, [Next]_vars
    PROVE  BatchInv'
<1> USE DEF upstream, history
<1>1. ASSUME UNCHANGED <<slug, lead, items, batch>> PROVE BatchInv'
  BY <1>1 DEF BatchInv, Kept, Indexed, Covered, KeySlug
<1>2. CASE \/ UNCHANGED vars \/ StartRun
           \/ \E r \in Repos : Push(r) \/ NotModified(r) \/ FetchFails(r) \/ FetchRepository(r)
  <2>1. UNCHANGED <<slug, lead, items, batch>>
    BY <1>2 DEF vars, StartRun, Push, NotModified, FetchFails, FetchRepository
  <2> QED BY <1>1, <2>1
<1>3. CASE RejectItem \/ ReleasesFail \/ FirstCheckpoint
  <2>1. UNCHANGED <<slug, lead, items, batch>>
    BY <1>3 DEF RejectItem, ReleasesFail, FirstCheckpoint
  <2> QED BY <1>1, <2>1
<1>4. CASE SaveCheckpoint
  <2>1. /\ UNCHANGED <<slug, lead>> /\ items' = items \cup {Item} /\ stage = "payload"
        /\ batch' = PlaceItem(batch, Item)
    BY <1>4 DEF SaveCheckpoint
  <2>2. Item \in FeedItems /\ Item.slug = slug[Item.repo] /\ Item.pushed = Item.version + lead[Item.repo]
    BY <2>1, ItemFacts
  <2>3. /\ Indexed(batch') /\ Covered(batch', Item) /\ Range(batch'.kept) \subseteq Range(Kept) \cup {Item}
        /\ \A other \in FeedItems : Covered(batch, other) => Covered(batch', other)
    BY <2>1, <2>2, PlaceKeeps DEF BatchInv, Kept
  <2>4. Indexed(batch)'
    BY <2>1, <2>3 DEF Indexed, KeySlug
  <2>5. ASSUME NEW item \in items'
        PROVE  /\ item.slug = slug[item.repo] /\ item.pushed = item.version + lead[item.repo]
               /\ Covered(batch', item)
    BY <2>1, <2>2, <2>3 DEF BatchInv, Typed
  <2>6. \A item \in items' : Covered(batch, item)'
    BY <2>5 DEF Covered
  <2> QED BY <2>1, <2>3, <2>4, <2>5, <2>6 DEF BatchInv, Kept
<1>5. CASE FinishEmpty \/ Publish \/ Crash
  <2>1. items' = {} /\ batch' = NoBatch
    BY <1>5 DEF FinishEmpty, Publish, Crash, CloseSession
  <2> QED BY <2>1 DEF BatchInv, Kept, Indexed, NoBatch, Range
<1> QED BY <1>2, <1>3, <1>4, <1>5, Zenon DEF Next, Work, Environment

LEMMA TypedIsTypeOK == ASSUME Typed, BatchInv PROVE TypeOK
<1>1. ASSUME NEW r \in Repos
      PROVE  /\ Range(pending[r]) \subseteq Versions
             /\ \A k \in Keys : Range(states[r][k]) \cup Range(seen[r][k]) \subseteq Versions
  <2>1. \A q \in Seq(Versions) : Range(q) \subseteq Versions
    BY ElementOfSeq DEF Range
  <2>2. /\ pending[r] \in Seq(Versions)
        /\ \A k \in Keys : states[r][k] \in Seq(Versions) /\ seen[r][k] \in Seq(Versions)
    BY DEF Typed, CheckpointTables
  <2> QED BY <2>1, <2>2
<1>2. items \cup Range(Kept) \subseteq FeedItems
  BY DEF Typed, BatchInv
<1>3. turns \in [Repos -> 0 .. Cardinality(Keys)]
  BY KeysCount DEF Typed
<1> QED BY <1>1, <1>2, <1>3 DEF TypeOK, Typed, FeedItems

\* Checkpoints, items and session state stay within their types, and a repository has
\* a turn left while its payload is looked at (feed_sync/pipeline.py).
THEOREM TypeCorrect == Spec => []TypeOK
<1>1. Typed /\ BatchInv /\ [Next]_vars => Typed' /\ BatchInv'
  BY NextTyped, NextBatch
<1>2. Typed /\ BatchInv => TypeOK
  BY TypedIsTypeOK
<1> QED BY InitTyped, <1>1, <1>2, PTL DEF Spec

\* deduplicate_batch keeps one item per application, the freshest, in whatever order they
\* came (feed_deduplicator.py).
THEOREM BatchFreshest == Spec => []BatchKeepsFreshest
<1>1. Typed /\ BatchInv /\ [Next]_vars => Typed' /\ BatchInv'
  BY NextTyped, NextBatch
<1>2. ASSUME Typed, BatchInv PROVE BatchKeepsFreshest
  <2>1. \A i \in DOMAIN Kept : Kept[i] \in items
    BY <1>2, KeptFacts
  <2>2. \A item \in items : item.slug = slug[item.repo]
    BY <1>2 DEF BatchInv
  <2>3. ASSUME NEW i \in DOMAIN Kept, NEW j \in DOMAIN Kept, i # j
        PROVE  ~SameApp(Kept[i], Kept[j])
    <3>1. Kept[i].slug # Kept[j].slug
      BY <1>2, <2>3, KeptDistinct DEF BatchInv, Kept
    <3> QED BY <2>1, <2>2, <3>1, SameAppSameSlug
  <2>4. ASSUME NEW item \in items
        PROVE  \E i \in DOMAIN Kept : SameApp(item, Kept[i]) /\ Kept[i].pushed >= item.pushed
    <3>1. PICK i \in DOMAIN Kept : Kept[i].slug = item.slug /\ Kept[i].pushed >= item.pushed
      BY <1>2 DEF BatchInv, Covered, Kept
    <3>2. SameApp(item, Kept[i])
      BY <2>1, <2>2, <3>1, SameAppSameSlug
    <3> QED BY <3>1, <3>2
  <2> QED BY <2>3, <2>4 DEF BatchKeepsFreshest
<1> QED BY InitTyped, <1>1, <1>2, PTL DEF Spec
--------------------------------------------------------------------------------
(* What a committed checkpoint stands for *)

\* Rows that a flush adds are those whose first save raised; what a session sees is what
\* is committed, and such rows, until it has an item.
HonestInv ==
    \A r \in Repos : /\ RowsOf(states, r) \cup Range(pending[r]) \subseteq firsts[r]
                     /\ items = {} => RowsOf(seen, r) \subseteq firsts[r]

LEMMA InitHonest == Init => HonestInv
<1> SUFFICES ASSUME Init PROVE HonestInv
  OBVIOUS
<1>1. states = NoStates /\ seen = NoStates /\ pending = NoRows
  BY DEF Init
<1>2. \A r \in Repos : RowsOf(states, r) = {} /\ RowsOf(seen, r) = {} /\ Range(pending[r]) = {}
  BY <1>1 DEF NoStates, NoRows, RowsOf, Range, Keys
<1> QED BY <1>2 DEF HonestInv

LEMMA NextHonest ==
    ASSUME Typed, HonestInv, [Next]_vars
    PROVE  HonestInv'
<1> USE DEF upstream, history
<1>1. ASSUME UNCHANGED <<states, seen, pending, items, firsts>> PROVE HonestInv'
  BY <1>1 DEF HonestInv, RowsOf
<1>2. CASE \/ UNCHANGED vars \/ RejectItem \/ ReleasesFail
           \/ \E r \in Repos : Push(r) \/ NotModified(r) \/ FetchFails(r) \/ FetchRepository(r)
  <2>1. UNCHANGED <<states, seen, pending, items, firsts>>
    BY <1>2 DEF vars, RejectItem, ReleasesFail, Push, NotModified, FetchFails, FetchRepository
  <2> QED BY <1>1, <2>1
<1>3. CASE StartRun
  <2>1. seen' = states /\ UNCHANGED <<states, pending, firsts>>
    BY <1>3 DEF StartRun
  <2> QED BY <2>1 DEF HonestInv, RowsOf
<1>4. CASE SaveCheckpoint
  <2>1. /\ UNCHANGED <<states, firsts>> /\ pending' = NoRows /\ Item \in items'
    BY <1>4 DEF SaveCheckpoint
  <2>2. \A r \in Repos : Range(pending'[r]) = {}
    BY <2>1 DEF NoRows, Range
  <2>3. items' # {} /\ \A r \in Repos : RowsOf(states', r) = RowsOf(states, r)
    BY <2>1
  <2> QED BY <2>1, <2>2, <2>3 DEF HonestInv
<1>5. CASE FirstCheckpoint
  <2>1. /\ UNCHANGED <<states, seen, items>> /\ stage = "payload"
        /\ pending' = [pending EXCEPT ![current] = Append(@, payload)]
        /\ firsts' = [firsts EXCEPT ![current] = @ \cup {payload}]
    BY <1>5 DEF FirstCheckpoint
  <2>2. /\ current \in Repos /\ payload \in Versions
        /\ pending \in [Repos -> Seq(Versions)] /\ firsts \in [Repos -> SUBSET Versions]
    BY <2>1 DEF Typed, PayloadThere
  <2>3. ASSUME NEW r \in Repos
        PROVE  /\ firsts[r] \subseteq firsts'[r]
               /\ Range(pending'[r]) \subseteq Range(pending[r]) \cup (firsts'[r])
    <3>1. CASE r = current
      <4>1. /\ pending'[r] = Append(pending[r], payload) /\ pending[r] \in Seq(Versions)
            /\ firsts'[r] = firsts[r] \cup {payload}
        BY <2>1, <2>2, <3>1
      <4> QED BY <2>2, <4>1 DEF Range
    <3>2. CASE r # current
      BY <2>1, <2>2, <3>2
    <3> QED BY <3>1, <3>2
  <2>4. \A r \in Repos : RowsOf(states', r) = RowsOf(states, r) /\ RowsOf(seen', r) = RowsOf(seen, r)
    BY <2>1
  <2> QED BY <2>1, <2>3, <2>4 DEF HonestInv
<1>6. CASE FinishEmpty \/ Publish \/ Crash
  <2>1. UNCHANGED firsts /\ seen' = NoStates /\ pending' = NoRows
    BY <1>6 DEF FinishEmpty, Publish, Crash, CloseSession
  <2>2. \A r \in Repos : RowsOf(seen', r) = {} /\ Range(pending'[r]) = {}
    BY <2>1 DEF NoStates, NoRows, RowsOf, Range, Keys
  <2>3. ASSUME NEW r \in Repos PROVE RowsOf(states', r) \subseteq firsts[r]
    <3>1. CASE FinishEmpty
      <4>1. states' = Flushed(seen) /\ items = {}
        BY <3>1 DEF FinishEmpty
      <4>2. RowsOf(Flushed(seen), r) \subseteq RowsOf(seen, r) \cup Range(pending[r])
        BY FlushedFacts DEF Typed
      <4> QED BY <4>1, <4>2 DEF HonestInv
    <3>2. CASE Publish \/ Crash
      <4>1. UNCHANGED states
        BY <3>2 DEF Publish, Crash
      <4> QED BY <4>1 DEF HonestInv
    <3> QED BY <1>6, <3>1, <3>2
  <2> QED BY <2>1, <2>2, <2>3 DEF HonestInv
<1> QED BY <1>2, <1>3, <1>4, <1>5, <1>6, Zenon DEF Next, Work, Environment

\* Whatever fails and in whatever order the turns come, no committed checkpoint stands for
\* a push that was among a run's items: a run's own checkpoints, and those flushed beside
\* them, go with its batch (feed_sync/sync_engine.py, feed_publisher.py:130-137).
THEOREM CheckpointsHonest == Spec => []CheckpointHonest
<1>1. Init => Typed /\ BatchInv /\ HonestInv
  BY InitTyped, InitHonest
<1>2. Typed /\ BatchInv /\ HonestInv /\ [Next]_vars => (Typed /\ BatchInv /\ HonestInv)'
  BY NextTyped, NextBatch, NextHonest
<1>3. HonestInv => CheckpointHonest
  BY DEF HonestInv, CheckpointHonest, Checkpoints, RowsOf
<1> QED BY <1>1, <1>2, <1>3, PTL DEF Spec
================================================================================
