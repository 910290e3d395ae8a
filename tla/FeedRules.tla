------------------------------- MODULE FeedRules -------------------------------
(***************************************************************************)
(* What the feed pipeline counts as a duplicate within a batch             *)
(* (app/services/feed_sync/feed_deduplicator.py).                          *)
(*                                                                         *)
(* An item is a record [repo, slug, pushed, releases]; app_id stands for   *)
(* the repository (source/repository) and no item has a bundle id.         *)
(***************************************************************************)
EXTENDS Integers, Sequences, FiniteSets, SequencesExt

NoTime == 0   \* pushed_at is null

Identity(item) == <<<<"app", item.repo>>, <<"slug", item.slug>>, <<"repo", item.repo>>>>

SameApp(a, b) == Range(Identity(a)) \cap Range(Identity(b)) # {}

\* Mutant: the older payload wins
IsFresher_Older(candidate, current) == candidate.pushed < current.pushed
\* Latest pushed_at, where both have one, then most releases
IsFresher(candidate, current) ==
    IF {candidate.pushed, current.pushed} \cap {NoTime} = {} /\ candidate.pushed # current.pushed
    THEN candidate.pushed > current.pushed
    ELSE Cardinality(candidate.releases) > Cardinality(current.releases)

\* One turn of the loop: index maps the identity keys seen so far to slots of kept;
\* the first key that is known decides
PlaceItem(batch, item) ==
    LET keys  == Identity(item)
        known == {k \in DOMAIN keys : keys[k] \in DOMAIN batch.index}
        all   == Range(keys)
    IN  IF known = {}
        THEN LET slot == Len(batch.kept) + 1
             IN  [kept  |-> Append(batch.kept, item),
                  index |-> [k \in DOMAIN batch.index \cup all |->
                                IF k \in DOMAIN batch.index THEN batch.index[k] ELSE slot]]
        ELSE LET slot == batch.index[keys[Min(known)]]
             IN  IF IsFresher(item, batch.kept[slot])
                 THEN [kept  |-> [batch.kept EXCEPT ![slot] = item],
                       index |-> [k \in DOMAIN batch.index \cup all |->
                                     IF k \in all THEN slot ELSE batch.index[k]]]
                 ELSE batch

NoBatch == [kept |-> <<>>, index |-> << >>]

================================================================================
