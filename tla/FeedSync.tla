-------------------------------- MODULE FeedSync -------------------------------
(***************************************************************************)
(* A run of the feed pipeline (app/services/feed_sync): one session goes   *)
(* through the known repositories, asks for those whose ETag has changed,  *)
(* keeps a checkpoint for each, and publishes what it got as one batch.    *)
(* No batch is ever committed: the publisher reads a relationship that is  *)
(* not loaded, which an AsyncSession refuses.                              *)
(*                                                                         *)
(* Version v of a repository stands for its payload after push v and for   *)
(* the payload's ETag; release v for what push v may have released.  Runs  *)
(* of the job never overlap: only the scheduler starts it.                 *)
(***************************************************************************)
EXTENDS FeedRules

CONSTANTS
    Repos,       \* full names
    Known,       \* rows each has, by external_id: discovery found it, or the
                 \* webhook receiver recorded it
    NoRepo,      \* no repository is being processed
    Slugs,       \* canonical slugs of their names
    MaxVersion,  \* bound: pushes to a repository
    MaxLost      \* bound: calls and runs that fail

Keys == {"found", "feed"}   \* external_id is the forge's id, or the full name

ASSUME ParametersAssumption ==
    /\ Known \in [Repos -> (SUBSET Keys) \ {{}}] /\ NoRepo \notin Repos
    /\ MaxVersion \in Nat \ {0} /\ MaxLost \in Nat

VARIABLES
    version,   \* upstream: pushes so far
    released,  \* upstream: pushes that brought a release; none where the repository
               \* is archived or has a release that cannot be parsed
    slug,      \* upstream: slug of each repository's name
    lead,      \* upstream: how much later it is pushed than the others
    states,    \* committed rows of sync_states, by repository row: their ETags
    stage,     \* where the run is
    turns,     \* repositories it has still to process, once for each row
    key,       \* the row it took each repository's id from
    current,   \* the repository it is processing
    payload,   \* the version it got
    seen,      \* sync_states as its session sees them
    pending,   \* rows added to the session and not flushed
    items,     \* what it has parsed
    batch,     \* what deduplicate_batch keeps of them, item by item
    firsts,    \* versions whose first checkpoint raised
    got,       \* versions handed to the publisher
    lost       \* calls and runs that failed

vars == <<version, released, slug, lead, states, stage, turns, key, current, payload,
          seen, pending, items, batch, firsts, got, lost>>

upstream == <<version, released, slug, lead>>
history  == <<firsts, got>>

Versions == 1 .. MaxVersion
NoETag   == 0
Stages   == {"idle", "list", "payload"}

NoRows    == [r \in Repos |-> <<>>]
NoStates  == [r \in Repos |-> [k \in Keys |-> <<>>]]

AnyRepo == CHOOSE r \in Repos : TRUE   \* the others are compared with it

Init ==
    /\ version = [r \in Repos |-> 1]
    /\ released = [r \in Repos |-> {1}]
    /\ slug \in [Repos -> Slugs] /\ slug[AnyRepo] = CHOOSE s \in Slugs : TRUE
    /\ lead \in [Repos -> 0 .. 1] /\ lead[AnyRepo] = 0
    /\ \A r \in Repos : slug[r] # slug[AnyRepo] => lead[r] = 0   \* never compared
    /\ states = NoStates
    /\ stage = "idle"
    /\ turns = [r \in Repos |-> 0]
    /\ key = [r \in Repos |-> "found"]
    /\ current = NoRepo /\ payload = 0
    /\ seen = NoStates /\ pending = NoRows /\ items = {} /\ batch = NoBatch
    /\ firsts = [r \in Repos |-> {}]
    /\ got = [r \in Repos |-> {}]
    /\ lost = 0

--------------------------------------------------------------------------------
(* Upstream.  A run asks for a repository only in its turns: a push at another time *)
(* of a run might as well come before or after it.                                  *)

\* A push, plain, with a release, or after which the repository is refused
Push(r) ==
    /\ stage = "idle" \/ current = r \/ turns[r] \in 1 .. Cardinality(Known[r]) - 1
    /\ version[r] < MaxVersion
    /\ version' = [version EXCEPT ![r] = @ + 1]
    /\ \E now \in {released[r], released[r] \cup {version[r] + 1}, {}} :
          released' = [released EXCEPT ![r] = now]
    /\ UNCHANGED <<slug, lead, states, stage, turns, key, current, payload, seen, pending,
                   items, batch, history, lost>>

--------------------------------------------------------------------------------
(* run_feed_sync and the loop of sync_repositories *)

\* A row of repositories with the same full name is one more turn; repository_ids
\* keeps the id of the last of them
StartRun ==
    /\ stage = "idle"
    /\ stage' = "list"
    /\ turns' = [r \in Repos |-> Cardinality(Known[r])]
    /\ key' \in {k \in [Repos -> Keys] : \A r \in Repos : k[r] \in Known[r]}
    /\ seen' = states
    /\ UNCHANGED <<upstream, states, current, payload, pending, items, batch, history,
                   lost>>

Mine(r) == seen[r][key[r]]

\* _load_checkpoint: any of the rows with that repository_id
LoadedETags(r) ==
    IF Mine(r) = <<>> THEN {NoETag} ELSE Range(Mine(r))

EndTurn(r) == turns' = [turns EXCEPT ![r] = @ - 1]

\* Mutant: an ETag is taken for current because there is one
NotModified_AnyETag(r) ==
    /\ stage = "list" /\ turns[r] > 0
    /\ LoadedETags(r) # {NoETag}
    /\ EndTurn(r)
    /\ UNCHANGED <<upstream, states, stage, key, current, payload, seen, pending,
                   items, batch, history, lost>>
NotModified(r) ==
    /\ stage = "list" /\ turns[r] > 0
    /\ version[r] \in LoadedETags(r)
    /\ EndTurn(r)
    /\ UNCHANGED <<upstream, states, stage, key, current, payload, seen, pending,
                   items, batch, history, lost>>

\* Not found, unauthorized or out of attempts: the run goes on without it
FetchFails(r) ==
    /\ stage = "list" /\ turns[r] > 0 /\ lost < MaxLost
    /\ EndTurn(r)
    /\ lost' = lost + 1
    /\ UNCHANGED <<upstream, states, stage, key, current, payload, seen, pending,
                   items, batch, history>>

\* A payload that the validator refuses ends the turn, any other goes on to the
\* releases
FetchRepository(r) ==
    /\ stage = "list" /\ turns[r] > 0
    /\ LoadedETags(r) # {version[r]}
    /\ stage' = "payload"
    /\ current' = r
    /\ payload' = version[r]
    /\ UNCHANGED <<upstream, states, turns, key, seen, pending, items, batch,
                   history, lost>>

FinishTurn ==
    /\ stage' = "list"
    /\ EndTurn(current)
    /\ current' = NoRepo
    /\ payload' = 0

\* The payload is refused, the releases cannot be parsed, or there are none: a
\* FeedItem has at least one
RejectItem ==
    /\ stage = "payload"
    /\ released[current] = {}
    /\ FinishTurn
    /\ UNCHANGED <<upstream, states, key, seen, pending, items, batch, history,
                   lost>>

\* fetch_releases raises: the item is parsed without releases, which it cannot be
ReleasesFail ==
    /\ stage = "payload" /\ lost < MaxLost
    /\ FinishTurn
    /\ lost' = lost + 1
    /\ UNCHANGED <<upstream, states, key, seen, pending, items, batch, history>>

Flushed(view) == [r \in Repos |-> [view[r] EXCEPT ![key[r]] = @ \o pending[r]]]

Item == [repo |-> current, slug |-> slug[current], version |-> payload,
         pushed |-> payload + lead[current], releases |-> released[current]]

\* _save_checkpoint updates a row and the item is kept ...
SaveCheckpoint ==
    /\ stage = "payload"
    /\ released[current] # {}
    /\ \E i \in DOMAIN Mine(current) :
          seen' = Flushed([seen EXCEPT ![current][key[current]][i] = payload])
    /\ pending' = NoRows
    /\ items' = items \cup {Item}
    /\ batch' = PlaceItem(batch, Item)
    /\ FinishTurn
    /\ UNCHANGED <<upstream, states, key, history, lost>>

\* Mutant: the row is added to the session before its ETag is set
FirstCheckpoint_NoETag ==
    /\ stage = "payload"
    /\ released[current] # {}
    /\ Mine(current) = <<>>
    /\ pending' = [pending EXCEPT ![current] = Append(@, NoETag)]
    /\ firsts' = [firsts EXCEPT ![current] = @ \cup {payload}]
    /\ FinishTurn
    /\ UNCHANGED <<upstream, states, key, seen, items, batch, got, lost>>
\* ... or adds one to the session and raises: discovered_count is None until the
\* flush.  The item is lost, the row is written by whatever flushes next.
FirstCheckpoint ==
    /\ stage = "payload"
    /\ released[current] # {}
    /\ Mine(current) = <<>>
    /\ pending' = [pending EXCEPT ![current] = Append(@, payload)]
    /\ firsts' = [firsts EXCEPT ![current] = @ \cup {payload}]
    /\ FinishTurn
    /\ UNCHANGED <<upstream, states, key, seen, items, batch, got, lost>>

EndOfList == stage = "list" /\ \A r \in Repos : turns[r] = 0

\* The session is done with: committed by the job, or rolled back
CloseSession ==
    /\ stage' = "idle"
    /\ turns' = [r \in Repos |-> 0]
    /\ current' = NoRepo /\ payload' = 0
    /\ seen' = NoStates /\ pending' = NoRows /\ items' = {} /\ batch' = NoBatch
    /\ key' = [r \in Repos |-> "found"]

\* Nothing to publish
FinishEmpty ==
    /\ EndOfList /\ items = {}
    /\ states' = Flushed(seen)
    /\ CloseSession
    /\ UNCHANGED <<upstream, history, lost>>

--------------------------------------------------------------------------------
(* publish *)

Kept == batch.kept

\* Versions of r among the items
Fetched(r) == {i.version : i \in {j \in items : j.repo = r}}

Handed == [r \in Repos |-> got[r] \cup Fetched(r)]

\* Mutant: the checkpoints are committed on their own
Publish_KeepsCheckpoints ==
    /\ EndOfList /\ items # {}
    /\ states' = Flushed(seen)
    /\ got' = Handed
    /\ CloseSession
    /\ UNCHANGED <<upstream, firsts, lost>>
\* The first item raises: its application is looked up without its repositories, or
\* was flushed a moment ago, and `repository not in app.repositories` is a lazy load
\* on an AsyncSession.  Everything is rolled back, checkpoints included, and the job
\* fails before consumers, search or cache hear of anything.
Publish ==
    /\ EndOfList /\ items # {}
    /\ got' = Handed
    /\ CloseSession
    /\ UNCHANGED <<upstream, states, firsts, lost>>

Crash ==
    /\ stage # "idle" /\ lost < MaxLost
    /\ lost' = lost + 1
    /\ CloseSession
    /\ UNCHANGED <<upstream, states, history>>

--------------------------------------------------------------------------------

Work ==
    \/ StartRun
    \/ \E r \in Repos : NotModified(r) \/ FetchFails(r) \/ FetchRepository(r)
    \/ RejectItem \/ ReleasesFail \/ SaveCheckpoint \/ FirstCheckpoint
    \/ FinishEmpty \/ Publish

Environment == Crash \/ \E r \in Repos : Push(r)

Next == Work \/ Environment

Spec == Init /\ [][Next]_vars

\* The scheduler starts the job again and again, and a run always goes on
FairSpec == Spec /\ WF_vars(Work)

--------------------------------------------------------------------------------

TypeOK ==
    /\ version \in [Repos -> Versions]
    /\ released \in [Repos -> SUBSET Versions]
    /\ slug \in [Repos -> Slugs] /\ lead \in [Repos -> 0 .. 1]
    /\ \A r \in Repos : /\ Range(pending[r]) \subseteq Versions
                         /\ \A k \in Keys : Range(states[r][k]) \cup Range(seen[r][k])
                                               \subseteq Versions
    /\ stage \in Stages
    /\ turns \in [Repos -> 0 .. Cardinality(Keys)]
    /\ key \in [Repos -> Keys]
    /\ current \in Repos \cup {NoRepo} /\ payload \in 0 .. MaxVersion
    /\ items \cup Range(Kept) \subseteq [repo : Repos, slug : Slugs, version : Versions,
                                         pushed : 1 .. MaxVersion + 1,
                                         releases : SUBSET Versions]
    /\ firsts \in [Repos -> SUBSET Versions] /\ got \in [Repos -> SUBSET Versions]
    /\ lost \in 0 .. MaxLost

Checkpoints(r) == UNION {Range(states[r][k]) : k \in Keys}

\* A checkpoint stands only for a push whose first save raised, and never for one that
\* was to be published: what a run saved for its items, or flushed beside them for
\* repositories that had none, is rolled back with the batch, or it would be taken for
\* current though the feed never had it (sync_repositories: "either persists
\* everything or nothing")
CheckpointHonest == \A r \in Repos : Checkpoints(r) \subseteq firsts[r]

\* Whatever the order of the turns, what is kept of a batch has no two items for
\* one application and nothing that is kept is older than what it replaced
BatchKeepsFreshest ==
    /\ \A i, j \in DOMAIN Kept : i # j => ~SameApp(Kept[i], Kept[j])
    /\ \A item \in items : \E i \in DOMAIN Kept :
          SameApp(item, Kept[i]) /\ Kept[i].pushed >= item.pushed

\* A push that the pipeline could publish and that no checkpoint hides
Open(r) == released[r] # {} /\ version[r] \notin firsts[r]

\* Pushes come to an end here.  Whatever fails, a last push that could be published, and
\* whose first checkpoint did not raise, is asked for by run after run: it is never
\* taken for current
PushesAskedFor ==
    \A r \in Repos : <>[]~Open(r) \/ []<>(current = r /\ payload = version[r])

\* "every repository keeps a durable SyncCheckpoint so subsequent runs only process
\* repositories that actually changed" (sync_engine.py:16-18): a payload that a run has
\* handed to the publisher is not fetched by another run.  The code breaks it: the
\* publication of an application always raises, and takes the checkpoint with it
AskedOnce ==
    [][\A r \in Repos : current # r /\ current' = r => payload' \notin got[r]]_vars

================================================================================
