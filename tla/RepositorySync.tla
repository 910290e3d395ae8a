----------------------------- MODULE RepositorySync ----------------------------
(***************************************************************************)
(* The delta sync of repositories and their releases                       *)
(* (omnisource/crawler/sync.py): each pass is one database session that    *)
(* loads every repository row, asks upstream which of them were pushed to, *)
(* ingests the releases of those and announces the new ones.  A pass       *)
(* commits at its end, and in passing whenever an announcement does.       *)
(*                                                                         *)
(* Push number k of a repository stands for the pushed_at it leaves behind *)
(* and release k for the release of what push k brought.  Sessions run at  *)
(* READ COMMITTED: an UPDATE waits for the transaction that holds the row, *)
(* a SELECT does not.                                                      *)
(***************************************************************************)
EXTENDS Integers, FiniteSets

CONSTANTS
    Repos,         \* repositories of the source
    NoRepo,        \* no repository is being synced
    Passes,        \* sessions that run sync_source
    ReleaseLimit,  \* max_releases_per_repo, 50 in the code
    NotesLimit,    \* releases whose notes the metadata row keeps, 20 in the code
    MaxAge,        \* max_sync_age_hours
    CheckMayFail,  \* get_repository may raise (or SYNC_SKIP_UNCHANGED is off)
    FetchMayFail,  \* get_releases may raise
    MaxPushes,     \* bound: pushes to a repository
    MaxTime,       \* bound: the clock
    MaxLost        \* bound: passes that fail or crash

ASSUME ParametersAssumption ==
    /\ NoRepo \notin Repos
    /\ {ReleaseLimit, NotesLimit, MaxPushes} \subseteq Nat \ {0}
    /\ {MaxAge, MaxTime, MaxLost} \subseteq Nat
    /\ {CheckMayFail, FetchMayFail} \subseteq BOOLEAN

VARIABLES
    pushed,     \* upstream: pushes so far
    published,  \* upstream: releases that are out
    late,       \* upstream: those published after their push
    repository, \* committed rows of repositories and repository_metadata
    stored,     \* committed rows of releases, counted per release
    stage,      \* where each pass is
    current,    \* the repository it is syncing
    remaining,  \* the repositories it has still to look at
    copy,       \* its session's copies of the rows
    base,       \* the same rows as it last read or committed them
    listing,    \* the releases upstream gave it
    inserted,   \* release rows it has inserted and not committed
    new,        \* releases it has still to announce
    locks,      \* rows it has updated and not committed
    clock,      \* time
    announced,  \* announcements of each release
    failed,     \* passes ended by a repository that raised
    crashed     \* passes ended by the death of their process

vars == <<pushed, published, late, repository, stored, stage, current, remaining,
          copy, base, listing, inserted, new, locks, clock, announced, failed, crashed>>

upstream == <<pushed, published, late>>
database == <<repository, stored>>
cursor   == <<stage, current, remaining>>
session  == <<copy, base, listing, inserted, new, locks>>
history  == <<announced, failed, crashed>>

Releases == 1 .. MaxPushes
Stages   == {"idle", "next", "fetch", "ingest", "announce", "posted"}

\* pushed_at, last_synced_pushed_at (0 for NULL), synced_at (-1 for NULL) and the
\* metadata's release notes.  Not in the code: the pushed_at and the time at which
\* the release sync last went through.
Rows == [pushed : 0 .. MaxPushes, mark : 0 .. MaxPushes, synced : -1 .. MaxTime,
         notes : SUBSET Releases, ingested : 0 .. MaxPushes, refreshed : -1 .. MaxTime]

NewRow == [pushed |-> 1, mark |-> 0, synced |-> -1, notes |-> {},
           ingested |-> 0, refreshed |-> -1]

NoCopies     == [r \in Repos |-> NewRow]
NoneInserted == [r \in Repos |-> {}]

Init ==
    /\ pushed = [r \in Repos |-> 1]
    /\ published = [r \in Repos |-> {}]
    /\ late = [r \in Repos |-> {}]
    /\ repository = NoCopies
    /\ stored = [r \in Repos |-> [n \in Releases |-> 0]]
    /\ stage = [p \in Passes |-> "idle"]
    /\ current = [p \in Passes |-> NoRepo]
    /\ remaining = [p \in Passes |-> {}]
    /\ copy = [p \in Passes |-> NoCopies]
    /\ base = [p \in Passes |-> NoCopies]
    /\ listing = [p \in Passes |-> {}]
    /\ inserted = [p \in Passes |-> NoneInserted]
    /\ new = [p \in Passes |-> {}]
    /\ locks = [p \in Passes |-> {}]
    /\ clock = 0
    /\ announced = [r \in Repos |-> [n \in Releases |-> 0]]
    /\ failed = 0 /\ crashed = 0

--------------------------------------------------------------------------------
(* Upstream and the other writers *)

Newest(S, limit) == {n \in S : Cardinality({k \in S : k > n}) < limit}

\* A push, which may bring a release with it
Push(r) ==
    /\ pushed[r] < MaxPushes
    /\ pushed' = [pushed EXCEPT ![r] = @ + 1]
    /\ published' \in {published, [published EXCEPT ![r] = @ \cup {pushed[r] + 1}]}
    /\ UNCHANGED <<late, database, cursor, session, clock, history>>

\* A release of an earlier push comes out: pushed_at stays as it is
PublishLate(r, n) ==
    /\ n <= pushed[r] /\ n \notin published[r]
    /\ published' = [published EXCEPT ![r] = @ \cup {n}]
    /\ late' = [late EXCEPT ![r] = @ \cup {n}]
    /\ UNCHANGED <<pushed, database, cursor, session, clock, history>>

Tick ==
    /\ clock < MaxTime
    /\ clock' = clock + 1
    /\ UNCHANGED <<upstream, database, cursor, session, history>>

\* _ingest_repository of a discovery run, in a session of its own
Discover(r) ==
    /\ \A p \in Passes : <<r, "row">> \notin locks[p]
    /\ repository' = [repository EXCEPT ![r].pushed = pushed[r]]
    /\ UNCHANGED <<upstream, stored, cursor, session, clock, history>>

--------------------------------------------------------------------------------
(* The session *)

RowColumns(row) == <<row.pushed, row.mark, row.synced>>

Differ(row, other, kind) ==
    \/ kind = "row" /\ RowColumns(row) # RowColumns(other)
    \/ kind = "meta" /\ row.notes # other.notes

\* Rows whose copies, in c, the next flush has to write
Dirty(c, b) ==
    {lock \in Repos \X {"row", "meta"} : Differ(c[lock[1]], b[lock[1]], lock[2])}

Held(p) == UNION {locks[q] : q \in Passes \ {p}}

CanFlush(p, c) == Dirty(c, base[p]) \cap Held(p) = {}

\* session.commit writes the columns that changed and the rows inserted
Written(p) ==
    [r \in Repos |->
        LET c == copy[p][r]
            b == base[p][r]
            W(column) == IF c[column] # b[column] THEN c[column] ELSE repository[r][column]
        IN  [pushed |-> W("pushed"), mark |-> W("mark"), synced |-> W("synced"),
             notes |-> W("notes"), ingested |-> W("ingested"), refreshed |-> W("refreshed")]]

\* Mutant: the session does not forget the rows it inserted
Commit_KeepsInserted(p) ==
    /\ CanFlush(p, copy[p])
    /\ repository' = Written(p)
    /\ stored' = [r \in Repos |-> [n \in Releases |->
                     stored[r][n] + IF n \in inserted[p][r] THEN 1 ELSE 0]]
    /\ inserted' = inserted
    /\ locks' = [locks EXCEPT ![p] = {}]

Commit(p) ==
    /\ CanFlush(p, copy[p])
    /\ repository' = Written(p)
    /\ stored' = [r \in Repos |-> [n \in Releases |->
                     stored[r][n] + IF n \in inserted[p][r] THEN 1 ELSE 0]]
    /\ inserted' = [inserted EXCEPT ![p] = NoneInserted]
    /\ locks' = [locks EXCEPT ![p] = {}]

\* The session is closed without a commit
Abandon(p) ==
    /\ stage' = [stage EXCEPT ![p] = "idle"]
    /\ current' = [current EXCEPT ![p] = NoRepo]
    /\ remaining' = [remaining EXCEPT ![p] = {}]
    /\ listing' = [listing EXCEPT ![p] = {}]
    /\ inserted' = [inserted EXCEPT ![p] = NoneInserted]
    /\ new' = [new EXCEPT ![p] = {}]
    /\ locks' = [locks EXCEPT ![p] = {}]
    /\ copy' = [copy EXCEPT ![p] = NoCopies]
    /\ base' = [base EXCEPT ![p] = NoCopies]
    /\ UNCHANGED <<upstream, database, clock, announced>>

--------------------------------------------------------------------------------
(* sync_source *)

StartPass(p) ==
    /\ stage[p] = "idle"
    /\ stage' = [stage EXCEPT ![p] = "next"]
    /\ remaining' = [remaining EXCEPT ![p] = Repos]
    /\ copy' = [copy EXCEPT ![p] = repository]
    /\ base' = [base EXCEPT ![p] = repository]
    /\ UNCHANGED <<upstream, database, current, listing, inserted, new, locks, clock, history>>

Take(p, r) ==
    /\ stage[p] = "next" /\ r \in remaining[p]
    /\ stage' = [stage EXCEPT ![p] = "fetch"]
    /\ current' = [current EXCEPT ![p] = r]

Proceed(p, r) ==
    /\ stage' = [stage EXCEPT ![p] = "next"]
    /\ current' = [current EXCEPT ![p] = NoRepo]
    /\ remaining' = [remaining EXCEPT ![p] = @ \ {r}]

\* Mutant: the watermark is there, but not compared
Unchanged_NotCompared(row, push) == row.mark # 0
Unchanged(row, push)  == row.mark # 0 /\ push <= row.mark
SyncedRecently(row)   == row.synced # -1 /\ row.synced >= clock - MaxAge

\* _can_skip returns True, having set synced_at
Skip(p, r) ==
    /\ stage[p] = "next" /\ r \in remaining[p]
    /\ Unchanged(copy[p][r], pushed[r]) /\ SyncedRecently(copy[p][r])
    /\ copy' = [copy EXCEPT ![p][r].synced = clock]
    /\ Proceed(p, r)
    /\ UNCHANGED <<upstream, database, base, listing, inserted, new, locks, clock, history>>

\* _can_skip returns False, having set the watermark
FindChanged(p, r) ==
    /\ ~(Unchanged(copy[p][r], pushed[r]) /\ SyncedRecently(copy[p][r]))
    /\ Take(p, r)
    /\ copy' = [copy EXCEPT ![p][r] =
                   [@ EXCEPT !.pushed = pushed[r], !.mark = pushed[r], !.synced = clock]]
    /\ UNCHANGED <<upstream, database, remaining, base, listing, inserted, new, locks,
                   clock, history>>

\* get_repository raises, or skip_unchanged is off: the row is synced as it is
CheckFails(p, r) ==
    /\ CheckMayFail
    /\ Take(p, r)
    /\ UNCHANGED <<upstream, database, remaining, session, clock, history>>

FetchReleases(p) ==
    /\ stage[p] = "fetch"
    /\ stage' = [stage EXCEPT ![p] = "ingest"]
    /\ listing' = [listing EXCEPT ![p] = Newest(published[current[p]], ReleaseLimit)]
    /\ UNCHANGED <<upstream, database, current, remaining, copy, base, inserted, new, locks,
                   clock, history>>

\* Mutant: no releases instead of the early return
FetchFails_Empty(p) ==
    /\ FetchMayFail
    /\ stage[p] = "fetch"
    /\ stage' = [stage EXCEPT ![p] = "ingest"]
    /\ UNCHANGED <<upstream, database, current, remaining, session, clock, history>>

\* get_releases raises: sync_repository returns as if there were none
FetchFails(p) ==
    /\ FetchMayFail
    /\ stage[p] = "fetch"
    /\ Proceed(p, current[p])
    /\ UNCHANGED <<upstream, database, session, clock, history>>

\* Mutant: the notes are not written before the releases
Enriched_None(p) == copy[p]
\* _persist_enrichment: the metadata row gets the notes of the newest releases
Enriched(p) == [copy[p] EXCEPT ![current[p]].notes = Newest(listing[p], NotesLimit)]

\* Mutant: every release upstream lists is taken for a new one
Created_All(p) == listing[p]
\* upsert_release: SELECT, then INSERT what is not there
Created(p) ==
    {n \in listing[p] : stored[current[p]][n] = 0 /\ n \notin inserted[p][current[p]]}

Stamped(row) == [row EXCEPT !.synced = clock, !.mark = row.pushed,
                            !.ingested = row.pushed, !.refreshed = clock]

\* sync_repository from the first flush, which waits for the rows it updates, to
\* the watermark; a release with two rows raises instead
Ingest(p) ==
    LET r == current[p]
    IN  /\ stage[p] = "ingest"
        /\ \A n \in listing[p] : stored[r][n] <= 1
        /\ CanFlush(p, Enriched(p))
        /\ locks' = [locks EXCEPT ![p] = @ \cup Dirty(Enriched(p), base[p])]
        /\ copy' = [copy EXCEPT ![p] = [Enriched(p) EXCEPT ![r] =
                        Stamped(Enriched(p)[r])]]
        /\ inserted' = [inserted EXCEPT ![p][r] = @ \cup Created(p)]
        /\ new' = [new EXCEPT ![p] = Created(p)]
        /\ stage' = [stage EXCEPT ![p] = "announce"]
        /\ UNCHANGED <<upstream, database, current, remaining, base, listing, clock, history>>

\* dispatch_event posts to the subscribers ...
Announce(p, n) ==
    /\ stage[p] = "announce" /\ n \in new[p]
    /\ stage' = [stage EXCEPT ![p] = "posted"]
    /\ new' = [new EXCEPT ![p] = @ \ {n}]
    /\ announced' = [announced EXCEPT ![current[p]][n] = @ + 1]
    /\ UNCHANGED <<upstream, database, current, remaining, copy, base, listing, inserted, locks,
                   clock, failed, crashed>>

\* ... and then commits the session, halfway through the pass as it may be
AnnounceCommits(p) ==
    /\ stage[p] = "posted"
    /\ Commit(p)
    /\ base' = [base EXCEPT ![p] = copy[p]]
    /\ stage' = [stage EXCEPT ![p] = "announce"]
    /\ UNCHANGED <<upstream, current, remaining, copy, listing, new, clock, history>>

\* dispatch_event raises after a post: the warning is logged, nothing is committed
AnnounceRaises(p) ==
    /\ stage[p] = "posted"
    /\ stage' = [stage EXCEPT ![p] = "announce"]
    /\ UNCHANGED <<upstream, database, current, remaining, session, clock, history>>

\* dispatch_event finds no subscriber
AnnounceToNobody(p, n) ==
    /\ stage[p] = "announce" /\ n \in new[p]
    /\ new' = [new EXCEPT ![p] = @ \ {n}]
    /\ UNCHANGED <<upstream, database, cursor, copy, base, listing, inserted, locks, clock, history>>

NextRepository(p) ==
    /\ stage[p] = "announce" /\ new[p] = {}
    /\ Proceed(p, current[p])
    /\ listing' = [listing EXCEPT ![p] = {}]
    /\ UNCHANGED <<upstream, database, copy, base, inserted, new, locks, clock, history>>

FinishPass(p) ==
    /\ stage[p] = "next" /\ remaining[p] = {}
    /\ Commit(p)
    /\ stage' = [stage EXCEPT ![p] = "idle"]
    /\ copy' = [copy EXCEPT ![p] = NoCopies]
    /\ base' = [base EXCEPT ![p] = NoCopies]
    /\ UNCHANGED <<upstream, current, remaining, listing, new, clock, history>>

\* get_assets, a flush or a release with two rows raises.  The handler rolls back,
\* which expires every object of the session, source included; its read of
\* source.id then has to load the row outside of any await and raises as well.
RepositoryRaises(p) ==
    /\ stage[p] = "ingest"
    /\ failed + crashed < MaxLost
    /\ failed' = failed + 1
    /\ Abandon(p)
    /\ UNCHANGED crashed

Crash(p) ==
    /\ stage[p] # "idle"
    /\ failed + crashed < MaxLost
    /\ crashed' = crashed + 1
    /\ Abandon(p)
    /\ UNCHANGED failed

--------------------------------------------------------------------------------
Upstream ==
    \/ Tick
    \/ \E r \in Repos :
          \/ Push(r) \/ Discover(r)
          \/ \E n \in Releases : PublishLate(r, n)

Work(p) ==
    \/ StartPass(p)
    \/ \E r \in Repos : Skip(p, r) \/ FindChanged(p, r) \/ CheckFails(p, r)
    \/ FetchReleases(p) \/ FetchFails(p)
    \/ Ingest(p)
    \/ \E n \in Releases : Announce(p, n) \/ AnnounceToNobody(p, n)
    \/ AnnounceCommits(p) \/ AnnounceRaises(p)
    \/ NextRepository(p) \/ FinishPass(p)

Next ==
    \/ Upstream
    \/ \E p \in Passes : Work(p) \/ RepositoryRaises(p) \/ Crash(p)

Spec == Init /\ [][Next]_vars

\* The scheduler starts a pass every SYNC_INTERVAL_HOURS and runs it to its end
FairSpec == Spec /\ \A p \in Passes : WF_vars(Work(p))

--------------------------------------------------------------------------------
(* Properties *)

\* The type of every variable; outside a pass a session holds nothing, neither rows
\* it inserted nor locks other passes would wait for.
TypeOK ==
    /\ pushed \in [Repos -> Releases]
    /\ published \in [Repos -> SUBSET Releases]
    /\ late \in [Repos -> SUBSET Releases]
    /\ repository \in [Repos -> Rows]
    /\ stored \in [Repos -> [Releases -> Nat]]
    /\ stage \in [Passes -> Stages]
    /\ current \in [Passes -> Repos \cup {NoRepo}]
    /\ remaining \in [Passes -> SUBSET Repos]
    /\ copy \in [Passes -> [Repos -> Rows]]
    /\ base \in [Passes -> [Repos -> Rows]]
    /\ listing \in [Passes -> SUBSET Releases]
    /\ inserted \in [Passes -> [Repos -> SUBSET Releases]]
    /\ new \in [Passes -> SUBSET Releases]
    /\ locks \in [Passes -> SUBSET (Repos \X {"row", "meta"})]
    /\ clock \in 0 .. MaxTime
    /\ announced \in [Repos -> [Releases -> Nat]]
    /\ {failed, crashed} \subseteq Nat
    /\ \A p \in Passes :
          /\ current[p] = NoRepo <=> stage[p] \in {"idle", "next"}
          /\ stage[p] = "idle" => inserted[p] = NoneInserted /\ locks[p] = {} /\ new[p] = {}

\* A release that ReleaseLimit newer ones hide from every later listing
Superseded(r, n) == Cardinality({k \in published[r] : k > n}) >= ReleaseLimit

StoredUpTo(r, push) ==
    \A n \in published[r] \ late[r] :
        n <= push => stored[r][n] >= 1 \/ Superseded(r, n)

\* A release sync that went through left no gap: what was released with a push at
\* or before the pushed_at it recorded is stored, whatever other passes, crashes,
\* rollbacks and commits halfway through a pass do.
ReleasesUpToSync ==
    \A r \in Repos : StoredUpTo(r, repository[r].ingested)

\* A release that NotesLimit newer ones keep out of the notes of a listing
PastNotes(r, n) == Cardinality({k \in published[r] : k > n}) >= NotesLimit

\* Two passes at once do not store a release twice, although releases has no unique
\* constraint and the check before the fetch, which writes the row, may fail: the
\* release is among the notes of the listing, and the UPDATE of the metadata row keeps
\* one pass waiting until its SELECT sees what the other stored.  Only releases past
\* the notes, of which a listing has up to ReleaseLimit - NotesLimit, have no such lock.
UniqueReleases ==
    \A r \in Repos, n \in Releases : stored[r][n] <= 1 \/ PastNotes(r, n)

\* A release is announced once, plus at most once for every pass that was lost
\* after it posted and before it committed; those past the notes once more with
\* every row.
AnnouncementBudget ==
    \A r \in Repos, n \in Releases :
        announced[r][n] <= 1 + failed + crashed \/ PastNotes(r, n)

\* Every release that comes with a push is stored in the end.
EveryReleaseIngested ==
    \A r \in Repos, n \in Releases :
        n \in published[r] \ late[r] ~> stored[r][n] >= 1 \/ Superseded(r, n)

--------------------------------------------------------------------------------
(* What comments of the code say and the code does not do *)

\* models/repository.py:71: "pushed_at as of the last successful release sync."
\* What was released up to the committed last_synced_pushed_at is stored.
WatermarkHonest ==
    \A r \in Repos : StoredUpTo(r, repository[r].mark)

\* release.py:57: "Create or update a release; returns (release, created)."
\* Whoever runs next to whom, a release has one row.
OneRowPerRelease == \A r \in Repos, n \in Releases : stored[r][n] <= 1

\* policies.py:19: "force refresh at least weekly".
\* A skipped repository had its releases synced within max_sync_age_hours.
RefreshedWithinMaxAge ==
    [][\A p \in Passes : \A r \in remaining[p] \ remaining'[p] :
          stage[p] = "next" /\ stage'[p] = "next" => clock - copy[p][r].refreshed <= MaxAge]_vars
================================================================================
