------------------------------- MODULE Analytics -------------------------------
(***************************************************************************)
(* The analytics tables: ingestion of event batches and the download       *)
(* counters it raises (api/routes/analytics.py, intelligence/              *)
(* analytics_service.py), the refresh of the catalogue's materialized      *)
(* views (core/repositories/catalog.py, core/database/catalog_views.py),   *)
(* and the trends of searches.  A session sees what was committed when it  *)
(* read, and keeps the counters it read; its updates are written when it   *)
(* commits, row by row in the order of the keys, and hold the rows until   *)
(* it has committed.                                                       *)
(***************************************************************************)
EXTENDS Integers, FiniteSets, SequencesExt

CONSTANTS
    Sessions,       \* sessions at a time
    AnalyticsApps,  \* applications, 1 .. n in the order of their keys
    Batches,        \* event batches, sequences of [kind, what, day]
    BatchLimit,     \* INGEST_BATCH_LIMIT (1000)
    Views,          \* the catalogue's views (4)
    Week, Today,    \* days of a trend window (7), the day it is
    MaxIngests,     \* bound: batches sent
    MaxRefreshes    \* bound: refreshes of the views

EventKinds == {"download", "view", "search"}

ASSUME AnalyticsAssumption ==
    /\ IsFiniteSet(AnalyticsApps) /\ AnalyticsApps = 1 .. Cardinality(AnalyticsApps)
    /\ \A batch \in Batches :
          /\ batch \in Seq(Range(batch))
          /\ \A e \in Range(batch) : e.kind \in EventKinds /\ e.day \in Int
    /\ Views \in Nat \ {0} /\ Week \in Nat \ {0} /\ Today \in Nat

VARIABLES
    totals,   \* applications.download_count
    recorded,  \* the committed rows: events, of which commit and from where in its batch
    stored,    \* the rows of each view: the counters and when they were read
    commits,   \* commits that changed one
    session,   \* where each session is
    raced,     \* applications of which two sessions counted at the same time
    sent, refreshes

analyticsVars == <<totals, recorded, stored, commits, session, raced, sent, refreshes>>

NoSession == [at |-> "idle", batch |-> {}, held |-> [a \in AnalyticsApps |-> 0],
            next |-> 0, taken |-> <<>>]
RowsNow(run) == [totals |-> totals, commits |-> commits, run |-> run]

\* create_catalog_views refreshes them after their creation
AnalyticsInit ==
    /\ totals = [a \in AnalyticsApps |-> 0] /\ recorded = {} /\ commits = 0
    /\ stored = [v \in 1 .. Views |-> [totals |-> [a \in AnalyticsApps |-> 0], commits |-> 0, run |-> 0]]
    /\ session = [s \in Sessions |-> NoSession]
    /\ raced = {} /\ sent = 0 /\ refreshes = 0

Stand(s, to) == session' = [session EXCEPT ![s] = to]

--------------------------------------------------------------------------------
(* POST /analytics/ingest *)

\* The first of each kind; an application that is not known is not recorded
Accepted(batch) ==
    {[place |-> i, event |-> batch[i]] : i \in
        {i \in DOMAIN batch :
            /\ Cardinality({j \in 1 .. i : batch[j].kind = batch[i].kind}) <= BatchLimit
            /\ batch[i].kind = "search" \/ batch[i].what \in AnalyticsApps}}

DownloadsOf(shown, a) == {r \in shown : r.event.kind = "download" /\ r.event.what = a}
Count(s, a) == Cardinality(DownloadsOf(session[s].batch, a))

\* The applications are read once for the batch; record_download finds the same objects again
Ingest(s, batch) ==
    /\ sent < MaxIngests /\ session[s].at = "idle"
    /\ sent' = sent + 1
    /\ Stand(s, [at |-> "bumping", batch |-> Accepted(batch), held |-> totals, next |-> 1, taken |-> <<>>])
    /\ UNCHANGED <<totals, recorded, stored, commits, raced, refreshes>>

\* A number that is none raises, and nothing of the batch is kept
IngestRaises(s) ==
    /\ session[s].at = "bumping" /\ session[s].next = 1
    /\ Stand(s, NoSession)
    /\ UNCHANGED <<totals, recorded, stored, commits, raced, sent, refreshes>>

Bumps(s, a)  == Count(s, a) > 0
Locks(s, a)  == session[s].at = "bumping" /\ a < session[s].next /\ Bumps(s, a)

\* The UPDATE of an application waits for a session that has updated it
UpdateRow(s) ==
    LET a == session[s].next
    IN  /\ session[s].at = "bumping" /\ a \in AnalyticsApps
        /\ Bumps(s, a) => \A t \in Sessions \ {s} : ~Locks(t, a)
        /\ Stand(s, [session[s] EXCEPT !.next = a + 1])
        /\ UNCHANGED <<totals, recorded, stored, commits, raced, sent, refreshes>>

\* Mutant: every event adds to what was read, not to the one before it
Bumped_Once(s, a) == session[s].held[a] + (IF Count(s, a) > 0 THEN 1 ELSE 0)
\* What is written is the count that was read, plus the batch's downloads
Bumped(s, a) == session[s].held[a] + Count(s, a)

CommitBatch(s) ==
    /\ session[s].at = "bumping" /\ session[s].next > Cardinality(AnalyticsApps)
    /\ totals' = [a \in AnalyticsApps |-> IF Bumps(s, a) THEN Bumped(s, a) ELSE totals[a]]
    /\ recorded' = recorded \cup {[commit |-> commits, place |-> r.place, event |-> r.event] :
                                     r \in session[s].batch}
    /\ raced' = raced \cup {a \in AnalyticsApps :
                              Bumps(s, a) /\ \E t \in Sessions \ {s} : session[t].at = "bumping" /\ Bumps(t, a)}
    /\ commits' = commits + 1
    /\ Stand(s, NoSession)
    /\ UNCHANGED <<stored, sent, refreshes>>

--------------------------------------------------------------------------------
(* refresh_materialized_views, of the scheduler and of the job *)

BeginRefresh(s) ==
    /\ refreshes < MaxRefreshes /\ session[s].at = "idle"
    /\ refreshes' = refreshes + 1
    /\ Stand(s, [at |-> "refreshing", batch |-> {}, held |-> NoSession.held, next |-> refreshes + 1,
                 taken |-> <<>>])
    /\ UNCHANGED <<totals, recorded, stored, commits, raced, sent>>

Refreshed(t, v) == session[t].at = "refreshing" /\ v \in 1 .. Len(session[t].taken)

\* Mutant: two sessions may refresh a view at once
RefreshView_Free(s) ==
    /\ session[s].at = "refreshing" /\ Len(session[s].taken) < Views
    /\ Stand(s, [session[s] EXCEPT !.taken = Append(@, RowsNow(session[s].next))])
    /\ UNCHANGED <<totals, recorded, stored, commits, raced, sent, refreshes>>
\* Each statement reads what is committed then; a view is refreshed by one transaction at a time
RefreshView(s) ==
    /\ session[s].at = "refreshing" /\ Len(session[s].taken) < Views
    /\ \A t \in Sessions \ {s} : ~Refreshed(t, Len(session[s].taken) + 1)
    /\ Stand(s, [session[s] EXCEPT !.taken = Append(@, RowsNow(session[s].next))])
    /\ UNCHANGED <<totals, recorded, stored, commits, raced, sent, refreshes>>

\* A statement that fails ends the transaction, and the blocking refresh tried next fails in it
RefreshFails(s) ==
    /\ session[s].at = "refreshing"
    /\ Stand(s, NoSession)
    /\ UNCHANGED <<totals, recorded, stored, commits, raced, sent, refreshes>>

CommitRefresh(s) ==
    /\ session[s].at = "refreshing" /\ Len(session[s].taken) = Views
    /\ stored' = session[s].taken
    /\ Stand(s, NoSession)
    /\ UNCHANGED <<totals, recorded, commits, raced, sent, refreshes>>

AnalyticsNext ==
    \E s \in Sessions :
        \/ \E batch \in Batches : Ingest(s, batch)
        \/ IngestRaises(s) \/ UpdateRow(s) \/ CommitBatch(s)
        \/ BeginRefresh(s) \/ RefreshView(s) \/ RefreshFails(s) \/ CommitRefresh(s)

AnalyticsSpec == AnalyticsInit /\ [][AnalyticsNext]_analyticsVars

--------------------------------------------------------------------------------
(* The trends of searches, at the end of the day Today *)

OfKind(kind) == {r \in recorded : r.event.kind = kind}

SearchesOf(q)              == {r \in OfKind("search") : r.event.what = q}
SearchedSince(q, day)      == Cardinality({r \in SearchesOf(q) : r.event.day >= day})
SearchedWithin(q, from, to) == Cardinality({r \in SearchesOf(q) : r.event.day >= from /\ r.event.day < to})

Blank   == ""
Queries == {r.event.what : r \in OfKind("search")}

\* Not of searches for nothing; the order and the limit are left out
PopularQueries(days) ==
    {r \in {[query |-> q, count |-> SearchedSince(q, Today - days)] : q \in Queries \ {Blank}} : r.count > 0}

\* Mutant: the first day of the recent window is in both
TrendingSearches_Both ==
    {r \in {[query |-> q, recent |-> SearchedSince(q, Today - Week),
             prior |-> SearchedWithin(q, Today - 2 * Week, Today - Week + 1)] : q \in Queries} : r.recent >= 2}
\* Grown or not, with two searches in the last window; the order and the limit are left out
TrendingSearches ==
    {r \in {[query |-> q, recent |-> SearchedSince(q, Today - Week),
             prior |-> SearchedWithin(q, Today - 2 * Week, Today - Week)] : q \in Queries} : r.recent >= 2}

--------------------------------------------------------------------------------

Events == UNION {Range(batch) : batch \in Batches}

AnalyticsTypeOK ==
    /\ totals \in [AnalyticsApps -> Nat] /\ commits \in 0 .. MaxIngests
    /\ \A r \in recorded : r.commit \in 0 .. commits - 1 /\ r.event \in Events
    /\ \A v \in 1 .. Views : stored[v].commits \in 0 .. commits /\ stored[v].run \in 0 .. refreshes
    /\ \A s \in Sessions : /\ session[s].at \in {"idle", "bumping", "refreshing"}
                            /\ Len(session[s].taken) \in 0 .. Views
                            /\ session[s].held \in [AnalyticsApps -> Nat]
    /\ raced \subseteq AnalyticsApps
    /\ sent \in 0 .. MaxIngests /\ refreshes \in 0 .. MaxRefreshes

\* A count never claims more downloads than were recorded, and it is their number unless
\* two batches that count the application were taken in at the same time
CountersTrue ==
    \A a \in AnalyticsApps :
        LET downloads == Cardinality(DownloadsOf(recorded, a))
        IN  totals[a] <= downloads /\ (a \notin raced => totals[a] = downloads)

\* The views are always those of one refresh, each read no earlier than the one before it,
\* and no refresh under way will put an older listing in the place of a newer one
ViewsOfOneRefresh ==
    /\ \A v \in 1 .. Views - 1 : /\ stored[v].run = stored[v + 1].run
                                 /\ stored[v].commits <= stored[v + 1].commits
    /\ \A s \in Sessions : \A v \in 1 .. Len(session[s].taken) :
           session[s].taken[v].commits >= stored[v].commits

\* A trending query's two windows are its popularity over both
AggregatesAgree ==
    \A t \in TrendingSearches :
       t.query # Blank => [query |-> t.query, count |-> t.recent + t.prior] \in PopularQueries(2 * Week)

AnalyticsHonest == CountersTrue /\ ViewsOfOneRefresh /\ AggregatesAgree

================================================================================
