------------------------- MODULE RepositorySyncProofs --------------------------
(* Theorems about RepositorySync, for any number of repositories and of passes at once *)
EXTENDS RepositorySync, FiniteSetTheorems, TLAPS

\* A pass has releases to announce only while it announces.
NewWhileAnnouncing ==
    \A p \in Passes : new[p] # {} => stage[p] \in {"announce", "posted"}

Shape == TypeOK /\ NewWhileAnnouncing

\* A row of any session knows of no push to come.
Behind(row, r) == row.pushed <= pushed[r] /\ row.ingested <= pushed[r]

NothingAhead ==
    \A r \in Repos :
        /\ Behind(repository[r], r)
        /\ \A p \in Passes : Behind(copy[p][r], r) /\ Behind(base[p][r], r)

\* What a listing is to show: every release of a push up to the one the row records
Listed(p, r) ==
    \A n \in published[r] \ late[r] :
        n <= copy[p][r].pushed => n \in listing[p] \/ Superseded(r, n)

\* A session's copy says a sync went through only of releases it stored or has inserted.
SessionUpToSync(p, r) ==
    \A n \in published[r] \ late[r] :
        n <= copy[p][r].ingested =>
            stored[r][n] >= 1 \/ n \in inserted[p][r] \/ Superseded(r, n)

NoGap ==
    /\ ReleasesUpToSync
    /\ \A p \in Passes, r \in Repos :
          /\ SessionUpToSync(p, r)
          /\ stage[p] = "ingest" /\ current[p] = r => Listed(p, r)

SyncInv == Shape /\ NothingAhead /\ NoGap

\* Notes are kept of releases that are stored; in a session, or inserted.
NotesInRows == \A r \in Repos : \A n \in repository[r].notes : stored[r][n] >= 1

NotesInSession(p) ==
    \A r \in Repos :
        /\ \A n \in base[p][r].notes : stored[r][n] >= 1
        /\ \A n \in copy[p][r].notes : stored[r][n] >= 1 \/ n \in inserted[p][r]

\* A listing is of what is published.
ListingPublished(p) == stage[p] = "ingest" => listing[p] \subseteq published[current[p]]

SessionOrdered(p) == NotesInSession(p) /\ ListingPublished(p)

\* The row whose lock keeps other passes from storing the same releases
Guard(r) == <<r, "meta">>

\* Rows inserted and not committed are new, one pass's alone, and under a lock, unless
\* they are past the notes.
Alone(p, r, n) ==
    /\ stored[r][n] = 0
    /\ Guard(r) \in locks[p]
    /\ \A q \in Passes \ {p} : n \notin inserted[q][r]

InsertedAlone ==
    \A p \in Passes, r \in Repos : \A n \in inserted[p][r] : Alone(p, r, n) \/ PastNotes(r, n)

OnceInv ==
    /\ Shape /\ NotesInRows /\ (\A p \in Passes : SessionOrdered(p))
    /\ InsertedAlone /\ UniqueReleases

\* There is a row for it, committed or in a session.
HasRow(r, n) == stored[r][n] >= 1 \/ \E p \in Passes : n \in inserted[p][r]

\* Whoever is to announce a release has recorded it, is the only one to announce it, and
\* any announcement before was that of a pass that was lost.
Announcing(p) ==
    \A n \in new[p] : ~PastNotes(current[p], n) =>
        /\ stored[current[p]][n] >= 1 \/ n \in inserted[p][current[p]]
        /\ announced[current[p]][n] <= failed + crashed
        /\ \A q \in Passes \ {p} : current[q] = current[p] => n \notin new[q]

AnnouncementsAccounted ==
    /\ \A r \in Repos, n \in Releases : ~PastNotes(r, n) =>
          /\ announced[r][n] <= failed + crashed + 1
          /\ ~HasRow(r, n) => announced[r][n] <= failed + crashed
    /\ \A p \in Passes : Announcing(p)

--------------------------------------------------------------------------------
LEMMA RowFacts ==
    /\ NewRow \in Rows
    /\ \A row \in Rows :
          /\ row = [pushed |-> row.pushed, mark |-> row.mark, synced |-> row.synced,
                    notes |-> row.notes, ingested |-> row.ingested,
                    refreshed |-> row.refreshed]
          /\ row.pushed \in 0 .. MaxPushes /\ row.mark \in 0 .. MaxPushes
          /\ row.synced \in -1 .. MaxTime /\ row.notes \subseteq Releases
          /\ row.ingested \in 0 .. MaxPushes /\ row.refreshed \in -1 .. MaxTime
BY ParametersAssumption DEF Rows, NewRow, Releases

LEMMA NoSessionType ==
    NoCopies \in [Repos -> Rows] /\ NoneInserted \in [Repos -> SUBSET Releases]
BY RowFacts DEF NoCopies, NoneInserted

LEMMA WrittenType ==
    ASSUME TypeOK, NEW p \in Passes
    PROVE  Written(p) \in [Repos -> Rows]
<1> SUFFICES ASSUME NEW r \in Repos PROVE Written(p)[r] \in Rows
  BY DEF Written
<1>1. copy[p][r] \in Rows /\ base[p][r] \in Rows /\ repository[r] \in Rows
  BY DEF TypeOK
<1> QED BY <1>1, RowFacts DEF Written, Rows

LEMMA NewestType ==
    ASSUME NEW S \in SUBSET Releases, NEW limit
    PROVE  Newest(S, limit) \subseteq S
BY DEF Newest

LEMMA EnrichedType ==
    ASSUME TypeOK, NEW p \in Passes, current[p] \in Repos
    PROVE  /\ Enriched(p) \in [Repos -> Rows]
           /\ \A r \in Repos : r # current[p] => Enriched(p)[r] = copy[p][r]
           /\ Enriched(p)[current[p]]
                = [copy[p][current[p]] EXCEPT !.notes = Newest(listing[p], NotesLimit)]
<1>1. copy[p] \in [Repos -> Rows] /\ listing[p] \subseteq Releases
  BY DEF TypeOK
<1>2. Newest(listing[p], NotesLimit) \subseteq Releases
  BY <1>1, NewestType
<1> QED BY <1>1, <1>2 DEF Enriched, Rows

LEMMA StampedType ==
    ASSUME TypeOK, NEW row \in Rows
    PROVE  Stamped(row) \in Rows
<1>1. clock \in -1 .. MaxTime
  BY ParametersAssumption DEF TypeOK
<1> QED BY <1>1, RowFacts DEF Stamped, Rows

LEMMA TouchedType ==
    ASSUME TypeOK, NEW row \in Rows, NEW r \in Repos
    PROVE  /\ [row EXCEPT !.synced = clock] \in Rows
           /\ [row EXCEPT !.pushed = pushed[r]] \in Rows
           /\ [row EXCEPT !.pushed = pushed[r], !.mark = pushed[r], !.synced = clock] \in Rows
<1>1. clock \in -1 .. MaxTime /\ pushed[r] \in 0 .. MaxPushes
  BY ParametersAssumption DEF TypeOK, Releases
<1> QED BY <1>1 DEF Rows

LEMMA PassTypes ==
    ASSUME TypeOK, NEW p \in Passes
    PROVE  /\ stage[p] \in Stages /\ current[p] \in Repos \cup {NoRepo}
           /\ stage[p] \notin {"idle", "next"} => current[p] \in Repos
           /\ remaining[p] \subseteq Repos /\ listing[p] \subseteq Releases
           /\ copy[p] \in [Repos -> Rows] /\ base[p] \in [Repos -> Rows]
           /\ inserted[p] \in [Repos -> SUBSET Releases] /\ new[p] \subseteq Releases
           /\ locks[p] \subseteq Repos \X {"row", "meta"}
BY DEF TypeOK

LEMMA CommitType ==
    ASSUME TypeOK, NEW p \in Passes, Commit(p)
    PROVE  /\ repository' \in [Repos -> Rows]
           /\ stored' \in [Repos -> [Releases -> Nat]]
           /\ inserted' \in [Passes -> [Repos -> SUBSET Releases]]
           /\ inserted'[p] = NoneInserted
           /\ \A q \in Passes : q # p => inserted'[q] = inserted[q]
           /\ locks' \in [Passes -> SUBSET (Repos \X {"row", "meta"})]
           /\ locks'[p] = {}
           /\ \A q \in Passes : q # p => locks'[q] = locks[q]
<1>1. repository' \in [Repos -> Rows]
  BY WrittenType DEF Commit
<1>2. stored' \in [Repos -> [Releases -> Nat]]
  BY DEF Commit, TypeOK
<1> QED BY <1>1, <1>2, NoSessionType DEF Commit, TypeOK

LEMMA AbandonType ==
    ASSUME Shape, NEW p \in Passes, Abandon(p), failed' \in Nat, crashed' \in Nat
    PROVE  Shape'
BY NoSessionType DEF Abandon, Shape, TypeOK, NewWhileAnnouncing, upstream, database, Stages

LEMMA InitShape == Init => Shape
BY RowFacts, NoSessionType, ParametersAssumption
DEF Init, Shape, TypeOK, NewWhileAnnouncing, Stages, Releases

LEMMA NextShape == ASSUME Shape, [Next]_vars PROVE Shape'
<1> USE DEF upstream, database, cursor, session, history
<1>1. CASE UNCHANGED vars
  BY <1>1 DEF Shape, TypeOK, NewWhileAnnouncing, vars
<1>2. CASE Tick
  BY <1>2, ParametersAssumption DEF Tick, Shape, TypeOK, NewWhileAnnouncing
<1>3. ASSUME NEW r \in Repos, Push(r) PROVE Shape'
  <2>1. pushed' \in [Repos -> Releases]
    BY <1>3, ParametersAssumption, SMTT(30) DEF Push, Shape, TypeOK, Releases
  <2>2. published' \in [Repos -> SUBSET Releases]
    <3>1. pushed[r] + 1 \in Releases
      BY <1>3, ParametersAssumption DEF Push, Shape, TypeOK, Releases
    <3>2. published \in [Repos -> SUBSET Releases]
      BY DEF Shape, TypeOK
    <3>3. published' = published
          \/ published' = [published EXCEPT ![r] = @ \cup {pushed[r] + 1}]
      BY <1>3 DEF Push
    <3> QED BY <3>1, <3>2, <3>3
  <2> QED BY <1>3, <2>1, <2>2 DEF Push, Shape, TypeOK, NewWhileAnnouncing
<1>4. ASSUME NEW r \in Repos, NEW n \in Releases, PublishLate(r, n) PROVE Shape'
  BY <1>4 DEF PublishLate, Shape, TypeOK, NewWhileAnnouncing
<1>5. ASSUME NEW r \in Repos, Discover(r) PROVE Shape'
  BY <1>5, TouchedType DEF Discover, Shape, TypeOK, NewWhileAnnouncing
<1>6. ASSUME NEW p \in Passes, StartPass(p) PROVE Shape'
  BY <1>6 DEF StartPass, Shape, TypeOK, NewWhileAnnouncing, Stages
<1>7. ASSUME NEW p \in Passes, NEW r \in Repos, Skip(p, r) PROVE Shape'
  <2>1. copy' \in [Passes -> [Repos -> Rows]]
    <3>1. copy \in [Passes -> [Repos -> Rows]] /\ copy[p][r] \in Rows
      BY DEF Shape, TypeOK
    <3>2. [copy[p][r] EXCEPT !.synced = clock] \in Rows
      BY <3>1, TouchedType DEF Shape
    <3> QED BY <1>7, <3>1, <3>2 DEF Skip
  <2> QED BY <1>7, <2>1 DEF Skip, Proceed, Shape, TypeOK, NewWhileAnnouncing, Stages
<1>8. ASSUME NEW p \in Passes, NEW r \in Repos, FindChanged(p, r) PROVE Shape'
  <2>1. copy' \in [Passes -> [Repos -> Rows]]
    <3>1. copy \in [Passes -> [Repos -> Rows]] /\ copy[p][r] \in Rows
      BY DEF Shape, TypeOK
    <3>2. [copy[p][r] EXCEPT !.pushed = pushed[r], !.mark = pushed[r], !.synced = clock]
            \in Rows
      BY <3>1, TouchedType DEF Shape
    <3> QED BY <1>8, <3>1, <3>2 DEF FindChanged
  <2> QED
    BY <1>8, <2>1, ParametersAssumption
    DEF FindChanged, Take, Shape, TypeOK, NewWhileAnnouncing, Stages
<1>9. ASSUME NEW p \in Passes, NEW r \in Repos, CheckFails(p, r) PROVE Shape'
  BY <1>9, ParametersAssumption
  DEF CheckFails, Take, Shape, TypeOK, NewWhileAnnouncing, Stages
<1>10. ASSUME NEW p \in Passes, FetchReleases(p) PROVE Shape'
  BY <1>10, NewestType DEF FetchReleases, Shape, TypeOK, NewWhileAnnouncing, Stages
<1>11. ASSUME NEW p \in Passes, FetchFails(p) PROVE Shape'
  BY <1>11 DEF FetchFails, Proceed, Shape, TypeOK, NewWhileAnnouncing, Stages
<1>12. ASSUME NEW p \in Passes, Ingest(p) PROVE Shape'
  <2>1. /\ stage[p] = "ingest" /\ current[p] \in Repos
        /\ stage' = [stage EXCEPT ![p] = "announce"] /\ new' = [new EXCEPT ![p] = Created(p)]
        /\ inserted' = [inserted EXCEPT ![p][current[p]] = @ \cup Created(p)]
        /\ locks' = [locks EXCEPT ![p] = @ \cup Dirty(Enriched(p), base[p])]
        /\ copy' = [copy EXCEPT ![p] = [Enriched(p) EXCEPT ![current[p]] =
                        Stamped(Enriched(p)[current[p]])]]
        /\ UNCHANGED <<pushed, published, late, repository, stored, current, remaining, base,
                       listing, clock, announced, failed, crashed>>
    BY <1>12, PassTypes DEF Ingest, Shape
  <2>2. Created(p) \subseteq Releases /\ Dirty(Enriched(p), base[p]) \subseteq Repos \X {"row", "meta"}
    BY PassTypes DEF Shape, Created, Dirty
  <2>3. [Enriched(p) EXCEPT ![current[p]] = Stamped(Enriched(p)[current[p]])] \in [Repos -> Rows]
    BY <2>1, EnrichedType, StampedType DEF Shape
  <2>4. /\ copy' \in [Passes -> [Repos -> Rows]] /\ new' \in [Passes -> SUBSET Releases]
        /\ inserted' \in [Passes -> [Repos -> SUBSET Releases]]
        /\ locks' \in [Passes -> SUBSET (Repos \X {"row", "meta"})]
    BY <2>1, <2>2, <2>3 DEF Shape, TypeOK
  <2> QED BY <2>1, <2>4 DEF Shape, TypeOK, NewWhileAnnouncing, Stages
<1>13. ASSUME NEW p \in Passes, NEW n \in Releases, Announce(p, n) PROVE Shape'
  <2>1. current[p] \in Repos
    BY <1>13, PassTypes DEF Announce, Shape
  <2>2. announced' \in [Repos -> [Releases -> Nat]]
    BY <1>13, <2>1 DEF Announce, Shape, TypeOK
  <2> QED BY <1>13, <2>2 DEF Announce, Shape, TypeOK, NewWhileAnnouncing, Stages
<1>14. ASSUME NEW p \in Passes, NEW n \in Releases, AnnounceToNobody(p, n) PROVE Shape'
  BY <1>14 DEF AnnounceToNobody, Shape, TypeOK, NewWhileAnnouncing, Stages
<1>15. ASSUME NEW p \in Passes, AnnounceCommits(p) PROVE Shape'
  BY <1>15, CommitType DEF AnnounceCommits, Shape, TypeOK, NewWhileAnnouncing, Stages
<1>16. ASSUME NEW p \in Passes, AnnounceRaises(p) PROVE Shape'
  BY <1>16 DEF AnnounceRaises, Shape, TypeOK, NewWhileAnnouncing, Stages
<1>17. ASSUME NEW p \in Passes, NextRepository(p) PROVE Shape'
  BY <1>17 DEF NextRepository, Proceed, Shape, TypeOK, NewWhileAnnouncing, Stages
<1>18. ASSUME NEW p \in Passes, FinishPass(p) PROVE Shape'
  BY <1>18, CommitType, NoSessionType
  DEF FinishPass, Shape, TypeOK, NewWhileAnnouncing, Stages
<1>19. ASSUME NEW p \in Passes, RepositoryRaises(p) PROVE Shape'
  BY <1>19, AbandonType DEF RepositoryRaises, Shape, TypeOK
<1>20. ASSUME NEW p \in Passes, Crash(p) PROVE Shape'
  BY <1>20, AbandonType, SMTT(30) DEF Crash, Shape, TypeOK
<1> QED
  BY <1>1, <1>2, <1>3, <1>4, <1>5, <1>6, <1>7, <1>8, <1>9, <1>10, <1>11, <1>12, <1>13, <1>14,
     <1>15, <1>16, <1>17, <1>18, <1>19, <1>20 DEF Next, Upstream, Work

\* Every variable keeps its type: rows, the copies that passes hold of them, the stages of a
\* pass (crawler/sync.py:sync_repository) and the locks.
THEOREM TypeCorrect == Spec => []TypeOK
<1>1. Shape /\ [Next]_vars => Shape'
  BY NextShape
<1>2. Shape => TypeOK
  BY DEF Shape
<1> QED BY InitShape, <1>1, <1>2, PTL DEF Spec

--------------------------------------------------------------------------------
(* What a step leaves alone *)

Pass(p) == Work(p) \/ RepositoryRaises(p) \/ Crash(p)

\* The sessions of the other passes stay as they are.
OthersStay(p) ==
    \A q \in Passes \ {p} :
        /\ stage'[q] = stage[q] /\ current'[q] = current[q] /\ remaining'[q] = remaining[q]
        /\ copy'[q] = copy[q] /\ base'[q] = base[q] /\ listing'[q] = listing[q]
        /\ inserted'[q] = inserted[q] /\ new'[q] = new[q] /\ locks'[q] = locks[q]

LEMMA StoredGrows ==
    ASSUME TypeOK, NEW p \in Passes, Commit(p), NEW r \in Repos, NEW n \in Releases
    PROVE  /\ stored'[r][n] = stored[r][n] + IF n \in inserted[p][r] THEN 1 ELSE 0
           /\ stored'[r][n] >= stored[r][n]
           /\ n \in inserted[p][r] => stored'[r][n] >= 1
<1>1. stored[r][n] \in Nat
  BY DEF TypeOK
<1>2. stored'[r][n] = stored[r][n] + IF n \in inserted[p][r] THEN 1 ELSE 0
  BY DEF Commit
<1> QED BY <1>1, <1>2

LEMMA PassFrame ==
    ASSUME Shape, NEW p \in Passes, Pass(p)
    PROVE  /\ UNCHANGED <<pushed, published, late, clock>>
           /\ OthersStay(p)
           /\ \A r \in Repos, n \in Releases : stored'[r][n] >= stored[r][n]
<1> USE DEF upstream, database, cursor, session, history
<1> DEFINE Frame == /\ UNCHANGED <<pushed, published, late, clock>>
                    /\ OthersStay(p)
                    /\ UNCHANGED stored \/ Commit(p)
<1> USE DEF Shape, TypeOK, OthersStay
<1>1. ASSUME StartPass(p) PROVE Frame
  BY <1>1 DEF StartPass
<1>2. ASSUME NEW r \in Repos, Skip(p, r) PROVE Frame
  BY <1>2 DEF Skip, Proceed
<1>3. ASSUME NEW r \in Repos, FindChanged(p, r) PROVE Frame
  BY <1>3 DEF FindChanged, Take
<1>4. ASSUME NEW r \in Repos, CheckFails(p, r) PROVE Frame
  BY <1>4 DEF CheckFails, Take
<1>5. ASSUME FetchReleases(p) PROVE Frame
  BY <1>5 DEF FetchReleases
<1>6. ASSUME FetchFails(p) PROVE Frame
  BY <1>6 DEF FetchFails, Proceed
<1>7. ASSUME Ingest(p) PROVE Frame
  BY <1>7 DEF Ingest
<1>8. ASSUME NEW n \in Releases, Announce(p, n) PROVE Frame
  BY <1>8 DEF Announce
<1>9. ASSUME NEW n \in Releases, AnnounceToNobody(p, n) PROVE Frame
  BY <1>9 DEF AnnounceToNobody
<1>10. ASSUME AnnounceCommits(p) PROVE Frame
  <2>1. /\ Commit(p)
        /\ \A q \in Passes : q # p => inserted'[q] = inserted[q] /\ locks'[q] = locks[q]
    BY <1>10, CommitType DEF AnnounceCommits
  <2>2. /\ UNCHANGED <<pushed, published, late, clock, current, remaining, copy, listing, new>>
        /\ base' = [base EXCEPT ![p] = copy[p]] /\ stage' = [stage EXCEPT ![p] = "announce"]
    BY <1>10 DEF AnnounceCommits
  <2>3. OthersStay(p)
    BY <2>1, <2>2
  <2> QED BY <2>1, <2>2, <2>3
<1>11. ASSUME AnnounceRaises(p) PROVE Frame
  BY <1>11 DEF AnnounceRaises
<1>12. ASSUME NextRepository(p) PROVE Frame
  BY <1>12 DEF NextRepository, Proceed
<1>13. ASSUME FinishPass(p) PROVE Frame
  <2>1. /\ Commit(p)
        /\ \A q \in Passes : q # p => inserted'[q] = inserted[q] /\ locks'[q] = locks[q]
    BY <1>13, CommitType DEF FinishPass
  <2>2. /\ UNCHANGED <<pushed, published, late, clock, current, remaining, listing, new>>
        /\ base' = [base EXCEPT ![p] = NoCopies] /\ copy' = [copy EXCEPT ![p] = NoCopies]
        /\ stage' = [stage EXCEPT ![p] = "idle"]
    BY <1>13 DEF FinishPass
  <2>3. OthersStay(p)
    BY <2>1, <2>2
  <2> QED BY <2>1, <2>2, <2>3
<1>14. ASSUME RepositoryRaises(p) PROVE Frame
  BY <1>14 DEF RepositoryRaises, Abandon
<1>15. ASSUME Crash(p) PROVE Frame
  BY <1>15 DEF Crash, Abandon
<1> HIDE DEF Frame, Shape, TypeOK, OthersStay
<1>16. Frame
  BY <1>1, <1>2, <1>3, <1>4, <1>5, <1>6, <1>7, <1>8, <1>9, <1>10, <1>11, <1>12, <1>13, <1>14,
     <1>15, Zenon DEF Pass, Work
<1>17. ASSUME NEW r \in Repos, NEW n \in Releases PROVE stored'[r][n] >= stored[r][n]
  <2>1. stored[r][n] \in Nat /\ TypeOK
    BY DEF Shape, TypeOK
  <2> QED BY <1>16, <2>1, StoredGrows DEF Frame
<1> QED BY <1>16, <1>17 DEF Frame

--------------------------------------------------------------------------------
(* No session is ahead of its repository *)

LEMMA BehindFacts ==
    ASSUME NothingAhead, NEW r \in Repos, NEW p \in Passes
    PROVE  Behind(repository[r], r) /\ Behind(copy[p][r], r) /\ Behind(base[p][r], r)
BY DEF NothingAhead

LEMMA NewRowBehind == ASSUME TypeOK, NEW r \in Repos PROVE Behind(NewRow, r)
BY DEF TypeOK, Releases, Behind, NewRow

\* What a session writes to a row is its copy's value or the row's own.
LEMMA WrittenBehind ==
    ASSUME TypeOK, NothingAhead, NEW p \in Passes, Commit(p), NEW r \in Repos
    PROVE  Behind(repository'[r], r)
<1>1. /\ repository'[r].pushed \in {copy[p][r].pushed, repository[r].pushed}
      /\ repository'[r].ingested \in {copy[p][r].ingested, repository[r].ingested}
  BY DEF Commit, Written
<1> QED BY <1>1, BehindFacts DEF Behind

LEMMA PassAhead ==
    ASSUME Shape, NothingAhead, NEW p \in Passes, Pass(p), NEW r \in Repos
    PROVE  Behind(repository'[r], r) /\ Behind(copy'[p][r], r) /\ Behind(base'[p][r], r)
<1> USE DEF upstream, database, cursor, session, history
<1> DEFINE Goal == Behind(repository'[r], r) /\ Behind(copy'[p][r], r) /\ Behind(base'[p][r], r)
<1>0. /\ Behind(repository[r], r) /\ Behind(copy[p][r], r) /\ Behind(base[p][r], r)
      /\ Behind(NewRow, r)
      /\ TypeOK
  BY BehindFacts, NewRowBehind DEF Shape
<1>1. ASSUME UNCHANGED <<repository, copy, base>> PROVE Goal
  BY <1>0, <1>1
<1>2. ASSUME StartPass(p) PROVE Goal
  BY <1>0, <1>2 DEF StartPass, TypeOK
<1>3. ASSUME NEW s \in Repos, Skip(p, s) PROVE Goal
  <2>1. /\ UNCHANGED <<repository, base>>
        /\ copy'[p][r].pushed = copy[p][r].pushed /\ copy'[p][r].ingested = copy[p][r].ingested
    BY <1>0, <1>3, RowFacts DEF Skip, TypeOK, Rows
  <2> QED BY <1>0, <2>1 DEF Behind
<1>4. ASSUME NEW s \in Repos, FindChanged(p, s) PROVE Goal
  <2>1. /\ UNCHANGED <<repository, base>>
        /\ copy'[p][r].pushed \in {copy[p][r].pushed, pushed[r]}
        /\ copy'[p][r].ingested = copy[p][r].ingested
    BY <1>0, <1>4, RowFacts DEF FindChanged, TypeOK, Rows
  <2>2. pushed[r] \in Nat
    BY <1>0 DEF TypeOK, Releases
  <2> QED BY <1>0, <2>1, <2>2 DEF Behind
<1>5. ASSUME Ingest(p) PROVE Goal
  <2>1. /\ UNCHANGED <<repository, base>>
        /\ copy'[p][r].pushed = copy[p][r].pushed
        /\ copy'[p][r].ingested \in {copy[p][r].ingested, copy[p][r].pushed}
    BY <1>0, <1>5 DEF Ingest, Enriched, Stamped, TypeOK, Rows
  <2> QED BY <1>0, <2>1 DEF Behind
<1>6. ASSUME AnnounceCommits(p) PROVE Goal
  <2>1. Commit(p) /\ copy' = copy /\ base'[p] = copy[p]
    BY <1>0, <1>6 DEF AnnounceCommits, TypeOK
  <2> QED BY <1>0, <2>1, WrittenBehind
<1>7. ASSUME FinishPass(p) PROVE Goal
  <2>1. Commit(p) /\ copy'[p] = NoCopies /\ base'[p] = NoCopies
    BY <1>0, <1>7 DEF FinishPass, TypeOK
  <2> QED BY <1>0, <2>1, WrittenBehind DEF NoCopies
<1>8. ASSUME RepositoryRaises(p) \/ Crash(p) PROVE Goal
  <2>1. repository' = repository /\ copy'[p] = NoCopies /\ base'[p] = NoCopies
    BY <1>0, <1>8 DEF RepositoryRaises, Crash, Abandon, TypeOK
  <2> QED BY <1>0, <2>1 DEF NoCopies
<1> HIDE DEF Goal
<1>9. ASSUME NEW s \in Repos, CheckFails(p, s) PROVE Goal
  <2>1. UNCHANGED <<repository, copy, base>>
    BY <1>9 DEF CheckFails
  <2> QED BY <1>1, <2>1, Zenon
<1>10. ASSUME FetchReleases(p) \/ FetchFails(p) \/ AnnounceRaises(p) \/ NextRepository(p) PROVE Goal
  <2>1. UNCHANGED <<repository, copy, base>>
    BY <1>10 DEF FetchReleases, FetchFails, AnnounceRaises, NextRepository
  <2> QED BY <1>1, <2>1, Zenon
<1>11. ASSUME NEW n \in Releases, Announce(p, n) \/ AnnounceToNobody(p, n) PROVE Goal
  <2>1. UNCHANGED <<repository, copy, base>>
    BY <1>11 DEF Announce, AnnounceToNobody
  <2> QED BY <1>1, <2>1, Zenon
<1>12. Goal
  BY <1>2, <1>3, <1>4, <1>5, <1>6, <1>7, <1>8, <1>9, <1>10, <1>11, Zenon DEF Pass, Work
<1> QED BY <1>12 DEF Goal

LEMMA NextAhead == ASSUME Shape, NothingAhead, [Next]_vars PROVE NothingAhead'
<1> USE DEF upstream, database, cursor, session, history
<1>1. CASE UNCHANGED vars \/ Tick \/ \E r \in Repos, n \in Releases : PublishLate(r, n)
  BY <1>1 DEF vars, Tick, PublishLate, NothingAhead, Behind
<1>2. ASSUME NEW s \in Repos, Push(s) PROVE NothingAhead'
  <2>1. ASSUME NEW r \in Repos, NEW row \in Rows, Behind(row, r)
        PROVE  row.pushed <= pushed'[r] /\ row.ingested <= pushed'[r]
    <3>1. pushed[r] \in Nat /\ pushed'[r] \in {pushed[r], pushed[r] + 1}
      BY <1>2 DEF Push, Shape, TypeOK, Releases
    <3>2. row.pushed \in Nat /\ row.ingested \in Nat
      BY ParametersAssumption DEF Rows
    <3> QED BY <2>1, <3>1, <3>2 DEF Behind
  <2>2. UNCHANGED <<repository, copy, base>>
    BY <1>2 DEF Push
  <2>3. ASSUME NEW r \in Repos, NEW p \in Passes
        PROVE  repository[r] \in Rows /\ copy[p][r] \in Rows /\ base[p][r] \in Rows
    BY DEF Shape, TypeOK
  <2>4. ASSUME NEW r \in Repos PROVE Behind(repository[r], r)'
    <3>1. repository[r] \in Rows
      BY DEF Shape, TypeOK
    <3> QED BY <2>1, <2>2, <3>1 DEF NothingAhead, Behind
  <2>5. ASSUME NEW r \in Repos, NEW p \in Passes
        PROVE  Behind(copy[p][r], r)' /\ Behind(base[p][r], r)'
    BY <2>1, <2>2, <2>3, BehindFacts DEF Behind
  <2> QED BY <2>4, <2>5 DEF NothingAhead
<1>3. ASSUME NEW s \in Repos, Discover(s) PROVE NothingAhead'
  <2>1. /\ UNCHANGED <<pushed, copy, base>>
        /\ \A r \in Repos : /\ repository'[r].pushed \in {repository[r].pushed, pushed[r]}
                             /\ repository'[r].ingested = repository[r].ingested
    BY <1>3 DEF Discover, Shape, TypeOK, Rows
  <2>2. \A r \in Repos : pushed[r] \in Nat
    BY DEF Shape, TypeOK, Releases
  <2> QED BY <2>1, <2>2 DEF NothingAhead, Behind
<1>4. ASSUME NEW p \in Passes, Pass(p) PROVE NothingAhead'
  <2>1. ASSUME NEW r \in Repos, NEW q \in Passes, q # p
        PROVE  Behind(copy[q][r], r)' /\ Behind(base[q][r], r)'
    BY <1>4, <2>1, PassFrame, BehindFacts DEF OthersStay, Behind
  <2>2. ASSUME NEW r \in Repos
        PROVE  Behind(repository[r], r)' /\ Behind(copy[p][r], r)' /\ Behind(base[p][r], r)'
    BY <1>4, PassFrame, PassAhead DEF Behind
  <2> QED BY <2>1, <2>2 DEF NothingAhead
<1> QED BY <1>1, <1>2, <1>3, <1>4, Zenon DEF Next, Upstream, Pass

--------------------------------------------------------------------------------
(* A sync that went through left no gap *)

RowUpToSync(r) == StoredUpTo(r, repository[r].ingested)

LEMMA GapFacts ==
    ASSUME NoGap, NEW p \in Passes, NEW r \in Repos
    PROVE  /\ RowUpToSync(r) /\ SessionUpToSync(p, r)
           /\ stage[p] = "ingest" /\ current[p] = r => Listed(p, r)
BY DEF NoGap, ReleasesUpToSync, RowUpToSync

LEMMA UpToSyncTypes ==
    ASSUME TypeOK, NEW r \in Repos, NEW n \in published[r]
    PROVE  /\ n \in Releases /\ n \in Nat /\ n >= 1 /\ stored[r][n] \in Nat
           /\ repository[r].ingested \in Nat /\ pushed[r] \in Nat
           /\ \A p \in Passes : copy[p][r].ingested \in Nat /\ copy[p][r].pushed \in Nat
<1>1. n \in Releases /\ n \in Nat /\ n >= 1 /\ stored[r][n] \in Nat /\ pushed[r] \in Nat
  <2>1. published[r] \subseteq Releases /\ stored[r] \in [Releases -> Nat] /\ pushed[r] \in Releases
    BY DEF TypeOK
  <2>2. n \in Releases
    BY <2>1
  <2>3. stored[r][n] \in Nat
    BY <2>1, <2>2
  <2>4. n \in Nat /\ n >= 1 /\ pushed[r] \in Nat
    BY <2>1, <2>2, ParametersAssumption DEF Releases
  <2> QED BY <2>2, <2>3, <2>4
<1>2. \A row \in Rows : row.pushed \in Nat /\ row.ingested \in Nat
  BY ParametersAssumption DEF Rows
<1>3. repository[r] \in Rows /\ \A p \in Passes : copy[p][r] \in Rows
  BY DEF TypeOK
<1> QED BY <1>1, <1>2, <1>3

\* Rows once stored, and releases once superseded, stay so.
LEMMA RowStays ==
    ASSUME TypeOK, TypeOK', NEW r \in Repos, RowUpToSync(r),
           UNCHANGED <<published, late>>, repository'[r].ingested = repository[r].ingested,
           \A n \in Releases : stored'[r][n] >= stored[r][n]
    PROVE  RowUpToSync(r)'
<1> SUFFICES ASSUME NEW n \in published[r] \ late[r], n <= repository[r].ingested,
                    ~ Superseded(r, n)
             PROVE  stored'[r][n] >= 1
  BY DEF RowUpToSync, StoredUpTo, Superseded
<1>1. n \in Releases /\ stored[r][n] \in Nat /\ stored'[r][n] \in Nat
  BY DEF TypeOK
<1>2. stored[r][n] >= 1
  BY DEF RowUpToSync, StoredUpTo
<1> QED BY <1>1, <1>2

LEMMA SessionStays ==
    ASSUME TypeOK, TypeOK', NEW r \in Repos, NEW p \in Passes, SessionUpToSync(p, r),
           UNCHANGED <<published, late>>, copy'[p][r].ingested = copy[p][r].ingested,
           \A n \in Releases : stored'[r][n] >= stored[r][n],
           \A n \in inserted[p][r] : n \in inserted'[p][r] \/ stored'[r][n] >= 1
    PROVE  SessionUpToSync(p, r)'
<1> SUFFICES ASSUME NEW n \in published[r] \ late[r], n <= copy[p][r].ingested,
                    ~ Superseded(r, n)
             PROVE  stored'[r][n] >= 1 \/ n \in inserted'[p][r]
  BY DEF SessionUpToSync, Superseded
<1>1. n \in Releases /\ stored[r][n] \in Nat /\ stored'[r][n] \in Nat
  BY DEF TypeOK
<1>2. stored[r][n] >= 1 \/ n \in inserted[p][r]
  BY DEF SessionUpToSync
<1> QED BY <1>1, <1>2

LEMMA ReleasesFinite == IsFiniteSet(Releases)
<1>1. 1 \in Int /\ MaxPushes \in Int
  BY ParametersAssumption
<1> QED BY <1>1, FS_Interval DEF Releases

LEMMA ListingComplete ==
    ASSUME TypeOK, NEW r \in Repos, NEW n \in published[r],
           n \notin Newest(published[r], ReleaseLimit)
    PROVE  Superseded(r, n)
<1> DEFINE Newer == {k \in published[r] : k > n}
<1>1. IsFiniteSet(Newer)
  <2>1. Newer \subseteq Releases
    BY DEF TypeOK
  <2> QED BY <2>1, ReleasesFinite, FS_Subset
<1>2. Cardinality(Newer) \in Nat
  BY <1>1, FS_CardinalityType
<1>3. ~ (Cardinality(Newer) < ReleaseLimit)
  BY DEF Newest
<1> HIDE DEF Newer
<1>4. Cardinality(Newer) >= ReleaseLimit
  BY <1>2, <1>3, ParametersAssumption
<1> QED BY <1>4 DEF Newer, Superseded

\* What an ingest leaves in the session's copies and in its list of inserted rows
LEMMA IngestEffect ==
    ASSUME TypeOK, NEW p \in Passes, Ingest(p), NEW r \in Repos
    PROVE  /\ current[p] \in Repos
           /\ r = current[p] =>
                 /\ copy'[p][r].pushed = copy[p][r].pushed
                 /\ copy'[p][r].ingested = copy[p][r].pushed
                 /\ copy'[p][r].notes = Newest(listing[p], NotesLimit)
                 /\ inserted'[p][r] = inserted[p][r] \cup Created(p)
           /\ r # current[p] => copy'[p][r] = copy[p][r] /\ inserted'[p][r] = inserted[p][r]
<1>1. current[p] \in Repos
  BY PassTypes DEF Ingest
<1>2. /\ inserted'[p] = [inserted[p] EXCEPT ![current[p]] = @ \cup Created(p)]
      /\ copy'[p] = [Enriched(p) EXCEPT ![current[p]] = Stamped(Enriched(p)[current[p]])]
  BY <1>1 DEF Ingest, TypeOK
<1>3. inserted[p] \in [Repos -> SUBSET Releases] /\ copy[p][r] \in Rows
  BY PassTypes
<1>4. CASE r = current[p]
  <2>1. copy'[p][r] = Stamped(Enriched(p)[r])
    BY <1>1, <1>2, <1>4, EnrichedType
  <2>2. Enriched(p)[r] = [copy[p][r] EXCEPT !.notes = Newest(listing[p], NotesLimit)]
    BY <1>1, <1>4, EnrichedType
  <2>3. /\ copy'[p][r].pushed = copy[p][r].pushed
        /\ copy'[p][r].ingested = copy[p][r].pushed
        /\ copy'[p][r].notes = Newest(listing[p], NotesLimit)
    BY <1>3, <2>1, <2>2 DEF Stamped, Rows
  <2> QED BY <1>1, <1>2, <1>3, <1>4, <2>3
<1>5. CASE r # current[p]
  <2>1. copy'[p][r] = Enriched(p)[r]
    BY <1>1, <1>2, <1>5, EnrichedType
  <2> QED BY <1>1, <1>2, <1>3, <1>5, <2>1, EnrichedType
<1> QED BY <1>4, <1>5

LEMMA IngestGap ==
    ASSUME Shape, NoGap, NEW p \in Passes, Ingest(p), NEW r \in Repos
    PROVE  SessionUpToSync(p, r)'
<1> SUFFICES ASSUME NEW n \in published[r] \ late[r], n <= copy'[p][r].ingested,
                    ~ Superseded(r, n)
             PROVE  stored[r][n] >= 1 \/ n \in inserted'[p][r]
  BY DEF Ingest, SessionUpToSync, Superseded, upstream, database
<1>1. /\ n \in Releases /\ stored[r][n] \in Nat /\ TypeOK
      /\ stage[p] = "ingest" /\ current[p] \in Repos
  BY UpToSyncTypes, PassTypes DEF Shape, Ingest
<1>2. CASE r = current[p]
  <2>1. copy'[p][r].ingested = copy[p][r].pushed /\ inserted'[p][r] = inserted[p][r] \cup Created(p)
    BY <1>1, <1>2, IngestEffect
  <2>2. n \in listing[p]
    BY <1>1, <1>2, <2>1, GapFacts DEF Listed
  <2>3. stored[r][n] = 0 /\ n \notin inserted[p][r] => n \in Created(p)
    BY <1>2, <2>2 DEF Created
  <2> QED BY <1>1, <2>1, <2>3
<1>3. CASE r # current[p]
  <2>1. copy'[p][r] = copy[p][r] /\ inserted'[p][r] = inserted[p][r]
    BY <1>1, <1>3, IngestEffect
  <2> QED BY <2>1, GapFacts DEF SessionUpToSync
<1> QED BY <1>2, <1>3

LEMMA CommitGap ==
    ASSUME Shape, NoGap, NEW p \in Passes, Commit(p), NEW r \in Repos,
           UNCHANGED <<published, late>>
    PROVE  RowUpToSync(r)'
<1> SUFFICES ASSUME NEW n \in published[r] \ late[r], n <= repository'[r].ingested,
                    ~ Superseded(r, n)
             PROVE  stored'[r][n] >= 1
  BY DEF RowUpToSync, StoredUpTo, Superseded
<1>1. n \in Releases /\ stored[r][n] \in Nat /\ TypeOK
  BY UpToSyncTypes DEF Shape
<1>2. repository'[r].ingested \in {copy[p][r].ingested, repository[r].ingested}
  BY DEF Commit, Written
<1>3. stored[r][n] >= 1 \/ n \in inserted[p][r]
  BY <1>2, GapFacts DEF RowUpToSync, StoredUpTo, SessionUpToSync
<1> QED BY <1>1, <1>3, StoredGrows

LEMMA PassGap ==
    ASSUME Shape, Shape', NoGap, NEW p \in Passes, Pass(p), NEW r \in Repos
    PROVE  /\ RowUpToSync(r)' /\ SessionUpToSync(p, r)'
           /\ stage'[p] = "ingest" /\ current'[p] = r => Listed(p, r)'
<1> USE DEF upstream, database, cursor, session, history
<1> DEFINE Goal == /\ RowUpToSync(r)' /\ SessionUpToSync(p, r)'
                   /\ stage'[p] = "ingest" /\ current'[p] = r => Listed(p, r)'
<1>0. /\ TypeOK /\ TypeOK' /\ UNCHANGED <<published, late>>
      /\ \A n \in Releases : stored'[r][n] >= stored[r][n]
      /\ RowUpToSync(r) /\ SessionUpToSync(p, r)
  BY PassFrame, GapFacts DEF Shape
<1>1. ASSUME repository'[r].ingested = repository[r].ingested,
             copy'[p][r].ingested = copy[p][r].ingested,
             UNCHANGED inserted, stage'[p] # "ingest"
      PROVE  Goal
  BY <1>0, <1>1, RowStays, SessionStays
<1>2. ASSUME StartPass(p) PROVE Goal
  <2>1. /\ UNCHANGED <<repository, stored>> /\ copy'[p] = repository /\ stage'[p] # "ingest"
    BY <1>0, <1>2 DEF StartPass, TypeOK
  <2>2. RowUpToSync(r)'
    BY <1>0, <2>1, RowStays
  <2>3. SessionUpToSync(p, r)'
    BY <1>0, <2>1, <2>2 DEF RowUpToSync, StoredUpTo, SessionUpToSync, Superseded
  <2> QED BY <2>1, <2>2, <2>3
<1>3. ASSUME NEW s \in Repos, Skip(p, s) \/ FindChanged(p, s) PROVE Goal
  <2>1. /\ UNCHANGED <<repository, inserted>>
        /\ stage'[p] # "ingest"
    BY <1>0, <1>3 DEF Skip, Proceed, FindChanged, Take, TypeOK
  <2>2. copy'[p][r].ingested = copy[p][r].ingested
    <3>1. CASE Skip(p, s)
      BY <1>0, <3>1, RowFacts DEF Skip, TypeOK, Rows
    <3>2. CASE FindChanged(p, s)
      BY <1>0, <3>2, RowFacts DEF FindChanged, TypeOK, Rows
    <3> QED BY <1>3, <3>1, <3>2
  <2> QED BY <1>1, <2>1, <2>2
<1>4. ASSUME FetchReleases(p) PROVE Goal
  <2>1. /\ UNCHANGED <<repository, copy, inserted, published, current>>
        /\ listing'[p] = Newest(published[current[p]], ReleaseLimit)
    BY <1>0, <1>4 DEF FetchReleases, TypeOK
  <2>2. RowUpToSync(r)' /\ SessionUpToSync(p, r)'
    BY <1>0, <2>1, RowStays, SessionStays
  <2>3. ASSUME current[p] = r PROVE Listed(p, r)'
    BY <1>0, <2>1, <2>3, ListingComplete DEF Listed, Superseded
  <2> QED BY <2>1, <2>2, <2>3
<1>5. ASSUME Ingest(p) PROVE Goal
  <2>1. UNCHANGED repository /\ stage'[p] # "ingest"
    BY <1>0, <1>5 DEF Ingest, TypeOK
  <2> QED BY <1>0, <1>5, <2>1, RowStays, IngestGap
<1>6. ASSUME AnnounceCommits(p) PROVE Goal
  <2>1. Commit(p) /\ UNCHANGED copy /\ stage'[p] # "ingest"
    BY <1>0, <1>6 DEF AnnounceCommits, TypeOK
  <2>2. RowUpToSync(r)'
    BY <1>0, <2>1, CommitGap
  <2>3. \A n \in inserted[p][r] : stored'[r][n] >= 1
    BY <1>0, <2>1, StoredGrows, PassTypes
  <2> QED BY <1>0, <2>1, <2>2, <2>3, SessionStays
<1>7. ASSUME copy'[p] = NoCopies PROVE SessionUpToSync(p, r)'
  BY <1>0, <1>7, UpToSyncTypes DEF SessionUpToSync, NoCopies, NewRow
<1>8. ASSUME FinishPass(p) PROVE Goal
  <2>1. Commit(p) /\ copy'[p] = NoCopies /\ stage'[p] # "ingest"
    BY <1>0, <1>8 DEF FinishPass, TypeOK
  <2> QED BY <1>0, <1>7, <2>1, CommitGap
<1>9. ASSUME RepositoryRaises(p) \/ Crash(p) PROVE Goal
  <2>1. UNCHANGED repository /\ copy'[p] = NoCopies /\ stage'[p] # "ingest"
    BY <1>0, <1>9 DEF RepositoryRaises, Crash, Abandon, TypeOK
  <2> QED BY <1>0, <1>7, <2>1, RowStays
<1>10. ASSUME \/ \E s \in Repos : CheckFails(p, s)
              \/ FetchFails(p) \/ AnnounceRaises(p) \/ NextRepository(p)
              \/ \E n \in Releases : Announce(p, n) \/ AnnounceToNobody(p, n)
       PROVE  Goal
  <2>1. UNCHANGED <<repository, copy, inserted>> /\ stage'[p] # "ingest"
    BY <1>0, <1>10
    DEF CheckFails, Take, FetchFails, AnnounceRaises, NextRepository, Proceed, Announce,
        AnnounceToNobody, TypeOK
  <2> QED BY <1>1, <2>1
<1> HIDE DEF Goal
<1>11. Goal
  BY <1>2, <1>3, <1>4, <1>5, <1>6, <1>8, <1>9, <1>10, Zenon DEF Pass, Work
<1> QED BY <1>11 DEF Goal

\* Upstream only adds releases of pushes that no session knows of yet, and late ones.
LEMMA UpstreamGap ==
    ASSUME Shape, Shape', NothingAhead, NoGap,
           UNCHANGED <<stored, copy, inserted, stage, current, listing>>,
           \A r \in Repos : /\ repository'[r].ingested = repository[r].ingested
                            /\ published[r] \subseteq published'[r]
                            /\ \A n \in published'[r] \ late'[r] :
                                  n <= pushed[r] => n \in published[r] \ late[r]
    PROVE  NoGap'
<1>1. ASSUME NEW r \in Repos, NEW n \in published'[r] \ late'[r], n <= pushed[r]
      PROVE  /\ n \in published[r] \ late[r]
             /\ Superseded(r, n) => Superseded(r, n)'
  <2>1. n \in published[r] \ late[r]
    BY <1>1
  <2>2. ASSUME Superseded(r, n) PROVE Superseded(r, n)'
    <3> DEFINE Newer(S) == {k \in S : k > n}
    <3>1. IsFiniteSet(Newer(published'[r]))
      <4>1. Newer(published'[r]) \subseteq Releases
        BY DEF Shape, TypeOK
      <4> QED BY <4>1, ReleasesFinite, FS_Subset
    <3>2. Newer(published[r]) \subseteq Newer(published'[r])
      OBVIOUS
    <3>3. /\ Cardinality(Newer(published[r])) \in Nat
          /\ Cardinality(Newer(published'[r])) \in Nat
          /\ Cardinality(Newer(published[r])) <= Cardinality(Newer(published'[r]))
      BY <3>1, <3>2, FS_Subset, FS_CardinalityType
    <3>4. Cardinality(Newer(published[r])) >= ReleaseLimit
      BY <2>2 DEF Superseded
    <3> HIDE DEF Newer
    <3>5. Cardinality(Newer(published'[r])) >= ReleaseLimit
      BY <3>3, <3>4, ParametersAssumption
    <3> QED BY <3>5 DEF Newer, Superseded
  <2> QED BY <2>1, <2>2
<1>2. ASSUME NEW r \in Repos, NEW row, Behind(row, r), row.pushed \in Nat, row.ingested \in Nat,
             NEW n \in published'[r] \ late'[r]
      PROVE  /\ n <= row.pushed => n <= pushed[r]
             /\ n <= row.ingested => n <= pushed[r]
  <2>1. n \in Nat /\ pushed[r] \in Nat
    BY DEF Shape, TypeOK, Releases
  <2> QED BY <1>2, <2>1 DEF Behind
<1>3. ASSUME NEW r \in Repos PROVE RowUpToSync(r)'
  <2>1. SUFFICES ASSUME NEW n \in published'[r] \ late'[r], n <= repository[r].ingested
                 PROVE  stored[r][n] >= 1 \/ Superseded(r, n)'
    BY DEF RowUpToSync, StoredUpTo
  <2>2. /\ Behind(repository[r], r) /\ repository[r].pushed \in Nat
        /\ repository[r].ingested \in Nat
    BY ParametersAssumption DEF NothingAhead, Shape, TypeOK, Rows
  <2>3. n <= pushed[r]
    BY <1>2, <2>1, <2>2
  <2>4. n \in published[r] \ late[r] /\ (Superseded(r, n) => Superseded(r, n)')
    BY <1>1, <2>3
  <2> QED BY <2>1, <2>4 DEF NoGap, ReleasesUpToSync, StoredUpTo
<1>4. ASSUME NEW r \in Repos, NEW p \in Passes
      PROVE  /\ SessionUpToSync(p, r)'
             /\ stage'[p] = "ingest" /\ current'[p] = r => Listed(p, r)'
  <2>1. /\ Behind(copy[p][r], r) /\ copy[p][r].pushed \in Nat /\ copy[p][r].ingested \in Nat
    BY ParametersAssumption DEF NothingAhead, Shape, TypeOK, Rows
  <2>2. ASSUME NEW n \in published'[r] \ late'[r],
               n <= copy[p][r].ingested \/ n <= copy[p][r].pushed
        PROVE  n \in published[r] \ late[r] /\ (Superseded(r, n) => Superseded(r, n)')
    <3>1. n <= pushed[r]
      BY <1>2, <2>1, <2>2
    <3> QED BY <1>1, <3>1
  <2>3. SessionUpToSync(p, r)'
    BY <2>2, GapFacts DEF SessionUpToSync
  <2>4. ASSUME stage'[p] = "ingest" /\ current'[p] = r PROVE Listed(p, r)'
    BY <2>2, <2>4, GapFacts DEF Listed
  <2> QED BY <2>3, <2>4
<1> QED BY <1>3, <1>4 DEF NoGap, ReleasesUpToSync, RowUpToSync

LEMMA NextGap == ASSUME SyncInv, [Next]_vars PROVE NoGap'
<1> USE DEF upstream, database, cursor, session, history
<1>0. Shape /\ NothingAhead /\ NoGap /\ Shape'
  BY NextShape DEF SyncInv
<1>1. CASE UNCHANGED vars
  <2>1. /\ UNCHANGED <<stored, copy, inserted, stage, current, listing, repository, published,
                       late>>
    BY <1>1 DEF vars
  <2> QED BY <1>0, <2>1, UpstreamGap
<1>2. CASE Tick
  <2>1. /\ UNCHANGED <<stored, copy, inserted, stage, current, listing, repository, published,
                       late>>
    BY <1>2 DEF Tick
  <2> QED BY <1>0, <2>1, UpstreamGap
<1>3. ASSUME NEW s \in Repos, Push(s) PROVE NoGap'
  <2>1. UNCHANGED <<stored, copy, inserted, stage, current, listing, repository, late>>
    BY <1>3 DEF Push
  <2>2. ASSUME NEW r \in Repos
        PROVE  /\ published[r] \subseteq published'[r]
               /\ \A n \in published'[r] : n \notin published[r] => n = pushed[r] + 1
    <3>1. published \in [Repos -> SUBSET Releases]
      BY <1>0 DEF Shape, TypeOK
    <3>2. CASE published' = published
      BY <3>2
    <3>3. CASE published' = [published EXCEPT ![s] = @ \cup {pushed[s] + 1}]
      BY <3>1, <3>3
    <3> QED BY <1>3, <3>2, <3>3 DEF Push
  <2>3. ASSUME NEW r \in Repos PROVE pushed[r] \in Nat
    BY <1>0 DEF Shape, TypeOK, Releases
  <2>4. ASSUME NEW r \in Repos, NEW n \in published'[r] \ late'[r], n <= pushed[r]
        PROVE  n \in published[r] \ late[r]
    BY <2>1, <2>2, <2>3, <2>4
  <2> QED BY <1>0, <2>1, <2>2, <2>4, UpstreamGap
<1>4. ASSUME NEW s \in Repos, NEW m \in Releases, PublishLate(s, m) PROVE NoGap'
  <2>1. UNCHANGED <<stored, copy, inserted, stage, current, listing, repository>>
    BY <1>4 DEF PublishLate
  <2>2. ASSUME NEW r \in Repos
        PROVE  /\ published[r] \subseteq published'[r]
               /\ \A n \in published'[r] \ late'[r] : n \in published[r] \ late[r]
    BY <1>0, <1>4 DEF PublishLate, Shape, TypeOK
  <2> QED BY <1>0, <2>1, <2>2, UpstreamGap
<1>5. ASSUME NEW s \in Repos, Discover(s) PROVE NoGap'
  <2>1. UNCHANGED <<stored, copy, inserted, stage, current, listing, published, late>>
    BY <1>5 DEF Discover
  <2>2. \A r \in Repos : repository'[r].ingested = repository[r].ingested
    BY <1>0, <1>5 DEF Discover, Shape, TypeOK, Rows
  <2> QED BY <1>0, <2>1, <2>2, UpstreamGap
<1>6. ASSUME NEW p \in Passes, Pass(p) PROVE NoGap'
  <2>1. ASSUME NEW r \in Repos
        PROVE  /\ RowUpToSync(r)' /\ SessionUpToSync(p, r)'
               /\ stage'[p] = "ingest" /\ current'[p] = r => Listed(p, r)'
    BY <1>0, <1>6, PassGap
  <2>2. ASSUME NEW r \in Repos, NEW q \in Passes, q # p
        PROVE  /\ SessionUpToSync(q, r)'
               /\ stage'[q] = "ingest" /\ current'[q] = r => Listed(q, r)'
    <3>1. /\ TypeOK /\ TypeOK' /\ UNCHANGED <<published, late>>
          /\ \A n \in Releases : stored'[r][n] >= stored[r][n]
          /\ stage'[q] = stage[q] /\ current'[q] = current[q] /\ copy'[q] = copy[q]
          /\ inserted'[q] = inserted[q] /\ listing'[q] = listing[q]
      BY <1>0, <1>6, <2>2, PassFrame DEF Shape, OthersStay
    <3>2. SessionUpToSync(q, r)'
      BY <1>0, <3>1, GapFacts, SessionStays
    <3>3. ASSUME stage'[q] = "ingest" /\ current'[q] = r PROVE Listed(q, r)'
      <4>1. Listed(q, r)
        BY <1>0, <3>1, <3>3, GapFacts
      <4> QED BY <3>1, <4>1 DEF Listed, Superseded
    <3> QED BY <3>2, <3>3
  <2> QED BY <2>1, <2>2 DEF NoGap, ReleasesUpToSync, RowUpToSync
<1> QED BY <1>1, <1>2, <1>3, <1>4, <1>5, <1>6, Zenon DEF Next, Upstream, Pass

LEMMA InitSync == Init => SyncInv
<1> SUFFICES ASSUME Init PROVE SyncInv
  OBVIOUS
<1>1. Shape
  BY InitShape
<1>2. NothingAhead
  BY DEF Init, NothingAhead, Behind, NoCopies, NewRow
<1>3. NoGap
  BY DEF Init, NoGap, ReleasesUpToSync, StoredUpTo, SessionUpToSync
<1> QED BY <1>1, <1>2, <1>3 DEF SyncInv

\* What upstream released up to the pushed_at a sync recorded is stored (sync.py:209).
THEOREM NothingMissed == Spec => []ReleasesUpToSync
<1>1. SyncInv /\ [Next]_vars => SyncInv'
  BY NextShape, NextAhead, NextGap DEF SyncInv
<1>2. SyncInv => ReleasesUpToSync
  BY DEF SyncInv, NoGap
<1> QED BY InitSync, <1>1, <1>2, PTL DEF Spec

--------------------------------------------------------------------------------
(* No release is stored twice *)

LEMMA OnceFacts ==
    ASSUME OnceInv
    PROVE  Shape /\ TypeOK /\ NotesInRows /\ InsertedAlone /\ UniqueReleases
           /\ \A p \in Passes : NotesInSession(p) /\ ListingPublished(p)
BY DEF OnceInv, SessionOrdered, Shape

\* Newer releases keep coming out, and none is withdrawn.
LEMMA PastNotesStays ==
    ASSUME TypeOK, TypeOK', NEW r \in Repos, published[r] \subseteq published'[r],
           NEW n \in Releases, PastNotes(r, n)
    PROVE  PastNotes(r, n)'
<1> DEFINE T == {k \in published[r] : k > n}
           U == {k \in published'[r] : k > n}
<1>1. T \subseteq U /\ U \subseteq Releases
  BY DEF TypeOK
<1>2. IsFiniteSet(U) /\ IsFiniteSet(T)
  BY <1>1, ReleasesFinite, FS_Subset
<1>3. Cardinality(T) <= Cardinality(U) /\ Cardinality(T) \in Nat /\ Cardinality(U) \in Nat
  BY <1>1, <1>2, FS_Subset, FS_CardinalityType
<1>4. Cardinality(T) >= NotesLimit /\ NotesLimit \in Nat
  BY ParametersAssumption DEF PastNotes
<1> HIDE DEF T, U
<1>5. Cardinality(U) >= NotesLimit
  BY <1>3, <1>4
<1> QED BY <1>5 DEF U, PastNotes

LEMMA PublishedGrows ==
    ASSUME Shape, [Next]_vars
    PROVE  \A r \in Repos : published[r] \subseteq published'[r]
<1> USE DEF upstream, database, cursor, session, history
<1>0. published \in [Repos -> SUBSET Releases]
  BY DEF Shape, TypeOK
<1>1. ASSUME NEW s \in Repos, Push(s) \/ \E n \in Releases : PublishLate(s, n)
      PROVE  \A r \in Repos : published[r] \subseteq published'[r]
  BY <1>0, <1>1 DEF Push, PublishLate
<1>2. CASE UNCHANGED vars \/ Tick \/ \E s \in Repos : Discover(s)
  BY <1>2 DEF vars, Tick, Discover
<1>3. ASSUME NEW p \in Passes, Pass(p) PROVE UNCHANGED published
  BY <1>3, PassFrame
<1> QED BY <1>1, <1>2, <1>3, Zenon DEF Next, Upstream, Pass

LEMMA NotesLockTaken ==
    ASSUME OnceInv, NEW p \in Passes, Ingest(p),
           NEW n \in Created(p), ~PastNotes(current[p], n)
    PROVE  <<current[p], "meta">> \in Dirty(Enriched(p), base[p])
<1> DEFINE r == current[p]
<1>1. stage[p] = "ingest" /\ r \in Repos /\ TypeOK
  BY OnceFacts, PassTypes DEF Ingest
<1>2. n \in listing[p] /\ stored[r][n] = 0 /\ n \in Releases
  BY <1>1, PassTypes DEF Created
<1>3. n \in Newest(listing[p], NotesLimit)
  <2> DEFINE Newer == {k \in listing[p] : k > n}
             Out   == {k \in published[r] : k > n}
  <2>1. Newer \subseteq Out /\ Out \subseteq Releases
    BY <1>1, OnceFacts DEF ListingPublished, TypeOK
  <2>2. IsFiniteSet(Out) /\ IsFiniteSet(Newer)
    BY <2>1, ReleasesFinite, FS_Subset
  <2>3. /\ Cardinality(Newer) \in Nat /\ Cardinality(Out) \in Nat
        /\ Cardinality(Newer) <= Cardinality(Out)
    BY <2>1, <2>2, FS_Subset, FS_CardinalityType
  <2>4. ~(Cardinality(Out) >= NotesLimit) /\ NotesLimit \in Nat
    BY ParametersAssumption DEF PastNotes
  <2> HIDE DEF Newer, Out
  <2>5. Cardinality(Newer) < NotesLimit
    BY <2>3, <2>4
  <2> QED BY <1>2, <2>5 DEF Newer, Newest
<1>4. n \notin base[p][r].notes
  <2>1. NotesInSession(p)
    BY OnceFacts
  <2> QED BY <1>1, <1>2, <2>1 DEF NotesInSession
<1>5. Enriched(p)[r].notes = Newest(listing[p], NotesLimit)
  <2>1. Enriched(p)[r] = [copy[p][r] EXCEPT !.notes = Newest(listing[p], NotesLimit)]
        /\ copy[p][r] \in Rows
    BY <1>1, EnrichedType, PassTypes
  <2> QED BY <2>1 DEF Rows
<1>6. Enriched(p)[r].notes # base[p][r].notes
  BY <1>3, <1>4, <1>5
<1> QED BY <1>1, <1>6 DEF Dirty, Differ

\* What a pass inserts no other session has inserted: that session would hold the row this
\* one writes first.
LEMMA CreatedAlone ==
    ASSUME OnceInv, NEW p \in Passes, Ingest(p), NEW n \in Created(p),
           ~PastNotes(current[p], n)
    PROVE  /\ current[p] \in Repos /\ n \in Releases /\ stored[current[p]][n] = 0
           /\ Guard(current[p]) \in Dirty(Enriched(p), base[p])
           /\ \A q \in Passes : n \notin inserted[q][current[p]]
<1>1. current[p] \in Repos /\ TypeOK /\ CanFlush(p, Enriched(p))
  BY OnceFacts, PassTypes DEF Ingest
<1>2. n \in Releases /\ stored[current[p]][n] = 0 /\ n \notin inserted[p][current[p]]
  BY <1>1, PassTypes DEF Created
<1>3. Guard(current[p]) \in Dirty(Enriched(p), base[p])
  BY NotesLockTaken DEF Guard
<1>4. ASSUME NEW q \in Passes, q # p PROVE n \notin inserted[q][current[p]]
  <2> SUFFICES ASSUME n \in inserted[q][current[p]] PROVE FALSE
    OBVIOUS
  <2>1. Guard(current[p]) \in locks[q]
    BY <1>1, OnceFacts DEF InsertedAlone, Alone
  <2>2. Guard(current[p]) \in Held(p)
    BY <1>4, <2>1 DEF Held
  <2> QED BY <1>1, <1>3, <2>2 DEF CanFlush
<1> QED BY <1>1, <1>2, <1>3, <1>4

\* What a pass does to the rows and to the locks
LEMMA RowSteps ==
    ASSUME Shape, NEW p \in Passes, Pass(p)
    PROVE  \/ UNCHANGED <<repository, stored, inserted, locks, failed, crashed>>
           \/ Ingest(p)
           \/ AnnounceCommits(p) \/ FinishPass(p)
           \/ RepositoryRaises(p) \/ Crash(p)
<1> USE DEF upstream, database, cursor, session, history
<1> DEFINE Quiet == UNCHANGED <<repository, stored, inserted, locks, failed, crashed>>
<1>1. ASSUME NEW r \in Repos, Skip(p, r) \/ FindChanged(p, r) \/ CheckFails(p, r) PROVE Quiet
  BY <1>1 DEF Skip, FindChanged, CheckFails
<1>2. ASSUME NEW n \in Releases, Announce(p, n) \/ AnnounceToNobody(p, n) PROVE Quiet
  BY <1>2 DEF Announce, AnnounceToNobody
<1>3. ASSUME \/ StartPass(p) \/ FetchReleases(p) \/ FetchFails(p) \/ AnnounceRaises(p)
             \/ NextRepository(p)
      PROVE  Quiet
  BY <1>3 DEF StartPass, FetchReleases, FetchFails, AnnounceRaises, NextRepository
<1> HIDE DEF Quiet
<1>4. \/ Quiet \/ Ingest(p) \/ AnnounceCommits(p) \/ FinishPass(p)
      \/ RepositoryRaises(p) \/ Crash(p)
  BY <1>1, <1>2, <1>3, Zenon DEF Pass, Work
<1> QED BY <1>4, Zenon DEF Quiet

LEMMA PassAlone ==
    ASSUME OnceInv, NEW p \in Passes, Pass(p)
    PROVE  InsertedAlone' /\ UniqueReleases'
<1> USE DEF upstream, database, cursor, session, history
<1>0. TypeOK /\ Shape /\ InsertedAlone /\ UniqueReleases
  BY OnceFacts
<1>P. UNCHANGED published /\ \A r \in Repos, n \in Releases : PastNotes(r, n)' <=> PastNotes(r, n)
  BY <1>0, PassFrame DEF PastNotes
<1>1. CASE UNCHANGED <<repository, stored, inserted, locks, failed, crashed>>
  BY <1>0, <1>1, <1>P DEF InsertedAlone, Alone, UniqueReleases, PastNotes
<1>2. CASE Ingest(p)
  <2>1. /\ UNCHANGED stored /\ current[p] \in Repos
        /\ locks' = [locks EXCEPT ![p] = @ \cup Dirty(Enriched(p), base[p])]
        /\ \A q \in Passes : q # p => inserted'[q] = inserted[q]
    BY <1>0, <1>2, PassTypes DEF Ingest, TypeOK
  <2>2. UniqueReleases'
    BY <1>0, <1>P, <2>1 DEF UniqueReleases
  <2>3. ASSUME NEW r \in Repos, NEW n \in inserted'[p][r], ~PastNotes(r, n)
        PROVE  \/ n \in inserted[p][r]
               \/ /\ stored[r][n] = 0 /\ Guard(r) \in locks'[p]
                  /\ \A q \in Passes : n \notin inserted[q][r]
    <3>1. CASE r = current[p] /\ n \in Created(p)
      BY <1>0, <1>2, <2>1, <2>3, <3>1, CreatedAlone DEF TypeOK
    <3>2. CASE ~(r = current[p] /\ n \in Created(p))
      BY <1>0, <1>2, <2>3, <3>2, IngestEffect
    <3> QED BY <3>1, <3>2
  <2>4. ASSUME NEW q \in Passes PROVE locks[q] \subseteq locks'[q]
    BY <1>0, <2>1 DEF TypeOK
  <2>5. ASSUME NEW q \in Passes, NEW r \in Repos, NEW n \in inserted'[q][r], ~PastNotes(r, n)
        PROVE  stored[r][n] = 0 /\ Guard(r) \in locks'[q]
    BY <1>0, <2>1, <2>3, <2>4, <2>5 DEF InsertedAlone, Alone
  <2>6. ASSUME NEW q \in Passes, NEW r \in Repos, NEW n \in inserted'[q][r], ~PastNotes(r, n),
               NEW o \in Passes \ {q}
        PROVE  n \notin inserted'[o][r]
    <3> SUFFICES ASSUME n \in inserted'[o][r] PROVE FALSE
      OBVIOUS
    <3>1. CASE q # p /\ o # p
      BY <1>0, <2>1, <2>6, <3>1 DEF InsertedAlone, Alone
    <3>2. CASE q = p
      BY <1>0, <2>1, <2>3, <2>6, <3>2 DEF InsertedAlone, Alone
    <3>3. CASE o = p
      BY <1>0, <2>1, <2>3, <2>6, <3>3 DEF InsertedAlone, Alone
    <3> QED BY <3>1, <3>2, <3>3
  <2>7. \A q \in Passes, r \in Repos : inserted'[q][r] \subseteq Releases
    <3>1. Shape'
      <4>1. [Next]_vars
        BY DEF Next, Pass
      <4> QED BY <1>0, <4>1, NextShape
    <3> QED BY <3>1 DEF Shape, TypeOK
  <2>8. InsertedAlone'
    BY <1>P, <2>1, <2>5, <2>6, <2>7 DEF InsertedAlone, Alone
  <2> QED BY <2>2, <2>8
<1>3. CASE AnnounceCommits(p) \/ FinishPass(p)
  <2>1. Commit(p)
    BY <1>3 DEF AnnounceCommits, FinishPass
  <2>2. /\ inserted'[p] = NoneInserted
        /\ \A q \in Passes : q # p => inserted'[q] = inserted[q] /\ locks'[q] = locks[q]
    BY <1>0, <2>1, CommitType
  <2>3. ASSUME NEW r \in Repos, NEW n \in Releases
        PROVE  stored'[r][n] = stored[r][n] + IF n \in inserted[p][r] THEN 1 ELSE 0
    BY <1>0, <2>1, StoredGrows
  <2>4. ASSUME NEW r \in Repos, NEW n \in Releases, ~PastNotes(r, n) PROVE stored'[r][n] <= 1
    <3>1. stored[r][n] \in Nat /\ stored[r][n] <= 1
          /\ (n \in inserted[p][r] => stored[r][n] = 0)
      BY <1>0, <2>4 DEF TypeOK, UniqueReleases, InsertedAlone, Alone
    <3> QED BY <2>3, <3>1
  <2>5. ASSUME NEW q \in Passes, NEW r \in Repos, NEW n \in inserted'[q][r], ~PastNotes(r, n)
        PROVE  /\ n \in Releases /\ stored'[r][n] = 0 /\ Guard(r) \in locks'[q]
               /\ \A o \in Passes \ {q} : n \notin inserted'[o][r]
    <3>1. q # p /\ n \in inserted[q][r]
      BY <2>2, <2>5 DEF NoneInserted
    <3>2. /\ stored[r][n] = 0 /\ Guard(r) \in locks[q] /\ n \in Releases
          /\ \A o \in Passes \ {q} : n \notin inserted[o][r]
      BY <1>0, <2>5, <3>1, PassTypes DEF InsertedAlone, Alone
    <3>3. stored'[r][n] = 0
      BY <2>3, <3>1, <3>2
    <3> QED BY <2>2, <3>1, <3>2, <3>3 DEF NoneInserted
  <2>6. ASSUME NEW q \in Passes, NEW r \in Repos PROVE inserted'[q][r] \subseteq Releases
    <3>1. inserted[q][r] \subseteq Releases
      BY <1>0, PassTypes
    <3> QED BY <2>2, <3>1 DEF NoneInserted
  <2>7. InsertedAlone'
    BY <1>P, <2>5, <2>6 DEF InsertedAlone, Alone
  <2>8. UniqueReleases'
    BY <1>P, <2>4 DEF UniqueReleases
  <2> QED BY <2>7, <2>8
<1>4. CASE RepositoryRaises(p) \/ Crash(p)
  <2>1. /\ UNCHANGED stored /\ inserted'[p] = NoneInserted
        /\ \A q \in Passes : q # p => inserted'[q] = inserted[q] /\ locks'[q] = locks[q]
    BY <1>0, <1>4 DEF RepositoryRaises, Crash, Abandon, TypeOK
  <2>2. ASSUME NEW q \in Passes, NEW r \in Repos, NEW n \in inserted'[q][r]
        PROVE  q # p /\ n \in inserted[q][r] /\ n \in Releases
    BY <1>0, <2>1, <2>2, PassTypes DEF NoneInserted, TypeOK
  <2>3. ASSUME NEW q \in Passes, NEW r \in Repos, NEW n \in inserted'[q][r], ~PastNotes(r, n),
               NEW o \in Passes \ {q}
        PROVE  n \notin inserted'[o][r]
    BY <1>0, <2>1, <2>2, <2>3 DEF InsertedAlone, Alone, NoneInserted
  <2>4. ASSUME NEW q \in Passes, NEW r \in Repos, NEW n \in inserted'[q][r], ~PastNotes(r, n)
        PROVE  stored'[r][n] = 0 /\ Guard(r) \in locks'[q]
    BY <1>0, <2>1, <2>2, <2>4 DEF InsertedAlone, Alone
  <2>5. InsertedAlone'
    BY <1>P, <2>2, <2>3, <2>4 DEF InsertedAlone, Alone
  <2>6. UniqueReleases'
    BY <1>0, <1>P, <2>1 DEF UniqueReleases
  <2> QED BY <2>5, <2>6
<1> QED BY <1>0, <1>1, <1>2, <1>3, <1>4, RowSteps

\* What is recorded stays recorded while its pass is there.
LEMMA NotesStay ==
    ASSUME OnceInv, NEW p \in Passes, NEW q \in Passes, TypeOK',
           \A r \in Repos, n \in Releases : stored'[r][n] >= stored[r][n],
           copy'[q] = copy[q], base'[q] = base[q],
           \A r \in Repos : \A n \in inserted[q][r] : n \in inserted'[q][r] \/ stored'[r][n] >= 1
    PROVE  NotesInSession(q)'
<1> SUFFICES ASSUME NEW r \in Repos
             PROVE  /\ \A n \in base[q][r].notes : stored'[r][n] >= 1
                    /\ \A n \in copy[q][r].notes : stored'[r][n] >= 1 \/ n \in inserted'[q][r]
  BY DEF NotesInSession
<1>1. base[q][r] \in Rows /\ copy[q][r] \in Rows /\ NotesInSession(q)
  BY OnceFacts, PassTypes
<1>2. ASSUME NEW n \in Releases, stored[r][n] >= 1 PROVE stored'[r][n] >= 1
  <2>1. stored[r][n] \in Nat /\ stored'[r][n] \in Nat /\ stored'[r][n] >= stored[r][n]
    BY OnceFacts DEF TypeOK
  <2> QED BY <1>2, <2>1
<1>3. base[q][r].notes \subseteq Releases /\ copy[q][r].notes \subseteq Releases
  BY <1>1 DEF Rows
<1> QED BY <1>1, <1>2, <1>3 DEF NotesInSession

LEMMA IngestNotes ==
    ASSUME OnceInv, NEW p \in Passes, Ingest(p)
    PROVE  NotesInSession(p)'
<1>0. TypeOK /\ NotesInSession(p) /\ current[p] \in Repos
  BY OnceFacts, PassTypes DEF Ingest
<1>1. UNCHANGED <<stored, base>>
  BY DEF Ingest, database
<1>2. ASSUME NEW r \in Repos, NEW n \in copy'[p][r].notes
      PROVE  stored[r][n] >= 1 \/ n \in inserted'[p][r]
  <2>1. CASE r = current[p]
    <3>1. n \in Newest(listing[p], NotesLimit) /\ inserted'[p][r] = inserted[p][r] \cup Created(p)
      BY <1>0, <1>2, <2>1, IngestEffect
    <3>2. n \in listing[p] /\ stored[r][n] \in Nat
      BY <1>0, <2>1, <3>1 DEF Newest, TypeOK
    <3> QED BY <2>1, <3>1, <3>2 DEF Created
  <2>2. CASE r # current[p]
    BY <1>0, <1>2, <2>2, IngestEffect DEF NotesInSession
  <2> QED BY <2>1, <2>2
<1> QED BY <1>0, <1>1, <1>2 DEF NotesInSession

\* Rows are written only with notes of what is stored.
LEMMA CommitNotes ==
    ASSUME OnceInv, NEW p \in Passes, Commit(p), NEW r \in Repos
    PROVE  /\ \A n \in repository'[r].notes : stored'[r][n] >= 1
           /\ \A n \in copy[p][r].notes : stored'[r][n] >= 1
<1>0. TypeOK /\ NotesInSession(p) /\ NotesInRows
  BY OnceFacts
<1>1. repository'[r].notes \in {copy[p][r].notes, repository[r].notes}
  BY DEF Commit, Written
<1>2. copy[p][r].notes \subseteq Releases /\ repository[r].notes \subseteq Releases
  BY <1>0 DEF TypeOK, Rows
<1>3. ASSUME NEW n \in Releases, stored[r][n] >= 1 \/ n \in inserted[p][r]
      PROVE  stored'[r][n] >= 1
  <2>1. stored[r][n] \in Nat
    BY <1>0 DEF TypeOK
  <2>2. /\ stored'[r][n] = stored[r][n] + IF n \in inserted[p][r] THEN 1 ELSE 0
        /\ n \in inserted[p][r] => stored'[r][n] >= 1
    BY <1>0, StoredGrows
  <2> QED BY <1>3, <2>1, <2>2
<1>4. \A n \in copy[p][r].notes : stored'[r][n] >= 1
  BY <1>0, <1>2, <1>3 DEF NotesInSession
<1>5. \A n \in repository[r].notes : stored'[r][n] >= 1
  BY <1>0, <1>2, <1>3 DEF NotesInRows
<1> QED BY <1>1, <1>4, <1>5

LEMMA PassNotes ==
    ASSUME OnceInv, Shape', NEW p \in Passes, Pass(p)
    PROVE  NotesInRows' /\ NotesInSession(p)'
<1> USE DEF upstream, database, cursor, session, history
<1> DEFINE Goal == NotesInRows' /\ NotesInSession(p)'
<1>0. /\ TypeOK /\ TypeOK' /\ Shape /\ NotesInRows /\ NotesInSession(p)
      /\ \A r \in Repos, n \in Releases : stored'[r][n] >= stored[r][n]
  BY OnceFacts, PassFrame DEF Shape
<1>1. ASSUME UNCHANGED <<repository, stored>> PROVE NotesInRows'
  BY <1>0, <1>1 DEF NotesInRows
<1>2. ASSUME copy'[p] = NoCopies, base'[p] = NoCopies PROVE NotesInSession(p)'
  BY <1>2 DEF NotesInSession, NoCopies, NewRow
<1>3. ASSUME UNCHANGED <<repository, stored, copy, base, inserted>> PROVE Goal
  BY <1>0, <1>1, <1>3 DEF NotesInSession
<1>4. ASSUME StartPass(p) PROVE Goal
  <2>1. UNCHANGED <<repository, stored>> /\ copy'[p] = repository /\ base'[p] = repository
    BY <1>0, <1>4 DEF StartPass, TypeOK
  <2> QED BY <1>0, <1>1, <2>1 DEF NotesInRows, NotesInSession
<1>5. ASSUME NEW s \in Repos, Skip(p, s) \/ FindChanged(p, s) PROVE Goal
  <2>1. UNCHANGED <<repository, stored, base, inserted>>
    BY <1>5 DEF Skip, FindChanged
  <2>2. ASSUME NEW r \in Repos PROVE copy'[p][r].notes = copy[p][r].notes
    <3>1. CASE Skip(p, s)
      BY <1>0, <3>1 DEF Skip, TypeOK, Rows
    <3>2. CASE FindChanged(p, s)
      BY <1>0, <3>2 DEF FindChanged, TypeOK, Rows
    <3> QED BY <1>5, <3>1, <3>2
  <2> QED BY <1>0, <1>1, <2>1, <2>2 DEF NotesInSession
<1>6. ASSUME Ingest(p) PROVE Goal
  <2>1. UNCHANGED <<repository, stored>>
    BY <1>6 DEF Ingest
  <2> QED BY <1>1, <1>6, <2>1, IngestNotes
<1>7. ASSUME AnnounceCommits(p) PROVE Goal
  <2>1. Commit(p) /\ UNCHANGED copy /\ base'[p] = copy[p]
    BY <1>0, <1>7 DEF AnnounceCommits, TypeOK
  <2> QED BY <2>1, CommitNotes DEF NotesInRows, NotesInSession
<1>8. ASSUME FinishPass(p) PROVE Goal
  <2>1. Commit(p) /\ copy'[p] = NoCopies /\ base'[p] = NoCopies
    BY <1>0, <1>8 DEF FinishPass, TypeOK
  <2> QED BY <1>2, <2>1, CommitNotes DEF NotesInRows
<1>9. ASSUME RepositoryRaises(p) \/ Crash(p) PROVE Goal
  <2>1. UNCHANGED <<repository, stored>> /\ copy'[p] = NoCopies /\ base'[p] = NoCopies
    BY <1>0, <1>9 DEF RepositoryRaises, Crash, Abandon, TypeOK
  <2> QED BY <1>1, <1>2, <2>1
<1>10. ASSUME \/ \E s \in Repos : CheckFails(p, s)
              \/ FetchReleases(p) \/ FetchFails(p) \/ AnnounceRaises(p) \/ NextRepository(p)
              \/ \E n \in Releases : Announce(p, n) \/ AnnounceToNobody(p, n)
       PROVE  Goal
  <2>1. UNCHANGED <<repository, stored, copy, base, inserted>>
    BY <1>10
    DEF CheckFails, FetchReleases, FetchFails, AnnounceRaises, NextRepository, Announce,
        AnnounceToNobody
  <2> QED BY <1>3, <2>1
<1> HIDE DEF Goal
<1>11. Goal
  BY <1>4, <1>5, <1>6, <1>7, <1>8, <1>9, <1>10, Zenon DEF Pass, Work
<1> QED BY <1>11 DEF Goal

LEMMA PassListing ==
    ASSUME OnceInv, Shape', NEW p \in Passes, Pass(p)
    PROVE  ListingPublished(p)'
<1>0. TypeOK /\ TypeOK' /\ ListingPublished(p)
  BY OnceFacts DEF Shape
<1>1. CASE FetchReleases(p)
  <2>1. /\ listing'[p] = Newest(published[current[p]], ReleaseLimit) /\ current[p] \in Repos
    BY <1>0, <1>1, PassTypes DEF FetchReleases, TypeOK
  <2>2. UNCHANGED <<published, current>>
    BY <1>1 DEF FetchReleases, upstream
  <2> QED BY <2>1, <2>2 DEF ListingPublished, Newest
<1>2. ASSUME ~FetchReleases(p) PROVE stage'[p] # "ingest"
  <2>1. p \in DOMAIN stage
    BY <1>0 DEF TypeOK
  <2>2. ASSUME stage' = [stage EXCEPT ![p] = "idle"] PROVE stage'[p] # "ingest"
    BY <2>1, <2>2
  <2>3. ASSUME stage' = [stage EXCEPT ![p] = "next"] PROVE stage'[p] # "ingest"
    BY <2>1, <2>3
  <2>4. CASE FinishPass(p) \/ RepositoryRaises(p) \/ Crash(p)
    BY <2>2, <2>4 DEF FinishPass, RepositoryRaises, Crash, Abandon
  <2>5. CASE StartPass(p) \/ FetchFails(p) \/ NextRepository(p) \/ \E r \in Repos : Skip(p, r)
    BY <2>3, <2>5 DEF StartPass, FetchFails, NextRepository, Skip, Proceed
  <2>6. CASE \E r \in Repos : FindChanged(p, r) \/ CheckFails(p, r)
    <3>1. stage' = [stage EXCEPT ![p] = "fetch"]
      BY <2>6 DEF FindChanged, CheckFails, Take
    <3> QED BY <2>1, <3>1
  <2>7. CASE Ingest(p) \/ AnnounceCommits(p) \/ AnnounceRaises(p)
    <3>1. stage' = [stage EXCEPT ![p] = "announce"]
      BY <2>7 DEF Ingest, AnnounceCommits, AnnounceRaises
    <3> QED BY <2>1, <3>1
  <2>8. CASE \E n \in Releases : Announce(p, n) \/ AnnounceToNobody(p, n)
    <3>1. stage' = [stage EXCEPT ![p] = "posted"] \/ (stage[p] = "announce" /\ stage' = stage)
      BY <2>8 DEF Announce, AnnounceToNobody, cursor
    <3> QED BY <2>1, <3>1
  <2> QED BY <1>2, <2>4, <2>5, <2>6, <2>7, <2>8, Zenon DEF Pass, Work
<1> QED BY <1>1, <1>2 DEF ListingPublished

LEMMA NextOnce == ASSUME OnceInv, [Next]_vars PROVE OnceInv'
<1> USE DEF upstream, database, cursor, session, history
<1>0. Shape /\ Shape' /\ TypeOK /\ TypeOK'
  BY OnceFacts, NextShape DEF Shape
<1>P. /\ \A r \in Repos : published[r] \subseteq published'[r]
      /\ \A r \in Repos, n \in Releases : PastNotes(r, n) => PastNotes(r, n)'
  BY <1>0, PublishedGrows, PastNotesStays
<1>1. ASSUME UNCHANGED <<stored, stage, current, copy, base, listing, inserted, locks>>,
             \A r \in Repos : repository'[r].notes = repository[r].notes
      PROVE  OnceInv'
  <2>1. NotesInRows' /\ UniqueReleases' /\ \A p \in Passes : NotesInSession(p)'
    BY <1>0, <1>1, <1>P, OnceFacts DEF NotesInRows, NotesInSession, UniqueReleases
  <2>2. ASSUME NEW p \in Passes PROVE ListingPublished(p)'
    <3>1. stage[p] = "ingest" => current[p] \in Repos
      BY <1>0, PassTypes
    <3> QED BY <1>1, <1>P, <3>1, OnceFacts DEF ListingPublished
  <2>3. InsertedAlone'
    <3>1. \A p \in Passes, r \in Repos : inserted[p][r] \subseteq Releases
      BY <1>0 DEF TypeOK
    <3>2. \A p \in Passes, r \in Repos, n \in Releases : Alone(p, r, n)' <=> Alone(p, r, n)
      BY <1>1 DEF Alone
    <3> QED BY <1>1, <1>P, <3>1, <3>2, OnceFacts DEF InsertedAlone
  <2> QED BY <1>0, <2>1, <2>2, <2>3 DEF OnceInv, SessionOrdered
<1>2. CASE UNCHANGED vars \/ Tick
  BY <1>1, <1>2 DEF vars, Tick
<1>3. ASSUME NEW r \in Repos, Push(r) \/ \E n \in Releases : PublishLate(r, n) PROVE OnceInv'
  BY <1>1, <1>3 DEF Push, PublishLate
<1>4. ASSUME NEW s \in Repos, Discover(s) PROVE OnceInv'
  <2>1. \A r \in Repos : repository'[r].notes = repository[r].notes
    BY <1>0, <1>4 DEF Discover, TypeOK, Rows
  <2> QED BY <1>1, <1>4, <2>1 DEF Discover
<1>5. ASSUME NEW p \in Passes, Pass(p) PROVE OnceInv'
  <2>1. NotesInRows' /\ NotesInSession(p)' /\ ListingPublished(p)'
    BY <1>0, <1>5, PassNotes, PassListing
  <2>2. ASSUME NEW q \in Passes, q # p PROVE SessionOrdered(q)'
    <3>1. /\ stage'[q] = stage[q] /\ current'[q] = current[q]
          /\ copy'[q] = copy[q] /\ base'[q] = base[q] /\ listing'[q] = listing[q]
          /\ inserted'[q] = inserted[q]
          /\ \A r \in Repos, n \in Releases : stored'[r][n] >= stored[r][n]
      BY <1>0, <1>5, <2>2, PassFrame DEF OthersStay
    <3>2. NotesInSession(q)'
      BY <1>0, <3>1, NotesStay
    <3>3. ListingPublished(q)'
      BY <1>5, <3>1, OnceFacts, PassFrame DEF ListingPublished
    <3> QED BY <3>2, <3>3 DEF SessionOrdered
  <2>3. InsertedAlone' /\ UniqueReleases'
    BY <1>5, PassAlone
  <2> QED BY <1>0, <2>1, <2>2, <2>3 DEF OnceInv, SessionOrdered
<1> QED BY <1>2, <1>3, <1>4, <1>5, Zenon DEF Next, Upstream, Pass

LEMMA InitOnce == Init => OnceInv
<1> SUFFICES ASSUME Init PROVE OnceInv
  OBVIOUS
<1>1. Shape
  BY InitShape
<1>2. NotesInRows /\ \A p \in Passes : SessionOrdered(p)
  BY DEF Init, NotesInRows, SessionOrdered, NotesInSession, ListingPublished,
         NoCopies, NewRow
<1>3. InsertedAlone /\ UniqueReleases
  BY DEF Init, InsertedAlone, UniqueReleases, NoneInserted
<1> QED BY <1>1, <1>2, <1>3 DEF OnceInv

\* Passes at once store no release twice (release.py:57) while fewer than NotesLimit newer
\* ones are out: the metadata row's lock covers their inserts.  The check before the fetch
\* may fail and listings may be longer than the notes, as in the code.
THEOREM StoredOnce == Spec => []UniqueReleases
<1>1. OnceInv /\ [Next]_vars => OnceInv'
  BY NextOnce
<1>2. OnceInv => UniqueReleases
  BY DEF OnceInv
<1> QED BY InitOnce, <1>1, <1>2, PTL DEF Spec

--------------------------------------------------------------------------------
(* Announcements *)

lost == failed + crashed

LEMMA BudgetFacts ==
    ASSUME TypeOK, AnnouncementsAccounted
    PROVE  /\ lost \in Nat
           /\ \A r \in Repos, n \in Releases : announced[r][n] \in Nat
           /\ \A r \in Repos, n \in Releases : ~PastNotes(r, n) =>
                 /\ announced[r][n] <= lost + 1
                 /\ ~HasRow(r, n) => announced[r][n] <= lost
           /\ \A p \in Passes : new[p] \subseteq Releases
           /\ \A p \in Passes : \A n \in new[p] : ~PastNotes(current[p], n) =>
                 /\ stored[current[p]][n] >= 1 \/ n \in inserted[p][current[p]]
                 /\ announced[current[p]][n] <= lost
                 /\ \A q \in Passes \ {p} : current[q] = current[p] => n \notin new[q]
<1>1. lost \in Nat
  BY DEF TypeOK, lost
<1>2. \A r \in Repos, n \in Releases : announced[r][n] \in Nat
  BY DEF TypeOK
<1>3. \A r \in Repos, n \in Releases : ~PastNotes(r, n) =>
         /\ announced[r][n] <= lost + 1
         /\ ~HasRow(r, n) => announced[r][n] <= lost
  BY Zenon DEF AnnouncementsAccounted, lost
<1>4. \A p \in Passes : new[p] \subseteq Releases
  BY DEF TypeOK
<1>5. \A p \in Passes : \A n \in new[p] : ~PastNotes(current[p], n) =>
         /\ stored[current[p]][n] >= 1 \/ n \in inserted[p][current[p]]
         /\ announced[current[p]][n] <= lost
         /\ \A q \in Passes \ {p} : current[q] = current[p] => n \notin new[q]
  BY Zenon DEF AnnouncementsAccounted, Announcing, lost
<1> QED BY <1>1, <1>2, <1>3, <1>4, <1>5, Zenon

LEMMA BudgetByParts ==
    ASSUME \A r \in Repos, n \in Releases : ~PastNotes(r, n)' =>
              /\ announced'[r][n] <= lost' + 1
              /\ ~HasRow(r, n)' => announced'[r][n] <= lost',
           \A p \in Passes : Announcing(p)'
    PROVE  AnnouncementsAccounted'
BY DEF AnnouncementsAccounted, lost

\* While a pass only reads and the others stay, or while one that announces nothing moves on
LEMMA QuietBudget ==
    ASSUME Shape, AnnouncementsAccounted, NEW p \in Passes, OthersStay(p),
           UNCHANGED <<published, stored, inserted, announced, failed, crashed>>,
           \/ new'[p] = {}
           \/ new'[p] \subseteq new[p] /\ current'[p] = current[p]
    PROVE  AnnouncementsAccounted'
<1>1. \A r \in Repos, n \in Releases : ~PastNotes(r, n)' =>
         /\ announced'[r][n] <= lost' + 1
         /\ ~HasRow(r, n)' => announced'[r][n] <= lost'
  BY BudgetFacts DEF Shape, HasRow, PastNotes, lost
<1>2. \A q \in Passes : /\ new'[q] \subseteq new[q]
                        /\ new'[q] # {} => current'[q] = current[q]
  BY DEF OthersStay
<1>3. ASSUME NEW q \in Passes PROVE Announcing(q)'
  BY <1>2 DEF AnnouncementsAccounted, Announcing, PastNotes
<1> QED BY <1>1, <1>3, BudgetByParts

LEMMA IngestBudget ==
    ASSUME OnceInv, AnnouncementsAccounted, NEW p \in Passes, Ingest(p)
    PROVE  AnnouncementsAccounted'
<1> USE DEF database, history
<1>0. TypeOK /\ Shape /\ current[p] \in Repos
  BY OnceFacts, PassTypes DEF Ingest
<1>P. \A r \in Repos, n \in Releases : PastNotes(r, n)' <=> PastNotes(r, n)
  BY DEF Ingest, upstream, PastNotes
<1>1. /\ UNCHANGED <<stored, announced, failed, crashed, current>> /\ new'[p] = Created(p)
      /\ \A q \in Passes : q # p => new'[q] = new[q] /\ inserted'[q] = inserted[q]
  BY <1>0 DEF Ingest, TypeOK
<1>2. ASSUME NEW n \in Created(p), ~PastNotes(current[p], n)
      PROVE  /\ n \in Releases /\ ~HasRow(current[p], n) /\ n \in inserted'[p][current[p]]
             /\ \A q \in Passes : current[q] = current[p] => n \notin new[q]
  <2>1. /\ n \in Releases /\ stored[current[p]][n] = 0
        /\ \A q \in Passes : n \notin inserted[q][current[p]]
    BY <1>2, CreatedAlone
  <2>2. n \in inserted'[p][current[p]]
    BY <1>0, IngestEffect
  <2>3. ~HasRow(current[p], n)
    BY <2>1 DEF HasRow
  <2>4. ASSUME NEW q \in Passes, current[q] = current[p] PROVE n \notin new[q]
    <3> SUFFICES ASSUME n \in new[q] PROVE FALSE
      OBVIOUS
    <3>1. stored[current[q]][n] >= 1 \/ n \in inserted[q][current[q]]
      BY <1>0, <1>2, <2>4, BudgetFacts
    <3> QED BY <2>1, <2>4, <3>1
  <2> QED BY <2>1, <2>2, <2>3, <2>4
<1>3. ASSUME NEW q \in Passes, NEW r \in Repos PROVE inserted[q][r] \subseteq inserted'[q][r]
  BY <1>0, <1>1, IngestEffect
<1>4. \A r \in Repos, n \in Releases : ~PastNotes(r, n)' =>
         /\ announced'[r][n] <= lost' + 1
         /\ ~HasRow(r, n)' => announced'[r][n] <= lost'
  <2> SUFFICES ASSUME NEW r \in Repos, NEW n \in Releases, ~PastNotes(r, n)
               PROVE  /\ announced[r][n] <= lost + 1
                      /\ ~HasRow(r, n)' => announced[r][n] <= lost
    BY <1>1, <1>P DEF lost
  <2>1. HasRow(r, n) => HasRow(r, n)'
    BY <1>1, <1>3 DEF HasRow
  <2> QED BY <1>0, <2>1, BudgetFacts
<1>5. Announcing(p)'
  <2>1. Created(p) \subseteq Releases
    BY <1>0, PassTypes DEF Created
  <2> SUFFICES ASSUME NEW n \in Created(p), ~PastNotes(current[p], n)
               PROVE  /\ n \in inserted'[p][current[p]]
                      /\ announced[current[p]][n] <= failed + crashed
                      /\ \A q \in Passes \ {p} : current[q] = current[p] => n \notin new[q]
    BY <1>0, <1>1, <1>P, <2>1 DEF Announcing
  <2> QED BY <1>0, <1>2, BudgetFacts DEF lost
<1>6. ASSUME NEW q \in Passes, q # p PROVE Announcing(q)'
  <2>0. new[q] \subseteq Releases /\ (new[q] # {} => current[q] \in Repos)
    BY <1>0, PassTypes DEF Shape, NewWhileAnnouncing
  <2> SUFFICES ASSUME NEW n \in new[q], ~PastNotes(current[q], n)
               PROVE  /\ stored[current[q]][n] >= 1 \/ n \in inserted[q][current[q]]
                      /\ announced[current[q]][n] <= failed + crashed
                      /\ \A o \in Passes \ {q} : current[o] = current[q] => n \notin new'[o]
    BY <1>1, <1>6, <1>P, <2>0 DEF Announcing
  <2>1. current[p] = current[q] => n \notin Created(p)
    BY <1>2, <1>6
  <2> QED BY <1>0, <1>1, <1>6, <2>1, BudgetFacts DEF lost
<1> QED BY <1>4, <1>5, <1>6, BudgetByParts

LEMMA AnnounceBudget ==
    ASSUME Shape, AnnouncementsAccounted, NEW p \in Passes, NEW m \in Releases, Announce(p, m)
    PROVE  AnnouncementsAccounted'
<1> USE DEF database
<1>0. TypeOK /\ current[p] \in Repos /\ m \in new[p]
  BY PassTypes DEF Shape, Announce
<1>P. \A r \in Repos, n \in Releases : PastNotes(r, n)' <=> PastNotes(r, n)
  BY DEF Announce, upstream, PastNotes
<1>1. /\ UNCHANGED <<stored, inserted, failed, crashed, current>>
      /\ new'[p] = new[p] \ {m} /\ \A q \in Passes : q # p => new'[q] = new[q]
      /\ announced'[current[p]][m] = announced[current[p]][m] + 1
      /\ \A r \in Repos, n \in Releases :
            ~(r = current[p] /\ n = m) => announced'[r][n] = announced[r][n]
  BY <1>0 DEF Announce, TypeOK
<1>2. ASSUME ~PastNotes(current[p], m)
      PROVE  /\ announced[current[p]][m] <= lost /\ HasRow(current[p], m)
             /\ \A q \in Passes \ {p} : current[q] = current[p] => m \notin new[q]
  BY <1>2,  <1>0, BudgetFacts DEF HasRow
<1>3. \A r \in Repos, n \in Releases : ~PastNotes(r, n)' =>
         /\ announced'[r][n] <= lost' + 1
         /\ ~HasRow(r, n)' => announced'[r][n] <= lost'
  <2> SUFFICES ASSUME NEW r \in Repos, NEW n \in Releases, ~PastNotes(r, n)
               PROVE  /\ announced'[r][n] <= lost + 1
                      /\ ~HasRow(r, n) => announced'[r][n] <= lost
    BY <1>1, <1>P DEF lost, HasRow
  <2>1. CASE r = current[p] /\ n = m
    <3>1. announced[r][n] \in Nat /\ lost \in Nat
      BY <1>0, BudgetFacts
    <3> QED BY <1>1, <1>2, <2>1, <3>1
  <2>2. CASE ~(r = current[p] /\ n = m)
    BY <1>0, <1>1, <2>2, BudgetFacts
  <2> QED BY <2>1, <2>2
<1>4. ASSUME NEW q \in Passes PROVE Announcing(q)'
  <2>0. new'[q] \subseteq new[q] /\ new[q] \subseteq Releases
        /\ (new[q] # {} => current[q] \in Repos)
    BY <1>0, <1>1, PassTypes DEF Shape, NewWhileAnnouncing
  <2> SUFFICES ASSUME NEW n \in new'[q], ~PastNotes(current[q], n)
               PROVE  /\ stored[current[q]][n] >= 1 \/ n \in inserted[q][current[q]]
                      /\ announced'[current[q]][n] <= failed + crashed
                      /\ \A o \in Passes \ {q} : current[o] = current[q] => n \notin new'[o]
    BY <1>1, <1>P, <2>0 DEF Announcing
  <2>1. n \in new[q] /\ n \in Releases /\ current[q] \in Repos
    BY <2>0
  <2>2. ~(current[q] = current[p] /\ n = m)
    BY <1>1, <1>2
  <2>3. announced'[current[q]][n] = announced[current[q]][n]
    BY <1>1, <2>1, <2>2
  <2>4. /\ stored[current[q]][n] >= 1 \/ n \in inserted[q][current[q]]
        /\ announced[current[q]][n] <= failed + crashed
        /\ \A o \in Passes \ {q} : current[o] = current[q] => n \notin new[o]
    BY <1>0, <2>1, BudgetFacts DEF lost
  <2>5. \A o \in Passes : new'[o] \subseteq new[o]
    BY <1>1
  <2> QED BY <2>3, <2>4, <2>5
<1> QED BY <1>3, <1>4, BudgetByParts

LEMMA CommitBudget ==
    ASSUME Shape, AnnouncementsAccounted, NEW p \in Passes, Commit(p),
           UNCHANGED <<published, new, current, announced, failed, crashed>>
    PROVE  AnnouncementsAccounted'
<1>0. TypeOK /\ TypeOK
  BY DEF Shape
<1>P. \A r \in Repos, n \in Releases : PastNotes(r, n)' <=> PastNotes(r, n)
  BY DEF PastNotes
<1>1. /\ inserted'[p] = NoneInserted
      /\ \A q \in Passes : q # p => inserted'[q] = inserted[q]
  BY <1>0, CommitType
<1>2. ASSUME NEW q \in Passes, NEW r \in Repos, NEW n \in Releases,
             stored[r][n] >= 1 \/ n \in inserted[q][r]
      PROVE  stored'[r][n] >= 1 \/ n \in inserted'[q][r]
  <2>1. /\ stored[r][n] \in Nat
        /\ stored'[r][n] = stored[r][n] + IF n \in inserted[p][r] THEN 1 ELSE 0
        /\ n \in inserted[p][r] => stored'[r][n] >= 1
    BY <1>0, StoredGrows DEF TypeOK
  <2> QED BY <1>1, <1>2, <2>1
<1>3. \A r \in Repos, n \in Releases : ~PastNotes(r, n)' =>
         /\ announced'[r][n] <= lost' + 1
         /\ ~HasRow(r, n)' => announced'[r][n] <= lost'
  <2> SUFFICES ASSUME NEW r \in Repos, NEW n \in Releases, ~PastNotes(r, n)
               PROVE  /\ announced[r][n] <= lost + 1
                      /\ ~HasRow(r, n)' => announced[r][n] <= lost
    BY <1>P DEF lost
  <2>1. HasRow(r, n) => HasRow(r, n)'
    BY <1>2 DEF HasRow
  <2> QED BY <1>0, <2>1, BudgetFacts
<1>4. ASSUME NEW q \in Passes PROVE Announcing(q)'
  <2>0. new[q] \subseteq Releases /\ (new[q] # {} => current[q] \in Repos)
    BY <1>0, PassTypes DEF Shape, NewWhileAnnouncing
  <2> SUFFICES ASSUME NEW n \in new[q], ~PastNotes(current[q], n)
               PROVE  /\ stored'[current[q]][n] >= 1 \/ n \in inserted'[q][current[q]]
                      /\ announced[current[q]][n] <= failed + crashed
                      /\ \A o \in Passes \ {q} : current[o] = current[q] => n \notin new[o]
    BY <1>P, <2>0 DEF Announcing
  <2>1. n \in Releases /\ current[q] \in Repos
    BY <2>0
  <2> QED BY <1>0, <1>2, <2>1, BudgetFacts DEF lost
<1> QED BY <1>3, <1>4, BudgetByParts

LEMMA LostBudget ==
    ASSUME Shape, AnnouncementsAccounted, NEW p \in Passes, RepositoryRaises(p) \/ Crash(p)
    PROVE  AnnouncementsAccounted'
<1>0. TypeOK
  BY DEF Shape
<1>P. \A r \in Repos, n \in Releases : PastNotes(r, n)' <=> PastNotes(r, n)
  BY DEF RepositoryRaises, Crash, Abandon, upstream, PastNotes
<1>1. /\ UNCHANGED <<stored, announced>> /\ new'[p] = {}
      /\ \A q \in Passes : q # p => /\ new'[q] = new[q] /\ inserted'[q] = inserted[q]
                                   /\ current'[q] = current[q]
  BY <1>0 DEF RepositoryRaises, Crash, Abandon, TypeOK, database
<1>2. lost \in Nat /\ lost' = lost + 1
  <2>1. failed \in Nat /\ crashed \in Nat
    BY <1>0 DEF TypeOK
  <2>2. \/ failed' = failed + 1 /\ crashed' = crashed
        \/ crashed' = crashed + 1 /\ failed' = failed
    BY DEF RepositoryRaises, Crash
  <2> QED BY <2>1, <2>2 DEF lost
<1>3. \A r \in Repos, n \in Releases : ~PastNotes(r, n)' =>
         /\ announced'[r][n] <= lost' + 1
         /\ ~HasRow(r, n)' => announced'[r][n] <= lost'
  <2> SUFFICES ASSUME NEW r \in Repos, NEW n \in Releases, ~PastNotes(r, n)
               PROVE  announced[r][n] <= lost + 1
    <3>1. \A r \in Repos, n \in Releases : announced[r][n] \in Nat
      BY <1>0, BudgetFacts
    <3> QED BY <1>1, <1>2, <1>P, <3>1
  <2> QED BY <1>0, BudgetFacts
<1>4. ASSUME NEW q \in Passes PROVE Announcing(q)'
  <2>0. new[q] \subseteq Releases /\ (new[q] # {} => current[q] \in Repos)
    BY <1>0, PassTypes DEF Shape, NewWhileAnnouncing
  <2> SUFFICES ASSUME q # p, NEW n \in new[q], ~PastNotes(current[q], n)
               PROVE  /\ stored[current[q]][n] >= 1 \/ n \in inserted[q][current[q]]
                      /\ announced[current[q]][n] <= lost + 1
                      /\ \A o \in Passes \ {q} : current'[o] = current[q] => n \notin new'[o]
    BY <1>1, <1>2, <1>P, <2>0 DEF Announcing, lost
  <2>1. n \in Releases /\ current[q] \in Repos
    BY <2>0
  <2>2. announced[current[q]][n] \in Nat /\ announced[current[q]][n] <= lost
    BY <1>0, <2>1, BudgetFacts
  <2> QED BY <1>0, <1>1, <1>2, <2>2, BudgetFacts
<1> QED BY <1>3, <1>4, BudgetByParts

LEMMA NextBudget ==
    ASSUME OnceInv, AnnouncementsAccounted, [Next]_vars
    PROVE  AnnouncementsAccounted'
<1> USE DEF upstream, database, cursor, session, history
<1>0. Shape /\ TypeOK
  BY OnceFacts
<1>1. ASSUME UNCHANGED <<stored, inserted, new, current, announced, failed, crashed>>
      PROVE  AnnouncementsAccounted'
  <2>1. \A r \in Repos, n \in Releases : PastNotes(r, n) => PastNotes(r, n)'
    <3>1. TypeOK'
      BY <1>0, NextShape DEF Shape
    <3> QED BY <1>0, <3>1, PublishedGrows, PastNotesStays
  <2>2. \A p \in Passes : new[p] \subseteq Releases /\ (new[p] # {} => current[p] \in Repos)
    BY <1>0, PassTypes DEF Shape, NewWhileAnnouncing
  <2>3. \A p \in Passes : Announcing(p)'
    BY <1>1, <2>1, <2>2 DEF AnnouncementsAccounted, Announcing
  <2> QED BY <1>1, <2>1, <2>3 DEF AnnouncementsAccounted, HasRow
<1>2. CASE UNCHANGED vars \/ Upstream
  BY <1>1, <1>2 DEF vars, Upstream, Tick, Push, PublishLate, Discover
<1>3. ASSUME NEW p \in Passes, Pass(p) PROVE AnnouncementsAccounted'
  <2>0. OthersStay(p) /\ UNCHANGED published /\ (stage[p] \notin {"announce", "posted"} => new[p] = {})
    BY <1>0, <1>3, PassFrame DEF Shape, NewWhileAnnouncing
  <2>1. ASSUME UNCHANGED <<stored, inserted, announced, failed, crashed>>,
               new'[p] = {} \/ (new'[p] \subseteq new[p] /\ current'[p] = current[p])
        PROVE  AnnouncementsAccounted'
    BY <1>0, <2>0, <2>1, QuietBudget
  <2>2. CASE StartPass(p) \/ \E r \in Repos : Skip(p, r) \/ FindChanged(p, r) \/ CheckFails(p, r)
    <3>1. UNCHANGED <<stored, inserted, announced, failed, crashed, new>> /\ new[p] = {}
      BY <2>0, <2>2 DEF StartPass, Skip, FindChanged, CheckFails, Take
    <3> QED BY <2>1, <3>1, SMTT(30)
  <2>3. CASE FetchReleases(p) \/ FetchFails(p) \/ AnnounceRaises(p) \/ NextRepository(p)
    <3>1. /\ UNCHANGED <<stored, inserted, announced, failed, crashed, new>>
          /\ new[p] = {} \/ UNCHANGED current
      BY <2>0, <2>3 DEF FetchReleases, FetchFails, AnnounceRaises, NextRepository
    <3> QED BY <2>1, <3>1
  <2>4. ASSUME NEW n \in Releases, AnnounceToNobody(p, n) PROVE AnnouncementsAccounted'
    <3>1. /\ UNCHANGED <<stored, inserted, announced, failed, crashed, current>>
          /\ new'[p] \subseteq new[p]
      BY <1>0, <2>4 DEF AnnounceToNobody, TypeOK
    <3> QED BY <2>1, <3>1
  <2>5. ASSUME NEW n \in Releases, Announce(p, n) PROVE AnnouncementsAccounted'
    BY <1>0, <2>5, AnnounceBudget
  <2>6. CASE Ingest(p)
    BY <2>6, IngestBudget
  <2>7. CASE AnnounceCommits(p) \/ FinishPass(p)
    <3>1. Commit(p) /\ UNCHANGED <<published, new, current, announced, failed, crashed>>
      BY <2>7 DEF AnnounceCommits, FinishPass
    <3> QED BY <1>0, <3>1, CommitBudget
  <2>8. CASE RepositoryRaises(p) \/ Crash(p)
    BY <1>0, <2>8, LostBudget
  <2> QED BY <1>3, <2>2, <2>3, <2>4, <2>5, <2>6, <2>7, <2>8, Zenon DEF Pass, Work
<1> QED BY <1>2, <1>3, Zenon DEF Next, Pass

LEMMA InitBudget == Init => AnnouncementsAccounted
BY DEF Init, AnnouncementsAccounted, Announcing

\* A release is announced once and once more at most for each pass that was lost, while
\* fewer than NotesLimit newer ones are out (sync.py:277).
THEOREM AnnouncedWithinBudget == Spec => []AnnouncementBudget
<1>1. OnceInv /\ AnnouncementsAccounted /\ [Next]_vars => OnceInv' /\ AnnouncementsAccounted'
  BY NextOnce, NextBudget
<1>2. OnceInv /\ AnnouncementsAccounted => AnnouncementBudget
  <2> SUFFICES ASSUME OnceInv, AnnouncementsAccounted, NEW r \in Repos, NEW n \in Releases,
                      ~PastNotes(r, n)
               PROVE  announced[r][n] <= 1 + failed + crashed
    BY DEF AnnouncementBudget
  <2>1. TypeOK /\ lost \in Nat /\ announced[r][n] \in Nat /\ announced[r][n] <= lost + 1
    BY OnceFacts, BudgetFacts
  <2> QED BY <2>1 DEF lost, TypeOK
<1> QED BY InitOnce, InitBudget, <1>1, <1>2, PTL DEF Spec
================================================================================
