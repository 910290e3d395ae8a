------------------------------ MODULE CatalogueRows ----------------------------
(***************************************************************************)
(* The rows a pass of crawler/sync.py makes of a source's repositories:    *)
(* applications, and the developers, licenses, categories, tags, platforms *)
(* and architectures that applications of all sources share.  A repository *)
(* that raises ends the pass: what is not committed is rolled back, and    *)
(* the handler reads source.id, which the rollback has expired.  A later   *)
(* run of the source starts over, with a session and caches of its own, so *)
(* that a cache only ever holds rows the session sees or is to insert.     *)
(*                                                                         *)
(* The passes are of different sources; what passes of one source do to    *)
(* each other is in RepositorySync.  Names are unique: an insertion waits  *)
(* for the transaction that has inserted the same name, and raises once    *)
(* that has committed.                                                     *)
(***************************************************************************)
EXTENDS FiniteSets, Naturals, Sequences

CONSTANTS
    RowPasses,   \* sources, each with a pass after the other
    NoListing,   \* no repository, no name
    Listing,     \* the repositories of each pass, in the order its source lists them
    Joined,      \* developer, license, categories and tags of a repository's application
    Hinted,      \* the platforms its metadata names
    Fields,      \* what upstream has to say of a repository: its readme, its contributors
    Keyed,       \* platforms and architectures of its assets, which take their ids
    RowsBefore,  \* rows there are before the passes
    AppsBefore   \* repositories that have been synced before

RepositoriesOf(p) == {Listing[p][i] : i \in DOMAIN Listing[p]}
Sources   == UNION {RepositoriesOf(p) : p \in RowPasses}
Wanted(r) == Joined[r] \cup Hinted[r] \cup Keyed[r]

ASSUME RowsAssumption ==
    /\ \A p, q \in RowPasses : p # q => RepositoriesOf(p) \cap RepositoriesOf(q) = {}
    /\ \A p \in RowPasses : /\ Listing[p] \in Seq(RepositoriesOf(p))
                           /\ \A i, k \in DOMAIN Listing[p] : i # k => Listing[p][i] # Listing[p][k]
    /\ \A r \in Sources : Hinted[r] \cap Keyed[r] = {}
    /\ \A r \in AppsBefore : Wanted(r) \subseteq RowsBefore

VARIABLES
    shared_rows,  \* committed rows, and the pass that inserted each
    apps,         \* committed applications, and the names joined to them
    fields,       \* committed metadata: the fields that are not empty
    richest,      \* the fields that ever were committed
    pass,         \* each pass
    failures      \* the repositories that raised: in whose pass, and why

rowVars == <<shared_rows, apps, fields, richest, pass, failures>>

None == [x \in {} |-> {}]
Upd(f, g) == [x \in DOMAIN f \cup DOMAIN g |-> IF x \in DOMAIN g THEN g[x] ELSE f[x]]

\* at: where the pass is; repo: what it syncs; done: what it has been through; left: platforms it
\* has still to take; flush: names its next flush inserts; inserted, joined, filled: rows of its
\* transaction
Between == [at |-> "next", repo |-> NoListing, done |-> {}, left |-> {}, flush |-> {},
            inserted |-> {}, joined |-> None, filled |-> None]

RowsInit ==
    /\ shared_rows = [n \in RowsBefore |-> "before"]
    /\ apps = [r \in AppsBefore |-> Wanted(r)]
    /\ fields = [r \in AppsBefore |-> Fields[r]] /\ richest = fields
    /\ pass = [p \in RowPasses |-> Between]
    /\ failures = {}

Become(p, to) == pass' = [pass EXCEPT ![p] = to]
\* Mutant: only what this pass made is looked for
Visible_Own(p) == pass[p].inserted
Visible(p)    == DOMAIN shared_rows \cup pass[p].inserted
Links(p, r)   == LET known == Upd(apps, pass[p].joined) IN IF r \in DOMAIN known THEN known[r] ELSE {}
Upcoming(p)   == Listing[p][Cardinality(pass[p].done) + 1]
database == <<shared_rows, apps, fields, richest>>

--------------------------------------------------------------------------------
(* The session *)

\* At the end of a pass, and with every announcement
CommitRows(p, to) ==
    /\ shared_rows' = Upd(shared_rows, [n \in pass[p].inserted \ DOMAIN shared_rows |-> p])
    /\ apps' = Upd(apps, pass[p].joined) /\ fields' = Upd(fields, pass[p].filled)
    /\ richest' = Upd(richest, [r \in DOMAIN pass[p].filled |->
                      pass[p].filled[r] \cup IF r \in DOMAIN richest THEN richest[r] ELSE {}])
    /\ Become(p, to) /\ UNCHANGED failures

\* Mutant: what was joined before stays in the session
Abandon_KeepsLinks(p, cause, names) ==
    /\ failures' = failures \cup {[pass |-> p, cause |-> cause, names |-> names]}
    /\ Become(p, [Between EXCEPT !.joined = pass[p].joined]) /\ UNCHANGED database
\* A repository raises: rollback, and the end of the pass
Abandon(p, cause, names) ==
    /\ failures' = failures \cup {[pass |-> p, cause |-> cause, names |-> names]}
    /\ Become(p, Between) /\ UNCHANGED database

Rivals(p, names) == {q \in RowPasses \ {p} : names \cap pass[q].inserted # {}}
Flush(p) ==
    /\ pass[p].flush # {} /\ pass[p].flush \cap DOMAIN shared_rows = {} /\ Rivals(p, pass[p].flush) = {}
    /\ Become(p, [pass[p] EXCEPT !.inserted = @ \cup pass[p].flush, !.flush = {}])
    /\ UNCHANGED <<database, failures>>

\* Another session has committed a name first, or two wait for each other's
FlushRaises(p) ==
    \/ /\ pass[p].flush \cap DOMAIN shared_rows # {}
       /\ Abandon(p, "conflict", pass[p].flush \cap DOMAIN shared_rows)
    \/ /\ \E q \in Rivals(p, pass[p].flush) : p \in Rivals(q, pass[q].flush)
       /\ Abandon(p, "deadlock", pass[p].flush)

--------------------------------------------------------------------------------
(* A repository *)

\* Each of the requests that get_metadata makes may fail, and gives nothing then
AnswersOf(r) == SUBSET Fields[r]
\* The fields that are not left out for being empty: a count of 0 is not
Enriched(answer) == answer \cup {"contributors"}

\* Mutant: an answer without a field empties it
Filled_Whole(p, r, answer) == answer
Filled(p, r, answer) ==
    LET known == Upd(fields, pass[p].filled)
    IN  answer \cup IF r \in DOMAIN known THEN known[r] \ Enriched(answer) ELSE {}

\* Releases are there, metadata or not; the application is looked for, and what is joined to it
BeginRepository(p, r) ==
    /\ pass[p].at = "next" /\ pass[p].done # RepositoriesOf(p) /\ r = Upcoming(p)
    /\ \E answer \in AnswersOf(r) :
          Become(p, [pass[p] EXCEPT !.at = "platforms", !.repo = r, !.left = Hinted[r] \cup Keyed[r],
                         !.flush = Joined[r] \ Visible(p),
                         !.filled = Upd(pass[p].filled, [x \in {r} |-> Filled(p, r, answer)])])
    /\ UNCHANGED <<database, failures>>

\* get_releases raises: the repository is left as it is
NoReleases(p, r) ==
    /\ pass[p].at = "next" /\ pass[p].done # RepositoriesOf(p) /\ r = Upcoming(p)
    /\ Become(p, [pass[p] EXCEPT !.done = @ \cup {r}])
    /\ UNCHANGED <<database, failures>>

\* A platform is looked for, and created if there is none
TakePlatform(p, n) ==
    /\ pass[p].at = "platforms" /\ pass[p].flush = {} /\ n \in pass[p].left
    /\ Become(p, [pass[p] EXCEPT !.left = @ \ {n}, !.flush = {n} \ Visible(p)])
    /\ UNCHANGED <<database, failures>>

\* get_assets raises
AssetsRaise(p) ==
    /\ pass[p].at = "platforms" /\ pass[p].flush = {}
    /\ pass[p].left \subseteq Keyed[pass[p].repo]
    /\ Abandon(p, "upstream", {})

FinishRepository(p) ==
    /\ pass[p].at = "platforms" /\ pass[p].left = {} /\ pass[p].flush = {}
    /\ LET r == pass[p].repo
       IN  Become(p, [pass[p] EXCEPT !.at = "synced", !.repo = NoListing, !.done = @ \cup {r},
                          !.joined = Upd(pass[p].joined, [x \in {r} |-> Links(p, r) \cup Wanted(r)])])
    /\ UNCHANGED <<database, failures>>

\* It has new releases somebody subscribed to, or not
Announce(p) ==
    /\ pass[p].at = "synced"
    /\ CommitRows(p, [pass[p] EXCEPT !.at = "next", !.inserted = {},
                                     !.joined = None, !.filled = None])
Proceed(p)  == /\ pass[p].at = "synced" /\ Become(p, [pass[p] EXCEPT !.at = "next"])
               /\ UNCHANGED <<database, failures>>
\* The source's next pass has the same listing before it
EndPass(p)  == pass[p].at = "next" /\ pass[p].done = RepositoriesOf(p) /\ CommitRows(p, Between)

RowsNext ==
    \E p \in RowPasses :
        \/ \E r \in RepositoriesOf(p) : BeginRepository(p, r) \/ NoReleases(p, r)
        \/ Flush(p) \/ FlushRaises(p)
        \/ \E n \in pass[p].left : TakePlatform(p, n)
        \/ AssetsRaise(p) \/ FinishRepository(p) \/ Announce(p) \/ Proceed(p) \/ EndPass(p)

RowsSpec == RowsInit /\ [][RowsNext]_rowVars

--------------------------------------------------------------------------------
(* Properties *)

\* Whatever was rolled back on the way, a committed application has all that its repository
\* names, and all of it is there (crawler/sync.py, sync_source)
AppsWhole == \A r \in DOMAIN apps : Wanted(r) \subseteq apps[r] /\ apps[r] \subseteq DOMAIN shared_rows

\* A partial answer does not erase what an earlier one filled in, but for the number of
\* contributors (crawler/sync.py, _persist_enrichment)
RicherKept == \A r \in DOMAIN richest : richest[r] \ {"contributors"} \subseteq fields[r]

\* A repository fails over a name only if a pass of another source inserted it meanwhile: never
\* over one of its own source, and never over what was there (crawler/sync.py, the caches)
FailuresExplained ==
    \A f \in failures :
        f.cause = "conflict" => \A n \in f.names : shared_rows[n] \in RowPasses \ {f.pass}

RowsHonest == AppsWhole /\ RicherKept /\ FailuresExplained

\* "One bad repository must not abort the whole pass." (crawler/sync.py, sync_source): what raises
\* is left behind, and the pass goes on with the repositories after it
PassGoesOn ==
    [][\A p \in RowPasses :
          pass[p].at = "platforms" /\ pass'[p].at # "platforms" =>
              pass'[p].done = pass[p].done \cup {pass[p].repo}]_rowVars
================================================================================
