------------------------------ MODULE CatalogSearch ----------------------------
(***************************************************************************)
(* A client that pages through an answer of GET /api/v1/search             *)
(* (api/routes/search.py, search/service.py): each page is asked of the    *)
(* search engine, or of the database (core/repositories/application.py)    *)
(* when the request has no text or a filter the engine cannot express, or  *)
(* when the engine does not answer.  In between, scores change, the index  *)
(* is rebuilt (automation/jobs/index.py) and the engine comes and goes.    *)
(*                                                                         *)
(* An application with one fault raises when it is made into an answer or  *)
(* a document (core/repositories/mappers.py, to_omnistore_app): releases   *)
(* with dates and without, which cannot be compared; an address that is    *)
(* none, such as the empty one of an asset or a homepage of several words; *)
(* a platform the schema does not know (core/schemas/omnistore.py).        *)
(***************************************************************************)
EXTENDS Integers, FiniteSets, SequencesExt

CONSTANTS
    Catalogue,   \* applications, as numbers: the engine's last resort when it ranks them
    Distance,    \* how far their texts are from what is asked for, by the engine's first rules
    RowSets,     \* rows there may be
    Requests,    \* what is asked for
    NoDocument,  \* not in the index
    PerPage,
    MaxChanges   \* bound: changes of rows and of the engine

Faults   == {"dates", "address", "platform"}
Statuses == {"open_source", "source_available", "unknown", "not_open_source", "review_required"}
AppRows  == [name : Int, score : Int, trust : Int, texts : SUBSET {"substring", "words"},
             open : Statuses, category : [slug : STRING, type : STRING],
             faults : SUBSET Faults]

ASSUME SearchAssumption ==
    /\ Catalogue \subseteq Nat /\ IsFiniteSet(Catalogue) /\ Distance \in [Catalogue -> Nat]
    /\ RowSets \subseteq [Catalogue -> AppRows] /\ NoDocument \notin AppRows
    /\ Requests \subseteq [text : STRING, category : STRING, open : {"none", "true", "on", "false"},
                           trust : Int, sort : {"name", "popularity"}]
    /\ PerPage \in Nat \ {0} /\ MaxChanges \in Nat

VARIABLES
    app_rows,  \* the database
    indexed,   \* the index: the rows as they were
    engine,    \* whether the engine answers
    request,   \* what the reader asks for
    reader,    \* the pages it has got
    changes    \* changes so far

searchVars == <<app_rows, indexed, engine, request, reader, changes>>

NoAnswer == [page |-> 1, seen |-> <<>>, backends |-> {}, disturbed |-> FALSE, failed |-> FALSE]

SearchInit ==
    /\ app_rows \in RowSets
    /\ indexed = [a \in Catalogue |-> NoDocument]
    /\ engine = "up"
    /\ request \in Requests
    /\ reader = NoAnswer /\ changes = 0

--------------------------------------------------------------------------------
(* Rows and documents *)

Raises(a)   == app_rows[a].faults # {}
Document(a) == app_rows[a]

Disturb == reader' = [reader EXCEPT !.disturbed = TRUE]

\* A sync or a count changes what answers are sorted by
Rescore(a, n) ==
    /\ changes < MaxChanges /\ n # app_rows[a].score
    /\ app_rows' = [app_rows EXCEPT ![a].score = n] /\ changes' = changes + 1 /\ Disturb
    /\ UNCHANGED <<indexed, engine, request>>

\* All applications, or none if one of them raises
RunIndexing ==
    /\ engine = "up" /\ \A a \in Catalogue : ~Raises(a)
    /\ indexed # [a \in Catalogue |-> Document(a)]
    /\ indexed' = [a \in Catalogue |-> Document(a)] /\ Disturb
    /\ UNCHANGED <<app_rows, engine, request, changes>>

EngineTurns ==
    /\ changes < MaxChanges /\ changes' = changes + 1
    /\ engine' = IF engine = "up" THEN "down" ELSE "up"
    /\ UNCHANGED <<app_rows, indexed, request, reader>>

--------------------------------------------------------------------------------
(* Filters *)

\* _build_filtered_query
OpenInDatabase(wanted, status) ==
    CASE wanted = "none"          -> TRUE
      [] wanted \in {"true", "on"} -> status \in {"open_source", "source_available"}
      [] wanted = "false"         -> status = "not_open_source"
InDatabase(r, row) ==
    /\ r.text # "" => "substring" \in row.texts
    /\ r.category # "" => r.category \in {row.category.slug, row.category.type}
    /\ OpenInDatabase(r.open, row.open)
    /\ r.trust >= 0 => row.trust >= r.trust

\* _meili_filters, on documents: slugs only, and a flag for the status
OpenInIndex(wanted, status) ==
    wanted # "none" => (wanted = "true") = (status \in {"open_source", "source_available"})
InIndex(r, document) ==
    /\ document # NoDocument /\ "words" \in document.texts
    /\ r.category # "" => r.category = document.category.slug
    /\ OpenInIndex(r.open, document.open)

\* Mutant: the trust an answer asks for is left to the engine, which knows nothing of it
CanUseEngine_AnyFilter(r) == r.text # ""
CanUseEngine(r) == r.text # "" /\ r.trust < 0

--------------------------------------------------------------------------------
(* Pages *)

\* Mutant: pages overlap by one
Offset_Overlapping(page) == IF page = 1 THEN 0 ELSE (page - 1) * PerPage - 1
Offset(page) == (page - 1) * PerPage
PageOf(all, page) == SubSeq(all, Offset(page) + 1, IF Offset(page) + PerPage < Len(all)
                                                   THEN Offset(page) + PerPage ELSE Len(all))

\* _apply_sort has no second key: rows that tie come in any order, each time
SortKey(a, sort) == IF sort = "name" THEN app_rows[a].name ELSE -app_rows[a].score
Orders(those, sort) ==
    {s \in SetToSeqs(those) :
        \A i, k \in DOMAIN s : i < k => SortKey(s[i], sort) <= SortKey(s[k], sort)}
DatabaseMatches == {a \in Catalogue : InDatabase(request, app_rows[a])}
IndexMatches    == {a \in Catalogue : InIndex(request, indexed[a])}

\* The engine's ranking rules (words, typo, proximity, attribute, sort, exactness): what is asked
\* for as a sort only counts among documents whose texts are as near, and it sorts by what they say
IndexKey(a) == IF request.sort = "name" THEN indexed[a].name ELSE -indexed[a].score
IndexedBefore(a, b) ==
    \/ Distance[a] < Distance[b]
    \/ Distance[a] = Distance[b] /\ IndexKey(a) < IndexKey(b)
    \/ Distance[a] = Distance[b] /\ IndexKey(a) = IndexKey(b) /\ a < b
IndexOrder ==
    CHOOSE s \in SetToSeqs(IndexMatches) :
        \A i, k \in DOMAIN s : i < k => IndexedBefore(s[i], s[k])

Unfinished == ~reader.failed /\ reader.page <= Cardinality(Catalogue) + 1
Got(items, backend) ==
    reader' = [reader EXCEPT !.page = @ + 1, !.seen = @ \o items, !.backends = @ \cup {backend}]

\* Before the first indexing there is no index, and asking it raises
Answers(r) == CanUseEngine(r) /\ engine = "up" /\ \E a \in Catalogue : indexed[a] # NoDocument

FromEngine ==
    /\ Unfinished /\ Answers(request)
    /\ Got(PageOf(IndexOrder, reader.page), "engine")
    /\ UNCHANGED <<app_rows, indexed, engine, request, changes>>

FromDatabase ==
    /\ Unfinished /\ ~Answers(request)
    /\ \E order \in Orders(DatabaseMatches, request.sort) :
          LET items == PageOf(order, reader.page)
          IN  IF \E i \in DOMAIN items : Raises(items[i])
              THEN reader' = [reader EXCEPT !.failed = TRUE] ELSE Got(items, "database")
    /\ UNCHANGED <<app_rows, indexed, engine, request, changes>>

SearchNext ==
    \/ \E a \in Catalogue, n \in {0, 1} : Rescore(a, n)
    \/ RunIndexing \/ EngineTurns \/ FromEngine \/ FromDatabase

SearchSpec == SearchInit /\ [][SearchNext]_searchVars

--------------------------------------------------------------------------------
(* Properties *)

SearchTypeOK == /\ engine \in {"up", "down"} /\ reader.backends \subseteq {"engine", "database"}
                /\ ToSet(reader.seen) \subseteq Catalogue

\* A filter the request has is kept by whatever answered (search/service.py, the routing)
FiltersKept ==
    request.trust >= 0 => \A a \in ToSet(reader.seen) : app_rows[a].trust >= request.trust

\* Unless something changed on the way, the engine came or went, or rows tie, the pages have
\* every match once (search/service.py and application.py, get_apps_paginated)
Ties(those) == \E a, b \in those : a # b /\ SortKey(a, request.sort) = SortKey(b, request.sort)
PagesWhole ==
    /\ ~reader.disturbed /\ ~reader.failed /\ Cardinality(reader.backends) = 1
    /\ reader.page > Cardinality(Catalogue)
    /\ reader.backends = {"database"} => ~Ties(DatabaseMatches)
    => /\ Len(reader.seen) = Cardinality(ToSet(reader.seen))
       /\ ToSet(reader.seen) = IF reader.backends = {"engine"} THEN IndexMatches ELSE DatabaseMatches

\* With an index that is up to date, engine and database choose the same applications, but for
\* matches of words, types of categories, and applications that are not open source: of these
\* the engine knows the unknown ones too, and takes "on" for no
BackendsAgree ==
    (\A a \in Catalogue : indexed[a] = Document(a)) /\ CanUseEngine(request)
        /\ request.open \in {"none", "true"} =>
            \A a \in Catalogue :
                /\ app_rows[a].texts = {"substring", "words"}
                /\ request.category # app_rows[a].category.type
                => (a \in IndexMatches <=> a \in DatabaseMatches)

\* An answer fails only if an application it may have to show cannot be shown
FailsForCause == reader.failed => \E a \in DatabaseMatches : Raises(a)

SearchHonest == FiltersKept /\ PagesWhole /\ BackendsAgree /\ FailsForCause
================================================================================
