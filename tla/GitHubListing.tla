----------------------------- MODULE GitHubListing -----------------------------
(***************************************************************************)
(* The releases of a repository as GitHub's connector lists them           *)
(* (connectors/github/client.py, connector.py): page by page, each page    *)
(* from upstream or from the client's cache (connectors/cache.py), while   *)
(* releases are published and withdrawn.  A client is of one pass, so its  *)
(* calls come one after the other; tokens and retries are in               *)
(* ConnectorRequests, and a page that fails here has used up its retries.  *)
(***************************************************************************)
EXTENDS Integers, FiniteSets, SequencesExt

CONSTANTS
    PageSize,    \* 100
    Lifetime,    \* max-age of upstream's answers, or default_ttl
    MaxCached,   \* max_size
    ListingEnd,  \* bound: the clock
    MaxReleased, \* bound: releases
    MaxListings  \* bound: calls

ASSUME ListingAssumption ==
    /\ PageSize \in Nat \ {0} /\ Lifetime \in Nat /\ MaxCached \in Nat \ {0}
    /\ ListingEnd \in Nat /\ MaxReleased \in Nat \ {0, 1} /\ MaxListings \in Nat

VARIABLES
    moment,    \* the clock
    released,  \* upstream: the repository's releases, the latest first
    born,      \* history: when each came, and
    gone,      \* when those that were withdrawn went
    cached,    \* the client's cache, in the order it was filled
    call,      \* get_releases
    listings   \* calls so far

listingVars == <<moment, released, born, gone, cached, call, listings>>

Numbers  == 1 .. MaxReleased
NotYet   == -1
NoCall   == [at |-> "idle", page |-> 1, items |-> <<>>, from |-> {}, since |-> 0]

ListingInit ==
    /\ moment = 1 /\ released = <<2, 1>> /\ cached = <<>>
    /\ born = [r \in Numbers |-> IF r \in {1, 2} THEN 0 ELSE NotYet]
    /\ gone = [r \in Numbers |-> NotYet]
    /\ call = NoCall /\ listings = 0

--------------------------------------------------------------------------------
(* Upstream *)

PublishRelease(r) ==
    /\ born[r] = NotYet /\ \A q \in 1 .. r - 1 : born[q] # NotYet
    /\ released' = <<r>> \o released /\ born' = [born EXCEPT ![r] = moment]
    /\ UNCHANGED <<moment, gone, cached, call, listings>>

WithdrawRelease(r) ==
    /\ \E i \in DOMAIN released : released[i] = r /\ released' = RemoveAt(released, i)
    /\ gone' = [gone EXCEPT ![r] = moment]
    /\ UNCHANGED <<moment, born, cached, call, listings>>

PassTime == /\ moment < ListingEnd /\ moment' = moment + 1
            /\ UNCHANGED <<released, born, gone, cached, call, listings>>

UpstreamPage(n) == [page |-> n, at |-> moment,
                    items |-> SubSeq(released, (n - 1) * PageSize + 1,
                                     IF n * PageSize < Len(released) THEN n * PageSize
                                                                     ELSE Len(released)),
                    next  |-> n * PageSize < Len(released)]

--------------------------------------------------------------------------------
(* The cache *)

\* Mutant: what is cached stays good
Expired_Never(entry) == FALSE
Expired(entry) == moment - entry.at > Lifetime

\* A page has one entry at most
EntriesOf(n) == {e \in Range(cached) : e.page = n}
Hit(n)       == \E e \in EntriesOf(n) : ~Expired(e)
NotOf(n)     == IF EntriesOf(n) = {} THEN cached
                ELSE RemoveAt(cached, CHOOSE i \in DOMAIN cached : cached[i].page = n)

\* An expired entry goes when it is looked for, the oldest when a new one comes to a full cache
Put(entry) == LET others == NotOf(entry.page)
              IN  Append(IF Len(others) >= MaxCached THEN Tail(others) ELSE others, entry)

--------------------------------------------------------------------------------
(* get_releases *)

StartListing ==
    /\ call.at # "pages" /\ listings < MaxListings
    /\ listings' = listings + 1 /\ call' = [NoCall EXCEPT !.at = "pages", !.since = moment]
    /\ UNCHANGED <<moment, released, born, gone, cached>>

\* An empty page or one without a next ends the list
Take(entry, source) ==
    LET taken == [call EXCEPT !.items = @ \o entry.items, !.from = @ \cup {source}]
    IN  call' = IF entry.items # <<>> /\ entry.next THEN [taken EXCEPT !.page = @ + 1]
                ELSE [taken EXCEPT !.at = "listed"]

TakeCached ==
    /\ call.at = "pages"
    /\ \E e \in EntriesOf(call.page) : ~Expired(e) /\ Take(e, "cache")
    /\ UNCHANGED <<moment, released, born, gone, cached, listings>>

FetchPage ==
    /\ call.at = "pages" /\ ~Hit(call.page)
    /\ cached' = Put(UpstreamPage(call.page)) /\ Take(UpstreamPage(call.page), "upstream")
    /\ UNCHANGED <<moment, released, born, gone, listings>>

\* An error, or an answer that is one: the list goes with it
\* Mutant: what was listed so far is the list
PageFails_EndsList ==
    /\ call.at = "pages" /\ ~Hit(call.page)
    /\ call' = [call EXCEPT !.at = "listed"] /\ cached' = NotOf(call.page)
    /\ UNCHANGED <<moment, released, born, gone, listings>>
PageFails ==
    /\ call.at = "pages" /\ ~Hit(call.page)
    /\ call' = [call EXCEPT !.at = "failed", !.items = <<>>] /\ cached' = NotOf(call.page)
    /\ UNCHANGED <<moment, released, born, gone, listings>>

ListingNext ==
    \/ \E r \in Numbers : PublishRelease(r) \/ WithdrawRelease(r)
    \/ PassTime \/ StartListing \/ TakeCached \/ FetchPage \/ PageFails

ListingSpec == ListingInit /\ [][ListingNext]_listingVars

--------------------------------------------------------------------------------
(* Properties *)

ListingTypeOK ==
    /\ call.at \in {"idle", "pages", "listed", "failed"}
    /\ Range(call.items) \subseteq Numbers /\ Range(released) \subseteq Numbers
    /\ Len(cached) <= MaxCached

WasListed == call.at = "listed"
ChangedSince(from) == \E r \in Numbers : born[r] >= from \/ (gone[r] # NotYet /\ gone[r] >= from)

\* A list that all came from upstream has every release that was there all the while, unless one
\* was withdrawn meanwhile and moved the others up; and has none twice, unless one was published
ListsWhole ==
    WasListed /\ call.from = {"upstream"} =>
        /\ (\A r \in Numbers : gone[r] < call.since) =>
              \A r \in Numbers : born[r] \in 0 .. call.since - 1 /\ gone[r] = NotYet
                             => r \in Range(call.items)
        /\ (\A r \in Numbers : born[r] < call.since) => IsInjective(call.items)

\* Where nothing has changed for as long as answers are kept, a list is upstream's, whatever
\* pages of it were cached
QuietExact == WasListed /\ ~ChangedSince(call.since - Lifetime) => call.items = released

\* Nothing is listed that had gone before the oldest answer that may be kept
NothingStale ==
    \A r \in Range(call.items) : gone[r] = NotYet \/ gone[r] >= call.since - Lifetime

ListingHonest == ListsWhole /\ QuietExact /\ NothingStale
================================================================================
