------------------------------ MODULE MCCatalogue ------------------------------
EXTENDS ApiRateLimit, Library, FeedFiles, DerivedData, Analytics, Connectors, CatalogueRows,
        AssetValidation, FmhyPage, GitHubListing, Scores, CatalogSearch, TLC

\* One instance of each; "part" says which of them a behaviour shows
VARIABLE part

MCFeeds == <<"stable">>

Look(tags, categories, developer, evidence) ==
    [tags |-> tags, categories |-> categories, platforms |-> {"linux"}, developer |-> developer,
     evidence |-> evidence]
Six == {"open_source", "repository", "signature", "hash", "developer", "organization", "verified"}
\* Similarities on both sides of the two thresholds, and on one of them
MCLooks == [edges     |-> {Look({"x"}, {"c"}, 1, {}), Look({"x"}, {"e"}, 0, {}), Look({"y"}, {"e"}, 1, {})},
            documents |-> {Look({}, {}, 0, {}), Look({"x"}, {}, 0, {})},
            profiles  |-> {Look({}, {}, 0, Six), Look({}, {}, 0, Six \cup {"flagged"})}]

\* Two batches count an application; one has an unknown application, a day to come, a day long
\* ago and more of a kind than are taken
Event(k, w, d) == [kind |-> k, what |-> w, day |-> d]
MCBatches ==
    {<<Event("download", 1, 4), Event("download", 1, 2), Event("search", "q", 4), Event("search", "q", 2)>>,
     <<Event("download", 1, 5), Event("view", 9, 4), Event("search", "q", 3), Event("download", 2, 0),
       Event("download", 2, 4)>>}

\* Entries of the same number, address or name: of two hosts, of two package indexes, of a page
\* where namesakes appear, and of a formula and a cask
Entry(s, n, p, name, on) == [source |-> s, number |-> n, path |-> p, name |-> name, platform |-> on]
MCWorlds ==
    {<<Entry("github", "1", "p", <<"a">>, "any"), Entry("gitlab", "1", "p", <<"a">>, "any"),
       Entry("gitea", "1", "p", <<"a">>, "any")>>,
     <<Entry("fdroid", "1", "p", <<"a">>, "any"), Entry("flathub", "1", "p", <<"a">>, "any")>>,
     <<Entry("fmhy", "1", "p", <<"a">>, "android"), Entry("fmhy", "2", "q", <<"a">>, "ios"),
       Entry("fmhy", "3", "r", <<"a">>, "ios")>>,
     <<Entry("fmhy", "1", "p", <<"a">>, "android"), Entry("fmhy", "2", "q", <<"a">>, "ios"),
       Entry("fmhy", "3", "r", <<"a", "ios">>, "ios")>>,
     <<Entry("homebrew", "1", "p", <<"a">>, "cask"), Entry("homebrew", "2", "q", <<"a">>, "formula"),
       Entry("winget", "2", "w", <<"a">>, "any")>>}
\* Two of the same title, and one without a date
MCOffered == {[tag |-> 10, name |-> "first", stamp |-> 1, file |-> "f"],
              [tag |-> 11, name |-> "next", stamp |-> 2, file |-> "f"],
              [tag |-> 20, name |-> "next", stamp |-> 0, file |-> "g"]}

\* Two sources insert the same tag and the same platform in another order; one takes a platform
\* that was there, the other the platform once more that it has inserted, and committed or not
MCListing == [p \in RowPasses |-> IF p = "one" THEN <<"r1", "r2">> ELSE <<"s", "t">>]
MCNamed(named) == [r \in {"r1", "r2", "s", "t"} |-> IF r \in DOMAIN named THEN named[r] ELSE {}]
MCJoined  == MCNamed([r \in {"r1", "t"} |-> {"tag"}])
MCHinted  == MCNamed([r \in {"s"} |-> {"linux"}])
MCFields  == MCNamed([r2 |-> {"readme"}])
MCKeyed   == MCNamed([r1 |-> {"linux", "macos"}, r2 |-> {"macos"}, t |-> {"linux"}])

MCFiles == {[outcome |-> "valid", reasons |-> 0], [outcome |-> "invalid", reasons |-> 1]}

\* Parts of entries of every shape, their texts and addresses good and bad, on pages where a
\* section follows without a platform, with another, or as a subsection
Heading(l, t) == [block |-> "heading", level |-> l, title |-> t]
ListItem(parts, inner) == [block |-> "entry", parts |-> parts, inner |-> inner]
Part(s, u, t) == [shape |-> s, url |-> u, text |-> t]
MCParts == {Part("text", "", "words"), Part("strong", "", "n"), Part("strong", "", "ornament"),
            Part("link", "", "n"), Part("link", "w", "picture"), Part("link", "w", "ornament"),
            Part("link", "v", "n"), Part("link", "#", "m"), Part("stronglink", "w", "n"),
            Part("stronglink", "apple", "m"), Part("linkstrong", "v", "n"),
            Part("linkstrong", "w", "picture")}
MCItems == {ListItem(<<p>>, inner) : p \in MCParts, inner \in {<<>>} \cup {<<q>> : q \in MCParts}}
           \cup {ListItem(<<p, q>>, <<>>) : p, q \in MCParts}
MCHeadings == {Heading(1, "both"), Heading(2, "ios"), Heading(3, "ios"), Heading(2, "other")}
MCPages == {<<i, h, i>> : i \in MCItems, h \in MCHeadings}
           \cup {<<Heading(2, "android"), i, h, i, ListItem(<<Part("link", "v", "z")>>, <<>>)>> :
                     i \in MCItems, h \in MCHeadings}
           \cup {<<Heading(1, "both"), ListItem(<<p, q, r>>, <<>>)>> : p, q, r \in MCParts}
MCStoreOf == [u \in {"apple"} |-> "ios"]

\* An application and one that differs in one thing, from a poor, a middling and a rich one on
Plain(n, b) == [stars |-> n[1], forks |-> n[2], contributors |-> n[3], releases |-> n[4],
                platforms |-> n[5], license |-> b, open |-> b, readme |-> b, described |-> b]
Ranges == [stars |-> {0, 9, 10, 99, 100, 999, 1000, 9999}, forks |-> {0, 9, 999, 9999},
           contributors |-> {0, 1, 5, 20, 99}, releases |-> {0, 1, 3, 10}, platforms |-> 0..4,
           license |-> BOOLEAN, open |-> BOOLEAN, readme |-> BOOLEAN, described |-> BOOLEAN]
Stages == {Plain(<<0, 0, 0, 0, 0>>, FALSE), Plain(<<99, 9, 4, 1, 1>>, TRUE),
           Plain(<<9999, 9999, 9999, 10, 4>>, TRUE)}
MCPortraits == UNION {{[one |-> [z EXCEPT ![f] = v], two |-> z] : v \in Ranges[f]} :
                          f \in DOMAIN Ranges, z \in Stages}

\* Three rows, two of a name; the third may be unscored and found by words alone, the second
\* may have a fault; the last is the nearest to what is asked for
MCDistance == [a \in {1, 2, 3} |-> IF a = 3 THEN 0 ELSE 1]
CatalogueRow(n, s, t, texts, open, slug, faults) ==
    [name |-> n, score |-> s, trust |-> t, texts |-> texts, open |-> open,
     category |-> [slug |-> slug, type |-> "c"], faults |-> faults]
MCRowSets ==
    {<<CatalogueRow(1, 1, 60, {"substring", "words"}, "open_source", "c", {}),
       CatalogueRow(1, 0, 90, {"substring", "words"}, "unknown", "d", m),
       CatalogueRow(0, 2, t, x, "not_open_source", "c", {})>> :
        m \in {{}, {"address"}}, t \in {-1, 80}, x \in {{"words"}, {"substring", "words"}}}
Ask(t, c, o, m, s) == [text |-> t, category |-> c, open |-> o, trust |-> m, sort |-> s]
MCRequests == {Ask("q", "", o, -1, "popularity") : o \in {"none", "true", "on", "false"}}
              \cup {Ask("q", "", "none", 70, "popularity"), Ask("", "c", "none", -1, "popularity"),
                    Ask("q", "c", "none", -1, "name")}

vars == <<limitVars, libraryVars, fileVars, derivedVars, analyticsVars, connectorVars, rowVars,
          assetVars, pageVars, listingVars, scoreVars, searchVars, part>>

\* The other parts have one initial state
AnyWorld    == CHOOSE w \in Worlds : TRUE
AnyPage     == CHOOSE p \in Pages : TRUE
AnyPortrait == CHOOSE p \in Portraits : TRUE
AnyRows     == CHOOSE r \in RowSets : TRUE
AnyRequest  == CHOOSE r \in Requests : TRUE
OthersRest ==
    /\ part # "limit" => shared = TRUE
    /\ part # "files" => keys = [private |-> 1, public |-> 1]
    /\ part # "derived" => kind = "documents"
    /\ part # "derived" => looks = [x \in Apps |-> Look({}, {}, 0, {})]
    /\ part # "connectors" => world = AnyWorld
    /\ part # "assets" => origin = "feed"
    /\ part # "page" => page = AnyPage
    /\ part # "scores" => portraits = AnyPortrait
    /\ part # "search" => app_rows = AnyRows
    /\ part # "search" => request = AnyRequest

MCInit == /\ part \in {"limit", "library", "files", "derived", "analytics", "connectors", "rows",
                      "assets", "page", "listing", "scores", "search"}
          /\ OthersRest
          /\ RateLimitInit /\ LibraryInit /\ FeedFilesInit /\ DerivedInit /\ AnalyticsInit
          /\ ConnectorsInit /\ RowsInit /\ AssetInit /\ PageInit /\ ListingInit
          /\ ScoresInit /\ SearchInit
          \* Renaming the keys turns one private key into another
          /\ keys.private = 1
          \* Applications that look the same are met after a change
          /\ (part = "derived" /\ kind = "edges") =>
                 looks = CHOOSE l \in [Apps -> Looks.edges] : \A x, y \in Apps : x # y => l[x] # l[y]
          \* Profiles differ after a change
          /\ (part = "derived" /\ kind = "profiles") => \A x, y \in Apps : looks[x] = looks[y]

\* What is not of part p stays
Others(p) ==
    /\ IF p = "limit" THEN TRUE ELSE UNCHANGED limitVars
    /\ IF p = "library" THEN TRUE ELSE UNCHANGED libraryVars
    /\ IF p = "files" THEN TRUE ELSE UNCHANGED fileVars
    /\ IF p = "derived" THEN TRUE ELSE UNCHANGED derivedVars
    /\ IF p = "analytics" THEN TRUE ELSE UNCHANGED analyticsVars
    /\ IF p = "connectors" THEN TRUE ELSE UNCHANGED connectorVars
    /\ IF p = "rows" THEN TRUE ELSE UNCHANGED rowVars
    /\ IF p = "assets" THEN TRUE ELSE UNCHANGED assetVars
    /\ IF p = "page" THEN TRUE ELSE UNCHANGED pageVars
    /\ IF p = "listing" THEN TRUE ELSE UNCHANGED listingVars
    /\ IF p = "scores" THEN TRUE ELSE UNCHANGED scoreVars
    /\ IF p = "search" THEN TRUE ELSE UNCHANGED searchVars
    /\ UNCHANGED part

LimitPart      == part = "limit" /\ RateLimitNext /\ Others("limit")
LibraryPart    == part = "library" /\ LibraryNext /\ Others("library")
FilesPart      == part = "files" /\ FeedFilesNext /\ Others("files")
DerivedPart    == part = "derived" /\ DerivedNext /\ Others("derived")
AnalyticsPart  == part = "analytics" /\ AnalyticsNext /\ Others("analytics")
ConnectorsPart == part = "connectors" /\ ConnectorsNext /\ Others("connectors")
RowsPart       == part = "rows" /\ RowsNext /\ Others("rows")
AssetsPart     == part = "assets" /\ AssetNext /\ Others("assets")
PagePart       == part = "page" /\ PageNext /\ Others("page")
ListingPart    == part = "listing" /\ ListingNext /\ Others("listing")
ScoresPart     == part = "scores" /\ ScoresNext /\ Others("scores")
SearchPart     == part = "search" /\ SearchNext /\ Others("search")

MCNext == \/ LimitPart \/ LibraryPart \/ FilesPart \/ DerivedPart \/ AnalyticsPart
          \/ ConnectorsPart \/ RowsPart \/ AssetsPart \/ PagePart \/ ListingPart
          \/ ScoresPart \/ SearchPart
MCSpec == MCInit /\ [][MCNext]_vars

TypeOK == /\ part = "limit" => RateLimitTypeOK
          /\ part = "library" => LibraryTypeOK
          /\ part = "files" => FeedFilesTypeOK
          /\ part = "derived" => DerivedTypeOK
          /\ part = "analytics" => AnalyticsTypeOK
          /\ part = "connectors" => ConnectorsTypeOK
          /\ part = "assets" => AssetTypeOK
          /\ part = "page" => PageTypeOK
          /\ part = "listing" => ListingTypeOK
          /\ part = "scores" => ScoresTypeOK
          /\ part = "search" => SearchTypeOK

\* What is read from upstream is upstream's.  Connectors keep its entries apart: no two of them
\* become one row unless they share what the connector takes for their identity; a page's links
\* become entries under the platform and the name that stand over them; and a list of releases
\* that came in pages is whole
UpstreamRead == SourcesHonest /\ PageHonest /\ ListingHonest

\* What is computed from what is stored agrees with it: counters and views with the batches
\* taken in, scores with metadata, and pages of a search with the index or the database
ComputedHonest == AnalyticsHonest /\ ScoresHonest /\ SearchHonest

\* The processes, clients, writers and jobs have the same names
MCSymmetry == Permutations(Processes)
================================================================================
