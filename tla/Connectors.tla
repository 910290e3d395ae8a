------------------------------- MODULE Connectors ------------------------------
(***************************************************************************)
(* What the source connectors make of an upstream's records, and what the  *)
(* catalogue keeps of it under which key: discovered rows, the look-up of  *)
(* a row at its upstream again, releases and their assets, per source      *)
(* (connectors/*/connector.py), stored by crawler/discovery.py and         *)
(* crawler/sync.py.  An entry of an upstream is one application there: its *)
(* number, its address, its short name, and its releases, newest first.    *)
(***************************************************************************)
EXTENDS Integers, SequencesExt

CONSTANTS
    Worlds,      \* sequences of entries, of one source or several, that appear one by one
    Offered,     \* releases that may be published: [tag, name, stamp (0: no date), file]
    TakeLimit,   \* max_releases_per_repo
    MaxReleases  \* bound: releases of an entry

Hosting  == {"github", "gitlab", "gitea"}
Packages == {"fdroid", "flathub"}

\* A name is the sequence of its words
EntryRows == [source : Hosting \cup Packages \cup {"homebrew", "winget", "fmhy"},
              number : STRING, path : STRING, name : Seq(STRING) \ {<<>>}, platform : STRING]

\* A source gives each of its entries a number and an address of its own; the hash of a link,
\* the number of FMHY's entries, is no word
ASSUME ConnectorsAssumption ==
    /\ Worlds \subseteq Seq(EntryRows) \ {<<>>}
    /\ \A w \in Worlds : \A e, f \in DOMAIN w :
          e # f /\ w[e].source = w[f].source => w[e].number # w[f].number /\ w[e].path # w[f].path
    /\ \A w \in Worlds : \A e, f \in DOMAIN w :
          w[e].source = "fmhy" => w[e].number \notin Range(w[f].name) \cup {w[f].platform}
    /\ Offered \subseteq [tag : Nat, name : STRING, stamp : Nat, file : STRING]
    /\ TakeLimit \in Nat \ {0} /\ MaxReleases \in Nat \ {0}

VARIABLES
    world,     \* the entries there are or will be
    listed,    \* how many of them have appeared upstream
    upstream,  \* their releases, newest first
    rows,      \* repositories: the keys a discovery gave an entry, [entry, external, full]
    releases,  \* releases: [row, external, tag]
    assets,    \* assets by their asset_id: [id, entry, tag]
    links,     \* release_assets
    fetched    \* entries whose releases were last taken in as they are upstream

connectorVars == <<world, listed, upstream, rows, releases, assets, links, fetched>>

Entries  == 1 .. listed
Of(e)    == world[e]

ConnectorsInit ==
    /\ world \in Worlds
    /\ listed = 1 /\ upstream = [e \in 1 .. Len(world) |-> <<>>]
    /\ rows = {} /\ releases = {} /\ assets = {} /\ links = {} /\ fetched = {}

\* Upstream
Appear  == /\ listed < Len(world) /\ listed' = listed + 1
           /\ UNCHANGED <<world, upstream, rows, releases, assets, links, fetched>>
Publish(e, r) ==
    /\ Of(e).source # "fmhy" /\ Len(upstream[e]) < MaxReleases
    /\ \A i \in 1 .. Len(upstream[e]) : upstream[e][i].tag < r.tag
    /\ upstream' = [upstream EXCEPT ![e] = <<r>> \o @]
    /\ fetched' = fetched \ {e}
    /\ UNCHANGED <<world, listed, rows, releases, assets, links>>

--------------------------------------------------------------------------------
(* Keys of an entry *)

Siblings(e) == {f \in Entries : Of(f).source = Of(e).source}

\* Mutant: the platform alone tells namesakes apart
FmhyId_Platform(e) ==
    IF {f \in Siblings(e) : Of(f).name = Of(e).name} = {e} THEN Of(e).name
    ELSE Append(Of(e).name, Of(e).platform)
\* FMHY gives a name's slug, here the sequence of its words; names that are listed more than
\* once get their platform, and the hash of their link when that is not enough
FmhyId(e) ==
    LET namesakes == {f \in Siblings(e) : Of(f).name = Of(e).name}
        alike     == {f \in namesakes : Of(f).platform = Of(e).platform}
    IN  CASE namesakes = {e} -> Of(e).name
          [] namesakes # {e} /\ alike = {e} -> Append(Of(e).name, Of(e).platform)
          [] OTHER -> Of(e).name \o <<Of(e).platform, Of(e).number>>

\* The ids of the records connectors make of an entry
GitHubRow(e)   == [external |-> <<"number", Of(e).number>>, full |-> <<"path", Of(e).path>>]
GitLabRow(e)   == [external |-> <<"number", Of(e).number>>, full |-> <<"path", Of(e).path>>]
GiteaRow(e)    == [external |-> <<"number", Of(e).number>>, full |-> <<"path", Of(e).path>>]
FDroidRow(e)   == [external |-> <<"package", Of(e).path>>, full |-> <<"package", Of(e).path>>]
FlathubRow(e)  == [external |-> <<"package", Of(e).path>>, full |-> <<"package", Of(e).path>>]
HomebrewRow(e) == [external |-> <<"name", Of(e).name>>, full |-> <<"homebrew", Of(e).name>>]
WingetRow(e)   == [external |-> <<"name", Of(e).name>>, full |-> <<"path", Of(e).path>>]
FmhyRow(e)     == [external |-> <<"slug", FmhyId(e)>>, full |-> <<"fmhy", FmhyId(e)>>]

Ids(e) == CASE Of(e).source = "github"   -> GitHubRow(e)
            [] Of(e).source = "gitlab"   -> GitLabRow(e)
            [] Of(e).source = "gitea"    -> GiteaRow(e)
            [] Of(e).source = "fdroid"   -> FDroidRow(e)
            [] Of(e).source = "flathub"  -> FlathubRow(e)
            [] Of(e).source = "homebrew" -> HomebrewRow(e)
            [] Of(e).source = "winget"   -> WingetRow(e)
            [] Of(e).source = "fmhy"     -> FmhyRow(e)

RowKey(e) == <<Of(e).source, Ids(e).external>>
Row(e) == [key |-> RowKey(e), source |-> Of(e).source, entry |-> e, external |-> Ids(e).external,
           full |-> Ids(e).full]

\* upsert_repository: by source and external id
Discover(e) ==
    /\ rows' = {r \in rows : r.key # RowKey(e)} \cup {Row(e)}
    /\ UNCHANGED <<world, listed, upstream, releases, assets, links, fetched>>

--------------------------------------------------------------------------------
(* Asking an upstream for a row again *)

FirstOf(found) == {e \in found : \A f \in found : e <= f}

\* get_repository(full_name); Homebrew is asked for the name with its prefix, and Winget for a
\* manifest that is called by the package's path, where it is called by its identifier
Found(r) ==
    LET these == {e \in Entries : Of(e).source = r.source /\ Ids(e).full = r.full}
    IN  CASE r.source \in {"homebrew", "winget"} -> {}
          [] r.source = "fmhy" -> FirstOf(these)
          [] OTHER -> these

\* _fetch_detail: a formula is looked for before a cask
Brewed(r) ==
    LET named    == {e \in Entries : Of(e).source = "homebrew" /\ Ids(e).external = r.external}
        formulae == {e \in named : Of(e).platform = "formula"}
    IN  IF formulae # {} THEN formulae ELSE named

\* Whose releases get_releases asks for: by the full name, by the external id, or not at all
Asked(r) ==
    LET these == {e \in Entries : Of(e).source = r.source}
    IN  CASE r.source \in {"github", "gitea"} -> {e \in these : Ids(e).full = r.full}
          [] r.source \in {"gitlab", "fdroid", "flathub"} -> {e \in these : Ids(e).external = r.external}
          [] r.source = "homebrew" -> Brewed(r)
          [] OTHER -> {}

--------------------------------------------------------------------------------
(* Releases: the order they come in, and the external id of each *)

Newer(list, i, k) == list[i].stamp > list[k].stamp \/ (list[i].stamp = list[k].stamp /\ i < k)
ByDate(list) ==
    LET order == CHOOSE s \in SetToSeqs(DOMAIN list) :
                     \A i, k \in DOMAIN s : i < k => Newer(list, s[i], s[k])
    IN  [i \in DOMAIN list |-> list[order[i]]]
\* One with a date cannot be compared with one without, and the call raises
Unsortable(list) == \E x, y \in Range(list) : x.stamp = 0 /\ y.stamp # 0
UpTo(list, n)  == SubSeq(list, 1, IF Len(list) < n THEN Len(list) ELSE n)
Entitled(list, id(_)) == [i \in DOMAIN list |-> [external |-> id(list[i]), of |-> list[i]]]

\* Mutant: releases are told apart by their title
GitHubReleases_Titled(e, list) == Entitled(ByDate(list), LAMBDA x : <<x.name>>)
GitHubReleases(e, list)   == Entitled(ByDate(list), LAMBDA x : <<"number", x.tag>>)
GitLabReleases(e, list)   == Entitled(ByDate(list), LAMBDA x : <<x.name>>)
GiteaReleases(e, list)    == Entitled(list, LAMBDA x : <<"number", x.tag>>)
FDroidReleases(e, list)   == Entitled(list, LAMBDA x : <<Ids(e).external, x.tag>>)
FlathubReleases(e, list)  == Entitled(list, LAMBDA x : <<Ids(e).external, x.tag>>)
HomebrewReleases(e, list) == Entitled(UpTo(list, 1), LAMBDA x : <<Ids(e).external, x.tag>>)

Releases(e) ==
    LET list == upstream[e]
    IN  CASE Of(e).source = "github"   -> GitHubReleases(e, list)
          [] Of(e).source = "gitlab"   -> GitLabReleases(e, list)
          [] Of(e).source = "gitea"    -> GiteaReleases(e, list)
          [] Of(e).source = "fdroid"   -> FDroidReleases(e, list)
          [] Of(e).source = "flathub"  -> FlathubReleases(e, list)
          [] Of(e).source = "homebrew" -> HomebrewReleases(e, list)

(* asset_id, the key of the assets of all sources *)

\* Mutant: without the source
GitLabAsset_Bare(e, x) == <<"gh", Of(e).number, x.tag>>
GitHubAsset(e, x)   == <<"gh", Of(e).number, x.tag>>
GitLabAsset(e, x)   == <<"gl", Of(e).number, x.tag>>
GiteaAsset(e, x)    == <<"gitea", Of(e).number, x.tag>>
FDroidAsset(e, x)   == <<"fdroid", Of(e).path, x.tag>>
FlathubAsset(e, x)  == <<"flathub", Of(e).path>>
HomebrewAsset(e, x) == <<"homebrew", x.file>>

AssetId(e, x) == CASE Of(e).source = "github"   -> GitHubAsset(e, x)
                   [] Of(e).source = "gitlab"   -> GitLabAsset(e, x)
                   [] Of(e).source = "gitea"    -> GiteaAsset(e, x)
                   [] Of(e).source = "fdroid"   -> FDroidAsset(e, x)
                   [] Of(e).source = "flathub"  -> FlathubAsset(e, x)
                   [] Of(e).source = "homebrew" -> HomebrewAsset(e, x)

--------------------------------------------------------------------------------

\* Releases and assets are upserted one after the other, and what came later stays
Taken(r, e, list) ==
    LET at      == DOMAIN list
        release == [i \in at |-> list[i].external]
        asset   == [i \in at |-> AssetId(e, list[i].of)]
        lastOf(id) == {i \in at : \A j \in at : j > i => id[j] # id[i]}
    IN  [releases |-> {[row |-> r.key, external |-> release[i], tag |-> list[i].of.tag] : i \in lastOf(release)},
         assets |-> {[id |-> asset[i], entry |-> e, tag |-> list[i].of.tag] : i \in lastOf(asset)},
         links |-> {[row |-> r.key, external |-> release[i], asset |-> asset[i], entry |-> e,
                     tag |-> list[i].of.tag] : i \in at}]

Upsert(old, new, key(_)) == {x \in old : \A y \in new : key(y) # key(x)} \cup new

\* sync_repository, of an entry the upstream answers for
Sync(r) ==
    \E e \in Asked(r) :
        LET new == Taken(r, e, UpTo(Releases(e), TakeLimit))
        IN  /\ r.source \in {"github", "gitlab"} => ~Unsortable(upstream[e])
            /\ releases' = Upsert(releases, new.releases, LAMBDA x : <<x.row, x.external>>)
            /\ assets' = Upsert(assets, new.assets, LAMBDA x : x.id)
            /\ links' = Upsert(links, new.links, LAMBDA x : <<x.row, x.external, x.asset>>)
            /\ fetched' = fetched \cup {e}
            /\ UNCHANGED <<world, listed, upstream, rows>>

ConnectorsNext ==
    \/ Appear
    \/ \E e \in Entries : Discover(e) \/ \E r \in Offered : Publish(e, r)
    \/ \E r \in rows : Sync(r)

ConnectorsSpec == ConnectorsInit /\ [][ConnectorsNext]_connectorVars

--------------------------------------------------------------------------------

ConnectorsTypeOK ==
    /\ world \in Worlds /\ listed \in 1 .. Len(world)
    /\ \A e \in 1 .. Len(world) : upstream[e] \in Seq(Offered) /\ Len(upstream[e]) <= MaxReleases
    /\ \A r \in rows : r.entry \in Entries
    /\ \A x \in releases : \E r \in rows : r.key = x.row
    /\ \A a \in assets : a.entry \in Entries
    /\ fetched \subseteq Entries

\* Names of other entries that would be read as this one's with its platform
Lookalikes(e) == {f \in Siblings(e) : Len(Of(f).name) > 1 /\ Front(Of(f).name) = Of(e).name}

\* A row leads back to the entry it was made of, whatever has appeared since, or to none; and
\* to none only of the sources that cannot be asked (Homebrew, Winget), and of FMHY when a
\* namesake has appeared since
RowsResolve ==
    \A r \in rows :
        LET e == r.entry
            alone == {f \in Siblings(e) : Of(f).name = Of(e).name} = {e}
        IN  /\ (r.source = "fmhy" /\ \E f \in Siblings(e) : Lookalikes(f) # {}) \/ Found(r) \subseteq {e}
            /\ r.source \in Hosting \cup Packages \/ (r.source = "fmhy" /\ alone) => Found(r) # {}

\* After a fetch, every release within the limit has a row of its own with its tag, but for
\* GitLab's that share their title; the rows of other entries are left alone
ReleasesTrue ==
    \A e \in fetched, r \in rows : r.key = RowKey(e) =>
        LET taken == Range(UpTo(Releases(e), TakeLimit))
        IN  \A x \in taken :
                \/ r.source = "gitlab" /\ \E y \in taken \ {x} : y.of.name = x.of.name
                \/ \E z \in releases : z.row = r.key /\ z.tag = x.of.tag

\* No link of a release leads to a file of another application, whatever its source, nor to
\* that of another release: but for Homebrew's files of the same name and Flathub's only file
AssetsTheirs ==
    \A l \in links : \E a \in assets :
        /\ a.id = l.asset
        /\ a.entry = l.entry \/ l.row[1] = "homebrew"
        /\ a.tag = l.tag \/ l.row[1] \in {"homebrew", "flathub", "gitlab"}

SourcesHonest == RowsResolve /\ ReleasesTrue /\ AssetsTheirs

================================================================================
