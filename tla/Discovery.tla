------------------------------- MODULE Discovery -------------------------------
(***************************************************************************)
(* Discovery passes over one source (crawler/discovery.py): each reads the *)
(* cursor of the source's checkpoint, asks the connector for the page at   *)
(* it, stores the page's repositories and the next cursor in one commit.   *)
(* Passes overlap when a worker or the command line starts one while the   *)
(* scheduler's runs; nothing in the database keeps their rows apart.       *)
(*                                                                         *)
(* A listing is what the source shows, in its order: one shelf, except for *)
(* winget, which lists publishers by letter, each a folder of packages.    *)
(* The source's own row exists.  Folders keep their packages.              *)
(***************************************************************************)
EXTENDS Integers, FiniteSets, SequencesExt

CONSTANTS
    Passes,      \* overlapping passes
    Packages,    \* repositories the source may show
    Entries,     \* those a listing names; of winget a publisher, by one of its packages
    Folder,      \* the packages of a publisher of winget, in order
    Starred,     \* those with at least min_stars
    Connectors,  \* connectors the source may have
    Shelves,     \* letters of winget
    Published,   \* listings it may show at first
    Limit,       \* batch size
    SearchSize,  \* repositories of a page as GitHub's connector counts pages: 100
    MaxMoves,    \* bound: changes of the listing
    MaxLost      \* bound: passes that fail and publishers that cannot be listed

Numbered == {"github", "gitlab", "gitea"}                 \* the cursor is a page number
Sliced   == {"fdroid", "flathub", "homebrew", "fmhy"}     \* an offset
Walked   == {"winget"}                                    \* a letter and an offset

ASSUME DiscoveryAssumption ==
    /\ Starred \subseteq Packages /\ Entries \subseteq Packages
    /\ Folder \in [Entries -> Seq(Packages)]
    /\ Connectors \subseteq Numbered \cup Sliced \cup Walked
    /\ Published \subseteq [1 .. Shelves -> Seq(Entries)]
    /\ Shelves \in Nat \ {0} /\ Limit \in Nat \ {0} /\ SearchSize \in Nat \ {0}
    /\ MaxMoves \in Nat /\ MaxLost \in Nat

VARIABLES
    connector,     \* the source's connector
    listing,       \* upstream: shelves of entries
    moves,         \* upstream: changes so far
    repositories,  \* committed rows of repositories, by external id: how many
    checkpoints,   \* committed rows of sync_states of the source: their cursors
    pass,          \* where each pass is
    jumped,        \* history: packages that came to stand in front of a cursor
    overlooked,    \* history: packages the cursor went past on no page
    losses         \* passes and publishers lost so far

discoveryVars == <<connector, listing, moves, repositories, checkpoints, pass,
                   jumped, overlooked, losses>>
source == <<connector, listing, moves>>

\* A cursor as the connector reads it; without one it starts at the beginning
Cursors   == [shelf : Nat, at : Nat]
NoCursor  == [shelf |-> 0, at |-> 0]
Start     == [shelf |-> 1, at |-> IF connector \in Numbered THEN 1 ELSE 0]
Parsed(c) == IF c = NoCursor THEN Start ELSE c

Window(items, first, last) == {items[i] : i \in {j \in DOMAIN items : first <= j /\ j <= last}}

--------------------------------------------------------------------------------
(* Pages: the packages, the next cursor; the publishers of winget that could not be listed, *)
(* and the packages in front of the next cursor that are on no page                         *)

PageAt(found, more, next) ==
    [items |-> found, next |-> IF more THEN next ELSE NoCursor, failed |-> {}, missed |-> {}]

\* Mutant: a full page is taken for the last one
NumberedPage_Short(l, c) ==
    LET found == Window(l[1], (c.at - 1) * Limit + 1, c.at * Limit)
    IN  PageAt(found, Cardinality(found) > Limit, [shelf |-> 1, at |-> c.at + 1])
\* A full page has a next one
NumberedPage(l, c) ==
    LET found == Window(l[1], (c.at - 1) * Limit + 1, c.at * Limit)
    IN  PageAt(found, Cardinality(found) = Limit, [shelf |-> 1, at |-> c.at + 1])

\* The GitHub client's search takes no page: the first one is read every time
SearchPage(l, c) ==
    PageAt(Window(l[1], 1, Limit), c.at * SearchSize < Len(l[1]), [shelf |-> 1, at |-> c.at + 1])

SlicePage(l, c) ==
    PageAt(Window(l[1], c.at + 1, c.at + Limit),
           c.at + Limit < Len(l[1]), [shelf |-> 1, at |-> c.at + Limit])

\* The packages of the entries of a listing
Held(entries) ==
    IF connector \in Walked THEN UNION {Range(Folder[e]) : e \in entries} ELSE entries

\* The packages of a letter's publishers first .. last, by their places, but for those in failing
Places(letter, first, last, failing) ==
    UNION {{i} \X DOMAIN Folder[letter[i]] : i \in {j \in first .. last : letter[j] \notin failing}}

\* Publishers are read one after the other until the page is full
WalkEnd(l, c, failing) ==
    LET letter  == l[c.shelf]
        Full(e) == \/ e = Len(letter)
                   \/ Cardinality(Places(letter, c.at + 1, e, failing)) >= Limit
    IN  CHOOSE e \in c.at .. Len(letter) : Full(e) /\ \A f \in c.at .. e - 1 : ~Full(f)

\* Of the last publisher the page takes what there is room for; the cursor goes past it all the same
WalkPage(l, c, failing) ==
    LET letter == l[c.shelf]
        end    == IF c.at < Len(letter) THEN WalkEnd(l, c, failing) ELSE c.at
        walked == Window(letter, c.at + 1, end)
        places == Places(letter, c.at + 1, end, failing)
        Rank(x) == Cardinality({y \in places : y[1] < x[1] \/ (y[1] = x[1] /\ y[2] < x[2])})
        page   == {Folder[letter[x[1]]][x[2]] : x \in {y \in places : Rank(y) < Limit}}
    IN  [items  |-> page,
         failed |-> walked \cap failing,
         missed |-> Held(walked) \ page,
         next   |-> CASE end < Len(letter)   -> [shelf |-> c.shelf, at |-> end]
                      [] end >= Len(letter) /\ c.shelf < Shelves
                                             -> [shelf |-> c.shelf + 1, at |-> 0]
                      [] OTHER               -> NoCursor]

Page(l, c, failing) ==
    CASE connector = "github"                -> SearchPage(l, c)
      [] connector \in Numbered \ {"github"} -> NumberedPage(l, c)
      [] connector \in Sliced                -> SlicePage(l, c)
      [] connector \in Walked                -> WalkPage(l, c, failing)

\* What a cursor says has been read
ReadBefore(l, c) ==
    IF connector \in Numbered
    THEN Window(l[1], 1, (Parsed(c).at - 1) * Limit)
    ELSE Held((UNION {Window(l[s], 1, Len(l[s])) : s \in 1 .. Parsed(c).shelf - 1})
                  \cup Window(l[Parsed(c).shelf], 1, Parsed(c).at))

--------------------------------------------------------------------------------

Asleep == [at |-> "idle", cursor |-> NoCursor, first |-> FALSE, items |-> {},
           next |-> NoCursor, missed |-> {}, new |-> {}]

\* The checkpoint is there when an earlier pass has run
DiscoveryInit ==
    /\ connector \in Connectors
    /\ listing \in Published
    /\ connector \notin Walked => \A s \in 2 .. Shelves : listing[s] = <<>>
    /\ moves = 0
    /\ repositories = [r \in Packages |-> 0]
    /\ checkpoints \in {<<>>, <<NoCursor>>}
    /\ pass = [p \in Passes |-> Asleep]
    /\ jumped = {} /\ overlooked = {} /\ losses = 0

Goto(p, w) == pass' = [pass EXCEPT ![p] = w]

\* scalar_one_or_none raises when two first passes have made a row each
LoadCheckpoint(p) ==
    /\ pass[p].at = "idle"
    /\ Len(checkpoints) <= 1
    /\ Goto(p, [Asleep EXCEPT !.at = "ask",
                              !.first = checkpoints = <<>>,
                              !.cursor = IF checkpoints = <<>> THEN NoCursor ELSE checkpoints[1]])
    /\ UNCHANGED <<source, repositories, checkpoints, jumped, overlooked, losses>>

\* The call of connector.discover, and the filter; a publisher of winget may fail
AskPage(p) ==
    /\ pass[p].at = "ask"
    /\ \E failing \in SUBSET IF connector \in Walked THEN Entries ELSE {} :
          LET page == Page(listing, Parsed(pass[p].cursor), failing)
          IN  /\ failing = page.failed
              /\ losses + Cardinality(failing) <= MaxLost
              /\ losses' = losses + Cardinality(failing)
              /\ Goto(p, [pass[p] EXCEPT !.at = "ingest",
                                         !.items = page.items \cap Starred,
                                         !.next = page.next,
                                         !.missed = page.missed])
    /\ UNCHANGED <<source, repositories, checkpoints, jumped, overlooked>>

\* upsert_repository of each item: rows of other sessions show once they are committed
Ingest(p) ==
    /\ pass[p].at = "ingest"
    /\ \A r \in pass[p].items : repositories[r] <= 1
    /\ Goto(p, [pass[p] EXCEPT !.at = "save",
                               !.new = {r \in pass[p].items : repositories[r] = 0}])
    /\ UNCHANGED <<source, repositories, checkpoints, jumped, overlooked, losses>>

\* A repository with two rows ends every pass that meets it
IngestRaises(p) ==
    /\ pass[p].at = "ingest"
    /\ \E r \in pass[p].items : repositories[r] > 1
    /\ Goto(p, Asleep)
    /\ UNCHANGED <<source, repositories, checkpoints, jumped, overlooked, losses>>

\* No next cursor leaves the old one
Saved(p) ==
    LET w == pass[p]
    IN  IF w.first THEN Append(checkpoints, w.next)
        ELSE IF w.next = NoCursor THEN checkpoints
        ELSE [checkpoints EXCEPT ![1] = w.next]

SavePage(p) ==
    /\ pass[p].at = "save"
    /\ repositories' = [r \in Packages |->
                           repositories[r] + IF r \in pass[p].new THEN 1 ELSE 0]
    /\ checkpoints' = Saved(p)
    /\ overlooked' = overlooked \cup pass[p].missed
    /\ Goto(p, Asleep)
    /\ UNCHANGED <<source, jumped, losses>>

\* Mutant: the checkpoint is kept although the page was not
LosePass_KeepsCursor(p) ==
    /\ pass[p].at # "idle" /\ losses < MaxLost
    /\ losses' = losses + 1
    /\ checkpoints' = IF pass[p].at = "save" THEN Saved(p) ELSE checkpoints
    /\ Goto(p, Asleep)
    /\ UNCHANGED <<source, repositories, jumped, overlooked>>
\* The listing cannot be read, the database refuses, or the process dies
LosePass(p) ==
    /\ pass[p].at # "idle" /\ losses < MaxLost
    /\ losses' = losses + 1
    /\ Goto(p, Asleep)
    /\ UNCHANGED <<source, repositories, checkpoints, jumped, overlooked>>

--------------------------------------------------------------------------------
(* Upstream *)

\* Cursors that are committed, were read by a pass, or will be committed by one
Frontiers == Range(checkpoints) \cup {pass[p].cursor : p \in Passes}
                                \cup {pass[p].next : p \in Passes}

Rearranged(l) ==
    /\ moves < MaxMoves
    /\ moves' = moves + 1
    /\ listing' = l
    /\ jumped' = jumped \cup UNION {ReadBefore(l, c) \ ReadBefore(listing, c) : c \in Frontiers}
    /\ UNCHANGED <<connector, repositories, checkpoints, pass, overlooked, losses>>

\* An entry is listed once
Without(r) ==
    [s \in 1 .. Shelves |->
        IF r \in Range(listing[s])
        THEN RemoveAt(listing[s], CHOOSE i \in DOMAIN listing[s] : listing[s][i] = r)
        ELSE listing[s]]

\* An entry is published, updated (which moves it in lists sorted by activity) or withdrawn
Relist(r) ==
    \/ Rearranged(Without(r))
    \/ \E s \in 1 .. IF connector \in Walked THEN Shelves ELSE 1 :
          \E i \in 1 .. Len(Without(r)[s]) + 1 :
             Rearranged([Without(r) EXCEPT ![s] = InsertAt(@, i, r)])

Discover(p) == LoadCheckpoint(p) \/ AskPage(p) \/ Ingest(p) \/ IngestRaises(p) \/ SavePage(p)

DiscoveryNext == \/ \E p \in Passes : Discover(p) \/ LosePass(p)
                 \/ \E r \in Entries : Relist(r)

DiscoverySpec == DiscoveryInit /\ [][DiscoveryNext]_discoveryVars

DiscoveryFairness == \A p \in Passes : WF_discoveryVars(Discover(p))

--------------------------------------------------------------------------------

DiscoveryTypeOK ==
    /\ connector \in Connectors
    /\ DOMAIN listing = 1 .. Shelves /\ \A s \in 1 .. Shelves : listing[s] \in Seq(Entries)
    /\ moves \in 0 .. MaxMoves
    /\ repositories \in [Packages -> Nat]
    /\ checkpoints \in Seq(Cursors)
    /\ pass \in [Passes -> [at : {"idle", "ask", "ingest", "save"}, cursor : Cursors,
                            first : BOOLEAN, items : SUBSET Packages, next : Cursors,
                            missed : SUBSET Packages, new : SUBSET Packages]]
    /\ jumped \subseteq Packages /\ overlooked \subseteq Packages
    /\ losses \in 0 .. MaxLost

Stored == {r \in Packages : repositories[r] > 0}

\* Whatever the checkpoint says has been read is stored, passes with failures and passes
\* beside each other included; but for what came to stand in front of it later, for winget's
\* publishers that could not be listed, and for those of their packages a full page had no room
\* for (WalkLeavesNothing is about these)
CursorHonest ==
    \A c \in Range(checkpoints) :
        ReadBefore(listing, c) \cap Starred \subseteq Stored \cup jumped \cup overlooked

\* Of winget, no package is left behind the cursor for want of room on a page: passes resume where
\* the last one ended (connectors/winget/connector.py, crawler/checkpoint.py)
WalkLeavesNothing ==
    \A c \in Range(checkpoints) : ReadBefore(listing, c) \cap Starred \subseteq Stored

\* Two first passes leave two checkpoints, two passes over one page two rows: the passes
\* that meet them raise
Jammed == Len(checkpoints) > 1 \/ \E r \in Packages : repositories[r] > 1

\* Passes reach the end of the list: whatever stays listed is stored in the end, if
\* passes did not jam each other, but for what CursorHonest exempts
EveryListedSeen ==
    <>[](Jammed \/ Held(UNION {Range(listing[s]) : s \in 1 .. Shelves}) \cap Starred
                       \subseteq Stored \cup jumped \cup overlooked)

================================================================================
