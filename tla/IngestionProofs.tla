--------------------------- MODULE IngestionProofs ---------------------------
(***************************************************************************)
(* Theorems about Discovery, and about JobQueue beside it, for any number  *)
(* of passes, requests and workers and any listings; about AsyncScheduler, *)
(* for any number of tasks, intervals and durations; and about             *)
(* SourceHealth, for any number of sources and of rounds at the same time. *)
(***************************************************************************)
EXTENDS JobQueue, AsyncScheduler, SourceHealth, FiniteSetTheorems, SequenceTheorems,
        WellFoundedInduction, TLAPS

--------------------------------------------------------------------------------
(* Discovery: the cursors are honest *)

PassStates == [at : {"idle", "ask", "ingest", "save"}, cursor : Cursors, first : BOOLEAN,
               items : SUBSET Packages, next : Cursors, missed : SUBSET Packages,
               new : SUBSET Packages]

\* A cursor that the source's connector can have written.
Shelf1      == 1 .. IF connector \in Walked THEN Shelves ELSE 1
Readable(c) == c \in Cursors /\ (c = NoCursor \/ c.shelf \in Shelf1)

\* All that the cursor says has been read is stored or accounted for, but for some.
Behind(c, but) == ReadBefore(listing, c) \cap Starred \subseteq Stored \cup jumped \cup overlooked \cup but

CursorTypes ==
    /\ connector \in Connectors /\ listing \in [1 .. Shelves -> Seq(Entries)]
    /\ repositories \in [Packages -> Nat] /\ checkpoints \in Seq(Cursors)
    /\ pass \in [Passes -> PassStates]
    /\ \A c \in Frontiers : Readable(c)

PassHonest(p) ==
    /\ Behind(pass[p].cursor, {})
    /\ pass[p].at \in {"ingest", "save"} =>
          Behind(pass[p].next, pass[p].items \cup pass[p].missed)
    /\ pass[p].at = "save" => pass[p].items \subseteq Stored \cup pass[p].new

CursorInv ==
    /\ CursorTypes
    /\ \A c \in Range(checkpoints) : Behind(c, {})
    /\ \A p \in Passes : PassHonest(p)

--------------------------------------------------------------------------------
(* Pages *)

LEMMA WindowFacts ==
    ASSUME NEW s \in Seq(Entries), NEW a, NEW b
    PROVE  /\ Window(s, a, b) \subseteq Entries /\ Window(s, a, b) \subseteq Packages
           /\ \A c \in Nat : Window(s, 1, b) \subseteq Window(s, 1, c) \cup Window(s, c + 1, b)
           /\ Window(s, 1, 0) = {}
<1>1. DOMAIN s = 1 .. Len(s) /\ Len(s) \in Nat /\ \A i \in DOMAIN s : s[i] \in Entries
  BY ElementOfSeq
<1>2. Window(s, a, b) \subseteq Entries /\ Window(s, a, b) \subseteq Packages
  BY <1>1, DiscoveryAssumption DEF Window
<1>3. ASSUME NEW c \in Nat
      PROVE  Window(s, 1, b) \subseteq Window(s, 1, c) \cup Window(s, c + 1, b)
  <2>1. \A i \in DOMAIN s : 1 <= i /\ (i <= c \/ c + 1 <= i)
    BY <1>1
  <2> QED BY <2>1 DEF Window
<1>4. Window(s, 1, 0) = {}
  <2>1. \A i \in DOMAIN s : ~(i <= 0)
    BY <1>1
  <2> QED BY <2>1 DEF Window
<1> QED BY <1>2, <1>3, <1>4

\* A new cursor is read as it was written.
LEMMA WrittenCursor ==
    ASSUME NEW s \in Shelf1, NEW a \in Nat
    PROVE  LET c == [shelf |-> s, at |-> a]
           IN  /\ c \in Cursors /\ Readable(c) /\ Parsed(c) = c /\ c.shelf = s /\ c.at = a
<1>1. s \in Nat /\ s # 0
  BY DiscoveryAssumption DEF Shelf1
<1>2. [shelf |-> s, at |-> a] # NoCursor
  BY <1>1 DEF NoCursor
<1> QED BY <1>1, <1>2 DEF Cursors, Readable, Parsed

\* Every cursor is read as a place of the listing.
LEMMA ParsedFacts ==
    ASSUME NEW c, Readable(c)
    PROVE  /\ Parsed(c) \in Cursors /\ Parsed(c).shelf \in Shelf1 /\ Parsed(c).at \in Nat
           /\ Parsed(c).shelf \in 1 .. Shelves
           /\ (connector \in Sliced \cup Numbered) => Parsed(c).shelf = 1
<1>1. 1 \in Shelf1 /\ Shelf1 \subseteq 1 .. Shelves
  BY DiscoveryAssumption DEF Shelf1
<1>2. ASSUME c = NoCursor
      PROVE  Parsed(c) \in Cursors /\ Parsed(c).shelf \in Shelf1 /\ Parsed(c).at \in Nat
  <2>1. Start.shelf = 1 /\ Start.at \in Nat /\ Start \in Cursors
    BY DEF Start, Cursors
  <2> QED BY <1>1, <1>2, <2>1, Zenon DEF Parsed
<1>3. ASSUME c # NoCursor
      PROVE  Parsed(c) \in Cursors /\ Parsed(c).shelf \in Shelf1 /\ Parsed(c).at \in Nat
  <2>1. Parsed(c) = c /\ c \in Cursors /\ c.shelf \in Shelf1
    BY <1>3, Zenon DEF Parsed, Readable
  <2> QED BY <2>1 DEF Cursors
<1>4. Parsed(c) \in Cursors /\ Parsed(c).shelf \in Shelf1 /\ Parsed(c).at \in Nat
  BY <1>2, <1>3
<1>5. connector \in Sliced \cup Numbered => connector \notin Walked
  BY DEF Sliced, Numbered, Walked
<1>6. connector \in Sliced \cup Numbered => Parsed(c).shelf = 1
  BY <1>4, <1>5 DEF Shelf1
<1> QED BY <1>1, <1>4, <1>6

\* Of connectors without page numbers: whole shelves, and the start of one
Wholes(n) == UNION {Window(listing[s], 1, Len(listing[s])) : s \in 1 .. n}

LEMMA ReadShelves ==
    ASSUME connector \notin Numbered, NEW c
    PROVE  ReadBefore(listing, c) =
              Held(Wholes(Parsed(c).shelf - 1) \cup Window(listing[Parsed(c).shelf], 1, Parsed(c).at))
BY Zenon DEF ReadBefore, Wholes

\* The packages of more entries are more packages; none of them is new to the source.
LEMMA HeldFacts ==
    /\ \A s, t : s \subseteq t => Held(s) \subseteq Held(t)
    /\ \A s, t : Held(s \cup t) = Held(s) \cup Held(t)
    /\ Held({}) = {}
    /\ \A s : s \subseteq Entries => Held(s) \subseteq Packages
    /\ connector \notin Walked => \A s : Held(s) = s
<1>1. \A e \in Entries : Range(Folder[e]) \subseteq Packages
  <2> SUFFICES ASSUME NEW e \in Entries PROVE Range(Folder[e]) \subseteq Packages
    OBVIOUS
  <2>1. Folder[e] \in Seq(Packages)
    BY DiscoveryAssumption
  <2> QED BY <2>1, ElementOfSeq DEF Range
<1> QED BY <1>1, DiscoveryAssumption DEF Held

LEMMA StartFacts ==
    ASSUME listing \in [1 .. Shelves -> Seq(Entries)]
    PROVE  NoCursor \in Cursors /\ Readable(NoCursor) /\ ReadBefore(listing, NoCursor) = {}
<1>1. listing[1] \in Seq(Entries) /\ Limit \in Nat
  BY DiscoveryAssumption
<1>2. Parsed(NoCursor) = Start
  BY DEF Parsed
<1>3. CASE connector \in Numbered
  <2>1. (Start.at - 1) * Limit = 0
    BY <1>1, <1>3 DEF Start
  <2> QED BY <1>1, <1>2, <1>3, <2>1, WindowFacts DEF ReadBefore, NoCursor, Cursors, Readable
<1>4. CASE connector \notin Numbered
  <2>1. Start.shelf = 1 /\ Start.at = 0 /\ 1 .. Start.shelf - 1 = {}
    BY <1>4 DEF Start
  <2>2. ReadBefore(listing, NoCursor) = Held(Wholes(0) \cup Window(listing[1], 1, 0))
    BY <1>2, <1>4, <2>1, ReadShelves
  <2>3. Wholes(0) = {}
    BY DEF Wholes
  <2> QED BY <1>1, <2>2, <2>3, WindowFacts, HeldFacts DEF NoCursor, Cursors, Readable
<1> QED BY <1>3, <1>4

LEMMA NumberedNext ==
    ASSUME listing \in [1 .. Shelves -> Seq(Entries)], connector \in Numbered,
           NEW c, Readable(c), NEW page, page = NumberedPage(listing, Parsed(c))
    PROVE  /\ page.items \subseteq Packages /\ page.missed = {}
           /\ page.next \in Cursors /\ Readable(page.next)
           /\ ReadBefore(listing, page.next) \subseteq ReadBefore(listing, c) \cup page.items
<1> DEFINE d     == Parsed(c)
           found == Window(listing[1], (d.at - 1) * Limit + 1, d.at * Limit)
           next  == [shelf |-> 1, at |-> d.at + 1]
<1>1. listing[1] \in Seq(Entries) /\ Limit \in Nat /\ Limit > 0 /\ 1 \in Shelf1
  BY DiscoveryAssumption DEF Shelf1
<1>2. d.at \in Nat
  BY ParsedFacts
<1>3. /\ page.items = found /\ page.missed = {} /\ page.next \in {next, NoCursor}
  BY DEF NumberedPage, PageAt
<1>4. d.at + 1 \in Nat /\ (d.at + 1) - 1 = d.at
  BY <1>2
<1>5. next \in Cursors /\ Readable(next) /\ Parsed(next).at = d.at + 1
  BY <1>1, <1>4, WrittenCursor
<1>6. ReadBefore(listing, next) = Window(listing[1], 1, d.at * Limit)
  BY <1>4, <1>5 DEF ReadBefore
<1>7. ReadBefore(listing, c) = Window(listing[1], 1, (d.at - 1) * Limit)
  BY DEF ReadBefore
<1>8. ReadBefore(listing, next) \subseteq ReadBefore(listing, c) \cup found
  <2>1. CASE d.at = 0
    <3>1. d.at * Limit = 0
      BY <1>1, <2>1
    <3> QED BY <1>1, <1>6, <3>1, WindowFacts
  <2>2. CASE d.at # 0
    <3>1. d.at - 1 \in Nat
      BY <1>2, <2>2
    <3>2. (d.at - 1) * Limit \in Nat
      BY <1>1, <3>1
    <3> QED BY <1>1, <1>6, <1>7, <3>2, WindowFacts
  <2> QED BY <2>1, <2>2
<1>9. found \subseteq Packages
  BY <1>1, WindowFacts DEF found
<1> HIDE DEF next, found
<1> QED BY <1>3, <1>5, <1>8, <1>9, StartFacts

LEMMA SlicedNext ==
    ASSUME listing \in [1 .. Shelves -> Seq(Entries)], connector \in Sliced,
           NEW c, Readable(c), NEW page, page = SlicePage(listing, Parsed(c))
    PROVE  /\ page.items \subseteq Packages /\ page.missed = {}
           /\ page.next \in Cursors /\ Readable(page.next)
           /\ ReadBefore(listing, page.next) \subseteq ReadBefore(listing, c) \cup page.items
<1> DEFINE d     == Parsed(c)
           found == Window(listing[1], d.at + 1, d.at + Limit)
           next  == [shelf |-> 1, at |-> d.at + Limit]
<1>1. listing[1] \in Seq(Entries) /\ Limit \in Nat /\ 1 \in Shelf1 /\ connector \notin Numbered
      /\ connector \notin Walked
  BY DiscoveryAssumption DEF Shelf1, Sliced, Numbered, Walked
<1>2. d.at \in Nat /\ d.shelf = 1 /\ d.at + Limit \in Nat
  BY <1>1, ParsedFacts
<1>3. page.items = found /\ page.missed = {} /\ page.next \in {next, NoCursor}
  BY DEF SlicePage, PageAt
<1>5. /\ next \in Cursors /\ Readable(next)
      /\ Parsed(next).at = d.at + Limit /\ Parsed(next).shelf = 1
  BY <1>1, <1>2, WrittenCursor
<1>6. /\ ReadBefore(listing, next) = Wholes(1 - 1) \cup Window(listing[1], 1, d.at + Limit)
      /\ ReadBefore(listing, c) = Wholes(1 - 1) \cup Window(listing[1], 1, d.at)
  <2>1. \A x : Held(x) = x
    BY <1>1, HeldFacts
  <2>2. /\ ReadBefore(listing, next) = Held(Wholes(1 - 1) \cup Window(listing[1], 1, d.at + Limit))
        /\ ReadBefore(listing, c) = Held(Wholes(1 - 1) \cup Window(listing[1], 1, d.at))
    BY <1>1, <1>2, <1>5, ReadShelves
  <2> QED BY <2>1, <2>2
<1> HIDE DEF found
<1>7. Window(listing[1], 1, d.at + Limit) \subseteq Window(listing[1], 1, d.at) \cup found
  BY <1>1, <1>2, WindowFacts DEF found
<1>8. ReadBefore(listing, next) \subseteq ReadBefore(listing, c) \cup found
  BY <1>6, <1>7
<1>9. found \subseteq Packages
  BY <1>1, WindowFacts DEF found
<1> HIDE DEF next, found
<1> QED BY <1>3, <1>5, <1>8, <1>9, StartFacts


\* A page of winget has an end: where it is first full, or where the letter ends.
LEMMA WalkEndFacts ==
    ASSUME listing \in [1 .. Shelves -> Seq(Entries)], NEW d \in Cursors, d.shelf \in 1 .. Shelves,
           d.at < Len(listing[d.shelf]), NEW failing
    PROVE  WalkEnd(listing, d, failing) \in d.at .. Len(listing[d.shelf])
<1> DEFINE letter  == listing[d.shelf]
           Full(e) == \/ e = Len(letter)
                      \/ Cardinality(Places(letter, d.at + 1, e, failing)) >= Limit
           Ends    == {e \in d.at .. Len(letter) : Full(e)}
<1>1. d.at \in Nat /\ Len(letter) \in Nat
  BY DEF Cursors
<1>2. Ends \subseteq Nat /\ Len(letter) \in Ends
  BY <1>1
<1>3. Ends # {}
  BY <1>2
<1> HIDE DEF Ends
<1>4. PICK m \in Ends : \A y \in Ends : ~ (<<y, m>> \in OpToRel(<, Nat))
  BY <1>2, <1>3, NatLessThanWellFounded, WFMin
<1>5. m \in d.at .. Len(letter) /\ m \in Nat /\ Full(m)
  BY <1>2 DEF Ends
<1>6. ASSUME NEW f \in d.at .. m - 1, Full(f) PROVE FALSE
  <2>1. f \in d.at .. Len(letter) /\ f \in Nat /\ f < m
    BY <1>1, <1>5
  <2>2. f \in Ends
    BY <1>6, <2>1 DEF Ends
  <2> QED BY <1>4, <1>5, <2>1, <2>2 DEF OpToRel
<1> HIDE DEF Full
<1>7. \E e \in d.at .. Len(letter) : Full(e) /\ \A f \in d.at .. e - 1 : ~Full(f)
  BY <1>5, <1>6
<1>8. WalkEnd(listing, d, failing) =
         CHOOSE e \in d.at .. Len(letter) : Full(e) /\ \A f \in d.at .. e - 1 : ~Full(f)
  BY Zenon DEF WalkEnd, Full
<1> QED BY <1>7, <1>8, Zenon

LEMMA WalkedNext ==
    ASSUME listing \in [1 .. Shelves -> Seq(Entries)], connector \in Walked,
           NEW c, Readable(c), NEW failing,
           NEW page, page = WalkPage(listing, Parsed(c), failing)
    PROVE  /\ page.items \subseteq Packages /\ page.missed \subseteq Packages
           /\ page.next \in Cursors /\ Readable(page.next)
           /\ ReadBefore(listing, page.next)
                 \subseteq ReadBefore(listing, c) \cup page.items \cup page.missed
<1> DEFINE d      == Parsed(c)
           letter == listing[d.shelf]
           end    == IF d.at < Len(letter) THEN WalkEnd(listing, d, failing) ELSE d.at
           walked == Window(letter, d.at + 1, end)
           here   == [shelf |-> d.shelf, at |-> end]
           there  == [shelf |-> d.shelf + 1, at |-> 0]
           places == Places(letter, d.at + 1, end, failing)
           Rank(x) == Cardinality({y \in places : y[1] < x[1] \/ (y[1] = x[1] /\ y[2] < x[2])})
           fitted  == {Folder[letter[x[1]]][x[2]] : x \in {y \in places : Rank(y) < Limit}}
<1>1. /\ d \in Cursors /\ d.shelf \in Shelf1 /\ d.shelf \in 1 .. Shelves /\ d.shelf \in Nat
      /\ d.at \in Nat /\ letter \in Seq(Entries) /\ Len(letter) \in Nat /\ Shelf1 = 1 .. Shelves
      /\ connector \notin Numbered /\ Shelves \in Nat
  BY ParsedFacts, DiscoveryAssumption DEF Shelf1, Walked, Numbered
<1>2. /\ page.items = fitted /\ page.missed = Held(walked) \ fitted
      /\ page.next = CASE end < Len(letter) -> here
                       [] end >= Len(letter) /\ d.shelf < Shelves -> there
                       [] OTHER -> NoCursor
  BY Zenon DEF WalkPage
<1> HIDE DEF d, fitted
<1>3. end \in Nat /\ end >= d.at
  <2>1. CASE d.at < Len(letter)
    <3>1. WalkEnd(listing, d, failing) \in d.at .. Len(letter)
      BY <1>1, <2>1, WalkEndFacts
    <3>2. end = WalkEnd(listing, d, failing)
      BY <2>1
    <3> QED BY <1>1, <3>1, <3>2
  <2>2. CASE ~(d.at < Len(letter))
    BY <1>1, <2>2
  <2> QED BY <2>1, <2>2
<1>11. end <= Len(letter) \/ end = d.at
  <2>1. CASE d.at < Len(letter)
    <3>1. WalkEnd(listing, d, failing) \in d.at .. Len(letter)
      BY <1>1, <2>1, WalkEndFacts
    <3> QED BY <1>1, <2>1, <3>1
  <2>2. CASE ~(d.at < Len(letter))
    BY <2>2
  <2> QED BY <2>1, <2>2
<1> HIDE DEF end
<1>4. ReadBefore(listing, c) = Held(Wholes(d.shelf - 1) \cup Window(letter, 1, d.at))
  BY <1>1, ReadShelves DEF d
<1>5. Window(letter, 1, end) \subseteq Window(letter, 1, d.at) \cup walked /\ walked \subseteq Entries
  BY <1>1, WindowFacts
<1>6. ASSUME end < Len(letter)
      PROVE  /\ page.next \in Cursors /\ Readable(page.next)
             /\ ReadBefore(listing, page.next) \subseteq ReadBefore(listing, c) \cup Held(walked)
  <2>1. page.next = here
    BY <1>1, <1>2, <1>3, <1>6
  <2>2. here \in Cursors /\ Readable(here) /\ Parsed(here).shelf = d.shelf /\ Parsed(here).at = end
    BY <1>1, <1>3, WrittenCursor
  <2>3. ReadBefore(listing, here) =
           Held(Wholes(d.shelf - 1) \cup Window(letter, 1, end))
    BY <1>1, <2>2, ReadShelves
  <2> HIDE DEF here, walked, letter
  <2>4. Wholes(d.shelf - 1) \cup Window(letter, 1, end)
           \subseteq (Wholes(d.shelf - 1) \cup Window(letter, 1, d.at)) \cup walked
    BY <1>5
  <2>5. Held(Wholes(d.shelf - 1) \cup Window(letter, 1, end))
           \subseteq Held((Wholes(d.shelf - 1) \cup Window(letter, 1, d.at)) \cup walked)
    BY <2>4, HeldFacts
  <2>6. Held((Wholes(d.shelf - 1) \cup Window(letter, 1, d.at)) \cup walked)
           = ReadBefore(listing, c) \cup Held(walked)
    BY <1>4, HeldFacts
  <2> QED BY <2>1, <2>2, <2>3, <2>5, <2>6
<1>7. ASSUME end >= Len(letter), d.shelf < Shelves
      PROVE  /\ page.next \in Cursors /\ Readable(page.next)
             /\ ReadBefore(listing, page.next) \subseteq ReadBefore(listing, c) \cup Held(walked)
  <2>1. page.next = there
    BY <1>1, <1>2, <1>3, <1>7
  <2>2. d.shelf + 1 \in Shelf1 /\ (d.shelf + 1) - 1 = d.shelf
    BY <1>1, <1>7
  <2>3. there \in Cursors /\ Readable(there) /\ Parsed(there).shelf = d.shelf + 1 /\ Parsed(there).at = 0
    BY <2>2, WrittenCursor
  <2>4. ReadBefore(listing, there) =
           Held(Wholes(d.shelf) \cup Window(listing[d.shelf + 1], 1, 0))
    BY <1>1, <2>2, <2>3, ReadShelves
  <2>5. Window(listing[d.shelf + 1], 1, 0) = {}
    BY <1>1, <2>2, WindowFacts
  <2>6. Window(letter, 1, Len(letter)) \subseteq Window(letter, 1, end)
    <3>1. \A i \in DOMAIN letter : i \in Nat /\ i <= end
      BY <1>1, <1>3, <1>7
    <3> QED BY <3>1 DEF Window
  <2>7. Wholes(d.shelf) \subseteq Wholes(d.shelf - 1) \cup Window(letter, 1, Len(letter))
    <3>1. \A s \in 1 .. d.shelf : s \in 1 .. d.shelf - 1 \/ s = d.shelf
      BY <1>1
    <3> QED BY <3>1 DEF Wholes
  <2> HIDE DEF there, walked, letter
  <2>8. Wholes(d.shelf) \cup Window(listing[d.shelf + 1], 1, 0)
           \subseteq (Wholes(d.shelf - 1) \cup Window(letter, 1, d.at)) \cup walked
    BY <1>5, <2>5, <2>6, <2>7
  <2>9. Held(Wholes(d.shelf) \cup Window(listing[d.shelf + 1], 1, 0))
           \subseteq Held((Wholes(d.shelf - 1) \cup Window(letter, 1, d.at)) \cup walked)
    BY <2>8, HeldFacts
  <2>10. Held((Wholes(d.shelf - 1) \cup Window(letter, 1, d.at)) \cup walked)
           = ReadBefore(listing, c) \cup Held(walked)
    BY <1>4, HeldFacts
  <2> QED BY <2>1, <2>3, <2>4, <2>9, <2>10
<1>8. ASSUME end >= Len(letter), ~(d.shelf < Shelves)
      PROVE  /\ page.next \in Cursors /\ Readable(page.next)
             /\ ReadBefore(listing, page.next) \subseteq ReadBefore(listing, c) \cup Held(walked)
  <2>1. page.next = NoCursor
    BY <1>1, <1>2, <1>3, <1>8
  <2> QED BY <2>1, StartFacts
<1>9. fitted \subseteq Packages
  <2> SUFFICES ASSUME NEW i, NEW k, <<i, k>> \in places PROVE Folder[letter[i]][k] \in Packages
    <3>1. SUFFICES ASSUME NEW x \in places PROVE Folder[letter[x[1]]][x[2]] \in Packages
      BY Zenon DEF fitted
    <3>2. PICK j : x \in {j} \X DOMAIN Folder[letter[j]]
      BY DEF Places
    <3>3. PICK k : x = <<j, k>>
      BY <3>2
    <3> QED BY <3>1, <3>3
  <2>1. i \in d.at + 1 .. end /\ k \in DOMAIN Folder[letter[i]]
    BY DEF Places
  <2>2. i \in DOMAIN letter
    BY <1>1, <1>3, <1>11, <2>1
  <2>3. letter[i] \in Entries
    BY <1>1, <2>2, ElementOfSeq
  <2>4. Folder[letter[i]] \in Seq(Packages)
    BY <2>3, DiscoveryAssumption
  <2> QED BY <2>1, <2>4, ElementOfSeq
<1> HIDE DEF walked
<1>10. /\ page.next \in Cursors /\ Readable(page.next)
       /\ ReadBefore(listing, page.next) \subseteq ReadBefore(listing, c) \cup Held(walked)
  BY <1>1, <1>3, <1>6, <1>7, <1>8
<1>12. Held(walked) \subseteq Packages /\ Held(walked) \subseteq page.items \cup page.missed
  BY <1>2, <1>5, HeldFacts
<1> QED BY <1>2, <1>9, <1>10, <1>12

\* The next cursor says nothing more than the last one and the page. github's search, which
\* answers every page with the first, is not among these connectors.
LEMMA PageFacts ==
    ASSUME "github" \notin Connectors, CursorTypes, NEW c, Readable(c), NEW failing,
           NEW page, page = Page(listing, Parsed(c), failing)
    PROVE  /\ page.items \subseteq Packages /\ page.missed \subseteq Packages
           /\ page.next \in Cursors /\ Readable(page.next)
           /\ ReadBefore(listing, page.next)
                 \subseteq ReadBefore(listing, c) \cup page.items \cup page.missed
<1>1. /\ listing \in [1 .. Shelves -> Seq(Entries)] /\ connector # "github"
      /\ connector \in Numbered \cup Sliced \cup Walked
  BY DiscoveryAssumption DEF CursorTypes
<1>2. CASE connector \in Numbered
  <2>1. page = NumberedPage(listing, Parsed(c))
    <3>1. connector # "github" /\ connector \in Numbered \ {"github"}
      BY <1>1, <1>2
    <3>2. connector \notin Sliced /\ connector \notin Walked
      BY <1>2 DEF Numbered, Sliced, Walked
    <3> QED BY <3>1, <3>2, Zenon DEF Page
  <2>2. /\ page.items \subseteq Packages /\ page.missed = {}
        /\ page.next \in Cursors /\ Readable(page.next)
        /\ ReadBefore(listing, page.next) \subseteq ReadBefore(listing, c) \cup page.items
    BY <1>1, <1>2, <2>1, NumberedNext
  <2> QED BY <2>2
<1>3. CASE connector \in Sliced
  <2>1. page = SlicePage(listing, Parsed(c))
    <3>1. connector # "github" /\ connector \notin Numbered /\ connector \notin Walked
      BY <1>3 DEF Numbered, Sliced, Walked
    <3> QED BY <1>3, <3>1, Zenon DEF Page
  <2>2. /\ page.items \subseteq Packages /\ page.missed = {}
        /\ page.next \in Cursors /\ Readable(page.next)
        /\ ReadBefore(listing, page.next) \subseteq ReadBefore(listing, c) \cup page.items
    BY <1>1, <1>3, <2>1, SlicedNext
  <2> QED BY <2>2
<1>4. CASE connector \in Walked
  <2>1. page = WalkPage(listing, Parsed(c), failing)
    BY <1>4 DEF Page, Numbered, Sliced, Walked
  <2> QED BY <1>1, <1>4, <2>1, WalkedNext
<1> QED BY <1>1, <1>2, <1>3, <1>4

--------------------------------------------------------------------------------
(* Cursors *)

LEMMA GotoFacts ==
    ASSUME CursorTypes, NEW p \in Passes, NEW w \in PassStates, Goto(p, w)
    PROVE  /\ pass' \in [Passes -> PassStates] /\ pass'[p] = w
           /\ \A o \in Passes : o # p => pass'[o] = pass[o]
BY DEF CursorTypes, Goto

LEMMA FrontiersOf ==
    ASSUME CursorTypes
    PROVE  /\ \A c \in Range(checkpoints) : Readable(c)
           /\ \A p \in Passes : Readable(pass[p].cursor) /\ Readable(pass[p].next)
BY DEF CursorTypes, Frontiers

\* While the listing stays, what was accounted for stays so.
LEMMA BehindStays ==
    ASSUME UNCHANGED <<connector, listing>>, Stored \subseteq Stored', jumped \subseteq jumped',
           overlooked \subseteq overlooked', NEW c, NEW but, Behind(c, but)
    PROVE  Behind(c, but)'
<1>1. UNCHANGED ReadBefore(listing, c)
  BY DEF ReadBefore, Parsed, Start, Held
<1> QED BY <1>1 DEF Behind

\* One pass goes on, and may commit.
LEMMA PassGoesOn ==
    ASSUME CursorInv, NEW p \in Passes, NEW w \in PassStates, Goto(p, w),
           UNCHANGED <<connector, listing>>, Stored \subseteq Stored', jumped \subseteq jumped',
           overlooked \subseteq overlooked', repositories' \in [Packages -> Nat],
           checkpoints' \in Seq(Cursors),
           \A c \in Range(checkpoints') : Readable(c) /\ Behind(c, {})',
           Readable(w.cursor), Readable(w.next), Behind(w.cursor, {})',
           w.at \in {"ingest", "save"} => Behind(w.next, w.items \cup w.missed)',
           w.at = "save" => w.items \subseteq Stored' \cup w.new
    PROVE  CursorInv'
<1>1. /\ pass' \in [Passes -> PassStates] /\ pass'[p] = w
      /\ \A o \in Passes : o # p => pass'[o] = pass[o]
  BY GotoFacts DEF CursorInv
<1>2. \A c : Readable(c)' <=> Readable(c)
  BY DEF Readable, Shelf1
<1>3. \A o \in Passes : Readable(pass'[o].cursor) /\ Readable(pass'[o].next)
  BY <1>1, FrontiersOf DEF CursorInv
<1>4. \A c \in Frontiers' : Readable(c)'
  BY <1>2, <1>3 DEF Frontiers
<1>5. CursorTypes'
  BY <1>1, <1>4 DEF CursorInv, CursorTypes
<1>6. ASSUME NEW o \in Passes PROVE PassHonest(o)'
  <2>1. CASE o = p
    BY <1>1, <2>1 DEF PassHonest
  <2>2. CASE o # p
    <3>1. PassHonest(o) /\ pass'[o] = pass[o]
      BY <1>1, <2>2 DEF CursorInv
    <3>2. Behind(pass[o].cursor, {})'
      <4>1. Behind(pass[o].cursor, {})
        BY <3>1 DEF PassHonest
      <4>2. \A c : Behind(c, {}) => Behind(c, {})'
        BY BehindStays
      <4> QED BY <3>1, <4>1, <4>2
    <3>3. ASSUME pass[o].at \in {"ingest", "save"}
          PROVE  Behind(pass[o].next, pass[o].items \cup pass[o].missed)'
      <4>1. Behind(pass[o].next, pass[o].items \cup pass[o].missed)
        BY <3>1, <3>3 DEF PassHonest
      <4>2. \A c, but : Behind(c, but) => Behind(c, but)'
        BY BehindStays
      <4> QED BY <3>1, <4>1, <4>2
    <3> QED BY <3>1, <3>2, <3>3 DEF PassHonest
  <2> QED BY <2>1, <2>2
<1> QED BY <1>5, <1>6 DEF CursorInv


\* The pass as it is, or with other places and fields, is still a pass.
LEMMA PassType ==
    ASSUME CursorTypes, NEW p \in Passes
    PROVE  /\ pass[p] \in PassStates
           /\ pass[p].cursor \in Cursors /\ pass[p].next \in Cursors /\ pass[p].first \in BOOLEAN
           /\ pass[p].items \subseteq Packages /\ pass[p].missed \subseteq Packages
           /\ pass[p].new \subseteq Packages
BY DEF CursorTypes, PassStates

LEMMA AsleepFacts ==
    ASSUME CursorTypes
    PROVE  /\ Asleep \in PassStates /\ Asleep.at = "idle" /\ Asleep.cursor = NoCursor
           /\ Asleep.next = NoCursor /\ Readable(NoCursor) /\ Behind(NoCursor, {})
<1>1. NoCursor \in Cursors /\ Readable(NoCursor) /\ ReadBefore(listing, NoCursor) = {}
  BY StartFacts DEF CursorTypes
<1>2. Asleep \in PassStates /\ Asleep.at = "idle" /\ Asleep.cursor = NoCursor /\ Asleep.next = NoCursor
  BY <1>1 DEF Asleep, PassStates
<1> QED BY <1>1, <1>2 DEF Behind

\* Whatever a pass that goes to sleep leaves behind
LEMMA SleepKeeps ==
    ASSUME CursorInv, NEW p \in Passes, Goto(p, Asleep),
           UNCHANGED <<connector, listing>>, Stored \subseteq Stored', jumped \subseteq jumped',
           overlooked \subseteq overlooked', repositories' \in [Packages -> Nat],
           checkpoints' \in Seq(Cursors),
           \A c \in Range(checkpoints') : Readable(c) /\ Behind(c, {})'
    PROVE  CursorInv'
<1>1. CursorTypes
  BY DEF CursorInv
<1>2. Behind(Asleep.cursor, {})'
  <2>1. Behind(Asleep.cursor, {})
    BY <1>1, AsleepFacts
  <2> QED BY <2>1, BehindStays DEF Asleep, NoCursor
<1> QED BY <1>1, <1>2, AsleepFacts, PassGoesOn

\* A step that commits nothing
LEMMA NothingCommitted ==
    ASSUME CursorInv, UNCHANGED <<connector, listing, repositories, checkpoints, jumped, overlooked>>
    PROVE  /\ Stored \subseteq Stored' /\ repositories' \in [Packages -> Nat]
           /\ checkpoints' \in Seq(Cursors)
           /\ \A c \in Range(checkpoints') : Readable(c) /\ Behind(c, {})'
<1>1. Stored' = Stored
  BY DEF Stored
<1>2. ASSUME NEW c \in Range(checkpoints) PROVE Readable(c) /\ Behind(c, {})'
  <2>1. Readable(c) /\ Behind(c, {})
    BY FrontiersOf DEF CursorInv
  <2> QED BY <1>1, <2>1, BehindStays
<1> QED BY <1>1, <1>2 DEF CursorInv, CursorTypes

LEMMA LoadKeeps ==
    ASSUME CursorInv, NEW p \in Passes, LoadCheckpoint(p)
    PROVE  CursorInv'
<1>1. CursorTypes
  BY DEF CursorInv
<1>2. PICK read : read = IF checkpoints = <<>> THEN NoCursor ELSE checkpoints[1]
  OBVIOUS
<1>3. PICK w : w = [Asleep EXCEPT !.at = "ask", !.first = checkpoints = <<>>, !.cursor = read]
  OBVIOUS
<1>4. /\ Goto(p, w)
      /\ UNCHANGED <<connector, listing, repositories, checkpoints, jumped, overlooked>>
  BY <1>2, <1>3 DEF LoadCheckpoint, source
<1>5. read \in Cursors /\ Readable(read) /\ Behind(read, {})
  <2>1. CASE checkpoints = <<>>
    BY <1>1, <1>2, <2>1, AsleepFacts DEF Readable
  <2>2. CASE checkpoints # <<>>
    <3>1. checkpoints[1] \in Range(checkpoints)
      BY <1>1, <2>2 DEF CursorTypes, Range
    <3>2. Readable(checkpoints[1]) /\ Behind(checkpoints[1], {})
      BY <1>1, <3>1, FrontiersOf DEF CursorInv
    <3> QED BY <1>2, <2>2, <3>2 DEF Readable
  <2> QED BY <2>1, <2>2
<1>6. w \in PassStates /\ w.cursor = read /\ w.next = NoCursor /\ w.at = "ask"
  BY <1>1, <1>3, <1>5, AsleepFacts DEF PassStates, Asleep
<1>7. Stored \subseteq Stored' /\ Behind(read, {})'
  BY <1>4, <1>5, NothingCommitted, BehindStays
<1>8. Readable(w.cursor) /\ Readable(w.next) /\ Behind(w.cursor, {})'
  BY <1>1, <1>5, <1>6, <1>7, AsleepFacts
<1> QED BY <1>4, <1>6, <1>7, <1>8, NothingCommitted, PassGoesOn

LEMMA AskKeeps ==
    ASSUME "github" \notin Connectors, CursorInv, NEW p \in Passes, AskPage(p)
    PROVE  CursorInv'
<1>1. CursorTypes
  BY DEF CursorInv
<1>2. PICK failing : LET page == Page(listing, Parsed(pass[p].cursor), failing)
                     IN  Goto(p, [pass[p] EXCEPT !.at = "ingest", !.items = page.items \cap Starred,
                                                 !.next = page.next, !.missed = page.missed])
  BY DEF AskPage
<1>3. PICK page : page = Page(listing, Parsed(pass[p].cursor), failing)
  OBVIOUS
<1>4. PICK w : w = [pass[p] EXCEPT !.at = "ingest", !.items = page.items \cap Starred,
                                   !.next = page.next, !.missed = page.missed]
  OBVIOUS
<1>5. /\ Goto(p, w)
      /\ UNCHANGED <<connector, listing, repositories, checkpoints, jumped, overlooked>>
  BY <1>2, <1>3, <1>4 DEF AskPage, source
<1>6. PICK c : c = pass[p].cursor
  OBVIOUS
<1>7. Readable(c) /\ Behind(c, {})
  BY <1>1, <1>6, FrontiersOf DEF CursorInv, PassHonest
<1>8. /\ page.items \subseteq Packages /\ page.missed \subseteq Packages
      /\ page.next \in Cursors /\ Readable(page.next)
      /\ ReadBefore(listing, page.next) \subseteq ReadBefore(listing, c) \cup page.items \cup page.missed
  BY <1>1, <1>3, <1>6, <1>7, PageFacts
<1>9. /\ w \in PassStates /\ w.at = "ingest" /\ w.cursor = c /\ w.next = page.next
      /\ w.items = page.items \cap Starred /\ w.missed = page.missed
  BY <1>1, <1>4, <1>6, <1>8, PassType DEF PassStates
<1>10. Behind(w.next, w.items \cup w.missed)
  BY <1>7, <1>8, <1>9 DEF Behind
<1>11. Stored \subseteq Stored' /\ Behind(c, {})' /\ Behind(w.next, w.items \cup w.missed)'
  BY <1>5, <1>7, <1>10, NothingCommitted, BehindStays
<1>12. Readable(w.cursor) /\ Readable(w.next) /\ Behind(w.cursor, {})' /\ w.at # "save"
  BY <1>7, <1>8, <1>9, <1>11
<1> QED BY <1>5, <1>9, <1>11, <1>12, NothingCommitted, PassGoesOn

LEMMA IngestKeeps ==
    ASSUME CursorInv, NEW p \in Passes, Ingest(p)
    PROVE  CursorInv'
<1>1. CursorTypes
  BY DEF CursorInv
<1>2. PICK w : w = [pass[p] EXCEPT !.at = "save",
                                   !.new = {r \in pass[p].items : repositories[r] = 0}]
  OBVIOUS
<1>3. /\ Goto(p, w) /\ pass[p].at = "ingest"
      /\ UNCHANGED <<connector, listing, repositories, checkpoints, jumped, overlooked>>
  BY <1>2 DEF Ingest, source
<1>4. /\ w \in PassStates /\ w.at = "save" /\ w.cursor = pass[p].cursor /\ w.next = pass[p].next
      /\ w.items = pass[p].items /\ w.missed = pass[p].missed
      /\ w.new = {r \in pass[p].items : repositories[r] = 0}
  BY <1>1, <1>2, PassType DEF PassStates
<1>5. /\ Readable(w.cursor) /\ Readable(w.next) /\ Behind(w.cursor, {})
      /\ Behind(w.next, w.items \cup w.missed)
  BY <1>1, <1>3, <1>4, FrontiersOf DEF CursorInv, PassHonest
<1>6. Stored \subseteq Stored' /\ Behind(w.cursor, {})' /\ Behind(w.next, w.items \cup w.missed)'
  BY <1>3, <1>5, NothingCommitted, BehindStays
<1>7. w.items \subseteq Stored \cup w.new
  <2>1. ASSUME NEW r \in w.items, repositories[r] # 0 PROVE r \in Stored
    <3>1. r \in Packages /\ repositories[r] \in Nat
      BY <1>1, <1>4, PassType DEF CursorTypes
    <3> QED BY <2>1, <3>1 DEF Stored
  <2> QED BY <1>4, <2>1
<1> QED BY <1>3, <1>4, <1>5, <1>6, <1>7, NothingCommitted, PassGoesOn

LEMMA SaveKeeps ==
    ASSUME CursorInv, NEW p \in Passes, SavePage(p)
    PROVE  CursorInv'
<1>1. CursorTypes
  BY DEF CursorInv
<1>2. PICK next : next = pass[p].next
  OBVIOUS
<1>3. PICK some : some = pass[p].items \cup pass[p].missed
  OBVIOUS
<1>4. /\ Goto(p, Asleep) /\ pass[p].at = "save" /\ UNCHANGED <<connector, listing, jumped>>
      /\ overlooked' = overlooked \cup pass[p].missed
      /\ repositories' = [r \in Packages |->
                             repositories[r] + IF r \in pass[p].new THEN 1 ELSE 0]
      /\ checkpoints' = IF pass[p].first THEN Append(checkpoints, next)
                        ELSE IF next = NoCursor THEN checkpoints
                        ELSE [checkpoints EXCEPT ![1] = next]
  BY <1>2, Zenon DEF SavePage, source, Saved
<1>5. /\ next \in Cursors /\ Readable(next) /\ Behind(next, some)
      /\ pass[p].items \subseteq Stored \cup pass[p].new
  BY <1>1, <1>2, <1>3, <1>4, PassType, FrontiersOf DEF CursorInv, PassHonest
<1>6. /\ repositories' \in [Packages -> Nat]
      /\ Stored \subseteq Stored' /\ pass[p].new \subseteq Stored'
  <2>1. repositories \in [Packages -> Nat] /\ pass[p].new \subseteq Packages
    BY <1>1, PassType DEF CursorTypes
  <2> QED BY <1>4, <2>1 DEF Stored
<1>7. some \subseteq Stored' \cup overlooked'
  BY <1>3, <1>4, <1>5, <1>6
<1>8. \A c, but : Behind(c, but) => Behind(c, but)'
  BY <1>4, <1>6, BehindStays
<1>9. Behind(next, {})'
  BY <1>5, <1>7, <1>8 DEF Behind
<1>10. checkpoints' \in Seq(Cursors) /\ Range(checkpoints') \subseteq Range(checkpoints) \cup {next}
  <2>1. checkpoints \in Seq(Cursors)
    BY <1>1 DEF CursorTypes
  <2>2. /\ Append(checkpoints, next) \in Seq(Cursors)
        /\ Range(Append(checkpoints, next)) \subseteq Range(checkpoints) \cup {next}
    BY <1>5, <2>1, AppendProperties DEF Range
  <2>3. /\ [checkpoints EXCEPT ![1] = next] \in Seq(Cursors)
        /\ Range([checkpoints EXCEPT ![1] = next]) \subseteq Range(checkpoints) \cup {next}
    <3> DEFINE new == [checkpoints EXCEPT ![1] = next]
    <3>1. CASE 1 \in DOMAIN checkpoints
      <4>1. /\ new \in Seq(Cursors) /\ DOMAIN new = DOMAIN checkpoints
            /\ \A i \in DOMAIN checkpoints : new[i] = IF i = 1 THEN next ELSE checkpoints[i]
        BY <1>5, <2>1, <3>1, ExceptSeq
      <4> HIDE DEF new
      <4>2. Range(new) \subseteq Range(checkpoints) \cup {next}
        BY <4>1 DEF Range
      <4> QED BY <4>1, <4>2, Zenon DEF new
    <3>2. CASE 1 \notin DOMAIN checkpoints
      <4>1. new = checkpoints
        BY <2>1, <3>2
      <4> QED BY <2>1, <4>1, Zenon
    <3> QED BY <3>1, <3>2
  <2> QED BY <1>4, <2>1, <2>2, <2>3
<1>11. \A c \in Range(checkpoints') : Readable(c) /\ Behind(c, {})'
  BY <1>1, <1>5, <1>8, <1>9, <1>10, FrontiersOf DEF CursorInv
<1> QED BY <1>4, <1>6, <1>10, <1>11, SleepKeeps

LEMMA LosesNothing ==
    ASSUME CursorInv, NEW p \in Passes, IngestRaises(p) \/ LosePass(p)
    PROVE  CursorInv'
<1>1. /\ Goto(p, Asleep)
      /\ UNCHANGED <<connector, listing, repositories, checkpoints, jumped, overlooked>>
  BY DEF IngestRaises, LosePass, source
<1> QED BY <1>1, NothingCommitted, SleepKeeps

LEMMA WithoutType ==
    ASSUME CursorTypes, NEW r \in Entries
    PROVE  Without(r) \in [1 .. Shelves -> Seq(Entries)]
<1>1. ASSUME NEW s \in 1 .. Shelves, r \in Range(listing[s])
      PROVE  RemoveAt(listing[s], CHOOSE i \in DOMAIN listing[s] : listing[s][i] = r) \in Seq(Entries)
  <2> DEFINE i == CHOOSE i \in DOMAIN listing[s] : listing[s][i] = r
  <2>1. listing[s] \in Seq(Entries) /\ i \in DOMAIN listing[s]
    BY <1>1 DEF CursorTypes, Range
  <2> HIDE DEF i
  <2>2. RemoveAt(listing[s], i) \in Seq(Entries)
    BY <2>1 DEF RemoveAt
  <2> QED BY <2>2 DEF i
<1> QED BY <1>1 DEF Without, CursorTypes

\* Whatever comes to stand in front of a cursor is counted.
LEMMA RelistKeeps ==
    ASSUME CursorInv, NEW r \in Entries, Relist(r)
    PROVE  CursorInv'
<1>1. CursorTypes
  BY DEF CursorInv
<1>2. PICK l \in [1 .. Shelves -> Seq(Entries)] : Rearranged(l)
  <2> DEFINE less == Without(r)
  <2>1. less \in [1 .. Shelves -> Seq(Entries)]
    BY <1>1, WithoutType
  <2>2. CASE Rearranged(less)
    BY <2>1, <2>2
  <2>3. CASE \E s \in 1 .. IF connector \in Walked THEN Shelves ELSE 1 :
                \E i \in 1 .. Len(less[s]) + 1 : Rearranged([less EXCEPT ![s] = InsertAt(@, i, r)])
    <3>1. PICK s \in 1 .. Shelves : \E i \in 1 .. Len(less[s]) + 1 :
                                       Rearranged([less EXCEPT ![s] = InsertAt(@, i, r)])
      <4> DEFINE Some(s) == \E i \in 1 .. Len(less[s]) + 1 :
                               Rearranged([less EXCEPT ![s] = InsertAt(@, i, r)])
      <4>1. 1 .. (IF connector \in Walked THEN Shelves ELSE 1) \subseteq 1 .. Shelves
        BY DiscoveryAssumption
      <4>2. \E s \in 1 .. (IF connector \in Walked THEN Shelves ELSE 1) : Some(s)
        BY <2>3, Zenon
      <4> HIDE DEF Some
      <4>3. \E s \in 1 .. Shelves : Some(s)
        BY <4>1, <4>2
      <4> QED BY <4>3 DEF Some
    <3>2. PICK i \in 1 .. Len(less[s]) + 1 : Rearranged([less EXCEPT ![s] = InsertAt(@, i, r)])
      BY <3>1
    <3> HIDE DEF less
    <3>3. InsertAt(less[s], i, r) \in Seq(Entries)
      BY <2>1 DEF InsertAt
    <3>4. [less EXCEPT ![s] = InsertAt(@, i, r)] \in [1 .. Shelves -> Seq(Entries)]
      BY <2>1, <3>3
    <3> QED BY <3>2, <3>4
  <2> QED BY <2>2, <2>3, Zenon DEF Relist
<1>3. /\ UNCHANGED <<connector, repositories, checkpoints, pass, overlooked>> /\ listing' = l
      /\ jumped' = jumped \cup UNION {ReadBefore(l, c) \ ReadBefore(listing, c) : c \in Frontiers}
  BY <1>2 DEF Rearranged
<1>4. Stored' = Stored /\ Frontiers' = Frontiers
  BY <1>3 DEF Stored, Frontiers
<1>5. ASSUME NEW c \in Frontiers, NEW but, Behind(c, but) PROVE Behind(c, but)'
  <2>1. ReadBefore(listing, c)' = ReadBefore(l, c)
    BY <1>3 DEF ReadBefore, Parsed, Start, Held
  <2>2. ReadBefore(l, c) \subseteq ReadBefore(listing, c) \cup jumped'
    BY <1>3
  <2> QED BY <1>3, <1>4, <1>5, <2>1, <2>2 DEF Behind
<1>6. \A c : Readable(c)' <=> Readable(c)
  BY <1>3 DEF Readable, Shelf1
<1>7. CursorTypes'
  BY <1>1, <1>3, <1>4, <1>6 DEF CursorTypes
<1>8. \A c \in Range(checkpoints) : Behind(c, {})'
  BY <1>5 DEF CursorInv, Frontiers
<1>9. ASSUME NEW p \in Passes PROVE PassHonest(p)'
  <2>1. pass[p].cursor \in Frontiers /\ pass[p].next \in Frontiers /\ PassHonest(p)
    BY DEF CursorInv, Frontiers
  <2>2. PICK c : c = pass[p].cursor
    OBVIOUS
  <2>3. PICK n : n = pass[p].next
    OBVIOUS
  <2>4. PICK but : but = pass[p].items \cup pass[p].missed
    OBVIOUS
  <2>5. Behind(c, {}) /\ (pass[p].at \in {"ingest", "save"} => Behind(n, but))
    BY <2>1, <2>2, <2>3, <2>4 DEF PassHonest
  <2>6. Behind(c, {})' /\ (pass[p].at \in {"ingest", "save"} => Behind(n, but)')
    BY <1>5, <2>1, <2>2, <2>3, <2>5
  <2> QED BY <1>3, <1>4, <2>1, <2>2, <2>3, <2>4, <2>6 DEF PassHonest
<1> QED BY <1>3, <1>7, <1>8, <1>9 DEF CursorInv

LEMMA CursorInit == DiscoveryInit => CursorInv
<1> SUFFICES ASSUME DiscoveryInit PROVE CursorInv
  OBVIOUS
<1>1. /\ connector \in Connectors /\ listing \in [1 .. Shelves -> Seq(Entries)]
      /\ repositories \in [Packages -> Nat]
      /\ checkpoints \in {<<>>, <<NoCursor>>} /\ pass = [p \in Passes |-> Asleep]
  BY DiscoveryAssumption DEF DiscoveryInit
<1>2. NoCursor \in Cursors /\ Readable(NoCursor) /\ Behind(NoCursor, {})
  BY <1>1, StartFacts DEF Behind
<1>3. /\ Asleep \in PassStates /\ Asleep.cursor = NoCursor /\ Asleep.next = NoCursor
      /\ Asleep.at = "idle"
  BY <1>2 DEF Asleep, PassStates
<1>4. checkpoints \in Seq(Cursors) /\ \A c \in Range(checkpoints) : c = NoCursor
  <2>1. CASE checkpoints = <<>>
    BY <2>1 DEF Range
  <2>2. CASE checkpoints = <<NoCursor>>
    BY <1>2, <2>2 DEF Range
  <2> QED BY <1>1, <2>1, <2>2
<1>5. CursorTypes
  BY <1>1, <1>2, <1>3, <1>4 DEF CursorTypes, Frontiers
<1>6. \A p \in Passes : PassHonest(p)
  BY <1>1, <1>2, <1>3 DEF PassHonest
<1> QED BY <1>2, <1>4, <1>5, <1>6 DEF CursorInv

LEMMA CursorNext ==
    ASSUME "github" \notin Connectors, CursorInv, [DiscoveryNext]_discoveryVars
    PROVE  CursorInv'
<1>1. CASE UNCHANGED discoveryVars
  <2>1. /\ UNCHANGED <<connector, listing, repositories, checkpoints, pass, jumped, overlooked>>
    BY <1>1 DEF discoveryVars
  <2>2. UNCHANGED Stored /\ UNCHANGED Frontiers /\ (\A c : Readable(c)' <=> Readable(c))
    BY <2>1 DEF Stored, Frontiers, Readable, Shelf1
  <2>3. \A c, but : Behind(c, but) => Behind(c, but)'
    BY <2>1, <2>2, BehindStays
  <2> QED BY <2>1, <2>2, <2>3 DEF CursorInv, CursorTypes, PassHonest
<1> QED BY <1>1, LoadKeeps, AskKeeps, IngestKeeps, SaveKeeps, LosesNothing, RelistKeeps
        DEF DiscoveryNext, Discover

\* For any source but one read by github's search, any number of passes side by side, and any
\* failures: what the checkpoint says has been read is stored (crawler/discovery.py commits the
\* page and its cursor at once), but for what came to stand in front of it later, for winget's
\* publishers that could not be listed, and for the packages of them a full page drops.
THEOREM CursorsAreHonest ==
    ASSUME "github" \notin Connectors
    PROVE  /\ DiscoverySpec => []CursorHonest
           /\ IngestionSpec => []CursorHonest
<1>1. CursorInv /\ [DiscoveryNext]_discoveryVars => CursorInv'
  BY CursorNext
<1>2. CursorInv => CursorHonest
  BY DEF CursorInv, Behind, CursorHonest
<1>3. /\ IngestionInit => DiscoveryInit
      /\ [IngestionNext]_<<discoveryVars, queueVars>> => [DiscoveryNext]_discoveryVars
  BY DEF IngestionInit, IngestionNext
<1> QED BY CursorInit, <1>1, <1>2, <1>3, PTL DEF DiscoverySpec, IngestionSpec

--------------------------------------------------------------------------------
(* Jobs *)

RequestStates == [at : {"idle", "repository", "job", "send"},
                  package : Packages, job : JobIds \cup {NoJob}]
JobRows == [package : Packages, retry : BOOLEAN]

Typed == JobQueueTypeOK /\ repositories \in [Packages -> Nat]

\* Rows are never deleted: a job, once recorded, keeps the row of its repository.
JobsKnown == \A j \in DOMAIN jobs : Known(jobs[j].package) >= 1

\* A request that is about to record a job has the repository's row; one about to send it
\* has the job's.
RequestsKnown ==
    \A q \in Requests : /\ request[q].at = "job" => Known(request[q].package) >= 1
                        /\ request[q].at = "send" => request[q].job \in DOMAIN jobs

\* Only recorded jobs are on their way.
OnTheirWay == queue \cup local \cup InHand \subseteq DOMAIN jobs

\* No job of an answered request is out of every place at once.
Placed == accepted \subseteq queue \cup InHand \cup local \cup ended \cup ignored \cup dropped

JobsInv == Typed /\ JobsKnown /\ RequestsKnown /\ OnTheirWay /\ Placed

--------------------------------------------------------------------------------
LEMMA Constants ==
    /\ Hooked \subseteq Packages /\ Hooked # {} /\ MaxJobs \in Nat /\ MaxFaults \in Nat
    /\ NoJob \notin JobIds
BY JobQueueAssumption DEF JobQueueAssumption, JobIds

LEMMA NoRequestType == NoRequest \in RequestStates /\ NoRequest.at = "idle"
BY Constants DEF NoRequest, RequestStates

\* An answer changes the state of one request.
LEMMA AnswerFacts ==
    ASSUME Typed, NEW q \in Requests, NEW w \in RequestStates, Answer(q, w)
    PROVE  /\ request' \in [Requests -> RequestStates]
           /\ request'[q] = w
           /\ \A o \in Requests : o # q => request'[o] = request[o]
BY DEF Answer, Typed, JobQueueTypeOK, RequestStates

LEMMA RequestType ==
    ASSUME Typed, NEW q \in Requests
    PROVE  /\ request[q] \in RequestStates
           /\ request[q].package \in Packages /\ request[q].job \in JobIds \cup {NoJob}
BY DEF Typed, JobQueueTypeOK, RequestStates

LEMMA JobsType ==
    ASSUME Typed
    PROVE  /\ jobs \in Seq(JobRows) /\ Len(jobs) \in Nat /\ DOMAIN jobs = 1 .. Len(jobs)
           /\ DOMAIN jobs \subseteq JobIds
           /\ \A j \in DOMAIN jobs : jobs[j] \in JobRows /\ jobs[j].package \in Packages
<1>1. jobs \in Seq(JobRows) /\ Len(jobs) <= MaxJobs
  BY DEF Typed, JobQueueTypeOK, JobRows
<1>2. Len(jobs) \in Nat /\ DOMAIN jobs = 1 .. Len(jobs)
      /\ \A j \in DOMAIN jobs : jobs[j] \in JobRows
  BY <1>1
<1>3. DOMAIN jobs \subseteq JobIds
  BY <1>1, <1>2, Constants DEF JobIds
<1>4. \A j \in DOMAIN jobs : jobs[j].package \in Packages
  BY <1>2 DEF JobRows
<1> QED BY <1>1, <1>2, <1>3, <1>4

\* A new job comes after all others.
LEMMA NewJob ==
    ASSUME Typed, NEW r \in Packages, NEW retry \in BOOLEAN, Len(jobs) < MaxJobs,
           jobs' = Append(jobs, [package |-> r, retry |-> retry])
    PROVE  /\ jobs' \in Seq(JobRows) /\ Len(jobs') <= MaxJobs
           /\ DOMAIN jobs' = DOMAIN jobs \cup {Len(jobs) + 1}
           /\ jobs'[Len(jobs) + 1].package = r
           /\ \A j \in DOMAIN jobs : jobs'[j] = jobs[j]
           /\ Len(jobs) + 1 \in JobIds
<1>1. [package |-> r, retry |-> retry] \in JobRows
  BY DEF JobRows
<1>2. Len(jobs') = Len(jobs) + 1 /\ jobs' \in Seq(JobRows)
  BY <1>1, JobsType
<1>3. DOMAIN jobs' = DOMAIN jobs \cup {Len(jobs) + 1}
  BY <1>2, JobsType
<1>4. jobs'[Len(jobs) + 1] = [package |-> r, retry |-> retry]
      /\ \A j \in DOMAIN jobs : jobs'[j] = jobs[j]
  BY JobsType
<1> QED BY <1>2, <1>3, <1>4, JobsType, Constants DEF JobIds

\* Known is a number; it never falls when neither table loses a row.
LEMMA KnownFacts ==
    ASSUME Typed
    PROVE  \A r \in Packages : Known(r) \in Nat /\ repositories[r] \in Nat /\ recorded[r] \in Nat
BY DEF Typed, JobQueueTypeOK, Known

--------------------------------------------------------------------------------
LEMMA JobsStart == IngestionInit => JobsInv
<1> SUFFICES ASSUME IngestionInit PROVE JobsInv
  OBVIOUS
<1> USE DEF IngestionInit, JobQueueInit
<1>1. repositories \in [Packages -> Nat]
  BY DEF DiscoveryInit
<1>2. JobQueueTypeOK
  <2>1. request \in [Requests -> RequestStates]
    BY NoRequestType
  <2>2. jobs \in Seq(JobRows) /\ Len(jobs) = 0
    OBVIOUS
  <2> QED BY <2>1, <2>2, Constants DEF JobQueueTypeOK, RequestStates, JobRows
<1>3. JobsKnown /\ RequestsKnown
  BY NoRequestType DEF JobsKnown, RequestsKnown
<1>4. OnTheirWay /\ Placed
  BY DEF OnTheirWay, Placed, InHand
<1> QED BY <1>1, <1>2, <1>3, <1>4 DEF JobsInv, Typed

\* A pass writes rows of repositories only, and never fewer than there were.
LEMMA DiscoveryKeeps == ASSUME JobsInv, DiscoveryNext, UNCHANGED queueVars PROVE JobsInv'
<1>1. repositories' \in [Packages -> Nat]
      /\ \A r \in Packages : repositories'[r] >= repositories[r]
  <2>0. repositories \in [Packages -> Nat]
    BY DEF JobsInv, Typed
  <2>1. CASE repositories' = repositories
    BY <2>0, <2>1
  <2>2. ASSUME NEW p \in Passes, SavePage(p)
        PROVE  repositories' \in [Packages -> Nat]
               /\ \A r \in Packages : repositories'[r] >= repositories[r]
    BY <2>0, <2>2 DEF SavePage
  <2> QED BY <2>1, <2>2 DEF DiscoveryNext, Discover, LoadCheckpoint, AskPage, Ingest,
                            IngestRaises, LosePass, Relist, Rearranged
<1>2. Typed'
  BY <1>1 DEF JobsInv, Typed, JobQueueTypeOK, queueVars
<1>3. \A r \in Packages : Known(r) >= 1 => Known(r)' >= 1
  <2> SUFFICES ASSUME NEW r \in Packages, Known(r) >= 1 PROVE Known(r)' >= 1
    OBVIOUS
  <2>1. repositories[r] \in Nat /\ repositories'[r] \in Nat /\ recorded[r] \in Nat
        /\ recorded'[r] = recorded[r] /\ repositories'[r] >= repositories[r]
    BY <1>1, KnownFacts DEF JobsInv, queueVars
  <2> QED BY <2>1 DEF Known
<1>4. JobsKnown' /\ RequestsKnown'
  BY <1>3, JobsType, RequestType DEF JobsInv, JobsKnown, RequestsKnown, queueVars
<1>5. OnTheirWay' /\ Placed'
  BY DEF JobsInv, OnTheirWay, Placed, InHand, queueVars
<1> QED BY <1>2, <1>4, <1>5 DEF JobsInv

LEMMA ReceiveKeeps ==
    ASSUME JobsInv, NEW q \in Requests, NEW r \in Hooked, Receive(q, r), UNCHANGED discoveryVars
    PROVE  JobsInv'
<1> DEFINE w == [at |-> IF Known(r) = 0 THEN "repository" ELSE "job",
                 package |-> r, job |-> NoJob]
<1>1. w \in RequestStates /\ Answer(q, w) /\ Typed
  BY Constants DEF Receive, RequestStates, JobsInv
<1> HIDE DEF w
<1>2. /\ request' \in [Requests -> RequestStates] /\ request'[q] = w
      /\ \A o \in Requests : o # q => request'[o] = request[o]
  BY <1>1, AnswerFacts
<1>3. Typed'
  BY <1>2 DEF JobsInv, Typed, JobQueueTypeOK, Receive, messages, discoveryVars, RequestStates
<1>4. w.at # "send" /\ (w.at = "job" => Known(w.package) >= 1)
  <2>1. Known(r) \in Nat
    BY <1>1, KnownFacts, Constants
  <2> QED BY <2>1 DEF w
<1>5. RequestsKnown' /\ JobsKnown'
  <2>1. recorded' = recorded /\ repositories' = repositories /\ jobs' = jobs
    BY DEF Receive, discoveryVars
  <2> QED BY <1>2, <1>4, <2>1 DEF JobsInv, RequestsKnown, JobsKnown, Known
<1>6. OnTheirWay' /\ Placed'
  BY DEF JobsInv, OnTheirWay, Placed, InHand, Receive, messages
<1> QED BY <1>3, <1>5, <1>6 DEF JobsInv

LEMMA RecordRepositoryKeeps ==
    ASSUME JobsInv, NEW q \in Requests, RecordRepository(q), UNCHANGED discoveryVars
    PROVE  JobsInv'
<1> DEFINE w == [request[q] EXCEPT !.at = "job"]
<1>0. Typed
  BY DEF JobsInv
<1>1. PICK r \in Packages : r = request[q].package
  BY <1>0, RequestType
<1>2. w \in RequestStates /\ Answer(q, w) /\ w.at = "job" /\ w.package = r
  BY <1>0, <1>1, RequestType DEF RecordRepository, RequestStates
<1>3. recorded' = [recorded EXCEPT ![r] = @ + 1] /\ repositories' = repositories /\ jobs' = jobs
  BY <1>1 DEF RecordRepository, discoveryVars
<1> HIDE DEF w
<1>4. /\ request' \in [Requests -> RequestStates] /\ request'[q] = w
      /\ \A o \in Requests : o # q => request'[o] = request[o]
  BY <1>0, <1>2, AnswerFacts
<1>5. recorded' \in [Packages -> Nat]
  BY <1>0, <1>1, <1>3 DEF Typed, JobQueueTypeOK
<1>6. Typed'
  BY <1>4, <1>5 DEF JobsInv, Typed, JobQueueTypeOK, RecordRepository, messages, discoveryVars,
                    RequestStates
<1>7. ASSUME NEW x \in Packages, x = r \/ Known(x) >= 1 PROVE Known(x)' >= 1
  <2>1. recorded'[x] = recorded[x] + (IF x = r THEN 1 ELSE 0)
    BY <1>0, <1>1, <1>3 DEF Typed, JobQueueTypeOK
  <2>2. repositories[x] \in Nat /\ recorded[x] \in Nat
    BY <1>0, KnownFacts
  <2> QED BY <1>3, <1>7, <2>1, <2>2 DEF Known
<1>8. ASSUME NEW o \in Requests
      PROVE  /\ request'[o].at = "job" =>
                    repositories'[request'[o].package] + recorded'[request'[o].package] >= 1
             /\ request'[o].at = "send" => request'[o].job \in DOMAIN jobs'
  <2>1. PICK x \in Packages : x = request'[o].package
    BY <1>4 DEF RequestStates
  <2>2. request'[o].at = "job" => x = r \/ Known(x) >= 1
    BY <1>2, <1>4, <2>1 DEF JobsInv, RequestsKnown
  <2>3. request'[o].at = "job" => repositories'[x] + recorded'[x] >= 1
    BY <1>7, <2>2 DEF Known
  <2>4. request'[o].at = "send" => request'[o].job \in DOMAIN jobs'
    BY <1>2, <1>3, <1>4 DEF JobsInv, RequestsKnown
  <2> QED BY <2>1, <2>3, <2>4
<1>9. RequestsKnown'
  BY <1>8 DEF RequestsKnown, Known
<1>10. JobsKnown'
  <2>1. ASSUME NEW j \in DOMAIN jobs
        PROVE  repositories'[jobs'[j].package] + recorded'[jobs'[j].package] >= 1
    <3>1. PICK x \in Packages : x = jobs[j].package
      BY <1>0, JobsType
    <3>2. Known(x) >= 1
      BY <3>1 DEF JobsInv, JobsKnown
    <3>3. repositories'[x] + recorded'[x] >= 1
      BY <1>7, <3>2 DEF Known
    <3> QED BY <1>3, <3>1, <3>3
  <2> QED BY <1>3, <2>1 DEF JobsKnown, Known
<1>11. OnTheirWay' /\ Placed'
  BY DEF JobsInv, OnTheirWay, Placed, InHand, RecordRepository, messages
<1> QED BY <1>6, <1>9, <1>10, <1>11 DEF JobsInv

\* Both ways of recording a job: its repository has a row, and its request is to send it.
LEMMA RecordedJobKeeps ==
    ASSUME JobsInv, NEW q \in Requests, NEW r \in Packages, NEW retry \in BOOLEAN,
           NEW w \in RequestStates, Known(r) >= 1, Len(jobs) < MaxJobs,
           jobs' = Append(jobs, [package |-> r, retry |-> retry]),
           Answer(q, w), w.at = "send", w.job = Len(jobs) + 1,
           UNCHANGED <<recorded, messages, accepted, faults, repositories>>
    PROVE  JobsInv'
<1>0. Typed
  BY DEF JobsInv
<1>1. /\ request' \in [Requests -> RequestStates] /\ request'[q] = w
      /\ \A o \in Requests : o # q => request'[o] = request[o]
  BY <1>0, AnswerFacts
<1>2. /\ jobs' \in Seq(JobRows) /\ Len(jobs') <= MaxJobs
      /\ DOMAIN jobs' = DOMAIN jobs \cup {Len(jobs) + 1}
      /\ jobs'[Len(jobs) + 1].package = r
      /\ \A j \in DOMAIN jobs : jobs'[j] = jobs[j]
  BY <1>0, NewJob
<1>3. Typed'
  BY <1>0, <1>1, <1>2 DEF Typed, JobQueueTypeOK, messages, RequestStates, JobRows
<1>4. JobsKnown'
  BY <1>2 DEF JobsInv, JobsKnown, Known
<1>5. RequestsKnown'
  BY <1>1, <1>2 DEF JobsInv, RequestsKnown, Known
<1>6. OnTheirWay' /\ Placed'
  BY <1>2 DEF JobsInv, OnTheirWay, Placed, InHand, messages
<1> QED BY <1>3, <1>4, <1>5, <1>6 DEF JobsInv

LEMMA CreateJobKeeps ==
    ASSUME JobsInv, NEW q \in Requests, CreateJob(q), UNCHANGED discoveryVars
    PROVE  JobsInv'
<1>0. Typed
  BY DEF JobsInv
<1>1. Len(jobs) + 1 \in JobIds
  BY <1>0, JobsType, Constants DEF CreateJob, JobIds
<1>2. [request[q] EXCEPT !.at = "send", !.job = Len(jobs) + 1] \in RequestStates
  BY <1>0, <1>1, RequestType DEF RequestStates
<1>3. request[q].package \in Packages /\ Known(request[q].package) >= 1
  BY <1>0, RequestType DEF JobsInv, RequestsKnown, CreateJob
<1>4. /\ [request[q] EXCEPT !.at = "send", !.job = Len(jobs) + 1].at = "send"
      /\ [request[q] EXCEPT !.at = "send", !.job = Len(jobs) + 1].job = Len(jobs) + 1
  BY <1>0, RequestType DEF RequestStates
<1> QED BY <1>2, <1>3, <1>4, RecordedJobKeeps DEF CreateJob, discoveryVars

LEMMA RetryJobKeeps ==
    ASSUME JobsInv, NEW q \in Requests, NEW j \in DOMAIN jobs, RetryJob(q, j),
           UNCHANGED discoveryVars
    PROVE  JobsInv'
<1> DEFINE w == [at |-> "send", package |-> jobs[j].package, job |-> Len(jobs) + 1]
<1>0. Typed
  BY DEF JobsInv
<1>1. Len(jobs) + 1 \in JobIds /\ jobs[j].package \in Packages
  BY <1>0, JobsType, Constants DEF RetryJob, JobIds
<1>2. w \in RequestStates /\ w.at = "send" /\ w.job = Len(jobs) + 1
  BY <1>1 DEF RequestStates
<1>3. Known(jobs[j].package) >= 1
  BY DEF JobsInv, JobsKnown
<1>4. Answer(q, w) /\ Len(jobs) < MaxJobs
      /\ jobs' = Append(jobs, [package |-> jobs[j].package, retry |-> TRUE])
      /\ UNCHANGED <<recorded, messages, accepted, faults, repositories>>
  BY DEF RetryJob, discoveryVars
<1> HIDE DEF w
<1> QED BY <1>1, <1>2, <1>3, <1>4, RecordedJobKeeps

LEMMA EnqueueJobKeeps ==
    ASSUME JobsInv, NEW q \in Requests, EnqueueJob(q), UNCHANGED discoveryVars
    PROVE  JobsInv'
<1>0. Typed /\ request[q].job \in DOMAIN jobs /\ DOMAIN jobs \subseteq JobIds
  BY JobsType DEF JobsInv, RequestsKnown, EnqueueJob
<1>1. /\ request' \in [Requests -> RequestStates] /\ request'[q] = NoRequest
      /\ \A o \in Requests : o # q => request'[o] = request[o]
  BY <1>0, AnswerFacts, NoRequestType DEF EnqueueJob
<1>2. faults' \in 0 .. MaxFaults
  BY Constants DEF EnqueueJob, JobsInv, Typed, JobQueueTypeOK
<1>3. /\ queue \subseteq queue' /\ queue' \subseteq queue \cup {request[q].job}
      /\ local \subseteq local' /\ local' \subseteq local \cup {request[q].job}
      /\ accepted' = accepted \cup {request[q].job}
      /\ request[q].job \in queue' \cup local'
      /\ UNCHANGED <<recorded, jobs, taken, ended, ignored, dropped, repositories>>
  BY DEF EnqueueJob, discoveryVars
<1>4. Typed'
  <2>1. request[q].job \in JobIds
    BY <1>0
  <2>2. queue \subseteq JobIds /\ local \subseteq JobIds /\ accepted \subseteq JobIds
    BY <1>0 DEF Typed, JobQueueTypeOK
  <2>3. queue' \subseteq JobIds /\ local' \subseteq JobIds /\ accepted' \subseteq JobIds
    BY <1>3, <2>1, <2>2
  <2>4. /\ recorded' \in [Packages -> Nat] /\ repositories' \in [Packages -> Nat]
        /\ jobs' \in Seq([package : Packages, retry : BOOLEAN]) /\ Len(jobs') <= MaxJobs
        /\ taken' \in [Workers -> JobIds \cup {NoJob}]
        /\ ended' \subseteq JobIds /\ ignored' \subseteq JobIds /\ dropped' \subseteq JobIds
    BY <1>0, <1>3 DEF Typed, JobQueueTypeOK
  <2> QED BY <1>1, <1>2, <2>3, <2>4 DEF Typed, JobQueueTypeOK, RequestStates
<1>5. JobsKnown' /\ RequestsKnown'
  BY <1>1, <1>3, NoRequestType DEF JobsInv, JobsKnown, RequestsKnown, Known
<1>6. OnTheirWay' /\ Placed'
  BY <1>0, <1>3 DEF JobsInv, OnTheirWay, Placed, InHand
<1> QED BY <1>4, <1>5, <1>6 DEF JobsInv

LEMMA ApiDiesKeeps == ASSUME JobsInv, ApiDies, UNCHANGED discoveryVars PROVE JobsInv'
<1>1. request' \in [Requests -> RequestStates] /\ \A q \in Requests : request'[q].at = "idle"
  BY NoRequestType DEF ApiDies
<1>2. faults' \in 0 .. MaxFaults
  BY Constants DEF ApiDies, JobsInv, Typed, JobQueueTypeOK
<1>3. Typed'
  BY <1>1, <1>2 DEF ApiDies, JobsInv, Typed, JobQueueTypeOK, RequestStates, discoveryVars
<1>4. JobsKnown' /\ RequestsKnown'
  BY <1>1 DEF ApiDies, JobsInv, JobsKnown, RequestsKnown, Known, discoveryVars
<1>5. OnTheirWay' /\ Placed'
  BY DEF ApiDies, JobsInv, OnTheirWay, Placed, InHand
<1> QED BY <1>3, <1>4, <1>5 DEF JobsInv

\* What a worker does leaves rows and requests alone: only where jobs are matters.
LEMMA WorkerStep ==
    ASSUME JobsInv, UNCHANGED <<recorded, jobs, request, local, accepted, repositories>>,
           taken' \in [Workers -> JobIds \cup {NoJob}], faults' \in 0 .. MaxFaults,
           queue' \cup InHand' \subseteq queue \cup InHand,
           queue \cup InHand \subseteq queue' \cup InHand' \cup ended' \cup ignored' \cup dropped',
           ended \subseteq ended', ignored \subseteq ignored', dropped \subseteq dropped',
           ended' \cup ignored' \cup dropped' \subseteq JobIds
    PROVE  JobsInv'
<1>1. queue' \subseteq JobIds
  <2>1. InHand \subseteq JobIds /\ queue \subseteq JobIds
    BY DEF JobsInv, Typed, JobQueueTypeOK, InHand
  <2> QED BY <2>1
<1>2. Typed'
  BY <1>1 DEF JobsInv, Typed, JobQueueTypeOK
<1>3. JobsKnown' /\ RequestsKnown'
  BY DEF JobsInv, JobsKnown, RequestsKnown, Known
<1>4. OnTheirWay' /\ Placed'
  BY DEF JobsInv, OnTheirWay, Placed
<1> QED BY <1>2, <1>3, <1>4 DEF JobsInv

\* A worker that puts its job down, and one that takes one up
LEMMA HandsFacts ==
    ASSUME JobsInv, NEW w \in Workers, NEW j \in JobIds \cup {NoJob},
           taken' = [taken EXCEPT ![w] = j]
    PROVE  /\ taken' \in [Workers -> JobIds \cup {NoJob}]
           /\ InHand' \subseteq InHand \cup ({j} \ {NoJob})
           /\ InHand \subseteq InHand' \cup ({taken[w]} \ {NoJob})
           /\ {j} \ {NoJob} \subseteq InHand'
BY DEF JobsInv, Typed, JobQueueTypeOK, InHand

LEMMA TakeKeeps ==
    ASSUME JobsInv, NEW w \in Workers, Take(w), UNCHANGED discoveryVars
    PROVE  JobsInv'
<1>1. PICK j \in queue : taken' = [taken EXCEPT ![w] = j] /\ queue' = queue \ {j}
  BY DEF Take
<1>2. j \in JobIds /\ j # NoJob /\ taken[w] = NoJob
  BY Constants DEF Take, JobsInv, Typed, JobQueueTypeOK
<1>3. /\ UNCHANGED <<recorded, jobs, request, local, accepted, repositories, ended, ignored,
                     dropped, faults>>
      /\ faults \in 0 .. MaxFaults /\ ended \cup ignored \cup dropped \subseteq JobIds
  BY DEF Take, discoveryVars, JobsInv, Typed, JobQueueTypeOK
<1>4. /\ taken' \in [Workers -> JobIds \cup {NoJob}]
      /\ InHand' \subseteq InHand \cup {j} /\ InHand \subseteq InHand' /\ j \in InHand'
  BY <1>1, <1>2, HandsFacts
<1> QED BY <1>1, <1>3, <1>4, WorkerStep

LEMMA ProcessJobKeeps ==
    ASSUME JobsInv, NEW w \in Workers, ProcessJob(w), UNCHANGED discoveryVars
    PROVE  JobsInv'
<1>1. taken[w] \in JobIds
  BY DEF ProcessJob, JobsInv, Typed, JobQueueTypeOK
<1>2. /\ UNCHANGED <<recorded, jobs, request, queue, local, accepted, repositories, dropped,
                     faults>>
      /\ faults \in 0 .. MaxFaults /\ ended \cup ignored \cup dropped \subseteq JobIds
      /\ taken' = [taken EXCEPT ![w] = NoJob]
      /\ ended \subseteq ended' /\ ignored \subseteq ignored' /\ taken[w] \in ended' \cup ignored'
      /\ ended' \cup ignored' \subseteq ended \cup ignored \cup {taken[w]}
  BY DEF ProcessJob, discoveryVars, JobsInv, Typed, JobQueueTypeOK
<1>3. /\ taken' \in [Workers -> JobIds \cup {NoJob}]
      /\ InHand' \subseteq InHand /\ InHand \subseteq InHand' \cup {taken[w]}
  BY <1>2, HandsFacts
<1> QED BY <1>1, <1>2, <1>3, WorkerStep

LEMMA WorkerDiesKeeps ==
    ASSUME JobsInv, NEW w \in Workers, WorkerDies(w), UNCHANGED discoveryVars
    PROVE  JobsInv'
<1>1. taken[w] \in JobIds /\ taken[w] \in InHand
  BY DEF WorkerDies, JobsInv, Typed, JobQueueTypeOK, InHand
<1>2. faults' \in 0 .. MaxFaults
  BY Constants DEF WorkerDies, JobsInv, Typed, JobQueueTypeOK
<1>3. /\ UNCHANGED <<recorded, jobs, request, local, accepted, repositories, ended, ignored>>
      /\ ended \cup ignored \cup dropped \subseteq JobIds
      /\ taken' = [taken EXCEPT ![w] = NoJob]
      /\ queue \subseteq queue' /\ queue' \subseteq queue \cup {taken[w]}
      /\ dropped \subseteq dropped' /\ dropped' \subseteq dropped \cup {taken[w]}
      /\ taken[w] \in queue' \cup dropped'
  BY DEF WorkerDies, discoveryVars, JobsInv, Typed, JobQueueTypeOK
<1>4. /\ taken' \in [Workers -> JobIds \cup {NoJob}]
      /\ InHand' \subseteq InHand /\ InHand \subseteq InHand' \cup {taken[w]}
  BY <1>3, HandsFacts
<1> QED BY <1>1, <1>2, <1>3, <1>4, WorkerStep

LEMMA RedeliverKeeps ==
    ASSUME JobsInv, NEW w \in Workers, Redeliver(w), UNCHANGED discoveryVars
    PROVE  JobsInv'
<1>1. taken[w] \in InHand
  BY DEF Redeliver, InHand
<1>2. faults' \in 0 .. MaxFaults
  BY Constants DEF Redeliver, JobsInv, Typed, JobQueueTypeOK
<1>3. /\ UNCHANGED <<recorded, jobs, request, local, accepted, repositories, ended, ignored,
                     dropped, taken>>
      /\ ended \cup ignored \cup dropped \subseteq JobIds
      /\ taken \in [Workers -> JobIds \cup {NoJob}]
      /\ queue' = queue \cup {taken[w]}
  BY DEF Redeliver, discoveryVars, JobsInv, Typed, JobQueueTypeOK
<1>4. InHand' = InHand
  BY <1>3 DEF InHand
<1> QED BY <1>1, <1>2, <1>3, <1>4, WorkerStep

LEMMA JobsStep == JobsInv /\ [IngestionNext]_<<discoveryVars, queueVars>> => JobsInv'
<1> SUFFICES ASSUME JobsInv, [IngestionNext]_<<discoveryVars, queueVars>> PROVE JobsInv'
  OBVIOUS
<1>1. CASE UNCHANGED <<discoveryVars, queueVars>>
  BY <1>1 DEF discoveryVars, queueVars, JobsInv, Typed, JobQueueTypeOK, JobsKnown, RequestsKnown,
              Known, OnTheirWay, Placed, InHand
<1>2. CASE DiscoveryNext /\ UNCHANGED queueVars
  BY <1>2, DiscoveryKeeps
<1>3. CASE JobQueueNext /\ UNCHANGED discoveryVars
  BY <1>3, ReceiveKeeps, RecordRepositoryKeeps, CreateJobKeeps, RetryJobKeeps, EnqueueJobKeeps,
     ApiDiesKeeps, TakeKeeps, ProcessJobKeeps, WorkerDiesKeeps, RedeliverKeeps
     DEF JobQueueNext, Serve, Work
<1> QED BY <1>1, <1>2, <1>3 DEF IngestionNext

\* For any number of requests, workers and passes, and any faults: a job that can be run has
\* its row and its repository's, and no job whose request was answered is forgotten.
THEOREM NoJobForgotten == IngestionSpec => []JobsAccounted
<1>1. JobsInv => JobsAccounted
  BY DEF JobsInv, JobsKnown, OnTheirWay, Placed, JobsAccounted
<1> QED BY <1>1, JobsStart, JobsStep, PTL DEF IngestionSpec

--------------------------------------------------------------------------------
(* The scheduler *)

\* Time since the sweep read the clock is what the tasks before took, and the one that runs.
Elapsed ==
    /\ elapsed <= Before(position) + (IF place = "task" THEN spent ELSE 0)
    /\ place = "task" => position \in Tasks /\ spent <= MaxDuration
    /\ place = "sleep" => position = TaskCount + 1

\* A task the sweep has passed is due after its clock; before that, one was so at the
\* last sweep's, which was at most a sweep and a second ago.
Punctual(t) ==
    place # "off" =>
        /\ due[t] + elapsed >= -Sweep
        /\ t < position => due[t] + elapsed >= 1

\* What is left of an interval and what has passed of it make up the interval, but for the
\* time the tasks before took, by which the start came after the sweep's clock.
Apart(t) ==
    /\ since[t] <= Interval[t]
    /\ since[t] = Interval[t]
       \/ IF place = "task" /\ position = t THEN since[t] >= elapsed - Before(t)
          ELSE since[t] + due[t] >= Interval[t] - Before(t)

ScheduleInv == SchedulerTypeOK /\ Elapsed /\ \A t \in Tasks : Punctual(t) /\ Apart(t)

--------------------------------------------------------------------------------
LEMMA ConstantFacts ==
    /\ TaskCount \in Nat \ {0} /\ MaxDuration \in Nat
    /\ Interval \in [Tasks -> Nat \ {0}]
BY SchedulerAssumption DEF SchedulerAssumption, Tasks

\* The tasks before one, that one, and all of them
LEMMA Durations ==
    /\ Before(1) = 0 /\ Sweep \in Nat /\ Before(TaskCount + 1) = Sweep
    /\ \A t \in 1 .. TaskCount + 1 : Before(t) \in Nat /\ Before(t) <= Sweep
    /\ \A t \in Tasks : Before(t + 1) = Before(t) + MaxDuration
<1> USE ConstantFacts
<1>1. \A m \in Nat : m * MaxDuration \in Nat
  OBVIOUS
<1>2. Before(1) = 0
  BY DEF Before
<1>3. Before(TaskCount + 1) = Sweep
  BY DEF Before, Sweep
<1>4. Sweep \in Nat
  BY <1>1 DEF Sweep
<1>5. ASSUME NEW t \in 1 .. TaskCount + 1 PROVE Before(t) \in Nat /\ Before(t) <= Sweep
  <2> DEFINE m == t - 1
             n == TaskCount + 1 - t
  <2>1. m \in Nat /\ n \in Nat /\ m + n = TaskCount
    OBVIOUS
  <2>2. m * MaxDuration \in Nat /\ n * MaxDuration \in Nat
    BY <1>1, <2>1
  <2>3. (m + n) * MaxDuration = m * MaxDuration + n * MaxDuration
    BY <2>1
  <2> QED BY <2>1, <2>2, <2>3 DEF Before, Sweep
<1>6. ASSUME NEW t \in Tasks PROVE Before(t + 1) = Before(t) + MaxDuration
  <2>1. t \in Nat /\ (t + 1) - 1 = (t - 1) + 1 /\ t - 1 \in Int
    BY DEF Tasks
  <2>2. ((t - 1) + 1) * MaxDuration = (t - 1) * MaxDuration + MaxDuration
    BY <2>1
  <2> QED BY <2>1, <2>2 DEF Before
<1> QED BY <1>2, <1>3, <1>4, <1>5, <1>6

\* What the types say in plain inequalities
LEMMA Numbers ==
    ASSUME SchedulerTypeOK
    PROVE  /\ TaskCount \in Nat /\ MaxDuration \in Nat /\ Sweep \in Nat
           /\ position \in Nat /\ 1 <= position /\ position <= TaskCount + 1
           /\ elapsed \in Nat /\ elapsed <= Sweep /\ spent \in Nat /\ spent <= MaxDuration
           /\ Before(position) \in Nat /\ Before(position) <= Sweep
           /\ position \in Tasks => /\ Before(position + 1) = Before(position) + MaxDuration
                                    /\ Before(position) + MaxDuration <= Sweep
                                    /\ position + 1 \in 1 .. TaskCount + 1
           /\ \A t \in Tasks : /\ t \in Nat /\ 1 <= t /\ t <= TaskCount
                                /\ Interval[t] \in Nat /\ Interval[t] >= 1
                                /\ due[t] \in Int /\ since[t] \in Nat
                                /\ Before(t) \in Nat /\ Before(t) <= Sweep
<1>1. TaskCount \in Nat /\ MaxDuration \in Nat /\ Sweep \in Nat
  BY ConstantFacts, Durations
<1>2. position \in Nat /\ 1 <= position /\ position <= TaskCount + 1
  BY <1>1 DEF SchedulerTypeOK
<1>3. elapsed \in Nat /\ elapsed <= Sweep /\ spent \in Nat /\ spent <= MaxDuration
  BY <1>1 DEF SchedulerTypeOK
<1>4. Before(position) \in Nat /\ Before(position) <= Sweep
  BY Durations DEF SchedulerTypeOK
<1>5. ASSUME position \in Tasks
      PROVE  /\ Before(position + 1) = Before(position) + MaxDuration
             /\ Before(position) + MaxDuration <= Sweep
             /\ position + 1 \in 1 .. TaskCount + 1
  <2>1. position + 1 \in 1 .. TaskCount + 1
    BY <1>1, <1>5 DEF Tasks
  <2>2. Before(position + 1) = Before(position) + MaxDuration
    BY <1>5, Durations
  <2>3. Before(position + 1) <= Sweep
    BY <2>1, Durations
  <2> QED BY <2>1, <2>2, <2>3
<1>6. ASSUME NEW t \in Tasks
      PROVE  /\ t \in Nat /\ 1 <= t /\ t <= TaskCount
             /\ Interval[t] \in Nat /\ Interval[t] >= 1
             /\ due[t] \in Int /\ since[t] \in Nat
             /\ Before(t) \in Nat /\ Before(t) <= Sweep
  <2>1. t \in Nat /\ 1 <= t /\ t <= TaskCount /\ t \in 1 .. TaskCount + 1
    BY <1>1 DEF Tasks
  <2>2. Interval[t] \in Nat \ {0}
    BY ConstantFacts
  <2> QED BY <2>1, <2>2, Durations DEF SchedulerTypeOK
<1> QED BY <1>1, <1>2, <1>3, <1>4, <1>5, <1>6

--------------------------------------------------------------------------------
LEMMA ScheduleStarts == SchedulerInit => ScheduleInv
<1> SUFFICES ASSUME SchedulerInit PROVE ScheduleInv
  OBVIOUS
<1>1. since \in [Tasks -> Nat] /\ due \in [Tasks -> Int]
  BY ConstantFacts DEF SchedulerInit
<1>2. SchedulerTypeOK
  <2>1. 1 \in 1 .. TaskCount + 1 /\ 0 \in 0 .. Sweep /\ 0 \in 0 .. MaxDuration
    BY ConstantFacts, Durations
  <2>2. position = 1 /\ elapsed = 0 /\ spent = 0 /\ running = FALSE /\ wanted = FALSE
        /\ place = "off"
    BY DEF SchedulerInit
  <2> QED BY <1>1, <2>1, <2>2, Zenon DEF SchedulerTypeOK
<1>3. Elapsed
  BY ConstantFacts, Durations DEF SchedulerInit, Elapsed
<1>4. ASSUME NEW t \in Tasks PROVE Punctual(t) /\ Apart(t)
  BY ConstantFacts DEF SchedulerInit, Punctual, Apart
<1> QED BY <1>2, <1>3, <1>4 DEF ScheduleInv

\* What the invariant says of one task, in plain inequalities
TaskState(t) ==
    /\ t \in Nat /\ 1 <= t /\ due[t] \in Int /\ since[t] \in Nat
    /\ Interval[t] \in Nat /\ Interval[t] >= 1
    /\ elapsed \in Nat /\ position \in Nat /\ Before(t) \in Nat /\ Sweep \in Nat
    /\ since[t] <= Interval[t]
    /\ place # "off" => due[t] + elapsed >= -Sweep
    /\ place # "off" /\ t < position => due[t] + elapsed >= 1
    /\ since[t] = Interval[t]
       \/ IF place = "task" /\ position = t THEN since[t] >= elapsed - Before(t)
          ELSE since[t] + due[t] >= Interval[t] - Before(t)

LEMMA TaskFacts == ASSUME ScheduleInv, NEW t \in Tasks PROVE TaskState(t)
<1>1. SchedulerTypeOK /\ Punctual(t) /\ Apart(t)
  BY DEF ScheduleInv
<1>2. /\ t \in Nat /\ 1 <= t /\ due[t] \in Int /\ since[t] \in Nat
      /\ Interval[t] \in Nat /\ Interval[t] >= 1
      /\ elapsed \in Nat /\ position \in Nat /\ Before(t) \in Nat /\ Sweep \in Nat
  BY <1>1, Numbers
<1> QED BY <1>1, <1>2 DEF TaskState, Punctual, Apart

LEMMA RunForeverKeeps == ASSUME ScheduleInv, RunForever PROVE ScheduleInv'
<1>1. /\ running' = TRUE /\ wanted' = TRUE /\ place' = "sweep" /\ position' = 1 /\ elapsed' = 0
      /\ due' = [t \in Tasks |-> 0] /\ since' = [t \in Tasks |-> Interval[t]] /\ spent' = spent
  BY DEF RunForever
<1>2. SchedulerTypeOK'
  <2>1. 1 \in 1 .. TaskCount + 1 /\ 0 \in 0 .. Sweep
    BY ConstantFacts, Durations
  <2>2. spent' \in 0 .. MaxDuration
    BY <1>1 DEF ScheduleInv, SchedulerTypeOK
  <2>3. due' \in [Tasks -> Int] /\ since' \in [Tasks -> Nat]
    BY <1>1, ConstantFacts
  <2> QED BY <1>1, <2>1, <2>2, <2>3, Zenon DEF SchedulerTypeOK
<1>3. Elapsed'
  BY <1>1, Durations DEF Elapsed
<1>4. ASSUME NEW t \in Tasks PROVE Punctual(t)' /\ Apart(t)'
  <2>1. due'[t] = 0 /\ since'[t] = Interval[t] /\ t \in Nat /\ 1 <= t
        /\ Interval[t] \in Nat /\ Sweep \in Nat
    BY <1>1, TaskFacts DEF TaskState
  <2> QED BY <1>1, <2>1 DEF Punctual, Apart
<1> QED BY <1>2, <1>3, <1>4 DEF ScheduleInv

LEMMA SkipTaskKeeps == ASSUME ScheduleInv, SkipTask PROVE ScheduleInv'
<1>1. /\ place = "sweep" /\ position \in Tasks /\ ~IsDue(position)
      /\ position' = position + 1
      /\ UNCHANGED <<running, place, elapsed, due, spent, wanted, since>>
  BY DEF SkipTask
<1>2. /\ position + 1 \in 1 .. TaskCount + 1 /\ Before(position + 1) = Before(position) + MaxDuration
      /\ position + 1 # position
      /\ elapsed <= Before(position) /\ Before(position) \in Nat /\ MaxDuration \in Nat
      /\ elapsed \in Nat
  BY <1>1, Numbers DEF ScheduleInv, Elapsed
<1>3. SchedulerTypeOK'
  BY <1>1, <1>2 DEF ScheduleInv, SchedulerTypeOK
<1>4. Elapsed'
  BY <1>1, <1>2 DEF Elapsed
<1>5. ASSUME NEW t \in Tasks PROVE Punctual(t)' /\ Apart(t)'
  <2>1. TaskState(t)
    BY TaskFacts
  <2>2. t = position => due[t] + elapsed >= 1
    BY <1>1, <2>1 DEF IsDue, TaskState
  <2>3. /\ due[t] + elapsed >= -Sweep
        /\ t < position + 1 => due[t] + elapsed >= 1
        /\ since[t] <= Interval[t]
        /\ since[t] = Interval[t] \/ since[t] + due[t] >= Interval[t] - Before(t)
    BY <1>1, <2>1, <2>2 DEF TaskState
  <2> QED BY <1>1, <2>3 DEF Punctual, Apart, Before, Sweep
<1> QED BY <1>3, <1>4, <1>5 DEF ScheduleInv

LEMMA StartTaskKeeps == ASSUME ScheduleInv, StartTask PROVE ScheduleInv'
<1>1. /\ place = "sweep" /\ position \in Tasks /\ place' = "task" /\ spent' = 0
      /\ since' = [since EXCEPT ![position] = 0]
      /\ UNCHANGED <<running, position, elapsed, due, wanted>>
  BY DEF StartTask
<1>2. /\ elapsed <= Before(position) /\ elapsed \in Nat /\ Before(position) \in Nat
      /\ MaxDuration \in Nat /\ since \in [Tasks -> Nat]
  BY <1>1, Numbers DEF ScheduleInv, Elapsed, SchedulerTypeOK
<1>3. SchedulerTypeOK'
  <2>1. spent' \in 0 .. MaxDuration /\ since' \in [Tasks -> Nat]
    BY <1>1, <1>2
  <2> QED BY <1>1, <2>1 DEF ScheduleInv, SchedulerTypeOK
<1>4. Elapsed'
  BY <1>1, <1>2 DEF Elapsed
<1>5. ASSUME NEW t \in Tasks PROVE Punctual(t)'
  <2>1. TaskState(t)
    BY TaskFacts
  <2>2. due[t] + elapsed >= -Sweep /\ (t < position => due[t] + elapsed >= 1)
    BY <1>1, <2>1 DEF TaskState
  <2> QED BY <1>1, <2>2 DEF Punctual, Sweep
<1>6. ASSUME NEW t \in Tasks PROVE Apart(t)'
  <2>0. TaskState(t)
    BY TaskFacts
  <2>1. since'[t] = IF t = position THEN 0 ELSE since[t]
    BY <1>1, <1>2
  <2>2. CASE t = position
    <3>1. /\ since'[t] = 0 /\ 0 >= elapsed - Before(t) /\ 0 <= Interval[t]
      BY <1>2, <2>0, <2>1, <2>2 DEF TaskState
    <3> QED BY <1>1, <2>2, <3>1 DEF Apart, Before
  <2>3. CASE t # position
    <3>1. /\ since'[t] = since[t] /\ since[t] <= Interval[t]
          /\ since[t] = Interval[t] \/ since[t] + due[t] >= Interval[t] - Before(t)
      BY <1>1, <2>0, <2>1, <2>3 DEF TaskState
    <3> QED BY <1>1, <2>3, <3>1 DEF Apart, Before
  <2> QED BY <2>2, <2>3
<1> QED BY <1>3, <1>4, <1>5, <1>6 DEF ScheduleInv

LEMMA EndTaskKeeps == ASSUME ScheduleInv, EndTask PROVE ScheduleInv'
<1>1. /\ place = "task" /\ place' = "sweep" /\ position' = position + 1 /\ spent' = 0
      /\ due' = [due EXCEPT ![position] = Interval[position] - elapsed]
      /\ UNCHANGED <<running, elapsed, wanted, since>>
  BY DEF EndTask
<1>2. /\ position \in Tasks /\ elapsed <= Before(position) + spent /\ spent <= MaxDuration
  BY <1>1 DEF ScheduleInv, Elapsed
<1>3. /\ position + 1 \in 1 .. TaskCount + 1 /\ Before(position + 1) = Before(position) + MaxDuration
      /\ elapsed \in Nat /\ spent \in Nat /\ Before(position) \in Nat /\ MaxDuration \in Nat
      /\ position \in Nat /\ Interval[position] - elapsed \in Int /\ due \in [Tasks -> Int]
  BY <1>2, Numbers DEF ScheduleInv, SchedulerTypeOK
<1>4. SchedulerTypeOK'
  <2>1. spent' \in 0 .. MaxDuration
    BY <1>1, <1>3
  <2>2. due' \in [Tasks -> Int]
    BY <1>1, <1>3
  <2> QED BY <1>1, <1>3, <2>1, <2>2 DEF ScheduleInv, SchedulerTypeOK
<1>5. Elapsed'
  <2>1. elapsed <= Before(position + 1) + 0
    BY <1>2, <1>3
  <2> QED BY <1>1, <2>1 DEF Elapsed
<1>6. ASSUME NEW t \in Tasks
      PROVE due'[t] = IF t = position THEN Interval[t] - elapsed ELSE due[t]
  BY <1>1, <1>3
<1>7. ASSUME NEW t \in Tasks PROVE Punctual(t)'
  <2>1. due'[t] + elapsed >= -Sweep /\ (t < position + 1 => due'[t] + elapsed >= 1)
    <3>1. TaskState(t) /\ position \in Nat
      BY <1>3, TaskFacts
    <3>2. CASE t = position
      BY <1>6, <3>1, <3>2 DEF TaskState
    <3>3. CASE t # position
      BY <1>1, <1>6, <3>1, <3>3 DEF TaskState
    <3> QED BY <3>2, <3>3
  <2> QED BY <1>1, <2>1 DEF Punctual, Sweep
<1>8. ASSUME NEW t \in Tasks PROVE Apart(t)'
  <2>1. /\ since[t] <= Interval[t]
        /\ since[t] = Interval[t] \/ since[t] + due'[t] >= Interval[t] - Before(t)
    <3>1. TaskState(t)
      BY TaskFacts
    <3>2. CASE t = position
      BY <1>1, <1>6, <3>1, <3>2 DEF TaskState
    <3>3. CASE t # position
      BY <1>1, <1>6, <3>1, <3>3 DEF TaskState
    <3> QED BY <3>2, <3>3
  <2> QED BY <1>1, <2>1 DEF Apart, Before
<1> QED BY <1>4, <1>5, <1>7, <1>8 DEF ScheduleInv

LEMMA EndSweepKeeps == ASSUME ScheduleInv, EndSweep PROVE ScheduleInv'
<1>1. /\ place = "sweep" /\ position > TaskCount /\ place' = "sleep"
      /\ UNCHANGED <<running, position, elapsed, due, spent, wanted, since>>
  BY DEF EndSweep
<1>2. SchedulerTypeOK'
  BY <1>1 DEF ScheduleInv, SchedulerTypeOK
<1>3. Elapsed'
  <2>1. position = TaskCount + 1
    BY <1>1, Numbers DEF ScheduleInv
  <2> QED BY <1>1, <2>1 DEF ScheduleInv, Elapsed
<1>4. ASSUME NEW t \in Tasks PROVE Punctual(t)' /\ Apart(t)'
  <2>1. TaskState(t)
    BY TaskFacts
  <2>2. /\ due[t] + elapsed >= -Sweep /\ (t < position => due[t] + elapsed >= 1)
        /\ since[t] <= Interval[t]
        /\ since[t] = Interval[t] \/ since[t] + due[t] >= Interval[t] - Before(t)
    BY <1>1, <2>1 DEF TaskState
  <2> QED BY <1>1, <2>2 DEF Punctual, Apart, Before, Sweep
<1> QED BY <1>2, <1>3, <1>4 DEF ScheduleInv

\* Time passes: one tick less until every task is due, one more since it was started.
LEMMA ElapseFacts ==
    ASSUME ScheduleInv, Elapse, NEW t \in Tasks
    PROVE  /\ due'[t] = due[t] - 1
           /\ since'[t] = IF since[t] < Interval[t] THEN since[t] + 1 ELSE since[t]
           /\ due[t] \in Int /\ since[t] \in Nat /\ Interval[t] \in Nat /\ t \in Nat
           /\ Before(t) \in Nat /\ elapsed \in Nat /\ Sweep \in Nat
           /\ since[t] <= Interval[t]
<1>1. due'[t] = due[t] - 1 /\ since'[t] = Older(t)
  BY DEF Elapse
<1>2. TaskState(t)
  BY TaskFacts
<1> QED BY <1>1, <1>2 DEF Older, TaskState

LEMMA ElapseTypes ==
    ASSUME ScheduleInv, Elapse
    PROVE  /\ running' \in BOOLEAN /\ wanted' \in BOOLEAN
           /\ due' \in [Tasks -> Int] /\ since' \in [Tasks -> Nat]
<1>1. running' \in BOOLEAN /\ wanted' \in BOOLEAN
  BY DEF ScheduleInv, SchedulerTypeOK, Elapse
<1>2. \A t \in Tasks : due[t] - 1 \in Int /\ Older(t) \in Nat
  BY Numbers DEF ScheduleInv, Older
<1> QED BY <1>1, <1>2 DEF Elapse

LEMMA TaskRunsKeeps == ASSUME ScheduleInv, TaskRuns PROVE ScheduleInv'
<1>1. /\ place = "task" /\ place' = place /\ position' = position /\ Elapse
      /\ spent < MaxDuration /\ spent' = spent + 1 /\ elapsed' = elapsed + 1
  BY DEF TaskRuns
<1>2. /\ TaskCount \in Nat /\ MaxDuration \in Nat /\ Sweep \in Nat
      /\ position \in 1 .. TaskCount + 1 /\ position \in Tasks
      /\ elapsed \in Nat /\ spent \in Nat /\ Before(position) \in Nat
      /\ Before(position) + MaxDuration <= Sweep
      /\ elapsed <= Before(position) + spent
  <2>1. position \in Tasks /\ elapsed <= Before(position) + spent
    BY <1>1 DEF ScheduleInv, Elapsed
  <2>2. position \in 1 .. TaskCount + 1
    BY DEF ScheduleInv, SchedulerTypeOK
  <2> QED BY <2>1, <2>2, Numbers DEF ScheduleInv
<1>3. elapsed' <= Before(position) + spent' /\ spent' <= MaxDuration /\ elapsed' <= Sweep
  BY <1>1, <1>2
<1>4. SchedulerTypeOK'
  <2>1. elapsed' \in 0 .. Sweep /\ spent' \in 0 .. MaxDuration
    BY <1>1, <1>2, <1>3
  <2> QED BY <1>1, <1>2, <2>1, ElapseTypes, Zenon DEF SchedulerTypeOK
<1>5. Elapsed'
  BY <1>1, <1>2, <1>3 DEF Elapsed, Before
<1>6. ASSUME NEW t \in Tasks PROVE Punctual(t)'
  <2>1. due'[t] + elapsed' = due[t] + elapsed
    BY <1>1, <1>6, ElapseFacts
  <2>2. due[t] + elapsed >= -Sweep /\ (t < position => due[t] + elapsed >= 1)
    BY <1>1, <1>6 DEF ScheduleInv, Punctual
  <2> QED BY <1>1, <2>1, <2>2 DEF Punctual, Sweep
<1>7. ASSUME NEW t \in Tasks PROVE Apart(t)'
  <2>1. /\ since[t] = Interval[t]
           \/ IF position = t THEN since[t] >= elapsed - Before(t)
              ELSE since[t] + due[t] >= Interval[t] - Before(t)
    BY <1>1, <1>7 DEF ScheduleInv, Apart
  <2>2. /\ since'[t] <= Interval[t]
        /\ since'[t] = Interval[t]
           \/ IF position = t THEN since'[t] >= elapsed' - Before(t)
              ELSE since'[t] + due'[t] >= Interval[t] - Before(t)
    BY <1>1, <1>7, <2>1, ElapseFacts
  <2> QED BY <1>1, <2>2 DEF Apart, Before
<1> QED BY <1>4, <1>5, <1>6, <1>7 DEF ScheduleInv

LEMMA WakeUpKeeps == ASSUME ScheduleInv, WakeUp PROVE ScheduleInv'
<1>1. /\ place = "sleep" /\ place' \in {"sweep", "off"} /\ position' = 1 /\ Elapse
      /\ elapsed' = 0 /\ spent' = spent
  BY DEF WakeUp
<1>2. /\ TaskCount \in Nat \ {0} /\ MaxDuration \in Nat /\ Sweep \in Nat
      /\ elapsed \in Nat /\ elapsed <= Sweep /\ spent \in 0 .. MaxDuration
      /\ position = TaskCount + 1
  <2>1. spent \in 0 .. MaxDuration /\ SchedulerTypeOK /\ position = TaskCount + 1
    BY <1>1 DEF ScheduleInv, SchedulerTypeOK, Elapsed
  <2> QED BY <2>1, Numbers, ConstantFacts
<1>3. SchedulerTypeOK'
  <2>1. 0 \in 0 .. Sweep /\ 1 \in 1 .. TaskCount + 1
    BY <1>2
  <2> QED BY <1>1, <1>2, <2>1, ElapseTypes, Zenon DEF SchedulerTypeOK
<1>4. Elapsed'
  BY <1>1, <1>2, Durations DEF Elapsed, Tasks
<1>5. ASSUME NEW t \in Tasks PROVE Punctual(t)'
  <2>1. t < position /\ 1 <= t
    BY <1>2, <1>5 DEF Tasks
  <2>2. due[t] + elapsed >= 1
    BY <1>1, <1>5, <2>1 DEF ScheduleInv, Punctual
  <2>3. due'[t] + elapsed' >= -Sweep /\ ~(t < position')
    BY <1>1, <1>2, <1>5, <2>1, <2>2, ElapseFacts
  <2> QED BY <2>3 DEF Punctual, Sweep
<1>6. ASSUME NEW t \in Tasks PROVE Apart(t)'
  <2>1. since[t] = Interval[t] \/ since[t] + due[t] >= Interval[t] - Before(t)
    BY <1>1, <1>6 DEF ScheduleInv, Apart
  <2>2. /\ since'[t] <= Interval[t]
        /\ since'[t] = Interval[t] \/ since'[t] + due'[t] >= Interval[t] - Before(t)
    BY <1>6, <1>1, <2>1, ElapseFacts
  <2> QED BY <1>1, <2>2 DEF Apart, Before
<1> QED BY <1>3, <1>4, <1>5, <1>6 DEF ScheduleInv

LEMMA StopKeeps == ASSUME ScheduleInv, Stop PROVE ScheduleInv'
BY DEF ScheduleInv, Stop, SchedulerTypeOK, Elapsed, Punctual, Apart

LEMMA ScheduleSteps == ScheduleInv /\ [SchedulerNext]_schedulerVars => ScheduleInv'
<1> SUFFICES ASSUME ScheduleInv, [SchedulerNext]_schedulerVars PROVE ScheduleInv'
  OBVIOUS
<1>1. CASE UNCHANGED schedulerVars
  BY <1>1 DEF schedulerVars, ScheduleInv, SchedulerTypeOK, Elapsed, Punctual, Apart
<1> QED
  BY <1>1, RunForeverKeeps, SkipTaskKeeps, StartTaskKeeps, EndTaskKeeps, EndSweepKeeps,
     TaskRunsKeeps, WakeUpKeeps, StopKeeps DEF SchedulerNext, SchedulerStep

\* The inductive invariant: types, and where the clock of a sweep and each task's due time are.
THEOREM ScheduleInvariance == SchedulerSpec => []ScheduleInv
BY ScheduleStarts, ScheduleSteps, PTL DEF SchedulerSpec

\* For any number of tasks, intervals and durations: a task that is started is at most two
\* sweeps late, and was last started its interval ago less what the tasks before it take.
THEOREM NoTaskStarves == SchedulerSpec => ScheduleKept
<1>1. ScheduleInv /\ [SchedulerNext]_schedulerVars =>
          [\A t \in Tasks :
              place = "sweep" /\ place' = "task" /\ position = t =>
                  /\ -due[t] <= Sweep + Before(t)
                  /\ since[t] >= Interval[t] - Before(t)]_schedulerVars
  <2> SUFFICES ASSUME ScheduleInv, [SchedulerNext]_schedulerVars, schedulerVars' # schedulerVars,
                      NEW t \in Tasks, place = "sweep", place' = "task", position = t
               PROVE  -due[t] <= Sweep + Before(t) /\ since[t] >= Interval[t] - Before(t)
    OBVIOUS
  <2>1. StartTask
    BY DEF SchedulerNext, SchedulerStep, SkipTask, StartTask, TaskRuns, EndTask, EndSweep,
           WakeUp, RunForever, Stop
  <2>2. due[t] + elapsed <= 0
    BY <2>1 DEF StartTask, IsDue
  <2>3. elapsed <= Before(t) /\ due[t] + elapsed >= -Sweep
    BY Numbers DEF ScheduleInv, Elapsed, Punctual
  <2>4. since[t] = Interval[t] \/ since[t] + due[t] >= Interval[t] - Before(t)
    BY DEF ScheduleInv, Apart
  <2>5. /\ due[t] \in Int /\ elapsed \in Nat /\ Before(t) \in Nat /\ Sweep \in Nat
        /\ since[t] \in Nat /\ Interval[t] \in Nat
    BY Numbers DEF ScheduleInv
  <2> QED BY <2>2, <2>3, <2>4, <2>5
<1> QED BY <1>1, ScheduleInvariance, PTL DEF SchedulerSpec, ScheduleKept

--------------------------------------------------------------------------------
(* The health rounds *)

CountedRows == [healthy : BOOLEAN, streak : Nat, exists : BOOLEAN]
RoundStates == [at : {"idle", "probed", "recorded"}, up : SUBSET HealthSources,
                rows : [HealthSources -> CountedRows], outdated : BOOLEAN, alone : BOOLEAN]

HealthTyped ==
    /\ round \in [Rounds -> RoundStates]
    /\ latest \in [HealthSources -> CountedRows]
    /\ truth \in [HealthSources -> Nat]

\* The row a round has for a source continues the streak of the latest one.
Follows(s, k) ==
    /\ round[k].rows[s].healthy <=> s \in round[k].up
    /\ round[k].rows[s].streak = IF s \in round[k].up THEN 0 ELSE latest[s].streak + 1

\* A round that has met no other is the only one, and what it has recorded still follows
\* from the latest rows.
Undisturbed(k) ==
    round[k].at # "idle" /\ round[k].alone =>
        /\ \A j \in Rounds \ {k} : round[j].at = "idle"
        /\ ~round[k].outdated
        /\ round[k].at = "recorded" => \A s \in HealthSources : Follows(s, k)

HealthInv == HealthTyped /\ (\A k \in Rounds : Undisturbed(k)) /\ StreakHonest

--------------------------------------------------------------------------------
LEMMA WaitingType == Waiting \in RoundStates /\ Waiting.at = "idle"
BY DEF Waiting, RoundStates, CountedRows, NoHealthRow

LEMMA RoundType ==
    ASSUME HealthTyped, NEW k \in Rounds
    PROVE  /\ round[k] \in RoundStates /\ round[k].up \subseteq HealthSources
           /\ round[k].rows \in [HealthSources -> CountedRows]
           /\ round[k].at \in {"idle", "probed", "recorded"}
           /\ round[k].alone \in BOOLEAN /\ round[k].outdated \in BOOLEAN
BY DEF HealthTyped, RoundStates

LEMMA RowFacts ==
    ASSUME HealthTyped, NEW s \in HealthSources, NEW up
    PROVE  /\ HealthRow(s, s \in up) \in CountedRows
           /\ HealthRow(s, s \in up).healthy <=> s \in up
           /\ HealthRow(s, s \in up).streak = IF s \in up THEN 0 ELSE latest[s].streak + 1
<1>1. latest[s].streak \in Nat
  BY DEF HealthTyped, CountedRows
<1>2. ASSUME NEW b \in BOOLEAN, NEW n \in Nat, NEW h,
             h = [healthy |-> b, exists |-> TRUE, streak |-> n]
      PROVE  h \in CountedRows /\ h.healthy = b /\ h.streak = n
  BY <1>2 DEF CountedRows
<1> DEFINE b == s \in up
           n == IF b THEN 0 ELSE latest[s].streak + 1
           h == HealthRow(s, s \in up)
<1>3. b \in BOOLEAN /\ n \in Nat
  BY <1>1
<1>4. h = [healthy |-> b, exists |-> TRUE, streak |-> n]
  BY Zenon DEF HealthRow
<1>5. b <=> s \in up
  OBVIOUS
<1>6. n = IF s \in up THEN 0 ELSE latest[s].streak + 1
  OBVIOUS
<1> HIDE DEF b, n, h
<1>7. h \in CountedRows /\ h.healthy = b /\ h.streak = n
  BY <1>2, <1>3, <1>4, Zenon
<1> QED BY <1>5, <1>6, <1>7, Zenon DEF h

LEMMA HealthInitKeeps == SourceHealthInit => HealthInv
<1> SUFFICES ASSUME SourceHealthInit PROVE HealthInv
  OBVIOUS
<1>1. HealthTyped
  BY WaitingType DEF SourceHealthInit, HealthTyped, CountedRows, NoHealthRow
<1>2. \A k \in Rounds : Undisturbed(k)
  BY WaitingType DEF SourceHealthInit, Undisturbed
<1>3. StreakHonest
  BY DEF SourceHealthInit, StreakHonest, NoHealthRow
<1> QED BY <1>1, <1>2, <1>3 DEF HealthInv

\* The rounds under way stop being undisturbed when another one begins.
LEMMA ProbeKeeps == ASSUME HealthInv, NEW k \in Rounds, Probe(k) PROVE HealthInv'
<1>1. /\ round[k].at = "idle" /\ latest' = latest /\ truth' = truth /\ muddled' = muddled
      /\ \A j \in Rounds : round[j] \in RoundStates
  BY RoundType DEF Probe, HealthInv
<1>2. PICK up \in SUBSET HealthSources :
         round' = [j \in Rounds |->
                      IF j = k THEN [Waiting EXCEPT !.at = "probed", !.up = up,
                                                    !.alone = Active = {}]
                      ELSE [round[j] EXCEPT !.alone = @ /\ round[j].at = "idle"]]
  BY DEF Probe
<1>3. ASSUME NEW j \in Rounds, j # k
      PROVE  /\ round'[j] \in RoundStates /\ round'[j].at = round[j].at
             /\ round'[j].at # "idle" => ~round'[j].alone
  <2>1. round'[j] = [round[j] EXCEPT !.alone = @ /\ round[j].at = "idle"]
    BY <1>2, <1>3
  <2> QED BY <1>1, <2>1 DEF RoundStates
<1>4. /\ round'[k] \in RoundStates /\ round'[k].at = "probed" /\ ~round'[k].outdated
      /\ round'[k].alone => Active = {}
  <2>1. round'[k] = [Waiting EXCEPT !.at = "probed", !.up = up, !.alone = Active = {}]
    BY <1>2
  <2>2. Waiting \in RoundStates /\ ~Waiting.outdated
    BY WaitingType DEF Waiting
  <2> QED BY <2>1, <2>2 DEF RoundStates
<1>5. HealthTyped'
  <2>1. \A j \in Rounds : round'[j] \in RoundStates
    BY <1>3, <1>4
  <2>2. round' = [j \in Rounds |-> round'[j]]
    BY <1>2
  <2> QED BY <1>1, <2>1, <2>2 DEF HealthInv, HealthTyped
<1>6. ASSUME NEW j \in Rounds PROVE Undisturbed(j)'
  BY <1>3, <1>4 DEF Undisturbed, Active
<1>7. StreakHonest'
  BY <1>1 DEF HealthInv, StreakHonest
<1> QED BY <1>5, <1>6, <1>7 DEF HealthInv

LEMMA RecordKeeps == ASSUME HealthInv, NEW k \in Rounds, Record(k) PROVE HealthInv'
<1> DEFINE rows == [s \in HealthSources |-> HealthRow(s, s \in round[k].up)]
<1>1. /\ round[k].at = "probed" /\ latest' = latest /\ truth' = truth /\ muddled' = muddled
      /\ round' = [round EXCEPT ![k].at = "recorded", ![k].rows = rows]
  BY DEF Record
<1>2. rows \in [HealthSources -> CountedRows]
      /\ \A s \in HealthSources :
            /\ rows[s].healthy <=> s \in round[k].up
            /\ rows[s].streak = IF s \in round[k].up THEN 0 ELSE latest[s].streak + 1
  <2>1. \A s \in HealthSources : HealthRow(s, s \in round[k].up) \in CountedRows
    BY RowFacts DEF HealthInv
  <2>2. \A s \in HealthSources : rows[s] = HealthRow(s, s \in round[k].up)
    OBVIOUS
  <2>3. rows \in [HealthSources -> CountedRows]
    BY <2>1
  <2> QED BY <2>2, <2>3, RowFacts DEF HealthInv
<1> HIDE DEF rows
<1>4. /\ round' \in [Rounds -> RoundStates] /\ round'[k].up = round[k].up
      /\ round'[k].at = "recorded" /\ round'[k].rows = rows
      /\ round'[k].alone = round[k].alone /\ round'[k].outdated = round[k].outdated
      /\ \A j \in Rounds : j # k => round'[j] = round[j]
  BY <1>1, <1>2 DEF HealthInv, HealthTyped, RoundStates
<1>5. HealthTyped'
  BY <1>1, <1>4 DEF HealthInv, HealthTyped
<1>6. Undisturbed(k)'
  <2>1. \A s \in HealthSources : Follows(s, k)'
    BY <1>1, <1>2, <1>4 DEF Follows
  <2> QED BY <1>1, <1>4, <2>1 DEF HealthInv, Undisturbed
<1>7. ASSUME NEW j \in Rounds, j # k PROVE Undisturbed(j)'
  BY <1>1, <1>4, <1>7 DEF HealthInv, Undisturbed, Follows
<1>8. StreakHonest'
  BY <1>1 DEF HealthInv, StreakHonest
<1> QED BY <1>5, <1>6, <1>7, <1>8 DEF HealthInv

\* A round that met no other counts on from the rows it continues; any other muddles all.
LEMMA CommitKeeps == ASSUME HealthInv, NEW k \in Rounds, CommitRound(k) PROVE HealthInv'
<1> DEFINE w == round[k]
           earlier == {order[i] : i \in {j \in DOMAIN order :
                                            \E n \in j + 1 .. Len(order) : order[n] = k}}
<1>1. /\ w.at = "recorded"
      /\ latest' = IF w.outdated THEN latest ELSE w.rows
      /\ truth' = [s \in HealthSources |-> IF s \in w.up THEN 0 ELSE truth[s] + 1]
      /\ muddled' = IF w.alone THEN muddled \ w.up ELSE HealthSources
      /\ round' = [j \in Rounds |->
                      IF j = k THEN Waiting
                      ELSE [round[j] EXCEPT !.outdated = @ \/ j \in earlier]]
  BY DEF CommitRound
<1>2. /\ w.rows \in [HealthSources -> CountedRows] /\ w.up \subseteq HealthSources
      /\ latest \in [HealthSources -> CountedRows] /\ truth \in [HealthSources -> Nat]
  BY RoundType DEF HealthInv, HealthTyped
<1> HIDE DEF earlier
<1>3. ASSUME NEW j \in Rounds, j # k
      PROVE  /\ round'[j] \in RoundStates
             /\ round'[j].at = round[j].at /\ round'[j].alone = round[j].alone
  <2>1. round[j] \in RoundStates
    BY RoundType DEF HealthInv
  <2>2. round'[j] = [round[j] EXCEPT !.outdated = @ \/ j \in earlier]
    BY <1>1, <1>3
  <2> QED BY <2>1, <2>2 DEF RoundStates
<1>4. round'[k] = Waiting
  BY <1>1
<1>5. HealthTyped'
  <2>1. \A j \in Rounds : round'[j] \in RoundStates
    BY <1>3, <1>4, WaitingType
  <2>2. round' = [j \in Rounds |-> round'[j]]
    BY <1>1
  <2>3. latest' \in [HealthSources -> CountedRows] /\ truth' \in [HealthSources -> Nat]
    BY <1>1, <1>2
  <2> QED BY <2>1, <2>2, <2>3 DEF HealthTyped
<1>6. ASSUME NEW j \in Rounds PROVE Undisturbed(j)'
  <2>1. CASE j = k
    BY <1>4, <2>1, WaitingType DEF Undisturbed
  <2>2. CASE j # k
    <3>1. ~(round[j].at # "idle" /\ round[j].alone)
      BY <1>1, <2>2 DEF HealthInv, Undisturbed
    <3> QED BY <1>3, <2>2, <3>1 DEF Undisturbed
  <2> QED BY <2>1, <2>2
<1>7. StreakHonest'
  <2> SUFFICES ASSUME NEW s \in HealthSources \ muddled'
               PROVE  latest'[s].streak = truth'[s] /\ latest'[s].healthy = (truth'[s] = 0)
    BY DEF StreakHonest
  <2>1. w.alone /\ (s \in w.up \/ s \notin muddled)
    BY <1>1
  <2>2. ~w.outdated /\ Follows(s, k)
    BY <1>1, <2>1 DEF HealthInv, Undisturbed
  <2>3. /\ latest'[s].healthy \in BOOLEAN
        /\ latest'[s].healthy <=> s \in w.up
        /\ latest'[s].streak = IF s \in w.up THEN 0 ELSE latest[s].streak + 1
    <3>1. latest'[s] = w.rows[s] /\ latest'[s] \in CountedRows
      BY <1>1, <1>2, <2>2
    <3> QED BY <2>2, <3>1 DEF Follows, CountedRows
  <2>4. CASE s \in w.up
    <3>1. truth'[s] = 0
      BY <1>1, <2>4
    <3> QED BY <2>3, <2>4, <3>1
  <2>5. CASE s \notin w.up
    <3>1. latest[s].streak = truth[s] /\ truth[s] \in Nat
      BY <1>2, <2>1, <2>5 DEF HealthInv, StreakHonest
    <3>2. truth'[s] = truth[s] + 1
      BY <1>1, <2>5
    <3>3. latest'[s].streak = latest[s].streak + 1
      BY <2>3, <2>5
    <3>4. latest'[s].healthy = FALSE
      BY <2>3, <2>5, Zenon
    <3>5. truth'[s] # 0 /\ latest'[s].streak = truth'[s]
      BY <3>1, <3>2, <3>3
    <3> QED BY <3>4, <3>5, Zenon
  <2> QED BY <2>4, <2>5
<1> QED BY <1>5, <1>6, <1>7 DEF HealthInv

LEMMA LoseKeeps == ASSUME HealthInv, NEW k \in Rounds, LoseRound(k) PROVE HealthInv'
<1>1. /\ round' = [round EXCEPT ![k] = Waiting]
      /\ latest' = latest /\ truth' = truth /\ muddled' = muddled
  BY DEF LoseRound
<1>2. /\ round' \in [Rounds -> RoundStates] /\ round'[k].at = "idle"
      /\ \A j \in Rounds : j # k => round'[j] = round[j]
  BY <1>1, WaitingType DEF HealthInv, HealthTyped
<1>3. HealthTyped'
  BY <1>1, <1>2 DEF HealthInv, HealthTyped
<1>4. ASSUME NEW j \in Rounds PROVE Undisturbed(j)'
  <2>1. CASE j = k
    BY <1>2, <2>1 DEF Undisturbed
  <2>2. CASE j # k
    BY <1>1, <1>2, <2>2 DEF HealthInv, Undisturbed, Follows
  <2> QED BY <2>1, <2>2
<1>5. StreakHonest'
  BY <1>1 DEF HealthInv, StreakHonest
<1> QED BY <1>3, <1>4, <1>5 DEF HealthInv

LEMMA HealthStepKeeps == HealthInv /\ [SourceHealthNext]_healthVars => HealthInv'
<1> SUFFICES ASSUME HealthInv, [SourceHealthNext]_healthVars PROVE HealthInv'
  OBVIOUS
<1>1. CASE UNCHANGED healthVars
  BY <1>1 DEF healthVars, HealthInv, HealthTyped, Undisturbed, Follows, StreakHonest
<1>2. CASE SourceHealthNext
  BY <1>2, ProbeKeeps, RecordKeeps, CommitKeeps, LoseKeeps DEF SourceHealthNext
<1> QED BY <1>1, <1>2

\* For any number of sources and rounds: but for sources that rounds side by side have left
\* in doubt, the latest row counts exactly the failures since the source was last up.
THEOREM StreaksAreTrue == SourceHealthSpec => []StreakHonest
<1>1. HealthInv => StreakHonest
  BY DEF HealthInv
<1> QED BY <1>1, HealthInitKeeps, HealthStepKeeps, PTL DEF SourceHealthSpec

================================================================================
