-------------------------------- MODULE FmhyPage -------------------------------
(***************************************************************************)
(* How connectors/fmhy/connector.py reads its page: a parser that is told  *)
(* of tags and text one at a time, and of no tree, collects the outermost  *)
(* list entries with the platform zone of the headings above them; each is *)
(* then resolved into a name, a link and a platform.                       *)
(*                                                                         *)
(* A page is a sequence of headings and entries; an entry has parts, and   *)
(* may have a list of its own.  A text is a name, "ornament" (cleaning     *)
(* leaves nothing of it) or "picture" (no text).  Descriptions are left    *)
(* out.                                                                    *)
(***************************************************************************)
EXTENDS Integers, SequencesExt

CONSTANTS
    Pages,      \* what upstream may answer
    WebLinks,   \* addresses that are absolute
    StoreOf     \* and those of a store, with its platform

VARIABLES
    page,       \* the page
    read,       \* whether it has been read
    listing     \* the entries made of it

pageVars == <<page, read, listing>>

NoZone == "none"
Clean(text) == IF text \in {"ornament", "picture"} THEN "" ELSE text

--------------------------------------------------------------------------------
(* The tags of a page, in its order *)

Tag(t, v) == [tag |-> t, value |-> v]
Wrapped(t, v, inner) == <<Tag(t, v)>> \o inner \o <<Tag("/" \o t, v)>>
Words(text) == IF text = "picture" THEN <<>> ELSE <<Tag("text", text)>>

PartTags(p) ==
    CASE p.shape = "text"       -> Words(p.text)
      [] p.shape = "link"       -> Wrapped("a", p.url, Words(p.text))
      [] p.shape = "strong"     -> Wrapped("strong", "", Words(p.text))
      [] p.shape = "stronglink" -> Wrapped("strong", "", Wrapped("a", p.url, Words(p.text)))
      [] p.shape = "linkstrong" -> Wrapped("a", p.url, Wrapped("strong", "", Words(p.text)))
PartsTags(parts) == FlattenSeq([i \in DOMAIN parts |-> PartTags(parts[i])])

BlockTags(b) ==
    IF b.block = "heading" THEN Wrapped("h", b.level, <<Tag("text", b.title)>>)
    ELSE Wrapped("li", "", PartsTags(b.parts)
                           \o IF b.inner = <<>> THEN <<>> ELSE Wrapped("li", "", PartsTags(b.inner)))
PageTags(blocks) == FlattenSeq([i \in DOMAIN blocks |-> BlockTags(blocks[i])])

--------------------------------------------------------------------------------
(* The parser *)

NoEntry == [zone |-> NoZone, anchors |-> <<>>, strong |-> <<>>, before |-> 0, saw |-> FALSE,
            inStrong |-> FALSE, open |-> FALSE]
Parser  == [zone |-> NoZone, entries |-> <<>>, entry |-> NoEntry, level |-> 0, title |-> "",
            depth |-> 0, href |-> "", anchor |-> "picture", inAnchor |-> FALSE, part |-> "picture"]

ZoneOf(title) == IF title \in {"android", "both"} THEN "android"
                 ELSE IF title = "ios" THEN "ios" ELSE NoZone

\* Mutant: every heading sets the zone, that of a subsection too
ZoneLevel_All == 6
ZoneLevel == 2

StartTag(s, t) ==
    CASE t.tag = "h" -> [s EXCEPT !.level = t.value, !.title = ""]
      [] t.tag = "li" /\ s.zone = NoZone -> s
      [] t.tag = "li" /\ s.zone # NoZone ->
            [s EXCEPT !.depth = @ + 1,
                      !.entry = IF s.depth = 0 THEN [NoEntry EXCEPT !.zone = s.zone, !.open = TRUE] ELSE @]
      [] t.tag = "a" /\ s.entry.open /\ t.value # "" ->
            [s EXCEPT !.inAnchor = TRUE, !.href = t.value, !.anchor = "picture"]
      [] t.tag = "strong" /\ s.entry.open ->
            [s EXCEPT !.part = "picture", !.entry.inStrong = TRUE, !.entry.saw = TRUE,
                      !.entry.before = IF s.entry.saw THEN @ ELSE Len(s.entry.anchors)]
      [] OTHER -> s

\* Mutant: a list within an entry ends it
Closes_Inner(s) == TRUE
Closes(s) == s.depth = 1

EndTag(s, t) ==
    CASE t.tag = "/h" ->
            [s EXCEPT !.level = 0,
                      !.zone = IF s.level \in 1 .. ZoneLevel /\ ZoneOf(s.title) # NoZone
                               THEN ZoneOf(s.title) ELSE @]
      [] t.tag = "/li" /\ s.entry.open ->
            IF Closes(s) THEN [s EXCEPT !.depth = s.depth - 1, !.entry = NoEntry,
                                        !.entries = Append(@, s.entry)]
            ELSE [s EXCEPT !.depth = @ - 1]
      [] t.tag = "/a" /\ s.entry.open /\ s.inAnchor ->
            [s EXCEPT !.inAnchor = FALSE,
                      !.entry.anchors = Append(@, [url |-> s.href, text |-> s.anchor,
                                                   strong |-> s.entry.inStrong])]
      [] t.tag = "/strong" /\ s.entry.inStrong ->
            [s EXCEPT !.entry.inStrong = FALSE, !.entry.strong = Append(@, s.part)]
      [] OTHER -> s

Data(s, t) ==
    IF s.level > 0 THEN [s EXCEPT !.title = t.value]
    ELSE IF ~s.entry.open THEN s
    ELSE [s EXCEPT !.anchor = IF s.inAnchor THEN t.value ELSE @,
                   !.part   = IF s.entry.inStrong THEN t.value ELSE @]

Handle(s, t) == CASE t.tag = "text" -> Data(s, t)
                  [] t.tag \in {"h", "li", "a", "strong"} -> StartTag(s, t)
                  [] OTHER -> EndTag(s, t)

ParsedEntries(blocks) == FoldLeft(Handle, Parser, PageTags(blocks)).entries

--------------------------------------------------------------------------------
(* The entries *)

Unresolved == [name |-> "", url |-> "", platform |-> NoZone]

\* _resolve_entry
\* Mutant: any emphasis is the label, a note after the links too
StrongIsLabel_Any(entry) == entry.strong # <<>>
StrongIsLabel(entry) == entry.strong # <<>> /\ entry.before = 0

Resolved(entry) ==
    LET links      == SelectSeq(entry.anchors, LAMBDA a : a.text # "picture")
        emphasized == SelectSeq(entry.anchors, LAMBDA a : a.strong)
        first      == IF links = <<>> THEN [url |-> "", text |-> "picture"] ELSE links[1]
        label      == Clean(IF StrongIsLabel(entry) THEN entry.strong[1] ELSE first.text)
        url        == IF StrongIsLabel(entry) /\ emphasized # <<>> THEN emphasized[1].url ELSE first.url
    IN  IF label = "" \/ url \notin WebLinks THEN Unresolved
        ELSE [name |-> label, url |-> url,
              platform |-> IF url \in DOMAIN StoreOf THEN StoreOf[url] ELSE entry.zone]

\* The first of those of the same name and address
Same(x, y) == x.name = y.name /\ x.url = y.url
Deduplicated(found) ==
    FoldLeft(LAMBDA kept, e : IF e = Unresolved \/ \E i \in DOMAIN kept : Same(kept[i], e)
                              THEN kept ELSE Append(kept, e), <<>>, found)

PageEntries(blocks) == LET found == ParsedEntries(blocks)
                   IN  Deduplicated([i \in DOMAIN found |-> Resolved(found[i])])

PageInit == page \in Pages /\ read = FALSE /\ listing = <<>>

\* The page is fetched and parsed once for an initialized connector
ReadPage == /\ ~read /\ read' = TRUE /\ listing' = PageEntries(page)
            /\ UNCHANGED page

PageNext == ReadPage
PageSpec == PageInit /\ [][PageNext]_pageVars

--------------------------------------------------------------------------------
(* Properties *)

PageTypeOK == \A i \in DOMAIN listing : /\ listing[i].platform \in {"android", "ios"}
                                        /\ listing[i].url \in WebLinks

\* What the module's own description makes of a page, from its tree
ZoneAt(blocks, i) ==
    LET named == {k \in 1 .. i : /\ blocks[k].block = "heading" /\ blocks[k].level <= 2
                                 /\ blocks[k].title \in {"android", "ios", "both"}}
    IN  IF named = {} THEN NoZone ELSE ZoneOf(blocks[Max(named)].title)
PartsOf(b)  == b.parts \o b.inner
Strongs(ps) == SelectSeq(ps, LAMBDA p : p.shape \in {"strong", "stronglink", "linkstrong"})
Linked(ps)  == SelectSeq(ps, LAMBDA p : p.shape \in {"link", "stronglink", "linkstrong"} /\ p.url # "")
Marked(ps)  == SelectSeq(ps, LAMBDA p : p.shape \in {"strong", "stronglink", "linkstrong"} \/ p.url # "")
Described(b, zone) ==
    LET ps    == PartsOf(b)
        led   == Strongs(ps) # <<>> /\ Strongs(ps)[1] = Marked(ps)[1]
        texts == SelectSeq(Linked(ps), LAMBDA p : p.text # "picture")
        noted == SelectSeq(Linked(ps), LAMBDA p : p.shape = "stronglink")
        source == IF led /\ noted # <<>> THEN noted[1] ELSE IF texts # <<>> THEN texts[1] ELSE [url |-> ""]
        name  == IF led THEN Clean(Strongs(ps)[1].text) ELSE IF texts # <<>> THEN Clean(texts[1].text) ELSE ""
    IN  IF zone = NoZone \/ name = "" \/ source.url \notin WebLinks THEN Unresolved
        ELSE [name |-> name, url |-> source.url,
              platform |-> IF source.url \in DOMAIN StoreOf THEN StoreOf[source.url] ELSE zone]

\* A page is read as its tree is: an entry of the outermost list under each platform's headings
\* gives one record, with its emphasized label or its first link, the address of a link in
\* emphasis or the first one, and the platform of a store or else of the section; the first of
\* the same name and address stays (connectors/fmhy/connector.py, the module's description)
PageHonest ==
    read =>
        LET items == SelectSeq([i \in DOMAIN page |-> <<page[i], ZoneAt(page, i)>>],
                               LAMBDA x : x[1].block = "entry")
        IN  listing = Deduplicated([i \in DOMAIN items |-> Described(items[i][1], items[i][2])])
================================================================================
