---------------------------- MODULE RecordProofs -----------------------------
(***************************************************************************)
(* Theorems about the catalogue's records: the rows of passes              *)
(* (CatalogueRows), for any listings and names; verdicts on assets         *)
(* (AssetValidation), for any number of validators, files and checks;      *)
(* edges, documents and profiles (DerivedData), for any applications,      *)
(* looks, sessions and limits; and lists of releases (GitHubListing), for  *)
(* any sizes of a page and of the cache, and however long answers are kept.*)
(***************************************************************************)
EXTENDS CatalogueRows, AssetValidation, DerivedData, GitHubListing, FiniteSetTheorems,
        SequenceTheorems, TLAPS

--------------------------------------------------------------------------------
(* The rows of a pass *)

\* Functions of some members of A
Partly(A, B) == UNION {[S -> B] : S \in SUBSET A}

Repositories == Sources \cup AppsBefore
RowNames     == RowsBefore \cup UNION {Wanted(r) : r \in Repositories}
FieldNames   == UNION {Fields[r] : r \in Repositories}
PassStates   == [at : {"next", "platforms", "synced"}, repo : Sources \cup {NoListing},
                 done : SUBSET Sources, left : SUBSET RowNames, flush : SUBSET RowNames,
                 inserted : SUBSET RowNames, joined : Partly(Sources, SUBSET RowNames),
                 filled : Partly(Sources, SUBSET FieldNames)]

\* A pass has been through the first k repositories of its listing.
FirstOf(p, k) == {Listing[p][i] : i \in 1 .. k}
AtPlace(p, s, k) ==
    /\ s.done = FirstOf(p, k)
    /\ s.at = "platforms" => k < Len(Listing[p]) /\ s.repo = Listing[p][k + 1]

\* What the repository's application needs is there, about to be inserted, or to be taken.
Gathered(s) ==
    /\ s.at # "platforms" => s.left = {} /\ s.flush = {}
    /\ s.at = "platforms" => Wanted(s.repo) \subseteq DOMAIN shared_rows \cup s.inserted \cup s.flush \cup s.left

\* What is to be inserted was not there when it was looked for: another pass has committed it.
FlushHonest(p, s) ==
    \A n \in s.flush : n \in DOMAIN shared_rows => shared_rows[n] \in RowPasses \ {p}

\* What a pass will commit keeps AppsWhole and RicherKept.
SessionHonest(p, s) ==
    /\ s.inserted \cap DOMAIN shared_rows = {}
    /\ DOMAIN s.joined \subseteq s.done
    /\ \A r \in DOMAIN s.joined : /\ Wanted(r) \subseteq s.joined[r]
                                  /\ s.joined[r] \subseteq DOMAIN shared_rows \cup s.inserted
    /\ DOMAIN s.filled \subseteq RepositoriesOf(p)
    /\ \A r \in DOMAIN s.filled : r \in DOMAIN richest => richest[r] \ {"contributors"} \subseteq s.filled[r]

PassHonest(p, s) ==
    /\ \E k \in 0 .. Len(Listing[p]) : AtPlace(p, s, k)
    /\ Gathered(s) /\ FlushHonest(p, s) /\ SessionHonest(p, s)

\* A failure stays explained, since committed rows stay.
Explained(f) ==
    f.cause = "conflict" =>
        \A n \in f.names : n \in DOMAIN shared_rows /\ shared_rows[n] \in RowPasses \ {f.pass}

RowsTyped ==
    /\ DOMAIN shared_rows \subseteq RowNames
    /\ DOMAIN richest = DOMAIN fields /\ \A r \in DOMAIN fields : fields[r] \subseteq FieldNames
    /\ pass \in [RowPasses -> PassStates]

RowsInv ==
    /\ RowsTyped
    /\ AppsWhole /\ RicherKept
    /\ \A p, q \in RowPasses : p # q => pass[p].inserted \cap pass[q].inserted = {}
    /\ \A p \in RowPasses : PassHonest(p, pass[p])
    /\ \A f \in failures : Explained(f)
--------------------------------------------------------------------------------
(* Functions that are known in part *)

LEMMA PartlyFacts ==
    ASSUME NEW A, NEW B, NEW f
    PROVE  f \in Partly(A, B) <=> DOMAIN f \subseteq A /\ f \in [DOMAIN f -> B]
BY DEF Partly

LEMMA UpdFacts ==
    ASSUME NEW f, NEW g
    PROVE  /\ DOMAIN Upd(f, g) = DOMAIN f \cup DOMAIN g
           /\ \A x \in DOMAIN g : Upd(f, g)[x] = g[x]
           /\ \A x \in DOMAIN f \ DOMAIN g : Upd(f, g)[x] = f[x]
BY DEF Upd

LEMMA UpdPartly ==
    ASSUME NEW A, NEW B, NEW f \in Partly(A, B), NEW g \in Partly(A, B)
    PROVE  Upd(f, g) \in Partly(A, B)
<1>1. /\ DOMAIN f \subseteq A /\ f \in [DOMAIN f -> B]
      /\ DOMAIN g \subseteq A /\ g \in [DOMAIN g -> B]
  BY PartlyFacts
<1>2. DOMAIN Upd(f, g) \subseteq A
  BY <1>1, UpdFacts
<1>3. Upd(f, g) \in [DOMAIN Upd(f, g) -> B]
  BY <1>1 DEF Upd
<1> QED BY <1>2, <1>3, PartlyFacts

LEMMA ConstantPartly ==
    ASSUME NEW A, NEW B, NEW S \in SUBSET A, NEW b \in B
    PROVE  [x \in S |-> b] \in Partly(A, B)
<1> DEFINE f == [x \in S |-> b]
<1>1. DOMAIN f = S /\ f \in [S -> B]
  OBVIOUS
<1> HIDE DEF f
<1>2. f \in Partly(A, B)
  BY <1>1, PartlyFacts
<1> QED BY <1>2 DEF f

LEMMA NoneFacts ==
    ASSUME NEW A, NEW B
    PROVE  None \in Partly(A, B) /\ DOMAIN None = {}
<1>1. DOMAIN None = {} /\ None \in [{} -> B]
  BY DEF None
<1> QED BY <1>1, PartlyFacts

--------------------------------------------------------------------------------
(* Where a pass is in its listing *)

LEMMA FirstCount ==
    ASSUME NEW p \in RowPasses, NEW k \in 0 .. Len(Listing[p])
    PROVE  Cardinality(FirstOf(p, k)) = k
<1> DEFINE f == [i \in 1 .. k |-> Listing[p][i]]
<1>1. /\ Listing[p] \in Seq(RepositoriesOf(p)) /\ Len(Listing[p]) \in Nat /\ k \in Nat
      /\ DOMAIN Listing[p] = 1 .. Len(Listing[p]) /\ 1 .. k \subseteq DOMAIN Listing[p]
  BY RowsAssumption
<1>2. f \in Surjection(1 .. k, FirstOf(p, k))
  BY DEF Surjection, FirstOf
<1>3. f \in Injection(1 .. k, FirstOf(p, k))
  <2>1. f \in [1 .. k -> FirstOf(p, k)]
    BY DEF FirstOf
  <2>2. \A i, j \in 1 .. k : f[i] = f[j] => i = j
    BY <1>1, RowsAssumption
  <2>3. DOMAIN f = 1 .. k
    OBVIOUS
  <2> HIDE DEF f
  <2> QED BY <2>1, <2>2, <2>3 DEF Injection, IsInjective
<1>4. IsFiniteSet(1 .. k) /\ Cardinality(1 .. k) = k
  BY <1>1, FS_Interval
<1> HIDE DEF f
<1> QED BY <1>2, <1>3, <1>4, FS_Surjection

LEMMA FirstFacts ==
    ASSUME NEW p \in RowPasses, NEW k \in 0 .. Len(Listing[p])
    PROVE  /\ FirstOf(p, k) \subseteq RepositoriesOf(p)
           /\ k < Len(Listing[p]) =>
                 /\ Listing[p][k + 1] \in RepositoriesOf(p) \ FirstOf(p, k)
                 /\ k + 1 \in 0 .. Len(Listing[p])
                 /\ FirstOf(p, k) \cup {Listing[p][k + 1]} = FirstOf(p, k + 1)
           /\ FirstOf(p, k) # RepositoriesOf(p) => k < Len(Listing[p])
<1>1. /\ Listing[p] \in Seq(RepositoriesOf(p)) /\ Len(Listing[p]) \in Nat /\ k \in Nat
      /\ DOMAIN Listing[p] = 1 .. Len(Listing[p])
  BY RowsAssumption
<1>2. FirstOf(p, k) \subseteq RepositoriesOf(p)
  BY <1>1, SMTT(30) DEF FirstOf, RepositoriesOf
<1>3. ASSUME k < Len(Listing[p])
      PROVE  /\ Listing[p][k + 1] \in RepositoriesOf(p) \ FirstOf(p, k)
             /\ k + 1 \in 0 .. Len(Listing[p])
             /\ FirstOf(p, k) \cup {Listing[p][k + 1]} = FirstOf(p, k + 1)
  <2>1. k + 1 \in DOMAIN Listing[p] /\ k + 1 \in 0 .. Len(Listing[p])
    BY <1>1, <1>3
  <2>2. Listing[p][k + 1] \in RepositoriesOf(p)
    BY <2>1 DEF RepositoriesOf
  <2>3. \A i \in 1 .. k : i \in DOMAIN Listing[p] /\ i # k + 1
    BY <1>1, <1>3
  <2>4. Listing[p][k + 1] \notin FirstOf(p, k)
    BY <2>1, <2>3, RowsAssumption DEF FirstOf
  <2>5. 1 .. k + 1 = (1 .. k) \cup {k + 1}
    BY <1>1
  <2>6. FirstOf(p, k) \cup {Listing[p][k + 1]} = FirstOf(p, k + 1)
    BY <2>5 DEF FirstOf
  <2> QED BY <2>1, <2>2, <2>4, <2>6
<1>4. ASSUME ~(k < Len(Listing[p])) PROVE FirstOf(p, k) = RepositoriesOf(p)
  <2>1. k = Len(Listing[p])
    BY <1>1, <1>4
  <2> QED BY <1>1, <2>1 DEF FirstOf, RepositoriesOf
<1> QED BY <1>2, <1>3, <1>4

LEMMA NextInListing ==
    ASSUME RowsInv, NEW p \in RowPasses, pass[p].at = "next", pass[p].done # RepositoriesOf(p)
    PROVE  /\ Upcoming(p) \in RepositoriesOf(p) \ pass[p].done
           /\ \E k \in 0 .. Len(Listing[p]) : /\ pass[p].done = FirstOf(p, k) /\ k < Len(Listing[p])
                                              /\ Upcoming(p) = Listing[p][k + 1]
<1>1. PICK k \in 0 .. Len(Listing[p]) : pass[p].done = FirstOf(p, k)
  BY DEF RowsInv, PassHonest, AtPlace
<1>2. Cardinality(pass[p].done) = k
  BY <1>1, FirstCount
<1>3. Upcoming(p) = Listing[p][k + 1]
  BY <1>2 DEF Upcoming
<1> QED BY <1>1, <1>3, FirstFacts

\* The repository a pass is at, and what it has been through once it is done with it
LEMMA AtRepository ==
    ASSUME RowsInv, NEW p \in RowPasses, pass[p].at = "platforms"
    PROVE  /\ pass[p].repo \in RepositoriesOf(p) \ pass[p].done
           /\ pass[p].done \subseteq RepositoriesOf(p)
           /\ \E k \in 0 .. Len(Listing[p]) : pass[p].done \cup {pass[p].repo} = FirstOf(p, k)
<1>1. PICK k \in 0 .. Len(Listing[p]) : AtPlace(p, pass[p], k)
  BY DEF RowsInv, PassHonest
<1> QED BY <1>1, FirstFacts, ZenonT(40) DEF AtPlace

LEMMA NamesKnown ==
    ASSUME NEW p \in RowPasses, NEW r \in RepositoriesOf(p)
    PROVE  r \in Sources /\ Wanted(r) \subseteq RowNames /\ Fields[r] \subseteq FieldNames
BY DEF Sources, Repositories, RowNames, FieldNames

LEMMA SourcesApart ==
    ASSUME NEW p \in RowPasses, NEW q \in RowPasses, NEW r \in RepositoriesOf(p),
           r \in RepositoriesOf(q)
    PROVE  p = q
BY RowsAssumption

LEMMA PassFacts ==
    ASSUME RowsInv, NEW p \in RowPasses
    PROVE  /\ pass[p] \in PassStates /\ PassHonest(p, pass[p])
           /\ Gathered(pass[p]) /\ FlushHonest(p, pass[p]) /\ SessionHonest(p, pass[p])
           /\ pass[p].done \subseteq RepositoriesOf(p)
           /\ DOMAIN pass[p].joined \subseteq RepositoriesOf(p)
<1>1. PICK k \in 0 .. Len(Listing[p]) : AtPlace(p, pass[p], k)
  BY DEF RowsInv, PassHonest
<1>2. pass[p].done \subseteq RepositoriesOf(p)
  BY <1>1, FirstFacts DEF AtPlace
<1> QED BY <1>2 DEF RowsInv, RowsTyped, PassHonest, SessionHonest

LEMMA BetweenFacts ==
    /\ Between \in PassStates /\ Between.at = "next" /\ Between.done = {} /\ Between.left = {}
    /\ Between.flush = {} /\ Between.inserted = {} /\ DOMAIN Between.joined = {}
    /\ DOMAIN Between.filled = {}
BY NoneFacts DEF Between, PassStates

\* A pass that has nothing in its transaction
LEMMA EmptyHanded ==
    ASSUME NEW p \in RowPasses, NEW s, s.at = "next", s.left = {}, s.flush = {}, s.inserted = {},
           DOMAIN s.joined = {}, DOMAIN s.filled = {},
           \E k \in 0 .. Len(Listing[p]) : s.done = FirstOf(p, k)
    PROVE  PassHonest(p, s)
<1>1. \E k \in 0 .. Len(Listing[p]) : AtPlace(p, s, k)
  BY DEF AtPlace
<1> QED BY <1>1 DEF PassHonest, Gathered, FlushHonest, SessionHonest

LEMMA NothingDone ==
    ASSUME NEW p \in RowPasses
    PROVE  \E k \in 0 .. Len(Listing[p]) : Between.done = FirstOf(p, k)
<1>1. 0 \in 0 .. Len(Listing[p])
  BY RowsAssumption
<1>2. FirstOf(p, 0) = {}
  BY DEF FirstOf
<1> QED BY <1>1, <1>2, BetweenFacts

LEMMA RowsStart == RowsInit => RowsInv
<1> SUFFICES ASSUME RowsInit PROVE RowsInv
  OBVIOUS
<1>1. /\ DOMAIN shared_rows = RowsBefore /\ DOMAIN apps = AppsBefore /\ DOMAIN fields = AppsBefore
      /\ \A r \in AppsBefore : apps[r] = Wanted(r) /\ fields[r] = Fields[r]
      /\ richest = fields /\ failures = {} /\ pass = [p \in RowPasses |-> Between]
  BY DEF RowsInit
<1>2. RowsTyped
  BY <1>1, BetweenFacts DEF RowsTyped, RowNames, FieldNames, Repositories
<1>3. AppsWhole /\ RicherKept
  BY <1>1, RowsAssumption DEF AppsWhole, RicherKept
<1>4. \A p \in RowPasses : PassHonest(p, Between)
  BY BetweenFacts, NothingDone, EmptyHanded
<1> QED BY <1>1, <1>2, <1>3, <1>4, BetweenFacts DEF RowsInv

\* A pass goes on and commits nothing.
LEMMA PassMoves ==
    ASSUME RowsInv, NEW p \in RowPasses, NEW to \in PassStates, Become(p, to), UNCHANGED database,
           PassHonest(p, to), \A f \in failures' : Explained(f),
           \A q \in RowPasses \ {p} : to.inserted \cap pass[q].inserted = {}
    PROVE  RowsInv'
<1>1. /\ pass' = [pass EXCEPT ![p] = to]
      /\ UNCHANGED <<shared_rows, apps, fields, richest>>
  BY DEF Become, database
<1>2. pass'[p] = to /\ \A q \in RowPasses \ {p} : pass'[q] = pass[q]
  BY <1>1 DEF RowsInv, RowsTyped
<1>3. RowsTyped' /\ AppsWhole' /\ RicherKept'
  BY <1>1 DEF RowsInv, RowsTyped, AppsWhole, RicherKept
<1>4. ASSUME NEW q \in RowPasses PROVE PassHonest(q, pass[q])'
  <2>1. PassHonest(q, pass'[q])
    BY <1>2 DEF RowsInv
  <2> QED BY <1>1, <2>1 DEF PassHonest, AtPlace, Gathered, FlushHonest, SessionHonest
<1>5. ASSUME NEW q \in RowPasses, NEW s \in RowPasses, q # s
      PROVE  pass'[q].inserted \cap pass'[s].inserted = {}
  BY <1>2, <1>5 DEF RowsInv
<1>6. \A f \in failures' : Explained(f)'
  BY <1>1 DEF Explained
<1> QED BY <1>3, <1>4, <1>5, <1>6 DEF RowsInv

\* What a pass has committed, and what it leaves of its transaction
LEMMA CommitFacts ==
    ASSUME RowsInv, NEW p \in RowPasses, NEW to, CommitRows(p, to)
    PROVE  /\ DOMAIN shared_rows' = DOMAIN shared_rows \cup pass[p].inserted
           /\ \A n \in DOMAIN shared_rows : shared_rows'[n] = shared_rows[n]
           /\ \A n \in DOMAIN shared_rows' : n \notin DOMAIN shared_rows => shared_rows'[n] = p
           /\ DOMAIN apps' = DOMAIN apps \cup DOMAIN pass[p].joined
           /\ \A r \in DOMAIN pass[p].joined : apps'[r] = pass[p].joined[r]
           /\ \A r \in DOMAIN apps \ DOMAIN pass[p].joined : apps'[r] = apps[r]
           /\ DOMAIN fields' = DOMAIN fields \cup DOMAIN pass[p].filled
           /\ DOMAIN richest' = DOMAIN richest \cup DOMAIN pass[p].filled
           /\ \A r \in DOMAIN pass[p].filled :
                 /\ fields'[r] = pass[p].filled[r]
                 /\ richest'[r] = pass[p].filled[r] \cup IF r \in DOMAIN richest THEN richest[r] ELSE {}
           /\ \A r \in DOMAIN fields \ DOMAIN pass[p].filled : fields'[r] = fields[r]
           /\ \A r \in DOMAIN richest \ DOMAIN pass[p].filled : richest'[r] = richest[r]
           /\ UNCHANGED failures
<1>1. /\ shared_rows' = Upd(shared_rows, [n \in pass[p].inserted \ DOMAIN shared_rows |-> p])
      /\ apps' = Upd(apps, pass[p].joined) /\ fields' = Upd(fields, pass[p].filled)
      /\ richest' = Upd(richest, [r \in DOMAIN pass[p].filled |->
                      pass[p].filled[r] \cup IF r \in DOMAIN richest THEN richest[r] ELSE {}])
      /\ UNCHANGED failures
  BY DEF CommitRows
<1>2. /\ DOMAIN shared_rows' = DOMAIN shared_rows \cup pass[p].inserted
      /\ \A n \in DOMAIN shared_rows : shared_rows'[n] = shared_rows[n]
      /\ \A n \in DOMAIN shared_rows' : n \notin DOMAIN shared_rows => shared_rows'[n] = p
  BY <1>1 DEF Upd
<1>3. /\ DOMAIN apps' = DOMAIN apps \cup DOMAIN pass[p].joined
      /\ \A r \in DOMAIN pass[p].joined : apps'[r] = pass[p].joined[r]
      /\ \A r \in DOMAIN apps \ DOMAIN pass[p].joined : apps'[r] = apps[r]
  BY <1>1 DEF Upd
<1>4. /\ DOMAIN fields' = DOMAIN fields \cup DOMAIN pass[p].filled
      /\ \A r \in DOMAIN pass[p].filled : fields'[r] = pass[p].filled[r]
      /\ \A r \in DOMAIN fields \ DOMAIN pass[p].filled : fields'[r] = fields[r]
  BY <1>1 DEF Upd
<1>5. /\ DOMAIN richest' = DOMAIN richest \cup DOMAIN pass[p].filled
      /\ \A r \in DOMAIN pass[p].filled :
            richest'[r] = pass[p].filled[r] \cup IF r \in DOMAIN richest THEN richest[r] ELSE {}
      /\ \A r \in DOMAIN richest \ DOMAIN pass[p].filled : richest'[r] = richest[r]
  BY <1>1 DEF Upd
<1> QED BY <1>1, <1>2, <1>3, <1>4, <1>5

LEMMA RowsCommitKeeps ==
    ASSUME RowsInv, NEW p \in RowPasses, pass[p].at # "platforms", NEW to \in PassStates,
           CommitRows(p, to), to.inserted = {}, PassHonest(p, to)', to.flush = {}
    PROVE  RowsInv'
<1>1. /\ pass[p] \in PassStates /\ Gathered(pass[p]) /\ SessionHonest(p, pass[p])
      /\ pass[p].left = {} /\ pass[p].flush = {}
      /\ DOMAIN pass[p].joined \subseteq RepositoriesOf(p)
      /\ DOMAIN pass[p].filled \subseteq RepositoriesOf(p)
  BY PassFacts DEF Gathered, SessionHonest
<1>2. /\ DOMAIN shared_rows' = DOMAIN shared_rows \cup pass[p].inserted
      /\ \A n \in DOMAIN shared_rows : shared_rows'[n] = shared_rows[n]
      /\ \A n \in DOMAIN shared_rows' : n \notin DOMAIN shared_rows => shared_rows'[n] = p
      /\ UNCHANGED failures
  BY CommitFacts
<1>0. /\ pass' \in [RowPasses -> PassStates] /\ pass'[p] = to
      /\ \A q \in RowPasses \ {p} : pass'[q] = pass[q]
  BY DEF CommitRows, Become, RowsInv, RowsTyped
<1>3. RowsTyped'
  <2>1. DOMAIN shared_rows' \subseteq RowNames
    BY <1>1, <1>2 DEF RowsInv, RowsTyped, PassStates
  <2>2. /\ DOMAIN fields' = DOMAIN fields \cup DOMAIN pass[p].filled
        /\ DOMAIN richest' = DOMAIN fields'
    BY CommitFacts DEF RowsInv, RowsTyped
  <2>3. ASSUME NEW r \in DOMAIN fields' PROVE fields'[r] \subseteq FieldNames
    <3>1. CASE r \in DOMAIN pass[p].filled
      <4>1. pass[p].filled \in Partly(Sources, SUBSET FieldNames)
        BY <1>1 DEF PassStates
      <4>2. pass[p].filled[r] \in SUBSET FieldNames
        BY <3>1, <4>1, PartlyFacts
      <4> QED BY <3>1, <4>2, CommitFacts, ZenonT(40)
    <3>2. CASE r \notin DOMAIN pass[p].filled
      <4>1. r \in DOMAIN fields /\ fields'[r] = fields[r]
        BY <2>2, <3>2, CommitFacts
      <4> QED BY <4>1 DEF RowsInv, RowsTyped
    <3> QED BY <3>1, <3>2
  <2> QED BY <1>0, <2>1, <2>2, <2>3 DEF RowsTyped
<1>4. AppsWhole'
  <2> SUFFICES ASSUME NEW r \in DOMAIN apps'
               PROVE  Wanted(r) \subseteq apps'[r] /\ apps'[r] \subseteq DOMAIN shared_rows'
    BY DEF AppsWhole
  <2>1. CASE r \in DOMAIN pass[p].joined
    <3>1. apps'[r] = pass[p].joined[r]
      BY <2>1, CommitFacts
    <3>2. /\ Wanted(r) \subseteq pass[p].joined[r]
          /\ pass[p].joined[r] \subseteq DOMAIN shared_rows \cup pass[p].inserted
      BY <1>1, <2>1 DEF SessionHonest
    <3> QED BY <1>2, <3>1, <3>2
  <2>2. CASE r \notin DOMAIN pass[p].joined
    <3>1. r \in DOMAIN apps /\ apps'[r] = apps[r]
      BY <2>2, CommitFacts
    <3> QED BY <1>2, <3>1 DEF RowsInv, AppsWhole
  <2> QED BY <2>1, <2>2
<1>5. RicherKept'
  <2> SUFFICES ASSUME NEW r \in DOMAIN richest' PROVE richest'[r] \ {"contributors"} \subseteq fields'[r]
    BY DEF RicherKept
  <2>1. CASE r \in DOMAIN pass[p].filled
    <3>1. /\ fields'[r] = pass[p].filled[r]
          /\ richest'[r] = pass[p].filled[r] \cup IF r \in DOMAIN richest THEN richest[r] ELSE {}
      BY <2>1, CommitFacts
    <3>2. r \in DOMAIN richest => richest[r] \ {"contributors"} \subseteq pass[p].filled[r]
      BY <1>1, <2>1 DEF SessionHonest
    <3> QED BY <3>1, <3>2
  <2>2. CASE r \notin DOMAIN pass[p].filled
    <3>1. r \in DOMAIN richest /\ richest'[r] = richest[r] /\ fields'[r] = fields[r]
      BY <2>2, CommitFacts, ZenonT(40) DEF RowsInv, RowsTyped
    <3> QED BY <3>1 DEF RowsInv, RicherKept
  <2> QED BY <2>1, <2>2
<1>6. ASSUME NEW q \in RowPasses, NEW s \in RowPasses, q # s
      PROVE  pass'[q].inserted \cap pass'[s].inserted = {}
  BY <1>0, <1>6 DEF RowsInv
<1>7. PassHonest(p, pass[p])'
  BY <1>0
<1>8. ASSUME NEW q \in RowPasses \ {p} PROVE PassHonest(q, pass[q])'
  <2>1. PICK s : s = pass[q]
    OBVIOUS
  <2>2. /\ pass'[q] = s /\ s \in PassStates /\ PassHonest(q, s)
        /\ Gathered(s) /\ FlushHonest(q, s) /\ SessionHonest(q, s)
        /\ s.inserted \cap pass[p].inserted = {}
    BY <1>0, <2>1, PassFacts DEF RowsInv
  <2>3. Gathered(s)'
    BY <1>2, <2>2 DEF Gathered
  <2>4. FlushHonest(q, s)'
    BY <1>2, <2>2 DEF FlushHonest
  <2>5. SessionHonest(q, s)'
    <3>1. s.inserted \cap DOMAIN shared_rows' = {}
      BY <1>2, <2>2 DEF SessionHonest
    <3>2. DOMAIN s.joined \subseteq s.done /\ DOMAIN s.filled \subseteq RepositoriesOf(q)
      BY <2>2 DEF SessionHonest
    <3>3. ASSUME NEW r \in DOMAIN s.joined
          PROVE  Wanted(r) \subseteq s.joined[r] /\ s.joined[r] \subseteq DOMAIN shared_rows' \cup s.inserted
      BY <1>2, <2>2 DEF SessionHonest
    <3>4. ASSUME NEW r \in DOMAIN s.filled, r \in DOMAIN richest'
          PROVE  richest'[r] \ {"contributors"} \subseteq s.filled[r]
      <4>1. r \notin DOMAIN pass[p].filled
        BY <1>1, <3>2, SourcesApart
      <4>2. r \in DOMAIN richest /\ richest'[r] = richest[r]
        BY <3>4, <4>1, CommitFacts, ZenonT(40)
      <4> QED BY <2>2, <4>2 DEF SessionHonest
    <3> QED BY <3>1, <3>2, <3>3, <3>4 DEF SessionHonest
  <2>6. PassHonest(q, s)'
    BY <2>2, <2>3, <2>4, <2>5 DEF PassHonest, AtPlace
  <2> QED BY <2>2, <2>6
<1>9. ASSUME NEW f \in failures PROVE Explained(f)'
  <2>1. Explained(f)
    BY DEF RowsInv
  <2> QED BY <1>2, <2>1 DEF Explained
<1> QED BY <1>2, <1>3, <1>4, <1>5, <1>6, <1>7, <1>8, <1>9 DEF RowsInv

\* A repository that raises ends the pass, with nothing of the transaction.
LEMMA AbandonKeeps ==
    ASSUME RowsInv, NEW p \in RowPasses, NEW cause, NEW names, Abandon(p, cause, names),
           cause = "conflict" =>
               \A n \in names : n \in DOMAIN shared_rows /\ shared_rows[n] \in RowPasses \ {p}
    PROVE  RowsInv'
<1> DEFINE new == [pass |-> p, cause |-> cause, names |-> names]
<1>1. failures' = failures \cup {new} /\ UNCHANGED database /\ Become(p, Between)
  BY DEF Abandon
<1>2. PassHonest(p, Between)
  BY BetweenFacts, NothingDone, EmptyHanded
<1>3. \A f \in failures' : Explained(f)
  BY <1>1 DEF RowsInv, Explained
<1> QED BY <1>1, <1>2, <1>3, BetweenFacts, PassMoves

--------------------------------------------------------------------------------
(* What a pass does with a repository *)

LEMMA LinksFacts ==
    ASSUME RowsInv, NEW p \in RowPasses, NEW r
    PROVE  /\ Links(p, r) \subseteq DOMAIN shared_rows \cup pass[p].inserted
           /\ Links(p, r) \subseteq RowNames
<1>1. /\ DOMAIN Upd(apps, pass[p].joined) = DOMAIN apps \cup DOMAIN pass[p].joined
      /\ \A x \in DOMAIN pass[p].joined : Upd(apps, pass[p].joined)[x] = pass[p].joined[x]
      /\ \A x \in DOMAIN apps \ DOMAIN pass[p].joined : Upd(apps, pass[p].joined)[x] = apps[x]
  BY UpdFacts
<1>2. \A x \in DOMAIN pass[p].joined : pass[p].joined[x] \subseteq DOMAIN shared_rows \cup pass[p].inserted
  BY PassFacts DEF SessionHonest
<1>3. \A x \in DOMAIN apps : apps[x] \subseteq DOMAIN shared_rows
  BY DEF RowsInv, AppsWhole
<1>4. Links(p, r) = IF r \in DOMAIN apps \cup DOMAIN pass[p].joined
                    THEN Upd(apps, pass[p].joined)[r] ELSE {}
  BY <1>1 DEF Links
<1>5. Links(p, r) \subseteq DOMAIN shared_rows \cup pass[p].inserted
  <2>1. CASE r \in DOMAIN pass[p].joined
    BY <1>1, <1>2, <1>4, <2>1
  <2>2. CASE r \notin DOMAIN pass[p].joined
    BY <1>1, <1>3, <1>4, <2>2
  <2> QED BY <2>1, <2>2
<1>6. DOMAIN shared_rows \cup pass[p].inserted \subseteq RowNames
  BY PassFacts DEF RowsInv, RowsTyped, PassStates
<1> QED BY <1>1, <1>4, <1>5, <1>6

\* What a pass fills in keeps what the fields ever were, but for the contributors.
LEMMA FilledFacts ==
    ASSUME RowsInv, NEW p \in RowPasses, NEW r \in RepositoriesOf(p), NEW answer \in SUBSET Fields[r]
    PROVE  /\ Filled(p, r, answer) \subseteq FieldNames
           /\ r \in DOMAIN richest => richest[r] \ {"contributors"} \subseteq Filled(p, r, answer)
<1> DEFINE known == Upd(fields, pass[p].filled)
<1>1. /\ DOMAIN known = DOMAIN fields \cup DOMAIN pass[p].filled
      /\ \A x \in DOMAIN pass[p].filled : known[x] = pass[p].filled[x]
      /\ \A x \in DOMAIN fields \ DOMAIN pass[p].filled : known[x] = fields[x]
  BY UpdFacts
<1>2. Filled(p, r, answer) = answer \cup IF r \in DOMAIN known
                                         THEN known[r] \ (answer \cup {"contributors"}) ELSE {}
  BY DEF Filled, Enriched
<1> HIDE DEF known
<1>3. answer \subseteq FieldNames
  BY NamesKnown
<1>4. ASSUME r \in DOMAIN known
      PROVE  /\ known[r] \subseteq FieldNames
             /\ r \in DOMAIN richest => richest[r] \ {"contributors"} \subseteq known[r]
  <2>1. CASE r \in DOMAIN pass[p].filled
    <3>1. pass[p].filled \in Partly(Sources, SUBSET FieldNames)
      BY PassFacts DEF PassStates
    <3>2. pass[p].filled[r] \in SUBSET FieldNames
      BY <2>1, <3>1, PartlyFacts
    <3>3. r \in DOMAIN richest => richest[r] \ {"contributors"} \subseteq pass[p].filled[r]
      BY <2>1, PassFacts DEF SessionHonest
    <3> QED BY <1>1, <2>1, <3>2, <3>3
  <2>2. CASE r \notin DOMAIN pass[p].filled
    <3>1. r \in DOMAIN fields /\ known[r] = fields[r]
      BY <1>1, <1>4, <2>2
    <3> QED BY <3>1 DEF RowsInv, RowsTyped, RicherKept
  <2> QED BY <2>1, <2>2
<1>5. r \in DOMAIN richest => r \in DOMAIN known
  BY <1>1 DEF RowsInv, RowsTyped
<1> QED BY <1>2, <1>3, <1>4, <1>5

LEMMA RepositoryKeeps ==
    ASSUME RowsInv, NEW p \in RowPasses, NEW r \in RepositoriesOf(p), BeginRepository(p, r)
    PROVE  RowsInv'
<1>1. /\ pass[p].at = "next" /\ pass[p].done # RepositoriesOf(p) /\ r = Upcoming(p)
      /\ UNCHANGED database /\ UNCHANGED failures
  BY DEF BeginRepository, database
<1>2. PICK answer \in SUBSET Fields[r] :
          Become(p, [pass[p] EXCEPT !.at = "platforms", !.repo = r, !.left = Hinted[r] \cup Keyed[r],
                         !.flush = Joined[r] \ Visible(p),
                         !.filled = Upd(pass[p].filled, [x \in {r} |-> Filled(p, r, answer)])])
  BY DEF BeginRepository, AnswersOf
<1> DEFINE fills == Upd(pass[p].filled, [x \in {r} |-> Filled(p, r, answer)])
           to == [pass[p] EXCEPT !.at = "platforms", !.repo = r, !.left = Hinted[r] \cup Keyed[r],
                                 !.flush = Joined[r] \ Visible(p), !.filled = fills]
<1>3. Become(p, to)
  BY <1>2
<1>4. pass[p] \in PassStates /\ SessionHonest(p, pass[p])
  BY PassFacts
<1>5. /\ r \in Sources /\ Joined[r] \subseteq RowNames /\ Hinted[r] \cup Keyed[r] \subseteq RowNames
      /\ Wanted(r) = Joined[r] \cup (Hinted[r] \cup Keyed[r])
  BY NamesKnown DEF Wanted
<1>6. Visible(p) = DOMAIN shared_rows \cup pass[p].inserted
  BY DEF Visible
<1>7. /\ DOMAIN fills = DOMAIN pass[p].filled \cup {r} /\ fills[r] = Filled(p, r, answer)
      /\ \A x \in DOMAIN pass[p].filled \ {r} : fills[x] = pass[p].filled[x]
  BY DEF Upd
<1>8. fills \in Partly(Sources, SUBSET FieldNames)
  <2>1. pass[p].filled \in Partly(Sources, SUBSET FieldNames)
    BY <1>4 DEF PassStates
  <2>2. [x \in {r} |-> Filled(p, r, answer)] \in Partly(Sources, SUBSET FieldNames)
    BY <1>5, FilledFacts, ConstantPartly
  <2> QED BY <2>1, <2>2, UpdPartly
<1> HIDE DEF fills
<1>9. /\ to \in PassStates /\ to.at = "platforms" /\ to.repo = r /\ to.left = Hinted[r] \cup Keyed[r]
      /\ to.flush = Joined[r] \ Visible(p) /\ to.filled = fills
      /\ to.done = pass[p].done /\ to.inserted = pass[p].inserted /\ to.joined = pass[p].joined
  BY <1>4, <1>5, <1>8 DEF PassStates
<1> HIDE DEF to
<1>10. \E k \in 0 .. Len(Listing[p]) : AtPlace(p, to, k)
  BY <1>1, <1>9, NextInListing DEF AtPlace
<1>11. Gathered(to)
  BY <1>5, <1>6, <1>9 DEF Gathered
<1>12. FlushHonest(p, to)
  BY <1>6, <1>9 DEF FlushHonest
<1>13. SessionHonest(p, to)
  <2>1. ASSUME NEW x \in DOMAIN fills, x \in DOMAIN richest
        PROVE  richest[x] \ {"contributors"} \subseteq fills[x]
    <3>1. CASE x = r
      BY <1>7, <2>1, <3>1, FilledFacts
    <3>2. CASE x # r
      BY <1>4, <1>7, <2>1, <3>2 DEF SessionHonest
    <3> QED BY <3>1, <3>2
  <2>2. DOMAIN fills \subseteq RepositoriesOf(p)
    BY <1>4, <1>7 DEF SessionHonest
  <2> QED BY <1>4, <1>9, <2>1, <2>2 DEF SessionHonest
<1>14. PassHonest(p, to)
  BY <1>10, <1>11, <1>12, <1>13 DEF PassHonest
<1>15. \A q \in RowPasses \ {p} : to.inserted \cap pass[q].inserted = {}
  BY <1>9 DEF RowsInv
<1> QED BY <1>1, <1>3, <1>9, <1>14, <1>15, PassMoves DEF RowsInv

LEMMA NoReleasesKeeps ==
    ASSUME RowsInv, NEW p \in RowPasses, NEW r \in RepositoriesOf(p), NoReleases(p, r)
    PROVE  RowsInv'
<1> DEFINE to == [pass[p] EXCEPT !.done = @ \cup {r}]
<1>1. /\ pass[p].at = "next" /\ pass[p].done # RepositoriesOf(p) /\ r = Upcoming(p)
      /\ UNCHANGED database /\ UNCHANGED failures /\ Become(p, to)
  BY DEF NoReleases, database
<1>2. /\ pass[p] \in PassStates /\ Gathered(pass[p]) /\ FlushHonest(p, pass[p])
      /\ SessionHonest(p, pass[p]) /\ r \in Sources
  BY PassFacts, NamesKnown
<1>3. /\ to \in PassStates /\ to.at = "next" /\ to.done = pass[p].done \cup {r}
      /\ to.left = pass[p].left /\ to.flush = pass[p].flush
      /\ to.inserted = pass[p].inserted /\ to.joined = pass[p].joined /\ to.filled = pass[p].filled
  BY <1>1, <1>2 DEF PassStates
<1> HIDE DEF to
<1>4. \E k \in 0 .. Len(Listing[p]) : AtPlace(p, to, k)
  <2>1. PICK k \in 0 .. Len(Listing[p]) : /\ pass[p].done = FirstOf(p, k) /\ k < Len(Listing[p])
                                          /\ r = Listing[p][k + 1]
    BY <1>1, NextInListing
  <2>2. k + 1 \in 0 .. Len(Listing[p]) /\ to.done = FirstOf(p, k + 1)
    BY <1>3, <2>1, FirstFacts
  <2> QED BY <1>3, <2>2 DEF AtPlace
<1>5. Gathered(to)
  BY <1>1, <1>2, <1>3 DEF Gathered
<1>6. FlushHonest(p, to)
  BY <1>2, <1>3 DEF FlushHonest
<1>7. SessionHonest(p, to)
  BY <1>2, <1>3 DEF SessionHonest
<1>8. PassHonest(p, to)
  BY <1>4, <1>5, <1>6, <1>7 DEF PassHonest
<1>9. \A q \in RowPasses \ {p} : to.inserted \cap pass[q].inserted = {}
  BY <1>3 DEF RowsInv
<1> QED BY <1>1, <1>3, <1>8, <1>9, PassMoves DEF RowsInv

LEMMA FlushKeeps ==
    ASSUME RowsInv, NEW p \in RowPasses, Flush(p)
    PROVE  RowsInv'
<1> DEFINE to == [pass[p] EXCEPT !.inserted = @ \cup pass[p].flush, !.flush = {}]
<1>1. /\ pass[p].flush # {} /\ pass[p].flush \cap DOMAIN shared_rows = {}
      /\ Rivals(p, pass[p].flush) = {}
      /\ UNCHANGED database /\ UNCHANGED failures /\ Become(p, to)
  BY DEF Flush, database
<1>2. /\ pass[p] \in PassStates /\ Gathered(pass[p]) /\ SessionHonest(p, pass[p])
      /\ pass[p].flush \subseteq RowNames
  BY PassFacts DEF PassStates
<1>3. pass[p].at = "platforms"
  BY <1>1, <1>2 DEF Gathered
<1>4. /\ to \in PassStates /\ to.at = "platforms" /\ to.done = pass[p].done /\ to.repo = pass[p].repo
      /\ to.left = pass[p].left /\ to.flush = {}
      /\ to.inserted = pass[p].inserted \cup pass[p].flush
      /\ to.joined = pass[p].joined /\ to.filled = pass[p].filled
  BY <1>2, <1>3 DEF PassStates
<1> HIDE DEF to
<1>5. \E k \in 0 .. Len(Listing[p]) : AtPlace(p, to, k)
  BY <1>3, <1>4 DEF RowsInv, PassHonest, AtPlace
<1>6. Gathered(to) /\ FlushHonest(p, to)
  BY <1>2, <1>3, <1>4 DEF Gathered, FlushHonest
<1>7. SessionHonest(p, to)
  <2>1. to.inserted \cap DOMAIN shared_rows = {}
    BY <1>1, <1>2, <1>4 DEF SessionHonest
  <2> QED BY <1>2, <1>4, <2>1 DEF SessionHonest
<1>8. PassHonest(p, to)
  BY <1>5, <1>6, <1>7 DEF PassHonest
<1>9. ASSUME NEW q \in RowPasses \ {p} PROVE to.inserted \cap pass[q].inserted = {}
  <2>1. pass[p].flush \cap pass[q].inserted = {}
    BY <1>1 DEF Rivals
  <2>2. pass[p].inserted \cap pass[q].inserted = {}
    BY DEF RowsInv
  <2> QED BY <1>4, <2>1, <2>2
<1> QED BY <1>1, <1>4, <1>8, <1>9, PassMoves DEF RowsInv

LEMMA TakePlatformKeeps ==
    ASSUME RowsInv, NEW p \in RowPasses, NEW n \in pass[p].left, TakePlatform(p, n)
    PROVE  RowsInv'
<1> DEFINE to == [pass[p] EXCEPT !.left = @ \ {n}, !.flush = {n} \ Visible(p)]
<1>1. /\ pass[p].at = "platforms" /\ pass[p].flush = {}
      /\ UNCHANGED database /\ UNCHANGED failures /\ Become(p, to)
  BY DEF TakePlatform, database
<1>2. /\ pass[p] \in PassStates /\ Gathered(pass[p]) /\ SessionHonest(p, pass[p])
      /\ n \in RowNames
  BY PassFacts DEF PassStates
<1>3. Visible(p) = DOMAIN shared_rows \cup pass[p].inserted
  BY DEF Visible
<1>4. /\ to \in PassStates /\ to.at = "platforms" /\ to.done = pass[p].done /\ to.repo = pass[p].repo
      /\ to.left = pass[p].left \ {n} /\ to.flush = {n} \ Visible(p)
      /\ to.inserted = pass[p].inserted /\ to.joined = pass[p].joined /\ to.filled = pass[p].filled
  BY <1>1, <1>2 DEF PassStates
<1> HIDE DEF to
<1>5. \E k \in 0 .. Len(Listing[p]) : AtPlace(p, to, k)
  BY <1>1, <1>4 DEF RowsInv, PassHonest, AtPlace
<1>6. Gathered(to)
  BY <1>1, <1>2, <1>3, <1>4 DEF Gathered
<1>7. FlushHonest(p, to) /\ SessionHonest(p, to)
  BY <1>2, <1>3, <1>4 DEF FlushHonest, SessionHonest
<1>8. PassHonest(p, to)
  BY <1>5, <1>6, <1>7 DEF PassHonest
<1>9. \A q \in RowPasses \ {p} : to.inserted \cap pass[q].inserted = {}
  BY <1>4 DEF RowsInv
<1> QED BY <1>1, <1>4, <1>8, <1>9, PassMoves DEF RowsInv

LEMMA FinishKeeps ==
    ASSUME RowsInv, NEW p \in RowPasses, FinishRepository(p)
    PROVE  RowsInv'
<1>1. PICK r : r = pass[p].repo
  OBVIOUS
<1> DEFINE links == Links(p, r) \cup Wanted(r)
           joins == Upd(pass[p].joined, [x \in {r} |-> links])
           to == [pass[p] EXCEPT !.at = "synced", !.repo = NoListing, !.done = @ \cup {r},
                                 !.joined = joins]
<1>2. /\ pass[p].at = "platforms" /\ pass[p].left = {} /\ pass[p].flush = {}
      /\ UNCHANGED database /\ UNCHANGED failures /\ Become(p, to)
  BY <1>1 DEF FinishRepository, database
<1>3. /\ pass[p] \in PassStates /\ Gathered(pass[p]) /\ FlushHonest(p, pass[p])
      /\ SessionHonest(p, pass[p])
      /\ r \in RepositoriesOf(p) \ pass[p].done /\ r \in Sources /\ Wanted(r) \subseteq RowNames
  BY <1>1, <1>2, PassFacts, AtRepository, NamesKnown
<1>4. /\ Wanted(r) \subseteq links /\ links \subseteq DOMAIN shared_rows \cup pass[p].inserted
      /\ links \subseteq RowNames
  <2>1. Wanted(r) \subseteq DOMAIN shared_rows \cup pass[p].inserted
    BY <1>1, <1>2, <1>3 DEF Gathered
  <2> QED BY <1>3, <2>1, LinksFacts
<1> HIDE DEF links
<1>5. /\ DOMAIN joins = DOMAIN pass[p].joined \cup {r} /\ joins[r] = links
      /\ \A x \in DOMAIN pass[p].joined \ {r} : joins[x] = pass[p].joined[x]
  BY DEF Upd
<1>6. joins \in Partly(Sources, SUBSET RowNames)
  <2>1. pass[p].joined \in Partly(Sources, SUBSET RowNames)
    BY <1>3 DEF PassStates
  <2>2. [x \in {r} |-> links] \in Partly(Sources, SUBSET RowNames)
    BY <1>3, <1>4, ConstantPartly
  <2> QED BY <2>1, <2>2, UpdPartly
<1> HIDE DEF joins
<1>7. /\ to \in PassStates /\ to.at = "synced" /\ to.done = pass[p].done \cup {r}
      /\ to.left = {} /\ to.flush = {}
      /\ to.inserted = pass[p].inserted /\ to.joined = joins /\ to.filled = pass[p].filled
  BY <1>2, <1>3, <1>6 DEF PassStates
<1> HIDE DEF to
<1>8. \E k \in 0 .. Len(Listing[p]) : AtPlace(p, to, k)
  <2>1. \E k \in 0 .. Len(Listing[p]) : to.done = FirstOf(p, k)
    BY <1>1, <1>2, <1>7, AtRepository
  <2> QED BY <1>7, <2>1 DEF AtPlace
<1>9. Gathered(to)
  BY <1>7 DEF Gathered
<1>10. FlushHonest(p, to)
  BY <1>2, <1>3, <1>7 DEF FlushHonest
<1>11. SessionHonest(p, to)
  <2>1. ASSUME NEW x \in DOMAIN joins
        PROVE  Wanted(x) \subseteq joins[x] /\ joins[x] \subseteq DOMAIN shared_rows \cup to.inserted
    <3>1. CASE x = r
      BY <1>4, <1>5, <1>7, <3>1
    <3>2. CASE x # r
      BY <1>3, <1>5, <1>7, <3>2 DEF SessionHonest
    <3> QED BY <3>1, <3>2
  <2>2. DOMAIN joins \subseteq to.done
    BY <1>3, <1>5, <1>7 DEF SessionHonest
  <2> QED BY <1>3, <1>7, <2>1, <2>2 DEF SessionHonest
<1>12. PassHonest(p, to)
  BY <1>8, <1>9, <1>10, <1>11 DEF PassHonest
<1>13. \A q \in RowPasses \ {p} : to.inserted \cap pass[q].inserted = {}
  BY <1>7 DEF RowsInv
<1> QED BY <1>2, <1>7, <1>12, <1>13, PassMoves DEF RowsInv

LEMMA ProceedKeeps ==
    ASSUME RowsInv, NEW p \in RowPasses, Proceed(p)
    PROVE  RowsInv'
<1> DEFINE to == [pass[p] EXCEPT !.at = "next"]
<1>1. /\ pass[p].at = "synced" /\ UNCHANGED database /\ UNCHANGED failures /\ Become(p, to)
  BY DEF Proceed, database
<1>2. /\ pass[p] \in PassStates /\ Gathered(pass[p]) /\ FlushHonest(p, pass[p])
      /\ SessionHonest(p, pass[p])
  BY PassFacts
<1>3. /\ to \in PassStates /\ to.at = "next" /\ to.done = pass[p].done
      /\ to.left = pass[p].left /\ to.flush = pass[p].flush
      /\ to.inserted = pass[p].inserted /\ to.joined = pass[p].joined /\ to.filled = pass[p].filled
  BY <1>2 DEF PassStates
<1> HIDE DEF to
<1>4. \E k \in 0 .. Len(Listing[p]) : AtPlace(p, to, k)
  BY <1>3 DEF RowsInv, PassHonest, AtPlace
<1>5. Gathered(to)
  BY <1>1, <1>2, <1>3 DEF Gathered
<1>6. FlushHonest(p, to)
  BY <1>2, <1>3 DEF FlushHonest
<1>7. SessionHonest(p, to)
  BY <1>2, <1>3 DEF SessionHonest
<1>8. PassHonest(p, to)
  BY <1>4, <1>5, <1>6, <1>7 DEF PassHonest
<1>9. \A q \in RowPasses \ {p} : to.inserted \cap pass[q].inserted = {}
  BY <1>3 DEF RowsInv
<1> QED BY <1>1, <1>3, <1>8, <1>9, PassMoves DEF RowsInv

LEMMA FlushRaisesKeeps ==
    ASSUME RowsInv, NEW p \in RowPasses, FlushRaises(p)
    PROVE  RowsInv'
<1>1. CASE Abandon(p, "conflict", pass[p].flush \cap DOMAIN shared_rows)
  <2>1. \A n \in pass[p].flush \cap DOMAIN shared_rows :
            n \in DOMAIN shared_rows /\ shared_rows[n] \in RowPasses \ {p}
    BY PassFacts DEF FlushHonest
  <2> QED BY <1>1, <2>1, AbandonKeeps
<1>2. CASE Abandon(p, "deadlock", pass[p].flush)
  BY <1>2, AbandonKeeps
<1> QED BY <1>1, <1>2 DEF FlushRaises

LEMMA AnnounceKeeps ==
    ASSUME RowsInv, NEW p \in RowPasses, Announce(p)
    PROVE  RowsInv'
<1> DEFINE to == [pass[p] EXCEPT !.at = "next", !.inserted = {}, !.joined = None, !.filled = None]
<1>1. pass[p].at = "synced" /\ CommitRows(p, to)
  BY DEF Announce
<1>2. pass[p] \in PassStates /\ Gathered(pass[p])
  BY PassFacts
<1>3. /\ None \in Partly(Sources, SUBSET RowNames) /\ None \in Partly(Sources, SUBSET FieldNames)
      /\ DOMAIN None = {}
  BY NoneFacts
<1>4. /\ to \in PassStates /\ to.at = "next" /\ to.inserted = {} /\ to.joined = None
      /\ to.filled = None /\ to.done = pass[p].done /\ to.left = {} /\ to.flush = {}
  BY <1>1, <1>2, <1>3 DEF PassStates, Gathered
<1> HIDE DEF to
<1>5. PICK s : s = to
  OBVIOUS
<1>6. /\ s.at = "next" /\ s.left = {} /\ s.flush = {} /\ s.inserted = {} /\ DOMAIN s.joined = {}
      /\ DOMAIN s.filled = {} /\ \E k \in 0 .. Len(Listing[p]) : s.done = FirstOf(p, k)
      /\ s \in PassStates /\ CommitRows(p, s)
  BY <1>1, <1>3, <1>4, <1>5 DEF RowsInv, PassHonest, AtPlace
<1>7. (\E k \in 0 .. Len(Listing[p]) : AtPlace(p, s, k))'
  BY <1>6 DEF AtPlace
<1>8. Gathered(s)' /\ FlushHonest(p, s)' /\ SessionHonest(p, s)'
  BY <1>6 DEF Gathered, FlushHonest, SessionHonest
<1>9. PassHonest(p, s)'
  BY <1>7, <1>8 DEF PassHonest
<1> QED BY <1>1, <1>6, <1>9, RowsCommitKeeps

LEMMA EndPassKeeps ==
    ASSUME RowsInv, NEW p \in RowPasses, EndPass(p)
    PROVE  RowsInv'
<1>1. pass[p].at = "next" /\ CommitRows(p, Between)
  BY DEF EndPass
<1>2. PassHonest(p, Between)'
  <2>1. PICK s : s = Between
    OBVIOUS
  <2>2. PassHonest(p, s)'
    BY <2>1, BetweenFacts, NothingDone
       DEF PassHonest, AtPlace, Gathered, FlushHonest, SessionHonest
  <2> QED BY <2>1, <2>2
<1> QED BY <1>1, <1>2, BetweenFacts, RowsCommitKeeps

LEMMA NextRows == RowsInv /\ [RowsNext]_rowVars => RowsInv'
<1> SUFFICES ASSUME RowsInv, [RowsNext]_rowVars PROVE RowsInv'
  OBVIOUS
<1>1. CASE UNCHANGED rowVars
  BY <1>1 DEF rowVars, RowsInv, RowsTyped, AppsWhole, RicherKept, PassHonest, AtPlace, Gathered,
              FlushHonest, SessionHonest, Explained
<1>2. ASSUME NEW p \in RowPasses, AssetsRaise(p) PROVE RowsInv'
  BY <1>2, AbandonKeeps DEF AssetsRaise
<1> QED BY <1>1, <1>2, RepositoryKeeps, NoReleasesKeeps, FlushKeeps, FlushRaisesKeeps,
           TakePlatformKeeps, FinishKeeps, ProceedKeeps, AnnounceKeeps, EndPassKeeps DEF RowsNext

\* For any number of passes of sources that have no repository in common, whatever names they
\* share (crawler/sync.py, sync_source): an application is committed with all its rows, what was
\* filled in stays, and a repository fails over a name only if another source's pass inserted it.
THEOREM RowsAreHonest == RowsSpec => []RowsHonest
<1>1. RowsInv => RowsHonest
  <2> SUFFICES ASSUME RowsInv PROVE RowsHonest
    OBVIOUS
  <2>1. FailuresExplained
    BY DEF RowsInv, Explained, FailuresExplained
  <2> QED BY <2>1 DEF RowsInv, RowsHonest
<1> QED BY RowsStart, NextRows, <1>1, PTL DEF RowsSpec

--------------------------------------------------------------------------------
(* Verdicts on assets *)

AssetRows    == [file : Files \cup {NoFile}, status : Verdicts \cup {"pending"}]
Scans        == [risk : Nat, passed : BOOLEAN, flagged : BOOLEAN]
Publications == [at : {"read", "flushed"}, file : Files, read : AssetRows, stale : BOOLEAN]
Validations  == [at : {"scanned"}, verdict : Verdicts, evidence : Scans, stale : BOOLEAN]

AssetTyped ==
    /\ origin \in {"feed", "crawler"} /\ asset \in AssetRows
    /\ publication \in Publications \cup {Away}
    /\ validation \in [Validators -> Validations \cup {Away}]
    /\ scans \in Scans /\ scans.risk <= 100 /\ checks \in 0 .. MaxChecks /\ overlapped \in BOOLEAN

\* A verdict found of a file
VerdictOn(f, verdict) == verdict = "quarantined" \/ (verdict = f.outcome /\ f.reasons = 0)

\* A validation's verdict is on the file that is there unless a publication has committed
\* since, and a quarantine has its evidence; what nothing is found against adds three
Judged(w) ==
    /\ ~w.stale => asset.file \in Files /\ VerdictOn(asset.file, w.verdict)
    /\ w.verdict = "quarantined" => w.evidence.flagged
    /\ w.evidence.risk > 0
    /\ ~w.evidence.flagged => w.evidence.risk <= 3

AssetInv ==
    /\ AssetTyped
    /\ publication # Away /\ ~publication.stale => publication.read = asset
    /\ \A v \in Validators : validation[v] # Away => Judged(validation[v])
    /\ StatusTrue
    /\ asset.status = "quarantined" => scans.flagged
    /\ checks > 0 => scans.risk > 0
    /\ scans.flagged => checks > 0
    /\ ~scans.flagged => scans.risk <= 3 * checks
--------------------------------------------------------------------------------

LEMMA FileFacts ==
    ASSUME NEW f \in Files
    PROVE  f.outcome \in Outcomes /\ f.reasons \in Nat /\ f # NoFile
BY AssetAssumption DEF Outcomes

LEMMA AwayIsNone ==
    /\ Away.at = "idle"
    /\ \A w \in Publications : w # Away /\ w.at \in {"read", "flushed"}
    /\ \A w \in Validations : w # Away
BY DEF Away, Publications, Validations

LEMMA AssetStart == AssetInit => AssetInv
<1> SUFFICES ASSUME AssetInit PROVE AssetInv
  OBVIOUS
<1>1. asset \in AssetRows /\ asset.status = "pending"
  BY DEF AssetInit, AssetRows
<1>2. scans \in Scans /\ scans.risk = 0
  BY DEF AssetInit, Scans, Unscanned
<1>3. scans.flagged = FALSE
  BY DEF AssetInit, Unscanned
<1>4. ~scans.flagged
  BY <1>3, Zenon
<1>5. checks = 0 /\ MaxChecks \in Nat
  BY AssetAssumption DEF AssetInit
<1>6. AssetTyped
  <2>1. overlapped \in BOOLEAN
    BY DEF AssetInit
  <2>2. /\ origin \in {"feed", "crawler"} /\ publication = Away
        /\ validation = [v \in Validators |-> Away]
    BY DEF AssetInit
  <2>3. validation \in [Validators -> Validations \cup {Away}]
    BY <2>2
  <2>4. scans.risk <= 100 /\ checks \in 0 .. MaxChecks
    BY <1>2, <1>5
  <2> QED BY <1>1, <1>2, <2>1, <2>2, <2>3, <2>4 DEF AssetTyped
<1>7. StatusTrue
  BY <1>1 DEF StatusTrue
<1> QED BY <1>1, <1>2, <1>4, <1>5, <1>6, <1>7 DEF AssetInit, AssetInv

\* What a scan gives as evidence, and its verdict
LEMMA ScanFacts ==
    ASSUME NEW f \in Files, NEW known \in {"passed", "malicious"}
    PROVE  /\ Evidence(f, known) \in Scans /\ Evidence(f, known).risk > 0
           /\ Evidence(f, known).flagged = Flagged(f, known)
           /\ ~Flagged(f, known) => Evidence(f, known).risk <= 3
           /\ Verdict(f, known) \in Verdicts
           /\ Verdict(f, known) = "quarantined" <=> Flagged(f, known)
           /\ VerdictOn(f, Verdict(f, known))
<1>1. f.outcome \in Outcomes /\ f.outcome # "quarantined" /\ f.reasons \in Nat
  BY FileFacts DEF Outcomes
<1>2. /\ StaticRisk(f) \in Nat /\ ReputationRisk(known) \in Nat
      /\ ReputationRisk(known) > 0
      /\ ~Flagged(f, known) => StaticRisk(f) = 0 /\ ReputationRisk(known) = 3
  BY <1>1 DEF StaticRisk, ReputationRisk, Flagged
<1>3. /\ StaticRisk(f) + ReputationRisk(known) \in Nat /\ StaticRisk(f) + ReputationRisk(known) > 0
      /\ ~Flagged(f, known) => StaticRisk(f) + ReputationRisk(known) <= 3
  BY <1>2
<1>4. Flagged(f, known) \in BOOLEAN /\ (f.reasons = 0 \/ known = "passed") \in BOOLEAN
  BY DEF Flagged
<1>5. ASSUME NEW n \in Nat, NEW b \in BOOLEAN, NEW c \in BOOLEAN
      PROVE  LET e == [risk |-> n, passed |-> b, flagged |-> c]
             IN  e \in Scans /\ e.risk = n /\ e.flagged = c
  BY DEF Scans
<1>6. /\ Evidence(f, known) \in Scans
      /\ Evidence(f, known).risk = StaticRisk(f) + ReputationRisk(known)
      /\ Evidence(f, known).flagged = Flagged(f, known)
  BY <1>3, <1>4, <1>5, Zenon DEF Evidence
<1>7. /\ Verdict(f, known) \in Verdicts
      /\ Verdict(f, known) = "quarantined" <=> Flagged(f, known)
  BY <1>1 DEF Verdict, Verdicts
<1>8. VerdictOn(f, Verdict(f, known))
  BY <1>1 DEF Verdict, VerdictOn, Flagged
<1> QED BY <1>3, <1>6, <1>7, <1>8

\* A validation reads the row, or stops: nothing else changes.
LEMMA ValidationMoves ==
    ASSUME AssetInv, NEW v \in Validators, NEW w \in Validations \cup {Away},
           w # Away => Judged(w), validation' = [validation EXCEPT ![v] = w],
           UNCHANGED <<origin, asset, publication, scans, checks, overlapped>>
    PROVE  AssetInv'
<1>1. \A x \in Validators : validation'[x] = IF x = v THEN w ELSE validation[x]
  BY DEF AssetInv, AssetTyped
<1>2. AssetTyped'
  BY DEF AssetInv, AssetTyped
<1>3. ASSUME NEW x \in Validators, validation'[x] # Away
      PROVE  Judged(validation[x])'
  <2>1. CASE x = v
    BY <1>1, <1>3, <2>1 DEF Judged
  <2>2. CASE x # v
    BY <1>1, <1>3, <2>2 DEF Judged, AssetInv
  <2> QED BY <2>1, <2>2
<1> QED BY <1>2, <1>3 DEF AssetInv, StatusTrue

\* A publication reads the row, flushes or is rolled back.
LEMMA PublicationMoves ==
    ASSUME AssetInv, NEW w \in Publications \cup {Away}, w # Away /\ ~w.stale => w.read = asset,
           publication' = w,
           UNCHANGED <<origin, asset, validation, scans, checks, overlapped>>
    PROVE  AssetInv'
BY DEF AssetInv, AssetTyped, Judged, StatusTrue

LEMMA PublishReadsKeeps ==
    ASSUME AssetInv, NEW f \in Files, PublishReads(f)
    PROVE  AssetInv'
<1> DEFINE w == [at |-> "read", file |-> f, read |-> asset, stale |-> FALSE]
<1>1. w \in Publications /\ w.read = asset
  BY DEF AssetInv, AssetTyped, Publications
<1>2. publication' = w /\ UNCHANGED <<origin, asset, validation, scans, checks, overlapped>>
  BY DEF PublishReads
<1> HIDE DEF w
<1> QED BY <1>1, <1>2, PublicationMoves

LEMMA PublishFlushesKeeps ==
    ASSUME AssetInv, PublishFlushes
    PROVE  AssetInv'
<1>1. publication \in Publications
  BY AwayIsNone DEF AssetInv, AssetTyped, PublishFlushes
<1>2. /\ publication' \in Publications /\ publication'.read = publication.read
      /\ publication'.stale = publication.stale
  BY <1>1 DEF PublishFlushes, Publications
<1>3. publication # Away
  BY <1>1, AwayIsNone
<1>4. ~publication'.stale => publication'.read = asset
  BY <1>2, <1>3 DEF AssetInv
<1>5. UNCHANGED <<origin, asset, validation, scans, checks, overlapped>>
  BY DEF PublishFlushes
<1> QED BY <1>2, <1>4, <1>5, PublicationMoves

\* The status a publication leaves, unless a validation committed beside it
LEMMA WrittenFacts ==
    ASSUME AssetTyped, NEW f \in Files, NEW read \in AssetRows
    PROVE  /\ Written(f, read) \in AssetRows
           /\ Written(f, read).status = "quarantined" => asset.status = "quarantined"
           /\ read = asset => Written(f, read) = [file |-> f, status |-> PublishedStatus(f)]
<1>1. /\ PublishedStatus(f) \in Verdicts \cup {"pending"} /\ PublishedStatus(f) # "quarantined"
      /\ asset.file \in Files \cup {NoFile} /\ asset.status \in Verdicts \cup {"pending"}
  BY FileFacts DEF PublishedStatus, Verdicts, Outcomes, AssetTyped, AssetRows
<1>2. Written(f, read) \in AssetRows
  BY <1>1 DEF Written, AssetRows
<1>3. Written(f, read).status = "quarantined" => asset.status = "quarantined"
  BY <1>1 DEF Written
<1>4. ASSUME read = asset PROVE Written(f, read) = [file |-> f, status |-> PublishedStatus(f)]
  <2>1. (IF f = asset.file THEN asset.file ELSE f) = f
    OBVIOUS
  <2>2. (IF asset.file # NoFile /\ PublishedStatus(f) = asset.status THEN asset.status
         ELSE PublishedStatus(f)) = PublishedStatus(f)
    OBVIOUS
  <2> QED BY <1>4, <2>1, <2>2 DEF Written
<1> QED BY <1>2, <1>3, <1>4

LEMMA PublishCommitsKeeps ==
    ASSUME AssetInv, PublishCommits
    PROVE  AssetInv'
<1>1. publication \in Publications /\ publication # Away
  BY AwayIsNone DEF AssetInv, AssetTyped, PublishCommits
<1>2. PICK f \in Files, read \in AssetRows :
          /\ f = publication.file /\ read = publication.read /\ asset' = Written(f, read)
          /\ ~publication.stale => read = asset
  BY <1>1 DEF Publications, PublishCommits, AssetInv
<1>3. /\ asset' \in AssetRows
      /\ asset'.status = "quarantined" => asset.status = "quarantined"
      /\ ~publication.stale => asset' = [file |-> f, status |-> PublishedStatus(f)]
  BY <1>2, WrittenFacts DEF AssetInv
<1>4. \A v \in Validators : /\ validation'[v] \in Validations \cup {Away}
                            /\ validation'[v] # Away =>
                                  /\ validation[v] \in Validations
                                  /\ validation'[v] = [validation[v] EXCEPT !.stale = TRUE]
  BY DEF PublishCommits, AssetInv, AssetTyped, Validations
<1>5. /\ publication' = Away /\ overlapped' = publication.stale
      /\ UNCHANGED <<origin, scans, checks>>
      /\ validation' = [v \in Validators |-> validation'[v]]
  BY DEF PublishCommits
<1>6. AssetTyped'
  <2>1. overlapped' \in BOOLEAN
    BY <1>1, <1>5 DEF Publications
  <2>2. validation' \in [Validators -> Validations \cup {Away}]
    BY <1>4, <1>5
  <2> QED BY <1>3, <1>5, <2>1, <2>2 DEF AssetInv, AssetTyped
<1>7. ASSUME NEW v \in Validators, validation'[v] # Away
      PROVE  Judged(validation[v])'
  <2>1. /\ validation'[v].stale = TRUE /\ validation'[v].verdict = validation[v].verdict
        /\ validation'[v].evidence = validation[v].evidence
    BY <1>4, <1>7 DEF Validations
  <2>2. validation[v] # Away
    BY <1>4, <1>7, AwayIsNone
  <2>3. Judged(validation[v])
    BY <2>2 DEF AssetInv
  <2> QED BY <2>1, <2>3 DEF Judged
<1>8. StatusTrue'
  <2>1. SUFFICES ASSUME ~publication.stale, asset'.status # "pending"
                 PROVE  /\ asset'.status \in {"quarantined", asset'.file.outcome}
                        /\ asset'.file.reasons > 0 /\ origin' = "feed" => asset'.status = "quarantined"
    BY <1>5 DEF StatusTrue
  <2>2. asset'.file = f /\ asset'.status = PublishedStatus(f)
    BY <1>3, <2>1
  <2> QED BY <1>5, <2>1, <2>2 DEF PublishedStatus
<1> QED BY <1>3, <1>5, <1>6, <1>7, <1>8 DEF AssetInv

LEMMA ValidateKeeps ==
    ASSUME AssetInv, NEW v \in Validators, Validate(v)
    PROVE  AssetInv'
<1>1. PICK known \in {"passed", "malicious"} :
          validation' = [validation EXCEPT ![v] =
              [at |-> "scanned", verdict |-> Verdict(asset.file, known),
               evidence |-> Evidence(asset.file, known), stale |-> FALSE]]
  BY DEF Validate
<1>2. asset.file \in Files
  BY DEF Validate, Selected, AssetInv, AssetTyped, AssetRows
<1> DEFINE w == [at |-> "scanned", verdict |-> Verdict(asset.file, known),
                 evidence |-> Evidence(asset.file, known), stale |-> FALSE]
<1>3. w \in Validations
  BY <1>2, ScanFacts DEF Validations
<1>4. /\ w.verdict = Verdict(asset.file, known) /\ w.evidence = Evidence(asset.file, known)
  OBVIOUS
<1>5. validation' = [validation EXCEPT ![v] = w]
  BY <1>1
<1> HIDE DEF w
<1>6. Judged(w)
  BY <1>2, <1>4, ScanFacts DEF Judged
<1> QED BY <1>3, <1>5, <1>6, ValidationMoves DEF Validate

LEMMA ValidateCommitsKeeps ==
    ASSUME AssetInv, NEW v \in Validators, ValidateCommits(v)
    PROVE  AssetInv'
<1>1. PICK w : w = validation[v]
  OBVIOUS
<1>2. w \in Validations /\ Judged(w) /\ w.evidence \in Scans /\ w.verdict \in Verdicts
  BY <1>1 DEF ValidateCommits, AssetInv, AssetTyped, Validations
<1>3. /\ validation' = [validation EXCEPT ![v] = Away]
      /\ asset' = [asset EXCEPT !.status = w.verdict] /\ checks' = checks + 1
      /\ scans' = [risk |-> Least(100, scans.risk + w.evidence.risk),
                   passed |-> scans.passed \/ w.evidence.passed,
                   flagged |-> scans.flagged \/ w.evidence.flagged]
      /\ publication' = IF publication = Away THEN Away ELSE [publication EXCEPT !.stale = TRUE]
      /\ overlapped' = w.stale /\ UNCHANGED origin /\ checks < MaxChecks
  BY <1>1 DEF ValidateCommits
<1>4. asset' \in AssetRows /\ asset'.file = asset.file /\ asset'.status = w.verdict
  BY <1>2, <1>3 DEF AssetInv, AssetTyped, AssetRows
<1>5. /\ scans' \in Scans /\ scans'.risk = Least(100, scans.risk + w.evidence.risk)
      /\ scans'.flagged = (scans.flagged \/ w.evidence.flagged)
  <2>1. /\ Least(100, scans.risk + w.evidence.risk) \in Nat
        /\ (scans.passed \/ w.evidence.passed) \in BOOLEAN
        /\ (scans.flagged \/ w.evidence.flagged) \in BOOLEAN
    BY <1>2 DEF AssetInv, AssetTyped, Scans, Least
  <2>2. ASSUME NEW n \in Nat, NEW b \in BOOLEAN, NEW c \in BOOLEAN,
               scans' = [risk |-> n, passed |-> b, flagged |-> c]
        PROVE  scans' \in Scans /\ scans'.risk = n /\ scans'.flagged = c
    BY <2>2 DEF Scans
  <2> QED BY <1>3, <2>1, <2>2, Zenon
<1>6. /\ scans.risk \in Nat /\ w.evidence.risk \in Nat /\ w.evidence.risk > 0 /\ checks \in Nat
      /\ ~scans.flagged => scans.risk <= 3 * checks
      /\ ~w.evidence.flagged => w.evidence.risk <= 3
  BY <1>2 DEF AssetInv, AssetTyped, Scans, Judged
<1>7. /\ scans'.risk > 0 /\ scans'.risk <= 100 /\ checks' > 0
      /\ ~scans'.flagged => scans'.risk <= 3 * checks'
  <2>1. PICK n \in Nat, m \in Nat, k \in Nat :
            n = scans.risk /\ m = w.evidence.risk /\ k = checks
    BY <1>6
  <2>2. /\ m > 0
        /\ ~scans.flagged => n <= 3 * k
        /\ ~w.evidence.flagged => m <= 3
        /\ scans'.risk = Least(100, n + m) /\ checks' = k + 1
    BY <1>3, <1>5, <1>6, <2>1
  <2>3. Least(100, n + m) > 0 /\ Least(100, n + m) <= 100 /\ Least(100, n + m) <= n + m
    BY <2>2 DEF Least
  <2>4. ~scans'.flagged => ~scans.flagged /\ ~w.evidence.flagged
    BY <1>5, Zenon
  <2>5. n <= 3 * k /\ m <= 3 => n + m <= 3 * (k + 1)
    OBVIOUS
  <2>6. Least(100, n + m) \in Nat
    BY DEF Least
  <2>7. ~scans'.flagged => scans'.risk <= 3 * checks'
    <3> SUFFICES ASSUME ~scans'.flagged PROVE Least(100, n + m) <= 3 * (k + 1)
      BY <2>2
    <3>1. n + m <= 3 * (k + 1)
      BY <2>2, <2>4, <2>5
    <3> QED BY <2>3, <2>6, <3>1
  <2> QED BY <2>2, <2>3, <2>7
<1>8. /\ publication' \in Publications \cup {Away}
      /\ publication' # Away => publication'.stale
  BY <1>3 DEF AssetInv, AssetTyped, Publications
<1>9. AssetTyped'
  <2>1. validation' \in [Validators -> Validations \cup {Away}]
    BY <1>3 DEF AssetInv, AssetTyped
  <2>2. overlapped' \in BOOLEAN
    BY <1>2, <1>3 DEF Validations
  <2>3. checks' \in 0 .. MaxChecks
    BY <1>3, AssetAssumption DEF AssetInv, AssetTyped
  <2> QED BY <1>3, <1>4, <1>5, <1>7, <1>8, <2>1, <2>2, <2>3 DEF AssetInv, AssetTyped
<1>10. ASSUME NEW x \in Validators, validation'[x] # Away
       PROVE  Judged(validation[x])'
  <2>1. validation'[x] = validation[x] /\ validation[x] # Away
    BY <1>3, <1>10 DEF AssetInv, AssetTyped
  <2>2. Judged(validation[x])
    BY <2>1 DEF AssetInv
  <2> QED BY <1>4, <2>1, <2>2 DEF Judged
<1>11. StatusTrue'
  <2>1. ASSUME ~w.stale PROVE asset.file \in Files /\ VerdictOn(asset.file, w.verdict)
    BY <1>2, <2>1 DEF Judged
  <2>2. ASSUME ~w.stale PROVE asset.file.reasons \in Nat
    BY <2>1, <2>2, FileFacts
  <2> QED BY <1>3, <1>4, <2>1, <2>2 DEF StatusTrue, VerdictOn
<1>12. asset'.status = "quarantined" => scans'.flagged
  BY <1>2, <1>4, <1>5 DEF Judged
<1> QED BY <1>7, <1>8, <1>9, <1>10, <1>11, <1>12 DEF AssetInv

LEMMA NextAsset == AssetInv /\ [AssetNext]_assetVars => AssetInv'
<1> SUFFICES ASSUME AssetInv, [AssetNext]_assetVars PROVE AssetInv'
  OBVIOUS
<1>1. CASE UNCHANGED assetVars
  BY <1>1 DEF assetVars, AssetInv, AssetTyped, Judged, StatusTrue
<1>2. CASE PublishRollsBack
  BY <1>2, PublicationMoves DEF PublishRollsBack
<1>3. ASSUME NEW v \in Validators, ValidateStops(v) PROVE AssetInv'
  BY <1>3, ValidationMoves DEF ValidateStops
<1> QED BY <1>1, <1>2, <1>3, PublishReadsKeeps, PublishFlushesKeeps, PublishCommitsKeeps,
           ValidateKeeps, ValidateCommitsKeeps DEF AssetNext

\* Of any asset, for any number of validators and files (automation/jobs/validate.py beside
\* feed_publisher.py): unless the two overlapped, a status is a verdict on the file that is
\* there; a quarantined asset is seen on every page; and it takes a finding or twelve clean
\* scans to flag an application.
THEOREM VerdictsHold == AssetSpec => []AssetsHonest
<1>1. AssetInv => AssetsHonest
  <2> SUFFICES ASSUME AssetInv PROVE AssetsHonest
    OBVIOUS
  <2>1. scans.risk \in Nat /\ checks \in Nat
    BY DEF AssetInv, AssetTyped, Scans
  <2>2. QuarantineShown
    BY <2>1 DEF QuarantineShown, AssetInv, SecurityStatus, Audited
  <2>3. FlaggedForCause
    BY <2>1 DEF FlaggedForCause, AssetInv, SecurityStatus
  <2> QED BY <2>2, <2>3 DEF AssetsHonest, AssetInv
<1> QED BY AssetStart, NextAsset, <1>1, PTL DEF AssetSpec

--------------------------------------------------------------------------------
(* Edges, documents and profiles *)

Kinds       == {"edges", "documents", "profiles"}
AllLooks    == UNION {Looks[k] : k \in Kinds}
GraphRows   == [from : Apps, to : Apps, kind : {"alternative_to", "similar_to"}, score : Int, by : Jobs]
SignalNames == {"open_source", "repository", "signature", "hash", "maintainer", "org"}
ProfileRows == [signals : SUBSET SignalNames, score : {TrustScore(s) : s \in SUBSET SignalNames},
                status : {"verified", "pending", "unverified"}]
StagesOf(k) ==
    CASE k = "edges"     -> {"free", "rebuild"}
      [] k = "documents" -> {"free", "send"}
      [] k = "profiles"  -> {"free", "page", "visit", "one", "commit"}
JobStates ==
    [at : {"free", "rebuild", "send", "page", "visit", "one", "commit"}, todo : Seq(Apps), offset : Nat,
     visits : Nat, done : SUBSET (Apps \X Apps), dirty : SUBSET Apps, own : SUBSET GraphRows,
     waits : {"no", "insert", "update"}, view : [Apps -> AllLooks \cup {Unread}],
     profiles : [Apps -> ProfileRows \cup {NoProfile}]]

\* An edge of the right kind and score from p[1] to p[2], if they are near enough.
EdgeOf(x, y, rows, p) ==
    Worth(Similarity(x, y)) => \E e \in rows : /\ e.from = p[1] /\ e.to = p[2]
                                               /\ e.score = Similarity(x, y)
                                               /\ e.kind = EdgeKind(Similarity(x, y))

\* What is sound is as its definition says.
FreshPair(k, l, E, D, P, p) ==
    /\ k = "edges" => EdgeOf(l[p[1]], l[p[2]], E, p)
    /\ k = "documents" => D[p[1]] = l[p[1]]
    /\ k = "profiles" => P[p[1]].score = TrustScore(Signals(l[p[1]].evidence))

DerivedTyped ==
    /\ kind \in Kinds /\ looks \in [Apps -> AllLooks]
    /\ edges \subseteq GraphRows /\ documents \in [Apps -> AllLooks \cup {Unread}]
    /\ profiles \in [Apps -> ProfileRows \cup {NoProfile}]
    /\ job \in [Jobs -> JobStates]
    /\ sound \subseteq Apps \X Apps /\ (kind # "edges" => \A p \in sound : p[1] = p[2])

\* What a session has read of an application holds unless it was changed since.
Faithful(k, l, w) ==
    /\ w.at \in StagesOf(k)
    /\ w.at = "free" => \A a \in Apps : w.view[a] = Unread
    /\ \A a \in Apps : w.view[a] # Unread /\ a \notin w.dirty => w.view[a] = l[a]

\* The edges a session will write are those between the applications as it has read them.
GraphHonest(w) ==
    /\ \A o \in w.own : <<o.from, o.to>> \in w.done
    /\ \A p \in w.done : /\ w.view[p[1]] # Unread /\ w.view[p[2]] # Unread
                         /\ EdgeOf(w.view[p[1]], w.view[p[2]], w.own, p)

\* The profiles it will write are those of the applications as it has read them.
ProfilesHonest(w) ==
    /\ \A p \in w.done : p[1] = p[2]
    /\ \A a \in Apps : /\ w.profiles[a] # NoProfile <=> <<a, a>> \in w.done
                       /\ <<a, a>> \in w.done =>
                             /\ w.view[a] # Unread
                             /\ w.profiles[a].score = TrustScore(Signals(w.view[a].evidence))

JobHonest(k, l, w) ==
    /\ Faithful(k, l, w)
    /\ k = "edges" => GraphHonest(w)
    /\ k = "profiles" => ProfilesHonest(w)

DerivedInv ==
    /\ DerivedTyped
    /\ \A j \in Jobs : JobHonest(kind, looks, job[j])
    /\ \A p \in sound : FreshPair(kind, looks, edges, documents, profiles, p)

--------------------------------------------------------------------------------
(* Lemmas about the operators *)

LEMMA LooksFinite ==
    ASSUME DerivedAssumption, NEW x \in AllLooks
    PROVE  x # Unread /\ IsFiniteSet(x.tags) /\ IsFiniteSet(x.categories) /\ IsFiniteSet(x.platforms)
BY DEF DerivedAssumption, AllLooks, Kinds

LEMMA SharedIsFraction ==
    ASSUME NEW S, NEW T, IsFiniteSet(S), IsFiniteSet(T)
    PROVE  Shared(S, T)[1] \in Nat /\ Shared(S, T)[2] \in Nat /\ Shared(S, T)[2] > 0
<1>1. CASE S = {} \/ T = {}
    BY <1>1 DEF Shared
<1>2. CASE S # {} /\ T # {}
    <2>1. IsFiniteSet(S \cup T) /\ IsFiniteSet(S \cap T)
        BY FS_Union, FS_Intersection
    <2>2. Cardinality(S \cup T) \in Nat /\ Cardinality(S \cap T) \in Nat
        BY <2>1, FS_CardinalityType
    <2>3. Cardinality(S \cup T) # 0
        BY <1>2, <2>1, FS_EmptySet
    <2>q. QED BY <1>2, <2>2, <2>3 DEF Shared
<1>q. QED BY <1>1, <1>2

LEMMA Quotient ==
    ASSUME NEW num \in Nat, NEW den \in Nat, den > 0
    PROVE  (2 * num + den) \div (2 * den) \in Int
OBVIOUS

LEMMA Products ==
    ASSUME NEW a \in Nat, NEW b \in Nat, NEW c \in Nat
    PROVE  a * b * c \in Nat /\ (a > 0 /\ b > 0 /\ c > 0 => a * b * c > 0)
<1>1. a * b \in Nat /\ (a > 0 /\ b > 0 => a * b > 0)
    OBVIOUS
<1>2. \A d \in Nat : d * c \in Nat /\ (d > 0 /\ c > 0 => d * c > 0)
    OBVIOUS
<1>q. QED BY <1>1, <1>2

LEMMA SimilarityIsInt ==
    ASSUME DerivedAssumption, NEW x \in AllLooks, NEW y \in AllLooks
    PROVE  Similarity(x, y) \in Int
<1> DEFINE t == Shared(x.tags, y.tags)
           c == Shared(x.categories, y.categories)
           p == Shared(x.platforms, y.platforms)
           d == IF x.developer # 0 /\ x.developer = y.developer THEN 1 ELSE 0
           den == t[2] * c[2] * p[2]
           one == t[1] * c[2] * p[2]
           two == c[1] * t[2] * p[2]
           three == p[1] * t[2] * c[2]
           num == 5500 * t[1] * c[2] * p[2] + 3000 * c[1] * t[2] * p[2]
                  + 1000 * p[1] * t[2] * c[2] + 500 * d * den
<1>1. /\ t[1] \in Nat /\ t[2] \in Nat /\ t[2] > 0
      /\ c[1] \in Nat /\ c[2] \in Nat /\ c[2] > 0
      /\ p[1] \in Nat /\ p[2] \in Nat /\ p[2] > 0
    BY LooksFinite, SharedIsFraction
<1>2. d \in Nat
    OBVIOUS
<1>s. Similarity(x, y) = (2 * num + den) \div (2 * den)
    BY DEF Similarity
<1> HIDE DEF t, c, p, d
<1>3. den \in Nat /\ den > 0
    BY <1>1, Products
<1>4. /\ 5500 * t[1] * c[2] * p[2] \in Nat /\ 3000 * c[1] * t[2] * p[2] \in Nat
      /\ 1000 * p[1] * t[2] * c[2] \in Nat
    <2>1. 5500 * t[1] \in Nat /\ 3000 * c[1] \in Nat /\ 1000 * p[1] \in Nat
        BY <1>1
    <2>q. QED BY <1>1, <2>1, Products
<1>5. 500 * d * den \in Nat
    BY <1>2, <1>3, Products
<1>6. num \in Nat
    BY <1>4, <1>5
<1> HIDE DEF num, den
<1>q. QED BY <1>s, <1>3, <1>6, Quotient

LEMMA ProfileIsKnown ==
    ASSUME NEW look, NEW old
    PROVE  /\ Profile(look, old) \in ProfileRows /\ Profile(look, old) # NoProfile
           /\ Profile(look, old).score = TrustScore(Signals(look.evidence))
<1>1. Signals(look.evidence) \in SUBSET SignalNames
    BY DEF Signals, SignalNames
<1> DEFINE names == Signals(look.evidence)
<1>2. Status(names, old.status) \in {"verified", "pending", "unverified"}
    BY DEF Status
<1>3. Profile(look, old) = [signals |-> names \ {"org"}, score |-> TrustScore(names),
                            status |-> Status(names, old.status)]
    BY DEF Profile
<1> HIDE DEF names
<1>4. names \in SUBSET SignalNames
    BY <1>1 DEF names
<1>5. Profile(look, old).status # "none"
    BY <1>2, <1>3
<1>6. Profile(look, old).score = TrustScore(names)
    BY <1>3
<1>q. QED BY <1>2, <1>3, <1>4, <1>5, <1>6 DEF ProfileRows, NoProfile, names

LEMMA FirstIsList ==
    ASSUME NEW s \in Seq(Apps), NEW n \in Nat
    PROVE  First(s, n) \in Seq(Apps)
<1> DEFINE m == IF Len(s) < n THEN Len(s) ELSE n
<1>1. m \in Nat /\ m <= Len(s) /\ DOMAIN s = 1 .. Len(s) /\ Len(s) \in Nat
    OBVIOUS
<1>2. First(s, n) = SubSeq(s, 1, m)
    BY DEF First
<1> HIDE DEF m
<1>3. \A i \in 1 .. m : s[i] \in Apps
    BY <1>1
<1>q. QED BY <1>1, <1>2, <1>3, SubSeqProperties

LEMMA OrdersAreLists ==
    ASSUME DerivedAssumption, NEW s \in ByUpdate
    PROVE  s \in Seq(Apps)
<1>1. Cardinality(Apps) \in Nat
    BY FS_CardinalityType DEF DerivedAssumption
<1>2. s \in [1 .. Cardinality(Apps) -> Apps]
    BY DEF ByUpdate
<1>q. QED BY <1>1, <1>2

\* A page is a list of applications.
LEMMA PageIsList ==
    ASSUME DerivedAssumption, NEW s \in ByUpdate, NEW o \in Nat
    PROVE  First(SubSeq(s, o + 1, Len(s)), Batch) \in Seq(Apps)
<1>1. s \in Seq(Apps) /\ Batch \in Nat
    BY OrdersAreLists DEF DerivedAssumption
<1> DEFINE k == o + 1
           m == Len(s)
<1>2. k \in Int /\ m \in Int /\ k > 0
    BY <1>1
<1>3. \A i \in k .. m : s[i] \in Apps
    BY <1>1, <1>2
<1> HIDE DEF k, m
<1>4. SubSeq(s, k, m) \in Seq(Apps)
    BY <1>2, <1>3, SubSeqProperties
<1>q. QED BY <1>1, <1>4, FirstIsList DEF k, m

\* A session that has an application keeps it as it first was read.
LEMMA ViewReads ==
    ASSUME DerivedAssumption, DerivedTyped, NEW w \in JobStates, Faithful(kind, looks, w), NEW a \in Apps
    PROVE  /\ View(w, a) \in AllLooks /\ View(w, a) # Unread
           /\ w.view[a] # Unread => View(w, a) = w.view[a]
           /\ a \notin w.dirty => View(w, a) = looks[a]
<1>1. w.view[a] \in AllLooks \cup {Unread} /\ looks[a] \in AllLooks
    BY DEF JobStates, DerivedTyped
<1>2. looks[a] # Unread
    BY <1>1, LooksFinite
<1>3. w.view[a] # Unread /\ a \notin w.dirty => w.view[a] = looks[a]
    BY DEF Faithful
<1>q. QED BY <1>1, <1>2, <1>3 DEF View

LEMMA FreeIsHonest ==
    ASSUME NEW k \in Kinds, NEW l
    PROVE  Free \in JobStates /\ JobHonest(k, l, Free)
<1>1. Free \in JobStates
    BY DEF Free, JobStates
<1>2. Faithful(k, l, Free)
    BY DEF Free, Faithful, StagesOf, Kinds
<1>4. GraphHonest(Free)
    BY DEF Free, GraphHonest
<1>5. ProfilesHonest(Free)
    BY DEF Free, ProfilesHonest
<1>q. QED BY <1>1, <1>2, <1>4, <1>5 DEF JobHonest

LEMMA DerivedStarts ==
    ASSUME DerivedAssumption, DerivedInit
    PROVE  DerivedInv
<1>1. kind \in Kinds /\ looks \in [Apps -> AllLooks]
    BY DEF DerivedInit, Kinds, AllLooks
<1>3. Free \in JobStates /\ JobHonest(kind, looks, Free)
    BY <1>1, FreeIsHonest
<1>4. job = [j \in Jobs |-> Free] /\ edges = {} /\ sound = {}
    BY DEF DerivedInit
<1>5. job \in [Jobs -> JobStates] /\ \A j \in Jobs : JobHonest(kind, looks, job[j])
    BY <1>3, <1>4
<1>6. documents \in [Apps -> AllLooks \cup {Unread}] /\ profiles \in [Apps -> ProfileRows \cup {NoProfile}]
    BY DEF DerivedInit
<1>q. QED BY <1>1, <1>4, <1>5, <1>6 DEF DerivedInv, DerivedTyped

\* A session that moves, and changes no table, keeps the invariant if it is honest after it.
LEMMA SessionMoves ==
    ASSUME DerivedInv, NEW j \in Jobs, NEW w \in JobStates, JobHonest(kind, looks, w),
           job' = [job EXCEPT ![j] = w],
           UNCHANGED <<kind, looks, edges, documents, profiles, sound>>
    PROVE  DerivedInv'
<1>1. DerivedTyped /\ job \in [Jobs -> JobStates]
    BY DEF DerivedInv, DerivedTyped
<1>2. /\ kind' = kind /\ looks' = looks /\ edges' = edges
      /\ documents' = documents /\ profiles' = profiles /\ sound' = sound
    OBVIOUS
<1>3. job' \in [Jobs -> JobStates]
    BY <1>1
<1>4. DerivedTyped'
    BY <1>1, <1>2, <1>3 DEF DerivedTyped
<1>5. \A i \in Jobs : JobHonest(kind, looks, job'[i])
    <2>1. TAKE i \in Jobs
    <2>2. CASE i = j
        BY <1>1, <2>2
    <2>3. CASE i # j
        <3>1. job'[i] = job[i]
            BY <1>1, <2>3
        <3>q. QED BY <3>1 DEF DerivedInv
    <2>q. QED BY <2>2, <2>3
<1>6. \A p \in sound : FreshPair(kind, looks, edges, documents, profiles, p)
    BY DEF DerivedInv
<1>7. \A i \in Jobs : JobHonest(kind', looks', job'[i])
    BY <1>2, <1>5
<1>8. \A p \in sound' : FreshPair(kind', looks', edges', documents', profiles', p)
    BY <1>2, <1>6
<1>q. QED BY <1>4, <1>7, <1>8 DEF DerivedInv

\* A session that commits keeps the invariant if what is sound after it is so.
LEMMA SessionFinishes ==
    ASSUME DerivedInv, NEW j \in Jobs, NEW pairs \in SUBSET (Apps \X Apps), Finish(j, pairs),
           kind # "edges" => \A p \in pairs : p[1] = p[2],
           edges' \subseteq GraphRows, documents' \in [Apps -> AllLooks \cup {Unread}],
           profiles' \in [Apps -> ProfileRows \cup {NoProfile}],
           \A p \in sound \ pairs : FreshPair(kind, looks, edges', documents', profiles', p),
           \A p \in pairs : p[1] \notin job[j].dirty /\ p[2] \notin job[j].dirty =>
                                 FreshPair(kind, looks, edges', documents', profiles', p)
    PROVE  DerivedInv'
<1>1. DerivedTyped /\ job \in [Jobs -> JobStates] /\ kind \in Kinds
    BY DEF DerivedInv, DerivedTyped
<1>2. kind' = kind /\ looks' = looks /\ job' = [job EXCEPT ![j] = Free]
    BY DEF Finish, applications
<1>3. sound' = (sound \ pairs) \cup {p \in pairs : p[1] \notin job[j].dirty /\ p[2] \notin job[j].dirty}
    BY DEF Finish
<1>4. Free \in JobStates /\ JobHonest(kind, looks, Free)
    BY <1>1, FreeIsHonest
<1>5. job' \in [Jobs -> JobStates]
    BY <1>1, <1>2, <1>4
<1>6. sound' \subseteq Apps \X Apps /\ (kind # "edges" => \A p \in sound' : p[1] = p[2])
    BY <1>1, <1>3 DEF DerivedTyped
<1>7. DerivedTyped'
    BY <1>1, <1>2, <1>5, <1>6 DEF DerivedTyped
<1>8. \A i \in Jobs : JobHonest(kind, looks, job'[i])
    <2>1. TAKE i \in Jobs
    <2>2. CASE i = j
        BY <1>1, <1>2, <1>4, <2>2
    <2>3. CASE i # j
        <3>1. job'[i] = job[i]
            BY <1>1, <1>2, <2>3
        <3>q. QED BY <3>1 DEF DerivedInv
    <2>q. QED BY <2>2, <2>3
<1>9. \A p \in sound' : FreshPair(kind, looks, edges', documents', profiles', p)
    BY <1>3
<1>10. \A i \in Jobs : JobHonest(kind', looks', job'[i])
    BY <1>2, <1>8
<1>11. \A p \in sound' : FreshPair(kind', looks', edges', documents', profiles', p)
    BY <1>2, <1>9
<1>q. QED BY <1>7, <1>10, <1>11 DEF DerivedInv

--------------------------------------------------------------------------------
(* Changes of applications *)

LEMMA TouchKeeps ==
    ASSUME DerivedAssumption, DerivedInv, NEW a \in Apps, NEW look \in Looks[kind], Touch(a, look)
    PROVE  DerivedInv'
<1>1. DerivedTyped /\ job \in [Jobs -> JobStates] /\ kind \in Kinds /\ looks \in [Apps -> AllLooks]
    BY DEF DerivedInv, DerivedTyped
<1>2. /\ kind' = kind /\ looks' = [looks EXCEPT ![a] = look]
      /\ edges' = edges /\ documents' = documents /\ profiles' = profiles
    BY DEF Touch, derived
<1>3. sound' = {p \in sound : a \notin {p[1], p[2]}}
    BY DEF Touch
<1>4. job' = [j \in Jobs |-> IF job[j].at = "free" THEN job[j]
                             ELSE [job[j] EXCEPT !.dirty = @ \cup {a}]]
    BY DEF Touch
<1>5. look \in AllLooks
    BY <1>1 DEF AllLooks
<1>6. looks' \in [Apps -> AllLooks] /\ \A b \in Apps : b # a => looks'[b] = looks[b]
    BY <1>1, <1>2, <1>5
<1>10. ASSUME NEW j \in Jobs
       PROVE  job'[j] \in JobStates /\ JobHonest(kind, looks', job'[j])
    <2> DEFINE w == job[j]
               v == [w EXCEPT !.dirty = @ \cup {a}]
    <2>1. w \in JobStates /\ JobHonest(kind, looks, w)
        BY <1>1 DEF DerivedInv
    <2>2. job'[j] = IF w.at = "free" THEN w ELSE v
        BY <1>4
    <2> HIDE DEF w
    <2>3. CASE w.at = "free"
        \* It has read nothing.
        <3>1. Faithful(kind, looks', w)
            BY <2>1, <2>3 DEF JobHonest, Faithful
        <3>q. QED BY <2>1, <2>2, <2>3, <3>1 DEF JobHonest
    <2>4. CASE w.at # "free"
        <3>1. v \in JobStates
            BY <2>1 DEF JobStates
        <3>2. /\ v.at = w.at /\ v.todo = w.todo /\ v.offset = w.offset /\ v.done = w.done
              /\ v.own = w.own /\ v.view = w.view /\ v.profiles = w.profiles
              /\ v.dirty = w.dirty \cup {a}
            BY <2>1 DEF JobStates
        <3> HIDE DEF v
        <3>3. Faithful(kind, looks', v)
            BY <1>6, <2>1, <3>2 DEF JobHonest, Faithful
        <3>6. GraphHonest(w) => GraphHonest(v)
            BY <3>2 DEF GraphHonest
        <3>7. ProfilesHonest(w) => ProfilesHonest(v)
            BY <3>2 DEF ProfilesHonest
        <3>8. JobHonest(kind, looks', v)
            BY <2>1, <3>3, <3>6, <3>7 DEF JobHonest
        <3>q. QED BY <2>2, <2>4, <3>1, <3>8
    <2>q. QED BY <2>3, <2>4
<1>11. sound' \subseteq Apps \X Apps /\ (kind # "edges" => \A p \in sound' : p[1] = p[2])
    BY <1>1, <1>3 DEF DerivedTyped
<1>12. job' \in [Jobs -> JobStates]
    BY <1>4, <1>10
<1>13. DerivedTyped'
    BY <1>1, <1>2, <1>6, <1>11, <1>12 DEF DerivedTyped
<1>14. ASSUME NEW p \in sound'
       PROVE  FreshPair(kind, looks', edges, documents, profiles, p)
    <2>1. p \in sound /\ p[1] # a /\ p[2] # a
        BY <1>3
    <2>2. p[1] \in Apps /\ p[2] \in Apps
        BY <1>1, <2>1 DEF DerivedTyped
    <2>3. looks'[p[1]] = looks[p[1]] /\ looks'[p[2]] = looks[p[2]]
        BY <1>6, <2>1, <2>2
    <2>4. FreshPair(kind, looks, edges, documents, profiles, p)
        BY <2>1 DEF DerivedInv
    <2>q. QED BY <2>3, <2>4 DEF FreshPair
<1>15. \A j \in Jobs : JobHonest(kind', looks', job'[j])
    BY <1>2, <1>10
<1>16. \A p \in sound' : FreshPair(kind', looks', edges', documents', profiles', p)
    BY <1>2, <1>14
<1>q. QED BY <1>13, <1>15, <1>16 DEF DerivedInv

--------------------------------------------------------------------------------
(* Steps of sessions *)

\* Starting and working move a session.
LEMMA MovesKeep ==
    ASSUME DerivedInv, NEW j \in Jobs, NEW w \in JobStates, JobHonest(kind, looks, w),
           Start(j, w) \/ Work(j, w)
    PROVE  DerivedInv'
<1>1. /\ job' = [job EXCEPT ![j] = w]
      /\ UNCHANGED <<kind, looks, edges, documents, profiles, sound>>
    BY DEF Start, Work, applications, derived
<1>q. QED BY <1>1, SessionMoves

\* A session that has read what is there and done nothing yet is honest.
LEMMA BeginsHonest ==
    ASSUME DerivedInv, NEW w \in JobStates, w.at \in StagesOf(kind) \ {"free", "visit", "commit"},
           w.done = {}, w.own = {}, w.profiles = [a \in Apps |-> NoProfile],
           \A a \in Apps : w.view[a] \in {Unread, looks[a]}
    PROVE  JobHonest(kind, looks, w)
<1>1. Faithful(kind, looks, w)
    BY DEF Faithful
<1>3. GraphHonest(w)
    BY DEF GraphHonest
<1>4. ProfilesHonest(w)
    BY DEF ProfilesHonest
<1>q. QED BY <1>1, <1>3, <1>4 DEF JobHonest

LEMMA StartsKeep ==
    ASSUME DerivedAssumption, DerivedInv, NEW j \in Jobs,
           \/ StartGraph(j) \/ StartIndexing(j) \/ StartProfiles(j)
           \/ \E a \in Apps : StartRebuild(j, a) \/ ReadProfile(j, a)
    PROVE  DerivedInv'
<1>1. DerivedTyped /\ kind \in Kinds /\ looks \in [Apps -> AllLooks]
    BY DEF DerivedInv, DerivedTyped
<1>2. Free \in JobStates
    BY <1>1, FreeIsHonest
<1>3. /\ Free.done = {} /\ Free.own = {} /\ Free.profiles = [a \in Apps |-> NoProfile]
      /\ Free.view = [a \in Apps |-> Unread]
    BY DEF Free
<1>4. CASE StartGraph(j)
    <2>p. PICK s \in ByUpdate : Start(j, [Free EXCEPT !.at = "rebuild", !.todo = First(s, RefreshLimit)])
        BY <1>4 DEF StartGraph
    <2> DEFINE w == [Free EXCEPT !.at = "rebuild", !.todo = First(s, RefreshLimit)]
    <2>1. First(s, RefreshLimit) \in Seq(Apps)
        BY OrdersAreLists, FirstIsList DEF DerivedAssumption
    <2>2. kind = "edges" /\ Start(j, w)
        BY <1>4, <2>p DEF StartGraph
    <2>3. w \in JobStates /\ w.at = "rebuild"
        BY <1>2, <2>1 DEF JobStates
    <2>4. /\ w.done = {} /\ w.own = {} /\ w.profiles = [a \in Apps |-> NoProfile]
          /\ w.view = [a \in Apps |-> Unread]
        BY <1>2, <1>3 DEF JobStates
    <2> HIDE DEF w
    <2>5. w.at \in StagesOf(kind) \ {"free", "visit", "commit"}
        BY <2>2, <2>3 DEF StagesOf
    <2>6. JobHonest(kind, looks, w)
        BY <2>3, <2>4, <2>5, BeginsHonest
    <2>q. QED BY <2>2, <2>3, <2>6, MovesKeep
<1>5. CASE StartIndexing(j)
    <2> DEFINE w == [Free EXCEPT !.at = "send", !.view = looks]
    <2>2. kind = "documents" /\ Start(j, w)
        BY <1>5 DEF StartIndexing
    <2>3. w \in JobStates /\ w.at = "send"
        BY <1>1, <1>2 DEF JobStates
    <2>4. /\ w.done = {} /\ w.own = {} /\ w.profiles = [a \in Apps |-> NoProfile]
          /\ w.view = looks
        BY <1>2, <1>3 DEF JobStates
    <2> HIDE DEF w
    <2>5. w.at \in StagesOf(kind) \ {"free", "visit", "commit"}
        BY <2>2, <2>3 DEF StagesOf
    <2>6. JobHonest(kind, looks, w)
        BY <2>3, <2>4, <2>5, BeginsHonest
    <2>q. QED BY <2>2, <2>3, <2>6, MovesKeep
<1>6. CASE StartProfiles(j)
    <2> DEFINE w == [Free EXCEPT !.at = "page"]
    <2>2. kind = "profiles" /\ Start(j, w)
        BY <1>6 DEF StartProfiles
    <2>3. w \in JobStates /\ w.at = "page"
        BY <1>2 DEF JobStates
    <2>4. /\ w.done = {} /\ w.own = {} /\ w.profiles = [a \in Apps |-> NoProfile]
          /\ w.view = [a \in Apps |-> Unread]
        BY <1>2, <1>3 DEF JobStates
    <2> HIDE DEF w
    <2>5. w.at \in StagesOf(kind) \ {"free", "visit", "commit"}
        BY <2>2, <2>3 DEF StagesOf
    <2>6. JobHonest(kind, looks, w)
        BY <2>3, <2>4, <2>5, BeginsHonest
    <2>q. QED BY <2>2, <2>3, <2>6, MovesKeep
<1>7. ASSUME NEW a \in Apps, StartRebuild(j, a)
      PROVE  DerivedInv'
    <2> DEFINE w == [Free EXCEPT !.at = "rebuild", !.todo = <<a>>]
    <2>2. kind = "edges" /\ Start(j, w)
        BY <1>7 DEF StartRebuild
    <2>1. <<a>> \in Seq(Apps)
        OBVIOUS
    <2>3. w \in JobStates /\ w.at = "rebuild"
        BY <1>2, <2>1 DEF JobStates
    <2>4. /\ w.done = {} /\ w.own = {} /\ w.profiles = [b \in Apps |-> NoProfile]
          /\ w.view = [b \in Apps |-> Unread]
        BY <1>2, <1>3 DEF JobStates
    <2> HIDE DEF w
    <2>5. w.at \in StagesOf(kind) \ {"free", "visit", "commit"}
        BY <2>2, <2>3 DEF StagesOf
    <2>6. JobHonest(kind, looks, w)
        BY <2>3, <2>4, <2>5, BeginsHonest
    <2>q. QED BY <2>2, <2>3, <2>6, MovesKeep
<1>9. ASSUME NEW a \in Apps, ReadProfile(j, a)
      PROVE  DerivedInv'
    <2> DEFINE w == [Free EXCEPT !.at = "one", !.todo = <<a>>]
    <2>2. kind = "profiles" /\ Start(j, w)
        BY <1>9 DEF ReadProfile
    <2>1. <<a>> \in Seq(Apps)
        OBVIOUS
    <2>3. w \in JobStates /\ w.at = "one"
        BY <1>2, <2>1 DEF JobStates
    <2>4. /\ w.done = {} /\ w.own = {} /\ w.profiles = [b \in Apps |-> NoProfile]
          /\ w.view = [b \in Apps |-> Unread]
        BY <1>2, <1>3 DEF JobStates
    <2> HIDE DEF w
    <2>5. w.at \in StagesOf(kind) \ {"free", "visit", "commit"}
        BY <2>2, <2>3 DEF StagesOf
    <2>6. JobHonest(kind, looks, w)
        BY <2>3, <2>4, <2>5, BeginsHonest
    <2>q. QED BY <2>2, <2>3, <2>6, MovesKeep
<1>q. QED BY <1>4, <1>5, <1>6, <1>7, <1>9

--------------------------------------------------------------------------------
(* The graph *)

\* The rows a rebuild makes: one to each application found that is near enough.
LEMMA RebuiltRows ==
    ASSUME edges \subseteq GraphRows, NEW j \in Jobs, NEW a \in Apps, NEW found \in SUBSET Apps,
           \A b \in found : Similarity(View(job[j], a), View(job[j], b)) \in Int
    PROVE  /\ Rebuilt(j, a, found) \subseteq GraphRows
           /\ \A o \in Rebuilt(j, a, found) : o.from = a /\ o.to \in found
           /\ \A b \in found :
                 EdgeOf(View(job[j], a), View(job[j], b), Rebuilt(j, a, found), <<a, b>>)
<1> DEFINE score(b) == Similarity(View(job[j], a), View(job[j], b))
           seen(b)  == {e \in edges : e.from = a /\ e.to = b /\ e.kind = EdgeKind(score(b))}
           by(b)    == IF seen(b) = {} THEN j ELSE (CHOOSE e \in seen(b) : TRUE).by
           row(b)   == [from |-> a, to |-> b, kind |-> EdgeKind(score(b)), score |-> score(b), by |-> by(b)]
<1>1. Rebuilt(j, a, found) = {row(b) : b \in {x \in found : Worth(score(x))}}
    BY DEF Rebuilt
<1>2. \A b \in found : by(b) \in Jobs
    <2>1. TAKE b \in found
    <2>2. CASE seen(b) = {}
        BY <2>2
    <2>3. CASE seen(b) # {}
        <3>1. (CHOOSE e \in seen(b) : TRUE) \in seen(b)
            BY <2>3
        <3>2. \A e \in seen(b) : e \in edges
            OBVIOUS
        <3> HIDE DEF seen
        <3>3. (CHOOSE e \in seen(b) : TRUE).by \in Jobs
            BY <3>1, <3>2 DEF GraphRows
        <3>q. QED BY <2>3, <3>3
    <2>q. QED BY <2>2, <2>3
<1>3. \A b \in found : score(b) \in Int
    OBVIOUS
<1>4. \A b \in found : EdgeKind(score(b)) \in {"alternative_to", "similar_to"}
    BY DEF EdgeKind
<1> HIDE DEF by, seen, score
<1>5. \A b \in found : row(b) \in GraphRows
    BY <1>2, <1>3, <1>4 DEF GraphRows
<1>6. \A b \in found : /\ row(b).from = a /\ row(b).to = b /\ row(b).score = score(b)
                        /\ row(b).kind = EdgeKind(score(b))
    OBVIOUS
<1> HIDE DEF row
<1>7. ASSUME NEW b \in found
      PROVE  EdgeOf(View(job[j], a), View(job[j], b), Rebuilt(j, a, found), <<a, b>>)
    <2>1. Worth(score(b)) => row(b) \in Rebuilt(j, a, found)
        BY <1>1
    <2>2. Worth(score(b)) => \E e \in Rebuilt(j, a, found) :
                                /\ e.from = a /\ e.to = b /\ e.score = score(b)
                                /\ e.kind = EdgeKind(score(b))
        BY <1>6, <2>1
    <2>q. QED BY <2>2 DEF EdgeOf, score
<1>8. Rebuilt(j, a, found) \subseteq GraphRows
    BY <1>1, <1>5
<1>9. \A o \in Rebuilt(j, a, found) : o.from = a /\ o.to \in found
    BY <1>1, <1>6
<1>q. QED BY <1>7, <1>8, <1>9

LEMMA RebuildKeeps ==
    ASSUME DerivedAssumption, DerivedInv, NEW j \in Jobs, Rebuild(j)
    PROVE  DerivedInv'
<1> DEFINE w == job[j]
           a == Head(w.todo)
           candidates == {b \in Apps \ {a} : Related(View(w, a), looks[b])}
<1>1. DerivedTyped /\ kind \in Kinds /\ edges \subseteq GraphRows
    BY DEF DerivedInv, DerivedTyped
<1>2. w \in JobStates /\ JobHonest(kind, looks, w)
    BY <1>1 DEF DerivedInv, DerivedTyped
<1>3. w.at = "rebuild" /\ w.todo # <<>>
    BY SMTT(30) DEF Rebuild
<1>4. PICK found \in SUBSET candidates :
          Work(j, [w EXCEPT
                     !.todo = Tail(@),
                     !.view = [x \in Apps |-> IF x \in found \cup {a} THEN View(w, x) ELSE @[x]],
                     !.own = @ \cup Rebuilt(j, a, found),
                     !.done = @ \cup {<<a, b>> : b \in found}])
    BY DEF Rebuild
<1> DEFINE v == [w EXCEPT
                     !.todo = Tail(@),
                     !.view = [x \in Apps |-> IF x \in found \cup {a} THEN View(w, x) ELSE @[x]],
                     !.own = @ \cup Rebuilt(j, a, found),
                     !.done = @ \cup {<<a, b>> : b \in found}]
           added == Rebuilt(j, a, found)
<1>5. kind = "edges"
    BY <1>1, <1>2, <1>3 DEF JobHonest, Faithful, StagesOf, Kinds
<1>6. a \in Apps /\ Tail(w.todo) \in Seq(Apps)
    BY <1>2, <1>3, HeadTailProperties DEF JobStates
<1>7. found \subseteq Apps
    OBVIOUS
<1>9. Faithful(kind, looks, w)
    BY <1>2 DEF JobHonest
<1>w. \A x \in Apps : /\ View(w, x) \in AllLooks /\ View(w, x) # Unread
                      /\ w.view[x] # Unread => View(w, x) = w.view[x]
                      /\ x \notin w.dirty => View(w, x) = looks[x]
    BY <1>1, <1>2, <1>9, ViewReads
<1> HIDE DEF w, a, candidates
<1>10. \A b \in found : Similarity(View(w, a), View(w, b)) \in Int
    BY <1>6, <1>7, <1>w, SimilarityIsInt
<1>11. added \subseteq GraphRows
    BY <1>1, <1>6, <1>7, <1>10, RebuiltRows DEF w
<1>12. \A o \in added : o.from = a /\ o.to \in found
    BY <1>1, <1>6, <1>7, <1>10, RebuiltRows DEF w
<1>13. \A b \in found : EdgeOf(View(w, a), View(w, b), added, <<a, b>>)
    BY <1>1, <1>6, <1>7, <1>10, RebuiltRows DEF w
<1> HIDE DEF added
<1>14. /\ v.at = "rebuild" /\ v.dirty = w.dirty /\ v.waits = w.waits
       /\ v.profiles = w.profiles /\ v.todo = Tail(w.todo)
    BY <1>2, <1>3 DEF JobStates
<1>15. /\ v.own = w.own \cup added /\ v.done = w.done \cup {<<a, b>> : b \in found}
       /\ v.view = [x \in Apps |-> IF x \in found \cup {a} THEN View(w, x) ELSE w.view[x]]
    BY <1>2 DEF JobStates, added
<1>16. v.view \in [Apps -> AllLooks \cup {Unread}]
    BY <1>2, <1>15, <1>w DEF JobStates
<1>17. v \in JobStates
    <2>1. v.own \subseteq GraphRows
        BY <1>2, <1>11, <1>15 DEF JobStates
    <2>2. v.done \subseteq Apps \X Apps
        BY <1>2, <1>6, <1>7, <1>15 DEF JobStates
    <2>3. v = [w EXCEPT !.todo = Tail(w.todo), !.view = v.view, !.own = v.own, !.done = v.done]
        BY <1>2, <1>15 DEF JobStates, added
    <2> HIDE DEF v
    <2>q. QED BY <1>2, <1>6, <1>16, <2>1, <2>2, <2>3 DEF JobStates
<1> HIDE DEF v
<1>18. \A x \in Apps : w.view[x] # Unread => v.view[x] = w.view[x]
    BY <1>15, <1>w
<1>19. Faithful(kind, looks, v)
    <2>1. \A x \in Apps : v.view[x] # Unread /\ x \notin v.dirty => v.view[x] = looks[x]
        BY <1>9, <1>14, <1>15, <1>w DEF Faithful
    <2>q. QED BY <1>5, <1>14, <2>1 DEF Faithful, StagesOf
<1>21. GraphHonest(v)
    <2>1. GraphHonest(w)
        BY <1>2, <1>5 DEF JobHonest
    <2>2. \A o \in v.own : <<o.from, o.to>> \in v.done
        BY <1>12, <1>15, <2>1 DEF GraphHonest
    <2>3. ASSUME NEW p \in w.done
          PROVE  /\ v.view[p[1]] # Unread /\ v.view[p[2]] # Unread
                 /\ EdgeOf(v.view[p[1]], v.view[p[2]], v.own, p)
        <3>1. p[1] \in Apps /\ p[2] \in Apps
            BY <1>2 DEF JobStates
        <3>2. /\ w.view[p[1]] # Unread /\ w.view[p[2]] # Unread
              /\ EdgeOf(w.view[p[1]], w.view[p[2]], w.own, p)
            BY <2>1 DEF GraphHonest
        <3>3. v.view[p[1]] = w.view[p[1]] /\ v.view[p[2]] = w.view[p[2]]
            BY <1>18, <3>1, <3>2
        <3>q. QED BY <1>15, <3>2, <3>3 DEF EdgeOf
    <2>4. ASSUME NEW b \in found
          PROVE  /\ v.view[a] # Unread /\ v.view[b] # Unread
                 /\ EdgeOf(v.view[a], v.view[b], v.own, <<a, b>>)
        <3>1. v.view[a] = View(w, a) /\ v.view[b] = View(w, b)
            BY <1>6, <1>7, <1>15
        <3>2. View(w, a) # Unread /\ View(w, b) # Unread
            BY <1>6, <1>7, <1>w
        <3>3. EdgeOf(View(w, a), View(w, b), v.own, <<a, b>>)
            BY <1>13, <1>15 DEF EdgeOf
        <3>q. QED BY <3>1, <3>2, <3>3
    <2>5. ASSUME NEW p \in v.done
          PROVE  /\ v.view[p[1]] # Unread /\ v.view[p[2]] # Unread
                 /\ EdgeOf(v.view[p[1]], v.view[p[2]], v.own, p)
        <3>1. CASE p \in w.done
            BY <2>3, <3>1
        <3>2. CASE p \notin w.done
            <4>1. PICK b \in found : p = <<a, b>>
                BY <1>15, <3>2
            <4>q. QED BY <2>4, <4>1
        <3>q. QED BY <3>1, <3>2
    <2>q. QED BY <2>2, <2>5 DEF GraphHonest
<1>22. JobHonest(kind, looks, v)
    BY <1>5, <1>19, <1>21 DEF JobHonest
<1>23. Work(j, v)
    BY <1>4 DEF v, w, a
<1>q. QED BY <1>17, <1>22, <1>23, MovesKeep

LEMMA CommitGraphKeeps ==
    ASSUME DerivedAssumption, DerivedInv, NEW j \in Jobs, CommitGraph(j)
    PROVE  DerivedInv'
<1> DEFINE w == job[j]
<1>1. DerivedTyped /\ kind \in Kinds /\ edges \subseteq GraphRows /\ looks \in [Apps -> AllLooks]
    BY DEF DerivedInv, DerivedTyped
<1>2. w \in JobStates /\ JobHonest(kind, looks, w)
    BY <1>1 DEF DerivedInv, DerivedTyped
<1>3. /\ w.at = "rebuild" /\ Finish(j, w.done) /\ documents' = documents /\ profiles' = profiles
      /\ edges' = {e \in edges : ~Replaced(e, w.own)} \cup w.own
    BY DEF CommitGraph
<1>4. kind = "edges"
    BY <1>1, <1>2, <1>3 DEF JobHonest, Faithful, StagesOf, Kinds
<1> HIDE DEF w
<1>5. GraphHonest(w) /\ Faithful(kind, looks, w)
    BY <1>2, <1>4 DEF JobHonest
<1>6. w.own \subseteq GraphRows /\ w.done \in SUBSET (Apps \X Apps)
    BY <1>2 DEF JobStates
<1>7. edges' \subseteq GraphRows
    BY <1>1, <1>3, <1>6
<1>8. ASSUME NEW e \in edges, NEW o \in w.own, [o EXCEPT !.score = 0] = [e EXCEPT !.score = 0]
      PROVE  o.from = e.from /\ o.to = e.to
    <2>1. o \in GraphRows /\ e \in GraphRows
        BY <1>1, <1>6
    <2>2. /\ [o EXCEPT !.score = 0].from = o.from /\ [o EXCEPT !.score = 0].to = o.to
          /\ [e EXCEPT !.score = 0].from = e.from /\ [e EXCEPT !.score = 0].to = e.to
        BY <2>1 DEF GraphRows
    <2>q. QED BY <1>8, <2>2
<1>9. ASSUME NEW p \in sound \ w.done
      PROVE  FreshPair(kind, looks, edges', documents', profiles', p)
    <2>1. FreshPair(kind, looks, edges, documents, profiles, p) /\ p \in Apps \X Apps
        BY <1>1 DEF DerivedInv, DerivedTyped
    <2>2. EdgeOf(looks[p[1]], looks[p[2]], edges, p)
        BY <1>4, <2>1 DEF FreshPair
    <2>3. ASSUME NEW e \in edges, e.from = p[1], e.to = p[2]
          PROVE  e \in edges'
        <3>1. ASSUME NEW o \in w.own, [o EXCEPT !.score = 0] = [e EXCEPT !.score = 0]
              PROVE  FALSE
            <4>1. o.from = p[1] /\ o.to = p[2]
                BY <1>8, <2>3, <3>1
            <4>2. <<p[1], p[2]>> \in w.done
                BY <1>5, <4>1 DEF GraphHonest
            <4>q. QED BY <2>1, <4>2
        <3>q. QED BY <1>3, <3>1 DEF Replaced
    <2>4. EdgeOf(looks[p[1]], looks[p[2]], edges', p)
        BY <2>2, <2>3 DEF EdgeOf
    <2>q. QED BY <1>4, <2>4 DEF FreshPair
<1>10. ASSUME NEW p \in w.done, p[1] \notin w.dirty, p[2] \notin w.dirty
       PROVE  FreshPair(kind, looks, edges', documents', profiles', p)
    <2>1. p[1] \in Apps /\ p[2] \in Apps
        BY <1>6
    <2>2. /\ w.view[p[1]] # Unread /\ w.view[p[2]] # Unread
          /\ EdgeOf(w.view[p[1]], w.view[p[2]], w.own, p)
        BY <1>5 DEF GraphHonest
    <2>3. w.view[p[1]] = looks[p[1]] /\ w.view[p[2]] = looks[p[2]]
        BY <1>5, <1>10, <2>1, <2>2 DEF Faithful
    <2>4. EdgeOf(looks[p[1]], looks[p[2]], edges', p)
        BY <1>3, <2>2, <2>3 DEF EdgeOf
    <2>q. QED BY <1>4, <2>4 DEF FreshPair
<1>11. /\ documents' \in [Apps -> AllLooks \cup {Unread}]
       /\ profiles' \in [Apps -> ProfileRows \cup {NoProfile}]
    BY <1>1, <1>3 DEF DerivedTyped
<1>q. QED BY <1>3, <1>4, <1>6, <1>7, <1>9, <1>10, <1>11, SessionFinishes DEF w

--------------------------------------------------------------------------------
(* The index *)

LEMMA SendKeeps ==
    ASSUME DerivedAssumption, DerivedInv, NEW j \in Jobs, SendDocuments(j)
    PROVE  DerivedInv'
<1> DEFINE w == job[j]
           sent == {a \in Apps : w.view[a] # Unread}
           pairs == {<<a, a>> : a \in sent}
<1>1. DerivedTyped /\ kind \in Kinds
    BY DEF DerivedInv, DerivedTyped
<1>2. w \in JobStates /\ JobHonest(kind, looks, w)
    BY <1>1 DEF DerivedInv, DerivedTyped
<1>3. /\ w.at = "send" /\ Finish(j, pairs) /\ edges' = edges /\ profiles' = profiles
      /\ documents' = [a \in Apps |-> IF a \in sent THEN w.view[a] ELSE documents[a]]
    BY DEF SendDocuments
<1>4. kind = "documents"
    BY <1>1, <1>2, <1>3 DEF JobHonest, Faithful, StagesOf, Kinds
<1>5. pairs \in SUBSET (Apps \X Apps) /\ \A p \in pairs : p[1] = p[2] /\ p[1] \in sent
    OBVIOUS
<1>6. \A p \in sound : p \in Apps \X Apps /\ p[1] = p[2] /\ FreshPair(kind, looks, edges, documents, profiles, p)
    BY <1>1, <1>4 DEF DerivedInv, DerivedTyped
<1>7. documents' \in [Apps -> AllLooks \cup {Unread}]
    BY <1>1, <1>2, <1>3 DEF DerivedTyped, JobStates
<1>8. ASSUME NEW p \in sound \ pairs
      PROVE  documents'[p[1]] = looks[p[1]]
    <2>1. p[1] \in Apps /\ p = <<p[1], p[1]>> /\ documents[p[1]] = looks[p[1]]
        BY <1>4, <1>6 DEF FreshPair
    <2>2. p[1] \notin sent
        BY <2>1
    <2>q. QED BY <1>3, <2>1, <2>2
<1>9. ASSUME NEW p \in pairs, p[1] \notin w.dirty
      PROVE  documents'[p[1]] = looks[p[1]]
    <2>1. p[1] \in sent /\ p[1] \in Apps
        BY <1>5
    <2>2. documents'[p[1]] = w.view[p[1]]
        BY <1>3, <2>1
    <2>3. w.view[p[1]] = looks[p[1]]
        BY <1>2, <1>9, <2>1 DEF JobHonest, Faithful
    <2>q. QED BY <2>2, <2>3
<1> HIDE DEF w, sent, pairs
<1>10. \A p \in sound \ pairs : FreshPair(kind, looks, edges', documents', profiles', p)
    BY <1>4, <1>8 DEF FreshPair
<1>11. \A p \in pairs : p[1] \notin w.dirty /\ p[2] \notin w.dirty =>
                             FreshPair(kind, looks, edges', documents', profiles', p)
    BY <1>4, <1>9 DEF FreshPair
<1>12. edges' \subseteq GraphRows /\ profiles' \in [Apps -> ProfileRows \cup {NoProfile}]
    BY <1>1, <1>3 DEF DerivedTyped
<1>q. QED BY <1>3, <1>5, <1>7, <1>10, <1>11, <1>12, SessionFinishes DEF w

--------------------------------------------------------------------------------
(* Profiles *)

LEMMA NextPageKeeps ==
    ASSUME DerivedAssumption, DerivedInv, NEW j \in Jobs, NextPage(j)
    PROVE  DerivedInv'
<1> DEFINE w == job[j]
           page(s) == First(SubSeq(s, w.offset + 1, Len(s)), Batch)
<1>1. DerivedTyped /\ kind \in Kinds
    BY DEF DerivedInv, DerivedTyped
<1>2. w \in JobStates /\ JobHonest(kind, looks, w)
    BY <1>1 DEF DerivedInv, DerivedTyped
<1>3. PICK s \in ByUpdate :
          IF page(s) = <<>> THEN Work(j, [w EXCEPT !.at = "commit"])
          ELSE Work(j, [w EXCEPT !.at = "visit", !.todo = page(s)])
    BY DEF NextPage
<1>a. w.at = "page"
    BY DEF NextPage
<1>4. kind = "profiles"
    BY <1>1, <1>2, <1>a DEF JobHonest, Faithful, StagesOf, Kinds
<1> DEFINE list  == page(s)
           ended == [w EXCEPT !.at = "commit"]
           next  == [w EXCEPT !.at = "visit", !.todo = list]
<1>5. list \in Seq(Apps)
    <2>1. w.offset \in Nat
        BY <1>2 DEF JobStates
    <2>q. QED BY <2>1, PageIsList
<1>6. Work(j, ended) \/ Work(j, next)
    BY <1>3
<1> HIDE DEF w, list
<1>7. Faithful(kind, looks, w) /\ ProfilesHonest(w)
    BY <1>2, <1>4 DEF JobHonest
<1>8. /\ ended \in JobStates /\ ended.at = "commit" /\ ended.done = w.done
      /\ ended.dirty = w.dirty /\ ended.view = w.view /\ ended.profiles = w.profiles
    BY <1>2 DEF JobStates
<1>9. /\ next \in JobStates /\ next.at = "visit" /\ next.done = w.done
      /\ next.dirty = w.dirty /\ next.view = w.view /\ next.profiles = w.profiles
    BY <1>2, <1>5 DEF JobStates
<1> HIDE DEF ended, next
<1>10. ASSUME NEW v \in JobStates, v.at \in {"commit", "visit"}, v.done = w.done, v.dirty = w.dirty,
              v.view = w.view, v.profiles = w.profiles
       PROVE  JobHonest(kind, looks, v)
    <2>1. Faithful(kind, looks, v)
        BY <1>4, <1>7, <1>10 DEF Faithful, StagesOf
    <2>2. ProfilesHonest(v)
        BY <1>7, <1>10 DEF ProfilesHonest
    <2>q. QED BY <1>4, <2>1, <2>2 DEF JobHonest
<1>11. JobHonest(kind, looks, ended) /\ JobHonest(kind, looks, next)
    BY <1>8, <1>9, <1>10
<1>q. QED BY <1>6, <1>8, <1>9, <1>11, MovesKeep

\* A session that waits keeps what it has read.
Having(w, a) == [w.view EXCEPT ![a] = View(w, a)]
LEMMA ReadingKeeps ==
    ASSUME DerivedAssumption, DerivedTyped, NEW w \in JobStates, Faithful(kind, looks, w), NEW a \in Apps
    PROVE  /\ Having(w, a) \in [Apps -> AllLooks \cup {Unread}] /\ Having(w, a)[a] = View(w, a) /\ Having(w, a)[a] # Unread
           /\ \A x \in Apps : w.view[x] # Unread => Having(w, a)[x] = w.view[x]
           /\ \A x \in Apps : Having(w, a)[x] # Unread /\ x \notin w.dirty => Having(w, a)[x] = looks[x]
<1>1. w.view \in [Apps -> AllLooks \cup {Unread}]
    BY DEF JobStates
<1>2. /\ View(w, a) \in AllLooks /\ View(w, a) # Unread
      /\ w.view[a] # Unread => View(w, a) = w.view[a]
      /\ a \notin w.dirty => View(w, a) = looks[a]
    BY ViewReads
<1>3. \A x \in Apps : w.view[x] # Unread /\ x \notin w.dirty => w.view[x] = looks[x]
    BY DEF Faithful
<1>q. QED BY <1>1, <1>2, <1>3 DEF Having

LEMMA WaitKeeps ==
    ASSUME DerivedAssumption, DerivedInv, NEW j \in Jobs, Wait(j)
    PROVE  DerivedInv'
<1> DEFINE w == job[j]
           a == Head(w.todo)
           how == IF profiles[a] = NoProfile THEN "insert" ELSE "update"
           v == [w EXCEPT !.waits = how, !.view[a] = View(w, a)]
<1>1. DerivedTyped /\ kind \in Kinds
    BY DEF DerivedInv, DerivedTyped
<1>2. w \in JobStates /\ JobHonest(kind, looks, w)
    BY <1>1 DEF DerivedInv, DerivedTyped
<1>3. w.at \in {"visit", "one"} /\ w.todo # <<>> /\ Work(j, v)
    BY DEF Wait
<1>4. kind = "profiles"
    BY <1>1, <1>2, <1>3 DEF JobHonest, Faithful, StagesOf, Kinds
<1>5. a \in Apps
    BY <1>2, <1>3, HeadTailProperties DEF JobStates
<1>6. how \in {"no", "insert", "update"}
    OBVIOUS
<1> DEFINE seen == [w.view EXCEPT ![a] = View(w, a)]
<1> HIDE DEF w, a, how
<1>7. Faithful(kind, looks, w) /\ ProfilesHonest(w)
    BY <1>2, <1>4 DEF JobHonest
<1>8. v = [w EXCEPT !.waits = how, !.view = seen]
    BY <1>2 DEF JobStates
<1> HIDE DEF seen, v
<1>9. /\ seen \in [Apps -> AllLooks \cup {Unread}]
      /\ \A x \in Apps : w.view[x] # Unread => seen[x] = w.view[x]
      /\ \A x \in Apps : seen[x] # Unread /\ x \notin w.dirty => seen[x] = looks[x]
    BY <1>1, <1>2, <1>5, <1>7, ReadingKeeps DEF seen, Having
<1>10. v \in JobStates
    BY <1>2, <1>6, <1>8, <1>9 DEF JobStates
<1>11. /\ v.at = w.at /\ v.done = w.done /\ v.dirty = w.dirty /\ v.view = seen
       /\ v.profiles = w.profiles /\ v.todo = w.todo
    BY <1>2, <1>8 DEF JobStates
<1>12. Faithful(kind, looks, v)
    BY <1>3, <1>7, <1>9, <1>11 DEF Faithful
<1>14. ProfilesHonest(v)
    BY <1>7, <1>9, <1>11 DEF ProfilesHonest
<1>15. JobHonest(kind, looks, v)
    BY <1>4, <1>12, <1>14 DEF JobHonest
<1>16. Work(j, v)
    BY <1>3 DEF v, w, a, how
<1>q. QED BY <1>10, <1>15, <1>16, MovesKeep

LEMMA VisitKeeps ==
    ASSUME DerivedAssumption, DerivedInv, NEW j \in Jobs, Visit(j)
    PROVE  DerivedInv'
<1> DEFINE w == job[j]
           a == Head(w.todo)
           row == Profile(View(w, a), profiles[a])
           v == [w EXCEPT !.todo = Tail(@), !.waits = "no", !.done = @ \cup {<<a, a>>},
                          !.visits = @ + 1, !.view[a] = View(w, a), !.profiles[a] = row]
           ended == [v EXCEPT !.at = "commit"]
           paged == [v EXCEPT !.at = "page", !.offset = @ + Batch]
<1>1. DerivedTyped /\ kind \in Kinds /\ Batch \in Nat
    BY DEF DerivedInv, DerivedTyped, DerivedAssumption
<1>2. w \in JobStates /\ JobHonest(kind, looks, w)
    BY <1>1 DEF DerivedInv, DerivedTyped
<1>3. w.at \in {"visit", "one"} /\ w.todo # <<>>
    BY SMTT(30) DEF Visit
<1>r. Work(j, CASE v.todo # <<>>                          -> v
                [] w.at = "one"                           -> ended
                [] v.visits >= RefreshLimit               -> ended
                [] OTHER                                  -> paged)
    BY DEF Visit
<1>s. Work(j, v) \/ Work(j, ended) \/ Work(j, paged)
    <2> HIDE DEF v, ended, paged, w
    <2>q. QED BY <1>r
<1>4. kind = "profiles"
    BY <1>1, <1>2, <1>3 DEF JobHonest, Faithful, StagesOf, Kinds
<1>5. a \in Apps /\ Tail(w.todo) \in Seq(Apps)
    BY <1>2, <1>3, HeadTailProperties DEF JobStates
<1>6. row \in ProfileRows /\ row # NoProfile /\ row.score = TrustScore(Signals(View(w, a).evidence))
    BY ProfileIsKnown
<1> DEFINE seen == [w.view EXCEPT ![a] = View(w, a)]
           rows == [w.profiles EXCEPT ![a] = row]
           rest == Tail(w.todo)
           done == w.done \cup {<<a, a>>}
<1> HIDE DEF w, a, row
<1>7. Faithful(kind, looks, w) /\ ProfilesHonest(w)
    BY <1>2, <1>4 DEF JobHonest
<1>8. v = [w EXCEPT !.todo = rest, !.waits = "no", !.done = done, !.visits = w.visits + 1, !.view = seen, !.profiles = rows]
    BY <1>2 DEF JobStates
<1>9. /\ seen \in [Apps -> AllLooks \cup {Unread}] /\ seen[a] = View(w, a) /\ seen[a] # Unread
      /\ \A x \in Apps : w.view[x] # Unread => seen[x] = w.view[x]
      /\ \A x \in Apps : seen[x] # Unread /\ x \notin w.dirty => seen[x] = looks[x]
    BY <1>1, <1>2, <1>5, <1>7, ReadingKeeps DEF Having
<1>10. /\ rows \in [Apps -> ProfileRows \cup {NoProfile}] /\ rows[a] = row
       /\ \A x \in Apps : x # a => rows[x] = w.profiles[x]
    BY <1>2, <1>5, <1>6 DEF JobStates
<1>11. done \in SUBSET (Apps \X Apps) /\ rest \in Seq(Apps)
    BY <1>2, <1>5 DEF JobStates
<1>c. PICK count \in Nat : count = w.visits + 1
    BY <1>2 DEF JobStates
<1> HIDE DEF v, ended, paged
<1>12. /\ v \in JobStates /\ v.at = w.at /\ v.done = done /\ v.dirty = w.dirty
       /\ v.view = seen /\ v.profiles = rows /\ v.offset = w.offset
    <2> HIDE DEF seen, rows, done, rest
    <2>1. v = [w EXCEPT !.todo = rest, !.waits = "no", !.done = done, !.visits = count, !.view = seen,
                        !.profiles = rows]
        BY <1>8, <1>c
    <2>q. QED BY <1>2, <2>1, <1>9, <1>10, <1>11 DEF JobStates
<1>13. /\ ended \in JobStates /\ ended.at = "commit" /\ ended.done = done
       /\ ended.dirty = w.dirty /\ ended.view = seen /\ ended.profiles = rows
    BY <1>12 DEF JobStates, ended
<1>o. w.offset + Batch \in Nat /\ paged = [v EXCEPT !.at = "page", !.offset = w.offset + Batch]
    BY <1>1, <1>2, <1>12 DEF JobStates, paged
<1>14. /\ paged \in JobStates /\ paged.at = "page" /\ paged.done = done
       /\ paged.dirty = w.dirty /\ paged.view = seen /\ paged.profiles = rows
    BY <1>12, <1>o DEF JobStates
<1> HIDE DEF seen, rows, rest
\* Whatever it does next, what it has done is honest.
<1>15. ASSUME NEW x \in JobStates, x.at \in StagesOf("profiles") \ {"free"}, x.done = done, x.dirty = w.dirty,
              x.view = seen, x.profiles = rows
       PROVE  JobHonest(kind, looks, x)
    <2>1. Faithful(kind, looks, x)
        BY <1>4, <1>9, <1>15 DEF Faithful
    <2>3. \A p \in x.done : p[1] = p[2]
        BY <1>7, <1>15 DEF ProfilesHonest
    <2>4. ASSUME NEW b \in Apps
          PROVE  /\ x.profiles[b] # NoProfile <=> <<b, b>> \in x.done
                 /\ <<b, b>> \in x.done =>
                       /\ x.view[b] # Unread
                       /\ x.profiles[b].score = TrustScore(Signals(x.view[b].evidence))
        <3>1. CASE b = a
            BY <1>6, <1>9, <1>10, <1>15, <3>1
        <3>2. CASE b # a
            <4>1. <<b, b>> \in x.done <=> <<b, b>> \in w.done
                BY <1>15, <3>2
            <4>2. x.profiles[b] = w.profiles[b]
                BY <1>10, <1>15, <3>2
            <4>3. /\ w.profiles[b] # NoProfile <=> <<b, b>> \in w.done
                  /\ <<b, b>> \in w.done =>
                        /\ w.view[b] # Unread
                        /\ w.profiles[b].score = TrustScore(Signals(w.view[b].evidence))
                BY <1>7 DEF ProfilesHonest
            <4>4. w.view[b] # Unread => x.view[b] = w.view[b]
                BY <1>9, <1>15
            <4>q. QED BY <4>1, <4>2, <4>3, <4>4
        <3>q. QED BY <3>1, <3>2
    <2>5. ProfilesHonest(x)
        BY <2>3, <2>4 DEF ProfilesHonest
    <2>q. QED BY <1>4, <2>1, <2>5 DEF JobHonest
<1> HIDE DEF done
<1>16. {"page", "visit", "one", "commit"} \subseteq StagesOf("profiles") \ {"free"}
    BY DEF StagesOf
<1>17. JobHonest(kind, looks, v) /\ JobHonest(kind, looks, ended) /\ JobHonest(kind, looks, paged)
    BY <1>3, <1>12, <1>13, <1>14, <1>15, <1>16
<1>18. Work(j, v) \/ Work(j, ended) \/ Work(j, paged)
    BY <1>s DEF v, ended, paged, w, a, row
<1>q. QED BY <1>12, <1>13, <1>14, <1>17, <1>18, MovesKeep

LEMMA RaisesKeep ==
    ASSUME DerivedInv, NEW j \in Jobs, VisitRaises(j)
    PROVE  DerivedInv'
<1>1. kind \in Kinds /\ Work(j, Free)
    BY DEF DerivedInv, DerivedTyped, VisitRaises
<1>2. Free \in JobStates /\ JobHonest(kind, looks, Free)
    BY <1>1, FreeIsHonest
<1>q. QED BY <1>1, <1>2, MovesKeep

LEMMA CommitProfilesKeeps ==
    ASSUME DerivedAssumption, DerivedInv, NEW j \in Jobs, CommitProfiles(j)
    PROVE  DerivedInv'
<1> DEFINE w == job[j]
<1>1. DerivedTyped /\ kind \in Kinds
    BY DEF DerivedInv, DerivedTyped
<1>2. w \in JobStates /\ JobHonest(kind, looks, w)
    BY <1>1 DEF DerivedInv, DerivedTyped
<1>3. /\ w.at = "commit" /\ Finish(j, w.done) /\ edges' = edges /\ documents' = documents
      /\ profiles' = [a \in Apps |-> IF w.profiles[a] # NoProfile THEN w.profiles[a] ELSE profiles[a]]
    BY DEF CommitProfiles
<1>4. kind = "profiles"
    BY <1>1, <1>2, <1>3 DEF JobHonest, Faithful, StagesOf, Kinds
<1> HIDE DEF w
<1>5. ProfilesHonest(w) /\ Faithful(kind, looks, w)
    BY <1>2, <1>4 DEF JobHonest
<1>6. w.done \in SUBSET (Apps \X Apps) /\ \A p \in w.done : p[1] = p[2]
    BY <1>2, <1>5 DEF JobStates, ProfilesHonest
<1>7. profiles' \in [Apps -> ProfileRows \cup {NoProfile}]
    BY <1>1, <1>2, <1>3 DEF DerivedTyped, JobStates
<1>8. ASSUME NEW p \in sound \ w.done
      PROVE  FreshPair(kind, looks, edges', documents', profiles', p)
    <2>1. FreshPair(kind, looks, edges, documents, profiles, p) /\ p \in Apps \X Apps /\ p[1] = p[2]
        BY <1>1, <1>4 DEF DerivedInv, DerivedTyped
    <2>2. p = <<p[1], p[1]>> /\ p[1] \in Apps
        BY <2>1
    <2>3. w.profiles[p[1]] = NoProfile
        BY <1>5, <2>2 DEF ProfilesHonest
    <2>4. profiles'[p[1]] = profiles[p[1]]
        BY <1>3, <2>2, <2>3
    <2>q. QED BY <1>4, <2>1, <2>4 DEF FreshPair
<1>9. ASSUME NEW p \in w.done, p[1] \notin w.dirty, p[2] \notin w.dirty
      PROVE  FreshPair(kind, looks, edges', documents', profiles', p)
    <2>1. p[1] \in Apps /\ p = <<p[1], p[1]>>
        BY <1>6
    <2>2. /\ w.profiles[p[1]] # NoProfile /\ w.view[p[1]] # Unread
          /\ w.profiles[p[1]].score = TrustScore(Signals(w.view[p[1]].evidence))
        BY <1>5, <2>1 DEF ProfilesHonest
    <2>3. w.view[p[1]] = looks[p[1]]
        BY <1>5, <1>9, <2>1, <2>2 DEF Faithful
    <2>4. profiles'[p[1]] = w.profiles[p[1]]
        BY <1>3, <2>1, <2>2
    <2>q. QED BY <1>4, <2>2, <2>3, <2>4 DEF FreshPair
<1>10. edges' \subseteq GraphRows /\ documents' \in [Apps -> AllLooks \cup {Unread}]
    BY <1>1, <1>3 DEF DerivedTyped
<1>q. QED BY <1>3, <1>6, <1>7, <1>8, <1>9, <1>10, SessionFinishes DEF w

--------------------------------------------------------------------------------

LEMMA DerivedStutters ==
    ASSUME DerivedInv, UNCHANGED derivedVars
    PROVE  DerivedInv'
<1>1. /\ kind' = kind /\ looks' = looks /\ edges' = edges /\ documents' = documents
      /\ profiles' = profiles /\ job' = job /\ sound' = sound
    BY DEF derivedVars
<1>q. QED BY <1>1 DEF DerivedInv, DerivedTyped

LEMMA DerivedInvStep == DerivedAssumption /\ DerivedInv /\ [DerivedNext]_derivedVars => DerivedInv'
<1> SUFFICES ASSUME DerivedAssumption, DerivedInv, [DerivedNext]_derivedVars
             PROVE  DerivedInv'
    OBVIOUS
<1>1. CASE UNCHANGED derivedVars
    BY <1>1, DerivedStutters
<1>2. ASSUME NEW a \in Apps, NEW look \in Looks[kind], Touch(a, look)
      PROVE  DerivedInv'
    BY <1>2, TouchKeeps
<1>3. ASSUME NEW j \in Jobs,
             \/ StartGraph(j) \/ StartIndexing(j) \/ StartProfiles(j)
             \/ \E a \in Apps : StartRebuild(j, a) \/ ReadProfile(j, a)
      PROVE  DerivedInv'
    BY <1>3, StartsKeep
<1>4. ASSUME NEW j \in Jobs, Rebuild(j) \/ CommitGraph(j) \/ SendDocuments(j)
      PROVE  DerivedInv'
    BY <1>4, RebuildKeeps, CommitGraphKeeps, SendKeeps
<1>5. ASSUME NEW j \in Jobs, NextPage(j) \/ Wait(j) \/ Visit(j) \/ VisitRaises(j) \/ CommitProfiles(j)
      PROVE  DerivedInv'
    BY <1>5, NextPageKeeps, WaitKeeps, VisitKeeps, RaisesKeep, CommitProfilesKeeps
<1>q. QED BY <1>1, <1>2, <1>3, <1>4, <1>5 DEF DerivedNext

LEMMA DerivedInvHolds == DerivedAssumption /\ DerivedInv => DerivedFresh
<1> SUFFICES ASSUME DerivedAssumption, DerivedInv
             PROVE  DerivedFresh
    OBVIOUS
<1>1. DerivedTyped /\ kind \in Kinds /\ looks \in [Apps -> AllLooks]
    BY DEF DerivedInv, DerivedTyped
<1>2. ASSUME NEW p \in sound
      PROVE  /\ kind = "edges" =>
                    LET score == Similarity(looks[p[1]], looks[p[2]])
                    IN  Worth(score) => \E e \in edges : /\ e.from = p[1] /\ e.to = p[2]
                                                         /\ e.score = score
                                                         /\ e.kind = IF score < 6500 THEN "similar_to"
                                                                     ELSE "alternative_to"
             /\ kind = "documents" => documents[p[1]] = looks[p[1]]
             /\ kind = "profiles"  =>
                    profiles[p[1]].score = 20 * Cardinality(Signals(looks[p[1]].evidence))
    <2>1. FreshPair(kind, looks, edges, documents, profiles, p) /\ p[1] \in Apps /\ p[2] \in Apps
        BY <1>1 DEF DerivedInv, DerivedTyped
    <2> DEFINE score == Similarity(looks[p[1]], looks[p[2]])
    <2>2. score \in Int
        BY <1>1, <2>1, SimilarityIsInt
    <2>3. EdgeOf(looks[p[1]], looks[p[2]], edges, p) =>
              (Worth(score) => \E e \in edges : /\ e.from = p[1] /\ e.to = p[2] /\ e.score = score
                                                /\ e.kind = EdgeKind(score))
        BY DEF EdgeOf
    <2> HIDE DEF score
    <2>4. EdgeKind(score) = IF score < 6500 THEN "similar_to" ELSE "alternative_to"
        BY <2>2 DEF EdgeKind
    <2>5. kind = "edges" =>
              (Worth(score) => \E e \in edges : /\ e.from = p[1] /\ e.to = p[2] /\ e.score = score
                                                /\ e.kind = IF score < 6500 THEN "similar_to"
                                                            ELSE "alternative_to")
        BY <2>1, <2>3, <2>4 DEF FreshPair
    <2>6. kind = "documents" => documents[p[1]] = looks[p[1]]
        BY <2>1 DEF FreshPair
    <2>7. kind = "profiles" => profiles[p[1]].score = 20 * Cardinality(Signals(looks[p[1]].evidence))
        BY <2>1 DEF FreshPair, TrustScore
    <2>q. QED BY <2>5, <2>6, <2>7 DEF score
<1>3. CASE kind = "edges"
    BY <1>2, <1>3 DEF DerivedFresh
<1>4. CASE kind = "documents"
    BY <1>2, <1>4 DEF DerivedFresh
<1>5. CASE kind = "profiles"
    BY <1>2, <1>5 DEF DerivedFresh
<1>q. QED BY <1>1, <1>3, <1>4, <1>5 DEF Kinds

\* For any applications, looks, sessions and limits: what a job has derived from applications
\* that have not changed since it read them is what the graph, the index and the profiles hold,
\* whatever other jobs write meanwhile and in whatever order applications of one date come.
THEOREM DerivedIsFresh == DerivedSpec => []DerivedFresh
<1>1. DerivedInit => DerivedInv
    BY DerivedAssumption, DerivedStarts
<1>2. DerivedInv /\ [DerivedNext]_derivedVars => DerivedInv'
    BY DerivedAssumption, DerivedInvStep
<1>3. DerivedInv => DerivedFresh
    BY DerivedAssumption, DerivedInvHolds
<1>q. QED BY <1>1, <1>2, <1>3, PTL DEF DerivedSpec


--------------------------------------------------------------------------------
(* Lists of releases *)

LEMMA RemovedAt ==
    ASSUME NEW S, NEW s \in Seq(S), NEW i \in 1 .. Len(s)
    PROVE  /\ RemoveAt(s, i) \in Seq(S) /\ Len(RemoveAt(s, i)) = Len(s) - 1
           /\ \A j \in 1 .. Len(s) - 1 : RemoveAt(s, i)[j] = IF j < i THEN s[j] ELSE s[j + 1]
<1> DEFINE n == Len(s)
           u == SubSeq(s, 1, i - 1)
           v == SubSeq(s, i + 1, n)
<1>1. n \in Nat /\ i \in Int /\ 1 <= i /\ i <= n
  BY LenProperties
<1>2. \A j \in 1 .. n : s[j] \in S
  BY ElementOfSeq
<1> HIDE DEF n
<1>3. /\ u \in Seq(S) /\ Len(u) = (IF 1 <= i - 1 THEN i - 1 - 1 + 1 ELSE 0)
      /\ \A j \in 1 .. i - 1 - 1 + 1 : u[j] = s[1 + j - 1]
  <2>1. \A j \in 1 .. i - 1 : s[j] \in S
    BY <1>1, <1>2
  <2> QED BY <1>1, <2>1, SubSeqProperties
<1>4. /\ v \in Seq(S) /\ Len(v) = (IF i + 1 <= n THEN n - (i + 1) + 1 ELSE 0)
      /\ \A j \in 1 .. n - (i + 1) + 1 : v[j] = s[i + 1 + j - 1]
  <2>1. \A j \in i + 1 .. n : s[j] \in S
    BY <1>1, <1>2
  <2> QED BY <1>1, <2>1, SubSeqProperties
<1> HIDE DEF u, v
<1>5. Len(u) = i - 1 /\ Len(v) = n - i
  BY <1>1, <1>3, <1>4
<1>6. /\ u \o v \in Seq(S) /\ Len(u \o v) = Len(u) + Len(v)
      /\ \A j \in 1 .. Len(u) + Len(v) : (u \o v)[j] = IF j <= Len(u) THEN u[j] ELSE v[j - Len(u)]
  BY <1>3, <1>4, ConcatProperties
<1>7. RemoveAt(s, i) = u \o v
  BY DEF RemoveAt, u, v, n
<1> DEFINE w == u \o v
<1> HIDE DEF w
<1>8. ASSUME NEW j \in 1 .. n - 1 PROVE w[j] = IF j < i THEN s[j] ELSE s[j + 1]
  <2>1. j \in 1 .. Len(u) + Len(v)
    BY <1>1, <1>5
  <2>2. w[j] = IF j <= i - 1 THEN u[j] ELSE v[j - (i - 1)]
    BY <1>5, <1>6, <2>1 DEF w
  <2>3. CASE j < i
    <3>1. j \in 1 .. i - 1 - 1 + 1 /\ 1 + j - 1 = j /\ j <= i - 1
      BY <1>1, <2>3
    <3> QED BY <1>3, <2>2, <2>3, <3>1
  <2>4. CASE ~(j < i)
    <3> DEFINE k == j - (i - 1)
    <3>1. k \in 1 .. n - (i + 1) + 1 /\ i + 1 + k - 1 = j + 1 /\ ~(j <= i - 1)
      BY <1>1, <2>4
    <3> QED BY <1>4, <2>2, <2>4, <3>1
  <2> QED BY <2>3, <2>4
<1>9. Len(w) = n - 1 /\ w \in Seq(S)
  BY <1>1, <1>5, <1>6 DEF w
<1> QED BY <1>7, <1>8, <1>9 DEF w, n

LEMMA OfRange ==
    ASSUME NEW S, NEW s \in Seq(S)
    PROVE  /\ Range(s) \subseteq S /\ DOMAIN s = 1 .. Len(s) /\ Len(s) \in Nat
           /\ \A x : x \in Range(s) <=> \E i \in 1 .. Len(s) : s[i] = x
BY LenProperties, RangeOfSeq, RangeEquality

\* What is joined to a list of other things keeps it without repetition.
LEMMA JoinedOnce ==
    ASSUME NEW S, NEW s \in Seq(S), NEW t \in Seq(S), IsInjective(s), IsInjective(t),
           Range(s) \cap Range(t) = {}
    PROVE  IsInjective(s \o t)
<1> DEFINE m == Len(s)
           n == Len(t)
           u == s \o t
<1>1. /\ u \in Seq(S) /\ Len(u) = m + n
      /\ \A i \in 1 .. m + n : u[i] = IF i <= m THEN s[i] ELSE t[i - m]
  BY ConcatProperties
<1>2. m \in Nat /\ n \in Nat /\ DOMAIN s = 1 .. m /\ DOMAIN t = 1 .. n
  BY LenProperties
<1> HIDE DEF m, n, u
<1>3. DOMAIN u = 1 .. m + n
  BY <1>1, LenProperties
<1>4. \A i \in 1 .. m : s[i] \in Range(s)
  BY <1>2 DEF Range
<1>5. \A i \in 1 .. n : t[i] \in Range(t)
  BY <1>2 DEF Range
<1>6. ASSUME NEW i \in 1 .. m + n, NEW j \in 1 .. m + n, u[i] = u[j] PROVE i = j
  <2>1. CASE i <= m /\ j <= m
    <3>1. i \in 1 .. m /\ j \in 1 .. m /\ s[i] = s[j]
      BY <1>1, <1>2, <1>6, <2>1
    <3> QED BY <1>2, <3>1 DEF IsInjective
  <2>2. CASE ~(i <= m) /\ ~(j <= m)
    <3>1. i - m \in 1 .. n /\ j - m \in 1 .. n
      BY <1>2, <2>2
    <3>2. t[i - m] = t[j - m]
      BY <1>1, <1>6, <2>2
    <3>3. i - m = j - m
      BY <1>2, <3>1, <3>2 DEF IsInjective
    <3> QED BY <1>2, <3>3
  <2>3. CASE i <= m /\ ~(j <= m)
    <3>1. i \in 1 .. m /\ j - m \in 1 .. n
      BY <1>2, <2>3
    <3>2. s[i] = t[j - m]
      BY <1>1, <1>6, <2>3
    <3> QED BY <1>4, <1>5, <3>1, <3>2
  <2>4. CASE ~(i <= m) /\ j <= m
    <3>1. j \in 1 .. m /\ i - m \in 1 .. n
      BY <1>2, <2>4
    <3>2. s[j] = t[i - m]
      BY <1>1, <1>6, <2>4
    <3> QED BY <1>4, <1>5, <3>1, <3>2
  <2> QED BY <2>1, <2>2, <2>3, <2>4
<1>7. IsInjective(u)
  BY <1>3, <1>6 DEF IsInjective
<1> QED BY <1>7 DEF u

\* A piece of a list without repetition.
LEMMA Piece ==
    ASSUME NEW S, NEW s \in Seq(S), NEW k \in Nat \ {0}, NEW b \in Nat, b <= Len(s)
    PROVE  /\ SubSeq(s, k, b) \in Seq(S) /\ (SubSeq(s, k, b) = <<>> => b < k)
           /\ \A x : x \in Range(SubSeq(s, k, b)) <=> \E i \in 1 .. Len(s) : k <= i /\ i <= b /\ s[i] = x
           /\ IsInjective(s) => IsInjective(SubSeq(s, k, b))
<1> DEFINE n == Len(s)
           p == SubSeq(s, k, b)
<1>1. n \in Nat /\ DOMAIN s = 1 .. n
  BY LenProperties
<1>2. \A i \in k .. b : s[i] \in S
  BY <1>1, ElementOfSeq
<1> HIDE DEF n
<1>3. /\ p \in Seq(S) /\ Len(p) = (IF k <= b THEN b - k + 1 ELSE 0)
      /\ \A i \in 1 .. b - k + 1 : p[i] = s[k + i - 1]
  <2>1. k \in Int /\ b \in Int
    OBVIOUS
  <2> QED BY <1>2, <2>1, SubSeqProperties
<1> HIDE DEF p
<1>4. DOMAIN p = 1 .. Len(p)
  BY <1>3, LenProperties
<1>5. CASE b < k
  <2>1. Len(p) = 0 /\ DOMAIN p = {}
    BY <1>3, <1>4, <1>5
  <2> QED BY <1>3, <1>5, <2>1 DEF Range, IsInjective, n, p
<1>6. CASE ~(b < k)
  <2>1. Len(p) = b - k + 1 /\ DOMAIN p = 1 .. b - k + 1 /\ p # <<>>
    BY <1>3, <1>4, <1>6
  <2>2. \A i \in 1 .. b - k + 1 : p[i] = s[k + i - 1] /\ k + i - 1 \in 1 .. n /\ k <= k + i - 1 /\ k + i - 1 <= b
    <3> SUFFICES ASSUME NEW i \in 1 .. b - k + 1
                 PROVE  p[i] = s[k + i - 1] /\ k + i - 1 \in 1 .. n /\ k <= k + i - 1 /\ k + i - 1 <= b
      OBVIOUS
    <3>1. p[i] = s[k + i - 1]
      BY <1>3
    <3> QED BY <1>1, <3>1 DEF n
  <2>3. ASSUME NEW i \in 1 .. n, k <= i, i <= b PROVE s[i] \in Range(p)
    <3>1. i - k + 1 \in 1 .. b - k + 1 /\ k + (i - k + 1) - 1 = i
      BY <1>1, <2>3
    <3>2. p[i - k + 1] = s[i]
      BY <2>2, <3>1
    <3> QED BY <2>1, <3>1, <3>2 DEF Range
  <2>4. ASSUME NEW x \in Range(p) PROVE \E i \in 1 .. n : k <= i /\ i <= b /\ s[i] = x
    BY <2>1, <2>2, <2>4 DEF Range
  <2>5. ASSUME IsInjective(s) PROVE IsInjective(p)
    <3> SUFFICES ASSUME NEW i \in 1 .. b - k + 1, NEW j \in 1 .. b - k + 1, p[i] = p[j] PROVE i = j
      BY <2>1 DEF IsInjective
    <3>1. k + i - 1 = k + j - 1
      BY <1>1, <2>2, <2>5 DEF IsInjective
    <3> QED BY <3>1
  <2> QED BY <1>3, <1>6, <2>1, <2>3, <2>4, <2>5 DEF n, p
<1> QED BY <1>5, <1>6 DEF p

\* An answer that may be kept: upstream's page unless something has changed since, and without
\* what had gone before it came.
Kept(e) ==
    /\ e.page \in Nat \ {0} /\ e.at \in 0 .. moment /\ e.items \in Seq(Numbers) /\ e.next \in BOOLEAN
    /\ ~ChangedSince(e.at) => /\ e.items = UpstreamPage(e.page).items
                              /\ e.next = UpstreamPage(e.page).next
    /\ \A r \in Range(e.items) : gone[r] = NotYet \/ gone[r] >= e.at

ListingTyped ==
    /\ moment \in Nat /\ released \in Seq(Numbers) /\ IsInjective(released)
    /\ born \in [Numbers -> Int] /\ gone \in [Numbers -> Int]
    /\ \A r \in Numbers : born[r] \in NotYet .. moment /\ gone[r] \in NotYet .. moment
    /\ \A r \in Numbers : r \in Range(released) <=> born[r] # NotYet /\ gone[r] = NotYet
    /\ \A r \in Numbers : born[r] = NotYet => gone[r] = NotYet
    /\ \E T : cached \in Seq(T)
    /\ \A e \in Range(cached) : Kept(e)

Before == (call.page - 1) * PageSize

CallTyped ==
    /\ call = [at |-> call.at, page |-> call.page, items |-> call.items, from |-> call.from,
               since |-> call.since]
    /\ call.at \in {"idle", "pages", "listed", "failed"}
    /\ call.page \in Nat \ {0} /\ call.items \in Seq(Numbers) /\ call.since \in 0 .. moment
    /\ call.at \in {"idle", "failed"} => call.items = <<>>

\* What is asked for next is what is not listed yet.
SomeGone  == \E r \in Numbers : gone[r] >= call.since
SomeBorn  == \E r \in Numbers : born[r] >= call.since
Direct    == call.from \subseteq {"upstream"}

Covered ==
    (call.at \in {"pages", "listed"} /\ Direct /\ ~SomeGone) =>
        \A i \in 1 .. Len(released) :
            born[released[i]] < call.since =>
                \/ call.at = "pages" /\ i > Before
                \/ released[i] \in Range(call.items)
Unrepeated ==
    (call.at \in {"pages", "listed"} /\ Direct /\ ~SomeBorn) =>
        /\ IsInjective(call.items)
        /\ call.at = "pages" => \A i \in 1 .. Len(released) :
                                    i > Before => released[i] \notin Range(call.items)
Quiet ==
    ~ChangedSince(call.since - Lifetime) =>
        /\ call.at = "pages" => /\ Before <= Len(released)
                                /\ call.items = SubSeq(released, 1, Before)
        /\ call.at = "listed" => call.items = released

ListingInv == ListingTyped /\ CallTyped /\ Covered /\ Unrepeated /\ Quiet /\ NothingStale

--------------------------------------------------------------------------------

LEMMA ListingConstants ==
    /\ PageSize \in Nat \ {0} /\ Lifetime \in Nat /\ MaxCached \in Nat \ {0}
    /\ ListingEnd \in Nat /\ MaxReleased \in Nat \ {0, 1} /\ Numbers = 1 .. MaxReleased
BY ListingAssumption DEF Numbers

LEMMA PlaceOf ==
    ASSUME NEW n \in Nat \ {0}
    PROVE  /\ (n - 1) * PageSize \in Nat /\ n * PageSize \in Nat
           /\ n * PageSize = (n - 1) * PageSize + PageSize /\ (n + 1) - 1 = n
BY ListingConstants

LEMMA SinceFacts ==
    ASSUME NEW a \in Int, NEW b \in Int, a <= b, ListingTyped
    PROVE  ChangedSince(b) => ChangedSince(a)
BY DEF ChangedSince, ListingTyped, NotYet

From(n)  == (n - 1) * PageSize
Until(n) == n * PageSize

\* What a page of upstream has.
LEMMA PageOf ==
    ASSUME ListingTyped, NEW n \in Nat \ {0}
    PROVE  /\ UpstreamPage(n).page = n /\ UpstreamPage(n).at = moment
           /\ UpstreamPage(n).items \in Seq(Numbers) /\ UpstreamPage(n).next \in BOOLEAN
           /\ UpstreamPage(n).next <=> Until(n) < Len(released)
           /\ UpstreamPage(n).items = <<>> => Len(released) <= From(n)
           /\ \A x : x \in Range(UpstreamPage(n).items) <=>
                     \E i \in 1 .. Len(released) : From(n) < i /\ i <= Until(n) /\ released[i] = x
           /\ IsInjective(UpstreamPage(n).items)
           /\ From(n) <= Len(released) =>
                  SubSeq(released, 1, From(n)) \o UpstreamPage(n).items
                      = IF Until(n) < Len(released) THEN SubSeq(released, 1, Until(n)) ELSE released
<1> DEFINE a == From(n)
           b == Until(n)
           l == Len(released)
           e == UpstreamPage(n)
           c == IF b < l THEN b ELSE l
           k == a + 1
<1>1. /\ a \in Nat /\ b = a + PageSize /\ PageSize \in Nat \ {0}
      /\ l \in Nat /\ released \in Seq(Numbers) /\ IsInjective(released)
  BY PlaceOf, ListingConstants, LenProperties DEF ListingTyped, From, Until
<1>2. /\ e.page = n /\ e.at = moment /\ e.items = SubSeq(released, k, c)
      /\ e.next = (b < l)
  BY DEF UpstreamPage, From, Until
<1>3. c = IF b < l THEN b ELSE l
  OBVIOUS
<1> HIDE DEF a, b, e
<1>4. c \in Nat /\ c <= l /\ k \in Nat \ {0} /\ b \in Nat
  BY <1>1
<1> DEFINE p == SubSeq(released, k, c)
<1> HIDE DEF c, k
<1>5. /\ p \in Seq(Numbers) /\ (p = <<>> => c < k)
      /\ \A x : x \in Range(p) <=> \E i \in 1 .. l : k <= i /\ i <= c /\ released[i] = x
      /\ IsInjective(released) => IsInjective(p)
  BY <1>1, <1>4, Piece
<1> HIDE DEF p, l
<1>6. e.items = p
  BY <1>2 DEF p
<1>7. k = a + 1
  BY DEF k
<1>8. p = <<>> => l <= a
  BY <1>1, <1>3, <1>4, <1>5, <1>7
<1>9. \A i \in 1 .. l : (k <= i /\ i <= c) <=> (a < i /\ i <= b)
  BY <1>1, <1>3, <1>4, <1>7
<1>10. \A x : x \in Range(p) <=> \E i \in 1 .. l : a < i /\ i <= b /\ released[i] = x
  BY <1>5, <1>9
<1>11. ASSUME a <= l
       PROVE  SubSeq(released, 1, a) \o p = IF b < l THEN SubSeq(released, 1, b) ELSE released
  <2>1. 1 \in 1 .. l + 1 /\ a \in 1 - 1 .. l /\ c \in a .. l
    BY <1>1, <1>3, <1>4, <1>11
  <2>2. SubSeq(released, 1, a) \o SubSeq(released, a + 1, c) = SubSeq(released, 1, c)
    BY <1>1, <2>1, ConcatAdjacentSubSeq DEF l
  <2>3. SubSeq(released, 1, l) = released
    BY <1>1, SubSeqFull DEF l
  <2> QED BY <1>3, <1>7, <2>2, <2>3 DEF p
<1>12. e.next \in BOOLEAN /\ (e.next <=> b < l)
  <2>1. CASE b < l
    <3>1. (b < l) = TRUE
      BY <2>1
    <3>2. e.next = TRUE
      BY <1>2, <3>1
    <3> QED BY <2>1, <3>2
  <2>2. CASE ~(b < l)
    <3>1. (b < l) = FALSE
      BY <2>2
    <3>2. e.next = FALSE
      BY <1>2, <3>1
    <3> QED BY <2>2, <3>2
  <2> QED BY <2>1, <2>2
<1>13. e.page = n /\ e.at = moment
  BY <1>2
<1> QED BY <1>1, <1>5, <1>6, <1>8, <1>10, <1>11, <1>12, <1>13 DEF a, b, l, e

\* What upstream answers may be kept.
LEMMA AnswerKept ==
    ASSUME ListingTyped, NEW n \in Nat \ {0}
    PROVE  Kept(UpstreamPage(n))
<1> DEFINE e == UpstreamPage(n)
<1>1. \A x \in Range(e.items) : \E i \in 1 .. Len(released) : released[i] = x
  <2>1. \A x : x \in Range(UpstreamPage(n).items) <=>
                  \E i \in 1 .. Len(released) : From(n) < i /\ i <= Until(n) /\ released[i] = x
    BY PageOf
  <2> QED BY <2>1
<1>2. \A x \in Range(e.items) : x \in Range(released) /\ x \in Numbers
  <2>1. released \in Seq(Numbers)
    BY DEF ListingTyped
  <2> HIDE DEF e
  <2> QED BY <1>1, <2>1, OfRange
<1>3. \A x \in Range(e.items) : gone[x] = NotYet
  <2> HIDE DEF e
  <2> QED BY <1>2 DEF ListingTyped
<1>4. moment \in 0 .. moment
  BY DEF ListingTyped
<1>5. e.page = n /\ e.at = moment /\ e.items \in Seq(Numbers) /\ e.next \in BOOLEAN
  BY PageOf
<1> QED BY <1>3, <1>4, <1>5 DEF Kept

--------------------------------------------------------------------------------
(* Steps *)

\* Where nothing has changed, answers stay as they were, and the clock only goes on.
LEMMA KeptOn ==
    ASSUME ListingTyped, moment' \in Nat, moment <= moment', UNCHANGED <<released, born, gone>>,
           NEW e, Kept(e)
    PROVE  Kept(e)'
<1>1. /\ e.page \in Nat \ {0} /\ e.at \in 0 .. moment /\ e.items \in Seq(Numbers) /\ e.next \in BOOLEAN
      /\ ~ChangedSince(e.at) => /\ e.items = UpstreamPage(e.page).items
                                /\ e.next = UpstreamPage(e.page).next
      /\ \A r \in Range(e.items) : gone[r] = NotYet \/ gone[r] >= e.at
  BY DEF Kept
<1>2. ChangedSince(e.at)' = ChangedSince(e.at)
  BY DEF ChangedSince
<1>3. /\ UpstreamPage(e.page)'.items = UpstreamPage(e.page).items
      /\ UpstreamPage(e.page)'.next = UpstreamPage(e.page).next
  BY DEF UpstreamPage
<1>4. e.at \in 0 .. moment'
  BY <1>1 DEF ListingTyped
<1>5. \A r \in Range(e.items) : gone'[r] = NotYet \/ gone'[r] >= e.at
  BY <1>1
<1> QED BY <1>1, <1>2, <1>3, <1>4, <1>5 DEF Kept

\* A change makes what was answered before it old.
LEMMA KeptOld ==
    ASSUME ListingTyped, moment' = moment, NEW e, Kept(e), NEW q \in Numbers,
           born'[q] = moment \/ (gone'[q] = moment /\ gone'[q] # NotYet),
           gone' = gone \/ gone' = [gone EXCEPT ![q] = moment]
    PROVE  Kept(e)'
<1>1. /\ e.page \in Nat \ {0} /\ e.at \in 0 .. moment /\ e.items \in Seq(Numbers) /\ e.next \in BOOLEAN
      /\ \A r \in Range(e.items) : gone[r] = NotYet \/ gone[r] >= e.at
  BY DEF Kept
<1>2. moment \in Nat /\ gone \in [Numbers -> Int]
  BY DEF ListingTyped
<1>3. ChangedSince(e.at)'
  BY <1>1, <1>2 DEF ChangedSince
<1>4. Range(e.items) \subseteq Numbers
  BY <1>1, OfRange
<1>5. \A r \in Range(e.items) : gone'[r] = NotYet \/ gone'[r] >= e.at
  <2> SUFFICES ASSUME NEW r \in Range(e.items) PROVE gone'[r] = NotYet \/ gone'[r] >= e.at
    OBVIOUS
  <2>1. r \in Numbers
    BY <1>4
  <2>2. gone'[r] = gone[r] \/ gone'[r] = moment
    BY <1>2, <2>1
  <2>3. moment >= e.at
    BY <1>1, <1>2
  <2> QED BY <1>1, <2>2, <2>3
<1> QED BY <1>1, <1>3, <1>5 DEF Kept

LEMMA PublishFacts ==
    ASSUME ListingInv, NEW q \in Numbers, PublishRelease(q)
    PROVE  /\ ListingTyped' /\ SomeBorn' /\ ChangedSince(call.since - Lifetime)'
           /\ UNCHANGED <<call, gone, moment>> /\ \A r \in Numbers : r # q => born'[r] = born[r]
           /\ born'[q] = moment /\ q \notin Range(released)
           /\ Len(released') = Len(released) + 1 /\ Len(released) \in Nat
           /\ released'[1] = q /\ \A i \in 1 .. Len(released) : released'[i + 1] = released[i]
<1>1. /\ born[q] = NotYet /\ released' = <<q>> \o released /\ born' = [born EXCEPT ![q] = moment]
      /\ UNCHANGED <<moment, gone, cached, call, listings>>
  BY DEF PublishRelease
<1>2. /\ moment \in Nat /\ released \in Seq(Numbers) /\ IsInjective(released)
      /\ born \in [Numbers -> Int] /\ gone \in [Numbers -> Int]
      /\ \A r \in Numbers : born[r] \in NotYet .. moment /\ gone[r] \in NotYet .. moment
      /\ \A r \in Numbers : r \in Range(released) <=> born[r] # NotYet /\ gone[r] = NotYet
      /\ \A r \in Numbers : born[r] = NotYet => gone[r] = NotYet
      /\ \E T : cached \in Seq(T)
      /\ \A e \in Range(cached) : Kept(e)
  BY DEF ListingInv, ListingTyped
<1>3. born'[q] = moment /\ \A r \in Numbers : r # q => born'[r] = born[r]
  BY <1>1, <1>2
<1>4. gone[q] = NotYet /\ q \notin Range(released)
  BY <1>1, <1>2
<1> DEFINE n == Len(released)
<1>5. /\ <<q>> \in Seq(Numbers) /\ Len(<<q>>) = 1 /\ <<q>>[1] = q /\ IsInjective(<<q>>)
      /\ Range(<<q>>) = {q}
  BY DEF IsInjective, Range
<1>6. /\ released' \in Seq(Numbers) /\ Len(released') = n + 1 /\ n \in Nat
      /\ released'[1] = q /\ \A i \in 1 .. n : released'[i + 1] = released[i]
  <2>1. /\ <<q>> \o released \in Seq(Numbers) /\ Len(<<q>> \o released) = 1 + n /\ n \in Nat
        /\ \A i \in 1 .. 1 + n : (<<q>> \o released)[i] = IF i <= 1 THEN <<q>>[i] ELSE released[i - 1]
    BY <1>2, <1>5, ConcatProperties, LenProperties
  <2> HIDE DEF n
  <2>2. ASSUME NEW i \in 1 .. n PROVE released'[i + 1] = released[i]
    <3>1. i + 1 \in 1 .. 1 + n /\ ~(i + 1 <= 1) /\ i + 1 - 1 = i
      BY <2>1
    <3> QED BY <1>1, <2>1, <3>1
  <2>3. released'[1] = q
    <3>1. 1 \in 1 .. 1 + n
      BY <2>1
    <3> QED BY <1>1, <1>5, <2>1, <3>1
  <2> QED BY <1>1, <2>1, <2>2, <2>3
<1>7. Range(released') = Range(released) \cup {q}
  <2> HIDE DEF n
  <2>1. DOMAIN released' = 1 .. n + 1 /\ DOMAIN released = 1 .. n
    BY <1>2, <1>6, LenProperties DEF n
  <2>2. \A i \in 1 .. n + 1 : i = 1 \/ (i - 1 \in 1 .. n /\ i - 1 + 1 = i)
    BY <1>6
  <2>3. \A i \in 1 .. n : i + 1 \in 1 .. n + 1 /\ released'[i + 1] = released[i]
    BY <1>6
  <2>4. 1 \in 1 .. n + 1 /\ released'[1] = q
    BY <1>6
  <2>5. \A i \in 1 .. n + 1 : released'[i] \in Range(released) \cup {q}
    BY <2>1, <2>2, <2>3, <2>4 DEF Range
  <2>6. \A i \in 1 .. n : released[i] \in Range(released')
    BY <2>1, <2>3 DEF Range
  <2>7. q \in Range(released')
    BY <2>1, <2>4 DEF Range
  <2> QED BY <2>1, <2>5, <2>6, <2>7 DEF Range
<1>8. IsInjective(released')
  BY <1>1, <1>2, <1>4, <1>5, JoinedOnce
<1>9. \A e \in Range(cached) : Kept(e)'
  <2>1. ListingTyped
    BY DEF ListingInv
  <2> QED BY <1>1, <1>2, <1>3, <2>1, KeptOld
<1>10. born' \in [Numbers -> Int]
  BY <1>1, <1>2
<1>11. \A r \in Numbers : /\ born'[r] \in NotYet .. moment
                          /\ r \in Range(released') <=> born'[r] # NotYet /\ gone[r] = NotYet
                          /\ born'[r] = NotYet => gone[r] = NotYet
  <2> SUFFICES ASSUME NEW r \in Numbers
               PROVE  /\ born'[r] \in NotYet .. moment
                      /\ r \in Range(released') <=> born'[r] # NotYet /\ gone[r] = NotYet
                      /\ born'[r] = NotYet => gone[r] = NotYet
    OBVIOUS
  <2>1. CASE r = q
    <3>1. moment # NotYet /\ moment \in NotYet .. moment
      BY <1>2 DEF NotYet
    <3> QED BY <1>3, <1>4, <1>7, <2>1, <3>1
  <2>2. CASE r # q
    BY <1>2, <1>3, <1>7, <2>2
  <2> QED BY <2>1, <2>2
<1>12. ListingTyped'
  BY <1>1, <1>2, <1>6, <1>8, <1>9, <1>10, <1>11 DEF ListingTyped, Kept
<1>13. call.since \in 0 .. moment
  BY DEF ListingInv, CallTyped
<1>14. SomeBorn'
  BY <1>1, <1>2, <1>3, <1>13 DEF SomeBorn
<1>15. ChangedSince(call.since - Lifetime)'
  <2>1. call.since - Lifetime <= moment
    BY <1>2, <1>13, ListingConstants, SMTT(30)
  <2> QED BY <1>1, <1>3, <2>1 DEF ChangedSince
<1> QED BY <1>1, <1>3, <1>4, <1>6, <1>12, <1>14, <1>15

LEMMA WithdrawFacts ==
    ASSUME ListingInv, NEW q \in Numbers, WithdrawRelease(q)
    PROVE  /\ ListingTyped' /\ SomeGone' /\ ChangedSince(call.since - Lifetime)'
           /\ UNCHANGED <<call, born, moment>> /\ \A r \in Numbers : r # q => gone'[r] = gone[r]
           /\ gone'[q] = moment
           /\ Len(released') = Len(released) - 1 /\ Len(released) \in Nat
           /\ \A i \in 1 .. Len(released') : \E j \in 1 .. Len(released) : i <= j /\ released'[i] = released[j]
<1>1. PICK i \in DOMAIN released : released[i] = q /\ released' = RemoveAt(released, i)
  BY DEF WithdrawRelease
<1>2. gone' = [gone EXCEPT ![q] = moment] /\ UNCHANGED <<moment, born, cached, call, listings>>
  BY DEF WithdrawRelease
<1>3. /\ moment \in Nat /\ released \in Seq(Numbers) /\ IsInjective(released)
      /\ born \in [Numbers -> Int] /\ gone \in [Numbers -> Int]
      /\ \A r \in Numbers : born[r] \in NotYet .. moment /\ gone[r] \in NotYet .. moment
      /\ \A r \in Numbers : r \in Range(released) <=> born[r] # NotYet /\ gone[r] = NotYet
      /\ \A r \in Numbers : born[r] = NotYet => gone[r] = NotYet
      /\ \E T : cached \in Seq(T)
      /\ \A e \in Range(cached) : Kept(e)
  BY DEF ListingInv, ListingTyped
<1> DEFINE n == Len(released)
<1>4. n \in Nat /\ DOMAIN released = 1 .. n
  BY <1>3, LenProperties
<1>5. /\ released' \in Seq(Numbers) /\ Len(released') = n - 1
      /\ \A j \in 1 .. n - 1 : released'[j] = IF j < i THEN released[j] ELSE released[j + 1]
  <2>1. i \in 1 .. Len(released)
    BY <1>1, <1>4
  <2>2. /\ RemoveAt(released, i) \in Seq(Numbers) /\ Len(RemoveAt(released, i)) = Len(released) - 1
        /\ \A j \in 1 .. Len(released) - 1 :
               RemoveAt(released, i)[j] = IF j < i THEN released[j] ELSE released[j + 1]
    BY <1>3, <2>1, RemovedAt
  <2> QED BY <1>1, <2>2
<1>6. DOMAIN released' = 1 .. n - 1
  BY <1>5, LenProperties
<1> HIDE DEF n
<1>7. gone'[q] = moment /\ \A r \in Numbers : r # q => gone'[r] = gone[r]
  BY <1>2, <1>3
<1>8. \A x \in 1 .. n, y \in 1 .. n : released[x] = released[y] => x = y
  BY <1>3, <1>4 DEF IsInjective
<1>9. IsInjective(released')
  <2> SUFFICES ASSUME NEW x \in 1 .. n - 1, NEW y \in 1 .. n - 1, released'[x] = released'[y]
               PROVE  x = y
    BY <1>6 DEF IsInjective
  <2> DEFINE v == IF x < i THEN x ELSE x + 1
             w == IF y < i THEN y ELSE y + 1
  <2>1. v \in 1 .. n /\ w \in 1 .. n /\ (v = w => x = y)
    BY <1>4
  <2>2. released'[x] = released[v] /\ released'[y] = released[w]
    BY <1>5
  <2> QED BY <1>8, <2>1, <2>2
<1>10. \A x : x \in Range(released') <=> x \in Range(released) /\ x # q
  <2>1. ASSUME NEW j \in 1 .. n - 1
        PROVE  released'[j] \in Range(released) /\ released'[j] # q
    <3> DEFINE v == IF j < i THEN j ELSE j + 1
    <3>1. v \in 1 .. n /\ v # i
      BY <1>4
    <3>2. released'[j] = released[v]
      BY <1>5
    <3> HIDE DEF v
    <3>3. released[v] \in Range(released)
      BY <1>4, <3>1 DEF Range
    <3>4. released[v] # q
      BY <1>1, <1>4, <1>8, <3>1
    <3> QED BY <3>2, <3>3, <3>4
  <2>2. ASSUME NEW j \in 1 .. n, released[j] # q PROVE released[j] \in Range(released')
    <3>1. j # i
      BY <1>1, <2>2
    <3>2. CASE j < i
      <4>1. j \in 1 .. n - 1 /\ released'[j] = released[j]
        BY <1>4, <1>5, <3>2
      <4> QED BY <1>6, <4>1 DEF Range
    <3>3. CASE j > i
      <4>1. j - 1 \in 1 .. n - 1 /\ ~(j - 1 < i) /\ j - 1 + 1 = j
        BY <1>4, <3>3
      <4>2. released'[j - 1] = released[j]
        BY <1>5, <4>1
      <4> QED BY <1>6, <4>1, <4>2 DEF Range
    <3> QED BY <1>4, <3>1, <3>2, <3>3
  <2> QED BY <1>4, <1>6, <2>1, <2>2 DEF Range
<1>11. q \in Range(released) /\ gone[q] = NotYet /\ born[q] # NotYet
  BY <1>1, <1>3 DEF Range
<1>12. ASSUME NEW j \in 1 .. n - 1
       PROVE  \E k \in 1 .. n : j <= k /\ released'[j] = released[k]
  <2> DEFINE v == IF j < i THEN j ELSE j + 1
  <2>1. v \in 1 .. n /\ j <= v
    BY <1>4
  <2>2. released'[j] = released[v]
    BY <1>5
  <2> QED BY <2>1, <2>2
<1>13. \A e \in Range(cached) : Kept(e)'
  <2>1. ListingTyped /\ moment # NotYet
    BY <1>3 DEF ListingInv, NotYet
  <2> QED BY <1>2, <1>3, <1>7, <2>1, KeptOld
<1>14. \A r \in Numbers : /\ gone'[r] \in NotYet .. moment
                          /\ r \in Range(released') <=> born[r] # NotYet /\ gone'[r] = NotYet
                          /\ born[r] = NotYet => gone'[r] = NotYet
  <2> SUFFICES ASSUME NEW r \in Numbers
               PROVE  /\ gone'[r] \in NotYet .. moment
                      /\ r \in Range(released') <=> born[r] # NotYet /\ gone'[r] = NotYet
                      /\ born[r] = NotYet => gone'[r] = NotYet
    OBVIOUS
  <2>1. CASE r = q
    <3>1. moment # NotYet /\ moment \in NotYet .. moment
      BY <1>3 DEF NotYet
    <3> QED BY <1>7, <1>10, <1>11, <2>1, <3>1
  <2>2. CASE r # q
    BY <1>3, <1>7, <1>10, <2>2
  <2> QED BY <2>1, <2>2
<1>15. gone' \in [Numbers -> Int]
  BY <1>2, <1>3
<1>16. ListingTyped'
  BY <1>2, <1>3, <1>5, <1>9, <1>13, <1>14, <1>15 DEF ListingTyped, Kept
<1>17. call.since \in 0 .. moment
  BY DEF ListingInv, CallTyped
<1>18. SomeGone'
  BY <1>2, <1>3, <1>7, <1>17 DEF SomeGone
<1>19. ChangedSince(call.since - Lifetime)'
  <2>1. call.since - Lifetime <= moment /\ moment # NotYet
    <3>1. moment # NotYet
      BY <1>3 DEF NotYet
    <3>2. \A x \in 0 .. moment : x - Lifetime <= moment
      BY <1>3, ListingConstants
    <3> QED BY <1>17, <3>1, <3>2
  <2>3. call' = call
    BY <1>2
  <2>2. gone'[q] # NotYet /\ gone'[q] >= call.since - Lifetime
    BY <1>7, <2>1
  <2> QED BY <2>3, <2>2 DEF ChangedSince
<1> QED BY <1>2, <1>4, <1>5, <1>7, <1>12, <1>16, <1>18, <1>19 DEF n

LEMMA CallFacts ==
    ASSUME ListingInv
    PROVE  /\ ListingTyped /\ call.at \in {"idle", "pages", "listed", "failed"}
           /\ call.page \in Nat \ {0} /\ call.items \in Seq(Numbers)
           /\ call.since \in 0 .. moment /\ call.since \in Nat /\ moment \in Nat
           /\ Before = From(call.page) /\ Before \in Nat
           /\ Range(call.items) \subseteq Numbers
           /\ released \in Seq(Numbers) /\ Len(released) \in Nat
           /\ \A i \in 1 .. Len(released) : released[i] \in Numbers
<1>1. /\ ListingTyped /\ call.at \in {"idle", "pages", "listed", "failed"}
      /\ call.page \in Nat \ {0} /\ call.items \in Seq(Numbers) /\ call.since \in 0 .. moment
      /\ moment \in Nat /\ released \in Seq(Numbers)
  BY DEF ListingInv, ListingTyped, CallTyped
<1>2. Before = From(call.page) /\ Before \in Nat
  BY <1>1, PlaceOf DEF Before, From
<1>3. Range(call.items) \subseteq Numbers
  BY <1>1, OfRange
<1>4. Len(released) \in Nat /\ \A i \in 1 .. Len(released) : released[i] \in Numbers
  BY <1>1, LenProperties, ElementOfSeq
<1> QED BY <1>1, <1>2, <1>3, <1>4

LEMMA PublishKeeps ==
    ASSUME ListingInv, NEW q \in Numbers, PublishRelease(q)
    PROVE  ListingInv'
<1>1. /\ ListingTyped' /\ SomeBorn' /\ ChangedSince(call.since - Lifetime)'
      /\ UNCHANGED <<call, gone, moment>> /\ \A r \in Numbers : r # q => born'[r] = born[r]
      /\ born'[q] = moment /\ q \notin Range(released)
      /\ Len(released') = Len(released) + 1 /\ Len(released) \in Nat
      /\ released'[1] = q /\ \A i \in 1 .. Len(released) : released'[i + 1] = released[i]
  BY PublishFacts
<1>2. CallTyped'
  BY <1>1 DEF ListingInv, CallTyped
<1>3. Covered'
  <2> SUFFICES ASSUME call.at \in {"pages", "listed"}, Direct, ~SomeGone,
                      NEW i \in 1 .. Len(released'), born'[released'[i]] < call.since
               PROVE  \/ call.at = "pages" /\ i > Before
                      \/ released'[i] \in Range(call.items)
    BY <1>1 DEF Covered, Direct, SomeGone, Before
  <2>1. CASE i = 1
    BY <1>1, <2>1, CallFacts
  <2>2. CASE i # 1
    <3>1. i - 1 \in 1 .. Len(released) /\ i - 1 + 1 = i
      BY <1>1, <2>2
    <3>2. released'[i] = released[i - 1]
      BY <1>1, <3>1
    <3>3. released[i - 1] \in Numbers /\ released[i - 1] # q
      <4>1. released[i - 1] \in Numbers /\ released[i - 1] \in Range(released)
        BY <3>1, CallFacts, OfRange
      <4> QED BY <1>1, <4>1
    <3>4. born[released[i - 1]] < call.since
      BY <1>1, <3>2, <3>3
    <3>5. \/ call.at = "pages" /\ i - 1 > Before
          \/ released[i - 1] \in Range(call.items)
      BY <3>1, <3>4 DEF ListingInv, Covered
    <3> QED BY <1>1, <3>2, <3>5, CallFacts
  <2> QED BY <2>1, <2>2
<1>4. Unrepeated' /\ Quiet'
  BY <1>1 DEF Unrepeated, Quiet
<1>5. NothingStale'
  BY <1>1 DEF ListingInv, NothingStale
<1> QED BY <1>1, <1>2, <1>3, <1>4, <1>5 DEF ListingInv

LEMMA WithdrawKeeps ==
    ASSUME ListingInv, NEW q \in Numbers, WithdrawRelease(q)
    PROVE  ListingInv'
<1>1. /\ ListingTyped' /\ SomeGone' /\ ChangedSince(call.since - Lifetime)'
      /\ UNCHANGED <<call, born, moment>> /\ \A r \in Numbers : r # q => gone'[r] = gone[r]
      /\ gone'[q] = moment
      /\ Len(released') = Len(released) - 1 /\ Len(released) \in Nat
      /\ \A i \in 1 .. Len(released') : \E j \in 1 .. Len(released) : i <= j /\ released'[i] = released[j]
  BY WithdrawFacts
<1>2. CallTyped'
  BY <1>1 DEF ListingInv, CallTyped
<1>3. Covered' /\ Quiet'
  BY <1>1 DEF Covered, Quiet
<1>4. Unrepeated'
  <2>1. (call.at \in {"pages", "listed"} /\ Direct /\ ~SomeBorn) =>
            /\ IsInjective(call.items)
            /\ call.at = "pages" => \A i \in 1 .. Len(released) :
                                        i > Before => released[i] \notin Range(call.items)
    BY DEF ListingInv, Unrepeated
  <2>2. ASSUME \A i \in 1 .. Len(released) : i > Before => released[i] \notin Range(call.items),
               NEW i \in 1 .. Len(released'), i > Before
        PROVE  released'[i] \notin Range(call.items)
    <3>1. PICK j \in 1 .. Len(released) : i <= j /\ released'[i] = released[j]
      BY <1>1
    <3>2. j > Before
      BY <2>2, <3>1, CallFacts, <1>1
    <3> QED BY <2>2, <3>1, <3>2
  <2> QED BY <1>1, <2>1, <2>2 DEF Unrepeated, Direct, SomeBorn, Before
<1>5. NothingStale'
  <2> SUFFICES ASSUME NEW r \in Range(call.items)
               PROVE  gone'[r] = NotYet \/ gone'[r] >= call.since - Lifetime
    BY <1>1 DEF NothingStale
  <2>1. r \in Numbers /\ (gone[r] = NotYet \/ gone[r] >= call.since - Lifetime)
    BY CallFacts DEF ListingInv, NothingStale
  <2>2. moment >= call.since - Lifetime
    <3>1. \A x \in 0 .. moment : moment >= x - Lifetime
      BY CallFacts, ListingConstants
    <3> QED BY <3>1, CallFacts
  <2> QED BY <1>1, <2>1, <2>2
<1> QED BY <1>1, <1>2, <1>3, <1>4, <1>5 DEF ListingInv

\* What upstream has is as it was, and the clock goes on.
LEMMA UpstreamStands ==
    ASSUME ListingInv, UNCHANGED <<released, born, gone>>, moment' \in Nat, moment <= moment',
           \E T : cached' \in Seq(T), \A e \in Range(cached') : Kept(e)
    PROVE  ListingTyped'
<1>1. ListingTyped
  BY DEF ListingInv
<1>2. \A e \in Range(cached') : Kept(e)'
  BY <1>1, KeptOn
<1>3. \A r \in Numbers : /\ born[r] \in NotYet .. moment' /\ gone[r] \in NotYet .. moment'
  BY <1>1 DEF ListingTyped, NotYet
<1> QED BY <1>1, <1>2, <1>3 DEF ListingTyped, Kept

LEMMA PassKeeps == ASSUME ListingInv, PassTime PROVE ListingInv'
<1>1. moment' = moment + 1 /\ UNCHANGED <<released, born, gone, cached, call, listings>>
  BY DEF PassTime
<1>2. moment \in Nat /\ moment' \in Nat /\ moment <= moment'
  BY <1>1, CallFacts
<1>3. ListingTyped'
  <2>1. (\E T : cached' \in Seq(T)) /\ \A e \in Range(cached') : Kept(e)
    BY <1>1 DEF ListingInv, ListingTyped
  <2> QED BY <1>1, <1>2, <2>1, UpstreamStands
<1>4. CallTyped'
  <2>1. call.since \in 0 .. moment'
    BY <1>1, <1>2, CallFacts
  <2> QED BY <1>1, <2>1 DEF ListingInv, CallTyped
<1>5. Covered' /\ Unrepeated' /\ Quiet' /\ NothingStale'
  BY <1>1 DEF ListingInv, Covered, Unrepeated, Quiet, NothingStale, Direct, SomeGone, SomeBorn,
     ChangedSince, Before
<1> QED BY <1>3, <1>4, <1>5 DEF ListingInv

LEMMA StandKeeps == ASSUME ListingInv, UNCHANGED listingVars PROVE ListingInv'
<1>1. UNCHANGED <<moment, released, born, gone, cached, call, listings>>
  BY DEF listingVars
<1>2. ListingTyped' /\ CallTyped'
  BY <1>1 DEF ListingInv, ListingTyped, CallTyped, Kept, ChangedSince, UpstreamPage
<1>3. Covered' /\ Unrepeated' /\ Quiet' /\ NothingStale'
  BY <1>1 DEF ListingInv, Covered, Unrepeated, Quiet, NothingStale, Direct, SomeGone, SomeBorn,
     ChangedSince, Before
<1> QED BY <1>2, <1>3 DEF ListingInv

\* The cache without a page, and with one more.
LEMMA WithoutPage ==
    ASSUME NEW T, cached \in Seq(T), NEW n
    PROVE  NotOf(n) \in Seq(T) /\ \A e \in Range(NotOf(n)) : e \in Range(cached)
<1>1. CASE EntriesOf(n) = {}
  BY <1>1 DEF NotOf
<1>2. CASE EntriesOf(n) # {}
  <2> DEFINE j == CHOOSE i \in DOMAIN cached : cached[i].page = n
  <2>1. DOMAIN cached = 1 .. Len(cached) /\ Len(cached) \in Nat
    BY LenProperties
  <2>2. \E i \in DOMAIN cached : cached[i].page = n
    BY <1>2 DEF EntriesOf, Range
  <2>3. j \in 1 .. Len(cached)
    BY <2>1, <2>2
  <2>4. NotOf(n) = RemoveAt(cached, j)
    BY <1>2 DEF NotOf
  <2> HIDE DEF j
  <2> DEFINE w == RemoveAt(cached, j)
  <2>5. /\ w \in Seq(T) /\ Len(w) = Len(cached) - 1
        /\ \A k \in 1 .. Len(cached) - 1 : w[k] = IF k < j THEN cached[k] ELSE cached[k + 1]
    BY <2>3, RemovedAt
  <2> HIDE DEF w
  <2>6. ASSUME NEW e \in Range(w) PROVE e \in Range(cached)
    <3>1. PICK k \in 1 .. Len(w) : w[k] = e
      BY <2>5, <2>6, OfRange
    <3>2. k \in 1 .. Len(cached) - 1 /\ k \in 1 .. Len(cached) /\ k + 1 \in 1 .. Len(cached)
      BY <2>1, <2>5, <3>1
    <3>3. e = cached[k] \/ e = cached[k + 1]
      BY <2>5, <3>1, <3>2
    <3> QED BY <2>1, <3>2, <3>3 DEF Range
  <2> QED BY <2>4, <2>5, <2>6 DEF w
<1> QED BY <1>1, <1>2

LEMMA WithEntry ==
    ASSUME NEW T, cached \in Seq(T), NEW e \in T
    PROVE  Put(e) \in Seq(T) /\ \A x \in Range(Put(e)) : x = e \/ x \in Range(cached)
<1> DEFINE o == NotOf(e.page)
           u == IF Len(o) >= MaxCached THEN Tail(o) ELSE o
           w == Append(u, e)
<1>1. Put(e) = w
  BY DEF Put
<1>2. o \in Seq(T) /\ \A x \in Range(o) : x \in Range(cached)
  BY WithoutPage
<1>3. u = o \/ (u = Tail(o) /\ Len(o) >= MaxCached)
  OBVIOUS
<1> HIDE DEF o, u
<1>4. u \in Seq(T) /\ \A i \in 1 .. Len(u) : u[i] \in Range(o)
  <2>1. Len(o) \in Nat /\ \A i \in 1 .. Len(o) : o[i] \in Range(o)
    BY <1>2, OfRange
  <2>2. CASE u = o
    BY <1>2, <2>1, <2>2
  <2>3. CASE u = Tail(o) /\ Len(o) >= MaxCached
    <3>1. Len(o) # 0
      BY <2>1, <2>3, ListingConstants
    <3>2. o # <<>>
      BY <3>1
    <3>3. /\ Tail(o) \in Seq(T) /\ Len(Tail(o)) = Len(o) - 1
          /\ \A i \in 1 .. Len(Tail(o)) : Tail(o)[i] = o[i + 1]
      BY <1>2, <3>2, HeadTailProperties
    <3>4. \A i \in 1 .. Len(u) : i + 1 \in 1 .. Len(o) /\ u[i] = o[i + 1]
      BY <2>1, <2>3, <3>3
    <3> QED BY <2>1, <2>3, <3>3, <3>4
  <2> QED BY <1>3, <2>2, <2>3
<1>5. /\ w \in Seq(T) /\ Len(w) = Len(u) + 1 /\ w[Len(u) + 1] = e
      /\ \A i \in 1 .. Len(u) : w[i] = u[i]
  BY <1>4, AppendProperties
<1> HIDE DEF w
<1>6. ASSUME NEW x \in Range(w) PROVE x = e \/ x \in Range(cached)
  <2>1. PICK i \in 1 .. Len(w) : w[i] = x
    BY <1>5, <1>6, OfRange
  <2>2. Len(u) \in Nat
    BY <1>4, LenProperties
  <2>3. i = Len(u) + 1 \/ i \in 1 .. Len(u)
    BY <1>5, <2>1, <2>2
  <2> QED BY <1>2, <1>4, <1>5, <2>1, <2>3
<1> QED BY <1>1, <1>5, <1>6

LEMMA StartKeeps == ASSUME ListingInv, StartListing PROVE ListingInv'
<1>1. call' = [NoCall EXCEPT !.at = "pages", !.since = moment]
      /\ UNCHANGED <<moment, released, born, gone, cached>>
  BY DEF StartListing
<1>2. call' = [at |-> "pages", page |-> 1, items |-> <<>>, from |-> {}, since |-> moment]
  BY <1>1 DEF NoCall
<1>3. moment \in Nat /\ released \in Seq(Numbers)
  BY CallFacts
<1>4. ListingTyped'
  <2>1. (\E T : cached' \in Seq(T)) /\ \A e \in Range(cached') : Kept(e)
    BY <1>1 DEF ListingInv, ListingTyped
  <2> QED BY <1>1, <1>3, <2>1, UpstreamStands
<1>5. CallTyped'
  <2>1. /\ call' = [at |-> call'.at, page |-> call'.page, items |-> call'.items,
                    from |-> call'.from, since |-> call'.since]
        /\ call'.at = "pages" /\ call'.page = 1 /\ call'.items = <<>> /\ call'.since = moment
    BY <1>2
  <2>2. <<>> \in Seq(Numbers)
    OBVIOUS
  <2>3. 1 \in Nat \ {0} /\ moment' = moment /\ moment \in 0 .. moment
    BY <1>1, <1>3
  <2> QED BY <2>1, <2>2, <2>3 DEF CallTyped
<1>6. Before' = 0 /\ Range(call'.items) = {} /\ IsInjective(call'.items)
  <2>1. call'.page = 1 /\ call'.items = <<>>
    BY <1>2
  <2>2. Before' = 0
    BY <2>1, ListingConstants DEF Before
  <2>3. Range(<<>>) = {} /\ IsInjective(<<>>)
    BY DEF Range, IsInjective
  <2> QED BY <2>1, <2>2, <2>3
<1>7. Covered' /\ Unrepeated' /\ NothingStale'
  BY <1>2, <1>6, CallFacts DEF Covered, Unrepeated, NothingStale
<1>8. Quiet'
  <2>1. SubSeq(released', 1, 0) = <<>>
    BY SubSeqEmpty
  <2>2. 0 <= Len(released')
    BY <1>1, CallFacts
  <2> QED BY <1>2, <1>6, <2>1, <2>2 DEF Quiet
<1> QED BY <1>4, <1>5, <1>7, <1>8 DEF ListingInv

LEMMA FailKeeps == ASSUME ListingInv, PageFails PROVE ListingInv'
<1>1. /\ call' = [call EXCEPT !.at = "failed", !.items = <<>>] /\ cached' = NotOf(call.page)
      /\ UNCHANGED <<moment, released, born, gone>>
  BY DEF PageFails
<1>2. /\ call = [at |-> call.at, page |-> call.page, items |-> call.items, from |-> call.from,
                 since |-> call.since]
      /\ call.page \in Nat \ {0} /\ call.since \in 0 .. moment
  BY DEF ListingInv, CallTyped
<1>3. call' = [at |-> "failed", page |-> call.page, items |-> <<>>, from |-> call.from,
               since |-> call.since]
  BY <1>1, <1>2
<1>4. /\ call'.at = "failed" /\ call'.page = call.page /\ call'.items = <<>>
      /\ call'.since = call.since
      /\ call' = [at |-> call'.at, page |-> call'.page, items |-> call'.items,
                  from |-> call'.from, since |-> call'.since]
  BY <1>3
<1>5. ListingTyped'
  <2>1. PICK T : cached \in Seq(T)
    BY DEF ListingInv, ListingTyped
  <2>2. NotOf(call.page) \in Seq(T) /\ \A e \in Range(NotOf(call.page)) : e \in Range(cached)
    BY <2>1, WithoutPage
  <2>3. \A e \in Range(cached) : Kept(e)
    BY DEF ListingInv, ListingTyped
  <2>4. (\E S : cached' \in Seq(S)) /\ \A e \in Range(cached') : Kept(e)
    BY <1>1, <2>2, <2>3
  <2>5. moment \in Nat
    BY CallFacts
  <2>6. moment' \in Nat /\ moment <= moment'
    BY <1>1, <2>5
  <2> QED BY <1>1, <2>4, <2>6, UpstreamStands
<1>6. CallTyped'
  <2>1. <<>> \in Seq(Numbers)
    OBVIOUS
  <2>2. call.since \in 0 .. moment'
    BY <1>1, <1>2
  <2> QED BY <1>2, <1>4, <2>1, <2>2 DEF CallTyped
<1>7. Range(call'.items) = {}
  <2>1. Range(<<>>) = {}
    BY DEF Range
  <2> QED BY <1>4, <2>1
<1>8. Covered' /\ Unrepeated' /\ Quiet' /\ NothingStale'
  BY <1>4, <1>7 DEF Covered, Unrepeated, Quiet, NothingStale
<1> QED BY <1>5, <1>6, <1>8 DEF ListingInv

LEMMA OfJoined ==
    ASSUME NEW S, NEW s \in Seq(S), NEW t \in Seq(S)
    PROVE  /\ s \o t \in Seq(S)
           /\ \A x : x \in Range(s \o t) <=> x \in Range(s) \/ x \in Range(t)
<1> DEFINE m == Len(s)
           n == Len(t)
           u == s \o t
<1>1. /\ u \in Seq(S) /\ Len(u) = m + n
      /\ \A i \in 1 .. m + n : u[i] = IF i <= m THEN s[i] ELSE t[i - m]
  BY ConcatProperties
<1>2. m \in Nat /\ n \in Nat /\ DOMAIN s = 1 .. m /\ DOMAIN t = 1 .. n
  BY LenProperties
<1> HIDE DEF m, n, u
<1>3. DOMAIN u = 1 .. m + n
  BY <1>1, LenProperties
<1>4. ASSUME NEW x \in Range(u) PROVE x \in Range(s) \/ x \in Range(t)
  <2>1. PICK i \in 1 .. m + n : u[i] = x
    BY <1>3, <1>4 DEF Range
  <2>2. CASE i <= m
    <3>1. i \in 1 .. m /\ x = s[i]
      BY <1>1, <1>2, <2>1, <2>2
    <3> QED BY <1>2, <3>1 DEF Range
  <2>3. CASE ~(i <= m)
    <3>1. i - m \in 1 .. n
      BY <1>2, <2>3
    <3>2. x = t[i - m]
      BY <1>1, <2>1, <2>3
    <3> QED BY <1>2, <3>1, <3>2 DEF Range
  <2> QED BY <2>2, <2>3
<1>5. ASSUME NEW x \in Range(s) PROVE x \in Range(u)
  <2>1. PICK i \in 1 .. m : s[i] = x
    BY <1>2, <1>5 DEF Range
  <2>2. i \in 1 .. m + n /\ i <= m
    BY <1>2
  <2>3. u[i] = x
    BY <1>1, <2>1, <2>2
  <2> QED BY <1>3, <2>2, <2>3 DEF Range
<1>6. ASSUME NEW x \in Range(t) PROVE x \in Range(u)
  <2>1. PICK i \in 1 .. n : t[i] = x
    BY <1>2, <1>6 DEF Range
  <2> DEFINE k == i + m
  <2>2. k \in 1 .. m + n /\ ~(k <= m) /\ k - m = i
    BY <1>2
  <2> HIDE DEF k
  <2>3. u[k] = x
    BY <1>1, <2>1, <2>2
  <2> QED BY <1>3, <2>2, <2>3 DEF Range
<1>7. \A x : x \in Range(u) <=> x \in Range(s) \/ x \in Range(t)
  BY <1>4, <1>5, <1>6
<1> QED BY <1>1, <1>7 DEF u

\* The call after an answer.
LEMMA TakeFacts ==
    ASSUME ListingInv, call.at = "pages", NEW e, Kept(e), NEW source, Take(e, source)
    PROVE  /\ call' = [at |-> call'.at, page |-> call'.page, items |-> call'.items,
                       from |-> call'.from, since |-> call'.since]
           /\ call'.items = call.items \o e.items /\ call'.from = call.from \cup {source}
           /\ call'.since = call.since
           /\ \/ e.items # <<>> /\ e.next /\ call'.at = "pages" /\ call'.page = call.page + 1
              \/ ~(e.items # <<>> /\ e.next) /\ call'.at = "listed" /\ call'.page = call.page
<1> DEFINE c == [at |-> call.at, page |-> call.page, items |-> call.items, from |-> call.from,
                 since |-> call.since]
           y == call.items \o e.items
           f == call.from \cup {source}
<1>1. call = c
  BY DEF ListingInv, CallTyped
<1>2. call' = IF e.items # <<>> /\ e.next THEN [[call EXCEPT !.items = y, !.from = f] EXCEPT !.page = @ + 1]
              ELSE [[call EXCEPT !.items = y, !.from = f] EXCEPT !.at = "listed"]
  BY DEF Take
<1> HIDE DEF y, f
<1>6. [call EXCEPT !.items = y, !.from = f]
        = [at |-> call.at, page |-> call.page, items |-> y, from |-> f, since |-> call.since]
  <2> DEFINE x == [call EXCEPT !.items = y]
  <2>1. [call EXCEPT !.items = y, !.from = f] = [x EXCEPT !.from = f]
    OBVIOUS
  <2>2. [c EXCEPT !.items = y]
          = [at |-> call.at, page |-> call.page, items |-> y, from |-> call.from,
             since |-> call.since]
    OBVIOUS
  <2> HIDE DEF c
  <2>3. x = [at |-> call.at, page |-> call.page, items |-> y, from |-> call.from,
             since |-> call.since]
    BY <1>1, <2>2
  <2> HIDE DEF x
  <2>4. [x EXCEPT !.from = f]
          = [at |-> call.at, page |-> call.page, items |-> y, from |-> f, since |-> call.since]
    BY <2>3
  <2> QED BY <2>1, <2>4
<1> DEFINE d == [at |-> call.at, page |-> call.page, items |-> y, from |-> f, since |-> call.since]
<1>3. call' = IF e.items # <<>> /\ e.next THEN [d EXCEPT !.page = @ + 1]
              ELSE [d EXCEPT !.at = "listed"]
  BY <1>2, <1>6
<1>4. CASE e.items # <<>> /\ e.next
  <2>1. call' = [at |-> call.at, page |-> call.page + 1, items |-> y, from |-> f,
                 since |-> call.since]
    BY <1>3, <1>4
  <2> QED BY <1>4, <2>1 DEF y, f
<1>5. CASE ~(e.items # <<>> /\ e.next)
  <2>1. call' = [at |-> "listed", page |-> call.page, items |-> y, from |-> f,
                 since |-> call.since]
    BY <1>3, <1>5
  <2> QED BY <1>5, <2>1 DEF y, f
<1> QED BY <1>4, <1>5

\* An answer that may be kept and is not too old is taken.
LEMMA TakeKeeps ==
    ASSUME ListingInv, call.at = "pages", NEW e, Kept(e), NEW source, Take(e, source),
           e.page = call.page, moment - e.at <= Lifetime,
           source = "upstream" \/ source = "cache",
           source = "upstream" => e = UpstreamPage(call.page),
           UNCHANGED <<moment, released, born, gone>>, ListingTyped'
    PROVE  ListingInv'
<1> DEFINE n == call.page
           a == From(n)
           b == Until(n)
           l == Len(released)
           p == UpstreamPage(n)
           y == call'.items
<1>1. /\ call' = [at |-> call'.at, page |-> call'.page, items |-> call'.items,
                  from |-> call'.from, since |-> call'.since]
      /\ y = call.items \o e.items /\ call'.from = call.from \cup {source}
      /\ call'.since = call.since
      /\ \/ e.items # <<>> /\ e.next /\ call'.at = "pages" /\ call'.page = n + 1
         \/ ~(e.items # <<>> /\ e.next) /\ call'.at = "listed" /\ call'.page = n
  BY TakeFacts
<1>2. /\ ListingTyped /\ n \in Nat \ {0} /\ call.items \in Seq(Numbers)
      /\ call.since \in 0 .. moment /\ moment \in Nat /\ Before = a
      /\ released \in Seq(Numbers) /\ l \in Nat /\ \A i \in 1 .. l : released[i] \in Numbers
  BY CallFacts
<1>3. a \in Nat /\ b \in Nat /\ From(n + 1) = b
  BY <1>2, PlaceOf DEF From, Until
<1>4. /\ p.items = <<>> => l <= a
      /\ p.next <=> b < l
      /\ p.items \in Seq(Numbers) /\ IsInjective(p.items)
      /\ \A x : x \in Range(p.items) <=>
                 \E i \in 1 .. l : a < i /\ i <= b /\ released[i] = x
      /\ a <= l => SubSeq(released, 1, a) \o p.items
                     = IF b < l THEN SubSeq(released, 1, b) ELSE released
  BY <1>2, PageOf
<1>5. /\ e.at \in 0 .. moment /\ e.items \in Seq(Numbers) /\ e.next \in BOOLEAN
      /\ ~ChangedSince(e.at) => e.items = p.items /\ e.next = p.next
      /\ \A r \in Range(e.items) : gone[r] = NotYet \/ gone[r] >= e.at
  BY DEF Kept
<1>6. y \in Seq(Numbers) /\ \A x : x \in Range(y) <=> x \in Range(call.items) \/ x \in Range(e.items)
  BY <1>1, <1>2, <1>5, OfJoined
<1>7. call.since - Lifetime \in Int /\ e.at \in Int /\ call.since - Lifetime <= e.at
  <2>1. \A x \in 0 .. moment, z \in 0 .. moment :
           moment - z <= Lifetime => x - Lifetime \in Int /\ z \in Int /\ x - Lifetime <= z
    BY <1>2, ListingConstants
  <2> QED BY <1>2, <1>5, <2>1
<1>8. call'.at = "pages" => Before' = b
  <2>1. ASSUME call'.at = "pages" PROVE Before' = b
    <3>1. call'.page = n + 1
      BY <1>1, <2>1
    <3>2. Before' = (call'.page - 1) * PageSize
      BY DEF Before
    <3>3. call'.page - 1 = n
      BY <1>2, <3>1
    <3>4. Before' = n * PageSize
      BY <3>2, <3>3
    <3> QED BY <3>4 DEF Until
  <2> QED BY <2>1
<1> HIDE DEF a, b, l, p, y, n
<1>9. CallTyped'
  <2>1. call'.page \in Nat \ {0} /\ call'.at \in {"pages", "listed"}
    BY <1>1, <1>2
  <2>2. call'.since \in 0 .. moment'
    BY <1>1, <1>2
  <2> QED BY <1>1, <1>6, <2>1, <2>2 DEF CallTyped, y
<1>10. NothingStale'
  <2> SUFFICES ASSUME NEW r \in Range(y)
               PROVE  gone[r] = NotYet \/ gone[r] >= call.since - Lifetime
    BY <1>1 DEF NothingStale, y
  <2>1. CASE r \in Range(call.items)
    BY <2>1 DEF ListingInv, NothingStale
  <2>2. CASE r \in Range(e.items)
    <3>1. r \in Numbers
      BY <1>5, <2>2, OfRange
    <3>2. gone[r] \in Int
      BY <1>2, <3>1 DEF ListingTyped
    <3>3. gone[r] = NotYet \/ gone[r] >= e.at
      BY <1>5, <2>2
    <3> HIDE DEF NotYet
    <3> QED BY <1>7, <3>2, <3>3
  <2> QED BY <1>6, <2>1, <2>2
<1>11. Quiet'
  <2> SUFFICES ASSUME ~ChangedSince(call.since - Lifetime)
               PROVE  /\ call'.at = "pages" => b <= l /\ y = SubSeq(released, 1, b)
                      /\ call'.at = "listed" => y = released
    BY <1>1, <1>8 DEF Quiet, ChangedSince, y, l
  <2>1. ~ChangedSince(e.at)
    BY <1>2, <1>7, SinceFacts
  <2>2. e.items = p.items /\ e.next = p.next
    BY <1>5, <2>1
  <2>3. a <= l /\ call.items = SubSeq(released, 1, a)
    BY <1>2 DEF ListingInv, Quiet, l
  <2>4. y = IF b < l THEN SubSeq(released, 1, b) ELSE released
    BY <1>1, <1>4, <2>2, <2>3
  <2>5. CASE e.items # <<>> /\ e.next
    <3>1. b < l
      BY <1>4, <2>2, <2>5
    <3>2. b <= l /\ y = SubSeq(released, 1, b)
      BY <1>2, <1>3, <2>4, <3>1
    <3> QED BY <1>1, <2>5, <3>2
  <2>6. CASE ~(e.items # <<>> /\ e.next)
    <3>1. ~(b < l)
      <4>1. CASE e.items = <<>>
        <5>1. l <= a
          BY <1>4, <2>2, <4>1
        <5>2. b = a + PageSize /\ PageSize \in Nat
          BY <1>2, PlaceOf, ListingConstants DEF a, b, From, Until
        <5> QED BY <1>2, <1>3, <5>1, <5>2
      <4>2. CASE ~e.next
        BY <1>4, <2>2, <4>2
      <4> QED BY <2>6, <4>1, <4>2
    <3> QED BY <1>1, <2>4, <2>6, <3>1
  <2> QED BY <2>5, <2>6
<1>12. ASSUME Direct' PROVE Direct /\ e.items = p.items /\ e.next = p.next
  <2>1. source \in call'.from /\ call.from \subseteq call'.from
    BY <1>1
  <2>2. source = "upstream" /\ Direct
    BY <1>12, <2>1 DEF Direct
  <2> QED BY <2>2 DEF p, n
<1>13. Covered'
  <2> SUFFICES ASSUME Direct', ~SomeGone, NEW i \in 1 .. l, born[released[i]] < call.since
               PROVE  (call'.at = "pages" /\ i > b) \/ released[i] \in Range(y)
    BY <1>1, <1>8 DEF Covered, SomeGone, y, l
  <2>1. Direct /\ e.items = p.items /\ e.next = p.next
    BY <1>12
  <2>2. i > a \/ released[i] \in Range(call.items)
    BY <1>2, <2>1 DEF ListingInv, Covered, l
  <2>3. CASE released[i] \in Range(call.items)
    BY <1>6, <2>3
  <2>4. CASE i > a /\ i <= b
    <3>1. a < i
      BY <1>3, <2>4
    <3>2. released[i] \in Range(p.items)
      BY <1>4, <2>4, <3>1
    <3> QED BY <1>6, <2>1, <3>2
  <2>5. CASE i > a /\ ~(i <= b)
    <3>1. b < l /\ ~(l <= a) /\ i > b
      BY <1>2, <1>3, <2>5
    <3>2. e.items # <<>> /\ e.next
      BY <1>4, <2>1, <3>1
    <3> QED BY <1>1, <3>1, <3>2
  <2> QED BY <2>2, <2>3, <2>4, <2>5
<1>14. Unrepeated'
  <2> SUFFICES ASSUME Direct', ~SomeBorn
               PROVE  /\ IsInjective(y)
                      /\ call'.at = "pages" =>
                            \A i \in 1 .. l : i > b => released[i] \notin Range(y)
    BY <1>1, <1>8 DEF Unrepeated, SomeBorn, y, l
  <2>1. Direct /\ e.items = p.items
    BY <1>12
  <2>2. /\ IsInjective(call.items)
        /\ \A i \in 1 .. l : i > a => released[i] \notin Range(call.items)
    BY <1>2, <2>1 DEF ListingInv, Unrepeated, l
  <2>3. Range(call.items) \cap Range(p.items) = {}
    <3> SUFFICES ASSUME NEW x \in Range(call.items), x \in Range(p.items) PROVE FALSE
      OBVIOUS
    <3>1. PICK i \in 1 .. l : a < i /\ i <= b /\ released[i] = x
      BY <1>4
    <3>2. i > a
      BY <1>3, <3>1
    <3> QED BY <2>2, <3>1, <3>2
  <2>4. IsInjective(y)
    BY <1>1, <1>2, <1>4, <2>1, <2>2, <2>3, JoinedOnce
  <2>5. ASSUME NEW i \in 1 .. l, i > b PROVE released[i] \notin Range(y)
    <3>1. i > a
      <4>1. a <= b
        BY <1>2, PlaceOf, ListingConstants DEF a, b, From, Until
      <4> QED BY <1>3, <2>5, <4>1
    <3>2. released[i] \notin Range(call.items)
      BY <2>2, <3>1
    <3>3. released[i] \notin Range(p.items)
      <4> SUFFICES ASSUME released[i] \in Range(p.items) PROVE FALSE
        OBVIOUS
      <4>1. PICK j \in 1 .. l : a < j /\ j <= b /\ released[j] = released[i]
        BY <1>4
      <4>2. IsInjective(released) /\ DOMAIN released = 1 .. l
        BY <1>2, LenProperties DEF ListingTyped, l
      <4>3. j = i
        BY <4>1, <4>2 DEF IsInjective
      <4> QED BY <1>3, <2>5, <4>1, <4>3
    <3> QED BY <1>6, <2>1, <3>2, <3>3
  <2> QED BY <2>4, <2>5
<1> QED BY <1>9, <1>10, <1>11, <1>13, <1>14 DEF ListingInv

LEMMA CachedKeeps == ASSUME ListingInv, TakeCached PROVE ListingInv'
<1>1. /\ call.at = "pages" /\ UNCHANGED <<moment, released, born, gone, cached>>
      /\ \E e \in EntriesOf(call.page) : ~Expired(e) /\ Take(e, "cache")
  BY DEF TakeCached
<1>2. PICK e \in EntriesOf(call.page) : ~Expired(e) /\ Take(e, "cache")
  BY <1>1
<1>3. e \in Range(cached) /\ e.page = call.page
  BY DEF EntriesOf
<1>4. Kept(e)
  BY <1>3 DEF ListingInv, ListingTyped
<1>5. moment - e.at <= Lifetime
  <2>1. \A x \in 0 .. moment : ~(moment - x > Lifetime) => moment - x <= Lifetime
    BY CallFacts, ListingConstants
  <2>2. e.at \in 0 .. moment /\ ~(moment - e.at > Lifetime)
    BY <1>2, <1>4 DEF Expired, Kept
  <2> QED BY <2>1, <2>2
<1>6. ListingTyped'
  <2>1. (\E T : cached' \in Seq(T)) /\ \A x \in Range(cached') : Kept(x)
    BY <1>1 DEF ListingInv, ListingTyped
  <2>2. moment \in Nat
    BY CallFacts
  <2>3. moment' \in Nat /\ moment <= moment'
    BY <1>1, <2>2
  <2> QED BY <1>1, <2>1, <2>3, UpstreamStands
<1>7. "cache" = "upstream" => e = UpstreamPage(call.page)
  OBVIOUS
<1> QED BY <1>1, <1>2, <1>3, <1>4, <1>5, <1>6, <1>7, TakeKeeps

LEMMA FetchKeeps == ASSUME ListingInv, FetchPage PROVE ListingInv'
<1> DEFINE e == UpstreamPage(call.page)
<1>1. /\ call.at = "pages" /\ UNCHANGED <<moment, released, born, gone>>
      /\ cached' = Put(e) /\ Take(e, "upstream")
  BY DEF FetchPage
<1>2. ListingTyped /\ call.page \in Nat \ {0} /\ moment \in Nat
  BY CallFacts
<1>3. Kept(e)
  BY <1>2, AnswerKept
<1>4. e.page = call.page /\ e.at = moment
  BY DEF UpstreamPage
<1>5. e = UpstreamPage(call.page)
  OBVIOUS
<1> HIDE DEF e
<1>6. moment - e.at <= Lifetime
  BY <1>2, <1>4, ListingConstants
<1>7. ListingTyped'
  <2>1. PICK S : cached \in Seq(S)
    BY <1>2 DEF ListingTyped
  <2> DEFINE T == S \cup {e}
  <2>2. cached \in Seq(T)
    <3>1. Len(cached) \in Nat /\ cached \in [1 .. Len(cached) -> S]
      BY <2>1, LenProperties
    <3>2. cached \in [1 .. Len(cached) -> T]
      BY <3>1
    <3> HIDE DEF T
    <3> QED BY <3>1, <3>2, SeqDef
  <2>3. e \in T
    OBVIOUS
  <2> HIDE DEF T
  <2>4. Put(e) \in Seq(T) /\ \A x \in Range(Put(e)) : x = e \/ x \in Range(cached)
    BY <2>2, <2>3, WithEntry
  <2>5. \A x \in Range(cached) : Kept(x)
    BY <1>2 DEF ListingTyped
  <2>6. (\E U : cached' \in Seq(U)) /\ \A x \in Range(cached') : Kept(x)
    BY <1>1, <1>3, <2>4, <2>5
  <2>7. moment' \in Nat /\ moment <= moment'
    BY <1>1, <1>2
  <2> QED BY <1>1, <2>6, <2>7, UpstreamStands
<1> QED BY <1>1, <1>3, <1>4, <1>5, <1>6, <1>7, TakeKeeps

LEMMA InitListing == ASSUME ListingInit PROVE ListingInv
<1>1. /\ moment = 1 /\ released = <<2, 1>> /\ cached = <<>>
      /\ born = [r \in Numbers |-> IF r \in {1, 2} THEN 0 ELSE NotYet]
      /\ gone = [r \in Numbers |-> NotYet]
      /\ call = [at |-> "idle", page |-> 1, items |-> <<>>, from |-> {}, since |-> 0]
  BY DEF ListingInit, NoCall
<1>2. 1 \in Numbers /\ 2 \in Numbers /\ \A r \in Numbers : r \in Int
  BY ListingConstants
<1>3. Range(<<>>) = {} /\ Range(<<2, 1>>) = {1, 2} /\ IsInjective(<<2, 1>>)
  BY DEF Range, IsInjective
<1>4. ListingTyped
  <2>1. released \in Seq(Numbers) /\ cached \in Seq({}) /\ moment \in Nat
    BY <1>1, <1>2
  <2>2. born \in [Numbers -> Int] /\ gone \in [Numbers -> Int]
    BY <1>1 DEF NotYet
  <2>3. \A r \in Numbers : /\ born[r] = (IF r \in {1, 2} THEN 0 ELSE NotYet)
                           /\ gone[r] = NotYet
    BY <1>1
  <2>4. \A r \in Numbers : born[r] \in NotYet .. moment /\ gone[r] \in NotYet .. moment
    BY <1>1, <2>3 DEF NotYet
  <2>5. \A r \in Numbers : r \in Range(released) <=> born[r] # NotYet /\ gone[r] = NotYet
    BY <1>1, <1>3, <2>3 DEF NotYet
  <2>6. \A e \in Range(cached) : Kept(e)
    BY <1>1, <1>3
  <2>7. IsInjective(released)
    BY <1>1, <1>3
  <2> QED BY <2>1, <2>2, <2>3, <2>4, <2>5, <2>6, <2>7 DEF ListingTyped
<1>5. CallTyped
  <2>1. /\ call.at = "idle" /\ call.page = 1 /\ call.items = <<>> /\ call.since = 0
        /\ call = [at |-> call.at, page |-> call.page, items |-> call.items, from |-> call.from,
                   since |-> call.since]
    BY <1>1
  <2>2. <<>> \in Seq(Numbers)
    OBVIOUS
  <2>3. 0 \in 0 .. moment /\ 1 \in Nat \ {0}
    BY <1>1
  <2> QED BY <2>1, <2>2, <2>3 DEF CallTyped
<1>6. call.at = "idle" /\ Range(call.items) = {}
  BY <1>1, <1>3
<1>7. Covered /\ Unrepeated /\ Quiet /\ NothingStale
  BY <1>6 DEF Covered, Unrepeated, Quiet, NothingStale
<1> QED BY <1>4, <1>5, <1>7 DEF ListingInv

LEMMA KeptListing == ListingInv => ListingHonest
<1> SUFFICES ASSUME ListingInv PROVE ListingHonest
  OBVIOUS
<1>1. QuietExact /\ NothingStale
  BY DEF ListingInv, Quiet, QuietExact, WasListed
<1>2. ListsWhole
  <2> SUFFICES ASSUME call.at = "listed", call.from = {"upstream"}
               PROVE  /\ (\A r \in Numbers : gone[r] < call.since) =>
                            \A r \in Numbers : born[r] \in 0 .. call.since - 1 /\ gone[r] = NotYet
                                           => r \in Range(call.items)
                      /\ (\A r \in Numbers : born[r] < call.since) => IsInjective(call.items)
    BY DEF ListsWhole, WasListed
  <2>1. Direct
    BY DEF Direct
  <2>2. \A r \in Numbers : born[r] \in Int /\ gone[r] \in Int
    BY CallFacts DEF ListingTyped
  <2>3. ASSUME \A r \in Numbers : gone[r] < call.since,
               NEW r \in Numbers, born[r] \in 0 .. call.since - 1, gone[r] = NotYet
        PROVE  r \in Range(call.items)
    <3>1. ~SomeGone
      BY <2>2, <2>3, CallFacts DEF SomeGone
    <3>2. born[r] < call.since /\ born[r] # NotYet
      BY <2>2, <2>3, CallFacts DEF NotYet
    <3>3. r \in Range(released)
      BY <2>3, <3>2, CallFacts DEF ListingTyped
    <3>4. PICK i \in 1 .. Len(released) : released[i] = r
      BY <3>3, CallFacts, OfRange
    <3> QED BY <2>1, <3>1, <3>2, <3>4 DEF ListingInv, Covered
  <2>4. ASSUME \A r \in Numbers : born[r] < call.since PROVE IsInjective(call.items)
    <3>1. ~SomeBorn
      BY <2>2, <2>4, CallFacts DEF SomeBorn
    <3> QED BY <2>1, <3>1 DEF ListingInv, Unrepeated
  <2> QED BY <2>3, <2>4
<1> QED BY <1>1, <1>2 DEF ListingHonest

\* However releases are published and withdrawn while a list is read, and whatever of it comes
\* from the cache: a list that came from upstream has what was there all the while, unless one was
\* withdrawn meanwhile, and none of it twice, unless one was published; where nothing has changed
\* for as long as answers are kept it is upstream's; and it has nothing that had gone before the
\* oldest answer that may be kept.
THEOREM ListingsAreHonest == ListingSpec => []ListingHonest
<1>1. ListingInit => ListingInv
  BY InitListing
<1>2. ListingInv /\ [ListingNext]_listingVars => ListingInv'
  <2> SUFFICES ASSUME ListingInv, [ListingNext]_listingVars PROVE ListingInv'
    OBVIOUS
  <2>1. CASE UNCHANGED listingVars
    BY <2>1, StandKeeps
  <2>2. ASSUME NEW r \in Numbers, PublishRelease(r) PROVE ListingInv'
    BY <2>2, PublishKeeps
  <2>3. ASSUME NEW r \in Numbers, WithdrawRelease(r) PROVE ListingInv'
    BY <2>3, WithdrawKeeps
  <2>4. CASE PassTime
    BY <2>4, PassKeeps
  <2>5. CASE StartListing
    BY <2>5, StartKeeps
  <2>6. CASE TakeCached
    BY <2>6, CachedKeeps
  <2>7. CASE FetchPage
    BY <2>7, FetchKeeps
  <2>8. CASE PageFails
    BY <2>8, FailKeeps
  <2> QED BY <2>1, <2>2, <2>3, <2>4, <2>5, <2>6, <2>7, <2>8 DEF ListingNext
<1>3. ListingInv => ListingHonest
  BY KeptListing
<1> QED BY <1>1, <1>2, <1>3, PTL DEF ListingSpec
====
