---------------------------- MODULE CatalogueProofs ----------------------------
(***************************************************************************)
(* Theorems about parts of the catalogue and its API: the limit of         *)
(* requests (ApiRateLimit), for any number of processes, requests and      *)
(* seconds; feed files and backups (FeedFiles), for any number of writers, *)
(* feeds, jobs and backups; favourites and collections (Library), for any  *)
(* number of clients, users, applications and names; the search            *)
(* (CatalogSearch), for any rows, requests and size of a page; what the    *)
(* source connectors' keys lead to (Connectors), for any entries of the    *)
(* sources and any releases; the analytics (Analytics), for any batches of *)
(* events and number of sessions; and the scores (Scores), for any         *)
(* applications and whatever upstream says of them.                        *)
(***************************************************************************)
EXTENDS ApiRateLimit, FeedFiles, Library, CatalogSearch, Connectors, Analytics, Scores,
        FiniteSetTheorems, SequenceTheorems, WellFoundedInduction, TLAPS

\* The least member of some natural numbers: what the code's min() returns.
LEMMA LeastOfSome ==
    ASSUME NEW S \in SUBSET Nat, S # {}
    PROVE  Min(S) \in S /\ \A y \in S : Min(S) <= y
<1>1. PICK m \in S : \A y \in S : ~ (<<y, m>> \in OpToRel(<, Nat))
  BY NatLessThanWellFounded, WFMin
<1>2. ASSUME NEW y \in S PROVE m <= y
  <2>1. y \in Nat /\ m \in Nat
    OBVIOUS
  <2>2. ~(y < m)
    BY <1>1, <2>1 DEF OpToRel
  <2> QED BY <2>1, <2>2
<1> QED BY <1>2 DEF Min

--------------------------------------------------------------------------------
(* The limit of requests *)

AskStates == [at : {"new", "incr", "expire", "log", "done"}, began : 0 .. LastSecond,
              process : Processes \cup {Nobody}, by : Processes \cup {Nobody, "redis"},
              allowed : BOOLEAN, decided : 0 .. LastSecond]

LimitTyped ==
    /\ second \in 0 .. LastSecond /\ shared \in BOOLEAN
    /\ counter \in [Windows -> Nat] /\ expiry \in [Windows -> Nat]
    /\ hits \in [Processes -> Seq(Nat)]
    /\ ask \in [Asks -> AskStates]
    /\ told \in [by : Processes \cup {Nobody, "redis"}, until : Nat]

\* A request goes from its beginning to its answer.
GoesOn(r) ==
    /\ ask[r].at = "new" <=> ask[r].process \notin Processes
    /\ ask[r].at # "done" => ~ask[r].allowed
    /\ ask[r].at = "done" => ask[r].by # Nobody
    /\ ask[r].began <= second

\* Those that Redis let through while the window of their key lasted, and the one that is
\* about to set the key's expiry
Counted(w)  == {r \in Asks : /\ ask[r].allowed /\ ask[r].by = "redis"
                             /\ WindowOf(ask[r].began) = w /\ WindowOf(ask[r].decided) = w}
Expiring(w) == {r \in Asks : ask[r].at = "expire" /\ WindowOf(ask[r].began) = w}

\* Until its window is over a key stays and counts all of them.
KeyCounts(w) ==
    /\ Cardinality(Counted(w)) <= Quota
    /\ WindowOf(second) <= w =>
          /\ Cardinality(Counted(w) \cup Expiring(w)) <= counter[w]
          /\ Cardinality(Counted(w) \cup Expiring(w)) <= Quota
    /\ expiry[w] # 0 => expiry[w] >= (w + 1) * Window
    /\ counter[w] > 0 => \E r \in Asks : ask[r].at # "new" /\ WindowOf(ask[r].began) = w

\* What a process let through by itself after a time
AloneAfter(p, u) == {r \in Asks : ask[r].allowed /\ ask[r].by = p /\ ask[r].decided > u}
HitsAfter(p, u)  == {i \in DOMAIN hits[p] : hits[p][i] > u}

\* A log has them all for the length of a window.
LogCounts(p) ==
    /\ Len(hits[p]) <= Quota
    /\ \A u \in Int : u >= second - Window =>
          Cardinality(AloneAfter(p, u)) <= Cardinality(HitsAfter(p, u))
    /\ \A t \in Nat : Cardinality({r \in Admitted(t) : ask[r].by = p}) <= Quota

\* Since the refusal nobody has begun, and nobody has been answered.
RefusalStands ==
    told # NoRefusal =>
        /\ told.by # Nobody
        /\ told.by = "redis" =>
              /\ \E k \in Nat : told.until = k * Window
              /\ \A r \in Asks : ask[r].at # "new" => ask[r].began < told.until
        /\ told.by \in Processes =>
              hits[told.by] # <<>> /\ told.until = hits[told.by][1] + Window + 1

LimitInv ==
    /\ LimitTyped /\ (\A r \in Asks : GoesOn(r)) /\ (\A w \in Windows : KeyCounts(w))
    /\ (\A p \in Processes : LogCounts(p)) /\ RefusalStands

--------------------------------------------------------------------------------
(* Windows *)

LEMMA Constants ==
    /\ AskCount \in Nat /\ Quota \in Nat /\ Quota >= 1 /\ Window \in Nat /\ Window >= 1
    /\ LastSecond \in Nat /\ "redis" \notin Processes /\ Nobody \notin Processes
BY RateLimitAssumption DEF RateLimitAssumption, Nobody

LEMMA WindowFacts ==
    ASSUME NEW t \in Nat
    PROVE  /\ WindowOf(t) \in Nat
           /\ WindowOf(t) * Window <= t /\ t < (WindowOf(t) + 1) * Window
<1>1. Window \in Nat /\ Window > 0
  BY Constants
<1> QED BY <1>1 DEF WindowOf

\* A time of an earlier window is before every time of a later one.
LEMMA WindowOrder ==
    ASSUME NEW w \in Nat, NEW x \in Nat, w < x
    PROVE  (w + 1) * Window <= x * Window
<1>1. Window \in Nat
  BY Constants
<1> QED BY <1>1

LEMMA WindowMonotone ==
    ASSUME NEW s \in Nat, NEW t \in Nat, s <= t
    PROVE  WindowOf(s) <= WindowOf(t)
<1>1. /\ WindowOf(s) \in Nat /\ WindowOf(t) \in Nat
      /\ WindowOf(s) * Window <= s /\ t < (WindowOf(t) + 1) * Window
  BY WindowFacts
<1>2. Window \in Nat
  BY Constants
<1> SUFFICES ASSUME WindowOf(t) < WindowOf(s) PROVE FALSE
  BY <1>1
<1>3. (WindowOf(t) + 1) * Window <= WindowOf(s) * Window
  BY <1>1, WindowOrder
<1>4. (WindowOf(t) + 1) * Window \in Nat /\ WindowOf(s) * Window \in Nat
  BY <1>1, <1>2
<1> QED BY <1>1, <1>3, <1>4

LEMMA WindowsKnown ==
    ASSUME NEW t \in 0 .. LastSecond
    PROVE  WindowOf(t) \in Windows
<1>1. /\ t \in Nat /\ LastSecond \in Nat /\ t <= LastSecond
  BY Constants
<1>2. WindowOf(t) \in Nat /\ WindowOf(LastSecond) \in Nat
  BY <1>1, WindowFacts
<1> QED BY <1>1, <1>2, WindowMonotone DEF Windows, WindowOf

LEMMA WindowsAreNat == Windows \subseteq Nat
<1>1. WindowOf(LastSecond) \in Nat
  BY Constants, WindowFacts
<1> QED BY <1>1 DEF Windows, WindowOf

--------------------------------------------------------------------------------
(* Counting *)

\* If no class has more than q members, all have no more than q for each class.
LEMMA Classes ==
    ASSUME NEW S \in SUBSET Nat, IsFiniteSet(S), NEW K, IsFiniteSet(K), NEW f \in [S -> K],
           NEW q \in Nat, \A k \in K : Cardinality({s \in S : f[s] = k}) <= q
    PROVE  Cardinality(S) <= q * Cardinality(K)
<1> DEFINE Class(k)  == {s \in S : f[s] = k}
           Till(s)   == {x \in Class(f[s]) : x <= s}
           place     == [s \in S |-> <<f[s], Cardinality(Till(s))>>]
<1>1. \A k \in K : IsFiniteSet(Class(k)) /\ Cardinality(Class(k)) \in Nat
  BY FS_Subset, FS_CardinalityType
<1>2. ASSUME NEW s \in S
      PROVE  /\ IsFiniteSet(Till(s)) /\ Cardinality(Till(s)) \in 1 .. q
             /\ Cardinality(Till(s)) \in Nat
  <2>1. f[s] \in K /\ Till(s) \in SUBSET Class(f[s]) /\ s \in Till(s)
    OBVIOUS
  <2>2. IsFiniteSet(Till(s)) /\ Cardinality(Till(s)) <= Cardinality(Class(f[s]))
    BY <2>1, <1>1, FS_Subset
  <2>3. Cardinality(Till(s)) \in Nat /\ Cardinality(Till(s)) # 0
    BY <2>1, <2>2, FS_CardinalityType, FS_EmptySet
  <2>4. Cardinality(Class(f[s])) <= q /\ Cardinality(Class(f[s])) \in Nat
    BY <1>1, <2>1
  <2> QED BY <2>2, <2>3, <2>4
<1>3. ASSUME NEW s \in S, NEW x \in S, f[s] = f[x], s < x
      PROVE  Cardinality(Till(s)) # Cardinality(Till(x))
  <2>0. \A y \in S : y \in Nat
    OBVIOUS
  <2>3. \A y \in S : y <= s => y <= x
    BY <2>0, <1>3
  <2>4. x \in Till(x)
    BY <2>0
  <2>5. x \notin Till(s)
    BY <2>0, <1>3
  <2>6. Till(s) \subseteq Till(x)
    BY <2>3, <1>3
  <2>1. Till(s) \in SUBSET Till(x) /\ x \in Till(x) /\ x \notin Till(s)
    BY <2>4, <2>5, <2>6
  <2>2. Till(s) # Till(x) /\ IsFiniteSet(Till(x))
    BY <2>1, <1>2
  <2> HIDE DEF UpTo
  <2> QED BY <2>1, <2>2, FS_Subset
<1>4. place \in Injection(S, K \X (1 .. q))
  <2>1. place \in [S -> K \X (1 .. q)]
    BY <1>2
  <2>2. ASSUME NEW s \in S, NEW x \in S, place[s] = place[x] PROVE s = x
    <3>1. f[s] = f[x] /\ Cardinality(Till(s)) = Cardinality(Till(x))
      BY <2>2
    <3>2. ~(s < x) /\ ~(x < s)
      BY <3>1, <1>3
    <3> QED BY <3>2
  <2> HIDE DEF place
  <2> QED BY <2>1, <2>2 DEF Injection, IsInjective
<1>5. IsFiniteSet(1 .. q) /\ Cardinality(1 .. q) = q
  BY FS_Interval
<1>6. /\ IsFiniteSet(K \X (1 .. q))
      /\ Cardinality(K \X (1 .. q)) = Cardinality(K) * q
  BY <1>5, FS_Product
<1>7. Cardinality(S) <= Cardinality(K) * q
  BY <1>4, <1>6, FS_Injection
<1>8. Cardinality(K) \in Nat
  BY FS_CardinalityType
<1> QED BY <1>7, <1>8

LEMMA AsksFinite ==
    /\ Asks \subseteq Nat /\ IsFiniteSet(Asks)
    /\ \A S \in SUBSET Asks : IsFiniteSet(S) /\ Cardinality(S) \in Nat
<1>1. AskCount \in Nat
  BY Constants
<1>2. IsFiniteSet(Asks) /\ Asks \subseteq Nat
  BY <1>1, FS_Interval DEF Asks
<1> QED BY <1>2, FS_Subset, FS_CardinalityType

\* One more is one more at most.
LEMMA OneMoreAsk ==
    ASSUME NEW S \in SUBSET Asks, NEW T \in SUBSET Asks, NEW r, T \subseteq S \cup {r}
    PROVE  Cardinality(T) <= Cardinality(S) + 1
<1>1. /\ IsFiniteSet(S) /\ Cardinality(S) \in Nat /\ Cardinality(T) \in Nat
  BY AsksFinite
<1>2. /\ IsFiniteSet(S \cup {r})
      /\ Cardinality(S \cup {r}) = IF r \in S THEN Cardinality(S) ELSE Cardinality(S) + 1
  BY <1>1, FS_AddElement
<1>3. Cardinality(T) <= Cardinality(S \cup {r})
  BY <1>2, FS_Subset
<1> QED BY <1>1, <1>2, <1>3

LEMMA FewerAsks ==
    ASSUME NEW S \in SUBSET Asks, NEW T \in SUBSET S
    PROVE  Cardinality(T) <= Cardinality(S)
BY AsksFinite, FS_Subset

\* What popleft drops is older than a window, and what is younger stays.
LEMMA RecentFacts ==
    ASSUME LimitTyped, NEW p \in Processes
    PROVE  \E k \in 0 .. Len(hits[p]) :
              /\ Recent(p) \in Seq(Nat) /\ Len(Recent(p)) = Len(hits[p]) - k
              /\ \A j \in 1 .. Len(hits[p]) - k : Recent(p)[j] = hits[p][j + k]
              /\ \A i \in 1 .. k : hits[p][i] <= second - Window
              /\ k < Len(hits[p]) => hits[p][k + 1] > second - Window
<1> DEFINE h     == hits[p]
           young == {i \in DOMAIN h : h[i] > second - Window}
<1>1. h \in Seq(Nat) /\ Len(h) \in Nat /\ DOMAIN h = 1 .. Len(h)
  BY LenProperties DEF LimitTyped
<1>2. \A i \in 1 .. Len(h) : h[i] \in Nat
  BY <1>1, ElementOfSeq
<1>3. second \in Nat /\ Window \in Nat
  BY Constants DEF LimitTyped
<1>4. Recent(p) = IF young = {} THEN <<>> ELSE SubSeq(h, Min(young), Len(h))
  BY DEF Recent
<1>5. CASE young = {}
  <2>1. \A i \in 1 .. Len(h) : h[i] <= second - Window
    BY <1>1, <1>2, <1>3, <1>5
  <2>2. Recent(p) \in Seq(Nat) /\ Len(Recent(p)) = 0
    BY <1>4, <1>5, EmptySeq
  <2> HIDE DEF h
  <2>3. Len(h) \in 0 .. Len(h) /\ Len(h) - Len(h) = 0 /\ ~(Len(h) < Len(h))
    BY <1>1
  <2>4. \A j \in 1 .. Len(h) - Len(h) : FALSE
    BY <1>1
  <2> QED BY <2>1, <2>2, <2>3, <2>4 DEF h
<1>6. CASE young # {}
  <2>1. PICK m : m = Min(young)
    OBVIOUS
  <2>2. young \subseteq Nat
    BY <1>1
  <2>3. m \in young /\ \A y \in young : m <= y
    BY <1>6, <2>1, <2>2, LeastOfSome
  <2>4. m \in 1 .. Len(h) /\ h[m] > second - Window
    BY <1>1, <2>3
  <2>5. Recent(p) = SubSeq(h, m, Len(h))
    BY <1>4, <1>6, <2>1
  <2>6. \A i \in 1 .. m - 1 : h[i] <= second - Window
    <3>1. ASSUME NEW i \in 1 .. m - 1 PROVE h[i] <= second - Window
      <4>1. i \in 1 .. Len(h) /\ i < m /\ i \in Nat
        BY <2>4, <1>1
      <4>2. i \notin young
        BY <2>3, <2>4, <4>1
      <4>3. h[i] \in Nat /\ ~(h[i] > second - Window)
        BY <4>1, <4>2, <1>1, <1>2
      <4> QED BY <4>3, <1>3
    <3> QED BY <3>1
  <2> HIDE DEF young, h
  <2>7. /\ Recent(p) \in Seq(Nat) /\ Len(Recent(p)) = Len(h) - m + 1
        /\ \A j \in 1 .. Len(h) - m + 1 : Recent(p)[j] = h[m + j - 1]
    <3> DEFINE n == Len(h)
    <3>1. m \in Int /\ n \in Int /\ m <= n /\ \A i \in m .. n : h[i] \in Nat
      BY <1>1, <1>2, <2>4
    <3>2. Recent(p) = SubSeq(h, m, n)
      BY <2>5
    <3> HIDE DEF n
    <3>3. Recent(p) \in Seq(Nat)
      BY <3>1, <3>2, SubSeqProperties
    <3>4. Len(Recent(p)) = n - m + 1
      BY <3>1, <3>2, SubSeqProperties
    <3>5. \A j \in 1 .. n - m + 1 : Recent(p)[j] = h[m + j - 1]
      BY <3>1, <3>2, SubSeqProperties
    <3> QED BY <3>3, <3>4, <3>5 DEF n
  <2>8. m - 1 \in 0 .. Len(h) /\ Len(h) - (m - 1) = Len(h) - m + 1 /\ (m - 1) + 1 = m
    BY <1>1, <2>4
  <2>9. \A j \in 1 .. Len(h) - m + 1 : m + j - 1 = j + (m - 1)
    BY <1>1, <2>4
  <2> QED BY <2>4, <2>6, <2>7, <2>8, <2>9 DEF h
<1> QED BY <1>5, <1>6

--------------------------------------------------------------------------------
(* Requests *)

LEMMA AskChanges ==
    ASSUME LimitTyped, NEW r \in Asks, NEW v \in AskStates, ask' = [ask EXCEPT ![r] = v]
    PROVE  /\ ask' \in [Asks -> AskStates] /\ ask'[r] = v
           /\ \A s \in Asks \ {r} : ask'[s] = ask[s]
BY DEF LimitTyped

LEMMA AskTypes ==
    ASSUME LimitTyped, NEW r \in Asks
    PROVE  /\ ask[r] \in AskStates
           /\ ask[r].began \in Nat /\ ask[r].decided \in Nat /\ second \in Nat
           /\ ask[r].began \in 0 .. LastSecond /\ second \in 0 .. LastSecond
           /\ ask[r].allowed \in BOOLEAN
           /\ WindowOf(ask[r].began) \in Windows /\ WindowOf(ask[r].began) \in Nat
           /\ WindowOf(ask[r].decided) \in Nat /\ WindowOf(second) \in Nat
<1>1. ask[r] \in AskStates
  BY DEF LimitTyped
<1>2. ask[r].began \in 0 .. LastSecond /\ ask[r].decided \in 0 .. LastSecond
      /\ ask[r].allowed \in BOOLEAN
  BY <1>1 DEF AskStates
<1>3. second \in 0 .. LastSecond /\ LastSecond \in Nat
  BY Constants DEF LimitTyped
<1> QED BY <1>1, <1>2, <1>3, WindowsKnown, WindowFacts

LEMMA BeginFacts ==
    ASSUME LimitTyped, NEW r \in Asks, NEW p \in Processes, Begin(r, p)
    PROVE  /\ ask[r].at = "new"
           /\ ask' \in [Asks -> AskStates] /\ \A s \in Asks \ {r} : ask'[s] = ask[s]
           /\ ask'[r].at \in {"incr", "log"} /\ ask'[r].process = p /\ ask'[r].began = second
           /\ ask'[r].allowed = FALSE
<1> DEFINE v == [Unasked EXCEPT !.at = IF shared THEN "incr" ELSE "log",
                                !.began = second, !.process = p]
<1>1. second \in 0 .. LastSecond /\ 0 \in 0 .. LastSecond
  BY Constants DEF LimitTyped
<1>2. /\ v \in AskStates /\ v.at \in {"incr", "log"} /\ v.process = p /\ v.began = second
      /\ v.allowed = FALSE
  BY <1>1 DEF Unasked, AskStates
<1>3. ask[r].at = "new" /\ ask' = [ask EXCEPT ![r] = v]
  BY DEF Begin
<1> HIDE DEF v
<1> QED BY <1>2, <1>3, AskChanges

LEMMA AnswerFacts ==
    ASSUME LimitTyped, NEW r \in Asks, NEW who \in Processes \cup {"redis"}, NEW ok \in BOOLEAN,
           NEW until, ~ok => until \in Nat, Answer(r, who, ok, until)
    PROVE  /\ ask' \in [Asks -> AskStates] /\ \A s \in Asks \ {r} : ask'[s] = ask[s]
           /\ ask'[r].at = "done" /\ ask'[r].by = who /\ ask'[r].allowed = ok
           /\ ask'[r].decided = second
           /\ ask'[r].began = ask[r].began /\ ask'[r].process = ask[r].process
           /\ told' \in [by : Processes \cup {Nobody, "redis"}, until : Nat]
           /\ told' = NoRefusal \/ (~ok /\ told'.by = who /\ told'.until = until /\ until > second)
<1> DEFINE v == [ask[r] EXCEPT !.at = "done", !.by = who, !.allowed = ok, !.decided = second]
<1>1. second \in 0 .. LastSecond /\ second \in Nat /\ ask[r] \in AskStates
  BY Constants DEF LimitTyped
<1>2. /\ v \in AskStates /\ v.at = "done" /\ v.by = who /\ v.allowed = ok /\ v.decided = second
      /\ v.began = ask[r].began /\ v.process = ask[r].process
  BY <1>1 DEF AskStates
<1>3. ask' = [ask EXCEPT ![r] = v]
  BY DEF Answer
<1>4. NoRefusal \in [by : Processes \cup {Nobody, "redis"}, until : Nat]
  BY DEF NoRefusal
<1>5. /\ told' \in [by : Processes \cup {Nobody, "redis"}, until : Nat]
      /\ told' = NoRefusal \/ (~ok /\ told'.by = who /\ told'.until = until /\ until > second)
  <2>1. CASE ok \/ until <= second
    BY <2>1, <1>4 DEF Answer
  <2>2. CASE ~(ok \/ until <= second)
    <3>1. told' = [by |-> who, until |-> until] /\ until \in Nat /\ ~ok
      BY <2>2 DEF Answer
    <3> QED BY <3>1, <2>2, <1>1
  <2> QED BY <2>1, <2>2
<1> HIDE DEF v
<1> QED BY <1>2, <1>3, <1>5, AskChanges

\* A shared answer is of the key of the window in which the request began.
LEMMA SharedFacts ==
    ASSUME LimitTyped, NEW r \in Asks, NEW count \in Nat, AnswerShared(r, count)
    PROVE  /\ ask' \in [Asks -> AskStates] /\ \A s \in Asks \ {r} : ask'[s] = ask[s]
           /\ ask'[r].at = "done" /\ ask'[r].by = "redis" /\ ask'[r].allowed = (count <= Quota)
           /\ ask'[r].decided = second
           /\ ask'[r].began = ask[r].began /\ ask'[r].process = ask[r].process
           /\ told' \in [by : Processes \cup {Nobody, "redis"}, until : Nat]
           /\ \/ told' = NoRefusal
              \/ /\ told'.by = "redis" /\ told'.until > second
                 /\ told'.until = (WindowOf(ask[r].began) + 1) * Window
<1>1. (WindowOf(ask[r].began) + 1) * Window \in Nat
  BY AskTypes, Constants
<1>2. PICK ok : ok = (count <= Quota)
  OBVIOUS
<1>3. PICK until : until = (WindowOf(ask[r].began) + 1) * Window
  OBVIOUS
<1>4. /\ ok \in BOOLEAN /\ until \in Nat /\ Answer(r, "redis", ok, until)
      /\ "redis" \in Processes \cup {"redis"}
  <2>1. Answer(r, "redis", ok, until)
    BY <1>2, <1>3 DEF AnswerShared
  <2>2. ok \in BOOLEAN
    BY <1>2
  <2>3. until \in Nat
    BY <1>1, <1>3
  <2> QED BY <2>1, <2>2, <2>3
<1>5. /\ ask' \in [Asks -> AskStates] /\ \A s \in Asks \ {r} : ask'[s] = ask[s]
      /\ ask'[r].at = "done" /\ ask'[r].by = "redis" /\ ask'[r].allowed = ok
      /\ ask'[r].decided = second
      /\ ask'[r].began = ask[r].began /\ ask'[r].process = ask[r].process
      /\ told' \in [by : Processes \cup {Nobody, "redis"}, until : Nat]
      /\ told' = NoRefusal \/ (~ok /\ told'.by = "redis" /\ told'.until = until /\ until > second)
  BY <1>4, AnswerFacts
<1> QED BY <1>2, <1>3, <1>5, Zenon

\* What CheckLog does to the log of its process
LEMMA CheckLogFacts ==
    ASSUME LimitTyped, NEW r \in Asks, GoesOn(r), CheckLog(r), NEW p, p = ask[r].process
    PROVE  /\ p \in Processes /\ Recent(p) \in Seq(Nat) /\ second \in Nat
           /\ ask[r].at = "log" /\ UNCHANGED <<second, shared, counter, expiry>>
           /\ hits' \in [Processes -> Seq(Nat)]
           /\ \A q \in Processes \ {p} : hits'[q] = hits[q]
           /\ hits'[p] = IF Len(Recent(p)) >= Quota THEN Recent(p) ELSE Append(Recent(p), second)
           /\ ask' \in [Asks -> AskStates] /\ \A s \in Asks \ {r} : ask'[s] = ask[s]
           /\ ask'[r].at = "done" /\ ask'[r].by = p /\ ask'[r].allowed = (Len(Recent(p)) < Quota)
           /\ ask'[r].decided = second
           /\ ask'[r].began = ask[r].began /\ ask'[r].process = ask[r].process
           /\ told' \in [by : Processes \cup {Nobody, "redis"}, until : Nat]
           /\ \/ told' = NoRefusal
              \/ /\ told'.by = p /\ told'.until > second /\ Len(Recent(p)) >= Quota
                 /\ told'.until = Recent(p)[1] + Window + 1
<1>1. /\ ask[r].at = "log"
      /\ hits' = [hits EXCEPT ![p] = IF Len(Recent(p)) >= Quota THEN Recent(p)
                                     ELSE Append(Recent(p), second)]
      /\ Answer(r, p, Len(Recent(p)) < Quota, Head(Recent(p)) + Window + 1)
      /\ UNCHANGED <<second, shared, counter, expiry>>
  BY DEF CheckLog
<1>2. p \in Processes
  BY <1>1 DEF GoesOn
<1>3. Recent(p) \in Seq(Nat) /\ Len(Recent(p)) \in Nat
  BY <1>2, RecentFacts, LenProperties
<1>4. Quota \in Nat /\ Quota >= 1 /\ Window \in Nat /\ second \in Nat
  BY Constants DEF LimitTyped
<1>5. hits'[p] = (IF Len(Recent(p)) >= Quota THEN Recent(p) ELSE Append(Recent(p), second))
      /\ \A q \in Processes \ {p} : hits'[q] = hits[q]
  BY <1>1, <1>2 DEF LimitTyped
<1>6. Append(Recent(p), second) \in Seq(Nat)
  BY <1>3, <1>4, AppendProperties
<1>7. hits' \in [Processes -> Seq(Nat)]
  BY <1>1, <1>2, <1>3, <1>6 DEF LimitTyped
<1>8. ~(Len(Recent(p)) < Quota) =>
         /\ Head(Recent(p)) = Recent(p)[1] /\ Head(Recent(p)) + Window + 1 \in Nat
  <2> SUFFICES ASSUME ~(Len(Recent(p)) < Quota)
               PROVE  Head(Recent(p)) = Recent(p)[1] /\ Head(Recent(p)) + Window + 1 \in Nat
    OBVIOUS
  <2>1. 1 \in 1 .. Len(Recent(p))
    BY <1>3, <1>4
  <2>2. Recent(p)[1] \in Nat /\ Recent(p) # <<>>
    BY <2>1, <1>3, ElementOfSeq, EmptySeq
  <2>3. Head(Recent(p)) = Recent(p)[1]
    BY <2>2, <1>3, HeadTailProperties
  <2> QED BY <2>2, <2>3, <1>4
<1>9. PICK ok : ok = (Len(Recent(p)) < Quota)
  OBVIOUS
<1>10. ok \in BOOLEAN
  BY <1>9
<1>11. PICK until : until = Head(Recent(p)) + Window + 1
  OBVIOUS
<1>12. Answer(r, p, ok, until) /\ (~ok => until \in Nat)
  BY <1>1, <1>8, <1>9, <1>11
<1>13. /\ ask' \in [Asks -> AskStates] /\ \A s \in Asks \ {r} : ask'[s] = ask[s]
       /\ ask'[r].at = "done" /\ ask'[r].by = p /\ ask'[r].allowed = ok
       /\ ask'[r].decided = second
       /\ ask'[r].began = ask[r].began /\ ask'[r].process = ask[r].process
       /\ told' \in [by : Processes \cup {Nobody, "redis"}, until : Nat]
       /\ told' = NoRefusal \/ (~ok /\ told'.by = p /\ told'.until = until /\ until > second)
  BY <1>2, <1>10, <1>12, AnswerFacts
<1>14. ASSUME ~ok PROVE Len(Recent(p)) >= Quota
  <2>1. ~(Len(Recent(p)) < Quota)
    BY <1>9, <1>14, Zenon
  <2> QED BY <2>1, <1>3, <1>4
<1>15. \/ told' = NoRefusal
       \/ /\ told'.by = p /\ told'.until > second /\ Len(Recent(p)) >= Quota
          /\ told'.until = Recent(p)[1] + Window + 1
  BY <1>8, <1>9, <1>11, <1>13, <1>14
<1>16. ask'[r].allowed = (Len(Recent(p)) < Quota)
  BY <1>9, <1>13
<1> QED BY <1>1, <1>2, <1>3, <1>4, <1>5, <1>7, <1>13, <1>15, <1>16

LEMMA Counter ==
    ASSUME LimitTyped, NEW w \in Windows, NEW n \in Nat, counter' = [counter EXCEPT ![w] = n]
    PROVE  /\ counter' \in [Windows -> Nat] /\ counter'[w] = n
           /\ \A x \in Windows \ {w} : counter'[x] = counter[x]
BY DEF LimitTyped

LEMMA IncrFacts ==
    ASSUME LimitTyped, NEW r \in Asks, Incr(r), NEW w, w = WindowOf(ask[r].began)
    PROVE  /\ w \in Windows /\ counter[w] \in Nat /\ ask[r].at = "incr"
           /\ UNCHANGED <<second, shared, expiry, hits>>
           /\ counter' \in [Windows -> Nat] /\ counter'[w] = counter[w] + 1
           /\ \A x \in Windows \ {w} : counter'[x] = counter[x]
           /\ ask' \in [Asks -> AskStates] /\ \A s \in Asks \ {r} : ask'[s] = ask[s]
           /\ ask'[r].began = ask[r].began /\ ask'[r].process = ask[r].process
           /\ told' \in [by : Processes \cup {Nobody, "redis"}, until : Nat]
           /\ \/ /\ counter[w] = 0 /\ ask'[r].at = "expire" /\ ask'[r].allowed = ask[r].allowed
                 /\ told' = told
              \/ /\ counter[w] # 0 /\ ask'[r].at = "done" /\ ask'[r].by = "redis"
                 /\ ask'[r].allowed = (counter[w] + 1 <= Quota) /\ ask'[r].decided = second
                 /\ \/ told' = NoRefusal
                    \/ told'.by = "redis" /\ told'.until > second /\ told'.until = (w + 1) * Window
<1>1. w \in Windows /\ counter[w] \in Nat
  BY AskTypes DEF LimitTyped
<1>2. /\ ask[r].at = "incr" /\ UNCHANGED <<second, shared, expiry, hits>>
      /\ counter' = [counter EXCEPT ![w] = counter[w] + 1]
      /\ IF counter[w] = 0
         THEN ask' = [ask EXCEPT ![r] = [ask[r] EXCEPT !.at = "expire"]] /\ told' = told
         ELSE AnswerShared(r, counter[w] + 1)
  BY DEF Incr
<1>3. counter[w] + 1 \in Nat
  BY <1>1
<1>4. /\ counter' \in [Windows -> Nat] /\ counter'[w] = counter[w] + 1
      /\ \A x \in Windows \ {w} : counter'[x] = counter[x]
  BY <1>1, <1>2, <1>3, Counter
<1>5. CASE counter[w] = 0
  <2> DEFINE v == [ask[r] EXCEPT !.at = "expire"]
  <2>1. ask[r] \in AskStates
    BY AskTypes
  <2>2. /\ v \in AskStates /\ v.at = "expire" /\ v.allowed = ask[r].allowed
        /\ v.began = ask[r].began /\ v.process = ask[r].process
    BY <2>1 DEF AskStates
  <2>3. ask' = [ask EXCEPT ![r] = v] /\ told' = told
    BY <1>2, <1>5
  <2>4. told \in [by : Processes \cup {Nobody, "redis"}, until : Nat]
    BY DEF LimitTyped
  <2> HIDE DEF v
  <2>5. ask' \in [Asks -> AskStates] /\ ask'[r] = v /\ \A s \in Asks \ {r} : ask'[s] = ask[s]
    BY <2>2, <2>3, AskChanges
  <2> QED BY <1>1, <1>2, <1>4, <1>5, <2>2, <2>3, <2>4, <2>5
<1>6. CASE counter[w] # 0
  <2>1. AnswerShared(r, counter[w] + 1)
    BY <1>2, <1>6
  <2>2. PICK n \in Nat : n = counter[w] + 1
    BY <1>3
  <2>3. AnswerShared(r, n)
    BY <2>1, <2>2
  <2> QED BY <1>1, <1>2, <1>4, <1>6, <2>2, <2>3, SharedFacts
<1> QED BY <1>5, <1>6

LEMMA ExpireFacts ==
    ASSUME LimitTyped, NEW r \in Asks, Expire(r), NEW w, w = WindowOf(ask[r].began)
    PROVE  /\ w \in Windows /\ ask[r].at = "expire"
           /\ UNCHANGED <<second, shared, counter, hits>>
           /\ expiry' \in [Windows -> Nat] /\ expiry'[w] \in {0, second + Window}
           /\ \A x \in Windows \ {w} : expiry'[x] = expiry[x]
           /\ ask' \in [Asks -> AskStates] /\ \A s \in Asks \ {r} : ask'[s] = ask[s]
           /\ ask'[r].began = ask[r].began /\ ask'[r].process = ask[r].process
           /\ ask'[r].at = "done" /\ ask'[r].by = "redis" /\ ask'[r].decided = second
           /\ told' \in [by : Processes \cup {Nobody, "redis"}, until : Nat]
           /\ \/ told' = NoRefusal
              \/ told'.by = "redis" /\ told'.until > second /\ told'.until = (w + 1) * Window
<1>1. w \in Windows /\ second \in Nat /\ Window \in Nat
  BY AskTypes, Constants
<1>2. /\ ask[r].at = "expire" /\ UNCHANGED <<second, shared, counter, hits>>
      /\ expiry' = [expiry EXCEPT ![w] = IF counter[w] > 0 THEN second + Window ELSE 0]
      /\ AnswerShared(r, 1)
  BY DEF Expire
<1>3. second + Window \in Nat
  BY <1>1
<1>4. /\ expiry' \in [Windows -> Nat] /\ expiry'[w] \in {0, second + Window}
      /\ \A x \in Windows \ {w} : expiry'[x] = expiry[x]
  BY <1>1, <1>2, <1>3 DEF LimitTyped
<1> QED BY <1>1, <1>2, <1>4, SharedFacts

LEMMA FailFacts ==
    ASSUME LimitTyped, NEW r \in Asks, Fail(r), NEW w, w = WindowOf(ask[r].began)
    PROVE  /\ w \in Windows /\ counter[w] \in Nat /\ ask[r].at \in {"incr", "expire"}
           /\ UNCHANGED <<second, shared, expiry, hits, told>>
           /\ counter' \in [Windows -> Nat] /\ counter'[w] \in {counter[w], counter[w] + 1}
           /\ \A x \in Windows \ {w} : counter'[x] = counter[x]
           /\ ask' \in [Asks -> AskStates] /\ \A s \in Asks \ {r} : ask'[s] = ask[s]
           /\ ask'[r].began = ask[r].began /\ ask'[r].process = ask[r].process
           /\ ask'[r].at = "log" /\ ask'[r].allowed = ask[r].allowed
<1>1. w \in Windows /\ counter[w] \in Nat
  BY AskTypes DEF LimitTyped
<1>2. /\ ask[r].at \in {"incr", "expire"} /\ UNCHANGED <<second, shared, expiry, hits, told>>
      /\ counter' = counter \/ counter' = [counter EXCEPT ![w] = counter[w] + 1]
      /\ ask' = [ask EXCEPT ![r] = [ask[r] EXCEPT !.at = "log"]]
  BY DEF Fail
<1>3. /\ counter' \in [Windows -> Nat] /\ counter'[w] \in {counter[w], counter[w] + 1}
      /\ \A x \in Windows \ {w} : counter'[x] = counter[x]
  <2>1. CASE counter' = counter
    BY <2>1, <1>1 DEF LimitTyped
  <2>2. CASE counter' = [counter EXCEPT ![w] = counter[w] + 1]
    <3>1. counter[w] + 1 \in Nat
      BY <1>1
    <3> QED BY <2>2, <3>1, <1>1, Counter
  <2> QED BY <1>2, <2>1, <2>2
<1> DEFINE v == [ask[r] EXCEPT !.at = "log"]
<1>4. ask[r] \in AskStates
  BY AskTypes
<1>5. /\ v \in AskStates /\ v.at = "log" /\ v.allowed = ask[r].allowed
      /\ v.began = ask[r].began /\ v.process = ask[r].process
  BY <1>4 DEF AskStates
<1>6. ask' = [ask EXCEPT ![r] = v]
  BY <1>2
<1> HIDE DEF v
<1>7. ask' \in [Asks -> AskStates] /\ ask'[r] = v /\ \A s \in Asks \ {r} : ask'[s] = ask[s]
  BY <1>5, <1>6, AskChanges
<1> QED BY <1>1, <1>2, <1>3, <1>5, <1>7

LEMMA SecondFacts ==
    ASSUME LimitTyped, NextSecond
    PROVE  /\ second' = second + 1 /\ second' \in 0 .. LastSecond
           /\ counter' \in [Windows -> Nat] /\ expiry' \in [Windows -> Nat]
           /\ UNCHANGED <<shared, hits, ask, told>>
           /\ \A w \in Windows :
                 /\ counter'[w] \in {counter[w], 0} /\ expiry'[w] \in {expiry[w], 0}
                 /\ expiry[w] = 0 \/ expiry[w] > second + 1 => counter'[w] = counter[w]
<1>1. second \in 0 .. LastSecond /\ LastSecond \in Nat
  BY Constants DEF LimitTyped
<1>2. \A w \in Windows : counter[w] \in Nat /\ expiry[w] \in Nat
  BY DEF LimitTyped
<1> DEFINE gone(w) == expiry[w] # 0 /\ expiry[w] <= second + 1
<1>3. /\ second < LastSecond /\ second' = second + 1
      /\ counter' = [w \in Windows |-> IF gone(w) THEN 0 ELSE counter[w]]
      /\ expiry'  = [w \in Windows |-> IF gone(w) THEN 0 ELSE expiry[w]]
      /\ UNCHANGED <<shared, hits, ask, told>>
  BY DEF NextSecond
<1>4. second' \in 0 .. LastSecond
  BY <1>1, <1>3
<1>5. ASSUME NEW w \in Windows, expiry[w] = 0 \/ expiry[w] > second + 1
      PROVE  counter'[w] = counter[w]
  <2>1. ~gone(w)
    BY <1>1, <1>2, <1>5
  <2> QED BY <2>1, <1>3
<1> QED BY <1>2, <1>3, <1>4, <1>5

--------------------------------------------------------------------------------
LEMMA LimitInit == RateLimitInit => LimitInv
<1> SUFFICES ASSUME RateLimitInit PROVE LimitInv
  OBVIOUS
<1>1. 0 \in 0 .. LastSecond /\ 0 \in Nat /\ Quota \in Nat
  BY Constants
<1>2. Unasked \in AskStates
  BY <1>1 DEF Unasked, AskStates
<1>3. LimitTyped
  <2>1. counter \in [Windows -> Nat] /\ expiry \in [Windows -> Nat]
    BY DEF RateLimitInit
  <2>2. hits \in [Processes -> Seq(Nat)]
    BY EmptySeq DEF RateLimitInit
  <2>3. ask \in [Asks -> AskStates]
    BY <1>2 DEF RateLimitInit
  <2>4. told \in [by : Processes \cup {Nobody, "redis"}, until : Nat]
    BY DEF RateLimitInit, NoRefusal
  <2>5. second \in 0 .. LastSecond /\ shared \in BOOLEAN
    BY <1>1 DEF RateLimitInit
  <2> QED BY <2>1, <2>2, <2>3, <2>4, <2>5 DEF LimitTyped
<1>4. \A r \in Asks : ask[r] = Unasked
  BY DEF RateLimitInit
<1>5. \A r \in Asks : GoesOn(r)
  BY <1>1, <1>4, Constants DEF GoesOn, Unasked, RateLimitInit
<1>6. \A r \in Asks : ~ask[r].allowed /\ ask[r].at = "new"
  BY <1>4 DEF Unasked
<1>7. ASSUME NEW w \in Windows PROVE KeyCounts(w)
  <2>1. Counted(w) = {} /\ Expiring(w) = {} /\ Counted(w) \cup Expiring(w) = {}
    BY <1>6 DEF Counted, Expiring
  <2>2. counter[w] = 0 /\ expiry[w] = 0
    BY DEF RateLimitInit
  <2>3. Cardinality(Counted(w)) = 0 /\ Cardinality(Counted(w) \cup Expiring(w)) = 0
    BY <2>1, FS_EmptySet
  <2> QED BY <2>2, <2>3, <1>1 DEF KeyCounts
<1>8. ASSUME NEW p \in Processes PROVE LogCounts(p)
  <2>1. \A u \in Int : AloneAfter(p, u) = {}
    BY <1>6 DEF AloneAfter
  <2>2. \A t \in Nat : {r \in Admitted(t) : ask[r].by = p} = {}
    BY <1>6 DEF Admitted
  <2>3. hits[p] = <<>>
    BY DEF RateLimitInit
  <2>4. Len(hits[p]) = 0 /\ \A u \in Int : HitsAfter(p, u) = {}
    BY <2>3 DEF HitsAfter
  <2>5. Cardinality({}) = 0
    BY FS_EmptySet
  <2>6. \A u \in Int : Cardinality(AloneAfter(p, u)) = 0 /\ Cardinality(HitsAfter(p, u)) = 0
    BY <2>1, <2>4, <2>5
  <2>7. \A t \in Nat : Cardinality({r \in Admitted(t) : ask[r].by = p}) = 0
    BY <2>2, <2>5
  <2> QED BY <2>4, <2>6, <2>7, <1>1 DEF LogCounts
<1>9. RefusalStands
  BY DEF RateLimitInit, RefusalStands
<1> QED BY <1>3, <1>5, <1>7, <1>8, <1>9 DEF LimitInv

LEMMA NextLimitTyped ==
    ASSUME LimitTyped, \A r \in Asks : GoesOn(r), [RateLimitNext]_limitVars
    PROVE  LimitTyped' /\ \A r \in Asks : GoesOn(r)'
<1> USE DEF LimitTyped
<1>1. CASE UNCHANGED limitVars
  BY <1>1 DEF limitVars, GoesOn
<1>2. CASE NextSecond
  <2>1. LimitTyped'
    BY <1>2, SecondFacts
  <2>2. ASSUME NEW r \in Asks PROVE GoesOn(r)'
    <3>1. ask'[r] = ask[r] /\ second' = second + 1
      BY <1>2, SecondFacts
    <3> QED BY <3>1, AskTypes DEF GoesOn
  <2> QED BY <2>1, <2>2
<1>3. ASSUME NEW r \in Asks, NEW p \in Processes, Begin(r, p)
      PROVE  LimitTyped' /\ \A s \in Asks : GoesOn(s)'
  <2>1. UNCHANGED <<second, shared, counter, expiry, hits>> /\ told' = NoRefusal
    BY <1>3 DEF Begin
  <2>2. LimitTyped'
    BY <1>3, <2>1, BeginFacts DEF NoRefusal
  <2>3. GoesOn(r)'
    <3>1. /\ ask'[r].at \in {"incr", "log"} /\ ask'[r].process = p /\ ask'[r].began = second
          /\ ask'[r].allowed = FALSE
      BY <1>3, BeginFacts
    <3>2. ask'[r].began <= second'
      BY <2>1, <3>1, AskTypes
    <3> QED BY <3>1, <3>2 DEF GoesOn
  <2>4. ASSUME NEW s \in Asks \ {r} PROVE GoesOn(s)'
    <3>1. ask'[s] = ask[s] /\ second' = second
      BY <1>3, <2>1, <2>4, BeginFacts
    <3>2. GoesOn(s)
      OBVIOUS
    <3> QED BY <3>1, <3>2 DEF GoesOn
  <2> QED BY <2>2, <2>3, <2>4
<1>4. ASSUME NEW r \in Asks, Incr(r)
      PROVE  LimitTyped' /\ \A s \in Asks : GoesOn(s)'
  <2>1. LimitTyped'
    BY <1>4, IncrFacts
  <2>2. GoesOn(r)'
    BY <1>4, IncrFacts DEF GoesOn, Nobody
  <2>3. ASSUME NEW s \in Asks \ {r} PROVE GoesOn(s)'
    BY <1>4, <2>3, IncrFacts DEF GoesOn
  <2> QED BY <2>1, <2>2, <2>3
<1>5. ASSUME NEW r \in Asks, Expire(r)
      PROVE  LimitTyped' /\ \A s \in Asks : GoesOn(s)'
  <2>1. LimitTyped'
    BY <1>5, ExpireFacts
  <2>2. GoesOn(r)'
    BY <1>5, ExpireFacts DEF GoesOn, Nobody
  <2>3. ASSUME NEW s \in Asks \ {r} PROVE GoesOn(s)'
    BY <1>5, <2>3, ExpireFacts DEF GoesOn
  <2> QED BY <2>1, <2>2, <2>3
<1>6. ASSUME NEW r \in Asks, Fail(r)
      PROVE  LimitTyped' /\ \A s \in Asks : GoesOn(s)'
  <2>1. LimitTyped'
    BY <1>6, FailFacts
  <2>2. GoesOn(r)'
    BY <1>6, FailFacts DEF GoesOn
  <2>3. ASSUME NEW s \in Asks \ {r} PROVE GoesOn(s)'
    BY <1>6, <2>3, FailFacts DEF GoesOn
  <2> QED BY <2>1, <2>2, <2>3
<1>7. ASSUME NEW r \in Asks, CheckLog(r)
      PROVE  LimitTyped' /\ \A s \in Asks : GoesOn(s)'
  <2>1. PICK p : p = ask[r].process
    OBVIOUS
  <2>2. LimitTyped'
    BY <1>7, <2>1, CheckLogFacts
  <2>3. GoesOn(r)'
    <3>1. /\ p \in Processes /\ ask'[r].at = "done" /\ ask'[r].by = p /\ second' = second
          /\ ask'[r].process = p /\ ask'[r].began = ask[r].began
      BY <1>7, <2>1, CheckLogFacts
    <3> QED BY <3>1, Constants DEF GoesOn
  <2>4. ASSUME NEW s \in Asks \ {r} PROVE GoesOn(s)'
    BY <1>7, <2>1, <2>4, CheckLogFacts DEF GoesOn
  <2> QED BY <2>2, <2>3, <2>4
<1> QED BY <1>1, <1>2, <1>3, <1>4, <1>5, <1>6, <1>7 DEF RateLimitNext

--------------------------------------------------------------------------------
(* Keys *)

LEMMA CountedAsks == \A w : Counted(w) \subseteq Asks /\ Expiring(w) \subseteq Asks
BY DEF Counted, Expiring

LEMMA KeyTypes ==
    ASSUME LimitTyped, NEW w \in Windows
    PROVE  /\ counter[w] \in Nat /\ expiry[w] \in Nat
           /\ Cardinality(Counted(w)) \in Nat /\ Cardinality(Counted(w) \cup Expiring(w)) \in Nat
           /\ Counted(w) \in SUBSET Asks /\ (Counted(w) \cup Expiring(w)) \in SUBSET Asks
<1>1. Counted(w) \in SUBSET Asks /\ (Counted(w) \cup Expiring(w)) \in SUBSET Asks
  BY CountedAsks
<1> QED BY <1>1, AsksFinite DEF LimitTyped

\* A step at another key, or that counts nobody in, keeps what the key says.
LEMMA KeyKept ==
    ASSUME LimitTyped, LimitTyped', NEW w \in Windows, KeyCounts(w), UNCHANGED second,
           counter'[w] >= counter[w], expiry'[w] = expiry[w] \/ expiry'[w] >= (w + 1) * Window
                                      \/ expiry'[w] = 0,
           Counted(w)' \subseteq Counted(w), Expiring(w)' \subseteq Expiring(w) \cup Counted(w),
           counter'[w] > 0 => \E r \in Asks : ask'[r].at # "new" /\ WindowOf(ask'[r].began) = w
    PROVE  KeyCounts(w)'
<1>1. /\ counter[w] \in Nat /\ counter'[w] \in Nat
      /\ Cardinality(Counted(w)) \in Nat /\ Cardinality(Counted(w) \cup Expiring(w)) \in Nat
      /\ Counted(w) \in SUBSET Asks /\ (Counted(w) \cup Expiring(w)) \in SUBSET Asks
  BY KeyTypes DEF LimitTyped
<1>2. (Counted(w) \cup Expiring(w))' \subseteq Counted(w) \cup Expiring(w)
  OBVIOUS
<1>3. Cardinality(Counted(w)') <= Cardinality(Counted(w))
  BY <1>1, FewerAsks
<1>4. Cardinality((Counted(w) \cup Expiring(w))') <= Cardinality(Counted(w) \cup Expiring(w))
  BY <1>1, <1>2, FewerAsks
<1>5. Cardinality(Counted(w)') \in Nat /\ Cardinality((Counted(w) \cup Expiring(w))') \in Nat
  <2>1. Counted(w)' \in SUBSET Asks /\ (Counted(w) \cup Expiring(w))' \in SUBSET Asks
    BY <1>1, <1>2
  <2> QED BY <2>1, AsksFinite
<1>6. Quota \in Nat
  BY Constants
<1>7. Cardinality(Counted(w)') <= Quota
  BY <1>1, <1>3, <1>5, <1>6 DEF KeyCounts
<1>8. ASSUME WindowOf(second) <= w
      PROVE  /\ Cardinality((Counted(w) \cup Expiring(w))') <= counter'[w]
             /\ Cardinality((Counted(w) \cup Expiring(w))') <= Quota
  <2>1. /\ Cardinality(Counted(w) \cup Expiring(w)) <= counter[w]
        /\ Cardinality(Counted(w) \cup Expiring(w)) <= Quota
    BY <1>8 DEF KeyCounts
  <2> QED BY <2>1, <1>1, <1>4, <1>5, <1>6
<1>9. expiry'[w] # 0 => expiry'[w] >= (w + 1) * Window
  BY DEF KeyCounts
<1>10. WindowOf(second)' = WindowOf(second)
  BY DEF WindowOf
<1> HIDE DEF Counted, Expiring, WindowOf
<1> QED BY <1>7, <1>8, <1>9, <1>10 DEF KeyCounts

\* What a request adds to the sets of a key, whose state of no other request changes
LEMMA OneAskCounts ==
    ASSUME NEW r \in Asks, \A s \in Asks \ {r} : ask'[s] = ask[s], NEW w
    PROVE  /\ Counted(w)' \subseteq Counted(w) \cup {r}
           /\ Expiring(w)' \subseteq Expiring(w) \cup {r}
           /\ r \in Counted(w)' <=> /\ ask'[r].allowed /\ ask'[r].by = "redis"
                                    /\ WindowOf(ask'[r].began) = w /\ WindowOf(ask'[r].decided) = w
           /\ r \in Expiring(w)' <=> ask'[r].at = "expire" /\ WindowOf(ask'[r].began) = w
BY DEF Counted, Expiring

\* A step of one request that adds nobody to the sets of a key keeps what the key says.
LEMMA KeyKeptBy ==
    ASSUME LimitTyped, LimitTyped', NEW w \in Windows, KeyCounts(w), NEW r \in Asks,
           UNCHANGED second, \A s \in Asks \ {r} : ask'[s] = ask[s],
           r \in Counted(w)' => r \in Counted(w),
           r \in Expiring(w)' => r \in Expiring(w) \cup Counted(w),
           counter'[w] >= counter[w],
           expiry'[w] = expiry[w] \/ expiry'[w] >= (w + 1) * Window \/ expiry'[w] = 0,
           ask'[r].at # "new", ask[r].at = "new" \/ ask'[r].began = ask[r].began,
           counter'[w] > 0 => counter[w] > 0 \/ WindowOf(ask'[r].began) = w
    PROVE  KeyCounts(w)'
<1>1. Counted(w)' \subseteq Counted(w)
  BY OneAskCounts
<1>2. Expiring(w)' \subseteq Expiring(w) \cup Counted(w)
  BY OneAskCounts
<1>3. ASSUME counter'[w] > 0
      PROVE  \E s \in Asks : ask'[s].at # "new" /\ WindowOf(ask'[s].began) = w
  <2>1. CASE WindowOf(ask'[r].began) = w
    BY <2>1
  <2>2. CASE counter[w] > 0
    <3>1. PICK s \in Asks : ask[s].at # "new" /\ WindowOf(ask[s].began) = w
      BY <2>2 DEF KeyCounts
    <3>2. ask'[s].at # "new" /\ ask'[s].began = ask[s].began
      BY <3>1
    <3> QED BY <3>1, <3>2
  <2> QED BY <1>3, <2>1, <2>2
<1> HIDE DEF Counted, Expiring
<1> QED BY <1>1, <1>2, <1>3, KeyKept

LEMMA IncrKeys ==
    ASSUME LimitTyped, LimitTyped', NEW r \in Asks, GoesOn(r), Incr(r), NEW w \in Windows,
           KeyCounts(w)
    PROVE  KeyCounts(w)'
<1>1. PICK x : x = WindowOf(ask[r].began)
  OBVIOUS
<1>2. /\ x \in Windows /\ counter[x] \in Nat /\ ask[r].at = "incr" /\ UNCHANGED <<second, expiry>>
      /\ counter'[x] = counter[x] + 1
      /\ \A y \in Windows \ {x} : counter'[y] = counter[y]
      /\ \A s \in Asks \ {r} : ask'[s] = ask[s]
      /\ ask'[r].began = ask[r].began /\ WindowOf(ask'[r].began) = x
      /\ \/ counter[x] = 0 /\ ask'[r].at = "expire" /\ ask'[r].allowed = ask[r].allowed
         \/ /\ counter[x] # 0 /\ ask'[r].at = "done" /\ ask'[r].by = "redis"
            /\ ask'[r].allowed = (counter[x] + 1 <= Quota) /\ ask'[r].decided = second
  BY <1>1, IncrFacts
<1>3. ask'[r].at # "new" /\ ~ask[r].allowed
  BY <1>2 DEF GoesOn
<1>4. r \in Expiring(w)' <=> (ask'[r].at = "expire" /\ x = w)
  BY <1>2, OneAskCounts
<1>5. r \in Counted(w)' <=> (ask'[r].allowed /\ ask'[r].by = "redis" /\ x = w
                             /\ WindowOf(ask'[r].decided) = w)
  BY <1>2, OneAskCounts
<1>6. CASE w # x
  <2>1. counter'[w] = counter[w] /\ expiry'[w] = expiry[w] /\ counter[w] \in Nat
    BY <1>2, <1>6, KeyTypes
  <2>2. r \notin Counted(w)' /\ r \notin Expiring(w)'
    BY <1>4, <1>5, <1>6
  <2>3. counter'[w] >= counter[w] /\ UNCHANGED second
    BY <2>1, <1>2
  <2> QED BY <1>2, <1>3, <2>1, <2>2, <2>3, KeyKeptBy
<1>7. CASE w = x /\ WindowOf(second) > w
  <2>1. r \notin Counted(w)'
    <3>1. CASE ask'[r].at = "expire"
      BY <3>1, <1>2, <1>3, <1>5
    <3>2. CASE ask'[r].at = "done"
      <4>1. WindowOf(ask'[r].decided) = WindowOf(second)
        BY <3>2, <1>2
      <4>2. WindowOf(second) # w
        BY <1>7, AskTypes, WindowsAreNat
      <4> QED BY <4>1, <4>2, <1>5
    <3> QED BY <3>1, <3>2, <1>2
  <2>2. expiry'[w] = expiry[w] /\ Cardinality(Counted(w)) \in Nat
    <3>1. expiry' = expiry
      BY <1>2
    <3> QED BY <3>1, KeyTypes
  <2>3. Counted(w)' \subseteq Counted(w)
    BY <2>1, <1>2, OneAskCounts
  <2>4. Cardinality(Counted(w)') <= Cardinality(Counted(w)) /\ Cardinality(Counted(w)') \in Nat
    BY <2>3, CountedAsks, FewerAsks, AsksFinite
  <2>5. Cardinality(Counted(w)') <= Quota
    BY <2>2, <2>4, Constants DEF KeyCounts
  <2>6. ~(WindowOf(second)' <= w)
    <3>1. WindowOf(second)' = WindowOf(second)
      BY <1>2 DEF WindowOf
    <3> QED BY <3>1, <1>7, AskTypes, WindowsAreNat
  <2>7. expiry'[w] # 0 => expiry'[w] >= (w + 1) * Window
    BY <2>2 DEF KeyCounts
  <2>8. \E s \in Asks : ask'[s].at # "new" /\ WindowOf(ask'[s].began) = w
    BY <1>2, <1>3, <1>7
  <2> HIDE DEF Counted, Expiring, WindowOf
  <2> QED BY <2>5, <2>6, <2>7, <2>8 DEF KeyCounts
<1>8. CASE w = x /\ WindowOf(second) <= w
  <2> DEFINE both == Counted(w) \cup Expiring(w)
  <2>1. /\ Cardinality(both) <= counter[w] /\ Cardinality(both) <= Quota
        /\ Cardinality(Counted(w)) <= Quota
    BY <1>8 DEF KeyCounts
  <2>2. /\ Cardinality(both) \in Nat /\ Cardinality(Counted(w)) \in Nat /\ Quota \in Nat
        /\ Quota >= 1 /\ counter[w] \in Nat /\ counter'[w] = counter[w] + 1
        /\ Counted(w) \in SUBSET Asks /\ both \in SUBSET Asks
    BY <1>2, <1>8, KeyTypes, Constants
  <2>3. Counted(w)' \in SUBSET Asks /\ both' \in SUBSET Asks
    BY DEF Counted, Expiring
  <2>4. Counted(w)' \subseteq Counted(w) \cup {r} /\ both' \subseteq both \cup {r}
        /\ Counted(w)' \subseteq both'
    BY <1>2, OneAskCounts
  <2>5. Cardinality(both') <= Cardinality(both) + 1 /\ Cardinality(both') \in Nat
        /\ Cardinality(Counted(w)') <= Cardinality(both') /\ Cardinality(Counted(w)') \in Nat
    BY <2>2, <2>3, <2>4, OneMoreAsk, AsksFinite, FewerAsks
  <2>6. Cardinality(both') <= counter'[w]
    BY <2>1, <2>2, <2>5
  <2>7. Cardinality(both') <= Quota
    <3>1. CASE counter[w] = 0
      BY <3>1, <2>1, <2>2, <2>5
    <3>2. CASE counter[w] # 0 /\ counter[w] + 1 <= Quota
      BY <3>2, <2>1, <2>2, <2>5
    <3>3. CASE counter[w] # 0 /\ ~(counter[w] + 1 <= Quota)
      <4>1. ask'[r].at = "done" /\ ~ask'[r].allowed
        BY <3>3, <1>2, <1>8
      <4>2. r \notin Counted(w)' /\ r \notin Expiring(w)'
        BY <4>1, <1>4, <1>5
      <4>3. both' \subseteq both
        BY <4>2, <1>2, OneAskCounts
      <4>4. Cardinality(both') <= Cardinality(both)
        BY <4>3, <2>2, FewerAsks
      <4> QED BY <4>4, <2>1, <2>2, <2>5
    <3> QED BY <3>1, <3>2, <3>3
  <2>8. Cardinality(Counted(w)') <= Quota
    BY <2>2, <2>5, <2>7
  <2>9. expiry'[w] # 0 => expiry'[w] >= (w + 1) * Window
    BY <1>2 DEF KeyCounts
  <2>10. \E s \in Asks : ask'[s].at # "new" /\ WindowOf(ask'[s].began) = w
    BY <1>2, <1>3, <1>8
  <2> HIDE DEF Counted, Expiring, WindowOf
  <2> QED BY <2>6, <2>7, <2>8, <2>9, <2>10 DEF KeyCounts
<1> QED BY <1>6, <1>7, <1>8, AskTypes, WindowsAreNat

LEMMA ExpireKeys ==
    ASSUME LimitTyped, LimitTyped', NEW r \in Asks, GoesOn(r), Expire(r), NEW w \in Windows,
           KeyCounts(w)
    PROVE  KeyCounts(w)'
<1>1. PICK x : x = WindowOf(ask[r].began)
  OBVIOUS
<1>2. /\ x \in Windows /\ ask[r].at = "expire" /\ UNCHANGED <<second, counter>>
      /\ expiry'[x] \in {0, second + Window}
      /\ \A y \in Windows \ {x} : expiry'[y] = expiry[y]
      /\ \A s \in Asks \ {r} : ask'[s] = ask[s]
      /\ ask'[r].began = ask[r].began /\ WindowOf(ask'[r].began) = x
      /\ ask'[r].at = "done" /\ ask'[r].decided = second
  BY <1>1, ExpireFacts
<1>3. r \notin Expiring(w)'
  BY <1>2, OneAskCounts
<1>4. second + Window >= (x + 1) * Window
  <2>1. /\ ask[r].began <= second /\ ask[r].began \in Nat /\ second \in Nat
        /\ Window \in Nat /\ x \in Nat
    BY <1>1, AskTypes, Constants DEF GoesOn
  <2>2. x * Window <= ask[r].began
    BY <1>1, <2>1, WindowFacts
  <2>3. (x + 1) * Window = x * Window + Window /\ x * Window \in Nat
    BY <2>1
  <2> QED BY <2>1, <2>2, <2>3
<1>5. expiry'[w] = expiry[w] \/ expiry'[w] >= (w + 1) * Window \/ expiry'[w] = 0
  BY <1>2, <1>4
<1>6. counter'[w] >= counter[w] /\ (counter'[w] > 0 => counter[w] > 0)
  <2>1. counter' = counter /\ counter[w] \in Nat
    BY <1>2, KeyTypes
  <2> QED BY <2>1
<1>7. CASE r \in Counted(w)' => r \in Counted(w)
  <2>1. ask'[r].at # "new"
    BY <1>2
  <2> QED BY <1>2, <1>3, <1>5, <1>6, <1>7, <2>1, KeyKeptBy
<1>8. CASE r \in Counted(w)' /\ r \notin Counted(w)
  <2> DEFINE both == Counted(w) \cup Expiring(w)
  <2>1. w = x /\ WindowOf(second) = w
    BY <1>2, <1>8, OneAskCounts
  <2>2. r \in Expiring(w)
    BY <1>1, <1>2, <2>1 DEF Expiring
  <2>3. both' \subseteq both /\ Counted(w)' \subseteq both'
    BY <2>2, <1>2, OneAskCounts
  <2>4. WindowOf(second) <= w
    BY <2>1, AskTypes
  <2>5. Cardinality(both) <= counter[w] /\ Cardinality(both) <= Quota
    BY <2>4 DEF KeyCounts
  <2>6. /\ Cardinality(both) \in Nat /\ Quota \in Nat /\ counter[w] \in Nat
        /\ both \in SUBSET Asks
    BY KeyTypes, Constants
  <2>7. both' \in SUBSET Asks
    BY <2>3, <2>6
  <2>8. Cardinality(both') <= Cardinality(both) /\ Cardinality(both') \in Nat
        /\ Cardinality(Counted(w)') <= Cardinality(both') /\ Cardinality(Counted(w)') \in Nat
    <3>1. Counted(w)' \in SUBSET Asks
      BY <2>3, <2>7
    <3> HIDE DEF both
    <3> QED BY <2>3, <2>6, <2>7, <3>1, AsksFinite, FewerAsks
  <2>9. /\ Cardinality(both') <= counter'[w] /\ Cardinality(both') <= Quota
        /\ Cardinality(Counted(w)') <= Quota
    BY <1>2, <2>5, <2>6, <2>8
  <2>10. expiry'[w] # 0 => expiry'[w] >= (w + 1) * Window
    BY <1>5 DEF KeyCounts
  <2>11. \E s \in Asks : ask'[s].at # "new" /\ WindowOf(ask'[s].began) = w
    BY <1>2, <2>1
  <2> HIDE DEF Counted, Expiring, WindowOf
  <2> QED BY <2>9, <2>10, <2>11 DEF KeyCounts
<1> QED BY <1>7, <1>8

LEMMA SecondKeys ==
    ASSUME LimitTyped, NextSecond, NEW w \in Windows, KeyCounts(w)
    PROVE  KeyCounts(w)'
<1>1. /\ second' = second + 1 /\ ask' = ask /\ second \in Nat
      /\ counter'[w] \in {counter[w], 0} /\ expiry'[w] \in {expiry[w], 0}
      /\ expiry[w] = 0 \/ expiry[w] > second + 1 => counter'[w] = counter[w]
  BY SecondFacts DEF LimitTyped
<1>2. /\ counter[w] \in Nat /\ expiry[w] \in Nat /\ w \in Nat /\ Window \in Nat
  BY KeyTypes, Constants, WindowsAreNat
<1>3. Counted(w)' = Counted(w) /\ Expiring(w)' = Expiring(w)
  BY <1>1 DEF Counted, Expiring
<1>4. ASSUME WindowOf(second + 1) <= w
      PROVE  WindowOf(second) <= w /\ counter'[w] = counter[w]
  <2>1. second + 1 \in Nat /\ second <= second + 1
    BY <1>1
  <2>2. /\ WindowOf(second) \in Nat /\ WindowOf(second + 1) \in Nat
        /\ second + 1 < (WindowOf(second + 1) + 1) * Window
    BY <1>1, <2>1, WindowFacts
  <2>3. WindowOf(second) <= WindowOf(second + 1)
    BY <1>1, <2>1, WindowMonotone
  <2>4. (WindowOf(second + 1) + 1) * Window <= (w + 1) * Window
    <3>1. PICK x \in Nat : x = WindowOf(second + 1)
      BY <2>2
    <3>2. CASE x = w
      BY <3>1, <3>2, <1>2
    <3>3. CASE x < w
      <4>1. (x + 1) * Window <= w * Window
        BY <3>1, <3>3, <1>2, WindowOrder
      <4>2. (w + 1) * Window = w * Window + Window /\ w * Window \in Nat /\ (x + 1) * Window \in Nat
        BY <1>2, <3>1
      <4> QED BY <3>1, <4>1, <4>2, <1>2
    <3> QED BY <3>1, <3>2, <3>3, <1>2, <1>4
  <2>5. second + 1 < (w + 1) * Window
    <3>1. (w + 1) * Window \in Nat /\ (WindowOf(second + 1) + 1) * Window \in Nat
      BY <1>2, <2>2
    <3> QED BY <2>1, <2>2, <2>4, <3>1
  <2>6. expiry[w] = 0 \/ expiry[w] > second + 1
    <3>1. expiry[w] # 0 => expiry[w] >= (w + 1) * Window
      BY DEF KeyCounts
    <3>2. (w + 1) * Window \in Nat
      BY <1>2
    <3> QED BY <1>2, <2>1, <2>5, <3>1, <3>2
  <2> QED BY <1>1, <1>2, <1>4, <2>2, <2>3, <2>6
<1>5. WindowOf(second)' = WindowOf(second + 1)
  BY <1>1 DEF WindowOf
<1>6. ASSUME WindowOf(second + 1) <= w
      PROVE  /\ Cardinality(Counted(w) \cup Expiring(w)) <= counter'[w]
             /\ Cardinality(Counted(w) \cup Expiring(w)) <= Quota
  BY <1>4, <1>6 DEF KeyCounts
<1>7. expiry'[w] # 0 => expiry'[w] >= (w + 1) * Window
  BY <1>1 DEF KeyCounts
<1>8. counter'[w] > 0 => \E s \in Asks : ask'[s].at # "new" /\ WindowOf(ask'[s].began) = w
  BY <1>1, <1>2 DEF KeyCounts
<1>9. Cardinality(Counted(w)) <= Quota
  BY DEF KeyCounts
<1> HIDE DEF Counted, Expiring, WindowOf
<1> QED BY <1>3, <1>5, <1>6, <1>7, <1>8, <1>9 DEF KeyCounts

LEMMA NextKeys ==
    ASSUME LimitTyped, LimitTyped', \A r \in Asks : GoesOn(r), [RateLimitNext]_limitVars,
           NEW w \in Windows, KeyCounts(w)
    PROVE  KeyCounts(w)'
<1>1. CASE UNCHANGED limitVars
  BY <1>1 DEF limitVars, KeyCounts, Counted, Expiring, WindowOf
<1>2. CASE NextSecond
  BY <1>2, SecondKeys
<1>3. ASSUME NEW r \in Asks, Incr(r) PROVE KeyCounts(w)'
  BY <1>3, IncrKeys
<1>4. ASSUME NEW r \in Asks, Expire(r) PROVE KeyCounts(w)'
  BY <1>4, ExpireKeys
<1>5. ASSUME NEW r \in Asks, NEW p \in Processes, Begin(r, p) PROVE KeyCounts(w)'
  <2>1. /\ UNCHANGED <<second, counter, expiry>> /\ counter[w] \in Nat
    BY <1>5, KeyTypes DEF Begin
  <2>2. counter'[w] >= counter[w] /\ expiry'[w] = expiry[w] /\ (counter'[w] > 0 => counter[w] > 0)
    BY <2>1
  <2>3. /\ ask[r].at = "new" /\ \A s \in Asks \ {r} : ask'[s] = ask[s]
        /\ ask'[r].at \in {"incr", "log"} /\ ask'[r].allowed = FALSE
    BY <1>5, BeginFacts
  <2>4. r \notin Counted(w)' /\ r \notin Expiring(w)' /\ ask'[r].at # "new"
    BY <2>3 DEF Counted, Expiring
  <2> QED BY <2>1, <2>2, <2>3, <2>4, KeyKeptBy
<1>6. ASSUME NEW r \in Asks, Fail(r) PROVE KeyCounts(w)'
  <2>1. PICK x : x = WindowOf(ask[r].began)
    OBVIOUS
  <2>2. /\ x \in Windows /\ counter[x] \in Nat /\ UNCHANGED <<second, expiry>>
        /\ counter'[x] \in {counter[x], counter[x] + 1}
        /\ \A y \in Windows \ {x} : counter'[y] = counter[y]
        /\ \A s \in Asks \ {r} : ask'[s] = ask[s] /\ ask[r].at \in {"incr", "expire"}
        /\ ask'[r].began = ask[r].began /\ ask'[r].at = "log" /\ ask'[r].allowed = ask[r].allowed
    BY <1>6, <2>1, FailFacts
  <2>3. counter[w] \in Nat /\ expiry'[w] = expiry[w]
    BY <2>2, KeyTypes
  <2>4. counter'[w] >= counter[w] /\ (counter'[w] > 0 => counter[w] > 0 \/ x = w)
    BY <2>2, <2>3
  <2>5. ask[r].at \in {"incr", "expire"}
    BY <1>6 DEF Fail
  <2>6. ~ask'[r].allowed
    BY <2>2, <2>5 DEF GoesOn
  <2>7. r \notin Counted(w)' /\ r \notin Expiring(w)' /\ ask'[r].at # "new"
    BY <2>2, <2>6 DEF Counted, Expiring
  <2>8. WindowOf(ask'[r].began) = x
    BY <2>1, <2>2
  <2> QED BY <2>2, <2>3, <2>4, <2>7, <2>8, KeyKeptBy
<1>7. ASSUME NEW r \in Asks, CheckLog(r) PROVE KeyCounts(w)'
  <2>1. PICK p : p = ask[r].process
    OBVIOUS
  <2>2. /\ p \in Processes /\ UNCHANGED <<second, counter, expiry>> /\ ask'[r].by = p
        /\ \A s \in Asks \ {r} : ask'[s] = ask[s]
        /\ ask'[r].at = "done" /\ ask'[r].began = ask[r].began
    BY <1>7, <2>1, CheckLogFacts
  <2>3. ask'[r].by # "redis" /\ ask'[r].at # "new"
    BY <2>2, Constants
  <2>4. r \notin Counted(w)' /\ r \notin Expiring(w)'
    BY <2>2, <2>3 DEF Counted, Expiring
  <2>5. counter'[w] >= counter[w] /\ expiry'[w] = expiry[w] /\ (counter'[w] > 0 => counter[w] > 0)
    <3>1. counter[w] \in Nat /\ counter' = counter
      BY <2>2, KeyTypes
    <3> QED BY <2>2, <3>1
  <2> QED BY <2>2, <2>3, <2>4, <2>5, KeyKeptBy
<1> QED BY <1>1, <1>2, <1>3, <1>4, <1>5, <1>6, <1>7 DEF RateLimitNext

--------------------------------------------------------------------------------
(* Logs *)

LEMMA LogTypes ==
    ASSUME LimitTyped, NEW p \in Processes
    PROVE  /\ hits[p] \in Seq(Nat) /\ Len(hits[p]) \in Nat /\ DOMAIN hits[p] = 1 .. Len(hits[p])
           /\ \A i \in 1 .. Len(hits[p]) : hits[p][i] \in Nat
           /\ second \in Nat /\ Window \in Nat /\ Quota \in Nat
           /\ \A u \in Int : /\ AloneAfter(p, u) \in SUBSET Asks /\ HitsAfter(p, u) \subseteq DOMAIN hits[p]
                             /\ IsFiniteSet(HitsAfter(p, u)) /\ Cardinality(HitsAfter(p, u)) \in Nat
                             /\ Cardinality(AloneAfter(p, u)) \in Nat
<1>1. hits[p] \in Seq(Nat) /\ Len(hits[p]) \in Nat /\ DOMAIN hits[p] = 1 .. Len(hits[p])
  BY LenProperties DEF LimitTyped
<1>2. \A i \in 1 .. Len(hits[p]) : hits[p][i] \in Nat
  BY <1>1, ElementOfSeq
<1>3. IsFiniteSet(DOMAIN hits[p])
  BY <1>1, FS_Interval
<1>4. second \in Nat /\ Window \in Nat /\ Quota \in Nat
  BY Constants DEF LimitTyped
<1>5. \A u \in Int : AloneAfter(p, u) \in SUBSET Asks /\ HitsAfter(p, u) \in SUBSET (DOMAIN hits[p])
  BY DEF AloneAfter, HitsAfter
<1>6. \A u \in Int : IsFiniteSet(HitsAfter(p, u)) /\ Cardinality(HitsAfter(p, u)) \in Nat
  BY <1>3, <1>5, FS_Subset, FS_CardinalityType
<1> QED BY <1>1, <1>2, <1>4, <1>5, <1>6, AsksFinite

\* A step that lets nobody through by this process keeps what its log says.
LEMMA LogKept ==
    ASSUME LimitTyped, NEW p \in Processes, LogCounts(p), second' \in Nat, second' >= second,
           hits'[p] = hits[p],
           \A r \in Asks : ask'[r].allowed /\ ask'[r].by = p =>
               ask[r].allowed /\ ask[r].by = p /\ ask'[r].decided = ask[r].decided
    PROVE  LogCounts(p)'
<1>1. \A u \in Int : HitsAfter(p, u)' = HitsAfter(p, u)
  BY DEF HitsAfter
<1>2. ASSUME NEW u \in Int, u >= second' - Window
      PROVE  Cardinality(AloneAfter(p, u)') <= Cardinality(HitsAfter(p, u)')
  <2>1. u >= second - Window
    BY <1>2, LogTypes
  <2>2. Cardinality(AloneAfter(p, u)) <= Cardinality(HitsAfter(p, u))
    BY <2>1 DEF LogCounts
  <2>3. AloneAfter(p, u)' \subseteq AloneAfter(p, u)
    BY DEF AloneAfter
  <2>4. AloneAfter(p, u) \in SUBSET Asks /\ AloneAfter(p, u)' \in SUBSET Asks
    BY <2>3, LogTypes
  <2>5. Cardinality(AloneAfter(p, u)') <= Cardinality(AloneAfter(p, u))
    BY <2>3, <2>4, FewerAsks
  <2>6. Cardinality(AloneAfter(p, u)') \in Nat
    BY <2>4, AsksFinite
  <2>7. Cardinality(AloneAfter(p, u)) \in Nat /\ Cardinality(HitsAfter(p, u)) \in Nat
    BY LogTypes
  <2>8. Cardinality(HitsAfter(p, u)') = Cardinality(HitsAfter(p, u))
    BY <1>1
  <2>9. \A a, b, c \in Nat : a <= b /\ b <= c => a <= c
    OBVIOUS
  <2> QED BY <2>2, <2>5, <2>6, <2>7, <2>8, <2>9
<1>3. ASSUME NEW t \in Nat
      PROVE  Cardinality({r \in Admitted(t)' : ask'[r].by = p}) <= Quota
  <2> DEFINE now == {r \in Admitted(t) : ask[r].by = p}
             then == {r \in Admitted(t)' : ask'[r].by = p}
  <2>1. then \subseteq now /\ now \in SUBSET Asks /\ then \in SUBSET Asks
    BY DEF Admitted
  <2>2. Cardinality(now) <= Quota
    BY DEF LogCounts
  <2> HIDE DEF now, then
  <2>3. /\ Cardinality(then) <= Cardinality(now) /\ Cardinality(then) \in Nat
        /\ Cardinality(now) \in Nat
    BY <2>1, FewerAsks, AsksFinite
  <2>4. Cardinality(then) <= Quota
    BY <2>2, <2>3, Constants
  <2> QED BY <2>4 DEF then
<1>4. Len(hits'[p]) <= Quota
  BY DEF LogCounts
<1> HIDE DEF AloneAfter, HitsAfter, Admitted
<1> QED BY <1>2, <1>3, <1>4 DEF LogCounts

\* Dropping old entries keeps the number of the younger ones.
LEMMA Shifted ==
    ASSUME NEW h \in Seq(Nat), NEW k \in 0 .. Len(h), NEW s \in Seq(Nat), Len(s) = Len(h) - k,
           \A j \in 1 .. Len(h) - k : s[j] = h[j + k], NEW u \in Int,
           \A i \in 1 .. k : h[i] <= u
    PROVE  Cardinality({i \in DOMAIN h : h[i] > u}) <= Cardinality({j \in DOMAIN s : s[j] > u})
<1> DEFINE S == {i \in DOMAIN h : h[i] > u}
           T == {j \in DOMAIN s : s[j] > u}
           f == [i \in S |-> i - k]
<1>1. DOMAIN h = 1 .. Len(h) /\ DOMAIN s = 1 .. Len(h) - k /\ Len(h) \in Nat /\ k \in Nat
  BY LenProperties
<1>2. \A i \in 1 .. Len(h) : h[i] \in Nat
  BY <1>1, ElementOfSeq
<1>3. ASSUME NEW i \in S PROVE i - k \in T /\ i \in Nat
  <2>1. i \in 1 .. Len(h) /\ h[i] > u
    BY <1>1
  <2>2. i > k
    <3> SUFFICES ASSUME ~(i > k) PROVE FALSE
      OBVIOUS
    <3>1. i \in 1 .. k
      BY <2>1, <1>1
    <3>2. h[i] <= u /\ h[i] \in Nat
      BY <3>1, <2>1, <1>2
    <3> QED BY <3>2, <2>1
  <2>3. i - k \in 1 .. Len(h) - k /\ (i - k) + k = i
    BY <2>1, <2>2, <1>1
  <2>4. s[i - k] = h[i]
    BY <2>3
  <2> QED BY <2>1, <2>3, <2>4, <1>1
<1>4. IsFiniteSet(T)
  <2>1. IsFiniteSet(DOMAIN s) /\ T \in SUBSET (DOMAIN s)
    BY <1>1, FS_Interval
  <2> QED BY <2>1, FS_Subset
<1>5. f \in Injection(S, T)
  <2>1. f \in [S -> T]
    BY <1>3
  <2>2. \A a, b \in S : f[a] = f[b] => a = b
    BY <1>3, <1>1
  <2> HIDE DEF f, S, T
  <2> QED BY <2>1, <2>2 DEF Injection, IsInjective
<1> HIDE DEF f, S, T
<1>6. Cardinality(S) <= Cardinality(T)
  BY <1>4, <1>5, FS_Injection
<1> QED BY <1>6 DEF S, T

\* A log of its own: at most Quota entries, and one more for one more that is let through
LEMMA CheckLogCounts ==
    ASSUME LimitTyped, LimitTyped', NEW r \in Asks, GoesOn(r), CheckLog(r), NEW p \in Processes,
           p = ask[r].process, LogCounts(p)
    PROVE  LogCounts(p)'
<1>1. /\ Recent(p) \in Seq(Nat) /\ second \in Nat /\ second' = second
      /\ hits'[p] = IF Len(Recent(p)) >= Quota THEN Recent(p) ELSE Append(Recent(p), second)
      /\ \A s \in Asks \ {r} : ask'[s] = ask[s]
      /\ ask'[r].by = p /\ ask'[r].decided = second /\ ask[r].at = "log"
  BY CheckLogFacts
<1>8. ask'[r].allowed = (Len(Recent(p)) < Quota)
  BY CheckLogFacts
<1>2. PICK k \in 0 .. Len(hits[p]) :
              /\ Len(Recent(p)) = Len(hits[p]) - k
              /\ \A j \in 1 .. Len(hits[p]) - k : Recent(p)[j] = hits[p][j + k]
              /\ \A i \in 1 .. k : hits[p][i] <= second - Window
  BY RecentFacts
<1>3. /\ hits[p] \in Seq(Nat) /\ Len(hits[p]) \in Nat
      /\ \A i \in 1 .. Len(hits[p]) : hits[p][i] \in Nat
      /\ Window \in Nat /\ Quota \in Nat /\ k \in Nat /\ Len(Recent(p)) \in Nat
      /\ Len(hits[p]) <= Quota
  <2>1. hits[p] \in Seq(Nat) /\ Len(hits[p]) \in Nat /\ Window \in Nat /\ Quota \in Nat
    BY LogTypes
  <2>2. \A i \in 1 .. Len(hits[p]) : hits[p][i] \in Nat
    BY LogTypes
  <2>3. k \in Nat /\ Len(Recent(p)) \in Nat
    <3>1. Recent(p) \in Seq(Nat)
      BY <1>1
    <3> QED BY <3>1, <1>2, <2>1, LenProperties
  <2>4. Len(hits[p]) <= Quota
    BY DEF LogCounts
  <2> QED BY <2>1, <2>2, <2>3, <2>4
<1>9. second \in Nat /\ Window \in Nat
  BY <1>1, <1>3
<1>4. ~ask[r].allowed
  BY <1>1 DEF GoesOn
<1> DEFINE young(u) == {j \in DOMAIN Recent(p) : Recent(p)[j] > u}
<1>5. ASSUME NEW u \in Int, u >= second - Window
      PROVE  /\ Cardinality(AloneAfter(p, u)) <= Cardinality(young(u))
             /\ IsFiniteSet(young(u)) /\ Cardinality(young(u)) \in Nat
             /\ Cardinality(young(u)) <= Len(Recent(p))
  <2>1. \A i \in 1 .. k : hits[p][i] <= u
    <3>1. ASSUME NEW i \in 1 .. k PROVE hits[p][i] <= u
      <4>1. hits[p][i] <= second - Window /\ i \in 1 .. Len(hits[p])
        BY <1>2, <1>3
      <4>2. hits[p][i] \in Nat
        BY <4>1, <1>3
      <4> QED BY <4>1, <4>2, <1>5, <1>9
    <3> QED BY <3>1
  <2>2. Cardinality(HitsAfter(p, u)) <= Cardinality(young(u))
    BY <1>1, <1>2, <1>3, <2>1, Shifted DEF HitsAfter
  <2>3. DOMAIN Recent(p) = 1 .. Len(Recent(p)) /\ young(u) \in SUBSET (DOMAIN Recent(p))
    BY <1>1, LenProperties
  <2>4. IsFiniteSet(1 .. Len(Recent(p))) /\ Cardinality(1 .. Len(Recent(p))) = Len(Recent(p))
    <3>1. PICK n \in Nat : n = Len(Recent(p))
      BY <1>3
    <3>2. IsFiniteSet(1 .. n) /\ Cardinality(1 .. n) = n
      BY FS_Interval
    <3> QED BY <3>1, <3>2
  <2>5. IsFiniteSet(young(u)) /\ Cardinality(young(u)) <= Cardinality(1 .. Len(Recent(p)))
    BY <2>3, <2>4, FS_Subset
  <2>6. Cardinality(young(u)) \in Nat
    BY <2>5, FS_CardinalityType
  <2>7. Cardinality(AloneAfter(p, u)) <= Cardinality(HitsAfter(p, u))
    BY <1>5 DEF LogCounts
  <2>8. Cardinality(AloneAfter(p, u)) \in Nat /\ Cardinality(HitsAfter(p, u)) \in Nat
    BY LogTypes
  <2> HIDE DEF young
  <2> QED BY <2>2, <2>4, <2>5, <2>6, <2>7, <2>8, <1>3
<1>6. CASE Len(Recent(p)) >= Quota
  <2>7. ~(Len(Recent(p)) < Quota)
    BY <1>3, <1>6
  <2>1. hits'[p] = Recent(p) /\ ~ask'[r].allowed
    BY <1>1, <1>6, <1>8, <2>7
  <2>2. \A u \in Int : HitsAfter(p, u)' = young(u)
    BY <2>1 DEF HitsAfter
  <2>3. \A s \in Asks : ask'[s].allowed => s # r /\ ask'[s] = ask[s]
    BY <1>1, <2>1
  <2>4. ASSUME NEW u \in Int, u >= second' - Window
        PROVE  Cardinality(AloneAfter(p, u)') <= Cardinality(HitsAfter(p, u)')
    <3>1. AloneAfter(p, u)' \subseteq AloneAfter(p, u)
      BY <2>3 DEF AloneAfter
    <3>2. AloneAfter(p, u) \in SUBSET Asks
      BY LogTypes
    <3>3. /\ Cardinality(AloneAfter(p, u)') <= Cardinality(AloneAfter(p, u))
          /\ Cardinality(AloneAfter(p, u)') \in Nat /\ Cardinality(AloneAfter(p, u)) \in Nat
      BY <3>1, <3>2, FewerAsks, AsksFinite
    <3>4. u >= second - Window
      BY <2>4, <1>1
    <3>5. Cardinality(AloneAfter(p, u)) <= Cardinality(young(u)) /\ Cardinality(young(u)) \in Nat
      BY <3>4, <1>5
    <3>6. Cardinality(HitsAfter(p, u)') = Cardinality(young(u))
      BY <2>2
    <3> HIDE DEF young
    <3> QED BY <3>3, <3>5, <3>6
  <2>5. ASSUME NEW t \in Nat
        PROVE  Cardinality({s \in Admitted(t)' : ask'[s].by = p}) <= Quota
    <3> DEFINE now  == {s \in Admitted(t) : ask[s].by = p}
               then == {s \in Admitted(t)' : ask'[s].by = p}
    <3>1. then \subseteq now /\ now \in SUBSET Asks /\ then \in SUBSET Asks
      BY <2>3 DEF Admitted
    <3>2. Cardinality(now) <= Quota
      BY DEF LogCounts
    <3> HIDE DEF now, then
    <3>3. /\ Cardinality(then) <= Cardinality(now) /\ Cardinality(then) \in Nat
          /\ Cardinality(now) \in Nat
      BY <3>1, FewerAsks, AsksFinite
    <3>4. Cardinality(then) <= Quota
      BY <3>2, <3>3, <1>3
    <3> QED BY <3>4 DEF then
  <2>6. Len(hits'[p]) <= Quota
    BY <2>1, <1>2, <1>3
  <2> HIDE DEF AloneAfter, HitsAfter, Admitted
  <2> QED BY <2>4, <2>5, <2>6 DEF LogCounts
<1>7. CASE ~(Len(Recent(p)) >= Quota)
  <2>1. hits'[p] = Append(Recent(p), second) /\ Len(Recent(p)) < Quota
    BY <1>1, <1>3, <1>7
  <2>2. PICK n \in Nat : n = Len(Recent(p))
    BY <1>3
  <2>3. /\ Len(hits'[p]) = n + 1 /\ hits'[p][n + 1] = second
        /\ \A j \in 1 .. n : hits'[p][j] = Recent(p)[j]
        /\ DOMAIN hits'[p] = 1 .. n + 1 /\ DOMAIN Recent(p) = 1 .. n
    <3>1. PICK log \in Seq(Nat) : log = Recent(p)
      BY <1>1
    <3>2. /\ Append(log, second) \in Seq(Nat) /\ Len(Append(log, second)) = Len(log) + 1
          /\ \A j \in 1 .. Len(log) : Append(log, second)[j] = log[j]
          /\ Append(log, second)[Len(log) + 1] = second
      BY <1>9, <3>1, AppendProperties
    <3>3. hits'[p] = Append(log, second) /\ n = Len(log)
      BY <2>1, <2>2, <3>1
    <3>4. DOMAIN Append(log, second) = 1 .. n + 1 /\ DOMAIN log = 1 .. n
      BY <3>2, <3>3, LenProperties
    <3> QED BY <3>1, <3>2, <3>3, <3>4
  <2>4. ASSUME NEW u \in Int
        PROVE  /\ u < second => HitsAfter(p, u)' = young(u) \cup {n + 1}
               /\ ~(u < second) => young(u) \subseteq HitsAfter(p, u)'
    BY <2>3, <1>1 DEF HitsAfter
  <2>5. ASSUME NEW u \in Int, u >= second' - Window
        PROVE  Cardinality(AloneAfter(p, u)') <= Cardinality(HitsAfter(p, u)')
    <3>1. AloneAfter(p, u)' \subseteq AloneAfter(p, u) \cup {r}
      BY <1>1 DEF AloneAfter
    <3>2. AloneAfter(p, u) \in SUBSET Asks /\ AloneAfter(p, u)' \in SUBSET Asks
      BY <3>1, LogTypes
    <3>3. u >= second - Window
      BY <2>5, <1>1
    <3>4. /\ Cardinality(AloneAfter(p, u)) <= Cardinality(young(u)) /\ Cardinality(young(u)) \in Nat
          /\ IsFiniteSet(young(u))
      BY <3>3, <1>5
    <3>5. CASE u < second
      <4>1. n + 1 \notin young(u)
        BY <2>3
      <4> HIDE DEF young
      <4>2. Cardinality(HitsAfter(p, u)') = Cardinality(young(u)) + 1
        BY <4>1, <2>4, <3>4, <3>5, FS_AddElement
      <4>3. Cardinality(AloneAfter(p, u)') <= Cardinality(AloneAfter(p, u)) + 1
        BY <3>1, <3>2, OneMoreAsk
      <4>4. Cardinality(AloneAfter(p, u)') \in Nat /\ Cardinality(AloneAfter(p, u)) \in Nat
        BY <3>2, AsksFinite
      <4> QED BY <3>4, <4>2, <4>3, <4>4
    <3>6. CASE ~(u < second)
      <4>1. r \notin AloneAfter(p, u)'
        BY <1>1, <3>6 DEF AloneAfter
      <4>2. AloneAfter(p, u)' \subseteq AloneAfter(p, u)
        BY <3>1, <4>1
      <4>3. /\ Cardinality(AloneAfter(p, u)') <= Cardinality(AloneAfter(p, u))
            /\ Cardinality(AloneAfter(p, u)') \in Nat /\ Cardinality(AloneAfter(p, u)) \in Nat
        BY <4>2, <3>2, FewerAsks, AsksFinite
      <4>4. HitsAfter(p, u)' \in SUBSET (1 .. n + 1) /\ IsFiniteSet(1 .. n + 1)
        BY <2>3, FS_Interval DEF HitsAfter
      <4>5. IsFiniteSet(HitsAfter(p, u)') /\ young(u) \in SUBSET HitsAfter(p, u)'
        BY <2>4, <3>6, <4>4, FS_Subset
      <4> HIDE DEF young
      <4>6. Cardinality(young(u)) <= Cardinality(HitsAfter(p, u)')
            /\ Cardinality(HitsAfter(p, u)') \in Nat
        BY <4>5, FS_Subset, FS_CardinalityType
      <4> QED BY <3>4, <4>3, <4>6
    <3> QED BY <3>5, <3>6
  <2>6. ASSUME NEW t \in Nat
        PROVE  Cardinality({s \in Admitted(t)' : ask'[s].by = p}) <= Quota
    <3> DEFINE now  == {s \in Admitted(t) : ask[s].by = p}
               then == {s \in Admitted(t)' : ask'[s].by = p}
    <3>1. then \subseteq now \cup {r} /\ now \in SUBSET Asks /\ then \in SUBSET Asks
      BY <1>1 DEF Admitted
    <3>2. Cardinality(now) <= Quota
      BY DEF LogCounts
    <3>3. CASE second \in t .. t + Window - 1
      <4>1. second - Window \in Int /\ second - Window >= second - Window
        BY <1>1, <1>3
      <4>2. now \subseteq AloneAfter(p, second - Window)
        <5>1. ASSUME NEW s \in now PROVE s \in AloneAfter(p, second - Window)
          <6>1. /\ s \in Asks /\ ask[s].allowed /\ ask[s].by = p
                /\ ask[s].decided \in t .. t + Window - 1
            BY DEF Admitted
          <6>2. ask[s].decided > second - Window
            BY <6>1, <3>3, <1>1, <1>3
          <6> QED BY <6>1, <6>2 DEF AloneAfter
        <5> QED BY <5>1
      <4>3. AloneAfter(p, second - Window) \in SUBSET Asks
        BY <4>1, LogTypes
      <4> HIDE DEF now, then, young
      <4>4. /\ Cardinality(now) <= Cardinality(AloneAfter(p, second - Window))
            /\ Cardinality(now) \in Nat /\ Cardinality(AloneAfter(p, second - Window)) \in Nat
        BY <4>2, <4>3, <3>1, FewerAsks, AsksFinite
      <4>5. /\ Cardinality(AloneAfter(p, second - Window)) <= Cardinality(young(second - Window))
            /\ Cardinality(young(second - Window)) <= Len(Recent(p))
            /\ Cardinality(young(second - Window)) \in Nat
        BY <4>1, <1>5
      <4>6. Cardinality(now) < Quota
        BY <4>4, <4>5, <2>1, <1>3
      <4>7. Cardinality(then) <= Cardinality(now) + 1 /\ Cardinality(then) \in Nat
        BY <3>1, OneMoreAsk, AsksFinite
      <4>8. Cardinality(then) <= Quota
        BY <4>4, <4>6, <4>7, <1>3
      <4> QED BY <4>8 DEF then
    <3>4. CASE second \notin t .. t + Window - 1
      <4>1. r \notin then
        BY <3>4, <1>1 DEF Admitted
      <4> HIDE DEF now, then
      <4>2. then \subseteq now
        BY <3>1, <4>1
      <4>3. /\ Cardinality(then) <= Cardinality(now) /\ Cardinality(then) \in Nat
            /\ Cardinality(now) \in Nat
        BY <3>1, <4>2, FewerAsks, AsksFinite
      <4>4. Cardinality(then) <= Quota
        BY <3>2, <4>3, <1>3
      <4> QED BY <4>4 DEF then
    <3> QED BY <3>3, <3>4
  <2>7. Len(hits'[p]) <= Quota
    BY <2>1, <2>2, <2>3, <1>3
  <2> HIDE DEF AloneAfter, HitsAfter, Admitted
  <2> QED BY <2>5, <2>6, <2>7 DEF LogCounts
<1> QED BY <1>6, <1>7

LEMMA NextLogs ==
    ASSUME LimitTyped, LimitTyped', \A r \in Asks : GoesOn(r), [RateLimitNext]_limitVars,
           NEW p \in Processes, LogCounts(p)
    PROVE  LogCounts(p)'
<1>0. second \in Nat /\ second' \in Nat /\ second >= second /\ p # "redis"
  BY Constants DEF LimitTyped
<1>1. CASE UNCHANGED limitVars
  <2>1. second' = second /\ hits' = hits /\ ask' = ask
    BY <1>1 DEF limitVars
  <2> QED BY <2>1, <1>0, LogKept
<1>2. CASE NextSecond
  <2>1. second' = second + 1 /\ hits' = hits /\ ask' = ask
    BY <1>2, SecondFacts
  <2>2. second' >= second
    BY <2>1, <1>0
  <2> QED BY <2>1, <2>2, <1>0, LogKept
<1>3. ASSUME NEW r \in Asks, NEW x \in Processes, Begin(r, x) PROVE LogCounts(p)'
  <2>1. second' = second /\ hits' = hits
    BY <1>3 DEF Begin
  <2>2. ask'[r].allowed = FALSE /\ \A s \in Asks \ {r} : ask'[s] = ask[s]
    BY <1>3, BeginFacts
  <2> QED BY <2>1, <2>2, <1>0, LogKept
<1>4. ASSUME NEW r \in Asks, Incr(r) PROVE LogCounts(p)'
  <2>1. /\ second' = second /\ hits' = hits /\ ask[r].at = "incr"
        /\ \A s \in Asks \ {r} : ask'[s] = ask[s]
        /\ ask'[r].allowed = ask[r].allowed \/ ask'[r].by = "redis"
    BY <1>4, IncrFacts
  <2>2. ~ask[r].allowed
    BY <2>1 DEF GoesOn
  <2> QED BY <2>1, <2>2, <1>0, LogKept
<1>5. ASSUME NEW r \in Asks, Expire(r) PROVE LogCounts(p)'
  <2>1. /\ second' = second /\ hits' = hits /\ ask'[r].by = "redis"
        /\ \A s \in Asks \ {r} : ask'[s] = ask[s]
    BY <1>5, ExpireFacts
  <2> QED BY <2>1, <1>0, LogKept
<1>6. ASSUME NEW r \in Asks, Fail(r) PROVE LogCounts(p)'
  <2>1. /\ second' = second /\ hits' = hits /\ ask[r].at \in {"incr", "expire"}
        /\ \A s \in Asks \ {r} : ask'[s] = ask[s]
        /\ ask'[r].allowed = ask[r].allowed
    BY <1>6, FailFacts
  <2>2. ~ask[r].allowed
    BY <2>1 DEF GoesOn
  <2> QED BY <2>1, <2>2, <1>0, LogKept
<1>7. ASSUME NEW r \in Asks, CheckLog(r) PROVE LogCounts(p)'
  <2>1. PICK x : x = ask[r].process
    OBVIOUS
  <2>2. CASE x = p
    BY <1>7, <2>1, <2>2, CheckLogCounts
  <2>3. CASE x # p
    <3>1. /\ second' = second /\ hits'[p] = hits[p] /\ ask'[r].by = x
          /\ \A s \in Asks \ {r} : ask'[s] = ask[s]
      BY <1>7, <2>1, <2>3, CheckLogFacts
    <3> QED BY <3>1, <2>3, <1>0, LogKept
  <2> QED BY <2>2, <2>3
<1> QED BY <1>1, <1>2, <1>3, <1>4, <1>5, <1>6, <1>7 DEF RateLimitNext

--------------------------------------------------------------------------------
(* Refusals *)

\* While nothing is told and no log changes, what was told stands.
LEMMA RefusalKept ==
    ASSUME RefusalStands, UNCHANGED <<hits, told>>,
           \A r \in Asks : ask'[r].at # "new" => ask[r].at # "new" /\ ask'[r].began = ask[r].began
    PROVE  RefusalStands'
BY DEF RefusalStands

\* Who is refused by Redis has to wait for the end of the window.
LEMMA RefusedByRedis ==
    ASSUME LimitTyped, LimitTyped', \A r \in Asks : GoesOn(r)', NEW w \in Windows,
           told' = NoRefusal \/ /\ told'.by = "redis" /\ told'.until > second
                                /\ told'.until = (w + 1) * Window,
           UNCHANGED second
    PROVE  RefusalStands'
<1> SUFFICES ASSUME told' # NoRefusal PROVE RefusalStands'
  BY DEF RefusalStands
<1>1. told'.by = "redis" /\ told'.until > second /\ told'.until = (w + 1) * Window
  OBVIOUS
<1>2. w + 1 \in Nat /\ told'.until \in Nat /\ second \in Nat
  BY WindowsAreNat DEF LimitTyped
<1>3. ASSUME NEW r \in Asks PROVE ask'[r].began < told'.until
  <2>1. ask'[r].began <= second /\ ask'[r].began \in Nat
    <3>1. ask'[r] \in AskStates /\ ask'[r].began <= second'
      BY DEF GoesOn, LimitTyped
    <3>2. ask'[r].began \in 0 .. LastSecond
      BY <3>1 DEF AskStates
    <3> QED BY <3>1, <3>2
  <2> QED BY <2>1, <1>1, <1>2
<1>4. told'.by # Nobody /\ told'.by \notin Processes
  BY <1>1, Constants DEF Nobody
<1>5. \E k \in Nat : told'.until = k * Window
  BY <1>1, <1>2
<1> QED BY <1>1, <1>3, <1>4, <1>5 DEF RefusalStands

LEMMA NextRefusal ==
    ASSUME LimitTyped, LimitTyped', \A r \in Asks : GoesOn(r), \A r \in Asks : GoesOn(r)',
           [RateLimitNext]_limitVars, RefusalStands
    PROVE  RefusalStands'
<1>1. CASE UNCHANGED limitVars
  BY <1>1, RefusalKept DEF limitVars
<1>2. CASE NextSecond
  BY <1>2, SecondFacts, RefusalKept
<1>3. ASSUME NEW r \in Asks, NEW p \in Processes, Begin(r, p) PROVE RefusalStands'
  BY <1>3 DEF Begin, RefusalStands
<1>4. ASSUME NEW r \in Asks, Incr(r) PROVE RefusalStands'
  <2>1. PICK w : w = WindowOf(ask[r].began)
    OBVIOUS
  <2>2. /\ w \in Windows /\ UNCHANGED <<second, hits>> /\ ask[r].at = "incr"
        /\ \A s \in Asks \ {r} : ask'[s] = ask[s] /\ ask'[r].began = ask[r].began
        /\ ask'[r].began = ask[r].began
        /\ \/ told' = told
           \/ told' = NoRefusal
           \/ told'.by = "redis" /\ told'.until > second /\ told'.until = (w + 1) * Window
    BY <1>4, <2>1, IncrFacts
  <2>3. CASE told' = told
    BY <2>2, <2>3, RefusalKept
  <2>4. CASE told' # told
    BY <2>2, <2>4, RefusedByRedis
  <2> QED BY <2>3, <2>4
<1>5. ASSUME NEW r \in Asks, Expire(r) PROVE RefusalStands'
  <2>1. PICK w : w = WindowOf(ask[r].began)
    OBVIOUS
  <2>2. /\ w \in Windows /\ UNCHANGED second
        /\ \/ told' = NoRefusal
           \/ told'.by = "redis" /\ told'.until > second /\ told'.until = (w + 1) * Window
    BY <1>5, <2>1, ExpireFacts
  <2> QED BY <2>2, RefusedByRedis
<1>6. ASSUME NEW r \in Asks, Fail(r) PROVE RefusalStands'
  <2>1. /\ UNCHANGED <<hits, told>> /\ ask[r].at \in {"incr", "expire"}
        /\ \A s \in Asks \ {r} : ask'[s] = ask[s]
        /\ ask'[r].began = ask[r].began
    BY <1>6, FailFacts
  <2> QED BY <2>1, RefusalKept
<1>7. ASSUME NEW r \in Asks, CheckLog(r) PROVE RefusalStands'
  <2>1. PICK p : p = ask[r].process
    OBVIOUS
  <2>2. /\ p \in Processes /\ Recent(p) \in Seq(Nat)
        /\ hits'[p] = IF Len(Recent(p)) >= Quota THEN Recent(p) ELSE Append(Recent(p), second)
        /\ \/ told' = NoRefusal
           \/ /\ told'.by = p /\ Len(Recent(p)) >= Quota
              /\ told'.until = Recent(p)[1] + Window + 1
    BY <1>7, <2>1, CheckLogFacts
  <2>3. CASE told' = NoRefusal
    BY <2>3 DEF RefusalStands
  <2>4. CASE told' # NoRefusal
    <3>1. /\ told'.by = p /\ Len(Recent(p)) >= Quota /\ hits'[p] = Recent(p)
          /\ told'.until = hits'[p][1] + Window + 1
      BY <2>2, <2>4
    <3>2. p # Nobody /\ p # "redis"
      BY <2>2, Constants
    <3>3. hits'[p] # <<>>
      <4>1. Len(Recent(p)) # 0
        BY <3>1, Constants
      <4> QED BY <3>1, <4>1, <2>2, EmptySeq
    <3> QED BY <3>1, <3>2, <3>3 DEF RefusalStands
  <2> QED BY <2>3, <2>4
<1> QED BY <1>1, <1>2, <1>3, <1>4, <1>5, <1>6, <1>7 DEF RateLimitNext

LEMMA NextLimit == LimitInv /\ [RateLimitNext]_limitVars => LimitInv'
<1> SUFFICES ASSUME LimitInv, [RateLimitNext]_limitVars PROVE LimitInv'
  OBVIOUS
<1>1. LimitTyped /\ \A r \in Asks : GoesOn(r)
  BY DEF LimitInv
<1>2. LimitTyped' /\ \A r \in Asks : GoesOn(r)'
  BY <1>1, NextLimitTyped
<1>3. \A w \in Windows : KeyCounts(w)'
  BY <1>1, <1>2, NextKeys DEF LimitInv
<1>4. \A p \in Processes : LogCounts(p)'
  BY <1>1, <1>2, NextLogs DEF LimitInv
<1>5. RefusalStands'
  BY <1>1, <1>2, NextRefusal DEF LimitInv
<1> QED BY <1>2, <1>3, <1>4, <1>5 DEF LimitInv

LEMMA BudgetHolds ==
    ASSUME LimitInv
    PROVE  Budget
<1> SUFFICES ASSUME NEW t \in 0 .. LastSecond
             PROVE  LET used  == {WindowOf(ask[r].began) :
                                     r \in {s \in Admitted(t) : ask[s].by = "redis"}}
                        alone == {ask[r].by : r \in Admitted(t)} \cap Processes
                    IN  Cardinality({r \in Admitted(t) : ~Late(r)})
                            <= Quota * (Cardinality(used) + Cardinality(alone))
  BY DEF Budget
<1> DEFINE used  == {WindowOf(ask[r].began) : r \in {s \in Admitted(t) : ask[s].by = "redis"}}
           alone == {ask[r].by : r \in Admitted(t)} \cap Processes
           byKey == {r \in Admitted(t) : ask[r].by = "redis" /\ ~Late(r)}
           byLog == {r \in Admitted(t) : ask[r].by \in Processes}
           onTime == {r \in Admitted(t) : ~Late(r)}
<1>1. LimitTyped /\ (\A r \in Asks : GoesOn(r)) /\ t \in Nat
  BY Constants DEF LimitInv
<1>2. Admitted(t) \in SUBSET Asks /\ IsFiniteSet(Admitted(t))
  <2>1. Admitted(t) \subseteq Asks
    BY DEF Admitted
  <2> QED BY <2>1, AsksFinite
<1>3. /\ byKey \in SUBSET Asks /\ byLog \in SUBSET Asks /\ onTime \in SUBSET Asks
      /\ byKey \in SUBSET Nat /\ byLog \in SUBSET Nat
      /\ IsFiniteSet(byKey) /\ IsFiniteSet(byLog) /\ IsFiniteSet(onTime)
      /\ Cardinality(byKey) \in Nat /\ Cardinality(byLog) \in Nat /\ Cardinality(onTime) \in Nat
  <2>1. byKey \in SUBSET Asks /\ byLog \in SUBSET Asks /\ onTime \in SUBSET Asks
    BY <1>2
  <2> HIDE DEF byKey, byLog, onTime
  <2> QED BY <2>1, AsksFinite
<1>4. IsFiniteSet(used) /\ IsFiniteSet(alone)
  <2> DEFINE S == {s \in Admitted(t) : ask[s].by = "redis"}
             A == Admitted(t)
             T == {ask[r].by : r \in A}
             f == [r \in S |-> WindowOf(ask[r].began)]
             g == [r \in A |-> ask[r].by]
  <2>1. IsFiniteSet(S)
    BY <1>2, FS_Subset
  <2>2. f \in Surjection(S, used)
    BY DEF Surjection
  <2>3. IsFiniteSet(used)
    <3> HIDE DEF f, S, used
    <3> QED BY <2>1, <2>2, FS_Surjection
  <2>4. g \in Surjection(A, T)
    <3> HIDE DEF A
    <3> QED BY DEF Surjection
  <2>5. IsFiniteSet(T)
    <3>1. IsFiniteSet(A)
      BY <1>2
    <3> HIDE DEF g, A, T
    <3> QED BY <2>4, <3>1, FS_Surjection
  <2>6. alone = T \cap Processes
    OBVIOUS
  <2> HIDE DEF T
  <2> QED BY <2>3, <2>5, <2>6, FS_Intersection
<1>5. onTime \subseteq byKey \cup byLog
  <2>1. ASSUME NEW r \in onTime PROVE r \in byKey \cup byLog
    <3>1. r \in Asks /\ r \in Admitted(t) /\ ask[r].allowed /\ ~Late(r)
      BY DEF Admitted
    <3>2. ask[r].at = "done" /\ ask[r].by # Nobody /\ ask[r] \in AskStates
      BY <1>1, <3>1 DEF GoesOn, LimitTyped
    <3>3. ask[r].by \in Processes \cup {"redis"}
      BY <3>2 DEF AskStates
    <3> QED BY <3>1, <3>3
  <2> QED BY <2>1
<1>6. Cardinality(byKey) <= Quota * Cardinality(used)
  <2> DEFINE f == [r \in byKey |-> WindowOf(ask[r].began)]
  <2>1. f \in [byKey -> used]
    OBVIOUS
  <2>2. ASSUME NEW w \in used PROVE Cardinality({s \in byKey : f[s] = w}) <= Quota
    <3>1. w \in Windows
      <4>1. PICK r \in Asks : w = WindowOf(ask[r].began)
        BY <1>2
      <4> QED BY <4>1, <1>1, AskTypes
    <3>2. {s \in byKey : f[s] = w} \subseteq Counted(w)
      BY DEF Counted, Admitted, Late
    <3>3. Counted(w) \in SUBSET Asks /\ Cardinality(Counted(w)) <= Quota
      BY <3>1, CountedAsks DEF LimitInv, KeyCounts
    <3> DEFINE S == {s \in byKey : f[s] = w}
    <3>4. S \subseteq Counted(w)
      BY <3>2
    <3> HIDE DEF S
    <3>5. Cardinality(S) <= Cardinality(Counted(w)) /\ Cardinality(S) \in Nat
          /\ Cardinality(Counted(w)) \in Nat
      BY <3>3, <3>4, FewerAsks, AsksFinite
    <3>6. Cardinality(S) <= Quota
      BY <3>3, <3>5, Constants
    <3> QED BY <3>6 DEF S
  <2>3. Quota \in Nat
    BY Constants
  <2> HIDE DEF f, byKey, used
  <2> QED BY <2>1, <2>2, <2>3, <1>3, <1>4, Classes
<1>7. Cardinality(byLog) <= Quota * Cardinality(alone)
  <2> DEFINE f == [r \in byLog |-> ask[r].by]
  <2>1. f \in [byLog -> alone]
    OBVIOUS
  <2>2. ASSUME NEW p \in alone PROVE Cardinality({s \in byLog : f[s] = p}) <= Quota
    <3> DEFINE S == {s \in byLog : f[s] = p}
               T == {s \in Admitted(t) : ask[s].by = p}
    <3>1. S \subseteq T /\ T \in SUBSET Asks
      BY <1>2
    <3>2. Cardinality(T) <= Quota
      BY <1>1 DEF LimitInv, LogCounts
    <3> HIDE DEF S, T
    <3>3. Cardinality(S) <= Cardinality(T) /\ Cardinality(S) \in Nat /\ Cardinality(T) \in Nat
      BY <3>1, FewerAsks, AsksFinite
    <3>4. Cardinality(S) <= Quota
      BY <3>2, <3>3, Constants
    <3> QED BY <3>4 DEF S
  <2>3. Quota \in Nat
    BY Constants
  <2> HIDE DEF f, byLog, alone
  <2> QED BY <2>1, <2>2, <2>3, <1>3, <1>4, Classes
<1> HIDE DEF used, alone, byKey, byLog, onTime
<1>8. Cardinality(onTime) <= Cardinality(byKey) + Cardinality(byLog)
  <2>1. /\ IsFiniteSet(byKey \cup byLog)
        /\ Cardinality(byKey \cup byLog)
              = Cardinality(byKey) + Cardinality(byLog) - Cardinality(byKey \cap byLog)
    BY <1>3, FS_Union
  <2>2. Cardinality(byKey \cap byLog) \in Nat
    BY <1>3, FS_Intersection, FS_CardinalityType
  <2>3. Cardinality(onTime) <= Cardinality(byKey \cup byLog)
    BY <1>5, <2>1, FS_Subset
  <2> QED BY <1>3, <2>1, <2>2, <2>3
<1>9. Cardinality(onTime) <= Quota * (Cardinality(used) + Cardinality(alone))
  <2>1. PICK a \in Nat, b \in Nat : a = Cardinality(used) /\ b = Cardinality(alone)
    BY <1>4, FS_CardinalityType
  <2>2. Quota \in Nat /\ Quota * a \in Nat /\ Quota * b \in Nat
    BY Constants
  <2>3. Quota * (a + b) = Quota * a + Quota * b
    BY <2>2
  <2>4. Cardinality(onTime) <= Quota * a + Quota * b
    BY <1>3, <1>6, <1>7, <1>8, <2>1, <2>2
  <2> QED BY <2>1, <2>3, <2>4
<1> QED BY <1>9 DEF used, alone, onTime

LEMMA RetryAfterHolds ==
    ASSUME LimitInv
    PROVE  RetryAfterKept
<1> SUFFICES ASSUME told # NoRefusal, second >= told.until
             PROVE  IF told.by = "redis" THEN counter[WindowOf(second)] < Quota
                                         ELSE Len(Recent(told.by)) < Quota
  BY DEF RetryAfterKept
<1>1. LimitTyped /\ RefusalStands /\ second \in Nat /\ second \in 0 .. LastSecond
      /\ Window \in Nat /\ Window >= 1 /\ Quota \in Nat /\ Quota >= 1 /\ told.until \in Nat
  BY Constants DEF LimitInv, LimitTyped
<1>2. CASE told.by = "redis"
  <2>1. PICK k \in Nat : told.until = k * Window
    BY <1>1, <1>2 DEF RefusalStands
  <2>2. PICK w : w = WindowOf(second)
    OBVIOUS
  <2>3. w \in Windows /\ w \in Nat /\ second < (w + 1) * Window /\ counter[w] \in Nat
    BY <1>1, <2>2, WindowsKnown, WindowFacts DEF LimitTyped
  <2>4. ~(counter[w] > 0)
    <3> SUFFICES ASSUME counter[w] > 0 PROVE FALSE
      OBVIOUS
    <3>1. PICK r \in Asks : ask[r].at # "new" /\ WindowOf(ask[r].began) = w
      BY <2>3 DEF LimitInv, KeyCounts
    <3>2. ask[r].began < told.until /\ ask[r].began \in Nat
      BY <1>1, <1>2, <3>1, AskTypes DEF RefusalStands
    <3>3. w * Window <= ask[r].began
      BY <3>1, <3>2, WindowFacts
    <3>4. w < k
      <4> SUFFICES ASSUME k <= w PROVE FALSE
        BY <2>3
      <4>1. k * Window <= w * Window
        <5>1. CASE k = w
          BY <5>1, <1>1
        <5>2. CASE k < w
          <6>1. (k + 1) * Window <= w * Window
            BY <5>2, <2>3, WindowOrder
          <6>2. (k + 1) * Window = k * Window + Window /\ k * Window \in Nat /\ w * Window \in Nat
            BY <1>1, <2>3
          <6> QED BY <6>1, <6>2, <1>1
        <5> QED BY <5>1, <5>2, <2>3
      <4>2. k * Window \in Nat /\ w * Window \in Nat
        BY <1>1, <2>3
      <4> QED BY <4>1, <4>2, <3>2, <3>3, <2>1
    <3>5. (w + 1) * Window <= k * Window
      BY <2>3, <3>4, WindowOrder
    <3>6. (w + 1) * Window \in Nat /\ k * Window \in Nat
      BY <1>1, <2>3
    <3> QED BY <1>1, <2>1, <2>3, <3>5, <3>6
  <2>5. counter[w] < Quota
    BY <2>3, <2>4, <1>1
  <2> QED BY <1>2, <2>2, <2>5
<1>3. CASE told.by # "redis"
  <2>1. PICK p : p = told.by
    OBVIOUS
  <2>2. p \in Processes
    BY <1>1, <1>3, <2>1 DEF RefusalStands, LimitTyped
  <2>3. hits[p] # <<>> /\ told.until = hits[p][1] + Window + 1
    BY <1>1, <2>1, <2>2 DEF RefusalStands
  <2>4. /\ hits[p] \in Seq(Nat) /\ Len(hits[p]) \in Nat
        /\ \A i \in 1 .. Len(hits[p]) : hits[p][i] \in Nat
    BY <1>1, <2>2, LogTypes
  <2>5. Len(hits[p]) <= Quota
    BY <2>2 DEF LimitInv, LogCounts
  <2>6. Len(hits[p]) > 0 /\ hits[p][1] \in Nat
    <3>1. Len(hits[p]) # 0
      BY <2>3, <2>4, EmptySeq
    <3>2. Len(hits[p]) > 0 /\ 1 \in 1 .. Len(hits[p])
      BY <3>1, <2>4
    <3> QED BY <3>2, <2>4
  <2>7. PICK k \in 0 .. Len(hits[p]) :
              /\ Len(Recent(p)) = Len(hits[p]) - k
              /\ k < Len(hits[p]) => hits[p][k + 1] > second - Window
    BY <1>1, <2>2, RecentFacts
  <2>8. k # 0
    <3> SUFFICES ASSUME k = 0 PROVE FALSE
      OBVIOUS
    <3>1. hits[p][1] > second - Window
      BY <2>6, <2>7
    <3> QED BY <3>1, <2>3, <2>6, <1>1
  <2>9. Len(Recent(p)) < Quota
    BY <2>4, <2>5, <2>7, <2>8, <1>1
  <2> QED BY <1>3, <2>1, <2>9
<1> QED BY <1>2, <1>3

\* For any quota and window, any number of processes and requests, and however Redis comes and
\* goes (api/rate_limit.py): a client gets one quota for each key it was counted on and one for
\* each process that decided alone, and who waits as long as a refusal says is let through.
THEOREM LimitHolds == RateLimitSpec => []LimiterHonest
<1>1. LimitInv => LimiterHonest
  BY BudgetHolds, RetryAfterHolds DEF LimiterHonest
<1> QED BY LimitInit, NextLimit, <1>1, PTL DEF RateLimitSpec

--------------------------------------------------------------------------------
(* Feed files and backups *)

\* A feed that every reader accepts
Good(e) == e.whole /\ e.signer = keys.public /\ e.key = keys.public

\* A job at work has feeds to go; with a feed in its hands it has paths to go, and the feed
\* is good.
JobStates == [at : {"idle", "build", "open", "write", "replace"}, feeds : Seq(Range(Feeds)),
              paths : Seq(Paths), feed : Envelopes]
Sound(job) ==
    /\ job \in JobStates
    /\ job.at # "idle" => job.feeds # <<>>
    /\ job.at \in {"open", "write", "replace"} => job.paths # <<>> /\ Good(job.feed)

Temporary == [by : Writers, path : Paths, whole : BOOLEAN, left : BOOLEAN]
TempsOwned ==
    /\ temps \subseteq Temporary
    /\ \A t \in temps : ~t.left => /\ writer[t.by].at \in {"write", "replace"}
                                   /\ t.path = Head(writer[t.by].paths)

PathsInv ==
    /\ keys \in [private : Keys, public : Keys] /\ version \in 1 .. MaxVersions
    /\ files \in [Paths -> Envelopes]
    /\ \A p \in Paths : files[p] = Nothing \/ Good(files[p])
    /\ writer \in [Writers -> JobStates] /\ \A w \in Writers : Sound(writer[w])
    /\ TempsOwned

\* Of the artifacts s, n have been begun since the latest whole one: it is where they leave it,
\* and it is there while fewer than Keep are.
WholeOne(s, n) ==
    /\ n >= 0 /\ n < Len(s) => s[Len(s) - n] = TRUE
    /\ n \in 0 .. Keep - 1 => n < Len(s)

\* A dump has begun its artifact, which does not count yet when it is removed.
ArchivesInv ==
    /\ archives \in [Kinds -> Seq(BOOLEAN)] /\ wasted \in [Kinds -> Int]
    /\ \A k \in Kinds : WholeOne(archives[k], wasted[k])
    /\ backup.at = "dump" =>
           /\ archives["db"] # <<>> /\ wasted["db"] # 0
           /\ wasted["db"] - 1 \in 0 .. Keep - 1 => wasted["db"] < Len(archives["db"])
    /\ backup.at = "add" => archives["feeds"] # <<>>

FilesInv == PathsInv /\ ArchivesInv

--------------------------------------------------------------------------------
(* The files *)

LEMMA FileConstants ==
    /\ Feeds \in Seq(Range(Feeds)) /\ Feeds # <<>> /\ Keep \in Nat /\ MaxVersions \in Nat \ {0}
BY FeedFilesAssumption

LEMMA Hands ==
    /\ Idle \in JobStates /\ Idle.at = "idle" /\ Idle.feeds = <<>>
    /\ Nothing \in Envelopes
<1>1. Nothing \in Envelopes
  BY FileConstants DEF Nothing, Envelopes
<1>2. <<>> \in Seq(Range(Feeds)) /\ <<>> \in Seq(Paths)
  BY EmptySeq
<1> QED BY <1>1, <1>2 DEF Idle, JobStates

LEMMA TargetPaths ==
    ASSUME NEW f \in Range(Feeds)
    PROVE  Targets(f) \in Seq(Paths) /\ Targets(f) # <<>>
<1>1. <<f, "channel">> \in Paths /\ <<f, "alias">> \in Paths
  BY DEF Paths
<1> QED BY <1>1 DEF Targets

LEMMA HeadTail ==
    ASSUME NEW S, NEW s \in Seq(S), s # <<>>
    PROVE  /\ Head(s) \in S /\ Tail(s) \in Seq(S) /\ Len(s) \in Nat
           /\ Len(s) > 1 => Tail(s) # <<>>
<1>1. /\ Head(s) \in S /\ Tail(s) \in Seq(S) /\ Len(Tail(s)) = Len(s) - 1 /\ Len(s) \in Nat
  BY HeadTailProperties, LenProperties
<1>2. Len(s) > 1 => Len(Tail(s)) # 0
  BY <1>1
<1>3. Len(<<>>) = 0
  OBVIOUS
<1> QED BY <1>1, <1>2, <1>3, Zenon

LEMMA SoundIdle == Sound(Idle)
BY Hands DEF Sound

\* What a process has not left behind is for the path it is at.
LEMMA OwnedTemps ==
    ASSUME TempsOwned, NEW w \in Writers
    PROVE  OwnTemps(w) = {t \in temps : t.by = w /\ ~t.left}
BY DEF TempsOwned, OwnTemps, Temporary

LEMMA PathsStay == PathsInv /\ UNCHANGED <<keys, version, files, writer, temps>> => PathsInv'
BY DEF PathsInv, TempsOwned, Sound, Good

\* A job that moves on accounts for its own temporary files only.
LEMMA JobMoves ==
    ASSUME PathsInv, NEW w \in Writers, NEW job, Sound(job), UNCHANGED <<keys, version>>,
           writer' = [writer EXCEPT ![w] = job],
           files' \in [Paths -> Envelopes],
           \A p \in Paths : files'[p] = Nothing \/ Good(files'[p]),
           temps' \subseteq Temporary,
           \A t \in temps' : t.by # w /\ ~t.left => t \in temps,
           \A t \in temps' : t.by = w /\ ~t.left =>
               job.at \in {"write", "replace"} /\ t.path = Head(job.paths)
    PROVE  PathsInv'
<1>1. \A e : Good(e) => Good(e)'
  BY DEF Good
<1>2. \A v \in Writers : writer'[v] = IF v = w THEN job ELSE writer[v]
  BY DEF PathsInv
<1>3. \A v \in Writers : Sound(writer'[v])
  BY <1>2 DEF PathsInv
<1>4. \A v \in Writers : Sound(writer[v])'
  BY <1>3 DEF Sound, Good
<1>5. writer' \in [Writers -> JobStates]
  BY DEF PathsInv, Sound
<1>6. TempsOwned'
  <2>1. ASSUME NEW t \in temps', ~t.left
        PROVE  writer'[t.by].at \in {"write", "replace"} /\ t.path = Head(writer'[t.by].paths)
    <3>1. t.by \in Writers
      BY <2>1 DEF Temporary
    <3>2. CASE t.by = w
      BY <1>2, <2>1, <3>1, <3>2
    <3>3. CASE t.by # w
      BY <1>2, <2>1, <3>1, <3>3 DEF PathsInv, TempsOwned
    <3> QED BY <3>2, <3>3
  <2> QED BY <2>1 DEF TempsOwned
<1>7. \A p \in Paths : (files[p] = Nothing \/ Good(files[p]))'
  BY DEF Good, Nothing
<1> QED BY <1>4, <1>5, <1>6, <1>7 DEF PathsInv

LEMMA FilesStart == FeedFilesInit => PathsInv
<1> SUFFICES ASSUME FeedFilesInit PROVE PathsInv
  OBVIOUS
<1>1. version \in 1 .. MaxVersions
  BY FileConstants DEF FeedFilesInit
<1>2. files \in [Paths -> Envelopes] /\ (\A p \in Paths : files[p] = Nothing)
  BY Hands DEF FeedFilesInit
<1>3. writer \in [Writers -> JobStates] /\ (\A w \in Writers : Sound(writer[w]))
  BY Hands, SoundIdle DEF FeedFilesInit
<1>4. TempsOwned
  BY DEF FeedFilesInit, TempsOwned
<1> QED BY <1>1, <1>2, <1>3, <1>4 DEF FeedFilesInit, PathsInv

LEMMA StartJobPaths == ASSUME PathsInv, NEW w \in Writers, StartJob(w) PROVE PathsInv'
<1>1. PICK job : job = [Idle EXCEPT !.at = "build", !.feeds = Feeds]
  OBVIOUS
<1>2. writer' = [writer EXCEPT ![w] = job] /\ UNCHANGED <<keys, version, files, temps>>
  BY <1>1 DEF StartJob, feedFrame
<1>3. Sound(job)
  BY <1>1, Hands, FileConstants DEF Sound, JobStates
<1>4. \A t \in temps : t.by = w => t.left
  BY DEF StartJob, PathsInv, TempsOwned
<1> QED BY <1>2, <1>3, <1>4, JobMoves DEF PathsInv, TempsOwned

LEMMA SignedFeed ==
    ASSUME NEW v \in 1 .. MaxVersions, NEW k \in Keys, NEW s \in Keys
    PROVE  /\ Signed(Unsigned(v, k), s) \in Envelopes
           /\ Signed(Unsigned(v, k), s).whole
           /\ Signed(Unsigned(v, k), s).key = k /\ Signed(Unsigned(v, k), s).signer = s
<1>1. ASSUME NEW b \in BOOLEAN
      PROVE  [[version |-> v, key |-> k, signer |-> 0, whole |-> b] EXCEPT !.signer = s] \in Envelopes
  BY DEF Envelopes
<1>2. TRUE \in BOOLEAN
  OBVIOUS
<1>3. Signed(Unsigned(v, k), s) \in Envelopes
  BY <1>1, <1>2, Zenon DEF Signed, Unsigned
<1>4. Signed(Unsigned(v, k), s).whole
  BY DEF Signed, Unsigned
<1>5. Signed(Unsigned(v, k), s).key = k
  BY DEF Signed, Unsigned
<1>6. Signed(Unsigned(v, k), s).signer = s
  BY DEF Signed, Unsigned
<1> QED BY <1>3, <1>4, <1>5, <1>6

LEMMA BuildPaths == ASSUME PathsInv, NEW w \in Writers, Build(w) PROVE PathsInv'
<1> DEFINE signed == Signed(Unsigned(version, keys.public), keys.private)
           targets == Targets(Head(writer[w].feeds))
           next == IF Verifies(signed, keys.public)
                   THEN [writer[w] EXCEPT !.at = "open", !.feed = signed, !.paths = targets]
                   ELSE Idle
<1>1. PICK job : job = next
  OBVIOUS
<1>2. writer' = [writer EXCEPT ![w] = next] /\ UNCHANGED <<keys, version, files, temps>>
  BY DEF Build, feedFrame, PathsInv
<1>3. Sound(job)
  <2>1. CASE ~Verifies(signed, keys.public)
    BY <1>1, <2>1, SoundIdle
  <2>2. CASE Verifies(signed, keys.public)
    <3>1. version \in 1 .. MaxVersions /\ keys.public \in Keys /\ keys.private \in Keys
      BY DEF PathsInv
    <3>2. signed \in Envelopes /\ signed.whole /\ signed.key = keys.public
      BY <3>1, SignedFeed
    <3>3. Good(signed)
      BY <2>2, <3>2 DEF Good, Verifies
    <3>4. writer[w] \in JobStates /\ writer[w].feeds # <<>> /\ writer[w].feeds \in Seq(Range(Feeds))
      BY DEF PathsInv, Sound, Build, JobStates
    <3>5. targets \in Seq(Paths) /\ targets # <<>>
      BY <3>4, HeadTail, TargetPaths
    <3> HIDE DEF signed, targets
    <3>6. job = [at |-> "open", feeds |-> writer[w].feeds, paths |-> targets, feed |-> signed]
      BY <1>1, <2>2, <3>4 DEF JobStates
    <3> QED BY <3>2, <3>3, <3>4, <3>5, <3>6 DEF Sound, JobStates
  <2> QED BY <2>1, <2>2
<1>4. \A t \in temps : t.by = w => t.left
  BY DEF Build, PathsInv, TempsOwned
<1> HIDE DEF next
<1> QED BY <1>1, <1>2, <1>3, <1>4, JobMoves DEF PathsInv, TempsOwned

LEMMA OpenTempPaths == ASSUME PathsInv, NEW w \in Writers, OpenTemp(w) PROVE PathsInv'
<1>1. PICK job : job = [writer[w] EXCEPT !.at = "write"]
  OBVIOUS
<1>2. writer' = [writer EXCEPT ![w] = job] /\ UNCHANGED <<keys, version, files>>
  BY <1>1 DEF OpenTemp, feedFrame, PathsInv
<1>3. /\ Sound(job) /\ job.at = "write" /\ job.paths = writer[w].paths
      /\ job.paths # <<>> /\ job.paths \in Seq(Paths)
  BY <1>1 DEF OpenTemp, PathsInv, Sound, JobStates
<1>4. PICK t : t = [by |-> w, path |-> Head(writer[w].paths), whole |-> FALSE, left |-> FALSE]
  OBVIOUS
<1>5. temps' = temps \cup {t}
  BY <1>4 DEF OpenTemp
<1>6. t \in Temporary /\ t.by = w /\ t.path = Head(job.paths)
  BY <1>3, <1>4, HeadTail DEF Temporary
<1>7. \A u \in temps : u.by = w => u.left
  BY DEF OpenTemp, PathsInv, TempsOwned
<1>8. temps' \subseteq Temporary
  BY <1>5, <1>6 DEF PathsInv, TempsOwned
<1>9. ASSUME NEW u \in temps', ~u.left
      PROVE  (u.by # w => u \in temps) /\ (u.by = w => u.path = Head(job.paths))
  BY <1>5, <1>6, <1>7, <1>9
<1>10. files' \in [Paths -> Envelopes] /\ (\A p \in Paths : files'[p] = Nothing \/ Good(files'[p]))
  BY <1>2 DEF PathsInv
<1> QED BY <1>2, <1>3, <1>8, <1>9, <1>10, JobMoves

LEMMA WriteTempPaths == ASSUME PathsInv, NEW w \in Writers, WriteTemp(w) PROVE PathsInv'
<1>1. PICK job : job = [writer[w] EXCEPT !.at = "replace"]
  OBVIOUS
<1>2. writer' = [writer EXCEPT ![w] = job] /\ UNCHANGED <<keys, version, files>>
  BY <1>1 DEF WriteTemp, feedFrame, PathsInv
<1>3. Sound(job) /\ job.at = "replace" /\ job.paths = writer[w].paths
  BY <1>1 DEF WriteTemp, PathsInv, Sound, JobStates
<1>4. \A t \in OwnTemps(w) : /\ t \in Temporary /\ t.by = w /\ ~t.left
                             /\ t.path = Head(writer[w].paths)
  BY DEF OwnTemps, PathsInv, TempsOwned
<1>5. \A t \in Temporary : LET u == [t EXCEPT !.whole = TRUE]
                           IN  /\ u \in Temporary /\ u.by = t.by /\ u.left = t.left
                               /\ u.path = t.path
  BY DEF Temporary
<1>6. OwnTemps(w) = {t \in temps : t.by = w /\ ~t.left}
  BY OwnedTemps DEF PathsInv
<1>7. ASSUME NEW u \in temps'
      PROVE  /\ u \in Temporary /\ (u.by # w /\ ~u.left => u \in temps)
             /\ u.by = w /\ ~u.left => u.path = Head(job.paths)
  <2>1. CASE u \in temps \ OwnTemps(w)
    BY <1>6, <2>1 DEF PathsInv, TempsOwned
  <2>2. CASE \E t \in OwnTemps(w) : u = [t EXCEPT !.whole = TRUE]
    BY <1>3, <1>4, <1>5, <2>2
  <2> QED BY <2>1, <2>2 DEF WriteTemp
<1>8. UNCHANGED <<keys, version>> /\ files' = files
  BY <1>2
<1>9. files' \in [Paths -> Envelopes] /\ (\A p \in Paths : files'[p] = Nothing \/ Good(files'[p]))
  BY <1>8 DEF PathsInv
<1>10. temps' \subseteq Temporary
  BY <1>7
<1> QED BY <1>2, <1>3, <1>7, <1>9, <1>10, JobMoves

LEMMA AfterSound ==
    ASSUME NEW job, Sound(job), job.at = "replace"
    PROVE  Sound(After(job))
<1>1. /\ job \in JobStates /\ job.paths \in Seq(Paths) /\ job.feeds \in Seq(Range(Feeds))
      /\ job.paths # <<>> /\ job.feeds # <<>> /\ Good(job.feed)
  BY DEF Sound, JobStates
<1>2. CASE Len(job.paths) > 1
  <2>1. After(job) = [job EXCEPT !.at = "open", !.paths = Tail(@)]
    BY <1>2 DEF After
  <2>2. Tail(job.paths) \in Seq(Paths) /\ Tail(job.paths) # <<>>
    BY <1>1, <1>2, HeadTail
  <2> QED BY <1>1, <2>1, <2>2 DEF Sound, JobStates
<1>3. CASE Len(job.paths) <= 1 /\ Len(job.feeds) > 1
  <2>1. After(job) = [Idle EXCEPT !.at = "build", !.feeds = Tail(job.feeds)]
    <3>1. Len(job.paths) \in Nat
      BY <1>1, HeadTail
    <3> QED BY <1>3, <3>1 DEF After
  <2>2. Tail(job.feeds) \in Seq(Range(Feeds)) /\ Tail(job.feeds) # <<>>
    BY <1>1, <1>3, HeadTail
  <2> QED BY <2>1, <2>2, Hands DEF Sound, JobStates
<1>4. CASE ~(Len(job.paths) > 1) /\ ~(Len(job.feeds) > 1)
  BY <1>4, SoundIdle DEF After
<1>5. Len(job.paths) \in Nat
  BY <1>1, HeadTail
<1> QED BY <1>2, <1>3, <1>4, <1>5

LEMMA ReplacePaths == ASSUME PathsInv, NEW w \in Writers, Replace(w) PROVE PathsInv'
<1>1. PICK job : job = After(writer[w])
  OBVIOUS
<1>2. writer' = [writer EXCEPT ![w] = job] /\ UNCHANGED <<keys, version>>
  BY <1>1 DEF Replace, feedFrame, PathsInv
<1>3. Sound(writer[w]) /\ writer[w].at = "replace"
  BY DEF Replace, PathsInv
<1>4. Sound(job)
  BY <1>1, <1>3, AfterSound
<1>5. writer[w].feed \in Envelopes /\ Good(writer[w].feed)
  BY <1>3 DEF Sound, JobStates
<1>6. /\ files' \in [Paths -> Envelopes]
      /\ \A p \in Paths : files'[p] = Nothing \/ Good(files'[p])
  BY <1>5 DEF Replace, PathsInv
<1>7. temps' = {t \in temps : t.by # w \/ t.left}
  BY OwnedTemps DEF Replace, PathsInv
<1> QED BY <1>2, <1>4, <1>6, <1>7, JobMoves DEF PathsInv, TempsOwned

LEMMA FailJobPaths == ASSUME PathsInv, NEW w \in Writers, FailJob(w) PROVE PathsInv'
<1>1. PICK job : job = Idle
  OBVIOUS
<1>2. writer' = [writer EXCEPT ![w] = job] /\ UNCHANGED <<keys, version, files>>
  BY <1>1 DEF FailJob, feedFrame
<1>3. Sound(job)
  BY <1>1, SoundIdle
<1>4. temps' = {t \in temps : t.by # w \/ t.left}
  BY OwnedTemps DEF FailJob, PathsInv
<1> QED BY <1>2, <1>3, <1>4, JobMoves DEF PathsInv, TempsOwned

LEMMA KillJobPaths == ASSUME PathsInv, NEW w \in Writers, KillJob(w) PROVE PathsInv'
<1>1. PICK job : job = Idle
  OBVIOUS
<1>2. writer' = [writer EXCEPT ![w] = job] /\ UNCHANGED <<keys, version, files>>
  BY <1>1 DEF KillJob, feedFrame
<1>3. Sound(job)
  BY <1>1, SoundIdle
<1>4. \A t \in Temporary : LET u == [t EXCEPT !.left = TRUE] IN u \in Temporary /\ u.left
  BY DEF Temporary
<1>5. OwnTemps(w) = {t \in temps : t.by = w /\ ~t.left} /\ temps \subseteq Temporary
  BY OwnedTemps DEF PathsInv, TempsOwned
<1>6. ASSUME NEW u \in temps'
      PROVE  u \in Temporary /\ (~u.left => u \in temps /\ u.by # w)
  <2>1. CASE u \in temps \ OwnTemps(w)
    BY <1>5, <2>1
  <2>2. CASE \E t \in OwnTemps(w) : u = [t EXCEPT !.left = TRUE]
    BY <1>4, <1>5, <2>2
  <2> QED BY <2>1, <2>2 DEF KillJob
<1>7. temps' \subseteq Temporary
  BY <1>6
<1> QED BY <1>2, <1>3, <1>6, <1>7, JobMoves DEF PathsInv

--------------------------------------------------------------------------------
(* The backups *)

LEMMA CutOut ==
    ASSUME NEW S, NEW s \in Seq(S), NEW a \in Nat \ {0}, NEW b \in Nat, b <= Len(s), a <= b + 1,
           NEW t, t = SubSeq(s, a, b)
    PROVE  /\ t \in Seq(S) /\ Len(t) = b - a + 1
           /\ \A i \in 1 .. b - a + 1 : t[i] = s[a + i - 1]
<1>1. Len(s) \in Nat /\ a \in Int /\ b \in Int
  BY LenProperties
<1>2. \A i \in a .. b : s[i] \in S
  BY <1>1, ElementOfSeq
<1>3. /\ t \in Seq(S) /\ Len(t) = IF a <= b THEN b - a + 1 ELSE 0
      /\ \A i \in 1 .. b - a + 1 : t[i] = s[a + i - 1]
  BY <1>1, <1>2, SubSeqProperties
<1> QED BY <1>1, <1>3

LEMMA FrontPart ==
    ASSUME NEW S, NEW s \in Seq(S), s # <<>>, NEW f, f = Front(s)
    PROVE  /\ f \in Seq(S) /\ Len(f) = Len(s) - 1
           /\ \A i \in 1 .. Len(s) - 1 : f[i] = s[i]
<1>1. PICK n \in Nat : n + 1 = Len(s)
  BY EmptySeq
<1>2. 1 \in Nat \ {0} /\ n <= Len(s) /\ 1 <= n + 1 /\ f = SubSeq(s, 1, n)
  BY <1>1 DEF Front
<1>3. /\ f \in Seq(S) /\ Len(f) = n - 1 + 1
      /\ \A i \in 1 .. n - 1 + 1 : f[i] = s[1 + i - 1]
  BY <1>2, CutOut
<1> QED BY <1>1, <1>3

LEMMA BegunWhole ==
    ASSUME NEW s \in Seq(BOOLEAN), NEW n \in Int, WholeOne(s, n), NEW m, m = IF n < 0 THEN n ELSE n + 1
    PROVE  /\ Append(s, FALSE) \in Seq(BOOLEAN) /\ Append(s, FALSE) # <<>> /\ m \in Int
           /\ WholeOne(Append(s, FALSE), m)
           /\ m # 0 /\ (m - 1 \in 0 .. Keep - 1 => m < Len(Append(s, FALSE)))
<1>0. PICK t : t = Append(s, FALSE)
  OBVIOUS
<1>1. /\ t \in Seq(BOOLEAN) /\ t # <<>> /\ Len(t) = Len(s) + 1 /\ Len(s) \in Nat
      /\ \A i \in 1 .. Len(s) : t[i] = s[i]
  <2>1. t \in Seq(BOOLEAN)
    BY <1>0
  <2>2. Len(t) = Len(s) + 1 /\ Len(s) \in Nat
    BY <1>0
  <2>3. \A i \in 1 .. Len(s) : t[i] = s[i]
    BY <1>0
  <2>4. t # <<>>
    <3>1. Len(t) # 0 /\ Len(<<>>) = 0
      BY <2>2
    <3> QED BY <3>1, Zenon
  <2> QED BY <2>1, <2>2, <2>3, <2>4
<1>2. m \in Int /\ m # 0 /\ Keep \in Nat
  BY FileConstants
<1>3. m >= 0 /\ m < Len(t) => t[Len(t) - m] = TRUE
  <2> SUFFICES ASSUME m >= 0, m < Len(t) PROVE t[Len(t) - m] = TRUE
    OBVIOUS
  <2>1. n >= 0 /\ m = n + 1 /\ n < Len(s) /\ Len(t) - m = Len(s) - n /\ Len(s) - n \in 1 .. Len(s)
    BY <1>1, <1>2
  <2> QED BY <1>1, <2>1 DEF WholeOne
<1>4. (m \in 0 .. Keep - 1 => m < Len(t)) /\ (m - 1 \in 0 .. Keep - 1 => m < Len(t))
  BY <1>1, <1>2 DEF WholeOne
<1> QED BY <1>0, <1>1, <1>2, <1>3, <1>4 DEF WholeOne

LEMMA DoneWhole ==
    ASSUME NEW s \in Seq(BOOLEAN), s # <<>>
    PROVE  [s EXCEPT ![Len(s)] = TRUE] \in Seq(BOOLEAN) /\ WholeOne([s EXCEPT ![Len(s)] = TRUE], 0)
<1>1. Len(s) \in Nat \ {0}
  BY EmptySeq
<1>2. Len(s) \in 1 .. Len(s)
  BY <1>1
<1>3. TRUE \in BOOLEAN
  OBVIOUS
<1> DEFINE t == [s EXCEPT ![Len(s)] = TRUE]
<1>4. t \in Seq(BOOLEAN) /\ Len(t) = Len(s) /\ t[Len(s)] = TRUE
  BY <1>2, <1>3, ExceptSeq
<1> HIDE DEF t
<1>5. Len(t) - 0 = Len(s) /\ 0 < Len(t)
  BY <1>1, <1>4
<1>6. WholeOne(t, 0)
  BY <1>4, <1>5 DEF WholeOne
<1> QED BY <1>4, <1>6 DEF t

LEMMA DoneRow ==
    ASSUME NEW k \in Kinds, archives \in [Kinds -> Seq(BOOLEAN)]
    PROVE  Done(k) = [archives EXCEPT ![k] = [archives[k] EXCEPT ![Len(archives[k])] = TRUE]]
BY Zenon DEF Done

LEMMA RemovedWhole ==
    ASSUME NEW s \in Seq(BOOLEAN), NEW n \in Int, WholeOne(s, n), s # <<>>, n # 0,
           n - 1 \in 0 .. Keep - 1 => n < Len(s),
           NEW m, m = IF n < 0 THEN n ELSE n - 1
    PROVE  Front(s) \in Seq(BOOLEAN) /\ m \in Int /\ WholeOne(Front(s), m)
<1>1. Len(s) \in Nat \ {0} /\ Keep \in Nat
  BY EmptySeq, FileConstants
<1>2. PICK f : f = Front(s)
  OBVIOUS
<1>3. /\ f \in Seq(BOOLEAN) /\ Len(f) = Len(s) - 1
      /\ \A i \in 1 .. Len(s) - 1 : f[i] = s[i]
  BY <1>2, FrontPart
<1>5. m >= 0 /\ m < Len(f) => f[Len(f) - m] = TRUE
  <2> SUFFICES ASSUME m >= 0, m < Len(f) PROVE f[Len(f) - m] = TRUE
    OBVIOUS
  <2>1. n >= 1 /\ m = n - 1 /\ n < Len(s) /\ Len(f) - m = Len(s) - n /\ Len(s) - n \in 1 .. Len(s) - 1
    BY <1>1, <1>3
  <2>2. f[Len(s) - n] = s[Len(s) - n] /\ s[Len(s) - n] = TRUE
    BY <1>3, <2>1 DEF WholeOne
  <2> QED BY <2>1, <2>2
<1>6. m \in 0 .. Keep - 1 => m < Len(f)
  BY <1>1, <1>3
<1>7. m \in Int
  OBVIOUS
<1> QED BY <1>2, <1>3, <1>5, <1>6, <1>7 DEF WholeOne

LEMMA NewestWhole ==
    ASSUME NEW s \in Seq(BOOLEAN), NEW n \in Int, WholeOne(s, n)
    PROVE  Newest(s, Keep) \in Seq(BOOLEAN) /\ WholeOne(Newest(s, Keep), n)
<1>1. Len(s) \in Nat /\ Keep \in Nat
  BY LenProperties, FileConstants
<1>2. PICK d \in Nat : d = IF Len(s) > Keep THEN Len(s) - Keep ELSE 0
  BY <1>1
<1>4. PICK t : t = Newest(s, Keep)
  OBVIOUS
<1>5. t = SubSeq(s, d + 1, Len(s))
  BY <1>2, <1>4 DEF Newest
<1>6. d + 1 \in Nat \ {0} /\ d <= Len(s) /\ d + 1 <= Len(s) + 1 /\ Len(s) <= Len(s)
  BY <1>1, <1>2
<1>7. /\ t \in Seq(BOOLEAN) /\ Len(t) = Len(s) - (d + 1) + 1
      /\ \A i \in 1 .. Len(s) - (d + 1) + 1 : t[i] = s[(d + 1) + i - 1]
  BY <1>1, <1>5, <1>6, CutOut
<1>8. Len(t) = Len(s) - d /\ (\A i \in 1 .. Len(s) - d : t[i] = s[d + i])
  <2>1. Len(s) - (d + 1) + 1 = Len(s) - d
    BY <1>1
  <2>2. ASSUME NEW i \in 1 .. Len(s) - d PROVE t[i] = s[d + i]
    <3>1. t[i] = s[(d + 1) + i - 1]
      BY <1>7, <2>1
    <3>2. (d + 1) + i - 1 = d + i
      BY <1>1
    <3> QED BY <3>1, <3>2
  <2> QED BY <1>7, <2>1, <2>2
<1>9. n >= 0 /\ n < Len(t) => t[Len(t) - n] = TRUE
  <2> SUFFICES ASSUME n >= 0, n < Len(t) PROVE t[Len(t) - n] = TRUE
    OBVIOUS
  <2>1. /\ n < Len(s) /\ Len(t) - n \in 1 .. Len(s) - d /\ d + (Len(t) - n) = Len(s) - n
    BY <1>1, <1>6, <1>8
  <2>2. t[Len(t) - n] = s[d + (Len(t) - n)]
    BY <1>8, <2>1
  <2> QED BY <2>1, <2>2 DEF WholeOne
<1>10. n \in 0 .. Keep - 1 => n < Len(t)
  BY <1>1, <1>2, <1>6, <1>8 DEF WholeOne
<1> QED BY <1>4, <1>7, <1>9, <1>10 DEF WholeOne

\* Artifacts of one kind change at a time.
LEMMA OneKind ==
    ASSUME ArchivesInv, NEW k \in Kinds, NEW s \in Seq(BOOLEAN), NEW n \in Int, WholeOne(s, n),
           archives' = [archives EXCEPT ![k] = s], wasted' = [wasted EXCEPT ![k] = n]
    PROVE  /\ archives' \in [Kinds -> Seq(BOOLEAN)] /\ wasted' \in [Kinds -> Int]
           /\ \A j \in Kinds : WholeOne(archives'[j], wasted'[j])
           /\ archives'[k] = s /\ wasted'[k] = n
BY DEF ArchivesInv

LEMMA ArchivesStart == FeedFilesInit => ArchivesInv
<1> SUFFICES ASSUME FeedFilesInit PROVE ArchivesInv
  OBVIOUS
<1>1. <<>> \in Seq(BOOLEAN) /\ WholeOne(<<>>, -1)
  BY EmptySeq DEF WholeOne
<1>2. \A k \in Kinds : archives[k] = <<>> /\ wasted[k] = -1
  BY DEF FeedFilesInit
<1>3. backup.at = "idle"
  BY DEF FeedFilesInit, Resting
<1> QED BY <1>1, <1>2, <1>3 DEF FeedFilesInit, ArchivesInv

LEMMA StartDumpArchives == ASSUME ArchivesInv, StartDump PROVE ArchivesInv'
<1>1. "db" \in Kinds /\ archives["db"] \in Seq(BOOLEAN) /\ wasted["db"] \in Int
      /\ WholeOne(archives["db"], wasted["db"])
  BY DEF ArchivesInv, Kinds
<1>2. PICK s : s = Append(archives["db"], FALSE)
  OBVIOUS
<1>3. PICK m : m = IF wasted["db"] < 0 THEN wasted["db"] ELSE wasted["db"] + 1
  OBVIOUS
<1>4. /\ s \in Seq(BOOLEAN) /\ s # <<>> /\ m \in Int /\ WholeOne(s, m)
      /\ m # 0 /\ (m - 1 \in 0 .. Keep - 1 => m < Len(s))
  <2>1. PICK q, n : q = archives["db"] /\ n = wasted["db"]
    OBVIOUS
  <2>2. q \in Seq(BOOLEAN) /\ n \in Int /\ WholeOne(q, n)
    BY <1>1, <2>1
  <2> QED BY <1>2, <1>3, <2>1, <2>2, BegunWhole
<1>5. archives' = [archives EXCEPT !["db"] = s] /\ wasted' = [wasted EXCEPT !["db"] = m]
  BY <1>1, <1>2, <1>3 DEF StartDump, Begun, Waste, ArchivesInv
<1>6. backup'.at = "dump"
  BY DEF StartDump, Resting
<1> QED BY <1>1, <1>4, <1>5, <1>6, OneKind DEF ArchivesInv

LEMMA EndDumpArchives == ASSUME ArchivesInv, EndDump PROVE ArchivesInv'
<1>1. PICK q, n : q = archives["db"] /\ n = wasted["db"]
  OBVIOUS
<1>2. /\ "db" \in Kinds /\ q \in Seq(BOOLEAN) /\ n \in Int /\ WholeOne(q, n)
      /\ q # <<>> /\ n # 0 /\ (n - 1 \in 0 .. Keep - 1 => n < Len(q))
  BY <1>1 DEF ArchivesInv, Kinds, EndDump
<1>3. PICK s \in Seq(BOOLEAN), m \in Int :
          /\ WholeOne(s, m)
          /\ archives' = [archives EXCEPT !["db"] = s] /\ wasted' = [wasted EXCEPT !["db"] = m]
  <2>1. CASE archives' = Done("db") /\ wasted' = [wasted EXCEPT !["db"] = 0]
    <3>1. [q EXCEPT ![Len(q)] = TRUE] \in Seq(BOOLEAN) /\ WholeOne([q EXCEPT ![Len(q)] = TRUE], 0)
      BY <1>2, DoneWhole
    <3>2. archives' = [archives EXCEPT !["db"] = [q EXCEPT ![Len(q)] = TRUE]]
      BY <1>1, <2>1, DoneRow DEF ArchivesInv, Kinds
    <3>3. PICK s : s = [q EXCEPT ![Len(q)] = TRUE]
      OBVIOUS
    <3>4. s \in Seq(BOOLEAN) /\ WholeOne(s, 0) /\ 0 \in Int /\ archives' = [archives EXCEPT !["db"] = s]
      <4>1. 0 \in Int
        OBVIOUS
      <4> QED BY <3>1, <3>2, <3>3, <4>1, Zenon
    <3> QED BY <2>1, <3>4
  <2>2. CASE /\ archives' = [archives EXCEPT !["db"] = Front(@)]
             /\ wasted' = [wasted EXCEPT !["db"] = IF @ < 0 THEN @ ELSE @ - 1]
    <3>1. PICK m : m = IF n < 0 THEN n ELSE n - 1
      OBVIOUS
    <3>2. Front(q) \in Seq(BOOLEAN) /\ m \in Int /\ WholeOne(Front(q), m)
      BY <1>2, <3>1, RemovedWhole
    <3>3. archives' = [archives EXCEPT !["db"] = Front(q)] /\ wasted' = [wasted EXCEPT !["db"] = m]
      BY <1>1, <1>2, <2>2, <3>1 DEF ArchivesInv
    <3> QED BY <3>2, <3>3
  <2> QED BY <2>1, <2>2 DEF EndDump
<1>4. backup'.at = "tar"
  BY DEF EndDump, Resting
<1> QED BY <1>2, <1>3, <1>4, OneKind DEF ArchivesInv

LEMMA StartTarArchives == ASSUME ArchivesInv, StartTar PROVE ArchivesInv'
<1>1. CASE ~laid
  <2>1. UNCHANGED <<archives, wasted>> /\ backup'.at = "prune"
    BY <1>1 DEF StartTar, Resting
  <2> QED BY <2>1 DEF ArchivesInv
<1>2. CASE laid
  <2>1. PICK q, n : q = archives["feeds"] /\ n = wasted["feeds"]
    OBVIOUS
  <2>2. "feeds" \in Kinds /\ q \in Seq(BOOLEAN) /\ n \in Int /\ WholeOne(q, n)
    BY <2>1 DEF ArchivesInv, Kinds
  <2>3. PICK s, m : s = Append(q, FALSE) /\ m = IF n < 0 THEN n ELSE n + 1
    OBVIOUS
  <2>4. s \in Seq(BOOLEAN) /\ s # <<>> /\ m \in Int /\ WholeOne(s, m)
    BY <2>2, <2>3, BegunWhole
  <2>5. archives' = [archives EXCEPT !["feeds"] = s] /\ wasted' = [wasted EXCEPT !["feeds"] = m]
    BY <1>2, <2>1, <2>2, <2>3 DEF StartTar, Begun, Waste, ArchivesInv
  <2>6. backup'.at = "add"
    BY <1>2 DEF StartTar
  <2> QED BY <2>2, <2>4, <2>5, <2>6, OneKind DEF ArchivesInv
<1> QED BY <1>1, <1>2

LEMMA EndTarArchives == ASSUME ArchivesInv, EndTar PROVE ArchivesInv'
<1>1. backup'.at = "prune"
  BY DEF EndTar, Resting
<1>2. CASE archives' = Done("feeds") /\ wasted' = [wasted EXCEPT !["feeds"] = 0]
  <2>1. PICK q : q = archives["feeds"]
    OBVIOUS
  <2>2. "feeds" \in Kinds /\ q \in Seq(BOOLEAN) /\ q # <<>>
    BY <2>1 DEF ArchivesInv, Kinds, EndTar
  <2>3. [q EXCEPT ![Len(q)] = TRUE] \in Seq(BOOLEAN) /\ WholeOne([q EXCEPT ![Len(q)] = TRUE], 0)
    BY <2>2, DoneWhole
  <2>4. archives' = [archives EXCEPT !["feeds"] = [q EXCEPT ![Len(q)] = TRUE]]
    BY <1>2, <2>1, <2>2, DoneRow DEF ArchivesInv
  <2>5. PICK s : s = [q EXCEPT ![Len(q)] = TRUE]
    OBVIOUS
  <2>6. s \in Seq(BOOLEAN) /\ WholeOne(s, 0) /\ 0 \in Int /\ archives' = [archives EXCEPT !["feeds"] = s]
    <3>1. 0 \in Int
      OBVIOUS
    <3> QED BY <2>3, <2>4, <2>5, <3>1, Zenon
  <2> QED BY <1>1, <1>2, <2>2, <2>6, OneKind DEF ArchivesInv
<1>3. CASE UNCHANGED <<archives, wasted>>
  BY <1>1, <1>3 DEF ArchivesInv
<1> QED BY <1>2, <1>3 DEF EndTar

LEMMA PruneArchives == ASSUME ArchivesInv, Prune PROVE ArchivesInv'
<1>1. backup'.at = "idle"
  BY DEF Prune, Resting
<1>2. ASSUME NEW k \in Kinds
      PROVE  archives'[k] \in Seq(BOOLEAN) /\ wasted'[k] = wasted[k] /\ WholeOne(archives'[k], wasted[k])
  <2>1. PICK q, n : q = archives[k] /\ n = wasted[k]
    OBVIOUS
  <2>2. q \in Seq(BOOLEAN) /\ n \in Int /\ WholeOne(q, n)
    BY <2>1 DEF ArchivesInv
  <2>3. Newest(q, Keep) \in Seq(BOOLEAN) /\ WholeOne(Newest(q, Keep), n)
    BY <2>2, NewestWhole
  <2>4. archives'[k] = Newest(q, Keep) /\ wasted' = wasted
    BY <2>1 DEF Prune
  <2> QED BY <2>1, <2>3, <2>4
<1>3. archives' \in [Kinds -> Seq(BOOLEAN)] /\ wasted' = wasted
  BY <1>2 DEF Prune
<1> QED BY <1>1, <1>2, <1>3 DEF ArchivesInv

LEMMA KillBackupArchives == ASSUME ArchivesInv, KillBackup PROVE ArchivesInv'
<1>1. backup'.at = "idle" /\ UNCHANGED <<archives, wasted>>
  BY DEF KillBackup, Resting
<1> QED BY <1>1 DEF ArchivesInv

LEMMA ArchivesStay == ArchivesInv /\ UNCHANGED <<archives, wasted, backup>> => ArchivesInv'
BY DEF ArchivesInv

--------------------------------------------------------------------------------

LEMMA NextFiles == FilesInv /\ [FeedFilesNext]_fileVars => FilesInv'
<1> SUFFICES ASSUME PathsInv, ArchivesInv, [FeedFilesNext]_fileVars
             PROVE  PathsInv' /\ ArchivesInv'
  BY DEF FilesInv
<1>1. CASE UNCHANGED fileVars
  BY <1>1, PathsStay, ArchivesStay DEF fileVars
<1>2. CASE Change
  <2>1. version' \in 1 .. MaxVersions /\ UNCHANGED <<keys, files, writer, temps, archives, wasted, backup>>
    BY <1>2, FileConstants DEF Change, feedFrame, PathsInv
  <2> QED BY <2>1, ArchivesStay DEF PathsInv, TempsOwned, Sound, Good
<1>3. ASSUME NEW w \in Writers,
             StartJob(w) \/ Build(w) \/ OpenTemp(w) \/ WriteTemp(w) \/ Replace(w)
                \/ FailJob(w) \/ KillJob(w)
      PROVE  PathsInv' /\ ArchivesInv'
  <2>1. UNCHANGED <<archives, wasted, backup>>
    BY <1>3 DEF StartJob, Build, OpenTemp, WriteTemp, Replace, FailJob, KillJob, feedFrame
  <2>2. PathsInv'
    BY <1>3, StartJobPaths, BuildPaths, OpenTempPaths, WriteTempPaths, ReplacePaths,
       FailJobPaths, KillJobPaths
  <2> QED BY <2>1, <2>2, ArchivesStay
<1>4. CASE StartDump \/ EndDump \/ StartTar \/ EndTar \/ Prune \/ KillBackup
  <2>1. UNCHANGED <<keys, version, files, writer, temps>>
    BY <1>4 DEF StartDump, EndDump, StartTar, EndTar, Prune, KillBackup, backupFrame
  <2>2. ArchivesInv'
    BY <1>4, StartDumpArchives, EndDumpArchives, StartTarArchives, EndTarArchives, PruneArchives,
       KillBackupArchives
  <2> QED BY <2>1, <2>2, PathsStay
<1> QED BY <1>1, <1>2, <1>3, <1>4 DEF FeedFilesNext

LEMMA FilesHold == FilesInv => FilesHonest
<1> SUFFICES ASSUME FilesInv PROVE FeedsVerify /\ BackupKept
  BY DEF FilesHonest
<1>1. FeedsVerify
  <2>1. ASSUME NEW p \in Paths
        PROVE  Served(p) # 503 /\ (files[p] # Nothing => Verifies(files[p], keys.public))
    <3>1. files[p] = Nothing \/ Good(files[p])
      BY DEF FilesInv, PathsInv
    <3> QED BY <3>1 DEF Served, Good, Verifies
  <2>2. ASSUME NEW t \in temps, ~t.left PROVE t \in OwnTemps(t.by)
    BY <2>2 DEF FilesInv, PathsInv, TempsOwned, Temporary, OwnTemps
  <2> QED BY <2>1, <2>2 DEF FeedsVerify
<1>2. BackupKept
  <2> SUFFICES ASSUME NEW k \in Kinds, wasted[k] \in 0 .. Keep - 1
               PROVE  TRUE \in Range(archives[k])
    BY DEF BackupKept
  <2>1. PICK s \in Seq(BOOLEAN), n \in Int : s = archives[k] /\ n = wasted[k]
    BY DEF FilesInv, ArchivesInv
  <2>2. n >= 0 /\ n < Len(s) /\ s[Len(s) - n] = TRUE /\ Len(s) \in Nat /\ DOMAIN s = 1 .. Len(s)
    BY <2>1, FileConstants, LenProperties DEF FilesInv, ArchivesInv, WholeOne
  <2>3. Len(s) - n \in DOMAIN s
    BY <2>2
  <2>4. TRUE \in Range(s)
    BY <2>2, <2>3 DEF Range
  <2> QED BY <2>1, <2>4
<1> QED BY <1>1, <1>2

\* For any number of writers, jobs, feeds and backups: every published path holds a whole feed
\* that verifies, wherever jobs stop, and only a process that died leaves a temporary file; and
\* there is a whole artifact unless as many as are kept have ended half-way since.
THEOREM FilesAreHonest == FeedFilesSpec => []FilesHonest
<1>1. FeedFilesInit => FilesInv
  BY FilesStart, ArchivesStart DEF FilesInv
<1> QED BY <1>1, NextFiles, FilesHold, PTL DEF FeedFilesSpec

--------------------------------------------------------------------------------
(* Favourites and collections *)

FavoriteRows   == [id : Nat \ {0}, user : Users, app : LibraryApps]
CollectionRows == [id : Nat \ {0}, user : Users, slug : Names \X Nat, public : BOOLEAN]
ItemRows       == [id : Nat \ {0}, of : Nat, app : LibraryApps]
CountedItems   == [id : {0}, of : Nat, app : LibraryApps]
ShownRows      == [id : {0}, of : Nat]
RowsOf(op) ==
    CASE op \in {"favorite", "unfavorite"} -> FavoriteRows
      [] op \in {"create", "drop"}         -> CollectionRows
      [] op = "add"                        -> ItemRows \cup CountedItems
      [] op = "take"                       -> ItemRows
      [] op = "show"                       -> ShownRows
      [] OTHER                             -> {NoRow}
LibraryOps == Inserting \cup {"none", "unfavorite", "take", "drop", "show"}
ClientStates ==
    [at : Ended \cup {"insert", "count", "list", "commit"},
     op : LibraryOps, row : UNION {RowsOf(op) : op \in LibraryOps},
     count : {Cardinality(S) : S \in SUBSET LibraryApps}, listed : SUBSET LibraryApps,
     alone : BOOLEAN]
LibraryEvents == [kind : {"favorite", "unfavorite"}, row : Nat, by : Clients, alone : BOOLEAN]

\* Where a request of each kind can be, and the row it has there
Placed(w) ==
    /\ w.at = "insert" => w.op \in Inserting /\ w.row.id # 0
    /\ w.at \in {"count", "list"} => w.op \in {"add", "show"}
    /\ w.at = "commit" => w.op \notin {"none", "show"}
    /\ w.at \notin Ended => w.row \in RowsOf(w.op)

LibraryTyped ==
    /\ favorites \subseteq FavoriteRows /\ collections \subseteq CollectionRows
    /\ items \subseteq ItemRows /\ events \subseteq LibraryEvents
    /\ client \in [Clients -> ClientStates] /\ \A c \in Clients : Placed(client[c])
    /\ served \in 0 .. MaxServed

\* No id is given twice: not to a row and to a request that will insert one
Pending(op) == {c \in Clients : client[c].op = op /\ client[c].at \in {"insert", "commit"}}
Numbered(table, op) ==
    /\ \A r \in table : r.id <= served
    /\ \A r, q \in table : r.id = q.id => r = q
    /\ \A c \in Pending(op) : /\ client[c].row.id <= served
                              /\ \A r \in table : r.id # client[c].row.id
    /\ \A c, d \in Pending(op) : client[c].row.id = client[d].row.id => c = d

\* An event of the kind about a row
Reported(kind, id) == \E e \in events : e.kind = kind /\ e.row = id

\* A request that is to remove a favourite found one that was made, which is gone only if
\* somebody came before it
EventsKept ==
    /\ \A e \in events : e.row <= served
    /\ \A c \in Pending("favorite") : \A e \in events : e.row # client[c].row.id
    /\ \A f \in favorites : Reported("favorite", f.id) /\ ~Reported("unfavorite", f.id)
    /\ \A e \in events : e.kind = "favorite" =>
           (\E f \in favorites : f.id = e.row) \/ Reported("unfavorite", e.row)
    /\ \A e, f \in events : e.kind = "unfavorite" /\ f.kind = "unfavorite" /\ e.row = f.row /\ e # f =>
           ~e.alone \/ ~f.alone
    /\ \A c \in Pending("unfavorite") :
           /\ Reported("favorite", client[c].row.id)
           /\ \A f \in favorites : f.id = client[c].row.id => f = client[c].row
           /\ client[c].alone => client[c].row \in favorites

\* What a request that nobody has come before has read still holds.
Fresh(c) ==
    client[c].alone =>
        /\ client[c].at # "error"
        /\ client[c].at = "insert" => ~Refused(c)
        /\ client[c].at = "list" => client[c].count = Cardinality(Seen(c))
        /\ client[c].op \in {"add", "show"} /\ client[c].at \in {"commit", "ok"}
               => client[c].count = Cardinality(client[c].listed)

LibraryInv ==
    /\ LibraryTyped
    /\ Numbered(favorites, "favorite") /\ Numbered(collections, "create")
    /\ EventsKept
    /\ \A c \in Clients : Fresh(c)


--------------------------------------------------------------------------------

LEMMA RowsKnown ==
    /\ RowsOf("favorite") = FavoriteRows /\ RowsOf("unfavorite") = FavoriteRows
    /\ RowsOf("create") = CollectionRows /\ RowsOf("drop") = CollectionRows
    /\ RowsOf("add") = ItemRows \cup CountedItems /\ RowsOf("take") = ItemRows
    /\ RowsOf("show") = ShownRows
BY DEF RowsOf

LEMMA ClientFacts ==
    ASSUME LibraryTyped, NEW c \in Clients
    PROVE  /\ client[c] \in ClientStates /\ Placed(client[c])
           /\ client[c].at \in Ended \cup {"insert", "count", "list", "commit"}
           /\ client[c].op \in LibraryOps /\ client[c].alone \in BOOLEAN
BY DEF LibraryTyped, ClientStates

LEMMA NoneListed == /\ Cardinality({}) = 0
                    /\ 0 \in {Cardinality(S) : S \in SUBSET LibraryApps}
<1>1. Cardinality({}) = 0
  BY FS_EmptySet
<1>2. {} \in SUBSET LibraryApps
  OBVIOUS
<1> QED BY <1>1, <1>2

LEMMA LibraryStart == LibraryInit => LibraryInv
<1> SUFFICES ASSUME LibraryInit PROVE LibraryInv
  OBVIOUS
<1>1. Waiting \in ClientStates /\ Placed(Waiting) /\ Waiting.at = "idle" /\ Waiting.op = "none"
  <2>1. NoRow \in UNION {RowsOf(op) : op \in LibraryOps}
    <3>1. NoRow \in RowsOf("none") /\ "none" \in LibraryOps
      BY DEF RowsOf, LibraryOps
    <3> QED BY <3>1
  <2>2. PICK row : row = NoRow
    OBVIOUS
  <2>3. [at |-> "idle", op |-> "none", row |-> row, count |-> 0, listed |-> {}, alone |-> TRUE]
            \in ClientStates
    <3>1. "idle" \in Ended /\ "none" \in LibraryOps /\ {} \in SUBSET LibraryApps /\ TRUE \in BOOLEAN
      BY DEF Ended, LibraryOps
    <3> QED BY <2>1, <2>2, <3>1, NoneListed DEF ClientStates
  <2> QED BY <2>2, <2>3 DEF Waiting, Placed, Ended
<1>2. \A c \in Clients : client[c] = Waiting
  BY DEF LibraryInit
<1>3. LibraryTyped
  BY <1>1, <1>2, LibraryAssumption DEF LibraryInit, LibraryTyped
<1>4. \A op : Pending(op) = {}
  BY <1>1, <1>2 DEF Pending
<1>5. Numbered(favorites, "favorite") /\ Numbered(collections, "create")
  BY <1>4 DEF Numbered, LibraryInit
<1>6. EventsKept
  BY <1>4 DEF EventsKept, LibraryInit
<1>7. \A c \in Clients : Fresh(c)
  BY <1>1, <1>2 DEF Fresh
<1> QED BY <1>3, <1>5, <1>6, <1>7 DEF LibraryInv

--------------------------------------------------------------------------------
(* Requests begin *)

\* What the handler has found is that nothing refuses the row
Insertable(op, row) ==
    /\ op = "favorite" => \A f \in favorites : f.user # row.user \/ f.app # row.app
    /\ op = "create" => \A k \in collections : k.user # row.user \/ k.slug # row.slug
    /\ op = "add" => /\ \A i \in items : i.of # row.of \/ i.app # row.app
                     /\ \E k \in collections : k.id = row.of

Begins(op, where, row) ==
    /\ op \in LibraryOps /\ where \in {"ok", "insert", "count", "commit"}
    /\ row \in RowsOf(op) \/ (where = "ok" /\ row = NoRow)
    /\ where = "insert" => op \in Inserting /\ row.id = served + 1 /\ Insertable(op, row)
    /\ where = "count" => op \in {"add", "show"}
    /\ where = "commit" => /\ op \in {"unfavorite", "take", "drop"}
                           /\ op = "unfavorite" => row \in favorites

LEMMA BegunRecord ==
    ASSUME NEW op \in LibraryOps, NEW where \in Ended \cup {"insert", "count", "list", "commit"},
           NEW row \in UNION {RowsOf(o) : o \in LibraryOps}
    PROVE  [Waiting EXCEPT !.op = op, !.at = where, !.row = row] \in ClientStates
<1>1. ASSUME NEW none, NEW counts, NEW zero \in counts, NEW lists, NEW empty \in lists, NEW b \in BOOLEAN,
             NEW some, row \in some,
             NEW e, e = [at |-> "idle", op |-> "none", row |-> none, count |-> zero,
                         listed |-> empty, alone |-> b],
             NEW f, f = [e EXCEPT !.op = op, !.at = where, !.row = row]
      PROVE  f \in [at : Ended \cup {"insert", "count", "list", "commit"}, op : LibraryOps,
                    row : some, count : counts, listed : lists, alone : BOOLEAN]
  BY <1>1
<1>2. TRUE \in BOOLEAN /\ {} \in SUBSET LibraryApps
  OBVIOUS
<1> QED BY <1>1, <1>2, NoneListed, Zenon DEF Waiting, ClientStates

LEMMA BegunClient ==
    ASSUME LibraryInv, NEW c \in Clients, NEW op, NEW where, NEW row, Begins(op, where, row),
           BeginRequest(c, op, where, row)
    PROVE  /\ client' \in [Clients -> ClientStates]
           /\ \A x \in Clients \ {c} : client'[x] = client[x]
           /\ client'[c].at = where /\ client'[c].op = op /\ client'[c].row = row
           /\ client'[c].count = 0 /\ client'[c].listed = {}
           /\ Placed(client'[c])
           /\ served \in Nat /\ served' = served + 1 /\ served' \in 0 .. MaxServed
           /\ UNCHANGED tables
<1> DEFINE w == [Waiting EXCEPT !.op = op, !.at = where, !.row = row]
<1>1. client' = [client EXCEPT ![c] = w] /\ served' = served + 1 /\ served < MaxServed /\ UNCHANGED tables
  BY DEF BeginRequest
<1>2. served \in Nat /\ served' \in 0 .. MaxServed
  BY <1>1, LibraryAssumption DEF LibraryInv, LibraryTyped
<1>3. row \in UNION {RowsOf(o) : o \in LibraryOps}
  <2>1. NoRow \in RowsOf("none") /\ "none" \in LibraryOps
    BY DEF RowsOf, LibraryOps
  <2> QED BY <2>1 DEF Begins
<1>4. w \in ClientStates
  <2>1. where \in Ended \cup {"insert", "count", "list", "commit"} /\ op \in LibraryOps
    BY DEF Begins, Ended
  <2> QED BY <1>3, <2>1, BegunRecord
<1>5. w.at = where /\ w.op = op /\ w.row = row /\ w.count = 0 /\ w.listed = {}
  BY DEF Waiting
<1>6. Placed(w)
  BY <1>2, <1>5 DEF Placed, Begins, Ended
<1> HIDE DEF w
<1>7. client'[c] = w /\ client' \in [Clients -> ClientStates]
      /\ (\A x \in Clients \ {c} : client'[x] = client[x])
  BY <1>1, <1>4 DEF LibraryInv, LibraryTyped
<1> QED BY <1>1, <1>2, <1>5, <1>6, <1>7

\* A table and the requests that insert into it get a number more at most.
LEMMA BegunNumbers ==
    ASSUME LibraryInv, NEW c \in Clients, NEW op, NEW where, NEW row, Begins(op, where, row),
           BeginRequest(c, op, where, row),
           NEW kind \in {"favorite", "create"}, NEW table,
           \A r \in table : r.id \in Nat, Numbered(table, kind)
    PROVE  /\ \A r \in table : r.id <= served'
           /\ \A x \in Pending(kind)' : /\ client'[x].row.id <= served'
                                        /\ \A r \in table : r.id # client'[x].row.id
           /\ \A x, y \in Pending(kind)' : client'[x].row.id = client'[y].row.id => x = y
<1>1. /\ \A x \in Clients \ {c} : client'[x] = client[x]
      /\ client'[c].at = where /\ client'[c].op = op /\ client'[c].row = row
      /\ served \in Nat /\ served' = served + 1
  BY BegunClient
<1>2. \A x \in Pending(kind) : client[x].row.id \in Nat
  <2> TAKE x \in Pending(kind)
  <2>1. client[x].row \in FavoriteRows \cup CollectionRows
    BY ClientFacts, RowsKnown DEF LibraryInv, Pending, Placed, Ended
  <2> QED BY <2>1 DEF FavoriteRows, CollectionRows
<1>3. \A x \in Pending(kind)' : x # c => x \in Pending(kind) /\ client'[x].row = client[x].row
  BY <1>1 DEF Pending
<1>4. c \in Pending(kind)' => client'[c].row.id = served + 1
  BY <1>1 DEF Pending, Begins
<1> QED BY <1>1, <1>2, <1>3, <1>4 DEF Numbered

LEMMA BeginKeeps ==
    ASSUME LibraryInv, NEW c \in Clients, NEW op, NEW where, NEW row, Begins(op, where, row),
           BeginRequest(c, op, where, row)
    PROVE  LibraryInv'
<1>1. /\ client' \in [Clients -> ClientStates]
      /\ \A x \in Clients \ {c} : client'[x] = client[x]
      /\ client'[c].at = where /\ client'[c].op = op /\ client'[c].row = row
      /\ client'[c].count = 0 /\ client'[c].listed = {}
      /\ Placed(client'[c])
      /\ served \in Nat /\ served' = served + 1 /\ served' \in 0 .. MaxServed
      /\ UNCHANGED <<favorites, events, collections, items>>
  BY BegunClient DEF tables
<1>2. LibraryTyped'
  BY <1>1 DEF LibraryInv, LibraryTyped
<1>3. (\A r \in favorites : r.id \in Nat) /\ (\A r \in collections : r.id \in Nat)
  BY DEF LibraryInv, LibraryTyped, FavoriteRows, CollectionRows
<1>4. Numbered(favorites, "favorite")'
  BY <1>1, <1>3, BegunNumbers, ZenonT(40) DEF LibraryInv, Numbered
<1>5. Numbered(collections, "create")'
  BY <1>1, <1>3, BegunNumbers DEF LibraryInv, Numbered
<1>6. EventsKept'
  <2>1. \A e \in events : e.row <= served /\ e.row \in Nat
    BY DEF LibraryInv, EventsKept, LibraryTyped, LibraryEvents
  <2>2. ASSUME NEW x \in Pending("favorite")', NEW e \in events
        PROVE  e.row # client'[x].row.id
    <3>1. CASE x = c
      BY <1>1, <2>1, <2>2, <3>1 DEF Pending, Begins
    <3>2. CASE x # c
      BY <1>1, <2>2, <3>2 DEF Pending, LibraryInv, EventsKept
    <3> QED BY <3>1, <3>2
  <2>3. ASSUME NEW x \in Pending("unfavorite")'
        PROVE  /\ Reported("favorite", client'[x].row.id)
               /\ \A f \in favorites : f.id = client'[x].row.id => f = client'[x].row
               /\ client'[x].alone => client'[x].row \in favorites
    <3>1. CASE x = c
      <4>1. row \in favorites
        BY <1>1, <2>3, <3>1 DEF Pending, Begins, Inserting
      <4> QED BY <1>1, <3>1, <4>1 DEF LibraryInv, EventsKept, Numbered
    <3>2. CASE x # c
      BY <1>1, <2>3, <3>2 DEF Pending, LibraryInv, EventsKept
    <3> QED BY <3>1, <3>2
  <2>4. \A kind, id : Reported(kind, id)' <=> Reported(kind, id)
    BY <1>1 DEF Reported
  <2>5. \A e \in events : e.row <= served'
    BY <1>1, <2>1
  <2> QED BY <1>1, <2>2, <2>3, <2>4, <2>5 DEF LibraryInv, EventsKept
<1>7. ASSUME NEW x \in Clients PROVE Fresh(x)'
  <2>1. CASE x # c
    <3>1. Fresh(x) /\ client'[x] = client[x]
      BY <1>1, <2>1 DEF LibraryInv
    <3>2. Refused(x)' <=> Refused(x)
      BY <1>1, <3>1 DEF Refused, Table
    <3>3. Seen(x)' = Seen(x)
      BY <1>1, <3>1 DEF Seen, Flushed
    <3> QED BY <3>1, <3>2, <3>3 DEF Fresh
  <2>2. CASE x = c
    <3>1. where = "insert" => ~Refused(c)'
      BY <1>1 DEF Begins, Insertable, Refused, Table, Key, Inserting
    <3> QED BY <1>1, <2>2, <3>1, NoneListed DEF Fresh, Begins
  <2> QED BY <2>1, <2>2
<1> QED BY <1>2, <1>4, <1>5, <1>6, <1>7 DEF LibraryInv

LEMMA FreeSlug ==
    ASSUME LibraryInv, served < MaxServed, NEW u \in Users, NEW n \in Names
    PROVE  \E j \in 1 .. MaxServed : <<n, j>> \notin SlugsOf(u)
<1> SUFFICES ASSUME \A j \in 1 .. MaxServed : <<n, j>> \in SlugsOf(u)
             PROVE  FALSE
  OBVIOUS
<1> DEFINE f == [j \in 1 .. MaxServed |->
                    (CHOOSE l \in collections : l.user = u /\ l.slug = <<n, j>>).id]
<1>1. MaxServed \in Nat /\ served \in Nat /\ served < MaxServed
  BY LibraryAssumption DEF LibraryInv, LibraryTyped
<1>2. ASSUME NEW j \in 1 .. MaxServed
      PROVE  \E k \in collections : k.slug = <<n, j>> /\ f[j] = k.id /\ k.id \in 1 .. served
  <2>1. \E k \in collections : k.user = u /\ k.slug = <<n, j>>
    BY DEF SlugsOf
  <2>2. PICK k : k = CHOOSE l \in collections : l.user = u /\ l.slug = <<n, j>>
    OBVIOUS
  <2>3. k \in collections /\ k.slug = <<n, j>> /\ f[j] = k.id
    BY <2>1, <2>2
  <2>4. k.id \in Nat \ {0} /\ k.id <= served
    BY <2>3 DEF LibraryInv, LibraryTyped, CollectionRows, Numbered
  <2>5. k.id \in 1 .. served
    BY <1>1, <2>4
  <2> HIDE DEF f
  <2> QED BY <2>3, <2>5
<1> HIDE DEF f
<1>3. f \in [1 .. MaxServed -> 1 .. served]
  BY <1>2 DEF f
<1>4. ASSUME NEW i \in 1 .. MaxServed, NEW j \in 1 .. MaxServed, f[i] = f[j] PROVE i = j
  <2>1. PICK k \in collections : k.slug = <<n, i>> /\ f[i] = k.id
    BY <1>2
  <2>2. PICK l \in collections : l.slug = <<n, j>> /\ f[j] = l.id
    BY <1>2
  <2>3. k = l
    BY <1>4, <2>1, <2>2 DEF LibraryInv, Numbered
  <2> QED BY <2>1, <2>2, <2>3
<1>5. f \in Injection(1 .. MaxServed, 1 .. served)
  BY <1>3, <1>4 DEF Injection, IsInjective
<1>6. IsFiniteSet(1 .. served) /\ Cardinality(1 .. served) = served
      /\ Cardinality(1 .. MaxServed) = MaxServed
  <2>1. PICK s \in Nat, m \in Nat : s = served /\ m = MaxServed
    BY <1>1
  <2>2. /\ IsFiniteSet(1 .. s) /\ Cardinality(1 .. s) = IF 1 > s THEN 0 ELSE s - 1 + 1
        /\ Cardinality(1 .. m) = IF 1 > m THEN 0 ELSE m - 1 + 1
    BY FS_Interval
  <2>3. Cardinality(1 .. s) = s /\ Cardinality(1 .. m) = m
    BY <2>2
  <2> QED BY <2>1, <2>2, <2>3
<1>7. Cardinality(1 .. MaxServed) <= Cardinality(1 .. served)
  BY <1>5, <1>6, FS_Injection
<1> QED BY <1>1, <1>6, <1>7

LEMMA FirstFree ==
    ASSUME LibraryInv, served < MaxServed, NEW u \in Users, NEW n \in Names, NEW k,
           k = CHOOSE j \in 1 .. MaxServed : /\ <<n, j>> \notin SlugsOf(u)
                                             /\ \A i \in 1 .. j - 1 : <<n, i>> \in SlugsOf(u)
    PROVE  k \in Nat /\ <<n, k>> \notin SlugsOf(u)
<1> DEFINE S == {j \in 1 .. MaxServed : <<n, j>> \notin SlugsOf(u)}
<1>1. S \in SUBSET Nat /\ S # {}
  BY FreeSlug
<1>2. PICK m \in S : \A j \in S : m <= j
  <2> HIDE DEF S
  <2> QED BY <1>1, LeastOfSome
<1>3. m \in 1 .. MaxServed /\ <<n, m>> \notin SlugsOf(u)
  BY <1>2
<1>4. \A i \in 1 .. m - 1 : <<n, i>> \in SlugsOf(u)
  <2> TAKE i \in 1 .. m - 1
  <2>1. i \in 1 .. MaxServed /\ ~(m <= i)
    BY <1>3, LibraryAssumption
  <2> QED BY <1>2, <2>1
<1> QED BY <1>3, <1>4

\* Some request of c begins
Opens(c) == \E op, where, row : Begins(op, where, row) /\ BeginRequest(c, op, where, row)

LEMMA OpeningFacts ==
    ASSUME LibraryInv
    PROVE  /\ served + 1 \in Nat \ {0}
           /\ {"favorite", "unfavorite", "create", "add", "take", "drop", "show"} \subseteq LibraryOps
BY DEF LibraryInv, LibraryTyped, LibraryOps, Inserting

LEMMA AnswersAtOnce ==
    ASSUME NEW c \in Clients, NEW op \in LibraryOps, BeginRequest(c, op, "ok", NoRow)
    PROVE  Opens(c)
BY DEF Begins, Opens

LEMMA AddFavoriteOpens ==
    ASSUME LibraryInv, NEW c \in Clients, NEW u \in Users, NEW a \in LibraryApps, AddFavorite(c, u, a)
    PROVE  Opens(c)
<1>1. CASE Favorite(u, a) = {}
  <2> DEFINE row == [id |-> served + 1, user |-> u, app |-> a]
  <2>1. BeginRequest(c, "favorite", "insert", row)
    BY <1>1 DEF AddFavorite
  <2>2. row \in RowsOf("favorite") /\ row.id = served + 1
    BY OpeningFacts, RowsKnown DEF FavoriteRows
  <2>3. Insertable("favorite", row)
    BY <1>1 DEF Insertable, Favorite
  <2> HIDE DEF row
  <2>4. Begins("favorite", "insert", row)
    BY OpeningFacts, <2>2, <2>3 DEF Begins, Inserting
  <2> QED BY <2>1, <2>4 DEF Opens
<1>2. CASE Favorite(u, a) # {}
  BY AnswersAtOnce, OpeningFacts, <1>2 DEF AddFavorite
<1> QED BY <1>1, <1>2

LEMMA RemoveFavoriteOpens ==
    ASSUME LibraryInv, NEW c \in Clients, NEW u \in Users, NEW a \in LibraryApps, RemoveFavorite(c, u, a)
    PROVE  Opens(c)
<1>1. CASE Favorite(u, a) = {}
  BY AnswersAtOnce, OpeningFacts, <1>1 DEF RemoveFavorite
<1>2. CASE Favorite(u, a) # {}
  <2>1. PICK f \in Favorite(u, a) : BeginRequest(c, "unfavorite", "commit", f)
    BY <1>2 DEF RemoveFavorite
  <2>2. f \in favorites /\ f \in RowsOf("unfavorite")
    BY RowsKnown DEF Favorite, LibraryInv, LibraryTyped
  <2>3. Begins("unfavorite", "commit", f)
    BY OpeningFacts, <2>2 DEF Begins
  <2> QED BY <2>1, <2>3 DEF Opens
<1> QED BY <1>1, <1>2

LEMMA CreateCollectionOpens ==
    ASSUME LibraryInv, NEW c \in Clients, NEW u \in Users, NEW n \in Names, NEW public \in BOOLEAN,
           CreateCollection(c, u, n, public)
    PROVE  Opens(c)
<1>1. PICK m : m = CHOOSE j \in 1 .. MaxServed : /\ <<n, j>> \notin SlugsOf(u)
                                                 /\ \A i \in 1 .. j - 1 : <<n, i>> \in SlugsOf(u)
  OBVIOUS
<1> DEFINE row == [id |-> served + 1, user |-> u, slug |-> <<n, m>>, public |-> public]
<1>2. BeginRequest(c, "create", "insert", row)
  BY <1>1 DEF CreateCollection
<1>3. m \in Nat /\ <<n, m>> \notin SlugsOf(u)
  <2>1. served < MaxServed
    BY <1>2 DEF BeginRequest
  <2> QED BY <1>1, <2>1, FirstFree
<1>4. row \in RowsOf("create") /\ row.id = served + 1
  BY OpeningFacts, <1>3, RowsKnown DEF CollectionRows
<1>5. Insertable("create", row)
  BY <1>3 DEF Insertable, SlugsOf
<1> HIDE DEF row
<1>6. Begins("create", "insert", row)
  BY OpeningFacts, <1>4, <1>5 DEF Begins, Inserting
<1> QED BY <1>2, <1>6 DEF Opens

LEMMA AddItemOpens ==
    ASSUME LibraryInv, NEW c \in Clients, NEW u \in Users, NEW k \in collections, NEW a \in LibraryApps, AddItem(c, u, k, a)
    PROVE  Opens(c)
<1>1. k \in CollectionRows /\ k.id \in Nat
  BY DEF LibraryInv, LibraryTyped, CollectionRows
<1>2. CASE k.user # u
  BY AnswersAtOnce, OpeningFacts, <1>2 DEF AddItem
<1>3. CASE k.user = u /\ Item(k, a) = {}
  <2> DEFINE row == [id |-> served + 1, of |-> k.id, app |-> a]
  <2>1. BeginRequest(c, "add", "insert", row)
    BY <1>3 DEF AddItem
  <2>2. row \in RowsOf("add") /\ row.id = served + 1
    <3>1. row \in ItemRows
      BY OpeningFacts, <1>1 DEF ItemRows
    <3> QED BY <3>1, RowsKnown
  <2>3. Insertable("add", row)
    BY <1>3 DEF Insertable, Item
  <2> HIDE DEF row
  <2>4. Begins("add", "insert", row)
    BY OpeningFacts, <2>2, <2>3 DEF Begins, Inserting
  <2> QED BY <2>1, <2>4 DEF Opens
<1>4. CASE k.user = u /\ Item(k, a) # {}
  <2> DEFINE row == [id |-> 0, of |-> k.id, app |-> a]
  <2>1. BeginRequest(c, "add", "count", row)
    BY <1>4 DEF AddItem
  <2>2. row \in RowsOf("add")
    <3>1. row \in CountedItems
      BY <1>1 DEF CountedItems
    <3> QED BY <3>1, RowsKnown
  <2> HIDE DEF row
  <2>3. Begins("add", "count", row)
    BY OpeningFacts, <2>2 DEF Begins
  <2> QED BY <2>1, <2>3 DEF Opens
<1> QED BY <1>2, <1>3, <1>4

LEMMA RemoveItemOpens ==
    ASSUME LibraryInv, NEW c \in Clients, NEW u \in Users, NEW k \in collections, NEW a \in LibraryApps, RemoveItem(c, u, k, a)
    PROVE  Opens(c)
<1>1. CASE k.user # u \/ Item(k, a) = {}
  BY AnswersAtOnce, OpeningFacts, <1>1 DEF RemoveItem
<1>2. CASE ~(k.user # u \/ Item(k, a) = {})
  <2>1. PICK i \in Item(k, a) : BeginRequest(c, "take", "commit", i)
    BY <1>2 DEF RemoveItem
  <2>2. i \in RowsOf("take")
    BY RowsKnown DEF Item, LibraryInv, LibraryTyped
  <2>3. Begins("take", "commit", i)
    BY OpeningFacts, <2>2 DEF Begins
  <2> QED BY <2>1, <2>3 DEF Opens
<1> QED BY <1>1, <1>2

LEMMA DeleteCollectionOpens ==
    ASSUME LibraryInv, NEW c \in Clients, NEW u \in Users, NEW k \in collections, DeleteCollection(c, u, k)
    PROVE  Opens(c)
<1>1. CASE k.user # u
  BY AnswersAtOnce, OpeningFacts, <1>1 DEF DeleteCollection
<1>2. CASE k.user = u
  <2>1. BeginRequest(c, "drop", "commit", k) /\ k \in RowsOf("drop")
    BY <1>2, RowsKnown DEF DeleteCollection, LibraryInv, LibraryTyped
  <2>2. Begins("drop", "commit", k)
    BY OpeningFacts, <2>1 DEF Begins
  <2> QED BY <2>1, <2>2 DEF Opens
<1> QED BY <1>1, <1>2

LEMMA ShowCollectionOpens ==
    ASSUME LibraryInv, NEW c \in Clients, NEW k \in collections, ShowCollection(c, k)
    PROVE  Opens(c)
<1>1. CASE ~k.public
  BY AnswersAtOnce, OpeningFacts, <1>1 DEF ShowCollection
<1>2. CASE k.public
  <2> DEFINE row == [id |-> 0, of |-> k.id]
  <2>1. BeginRequest(c, "show", "count", row)
    BY <1>2 DEF ShowCollection
  <2>2. row \in RowsOf("show")
    <3>1. k.id \in Nat
      BY DEF LibraryInv, LibraryTyped, CollectionRows
    <3> QED BY <3>1, RowsKnown DEF ShownRows
  <2> HIDE DEF row
  <2>3. Begins("show", "count", row)
    BY OpeningFacts, <2>2 DEF Begins
  <2> QED BY <2>1, <2>3 DEF Opens
<1> QED BY <1>1, <1>2

--------------------------------------------------------------------------------
(* Requests go on *)

LEMMA ClientMoves ==
    ASSUME LibraryInv, NEW c \in Clients, NEW w, w \in ClientStates, Placed(w),
           client' = [client EXCEPT ![c] = w], UNCHANGED <<tables, served>>,
           w.op = client[c].op, w.row = client[c].row, w.alone = client[c].alone,
           w.op \in {"favorite", "create", "unfavorite"} /\ w.at \in {"insert", "commit"}
               => client[c].at \in {"insert", "commit"},
           w.at # "insert",
           w.alone => /\ w.at # "error"
                      /\ w.at = "list" => w.count = Cardinality(Seen(c)')
                      /\ w.op \in {"add", "show"} /\ w.at \in {"commit", "ok"}
                             => w.count = Cardinality(w.listed)
    PROVE  LibraryInv'
<1>1. /\ client' \in [Clients -> ClientStates] /\ client'[c] = w
      /\ \A x \in Clients \ {c} : client'[x] = client[x]
      /\ \A x \in Clients : client'[x].op = client[x].op /\ client'[x].row = client[x].row
                            /\ client'[x].alone = client[x].alone
      /\ UNCHANGED <<favorites, events, collections, items, served>>
  BY DEF LibraryInv, LibraryTyped, tables
<1>2. LibraryTyped'
  BY <1>1 DEF LibraryInv, LibraryTyped
<1>3. \A op \in {"favorite", "create", "unfavorite"} : \A x \in Pending(op)' : x \in Pending(op)
  BY <1>1 DEF Pending
<1>4. Numbered(favorites, "favorite")'
  BY <1>1, <1>3 DEF LibraryInv, Numbered, Pending
<1>5. Numbered(collections, "create")'
  BY <1>1, <1>3 DEF LibraryInv, Numbered, Pending
<1>6. EventsKept'
  <2>1. \A kind, id : Reported(kind, id)' <=> Reported(kind, id)
    BY <1>1 DEF Reported
  <2>2. \A x \in Pending("favorite")' : \A e \in events' : e.row # client'[x].row.id
    BY <1>1, <1>3 DEF LibraryInv, EventsKept, Pending
  <2>3. ASSUME NEW x \in Pending("unfavorite")'
        PROVE  /\ Reported("favorite", client'[x].row.id)
               /\ \A f \in favorites : f.id = client'[x].row.id => f = client'[x].row
               /\ client'[x].alone => client'[x].row \in favorites
    <3>1. x \in Pending("unfavorite") /\ x \in Clients
      BY <1>3 DEF Pending
    <3> QED BY <1>1, <3>1 DEF LibraryInv, EventsKept
  <2> QED BY <1>1, <2>1, <2>2, <2>3 DEF LibraryInv, EventsKept
<1>7. ASSUME NEW x \in Clients PROVE Fresh(x)'
  <2>1. CASE x # c
    <3>1. Fresh(x) /\ client'[x] = client[x]
      BY <1>1, <2>1 DEF LibraryInv
    <3>2. Refused(x)' <=> Refused(x)
      BY <1>1, <3>1, ZenonT(40) DEF Refused, Table
    <3>3. Seen(x)' = Seen(x)
      BY <1>1, <3>1 DEF Seen, Flushed
    <3> QED BY <3>1, <3>2, <3>3 DEF Fresh
  <2>2. CASE x = c
    BY <1>1, <2>2 DEF Fresh
  <2> QED BY <2>1, <2>2
<1> QED BY <1>2, <1>4, <1>5, <1>6, <1>7 DEF LibraryInv

LEMMA SeenTypes ==
    ASSUME LibraryTyped, NEW c \in Clients, client[c].at \in {"count", "list"}
    PROVE  Seen(c) \in SUBSET LibraryApps
<1>1. client[c].op \in {"add", "show"} /\ client[c].row \in RowsOf(client[c].op)
  BY ClientFacts DEF Placed, Ended
<1>2. Flushed(c) => client[c].row.app \in LibraryApps
  BY <1>1, RowsKnown DEF Flushed, Inserting, ItemRows, CountedItems
<1>3. \A i \in items : i.app \in LibraryApps
  BY DEF LibraryTyped, ItemRows
<1> QED BY <1>2, <1>3 DEF Seen

LEMMA InsertKeeps == ASSUME LibraryInv, NEW c \in Clients, Insert(c) PROVE LibraryInv'
<1>1. PICK how : how = CASE Refused(c) -> "error"
                         [] client[c].op = "add" -> "count"
                         [] OTHER -> "commit"
  OBVIOUS
<1>2. PICK w : w = [client[c] EXCEPT !.at = how]
  OBVIOUS
<1>3. client[c].at = "insert" /\ client' = [client EXCEPT ![c] = w] /\ UNCHANGED <<tables, served>>
  BY <1>1, <1>2 DEF Insert, End, LibraryInv, LibraryTyped
<1>4. client[c] \in ClientStates /\ Placed(client[c])
  BY ClientFacts DEF LibraryInv
<1>5. /\ how \in {"error", "count", "commit"}
      /\ how = "error" => Refused(c)
      /\ how = "count" => client[c].op = "add"
      /\ how = "commit" => client[c].op # "add"
  BY <1>1
<1>6. /\ w \in ClientStates /\ w.at = how /\ w.op = client[c].op /\ w.row = client[c].row
      /\ w.alone = client[c].alone
  BY <1>2, <1>4, <1>5 DEF ClientStates, Ended
<1>7. client[c].op \in Inserting /\ client[c].row \in RowsOf(client[c].op)
  BY <1>3, <1>4 DEF Placed, Ended
<1>8. Placed(w)
  BY <1>5, <1>6, <1>7 DEF Placed, Ended, Inserting
<1>9. client[c].alone => ~Refused(c)
  BY <1>3 DEF LibraryInv, Fresh
<1>10. w.alone => w.at # "error"
  BY <1>5, <1>6, <1>9
<1>11. w.at \notin {"list", "insert"} /\ ~(w.op \in {"add", "show"} /\ w.at \in {"commit", "ok"})
  BY <1>5, <1>6, <1>7 DEF Inserting
<1> QED BY <1>3, <1>6, <1>8, <1>10, <1>11, ClientMoves

LEMMA CountItemsKeeps == ASSUME LibraryInv, NEW c \in Clients, CountItems(c) PROVE LibraryInv'
<1>1. PICK n : n = Cardinality(Seen(c))
  OBVIOUS
<1>2. PICK w : w = [client[c] EXCEPT !.at = "list", !.count = n]
  OBVIOUS
<1>3. client[c].at = "count" /\ client' = [client EXCEPT ![c] = w] /\ UNCHANGED <<tables, served>>
  BY <1>1, <1>2 DEF CountItems, LibraryInv, LibraryTyped
<1>4. client[c] \in ClientStates /\ Placed(client[c])
  BY ClientFacts DEF LibraryInv
<1>5. n \in {Cardinality(S) : S \in SUBSET LibraryApps}
  BY <1>1, <1>3, SeenTypes DEF LibraryInv
<1>6. /\ w \in ClientStates /\ w.at = "list" /\ w.op = client[c].op /\ w.row = client[c].row
      /\ w.alone = client[c].alone /\ w.count = n
  BY <1>2, <1>4, <1>5 DEF ClientStates, Ended
<1>7. client[c].op \in {"add", "show"} /\ client[c].row \in RowsOf(client[c].op)
  BY <1>3, <1>4 DEF Placed, Ended
<1>8. Placed(w)
  BY <1>6, <1>7 DEF Placed
<1>9. Seen(c)' = Seen(c)
  <2>1. client'[c] = w /\ items' = items
    BY <1>3 DEF LibraryInv, LibraryTyped, tables
  <2> QED BY <1>3, <1>6, <2>1 DEF Seen, Flushed
<1> QED BY <1>1, <1>3, <1>6, <1>7, <1>8, <1>9, ClientMoves

LEMMA ListItemsKeeps == ASSUME LibraryInv, NEW c \in Clients, ListItems(c) PROVE LibraryInv'
<1>1. PICK at, seen :   /\ at = (IF client[c].op = "show" THEN "ok" ELSE "commit")
                        /\ seen = Seen(c)
  OBVIOUS
<1>2. PICK w : w = [client[c] EXCEPT !.listed = seen, !.at = at]
  OBVIOUS
<1>3. client[c].at = "list" /\ client' = [client EXCEPT ![c] = w] /\ UNCHANGED <<tables, served>>
  BY <1>1, <1>2 DEF ListItems, LibraryInv, LibraryTyped
<1>4. client[c] \in ClientStates /\ Placed(client[c])
  BY ClientFacts DEF LibraryInv
<1>5. seen \in SUBSET LibraryApps /\ at \in {"ok", "commit"} /\ (at = "commit" => client[c].op # "show")
  BY <1>1, <1>3, SeenTypes DEF LibraryInv
<1>6. /\ w \in ClientStates /\ w.at = at /\ w.op = client[c].op /\ w.row = client[c].row
      /\ w.alone = client[c].alone /\ w.count = client[c].count /\ w.listed = seen
  BY <1>2, <1>4, <1>5 DEF ClientStates, Ended
<1>7. client[c].op \in {"add", "show"} /\ client[c].row \in RowsOf(client[c].op)
  BY <1>3, <1>4 DEF Placed, Ended
<1>8. Placed(w)
  BY <1>5, <1>6, <1>7 DEF Placed, Ended
<1>9. client[c].alone => client[c].count = Cardinality(Seen(c))
  BY <1>3 DEF LibraryInv, Fresh
<1>10. w.alone => w.count = Cardinality(w.listed)
  BY <1>1, <1>6, <1>9
<1> QED BY <1>3, <1>5, <1>6, <1>7, <1>8, <1>10, ClientMoves

--------------------------------------------------------------------------------
(* Requests commit *)

\* Those under way are no longer alone.
LEMMA CommitClients ==
    ASSUME LibraryInv, NEW c \in Clients, Commit(c)
    PROVE  /\ client[c].at = "commit" /\ client'[c].at = "ok" /\ client'[c].alone = client[c].alone
           /\ served' = served /\ client' \in [Clients -> ClientStates]
           /\ \A x \in Clients : /\ client'[x].op = client[x].op /\ client'[x].row = client[x].row
                                 /\ client'[x].count = client[x].count
                                 /\ client'[x].listed = client[x].listed
           /\ \A x \in Clients \ {c} : /\ client'[x].at = client[x].at
                                       /\ client'[x].alone => client[x].alone /\ client[x].at \in Ended
<1>1. ASSUME NEW x \in Clients, x # c
      PROVE  /\ client'[x] \in ClientStates
             /\ client'[x].op = client[x].op /\ client'[x].row = client[x].row
             /\ client'[x].count = client[x].count /\ client'[x].listed = client[x].listed
             /\ client'[x].at = client[x].at
             /\ client'[x].alone => client[x].alone /\ client[x].at \in Ended
  <2>1. PICK b : b = (client[x].alone /\ client[x].at \in Ended)
    OBVIOUS
  <2>2. b \in BOOLEAN /\ (b => client[x].alone /\ client[x].at \in Ended)
    BY <2>1, Zenon
  <2>3. client'[x] = [client[x] EXCEPT !.alone = b]
    BY <1>1, <2>1, Zenon DEF Commit
  <2>4. client[x] \in ClientStates
    BY ClientFacts DEF LibraryInv
  <2>5. /\ client'[x] \in ClientStates /\ client'[x].alone = b
        /\ client'[x].op = client[x].op /\ client'[x].row = client[x].row
        /\ client'[x].count = client[x].count /\ client'[x].listed = client[x].listed
        /\ client'[x].at = client[x].at
    BY <2>2, <2>3, <2>4 DEF ClientStates
  <2> QED BY <2>2, <2>5
<1>2. /\ client[c].at = "commit" /\ served' = served
      /\ client'[c] = [client[c] EXCEPT !.at = "ok"]
  BY DEF Commit
<1>3. client[c] \in ClientStates
  BY ClientFacts DEF LibraryInv
<1>4. /\ client'[c] \in ClientStates /\ client'[c].at = "ok" /\ client'[c].alone = client[c].alone
      /\ client'[c].op = client[c].op /\ client'[c].row = client[c].row
      /\ client'[c].count = client[c].count /\ client'[c].listed = client[c].listed
  BY <1>2, <1>3 DEF ClientStates, Ended
<1>5. client' = [x \in Clients |-> client'[x]]
  BY DEF Commit
<1>6. client' \in [Clients -> ClientStates]
  BY <1>1, <1>4, <1>5
<1> QED BY <1>1, <1>2, <1>4, <1>6

LEMMA CommitTyped == ASSUME LibraryInv, NEW c \in Clients, Commit(c) PROVE LibraryTyped'
<1>1. /\ client'[c].at = "ok" /\ served' = served /\ client' \in [Clients -> ClientStates]
      /\ client[c].at = "commit"
      /\ \A x \in Clients \ {c} : client'[x].op = client[x].op /\ client'[x].row = client[x].row
                                  /\ client'[x].at = client[x].at
  BY CommitClients
<1>2. \A x \in Clients : Placed(client[x])
  BY ClientFacts DEF LibraryInv
<1>3. \A x \in Clients : Placed(client'[x])
  BY <1>1, <1>2 DEF Placed, Ended
<1>4. client[c].row \in RowsOf(client[c].op) /\ client[c].op \in LibraryOps \ {"none", "show"}
  BY <1>1, <1>2, ClientFacts DEF Placed, Ended, LibraryInv
<1>5. PICK w : w = client[c]
  OBVIOUS
<1>6. favorites' \subseteq FavoriteRows /\ collections' \subseteq CollectionRows /\ items' \subseteq ItemRows
  <2>1. favorites \subseteq FavoriteRows /\ collections \subseteq CollectionRows /\ items \subseteq ItemRows
    BY DEF LibraryInv, LibraryTyped
  <2>2. CASE w.op = "favorite" \/ w.op = "unfavorite"
    BY <1>4, <1>5, <2>1, <2>2, RowsKnown DEF Commit, Committed
  <2>3. CASE w.op = "create" \/ w.op = "drop"
    BY <1>4, <1>5, <2>1, <2>3, RowsKnown DEF Commit, Committed
  <2>4. CASE w.op = "add"
    <3>1. Flushed(c) => w.row \in ItemRows
      BY <1>4, <1>5, <2>4, RowsKnown DEF Flushed, CountedItems
    <3> QED BY <1>5, <2>1, <2>4, <3>1 DEF Commit, Committed
  <2>5. CASE w.op = "take"
    BY <1>5, <2>1, <2>5 DEF Commit, Committed
  <2> QED BY <1>4, <1>5, <2>2, <2>3, <2>4, <2>5 DEF LibraryOps, Inserting
<1>7. events' \subseteq LibraryEvents
  <2>1. events \subseteq LibraryEvents
    BY DEF LibraryInv, LibraryTyped
  <2>2. CASE w.op \in {"favorite", "unfavorite"}
    <3>0. w.row \in FavoriteRows
      BY <1>4, <1>5, <2>2, RowsKnown
    <3>1. w.row.id \in Nat /\ w.alone \in BOOLEAN
      BY <1>5, <3>0, ClientFacts DEF FavoriteRows, LibraryInv
    <3>2. [kind |-> w.op, row |-> w.row.id, by |-> c, alone |-> w.alone] \in LibraryEvents
      BY <2>2, <3>1 DEF LibraryEvents
    <3>3. events' = events \cup {[kind |-> w.op, row |-> w.row.id, by |-> c, alone |-> w.alone]}
      BY <1>5, <2>2 DEF Commit, Committed
    <3> QED BY <2>1, <3>2, <3>3
  <2>3. CASE w.op \notin {"favorite", "unfavorite"}
    <3>1. events' = events
      BY <1>4, <1>5, <2>3 DEF Commit, Committed, LibraryOps, Inserting
    <3> QED BY <2>1, <3>1
  <2> QED BY <2>2, <2>3
<1> QED BY <1>1, <1>3, <1>6, <1>7 DEF LibraryInv, LibraryTyped

LEMMA CommitNumbers ==
    ASSUME LibraryInv, NEW c \in Clients, Commit(c)
    PROVE  Numbered(favorites, "favorite")' /\ Numbered(collections, "create")'
<1>1. /\ client'[c].at = "ok" /\ client[c].at = "commit" /\ served' = served
      /\ client[c].op \in LibraryOps \ {"none", "show"}
      /\ \A x \in Clients : client'[x].op = client[x].op /\ client'[x].row = client[x].row
      /\ \A x \in Clients \ {c} : client'[x].at = client[x].at
  BY CommitClients, ClientFacts DEF Placed, LibraryInv
<1>2. \A op : \A x \in Pending(op)' : x \in Pending(op) /\ x # c /\ client'[x].row = client[x].row
  BY <1>1 DEF Pending
<1>3. \A op : client[c].op = op => c \in Pending(op)
  BY <1>1 DEF Pending
<1>4. ASSUME NEW op, NEW T, NEW U, Numbered(T, op),
             U \subseteq T \/ (client[c].op = op /\ U = T \cup {client[c].row})
      PROVE  /\ \A r \in U : r.id <= served'
             /\ \A r, q \in U : r.id = q.id => r = q
             /\ \A x \in Pending(op)' : /\ client'[x].row.id <= served'
                                        /\ \A r \in U : r.id # client'[x].row.id
             /\ \A x, y \in Pending(op)' : client'[x].row.id = client'[y].row.id => x = y
  <2>1. CASE U \subseteq T
    BY <1>1, <1>2, <1>4, <2>1 DEF Numbered
  <2>2. CASE client[c].op = op /\ U = T \cup {client[c].row}
    BY <1>1, <1>2, <1>3, <1>4, <2>2 DEF Numbered
  <2> QED BY <1>4, <2>1, <2>2
<1>5. \/ favorites' \subseteq favorites
      \/ client[c].op = "favorite" /\ favorites' = favorites \cup {client[c].row}
  BY <1>1 DEF Commit, Committed, LibraryOps, Inserting
<1>6. \/ collections' \subseteq collections
      \/ client[c].op = "create" /\ collections' = collections \cup {client[c].row}
  BY <1>1 DEF Commit, Committed, LibraryOps, Inserting
<1>7. Numbered(favorites, "favorite")'
  <2>1. PICK T, U : T = favorites /\ U = favorites'
    OBVIOUS
  <2>2. Numbered(T, "favorite")
    BY <2>1 DEF LibraryInv
  <2>3. U \subseteq T \/ (client[c].op = "favorite" /\ U = T \cup {client[c].row})
    BY <1>5, <2>1
  <2>4. /\ \A r \in U : r.id <= served'
        /\ \A r, q \in U : r.id = q.id => r = q
        /\ \A x \in Pending("favorite")' : /\ client'[x].row.id <= served'
                                         /\ \A r \in U : r.id # client'[x].row.id
        /\ \A x, y \in Pending("favorite")' : client'[x].row.id = client'[y].row.id => x = y
    BY <1>4, <2>2, <2>3
  <2> QED BY <2>1, <2>4 DEF Numbered
<1>8. Numbered(collections, "create")'
  <2>1. PICK T, U : T = collections /\ U = collections'
    OBVIOUS
  <2>2. Numbered(T, "create")
    BY <2>1 DEF LibraryInv
  <2>3. U \subseteq T \/ (client[c].op = "create" /\ U = T \cup {client[c].row})
    BY <1>6, <2>1
  <2>4. /\ \A r \in U : r.id <= served'
        /\ \A r, q \in U : r.id = q.id => r = q
        /\ \A x \in Pending("create")' : /\ client'[x].row.id <= served'
                                         /\ \A r \in U : r.id # client'[x].row.id
        /\ \A x, y \in Pending("create")' : client'[x].row.id = client'[y].row.id => x = y
    BY <1>4, <2>2, <2>3
  <2> QED BY <2>1, <2>4 DEF Numbered
<1> QED BY <1>7, <1>8

LEMMA CommitEvents == ASSUME LibraryInv, NEW c \in Clients, Commit(c) PROVE EventsKept'
<1>1. /\ client'[c].at = "ok" /\ client[c].at = "commit" /\ served' = served
      /\ client[c].op \in LibraryOps \ {"none", "show"}
      /\ \A x \in Clients : client'[x].op = client[x].op /\ client'[x].row = client[x].row
      /\ \A x \in Clients \ {c} : /\ client'[x].at = client[x].at
                                  /\ client'[x].alone => client[x].alone /\ client[x].at \in Ended
  BY CommitClients, ClientFacts DEF Placed, LibraryInv
<1>2. \A op : \A x \in Pending(op)' : x \in Pending(op) /\ x # c /\ client'[x].row = client[x].row
                                      /\ ~client'[x].alone
  BY <1>1 DEF Pending, Ended
<1>3. PICK row, alone : row = client[c].row /\ alone = client[c].alone
  OBVIOUS
<1>4. CASE client[c].op = "favorite"
  <2>1. PICK e : e = [kind |-> "favorite", row |-> row.id, by |-> c, alone |-> alone]
    OBVIOUS
  <2>2. favorites' = favorites \cup {row} /\ events' = events \cup {e}
    BY <1>3, <1>4, <2>1 DEF Commit, Committed
  <2>3. e.kind = "favorite" /\ e.row = row.id
    BY <2>1
  <2>4. /\ c \in Pending("favorite") /\ row.id <= served
        /\ (\A g \in events : g.row # row.id) /\ (\A r \in favorites : r.id # row.id)
    BY <1>1, <1>3, <1>4 DEF Pending, LibraryInv, EventsKept, Numbered
  <2>5. \A id : /\ Reported("favorite", id)' <=> Reported("favorite", id) \/ id = row.id
                /\ Reported("unfavorite", id)' <=> Reported("unfavorite", id)
    BY <2>2, <2>3 DEF Reported
  <2>6. ~Reported("unfavorite", row.id)
    BY <2>4 DEF Reported
  <2>7. \A x \in Pending("favorite")' : \A g \in events' : g.row # client'[x].row.id
    BY <1>2, <1>3, <2>2, <2>3, <2>4 DEF LibraryInv, EventsKept, Numbered
  <2>8. \A f \in favorites' : Reported("favorite", f.id)' /\ ~Reported("unfavorite", f.id)'
    BY <2>2, <2>5, <2>6 DEF LibraryInv, EventsKept
  <2>9. \A g \in events' : g.kind = "favorite" =>
            (\E f \in favorites' : f.id = g.row) \/ Reported("unfavorite", g.row)'
    BY <2>2, <2>3, <2>5 DEF LibraryInv, EventsKept
  <2>10. ASSUME NEW x \in Pending("unfavorite")', NEW r, r = client'[x].row
         PROVE  /\ Reported("favorite", r.id)'
                /\ \A f \in favorites' : f.id = r.id => f = r
    <3>1. x \in Pending("unfavorite") /\ r = client[x].row
      BY <1>2, <2>10
    <3>2. Reported("favorite", r.id) /\ (\A f \in favorites : f.id = r.id => f = r)
      BY <3>1 DEF LibraryInv, EventsKept
    <3>3. r.id # row.id
      BY <2>4, <3>2 DEF Reported
    <3> QED BY <2>2, <2>5, <3>2, <3>3
  <2>11. \A g \in events' : g.row <= served'
    BY <1>1, <2>2, <2>3, <2>4 DEF LibraryInv, EventsKept
  <2>12. \A g, h \in events' : g.kind = "unfavorite" /\ h.kind = "unfavorite" /\ g.row = h.row /\ g # h =>
             ~g.alone \/ ~h.alone
    BY <2>2, <2>3 DEF LibraryInv, EventsKept
  <2> QED BY <1>2, <2>7, <2>8, <2>9, <2>10, <2>11, <2>12 DEF EventsKept
<1>5. CASE client[c].op = "unfavorite"
  <2>1. PICK e : e = [kind |-> "unfavorite", row |-> row.id, by |-> c, alone |-> alone]
    OBVIOUS
  <2>2. favorites' = favorites \ {row} /\ events' = events \cup {e}
    BY <1>3, <1>5, <2>1 DEF Commit, Committed
  <2>3. e.kind = "unfavorite" /\ e.row = row.id /\ (e.alone <=> alone)
    BY <2>1
  <2>4. /\ c \in Pending("unfavorite") /\ Reported("favorite", row.id)
        /\ (\A f \in favorites : f.id = row.id => f = row)
        /\ (alone => row \in favorites)
    BY <1>1, <1>3, <1>5 DEF Pending, LibraryInv, EventsKept
  <2>5. \A id : /\ Reported("unfavorite", id)' <=> Reported("unfavorite", id) \/ id = row.id
                /\ Reported("favorite", id)' <=> Reported("favorite", id)
    BY <2>2, <2>3 DEF Reported
  <2>6. row.id <= served /\ (\A x \in Pending("favorite") : client[x].row.id # row.id)
    BY <2>4 DEF LibraryInv, EventsKept, Reported
  <2>7. \A x \in Pending("favorite")' : \A g \in events' : g.row # client'[x].row.id
    BY <1>2, <2>2, <2>3, <2>6 DEF LibraryInv, EventsKept
  <2>8. \A f \in favorites' : Reported("favorite", f.id)' /\ ~Reported("unfavorite", f.id)'
    <3> TAKE f \in favorites'
    <3>1. f \in favorites /\ f # row /\ f.id # row.id
      BY <2>2, <2>4
    <3> QED BY <2>5, <3>1 DEF LibraryInv, EventsKept
  <2>9. \A g \in events' : g.kind = "favorite" =>
            (\E f \in favorites' : f.id = g.row) \/ Reported("unfavorite", g.row)'
    BY <2>2, <2>3, <2>5 DEF LibraryInv, EventsKept
  <2>10. ASSUME NEW x \in Pending("unfavorite")', NEW r, r = client'[x].row
         PROVE  /\ Reported("favorite", r.id)'
                /\ \A f \in favorites' : f.id = r.id => f = r
    <3>1. x \in Pending("unfavorite") /\ r = client[x].row
      BY <1>2, <2>10
    <3>2. Reported("favorite", r.id) /\ (\A f \in favorites : f.id = r.id => f = r)
      BY <3>1 DEF LibraryInv, EventsKept
    <3> QED BY <2>2, <2>5, <3>2
  <2>11. \A g \in events' : g.row <= served'
    BY <1>1, <2>2, <2>3, <2>6 DEF LibraryInv, EventsKept
  <2>12. ASSUME NEW g \in events', NEW h \in events', g.kind = "unfavorite", h.kind = "unfavorite",
                g.row = h.row, g # h, g.alone, h.alone
         PROVE  FALSE
    <3>1. CASE g \in events /\ h \in events
      BY <2>12, <3>1 DEF LibraryInv, EventsKept
    <3>2. ASSUME NEW k \in events, k.kind = "unfavorite", k.row = row.id, alone PROVE FALSE
      BY <2>4, <3>2 DEF LibraryInv, EventsKept, Reported
    <3> QED BY <2>2, <2>3, <2>12, <3>1, <3>2
  <2> QED BY <1>2, <2>7, <2>8, <2>9, <2>10, <2>11, <2>12 DEF EventsKept
<1>6. CASE client[c].op \notin {"favorite", "unfavorite"}
  <2>1. favorites' = favorites /\ events' = events
    BY <1>1, <1>6 DEF Commit, Committed, LibraryOps, Inserting
  <2>2. \A kind, id : Reported(kind, id)' <=> Reported(kind, id)
    BY <2>1 DEF Reported
  <2>3. \A x \in Pending("favorite")' : \A g \in events' : g.row # client'[x].row.id
    BY <1>2, <2>1 DEF LibraryInv, EventsKept
  <2>4. ASSUME NEW x \in Pending("unfavorite")', NEW r, r = client'[x].row
        PROVE  /\ Reported("favorite", r.id)'
               /\ \A f \in favorites' : f.id = r.id => f = r
    <3>1. x \in Pending("unfavorite") /\ r = client[x].row
      BY <1>2, <2>4
    <3>2. Reported("favorite", r.id) /\ (\A f \in favorites : f.id = r.id => f = r)
      BY <3>1 DEF LibraryInv, EventsKept
    <3> QED BY <2>1, <2>2, <3>2
  <2> QED BY <1>1, <1>2, <2>1, <2>2, <2>3, <2>4 DEF LibraryInv, EventsKept
<1> QED BY <1>4, <1>5, <1>6

LEMMA CommitKeeps == ASSUME LibraryInv, NEW c \in Clients, Commit(c) PROVE LibraryInv'
<1>1. ASSUME NEW x \in Clients PROVE Fresh(x)'
  <2>1. Fresh(x)
    BY DEF LibraryInv
  <2>2. CASE x = c
    BY <2>1, <2>2, CommitClients DEF Fresh
  <2>3. CASE x # c
    BY <2>1, <2>3, CommitClients DEF Fresh, Ended
  <2> QED BY <2>2, <2>3
<1> QED BY <1>1, CommitTyped, CommitNumbers, CommitEvents DEF LibraryInv

--------------------------------------------------------------------------------

LEMMA LibraryStays == LibraryInv /\ UNCHANGED libraryVars => LibraryInv'
<1> SUFFICES ASSUME LibraryInv, UNCHANGED libraryVars PROVE LibraryInv'
  OBVIOUS
<1>1. UNCHANGED <<favorites, events, collections, items, client, served>>
  BY DEF libraryVars
<1>2. LibraryTyped'
  BY <1>1 DEF LibraryInv, LibraryTyped
<1>3. Numbered(favorites, "favorite")' /\ Numbered(collections, "create")' /\ EventsKept'
  BY <1>1 DEF LibraryInv, Numbered, EventsKept, Pending, Reported
<1>4. \A c \in Clients : Fresh(c)'
  BY <1>1 DEF LibraryInv, Fresh, Refused, Table, Seen, Flushed
<1> QED BY <1>2, <1>3, <1>4 DEF LibraryInv

LEMMA NextLibrary == LibraryInv /\ [LibraryNext]_libraryVars => LibraryInv'
<1> SUFFICES ASSUME LibraryInv, [LibraryNext]_libraryVars PROVE LibraryInv'
  OBVIOUS
<1>1. CASE UNCHANGED libraryVars
  BY <1>1, LibraryStays
<1>2. ASSUME NEW c \in Clients, Insert(c) \/ CountItems(c) \/ ListItems(c) \/ Commit(c)
      PROVE  LibraryInv'
  BY <1>2, InsertKeeps, CountItemsKeeps, ListItemsKeeps, CommitKeeps
<1>3. ASSUME NEW c \in Clients, Opens(c) PROVE LibraryInv'
  BY <1>3, BeginKeeps DEF Opens
<1>4. ASSUME NEW c \in Clients, NEW k \in collections, ShowCollection(c, k) PROVE LibraryInv'
  BY <1>3, <1>4, ShowCollectionOpens
<1>5. ASSUME NEW c \in Clients, NEW u \in Users, NEW k \in collections, DeleteCollection(c, u, k)
      PROVE  LibraryInv'
  BY <1>3, <1>5, DeleteCollectionOpens
<1>6. ASSUME NEW c \in Clients, NEW u \in Users, NEW k \in collections, NEW a \in LibraryApps,
             AddItem(c, u, k, a) \/ RemoveItem(c, u, k, a)
      PROVE  LibraryInv'
  BY <1>3, <1>6, AddItemOpens, RemoveItemOpens
<1>7. ASSUME NEW c \in Clients, NEW u \in Users, NEW a \in LibraryApps,
             AddFavorite(c, u, a) \/ RemoveFavorite(c, u, a)
      PROVE  LibraryInv'
  BY <1>3, <1>7, AddFavoriteOpens, RemoveFavoriteOpens
<1>8. ASSUME NEW c \in Clients, NEW u \in Users, NEW n \in Names, NEW public \in BOOLEAN,
             CreateCollection(c, u, n, public)
      PROVE  LibraryInv'
  BY <1>3, <1>8, CreateCollectionOpens
<1> QED BY <1>1, <1>2, <1>4, <1>5, <1>6, <1>7, <1>8 DEF LibraryNext

LEMMA LibraryHolds == LibraryInv => LibraryHonest
<1> SUFFICES ASSUME LibraryInv PROVE FavoritesCounted /\ AloneIsServed
  BY DEF LibraryHonest
<1>1. \A kind, id : EventsOf(kind, id) = {e \in events : e.kind = kind /\ e.row = id}
  BY DEF EventsOf
<1>2. FavoritesCounted
  <2>1. \A kind, id : Reported(kind, id) <=> EventsOf(kind, id) # {}
    BY <1>1 DEF Reported
  <2>2. ASSUME NEW id \in 1 .. MaxServed, NEW f \in favorites, f.id = id
        PROVE  EventsOf("favorite", id) # {} /\ EventsOf("unfavorite", id) = {}
    BY <2>1, <2>2 DEF LibraryInv, EventsKept
  <2>3. ASSUME NEW id \in 1 .. MaxServed, EventsOf("favorite", id) # {}
        PROVE  (\E f \in favorites : f.id = id) \/ EventsOf("unfavorite", id) # {}
    <3>1. PICK e \in events : e.kind = "favorite" /\ e.row = id
      BY <1>1, <2>3
    <3> QED BY <2>1, <3>1 DEF LibraryInv, EventsKept
  <2>4. ASSUME NEW id \in 1 .. MaxServed, NEW e \in EventsOf("unfavorite", id),
               NEW f \in EventsOf("unfavorite", id), e # f
        PROVE  ~e.alone \/ ~f.alone
    BY <1>1, <2>4 DEF LibraryInv, EventsKept
  <2> QED BY <2>2, <2>3, <2>4 DEF FavoritesCounted
<1>3. AloneIsServed
  BY DEF AloneIsServed, LibraryInv, Fresh
<1> QED BY <1>2, <1>3

\* For any number of clients, users, applications and names: what the favourites' events count
\* is what happened, and a request nobody interferes with is never refused by a constraint and
\* counts what it lists.
THEOREM LibraryIsHonest == LibrarySpec => []LibraryHonest
BY LibraryStart, NextLibrary, LibraryHolds, PTL DEF LibrarySpec

--------------------------------------------------------------------------------
(* The search: numbers *)

LEMMA LeastOf ==
    ASSUME NEW T \in SUBSET Nat, T # {}
    PROVE  \E x \in T : \A y \in T : x <= y
BY LeastOfSome

LEMMA Inductive ==
    ASSUME NEW T, 0 \in T, \A n \in Nat : n \in T => n + 1 \in T
    PROVE  Nat \subseteq T
<1> DEFINE U == Nat \ T
<1> SUFFICES ASSUME U # {} PROVE FALSE
  OBVIOUS
<1>1. PICK x \in U : \A y \in U : x <= y
  BY LeastOf
<1>2. x # 0 /\ x - 1 \in Nat
  BY <1>1
<1>3. x - 1 \notin U
  BY <1>1, <1>2
<1> QED BY <1>1, <1>2, <1>3

--------------------------------------------------------------------------------
(* Sequences of the members of a set *)

LEMMA EachOnce ==
    ASSUME NEW S, IsFiniteSet(S), NEW s \in SetToSeqs(S)
    PROVE  /\ s \in Seq(S) /\ Len(s) = Cardinality(S) /\ Cardinality(S) \in Nat
           /\ DOMAIN s = 1 .. Cardinality(S)
           /\ ToSet(s) = S /\ \A a \in S : \E i \in 1 .. Cardinality(S) : s[i] = a
           /\ \A i, j \in 1 .. Cardinality(S) : i # j => s[i] # s[j]
<1> DEFINE n == Cardinality(S)
<1>1. n \in Nat
  BY FS_CardinalityType
<1>2. s \in [1 .. n -> S] /\ \A i, j \in 1 .. n : i # j => s[i] # s[j]
  BY DEF SetToSeqs
<1>3. s \in Injection(1 .. n, S)
  BY <1>2 DEF Injection, IsInjective
<1>4. IsFiniteSet(1 .. n) /\ Cardinality(1 .. n) = n
  BY <1>1, FS_Interval
<1>5. s \in Surjection(1 .. n, S)
  BY <1>3, <1>4, FS_Injection
<1>6. \A a \in S : \E i \in 1 .. n : s[i] = a
  BY <1>5 DEF Surjection
<1> HIDE DEF n
<1>7. s \in Seq(S) /\ Len(s) = n /\ DOMAIN s = 1 .. n
  BY <1>1, <1>2
<1>8. ToSet(s) = S
  BY <1>2, <1>6, <1>7 DEF ToSet
<1> QED BY <1>1, <1>2, <1>6, <1>7, <1>8 DEF n

\* An order in which no two members of S tie, as a set of pairs.
Linear(R, S) ==
    /\ \A a, b \in S : a # b => <<a, b>> \in R \/ <<b, a>> \in R
    /\ \A a, b, c \in S : <<a, b>> \in R /\ <<b, c>> \in R => <<a, c>> \in R

LEMMA GreatestOf ==
    ASSUME NEW S, NEW R, Linear(R, S)
    PROVE  \A U \in SUBSET S : IsFiniteSet(U) /\ U # {} =>
               \E g \in U : \A x \in U : x # g => <<x, g>> \in R
<1> DEFINE P(U) == \E g \in U : \A x \in U : x # g => <<x, g>> \in R
           T == {n \in Nat : \A U \in SUBSET S :
                                IsFiniteSet(U) /\ U # {} /\ Cardinality(U) = n => P(U)}
<1>1. 0 \in T
  BY FS_EmptySet
<1>2. ASSUME NEW n \in Nat, n \in T PROVE n + 1 \in T
  <2> SUFFICES ASSUME NEW U \in SUBSET S, IsFiniteSet(U), U # {}, Cardinality(U) = n + 1
               PROVE  P(U)
    OBVIOUS
  <2>1. PICK a : a \in U
    OBVIOUS
  <2> DEFINE V == U \ {a}
  <2>2. IsFiniteSet(V) /\ Cardinality(V) = n
    BY <2>1, FS_RemoveElement
  <2>3. CASE V = {}
    <3>1. U = {a}
      BY <2>1, <2>3
    <3> QED BY <3>1
  <2>4. CASE V # {}
    <3>1. P(V)
      BY <1>2, <2>2, <2>4
    <3>2. PICK g \in V : \A x \in V : x # g => <<x, g>> \in R
      BY <3>1
    <3>3. g \in S /\ a \in S /\ g # a
      BY <2>1, <3>2
    <3>4. CASE <<a, g>> \in R
      BY <3>2, <3>4
    <3>5. CASE <<g, a>> \in R
      <4>1. \A x \in U : x # a => <<x, a>> \in R
        <5> SUFFICES ASSUME NEW x \in U, x # a PROVE <<x, a>> \in R
          OBVIOUS
        <5>1. x \in V /\ x \in S
          OBVIOUS
        <5> QED BY <3>2, <3>3, <3>5, <5>1 DEF Linear
      <4> QED BY <2>1, <4>1
    <3> QED BY <3>3, <3>4, <3>5 DEF Linear
  <2> QED BY <2>3, <2>4
<1>3. Nat \subseteq T
  <2> HIDE DEF T
  <2> QED BY <1>1, <1>2, Inductive
<1>4. \A U : IsFiniteSet(U) => Cardinality(U) \in T
  <2> HIDE DEF T
  <2> QED BY <1>3, FS_CardinalityType
<1> QED BY <1>4

Sorted(s, R) == \A i, k \in DOMAIN s : i < k => <<s[i], s[k]>> \in R

LEMMA SortedByLast ==
    ASSUME NEW S, NEW R, IsFiniteSet(S),
           \A U \in SUBSET S : IsFiniteSet(U) /\ U # {} =>
               \E g \in U : \A x \in U : x # g => <<x, g>> \in R
    PROVE  \E s \in SetToSeqs(S) : Sorted(s, R)
<1> DEFINE P(U) == \E s \in SetToSeqs(U) : Sorted(s, R)
           T == {n \in Nat : \A U \in SUBSET S : IsFiniteSet(U) /\ Cardinality(U) = n => P(U)}
<1>1. 0 \in T
  <2>1. <<>> \in SetToSeqs({}) /\ Sorted(<<>>, R)
    <3>1. Cardinality({}) = 0 /\ 1 .. 0 = {}
      BY FS_EmptySet
    <3>2. <<>> \in [{} -> {}] /\ DOMAIN <<>> = {}
      OBVIOUS
    <3> QED BY <3>1, <3>2 DEF SetToSeqs, Sorted
  <2> QED BY <2>1, FS_EmptySet
<1>2. ASSUME NEW n \in Nat, n \in T PROVE n + 1 \in T
  <2> SUFFICES ASSUME NEW U \in SUBSET S, IsFiniteSet(U), Cardinality(U) = n + 1
               PROVE  P(U)
    OBVIOUS
  <2>1. U # {}
    BY FS_EmptySet
  <2>2. PICK g \in U : \A x \in U : x # g => <<x, g>> \in R
    BY <2>1
  <2> DEFINE V == U \ {g}
  <2>3. IsFiniteSet(V) /\ Cardinality(V) = n
    <3>1. IsFiniteSet(V) /\ Cardinality(V) = Cardinality(U) - 1
      BY <2>2, FS_RemoveElement
    <3> QED BY <3>1
  <2>4. PICK s \in SetToSeqs(V) : Sorted(s, R)
    BY <1>2, <2>3
  <2>5. s \in [1 .. n -> V] /\ \A i, j \in 1 .. n : i # j => s[i] # s[j]
    BY <2>3, <2>4 DEF SetToSeqs
  <2> DEFINE t == [i \in 1 .. n + 1 |-> IF i = n + 1 THEN g ELSE s[i]]
  <2>6. \A i \in 1 .. n + 1 : i # n + 1 => i \in 1 .. n /\ t[i] = s[i] /\ s[i] \in V
    BY <2>5
  <2>7. t \in [1 .. n + 1 -> U]
    BY <2>6
  <2>8. \A i, j \in 1 .. n + 1 : i # j => t[i] # t[j]
    <3> SUFFICES ASSUME NEW i \in 1 .. n + 1, NEW j \in 1 .. n + 1, i # j PROVE t[i] # t[j]
      OBVIOUS
    <3>1. CASE i = n + 1
      BY <2>6, <3>1
    <3>2. CASE j = n + 1
      BY <2>6, <3>2
    <3>3. CASE i # n + 1 /\ j # n + 1
      BY <2>5, <2>6, <3>3
    <3> QED BY <3>1, <3>2, <3>3
  <2>9. t \in SetToSeqs(U)
    BY <2>7, <2>8 DEF SetToSeqs
  <2>10. Sorted(t, R)
    <3> SUFFICES ASSUME NEW i \in 1 .. n + 1, NEW k \in 1 .. n + 1, i < k
                 PROVE  <<t[i], t[k]>> \in R
      BY <2>7 DEF Sorted
    <3>1. i # n + 1
      OBVIOUS
    <3>2. CASE k = n + 1
      <4>1. t[k] = g /\ t[i] \in V
        BY <2>6, <3>1, <3>2
      <4> QED BY <2>2, <4>1
    <3>3. CASE k # n + 1
      <4>1. t[i] = s[i] /\ t[k] = s[k] /\ i \in DOMAIN s /\ k \in DOMAIN s
        BY <2>5, <2>6, <3>1, <3>3
      <4> QED BY <2>4, <4>1 DEF Sorted
    <3> QED BY <3>2, <3>3
  <2> QED BY <2>9, <2>10
<1>3. Nat \subseteq T
  <2> HIDE DEF T
  <2> QED BY <1>1, <1>2, Inductive
<1>4. Cardinality(S) \in T
  <2> HIDE DEF T
  <2> QED BY <1>3, FS_CardinalityType
<1> QED BY <1>4

LEMMA SortedExists ==
    ASSUME NEW S, NEW R, Linear(R, S), IsFiniteSet(S)
    PROVE  \E s \in SetToSeqs(S) : Sorted(s, R)
<1> DEFINE P == \A U \in SUBSET S : IsFiniteSet(U) /\ U # {} =>
                    \E g \in U : \A x \in U : x # g => <<x, g>> \in R
           Q == \E s \in SetToSeqs(S) : Sorted(s, R)
<1>1. P
  BY GreatestOf
<1>2. P => Q
  BY SortedByLast
<1> QED BY <1>1, <1>2

\* Without ties there is one sorted sequence.
LEMMA SortedOnce ==
    ASSUME NEW S, IsFiniteSet(S), NEW K \in [S -> Int],
           \A a, b \in S : a # b => K[a] # K[b],
           NEW s \in SetToSeqs(S), NEW t \in SetToSeqs(S),
           \A i, k \in DOMAIN s : i < k => K[s[i]] <= K[s[k]],
           \A i, k \in DOMAIN t : i < k => K[t[i]] <= K[t[k]]
    PROVE  s = t
<1> DEFINE n == Cardinality(S)
           D == {i \in 1 .. n : s[i] # t[i]}
<1>1. n \in Nat /\ s \in Seq(S) /\ t \in Seq(S) /\ Len(s) = n /\ Len(t) = n
      /\ DOMAIN s = 1 .. n /\ DOMAIN t = 1 .. n
  BY EachOnce
<1>2. (\A a \in S : \E i \in 1 .. n : s[i] = a) /\ (\A a \in S : \E i \in 1 .. n : t[i] = a)
  <2>1. \A a \in S : \E i \in 1 .. n : s[i] = a
    BY EachOnce
  <2>2. \A a \in S : \E i \in 1 .. n : t[i] = a
    BY EachOnce
  <2> QED BY <2>1, <2>2
<1>3. \A i, j \in 1 .. n : i # j => s[i] # s[j] /\ t[i] # t[j]
  BY EachOnce
<1>4. \A i \in 1 .. n : s[i] \in S /\ t[i] \in S
  BY <1>1, ElementOfSeq
<1> HIDE DEF n
<1>5. CASE D = {}
  BY <1>1, <1>5, SeqEqual
<1>6. CASE D # {}
  <2>1. D \in SUBSET Nat
    OBVIOUS
  <2>2. PICK m \in D : \A y \in D : m <= y
    BY <1>6, <2>1, LeastOf
  <2>3. m \in 1 .. n /\ s[m] # t[m]
    BY <2>2
  <2>4. \A i \in 1 .. n : i < m => s[i] = t[i]
    BY <2>2, <2>3
  <2>5. PICK j \in 1 .. n : s[j] = t[m]
    BY <1>2, <1>4, <2>3
  <2>6. PICK k \in 1 .. n : t[k] = s[m]
    BY <1>2, <1>4, <2>3
  <2>7. j > m
    <3>1. j # m
      BY <2>3, <2>5
    <3>2. ~(j < m)
      BY <1>3, <2>3, <2>4, <2>5
    <3> QED BY <2>3, <3>1, <3>2
  <2>8. k > m
    <3>1. k # m
      BY <2>3, <2>6
    <3>2. ~(k < m)
      BY <1>3, <2>3, <2>4, <2>6
    <3> QED BY <2>3, <3>1, <3>2
  <2>9. K[s[m]] <= K[t[m]]
    BY <1>1, <2>3, <2>5, <2>7
  <2>10. K[t[m]] <= K[s[m]]
    BY <1>1, <2>3, <2>6, <2>8
  <2>11. K[s[m]] \in Int /\ K[t[m]] \in Int /\ s[m] \in S /\ t[m] \in S
    BY <1>4, <2>3
  <2> QED BY <2>3, <2>9, <2>10, <2>11
<1> QED BY <1>5, <1>6

--------------------------------------------------------------------------------
(* Pages of an answer *)

Prefix(s, n) == SubSeq(s, 1, IF n < Len(s) THEN n ELSE Len(s))

LEMMA OffsetType ==
    ASSUME NEW page \in Nat \ {0}
    PROVE  /\ Offset(page) \in Nat /\ Offset(page + 1) = Offset(page) + PerPage
           /\ Offset(page) >= page - 1 /\ Offset(1) = 0
<1> DEFINE q == page - 1
<1>1. q \in Nat /\ PerPage \in Nat \ {0}
  BY SearchAssumption
<1>2. q * PerPage \in Nat /\ q * PerPage >= q
  <2> DEFINE T == {n \in Nat : n * PerPage \in Nat /\ n * PerPage >= n}
  <2>1. 0 \in T
    BY <1>1
  <2>2. ASSUME NEW n \in Nat, n \in T PROVE n + 1 \in T
    <3>1. (n + 1) * PerPage = n * PerPage + PerPage
      BY <1>1
    <3> QED BY <1>1, <2>2, <3>1
  <2>3. Nat \subseteq T
    <3> HIDE DEF T
    <3> QED BY <2>1, <2>2, Inductive
  <2> QED BY <1>1, <2>3
<1>3. (q + 1) * PerPage = q * PerPage + PerPage
  BY <1>1
<1>4. page + 1 - 1 = q + 1
  OBVIOUS
<1>5. Offset(page + 1) = (q + 1) * PerPage /\ Offset(page) = q * PerPage
  BY <1>4 DEF Offset
<1>6. Offset(1) = 0
  <2>1. 0 * PerPage = 0
    BY <1>1
  <2> QED BY <2>1 DEF Offset
<1> HIDE DEF q
<1> QED BY <1>2, <1>3, <1>5, <1>6 DEF q

\* What has been read and the next page are what has been read next.
LEMMA NextPage ==
    ASSUME NEW S, NEW s \in Seq(S), NEW page \in Nat \ {0}
    PROVE  /\ PageOf(s, page) \in Seq(S)
           /\ Prefix(s, Offset(page)) \o PageOf(s, page) = Prefix(s, Offset(page + 1))
<1> DEFINE o == Offset(page)
           n == Len(s)
<1>1. o \in Nat /\ Offset(page + 1) = o + PerPage /\ PerPage \in Nat /\ n \in Nat
  <2>1. Offset(page) \in Nat /\ Offset(page + 1) = Offset(page) + PerPage
    BY OffsetType
  <2>2. PerPage \in Nat
    BY SearchAssumption
  <2> QED BY <2>1, <2>2, LenProperties
<1> DEFINE e == IF o + PerPage < n THEN o + PerPage ELSE n
<1>2. PageOf(s, page) = SubSeq(s, o + 1, e)
  BY DEF PageOf
<1>3. Prefix(s, o) = SubSeq(s, 1, IF o < n THEN o ELSE n)
  BY DEF Prefix
<1>4. Prefix(s, Offset(page + 1)) = SubSeq(s, 1, e)
  BY <1>1 DEF Prefix
<1> HIDE DEF o
<1>5. e \in 0 .. n
  BY <1>1
<1> HIDE DEF e
<1>6. \A i \in o + 1 .. e : s[i] \in S
  BY <1>1, <1>5, ElementOfSeq
<1>7. PageOf(s, page) \in Seq(S)
  <2>1. o + 1 \in Int /\ e \in Int
    BY <1>1, <1>5
  <2> QED BY <1>2, <1>6, <2>1, SubSeqProperties
<1>8. CASE o <= n
  <2>1. o <= e
    BY <1>1, <1>8 DEF e
  <2>2. (IF o < n THEN o ELSE n) = o
    BY <1>1, <1>8
  <2>3. SubSeq(s, 1, o) \o SubSeq(s, o + 1, e) = SubSeq(s, 1, e)
    <3>1. 1 \in 1 .. n + 1 /\ o \in 1 - 1 .. n /\ e \in o .. n
      BY <1>1, <1>5, <1>8, <2>1
    <3> QED BY <3>1, ConcatAdjacentSubSeq DEF n
  <2> QED BY <1>2, <1>3, <1>4, <1>7, <2>2, <2>3 DEF o
<1>9. CASE o > n
  <2>1. e = n
    BY <1>1, <1>9 DEF e
  <2>2. SubSeq(s, o + 1, n) = <<>>
    BY <1>1, <1>9, SubSeqEmpty
  <2>3. SubSeq(s, 1, n) = s
    BY SubSeqFull
  <2>4. (IF o < n THEN o ELSE n) = n
    BY <1>1, <1>9
  <2>5. s \o <<>> = s
    BY ConcatEmptySeq
  <2> QED BY <1>2, <1>3, <1>4, <1>7, <2>1, <2>2, <2>3, <2>4, <2>5 DEF o
<1> QED BY <1>1, <1>8, <1>9

--------------------------------------------------------------------------------
(* The invariant *)

ReaderStates == [page : Nat \ {0}, seen : Seq(Catalogue), backends : SUBSET {"engine", "database"},
                 disturbed : BOOLEAN, failed : BOOLEAN]

SearchTyped ==
    /\ app_rows \in [Catalogue -> AppRows]
    /\ indexed \in [Catalogue -> AppRows \cup {NoDocument}]
    /\ engine \in {"up", "down"} /\ request \in Requests
    /\ reader \in ReaderStates /\ changes \in Nat

\* Nothing is read before a backend answers, and the engine is asked only what it can answer
ReadBefore ==
    /\ reader.backends = {} => reader.page = 1 /\ reader.seen = <<>>
    /\ "engine" \in reader.backends => CanUseEngine(request)

\* An undisturbed reader has the pages before its own of one and the same order
ReadSoFar ==
    ~reader.disturbed =>
        /\ reader.backends = {"engine"} => reader.seen = Prefix(IndexOrder, Offset(reader.page))
        /\ reader.backends = {"database"} /\ ~Ties(DatabaseMatches) =>
               \E order \in Orders(DatabaseMatches, request.sort) :
                   reader.seen = Prefix(order, Offset(reader.page))

SearchInv == SearchTyped /\ ReadBefore /\ ReadSoFar /\ FiltersKept /\ FailsForCause

LEMMA RowTypes ==
    ASSUME SearchTyped
    PROVE  /\ \A a \in Catalogue : app_rows[a] \in AppRows
           /\ \A a \in Catalogue : indexed[a] # NoDocument => indexed[a] \in AppRows
           /\ \A a \in Catalogue : app_rows[a].name \in Int /\ app_rows[a].score \in Int
                                   /\ app_rows[a].trust \in Int
           /\ \A a \in IndexMatches : a \in Catalogue /\ indexed[a].name \in Int
                                      /\ indexed[a].score \in Int
<1>1. \A a \in Catalogue : app_rows[a] \in AppRows
  BY DEF SearchTyped
<1>2. \A a \in Catalogue : indexed[a] # NoDocument => indexed[a] \in AppRows
  BY DEF SearchTyped
<1>3. \A r \in AppRows : r.name \in Int /\ r.score \in Int /\ r.trust \in Int
  BY DEF AppRows
<1>4. \A a \in IndexMatches : a \in Catalogue /\ indexed[a] # NoDocument
  BY DEF IndexMatches, InIndex
<1> QED BY <1>1, <1>2, <1>3, <1>4

LEMMA RequestTypes ==
    ASSUME SearchTyped
    PROVE  /\ request.trust \in Int /\ request.sort \in {"name", "popularity"}
           /\ request.open \in {"none", "true", "on", "false"}
           /\ request.text \in STRING /\ request.category \in STRING
BY SearchAssumption DEF SearchTyped

LEMMA MatchesFinite ==
    /\ IsFiniteSet(Catalogue) /\ IsFiniteSet(DatabaseMatches) /\ IsFiniteSet(IndexMatches)
    /\ Cardinality(Catalogue) \in Nat
    /\ Cardinality(DatabaseMatches) <= Cardinality(Catalogue)
    /\ Cardinality(IndexMatches) <= Cardinality(Catalogue)
    /\ DatabaseMatches \subseteq Catalogue /\ IndexMatches \subseteq Catalogue
<1>1. IsFiniteSet(Catalogue) /\ DatabaseMatches \subseteq Catalogue /\ IndexMatches \subseteq Catalogue
  BY SearchAssumption DEF DatabaseMatches, IndexMatches
<1> QED BY <1>1, FS_Subset, FS_CardinalityType

\* There is one order the engine can sort its matches in.
LEMMA EngineOrders ==
    ASSUME SearchTyped
    PROVE  IndexOrder \in SetToSeqs(IndexMatches)
<1> DEFINE S == IndexMatches
           R == {p \in S \X S : IndexedBefore(p[1], p[2])}
<1>1. \A a \in S : a \in Int /\ IndexKey(a) \in Int /\ Distance[a] \in Int
  <2>1. \A a \in S : a \in Catalogue /\ indexed[a].name \in Int /\ indexed[a].score \in Int
    BY RowTypes
  <2>2. \A a \in S : IndexKey(a) = indexed[a].name \/ IndexKey(a) = -indexed[a].score
    BY DEF IndexKey
  <2>3. Catalogue \subseteq Nat /\ \A a \in Catalogue : Distance[a] \in Nat
    BY SearchAssumption
  <2> HIDE DEF S
  <2>5. ASSUME NEW a \in S PROVE a \in Int /\ IndexKey(a) \in Int /\ Distance[a] \in Int
    <3> DEFINE k == indexed[a].name
               l == indexed[a].score
    <3>1. a \in Int
      <4>1. a \in Catalogue
        BY <2>1
      <4>2. a \in Nat
        BY <2>3, <4>1
      <4> QED BY <4>2
    <3>2. k \in Int /\ l \in Int /\ -l \in Int
      BY <2>1
    <3>3. IndexKey(a) = k \/ IndexKey(a) = -l
      BY <2>2
    <3>4. Distance[a] \in Int
      <4>1. a \in Catalogue
        BY <2>1, Zenon
      <4>2. Distance[a] \in Nat
        BY <2>3, <4>1, Zenon
      <4> QED BY <4>2
    <3> HIDE DEF k, l
    <3>5. IndexKey(a) \in Int
      BY <3>2, <3>3
    <3> QED BY <3>1, <3>4, <3>5, Zenon
  <2> QED BY <2>5
<1>2. \A a, b \in S : <<a, b>> \in R <=> IndexedBefore(a, b)
  OBVIOUS
<1>3. \A a, b \in S : a # b => IndexedBefore(a, b) \/ IndexedBefore(b, a)
  BY <1>1 DEF IndexedBefore
<1>4. \A a, b, c \in S : IndexedBefore(a, b) /\ IndexedBefore(b, c) => IndexedBefore(a, c)
  BY <1>1 DEF IndexedBefore
<1>5. IsFiniteSet(S)
  BY MatchesFinite
<1> HIDE DEF R, S
<1>6. Linear(R, S)
  BY <1>2, <1>3, <1>4 DEF Linear
<1>7. PICK s \in SetToSeqs(S) : Sorted(s, R)
  BY <1>5, <1>6, SortedExists
<1>8. \A i \in DOMAIN s : s[i] \in S
  BY DEF SetToSeqs
<1>9. \A i, k \in DOMAIN s : i < k => IndexedBefore(s[i], s[k])
  BY <1>2, <1>7, <1>8 DEF Sorted
<1> QED BY <1>7, <1>9 DEF IndexOrder, S

LEMMA OrdersType ==
    ASSUME NEW order \in Orders(DatabaseMatches, request.sort)
    PROVE  order \in SetToSeqs(DatabaseMatches)
BY DEF Orders

\* Without ties there is one order of the database either.
LEMMA DatabaseOrder ==
    ASSUME SearchTyped, ~Ties(DatabaseMatches),
           NEW s \in Orders(DatabaseMatches, request.sort),
           NEW t \in Orders(DatabaseMatches, request.sort)
    PROVE  s = t
<1> DEFINE S == DatabaseMatches
           K == [a \in S |-> SortKey(a, request.sort)]
<1>1. \A a \in S : SortKey(a, request.sort) \in Int
  <2>1. \A a \in S : app_rows[a].name \in Int /\ app_rows[a].score \in Int
    BY RowTypes, MatchesFinite
  <2>2. \A a \in S : \/ SortKey(a, request.sort) = app_rows[a].name
                     \/ SortKey(a, request.sort) = -app_rows[a].score
    BY DEF SortKey
  <2> QED BY <2>1, <2>2
<1>2. K \in [S -> Int] /\ \A a \in S : K[a] = SortKey(a, request.sort)
  BY <1>1
<1>3. \A a, b \in S : a # b => K[a] # K[b]
  BY DEF Ties
<1>4. s \in SetToSeqs(S) /\ t \in SetToSeqs(S) /\ IsFiniteSet(S)
  BY OrdersType, MatchesFinite
<1>5. (\A i \in DOMAIN s : s[i] \in S) /\ (\A i \in DOMAIN t : t[i] \in S)
  BY <1>4 DEF SetToSeqs
<1>6. /\ \A i, k \in DOMAIN s : i < k => SortKey(s[i], request.sort) <= SortKey(s[k], request.sort)
      /\ \A i, k \in DOMAIN t : i < k => SortKey(t[i], request.sort) <= SortKey(t[k], request.sort)
  BY DEF Orders
<1> HIDE DEF S, K
<1>7. /\ \A i, k \in DOMAIN s : i < k => K[s[i]] <= K[s[k]]
      /\ \A i, k \in DOMAIN t : i < k => K[t[i]] <= K[t[k]]
  BY <1>2, <1>5, <1>6
<1> QED BY <1>2, <1>3, <1>4, <1>7, SortedOnce

LEMMA InitSearch == SearchInit => SearchInv
<1> SUFFICES ASSUME SearchInit PROVE SearchInv
  OBVIOUS
<1>1. NoAnswer \in ReaderStates /\ NoAnswer.backends = {} /\ NoAnswer.page = 1
      /\ NoAnswer.seen = <<>> /\ ~NoAnswer.failed
  <2>1. <<>> \in Seq(Catalogue) /\ {} \in SUBSET {"engine", "database"} /\ 1 \in Nat \ {0}
    OBVIOUS
  <2> QED BY <2>1 DEF NoAnswer, ReaderStates
<1>2. SearchTyped
  BY <1>1, SearchAssumption DEF SearchInit, SearchTyped
<1>3. reader = NoAnswer
  BY DEF SearchInit
<1>4. ToSet(reader.seen) = {}
  <2>1. DOMAIN reader.seen = {}
    BY <1>1, <1>3
  <2> QED BY <2>1 DEF ToSet
<1>5. {} # {"engine"} /\ {} # {"database"} /\ "engine" \notin {}
  OBVIOUS
<1> QED BY <1>1, <1>2, <1>3, <1>4, <1>5 DEF SearchInv, ReadBefore, ReadSoFar, FiltersKept, FailsForCause

\* What disturbs a reader changes nothing it has read.
LEMMA Disturbed ==
    ASSUME SearchTyped, Disturb
    PROVE  /\ reader' \in ReaderStates /\ reader'.disturbed
           /\ reader'.page = reader.page /\ reader'.seen = reader.seen
           /\ reader'.backends = reader.backends /\ reader'.failed = reader.failed
<1> DEFINE b == TRUE
<1>1. reader' = [reader EXCEPT !.disturbed = b] /\ reader \in ReaderStates /\ b \in BOOLEAN
  BY DEF Disturb, SearchTyped
<1>2. b
  OBVIOUS
<1> HIDE DEF b
<1> QED BY <1>1, <1>2 DEF ReaderStates

LEMMA RescoreKeeps ==
    ASSUME SearchInv, NEW a \in Catalogue, NEW n \in {0, 1}, Rescore(a, n)
    PROVE  SearchInv'
<1> USE DEF SearchInv
<1>1. /\ app_rows' = [app_rows EXCEPT ![a].score = n] /\ changes' = changes + 1 /\ Disturb
      /\ UNCHANGED <<indexed, engine, request>>
  BY DEF Rescore
<1>2. app_rows \in [Catalogue -> AppRows]
  BY DEF SearchTyped
<1>3. app_rows' \in [Catalogue -> AppRows]
  <2>1. n \in Int
    OBVIOUS
  <2>2. [app_rows[a] EXCEPT !.score = n] \in AppRows
    BY <1>2, <2>1 DEF AppRows
  <2> QED BY <1>1, <1>2, <2>2
<1>4. \A c \in Catalogue : /\ app_rows'[c].trust = app_rows[c].trust
                           /\ app_rows'[c].texts = app_rows[c].texts
                           /\ app_rows'[c].open = app_rows[c].open
                           /\ app_rows'[c].category = app_rows[c].category
                           /\ app_rows'[c].faults = app_rows[c].faults
  <2> SUFFICES ASSUME NEW c \in Catalogue
               PROVE  /\ app_rows'[c].trust = app_rows[c].trust
                      /\ app_rows'[c].texts = app_rows[c].texts
                      /\ app_rows'[c].open = app_rows[c].open
                      /\ app_rows'[c].category = app_rows[c].category
                      /\ app_rows'[c].faults = app_rows[c].faults
    OBVIOUS
  <2>1. CASE c = a
    <3>1. app_rows'[c] = [app_rows[c] EXCEPT !.score = n] /\ app_rows[c] \in AppRows
      BY <1>1, <1>2, <2>1
    <3> QED BY <3>1 DEF AppRows
  <2>2. CASE c # a
    BY <1>1, <1>2, <2>2
  <2> QED BY <2>1, <2>2
<1>5. DatabaseMatches' = DatabaseMatches
  BY <1>1, <1>4 DEF DatabaseMatches, InDatabase
<1>6. \A c \in Catalogue : Raises(c)' = Raises(c)
  BY <1>4 DEF Raises
<1>7. SearchTyped'
  BY <1>1, <1>3, Disturbed DEF SearchTyped
<1>8. ReadBefore' /\ ReadSoFar'
  BY <1>1, Disturbed DEF ReadBefore, ReadSoFar
<1>9. FiltersKept'
  <2>1. ToSet(reader.seen) \subseteq Catalogue
    <3>1. reader.seen \in Seq(Catalogue)
      BY DEF SearchTyped, ReaderStates
    <3> QED BY <3>1 DEF ToSet
  <2>2. reader'.seen = reader.seen
    BY <1>1, Disturbed
  <2> QED BY <1>1, <1>4, <2>1, <2>2 DEF FiltersKept
<1>10. FailsForCause'
  <2>1. reader'.failed = reader.failed
    BY <1>1, Disturbed
  <2> QED BY <1>5, <1>6, <2>1, MatchesFinite DEF FailsForCause
<1> QED BY <1>7, <1>8, <1>9, <1>10

LEMMA IndexingKeeps ==
    ASSUME SearchInv, RunIndexing
    PROVE  SearchInv'
<1> USE DEF SearchInv
<1>1. /\ indexed' = [a \in Catalogue |-> Document(a)] /\ Disturb
      /\ UNCHANGED <<app_rows, engine, request, changes>>
  BY DEF RunIndexing
<1>2. indexed' \in [Catalogue -> AppRows \cup {NoDocument}]
  BY <1>1, RowTypes DEF Document
<1>3. SearchTyped'
  BY <1>1, <1>2, Disturbed DEF SearchTyped
<1>4. ReadBefore' /\ ReadSoFar'
  BY <1>1, Disturbed DEF ReadBefore, ReadSoFar
<1>5. FiltersKept' /\ FailsForCause'
  BY <1>1, Disturbed DEF FiltersKept, FailsForCause, DatabaseMatches, Raises
<1> QED BY <1>3, <1>4, <1>5

LEMMA EngineKeeps ==
    ASSUME SearchInv, EngineTurns
    PROVE  SearchInv'
<1> USE DEF SearchInv
<1>1. UNCHANGED <<app_rows, indexed, request, reader>>
  BY DEF EngineTurns
<1>2. SearchTyped'
  BY <1>1 DEF EngineTurns, SearchTyped
<1>3. DatabaseMatches' = DatabaseMatches /\ IndexMatches' = IndexMatches /\ IndexOrder' = IndexOrder
  BY <1>1 DEF DatabaseMatches, IndexMatches, IndexOrder, IndexedBefore, IndexKey
<1>4. /\ Orders(DatabaseMatches, request.sort)' = Orders(DatabaseMatches, request.sort)
      /\ Ties(DatabaseMatches)' <=> Ties(DatabaseMatches)
  BY <1>1, <1>3 DEF Orders, Ties, SortKey
<1>5. ReadSoFar'
  BY <1>1, <1>3, <1>4 DEF ReadSoFar
<1>6. ReadBefore' /\ FiltersKept' /\ FailsForCause'
  BY <1>1, <1>3 DEF ReadBefore, FiltersKept, FailsForCause, Raises
<1> QED BY <1>2, <1>5, <1>6

LEMMA SearchStutters ==
    ASSUME SearchInv, UNCHANGED searchVars
    PROVE  SearchInv'
<1> USE DEF SearchInv, searchVars
<1>2. SearchTyped'
  BY DEF SearchTyped
<1>3. DatabaseMatches' = DatabaseMatches /\ IndexMatches' = IndexMatches /\ IndexOrder' = IndexOrder
  BY DEF DatabaseMatches, IndexMatches, IndexOrder, IndexedBefore, IndexKey
<1>4. /\ Orders(DatabaseMatches, request.sort)' = Orders(DatabaseMatches, request.sort)
      /\ Ties(DatabaseMatches)' <=> Ties(DatabaseMatches)
  BY <1>3 DEF Orders, Ties, SortKey
<1>5. ReadSoFar'
  BY <1>3, <1>4 DEF ReadSoFar
<1>6. ReadBefore' /\ FiltersKept' /\ FailsForCause'
  BY <1>3 DEF ReadBefore, FiltersKept, FailsForCause, Raises
<1> QED BY <1>2, <1>5, <1>6

\* The definitions answers are sorted and chosen by are left alone by an answer.
LEMMA OrdersStand ==
    ASSUME UNCHANGED <<app_rows, indexed, request>>
    PROVE  /\ DatabaseMatches' = DatabaseMatches /\ IndexOrder' = IndexOrder
           /\ Orders(DatabaseMatches, request.sort)' = Orders(DatabaseMatches, request.sort)
           /\ Ties(DatabaseMatches)' <=> Ties(DatabaseMatches)
<1>1. DatabaseMatches' = DatabaseMatches /\ IndexMatches' = IndexMatches /\ IndexOrder' = IndexOrder
  BY DEF DatabaseMatches, IndexMatches, IndexOrder, IndexedBefore, IndexKey
<1>2. /\ Orders(DatabaseMatches, request.sort)' = Orders(DatabaseMatches, request.sort)
      /\ Ties(DatabaseMatches)' <=> Ties(DatabaseMatches)
  BY <1>1 DEF Orders, Ties, SortKey
<1> QED BY <1>1, <1>2

LEMMA GotTyped ==
    ASSUME SearchTyped, NEW got \in Seq(Catalogue), NEW by \in {"engine", "database"},
           Got(got, by), UNCHANGED <<app_rows, indexed, engine, request, changes>>
    PROVE  /\ SearchTyped'
           /\ reader'.page = reader.page + 1 /\ reader'.seen = reader.seen \o got
           /\ reader'.backends = reader.backends \cup {by}
           /\ reader'.disturbed = reader.disturbed /\ reader'.failed = reader.failed
<1> DEFINE p == reader.page + 1
           s == reader.seen \o got
           B == reader.backends \cup {by}
<1>1. reader' = [reader EXCEPT !.page = p, !.seen = s, !.backends = B]
  BY DEF Got
<1>2. reader \in ReaderStates
  BY DEF SearchTyped
<1>3. p \in Nat \ {0} /\ s \in Seq(Catalogue) /\ B \in SUBSET {"engine", "database"}
  <2>1. reader.page \in Nat \ {0} /\ reader.seen \in Seq(Catalogue)
        /\ reader.backends \in SUBSET {"engine", "database"}
    BY <1>2 DEF ReaderStates
  <2> QED BY <2>1, ConcatProperties
<1> HIDE DEF p, s, B
<1>4. /\ reader' \in ReaderStates /\ reader'.page = p /\ reader'.seen = s /\ reader'.backends = B
      /\ reader'.disturbed = reader.disturbed /\ reader'.failed = reader.failed
  BY <1>1, <1>2, <1>3 DEF ReaderStates
<1>5. SearchTyped'
  BY <1>4 DEF SearchTyped
<1> QED BY <1>4, <1>5 DEF p, s, B

\* The members of a sequence are those of its parts.
LEMMA JoinedMembers ==
    ASSUME NEW S, NEW s \in Seq(S), NEW t \in Seq(S), NEW T, ToSet(s) \subseteq T, ToSet(t) \subseteq T
    PROVE  ToSet(s \o t) \subseteq T
<1>1. /\ s \o t \in Seq(S) /\ Len(s \o t) = Len(s) + Len(t) /\ Len(s) \in Nat /\ Len(t) \in Nat
      /\ \A i \in 1 .. Len(s) + Len(t) : (s \o t)[i] = IF i <= Len(s) THEN s[i] ELSE t[i - Len(s)]
  BY ConcatProperties, LenProperties
<1>2. (\A i \in 1 .. Len(s) : s[i] \in T) /\ (\A i \in 1 .. Len(t) : t[i] \in T)
  BY LenProperties DEF ToSet
<1>3. DOMAIN (s \o t) = 1 .. Len(s) + Len(t)
  BY <1>1
<1> SUFFICES ASSUME NEW i \in 1 .. Len(s) + Len(t) PROVE (s \o t)[i] \in T
  BY <1>3 DEF ToSet
<1> QED BY <1>1, <1>2

LEMMA EmptyPrefix == ASSUME NEW S, NEW s \in Seq(S) PROVE Prefix(s, Offset(1)) = <<>>
<1>1. Offset(1) = 0 /\ Len(s) \in Nat
  BY OffsetType, LenProperties
<1>2. (IF 0 < Len(s) THEN 0 ELSE Len(s)) = 0
  BY <1>1
<1> QED BY <1>1, <1>2, SubSeqEmpty DEF Prefix

LEMMA AskedOfEngine ==
    ASSUME SearchTyped, CanUseEngine(request)
    PROVE  request.text # "" /\ ~(request.trust >= 0)
<1>1. request.text # "" /\ request.trust < 0
  BY DEF CanUseEngine
<1>2. request.trust \in Int
  BY RequestTypes
<1> DEFINE t == request.trust
<1>3. t < 0 /\ t \in Int => ~(t >= 0)
  <2> HIDE DEF t
  <2> QED OBVIOUS
<1> QED BY <1>1, <1>2, <1>3

LEMMA EngineAnswers ==
    ASSUME SearchInv, FromEngine
    PROVE  SearchInv'
<1> USE DEF SearchInv
<1> DEFINE got == PageOf(IndexOrder, reader.page)
<1>1. /\ Got(got, "engine") /\ CanUseEngine(request)
      /\ UNCHANGED <<app_rows, indexed, engine, request, changes>>
  BY DEF FromEngine, Answers
<1>2. reader.page \in Nat \ {0} /\ reader.seen \in Seq(Catalogue)
      /\ reader.backends \in SUBSET {"engine", "database"}
  BY DEF SearchTyped, ReaderStates
<1>3. IndexOrder \in Seq(Catalogue)
  <2>1. IndexOrder \in Seq(IndexMatches)
    BY EngineOrders, MatchesFinite, EachOnce
  <2> QED BY <2>1, MatchesFinite, SeqMonotonic
<1>4. /\ got \in Seq(Catalogue)
      /\ Prefix(IndexOrder, Offset(reader.page)) \o got = Prefix(IndexOrder, Offset(reader.page + 1))
  BY <1>2, <1>3, NextPage
<1> HIDE DEF got
<1>5. /\ SearchTyped'
      /\ reader'.page = reader.page + 1 /\ reader'.seen = reader.seen \o got
      /\ reader'.backends = reader.backends \cup {"engine"}
      /\ reader'.disturbed = reader.disturbed /\ reader'.failed = reader.failed
  BY <1>1, <1>4, GotTyped
<1>6. ReadBefore'
  BY <1>1, <1>5 DEF ReadBefore
<1>7. ReadSoFar'
  <2> SUFFICES ASSUME ~reader.disturbed
               PROVE  /\ reader'.backends = {"engine"} =>
                             reader'.seen = Prefix(IndexOrder, Offset(reader'.page))
                      /\ reader'.backends # {"database"}
    BY <1>1, <1>5, OrdersStand DEF ReadSoFar
  <2>1. reader'.backends # {"database"}
    <3>1. "engine" \in reader'.backends
      BY <1>5
    <3> QED BY <3>1
  <2>2. CASE reader'.backends = {"engine"}
    <3>1. reader.backends = {} \/ reader.backends = {"engine"}
      BY <1>5, <2>2
    <3>2. reader.seen = Prefix(IndexOrder, Offset(reader.page))
      <4>1. CASE reader.backends = {}
        BY <1>3, <4>1, EmptyPrefix DEF ReadBefore
      <4>2. CASE reader.backends = {"engine"}
        BY <4>2 DEF ReadSoFar
      <4> QED BY <3>1, <4>1, <4>2
    <3> QED BY <1>4, <1>5, <2>1, <3>2
  <2> QED BY <2>1, <2>2
<1>8. FiltersKept'
  <2>1. ~(request.trust >= 0)
    BY <1>1, AskedOfEngine
  <2> QED BY <1>1, <2>1 DEF FiltersKept
<1>9. FailsForCause'
  BY <1>1, <1>5, OrdersStand DEF FailsForCause, Raises
<1> QED BY <1>5, <1>6, <1>7, <1>8, <1>9

LEMMA DatabaseAnswers ==
    ASSUME SearchInv, FromDatabase
    PROVE  SearchInv'
<1> USE DEF SearchInv
<1>1. PICK order \in Orders(DatabaseMatches, request.sort) :
          IF \E i \in DOMAIN PageOf(order, reader.page) : Raises(PageOf(order, reader.page)[i])
          THEN reader' = [reader EXCEPT !.failed = TRUE]
          ELSE Got(PageOf(order, reader.page), "database")
  BY DEF FromDatabase
<1>2. UNCHANGED <<app_rows, indexed, engine, request, changes>>
  BY DEF FromDatabase
<1> DEFINE got == PageOf(order, reader.page)
<1>3. reader \in ReaderStates /\ reader.page \in Nat \ {0} /\ reader.seen \in Seq(Catalogue)
      /\ reader.backends \in SUBSET {"engine", "database"}
  BY DEF SearchTyped, ReaderStates
<1>4. order \in Seq(DatabaseMatches)
  BY OrdersType, MatchesFinite, EachOnce
<1>5. /\ got \in Seq(DatabaseMatches) /\ order \in Seq(Catalogue)
      /\ Prefix(order, Offset(reader.page)) \o got = Prefix(order, Offset(reader.page + 1))
  BY <1>3, <1>4, NextPage, MatchesFinite, SeqMonotonic
<1>6. got \in Seq(Catalogue)
  BY <1>5, MatchesFinite, SeqMonotonic
<1>7. ToSet(got) \subseteq DatabaseMatches
  BY <1>5 DEF ToSet
<1>8. CASE \E i \in DOMAIN got : Raises(got[i])
  <2> DEFINE b == TRUE
  <2>1. reader' = [reader EXCEPT !.failed = b] /\ b \in BOOLEAN
    BY <1>1, <1>8
  <2>2. \E a \in DatabaseMatches : Raises(a)
    BY <1>7, <1>8 DEF ToSet
  <2> HIDE DEF b
  <2>3. /\ reader' \in ReaderStates /\ reader'.page = reader.page /\ reader'.seen = reader.seen
        /\ reader'.backends = reader.backends /\ reader'.disturbed = reader.disturbed
    BY <1>3, <2>1 DEF ReaderStates
  <2>4. SearchTyped'
    BY <1>2, <2>3 DEF SearchTyped
  <2>5. ReadBefore' /\ FiltersKept'
    BY <1>2, <2>3 DEF ReadBefore, FiltersKept
  <2>6. ReadSoFar'
    BY <1>2, <2>3, OrdersStand DEF ReadSoFar
  <2>7. FailsForCause'
    BY <1>2, <2>2, OrdersStand DEF FailsForCause, Raises
  <2> QED BY <2>4, <2>5, <2>6, <2>7
<1>9. CASE ~\E i \in DOMAIN got : Raises(got[i])
  <2>1. Got(got, "database")
    BY <1>1, <1>9
  <2> HIDE DEF got
  <2>2. /\ SearchTyped'
        /\ reader'.page = reader.page + 1 /\ reader'.seen = reader.seen \o got
        /\ reader'.backends = reader.backends \cup {"database"}
        /\ reader'.disturbed = reader.disturbed /\ reader'.failed = reader.failed
    BY <1>2, <1>6, <2>1, GotTyped
  <2>3. ReadBefore'
    BY <1>2, <2>2 DEF ReadBefore
  <2>4. ReadSoFar'
    <3> SUFFICES ASSUME ~reader.disturbed
                 PROVE  /\ reader'.backends # {"engine"}
                        /\ reader'.backends = {"database"} /\ ~Ties(DatabaseMatches) =>
                               \E o \in Orders(DatabaseMatches, request.sort) :
                                   reader'.seen = Prefix(o, Offset(reader'.page))
      BY <1>2, <2>2, OrdersStand DEF ReadSoFar
    <3>1. reader'.backends # {"engine"}
      <4>1. "database" \in reader'.backends
        BY <2>2
      <4> QED BY <4>1
    <3>2. ASSUME reader'.backends = {"database"}, ~Ties(DatabaseMatches)
          PROVE  reader'.seen = Prefix(order, Offset(reader'.page))
      <4>1. reader.backends = {} \/ reader.backends = {"database"}
        BY <2>2, <3>2
      <4>2. reader.seen = Prefix(order, Offset(reader.page))
        <5>1. CASE reader.backends = {}
          BY <1>5, <5>1, EmptyPrefix DEF ReadBefore
        <5>2. CASE reader.backends = {"database"}
          BY <3>2, <5>2, DatabaseOrder DEF ReadSoFar
        <5> QED BY <4>1, <5>1, <5>2
      <4> QED BY <1>5, <2>2, <4>2
    <3> QED BY <3>1, <3>2
  <2>5. FiltersKept'
    <3> SUFFICES ASSUME request.trust >= 0
                 PROVE  \A a \in ToSet(reader'.seen) : app_rows[a].trust >= request.trust
      BY <1>2 DEF FiltersKept
    <3> DEFINE T == {a \in Catalogue : app_rows[a].trust >= request.trust}
    <3>1. ToSet(reader.seen) \subseteq T
      <4>1. ToSet(reader.seen) \subseteq Catalogue
        BY <1>3 DEF ToSet
      <4> QED BY <4>1 DEF FiltersKept
    <3>2. ToSet(got) \subseteq T
      BY <1>7, MatchesFinite DEF DatabaseMatches, InDatabase
    <3>3. ToSet(reader.seen \o got) \subseteq T
      <4> HIDE DEF T
      <4> QED BY <1>3, <1>6, <3>1, <3>2, JoinedMembers
    <3> QED BY <2>2, <3>3
  <2>6. FailsForCause'
    BY <1>2, <2>2, OrdersStand DEF FailsForCause, Raises
  <2> QED BY <2>2, <2>3, <2>4, <2>5, <2>6
<1> QED BY <1>8, <1>9

--------------------------------------------------------------------------------
(* What the invariant gives *)

LEMMA WholePrefix ==
    ASSUME NEW S, IsFiniteSet(S), NEW s \in SetToSeqs(S), NEW page \in Nat \ {0},
           Cardinality(S) < page
    PROVE  /\ Len(Prefix(s, Offset(page))) = Cardinality(ToSet(Prefix(s, Offset(page))))
           /\ ToSet(Prefix(s, Offset(page))) = S
<1>1. /\ s \in Seq(S) /\ Len(s) = Cardinality(S) /\ Cardinality(S) \in Nat /\ ToSet(s) = S
  BY EachOnce
<1>2. Offset(page) \in Nat /\ Offset(page) >= page - 1
  BY OffsetType
<1>3. ~(Offset(page) < Len(s))
  BY <1>1, <1>2
<1>4. Prefix(s, Offset(page)) = s
  BY <1>1, <1>3, SubSeqFull DEF Prefix
<1> QED BY <1>1, <1>4

LEMMA PagesAreWhole == SearchInv => PagesWhole
<1> SUFFICES ASSUME SearchInv, ~reader.disturbed, ~reader.failed, Cardinality(reader.backends) = 1,
                    reader.page > Cardinality(Catalogue),
                    reader.backends = {"database"} => ~Ties(DatabaseMatches)
             PROVE  /\ Len(reader.seen) = Cardinality(ToSet(reader.seen))
                    /\ ToSet(reader.seen) = IF reader.backends = {"engine"} THEN IndexMatches
                                            ELSE DatabaseMatches
  BY DEF PagesWhole
<1>1. reader.page \in Nat \ {0} /\ reader.backends \in SUBSET {"engine", "database"}
  BY DEF SearchInv, SearchTyped, ReaderStates
<1>2. reader.backends = {"engine"} \/ reader.backends = {"database"}
  <2>1. IsFiniteSet(reader.backends)
    <3>1. IsFiniteSet({"engine"}) /\ IsFiniteSet({"engine"} \cup {"database"})
      BY FS_Singleton, FS_AddElement
    <3>2. {"engine"} \cup {"database"} = {"engine", "database"}
      OBVIOUS
    <3> QED BY <1>1, <3>1, <3>2, FS_Subset
  <2>2. PICK x : reader.backends = {x}
    BY <2>1, FS_Singleton
  <2> QED BY <1>1, <2>2
<1>3. CASE reader.backends = {"engine"}
  <2>1. reader.seen = Prefix(IndexOrder, Offset(reader.page))
    BY <1>3 DEF SearchInv, ReadSoFar
  <2>2. IndexOrder \in SetToSeqs(IndexMatches) /\ IsFiniteSet(IndexMatches)
        /\ Cardinality(IndexMatches) < reader.page
    <3>1. Cardinality(IndexMatches) \in Nat
      BY MatchesFinite, FS_CardinalityType
    <3> QED BY <1>1, <3>1, EngineOrders, MatchesFinite DEF SearchInv
  <2> QED BY <1>1, <1>3, <2>1, <2>2, WholePrefix
<1>4. CASE reader.backends = {"database"}
  <2>1. PICK order \in Orders(DatabaseMatches, request.sort) :
            reader.seen = Prefix(order, Offset(reader.page))
    BY <1>4 DEF SearchInv, ReadSoFar
  <2>2. order \in SetToSeqs(DatabaseMatches) /\ IsFiniteSet(DatabaseMatches)
        /\ Cardinality(DatabaseMatches) < reader.page
    <3>1. Cardinality(DatabaseMatches) \in Nat
      BY MatchesFinite, FS_CardinalityType
    <3> QED BY <1>1, <2>1, <3>1, OrdersType, MatchesFinite
  <2>3. reader.backends # {"engine"}
    BY <1>4
  <2> QED BY <1>1, <2>1, <2>2, <2>3, WholePrefix
<1> QED BY <1>2, <1>3, <1>4

LEMMA SameChoice == SearchTyped => BackendsAgree
<1> SUFFICES ASSUME SearchTyped, \A a \in Catalogue : indexed[a] = app_rows[a],
                    CanUseEngine(request), request.open \in {"none", "true"},
                    NEW a \in Catalogue, app_rows[a].texts = {"substring", "words"},
                    request.category # app_rows[a].category.type
             PROVE  a \in IndexMatches <=> a \in DatabaseMatches
  BY DEF BackendsAgree, Document
<1>1. indexed[a] = app_rows[a] /\ app_rows[a] # NoDocument
  BY SearchAssumption, RowTypes
<1>2. request.text # "" /\ ~(request.trust >= 0)
  BY AskedOfEngine
<1>3. "words" \in app_rows[a].texts /\ "substring" \in app_rows[a].texts
  OBVIOUS
<1>4. OpenInDatabase(request.open, app_rows[a].open) <=> OpenInIndex(request.open, app_rows[a].open)
  <2>1. CASE request.open = "none"
    BY <2>1 DEF OpenInDatabase, OpenInIndex
  <2>2. CASE request.open = "true"
    BY <2>2 DEF OpenInDatabase, OpenInIndex
  <2> QED BY <2>1, <2>2
<1>5. a \in IndexMatches <=>
          /\ request.category # "" => request.category = app_rows[a].category.slug
          /\ OpenInIndex(request.open, app_rows[a].open)
  BY <1>1, <1>3 DEF IndexMatches, InIndex
<1>6. a \in DatabaseMatches <=>
          /\ request.category # "" =>
                 request.category \in {app_rows[a].category.slug, app_rows[a].category.type}
          /\ OpenInDatabase(request.open, app_rows[a].open)
  BY <1>2, <1>3 DEF DatabaseMatches, InDatabase
<1> QED BY <1>4, <1>5, <1>6

\* The catalogue's answers to a reader who pages, for any rows, requests and size of page:
\* filters are kept, pages are whole unless something changed, engine and database choose the
\* same, and an answer fails only for an application that cannot be shown.
THEOREM SearchIsHonest == SearchSpec => []SearchHonest
<1>1. SearchInv /\ [SearchNext]_searchVars => SearchInv'
  <2> SUFFICES ASSUME SearchInv, [SearchNext]_searchVars PROVE SearchInv'
    OBVIOUS
  <2>1. CASE SearchNext
    BY <2>1, RescoreKeeps, IndexingKeeps, EngineKeeps, EngineAnswers, DatabaseAnswers DEF SearchNext
  <2> QED BY <2>1, SearchStutters
<1>2. SearchInv => SearchHonest
  BY PagesAreWhole, SameChoice DEF SearchInv, SearchHonest
<1> QED BY <1>1, <1>2, InitSearch, PTL DEF SearchSpec

--------------------------------------------------------------------------------
(* The sources: sequences of words *)

\* A sequence with a word appended determines the sequence and the word.
LEMMA Appended ==
    ASSUME NEW S, NEW s \in Seq(S), NEW t \in Seq(S), NEW a \in S, NEW b \in S,
           Append(s, a) = Append(t, b)
    PROVE  s = t /\ a = b
BY AppendInjective

LEMMA LastIn ==
    ASSUME NEW S, NEW s \in Seq(S), NEW a \in S
    PROVE  /\ Append(s, a) \in Seq(S) /\ a \in Range(Append(s, a))
           /\ Front(Append(s, a)) = s /\ (s # <<>> => Len(Append(s, a)) > 1)
<1>1. Append(s, a) \in Seq(S) /\ Len(Append(s, a)) = Len(s) + 1 /\ Len(s) \in Nat
      /\ DOMAIN Append(s, a) = 1 .. Len(s) + 1 /\ Append(s, a)[Len(s) + 1] = a
      /\ \A i \in 1 .. Len(s) : Append(s, a)[i] = s[i]
  BY AppendProperties, LenProperties
<1>2. a \in Range(Append(s, a))
  <2>1. Len(s) + 1 \in 1 .. Len(s) + 1
    BY <1>1
  <2> QED BY <1>1, <2>1 DEF Range
<1>3. Front(Append(s, a)) = s
  <2> DEFINE u == Append(s, a)
             n == Len(s)
  <2>1. Front(u) = SubSeq(u, 1, n)
    BY <1>1 DEF Front
  <2>2. \A i \in 1 .. n : u[i] \in S /\ u[1 + i - 1] = s[i]
    <3> SUFFICES ASSUME NEW i \in 1 .. n PROVE u[i] \in S /\ u[1 + i - 1] = s[i]
      OBVIOUS
    <3>1. u[i] = s[i] /\ s[i] \in S /\ 1 + i - 1 = i
      BY <1>1
    <3> QED BY <3>1
  <2> HIDE DEF u
  <2>3. /\ SubSeq(u, 1, n) \in Seq(S) /\ Len(SubSeq(u, 1, n)) = IF 1 <= n THEN n - 1 + 1 ELSE 0
        /\ \A i \in 1 .. n - 1 + 1 : SubSeq(u, 1, n)[i] = u[1 + i - 1]
    BY <1>1, <2>2, SubSeqProperties
  <2>4. Len(SubSeq(u, 1, n)) = n /\ n - 1 + 1 = n
    BY <1>1, <2>3
  <2>5. \A i \in 1 .. n : SubSeq(u, 1, n)[i] = s[i]
    BY <2>2, <2>3, <2>4
  <2> QED BY <2>1, <2>3, <2>4, <2>5, SeqEqual DEF u
<1>4. s # <<>> => Len(s) + 1 > 1
  <2>1. s # <<>> => Len(s) \in Nat \ {0}
    BY EmptySeq
  <2> DEFINE n == Len(s)
  <2> HIDE DEF n
  <2>2. n \in Nat \ {0} => n + 1 > 1
    OBVIOUS
  <2> QED BY <2>1, <2>2 DEF n
<1> QED BY <1>1, <1>2, <1>3, <1>4

LEMMA TwoAppended ==
    ASSUME NEW S, NEW s \in Seq(S), NEW a \in S, NEW b \in S
    PROVE  s \o <<a, b>> = Append(Append(s, a), b)
<1>1. <<a>> \in Seq(S) /\ <<b>> \in Seq(S) /\ Append(s, a) \in Seq(S)
  BY AppendProperties
<1>2. <<a, b>> = <<a>> \o <<b>>
  <2>1. Append(<<a>>, b) = <<a>> \o <<b>>
    BY <1>1, AppendIsConcat
  <2>2. Append(<<a>>, b) = <<a, b>>
    <3>1. <<a, b>> \in Seq(S) /\ Len(<<a, b>>) = 2 /\ <<a, b>>[1] = a /\ <<a, b>>[2] = b
          /\ Len(<<a>>) = 1 /\ <<a>>[1] = a
      OBVIOUS
    <3>2. /\ Append(<<a>>, b) \in Seq(S) /\ Len(Append(<<a>>, b)) = 2
          /\ Append(<<a>>, b)[1] = a /\ Append(<<a>>, b)[2] = b
      BY <1>1, <3>1, AppendProperties
    <3>3. \A i \in 1 .. 2 : i = 1 \/ i = 2
      OBVIOUS
    <3> DEFINE u == Append(<<a>>, b)
               v == <<a, b>>
    <3> HIDE DEF u, v
    <3>4. \A i \in 1 .. 2 : u[i] = v[i]
      BY <3>1, <3>2, <3>3 DEF u, v
    <3> QED BY <3>1, <3>2, <3>4, SeqEqual DEF u, v
  <2> QED BY <2>1, <2>2
<1>3. Append(s, a) = s \o <<a>> /\ Append(Append(s, a), b) = Append(s, a) \o <<b>>
  BY <1>1, AppendIsConcat
<1> QED BY <1>1, <1>2, <1>3, ConcatAssociative

--------------------------------------------------------------------------------
(* The sources: entries, and what FMHY calls them *)

Sources == Hosting \cup Packages \cup {"homebrew", "winget", "fmhy"}

WorldTyped ==
    /\ world \in Worlds /\ listed \in 1 .. Len(world)
    /\ upstream \in [1 .. Len(world) -> Seq(Offered)]

LEMMA EntryTypes ==
    ASSUME WorldTyped
    PROVE  /\ world \in Seq(EntryRows) /\ Len(world) \in Nat /\ Entries \subseteq 1 .. Len(world)
           /\ \A e \in Entries : Of(e) \in EntryRows
           /\ \A e, f \in Entries : e # f /\ Of(e).source = Of(f).source =>
                  Of(e).number # Of(f).number /\ Of(e).path # Of(f).path
           /\ \A e, f \in Entries : Of(e).source = "fmhy" =>
                  Of(e).number \notin Range(Of(f).name) /\ Of(e).number # Of(f).platform
<1>1. world \in Seq(EntryRows) /\ Len(world) \in Nat /\ listed \in 1 .. Len(world)
  BY ConnectorsAssumption DEF WorldTyped
<1>2. Entries \subseteq 1 .. Len(world) /\ DOMAIN world = 1 .. Len(world)
  BY <1>1 DEF Entries
<1>3. \A e \in Entries : Of(e) \in EntryRows
  BY <1>1, <1>2, ElementOfSeq DEF Of
<1> QED BY <1>1, <1>2, <1>3, ConnectorsAssumption DEF WorldTyped, Of

LEMMA EntryFields ==
    ASSUME WorldTyped, NEW e \in Entries
    PROVE  /\ Of(e).source \in Sources /\ Of(e).number \in STRING /\ Of(e).path \in STRING
           /\ Of(e).name \in Seq(STRING) /\ Of(e).name # <<>> /\ Of(e).platform \in STRING
<1>1. \A r \in EntryRows : /\ r.source \in Sources /\ r.number \in STRING /\ r.path \in STRING
                           /\ r.name \in Seq(STRING) /\ r.name # <<>> /\ r.platform \in STRING
  BY DEF EntryRows, Sources
<1> QED BY <1>1, EntryTypes

\* What a row of FMHY may have been called by.
FmhyNames(e) == {Of(e).name, Append(Of(e).name, Of(e).platform),
                 Append(Append(Of(e).name, Of(e).platform), Of(e).number)}
Namesakes(e) == {f \in Siblings(e) : Of(f).name = Of(e).name}

LEMMA FmhyForms ==
    ASSUME WorldTyped, NEW e \in Entries
    PROVE  \/ FmhyId(e) = Of(e).name /\ Namesakes(e) = {e}
           \/ /\ FmhyId(e) = Append(Of(e).name, Of(e).platform) /\ Namesakes(e) # {e}
              /\ \A f \in Namesakes(e) : Of(f).platform = Of(e).platform => f = e
           \/ /\ FmhyId(e) = Append(Append(Of(e).name, Of(e).platform), Of(e).number)
              /\ Namesakes(e) # {e}
<1> DEFINE namesakes == {f \in Siblings(e) : Of(f).name = Of(e).name}
           alike     == {f \in namesakes : Of(f).platform = Of(e).platform}
<1>1. FmhyId(e) = CASE namesakes = {e} -> Of(e).name
                    [] namesakes # {e} /\ alike = {e} -> Append(Of(e).name, Of(e).platform)
                    [] OTHER -> Of(e).name \o <<Of(e).platform, Of(e).number>>
  BY DEF FmhyId
<1>2. Of(e).name \o <<Of(e).platform, Of(e).number>>
          = Append(Append(Of(e).name, Of(e).platform), Of(e).number)
  BY EntryFields, TwoAppended
<1>3. Namesakes(e) = namesakes
  BY DEF Namesakes
<1>4. e \in namesakes /\ e \in alike
  BY DEF Siblings
<1>5. alike = {e} => \A f \in Namesakes(e) : Of(f).platform = Of(e).platform => f = e
  BY <1>3
<1> HIDE DEF namesakes, alike
<1>6. CASE namesakes = {e}
  BY <1>1, <1>3, <1>6
<1>7. CASE namesakes # {e} /\ alike = {e}
  BY <1>1, <1>3, <1>5, <1>7
<1>8. CASE namesakes # {e} /\ alike # {e}
  BY <1>1, <1>2, <1>3, <1>8
<1> QED BY <1>6, <1>7, <1>8

\* Whatever an entry is called by now, nobody else was called by before, but a lookalike.
LEMMA CalledOnce ==
    ASSUME WorldTyped, NEW e \in Entries, NEW f \in Entries,
           Of(e).source = "fmhy", Of(f).source = "fmhy",
           FmhyId(f) \in FmhyNames(e), \A g \in Siblings(e) : Lookalikes(g) = {}
    PROVE  e = f
<1> DEFINE n == Of(e).name
           p == Of(e).platform
           h == Of(e).number
           m == Of(f).name
           q == Of(f).platform
           k == Of(f).number
<1>1. /\ n \in Seq(STRING) /\ n # <<>> /\ m \in Seq(STRING) /\ m # <<>>
      /\ p \in STRING /\ q \in STRING /\ h \in STRING /\ k \in STRING
  BY EntryFields
<1>2. /\ h \notin Range(m) /\ h # q /\ k \notin Range(n) /\ k # p
      /\ (h = k => e = f)
  BY EntryTypes
<1>3. e \in Siblings(e) /\ f \in Siblings(e) /\ e \in Siblings(f) /\ f \in Siblings(f)
  BY DEF Siblings
<1>4. e \notin Lookalikes(f) /\ f \notin Lookalikes(e)
  BY <1>3
<1>5. m # Append(n, p) /\ n # Append(m, q)
  <2>1. ASSUME m = Append(n, p) PROVE FALSE
    <3>1. Front(m) = n /\ Len(m) > 1
      BY <1>1, <2>1, LastIn
    <3> QED BY <1>3, <1>4, <3>1 DEF Lookalikes
  <2>2. ASSUME n = Append(m, q) PROVE FALSE
    <3>1. Front(n) = m /\ Len(n) > 1
      BY <1>1, <2>2, LastIn
    <3> QED BY <1>3, <1>4, <3>1 DEF Lookalikes
  <2> QED BY <2>1, <2>2
<1>6. n = m => f \in Namesakes(e) /\ e \in Namesakes(f)
  BY <1>3 DEF Namesakes
<1>7. FmhyId(f) = n \/ FmhyId(f) = Append(n, p) \/ FmhyId(f) = Append(Append(n, p), h)
  BY DEF FmhyNames
<1>8. \/ FmhyId(f) = m /\ Namesakes(f) = {f}
      \/ /\ FmhyId(f) = Append(m, q)
         /\ \A g \in Namesakes(f) : Of(g).platform = q => g = f
      \/ FmhyId(f) = Append(Append(m, q), k)
  BY FmhyForms
<1>9. /\ Append(n, p) \in Seq(STRING) /\ Append(m, q) \in Seq(STRING)
      /\ Append(Append(n, p), h) \in Seq(STRING) /\ Append(Append(m, q), k) \in Seq(STRING)
      /\ h \in Range(Append(Append(n, p), h)) /\ k \in Range(Append(Append(m, q), k))
  BY <1>1, LastIn
<1>10. CASE FmhyId(f) = m /\ Namesakes(f) = {f}
  <2>1. CASE m = n
    BY <1>6, <1>10, <2>1
  <2>2. CASE m = Append(n, p)
    BY <1>5, <2>2
  <2>3. CASE m = Append(Append(n, p), h)
    BY <1>2, <1>9, <2>3
  <2> QED BY <1>7, <1>10, <2>1, <2>2, <2>3
<1>11. CASE FmhyId(f) = Append(m, q) /\ \A g \in Namesakes(f) : Of(g).platform = q => g = f
  <2>1. CASE Append(m, q) = n
    BY <1>5, <2>1
  <2>2. CASE Append(m, q) = Append(n, p)
    <3>1. m = n /\ q = p
      BY <1>1, <2>2, Appended
    <3> QED BY <1>6, <1>11, <3>1
  <2>3. CASE Append(m, q) = Append(Append(n, p), h)
    <3>1. q = h
      BY <1>1, <1>9, <2>3, Appended
    <3> QED BY <1>2, <3>1
  <2> QED BY <1>7, <1>11, <2>1, <2>2, <2>3
<1>12. CASE FmhyId(f) = Append(Append(m, q), k)
  <2>1. CASE Append(Append(m, q), k) = n
    BY <1>2, <1>9, <2>1
  <2>2. CASE Append(Append(m, q), k) = Append(n, p)
    <3>1. k = p
      BY <1>1, <1>9, <2>2, Appended
    <3> QED BY <1>2, <3>1
  <2>3. CASE Append(Append(m, q), k) = Append(Append(n, p), h)
    <3>1. k = h
      BY <1>1, <1>9, <2>3, Appended
    <3> QED BY <1>2, <3>1
  <2> QED BY <1>7, <1>12, <2>1, <2>2, <2>3
<1> QED BY <1>8, <1>10, <1>11, <1>12

--------------------------------------------------------------------------------
(* The sources: releases of an entry *)

Syncable == Hosting \cup Packages \cup {"homebrew"}

\* What a release is told apart by, per source
ReleaseId(e, x) ==
    CASE Of(e).source \in {"github", "gitea"} -> <<"number", x.tag>>
      [] Of(e).source = "gitlab" -> <<x.name>>
      [] Of(e).source \in Packages \cup {"homebrew"} -> <<Ids(e).external, x.tag>>

\* Some releases of an entry, under their ids
Shaped(e, list) ==
    \E n \in Nat : /\ DOMAIN list = 1 .. n /\ Len(list) = n
                   /\ \A i \in 1 .. n : \E x \in Offered :
                         list[i] = [external |-> ReleaseId(e, x), of |-> x]

LEMMA DatedType ==
    ASSUME NEW list \in Seq(Offered)
    PROVE  ByDate(list) \in Seq(Offered)
<1> DEFINE D == DOMAIN list
           R == {p \in D \X D : Newer(list, p[1], p[2])}
           order == CHOOSE s \in SetToSeqs(D) :
                        \A i, k \in DOMAIN s : i < k => Newer(list, s[i], s[k])
<1>1. D = 1 .. Len(list) /\ Len(list) \in Nat /\ IsFiniteSet(D)
  BY LenProperties, FS_Interval
<1>2. \A i \in D : list[i].stamp \in Nat /\ i \in Nat
  <2>1. \A i \in D : list[i] \in Offered /\ i \in Nat
    BY <1>1, ElementOfSeq
  <2>2. \A x \in Offered : x.stamp \in Nat
    BY ConnectorsAssumption
  <2> QED BY <2>1, <2>2
<1>3. \A i, k \in D : <<i, k>> \in R <=> Newer(list, i, k)
  OBVIOUS
<1>4. \A i, k \in D : i # k => Newer(list, i, k) \/ Newer(list, k, i)
  BY <1>2 DEF Newer
<1>5. \A i, j, k \in D : Newer(list, i, j) /\ Newer(list, j, k) => Newer(list, i, k)
  BY <1>2 DEF Newer
<1> HIDE DEF D, R
<1>6. Linear(R, D)
  BY <1>3, <1>4, <1>5 DEF Linear
<1>7. PICK s \in SetToSeqs(D) : Sorted(s, R)
  BY <1>1, <1>6, SortedExists
<1>8. \A i \in DOMAIN s : s[i] \in D
  BY DEF SetToSeqs
<1>9. \A i, k \in DOMAIN s : i < k => Newer(list, s[i], s[k])
  BY <1>3, <1>7, <1>8 DEF Sorted
<1>10. order \in SetToSeqs(D)
  BY <1>9
<1> HIDE DEF order
<1>11. \A i \in D : order[i] \in D
  <2>1. order \in Seq(D) /\ Len(order) = Cardinality(D) /\ DOMAIN order = 1 .. Cardinality(D)
    BY <1>1, <1>10, EachOnce
  <2>2. Cardinality(D) = Len(list)
    BY <1>1, FS_Interval
  <2> QED BY <1>1, <2>1, <2>2, ElementOfSeq
<1>12. ByDate(list) = [i \in D |-> list[order[i]]]
  BY DEF ByDate, order, D
<1>13. \A i \in D : list[order[i]] \in Offered
  BY <1>1, <1>11, ElementOfSeq
<1> DEFINE n == Len(list)
<1> HIDE DEF n
<1>14. D = 1 .. n /\ n \in Nat
  BY <1>1 DEF n
<1> QED BY <1>12, <1>13, <1>14

LEMMA FirstShaped ==
    ASSUME NEW list \in Seq(Offered), NEW n \in Nat
    PROVE  UpTo(list, n) \in Seq(Offered)
<1> DEFINE m == IF Len(list) < n THEN Len(list) ELSE n
<1>1. Len(list) \in Nat /\ m \in Nat /\ m <= Len(list)
  BY LenProperties
<1>2. \A i \in 1 .. m : list[i] \in Offered
  BY <1>1, ElementOfSeq
<1> HIDE DEF m
<1>3. SubSeq(list, 1, m) \in Seq(Offered)
  BY <1>1, <1>2, SubSeqProperties
<1> QED BY <1>3 DEF UpTo, m

LEMMA TakenShaped ==
    ASSUME NEW e, NEW list, Shaped(e, list), NEW n \in Nat
    PROVE  Shaped(e, UpTo(list, n))
<1> DEFINE m == IF Len(list) < n THEN Len(list) ELSE n
           u == SubSeq(list, 1, m)
           S == {[external |-> ReleaseId(e, x), of |-> x] : x \in Offered}
<1>1. PICK l \in Nat : /\ DOMAIN list = 1 .. l /\ Len(list) = l
                       /\ \A i \in 1 .. l : list[i] \in S
  BY DEF Shaped
<1>2. m \in Nat /\ m <= l
  BY <1>1
<1>3. \A i \in 1 .. m : list[i] \in S
  BY <1>1, <1>2
<1> HIDE DEF m, S
<1>4. u \in Seq(S) /\ Len(u) = IF 1 <= m THEN m - 1 + 1 ELSE 0
  BY <1>2, <1>3, SubSeqProperties
<1>5. Len(u) = m
  BY <1>2, <1>4
<1> HIDE DEF u
<1>6. DOMAIN u = 1 .. m /\ \A i \in 1 .. m : u[i] \in S
  BY <1>4, <1>5, LenProperties, ElementOfSeq
<1>7. Shaped(e, u)
  BY <1>2, <1>5, <1>6 DEF Shaped, S
<1> QED BY <1>7 DEF UpTo, u, m

LEMMA ReleasesShaped ==
    ASSUME WorldTyped, NEW e \in Entries, Of(e).source \in Syncable
    PROVE  Shaped(e, Releases(e))
<1> DEFINE s == Of(e).source
           list == upstream[e]
<1>1. list \in Seq(Offered)
  BY EntryTypes DEF WorldTyped
<1>2. ASSUME NEW u \in Seq(Offered)
      PROVE  Shaped(e, [i \in DOMAIN u |-> [external |-> ReleaseId(e, u[i]), of |-> u[i]]])
  <2>1. DOMAIN u = 1 .. Len(u) /\ Len(u) \in Nat /\ \A i \in 1 .. Len(u) : u[i] \in Offered
    BY LenProperties, ElementOfSeq
  <2> DEFINE n == Len(u)
             v == [i \in 1 .. n |-> [external |-> ReleaseId(e, u[i]), of |-> u[i]]]
  <2>2. v = [i \in DOMAIN u |-> [external |-> ReleaseId(e, u[i]), of |-> u[i]]]
    BY <2>1
  <2> HIDE DEF n
  <2>3. DOMAIN v = 1 .. n /\ n \in Nat /\ Len(v) = n
    BY <2>1 DEF n
  <2>4. \A i \in 1 .. n : \E x \in Offered : v[i] = [external |-> ReleaseId(e, x), of |-> x]
    BY <2>1 DEF n
  <2> HIDE DEF v
  <2>5. Shaped(e, v)
    BY <2>3, <2>4 DEF Shaped
  <2> QED BY <2>2, <2>5
<1>3. CASE s = "github"
  <2>1. Releases(e) = [i \in DOMAIN ByDate(list) |-> [external |-> ReleaseId(e, ByDate(list)[i]), of |-> ByDate(list)[i]]]
    BY <1>3 DEF Releases, GitHubReleases, Entitled, ReleaseId, Packages
  <2> QED BY <1>1, <1>2, <2>1, DatedType
<1>4. CASE s = "gitlab"
  <2>1. Releases(e) = [i \in DOMAIN ByDate(list) |-> [external |-> ReleaseId(e, ByDate(list)[i]), of |-> ByDate(list)[i]]]
    BY <1>4 DEF Releases, GitLabReleases, Entitled, ReleaseId, Packages
  <2> QED BY <1>1, <1>2, <2>1, DatedType
<1>5. CASE s = "gitea"
  <2>1. Releases(e) = [i \in DOMAIN list |-> [external |-> ReleaseId(e, list[i]), of |-> list[i]]]
    BY <1>5 DEF Releases, GiteaReleases, Entitled, ReleaseId, Packages
  <2> QED BY <1>1, <1>2, <2>1
<1>6. CASE s = "fdroid"
  <2>1. Releases(e) = [i \in DOMAIN list |-> [external |-> ReleaseId(e, list[i]), of |-> list[i]]]
    BY <1>6 DEF Releases, FDroidReleases, Entitled, ReleaseId, Packages
  <2> QED BY <1>1, <1>2, <2>1
<1>7. CASE s = "flathub"
  <2>1. Releases(e) = [i \in DOMAIN list |-> [external |-> ReleaseId(e, list[i]), of |-> list[i]]]
    BY <1>7 DEF Releases, FlathubReleases, Entitled, ReleaseId, Packages
  <2> QED BY <1>1, <1>2, <2>1
<1>8. CASE s = "homebrew"
  <2> DEFINE u == UpTo(list, 1)
  <2>1. Releases(e) = [i \in DOMAIN u |-> [external |-> ReleaseId(e, u[i]), of |-> u[i]]]
    BY <1>8 DEF Releases, HomebrewReleases, Entitled, ReleaseId, Packages
  <2>2. u \in Seq(Offered)
    BY <1>1, FirstShaped
  <2> HIDE DEF u
  <2> QED BY <1>2, <2>1, <2>2
<1> QED BY <1>3, <1>4, <1>5, <1>6, <1>7, <1>8 DEF Syncable, Hosting, Packages


\* No later release of the list has the id of this one.
Final(list, i) == \A j \in DOMAIN list : j > i => list[j].external # list[i].external
\* The releases of an entry that a fetch takes
Within(e) == UpTo(Releases(e), TakeLimit)
\* The rows a fetch leaves: of those with one id the last
Told(e) == {[row |-> RowKey(e), external |-> Within(e)[i].external, tag |-> Within(e)[i].of.tag] :
                i \in {k \in DOMAIN Within(e) : Final(Within(e), k)}}

\* A row has the keys of its entry, or had them when it was made
RowsMade ==
    \A r \in rows :
        /\ r.entry \in Entries /\ r.source = Of(r.entry).source /\ r.key = <<r.source, r.external>>
        /\ r.source # "fmhy" => r.external = Ids(r.entry).external /\ r.full = Ids(r.entry).full
        /\ r.source = "fmhy" => \E id \in FmhyNames(r.entry) : r.full = <<"fmhy", id>>
        /\ r.source = "fmhy" /\ Namesakes(r.entry) = {r.entry} =>
               r.full = <<"fmhy", Of(r.entry).name>>

\* An asset and a link have the id of one of their entry's files
AssetsMade ==
    \A a \in assets : /\ a.entry \in Entries /\ Of(a.entry).source \in Syncable
                      /\ \E x \in Offered : a.id = AssetId(a.entry, x) /\ a.tag = x.tag
LinksMade ==
    \A l \in links : /\ l.entry \in Entries /\ Of(l.entry).source \in Syncable
                     /\ l.row[1] = Of(l.entry).source
                     /\ \E x \in Offered : l.asset = AssetId(l.entry, x) /\ l.tag = x.tag
                     /\ \E a \in assets : a.id = l.asset

\* A fetch leaves every row it told, until something is published
FetchedTold ==
    \A e \in fetched : e \in Entries /\ Of(e).source \in Syncable /\ Told(e) \subseteq releases

SourcesInv == WorldTyped /\ RowsMade /\ AssetsMade /\ LinksMade /\ FetchedTold

--------------------------------------------------------------------------------
(* The sources: keys that stay *)

LEMMA IdsStand ==
    ASSUME WorldTyped, world' = world, NEW e \in Entries, Of(e).source # "fmhy"
    PROVE  Ids(e)' = Ids(e)
<1>1. Of(e)' = Of(e) /\ Of(e).source \in Sources
  BY EntryFields DEF Of
<1> QED BY <1>1 DEF Ids, Sources, Hosting, Packages, GitHubRow, GitLabRow, GiteaRow, FDroidRow,
           FlathubRow, HomebrewRow, WingetRow

LEMMA KeysStand ==
    ASSUME WorldTyped, world' = world, NEW e \in Entries, Of(e).source \in Syncable
    PROVE  /\ Of(e)' = Of(e) /\ Ids(e)' = Ids(e) /\ RowKey(e)' = RowKey(e)
           /\ \A x \in Offered : AssetId(e, x)' = AssetId(e, x)
<1>1. Of(e)' = Of(e) /\ Of(e).source # "fmhy"
  BY DEF Of, Syncable, Hosting, Packages
<1>2. Ids(e)' = Ids(e)
  BY <1>1, IdsStand
<1>3. RowKey(e)' = RowKey(e)
  BY <1>1, <1>2 DEF RowKey
<1>4. \A x \in Offered : AssetId(e, x)' = AssetId(e, x)
  BY <1>1 DEF AssetId, Syncable, Hosting, Packages, GitHubAsset, GitLabAsset, GiteaAsset,
     FDroidAsset, FlathubAsset, HomebrewAsset
<1> QED BY <1>1, <1>2, <1>3, <1>4

LEMMA ToldStands ==
    ASSUME WorldTyped, world' = world, NEW e \in Entries, Of(e).source \in Syncable,
           upstream'[e] = upstream[e]
    PROVE  Told(e)' = Told(e)
<1>1. Of(e)' = Of(e) /\ Ids(e)' = Ids(e) /\ RowKey(e)' = RowKey(e)
  BY KeysStand
<1>2. Releases(e)' = Releases(e)
  BY <1>1 DEF Releases, Syncable, Hosting, Packages, GitHubReleases, GitLabReleases,
     GiteaReleases, FDroidReleases, FlathubReleases, HomebrewReleases, Entitled
<1>3. Within(e)' = Within(e)
  BY <1>2 DEF Within
<1> QED BY <1>1, <1>3 DEF Told

\* An asset's id is one entry's, but for Homebrew's names of files; and one release's, but for
\* Flathub's only file.
LEMMA AssetIdOf ==
    ASSUME WorldTyped, NEW e \in Entries, Of(e).source \in Syncable, NEW x \in Offered
    PROVE  /\ Of(e).source = "github"   => AssetId(e, x) = <<"gh", Of(e).number, x.tag>>
           /\ Of(e).source = "gitlab"   => AssetId(e, x) = <<"gl", Of(e).number, x.tag>>
           /\ Of(e).source = "gitea"    => AssetId(e, x) = <<"gitea", Of(e).number, x.tag>>
           /\ Of(e).source = "fdroid"   => AssetId(e, x) = <<"fdroid", Of(e).path, x.tag>>
           /\ Of(e).source = "flathub"  => AssetId(e, x) = <<"flathub", Of(e).path>>
           /\ Of(e).source = "homebrew" => AssetId(e, x) = <<"homebrew", x.file>>
BY DEF AssetId, GitHubAsset, GitLabAsset, GiteaAsset, FDroidAsset, FlathubAsset, HomebrewAsset

LEMMA AssetsApart ==
    ASSUME WorldTyped, NEW e \in Entries, NEW f \in Entries, NEW x \in Offered, NEW y \in Offered,
           Of(e).source \in Syncable, Of(f).source \in Syncable, AssetId(e, x) = AssetId(f, y)
    PROVE  /\ Of(e).source = Of(f).source
           /\ Of(e).source # "homebrew" => e = f
           /\ Of(e).source \notin {"homebrew", "flathub", "gitlab"} => x.tag = y.tag
<1>1. Of(e).source \in {"github", "gitlab", "gitea", "fdroid", "flathub", "homebrew"}
      /\ Of(f).source \in {"github", "gitlab", "gitea", "fdroid", "flathub", "homebrew"}
  BY DEF Syncable, Hosting, Packages
<1> DEFINE m(s) == CASE s = "github" -> "gh" [] s = "gitlab" -> "gl" [] s = "gitea" -> "gitea"
                     [] s = "fdroid" -> "fdroid" [] s = "flathub" -> "flathub"
                     [] s = "homebrew" -> "homebrew"
<1>2. AssetId(e, x)[1] = m(Of(e).source)
  BY <1>1, AssetIdOf
<1>3. AssetId(f, y)[1] = m(Of(f).source)
  BY <1>1, AssetIdOf
<1>4. Of(e).source = Of(f).source
  <2>1. m(Of(e).source) = m(Of(f).source)
    BY <1>2, <1>3
  <2> QED BY <1>1, <2>1
<1> HIDE DEF m
<1>5. Of(e).number = Of(f).number \/ Of(e).path = Of(f).path => e = f
  BY <1>4, EntryTypes
<1>6. CASE Of(e).source \in {"github", "gitlab", "gitea"}
  <2>1. AssetId(e, x)[2] = Of(e).number /\ AssetId(e, x)[3] = x.tag
    BY <1>6, AssetIdOf
  <2>2. AssetId(f, y)[2] = Of(f).number /\ AssetId(f, y)[3] = y.tag
    BY <1>4, <1>6, AssetIdOf
  <2> QED BY <1>4, <1>5, <2>1, <2>2
<1>7. CASE Of(e).source = "fdroid"
  <2>1. AssetId(e, x)[2] = Of(e).path /\ AssetId(e, x)[3] = x.tag
    BY <1>7, AssetIdOf
  <2>a. Of(f).source = "fdroid"
    BY <1>4, <1>7
  <2>2. AssetId(f, y)[2] = Of(f).path /\ AssetId(f, y)[3] = y.tag
    BY <2>a, AssetIdOf
  <2> QED BY <1>4, <1>5, <2>1, <2>2
<1>8. CASE Of(e).source = "flathub"
  <2>1. AssetId(e, x)[2] = Of(e).path
    BY <1>8, AssetIdOf
  <2>a. Of(f).source = "flathub"
    BY <1>4, <1>8
  <2>2. AssetId(f, y)[2] = Of(f).path
    BY <2>a, AssetIdOf
  <2> QED BY <1>4, <1>5, <1>8, <2>1, <2>2
<1>9. CASE Of(e).source = "homebrew"
  BY <1>4, <1>9
<1> QED BY <1>1, <1>6, <1>7, <1>8, <1>9

LEMMA IdsOf ==
    ASSUME WorldTyped, NEW e \in Entries
    PROVE  /\ Of(e).source \in Hosting => Ids(e).external = <<"number", Of(e).number>>
                                          /\ Ids(e).full = <<"path", Of(e).path>>
           /\ Of(e).source \in Packages => Ids(e).external = <<"package", Of(e).path>>
                                          /\ Ids(e).full = <<"package", Of(e).path>>
           /\ Of(e).source = "fmhy" => Ids(e).full = <<"fmhy", FmhyId(e)>>
BY DEF Ids, Hosting, Packages, GitHubRow, GitLabRow, GiteaRow, FDroidRow, FlathubRow, FmhyRow

\* Outside of Homebrew, whose formulae and casks share names, keys are one entry's.
LEMMA KeysApart ==
    ASSUME WorldTyped, NEW e \in Entries, NEW f \in Entries, Of(e).source = Of(f).source,
           Of(e).source \in Hosting \cup Packages,
           Ids(e).external = Ids(f).external \/ Ids(e).full = Ids(f).full
    PROVE  e = f
<1>1. Of(e).number = Of(f).number \/ Of(e).path = Of(f).path => e = f
  BY EntryTypes
<1>2. CASE Of(e).source \in Hosting
  <2> DEFINE a == Of(e).number
             b == Of(f).number
             c == Of(e).path
             d == Of(f).path
  <2>1. <<"number", a>> = <<"number", b>> \/ <<"path", c>> = <<"path", d>>
    BY <1>2, IdsOf
  <2> HIDE DEF a, b, c, d
  <2>2. a = b \/ c = d
    BY <2>1
  <2> QED BY <1>1, <2>2 DEF a, b, c, d
<1>3. CASE Of(e).source \in Packages
  <2> DEFINE c == Of(e).path
             d == Of(f).path
  <2>1. <<"package", c>> = <<"package", d>>
    BY <1>3, IdsOf
  <2> HIDE DEF c, d
  <2>2. c = d
    BY <2>1
  <2> QED BY <1>1, <2>2 DEF c, d
<1> QED BY <1>2, <1>3

LEMMA AskedOwn ==
    ASSUME WorldTyped, RowsMade, NEW r \in rows, NEW e \in Asked(r)
    PROVE  e \in Entries /\ Of(e).source = r.source /\ Of(e).source \in Syncable /\ RowKey(e) = r.key
<1>1. r.entry \in Entries /\ r.source = Of(r.entry).source /\ r.key = <<r.source, r.external>>
  BY DEF RowsMade
<1>2. r.source \in Sources
  BY <1>1, EntryFields
<1>3. CASE r.source \in {"github", "gitea"}
  <2>1. e \in Entries /\ Of(e).source = r.source /\ Ids(e).full = r.full
    BY <1>3 DEF Asked
  <2>2. r.full = Ids(r.entry).full /\ r.external = Ids(r.entry).external
    BY <1>3 DEF RowsMade
  <2>3. r.source \in Hosting
    BY <1>3 DEF Hosting
  <2>4. e = r.entry
    BY <1>1, <2>1, <2>2, <2>3, KeysApart
  <2> QED BY <1>1, <2>1, <2>2, <2>3, <2>4 DEF RowKey, Syncable
<1>4. CASE r.source \in {"gitlab", "fdroid", "flathub"}
  <2>1. e \in Entries /\ Of(e).source = r.source /\ Ids(e).external = r.external
    BY <1>4 DEF Asked
  <2> QED BY <1>1, <1>4, <2>1 DEF RowKey, Syncable, Hosting, Packages
<1>5. CASE r.source = "homebrew"
  <2>1. e \in Brewed(r)
    BY <1>5 DEF Asked
  <2>2. e \in Entries /\ Of(e).source = "homebrew" /\ Ids(e).external = r.external
    BY <2>1 DEF Brewed
  <2> QED BY <1>1, <1>5, <2>2 DEF RowKey, Syncable
<1>6. CASE r.source \in {"winget", "fmhy"}
  BY <1>6 DEF Asked
<1> QED BY <1>2, <1>3, <1>4, <1>5, <1>6 DEF Sources, Hosting, Packages

\* Of the members of a list with one id there is a last.
LEMMA LastAlike ==
    ASSUME NEW n \in Nat, NEW id, NEW i \in 1 .. n
    PROVE  \E j \in 1 .. n : id[j] = id[i] /\ \A k \in 1 .. n : k > j => id[k] # id[j]
<1> DEFINE T == {k \in 1 .. n : id[k] = id[i]}
           U == {n - k : k \in T}
<1>1. U \in SUBSET Nat /\ n - i \in U
  OBVIOUS
<1>2. PICK u \in U : \A v \in U : u <= v
  BY <1>1, LeastOf
<1>3. PICK j \in T : u = n - j
  BY <1>2
<1>4. ASSUME NEW k \in 1 .. n, k > j, id[k] = id[j] PROVE FALSE
  <2>1. k \in T
    BY <1>4
  <2>2. n - k \in U
    BY <2>1
  <2>3. n - j <= n - k /\ j \in 1 .. n
    BY <1>2, <1>3, <2>2
  <2> QED BY <1>4, <2>3
<1> QED BY <1>3, <1>4

LEMMA WithinShaped ==
    ASSUME WorldTyped, NEW e \in Entries, Of(e).source \in Syncable
    PROVE  Shaped(e, Within(e))
<1>1. TakeLimit \in Nat
  BY ConnectorsAssumption
<1> QED BY <1>1, ReleasesShaped, TakenShaped DEF Within

\* What a fetch writes.
LEMMA TakenIs ==
    ASSUME NEW r, NEW e
    PROVE  LET list == Within(e)
               new  == Taken(r, e, list)
           IN  /\ r.key = RowKey(e) => new.releases = Told(e)
               /\ new.assets = {[id |-> AssetId(e, list[i].of), entry |-> e, tag |-> list[i].of.tag] :
                      i \in {k \in DOMAIN list : \A j \in DOMAIN list : j > k =>
                                 AssetId(e, list[j].of) # AssetId(e, list[k].of)}}
               /\ new.links = {[row |-> r.key, external |-> list[i].external,
                                asset |-> AssetId(e, list[i].of), entry |-> e,
                                tag |-> list[i].of.tag] : i \in DOMAIN list}
<1> DEFINE list    == Within(e)
           at      == DOMAIN list
           release == [i \in at |-> list[i].external]
           asset   == [i \in at |-> AssetId(e, list[i].of)]
           lastOf(id) == {i \in at : \A j \in at : j > i => id[j] # id[i]}
           new     == Taken(r, e, list)
<1>1. /\ new.releases = {[row |-> r.key, external |-> release[i], tag |-> list[i].of.tag] : i \in lastOf(release)}
      /\ new.assets = {[id |-> asset[i], entry |-> e, tag |-> list[i].of.tag] : i \in lastOf(asset)}
      /\ new.links = {[row |-> r.key, external |-> release[i], asset |-> asset[i], entry |-> e,
                       tag |-> list[i].of.tag] : i \in at}
  BY DEF Taken
<1>2. lastOf(release) = {k \in at : Final(list, k)}
  BY DEF Final
<1>3. lastOf(asset) = {k \in at : \A j \in at : j > k =>
                           AssetId(e, list[j].of) # AssetId(e, list[k].of)}
  OBVIOUS
<1>4. \A i \in at : release[i] = list[i].external /\ asset[i] = AssetId(e, list[i].of)
  OBVIOUS
<1> HIDE DEF new, release, asset
<1>5. ASSUME r.key = RowKey(e) PROVE new.releases = Told(e)
  <2>1. new.releases = {[row |-> r.key, external |-> release[i], tag |-> list[i].of.tag] : i \in {k \in at : Final(list, k)}}
    BY <1>1, <1>2
  <2>2. Told(e) = {[row |-> RowKey(e), external |-> list[i].external, tag |-> list[i].of.tag] : i \in {k \in at : Final(list, k)}}
    BY DEF Told
  <2> QED BY <1>4, <1>5, <2>1, <2>2
<1>6. new.assets = {[id |-> AssetId(e, list[i].of), entry |-> e, tag |-> list[i].of.tag] : i \in lastOf(asset)}
  BY <1>1, <1>4
<1>7. new.links = {[row |-> r.key, external |-> list[i].external,
                                asset |-> AssetId(e, list[i].of), entry |-> e,
                                tag |-> list[i].of.tag] : i \in at}
  BY <1>1, <1>4
<1> QED BY <1>3, <1>5, <1>6, <1>7 DEF new

--------------------------------------------------------------------------------
(* The sources: steps *)

LEMMA WorldStep ==
    ASSUME WorldTyped, ConnectorsNext
    PROVE  WorldTyped' /\ world' = world /\ Entries \subseteq Entries'
<1>1. listed \in Nat /\ Len(world) \in Nat /\ listed >= 1 /\ listed <= Len(world)
  BY EntryTypes DEF WorldTyped
<1>2. CASE Appear
  <2>1. world' = world /\ listed' = listed + 1 /\ upstream' = upstream /\ listed < Len(world)
    BY <1>2 DEF Appear
  <2> QED BY <1>1, <2>1 DEF WorldTyped, Entries
<1>3. ASSUME NEW e \in Entries, NEW r \in Offered, Publish(e, r)
      PROVE  WorldTyped' /\ world' = world /\ Entries \subseteq Entries'
  <2>1. world' = world /\ listed' = listed /\ upstream' = [upstream EXCEPT ![e] = <<r>> \o @]
    BY <1>3 DEF Publish
  <2>2. upstream \in [1 .. Len(world) -> Seq(Offered)] /\ e \in 1 .. Len(world)
    BY EntryTypes DEF WorldTyped
  <2>3. <<r>> \in Seq(Offered) /\ upstream[e] \in Seq(Offered)
    BY <2>2
  <2>4. <<r>> \o upstream[e] \in Seq(Offered)
    BY <2>3, ConcatProperties
  <2> QED BY <2>1, <2>2, <2>4 DEF WorldTyped, Entries
<1>4. ASSUME UNCHANGED <<world, listed, upstream>>
      PROVE  WorldTyped' /\ world' = world /\ Entries \subseteq Entries'
  BY <1>4 DEF WorldTyped, Entries
<1>5. \A e \in Entries : Discover(e) => UNCHANGED <<world, listed, upstream>>
  BY DEF Discover
<1>6. \A r \in rows : Sync(r) => UNCHANGED <<world, listed, upstream>>
  BY DEF Sync
<1> QED BY <1>2, <1>3, <1>4, <1>5, <1>6 DEF ConnectorsNext

\* The rows of an entry keep what they were made with when others appear.
LEMMA RowsKeep ==
    ASSUME WorldTyped, world' = world, Entries \subseteq Entries', rows' = rows, RowsMade
    PROVE  RowsMade'
<1> SUFFICES ASSUME NEW r \in rows
             PROVE  /\ r.entry \in Entries' /\ r.source = Of(r.entry)'.source
                    /\ r.key = <<r.source, r.external>>
                    /\ r.source # "fmhy" => r.external = Ids(r.entry)'.external
                                            /\ r.full = Ids(r.entry)'.full
                    /\ r.source = "fmhy" => \E id \in FmhyNames(r.entry)' : r.full = <<"fmhy", id>>
                    /\ r.source = "fmhy" /\ Namesakes(r.entry)' = {r.entry} =>
                           r.full = <<"fmhy", Of(r.entry)'.name>>
  BY DEF RowsMade
<1> DEFINE e == r.entry
<1>1. /\ e \in Entries /\ r.source = Of(e).source /\ r.key = <<r.source, r.external>>
      /\ r.source # "fmhy" => r.external = Ids(e).external /\ r.full = Ids(e).full
      /\ r.source = "fmhy" => \E id \in FmhyNames(e) : r.full = <<"fmhy", id>>
      /\ r.source = "fmhy" /\ Namesakes(e) = {e} => r.full = <<"fmhy", Of(e).name>>
  BY DEF RowsMade
<1>2. Of(e)' = Of(e) /\ FmhyNames(e)' = FmhyNames(e)
  BY DEF Of, FmhyNames
<1>3. r.source # "fmhy" => Ids(e)' = Ids(e)
  BY <1>1, IdsStand
<1>4. Namesakes(e) \subseteq Namesakes(e)' /\ e \in Namesakes(e)
  BY <1>1 DEF Namesakes, Siblings, Of
<1>5. Namesakes(e)' = {e} => Namesakes(e) = {e}
  BY <1>4
<1> HIDE DEF e
<1>6. e \in Entries'
  BY <1>1
<1> QED BY <1>1, <1>2, <1>3, <1>5, <1>6 DEF e

LEMMA FilesKeep ==
    ASSUME WorldTyped, world' = world, Entries \subseteq Entries', UNCHANGED <<assets, links>>,
           AssetsMade, LinksMade
    PROVE  AssetsMade' /\ LinksMade'
<1>1. \A e \in Entries, x \in Offered : Of(e).source \in Syncable =>
          Of(e)' = Of(e) /\ AssetId(e, x)' = AssetId(e, x)
  BY KeysStand
<1>2. AssetsMade'
  <2> SUFFICES ASSUME NEW a \in assets
               PROVE  /\ a.entry \in Entries' /\ Of(a.entry)'.source \in Syncable
                      /\ \E x \in Offered : a.id = AssetId(a.entry, x)' /\ a.tag = x.tag
    BY DEF AssetsMade, Syncable, Hosting, Packages
  <2> DEFINE e == a.entry
  <2>1. e \in Entries /\ Of(e).source \in Syncable
    BY DEF AssetsMade
  <2>2. PICK x \in Offered : a.id = AssetId(e, x) /\ a.tag = x.tag
    BY DEF AssetsMade
  <2> HIDE DEF e
  <2>3. Of(e)' = Of(e) /\ AssetId(e, x)' = AssetId(e, x) /\ e \in Entries'
    BY <1>1, <2>1
  <2>4. \E y \in Offered : a.id = AssetId(e, y)' /\ a.tag = y.tag
    BY <2>2, <2>3
  <2> QED BY <2>1, <2>3, <2>4 DEF e
<1>3. LinksMade'
  <2> SUFFICES ASSUME NEW l \in links
               PROVE  /\ l.entry \in Entries' /\ Of(l.entry)'.source \in Syncable
                      /\ l.row[1] = Of(l.entry)'.source
                      /\ \E x \in Offered : l.asset = AssetId(l.entry, x)' /\ l.tag = x.tag
                      /\ \E a \in assets : a.id = l.asset
    BY DEF LinksMade, Syncable, Hosting, Packages
  <2> DEFINE e == l.entry
  <2>1. e \in Entries /\ Of(e).source \in Syncable /\ l.row[1] = Of(e).source
        /\ \E a \in assets : a.id = l.asset
    BY DEF LinksMade
  <2>2. PICK x \in Offered : l.asset = AssetId(e, x) /\ l.tag = x.tag
    BY DEF LinksMade
  <2> HIDE DEF e
  <2>3. Of(e)' = Of(e) /\ AssetId(e, x)' = AssetId(e, x) /\ e \in Entries'
    BY <1>1, <2>1
  <2>4. \E y \in Offered : l.asset = AssetId(e, y)' /\ l.tag = y.tag
    BY <2>2, <2>3
  <2> QED BY <2>1, <2>3, <2>4 DEF e
<1> QED BY <1>2, <1>3

LEMMA ToldKeep ==
    ASSUME WorldTyped, world' = world, Entries \subseteq Entries', releases' = releases,
           FetchedTold, fetched' \subseteq fetched,
           \A e \in fetched' : upstream'[e] = upstream[e]
    PROVE  FetchedTold'
<1> SUFFICES ASSUME NEW e \in fetched'
             PROVE  e \in Entries' /\ Of(e)'.source \in Syncable /\ Told(e)' \subseteq releases
  BY DEF FetchedTold, Syncable, Hosting, Packages
<1>1. e \in Entries /\ Of(e).source \in Syncable /\ Told(e) \subseteq releases
  BY DEF FetchedTold
<1>2. Of(e)' = Of(e) /\ Told(e)' = Told(e)
  BY <1>1, KeysStand, ToldStands
<1> QED BY <1>1, <1>2

\* A new row has the keys its entry has now.
LEMMA RowMade ==
    ASSUME WorldTyped, NEW e \in Entries
    PROVE  /\ Row(e).entry = e /\ Row(e).source = Of(e).source
           /\ Row(e).key = <<Row(e).source, Row(e).external>>
           /\ Row(e).source # "fmhy" => Row(e).external = Ids(e).external
                                        /\ Row(e).full = Ids(e).full
           /\ Row(e).source = "fmhy" => \E id \in FmhyNames(e) : Row(e).full = <<"fmhy", id>>
           /\ Row(e).source = "fmhy" /\ Namesakes(e) = {e} =>
                  Row(e).full = <<"fmhy", Of(e).name>>
<1>1. /\ Row(e).entry = e /\ Row(e).source = Of(e).source /\ Row(e).key = RowKey(e)
      /\ Row(e).external = Ids(e).external /\ Row(e).full = Ids(e).full
  BY DEF Row
<1>2. Row(e).key = <<Row(e).source, Row(e).external>>
  BY <1>1 DEF RowKey
<1>3. Row(e).source = "fmhy" => Row(e).full = <<"fmhy", FmhyId(e)>>
  BY <1>1, IdsOf
<1>4. FmhyId(e) \in FmhyNames(e) /\ (Namesakes(e) = {e} => FmhyId(e) = Of(e).name)
  BY FmhyForms DEF FmhyNames
<1> QED BY <1>1, <1>2, <1>3, <1>4

LEMMA DiscoverStep ==
    ASSUME WorldTyped, RowsMade, NEW e \in Entries, Discover(e)
    PROVE  RowsMade'
<1>1. world' = world /\ listed' = listed /\ rows' \subseteq rows \cup {Row(e)}
  BY DEF Discover
<1>2. /\ Entries' = Entries /\ \A f : Of(f)' = Of(f) /\ FmhyNames(f)' = FmhyNames(f)
      /\ \A f : Namesakes(f)' = Namesakes(f)
  BY <1>1 DEF Entries, Of, FmhyNames, Namesakes, Siblings
<1>3. \A f \in Entries : Of(f).source # "fmhy" => Ids(f)' = Ids(f)
  BY <1>1, IdsStand
<1> SUFFICES ASSUME NEW r \in rows'
             PROVE  /\ r.entry \in Entries /\ r.source = Of(r.entry).source
                    /\ r.key = <<r.source, r.external>>
                    /\ r.source # "fmhy" => r.external = Ids(r.entry).external
                                            /\ r.full = Ids(r.entry).full
                    /\ r.source = "fmhy" => \E id \in FmhyNames(r.entry) : r.full = <<"fmhy", id>>
                    /\ r.source = "fmhy" /\ Namesakes(r.entry) = {r.entry} =>
                           r.full = <<"fmhy", Of(r.entry).name>>
  BY <1>2, <1>3 DEF RowsMade
<1>4. CASE r \in rows
  BY <1>4 DEF RowsMade
<1>5. CASE r = Row(e)
  BY <1>5, RowMade
<1> QED BY <1>1, <1>4, <1>5

--------------------------------------------------------------------------------

\* What a fetch writes of one entry: the rows of its releases, its files, and the links.
LEMMA NewFiles ==
    ASSUME WorldTyped, NEW r, NEW e \in Entries, Of(e).source \in Syncable, RowKey(e) = r.key
    PROVE  LET new == Taken(r, e, Within(e))
           IN  /\ new.releases = Told(e)
               /\ \A a \in new.assets : a.entry = e /\ \E x \in Offered : a.id = AssetId(e, x) /\ a.tag = x.tag
               /\ \A l \in new.links :
                     /\ l.entry = e /\ l.row[1] = Of(e).source
                     /\ \E x \in Offered : l.asset = AssetId(e, x) /\ l.tag = x.tag
                     /\ \E a \in new.assets : a.id = l.asset
<1> DEFINE list == Within(e)
           new  == Taken(r, e, list)
           D    == DOMAIN list
           asset == [i \in D |-> AssetId(e, list[i].of)]
           lastA == {k \in D : \A j \in D : j > k =>
                                 AssetId(e, list[j].of) # AssetId(e, list[k].of)}
<1>1. /\ new.releases = Told(e)
      /\ new.assets = {[id |-> AssetId(e, list[i].of), entry |-> e, tag |-> list[i].of.tag] : i \in lastA}
      /\ new.links = {[row |-> r.key, external |-> list[i].external,
                       asset |-> AssetId(e, list[i].of), entry |-> e,
                       tag |-> list[i].of.tag] : i \in D}
  BY TakenIs
<1>2. r.key[1] = Of(e).source
  BY DEF RowKey
<1>3. PICK n \in Nat : D = 1 .. n /\ \A i \in 1 .. n : \E x \in Offered :
                           list[i] = [external |-> ReleaseId(e, x), of |-> x]
  BY WithinShaped DEF Shaped
<1>4. \A i \in D : list[i].of \in Offered
  BY <1>3
<1>5. \A i \in D : \E j \in D : asset[j] = asset[i] /\ \A k \in D : k > j => asset[k] # asset[j]
  <2> HIDE DEF asset, D, list
  <2>1. PICK m \in Nat : D = 1 .. m
    BY <1>3
  <2> SUFFICES ASSUME NEW i \in 1 .. m
               PROVE  \E j \in 1 .. m : asset[j] = asset[i] /\ \A k \in 1 .. m : k > j => asset[k] # asset[j]
    BY <2>1
  <2> QED BY LastAlike
<1> HIDE DEF new, D, list
<1>6. ASSUME NEW i \in D PROVE \E a \in new.assets : a.id = AssetId(e, list[i].of)
  <2>1. PICK j \in D : asset[j] = asset[i] /\ \A k \in D : k > j => asset[k] # asset[j]
    BY <1>5
  <2>2. j \in lastA /\ AssetId(e, list[j].of) = AssetId(e, list[i].of)
    BY <2>1
  <2> DEFINE a == [id |-> AssetId(e, list[j].of), entry |-> e, tag |-> list[j].of.tag]
  <2>3. a \in new.assets /\ a.id = AssetId(e, list[j].of)
    BY <1>1, <2>2
  <2> QED BY <2>2, <2>3
<1>7. \A a \in new.assets : a.entry = e /\ \E x \in Offered : a.id = AssetId(e, x) /\ a.tag = x.tag
  <2> SUFFICES ASSUME NEW a \in new.assets
               PROVE a.entry = e /\ \E x \in Offered : a.id = AssetId(e, x) /\ a.tag = x.tag
    OBVIOUS
  <2>1. PICK i \in lastA : a = [id |-> AssetId(e, list[i].of), entry |-> e, tag |-> list[i].of.tag]
    BY <1>1
  <2>2. list[i].of \in Offered /\ a.entry = e /\ a.id = AssetId(e, list[i].of) /\ a.tag = list[i].of.tag
    BY <1>4, <2>1
  <2> QED BY <2>2
<1>8. ASSUME NEW l \in new.links
      PROVE /\ l.entry = e /\ l.row[1] = Of(e).source
            /\ \E x \in Offered : l.asset = AssetId(e, x) /\ l.tag = x.tag
            /\ \E a \in new.assets : a.id = l.asset
  <2>1. PICK i \in D : l = [row |-> r.key, external |-> list[i].external,
                            asset |-> AssetId(e, list[i].of), entry |-> e, tag |-> list[i].of.tag]
    BY <1>1
  <2>2. /\ list[i].of \in Offered /\ l.entry = e /\ l.asset = AssetId(e, list[i].of)
        /\ l.tag = list[i].of.tag /\ l.row = r.key
    BY <1>4, <2>1
  <2>3. \E a \in new.assets : a.id = AssetId(e, list[i].of)
    BY <1>6
  <2> QED BY <1>2, <2>2, <2>3
<1> QED BY <1>1, <1>7, <1>8 DEF new, list

\* Rows of releases that have one key are one row: of one entry all keep the last, and the ids
\* of Homebrew's contain the tag.
LEMMA ToldOnce ==
    ASSUME WorldTyped, NEW e \in Entries, Of(e).source \in Syncable,
           NEW f \in Entries, Of(f).source \in Syncable,
           NEW x \in Told(e), NEW y \in Told(f), x.row = y.row, x.external = y.external
    PROVE  x \in Told(f)
<1>1. PICK i \in DOMAIN Within(e) :
          x = [row |-> RowKey(e), external |-> Within(e)[i].external, tag |-> Within(e)[i].of.tag]
  BY DEF Told
<1>2. PICK j \in DOMAIN Within(f) :
          y = [row |-> RowKey(f), external |-> Within(f)[j].external, tag |-> Within(f)[j].of.tag]
  BY DEF Told
<1>3. PICK a \in Offered : Within(e)[i] = [external |-> ReleaseId(e, a), of |-> a]
  BY WithinShaped DEF Shaped
<1>4. PICK b \in Offered : Within(f)[j] = [external |-> ReleaseId(f, b), of |-> b]
  BY WithinShaped DEF Shaped
<1>5. /\ x = [row |-> RowKey(e), external |-> ReleaseId(e, a), tag |-> a.tag]
      /\ y = [row |-> RowKey(f), external |-> ReleaseId(f, b), tag |-> b.tag]
  BY <1>1, <1>2, <1>3, <1>4
<1>6. RowKey(e) = RowKey(f) /\ ReleaseId(e, a) = ReleaseId(f, b)
  BY <1>5
<1>7. Of(e).source = Of(f).source /\ Ids(e).external = Ids(f).external
  BY <1>6 DEF RowKey
<1>8. CASE Of(e).source \in Hosting \cup Packages
  BY <1>7, <1>8, KeysApart
<1>9. CASE Of(e).source = "homebrew"
  <2>1. ReleaseId(e, a) = <<Ids(e).external, a.tag>> /\ ReleaseId(f, b) = <<Ids(f).external, b.tag>>
    BY <1>7, <1>9 DEF ReleaseId, Packages
  <2>2. a.tag = b.tag
    <3> DEFINE u == Ids(e).external
               v == Ids(f).external
    <3>1. <<u, a.tag>> = <<v, b.tag>>
      BY <1>6, <2>1
    <3> HIDE DEF u, v
    <3> QED BY <3>1
  <2> QED BY <1>5, <1>6, <2>2
<1> QED BY <1>8, <1>9 DEF Syncable

LEMMA SyncStep ==
    ASSUME WorldTyped, RowsMade, AssetsMade, LinksMade, FetchedTold, NEW r \in rows, Sync(r)
    PROVE  AssetsMade' /\ LinksMade' /\ FetchedTold'
<1> DEFINE new(e) == Taken(r, e, Within(e))
<1>1. PICK e \in Asked(r) :
          /\ releases' = {x \in releases : \A y \in new(e).releases :
                              <<y.row, y.external>> # <<x.row, x.external>>} \cup new(e).releases
          /\ assets' = {x \in assets : \A y \in new(e).assets : y.id # x.id} \cup new(e).assets
          /\ links' = {x \in links : \A y \in new(e).links :
                           <<y.row, y.external, y.asset>> # <<x.row, x.external, x.asset>>}
                      \cup new(e).links
          /\ fetched' = fetched \cup {e}
          /\ UNCHANGED <<world, listed, upstream, rows>>
  BY DEF Sync, Upsert, Within
<1> DEFINE n == new(e)
<1>2. e \in Entries /\ Of(e).source \in Syncable /\ RowKey(e) = r.key
  BY AskedOwn
<1>3. /\ n.releases = Told(e)
      /\ \A a \in n.assets : a.entry = e /\ \E x \in Offered : a.id = AssetId(e, x) /\ a.tag = x.tag
      /\ \A l \in n.links :
                     /\ l.entry = e /\ l.row[1] = Of(e).source
                     /\ \E x \in Offered : l.asset = AssetId(e, x) /\ l.tag = x.tag
                     /\ \E a \in n.assets : a.id = l.asset
  BY <1>2, NewFiles
<1> HIDE DEF n
<1>4. /\ Entries' = Entries /\ \A f : Of(f)' = Of(f)
      /\ \A f \in Entries, x \in Offered : Of(f).source \in Syncable =>
             AssetId(f, x)' = AssetId(f, x)
      /\ \A f \in Entries : Of(f).source \in Syncable => Told(f)' = Told(f)
  BY <1>1, KeysStand, ToldStands DEF Entries, Of
<1>5. assets' \subseteq assets \cup n.assets /\ links' \subseteq links \cup n.links
  BY <1>1 DEF n
<1>6. \A a \in assets \cup n.assets : \E b \in assets' : b.id = a.id
  BY <1>1 DEF n
<1>7. AssetsMade'
  <2> SUFFICES ASSUME NEW a \in assets'
               PROVE  /\ a.entry \in Entries /\ Of(a.entry).source \in Syncable
                      /\ \E x \in Offered : a.id = AssetId(a.entry, x)' /\ a.tag = x.tag
    BY <1>4 DEF AssetsMade, Syncable, Hosting, Packages
  <2>1. a.entry \in Entries /\ Of(a.entry).source \in Syncable
        /\ \E x \in Offered : a.id = AssetId(a.entry, x) /\ a.tag = x.tag
    <3>1. CASE a \in assets
      BY <3>1 DEF AssetsMade
    <3>2. CASE a \in n.assets
      BY <1>2, <1>3, <3>2
    <3> QED BY <1>5, <3>1, <3>2
  <2> DEFINE f == a.entry
  <2>2. PICK x \in Offered : a.id = AssetId(f, x) /\ a.tag = x.tag
    BY <2>1
  <2> HIDE DEF f
  <2>3. AssetId(f, x)' = AssetId(f, x)
    BY <1>4, <2>1 DEF f
  <2>4. \E y \in Offered : a.id = AssetId(f, y)' /\ a.tag = y.tag
    BY <2>2, <2>3
  <2> QED BY <2>1, <2>4 DEF f
<1>8. LinksMade'
  <2> SUFFICES ASSUME NEW l \in links'
               PROVE  /\ l.entry \in Entries /\ Of(l.entry).source \in Syncable
                      /\ l.row[1] = Of(l.entry).source
                      /\ \E x \in Offered : l.asset = AssetId(l.entry, x)' /\ l.tag = x.tag
                      /\ \E a \in assets' : a.id = l.asset
    BY <1>4 DEF LinksMade, Syncable, Hosting, Packages
  <2>1. /\ l.entry \in Entries /\ Of(l.entry).source \in Syncable /\ l.row[1] = Of(l.entry).source
        /\ \E x \in Offered : l.asset = AssetId(l.entry, x) /\ l.tag = x.tag
        /\ \E a \in assets \cup n.assets : a.id = l.asset
    <3>1. CASE l \in links
      BY <3>1 DEF LinksMade
    <3>2. CASE l \in n.links
      BY <1>2, <1>3, <3>2
    <3> QED BY <1>5, <3>1, <3>2
  <2> DEFINE f == l.entry
  <2>2. PICK x \in Offered : l.asset = AssetId(f, x) /\ l.tag = x.tag
    BY <2>1
  <2> HIDE DEF f
  <2>3. AssetId(f, x)' = AssetId(f, x)
    BY <1>4, <2>1 DEF f
  <2>4. \E y \in Offered : l.asset = AssetId(f, y)' /\ l.tag = y.tag
    BY <2>2, <2>3
  <2>5. \E a \in assets' : a.id = l.asset
    BY <1>6, <2>1
  <2> QED BY <2>1, <2>4, <2>5 DEF f
<1>9. FetchedTold'
  <2> SUFFICES ASSUME NEW f \in fetched'
               PROVE  f \in Entries /\ Of(f).source \in Syncable /\ Told(f)' \subseteq releases'
    BY <1>4 DEF FetchedTold, Syncable, Hosting, Packages
  <2>1. f \in Entries /\ Of(f).source \in Syncable
    BY <1>1, <1>2 DEF FetchedTold
  <2>2. Told(f)' = Told(f)
    BY <1>4, <2>1
  <2>3. releases' = {x \in releases : \A y \in Told(e) :
                        <<y.row, y.external>> # <<x.row, x.external>>} \cup Told(e)
    BY <1>1, <1>3 DEF n
  <2>4. Told(f) \subseteq releases'
    <3>1. CASE f = e
      BY <2>3, <3>1
    <3>2. CASE f # e
      <4>1. Told(f) \subseteq releases
        BY <1>1, <3>2 DEF FetchedTold
      <4> SUFFICES ASSUME NEW x \in Told(f), x \notin Told(e) PROVE x \in releases'
        BY <2>3
      <4>2. \A y \in Told(e) : ~(x.row = y.row /\ x.external = y.external)
        BY <1>2, <2>1, ToldOnce
      <4>3. \A y \in Told(e) : <<y.row, y.external>> # <<x.row, x.external>>
        BY <4>2
      <4> QED BY <2>3, <4>1, <4>3
    <3> QED BY <3>1, <3>2
  <2> QED BY <2>1, <2>2, <2>4
<1> QED BY <1>7, <1>8, <1>9

\* The inductive invariant of discovery, publication and fetches.
LEMMA SourcesInvHolds == ConnectorsSpec => []SourcesInv
<1>1. ConnectorsInit => SourcesInv
  <2> SUFFICES ASSUME ConnectorsInit PROVE SourcesInv
    OBVIOUS
  <2>1. world \in Seq(EntryRows) /\ world # <<>> /\ listed = 1
    BY ConnectorsAssumption DEF ConnectorsInit
  <2>2. Len(world) \in Nat \ {0}
    BY <2>1, EmptySeq, LenProperties
  <2>3. <<>> \in Seq(Offered)
    OBVIOUS
  <2>4. listed \in 1 .. Len(world)
    BY <2>1, <2>2
  <2>5. WorldTyped
    BY <2>3, <2>4 DEF ConnectorsInit, WorldTyped
  <2> QED BY <2>5 DEF ConnectorsInit, SourcesInv, RowsMade, AssetsMade, LinksMade, FetchedTold
<1>2. SourcesInv /\ [ConnectorsNext]_connectorVars => SourcesInv'
  <2> SUFFICES ASSUME SourcesInv, [ConnectorsNext]_connectorVars PROVE SourcesInv'
    OBVIOUS
  <2>1. CASE Appear
    <3>1. WorldTyped' /\ world' = world /\ Entries \subseteq Entries'
      BY <2>1, WorldStep DEF SourcesInv, ConnectorsNext
    <3>2. UNCHANGED <<upstream, rows, releases, assets, links, fetched>>
      BY <2>1 DEF Appear
    <3>3. RowsMade' /\ AssetsMade' /\ LinksMade' /\ FetchedTold'
      BY <3>1, <3>2, RowsKeep, FilesKeep, ToldKeep DEF SourcesInv
    <3> QED BY <3>1, <3>3 DEF SourcesInv
  <2>2. ASSUME NEW e \in Entries, NEW r \in Offered, Publish(e, r) PROVE SourcesInv'
    <3>1. WorldTyped' /\ world' = world /\ Entries \subseteq Entries'
      BY <2>2, WorldStep DEF SourcesInv, ConnectorsNext
    <3>2. UNCHANGED <<rows, releases, assets, links>> /\ fetched' = fetched \ {e}
          /\ upstream' = [upstream EXCEPT ![e] = <<r>> \o @]
      BY <2>2 DEF Publish
    <3>3. \A f \in fetched' : upstream'[f] = upstream[f]
      <4>1. \A f \in fetched' : f \in 1 .. Len(world) /\ f # e
        BY <3>2, EntryTypes DEF SourcesInv, FetchedTold
      <4> QED BY <3>2, <4>1 DEF SourcesInv, WorldTyped
    <3>4. RowsMade' /\ AssetsMade' /\ LinksMade'
      BY <3>1, <3>2, RowsKeep, FilesKeep DEF SourcesInv
    <3>5. FetchedTold'
      BY <3>1, <3>2, <3>3, ToldKeep DEF SourcesInv
    <3> QED BY <3>1, <3>4, <3>5 DEF SourcesInv
  <2>3. ASSUME NEW e \in Entries, Discover(e) PROVE SourcesInv'
    <3>1. WorldTyped' /\ world' = world /\ Entries \subseteq Entries'
      BY <2>3, WorldStep DEF SourcesInv, ConnectorsNext
    <3>2. UNCHANGED <<upstream, releases, assets, links, fetched>>
      BY <2>3 DEF Discover
    <3>3. RowsMade'
      BY <2>3, DiscoverStep DEF SourcesInv
    <3>4. AssetsMade' /\ LinksMade' /\ FetchedTold'
      BY <3>1, <3>2, FilesKeep, ToldKeep DEF SourcesInv
    <3> QED BY <3>1, <3>3, <3>4 DEF SourcesInv
  <2>4. ASSUME NEW r \in rows, Sync(r) PROVE SourcesInv'
    <3>1. WorldTyped' /\ world' = world /\ Entries \subseteq Entries'
      BY <2>4, WorldStep DEF SourcesInv, ConnectorsNext
    <3>2. rows' = rows
      BY <2>4 DEF Sync
    <3>3. RowsMade'
      BY <3>1, <3>2, RowsKeep DEF SourcesInv
    <3>4. AssetsMade' /\ LinksMade' /\ FetchedTold'
      BY <2>4, SyncStep DEF SourcesInv
    <3> QED BY <3>1, <3>3, <3>4 DEF SourcesInv
  <2>5. CASE UNCHANGED connectorVars
    <3>1. UNCHANGED <<world, listed, upstream, rows, releases, assets, links, fetched>>
      BY <2>5 DEF connectorVars
    <3>2. WorldTyped' /\ Entries \subseteq Entries'
      BY <3>1 DEF SourcesInv, WorldTyped, Entries
    <3>3. RowsMade' /\ AssetsMade' /\ LinksMade' /\ FetchedTold'
      BY <3>1, <3>2, RowsKeep, FilesKeep, ToldKeep DEF SourcesInv
    <3> QED BY <3>2, <3>3 DEF SourcesInv
  <2> QED BY <2>1, <2>2, <2>3, <2>4, <2>5 DEF ConnectorsNext
<1> QED BY <1>1, <1>2, PTL DEF ConnectorsSpec

--------------------------------------------------------------------------------

\* A row leads back to its entry or to none.
LEMMA Resolved == SourcesInv => RowsResolve
<1> SUFFICES ASSUME SourcesInv, NEW r \in rows
             PROVE  LET e == r.entry
                        alone == {f \in Siblings(e) : Of(f).name = Of(e).name} = {e}
                    IN  /\ (r.source = "fmhy" /\ \E f \in Siblings(e) : Lookalikes(f) # {}) \/ Found(r) \subseteq {e}
                        /\ r.source \in Hosting \cup Packages \/ (r.source = "fmhy" /\ alone) => Found(r) # {}
  BY DEF RowsResolve
<1> DEFINE e == r.entry
           these == {f \in Entries : Of(f).source = r.source /\ Ids(f).full = r.full}
<1>1. /\ WorldTyped /\ e \in Entries /\ r.source = Of(e).source
      /\ r.source # "fmhy" => r.full = Ids(e).full
      /\ r.source = "fmhy" => \E id \in FmhyNames(e) : r.full = <<"fmhy", id>>
      /\ r.source = "fmhy" /\ Namesakes(e) = {e} => r.full = <<"fmhy", Of(e).name>>
  BY DEF SourcesInv, RowsMade
<1>2. r.source \in Sources
  BY <1>1, EntryFields
<1> HIDE DEF e
<1>3. CASE r.source \in {"homebrew", "winget"}
  <2>1. Found(r) = {} /\ r.source \notin Hosting \cup Packages \cup {"fmhy"}
    BY <1>3 DEF Found, Hosting, Packages
  <2> QED BY <2>1 DEF e
<1>4. CASE r.source = "fmhy"
  <2>1. Found(r) = FirstOf(these) /\ r.source \notin Hosting \cup Packages
    BY <1>4 DEF Found, Hosting, Packages
  <2>2. ASSUME NEW f \in these, \A g \in Siblings(e) : Lookalikes(g) = {} PROVE f = e
    <3>1. Ids(f).full = <<"fmhy", FmhyId(f)>> /\ f \in Entries /\ Of(f).source = "fmhy"
      BY <1>1, <1>4, IdsOf
    <3>2. PICK id \in FmhyNames(e) : r.full = <<"fmhy", id>>
      BY <1>1, <1>4
    <3> DEFINE b == FmhyId(f)
    <3>3. <<"fmhy", b>> = <<"fmhy", id>>
      BY <3>1, <3>2
    <3> HIDE DEF b
    <3>4. b = id
      BY <3>3
    <3>5. FmhyId(f) \in FmhyNames(e)
      BY <3>4 DEF b
    <3> QED BY <1>1, <1>4, <2>2, <3>1, <3>5, CalledOnce
  <2>3. ASSUME Namesakes(e) = {e} PROVE FirstOf(these) # {}
    <3>1. FmhyId(e) = Of(e).name
      BY <1>1, <2>3, FmhyForms
    <3>2. e \in these
      BY <1>1, <1>4, <2>3, <3>1, IdsOf
    <3>3. these \in SUBSET Nat
      BY <1>1, EntryTypes DEF Entries, WorldTyped
    <3> HIDE DEF these
    <3>4. \E x \in these : \A y \in these : x <= y
      BY <3>2, <3>3, LeastOf
    <3> QED BY <3>4 DEF FirstOf
  <2>4. FirstOf(these) \subseteq these
    BY DEF FirstOf
  <2> QED BY <1>4, <2>1, <2>2, <2>3, <2>4 DEF e, Namesakes
<1>5. CASE r.source \in Hosting \cup Packages
  <2>1. Found(r) = these
    BY <1>5 DEF Found, Hosting, Packages
  <2>2. e \in these
    BY <1>1, <1>5 DEF Hosting, Packages
  <2>3. ASSUME NEW f \in these PROVE f = e
    <3>1. Ids(f).full = Ids(e).full /\ Of(f).source = Of(e).source /\ f \in Entries
      BY <1>1, <1>5 DEF Hosting, Packages
    <3> QED BY <1>1, <1>5, <3>1, KeysApart
  <2>4. these = {e}
    BY <2>2, <2>3
  <2> QED BY <2>1, <2>4 DEF e
<1> QED BY <1>2, <1>3, <1>4, <1>5 DEF Sources

\* A fetch leaves every release a row, but for titles that GitLab shares.
LEMMA Kept == SourcesInv => ReleasesTrue
<1> SUFFICES ASSUME SourcesInv, NEW e \in fetched, NEW r \in rows, r.key = RowKey(e),
                    NEW x \in Range(Within(e))
             PROVE  \/ r.source = "gitlab" /\ \E y \in Range(Within(e)) \ {x} : y.of.name = x.of.name
                    \/ \E z \in releases : z.row = r.key /\ z.tag = x.of.tag
  BY DEF ReleasesTrue, Within
<1> DEFINE list == Within(e)
           id   == [i \in DOMAIN list |-> list[i].external]
<1>1. WorldTyped /\ e \in Entries /\ Of(e).source \in Syncable /\ Told(e) \subseteq releases
  BY DEF SourcesInv, FetchedTold
<1>2. PICK n \in Nat : DOMAIN list = 1 .. n /\ \A i \in 1 .. n : \E y \in Offered :
                           list[i] = [external |-> ReleaseId(e, y), of |-> y]
  BY <1>1, WithinShaped DEF Shaped
<1>3. PICK i \in 1 .. n : x = list[i]
  BY <1>2 DEF Range
<1>4. r.source = Of(e).source
  <2>1. r.key[1] = r.source
    BY DEF SourcesInv, RowsMade
  <2> QED BY <2>1 DEF RowKey
<1> HIDE DEF list
<1>5. PICK j \in 1 .. n : id[j] = id[i] /\ \A k \in 1 .. n : k > j => id[k] # id[j]
  <2> HIDE DEF id
  <2> QED BY LastAlike
<1>6. list[j].external = list[i].external /\ Final(list, j)
  BY <1>2, <1>5 DEF Final
<1> DEFINE z == [row |-> RowKey(e), external |-> list[j].external, tag |-> list[j].of.tag]
<1>7. z \in releases
  <2>1. j \in {k \in DOMAIN Within(e) : Final(Within(e), k)}
    BY <1>2, <1>6 DEF list
  <2>2. z \in Told(e)
    BY <2>1 DEF Told, list
  <2> QED BY <1>1, <2>2
<1>8. PICK a \in Offered : list[i] = [external |-> ReleaseId(e, a), of |-> a]
  BY <1>2
<1>9. PICK b \in Offered : list[j] = [external |-> ReleaseId(e, b), of |-> b]
  BY <1>2
<1>10. ReleaseId(e, a) = ReleaseId(e, b) /\ x.of = a /\ z.tag = b.tag /\ z.row = r.key
  BY <1>3, <1>6, <1>8, <1>9
<1> HIDE DEF z
<1>11. CASE Of(e).source \in {"github", "gitea"} \cup Packages \cup {"homebrew"}
  <2> DEFINE u == Ids(e).external
  <2>1. <<"number", a.tag>> = <<"number", b.tag>> \/ <<u, a.tag>> = <<u, b.tag>>
    BY <1>10, <1>11 DEF ReleaseId, Packages
  <2> HIDE DEF u
  <2>2. a.tag = b.tag
    BY <2>1
  <2> QED BY <1>7, <1>10, <2>2
<1>12. CASE Of(e).source = "gitlab"
  <2>1. <<a.name>> = <<b.name>>
    BY <1>10, <1>12 DEF ReleaseId, Packages
  <2>2. a.name = b.name
    BY <2>1
  <2>3. list[j] \in Range(Within(e)) /\ list[j].of.name = x.of.name /\ list[j].of.tag = b.tag
    BY <1>2, <1>9, <1>10, <2>2 DEF Range, list
  <2>4. CASE list[j] = x
    BY <1>7, <1>10, <2>3, <2>4
  <2>5. CASE list[j] # x
    BY <1>4, <1>12, <2>3, <2>5
  <2> QED BY <2>4, <2>5
<1> QED BY <1>1, <1>11, <1>12 DEF Syncable, Hosting

\* Links lead to files of their own application and release.
LEMMA Theirs == SourcesInv => AssetsTheirs
<1> SUFFICES ASSUME SourcesInv, NEW l \in links
             PROVE  \E a \in assets :
                        /\ a.id = l.asset
                        /\ a.entry = l.entry \/ l.row[1] = "homebrew"
                        /\ a.tag = l.tag \/ l.row[1] \in {"homebrew", "flathub", "gitlab"}
  BY DEF AssetsTheirs
<1> DEFINE e == l.entry
<1>1. /\ WorldTyped /\ e \in Entries /\ Of(e).source \in Syncable /\ l.row[1] = Of(e).source
      /\ \E x \in Offered : l.asset = AssetId(e, x) /\ l.tag = x.tag
      /\ \E a \in assets : a.id = l.asset
  BY DEF SourcesInv, LinksMade
<1>2. PICK x \in Offered : l.asset = AssetId(e, x) /\ l.tag = x.tag
  BY <1>1
<1>3. PICK a \in assets : a.id = l.asset
  BY <1>1
<1> DEFINE f == a.entry
<1>4. f \in Entries /\ Of(f).source \in Syncable /\ \E y \in Offered : a.id = AssetId(f, y) /\ a.tag = y.tag
  BY DEF SourcesInv, AssetsMade
<1>5. PICK y \in Offered : a.id = AssetId(f, y) /\ a.tag = y.tag
  BY <1>4
<1> HIDE DEF e, f
<1>6. AssetId(e, x) = AssetId(f, y)
  BY <1>2, <1>3, <1>5
<1>7. /\ Of(e).source # "homebrew" => e = f
      /\ Of(e).source \notin {"homebrew", "flathub", "gitlab"} => x.tag = y.tag
  BY <1>1, <1>4, <1>6, AssetsApart
<1> QED BY <1>1, <1>2, <1>3, <1>5, <1>7 DEF e, f

\* What the connectors' keys promise, for any entries of any sources and any releases: rows lead
\* back to the upstream entry they were made of, fetched releases keep a row of their own, and
\* links lead to their own application's files, whatever appears and is published in between.
THEOREM SourcesAreHonest == ConnectorsSpec => []SourcesHonest
<1>1. SourcesInv => SourcesHonest
  BY Resolved, Kept, Theirs DEF SourcesHonest
<1> QED BY <1>1, SourcesInvHolds, PTL

--------------------------------------------------------------------------------
(* The analytics: recorded events *)

BatchRows     == [place : Nat, event : Events]
Snapshots     == [totals : [AnalyticsApps -> Nat], commits : Nat, run : Nat]
SessionStates == [at : {"idle", "bumping", "refreshing"}, batch : SUBSET BatchRows,
                  held : [AnalyticsApps -> Nat], next : Nat, taken : Seq(Snapshots)]
Downloads(a)  == Cardinality(DownloadsOf(recorded, a))

AnalyticsTyped ==
    /\ totals \in [AnalyticsApps -> Nat] /\ commits \in Nat /\ refreshes \in Nat
    /\ IsFiniteSet(recorded)
    /\ \A r \in recorded : r.commit \in Nat /\ r.commit < commits /\ r.event \in Events
    /\ stored \in [1 .. Views -> Snapshots]
    /\ session \in [Sessions -> SessionStates]
    /\ \A s \in Sessions : IsFiniteSet(session[s].batch)

\* What a session has read of a counter is what it is, unless it was counted meanwhile.
HoldsTrue(x) ==
    x.at = "bumping" =>
        \A a \in AnalyticsApps :
            /\ x.held[a] <= Downloads(a)
            /\ Cardinality(DownloadsOf(x.batch, a)) > 0 => x.held[a] = totals[a] \/ a \in raced

\* A refresh reads the views one after the other, and each after what is stored of it was read.
InOrder(views, run) ==
    /\ \A v \in DOMAIN views : views[v].run = run /\ views[v].commits <= commits
    /\ \A v \in DOMAIN views : v + 1 \in DOMAIN views => views[v].commits <= views[v + 1].commits
TakesInOrder(x) ==
    /\ x.at # "refreshing" => x.taken = <<>>
    /\ Len(x.taken) <= Views /\ InOrder(x.taken, x.next)
    /\ \A v \in 1 .. Len(x.taken) : x.taken[v].commits >= stored[v].commits

AnalyticsInv ==
    /\ AnalyticsTyped /\ CountersTrue
    /\ \A s \in Sessions : HoldsTrue(session[s]) /\ TakesInOrder(session[s])
    /\ \E run \in Nat : InOrder(stored, run)
    /\ \A s \in Sessions, t \in Sessions :
          session[s].taken # <<>> /\ session[t].taken # <<>> => s = t

--------------------------------------------------------------------------------

LEMMA AnalyticsConstants ==
    /\ IsFiniteSet(AnalyticsApps) /\ Cardinality(AnalyticsApps) \in Nat
    /\ AnalyticsApps = 1 .. Cardinality(AnalyticsApps)
    /\ \A a \in AnalyticsApps : a \in Nat
    /\ Views \in Nat \ {0} /\ Week \in Nat \ {0} /\ Today \in Nat
    /\ \A e \in Events : e.kind \in EventKinds /\ e.day \in Int
    /\ \A batch \in Batches : batch \in Seq(Range(batch)) /\ Range(batch) \subseteq Events
<1>1. IsFiniteSet(AnalyticsApps) /\ AnalyticsApps = 1 .. Cardinality(AnalyticsApps)
      /\ Views \in Nat \ {0} /\ Week \in Nat \ {0} /\ Today \in Nat
  BY AnalyticsAssumption
<1>2. Cardinality(AnalyticsApps) \in Nat
  BY <1>1, FS_CardinalityType
<1>3. \A a \in AnalyticsApps : a \in Nat
  <2> DEFINE n == Cardinality(AnalyticsApps)
  <2> HIDE DEF n
  <2>1. \A a \in 1 .. n : a \in Nat
    BY <1>2 DEF n
  <2> QED BY <1>1, <2>1 DEF n
<1>4. \A e \in Events : e.kind \in EventKinds /\ e.day \in Int
  BY AnalyticsAssumption DEF Events
<1>5. \A batch \in Batches : batch \in Seq(Range(batch)) /\ Range(batch) \subseteq Events
  BY AnalyticsAssumption DEF Events
<1> QED BY <1>1, <1>2, <1>3, <1>4, <1>5

\* The rows of a batch, as its commit numbers them.
Stamped(c, batch) == {[commit |-> c, place |-> r.place, event |-> r.event] : r \in batch}

LEMMA NumberedCount ==
    ASSUME NEW B, IsFiniteSet(B), \A r \in B : r \in BatchRows, NEW c
    PROVE  IsFiniteSet(Stamped(c, B)) /\ Cardinality(Stamped(c, B)) = Cardinality(B)
<1> DEFINE N == Stamped(c, B)
           f == [r \in B |-> [commit |-> c, place |-> r.place, event |-> r.event]]
<1>1. f \in [B -> N]
  BY DEF Stamped
<1>2. ASSUME NEW r \in B, NEW q \in B, f[r] = f[q] PROVE r = q
  <2>1. r.place = q.place /\ r.event = q.event
    BY <1>2
  <2>2. r = [place |-> r.place, event |-> r.event] /\ q = [place |-> q.place, event |-> q.event]
    BY DEF BatchRows
  <2> QED BY <2>1, <2>2
<1>3. \A y \in N : \E r \in B : f[r] = y
  BY DEF Stamped
<1> HIDE DEF f, N
<1>4. f \in Bijection(B, N)
  <2>1. f \in Injection(B, N)
    BY <1>1, <1>2 DEF Injection, IsInjective
  <2>2. f \in Surjection(B, N)
    BY <1>1, <1>3 DEF Surjection
  <2> QED BY <2>1, <2>2 DEF Bijection
<1>5. ExistsBijection(B, N)
  BY <1>4 DEF ExistsBijection
<1> QED BY <1>5, FS_Bijection DEF N

\* A sum, by a name the provers match
IsSum(n, k, l) == n = k + l

LEMMA CountedApart ==
    ASSUME NEW S, NEW T, IsFiniteSet(S), IsFiniteSet(T), S \cap T = {}
    PROVE  Cardinality(S \cup T) = Cardinality(S) + Cardinality(T)
<1>1. Cardinality(S \cup T) = Cardinality(S) + Cardinality(T) - Cardinality(S \cap T)
  BY FS_Union
<1>2. Cardinality(S \cap T) = 0
  BY FS_EmptySet
<1>3. Cardinality(S) \in Nat /\ Cardinality(T) \in Nat
  BY FS_CardinalityType
<1> QED BY <1>1, <1>2, <1>3

LEMMA DownloadsAdded ==
    ASSUME NEW R, NEW B, IsFiniteSet(R), IsFiniteSet(B), \A r \in B : r \in BatchRows,
           NEW c, \A r \in R : r.commit # c, NEW a
    PROVE  /\ IsFiniteSet(R \cup Stamped(c, B))
           /\ Cardinality(DownloadsOf(R, a)) \in Nat /\ Cardinality(DownloadsOf(B, a)) \in Nat
           /\ IsSum(Cardinality(DownloadsOf(R \cup Stamped(c, B), a)),
                    Cardinality(DownloadsOf(R, a)), Cardinality(DownloadsOf(B, a)))
<1> DEFINE N == Stamped(c, B)
           D == DownloadsOf(B, a)
           M == Stamped(c, D)
           S == DownloadsOf(R, a)
<1>1. D \in SUBSET B /\ S \in SUBSET R
  BY DEF DownloadsOf
<1>2. IsFiniteSet(D) /\ IsFiniteSet(S) /\ \A r \in D : r \in BatchRows
  BY <1>1, FS_Subset
<1>3. IsFiniteSet(N) /\ IsFiniteSet(M) /\ Cardinality(M) = Cardinality(D)
  <2>1. IsFiniteSet(N)
    BY NumberedCount
  <2> HIDE DEF D
  <2>2. IsFiniteSet(M) /\ Cardinality(M) = Cardinality(D)
    BY <1>2, NumberedCount
  <2> QED BY <2>1, <2>2
<1>4. DownloadsOf(R \cup N, a) = S \cup M
  <2>1. ASSUME NEW x, x \in DownloadsOf(R \cup N, a) PROVE x \in S \cup M
    <3>1. x.event.kind = "download" /\ x.event.what = a /\ (x \in R \/ x \in N)
      BY <2>1 DEF DownloadsOf
    <3>2. CASE x \in R
      BY <3>1, <3>2 DEF DownloadsOf
    <3>3. CASE x \in N
      <4>1. PICK r \in B : x = [commit |-> c, place |-> r.place, event |-> r.event]
        BY <3>3 DEF Stamped
      <4>2. r \in D
        BY <3>1, <4>1 DEF DownloadsOf
      <4> QED BY <4>1, <4>2 DEF Stamped
    <3> QED BY <3>1, <3>2, <3>3
  <2>2. ASSUME NEW x, x \in S PROVE x \in DownloadsOf(R \cup N, a)
    BY <2>2 DEF DownloadsOf
  <2>3. ASSUME NEW x, x \in M PROVE x \in DownloadsOf(R \cup N, a)
    <3>1. PICK r \in D : x = [commit |-> c, place |-> r.place, event |-> r.event]
      BY <2>3 DEF Stamped
    <3>2. r \in B /\ r.event.kind = "download" /\ r.event.what = a
      BY DEF DownloadsOf
    <3>3. x \in N /\ x.event = r.event
      BY <3>1, <3>2 DEF Stamped
    <3> QED BY <3>2, <3>3 DEF DownloadsOf
  <2> QED BY <2>1, <2>2, <2>3
<1>5. S \cap M = {}
  <2> SUFFICES ASSUME NEW x \in S, x \in M PROVE FALSE
    OBVIOUS
  <2>1. x.commit # c
    BY <1>1
  <2>2. x.commit = c
    BY DEF Stamped
  <2> QED BY <2>1, <2>2
<1> HIDE DEF N, M, S, D
<1>6. Cardinality(S \cup M) = Cardinality(S) + Cardinality(M)
  BY <1>2, <1>3, <1>5, CountedApart
<1>7. IsFiniteSet(R \cup N)
  BY <1>3, FS_Union
<1>8. Cardinality(S) \in Nat /\ Cardinality(D) \in Nat
  BY <1>2, FS_CardinalityType
<1> QED BY <1>3, <1>4, <1>6, <1>7, <1>8 DEF N, S, D, IsSum

--------------------------------------------------------------------------------
(* Queries over the recorded events *)

LEMMA OfKindFacts ==
    ASSUME AnalyticsTyped, NEW kind
    PROVE  IsFiniteSet(OfKind(kind)) /\ \A r \in OfKind(kind) : r.event.day \in Int
<1>1. OfKind(kind) \in SUBSET recorded
  BY DEF OfKind
<1>2. IsFiniteSet(recorded) /\ \A r \in recorded : r.event \in Events
  BY DEF AnalyticsTyped
<1> QED BY <1>1, <1>2, FS_Subset, AnalyticsConstants

\* A window and what comes after it.
LEMMA WindowsAdd ==
    ASSUME NEW R, IsFiniteSet(R), \A r \in R : r.event.day \in Int,
           NEW from \in Int, NEW to \in Int, from <= to
    PROVE  /\ Cardinality({r \in R : r.event.day >= from}) \in Nat
           /\ Cardinality({r \in R : r.event.day >= to}) \in Nat
           /\ Cardinality({r \in R : r.event.day >= from /\ r.event.day < to}) \in Nat
           /\ Cardinality({r \in R : r.event.day >= from})
                = Cardinality({r \in R : r.event.day >= from /\ r.event.day < to})
                  + Cardinality({r \in R : r.event.day >= to})
<1> DEFINE A == {r \in R : r.event.day >= from}
           B == {r \in R : r.event.day >= from /\ r.event.day < to}
           C == {r \in R : r.event.day >= to}
<1>1. A = B \cup C /\ B \cap C = {}
  <2>1. \A d \in Int : d >= from <=> (d >= from /\ d < to) \/ d >= to
    OBVIOUS
  <2>2. \A d \in Int : ~(d < to /\ d >= to)
    OBVIOUS
  <2> QED BY <2>1, <2>2
<1>2. A \in SUBSET R /\ B \in SUBSET R /\ C \in SUBSET R
  OBVIOUS
<1> HIDE DEF A, B, C
<1>3. IsFiniteSet(A) /\ IsFiniteSet(B) /\ IsFiniteSet(C)
  BY <1>2, FS_Subset
<1>4. Cardinality(A) \in Nat /\ Cardinality(B) \in Nat /\ Cardinality(C) \in Nat
  BY <1>3, FS_CardinalityType
<1>5. Cardinality(A) = Cardinality(B) + Cardinality(C)
  BY <1>1, <1>3, CountedApart
<1> QED BY <1>4, <1>5 DEF A, B, C

LEMMA TrendsArePopular ==
    ASSUME AnalyticsTyped, NEW t \in TrendingSearches, t.query # Blank
    PROVE  [query |-> t.query, count |-> t.recent + t.prior] \in PopularQueries(2 * Week)
<1>1. PICK q \in Queries : t = [query |-> q, recent |-> SearchedSince(q, Today - Week),
                               prior |-> SearchedWithin(q, Today - 2 * Week, Today - Week)]
  BY DEF TrendingSearches
<1>2. t.recent >= 2
  BY DEF TrendingSearches
<1> DEFINE R == SearchesOf(q)
           f == Today - 2 * Week
           m == Today - Week
<1>3. IsFiniteSet(R) /\ \A r \in R : r.event.day \in Int
  <2>1. IsFiniteSet(OfKind("search")) /\ \A r \in OfKind("search") : r.event.day \in Int
    BY OfKindFacts
  <2>2. R \in SUBSET OfKind("search")
    BY DEF SearchesOf
  <2> QED BY <2>1, <2>2, FS_Subset
<1>4. f \in Int /\ m \in Int /\ f <= m
  BY AnalyticsConstants
<1>5. /\ t.query = q /\ t.recent = Cardinality({r \in R : r.event.day >= m})
      /\ t.prior = Cardinality({r \in R : r.event.day >= f /\ r.event.day < m})
      /\ SearchedSince(q, f) = Cardinality({r \in R : r.event.day >= f})
  BY <1>1 DEF SearchedSince, SearchedWithin
<1> HIDE DEF R, f, m
<1>6. /\ Cardinality({r \in R : r.event.day >= m}) \in Nat
      /\ Cardinality({r \in R : r.event.day >= f /\ r.event.day < m}) \in Nat
      /\ Cardinality({r \in R : r.event.day >= f})
           = Cardinality({r \in R : r.event.day >= f /\ r.event.day < m})
             + Cardinality({r \in R : r.event.day >= m})
  BY <1>3, <1>4, WindowsAdd, ZenonT(40)
<1>7. SearchedSince(q, f) = t.recent + t.prior /\ t.recent + t.prior > 0
  BY <1>2, <1>5, <1>6
<1> DEFINE p == [query |-> q, count |-> SearchedSince(q, f)]
<1>8. p \in PopularQueries(2 * Week)
  <2>1. p.count > 0
    BY <1>7
  <2>2. p = [query |-> q, count |-> SearchedSince(q, Today - 2 * Week)]
    BY DEF f
  <2>3. q \in Queries \ {Blank}
    BY <1>1, <1>5
  <2> HIDE DEF p
  <2> QED BY <2>1, <2>2, <2>3 DEF PopularQueries
<1> QED BY <1>5, <1>7, <1>8

LEMMA QueriesAgree == AnalyticsTyped => AggregatesAgree
BY TrendsArePopular DEF AggregatesAgree

--------------------------------------------------------------------------------
(* Counters and views *)

\* A session moves on, and nothing is committed.
LEMMA SessionMoves ==
    ASSUME AnalyticsInv, NEW s \in Sessions, NEW to \in SessionStates, IsFiniteSet(to.batch),
           Stand(s, to), UNCHANGED <<totals, recorded, stored, commits, raced>>, refreshes' \in Nat,
           HoldsTrue(to), TakesInOrder(to),
           to.taken # <<>> => \A t \in Sessions \ {s} : session[t].taken = <<>>
    PROVE  AnalyticsInv'
<1>1. /\ session' = [session EXCEPT ![s] = to] /\ session \in [Sessions -> SessionStates]
      /\ \A t \in Sessions : IsFiniteSet(session[t].batch)
  BY DEF Stand, AnalyticsInv, AnalyticsTyped
<1>2. /\ session' \in [Sessions -> SessionStates] /\ session'[s] = to
      /\ \A t \in Sessions : t # s => session'[t] = session[t]
  BY <1>1
<1>3. AnalyticsTyped'
  <2>1. \A t \in Sessions : IsFiniteSet(session'[t].batch)
    BY <1>1, <1>2
  <2> QED BY <1>2, <2>1 DEF AnalyticsInv, AnalyticsTyped
<1>4. CountersTrue'
  BY DEF AnalyticsInv, CountersTrue
<1>5. \A t \in Sessions : HoldsTrue(session'[t]) /\ TakesInOrder(session'[t])
  BY <1>2 DEF AnalyticsInv
<1>6. \A t \in Sessions : (HoldsTrue(session[t]) /\ TakesInOrder(session[t]))'
  BY <1>5 DEF HoldsTrue, TakesInOrder, InOrder, Downloads
<1>7. (\E run \in Nat : InOrder(stored, run))'
  BY DEF AnalyticsInv, InOrder
<1>8. \A t \in Sessions, u \in Sessions :
          session'[t].taken # <<>> /\ session'[u].taken # <<>> => t = u
  BY <1>2 DEF AnalyticsInv
<1> QED BY <1>3, <1>4, <1>6, <1>7, <1>8 DEF AnalyticsInv

LEMMA SessionFacts ==
    ASSUME AnalyticsInv, NEW s \in Sessions
    PROVE  /\ session[s] \in SessionStates
           /\ session[s].at \in {"idle", "bumping", "refreshing"}
           /\ session[s].batch \in SUBSET BatchRows /\ IsFiniteSet(session[s].batch)
           /\ session[s].held \in [AnalyticsApps -> Nat] /\ session[s].next \in Nat
           /\ session[s].taken \in Seq(Snapshots)
           /\ HoldsTrue(session[s]) /\ TakesInOrder(session[s])
BY DEF AnalyticsInv, AnalyticsTyped, SessionStates

LEMMA NoneFacts ==
    /\ NoSession \in SessionStates /\ IsFiniteSet(NoSession.batch)
    /\ NoSession.at = "idle" /\ NoSession.taken = <<>> /\ NoSession.batch = {}
    /\ NoSession.held = [a \in AnalyticsApps |-> 0] /\ NoSession.next = 0
    /\ NoSession = [at |-> "idle", batch |-> {}, held |-> [a \in AnalyticsApps |-> 0],
                    next |-> 0, taken |-> <<>>]
<1>1. IsFiniteSet({})
  BY FS_EmptySet
<1>2. <<>> \in Seq(Snapshots)
  OBVIOUS
<1> QED BY <1>1, <1>2 DEF NoSession, SessionStates

LEMMA NothingTaken ==
    ASSUME NEW x, x.taken = <<>>
    PROVE  TakesInOrder(x)
<1>1. DOMAIN x.taken = {} /\ Len(x.taken) = 0
  OBVIOUS
<1> QED BY <1>1, AnalyticsConstants DEF TakesInOrder, InOrder

\* A session ends without a commit.
LEMMA Ends ==
    ASSUME AnalyticsInv, NEW s \in Sessions, Stand(s, NoSession),
           UNCHANGED <<totals, recorded, stored, commits, raced, refreshes>>
    PROVE  AnalyticsInv'
<1>1. HoldsTrue(NoSession) /\ TakesInOrder(NoSession)
  BY NoneFacts, NothingTaken DEF HoldsTrue
<1>2. refreshes' \in Nat
  BY DEF AnalyticsInv, AnalyticsTyped
<1> QED BY <1>1, <1>2, NoneFacts, SessionMoves

LEMMA AcceptedFacts ==
    ASSUME NEW batch \in Batches
    PROVE  Accepted(batch) \in SUBSET BatchRows /\ IsFiniteSet(Accepted(batch))
<1> DEFINE I == {i \in DOMAIN batch :
                    /\ Cardinality({j \in 1 .. i : batch[j].kind = batch[i].kind}) <= BatchLimit
                    /\ batch[i].kind = "search" \/ batch[i].what \in AnalyticsApps}
<1>1. Accepted(batch) = {[place |-> i, event |-> batch[i]] : i \in I}
  BY DEF Accepted
<1>2. I \in SUBSET DOMAIN batch
  OBVIOUS
<1> HIDE DEF I
<1>3. DOMAIN batch = 1 .. Len(batch) /\ Len(batch) \in Nat
  BY AnalyticsConstants, LenProperties
<1>4. \A i \in DOMAIN batch : batch[i] \in Events
  BY AnalyticsConstants DEF Range
<1>5. IsFiniteSet(DOMAIN batch)
  <2> DEFINE n == Len(batch)
  <2>1. n \in Int /\ 1 \in Int
    BY <1>3
  <2> HIDE DEF n
  <2>2. IsFiniteSet(1 .. n)
    BY <2>1, FS_Interval
  <2> QED BY <1>3, <2>2 DEF n
<1>6. IsFiniteSet(I)
  BY <1>2, <1>5, FS_Subset
<1> DEFINE N == Accepted(batch)
           f == [i \in I |-> [place |-> i, event |-> batch[i]]]
<1>7. f \in [I -> N] /\ \A y \in N : \E i \in I : f[i] = y
  BY <1>1
<1> HIDE DEF f, N
<1>8. f \in Surjection(I, N)
  BY <1>7 DEF Surjection
<1>9. IsFiniteSet(N)
  BY <1>6, <1>8, FS_Surjection
<1>10. \A i \in I : i \in Nat
  BY <1>2, <1>3
<1>11. Accepted(batch) \in SUBSET BatchRows
  BY <1>1, <1>2, <1>4, <1>10 DEF BatchRows
<1> QED BY <1>9, <1>11 DEF N

LEMMA TypedFacts ==
    ASSUME AnalyticsInv
    PROVE  /\ totals \in [AnalyticsApps -> Nat] /\ commits \in Nat /\ refreshes \in Nat
           /\ IsFiniteSet(recorded) /\ \A a : IsFiniteSet(DownloadsOf(recorded, a)) /\ Downloads(a) \in Nat
           /\ \A r \in recorded : r.commit \in Nat /\ r.commit < commits /\ r.event \in Events
           /\ \A a \in AnalyticsApps : totals[a] <= Downloads(a) /\ (a \notin raced => totals[a] = Downloads(a))
           /\ stored \in [1 .. Views -> Snapshots]
<1>1. /\ totals \in [AnalyticsApps -> Nat] /\ commits \in Nat /\ refreshes \in Nat
      /\ IsFiniteSet(recorded) /\ stored \in [1 .. Views -> Snapshots]
      /\ \A r \in recorded : r.commit \in Nat /\ r.commit < commits /\ r.event \in Events
  BY DEF AnalyticsInv, AnalyticsTyped
<1>2. ASSUME NEW a PROVE IsFiniteSet(DownloadsOf(recorded, a)) /\ Downloads(a) \in Nat
  <2>1. DownloadsOf(recorded, a) \in SUBSET recorded
    BY DEF DownloadsOf
  <2>2. IsFiniteSet(DownloadsOf(recorded, a))
    BY <1>1, <2>1, FS_Subset
  <2> QED BY <2>2, FS_CardinalityType DEF Downloads
<1>3. \A a \in AnalyticsApps : totals[a] <= Downloads(a) /\ (a \notin raced => totals[a] = Downloads(a))
  BY DEF AnalyticsInv, CountersTrue, Downloads
<1> QED BY <1>1, <1>2, <1>3

LEMMA IngestKeeps ==
    ASSUME AnalyticsInv, NEW s \in Sessions, NEW batch \in Batches, Ingest(s, batch)
    PROVE  AnalyticsInv'
<1> DEFINE to == [at |-> "bumping", batch |-> Accepted(batch), held |-> totals, next |-> 1, taken |-> <<>>]
<1>1. Stand(s, to) /\ UNCHANGED <<totals, recorded, stored, commits, raced, refreshes>>
  BY DEF Ingest
<1>2. to = [at |-> "bumping", batch |-> Accepted(batch), held |-> totals, next |-> 1, taken |-> <<>>]
  OBVIOUS
<1> HIDE DEF to
<1>3. /\ to.at = "bumping" /\ to.batch = Accepted(batch) /\ to.held = totals /\ to.next = 1
      /\ to.taken = <<>>
  BY <1>2
<1>4. <<>> \in Seq(Snapshots) /\ totals \in [AnalyticsApps -> Nat]
  BY TypedFacts
<1>5. to \in SessionStates /\ IsFiniteSet(to.batch)
  BY <1>2, <1>3, <1>4, AcceptedFacts DEF SessionStates
<1>6. HoldsTrue(to)
  BY <1>3, TypedFacts DEF HoldsTrue
<1>7. TakesInOrder(to)
  BY <1>3, NothingTaken
<1>8. refreshes' \in Nat
  BY <1>1, TypedFacts
<1> QED BY <1>1, <1>3, <1>5, <1>6, <1>7, <1>8, SessionMoves

LEMMA UpdateKeeps ==
    ASSUME AnalyticsInv, NEW s \in Sessions, UpdateRow(s)
    PROVE  AnalyticsInv'
<1> DEFINE a == session[s].next
           to == [session[s] EXCEPT !.next = a + 1]
<1>1. /\ session[s].at = "bumping" /\ a \in AnalyticsApps
      /\ Stand(s, to) /\ UNCHANGED <<totals, recorded, stored, commits, raced, refreshes>>
  BY DEF UpdateRow
<1>2. session[s] \in SessionStates /\ a + 1 \in Nat
  BY SessionFacts
<1>3. /\ to \in SessionStates /\ to.at = session[s].at /\ to.batch = session[s].batch
      /\ to.held = session[s].held /\ to.taken = session[s].taken
  BY <1>2 DEF SessionStates
<1> HIDE DEF to
<1>4. session[s].taken = <<>>
  BY <1>1, SessionFacts DEF TakesInOrder
<1>5. HoldsTrue(to)
  BY <1>3, SessionFacts DEF HoldsTrue
<1>6. TakesInOrder(to)
  BY <1>3, <1>4, NothingTaken
<1>7. refreshes' \in Nat /\ IsFiniteSet(to.batch)
  BY <1>1, <1>3, TypedFacts, SessionFacts
<1> QED BY <1>1, <1>3, <1>4, <1>5, <1>6, <1>7, SessionMoves

LEMMA BeginRefreshKeeps ==
    ASSUME AnalyticsInv, NEW s \in Sessions, BeginRefresh(s)
    PROVE  AnalyticsInv'
<1> DEFINE to == [at |-> "refreshing", batch |-> {}, held |-> NoSession.held, next |-> refreshes + 1,
                taken |-> <<>>]
<1>1. Stand(s, to) /\ UNCHANGED <<totals, recorded, stored, commits, raced>> /\ refreshes' = refreshes + 1
  BY DEF BeginRefresh
<1>2. to = [at |-> "refreshing", batch |-> {}, held |-> [a \in AnalyticsApps |-> 0],
            next |-> refreshes + 1, taken |-> <<>>]
  BY NoneFacts
<1> HIDE DEF to
<1>3. /\ to.at = "refreshing" /\ to.batch = {} /\ to.taken = <<>>
  BY <1>2
<1>4. <<>> \in Seq(Snapshots) /\ refreshes + 1 \in Nat /\ [a \in AnalyticsApps |-> 0] \in [AnalyticsApps -> Nat]
  BY TypedFacts
<1>5. to \in SessionStates /\ IsFiniteSet(to.batch)
  BY <1>2, <1>3, <1>4, FS_EmptySet DEF SessionStates
<1>6. HoldsTrue(to)
  BY <1>3 DEF HoldsTrue
<1>7. TakesInOrder(to)
  BY <1>3, NothingTaken
<1>8. refreshes' \in Nat
  BY <1>1, <1>4
<1> QED BY <1>1, <1>3, <1>5, <1>6, <1>7, <1>8, SessionMoves

\* Who refreshes a view has refreshed the first.
LEMMA RefreshKeeps ==
    ASSUME AnalyticsInv, NEW s \in Sessions, RefreshView(s)
    PROVE  AnalyticsInv'
<1> DEFINE x == session[s]
           n == Len(x.taken)
           now == RowsNow(x.next)
           views == Append(x.taken, now)
           to == [x EXCEPT !.taken = views]
<1>1. /\ x.at = "refreshing" /\ n < Views /\ \A t \in Sessions \ {s} : ~Refreshed(t, n + 1)
      /\ Stand(s, to) /\ UNCHANGED <<totals, recorded, stored, commits, raced, refreshes>>
  BY DEF RefreshView
<1>2. x \in SessionStates /\ x.taken \in Seq(Snapshots) /\ TakesInOrder(x) /\ x.next \in Nat
      /\ IsFiniteSet(x.batch)
  BY SessionFacts
<1>3. now \in Snapshots /\ now.commits = commits /\ now.run = x.next
  BY <1>2, TypedFacts DEF RowsNow, Snapshots
<1> HIDE DEF now
<1>4. /\ views \in Seq(Snapshots) /\ Len(views) = n + 1 /\ views[n + 1] = now
      /\ \A v \in 1 .. n : views[v] = x.taken[v]
  BY <1>2, <1>3, AppendProperties
<1> HIDE DEF views
<1>5. /\ to \in SessionStates /\ to.at = x.at /\ to.batch = x.batch /\ to.next = x.next
      /\ to.taken = views
  BY <1>2, <1>4 DEF SessionStates
<1> HIDE DEF to
<1>6. n \in Nat /\ DOMAIN x.taken = 1 .. n /\ DOMAIN views = 1 .. n + 1
  BY <1>2, <1>4, LenProperties
<1>7. /\ \A v \in 1 .. n : x.taken[v].run = x.next /\ x.taken[v].commits <= commits
      /\ \A v \in 1 .. n : v + 1 \in 1 .. n => x.taken[v].commits <= x.taken[v + 1].commits
      /\ \A v \in 1 .. n : x.taken[v].commits >= stored[v].commits
  BY <1>2, <1>6 DEF TakesInOrder, InOrder
<1>8. \A v \in 1 .. Views : stored[v].commits <= commits
  <2>1. PICK run \in Nat : InOrder(stored, run)
    BY DEF AnalyticsInv
  <2>2. DOMAIN stored = 1 .. Views
    BY TypedFacts
  <2> QED BY <2>1, <2>2 DEF InOrder
<1> HIDE DEF x, n
<1>9. commits \in Nat /\ Views \in Nat
  BY TypedFacts, AnalyticsConstants
<1>10. ASSUME NEW v \in 1 .. n + 1
       PROVE  views[v].run = x.next /\ views[v].commits <= commits /\ views[v].commits >= stored[v].commits
  <2>1. CASE v = n + 1
    <3>1. v \in 1 .. Views
      BY <1>1, <1>6, <1>9, <2>1
    <3>2. stored[v].commits <= commits /\ stored[v].commits \in Nat
      BY <1>8, <3>1, TypedFacts DEF Snapshots
    <3> QED BY <1>3, <1>4, <1>9, <2>1, <3>2
  <2>2. CASE v \in 1 .. n
    BY <1>4, <1>7, <2>2
  <2> QED BY <1>6, <2>1, <2>2
<1>11. ASSUME NEW v \in 1 .. n + 1, v + 1 \in 1 .. n + 1
       PROVE  views[v].commits <= views[v + 1].commits
  <2>1. v \in 1 .. n
    BY <1>6, <1>11
  <2>2. CASE v = n
    <3>1. views[v + 1].commits = commits
      BY <1>3, <1>4, <2>2
    <3>2. views[v].commits <= commits
      BY <1>10
    <3> QED BY <3>1, <3>2
  <2>3. CASE v # n
    <3>1. v + 1 \in 1 .. n
      BY <1>6, <2>1, <2>3
    <3> QED BY <1>4, <1>7, <2>1, <3>1
  <2> QED BY <2>2, <2>3
<1>12. TakesInOrder(to)
  <2>1. to.at = "refreshing"
    BY <1>1, <1>5
  <2>2. n + 1 <= Views
    BY <1>1, <1>6, <1>9
  <2> QED BY <1>4, <1>5, <1>6, <1>10, <1>11, <2>1, <2>2 DEF TakesInOrder, InOrder
<1>13. HoldsTrue(to)
  BY <1>1, <1>5 DEF HoldsTrue
<1>14. \A t \in Sessions \ {s} : session[t].taken = <<>>
  <2> SUFFICES ASSUME NEW t \in Sessions \ {s}, session[t].taken # <<>> PROVE FALSE
    OBVIOUS
  <2>1. x.taken = <<>>
    BY DEF AnalyticsInv, x
  <2>2. n = 0
    BY <2>1 DEF n
  <2>3. session[t].at = "refreshing" /\ session[t].taken \in Seq(Snapshots)
    BY SessionFacts DEF TakesInOrder
  <2>4. 1 \in 1 .. Len(session[t].taken)
    BY <2>3, EmptySeq, LenProperties
  <2>5. ~Refreshed(t, 1)
    BY <1>1, <2>2
  <2> QED BY <2>3, <2>4, <2>5 DEF Refreshed
<1>15. refreshes' \in Nat /\ IsFiniteSet(to.batch)
  BY <1>1, <1>2, <1>5, TypedFacts
<1> QED BY <1>1, <1>5, <1>12, <1>13, <1>14, <1>15, SessionMoves

LEMMA CommitCounts ==
    ASSUME NEW B, IsFiniteSet(recorded), IsFiniteSet(B), \A r \in B : r \in BatchRows,
           \A r \in recorded : r.commit # commits
    PROVE  /\ IsFiniteSet(recorded \cup Stamped(commits, B))
           /\ \A a : /\ Cardinality(DownloadsOf(B, a)) \in Nat
                     /\ Cardinality(DownloadsOf(recorded \cup Stamped(commits, B), a))
                          = Cardinality(DownloadsOf(recorded, a)) + Cardinality(DownloadsOf(B, a))
<1>1. IsFiniteSet(recorded \cup Stamped(commits, B))
  BY DownloadsAdded
<1>2. ASSUME NEW a PROVE Cardinality(DownloadsOf(B, a)) \in Nat
  BY DownloadsAdded
<1>3. ASSUME NEW a
      PROVE  Cardinality(DownloadsOf(recorded \cup Stamped(commits, B), a))
               = Cardinality(DownloadsOf(recorded, a)) + Cardinality(DownloadsOf(B, a))
  <2>1. IsSum(Cardinality(DownloadsOf(recorded \cup Stamped(commits, B), a)),
              Cardinality(DownloadsOf(recorded, a)), Cardinality(DownloadsOf(B, a)))
    BY DownloadsAdded
  <2> QED BY <2>1 DEF IsSum
<1> QED BY <1>1, <1>2, <1>3

\* What a commit counts is what its session read, and what it adds is what it records.
LEMMA BatchKeeps ==
    ASSUME AnalyticsInv, NEW s \in Sessions, CommitBatch(s)
    PROVE  AnalyticsInv'
<1> DEFINE x == session[s]
           B == x.batch
           added(a) == Cardinality(DownloadsOf(B, a))
<1>1. /\ x.at = "bumping"
      /\ totals' = [a \in AnalyticsApps |-> IF Bumps(s, a) THEN Bumped(s, a) ELSE totals[a]]
      /\ recorded' = recorded \cup Stamped(commits, B)
      /\ raced' = raced \cup {a \in AnalyticsApps :
                               Bumps(s, a) /\ \E t \in Sessions \ {s} :
                                                 session[t].at = "bumping" /\ Bumps(t, a)}
      /\ commits' = commits + 1 /\ Stand(s, NoSession)
      /\ UNCHANGED <<stored, sent, refreshes>>
  BY DEF CommitBatch, Stamped
<1>2. /\ totals \in [AnalyticsApps -> Nat] /\ commits \in Nat /\ refreshes \in Nat
      /\ IsFiniteSet(recorded) /\ \A a : IsFiniteSet(DownloadsOf(recorded, a)) /\ Downloads(a) \in Nat
      /\ \A r \in recorded : r.commit \in Nat /\ r.commit < commits /\ r.event \in Events
      /\ \A a \in AnalyticsApps : totals[a] <= Downloads(a) /\ (a \notin raced => totals[a] = Downloads(a))
      /\ stored \in [1 .. Views -> Snapshots]
  BY TypedFacts
<1>3. /\ B \in SUBSET BatchRows /\ IsFiniteSet(B) /\ x.held \in [AnalyticsApps -> Nat]
      /\ HoldsTrue(x)
  BY SessionFacts
<1>4. ASSUME NEW a \in AnalyticsApps
      PROVE  totals'[a] = IF added(a) > 0 THEN x.held[a] + added(a) ELSE totals[a]
  BY <1>1 DEF Bumps, Bumped, Count
<1>5. \A a \in AnalyticsApps :
          /\ x.held[a] <= Downloads(a) /\ x.held[a] \in Nat
          /\ added(a) > 0 => x.held[a] = totals[a] \/ a \in raced
  BY <1>1, <1>3 DEF HoldsTrue
<1>6. IsFiniteSet(recorded') /\ \A a : Downloads(a)' = Downloads(a) + added(a) /\ added(a) \in Nat
  <2>1. \A r \in recorded : r.commit # commits
    BY <1>2
  <2>2. \A r \in B : r \in BatchRows
    BY <1>3
  <2>3. /\ IsFiniteSet(recorded \cup Stamped(commits, B))
        /\ \A a : /\ Cardinality(DownloadsOf(B, a)) \in Nat
                  /\ Cardinality(DownloadsOf(recorded \cup Stamped(commits, B), a))
                       = Cardinality(DownloadsOf(recorded, a)) + Cardinality(DownloadsOf(B, a))
    BY <1>2, <1>3, <2>1, <2>2, CommitCounts
  <2>4. \A a : Downloads(a)' = Cardinality(DownloadsOf(recorded', a))
    BY DEF Downloads, DownloadsOf
  <2> QED BY <1>1, <2>3, <2>4 DEF Downloads
<1>7. raced \subseteq raced'
  BY <1>1
<1>8. \A r \in recorded' : r.commit \in Nat /\ r.commit < commits' /\ r.event \in Events
  <2> SUFFICES ASSUME NEW r \in recorded'
               PROVE  r.commit \in Nat /\ r.commit < commits' /\ r.event \in Events
    OBVIOUS
  <2>1. CASE r \in recorded
    BY <1>1, <1>2, <2>1
  <2>2. CASE r \in Stamped(commits, B)
    <3>1. PICK q \in B : r = [commit |-> commits, place |-> q.place, event |-> q.event]
      BY <2>2 DEF Stamped
    <3>2. q.event \in Events
      BY <1>3 DEF BatchRows
    <3> QED BY <1>1, <1>2, <3>1, <3>2
  <2> QED BY <1>1, <2>1, <2>2
<1>9. /\ session' \in [Sessions -> SessionStates] /\ session'[s] = NoSession
      /\ \A t \in Sessions : t # s => session'[t] = session[t]
      /\ \A t \in Sessions : IsFiniteSet(session'[t].batch)
  <2>1. session \in [Sessions -> SessionStates] /\ \A t \in Sessions : IsFiniteSet(session[t].batch)
    BY DEF AnalyticsInv, AnalyticsTyped
  <2>2. session' = [session EXCEPT ![s] = NoSession]
    BY <1>1 DEF Stand
  <2>3. /\ session' \in [Sessions -> SessionStates] /\ session'[s] = NoSession
        /\ \A t \in Sessions : t # s => session'[t] = session[t]
    BY <2>1, <2>2, NoneFacts
  <2> QED BY <2>1, <2>3, NoneFacts
<1> HIDE DEF added, B
<1>10. totals' \in [AnalyticsApps -> Nat]
  <2>1. DOMAIN totals' = AnalyticsApps /\ totals' = [a \in AnalyticsApps |-> totals'[a]]
    BY <1>1
  <2>2. ASSUME NEW a \in AnalyticsApps PROVE totals'[a] \in Nat
    <3>1. totals[a] \in Nat
      BY <1>2
    <3>2. x.held[a] \in Nat
      BY <1>5
    <3>3. added(a) \in Nat
      BY <1>6
    <3>4. totals'[a] = x.held[a] + added(a) \/ totals'[a] = totals[a]
      BY <1>4
    <3> QED BY <3>1, <3>2, <3>3, <3>4
  <2> QED BY <2>1, <2>2
<1>11. AnalyticsTyped'
  <2>1. commits' \in Nat /\ refreshes' \in Nat /\ stored' \in [1 .. Views -> Snapshots]
    BY <1>1, <1>2
  <2> QED BY <1>6, <1>8, <1>9, <1>10, <2>1 DEF AnalyticsTyped
<1>12. CountersTrue'
  <2>1. ASSUME NEW a \in AnalyticsApps
        PROVE  totals'[a] <= Downloads(a)' /\ (a \notin raced' => totals'[a] = Downloads(a)')
    <3>1. totals[a] <= Downloads(a) /\ (a \notin raced => totals[a] = Downloads(a))
      BY <1>2
    <3>2. x.held[a] <= Downloads(a) /\ (added(a) > 0 => x.held[a] = totals[a] \/ a \in raced)
      BY <1>5
    <3>3. totals[a] \in Nat /\ x.held[a] \in Nat /\ Downloads(a) \in Nat /\ added(a) \in Nat
      BY <1>2, <1>5, <1>6
    <3>4. Downloads(a)' = Downloads(a) + added(a)
      BY <1>6
    <3>5. a \notin raced' => a \notin raced
      BY <1>7
    <3>6. CASE added(a) > 0
      <4>1. totals'[a] = x.held[a] + added(a)
        BY <1>4, <3>6
      <4> QED BY <3>1, <3>2, <3>3, <3>4, <3>5, <3>6, <4>1
    <3>7. CASE ~(added(a) > 0)
      <4>1. totals'[a] = totals[a] /\ added(a) = 0
        BY <1>4, <3>3, <3>7
      <4> QED BY <3>1, <3>3, <3>4, <3>5, <4>1
    <3> QED BY <3>6, <3>7
  <2> QED BY <2>1 DEF CountersTrue, Downloads
<1>13. ASSUME NEW t \in Sessions PROVE HoldsTrue(session[t])'
  <2>1. CASE t = s
    BY <1>9, <2>1, NoneFacts DEF HoldsTrue
  <2>2. CASE t # s
    <3>1. session'[t] = session[t]
      BY <1>9, <2>2
    <3> SUFFICES ASSUME session[t].at = "bumping", NEW a \in AnalyticsApps
                 PROVE  /\ session[t].held[a] <= Downloads(a)'
                        /\ Cardinality(DownloadsOf(session[t].batch, a)) > 0 =>
                               session[t].held[a] = totals'[a] \/ a \in raced'
      BY <3>1 DEF HoldsTrue, DownloadsOf
    <3>2. /\ session[t].held[a] <= Downloads(a) /\ session[t].held[a] \in Nat
          /\ Cardinality(DownloadsOf(session[t].batch, a)) > 0 =>
                 session[t].held[a] = totals[a] \/ a \in raced
      BY SessionFacts DEF HoldsTrue
    <3>3. session[t].held[a] <= Downloads(a)'
      <4>1. Downloads(a)' = Downloads(a) + added(a) /\ Downloads(a) \in Nat /\ added(a) \in Nat
        BY <1>2, <1>6
      <4> QED BY <3>2, <4>1
    <3>4. ASSUME Cardinality(DownloadsOf(session[t].batch, a)) > 0
          PROVE  session[t].held[a] = totals'[a] \/ a \in raced'
      <4>1. CASE added(a) > 0
        <5>1. Bumps(s, a) /\ Bumps(t, a)
          BY <3>4, <4>1 DEF Bumps, Count, added, B
        <5>2. a \in raced'
          BY <1>1, <2>2, <5>1
        <5> QED BY <5>2
      <4>2. CASE ~(added(a) > 0)
        <5>1. totals'[a] = totals[a]
          BY <1>4, <4>2
        <5> QED BY <1>7, <3>2, <3>4, <5>1
      <4> QED BY <4>1, <4>2
    <3> QED BY <3>3, <3>4
  <2> QED BY <2>1, <2>2
<1>14. ASSUME NEW views, NEW run, InOrder(views, run), \A v \in DOMAIN views : views[v].commits \in Nat
       PROVE  /\ \A v \in DOMAIN views : views[v].run = run /\ views[v].commits <= commits'
              /\ \A v \in DOMAIN views : v + 1 \in DOMAIN views => views[v].commits <= views[v + 1].commits
  BY <1>1, <1>2, <1>14 DEF InOrder
<1>15. ASSUME NEW t \in Sessions PROVE TakesInOrder(session[t])'
  <2>1. CASE t = s
    <3>1. session'[t].taken = <<>> /\ DOMAIN session'[t].taken = {} /\ Len(session'[t].taken) = 0
      BY <1>9, <2>1, NoneFacts
    <3> QED BY <3>1, AnalyticsConstants DEF TakesInOrder, InOrder
  <2>2. CASE t # s
    <3> DEFINE y == session[t]
    <3>1. session'[t] = y
      BY <1>9, <2>2
    <3>2. TakesInOrder(y) /\ y.taken \in Seq(Snapshots)
      BY SessionFacts
    <3>3. \A v \in DOMAIN y.taken : y.taken[v].commits \in Nat
      <4>1. \A v \in DOMAIN y.taken : y.taken[v] \in Snapshots
        BY <3>2
      <4> QED BY <4>1 DEF Snapshots
    <3> HIDE DEF y
    <3>4. /\ \A v \in DOMAIN y.taken : y.taken[v].run = y.next /\ y.taken[v].commits <= commits'
          /\ \A v \in DOMAIN y.taken : v + 1 \in DOMAIN y.taken =>
                                          y.taken[v].commits <= y.taken[v + 1].commits
      BY <1>14, <3>2, <3>3 DEF TakesInOrder
    <3> QED BY <1>1, <3>1, <3>2, <3>4 DEF TakesInOrder, InOrder
  <2> QED BY <2>1, <2>2
<1>16. (\E run \in Nat : InOrder(stored, run))'
  <2>1. PICK run \in Nat : InOrder(stored, run)
    BY DEF AnalyticsInv
  <2>2. \A v \in DOMAIN stored : stored[v].commits \in Nat
    BY <1>2 DEF Snapshots
  <2>3. /\ \A v \in DOMAIN stored : stored[v].run = run /\ stored[v].commits <= commits'
        /\ \A v \in DOMAIN stored : v + 1 \in DOMAIN stored => stored[v].commits <= stored[v + 1].commits
    BY <1>14, <2>1, <2>2
  <2>4. InOrder(stored, run)'
    BY <1>1, <2>3 DEF InOrder
  <2> QED BY <2>4
<1>17. \A t \in Sessions, u \in Sessions :
          session'[t].taken # <<>> /\ session'[u].taken # <<>> => t = u
  BY <1>9, NoneFacts DEF AnalyticsInv
<1> QED BY <1>11, <1>12, <1>13, <1>15, <1>16, <1>17 DEF AnalyticsInv

LEMMA ViewsKeep ==
    ASSUME AnalyticsInv, NEW s \in Sessions, CommitRefresh(s)
    PROVE  AnalyticsInv'
<1> DEFINE x == session[s]
<1>1. /\ x.at = "refreshing" /\ Len(x.taken) = Views /\ stored' = x.taken /\ Stand(s, NoSession)
      /\ UNCHANGED <<totals, recorded, commits, raced, sent, refreshes>>
  BY DEF CommitRefresh
<1>2. x.taken \in Seq(Snapshots) /\ TakesInOrder(x) /\ x.next \in Nat
  BY SessionFacts
<1>3. stored' \in [1 .. Views -> Snapshots]
  BY <1>1, <1>2, LenProperties
<1>4. /\ session' \in [Sessions -> SessionStates] /\ session'[s] = NoSession
      /\ \A t \in Sessions : t # s => session'[t] = session[t]
      /\ \A t \in Sessions : IsFiniteSet(session'[t].batch)
  <2>1. session \in [Sessions -> SessionStates] /\ \A t \in Sessions : IsFiniteSet(session[t].batch)
    BY DEF AnalyticsInv, AnalyticsTyped
  <2>2. session' = [session EXCEPT ![s] = NoSession]
    BY <1>1 DEF Stand
  <2>3. /\ session' \in [Sessions -> SessionStates] /\ session'[s] = NoSession
        /\ \A t \in Sessions : t # s => session'[t] = session[t]
    BY <2>1, <2>2, NoneFacts
  <2> QED BY <2>1, <2>3, NoneFacts
<1>5. AnalyticsTyped'
  <2>1. /\ totals \in [AnalyticsApps -> Nat] /\ commits \in Nat /\ refreshes \in Nat
        /\ IsFiniteSet(recorded)
        /\ \A r \in recorded : r.commit \in Nat /\ r.commit < commits /\ r.event \in Events
    BY TypedFacts
  <2> QED BY <1>1, <1>3, <1>4, <2>1 DEF AnalyticsTyped
<1>6. CountersTrue'
  BY <1>1 DEF AnalyticsInv, CountersTrue
<1>7. x.taken # <<>>
  <2>1. Len(x.taken) # 0
    BY <1>1, AnalyticsConstants
  <2> QED BY <2>1
<1>8. \A t \in Sessions : session'[t].taken = <<>>
  <2>1. \A t \in Sessions : t # s => session[t].taken = <<>>
    BY <1>7 DEF AnalyticsInv
  <2> QED BY <1>4, <2>1, NoneFacts
<1>9. ASSUME NEW t \in Sessions PROVE HoldsTrue(session[t])'
  <2>1. CASE t = s
    BY <1>4, <2>1, NoneFacts DEF HoldsTrue
  <2>2. CASE t # s
    <3>1. session'[t] = session[t] /\ HoldsTrue(session[t])
      BY <1>4, <2>2, SessionFacts
    <3> QED BY <1>1, <3>1 DEF HoldsTrue, Downloads, DownloadsOf
  <2> QED BY <2>1, <2>2
<1>10. ASSUME NEW t \in Sessions PROVE TakesInOrder(session[t])'
  <2>1. session'[t].taken = <<>> /\ DOMAIN session'[t].taken = {} /\ Len(session'[t].taken) = 0
    BY <1>8
  <2> QED BY <2>1, AnalyticsConstants DEF TakesInOrder, InOrder
<1>11. (\E run \in Nat : InOrder(stored, run))'
  <2>1. InOrder(x.taken, x.next)
    BY <1>2 DEF TakesInOrder
  <2> HIDE DEF x
  <2>2. InOrder(stored, x.next)' <=> InOrder(stored, x.next)'
    OBVIOUS
  <2>3. \E run \in Nat :
          /\ \A v \in DOMAIN stored' : stored'[v].run = run /\ stored'[v].commits <= commits'
          /\ \A v \in DOMAIN stored' : v + 1 \in DOMAIN stored' =>
                                         stored'[v].commits <= stored'[v + 1].commits
    BY <1>1, <1>2, <2>1 DEF InOrder
  <2> QED BY <2>3 DEF InOrder
<1>12. \A t \in Sessions, u \in Sessions :
          session'[t].taken # <<>> /\ session'[u].taken # <<>> => t = u
  BY <1>8
<1> QED BY <1>5, <1>6, <1>9, <1>10, <1>11, <1>12 DEF AnalyticsInv

LEMMA AnalyticsStand ==
    ASSUME AnalyticsInv, UNCHANGED analyticsVars PROVE AnalyticsInv'
<1>1. UNCHANGED <<totals, recorded, stored, commits, session, raced, sent, refreshes>>
  BY DEF analyticsVars
<1>2. AnalyticsTyped' /\ CountersTrue'
  BY <1>1 DEF AnalyticsInv, AnalyticsTyped, CountersTrue
<1>3. \A s \in Sessions : (HoldsTrue(session[s]) /\ TakesInOrder(session[s]))'
  BY <1>1 DEF AnalyticsInv, HoldsTrue, TakesInOrder, InOrder, Downloads
<1>4. (\E run \in Nat : InOrder(stored, run))'
  BY <1>1 DEF AnalyticsInv, InOrder
<1>5. \A t \in Sessions, u \in Sessions :
          session'[t].taken # <<>> /\ session'[u].taken # <<>> => t = u
  BY <1>1 DEF AnalyticsInv
<1> QED BY <1>2, <1>3, <1>4, <1>5 DEF AnalyticsInv

LEMMA InitAnalytics == ASSUME AnalyticsInit PROVE AnalyticsInv
<1> DEFINE none == [totals |-> [a \in AnalyticsApps |-> 0], commits |-> 0, run |-> 0]
<1>1. /\ totals = [a \in AnalyticsApps |-> 0] /\ recorded = {} /\ commits = 0 /\ raced = {}
      /\ stored = [v \in 1 .. Views |-> none] /\ session = [s \in Sessions |-> NoSession]
      /\ refreshes = 0
  BY DEF AnalyticsInit
<1>2. none \in Snapshots /\ none.commits = 0 /\ none.run = 0
  BY DEF Snapshots
<1> HIDE DEF none
<1>3. IsFiniteSet(recorded)
  BY <1>1, FS_EmptySet
<1>4. \A a : DownloadsOf(recorded, a) = {} /\ Cardinality(DownloadsOf(recorded, a)) = 0
  BY <1>1, FS_EmptySet DEF DownloadsOf
<1>5. \A s \in Sessions : session[s] = NoSession
  BY <1>1
<1>6. AnalyticsTyped
  <2>1. session \in [Sessions -> SessionStates] /\ \A s \in Sessions : IsFiniteSet(session[s].batch)
    BY <1>1, <1>5, NoneFacts
  <2> QED BY <1>1, <1>2, <1>3, <2>1 DEF AnalyticsTyped
<1>7. CountersTrue
  BY <1>1, <1>4 DEF CountersTrue
<1>8. \A s \in Sessions : HoldsTrue(session[s]) /\ TakesInOrder(session[s]) /\ session[s].taken = <<>>
  BY <1>5, NoneFacts, NothingTaken DEF HoldsTrue
<1>9. InOrder(stored, 0)
  BY <1>1, <1>2 DEF InOrder
<1>10. \E run \in Nat : InOrder(stored, run)
  BY <1>9
<1> QED BY <1>6, <1>7, <1>8, <1>10 DEF AnalyticsInv

LEMMA KeptAnalytics == AnalyticsInv => AnalyticsHonest
<1> SUFFICES ASSUME AnalyticsInv PROVE AnalyticsHonest
  OBVIOUS
<1>1. CountersTrue /\ AnalyticsTyped
  BY DEF AnalyticsInv
<1>2. ViewsOfOneRefresh
  <2>1. PICK run \in Nat : InOrder(stored, run)
    BY DEF AnalyticsInv
  <2>2. DOMAIN stored = 1 .. Views
    BY TypedFacts
  <2>3. \A v \in 1 .. Views - 1 : v \in 1 .. Views /\ v + 1 \in 1 .. Views
    BY AnalyticsConstants
  <2>4. \A v \in 1 .. Views - 1 : /\ stored[v].run = stored[v + 1].run
                                  /\ stored[v].commits <= stored[v + 1].commits
    BY <2>1, <2>2, <2>3 DEF InOrder
  <2>5. \A s \in Sessions : \A v \in 1 .. Len(session[s].taken) :
             session[s].taken[v].commits >= stored[v].commits
    BY DEF AnalyticsInv, TakesInOrder
  <2> QED BY <2>4, <2>5 DEF ViewsOfOneRefresh
<1> QED BY <1>1, <1>2, QueriesAgree DEF AnalyticsHonest

\* Whatever batches are sent and however sessions interleave: no counter claims more downloads
\* than were recorded, and it is their number unless two batches counted at the same time; the
\* views are those of one refresh, and none under way would set one back; and the queries over
\* the events tell the same of them.
THEOREM AnalyticsAreHonest == AnalyticsSpec => []AnalyticsHonest
<1>1. AnalyticsInit => AnalyticsInv
  BY InitAnalytics
<1>2. AnalyticsInv /\ [AnalyticsNext]_analyticsVars => AnalyticsInv'
  <2> SUFFICES ASSUME AnalyticsInv, [AnalyticsNext]_analyticsVars PROVE AnalyticsInv'
    OBVIOUS
  <2>1. CASE UNCHANGED analyticsVars
    BY <2>1, AnalyticsStand
  <2>2. ASSUME NEW s \in Sessions, NEW batch \in Batches, Ingest(s, batch) PROVE AnalyticsInv'
    BY <2>2, IngestKeeps
  <2>3. ASSUME NEW s \in Sessions, IngestRaises(s) \/ RefreshFails(s) PROVE AnalyticsInv'
    BY <2>3, Ends DEF IngestRaises, RefreshFails
  <2>4. ASSUME NEW s \in Sessions, UpdateRow(s) PROVE AnalyticsInv'
    BY <2>4, UpdateKeeps
  <2>5. ASSUME NEW s \in Sessions, CommitBatch(s) PROVE AnalyticsInv'
    BY <2>5, BatchKeeps
  <2>6. ASSUME NEW s \in Sessions, BeginRefresh(s) PROVE AnalyticsInv'
    BY <2>6, BeginRefreshKeeps
  <2>7. ASSUME NEW s \in Sessions, RefreshView(s) PROVE AnalyticsInv'
    BY <2>7, RefreshKeeps
  <2>8. ASSUME NEW s \in Sessions, CommitRefresh(s) PROVE AnalyticsInv'
    BY <2>8, ViewsKeep
  <2> QED BY <2>1, <2>2, <2>3, <2>4, <2>5, <2>6, <2>7, <2>8 DEF AnalyticsNext
<1>3. AnalyticsInv => AnalyticsHonest
  BY KeptAnalytics
<1> QED BY <1>1, <1>2, <1>3, PTL DEF AnalyticsSpec

--------------------------------------------------------------------------------
(* The scores: thresholds *)

\* Of three thresholds, and of four, the first that is reached.
LEMMA ThreeSteps ==
    ASSUME NEW n \in Int, NEW a \in Int, NEW b \in Int, NEW c \in Int, NEW u, NEW v, NEW w, NEW below
    PROVE  Stepped(n, <<<<a, u>>, <<b, v>>, <<c, w>>>>, below)
             = IF n >= a THEN u ELSE IF n >= b THEN v ELSE IF n >= c THEN w ELSE below
<1> DEFINE steps == <<<<a, u>>, <<b, v>>, <<c, w>>>>
           R == {i \in DOMAIN steps : n >= steps[i][1]}
<1>1. DOMAIN steps = {1, 2, 3}
  OBVIOUS
<1>2. /\ steps[1][1] = a /\ steps[2][1] = b /\ steps[3][1] = c
      /\ steps[1][2] = u /\ steps[2][2] = v /\ steps[3][2] = w
  OBVIOUS
<1>3. Stepped(n, steps, below) = IF R = {} THEN below ELSE steps[Min(R)][2]
  BY DEF Stepped
<1> SUFFICES Stepped(n, steps, below)
               = IF n >= a THEN u ELSE IF n >= b THEN v ELSE IF n >= c THEN w ELSE below
  OBVIOUS
<1> HIDE DEF steps
<1>4. R \in SUBSET Nat /\ R \subseteq {1, 2, 3}
  BY <1>1
<1>5. (1 \in R <=> n >= a) /\ (2 \in R <=> n >= b) /\ (3 \in R <=> n >= c)
  BY <1>1, <1>2
<1> HIDE DEF R
<1>6. ASSUME R # {} PROVE Min(R) \in R /\ \A y \in R : Min(R) <= y
  <2>1. Min(R) \in R
    BY <1>4, <1>6, LeastOfSome
  <2>2. \A y \in R : Min(R) <= y
    BY <1>4, <1>6, LeastOfSome
  <2> QED BY <2>1, <2>2
<1>7. CASE n >= a
  <2>1. 1 \in R /\ R # {}
    BY <1>5, <1>7
  <2>2. Min(R) \in {1, 2, 3} /\ Min(R) <= 1 /\ Min(R) \in R
    BY <1>4, <1>6, <2>1
  <2>3. Min(R) = 1
    BY <1>5, <1>7, <2>2
  <2> QED BY <1>2, <1>3, <1>7, <2>1, <2>3
<1>8. CASE ~(n >= a) /\ n >= b
  <2>1. 2 \in R /\ R # {}
    BY <1>5, <1>8
  <2>2. Min(R) \in {1, 2, 3} /\ Min(R) <= 2 /\ Min(R) \in R
    BY <1>4, <1>6, <2>1
  <2>3. Min(R) = 2
    BY <1>5, <1>8, <2>2
  <2> QED BY <1>2, <1>3, <1>8, <2>1, <2>3
<1>9. CASE ~(n >= a) /\ ~(n >= b) /\ n >= c
  <2>1. 3 \in R /\ R # {}
    BY <1>5, <1>9
  <2>2. Min(R) \in {1, 2, 3} /\ Min(R) <= 3 /\ Min(R) \in R
    BY <1>4, <1>6, <2>1
  <2>3. Min(R) = 3
    BY <1>5, <1>9, <2>2
  <2> QED BY <1>2, <1>3, <1>9, <2>1, <2>3
<1>10. CASE ~(n >= a) /\ ~(n >= b) /\ ~(n >= c)
  <2>1. R = {}
    BY <1>4, <1>5, <1>10
  <2> QED BY <1>3, <1>10, <2>1
<1> QED BY <1>7, <1>8, <1>9, <1>10

OfFour(n, a, b, c, d, u, v, w, x, below) ==
    IF n >= a THEN u ELSE IF n >= b THEN v ELSE IF n >= c THEN w ELSE IF n >= d THEN x ELSE below
LEMMA FourSteps ==
    ASSUME NEW n \in Int, NEW a \in Int, NEW b \in Int, NEW c \in Int, NEW d \in Int,
           NEW u, NEW v, NEW w, NEW x, NEW below
    PROVE  Stepped(n, <<<<a, u>>, <<b, v>>, <<c, w>>, <<d, x>>>>, below)
             = OfFour(n, a, b, c, d, u, v, w, x, below)
<1> SUFFICES Stepped(n, <<<<a, u>>, <<b, v>>, <<c, w>>, <<d, x>>>>, below)
               = IF n >= a THEN u ELSE IF n >= b THEN v ELSE IF n >= c THEN w
                 ELSE IF n >= d THEN x ELSE below
  BY DEF OfFour
<1> DEFINE steps == <<<<a, u>>, <<b, v>>, <<c, w>>, <<d, x>>>>
           R == {i \in DOMAIN steps : n >= steps[i][1]}
<1>1. DOMAIN steps = {1, 2, 3, 4}
  OBVIOUS
<1>2. /\ steps[1][1] = a /\ steps[2][1] = b /\ steps[3][1] = c /\ steps[4][1] = d
      /\ steps[1][2] = u /\ steps[2][2] = v /\ steps[3][2] = w /\ steps[4][2] = x
  OBVIOUS
<1>3. Stepped(n, steps, below) = IF R = {} THEN below ELSE steps[Min(R)][2]
  BY DEF Stepped
<1> SUFFICES Stepped(n, steps, below)
               = IF n >= a THEN u ELSE IF n >= b THEN v ELSE IF n >= c THEN w
                 ELSE IF n >= d THEN x ELSE below
  OBVIOUS
<1> HIDE DEF steps
<1>4. R \in SUBSET Nat /\ R \subseteq {1, 2, 3, 4}
  BY <1>1
<1>5. (1 \in R <=> n >= a) /\ (2 \in R <=> n >= b) /\ (3 \in R <=> n >= c) /\ (4 \in R <=> n >= d)
  BY <1>1, <1>2
<1> HIDE DEF R
<1>6. ASSUME R # {} PROVE Min(R) \in R /\ \A y \in R : Min(R) <= y
  <2>1. Min(R) \in R
    BY <1>4, <1>6, LeastOfSome
  <2>2. \A y \in R : Min(R) <= y
    BY <1>4, <1>6, LeastOfSome
  <2> QED BY <2>1, <2>2
<1>7. CASE n >= a
  <2>1. 1 \in R /\ R # {}
    BY <1>5, <1>7
  <2>2. Min(R) \in {1, 2, 3, 4} /\ Min(R) <= 1 /\ Min(R) \in R
    BY <1>4, <1>6, <2>1
  <2>3. Min(R) = 1
    BY <1>5, <1>7, <2>2
  <2> QED BY <1>2, <1>3, <1>7, <2>1, <2>3
<1>8. CASE ~(n >= a) /\ n >= b
  <2>1. 2 \in R /\ R # {}
    BY <1>5, <1>8
  <2>2. Min(R) \in {1, 2, 3, 4} /\ Min(R) <= 2 /\ Min(R) \in R
    BY <1>4, <1>6, <2>1
  <2>3. Min(R) = 2
    BY <1>5, <1>8, <2>2
  <2> QED BY <1>2, <1>3, <1>8, <2>1, <2>3
<1>9. CASE ~(n >= a) /\ ~(n >= b) /\ n >= c
  <2>1. 3 \in R /\ R # {}
    BY <1>5, <1>9
  <2>2. Min(R) \in {1, 2, 3, 4} /\ Min(R) <= 3 /\ Min(R) \in R
    BY <1>4, <1>6, <2>1
  <2>3. Min(R) = 3
    BY <1>5, <1>9, <2>2
  <2> QED BY <1>2, <1>3, <1>9, <2>1, <2>3
<1>10. CASE ~(n >= a) /\ ~(n >= b) /\ ~(n >= c) /\ n >= d
  <2>1. 4 \in R /\ R # {}
    BY <1>5, <1>10
  <2>2. Min(R) \in {1, 2, 3, 4} /\ Min(R) <= 4 /\ Min(R) \in R
    BY <1>4, <1>6, <2>1
  <2>3. Min(R) = 4
    BY <1>5, <1>10, <2>2
  <2> QED BY <1>2, <1>3, <1>10, <2>1, <2>3
<1>11. CASE ~(n >= a) /\ ~(n >= b) /\ ~(n >= c) /\ ~(n >= d)
  <2>1. R = {}
    BY <1>4, <1>5, <1>11
  <2> QED BY <1>3, <1>11, <2>1
<1> QED BY <1>7, <1>8, <1>9, <1>10, <1>11

LEMMA DiversitySteps ==
    ASSUME NEW n \in Nat
    PROVE  Diversity(n) = IF n >= 20 THEN 1000 ELSE IF n >= 5 THEN 700 ELSE IF n >= 1 THEN 400 ELSE 100
BY ThreeSteps DEF Diversity
LEMMA StarsSteps ==
    ASSUME NEW n \in Nat
    PROVE  Stars(n) = IF n >= 1000 THEN 1000 ELSE IF n >= 100 THEN 700 ELSE IF n >= 10 THEN 400 ELSE 200
BY ThreeSteps DEF Stars
LEMMA ShippedSteps ==
    ASSUME NEW n \in Nat
    PROVE  Shipped(n) = IF n >= 10 THEN 1000 ELSE IF n >= 3 THEN 700 ELSE IF n >= 1 THEN 400 ELSE 100
BY ThreeSteps DEF Shipped
LEMMA AdoptedSteps ==
    ASSUME NEW n \in Nat
    PROVE  Adopted(n) = IF n >= 1000 THEN 1000 ELSE IF n >= 100 THEN 600 ELSE IF n >= 10 THEN 350 ELSE 100
BY ThreeSteps DEF Adopted
LEMMA LogSteps ==
    ASSUME NEW n \in Nat
    PROVE  LogScale(n) = IF n >= 9999 THEN 1000 ELSE IF n >= 999 THEN 750 ELSE IF n >= 99 THEN 500
                         ELSE IF n >= 9 THEN 250 ELSE 0
<1> DEFINE a == 9999
           b == 999
           c == 99
           d == 9
           u == 1000
           v == 750
           w == 500
           x == 250
           z == 0
<1>1. a \in Int /\ b \in Int /\ c \in Int /\ d \in Int /\ n \in Int
  BY SMTT(30)
<1>2. LogScale(n) = Stepped(n, <<<<a, u>>, <<b, v>>, <<c, w>>, <<d, x>>>>, z)
  BY SMTT(30) DEF LogScale
<1> HIDE DEF a, b, c, d, u, v, w, x, z
<1>3. Stepped(n, <<<<a, u>>, <<b, v>>, <<c, w>>, <<d, x>>>>, z) = OfFour(n, a, b, c, d, u, v, w, x, z)
  BY <1>1, FourSteps, SMTT(60)
<1>4. LogScale(n) = OfFour(n, a, b, c, d, u, v, w, x, z)
  BY <1>2, <1>3
<1> QED BY <1>4, SMTT(30) DEF OfFour, a, b, c, d, u, v, w, x, z

\* A step's value, or what is below the last, is in any set that has all of them.
LEMMA SteppedIn ==
    ASSUME NEW n, NEW steps, NEW below, NEW T, DOMAIN steps \subseteq Nat,
           \A i \in DOMAIN steps : steps[i][2] \in T, below \in T
    PROVE  Stepped(n, steps, below) \in T
<1> DEFINE R == {i \in DOMAIN steps : n >= steps[i][1]}
<1>1. Stepped(n, steps, below) = IF R = {} THEN below ELSE steps[Min(R)][2]
  BY DEF Stepped
<1>2. R \in SUBSET Nat /\ R \subseteq DOMAIN steps
  OBVIOUS
<1> HIDE DEF R
<1>3. ASSUME R # {} PROVE Min(R) \in DOMAIN steps
  BY <1>2, <1>3, LeastOfSome
<1> QED BY <1>1, <1>3

--------------------------------------------------------------------------------
(* The scores: the calculations *)

LEMMA EitherGrows ==
    ASSUME NEW b \in BOOLEAN, NEW c \in BOOLEAN, c => b, NEW yes \in Int, NEW no \in Int, yes >= no
    PROVE  /\ Either(b, yes, no) \in no .. yes /\ Either(c, yes, no) \in no .. yes
           /\ Either(b, yes, no) >= Either(c, yes, no)
BY DEF Either

\* A mark that is worth something, or more than its lack.
LEMMA MarkGrows ==
    ASSUME NEW b \in BOOLEAN, NEW c \in BOOLEAN, c => b
    PROVE  /\ Either(b, 1000, 0) \in 0 .. 1000 /\ Either(c, 1000, 0) \in 0 .. 1000
           /\ Either(b, 1000, 0) >= Either(c, 1000, 0)
           /\ Either(b, 1000, 300) \in 300 .. 1000 /\ Either(c, 1000, 300) \in 300 .. 1000
           /\ Either(b, 1000, 300) >= Either(c, 1000, 300)
BY DEF Either

\* Of one thing no less than of another, between two bounds.
Grows(a, b, low, high) == a \in low .. high /\ b \in low .. high /\ a >= b
LEMMA CoverageGrows ==
    ASSUME NEW n \in Nat, NEW k \in Nat, n >= k
    PROVE  Grows(Coverage(n), Coverage(k), 0, 1000)
<1>1. \A i \in Nat : Coverage(i) = IF i >= 3 THEN 1000 ELSE IF i = 2 THEN 666 ELSE IF i = 1 THEN 333 ELSE 0
  BY DEF Coverage
<1> QED BY <1>1 DEF Grows

\* A portrait with numbers and marks in it, whatever else.
Measured(m) ==
    /\ m.stars \in Nat /\ m.forks \in Nat /\ m.contributors \in Nat /\ m.releases \in Nat
    /\ m.platforms \in Nat
    /\ m.license \in BOOLEAN /\ m.open \in BOOLEAN /\ m.readme \in BOOLEAN /\ m.described \in BOOLEAN

LEMMA TrustGrows ==
    ASSUME NEW m, NEW k, Measured(m), Measured(k), NoLess(m, k)
    PROVE  Trust(m) \in 51 .. 93 /\ Trust(m) >= Trust(k)
<1> DEFINE a == Either(m.releases > 0, 1000, 300)
           b == Either(m.license, 1000, 0)
           c == Diversity(m.contributors)
           d == Stars(m.stars)
           e == Either(m.readme, 1000, 300)
           f == Either(m.open, 1000, 0)
           u == Either(k.releases > 0, 1000, 300)
           v == Either(k.license, 1000, 0)
           w == Diversity(k.contributors)
           x == Stars(k.stars)
           y == Either(k.readme, 1000, 300)
           z == Either(k.open, 1000, 0)
           s == 15 * 500 + 15 * a + 10 * b + 10 * c + 5 * d + 5 * e + 15 * 800 + 20 * 1000 + 5 * 700 + 5 * f
           t == 15 * 500 + 15 * u + 10 * v + 10 * w + 5 * x + 5 * y + 15 * 800 + 20 * 1000 + 5 * 700 + 5 * z
<1>1. Trust(m) = Percent(s) /\ Trust(k) = Percent(t)
  BY DEF Trust, ValidRatio
<1>2. /\ m.releases \in Nat /\ k.releases \in Nat /\ m.releases >= k.releases
      /\ m.contributors \in Nat /\ k.contributors \in Nat /\ m.contributors >= k.contributors
      /\ m.stars \in Nat /\ k.stars \in Nat /\ m.stars >= k.stars
  BY DEF Measured, NoLess, Metered
<1>3. /\ m.license \in BOOLEAN /\ k.license \in BOOLEAN /\ (k.license => m.license)
      /\ m.readme \in BOOLEAN /\ k.readme \in BOOLEAN /\ (k.readme => m.readme)
      /\ m.open \in BOOLEAN /\ k.open \in BOOLEAN /\ (k.open => m.open)
  BY DEF Measured, NoLess, Stated
<1>4. a \in 300 .. 1000 /\ u \in 300 .. 1000 /\ a >= u
  <2>1. (m.releases > 0) \in BOOLEAN /\ (k.releases > 0) \in BOOLEAN /\ (k.releases > 0 => m.releases > 0)
    BY <1>2
  <2> QED BY <2>1 DEF Either
<1>5. b \in 0 .. 1000 /\ v \in 0 .. 1000 /\ b >= v
  BY <1>3, MarkGrows
<1>6. c \in 100 .. 1000 /\ w \in 100 .. 1000 /\ c >= w
  BY <1>2, DiversitySteps
<1>7. d \in 200 .. 1000 /\ x \in 200 .. 1000 /\ d >= x
  BY <1>2, StarsSteps
<1>8. e \in 300 .. 1000 /\ y \in 300 .. 1000 /\ e >= y
  BY <1>3, MarkGrows
<1>9. f \in 0 .. 1000 /\ z \in 0 .. 1000 /\ f >= z
  BY <1>3 DEF Either
<1> HIDE DEF a, b, c, d, e, f, u, v, w, x, y, z
<1>10. s \in Int /\ t \in Int /\ s >= t
  BY <1>4, <1>5, <1>6, <1>7, <1>8, <1>9
<1>11. s >= 51000 /\ s <= 93000
  BY <1>4, <1>5, <1>6, <1>7, <1>8, <1>9
<1> HIDE DEF s, t
<1>12. Percent(s) >= 51 /\ Percent(s) <= 93 /\ Percent(s) \in Int
  BY <1>10, <1>11 DEF Percent
<1>13. Percent(s) >= Percent(t)
  BY <1>10 DEF Percent
<1> QED BY <1>1, <1>12, <1>13

LEMMA QualityGrows ==
    ASSUME NEW m, NEW k, Measured(m), Measured(k), NoLess(m, k)
    PROVE  Quality(m) \in 24 .. 88 /\ Quality(m) >= Quality(k)
<1> DEFINE a == IF m.readme THEN 1000 ELSE Either(m.described, 300, 0)
           b == Shipped(m.releases)
           c == Coverage(m.platforms)
           d == Adopted(m.stars)
           e == Either(m.releases > 0, 1000, 300)
           u == IF k.readme THEN 1000 ELSE Either(k.described, 300, 0)
           v == Shipped(k.releases)
           w == Coverage(k.platforms)
           x == Adopted(k.stars)
           y == Either(k.releases > 0, 1000, 300)
           s == 15 * a + 15 * 500 + 15 * b + 15 * c + 15 * 700 + 15 * d + 10 * e
           t == 15 * u + 15 * 500 + 15 * v + 15 * w + 15 * 700 + 15 * x + 10 * y
<1>1. Quality(m) = Percent(s) /\ Quality(k) = Percent(t)
  BY DEF Quality
<1>2. /\ m.releases \in Nat /\ k.releases \in Nat /\ m.releases >= k.releases
      /\ m.platforms \in Nat /\ k.platforms \in Nat /\ m.platforms >= k.platforms
      /\ m.stars \in Nat /\ k.stars \in Nat /\ m.stars >= k.stars
  BY DEF Measured, NoLess, Metered
<1>3. /\ m.readme \in BOOLEAN /\ k.readme \in BOOLEAN /\ (k.readme => m.readme)
      /\ m.described \in BOOLEAN /\ k.described \in BOOLEAN /\ (k.described => m.described)
  BY DEF Measured, NoLess, Stated
<1>4. a \in 0 .. 1000 /\ u \in 0 .. 1000 /\ a >= u
  <2> DEFINE p == Either(m.described, 300, 0)
             q == Either(k.described, 300, 0)
  <2>1. p \in 0 .. 300 /\ q \in 0 .. 300 /\ p >= q
    BY <1>3, EitherGrows
  <2>2. a = IF m.readme THEN 1000 ELSE p
    OBVIOUS
  <2>3. u = IF k.readme THEN 1000 ELSE q
    OBVIOUS
  <2> HIDE DEF p, q, a, u
  <2>4. CASE m.readme
    <3>1. a = 1000 /\ u \in 0 .. 1000
      BY <2>1, <2>2, <2>3, <2>4
    <3> QED BY <3>1
  <2>5. CASE ~m.readme
    BY <1>3, <2>1, <2>2, <2>3, <2>5
  <2> QED BY <2>4, <2>5
<1>5. b \in 100 .. 1000 /\ v \in 100 .. 1000 /\ b >= v
  BY <1>2, ShippedSteps
<1>6. c \in 0 .. 1000 /\ w \in 0 .. 1000 /\ c >= w
  <2>1. m.platforms \in Nat /\ k.platforms \in Nat /\ m.platforms >= k.platforms
    BY <1>2
  <2>2. Grows(c, w, 0, 1000)
    BY <2>1, CoverageGrows
  <2> HIDE DEF c, w
  <2> QED BY <2>2 DEF Grows
<1>7. d \in 100 .. 1000 /\ x \in 100 .. 1000 /\ d >= x
  BY <1>2, AdoptedSteps
<1>8. e \in 300 .. 1000 /\ y \in 300 .. 1000 /\ e >= y
  <2>1. (m.releases > 0) \in BOOLEAN /\ (k.releases > 0) \in BOOLEAN /\ (k.releases > 0 => m.releases > 0)
    BY <1>2
  <2> QED BY <2>1 DEF Either
<1> HIDE DEF a, b, c, d, e, u, v, w, x, y
<1>9. s \in Int /\ t \in Int /\ s >= t
  BY <1>4, <1>5, <1>6, <1>7, <1>8
<1>10. s >= 24000 /\ s <= 88000
  BY <1>4, <1>5, <1>6, <1>7, <1>8
<1> HIDE DEF s, t
<1>11. Percent(s) >= 24 /\ Percent(s) <= 88 /\ Percent(s) \in Int
  BY <1>9, <1>10 DEF Percent
<1>12. Percent(s) >= Percent(t)
  BY <1>9 DEF Percent
<1> QED BY <1>1, <1>11, <1>12

LEMMA PopularityGrows ==
    ASSUME NEW m, NEW k, Measured(m), Measured(k), NoLess(m, k)
    PROVE  Popularity(m) \in 0 .. 70 /\ Popularity(m) >= Popularity(k)
<1> DEFINE a == LogScale(m.stars)
           b == LogScale(m.forks)
           c == LogScale(m.contributors)
           u == LogScale(k.stars)
           v == LogScale(k.forks)
           w == LogScale(k.contributors)
           s == 25 * a + 20 * b + 15 * c + 10 * a
           t == 25 * u + 20 * v + 15 * w + 10 * u
<1>1. Popularity(m) = Percent(s) /\ Popularity(k) = Percent(t)
  BY DEF Popularity
<1>2. /\ m.stars \in Nat /\ k.stars \in Nat /\ m.stars >= k.stars
      /\ m.forks \in Nat /\ k.forks \in Nat /\ m.forks >= k.forks
      /\ m.contributors \in Nat /\ k.contributors \in Nat /\ m.contributors >= k.contributors
  BY DEF Measured, NoLess, Metered
<1>3. a \in 0 .. 1000 /\ u \in 0 .. 1000 /\ a >= u
  BY <1>2, LogSteps
<1>4. b \in 0 .. 1000 /\ v \in 0 .. 1000 /\ b >= v
  BY <1>2, LogSteps
<1>5. c \in 0 .. 1000 /\ w \in 0 .. 1000 /\ c >= w
  BY <1>2, LogSteps
<1> HIDE DEF a, b, c, u, v, w
<1>6. s \in Int /\ t \in Int /\ s >= t /\ s >= 0 /\ s <= 70000
  BY <1>3, <1>4, <1>5
<1> HIDE DEF s, t
<1>7. Percent(s) >= 0 /\ Percent(s) <= 70 /\ Percent(s) \in Int
  BY <1>6 DEF Percent
<1>8. Percent(s) >= Percent(t)
  BY <1>6 DEF Percent
<1> QED BY <1>1, <1>7, <1>8

LEMMA AsMuch == ASSUME NEW m, Measured(m) PROVE NoLess(m, m)
BY DEF Measured, NoLess, Metered, Stated

--------------------------------------------------------------------------------
(* The scores: what is stored of each application *)

Scored(m) == [trust |-> Trust(m), quality |-> Quality(m), popularity |-> Popularity(m),
              valid |-> ValidRatio, diverse |-> Diversity(m.contributors)]
ScoresInv ==
    /\ portraits \in Portraits /\ partial \subseteq ScoredApps /\ DOMAIN scores = ScoredApps
    /\ \A a \in ScoredApps : \/ scores[a] = NoScores
                             \/ scores[a] = Scored(Metrics(portraits[a], a \notin partial))

LEMMA MetricsFacts ==
    ASSUME NEW m, Portrayed(m), NEW whole \in BOOLEAN
    PROVE  LET k == Metrics(m, whole)
           IN  /\ k.stars = m.stars /\ k.forks = m.forks /\ k.releases = m.releases
               /\ k.platforms = m.platforms /\ k.license = m.license /\ k.open = m.open
               /\ k.readme = m.readme /\ k.described = m.described
               /\ k.contributors = IF whole THEN m.contributors ELSE 0
<1>1. {"stars", "forks", "contributors", "releases", "platforms", "license", "open", "readme",
       "described"} \subseteq DOMAIN m
  BY DEF Portrayed, Metered, Stated
<1>2. CASE whole
  BY <1>2 DEF Metrics
<1>3. CASE ~whole
  <2> DEFINE k == [m EXCEPT !["contributors"] = 0]
  <2>1. Metrics(m, whole) = k
    BY <1>3 DEF Metrics
  <2>2. k["contributors"] = 0 /\ \A f \in DOMAIN m : f # "contributors" => k[f] = m[f]
    BY <1>1
  <2> HIDE DEF k
  <2> QED BY <1>1, <1>3, <2>1, <2>2
<1> QED BY <1>2, <1>3

LEMMA PortraitFacts ==
    ASSUME NEW m, Portrayed(m)
    PROVE  Measured(m)
<1>1. /\ m["stars"] \in Nat /\ m["forks"] \in Nat /\ m["contributors"] \in Nat
      /\ m["releases"] \in Nat /\ m["platforms"] \in Nat
  BY DEF Portrayed, Metered
<1>2. m["license"] \in BOOLEAN /\ m["open"] \in BOOLEAN /\ m["readme"] \in BOOLEAN
      /\ m["described"] \in BOOLEAN
  BY DEF Portrayed, Stated
<1> QED BY <1>1, <1>2 DEF Measured

\* An answer without metadata leaves nothing but the contributors out.
LEMMA MeasuredFacts ==
    ASSUME NEW m, Portrayed(m), NEW whole \in BOOLEAN
    PROVE  /\ Measured(Metrics(m, whole)) /\ Quality(Metrics(m, whole)) = Quality(m)
           /\ whole => Metrics(m, whole) = m
<1> DEFINE k == Metrics(m, whole)
<1>1. /\ k.stars = m.stars /\ k.forks = m.forks /\ k.releases = m.releases
      /\ k.platforms = m.platforms /\ k.license = m.license /\ k.open = m.open
      /\ k.readme = m.readme /\ k.described = m.described
      /\ k.contributors = IF whole THEN m.contributors ELSE 0
  BY MetricsFacts
<1>2. whole => k = m
  BY DEF Metrics
<1> HIDE DEF k
<1>3. Measured(k)
  BY <1>1, PortraitFacts DEF Measured
<1>4. Quality(k) = Quality(m)
  BY <1>1 DEF Quality
<1> QED BY <1>2, <1>3, <1>4 DEF k

LEMMA LessThanWhole ==
    ASSUME NEW m, NEW l, Portrayed(m), Portrayed(l), NoLess(m, l), NEW whole \in BOOLEAN
    PROVE  NoLess(m, Metrics(l, whole))
<1> DEFINE k == Metrics(l, whole)
<1>1. /\ k.stars = l.stars /\ k.forks = l.forks /\ k.releases = l.releases
      /\ k.platforms = l.platforms /\ k.license = l.license /\ k.open = l.open
      /\ k.readme = l.readme /\ k.described = l.described
      /\ k.contributors = IF whole THEN l.contributors ELSE 0
  BY MetricsFacts
<1> HIDE DEF k
<1>2. m.contributors \in Nat
  BY PortraitFacts DEF Measured
<1>3. /\ m.stars >= l.stars /\ m.forks >= l.forks /\ m.contributors >= l.contributors
      /\ m.releases >= l.releases /\ m.platforms >= l.platforms
      /\ (l.license => m.license) /\ (l.open => m.open) /\ (l.readme => m.readme)
      /\ (l.described => m.described)
  BY DEF NoLess, Metered, Stated
<1>4. \A f \in Metered : m[f] >= k[f]
  BY <1>1, <1>2, <1>3 DEF Metered
<1>5. \A f \in Stated : k[f] => m[f]
  BY <1>1, <1>3 DEF Stated
<1> QED BY <1>4, <1>5 DEF NoLess, k

LEMMA AppPortrayed ==
    ASSUME ScoresInv, NEW a \in ScoredApps PROVE Portrayed(portraits[a])
BY ScoresAssumption DEF ScoresInv

LEMMA RangesHold == ASSUME ScoresInv PROVE ScoresRange
<1> SUFFICES ASSUME NEW a \in ScoredApps, scores[a] # NoScores
             PROVE  /\ scores[a].trust \in 51 .. 93 /\ scores[a].quality \in 24 .. 88
                    /\ scores[a].popularity \in 0 .. 70 /\ "verified" \in Badges(a)
  BY DEF ScoresRange
<1> DEFINE m == Metrics(portraits[a], a \notin partial)
<1>1. scores[a] = Scored(m)
  BY DEF ScoresInv
<1>2. Measured(m)
  BY AppPortrayed, MeasuredFacts
<1> HIDE DEF m
<1>3. NoLess(m, m)
  BY <1>2, AsMuch
<1>4. Trust(m) \in 51 .. 93
  BY <1>2, <1>3, TrustGrows
<1>5. Quality(m) \in 24 .. 88
  BY <1>2, <1>3, QualityGrows
<1>6. Popularity(m) \in 0 .. 70
  BY <1>2, <1>3, PopularityGrows
<1>7. scores[a].valid = 800
  BY <1>1 DEF Scored, ValidRatio
<1>8. "verified" \in Badges(a)
  BY <1>7 DEF Badges
<1> QED BY <1>1, <1>4, <1>5, <1>6, <1>8 DEF Scored

LEMMA GrowsHold == ASSUME ScoresInv PROVE ScoresMonotone
<1> SUFFICES ASSUME NEW a \in ScoredApps, NEW b \in ScoredApps, scores[a] # NoScores,
                    scores[b] # NoScores, NoLess(portraits[a], portraits[b])
             PROVE  /\ scores[a].quality >= scores[b].quality
                    /\ a \notin partial => /\ scores[a].trust >= scores[b].trust
                                           /\ scores[a].popularity >= scores[b].popularity
  BY DEF ScoresMonotone
<1> DEFINE p == portraits[a]
           q == portraits[b]
           m == Metrics(p, a \notin partial)
           k == Metrics(q, b \notin partial)
<1>1. scores[a] = Scored(m) /\ scores[b] = Scored(k)
  BY DEF ScoresInv
<1>2. Portrayed(p) /\ Portrayed(q) /\ Measured(p) /\ Measured(q)
  BY AppPortrayed, PortraitFacts
<1>3. Measured(m) /\ Measured(k) /\ Quality(m) = Quality(p) /\ Quality(k) = Quality(q)
  <2> HIDE DEF p, q
  <2>1. Measured(m) /\ Quality(m) = Quality(p)
    BY <1>2, MeasuredFacts
  <2>2. Measured(k) /\ Quality(k) = Quality(q)
    BY <1>2, MeasuredFacts
  <2> QED BY <2>1, <2>2
<1>4. a \notin partial => m = p
  BY DEF Metrics
<1>5. NoLess(p, k)
  <2> HIDE DEF p, q
  <2>1. NoLess(p, q)
    BY DEF p, q
  <2> QED BY <1>2, <2>1, LessThanWhole
<1>6. NoLess(p, q)
  OBVIOUS
<1> HIDE DEF p, q, m, k
<1>7. Quality(p) >= Quality(q)
  BY <1>2, <1>6, QualityGrows
<1>8. Trust(p) >= Trust(k)
  BY <1>2, <1>3, <1>5, TrustGrows
<1>9. Popularity(p) >= Popularity(k)
  BY <1>2, <1>3, <1>5, PopularityGrows
<1> QED BY <1>1, <1>3, <1>4, <1>7, <1>8, <1>9 DEF Scored

LEMMA ScoresInvHolds == ScoresSpec => []ScoresInv
<1>1. ScoresInit => ScoresInv
  <2> SUFFICES ASSUME ScoresInit PROVE ScoresInv
    OBVIOUS
  <2> QED BY DEF ScoresInit, ScoresInv
<1>2. ScoresInv /\ [ScoresNext]_scoreVars => ScoresInv'
  <2> SUFFICES ASSUME ScoresInv, [ScoresNext]_scoreVars PROVE ScoresInv'
    OBVIOUS
  <2>1. CASE UNCHANGED scoreVars
    BY <2>1 DEF scoreVars, ScoresInv
  <2>2. ASSUME NEW a \in ScoredApps, ComputeScores(a) PROVE ScoresInv'
    <3>1. PICK whole \in BOOLEAN :
            /\ scores' = [scores EXCEPT ![a] = Scored(Metrics(portraits[a], whole))]
            /\ partial' = IF whole THEN partial \ {a} ELSE partial \cup {a}
            /\ portraits' = portraits
      BY <2>2 DEF ComputeScores, Scored
    <3>2. portraits' \in Portraits /\ partial' \subseteq ScoredApps /\ DOMAIN scores' = ScoredApps
      BY <3>1 DEF ScoresInv
    <3>3. ASSUME NEW b \in ScoredApps
          PROVE  \/ scores'[b] = NoScores
                 \/ scores'[b] = Scored(Metrics(portraits'[b], b \notin partial'))
      <4>1. CASE b = a
        <5>1. scores'[b] = Scored(Metrics(portraits[b], whole)) /\ (b \notin partial') = whole
          BY <3>1, <4>1 DEF ScoresInv
        <5> QED BY <3>1, <5>1
      <4>2. CASE b # a
        <5>1. scores'[b] = scores[b] /\ (b \notin partial') = (b \notin partial)
          BY <3>1, <4>2 DEF ScoresInv
        <5> QED BY <3>1, <5>1 DEF ScoresInv
      <4> QED BY <4>1, <4>2
    <3> QED BY <3>2, <3>3 DEF ScoresInv
  <2> QED BY <2>1, <2>2 DEF ScoresNext
<1> QED BY <1>1, <1>2, PTL DEF ScoresSpec

\* Of any applications, whatever upstream says of them: what a sync stores stays within its
\* ranges and never says less of what has more.
THEOREM ScoresAreHonest == ScoresSpec => []ScoresHonest
<1>1. ScoresInv => ScoresHonest
  BY RangesHold, GrowsHold DEF ScoresHonest
<1> QED BY <1>1, ScoresInvHolds, PTL
================================================================================
