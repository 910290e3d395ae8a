------------------------------ MODULE DerivedData ------------------------------
(***************************************************************************)
(* What is derived from applications and kept beside them: edges of the    *)
(* recommendation graph (intelligence/recommendations.py), documents of    *)
(* the search index (search/indexer.py, automation/jobs/index.py) and      *)
(* security profiles (intelligence/security_profiles.py).  Each is brought *)
(* up to date by jobs that read applications, work, and write at the end,  *)
(* while syncs change the applications and other jobs do the same.         *)
(***************************************************************************)
EXTENDS Integers, FiniteSets, SequencesExt

CONSTANTS
    Apps,           \* active applications
    Looks,          \* what an application may look like, for each kind
    Jobs,           \* sessions that derive
    CandidateLimit, \* candidates of one rebuild
    RefreshLimit,   \* applications of one run
    Batch,          \* applications of a page of profiles
    MaxTouches,     \* bound: changes of applications
    MaxRuns         \* bound: jobs

Unread    == [tags |-> {"unread"}, categories |-> {}, platforms |-> {}, developer |-> 0,
              evidence |-> {}]
NoProfile == [signals |-> {"none"}, score |-> -1, status |-> "none"]

ASSUME DerivedAssumption ==
    /\ CandidateLimit \in Nat /\ RefreshLimit \in Nat \ {0} /\ Batch \in Nat \ {0}
    /\ MaxTouches \in Nat /\ MaxRuns \in Nat
    /\ IsFiniteSet(Apps)
    /\ \A k \in {"edges", "documents", "profiles"} : \A look \in Looks[k] :
          /\ look # Unread /\ IsFiniteSet(look.tags) /\ IsFiniteSet(look.categories)
          /\ IsFiniteSet(look.platforms)

VARIABLES
    kind,       \* what is derived here
    looks,      \* the applications' rows
    updated_at, \* when the transaction that last changed each of them began
    edges,      \* committed rows of application_relationships
    documents,  \* the search index
    profiles,   \* committed rows of app_security_profiles
    job,        \* where each session is
    touches,    \* changes so far
    runs,       \* jobs so far
    sound       \* history: what was derived from applications as they are: pairs for edges

derivedVars == <<kind, looks, updated_at, edges, documents, profiles, job, touches, runs, sound>>

--------------------------------------------------------------------------------
(* The graph *)

\* Jaccard, as a fraction
Shared(x, y) == IF x = {} \/ y = {} THEN <<0, 1>>
                ELSE <<Cardinality(x \cap y), Cardinality(x \cup y)>>

\* _similarity in ten-thousandths, rounded
Similarity(x, y) ==
    LET t == Shared(x.tags, y.tags)
        c == Shared(x.categories, y.categories)
        p == Shared(x.platforms, y.platforms)
        d == IF x.developer # 0 /\ x.developer = y.developer THEN 1 ELSE 0
        den == t[2] * c[2] * p[2]
        num == 5500 * t[1] * c[2] * p[2] + 3000 * c[1] * t[2] * p[2]
               + 1000 * p[1] * t[2] * c[2] + 500 * d * den
    IN  (2 * num + den) \div (2 * den)

Related(x, y) == \/ x.categories \cap y.categories # {} \/ x.tags \cap y.tags # {}
                 \/ x.platforms \cap y.platforms # {}
                 \/ x.developer # 0 /\ x.developer = y.developer

\* Mutant: however little is shared
Worth_Little(score) == score >= 1000
Worth(score) == score >= 2500
\* Mutant: a strong edge is a similar one once more
EdgeKind_Weak(score) == IF score > 6500 THEN "alternative_to" ELSE "similar_to"
EdgeKind(score) == IF score >= 6500 THEN "alternative_to" ELSE "similar_to"

--------------------------------------------------------------------------------
(* Profiles *)

\* derive_signals: a flagged scan takes the last two away
Signals(evidence) ==
    (evidence \cap {"open_source", "repository", "signature", "hash"})
    \cup (IF evidence \cap {"developer", "organization"} # {} /\ "flagged" \notin evidence
          THEN {"maintainer"} ELSE {})
    \cup (IF {"organization", "verified"} \subseteq evidence /\ "flagged" \notin evidence
          THEN {"org"} ELSE {})

\* compute_trust_score
TrustScore(signals) == 20 * Cardinality(signals)

\* derive_status: the third line is never reached
Status(signals, current) ==
    LET active == Cardinality(signals)
    IN  CASE active = 6                           -> "verified"
          [] active \in 3 .. 5                    -> "pending"
          [] current = "verified" /\ active >= 4  -> "verified"
          [] OTHER                                -> "unverified"

\* The column org_verified is not there
Profile(look, old) ==
    LET signals == Signals(look.evidence)
    IN  [signals |-> signals \ {"org"}, score |-> TrustScore(signals),
         status |-> Status(signals, old.status)]

--------------------------------------------------------------------------------

Free == [at |-> "free", todo |-> <<>>, offset |-> 0, visits |-> 0, done |-> {}, dirty |-> {}, own |-> {},
         waits |-> "no", view |-> [a \in Apps |-> Unread], profiles |-> [a \in Apps |-> NoProfile]]

\* One pass has published what there is: its transaction dates every application alike
DerivedInit ==
    /\ kind \in {"edges", "documents", "profiles"}
    /\ looks \in [Apps -> Looks[kind]]
    /\ updated_at = [a \in Apps |-> 0]
    /\ edges = {}
    /\ documents = [a \in Apps |-> Unread]
    /\ profiles = [a \in Apps |-> NoProfile]
    /\ job = [j \in Jobs |-> Free]
    /\ touches = 0 /\ runs = 0 /\ sound = {}

applications == <<looks, updated_at, touches>>
derived      == <<edges, documents, profiles>>

\* ORDER BY updated_at DESC: those of one transaction come in any order, another in each query
ByUpdate == {s \in [1 .. Cardinality(Apps) -> Apps] :
                \A i, k \in DOMAIN s : i < k => s[i] # s[k] /\ updated_at[s[i]] >= updated_at[s[k]]}

\* A sync or a request changes an application; its transaction may be an old one
Touch(a, look) ==
    /\ touches < MaxTouches /\ look # looks[a]
    /\ touches' = touches + 1
    /\ looks' = [looks EXCEPT ![a] = look]
    /\ \E began \in 0 .. touches + 1 : updated_at' = [updated_at EXCEPT ![a] = began]
    /\ sound' = {p \in sound : a \notin {p[1], p[2]}}
    /\ job' = [j \in Jobs |-> IF job[j].at = "free" THEN job[j]
                              ELSE [job[j] EXCEPT !.dirty = @ \cup {a}]]
    /\ UNCHANGED <<kind, derived, runs>>

Start(j, w) ==
    /\ job[j].at = "free" /\ runs < MaxRuns
    /\ runs' = runs + 1
    /\ job' = [job EXCEPT ![j] = w]
    /\ UNCHANGED <<kind, applications, derived, sound>>

Work(j, w) == /\ job' = [job EXCEPT ![j] = w]
              /\ UNCHANGED <<kind, applications, derived, runs, sound>>

\* The session commits: what it derived from what is still so is sound
Finish(j, pairs) ==
    LET current(p) == p[1] \notin job[j].dirty /\ p[2] \notin job[j].dirty
    IN  /\ sound' = (sound \ pairs) \cup {p \in pairs : current(p)}
        /\ job' = [job EXCEPT ![j] = Free]
        /\ UNCHANGED <<kind, applications, runs>>

First(s, n) == SubSeq(s, 1, IF Len(s) < n THEN Len(s) ELSE n)

--------------------------------------------------------------------------------
(* The graph: run_recommendation_refresh, or one application after its sync *)

StartGraph(j) ==
    /\ kind = "edges"
    /\ \E s \in ByUpdate : Start(j, [Free EXCEPT !.at = "rebuild", !.todo = First(s, RefreshLimit)])
StartRebuild(j, a) == kind = "edges" /\ Start(j, [Free EXCEPT !.at = "rebuild", !.todo = <<a>>])

\* A session that has an application keeps it as it first was read
View(w, a) == IF w.view[a] = Unread THEN looks[a] ELSE w.view[a]

\* What a rebuild of a leaves in the session: edges seen are updated, others added
Rebuilt(j, a, found) ==
    LET w        == job[j]
        score(b) == Similarity(View(w, a), View(w, b))
        seen(b)  == {e \in edges : e.from = a /\ e.to = b /\ e.kind = EdgeKind(score(b))}
    IN  {[from |-> a, to |-> b, kind |-> EdgeKind(score(b)), score |-> score(b),
          by |-> IF seen(b) = {} THEN j ELSE (CHOOSE e \in seen(b) : TRUE).by] :
            b \in {x \in found : Worth(score(x))}}

\* rebuild_for_app: at most CandidateLimit of those that share something, in no order
Rebuild(j) ==
    LET w == job[j]
        a == Head(w.todo)
        candidates == {b \in Apps \ {a} : Related(View(w, a), looks[b])}
    IN  /\ w.at = "rebuild" /\ w.todo # <<>>
        /\ \E found \in SUBSET candidates :
              /\ found = candidates \/ Cardinality(found) = CandidateLimit
              /\ Cardinality(found) <= CandidateLimit
              /\ Work(j, [w EXCEPT
                     !.todo = Tail(@),
                     !.view = [x \in Apps |-> IF x \in found \cup {a} THEN View(w, x) ELSE @[x]],
                     !.own = @ \cup Rebuilt(j, a, found),
                     !.done = @ \cup {<<a, b>> : b \in found}])

Replaced(e, own) == \E o \in own : [o EXCEPT !.score = 0] = [e EXCEPT !.score = 0]

CommitGraph(j) ==
    /\ job[j].at = "rebuild" /\ job[j].todo = <<>>
    /\ edges' = {e \in edges : ~Replaced(e, job[j].own)} \cup job[j].own
    /\ Finish(j, job[j].done)
    /\ UNCHANGED <<documents, profiles>>

--------------------------------------------------------------------------------
(* The index: run_indexing *)

StartIndexing(j) == kind = "documents" /\ Start(j, [Free EXCEPT !.at = "send", !.view = looks])

\* add_documents: a document in the index is replaced, whichever is the newer
SendDocuments(j) ==
    LET w == job[j]
        sent == {a \in Apps : w.view[a] # Unread}
    IN  /\ w.at = "send"
        /\ documents' = [a \in Apps |-> IF a \in sent THEN w.view[a] ELSE documents[a]]
        /\ Finish(j, {<<a, a>> : a \in sent})
        /\ UNCHANGED <<edges, profiles>>

--------------------------------------------------------------------------------
(* Profiles: refresh_all_profiles, or one that a reader found missing *)

StartProfiles(j) == kind = "profiles" /\ Start(j, [Free EXCEPT !.at = "page"])
ReadProfile(j, a) == /\ kind = "profiles" /\ profiles[a] = NoProfile
                     /\ Start(j, [Free EXCEPT !.at = "one", !.todo = <<a>>])

\* A page of the applications, the last changed first: a query of its own
NextPage(j) ==
    LET w == job[j]
    IN  /\ w.at = "page" /\ w.todo = <<>>
        /\ \E s \in ByUpdate :
              LET page == First(SubSeq(s, w.offset + 1, Len(s)), Batch)
              IN  IF page = <<>> THEN Work(j, [w EXCEPT !.at = "commit"])
                  ELSE Work(j, [w EXCEPT !.at = "visit", !.todo = page])

\* A row a session has written is locked until it commits: whoever writes it next waits
Locked(j, a) == \E i \in Jobs \ {j} : <<a, a>> \in job[i].done

\* refresh_profile: what it read before the wait is what it writes after it
Wait(j) ==
    LET w == job[j]
        a == Head(w.todo)
    IN  /\ w.at \in {"visit", "one"} /\ w.todo # <<>> /\ w.waits = "no" /\ Locked(j, a)
        /\ Work(j, [w EXCEPT !.waits = IF profiles[a] = NoProfile THEN "insert" ELSE "update",
                             !.view[a] = View(w, a)])

Visit(j) ==
    LET w == job[j]
        a == Head(w.todo)
        v == [w EXCEPT !.todo = Tail(@), !.waits = "no", !.done = @ \cup {<<a, a>>},
                       !.visits = @ + 1, !.view[a] = View(w, a), !.profiles[a] = Profile(View(w, a), profiles[a])]
    IN  /\ w.at \in {"visit", "one"} /\ w.todo # <<>> /\ ~Locked(j, a)
        /\ w.waits = "insert" => profiles[a] = NoProfile
        /\ Work(j, CASE v.todo # <<>>                          -> v
                     [] w.at = "one"                           -> [v EXCEPT !.at = "commit"]
                     [] v.visits >= RefreshLimit               -> [v EXCEPT !.at = "commit"]
                     [] OTHER -> [v EXCEPT !.at = "page", !.offset = @ + Batch])

\* The row was missing and is there after the wait, or two sessions wait for each other:
\* all that the session wrote is rolled back
VisitRaises(j) ==
    /\ \/ /\ job[j].waits = "insert" /\ ~Locked(j, Head(job[j].todo))
          /\ profiles[Head(job[j].todo)] # NoProfile
       \/ \E i \in Jobs \ {j} : /\ job[i].waits # "no" /\ <<Head(job[i].todo), Head(job[i].todo)>> \in job[j].done
                                /\ job[j].waits # "no" /\ <<Head(job[j].todo), Head(job[j].todo)>> \in job[i].done
    /\ Work(j, Free)

CommitProfiles(j) ==
    LET w == job[j]
    IN  /\ w.at = "commit"
        /\ profiles' = [a \in Apps |-> IF w.profiles[a] # NoProfile THEN w.profiles[a]
                                       ELSE profiles[a]]
        /\ Finish(j, w.done)
        /\ UNCHANGED <<edges, documents>>

DerivedNext ==
    \/ \E a \in Apps, look \in Looks[kind] : Touch(a, look)
    \/ \E j \in Jobs :
          \/ StartGraph(j) \/ Rebuild(j) \/ CommitGraph(j)
          \/ StartIndexing(j) \/ SendDocuments(j)
          \/ StartProfiles(j) \/ NextPage(j) \/ Wait(j) \/ Visit(j) \/ VisitRaises(j) \/ CommitProfiles(j)
          \/ \E a \in Apps : StartRebuild(j, a) \/ ReadProfile(j, a)

DerivedSpec == DerivedInit /\ [][DerivedNext]_derivedVars

--------------------------------------------------------------------------------

EdgeRows == [from : Apps, to : Apps, kind : {"alternative_to", "similar_to"}, score : 2500 .. 10000,
             by : Jobs]

DerivedTypeOK ==
    /\ kind \in {"edges", "documents", "profiles"}
    /\ looks \in [Apps -> Looks[kind]] /\ updated_at \in [Apps -> 0 .. MaxTouches]
    /\ edges \subseteq EdgeRows
    /\ documents \in [Apps -> Looks[kind] \cup {Unread}]
    /\ \A j \in Jobs :
          /\ job[j].at \in {"free", "rebuild", "send", "page", "visit", "one", "commit"}
          /\ job[j].todo \in Seq(Apps) /\ job[j].visits \in 0 .. Cardinality(Apps) + RefreshLimit /\ job[j].own \subseteq EdgeRows
          /\ job[j].done \subseteq Apps \X Apps /\ job[j].dirty \subseteq Apps
          /\ job[j].view \in [Apps -> Looks[kind] \cup {Unread}]
    /\ sound \subseteq Apps \X Apps

\* Once a job that read an application as it is has written, and no older one after it, the
\* graph has the edge to each candidate that is near enough, of the right kind and with the
\* score of now; the index shows it as it is; its profile counts the signals it gives
DerivedFresh ==
    \A p \in sound :
        CASE kind = "edges" ->
                 LET score == Similarity(looks[p[1]], looks[p[2]])
                 IN  Worth(score) => \E e \in edges : /\ e.from = p[1] /\ e.to = p[2]
                                                      /\ e.score = score
                                                      /\ e.kind = IF score < 6500 THEN "similar_to"
                                                                  ELSE "alternative_to"
          [] kind = "documents" -> documents[p[1]] = looks[p[1]]
          [] kind = "profiles"  -> profiles[p[1]].score = 20 * Cardinality(Signals(looks[p[1]].evidence))

\* A run over all profiles (security_profiles.py:207) misses none but those that change while
\* it runs, and what is beyond its limit
RefreshReachesAll ==
    \A j \in Jobs : job[j].at = "commit" /\ job[j].offset > 0 =>
        \/ job[j].visits >= RefreshLimit
        \/ \A a \in Apps : a \in job[j].dirty \/ <<a, a>> \in job[j].done

\* The score is at most 100, as core/models/security_profile.py:30 has it
ScoreInRange == \A a \in Apps : profiles[a].score <= 100

================================================================================
