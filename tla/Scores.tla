--------------------------------- MODULE Scores --------------------------------
(***************************************************************************)
(* The scores a sync gives an application (crawler/sync.py with            *)
(* intelligence/scoring.py and its three calculations) and the badges its  *)
(* trust page makes of them (api/routes/trust.py).                         *)
(*                                                                         *)
(* Factors are in thousandths and weights in hundredths.  The logarithms   *)
(* are exact at 9, 99, 999 and 9999 and rounded down in between.           *)
(***************************************************************************)
EXTENDS Integers, FiniteSets, SequencesExt

CONSTANTS
    ScoredApps,  \* applications
    Portraits    \* what upstream may say of each, together

\* One of them: counts, and what is there
Metered == {"stars", "forks", "contributors", "releases", "platforms"}
Stated  == {"license", "open", "readme", "described"}
Portrayed(m) ==
    /\ Metered \cup Stated \subseteq DOMAIN m
    /\ \A f \in Metered : m[f] \in Nat
    /\ \A f \in Stated : m[f] \in BOOLEAN
ASSUME ScoresAssumption ==
    /\ IsFiniteSet(ScoredApps)
    /\ \A p \in Portraits : DOMAIN p = ScoredApps /\ \A a \in ScoredApps : Portrayed(p[a])

VARIABLES
    portraits,  \* what upstream says
    scores,     \* scores stored
    partial     \* applications whose last answer had no metadata

scoreVars == <<portraits, scores, partial>>

NoScores == [trust |-> -1, quality |-> -1, popularity |-> -1, valid |-> 0, diverse |-> 0]

\* The value of the first threshold that is reached
Stepped(n, steps, below) ==
    LET reached == {i \in DOMAIN steps : n >= steps[i][1]}
    IN  IF reached = {} THEN below ELSE steps[Min(reached)][2]
Either(b, yes, no) == IF b THEN yes ELSE no
Percent(sum) == (sum + 500) \div 1000   \* of thousandths times hundredths, rounded

--------------------------------------------------------------------------------
(* The calculations, of what a sync passes: no activity, no downloads, no flags *)

Diversity(n) == Stepped(n, <<<<20, 1000>>, <<5, 700>>, <<1, 400>>>>, 100)
ValidRatio   == 800

Stars(n) == Stepped(n, <<<<1000, 1000>>, <<100, 700>>, <<10, 400>>>>, 200)

Trust(m) == Percent(
    15 * 500                                                                     \* activity
    + 15 * Either(m.releases > 0, 1000, 300) + 10 * Either(m.license, 1000, 0)
    + 10 * Diversity(m.contributors) + 5 * Stars(m.stars) + 5 * Either(m.readme, 1000, 300)
    + 15 * ValidRatio + 20 * 1000 + 5 * 700                     \* security, metadata
    + 5 * Either(m.open, 1000, 0))

\* Mutant: four platforms are more than all there is
Coverage_Uncapped(n) == (1000 * n) \div 3
Coverage(n) == IF n >= 3 THEN 1000 ELSE (1000 * n) \div 3

Shipped(n) == Stepped(n, <<<<10, 1000>>, <<3, 700>>, <<1, 400>>>>, 100)
Adopted(n) == Stepped(n, <<<<1000, 1000>>, <<100, 600>>, <<10, 350>>>>, 100)

Quality(m) == Percent(
    15 * (IF m.readme THEN 1000 ELSE Either(m.described, 300, 0))
    + 15 * 500                                                                   \* activity
    + 15 * Shipped(m.releases) + 15 * Coverage(m.platforms) + 15 * 700
    + 15 * Adopted(m.stars) + 10 * Either(m.releases > 0, 1000, 300))

LogScale(n) == Stepped(n, <<<<9999, 1000>>, <<999, 750>>, <<99, 500>>, <<9, 250>>>>, 0)
Popularity(m) == Percent(
    25 * LogScale(m.stars) + 20 * LogScale(m.forks) + 15 * LogScale(m.contributors)
    + 10 * LogScale(m.stars))                                                    \* activity

--------------------------------------------------------------------------------
(* A sync *)

ScoresInit == /\ portraits \in Portraits
              /\ scores = [a \in ScoredApps |-> NoScores] /\ partial = {}

\* get_metadata may fail: what it gave before is kept, but for the contributors
\* Mutant: nothing is kept
Metrics_Fresh(m, whole) ==
    IF whole THEN m ELSE [m EXCEPT !.contributors = 0, !.readme = FALSE, !.described = FALSE]
Metrics(m, whole) == IF whole THEN m ELSE [m EXCEPT !.contributors = 0]

ComputeScores(a) ==
    \E whole \in BOOLEAN :
        LET m == Metrics(portraits[a], whole)
        IN  /\ whole \/ scores[a] # NoScores
            /\ scores' = [scores EXCEPT ![a] = [trust |-> Trust(m), quality |-> Quality(m),
                                                popularity |-> Popularity(m), valid |-> ValidRatio,
                                                diverse |-> Diversity(m.contributors)]]
            /\ partial' = IF whole THEN partial \ {a} ELSE partial \cup {a}
            /\ UNCHANGED portraits

ScoresNext == \E a \in ScoredApps : ComputeScores(a)
ScoresSpec == ScoresInit /\ [][ScoresNext]_scoreVars

\* The badges of an application whose scans flag nothing
Badges(a) == {b \in {"verified", "trusted", "community"} :
                 CASE b = "verified"  -> scores[a].valid >= 800
                   [] b = "trusted"   -> scores[a].trust >= 80
                   [] b = "community" -> scores[a].diverse >= 700}

--------------------------------------------------------------------------------
(* Properties *)

ScoresTypeOK == /\ partial \subseteq ScoredApps
                /\ \A a \in ScoredApps : scores[a] # NoScores =>
                       {scores[a].trust, scores[a].quality, scores[a].popularity} \subseteq 0..100

\* As a sync leaves most of what they ask for out, no application is trusted less than 51 or
\* more than 93, none has a quality below 24 or above 88, or a popularity above 70, and all
\* that are scored are verified (crawler/sync.py, _compute_scores; api/routes/trust.py)
ScoresRange ==
    \A a \in ScoredApps : scores[a] # NoScores =>
        /\ scores[a].trust \in 51..93 /\ scores[a].quality \in 24..88 /\ scores[a].popularity \in 0..70
        /\ "verified" \in Badges(a)

\* An application that has no less of anything than another has no lower score, unless its
\* metadata was not to be had; and then the quality is not lower all the same
NoLess(x, y) == /\ \A f \in Metered : x[f] >= y[f]
                /\ \A f \in Stated : y[f] => x[f]
ScoresMonotone ==
    \A a, b \in ScoredApps :
        scores[a] # NoScores /\ scores[b] # NoScores /\ NoLess(portraits[a], portraits[b]) =>
            /\ scores[a].quality >= scores[b].quality
            /\ a \notin partial => /\ scores[a].trust >= scores[b].trust
                                   /\ scores[a].popularity >= scores[b].popularity

ScoresHonest == ScoresRange /\ ScoresMonotone
================================================================================
