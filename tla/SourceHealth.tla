------------------------------ MODULE SourceHealth -----------------------------
(***************************************************************************)
(* Health rounds (crawler/source_health.py): the scheduler's job and GET   *)
(* /health/sources both probe the sources and append one row for each.  A  *)
(* row's streak of failures continues that of the latest row its session   *)
(* can see, and the latest row is the one with the latest time of          *)
(* recording, which is not the order of the commits.                       *)
(***************************************************************************)
EXTENDS Integers, Sequences, SequencesExt

CONSTANTS
    Rounds,      \* rounds at the same time
    HealthSources,
    MaxStreak    \* bound: failures in a row

ASSUME HealthAssumption == MaxStreak \in Nat \ {0}

VARIABLES
    round,     \* where each round is
    order,     \* rounds that have recorded, in the order of their times
    latest,    \* the committed row of each source that latest_health finds
    truth,     \* history: failures since the last success, by order of commit
    muddled    \* history: sources whose rows came from rounds side by side, since
               \* they were last found healthy by a round on its own

healthVars == <<round, order, latest, truth, muddled>>

NoHealthRow == [healthy |-> TRUE, streak |-> 0, exists |-> FALSE]
Waiting == [at |-> "idle", up |-> {}, rows |-> [s \in HealthSources |-> NoHealthRow],
            outdated |-> FALSE, alone |-> TRUE]

SourceHealthInit ==
    /\ round = [k \in Rounds |-> Waiting]
    /\ order = <<>>
    /\ latest = [s \in HealthSources |-> NoHealthRow]
    /\ truth = [s \in HealthSources |-> 0]
    /\ muddled = {}

Active == {k \in Rounds : round[k].at # "idle"}

\* probe_all: a source is healthy, or failed, or did not answer in time.  The round meets
\* those that are under way
Probe(k) ==
    /\ round[k].at = "idle"
    /\ \E up \in SUBSET HealthSources :
          round' = [j \in Rounds |->
                       IF j = k THEN [Waiting EXCEPT !.at = "probed", !.up = up,
                                                     !.alone = Active = {}]
                       ELSE [round[j] EXCEPT !.alone = @ /\ round[j].at = "idle"]]
    /\ UNCHANGED <<order, latest, truth, muddled>>

\* Mutant: the streak of a source that is up is not reset
HealthRow_NeverReset(s, up) ==
    [healthy |-> up, exists |-> TRUE, streak |-> latest[s].streak + IF up THEN 0 ELSE 1]
\* record_connector_health
HealthRow(s, up) ==
    [healthy |-> up, exists |-> TRUE, streak |-> IF up THEN 0 ELSE latest[s].streak + 1]

\* The sources one after the other in one transaction
Record(k) ==
    /\ round[k].at = "probed"
    /\ \A s \in HealthSources : latest[s].streak < MaxStreak /\ truth[s] < MaxStreak
    /\ round' = [round EXCEPT ![k].at = "recorded",
                              ![k].rows = [s \in HealthSources |-> HealthRow(s, s \in round[k].up)]]
    /\ order' = Append(order, k)
    /\ UNCHANGED <<latest, truth, muddled>>

\* The rows become the latest ones unless a round that recorded later was first
CommitRound(k) ==
    LET w == round[k]
        earlier == {order[i] : i \in {j \in DOMAIN order : \E n \in j + 1 .. Len(order) : order[n] = k}}
    IN  /\ w.at = "recorded"
        /\ latest' = IF w.outdated THEN latest ELSE w.rows
        /\ truth' = [s \in HealthSources |-> IF s \in w.up THEN 0 ELSE truth[s] + 1]
        /\ muddled' = IF w.alone THEN muddled \ w.up ELSE HealthSources
        /\ round' = [j \in Rounds |->
                        IF j = k THEN Waiting
                        ELSE [round[j] EXCEPT !.outdated = @ \/ j \in earlier]]
        /\ order' = SelectSeq(order, LAMBDA j : j # k)

\* The session fails, or the caller goes away
LoseRound(k) ==
    /\ round[k].at # "idle"
    /\ round' = [round EXCEPT ![k] = Waiting]
    /\ order' = SelectSeq(order, LAMBDA j : j # k)
    /\ UNCHANGED <<latest, truth, muddled>>

SourceHealthNext ==
    \E k \in Rounds : Probe(k) \/ Record(k) \/ CommitRound(k) \/ LoseRound(k)

SourceHealthSpec == SourceHealthInit /\ [][SourceHealthNext]_healthVars

--------------------------------------------------------------------------------

HealthRows == [healthy : BOOLEAN, streak : 0 .. MaxStreak, exists : BOOLEAN]

SourceHealthTypeOK ==
    /\ round \in [Rounds -> [at : {"idle", "probed", "recorded"}, up : SUBSET HealthSources,
                             rows : [HealthSources -> HealthRows],
                             outdated : BOOLEAN, alone : BOOLEAN]]
    /\ order \in Seq(Rounds)
    /\ latest \in [HealthSources -> HealthRows]
    /\ truth \in [HealthSources -> Nat]
    /\ muddled \subseteq HealthSources

\* A source's latest row counts exactly the failures since it was last up, and says so;
\* rounds side by side may miscount, until a round on its own finds the source up
StreakHonest ==
    \A s \in HealthSources \ muddled :
        latest[s].streak = truth[s] /\ latest[s].healthy = (truth[s] = 0)

================================================================================
