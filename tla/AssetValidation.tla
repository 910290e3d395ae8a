----------------------------- MODULE AssetValidation ---------------------------
(***************************************************************************)
(* One asset of one application, from a publication to its verdict.  The   *)
(* feed publisher files it as pending at every publication; the validation *)
(* job reads pending assets, has their files looked at, and writes         *)
(* verdicts and scans in one commit at the end.  The crawler writes a      *)
(* verdict with the file, and its assets are never pending.  Publications  *)
(* get through here or roll back; those of feeds always roll back today,   *)
(* see FeedSync, and what the job finds pending is from elsewhere.         *)
(*                                                                         *)
(* A session writes the columns it changed and no others: a status that is *)
(* set to what was read is not written.  What an application's security    *)
(* and trust pages say is computed from all the scans there ever were.     *)
(***************************************************************************)
EXTENDS FiniteSets, Naturals

CONSTANTS
    Validators,  \* runs of the validation job
    NoFile,      \* no asset yet
    Files,       \* what an asset can be: its outcome, and the reasons to suspect its name
    MaxChecks    \* bound: validations that are committed

ASSUME AssetAssumption ==
    /\ MaxChecks \in Nat /\ NoFile \notin Files
    /\ \A f \in Files : f.outcome \in {"valid", "invalid", "review_required"} /\ f.reasons \in Nat

VARIABLES
    origin,      \* who publishes the asset
    asset,       \* its row
    publication, \* the session that publishes it, and
    validation,  \* those that validate it: what each has read and will write
    scans,       \* the application's scans: their risk, and whether one passed or was flagged
    checks,      \* validations committed
    overlapped   \* the last write of the asset overlapped another

assetVars == <<origin, asset, publication, validation, scans, checks, overlapped>>

Outcomes == {"valid", "invalid", "review_required"}
Verdicts == Outcomes \cup {"quarantined"}
Away     == [at |-> "idle"]
Unscanned == [risk |-> 0, passed |-> FALSE, flagged |-> FALSE]

AssetInit ==
    /\ origin \in {"feed", "crawler"}
    /\ asset = [file |-> NoFile, status |-> "pending"]
    /\ publication = Away
    /\ validation = [v \in Validators |-> Away]
    /\ scans = Unscanned /\ checks = 0 /\ overlapped = FALSE

Least(a, b) == IF a < b THEN a ELSE b

--------------------------------------------------------------------------------
(* Publications *)

PublishedStatus(f) == IF origin = "feed" THEN "pending" ELSE f.outcome

PublishReads(f) ==
    /\ publication = Away
    /\ publication' = [at |-> "read", file |-> f, read |-> asset, stale |-> FALSE]
    /\ UNCHANGED <<origin, asset, validation, scans, checks, overlapped>>

\* What is written of the row, once its lock is had
\* Mutant: a session writes all columns, whether it changed them or not
Written_AllColumns(f, read) == [file |-> f, status |-> read.status]
Written(f, read) ==
    [file   |-> IF f = read.file THEN asset.file ELSE f,
     status |-> IF read.file # NoFile /\ PublishedStatus(f) = read.status THEN asset.status
                ELSE PublishedStatus(f)]

PublishFlushes ==
    /\ publication.at = "read" /\ publication' = [publication EXCEPT !.at = "flushed"]
    /\ UNCHANGED <<origin, asset, validation, scans, checks, overlapped>>

PublishCommits ==
    /\ publication.at = "flushed" /\ publication' = Away
    /\ asset' = Written(publication.file, publication.read)
    /\ validation' = [v \in Validators |-> IF validation[v] = Away THEN Away
                                           ELSE [validation[v] EXCEPT !.stale = TRUE]]
    /\ overlapped' = publication.stale
    /\ UNCHANGED <<origin, scans, checks>>

\* Something else of the batch fails, or the process stops
PublishRollsBack ==
    /\ publication # Away /\ publication' = Away
    /\ UNCHANGED <<origin, asset, validation, scans, checks, overlapped>>

--------------------------------------------------------------------------------
(* Validation *)

\* The static scan and the reputation of the hash, malicious or nothing known against it: what
\* severity, findings and flag add to the risk
StaticRisk(f) == IF f.reasons = 0 THEN 0 ELSE 15 + 3 * f.reasons + 10
ReputationRisk(known) == IF known = "malicious" THEN 30 + 3 + 10 ELSE 3
Flagged(f, known) == f.reasons > 0 \/ known = "malicious"
Evidence(f, known) ==
    [risk |-> StaticRisk(f) + ReputationRisk(known), passed |-> f.reasons = 0 \/ known = "passed",
     flagged |-> Flagged(f, known)]

\* Mutant: the verdict of the outcome stands, whatever the scanner says
Verdict_OutcomeOnly(f, known) == f.outcome
Verdict(f, known) == IF Flagged(f, known) THEN "quarantined" ELSE f.outcome

Selected == asset.file # NoFile /\ asset.status \in {"pending", "stale", "failed"}

\* An asset that is committed is linked to a release, in the same transaction, and stays so:
\* there is an application to file the scans under
Validate(v) ==
    /\ validation[v] = Away /\ Selected /\ checks < MaxChecks
    /\ \E known \in {"passed", "malicious"} :
          validation' = [validation EXCEPT ![v] =
              [at |-> "scanned", verdict |-> Verdict(asset.file, known),
               evidence |-> Evidence(asset.file, known), stale |-> FALSE]]
    /\ UNCHANGED <<origin, asset, publication, scans, checks, overlapped>>

\* The commit waits for a publication that has flushed
ValidateCommits(v) ==
    /\ validation[v] # Away /\ publication.at # "flushed" /\ checks < MaxChecks
    /\ validation' = [validation EXCEPT ![v] = Away]
    /\ asset' = [asset EXCEPT !.status = validation[v].verdict]
    /\ scans' = LET new == validation[v].evidence
                IN  [risk |-> Least(100, scans.risk + new.risk), passed |-> scans.passed \/ new.passed,
                     flagged |-> scans.flagged \/ new.flagged]
    /\ checks' = checks + 1
    /\ publication' = IF publication = Away THEN Away ELSE [publication EXCEPT !.stale = TRUE]
    /\ overlapped' = validation[v].stale
    /\ UNCHANGED origin

ValidateStops(v) ==
    /\ validation[v] # Away /\ validation' = [validation EXCEPT ![v] = Away]
    /\ UNCHANGED <<origin, asset, publication, scans, checks, overlapped>>

AssetNext ==
    \/ \E f \in Files : PublishReads(f)
    \/ PublishFlushes \/ PublishCommits \/ PublishRollsBack
    \/ \E v \in Validators : Validate(v) \/ ValidateCommits(v) \/ ValidateStops(v)

AssetSpec == AssetInit /\ [][AssetNext]_assetVars

--------------------------------------------------------------------------------
(* What the pages say *)

SecurityStatus == IF checks = 0 THEN "not_scanned" ELSE IF scans.risk >= 35 THEN "flagged"
                  ELSE IF scans.risk = 0 THEN "passed" ELSE "review_required"
Audited == scans.passed /\ ~scans.flagged

--------------------------------------------------------------------------------
(* Properties *)

AssetTypeOK == /\ asset.file \in Files \cup {NoFile} /\ asset.status \in Verdicts \cup {"pending"}
               /\ scans.risk \in 0..100 /\ checks \in 0..MaxChecks

\* Unless a publication and a validation overlapped, a status that is not pending is the verdict
\* on the very file the row has, and not on an earlier one (automation/jobs/validate.py,
\* run_validation against feed_publisher.py, _upsert_asset)
StatusTrue ==
    ~overlapped /\ asset.status # "pending" =>
        asset.status \in {"quarantined", asset.file.outcome}
        /\ (asset.file.reasons > 0 /\ origin = "feed" => asset.status = "quarantined")

\* An application with a quarantined asset that no other application has is never badged as
\* audited, and its page never says that its scans passed; of two that share one, the scans are
\* filed under either (api/routes/trust.py, api/routes/security.py; validate.py, the limit)
QuarantineShown == asset.status = "quarantined" => ~Audited /\ SecurityStatus \notin {"passed", "not_scanned"}

\* Scans add up, each of a hash nobody has anything against too: it takes twelve of them before
\* an application is flagged for nothing (api/routes/security.py, _score)
FlaggedForCause == SecurityStatus = "flagged" => scans.flagged \/ checks >= 12

AssetsHonest == StatusTrue /\ QuarantineShown /\ FlaggedForCause
================================================================================
