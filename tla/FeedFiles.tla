------------------------------- MODULE FeedFiles -------------------------------
(***************************************************************************)
(* Published feed files (feeds/generator.py, feeds/signing.py) and the     *)
(* backups of them and of the database (core/backup.py).  Feed jobs run in *)
(* the scheduler's process and in workers'; the daily backup archives the  *)
(* directory while a worker may write to it.                               *)
(*                                                                         *)
(* A signature is the pair of the key and of what it signs; what a feed    *)
(* says is the version of the catalogue it was built from.                 *)
(***************************************************************************)
EXTENDS Integers, FiniteSets, SequencesExt

CONSTANTS
    Writers,     \* processes that run feed jobs
    Feeds,       \* the feeds of generate_all, in its order
    Stable,      \* those of the stable channel
    Keys,        \* signing keys
    Keep,        \* BACKUP_KEEP
    MaxVersions, \* bound: versions of the catalogue
    MaxJobs,     \* bound: feed jobs
    MaxBackups,  \* bound: backup runs
    MaxStops     \* bound: processes that die and calls that fail

ASSUME FeedFilesAssumption ==
    /\ Feeds \in Seq(Range(Feeds)) /\ Feeds # <<>>
    /\ Keep \in Nat /\ MaxVersions \in Nat \ {0}
    /\ MaxJobs \in Nat /\ MaxBackups \in Nat /\ MaxStops \in Nat

VARIABLES
    keys,      \* the settings' keys: the private and the public one
    version,   \* the catalogue
    laid,      \* there is something in the feeds directory
    files,     \* what each path holds
    temps,     \* temporary files beside them: by whom, left behind by a process that died
    writer,    \* where each feed job is
    jobs,      \* feed jobs so far
    archives,  \* the backup directory, oldest first: is the artifact whole
    backup,    \* where the backup is
    backups,   \* backup runs so far
    wasted,    \* history: artifacts that are not whole since the latest that is; -1 without one
    stops      \* deaths and failures so far

fileVars == <<keys, version, laid, files, temps, writer, jobs, archives, backup, backups, wasted, stops>>

Kinds  == {"db", "feeds"}
Paths  == Range(Feeds) \X {"channel", "alias"}
Targets(f) == IF f \in Stable THEN <<<<f, "channel">>, <<f, "alias">>>> ELSE <<<<f, "channel">>>>
Nothing == [version |-> 0, key |-> 0, signer |-> 0, whole |-> FALSE]

Unsigned(v, key)  == [version |-> v, key |-> key, signer |-> 0, whole |-> TRUE]
Signed(e, key)    == [e EXCEPT !.signer = key]
\* Against the key the envelope names, or another that is given
Verifies(e, key)  == e.whole /\ e.signer = key

Idle    == [at |-> "idle", feeds |-> <<>>, paths |-> <<>>, feed |-> Nothing]
Resting == [at |-> "idle", seen |-> {}]

FeedFilesInit ==
    /\ keys \in [private : Keys, public : Keys]
    /\ version = 1 /\ laid = FALSE
    /\ files = [p \in Paths |-> Nothing]
    /\ temps = {}
    /\ writer = [w \in Writers |-> Idle] /\ jobs = 0
    /\ archives = [k \in Kinds |-> <<>>]
    /\ backup = Resting /\ backups = 0
    /\ wasted = [k \in Kinds |-> -1]
    /\ stops = 0

feedFrame   == <<keys, archives, backup, backups, wasted>>
backupFrame == <<keys, version, laid, files, temps, writer, jobs>>

--------------------------------------------------------------------------------
(* Feed jobs *)

\* The catalogue changes
Change == /\ version < MaxVersions
          /\ version' = version + 1
          /\ UNCHANGED <<laid, files, temps, writer, jobs, stops, feedFrame>>

\* A job for every feed
StartJob(w) ==
    /\ writer[w].at = "idle" /\ jobs < MaxJobs
    /\ jobs' = jobs + 1
    /\ writer' = [writer EXCEPT ![w] = [Idle EXCEPT !.at = "build", !.feeds = Feeds]]
    /\ UNCHANGED <<version, laid, files, temps, stops, feedFrame>>

\* Mutant: the feed is published unverified
Build_Trusting(w) ==
    LET signed == Signed(Unsigned(version, keys.public), keys.private)
    IN  /\ writer[w].at = "build"
        /\ writer' = [writer EXCEPT ![w] = [@ EXCEPT !.at = "open", !.feed = signed,
                                                     !.paths = Targets(Head(writer[w].feeds))]]
        /\ UNCHANGED <<version, laid, files, temps, jobs, stops, feedFrame>>
\* build: a feed that does not verify with the public key ends the job
Build(w) ==
    LET signed == Signed(Unsigned(version, keys.public), keys.private)
    IN  /\ writer[w].at = "build"
        /\ writer' = [writer EXCEPT ![w] =
               IF Verifies(signed, keys.public)
               THEN [@ EXCEPT !.at = "open", !.feed = signed,
                              !.paths = Targets(Head(writer[w].feeds))]
               ELSE Idle]
        /\ UNCHANGED <<version, laid, files, temps, jobs, stops, feedFrame>>

\* _atomic_write: a temporary file is written, then takes the place of the path
OpenTemp(w) ==
    /\ writer[w].at = "open"
    /\ temps' = temps \cup {[by |-> w, path |-> Head(writer[w].paths), whole |-> FALSE,
                           left |-> FALSE]}
    /\ writer' = [writer EXCEPT ![w].at = "write"]
    /\ laid' = TRUE
    /\ UNCHANGED <<version, files, jobs, stops, feedFrame>>

OwnTemps(w) == {t \in temps : t.by = w /\ ~t.left /\ writer[w].at \in {"write", "replace"}
                                       /\ t.path = Head(writer[w].paths)}

WriteTemp(w) ==
    /\ writer[w].at = "write"
    /\ temps' = (temps \ OwnTemps(w)) \cup {[t EXCEPT !.whole = TRUE] : t \in OwnTemps(w)}
    /\ writer' = [writer EXCEPT ![w].at = "replace"]
    /\ UNCHANGED <<version, laid, files, jobs, stops, feedFrame>>

\* The next path of the feed, the next feed, or the end of the job
After(job) ==
    IF Len(job.paths) > 1 THEN [job EXCEPT !.at = "open", !.paths = Tail(@)]
    ELSE IF Len(job.feeds) > 1 THEN [Idle EXCEPT !.at = "build", !.feeds = Tail(job.feeds)]
    ELSE Idle

Replace(w) ==
    /\ writer[w].at = "replace"
    /\ files' = [files EXCEPT ![Head(writer[w].paths)] = writer[w].feed]
    /\ temps' = temps \ OwnTemps(w)
    /\ writer' = [writer EXCEPT ![w] = After(@)]
    /\ UNCHANGED <<version, laid, jobs, stops, feedFrame>>

\* A call fails: the temporary file is removed and the exception ends the job
FailJob(w) ==
    /\ writer[w].at \in {"build", "open", "write", "replace"} /\ stops < MaxStops
    /\ stops' = stops + 1
    /\ temps' = temps \ OwnTemps(w)
    /\ writer' = [writer EXCEPT ![w] = Idle]
    /\ UNCHANGED <<version, laid, files, jobs, feedFrame>>

\* The process dies: its temporary file is left for good
KillJob(w) ==
    /\ writer[w].at \in {"write", "replace"} /\ stops < MaxStops
    /\ stops' = stops + 1
    /\ temps' = (temps \ OwnTemps(w)) \cup {[t EXCEPT !.left = TRUE] : t \in OwnTemps(w)}
    /\ writer' = [writer EXCEPT ![w] = Idle]
    /\ UNCHANGED <<version, laid, files, jobs, feedFrame>>

\* get_signed_feed: 404 without a file, 503 when it does not verify with the key it names
Served(p) == IF files[p] = Nothing THEN 404
             ELSE IF Verifies(files[p], files[p].key) THEN 200 ELSE 503

--------------------------------------------------------------------------------
(* Backups *)

\* An artifact of the kind takes its name when it is begun
Begun(k) == [archives EXCEPT ![k] = Append(@, FALSE)]
Done(k)  == [archives EXCEPT ![k] = [@ EXCEPT ![Len(@)] = TRUE]]
Waste(k) == [wasted EXCEPT ![k] = IF @ < 0 THEN @ ELSE @ + 1]

StartDump ==
    /\ backup.at = "idle" /\ backups < MaxBackups
    /\ backups' = backups + 1
    /\ archives' = Begun("db")
    /\ wasted' = Waste("db")
    /\ backup' = [Resting EXCEPT !.at = "dump"]
    /\ UNCHANGED <<backupFrame, stops>>

\* pg_dump ends well, or not: then what it wrote is removed
EndDump ==
    /\ backup.at = "dump"
    /\ backup' = [Resting EXCEPT !.at = "tar"]
    /\ \/ /\ archives' = Done("db") /\ wasted' = [wasted EXCEPT !["db"] = 0]
          /\ UNCHANGED stops
       \/ /\ stops < MaxStops /\ stops' = stops + 1
          /\ archives' = [archives EXCEPT !["db"] = Front(@)]
          /\ wasted' = [wasted EXCEPT !["db"] = IF @ < 0 THEN @ ELSE @ - 1]
    /\ UNCHANGED <<backupFrame, backups>>

Listed == {<<t.by, t.path>> : t \in temps}

\* backup_feeds: nothing to do, or the directory is listed, temporary files included
StartTar ==
    /\ backup.at = "tar"
    /\ IF ~laid
       THEN /\ backup' = [Resting EXCEPT !.at = "prune"]
            /\ UNCHANGED <<archives, wasted>>
       ELSE /\ backup' = [at |-> "add", seen |-> Listed]
            /\ archives' = Begun("feeds") /\ wasted' = Waste("feeds")
    /\ UNCHANGED <<backupFrame, backups, stops>>

\* A listed file that is gone when its turn comes ends the archive where it is
EndTar ==
    /\ backup.at = "add"
    /\ backup' = [Resting EXCEPT !.at = "prune"]
    /\ \/ /\ archives' = Done("feeds") /\ wasted' = [wasted EXCEPT !["feeds"] = 0]
       \/ /\ backup.seen \ Listed # {}
          /\ UNCHANGED <<archives, wasted>>
    /\ UNCHANGED <<backupFrame, backups, stops>>

Newest(s, n) == SubSeq(s, (IF Len(s) > n THEN Len(s) - n ELSE 0) + 1, Len(s))

\* Mutant: the newest are pruned
Prune_Newest ==
    /\ backup.at = "prune"
    /\ archives' = [k \in Kinds |-> SubSeq(archives[k], 1, IF Len(archives[k]) > Keep THEN Keep
                                                           ELSE Len(archives[k]))]
    /\ backup' = Resting
    /\ UNCHANGED <<backupFrame, backups, wasted, stops>>
\* Whole or not, the newest artifacts stay
Prune ==
    /\ backup.at = "prune"
    /\ archives' = [k \in Kinds |-> Newest(archives[k], Keep)]
    /\ backup' = Resting
    /\ UNCHANGED <<backupFrame, backups, wasted, stops>>

\* The process dies: what was begun stays as it is
KillBackup ==
    /\ backup.at # "idle" /\ stops < MaxStops
    /\ stops' = stops + 1
    /\ backup' = Resting
    /\ UNCHANGED <<backupFrame, archives, backups, wasted>>

FeedFilesNext ==
    \/ Change
    \/ \E w \in Writers : \/ StartJob(w) \/ Build(w) \/ OpenTemp(w) \/ WriteTemp(w) \/ Replace(w)
                          \/ FailJob(w) \/ KillJob(w)
    \/ StartDump \/ EndDump \/ StartTar \/ EndTar \/ Prune \/ KillBackup

FeedFilesSpec == FeedFilesInit /\ [][FeedFilesNext]_fileVars

--------------------------------------------------------------------------------

Envelopes == [version : 0 .. MaxVersions, key : Keys \cup {0}, signer : Keys \cup {0}, whole : BOOLEAN]

FeedFilesTypeOK ==
    /\ keys \in [private : Keys, public : Keys] /\ version \in 1 .. MaxVersions
    /\ files \in [Paths -> Envelopes]
    /\ temps \subseteq [by : Writers, path : Paths, whole : BOOLEAN, left : BOOLEAN]
    /\ \A w \in Writers : /\ writer[w].at \in {"idle", "build", "open", "write", "replace"}
                          /\ writer[w].paths \in Seq(Paths) /\ writer[w].feed \in Envelopes
    /\ \A k \in Kinds : archives[k] \in Seq(BOOLEAN) /\ wasted[k] \in -1 .. MaxBackups
    /\ backup \in [at : {"idle", "dump", "tar", "add", "prune"}, seen : SUBSET (Writers \X Paths)]

\* Wherever a job stops, each published path holds a whole feed that verifies, with the key
\* it names and with the key of the settings; and only a process that died has left a
\* temporary file
FeedsVerify ==
    /\ \A p \in Paths : Served(p) # 503
                        /\ (files[p] # Nothing => Verifies(files[p], keys.public))
    /\ \A t \in temps : ~t.left => t \in OwnTemps(t.by)

\* Once an artifact is whole there is a whole one to restore from, unless as many runs as
\* artifacts are kept have ended half-way since
BackupKept ==
    \A k \in Kinds : wasted[k] \in 0 .. Keep - 1 => TRUE \in Range(archives[k])

FilesHonest == FeedsVerify /\ BackupKept

================================================================================
