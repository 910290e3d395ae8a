------------------------------- MODULE JobQueue --------------------------------
(***************************************************************************)
(* Jobs from the forges' webhooks (api/routes/webhooks.py) to the workers: *)
(* a request records the repository when it is not known, commits a row of *)
(* sync_jobs, and hands the job to the broker or, when that raises, to a   *)
(* queue in its own process, which nothing in the product reads.           *)
(*                                                                         *)
(* Rows of repositories are shared with discovery: a webhook looks them up *)
(* by full name and records the name as external id, discovery looks them  *)
(* up by the forge's id.                                                   *)
(***************************************************************************)
EXTENDS Discovery

CONSTANTS
    Hooked,     \* packages whose forge sends webhooks
    Requests,   \* webhook and admin requests at the same time
    Workers,    \* Celery workers
    NoJob,
    MaxJobs,    \* bound: rows of sync_jobs
    MaxFaults   \* bound: messages and processes that fail

ASSUME JobQueueAssumption ==
    /\ Hooked \subseteq Packages /\ Hooked # {}
    /\ MaxJobs \in Nat /\ MaxFaults \in Nat /\ NoJob \notin 1 .. MaxJobs

VARIABLES
    recorded,   \* committed rows of repositories with their name as external id: how many
    jobs,       \* committed rows of sync_jobs, all of them pending for ever
    request,    \* where each request is
    queue,      \* jobs the broker holds
    taken,      \* the job each worker runs, not acknowledged before its end
    local,      \* jobs in the process queue of the API
    accepted,   \* jobs whose request was answered
    ended,      \* jobs that a handler has run, well or not
    ignored,    \* jobs no handler is registered for
    dropped,    \* jobs that are gone
    faults      \* messages and processes that failed so far

queueVars == <<recorded, jobs, request, queue, taken, local, accepted, ended, ignored,
               dropped, faults>>
messages  == <<queue, taken, local, ended, ignored, dropped>>

JobIds == 1 .. MaxJobs
NoRequest == [at |-> "idle", package |-> CHOOSE r \in Hooked : TRUE, job |-> NoJob]

\* get_by(full_name): rows made by discovery and by webhooks alike
Known(r) == repositories[r] + recorded[r]

JobQueueInit ==
    /\ recorded = [r \in Packages |-> 0]
    /\ jobs = <<>>
    /\ request = [q \in Requests |-> NoRequest]
    /\ queue = {} /\ local = {} /\ accepted = {} /\ ended = {} /\ ignored = {} /\ dropped = {}
    /\ taken = [w \in Workers |-> NoJob]
    /\ faults = 0

Answer(q, w) == request' = [request EXCEPT ![q] = w]

\* A push, with a valid signature; two rows with that name raise
Receive(q, r) ==
    /\ request[q].at = "idle"
    /\ Known(r) <= 1
    /\ Answer(q, [at |-> IF Known(r) = 0 THEN "repository" ELSE "job",
                  package |-> r, job |-> NoJob])
    /\ UNCHANGED <<recorded, jobs, messages, accepted, faults>>

RecordRepository(q) ==
    /\ request[q].at = "repository"
    /\ recorded' = [recorded EXCEPT ![request[q].package] = @ + 1]
    /\ Answer(q, [request[q] EXCEPT !.at = "job"])
    /\ UNCHANGED <<jobs, messages, accepted, faults>>

\* Mutant: the job is sent before its row is committed
CreateJob_SendsFirst(q) ==
    /\ request[q].at = "job" /\ Len(jobs) < MaxJobs
    /\ queue' = queue \cup {Len(jobs) + 1}
    /\ Answer(q, NoRequest)
    /\ UNCHANGED <<recorded, jobs, taken, local, ended, ignored, dropped, accepted, faults>>
CreateJob(q) ==
    /\ request[q].at = "job" /\ Len(jobs) < MaxJobs
    /\ jobs' = Append(jobs, [package |-> request[q].package, retry |-> FALSE])
    /\ Answer(q, [request[q] EXCEPT !.at = "send", !.job = Len(jobs) + 1])
    /\ UNCHANGED <<recorded, messages, accepted, faults>>

\* retry_job: a new row and a message for any recorded job
RetryJob(q, j) ==
    /\ request[q].at = "idle" /\ Len(jobs) < MaxJobs
    /\ jobs' = Append(jobs, [package |-> jobs[j].package, retry |-> TRUE])
    /\ Answer(q, [at |-> "send", package |-> jobs[j].package, job |-> Len(jobs) + 1])
    /\ UNCHANGED <<recorded, messages, accepted, faults>>

\* enqueue_job: an exception may come after the broker has taken the message
EnqueueJob(q) ==
    /\ request[q].at = "send"
    /\ \/ /\ queue' = queue \cup {request[q].job}
          /\ UNCHANGED <<local, faults>>
       \/ /\ faults < MaxFaults /\ faults' = faults + 1
          /\ local' = local \cup {request[q].job}
          /\ queue' \in {queue, queue \cup {request[q].job}}
    /\ accepted' = accepted \cup {request[q].job}
    /\ Answer(q, NoRequest)
    /\ UNCHANGED <<recorded, jobs, taken, ended, ignored, dropped>>

\* The API process dies: its requests and its queue are gone
ApiDies ==
    /\ faults < MaxFaults /\ faults' = faults + 1
    /\ request' = [q \in Requests |-> NoRequest]
    /\ dropped' = dropped \cup local
    /\ local' = {}
    /\ UNCHANGED <<recorded, jobs, queue, taken, accepted, ended, ignored>>

Take(w) ==
    /\ taken[w] = NoJob
    /\ \E j \in queue : /\ taken' = [taken EXCEPT ![w] = j]
                        /\ queue' = queue \ {j}
    /\ UNCHANGED <<recorded, jobs, request, local, accepted, ended, ignored, dropped, faults>>

\* The type of a retry is sent as "SyncJobType.X", which no handler has
HasHandler(j) == ~jobs[j].retry

\* Mutant: a job whose handler fails goes back to the broker, however often
ProcessJob_Retries(w) ==
    /\ taken[w] # NoJob
    /\ \/ /\ ended' = IF HasHandler(taken[w]) THEN ended \cup {taken[w]} ELSE ended
          /\ UNCHANGED queue
       \/ queue' = queue \cup {taken[w]} /\ UNCHANGED ended
    /\ ignored' = IF HasHandler(taken[w]) THEN ignored ELSE ignored \cup {taken[w]}
    /\ taken' = [taken EXCEPT ![w] = NoJob]
    /\ UNCHANGED <<recorded, jobs, request, local, accepted, dropped, faults>>
\* Whatever the handler does, the message is acknowledged and the row stays as it is
ProcessJob(w) ==
    /\ taken[w] # NoJob
    /\ ended' = IF HasHandler(taken[w]) THEN ended \cup {taken[w]} ELSE ended
    /\ ignored' = IF HasHandler(taken[w]) THEN ignored ELSE ignored \cup {taken[w]}
    /\ taken' = [taken EXCEPT ![w] = NoJob]
    /\ UNCHANGED <<recorded, jobs, request, queue, local, accepted, dropped, faults>>

\* A lost child is acknowledged for; a lost worker's message comes back
WorkerDies(w) ==
    /\ taken[w] # NoJob
    /\ faults < MaxFaults /\ faults' = faults + 1
    /\ \/ queue' = queue \cup {taken[w]} /\ UNCHANGED dropped
       \/ dropped' = dropped \cup {taken[w]} /\ UNCHANGED queue
    /\ taken' = [taken EXCEPT ![w] = NoJob]
    /\ UNCHANGED <<recorded, jobs, request, local, accepted, ended, ignored>>

\* A job that runs longer than the broker waits is handed out again
Redeliver(w) ==
    /\ taken[w] # NoJob
    /\ faults < MaxFaults /\ faults' = faults + 1
    /\ queue' = queue \cup {taken[w]}
    /\ UNCHANGED <<recorded, jobs, request, taken, local, accepted, ended, ignored, dropped>>

Serve(q) ==
    \/ \E r \in Hooked : Receive(q, r)
    \/ \E j \in DOMAIN jobs : RetryJob(q, j)
    \/ RecordRepository(q) \/ CreateJob(q) \/ EnqueueJob(q)

Work(w) == Take(w) \/ ProcessJob(w)

JobQueueNext ==
    \/ \E q \in Requests : Serve(q)
    \/ \E w \in Workers : Work(w) \/ WorkerDies(w) \/ Redeliver(w)
    \/ ApiDies

\* With the discovery passes that write rows of the same table
IngestionInit == DiscoveryInit /\ JobQueueInit

IngestionNext ==
    \/ JobQueueNext /\ UNCHANGED discoveryVars
    \/ DiscoveryNext /\ UNCHANGED queueVars

IngestionSpec == IngestionInit /\ [][IngestionNext]_<<discoveryVars, queueVars>>

\* A worker that is idle takes what there is, and a job has an end
WorkerFairness == \A w \in Workers : WF_queueVars(Work(w))

--------------------------------------------------------------------------------

JobQueueTypeOK ==
    /\ recorded \in [Packages -> Nat]
    /\ jobs \in Seq([package : Packages, retry : BOOLEAN]) /\ Len(jobs) <= MaxJobs
    /\ request \in [Requests -> [at : {"idle", "repository", "job", "send"},
                                 package : Packages, job : JobIds \cup {NoJob}]]
    /\ taken \in [Workers -> JobIds \cup {NoJob}]
    /\ \A js \in {queue, local, accepted, ended, ignored, dropped} : js \subseteq JobIds
    /\ faults \in 0 .. MaxFaults

InHand == {taken[w] : w \in Workers} \ {NoJob}

\* A job that can be run has its row and its repository's row, however late it is run or
\* run again; and a job whose request was answered is never forgotten: it waits, it is
\* being run, it has been run or refused for want of a handler, or it went down with the
\* process that held it
JobsAccounted ==
    /\ \A j \in queue \cup local \cup InHand :
          j \in DOMAIN jobs /\ Known(jobs[j].package) >= 1
    /\ accepted \subseteq queue \cup InHand \cup local \cup ended \cup ignored \cup dropped

\* What the broker has taken in is run in the end, unless a worker's death loses it, or
\* no handler has its name
EveryBrokeredJobRuns == <>[](queue \cup InHand = {})

================================================================================
