----------------------------- MODULE MCIngestion ------------------------------
EXTENDS JobQueue, AsyncScheduler, SourceHealth, TLC

\* One instance of each; "part" says which of them a behaviour shows
CONSTANTS a, b, c, p1
VARIABLE part

MCPublished == {<<<<>>, <<>>>>, <<<<a>>, <<>>>>, <<<<a, b>>, <<>>>>, <<<<b>>, <<a>>>>}
\* Publisher a has more packages than a page takes
MCFolder    == (a :> <<a, c>>) @@ (b :> <<b>>)
MCInterval  == <<1, 3, 2>>

vars == <<discoveryVars, queueVars, schedulerVars, healthVars, part>>

\* A first pass while the first webhooks come in; or passes over a full listing
MCInit ==
    /\ part \in {"discovery", "jobs", "scheduler", "health"}
    /\ IngestionInit /\ SchedulerInit /\ SourceHealthInit
    /\ Len(listing[1]) + Len(listing[2])
           = CASE part = "discovery" -> 2 [] part = "jobs" -> 1 [] OTHER -> 0
    /\ part # "discovery" => checkpoints = <<>> /\ connector = "fdroid"

DiscoveryPart == /\ part = "discovery" /\ DiscoveryNext
                 /\ UNCHANGED <<queueVars, schedulerVars, healthVars, part>>

OnePass == part = "jobs" /\ Discover(p1) /\ UNCHANGED <<queueVars, schedulerVars, healthVars, part>>

JobsPart == \/ OnePass
            \/ /\ part = "jobs" /\ JobQueueNext
               /\ UNCHANGED <<discoveryVars, schedulerVars, healthVars, part>>

SchedulerPart == /\ part = "scheduler" /\ SchedulerNext
                 /\ UNCHANGED <<discoveryVars, queueVars, healthVars, part>>

HealthPart == /\ part = "health" /\ SourceHealthNext
              /\ UNCHANGED <<discoveryVars, queueVars, schedulerVars, part>>

MCNext == DiscoveryPart \/ JobsPart \/ SchedulerPart \/ HealthPart

MCSpec ==
    /\ MCInit /\ [][MCNext]_vars
    /\ \A p \in Passes : WF_vars(part = "discovery" /\ Discover(p)
                                 /\ UNCHANGED <<queueVars, schedulerVars, healthVars, part>>)
    /\ WF_vars(OnePass)
    /\ \A w \in Workers : WF_vars(part = "jobs" /\ Work(w)
                                  /\ UNCHANGED <<discoveryVars, schedulerVars, healthVars, part>>)
    /\ WF_vars(part = "scheduler" /\ SchedulerStep
               /\ UNCHANGED <<discoveryVars, queueVars, healthVars, part>>)

TypeOK == DiscoveryTypeOK /\ JobQueueTypeOK /\ SchedulerTypeOK /\ SourceHealthTypeOK

\* What must come about in the end, of each part: every repository a source goes on listing is
\* found, but for what CursorHonest exempts, every job that reached the broker is worked off,
\* and a scheduler that is told to stop stops
IngestionProgress == EveryListedSeen /\ EveryBrokeredJobRuns /\ StopHeeded
===============================================================================
