---------------------------- MODULE WebhookDelivery ----------------------------
(***************************************************************************)
(* Outbound webhooks: the delivery queue (omnisource/webhooks/delivery.py),*)
(* the direct notifier that shares its endpoint rows                       *)
(* (omnisource/automation/notify.py) and the two management APIs.          *)
(*                                                                         *)
(* Every deliver_pending or dispatch_event call is a database session: it  *)
(* reads an endpoint row once, keeps the object for the rest of the        *)
(* transaction (the session's identity map) and writes back only the       *)
(* columns it changed when it commits.  A delivery row is locked from the  *)
(* SELECT ... FOR UPDATE SKIP LOCKED to the end of that transaction.       *)
(***************************************************************************)
EXTENDS Integers, FiniteSets

CONSTANTS
    Endpoints,      \* rows of webhook_subscriptions
    Url,            \* the consumer URL of each row
    BadUrl,         \* rows whose URL httpx cannot parse (InvalidURL is no HTTPError)
    Events,         \* event names; a subscription to "*" is the whole set
    Workers,        \* sessions that run deliver_pending
    Callers,        \* sessions that post directly: dispatch_event or test_endpoint
    Testers,        \* those of test_endpoint
    MaxAttempts,    \* MAX_ATTEMPTS, 8 in the code
    DisableAfter,   \* _MAX_FAILURES, 20 in the code
    EmitLimit,      \* emit_event's max_endpoints, 20 in the code
    BatchLimit,     \* deliver_pending's limit
    MaxEmits,       \* bound: emit_event calls that queue rows
    MaxDispatches,  \* bound: dispatch_event calls
    MaxLost         \* bound: batches whose transaction never commits

ASSUME ParametersAssumption ==
    /\ Url \in [Endpoints -> STRING]
    /\ BadUrl \subseteq Endpoints
    /\ Workers \cap Callers = {} /\ Testers \subseteq Callers
    /\ {MaxAttempts, DisableAfter, EmitLimit, BatchLimit} \subseteq Nat \ {0}
    /\ {MaxEmits, MaxDispatches, MaxLost} \subseteq Nat

VARIABLES
    endpoint,   \* committed webhook_subscriptions rows
    delivery,   \* committed webhook_deliveries rows
    batch,      \* rows a worker's transaction holds locked
    todo,       \* rows of the batch its loop has still to post
    row,        \* its uncommitted copies of the rows of its batch
    view,       \* each session's copies of the endpoint rows it has read
    calls,      \* endpoints a caller has still to post to
    emitted,    \* number of emissions so far
    dispatched, \* number of direct dispatches so far
    posted,     \* posts made for each delivery
    received,   \* posts each delivery's consumer has taken in
    waited,     \* seconds of backoff that have passed for each delivery
    streak,     \* failed posts to each endpoint since its last 2xx answer,
                \* counted up to DisableAfter
    lost        \* number of batches lost

vars == <<endpoint, delivery, batch, todo, row, view, calls,
          emitted, dispatched, posted, received, waited, streak, lost>>

history  == <<posted, received, waited, streak, lost>>
sessions == <<batch, todo, row, view, calls>>

Deliveries == (1 .. MaxEmits) \X Endpoints   \* <<emission, endpoint_id>>
Sessions   == Workers \cup Callers

\* What happens to a post: a 2xx answer; taken in by the consumer but answered
\* with an error or too late; or not taken in at all.
Outcomes   == {"ok", "late", "refused"}
TakenIn(o) == IF o = "refused" THEN 0 ELSE 1

Streak(o, n) ==
    IF o = "ok" THEN 0 ELSE IF n < DisableAfter THEN n + 1 ELSE n

--------------------------------------------------------------------------------
(* Rows *)

\* _backoff_seconds
BackoffSeconds(attempts) ==
    LET seconds == 15 * 2 ^ attempts
    IN  IF seconds < 300 THEN seconds ELSE 300

Statuses == {"none", "pending", "retrying", "sent", "dead"}
Waits    == {0} \cup {BackoffSeconds(n) : n \in 1 .. MaxAttempts}

\* wait is what is left until next_attempt_at: a row is due when it is 0.
Rows     == [status : Statuses, attempts : 0 .. MaxAttempts, wait : Waits]
NoRow    == [status |-> "none", attempts |-> 0, wait |-> 0]
NewRow   == [status |-> "pending", attempts |-> 0, wait |-> 0]

EndpointRows == [registered : BOOLEAN, active : BOOLEAN,
                 events : SUBSET Events, failures : Nat]

\* WebhookSubscription.delivers
Delivers(e, event) == endpoint[e].active /\ event \in endpoint[e].events

Queued(d)   == delivery[d].status \in {"pending", "retrying"}
Settled(d)  == delivery[d].status \in {"sent", "dead"}

\* Mutant: the SELECT without FOR UPDATE SKIP LOCKED
Locked_None == {}
Locked      == UNION {batch[w] : w \in Workers}

\* Mutants of the SELECT's WHERE clause: no status filter, PENDING only, no
\* next_attempt_at condition
Due_AnyStatus   == {d \in Deliveries : delivery[d].status # "none" /\ delivery[d].wait = 0}
Due_PendingOnly == {d \in Deliveries : delivery[d].status = "pending"}
Due_AnyTime     == {d \in Deliveries : Queued(d)}
Due         == {d \in Deliveries : Queued(d) /\ delivery[d].wait = 0}

--------------------------------------------------------------------------------
(* Sessions *)

Views == [loaded : BOOLEAN, failures : Nat, active : BOOLEAN,
          oldFailures : Nat, oldActive : BOOLEAN]

NotLoaded == [loaded |-> FALSE, failures |-> 0, active |-> FALSE,
              oldFailures |-> 0, oldActive |-> FALSE]

Fetch(e) == [loaded |-> TRUE,
             failures |-> endpoint[e].failures, oldFailures |-> endpoint[e].failures,
             active |-> endpoint[e].active, oldActive |-> endpoint[e].active]

\* session.get: the object the session already holds, however old
Load(s, e) == IF view[s][e].loaded THEN view[s][e] ELSE Fetch(e)

\* session.commit: an UPDATE sets only the columns whose value changed
Flush(s) ==
    [e \in Endpoints |->
        LET v == view[s][e]
        IN  [endpoint[e] EXCEPT
                !.failures = IF v.failures # v.oldFailures THEN v.failures ELSE @,
                !.active   = IF v.active # v.oldActive THEN v.active ELSE @]]

EmptyView   == [e \in Endpoints |-> NotLoaded]
EmptyRows   == [d \in Deliveries |-> NoRow]
InSession(s) == \E e \in Endpoints : view[s][e].loaded

Init ==
    /\ endpoint = [e \in Endpoints |->
                      [registered |-> FALSE, active |-> FALSE, events |-> {}, failures |-> 0]]
    /\ delivery = EmptyRows
    /\ batch = [w \in Workers |-> {}]
    /\ todo  = [w \in Workers |-> {}]
    /\ row   = [w \in Workers |-> EmptyRows]
    /\ view  = [s \in Sessions |-> EmptyView]
    /\ calls = [p \in Callers |-> {}]
    /\ emitted = 0 /\ dispatched = 0 /\ lost = 0
    /\ posted   = [d \in Deliveries |-> 0]
    /\ received = [d \in Deliveries |-> 0]
    /\ waited   = [d \in Deliveries |-> 0]
    /\ streak   = [e \in Endpoints |-> 0]

--------------------------------------------------------------------------------
(* Endpoint management *)

Insert(e, events) ==
    endpoint' = [endpoint EXCEPT ![e] =
        [registered |-> TRUE, active |-> TRUE, events |-> events, failures |-> 0]]

SameUrl(e) == {x \in Endpoints : endpoint[x].registered /\ Url[x] = Url[e]}

\* create_endpoint: scalar_one_or_none raises when the URL has two rows already
CreateEndpoint(e, events) ==
    /\ ~endpoint[e].registered
    /\ Cardinality(SameUrl(e)) <= 1
    /\ \A x \in SameUrl(e) : ~endpoint[x].active
    /\ Insert(e, events)
    /\ UNCHANGED <<delivery, sessions, emitted, dispatched, history>>

\* admin create_subscription looks at no other row
CreateSubscription(e, events) ==
    /\ ~endpoint[e].registered
    /\ Insert(e, events)
    /\ UNCHANGED <<delivery, sessions, emitted, dispatched, history>>

UpdateEndpoint(e, events, active) ==
    /\ endpoint[e].registered
    /\ endpoint' = [endpoint EXCEPT ![e].events = events, ![e].active = active]
    /\ UNCHANGED <<delivery, sessions, emitted, dispatched, history>>

\* delete_endpoint and admin delete_subscription: a soft delete
DeleteEndpoint(e) ==
    /\ endpoint[e].registered
    /\ endpoint' = [endpoint EXCEPT ![e].active = FALSE]
    /\ UNCHANGED <<delivery, sessions, emitted, dispatched, history>>

--------------------------------------------------------------------------------
(* emit_event *)

ActiveEndpoints == {e \in Endpoints : endpoint[e].active}

\* SELECT ... WHERE is_active LIMIT max_endpoints, in no particular order
Pages(S, limit) ==
    {page \in SUBSET S : Cardinality(page) =
        IF Cardinality(S) < limit THEN Cardinality(S) ELSE limit}

EmitEvent(event) ==
    /\ emitted < MaxEmits
    /\ \E page \in Pages(ActiveEndpoints, EmitLimit) :
          LET subscriptions == {e \in page : Delivers(e, event)}
          IN  /\ subscriptions # {}
              /\ delivery' = [d \in Deliveries |->
                    IF d[1] = emitted + 1 /\ d[2] \in subscriptions THEN NewRow ELSE delivery[d]]
    /\ emitted' = emitted + 1
    /\ UNCHANGED <<endpoint, sessions, dispatched, history>>

\* next_attempt_at is reached
BackoffElapses(d) ==
    /\ Queued(d) /\ delivery[d].wait > 0
    /\ delivery' = [delivery EXCEPT ![d].wait = 0]
    /\ waited' = [waited EXCEPT ![d] = @ + delivery[d].wait]
    /\ UNCHANGED <<endpoint, sessions, emitted, dispatched, posted, received, streak, lost>>

--------------------------------------------------------------------------------
(* deliver_pending *)

SelectDue(w) ==
    /\ batch[w] = {}
    /\ \E S \in Pages(Due \ Locked, BatchLimit) :
          /\ S # {}
          /\ batch' = [batch EXCEPT ![w] = S]
          /\ todo'  = [todo EXCEPT ![w] = S]
          /\ row'   = [row EXCEPT ![w] = [d \in Deliveries |->
                                             IF d \in S THEN delivery[d] ELSE NoRow]]
    /\ UNCHANGED <<endpoint, delivery, view, calls, emitted, dispatched, history>>

\* The 2xx branch of the loop
Succeeded(r, v) == <<[r EXCEPT !.status = "sent"], [v EXCEPT !.failures = 0]>>

Retry(r) == [r EXCEPT !.status = "retrying", !.wait = BackoffSeconds(r.attempts)]

\* Mutants: > for >=; the endpoint's failures for the delivery's attempts; the
\* endpoint disabled for its failures alone; an exhausted row filed as done
Failed_OffByOne(r, v) ==
    <<IF r.attempts > MaxAttempts THEN [r EXCEPT !.status = "dead"] ELSE Retry(r),
      [v EXCEPT !.failures = @ + 1]>>
Failed_EndpointCount(r, v) ==
    <<IF v.failures + 1 >= MaxAttempts THEN [r EXCEPT !.status = "dead"] ELSE Retry(r),
      [v EXCEPT !.failures = @ + 1]>>
Failed_DisablesAlone(r, v) ==
    <<IF r.attempts >= MaxAttempts THEN [r EXCEPT !.status = "dead"] ELSE Retry(r),
      [v EXCEPT !.failures = @ + 1, !.active = IF v.failures + 1 >= DisableAfter THEN FALSE ELSE @]>>
Failed_FiledAsSent(r, v) ==
    <<IF r.attempts >= MaxAttempts THEN [r EXCEPT !.status = "sent"] ELSE Retry(r),
      [v EXCEPT !.failures = @ + 1]>>

\* _schedule_retry_or_deadline
Failed(r, v) ==
    LET failures == v.failures + 1
        exhausted == r.attempts >= MaxAttempts
    IN  << IF exhausted
           THEN [r EXCEPT !.status = "dead"]
           ELSE Retry(r),
           [v EXCEPT !.failures = failures,
                     !.active = IF exhausted /\ failures >= DisableAfter THEN FALSE ELSE @] >>

\* One turn of the loop: whether the endpoint is active is not looked at
PostNext(w, d, o) ==
    /\ d \in todo[w] /\ d[2] \notin BadUrl
    /\ LET e == d[2]
           r == [row[w][d] EXCEPT !.attempts = @ + 1]
           v == Load(w, e)
           result == IF o = "ok" THEN Succeeded(r, v) ELSE Failed(r, v)
       IN  /\ row'    = [row EXCEPT ![w][d] = result[1]]
           /\ view'   = [view EXCEPT ![w][e] = result[2]]
           /\ streak' = [streak EXCEPT ![e] = Streak(o, @)]
    /\ todo'     = [todo EXCEPT ![w] = @ \ {d}]
    /\ posted'   = [posted EXCEPT ![d] = @ + 1]
    /\ received' = [received EXCEPT ![d] = @ + TakenIn(o)]
    /\ UNCHANGED <<endpoint, delivery, batch, calls, emitted, dispatched, waited, lost>>

\* One commit for the whole batch, after its last post
CommitBatch(w) ==
    /\ batch[w] # {} /\ todo[w] = {}
    /\ delivery' = [d \in Deliveries |-> IF d \in batch[w] THEN row[w][d] ELSE delivery[d]]
    /\ endpoint' = Flush(w)
    /\ batch' = [batch EXCEPT ![w] = {}]
    /\ row'   = [row EXCEPT ![w] = EmptyRows]
    /\ view'  = [view EXCEPT ![w] = EmptyView]
    /\ UNCHANGED <<todo, calls, emitted, dispatched, history>>

\* The transaction rolls back: locks and every uncommitted outcome are gone
LoseBatch(w) ==
    /\ lost < MaxLost
    /\ lost'  = lost + 1
    /\ batch' = [batch EXCEPT ![w] = {}]
    /\ todo'  = [todo EXCEPT ![w] = {}]
    /\ row'   = [row EXCEPT ![w] = EmptyRows]
    /\ view'  = [view EXCEPT ![w] = EmptyView]
    /\ UNCHANGED <<endpoint, delivery, calls, emitted, dispatched, posted, received, waited, streak>>

WorkerCrashes(w) == batch[w] # {} /\ LoseBatch(w)

\* http.post raises something other than httpx.HTTPError: the job fails
PostRaises(w) == (\E d \in todo[w] : d[2] \in BadUrl) /\ LoseBatch(w)

--------------------------------------------------------------------------------
(* dispatch_event *)

StartDispatch(p, event) ==
    LET subscriptions == {e \in Endpoints : Delivers(e, event)}
    IN  /\ p \notin Testers /\ dispatched < MaxDispatches
        /\ ~InSession(p) /\ subscriptions # {}
        /\ dispatched' = dispatched + 1
        /\ calls' = [calls EXCEPT ![p] = subscriptions]
        /\ view'  = [view EXCEPT ![p] = [e \in Endpoints |->
                        IF e \in subscriptions THEN Fetch(e) ELSE NotLoaded]]
        /\ UNCHANGED <<endpoint, delivery, batch, todo, row, emitted, history>>

\* _deliver
Notified(v, o) ==
    LET failures == v.failures + 1
    IN  IF o = "ok" THEN [v EXCEPT !.failures = 0]
        ELSE [v EXCEPT !.failures = failures,
                       !.active = IF failures >= DisableAfter THEN FALSE ELSE @]

DispatchPost(p, e, o) ==
    /\ p \notin Testers /\ e \in calls[p] /\ e \notin BadUrl
    /\ view'   = [view EXCEPT ![p][e] = Notified(view[p][e], o)]
    /\ streak' = [streak EXCEPT ![e] = Streak(o, @)]
    /\ calls'  = [calls EXCEPT ![p] = @ \ {e}]
    /\ UNCHANGED <<endpoint, delivery, batch, todo, row,
                   emitted, dispatched, posted, received, waited, lost>>

\* InvalidURL leaves the loop; the callers swallow it and commit later
DispatchRaises(p) ==
    /\ p \notin Testers /\ calls[p] \cap BadUrl # {}
    /\ calls' = [calls EXCEPT ![p] = {}]
    /\ UNCHANGED <<endpoint, delivery, batch, todo, row, view, emitted, dispatched, history>>

\* test_endpoint: reads the row, posts whatever is_active says, and commits
StartTest(p, e) ==
    /\ p \in Testers
    /\ ~InSession(p) /\ endpoint[e].registered
    /\ calls' = [calls EXCEPT ![p] = {e}]
    /\ view'  = [view EXCEPT ![p][e] = Fetch(e)]
    /\ UNCHANGED <<endpoint, delivery, batch, todo, row, emitted, dispatched, history>>

\* Only a 2xx touches the counter of failures
TestPost(p, e, o) ==
    /\ p \in Testers /\ e \in calls[p] /\ e \notin BadUrl
    /\ view'   = [view EXCEPT ![p][e].failures = IF o = "ok" THEN 0 ELSE @]
    /\ streak' = [streak EXCEPT ![e] = Streak(o, @)]
    /\ calls'  = [calls EXCEPT ![p] = {}]
    /\ UNCHANGED <<endpoint, delivery, batch, todo, row,
                   emitted, dispatched, posted, received, waited, lost>>

CommitCall(p) ==
    /\ InSession(p) /\ calls[p] = {}
    /\ endpoint' = Flush(p)
    /\ view' = [view EXCEPT ![p] = EmptyView]
    /\ UNCHANGED <<delivery, batch, todo, row, calls, emitted, dispatched, history>>

\* The caller's session is rolled back (of a test whose URL cannot be parsed, too) or its process dies
CallerCrashes(p) ==
    /\ InSession(p)
    /\ calls' = [calls EXCEPT ![p] = {}]
    /\ view'  = [view EXCEPT ![p] = EmptyView]
    /\ UNCHANGED <<endpoint, delivery, batch, todo, row, emitted, dispatched, history>>

--------------------------------------------------------------------------------
Manage ==
    \E e \in Endpoints :
        \/ \E events \in (SUBSET Events) \ {{}} :
              \/ CreateEndpoint(e, events)
              \/ CreateSubscription(e, events)
              \/ \E active \in BOOLEAN : UpdateEndpoint(e, events, active)
        \/ DeleteEndpoint(e)

Deliver(w) ==
    \/ SelectDue(w)
    \/ \E d \in Deliveries, o \in Outcomes : PostNext(w, d, o)
    \/ CommitBatch(w)

Dispatch(p) ==
    \/ \E event \in Events : StartDispatch(p, event)
    \/ \E e \in Endpoints, o \in Outcomes : DispatchPost(p, e, o)
    \/ DispatchRaises(p)
    \/ \E e \in Endpoints : StartTest(p, e)
    \/ \E e \in Endpoints, o \in Outcomes : TestPost(p, e, o)
    \/ CommitCall(p)
    \/ CallerCrashes(p)

Next ==
    \/ Manage
    \/ \E event \in Events : EmitEvent(event)
    \/ \E d \in Deliveries : BackoffElapses(d)
    \/ \E w \in Workers : Deliver(w) \/ WorkerCrashes(w) \/ PostRaises(w)
    \/ \E p \in Callers : Dispatch(p)

Spec == Init /\ [][Next]_vars

\* The scheduler runs deliver_pending every minute and time passes; nothing
\* obliges consumers, administrators or the pipeline to act.
Fairness ==
    /\ \A w \in Workers : WF_vars(Deliver(w))
    /\ \A d \in Deliveries : WF_vars(BackoffElapses(d))

FairSpec == Spec /\ Fairness

--------------------------------------------------------------------------------
(* Properties *)

\* The type of every variable; a session's copies are blank outside a transaction.
TypeOK ==
    /\ endpoint \in [Endpoints -> EndpointRows]
    /\ delivery \in [Deliveries -> Rows]
    /\ batch \in [Workers -> SUBSET Deliveries]
    /\ todo \in [Workers -> SUBSET Deliveries]
    /\ row \in [Workers -> [Deliveries -> Rows]]
    /\ view \in [Sessions -> [Endpoints -> Views]]
    /\ calls \in [Callers -> SUBSET Endpoints]
    /\ {emitted, dispatched, lost} \subseteq Nat
    /\ posted \in [Deliveries -> Nat]
    /\ received \in [Deliveries -> Nat]
    /\ waited \in [Deliveries -> Nat]
    /\ streak \in [Endpoints -> Nat]

\* No delivery is in the hands of two workers: a row one transaction has locked
\* is skipped by every other (delivery.py: with_for_update(skip_locked=True)).
RowsExclusive ==
    \A v, w \in Workers : v # w => batch[v] \cap batch[w] = {}

\* A delivery recorded as sent was taken in by its consumer, even though the
\* record is committed long after the post and other workers run meanwhile.
SentWasReceived ==
    \A d \in Deliveries : delivery[d].status = "sent" => received[d] >= 1

\* A delivery is given up only when all of its attempts were really posted.
DeadWasExhausted ==
    \A d \in Deliveries :
        delivery[d].status = "dead" =>
            delivery[d].attempts = MaxAttempts /\ posted[d] >= MaxAttempts

\* At-least-once has a price and this is its bound: a consumer is posted to at
\* most MaxAttempts times, plus once for every batch whose commit was lost.
RetryBudget ==
    \A d \in Deliveries : posted[d] <= MaxAttempts + lost

\* A worker's commit disables an endpoint only together with the death of one
\* of that endpoint's deliveries, never for the failures alone.
WorkerDisablesOnDeath ==
    [][\A w \in Workers, e \in Endpoints :
          batch[w] # {} /\ batch'[w] = {} /\ endpoint[e].active /\ ~endpoint'[e].active =>
              \E n \in 1 .. MaxEmits :
                  <<n, e>> \in batch[w] /\ delivery'[<<n, e>>].status = "dead"]_vars

\* A consumer that is down for less than the sum of the backoffs loses nothing:
\* no delivery dies before all the waits between its attempts have passed, however
\* many of its batches were lost on the way.
Backoffs[n \in 0 .. MaxAttempts] ==
    IF n <= 1 THEN 0 ELSE Backoffs[n - 1] + BackoffSeconds(n - 1)

OutageSurvived ==
    \A d \in Deliveries :
        delivery[d].status = "dead" => waited[d] >= Backoffs[MaxAttempts]

\* The queue keeps the promise of WebhookContract.
Phase(d) == IF Queued(d) THEN "queued" ELSE delivery[d].status

Contract == INSTANCE WebhookContract WITH phase <- [d \in Deliveries |-> Phase(d)]

ImplementsContract == Contract!Spec

\* Every queued delivery is sent or given up, as long as only finitely many
\* batches are lost.
EveryDeliverySettles ==
    \A d \in Deliveries : Queued(d) ~> Settled(d)

--------------------------------------------------------------------------------
(* What comments of the code say and the code does not do *)

\* webhooks/__init__.py:12-13: failures retry "8 attempts".
AtMostMaxAttempts ==
    \A d \in Deliveries : posted[d] <= MaxAttempts

\* notify.py:98: "Disabling subscription %s after %d consecutive failures".
DisabledAfterConsecutiveFailures ==
    [][\A p \in Callers, e \in Endpoints :
          view[p][e].active /\ view'[p][e].loaded /\ ~view'[p][e].active
              => streak'[e] >= DisableAfter]_vars
================================================================================
