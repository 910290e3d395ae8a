------------------------- MODULE WebhookDeliveryProofs -------------------------
(* Theorems about WebhookDelivery, for any endpoints, workers and limits *)
EXTENDS WebhookDelivery, TLAPS, WellFoundedInduction, FiniteSetTheorems

Done(w) == batch[w] \ todo[w]

\* A row is given up at MaxAttempts and not before, so a queued one has one left.
AttemptsLeft ==
    \A d \in Deliveries :
        /\ Queued(d) => delivery[d].attempts < MaxAttempts
        /\ delivery[d].status = "none" => delivery[d].attempts = 0
        /\ delivery[d].status = "dead" => delivery[d].attempts = MaxAttempts

\* Rows of emissions still to come do not exist.
FreshRows ==
    \A d \in Deliveries : d[1] > emitted => delivery[d].status = "none"

\* A worker's copy of a row is the committed row until it is posted, and then the
\* committed row after exactly one more attempt.
CopiesFollowRows ==
    \A w \in Workers :
        /\ todo[w] \subseteq batch[w]
        /\ \A d \in batch[w] : Queued(d) /\ delivery[d].wait = 0
        /\ \A d \in todo[w] : row[w][d] = delivery[d]
        /\ \A d \in Done(w) :
              /\ row[w][d].attempts = delivery[d].attempts + 1
              /\ row[w][d].status \in {"retrying", "sent", "dead"}
              /\ row[w][d].status = "retrying" => row[w][d].attempts < MaxAttempts
              /\ row[w][d].status = "dead" => row[w][d].attempts = MaxAttempts
              /\ row[w][d].status = "sent" => received[d] >= 1

\* Every recorded attempt was a post, and every post but the lost ones is recorded,
\* in the committed row or in the copy of the one worker that holds it.
PostsAccounted ==
    /\ \A d \in Deliveries :
          /\ delivery[d].attempts <= posted[d]
          /\ posted[d] <= delivery[d].attempts + lost + 1
          /\ (\A w \in Workers : d \notin Done(w)) => posted[d] <= delivery[d].attempts + lost
    /\ \A w \in Workers : \A d \in Done(w) : row[w][d].attempts <= posted[d]

IInv ==
    /\ TypeOK
    /\ RowsExclusive
    /\ AttemptsLeft
    /\ FreshRows
    /\ CopiesFollowRows
    /\ PostsAccounted
    /\ SentWasReceived

--------------------------------------------------------------------------------
(* What the helpers return *)

LEMMA NatFacts ==
    /\ MaxAttempts \in Nat \ {0} /\ DisableAfter \in Nat \ {0}
    /\ MaxEmits \in Nat /\ MaxLost \in Nat
    /\ Workers \cap Callers = {}
BY ParametersAssumption DEF ParametersAssumption

\* A copy of an endpoint row, old or new, is a view of one.
LEMMA LoadType ==
    ASSUME TypeOK, NEW s \in Sessions, NEW e \in Endpoints
    PROVE  Load(s, e) \in Views
BY DEF TypeOK, Load, Fetch, Views, EndpointRows

\* A commit writes well-formed endpoint rows.
LEMMA FlushType ==
    ASSUME TypeOK, NEW s \in Sessions
    PROVE  Flush(s) \in [Endpoints -> EndpointRows]
<1> SUFFICES ASSUME NEW e \in Endpoints
             PROVE  Flush(s)[e] \in EndpointRows
  BY DEF Flush
<1>1. view[s][e] \in Views /\ endpoint[e] \in EndpointRows
  BY DEF TypeOK
<1> QED BY <1>1 DEF Flush, Views, EndpointRows

\* The two branches of the loop's turn, for a row with an attempt just counted.
LEMMA ResultType ==
    ASSUME NEW r \in Rows, r.attempts \in 1 .. MaxAttempts, NEW v \in Views
    PROVE  /\ Succeeded(r, v)[1] = [r EXCEPT !.status = "sent"]
           /\ Succeeded(r, v)[1] \in Rows /\ Succeeded(r, v)[2] \in Views
           /\ Failed(r, v)[1] \in Rows /\ Failed(r, v)[2] \in Views
           /\ Failed(r, v)[1].attempts = r.attempts
           /\ \/ Failed(r, v)[1].status = "dead" /\ r.attempts = MaxAttempts
              \/ Failed(r, v)[1].status = "retrying" /\ r.attempts < MaxAttempts
<1>1. BackoffSeconds(r.attempts) \in Waits
  BY DEF Waits
<1>2. Retry(r) \in Rows /\ Retry(r).attempts = r.attempts /\ Retry(r).status = "retrying"
  BY <1>1 DEF Retry, Rows, Statuses
<1>3. [r EXCEPT !.status = "dead"] \in Rows /\ [r EXCEPT !.status = "sent"] \in Rows
  BY DEF Rows, Statuses
<1>4. Succeeded(r, v)[2] \in Views /\ Failed(r, v)[2] \in Views
  <2> DEFINE ok  == [v EXCEPT !.failures = 0]
             off == r.attempts >= MaxAttempts /\ v.failures + 1 >= DisableAfter
             act == IF off THEN FALSE ELSE v.active
             n   == v.failures + 1
             bad == [v EXCEPT !.failures = n, !.active = act]
  <2>1. ok \in Views /\ bad \in Views
    <3>1. act \in BOOLEAN
      BY DEF Views
    <3>2. n \in Nat
      BY DEF Views
    <3> HIDE DEF act, n
    <3> QED BY <3>1, <3>2 DEF Views
  <2>2. Succeeded(r, v)[2] = ok
    BY DEF Succeeded
  <2>3. Failed(r, v)[2] = bad
    BY DEF Failed
  <2> QED BY <2>1, <2>2, <2>3
<1>5. Succeeded(r, v)[1] = [r EXCEPT !.status = "sent"]
  BY DEF Succeeded
<1>6. Failed(r, v)[1] = IF r.attempts >= MaxAttempts THEN [r EXCEPT !.status = "dead"]
                        ELSE Retry(r)
  BY DEF Failed
<1> QED BY <1>2, <1>3, <1>4, <1>5, <1>6, NatFacts DEF Rows

--------------------------------------------------------------------------------
(* The backoffs *)

\* Every set of numbers has a least one, and so induction holds for a set of them.
LEMMA LeastOf ==
    ASSUME NEW T \in SUBSET Nat, T # {}
    PROVE  \E x \in T : \A y \in T : x <= y
<1> DEFINE R == OpToRel(<, Nat)
<1>1. IsWellFoundedOn(R, Nat)
  BY NatLessThanWellFounded
<1>2. R = {ss \in Nat \X Nat : ss[1] < ss[2]}
  BY DEF OpToRel
<1> HIDE DEF R
<1>3. PICK x \in T : \A y \in T : ~ (<<y, x>> \in R)
  BY <1>1, WFMin
<1>4. \A y \in T : ~(y < x)
  BY <1>2, <1>3
<1> QED BY <1>4

LEMMA Inductive ==
    ASSUME NEW T, 0 \in T, \A n \in Nat : n \in T => n + 1 \in T
    PROVE  Nat \subseteq T
<1> DEFINE U == Nat \ T
<1> SUFFICES ASSUME U # {} PROVE FALSE
  OBVIOUS
<1>1. PICK x \in U : \A y \in U : x <= y
  BY LeastOf
<1>2. x # 0 /\ x - 1 \in Nat
  BY <1>1
<1>3. x - 1 \notin U
  BY <1>1, <1>2
<1> QED BY <1>1, <1>2, <1>3

\* 2 ^ n is the number of subsets of 1 .. n.
LEMMA SecondsType == \A n \in Nat : BackoffSeconds(n) \in Nat
<1> SUFFICES ASSUME NEW n \in Nat PROVE BackoffSeconds(n) \in Nat
  OBVIOUS
<1>1. IsFiniteSet(1 .. n) /\ Cardinality(1 .. n) = n
  BY FS_Interval
<1>2. IsFiniteSet(SUBSET (1 .. n)) /\ Cardinality(SUBSET (1 .. n)) = 2 ^ n
  BY <1>1, FS_SUBSET
<1>3. 2 ^ n \in Nat
  BY <1>2, FS_CardinalityType
<1> DEFINE p == 2 ^ n
<1>4. BackoffSeconds(n) = IF 15 * p < 300 THEN 15 * p ELSE 300
  BY DEF BackoffSeconds
<1> HIDE DEF p
<1> QED BY <1>3, <1>4 DEF p

LEMMA WaitsType == Waits \subseteq Nat
BY SecondsType DEF Waits

\* The sum of the backoffs is what its definition says, and a number.
Sums(m) == {f \in [0 .. m -> Nat] :
                \A n \in 0 .. m : f[n] = IF n <= 1 THEN 0 ELSE f[n - 1] + BackoffSeconds(n - 1)}

LEMMA BackoffsDefined == Backoffs \in Sums(MaxAttempts)
<1> DEFINE T == {m \in Nat : Sums(m) # {}}
<1>1. 0 \in T
  <2>1. [n \in 0 .. 0 |-> 0] \in Sums(0)
    BY DEF Sums
  <2> QED BY <2>1
<1>2. ASSUME NEW m \in Nat, m \in T PROVE m + 1 \in T
  <2>1. PICK f : f \in Sums(m)
    BY <1>2
  <2> DEFINE v == IF m + 1 <= 1 THEN 0 ELSE f[m] + BackoffSeconds(m)
             g == [n \in 0 .. m + 1 |-> IF n = m + 1 THEN v ELSE f[n]]
  <2>2. v \in Nat
    BY <2>1, SecondsType DEF Sums
  <2> HIDE DEF v
  <2>3. g \in [0 .. m + 1 -> Nat]
    BY <2>1, <2>2 DEF Sums
  <2>4. ASSUME NEW n \in 0 .. m + 1
        PROVE  g[n] = IF n <= 1 THEN 0 ELSE g[n - 1] + BackoffSeconds(n - 1)
    <3>1. CASE n = m + 1
      <4>1. g[n] = v
        BY <3>1
      <4>2. CASE m = 0
        BY <3>1, <4>1, <4>2 DEF v
      <4>3. CASE m # 0
        <5>1. g[n - 1] = f[m] /\ n - 1 = m /\ ~(n <= 1) /\ ~(m + 1 <= 1)
          BY <3>1, <4>3
        <5> QED BY <4>1, <5>1 DEF v
      <4> QED BY <4>2, <4>3
    <3>2. CASE n # m + 1
      <4>1. n \in 0 .. m /\ g[n] = f[n]
        BY <3>2
      <4>2. f[n] = IF n <= 1 THEN 0 ELSE f[n - 1] + BackoffSeconds(n - 1)
        BY <2>1, <4>1 DEF Sums
      <4>3. ~(n <= 1) => g[n - 1] = f[n - 1]
        BY <4>1
      <4> QED BY <4>1, <4>2, <4>3
    <3> QED BY <3>1, <3>2
  <2>5. g \in Sums(m + 1)
    BY <2>3, <2>4 DEF Sums
  <2> QED BY <2>5
<1>3. Nat \subseteq T
  <2> HIDE DEF T
  <2> QED BY <1>1, <1>2, Inductive
<1>4. PICK f : f \in Sums(MaxAttempts)
  BY <1>3, NatFacts
<1>5. f = [n \in 0 .. MaxAttempts |-> IF n <= 1 THEN 0 ELSE f[n - 1] + BackoffSeconds(n - 1)]
  BY <1>4 DEF Sums
<1>6. Backoffs = [n \in 0 .. MaxAttempts |->
                      IF n <= 1 THEN 0 ELSE Backoffs[n - 1] + BackoffSeconds(n - 1)]
  BY <1>5 DEF Backoffs
<1> DEFINE S == {n \in Nat : n \in 0 .. MaxAttempts => Backoffs[n] \in Nat}
<1>7. 0 \in S
  BY <1>6, NatFacts
<1>8. ASSUME NEW n \in Nat, n \in S PROVE n + 1 \in S
  <2> SUFFICES ASSUME n + 1 \in 0 .. MaxAttempts PROVE Backoffs[n + 1] \in Nat
    OBVIOUS
  <2> DEFINE k == n + 1
  <2>1. Backoffs[k] = IF k <= 1 THEN 0 ELSE Backoffs[n] + BackoffSeconds(n)
    <3>1. k \in 0 .. MaxAttempts /\ k - 1 = n
      OBVIOUS
    <3> HIDE DEF k
    <3>2. Backoffs[k] = IF k <= 1 THEN 0 ELSE Backoffs[k - 1] + BackoffSeconds(k - 1)
      BY <1>6, <3>1
    <3> QED BY <3>1, <3>2
  <2>2. Backoffs[n] \in Nat /\ BackoffSeconds(n) \in Nat
    BY <1>8, NatFacts, SecondsType
  <2> QED BY <2>1, <2>2
<1>9. Nat \subseteq S
  <2> HIDE DEF S
  <2> QED BY <1>7, <1>8, Inductive
<1>10. Backoffs \in [0 .. MaxAttempts -> Nat]
  BY <1>6, <1>9
<1> QED BY <1>6, <1>10 DEF Sums
--------------------------------------------------------------------------------
(* The invariant is inductive *)

LEMMA InitIInv == Init => IInv
<1> SUFFICES ASSUME Init PROVE IInv
  OBVIOUS
<1> USE NatFacts
<1>1. NoRow \in Rows /\ NotLoaded \in Views
  BY DEF NoRow, Rows, Statuses, Waits, NotLoaded, Views
<1>2. TypeOK
  BY <1>1 DEF Init, TypeOK, EmptyRows, EmptyView, EndpointRows
<1>3. RowsExclusive /\ CopiesFollowRows
  BY DEF Init, RowsExclusive, CopiesFollowRows, Done
<1>4. AttemptsLeft /\ FreshRows /\ SentWasReceived /\ PostsAccounted
  BY DEF Init, AttemptsLeft, FreshRows, SentWasReceived, PostsAccounted, EmptyRows, NoRow,
         Queued, Done
<1> QED BY <1>2, <1>3, <1>4 DEF IInv

\* A step that leaves the queue alone has only types to answer for.
LEMMA QueueUntouched ==
    ASSUME IInv, TypeOK',
           UNCHANGED <<delivery, batch, todo, row, emitted, posted, received, lost>>
    PROVE  IInv'
BY DEF IInv, RowsExclusive, AttemptsLeft, FreshRows, CopiesFollowRows, PostsAccounted,
       SentWasReceived, Queued, Done

LEMMA StreakType ==
    ASSUME NEW o \in Outcomes, NEW n \in Nat
    PROVE  Streak(o, n) \in Nat
BY DEF Streak

LEMMA ManageIInv == IInv /\ Manage => IInv'
<1> SUFFICES ASSUME IInv, Manage PROVE TypeOK'
  BY QueueUntouched DEF Manage, CreateEndpoint, CreateSubscription, UpdateEndpoint,
     DeleteEndpoint, sessions, history
<1> USE DEF IInv, TypeOK, history, sessions
<1>1. ASSUME NEW e \in Endpoints, NEW events \in (SUBSET Events) \ {{}}, Insert(e, events),
             UNCHANGED <<delivery, sessions, emitted, dispatched, history>>
      PROVE  TypeOK'
  BY <1>1 DEF Insert, EndpointRows
<1>2. ASSUME NEW e \in Endpoints, NEW events \in (SUBSET Events) \ {{}}, NEW active \in BOOLEAN,
             UpdateEndpoint(e, events, active)
      PROVE  TypeOK'
  <2>1. [endpoint[e] EXCEPT !.events = events, !.active = active] \in EndpointRows
    <3>1. endpoint[e] \in EndpointRows
      OBVIOUS
    <3>2. CASE active = TRUE
      BY <3>1, <3>2 DEF EndpointRows
    <3>3. CASE active = FALSE
      BY <3>1, <3>3 DEF EndpointRows
    <3> QED BY <3>2, <3>3
  <2>2. endpoint' = [endpoint EXCEPT ![e] = [@ EXCEPT !.events = events, !.active = active]]
    BY <1>2 DEF UpdateEndpoint
  <2>3. endpoint' \in [Endpoints -> EndpointRows]
    BY <2>1, <2>2
  <2> QED BY <1>2, <2>3 DEF UpdateEndpoint
<1>3. ASSUME NEW e \in Endpoints, DeleteEndpoint(e)
      PROVE  TypeOK'
  BY <1>3 DEF DeleteEndpoint, EndpointRows
<1>5. ASSUME NEW e \in Endpoints, NEW events \in (SUBSET Events) \ {{}},
             CreateEndpoint(e, events) \/ CreateSubscription(e, events)
      PROVE  TypeOK'
  BY <1>1, <1>5 DEF CreateEndpoint, CreateSubscription
<1> HIDE DEF TypeOK, IInv
<1> QED BY <1>2, <1>3, <1>5 DEF Manage

LEMMA NotifiedType ==
    ASSUME NEW v \in Views, NEW o \in Outcomes
    PROVE  Notified(v, o) \in Views
<1> DEFINE n   == v.failures + 1
           act == IF n >= DisableAfter THEN FALSE ELSE v.active
<1>1. act \in BOOLEAN
  BY DEF Views
<1>2. n \in Nat
  BY DEF Views
<1>3. [v EXCEPT !.failures = n, !.active = act] \in Views
  <2> HIDE DEF act, n
  <2> QED BY <1>1, <1>2 DEF Views
<1>4. [v EXCEPT !.failures = 0] \in Views
  BY DEF Views
<1> QED BY <1>3, <1>4 DEF Notified

LEMMA DispatchIInv ==
    ASSUME IInv, NEW p \in Callers, Dispatch(p)
    PROVE  IInv'
<1> SUFFICES TypeOK'
  BY QueueUntouched DEF Dispatch, StartDispatch, DispatchPost, DispatchRaises, StartTest,
     TestPost, CommitCall, CallerCrashes, history
<1> USE DEF IInv, TypeOK, history, sessions, Sessions
<1>1. NotLoaded \in Views /\ EmptyView \in [Endpoints -> Views]
  BY DEF NotLoaded, Views, EmptyView
<1>2. ASSUME NEW event \in Events, StartDispatch(p, event)
      PROVE  TypeOK'
  <2>1. \A e \in Endpoints : Fetch(e) \in Views
    BY DEF Fetch, Views, EndpointRows
  <2> QED BY <1>1, <1>2, <2>1 DEF StartDispatch, Delivers
<1>3. ASSUME NEW e \in Endpoints, NEW o \in Outcomes, DispatchPost(p, e, o)
      PROVE  TypeOK'
  <2>1. streak' \in [Endpoints -> Nat]
    BY <1>3, StreakType DEF DispatchPost
  <2>2. view' \in [Sessions -> [Endpoints -> Views]]
    BY <1>3, NotifiedType DEF DispatchPost
  <2> QED BY <1>3, <2>1, <2>2 DEF DispatchPost
<1>4. ASSUME DispatchRaises(p) PROVE TypeOK'
  BY <1>4 DEF DispatchRaises
<1>5. ASSUME CommitCall(p) PROVE TypeOK'
  BY <1>1, <1>5, FlushType DEF CommitCall
<1>6. ASSUME CallerCrashes(p) PROVE TypeOK'
  BY <1>1, <1>6 DEF CallerCrashes
<1>7. ASSUME NEW e \in Endpoints, StartTest(p, e) PROVE TypeOK'
  <2>1. Fetch(e) \in Views
    BY DEF Fetch, Views, EndpointRows
  <2>2. PICK v \in Views : v = Fetch(e)
    BY <2>1
  <2>3. view' = [view EXCEPT ![p][e] = v] /\ calls' = [calls EXCEPT ![p] = {e}]
    BY <1>7, <2>2 DEF StartTest
  <2>4. view' \in [Sessions -> [Endpoints -> Views]]
    BY <2>3
  <2>5. calls' \in [Callers -> SUBSET Endpoints]
    BY <2>3
  <2> QED BY <1>7, <2>4, <2>5 DEF StartTest
<1>8. ASSUME NEW e \in Endpoints, NEW o \in Outcomes, TestPost(p, e, o)
      PROVE  TypeOK'
  <2>1. streak' \in [Endpoints -> Nat]
    BY <1>8, StreakType DEF TestPost
  <2>2. \A v \in Views, n \in Nat : [v EXCEPT !.failures = n] \in Views
    BY DEF Views
  <2>3. view' \in [Sessions -> [Endpoints -> Views]]
    <3>1. view[p][e] \in Views /\ view[p][e].failures \in Nat
      <4>1. \A v \in Views : v.failures \in Nat
        BY DEF Views
      <4>2. view[p][e] \in Views
        OBVIOUS
      <4> QED BY <4>1, <4>2
    <3>2. PICK n \in Nat : n = IF o = "ok" THEN 0 ELSE view[p][e].failures
      BY <3>1
    <3>3. view' = [view EXCEPT ![p][e] = [view[p][e] EXCEPT !.failures = n]]
      BY <1>8, <3>2 DEF TestPost
    <3>4. [view[p][e] EXCEPT !.failures = n] \in Views
      BY <2>2, <3>1, <3>2
    <3> QED BY <3>3, <3>4
  <2> QED BY <1>8, <2>1, <2>3 DEF TestPost
<1> QED BY <1>2, <1>3, <1>4, <1>5, <1>6, <1>7, <1>8 DEF Dispatch

\* Copies stay in step as long as the rows that workers hold are left alone.
LEMMA HeldRowsUntouched ==
    ASSUME TypeOK, CopiesFollowRows, UNCHANGED <<batch, todo, row, received>>,
           \A w \in Workers : \A d \in batch[w] : delivery'[d] = delivery[d]
    PROVE  CopiesFollowRows'
<1> SUFFICES ASSUME NEW w \in Workers
             PROVE  /\ todo[w] \subseteq batch[w]
                    /\ \A d \in batch[w] : /\ delivery'[d].status \in {"pending", "retrying"}
                                          /\ delivery'[d].wait = 0
                    /\ \A d \in todo[w] : row[w][d] = delivery'[d]
                    /\ \A d \in Done(w) :
                          /\ row[w][d].attempts = delivery'[d].attempts + 1
                          /\ row[w][d].status \in {"retrying", "sent", "dead"}
                          /\ row[w][d].status = "retrying" => row[w][d].attempts < MaxAttempts
                          /\ row[w][d].status = "dead" => row[w][d].attempts = MaxAttempts
                          /\ row[w][d].status = "sent" => received[d] >= 1
  BY DEF CopiesFollowRows, Queued, Done
<1>1. todo[w] \subseteq batch[w] /\ Done(w) \subseteq batch[w]
  BY DEF CopiesFollowRows, Done
<1> QED BY <1>1 DEF CopiesFollowRows, Queued

LEMMA EmitIInv ==
    ASSUME IInv, NEW event \in Events, EmitEvent(event)
    PROVE  IInv'
<1> USE NatFacts DEF EmitEvent, history, sessions
<1>1. PICK S : delivery' = [d \in Deliveries |->
                   IF d[1] = emitted + 1 /\ d[2] \in S THEN NewRow ELSE delivery[d]]
  OBVIOUS
<1>2. \A d \in Deliveries :
         delivery'[d] = delivery[d] \/ (d[1] > emitted /\ d[1] <= emitted + 1 /\ delivery'[d] = NewRow)
  BY <1>1 DEF IInv, TypeOK
<1>3. \A d \in Deliveries :
         delivery'[d] # delivery[d] =>
             delivery[d].status = "none" /\ delivery[d].attempts = 0
  BY <1>2 DEF IInv, FreshRows, AttemptsLeft
<1>4. TypeOK'
  <2>1. NewRow \in Rows
    BY DEF NewRow, Rows, Statuses, Waits
  <2> QED BY <1>1, <2>1 DEF IInv, TypeOK
<1>5. AttemptsLeft'
  BY <1>2 DEF IInv, AttemptsLeft, NewRow, Queued
<1>6. FreshRows'
  <2> SUFFICES ASSUME NEW d \in Deliveries, d[1] > emitted + 1
               PROVE  delivery'[d].status = "none"
    BY DEF FreshRows
  <2>1. d[1] \in Nat /\ emitted \in Nat
    BY DEF IInv, TypeOK, Deliveries
  <2> QED BY <1>2, <2>1 DEF IInv, FreshRows
<1>7. \A w \in Workers : \A d \in batch[w] : delivery'[d] = delivery[d]
  BY <1>3 DEF IInv, CopiesFollowRows, Queued, TypeOK
<1>8. CopiesFollowRows'
  BY <1>7, HeldRowsUntouched DEF IInv
<1>9. PostsAccounted'
  <2>1. \A d \in Deliveries : delivery'[d].attempts = delivery[d].attempts
    BY <1>2, <1>3 DEF NewRow
  <2> QED BY <2>1 DEF IInv, PostsAccounted, Done
<1>10. SentWasReceived'
  BY <1>2 DEF IInv, SentWasReceived, NewRow
<1> QED BY <1>4, <1>5, <1>6, <1>8, <1>9, <1>10 DEF IInv, RowsExclusive

\* Time passes for rows no worker holds: a held row is due already.
LEMMA BackoffIInv ==
    ASSUME IInv, NEW d \in Deliveries, BackoffElapses(d)
    PROVE  IInv'
<1> USE DEF BackoffElapses, history, sessions
<1>1. 0 \in Waits
  BY DEF Waits
<1>2. TypeOK'
  <2>1. delivery[d].wait \in Nat /\ waited[d] \in Nat
    BY WaitsType DEF IInv, TypeOK, Rows
  <2>2. waited' \in [Deliveries -> Nat]
    BY <2>1 DEF IInv, TypeOK
  <2>3. delivery' \in [Deliveries -> Rows]
    BY <1>1 DEF IInv, TypeOK, Rows
  <2> QED BY <2>2, <2>3 DEF IInv, TypeOK
<1>3. \A x \in Deliveries : /\ delivery'[x].status = delivery[x].status
                            /\ delivery'[x].attempts = delivery[x].attempts
  BY DEF IInv, TypeOK, Rows
<1>4. \A w \in Workers : \A x \in batch[w] : delivery'[x] = delivery[x]
  BY DEF IInv, CopiesFollowRows, TypeOK
<1>5. CopiesFollowRows'
  BY <1>4, HeldRowsUntouched DEF IInv
<1> QED BY <1>2, <1>3, <1>5 DEF IInv, RowsExclusive, AttemptsLeft, FreshRows,
           PostsAccounted, SentWasReceived, Queued, Done

\* The new batch takes only rows no one holds, and copies them as they stand.
LEMMA SelectIInv ==
    ASSUME IInv, NEW w \in Workers, SelectDue(w)
    PROVE  IInv'
<1> USE NatFacts DEF history, sessions
<1>1. PICK S \in SUBSET (Due \ Locked) :
         /\ batch' = [batch EXCEPT ![w] = S]
         /\ todo'  = [todo EXCEPT ![w] = S]
         /\ row'   = [row EXCEPT ![w] = [d \in Deliveries |-> IF d \in S THEN delivery[d] ELSE NoRow]]
  BY DEF SelectDue, Pages
<1>2. S \subseteq Deliveries /\ \A d \in S : Queued(d) /\ delivery[d].wait = 0
  BY DEF Due
<1>3. \A x \in Workers : S \cap batch[x] = {}
  BY DEF Locked
<1>4. TypeOK'
  <2>1. NoRow \in Rows
    BY DEF NoRow, Rows, Statuses, Waits
  <2> QED BY <1>1, <1>2, <2>1 DEF SelectDue, IInv, TypeOK
<1>5. RowsExclusive'
  <2>1. \A x \in Workers : batch'[x] = IF x = w THEN S ELSE batch[x]
    BY <1>1 DEF IInv, TypeOK
  <2> QED BY <1>3, <2>1 DEF IInv, RowsExclusive
<1>6. \A x \in Workers : x # w => batch'[x] = batch[x] /\ todo'[x] = todo[x] /\ row'[x] = row[x]
  BY <1>1 DEF IInv, TypeOK
<1>7. /\ batch'[w] = S /\ todo'[w] = S /\ Done(w)' = {}
      /\ \A d \in S : row'[w][d] = delivery[d]
  BY <1>1, <1>2 DEF IInv, TypeOK, Done
<1>8. UNCHANGED <<delivery, emitted, posted, received, lost>>
  BY DEF SelectDue
<1>9. CopiesFollowRows'
  BY <1>2, <1>6, <1>7, <1>8 DEF IInv, CopiesFollowRows, Queued, Done
<1>10. PostsAccounted'
  <2>1. Done(w) = {}
    BY DEF SelectDue, Done
  <2>2. \A x \in Workers : Done(x)' = Done(x)
    BY <1>6, <1>7, <2>1 DEF Done
  <2>3. \A x \in Workers : \A d \in Done(x) : row'[x][d] = row[x][d]
    BY <1>6, <2>1
  <2> QED BY <1>8, <2>2, <2>3 DEF IInv, PostsAccounted
<1> QED BY <1>4, <1>5, <1>8, <1>9, <1>10 DEF IInv, AttemptsLeft, FreshRows, SentWasReceived, Queued

\* A lost batch forgets at most one post of each delivery.
LEMMA LoseIInv ==
    ASSUME IInv, NEW w \in Workers, LoseBatch(w)
    PROVE  IInv'
<1> USE NatFacts DEF LoseBatch, history, sessions
<1>1. TypeOK'
  <2>1. NoRow \in Rows /\ NotLoaded \in Views
    BY DEF NoRow, Rows, Statuses, Waits, NotLoaded, Views
  <2> QED BY <2>1 DEF IInv, TypeOK, EmptyRows, EmptyView, Sessions
<1>2. batch'[w] = {} /\ todo'[w] = {} /\ Done(w)' = {}
  BY DEF IInv, TypeOK, Done
<1>3. \A x \in Workers : x # w =>
          batch'[x] = batch[x] /\ todo'[x] = todo[x] /\ row'[x] = row[x] /\ Done(x)' = Done(x)
  BY DEF IInv, TypeOK, Done
<1>4. RowsExclusive'
  BY <1>2, <1>3 DEF IInv, RowsExclusive
<1>5. CopiesFollowRows'
  BY <1>2, <1>3 DEF IInv, CopiesFollowRows, Queued, Done
<1>6. PostsAccounted'
  <2>1. \A d \in Deliveries : posted[d] <= delivery[d].attempts + lost + 1
    BY DEF IInv, PostsAccounted
  <2>2. \A d \in Deliveries : delivery[d].attempts \in Nat /\ lost \in Nat /\ posted[d] \in Nat
    BY DEF IInv, TypeOK, Rows
  <2> QED BY <1>2, <1>3, <2>1, <2>2 DEF IInv, PostsAccounted
<1> QED BY <1>1, <1>4, <1>5, <1>6 DEF IInv, AttemptsLeft, FreshRows, SentWasReceived, Queued

\* One turn of the loop changes the worker's own copies, the counts of one delivery,
\* and nothing committed.
LEMMA PostIInv ==
    ASSUME IInv, NEW w \in Workers, NEW d \in Deliveries, NEW o \in Outcomes, PostNext(w, d, o)
    PROVE  IInv'
<1> USE NatFacts DEF history, sessions
<1> DEFINE r == [row[w][d] EXCEPT !.attempts = @ + 1]
           v == Load(w, d[2])
           result == IF o = "ok" THEN Succeeded(r, v) ELSE Failed(r, v)
<1>1. /\ d \in todo[w] /\ d \in batch[w] /\ row[w][d] = delivery[d]
      /\ delivery[d] \in Rows /\ delivery[d].attempts < MaxAttempts
  BY DEF PostNext, IInv, TypeOK, CopiesFollowRows, AttemptsLeft
<1>2. r \in Rows /\ r.attempts \in 1 .. MaxAttempts /\ r.attempts = delivery[d].attempts + 1
  BY <1>1 DEF Rows
<1>3. d[2] \in Endpoints /\ v \in Views
  BY LoadType DEF Deliveries, IInv, Sessions
<1>4. /\ result[1] \in Rows /\ result[2] \in Views
      /\ result[1].attempts = delivery[d].attempts + 1
      /\ \/ o = "ok" /\ result[1].status = "sent"
         \/ result[1].status = "dead" /\ result[1].attempts = MaxAttempts
         \/ result[1].status = "retrying" /\ result[1].attempts < MaxAttempts
  <2> HIDE DEF r, v
  <2>1. CASE o = "ok"
    <3>1. result = Succeeded(r, v)
      BY <2>1
    <3>2. [r EXCEPT !.status = "sent"].attempts = r.attempts /\ [r EXCEPT !.status = "sent"].status = "sent"
      BY <1>2 DEF Rows
    <3> QED BY <1>2, <1>3, <2>1, <3>1, <3>2, ResultType
  <2>2. CASE o # "ok"
    BY <1>2, <1>3, <2>2, ResultType
  <2> QED BY <2>1, <2>2
<1>5. /\ row' = [row EXCEPT ![w][d] = result[1]]
      /\ view' = [view EXCEPT ![w][d[2]] = result[2]]
      /\ streak' = [streak EXCEPT ![d[2]] = Streak(o, streak[d[2]])]
      /\ todo' = [todo EXCEPT ![w] = @ \ {d}]
      /\ posted' = [posted EXCEPT ![d] = @ + 1]
      /\ received' = [received EXCEPT ![d] = @ + TakenIn(o)]
      /\ UNCHANGED <<endpoint, delivery, batch, calls, emitted, dispatched, waited, lost>>
  BY DEF PostNext
<1> HIDE DEF result
<1>6. TakenIn(o) \in Nat /\ (o = "ok" => TakenIn(o) = 1)
  BY DEF TakenIn
<1>7. TypeOK'
  <2>1. streak' \in [Endpoints -> Nat]
    BY <1>3, <1>5, StreakType DEF IInv, TypeOK
  <2>2. received' \in [Deliveries -> Nat] /\ posted' \in [Deliveries -> Nat]
    BY <1>5, <1>6 DEF IInv, TypeOK
  <2>3. view' \in [Sessions -> [Endpoints -> Views]]
    BY <1>3, <1>4, <1>5 DEF IInv, TypeOK, Sessions
  <2>4. row' \in [Workers -> [Deliveries -> Rows]]
    BY <1>4, <1>5 DEF IInv, TypeOK
  <2> QED BY <1>5, <2>1, <2>2, <2>3, <2>4 DEF IInv, TypeOK
<1>8. /\ todo'[w] = todo[w] \ {d} /\ Done(w)' = Done(w) \cup {d}
      /\ \A x \in Workers : x # w => todo'[x] = todo[x] /\ row'[x] = row[x] /\ Done(x)' = Done(x)
      /\ row'[w][d] = result[1]
      /\ \A x \in Deliveries : x # d => row'[w][x] = row[w][x]
  BY <1>1, <1>5 DEF IInv, TypeOK, Done
<1>9. /\ posted'[d] = posted[d] + 1
      /\ received'[d] = received[d] + TakenIn(o)
      /\ \A x \in Deliveries : x # d => posted'[x] = posted[x] /\ received'[x] = received[x]
  BY <1>5 DEF IInv, TypeOK
<1>10. \A x \in Deliveries : posted[x] \in Nat /\ received[x] \in Nat /\ lost \in Nat
                             /\ delivery[x].attempts \in Nat
  BY DEF IInv, TypeOK, Rows
<1>11. \A x \in Workers : x # w => d \notin batch[x]
  BY <1>1 DEF IInv, RowsExclusive
<1>12. \A x \in Workers : batch[x] \subseteq Deliveries /\ Done(x) \subseteq batch[x]
  BY DEF IInv, TypeOK, Done
<1>13. CopiesFollowRows'
  <2>1. \A x \in Workers : todo'[x] \subseteq batch'[x]
    BY <1>5, <1>8 DEF IInv, CopiesFollowRows
  <2>2. \A x \in Workers : \A y \in batch'[x] : Queued(y)' /\ delivery'[y].wait = 0
    BY <1>5 DEF IInv, CopiesFollowRows, Queued
  <2>3. \A x \in Workers : \A y \in todo'[x] : row'[x][y] = delivery'[y]
    BY <1>5, <1>8, <2>1, <1>12 DEF IInv, CopiesFollowRows
  <2>4. ASSUME NEW x \in Workers, NEW y \in Done(x)'
        PROVE  /\ row'[x][y].attempts = delivery'[y].attempts + 1
               /\ row'[x][y].status \in {"retrying", "sent", "dead"}
               /\ row'[x][y].status = "retrying" => row'[x][y].attempts < MaxAttempts
               /\ row'[x][y].status = "dead" => row'[x][y].attempts = MaxAttempts
               /\ row'[x][y].status = "sent" => received'[y] >= 1
    <3>1. CASE x = w /\ y = d
      BY <1>4, <1>5, <1>6, <1>8, <1>9, <1>10, <3>1
    <3>2. CASE ~(x = w /\ y = d)
      <4>1. y \in Done(x) /\ row'[x][y] = row[x][y] /\ y # d
        BY <1>8, <1>11, <1>12, <3>2
      <4> QED BY <1>5, <1>9, <1>12, <4>1 DEF IInv, CopiesFollowRows
    <3> QED BY <3>1, <3>2
  <2> QED BY <2>1, <2>2, <2>3, <2>4 DEF CopiesFollowRows
<1>14. PostsAccounted'
  <2>1. \A x \in Workers : d \notin Done(x)
    BY <1>1, <1>11, <1>12 DEF Done
  <2>2. posted[d] <= delivery[d].attempts + lost /\ delivery[d].attempts <= posted[d]
    BY <2>1 DEF IInv, PostsAccounted
  <2>3. \A y \in Deliveries :
          /\ delivery'[y].attempts <= posted'[y]
          /\ posted'[y] <= delivery'[y].attempts + lost' + 1
          /\ (\A x \in Workers : y \notin Done(x)') => posted'[y] <= delivery'[y].attempts + lost'
    BY <1>5, <1>8, <1>9, <1>10, <2>2 DEF IInv, PostsAccounted
  <2>4. ASSUME NEW x \in Workers, NEW y \in Done(x)'
        PROVE  row'[x][y].attempts <= posted'[y]
    <3>1. CASE x = w /\ y = d
      BY <1>4, <1>8, <1>9, <1>10, <2>2, <3>1
    <3>2. CASE ~(x = w /\ y = d)
      <4>1. y \in Done(x) /\ row'[x][y] = row[x][y] /\ y # d
        BY <1>8, <1>11, <1>12, <3>2
      <4> QED BY <1>9, <1>12, <4>1 DEF IInv, PostsAccounted
    <3> QED BY <3>1, <3>2
  <2> QED BY <2>3, <2>4 DEF PostsAccounted
<1>15. SentWasReceived'
  BY <1>5, <1>6, <1>9, <1>10 DEF IInv, SentWasReceived
<1> QED BY <1>5, <1>7, <1>13, <1>14, <1>15 DEF IInv, RowsExclusive, AttemptsLeft, FreshRows, Queued

\* The commit turns the worker's copies into the rows; all of them were posted.
LEMMA CommitIInv ==
    ASSUME IInv, NEW w \in Workers, CommitBatch(w)
    PROVE  IInv'
<1> USE NatFacts DEF history, sessions
<1>1. /\ todo[w] = {} /\ Done(w) = batch[w] /\ batch[w] \subseteq Deliveries
      /\ delivery' = [d \in Deliveries |-> IF d \in batch[w] THEN row[w][d] ELSE delivery[d]]
      /\ endpoint' = Flush(w)
      /\ batch' = [batch EXCEPT ![w] = {}]
      /\ row' = [row EXCEPT ![w] = EmptyRows]
      /\ view' = [view EXCEPT ![w] = EmptyView]
      /\ UNCHANGED <<todo, calls, emitted, dispatched, posted, received, waited, streak, lost>>
  BY DEF CommitBatch, IInv, TypeOK, Done
<1>2. \A d \in batch[w] :
         /\ delivery'[d] = row[w][d]
         /\ delivery[d].attempts < row[w][d].attempts
         /\ row[w][d].attempts = delivery[d].attempts + 1
         /\ row[w][d].status \in {"retrying", "sent", "dead"}
         /\ row[w][d].status = "retrying" => row[w][d].attempts < MaxAttempts
         /\ row[w][d].status = "dead" => row[w][d].attempts = MaxAttempts
         /\ row[w][d].status = "sent" => received[d] >= 1
         /\ row[w][d].attempts <= posted[d]
         /\ posted[d] <= row[w][d].attempts + lost
         /\ Queued(d)
  <2>1. \A d \in batch[w] : row[w][d].attempts \in Nat /\ delivery[d].attempts \in Nat
                           /\ posted[d] \in Nat /\ lost \in Nat
    BY <1>1 DEF IInv, TypeOK, Rows
  <2>2. \A d \in batch[w] : posted[d] <= delivery[d].attempts + lost + 1
    BY <1>1 DEF IInv, PostsAccounted
  <2> QED BY <1>1, <2>1, <2>2 DEF IInv, CopiesFollowRows, PostsAccounted
<1>3. \A d \in Deliveries : d \notin batch[w] => delivery'[d] = delivery[d]
  BY <1>1
<1>4. TypeOK'
  <2>1. NoRow \in Rows /\ NotLoaded \in Views
    BY DEF NoRow, Rows, Statuses, Waits, NotLoaded, Views
  <2>2. endpoint' \in [Endpoints -> EndpointRows]
    BY <1>1, FlushType DEF IInv, Sessions
  <2> QED BY <1>1, <2>1, <2>2 DEF IInv, TypeOK, EmptyRows, EmptyView, Sessions
<1>5. /\ batch'[w] = {} /\ Done(w)' = {}
      /\ \A x \in Workers : x # w =>
            batch'[x] = batch[x] /\ row'[x] = row[x] /\ Done(x)' = Done(x)
  BY <1>1 DEF IInv, TypeOK, Done
<1>6. RowsExclusive'
  BY <1>5 DEF IInv, RowsExclusive
<1>7. \A x \in Workers : x # w => batch[x] \cap batch[w] = {} /\ Done(x) \subseteq batch[x]
                                   /\ batch[x] \subseteq Deliveries
  BY DEF IInv, RowsExclusive, TypeOK, Done
<1>8. AttemptsLeft'
  <2> SUFFICES ASSUME NEW d \in Deliveries
               PROVE  /\ Queued(d)' => delivery'[d].attempts < MaxAttempts
                      /\ delivery'[d].status = "none" => delivery'[d].attempts = 0
                      /\ delivery'[d].status = "dead" => delivery'[d].attempts = MaxAttempts
    BY DEF AttemptsLeft
  <2>1. CASE d \in batch[w]
    BY <1>2, <2>1 DEF Queued
  <2>2. CASE d \notin batch[w]
    BY <1>3, <2>2 DEF IInv, AttemptsLeft, Queued
  <2> QED BY <2>1, <2>2
<1>9. FreshRows'
  BY <1>1, <1>2, <1>3 DEF IInv, FreshRows, Queued
<1>10. CopiesFollowRows'
  <2> SUFFICES ASSUME NEW x \in Workers
               PROVE  /\ todo'[x] \subseteq batch'[x]
                      /\ \A d \in batch'[x] : Queued(d)' /\ delivery'[d].wait = 0
                      /\ \A d \in todo'[x] : row'[x][d] = delivery'[d]
                      /\ \A d \in Done(x)' :
                            /\ row'[x][d].attempts = delivery'[d].attempts + 1
                            /\ row'[x][d].status \in {"retrying", "sent", "dead"}
                            /\ row'[x][d].status = "retrying" => row'[x][d].attempts < MaxAttempts
                            /\ row'[x][d].status = "dead" => row'[x][d].attempts = MaxAttempts
                            /\ row'[x][d].status = "sent" => received'[d] >= 1
    BY DEF CopiesFollowRows
  <2>1. CASE x = w
    BY <1>1, <1>5, <2>1
  <2>2. CASE x # w
    <3>1. \A d \in batch[x] : delivery'[d] = delivery[d] /\ d \in Deliveries
      BY <1>3, <1>7, <2>2
    <3>2. todo[x] \subseteq batch[x] /\ Done(x) \subseteq batch[x]
      BY <1>7, <2>2 DEF IInv, CopiesFollowRows
    <3>3. batch'[x] = batch[x] /\ todo'[x] = todo[x] /\ row'[x] = row[x] /\ Done(x)' = Done(x)
          /\ received' = received
      BY <1>1, <1>5, <2>2
    <3>4. \A d \in batch'[x] : Queued(d)' /\ delivery'[d].wait = 0
      BY <3>1, <3>3 DEF IInv, CopiesFollowRows, Queued
    <3>5. \A d \in todo'[x] : row'[x][d] = delivery'[d]
      BY <3>1, <3>2, <3>3 DEF IInv, CopiesFollowRows
    <3> QED BY <3>1, <3>2, <3>3, <3>4, <3>5 DEF IInv, CopiesFollowRows
  <2> QED BY <2>1, <2>2
<1>11. PostsAccounted'
  <2>1. \A d \in Deliveries : lost \in Nat /\ posted[d] \in Nat /\ delivery[d].attempts \in Nat
                             /\ row[w][d].attempts \in Nat
    BY DEF IInv, TypeOK, Rows
  <2>2. ASSUME NEW d \in Deliveries
        PROVE  /\ delivery'[d].attempts <= posted'[d]
               /\ posted'[d] <= delivery'[d].attempts + lost' + 1
               /\ (\A x \in Workers : d \notin Done(x)') =>
                      posted'[d] <= delivery'[d].attempts + lost'
    <3>1. CASE d \in batch[w]
      <4>1. /\ delivery'[d].attempts = row[w][d].attempts /\ posted' = posted /\ lost' = lost
            /\ row[w][d].attempts <= posted[d] /\ posted[d] <= row[w][d].attempts + lost
        BY <1>1, <1>2, <3>1
      <4> QED BY <2>1, <4>1
    <3>2. CASE d \notin batch[w]
      <4>1. (\A x \in Workers : d \notin Done(x)') => \A x \in Workers : d \notin Done(x)
        BY <1>1, <1>5, <3>2
      <4> QED BY <1>1, <1>3, <3>2, <4>1 DEF IInv, PostsAccounted
    <3> QED BY <3>1, <3>2
  <2>3. \A x \in Workers : \A d \in Done(x)' : row'[x][d].attempts <= posted'[d]
    BY <1>1, <1>5 DEF IInv, PostsAccounted
  <2> QED BY <2>2, <2>3 DEF PostsAccounted
<1>12. SentWasReceived'
  BY <1>1, <1>2, <1>3 DEF IInv, SentWasReceived
<1> QED BY <1>4, <1>6, <1>8, <1>9, <1>10, <1>11, <1>12 DEF IInv

LEMMA StepIInv == IInv /\ [Next]_vars => IInv'
<1> SUFFICES ASSUME IInv, [Next]_vars PROVE IInv'
  OBVIOUS
<1>1. CASE Manage
  BY <1>1, ManageIInv
<1>2. ASSUME NEW event \in Events, EmitEvent(event) PROVE IInv'
  BY <1>2, EmitIInv
<1>3. ASSUME NEW d \in Deliveries, BackoffElapses(d) PROVE IInv'
  BY <1>3, BackoffIInv
<1>4. ASSUME NEW w \in Workers, Deliver(w) PROVE IInv'
  BY <1>4, SelectIInv, PostIInv, CommitIInv DEF Deliver
<1>5. ASSUME NEW w \in Workers, WorkerCrashes(w) \/ PostRaises(w) PROVE IInv'
  BY <1>5, LoseIInv DEF WorkerCrashes, PostRaises
<1>6. ASSUME NEW p \in Callers, Dispatch(p) PROVE IInv'
  BY <1>6, DispatchIInv
<1>7. CASE UNCHANGED vars
  BY <1>7, QueueUntouched DEF vars, IInv, TypeOK
<1> QED BY <1>1, <1>2, <1>3, <1>4, <1>5, <1>6, <1>7 DEF Next

LEMMA Invariance == Spec => []IInv
BY InitIInv, StepIInv, PTL DEF Spec

--------------------------------------------------------------------------------
(* The theorems *)

\* Every variable keeps its type (delivery.py, notify.py and the management APIs).
THEOREM TypeCorrect == Spec => []TypeOK
<1>1. IInv => TypeOK
  BY DEF IInv
<1> QED BY <1>1, Invariance, PTL

\* Any number of workers may run deliver_pending at once: no row is in two batches.
THEOREM WorkersNeverShare == Spec => []RowsExclusive
<1>1. IInv => RowsExclusive
  BY DEF IInv
<1> QED BY <1>1, Invariance, PTL

\* A delivery is recorded as sent only if its consumer took it in.
THEOREM SentIsHonest == Spec => []SentWasReceived
<1>1. IInv => SentWasReceived
  BY DEF IInv
<1> QED BY <1>1, Invariance, PTL

\* A delivery is given up only after all of its attempts were posted.
THEOREM DeadIsExhausted == Spec => []DeadWasExhausted
<1>1. IInv => DeadWasExhausted
  <2> SUFFICES ASSUME IInv, NEW d \in Deliveries, delivery[d].status = "dead"
               PROVE  delivery[d].attempts = MaxAttempts /\ posted[d] >= MaxAttempts
    BY DEF DeadWasExhausted
  <2> QED BY NatFacts DEF IInv, AttemptsLeft, PostsAccounted, TypeOK
<1> QED BY <1>1, Invariance, PTL

\* A consumer is posted to at most MaxAttempts times plus once per lost batch.
THEOREM PostsBounded == Spec => []RetryBudget
<1>1. IInv => RetryBudget
  <2> SUFFICES ASSUME IInv, NEW d \in Deliveries
               PROVE  posted[d] <= MaxAttempts + lost
    BY DEF RetryBudget
  <2>1. lost \in Nat /\ posted[d] \in Nat /\ delivery[d].attempts \in 0 .. MaxAttempts
    BY DEF IInv, TypeOK, Rows
  <2>2. CASE \A w \in Workers : d \notin Done(w)
    BY <2>1, <2>2, NatFacts DEF IInv, PostsAccounted
  <2>3. CASE \E w \in Workers : d \in Done(w)
    <3>1. Queued(d)
      BY <2>3 DEF IInv, CopiesFollowRows, Done
    <3>2. delivery[d].attempts < MaxAttempts /\ posted[d] <= delivery[d].attempts + lost + 1
      BY <3>1 DEF IInv, AttemptsLeft, PostsAccounted
    <3> QED BY <2>1, <3>2, NatFacts
  <2> QED BY <2>2, <2>3
<1> QED BY <1>1, Invariance, PTL

--------------------------------------------------------------------------------
(* Disabling an endpoint *)

\* A worker's copy of an endpoint is switched off only in the turn of the loop that
\* gives up one of that endpoint's rows, and the row stays in the batch.
DisablesForDeath ==
    \A w \in Workers, e \in Endpoints :
        view[w][e].active # view[w][e].oldActive =>
            \E d \in Done(w) : d[2] = e /\ row[w][d].status = "dead"

LEMMA WorkersAreSessions ==
    /\ Workers \subseteq Sessions
    /\ \A w \in Workers, p \in Callers : w # p
BY NatFacts DEF Sessions

\* An answered post leaves is_active alone; a failed one clears it only with a death.
LEMMA OnlyDeathDisables ==
    ASSUME NEW r \in Rows, NEW v \in Views
    PROVE  /\ Succeeded(r, v)[2].active = v.active
           /\ Succeeded(r, v)[2].oldActive = v.oldActive
           /\ Failed(r, v)[2].oldActive = v.oldActive
           /\ \/ Failed(r, v)[2].active = v.active
              \/ Failed(r, v)[1].status = "dead"
<1> DEFINE exhausted == r.attempts >= MaxAttempts
           off == exhausted /\ v.failures + 1 >= DisableAfter
           act == IF off THEN FALSE ELSE v.active
           n   == v.failures + 1
<1>1. Succeeded(r, v)[2] = [v EXCEPT !.failures = 0]
  BY DEF Succeeded
<1>2. Failed(r, v)[2] = [v EXCEPT !.failures = n, !.active = act]
  BY DEF Failed
<1>3. Failed(r, v)[1] = IF exhausted THEN [r EXCEPT !.status = "dead"] ELSE Retry(r)
  BY DEF Failed
<1>4. CASE exhausted
  <2>1. Failed(r, v)[1].status = "dead"
    BY <1>3, <1>4 DEF Rows
  <2>2. [v EXCEPT !.failures = n, !.active = act].oldActive = v.oldActive
    <3> HIDE DEF n, act
    <3> QED BY DEF Views
  <2>3. [v EXCEPT !.failures = 0].active = v.active
        /\ [v EXCEPT !.failures = 0].oldActive = v.oldActive
    BY DEF Views
  <2> QED BY <1>1, <1>2, <2>1, <2>2, <2>3
<1>5. CASE ~exhausted
  <2>1. act = v.active
    BY <1>5
  <2> HIDE DEF n, act
  <2>2. [v EXCEPT !.failures = n, !.active = act].oldActive = v.oldActive
        /\ [v EXCEPT !.failures = n, !.active = act].active = act
    BY DEF Views
  <2>3. [v EXCEPT !.failures = 0].active = v.active
        /\ [v EXCEPT !.failures = 0].oldActive = v.oldActive
    BY DEF Views
  <2> QED BY <1>1, <1>2, <2>1, <2>2, <2>3
<1> QED BY <1>4, <1>5

\* What no worker's loop or transaction takes part in changes nothing here.
LEMMA WorkersUntouched ==
    ASSUME DisablesForDeath, UNCHANGED <<batch, todo, row>>,
           \A w \in Workers : view'[w] = view[w]
    PROVE  DisablesForDeath'
BY DEF DisablesForDeath, Done

\* A transaction that begins or ends holds no post of the worker's, and no copy.
LEMMA SelectDisables ==
    ASSUME IInv, DisablesForDeath, NEW w \in Workers, SelectDue(w)
    PROVE  DisablesForDeath'
<1> SUFFICES ASSUME NEW x \in Workers, NEW e \in Endpoints,
                    view'[x][e].active # view'[x][e].oldActive
             PROVE  \E d \in Done(x)' : d[2] = e /\ row'[x][d].status = "dead"
  BY DEF DisablesForDeath
<1>1. view' = view /\ Done(w) = {}
  BY DEF SelectDue, Done
<1>2. PICK d \in Done(x) : d[2] = e /\ row[x][d].status = "dead"
  BY <1>1 DEF DisablesForDeath
<1>3. x # w
  BY <1>1, <1>2
<1>4. batch'[x] = batch[x] /\ todo'[x] = todo[x] /\ row'[x] = row[x]
  BY <1>3 DEF SelectDue, IInv, TypeOK
<1> QED BY <1>2, <1>4 DEF Done

LEMMA EndDisables ==
    ASSUME IInv, DisablesForDeath, NEW w \in Workers, CommitBatch(w) \/ LoseBatch(w)
    PROVE  DisablesForDeath'
<1> SUFFICES ASSUME NEW x \in Workers, NEW e \in Endpoints,
                    view'[x][e].active # view'[x][e].oldActive
             PROVE  \E d \in Done(x)' : d[2] = e /\ row'[x][d].status = "dead"
  BY DEF DisablesForDeath
<1>1. view' = [view EXCEPT ![w] = EmptyView]
  BY DEF CommitBatch, LoseBatch
<1>2. x # w
  <2> SUFFICES ASSUME x = w PROVE FALSE
    OBVIOUS
  <2>1. view'[x][e] = NotLoaded
    BY <1>1, WorkersAreSessions DEF IInv, TypeOK, EmptyView
  <2>2. NotLoaded.active = NotLoaded.oldActive
    BY DEF NotLoaded
  <2> QED BY <2>1, <2>2
<1>3. batch'[x] = batch[x] /\ todo'[x] = todo[x] /\ row'[x] = row[x] /\ view'[x] = view[x]
  BY <1>1, <1>2, WorkersAreSessions DEF CommitBatch, LoseBatch, IInv, TypeOK
<1> QED BY <1>3 DEF DisablesForDeath, Done

LEMMA PostDisables ==
    ASSUME IInv, DisablesForDeath, NEW w \in Workers, NEW d \in Deliveries,
           NEW o \in Outcomes, PostNext(w, d, o)
    PROVE  DisablesForDeath'
<1> DEFINE r == [row[w][d] EXCEPT !.attempts = @ + 1]
           v == Load(w, d[2])
           result == IF o = "ok" THEN Succeeded(r, v) ELSE Failed(r, v)
<1> SUFFICES ASSUME NEW x \in Workers, NEW e \in Endpoints,
                    view'[x][e].active # view'[x][e].oldActive
             PROVE  \E y \in Done(x)' : y[2] = e /\ row'[x][y].status = "dead"
  BY DEF DisablesForDeath
<1>1. /\ row' = [row EXCEPT ![w][d] = result[1]]
      /\ view' = [view EXCEPT ![w][d[2]] = result[2]]
      /\ todo' = [todo EXCEPT ![w] = @ \ {d}]
      /\ batch' = batch /\ d \in todo[w]
  BY DEF PostNext
<1>2. r \in Rows
  <2>1. row[w][d] = delivery[d] /\ delivery[d].attempts < MaxAttempts /\ delivery[d] \in Rows
    BY <1>1 DEF IInv, TypeOK, CopiesFollowRows, AttemptsLeft
  <2> QED BY <2>1, NatFacts DEF Rows
<1>3. d[2] \in Endpoints /\ v \in Views
  BY LoadType, WorkersAreSessions DEF Deliveries, IInv
<1>4. v.active = v.oldActive \/ v = view[w][d[2]]
  BY DEF Load, Fetch
<1>5. /\ result[2].oldActive = v.oldActive
      /\ result[2].active = v.active \/ result[1].status = "dead"
  <2> HIDE DEF r, v
  <2> QED BY <1>2, <1>3, OnlyDeathDisables
<1> HIDE DEF result, v, r
<1>6. /\ row'[w][d] = result[1]
      /\ \A y \in Deliveries : y # d => row'[w][y] = row[w][y]
      /\ view'[w][d[2]] = result[2]
      /\ e # d[2] => view'[w][e] = view[w][e]
      /\ x # w => view'[x] = view[x] /\ row'[x] = row[x] /\ todo'[x] = todo[x]
      /\ todo'[w] = todo[w] \ {d}
  BY <1>1, <1>3, WorkersAreSessions DEF IInv, TypeOK
<1>7. d \in batch[w] /\ d \notin Done(w) /\ batch[x] \subseteq Deliveries
  BY <1>1 DEF IInv, TypeOK, CopiesFollowRows, Done
<1>8. d \in Done(w)' /\ Done(w) \subseteq Done(w)' /\ (x # w => Done(x)' = Done(x))
  BY <1>1, <1>6, <1>7 DEF Done
<1>9. CASE x = w /\ e = d[2] /\ result[1].status = "dead"
  BY <1>6, <1>8, <1>9
<1>10. CASE ~(x = w /\ e = d[2] /\ result[1].status = "dead")
  <2>1. view[x][e].active # view[x][e].oldActive
    <3>1. CASE x = w /\ e = d[2]
      <4>1. result[2].active = v.active
        BY <1>5, <1>10, <3>1
      <4>2. v.active # v.oldActive
        BY <1>5, <1>6, <3>1, <4>1
      <4> QED BY <1>4, <3>1, <4>2
    <3>2. CASE ~(x = w /\ e = d[2])
      BY <1>6, <3>2
    <3> QED BY <3>1, <3>2
  <2>2. PICK y \in Done(x) : y[2] = e /\ row[x][y].status = "dead"
    BY <2>1 DEF DisablesForDeath
  <2>3. y \in Done(x)' /\ y \in Deliveries /\ (x = w => y # d)
    BY <1>7, <1>8, <2>2 DEF Done
  <2>4. row'[x][y] = row[x][y]
    BY <1>6, <2>3
  <2> QED BY <2>2, <2>3, <2>4
<1> QED BY <1>9, <1>10

LEMMA StepDisables == IInv /\ DisablesForDeath /\ [Next]_vars => DisablesForDeath'
<1> SUFFICES ASSUME IInv, DisablesForDeath, [Next]_vars PROVE DisablesForDeath'
  OBVIOUS
<1>1. CASE Manage
  BY <1>1, WorkersUntouched DEF Manage, CreateEndpoint, CreateSubscription, UpdateEndpoint,
     DeleteEndpoint, sessions
<1>2. ASSUME NEW event \in Events, EmitEvent(event) PROVE DisablesForDeath'
  BY <1>2, WorkersUntouched DEF EmitEvent, sessions
<1>3. ASSUME NEW d \in Deliveries, BackoffElapses(d) PROVE DisablesForDeath'
  BY <1>3, WorkersUntouched DEF BackoffElapses, sessions
<1>4. ASSUME NEW w \in Workers, Deliver(w) PROVE DisablesForDeath'
  BY <1>4, SelectDisables, PostDisables, EndDisables DEF Deliver
<1>5. ASSUME NEW w \in Workers, WorkerCrashes(w) \/ PostRaises(w) PROVE DisablesForDeath'
  BY <1>5, EndDisables DEF WorkerCrashes, PostRaises
<1>6. ASSUME NEW p \in Callers, Dispatch(p) PROVE DisablesForDeath'
  <2>1. UNCHANGED <<batch, todo, row>>
    BY <1>6 DEF Dispatch, StartDispatch, DispatchPost, DispatchRaises, StartTest, TestPost, CommitCall,
       CallerCrashes
  <2>2. view' = view \/ \E c : view' = [view EXCEPT ![p] = c]
    BY <1>6 DEF Dispatch, StartDispatch, DispatchPost, DispatchRaises, StartTest, TestPost, CommitCall,
       CallerCrashes
  <2>3. \A w \in Workers : view'[w] = view[w]
    BY <2>2, WorkersAreSessions DEF IInv, TypeOK
  <2> QED BY <2>1, <2>3, WorkersUntouched
<1>7. CASE UNCHANGED vars
  BY <1>7, WorkersUntouched DEF vars
<1> QED BY <1>1, <1>2, <1>3, <1>4, <1>5, <1>6, <1>7 DEF Next

\* The commit of deliver_pending writes is_active only where a copy was switched off.
LEMMA CommitDisables ==
    ASSUME IInv, DisablesForDeath, NEW w \in Workers, NEW e \in Endpoints, CommitBatch(w),
           endpoint[e].active, ~endpoint'[e].active
    PROVE  \E n \in 1 .. MaxEmits : <<n, e>> \in batch[w] /\ delivery'[<<n, e>>].status = "dead"
<1>1. endpoint'[e].active =
          IF view[w][e].active # view[w][e].oldActive THEN view[w][e].active
          ELSE endpoint[e].active
  <2>1. endpoint[e] \in EndpointRows
    BY DEF IInv, TypeOK
  <2> QED BY <2>1 DEF CommitBatch, Flush, EndpointRows
<1>2. PICK d \in Done(w) : d[2] = e /\ row[w][d].status = "dead"
  BY <1>1 DEF DisablesForDeath
<1>3. d \in batch[w] /\ d \in Deliveries /\ delivery'[d] = row[w][d]
  BY <1>2 DEF Done, CommitBatch, IInv, TypeOK
<1>4. d[1] \in 1 .. MaxEmits /\ d = <<d[1], e>>
  BY <1>2, <1>3 DEF Deliveries
<1> QED BY <1>2, <1>3, <1>4

\* A batch is let go by its worker's commit or its loss.
LEMMA BatchEnds ==
    ASSUME IInv, [Next]_vars, NEW w \in Workers, batch[w] # {}, batch'[w] = {}
    PROVE  CommitBatch(w) \/ endpoint' = endpoint
<1>1. CASE batch' = batch
  BY <1>1
<1>2. ASSUME NEW x \in Workers, SelectDue(x) PROVE FALSE
  <2>1. batch'[w] # {}
    BY <1>2 DEF SelectDue, IInv, TypeOK
  <2> QED BY <2>1
<1>3. ASSUME NEW x \in Workers, CommitBatch(x) PROVE CommitBatch(w)
  BY <1>3 DEF CommitBatch, IInv, TypeOK
<1>4. ASSUME NEW x \in Workers, LoseBatch(x) PROVE endpoint' = endpoint
  BY <1>4 DEF LoseBatch
<1>5. CASE Manage
  BY <1>1, <1>5 DEF Manage, CreateEndpoint, CreateSubscription, UpdateEndpoint,
     DeleteEndpoint, sessions
<1>6. ASSUME NEW p \in Callers, Dispatch(p) PROVE batch' = batch
  BY <1>6 DEF Dispatch, StartDispatch, DispatchPost, DispatchRaises, StartTest, TestPost, CommitCall,
     CallerCrashes
<1>7. ASSUME NEW x \in Workers, NEW d \in Deliveries, NEW o \in Outcomes, PostNext(x, d, o)
      PROVE  batch' = batch
  BY <1>7 DEF PostNext
<1> QED BY <1>1, <1>2, <1>3, <1>4, <1>5, <1>6, <1>7 DEF Next, Deliver, WorkerCrashes,
           PostRaises, EmitEvent, BackoffElapses, sessions, vars

\* deliver_pending disables an endpoint only together with the death of one of that
\* endpoint's deliveries, whatever its failure count and the other sessions' writes.
THEOREM WorkersDisableOnDeath == Spec => WorkerDisablesOnDeath
<1> DEFINE Honest == \A w \in Workers, e \in Endpoints :
                         batch[w] # {} /\ batch'[w] = {} /\ endpoint[e].active
                             /\ ~endpoint'[e].active =>
                         \E n \in 1 .. MaxEmits :
                             <<n, e>> \in batch[w] /\ delivery'[<<n, e>>].status = "dead"
<1>1. Init => DisablesForDeath
  <2>1. NotLoaded.active = NotLoaded.oldActive
    BY DEF NotLoaded
  <2> QED BY <2>1, WorkersAreSessions DEF Init, DisablesForDeath, EmptyView
<1>2. IInv /\ DisablesForDeath /\ [Next]_vars => DisablesForDeath'
  BY StepDisables
<1>3. IInv /\ DisablesForDeath /\ [Next]_vars => Honest
  BY BatchEnds, CommitDisables
<1>4. IInv /\ DisablesForDeath /\ [Next]_vars => [Honest]_vars
  BY <1>3
<1> QED BY <1>1, <1>2, <1>4, Invariance, PTL DEF Spec, WorkerDisablesOnDeath

--------------------------------------------------------------------------------
(* Outages *)

\* Before its next attempt a queued row has waited for every backoff so far, or has the
\* last of them still to wait; a copy that is to be retried waits for one more.
WaitsFollow ==
    /\ \A d \in Deliveries :
          /\ Queued(d) => waited[d] + delivery[d].wait >= Backoffs[delivery[d].attempts + 1]
          /\ delivery[d].status = "dead" => waited[d] >= Backoffs[MaxAttempts]
    /\ \A w \in Workers : \A d \in Done(w) :
          row[w][d].status = "retrying" => row[w][d].wait = BackoffSeconds(row[w][d].attempts)

\* One more attempt, one more backoff.
LEMMA NextBackoff ==
    /\ Backoffs[1] = 0
    /\ \A n \in 0 .. MaxAttempts : Backoffs[n] \in Nat
    /\ \A n \in 1 .. MaxAttempts - 1 : Backoffs[n + 1] = Backoffs[n] + BackoffSeconds(n)
<1>1. Backoffs \in Sums(MaxAttempts)
  BY BackoffsDefined
<1>2. \A n \in 0 .. MaxAttempts : Backoffs[n] \in Nat
  BY <1>1 DEF Sums
<1>3. Backoffs[1] = 0
  BY <1>1, NatFacts DEF Sums
<1>4. ASSUME NEW n \in 1 .. MaxAttempts - 1
      PROVE  Backoffs[n + 1] = Backoffs[n] + BackoffSeconds(n)
  <2> DEFINE k == n + 1
  <2>1. k \in 0 .. MaxAttempts /\ k - 1 = n /\ ~(k <= 1)
    BY NatFacts
  <2> HIDE DEF k
  <2>2. Backoffs[k] = IF k <= 1 THEN 0 ELSE Backoffs[k - 1] + BackoffSeconds(k - 1)
    BY <1>1, <2>1 DEF Sums
  <2> QED BY <2>1, <2>2 DEF k
<1> QED BY <1>2, <1>3, <1>4

\* What touches neither rows nor copies nor time changes nothing here.
LEMMA WaitsUntouched ==
    ASSUME WaitsFollow, UNCHANGED <<delivery, batch, todo, row, waited>>
    PROVE  WaitsFollow'
BY DEF WaitsFollow, Queued, Done

LEMMA EmitWaits ==
    ASSUME IInv, WaitsFollow, NEW event \in Events, EmitEvent(event)
    PROVE  WaitsFollow'
<1>1. UNCHANGED <<batch, todo, row, waited>>
  BY DEF EmitEvent, sessions, history
<1>2. \A d \in Deliveries : delivery'[d] = delivery[d] \/ delivery'[d] = NewRow
  BY DEF EmitEvent, IInv, TypeOK
<1>3. \A d \in Deliveries : delivery'[d] = NewRow =>
          waited[d] + delivery'[d].wait >= Backoffs[delivery'[d].attempts + 1]
  BY NextBackoff DEF NewRow, IInv, TypeOK
<1> QED BY <1>1, <1>2, <1>3 DEF WaitsFollow, Queued, Done, NewRow

LEMMA ElapseWaits ==
    ASSUME IInv, WaitsFollow, NEW d \in Deliveries, BackoffElapses(d)
    PROVE  WaitsFollow'
<1>1. UNCHANGED <<batch, todo, row>>
  BY DEF BackoffElapses, sessions
<1>2. delivery[d].wait \in Nat /\ waited[d] \in Nat
  BY WaitsType DEF IInv, TypeOK, Rows
<1>3. /\ waited'[d] = waited[d] + delivery[d].wait
      /\ delivery'[d].wait = 0
      /\ delivery'[d].attempts = delivery[d].attempts
      /\ delivery'[d].status = delivery[d].status
      /\ \A x \in Deliveries : x # d => delivery'[x] = delivery[x] /\ waited'[x] = waited[x]
  BY DEF BackoffElapses, IInv, TypeOK, Rows
<1>4. Queued(d)
  BY DEF BackoffElapses
<1>5. waited'[d] + delivery'[d].wait >= Backoffs[delivery'[d].attempts + 1]
  BY <1>2, <1>3, <1>4 DEF WaitsFollow
<1>6. delivery'[d].status # "dead"
  BY <1>3, <1>4 DEF Queued
<1> QED BY <1>1, <1>3, <1>5, <1>6 DEF WaitsFollow, Queued, Done

LEMMA SelectWaits ==
    ASSUME IInv, WaitsFollow, NEW w \in Workers, SelectDue(w)
    PROVE  WaitsFollow'
<1>1. UNCHANGED <<delivery, waited>>
  BY DEF SelectDue, history
<1>2. Done(w)' = {}
  BY DEF SelectDue, IInv, TypeOK, Done
<1>3. \A x \in Workers : x # w => Done(x)' = Done(x) /\ row'[x] = row[x]
  BY DEF SelectDue, IInv, TypeOK, Done
<1> QED BY <1>1, <1>2, <1>3 DEF WaitsFollow, Queued

LEMMA LoseWaits ==
    ASSUME IInv, WaitsFollow, NEW w \in Workers, LoseBatch(w)
    PROVE  WaitsFollow'
<1>1. UNCHANGED <<delivery, waited>>
  BY DEF LoseBatch
<1>2. Done(w)' = {}
  BY DEF LoseBatch, IInv, TypeOK, Done
<1>3. \A x \in Workers : x # w => Done(x)' = Done(x) /\ row'[x] = row[x]
  BY DEF LoseBatch, IInv, TypeOK, Done
<1> QED BY <1>1, <1>2, <1>3 DEF WaitsFollow, Queued

\* A failed post that leaves an attempt is put off by the backoff of the attempts so far.
LEMMA FailedWaits ==
    ASSUME NEW r \in Rows, NEW v \in Views, Failed(r, v)[1].status = "retrying"
    PROVE  Failed(r, v)[1].wait = BackoffSeconds(Failed(r, v)[1].attempts)
<1>1. Failed(r, v)[1] = IF r.attempts >= MaxAttempts THEN [r EXCEPT !.status = "dead"]
                        ELSE Retry(r)
  BY DEF Failed
<1>2. [r EXCEPT !.status = "dead"].status = "dead"
  BY DEF Rows
<1>3. Failed(r, v)[1] = Retry(r)
  BY <1>1, <1>2
<1>4. Retry(r).wait = BackoffSeconds(r.attempts) /\ Retry(r).attempts = r.attempts
  BY DEF Retry, Rows
<1> QED BY <1>3, <1>4

LEMMA PostWaits ==
    ASSUME IInv, WaitsFollow, NEW w \in Workers, NEW d \in Deliveries,
           NEW o \in Outcomes, PostNext(w, d, o)
    PROVE  WaitsFollow'
<1> DEFINE r == [row[w][d] EXCEPT !.attempts = @ + 1]
           v == Load(w, d[2])
           result == IF o = "ok" THEN Succeeded(r, v) ELSE Failed(r, v)
<1>1. /\ row' = [row EXCEPT ![w][d] = result[1]]
      /\ todo' = [todo EXCEPT ![w] = @ \ {d}]
      /\ UNCHANGED <<delivery, batch, waited>> /\ d \in todo[w]
  BY DEF PostNext
<1>2. r \in Rows
  <2>1. row[w][d] = delivery[d] /\ delivery[d].attempts < MaxAttempts /\ delivery[d] \in Rows
    BY <1>1 DEF IInv, TypeOK, CopiesFollowRows, AttemptsLeft
  <2> QED BY <2>1, NatFacts DEF Rows
<1>3. v \in Views
  BY LoadType, WorkersAreSessions DEF Deliveries, IInv
<1>4. result[1].status = "retrying" => result[1].wait = BackoffSeconds(result[1].attempts)
  <2> HIDE DEF r, v
  <2>1. Succeeded(r, v)[1].status = "sent"
    BY <1>2 DEF Succeeded, Rows
  <2> QED BY <1>2, <1>3, <2>1, FailedWaits
<1> HIDE DEF result, v, r
<1>5. /\ row'[w][d] = result[1]
      /\ \A y \in Deliveries : y # d => row'[w][y] = row[w][y]
      /\ \A x \in Workers : x # w => Done(x)' = Done(x) /\ row'[x] = row[x]
  BY <1>1 DEF IInv, TypeOK, Done
<1>6. Done(w)' \subseteq Done(w) \cup {d} /\ Done(w) \subseteq Deliveries
  BY <1>1 DEF IInv, TypeOK, Done
<1>7. ASSUME NEW x \in Workers, NEW y \in Done(x)', row'[x][y].status = "retrying"
      PROVE  row'[x][y].wait = BackoffSeconds(row'[x][y].attempts)
  <2>1. CASE x = w /\ y = d
    BY <1>4, <1>5, <1>7, <2>1
  <2>2. CASE ~(x = w /\ y = d)
    <3>1. y \in Done(x) /\ row'[x][y] = row[x][y]
      BY <1>5, <1>6, <2>2
    <3> QED BY <1>7, <3>1 DEF WaitsFollow
  <2> QED BY <2>1, <2>2
<1> QED BY <1>1, <1>7 DEF WaitsFollow, Queued

\* What the commit writes has waited for the backoffs before it: the row was due.
LEMMA CommitWaits ==
    ASSUME IInv, WaitsFollow, NEW w \in Workers, CommitBatch(w)
    PROVE  WaitsFollow'
<1>1. /\ Done(w) = batch[w] /\ waited' = waited /\ batch[w] \subseteq Deliveries
      /\ \A d \in Deliveries : delivery'[d] = IF d \in batch[w] THEN row[w][d] ELSE delivery[d]
      /\ Done(w)' = {}
      /\ \A x \in Workers : x # w => Done(x)' = Done(x) /\ row'[x] = row[x]
  BY DEF CommitBatch, history, IInv, TypeOK, Done
<1>2. ASSUME NEW d \in batch[w]
      PROVE  /\ delivery'[d].status \in {"pending", "retrying"} =>
                    waited[d] + delivery'[d].wait >= Backoffs[delivery'[d].attempts + 1]
             /\ delivery'[d].status = "dead" => waited[d] >= Backoffs[MaxAttempts]
  <2> DEFINE a == delivery[d].attempts
             r == row[w][d]
  <2>1. delivery'[d] = r
    BY <1>1
  <2>2. /\ Queued(d) /\ delivery[d].wait = 0 /\ r.attempts = a + 1
        /\ r.status \in {"retrying", "sent", "dead"}
        /\ r.status = "retrying" => r.attempts < MaxAttempts
        /\ r.status = "dead" => r.attempts = MaxAttempts
    BY <1>1 DEF IInv, CopiesFollowRows
  <2>3. a \in Nat /\ waited[d] \in Nat /\ a + 1 \in 1 .. MaxAttempts
    BY <1>1, <2>2, NatFacts DEF IInv, TypeOK, Rows, AttemptsLeft
  <2>4. waited[d] >= Backoffs[a + 1]
    <3>1. waited[d] + delivery[d].wait >= Backoffs[a + 1]
      BY <1>1, <2>2 DEF WaitsFollow
    <3> QED BY <2>2, <2>3, <3>1
  <2>5. r.status = "retrying" => r.wait = BackoffSeconds(r.attempts)
    BY <1>1 DEF WaitsFollow
  <2> HIDE DEF a, r
  <2>6. CASE r.status = "retrying"
    <3>1. a + 1 \in 1 .. MaxAttempts - 1 /\ r.attempts = a + 1
      BY <2>2, <2>3, <2>6, NatFacts
    <3>2. Backoffs[r.attempts + 1] = Backoffs[r.attempts] + r.wait
      BY <2>5, <2>6, <3>1, NextBackoff
    <3>3. Backoffs[r.attempts] \in Nat /\ r.wait \in Nat /\ waited[d] >= Backoffs[r.attempts]
      BY <2>3, <2>4, <2>5, <2>6, <3>1, NextBackoff, SecondsType
    <3> QED BY <2>1, <2>3, <2>6, <3>2, <3>3
  <2>7. CASE r.status = "dead"
    BY <2>1, <2>2, <2>4, <2>7
  <2>8. CASE r.status = "sent"
    BY <2>1, <2>8
  <2> QED BY <2>2, <2>6, <2>7, <2>8
<1>3. ASSUME NEW d \in Deliveries
      PROVE  /\ delivery'[d].status \in {"pending", "retrying"} =>
                    waited[d] + delivery'[d].wait >= Backoffs[delivery'[d].attempts + 1]
             /\ delivery'[d].status = "dead" => waited[d] >= Backoffs[MaxAttempts]
  <2>1. CASE d \in batch[w]
    BY <1>2, <2>1
  <2>2. CASE d \notin batch[w]
    BY <1>1, <2>2 DEF WaitsFollow, Queued
  <2> QED BY <2>1, <2>2
<1> QED BY <1>1, <1>3 DEF WaitsFollow, Queued

LEMMA StepWaits == IInv /\ WaitsFollow /\ [Next]_vars => WaitsFollow'
<1> SUFFICES ASSUME IInv, WaitsFollow, [Next]_vars PROVE WaitsFollow'
  OBVIOUS
<1>1. CASE Manage
  BY <1>1, WaitsUntouched DEF Manage, CreateEndpoint, CreateSubscription, UpdateEndpoint,
     DeleteEndpoint, sessions, history
<1>2. ASSUME NEW event \in Events, EmitEvent(event) PROVE WaitsFollow'
  BY <1>2, EmitWaits
<1>3. ASSUME NEW d \in Deliveries, BackoffElapses(d) PROVE WaitsFollow'
  BY <1>3, ElapseWaits
<1>4. ASSUME NEW w \in Workers, Deliver(w) PROVE WaitsFollow'
  BY <1>4, SelectWaits, PostWaits, CommitWaits DEF Deliver
<1>5. ASSUME NEW w \in Workers, WorkerCrashes(w) \/ PostRaises(w) PROVE WaitsFollow'
  BY <1>5, LoseWaits DEF WorkerCrashes, PostRaises
<1>6. ASSUME NEW p \in Callers, Dispatch(p) PROVE WaitsFollow'
  BY <1>6, WaitsUntouched DEF Dispatch, StartDispatch, DispatchPost, DispatchRaises, StartTest,
     TestPost, CommitCall, CallerCrashes, history
<1>7. CASE UNCHANGED vars
  BY <1>7, WaitsUntouched DEF vars
<1> QED BY <1>1, <1>2, <1>3, <1>4, <1>5, <1>6, <1>7 DEF Next

\* A consumer that is down for less than the sum of the backoffs loses nothing, however
\* often its batches are lost: no delivery dies before all of them have passed.
THEOREM OutagesAreSurvived == Spec => []OutageSurvived
<1>1. Init => WaitsFollow
  BY DEF Init, WaitsFollow, EmptyRows, NoRow, Queued, Done
<1>2. IInv /\ WaitsFollow /\ [Next]_vars => WaitsFollow'
  BY StepWaits
<1>3. WaitsFollow => OutageSurvived
  BY DEF WaitsFollow, OutageSurvived
<1> QED BY <1>1, <1>2, <1>3, Invariance, PTL DEF Spec

--------------------------------------------------------------------------------
(* Refinement *)

phases == [d \in Deliveries |-> Phase(d)]

\* What a step reaches has a phase of the contract.
LEMMA PhaseType ==
    ASSUME IInv'
    PROVE  phases' \in [Deliveries -> Contract!Phases]
<1>1. \A d \in Deliveries : delivery'[d].status \in Statuses
  BY DEF IInv, TypeOK, Rows
<1> QED BY <1>1 DEF phases, Phase, Queued, Statuses, Contract!Phases

LEMMA EmitRefines ==
    ASSUME IInv, IInv', NEW event \in Events, EmitEvent(event)
    PROVE  Contract!Queue
<1>1. received' = received
  BY DEF EmitEvent, history
<1>2. \A d \in Deliveries :
         delivery'[d] # delivery[d] => d[1] = emitted + 1 /\ delivery'[d] = NewRow
  BY DEF EmitEvent, IInv, TypeOK
<1>3. ASSUME NEW d \in Deliveries, phases'[d] # phases[d]
      PROVE  phases[d] = "none" /\ phases'[d] = "queued"
  <2>1. delivery'[d] # delivery[d]
    BY <1>3 DEF phases, Phase, Queued
  <2>2. d[1] > emitted
    BY <1>2, <2>1 DEF IInv, TypeOK
  <2>3. delivery[d].status = "none"
    BY <2>2 DEF IInv, FreshRows
  <2> QED BY <1>2, <2>1, <2>3 DEF phases, Phase, Queued, NewRow
<1>4. phases' \in [Deliveries -> Contract!Phases]
  BY PhaseType
<1> QED BY <1>1, <1>3, <1>4 DEF Contract!Queue, phases

LEMMA PostRefines ==
    ASSUME IInv, NEW w \in Workers, NEW d \in Deliveries, NEW o \in Outcomes, PostNext(w, d, o)
    PROVE  Contract!Receive(d) \/ UNCHANGED <<phases, received>>
<1>1. delivery' = delivery /\ received' = [received EXCEPT ![d] = @ + TakenIn(o)]
  BY DEF PostNext
<1>2. phases' = phases
  BY <1>1 DEF phases, Phase, Queued
<1>3. phases[d] = "queued"
  <2>1. Queued(d)
    BY DEF PostNext, IInv, CopiesFollowRows
  <2> QED BY <2>1 DEF phases, Phase
<1>4. CASE o = "refused"
  BY <1>1, <1>2, <1>4 DEF TakenIn, IInv, TypeOK
<1>5. CASE o # "refused"
  BY <1>1, <1>2, <1>3, <1>5 DEF TakenIn, Contract!Receive, phases
<1> QED BY <1>4, <1>5

LEMMA CommitRefines ==
    ASSUME IInv, IInv', NEW w \in Workers, CommitBatch(w)
    PROVE  Contract!Settle
<1>1. received' = received /\ Done(w) = batch[w]
  BY DEF CommitBatch, history, Done
<1>2. \A d \in Deliveries :
         delivery'[d] = IF d \in batch[w] THEN row[w][d] ELSE delivery[d]
  BY DEF CommitBatch
<1>3. ASSUME NEW d \in Deliveries, phases'[d] # phases[d]
      PROVE  /\ phases[d] = "queued"
             /\ \/ phases'[d] = "sent" /\ received[d] > 0
                \/ phases'[d] = "dead"
  <2>1. delivery'[d] # delivery[d]
    BY <1>3 DEF phases, Phase, Queued
  <2>2. d \in Done(w) /\ delivery'[d] = row[w][d]
    BY <1>1, <1>2, <2>1
  <2>3. Queued(d) /\ row[w][d].status \in {"retrying", "sent", "dead"}
        /\ (row[w][d].status = "sent" => received[d] >= 1)
    BY <1>1, <2>2 DEF IInv, CopiesFollowRows
  <2>4. received[d] \in Nat
    BY DEF IInv, TypeOK
  <2> QED BY <1>3, <2>2, <2>3, <2>4 DEF phases, Phase, Queued
<1>4. phases' \in [Deliveries -> Contract!Phases]
  BY PhaseType
<1> QED BY <1>1, <1>3, <1>4 DEF Contract!Settle, phases

LEMMA StepRefines ==
    ASSUME IInv, IInv', [Next]_vars
    PROVE  [Contract!Next]_<<phases, received>>
<1>1. ASSUME UNCHANGED <<delivery, received>> PROVE UNCHANGED <<phases, received>>
  BY <1>1 DEF phases, Phase, Queued
<1>2. CASE Manage
  BY <1>1, <1>2 DEF Manage, CreateEndpoint, CreateSubscription, UpdateEndpoint,
     DeleteEndpoint, history
<1>3. ASSUME NEW event \in Events, EmitEvent(event) PROVE Contract!Next
  BY <1>3, EmitRefines DEF Contract!Next
<1>4. ASSUME NEW d \in Deliveries, BackoffElapses(d) PROVE UNCHANGED <<phases, received>>
  <2>1. \A x \in Deliveries : delivery'[x].status = delivery[x].status
    BY <1>4 DEF BackoffElapses, IInv, TypeOK, Rows
  <2> QED BY <1>4, <2>1 DEF BackoffElapses, phases, Phase, Queued
<1>5. ASSUME NEW w \in Workers, Deliver(w) PROVE [Contract!Next]_<<phases, received>>
  <2>1. CASE SelectDue(w)
    BY <1>1, <2>1 DEF SelectDue, history
  <2>2. ASSUME NEW d \in Deliveries, NEW o \in Outcomes, PostNext(w, d, o)
        PROVE  [Contract!Next]_<<phases, received>>
    BY <2>2, PostRefines DEF Contract!Next
  <2>3. CASE CommitBatch(w)
    BY <2>3, CommitRefines DEF Contract!Next
  <2> QED BY <1>5, <2>1, <2>2, <2>3 DEF Deliver
<1>6. ASSUME NEW w \in Workers, WorkerCrashes(w) \/ PostRaises(w)
      PROVE  UNCHANGED <<phases, received>>
  BY <1>1, <1>6 DEF WorkerCrashes, PostRaises, LoseBatch
<1>7. ASSUME NEW p \in Callers, Dispatch(p) PROVE UNCHANGED <<phases, received>>
  BY <1>1, <1>7 DEF Dispatch, StartDispatch, DispatchPost, DispatchRaises, StartTest, TestPost, CommitCall,
     CallerCrashes, history
<1>8. CASE UNCHANGED vars
  BY <1>1, <1>8 DEF vars
<1> QED BY <1>2, <1>3, <1>4, <1>5, <1>6, <1>7, <1>8 DEF Next

\* The queue of delivery.py keeps WebhookContract: queued once, taken in only while
\* queued, settled for good, and sent only if taken in.
THEOREM QueueImplementsContract == Spec => ImplementsContract
<1>1. Init => Contract!Init
  BY DEF Init, Contract!Init, Phase, Queued, EmptyRows, NoRow
<1>2. IInv /\ IInv' /\ [Next]_vars => [Contract!Next]_<<phases, received>>
  BY StepRefines
<1> QED BY <1>1, <1>2, Invariance, PTL DEF Spec, ImplementsContract, Contract!Spec, phases
================================================================================
