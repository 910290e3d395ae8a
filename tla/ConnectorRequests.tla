---------------------------- MODULE ConnectorRequests ----------------------------
(***************************************************************************)
(* How the source connectors send requests: the token bucket               *)
(* (connectors/rate_limiter.py), the shared GET with retries               *)
(* (connectors/http.py), the GitHub client with its own retries            *)
(* (connectors/github/client.py) and the feed engine's retries around that *)
(* (feed_sync/sync_engine.py).  Every discovery, sync, probe and feed run  *)
(* builds its own client with a limiter of its own and sends one request   *)
(* at a time; what clients share is the quota of the upstream API.         *)
(*                                                                         *)
(* Points in time are counted by what is left until them.                  *)
(***************************************************************************)
EXTENDS Integers

CONSTANTS
    Clients,      \* connector instances of one upstream
    MaxRequests,  \* max_requests of their limiters
    Period,       \* period of the limiters, and of the upstream quota
    Quota,        \* requests upstream answers in one period
    Attempts,     \* attempts of get_with_retry, stop_after_attempt of the client: 3
    FeedTries     \* GH_RETRY_COUNT + 1

ASSUME ParametersAssumption ==
    {MaxRequests, Period, Quota, Attempts, FeedTries} \subseteq Nat \ {0}

VARIABLES
    kind,       \* which code each client is
    remaining,  \* limiter: tokens left
    resetIn,    \* limiter: time left until reset_at
    call,       \* what each client is doing
    quota,      \* upstream: requests left in its window
    window,     \* upstream: time left of its window, 0 when none is open
    granted,    \* tokens granted in the current period, counted up to MaxRequests + 2
    since,      \* time since that period's first token, counted up to Period
    told        \* clients of the shared GET that were refused in the window that is open

vars == <<kind, remaining, resetIn, call, quota, window, granted, since, told>>

limiter  == <<remaining, resetIn, granted, since>>
upstream == <<quota, window>>

NotSet == -1

\* get_with_retry on an API that sends rate headers, or on plain files; the GitHub
\* client, by itself or in the hands of the feed engine
Kinds == {"api", "files", "github", "feed"}

\* A token is taken for every request, or for every call of the client
PaysEach(c) == kind[c] \in {"api", "files"}
Rounds(c)   == IF kind[c] = "feed" THEN FeedTries ELSE 1

Stages   == {"idle", "asking", "asleep", "sending", "answered", "pausing"}
Statuses == {"final", "failed", "refused"}   \* not retriable; 408, 425 or 5xx; 429

\* left and reset are the rate headers of the answer
Calls == [stage : Stages, attempt : 0 .. Attempts, round : 1 .. FeedTries,
          wait : 0 .. Period, status : Statuses, left : 0 .. Quota, reset : 0 .. Period]

NoCall == [stage |-> "idle", attempt |-> 0, round |-> 1, wait |-> 0,
           status |-> "final", left |-> 0, reset |-> 0]

Init ==
    /\ kind \in [Clients -> {"api"}] \cup [Clients -> {"files"}]
                    \cup [Clients -> {"github", "feed"}]
    /\ remaining = [c \in Clients |-> MaxRequests]
    /\ resetIn = [c \in Clients |-> NotSet]
    /\ call = [c \in Clients |-> NoCall]
    /\ quota = 0 /\ window = 0
    /\ granted = [c \in Clients |-> 0]
    /\ since = [c \in Clients |-> Period]
    /\ told = {}

--------------------------------------------------------------------------------
(* RateLimiter.wait_for_token *)

Goto(c, k) == call' = [call EXCEPT ![c] = k]

Begin(c) ==
    /\ call[c].stage = "idle"
    /\ Goto(c, [NoCall EXCEPT !.stage = "asking"])
    /\ UNCHANGED <<kind, limiter, upstream, told>>

Send(c) ==
    Goto(c, [NoCall EXCEPT !.stage = "sending", !.round = call[c].round,
                           !.attempt = call[c].attempt + 1])

\* History of the tokens granted, kept where upstream does not say what is left
Grant(c) ==
    IF kind[c] # "files" THEN UNCHANGED <<granted, since>>
    ELSE /\ granted' = [granted EXCEPT ![c] =
                           IF since[c] = Period THEN 1
                           ELSE IF @ < MaxRequests + 2 THEN @ + 1 ELSE @]
         /\ since' = [since EXCEPT ![c] = IF @ = Period THEN 0 ELSE @]

ResetAt(c) == IF resetIn[c] = NotSet THEN Period ELSE resetIn[c]

\* Mutant: reset_at stays where it is
Renew_SameReset(c) ==
    /\ call[c].stage = "asking" /\ resetIn[c] = 0
    /\ remaining' = [remaining EXCEPT ![c] = MaxRequests]
    /\ UNCHANGED resetIn
    /\ Grant(c) /\ Send(c)
    /\ UNCHANGED <<kind, upstream, told>>

\* reset_at is reached: this request takes no token
Renew(c) ==
    /\ call[c].stage = "asking" /\ resetIn[c] = 0
    /\ remaining' = [remaining EXCEPT ![c] = MaxRequests]
    /\ resetIn' = [resetIn EXCEPT ![c] = Period]
    /\ Grant(c) /\ Send(c)
    /\ UNCHANGED <<kind, upstream, told>>

\* Mutant: >= for >
Spend_OffByOne(c) ==
    /\ call[c].stage = "asking" /\ resetIn[c] # 0
    /\ remaining[c] >= 0
    /\ remaining' = [remaining EXCEPT ![c] = @ - 1]
    /\ resetIn' = [resetIn EXCEPT ![c] = ResetAt(c)]
    /\ Grant(c) /\ Send(c)
    /\ UNCHANGED <<kind, upstream, told>>

Spend(c) ==
    /\ call[c].stage = "asking" /\ resetIn[c] # 0
    /\ remaining[c] > 0
    /\ remaining' = [remaining EXCEPT ![c] = @ - 1]
    /\ resetIn' = [resetIn EXCEPT ![c] = ResetAt(c)]
    /\ Grant(c) /\ Send(c)
    /\ UNCHANGED <<kind, upstream, told>>

Sleep(c) ==
    /\ call[c].stage = "asking" /\ resetIn[c] # 0
    /\ remaining[c] = 0
    /\ resetIn' = [resetIn EXCEPT ![c] = ResetAt(c)]
    /\ Goto(c, [call[c] EXCEPT !.stage = "asleep", !.wait = ResetAt(c)])
    /\ UNCHANGED <<kind, remaining, granted, since, upstream, told>>

Wake(c) ==
    /\ call[c].stage = "asleep" /\ call[c].wait = 0
    /\ remaining' = [remaining EXCEPT ![c] = MaxRequests - 1]
    /\ resetIn' = [resetIn EXCEPT ![c] = Period]
    /\ Grant(c) /\ Send(c)
    /\ UNCHANGED <<kind, upstream, told>>

--------------------------------------------------------------------------------
(* The upstream API *)

Answer(c, status, left, reset) ==
    Goto(c, [call[c] EXCEPT !.stage = "answered", !.status = status, !.left = left,
                            !.reset = reset])

\* A quota for all clients, in windows that open with the first request
Arrive(c) ==
    LET left == IF window = 0 THEN Quota ELSE quota
        open == IF window = 0 THEN Period ELSE window
    IN  /\ call[c].stage = "sending" /\ kind[c] # "files"
        /\ IF left > 0
           THEN /\ quota' = left - 1 /\ window' = open
                /\ \E status \in {"final", "failed"} : Answer(c, status, left - 1, open)
           ELSE Answer(c, "refused", 0, window) /\ UNCHANGED upstream
        /\ UNCHANGED <<kind, limiter, told>>

ArriveAtFiles(c) ==
    /\ call[c].stage = "sending" /\ kind[c] = "files"
    /\ \E status \in Statuses : Answer(c, status, 0, 0)
    /\ UNCHANGED <<kind, limiter, upstream, told>>

--------------------------------------------------------------------------------
(* get_with_retry, GitHubClient._make_request, FeedSyncEngine._fetch_with_retry *)

\* For as long as Retry-After, the backoff or the reset window says: any time
Pause(c, round, attempt) ==
    Goto(c, [NoCall EXCEPT !.stage = "pausing", !.round = round, !.attempt = attempt])

End(c) == Goto(c, NoCall)

\* The attempts are used up, or the error is not one to retry; the feed engine starts
\* again, and the pause that may follow its last round only delays the end
EndRound(c) ==
    IF call[c].round < Rounds(c)
    THEN Pause(c, call[c].round + 1, 0)
    ELSE End(c)

Retry(c) ==
    IF call[c].attempt < Attempts
    THEN Pause(c, call[c].round, call[c].attempt)
    ELSE EndRound(c)

\* Mutant: of the shared GET, too, only the last response counts
Learns_AtTheEnd(c) == kind[c] # "files" /\ call[c].status = "final"
\* _update_rate_state is called with every response, _update_rate_limit with those
\* that _retry_request did not raise
Learns(c) ==
    \/ kind[c] = "api"
    \/ kind[c] \in {"github", "feed"} /\ call[c].status = "final"

Handle(c) ==
    /\ call[c].stage = "answered"
    /\ IF call[c].status = "final" THEN End(c) ELSE Retry(c)
    /\ IF Learns(c)
       THEN /\ remaining' = [remaining EXCEPT ![c] = call[c].left]
            /\ resetIn' = [resetIn EXCEPT ![c] = call[c].reset]
       ELSE UNCHANGED <<remaining, resetIn>>
    /\ told' = IF kind[c] = "api" /\ call[c].status = "refused" /\ call[c].reset > 0
               THEN told \cup {c} ELSE told
    /\ UNCHANGED <<kind, granted, since, upstream>>

\* ConnectError or TimeoutException, before or after upstream took the request in
NoAnswer(c) ==
    /\ call[c].stage \in {"sending", "answered"}
    /\ Retry(c)
    /\ UNCHANGED <<kind, limiter, upstream, told>>

\* GitHub: the token is paid, and the answer is in the connector's cache
CacheHit(c) ==
    /\ call[c].stage = "sending" /\ call[c].attempt = 1 /\ kind[c] = "github"
    /\ End(c)
    /\ UNCHANGED <<kind, limiter, upstream, told>>

\* Any other exception of the transport
Breaks(c) ==
    /\ call[c].stage \in {"sending", "answered"}
    /\ EndRound(c)
    /\ UNCHANGED <<kind, limiter, upstream, told>>

\* Mutant: the attempts are counted anew after every pause
Resume_Forgets(c) ==
    /\ call[c].stage = "pausing"
    /\ Goto(c, [call[c] EXCEPT !.stage = "asking", !.attempt = 0])
    /\ UNCHANGED <<kind, limiter, upstream, told>>

\* The next attempt takes a token of its own, or is sent as it is
Resume(c) ==
    /\ call[c].stage = "pausing"
    /\ IF PaysEach(c) \/ call[c].attempt = 0
       THEN Goto(c, [call[c] EXCEPT !.stage = "asking"])
       ELSE Send(c)
    /\ UNCHANGED <<kind, limiter, upstream, told>>

\* The caller's time budget is over (asyncio.wait_for), or its job is cancelled
Cancel(c) ==
    /\ call[c].stage # "idle"
    /\ End(c)
    /\ UNCHANGED <<kind, limiter, upstream, told>>

--------------------------------------------------------------------------------
Less(n) == IF n > 0 THEN n - 1 ELSE n

Tick ==
    /\ resetIn' = [c \in Clients |-> Less(resetIn[c])]
    /\ since' = [c \in Clients |-> IF since[c] < Period THEN since[c] + 1 ELSE Period]
    /\ call' = [c \in Clients |-> [call[c] EXCEPT !.wait = Less(@), !.reset = Less(@)]]
    /\ window' = Less(window)
    /\ told' = IF window = 1 THEN {} ELSE told
    /\ UNCHANGED <<kind, remaining, granted, quota>>

Proceed(c) ==
    \/ Renew(c) \/ Spend(c) \/ Sleep(c) \/ Wake(c)
    \/ CacheHit(c) \/ Arrive(c) \/ ArriveAtFiles(c)
    \/ Handle(c) \/ NoAnswer(c) \/ Breaks(c) \/ Resume(c)

Next ==
    \/ \E c \in Clients : Begin(c) \/ Proceed(c) \/ Cancel(c)
    \/ Tick

Spec == Init /\ [][Next]_vars

\* Time passes, the event loop runs what can go on, and every request has a timeout
FairSpec == Spec /\ WF_vars(Tick) /\ \A c \in Clients : WF_vars(Proceed(c))

--------------------------------------------------------------------------------
(* Properties *)

\* The type of every variable; the bucket is never overdrawn.
TypeOK ==
    /\ kind \in [Clients -> Kinds]
    /\ remaining \in [Clients -> Nat]
    /\ resetIn \in [Clients -> NotSet .. Period]
    /\ call \in [Clients -> Calls]
    /\ quota \in 0 .. Quota
    /\ window \in 0 .. Period
    /\ granted \in [Clients -> 0 .. MaxRequests + 2]
    /\ since \in [Clients -> 0 .. Period]
    /\ told \subseteq Clients

\* Where upstream does not say what is left, a client takes no more than one request
\* over its limit in a period (the first token after the last period opens the next),
\* however calls fail, pause, sleep and are cancelled.
\* (The one over is the request that finds reset_at reached and pays no token.)
WindowBudget ==
    \A c \in Clients : kind[c] = "files" => granted[c] <= MaxRequests + 1

\* Once the shared GET has handled a refusal, its client has no request out before
\* upstream's window ends, whatever other clients use of the quota meanwhile.
RefusalHeeded ==
    \A c \in told : call[c].stage \notin {"sending", "answered"}

\* Every call ends, with a response or an error.
EveryCallEnds ==
    \A c \in Clients : call[c].stage # "idle" ~> call[c].stage = "idle"

================================================================================
