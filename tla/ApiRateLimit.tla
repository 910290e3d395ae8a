----------------------------- MODULE ApiRateLimit ------------------------------
(***************************************************************************)
(* The request limit of the API (api/rate_limit.py) for one identity, an   *)
(* API key or an address; identities share nothing.  Several API processes *)
(* count in one Redis key per window.  A process whose call fails decides  *)
(* on a sliding log of its own, one request at a time: the next request    *)
(* asks Redis again.  Times are seconds; a window is Window of them.       *)
(***************************************************************************)
EXTENDS Integers, FiniteSets, SequencesExt

CONSTANTS
    Processes,    \* API processes
    AskCount,     \* requests of the identity, in the order they come
    Quota,        \* API_RATE_LIMIT
    Window,       \* 60 seconds
    LastSecond,   \* bound: seconds
    MaxRefused    \* bound: calls of Redis that fail

ASSUME RateLimitAssumption ==
    /\ AskCount \in Nat /\ Quota \in Nat \ {0} /\ Window \in Nat \ {0}
    /\ LastSecond \in Nat /\ MaxRefused \in Nat
    /\ Processes \cap {"redis", "nobody"} = {}

VARIABLES
    second,    \* the clock
    shared,    \* REDIS_URL is set: build_rate_limiter makes a RedisRateLimiter
    counter,   \* Redis: the count of each window's key
    expiry,    \* Redis: when the key goes; 0 while no expiry is set
    hits,      \* each process's log of requests it let through by itself
    ask,       \* where each request is
    told,      \* history: the latest refusal to wait that nobody has asked after
    refusals   \* calls of Redis that failed

limitVars == <<second, shared, counter, expiry, hits, ask, told, refusals>>

Asks      == 1 .. AskCount
Windows   == 0 .. LastSecond \div Window
WindowOf(t) == t \div Window
Nobody    == "nobody"
NoRefusal == [by |-> Nobody, until |-> 0]

Unasked == [at |-> "new", began |-> 0, process |-> Nobody, by |-> Nobody,
            allowed |-> FALSE, decided |-> 0]

RateLimitInit ==
    /\ second = 0 /\ shared \in BOOLEAN
    /\ counter = [w \in Windows |-> 0] /\ expiry = [w \in Windows |-> 0]
    /\ hits = [p \in Processes |-> <<>>]
    /\ ask = [r \in Asks |-> Unasked]
    /\ told = NoRefusal /\ refusals = 0

\* check reads the clock and names the key before it calls
Begin(r, p) ==
    /\ ask[r].at = "new" /\ \A q \in 1 .. r - 1 : ask[q].at # "new"
    /\ ask' = [ask EXCEPT ![r] = [Unasked EXCEPT !.at = IF shared THEN "incr" ELSE "log",
                                                 !.began = second, !.process = p]]
    /\ told' = NoRefusal
    /\ UNCHANGED <<second, shared, counter, expiry, hits, refusals>>

\* The middleware answers 429 with Retry-After, or lets the request through
Answer(r, who, ok, until) ==
    /\ ask' = [ask EXCEPT ![r] = [@ EXCEPT !.at = "done", !.by = who, !.allowed = ok,
                                           !.decided = second]]
    /\ told' = IF ok \/ until <= second THEN NoRefusal ELSE [by |-> who, until |-> until]

\* reset_in: what is left of the window the request began in
AnswerShared(r, count) ==
    Answer(r, "redis", count <= Quota, (WindowOf(ask[r].began) + 1) * Window)

\* INCR; the first of a window is followed by EXPIRE
Incr(r) ==
    LET w == WindowOf(ask[r].began)
    IN  /\ ask[r].at = "incr"
        /\ counter' = [counter EXCEPT ![w] = @ + 1]
        /\ IF counter[w] = 0
           THEN ask' = [ask EXCEPT ![r].at = "expire"] /\ UNCHANGED told
           ELSE AnswerShared(r, counter[w] + 1)
        /\ UNCHANGED <<second, shared, expiry, hits, refusals>>

Expire(r) ==
    LET w == WindowOf(ask[r].began)
    IN  /\ ask[r].at = "expire"
        /\ expiry' = [expiry EXCEPT ![w] = IF counter[w] > 0 THEN second + Window ELSE 0]
        /\ AnswerShared(r, 1)
        /\ UNCHANGED <<second, shared, counter, hits, refusals>>

\* The call fails before Redis counted, or its answer is lost
Fail(r) ==
    /\ ask[r].at \in {"incr", "expire"} /\ refusals < MaxRefused
    /\ refusals' = refusals + 1
    /\ counter' \in {counter} \cup
           (IF ask[r].at = "incr" THEN {[counter EXCEPT ![WindowOf(ask[r].began)] = @ + 1]} ELSE {})
    /\ ask' = [ask EXCEPT ![r].at = "log"]
    /\ UNCHANGED <<second, shared, expiry, hits, told>>

\* popleft drops what is older than a window from the front
Recent(p) ==
    LET young == {i \in DOMAIN hits[p] : hits[p][i] > second - Window}
    IN  IF young = {} THEN <<>> ELSE SubSeq(hits[p], Min(young), Len(hits[p]))

\* Mutant: one more than the limit is let through
CheckLog_OneMore(r) ==
    LET p == ask[r].process  log == Recent(p)
    IN  /\ ask[r].at = "log"
        /\ hits' = [hits EXCEPT ![p] = IF Len(log) > Quota THEN log ELSE Append(log, second)]
        /\ Answer(r, p, Len(log) <= Quota, Head(log) + Window + 1)
        /\ UNCHANGED <<second, shared, counter, expiry, refusals>>
\* InMemoryRateLimiter.check: nothing is awaited in it
CheckLog(r) ==
    LET p == ask[r].process  log == Recent(p)
    IN  /\ ask[r].at = "log"
        /\ hits' = [hits EXCEPT ![p] = IF Len(log) >= Quota THEN log ELSE Append(log, second)]
        /\ Answer(r, p, Len(log) < Quota, Head(log) + Window + 1)
        /\ UNCHANGED <<second, shared, counter, expiry, refusals>>

\* A second passes; keys whose time has come are gone
NextSecond ==
    LET gone(w) == expiry[w] # 0 /\ expiry[w] <= second + 1
    IN  /\ second < LastSecond
        /\ second' = second + 1
        /\ counter' = [w \in Windows |-> IF gone(w) THEN 0 ELSE counter[w]]
        /\ expiry'  = [w \in Windows |-> IF gone(w) THEN 0 ELSE expiry[w]]
        /\ UNCHANGED <<shared, hits, ask, told, refusals>>

RateLimitNext ==
    \/ NextSecond
    \/ \E r \in Asks : \/ \E p \in Processes : Begin(r, p)
                       \/ Incr(r) \/ Expire(r) \/ Fail(r) \/ CheckLog(r)

RateLimitSpec == RateLimitInit /\ [][RateLimitNext]_limitVars

--------------------------------------------------------------------------------

RateLimitTypeOK ==
    /\ second \in 0 .. LastSecond /\ shared \in BOOLEAN
    /\ counter \in [Windows -> 0 .. AskCount]
    /\ expiry \in [Windows -> 0 .. LastSecond + Window]
    /\ \A p \in Processes : hits[p] \in Seq(0 .. LastSecond)
    /\ ask \in [Asks -> [at : {"new", "incr", "expire", "log", "done"}, began : 0 .. LastSecond,
                         process : Processes \cup {Nobody},
                         by : Processes \cup {Nobody, "redis"},
                         allowed : BOOLEAN, decided : 0 .. LastSecond]]
    /\ told \in [by : Processes \cup {Nobody, "redis"}, until : Nat]
    /\ refusals \in 0 .. MaxRefused

Admitted(t) == {r \in Asks : ask[r].allowed /\ ask[r].decided \in t .. t + Window - 1}
Late(r)     == ask[r].by = "redis" /\ WindowOf(ask[r].began) # WindowOf(ask[r].decided)

\* However Redis comes and goes, what a client gets within the length of a window is one
\* quota for each key it was counted on, and one for each process that decided alone;
\* beyond that, only requests counted after their window was over
Budget ==
    \A t \in 0 .. LastSecond :
        LET keys  == {WindowOf(ask[r].began) : r \in {s \in Admitted(t) : ask[s].by = "redis"}}
            alone == {ask[r].by : r \in Admitted(t)} \cap Processes
        IN  Cardinality({r \in Admitted(t) : ~Late(r)})
                <= Quota * (Cardinality(keys) + Cardinality(alone))

\* A client that waits as long as its refusal says, alone, is let through by whoever refused it
RetryAfterKept ==
    (told # NoRefusal /\ second >= told.until /\ \A r \in Asks : ask[r].at \in {"new", "done"})
    => IF told.by = "redis"
       THEN counter[WindowOf(second)] < Quota
       ELSE Len(Recent(told.by)) < Quota

LimiterHonest == Budget /\ RetryAfterKept

================================================================================
