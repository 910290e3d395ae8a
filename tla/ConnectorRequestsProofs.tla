------------------------ MODULE ConnectorRequestsProofs ------------------------
(* Theorems about ConnectorRequests, for any clients, limits, periods and attempts *)
EXTENDS ConnectorRequests, TLAPS

\* A call that may still send has an attempt left.
AttemptLeft(c) ==
    call[c].stage \in {"asking", "asleep", "pausing"} => call[c].attempt < Attempts

\* Without upstream's word the limiter's period is the one the history counts in, and
\* what it has granted and what is left exceed the limit by the renewing request only.
Aligned(c) ==
    kind[c] = "files" =>
        /\ granted[c] + remaining[c] <= MaxRequests + 1
        /\ resetIn[c] = NotSet => remaining[c] = MaxRequests
        /\ resetIn[c] <= 0 => since[c] = Period
        /\ resetIn[c] > 0 => resetIn[c] = Period - since[c]
        /\ call[c].stage = "asleep" => call[c].wait = resetIn[c]

\* An answer's reset time is that of upstream's window, unless that window has ended.
AnswerFresh(c) ==
    call[c].stage = "answered" /\ kind[c] # "files" =>
        /\ call[c].reset \in {0, window}
        /\ call[c].status = "refused" => call[c].left = 0

\* A client that knows it was refused has no token until upstream's window ends.
Barred(c) ==
    c \in told =>
        /\ kind[c] = "api" /\ window > 0
        /\ remaining[c] = 0 /\ resetIn[c] = window
        /\ call[c].stage \notin {"sending", "answered"}
        /\ call[c].stage = "asleep" => call[c].wait = window

Fits(c) == AttemptLeft(c) /\ Aligned(c) /\ AnswerFresh(c) /\ Barred(c)

IInv == TypeOK /\ \A c \in Clients : Fits(c)

--------------------------------------------------------------------------------
LEMMA ConstantFacts ==
    /\ MaxRequests \in Nat \ {0} /\ Period \in Nat \ {0} /\ Quota \in Nat \ {0}
    /\ Attempts \in Nat \ {0} /\ FeedTries \in Nat \ {0}
BY ParametersAssumption DEF ParametersAssumption

LEMMA NoCallTyped == NoCall \in Calls
BY ConstantFacts DEF NoCall, Calls, Stages, Statuses

\* A step of one client keeps the invariant of the others, which do not see more of it
\* than that upstream's window is open.
LEMMA OneClientSteps ==
    ASSUME IInv, TypeOK', NEW c \in Clients, Fits(c)',
           kind' = kind, window' = window \/ window = 0,
           \A d \in Clients \ {c} :
               /\ call'[d] = call[d]
               /\ remaining'[d] = remaining[d] /\ resetIn'[d] = resetIn[d]
               /\ granted'[d] = granted[d] /\ since'[d] = since[d]
               /\ d \in told' => d \in told
    PROVE  IInv'
<1> SUFFICES ASSUME NEW d \in Clients \ {c} PROVE Fits(d)'
  BY DEF IInv
<1>1. Fits(d)
  BY DEF IInv
<1>2. AttemptLeft(d)' /\ Aligned(d)'
  BY <1>1 DEF Fits, AttemptLeft, Aligned
<1>3. AnswerFresh(d)'
  BY <1>1 DEF Fits, AnswerFresh
<1>4. Barred(d)'
  BY <1>1 DEF Fits, Barred
<1> QED BY <1>2, <1>3, <1>4 DEF Fits

\* A step that changes a client's call only, to one that waits for no token and no
\* answer, keeps the invariant.
LEMMA CallChanges ==
    ASSUME IInv, NEW c \in Clients, NEW k \in Calls,
           k.stage \in {"idle", "asking", "pausing"},
           k.stage \in {"asking", "pausing"} => k.attempt < Attempts,
           call' = [call EXCEPT ![c] = k],
           UNCHANGED <<kind, limiter, upstream, told>>
    PROVE  IInv'
<1>1. call \in [Clients -> Calls] /\ Fits(c)
  BY DEF IInv, TypeOK
<1>2. call' \in [Clients -> Calls] /\ call'[c] = k
  BY <1>1
<1>3. TypeOK'
  BY <1>2 DEF IInv, TypeOK, limiter, upstream
<1>4. Fits(c)'
  BY <1>1, <1>2 DEF Fits, AttemptLeft, Aligned, AnswerFresh, Barred, limiter, upstream
<1> QED BY <1>1, <1>3, <1>4, OneClientSteps DEF limiter, upstream

\* What Send makes of a call that has an attempt left.
LEMMA SendTyped ==
    ASSUME TypeOK, NEW c \in Clients, AttemptLeft(c), Send(c),
           call[c].stage \in {"asking", "asleep", "pausing"}
    PROVE  /\ call' \in [Clients -> Calls]
           /\ call'[c].stage = "sending"
           /\ \A d \in Clients \ {c} : call'[d] = call[d]
<1> DEFINE sent == [NoCall EXCEPT !.stage = "sending", !.round = call[c].round,
                                  !.attempt = call[c].attempt + 1]
<1>1. call \in [Clients -> Calls] /\ call[c].attempt + 1 \in 0 .. Attempts
  BY ConstantFacts DEF TypeOK, Calls, AttemptLeft
<1>2. sent \in Calls /\ sent.stage = "sending"
  BY <1>1, NoCallTyped DEF Calls, Stages, NoCall
<1>3. call' = [call EXCEPT ![c] = sent]
  BY DEF Send, Goto
<1> HIDE DEF sent
<1> QED BY <1>1, <1>2, <1>3

\* The history of the tokens granted, once a client that may be granted one gets it.
LEMMA GrantTyped ==
    ASSUME TypeOK, NEW c \in Clients, Grant(c)
    PROVE  /\ granted' \in [Clients -> 0 .. MaxRequests + 2]
           /\ since' \in [Clients -> 0 .. Period]
           /\ \A d \in Clients \ {c} : granted'[d] = granted[d] /\ since'[d] = since[d]
           /\ kind[c] = "files" => /\ since'[c] = IF since[c] = Period THEN 0 ELSE since[c]
                                   /\ since[c] = Period => granted'[c] = 1
                                   /\ since[c] < Period => granted'[c] <= granted[c] + 1
BY ConstantFacts DEF TypeOK, Grant

\* A token is granted, and what the limiter keeps stays in line with the history.
LEMMA TokenGranted ==
    ASSUME IInv, NEW c \in Clients, NEW left \in Nat, NEW reset \in NotSet .. Period,
           call[c].stage \in {"asking", "asleep"},
           remaining' = [remaining EXCEPT ![c] = left],
           resetIn' = [resetIn EXCEPT ![c] = reset],
           Grant(c), Send(c), UNCHANGED <<kind, upstream, told>>,
           \/ (kind[c] = "files" => left <= MaxRequests) /\ reset = Period /\ resetIn[c] <= 0
           \/ left = remaining[c] - 1 /\ reset = resetIn[c] /\ resetIn[c] > 0,
           c \notin told
    PROVE  IInv'
<1>1. TypeOK /\ Fits(c)
  BY DEF IInv
<1>2. /\ call' \in [Clients -> Calls] /\ call'[c].stage = "sending"
      /\ \A d \in Clients \ {c} : call'[d] = call[d]
  BY <1>1, SendTyped DEF Fits
<1>3. /\ remaining' \in [Clients -> Nat] /\ remaining'[c] = left
      /\ resetIn' \in [Clients -> NotSet .. Period] /\ resetIn'[c] = reset
      /\ \A d \in Clients \ {c} : remaining'[d] = remaining[d] /\ resetIn'[d] = resetIn[d]
  BY <1>1, ConstantFacts DEF TypeOK
<1>4. TypeOK'
  BY <1>1, <1>2, <1>3, GrantTyped DEF TypeOK, upstream
<1>5. Aligned(c)'
  <2> SUFFICES ASSUME kind[c] = "files" PROVE Aligned(c)'
    BY DEF Aligned
  <2>1. /\ since[c] \in 0 .. Period /\ granted[c] \in Nat /\ granted'[c] \in Nat
        /\ remaining[c] \in Nat /\ resetIn[c] \in NotSet .. Period
    BY <1>1, <1>4 DEF TypeOK
  <2>2. /\ since'[c] = IF since[c] = Period THEN 0 ELSE since[c]
        /\ since[c] = Period => granted'[c] = 1
        /\ since[c] < Period => granted'[c] <= granted[c] + 1
    BY <1>1, GrantTyped
  <2>3. /\ granted[c] + remaining[c] <= MaxRequests + 1
        /\ resetIn[c] <= 0 => since[c] = Period
        /\ resetIn[c] > 0 => resetIn[c] = Period - since[c]
    BY <1>1 DEF Fits, Aligned
  <2> QED BY <1>2, <1>3, <2>1, <2>2, <2>3, ConstantFacts DEF Aligned, NotSet
<1>6. Fits(c)'
  BY <1>1, <1>2, <1>5 DEF Fits, AttemptLeft, AnswerFresh, Barred
<1>7. \A d \in Clients \ {c} : granted'[d] = granted[d] /\ since'[d] = since[d]
  BY <1>1, GrantTyped
<1> QED BY <1>2, <1>3, <1>4, <1>6, <1>7, OneClientSteps DEF upstream

--------------------------------------------------------------------------------
(* Every step keeps the invariant *)

LEMMA BeginKeeps == ASSUME IInv, NEW c \in Clients, Begin(c) PROVE IInv'
<1> DEFINE k == [NoCall EXCEPT !.stage = "asking"]
<1>1. k \in Calls /\ k.stage = "asking" /\ k.attempt < Attempts
  BY NoCallTyped, ConstantFacts DEF Calls, Stages, NoCall
<1>2. call' = [call EXCEPT ![c] = k] /\ UNCHANGED <<kind, limiter, upstream, told>>
  BY DEF Begin, Goto
<1> HIDE DEF k
<1> QED BY <1>1, <1>2, CallChanges

LEMMA RenewKeeps == ASSUME IInv, NEW c \in Clients, Renew(c) PROVE IInv'
<1>1. c \notin told
  BY DEF IInv, Fits, Barred, Renew, TypeOK
<1>2. MaxRequests \in Nat /\ Period \in NotSet .. Period
  BY ConstantFacts DEF NotSet
<1>3. MaxRequests <= MaxRequests /\ resetIn[c] <= 0
  BY ConstantFacts DEF Renew
<1> QED BY <1>1, <1>2, <1>3, TokenGranted DEF Renew

LEMMA SpendKeeps == ASSUME IInv, NEW c \in Clients, Spend(c) PROVE IInv'
<1>1. /\ remaining[c] \in Nat /\ resetIn[c] \in NotSet .. Period
      /\ kind[c] = "files" => remaining[c] <= MaxRequests + 1
  BY ConstantFacts DEF IInv, TypeOK, Fits, Aligned
<1>2. c \notin told
  BY <1>1 DEF IInv, Fits, Barred, Spend
<1> DEFINE left == remaining[c] - 1
<1>3. left \in Nat /\ ResetAt(c) \in NotSet .. Period
  BY <1>1, ConstantFacts DEF Spend, ResetAt, NotSet
<1>4. \/ (kind[c] = "files" => left <= MaxRequests) /\ ResetAt(c) = Period /\ resetIn[c] <= 0
      \/ left = remaining[c] - 1 /\ ResetAt(c) = resetIn[c] /\ resetIn[c] > 0
  BY <1>1, ConstantFacts DEF Spend, ResetAt, NotSet
<1> QED BY <1>2, <1>3, <1>4, TokenGranted DEF Spend

LEMMA SleepKeeps == ASSUME IInv, NEW c \in Clients, Sleep(c) PROVE IInv'
<1>1. TypeOK /\ Fits(c) /\ call[c] \in Calls /\ resetIn[c] \in NotSet .. Period
  BY DEF IInv, TypeOK
<1> DEFINE k == [call[c] EXCEPT !.stage = "asleep", !.wait = ResetAt(c)]
<1>2. ResetAt(c) \in 0 .. Period /\ ResetAt(c) \in NotSet .. Period
  BY <1>1, ConstantFacts DEF ResetAt, Sleep, NotSet
<1>3. /\ k \in Calls /\ k.stage = "asleep" /\ k.wait = ResetAt(c) /\ k.attempt = call[c].attempt
  BY <1>1, <1>2 DEF Calls, Stages
<1>4. call' = [call EXCEPT ![c] = k]
  BY DEF Sleep, Goto
<1> HIDE DEF k
<1>5. /\ call' \in [Clients -> Calls] /\ call'[c] = k
      /\ \A d \in Clients \ {c} : call'[d] = call[d] /\ resetIn'[d] = resetIn[d]
      /\ resetIn' \in [Clients -> NotSet .. Period] /\ resetIn'[c] = ResetAt(c)
  BY <1>1, <1>2, <1>3, <1>4 DEF TypeOK, Sleep
<1>6. TypeOK'
  BY <1>1, <1>5 DEF TypeOK, Sleep, upstream
<1>7. AttemptLeft(c)' /\ AnswerFresh(c)'
  BY <1>1, <1>3, <1>5 DEF Fits, AttemptLeft, AnswerFresh, Sleep
<1>8. Barred(c)'
  BY <1>1, <1>3, <1>5 DEF Fits, Barred, Sleep, ResetAt, NotSet, upstream, TypeOK
<1>9. Aligned(c)'
  <2>1. since[c] \in 0 .. Period
    BY <1>1 DEF TypeOK
  <2>2. kind[c] = "files" => resetIn[c] > 0
    BY <1>1, ConstantFacts DEF Fits, Aligned, Sleep, NotSet, TypeOK
  <2> QED BY <1>1, <1>3, <1>5, <2>1, <2>2, ConstantFacts
          DEF Fits, Aligned, Sleep, ResetAt, NotSet
<1> QED BY <1>5, <1>6, <1>7, <1>8, <1>9, OneClientSteps DEF Fits, Sleep, upstream

LEMMA WakeKeeps == ASSUME IInv, NEW c \in Clients, Wake(c) PROVE IInv'
<1>1. Fits(c) /\ TypeOK /\ MaxRequests - 1 \in Nat /\ Period \in NotSet .. Period
  BY ConstantFacts DEF IInv, NotSet
<1>2. c \notin told
  BY <1>1 DEF Fits, Barred, Wake, TypeOK
<1>3. CASE kind[c] = "files"
  <2>1. resetIn[c] <= 0 /\ MaxRequests - 1 <= MaxRequests
    BY <1>1, <1>3, ConstantFacts DEF Fits, Aligned, Wake
  <2> QED BY <1>1, <1>2, <2>1, TokenGranted DEF Wake
<1>4. CASE kind[c] # "files"
  <2>1. /\ call' \in [Clients -> Calls] /\ call'[c].stage = "sending"
        /\ \A d \in Clients \ {c} : call'[d] = call[d]
    BY <1>1, SendTyped DEF Fits, Wake
  <2>2. granted' = granted /\ since' = since
    BY <1>4 DEF Wake, Grant
  <2>3. TypeOK'
    BY <1>1, <2>1, <2>2 DEF TypeOK, Wake, upstream
  <2>4. Fits(c)'
    BY <1>1, <1>2, <1>4, <2>1 DEF Fits, AttemptLeft, Aligned, AnswerFresh, Barred, Wake
  <2>5. \A d \in Clients \ {c} : remaining'[d] = remaining[d] /\ resetIn'[d] = resetIn[d]
    BY <1>1 DEF Wake, TypeOK
  <2> QED BY <2>1, <2>2, <2>3, <2>4, <2>5, OneClientSteps DEF Wake, upstream
<1> QED BY <1>3, <1>4

\* An answer keeps the invariant when its reset time is that of the window it leaves.
LEMMA AnswerKeeps ==
    ASSUME IInv, NEW c \in Clients, NEW status \in Statuses, NEW left \in 0 .. Quota,
           NEW reset \in 0 .. Period, Answer(c, status, left, reset),
           call[c].stage = "sending", UNCHANGED <<kind, limiter, told>>,
           quota' \in 0 .. Quota, window' \in 0 .. Period, window' = window \/ window = 0,
           kind[c] # "files" => reset = window' /\ (status = "refused" => left = 0)
    PROVE  IInv'
<1>1. TypeOK /\ Fits(c) /\ call[c] \in Calls
  BY DEF IInv, TypeOK
<1> DEFINE k == [call[c] EXCEPT !.stage = "answered", !.status = status, !.left = left,
                                !.reset = reset]
<1>2. /\ k \in Calls /\ k.stage = "answered" /\ k.status = status /\ k.left = left
      /\ k.reset = reset
  BY <1>1 DEF Calls, Stages
<1>3. call' = [call EXCEPT ![c] = k]
  BY DEF Answer, Goto
<1> HIDE DEF k
<1>4. /\ call' \in [Clients -> Calls] /\ call'[c] = k
      /\ \A d \in Clients \ {c} : call'[d] = call[d]
  BY <1>1, <1>2, <1>3 DEF TypeOK
<1>5. TypeOK'
  BY <1>1, <1>4 DEF TypeOK, limiter
<1>6. AttemptLeft(c)' /\ Aligned(c)'
  BY <1>1, <1>2, <1>4 DEF Fits, AttemptLeft, Aligned, limiter
<1>7. AnswerFresh(c)' /\ Barred(c)'
  BY <1>1, <1>2, <1>4 DEF Fits, AnswerFresh, Barred
<1> QED BY <1>4, <1>5, <1>6, <1>7, OneClientSteps DEF Fits, limiter

LEMMA ArriveKeeps == ASSUME IInv, NEW c \in Clients, Arrive(c) PROVE IInv'
<1>1. quota \in 0 .. Quota /\ window \in 0 .. Period
  BY DEF IInv, TypeOK
<1> DEFINE left == IF window = 0 THEN Quota ELSE quota
           open == IF window = 0 THEN Period ELSE window
<1>2. left \in 0 .. Quota /\ open \in 0 .. Period
  BY <1>1, ConstantFacts
<1>3. CASE left > 0
  <2>1. left - 1 \in 0 .. Quota /\ quota' = left - 1 /\ window' = open
    BY <1>2, <1>3, ConstantFacts DEF Arrive
  <2>2. PICK status \in {"final", "failed"} : Answer(c, status, left - 1, open)
    BY <1>3 DEF Arrive
  <2>3. status \in Statuses /\ status # "refused"
    BY DEF Statuses
  <2>4. window' = window \/ window = 0
    BY <2>1
  <2> QED BY <1>2, <2>1, <2>2, <2>3, <2>4, AnswerKeeps DEF Arrive
<1>4. CASE ~(left > 0)
  <2>1. Answer(c, "refused", 0, window) /\ quota' = quota /\ window' = window
    BY <1>4 DEF Arrive, upstream
  <2>2. "refused" \in Statuses /\ 0 \in 0 .. Quota
    BY ConstantFacts DEF Statuses
  <2> QED BY <1>1, <2>1, <2>2, AnswerKeeps DEF Arrive
<1> QED BY <1>3, <1>4

LEMMA ArriveAtFilesKeeps == ASSUME IInv, NEW c \in Clients, ArriveAtFiles(c) PROVE IInv'
<1>1. quota \in 0 .. Quota /\ window \in 0 .. Period
  BY DEF IInv, TypeOK
<1>2. 0 \in 0 .. Quota /\ 0 \in 0 .. Period
  BY ConstantFacts
<1>3. PICK status \in Statuses : Answer(c, status, 0, 0)
  BY DEF ArriveAtFiles
<1> QED BY <1>1, <1>2, <1>3, AnswerKeeps DEF ArriveAtFiles, upstream

\* A call that is over, or that pauses with an attempt left
Resting == {k \in Calls : \/ k.stage = "idle"
                          \/ k.stage = "pausing" /\ k.attempt < Attempts}

LEMMA EndRests == ASSUME TypeOK, NEW c \in Clients, End(c)
                  PROVE \E k \in Resting : call' = [call EXCEPT ![c] = k]
BY NoCallTyped DEF End, Goto, Resting, NoCall

LEMMA PauseRests ==
    ASSUME TypeOK, NEW c \in Clients, NEW round \in 1 .. FeedTries, NEW attempt \in 0 .. Attempts,
           attempt < Attempts, Pause(c, round, attempt)
    PROVE  \E k \in Resting : call' = [call EXCEPT ![c] = k]
<1> DEFINE k == [NoCall EXCEPT !.stage = "pausing", !.round = round, !.attempt = attempt]
<1>1. k \in Calls /\ k.stage = "pausing" /\ k.attempt = attempt
  BY NoCallTyped DEF Calls, Stages, NoCall
<1>2. call' = [call EXCEPT ![c] = k]
  BY DEF Pause, Goto
<1> HIDE DEF k
<1> QED BY <1>1, <1>2 DEF Resting

LEMMA EndRoundRests == ASSUME TypeOK, NEW c \in Clients, EndRound(c)
                       PROVE \E k \in Resting : call' = [call EXCEPT ![c] = k]
<1>1. call[c].round \in 1 .. FeedTries
  BY DEF TypeOK, Calls
<1>2. CASE call[c].round < Rounds(c)
  <2>1. call[c].round + 1 \in 1 .. FeedTries
    BY <1>1, <1>2, ConstantFacts DEF Rounds
  <2>2. 0 \in 0 .. Attempts /\ 0 < Attempts
    BY ConstantFacts
  <2> QED BY <1>2, <2>1, <2>2, PauseRests DEF EndRound
<1>3. CASE ~(call[c].round < Rounds(c))
  BY <1>3, EndRests DEF EndRound
<1> QED BY <1>2, <1>3

LEMMA RetryRests == ASSUME TypeOK, NEW c \in Clients, Retry(c)
                    PROVE \E k \in Resting : call' = [call EXCEPT ![c] = k]
<1>1. call[c].round \in 1 .. FeedTries /\ call[c].attempt \in 0 .. Attempts
  BY DEF TypeOK, Calls
<1>2. CASE call[c].attempt < Attempts
  BY <1>1, <1>2, PauseRests DEF Retry
<1>3. CASE ~(call[c].attempt < Attempts)
  BY <1>3, EndRoundRests DEF Retry
<1> QED BY <1>2, <1>3

LEMMA RestKeeps ==
    ASSUME IInv, NEW c \in Clients, UNCHANGED <<kind, limiter, upstream, told>>,
           \E k \in Resting : call' = [call EXCEPT ![c] = k]
    PROVE  IInv'
<1>1. PICK k \in Resting : call' = [call EXCEPT ![c] = k]
  OBVIOUS
<1> QED BY <1>1, CallChanges DEF Resting

LEMMA NoAnswerKeeps == ASSUME IInv, NEW c \in Clients, NoAnswer(c) PROVE IInv'
BY RetryRests, RestKeeps DEF NoAnswer, IInv

LEMMA BreaksKeeps == ASSUME IInv, NEW c \in Clients, Breaks(c) PROVE IInv'
BY EndRoundRests, RestKeeps DEF Breaks, IInv

LEMMA CacheHitKeeps == ASSUME IInv, NEW c \in Clients, CacheHit(c) PROVE IInv'
BY EndRests, RestKeeps DEF CacheHit, IInv

LEMMA CancelKeeps == ASSUME IInv, NEW c \in Clients, Cancel(c) PROVE IInv'
BY EndRests, RestKeeps DEF Cancel, IInv

LEMMA HandleKeeps == ASSUME IInv, NEW c \in Clients, Handle(c) PROVE IInv'
<1>1. TypeOK /\ Fits(c) /\ call[c] \in Calls /\ call[c].stage = "answered"
  BY DEF IInv, TypeOK, Handle
<1>2. PICK k \in Resting : call' = [call EXCEPT ![c] = k]
  BY <1>1, EndRests, RetryRests DEF Handle
<1>3. /\ call' \in [Clients -> Calls] /\ call'[c] = k
      /\ \A d \in Clients \ {c} : call'[d] = call[d]
  BY <1>1, <1>2 DEF TypeOK, Resting
<1>4. /\ remaining' \in [Clients -> Nat] /\ resetIn' \in [Clients -> NotSet .. Period]
      /\ \A d \in Clients \ {c} : remaining'[d] = remaining[d] /\ resetIn'[d] = resetIn[d]
  BY <1>1, ConstantFacts DEF Handle, TypeOK, Calls, NotSet
<1>5. told' \subseteq Clients /\ \A d \in Clients \ {c} : d \in told' => d \in told
  BY <1>1 DEF Handle, TypeOK
<1>6. TypeOK'
  BY <1>1, <1>3, <1>4, <1>5 DEF TypeOK, Handle, upstream
<1>7. AttemptLeft(c)' /\ AnswerFresh(c)'
  BY <1>3 DEF AttemptLeft, AnswerFresh, Resting
<1>8. Aligned(c)'
  <2>1. kind[c] = "files" => remaining' = remaining /\ resetIn' = resetIn
    BY DEF Handle, Learns
  <2> QED BY <1>1, <1>3, <2>1 DEF Fits, Aligned, Handle, Resting
<1>9. Barred(c)'
  <2> SUFFICES ASSUME c \in told' PROVE Barred(c)'
    BY DEF Barred
  <2>1. kind[c] = "api" /\ call[c].status = "refused" /\ call[c].reset > 0
    BY <1>1 DEF Fits, Barred, Handle
  <2>2. call[c].left = 0 /\ call[c].reset = window
    BY <1>1, <2>1 DEF Fits, AnswerFresh
  <2>3. remaining'[c] = 0 /\ resetIn'[c] = window
    BY <1>1, <2>1, <2>2 DEF Handle, Learns, TypeOK
  <2> QED BY <1>3, <2>1, <2>2, <2>3 DEF Barred, Handle, upstream, Resting
<1> QED BY <1>3, <1>4, <1>5, <1>6, <1>7, <1>8, <1>9, OneClientSteps DEF Fits, Handle, upstream

LEMMA ResumeKeeps == ASSUME IInv, NEW c \in Clients, Resume(c) PROVE IInv'
<1>1. TypeOK /\ Fits(c) /\ call[c] \in Calls /\ call[c].stage = "pausing"
  BY DEF IInv, TypeOK, Resume
<1>2. CASE PaysEach(c) \/ call[c].attempt = 0
  <2> DEFINE k == [call[c] EXCEPT !.stage = "asking"]
  <2>1. k \in Calls /\ k.stage = "asking" /\ k.attempt = call[c].attempt
    BY <1>1 DEF Calls, Stages
  <2>2. call' = [call EXCEPT ![c] = k] /\ UNCHANGED <<kind, limiter, upstream, told>>
    BY <1>2 DEF Resume, Goto
  <2> HIDE DEF k
  <2>3. k.attempt < Attempts
    BY <1>1, <2>1 DEF Fits, AttemptLeft
  <2> QED BY <2>1, <2>2, <2>3, CallChanges
<1>3. CASE ~(PaysEach(c) \/ call[c].attempt = 0)
  <2>1. Send(c) /\ UNCHANGED <<kind, limiter, upstream, told>>
    BY <1>3 DEF Resume
  <2>2. /\ call' \in [Clients -> Calls] /\ call'[c].stage = "sending"
        /\ \A d \in Clients \ {c} : call'[d] = call[d]
    BY <1>1, <2>1, SendTyped DEF Fits
  <2>3. TypeOK'
    BY <1>1, <2>1, <2>2 DEF TypeOK, limiter, upstream
  <2>4. Fits(c)'
    BY <1>1, <1>3, <2>1, <2>2
       DEF Fits, AttemptLeft, Aligned, AnswerFresh, Barred, PaysEach, limiter, upstream
  <2> QED BY <2>1, <2>2, <2>3, <2>4, OneClientSteps DEF limiter, upstream
<1> QED BY <1>2, <1>3

LEMMA TickKeeps == ASSUME IInv, Tick PROVE IInv'
<1>1. TypeOK /\ \A c \in Clients : Fits(c)
  BY DEF IInv
<1>2. ASSUME NEW c \in Clients
      PROVE  /\ call'[c] \in Calls /\ call'[c].stage = call[c].stage
             /\ call'[c].attempt = call[c].attempt /\ call'[c].status = call[c].status
             /\ call'[c].left = call[c].left
             /\ call'[c].wait = Less(call[c].wait) /\ call'[c].reset = Less(call[c].reset)
  <2> DEFINE k == [call[c] EXCEPT !.wait = Less(call[c].wait), !.reset = Less(call[c].reset)]
  <2>1. call[c] \in Calls
    BY <1>1 DEF TypeOK
  <2>2. Less(call[c].wait) \in 0 .. Period /\ Less(call[c].reset) \in 0 .. Period
    BY <2>1, ConstantFacts DEF Calls, Less
  <2>3. /\ k \in Calls /\ k.stage = call[c].stage /\ k.attempt = call[c].attempt
        /\ k.status = call[c].status /\ k.left = call[c].left
        /\ k.wait = Less(call[c].wait) /\ k.reset = Less(call[c].reset)
    BY <2>1, <2>2 DEF Calls
  <2>4. call'[c] = k
    BY DEF Tick
  <2> HIDE DEF k
  <2> QED BY <2>3, <2>4
<1>3. call' \in [Clients -> Calls]
  BY <1>2 DEF Tick
<1>4. ASSUME NEW c \in Clients
      PROVE  /\ resetIn'[c] = Less(resetIn[c]) /\ resetIn'[c] \in NotSet .. Period
             /\ since'[c] = (IF since[c] < Period THEN since[c] + 1 ELSE Period)
             /\ since'[c] \in 0 .. Period
  <2>1. resetIn[c] \in NotSet .. Period /\ since[c] \in 0 .. Period
    BY <1>1 DEF TypeOK
  <2>2. /\ resetIn'[c] = Less(resetIn[c])
        /\ since'[c] = (IF since[c] < Period THEN since[c] + 1 ELSE Period)
    BY DEF Tick
  <2>3. Less(resetIn[c]) \in NotSet .. Period
    BY <2>1, ConstantFacts DEF Less, NotSet
  <2> QED BY <2>1, <2>2, <2>3, ConstantFacts
<1>5. window' \in 0 .. Period /\ window' = Less(window) /\ told' \subseteq told
  <2>1. window \in 0 .. Period
    BY <1>1 DEF TypeOK
  <2>2. Less(window) \in 0 .. Period
    BY <2>1, ConstantFacts DEF Less
  <2>3. told' \subseteq told
    BY DEF Tick
  <2> QED BY <2>2, <2>3 DEF Tick
<1>6. TypeOK'
  <2>1. resetIn' \in [Clients -> NotSet .. Period] /\ since' \in [Clients -> 0 .. Period]
    BY <1>4 DEF Tick
  <2> QED BY <1>1, <1>3, <1>5, <2>1 DEF TypeOK, Tick
<1>7. ASSUME NEW c \in Clients PROVE Fits(c)'
  <2>1. Fits(c) /\ call[c] \in Calls /\ resetIn[c] \in NotSet .. Period /\ since[c] \in 0 .. Period
    BY <1>1 DEF TypeOK
  <2>2. AttemptLeft(c)'
    BY <1>2, <2>1 DEF Fits, AttemptLeft
  <2> kind' = kind /\ remaining' = remaining /\ granted' = granted
    BY DEF Tick
  <2>3. Aligned(c)'
    BY <1>2, <1>4, <2>1, ConstantFacts DEF Fits, Aligned, Less, NotSet
  <2>4. AnswerFresh(c)'
    BY <1>2, <1>5, <2>1 DEF Fits, AnswerFresh, Less
  <2>5. Barred(c)'
    <3> SUFFICES ASSUME c \in told' PROVE Barred(c)'
      BY DEF Barred
    <3>1. window # 1 /\ window \in 0 .. Period
      BY <1>1 DEF Tick, TypeOK
    <3>2. c \in told
      BY <1>5
    <3> QED BY <1>2, <1>4, <1>5, <2>1, <3>1, <3>2 DEF Fits, Barred, Less
  <2> QED BY <2>2, <2>3, <2>4, <2>5 DEF Fits
<1> QED BY <1>6, <1>7 DEF IInv

--------------------------------------------------------------------------------
LEMMA InitKeeps == Init => IInv
<1> SUFFICES ASSUME Init PROVE IInv
  OBVIOUS
<1>1. TypeOK
  BY NoCallTyped, ConstantFacts DEF Init, TypeOK, Kinds, NotSet
<1>2. ASSUME NEW c \in Clients PROVE Fits(c)
  BY ConstantFacts
     DEF Init, NoCall, NotSet, Fits, AttemptLeft, Aligned, AnswerFresh, Barred
<1> QED BY <1>1, <1>2 DEF IInv

LEMMA StepKeeps == IInv /\ [Next]_vars => IInv'
<1> SUFFICES ASSUME IInv, [Next]_vars PROVE IInv'
  OBVIOUS
<1>1. ASSUME NEW c \in Clients, Proceed(c) PROVE IInv'
  BY <1>1, RenewKeeps, SpendKeeps, SleepKeeps, WakeKeeps, CacheHitKeeps, ArriveKeeps,
     ArriveAtFilesKeeps, HandleKeeps, NoAnswerKeeps, BreaksKeeps, ResumeKeeps DEF Proceed
<1>2. CASE UNCHANGED vars
  BY <1>2 DEF vars, IInv, TypeOK, Fits, AttemptLeft, Aligned, AnswerFresh, Barred
<1> QED BY <1>1, <1>2, BeginKeeps, CancelKeeps, TickKeeps DEF Next

\* The inductive invariant: one part for each client, and none of them disturbs another's.
THEOREM Invariance == Spec => []IInv
BY InitKeeps, StepKeeps, PTL DEF Spec

\* Every variable keeps its type: the bucket is never overdrawn and no loop of retries
\* goes past its attempts, for any number of clients.
THEOREM TypeCorrect == Spec => []TypeOK
<1>1. IInv => TypeOK
  BY DEF IInv
<1> QED BY <1>1, Invariance, PTL

\* For every limit and period: no client of plain files is granted more than one token
\* over its limit in a period.
THEOREM LimitKept == Spec => []WindowBudget
<1>1. IInv => WindowBudget
  BY ConstantFacts DEF IInv, TypeOK, Fits, Aligned, WindowBudget
<1> QED BY <1>1, Invariance, PTL

\* For any number of clients that use up the same quota: who has been refused sends
\* nothing before upstream's window ends.
THEOREM RefusalsAreHeeded == Spec => []RefusalHeeded
<1>1. IInv => RefusalHeeded
  BY DEF IInv, TypeOK, Fits, Barred, RefusalHeeded
<1> QED BY <1>1, Invariance, PTL
================================================================================
