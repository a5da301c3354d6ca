---------------------------- MODULE ProviderCalls ----------------------------
(***************************************************************************)
(* Calls to one provider, made by several goroutines at once: a Gemini     *)
(* call goes through circuit breaker, retries and the minute and day       *)
(* limits; an HTTP call through circuit breaker, retries and a token       *)
(* bucket; a call to Ollama or Docling through its client's permits and    *)
(* the accelerator gate that the local clients share.                      *)
(*                                                                         *)
(* Breaker and limiter belong to one provider, so that providers do not    *)
(* meet: kind says which one a behaviour is about.  Time is what it brings *)
(* about: a timeout that is over, a minute or a day that has passed.       *)
(***************************************************************************)
EXTENDS Integers, FiniteSets

CONSTANTS
  Callers,            \* goroutines that make calls
  Clients,            \* local clients: the Ollama generator, its embedder, Docling
  Docling,            \* the client that may convert a second time, with OCR
  Concurrency,        \* permits of each local client
  MaxConcurrent,      \* permits of the gate
  FailureThreshold, SuccessThreshold,   \* of the circuit breaker
  MaxRetries,         \* retries of one call
  Burst,              \* tokens of the bucket
  RPM, RPD,           \* requests per minute and per day
  None                \* no caller, no client

ASSUME LimitsAssumption ==
  /\ {FailureThreshold, SuccessThreshold, Burst, RPM, RPD, Concurrency, MaxConcurrent}
       \subseteq Nat \ {0}
  /\ MaxRetries \in Nat
ASSUME NoneAssumption == None \notin Callers \cup Clients

VARIABLES
  kind,      \* "gemini", "http" or "local"
  breaker,   \* the CircuitBreaker; ripe: OpenTimeout has passed since the last failure
  tokens,    \* TokenBucket.tokens, as whole tokens
  minute,    \* LLMRateLimiter: minuteCount, whether minuteStart is a minute ago, minuteMu
  day,       \* the same of the day, whose mutex is never held across a step
  permits,   \* permits taken of each local client
  gate,      \* permits taken of the accelerator gate
  call,      \* the call each caller is in
  streak,    \* history: successes reported since the last failure, up to the threshold
  granted,   \* history: requests granted in the current minute
  late       \* history: a call reported to a half-open breaker without being its probe

vars == <<kind, breaker, tokens, minute, day, permits, gate, call, streak, granted, late>>
limits == <<tokens, minute, day, granted>>
local  == <<permits, gate>>

Kinds  == {"gemini", "http", "local"}
States == {"closed", "open", "half-open"}
PCs    == {"idle", "wait", "sleep", "awake", "day", "send", "backoff", "after",
           "permit", "gate", "release", "give back"}

NoCall == [pc |-> "idle", attempt |-> 0, ended |-> FALSE, failed |-> FALSE,
           probe |-> FALSE, client |-> None]

Init ==
  /\ kind \in Kinds
  /\ breaker = [state |-> "closed", failures |-> 0, successes |-> 0,
                probeInFlight |-> FALSE, ripe |-> FALSE]
  /\ tokens = Burst
  /\ minute = [count |-> 0, over |-> FALSE, lock |-> None]
  /\ day = [count |-> 0, over |-> FALSE]
  /\ permits = [l \in Clients |-> 0] /\ gate = 0
  /\ call = [c \in Callers |-> NoCall]
  /\ streak = 0 /\ granted = 0 /\ late = FALSE

Goto(c, pc) == call' = [call EXCEPT ![c].pc = pc]

-------------------------------------------------------------------------------
(* CircuitBreaker *)

SetState(b, s) ==
  IF b.state = s THEN b
  ELSE CASE s = "closed"    -> [b EXCEPT !.state = s, !.failures = 0, !.successes = 0]
         [] s = "open"      -> [b EXCEPT !.state = s, !.probeInFlight = FALSE]
         [] s = "half-open" -> [b EXCEPT !.state = s]

OnSuccess(b) ==
  LET r == [b EXCEPT !.failures = 0]
      n == b.successes + 1
  IN IF b.state # "half-open" THEN r
     ELSE IF n >= SuccessThreshold THEN SetState([r EXCEPT !.successes = n], "closed")
     ELSE [r EXCEPT !.successes = n]

\* Faulty OnFailure: successes of an earlier recovery count for the next.
OnFailureKeepsSuccesses(b) ==
  LET n == IF b.failures < FailureThreshold THEN b.failures + 1 ELSE b.failures
      r == [b EXCEPT !.failures = n, !.ripe = FALSE]
  IN IF b.state = "half-open" \/ (b.state = "closed" /\ n >= FailureThreshold)
       THEN SetState(r, "open") ELSE r

\* Failures are counted up to the threshold: more make no difference.
OnFailure(b) ==
  LET n == IF b.failures < FailureThreshold THEN b.failures + 1 ELSE b.failures
      r == [b EXCEPT !.successes = 0, !.failures = n, !.ripe = FALSE]
  IN IF b.state = "half-open" \/ (b.state = "closed" /\ n >= FailureThreshold)
       THEN SetState(r, "open") ELSE r

Admits(b) == \/ b.state = "closed"
             \/ b.state = "open" /\ b.ripe
             \/ b.state = "half-open" /\ ~b.probeInFlight

\* Faulty BeforeRequest: the first probe is not recorded.
BeforeRequestUnrecorded(b) ==
  CASE b.state = "open"      -> SetState(b, "half-open")
    [] b.state = "half-open" -> [b EXCEPT !.probeInFlight = TRUE]
    [] OTHER                 -> b

BeforeRequest(b) ==
  IF b.state = "closed" THEN b
  ELSE [SetState(b, "half-open") EXCEPT !.probeInFlight = TRUE]

\* Faulty AfterRequest: only a probe that fails ends the probing.
AfterRequestKeepsProbe(b, failed) == IF failed THEN OnFailure(b) ELSE OnSuccess(b)

AfterRequest(b, failed) ==
  LET r == [b EXCEPT !.probeInFlight = FALSE]
  IN IF failed THEN OnFailure(r) ELSE OnSuccess(r)

OpenTimeoutPasses ==
  /\ breaker.state = "open" /\ ~breaker.ripe
  /\ breaker' = [breaker EXCEPT !.ripe = TRUE]
  /\ UNCHANGED <<kind, limits, local, call, streak, late>>

\* A call that the breaker refuses returns and changes nothing.
Execute(c) ==
  /\ kind # "local" /\ call[c].pc = "idle"
  /\ Admits(breaker)
  /\ breaker' = BeforeRequest(breaker)
  /\ call' = [call EXCEPT ![c] = [NoCall EXCEPT !.pc = "wait", !.probe = breaker.state # "closed"]]
  /\ UNCHANGED <<kind, limits, local, streak, late>>

Report(c) ==
  /\ call[c].pc = "after"
  /\ breaker' = AfterRequest(breaker, call[c].failed)
  /\ streak' = IF call[c].failed THEN 0
               ELSE IF streak < SuccessThreshold THEN streak + 1 ELSE streak
  \* A probe of an earlier recovery is late as well.
  /\ late' = \/ late
             \/ /\ breaker.state # "closed"
                /\ \/ ~call[c].probe
                   \/ \E d \in Callers \ {c} : call[d].probe
  /\ call' = [call EXCEPT ![c] = NoCall]
  /\ UNCHANGED <<kind, limits, local>>

-------------------------------------------------------------------------------
(* Policy.Do and RetryPolicy.Execute: the attempts of one call *)

Fail(c) == call' = [call EXCEPT ![c].pc = "after", ![c].failed = TRUE]

\* The request succeeds, fails for good, or fails in a way that is retried.
\* An ended context stops the retries of Policy.Do; to RetryPolicy a deadline is
\* an error like any other.
Answer(c) ==
  /\ kind # "local" /\ call[c].pc = "send"
  /\ \/ Goto(c, "after")
     \/ Fail(c)
     \/ /\ call[c].attempt < MaxRetries
        /\ kind = "http" => ~call[c].ended
        /\ Goto(c, "backoff")
  /\ UNCHANGED <<kind, breaker, limits, local, streak, late>>

\* The wait is over; when the context has ended as well, either is noticed first.
Backoff(c) ==
  /\ call[c].pc = "backoff"
  /\ \/ call' = [call EXCEPT ![c].pc = "wait", ![c].attempt = @ + 1]
     \/ call[c].ended /\ Fail(c)
  /\ UNCHANGED <<kind, breaker, limits, local, streak, late>>

-------------------------------------------------------------------------------
(* TokenBucket *)

TakeToken(c) ==
  /\ kind = "http" /\ call[c].pc = "wait"
  /\ \/ tokens >= 1 /\ tokens' = tokens - 1 /\ Goto(c, "send")
     \/ tokens = 0 /\ call[c].ended /\ Fail(c) /\ UNCHANGED tokens
  /\ UNCHANGED <<kind, breaker, minute, day, granted, local, streak, late>>

\* Faulty Refill: the bucket is not capped.
RefillUncapped ==
  /\ kind = "http" /\ tokens' = tokens + 1
  /\ UNCHANGED <<kind, breaker, minute, day, granted, local, call, streak, late>>

Refill ==
  /\ kind = "http" /\ tokens < Burst /\ tokens' = tokens + 1
  /\ UNCHANGED <<kind, breaker, minute, day, granted, local, call, streak, late>>

-------------------------------------------------------------------------------
(* LLMRateLimiter *)

Granted(n) == granted' = IF minute.over THEN 1 ELSE n + 1

\* Faulty CheckMinute: the mutex is released before the wait.
CheckMinuteUnlocked(c) ==
  LET count == IF minute.over THEN 0 ELSE minute.count IN
  /\ kind = "gemini" /\ call[c].pc = "wait" /\ minute.lock = None
  /\ IF count < RPM
       THEN /\ minute' = [minute EXCEPT !.count = count + 1, !.over = FALSE]
            /\ Granted(granted) /\ Goto(c, "day")
       ELSE Goto(c, "sleep") /\ UNCHANGED <<minute, granted>>
  /\ UNCHANGED <<kind, breaker, tokens, day, local, streak, late>>

\* checkMinuteLimit: a caller that has to wait for the next minute keeps the
\* mutex, and the others stand in line whether or not their contexts have ended.
CheckMinute(c) ==
  LET count == IF minute.over THEN 0 ELSE minute.count IN
  /\ kind = "gemini" /\ call[c].pc = "wait" /\ minute.lock = None
  /\ IF count < RPM
       THEN /\ minute' = [minute EXCEPT !.count = count + 1, !.over = FALSE]
            /\ Granted(granted) /\ Goto(c, "day")
       ELSE /\ minute' = [minute EXCEPT !.lock = c]
            /\ Goto(c, "sleep") /\ UNCHANGED granted
  /\ UNCHANGED <<kind, breaker, tokens, day, local, streak, late>>

\* A minute after minuteStart; the timers of those who wait for it fire.
MinutePasses ==
  /\ kind = "gemini" /\ minute.count > 0 /\ ~minute.over
  /\ minute' = [minute EXCEPT !.over = TRUE]
  /\ call' = [c \in Callers |-> IF call[c].pc = "sleep" THEN [call[c] EXCEPT !.pc = "awake"]
                                                        ELSE call[c]]
  /\ UNCHANGED <<kind, breaker, tokens, day, granted, local, streak, late>>

\* The wait is over: a new minute begins.
Awake(c) ==
  /\ call[c].pc = "awake"
  /\ minute' = [count |-> 1, over |-> FALSE, lock |-> None]
  /\ Granted(granted)
  /\ Goto(c, "day")
  /\ UNCHANGED <<kind, breaker, tokens, day, local, streak, late>>

\* Faulty GiveUp: the way out on an ended context leaves the mutex locked.
GiveUpLocked(c) ==
  /\ call[c].pc \in {"sleep", "awake"} /\ call[c].ended
  /\ Fail(c)
  /\ UNCHANGED <<kind, breaker, limits, local, streak, late>>

\* The context ends first.
GiveUp(c) ==
  /\ call[c].pc \in {"sleep", "awake"} /\ call[c].ended
  /\ minute' = [minute EXCEPT !.lock = None]
  /\ Fail(c)
  /\ UNCHANGED <<kind, breaker, tokens, day, granted, local, streak, late>>

\* checkDayLimit: a refusal is a failure of the call, and its place in the minute
\* is gone.
CheckDay(c) ==
  LET count == IF day.over THEN 0 ELSE day.count IN
  /\ call[c].pc = "day"
  /\ IF count < RPD THEN day' = [count |-> count + 1, over |-> FALSE] /\ Goto(c, "send")
                    ELSE UNCHANGED day /\ Fail(c)
  /\ UNCHANGED <<kind, breaker, tokens, minute, granted, local, streak, late>>

DayPasses ==
  /\ kind = "gemini" /\ day.count > 0 /\ ~day.over
  /\ day' = [day EXCEPT !.over = TRUE]
  /\ UNCHANGED <<kind, breaker, tokens, minute, granted, local, call, streak, late>>

-------------------------------------------------------------------------------
(* Permits and the accelerator gate *)

Ask(c) ==
  /\ kind = "local" /\ call[c].pc = "idle"
  /\ \E l \in Clients : call' = [call EXCEPT ![c] = [NoCall EXCEPT !.pc = "permit", !.client = l]]
  /\ UNCHANGED <<kind, breaker, limits, local, streak, late>>

TakePermit(c) ==
  LET l == call[c].client IN
  /\ call[c].pc = "permit"
  /\ \/ /\ permits[l] < Concurrency
        /\ permits' = [permits EXCEPT ![l] = @ + 1]
        /\ Goto(c, "gate")
     \/ /\ call[c].ended
        /\ call' = [call EXCEPT ![c] = NoCall]
        /\ UNCHANGED permits
  /\ UNCHANGED <<kind, breaker, limits, gate, streak, late>>

\* Faulty TakeGate: the permit is not given back when the context ends here.
TakeGateLeaks(c) ==
  /\ call[c].pc = "gate"
  /\ \/ gate < MaxConcurrent /\ gate' = gate + 1 /\ Goto(c, "send")
     \/ call[c].ended /\ call' = [call EXCEPT ![c] = NoCall] /\ UNCHANGED gate
  /\ UNCHANGED <<kind, breaker, limits, permits, streak, late>>

TakeGate(c) ==
  /\ call[c].pc = "gate"
  /\ \/ gate < MaxConcurrent /\ gate' = gate + 1 /\ Goto(c, "send") /\ UNCHANGED permits
     \/ /\ call[c].ended
        /\ permits' = [permits EXCEPT ![call[c].client] = @ - 1]
        /\ call' = [call EXCEPT ![c] = NoCall] /\ UNCHANGED gate
  /\ UNCHANGED <<kind, breaker, limits, streak, late>>

\* The request ends, with or without a result, at the latest with its timeout.
Serve(c) ==
  /\ kind = "local" /\ call[c].pc = "send"
  /\ \/ Goto(c, "release")
     \/ /\ call[c].client = Docling /\ call[c].attempt = 0
        /\ call' = [call EXCEPT ![c].attempt = 1]
  /\ UNCHANGED <<kind, breaker, limits, local, streak, late>>

ReleaseGate(c) ==
  /\ call[c].pc = "release"
  /\ gate' = gate - 1
  /\ Goto(c, "give back")
  /\ UNCHANGED <<kind, breaker, limits, permits, streak, late>>

GiveBack(c) ==
  /\ call[c].pc = "give back"
  /\ permits' = [permits EXCEPT ![call[c].client] = @ - 1]
  /\ call' = [call EXCEPT ![c] = NoCall]
  /\ UNCHANGED <<kind, breaker, limits, gate, streak, late>>

-------------------------------------------------------------------------------
\* The context of a call is cancelled, or its deadline passes.
ContextEnds(c) ==
  /\ call[c].pc # "idle" /\ ~call[c].ended
  /\ call' = [call EXCEPT ![c].ended = TRUE]
  /\ UNCHANGED <<kind, breaker, limits, local, streak, late>>

Attempt(c) == Answer(c) \/ Backoff(c) \/ TakeToken(c) \/ Awake(c) \/ GiveUp(c) \/ CheckDay(c)
Hold(c)    == TakePermit(c) \/ TakeGate(c) \/ Serve(c) \/ ReleaseGate(c) \/ GiveBack(c)
Pass       == OpenTimeoutPasses \/ Refill \/ MinutePasses \/ DayPasses

Next == \/ Pass
        \/ \E c \in Callers : \/ Execute(c) \/ Report(c) \/ Attempt(c) \/ CheckMinute(c)
                              \/ Ask(c) \/ Hold(c) \/ ContextEnds(c)

\* Requests have timeouts and timers fire.  A Go mutex hands itself to the one
\* that waits longest, so that nobody stands before it for ever.
Fairness ==
  /\ WF_vars(OpenTimeoutPasses) /\ WF_vars(Refill) /\ WF_vars(MinutePasses) /\ WF_vars(DayPasses)
  /\ \A c \in Callers : /\ WF_vars(Report(c)) /\ WF_vars(Attempt(c)) /\ WF_vars(Hold(c))
                        /\ SF_vars(CheckMinute(c))

Spec == Init /\ [][Next]_vars /\ Fairness

-------------------------------------------------------------------------------
(* Properties *)

TypeOK ==
  /\ kind \in Kinds
  /\ breaker \in [state : States, failures : 0 .. FailureThreshold, successes : 0 .. SuccessThreshold,
                  probeInFlight : BOOLEAN, ripe : BOOLEAN]
  /\ tokens \in 0 .. Burst
  /\ minute \in [count : 0 .. RPM, over : BOOLEAN, lock : Callers \cup {None}]
  /\ day \in [count : 0 .. RPD, over : BOOLEAN]
  /\ permits \in [Clients -> 0 .. Concurrency] /\ gate \in 0 .. MaxConcurrent
  /\ call \in [Callers -> [pc : PCs, attempt : 0 .. MaxRetries + 1, ended : BOOLEAN,
                           failed : BOOLEAN, probe : BOOLEAN, client : Clients \cup {None}]]

\* Every permit is held by a call in progress: through cancellation between the
\* two acquisitions and any order of releases, none is lost and none is given
\* back twice (client.acquire, client.release, Gate).
PermitsAreHeld ==
  LET at(pcs) == {c \in Callers : kind = "local" /\ call[c].pc \in pcs} IN
  /\ gate = Cardinality(at({"send", "release"}))
  /\ \A l \in Clients : permits[l] =
       Cardinality({c \in at({"gate", "send", "release", "give back"}) : call[c].client = l})

\* No more requests are granted in a minute than RPM, though the callers that
\* wait for the minute to end all start it anew (checkMinuteLimit).
MinuteHolds == granted <= RPM

\* Unless a call from before the breaker opened reports late, a half-open breaker
\* has one probe at a time (beforeRequest).
OneProbe == ~late => Cardinality({c \in Callers : call[c].probe}) <= 1

\* A half-open breaker closes only after SuccessThreshold successes in a row:
\* the successes of an earlier recovery that failed do not count (onFailure).
ClosedIsEarned ==
  [][breaker.state = "half-open" /\ breaker'.state = "closed" => streak' >= SuccessThreshold]_vars

\* A call whose context has ended returns: the retries, the backoff, the line
\* before the limiter's mutex and the gate all come to an end.
CancelledCallEnds == \A c \in Callers : call[c].ended ~> call[c].pc = "idle"

Failure == \E c \in Callers : Report(c) /\ call[c].failed

\* As long as calls keep coming and only finitely many fail, the breaker closes
\* again: it never waits for a probe that nobody makes (beforeRequest,
\* afterRequest).
BreakerRecovers ==
  (\A c \in Callers : SF_vars(Execute(c))) =>
    []<><<Failure>>_vars \/ []<>(breaker.state = "closed")
=============================================================================
