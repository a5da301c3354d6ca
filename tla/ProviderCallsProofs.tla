-------------------------- MODULE ProviderCallsProofs --------------------------
(***************************************************************************)
(* Proofs about ProviderCalls for any callers, clients, limits and         *)
(* thresholds.  Each safety property has its own inductive invariant, and  *)
(* all rest on the types; the fairness of Spec is not used.                *)
(***************************************************************************)
EXTENDS ProviderCalls, FiniteSetTheorems, TLAPS

-------------------------------------------------------------------------------
(* Types *)

Breaker == [state : States, failures : 0 .. FailureThreshold, successes : 0 .. SuccessThreshold,
            probeInFlight : BOOLEAN, ripe : BOOLEAN]
Calling == [pc : PCs, attempt : 0 .. MaxRetries + 1, ended : BOOLEAN, failed : BOOLEAN,
            probe : BOOLEAN, client : Clients \cup {None}]
AtPermits == {"permit", "gate", "send", "release", "give back"}
\* What the types of TypeOK leave open: where a call of each kind can stand, that a
\* retry is begun only while there is one left, and that a breaker has not yet
\* counted the successes that close it.
Placed(k) ==
  /\ kind = "local" => k.pc \in AtPermits \cup {"idle"} /\ (k.pc # "idle" => k.client \in Clients)
  /\ kind # "local" => k.pc \notin AtPermits \ {"send"}
  /\ k.pc = "backoff" => k.attempt < MaxRetries
Places   == \A c \in Callers : Placed(call[c])
Unclosed == breaker.successes < SuccessThreshold

\* A call that holds the gate, a permit of client l, and who makes such calls.
InGate(k)   == kind = "local" /\ k.pc \in {"send", "release"}
Holds(k, l) == kind = "local" /\ k.pc \in AtPermits \ {"permit"} /\ k.client = l
AtGate     == {c \in Callers : InGate(call[c])}
Holding(l) == {c \in Callers : Holds(call[c], l)}
One(b)     == IF b THEN 1 ELSE 0

Counted ==
  /\ IsFiniteSet(AtGate) /\ gate = Cardinality(AtGate)
  /\ \A l \in Clients : IsFiniteSet(Holding(l)) /\ permits[l] = Cardinality(Holding(l))

TypeInv == TypeOK /\ Places /\ Unclosed /\ Counted

LEMMA Constants ==
  /\ FailureThreshold \in Nat \ {0} /\ SuccessThreshold \in Nat \ {0}
  /\ Burst \in Nat \ {0} /\ RPM \in Nat \ {0} /\ RPD \in Nat \ {0}
  /\ Concurrency \in Nat \ {0} /\ MaxConcurrent \in Nat \ {0} /\ MaxRetries \in Nat
  BY LimitsAssumption

LEMMA Zero ==
  0 \in 0 .. FailureThreshold /\ 0 \in 0 .. SuccessThreshold
  BY Constants

LEMMA SetStateType ==
  ASSUME NEW b \in Breaker, NEW s \in States PROVE SetState(b, s) \in Breaker
<1>1. CASE b.state = s
  BY <1>1 DEF SetState
<1>2. CASE b.state # s /\ s = "closed"
  <2>1. ASSUME NEW f \in 0 .. FailureThreshold, NEW n \in 0 .. SuccessThreshold
        PROVE  [b EXCEPT !.state = s, !.failures = f, !.successes = n] \in Breaker
    BY DEF Breaker
  <2> QED
    BY <1>2, <2>1, Zero DEF SetState
<1>3. CASE b.state # s /\ s = "open"
  BY <1>3 DEF SetState, Breaker, States
<1>4. CASE b.state # s /\ s = "half-open"
  BY <1>4 DEF SetState, Breaker, States
<1> QED
  BY <1>1, <1>2, <1>3, <1>4 DEF States

LEMMA OnSuccessType ==
  ASSUME NEW b \in Breaker, b.successes < SuccessThreshold PROVE OnSuccess(b) \in Breaker
<1> DEFINE r == [b EXCEPT !.failures = 0]
           n == b.successes + 1
<1>1. r \in Breaker
  BY Zero DEF Breaker
<1>2. n \in 0 .. SuccessThreshold
  BY Constants DEF Breaker
<1>3. [r EXCEPT !.successes = n] \in Breaker
  BY <1>1, <1>2 DEF Breaker
<1>4. SetState([r EXCEPT !.successes = n], "closed") \in Breaker
  BY <1>3, SetStateType DEF States
<1> QED
  BY <1>1, <1>3, <1>4 DEF OnSuccess

LEMMA OnFailureType ==
  ASSUME NEW b \in Breaker PROVE OnFailure(b) \in Breaker
<1> DEFINE n == IF b.failures < FailureThreshold THEN b.failures + 1 ELSE b.failures
           r == [b EXCEPT !.successes = 0, !.failures = n, !.ripe = FALSE]
<1>1. n \in 0 .. FailureThreshold
  BY Constants DEF Breaker
<1> HIDE DEF n
<1>2. r \in Breaker
  BY <1>1, Zero DEF Breaker
<1>3. SetState(r, "open") \in Breaker
  BY <1>2, SetStateType DEF States
<1> QED
  BY <1>2, <1>3 DEF OnFailure, n

LEMMA SetStateFields ==
  ASSUME NEW b \in Breaker, NEW s \in States
  PROVE  /\ SetState(b, s).state = s
         /\ SetState(b, s).successes = IF b.state # s /\ s = "closed" THEN 0 ELSE b.successes
         /\ SetState(b, s).probeInFlight =
              IF b.state # s /\ s = "open" THEN FALSE ELSE b.probeInFlight
<1>1. CASE b.state = s
  BY <1>1 DEF SetState
<1>2. CASE b.state # s /\ s = "closed"
  BY <1>2 DEF SetState, Breaker
<1>3. CASE b.state # s /\ s = "open"
  BY <1>3 DEF SetState, Breaker
<1>4. CASE b.state # s /\ s = "half-open"
  BY <1>4 DEF SetState, Breaker
<1> QED
  BY <1>1, <1>2, <1>3, <1>4 DEF States

\* What a success does to the state of the breaker and to its count.
LEMMA OnSuccessFields ==
  ASSUME NEW b \in Breaker, b.successes < SuccessThreshold
  PROVE  /\ b.state # "half-open" =>
              OnSuccess(b).state = b.state /\ OnSuccess(b).successes = b.successes
         /\ b.state = "half-open" /\ b.successes + 1 >= SuccessThreshold =>
              OnSuccess(b).state = "closed" /\ OnSuccess(b).successes = 0
         /\ b.state = "half-open" /\ b.successes + 1 < SuccessThreshold =>
              OnSuccess(b).state = "half-open" /\ OnSuccess(b).successes = b.successes + 1
         /\ OnSuccess(b).probeInFlight = b.probeInFlight
<1> DEFINE r == [b EXCEPT !.failures = 0]
           n == b.successes + 1
           q == [r EXCEPT !.successes = n]
<1>1. r \in Breaker /\ r.state = b.state /\ r.successes = b.successes
      /\ r.probeInFlight = b.probeInFlight
  BY Zero DEF Breaker
<1>2. n \in 0 .. SuccessThreshold
  BY Constants DEF Breaker
<1>3. q \in Breaker /\ q.state = b.state /\ q.successes = n /\ q.probeInFlight = b.probeInFlight
  BY <1>1, <1>2 DEF Breaker
<1>4. b.state # "half-open" => OnSuccess(b) = r
  BY DEF OnSuccess
<1>5. b.state = "half-open" /\ n >= SuccessThreshold => OnSuccess(b) = SetState(q, "closed")
  BY DEF OnSuccess
<1>6. b.state = "half-open" /\ n < SuccessThreshold => OnSuccess(b) = q
  BY <1>2, Constants DEF OnSuccess
<1> HIDE DEF r, q, n
<1>7. /\ SetState(q, "closed").state = "closed"
      /\ SetState(q, "closed").probeInFlight = q.probeInFlight
      /\ q.state # "closed" => SetState(q, "closed").successes = 0
  BY <1>3, SetStateFields, ZenonT(40) DEF States
<1> QED
  <2>1. CASE b.state # "half-open"
    BY <1>1, <1>4, <2>1
  <2>2. CASE b.state = "half-open" /\ n >= SuccessThreshold
    BY <1>2, <1>3, <1>5, <1>7, <2>2, Constants DEF n
  <2>3. CASE b.state = "half-open" /\ ~(n >= SuccessThreshold)
    <3>1. n < SuccessThreshold
      BY <1>2, <2>3, Constants
    <3> QED
      BY <1>3, <1>6, <2>3, <3>1 DEF n
  <2> QED
    BY <2>1, <2>2, <2>3

\* A failure sets the count back, and ends a recovery.
LEMMA OnFailureFields ==
  ASSUME NEW b \in Breaker
  PROVE  /\ OnFailure(b).successes = 0
         /\ OnFailure(b).state \in {b.state, "open"}
         /\ b.state = "half-open" => OnFailure(b).state = "open"
         /\ b.state = "closed" => OnFailure(b).state \in {"closed", "open"}
<1> DEFINE n == IF b.failures < FailureThreshold THEN b.failures + 1 ELSE b.failures
           r == [b EXCEPT !.successes = 0, !.failures = n, !.ripe = FALSE]
<1>1. n \in 0 .. FailureThreshold
  BY Constants DEF Breaker
<1> HIDE DEF n
<1>2. r \in Breaker /\ r.successes = 0 /\ r.state = b.state
  BY <1>1, Zero DEF Breaker
<1>3. OnFailure(b) = IF b.state = "half-open" \/ (b.state = "closed" /\ n >= FailureThreshold)
                     THEN SetState(r, "open") ELSE r
  BY DEF OnFailure, n
<1>4. SetState(r, "open").state = "open" /\ SetState(r, "open").successes = 0
  BY <1>2, SetStateFields, ZenonT(40) DEF States
<1> HIDE DEF r
<1> QED
  BY <1>2, <1>3, <1>4

LEMMA AfterRequestType ==
  ASSUME NEW b \in Breaker, NEW failed \in BOOLEAN, b.successes < SuccessThreshold
  PROVE  /\ AfterRequest(b, failed) \in Breaker
         /\ AfterRequest(b, failed).successes < SuccessThreshold
<1> DEFINE r == [b EXCEPT !.probeInFlight = FALSE]
<1>1. r \in Breaker /\ r.successes = b.successes
  BY DEF Breaker
<1>2. AfterRequest(b, failed) = IF failed THEN OnFailure(r) ELSE OnSuccess(r)
  BY DEF AfterRequest
<1> HIDE DEF r
<1>3. r.successes \in Nat /\ r.state \in States
  BY <1>1 DEF Breaker
<1>4. OnFailure(r) \in Breaker /\ OnFailure(r).successes < SuccessThreshold
  BY <1>1, OnFailureType, OnFailureFields, Constants
<1>5. OnSuccess(r) \in Breaker /\ OnSuccess(r).successes < SuccessThreshold
  BY <1>1, <1>3, OnSuccessType, OnSuccessFields, Constants
<1> QED
  BY <1>2, <1>4, <1>5

LEMMA BeforeRequestType ==
  ASSUME NEW b \in Breaker, b.successes < SuccessThreshold
  PROVE  BeforeRequest(b) \in Breaker /\ BeforeRequest(b).successes < SuccessThreshold
<1>1. SetState(b, "half-open") \in Breaker /\ SetState(b, "half-open").successes = b.successes
  BY SetStateType, SetStateFields DEF States
<1> QED
  BY <1>1 DEF BeforeRequest, Breaker


-------------------------------------------------------------------------------
(* Steps of one caller *)

\* One element enters or leaves a counted set.
LEMMA CountOne ==
  ASSUME NEW S, NEW T, NEW c, NEW n, IsFiniteSet(S), T \in {S \cup {c}, S \ {c}},
         n = Cardinality(S) + One(c \in T) - One(c \in S)
  PROVE  IsFiniteSet(T) /\ n = Cardinality(T)
<1>1. Cardinality(S) \in Nat
  BY FS_CardinalityType
<1>2. CASE T = S \cup {c}
  BY <1>1, <1>2, FS_AddElement DEF One
<1>3. CASE T = S \ {c}
  BY <1>1, <1>3, FS_RemoveElement DEF One
<1> QED
  BY <1>2, <1>3

\* A step of one caller that stands where its kind may stand keeps the types of
\* the calls, and the counts if it moves them by what it takes and gives back.
LEMMA Moves ==
  ASSUME TypeInv, kind' = kind, NEW c \in Callers, NEW k \in Calling, Placed(k),
         call' = [call EXCEPT ![c] = k],
         gate' = gate + One(InGate(k)) - One(InGate(call[c])),
         \A l \in Clients : permits'[l] = permits[l] + One(Holds(k, l)) - One(Holds(call[c], l))
  PROVE  call' \in [Callers -> Calling] /\ Places' /\ Counted'
<1>1. call \in [Callers -> Calling]
  BY DEF TypeInv, TypeOK, Calling
<1>2. call' \in [Callers -> Calling] /\ \A d \in Callers : call'[d] = IF d = c THEN k ELSE call[d]
  BY <1>1
<1>3. Places'
  BY <1>2 DEF TypeInv, Places, Placed
<1>4. IsFiniteSet(AtGate)' /\ gate' = Cardinality(AtGate)'
  <2>1. AtGate' \in {AtGate \cup {c}, AtGate \ {c}}
    BY <1>2 DEF AtGate, InGate
  <2>2. (c \in AtGate' <=> InGate(k)) /\ (c \in AtGate <=> InGate(call[c]))
    BY <1>2 DEF AtGate, InGate
  <2>3. IsFiniteSet(AtGate) /\ gate' = Cardinality(AtGate) + One(c \in AtGate') - One(c \in AtGate)
    BY <2>2 DEF TypeInv, Counted, One
  <2> QED
    BY <2>1, <2>3, CountOne
<1>5. ASSUME NEW l \in Clients PROVE IsFiniteSet(Holding(l))' /\ permits'[l] = Cardinality(Holding(l))'
  <2>1. Holding(l)' \in {Holding(l) \cup {c}, Holding(l) \ {c}}
    BY <1>2 DEF Holding, Holds
  <2>2. (c \in Holding(l)' <=> Holds(k, l)) /\ (c \in Holding(l) <=> Holds(call[c], l))
    BY <1>2 DEF Holding, Holds
  <2>3. /\ IsFiniteSet(Holding(l))
        /\ permits'[l] = Cardinality(Holding(l)) + One(c \in Holding(l)') - One(c \in Holding(l))
    BY <2>2 DEF TypeInv, Counted, One
  <2> QED
    BY <2>1, <2>3, CountOne
<1> QED
  BY <1>2, <1>3, <1>4, <1>5 DEF Counted

\* The same for a step that neither takes nor gives back.
LEMMA MovesElsewhere ==
  ASSUME TypeInv, kind' = kind, NEW c \in Callers, NEW k \in Calling, Placed(k),
         call' = [call EXCEPT ![c] = k], UNCHANGED local,
         kind = "local" => /\ k.pc \in {"send", "release"} <=> call[c].pc \in {"send", "release"}
                           /\ k.pc \in AtPermits \ {"permit"} <=> call[c].pc \in AtPermits \ {"permit"}
                           /\ k.pc \in AtPermits \ {"permit"} => k.client = call[c].client
  PROVE  call' \in [Callers -> Calling] /\ Places' /\ Counted'
<1>1. gate \in Int /\ permits \in [Clients -> Int]
  BY Constants DEF TypeInv, TypeOK
<1>2. InGate(k) = InGate(call[c]) /\ \A l \in Clients : Holds(k, l) = Holds(call[c], l)
  BY DEF InGate, Holds, AtPermits
<1>3. gate' = gate + One(InGate(k)) - One(InGate(call[c]))
  BY <1>1, <1>2 DEF local, One
<1>4. \A l \in Clients : permits'[l] = permits[l] + One(Holds(k, l)) - One(Holds(call[c], l))
  BY <1>1, <1>2 DEF local, One
<1> QED
  BY <1>3, <1>4, Moves

\* The calls that steps build.
LEMMA CallTypes ==
  /\ NoCall \in Calling
  /\ \A l \in Clients : [NoCall EXCEPT !.pc = "permit", !.client = l] \in Calling
  /\ \A b \in BOOLEAN : [NoCall EXCEPT !.pc = "wait", !.probe = b] \in Calling
  /\ \A k \in Calling, p \in PCs : [k EXCEPT !.pc = p] \in Calling
  /\ \A k \in Calling : [k EXCEPT !.pc = "after", !.failed = TRUE] \in Calling
  /\ \A k \in Calling : [k EXCEPT !.ended = TRUE] \in Calling
  /\ \A k \in Calling, n \in 0 .. MaxRetries + 1 : [k EXCEPT !.attempt = n] \in Calling
  /\ \A k \in Calling, n \in 0 .. MaxRetries + 1 : [k EXCEPT !.pc = "wait", !.attempt = n] \in Calling
<1>1. NoCall \in Calling
  BY Constants DEF NoCall, Calling, PCs
<1>2. \A k \in Calling, l \in Clients : [k EXCEPT !.pc = "permit", !.client = l] \in Calling
  BY DEF Calling, PCs
<1>3. \A k \in Calling, b \in BOOLEAN : [k EXCEPT !.pc = "wait", !.probe = b] \in Calling
  BY DEF Calling, PCs
<1>4. \A k \in Calling, p \in PCs : [k EXCEPT !.pc = p] \in Calling
  BY DEF Calling
<1>5. \A k \in Calling : [k EXCEPT !.pc = "after", !.failed = TRUE] \in Calling
  BY DEF Calling, PCs
<1>6. \A k \in Calling : [k EXCEPT !.ended = TRUE] \in Calling
  BY DEF Calling
<1>7. \A k \in Calling, n \in 0 .. MaxRetries + 1 : [k EXCEPT !.attempt = n] \in Calling
  BY DEF Calling
<1>8. \A k \in Calling, n \in 0 .. MaxRetries + 1 : [k EXCEPT !.pc = "wait", !.attempt = n] \in Calling
  BY DEF Calling, PCs
<1> QED
  BY <1>1, <1>2, <1>3, <1>4, <1>5, <1>6, <1>7, <1>8


LEMMA NoCallFields ==
  NoCall.pc = "idle" /\ NoCall.probe = FALSE
  BY DEF NoCall

LEMMA NoCallPlaced ==
  Placed(NoCall) /\ ~InGate(NoCall) /\ \A l : ~Holds(NoCall, l)
  BY NoCallFields DEF Placed, InGate, Holds, AtPermits

LEMMA GotoFields ==
  ASSUME NEW k \in Calling, NEW p \in PCs
  PROVE  /\ [k EXCEPT !.pc = p] \in Calling
         /\ [k EXCEPT !.pc = p].pc = p
         /\ [k EXCEPT !.pc = p].client = k.client
         /\ [k EXCEPT !.pc = p].attempt = k.attempt
         /\ [k EXCEPT !.pc = p].probe = k.probe
  BY DEF Calling

-------------------------------------------------------------------------------
(* The types and the counts: one step per action *)

LEMMA TypeInit == Init => TypeInv
<1> SUFFICES ASSUME Init PROVE TypeInv
  OBVIOUS
<1>1. \A c \in Callers : call[c] = NoCall
  BY DEF Init
<1>2. TypeOK
  <2>1. breaker \in Breaker
    BY Zero DEF Init, Breaker, States
  <2>2. call \in [Callers -> Calling]
    BY CallTypes DEF Init
  <2>3. minute \in [count : 0 .. RPM, over : BOOLEAN, lock : Callers \cup {None}]
        /\ day \in [count : 0 .. RPD, over : BOOLEAN]
    BY Constants DEF Init
  <2>4. /\ kind \in Kinds /\ tokens \in 0 .. Burst
        /\ permits \in [Clients -> 0 .. Concurrency] /\ gate \in 0 .. MaxConcurrent
    BY Constants DEF Init
  <2> QED
    BY <2>1, <2>2, <2>3, <2>4 DEF TypeOK, Breaker, Calling
<1>3. Places
  BY <1>1, NoCallPlaced DEF Places
<1>4. Unclosed
  BY Constants DEF Init, Unclosed
<1>5. Counted
  <2>1. AtGate = {} /\ \A l \in Clients : Holding(l) = {}
    BY <1>1, NoCallPlaced DEF AtGate, Holding
  <2> QED
    BY <2>1, FS_EmptySet DEF Counted, Init
<1> QED
  BY <1>2, <1>3, <1>4, <1>5 DEF TypeInv

LEMMA TypeStep == TypeInv /\ [Next]_vars => TypeInv'
<1> SUFFICES ASSUME TypeInv, [Next]_vars PROVE TypeInv'
  OBVIOUS
<1>t. /\ kind \in Kinds /\ breaker \in Breaker /\ tokens \in 0 .. Burst
      /\ minute \in [count : 0 .. RPM, over : BOOLEAN, lock : Callers \cup {None}]
      /\ day \in [count : 0 .. RPD, over : BOOLEAN]
      /\ permits \in [Clients -> 0 .. Concurrency] /\ gate \in 0 .. MaxConcurrent
      /\ call \in [Callers -> Calling] /\ Unclosed
  BY DEF TypeInv, TypeOK, Breaker, Calling
<1>p. \A c \in Callers : call[c] \in Calling /\ Placed(call[c])
  BY <1>t DEF TypeInv, Places
<1>i. gate \in Int /\ \A l \in Clients : permits[l] <= Concurrency /\ permits[l] \in Int
  BY <1>t, Constants
<1>s. ASSUME call' = call, UNCHANGED <<kind, local>>
      PROVE  call' \in [Callers -> Calling] /\ Places' /\ Counted'
  <2>1. AtGate' = AtGate /\ \A l : Holding(l)' = Holding(l)
    BY <1>s DEF AtGate, Holding, InGate, Holds
  <2> QED
    BY <1>s, <1>t, <2>1 DEF TypeInv, Places, Placed, Counted, local
\* What is left to show once the calls are dealt with.
<1>b. ASSUME UNCHANGED <<kind, local>>, breaker' \in Breaker, Unclosed', tokens' \in 0 .. Burst,
             minute' \in [count : 0 .. RPM, over : BOOLEAN, lock : Callers \cup {None}],
             day' \in [count : 0 .. RPD, over : BOOLEAN],
             call' \in [Callers -> Calling] /\ Places' /\ Counted'
      PROVE  TypeInv'
  BY <1>b, <1>t DEF TypeInv, TypeOK, Breaker, Calling, local
<1>l. ASSUME UNCHANGED <<kind, breaker, limits>>, gate' \in 0 .. MaxConcurrent,
             permits' \in [Clients -> 0 .. Concurrency],
             call' \in [Callers -> Calling] /\ Places' /\ Counted'
      PROVE  TypeInv'
  BY <1>l, <1>t DEF TypeInv, TypeOK, Breaker, Calling, limits, Unclosed
<1>f. ASSUME NEW c \in Callers, Fail(c), UNCHANGED <<kind, local>>, kind # "local"
      PROVE  call' \in [Callers -> Calling] /\ Places' /\ Counted'
  <2> DEFINE k == [call[c] EXCEPT !.pc = "after", !.failed = TRUE]
  <2>1. k \in Calling /\ k.pc = "after"
    BY <1>p, CallTypes DEF Calling
  <2>2. call' = [call EXCEPT ![c] = k]
    BY <1>f DEF Fail
  <2> HIDE DEF k
  <2> QED
    BY <1>f, <2>1, <2>2, MovesElsewhere DEF Placed, AtPermits
<1>g. ASSUME NEW c \in Callers, NEW pc \in PCs \ (AtPermits \ {"send"}), Goto(c, pc),
             UNCHANGED <<kind, local>>, kind # "local",
             pc = "backoff" => call[c].attempt < MaxRetries
      PROVE  call' \in [Callers -> Calling] /\ Places' /\ Counted'
  <2> DEFINE k == [call[c] EXCEPT !.pc = pc]
  <2>1. k \in Calling /\ k.pc = pc /\ k.attempt = call[c].attempt
    BY <1>p, CallTypes, ZenonT(40) DEF Calling
  <2>2. call' = [call EXCEPT ![c] = k]
    BY <1>g DEF Goto
  <2> HIDE DEF k
  <2> QED
    BY <1>g, <2>1, <2>2, MovesElsewhere DEF Placed
\* The call ends where it held a permit but not the gate.
<1>gb. ASSUME NEW c \in Callers, kind = "local", call[c].pc \in {"gate", "give back"},
              UNCHANGED <<kind, limits, gate, breaker>>,
              permits' = [permits EXCEPT ![call[c].client] = @ - 1],
              call' = [call EXCEPT ![c] = NoCall]
       PROVE  TypeInv'
  <2>1. call[c].client \in Clients
    BY <1>gb, <1>p DEF Placed, AtPermits
  <2>2. /\ permits' \in [Clients -> Int] /\ \A l \in Clients : permits'[l] <= Concurrency
        /\ \A l \in Clients : permits'[l] = permits[l] + One(Holds(NoCall, l)) - One(Holds(call[c], l))
    <3>1. permits' = [permits EXCEPT ![call[c].client] = @ - 1] /\ permits \in [Clients -> Int]
      BY <1>gb, <1>t, <1>i
    <3>2. /\ permits' \in [Clients -> Int]
          /\ \A l \in Clients : permits'[l] = IF l = call[c].client THEN permits[l] - 1 ELSE permits[l]
      BY <2>1, <3>1
    <3>3. \A l \in Clients : ~Holds(NoCall, l) /\ (Holds(call[c], l) <=> l = call[c].client)
      BY <1>gb, NoCallPlaced DEF Holds, AtPermits
    <3> QED
      BY <1>i, <3>2, <3>3, Constants DEF One
  <2>3. gate' = gate + One(InGate(NoCall)) - One(InGate(call[c]))
    <3>1. gate \in Int /\ gate' = gate
      BY <1>gb, <1>i
    <3>2. ~InGate(NoCall) /\ ~InGate(call[c])
      BY <1>gb, NoCallPlaced DEF InGate
    <3> QED
      BY <3>1, <3>2 DEF One
  <2>4. Placed(NoCall)
    BY NoCallPlaced
  <2>5. call' \in [Callers -> Calling] /\ Places' /\ Counted'
    BY <1>gb, <2>2, <2>3, <2>4, Moves, CallTypes
  <2>6. \A l \in Clients : permits'[l] \in Nat
    BY <2>5, FS_CardinalityType DEF Counted
  <2>7. permits' \in [Clients -> 0 .. Concurrency]
    BY <2>2, <2>6, Constants
  <2> QED
    BY <1>gb, <1>l, <1>t, <2>5, <2>7
<1>1. CASE OpenTimeoutPasses
  <2>1. breaker' \in Breaker /\ Unclosed'
    BY <1>1, <1>t DEF OpenTimeoutPasses, Breaker, Unclosed
  <2> QED
    BY <1>1, <1>s, <1>b, <1>t, <2>1 DEF OpenTimeoutPasses, limits
<1>2. CASE Refill
  <2>1. tokens' \in 0 .. Burst
    BY <1>2, <1>t, Constants DEF Refill
  <2> QED
    BY <1>2, <1>s, <1>b, <1>t, <2>1 DEF Refill, Unclosed
<1>3. CASE MinutePasses
  <2> DEFINE k(c) == [call[c] EXCEPT !.pc = "awake"]
  <2>1. \A c \in Callers : k(c) \in Calling /\ k(c).pc = "awake"
    BY <1>p, GotoFields DEF PCs
  <2>2. call' = [c \in Callers |-> IF call[c].pc = "sleep" THEN k(c) ELSE call[c]]
    BY <1>3 DEF MinutePasses
  <2> HIDE DEF k
  <2>3. call' \in [Callers -> Calling]
    BY <1>p, <2>1, <2>2
  <2>4. Places'
    BY <1>3, <1>p, <2>1, <2>2 DEF Places, Placed, MinutePasses, AtPermits
  <2>5. kind = "gemini" /\ UNCHANGED <<kind, local, breaker, tokens, day>>
    BY <1>3 DEF MinutePasses
  <2>6. AtGate' = AtGate /\ \A l : Holding(l)' = Holding(l)
    BY <2>5 DEF AtGate, Holding, InGate, Holds
  <2>7. Counted'
    BY <2>5, <2>6 DEF TypeInv, Counted, local
  <2>8. minute' \in [count : 0 .. RPM, over : BOOLEAN, lock : Callers \cup {None}]
    BY <1>3, <1>t DEF MinutePasses
  <2> QED
    BY <1>b, <1>t, <2>3, <2>4, <2>5, <2>7, <2>8 DEF Unclosed
<1>4. CASE DayPasses
  <2>1. day' \in [count : 0 .. RPD, over : BOOLEAN]
    BY <1>4, <1>t DEF DayPasses
  <2> QED
    BY <1>4, <1>s, <1>b, <1>t, <2>1 DEF DayPasses, Unclosed
<1>5. ASSUME NEW c \in Callers, Execute(c) PROVE TypeInv'
  <2> DEFINE k == [NoCall EXCEPT !.pc = "wait", !.probe = breaker.state # "closed"]
  <2>1. k \in Calling /\ k.pc = "wait"
    BY CallTypes DEF NoCall
  <2>2. call' = [call EXCEPT ![c] = k] /\ kind # "local" /\ UNCHANGED <<kind, local, limits>>
    BY <1>5 DEF Execute
  <2> HIDE DEF k
  <2>3. call' \in [Callers -> Calling] /\ Places' /\ Counted'
    BY <2>1, <2>2, MovesElsewhere DEF Placed, AtPermits
  <2>4. breaker' \in Breaker /\ Unclosed'
    BY <1>5, <1>t, BeforeRequestType DEF Execute, Unclosed
  <2> QED
    BY <1>b, <1>t, <2>2, <2>3, <2>4 DEF limits
<1>6. ASSUME NEW c \in Callers, Report(c) PROVE TypeInv'
  <2>1. kind # "local" /\ UNCHANGED <<kind, local, limits>> /\ call' = [call EXCEPT ![c] = NoCall]
    BY <1>6, <1>p DEF Report, Placed, AtPermits
  <2>2. call' \in [Callers -> Calling] /\ Places' /\ Counted'
    BY <2>1, MovesElsewhere, CallTypes DEF Placed, AtPermits, NoCall
  <2>3. call[c].failed \in BOOLEAN
    BY <1>p DEF Calling
  <2>4. breaker' \in Breaker /\ Unclosed'
    BY <1>6, <1>t, <2>3, AfterRequestType DEF Report, Unclosed
  <2> QED
    BY <1>b, <1>t, <2>1, <2>2, <2>4 DEF limits
<1>7. ASSUME NEW c \in Callers, Answer(c) PROVE TypeInv'
  <2>1. kind # "local" /\ UNCHANGED <<kind, local, limits, breaker>>
    BY <1>7 DEF Answer
  <2>2. call' \in [Callers -> Calling] /\ Places' /\ Counted'
    <3>1. CASE Goto(c, "after")
      BY <1>g, <2>1, <3>1 DEF PCs, AtPermits
    <3>2. CASE Fail(c)
      BY <1>f, <2>1, <3>2
    <3>3. CASE call[c].attempt < MaxRetries /\ Goto(c, "backoff")
      BY <1>g, <2>1, <3>3 DEF PCs, AtPermits
    <3> QED
      BY <1>7, <3>1, <3>2, <3>3 DEF Answer
  <2> QED
    BY <1>b, <1>t, <2>1, <2>2 DEF limits, Unclosed
<1>8. ASSUME NEW c \in Callers, Backoff(c) PROVE TypeInv'
  <2>1. kind # "local" /\ call[c].attempt < MaxRetries /\ UNCHANGED <<kind, local, limits, breaker>>
    BY <1>8, <1>p DEF Backoff, Placed, AtPermits
  <2>2. call' \in [Callers -> Calling] /\ Places' /\ Counted'
    <3>1. CASE call' = [call EXCEPT ![c].pc = "wait", ![c].attempt = @ + 1]
      <4> DEFINE n == call[c].attempt + 1
                 k == [call[c] EXCEPT !.pc = "wait", !.attempt = n]
      <4>1. n \in 0 .. MaxRetries + 1
        BY <1>p, <2>1, Constants DEF Calling
      <4>2. call' = [call EXCEPT ![c] = k]
        BY <3>1
      <4> HIDE DEF n
      <4>3. k \in Calling /\ k.pc = "wait"
        BY <1>p, <4>1, CallTypes, ZenonT(40) DEF Calling
      <4> HIDE DEF k
      <4> QED
        BY <2>1, <4>2, <4>3, MovesElsewhere DEF Placed, AtPermits
    <3>2. CASE Fail(c)
      BY <1>f, <2>1, <3>2
    <3> QED
      BY <1>8, <3>1, <3>2 DEF Backoff
  <2> QED
    BY <1>b, <1>t, <2>1, <2>2 DEF limits, Unclosed
<1>9. ASSUME NEW c \in Callers, TakeToken(c) PROVE TypeInv'
  <2>1. kind # "local" /\ UNCHANGED <<kind, local, minute, day, breaker>>
    BY <1>9 DEF TakeToken
  <2>2. /\ tokens' \in 0 .. Burst
        /\ Goto(c, "send") \/ Fail(c)
    BY <1>9, <1>t, Constants DEF TakeToken
  <2>3. call' \in [Callers -> Calling] /\ Places' /\ Counted'
    BY <1>f, <1>g, <2>1, <2>2 DEF PCs, AtPermits
  <2> QED
    BY <1>b, <1>t, <2>1, <2>2, <2>3 DEF Unclosed
<1>10. ASSUME NEW c \in Callers, Awake(c) PROVE TypeInv'
  <2>1. kind # "local" /\ Goto(c, "day") /\ UNCHANGED <<kind, local, tokens, day, breaker>>
    BY <1>10, <1>p DEF Awake, Placed, AtPermits
  <2>2. call' \in [Callers -> Calling] /\ Places' /\ Counted'
    BY <1>g, <2>1 DEF PCs, AtPermits
  <2>3. minute' \in [count : 0 .. RPM, over : BOOLEAN, lock : Callers \cup {None}]
    BY <1>10, Constants DEF Awake
  <2> QED
    BY <1>b, <1>t, <2>1, <2>2, <2>3 DEF Unclosed
<1>11. ASSUME NEW c \in Callers, GiveUp(c) PROVE TypeInv'
  <2>1. kind # "local" /\ Fail(c) /\ UNCHANGED <<kind, local, tokens, day, breaker>>
    BY <1>11, <1>p DEF GiveUp, Placed, AtPermits
  <2>2. call' \in [Callers -> Calling] /\ Places' /\ Counted'
    BY <1>f, <2>1
  <2>3. minute' \in [count : 0 .. RPM, over : BOOLEAN, lock : Callers \cup {None}]
    BY <1>11, <1>t DEF GiveUp
  <2> QED
    BY <1>b, <1>t, <2>1, <2>2, <2>3 DEF Unclosed
<1>12. ASSUME NEW c \in Callers, CheckDay(c) PROVE TypeInv'
  <2>1. kind # "local" /\ UNCHANGED <<kind, local, tokens, minute, breaker>>
    BY <1>12, <1>p DEF CheckDay, Placed, AtPermits
  <2>2. /\ day' \in [count : 0 .. RPD, over : BOOLEAN]
        /\ Goto(c, "send") \/ Fail(c)
    <3> DEFINE n == IF day.over THEN 0 ELSE day.count
    <3>1. n \in 0 .. RPD /\ (n < RPD => n + 1 \in 0 .. RPD)
      BY <1>t, Constants
    <3>2. \/ n < RPD /\ day' = [count |-> n + 1, over |-> FALSE] /\ Goto(c, "send")
          \/ UNCHANGED day /\ Fail(c)
      BY <1>12 DEF CheckDay
    <3> HIDE DEF n
    <3>3. CASE n < RPD /\ day' = [count |-> n + 1, over |-> FALSE] /\ Goto(c, "send")
      BY <3>1, <3>3
    <3>4. CASE UNCHANGED day /\ Fail(c)
      BY <1>t, <3>4
    <3> QED
      BY <3>2, <3>3, <3>4
  <2>3. call' \in [Callers -> Calling] /\ Places' /\ Counted'
    BY <1>f, <1>g, <2>1, <2>2 DEF PCs, AtPermits
  <2> QED
    BY <1>b, <1>t, <2>1, <2>2, <2>3 DEF Unclosed
<1>13. ASSUME NEW c \in Callers, CheckMinute(c) PROVE TypeInv'
  <2>1. kind # "local" /\ UNCHANGED <<kind, local, tokens, day, breaker>>
    BY <1>13 DEF CheckMinute
  <2>2. Goto(c, "day") \/ Goto(c, "sleep")
    BY <1>13 DEF CheckMinute
  <2>3. call' \in [Callers -> Calling] /\ Places' /\ Counted'
    BY <1>g, <2>1, <2>2 DEF PCs, AtPermits
  <2>4. minute' \in [count : 0 .. RPM, over : BOOLEAN, lock : Callers \cup {None}]
    <3> DEFINE n == IF minute.over THEN 0 ELSE minute.count
    <3>1. n \in 0 .. RPM /\ (n < RPM => n + 1 \in 0 .. RPM)
      BY <1>t, Constants
    <3>2. \/ n < RPM /\ minute' = [minute EXCEPT !.count = n + 1, !.over = FALSE]
          \/ minute' = [minute EXCEPT !.lock = c]
      BY <1>13 DEF CheckMinute
    <3> HIDE DEF n
    <3> QED
      BY <1>t, <3>1, <3>2
  <2> QED
    BY <1>b, <1>t, <2>1, <2>3, <2>4 DEF Unclosed
<1>14. ASSUME NEW c \in Callers, Ask(c) PROVE TypeInv'
  <2>1. /\ kind = "local" /\ call[c].pc = "idle"
        /\ UNCHANGED <<kind, local, limits, breaker>>
    BY <1>14 DEF Ask
  <2>2. PICK l \in Clients :
          call' = [call EXCEPT ![c] = [NoCall EXCEPT !.pc = "permit", !.client = l]]
    BY <1>14 DEF Ask
  <2> DEFINE k == [NoCall EXCEPT !.pc = "permit", !.client = l]
  <2>3. k \in Calling /\ k.pc = "permit" /\ k.client = l
    BY CallTypes DEF NoCall
  <2> HIDE DEF k
  <2>4. call' = [call EXCEPT ![c] = k]
    BY <2>2 DEF k
  <2>5. call' \in [Callers -> Calling] /\ Places' /\ Counted'
    BY <2>1, <2>3, <2>4, MovesElsewhere DEF Placed, AtPermits
  <2> QED
    BY <1>l, <1>t, <2>1, <2>5 DEF local
<1>15. ASSUME NEW c \in Callers, TakePermit(c) PROVE TypeInv'
  <2>1. /\ kind = "local" /\ call[c].pc = "permit" /\ call[c].client \in Clients
        /\ UNCHANGED <<kind, limits, gate, breaker>>
    BY <1>15, <1>p DEF TakePermit, Placed, AtPermits
  <2>2. CASE /\ permits[call[c].client] < Concurrency
             /\ permits' = [permits EXCEPT ![call[c].client] = @ + 1]
             /\ Goto(c, "gate")
    <3> DEFINE k == [call[c] EXCEPT !.pc = "gate"]
    <3>1. k \in Calling /\ k.pc = "gate" /\ k.client = call[c].client
      BY <1>p, GotoFields DEF PCs
    <3>2. call' = [call EXCEPT ![c] = k]
      BY <2>2 DEF Goto
    <3> HIDE DEF k
    <3>3. /\ permits' \in [Clients -> 0 .. Concurrency]
          /\ \A l \in Clients : permits'[l] = permits[l] + One(Holds(k, l)) - One(Holds(call[c], l))
      BY <1>t, <2>1, <2>2, <3>1, Constants DEF Holds, One, AtPermits
    <3>4. gate' = gate + One(InGate(k)) - One(InGate(call[c]))
      BY <1>t, <2>1, <3>1, Constants DEF InGate, One
    <3>5. Placed(k)
      BY <2>1, <3>1 DEF Placed, AtPermits
    <3>6. call' \in [Callers -> Calling] /\ Places' /\ Counted'
      BY <2>1, <3>1, <3>2, <3>3, <3>4, <3>5, Moves
    <3> QED
      BY <1>l, <1>t, <2>1, <3>3, <3>6
  <2>3. CASE call' = [call EXCEPT ![c] = NoCall] /\ UNCHANGED permits
    <3>1. call' \in [Callers -> Calling] /\ Places' /\ Counted'
      BY <2>1, <2>3, MovesElsewhere, CallTypes DEF Placed, AtPermits, NoCall, local
    <3> QED
      BY <1>l, <1>t, <2>1, <2>3, <3>1
  <2> QED
    BY <1>15, <2>2, <2>3 DEF TakePermit
<1>16. ASSUME NEW c \in Callers, TakeGate(c) PROVE TypeInv'
  <2>1. /\ kind = "local" /\ call[c].pc = "gate" /\ call[c].client \in Clients
        /\ UNCHANGED <<kind, limits, breaker>>
    BY <1>16, <1>p DEF TakeGate, Placed, AtPermits
  <2>2. CASE gate < MaxConcurrent /\ gate' = gate + 1 /\ Goto(c, "send") /\ UNCHANGED permits
    <3> DEFINE k == [call[c] EXCEPT !.pc = "send"]
    <3>1. k \in Calling /\ k.pc = "send" /\ k.client = call[c].client
      BY <1>p, GotoFields DEF PCs
    <3>2. call' = [call EXCEPT ![c] = k]
      BY <2>2 DEF Goto
    <3> HIDE DEF k
    <3>3. \A l \in Clients : permits'[l] = permits[l] + One(Holds(k, l)) - One(Holds(call[c], l))
      BY <1>t, <2>1, <2>2, <3>1, Constants DEF Holds, One, AtPermits
    <3>4. gate' \in 0 .. MaxConcurrent /\ gate' = gate + One(InGate(k)) - One(InGate(call[c]))
      BY <1>t, <2>1, <2>2, <3>1, Constants DEF InGate, One
    <3>5. Placed(k)
      BY <2>1, <3>1 DEF Placed, AtPermits
    <3>6. call' \in [Callers -> Calling] /\ Places' /\ Counted'
      BY <2>1, <3>1, <3>2, <3>3, <3>4, <3>5, Moves
    <3> QED
      BY <1>l, <1>t, <2>1, <2>2, <3>4, <3>6
  <2>3. CASE /\ permits' = [permits EXCEPT ![call[c].client] = @ - 1]
             /\ call' = [call EXCEPT ![c] = NoCall] /\ UNCHANGED gate
    BY <1>gb, <2>1, <2>3 DEF AtPermits
  <2> QED
    BY <1>16, <2>2, <2>3 DEF TakeGate
<1>17. ASSUME NEW c \in Callers, Serve(c) PROVE TypeInv'
  <2>1. kind = "local" /\ call[c].pc = "send" /\ UNCHANGED <<kind, local, limits, breaker>>
    BY <1>17 DEF Serve
  <2>2. call' \in [Callers -> Calling] /\ Places' /\ Counted'
    <3>1. CASE Goto(c, "release")
      <4> DEFINE k == [call[c] EXCEPT !.pc = "release"]
      <4>1. k \in Calling /\ k.pc = "release" /\ k.client = call[c].client
        BY <1>p, GotoFields DEF PCs
      <4>2. call' = [call EXCEPT ![c] = k]
        BY <3>1 DEF Goto
      <4> HIDE DEF k
      <4> QED
        BY <1>p, <2>1, <4>1, <4>2, MovesElsewhere DEF Placed, AtPermits
    <3>2. CASE call' = [call EXCEPT ![c].attempt = 1]
      <4> DEFINE k == [call[c] EXCEPT !.attempt = 1]
      <4>1. k \in Calling /\ k.pc = call[c].pc /\ k.client = call[c].client
        <5>1. 1 \in 0 .. MaxRetries + 1
          BY Constants
        <5> QED
          BY <1>p, <5>1, CallTypes, ZenonT(40) DEF Calling
      <4>2. call' = [call EXCEPT ![c] = k]
        BY <3>2
      <4> HIDE DEF k
      <4> QED
        BY <1>p, <2>1, <4>1, <4>2, MovesElsewhere DEF Placed, AtPermits
    <3> QED
      BY <1>17, <3>1, <3>2 DEF Serve
  <2> QED
    BY <1>l, <1>t, <2>1, <2>2 DEF local
<1>18. ASSUME NEW c \in Callers, ReleaseGate(c) PROVE TypeInv'
  <2>1. /\ kind = "local" /\ call[c].pc = "release" /\ call[c].client \in Clients
        /\ UNCHANGED <<kind, limits, permits, breaker>> /\ gate' = gate - 1
    BY <1>18, <1>p DEF ReleaseGate, Placed, AtPermits
  <2> DEFINE k == [call[c] EXCEPT !.pc = "give back"]
  <2>2. k \in Calling /\ k.pc = "give back" /\ k.client = call[c].client
    BY <1>p, GotoFields DEF PCs
  <2>3. call' = [call EXCEPT ![c] = k]
    BY <1>18 DEF ReleaseGate, Goto
  <2> HIDE DEF k
  <2>4. \A l \in Clients : permits'[l] = permits[l] + One(Holds(k, l)) - One(Holds(call[c], l))
    <3>1. \A l \in Clients : Holds(k, l) = Holds(call[c], l)
      BY <2>1, <2>2 DEF Holds, AtPermits
    <3>2. \A l \in Clients : permits'[l] = permits[l] /\ permits[l] \in Int
      BY <1>t, <2>1, Constants
    <3> QED
      BY <3>1, <3>2 DEF One
  <2>5. gate' = gate + One(InGate(k)) - One(InGate(call[c]))
    <3>1. ~InGate(k) /\ InGate(call[c])
      BY <2>1, <2>2 DEF InGate
    <3> QED
      BY <1>i, <2>1, <3>1 DEF One
  <2>6. Placed(k)
    BY <2>1, <2>2 DEF Placed, AtPermits
  <2>7. call' \in [Callers -> Calling] /\ Places' /\ Counted'
    BY <2>1, <2>2, <2>3, <2>4, <2>5, <2>6, Moves
  <2>8. gate' \in 0 .. MaxConcurrent
    BY <1>t, <2>1, <2>7, FS_CardinalityType, Constants DEF Counted
  <2> QED
    BY <1>l, <1>t, <2>1, <2>7, <2>8
<1>19. ASSUME NEW c \in Callers, GiveBack(c) PROVE TypeInv'
  <2>1. /\ kind = "local" /\ call[c].pc = "give back"
        /\ UNCHANGED <<kind, limits, gate, breaker>>
    BY <1>19, <1>p DEF GiveBack, Placed, AtPermits
  <2> QED
    BY <1>19, <1>gb, <2>1 DEF GiveBack, AtPermits
<1>20. ASSUME NEW c \in Callers, ContextEnds(c) PROVE TypeInv'
  <2> DEFINE k == [call[c] EXCEPT !.ended = TRUE]
  <2>1. k \in Calling /\ k.pc = call[c].pc /\ k.client = call[c].client /\ k.attempt = call[c].attempt
    BY <1>p, CallTypes, ZenonT(40) DEF Calling
  <2>2. call' = [call EXCEPT ![c] = k] /\ UNCHANGED <<kind, local, limits, breaker>>
    BY <1>20 DEF ContextEnds
  <2> HIDE DEF k
  <2>3. call' \in [Callers -> Calling] /\ Places' /\ Counted'
    BY <1>p, <2>1, <2>2, MovesElsewhere DEF Placed
  <2> QED
    BY <1>b, <1>t, <2>2, <2>3 DEF limits, Unclosed
<1>21. CASE UNCHANGED vars
  BY <1>21, <1>s, <1>b, <1>t DEF vars, limits, local, Unclosed
<1> QED
  BY <1>1, <1>2, <1>3, <1>4, <1>5, <1>6, <1>7, <1>8, <1>9, <1>10, <1>11, <1>12, <1>13, <1>14,
     <1>15, <1>16, <1>17, <1>18, <1>19, <1>20, <1>21 DEF Next, Pass, Attempt, Hold

\* Types hold for any constants: in particular no breaker, bucket, limiter,
\* permit or gate ever counts past its limit or below zero.
THEOREM TypeTheorem == Spec => []TypeOK
<1>1. TypeInv => TypeOK
  BY DEF TypeInv
<1> QED
  BY <1>1, TypeInit, TypeStep, PTL DEF Spec

\* Every permit and every place at the gate is held by exactly one call.
THEOREM PermitsTheorem == Spec => []PermitsAreHeld
<1>1. TypeInv => PermitsAreHeld
  <2> SUFFICES ASSUME TypeInv PROVE PermitsAreHeld
    OBVIOUS
  <2>1. AtGate = {c \in Callers : kind = "local" /\ call[c].pc \in {"send", "release"}}
    BY DEF AtGate, InGate
  <2>2. ASSUME NEW l \in Clients
        PROVE  Holding(l) =
                 {c \in {d \in Callers : /\ kind = "local"
                                         /\ call[d].pc \in {"gate", "send", "release", "give back"}} :
                    call[c].client = l}
    BY DEF Holding, Holds, AtPermits
  <2> QED
    BY <2>1, <2>2 DEF TypeInv, Counted, PermitsAreHeld
<1> QED
  BY <1>1, TypeInit, TypeStep, PTL DEF Spec

-------------------------------------------------------------------------------
(* The minute and the probe *)

Waits == {"sleep", "awake"}
\* No call begins to wait for the next minute, and none becomes a probe.
Standing == \A d \in Callers : /\ call'[d].pc \in Waits => call'[d].pc = call[d].pc
                               /\ call'[d].probe = TRUE => call[d].probe = TRUE
\* The steps of a call after its start, without the line before the mutex.
Later(c) == Report(c) \/ Attempt(c) \/ Ask(c) \/ Hold(c) \/ ContextEnds(c)

LEMMA LaterSteps ==
  ASSUME TypeInv, NEW c \in Callers, Later(c) PROVE Standing
<1>t. call \in [Callers -> Calling] /\ call[c] \in Calling
  BY DEF TypeInv, TypeOK, Calling
<1>k. ASSUME NEW k, call' = [call EXCEPT ![c] = k], k.pc \in Waits => k.pc = call[c].pc,
             k.probe = TRUE => call[c].probe = TRUE
      PROVE  Standing
  BY <1>k, <1>t DEF Standing
<1>n. ASSUME call' = [call EXCEPT ![c] = NoCall] PROVE Standing
  BY <1>n, <1>k, NoCallFields DEF Waits
<1>g. ASSUME NEW p \in PCs \ Waits, Goto(c, p) PROVE Standing
  <2> DEFINE k == [call[c] EXCEPT !.pc = p]
  <2>1. k.pc = p /\ k.probe = call[c].probe
    BY <1>t, GotoFields
  <2>2. call' = [call EXCEPT ![c] = k]
    BY <1>g DEF Goto
  <2> HIDE DEF k
  <2> QED
    BY <1>g, <1>k, <2>1, <2>2
<1>f. ASSUME Fail(c) PROVE Standing
  <2> DEFINE k == [call[c] EXCEPT !.pc = "after", !.failed = TRUE]
  <2>1. k.pc = "after" /\ k.probe = call[c].probe
    BY <1>t DEF Calling
  <2>2. call' = [call EXCEPT ![c] = k]
    BY <1>f DEF Fail
  <2> HIDE DEF k
  <2> QED
    BY <1>k, <2>1, <2>2 DEF Waits
<1>1. CASE Report(c) \/ GiveBack(c)
  BY <1>1, <1>n DEF Report, GiveBack
<1>2. CASE Answer(c) \/ TakeToken(c) \/ Awake(c) \/ GiveUp(c) \/ CheckDay(c) \/ ReleaseGate(c)
  BY <1>2, <1>f, <1>g DEF Answer, TakeToken, Awake, GiveUp, CheckDay, ReleaseGate, PCs, Waits
<1>3. CASE Backoff(c)
  <2>1. CASE Fail(c)
    BY <2>1, <1>f
  <2>2. CASE call' = [call EXCEPT ![c].pc = "wait", ![c].attempt = @ + 1]
    <3> DEFINE k == [call[c] EXCEPT !.pc = "wait", !.attempt = call[c].attempt + 1]
    <3>1. k.pc = "wait" /\ k.probe = call[c].probe
      BY <1>t DEF Calling
    <3>2. call' = [call EXCEPT ![c] = k]
      BY <2>2
    <3> HIDE DEF k
    <3> QED
      BY <1>k, <3>1, <3>2 DEF Waits
  <2> QED
    BY <1>3, <2>1, <2>2 DEF Backoff
<1>4. CASE Ask(c)
  <2>1. PICK l \in Clients :
          call' = [call EXCEPT ![c] = [NoCall EXCEPT !.pc = "permit", !.client = l]]
    BY <1>4 DEF Ask
  <2> DEFINE k == [NoCall EXCEPT !.pc = "permit", !.client = l]
  <2>2. k.pc = "permit" /\ k.probe = FALSE
    BY DEF NoCall
  <2>3. call' = [call EXCEPT ![c] = k]
    BY <2>1
  <2> HIDE DEF k
  <2> QED
    BY <1>k, <2>2, <2>3 DEF Waits
<1>5. CASE TakePermit(c) \/ TakeGate(c)
  BY <1>5, <1>g, <1>n DEF TakePermit, TakeGate, PCs, Waits
<1>6. CASE Serve(c)
  <2>1. CASE Goto(c, "release")
    BY <2>1, <1>g DEF PCs, Waits
  <2>2. CASE call' = [call EXCEPT ![c].attempt = 1]
    <3> DEFINE k == [call[c] EXCEPT !.attempt = 1]
    <3>1. k.pc = call[c].pc /\ k.probe = call[c].probe
      BY <1>t DEF Calling
    <3>2. call' = [call EXCEPT ![c] = k]
      BY <2>2
    <3> HIDE DEF k
    <3> QED
      BY <1>k, <3>1, <3>2
  <2> QED
    BY <1>6, <2>1, <2>2 DEF Serve
<1>7. CASE ContextEnds(c)
  <2> DEFINE k == [call[c] EXCEPT !.ended = TRUE]
  <2>1. k.pc = call[c].pc /\ k.probe = call[c].probe
    BY <1>t DEF Calling
  <2>2. call' = [call EXCEPT ![c] = k]
    BY <1>7 DEF ContextEnds
  <2> HIDE DEF k
  <2> QED
    BY <1>k, <2>1, <2>2
<1> QED
  BY <1>1, <1>2, <1>3, <1>4, <1>5, <1>6, <1>7 DEF Later, Attempt, Hold

\* A caller that waits for the next minute has the mutex, so that one at a time
\* begins a minute; the count of the minute covers what was granted in it.
MinuteInv ==
  /\ granted \in Nat /\ granted <= minute.count
  /\ \A c \in Callers : /\ call[c].pc \in Waits => minute.lock = c
                        /\ call[c].pc = "awake" => minute.over

LEMMA MinuteStep == TypeInv /\ MinuteInv /\ [Next]_vars => MinuteInv'
<1> SUFFICES ASSUME TypeInv, MinuteInv, [Next]_vars PROVE MinuteInv'
  OBVIOUS
<1>t. /\ minute \in [count : 0 .. RPM, over : BOOLEAN, lock : Callers \cup {None}]
      /\ call \in [Callers -> Calling] /\ None \notin Callers /\ minute.count \in Nat
  BY NoneAssumption, Constants DEF TypeInv, TypeOK, Calling
<1>u. ASSUME UNCHANGED <<minute, granted>>, Standing PROVE MinuteInv'
  BY <1>u DEF MinuteInv, Standing, Waits
<1>1. CASE OpenTimeoutPasses \/ Refill \/ DayPasses \/ UNCHANGED vars
  BY <1>1, <1>u DEF OpenTimeoutPasses, Refill, DayPasses, limits, vars, Standing
<1>2. CASE MinutePasses
  <2>1. /\ minute'.count = minute.count /\ minute'.lock = minute.lock /\ minute'.over = TRUE
        /\ granted' = granted
    BY <1>2, <1>t DEF MinutePasses
  <2>2. \A c \in Callers : call'[c].pc \in Waits => call[c].pc \in Waits
    BY <1>2, <1>t DEF MinutePasses, Waits
  <2> QED
    BY <2>1, <2>2 DEF MinuteInv
<1>3. ASSUME NEW c \in Callers, Execute(c) PROVE MinuteInv'
  <2> DEFINE k == [NoCall EXCEPT !.pc = "wait", !.probe = breaker.state # "closed"]
  <2>1. k.pc = "wait"
    BY DEF NoCall
  <2>2. call' = [call EXCEPT ![c] = k] /\ UNCHANGED <<minute, granted>>
    BY <1>3 DEF Execute, limits
  <2> HIDE DEF k
  <2> QED
    BY <1>t, <2>1, <2>2 DEF MinuteInv, Waits
<1>4. ASSUME NEW c \in Callers, CheckMinute(c) PROVE MinuteInv'
  <2>1. \A d \in Callers : call[d].pc \notin Waits
    BY <1>4, <1>t DEF CheckMinute, MinuteInv
  <2> DEFINE n == IF minute.over THEN 0 ELSE minute.count
  <2>2. CASE /\ minute' = [minute EXCEPT !.count = n + 1, !.over = FALSE]
             /\ Granted(granted) /\ Goto(c, "day")
    <3>1. minute'.count = n + 1 /\ granted' = IF minute.over THEN 1 ELSE granted + 1
      BY <1>t, <2>2 DEF Granted
    <3>2. \A d \in Callers : call'[d].pc \notin Waits
      BY <1>t, <2>1, <2>2 DEF Goto, Waits, Calling
    <3> QED
      BY <1>t, <3>1, <3>2 DEF MinuteInv, Waits
  <2>3. CASE minute' = [minute EXCEPT !.lock = c] /\ Goto(c, "sleep") /\ UNCHANGED granted
    <3>1. minute'.lock = c /\ minute'.count = minute.count
      BY <1>t, <2>3
    <3>2. /\ call'[c].pc = "sleep"
          /\ \A d \in Callers : d # c => call'[d].pc \notin Waits
      BY <1>t, <2>1, <2>3 DEF Goto, Calling
    <3> QED
      BY <2>3, <3>1, <3>2 DEF MinuteInv, Waits
  <2> QED
    BY <1>4, <2>2, <2>3 DEF CheckMinute
<1>5. ASSUME NEW c \in Callers, Awake(c) PROVE MinuteInv'
  <2>1. minute.over /\ \A d \in Callers : d # c => call[d].pc \notin Waits
    BY <1>5 DEF Awake, MinuteInv, Waits
  <2>2. minute'.count = 1 /\ granted' = 1
    BY <1>5, <2>1 DEF Awake, Granted
  <2>3. \A d \in Callers : call'[d].pc \notin Waits
    BY <1>5, <1>t, <2>1 DEF Awake, Goto, Waits, Calling
  <2> QED
    BY <2>2, <2>3 DEF MinuteInv, Waits
<1>6. ASSUME NEW c \in Callers, GiveUp(c) PROVE MinuteInv'
  <2>1. \A d \in Callers : d # c => call[d].pc \notin Waits
    BY <1>6 DEF GiveUp, MinuteInv, Waits
  <2>2. minute'.count = minute.count /\ granted' = granted
    BY <1>6, <1>t DEF GiveUp
  <2>3. \A d \in Callers : call'[d].pc \notin Waits
    BY <1>6, <1>t, <2>1 DEF GiveUp, Fail, Waits, Calling
  <2> QED
    BY <2>2, <2>3 DEF MinuteInv, Waits
<1>7. ASSUME NEW c \in Callers, Later(c), ~Awake(c), ~GiveUp(c) PROVE MinuteInv'
  <2>1. UNCHANGED <<minute, granted>>
    BY <1>7 DEF Later, Attempt, Hold, Report, Answer, Backoff, TakeToken, CheckDay, Ask,
                TakePermit, TakeGate, Serve, ReleaseGate, GiveBack, ContextEnds, limits
  <2> QED
    BY <1>7, <1>u, <2>1, LaterSteps
<1> QED
  BY <1>1, <1>2, <1>3, <1>4, <1>5, <1>6, <1>7 DEF Next, Pass, Later

\* No minute grants more than RPM requests, with any number of callers that
\* wait for it to end.
THEOREM MinuteTheorem == Spec => []MinuteHolds
<1>1. Init => MinuteInv
  BY NoCallFields DEF Init, MinuteInv, Waits
<1>2. TypeInv /\ MinuteInv => MinuteHolds
  BY Constants DEF TypeInv, TypeOK, MinuteInv, MinuteHolds
<1> QED
  BY <1>1, <1>2, TypeInit, TypeStep, MinuteStep, PTL DEF Spec

\* While no report has come late, a probe is what the breaker believes in flight.
ProbeInv ==
  ~late =>
    /\ \A c \in Callers : call[c].probe = TRUE => breaker.state = "half-open" /\ breaker.probeInFlight
    /\ \A c, d \in Callers : call[c].probe = TRUE /\ call[d].probe = TRUE => c = d

LEMMA ProbeStep == TypeInv /\ ProbeInv /\ [Next]_vars => ProbeInv'
<1> SUFFICES ASSUME TypeInv, ProbeInv, [Next]_vars PROVE ProbeInv'
  OBVIOUS
<1>t. call \in [Callers -> Calling] /\ breaker \in Breaker
  BY DEF TypeInv, TypeOK, Calling, Breaker
<1>u. ASSUME UNCHANGED <<breaker, late>>, Standing PROVE ProbeInv'
  BY <1>u DEF ProbeInv, Standing
<1>1. CASE Refill \/ DayPasses \/ UNCHANGED vars
  BY <1>1, <1>u DEF Refill, DayPasses, vars, Standing
<1>2. CASE MinutePasses
  <2>1. \A c \in Callers : call'[c].probe = call[c].probe
    BY <1>2, <1>t DEF MinutePasses, Calling
  <2> QED
    BY <1>2, <2>1 DEF ProbeInv, MinutePasses
<1>3. CASE OpenTimeoutPasses
  BY <1>3 DEF ProbeInv, OpenTimeoutPasses
<1>4. ASSUME NEW c \in Callers, Execute(c) PROVE ProbeInv'
  <2> DEFINE k == [NoCall EXCEPT !.pc = "wait", !.probe = breaker.state # "closed"]
  <2>1. k.probe = (breaker.state # "closed")
    BY DEF NoCall
  <2>2. call' = [call EXCEPT ![c] = k] /\ late' = late
    BY <1>4 DEF Execute
  <2> HIDE DEF k
  <2>3. \A d \in Callers : call'[d].probe = IF d = c THEN breaker.state # "closed" ELSE call[d].probe
    BY <1>t, <2>1, <2>2
  <2>4. ~late => \A d \in Callers : call[d].probe # TRUE
    BY <1>4 DEF Execute, Admits, ProbeInv
  <2>5. breaker.state # "closed" => breaker'.state = "half-open" /\ breaker'.probeInFlight
    <3>1. SetState(breaker, "half-open") \in Breaker /\ SetState(breaker, "half-open").state = "half-open"
      BY <1>t, SetStateType, SetStateFields DEF States
    <3> QED
      BY <1>4, <3>1 DEF Execute, BeforeRequest, Breaker
  <2> QED
    BY <2>2, <2>3, <2>4, <2>5 DEF ProbeInv
<1>5. ASSUME NEW c \in Callers, Report(c) PROVE ProbeInv'
  <2>1. \A d \in Callers : call'[d].probe = IF d = c THEN FALSE ELSE call[d].probe
    BY <1>5, <1>t, NoCallFields DEF Report
  <2>2. ~late' => ~late /\ \A d \in Callers \ {c} : call[d].probe # TRUE
    BY <1>5 DEF Report, ProbeInv
  <2> QED
    BY <2>1, <2>2 DEF ProbeInv
<1>6. ASSUME NEW c \in Callers, CheckMinute(c) PROVE ProbeInv'
  <2>1. \A d \in Callers : call'[d].probe = call[d].probe
    BY <1>6, <1>t DEF CheckMinute, Goto, Calling
  <2> QED
    BY <1>6, <2>1 DEF ProbeInv, CheckMinute
<1>7. ASSUME NEW c \in Callers, Later(c), ~Report(c) PROVE ProbeInv'
  <2>1. UNCHANGED <<breaker, late>>
    BY <1>7 DEF Later, Attempt, Hold, Answer, Backoff, TakeToken, Awake, GiveUp, CheckDay, Ask,
                TakePermit, TakeGate, Serve, ReleaseGate, GiveBack, ContextEnds
  <2> QED
    BY <1>7, <1>u, <2>1, LaterSteps
<1> QED
  BY <1>1, <1>2, <1>3, <1>4, <1>5, <1>6, <1>7 DEF Next, Pass, Later

\* One probe at a time, for any number of callers, unless a call from before
\* the breaker opened reports late.
THEOREM ProbeTheorem == Spec => []OneProbe
<1>1. Init => ProbeInv
  BY NoCallFields DEF Init, ProbeInv
<1>2. TypeInv /\ ProbeInv => OneProbe
  <2> SUFFICES ASSUME TypeInv, ProbeInv, ~late
               PROVE  Cardinality({c \in Callers : call[c].probe}) <= 1
    BY DEF OneProbe
  <2> DEFINE S == {c \in Callers : call[c].probe}
  <2>1. CASE S = {}
    BY <2>1, FS_EmptySet
  <2>2. ASSUME S # {} PROVE Cardinality(S) <= 1
    <3>1. PICK c \in S : TRUE
      BY <2>2
    <3>2. \A d \in S : d \in Callers /\ call[d].probe = TRUE
      BY DEF TypeInv, TypeOK
    <3>3. ASSUME NEW d \in S PROVE d = c
      BY <3>1, <3>2, <3>3 DEF ProbeInv
    <3> HIDE DEF S
    <3>4. S = {c}
      BY <3>1, <3>3
    <3>5. Cardinality({c}) = 1
      BY FS_Singleton
    <3> QED
      BY <3>4, <3>5
  <2> QED
    BY <2>1, <2>2
<1> QED
  BY <1>1, <1>2, TypeInit, TypeStep, ProbeStep, PTL DEF Spec

\* The successes the breaker counts were all reported since the last failure.
EarnedInv == streak \in 0 .. SuccessThreshold /\ breaker.successes <= streak

LEMMA EarnedReport ==
  ASSUME TypeInv, EarnedInv, NEW c \in Callers, Report(c)
  PROVE  /\ EarnedInv'
         /\ breaker.state = "half-open" /\ breaker'.state = "closed" => streak' = SuccessThreshold
<1> DEFINE r == [breaker EXCEPT !.probeInFlight = FALSE]
<1>1. breaker \in Breaker /\ breaker.successes < SuccessThreshold
  BY DEF TypeInv, TypeOK, Breaker, Unclosed
<1>2. r \in Breaker /\ r.successes = breaker.successes /\ r.state = breaker.state
  BY <1>1 DEF Breaker
<1>3. breaker' = IF call[c].failed THEN OnFailure(r) ELSE OnSuccess(r)
  BY DEF Report, AfterRequest
<1>4. streak' = IF call[c].failed THEN 0
                ELSE IF streak < SuccessThreshold THEN streak + 1 ELSE streak
  BY DEF Report
<1>5. breaker.successes \in Nat /\ streak \in Nat /\ streak <= SuccessThreshold
      /\ breaker.successes <= streak /\ SuccessThreshold \in Nat
  BY <1>1, Constants DEF EarnedInv, Breaker
<1> HIDE DEF r
<1>6. CASE call[c].failed
  <2>1. breaker'.successes = 0 /\ streak' = 0
        /\ (breaker.state = "half-open" => breaker'.state = "open")
    BY <1>2, <1>3, <1>4, <1>6, OnFailureFields
  <2> QED
    BY <1>5, <2>1 DEF EarnedInv
<1>7. CASE ~call[c].failed
  <2>1. /\ breaker' = OnSuccess(r) /\ streak' \in 0 .. SuccessThreshold
        /\ streak' = IF streak < SuccessThreshold THEN streak + 1 ELSE streak
    BY <1>3, <1>4, <1>5, <1>7
  <2>2. CASE breaker.state # "half-open"
    <3>1. breaker'.successes = breaker.successes
      BY <1>1, <1>2, <2>1, <2>2, OnSuccessFields
    <3> QED
      BY <1>5, <2>1, <2>2, <3>1 DEF EarnedInv
  <2>3. CASE breaker.state = "half-open" /\ breaker.successes + 1 >= SuccessThreshold
    <3>1. breaker'.successes = 0
      BY <1>1, <1>2, <2>1, <2>3, OnSuccessFields
    <3>2. streak' = SuccessThreshold
      BY <1>5, <2>1, <2>3
    <3> QED
      BY <1>5, <3>1, <3>2 DEF EarnedInv
  <2>4. CASE breaker.state = "half-open" /\ breaker.successes + 1 < SuccessThreshold
    <3>1. breaker'.successes = breaker.successes + 1 /\ breaker'.state = "half-open"
      BY <1>1, <1>2, <2>1, <2>4, OnSuccessFields
    <3> QED
      BY <1>5, <2>1, <2>4, <3>1 DEF EarnedInv
  <2> QED
    BY <1>5, <2>2, <2>3, <2>4
<1> QED
  BY <1>6, <1>7

LEMMA EarnedStep ==
  ASSUME TypeInv, EarnedInv, [Next]_vars
  PROVE  /\ EarnedInv'
         /\ breaker.state = "half-open" /\ breaker'.state = "closed" => streak' >= SuccessThreshold
<1>t. breaker \in Breaker
  BY DEF TypeInv, TypeOK, Breaker
<1>1. ASSUME NEW c \in Callers, Report(c)
      PROVE  /\ EarnedInv'
             /\ breaker.state = "half-open" /\ breaker'.state = "closed" => streak' >= SuccessThreshold
  BY <1>1, EarnedReport, Constants
<1>2. CASE OpenTimeoutPasses
  BY <1>2, <1>t DEF OpenTimeoutPasses, EarnedInv, Breaker
<1>3. ASSUME NEW c \in Callers, Execute(c)
      PROVE  EarnedInv' /\ ~(breaker.state = "half-open" /\ breaker'.state = "closed")
  <2> DEFINE b == SetState(breaker, "half-open")
  <2>1. b \in Breaker /\ b.successes = breaker.successes /\ b.state = "half-open"
    BY <1>t, SetStateType, SetStateFields DEF States
  <2>2. breaker' = IF breaker.state = "closed" THEN breaker ELSE [b EXCEPT !.probeInFlight = TRUE]
    BY <1>3 DEF Execute, BeforeRequest
  <2> HIDE DEF b
  <2>3. /\ breaker'.successes = breaker.successes
        /\ breaker.state # "closed" => breaker'.state = "half-open"
    BY <2>1, <2>2 DEF Breaker
  <2> QED
    BY <1>3, <2>3 DEF Execute, EarnedInv
<1>4. CASE UNCHANGED <<breaker, streak>>
  BY <1>4 DEF EarnedInv
<1>5. ASSUME NEW c \in Callers, CheckMinute(c) \/ (Later(c) /\ ~Report(c))
      PROVE  UNCHANGED <<breaker, streak>>
  BY <1>5 DEF CheckMinute, Later, Attempt, Hold, Answer, Backoff, TakeToken, Awake, GiveUp, CheckDay,
              Ask, TakePermit, TakeGate, Serve, ReleaseGate, GiveBack, ContextEnds
<1>6. Refill \/ MinutePasses \/ DayPasses \/ UNCHANGED vars => UNCHANGED <<breaker, streak>>
  BY DEF Refill, MinutePasses, DayPasses, vars
<1> QED
  BY <1>1, <1>2, <1>3, <1>4, <1>5, <1>6 DEF Next, Pass, Later

\* The breaker closes only after SuccessThreshold successes in a row, with any
\* thresholds and any calls that report in between, late ones too.
THEOREM EarnedTheorem == Spec => ClosedIsEarned
<1>1. Init => EarnedInv
  BY Constants DEF Init, EarnedInv
<1>2. TypeInv /\ EarnedInv /\ [Next]_vars =>
        [breaker.state = "half-open" /\ breaker'.state = "closed" => streak' >= SuccessThreshold]_vars
  BY EarnedStep
<1>3. TypeInv /\ EarnedInv /\ [Next]_vars => EarnedInv'
  BY EarnedStep
<1> QED
  BY <1>1, <1>2, <1>3, TypeInit, TypeStep, PTL DEF Spec, ClosedIsEarned
===============================================================================
