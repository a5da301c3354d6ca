---------------------------- MODULE JobQueueProofs ----------------------------
(***************************************************************************)
(* Proofs about JobQueue for any jobs, workers, limits and bounds.  The    *)
(* first invariant needs nothing more, and no job is lost under it even    *)
(* when jobs overrun their claim time.  The others need that none does:    *)
(* an entry is then held by one worker, and a job has one entry.           *)
(***************************************************************************)
EXTENDS JobQueue, FiniteSetTheorems, TLAPS

-------------------------------------------------------------------------------
(* What can happen to the stream *)

Logged(j) == \E i \in 1 .. Len(log) : log[i].job = j
Queued(j) == \E i \in live : log[i].job = j
Buried(j) == \E k \in 1 .. Len(dead) : dead[k] = j

\* A worker with an entry, and what its program counter promises.
Busy(w) == worker[w].pc \notin {"claim", "read", "gone"}
BaseInv ==
  /\ TypeOK
  /\ \A i \in 1 .. Len(log) : i > cursor => i \in live
  /\ \A w \in Workers : Busy(w) => worker[w].at \in 1 .. cursor
  /\ \A w \in Workers : worker[w].pc = "complete" => Job(w) \in worked
  /\ \A j \in Jobs : Logged(j) => Queued(j) \/ j \in worked \/ Buried(j)

\* The three ways in which the stream changes.
Adds(e) ==
  /\ log' = Append(log, e) /\ live' = live \cup {Len(log) + 1} /\ dead' = dead
Drops(i) ==
  /\ live' = live \ {i} /\ log' = log /\ dead' = dead
Again(e) == [e EXCEPT !.retries = @ + 1]
Retries(i) ==
  /\ log[i].retries + 1 < MaxRetry
  /\ log' = Append(log, Again(log[i])) /\ live' = (live \ {i}) \cup {Len(log) + 1} /\ dead' = dead
Buries(i) ==
  /\ log[i].retries + 1 >= MaxRetry
  /\ dead' = Append(dead, log[i].job) /\ live' = live \ {i} /\ log' = log

LEMMA Constants ==
  MaxRetry \in Nat \ {0} /\ ReclaimCount \in Nat \ {0} /\ MaxFaults \in Nat /\ MaxStops \in Nat
  BY QueueAssumption

LEMMA Appending ==
  ASSUME NEW S, NEW s \in Seq(S), NEW e \in S
  PROVE  /\ Append(s, e) \in Seq(S) /\ Len(Append(s, e)) = Len(s) + 1
         /\ \A i \in 1 .. Len(s) : Append(s, e)[i] = s[i]
         /\ Append(s, e)[Len(s) + 1] = e
         /\ Len(s) \in Nat
  OBVIOUS

LEMMA Entries ==
  ASSUME TypeOK
  PROVE  \A i \in 1 .. Len(log) :
           log[i] \in Entry /\ log[i].job \in Jobs /\ log[i].retries \in 0 .. MaxRetry - 1
<1>1. \A i \in 1 .. Len(log) : log[i] \in Entry
  BY DEF TypeOK
<1> QED
  BY <1>1 DEF Entry

LEMMA AgainType ==
  ASSUME NEW e \in Entry, e.retries + 1 < MaxRetry
  PROVE  Again(e) \in Entry /\ Again(e).job = e.job /\ Again(e).retries = e.retries + 1
<1>1. e.retries + 1 \in 0 .. MaxRetry - 1
  BY Constants DEF Entry
<1> QED
  BY <1>1 DEF Again, Entry

\* The stream and its entries after an addition.
LEMMA Longer ==
  ASSUME TypeOK, NEW e \in Entry, log' = Append(log, e)
  PROVE  /\ log' \in Seq(Entry) /\ Len(log') = Len(log) + 1 /\ Len(log) \in Nat
         /\ \A i \in 1 .. Len(log) : log'[i] = log[i]
         /\ log'[Len(log) + 1] = e
         /\ 1 .. Len(log') = 1 .. Len(log) \cup {Len(log) + 1}
         /\ Len(log) + 1 \notin 1 .. Len(log)
<1>1. log \in Seq(Entry)
  BY DEF TypeOK
<1>2. /\ log' \in Seq(Entry) /\ Len(log') = Len(log) + 1 /\ Len(log) \in Nat
      /\ \A i \in 1 .. Len(log) : log'[i] = log[i]
      /\ log'[Len(log) + 1] = e
  BY <1>1, Appending
<1> QED
  BY <1>2

LEMMA AddsEffect ==
  ASSUME TypeOK, NEW e \in Entry, Adds(e)
  PROVE  \A j : /\ Logged(j)' <=> Logged(j) \/ j = e.job
                /\ Queued(j)' <=> Queued(j) \/ j = e.job
                /\ Buried(j)' <=> Buried(j)
<1>1. live \subseteq 1 .. Len(log)
  BY DEF TypeOK
<1> QED
  BY <1>1, Longer DEF Adds, Logged, Queued, Buried

LEMMA RetriesEffect ==
  ASSUME TypeOK, NEW i \in 1 .. Len(log), Retries(i)
  PROVE  \A j : /\ Logged(j)' <=> Logged(j)
                /\ Queued(j) => Queued(j)'
                /\ Queued(j)' => Queued(j) \/ j = log[i].job
                /\ Buried(j)' <=> Buried(j)
                /\ Queued(log[i].job)'
<1>1. live \subseteq 1 .. Len(log) /\ log[i] \in Entry
  BY DEF TypeOK
<1>2. Again(log[i]) \in Entry /\ Again(log[i]).job = log[i].job
  BY <1>1, AgainType DEF Retries
<1> QED
  BY <1>1, <1>2, Longer DEF Retries, Logged, Queued, Buried

LEMMA BuriesEffect ==
  ASSUME TypeOK, NEW i \in 1 .. Len(log), Buries(i)
  PROVE  /\ dead' \in Seq(Jobs)
         /\ \A j : /\ Logged(j)' <=> Logged(j)
                   /\ Queued(j) => Queued(j)' \/ j = log[i].job
                   /\ Queued(j)' => Queued(j)
                   /\ Buried(j)' <=> Buried(j) \/ j = log[i].job
<1>1. dead \in Seq(Jobs) /\ log[i].job \in Jobs
  BY Entries DEF TypeOK
<1>2. /\ dead' \in Seq(Jobs) /\ Len(dead') = Len(dead) + 1 /\ Len(dead) \in Nat
      /\ \A k \in 1 .. Len(dead) : dead'[k] = dead[k]
      /\ dead'[Len(dead) + 1] = log[i].job
  BY <1>1, Appending DEF Buries
<1> QED
  BY <1>2 DEF Buries, Logged, Queued, Buried

LEMMA DropsEffect ==
  ASSUME NEW i \in 1 .. Len(log), Drops(i)
  PROVE  \A j : /\ Logged(j)' <=> Logged(j)
                /\ Queued(j) => Queued(j)' \/ j = log[i].job
                /\ Queued(j)' => Queued(j)
                /\ Buried(j)' <=> Buried(j)
  BY DEF Drops, Logged, Queued, Buried

LEMMA LostIsNot ==
  TypeOK => (NoJobIsLost <=> \A j \in Jobs : Logged(j) => Queued(j) \/ j \in worked \/ Buried(j))
<1> SUFFICES ASSUME TypeOK
             PROVE  NoJobIsLost <=> \A j \in Jobs : Logged(j) => Queued(j) \/ j \in worked \/ Buried(j)
  OBVIOUS
<1>1. \A i \in 1 .. Len(log) : log[i].job \in Jobs
  BY Entries
<1>2. \A j : LiveOf(j) = {} <=> ~Queued(j)
  BY DEF LiveOf, Queued
<1>3. \A j : j \in {dead[k] : k \in 1 .. Len(dead)} <=> Buried(j)
  BY DEF Buried
<1> QED
  BY <1>1, <1>2, <1>3 DEF NoJobIsLost, Logged

-------------------------------------------------------------------------------
(* What holds of any configuration *)

\* A step that leaves the stream alone and moves one worker.
LEMMA WorkerMoves ==
  ASSUME TypeOK, NEW w \in Workers, NEW g \in Goroutine, worker' = [worker EXCEPT ![w] = g]
  PROVE  /\ worker' \in [Workers -> Goroutine]
         /\ \A v \in Workers : worker'[v] = IF v = w THEN g ELSE worker[v]
  BY DEF TypeOK

LEMMA Standing ==
  /\ Looping \in Goroutine /\ Looping.pc = "claim"
  /\ Gone \in Goroutine /\ Gone.pc = "gone"
  BY DEF Looping, Gone, Goroutine, PCs

LEMMA GotoMoves ==
  ASSUME NEW w \in Workers, NEW pc \in PCs, NEW i \in Nat, Goto(w, pc, i)
  PROVE  \E g \in Goroutine : worker' = [worker EXCEPT ![w] = g] /\ g.pc = pc /\ g.at = i
<1> DEFINE g == [pc |-> pc, at |-> i]
<1>1. g \in Goroutine /\ g.pc = pc /\ g.at = i
  BY DEF Goroutine
<1>2. worker' = [worker EXCEPT ![w] = g]
  BY DEF Goto
<1> HIDE DEF g
<1> QED
  BY <1>1, <1>2

LEMMA LoopMoves ==
  ASSUME NEW w \in Workers, Loop(w)
  PROVE  \E g \in Goroutine : worker' = [worker EXCEPT ![w] = g] /\ g.pc = "claim"
  BY Standing DEF Loop

LEMMA FirstAreIdle ==
  /\ \A n : FirstOf(Idle, n) \subseteq Idle
  /\ Idle \subseteq live /\ \A i \in Idle : i <= cursor /\ i \notin fresh
  BY DEF FirstOf, Idle, Pending

\* The parts of BaseInv that a step has to show for itself.
LEMMA BaseParts ==
  ASSUME BaseInv, TypeOK',
         \A j \in Jobs : Logged(j)' => Queued(j)' \/ j \in worked' \/ Buried(j)',
         \A i \in 1 .. Len(log') : i > cursor' => i \in live',
         \A i \in 1 .. cursor : log'[i] = log[i], cursor <= cursor', worked \subseteq worked',
         \A w \in Workers :
           \/ worker'[w] = worker[w]
           \/ worker'[w].pc \in {"claim", "read", "gone"}
           \/ /\ worker'[w].at \in 1 .. cursor'
              /\ worker'[w].pc = "complete" => log'[worker'[w].at].job \in worked'
  PROVE  BaseInv'
<1>1. cursor \in Nat /\ cursor' \in Nat
  BY DEF BaseInv, TypeOK
<1>2. ASSUME NEW w \in Workers, Busy(w)' PROVE worker'[w].at \in 1 .. cursor'
  BY <1>1, <1>2 DEF BaseInv, Busy
<1>3. ASSUME NEW w \in Workers, worker'[w].pc = "complete" PROVE Job(w)' \in worked'
  <2>1. CASE worker'[w] = worker[w]
    <3>1. worker[w].at \in 1 .. cursor /\ Job(w) \in worked
      BY <1>3, <2>1 DEF BaseInv, Busy
    <3> QED
      BY <2>1, <3>1 DEF Job
  <2>2. CASE worker'[w].pc = "complete" => log'[worker'[w].at].job \in worked'
    BY <1>3, <2>2 DEF Job
  <2> QED
    BY <1>3, <2>1, <2>2
<1> QED
  BY <1>2, <1>3 DEF BaseInv

\* A step that leaves the stream as it is: the worker it moves goes on to g.
LEMMA BaseKeeps ==
  ASSUME BaseInv, UNCHANGED <<log, live, dead, cursor>>, TypeOK', worked \subseteq worked',
         NEW w \in Workers, NEW g \in Goroutine,
         worker' \in {worker, [worker EXCEPT ![w] = g]},
         \/ g.pc \in {"claim", "read", "gone"}
         \/ g.at \in 1 .. cursor /\ (g.pc = "complete" => log[g.at].job \in worked')
  PROVE  BaseInv'
<1>1. \A j : (Logged(j)' <=> Logged(j)) /\ (Queued(j)' <=> Queued(j)) /\ (Buried(j)' <=> Buried(j))
  BY DEF Logged, Queued, Buried
<1>2. \A v \in Workers : worker'[v] = worker[v] \/ worker'[v] = g
  BY DEF BaseInv, TypeOK
<1>3. cursor \in Nat
  BY DEF BaseInv, TypeOK
<1> HIDE DEF Logged, Queued, Buried
<1> QED
  BY <1>1, <1>2, <1>3, BaseParts DEF BaseInv

LEMMA BaseStep == BaseInv /\ [Next]_vars => BaseInv'
<1> SUFFICES ASSUME BaseInv, [Next]_vars PROVE BaseInv'
  OBVIOUS
<1>t. /\ TypeOK /\ log \in Seq(Entry) /\ Len(log) \in Nat /\ live \subseteq 1 .. Len(log)
      /\ cursor \in 0 .. Len(log) /\ fresh \subseteq live /\ \A i \in fresh : i <= cursor
      /\ dead \in Seq(Jobs) /\ worker \in [Workers -> Goroutine]
      /\ proc \in {"up", "stopping", "down"} /\ asked \subseteq Jobs /\ worked \subseteq Jobs
      /\ told \in [Jobs -> Seq({"completed", "dead"})]
      /\ faults \in 0 .. MaxFaults /\ stops \in 0 .. MaxStops
  BY DEF BaseInv, TypeOK, Pending
\* What the types of the next state need.
<1>y. ASSUME log' \in Seq(Entry), live' \subseteq 1 .. Len(log'), cursor' \in 0 .. Len(log'),
             fresh' \subseteq live', \A i \in fresh' : i <= cursor', dead' \in Seq(Jobs),
             worker' \in [Workers -> Goroutine], proc' \in {"up", "stopping", "down"},
             asked' \subseteq Jobs, worked' \subseteq Jobs,
             told' \in [Jobs -> Seq({"completed", "dead"})],
             faults' \in 0 .. MaxFaults, stops' \in 0 .. MaxStops
      PROVE  TypeOK'
  BY <1>y DEF TypeOK, Pending
<1>f. Answers \/ Breaks => faults' \in 0 .. MaxFaults
  BY <1>t, Constants DEF Answers, Breaks
<1>1. ASSUME NEW j \in Jobs, Submit(j) PROVE BaseInv'
  <2> DEFINE e == [job |-> j, retries |-> 0]
  <2>1. e \in Entry /\ e.job = j
    BY Constants DEF Entry
  <2>2. UNCHANGED <<cursor, fresh, dead, worker, proc, worked, told, stops>>
        /\ asked' = asked \cup {j} /\ faults' \in 0 .. MaxFaults
    BY <1>1, <1>f DEF Submit
  <2>3. (log' = log /\ live' = live) \/ Adds(e)
    <3>1. log' \in {log, Append(log, e)}
      BY <1>1 DEF Submit
    <3>2. CASE log' = log
      BY <1>1, <3>2 DEF Submit
    <3>3. CASE log' = Append(log, e)
      <4>1. Len(log') = Len(log) + 1 /\ log' # log
        BY <1>t, <2>1, <3>3, Longer
      <4> QED
        BY <1>1, <2>2, <3>3, <4>1 DEF Submit, Adds
    <3> QED
      BY <3>1, <3>2, <3>3
  <2> HIDE DEF e
  <2>4. CASE log' = log /\ live' = live
    <3>1. TypeOK'
      BY <1>t, <1>y, <2>2, <2>4
    <3>2. \A i : (Logged(i)' <=> Logged(i)) /\ (Queued(i)' <=> Queued(i)) /\ (Buried(i)' <=> Buried(i))
      BY <2>2, <2>4 DEF Logged, Queued, Buried
    <3> QED
      BY <1>t, <2>2, <2>4, <3>1, <3>2, BaseParts DEF BaseInv
  <2>5. CASE Adds(e)
    <3>1. /\ log' \in Seq(Entry) /\ Len(log') = Len(log) + 1
          /\ \A i \in 1 .. Len(log) : log'[i] = log[i]
          /\ live' = live \cup {Len(log) + 1}
      BY <1>t, <2>1, <2>5, Longer DEF Adds
    <3>2. TypeOK'
      <4>1. 1 .. Len(log') = 1 .. Len(log) \cup {Len(log) + 1} /\ 0 .. Len(log) \subseteq 0 .. Len(log')
        BY <1>t, <3>1
      <4>2. live' \subseteq 1 .. Len(log') /\ fresh' \subseteq live'
        BY <1>t, <2>2, <3>1, <4>1
      <4>3. cursor' \in 0 .. Len(log') /\ \A i \in fresh' : i <= cursor'
        BY <1>t, <2>2, <4>1
      <4> QED
        BY <1>t, <1>y, <2>2, <3>1, <4>2, <4>3
    <3>3. \A i \in Jobs : Logged(i)' => Queued(i)' \/ i \in worked' \/ Buried(i)'
      BY <1>t, <2>1, <2>2, <2>5, AddsEffect DEF BaseInv
    <3>4. \A i \in 1 .. Len(log') : i > cursor' => i \in live'
      BY <1>t, <2>2, <3>1 DEF BaseInv
    <3> QED
      BY <1>t, <2>2, <3>1, <3>2, <3>3, <3>4, BaseParts
  <2> QED
    BY <2>3, <2>4, <2>5
<1>2. ASSUME NEW w \in Workers, Claim(w) PROVE BaseInv'
  <2>1. /\ UNCHANGED <<log, live, cursor, dead, proc, asked, worked, told, stops>>
        /\ faults' \in 0 .. MaxFaults
    BY <1>2, <1>f DEF Claim
  <2>2. fresh' \subseteq live /\ \A i \in fresh' : i <= cursor
    <3>1. fresh' \subseteq fresh \cup FirstOf(Idle, ReclaimCount)
      BY <1>2 DEF Claim
    <3> QED
      BY <1>t, <3>1, FirstAreIdle
  <2>3. PICK g \in Goroutine : /\ worker' \in {worker, [worker EXCEPT ![w] = g]}
                               /\ g.pc = "read" \/ (g.pc = "work" /\ g.at \in 1 .. cursor)
    <3>1. CASE Goto(w, "read", 0)
      BY <3>1, GotoMoves DEF PCs
    <3>2. CASE \E i \in FirstOf(Idle, 1) : Goto(w, "work", i)
      <4>1. PICK i \in FirstOf(Idle, 1) : Goto(w, "work", i)
        BY <3>2
      <4>2. i \in live /\ i <= cursor
        BY FirstAreIdle
      <4>3. i \in Nat /\ i \in 1 .. cursor
        BY <1>t, <4>2
      <4> QED
        BY <4>1, <4>3, GotoMoves DEF PCs
    <3>3. CASE UNCHANGED worker
      <4>1. [pc |-> "read", at |-> 0] \in Goroutine
        BY DEF Goroutine, PCs
      <4> QED
        BY <3>3, <4>1
    <3>4. Goto(w, "read", 0) \/ (\E i \in FirstOf(Idle, 1) : Goto(w, "work", i)) \/ UNCHANGED worker
      BY <1>2 DEF Claim
    <3> QED
      BY <3>1, <3>2, <3>3, <3>4
  <2>4. TypeOK'
    BY <1>t, <1>y, <2>1, <2>2, <2>3
  <2> QED
    BY <2>1, <2>3, <2>4, BaseKeeps
<1>3. ASSUME NEW w \in Workers, Read(w) PROVE BaseInv'
  <2>1. /\ UNCHANGED <<log, live, dead, proc, asked, worked, told, stops>>
        /\ faults' \in 0 .. MaxFaults
    BY <1>3, <1>t, <1>f DEF Read
  <2>2. CASE UNCHANGED <<cursor, fresh>> /\ Loop(w)
    <3>1. worker' = [worker EXCEPT ![w] = Looping]
      BY <2>2 DEF Loop
    <3>2. TypeOK'
      BY <1>t, <1>y, <2>1, <2>2, <3>1, Standing
    <3> QED
      BY <2>1, <2>2, <3>1, <3>2, BaseKeeps, Standing
  <2>3. CASE /\ cursor < Len(log) /\ cursor' = cursor + 1 /\ fresh' = fresh \cup {cursor + 1}
             /\ Goto(w, "work", cursor + 1) \/ Loop(w)
    <3>1. cursor + 1 \in live /\ cursor + 1 \in 1 .. Len(log)
      BY <1>t, <2>3 DEF BaseInv
    <3>2. PICK g \in Goroutine : /\ worker' = [worker EXCEPT ![w] = g]
                                 /\ g.pc = "claim" \/ (g.pc = "work" /\ g.at = cursor + 1)
      BY <2>3, <3>1, GotoMoves, LoopMoves DEF PCs
    <3>3. TypeOK'
      BY <1>t, <1>y, <2>1, <2>3, <3>1, <3>2
    <3>4. \A j : (Logged(j)' <=> Logged(j)) /\ (Queued(j)' <=> Queued(j)) /\ (Buried(j)' <=> Buried(j))
      BY <2>1 DEF Logged, Queued, Buried
    <3>5. \A v \in Workers : worker'[v] = worker[v] \/ worker'[v] = g
      BY <1>t, <3>2
    <3>6. \A i \in 1 .. Len(log') : i > cursor' => i \in live'
      BY <1>t, <2>1, <2>3 DEF BaseInv
    <3>7. cursor + 1 \in 1 .. cursor' /\ cursor <= cursor'
      BY <1>t, <2>3
    <3> QED
      BY <2>1, <3>2, <3>3, <3>4, <3>5, <3>6, <3>7, BaseParts DEF BaseInv
  <2> QED
    BY <1>3, <2>2, <2>3 DEF Read
<1>4. ASSUME NEW w \in Workers, Handle(w) PROVE BaseInv'
  <2>1. /\ UNCHANGED <<log, live, dead, cursor, fresh, proc, asked, told, faults, stops>>
        /\ worked' \in {worked, worked \cup {Job(w)}}
        /\ worker[w].pc = "work" /\ worker[w].at \in 1 .. cursor
    BY <1>4 DEF Handle, redis, bounds, BaseInv, Busy
  <2>j. worker[w].at \in 1 .. Len(log) /\ Job(w) \in Jobs /\ worker[w].at \in Nat
    <3>1. worker[w].at \in 1 .. Len(log)
      BY <1>t, <2>1
    <3> QED
      BY <1>t, <3>1, Entries DEF Job
  <2>2. PICK g \in Goroutine :
          /\ worker' = [worker EXCEPT ![w] = g] /\ g.at = worker[w].at
          /\ g.pc = "fail" \/ (g.pc = "complete" /\ Job(w) \in worked')
    <3>1. CASE Goto(w, "fail", worker[w].at)
      BY <2>j, <3>1, GotoMoves DEF PCs
    <3>2. CASE Job(w) \in worked' /\ Goto(w, "complete", worker[w].at)
      BY <2>j, <3>2, GotoMoves DEF PCs
    <3> QED
      BY <1>4, <3>1, <3>2 DEF Handle
  <2>3. TypeOK'
    BY <1>t, <1>y, <2>1, <2>j, <2>2
  <2> QED
    BY <2>1, <2>2, <2>3, BaseKeeps DEF Job
<1>5. ASSUME NEW w \in Workers, Complete(w) PROVE BaseInv'
  <2> DEFINE i == worker[w].at
  <2>1. /\ UNCHANGED <<log, cursor, dead, proc, asked, worked, told, stops>>
        /\ faults' \in 0 .. MaxFaults /\ worker[w].pc = "complete"
        /\ i \in 1 .. cursor /\ log[i].job \in worked
    BY <1>5, <1>f DEF Complete, BaseInv, Busy, Job
  <2>2. i \in 1 .. Len(log) /\ i \in Nat
    BY <1>t, <2>1
  <2>3. \/ Delete(i) /\ Goto(w, "completed", i)
        \/ (Delete(i) \/ UNCHANGED <<live, fresh>>) /\ Loop(w)
    BY <1>5 DEF Complete
  <2> HIDE DEF i
  <2>4. PICK g \in Goroutine :
          /\ worker' = [worker EXCEPT ![w] = g]
          /\ g.pc = "claim" \/ (g.pc = "completed" /\ g.at = i)
    BY <2>2, <2>3, GotoMoves, LoopMoves DEF PCs
  <2>5. CASE UNCHANGED <<live, fresh>>
    <3>1. TypeOK'
      BY <1>t, <1>y, <2>1, <2>4, <2>5
    <3> QED
      BY <2>1, <2>4, <2>5, <3>1, BaseKeeps
  <2>6. CASE Delete(i)
    <3>1. TypeOK'
      BY <1>t, <1>y, <2>1, <2>4, <2>6 DEF Delete
    <3>2. Drops(i)
      BY <2>1, <2>6 DEF Delete, Drops
    <3>3. \A j \in Jobs : Logged(j)' => Queued(j)' \/ j \in worked' \/ Buried(j)'
      BY <2>1, <2>2, <3>2, DropsEffect DEF BaseInv
    <3>4. \A k \in 1 .. Len(log') : k > cursor' => k \in live'
      BY <1>t, <2>1, <2>6 DEF Delete, BaseInv
    <3>5. \A v \in Workers : worker'[v] = worker[v] \/ worker'[v] = g
      BY <1>t, <2>4
    <3> QED
      BY <1>t, <2>1, <2>4, <3>1, <3>3, <3>4, <3>5, BaseParts
  <2> QED
    BY <2>3, <2>5, <2>6
<1>6. ASSUME NEW w \in Workers, Fail(w) PROVE BaseInv'
  <2> DEFINE i == worker[w].at
  <2>1. /\ UNCHANGED <<cursor, proc, asked, worked, told, stops>>
        /\ faults' \in 0 .. MaxFaults /\ worker[w].pc = "fail"
        /\ i \in 1 .. cursor
    BY <1>6, <1>f DEF Fail, BaseInv, Busy
  <2>2. i \in 1 .. Len(log) /\ i \in Nat
    BY <1>t, <2>1
  <2>3. /\ RetryOrBury(i) \/ UNCHANGED <<log, live, fresh, dead>>
        /\ Goto(w, "dead", i) \/ Loop(w)
    BY <1>6 DEF Fail
  <2> HIDE DEF i
  <2>4. PICK g \in Goroutine :
          /\ worker' = [worker EXCEPT ![w] = g]
          /\ g.pc = "claim" \/ (g.pc = "dead" /\ g.at = i)
    BY <2>2, <2>3, GotoMoves, LoopMoves DEF PCs
  <2>v. \A v \in Workers : worker'[v] = worker[v] \/ worker'[v] = g
    BY <1>t, <2>4
  <2>w. worker' \in [Workers -> Goroutine]
    BY <1>t, <2>4
  <2>5. CASE UNCHANGED <<log, live, fresh, dead>>
    <3>1. TypeOK'
      BY <1>t, <1>y, <2>1, <2>w, <2>5
    <3> QED
      BY <2>1, <2>4, <2>5, <3>1, BaseKeeps
  <2>6. CASE Retries(i) /\ fresh' = fresh \ {i}
    <3>1. /\ log[i] \in Entry /\ Again(log[i]) \in Entry
      BY <1>t, <2>2, <2>6, Entries, AgainType DEF Retries
    <3>2. /\ log' \in Seq(Entry) /\ Len(log') = Len(log) + 1
          /\ \A k \in 1 .. Len(log) : log'[k] = log[k]
          /\ 1 .. Len(log') = 1 .. Len(log) \cup {Len(log) + 1}
      BY <1>t, <2>6, <3>1, Longer DEF Retries
    <3>3. live' = (live \ {i}) \cup {Len(log) + 1} /\ dead' = dead
      BY <2>6 DEF Retries
    <3>4. cursor' \in 0 .. Len(log') /\ \A k \in fresh' : k <= cursor'
      BY <1>t, <2>1, <2>6, <3>2
    <3>5. TypeOK'
      BY <1>t, <1>y, <2>1, <2>w, <2>6, <3>2, <3>3, <3>4
    <3>6. \A j \in Jobs : Logged(j)' => Queued(j)' \/ j \in worked' \/ Buried(j)'
      BY <1>t, <2>1, <2>2, <2>6, RetriesEffect DEF BaseInv
    <3>7. \A k \in 1 .. Len(log') : k > cursor' => k \in live'
      BY <1>t, <2>1, <3>2, <3>3, SMTT(30) DEF BaseInv
    <3>8. \A k \in 1 .. cursor : log'[k] = log[k]
      BY <1>t, <3>2
    <3> QED
      BY <1>t, <2>1, <2>4, <2>v, <3>5, <3>6, <3>7, <3>8, BaseParts
  <2>7. CASE Buries(i) /\ fresh' = fresh \ {i}
    <3>1. log' = log /\ live' = live \ {i} /\ dead' \in Seq(Jobs)
      BY <1>t, <2>2, <2>7, BuriesEffect DEF Buries
    <3>2. TypeOK'
      BY <1>t, <1>y, <2>1, <2>w, <2>7, <3>1
    <3>3. \A j \in Jobs : Logged(j)' => Queued(j)' \/ j \in worked' \/ Buried(j)'
      BY <1>t, <2>1, <2>2, <2>7, BuriesEffect DEF BaseInv
    <3>4. \A k \in 1 .. Len(log') : k > cursor' => k \in live'
      BY <1>t, <2>1, <3>1 DEF BaseInv
    <3> QED
      BY <1>t, <2>1, <2>4, <2>v, <3>1, <3>2, <3>3, <3>4, BaseParts
  <2>8. RetryOrBury(i) => /\ fresh' = fresh \ {i}
                          /\ Retries(i) \/ Buries(i)
    BY DEF RetryOrBury, Retries, Buries, Again
  <2> QED
    BY <2>3, <2>5, <2>6, <2>7, <2>8
<1>7. ASSUME NEW w \in Workers, Notify(w) PROVE BaseInv'
  <2>1. /\ UNCHANGED <<log, live, cursor, fresh, dead, proc, asked, worked, faults, stops>>
        /\ worker[w].pc \in {"completed", "dead"} /\ worker[w].at \in 1 .. cursor
        /\ told' = [told EXCEPT ![Job(w)] = Append(@, worker[w].pc)] /\ Loop(w)
    BY <1>7 DEF Notify, redis, bounds, BaseInv, Busy
  <2>2. PICK g \in Goroutine : worker' = [worker EXCEPT ![w] = g] /\ g.pc = "claim"
    BY <2>1, LoopMoves
  <2>3. Job(w) \in Jobs
    <3>1. worker[w].at \in 1 .. Len(log)
      BY <1>t, <2>1
    <3> QED
      BY <1>t, <3>1, Entries DEF Job
  <2>4. told' \in [Jobs -> Seq({"completed", "dead"})]
    <3>1. Append(told[Job(w)], worker[w].pc) \in Seq({"completed", "dead"})
      BY <1>t, <2>1, <2>3
    <3> QED
      BY <1>t, <2>1, <2>3, <3>1
  <2>5. TypeOK'
    BY <1>t, <1>y, <2>1, <2>2, <2>4
  <2> QED
    BY <2>1, <2>2, <2>5, BaseKeeps
\* The remaining steps move no worker to an entry.
<1>8. ASSUME UNCHANGED <<log, live, cursor, dead, asked, worked, told>>, fresh' \subseteq fresh,
             proc' \in {"up", "stopping", "down"}, faults' \in 0 .. MaxFaults, stops' \in 0 .. MaxStops,
             worker' \in [Workers -> Goroutine],
             \A v \in Workers : worker'[v] = worker[v] \/ worker'[v].pc \in {"claim", "gone"}
      PROVE  BaseInv'
  <2>1. TypeOK'
    BY <1>t, <1>y, <1>8
  <2>2. \A j : (Logged(j)' <=> Logged(j)) /\ (Queued(j)' <=> Queued(j)) /\ (Buried(j)' <=> Buried(j))
    BY <1>8 DEF Logged, Queued, Buried
  <2> QED
    BY <1>t, <1>8, <2>1, <2>2, BaseParts DEF BaseInv
<1>9. ASSUME NEW w \in Workers, Leave(w) PROVE BaseInv'
  BY <1>t, <1>8, <1>9, Standing DEF Leave, redis, bounds
<1>10. ASSUME NEW i \in fresh, Age(i) PROVE BaseInv'
  BY <1>t, <1>8, <1>10 DEF Age, bounds
<1>11. CASE Stop
  <2>1. stops' \in 0 .. MaxStops
    BY <1>t, <1>11, Constants DEF Stop
  <2> QED
    BY <1>t, <1>8, <1>11, <2>1 DEF Stop, redis
<1>12. CASE Exit \/ Crash
  <2>1. stops' \in 0 .. MaxStops /\ Halt
    BY <1>t, <1>12, Constants DEF Exit, Crash
  <2> QED
    BY <1>t, <1>8, <2>1, Standing DEF Halt, redis
<1>13. CASE Start
  BY <1>t, <1>8, <1>13, Standing DEF Start, redis, bounds
<1>14. CASE UNCHANGED vars
  BY <1>t, <1>8, <1>14 DEF vars
<1> QED
  BY <1>1, <1>2, <1>3, <1>4, <1>5, <1>6, <1>7, <1>9, <1>10, <1>11, <1>12, <1>13, <1>14 DEF Next, Step

LEMMA BaseInit == Init => BaseInv
<1> SUFFICES ASSUME Init PROVE BaseInv
  OBVIOUS
<1>1. log = <<>> /\ dead = <<>> /\ live = {} /\ Len(log) = 0 /\ \A w \in Workers : worker[w] = Looping
  BY DEF Init
<1>2. TypeOK
  BY Constants, Standing DEF Init, TypeOK
<1>3. \A j : ~Logged(j)
  BY <1>1 DEF Logged
<1> QED
  BY <1>1, <1>2, <1>3, Standing DEF BaseInv, Busy

\* The stream, its group and the workers stay well typed, for any jobs, workers,
\* limits and bounds.
THEOREM TypeTheorem == Spec => []TypeOK
<1>1. BaseInv => TypeOK
  BY DEF BaseInv
<1> QED
  BY <1>1, BaseInit, BaseStep, PTL DEF Spec

\* No job leaves the stream without its work or a dead letter, whether or not
\* jobs overrun their claim time.
THEOREM LostTheorem == Spec => []NoJobIsLost
<1>1. BaseInv => NoJobIsLost
  BY LostIsNot DEF BaseInv
<1> QED
  BY <1>1, BaseInit, BaseStep, PTL DEF Spec

-------------------------------------------------------------------------------
(* What holds when no job overruns its claim time *)

\* Of the entries of a job the last one may be live, and none when the job is
\* buried; a job is added once by Submit and then once for each retry.
StreamInv ==
  /\ \A i \in live, k \in 1 .. Len(log) :
       log[k].job = log[i].job /\ k # i => log[k].retries < log[i].retries
  /\ \A i, k \in 1 .. Len(log) :
       log[k].job = log[i].job /\ log[k].retries = log[i].retries => i = k
  /\ \A j \in Jobs : Queued(j) => ~Buried(j)
  /\ \A k, l \in 1 .. Len(dead) : dead[k] = dead[l] => k = l
  /\ \A j \in Jobs : Logged(j) => j \in asked
  /\ \A j \in Jobs : Buried(j) => Logged(j)

\* An entry that is held is fresh, and one worker holds it.
HoldInv ==
  /\ \A w \in Workers : Holds(w) => worker[w].at \in fresh
  /\ \A v, w \in Workers : Holds(v) /\ Holds(w) /\ worker[v].at = worker[w].at => v = w

\* A worker about to report is the only one to do so and reports what happened;
\* what was reported is over.
Reporting(w) == worker[w].pc \in {"completed", "dead"}
PromiseInv ==
  /\ \A w \in Workers : Reporting(w) =>
       /\ ~Queued(Job(w)) /\ told[Job(w)] = <<>>
       /\ worker[w].pc = "dead" <=> Buried(Job(w))
  /\ \A v, w \in Workers : Reporting(v) /\ Reporting(w) /\ Job(v) = Job(w) => v = w
  /\ \A j \in Jobs : told[j] # <<>> => Logged(j) /\ ~Queued(j)

SoleInv == BaseInv /\ StreamInv /\ HoldInv /\ PromiseInv

LEMMA StreamAdds ==
  ASSUME TypeOK, StreamInv, NEW e \in Entry, e.job \notin asked, asked' = asked \cup {e.job}, Adds(e)
  PROVE  StreamInv'
<1>t. live \subseteq 1 .. Len(log) /\ \A i \in 1 .. Len(log) : log[i].job \in Jobs
  BY Entries DEF TypeOK
<1>1. /\ 1 .. Len(log') = 1 .. Len(log) \cup {Len(log) + 1}
      /\ Len(log) + 1 \notin 1 .. Len(log)
      /\ \A i \in 1 .. Len(log) : log'[i] = log[i] /\ log[i].job # e.job
      /\ log'[Len(log) + 1] = e /\ live' = live \cup {Len(log) + 1} /\ dead' = dead
  BY <1>t, Longer DEF Adds, StreamInv, Logged
<1>2. \A j \in Jobs : /\ Logged(j)' <=> Logged(j) \/ j = e.job
                      /\ Queued(j)' <=> Queued(j) \/ j = e.job
                      /\ Buried(j)' <=> Buried(j)
  BY AddsEffect
<1>3. \A i \in live', k \in 1 .. Len(log') :
        log'[k].job = log'[i].job /\ k # i => log'[k].retries < log'[i].retries
  BY <1>t, <1>1 DEF StreamInv
<1>4. \A i, k \in 1 .. Len(log') :
        log'[k].job = log'[i].job /\ log'[k].retries = log'[i].retries => i = k
  BY <1>t, <1>1 DEF StreamInv
<1>5. \A k, l \in 1 .. Len(dead') : dead'[k] = dead'[l] => k = l
  BY <1>1 DEF StreamInv
<1>6. \A j \in Jobs : /\ Queued(j)' => ~Buried(j)'
                      /\ Logged(j)' => j \in asked'
                      /\ Buried(j)' => Logged(j)'
  BY <1>2 DEF StreamInv
<1> QED
  BY <1>3, <1>4, <1>5, <1>6 DEF StreamInv

LEMMA StreamRetries ==
  ASSUME TypeOK, StreamInv, NEW i \in live, Retries(i), asked' = asked
  PROVE  StreamInv'
<1>t. /\ live \subseteq 1 .. Len(log) /\ i \in 1 .. Len(log)
      /\ \A k \in 1 .. Len(log) : log[k].job \in Jobs /\ log[k].retries \in Int
  BY Entries DEF TypeOK
<1> DEFINE e == Again(log[i])
<1>e. e \in Entry /\ e.job = log[i].job /\ e.retries = log[i].retries + 1 /\ log' = Append(log, e)
  BY <1>t, Entries, AgainType DEF Retries
<1> HIDE DEF e
<1>1. /\ 1 .. Len(log') = 1 .. Len(log) \cup {Len(log) + 1}
      /\ Len(log) + 1 \notin 1 .. Len(log)
      /\ \A k \in 1 .. Len(log) : log'[k] = log[k]
      /\ log'[Len(log) + 1] = e /\ live' = (live \ {i}) \cup {Len(log) + 1} /\ dead' = dead
  BY <1>e, Longer DEF Retries
<1>2. \A k \in 1 .. Len(log) : log[k].job = e.job => log[k].retries < e.retries
  BY <1>t, <1>e DEF StreamInv
<1>3. ASSUME NEW m \in live', NEW k \in 1 .. Len(log'), log'[k].job = log'[m].job, k # m
      PROVE  log'[k].retries < log'[m].retries
  <2>1. CASE m = Len(log) + 1
    BY <1>1, <1>2, <1>3, <2>1
  <2>2. CASE m \in live \ {i} /\ k \in 1 .. Len(log)
    BY <1>t, <1>1, <1>3, <2>2 DEF StreamInv
  \* The other entry of a job that is live is the one retried.
  <2>3. CASE m \in live \ {i} /\ k = Len(log) + 1
    <3>1. log[m].job = log[i].job
      BY <1>t, <1>e, <1>1, <1>3, <2>3
    <3>2. log[i].retries < log[m].retries /\ log[m].retries < log[i].retries
      BY <1>t, <2>3, <3>1 DEF StreamInv
    <3> QED
      BY <1>t, <2>3, <3>2
  <2> QED
    BY <1>1, <1>3, <2>1, <2>2, <2>3
<1>4. ASSUME NEW m \in 1 .. Len(log'), NEW k \in 1 .. Len(log'), log'[k].job = log'[m].job,
             log'[k].retries = log'[m].retries
      PROVE  m = k
  <2>1. CASE m \in 1 .. Len(log) /\ k \in 1 .. Len(log)
    BY <1>1, <1>4, <2>1 DEF StreamInv
  <2>2. CASE m = Len(log) + 1 /\ k \in 1 .. Len(log)
    BY <1>t, <1>e, <1>1, <1>2, <1>4, <2>2
  <2>3. CASE k = Len(log) + 1 /\ m \in 1 .. Len(log)
    BY <1>t, <1>e, <1>1, <1>2, <1>4, <2>3
  <2> QED
    BY <1>1, <2>1, <2>2, <2>3
<1>5. \A k, l \in 1 .. Len(dead') : dead'[k] = dead'[l] => k = l
  BY <1>1 DEF StreamInv
<1>6. \A j \in Jobs : /\ Queued(j)' => ~Buried(j)'
                      /\ Logged(j)' => j \in asked'
                      /\ Buried(j)' => Logged(j)'
  <2>1. Queued(log[i].job)
    BY DEF Queued
  <2> QED
    BY <1>t, <2>1, RetriesEffect DEF StreamInv
<1> QED
  BY <1>3, <1>4, <1>5, <1>6 DEF StreamInv

LEMMA StreamBuries ==
  ASSUME TypeOK, StreamInv, NEW i \in live, Buries(i), asked' = asked
  PROVE  StreamInv' /\ ~Queued(log[i].job)'
<1>t. /\ live \subseteq 1 .. Len(log) /\ i \in 1 .. Len(log) /\ log[i].job \in Jobs
      /\ \A k \in 1 .. Len(log) : log[k].retries \in Int
      /\ dead \in Seq(Jobs) /\ log' = log /\ live' = live \ {i}
  <2>1. \A k \in 1 .. Len(log) : log[k].job \in Jobs /\ log[k].retries \in Int
    BY Entries
  <2>2. live \subseteq 1 .. Len(log) /\ dead \in Seq(Jobs)
    BY DEF TypeOK
  <2>3. log' = log /\ live' = live \ {i}
    BY DEF Buries
  <2> QED
    BY <2>1, <2>2, <2>3
<1>1. /\ Len(dead') = Len(dead) + 1 /\ Len(dead) \in Nat
      /\ \A k \in 1 .. Len(dead) : dead'[k] = dead[k]
      /\ dead'[Len(dead) + 1] = log[i].job
  BY <1>t, Appending DEF Buries
<1>2. ~Queued(log[i].job)'
  <2>1. ASSUME NEW m \in live', log'[m].job = log[i].job PROVE FALSE
    <3>1. m \in live /\ m # i /\ m \in 1 .. Len(log) /\ log[m].job = log[i].job
      BY <1>t, <2>1
    <3>2. log[i].retries < log[m].retries /\ log[m].retries < log[i].retries
      BY <1>t, <3>1 DEF StreamInv
    <3> QED
      BY <1>t, <3>1, <3>2
  <2> QED
    BY <1>t, <2>1 DEF Queued
<1>3. Queued(log[i].job) /\ ~Buried(log[i].job)
  BY <1>t DEF Queued, StreamInv
<1>4. \A k, l \in 1 .. Len(dead') : dead'[k] = dead'[l] => k = l
  BY <1>1, <1>3 DEF StreamInv, Buried
<1>5. \A j \in Jobs : /\ Queued(j)' => ~Buried(j)'
                      /\ Logged(j)' => j \in asked'
                      /\ Buried(j)' => Logged(j)'
  <2>1. Logged(log[i].job)
    BY <1>t DEF Logged
  <2> QED
    BY <1>t, <1>2, <2>1, BuriesEffect DEF StreamInv
<1> QED
  BY <1>t, <1>2, <1>4, <1>5 DEF StreamInv

LEMMA StreamDrops ==
  ASSUME TypeOK, StreamInv, NEW i \in live, Drops(i), asked' = asked
  PROVE  StreamInv' /\ ~Queued(log[i].job)'
<1>t. /\ live \subseteq 1 .. Len(log) /\ i \in 1 .. Len(log)
      /\ \A k \in 1 .. Len(log) : log[k].retries \in Int
      /\ log' = log /\ live' = live \ {i} /\ dead' = dead
  BY Entries DEF TypeOK, Drops
<1>1. ~Queued(log[i].job)'
  <2>1. ASSUME NEW m \in live', log'[m].job = log[i].job PROVE FALSE
    <3>1. m \in live /\ m # i /\ m \in 1 .. Len(log) /\ log[m].job = log[i].job
      BY <1>t, <2>1
    <3>2. log[i].retries < log[m].retries /\ log[m].retries < log[i].retries
      BY <1>t, <3>1 DEF StreamInv
    <3> QED
      BY <1>t, <3>1, <3>2
  <2> QED
    BY <1>t, <2>1 DEF Queued
<1>2. \A j \in Jobs : /\ Queued(j)' => ~Buried(j)'
                      /\ Logged(j)' => j \in asked'
                      /\ Buried(j)' => Logged(j)'
  BY <1>t, DropsEffect DEF StreamInv
<1> QED
  BY <1>t, <1>1, <1>2 DEF StreamInv

LEMMA StreamKeeps ==
  ASSUME StreamInv, UNCHANGED <<log, live, dead, asked>>
  PROVE  StreamInv'
  BY DEF StreamInv, Logged, Queued, Buried

LEMMA HoldMoves ==
  ASSUME HoldInv, NEW w \in Workers,
         \A v \in Workers : Holds(v)' => worker'[v].at \in fresh',
         \A v \in Workers \ {w} :
           Holds(v)' => /\ Holds(v) /\ worker'[v].at = worker[v].at
                        /\ Holds(w)' => worker'[w].at # worker[v].at
  PROVE  HoldInv'
  BY DEF HoldInv

\* A job whose entry is gone stays as it is.
EndedStay ==
  \A j \in Jobs : Logged(j) /\ ~Queued(j) =>
    Logged(j)' /\ ~Queued(j)' /\ (Buried(j)' <=> Buried(j))
\* Entries do not change.
EntriesStay == \A i \in 1 .. Len(log) : log'[i] = log[i]

\* The job of a worker that is busy.
LEMMA JobOf ==
  ASSUME BaseInv, NEW v \in Workers, Busy(v)
  PROVE  /\ worker[v].at \in 1 .. Len(log) /\ worker[v].at \in Nat /\ Job(v) \in Jobs /\ Logged(Job(v))
         /\ EntriesStay /\ worker'[v].at = worker[v].at => Job(v)' = Job(v)
<1>1. worker[v].at \in 1 .. Len(log) /\ worker[v].at \in Nat /\ TypeOK
  BY DEF BaseInv, TypeOK
<1> QED
  BY <1>1, Entries DEF Job, Logged, EntriesStay

LEMMA PromiseStays ==
  ASSUME BaseInv, PromiseInv, EndedStay, EntriesStay, told' = told,
         \A v \in Workers : Reporting(v)' => worker'[v] = worker[v]
  PROVE  PromiseInv'
<1>1. \A v \in Workers : Reporting(v)' => /\ Reporting(v) /\ worker'[v] = worker[v]
                                          /\ Job(v)' = Job(v) /\ Job(v) \in Jobs /\ Logged(Job(v))
  BY JobOf DEF Reporting, Busy
<1>2. ASSUME NEW v \in Workers, Reporting(v)'
      PROVE  /\ ~Queued(Job(v))' /\ told'[Job(v)'] = <<>>
             /\ worker'[v].pc = "dead" <=> Buried(Job(v))'
  <2>1. PICK j \in Jobs : j = Job(v)
    BY <1>1, <1>2
  <2>2. Job(v)' = j
    BY <1>1, <1>2, <2>1
  <2>3. Logged(j) /\ ~Queued(j) /\ told[j] = <<>> /\ (worker[v].pc = "dead" <=> Buried(j))
    BY <1>1, <1>2, <2>1 DEF PromiseInv
  <2>4. ~Queued(j)' /\ (Buried(j)' <=> Buried(j))
    BY <2>3 DEF EndedStay
  <2> QED
    BY <1>1, <1>2, <2>2, <2>3, <2>4 DEF Queued, Buried
<1>3. \A v, w \in Workers : Reporting(v)' /\ Reporting(w)' /\ Job(v)' = Job(w)' => v = w
  BY <1>1 DEF PromiseInv
<1>4. \A j \in Jobs : told'[j] # <<>> => Logged(j)' /\ ~Queued(j)'
  BY DEF PromiseInv, EndedStay
<1> QED
  BY <1>2, <1>3, <1>4 DEF PromiseInv

\* Worker w, which held the entry of job j, is about to report its end.
LEMMA PromiseBegins ==
  ASSUME BaseInv, PromiseInv, EndedStay, EntriesStay, told' = told,
         NEW w \in Workers, NEW j \in Jobs, Busy(w), j = Job(w),
         worker'[w].at = worker[w].at, \A v \in Workers \ {w} : worker'[v] = worker[v],
         Queued(j), Logged(j)', ~Queued(j)', worker'[w].pc = "dead" <=> Buried(j)'
  PROVE  PromiseInv'
<1>0. Job(w)' = j
  BY JobOf
<1>1. \A v \in Workers \ {w} : Reporting(v)' =>
        /\ Reporting(v) /\ worker'[v] = worker[v]
        /\ Job(v)' = Job(v) /\ Job(v) \in Jobs /\ Logged(Job(v)) /\ ~Queued(Job(v))
  BY JobOf DEF Reporting, Busy, PromiseInv
<1>2. ASSUME NEW v \in Workers \ {w}, Reporting(v)'
      PROVE  /\ ~Queued(Job(v))' /\ told'[Job(v)'] = <<>>
             /\ worker'[v].pc = "dead" <=> Buried(Job(v))'
  <2>1. PICK i \in Jobs : i = Job(v)
    BY <1>1, <1>2
  <2>2. Job(v)' = i
    BY <1>1, <1>2, <2>1
  <2>3. Logged(i) /\ ~Queued(i) /\ told[i] = <<>> /\ (worker[v].pc = "dead" <=> Buried(i))
    BY <1>1, <1>2, <2>1 DEF PromiseInv
  <2>4. ~Queued(i)' /\ (Buried(i)' <=> Buried(i))
    BY <2>3 DEF EndedStay
  <2> QED
    BY <1>1, <1>2, <2>2, <2>3, <2>4 DEF Queued, Buried
<1>3. /\ ~Queued(Job(w))' /\ told'[Job(w)'] = <<>>
      /\ worker'[w].pc = "dead" <=> Buried(Job(w))'
  <2>1. told[j] = <<>>
    BY DEF PromiseInv
  <2> QED
    BY <1>0, <2>1 DEF Queued, Buried
<1>4. \A v \in Workers \ {w} : Reporting(v)' => Job(v)' # j
  BY <1>1
<1>5. \A u, v \in Workers : Reporting(u)' /\ Reporting(v)' /\ Job(u)' = Job(v)' => u = v
  BY <1>0, <1>1, <1>4 DEF PromiseInv
<1>6. \A i \in Jobs : told'[i] # <<>> => Logged(i)' /\ ~Queued(i)'
  BY DEF PromiseInv, EndedStay
<1> QED
  BY <1>2, <1>3, <1>5, <1>6 DEF PromiseInv

-------------------------------------------------------------------------------
(* What became of each job, for JobDelivery *)

States == [j \in Jobs |-> StateOf(j)]

StateFrom(queued, logged, buried) ==
  IF queued THEN "queued" ELSE IF ~logged THEN "new" ELSE IF buried THEN "dead" ELSE "completed"

LEMMA StateIs ==
  \A j : /\ StateOf(j) = StateFrom(Queued(j), Logged(j), Buried(j))
         /\ StateOf(j)' = StateFrom(Queued(j)', Logged(j)', Buried(j)')
<1>1. \A j : StateOf(j) = StateFrom(Queued(j), Logged(j), Buried(j))
  BY DEF StateOf, StateFrom, LiveOf, Queued, Logged, Buried
<1>2. \A j : StateOf(j)' = StateFrom(Queued(j)', Logged(j)', Buried(j)')
  BY DEF StateOf, StateFrom, LiveOf, Queued, Logged, Buried
<1> QED
  BY <1>1, <1>2

LEMMA StatesMove ==
  ASSUME NEW j \in Jobs, NEW s, StateOf(j)' = s,
         \A i \in Jobs \ {j} : StateOf(i)' = StateOf(i)
  PROVE  States' = [States EXCEPT ![j] = s]
  BY DEF States

LEMMA StatesKeep ==
  ASSUME \A i \in Jobs : /\ Logged(i)' <=> Logged(i)
                         /\ Queued(i)' <=> Queued(i)
                         /\ Buried(i)' <=> Buried(i)
  PROVE  States' = States /\ EndedStay
<1>1. \A i \in Jobs : StateOf(i)' = StateOf(i)
  BY StateIs DEF StateFrom
<1> QED
  BY <1>1 DEF States, EndedStay

-------------------------------------------------------------------------------
(* One step of the queue *)

Outcome == StreamInv' /\ HoldInv' /\ PromiseInv' /\ [Delivery!Next]_(Delivery!vars)

LEMMA FirstIsClaimed ==
  ASSUME TypeOK PROVE FirstOf(Idle, 1) \subseteq FirstOf(Idle, ReclaimCount)
<1>1. \A i \in Idle : Cardinality({k \in Idle : k < i}) \in Nat
  <2> SUFFICES ASSUME NEW i \in Idle PROVE Cardinality({k \in Idle : k < i}) \in Nat
    OBVIOUS
  <2>1. IsFiniteSet(1 .. Len(log))
    <3>1. Len(log) \in Nat
      BY DEF TypeOK
    <3> QED
      BY <3>1, FS_Interval
  <2>2. {k \in Idle : k < i} \subseteq 1 .. Len(log)
    BY DEF TypeOK, Idle, Pending
  <2>3. IsFiniteSet({k \in Idle : k < i})
    BY <2>1, <2>2, FS_Subset
  <2> QED
    BY <2>3, FS_CardinalityType
<1> HIDE DEF Idle
<1> QED
  BY <1>1, Constants DEF FirstOf

LEMMA QuietOutcome ==
  ASSUME SoleInv, UNCHANGED <<log, live, dead, worked, told>>, asked \subseteq asked', HoldInv',
         \A v \in Workers : Reporting(v)' => worker'[v] = worker[v]
  PROVE  Outcome
<1>1. \A i \in Jobs : /\ Logged(i)' <=> Logged(i)
                      /\ Queued(i)' <=> Queued(i)
                      /\ Buried(i)' <=> Buried(i)
  BY DEF Logged, Queued, Buried
<1>2. StreamInv'
  BY <1>1 DEF SoleInv, StreamInv
<1>3. States' = States /\ EndedStay
  BY <1>1, StatesKeep
<1>4. EntriesStay
  BY DEF EntriesStay
<1>5. PromiseInv'
  BY <1>3, <1>4, PromiseStays DEF SoleInv
<1>6. UNCHANGED Delivery!vars
  BY <1>3 DEF Delivery!vars, States
<1> QED
  BY <1>2, <1>5, <1>6 DEF Outcome

LEMMA ClaimOutcome ==
  ASSUME SoleInv, NEW w \in Workers, Claim(w) PROVE Outcome
<1>t. TypeOK /\ worker \in [Workers -> Goroutine] /\ fresh \subseteq fresh'
  BY DEF SoleInv, BaseInv, TypeOK, Claim
<1>1. HoldInv'
  <2>1. CASE Goto(w, "read", 0)
    <3>1. \A v \in Workers : worker'[v].pc = IF v = w THEN "read" ELSE worker[v].pc
      BY <1>t, <2>1 DEF Goto
    <3>2. \A v \in Workers \ {w} : worker'[v] = worker[v]
      BY <1>t, <2>1 DEF Goto
    <3> QED
      BY <1>t, <3>1, <3>2, HoldMoves DEF SoleInv, HoldInv, Holds
  <2>2. ASSUME NEW i \in FirstOf(Idle, 1), Goto(w, "work", i),
               fresh' = fresh \cup FirstOf(Idle, ReclaimCount)
        PROVE  HoldInv'
    <3>1. i \in fresh' /\ i \notin fresh
      BY <1>t, <2>2, FirstIsClaimed, FirstAreIdle
    <3>2. /\ \A v \in Workers \ {w} : worker'[v] = worker[v]
          /\ worker'[w].at = i
      BY <1>t, <2>2 DEF Goto
    <3>3. \A v \in Workers : Holds(v) => worker[v].at \in fresh
      BY DEF SoleInv, HoldInv
    <3> QED
      BY <1>t, <3>1, <3>2, <3>3, HoldMoves DEF SoleInv, Holds
  <2>3. CASE UNCHANGED worker
    BY <1>t, <2>3, HoldMoves DEF SoleInv, HoldInv, Holds
  <2> QED
    BY <2>1, <2>2, <2>3 DEF Claim
<1>2. \A v \in Workers : Reporting(v)' => worker'[v] = worker[v]
  BY <1>t DEF Claim, Goto, Reporting
<1>3. UNCHANGED <<log, live, dead, worked, told>> /\ asked \subseteq asked'
  BY DEF Claim
<1> QED
  BY <1>1, <1>2, <1>3, QuietOutcome

LEMMA ReadOutcome ==
  ASSUME SoleInv, NEW w \in Workers, Read(w) PROVE Outcome
<1>t. /\ TypeOK /\ worker \in [Workers -> Goroutine] /\ cursor \in Nat
      /\ \A i \in fresh : i <= cursor /\ i \in Nat
  BY DEF SoleInv, BaseInv, TypeOK, Pending
<1>1. HoldInv'
  <2>1. CASE Loop(w) /\ fresh \subseteq fresh'
    <3>1. /\ \A v \in Workers \ {w} : worker'[v] = worker[v]
          /\ worker'[w].pc = "claim"
      BY <1>t, <2>1, Standing DEF Loop
    <3> QED
      BY <2>1, <3>1, HoldMoves DEF SoleInv, HoldInv, Holds
  <2>2. CASE Goto(w, "work", cursor + 1) /\ fresh' = fresh \cup {cursor + 1}
    <3>1. /\ \A v \in Workers \ {w} : worker'[v] = worker[v]
          /\ worker'[w].at = cursor + 1
      BY <1>t, <2>2 DEF Goto
    <3>2. cursor + 1 \notin fresh
      BY <1>t
    <3>3. \A v \in Workers : Holds(v) => worker[v].at \in fresh
      BY DEF SoleInv, HoldInv
    <3> QED
      BY <2>2, <3>1, <3>2, <3>3, HoldMoves DEF SoleInv, Holds
  <2> QED
    BY <2>1, <2>2 DEF Read
<1>2. \A v \in Workers : Reporting(v)' => worker'[v] = worker[v]
  BY <1>t, Standing DEF Read, Goto, Loop, Reporting
<1>3. UNCHANGED <<log, live, dead, worked, told>> /\ asked \subseteq asked'
  BY DEF Read
<1> QED
  BY <1>1, <1>2, <1>3, QuietOutcome

\* The steps after which nobody holds what was not held before.
LEMMA ProcessOutcome ==
  ASSUME ~Overrun, SoleInv, \/ \E w \in Workers : Leave(w)
                            \/ \E i \in fresh : Age(i)
                            \/ Stop \/ Exit \/ Crash \/ Start \/ UNCHANGED vars
  PROVE  Outcome
<1>t. worker \in [Workers -> Goroutine]
  BY DEF SoleInv, BaseInv, TypeOK
<1>1. UNCHANGED <<log, live, dead, worked, told>> /\ asked \subseteq asked'
  BY DEF Leave, Age, Stop, Exit, Crash, Halt, Start, vars, redis
<1>2. \A v \in Workers : worker'[v] = worker[v] \/ worker'[v].pc \in {"claim", "gone"}
  BY <1>t, Standing DEF Leave, Age, Stop, Exit, Crash, Halt, Start, vars
<1>3. HoldInv'
  <2>1. \A v \in Workers : Holds(v)' => Holds(v) /\ worker'[v] = worker[v]
    BY <1>2 DEF Holds
  <2>2. \A v \in Workers : Holds(v)' => worker'[v].at \in fresh'
    <3>1. CASE fresh' = fresh
      BY <2>1, <3>1 DEF SoleInv, HoldInv
    <3>2. ASSUME NEW i \in fresh, Age(i) PROVE \A v \in Workers : Holds(v)' => worker'[v].at \in fresh'
      BY <2>1, <3>2 DEF SoleInv, HoldInv, Age
    <3> QED
      BY <3>1, <3>2 DEF Leave, Stop, Exit, Crash, Halt, Start, vars, redis
  <2> QED
    BY <2>1, <2>2 DEF SoleInv, HoldInv
<1>4. \A v \in Workers : Reporting(v)' => worker'[v] = worker[v]
  BY <1>2 DEF Reporting
<1> QED
  BY <1>1, <1>3, <1>4, QuietOutcome

LEMMA SubmitOutcome ==
  ASSUME SoleInv, NEW j \in Jobs, Submit(j) PROVE Outcome
<1>t. TypeOK /\ j \notin asked /\ asked' = asked \cup {j}
      /\ UNCHANGED <<fresh, dead, worker, worked, told>>
  BY DEF SoleInv, BaseInv, Submit
<1>h. HoldInv'
  BY <1>t DEF SoleInv, HoldInv, Holds
<1> DEFINE e == [job |-> j, retries |-> 0]
<1>e. e \in Entry /\ e.job = j
  BY Constants DEF Entry
<1>1. log' = log \/ log' = Append(log, e)
  BY DEF Submit
<1> HIDE DEF e
<1>2. CASE log' = log
  <2>1. live' = live
    BY <1>2 DEF Submit
  <2> QED
    BY <1>2, <1>t, <1>h, <2>1, QuietOutcome
<1>3. CASE log' = Append(log, e)
  <2>1. Len(log') = Len(log) + 1 /\ Len(log) \in Nat /\ EntriesStay
    BY <1>t, <1>e, <1>3, Longer DEF EntriesStay
  <2>2. log' # log
    BY <2>1
  <2>3. Adds(e)
    BY <1>t, <1>3, <2>1, <2>2 DEF Adds, Submit
  <2>4. StreamInv'
    BY <1>t, <1>e, <2>3, StreamAdds DEF SoleInv
  <2>5. \A i : /\ Logged(i)' <=> Logged(i) \/ i = j
               /\ Queued(i)' <=> Queued(i) \/ i = j
               /\ Buried(i)' <=> Buried(i)
    BY <1>t, <1>e, <2>3, AddsEffect
  <2>6. ~Logged(j) /\ ~Queued(j)
    <3>1. ~Logged(j)
      BY <1>t DEF SoleInv, StreamInv
    <3>2. Queued(j) => Logged(j)
      BY <1>t DEF Queued, Logged, TypeOK
    <3> QED
      BY <3>1, <3>2
  <2>7. EndedStay
    BY <2>5, <2>6 DEF EndedStay
  <2>8. PromiseInv'
    BY <1>t, <2>1, <2>7, PromiseStays DEF SoleInv
  <2>9. States[j] = "new" /\ States' = [States EXCEPT ![j] = "queued"]
    BY <2>5, <2>6, StateIs, StatesMove DEF States, StateFrom
  <2>10. Delivery!Queue(j)
    BY <1>t, <2>9 DEF Delivery!Queue, States
  <2> QED
    BY <1>h, <2>4, <2>8, <2>10 DEF Outcome, Delivery!Next
<1> QED
  BY <1>1, <1>2, <1>3

\* A worker leaves an entry without the queue recording anything.
LEMMA LoopOutcome ==
  ASSUME SoleInv, NEW w \in Workers, Loop(w), UNCHANGED <<log, live, fresh, dead, asked, worked, told>>
  PROVE  Outcome
<1>t. worker \in [Workers -> Goroutine]
  BY DEF SoleInv, BaseInv, TypeOK
<1>1. \A v \in Workers : worker'[v] = IF v = w THEN Looping ELSE worker[v]
  BY <1>t DEF Loop
<1>2. HoldInv'
  BY <1>1, Standing, HoldMoves DEF SoleInv, HoldInv, Holds
<1>3. \A v \in Workers : Reporting(v)' => worker'[v] = worker[v]
  BY <1>1, Standing DEF Reporting
<1> QED
  BY <1>2, <1>3, QuietOutcome

LEMMA HandleOutcome ==
  ASSUME SoleInv, NEW w \in Workers, Handle(w) PROVE Outcome
<1>t. /\ worker \in [Workers -> Goroutine] /\ worker[w].pc = "work" /\ TypeOK
      /\ UNCHANGED <<log, live, fresh, dead, asked, told>> /\ worked' \in {worked, worked \cup {Job(w)}}
  BY DEF SoleInv, BaseInv, TypeOK, Handle, redis
<1>1. PICK pc \in {"fail", "complete"} : Goto(w, pc, worker[w].at)
  BY DEF Handle
<1>2. \A v \in Workers : worker'[v] = IF v = w THEN [pc |-> pc, at |-> worker[w].at] ELSE worker[v]
  BY <1>t, <1>1 DEF Goto
<1>3. /\ worker'[w].at = worker[w].at /\ worker'[w].pc = pc
      /\ \A v \in Workers : v # w => worker'[v] = worker[v]
  BY <1>2
<1>4. HoldInv'
  BY <1>t, <1>3, HoldMoves DEF SoleInv, HoldInv, Holds
<1>5. \A v \in Workers : Reporting(v)' => worker'[v] = worker[v]
  BY <1>1, <1>3 DEF Reporting
<1>6. PICK j \in Jobs : j = Job(w)
  BY <1>t, JobOf DEF SoleInv, Busy
<1>7. CASE worked' = worked
  BY <1>t, <1>4, <1>5, <1>7, QuietOutcome
<1>8. CASE worked' = worked \cup {Job(w)}
  <2>1. Queued(j)
    BY <1>t, <1>6 DEF SoleInv, HoldInv, Holds, Queued, Job, TypeOK, Pending
  <2>2. States[j] = "queued"
    BY <2>1, StateIs DEF States, StateFrom
  <2>3. \A i \in Jobs : /\ Logged(i)' <=> Logged(i)
                        /\ Queued(i)' <=> Queued(i)
                        /\ Buried(i)' <=> Buried(i)
    BY <1>t DEF Logged, Queued, Buried
  <2>4. States' = States /\ EndedStay
    BY <2>3, StatesKeep
  <2>5. Delivery!Work(j)
    BY <1>t, <1>6, <1>8, <2>2, <2>4 DEF Delivery!Work, States
  <2>6. StreamInv'
    BY <1>t, StreamKeeps DEF SoleInv
  <2>7. PromiseInv'
    <3>1. EntriesStay
      BY <1>t DEF EntriesStay
    <3> QED
      BY <1>t, <1>5, <2>4, <3>1, PromiseStays DEF SoleInv
  <2> QED
    BY <1>4, <2>5, <2>6, <2>7 DEF Outcome, Delivery!Next
<1> QED
  BY <1>t, <1>7, <1>8

\* Worker w lets go of entry i, which it held.
LEMMA ReleasedHold ==
  ASSUME SoleInv, NEW w \in Workers, Holds(w), NEW i, i = worker[w].at, fresh' = fresh \ {i},
         ~Holds(w)', \A v \in Workers \ {w} : worker'[v] = worker[v]
  PROVE  HoldInv'
<1>1. \A v \in Workers \ {w} : Holds(v)' => Holds(v) /\ worker'[v].at = worker[v].at
  BY DEF Holds
<1>2. \A v \in Workers \ {w} : Holds(v) => worker[v].at \in fresh'
  BY DEF SoleInv, HoldInv
<1>3. \A v \in Workers : Holds(v)' => worker'[v].at \in fresh'
  BY <1>1, <1>2
<1> QED
  BY <1>1, <1>3, HoldMoves DEF SoleInv

LEMMA CompleteOutcome ==
  ASSUME SoleInv, NEW w \in Workers, Complete(w) PROVE Outcome
<1>t. /\ worker \in [Workers -> Goroutine] /\ worker[w].pc = "complete" /\ TypeOK
      /\ UNCHANGED <<log, cursor, dead, proc, asked, worked, told>>
  BY DEF SoleInv, BaseInv, TypeOK, Complete
<1>1. CASE UNCHANGED <<live, fresh>> /\ Loop(w)
  BY <1>t, <1>1, LoopOutcome
<1>2. PICK i : i = worker[w].at
  OBVIOUS
<1>3. PICK j \in Jobs : j = Job(w)
  BY <1>t, JobOf DEF SoleInv, Busy
<1>4. i \in live /\ i \in 1 .. Len(log) /\ log[i].job = j /\ j \in worked /\ i \in fresh
  BY <1>t, <1>2, <1>3 DEF SoleInv, BaseInv, HoldInv, Holds, Job, TypeOK, Pending
<1>5. CASE Delete(i) /\ (Loop(w) \/ Goto(w, "completed", i))
  <2>1. Drops(i) /\ fresh' = fresh \ {i}
    BY <1>t, <1>5 DEF Delete, Drops
  <2>2. StreamInv' /\ ~Queued(j)'
    <3>1. StreamInv' /\ ~Queued(log[i].job)'
      BY <1>t, <1>4, <2>1, StreamDrops DEF SoleInv
    <3> QED
      BY <1>t, <1>4, <3>1 DEF Queued
  <2>3. \A k \in Jobs : /\ Logged(k)' <=> Logged(k)
                        /\ k # j => (Queued(k)' <=> Queued(k))
                        /\ Buried(k)' <=> Buried(k)
    BY <1>4, <2>1, DropsEffect
  <2>4. Queued(j) /\ Logged(j) /\ ~Buried(j)
    BY <1>4 DEF Queued, Logged, SoleInv, StreamInv
  <2>5. EndedStay /\ EntriesStay
    BY <1>t, <2>3, <2>4 DEF EndedStay, EntriesStay
  <2>6. /\ \A v \in Workers \ {w} : worker'[v] = worker[v]
        /\ worker'[w].pc = "claim" \/ (worker'[w].pc = "completed" /\ worker'[w].at = i)
    BY <1>t, <1>5, Standing DEF Loop, Goto
  <2>7. HoldInv'
    BY <1>t, <1>2, <2>1, <2>6, ReleasedHold DEF Holds
  <2>8. PromiseInv'
    <3>1. CASE worker'[w].pc = "claim"
      BY <1>t, <2>5, <2>6, <3>1, PromiseStays DEF SoleInv, Reporting
    <3>2. CASE worker'[w].pc = "completed" /\ worker'[w].at = i
      <4>1. worker'[w].pc = "dead" <=> Buried(j)'
        BY <2>3, <2>4, <3>2
      <4> QED
        BY <1>t, <1>2, <1>3, <2>2, <2>3, <2>4, <2>5, <2>6, <3>2, <4>1, PromiseBegins DEF SoleInv, Busy
    <3> QED
      BY <2>6, <3>1, <3>2
  <2>9. States[j] = "queued" /\ States' = [States EXCEPT ![j] = "completed"]
    BY <2>2, <2>3, <2>4, StateIs, StatesMove DEF States, StateFrom
  <2>10. Delivery!Finish(j)
    BY <1>t, <1>4, <2>9 DEF Delivery!Finish, States
  <2> QED
    BY <2>2, <2>7, <2>8, <2>10 DEF Outcome, Delivery!Next
<1> QED
  BY <1>1, <1>2, <1>5 DEF Complete

LEMMA FailOutcome ==
  ASSUME SoleInv, NEW w \in Workers, Fail(w) PROVE Outcome
<1>t. /\ worker \in [Workers -> Goroutine] /\ worker[w].pc = "fail" /\ TypeOK
      /\ UNCHANGED <<cursor, proc, asked, worked, told>>
  BY DEF SoleInv, BaseInv, TypeOK, Fail
<1>1. CASE UNCHANGED <<log, live, fresh, dead>> /\ Loop(w)
  BY <1>t, <1>1, LoopOutcome
<1>2. PICK i : i = worker[w].at
  OBVIOUS
<1>3. PICK j \in Jobs : j = Job(w)
  BY <1>t, JobOf DEF SoleInv, Busy
<1>4. i \in live /\ i \in 1 .. Len(log) /\ log[i].job = j /\ i \in fresh
  BY <1>t, <1>2, <1>3 DEF SoleInv, HoldInv, Holds, Job, TypeOK, Pending
<1>5. /\ Queued(j) /\ Logged(j) /\ ~Buried(j)
      /\ log[i].retries \in Int
  BY <1>t, <1>4, Entries DEF Queued, Logged, SoleInv, StreamInv
<1>6. CASE Retries(i) /\ fresh' = fresh \ {i} /\ Loop(w)
  <2>1. StreamInv'
    BY <1>t, <1>4, <1>6, StreamRetries DEF SoleInv
  <2>2. \A k \in Jobs : /\ Logged(k)' <=> Logged(k)
                        /\ Queued(k)' <=> Queued(k)
                        /\ Buried(k)' <=> Buried(k)
    BY <1>t, <1>4, <1>5, <1>6, RetriesEffect
  <2>3. States' = States /\ EndedStay
    BY <2>2, StatesKeep
  <2>4. EntriesStay
    <3>1. log[i] \in Entry /\ Again(log[i]) \in Entry
      BY <1>t, <1>4, <1>6, Entries, AgainType DEF Retries
    <3> QED
      BY <1>t, <1>6, <3>1, Longer DEF Retries, EntriesStay
  <2>5. /\ \A v \in Workers \ {w} : worker'[v] = worker[v]
        /\ worker'[w].pc = "claim"
    BY <1>t, <1>6, Standing DEF Loop
  <2>6. HoldInv'
    BY <1>t, <1>2, <1>6, <2>5, ReleasedHold DEF Holds
  <2>7. PromiseInv'
    BY <1>t, <2>3, <2>4, <2>5, PromiseStays DEF SoleInv, Reporting
  <2>8. UNCHANGED Delivery!vars
    BY <1>t, <2>3 DEF Delivery!vars, States
  <2> QED
    BY <2>1, <2>6, <2>7, <2>8 DEF Outcome
<1>7. CASE Buries(i) /\ fresh' = fresh \ {i} /\ (Loop(w) \/ Goto(w, "dead", i))
  <2>1. log' = log
    BY <1>7 DEF Buries
  <2>2. StreamInv' /\ ~Queued(j)'
    <3>1. StreamInv' /\ ~Queued(log[i].job)'
      BY <1>t, <1>4, <1>7, StreamBuries DEF SoleInv
    <3> QED
      BY <1>4, <2>1, <3>1 DEF Queued
  <2>3. \A k \in Jobs : /\ Logged(k)' <=> Logged(k)
                        /\ k # j => (Queued(k)' <=> Queued(k)) /\ (Buried(k)' <=> Buried(k))
                        /\ Buried(j)'
    BY <1>t, <1>4, <1>7, BuriesEffect
  <2>4. EndedStay /\ EntriesStay
    BY <1>5, <2>1, <2>3 DEF EndedStay, EntriesStay
  <2>5. /\ \A v \in Workers \ {w} : worker'[v] = worker[v]
        /\ worker'[w].pc = "claim" \/ (worker'[w].pc = "dead" /\ worker'[w].at = i)
    BY <1>t, <1>7, Standing DEF Loop, Goto
  <2>6. HoldInv'
    BY <1>t, <1>2, <1>7, <2>5, ReleasedHold DEF Holds
  <2>7. PromiseInv'
    <3>1. CASE worker'[w].pc = "claim"
      BY <1>t, <2>4, <2>5, <3>1, PromiseStays DEF SoleInv, Reporting
    <3>2. CASE worker'[w].pc = "dead" /\ worker'[w].at = i
      BY <1>t, <1>2, <1>3, <1>5, <2>2, <2>3, <2>4, <2>5, <3>2, PromiseBegins DEF SoleInv, Busy
    <3> QED
      BY <2>5, <3>1, <3>2
  <2>8. States[j] = "queued" /\ States' = [States EXCEPT ![j] = "dead"]
    BY <1>5, <2>2, <2>3, StateIs, StatesMove DEF States, StateFrom
  <2>9. Delivery!GiveUp(j)
    BY <1>t, <2>8 DEF Delivery!GiveUp, States
  <2> QED
    BY <2>2, <2>6, <2>7, <2>9 DEF Outcome, Delivery!Next
<1>8. RetryOrBury(i) => /\ fresh' = fresh \ {i}
                        /\ Retries(i) \/ Buries(i)
  BY DEF RetryOrBury, Retries, Buries, Again
<1>9. \/ UNCHANGED <<log, live, fresh, dead>> /\ Loop(w)
      \/ RetryOrBury(i) /\ Loop(w)
      \/ RetryOrBury(i) /\ Goto(w, "dead", i) /\ ~(log[i].retries + 1 < MaxRetry)
  BY <1>2 DEF Fail
<1>10. Retries(i) => log[i].retries + 1 < MaxRetry
  BY DEF Retries
<1> QED
  BY <1>1, <1>6, <1>7, <1>8, <1>9, <1>10

LEMMA NotifyOutcome ==
  ASSUME SoleInv, NEW w \in Workers, Notify(w) PROVE Outcome
<1>t. /\ worker \in [Workers -> Goroutine] /\ TypeOK /\ Reporting(w)
      /\ UNCHANGED <<log, live, fresh, dead, asked, worked>> /\ Loop(w)
  BY DEF SoleInv, BaseInv, TypeOK, Notify, redis, Reporting
<1>1. PICK j \in Jobs : j = Job(w)
  BY <1>t, JobOf DEF SoleInv, Busy, Reporting
<1>2. Logged(j) /\ ~Queued(j) /\ told[j] = <<>> /\ (worker[w].pc = "dead" <=> Buried(j))
  BY <1>t, <1>1, JobOf DEF SoleInv, PromiseInv, Busy, Reporting
<1>3. /\ told' = [told EXCEPT ![j] = Append(<<>>, worker[w].pc)]
      /\ \A k \in Jobs : k # j => told'[k] = told[k]
  BY <1>t, <1>1, <1>2 DEF Notify, TypeOK
<1>4. States[j] = worker[w].pc
  BY <1>t, <1>2, StateIs DEF States, StateFrom, Reporting
<1>5. \A k \in Jobs : /\ Logged(k)' <=> Logged(k)
                      /\ Queued(k)' <=> Queued(k)
                      /\ Buried(k)' <=> Buried(k)
  BY <1>t DEF Logged, Queued, Buried
<1>6. States' = States /\ EndedStay
  BY <1>5, StatesKeep
<1>7. Delivery!Report(j)
  <2>1. Append(<<>>, worker[w].pc) = <<worker[w].pc>>
    OBVIOUS
  <2> QED
    BY <1>t, <1>2, <1>3, <1>4, <1>6, <2>1 DEF Delivery!Report, States, Reporting
<1>8. \A v \in Workers : worker'[v] = IF v = w THEN Looping ELSE worker[v]
  BY <1>t DEF Loop
<1>9. StreamInv'
  BY <1>t, StreamKeeps DEF SoleInv
<1>10. HoldInv'
  BY <1>t, <1>8, Standing, HoldMoves DEF SoleInv, HoldInv, Holds
<1>11. PromiseInv'
  <2>1. ASSUME NEW v \in Workers, Reporting(v)'
        PROVE  /\ Reporting(v) /\ worker'[v] = worker[v] /\ v # w
               /\ Job(v)' = Job(v) /\ Job(v) # j /\ Job(v) \in Jobs
    <3>1. v # w /\ worker'[v] = worker[v] /\ Reporting(v)
      BY <1>8, <2>1, Standing DEF Reporting
    <3>2. Job(v) # j
      BY <1>t, <1>1, <3>1 DEF SoleInv, PromiseInv
    <3>3. Job(v)' = Job(v) /\ Job(v) \in Jobs
      BY <1>t, <3>1, JobOf DEF SoleInv, EntriesStay, Busy, Reporting
    <3> QED
      BY <3>1, <3>2, <3>3
  <2>2. ASSUME NEW v \in Workers, Reporting(v)'
        PROVE  /\ ~Queued(Job(v))' /\ told'[Job(v)'] = <<>>
               /\ worker'[v].pc = "dead" <=> Buried(Job(v))'
    <3>1. PICK k \in Jobs : k = Job(v) /\ k = Job(v)' /\ k # j
      BY <2>1, <2>2
    <3>2. ~Queued(k) /\ told[k] = <<>> /\ (worker[v].pc = "dead" <=> Buried(k))
      BY <2>1, <2>2, <3>1 DEF SoleInv, PromiseInv
    <3>3. ~Queued(k)' /\ told'[k] = <<>> /\ (worker'[v].pc = "dead" <=> Buried(k)')
      BY <1>3, <1>5, <2>1, <2>2, <3>1, <3>2
    <3> QED
      BY <3>1, <3>3 DEF Queued, Buried
  <2>3. \A u, v \in Workers : Reporting(u)' /\ Reporting(v)' /\ Job(u)' = Job(v)' => u = v
    BY <2>1 DEF SoleInv, PromiseInv
  <2>4. \A k \in Jobs : told'[k] # <<>> => Logged(k)' /\ ~Queued(k)'
    BY <1>2, <1>3, <1>5 DEF SoleInv, PromiseInv
  <2> QED
    BY <2>2, <2>3, <2>4 DEF PromiseInv
<1> QED
  BY <1>7, <1>9, <1>10, <1>11 DEF Outcome, Delivery!Next

-------------------------------------------------------------------------------
(* The queue keeps its promise *)

LEMMA SoleInit == Init => SoleInv /\ Delivery!Init
<1> SUFFICES ASSUME Init PROVE SoleInv /\ Delivery!Init
  OBVIOUS
<1>1. /\ log = <<>> /\ live = {} /\ dead = <<>> /\ Len(log) = 0 /\ Len(dead) = 0
      /\ \A w \in Workers : worker[w] = Looping
      /\ worked = {} /\ told = [j \in Jobs |-> <<>>]
  BY DEF Init
<1>2. \A j : ~Logged(j) /\ ~Queued(j) /\ ~Buried(j)
  BY <1>1 DEF Logged, Queued, Buried
<1>3. StreamInv
  BY <1>1, <1>2 DEF StreamInv
<1>4. HoldInv
  BY <1>1, Standing DEF HoldInv, Holds
<1>5. PromiseInv
  BY <1>1, <1>2, Standing DEF PromiseInv, Reporting
<1>6. \A j \in Jobs : StateOf(j) = "new"
  BY <1>2, StateIs DEF StateFrom
<1> QED
  BY <1>1, <1>3, <1>4, <1>5, <1>6, BaseInit DEF SoleInv, Delivery!Init

LEMMA SoleStep ==
  ASSUME ~Overrun
  PROVE  SoleInv /\ [Next]_vars => SoleInv' /\ [Delivery!Next]_(Delivery!vars)
<1> SUFFICES ASSUME SoleInv, [Next]_vars PROVE SoleInv' /\ [Delivery!Next]_(Delivery!vars)
  OBVIOUS
<1>1. BaseInv'
  BY BaseStep DEF SoleInv
<1>2. ASSUME NEW j \in Jobs, Submit(j) PROVE Outcome
  BY <1>2, SubmitOutcome
<1>3. ASSUME NEW w \in Workers, Step(w) PROVE Outcome
  BY <1>3, ClaimOutcome, ReadOutcome, HandleOutcome, CompleteOutcome, FailOutcome, NotifyOutcome DEF Step
<1>4. ASSUME NEW w \in Workers, Leave(w) PROVE Outcome
  BY <1>4, ProcessOutcome
<1>5. ASSUME NEW i \in fresh, Age(i) PROVE Outcome
  BY <1>5, ProcessOutcome
<1>6. CASE Stop \/ Exit \/ Crash \/ Start
  <2>1. Outcome
    BY <1>6, ProcessOutcome
  <2> QED
    BY <1>1, <2>1 DEF Outcome, SoleInv
<1>7. CASE UNCHANGED vars
  <2>1. Outcome
    BY <1>7, ProcessOutcome
  <2> QED
    BY <1>1, <2>1 DEF Outcome, SoleInv
<1>8. Outcome => SoleInv' /\ [Delivery!Next]_(Delivery!vars)
  BY <1>1 DEF Outcome, SoleInv
<1> QED
  BY <1>2, <1>3, <1>4, <1>5, <1>6, <1>7, <1>8 DEF Next

\* Each position of the log of job j stands for one attempt.
LEMMA AttemptsAreFew ==
  ASSUME SoleInv, NEW j \in Jobs
  PROVE  Cardinality({i \in 1 .. Len(log) : log[i].job = j}) <= MaxRetry
<1> DEFINE Mine     == {i \in 1 .. Len(log) : log[i].job = j}
           attempt  == [i \in Mine |-> log[i].retries]
           Attempts == 0 .. MaxRetry - 1
<1>1. attempt \in Injection(Mine, Attempts)
  <2>1. \A i \in Mine : log[i].retries \in Attempts
    BY Entries DEF SoleInv, BaseInv
  <2>2. \A i, k \in Mine : log[i].retries = log[k].retries => i = k
    BY DEF SoleInv, StreamInv
  <2> HIDE DEF Mine, Attempts
  <2> QED
    BY <2>1, <2>2 DEF Injection, IsInjective
<1>2. IsFiniteSet(Attempts) /\ Cardinality(Attempts) = MaxRetry
  <2>1. 0 \in Int /\ MaxRetry - 1 \in Int /\ MaxRetry \in Nat \ {0}
    BY Constants
  <2>2. IsFiniteSet(0 .. MaxRetry - 1)
        /\ Cardinality(0 .. MaxRetry - 1) = IF 0 > MaxRetry - 1 THEN 0 ELSE (MaxRetry - 1) - 0 + 1
    BY <2>1, FS_Interval
  <2> QED
    BY <2>1, <2>2
<1> HIDE DEF Mine, attempt, Attempts
<1>3. Cardinality(Mine) <= Cardinality(Attempts)
  BY <1>1, <1>2, FS_Injection
<1> QED
  BY <1>2, <1>3 DEF Mine

\* A set with no two elements.
LEMMA AtMostOne ==
  ASSUME NEW S, \A a, b \in S : a = b PROVE Cardinality(S) <= 1
<1>1. CASE S = {}
  <2>1. Cardinality({}) = 0
    BY FS_EmptySet
  <2> QED
    BY <1>1, <2>1
<1>2. CASE S # {}
  <2>1. PICK c : c \in S
    BY <1>2
  <2>2. S = {c}
    BY <2>1
  <2>3. Cardinality({c}) = 1
    BY FS_Singleton
  <2> QED
    BY <2>2, <2>3
<1> QED
  BY <1>1, <1>2

\* Whichever answers are lost and whenever the process stops, a job is added at
\* most MaxRetry times and buried at most once, provided no job overruns its
\* claim time (queue.go Fail).
THEOREM RetryTheorem == ASSUME ~Overrun PROVE Spec => []RetryLimitHolds
<1>1. SoleInv => RetryLimitHolds
  <2> SUFFICES ASSUME SoleInv, NEW j \in Jobs
               PROVE  /\ Cardinality({i \in 1 .. Len(log) : log[i].job = j}) <= MaxRetry
                      /\ Cardinality({k \in 1 .. Len(dead) : dead[k] = j}) <= 1
    BY DEF RetryLimitHolds
  <2>1. \A k, l \in {k \in 1 .. Len(dead) : dead[k] = j} : k = l
    BY DEF SoleInv, StreamInv
  <2> QED
    BY <2>1, AtMostOne, AttemptsAreFew
<1>2. Init => SoleInv
  BY SoleInit
<1>3. SoleInv /\ [Next]_vars => SoleInv'
  BY SoleStep
<1> QED
  BY <1>1, <1>2, <1>3, PTL DEF Spec

\* Without overruns a job has one live entry and one worker at most: no attempt
\* runs beside another of the same job (queue.go claimStale, NewPool).
THEOREM OneEntryTheorem == ASSUME ~Overrun PROVE Spec => []OneEntryPerJob
<1>1. SoleInv => OneEntryPerJob
  <2> SUFFICES ASSUME SoleInv PROVE OneEntryPerJob
    OBVIOUS
  <2>t. live \subseteq 1 .. Len(log) /\ \A i \in 1 .. Len(log) : log[i].retries \in Int
    BY Entries DEF SoleInv, BaseInv, TypeOK
  <2>1. \A i, k \in live : log[i].job = log[k].job => i = k
    <3> SUFFICES ASSUME NEW i \in live, NEW k \in live, log[i].job = log[k].job, i # k PROVE FALSE
      OBVIOUS
    <3>1. log[i].retries < log[k].retries /\ log[k].retries < log[i].retries
      BY <2>t DEF SoleInv, StreamInv
    <3> QED
      BY <2>t, <3>1
  <2>2. \A j \in Jobs : Cardinality(LiveOf(j)) <= 1
    BY <2>1, AtMostOne DEF LiveOf
  <2>3. \A w \in Workers : Holds(w) => worker[w].at \in live
    BY DEF SoleInv, BaseInv, HoldInv, TypeOK, Pending
  <2> QED
    BY <2>1, <2>2, <2>3 DEF OneEntryPerJob, SoleInv, HoldInv, Job
<1>2. Init => SoleInv
  BY SoleInit
<1>3. SoleInv /\ [Next]_vars => SoleInv'
  BY SoleStep
<1> QED
  BY <1>1, <1>2, <1>3, PTL DEF Spec

\* Without overruns the queue and its pool implement JobDelivery: a job ends once,
\* completed only with its work, and is reported at most once and truthfully
\* (queue.go Complete and Fail, pool.go).
THEOREM DeliveryTheorem == ASSUME ~Overrun PROVE Spec => ImplementsJobDelivery
<1>1. Init => SoleInv /\ Delivery!Init
  BY SoleInit
<1>2. SoleInv /\ [Next]_vars => SoleInv' /\ [Delivery!Next]_(Delivery!vars)
  BY SoleStep
<1> QED
  BY <1>1, <1>2, PTL DEF Spec, ImplementsJobDelivery, Delivery!Spec
===============================================================================
