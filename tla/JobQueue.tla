------------------------------- MODULE JobQueue -------------------------------
(***************************************************************************)
(* The Redis Streams worker queue and the pool of workers that serves it:  *)
(* submission, delivery to one consumer group, claiming of entries whose   *)
(* worker went away, completion, retry and dead letters, the completion    *)
(* hook, shutdown and crashes of the process.                              *)
(*                                                                         *)
(* Redis itself keeps what it was told.  A Redis call fails for two        *)
(* reasons: the pool's context is cancelled, or one of at most MaxFaults   *)
(* faults of the connection; either may hit before or after Redis ran the  *)
(* command.  Payloads, priorities and metrics are left out, and a job is   *)
(* its identifier and its retry count.                                     *)
(***************************************************************************)
EXTENDS Integers, Sequences, FiniteSets

CONSTANTS
  Jobs,          \* jobs that are submitted, each once
  Workers,       \* workers of the pool
  MaxRetry,      \* attempts of a job; NewJob sets 3
  ReclaimCount,  \* entries one XAUTOCLAIM takes over; NewQueue sets 10
  Overrun,       \* TRUE when a job may run for longer than ClaimIdle
  MaxFaults,     \* bound on faults of the Redis connection
  MaxStops       \* bound on shutdowns and crashes together

ASSUME QueueAssumption ==
  /\ MaxRetry \in Nat \ {0} /\ ReclaimCount \in Nat \ {0}
  /\ Overrun \in BOOLEAN /\ MaxFaults \in Nat /\ MaxStops \in Nat

VARIABLES
  log,       \* every entry ever added to jobs:stream, in order
  live,      \* positions in log of the entries that were not deleted
  cursor,    \* last-delivered-id of the group: position of the last entry read
  fresh,     \* delivered entries whose idle time is below ClaimIdle
  dead,      \* jobs:failed, the dead letters
  worker,    \* the goroutine of each worker
  proc,      \* the process
  asked,     \* jobs Submit was called for
  worked,    \* jobs whose work is durable (PostgreSQL, Qdrant)
  told,      \* terminal results the completion hook was told of each job
  faults,    \* connection faults so far
  stops      \* shutdowns and crashes so far

redis  == <<log, live, cursor, fresh, dead>>
bounds == <<faults, stops>>
vars   == <<log, live, cursor, fresh, dead, worker, proc, asked, worked, told,
            faults, stops>>

-------------------------------------------------------------------------------
Entry == [job : Jobs, retries : 0 .. MaxRetry - 1]

\* Where a worker stands.  claim: before XAUTOCLAIM.  read: before XREADGROUP.
\* work: in the handler.  complete, fail: before that transaction.  completed,
\* dead: before the completion hook is told so.  gone: the goroutine has returned.
PCs == {"claim", "read", "work", "complete", "fail", "completed", "dead", "gone"}

\* A worker and the position of the entry it holds.
Goroutine  == [pc : PCs, at : Nat]
Looping    == [pc |-> "claim", at |-> 0]
Gone       == [pc |-> "gone", at |-> 0]
Holds(w)   == worker[w].pc \in {"work", "complete", "fail"}
Job(w)     == log[worker[w].at].job

Goto(w, pc, i) == worker' = [worker EXCEPT ![w] = [pc |-> pc, at |-> i]]
Loop(w)        == worker' = [worker EXCEPT ![w] = Looping]

\* The pending entries list: XACK and XDEL always go together, so it is the
\* delivered part of what is live.
Pending == {i \in live : i <= cursor}
Idle    == Pending \ fresh
LiveOf(j) == {i \in live : log[i].job = j}

\* The first n positions of a set of entries, in stream order.
FirstOf(S, n) == {i \in S : Cardinality({k \in S : k < i}) < n}

\* XACK and XDEL of an entry.
Delete(i) ==
  /\ live' = live \ {i}
  /\ fresh' = fresh \ {i}

\* The two reasons for which a call to Redis returns an error.
Breaks ==
  \/ proc = "stopping" /\ UNCHANGED faults
  \/ faults < MaxFaults /\ faults' = faults + 1
Answers == proc = "up" /\ UNCHANGED faults

Init ==
  /\ log = <<>> /\ live = {} /\ cursor = 0 /\ fresh = {} /\ dead = <<>>
  /\ worker = [w \in Workers |-> Looping]
  /\ proc = "up"
  /\ asked = {} /\ worked = {} /\ told = [j \in Jobs |-> <<>>]
  /\ faults = 0 /\ stops = 0

-------------------------------------------------------------------------------
\* Pool.Submit and XADD.  An error may come back although the entry was added.
Submit(j) ==
  /\ proc = "up" /\ j \notin asked
  /\ asked' = asked \cup {j}
  /\ \/ Answers /\ log' = Append(log, [job |-> j, retries |-> 0])
     \/ Breaks /\ log' \in {log, Append(log, [job |-> j, retries |-> 0])}
  /\ live' = IF log' = log THEN live ELSE live \cup {Len(log')}
  /\ UNCHANGED <<cursor, fresh, dead, worker, proc, worked, told, stops>>

\* Faulty Claim: entries of lost workers stay where they are.
ClaimNothing(w) ==
  /\ worker[w].pc = "claim" /\ Answers
  /\ Goto(w, "read", 0)
  /\ UNCHANGED <<redis, proc, asked, worked, told, stops>>

\* XAUTOCLAIM from the start of the pending list: every entry it takes over is
\* fresh again, and only the first is worked on.
Claim(w) ==
  /\ worker[w].pc = "claim"
  /\ \/ /\ Idle = {} /\ Answers
        /\ Goto(w, "read", 0) /\ UNCHANGED fresh
     \/ /\ Idle # {}
        /\ fresh' = fresh \cup FirstOf(Idle, ReclaimCount)
        /\ \/ Answers /\ \E i \in FirstOf(Idle, 1) : Goto(w, "work", i)
           \/ Breaks /\ UNCHANGED worker
  /\ UNCHANGED <<log, live, cursor, dead, proc, asked, worked, told, stops>>

\* XREADGROUP of one new entry, or the poll timeout.  When the answer is lost the
\* entry is pending and nobody works on it.
Read(w) ==
  /\ worker[w].pc = "read"
  /\ \/ cursor = Len(log) /\ Loop(w) /\ UNCHANGED <<cursor, fresh, faults>>
     \/ /\ cursor < Len(log)
        /\ cursor' = cursor + 1 /\ fresh' = fresh \cup {cursor + 1}
        /\ \/ Answers /\ Goto(w, "work", cursor + 1)
           \/ Breaks /\ Loop(w)
     \/ proc = "stopping" /\ Loop(w) /\ UNCHANGED <<cursor, fresh, faults>>
  /\ UNCHANGED <<log, live, dead, proc, asked, worked, told, stops>>

\* The loop ends when the pool's context is done.
Leave(w) ==
  /\ proc = "stopping" /\ worker[w].pc = "claim"
  /\ worker' = [worker EXCEPT ![w] = Gone]
  /\ UNCHANGED <<redis, proc, asked, worked, told, bounds>>

\* Faulty Handle: a handler that returns nil when its context ended has succeeded.
HandleNilIsDone(w) ==
  /\ worker[w].pc = "work"
  /\ worked' \in {worked, worked \cup {Job(w)}}
  /\ \E pc \in {"fail", "complete"} : Goto(w, pc, worker[w].at)
  /\ UNCHANGED <<redis, proc, asked, told, bounds>>

\* The handler, under the job's deadline.  It may fail after its work is durable,
\* and a handler that returns nil after the context ended has failed.
Handle(w) ==
  /\ worker[w].pc = "work"
  /\ worked' \in {worked, worked \cup {Job(w)}}
  /\ \/ Goto(w, "fail", worker[w].at)
     \/ proc = "up" /\ Job(w) \in worked' /\ Goto(w, "complete", worker[w].at)
  /\ UNCHANGED <<redis, proc, asked, told, bounds>>

\* Queue.Complete: XACK and XDEL in one MULTI.
Complete(w) ==
  /\ worker[w].pc = "complete"
  /\ \/ Answers /\ Delete(worker[w].at) /\ Goto(w, "completed", worker[w].at)
     \/ Breaks /\ Loop(w) /\ (Delete(worker[w].at) \/ UNCHANGED <<live, fresh>>)
  /\ UNCHANGED <<log, cursor, dead, proc, asked, worked, told, stops>>

\* Faulty RetryOrBury: one attempt too many.
RetryOnceMore(i) ==
  LET e == log[i] IN
  /\ fresh' = fresh \ {i}
  /\ \/ /\ e.retries < MaxRetry
        /\ log' = Append(log, [e EXCEPT !.retries = @ + 1])
        /\ live' = (live \ {i}) \cup {Len(log) + 1}
        /\ UNCHANGED dead
     \/ /\ e.retries >= MaxRetry
        /\ dead' = Append(dead, e.job)
        /\ live' = live \ {i}
        /\ UNCHANGED log

\* Faulty RetryOrBury: the last attempt leaves no dead letter.
RetryOrDrop(i) ==
  LET e == log[i] IN
  /\ fresh' = fresh \ {i}
  /\ IF e.retries + 1 < MaxRetry
     THEN /\ log' = Append(log, [e EXCEPT !.retries = @ + 1])
          /\ live' = (live \ {i}) \cup {Len(log) + 1}
     ELSE live' = live \ {i} /\ UNCHANGED log
  /\ UNCHANGED dead

\* The MULTI of Queue.Fail: the entry goes, and the next attempt is queued, or a
\* dead letter when there is none left.
RetryOrBury(i) ==
  LET e == log[i] IN
  /\ fresh' = fresh \ {i}
  /\ \/ /\ e.retries + 1 < MaxRetry
        /\ log' = Append(log, [e EXCEPT !.retries = @ + 1])
        /\ live' = (live \ {i}) \cup {Len(log) + 1}
        /\ UNCHANGED dead
     \/ /\ e.retries + 1 >= MaxRetry
        /\ dead' = Append(dead, e.job)
        /\ live' = live \ {i}
        /\ UNCHANGED log

\* The hook ignores an attempt that is not the last one.
Fail(w) ==
  /\ worker[w].pc = "fail"
  /\ \/ /\ Answers /\ RetryOrBury(worker[w].at)
        /\ IF log[worker[w].at].retries + 1 < MaxRetry
           THEN Loop(w) ELSE Goto(w, "dead", worker[w].at)
     \/ /\ Breaks /\ Loop(w)
        /\ RetryOrBury(worker[w].at) \/ UNCHANGED <<log, live, fresh, dead>>
  /\ UNCHANGED <<cursor, proc, asked, worked, told, stops>>

\* The completion hook, with the terminal result Redis has recorded.
Notify(w) ==
  /\ worker[w].pc \in {"completed", "dead"}
  /\ told' = [told EXCEPT ![Job(w)] = Append(@, worker[w].pc)]
  /\ Loop(w)
  /\ UNCHANGED <<redis, proc, asked, worked, bounds>>

\* An entry reaches ClaimIdle.  ClaimIdle is a minute longer than JobTimeout, so
\* unless a job may overrun it nobody is working on the entry any more.
Age(i) ==
  /\ i \in fresh
  /\ Overrun \/ \A w \in Workers : Holds(w) => worker[w].at # i
  /\ fresh' = fresh \ {i}
  /\ UNCHANGED <<log, live, cursor, dead, worker, proc, asked, worked, told, bounds>>

-------------------------------------------------------------------------------
(* The process *)

\* Pool.stop.
Stop ==
  /\ proc = "up" /\ stops < MaxStops
  /\ proc' = "stopping" /\ stops' = stops + 1
  /\ UNCHANGED <<redis, worker, asked, worked, told, faults>>

\* StopAndWait gives up at its deadline: the process ends whether or not the
\* workers have returned.
Halt ==
  /\ worker' = [w \in Workers |-> Gone]
  /\ proc' = "down"
  /\ UNCHANGED <<redis, asked, worked, told, faults>>
Exit  == proc = "stopping" /\ Halt /\ UNCHANGED stops
Crash == proc # "down" /\ stops < MaxStops /\ stops' = stops + 1 /\ Halt

\* NewRedisPool and Start.
Start ==
  /\ proc = "down"
  /\ proc' = "up"
  /\ worker' = [w \in Workers |-> Looping]
  /\ UNCHANGED <<redis, asked, worked, told, bounds>>

-------------------------------------------------------------------------------
Step(w) == Claim(w) \/ Read(w) \/ Handle(w) \/ Complete(w) \/ Fail(w) \/ Notify(w)

Next ==
  \/ \E j \in Jobs : Submit(j)
  \/ \E w \in Workers : Step(w) \/ Leave(w)
  \/ \E i \in fresh : Age(i)
  \/ Stop \/ Exit \/ Crash \/ Start

Spec == Init /\ [][Next]_vars

\* The scheduler starves no worker, time passes, and a stopped server is started
\* again.
Fairness ==
  /\ \A w \in Workers : WF_vars(Step(w))
  /\ WF_vars(\E i \in fresh : Age(i))
  /\ WF_vars(Exit) /\ WF_vars(Start)

FairSpec == Spec /\ Fairness

-------------------------------------------------------------------------------
(* Properties *)

TypeOK ==
  /\ log \in Seq(Entry)
  /\ live \subseteq 1 .. Len(log)
  /\ cursor \in 0 .. Len(log)
  /\ fresh \subseteq Pending
  /\ dead \in Seq(Jobs)
  /\ worker \in [Workers -> Goroutine]
  /\ proc \in {"up", "stopping", "down"}
  /\ asked \subseteq Jobs /\ worked \subseteq Jobs
  /\ told \in [Jobs -> Seq({"completed", "dead"})]
  /\ faults \in 0 .. MaxFaults
  /\ stops \in 0 .. MaxStops

\* A queued job leaves the stream only when its work is durable or with a dead
\* letter, whichever answers of Redis are lost and whenever the process stops
\* (queue.go Complete, Fail; docs/LIMITATIONS.md: at-least-once).
NoJobIsLost ==
  \A i \in 1 .. Len(log) :
    LiveOf(log[i].job) = {} => log[i].job \in worked \cup {dead[k] : k \in 1 .. Len(dead)}

\* A job is never queued twice at a time, so no two workers attempt it together
\* and a job that ended is not attempted again.
OneEntryPerJob ==
  /\ \A j \in Jobs : Cardinality(LiveOf(j)) <= 1
  /\ \A v, w \in Workers : Holds(v) /\ Holds(w) /\ Job(v) = Job(w) => v = w

\* Failed jobs are retried up to their retry limit: a job is added MaxRetry times
\* at most and has one dead letter at most (docs/ARCH.md, queue.go Fail).
RetryLimitHolds ==
  \A j \in Jobs :
    /\ Cardinality({i \in 1 .. Len(log) : log[i].job = j}) <= MaxRetry
    /\ Cardinality({k \in 1 .. Len(dead) : dead[k] = j}) <= 1

\* What became of a job, in the words of JobDelivery.
StateOf(j) ==
  IF LiveOf(j) # {} THEN "queued"
  ELSE IF \A i \in 1 .. Len(log) : log[i].job # j THEN "new"
  ELSE IF \E k \in 1 .. Len(dead) : dead[k] = j THEN "dead"
  ELSE "completed"

Delivery == INSTANCE JobDelivery WITH state <- [j \in Jobs |-> StateOf(j)]

\* With a claim time no job overruns, the queue and the pool keep the promise of
\* JobDelivery through retries, reclaimed entries, lost answers and crashes.
ImplementsJobDelivery == Delivery!Spec

\* A queued job ends, although the process may stop while it is attempted, the
\* worker that held it is gone, or an answer of Redis was lost: the entry becomes
\* claimable and its attempts are limited (queue.go claimStale, pool.go).
EveryJobEnds ==
  \A j \in Jobs : LiveOf(j) # {} ~> LiveOf(j) = {}

===============================================================================
