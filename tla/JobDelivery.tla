----------------------------- MODULE JobDelivery -----------------------------
(***************************************************************************)
(* What the worker queue promises to those who submit jobs: a job that was *)
(* queued ends once, completed or dead, never ends completed before its    *)
(* work is durable, and is reported at most once and only after its end.   *)
(* A report may be missing: the process can stop before it, and an answer  *)
(* of Redis can be lost.                                                   *)
(*                                                                         *)
(* JobQueue implements this specification; PaperStage relies on it.        *)
(***************************************************************************)
CONSTANT Jobs   \* jobs, each with its own identifier

VARIABLES
  state,        \* what has become of each job
  worked,       \* jobs whose work is durable
  told          \* results the completion hook has been told of each job

vars == <<state, worked, told>>

States == {"new", "queued", "completed", "dead"}

Init ==
  /\ state = [j \in Jobs |-> "new"]
  /\ worked = {}
  /\ told = [j \in Jobs |-> <<>>]

Queue(j) ==
  /\ state[j] = "new"
  /\ state' = [state EXCEPT ![j] = "queued"]
  /\ UNCHANGED <<worked, told>>

\* An attempt that leaves its work behind; the job may still be attempted again.
Work(j) ==
  /\ state[j] = "queued"
  /\ worked' = worked \cup {j}
  /\ UNCHANGED <<state, told>>

Finish(j) ==
  /\ state[j] = "queued" /\ j \in worked
  /\ state' = [state EXCEPT ![j] = "completed"]
  /\ UNCHANGED <<worked, told>>

GiveUp(j) ==
  /\ state[j] = "queued"
  /\ state' = [state EXCEPT ![j] = "dead"]
  /\ UNCHANGED <<worked, told>>

Report(j) ==
  /\ state[j] \in {"completed", "dead"} /\ told[j] = <<>>
  /\ told' = [told EXCEPT ![j] = <<state[j]>>]
  /\ UNCHANGED <<state, worked>>

Next == \E j \in Jobs : Queue(j) \/ Work(j) \/ Finish(j) \/ GiveUp(j) \/ Report(j)

Spec == Init /\ [][Next]_vars

===============================================================================
