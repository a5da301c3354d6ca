------------------------------ MODULE DurableRun ------------------------------
(***************************************************************************)
(* What the durable state of a research run promises to its readers, with  *)
(* no runner, no Redis and no restart: a run is accepted, its stages are   *)
(* finished one after another, and it ends completed or failed.            *)
(*                                                                         *)
(* PipelineRun implements this specification under the mapping it gives.   *)
(***************************************************************************)
EXTENDS Integers

CONSTANTS
  Topics,       \* research topics, one run each
  NumStages     \* stages of a run, in order

VARIABLES
  status,       \* durable status of each topic
  done          \* stages of each topic whose output is durable

vars == <<status, done>>

Stages == 1 .. NumStages

Init ==
  /\ status = [t \in Topics |-> "absent"]
  /\ done = [t \in Topics |-> {}]

Accept(t) ==
  /\ status[t] = "absent"
  /\ status' = [status EXCEPT ![t] = "pending"]
  /\ UNCHANGED done

\* The run is working; nothing new is durable yet.
Work(t) ==
  /\ status[t] \in {"pending", "processing"}
  /\ status' = [status EXCEPT ![t] = "processing"]
  /\ UNCHANGED done

\* Stage s becomes durable, only after every stage before it.
FinishStage(t, s) ==
  /\ status[t] = "processing"
  /\ s \notin done[t]
  /\ 1 .. (s - 1) \subseteq done[t]
  /\ done' = [done EXCEPT ![t] = @ \cup {s}]
  /\ UNCHANGED status

Complete(t) ==
  /\ done[t] = Stages
  /\ status[t] \in {"processing", "completed"}
  /\ status' = [status EXCEPT ![t] = "completed"]
  /\ UNCHANGED done

\* A failure is recorded in one step with the stage it takes back, if any.
Fail(t) ==
  /\ status[t] # "absent"
  /\ status' = [status EXCEPT ![t] = "failed"]
  /\ \E s \in 0 .. NumStages : done' = [done EXCEPT ![t] = @ \ {s}]

Next ==
  \E t \in Topics :
    \/ Accept(t)
    \/ Work(t)
    \/ \E s \in Stages : FinishStage(t, s)
    \/ Complete(t)
    \/ Fail(t)

Spec == Init /\ [][Next]_vars

===============================================================================
