--------------------------- MODULE ActivationProofs ---------------------------
(***************************************************************************)
(* Proofs about Activation for any contents, processes, generations and    *)
(* failures: a generation becomes active only with a point of every chunk, *)
(* processes that overlap included; and while none have overlapped, the    *)
(* alias is at the active generation and a completed chunk is behind it.   *)
(*                                                                         *)
(* The argument: a collection is filled by the process that created its    *)
(* generation, before there is an intent; the intent's snapshot is what    *)
(* was filled in, and points are only added after that; between Begin and  *)
(* Commit the lock keeps the chunks as the snapshot says.  The second part *)
(* has an invariant of its own, SoloInv.                                   *)
(***************************************************************************)
EXTENDS Activation, FiniteSetTheorems, TLAPS

-------------------------------------------------------------------------------
(* The invariant *)

Statuses == {"", "building", "ready", "active", "retired", "failed"}
Types ==
  /\ chunks \subseteq Contents
  /\ row \in [Contents -> Embedding]
  /\ generation \in [Generations -> Statuses]
  /\ intent \in [Generations -> Intent]
  /\ alias \in Collections \cup {None}
  /\ points \in [Collections -> SUBSET Contents]
  /\ proc \in [Procs -> Process]
  /\ overlap \in BOOLEAN /\ faults \in 0 .. MaxFaults

\* One intent is open and one generation active at most: the index and RetireActive.
Unique ==
  /\ \A g, h \in Open : g = h
  /\ \A g, h \in Generations : generation[g] = "active" /\ generation[h] = "active" => g = h

\* Where a process works with an intent, holds the lock, or fills the collection of
\* a generation of its own.
IntentPCs == {"status", "inspect", "complete", "validate", "begin", "switch", "update", "commit",
              "restore", "unswitch", "fail_generation", "supersede", "fail_intent"}
LockPCs   == {"switch", "update", "commit"}
OwnPCs    == {"build", "ready", "previous", "intend"}

HasIntent(g) == intent[g].status # "absent"

\* What a process may rely on where it stands.
Fits(me) ==
  /\ me.pc \in IntentPCs => me.g \in Generations /\ HasIntent(me.g)
  /\ me.pc \in OwnPCs \cup {"discard"} => me.g \in Generations
  /\ me.pc \in OwnPCs => generation[me.g] # "" /\ ~HasIntent(me.g)
  /\ me.pc \in OwnPCs \ {"build"} => me.hand \subseteq points[me.g]
  /\ me.pc \in LockPCs => chunks = intent[me.g].digest

Snapshots ==
  \A g \in Generations : HasIntent(g) => intent[g].digest \subseteq points[g] /\ generation[g] # ""
OneOwner == \A p, q \in Procs : proc[p].pc \in OwnPCs /\ proc[q].pc \in OwnPCs /\ proc[p].g = proc[q].g => p = q
OneLock  == \A p, q \in Procs : proc[p].pc \in LockPCs /\ proc[q].pc \in LockPCs => p = q

ActInv ==
  /\ Types /\ Unique /\ Snapshots /\ OneOwner /\ OneLock
  /\ \A p \in Procs : Fits(proc[p])

-------------------------------------------------------------------------------
(* Records *)

LEMMA Bounds ==
  /\ MaxGenerations \in Nat \ {0} /\ MaxFaults \in Nat
  /\ Generations \subseteq Collections /\ 0 \in Collections /\ Generations \subseteq 0 .. MaxGenerations
  /\ None \notin Collections
  BY ActivationAssumption DEF Generations, Collections, None

LEMMA FreshType ==
  ASSUME NEW program \in {"server", "reindex"}
  PROVE  Fresh(program) \in Process /\ Fresh(program).pc = "load" /\ Exited \in Process /\ Exited.pc = "exited"
<1>1. \A prog \in {"server", "reindex"} :
        Fresh(prog) \in Process /\ Fresh(prog).pc = "load"
  <2>1. "load" \in PCs /\ 0 \in 0 .. MaxGenerations
    BY Bounds DEF PCs
  <2> QED
    BY <2>1, Bounds DEF Fresh, Process
<1>2. Exited \in Process /\ Exited.pc = "exited"
  <2> DEFINE f == Fresh("reindex")
  <2>1. f \in Process /\ "exited" \in PCs
    BY <1>1 DEF PCs
  <2>2. Exited = [f EXCEPT !.pc = "exited"]
    BY DEF Exited
  <2> HIDE DEF f
  <2> QED
    BY <2>1, <2>2 DEF Process
<1> QED
  BY <1>1, <1>2

\* A process that changes its place only.
LEMMA ToMoves ==
  ASSUME Types, NEW p \in Procs, NEW pc \in PCs, To(p, pc)
  PROVE  \E me \in Process : /\ proc' = [proc EXCEPT ![p] = me]
                             /\ me.pc = pc /\ me.g = proc[p].g /\ me.hand = proc[p].hand
<1> DEFINE me == [proc[p] EXCEPT !.pc = pc]
<1>1. proc[p] \in Process
  BY DEF Types
<1>2. me \in Process /\ me.pc = pc /\ me.g = proc[p].g /\ me.hand = proc[p].hand
  BY <1>1 DEF Process
<1>3. proc' = [proc EXCEPT ![p] = me]
  BY DEF To
<1> HIDE DEF me
<1> QED
  BY <1>2, <1>3

LEMMA ExitMoves ==
  ASSUME NEW p \in Procs, Exit(p)
  PROVE  \E me \in Process : proc' = [proc EXCEPT ![p] = me] /\ me.pc = "exited"
  BY FreshType DEF Exit

LEMMA Moved ==
  ASSUME Types, NEW p \in Procs, NEW me, proc' = [proc EXCEPT ![p] = me]
  PROVE  proc'[p] = me /\ \A q \in Procs \ {p} : proc'[q] = proc[q]
  BY DEF Types

LEMMA ProcessParts ==
  ASSUME Types, NEW p \in Procs
  PROVE  /\ proc[p] \in Process /\ proc[p].pc \in PCs /\ proc[p].g \in 0 .. MaxGenerations
         /\ proc[p].hand \in SUBSET Contents /\ proc[p].current \in Collections \cup {None}
         /\ proc[p].phys \in Collections \cup {None} /\ proc[p].own \in BOOLEAN
         /\ proc[p].program \in {"server", "reindex"}
  BY DEF Types, Process

LEMMA FaultsType ==
  Types /\ (Works \/ Breaks) => faults' \in 0 .. MaxFaults
  BY Bounds DEF Types, Works, Breaks

\* An intent with another status.
LEMMA IntentMoves ==
  ASSUME Types, NEW g \in Generations, NEW s \in {"completed", "alias_switched", "failed", "superseded"},
         intent' = IntentIs(g, s)
  PROVE  /\ intent' \in [Generations -> Intent] /\ intent'[g].status = s
         /\ intent'[g].digest = intent[g].digest /\ intent'[g].previous = intent[g].previous
         /\ \A h \in Generations \ {g} : intent'[h] = intent[h]
<1> DEFINE i == [intent[g] EXCEPT !.status = s]
<1>1. i \in Intent /\ i.status = s /\ i.digest = intent[g].digest /\ i.previous = intent[g].previous
  BY DEF Types, Intent
<1>2. intent' = [intent EXCEPT ![g] = i]
  BY DEF IntentIs
<1> HIDE DEF i
<1> QED
  BY <1>1, <1>2 DEF Types

LEMMA IntentParts ==
  ASSUME Types, NEW g \in Generations
  PROVE  /\ intent[g] \in Intent /\ intent[g].digest \in SUBSET Contents
         /\ intent[g].previous \in Collections \cup {None}
  BY DEF Types, Intent

\* What the program does after a reconciliation.
LEMMA GoOnMoves ==
  ASSUME Types, NEW p \in Procs, GoOn(p)
  PROVE  \E me \in Process : proc' = [proc EXCEPT ![p] = me] /\ me.pc \in {"open", "list"}
<1> DEFINE f == Fresh(proc[p].program)
           pc == IF proc[p].program = "server" THEN "open" ELSE "list"
           me == [f EXCEPT !.phys = proc[p].phys, !.pc = pc]
<1>1. f \in Process /\ pc \in PCs /\ proc[p].phys \in Collections \cup {None}
  BY FreshType, ProcessParts DEF PCs
<1>2. me \in Process /\ me.pc = pc
  <2> HIDE DEF f, pc
  <2> QED
    BY <1>1 DEF Process
<1>3. proc' = [proc EXCEPT ![p] = me]
  BY DEF GoOn, Become
<1>4. pc \in {"open", "list"}
  OBVIOUS
<1> HIDE DEF me, pc
<1> QED
  BY <1>2, <1>3, <1>4

-------------------------------------------------------------------------------
(* One step *)

\* What a step of process p leaves to the others.
Frame(p) ==
  /\ \A g \in Generations : HasIntent(g) =>
       /\ HasIntent(g)' /\ intent'[g].digest = intent[g].digest
       /\ points[g] \subseteq points'[g]
  /\ \A g \in Generations : generation[g] # "" => generation'[g] # ""
  /\ \A q \in Procs \ {p} : proc[q].pc \in OwnPCs =>
       intent'[proc[q].g].status = "absent" /\ points[proc[q].g] \subseteq points'[proc[q].g]
  /\ chunks' = chunks

LEMMA OthersFit ==
  ASSUME ActInv, NEW p \in Procs, Frame(p), NEW q \in Procs \ {p}, proc'[q] = proc[q]
  PROVE  Fits(proc[q])'
<1> DEFINE me == proc[q]
<1>1. Fits(me)
  BY DEF ActInv
<1>2. me.pc \in IntentPCs => me.g \in Generations /\ HasIntent(me.g)'
  BY <1>1 DEF Fits, Frame, HasIntent
<1>3. me.pc \in OwnPCs => generation'[me.g] # "" /\ intent'[me.g].status = "absent" /\ points[me.g] \subseteq points'[me.g]
  BY <1>1 DEF Fits, Frame, HasIntent
<1>4. me.pc \in LockPCs => chunks' = intent'[me.g].digest
  BY <1>1 DEF Fits, Frame, LockPCs, IntentPCs
<1> QED
  BY <1>1, <1>2, <1>3, <1>4 DEF Fits, HasIntent

\* The parts of ActInv that a step of process p has to show for itself.
LEMMA StepParts ==
  ASSUME ActInv, NEW p \in Procs, NEW me, proc' = [proc EXCEPT ![p] = me],
         Types', Unique', Frame(p), Fits(me)',
         \A g \in Generations : ~HasIntent(g) /\ HasIntent(g)' =>
           intent'[g].digest \subseteq points'[g] /\ generation'[g] # "",
         me.pc \in OwnPCs => \A q \in Procs \ {p} : proc[q].pc \in OwnPCs => proc[q].g # me.g,
         me.pc \in LockPCs => proc[p].pc \in LockPCs \/ ~Locked
  PROVE  ActInv'
<1>1. proc'[p] = me /\ \A q \in Procs \ {p} : proc'[q] = proc[q]
  BY Moved DEF ActInv
<1>2. \A q \in Procs : Fits(proc[q])'
  <2>1. Fits(proc[p])'
    BY <1>1 DEF Fits
  <2> QED
    BY <1>1, <2>1, OthersFit
<1>3. Snapshots'
  BY DEF ActInv, Snapshots, Frame
<1>4. OneOwner'
  BY <1>1, ZenonT(40) DEF ActInv, OneOwner
<1>5. OneLock'
  <2>1. me.pc \in LockPCs => \A q \in Procs \ {p} : proc[q].pc \notin LockPCs
    BY DEF ActInv, OneLock, Locked, LockPCs
  <2> QED
    BY <1>1, <2>1 DEF ActInv, OneLock
<1> QED
  BY <1>2, <1>3, <1>4, <1>5 DEF ActInv

\* A step that leaves intents, generations, points and chunks as they are.
Quiet ==
  /\ UNCHANGED <<chunks, generation, intent, points>>
  /\ row' \in [Contents -> Embedding] /\ alias' \in Collections \cup {None}
  /\ overlap' \in BOOLEAN /\ faults' \in 0 .. MaxFaults

LEMMA MoveStep ==
  ASSUME ActInv, NEW p \in Procs, NEW me \in Process, proc' = [proc EXCEPT ![p] = me],
         Quiet, Fits(me),
         me.pc \in OwnPCs => proc[p].pc \in OwnPCs /\ me.g = proc[p].g,
         me.pc \in LockPCs => proc[p].pc \in LockPCs \/ ~Locked
  PROVE  ActInv'
<1>1. Types'
  BY DEF ActInv, Types, Quiet
<1>2. Unique'
  <2>1. Open' = Open
    BY DEF Open, Quiet
  <2> QED
    BY <2>1 DEF ActInv, Unique, Quiet
<1>3. Frame(p)
  <2>1. \A g : intent'[g].status # "absent" <=> HasIntent(g)
    BY DEF HasIntent, Quiet
  <2>2. \A q \in Procs : proc[q].pc \in OwnPCs => ~HasIntent(proc[q].g)
    BY DEF ActInv, Fits
  <2> QED
    BY <2>1, <2>2 DEF Frame, HasIntent, Quiet
<1>4. Fits(me)'
  BY DEF Fits, HasIntent, Quiet
<1>5. \A g : HasIntent(g)' <=> HasIntent(g)
  BY DEF HasIntent, Quiet
<1>6. me.pc \in OwnPCs => \A q \in Procs \ {p} : proc[q].pc \in OwnPCs => proc[q].g # me.g
  BY DEF ActInv, OneOwner
<1> QED
  BY <1>1, <1>2, <1>3, <1>4, <1>5, <1>6, StepParts

\* Where a process relies on nothing.
FreePCs == PCs \ (IntentPCs \cup OwnPCs \cup {"discard"})

LEMMA FreeFits ==
  ASSUME NEW me, me.pc \in FreePCs
  PROVE  Fits(me) /\ Fits(me)' /\ me.pc \notin OwnPCs /\ me.pc \notin LockPCs
  BY DEF Fits, FreePCs, IntentPCs, LockPCs, OwnPCs

LEMMA FreeStep ==
  ASSUME ActInv, NEW p \in Procs, NEW me \in Process, proc' = [proc EXCEPT ![p] = me], Quiet,
         me.pc \in FreePCs
  PROVE  ActInv'
  BY FreeFits, MoveStep

LEMMA ExitStep ==
  ASSUME ActInv, NEW p \in Procs, Exit(p), Quiet
  PROVE  ActInv'
<1>1. PICK me \in Process : proc' = [proc EXCEPT ![p] = me] /\ me.pc = "exited"
  BY ExitMoves
<1>2. me.pc \in FreePCs
  BY <1>1 DEF FreePCs, PCs, IntentPCs, OwnPCs
<1> QED
  BY <1>1, <1>2, FreeStep

LEMMA GoOnStep ==
  ASSUME ActInv, NEW p \in Procs, GoOn(p), Quiet
  PROVE  ActInv'
<1>1. PICK me \in Process : proc' = [proc EXCEPT ![p] = me] /\ me.pc \in {"open", "list"}
  BY GoOnMoves DEF ActInv
<1>2. me.pc \in FreePCs
  BY <1>1 DEF FreePCs, PCs, IntentPCs, OwnPCs
<1> QED
  BY <1>1, <1>2, FreeStep

\* A process that goes on with the generation it works on.
Continues(p, pc) ==
  /\ pc \in IntentPCs => proc[p].pc \in IntentPCs
  /\ pc \in OwnPCs \cup {"discard"} => proc[p].pc \in OwnPCs
  /\ pc \in OwnPCs => pc # "build" /\ proc[p].pc # "build"
  /\ pc \in LockPCs => proc[p].pc \in LockPCs \/ (~Locked /\ chunks = intent[proc[p].g].digest)

LEMMA ContinueStep ==
  ASSUME ActInv, NEW p \in Procs, NEW me \in Process, proc' = [proc EXCEPT ![p] = me], Quiet,
         me.g = proc[p].g, me.hand = proc[p].hand, Continues(p, me.pc)
  PROVE  ActInv'
<1>1. Fits(proc[p])
  BY DEF ActInv
<1>2. Fits(me)
  BY <1>1 DEF Fits, Continues
<1> QED
  BY <1>2, MoveStep DEF Continues

LEMMA ToStep ==
  ASSUME ActInv, NEW p \in Procs, NEW pc \in PCs, To(p, pc), Quiet, Continues(p, pc)
  PROVE  ActInv'
<1>1. PICK me \in Process : proc' = [proc EXCEPT ![p] = me] /\ me.pc = pc /\ me.g = proc[p].g /\ me.hand = proc[p].hand
  BY ToMoves DEF ActInv
<1> QED
  BY <1>1, ContinueStep

LEMMA Quietly ==
  ASSUME ActInv, UNCHANGED <<tables, points, overlap>>, Works \/ Breaks, alias' \in Collections \cup {None}
  PROVE  Quiet
  BY FaultsType DEF ActInv, Types, Quiet, tables

LEMMA AliasStays ==
  ASSUME ActInv, UNCHANGED <<tables, alias, points, overlap>>, Works \/ Breaks
  PROVE  Quiet
  BY Quietly DEF ActInv, Types

-------------------------------------------------------------------------------
(* Reconcile *)

LEMMA StartStep ==
  ASSUME ActInv, NEW p \in Procs, Start(p)
  PROVE  ActInv'
<1>1. PICK program \in {"server", "reindex"} : proc' = [proc EXCEPT ![p] = Fresh(program)]
  BY DEF Start, Become
<1>2. Fresh(program) \in Process /\ Fresh(program).pc \in FreePCs
  BY FreshType DEF FreePCs, PCs, IntentPCs, OwnPCs
<1>3. overlap' \in BOOLEAN
  <2>1. overlap \in BOOLEAN /\ (\E q \in Procs : proc[q].pc # "exited") \in BOOLEAN
    BY DEF ActInv, Types
  <2> QED
    BY <2>1 DEF Start
<1>4. Quiet
  BY <1>3 DEF Start, ActInv, Types, Quiet, tables
<1> DEFINE me == Fresh(program)
<1> HIDE DEF me
<1> QED
  BY <1>1, <1>2, <1>4, FreeStep

LEMMA LoadStep ==
  ASSUME ActInv, NEW p \in Procs, Load(p)
  PROVE  ActInv'
<1>1. Quiet
  BY AliasStays DEF Load
<1>2. CASE GoOn(p)
  BY <1>1, <1>2, GoOnStep
<1>3. ASSUME NEW g \in Open, Become(p, [proc[p] EXCEPT !.pc = "status", !.g = g])
      PROVE  ActInv'
  <2> DEFINE me == [proc[p] EXCEPT !.pc = "status", !.g = g]
  <2>1. g \in Generations /\ HasIntent(g) /\ g \in 0 .. MaxGenerations
    BY Bounds DEF Open, HasIntent
  <2>2. me \in Process /\ me.pc = "status" /\ me.g = g
    BY <2>1, ProcessParts, ZenonT(40) DEF ActInv, Process, PCs
  <2>3. proc' = [proc EXCEPT ![p] = me]
    BY <1>3 DEF Become
  <2> HIDE DEF me
  <2>4. Fits(me) /\ me.pc \notin OwnPCs /\ me.pc \notin LockPCs
    BY <2>1, <2>2 DEF Fits, OwnPCs, LockPCs
  <2> QED
    BY <1>1, <2>2, <2>3, <2>4, MoveStep
<1>4. CASE Exit(p)
  BY <1>1, <1>4, ExitStep
<1> QED
  BY <1>2, <1>3, <1>4 DEF Load

LEMMA StatusStep ==
  ASSUME ActInv, NEW p \in Procs, Status(p)
  PROVE  ActInv'
<1>1. Quiet
  BY AliasStays DEF Status
<1>2. CASE Become(p, [proc[p] EXCEPT !.pc = "inspect", !.status = generation[proc[p].g]])
  <2> DEFINE me == [proc[p] EXCEPT !.pc = "inspect", !.status = generation[proc[p].g]]
  <2>1. proc[p].g \in Generations
    BY DEF ActInv, Fits, IntentPCs, Status
  <2>2. generation[proc[p].g] \in Statuses
    BY <2>1 DEF ActInv, Types
  <2>3. me \in Process /\ me.pc = "inspect" /\ me.g = proc[p].g /\ me.hand = proc[p].hand
    BY <2>2, ProcessParts, ZenonT(40) DEF ActInv, Process, PCs, Statuses
  <2>4. proc' = [proc EXCEPT ![p] = me]
    BY <1>2 DEF Become
  <2> HIDE DEF me
  <2>5. Continues(p, me.pc)
    BY <2>3 DEF Continues, Status, IntentPCs, OwnPCs, LockPCs
  <2> QED
    BY <1>1, <2>3, <2>4, <2>5, ContinueStep
<1>3. CASE Exit(p)
  BY <1>1, <1>3, ExitStep
<1> QED
  BY <1>2, <1>3 DEF Status

LEMMA InspectStep ==
  ASSUME ActInv, NEW p \in Procs, Inspect(p)
  PROVE  ActInv'
<1> DEFINE next == IF proc[p].status = "active" /\ alias = proc[p].g THEN "complete"
                   ELSE IF proc[p].status = "ready" THEN "validate" ELSE "fail_intent"
<1>1. Quiet
  BY AliasStays DEF Inspect
<1>2. CASE Become(p, [proc[p] EXCEPT !.pc = next, !.current = alias])
  <2> DEFINE me == [proc[p] EXCEPT !.pc = next, !.current = alias]
  <2>1. next \in {"complete", "validate", "fail_intent"} /\ next \in PCs
    BY DEF PCs
  <2>2. proc' = [proc EXCEPT ![p] = me]
    BY <1>2 DEF Become
  <2>3. me \in Process /\ me.pc = next /\ me.g = proc[p].g /\ me.hand = proc[p].hand
    <3> HIDE DEF next
    <3> QED
      BY <2>1, ProcessParts DEF ActInv, Types, Process
  <2> HIDE DEF me, next
  <2>4. Continues(p, me.pc)
    BY <2>1, <2>3 DEF Continues, Inspect, IntentPCs, OwnPCs, LockPCs
  <2> QED
    BY <1>1, <2>2, <2>3, <2>4, ContinueStep
<1>3. CASE Exit(p)
  BY <1>1, <1>3, ExitStep
<1> QED
  BY <1>2, <1>3 DEF Inspect

LEMMA ValidateStep ==
  ASSUME ActInv, NEW p \in Procs, Validate(p)
  PROVE  ActInv'
<1>1. Quiet
  BY AliasStays DEF Validate
<1>2. PICK pc \in {"begin", "fail_intent"} : To(p, pc)
  BY DEF Validate
<1>3. Continues(p, pc) /\ pc \in PCs
  BY <1>2 DEF Continues, Validate, IntentPCs, OwnPCs, LockPCs, PCs
<1> QED
  BY <1>1, <1>2, <1>3, ToStep

-------------------------------------------------------------------------------
(* finalizeDurableActivation *)

LEMMA BeginStep ==
  ASSUME ActInv, NEW p \in Procs, Begin(p)
  PROVE  ActInv'
<1>1. Quiet
  BY AliasStays DEF Begin
<1>2. CASE chunks = intent[proc[p].g].digest /\ To(p, "switch")
  <2>1. Continues(p, "switch") /\ "switch" \in PCs
    BY <1>2 DEF Continues, Begin, IntentPCs, OwnPCs, LockPCs, PCs
  <2> QED
    BY <1>1, <1>2, <2>1, ToStep
<1>3. CASE Become(p, [proc[p] EXCEPT !.changed = TRUE,
                        !.pc = IF proc[p].current = proc[p].g THEN "restore" ELSE "fail_generation"])
  <2> DEFINE pc == IF proc[p].current = proc[p].g THEN "restore" ELSE "fail_generation"
             me == [proc[p] EXCEPT !.changed = TRUE, !.pc = pc]
  <2>1. pc \in {"restore", "fail_generation"} /\ pc \in PCs
    BY DEF PCs
  <2>2. proc' = [proc EXCEPT ![p] = me]
    BY <1>3 DEF Become
  <2>3. me \in Process /\ me.pc = pc /\ me.g = proc[p].g /\ me.hand = proc[p].hand
    <3> HIDE DEF pc
    <3> QED
      BY <2>1, ProcessParts DEF ActInv, Process
  <2> HIDE DEF me, pc
  <2>4. Continues(p, me.pc)
    BY <2>1, <2>3 DEF Continues, Begin, IntentPCs, OwnPCs, LockPCs
  <2> QED
    BY <1>1, <2>2, <2>3, <2>4, ContinueStep
<1>4. CASE To(p, "fail_intent")
  <2>1. Continues(p, "fail_intent") /\ "fail_intent" \in PCs
    BY DEF Continues, Begin, IntentPCs, OwnPCs, LockPCs, PCs
  <2> QED
    BY <1>1, <1>4, <2>1, ToStep
<1> QED
  BY <1>2, <1>3, <1>4 DEF Begin

\* ActivateExpected succeeds.
LEMMA SwitchedStep ==
  ASSUME ActInv, NEW p \in Procs, proc[p].pc \in {"switch", "update"}, Become(p, Switched(proc[p])), Quiet
  PROVE  ActInv'
<1> DEFINE me == Switched(proc[p])
<1>1. proc[p].g \in Collections
  BY Bounds DEF ActInv, Fits, IntentPCs
<1>2. me \in Process /\ me.pc = "commit" /\ me.g = proc[p].g /\ me.hand = proc[p].hand
  BY <1>1, ProcessParts, ZenonT(40) DEF ActInv, Process, PCs, Switched
<1>3. proc' = [proc EXCEPT ![p] = me]
  BY DEF Become
<1> HIDE DEF me
<1>4. Continues(p, me.pc)
  BY <1>2 DEF Continues, IntentPCs, OwnPCs, LockPCs
<1> QED
  BY <1>2, <1>3, <1>4, ContinueStep

LEMMA SwitchStep ==
  ASSUME ActInv, NEW p \in Procs, Switch(p)
  PROVE  ActInv'
<1>1. Quiet
  BY AliasStays DEF Switch
<1>2. CASE Become(p, Switched(proc[p]))
  BY <1>1, <1>2, SwitchedStep DEF Switch
<1>3. ASSUME NEW pc \in {"commit", "update", "fail_intent"}, To(p, pc)
      PROVE  ActInv'
  <2>1. Continues(p, pc) /\ pc \in PCs
    BY DEF Continues, Switch, IntentPCs, OwnPCs, LockPCs, PCs
  <2> QED
    BY <1>1, <1>3, <2>1, ToStep
<1> QED
  BY <1>2, <1>3 DEF Switch

LEMMA UpdateStep ==
  ASSUME ActInv, NEW p \in Procs, Update(p)
  PROVE  ActInv'
<1>1. Quiet
  <2>1. proc[p].g \in Collections
    BY Bounds DEF ActInv, Fits, IntentPCs, Update
  <2> QED
    BY <2>1, Quietly DEF Update, ActInv, Types
<1>2. CASE Become(p, Switched(proc[p]))
  BY <1>1, <1>2, SwitchedStep DEF Update
<1>3. CASE To(p, "fail_intent")
  <2>1. Continues(p, "fail_intent") /\ "fail_intent" \in PCs
    BY DEF Continues, Update, IntentPCs, OwnPCs, LockPCs, PCs
  <2> QED
    BY <1>1, <1>3, <2>1, ToStep
<1> QED
  BY <1>2, <1>3 DEF Update

LEMMA RestoreStep ==
  ASSUME ActInv, NEW p \in Procs, Restore(p) \/ Unswitch(p)
  PROVE  ActInv'
<1>1. Quiet
  <2>1. CASE Restore(p)
    BY <2>1, AliasStays DEF Restore
  <2>2. CASE Unswitch(p)
    <3>1. intent[proc[p].g].previous \in Collections \cup {None}
      BY <2>2, IntentParts DEF ActInv, Fits, IntentPCs, Unswitch
    <3> QED
      BY <2>2, <3>1, Quietly DEF Unswitch, ActInv, Types
  <2> QED
    BY <2>1, <2>2
<1>2. PICK pc \in {"fail_generation", "fail_intent", "unswitch"} : To(p, pc)
  BY DEF Restore, Unswitch, Restored
<1>3. Continues(p, pc) /\ pc \in PCs
  BY DEF Continues, Restore, Unswitch, IntentPCs, OwnPCs, LockPCs, PCs
<1> QED
  BY <1>1, <1>2, <1>3, ToStep

-------------------------------------------------------------------------------
(* The status of an intent *)

\* The intent that p works with gets another status, which opens no second one.
LEMMA IntentStep ==
  ASSUME ActInv, NEW p \in Procs, NEW me \in Process, proc' = [proc EXCEPT ![p] = me],
         NEW s \in {"completed", "alias_switched", "failed", "superseded"},
         proc[p].pc \in IntentPCs, intent' = IntentIs(proc[p].g, s),
         s \in {"completed", "superseded"} \/ OnlyOpen(proc[p].g),
         Types', chunks' = chunks, points' = points,
         \A h \in Generations : generation[h] # "" => generation'[h] # "",
         \A h, k \in Generations : generation'[h] = "active" /\ generation'[k] = "active" => h = k,
         me.pc \notin OwnPCs \cup LockPCs, Fits(me)'
  PROVE  ActInv'
<1> DEFINE g == proc[p].g
<1>1. g \in Generations /\ HasIntent(g)
  BY DEF ActInv, Fits
<1>2. /\ intent'[g].status = s /\ intent'[g].digest = intent[g].digest
      /\ \A h \in Generations \ {g} : intent'[h] = intent[h]
  BY <1>1, IntentMoves DEF ActInv
<1>3. \A h \in Generations : HasIntent(h)' <=> HasIntent(h)
  BY <1>1, <1>2 DEF HasIntent
<1>4. \A h, k \in Open' : h = k
  <2>1. CASE s \in {"completed", "superseded"}
    <3>1. Open' \subseteq Open
      BY <1>1, <1>2, <2>1 DEF Open
    <3> QED
      BY <3>1 DEF ActInv, Unique
  <2>2. CASE OnlyOpen(g)
    <3>1. Open' \subseteq {g}
      BY <1>1, <1>2, <2>2 DEF Open, OnlyOpen
    <3> QED
      BY <3>1
  <2> QED
    BY <2>1, <2>2
<1>5. Unique'
  BY <1>4 DEF Unique
<1>6. Frame(p)
  <2>1. \A q \in Procs \ {p} : proc[q].pc \in OwnPCs => proc[q].g \in Generations /\ ~HasIntent(proc[q].g)
    BY DEF ActInv, Fits
  <2>2. \A q \in Procs \ {p} : proc[q].pc \in OwnPCs => intent'[proc[q].g].status = "absent"
    BY <1>3, <2>1 DEF HasIntent
  <2>3. \A h \in Generations : intent'[h].digest = intent[h].digest
    BY <1>2
  <2> QED
    BY <1>3, <2>2, <2>3 DEF Frame
<1> QED
  BY <1>3, <1>5, <1>6, StepParts

\* Types after a step that changes intents only.
LEMMA IntentTypes ==
  ASSUME Types, NEW p \in Procs, NEW me \in Process, proc' = [proc EXCEPT ![p] = me], Works \/ Breaks,
         intent' \in [Generations -> Intent], UNCHANGED <<chunks, row, generation, alias, points, overlap>>
  PROVE  Types'
  BY FaultsType DEF Types

LEMMA CompleteStep ==
  ASSUME ActInv, NEW p \in Procs, Complete(p)
  PROVE  ActInv'
<1>1. PICK me \in Process : proc' = [proc EXCEPT ![p] = me] /\ me.pc \in {"exited", "open", "list"}
  BY GoOnMoves, ExitMoves DEF ActInv, Complete
<1>2. me.pc \in FreePCs /\ proc[p].pc \in IntentPCs /\ proc[p].g \in Generations
  BY <1>1 DEF FreePCs, PCs, IntentPCs, OwnPCs, Complete, ActInv, Fits
<1>3. CASE intent' = IntentIs(proc[p].g, "completed")
  <2>1. intent' \in [Generations -> Intent]
    BY <1>2, <1>3, IntentMoves DEF ActInv
  <2>2. Types'
    BY <1>1, <2>1, IntentTypes DEF ActInv, Complete
  <2>3. generation' = generation /\ chunks' = chunks /\ points' = points
    BY DEF Complete
  <2>4. \A h, k \in Generations : generation'[h] = "active" /\ generation'[k] = "active" => h = k
    BY <2>3 DEF ActInv, Unique
  <2> QED
    BY <1>1, <1>2, <1>3, <2>2, <2>3, <2>4, FreeFits, IntentStep
<1>4. CASE intent' = intent
  <2>1. Quiet
    BY <1>4, AliasStays DEF Complete, tables
  <2> QED
    BY <1>1, <1>2, <2>1, FreeStep
<1> QED
  BY <1>3, <1>4 DEF Complete

LEMMA EndIntentStep ==
  ASSUME ActInv, NEW p \in Procs, Supersede(p) \/ FailIntent(p)
  PROVE  ActInv'
<1>1. PICK me \in Process : proc' = [proc EXCEPT ![p] = me] /\ me.pc = "exited"
  BY ExitMoves DEF Supersede, FailIntent
<1>2. me.pc \in FreePCs /\ proc[p].pc \in IntentPCs /\ proc[p].g \in Generations
  BY <1>1 DEF FreePCs, PCs, IntentPCs, OwnPCs, Supersede, FailIntent, ActInv, Fits
<1>3. ASSUME NEW s \in {"superseded", "failed"}, intent' = IntentIs(proc[p].g, s),
             s = "failed" => OnlyOpen(proc[p].g)
      PROVE  ActInv'
  <2>1. intent' \in [Generations -> Intent]
    BY <1>2, <1>3, IntentMoves DEF ActInv
  <2>2. Types'
    BY <1>1, <2>1, IntentTypes DEF ActInv, Supersede, FailIntent
  <2>3. generation' = generation /\ chunks' = chunks /\ points' = points
    BY DEF Supersede, FailIntent
  <2>4. \A h, k \in Generations : generation'[h] = "active" /\ generation'[k] = "active" => h = k
    BY <2>3 DEF ActInv, Unique
  <2> QED
    BY <1>1, <1>2, <1>3, <2>2, <2>3, <2>4, FreeFits, IntentStep
<1>4. CASE intent' = intent
  <2>1. Quiet
    BY <1>4, AliasStays DEF Supersede, FailIntent, tables
  <2> QED
    BY <1>1, <1>2, <2>1, FreeStep
<1> QED
  BY <1>3, <1>4 DEF Supersede, FailIntent

LEMMA CommitStep ==
  ASSUME ActInv, NEW p \in Procs, Commit(p)
  PROVE  ActInv'
<1>1. PICK pc \in {"restore", "fail_intent", "complete"} : To(p, pc)
  BY DEF Commit
<1>2. PICK me \in Process : /\ proc' = [proc EXCEPT ![p] = me]
                            /\ me.pc = pc /\ me.g = proc[p].g /\ me.hand = proc[p].hand
  <2>1. pc \in PCs
    BY DEF PCs
  <2> QED
    BY <1>1, <2>1, ToMoves DEF ActInv
<1>3. proc[p].pc \in IntentPCs /\ proc[p].g \in Generations /\ HasIntent(proc[p].g)
  BY DEF IntentPCs, Commit, ActInv, Fits
<1>4. CASE OnlyOpen(proc[p].g) /\ Finalize(proc[p].g)
  <2> DEFINE g == proc[p].g
  <2>1. /\ intent' = IntentIs(g, "alias_switched") /\ intent' \in [Generations -> Intent]
        /\ intent'[g].status = "alias_switched"
    BY <1>3, <1>4, IntentMoves DEF ActInv, Finalize, MarkAliasSwitched
  <2>2. /\ generation' \in [Generations -> Statuses]
        /\ \A h \in Generations : generation'[h] = IF h = g THEN "active"
             ELSE IF generation[h] = "active" THEN "retired" ELSE generation[h]
    BY <1>3, <1>4 DEF Finalize, ActivateGeneration, RetireActive, ActInv, Types, Statuses
  <2>3. row' \in [Contents -> Embedding]
    <3>1. [at |-> g, done |-> TRUE] \in Embedding
      BY <1>3, Bounds DEF Embedding
    <3>2. row' = [c \in Contents |-> IF c \in chunks THEN [at |-> g, done |-> TRUE] ELSE row[c]]
      BY <1>4 DEF Finalize, MarkChunks
    <3> QED
      BY <3>1, <3>2 DEF ActInv, Types
  <2>4. Types'
    BY <1>2, <2>1, <2>2, <2>3, FaultsType DEF ActInv, Types, Commit
  <2>5. Fits(me)' /\ me.pc \notin OwnPCs \cup LockPCs
    BY <1>2, <1>3, <2>1 DEF Fits, OwnPCs, LockPCs, IntentPCs, HasIntent
  <2>6. chunks' = chunks /\ points' = points
    BY DEF Commit
  <2>7. \A h \in Generations : generation[h] # "" => generation'[h] # ""
    BY <2>2
  <2>8. \A h, k \in Generations : generation'[h] = "active" /\ generation'[k] = "active" => h = k
    BY <2>2
  <2> QED
    BY <1>2, <1>3, <1>4, <2>1, <2>4, <2>5, <2>6, <2>7, <2>8, IntentStep
<1>5. CASE UNCHANGED <<intent, generation, row>>
  <2>1. Quiet
    BY <1>5, AliasStays DEF Commit, tables
  <2>2. Continues(p, pc) /\ pc \in PCs
    BY DEF Continues, Commit, IntentPCs, OwnPCs, LockPCs, PCs
  <2> QED
    BY <1>1, <2>1, <2>2, ToStep
<1> QED
  BY <1>4, <1>5 DEF Commit

-------------------------------------------------------------------------------
(* The status of a generation *)

\* Generations change, keep existing, and no second one becomes active.
LEMMA GenerationStep ==
  ASSUME ActInv, NEW p \in Procs, NEW me \in Process, proc' = [proc EXCEPT ![p] = me], Works \/ Breaks,
         generation' \in [Generations -> Statuses],
         \A h \in Generations : generation[h] # "" => generation'[h] # "",
         \A h \in Generations : generation'[h] = "active" => generation[h] = "active",
         UNCHANGED <<chunks, row, intent, alias, points, overlap>>,
         Fits(me)', me.pc \notin LockPCs,
         me.pc \in OwnPCs => \A q \in Procs \ {p} : proc[q].pc \in OwnPCs => proc[q].g # me.g
  PROVE  ActInv'
<1>1. Types'
  BY FaultsType DEF ActInv, Types
<1>2. Unique'
  <2>1. Open' = Open
    BY DEF Open
  <2> QED
    BY <2>1 DEF ActInv, Unique
<1>3. \A h : intent'[h].status # "absent" <=> HasIntent(h)
  BY DEF HasIntent
<1>4. Frame(p)
  <2>1. \A q \in Procs : proc[q].pc \in OwnPCs => ~HasIntent(proc[q].g)
    BY DEF ActInv, Fits
  <2> QED
    BY <1>3, <2>1 DEF Frame, HasIntent
<1> QED
  BY <1>1, <1>2, <1>3, <1>4, StepParts DEF HasIntent

LEMMA FailedGeneration ==
  ASSUME ActInv, NEW g \in Generations, Failed(g)
  PROVE  /\ generation' \in [Generations -> Statuses]
         /\ \A h \in Generations : generation[h] # "" => generation'[h] # ""
         /\ \A h \in Generations : generation'[h] = "active" => generation[h] = "active"
  BY DEF ActInv, Types, Failed, Statuses

LEMMA FailGenerationStep ==
  ASSUME ActInv, NEW p \in Procs, FailGeneration(p)
  PROVE  ActInv'
<1>1. "supersede" \in PCs /\ Continues(p, "supersede")
  BY DEF PCs, Continues, FailGeneration, IntentPCs, OwnPCs, LockPCs
<1>2. CASE Failed(proc[p].g)
  <2>1. proc[p].g \in Generations /\ HasIntent(proc[p].g)
    BY DEF ActInv, Fits, FailGeneration, IntentPCs
  <2>2. PICK me \in Process : proc' = [proc EXCEPT ![p] = me] /\ me.pc = "supersede" /\ me.g = proc[p].g
    BY <1>1, ToMoves DEF ActInv, FailGeneration
  <2>3. Fits(me)' /\ me.pc \notin OwnPCs /\ me.pc \notin LockPCs
    BY <2>1, <2>2 DEF Fits, FailGeneration, OwnPCs, LockPCs, HasIntent
  <2>4. (Works \/ Breaks) /\ UNCHANGED <<chunks, row, intent, alias, points, overlap>>
    BY DEF FailGeneration
  <2> QED
    BY <1>2, <2>1, <2>2, <2>3, <2>4, FailedGeneration, GenerationStep
<1>3. CASE UNCHANGED generation
  <2>1. Quiet
    BY <1>3, AliasStays DEF FailGeneration, tables
  <2> QED
    BY <1>1, <2>1, ToStep DEF FailGeneration
<1> QED
  BY <1>2, <1>3 DEF FailGeneration

LEMMA DiscardStep ==
  ASSUME ActInv, NEW p \in Procs, Discard(p)
  PROVE  ActInv'
<1>1. CASE Failed(proc[p].g)
  <2>1. proc[p].g \in Generations
    BY DEF ActInv, Fits, Discard
  <2>2. PICK me \in Process : proc' = [proc EXCEPT ![p] = me] /\ me.pc = "exited"
    BY ExitMoves DEF Discard
  <2>3. me.pc \in FreePCs
    BY <2>2 DEF FreePCs, PCs, IntentPCs, OwnPCs
  <2>4. (Works \/ Breaks) /\ UNCHANGED <<chunks, row, intent, alias, points, overlap>>
    BY DEF Discard
  <2> QED
    BY <1>1, <2>1, <2>2, <2>3, <2>4, FreeFits, FailedGeneration, GenerationStep
<1>2. CASE UNCHANGED generation
  <2>1. Quiet
    BY <1>2, AliasStays DEF Discard, tables
  <2> QED
    BY <2>1, ExitStep DEF Discard
<1> QED
  BY <1>1, <1>2 DEF Discard

-------------------------------------------------------------------------------
(* Run *)

LEMMA ListStep ==
  ASSUME ActInv, NEW p \in Procs, List(p)
  PROVE  ActInv'
<1>1. Quiet
  BY AliasStays DEF List
<1>2. CASE Exit(p)
  BY <1>1, <1>2, ExitStep
<1>3. CASE Become(p, [proc[p] EXCEPT !.pc = "create", !.hand = chunks])
  <2> DEFINE me == [proc[p] EXCEPT !.pc = "create", !.hand = chunks]
  <2>1. me \in Process /\ me.pc = "create"
    <3>1. chunks \in SUBSET Contents /\ "create" \in PCs
      BY DEF ActInv, Types, PCs
    <3> QED
      BY <3>1, ProcessParts DEF ActInv, Process
  <2>2. proc' = [proc EXCEPT ![p] = me]
    BY <1>3 DEF Become
  <2> HIDE DEF me
  <2>3. me.pc \in FreePCs
    BY <2>1 DEF FreePCs, PCs, IntentPCs, OwnPCs
  <2> QED
    BY <1>1, <2>1, <2>2, <2>3, FreeStep
<1> QED
  BY <1>2, <1>3 DEF List

LEMMA CreateStep ==
  ASSUME ActInv, NEW p \in Procs, Create(p)
  PROVE  ActInv'
<1>1. PICK g \in Generations :
        /\ generation[g] = ""
        /\ \/ /\ Works
              /\ generation' = CreateEmbeddingGeneration(g)
              /\ Become(p, [proc[p] EXCEPT !.pc = IF proc[p].phys = None THEN "build" ELSE "discard",
                              !.own = TRUE, !.g = g])
           \/ /\ Breaks /\ Exit(p)
              /\ generation' \in {generation, CreateEmbeddingGeneration(g)}
  BY DEF Create
<1>2. UNCHANGED <<chunks, row, intent, alias, points, overlap>> /\ (Works \/ Breaks)
  BY DEF Create
<1>3. generation' \in {generation, CreateEmbeddingGeneration(g)} =>
        /\ generation' \in [Generations -> Statuses]
        /\ \A h \in Generations : generation[h] # "" => generation'[h] # ""
        /\ \A h \in Generations : generation'[h] = "active" => generation[h] = "active"
  BY DEF ActInv, Types, Statuses, CreateEmbeddingGeneration
<1>4. CASE /\ generation' = CreateEmbeddingGeneration(g)
           /\ Become(p, [proc[p] EXCEPT !.pc = IF proc[p].phys = None THEN "build" ELSE "discard",
                           !.own = TRUE, !.g = g])
  <2> DEFINE pc == IF proc[p].phys = None THEN "build" ELSE "discard"
             me == [proc[p] EXCEPT !.pc = pc, !.own = TRUE, !.g = g]
  <2>1. pc \in {"build", "discard"} /\ pc \in PCs /\ g \in 0 .. MaxGenerations
    BY Bounds DEF PCs
  <2>2. proc' = [proc EXCEPT ![p] = me]
    BY <1>4 DEF Become
  <2>3. me \in Process /\ me.pc = pc /\ me.g = g
    <3> HIDE DEF pc
    <3> QED
      BY <2>1, ProcessParts DEF ActInv, Process
  <2> HIDE DEF me, pc
  <2>4. PICK you \in Process : proc' = [proc EXCEPT ![p] = you] /\ you.pc \in {"build", "discard"} /\ you.g = g
    BY <2>1, <2>2, <2>3
  <2>5. generation'[g] # "" /\ intent'[g].status = "absent"
    <3>1. intent[g].status = "absent"
      BY <1>1 DEF ActInv, Snapshots, HasIntent
    <3>2. generation'[g] = "building"
      BY <1>4 DEF ActInv, Types, CreateEmbeddingGeneration
    <3> QED
      BY <1>2, <3>1, <3>2
  <2>6. Fits(you)' /\ you.pc \notin LockPCs
    BY <2>4, <2>5 DEF Fits, IntentPCs, OwnPCs, LockPCs, HasIntent
  <2>7. \A q \in Procs \ {p} : proc[q].pc \in OwnPCs => proc[q].g # you.g
    BY <1>1, <2>4 DEF ActInv, Fits
  <2> QED
    BY <1>2, <1>3, <1>4, <2>4, <2>6, <2>7, GenerationStep
<1>5. CASE Exit(p) /\ generation' \in {generation, CreateEmbeddingGeneration(g)}
  <2>1. PICK me \in Process : proc' = [proc EXCEPT ![p] = me] /\ me.pc = "exited"
    BY <1>5, ExitMoves
  <2>2. me.pc \in FreePCs
    BY <2>1 DEF FreePCs, PCs, IntentPCs, OwnPCs
  <2> QED
    BY <1>2, <1>3, <1>5, <2>1, <2>2, FreeFits, GenerationStep
<1> QED
  BY <1>1, <1>4, <1>5

\* Another process does not fill the collection of p's generation.
LEMMA OwnAlone ==
  ASSUME ActInv, NEW p \in Procs, proc[p].pc \in OwnPCs
  PROVE  /\ proc[p].g \in Generations /\ generation[proc[p].g] # "" /\ intent[proc[p].g].status = "absent"
         /\ \A q \in Procs \ {p} : proc[q].pc \in OwnPCs => proc[q].g # proc[p].g
  BY DEF ActInv, Fits, OneOwner, HasIntent

LEMMA BuildStep ==
  ASSUME ActInv, NEW p \in Procs, Build(p)
  PROVE  ActInv'
<1> DEFINE g == proc[p].g
<1>1. /\ g \in Generations /\ g \in Collections /\ generation[g] # "" /\ intent[g].status = "absent"
      /\ \A q \in Procs \ {p} : proc[q].pc \in OwnPCs => proc[q].g # g
  BY OwnAlone, Bounds DEF Build, OwnPCs
<1>2. PICK S \in SUBSET proc[p].hand : points' = [points EXCEPT ![g] = S]
  BY DEF Build
<1>3. S \in SUBSET Contents /\ points' \in [Collections -> SUBSET Contents]
  BY <1>1, <1>2, ProcessParts DEF ActInv, Types
<1>4. \A h \in Collections : points'[h] = IF h = g THEN S ELSE points[h]
  BY <1>1, <1>2 DEF ActInv, Types
<1>5. PICK me \in Process : /\ proc' = [proc EXCEPT ![p] = me] /\ me.g = g /\ me.hand = proc[p].hand
                            /\ me.pc = "discard" \/ (me.pc = "ready" /\ points'[g] = proc[p].hand)
  <2>1. CASE To(p, "discard")
    <3>1. "discard" \in PCs
      BY DEF PCs
    <3> QED
      BY <2>1, <3>1, ToMoves DEF ActInv
  <2>2. CASE /\ points' = [points EXCEPT ![g] = proc[p].hand]
             /\ Become(p, [proc[p] EXCEPT !.pc = "ready", !.phys = g])
    <3> DEFINE me == [proc[p] EXCEPT !.pc = "ready", !.phys = g]
    <3>1. me \in Process /\ me.pc = "ready" /\ me.g = g /\ me.hand = proc[p].hand
      <4>1. g \in Collections \cup {None} /\ "ready" \in PCs
        BY <1>1 DEF PCs
      <4> QED
        BY <4>1, ProcessParts DEF ActInv, Process
    <3>2. proc' = [proc EXCEPT ![p] = me]
      BY <2>2 DEF Become
    <3>3. points'[g] = proc[p].hand
      BY <1>1, <2>2 DEF ActInv, Types
    <3> HIDE DEF me
    <3> QED
      BY <3>1, <3>2, <3>3
  <2> QED
    BY <2>1, <2>2 DEF Build
<1>6. UNCHANGED <<chunks, row, generation, intent, alias, overlap>> /\ (Works \/ Breaks)
  BY DEF Build, tables
<1>7. Types'
  BY <1>3, <1>5, <1>6, FaultsType DEF ActInv, Types
<1>8. Unique'
  <2>1. Open' = Open
    BY <1>6 DEF Open
  <2> QED
    BY <1>6, <2>1 DEF ActInv, Unique
<1>9. \A h : intent'[h].status # "absent" <=> HasIntent(h)
  BY <1>6 DEF HasIntent
<1>10. Frame(p)
  <2>1. \A q \in Procs : proc[q].pc \in OwnPCs => proc[q].g \in Generations /\ ~HasIntent(proc[q].g)
    BY DEF ActInv, Fits
  <2>2. \A h \in Generations \ {g} : points'[h] = points[h]
    BY <1>4, Bounds
  <2> QED
    BY <1>1, <1>6, <1>9, <2>1, <2>2 DEF Frame, HasIntent
<1>11. Fits(me)' /\ me.pc \notin LockPCs
  BY <1>1, <1>5, <1>6 DEF Fits, IntentPCs, OwnPCs, LockPCs, HasIntent
<1>12. me.pc \in OwnPCs => \A q \in Procs \ {p} : proc[q].pc \in OwnPCs => proc[q].g # me.g
  BY <1>1, <1>5
<1> QED
  BY <1>5, <1>7, <1>8, <1>9, <1>10, <1>11, <1>12, StepParts DEF HasIntent

LEMMA ReadyStep ==
  ASSUME ActInv, NEW p \in Procs, Ready(p)
  PROVE  ActInv'
<1>1. PICK pc \in {"previous", "discard"} : To(p, pc)
  BY DEF Ready
<1>2. PICK me \in Process : /\ proc' = [proc EXCEPT ![p] = me]
                            /\ me.pc = pc /\ me.g = proc[p].g /\ me.hand = proc[p].hand
  <2>1. pc \in PCs
    BY DEF PCs
  <2> QED
    BY <1>1, <2>1, ToMoves DEF ActInv
<1>3. /\ proc[p].g \in Generations /\ generation[proc[p].g] # "" /\ intent[proc[p].g].status = "absent"
      /\ \A q \in Procs \ {p} : proc[q].pc \in OwnPCs => proc[q].g # proc[p].g
  BY OwnAlone DEF Ready, OwnPCs
<1>4. generation' \in {generation, MarkEmbeddingGenerationReady(proc[p].g)}
  BY DEF Ready
<1>5. CASE generation' = MarkEmbeddingGenerationReady(proc[p].g)
  <2>1. /\ generation' \in [Generations -> Statuses]
        /\ \A h \in Generations : generation[h] # "" => generation'[h] # ""
        /\ \A h \in Generations : generation'[h] = "active" => generation[h] = "active"
    BY <1>3, <1>5 DEF ActInv, Types, Statuses, MarkEmbeddingGenerationReady
  <2>2. UNCHANGED <<chunks, row, intent, alias, points, overlap>> /\ (Works \/ Breaks)
    BY DEF Ready
  <2>3. proc[p].hand \subseteq points[proc[p].g]
    BY DEF ActInv, Fits, Ready, OwnPCs
  <2>4. Fits(me)' /\ me.pc \notin LockPCs
    BY <1>2, <1>3, <2>1, <2>2, <2>3 DEF Fits, IntentPCs, OwnPCs, LockPCs, HasIntent
  <2> QED
    BY <1>2, <1>3, <2>1, <2>2, <2>4, GenerationStep
<1>6. CASE generation' = generation
  <2>1. Quiet
    BY <1>6, AliasStays DEF Ready, tables
  <2>2. Continues(p, pc) /\ pc \in PCs
    BY DEF Continues, Ready, IntentPCs, OwnPCs, LockPCs, PCs
  <2> QED
    BY <1>1, <2>1, <2>2, ToStep
<1> QED
  BY <1>4, <1>5, <1>6

LEMMA PreviousStep ==
  ASSUME ActInv, NEW p \in Procs, Previous(p)
  PROVE  ActInv'
<1>1. Quiet
  BY AliasStays DEF Previous
<1>2. CASE Become(p, [proc[p] EXCEPT !.pc = "intend", !.current = alias])
  <2> DEFINE me == [proc[p] EXCEPT !.pc = "intend", !.current = alias]
  <2>0. Types /\ proc[p] \in Process /\ alias \in Collections \cup {None}
    BY ProcessParts DEF ActInv, Types
  <2>1. me \in Process /\ me.pc = "intend" /\ me.g = proc[p].g /\ me.hand = proc[p].hand
    BY <2>0 DEF Process, PCs
  <2>2. proc' = [proc EXCEPT ![p] = me]
    BY <1>2 DEF Become
  <2> HIDE DEF me
  <2>3. Continues(p, me.pc)
    BY <2>1 DEF Continues, Previous, IntentPCs, OwnPCs, LockPCs
  <2> QED
    BY <1>1, <2>1, <2>2, <2>3, ContinueStep
<1>3. CASE To(p, "discard")
  <2>1. Continues(p, "discard") /\ "discard" \in PCs
    BY DEF Continues, Previous, IntentPCs, OwnPCs, LockPCs, PCs
  <2> QED
    BY <1>1, <1>3, <2>1, ToStep
<1> QED
  BY <1>2, <1>3 DEF Previous

\* The intent holds what its process filled the collection with.
LEMMA IntendStep ==
  ASSUME ActInv, NEW p \in Procs, Intend(p)
  PROVE  ActInv'
<1> DEFINE g == proc[p].g
           i == [status |-> "pending", previous |-> proc[p].current, digest |-> proc[p].hand]
<1>1. /\ g \in Generations /\ generation[g] # "" /\ intent[g].status = "absent"
      /\ \A q \in Procs \ {p} : proc[q].pc \in OwnPCs => proc[q].g # g
  BY OwnAlone DEF Intend, OwnPCs
<1>2. CASE UNCHANGED intent
  <2>1. Quiet
    BY <1>2, AliasStays DEF Intend, tables
  <2>2. To(p, "discard") \/ intent' = CreateEmbeddingActivationIntent(p)
    BY DEF Intend
  <2>3. intent' # CreateEmbeddingActivationIntent(p)
    <3>1. CreateEmbeddingActivationIntent(p)[g].status = "pending"
      BY <1>1 DEF CreateEmbeddingActivationIntent, ActInv, Types
    <3> QED
      BY <1>1, <1>2, <3>1
  <2>4. Continues(p, "discard") /\ "discard" \in PCs
    BY DEF Continues, Intend, IntentPCs, OwnPCs, LockPCs, PCs
  <2> QED
    BY <2>1, <2>2, <2>3, <2>4, ToStep
<1>3. CASE Open = {} /\ intent' = CreateEmbeddingActivationIntent(p)
  <2>1. i \in Intent /\ i.status = "pending" /\ i.digest = proc[p].hand
    BY ProcessParts DEF ActInv, Intent
  <2>2. intent' = [intent EXCEPT ![g] = i]
    BY <1>3 DEF CreateEmbeddingActivationIntent
  <2>3. PICK me \in Process : /\ proc' = [proc EXCEPT ![p] = me] /\ me.g = g
                              /\ me.pc \in {"begin", "discard"}
    <3>1. CASE To(p, "discard")
      <4>1. "discard" \in PCs
        BY DEF PCs
      <4> QED
        BY <3>1, <4>1, ToMoves DEF ActInv
    <3>2. CASE Become(p, [proc[p] EXCEPT !.pc = "begin", !.hand = {}])
      <4> DEFINE me == [proc[p] EXCEPT !.pc = "begin", !.hand = {}]
      <4>1. me \in Process /\ me.pc = "begin" /\ me.g = g
        BY ProcessParts, ZenonT(40) DEF ActInv, Process, PCs
      <4>2. proc' = [proc EXCEPT ![p] = me]
        BY <3>2 DEF Become
      <4> HIDE DEF me
      <4> QED
        BY <4>1, <4>2
    <3> QED
      BY <3>1, <3>2 DEF Intend
  <2> HIDE DEF i
  <2>4. /\ intent' \in [Generations -> Intent] /\ intent'[g] = i
        /\ \A h \in Generations \ {g} : intent'[h] = intent[h]
    BY <1>1, <2>1, <2>2 DEF ActInv, Types
  <2>5. UNCHANGED <<chunks, row, generation, alias, points, overlap>> /\ (Works \/ Breaks)
    BY DEF Intend
  <2>6. Types'
    BY <2>3, <2>4, <2>5, IntentTypes DEF ActInv
  <2>7. Unique'
    <3>1. Open' \subseteq {g}
      BY <1>3, <2>4 DEF Open
    <3> QED
      BY <2>5, <3>1 DEF ActInv, Unique
  <2>8. Frame(p)
    <3>1. \A q \in Procs \ {p} : proc[q].pc \in OwnPCs =>
            proc[q].g \in Generations \ {g} /\ intent[proc[q].g].status = "absent"
      BY <1>1 DEF ActInv, Fits, HasIntent
    <3>2. \A h \in Generations : HasIntent(h) => h # g
      BY <1>1 DEF HasIntent
    <3> QED
      BY <2>4, <2>5, <3>1, <3>2 DEF Frame, HasIntent
  <2>9. proc[p].hand \subseteq points[g]
    BY DEF ActInv, Fits, Intend, OwnPCs
  <2>10. Fits(me)' /\ me.pc \notin OwnPCs /\ me.pc \notin LockPCs
    BY <1>1, <2>1, <2>3, <2>4 DEF Fits, IntentPCs, OwnPCs, LockPCs, HasIntent
  <2>11. \A h \in Generations : ~HasIntent(h) /\ HasIntent(h)' =>
           intent'[h].digest \subseteq points'[h] /\ generation'[h] # ""
    BY <1>1, <2>1, <2>4, <2>5, <2>9 DEF HasIntent
  <2> QED
    BY <2>3, <2>6, <2>7, <2>8, <2>10, <2>11, StepParts
<1> QED
  BY <1>2, <1>3 DEF Intend

-------------------------------------------------------------------------------
(* The server *)

LEMMA OpenActiveStep ==
  ASSUME ActInv, NEW p \in Procs, OpenActive(p)
  PROVE  ActInv'
<1>1. alias' \in Collections \cup {None}
  BY Bounds DEF OpenActive, ActInv, Types
<1>2. Quiet
  BY <1>1, Quietly DEF OpenActive
<1>3. CASE Become(p, [Fresh("server") EXCEPT !.pc = "serve", !.phys = alias'])
  <2> DEFINE f == Fresh("server")
             me == [f EXCEPT !.pc = "serve", !.phys = alias']
  <2>1. f \in Process /\ "serve" \in PCs
    BY FreshType DEF PCs
  <2>2. me \in Process /\ me.pc = "serve"
    <3> HIDE DEF f
    <3> QED
      BY <1>1, <2>1 DEF Process
  <2>3. \E you \in Process : proc' = [proc EXCEPT ![p] = you] /\ you.pc = "serve"
    <3>1. proc' = [proc EXCEPT ![p] = me]
      BY <1>3 DEF Become
    <3> HIDE DEF me
    <3> QED
      BY <2>2, <3>1
  <2>4. "serve" \in FreePCs
    BY DEF FreePCs, PCs, IntentPCs, OwnPCs
  <2> QED
    BY <1>2, <2>3, <2>4, FreeStep
<1>4. CASE Exit(p)
  BY <1>2, <1>4, ExitStep
<1> QED
  BY <1>3, <1>4 DEF OpenActive

\* No process stands between Begin and Commit.
LEMMA StoreChunkStep ==
  ASSUME ActInv, NEW p \in Procs, StoreChunk(p)
  PROVE  ActInv'
<1>1. UNCHANGED <<row, generation, intent, alias, points, proc, overlap, faults>>
  BY DEF StoreChunk
<1>2. chunks' \in SUBSET Contents
  BY DEF StoreChunk, ActInv, Types
<1>3. Types'
  BY <1>1, <1>2 DEF ActInv, Types
<1>4. Unique'
  <2>1. Open' = Open
    BY <1>1 DEF Open
  <2> QED
    BY <1>1, <2>1 DEF ActInv, Unique
<1>5. Snapshots' /\ OneOwner' /\ OneLock'
  BY <1>1 DEF ActInv, Snapshots, OneOwner, OneLock, HasIntent
<1>6. ASSUME NEW q \in Procs PROVE Fits(proc[q])'
  <2>1. proc[q].pc \notin LockPCs
    BY DEF StoreChunk, Locked, LockPCs
  <2>2. Fits(proc[q])
    BY DEF ActInv
  <2> QED
    BY <1>1, <2>1, <2>2 DEF Fits, HasIntent
<1> QED
  BY <1>3, <1>4, <1>5, <1>6 DEF ActInv

\* A server that has done what it had in hand.
LEMMA ServeStep ==
  ASSUME ActInv, NEW p \in Procs, NEW pc \in {"serve", "upsert"}, NEW hand \in SUBSET Contents,
         Become(p, [proc[p] EXCEPT !.pc = pc, !.hand = hand]), Quiet
  PROVE  ActInv'
<1> DEFINE me == [proc[p] EXCEPT !.pc = pc, !.hand = hand]
<1>1. pc \in FreePCs /\ pc \in PCs
  BY DEF FreePCs, PCs, IntentPCs, OwnPCs
<1>2. me \in Process /\ me.pc = pc
  BY <1>1, ProcessParts DEF ActInv, Process
<1>3. proc' = [proc EXCEPT ![p] = me]
  BY DEF Become
<1> HIDE DEF me
<1> QED
  BY <1>1, <1>2, <1>3, FreeStep

LEMMA MarkIndexingStep ==
  ASSUME ActInv, NEW p \in Procs, MarkIndexing(p)
  PROVE  ActInv'
<1>1. PICK c \in chunks : /\ row' = [row EXCEPT ![c] = [at |-> proc[p].phys, done |-> FALSE]]
                          /\ Become(p, [proc[p] EXCEPT !.pc = "upsert", !.hand = {c}])
  BY DEF MarkIndexing
<1>2. {c} \in SUBSET Contents /\ [at |-> proc[p].phys, done |-> FALSE] \in Embedding
  BY ProcessParts DEF ActInv, Types, Embedding
<1>3. Quiet
  BY <1>1, <1>2 DEF MarkIndexing, Quiet, ActInv, Types
<1> QED
  BY <1>1, <1>2, <1>3, ServeStep

LEMMA CompleteEmbeddingStep ==
  ASSUME ActInv, NEW p \in Procs, CompleteEmbedding(p)
  PROVE  ActInv'
<1>1. row' \in [Contents -> Embedding]
  <2>1. \A c \in Contents : row[c] \in Embedding /\ [row[c] EXCEPT !.done = TRUE] \in Embedding
    BY DEF ActInv, Types, Embedding
  <2> QED
    BY <2>1 DEF CompleteEmbedding
<1>2. Quiet
  BY <1>1 DEF CompleteEmbedding, Quiet, ActInv, Types
<1>3. Become(p, [proc[p] EXCEPT !.pc = "serve", !.hand = {}]) /\ {} \in SUBSET Contents
  BY DEF CompleteEmbedding
<1> QED
  BY <1>2, <1>3, ServeStep

\* Points are added to the collection behind the alias.
LEMMA UpsertStep ==
  ASSUME ActInv, NEW p \in Procs, Upsert(p)
  PROVE  ActInv'
<1>1. UNCHANGED <<chunks, row, generation, intent, alias, overlap>> /\ (Works \/ Breaks)
  BY DEF Upsert, tables
<1>2. /\ points' \in [Collections -> SUBSET Contents]
      /\ \A k \in Collections : points[k] \subseteq points'[k]
  <2>1. CASE points' = points
    BY <2>1 DEF ActInv, Types
  <2>2. CASE alias # None /\ points' = [points EXCEPT ![alias] = @ \cup proc[p].hand]
    BY <2>2, ProcessParts DEF ActInv, Types
  <2> QED
    BY <2>1, <2>2 DEF Upsert
<1>3. PICK me \in Process : proc' = [proc EXCEPT ![p] = me] /\ me.pc \in {"embedded", "serve"}
  <2>1. CASE To(p, "embedded")
    <3>1. "embedded" \in PCs
      BY DEF PCs
    <3> QED
      BY <2>1, <3>1, ToMoves DEF ActInv
  <2>2. CASE Become(p, [proc[p] EXCEPT !.pc = "serve", !.hand = {}])
    <3> DEFINE me == [proc[p] EXCEPT !.pc = "serve", !.hand = {}]
    <3>1. me \in Process /\ me.pc = "serve"
      BY ProcessParts, ZenonT(40) DEF ActInv, Process, PCs
    <3>2. proc' = [proc EXCEPT ![p] = me]
      BY <2>2 DEF Become
    <3> HIDE DEF me
    <3> QED
      BY <3>1, <3>2
  <2> QED
    BY <2>1, <2>2 DEF Upsert
<1>4. me.pc \in FreePCs
  BY <1>3 DEF FreePCs, PCs, IntentPCs, OwnPCs
<1>5. Types'
  BY <1>1, <1>2, <1>3, FaultsType DEF ActInv, Types
<1>6. Unique'
  <2>1. Open' = Open
    BY <1>1 DEF Open
  <2> QED
    BY <1>1, <2>1 DEF ActInv, Unique
<1>7. \A h : intent'[h].status # "absent" <=> HasIntent(h)
  BY <1>1 DEF HasIntent
<1>8. Frame(p)
  <2>1. \A q \in Procs : proc[q].pc \in OwnPCs => proc[q].g \in Generations /\ ~HasIntent(proc[q].g)
    BY DEF ActInv, Fits
  <2> QED
    BY <1>1, <1>2, <1>7, <2>1, Bounds DEF Frame, HasIntent
<1> QED
  BY <1>3, <1>4, <1>5, <1>6, <1>7, <1>8, FreeFits, StepParts DEF HasIntent

LEMMA StopStep ==
  ASSUME ActInv, NEW p \in Procs, StopServing(p) \/ Crash(p)
  PROVE  ActInv'
<1>1. Quiet
  BY AliasStays DEF StopServing, Crash, Works
<1> QED
  BY <1>1, ExitStep DEF StopServing, Crash

-------------------------------------------------------------------------------
(* The invariant holds *)

LEMMA ActInit == Init => ActInv
<1> SUFFICES ASSUME Init PROVE ActInv
  OBVIOUS
<1>1. \A g \in Generations : intent[g] = NoIntent /\ generation[g] = ""
  BY DEF Init
<1>2. NoIntent \in Intent /\ NoIntent.status = "absent" /\ [at |-> None, done |-> FALSE] \in Embedding
  BY DEF NoIntent, Intent, Embedding
<1>3. \A p \in Procs : proc[p] = Exited
  BY DEF Init
<1>4. Exited \in Process /\ Exited.pc \in FreePCs
  BY FreshType DEF FreePCs, PCs, IntentPCs, OwnPCs
<1>5. Types
  <2>1. generation \in [Generations -> Statuses] /\ intent \in [Generations -> Intent]
    BY <1>2 DEF Init, Statuses
  <2>2. row \in [Contents -> Embedding] /\ proc \in [Procs -> Process]
    BY <1>2, <1>4 DEF Init
  <2>3. alias \in Collections \cup {None} /\ points \in [Collections -> SUBSET Contents] /\ chunks \subseteq Contents
    BY Bounds DEF Init
  <2>4. overlap \in BOOLEAN /\ faults \in 0 .. MaxFaults
    <3>1. overlap = FALSE /\ faults = 0
      BY DEF Init
    <3>2. MaxFaults \in Nat
      BY Bounds
    <3>3. 0 \in 0 .. MaxFaults
      BY <3>2
    <3> QED
      BY <3>1, <3>3
  <2> QED
    BY <2>1, <2>2, <2>3, <2>4 DEF Types
<1>6. Unique /\ Snapshots
  BY <1>1, <1>2 DEF Unique, Snapshots, Open, HasIntent
<1>7. \A p \in Procs : Fits(proc[p]) /\ proc[p].pc \notin OwnPCs /\ proc[p].pc \notin LockPCs
  BY <1>3, <1>4, FreeFits
<1> QED
  BY <1>5, <1>6, <1>7 DEF ActInv, OneOwner, OneLock

LEMMA ActStep == ActInv /\ [Next]_vars => ActInv'
<1>1. ASSUME ActInv, NEW p \in Procs, Start(p) \/ Reconcile(p)
      PROVE  ActInv'
  BY <1>1, StartStep, LoadStep, StatusStep, InspectStep, CompleteStep, ValidateStep DEF Reconcile
<1>2. ASSUME ActInv, NEW p \in Procs, Activate(p) \/ Recover(p)
      PROVE  ActInv'
  BY <1>2, BeginStep, SwitchStep, UpdateStep, CommitStep, RestoreStep, FailGenerationStep,
     EndIntentStep DEF Activate, Recover
<1>3. ASSUME ActInv, NEW p \in Procs, Rebuild(p)
      PROVE  ActInv'
  BY <1>3, ListStep, CreateStep, BuildStep, ReadyStep, PreviousStep, IntendStep, DiscardStep DEF Rebuild
<1>4. ASSUME ActInv, NEW p \in Procs, Serve(p) \/ Crash(p)
      PROVE  ActInv'
  BY <1>4, OpenActiveStep, StoreChunkStep, MarkIndexingStep, UpsertStep, CompleteEmbeddingStep,
     StopStep DEF Serve
<1>5. ASSUME ActInv, UNCHANGED vars
      PROVE  ActInv'
  BY <1>5 DEF vars, ActInv, Types, Unique, Open, Snapshots, HasIntent, OneOwner, OneLock, Fits
<1> QED
  BY <1>1, <1>2, <1>3, <1>4, <1>5 DEF Next

-------------------------------------------------------------------------------
(* The theorems *)

\* A set of which any two members are one has no second.
LEMMA AtMostOne ==
  ASSUME NEW S, \A x, y \in S : x = y
  PROVE  Cardinality(S) <= 1
<1>1. CASE S = {}
  BY <1>1, FS_EmptySet
<1>2. CASE S # {}
  <2>1. PICK x \in S : TRUE
    BY <1>2
  <2>2. S = {x}
    BY <2>1
  <2>3. Cardinality({x}) = 1
    BY FS_Singleton
  <2> QED
    BY <2>2, <2>3
<1> QED
  BY <1>1, <1>2

\* At most one intent is open and one generation active, whatever fails and
\* whichever processes overlap (the unique index; FinalizeEmbeddingGeneration).
THEOREM TypeTheorem == Spec => []TypeOK
<1>1. ActInv => TypeOK
  <2> SUFFICES ASSUME ActInv PROVE TypeOK
    OBVIOUS
  <2>1. Cardinality(Open) <= 1
    BY AtMostOne DEF ActInv, Unique
  <2>2. Cardinality({g \in Generations : generation[g] = "active"}) <= 1
    <3> DEFINE S == {g \in Generations : generation[g] = "active"}
    <3>1. \A x, y \in S : x = y
      BY DEF ActInv, Unique
    <3>2. Cardinality(S) <= 1
      <4> HIDE DEF S
      <4> QED
        BY <3>1, AtMostOne
    <3> QED
      BY <3>2
  <2> QED
    BY <2>1, <2>2 DEF ActInv, Types, TypeOK, Statuses
<1> QED
  BY <1>1, ActInit, ActStep, PTL DEF Spec

\* Only Commit makes a generation active, with the lock held since the chunks were
\* compared with the snapshot.
LEMMA ActivatesAll ==
  ActInv /\ [Next]_vars =>
    \A g \in Generations :
      generation[g] # "active" /\ generation'[g] = "active" => chunks' \subseteq points'[g]
<1> SUFFICES ASSUME ActInv, [Next]_vars, NEW g \in Generations,
                    generation[g] # "active", generation'[g] = "active"
             PROVE  chunks' \subseteq points'[g]
  OBVIOUS
<1>1. PICK p \in Procs : /\ Start(p) \/ Reconcile(p) \/ Activate(p) \/ Recover(p) \/ Rebuild(p)
                              \/ Serve(p) \/ Crash(p)
  BY DEF Next, vars
<1>2. CASE Commit(p)
  <2>1. Finalize(proc[p].g) /\ UNCHANGED <<chunks, points>>
    BY <1>2 DEF Commit
  <2>2. proc[p].g = g
    BY <2>1 DEF Finalize, ActivateGeneration, RetireActive, ActInv, Types
  <2>3. chunks = intent[g].digest /\ intent[g].digest \subseteq points[g]
    BY <1>2, <2>2 DEF Commit, ActInv, Fits, Snapshots, IntentPCs, LockPCs
  <2> QED
    BY <2>1, <2>3
<1>3. CASE Create(p)
  BY <1>3 DEF Create, CreateEmbeddingGeneration, ActInv, Types
<1>4. CASE Ready(p)
  BY <1>4 DEF Ready, MarkEmbeddingGenerationReady, ActInv, Types
<1>5. CASE FailGeneration(p) \/ Discard(p)
  BY <1>5 DEF FailGeneration, Discard, Failed, ActInv, Types
<1>6. CASE generation' = generation
  BY <1>6
<1>7. CASE Start(p) \/ Reconcile(p) \/ Serve(p) \/ Crash(p)
  <2>1. generation' = generation
    BY <1>7 DEF Start, Reconcile, Load, Status, Inspect, Complete, Validate, Serve, OpenActive, StoreChunk,
       MarkIndexing, Upsert, CompleteEmbedding, StopServing, Crash, tables
  <2> QED
    BY <2>1
<1>8. CASE Begin(p) \/ Switch(p) \/ Update(p) \/ Restore(p) \/ Unswitch(p) \/ Supersede(p) \/ FailIntent(p)
           \/ List(p) \/ Build(p) \/ Previous(p) \/ Intend(p)
  <2>1. generation' = generation
    BY <1>8 DEF Begin, Switch, Update, Restore, Unswitch, Supersede, FailIntent, List, Build, Previous,
       Intend, tables
  <2> QED
    BY <2>1
<1> QED
  BY <1>1, <1>2, <1>3, <1>4, <1>5, <1>7, <1>8 DEF Activate, Recover, Rebuild

\* Whatever fails and however processes overlap, a generation becomes active only
\* with a point of every chunk stored (reindex.go finalizeDurableActivation).
THEOREM ActivationTheorem == Spec => ActivationMissesNoChunk
<1>1. ActInv /\ [Next]_vars =>
        [\A g \in Generations :
           generation[g] # "active" /\ generation'[g] = "active" => chunks' \subseteq points'[g]]_vars
  BY ActivatesAll
<1> QED
  BY <1>1, ActInit, ActStep, PTL DEF Spec, ActivationMissesNoChunk

-------------------------------------------------------------------------------
(* Processes one after the other.  What the process that runs has read is then *)
(* what is there, and with the places it may crash at this leaves an intent    *)
(* open until the alias is where the active generation says.                   *)

ServePCs   == {"serve", "upsert", "embedded"}
ClosedPCs  == {"open", "list", "create", "build", "ready", "previous", "intend"} \cup ServePCs
ReadPCs    == {"intend", "validate", "begin", "switch", "update"}
ChangedPCs == {"restore", "unswitch", "fail_generation", "supersede", "fail_intent"}

\* What the only process knows where it stands.
Knows(me) ==
  /\ me.pc \in IntentPCs => me.g \in Open
  /\ me.pc \in ClosedPCs => Open = {}
  /\ me.pc \in ServePCs => me.phys = alias /\ alias # None
  /\ me.pc \in {"upsert", "embedded"} => \A c \in me.hand : row[c].at = alias
  /\ me.pc = "embedded" => me.hand \subseteq points[alias]
  /\ me.pc = "inspect" => me.status = generation[me.g]
  /\ me.pc \in ReadPCs => me.current = alias
  /\ me.pc \in ReadPCs \cup {"previous", "commit"} => generation[me.g] = "ready"
  /\ me.pc \in {"commit", "complete"} => alias = me.g
  /\ me.pc = "complete" => generation[me.g] = "active"
  /\ me.changed => me.pc \in ChangedPCs
  /\ me.pc \in {"restore", "unswitch"} /\ me.changed => generation[me.g] = "ready"
  /\ me.pc \in {"fail_generation", "supersede"} =>
       alias = intent[me.g].previous /\ generation[me.g] # "active"

Active == {g \in Generations : generation[g] = "active"}

\* While an intent is open the alias is at its collection or at the previous one,
\* and so is the active generation; then the alias is at the active one.
Aliased ==
  /\ Open = {} => Active \subseteq {alias}
  /\ \A g \in Open : alias \in {g, intent[g].previous} /\ Active \subseteq {g, intent[g].previous}

\* Only the collection of a generation with an intent has been behind the alias.
Named ==
  /\ alias \in Generations => HasIntent(alias)
  /\ \A c \in Contents : row[c].at \in Generations => HasIntent(row[c].at)
  /\ \A g \in Generations :
       HasIntent(g) /\ intent[g].previous \in Generations => HasIntent(intent[g].previous)

Served == \A c \in Contents : row[c].done => row[c].at \in Collections /\ c \in points[row[c].at]

Alone == \A p, q \in Procs : proc[p].pc # "exited" /\ proc[q].pc # "exited" => p = q

Solo    == Alone /\ Aliased /\ Named /\ Served /\ \A p \in Procs : Knows(proc[p])
SoloInv == ~overlap => Solo

LEMMA Others ==
  ASSUME Solo, NEW p \in Procs, proc[p].pc # "exited"
  PROVE  \A q \in Procs \ {p} : proc[q].pc = "exited"
  BY DEF Solo, Alone

LEMMA KnowsNothing ==
  ASSUME NEW me, me.pc \in {"exited", "load", "discard"}, ~me.changed
  PROVE  Knows(me) /\ Knows(me)'
  BY DEF Knows, IntentPCs, ClosedPCs, ServePCs, ReadPCs

\* The parts of Solo that a step of process p has to show.
LEMMA SoloParts ==
  ASSUME Types, Solo, NEW p \in Procs, NEW me, proc' = [proc EXCEPT ![p] = me],
         \A q \in Procs \ {p} : proc[q].pc = "exited",
         Aliased', Named', Served', Knows(me)'
  PROVE  Solo'
<1>1. proc'[p] = me /\ \A q \in Procs \ {p} : proc'[q] = proc[q]
  BY Moved
<1>2. Alone'
  BY <1>1 DEF Alone
<1>3. ASSUME NEW q \in Procs PROVE Knows(proc[q])'
  <2>1. CASE q = p
    BY <1>1, <2>1 DEF Knows
  <2>2. CASE q # p
    <3> DEFINE you == proc[q]
    <3>1. proc'[q] = you /\ you.pc = "exited" /\ ~you.changed
      BY <1>1, <2>2 DEF Solo, Knows, ChangedPCs
    <3> QED
      BY <3>1 DEF Knows, IntentPCs, ClosedPCs, ServePCs, ReadPCs
  <2> QED
    BY <2>1, <2>2
<1> QED
  BY <1>2, <1>3 DEF Solo

\* A step that changes the process only.
Still == UNCHANGED <<row, generation, intent, alias, points>>

LEMMA StillGlobals ==
  ASSUME Solo, Still
  PROVE  Aliased' /\ Named' /\ Served' /\ Open' = Open
  BY DEF Solo, Still, Aliased, Named, Served, Open, Active, HasIntent

LEMMA StillStep ==
  ASSUME Types, Solo, NEW p \in Procs, NEW me, proc' = [proc EXCEPT ![p] = me],
         \A q \in Procs \ {p} : proc[q].pc = "exited", Still, Knows(me)
  PROVE  Solo'
<1>1. Aliased' /\ Named' /\ Served' /\ Open' = Open
  BY StillGlobals
<1>2. Knows(me)'
  BY <1>1 DEF Still, Knows
<1> QED
  BY <1>1, <1>2, SoloParts

LEMMA ToFields ==
  ASSUME Types, NEW p \in Procs, NEW pc \in PCs, To(p, pc)
  PROVE  \E me \in Process :
           /\ proc' = [proc EXCEPT ![p] = me] /\ me.pc = pc /\ me.g = proc[p].g /\ me.hand = proc[p].hand
           /\ me.status = proc[p].status /\ me.current = proc[p].current /\ me.changed = proc[p].changed
           /\ me.phys = proc[p].phys
<1> DEFINE me == [proc[p] EXCEPT !.pc = pc]
<1>1. proc[p] \in Process
  BY DEF Types
<1>2. me \in Process /\ me.pc = pc /\ me.g = proc[p].g /\ me.hand = proc[p].hand
  BY <1>1 DEF Process
<1>3. /\ me.status = proc[p].status /\ me.current = proc[p].current /\ me.changed = proc[p].changed
      /\ me.phys = proc[p].phys
  BY <1>1 DEF Process
<1>4. proc' = [proc EXCEPT ![p] = me]
  BY DEF To
<1> HIDE DEF me
<1> QED
  BY <1>2, <1>3, <1>4

LEMMA ExitFields ==
  ASSUME NEW p \in Procs, Exit(p)
  PROVE  \E me : proc' = [proc EXCEPT ![p] = me] /\ me.pc = "exited" /\ ~me.changed
<1>1. Exited.pc = "exited" /\ ~Exited.changed
  BY DEF Exited, Fresh
<1> QED
  BY <1>1 DEF Exit

LEMMA GoOnFields ==
  ASSUME Types, NEW p \in Procs, GoOn(p)
  PROVE  \E me : proc' = [proc EXCEPT ![p] = me] /\ me.pc \in {"open", "list"} /\ ~me.changed
<1> DEFINE me == [Fresh(proc[p].program) EXCEPT !.phys = proc[p].phys,
                    !.pc = IF proc[p].program = "server" THEN "open" ELSE "list"]
<1>1. me.pc \in {"open", "list"} /\ ~me.changed
  BY DEF Fresh
<1>2. proc' = [proc EXCEPT ![p] = me]
  BY DEF GoOn, Become
<1> HIDE DEF me
<1> QED
  BY <1>1, <1>2

\* A process that ends.
LEMMA ExitSolo ==
  ASSUME Types, Solo, NEW p \in Procs, proc[p].pc # "exited", Exit(p), Aliased', Named', Served'
  PROVE  Solo'
<1>1. PICK me : proc' = [proc EXCEPT ![p] = me] /\ me.pc = "exited" /\ ~me.changed
  BY ExitFields
<1>2. Knows(me)'
  BY <1>1, KnowsNothing
<1>3. \A q \in Procs \ {p} : proc[q].pc = "exited"
  BY Others
<1> QED
  BY <1>1, <1>2, <1>3, SoloParts

LEMMA StillExit ==
  ASSUME Types, Solo, NEW p \in Procs, proc[p].pc # "exited", Exit(p), Still
  PROVE  Solo'
  BY StillGlobals, ExitSolo

\* No intent is open, so the program goes on.
LEMMA GoOnSolo ==
  ASSUME Types, Solo, NEW p \in Procs, proc[p].pc # "exited", GoOn(p), Aliased', Named', Served', Open' = {}
  PROVE  Solo'
<1>1. PICK me : proc' = [proc EXCEPT ![p] = me] /\ me.pc \in {"open", "list"} /\ ~me.changed
  BY GoOnFields
<1>2. Knows(me)'
  BY <1>1 DEF Knows, IntentPCs, ServePCs, ReadPCs
<1> QED
  BY <1>1, <1>2, Others, SoloParts

\* A step that ends in FailIntent, or in Discard.
LEMMA FailSolo ==
  ASSUME Types, Solo, NEW p \in Procs, proc[p].pc # "exited", To(p, "fail_intent"),
         Aliased', Named', Served', proc[p].g \in Open'
  PROVE  Solo'
<1>1. "fail_intent" \in PCs
  BY DEF PCs
<1>2. PICK me \in Process : proc' = [proc EXCEPT ![p] = me] /\ me.pc = "fail_intent" /\ me.g = proc[p].g
  BY <1>1, ToFields
<1>3. Knows(me)'
  BY <1>2 DEF Knows, ClosedPCs, ServePCs, ReadPCs, ChangedPCs
<1>4. \A q \in Procs \ {p} : proc[q].pc = "exited"
  BY Others
<1> QED
  BY <1>2, <1>3, <1>4, SoloParts

LEMMA StillFails ==
  ASSUME Types, Solo, NEW p \in Procs, proc[p].pc \in IntentPCs, To(p, "fail_intent"), Still
  PROVE  Solo'
<1>1. proc[p].g \in Open /\ proc[p].pc # "exited"
  BY DEF Solo, Knows, IntentPCs
<1> QED
  BY <1>1, StillGlobals, FailSolo

LEMMA DiscardsSolo ==
  ASSUME Types, Solo, NEW p \in Procs, proc[p].pc \in OwnPCs, To(p, "discard"), Aliased', Named', Served'
  PROVE  Solo'
<1>1. "discard" \in PCs
  BY DEF PCs
<1>2. ~proc[p].changed /\ proc[p].pc # "exited"
  BY DEF Solo, Knows, OwnPCs, ChangedPCs
<1>3. PICK me \in Process : proc' = [proc EXCEPT ![p] = me] /\ me.pc = "discard" /\ ~me.changed
  BY <1>1, <1>2, ToFields
<1>4. Knows(me)'
  BY <1>3, KnowsNothing
<1>5. \A q \in Procs \ {p} : proc[q].pc = "exited"
  BY <1>2, Others
<1> QED
  BY <1>3, <1>4, <1>5, SoloParts

-------------------------------------------------------------------------------
(* Steps that change the process only *)

LEMMA StartSolo ==
  ASSUME Types, Solo, NEW p \in Procs, Start(p), ~overlap'
  PROVE  Solo'
<1>1. PICK program \in {"server", "reindex"} : proc' = [proc EXCEPT ![p] = Fresh(program)]
  BY DEF Start, Become
<1> DEFINE me == Fresh(program)
<1>2. me.pc = "load" /\ ~me.changed
  BY DEF Fresh
<1>3. \A q \in Procs \ {p} : proc[q].pc = "exited"
  BY DEF Start
<1>4. Still
  BY DEF Start, Still, tables
<1>5. proc' = [proc EXCEPT ![p] = me]
  BY <1>1
<1> HIDE DEF me
<1>6. Knows(me)
  BY <1>2, KnowsNothing
<1> QED
  BY <1>3, <1>4, <1>5, <1>6, StillStep

LEMMA LoadSolo ==
  ASSUME Types, Solo, NEW p \in Procs, Load(p)
  PROVE  Solo'
<1>1. Still /\ proc[p].pc = "load"
  BY DEF Load, Still, tables
<1>2. CASE Open = {} /\ GoOn(p)
  BY <1>1, <1>2, StillGlobals, GoOnSolo
<1>3. ASSUME NEW g \in Open, Become(p, [proc[p] EXCEPT !.pc = "status", !.g = g])
      PROVE  Solo'
  <2> DEFINE me == [proc[p] EXCEPT !.pc = "status", !.g = g]
  <2>1. me.pc = "status" /\ me.g = g /\ ~me.changed
    BY <1>1, ProcessParts, ZenonT(40) DEF Process, Solo, Knows, ChangedPCs
  <2>2. proc' = [proc EXCEPT ![p] = me]
    BY <1>3 DEF Become
  <2> HIDE DEF me
  <2>3. Knows(me)
    BY <2>1 DEF Knows, ClosedPCs, ServePCs, ReadPCs
  <2> QED
    BY <1>1, <2>2, <2>3, Others, StillStep
<1>4. CASE Exit(p)
  BY <1>1, <1>4, StillExit
<1> QED
  BY <1>2, <1>3, <1>4 DEF Load

LEMMA StatusSolo ==
  ASSUME Types, Solo, NEW p \in Procs, Status(p)
  PROVE  Solo'
<1>1. Still /\ proc[p].pc = "status"
  BY DEF Status, Still, tables
<1>2. CASE Become(p, [proc[p] EXCEPT !.pc = "inspect", !.status = generation[proc[p].g]])
  <2> DEFINE me == [proc[p] EXCEPT !.pc = "inspect", !.status = generation[proc[p].g]]
  <2>1. me.pc = "inspect" /\ me.g = proc[p].g /\ me.status = generation[proc[p].g] /\ ~me.changed
    BY <1>1, ProcessParts, ZenonT(40) DEF Process, Solo, Knows, ChangedPCs
  <2>2. proc' = [proc EXCEPT ![p] = me]
    BY <1>2 DEF Become
  <2>3. proc[p].g \in Open
    BY <1>1 DEF Solo, Knows, IntentPCs
  <2> HIDE DEF me
  <2>4. Knows(me)
    BY <2>1, <2>3 DEF Knows, ClosedPCs, ServePCs, ReadPCs
  <2> QED
    BY <1>1, <2>2, <2>4, Others, StillStep
<1>3. CASE Exit(p)
  BY <1>1, <1>3, StillExit
<1> QED
  BY <1>2, <1>3 DEF Status

\* The alias is read, and the status still is what was read before.
LEMMA InspectSolo ==
  ASSUME Types, Solo, NEW p \in Procs, Inspect(p)
  PROVE  Solo'
<1>1. Still /\ proc[p].pc = "inspect"
  BY DEF Inspect, Still, tables
<1> DEFINE next == IF proc[p].status = "active" /\ alias = proc[p].g THEN "complete"
                   ELSE IF proc[p].status = "ready" THEN "validate" ELSE "fail_intent"
<1>2. CASE Become(p, [proc[p] EXCEPT !.pc = next, !.current = alias])
  <2>1. proc[p].g \in Open /\ proc[p].status = generation[proc[p].g] /\ ~proc[p].changed
    BY <1>1 DEF Solo, Knows, IntentPCs, ChangedPCs
  <2>2. next \in {"complete", "validate", "fail_intent"}
    OBVIOUS
  <2>3. /\ next = "complete" => alias = proc[p].g /\ generation[proc[p].g] = "active"
        /\ next = "validate" => generation[proc[p].g] = "ready"
    BY <2>1
  <2> HIDE DEF next
  <2> DEFINE me == [proc[p] EXCEPT !.pc = next, !.current = alias]
  <2>4. me.pc = next /\ me.g = proc[p].g /\ me.current = alias /\ me.changed = proc[p].changed
    BY ProcessParts DEF Process
  <2>5. proc' = [proc EXCEPT ![p] = me]
    BY <1>2 DEF Become
  <2> HIDE DEF me
  <2>6. Knows(me)
    BY <2>1, <2>2, <2>3, <2>4 DEF Knows, IntentPCs, ClosedPCs, ServePCs, ReadPCs, ChangedPCs
  <2> QED
    BY <1>1, <2>5, <2>6, Others, StillStep
<1>3. CASE Exit(p)
  BY <1>1, <1>3, StillExit
<1> QED
  BY <1>2, <1>3 DEF Inspect

LEMMA ValidateSolo ==
  ASSUME Types, Solo, NEW p \in Procs, Validate(p)
  PROVE  Solo'
<1>1. Still /\ proc[p].pc = "validate"
  BY DEF Validate, Still, tables
<1>2. CASE To(p, "begin")
  <2>1. "begin" \in PCs
    BY DEF PCs
  <2>2. PICK me \in Process :
          /\ proc' = [proc EXCEPT ![p] = me] /\ me.pc = "begin" /\ me.g = proc[p].g
          /\ me.current = proc[p].current /\ me.changed = proc[p].changed
    BY <1>2, <2>1, ToFields
  <2>3. /\ proc[p].g \in Open /\ proc[p].current = alias /\ generation[proc[p].g] = "ready"
        /\ ~proc[p].changed
    BY <1>1 DEF Solo, Knows, IntentPCs, ReadPCs, ChangedPCs
  <2>4. Knows(me)
    BY <2>2, <2>3 DEF Knows, ClosedPCs, ServePCs
  <2> QED
    BY <1>1, <2>2, <2>4, Others, StillStep
<1>3. CASE To(p, "fail_intent")
  BY <1>1, <1>3, StillFails DEF IntentPCs
<1> QED
  BY <1>2, <1>3 DEF Validate

LEMMA BeginSolo ==
  ASSUME Types, Solo, NEW p \in Procs, Begin(p)
  PROVE  Solo'
<1>1. Still /\ proc[p].pc = "begin"
  BY DEF Begin, Still, tables
<1>2. /\ proc[p].g \in Open /\ proc[p].current = alias /\ generation[proc[p].g] = "ready"
      /\ ~proc[p].changed
  BY <1>1 DEF Solo, Knows, IntentPCs, ReadPCs, ChangedPCs
<1>3. CASE To(p, "switch")
  <2>1. "switch" \in PCs
    BY DEF PCs
  <2>2. PICK me \in Process :
          /\ proc' = [proc EXCEPT ![p] = me] /\ me.pc = "switch" /\ me.g = proc[p].g
          /\ me.current = proc[p].current /\ me.changed = proc[p].changed
    BY <1>3, <2>1, ToFields
  <2>3. Knows(me)
    BY <1>2, <2>2 DEF Knows, ClosedPCs, ServePCs
  <2> QED
    BY <1>1, <2>2, <2>3, Others, StillStep
<1>4. CASE Become(p, [proc[p] EXCEPT !.changed = TRUE,
                        !.pc = IF proc[p].current = proc[p].g THEN "restore" ELSE "fail_generation"])
  <2> DEFINE next == IF proc[p].current = proc[p].g THEN "restore" ELSE "fail_generation"
             me   == [proc[p] EXCEPT !.changed = TRUE, !.pc = next]
  <2>1. proc[p].current # proc[p].g => alias = intent[proc[p].g].previous
    BY <1>2 DEF Solo, Aliased
  <2>2. next \in {"restore", "fail_generation"} /\ (next = "fail_generation" => alias = intent[proc[p].g].previous)
    BY <2>1
  <2> HIDE DEF next
  <2>3. me.pc = next /\ me.g = proc[p].g
    BY ProcessParts DEF Process
  <2>4. proc' = [proc EXCEPT ![p] = me]
    BY <1>4 DEF Become, next
  <2> HIDE DEF me
  <2>5. Knows(me)
    BY <1>2, <2>2, <2>3 DEF Knows, ClosedPCs, ServePCs, ReadPCs, ChangedPCs
  <2> QED
    BY <1>1, <2>4, <2>5, Others, StillStep
<1>5. CASE To(p, "fail_intent")
  BY <1>1, <1>5, StillFails DEF IntentPCs
<1> QED
  BY <1>3, <1>4, <1>5 DEF Begin

LEMMA SwitchSolo ==
  ASSUME Types, Solo, NEW p \in Procs, Switch(p)
  PROVE  Solo'
<1>1. Still /\ proc[p].pc = "switch"
  BY DEF Switch, Still, tables
<1>2. /\ proc[p].g \in Open /\ proc[p].current = alias /\ generation[proc[p].g] = "ready"
      /\ ~proc[p].changed
  BY <1>1 DEF Solo, Knows, IntentPCs, ReadPCs, ChangedPCs
<1>3. ASSUME NEW pc \in {"commit", "update"}, To(p, pc), pc = "commit" => alias = proc[p].g
      PROVE  Solo'
  <2>1. pc \in PCs
    BY DEF PCs
  <2>2. PICK me \in Process :
          /\ proc' = [proc EXCEPT ![p] = me] /\ me.pc = pc /\ me.g = proc[p].g
          /\ me.current = proc[p].current /\ me.changed = proc[p].changed
    BY <1>3, <2>1, ToFields
  <2>3. Knows(me)
    BY <1>2, <1>3, <2>2 DEF Knows, ClosedPCs, ServePCs
  <2> QED
    BY <1>1, <2>2, <2>3, Others, StillStep
<1>4. CASE alias = proc[p].g /\ Become(p, Switched(proc[p]))
  <2> DEFINE me == Switched(proc[p])
  <2>1. me.pc = "commit" /\ me.g = proc[p].g /\ me.changed = proc[p].changed
    BY ProcessParts DEF Process, Switched
  <2>2. proc' = [proc EXCEPT ![p] = me]
    BY <1>4 DEF Become
  <2> HIDE DEF me
  <2>3. Knows(me)
    BY <1>2, <1>4, <2>1 DEF Knows, ClosedPCs, ServePCs, ReadPCs
  <2> QED
    BY <1>1, <2>2, <2>3, Others, StillStep
<1>5. CASE To(p, "fail_intent")
  BY <1>1, <1>5, StillFails DEF IntentPCs
<1>6. \/ To(p, "commit") /\ alias = proc[p].g
      \/ alias = proc[p].g /\ Become(p, Switched(proc[p]))
      \/ To(p, "update") \/ To(p, "fail_intent")
  BY <1>2 DEF Switch
<1> QED
  BY <1>3, <1>4, <1>5, <1>6

LEMMA RestoreSolo ==
  ASSUME Types, Solo, NEW p \in Procs, Restore(p)
  PROVE  Solo'
<1>1. Still /\ proc[p].pc = "restore"
  BY DEF Restore, Still, tables
<1>2. proc[p].g \in Open /\ (proc[p].changed => generation[proc[p].g] = "ready")
  BY <1>1 DEF Solo, Knows, IntentPCs
<1>3. ASSUME NEW pc \in {"unswitch", "fail_generation"}, To(p, pc),
             pc = "fail_generation" => proc[p].changed /\ alias = intent[proc[p].g].previous
      PROVE  Solo'
  <2>1. pc \in PCs
    BY DEF PCs
  <2>2. PICK me \in Process :
          /\ proc' = [proc EXCEPT ![p] = me] /\ me.pc = pc /\ me.g = proc[p].g
          /\ me.changed = proc[p].changed
    BY <1>3, <2>1, ToFields
  <2>3. Knows(me)
    BY <1>2, <1>3, <2>2 DEF Knows, ClosedPCs, ServePCs, ReadPCs, ChangedPCs
  <2> QED
    BY <1>1, <2>2, <2>3, Others, StillStep
<1>4. CASE To(p, "fail_intent")
  BY <1>1, <1>4, StillFails DEF IntentPCs
<1>5. \/ alias = intent[proc[p].g].previous /\ proc[p].changed /\ To(p, "fail_generation")
      \/ To(p, "unswitch") \/ To(p, "fail_intent")
  BY DEF Restore, Restored
<1> QED
  BY <1>3, <1>4, <1>5

LEMMA ListSolo ==
  ASSUME Types, Solo, NEW p \in Procs, List(p)
  PROVE  Solo'
<1>1. Still /\ proc[p].pc = "list"
  BY DEF List, Still, tables
<1>2. CASE Become(p, [proc[p] EXCEPT !.pc = "create", !.hand = chunks])
  <2> DEFINE me == [proc[p] EXCEPT !.pc = "create", !.hand = chunks]
  <2>1. me.pc = "create" /\ me.changed = proc[p].changed
    BY ProcessParts DEF Process
  <2>2. proc' = [proc EXCEPT ![p] = me]
    BY <1>2 DEF Become
  <2> HIDE DEF me
  <2>3. Open = {} /\ ~proc[p].changed
    BY <1>1 DEF Solo, Knows, ClosedPCs, ChangedPCs
  <2>4. Knows(me)
    BY <2>1, <2>3 DEF Knows, IntentPCs, ServePCs, ReadPCs
  <2> QED
    BY <1>1, <2>2, <2>4, Others, StillStep
<1>3. CASE Exit(p)
  BY <1>1, <1>3, StillExit
<1> QED
  BY <1>2, <1>3 DEF List

LEMMA PreviousSolo ==
  ASSUME Types, Solo, NEW p \in Procs, Previous(p)
  PROVE  Solo'
<1>1. Still /\ proc[p].pc = "previous"
  BY DEF Previous, Still, tables
<1>2. CASE Become(p, [proc[p] EXCEPT !.pc = "intend", !.current = alias])
  <2> DEFINE me == [proc[p] EXCEPT !.pc = "intend", !.current = alias]
  <2>1. me.pc = "intend" /\ me.changed = proc[p].changed /\ me.current = alias /\ me.g = proc[p].g
    BY ProcessParts DEF Process
  <2>2. proc' = [proc EXCEPT ![p] = me]
    BY <1>2 DEF Become
  <2> HIDE DEF me
  <2>3. Open = {} /\ ~proc[p].changed /\ generation[proc[p].g] = "ready"
    BY <1>1 DEF Solo, Knows, ClosedPCs, ChangedPCs
  <2>4. Knows(me)
    BY <2>1, <2>3 DEF Knows, IntentPCs, ServePCs
  <2> QED
    BY <1>1, <2>2, <2>4, Others, StillStep
<1>3. CASE To(p, "discard")
  BY <1>1, <1>3, StillGlobals, DiscardsSolo DEF OwnPCs
<1> QED
  BY <1>2, <1>3 DEF Previous

LEMMA StopSolo ==
  ASSUME Types, Solo, NEW p \in Procs, StopServing(p) \/ Crash(p)
  PROVE  Solo'
<1>1. Still /\ proc[p].pc # "exited" /\ Exit(p)
  BY DEF StopServing, Crash, Still, tables
<1> QED
  BY <1>1, StillExit

LEMMA StoreChunkSolo ==
  ASSUME Solo, NEW p \in Procs, StoreChunk(p)
  PROVE  Solo'
<1>1. Still /\ UNCHANGED proc
  BY DEF StoreChunk, Still
<1>2. Aliased' /\ Named' /\ Served' /\ Open' = Open
  BY <1>1, StillGlobals
<1>3. Alone' /\ \A q \in Procs : Knows(proc[q])'
  BY <1>1, <1>2 DEF Solo, Alone, Knows, Still
<1> QED
  BY <1>2, <1>3 DEF Solo

-------------------------------------------------------------------------------
(* Steps that end the intent or change its status *)

\* The only open intent has another status.
LEMMA NewStatus ==
  ASSUME Types, Unique, Solo, NEW g \in Open,
         NEW s \in {"completed", "alias_switched", "failed", "superseded"}, intent' = IntentIs(g, s)
  PROVE  /\ \A h \in Generations : (HasIntent(h)' <=> HasIntent(h)) /\ intent'[h].previous = intent[h].previous
         /\ s \in {"completed", "superseded"} => Open' = {}
         /\ s \in {"alias_switched", "failed"} => Open' = {g}
         /\ UNCHANGED <<row, alias>> => Named'
<1>1. g \in Generations /\ HasIntent(g)
  BY DEF Open, HasIntent
<1>2. /\ intent'[g].status = s /\ intent'[g].previous = intent[g].previous
      /\ \A h \in Generations \ {g} : intent'[h] = intent[h]
  BY <1>1, IntentMoves
<1>3. \A h \in Generations : (HasIntent(h)' <=> HasIntent(h)) /\ intent'[h].previous = intent[h].previous
  BY <1>1, <1>2 DEF HasIntent
<1>4. \A h \in Generations \ {g} : intent[h].status \notin {"pending", "alias_switched", "failed"}
  BY DEF Unique, Open
<1>5. \A h \in Generations \ {g} : h \notin Open'
  BY <1>2, <1>4 DEF Open
<1>6. g \in Open' <=> s \in {"alias_switched", "failed"}
  BY <1>1, <1>2 DEF Open
<1>7. Open' \subseteq Generations
  BY DEF Open
<1>8. s \in {"completed", "superseded"} => s \notin {"alias_switched", "failed"}
  OBVIOUS
<1>9. UNCHANGED <<row, alias>> => Named'
  BY <1>3 DEF Solo, Named
<1> QED
  BY <1>3, <1>5, <1>6, <1>7, <1>8, <1>9

LEMMA CompleteSolo ==
  ASSUME ActInv, Solo, NEW p \in Procs, Complete(p)
  PROVE  Solo'
<1>1. proc[p].pc = "complete" /\ UNCHANGED <<row, generation, alias, points>>
  BY DEF Complete
<1>2. proc[p].g \in Open /\ alias = proc[p].g /\ generation[proc[p].g] = "active" /\ Types /\ Unique
  BY <1>1 DEF ActInv, Solo, Knows, IntentPCs
<1>3. CASE intent' = IntentIs(proc[p].g, "completed")
  <2>1. Open' = {} /\ Named'
    BY <1>1, <1>2, <1>3, NewStatus
  <2>2. proc[p].g \in Generations /\ Active' = Active
    BY <1>1, <1>2 DEF Open, Active
  <2>3. Active \subseteq {alias}
    BY <1>2, <2>2 DEF Unique, Active
  <2>4. Aliased' /\ Served'
    BY <1>1, <2>1, <2>2, <2>3 DEF Aliased, Served, Solo
  <2>5. Exit(p) \/ GoOn(p)
    BY DEF Complete
  <2> QED
    BY <1>1, <1>2, <2>1, <2>4, <2>5, ExitSolo, GoOnSolo
<1>4. CASE Exit(p) /\ UNCHANGED intent
  BY <1>1, <1>2, <1>4, StillExit DEF Still
<1> QED
  BY <1>3, <1>4 DEF Complete

LEMMA SupersedeSolo ==
  ASSUME ActInv, Solo, NEW p \in Procs, Supersede(p)
  PROVE  Solo'
<1>1. proc[p].pc = "supersede" /\ Exit(p) /\ UNCHANGED <<row, generation, alias, points>>
  BY DEF Supersede
<1>2. /\ proc[p].g \in Open /\ alias = intent[proc[p].g].previous /\ generation[proc[p].g] # "active"
      /\ Types /\ Unique
  BY <1>1 DEF ActInv, Solo, Knows, IntentPCs
<1>3. CASE intent' = IntentIs(proc[p].g, "superseded")
  <2>1. Open' = {} /\ Named'
    BY <1>1, <1>2, <1>3, NewStatus
  <2>2. Active' = Active /\ Active \subseteq {alias}
    BY <1>1, <1>2 DEF Solo, Aliased, Active
  <2>3. Aliased' /\ Served'
    BY <1>1, <2>1, <2>2 DEF Aliased, Served, Solo
  <2> QED
    BY <1>1, <1>2, <2>1, <2>3, ExitSolo
<1>4. CASE UNCHANGED intent
  BY <1>1, <1>2, <1>4, StillExit DEF Still
<1> QED
  BY <1>3, <1>4 DEF Supersede

LEMMA FailIntentSolo ==
  ASSUME ActInv, Solo, NEW p \in Procs, FailIntent(p)
  PROVE  Solo'
<1>1. proc[p].pc = "fail_intent" /\ Exit(p) /\ UNCHANGED <<row, generation, alias, points>>
  BY DEF FailIntent
<1>2. proc[p].g \in Open /\ proc[p].g \in Generations /\ Types /\ Unique
  BY <1>1 DEF ActInv, Solo, Knows, IntentPCs, Open
<1>3. CASE intent' = IntentIs(proc[p].g, "failed")
  <2>1. /\ Open' = {proc[p].g} /\ Named'
        /\ intent'[proc[p].g].previous = intent[proc[p].g].previous
    BY <1>1, <1>2, <1>3, NewStatus
  <2>2. Active' = Active
    BY <1>1 DEF Active
  <2>3. Aliased' /\ Served'
    BY <1>1, <1>2, <2>1, <2>2 DEF Aliased, Served, Solo
  <2> QED
    BY <1>1, <1>2, <2>1, <2>3, ExitSolo
<1>4. CASE UNCHANGED intent
  BY <1>1, <1>2, <1>4, StillExit DEF Still
<1> QED
  BY <1>3, <1>4 DEF FailIntent

\* The transaction: the generation of the alias is active, with all chunks in it.
LEMMA CommitSolo ==
  ASSUME ActInv, Solo, NEW p \in Procs, Commit(p)
  PROVE  Solo'
<1> DEFINE g == proc[p].g
<1>1. proc[p].pc = "commit" /\ UNCHANGED <<chunks, alias, points>>
  BY DEF Commit
<1>2. g \in Open /\ g \in Generations /\ alias = g /\ ~proc[p].changed /\ Types /\ Unique
  BY <1>1 DEF ActInv, Solo, Knows, IntentPCs, Open, ChangedPCs
<1>3. chunks \subseteq points[g] /\ HasIntent(g)
  <2>1. chunks = intent[g].digest /\ HasIntent(g)
    BY <1>1 DEF ActInv, Fits, LockPCs, IntentPCs
  <2> QED
    BY <1>2, <2>1 DEF ActInv, Snapshots
<1>4. CASE Finalize(g)
  <2>1. Open' = {g} /\ \A h \in Generations : HasIntent(h)' <=> HasIntent(h)
    BY <1>2, <1>4, NewStatus DEF Finalize, MarkAliasSwitched
  <2>2. \A h \in Generations : intent'[h].previous = intent[h].previous
    BY <1>2, <1>4, NewStatus DEF Finalize, MarkAliasSwitched
  <2>3. generation'[g] = "active" /\ \A h \in Generations \ {g} : generation'[h] # "active"
    BY <1>2, <1>4 DEF Finalize, ActivateGeneration, RetireActive
  <2>4. Aliased'
    BY <1>1, <1>2, <2>1, <2>3 DEF Aliased, Active
  <2>5. \A c \in Contents : row'[c] = IF c \in chunks THEN [at |-> g, done |-> TRUE] ELSE row[c]
    BY <1>4 DEF Finalize, MarkChunks
  <2>6. \A c \in Contents : row'[c].at \in Generations => HasIntent(row'[c].at)
    BY <1>3, <2>5 DEF Solo, Named
  <2>7. Named'
    BY <1>1, <2>1, <2>2, <2>6 DEF Solo, Named
  <2>8. Served'
    <3> SUFFICES ASSUME NEW c \in Contents, row'[c].done
                 PROVE  row'[c].at \in Collections /\ c \in points[row'[c].at]
      BY <1>1 DEF Served
    <3>1. CASE c \in chunks
      <4>1. row'[c] = [at |-> g, done |-> TRUE]
        BY <2>5, <3>1
      <4>2. row'[c].at = g
        BY <4>1
      <4>3. g \in Collections /\ c \in points[g]
        BY <1>2, <1>3, <3>1, Bounds
      <4> QED
        BY <4>2, <4>3
    <3>2. CASE c \notin chunks
      BY <2>5, <3>2 DEF Solo, Served
    <3> QED
      BY <3>1, <3>2
  <2>9. ASSUME NEW pc \in {"complete", "restore"}, To(p, pc) PROVE Solo'
    <3>1. pc \in PCs
      BY DEF PCs
    <3>2. PICK me \in Process : /\ proc' = [proc EXCEPT ![p] = me] /\ me.pc = pc /\ me.g = g
                                /\ me.changed = proc[p].changed
      BY <1>2, <2>9, <3>1, ToFields
    <3>3. Knows(me)'
      BY <1>1, <1>2, <2>1, <2>3, <3>2 DEF Knows, ClosedPCs, ServePCs, ReadPCs
    <3>4. \A q \in Procs \ {p} : proc[q].pc = "exited"
      BY <1>1, Others
    <3> QED
      BY <1>2, <2>4, <2>7, <2>8, <3>2, <3>3, <3>4, SoloParts
  <2>10. CASE To(p, "fail_intent")
    BY <1>1, <1>2, <2>1, <2>4, <2>7, <2>8, <2>10, FailSolo
  <2> QED
    BY <2>9, <2>10 DEF Commit
<1>5. CASE UNCHANGED <<intent, generation, row>> /\ To(p, "restore")
  <2>1. "restore" \in PCs /\ Still
    BY <1>1, <1>5 DEF PCs, Still
  <2>2. PICK me \in Process : /\ proc' = [proc EXCEPT ![p] = me] /\ me.pc = "restore" /\ me.g = g
                              /\ me.changed = proc[p].changed
    BY <1>2, <1>5, <2>1, ToFields
  <2>3. Knows(me)
    BY <1>2, <2>2 DEF Knows, ClosedPCs, ServePCs, ReadPCs
  <2>4. \A q \in Procs \ {p} : proc[q].pc = "exited"
    BY <1>1, Others
  <2> QED
    BY <1>2, <2>1, <2>2, <2>3, <2>4, StillStep
<1>6. CASE UNCHANGED <<intent, generation, row>> /\ To(p, "fail_intent")
  <2>1. Still
    BY <1>1, <1>6 DEF Still
  <2> QED
    BY <1>1, <1>2, <1>6, <2>1, StillFails DEF IntentPCs
<1> QED
  BY <1>4, <1>5, <1>6 DEF Commit

-------------------------------------------------------------------------------
(* Steps that move the alias *)

LEMMA AliasMoves ==
  ASSUME Types, Unique, Solo, UNCHANGED <<row, generation, intent, points>>,
         NEW g \in Open, alias' \in {alias, g, intent[g].previous}
  PROVE  Aliased' /\ Named' /\ Served' /\ Open' = Open
<1>1. Open' = Open /\ Active' = Active /\ Open = {g} /\ g \in Generations /\ HasIntent(g)
  BY DEF Open, Active, Unique, HasIntent
<1>2. alias \in {g, intent[g].previous} /\ Active \subseteq {g, intent[g].previous}
  BY DEF Solo, Aliased
<1>3. Aliased'
  BY <1>1, <1>2 DEF Aliased
<1>4. alias' \in Generations => HasIntent(alias')
  BY <1>1 DEF Solo, Named
<1>5. \A h \in Generations : HasIntent(h)' <=> HasIntent(h)
  BY DEF HasIntent
<1>6. Named'
  BY <1>4, <1>5 DEF Solo, Named
<1> QED
  BY <1>1, <1>3, <1>6 DEF Solo, Served

LEMMA UpdateSolo ==
  ASSUME ActInv, Solo, NEW p \in Procs, Update(p)
  PROVE  Solo'
<1>1. proc[p].pc = "update" /\ UNCHANGED <<row, generation, intent, points>>
  BY DEF Update, tables
<1>2. /\ proc[p].g \in Open /\ generation[proc[p].g] = "ready" /\ ~proc[p].changed
      /\ Types /\ Unique
  BY <1>1 DEF ActInv, Solo, Knows, IntentPCs, ReadPCs, ChangedPCs
<1>3. alias' \in {alias, proc[p].g}
  BY DEF Update
<1>4. Aliased' /\ Named' /\ Served' /\ Open' = Open
  BY <1>1, <1>2, <1>3, AliasMoves
<1>5. CASE alias' = proc[p].g /\ Become(p, Switched(proc[p]))
  <2>1. PICK me : me = Switched(proc[p])
    OBVIOUS
  <2>2. me.pc = "commit" /\ me.g = proc[p].g /\ ~me.changed
    BY <1>2, <2>1, ProcessParts DEF Process, Switched
  <2>3. proc' = [proc EXCEPT ![p] = me] /\ Knows(me)'
    BY <1>1, <1>2, <1>4, <1>5, <2>1, <2>2 DEF Become, Knows, ClosedPCs, ServePCs, ReadPCs
  <2>4. \A q \in Procs \ {p} : proc[q].pc = "exited"
    BY <1>1, Others
  <2> QED
    BY <1>2, <1>4, <2>3, <2>4, SoloParts
<1>6. CASE To(p, "fail_intent")
  BY <1>1, <1>2, <1>4, <1>6, FailSolo
<1> QED
  BY <1>5, <1>6 DEF Update

LEMMA UnswitchSolo ==
  ASSUME ActInv, Solo, NEW p \in Procs, Unswitch(p)
  PROVE  Solo'
<1>1. proc[p].pc = "unswitch" /\ UNCHANGED <<row, generation, intent, points>>
  BY DEF Unswitch, tables
<1>2. /\ proc[p].g \in Open /\ (proc[p].changed => generation[proc[p].g] = "ready")
      /\ Types /\ Unique
  BY <1>1 DEF ActInv, Solo, Knows, IntentPCs
<1>3. alias' \in {alias, intent[proc[p].g].previous}
  BY DEF Unswitch
<1>4. Aliased' /\ Named' /\ Served' /\ Open' = Open
  BY <1>1, <1>2, <1>3, AliasMoves
<1>5. CASE proc[p].changed /\ alias' = intent[proc[p].g].previous /\ To(p, "fail_generation")
  <2>1. "fail_generation" \in PCs
    BY DEF PCs
  <2>2. PICK me \in Process : /\ proc' = [proc EXCEPT ![p] = me] /\ me.pc = "fail_generation"
                              /\ me.g = proc[p].g
    BY <1>2, <1>5, <2>1, ToFields
  <2>3. Knows(me)'
    BY <1>1, <1>2, <1>4, <1>5, <2>2 DEF Knows, ClosedPCs, ServePCs, ReadPCs, ChangedPCs
  <2>4. \A q \in Procs \ {p} : proc[q].pc = "exited"
    BY <1>1, Others
  <2> QED
    BY <1>2, <1>4, <2>2, <2>3, <2>4, SoloParts
<1>6. CASE To(p, "fail_intent")
  BY <1>1, <1>2, <1>4, <1>6, FailSolo
<1> QED
  BY <1>5, <1>6 DEF Unswitch, Restored

-------------------------------------------------------------------------------
(* Steps that change a generation *)

\* No generation becomes active.
LEMMA Fewer ==
  ASSUME Solo, UNCHANGED <<row, intent, alias, points>>, Active' \subseteq Active
  PROVE  Aliased' /\ Named' /\ Served' /\ Open' = Open
<1>1. Open' = Open
  BY DEF Open
<1>2. Aliased'
  BY <1>1 DEF Solo, Aliased
<1>3. Named' /\ Served'
  BY DEF Solo, Named, Served, HasIntent
<1> QED
  BY <1>1, <1>2, <1>3

LEMMA FailedActive ==
  ASSUME Types, NEW g \in Generations, Failed(g) \/ UNCHANGED generation
  PROVE  Active' \subseteq Active /\ (generation[g] # "active" => generation'[g] # "active")
  BY DEF Types, Failed, Active

LEMMA FailGenerationSolo ==
  ASSUME ActInv, Solo, NEW p \in Procs, FailGeneration(p)
  PROVE  Solo'
<1>1. /\ proc[p].pc = "fail_generation" /\ UNCHANGED <<row, intent, alias, points>>
      /\ To(p, "supersede")
  BY DEF FailGeneration
<1>2. /\ proc[p].g \in Open /\ alias = intent[proc[p].g].previous /\ generation[proc[p].g] # "active"
      /\ Types /\ proc[p].g \in Generations
  BY <1>1 DEF ActInv, Solo, Knows, IntentPCs, Open
<1>3. Active' \subseteq Active /\ generation'[proc[p].g] # "active"
  BY <1>2, FailedActive DEF FailGeneration
<1>4. Aliased' /\ Named' /\ Served' /\ Open' = Open
  BY <1>1, <1>3, Fewer
<1>5. "supersede" \in PCs
  BY DEF PCs
<1>6. PICK me \in Process : proc' = [proc EXCEPT ![p] = me] /\ me.pc = "supersede" /\ me.g = proc[p].g
  BY <1>1, <1>2, <1>5, ToFields
<1>7. Knows(me)'
  BY <1>1, <1>2, <1>3, <1>4, <1>6 DEF Knows, ClosedPCs, ServePCs, ReadPCs, ChangedPCs
<1>8. \A q \in Procs \ {p} : proc[q].pc = "exited"
  BY <1>1, Others
<1> QED
  BY <1>2, <1>4, <1>6, <1>7, <1>8, SoloParts

LEMMA DiscardSolo ==
  ASSUME ActInv, Solo, NEW p \in Procs, Discard(p)
  PROVE  Solo'
<1>1. proc[p].pc = "discard" /\ UNCHANGED <<row, intent, alias, points>> /\ Exit(p)
  BY DEF Discard
<1>2. proc[p].g \in Generations /\ Types
  BY <1>1 DEF ActInv, Fits
<1>3. Active' \subseteq Active
  BY <1>2, FailedActive DEF Discard
<1>4. Aliased' /\ Named' /\ Served'
  BY <1>1, <1>3, Fewer
<1> QED
  BY <1>1, <1>2, <1>4, ExitSolo

LEMMA CreateSolo ==
  ASSUME ActInv, Solo, NEW p \in Procs, Create(p)
  PROVE  Solo'
<1>1. proc[p].pc = "create" /\ UNCHANGED <<row, intent, alias, points>> /\ Types
  BY DEF Create, ActInv
<1>2. PICK g \in Generations :
        \/ /\ generation' = CreateEmbeddingGeneration(g)
           /\ Become(p, [proc[p] EXCEPT !.pc = IF proc[p].phys = None THEN "build" ELSE "discard",
                           !.own = TRUE, !.g = g])
        \/ Exit(p) /\ generation' \in {generation, CreateEmbeddingGeneration(g)}
  BY DEF Create
<1>3. Active' \subseteq Active
  BY <1>1, <1>2 DEF Types, Active, CreateEmbeddingGeneration
<1>4. Aliased' /\ Named' /\ Served' /\ Open' = Open
  BY <1>1, <1>3, Fewer
<1>5. CASE Become(p, [proc[p] EXCEPT !.pc = IF proc[p].phys = None THEN "build" ELSE "discard",
                        !.own = TRUE, !.g = g])
  <2>1. PICK pc \in {"build", "discard"} : pc = IF proc[p].phys = None THEN "build" ELSE "discard"
    OBVIOUS
  <2>2. PICK me : me = [proc[p] EXCEPT !.pc = pc, !.own = TRUE, !.g = g]
    OBVIOUS
  <2>3. ~proc[p].changed /\ Open = {}
    BY <1>1 DEF Solo, Knows, ChangedPCs, ClosedPCs
  <2>4. me.pc = pc /\ ~me.changed
    BY <1>1, <2>2, <2>3, ProcessParts DEF Process
  <2>5. Knows(me)'
    BY <1>4, <2>3, <2>4 DEF Knows, IntentPCs, ServePCs, ReadPCs
  <2>6. proc' = [proc EXCEPT ![p] = me]
    BY <1>5, <2>1, <2>2 DEF Become
  <2>7. \A q \in Procs \ {p} : proc[q].pc = "exited"
    BY <1>1, Others
  <2> QED
    BY <1>1, <1>4, <2>5, <2>6, <2>7, SoloParts
<1>6. CASE Exit(p)
  BY <1>1, <1>4, <1>6, ExitSolo
<1> QED
  BY <1>2, <1>5, <1>6

LEMMA ReadySolo ==
  ASSUME ActInv, Solo, NEW p \in Procs, Ready(p)
  PROVE  Solo'
<1>1. proc[p].pc = "ready" /\ UNCHANGED <<row, intent, alias, points>> /\ Types
  BY DEF Ready, ActInv
<1>2. proc[p].g \in Generations /\ ~proc[p].changed /\ Open = {}
  BY <1>1 DEF ActInv, Fits, OwnPCs, Solo, Knows, ClosedPCs, ChangedPCs
<1>3. generation' \in {generation, MarkEmbeddingGenerationReady(proc[p].g)}
  BY DEF Ready
<1>4. Active' \subseteq Active
  BY <1>1, <1>2, <1>3 DEF Types, Active, MarkEmbeddingGenerationReady
<1>5. Aliased' /\ Named' /\ Served' /\ Open' = Open
  BY <1>1, <1>4, Fewer
<1>6. CASE To(p, "previous") /\ generation' = MarkEmbeddingGenerationReady(proc[p].g)
  <2>1. "previous" \in PCs
    BY DEF PCs
  <2>2. PICK me \in Process : /\ proc' = [proc EXCEPT ![p] = me] /\ me.pc = "previous"
                              /\ me.g = proc[p].g /\ me.changed = proc[p].changed
    BY <1>1, <1>6, <2>1, ToFields
  <2>3. generation'[me.g] = "ready"
    BY <1>1, <1>2, <1>6, <2>2 DEF Types, MarkEmbeddingGenerationReady
  <2>4. Knows(me)'
    BY <1>2, <1>5, <2>2, <2>3 DEF Knows, IntentPCs, ServePCs, ReadPCs
  <2>5. \A q \in Procs \ {p} : proc[q].pc = "exited"
    BY <1>1, Others
  <2> QED
    BY <1>1, <1>5, <2>2, <2>4, <2>5, SoloParts
<1>7. CASE To(p, "discard")
  BY <1>1, <1>5, <1>7, DiscardsSolo DEF OwnPCs
<1> QED
  BY <1>6, <1>7 DEF Ready

\* A collection that the alias never named is filled: no row is there.
LEMMA BuildSolo ==
  ASSUME ActInv, Solo, NEW p \in Procs, Build(p)
  PROVE  Solo'
<1>1. proc[p].pc = "build" /\ UNCHANGED <<row, generation, intent, alias>> /\ Types
  BY DEF Build, ActInv, tables
<1>2. proc[p].g \in Generations /\ ~HasIntent(proc[p].g) /\ ~proc[p].changed /\ Open = {}
  BY <1>1 DEF ActInv, Fits, OwnPCs, Solo, Knows, ClosedPCs, ChangedPCs
<1>3. \A k \in Collections \ {proc[p].g} : points'[k] = points[k]
  BY <1>1 DEF Build, Types
<1>4. Open' = Open /\ Aliased' /\ Named'
  BY <1>1 DEF Solo, Open, Aliased, Active, Named, HasIntent
<1>5. Served'
  BY <1>1, <1>2, <1>3 DEF Solo, Served, Named
<1>6. CASE Become(p, [proc[p] EXCEPT !.pc = "ready", !.phys = proc[p].g])
  <2>1. PICK me : me = [proc[p] EXCEPT !.pc = "ready", !.phys = proc[p].g]
    OBVIOUS
  <2>2. me.pc = "ready" /\ ~me.changed /\ proc' = [proc EXCEPT ![p] = me]
    BY <1>1, <1>2, <1>6, <2>1, ProcessParts DEF Process, Become
  <2>3. Knows(me)'
    BY <1>2, <1>4, <2>2 DEF Knows, IntentPCs, ServePCs, ReadPCs
  <2>4. \A q \in Procs \ {p} : proc[q].pc = "exited"
    BY <1>1, Others
  <2> QED
    BY <1>1, <1>4, <1>5, <2>2, <2>3, <2>4, SoloParts
<1>7. CASE To(p, "discard")
  BY <1>1, <1>4, <1>5, <1>7, DiscardsSolo DEF OwnPCs
<1> QED
  BY <1>6, <1>7 DEF Build

\* The intent names the collection that the alias is at.
LEMMA IntendSolo ==
  ASSUME ActInv, Solo, NEW p \in Procs, Intend(p)
  PROVE  Solo'
<1> DEFINE g == proc[p].g
<1>1. proc[p].pc = "intend" /\ UNCHANGED <<row, generation, alias, points>> /\ Types
  BY DEF Intend, ActInv
<1>2. /\ g \in Generations /\ ~HasIntent(g) /\ ~proc[p].changed /\ Open = {}
      /\ proc[p].current = alias /\ generation[g] = "ready"
  BY <1>1 DEF ActInv, Fits, OwnPCs, Solo, Knows, ClosedPCs, ReadPCs, ChangedPCs
<1>3. ASSUME intent' = CreateEmbeddingActivationIntent(p)
      PROVE  Open' = {g} /\ Aliased' /\ Named' /\ Served'
  <2>1. intent' = [intent EXCEPT ![g] = [status |-> "pending", previous |-> alias, digest |-> proc[p].hand]]
    BY <1>2, <1>3 DEF CreateEmbeddingActivationIntent
  <2>2. intent'[g].status = "pending" /\ intent'[g].previous = alias
    BY <1>1, <1>2, <2>1 DEF Types
  <2>3. \A h \in Generations \ {g} : intent'[h] = intent[h]
    BY <1>1, <2>1 DEF Types
  <2>4. Open' = {g}
    BY <1>2, <2>2, <2>3 DEF Open
  <2>5. Active \subseteq {alias}
    BY <1>2 DEF Solo, Aliased
  <2>6. Aliased'
    BY <1>1, <2>2, <2>4, <2>5 DEF Aliased, Active
  <2>7. \A h \in Generations : HasIntent(h) => HasIntent(h)'
    BY <2>2, <2>3 DEF HasIntent
  <2>8. \A h \in Generations : HasIntent(h)' => h = g \/ HasIntent(h)
    BY <2>3 DEF HasIntent
  <2>9. Named'
    <3>1. /\ alias \in Generations => HasIntent(alias)'
          /\ \A c \in Contents : row[c].at \in Generations => HasIntent(row[c].at)
      BY <1>1, <2>7 DEF Solo, Named
    <3>2. \A h \in Generations : HasIntent(h)' /\ intent'[h].previous \in Generations
                                   => intent'[intent'[h].previous].status # "absent"
      <4> SUFFICES ASSUME NEW h \in Generations, HasIntent(h)', intent'[h].previous \in Generations
                   PROVE  intent'[intent'[h].previous].status # "absent"
        OBVIOUS
      <4>1. CASE h = g
        BY <1>1, <2>2, <3>1, <4>1 DEF HasIntent
      <4>2. CASE h # g
        <5>1. HasIntent(h) /\ intent'[h] = intent[h]
          BY <2>3, <2>8, <4>2
        <5>2. HasIntent(intent[h].previous)
          BY <5>1 DEF Solo, Named
        <5> QED
          BY <2>7, <5>1, <5>2 DEF HasIntent
      <4> QED
        BY <4>1, <4>2
    <3>3. \A c \in Contents : row'[c].at \in Generations => intent'[row'[c].at].status # "absent"
      BY <1>1, <2>7, <3>1 DEF HasIntent
    <3> QED
      BY <1>1, <3>1, <3>2, <3>3 DEF Named, HasIntent
  <2> QED
    BY <1>1, <2>4, <2>6, <2>9 DEF Solo, Served
<1>4. CASE /\ intent' = CreateEmbeddingActivationIntent(p)
           /\ Become(p, [proc[p] EXCEPT !.pc = "begin", !.hand = {}])
  <2>1. PICK me : me = [proc[p] EXCEPT !.pc = "begin", !.hand = {}]
    OBVIOUS
  <2>2. /\ me.pc = "begin" /\ me.g = g /\ me.current = alias /\ ~me.changed
        /\ proc' = [proc EXCEPT ![p] = me]
    BY <1>1, <1>2, <1>4, <2>1, ProcessParts DEF Process, Become
  <2>3. Knows(me)'
    BY <1>1, <1>2, <1>3, <1>4, <2>2 DEF Knows, ClosedPCs, ServePCs
  <2>4. \A q \in Procs \ {p} : proc[q].pc = "exited"
    BY <1>1, Others
  <2> QED
    BY <1>1, <1>3, <1>4, <2>2, <2>3, <2>4, SoloParts
<1>5. CASE intent' = CreateEmbeddingActivationIntent(p) /\ To(p, "discard")
  BY <1>1, <1>3, <1>5, DiscardsSolo DEF OwnPCs
<1>6. CASE UNCHANGED intent /\ To(p, "discard")
  BY <1>1, <1>6, StillGlobals, DiscardsSolo DEF OwnPCs, Still
<1> QED
  BY <1>4, <1>5, <1>6 DEF Intend

-------------------------------------------------------------------------------
(* The server *)

LEMMA OpenActiveSolo ==
  ASSUME ActInv, Solo, NEW p \in Procs, OpenActive(p)
  PROVE  Solo'
<1>1. proc[p].pc = "open" /\ UNCHANGED <<row, generation, intent, points>> /\ Types
  BY DEF OpenActive, ActInv, tables
<1>2. Open = {} /\ Open' = {}
  BY <1>1 DEF Solo, Knows, ClosedPCs, Open
<1>3. alias' \in {alias, IF alias = None THEN 0 ELSE alias}
  BY DEF OpenActive
<1>4. alias' = alias \/ (alias = None /\ alias' = 0)
  BY <1>3
<1>5. None \notin Generations /\ 0 \notin Generations
  BY Bounds DEF Generations, None
<1>6. Active' = Active /\ Active \subseteq {alias} /\ Active \subseteq Generations
  BY <1>1, <1>2 DEF Solo, Aliased, Active
<1>7. Aliased'
  BY <1>2, <1>4, <1>5, <1>6 DEF Aliased
<1>8. Named' /\ Served'
  BY <1>1, <1>4, <1>5 DEF Solo, Named, Served, HasIntent
<1>9. CASE /\ alias' = IF alias = None THEN 0 ELSE alias
           /\ Become(p, [Fresh("server") EXCEPT !.pc = "serve", !.phys = alias'])
  <2>1. PICK me : me = [Fresh("server") EXCEPT !.pc = "serve", !.phys = alias']
    OBVIOUS
  <2>2. me.pc = "serve" /\ me.phys = alias' /\ ~me.changed
    BY <2>1 DEF Fresh
  <2>3. alias' # None
    BY <1>9 DEF None
  <2>4. Knows(me)'
    BY <1>2, <2>2, <2>3 DEF Knows, IntentPCs, ReadPCs, ServePCs, ClosedPCs
  <2>5. proc' = [proc EXCEPT ![p] = me]
    BY <1>9, <2>1 DEF Become
  <2>6. \A q \in Procs \ {p} : proc[q].pc = "exited"
    BY <1>1, Others
  <2> QED
    BY <1>1, <1>7, <1>8, <2>4, <2>5, <2>6, SoloParts
<1>10. CASE Exit(p)
  BY <1>1, <1>7, <1>8, <1>10, ExitSolo
<1> QED
  BY <1>9, <1>10 DEF OpenActive

\* What a serving process knows whatever the rows and points are.
LEMMA ServeKnows ==
  ASSUME NEW me, me.pc = "serve", ~me.changed, me.phys = alias, alias # None, Open = {}
  PROVE  Knows(me)
  BY DEF Knows, IntentPCs, ReadPCs

LEMMA Serving ==
  ASSUME Solo, NEW p \in Procs, proc[p].pc \in ServePCs
  PROVE  proc[p].phys = alias /\ alias # None /\ Open = {} /\ ~proc[p].changed /\ proc[p].pc # "exited"
  BY DEF Solo, Knows, ServePCs, ClosedPCs, ChangedPCs

LEMMA MarkIndexingSolo ==
  ASSUME ActInv, Solo, NEW p \in Procs, MarkIndexing(p)
  PROVE  Solo'
<1>1. proc[p].pc = "serve" /\ UNCHANGED <<generation, intent, alias, points>> /\ Types
  BY DEF MarkIndexing, ActInv
<1>2. proc[p].phys = alias /\ alias # None /\ Open = {} /\ ~proc[p].changed
  BY <1>1, Serving DEF ServePCs
<1>3. PICK c \in chunks : /\ row' = [row EXCEPT ![c] = [at |-> proc[p].phys, done |-> FALSE]]
                          /\ Become(p, [proc[p] EXCEPT !.pc = "upsert", !.hand = {c}])
  BY DEF MarkIndexing
<1>4. row'[c].at = alias /\ ~row'[c].done /\ \A d \in Contents \ {c} : row'[d] = row[d]
  <2>1. c \in Contents /\ row \in [Contents -> Embedding]
    BY <1>1, <1>3 DEF Types
  <2>2. row'[c] = [at |-> proc[p].phys, done |-> FALSE] /\ \A d \in Contents \ {c} : row'[d] = row[d]
    BY <1>3, <2>1
  <2> QED
    BY <1>2, <2>2
<1>5. Open' = {} /\ Active' = Active
  BY <1>1, <1>2 DEF Open, Active
<1>6. Aliased' /\ Served'
  BY <1>1, <1>2, <1>4, <1>5 DEF Solo, Aliased, Served
<1>7. Named'
  <2>1. \A d \in Contents : row'[d].at \in Generations => HasIntent(row'[d].at)
    BY <1>4 DEF Solo, Named
  <2> QED
    BY <1>1, <2>1 DEF Solo, Named, HasIntent
<1>8. PICK me : me = [proc[p] EXCEPT !.pc = "upsert", !.hand = {c}]
  OBVIOUS
<1>9. /\ me.pc = "upsert" /\ me.hand = {c} /\ me.phys = alias /\ ~me.changed
      /\ proc' = [proc EXCEPT ![p] = me]
  BY <1>1, <1>2, <1>3, <1>8, ProcessParts DEF Process, Become
<1>10. Knows(me)'
  BY <1>1, <1>2, <1>4, <1>5, <1>9 DEF Knows, IntentPCs, ReadPCs
<1>11. \A q \in Procs \ {p} : proc[q].pc = "exited"
  BY <1>1, Others
<1> QED
  BY <1>1, <1>6, <1>7, <1>9, <1>10, <1>11, SoloParts

\* The points go where the rows say, because the alias has not moved.
LEMMA UpsertSolo ==
  ASSUME ActInv, Solo, NEW p \in Procs, Upsert(p)
  PROVE  Solo'
<1>1. proc[p].pc = "upsert" /\ UNCHANGED <<row, generation, intent, alias>> /\ Types
  BY DEF Upsert, ActInv, tables
<1>2. /\ proc[p].phys = alias /\ alias # None /\ Open = {} /\ ~proc[p].changed
      /\ \A c \in proc[p].hand : row[c].at = alias
  BY <1>1, Serving DEF Solo, Knows, ServePCs
<1>3. alias \in Collections
  BY <1>1, <1>2 DEF Types
<1>4. UNCHANGED points \/ points' = [points EXCEPT ![alias] = @ \cup proc[p].hand]
  BY DEF Upsert
<1>5. \A k \in Collections : points[k] \subseteq points'[k]
  BY <1>1, <1>4 DEF Types
<1>6. Open' = {} /\ Aliased' /\ Named'
  BY <1>1, <1>2 DEF Solo, Open, Aliased, Active, Named, HasIntent
<1>7. Served'
  BY <1>1, <1>5 DEF Solo, Served
<1>8. \A q \in Procs \ {p} : proc[q].pc = "exited"
  BY <1>1, Others
<1>9. CASE To(p, "embedded") /\ points' = [points EXCEPT ![alias] = @ \cup proc[p].hand]
  <2>1. "embedded" \in PCs
    BY DEF PCs
  <2>2. PICK me \in Process : /\ proc' = [proc EXCEPT ![p] = me] /\ me.pc = "embedded"
                              /\ me.hand = proc[p].hand /\ me.changed = proc[p].changed
                              /\ me.phys = proc[p].phys
    BY <1>1, <1>9, <2>1, ToFields
  <2>3. me.hand \subseteq points'[alias]
    BY <1>1, <1>3, <1>9, <2>2 DEF Types
  <2>4. Knows(me)'
    BY <1>1, <1>2, <1>6, <2>2, <2>3 DEF Knows, IntentPCs, ReadPCs
  <2> QED
    BY <1>1, <1>6, <1>7, <1>8, <2>2, <2>4, SoloParts
<1>10. CASE Become(p, [proc[p] EXCEPT !.pc = "serve", !.hand = {}])
  <2>1. PICK me : me = [proc[p] EXCEPT !.pc = "serve", !.hand = {}]
    OBVIOUS
  <2>2. /\ me.pc = "serve" /\ me.phys = alias /\ ~me.changed
        /\ proc' = [proc EXCEPT ![p] = me]
    BY <1>1, <1>2, <1>10, <2>1, ProcessParts DEF Process, Become
  <2>3. Knows(me)'
    BY <1>1, <1>2, <1>6, <2>2 DEF Knows, IntentPCs, ReadPCs
  <2> QED
    BY <1>1, <1>6, <1>7, <1>8, <2>2, <2>3, SoloParts
<1> QED
  BY <1>9, <1>10 DEF Upsert

LEMMA CompleteEmbeddingSolo ==
  ASSUME ActInv, Solo, NEW p \in Procs, CompleteEmbedding(p)
  PROVE  Solo'
<1>1. proc[p].pc = "embedded" /\ UNCHANGED <<generation, intent, alias, points>> /\ Types
  BY DEF CompleteEmbedding, ActInv
<1>2. /\ proc[p].phys = alias /\ alias # None /\ Open = {} /\ ~proc[p].changed
      /\ \A c \in proc[p].hand : row[c].at = alias
      /\ proc[p].hand \subseteq points[alias]
  BY <1>1, Serving DEF Solo, Knows, ServePCs
<1>3. alias \in Collections
  BY <1>1, <1>2 DEF Types
<1>4. \A c \in Contents : row'[c] = IF c \in proc[p].hand THEN [row[c] EXCEPT !.done = TRUE] ELSE row[c]
  BY DEF CompleteEmbedding
<1>5. \A c \in Contents : row'[c].at = row[c].at /\ (c \notin proc[p].hand => row'[c].done = row[c].done)
  <2> SUFFICES ASSUME NEW c \in Contents
               PROVE  row'[c].at = row[c].at /\ (c \notin proc[p].hand => row'[c].done = row[c].done)
    OBVIOUS
  <2>1. row[c] \in Embedding
    BY <1>1 DEF Types
  <2>2. [row[c] EXCEPT !.done = TRUE].at = row[c].at
    BY <2>1 DEF Embedding
  <2> QED
    BY <1>4, <2>2
<1>6. Open' = {} /\ Aliased' /\ Named'
  BY <1>1, <1>2, <1>5 DEF Solo, Open, Aliased, Active, Named, HasIntent
<1>7. Served'
  <2> SUFFICES ASSUME NEW c \in Contents, row'[c].done
               PROVE  row[c].at \in Collections /\ c \in points[row[c].at]
    BY <1>1, <1>5 DEF Served
  <2>1. CASE c \in proc[p].hand
    BY <1>2, <1>3, <2>1
  <2>2. CASE c \notin proc[p].hand
    BY <1>5, <2>2 DEF Solo, Served
  <2> QED
    BY <2>1, <2>2
<1>8. PICK me : me = [proc[p] EXCEPT !.pc = "serve", !.hand = {}]
  OBVIOUS
<1>9. /\ me.pc = "serve" /\ me.phys = alias /\ ~me.changed
      /\ proc' = [proc EXCEPT ![p] = me]
  BY <1>1, <1>2, <1>8, ProcessParts DEF Process, Become, CompleteEmbedding
<1>10. Knows(me)'
  BY <1>1, <1>2, <1>6, <1>9 DEF Knows, IntentPCs, ReadPCs
<1>11. \A q \in Procs \ {p} : proc[q].pc = "exited"
  BY <1>1, Others
<1> QED
  BY <1>1, <1>6, <1>7, <1>9, <1>10, <1>11, SoloParts

-------------------------------------------------------------------------------
(* The theorems *)

LEMMA SoloInit == Init => SoloInv
<1> SUFFICES ASSUME Init PROVE Solo
  BY DEF SoloInv
<1>1. Exited.pc = "exited" /\ ~Exited.changed
  BY DEF Exited, Fresh
<1>2. \A p \in Procs : proc[p].pc = "exited" /\ ~proc[p].changed
  BY <1>1 DEF Init
<1>3. Alone /\ \A p \in Procs : Knows(proc[p])
  BY <1>2 DEF Alone, Knows, IntentPCs, ClosedPCs, ServePCs, ReadPCs
<1>4. \A g \in Generations : ~HasIntent(g) /\ generation[g] # "active"
  BY DEF Init, NoIntent, HasIntent
<1>5. Open = {} /\ Active = {}
  BY DEF Open, Active, Init, NoIntent
<1>6. alias \notin Generations
  <2>1. alias = -1 \/ alias = 0
    BY DEF Init, None
  <2>2. \A g \in Generations : g \in Int /\ g >= 1
    BY ActivationAssumption DEF Generations
  <2> QED
    BY <2>1, <2>2
<1>7. \A c \in Contents : row[c].at = None /\ ~row[c].done
  BY DEF Init
<1>8. None \notin Generations
  BY DEF Generations, None
<1>9. Aliased /\ Named /\ Served
  BY <1>4, <1>5, <1>6, <1>7, <1>8 DEF Aliased, Named, Served
<1> QED
  BY <1>3, <1>9 DEF Solo

LEMMA SoloStep == ActInv /\ SoloInv /\ [Next]_vars => SoloInv'
<1> SUFFICES ASSUME ActInv, SoloInv, [Next]_vars, ~overlap'
             PROVE  Solo'
  BY DEF SoloInv
<1>1. Types
  BY DEF ActInv
<1>2. CASE UNCHANGED vars
  <2>1. Solo /\ Still /\ UNCHANGED proc
    BY <1>2 DEF vars, tables, SoloInv, Still
  <2>2. Aliased' /\ Named' /\ Served' /\ Open' = Open
    BY <2>1, StillGlobals
  <2>3. Alone' /\ \A q \in Procs : Knows(proc[q])'
    BY <2>1, <2>2 DEF Solo, Alone, Knows, Still
  <2> QED
    BY <2>2, <2>3 DEF Solo
<1>3. ASSUME NEW p \in Procs, Start(p) PROVE Solo'
  <2>1. ~overlap
    BY <1>3 DEF Start
  <2> QED
    BY <1>1, <1>3, <2>1, StartSolo DEF SoloInv
<1>4. ASSUME NEW p \in Procs, Reconcile(p) PROVE Solo'
  <2>1. ~overlap
    BY <1>4 DEF Reconcile, Load, Status, Inspect, Complete, Validate
  <2>2. Solo
    BY <2>1 DEF SoloInv
  <2> QED
    BY <1>1, <1>4, <2>2, LoadSolo, StatusSolo, InspectSolo, CompleteSolo, ValidateSolo DEF Reconcile
<1>5. ASSUME NEW p \in Procs, Activate(p) PROVE Solo'
  <2>1. ~overlap
    BY <1>5 DEF Activate, Begin, Switch, Update, Commit
  <2>2. Solo
    BY <2>1 DEF SoloInv
  <2> QED
    BY <1>1, <1>5, <2>2, BeginSolo, SwitchSolo, UpdateSolo, CommitSolo DEF Activate
<1>6. ASSUME NEW p \in Procs, Recover(p) PROVE Solo'
  <2>1. ~overlap
    BY <1>6 DEF Recover, Restore, Unswitch, FailGeneration, Supersede, FailIntent
  <2>2. Solo
    BY <2>1 DEF SoloInv
  <2> QED
    BY <1>1, <1>6, <2>2, RestoreSolo, UnswitchSolo, FailGenerationSolo, SupersedeSolo, FailIntentSolo DEF Recover
<1>7. ASSUME NEW p \in Procs, Rebuild(p) PROVE Solo'
  <2>1. ~overlap
    BY <1>7 DEF Rebuild, List, Create, Build, Ready, Previous, Intend, Discard
  <2>2. Solo
    BY <2>1 DEF SoloInv
  <2>3. CASE List(p) \/ Create(p) \/ Build(p)
    BY <1>1, <2>2, <2>3, ListSolo, CreateSolo, BuildSolo
  <2>4. CASE Ready(p) \/ Previous(p) \/ Intend(p) \/ Discard(p)
    BY <1>1, <2>2, <2>4, ReadySolo, PreviousSolo, IntendSolo, DiscardSolo
  <2> QED
    BY <1>7, <2>3, <2>4 DEF Rebuild
<1>8. ASSUME NEW p \in Procs, Serve(p) PROVE Solo'
  <2>1. ~overlap
    BY <1>8 DEF Serve, OpenActive, StoreChunk, MarkIndexing, Upsert, CompleteEmbedding, StopServing
  <2>2. Solo
    BY <2>1 DEF SoloInv
  <2>3. CASE OpenActive(p) \/ StoreChunk(p) \/ MarkIndexing(p)
    BY <1>1, <2>2, <2>3, OpenActiveSolo, StoreChunkSolo, MarkIndexingSolo
  <2>4. CASE Upsert(p) \/ CompleteEmbedding(p) \/ StopServing(p)
    BY <1>1, <2>2, <2>4, UpsertSolo, CompleteEmbeddingSolo, StopSolo
  <2> QED
    BY <1>8, <2>3, <2>4 DEF Serve
<1>9. ASSUME NEW p \in Procs, Crash(p) PROVE Solo'
  <2>1. ~overlap
    BY <1>9 DEF Crash
  <2> QED
    BY <1>1, <1>9, <2>1, StopSolo DEF SoloInv
<1> QED
  BY <1>2, <1>3, <1>4, <1>5, <1>6, <1>7, <1>8, <1>9 DEF Next

\* As long as processes run one after the other the alias is at the active generation
\* whenever no intent is open, whatever call fails and wherever a process crashes
\* (reindex.go finalizeDurableActivation, reconcile.go Reconcile).
THEOREM AliasIsActiveAloneHolds == Spec => []AliasIsActiveAlone
<1>1. SoloInv => AliasIsActiveAlone
  BY DEF SoloInv, Solo, Aliased, Active, AliasIsActiveAlone, AliasIsActive
<1> QED
  BY <1>1, ActInit, ActStep, SoloInit, SoloStep, PTL DEF Spec

\* A chunk that PostgreSQL calls embedded in the collection of the alias then has its
\* point there (reindex.go finalizeGeneration, the worker's StoreEmbeddings).
THEOREM CompletedIsServedAloneHolds == Spec => []CompletedIsServedAlone
<1>1. ActInv /\ SoloInv => CompletedIsServedAlone
  <2> SUFFICES ASSUME ActInv, Solo, NEW c \in chunks, row[c] = [at |-> alias, done |-> TRUE]
               PROVE  c \in points[alias]
    BY DEF SoloInv, CompletedIsServedAlone, CompletedIsServed
  <2>1. c \in Contents
    BY DEF ActInv, Types
  <2>2. row[c].done /\ row[c].at = alias
    OBVIOUS
  <2> QED
    BY <2>1, <2>2 DEF Solo, Served
<1> QED
  BY <1>1, ActInit, ActStep, SoloInit, SoloStep, PTL DEF Spec

===============================================================================
