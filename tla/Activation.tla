------------------------------ MODULE Activation ------------------------------
(***************************************************************************)
(* Activation of a rebuilt embedding generation: the reindex command, the  *)
(* reconciliation that it and the server run first, and the server that    *)
(* stores and embeds chunks meanwhile.  PostgreSQL holds the chunks, the   *)
(* generations and the activation intents; Qdrant holds the collections    *)
(* and the alias that readers and writers go through.                      *)
(*                                                                         *)
(* A chunk is its content and an embedding identity is fixed, so two       *)
(* snapshots have one digest when they are the same set, and the point of  *)
(* a chunk is the chunk.  Chunks are only added: replaced contents and     *)
(* cleanup tasks are in ChunkEmbedding.  At most MaxFaults times a process *)
(* crashes or a call to PostgreSQL or Qdrant fails (a lost connection, a   *)
(* deadline, a cancelled command), before or after it took effect.         *)
(***************************************************************************)
EXTENDS Integers, FiniteSets

CONSTANTS
  Contents,        \* contents of chunks
  Procs,           \* processes that run at the same time
  MaxGenerations,  \* bound on generations, which are numbered in order of creation
  MaxFaults        \* bound on failed calls and crashes

ASSUME ActivationAssumption == MaxGenerations \in Nat \ {0} /\ MaxFaults \in Nat

VARIABLES
  chunks,      \* paper_chunks: the contents stored
  row,         \* paper_chunks: collection and state of each chunk's embedding
  generation,  \* embedding_generations: status
  intent,      \* embedding_activation_intents: status, previous collection, snapshot
  alias,       \* Qdrant: the collection the alias targets
  points,      \* Qdrant: points of each collection
  proc,        \* the processes
  overlap,     \* whether two processes have ever run at the same time
  faults       \* failed calls and crashes so far

tables == <<chunks, row, generation, intent>>
vars   == <<chunks, row, generation, intent, alias, points, proc, overlap, faults>>

-------------------------------------------------------------------------------
\* Collection 0 is the one the server creates, the others belong to generations.
None        == -1
Generations == 1 .. MaxGenerations
Collections == 0 .. MaxGenerations

Embedding == [at : Collections \cup {None}, done : BOOLEAN]
Intent    == [status : {"absent", "pending", "alias_switched", "completed", "failed", "superseded"},
              previous : Collections \cup {None}, digest : SUBSET Contents]
NoIntent  == [status |-> "absent", previous |-> None, digest |-> {}]

\* Where a process stands; the actions below say what each pc precedes.
PCs == {"exited", "load", "status", "inspect", "complete", "validate", "begin", "switch",
        "update", "commit", "restore", "unswitch", "fail_generation", "supersede", "fail_intent",
        "list", "create", "build", "ready", "previous", "intend", "discard",
        "open", "serve", "upsert", "embedded"}

\* A process: its program; whether it works on a generation of its own; that
\* generation, its status and the alias target as it read them; aliasSwitched;
\* whether the snapshot had changed; chunks in hand; its client's physicalCollection.
Process == [pc : PCs, program : {"server", "reindex"}, own : BOOLEAN, g : 0 .. MaxGenerations,
            status : {"", "building", "ready", "active", "retired", "failed"},
            current : Collections \cup {None}, switched : BOOLEAN, changed : BOOLEAN,
            hand : SUBSET Contents, phys : Collections \cup {None}]

Fresh(program) ==
  [pc |-> "load", program |-> program, own |-> FALSE, g |-> 0, status |-> "", current |-> None,
   switched |-> FALSE, changed |-> FALSE, hand |-> {}, phys |-> None]
Exited == [Fresh("reindex") EXCEPT !.pc = "exited"]

To(p, pc)     == proc' = [proc EXCEPT ![p].pc = pc]
Become(p, me) == proc' = [proc EXCEPT ![p] = me]
Exit(p)       == proc' = [proc EXCEPT ![p] = Exited]

\* Reconcile returns nil: the program goes on.
GoOn(p) ==
  Become(p, [Fresh(proc[p].program) EXCEPT !.phys = proc[p].phys,
               !.pc = IF proc[p].program = "server" THEN "open" ELSE "list"])

Works  == UNCHANGED faults
Breaks == faults < MaxFaults /\ faults' = faults + 1

Open == {g \in Generations : intent[g].status \in {"pending", "alias_switched", "failed"}}

\* The unique index on open intents refuses a second one for the alias.
OnlyOpen(g) == Open \subseteq {g}

\* The transaction of finalizeDurableActivation locks paper_chunks against
\* writers and against itself until it ends.
Locked == \E p \in Procs : proc[p].pc \in {"switch", "update", "commit"}

Init ==
  /\ chunks \in SUBSET Contents
  /\ row = [c \in Contents |-> [at |-> None, done |-> FALSE]]
  /\ generation = [g \in Generations |-> ""]
  /\ intent = [g \in Generations |-> NoIntent]
  /\ alias \in {None, 0}
  /\ points = [k \in Collections |-> {}]
  /\ proc = [p \in Procs |-> Exited]
  /\ overlap = FALSE /\ faults = 0

-------------------------------------------------------------------------------
(* Reconcile *)

Start(p) ==
  /\ proc[p].pc = "exited"
  /\ \E program \in {"server", "reindex"} : Become(p, Fresh(program))
  /\ overlap' = (overlap \/ \E q \in Procs : proc[q].pc # "exited")
  /\ UNCHANGED <<tables, alias, points, faults>>

\* PendingActivation: the intent, of which the index allows one for the alias.
Load(p) ==
  /\ proc[p].pc = "load"
  /\ \/ Works /\ Open = {} /\ GoOn(p)
     \/ Works /\ \E g \in Open : Become(p, [proc[p] EXCEPT !.pc = "status", !.g = g])
     \/ Breaks /\ Exit(p)
  /\ UNCHANGED <<tables, alias, points, overlap>>

\* EmbeddingGeneration.
Status(p) ==
  /\ proc[p].pc = "status"
  /\ \/ Works /\ Become(p, [proc[p] EXCEPT !.pc = "inspect", !.status = generation[proc[p].g]])
     \/ Breaks /\ Exit(p)
  /\ UNCHANGED <<tables, alias, points, overlap>>

\* Faulty Inspect: an active generation counts as activated whatever the alias says.
InspectStatusOnly(p) ==
  LET next == IF proc[p].status = "active" THEN "complete"
              ELSE IF proc[p].status = "ready" THEN "validate" ELSE "fail_intent"
  IN
  /\ proc[p].pc = "inspect"
  /\ Works /\ Become(p, [proc[p] EXCEPT !.pc = next, !.current = alias])
  /\ UNCHANGED <<tables, alias, points, overlap>>

\* AliasTarget, and what is left to do for this intent.
Inspect(p) ==
  LET next == IF proc[p].status = "active" /\ alias = proc[p].g THEN "complete"
              ELSE IF proc[p].status = "ready" THEN "validate" ELSE "fail_intent"
  IN
  /\ proc[p].pc = "inspect"
  /\ \/ Works /\ Become(p, [proc[p] EXCEPT !.pc = next, !.current = alias])
     \/ Breaks /\ Exit(p)
  /\ UNCHANGED <<tables, alias, points, overlap>>

IntentIs(g, status) == [intent EXCEPT ![g].status = status]

\* CompleteActivation; the runner's own last step too.
Complete(p) ==
  /\ proc[p].pc = "complete"
  /\ \/ /\ Works
        /\ intent' = IntentIs(proc[p].g, "completed")
        /\ IF proc[p].own THEN Exit(p) ELSE GoOn(p)
     \/ /\ Breaks /\ Exit(p)
        /\ intent' \in {intent, IntentIs(proc[p].g, "completed")}
  /\ UNCHANGED <<chunks, row, generation, alias, points, overlap>>

\* ValidateCollection: the number of points.
Validate(p) ==
  /\ proc[p].pc = "validate"
  /\ \/ /\ Works
        /\ To(p, IF Cardinality(points[proc[p].g]) = Cardinality(intent[proc[p].g].digest)
                 THEN "begin" ELSE "fail_intent")
     \/ Breaks /\ To(p, "fail_intent")
  /\ UNCHANGED <<tables, alias, points, overlap>>

-------------------------------------------------------------------------------
(* finalizeDurableActivation, by the reconciler or by the runner *)

\* Faulty Begin: the digest is not looked at.
BeginUnchecked(p) ==
  /\ proc[p].pc = "begin" /\ ~Locked
  /\ Works
  /\ To(p, "switch")
  /\ UNCHANGED <<tables, alias, points, overlap>>

\* The transaction begins: the lock, and the chunks against the digest.
Begin(p) ==
  /\ proc[p].pc = "begin" /\ ~Locked
  /\ \/ Works /\ chunks = intent[proc[p].g].digest /\ To(p, "switch")
     \/ /\ Works /\ chunks # intent[proc[p].g].digest
        /\ Become(p, [proc[p] EXCEPT !.changed = TRUE,
                        !.pc = IF proc[p].current = proc[p].g THEN "restore" ELSE "fail_generation"])
     \/ Breaks /\ To(p, "fail_intent")
  /\ UNCHANGED <<tables, alias, points, overlap>>

Switched(me) == [me EXCEPT !.pc = "commit", !.switched = TRUE, !.phys = me.g]

\* ActivateExpected reads the alias; the reconciler leaves out an alias that it
\* found switched.
Switch(p) ==
  /\ proc[p].pc = "switch"
  /\ \/ Works /\ proc[p].current = proc[p].g /\ To(p, "commit")
     \/ /\ Works /\ proc[p].current # proc[p].g
        /\ \/ alias = proc[p].g /\ Become(p, Switched(proc[p]))
           \/ alias # proc[p].g /\ alias = intent[proc[p].g].previous /\ To(p, "update")
           \/ alias # proc[p].g /\ alias # intent[proc[p].g].previous /\ To(p, "fail_intent")
     \/ Breaks /\ proc[p].current # proc[p].g /\ To(p, "fail_intent")
  /\ UNCHANGED <<tables, alias, points, overlap>>

\* UpdateAliases.  When its answer is lost the alias counts as not switched.
Update(p) ==
  /\ proc[p].pc = "update"
  /\ \/ Works /\ alias' = proc[p].g /\ Become(p, Switched(proc[p]))
     \/ Breaks /\ alias' \in {alias, proc[p].g} /\ To(p, "fail_intent")
  /\ UNCHANGED <<tables, points, overlap>>

\* The statements of the transaction, in the collection of the generation.
MarkAliasSwitched(g) == intent' = IntentIs(g, "alias_switched")
RetireActive(g) ==
  [h \in Generations |-> IF h # g /\ generation[h] = "active" THEN "retired" ELSE generation[h]]
ActivateGeneration(g) == generation' = [RetireActive(g) EXCEPT ![g] = "active"]
MarkChunks(g) ==
  row' = [c \in Contents |-> IF c \in chunks THEN [at |-> g, done |-> TRUE] ELSE row[c]]

Finalize(g) == MarkAliasSwitched(g) /\ ActivateGeneration(g) /\ MarkChunks(g)

\* MarkAliasSwitched, finalizeGeneration and the commit.
Commit(p) ==
  /\ proc[p].pc = "commit"
  /\ LET failing == To(p, IF proc[p].switched THEN "restore" ELSE "fail_intent") IN
     \/ Works /\ OnlyOpen(proc[p].g) /\ Finalize(proc[p].g) /\ To(p, "complete")
     \/ Works /\ ~OnlyOpen(proc[p].g) /\ failing /\ UNCHANGED <<intent, generation, row>>
     \/ /\ Breaks /\ failing
        /\ \/ OnlyOpen(proc[p].g) /\ Finalize(proc[p].g)
           \/ UNCHANGED <<intent, generation, row>>
  /\ UNCHANGED <<chunks, alias, points, overlap>>

-------------------------------------------------------------------------------
(* When it fails *)

\* After RestoreExpected: a changed snapshot ends the intent, another failure
\* leaves it to be retried.
Restored(p) == To(p, IF proc[p].changed THEN "fail_generation" ELSE "fail_intent")

\* RestoreExpected reads the alias.
Restore(p) ==
  /\ proc[p].pc = "restore"
  /\ \/ Works /\ alias = intent[proc[p].g].previous /\ Restored(p)
     \/ Works /\ alias = proc[p].g /\ alias # intent[proc[p].g].previous /\ To(p, "unswitch")
     \/ Works /\ alias \notin {proc[p].g, intent[proc[p].g].previous} /\ To(p, "fail_intent")
     \/ Breaks /\ To(p, "fail_intent")
  /\ UNCHANGED <<tables, alias, points, overlap>>

Unswitch(p) ==
  /\ proc[p].pc = "unswitch"
  /\ \/ Works /\ alias' = intent[proc[p].g].previous /\ Restored(p)
     \/ Breaks /\ alias' \in {alias, intent[proc[p].g].previous} /\ To(p, "fail_intent")
  /\ UNCHANGED <<tables, points, overlap>>

\* FailEmbeddingGeneration, whose own failure is ignored.
Failed(g) ==
  generation' = IF generation[g] \in {"building", "ready"}
                THEN [generation EXCEPT ![g] = "failed"] ELSE generation

FailGeneration(p) ==
  /\ proc[p].pc = "fail_generation"
  /\ \/ Works /\ Failed(proc[p].g)
     \/ Breaks /\ UNCHANGED generation
  /\ To(p, "supersede")
  /\ UNCHANGED <<chunks, row, intent, alias, points, overlap>>

Supersede(p) ==
  /\ proc[p].pc = "supersede"
  /\ \/ Works /\ intent' = IntentIs(proc[p].g, "superseded")
     \/ Breaks /\ UNCHANGED intent
  /\ Exit(p)
  /\ UNCHANGED <<chunks, row, generation, alias, points, overlap>>

FailIntent(p) ==
  /\ proc[p].pc = "fail_intent"
  /\ \/ Works /\ OnlyOpen(proc[p].g) /\ intent' = IntentIs(proc[p].g, "failed")
     \/ Works /\ ~OnlyOpen(proc[p].g) /\ UNCHANGED intent
     \/ Breaks /\ UNCHANGED intent
  /\ Exit(p)
  /\ UNCHANGED <<chunks, row, generation, alias, points, overlap>>

-------------------------------------------------------------------------------
(* Run *)

\* ListPaperChunksForReindex.
List(p) ==
  /\ proc[p].pc = "list"
  /\ \/ Works /\ chunks = {} /\ Exit(p)
     \/ Works /\ chunks # {} /\ Become(p, [proc[p] EXCEPT !.pc = "create", !.hand = chunks])
     \/ Breaks /\ Exit(p)
  /\ UNCHANGED <<tables, alias, points, overlap>>

CreateEmbeddingGeneration(g)    == [generation EXCEPT ![g] = "building"]
MarkEmbeddingGenerationReady(g) == [generation EXCEPT ![g] = "ready"]

CreateEmbeddingActivationIntent(p) ==
  [intent EXCEPT ![proc[p].g] =
     [status |-> "pending", previous |-> proc[p].current, digest |-> proc[p].hand]]

\* CreateEmbeddingGeneration and PrepareGeneration, which refuses a client that
\* reconciliation has made target a collection.
Create(p) ==
  /\ proc[p].pc = "create"
  /\ \E g \in Generations :
       /\ generation[g] = "" /\ \A h \in 1 .. (g - 1) : generation[h] # ""
       /\ \/ /\ Works
             /\ generation' = CreateEmbeddingGeneration(g)
             /\ Become(p, [proc[p] EXCEPT !.pc = IF proc[p].phys = None THEN "build" ELSE "discard",
                             !.own = TRUE, !.g = g])
          \/ /\ Breaks /\ Exit(p)
             /\ generation' \in {generation, CreateEmbeddingGeneration(g)}
  /\ UNCHANGED <<chunks, row, intent, alias, points, overlap>>

\* Faulty Build: the points are not counted.
BuildUncounted(p) ==
  /\ proc[p].pc = "build" /\ Works
  /\ \E S \in SUBSET proc[p].hand : points' = [points EXCEPT ![proc[p].g] = S]
  /\ Become(p, [proc[p] EXCEPT !.pc = "ready", !.phys = proc[p].g])
  /\ UNCHANGED <<tables, alias, overlap>>

\* The batches of vectors, and the count of the points.
Build(p) ==
  /\ proc[p].pc = "build"
  /\ \/ /\ Works
        /\ points' = [points EXCEPT ![proc[p].g] = proc[p].hand]
        /\ Become(p, [proc[p] EXCEPT !.pc = "ready", !.phys = proc[p].g])
     \/ /\ Breaks /\ To(p, "discard")
        /\ \E S \in SUBSET proc[p].hand : points' = [points EXCEPT ![proc[p].g] = S]
  /\ UNCHANGED <<tables, alias, overlap>>

\* MarkEmbeddingGenerationReady.
Ready(p) ==
  /\ proc[p].pc = "ready"
  /\ \/ /\ Works /\ To(p, "previous")
        /\ generation' = MarkEmbeddingGenerationReady(proc[p].g)
     \/ /\ Breaks /\ To(p, "discard")
        /\ generation' \in {generation, MarkEmbeddingGenerationReady(proc[p].g)}
  /\ UNCHANGED <<chunks, row, intent, alias, points, overlap>>

\* AliasTarget.
Previous(p) ==
  /\ proc[p].pc = "previous"
  /\ \/ Works /\ Become(p, [proc[p] EXCEPT !.pc = "intend", !.current = alias])
     \/ Breaks /\ To(p, "discard")
  /\ UNCHANGED <<tables, alias, points, overlap>>

\* Faulty Intend: without the unique index.
IntendSecond(p) ==
  /\ proc[p].pc = "intend" /\ Works
  /\ intent' = CreateEmbeddingActivationIntent(p)
  /\ Become(p, [proc[p] EXCEPT !.pc = "begin", !.hand = {}])
  /\ UNCHANGED <<chunks, row, generation, alias, points, overlap>>

\* CreateEmbeddingActivationIntent; the index refuses a second open intent.
Intend(p) ==
  /\ proc[p].pc = "intend"
  /\ \/ /\ Works /\ Open = {}
        /\ intent' = CreateEmbeddingActivationIntent(p)
        /\ Become(p, [proc[p] EXCEPT !.pc = "begin", !.hand = {}])
     \/ Works /\ Open # {} /\ To(p, "discard") /\ UNCHANGED intent
     \/ /\ Breaks /\ To(p, "discard")
        /\ intent' = intent \/ (Open = {} /\ intent' = CreateEmbeddingActivationIntent(p))
  /\ UNCHANGED <<chunks, row, generation, alias, points, overlap>>

\* failGeneration before there is an intent.
Discard(p) ==
  /\ proc[p].pc = "discard"
  /\ \/ Works /\ Failed(proc[p].g)
     \/ Breaks /\ UNCHANGED generation
  /\ Exit(p)
  /\ UNCHANGED <<chunks, row, intent, alias, points, overlap>>

-------------------------------------------------------------------------------
(* The server *)

\* NewClient opens the alias' collection, or creates both; an active generation
\* must be that collection.
OpenActive(p) ==
  /\ proc[p].pc = "open"
  /\ \/ /\ Works
        /\ alias' = IF alias = None THEN 0 ELSE alias
        /\ IF \A g \in Generations : generation[g] = "active" => alias' = g
           THEN Become(p, [Fresh("server") EXCEPT !.pc = "serve", !.phys = alias'])
           ELSE Exit(p)
     \/ /\ Breaks /\ Exit(p)
        /\ alias' \in {alias, IF alias = None THEN 0 ELSE alias}
  /\ UNCHANGED <<tables, points, overlap>>

\* UpsertPaperChunk of new content.
StoreChunk(p) ==
  /\ proc[p].pc = "serve" /\ ~Locked
  /\ \E c \in Contents \ chunks : chunks' = chunks \cup {c}
  /\ UNCHANGED <<row, generation, intent, alias, points, proc, overlap, faults>>

\* MarkPaperChunkEmbeddingIndexing, of a completed chunk too: jobs are redelivered.
MarkIndexing(p) ==
  /\ proc[p].pc = "serve" /\ ~Locked
  /\ \E c \in chunks :
       /\ row' = [row EXCEPT ![c] = [at |-> proc[p].phys, done |-> FALSE]]
       /\ Become(p, [proc[p] EXCEPT !.pc = "upsert", !.hand = {c}])
  /\ UNCHANGED <<chunks, generation, intent, alias, points, overlap, faults>>

\* StoreEmbeddings writes through the alias.
Upsert(p) ==
  /\ proc[p].pc = "upsert"
  /\ \/ /\ Works /\ alias # None /\ To(p, "embedded")
        /\ points' = [points EXCEPT ![alias] = @ \cup proc[p].hand]
     \/ /\ Works /\ alias = None
        /\ Become(p, [proc[p] EXCEPT !.pc = "serve", !.hand = {}])
        /\ UNCHANGED points
     \/ /\ Breaks
        /\ Become(p, [proc[p] EXCEPT !.pc = "serve", !.hand = {}])
        /\ points' = points \/ (alias # None /\ points' = [points EXCEPT ![alias] = @ \cup proc[p].hand])
  /\ UNCHANGED <<tables, alias, overlap>>

\* CompletePaperChunkEmbedding keeps the collection the row names.
CompleteEmbedding(p) ==
  /\ proc[p].pc = "embedded" /\ ~Locked
  /\ row' = [c \in Contents |-> IF c \in proc[p].hand THEN [row[c] EXCEPT !.done = TRUE] ELSE row[c]]
  /\ Become(p, [proc[p] EXCEPT !.pc = "serve", !.hand = {}])
  /\ UNCHANGED <<chunks, generation, intent, alias, points, overlap, faults>>

\* The server is stopped.
StopServing(p) ==
  /\ proc[p].pc = "serve"
  /\ Exit(p)
  /\ UNCHANGED <<tables, alias, points, overlap, faults>>

Crash(p) ==
  /\ proc[p].pc # "exited"
  /\ Breaks /\ Exit(p)
  /\ UNCHANGED <<tables, alias, points, overlap>>

-------------------------------------------------------------------------------
Reconcile(p) == Load(p) \/ Status(p) \/ Inspect(p) \/ Complete(p) \/ Validate(p)
Activate(p)  == Begin(p) \/ Switch(p) \/ Update(p) \/ Commit(p)
Recover(p)   == Restore(p) \/ Unswitch(p) \/ FailGeneration(p) \/ Supersede(p) \/ FailIntent(p)
Rebuild(p)   == List(p) \/ Create(p) \/ Build(p) \/ Ready(p) \/ Previous(p) \/ Intend(p) \/ Discard(p)
Serve(p)     == OpenActive(p) \/ StoreChunk(p) \/ MarkIndexing(p) \/ Upsert(p) \/ CompleteEmbedding(p)
                \/ StopServing(p)

Next ==
  \E p \in Procs :
    Start(p) \/ Reconcile(p) \/ Activate(p) \/ Recover(p) \/ Rebuild(p) \/ Serve(p) \/ Crash(p)

Spec == Init /\ [][Next]_vars

-------------------------------------------------------------------------------
(* Properties *)

TypeOK ==
  /\ chunks \subseteq Contents
  /\ row \in [Contents -> Embedding]
  /\ generation \in [Generations -> {"", "building", "ready", "active", "retired", "failed"}]
  /\ intent \in [Generations -> Intent]
  /\ alias \in Collections \cup {None}
  /\ points \in [Collections -> SUBSET Contents]
  /\ proc \in [Procs -> Process]
  /\ Cardinality(Open) <= 1 /\ Cardinality({g \in Generations : generation[g] = "active"}) <= 1
  /\ overlap \in BOOLEAN /\ faults \in 0 .. MaxFaults

\* A generation becomes active only when its collection holds a point of every
\* chunk stored at that moment (reindex.go finalizeDurableActivation).
ActivationMissesNoChunk ==
  [][\A g \in Generations :
       generation[g] # "active" /\ generation'[g] = "active" => chunks' \subseteq points'[g]]_vars

\* The alias identifies the active generation: while no intent is open it targets
\* the collection of the active one (docs/ARCH.md; cmd/server/main.go refuses to
\* start otherwise).
AliasIsActive ==
  Open = {} => \A g \in Generations : generation[g] = "active" => alias = g

\* A chunk that PostgreSQL calls embedded in the collection that the alias targets
\* has its point there; the server would not embed it again.
CompletedIsServed ==
  \A c \in chunks : row[c] = [at |-> alias, done |-> TRUE] => c \in points[alias]

\* Both hold through a failure of any call and crashes as long as processes run one
\* after the other: a collection that the alias leaves is one that a restart can
\* complete or give up (reindex.go, reconcile.go Reconcile).
AliasIsActiveAlone     == ~overlap => AliasIsActive
CompletedIsServedAlone == ~overlap => CompletedIsServed

===============================================================================
