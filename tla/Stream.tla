------------------------------- MODULE Stream -------------------------------
(***************************************************************************)
(* What clients are shown of one run while it runs: the run publishes its  *)
(* states, the workers of its analysis stage report progress, every client *)
(* has a handler that subscribes to the SSE manager, reads the current     *)
(* state and forwards events, and the server may shut down.                *)
(*                                                                         *)
(* SSEManager.mu is a read-write lock: senders hold it together, from the  *)
(* first channel to the last, and a writer waits for all of them.          *)
(***************************************************************************)
EXTENDS Integers, Sequences, FiniteSets

CONSTANTS
  Clients,     \* one stream request each
  Stalled,     \* clients that may stop to read what they are sent
  Workers,     \* goroutines of the pool that complete analysis jobs
  Run,         \* the goroutine of the run
  Last,        \* number of the state the run ends in; states count from 0
  Analysis,    \* number of the state in which papers are analysed
  Papers,      \* analysis jobs in the batch
  Capacity     \* of a subscriber's channel

ASSUME StatesAssumption == /\ {Last, Analysis, Papers} \subseteq Nat \ {0}
                           /\ Analysis < Last
                           /\ Capacity \in Nat \ {0}
ASSUME NamesAssumption == Stalled \subseteq Clients /\ Run \notin Workers

VARIABLES
  memory,    \* PipelineStateService.pipelines: the state remembered of the run
  run,       \* what the run does next
  counted,   \* analysisBatch.completed
  sender,    \* what each sending goroutine sends, and to which channels it still has to
  clients,   \* SSEManager.clients: the registered channels
  closed,    \* SSEManager.closed
  stopping,  \* the server shuts down
  channel,   \* each client's channel
  handler,   \* where each client's handler is
  read,      \* the state that the handler has looked up
  shown,     \* the last state shown to each client, or -1
  lost       \* history: clients a status event was dropped for

manager == <<clients, closed, stopping>>
view    == <<handler, read, shown, lost>>
vars    == <<memory, run, counted, sender, clients, closed, stopping, channel, handler, read,
             shown, lost>>

Senders == Workers \cup {Run}
Status(n) == [type |-> "status", state |-> n]
Progress  == [type |-> "progress", state |-> Analysis]
Events    == {Status(n) : n \in 0 .. Last} \cup {Progress}
Quiet     == [pc |-> "idle", event |-> Progress, left |-> {}]

Init ==
  /\ memory = 0
  /\ run = "work"
  /\ counted = 0
  /\ sender = [s \in Senders |-> Quiet]
  /\ clients = {} /\ closed = FALSE /\ stopping = FALSE
  /\ channel = [c \in Clients |-> [queue |-> <<>>, open |-> TRUE]]
  /\ handler = [c \in Clients |-> "new"]
  /\ read = [c \in Clients |-> -1]
  /\ shown = [c \in Clients |-> -1]
  /\ lost = {}

\* The write lock can be taken.
Writable == \A s \in Senders : sender[s].pc # "send"

-------------------------------------------------------------------------------
(* Send *)

\* Send takes the read lock.  A status event also ends the Publish of the run.
BeginSend(s) ==
  /\ sender[s].pc = "ready"
  /\ sender' = [sender EXCEPT ![s].pc = "send", ![s].left = clients]
  /\ UNCHANGED <<memory, run, counted, manager, channel, view>>

\* Faulty SendTo: a full channel is waited for.
SendToBlocks(s) ==
  /\ sender[s].pc = "send"
  /\ \E c \in sender[s].left :
       /\ Len(channel[c].queue) < Capacity
       /\ channel' = [channel EXCEPT ![c].queue = Append(@, sender[s].event)]
       /\ sender' = [sender EXCEPT ![s].left = @ \ {c}]
  /\ UNCHANGED <<memory, run, counted, manager, view>>

\* A full channel loses the event.
SendTo(s) ==
  /\ sender[s].pc = "send"
  /\ \E c \in sender[s].left :
       /\ IF Len(channel[c].queue) < Capacity
            THEN /\ channel' = [channel EXCEPT ![c].queue = Append(@, sender[s].event)]
                 /\ UNCHANGED lost
            ELSE /\ lost' = IF sender[s].event = Progress THEN lost ELSE lost \cup {c}
                 /\ UNCHANGED channel
       /\ sender' = [sender EXCEPT ![s].left = @ \ {c}]
  /\ UNCHANGED <<memory, run, counted, manager, handler, read, shown>>

EndSend(s) ==
  /\ sender[s].pc = "send" /\ sender[s].left = {}
  /\ sender' = [sender EXCEPT ![s] = Quiet]
  /\ run' = IF s # Run THEN run
            ELSE IF memory = Last \/ run = "stopping" THEN "done" ELSE "work"
  /\ UNCHANGED <<memory, counted, manager, channel, view>>

-------------------------------------------------------------------------------
(* Publish and PublishProgress *)

\* Remember the next state, or that the run has failed; the analysis stage ends
\* when all its jobs are counted.
Publish ==
  /\ run = "work" /\ memory < Last
  /\ memory = Analysis => counted = Papers
  /\ memory' \in {memory + 1, Last}
  /\ run' = "save"
  /\ UNCHANGED <<counted, sender, manager, channel, view>>

\* The shutdown cancels the run, which publishes the state it is in once more.
Interrupt ==
  /\ run = "work" /\ stopping
  /\ run' = "stop"
  /\ UNCHANGED <<memory, counted, sender, manager, channel, view>>

\* Faulty Save: when the snapshot cannot be saved, Publish returns.
SaveReturns ==
  /\ run \in {"save", "stop"}
  /\ \/ /\ run' = IF run = "stop" THEN "stopping" ELSE "publish"
        /\ sender' = [sender EXCEPT ![Run] = [Quiet EXCEPT !.pc = "ready", !.event = Status(memory)]]
     \/ /\ run' = IF run = "stop" \/ memory = Last THEN "done" ELSE "work"
        /\ UNCHANGED sender
  /\ UNCHANGED <<memory, counted, manager, channel, view>>

\* The Redis snapshot, saved or not, comes before the event.
Save ==
  /\ run \in {"save", "stop"}
  /\ run' = IF run = "stop" THEN "stopping" ELSE "publish"
  /\ sender' = [sender EXCEPT ![Run] = [Quiet EXCEPT !.pc = "ready", !.event = Status(memory)]]
  /\ UNCHANGED <<memory, counted, manager, channel, view>>

\* A job of the batch is counted under the batch's lock; its progress is sent
\* after that, when the run may have gone on.
CountJob(w) ==
  /\ memory = Analysis /\ run = "work" /\ counted < Papers
  /\ sender[w].pc = "idle"
  /\ counted' = counted + 1
  /\ sender' = [sender EXCEPT ![w] = [Quiet EXCEPT !.pc = "ready"]]
  /\ UNCHANGED <<memory, run, manager, channel, view>>

-------------------------------------------------------------------------------
(* Handler.Stream *)

Goto(c, pc) == handler' = [handler EXCEPT ![c] = pc]

\* The first lookup decides whether there is something to stream.
Lookup(c) ==
  /\ handler[c] = "new"
  /\ read' = [read EXCEPT ![c] = memory]
  /\ Goto(c, "subscribe")
  /\ UNCHANGED <<memory, run, counted, sender, manager, channel, shown, lost>>

\* Faulty Subscribe: a manager that is closed takes the channel.
SubscribeAnyway(c) ==
  /\ handler[c] = "subscribe" /\ Writable
  /\ clients' = clients \cup {c}
  /\ Goto(c, "look again")
  /\ UNCHANGED <<memory, run, counted, sender, closed, stopping, channel, read, shown, lost>>

Subscribe(c) ==
  /\ handler[c] = "subscribe" /\ Writable
  /\ IF closed THEN /\ channel' = [channel EXCEPT ![c].open = FALSE]
                    /\ UNCHANGED clients
               ELSE /\ clients' = clients \cup {c}
                    /\ UNCHANGED channel
  /\ Goto(c, "look again")
  /\ UNCHANGED <<memory, run, counted, sender, closed, stopping, read, shown, lost>>

\* Faulty LookAgain: the state of the first lookup is sent.
LookAgainSkipped(c) ==
  /\ handler[c] = "look again"
  /\ Goto(c, "write")
  /\ UNCHANGED <<memory, run, counted, sender, manager, channel, read, shown, lost>>

LookAgain(c) ==
  /\ handler[c] = "look again"
  /\ read' = [read EXCEPT ![c] = memory]
  /\ Goto(c, "write")
  /\ UNCHANGED <<memory, run, counted, sender, manager, channel, shown, lost>>

Write(c) ==
  /\ handler[c] = "write"
  /\ shown' = [shown EXCEPT ![c] = read[c]]
  /\ Goto(c, "loop")
  /\ UNCHANGED <<memory, run, counted, sender, manager, channel, read, lost>>

\* Forward the next event, or leave because the client cannot be written to.
Receive(c) ==
  /\ handler[c] = "loop" /\ channel[c].queue # <<>>
  /\ LET e == Head(channel[c].queue) IN
     \/ /\ shown' = [shown EXCEPT ![c] = IF e = Progress THEN @ ELSE e.state]
        /\ UNCHANGED handler
     \/ Goto(c, "leave") /\ UNCHANGED shown
  /\ channel' = [channel EXCEPT ![c].queue = Tail(@)]
  /\ UNCHANGED <<memory, run, counted, sender, manager, read, lost>>

\* The channel was closed and is drained.
Drained(c) ==
  /\ handler[c] = "loop" /\ channel[c].queue = <<>> /\ ~channel[c].open
  /\ Goto(c, "leave")
  /\ UNCHANGED <<memory, run, counted, sender, manager, channel, read, shown, lost>>

\* The request's context ends: the client has gone.
Disconnect(c) ==
  /\ handler[c] = "loop"
  /\ Goto(c, "leave")
  /\ UNCHANGED <<memory, run, counted, sender, manager, channel, read, shown, lost>>

\* Faulty Unsubscribe: the lock is not taken.
UnsubscribeUnlocked(c) ==
  /\ handler[c] = "leave"
  /\ clients' = clients \ {c}
  /\ channel' = IF c \in clients THEN [channel EXCEPT ![c].open = FALSE] ELSE channel
  /\ Goto(c, "gone")
  /\ UNCHANGED <<memory, run, counted, sender, closed, stopping, read, shown, lost>>

\* Only a channel that is still registered is closed.
Unsubscribe(c) ==
  /\ handler[c] = "leave" /\ Writable
  /\ clients' = clients \ {c}
  /\ channel' = IF c \in clients THEN [channel EXCEPT ![c].open = FALSE] ELSE channel
  /\ Goto(c, "gone")
  /\ UNCHANGED <<memory, run, counted, sender, closed, stopping, read, shown, lost>>

\* run in main: the runs are cancelled while the HTTP server shuts down, which
\* calls CloseAll.
Shutdown ==
  /\ ~stopping /\ stopping' = TRUE
  /\ UNCHANGED <<memory, run, counted, sender, clients, closed, channel, view>>

CloseAll ==
  /\ stopping /\ ~closed /\ Writable
  /\ channel' = [c \in Clients |-> IF c \in clients THEN [channel[c] EXCEPT !.open = FALSE]
                                                    ELSE channel[c]]
  /\ clients' = {}
  /\ closed' = TRUE
  /\ UNCHANGED <<memory, run, counted, sender, stopping, view>>

-------------------------------------------------------------------------------
Send(s)  == BeginSend(s) \/ SendTo(s) \/ EndSend(s)
RunStep  == Publish \/ Interrupt \/ Save
Enter(c) == Lookup(c) \/ Subscribe(c) \/ LookAgain(c) \/ Write(c)
Exit(c)  == Drained(c) \/ Unsubscribe(c)

Next == \/ RunStep \/ Shutdown \/ CloseAll
        \/ \E s \in Senders : Send(s)
        \/ \E w \in Workers : CountJob(w)
        \/ \E c \in Clients : Enter(c) \/ Receive(c) \/ Exit(c) \/ Disconnect(c)

\* Goroutines go on, jobs end, and a writer that waits for the lock gets it: the
\* readers before it leave and new ones wait.  Only a client that may stall can
\* keep its handler from receiving.  Nobody has to disconnect, and the server
\* need not shut down.
Fairness ==
  /\ WF_vars(RunStep) /\ WF_vars(CloseAll)
  /\ \A s \in Senders : WF_vars(Send(s))
  /\ WF_vars(\E w \in Workers : CountJob(w))
  /\ \A c \in Clients : WF_vars(Enter(c)) /\ WF_vars(Drained(c)) /\ WF_vars(Unsubscribe(c))
  /\ \A c \in Clients \ Stalled : WF_vars(Receive(c))

Spec == Init /\ [][Next]_vars /\ Fairness

-------------------------------------------------------------------------------
(* Properties *)

TypeOK ==
  /\ memory \in 0 .. Last
  /\ run \in {"work", "save", "publish", "stop", "stopping", "done"}
  /\ counted \in 0 .. Papers
  /\ sender \in [Senders -> [pc : {"idle", "ready", "send"}, event : Events, left : SUBSET Clients]]
  /\ clients \subseteq Clients /\ closed \in BOOLEAN /\ stopping \in BOOLEAN
  /\ \A c \in Clients : /\ channel[c].open \in BOOLEAN
                        /\ Len(channel[c].queue) <= Capacity
                        /\ \A i \in 1 .. Len(channel[c].queue) : channel[c].queue[i] \in Events
  /\ handler \in [Clients -> {"new", "subscribe", "look again", "write", "loop", "leave", "gone"}]
  /\ read \in [Clients -> -1 .. Last] /\ shown \in [Clients -> -1 .. Last]
  /\ lost \subseteq Clients

\* No goroutine sends on a closed channel and none closes a channel twice, in
\* whatever order clients leave, events are sent and the server shuts down
\* (Send, Unsubscribe, CloseAll).  A channel holds at most Capacity events (TypeOK).
OnlyOpenChannels ==
  /\ TypeOK
  /\ \A c \in clients : channel[c].open
  /\ \A s \in Senders : \A c \in sender[s].left : channel[c].open

\* A client that is connected, has nothing left to receive and lost nothing has
\* been shown the state that /status would tell it, as soon as the run is not
\* just publishing: none falls into the gap between lookup and subscription, or
\* between Remember and Broadcast.
ShownIsCurrent ==
  \A c \in clients \ lost :
    handler[c] = "loop" /\ channel[c].queue = <<>> /\ run \in {"work", "done"}
      => shown[c] = memory

\* A client that stays and keeps reading is shown how the run ended, unless its
\* channel was full or the server shut down (API.md:80).
EndIsShown ==
  \A c \in Clients \ Stalled :
    handler[c] = "loop" ~> \/ shown[c] = Last \/ c \in lost
                           \/ stopping \/ handler[c] \in {"leave", "gone"}

\* ARCH.md:70: slow subscribers can lose events rather than block the pipeline.
RunEnds == <>(run = "done")

\* After a shutdown has begun every handler returns, also one that subscribes
\* after CloseAll, so that the server need not be forced (main.go:214).
StreamsEnd == \A c \in Clients \ Stalled : stopping /\ handler[c] # "new" ~> handler[c] = "gone"
===============================================================================
