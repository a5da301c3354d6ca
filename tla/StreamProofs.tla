----------------------------- MODULE StreamProofs -----------------------------
(***************************************************************************)
(* Proofs about Stream for any clients, workers, states, jobs and channel  *)
(* capacity: nobody sends on a closed channel or closes one twice, and a   *)
(* client that has received everything was shown the current state.        *)
(*                                                                         *)
(* The lock is what both rest on: while a goroutine sends, the set of      *)
(* registered channels stays as it was when the sending began.             *)
(***************************************************************************)
EXTENDS Stream, TLAPS

-------------------------------------------------------------------------------
(* Sequences of events *)

\* The last status in q is that of state n.
Latest(q, n) ==
  \E i \in 1 .. Len(q) : q[i] = Status(n) /\ \A k \in i + 1 .. Len(q) : q[k] = Progress
OnlyProgress(q) == \A k \in 1 .. Len(q) : q[k] = Progress

LEMMA EventTypes ==
  /\ \A n : Status(n) # Progress
  /\ Progress \in Events
  /\ \A n \in 0 .. Last : Status(n) \in Events
  BY DEF Status, Progress, Events

LEMMA AfterAppend ==
  ASSUME NEW q \in Seq(Events), NEW e \in Events, NEW n
  PROVE  /\ Append(q, e) \in Seq(Events) /\ Len(Append(q, e)) = Len(q) + 1 /\ Len(q) \in Nat
         /\ e = Status(n) => Latest(Append(q, e), n)
         /\ e = Progress /\ Latest(q, n) => Latest(Append(q, e), n)
         /\ e = Progress /\ OnlyProgress(q) => OnlyProgress(Append(q, e))
<1> DEFINE r == Append(q, e)
<1>1. /\ r \in Seq(Events) /\ Len(r) = Len(q) + 1 /\ Len(q) \in Nat
      /\ r[Len(q) + 1] = e /\ \A k \in 1 .. Len(q) : r[k] = q[k]
  OBVIOUS
<1> HIDE DEF r
<1>2. e = Status(n) => Latest(r, n)
  BY <1>1 DEF Latest
<1>3. ASSUME e = Progress, Latest(q, n) PROVE Latest(r, n)
  <2>1. PICK i \in 1 .. Len(q) : q[i] = Status(n) /\ \A k \in i + 1 .. Len(q) : q[k] = Progress
    BY <1>3 DEF Latest
  <2>2. \A k \in i + 1 .. Len(r) : r[k] = Progress
    BY <1>1, <1>3, <2>1
  <2>3. i \in 1 .. Len(r) /\ r[i] = Status(n)
    BY <1>1, <2>1
  <2> QED
    BY <2>2, <2>3 DEF Latest
<1>4. e = Progress /\ OnlyProgress(q) => OnlyProgress(r)
  BY <1>1 DEF OnlyProgress
<1> QED
  BY <1>1, <1>2, <1>3, <1>4 DEF r

LEMMA AfterTail ==
  ASSUME NEW q \in Seq(Events), q # <<>>, NEW n
  PROVE  /\ Tail(q) \in Seq(Events) /\ Len(q) \in Nat \ {0} /\ Len(Tail(q)) = Len(q) - 1
         /\ Head(q) \in Events
         /\ Latest(q, n) => Latest(Tail(q), n) \/ (Head(q) = Status(n) /\ OnlyProgress(Tail(q)))
         /\ OnlyProgress(q) => Head(q) = Progress /\ OnlyProgress(Tail(q))
<1> DEFINE r == Tail(q)
<1>1. /\ r \in Seq(Events) /\ Len(q) \in Nat \ {0} /\ Len(r) = Len(q) - 1
      /\ Head(q) = q[1] /\ q[1] \in Events /\ \A k \in 1 .. Len(r) : r[k] = q[k + 1]
  OBVIOUS
<1> HIDE DEF r
<1>2. ASSUME Latest(q, n) PROVE Latest(r, n) \/ (q[1] = Status(n) /\ OnlyProgress(r))
  <2>1. PICK i \in 1 .. Len(q) : q[i] = Status(n) /\ \A k \in i + 1 .. Len(q) : q[k] = Progress
    BY <1>2 DEF Latest
  <2>2. CASE i = 1
    BY <1>1, <2>1, <2>2 DEF OnlyProgress
  <2>3. CASE i # 1
    <3>1. i - 1 \in 1 .. Len(r) /\ r[i - 1] = Status(n)
      BY <1>1, <2>1, <2>3
    <3>2. \A k \in (i - 1) + 1 .. Len(r) : r[k] = Progress
      BY <1>1, <2>1, <2>3
    <3> QED
      BY <3>1, <3>2 DEF Latest
  <2> QED
    BY <2>2, <2>3
<1>3. OnlyProgress(q) => q[1] = Progress /\ OnlyProgress(r)
  BY <1>1 DEF OnlyProgress
<1> QED
  BY <1>1, <1>2, <1>3 DEF r

-------------------------------------------------------------------------------
(* The channels *)

Channel == [queue : Seq(Events), open : BOOLEAN]
Sender  == [pc : {"idle", "ready", "send"}, event : Events, left : SUBSET Clients]

ChannelInv ==
  /\ TypeOK
  /\ channel \in [Clients -> Channel]
  \* A channel is closed as it is unregistered, and none is registered before.
  /\ \A c \in clients : channel[c].open /\ handler[c] \in {"look again", "write", "loop", "leave"}
  /\ \A c \in Clients : handler[c] \in {"new", "subscribe"} =>
       channel[c].open /\ channel[c].queue = <<>>
  \* The lock: what a sender has still to send to is registered.
  /\ \A s \in Senders : /\ sender[s].left \subseteq clients
                        /\ sender[s].pc # "send" => sender[s].left = {}

\* What a client that is connected has been shown or will be.
Current(c) ==
  \/ Latest(channel[c].queue, memory)
  \/ /\ OnlyProgress(channel[c].queue)
     /\ handler[c] = "write" => read[c] = memory
     /\ handler[c] = "loop" => shown[c] = memory
ToCome(c) ==
  \/ run \in {"save", "stop"}
  \/ sender[Run].pc = "ready"
  \/ sender[Run].pc = "send" /\ c \in sender[Run].left
CurrentInv ==
  /\ run \in {"publish", "stopping"} <=> sender[Run].pc # "idle"
  /\ sender[Run].pc # "idle" => sender[Run].event = Status(memory)
  /\ \A w \in Workers : sender[w].event = Progress
  /\ \A c \in clients \ lost : handler[c] # "leave" /\ ~ToCome(c) => Current(c)

\* ChannelInv without the bounds on lengths that TypeOK states of channels.
LEMMA TypeParts ==
  /\ ChannelInv => TypeOK
  /\ TypeOK /\ channel \in [Clients -> Channel] =>
       \A c \in Clients : /\ channel[c].queue \in Seq(Events) /\ Len(channel[c].queue) <= Capacity
                          /\ channel[c].open \in BOOLEAN
  BY DEF ChannelInv, TypeOK, Channel

LEMMA QuietType == Quiet \in Sender /\ Quiet.pc = "idle" /\ Quiet.left = {} /\ Quiet.event = Progress
  BY EventTypes DEF Quiet, Sender

LEMMA ChannelInit == Init => ChannelInv
<1> SUFFICES ASSUME Init PROVE ChannelInv
  OBVIOUS
<1>1. \A s \in Senders : sender[s] = Quiet
  BY DEF Init
<1>2. sender \in [Senders -> Sender]
  BY <1>1, QuietType DEF Init
<1>3. \A c \in Clients : channel[c] = [queue |-> <<>>, open |-> TRUE]
  BY DEF Init
<1>4. /\ channel \in [Clients -> Channel]
      /\ \A c \in Clients : channel[c].queue = <<>> /\ channel[c].open = TRUE
  BY <1>3 DEF Init, Channel
<1>5. TypeOK
  <2>1. /\ memory \in 0 .. Last /\ counted \in 0 .. Papers
        /\ read \in [Clients -> -1 .. Last] /\ shown \in [Clients -> -1 .. Last]
    BY StatesAssumption DEF Init
  <2>2. \A c \in Clients : /\ channel[c].open \in BOOLEAN
                           /\ Len(channel[c].queue) <= Capacity
                           /\ \A i \in 1 .. Len(channel[c].queue) : channel[c].queue[i] \in Events
    <3>1. 0 <= Capacity
      BY StatesAssumption
    <3>2. \A c \in Clients : Len(channel[c].queue) = 0
      BY <1>4
    <3>3. \A c \in Clients : channel[c].open \in BOOLEAN
      BY <1>4
    <3>4. \A c \in Clients : 1 .. Len(channel[c].queue) = {}
      BY <3>2
    <3>5. \A c \in Clients : Len(channel[c].queue) <= Capacity
      BY <3>1, <3>2
    <3> QED
      BY <3>3, <3>4, <3>5
  <2> QED
    BY <1>2, <2>1, <2>2 DEF Init, TypeOK, Sender
<1> QED
  BY <1>1, <1>4, <1>5, QuietType DEF ChannelInv, Init

\* The sending goroutines after one of them moved.
LEMMA SenderMoves ==
  ASSUME sender \in [Senders -> Sender], NEW s \in Senders, NEW g \in Sender,
         sender' = [sender EXCEPT ![s] = g]
  PROVE  /\ sender' \in [Senders -> Sender] /\ sender'[s] = g
         /\ \A u \in Senders \ {s} : sender'[u] = sender[u]
  OBVIOUS

\* A step after which every sender is as before or sends nothing, and every
\* client's channel and registration is as before.
LEMMA ChannelStays ==
  ASSUME ChannelInv, UNCHANGED <<clients, channel>>, TypeOK',
         \A s \in Senders : sender'[s] = sender[s] \/ sender'[s].left = {},
         \A c \in Clients : \/ handler'[c] = handler[c]
                            \/ /\ handler[c] \notin {"new", "gone"}
                               /\ handler'[c] \in {"look again", "write", "loop", "leave"}
                               /\ handler[c] # "subscribe"
                            \/ handler[c] = "new" /\ handler'[c] = "subscribe"
  PROVE  ChannelInv'
<1>1. clients \subseteq Clients
  BY DEF ChannelInv, TypeOK
<1>2. \A c \in clients : handler'[c] \in {"look again", "write", "loop", "leave"}
  BY <1>1 DEF ChannelInv
<1> QED
  BY <1>1, <1>2 DEF ChannelInv

\* A channel with another queue, and a closed one.
LEMMA ChannelParts ==
  ASSUME NEW h \in Channel, NEW q \in Seq(Events)
  PROVE  /\ [h EXCEPT !.queue = q] \in Channel /\ [h EXCEPT !.queue = q].queue = q
         /\ [h EXCEPT !.queue = q].open = h.open
         /\ [h EXCEPT !.open = FALSE] \in Channel /\ [h EXCEPT !.open = FALSE].queue = h.queue
  BY DEF Channel

LEMMA QueueOf ==
  ASSUME NEW h \in Channel PROVE h.queue \in Seq(Events) /\ Len(h.queue) \in Nat
<1>1. h.queue \in Seq(Events)
  BY DEF Channel
<1>2. Len(h.queue) \in Nat
  BY <1>1
<1> QED
  BY <1>1, <1>2

LEMMA ChannelStep == ChannelInv /\ [Next]_vars => ChannelInv'
<1> SUFFICES ASSUME ChannelInv, [Next]_vars PROVE ChannelInv'
  OBVIOUS
<1>t. /\ TypeOK /\ memory \in 0 .. Last /\ counted \in 0 .. Papers
      /\ run \in {"work", "save", "publish", "stop", "stopping", "done"}
      /\ sender \in [Senders -> Sender]
      /\ clients \subseteq Clients /\ closed \in BOOLEAN /\ stopping \in BOOLEAN
      /\ channel \in [Clients -> Channel]
      /\ handler \in [Clients -> {"new", "subscribe", "look again", "write", "loop", "leave", "gone"}]
      /\ read \in [Clients -> -1 .. Last] /\ shown \in [Clients -> -1 .. Last]
      /\ lost \subseteq Clients
  BY DEF ChannelInv, TypeOK, Sender
\* What the types of the next state need.
<1>y. ASSUME memory' \in 0 .. Last, counted' \in 0 .. Papers,
             run' \in {"work", "save", "publish", "stop", "stopping", "done"},
             sender' \in [Senders -> Sender],
             clients' \subseteq Clients, closed' \in BOOLEAN, stopping' \in BOOLEAN,
             channel' \in [Clients -> Channel],
             \A c \in Clients : Len(channel'[c].queue) <= Capacity,
             handler' \in [Clients -> {"new", "subscribe", "look again", "write", "loop", "leave", "gone"}],
             read' \in [Clients -> -1 .. Last], shown' \in [Clients -> -1 .. Last],
             lost' \subseteq Clients
      PROVE  TypeOK'
  <2>1. \A c \in Clients : /\ channel'[c].open \in BOOLEAN
                           /\ \A i \in 1 .. Len(channel'[c].queue) : channel'[c].queue[i] \in Events
    <3>1. \A c \in Clients : channel'[c].open \in BOOLEAN /\ channel'[c].queue \in Seq(Events)
      BY <1>y DEF Channel
    <3> QED
      BY <3>1
  <2> QED
    BY <1>y, <2>1 DEF TypeOK, Sender
<1>l. \A c \in Clients : /\ channel[c].queue \in Seq(Events) /\ Len(channel[c].queue) <= Capacity
                         /\ Len(channel[c].queue) \in Nat
  <2>1. \A c \in Clients : channel[c] \in Channel
    BY <1>t
  <2>2. \A c \in Clients : channel[c].queue \in Seq(Events) /\ Len(channel[c].queue) \in Nat
    BY <2>1, QueueOf
  <2>3. \A c \in Clients : Len(channel[c].queue) <= Capacity
    BY <1>t DEF TypeOK
  <2> QED
    BY <2>2, <2>3
<1>m. memory \in 0 .. Last /\ counted \in 0 .. Papers
  BY <1>t
<1>n. Capacity \in Nat /\ Papers \in Nat /\ Last \in Nat /\ Analysis \in 0 .. Last
      /\ 0 \in 0 .. Last /\ Last \in 0 .. Last
  BY StatesAssumption
<1>r. Run \in Senders /\ Workers \subseteq Senders
  BY DEF Senders
\* The types when the channels stay as they are.
<1>k. ASSUME UNCHANGED <<clients, channel, lost>>, memory' \in 0 .. Last, counted' \in 0 .. Papers,
             run' \in {"work", "save", "publish", "stop", "stopping", "done"},
             sender' \in [Senders -> Sender], closed' \in BOOLEAN, stopping' \in BOOLEAN,
             handler' \in [Clients -> {"new", "subscribe", "look again", "write", "loop", "leave", "gone"}],
             read' \in [Clients -> -1 .. Last], shown' \in [Clients -> -1 .. Last]
      PROVE  TypeOK'
  BY <1>t, <1>l, <1>k, <1>y
<1>1. ASSUME NEW s \in Senders, BeginSend(s) PROVE ChannelInv'
  <2> DEFINE g == [sender[s] EXCEPT !.pc = "send", !.left = clients]
  <2>1. g \in Sender /\ g.left = clients
    <3>1. sender[s] \in Sender
      BY <1>t
    <3> QED
      BY <1>t, <3>1 DEF Sender
  <2>2. sender' = [sender EXCEPT ![s] = g] /\ UNCHANGED <<memory, run, counted, manager, channel, view>>
    BY <1>1 DEF BeginSend
  <2>3. g.pc = "send"
    BY <1>t DEF Sender
  <2> HIDE DEF g
  <2>4. /\ sender' \in [Senders -> Sender] /\ sender'[s] = g
        /\ \A u \in Senders \ {s} : sender'[u] = sender[u]
    BY <1>t, <2>1, <2>2, SenderMoves
  <2>5. TypeOK'
    BY <1>t, <1>k, <2>2, <2>4 DEF manager, view
  <2> QED
    BY <1>t, <2>1, <2>2, <2>3, <2>4, <2>5 DEF ChannelInv, manager, view
<1>2. ASSUME NEW s \in Senders, SendTo(s) PROVE ChannelInv'
  <2>1. PICK c \in sender[s].left :
          /\ \/ /\ Len(channel[c].queue) < Capacity
                /\ channel' = [channel EXCEPT ![c].queue = Append(@, sender[s].event)]
                /\ UNCHANGED lost
             \/ UNCHANGED channel /\ lost' \in {lost, lost \cup {c}}
          /\ sender' = [sender EXCEPT ![s].left = @ \ {c}]
    BY <1>2 DEF SendTo
  <2>2. /\ sender[s].pc = "send"
        /\ UNCHANGED <<memory, run, counted, clients, closed, stopping, handler, read, shown>>
    BY <1>2 DEF SendTo, manager
  <2>3. c \in clients /\ c \in Clients /\ sender[s].left \subseteq clients
    BY <1>t DEF ChannelInv
  <2> DEFINE g == [sender[s] EXCEPT !.left = @ \ {c}]
  <2>4. g \in Sender /\ g.left = sender[s].left \ {c} /\ g.pc = "send"
    <3>1. sender[s] \in Sender
      BY <1>t
    <3> QED
      BY <2>2, <3>1 DEF Sender
  <2>5. sender' = [sender EXCEPT ![s] = g]
    BY <2>1
  <2> HIDE DEF g
  <2>6. /\ sender' \in [Senders -> Sender] /\ sender'[s] = g
        /\ \A u \in Senders \ {s} : sender'[u] = sender[u]
    BY <1>t, <2>4, <2>5, SenderMoves
  <2>7. /\ channel' \in [Clients -> Channel]
        /\ \A d \in Clients : /\ channel'[d].open = channel[d].open
                              /\ Len(channel'[d].queue) <= Capacity
                              /\ d # c => channel'[d] = channel[d]
    <3>1. CASE UNCHANGED channel
      BY <1>t, <1>l, <3>1
    <3>2. CASE /\ Len(channel[c].queue) < Capacity
               /\ channel' = [channel EXCEPT ![c].queue = Append(@, sender[s].event)]
      <4>1. sender[s].event \in Events
        BY <1>t DEF Sender
      <4>2. /\ Append(channel[c].queue, sender[s].event) \in Seq(Events)
            /\ Len(Append(channel[c].queue, sender[s].event)) <= Capacity
        BY <1>l, <1>n, <2>3, <3>2, <4>1, AfterAppend
      <4> DEFINE q == Append(channel[c].queue, sender[s].event)
                 h == [channel[c] EXCEPT !.queue = q]
      <4>3. channel' = [channel EXCEPT ![c] = h] /\ channel[c] \in Channel
        BY <1>t, <2>3, <3>2
      <4>4. h \in Channel /\ h.queue = q /\ h.open = channel[c].open
        BY <4>2, <4>3, ChannelParts
      <4> HIDE DEF h
      <4> QED
        BY <1>t, <1>l, <2>3, <4>2, <4>3, <4>4
    <3> QED
      BY <2>1, <3>1, <3>2
  <2>8. TypeOK'
    <3>1. lost' \subseteq Clients
      BY <1>t, <2>1, <2>3
    <3> QED
      BY <1>t, <1>y, <2>2, <2>6, <2>7, <3>1
  <2>9. \A u \in Senders : /\ sender'[u].left \subseteq clients
                           /\ sender'[u].pc # "send" => sender'[u].left = {}
    BY <2>3, <2>4, <2>6 DEF ChannelInv
  <2>10. \A d \in Clients : handler[d] \in {"new", "subscribe"} =>
           channel'[d].open /\ channel'[d].queue = <<>>
    <3>1. handler[c] \notin {"new", "subscribe"}
      BY <2>3 DEF ChannelInv
    <3> QED
      BY <2>7, <3>1 DEF ChannelInv
  <2>11. \A d \in clients : channel'[d].open /\ handler[d] \in {"look again", "write", "loop", "leave"}
    BY <1>t, <2>7 DEF ChannelInv
  <2> QED
    BY <2>2, <2>7, <2>8, <2>9, <2>10, <2>11 DEF ChannelInv
<1>3. ASSUME NEW s \in Senders, EndSend(s) PROVE ChannelInv'
  <2>1. /\ sender' = [sender EXCEPT ![s] = Quiet]
        /\ run' \in {run, "done", "work"}
        /\ UNCHANGED <<memory, counted, clients, closed, stopping, channel, handler, read, shown, lost>>
    BY <1>3 DEF EndSend, manager, view
  <2>2. /\ sender' \in [Senders -> Sender] /\ sender'[s] = Quiet
        /\ \A u \in Senders \ {s} : sender'[u] = sender[u]
    BY <1>t, <2>1, QuietType, SenderMoves
  <2>3. TypeOK'
    BY <1>t, <1>k, <2>1, <2>2
  <2> QED
    BY <2>1, <2>2, <2>3, QuietType, ChannelStays
<1>4. CASE Publish \/ Interrupt
  <2>1. /\ memory' \in 0 .. Last /\ run' \in {"save", "stop"}
        /\ UNCHANGED <<counted, sender, clients, closed, stopping, channel, handler, read, shown, lost>>
    <3>1. memory' = memory \/ memory' = Last \/ (memory < Last /\ memory' = memory + 1)
      BY <1>4 DEF Publish, Interrupt
    <3>2. memory' \in 0 .. Last
      BY <1>m, <1>n, <3>1
    <3> QED
      BY <1>4, <3>2 DEF Publish, Interrupt, manager, view
  <2>2. TypeOK'
    BY <1>t, <1>k, <2>1
  <2> QED
    BY <2>1, <2>2, ChannelStays
<1>5. CASE Save
  <2> DEFINE g == [Quiet EXCEPT !.pc = "ready", !.event = Status(memory)]
  <2>1. /\ sender' = [sender EXCEPT ![Run] = g] /\ run' \in {"stopping", "publish"}
        /\ UNCHANGED <<memory, counted, clients, closed, stopping, channel, handler, read, shown, lost>>
    BY <1>5 DEF Save, manager, view
  <2>2. g \in Sender /\ g.left = {}
    BY <1>t, QuietType, EventTypes DEF Sender
  <2> HIDE DEF g
  <2>3. /\ sender' \in [Senders -> Sender] /\ sender'[Run] = g
        /\ \A u \in Senders \ {Run} : sender'[u] = sender[u]
    BY <1>t, <1>r, <2>1, <2>2, SenderMoves
  <2>4. TypeOK'
    BY <1>t, <1>k, <2>1, <2>3
  <2> QED
    BY <2>1, <2>2, <2>3, <2>4, ChannelStays
<1>6. ASSUME NEW w \in Workers, CountJob(w) PROVE ChannelInv'
  <2> DEFINE g == [Quiet EXCEPT !.pc = "ready"]
  <2>1. /\ sender' = [sender EXCEPT ![w] = g] /\ counted < Papers /\ counted' = counted + 1
        /\ UNCHANGED <<memory, run, clients, closed, stopping, channel, handler, read, shown, lost>>
    BY <1>6 DEF CountJob, manager, view
  <2>2. g \in Sender /\ g.left = {}
    BY QuietType DEF Sender
  <2> HIDE DEF g
  <2>3. /\ sender' \in [Senders -> Sender] /\ sender'[w] = g
        /\ \A u \in Senders \ {w} : sender'[u] = sender[u]
    BY <1>t, <1>r, <2>1, <2>2, SenderMoves
  <2>4. counted' \in 0 .. Papers
    BY <1>m, <1>n, <2>1
  <2>5. TypeOK'
    BY <1>t, <1>k, <2>1, <2>3, <2>4
  <2> QED
    BY <2>1, <2>2, <2>3, <2>5, ChannelStays
\* The steps of a handler that only read the manager.
<1>7. ASSUME NEW c \in Clients,
             Lookup(c) \/ LookAgain(c) \/ Write(c) \/ Drained(c) \/ Disconnect(c)
      PROVE  ChannelInv'
  <2>1. /\ UNCHANGED <<memory, run, counted, sender, clients, closed, stopping, channel, lost>>
        /\ read' \in [Clients -> -1 .. Last] /\ shown' \in [Clients -> -1 .. Last]
    <3>1. memory \in -1 .. Last
      BY <1>m, <1>n
    <3>2. read' \in {read, [read EXCEPT ![c] = memory]} /\ shown' \in {shown, [shown EXCEPT ![c] = read[c]]}
      BY <1>7 DEF Lookup, LookAgain, Write, Drained, Disconnect
    <3>3. read' \in [Clients -> -1 .. Last] /\ shown' \in [Clients -> -1 .. Last]
      BY <1>t, <3>1, <3>2
    <3> QED
      BY <1>7, <3>3 DEF Lookup, LookAgain, Write, Drained, Disconnect, manager
  <2>2. /\ handler' \in [Clients -> {"new", "subscribe", "look again", "write", "loop", "leave", "gone"}]
        /\ \A d \in Clients \ {c} : handler'[d] = handler[d]
        /\ \/ handler[c] = "new" /\ handler'[c] = "subscribe"
           \/ /\ handler[c] \in {"look again", "write", "loop"}
              /\ handler'[c] \in {"write", "loop", "leave"}
    BY <1>t, <1>7 DEF Lookup, LookAgain, Write, Drained, Disconnect, Goto
  <2>3. TypeOK'
    BY <1>t, <1>k, <2>1, <2>2
  <2> QED
    BY <2>1, <2>2, <2>3, ChannelStays
<1>8. ASSUME NEW c \in Clients, Subscribe(c) PROVE ChannelInv'
  <2>1. /\ handler[c] = "subscribe" /\ handler' = [handler EXCEPT ![c] = "look again"]
        /\ UNCHANGED <<memory, run, counted, sender, closed, stopping, read, shown, lost>>
    BY <1>8 DEF Subscribe, Goto
  <2>2. /\ handler' \in [Clients -> {"new", "subscribe", "look again", "write", "loop", "leave", "gone"}]
        /\ \A d \in Clients \ {c} : handler'[d] = handler[d]
        /\ handler'[c] = "look again" /\ c \notin clients
    BY <1>t, <2>1 DEF ChannelInv
  <2>3. channel[c].open /\ channel[c].queue = <<>>
    BY <2>1 DEF ChannelInv
  <2>4. CASE UNCHANGED channel /\ clients' = clients \cup {c}
    <3>1. TypeOK'
      BY <1>t, <1>l, <1>y, <2>1, <2>2, <2>4
    <3> QED
      BY <1>t, <2>1, <2>2, <2>3, <2>4, <3>1 DEF ChannelInv
  <2>5. CASE channel' = [channel EXCEPT ![c].open = FALSE] /\ clients' = clients
    <3>1. /\ channel' \in [Clients -> Channel]
          /\ \A d \in Clients : channel'[d].queue = channel[d].queue
          /\ \A d \in Clients \ {c} : channel'[d] = channel[d]
      BY <1>t, <2>5 DEF Channel
    <3>2. TypeOK'
      BY <1>t, <1>l, <1>y, <2>1, <2>2, <2>5, <3>1
    <3> QED
      BY <1>t, <2>1, <2>2, <2>5, <3>1, <3>2, ZenonT(40) DEF ChannelInv
  <2> QED
    BY <1>8, <2>4, <2>5 DEF Subscribe
<1>9. ASSUME NEW c \in Clients, Receive(c) PROVE ChannelInv'
  <2>1. /\ handler[c] = "loop" /\ channel[c].queue # <<>>
        /\ handler' \in {handler, [handler EXCEPT ![c] = "leave"]}
        /\ channel' = [channel EXCEPT ![c].queue = Tail(@)]
        /\ UNCHANGED <<memory, run, counted, sender, clients, closed, stopping, read, lost>>
    BY <1>9 DEF Receive, Goto, manager
  <2>2. /\ Tail(channel[c].queue) \in Seq(Events) /\ Len(Tail(channel[c].queue)) <= Capacity
        /\ Head(channel[c].queue) \in Events
    BY <1>l, <1>n, <2>1, AfterTail
  <2>3. /\ channel' \in [Clients -> Channel]
        /\ \A d \in Clients : channel'[d].open = channel[d].open
        /\ \A d \in Clients \ {c} : channel'[d] = channel[d]
        /\ channel'[c].queue = Tail(channel[c].queue)
    <3> DEFINE h == [channel[c] EXCEPT !.queue = Tail(channel[c].queue)]
    <3>1. channel' = [channel EXCEPT ![c] = h] /\ channel[c] \in Channel
      BY <1>t, <2>1
    <3>2. h \in Channel /\ h.queue = Tail(channel[c].queue) /\ h.open = channel[c].open
      BY <2>2, <3>1, ChannelParts
    <3> HIDE DEF h
    <3> QED
      BY <1>t, <3>1, <3>2
  <2>4. shown' \in [Clients -> -1 .. Last]
    <3>1. Head(channel[c].queue) # Progress => Head(channel[c].queue).state \in 0 .. Last
      BY <2>2 DEF Events, Status
    <3>2. \/ shown' = shown
          \/ /\ Head(channel[c].queue) # Progress
             /\ shown' = [shown EXCEPT ![c] = Head(channel[c].queue).state]
      BY <1>t, <1>9 DEF Receive
    <3>3. 0 .. Last \subseteq -1 .. Last
      BY <1>n
    <3> QED
      BY <1>t, <3>1, <3>2, <3>3
  <2>5. /\ handler' \in [Clients -> {"new", "subscribe", "look again", "write", "loop", "leave", "gone"}]
        /\ \A d \in Clients : handler'[d] = handler[d] \/ (d = c /\ handler'[d] = "leave")
    BY <1>t, <2>1
  <2>6. TypeOK'
    BY <1>t, <1>l, <1>y, <2>1, <2>2, <2>3, <2>4, <2>5
  <2>7. \A d \in clients : channel'[d].open /\ handler'[d] \in {"look again", "write", "loop", "leave"}
    BY <1>t, <2>3, <2>5 DEF ChannelInv
  <2>8. \A d \in Clients : handler'[d] \in {"new", "subscribe"} => channel'[d].open /\ channel'[d].queue = <<>>
    BY <2>1, <2>3, <2>5 DEF ChannelInv
  <2> QED
    BY <2>1, <2>3, <2>6, <2>7, <2>8 DEF ChannelInv
\* The two that close channels: nobody is sending.
<1>10. ASSUME NEW c \in Clients, Unsubscribe(c) PROVE ChannelInv'
  <2>1. /\ handler[c] = "leave" /\ handler' = [handler EXCEPT ![c] = "gone"]
        /\ clients' = clients \ {c} /\ channel' \in {channel, [channel EXCEPT ![c].open = FALSE]}
        /\ \A s \in Senders : sender[s].left = {}
        /\ UNCHANGED <<memory, run, counted, sender, closed, stopping, read, shown, lost>>
    BY <1>10 DEF Unsubscribe, Goto, Writable, ChannelInv
  <2>2. /\ handler' \in [Clients -> {"new", "subscribe", "look again", "write", "loop", "leave", "gone"}]
        /\ \A d \in Clients \ {c} : handler'[d] = handler[d]
        /\ handler'[c] = "gone"
    BY <1>t, <2>1
  <2>3. /\ channel' \in [Clients -> Channel]
        /\ \A d \in Clients : channel'[d].queue = channel[d].queue
        /\ \A d \in Clients \ {c} : channel'[d] = channel[d]
    <3> DEFINE h == [channel[c] EXCEPT !.open = FALSE]
    <3>1. channel' \in {channel, [channel EXCEPT ![c] = h]} /\ channel[c] \in Channel
      BY <1>t, <2>1
    <3>2. h \in Channel /\ h.queue = channel[c].queue
      BY <1>l, <3>1, ChannelParts
    <3> HIDE DEF h
    <3> QED
      BY <1>t, <3>1, <3>2
  <2>4. TypeOK'
    BY <1>t, <1>l, <1>y, <2>1, <2>2, <2>3
  <2>5. \A d \in clients' : channel'[d].open /\ handler'[d] \in {"look again", "write", "loop", "leave"}
    BY <1>t, <2>1, <2>2, <2>3 DEF ChannelInv
  <2>6. \A d \in Clients : handler'[d] \in {"new", "subscribe"} => channel'[d].open /\ channel'[d].queue = <<>>
    BY <2>2, <2>3 DEF ChannelInv
  <2>7. \A s \in Senders : sender'[s].left \subseteq clients' /\ (sender'[s].pc # "send" => sender'[s].left = {})
    BY <2>1
  <2> QED
    BY <2>3, <2>4, <2>5, <2>6, <2>7 DEF ChannelInv
<1>11. CASE CloseAll
  <2>1. /\ channel' = [d \in Clients |-> IF d \in clients THEN [channel[d] EXCEPT !.open = FALSE]
                                                        ELSE channel[d]]
        /\ clients' = {} /\ closed' = TRUE /\ \A s \in Senders : sender[s].left = {}
        /\ UNCHANGED <<memory, run, counted, sender, stopping, handler, read, shown, lost>>
    BY <1>11 DEF CloseAll, Writable, ChannelInv, view
  <2>2. /\ channel' \in [Clients -> Channel]
        /\ \A d \in Clients : channel'[d].queue = channel[d].queue
        /\ \A d \in Clients \ clients : channel'[d] = channel[d]
    BY <1>t, <2>1 DEF Channel
  <2>3. TypeOK'
    BY <1>t, <1>l, <1>y, <2>1, <2>2
  <2>4. \A d \in Clients : handler[d] \in {"new", "subscribe"} => d \notin clients
    BY DEF ChannelInv
  <2> QED
    BY <2>1, <2>2, <2>3, <2>4 DEF ChannelInv
<1>12. CASE Shutdown
  <2>1. TypeOK'
    BY <1>t, <1>k, <1>12 DEF Shutdown, view
  <2> QED
    BY <1>12, <2>1, ChannelStays DEF Shutdown, view
<1>13. CASE UNCHANGED vars
  <2>1. TypeOK'
    BY <1>t, <1>k, <1>13 DEF vars, manager, view
  <2> QED
    BY <1>13, <2>1, ChannelStays DEF vars, manager, view
<1> QED
  BY <1>1, <1>2, <1>3, <1>4, <1>5, <1>6, <1>7, <1>8, <1>9, <1>10, <1>11, <1>12, <1>13
  DEF Next, Send, RunStep, Enter, Exit

\* In whatever order clients come and leave, events are sent and the server shuts
\* down, no goroutine sends on a closed channel, none closes a channel twice and
\* no channel is filled beyond its capacity (sse.go Send, Unsubscribe, CloseAll).
THEOREM ChannelTheorem == Spec => []OnlyOpenChannels
<1>1. ChannelInv => OnlyOpenChannels
  BY DEF ChannelInv, OnlyOpenChannels
<1> QED
  BY <1>1, ChannelInit, ChannelStep, PTL DEF Spec

-------------------------------------------------------------------------------
(* What clients are shown *)

LEMMA CurrentInit == Init => CurrentInv
<1> SUFFICES ASSUME Init PROVE CurrentInv
  OBVIOUS
<1>1. \A s \in Senders : sender[s].pc = "idle" /\ sender[s].event = Progress
  BY QuietType DEF Init
<1> QED
  BY <1>1 DEF CurrentInv, Init, Senders

\* Steps of one client: nobody sends and the state remembered stays.
LEMMA ClientStep ==
  ASSUME CurrentInv, UNCHANGED <<memory, run, sender, lost>>,
         \A d \in clients' \ lost :
           \/ handler'[d] = "leave"
           \/ ~ToCome(d) => Current(d)'
           \/ /\ d \in clients
              /\ UNCHANGED <<channel[d].queue, handler[d], read[d], shown[d]>>
  PROVE  CurrentInv'
<1>1. ASSUME NEW d \in clients' \ lost, handler'[d] # "leave", ~ToCome(d)' PROVE Current(d)'
  <2>1. ~ToCome(d)
    BY <1>1 DEF ToCome
  <2>2. CASE d \in clients /\ UNCHANGED <<channel[d].queue, handler[d], read[d], shown[d]>>
    BY <1>1, <2>1, <2>2 DEF CurrentInv, Current
  <2> QED
    BY <1>1, <2>1, <2>2
<1> QED
  BY <1>1 DEF CurrentInv

\* Steps that give the run's goroutine something to send.
LEMMA RunSends ==
  ASSUME CurrentInv, UNCHANGED lost,
         run' \in {"publish", "stopping"} <=> sender'[Run].pc # "idle",
         sender'[Run].pc # "idle" => sender'[Run].event = Status(memory'),
         \A w \in Workers : sender'[w].event = Progress,
         run' \in {"save", "stop"} \/ sender'[Run].pc = "ready"
  PROVE  CurrentInv'
  BY DEF CurrentInv, ToCome

LEMMA CurrentStep == ChannelInv /\ CurrentInv /\ [Next]_vars => CurrentInv'
<1> SUFFICES ASSUME ChannelInv, CurrentInv, [Next]_vars PROVE CurrentInv'
  OBVIOUS
<1>t. /\ sender \in [Senders -> Sender] /\ clients \subseteq Clients
      /\ channel \in [Clients -> Channel] /\ memory \in 0 .. Last
      /\ handler \in [Clients -> {"new", "subscribe", "look again", "write", "loop", "leave", "gone"}]
      /\ read \in [Clients -> -1 .. Last] /\ shown \in [Clients -> -1 .. Last]
  BY DEF ChannelInv, TypeOK, Sender
<1>l. \A c \in Clients : channel[c] \in Channel /\ channel[c].queue \in Seq(Events)
  BY <1>t, QueueOf
<1>r. Run \in Senders /\ Workers \subseteq Senders /\ Run \notin Workers /\ Senders = Workers \cup {Run}
  BY NamesAssumption DEF Senders
<1>e. \A s \in Senders : sender[s].pc \in {"idle", "ready", "send"} /\ sender[s].event \in Events
  BY <1>t DEF Sender
<1>1. ASSUME NEW s \in Senders, BeginSend(s) PROVE CurrentInv'
  <2> DEFINE g == [sender[s] EXCEPT !.pc = "send", !.left = clients]
  <2>1. sender[s].pc = "ready" /\ sender' = [sender EXCEPT ![s] = g]
        /\ UNCHANGED <<memory, run, clients, channel, handler, read, shown, lost>>
    BY <1>1 DEF BeginSend, manager, view
  <2>2. g.pc = "send" /\ g.left = clients /\ g.event = sender[s].event
    BY <1>t DEF Sender
  <2> HIDE DEF g
  <2>3. sender'[s] = g /\ \A u \in Senders \ {s} : sender'[u] = sender[u]
    BY <1>t, <2>1
  <2>4. \A c \in clients : ToCome(c) => ToCome(c)'
    BY <1>r, <2>1, <2>2, <2>3 DEF ToCome
  <2>5. \A c : Current(c) => Current(c)'
    BY <2>1 DEF Current
  <2>6. /\ run' \in {"publish", "stopping"} <=> sender'[Run].pc # "idle"
        /\ sender'[Run].pc # "idle" => sender'[Run].event = Status(memory')
        /\ \A w \in Workers : sender'[w].event = Progress
    BY <1>r, <2>1, <2>2, <2>3 DEF CurrentInv
  <2> QED
    BY <2>1, <2>4, <2>5, <2>6 DEF CurrentInv
<1>2. ASSUME NEW s \in Senders, SendTo(s) PROVE CurrentInv'
  <2> DEFINE e == sender[s].event
  <2>1. PICK c \in sender[s].left :
          /\ \/ /\ channel' = [channel EXCEPT ![c].queue = Append(@, e)]
                /\ UNCHANGED lost
             \/ /\ lost' = IF e = Progress THEN lost ELSE lost \cup {c}
                /\ UNCHANGED channel
          /\ sender' = [sender EXCEPT ![s].left = @ \ {c}]
    BY <1>2 DEF SendTo
  <2>2. sender[s].pc = "send" /\ UNCHANGED <<memory, run, clients, handler, read, shown>>
    BY <1>2 DEF SendTo, manager
  <2>3. c \in clients /\ c \in Clients /\ e \in Events
    BY <1>t, <1>e DEF ChannelInv
  <2> DEFINE g == [sender[s] EXCEPT !.left = @ \ {c}]
  <2>4. g.left = sender[s].left \ {c} /\ g.pc = "send" /\ g.event = e
    BY <1>t, <2>2 DEF Sender
  <2>5. sender' = [sender EXCEPT ![s] = g]
    BY <2>1
  <2> HIDE DEF g
  <2>6. sender'[s] = g /\ \A u \in Senders \ {s} : sender'[u] = sender[u]
    BY <1>t, <2>5
  <2>7. /\ run' \in {"publish", "stopping"} <=> sender'[Run].pc # "idle"
        /\ sender'[Run].pc # "idle" => sender'[Run].event = Status(memory')
        /\ \A w \in Workers : sender'[w].event = Progress
    BY <1>r, <2>2, <2>4, <2>6 DEF CurrentInv
  <2>8. \A d \in Clients \ {c} : ToCome(d)' <=> ToCome(d)
    BY <1>r, <2>2, <2>4, <2>6 DEF ToCome
  <2>9. \A d \in Clients \ {c} : channel'[d] = channel[d]
    BY <1>t, <2>1, <2>3
  <2>10. \A d \in clients \ {c} : d \notin lost' => d \notin lost
    BY <2>1
  <2>11. \A d \in clients \ {c} : d \notin lost' /\ handler'[d] # "leave" /\ ~ToCome(d)' => Current(d)'
    <3> SUFFICES ASSUME NEW d \in clients \ {c}, d \notin lost', handler'[d] # "leave", ~ToCome(d)'
                 PROVE  Current(d)'
      OBVIOUS
    <3>1. Current(d)
      BY <1>t, <2>2, <2>8, <2>10 DEF CurrentInv
    <3>2. channel'[d] = channel[d]
      BY <1>t, <2>9
    <3> QED
      BY <2>2, <3>1, <3>2 DEF Current
  <2>12. c \notin lost' /\ handler'[c] # "leave" /\ ~ToCome(c)' => Current(c)'
    <3> SUFFICES ASSUME c \notin lost', handler'[c] # "leave", ~ToCome(c)' PROVE Current(c)'
      OBVIOUS
    <3>1. CASE s = Run
      <4>1. e = Status(memory) /\ e # Progress
        BY <2>2, <3>1, EventTypes DEF CurrentInv
      <4>2. channel' = [channel EXCEPT ![c].queue = Append(@, e)]
        BY <2>1, <4>1
      <4>3. channel'[c].queue = Append(channel[c].queue, e)
        BY <1>t, <2>3, <4>2, ChannelParts, ZenonT(40) DEF Channel
      <4>4. Latest(Append(channel[c].queue, e), memory)
        BY <1>l, <2>3, <4>1, AfterAppend
      <4> QED
        BY <2>2, <4>3, <4>4 DEF Current
    <3>2. CASE s # Run
      <4>1. e = Progress /\ c \notin lost /\ sender'[Run] = sender[Run]
        BY <1>r, <2>1, <2>6, <3>2 DEF CurrentInv
      <4>2. Current(c)
        BY <2>2, <2>3, <4>1 DEF CurrentInv, ToCome
      <4>3. CASE UNCHANGED channel
        BY <2>2, <4>2, <4>3 DEF Current
      <4>4. CASE channel' = [channel EXCEPT ![c].queue = Append(@, e)]
        <5>1. channel'[c].queue = Append(channel[c].queue, e)
          BY <1>t, <2>3, <4>4, ChannelParts, ZenonT(40) DEF Channel
        <5>2. /\ Latest(channel[c].queue, memory) => Latest(channel'[c].queue, memory)
              /\ OnlyProgress(channel[c].queue) => OnlyProgress(channel'[c].queue)
          BY <1>l, <2>3, <4>1, <5>1, AfterAppend
        <5> QED
          BY <2>2, <4>2, <5>2 DEF Current
      <4> QED
        BY <2>1, <4>3, <4>4
    <3> QED
      BY <3>1, <3>2
  <2> QED
    BY <2>2, <2>7, <2>11, <2>12 DEF CurrentInv
<1>3. ASSUME NEW s \in Senders, EndSend(s) PROVE CurrentInv'
  <2>1. /\ sender[s].pc = "send" /\ sender[s].left = {} /\ sender' = [sender EXCEPT ![s] = Quiet]
        /\ s # Run => run' = run
        /\ s = Run => run' \in {"done", "work"}
        /\ UNCHANGED <<memory, clients, channel, handler, read, shown, lost>>
    BY <1>3 DEF EndSend, manager, view
  <2>2. sender'[s] = Quiet /\ \A u \in Senders \ {s} : sender'[u] = sender[u]
    BY <1>t, <2>1
  <2>3. /\ run' \in {"publish", "stopping"} <=> sender'[Run].pc # "idle"
        /\ sender'[Run].pc # "idle" => sender'[Run].event = Status(memory')
        /\ \A w \in Workers : sender'[w].event = Progress
    BY <1>r, <2>1, <2>2, QuietType DEF CurrentInv
  <2>4. \A c : ~ToCome(c)' => ~ToCome(c)
    <3>1. CASE s = Run
      <4>1. run \in {"publish", "stopping"}
        BY <2>1, <3>1 DEF CurrentInv
      <4> QED
        BY <2>1, <3>1, <4>1 DEF ToCome
    <3>2. CASE s # Run
      BY <1>r, <2>1, <2>2, <3>2 DEF ToCome
    <3> QED
      BY <3>1, <3>2
  <2>5. \A c : Current(c) => Current(c)'
    BY <2>1 DEF Current
  <2> QED
    BY <2>1, <2>3, <2>4, <2>5 DEF CurrentInv
<1>4. CASE Publish \/ Interrupt
  <2>1. run = "work" /\ run' \in {"save", "stop"} /\ UNCHANGED <<sender, lost>>
    BY <1>4 DEF Publish, Interrupt, view
  <2>2. sender[Run].pc = "idle"
    BY <2>1 DEF CurrentInv
  <2> QED
    BY <2>1, <2>2, RunSends DEF CurrentInv
<1>5. CASE Save
  <2> DEFINE g == [Quiet EXCEPT !.pc = "ready", !.event = Status(memory)]
  <2>1. /\ sender' = [sender EXCEPT ![Run] = g] /\ run' \in {"stopping", "publish"}
        /\ UNCHANGED <<memory, lost>>
    BY <1>5 DEF Save, view
  <2>2. g.pc = "ready" /\ g.event = Status(memory)
    BY QuietType DEF Sender
  <2> HIDE DEF g
  <2>3. sender'[Run] = g /\ \A w \in Workers : sender'[w] = sender[w]
    BY <1>t, <1>r, <2>1
  <2> QED
    BY <2>1, <2>2, <2>3, RunSends DEF CurrentInv
<1>6. ASSUME NEW w \in Workers, CountJob(w) PROVE CurrentInv'
  <2> DEFINE g == [Quiet EXCEPT !.pc = "ready"]
  <2>1. /\ sender' = [sender EXCEPT ![w] = g]
        /\ UNCHANGED <<memory, run, clients, channel, handler, read, shown, lost>>
    BY <1>6 DEF CountJob, manager, view
  <2>2. g.event = Progress
    BY QuietType DEF Sender
  <2> HIDE DEF g
  <2>3. sender'[w] = g /\ \A u \in Senders \ {w} : sender'[u] = sender[u]
    BY <1>t, <1>r, <2>1
  <2>4. sender'[Run] = sender[Run] /\ \A u \in Workers : sender'[u].event = Progress
    BY <1>r, <2>2, <2>3 DEF CurrentInv
  <2>5. \A c : (Current(c) => Current(c)') /\ (ToCome(c)' <=> ToCome(c))
    BY <2>1, <2>4 DEF Current, ToCome
  <2> QED
    BY <2>1, <2>4, <2>5 DEF CurrentInv
<1>7. ASSUME NEW c \in Clients, Lookup(c) \/ Drained(c) \/ Disconnect(c) \/ Unsubscribe(c) PROVE CurrentInv'
  <2>1. /\ UNCHANGED <<memory, run, sender, shown, lost>> /\ clients' \subseteq clients
        /\ \A d \in Clients \ {c} : UNCHANGED <<channel[d], handler[d], read[d]>>
        /\ handler'[c] = "leave" \/ c \notin clients'
    <3>1. CASE Lookup(c)
      BY <1>t, <3>1 DEF Lookup, Goto, manager, ChannelInv
    <3>2. CASE Drained(c) \/ Disconnect(c)
      BY <1>t, <3>2 DEF Drained, Disconnect, Goto, manager
    <3>3. CASE Unsubscribe(c)
      BY <1>t, <3>3 DEF Unsubscribe, Goto
    <3> QED
      BY <1>7, <3>1, <3>2, <3>3
  <2> QED
    BY <1>t, <2>1, ClientStep
<1>8. ASSUME NEW c \in Clients, Subscribe(c) PROVE CurrentInv'
  <2>1. /\ handler[c] = "subscribe" /\ handler' = [handler EXCEPT ![c] = "look again"]
        /\ UNCHANGED <<memory, run, sender, read, shown, lost>>
        /\ \/ UNCHANGED channel /\ clients' = clients \cup {c}
           \/ channel' = [channel EXCEPT ![c].open = FALSE] /\ clients' = clients
    BY <1>8 DEF Subscribe, Goto
  <2>2. c \notin clients /\ channel[c].queue = <<>>
    BY <2>1 DEF ChannelInv
  <2>3. \A d \in clients : UNCHANGED <<channel[d], handler[d], read[d], shown[d]>>
    BY <1>t, <2>1, <2>2
  <2>4. c \in clients' => Current(c)'
    <3> SUFFICES ASSUME c \in clients' PROVE Current(c)'
      OBVIOUS
    <3>0. channel' = channel /\ handler'[c] = "look again"
      BY <1>t, <2>1, <2>2
    <3>1. channel'[c].queue = <<>> /\ handler'[c] = "look again"
      BY <2>2, <3>0
    <3>2. OnlyProgress(channel'[c].queue)
      <4>1. OnlyProgress(<<>>)
        BY DEF OnlyProgress
      <4> QED
        BY <3>1, <4>1
    <3> QED
      BY <3>1, <3>2 DEF Current
  <2>5. \A d \in clients' : d = c \/ d \in clients
    BY <2>1
  <2> QED
    BY <2>1, <2>3, <2>4, <2>5, ClientStep
<1>9. ASSUME NEW c \in Clients, LookAgain(c) \/ Write(c) PROVE CurrentInv'
  <2>1. /\ UNCHANGED <<memory, run, sender, clients, channel, lost>>
        /\ \A d \in Clients \ {c} : UNCHANGED <<handler[d], read[d], shown[d]>>
        /\ \/ handler'[c] = "write" /\ read'[c] = memory
           \/ handler[c] = "write" /\ handler'[c] = "loop" /\ shown'[c] = read[c]
        /\ handler[c] # "leave"
    BY <1>t, <1>9 DEF LookAgain, Write, Goto, manager
  <2>2. c \in clients \ lost /\ ~ToCome(c) => Current(c)'
    <3> SUFFICES ASSUME c \in clients \ lost, ~ToCome(c) PROVE Current(c)'
      OBVIOUS
    <3>1. Current(c)
      BY <2>1 DEF CurrentInv
    <3> QED
      BY <2>1, <3>1 DEF Current
  <2> QED
    BY <1>t, <2>1, <2>2, ClientStep
<1>10. ASSUME NEW c \in Clients, Receive(c) PROVE CurrentInv'
  <2> DEFINE q == channel[c].queue
  <2>1. /\ UNCHANGED <<memory, run, sender, clients, read, lost>>
        /\ handler[c] = "loop" /\ q # <<>> /\ channel' = [channel EXCEPT ![c].queue = Tail(@)]
        /\ \/ shown' = [shown EXCEPT ![c] = IF Head(q) = Progress THEN @ ELSE Head(q).state]
              /\ UNCHANGED handler
           \/ handler' = [handler EXCEPT ![c] = "leave"] /\ UNCHANGED shown
    BY <1>10 DEF Receive, Goto, manager
  <2>2. /\ \A d \in Clients \ {c} : UNCHANGED <<channel[d], handler[d], read[d], shown[d]>>
        /\ channel'[c].queue = Tail(q)
    <3>1. channel'[c].queue = Tail(q)
      BY <1>t, <2>1 DEF Channel
    <3> QED
      BY <1>t, <2>1, <3>1
  <2>3. ASSUME c \in clients \ lost, ~ToCome(c), handler'[c] # "leave" PROVE Current(c)'
    <3>1. Current(c) /\ handler' = handler
      BY <1>t, <2>1, <2>3 DEF CurrentInv
    <3>2. shown'[c] = IF Head(q) = Progress THEN shown[c] ELSE Head(q).state
      BY <1>t, <2>1, <2>3
    <3>3. CASE Latest(Tail(q), memory)
      BY <2>1, <2>2, <3>3 DEF Current
    <3>4. CASE Head(q) = Status(memory) /\ OnlyProgress(Tail(q))
      <4>1. Head(q) # Progress /\ Head(q).state = memory
        BY <3>4, EventTypes DEF Status
      <4> QED
        BY <2>1, <2>2, <3>1, <3>2, <3>4, <4>1 DEF Current
    <3>5. CASE OnlyProgress(q) /\ shown[c] = memory
      <4>1. Head(q) = Progress /\ OnlyProgress(Tail(q))
        BY <1>l, <2>1, <3>5, AfterTail
      <4> QED
        BY <2>1, <2>2, <3>1, <3>2, <3>5, <4>1 DEF Current
    <3>6. Latest(q, memory) => Latest(Tail(q), memory) \/ (Head(q) = Status(memory) /\ OnlyProgress(Tail(q)))
      BY <1>l, <2>1, AfterTail
    <3> QED
      BY <2>1, <3>1, <3>3, <3>4, <3>5, <3>6 DEF Current
  <2> QED
    BY <1>t, <2>1, <2>2, <2>3, ClientStep
<1>11. CASE CloseAll \/ Shutdown
  <2>1. /\ UNCHANGED <<memory, run, sender, lost>>
        /\ clients' = {} \/ UNCHANGED <<clients, channel, handler, read, shown>>
    BY <1>11 DEF CloseAll, Shutdown, view
  <2> QED
    BY <2>1, ClientStep
<1>12. CASE UNCHANGED vars
  BY <1>12, ClientStep DEF vars, manager, view
<1> QED
  BY <1>1, <1>2, <1>3, <1>4, <1>5, <1>6, <1>7, <1>8, <1>9, <1>10, <1>11, <1>12
  DEF Next, Send, RunStep, Enter, Exit

\* A client that is connected, lost nothing and has nothing left to receive was
\* shown the state that the run's status is, whenever the run is not publishing:
\* no event falls between the lookup, the subscription and the sending
\* (handler Stream, sse.go Subscribe and Send, Publish).
THEOREM ShownTheorem == Spec => []ShownIsCurrent
<1>1. ChannelInv /\ CurrentInv => ShownIsCurrent
  <2> SUFFICES ASSUME ChannelInv, CurrentInv, NEW c \in clients \ lost, handler[c] = "loop",
                      channel[c].queue = <<>>, run \in {"work", "done"}
               PROVE  shown[c] = memory
    BY DEF ShownIsCurrent
  <2>1. ~ToCome(c)
    BY DEF CurrentInv, ToCome
  <2>2. Current(c)
    BY <2>1 DEF CurrentInv
  <2>3. ~Latest(channel[c].queue, memory)
    BY DEF Latest
  <2> QED
    BY <2>2, <2>3 DEF Current
<1>2. Init => ChannelInv /\ CurrentInv
  BY ChannelInit, CurrentInit
<1>3. ChannelInv /\ CurrentInv /\ [Next]_vars => (ChannelInv /\ CurrentInv)'
  BY ChannelStep, CurrentStep
<1> QED
  BY <1>1, <1>2, <1>3, PTL DEF Spec
===============================================================================
