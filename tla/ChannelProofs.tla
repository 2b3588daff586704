---------------------------- MODULE ChannelProofs ----------------------------
(***************************************************************************)
(* Proofs about channels: each direction is a bounded stream of messages,    *)
(* and a peer that goes away reaches everyone who sleeps, for any tasks on   *)
(* any CPUs, any calls and every MAX_BUFFERED_MESSAGES.                      *)
(***************************************************************************)
EXTENDS Channel, TLAPS

USE ChannelAssumption

-----------------------------------------------------------------------------
(* The inductive invariant *)

Places ==
    {"idle", "once", "push_once", "register", "check", "transfer", "push", "wake", "asleep"}
Opcodes == {"send", "send_fd", "recv", "recv_fd"}
Lines == Sides \X {"send", "recv"}

\* The wait queue task t sleeps in.
LineOf(t) == <<SideOf(t), Dir(t)>>

\* Types, the bound of the queues, and that a task in a call holds its side open.
Streams ==
    /\ queue \in [Sides -> Seq(Message)]
    /\ \A s \in Sides : Len(queue[s]) <= MaxBuffered
    /\ open \in [Sides -> BOOLEAN]
    /\ out \in [Sides -> Seq(Message)]
    /\ ended \in [Sides -> BOOLEAN] /\ broken \in [Sides -> BOOLEAN]
    /\ pc \in [Tasks -> Places] /\ op \in [Tasks -> Opcodes]
    /\ \A t \in Tasks : pc[t] # "idle" => open[SideOf(t)]

\* Types of the wait queues and of what refers to them.
WqTyped ==
    /\ wq \in [Lines -> Seq(Tasks \cup {Noop})]
    /\ trapped \subseteq Tasks /\ closing \subseteq Lines

\* A task that sleeps, or may be about to, is queued or its waker waits in its line.
RegisteredFor(t) ==
    pc[t] = "asleep" \/ (pc[t] = "check" /\ t \in trapped) =>
        t \in ready \/ t \in WakersIn(wq[LineOf(t)])

\* One that sleeps without a peer is queued or its line is due to be woken.
HangupFor(t) ==
    pc[t] = "asleep" /\ ~open[Peer(SideOf(t))] => t \in ready \/ LineOf(t) \in closing

ChannelInv == Streams /\ WqTyped /\ \A t \in Tasks : RegisteredFor(t) /\ HangupFor(t)

-----------------------------------------------------------------------------
(* What a step does to one stream *)

\* BoundedStream's actions for the queue of side s, which side Peer(s) drains.
SameEnds(s) == open'[s] = open[s] /\ open'[Peer(s)] = open[Peer(s)]
SameReports(s) == ended'[s] = ended[s] /\ broken'[s] = broken[s]

Grows(s) ==
    /\ open[s]
    /\ queue'[s] \in Seq(Message)
    /\ Len(queue[s]) < Len(queue'[s]) /\ Len(queue'[s]) <= MaxBuffered
    /\ SubSeq(queue'[s], 1, Len(queue[s])) = queue[s]
    /\ out'[s] = out[s] /\ SameEnds(s) /\ SameReports(s)

Shrinks(s) ==
    /\ open[Peer(s)] /\ 1 \in 1 .. Len(queue[s])
    /\ out'[s] = SubSeq(queue[s], 1, 1)
    /\ queue'[s] = SubSeq(queue[s], 1 + 1, Len(queue[s]))
    /\ SameEnds(s) /\ SameReports(s)

Ends(s) ==
    /\ open[Peer(s)] /\ ~open[s] /\ queue[s] = << >>
    /\ ended'[s] = TRUE
    /\ queue'[s] = queue[s] /\ out'[s] = out[s] /\ SameEnds(s) /\ broken'[s] = broken[s]

Breaks(s) ==
    /\ open[s] /\ ~open[Peer(s)]
    /\ broken'[s] = TRUE
    /\ queue'[s] = queue[s] /\ out'[s] = out[s] /\ SameEnds(s) /\ ended'[s] = ended[s]

Closes(s) ==
    /\ \/ open'[s] = FALSE /\ open'[Peer(s)] = open[Peer(s)]
       \/ open'[Peer(s)] = FALSE /\ open'[s] = open[s]
    /\ queue'[s] = queue[s] /\ out'[s] = out[s] /\ SameReports(s)

Rests(s) == queue'[s] = queue[s] /\ out'[s] = out[s] /\ SameEnds(s) /\ SameReports(s)

StreamStep(s) == Grows(s) \/ Shrinks(s) \/ Ends(s) \/ Breaks(s) \/ Closes(s) \/ Rests(s)

\* The pointwise steps are those of the two instances of BoundedStream.
LEMMA StepsOfStreams ==
    ASSUME \A s \in Sides : StreamStep(s)
    PROVE  [AtoB!Next]_(AtoB!vars) /\ [BtoA!Next]_(BtoA!vars)
<1>1. StreamStep("a") /\ StreamStep("b") /\ Peer("a") = "b" /\ Peer("b") = "a"
      BY DEF Sides, Peer
<1>2. [AtoB!Next]_(AtoB!vars)
  <2>1. CASE Grows("a")
        BY <1>1, <2>1 DEF Grows, SameEnds, SameReports, AtoB!Next, AtoB!Put
  <2>2. CASE Shrinks("a")
    <3>1. AtoB!Get(1)
          BY <1>1, <2>2, Zenon DEF Shrinks, SameEnds, SameReports, AtoB!Get
    <3> QED
          BY <2>2, <3>1, Zenon DEF Shrinks, AtoB!Next
  <2>3. CASE Ends("a")
        BY <1>1, <2>3, Zenon DEF Ends, SameEnds, AtoB!Next, AtoB!EndOfFile
  <2>4. CASE Breaks("a")
        BY <1>1, <2>4, Zenon DEF Breaks, SameEnds, AtoB!Next, AtoB!Broken
  <2>5. CASE Closes("a")
        BY <1>1, <2>5, Zenon DEF Closes, SameReports, AtoB!Next, AtoB!Close
  <2>6. CASE Rests("a")
        BY <1>1, <2>6, Zenon DEF Rests, SameEnds, SameReports, AtoB!vars
  <2> QED
        BY <1>1, <2>1, <2>2, <2>3, <2>4, <2>5, <2>6, Zenon DEF StreamStep
<1>3. [BtoA!Next]_(BtoA!vars)
  <2>1. CASE Grows("b")
        BY <1>1, <2>1 DEF Grows, SameEnds, SameReports, BtoA!Next, BtoA!Put
  <2>2. CASE Shrinks("b")
    <3>1. BtoA!Get(1)
          BY <1>1, <2>2, Zenon DEF Shrinks, SameEnds, SameReports, BtoA!Get
    <3> QED
          BY <2>2, <3>1, Zenon DEF Shrinks, BtoA!Next
  <2>3. CASE Ends("b")
        BY <1>1, <2>3, Zenon DEF Ends, SameEnds, BtoA!Next, BtoA!EndOfFile
  <2>4. CASE Breaks("b")
        BY <1>1, <2>4, Zenon DEF Breaks, SameEnds, BtoA!Next, BtoA!Broken
  <2>5. CASE Closes("b")
        BY <1>1, <2>5, Zenon DEF Closes, SameReports, BtoA!Next, BtoA!Close
  <2>6. CASE Rests("b")
        BY <1>1, <2>6, Zenon DEF Rests, SameEnds, SameReports, BtoA!vars
  <2> QED
        BY <1>1, <2>1, <2>2, <2>3, <2>4, <2>5, <2>6, Zenon DEF StreamStep
<1> QED
      BY <1>2, <1>3

-----------------------------------------------------------------------------
(* The streams *)

\* A task's queue and the sides it lies between.
LEMMA Between ==
    ASSUME Streams, NEW t \in Tasks
    PROVE  /\ SideOf(t) \in Sides /\ QueueOf(t) \in Sides /\ Peer(SideOf(t)) \in Sides
           /\ Peer(Peer(SideOf(t))) = SideOf(t)
           /\ Sending(t) => QueueOf(t) = SideOf(t)
           /\ ~Sending(t) => QueueOf(t) = Peer(SideOf(t))
           /\ LineOf(t) \in Lines
      BY DEF SideOf, Sides, Peer, QueueOf, LineOf, Dir, Lines

\* A step that moves one task of an open side, or none, leaves the places right.
LEMMA Moves ==
    ASSUME Streams, NEW t \in Tasks, NEW l \in Places, Goto(t, l),
           open[SideOf(t)], UNCHANGED open
    PROVE  /\ pc' \in [Tasks -> Places]
           /\ \A u \in Tasks : pc'[u] # "idle" => open'[SideOf(u)]
           /\ pc'[t] = l /\ \A u \in Tasks : u # t => pc'[u] = pc[u]
      BY DEF Streams, Goto

\* The steps that leave both streams alone.
Quiet(t) ==
    \/ FallBack(t) \/ Register(t) \/ Check(t) \/ PeerAlive(t) \/ Retry(t) \/ Wake(t) \/ Repoll(t)
    \/ Call(t) \/ PollReadiness(t)

\* They only move a task.
LEMMA QuietSteps ==
    ASSUME Streams, NEW t \in Tasks, Quiet(t)
    PROVE  Streams' /\ UNCHANGED <<queue, open, out, ended, broken>>
<1>1. UNCHANGED <<queue, open, closing, out, ended, broken>>
      BY DEF Quiet, FallBack, Register, Check, PeerAlive, Retry, Wake, Repoll, Call, PollReadiness
<1>2. op' \in [Tasks -> Opcodes]
  <2>1. CASE Call(t)
    <3>1. PICK o \in Ops[t] : op' = [op EXCEPT ![t] = o]
          BY <2>1, Zenon DEF Call
    <3>2. o \in Opcodes
          BY <3>1 DEF Opcodes
    <3> QED
          BY <3>1, <3>2 DEF Streams
  <2>2. CASE ~Call(t)
        BY <2>2 DEF Streams, Quiet, FallBack, Register, Check, PeerAlive, Retry, Wake, Repoll,
                    PollReadiness
  <2> QED
        BY <2>1, <2>2
<1>3. /\ pc' \in [Tasks -> Places]
      /\ \A u \in Tasks : pc'[u] # "idle" => open'[SideOf(u)]
  <2>1. CASE PollReadiness(t)
        BY <1>1, <2>1 DEF PollReadiness, Streams
  <2>2. CASE Call(t)
    <3>1. open[SideOf(t)] /\ \E l \in Places : Goto(t, l)
          BY <2>2 DEF Call, Places
    <3> QED
          BY <1>1, <3>1, Moves
  <2>3. CASE FallBack(t) \/ Register(t) \/ Check(t) \/ PeerAlive(t) \/ Retry(t) \/ Wake(t)
    <3>1. open[SideOf(t)]
          BY <2>3 DEF Streams, FallBack, Register, Check, PeerAlive, Retry, Wake
    <3>2. \E l \in Places : Goto(t, l)
          BY <2>3 DEF Places, FallBack, Register, Check, PeerAlive, Retry, Wake
    <3> QED
          BY <1>1, <3>1, <3>2, Moves
  <2>4. CASE Repoll(t)
    <3>1. CASE pc[t] = "asleep"
      <4>1. open[SideOf(t)] /\ Goto(t, "register") /\ "register" \in Places
            BY <2>4, <3>1 DEF Repoll, Streams, Places
      <4> QED
            BY <1>1, <4>1, Moves
    <3>2. CASE pc[t] # "asleep"
      <4>1. pc' = [pc EXCEPT ![t] = "idle"]
            BY <2>4, <3>2 DEF Repoll, Goto
      <4> QED
            BY <1>1, <4>1 DEF Streams, Places
    <3> QED
          BY <3>1, <3>2
  <2> QED
        BY <2>1, <2>2, <2>3, <2>4 DEF Quiet
<1> QED
      BY <1>1, <1>2, <1>3 DEF Streams

\* A stream no step touches rests.
LEMMA Untouched ==
    ASSUME NEW s \in Sides, UNCHANGED open, queue'[s] = queue[s], out'[s] = out[s],
           ended'[s] = ended[s], broken'[s] = broken[s]
    PROVE  StreamStep(s)
      BY Zenon DEF StreamStep, Rests, SameEnds, SameReports

\* push_back adds a message at the end of the sender's queue.
LEMMA SendGrows ==
    ASSUME Streams, NEW t \in Tasks, Send(t)
    PROVE  Streams' /\ \A s \in Sides : StreamStep(s)
<1> DEFINE q == QueueOf(t)
           m == [from |-> t, sentFd |-> op[t] = "send_fd", attached |-> pc[t] = "push_once"]
<1>1. /\ q \in Sides /\ q = SideOf(t) /\ open[q]
      /\ queue[q] \in Seq(Message) /\ Len(queue[q]) < MaxBuffered
      BY Between DEF Send, Full, Streams
<1>2. m \in Message
      BY DEF Message
<1> HIDE DEF q, m
<1>3. UNCHANGED <<open, op, out, ended, broken>> /\ Goto(t, "wake")
      /\ queue' = [queue EXCEPT ![q] = Append(queue[q], m)]
      BY DEF Send, q, m
<1>4. queue'[q] = Append(queue[q], m) /\ \A s \in Sides : s # q => queue'[s] = queue[s]
      BY <1>1, <1>3 DEF Streams
<1>5. /\ queue'[q] \in Seq(Message) /\ Len(queue'[q]) = Len(queue[q]) + 1
      /\ \A i \in 1 .. Len(queue[q]) : queue'[q][i] = queue[q][i]
      BY <1>1, <1>2, <1>4
<1>6. Len(queue'[q]) <= MaxBuffered /\ Len(queue[q]) < Len(queue'[q])
      BY <1>1, <1>5
<1>7. SubSeq(queue'[q], 1, Len(queue[q])) = queue[q]
      BY <1>1, <1>5
<1>8. StreamStep(q)
      BY <1>1, <1>3, <1>5, <1>6, <1>7, Zenon DEF StreamStep, Grows, SameEnds, SameReports
<1>9. \A s \in Sides : s # q => StreamStep(s)
      BY <1>3, <1>4, Untouched, Zenon
<1>10. Streams'
  <2>1. queue' \in [Sides -> Seq(Message)]
        BY <1>1, <1>3, <1>4, <1>5 DEF Streams
  <2>2. \A s \in Sides : Len(queue'[s]) <= MaxBuffered
        BY <1>4, <1>6, Zenon DEF Streams
  <2>3. "wake" \in Places /\ open[SideOf(t)]
        BY <1>1 DEF Places
  <2>4. /\ pc' \in [Tasks -> Places]
        /\ \A u \in Tasks : pc'[u] # "idle" => open'[SideOf(u)]
        BY <1>3, <2>3, Moves
  <2> QED
        BY <1>3, <2>1, <2>2, <2>4 DEF Streams
<1> QED
      BY <1>8, <1>9, <1>10

\* pop_front takes the oldest message out of the queue of the other side.
LEMMA RecvShrinks ==
    ASSUME Streams, NEW t \in Tasks, Recv(t)
    PROVE  Streams' /\ \A s \in Sides : StreamStep(s)
<1> DEFINE q == QueueOf(t)
<1>1. /\ q \in Sides /\ Peer(q) = SideOf(t) /\ open[SideOf(t)]
      /\ queue[q] \in Seq(Message) /\ queue[q] # << >>
      BY Between DEF Recv, Streams
<1> HIDE DEF q
<1>2. UNCHANGED <<open, op, ended, broken>> /\ Goto(t, "wake")
      /\ queue' = [queue EXCEPT ![q] = Tail(queue[q])]
      /\ out' = [out EXCEPT ![q] = <<Head(queue[q])>>]
      BY DEF Recv, q
<1>3. /\ queue'[q] = Tail(queue[q]) /\ \A s \in Sides : s # q => queue'[s] = queue[s]
      /\ out'[q] = <<Head(queue[q])>> /\ \A s \in Sides : s # q => out'[s] = out[s]
      BY <1>1, <1>2 DEF Streams
<1>4. /\ 1 \in 1 .. Len(queue[q])
      /\ <<Head(queue[q])>> = SubSeq(queue[q], 1, 1)
      /\ Tail(queue[q]) = SubSeq(queue[q], 1 + 1, Len(queue[q]))
      /\ Tail(queue[q]) \in Seq(Message) /\ Len(Tail(queue[q])) <= Len(queue[q])
      /\ <<Head(queue[q])>> \in Seq(Message)
  <2> DEFINE s == queue[q]
  <2>1. s \in Seq(Message) /\ s # << >>
        BY <1>1
  <2> HIDE DEF s
  <2>2. 1 \in 1 .. Len(s) /\ Head(s) = s[1] /\ s[1] \in Message
        BY <2>1
  <2>3. <<Head(s)>> = SubSeq(s, 1, 1)
        BY <2>1, <2>2
  <2>4. Tail(s) = SubSeq(s, 1 + 1, Len(s)) /\ Tail(s) \in Seq(Message)
        /\ Len(Tail(s)) <= Len(s)
        BY <2>1, <2>2
  <2> QED
        BY <2>2, <2>3, <2>4 DEF s
<1>5. StreamStep(q)
      BY <1>1, <1>2, <1>3, <1>4, Zenon DEF StreamStep, Shrinks, SameEnds, SameReports
<1>6. \A s \in Sides : s # q => StreamStep(s)
      BY <1>2, <1>3, Untouched, Zenon
<1>7. Streams'
  <2>1. queue' \in [Sides -> Seq(Message)] /\ out' \in [Sides -> Seq(Message)]
        BY <1>1, <1>2, <1>4 DEF Streams
  <2>2. \A s \in Sides : Len(queue'[s]) <= MaxBuffered
    <3>1. Len(queue[q]) <= MaxBuffered /\ Len(queue[q]) \in Nat /\ Len(queue'[q]) \in Nat
          BY <1>1, <1>3, <1>4 DEF Streams
    <3>2. Len(queue'[q]) <= MaxBuffered
          BY <1>3, <1>4, <3>1
    <3> QED
          BY <1>3, <3>2, Zenon DEF Streams
  <2>3. "wake" \in Places
        BY DEF Places
  <2>4. /\ pc' \in [Tasks -> Places]
        /\ \A u \in Tasks : pc'[u] # "idle" => open'[SideOf(u)]
        BY <1>1, <1>2, <2>3, Moves
  <2> QED
        BY <1>2, <2>1, <2>2, <2>4 DEF Streams
<1> QED
      BY <1>5, <1>6, <1>7

\* A dead peer is reported to the receiver of an empty queue and to a sender.
LEMMA EndsAreReported ==
    ASSUME Streams, NEW t \in Tasks, RecvEof(t) \/ SendBroken(t)
    PROVE  Streams' /\ \A s \in Sides : StreamStep(s)
<1> DEFINE q == QueueOf(t)
<1>1. q \in Sides /\ UNCHANGED <<queue, open, op, out>> /\ Goto(t, "idle") /\ open[SideOf(t)]
      BY Between DEF RecvEof, SendBroken, Streams
<1>2. /\ pc' \in [Tasks -> Places]
      /\ \A u \in Tasks : pc'[u] # "idle" => open'[SideOf(u)]
  <2>1. "idle" \in Places
        BY DEF Places
  <2> QED
        BY <1>1, <2>1, Moves
<1>3. CASE RecvEof(t)
  <2>1. Peer(q) = SideOf(t) /\ q = Peer(SideOf(t)) /\ queue[q] = << >> /\ ~open[q]
        BY <1>3, Between DEF RecvEof
  <2> HIDE DEF q
  <2>2. ended' = [ended EXCEPT ![q] = TRUE] /\ UNCHANGED broken
        BY <1>3 DEF RecvEof, q
  <2>3. ended'[q] = TRUE /\ \A s \in Sides : s # q => ended'[s] = ended[s]
        BY <1>1, <2>2 DEF Streams
  <2>4. StreamStep(q)
        BY <1>1, <2>1, <2>2, <2>3, Zenon DEF StreamStep, Ends, SameEnds
  <2>5. \A s \in Sides : s # q => StreamStep(s)
        BY <1>1, <2>2, <2>3, Untouched, Zenon
  <2>6. ended' \in [Sides -> BOOLEAN]
        BY <2>2, Zenon DEF Streams
  <2> QED
        BY <1>1, <1>2, <2>2, <2>4, <2>5, <2>6 DEF Streams
<1>4. CASE SendBroken(t)
  <2>1. q = SideOf(t) /\ ~open[Peer(q)]
        BY <1>4, Between DEF SendBroken
  <2> HIDE DEF q
  <2>2. broken' = [broken EXCEPT ![q] = TRUE] /\ UNCHANGED ended
        BY <1>4 DEF SendBroken, q
  <2>3. broken'[q] = TRUE /\ \A s \in Sides : s # q => broken'[s] = broken[s]
        BY <1>1, <2>2 DEF Streams
  <2>4. StreamStep(q)
        BY <1>1, <2>1, <2>2, <2>3, Zenon DEF StreamStep, Breaks, SameEnds
  <2>5. \A s \in Sides : s # q => StreamStep(s)
        BY <1>1, <2>2, <2>3, Untouched, Zenon
  <2>6. broken' \in [Sides -> BOOLEAN]
        BY <2>2, Zenon DEF Streams
  <2> QED
        BY <1>1, <1>2, <2>2, <2>4, <2>5, <2>6 DEF Streams
<1> QED
      BY <1>3, <1>4

\* The drop of a side closes an end of either stream; nobody of it is in a call.
LEMMA DropCloses ==
    ASSUME Streams, NEW e \in Sides, DropEndpoint(e)
    PROVE  Streams' /\ \A s \in Sides : StreamStep(s)
<1>1. UNCHANGED <<queue, pc, op, out, ended, broken>> /\ open' = [open EXCEPT ![e] = FALSE]
      BY DEF DropEndpoint
<1>2. open' \in [Sides -> BOOLEAN] /\ open'[e] = FALSE
      /\ \A s \in Sides : s # e => open'[s] = open[s]
      BY <1>1 DEF Streams
<1>3. ASSUME NEW s \in Sides PROVE StreamStep(s)
  <2>1. (s = e /\ Peer(s) # e) \/ (Peer(s) = e /\ s # e)
        BY DEF Sides, Peer
  <2>2. Peer(s) \in Sides
        BY DEF Sides, Peer
  <2>3. \/ open'[s] = FALSE /\ open'[Peer(s)] = open[Peer(s)]
        \/ open'[Peer(s)] = FALSE /\ open'[s] = open[s]
        BY <1>2, <2>1, <2>2
  <2> QED
        BY <1>1, <2>3, Zenon DEF StreamStep, Closes, SameReports
<1>4. ASSUME NEW t \in Tasks, pc'[t] # "idle" PROVE open'[SideOf(t)]
  <2>1. SideOf(t) # e /\ SideOf(t) \in Sides /\ open[SideOf(t)]
        BY <1>1, <1>4 DEF DropEndpoint, Streams, SideOf, Sides
  <2> QED
        BY <1>2, <2>1
<1> QED
      BY <1>1, <1>2, <1>3, <1>4 DEF Streams

\* Every step is one of the steps of either stream or leaves it alone.
LEMMA StepOfBoth ==
    ASSUME Streams, [Next]_vars
    PROVE  Streams' /\ \A s \in Sides : StreamStep(s)
<1>1. ASSUME UNCHANGED <<queue, open, out, ended, broken>>
      PROVE  \A s \in Sides : StreamStep(s)
      BY <1>1, Untouched, Zenon
<1>2. ASSUME NEW t \in Tasks, Step(t) \/ Call(t) \/ PollReadiness(t)
      PROVE  Streams' /\ \A s \in Sides : StreamStep(s)
  <2>1. CASE Send(t)
        BY <2>1, SendGrows
  <2>2. CASE Recv(t)
        BY <2>2, RecvShrinks
  <2>3. CASE RecvEof(t) \/ SendBroken(t)
        BY <2>3, EndsAreReported
  <2>4. CASE Quiet(t)
        BY <1>1, <2>4, QuietSteps
  <2> QED
        BY <1>2, <2>1, <2>2, <2>3, <2>4 DEF Step, Quiet
<1>3. ASSUME NEW s \in Sides, DropEndpoint(s)
      PROVE  Streams' /\ \A r \in Sides : StreamStep(r)
      BY <1>3, DropCloses
<1>4. ASSUME NEW w \in closing, WakeAll(w)
      PROVE  Streams' /\ \A s \in Sides : StreamStep(s)
  <2>1. UNCHANGED <<queue, open, pc, op, out, ended, broken>>
        BY <1>4 DEF WakeAll
  <2> QED
        BY <1>1, <2>1 DEF Streams
<1>5. ASSUME UNCHANGED vars
      PROVE  Streams' /\ \A s \in Sides : StreamStep(s)
  <2>1. UNCHANGED <<queue, open, pc, op, out, ended, broken>>
        BY <1>5 DEF vars
  <2> QED
        BY <1>1, <2>1 DEF Streams
<1> QED
      BY <1>2, <1>3, <1>4, <1>5 DEF Next

\* The invariant begins to hold.
LEMMA StreamsInit == Init => Streams /\ AtoB!Init /\ BtoA!Init
<1> SUFFICES ASSUME Init PROVE Streams /\ AtoB!Init /\ BtoA!Init
      OBVIOUS
<1>1. \A s \in Sides : queue[s] = << >> /\ out[s] = << >> /\ open[s] = TRUE
                       /\ ended[s] = FALSE /\ broken[s] = FALSE
      BY DEF Init
<1>2. "a" \in Sides /\ "b" \in Sides
      BY DEF Sides
<1>3. queue \in [Sides -> Seq(Message)] /\ out \in [Sides -> Seq(Message)]
      BY DEF Init
<1>4. open \in [Sides -> BOOLEAN] /\ ended \in [Sides -> BOOLEAN] /\ broken \in [Sides -> BOOLEAN]
      BY DEF Init
<1>5. pc \in [Tasks -> Places] /\ op \in [Tasks -> Opcodes]
      /\ \A t \in Tasks : pc[t] = "idle"
      BY DEF Init, Places, Opcodes
<1>6. \A s \in Sides : Len(queue[s]) <= MaxBuffered
      BY <1>1
<1>7. Streams
      BY <1>3, <1>4, <1>5, <1>6 DEF Streams
<1>8. AtoB!Init
      BY <1>1, <1>2, Zenon DEF AtoB!Init
<1>9. BtoA!Init
      BY <1>1, <1>2, Zenon DEF BtoA!Init
<1> QED
      BY <1>7, <1>8, <1>9

\* Each direction of a channel implements a bounded stream of messages (channel.rs):
\* a message comes out once and in order, never more than MAX_BUFFERED_MESSAGES
\* wait, and the receiver learns that its peer is gone only after the last message,
\* whatever the calls of the two sides, with and without fds, and their drops do.
THEOREM ChannelIsStreams == Spec => StreamsBothWays
<1>1. Init => Streams /\ AtoB!Init /\ BtoA!Init
      BY StreamsInit
<1>2. Streams /\ [Next]_vars => Streams' /\ [AtoB!Next]_(AtoB!vars) /\ [BtoA!Next]_(BtoA!vars)
      BY StepOfBoth, StepsOfStreams
<1> QED
      BY <1>1, <1>2, PTL DEF Spec, StreamsBothWays, AtoB!Spec, BtoA!Spec

-----------------------------------------------------------------------------
(* Hang-ups *)

\* What the two queue operations of HeapWaitQueue keep: a waker that is in a queue
\* stays until it is the one that wake_one takes.
LEMMA QueuesKeep ==
    ASSUME NEW S, NEW q \in Seq(S), NEW w \in S
    PROVE  /\ HQRegister(q, w) \in Seq(S)
           /\ w \in WakersIn(HQRegister(q, w))
           /\ \A x : x \in WakersIn(q) => x \in WakersIn(HQRegister(q, w))
           /\ HQAfterWakeOne(q) \in Seq(S)
           /\ \A x : x \in WakersIn(q) =>
                q # << >> /\ (x \in WakersIn(HQAfterWakeOne(q)) \/ x = q[1])
<1>1. ASSUME HQHolds(q, w)
      PROVE  HQRegister(q, w) \in Seq(S) /\ WakersIn(HQRegister(q, w)) = WakersIn(q) \cup {w}
  <2>1. w \in WakersIn(q) /\ HQRegister(q, w) = q
        BY <1>1 DEF HQHolds, WakersIn, HQRegister
  <2> QED
        BY <2>1
<1>2. ASSUME ~HQHolds(q, w)
      PROVE  HQRegister(q, w) \in Seq(S) /\ WakersIn(HQRegister(q, w)) = WakersIn(q) \cup {w}
  <2>1. HQRegister(q, w) = Append(q, w) /\ Append(q, w) \in Seq(S)
        BY <1>2 DEF HQRegister
  <2>2. /\ Len(Append(q, w)) = Len(q) + 1 /\ Append(q, w)[Len(q) + 1] = w
        /\ \A i \in 1 .. Len(q) : Append(q, w)[i] = q[i]
        OBVIOUS
  <2>3. 1 .. Len(q) + 1 = (1 .. Len(q)) \cup {Len(q) + 1}
        OBVIOUS
  <2>4. WakersIn(Append(q, w)) = WakersIn(q) \cup {w}
        BY <2>2, <2>3 DEF WakersIn
  <2> QED
        BY <2>1, <2>4
<1>3. q = << >> => WakersIn(q) = {} /\ HQAfterWakeOne(q) \in Seq(S)
      BY DEF WakersIn, HQAfterWakeOne
<1>4. ASSUME q # << >>
      PROVE  HQAfterWakeOne(q) \in Seq(S)
             /\ WakersIn(q) = WakersIn(HQAfterWakeOne(q)) \cup {q[1]}
  <2>1. /\ HQAfterWakeOne(q) = Tail(q) /\ Tail(q) \in Seq(S) /\ Len(Tail(q)) = Len(q) - 1
        /\ \A i \in 1 .. Len(q) - 1 : Tail(q)[i] = q[i + 1]
        BY <1>4 DEF HQAfterWakeOne
  <2>2. Len(q) \in Nat \ {0}
        BY <1>4
  <2>3. \A x \in WakersIn(q) : x \in WakersIn(Tail(q)) \cup {q[1]}
    <3> SUFFICES ASSUME NEW i \in 1 .. Len(q), i # 1 PROVE q[i] \in WakersIn(Tail(q))
          BY DEF WakersIn
    <3>1. i - 1 \in 1 .. Len(q) - 1 /\ (i - 1) + 1 = i
          OBVIOUS
    <3> QED
          BY <2>1, <3>1 DEF WakersIn
  <2>4. \A x \in WakersIn(Tail(q)) : x \in WakersIn(q)
    <3> SUFFICES ASSUME NEW i \in 1 .. Len(q) - 1 PROVE q[i + 1] \in WakersIn(q)
          BY <2>1 DEF WakersIn
    <3>1. i + 1 \in 1 .. Len(q)
          BY <2>2
    <3> QED
          BY <3>1 DEF WakersIn
  <2>5. q[1] \in WakersIn(q)
    <3>1. 1 \in 1 .. Len(q)
          BY <2>2
    <3> QED
          BY <3>1 DEF WakersIn
  <2> QED
        BY <2>1, <2>3, <2>4, <2>5
<1> QED
      BY <1>1, <1>2, <1>3, <1>4

\* A task that is neither moved nor forgotten: its place, line and wake-up remain.
Steady(t) ==
    /\ pc'[t] = pc[t] /\ op'[t] = op[t] /\ (t \in trapped' => t \in trapped)
    /\ t \in ready => t \in ready'
    /\ t \in WakersIn(wq[LineOf(t)]) => t \in WakersIn(wq'[LineOf(t)]) \/ t \in ready'

\* A line is that of the same task in the next state unless its call changes.
LEMMA LineStays ==
    ASSUME NEW t \in Tasks, op'[t] = op[t]
    PROVE  LineOf(t)' = LineOf(t) /\ SideOf(t)' = SideOf(t) /\ Dir(t)' = Dir(t)
      BY DEF LineOf, SideOf, Dir, Sending

\* A steady task stays registered, and a hang-up that is on its way stays so.
LEMMA SteadyTasks ==
    ASSUME NEW t \in Tasks, Steady(t), RegisteredFor(t), HangupFor(t),
           open[Peer(SideOf(t))] => open'[Peer(SideOf(t))] \/ LineOf(t) \in closing',
           LineOf(t) \in closing => LineOf(t) \in closing' \/ t \in ready'
                                    \/ t \notin WakersIn(wq[LineOf(t)])
    PROVE  RegisteredFor(t)' /\ HangupFor(t)'
<1>1. LineOf(t)' = LineOf(t) /\ SideOf(t)' = SideOf(t)
      BY LineStays DEF Steady
<1>2. Peer(SideOf(t))' = Peer(SideOf(t))
      BY <1>1 DEF Peer
<1>3. RegisteredFor(t)'
      BY <1>1, Zenon DEF RegisteredFor, Steady, LineOf
<1>4. HangupFor(t)'
      BY <1>1, <1>2, Zenon DEF RegisteredFor, HangupFor, Steady
<1> QED
      BY <1>3, <1>4, SMTT(30)

\* While no end is dropped, one task moves and the others are steady.
LEMMA OneMoves ==
    ASSUME ChannelInv, NEW t \in Tasks, UNCHANGED <<open, closing>>,
           \A u \in Tasks \ {t} : Steady(u),
           RegisteredFor(t)' /\ HangupFor(t)'
    PROVE  \A u \in Tasks : (RegisteredFor(u) /\ HangupFor(u))'
<1> SUFFICES ASSUME NEW u \in Tasks, u # t PROVE (RegisteredFor(u) /\ HangupFor(u))'
      BY Zenon
<1>1. Steady(u) /\ RegisteredFor(u) /\ HangupFor(u)
      BY DEF ChannelInv
<1>2. open[Peer(SideOf(u))] => open'[Peer(SideOf(u))] \/ LineOf(u) \in closing'
      OBVIOUS
<1>3. LineOf(u) \in closing => LineOf(u) \in closing' \/ u \in ready'
                               \/ u \notin WakersIn(wq[LineOf(u)])
      OBVIOUS
<1> QED
      BY <1>1, <1>2, <1>3, SteadyTasks, Zenon

\* The steps in which a task of the channel leaves the wait queues alone and does
\* not go to sleep.
Passes(t) ==
    \/ FallBack(t) \/ PeerAlive(t) \/ Send(t) \/ SendBroken(t) \/ Recv(t) \/ RecvEof(t) \/ Retry(t)
    \/ Call(t) \/ Repoll(t)

\* They take care of themselves.
LEMMA PassesKeep ==
    ASSUME ChannelInv, NEW t \in Tasks, Passes(t)
    PROVE  WqTyped' /\ \A u \in Tasks : (RegisteredFor(u) /\ HangupFor(u))'
<1>1. UNCHANGED <<wq, open, closing>> /\ trapped' \subseteq trapped \cup {t}
      /\ ready \ {t} \subseteq ready'
      BY SMTT(30) DEF Passes, FallBack, PeerAlive, Send, SendBroken, Recv, RecvEof, Retry, Call, Repoll
<1>2. \E l \in {"once", "push_once", "register", "push", "wake", "idle"} : pc' = [pc EXCEPT ![t] = l]
      BY DEF Passes, FallBack, PeerAlive, Send, SendBroken, Recv, RecvEof, Retry, Call, Repoll, Goto
<1>3. pc'[t] \in {"once", "push_once", "register", "push", "wake", "idle"}
      /\ \A u \in Tasks \ {t} : pc'[u] = pc[u]
      BY <1>2, SMTT(30) DEF ChannelInv, Streams
<1>4. \A u \in Tasks \ {t} : op'[u] = op[u]
      BY SMTT(30) DEF Passes, FallBack, PeerAlive, Send, SendBroken, Recv, RecvEof, Retry, Call, Repoll,
             ChannelInv, Streams
<1>5. \A u \in Tasks \ {t} : Steady(u)
      BY <1>1, <1>3, <1>4, SMTT(30) DEF Steady
<1>6. RegisteredFor(t)' /\ HangupFor(t)'
      BY <1>3, Zenon DEF RegisteredFor, HangupFor
<1>7. WqTyped'
      BY <1>1 DEF ChannelInv, WqTyped
<1> QED
      BY <1>1, <1>5, <1>6, <1>7, OneMoves, SMTT(30)

\* A task registers before it looks: its waker is there when it goes to sleep.
LEMMA RegisterKeeps ==
    ASSUME ChannelInv, NEW t \in Tasks, Register(t)
    PROVE  WqTyped' /\ \A u \in Tasks : (RegisteredFor(u) /\ HangupFor(u))'
<1> DEFINE w == IF t \in trapped THEN t ELSE Noop
           q == LineOf(t)
<1>1. q \in Lines /\ wq[q] \in Seq(Tasks \cup {Noop}) /\ w \in Tasks \cup {Noop}
      BY Between DEF ChannelInv, WqTyped
<1>2. /\ UNCHANGED <<open, closing, op, trapped, ready>>
      /\ wq' = [wq EXCEPT ![q] = HQRegister(wq[q], w)]
      /\ pc' = [pc EXCEPT ![t] = "check"]
      BY DEF Register, LineOf, Goto
<1> HIDE DEF w
<1>3. pc'[t] = "check" /\ \A u \in Tasks \ {t} : pc'[u] = pc[u]
      BY <1>2 DEF ChannelInv, Streams
<1>4. HQRegister(wq[q], w) \in Seq(Tasks \cup {Noop})
      /\ w \in WakersIn(HQRegister(wq[q], w))
      /\ \A x : x \in WakersIn(wq[q]) => x \in WakersIn(HQRegister(wq[q], w))
  <2> HIDE DEF q
  <2>1. HQRegister(wq[q], w) \in Seq(Tasks \cup {Noop})
        BY <1>1, QueuesKeep, Zenon
  <2>2. w \in WakersIn(HQRegister(wq[q], w))
        /\ \A x : x \in WakersIn(wq[q]) => x \in WakersIn(HQRegister(wq[q], w))
        BY <1>1, QueuesKeep, Zenon
  <2> QED
        BY <2>1, <2>2
<1> HIDE DEF q
<1>5. wq'[q] = HQRegister(wq[q], w) /\ \A x \in Lines : x # q => wq'[x] = wq[x]
      BY <1>1, <1>2 DEF ChannelInv, WqTyped
<1>6. \A x \in Lines : WakersIn(wq[x]) \subseteq WakersIn(wq'[x])
      BY <1>4, <1>5
<1>7. ASSUME NEW u \in Tasks \ {t} PROVE Steady(u)
  <2>1. LineOf(u) \in Lines
        BY Between DEF ChannelInv
  <2> QED
        BY <1>2, <1>3, <1>6, <2>1, Zenon DEF Steady
<1>8. RegisteredFor(t)'
  <2>1. LineOf(t)' = q
        BY <1>2, LineStays DEF q
  <2>2. t \in trapped' => t \in WakersIn(wq'[q])
        BY <1>2, <1>4, <1>5 DEF w
  <2>3. pc'[t] # "asleep"
        BY <1>3, SMTT(30)
  <2> QED
        BY <2>1, <2>2, <2>3, Zenon DEF RegisteredFor
<1>9. HangupFor(t)'
      BY <1>3 DEF HangupFor
<1>10. WqTyped'
      BY <1>1, <1>2, <1>4, <1>5 DEF ChannelInv, WqTyped
<1> QED
      BY <1>2, <1>7, <1>8, <1>9, <1>10, OneMoves

\* A task goes to sleep only while its peer is there.
LEMMA CheckKeeps ==
    ASSUME ChannelInv, NEW t \in Tasks, Check(t)
    PROVE  WqTyped' /\ \A u \in Tasks : (RegisteredFor(u) /\ HangupFor(u))'
<1>1. UNCHANGED <<open, closing, op, wq, ready>> /\ pc[t] = "check"
      /\ trapped' \subseteq trapped \cup {t}
      BY DEF Check
<1>2. pc' = [pc EXCEPT ![t] = IF MayProceed(t) THEN "transfer"
                              ELSE IF t \in trapped THEN "asleep" ELSE "register"]
      BY DEF Check, Goto
<1>3. /\ pc'[t] \in {"transfer", "asleep", "register"}
      /\ pc'[t] = "asleep" => t \in trapped /\ ~MayProceed(t)
      /\ \A u \in Tasks \ {t} : pc'[u] = pc[u]
      BY <1>2 DEF ChannelInv, Streams
<1>4. \A u \in Tasks \ {t} : Steady(u)
      BY <1>1, <1>3, SMTT(30) DEF Steady
<1>5. LineOf(t)' = LineOf(t) /\ SideOf(t)' = SideOf(t)
      BY <1>1, LineStays
<1>6. RegisteredFor(t)'
  <2>1. RegisteredFor(t)
        BY DEF ChannelInv
  <2>2. pc'[t] = "asleep" => t \in ready' \/ t \in WakersIn(wq'[LineOf(t)])
        BY <1>1, <1>3, <2>1, Zenon DEF RegisteredFor
  <2>3. pc'[t] # "check"
        BY <1>3
  <2> QED
        BY <1>5, <2>2, <2>3, Zenon DEF RegisteredFor
<1>7. HangupFor(t)'
  <2>1. pc'[t] = "asleep" => open'[Peer(SideOf(t))]
        BY <1>1, <1>3 DEF MayProceed
  <2>2. Peer(SideOf(t))' = Peer(SideOf(t))
        BY <1>5 DEF Peer
  <2> QED
        BY <2>1, <2>2, ZenonT(30) DEF HangupFor
<1>8. WqTyped'
      BY <1>1 DEF ChannelInv, WqTyped
<1> QED
      BY <1>1, <1>4, <1>6, <1>7, <1>8, OneMoves

\* wake_one makes the task whose waker it takes ready, unless the waker does nothing.
LEMMA WakeKeeps ==
    ASSUME ChannelInv, NEW t \in Tasks, Wake(t)
    PROVE  WqTyped' /\ \A u \in Tasks : (RegisteredFor(u) /\ HangupFor(u))'
<1> DEFINE q == <<Peer(SideOf(t)), IF Sending(t) THEN "recv" ELSE "send">>
<1>1. q \in Lines /\ wq[q] \in Seq(Tasks \cup {Noop})
      BY Between DEF ChannelInv, WqTyped, Lines
<1>2. /\ UNCHANGED <<open, closing, op, trapped>>
      /\ wq' = [wq EXCEPT ![q] = HQAfterWakeOne(wq[q])]
      /\ ready' = IF wq[q] = << >> THEN ready ELSE ready \cup ({wq[q][1]} \ {Noop})
      /\ pc' = [pc EXCEPT ![t] = "idle"]
      BY DEF Wake, Goto
<1> HIDE DEF q
<1>3. pc'[t] = "idle" /\ \A u \in Tasks \ {t} : pc'[u] = pc[u]
      BY <1>2 DEF ChannelInv, Streams
<1>4. /\ HQAfterWakeOne(wq[q]) \in Seq(Tasks \cup {Noop})
      /\ \A x : x \in WakersIn(wq[q]) =>
           wq[q] # << >> /\ (x \in WakersIn(HQAfterWakeOne(wq[q])) \/ x = wq[q][1])
  <2>1. Noop \in Tasks \cup {Noop}
        OBVIOUS
  <2> QED
        BY <1>1, <2>1, QueuesKeep, Zenon
<1>5. wq'[q] = HQAfterWakeOne(wq[q]) /\ \A x \in Lines : x # q => wq'[x] = wq[x]
      BY <1>1, <1>2, SMTT(30) DEF ChannelInv, WqTyped
<1>6. \A x \in Lines, u \in Tasks : u \in WakersIn(wq[x]) => u \in WakersIn(wq'[x]) \/ u \in ready'
  <2> SUFFICES ASSUME NEW x \in Lines, NEW u \in Tasks, u \in WakersIn(wq[x])
               PROVE  u \in WakersIn(wq'[x]) \/ u \in ready'
        OBVIOUS
  <2>1. CASE x # q
        BY <1>5, <2>1
  <2>2. CASE x = q
    <3>1. wq[q] # << >> /\ (u \in WakersIn(wq'[q]) \/ u = wq[q][1])
          BY <1>4, <1>5, <2>2
    <3>2. u # Noop
          OBVIOUS
    <3> QED
          BY <1>2, <2>2, <3>1, <3>2
  <2> QED
        BY <2>1, <2>2
<1>7. ASSUME NEW u \in Tasks \ {t} PROVE Steady(u)
  <2>1. LineOf(u) \in Lines
        BY Between DEF ChannelInv
  <2>2. ready \subseteq ready'
        BY <1>2, SMTT(30)
  <2> QED
        BY <1>2, <1>3, <1>6, <2>1, <2>2 DEF Steady
<1>8. RegisteredFor(t)' /\ HangupFor(t)'
      BY <1>3 DEF RegisteredFor, HangupFor
<1>9. WqTyped'
      BY <1>1, <1>2, <1>4, <1>5, SMTT(30) DEF ChannelInv, WqTyped
<1> QED
      BY <1>2, <1>7, <1>8, <1>9, OneMoves

\* poll_readiness only adds wakers.
LEMMA PollKeeps ==
    ASSUME ChannelInv, NEW t \in Tasks, PollReadiness(t)
    PROVE  WqTyped' /\ \A u \in Tasks : (RegisteredFor(u) /\ HangupFor(u))'
<1>1. /\ UNCHANGED <<open, closing, op, trapped, pc, ready>> /\ pc[t] = "idle"
      /\ wq' = [x \in DOMAIN wq |-> IF x[1] = SideOf(t) THEN HQRegister(wq[x], t) ELSE wq[x]]
      BY DEF PollReadiness
<1>2. DOMAIN wq = Lines /\ \A x \in Lines : wq[x] \in Seq(Tasks \cup {Noop})
      BY DEF ChannelInv, WqTyped
<1>3. ASSUME NEW x \in Lines
      PROVE  wq'[x] \in Seq(Tasks \cup {Noop}) /\ WakersIn(wq[x]) \subseteq WakersIn(wq'[x])
  <2>1. t \in Tasks \cup {Noop}
        OBVIOUS
  <2>2. HQRegister(wq[x], t) \in Seq(Tasks \cup {Noop})
        BY <1>2, <2>1, QueuesKeep, Zenon
  <2>4. \A y : y \in WakersIn(wq[x]) => y \in WakersIn(HQRegister(wq[x], t))
        BY <1>2, <2>1, QueuesKeep, Zenon
  <2>3. wq'[x] = HQRegister(wq[x], t) \/ wq'[x] = wq[x]
        BY <1>1, <1>2, SMTT(30)
  <2> QED
        BY <1>2, <2>2, <2>3, <2>4
<1>4. ASSUME NEW u \in Tasks \ {t} PROVE Steady(u)
  <2>1. LineOf(u) \in Lines
        BY Between DEF ChannelInv
  <2> QED
        BY <1>1, <1>3, <2>1, Zenon DEF Steady
<1>5. RegisteredFor(t)' /\ HangupFor(t)'
      BY <1>1 DEF RegisteredFor, HangupFor
<1>6. WqTyped'
  <2>1. wq' \in [Lines -> Seq(Tasks \cup {Noop})]
        BY <1>1, <1>2, <1>3
  <2> QED
        BY <1>1, <2>1, SMTT(30) DEF ChannelInv, WqTyped
<1> QED
      BY <1>1, <1>4, <1>5, <1>6, OneMoves, SMTT(30)

\* The drop of a side puts both lines of the other side on the list to wake.
LEMMA DropKeeps ==
    ASSUME ChannelInv, NEW s \in Sides, DropEndpoint(s)
    PROVE  WqTyped' /\ \A u \in Tasks : (RegisteredFor(u) /\ HangupFor(u))'
<1>1. /\ UNCHANGED <<wq, op, trapped, pc, ready>>
      /\ open' = [open EXCEPT ![s] = FALSE]
      /\ closing' = closing \cup {<<Peer(s), "recv">>, <<Peer(s), "send">>}
      BY DEF DropEndpoint
<1>2. WqTyped'
      BY <1>1 DEF ChannelInv, WqTyped, Lines, Sides, Peer
<1>3. ASSUME NEW u \in Tasks PROVE (RegisteredFor(u) /\ HangupFor(u))'
  <2>1. Steady(u)
        BY <1>1 DEF Steady
  <2>2. RegisteredFor(u) /\ HangupFor(u)
        BY SMTT(30) DEF ChannelInv
  <2>3. open[Peer(SideOf(u))] => open'[Peer(SideOf(u))] \/ LineOf(u) \in closing'
    <3>1. Peer(SideOf(u)) \in Sides
          BY Between DEF ChannelInv
    <3>2. CASE Peer(SideOf(u)) = s
      <4>1. LineOf(u) \in {<<Peer(s), "recv">>, <<Peer(s), "send">>}
            BY <3>2, Between, Zenon DEF ChannelInv, LineOf, Dir
      <4> QED
            BY <1>1, <4>1
    <3>3. CASE Peer(SideOf(u)) # s
          BY <1>1, <3>1, <3>3 DEF ChannelInv, Streams
    <3> QED
          BY <3>2, <3>3
  <2>4. LineOf(u) \in closing => LineOf(u) \in closing' \/ u \in ready'
                                 \/ u \notin WakersIn(wq[LineOf(u)])
        BY <1>1
  <2> QED
        BY <2>1, <2>2, <2>3, <2>4, SteadyTasks, ZenonT(30)
<1> QED
      BY <1>2, <1>3

\* wake_all makes everyone in the line ready.
LEMMA WakeAllKeeps ==
    ASSUME ChannelInv, NEW w \in closing, WakeAll(w)
    PROVE  WqTyped' /\ \A u \in Tasks : (RegisteredFor(u) /\ HangupFor(u))'
<1>1. /\ UNCHANGED <<open, op, trapped, pc>> /\ closing' = closing \ {w}
      /\ ready' = ready \cup (WakersIn(wq[w]) \ {Noop})
      /\ wq' = [wq EXCEPT ![w] = << >>]
      BY DEF WakeAll
<1>2. w \in Lines /\ wq \in [Lines -> Seq(Tasks \cup {Noop})]
      BY DEF ChannelInv, WqTyped
<1>3. \A x \in Lines : x # w => wq'[x] = wq[x]
      BY <1>1, <1>2
<1>4. WqTyped'
      BY <1>1, <1>2 DEF ChannelInv, WqTyped
<1>5. ASSUME NEW u \in Tasks PROVE (RegisteredFor(u) /\ HangupFor(u))'
  <2>1. LineOf(u) \in Lines /\ u # Noop /\ RegisteredFor(u) /\ HangupFor(u)
        BY Between DEF ChannelInv
  <2>2. u \in WakersIn(wq[LineOf(u)]) => u \in WakersIn(wq'[LineOf(u)]) \/ u \in ready'
        BY <1>1, <1>3, <2>1, SMTT(30)
  <2>3. Steady(u)
        BY <1>1, <2>2 DEF Steady
  <2>4. LineOf(u) \in closing => LineOf(u) \in closing' \/ u \in ready'
                                 \/ u \notin WakersIn(wq[LineOf(u)])
        BY <1>1, <2>1
  <2>5. open[Peer(SideOf(u))] => open'[Peer(SideOf(u))] \/ LineOf(u) \in closing'
        BY <1>1
  <2> QED
        BY <2>1, <2>3, <2>4, <2>5, SteadyTasks, Zenon
<1> QED
      BY <1>4, <1>5

\* Every step keeps the invariant.
LEMMA StepKeeps ==
    ASSUME ChannelInv, [Next]_vars
    PROVE  ChannelInv'
<1>1. Streams'
      BY StepOfBoth DEF ChannelInv
<1>2. WqTyped' /\ \A u \in Tasks : (RegisteredFor(u) /\ HangupFor(u))'
  <2>1. ASSUME NEW t \in Tasks, Step(t) \/ Call(t) \/ PollReadiness(t)
        PROVE  WqTyped' /\ \A u \in Tasks : (RegisteredFor(u) /\ HangupFor(u))'
    <3>1. CASE Passes(t)
          BY <3>1, PassesKeep
    <3>2. CASE Register(t)
          BY <3>2, RegisterKeeps
    <3>3. CASE Check(t)
          BY <3>3, CheckKeeps
    <3>4. CASE Wake(t)
          BY <3>4, WakeKeeps
    <3>5. CASE PollReadiness(t)
          BY <3>5, PollKeeps
    <3> QED
          BY <2>1, <3>1, <3>2, <3>3, <3>4, <3>5 DEF Step, Passes
  <2>2. ASSUME NEW s \in Sides, DropEndpoint(s)
        PROVE  WqTyped' /\ \A u \in Tasks : (RegisteredFor(u) /\ HangupFor(u))'
        BY <2>2, DropKeeps
  <2>3. ASSUME NEW w \in closing, WakeAll(w)
        PROVE  WqTyped' /\ \A u \in Tasks : (RegisteredFor(u) /\ HangupFor(u))'
        BY <2>3, WakeAllKeeps
  <2>4. ASSUME UNCHANGED vars
        PROVE  WqTyped' /\ \A u \in Tasks : (RegisteredFor(u) /\ HangupFor(u))'
    <3>1. UNCHANGED <<wq, open, closing, pc, op, trapped, ready>>
          BY <2>4 DEF vars
    <3>2. WqTyped'
          BY <3>1 DEF ChannelInv, WqTyped
    <3>3. \A u \in Tasks : (RegisteredFor(u) /\ HangupFor(u))'
          BY <3>1 DEF ChannelInv, RegisteredFor, HangupFor, LineOf, SideOf, Dir, Sending,
                      Peer, WakersIn
    <3> QED
          BY <3>2, <3>3
  <2> QED
        BY <2>1, <2>2, <2>3, <2>4, SMTT(30) DEF Next
<1> QED
      BY <1>1, <1>2 DEF ChannelInv

\* A peer that goes away reaches every sleeper (channel.rs, the two Drop
\* implementations): a task that sleeps without a peer is queued on its CPU, or the
\* wake_all of its wait queue is still to come, although the peer may have left
\* between the task's registration, its look and its sleep.
THEOREM HangupsReach == Spec => []HangupReachesSleepers
<1>1. Init => ChannelInv
  <2> SUFFICES ASSUME Init PROVE ChannelInv
        OBVIOUS
  <2>1. Streams
        BY StreamsInit
  <2>2. WqTyped
        BY DEF Init, WqTyped, Lines
  <2>3. \A t \in Tasks : pc[t] = "idle"
        BY DEF Init
  <2>4. \A t \in Tasks : RegisteredFor(t) /\ HangupFor(t)
        BY <2>3 DEF RegisteredFor, HangupFor
  <2> QED
        BY <2>1, <2>2, <2>4 DEF ChannelInv
<1>2. ChannelInv /\ [Next]_vars => ChannelInv'
      BY StepKeeps
<1>3. ChannelInv => HangupReachesSleepers
      BY DEF ChannelInv, HangupFor, HangupReachesSleepers, LineOf
<1> QED
      BY <1>1, <1>2, <1>3, PTL DEF Spec
=============================================================================
