--------------------------- MODULE ClassicCall_proofs ---------------------------
(***************************************************************************)
(* Proofs about the classic call: ClassicCall, for any retries, deadlines, *)
(* frames and faults (its types, AcksAreReal, ConnectedIsHeard,            *)
(* ReuseIsARace and ReceivedInOrder), and, in the last part, JitterBuffer, *)
(* for every width, capacity and stream (its types, NothingStale,          *)
(* BufferAccounted and PlaysInOrder).                                      *)
(*                                                                         *)
(* The argument for ClassicCall: numbers a side has heard, and             *)
(* acknowledgements under way, are among those the other has sent on that  *)
(* endpoint, which only grow (NetInv, HeardInv); an InitAck is made from   *)
(* what its sender has just heard, so whoever receives one has been heard; *)
(* and as long as the two media loops of a side have not met in            *)
(* TakeNextSequence, the next number is above all it has used on the       *)
(* endpoint (CountInv).  Receive turns the queue round to its first        *)
(* datagram of the call, and what is the call's, in its order, stays the   *)
(* same under that (OfCall, by induction over the queue).                  *)
(***************************************************************************)
EXTENDS ClassicCall, JitterBuffer, RecursionLemmas

Elems(q) == {q[i] : i \in 1 .. Len(q)}

\* A datagram d on its way over endpoint e, where the one has sent the numbers
\* theirs and has the record peer, and the other has sent the numbers own: what d
\* numbers and acknowledges was sent, and who answers an Init has heard it.
Good(e, d, theirs, own, peer) ==
  /\ d.seq # 0 => <<e, d.seq>> \in theirs
  /\ d.ack # 0 => <<e, d.ack>> \in own
  /\ d.kind = "initAck" => HasHeard(peer, e)
  /\ d.kind \in DOMAIN AnswerTo => d.seq # 0

GoodTo(t, e, d) == Good(e, d, used[Other(t)], used[t], call[Other(t)])
GoodAfter(t, e, d) == Good(e, d, used'[Other(t)], used'[t], call'[Other(t)])

NetInv ==
  \A t \in Sides :
    /\ \A m \in net[t] : GoodTo(t, m[1], m[2])
    /\ \A d \in Elems(queue[t]) : GoodTo(t, call[t].endpoint, d)

\* An answer is held by a loop that has heard what it answers.
HoldsAnswer(rcv, largest) ==
  rcv.at = "taking" =>
    rcv.kind \in {"initAck", "pong"} /\ (rcv.kind = "initAck" => largest > 0)

\* What a side has heard, and what its loops hold.
HeardInv(t) ==
  /\ call[t].last # 0 => <<call[t].endpoint, call[t].last>> \in used[Other(t)]
  /\ call[t].at \in {"media", "stopped"} => HasHeard(call[Other(t)], call[t].endpoint)
  /\ HoldsAnswer(receiver[t], call[t].last)
  /\ sender[t].at = "taking" \/ receiver[t].at = "taking" => call[t].at \in {"media", "stopped"}
  /\ sender[t].at = "taking" => sender[t].frames < MaxFrames

\* What a side has used is of an endpoint before c's, or of c's and below its next
\* number.
UsedBelow(u, c) == \A x \in u : x[1] = c.endpoint => x[2] < c.next
NotPast(u, c) == \A x \in u : x[1] <= c.endpoint

\* Until the two loops meet in TakeNextSequence, the next number is above all used.
CountInv(t) ==
  /\ NotPast(used[t], call[t])
  /\ t \notin raced =>
       /\ t \notin reused
       /\ UsedBelow(used[t], call[t])
       /\ sender[t].at = "taking" => sender[t].seq = call[t].next /\ receiver[t].at = "idle"
       /\ receiver[t].at = "taking" => receiver[t].seq = call[t].next /\ sender[t].at = "idle"

\* CallType with its ranges named, which a step that assigns several fields needs.
Places == {"idle", "opening", "loop", "receive", "refused", "media", "failed", "stopped"}
Attempts == 0..MaxInitAttempts
Retries == 1..MaxRetry
Waits == 0..MaxRetry
Slots == 0..HandshakeTime
Numbers == Nat \ {0}
CallShape ==
  [at : Places, endpoint : Nat, broken : BOOLEAN, attempts : Attempts, retry : Retries, wait : Waits, left : Slots,
   next : Numbers, last : Nat]

IInv == TypeOK /\ NetInv /\ \A t \in Sides : HeardInv(t) /\ CountInv(t)

-------------------------------------------------------------------------------
(* Sides, sequences and datagrams.                                          *)

\* There are two sides.
LEMMA OtherProperties ==
  ASSUME NEW s \in Sides
  PROVE  /\ Other(s) \in Sides /\ Other(s) # s /\ Other(Other(s)) = s
         /\ \A t \in Sides : t = s \/ t = Other(s)
<1>1. PICK a \in Sides, b \in Sides : a # b /\ Sides = {a, b}
  BY SidesAssumption
<1>2. \A t \in Sides : Other(t) \in Sides /\ Other(t) # t
  BY <1>1 DEF Other
<1> QED BY <1>1, <1>2

\* The types with their bounds named.
LEMMA ShapeIsType ==
  /\ CallType = CallShape
  /\ InitialRetry \in Retries /\ 0 \in Attempts /\ 0 \in Waits /\ 0 \in Slots
  /\ HandshakeTime \in Slots
<1>1. CallType = CallShape
  BY DEF CallType, CallShape, Places, Attempts, Retries, Waits, Slots, Numbers
<1> QED BY <1>1, TimingAssumption DEF Attempts, Retries, Waits, Slots

\* A queue with one datagram more.
LEMMA AppendElems ==
  ASSUME NEW q \in Seq(Datagrams), NEW d \in Datagrams
  PROVE  Append(q, d) \in Seq(Datagrams) /\ Elems(Append(q, d)) \subseteq Elems(q) \cup {d}
<1>1. /\ Append(q, d) \in Seq(Datagrams)
      /\ Len(Append(q, d)) = Len(q) + 1 /\ Len(q) \in Nat
      /\ \A i \in 1 .. Len(q) : Append(q, d)[i] = q[i]
      /\ Append(q, d)[Len(q) + 1] = d
  BY AppendProperties
<1>2. ASSUME NEW i \in 1 .. Len(Append(q, d))
      PROVE  Append(q, d)[i] \in Elems(q) \cup {d}
  <2>1. CASE i = Len(q) + 1
    BY <1>1, <2>1
  <2>2. CASE i \in 1 .. Len(q)
    BY <1>1, <2>2 DEF Elems
  <2> QED BY <1>1, <2>1, <2>2
<1> QED BY <1>1, <1>2 DEF Elems

\* The empty queue.
LEMMA EmptyElems == << >> \in Seq(Datagrams) /\ Elems(<< >>) = {}
BY EmptySeq DEF Elems

\* There is a first match, and Receive takes it.
LEMMA FirstMatchExists ==
  ASSUME NEW q \in Seq(Datagrams), HasMatch(q)
  PROVE  /\ FirstMatch(q) \in 1 .. Len(q) /\ Matches(q[FirstMatch(q)])
         /\ \A j \in 1 .. (FirstMatch(q) - 1) : ~Matches(q[j])
<1> DEFINE M == {i \in 1 .. Len(q) : Matches(q[i])}
<1>1. Len(q) \in Nat /\ DOMAIN q = 1 .. Len(q)
  BY LenProperties
<1>2. M \subseteq Nat /\ M # {}
  BY <1>1 DEF HasMatch
<1>3. PICK i \in M : \A j \in M : ~(<<j, i>> \in OpToRel(<, Nat))
  BY <1>2, NatLessThanWellFounded, WFMin
<1>4. \A j \in 1 .. (i - 1) : ~Matches(q[j])
  <2> SUFFICES ASSUME NEW j \in 1 .. (i - 1), Matches(q[j])
               PROVE  FALSE
    OBVIOUS
  <2>1. j \in M /\ j < i /\ j \in Nat /\ i \in Nat
    BY <1>1, <1>2
  <2> QED BY <1>3, <2>1 DEF OpToRel
<1> QED BY <1>1, <1>4 DEF FirstMatch

\* Receive takes one datagram of the queue and leaves the others.
LEMMA ReceiveElems ==
  ASSUME NEW q \in Seq(Datagrams), HasMatch(q)
  PROVE  /\ FirstOf(q) \in Elems(q) /\ FirstOf(q) \in Datagrams
         /\ WithoutMatch(q) \in Seq(Datagrams) /\ Elems(WithoutMatch(q)) \subseteq Elems(q)
<1> DEFINE m == FirstMatch(q)
           a == SubSeq(q, m + 1, Len(q))
           b == SubSeq(q, 1, m - 1)
<1>1. m \in 1 .. Len(q) /\ Len(q) \in Nat
  BY FirstMatchExists, LenProperties
<1>2. \A i \in 1 .. Len(q) : q[i] \in Datagrams /\ q[i] \in Elems(q)
  BY ElementOfSeq DEF Elems
<1>3. FirstOf(q) \in Elems(q) /\ FirstOf(q) \in Datagrams
  BY <1>1, <1>2 DEF FirstOf
<1> DEFINE E == Elems(q) \cap Datagrams
<1>4. \A i \in 1 .. Len(q) : q[i] \in E
  BY <1>2
<1> HIDE DEF m, E
<1>5. a \in Seq(E)
  BY <1>1, <1>4, SubSeqProperties
<1>6. b \in Seq(E)
  BY <1>1, <1>4, SubSeqProperties
<1>7. WithoutMatch(q) = a \o b
  BY DEF WithoutMatch, m
<1> HIDE DEF a, b
<1>8. WithoutMatch(q) \in Seq(E)
  BY <1>5, <1>6, <1>7, ConcatProperties
<1>9. E \subseteq Datagrams /\ E \subseteq Elems(q)
  BY DEF E
<1>10. WithoutMatch(q) \in Seq(Datagrams)
  BY <1>8, <1>9, SeqMonotonic
<1>11. \A i \in 1 .. Len(WithoutMatch(q)) : WithoutMatch(q)[i] \in E
  BY <1>8, ElementOfSeq
<1> QED BY <1>3, <1>9, <1>10, <1>11 DEF Elems

-------------------------------------------------------------------------------
(* What a step does to the datagrams under way.                             *)

WireTyped ==
  /\ queue' \in [Sides -> Seq(Datagrams)] /\ order' \in [Sides -> Seq(Datagrams)]
  /\ net' \in [Sides -> SUBSET (Nat \X Datagrams)] /\ faults' \in 0..MaxFaults

\* Nothing new is under way but what s sends over e, to a peer that is there.
Carries(s, e, p) ==
  /\ WireTyped
  /\ \A t \in Sides : \A m \in net'[t] : m \in net[t] \/ (t = Other(s) /\ m = <<e, p>>)
  /\ \A t \in Sides : \A d \in Elems(queue'[t]) :
       d \in Elems(queue[t]) \/ (t = Other(s) /\ d = p /\ call[t].endpoint = e)

\* The record d is the record c on a later endpoint, or has heard as much.
Later(c, d) ==
  d.endpoint > c.endpoint \/ (d.endpoint = c.endpoint /\ d.last >= c.last)

\* What was sent and heard stays so.
Grows == \A t \in Sides : used[t] \subseteq used'[t] /\ Later(call[t], call'[t])

\* A side on another endpoint has a new queue.
Steady == \A t \in Sides : call'[t].endpoint = call[t].endpoint \/ Elems(queue'[t]) = {}

\* The handler queues the datagram that arrives and no other.
LEMMA ArrivesKeeps ==
  ASSUME NEW q \in [Sides -> Seq(Datagrams)], NEW o \in [Sides -> Seq(Datagrams)],
         NEW s \in Sides, NEW e, NEW d \in Datagrams, Arrives(s, e, d, q, o)
  PROVE  /\ queue' \in [Sides -> Seq(Datagrams)] /\ order' \in [Sides -> Seq(Datagrams)]
         /\ \A t \in Sides : \A x \in Elems(queue'[t]) :
              x \in Elems(q[t]) \/ (t = s /\ x = d /\ call[t].endpoint = e)
<1>1. /\ Append(q[s], d) \in Seq(Datagrams) /\ Append(o[s], d) \in Seq(Datagrams)
      /\ Elems(Append(q[s], d)) \subseteq Elems(q[s]) \cup {d}
  BY AppendElems
<1>2. queue' = q \/ queue' = [q EXCEPT ![s] = Append(q[s], d)]
  BY DEF Arrives
<1>3. order' = o \/ order' = [o EXCEPT ![s] = Append(o[s], d)]
  BY DEF Arrives
<1>4. queue' \in [Sides -> Seq(Datagrams)] /\ order' \in [Sides -> Seq(Datagrams)]
  BY <1>1, <1>2, <1>3
<1>5. \A t \in Sides : queue'[t] = q[t] \/ (t = s /\ queue'[t] = Append(q[s], d))
  BY <1>2
<1>6. queue' = q \/ call[s].endpoint = e
  BY DEF Arrives, Reaches
<1>7. ASSUME NEW t \in Sides, NEW x \in Elems(queue'[t])
      PROVE  x \in Elems(q[t]) \/ (t = s /\ x = d /\ call[t].endpoint = e)
  BY <1>1, <1>5, <1>6
<1> QED BY <1>4, <1>7

\* Sending brings no datagram but the one that is sent.
LEMMA EmitCarries ==
  ASSUME TypeOK, NEW s \in Sides, NEW p \in Datagrams,
         NEW q \in [Sides -> Seq(Datagrams)], NEW o \in [Sides -> Seq(Datagrams)],
         \A t \in Sides : Elems(q[t]) \subseteq Elems(queue[t]), Emit(s, p, q, o)
  PROVE  Carries(s, call[s].endpoint, p)
<1> DEFINE e == call[s].endpoint
<1>1. /\ Other(s) \in Sides /\ e \in Nat /\ net \in [Sides -> SUBSET (Nat \X Datagrams)] /\ faults \in 0..MaxFaults
  BY OtherProperties DEF TypeOK, CallType
<1>2. /\ queue' \in [Sides -> Seq(Datagrams)] /\ order' \in [Sides -> Seq(Datagrams)]
      /\ \A t \in Sides : \A x \in Elems(queue'[t]) :
           x \in Elems(q[t]) \/ (t = Other(s) /\ x = p /\ call[t].endpoint = e)
  <2>1. CASE Arrives(Other(s), e, p, q, o)
    <3> HIDE DEF e
    <3> QED BY <1>1, <2>1, ArrivesKeeps
  <2>2. CASE queue' = q /\ order' = o
    BY <2>2
  <2> QED BY <2>1, <2>2 DEF Emit
<1>3. net' = net \/ net' = [net EXCEPT ![Other(s)] = net[Other(s)] \cup {<<e, p>>}]
  BY DEF Emit
<1>5. faults' \in 0..MaxFaults
  BY <1>1, BoundsAssumption DEF Emit
<1> HIDE DEF e
<1>4. /\ net' \in [Sides -> SUBSET (Nat \X Datagrams)]
      /\ \A t \in Sides : \A m \in net'[t] : m \in net[t] \/ (t = Other(s) /\ m = <<e, p>>)
  BY <1>1, <1>3
<1>6. Carries(s, e, p)
  BY <1>2, <1>4, <1>5 DEF Carries, WireTyped
<1> QED BY <1>6 DEF e

\* Where nothing is sent none comes.
LEMMA SilentCarries ==
  ASSUME TypeOK, NEW s \in Sides, NEW e, NEW p,
         NEW q \in [Sides -> Seq(Datagrams)], NEW o \in [Sides -> Seq(Datagrams)],
         \A t \in Sides : Elems(q[t]) \subseteq Elems(queue[t]), Silent(q, o)
  PROVE  Carries(s, e, p)
<1>1. queue' = q /\ order' = o /\ net' = net /\ faults' = faults
  BY DEF Silent
<1> QED BY <1>1 DEF Carries, WireTyped, TypeOK

\* What Received and InOrder leave.
LEMMA ReceivedTyped ==
  ASSUME TypeOK, NEW s \in Sides, HasMatch(queue[s])
  PROVE  /\ Received(s) \in [Sides -> Seq(Datagrams)]
         /\ InOrder(s) \in [Sides -> Seq(Datagrams)]
         /\ \A t \in Sides : Elems(Received(s)[t]) \subseteq Elems(queue[t])
         /\ FirstOf(queue[s]) \in Elems(queue[s]) /\ FirstOf(queue[s]) \in Datagrams
<1>1. /\ queue \in [Sides -> Seq(Datagrams)] /\ order \in [Sides -> Seq(Datagrams)]
      /\ queue[s] \in Seq(Datagrams) /\ order[s] \in Seq(Datagrams)
  BY DEF TypeOK
<1>2. /\ FirstOf(queue[s]) \in Elems(queue[s]) /\ FirstOf(queue[s]) \in Datagrams
      /\ WithoutMatch(queue[s]) \in Seq(Datagrams)
      /\ Elems(WithoutMatch(queue[s])) \subseteq Elems(queue[s])
  BY <1>1, ReceiveElems
<1>3. Received(s) = [queue EXCEPT ![s] = WithoutMatch(queue[s])]
  BY DEF Received
<1> DEFINE r == IF order[s] = <<>> THEN order[s] ELSE Tail(order[s])
<1>4. InOrder(s) = [order EXCEPT ![s] = r]
  BY DEF InOrder
<1>5. r \in Seq(Datagrams)
  BY <1>1, HeadTailProperties
<1> HIDE DEF r
<1> QED BY <1>1, <1>2, <1>3, <1>4, <1>5

\* Who has heard the other on an endpoint has done so for good.
LEMMA HeardStays ==
  ASSUME TypeOK, Grows, call' \in [Sides -> CallType], NEW t \in Sides, NEW e \in Nat,
         HasHeard(call[t], e)
  PROVE  HasHeard(call'[t], e)
<1>1. /\ call[t].endpoint \in Nat /\ call'[t].endpoint \in Nat
      /\ call[t].last \in Nat /\ call'[t].last \in Nat
  BY DEF TypeOK, CallType
<1>2. Later(call[t], call'[t])
  BY DEF Grows
<1> QED BY <1>1, <1>2 DEF HasHeard, Later

\* What was sent and heard once stays so.
LEMMA GoodKeeps ==
  ASSUME TypeOK, Grows, call' \in [Sides -> CallType], NEW t \in Sides, NEW e \in Nat, NEW d,
         GoodTo(t, e, d)
  PROVE  GoodAfter(t, e, d)
<1>1. Other(t) \in Sides
  BY OtherProperties
<1>2. used[t] \subseteq used'[t] /\ used[Other(t)] \subseteq used'[Other(t)]
  BY <1>1 DEF Grows
<1>3. HasHeard(call[Other(t)], e) => HasHeard(call'[Other(t)], e)
  BY <1>1, HeardStays
<1> QED BY <1>2, <1>3 DEF GoodTo, GoodAfter, Good

\* So do the datagrams under way, and the new one is good.
LEMMA NetKeeps ==
  ASSUME TypeOK, NetInv, Grows, Steady, call' \in [Sides -> CallType],
         NEW s \in Sides, NEW e, NEW p, Carries(s, e, p), GoodAfter(Other(s), e, p)
  PROVE  NetInv'
<1>1. ASSUME NEW t \in Sides, NEW m \in net'[t]
      PROVE  GoodAfter(t, m[1], m[2])
  <2>1. CASE m \in net[t]
    <3>1. m[1] \in Nat /\ GoodTo(t, m[1], m[2])
      BY <2>1 DEF TypeOK, NetInv
    <3> QED BY <3>1, GoodKeeps
  <2>2. CASE t = Other(s) /\ m = <<e, p>>
    BY <2>2
  <2> QED BY <2>1, <2>2 DEF Carries
<1>2. ASSUME NEW t \in Sides, NEW d \in Elems(queue'[t])
      PROVE  GoodAfter(t, call'[t].endpoint, d)
  <2>1. call'[t].endpoint = call[t].endpoint /\ call[t].endpoint \in Nat
    BY <1>2 DEF Steady, TypeOK, CallType
  <2>2. CASE d \in Elems(queue[t])
    <3>1. GoodTo(t, call[t].endpoint, d)
      BY <2>2 DEF NetInv
    <3>2. GoodAfter(t, call[t].endpoint, d)
      BY <2>1, <3>1, GoodKeeps
    <3> QED BY <2>1, <3>2
  <2>3. CASE t = Other(s) /\ d = p /\ call[t].endpoint = e
    BY <2>1, <2>3
  <2> QED BY <2>2, <2>3 DEF Carries
<1> QED BY <1>1, <1>2 DEF NetInv, GoodTo, GoodAfter, Elems

-------------------------------------------------------------------------------
(* What is left to show of a step of one side.                              *)

SideTyped ==
  /\ time' \in Nat
  /\ call' \in [Sides -> CallType]
  /\ sender' \in [Sides -> SenderType] /\ receiver' \in [Sides -> ReceiverType]
  /\ used' \in [Sides -> SUBSET (Nat \X Nat)] /\ reused' \subseteq Sides /\ raced' \subseteq Sides

\* The two halves of the types.
LEMMA TypedKeeps ==
  ASSUME WireTyped, SideTyped
  PROVE  TypeOK'
BY DEF TypeOK, WireTyped, SideTyped

\* The other side has no part in it.
LEMMA SideKeeps ==
  ASSUME IInv, NEW s \in Sides, SideTyped, WireTyped, Grows, NetInv',
         HeardInv(s)', CountInv(s)',
         \A t \in Sides : t # s =>
           /\ call'[t] = call[t] /\ sender'[t] = sender[t] /\ receiver'[t] = receiver[t]
           /\ used'[t] = used[t]
           /\ (t \in raced <=> t \in raced') /\ (t \in reused <=> t \in reused')
  PROVE  IInv'
<1>1. TypeOK /\ TypeOK'
  BY TypedKeeps DEF IInv
<1>2. ASSUME NEW t \in Sides
      PROVE  HeardInv(t)' /\ CountInv(t)'
  <2>1. CASE t = s
    BY <2>1
  <2>2. CASE t # s
    <3>1. /\ Other(t) = s /\ call'[t] = call[t] /\ sender'[t] = sender[t]
          /\ receiver'[t] = receiver[t] /\ used'[t] = used[t]
          /\ (t \in raced <=> t \in raced') /\ (t \in reused <=> t \in reused')
      BY <2>2, OtherProperties
    <3>2. used[s] \subseteq used'[s]
      BY DEF Grows
    <3>3. HasHeard(call[s], call[t].endpoint) => HasHeard(call'[s], call'[t].endpoint)
      <4> DEFINE f == call[t].endpoint
      <4>1. f \in Nat /\ call' \in [Sides -> CallType] /\ f = call'[t].endpoint
        BY <1>1, <3>1 DEF TypeOK, CallType
      <4> HIDE DEF f
      <4>2. HasHeard(call[s], f) => HasHeard(call'[s], f)
        BY <1>1, <4>1, HeardStays
      <4> QED BY <4>1, <4>2 DEF f
    <3>4. HeardInv(t) /\ CountInv(t)
      BY DEF IInv
    <3>5. HeardInv(t)'
      BY <3>1, <3>2, <3>3, <3>4 DEF HeardInv
    <3>6. CountInv(t)'
      BY <3>1, <3>4 DEF CountInv
    <3> QED BY <3>5, <3>6
  <2> QED BY <2>1, <2>2
<1> QED BY <1>1, <1>2 DEF IInv

\* A step of s leaves its records as c, snd and rcv.
LEMMA StepKeeps ==
  ASSUME IInv, NEW s \in Sides, time' \in Nat,
         NEW c \in CallType, call' = [call EXCEPT ![s] = c],
         NEW snd \in SenderType, sender' = [sender EXCEPT ![s] = snd],
         NEW rcv \in ReceiverType, receiver' = [receiver EXCEPT ![s] = rcv],
         used' \in [Sides -> SUBSET (Nat \X Nat)], used[s] \subseteq used'[s],
         \A t \in Sides : t # s =>
           used'[t] = used[t] /\ (t \in raced <=> t \in raced') /\ (t \in reused <=> t \in reused'),
         raced' \subseteq Sides, reused' \subseteq Sides,
         NEW r \in Sides, NEW e, NEW p, Carries(r, e, p), GoodAfter(Other(r), e, p),
         Later(call[s], c), c.endpoint = call[s].endpoint \/ Elems(queue'[s]) = {},
         c.last # 0 => <<c.endpoint, c.last>> \in used[Other(s)],
         c.at \in {"media", "stopped"} => HasHeard(call[Other(s)], c.endpoint),
         HoldsAnswer(rcv, c.last),
         snd.at = "taking" \/ rcv.at = "taking" => c.at \in {"media", "stopped"},
         snd.at = "taking" => snd.frames < MaxFrames,
         CountInv(s)'
  PROVE  IInv'
<1>1. TypeOK /\ NetInv
  BY DEF IInv
<1>2. /\ call'[s] = c /\ sender'[s] = snd /\ receiver'[s] = rcv
      /\ call' \in [Sides -> CallType] /\ sender' \in [Sides -> SenderType]
      /\ receiver' \in [Sides -> ReceiverType]
      /\ \A t \in Sides : t # s =>
           call'[t] = call[t] /\ sender'[t] = sender[t] /\ receiver'[t] = receiver[t]
  BY <1>1 DEF TypeOK
<1>3. SideTyped
  BY <1>2 DEF SideTyped
<1>4. WireTyped
  BY DEF Carries
<1>5. Grows
  <2>1. \A t \in Sides : call[t].last >= call[t].last
    <3>1. ASSUME NEW t \in Sides
          PROVE  call[t].last \in Nat
      BY <1>1 DEF TypeOK, CallType
    <3> QED BY <3>1
  <2>2. \A t \in Sides : Later(call[t], call'[t])
    BY <1>2, <2>1 DEF Later
  <2>3. \A t \in Sides : used[t] \subseteq used'[t]
    OBVIOUS
  <2> QED BY <2>2, <2>3 DEF Grows
<1>6. NetInv'
  <2>1. Steady
    BY <1>2 DEF Steady
  <2> QED BY <1>1, <1>2, <1>5, <2>1, NetKeeps
<1>7. HeardInv(s)'
  <2>1. Other(s) \in Sides /\ Other(s) # s
    BY OtherProperties
  <2>2. call'[Other(s)] = call[Other(s)] /\ used'[Other(s)] = used[Other(s)]
    BY <1>2, <2>1
  <2>3. c.at \in {"media", "stopped"} => HasHeard(call'[Other(s)], c.endpoint)
    BY <2>2 DEF HasHeard
  <2>4. HasHeard(call'[Other(s)], c.endpoint) => HasHeard(call'[Other(s)], call'[s].endpoint)
    BY <1>2 DEF HasHeard
  <2> QED BY <1>2, <2>2, <2>3, <2>4 DEF HeardInv
<1> QED BY <1>2, <1>3, <1>4, <1>5, <1>6, <1>7, SideKeeps

\* What the reflector sends of its own tells nothing.
LEMMA NothingGood ==
  ASSUME NEW t, NEW e, NEW d, d.seq = 0, d.ack = 0,
         d.kind \notin {"initAck", "init", "ping"}
  PROVE  GoodAfter(t, e, d)
BY DEF GoodAfter, Good, AnswerTo

\* The reflector's answer to a self-info probe.
LEMMA SelfInfoTyped ==
  /\ SelfInfo \in Datagrams /\ SelfInfo.seq = 0 /\ SelfInfo.ack = 0
  /\ SelfInfo.kind = "selfInfo"
BY BoundsAssumption DEF SelfInfo, Datagram, Datagrams, Kinds

\* A step that moves a side from one place to another, and counts and hears nothing.
LEMMA PlaceKeeps ==
  ASSUME IInv, NEW s \in Sides, time' \in Nat,
         NEW c \in CallType, call' = [call EXCEPT ![s] = c],
         c.next = call[s].next, c.last = call[s].last, c.endpoint = call[s].endpoint,
         c.at \in {"media", "stopped"} <=> call[s].at \in {"media", "stopped"},
         UNCHANGED <<sender, receiver, used, reused, raced>>,
         NEW r \in Sides, NEW e, NEW p, Carries(r, e, p), GoodAfter(Other(r), e, p)
  PROVE  IInv'
<1>1. /\ TypeOK /\ HeardInv(s) /\ CountInv(s) /\ call[s] \in CallType
  BY DEF IInv, TypeOK
<1>2. /\ sender[s] \in SenderType /\ sender' = [sender EXCEPT ![s] = sender[s]]
      /\ receiver[s] \in ReceiverType /\ receiver' = [receiver EXCEPT ![s] = receiver[s]]
      /\ used' \in [Sides -> SUBSET (Nat \X Nat)] /\ raced' \subseteq Sides /\ reused' \subseteq Sides
      /\ call'[s] = c
  BY <1>1 DEF TypeOK
<1>3. CountInv(s)'
  BY <1>1, <1>2 DEF CountInv, UsedBelow, NotPast
<1>4. Later(call[s], c)
  BY <1>1 DEF CallType, Later
<1>5. /\ c.last # 0 => <<c.endpoint, c.last>> \in used[Other(s)]
      /\ c.at \in {"media", "stopped"} => HasHeard(call[Other(s)], c.endpoint)
      /\ HoldsAnswer(receiver[s], c.last)
      /\ sender[s].at = "taking" \/ receiver[s].at = "taking" => c.at \in {"media", "stopped"}
      /\ sender[s].at = "taking" => sender[s].frames < MaxFrames
  BY <1>1 DEF HeardInv
<1>6. used[s] \subseteq used'[s] /\ \A t \in Sides : t # s =>
        used'[t] = used[t] /\ (t \in raced <=> t \in raced') /\ (t \in reused <=> t \in reused')
  OBVIOUS
<1> QED BY <1>1, <1>2, <1>3, <1>4, <1>5, <1>6, StepKeeps

\* A handshake that has succeeded.
LEMMA CompletedTyped ==
  ASSUME NEW c \in CallType
  PROVE  /\ Completed(c) \in CallType /\ Completed(c).at = "media"
         /\ Completed(c).next = c.next /\ Completed(c).last = c.last
         /\ Completed(c).endpoint = c.endpoint
BY ShapeIsType DEF Completed, CallShape, Places

\* An attempt that has not begun.
LEMMA AttemptTyped ==
  ASSUME NEW at \in Places, NEW e \in Nat, NEW broken \in BOOLEAN
  PROVE  LET c == Attempt(at, e, broken) IN
         /\ c \in CallType /\ c.at = at /\ c.endpoint = e /\ c.next = 1 /\ c.last = 0
<1>1. Attempt(at, e, broken) \in CallShape
  BY ShapeIsType DEF CallShape, Attempt, Numbers
<1> QED BY <1>1, ShapeIsType DEF Attempt

\* The next endpoint, where nothing has been used or heard.
LEMMA NextKeeps ==
  ASSUME IInv, NEW s \in Sides, UNCHANGED <<time, sender, receiver, used, reused, raced>>,
         call[s].at \notin {"media", "stopped"}, NEW broken \in BOOLEAN,
         call' = [call EXCEPT ![s] = NextEndpoint(call[s], broken)],
         NEW r \in Sides, NEW e, NEW p, Carries(r, e, p), GoodAfter(Other(r), e, p),
         Elems(queue'[s]) = {}
  PROVE  IInv'
<1> DEFINE c == NextEndpoint(call[s], broken)
<1>1. /\ TypeOK /\ HeardInv(s) /\ CountInv(s) /\ call[s] \in CallType /\ call[s].endpoint \in Nat
      /\ call[s].broken \in BOOLEAN /\ used[s] \in SUBSET (Nat \X Nat)
  BY DEF IInv, TypeOK, CallType
<1>2. /\ sender[s] \in SenderType /\ sender' = [sender EXCEPT ![s] = sender[s]]
      /\ receiver[s] \in ReceiverType /\ receiver' = [receiver EXCEPT ![s] = receiver[s]]
      /\ used' \in [Sides -> SUBSET (Nat \X Nat)] /\ raced' \subseteq Sides
      /\ reused' \subseteq Sides /\ time' \in Nat
  BY <1>1 DEF TypeOK
<1>3. PICK at \in {"opening", "failed"}, was \in BOOLEAN :
        c = Attempt(at, call[s].endpoint + 1, was)
  <2>1. (call[s].broken \/ broken) \in BOOLEAN
    OBVIOUS
  <2> QED BY <2>1 DEF NextEndpoint
<1>4. /\ c \in CallType /\ c.at = at /\ c.endpoint = call[s].endpoint + 1
      /\ c.next = 1 /\ c.last = 0
  <2>1. at \in Places /\ call[s].endpoint + 1 \in Nat
    BY <1>1 DEF Places
  <2> QED BY <1>3, <2>1, AttemptTyped
<1> HIDE DEF c
<1>5. call' = [call EXCEPT ![s] = c] /\ call'[s] = c
  BY <1>1 DEF c, TypeOK
<1>6. sender[s].at = "idle" /\ receiver[s].at = "idle" /\ HoldsAnswer(receiver[s], c.last)
  BY <1>1, <1>2 DEF HeardInv, SenderType, ReceiverType, HoldsAnswer
<1>7. NotPast(used[s], c) /\ UsedBelow(used[s], c)
  <2>1. ASSUME NEW x \in used[s]
        PROVE  x[1] <= c.endpoint /\ x[1] # c.endpoint
    <3>1. x[1] \in Nat /\ x[1] <= call[s].endpoint
      BY <1>1 DEF CountInv, NotPast
    <3> QED BY <1>1, <1>4, <3>1
  <2> QED BY <2>1 DEF NotPast, UsedBelow
<1>8. CountInv(s)'
  BY <1>1, <1>5, <1>6, <1>7 DEF CountInv
<1>9. Later(call[s], c)
  BY <1>1, <1>4 DEF Later
<1>10. c.at \notin {"media", "stopped"} /\ ~(c.last # 0)
  BY <1>4
<1>11. /\ used[s] \subseteq used'[s]
       /\ \A t \in Sides : t # s => used'[t] = used[t]
            /\ (t \in raced <=> t \in raced') /\ (t \in reused <=> t \in reused')
  OBVIOUS
<1> QED BY <1>2, <1>4, <1>5, <1>6, <1>8, <1>9, <1>10, <1>11, StepKeeps

\* A session that closes empties its queue.
LEMMA ClosedCarries ==
  ASSUME TypeOK, NEW s \in Sides, NEW e, NEW p, Closed(s), UNCHANGED net,
         faults' \in 0..MaxFaults
  PROVE  Carries(s, e, p) /\ Elems(queue'[s]) = {}
<1>1. /\ queue' = [queue EXCEPT ![s] = <<>>] /\ order' = [order EXCEPT ![s] = <<>>]
      /\ queue \in [Sides -> Seq(Datagrams)] /\ order \in [Sides -> Seq(Datagrams)]
      /\ net' \in [Sides -> SUBSET (Nat \X Datagrams)]
  BY DEF Closed, TypeOK
<1>2. queue' \in [Sides -> Seq(Datagrams)] /\ order' \in [Sides -> Seq(Datagrams)]
  BY <1>1, EmptyElems
<1>3. \A t \in Sides : Elems(queue'[t]) \subseteq Elems(queue[t])
  BY <1>1, EmptyElems
<1>4. Elems(queue'[s]) = {}
  BY <1>1, EmptyElems
<1> QED BY <1>1, <1>2, <1>3, <1>4 DEF Carries, WireTyped

-------------------------------------------------------------------------------
(* The handshake.                                                           *)

\* The session of an endpoint opens, or fails to.
LEMMA OpenPreserves ==
  ASSUME IInv, NEW s \in Sides, Start(s) \/ TryNext(s)
  PROVE  IInv'
<1> DEFINE e == call[s].endpoint
<1>1. /\ TypeOK /\ call[s] \in CallType /\ call[s].at \in {"idle", "opening"}
      /\ faults \in 0..MaxFaults /\ OpenEndpoint(s)
      /\ queue \in [Sides -> Seq(Datagrams)] /\ order \in [Sides -> Seq(Datagrams)]
      /\ net \in [Sides -> SUBSET (Nat \X Datagrams)]
      /\ Other(s) \in Sides /\ Other(Other(s)) = s
  BY OtherProperties DEF IInv, TypeOK, Start, TryNext
<1>2. UNCHANGED <<time, sender, receiver, net, used, reused, raced>> /\ time' \in Nat
  BY <1>1 DEF OpenEndpoint, history, TypeOK
<1>3. CASE /\ call' = [call EXCEPT ![s].at = "loop", ![s].left = HandshakeTime]
           /\ queue' = [queue EXCEPT ![s] = <<SelfInfo>>]
           /\ order' = [order EXCEPT ![s] = <<SelfInfo>>]
           /\ UNCHANGED faults
  <2> DEFINE c == [call[s] EXCEPT !.at = "loop", !.left = HandshakeTime]
  <2>1. /\ c \in CallType /\ c.at = "loop" /\ c.next = call[s].next /\ c.last = call[s].last
        /\ c.endpoint = call[s].endpoint
    BY <1>1, ShapeIsType DEF CallShape, Places
  <2>2. call' = [call EXCEPT ![s] = c]
    BY <1>1, <1>3 DEF TypeOK
  <2> HIDE DEF c
  <2>3. <<SelfInfo>> \in Seq(Datagrams) /\ Elems(<<SelfInfo>>) = {SelfInfo}
    BY SelfInfoTyped DEF Elems
  <2>4. Carries(Other(s), e, SelfInfo)
    <3>1. queue' \in [Sides -> Seq(Datagrams)] /\ order' \in [Sides -> Seq(Datagrams)]
      BY <1>1, <1>3, <2>3
    <3>2. \A t \in Sides : \A d \in Elems(queue'[t]) :
            d \in Elems(queue[t]) \/ (t = s /\ d = SelfInfo /\ call[t].endpoint = e)
      BY <1>1, <1>3, <2>3
    <3> QED BY <1>1, <1>2, <1>3, <3>1, <3>2 DEF Carries, WireTyped
  <2> HIDE DEF e
  <2>5. GoodAfter(s, e, SelfInfo)
    BY SelfInfoTyped, NothingGood
  <2> QED BY <1>1, <1>2, <2>1, <2>2, <2>4, <2>5, PlaceKeeps
<1>4. CASE faults < MaxFaults /\ faults' = faults + 1
           /\ call' = [call EXCEPT ![s] = NextEndpoint(@, TRUE)] /\ Closed(s)
  <2>1. call' = [call EXCEPT ![s] = NextEndpoint(call[s], TRUE)]
    BY <1>1, <1>4 DEF TypeOK
  <2> HIDE DEF e
  <2>2. Carries(s, e, SelfInfo) /\ Elems(queue'[s]) = {}
    <3>1. faults' \in 0..MaxFaults
      BY <1>1, <1>4, BoundsAssumption
    <3> QED BY <1>1, <1>2, <1>4, <3>1, ClosedCarries
  <2>3. GoodAfter(Other(s), e, SelfInfo)
    BY SelfInfoTyped, NothingGood
  <2> QED BY <1>1, <1>2, <2>1, <2>2, <2>3, NextKeeps
<1> QED BY <1>1, <1>3, <1>4 DEF OpenEndpoint

\* The ways out of the handshake, and StopMedia.
LEMMA EndPreserves ==
  ASSUME IInv, NEW s \in Sides, HandshakeEnds(s) \/ HandshakeFails(s) \/ StopMedia(s)
  PROVE  IInv'
<1>1. /\ TypeOK /\ call[s] \in CallType /\ faults \in 0..MaxFaults
      /\ UNCHANGED <<time, sender, receiver, net, used, reused, raced>> /\ time' \in Nat
      /\ Closed(s)
  BY DEF IInv, TypeOK, HandshakeEnds, HandshakeFails, StopMedia, history
<1>2. faults' \in 0..MaxFaults
  <2>1. faults' = faults \/ (faults < MaxFaults /\ faults' = faults + 1)
    BY DEF HandshakeEnds, HandshakeFails, StopMedia
  <2> QED BY <1>1, <2>1, BoundsAssumption
<1>3. /\ Carries(s, 0, SelfInfo) /\ Elems(queue'[s]) = {}
      /\ GoodAfter(Other(s), 0, SelfInfo)
  BY <1>1, <1>2, ClosedCarries, SelfInfoTyped, NothingGood
<1>4. CASE HandshakeEnds(s) \/ HandshakeFails(s)
  <2>1. PICK broken \in BOOLEAN : call' = [call EXCEPT ![s] = NextEndpoint(call[s], broken)]
    BY <1>1, <1>4 DEF HandshakeEnds, HandshakeFails, TypeOK
  <2>2. call[s].at \notin {"media", "stopped"}
    BY <1>4 DEF HandshakeEnds, HandshakeFails
  <2> QED BY <1>1, <1>3, <2>1, <2>2, NextKeeps
<1>5. CASE StopMedia(s)
  <2> DEFINE c == [call[s] EXCEPT !.at = "stopped"]
  <2>1. /\ c \in CallType /\ c.at = "stopped" /\ c.next = call[s].next /\ c.last = call[s].last
        /\ c.endpoint = call[s].endpoint
    BY <1>1 DEF CallType
  <2>2. call' = [call EXCEPT ![s] = c] /\ call[s].at = "media"
    BY <1>1, <1>5 DEF StopMedia, TypeOK
  <2> HIDE DEF c
  <2> QED BY <1>1, <1>3, <2>1, <2>2, PlaceKeeps
<1> QED BY <1>4, <1>5

-------------------------------------------------------------------------------
(* Sending and hearing.                                                     *)

\* The side s has sent p.
Sends(s, p) ==
  /\ Carries(s, call[s].endpoint, p)
  /\ used' = [used EXCEPT ![s] = @ \cup {<<call[s].endpoint, p.seq>>}]
  /\ \/ reused' = reused
     \/ <<call[s].endpoint, p.seq>> \in used[s] /\ reused' = reused \cup {s}

\* A datagram sent uses up its number and reaches nobody but the peer.
LEMMA EmitSends ==
  ASSUME TypeOK, NEW s \in Sides, NEW p \in Datagrams,
         NEW q \in [Sides -> Seq(Datagrams)], NEW o \in [Sides -> Seq(Datagrams)],
         \A t \in Sides : Elems(q[t]) \subseteq Elems(queue[t]), Emit(s, p, q, o)
  PROVE  Sends(s, p)
<1>1. Carries(s, call[s].endpoint, p)
  BY EmitCarries
<1>2. /\ used' = [used EXCEPT ![s] = @ \cup {<<call[s].endpoint, p.seq>>}]
      /\ \/ reused' = reused
         \/ <<call[s].endpoint, p.seq>> \in used[s] /\ reused' = reused \cup {s}
  BY DEF Emit
<1> QED BY <1>1, <1>2 DEF Sends

\* A side that sends the number it holds and counts on from there.
LEMMA SendKeeps ==
  ASSUME IInv, NEW s \in Sides, UNCHANGED <<time, raced>>,
         NEW c \in CallType, call' = [call EXCEPT ![s] = c],
         NEW snd \in SenderType, sender' = [sender EXCEPT ![s] = snd],
         NEW rcv \in ReceiverType, receiver' = [receiver EXCEPT ![s] = rcv],
         NEW p \in Datagrams, Sends(s, p), c.next = p.seq + 1, p.ack = c.last,
         p.kind = "initAck" => c.last > 0, p.kind \in DOMAIN AnswerTo => p.seq # 0,
         c.endpoint = call[s].endpoint, c.last >= call[s].last,
         c.last # 0 => <<call[s].endpoint, c.last>> \in used[Other(s)],
         c.at \in {"media", "stopped"} => HasHeard(call[Other(s)], call[s].endpoint),
         HoldsAnswer(rcv, c.last),
         snd.at = "taking" \/ rcv.at = "taking" => c.at \in {"media", "stopped"},
         snd.at = "taking" => snd.frames < MaxFrames,
         s \notin raced => p.seq = call[s].next /\ snd.at = "idle" /\ rcv.at = "idle"
  PROVE  IInv'
<1> DEFINE e == call[s].endpoint
<1>1. /\ TypeOK /\ CountInv(s) /\ Other(s) \in Sides /\ Other(s) # s /\ Other(Other(s)) = s
      /\ call[s] \in CallType /\ p.seq \in Nat /\ time' \in Nat
      /\ used[s] \subseteq Nat \X Nat /\ e \in Nat /\ c.endpoint = e
  BY OtherProperties DEF IInv, TypeOK, CallType, Datagrams
<1>2. /\ call'[s] = c /\ sender'[s] = snd /\ receiver'[s] = rcv
      /\ used'[s] = used[s] \cup {<<e, p.seq>>} /\ used'[Other(s)] = used[Other(s)]
      /\ used' \in [Sides -> SUBSET (Nat \X Nat)]
      /\ \A t \in Sides : t # s => used'[t] = used[t]
  BY <1>1 DEF TypeOK, Sends
<1>3. /\ reused' \subseteq Sides /\ raced' \subseteq Sides
      /\ \A t \in Sides : t # s => (t \in reused <=> t \in reused')
      /\ \A t \in Sides : t \in raced <=> t \in raced'
  BY <1>1 DEF TypeOK, Sends
<1>7. /\ Carries(s, e, p) /\ used[s] \subseteq used'[s] /\ Later(call[s], c)
      /\ c.at \in {"media", "stopped"} => HasHeard(call[Other(s)], c.endpoint)
      /\ c.last # 0 => <<c.endpoint, c.last>> \in used[Other(s)]
  BY <1>1, <1>2 DEF Sends, Later
<1>8. reused' = reused \/ <<e, p.seq>> \in used[s]
  BY DEF Sends
<1> HIDE DEF e
<1>4. GoodAfter(Other(s), e, p)
  <2>1. c.last > 0 => HasHeard(call'[s], e)
    BY <1>1, <1>2 DEF HasHeard
  <2> QED BY <1>1, <1>2, <1>7, <2>1 DEF GoodAfter, Good
<1>9. NotPast(used'[s], c)
  <2>1. ASSUME NEW x \in used'[s]
        PROVE  x[1] <= c.endpoint
    <3>1. CASE x = <<e, p.seq>>
      BY <1>1, <3>1
    <3>2. CASE x \in used[s]
      BY <1>1, <3>2 DEF CountInv, NotPast, e
    <3> QED BY <1>2, <3>1, <3>2
  <2> QED BY <2>1 DEF NotPast
<1>5. ASSUME s \notin raced
      PROVE  /\ s \notin reused' /\ UsedBelow(used'[s], c)
             /\ snd.at # "taking" /\ rcv.at # "taking"
  <2>1. s \notin reused /\ \A x \in used[s] : x[1] = e => x[2] < call[s].next
    BY <1>1, <1>5 DEF CountInv, UsedBelow, e
  <2>2. p.seq = call[s].next
    BY <1>5
  <2>3. <<e, p.seq>> \notin used[s]
    BY <1>1, <2>1, <2>2
  <2>4. s \notin reused'
    BY <1>8, <2>1, <2>3
  <2>5. ASSUME NEW x \in used'[s], x[1] = c.endpoint
        PROVE  x[2] < c.next
    <3>1. CASE x = <<e, p.seq>>
      BY <1>1, <3>1
    <3>2. CASE x \in used[s]
      <4>1. x[2] \in Nat /\ x[2] < p.seq
        BY <1>1, <2>1, <2>2, <2>5, <3>2
      <4> QED BY <1>1, <4>1
    <3> QED BY <1>2, <3>1, <3>2
  <2> QED BY <1>5, <2>4, <2>5 DEF UsedBelow
<1>6. CountInv(s)'
  BY <1>2, <1>3, <1>5, <1>9 DEF CountInv
<1> QED BY <1>1, <1>2, <1>3, <1>4, <1>6, <1>7, StepKeeps

\* What Receive takes tells the side what the other has sent.
LEMMA HeardGood ==
  ASSUME IInv, NEW s \in Sides, NEW d \in Elems(queue[s]), d \in Datagrams
  PROVE  LET h == Heard(call[s].last, d) IN
         /\ h \in Nat /\ h >= call[s].last
         /\ h # 0 => <<call[s].endpoint, h>> \in used[Other(s)]
         /\ d.kind \in DOMAIN AnswerTo => h > 0
         /\ d.kind = "initAck" => HasHeard(call[Other(s)], call[s].endpoint)
<1>1. /\ GoodTo(s, call[s].endpoint, d) /\ HeardInv(s) /\ call[s].last \in Nat /\ d.seq \in Nat
  BY DEF IInv, NetInv, TypeOK, CallType, Datagrams
<1>2. d.kind = "initAck" => HasHeard(call[Other(s)], call[s].endpoint)
  BY <1>1 DEF GoodTo, Good
<1>3. CASE d.seq > call[s].last
  <2>1. Heard(call[s].last, d) = d.seq
    BY <1>3 DEF Heard
  <2>2. <<call[s].endpoint, d.seq>> \in used[Other(s)] /\ d.seq > 0
    BY <1>1, <1>3 DEF GoodTo, Good
  <2>3. d.seq >= call[s].last
    BY <1>1, <1>3
  <2> QED BY <1>1, <1>2, <2>1, <2>2, <2>3
<1>4. CASE ~(d.seq > call[s].last)
  <2>1. Heard(call[s].last, d) = call[s].last
    BY <1>4 DEF Heard
  <2>2. call[s].last # 0 => <<call[s].endpoint, call[s].last>> \in used[Other(s)]
    BY <1>1 DEF HeardInv
  <2>3. d.kind \in DOMAIN AnswerTo => d.seq # 0
    BY <1>1 DEF GoodTo, Good
  <2>4. d.kind \in DOMAIN AnswerTo => call[s].last > 0
    BY <1>1, <1>4, <2>3
  <2>5. call[s].last >= call[s].last
    BY <1>1
  <2> QED BY <1>1, <1>2, <2>1, <2>2, <2>4, <2>5
<1> QED BY <1>3, <1>4

\* A side whose handshake is under way has nothing in its loops.
LEMMA LoopsIdle ==
  ASSUME IInv, NEW s \in Sides, call[s].at \notin {"media", "stopped"}
  PROVE  /\ sender[s].at = "idle" /\ receiver[s].at = "idle"
         /\ \A n : HoldsAnswer(receiver[s], n)
BY DEF IInv, HeardInv, TypeOK, SenderType, ReceiverType, HoldsAnswer

\* What a packet is, and that its parts are its arguments.
LEMMA PacketTyped ==
  ASSUME NEW kind \in Kinds, NEW m \in Nat, NEW a \in Nat, NEW n \in 0..MaxFrames
  PROVE  LET p == BuildControlPacket(kind, m, a, n) IN
         p \in Datagrams /\ p.kind = kind /\ p.seq = m /\ p.ack = a
BY DEF BuildControlPacket, Datagram, Datagrams

\* The doubled retry interval stays within its cap.
LEMMA DoubledTyped ==
  ASSUME NEW r \in Retries
  PROVE  Doubled(r) \in Retries
BY TimingAssumption DEF Doubled, Retries

\* A turn of RunControlHandshake: the Init goes out again when it is due.
LEMMA TurnPreserves ==
  ASSUME IInv, NEW s \in Sides, HandshakeTurn(s)
  PROVE  IInv'
<1>1. /\ TypeOK /\ HeardInv(s) /\ call[s] \in CallType /\ call[s] \in CallShape
      /\ call[s].at = "loop" /\ Remaining(call[s])
      /\ sender[s] \in SenderType /\ receiver[s] \in ReceiverType
      /\ queue \in [Sides -> Seq(Datagrams)] /\ order \in [Sides -> Seq(Datagrams)]
      /\ UNCHANGED <<time, sender, receiver, raced>> /\ time' \in Nat
      /\ sender[s].at = "idle" /\ receiver[s].at = "idle"
      /\ \A n : HoldsAnswer(receiver[s], n)
  BY LoopsIdle, ShapeIsType DEF IInv, TypeOK, HandshakeTurn
<1>2. /\ sender' = [sender EXCEPT ![s] = sender[s]]
      /\ receiver' = [receiver EXCEPT ![s] = receiver[s]]
  BY <1>1 DEF TypeOK
<1>3. CASE SendInitPacket(s)
  <2> DEFINE c == [call[s] EXCEPT !.at = "receive", !.attempts = @ + 1,
                                  !.wait = call[s].retry, !.retry = Doubled(@),
                                  !.next = NextSequence(@)]
             p == BuildControlPacket("init", call[s].next, call[s].last, 0)
  <2>1. /\ call[s].attempts + 1 \in Attempts /\ call[s].retry \in Waits
        /\ Doubled(call[s].retry) \in Retries /\ NextSequence(call[s].next) \in Numbers
        /\ call[s].last \in Nat /\ call[s].next \in Nat /\ call[s].next # 0
    <3>1. call[s].attempts + 1 \in Attempts
      BY <1>1, TimingAssumption DEF CallShape, Attempts, Remaining
    <3>2. call[s].retry \in Waits
      BY <1>1, TimingAssumption DEF CallShape, Retries, Waits
    <3>3. NextSequence(call[s].next) \in Numbers
      BY <1>1 DEF CallShape, Numbers, NextSequence
    <3> QED BY <1>1, <3>1, <3>2, <3>3, DoubledTyped DEF CallShape, Numbers
  <2>2. c \in CallType
    <3>1. "receive" \in Places
      BY DEF Places
    <3>2. c \in CallShape
      BY <1>1, <2>1, <3>1 DEF CallShape
    <3> QED BY <3>2, ShapeIsType
  <2>3. /\ c.at = "receive" /\ c.next = call[s].next + 1 /\ c.last = call[s].last
        /\ c.endpoint = call[s].endpoint
    BY <1>1 DEF CallShape, NextSequence
  <2>4. call' = [call EXCEPT ![s] = c]
    BY <1>1, <1>3 DEF SendInitPacket, TypeOK
  <2>5. p \in Datagrams /\ p.kind = "init" /\ p.seq = call[s].next /\ p.ack = call[s].last
    <3>1. 0 \in 0 .. MaxFrames /\ "init" \in Kinds
      BY BoundsAssumption DEF Kinds
    <3> QED BY <2>1, <3>1, PacketTyped
  <2>6. Emit(s, p, queue, order)
    BY <1>3 DEF SendInitPacket
  <2> HIDE DEF c, p
  <2>7. Sends(s, p)
    BY <1>1, <2>5, <2>6, EmitSends
  <2>8. /\ c.last >= call[s].last
        /\ c.last # 0 => <<call[s].endpoint, c.last>> \in used[Other(s)]
    BY <1>1, <2>1, <2>3 DEF HeardInv
  <2> QED BY <1>1, <1>2, <2>1, <2>2, <2>3, <2>4, <2>5, <2>7, <2>8, SendKeeps
<1>4. CASE call' = [call EXCEPT ![s].at = "receive"] /\ Silent(queue, order)
  <2> DEFINE c == [call[s] EXCEPT !.at = "receive"]
  <2>1. /\ c \in CallType /\ c.at = "receive" /\ c.next = call[s].next /\ c.last = call[s].last
        /\ c.endpoint = call[s].endpoint
    BY <1>1 DEF CallType
  <2>2. call' = [call EXCEPT ![s] = c]
    BY <1>1, <1>4 DEF TypeOK
  <2> HIDE DEF c
  <2>3. Carries(s, 0, SelfInfo)
    BY <1>1, <1>4, SilentCarries
  <2>4. UNCHANGED <<used, reused>>
    BY <1>4 DEF Silent
  <2> QED BY <1>1, <2>1, <2>2, <2>3, <2>4, SelfInfoTyped, NothingGood, PlaceKeeps
<1> QED BY <1>3, <1>4 DEF HandshakeTurn

\* A step that hears, or moves on, and sends nothing.
LEMMA HearKeeps ==
  ASSUME IInv, NEW s \in Sides, UNCHANGED <<time, used, reused>>,
         NEW c \in CallType, call' = [call EXCEPT ![s] = c],
         NEW snd \in SenderType, sender' = [sender EXCEPT ![s] = snd],
         NEW rcv \in ReceiverType, receiver' = [receiver EXCEPT ![s] = rcv],
         \A t \in Sides : t # s => (t \in raced <=> t \in raced'),
         raced \subseteq raced', raced' \subseteq Sides, WireTyped,
         \A t \in Sides :
           net'[t] \subseteq net[t] /\ Elems(queue'[t]) \subseteq Elems(queue[t]),
         c.endpoint = call[s].endpoint, c.last >= call[s].last,
         c.last # 0 => <<call[s].endpoint, c.last>> \in used[Other(s)],
         c.at \in {"media", "stopped"} => HasHeard(call[Other(s)], call[s].endpoint),
         HoldsAnswer(rcv, c.last),
         snd.at = "taking" \/ rcv.at = "taking" => c.at \in {"media", "stopped"},
         snd.at = "taking" => snd.frames < MaxFrames,
         c.next >= call[s].next,
         s \notin raced' =>
           /\ snd.at = "taking" => snd.seq = c.next /\ rcv.at = "idle"
           /\ rcv.at = "taking" => rcv.seq = c.next /\ snd.at = "idle"
  PROVE  IInv'
<1>1. /\ TypeOK /\ CountInv(s) /\ call[s] \in CallType /\ time' \in Nat
      /\ used[s] \subseteq Nat \X Nat /\ used' \in [Sides -> SUBSET (Nat \X Nat)] /\ reused' \subseteq Sides
  BY DEF IInv, TypeOK
<1>2. call'[s] = c /\ sender'[s] = snd /\ receiver'[s] = rcv
  BY <1>1 DEF TypeOK
<1>3. ASSUME s \notin raced'
      PROVE  s \notin reused' /\ UsedBelow(used'[s], c)
  <2>1. s \notin reused /\ \A x \in used[s] : x[1] = c.endpoint => x[2] < call[s].next
    BY <1>1, <1>3 DEF CountInv, UsedBelow
  <2>2. \A x \in used[s] : x[1] = c.endpoint => x[2] < c.next
    BY <1>1, <2>1 DEF CallType
  <2> QED BY <2>1, <2>2 DEF UsedBelow
<1>4. CountInv(s)'
  BY <1>1, <1>2, <1>3 DEF CountInv, NotPast
<1>5. Carries(s, 0, SelfInfo) /\ GoodAfter(Other(s), 0, SelfInfo)
  BY SelfInfoTyped, NothingGood DEF Carries
<1>7. /\ Later(call[s], c) /\ (c.last # 0 => <<c.endpoint, c.last>> \in used[Other(s)])
      /\ c.at \in {"media", "stopped"} => HasHeard(call[Other(s)], c.endpoint)
  BY DEF Later
<1>6. used[s] \subseteq used'[s] /\ \A t \in Sides : t # s =>
        used'[t] = used[t] /\ (t \in raced <=> t \in raced') /\ (t \in reused <=> t \in reused')
  OBVIOUS
<1> QED BY <1>1, <1>4, <1>5, <1>6, <1>7, StepKeeps

\* What Receive in the handshake leaves of the numbers.
LEMMA ReceivePreserves ==
  ASSUME IInv, NEW s \in Sides, ReceiveInHandshake(s)
  PROVE  IInv'
<1> DEFINE d == FirstOf(queue[s])
           heard == IF Decodes(d) THEN Heard(call[s].last, d) ELSE call[s].last
           c0 == [call[s] EXCEPT !.last = heard]
<1>1. /\ TypeOK /\ HeardInv(s) /\ call[s] \in CallType /\ call[s].at = "receive"
      /\ sender[s] \in SenderType /\ receiver[s] \in ReceiverType
      /\ UNCHANGED <<time, sender, receiver, raced>>
      /\ sender[s].at = "idle" /\ receiver[s].at = "idle"
      /\ \A n : HoldsAnswer(receiver[s], n)
      /\ HasMatch(queue[s]) /\ raced \subseteq Sides
  BY LoopsIdle DEF IInv, TypeOK, ReceiveInHandshake
<1>2. /\ sender' = [sender EXCEPT ![s] = sender[s]]
      /\ receiver' = [receiver EXCEPT ![s] = receiver[s]]
  BY <1>1 DEF TypeOK
<1>3. /\ Received(s) \in [Sides -> Seq(Datagrams)] /\ InOrder(s) \in [Sides -> Seq(Datagrams)]
      /\ \A t \in Sides : Elems(Received(s)[t]) \subseteq Elems(queue[t])
      /\ d \in Elems(queue[s]) /\ d \in Datagrams
  BY <1>1, ReceivedTyped
<1> HIDE DEF d
<1>4. InHandshake(s, d)
  BY DEF ReceiveInHandshake, d
<1>5. /\ Heard(call[s].last, d) \in Nat /\ Heard(call[s].last, d) >= call[s].last
      /\ Heard(call[s].last, d) # 0 =>
           <<call[s].endpoint, Heard(call[s].last, d)>> \in used[Other(s)]
      /\ d.kind \in DOMAIN AnswerTo => Heard(call[s].last, d) > 0
      /\ d.kind = "initAck" => HasHeard(call[Other(s)], call[s].endpoint)
  BY <1>3, HeardGood
<1>6. /\ call[s].last \in Nat
      /\ call[s].last # 0 => <<call[s].endpoint, call[s].last>> \in used[Other(s)]
  BY <1>1 DEF HeardInv, CallType
<1>7. /\ heard \in Nat /\ heard >= call[s].last
      /\ heard # 0 => <<call[s].endpoint, heard>> \in used[Other(s)]
      /\ d.kind \in DOMAIN AnswerTo => heard > 0
  BY <1>5, <1>6 DEF Decodes, AnswerTo
<1> HIDE DEF heard
<1>8. /\ c0 \in CallType /\ c0.last = heard /\ c0.next = call[s].next
      /\ c0.at = "receive" /\ c0.next \in Nat /\ c0.next # 0
      /\ c0.endpoint = call[s].endpoint
  BY <1>1, <1>7 DEF CallType
<1> HIDE DEF c0
<1>9. CASE d.kind \in DOMAIN AnswerTo
  <2> DEFINE c == [c0 EXCEPT !.at = "loop", !.next = NextSequence(@)]
             p == BuildControlPacket(AnswerTo[d.kind], c0.next, heard, 0)
  <2>1. /\ call' = [call EXCEPT ![s] = c]
        /\ Emit(s, p, Received(s), InOrder(s))
    BY <1>4, <1>9 DEF InHandshake, heard, c0
  <2>2. AnswerTo[d.kind] \in {"initAck", "pong"} /\ AnswerTo[d.kind] \in Kinds
        /\ AnswerTo[d.kind] \notin DOMAIN AnswerTo
    BY <1>9 DEF AnswerTo, Kinds
  <2>3. p \in Datagrams /\ p.kind = AnswerTo[d.kind] /\ p.seq = c0.next /\ p.ack = heard
    <3>1. 0 \in 0 .. MaxFrames
      BY BoundsAssumption
    <3>2. c0.next \in Nat /\ heard \in Nat
      BY <1>7, <1>8
    <3> QED BY <2>2, <3>1, <3>2, PacketTyped
  <2>4. /\ c \in CallType /\ c.at = "loop" /\ c.next = c0.next + 1 /\ c.last = heard
        /\ c.endpoint = call[s].endpoint
    <3>1. NextSequence(c0.next) \in Numbers /\ "loop" \in Places
      BY <1>8 DEF NextSequence, Numbers, Places
    <3>2. c0 \in CallShape
      BY <1>8, ShapeIsType
    <3>3. /\ c \in CallShape /\ c.at = "loop" /\ c.next = NextSequence(c0.next)
          /\ c.last = c0.last /\ c.endpoint = c0.endpoint
      BY <3>1, <3>2 DEF CallShape
    <3> QED BY <3>3, <1>8, ShapeIsType DEF NextSequence
  <2> HIDE DEF c, p
  <2>5. Sends(s, p)
    BY <1>1, <1>3, <2>1, <2>3, EmitSends
  <2>6. /\ c.next = p.seq + 1 /\ p.ack = c.last
        /\ p.kind = "initAck" => c.last > 0
        /\ p.kind \in DOMAIN AnswerTo => p.seq # 0
    BY <1>7, <1>8, <1>9, <2>2, <2>3, <2>4
  <2>7. /\ c.last >= call[s].last
        /\ c.last # 0 => <<call[s].endpoint, c.last>> \in used[Other(s)]
    BY <1>7, <2>4
  <2>8. c.at \notin {"media", "stopped"} /\ p.seq = call[s].next
    BY <1>8, <2>3, <2>4
  <2>9. UNCHANGED <<time, raced>> /\ call' = [call EXCEPT ![s] = c]
        /\ sender[s].at # "taking" /\ receiver[s].at # "taking"
        /\ HoldsAnswer(receiver[s], c.last)
    BY <1>1, <2>1
  <2> QED BY <1>1, <1>2, <2>3, <2>4, <2>5, <2>6, <2>7, <2>8, <2>9, SendKeeps
<1>10. CASE d.kind \notin DOMAIN AnswerTo
  <2> DEFINE c == CASE OffersOpus(d) -> Completed(c0)
                    [] d.kind = "noOpus"  -> [c0 EXCEPT !.at = "refused"]
                    [] OTHER -> [c0 EXCEPT !.at = "loop"]
  <2>1. call' = [call EXCEPT ![s] = c] /\ Silent(Received(s), InOrder(s))
    BY <1>4, <1>10 DEF InHandshake, heard, c0
  <2>2. /\ c \in CallType /\ c.next = c0.next /\ c.last = heard
        /\ c.endpoint = call[s].endpoint
        /\ c.at # "stopped" /\ (c.at = "media" => d.kind = "initAck")
    <3>1. CASE OffersOpus(d)
      <4>1. /\ Completed(c0) \in CallType /\ Completed(c0).at = "media"
            /\ Completed(c0).next = c0.next /\ Completed(c0).last = c0.last
            /\ Completed(c0).endpoint = c0.endpoint
        BY <1>8, CompletedTyped
      <4>2. d.kind = "initAck" /\ c = Completed(c0)
        BY <3>1 DEF OffersOpus
      <4> QED BY <1>8, <4>1, <4>2
    <3>2. CASE ~OffersOpus(d) /\ d.kind = "noOpus"
      <4>1. c = [c0 EXCEPT !.at = "refused"]
        BY <3>2
      <4> QED BY <1>8, <4>1 DEF CallType
    <3>3. CASE ~OffersOpus(d) /\ d.kind # "noOpus"
      <4>1. c = [c0 EXCEPT !.at = "loop"]
        BY <3>3
      <4> QED BY <1>8, <4>1 DEF CallType
    <3> QED BY <3>1, <3>2, <3>3
  <2> HIDE DEF c
  <2>3. /\ queue' = Received(s) /\ order' = InOrder(s)
        /\ UNCHANGED <<net, used, reused, faults>>
    BY <2>1 DEF Silent
  <2>4. WireTyped /\ \A t \in Sides :
          net'[t] \subseteq net[t] /\ Elems(queue'[t]) \subseteq Elems(queue[t])
    BY <1>1, <1>3, <2>3 DEF WireTyped, TypeOK
  <2>5. c.at \in {"media", "stopped"} => HasHeard(call[Other(s)], call[s].endpoint)
    BY <1>5, <2>2
  <2>6. c.next >= call[s].next /\ c.last >= call[s].last
        /\ (c.last # 0 => <<call[s].endpoint, c.last>> \in used[Other(s)])
    BY <1>7, <1>8, <2>2
  <2> QED BY <1>1, <1>2, <2>1, <2>2, <2>3, <2>4, <2>5, <2>6, HearKeeps
<1> QED BY <1>9, <1>10

-------------------------------------------------------------------------------
(* The media loops.                                                         *)

\* The send loop reads the counter.
LEMMA TakePreserves ==
  ASSUME IInv, NEW s \in Sides, TakeForFrame(s)
  PROVE  IInv'
<1> DEFINE snd == [sender[s] EXCEPT !.at = "taking", !.seq = call[s].next]
<1>1. /\ TypeOK /\ HeardInv(s) /\ call[s] \in CallType /\ call[s].at = "media"
      /\ sender[s] \in SenderType /\ receiver[s] \in ReceiverType
      /\ raced \subseteq Sides
      /\ UNCHANGED <<time, call, receiver, queue, net, faults, order, used, reused>>
      /\ Races(s)
  BY DEF IInv, TypeOK, TakeForFrame
<1>14. sender[s].frames < MaxFrames
  <2>1. sender[s].frames \in Nat /\ sender[Other(s)].frames \in Nat
    BY <1>1, OtherProperties, BoundsAssumption DEF TypeOK, SenderType
  <2>2. Begun(s) + Begun(Other(s)) < MaxFrames /\ sender[s].at # "taking"
    BY DEF TakeForFrame
  <2>3. Begun(s) = sender[s].frames /\ Begun(Other(s)) \in Nat
    BY <2>1, <2>2 DEF Begun
  <2> QED BY <2>1, <2>2, <2>3, BoundsAssumption
<1>2. /\ snd \in SenderType /\ snd.at = "taking" /\ snd.seq = call[s].next
      /\ snd.frames = sender[s].frames
  BY <1>1 DEF SenderType, CallType
<1>3. /\ sender' = [sender EXCEPT ![s] = snd] /\ sender'[s] = snd
      /\ receiver' = [receiver EXCEPT ![s] = receiver[s]]
      /\ call' = [call EXCEPT ![s] = call[s]]
  BY <1>1 DEF TypeOK, TakeForFrame
<1> HIDE DEF snd
<1>4. receiver[s].at = "taking" => s \in raced'
  BY <1>1, <1>2, <1>3 DEF Races
<1>5. /\ raced \subseteq raced' /\ raced' \subseteq Sides
      /\ \A t \in Sides : t # s => (t \in raced <=> t \in raced')
  BY <1>1 DEF Races
<1>6. WireTyped /\ \A t \in Sides :
        net'[t] \subseteq net[t] /\ Elems(queue'[t]) \subseteq Elems(queue[t])
  BY <1>1 DEF WireTyped, TypeOK
<1>7. call[s].last >= call[s].last /\ call[s].next >= call[s].next
  BY <1>1 DEF CallType
<1>8. /\ call[s].last # 0 => <<call[s].endpoint, call[s].last>> \in used[Other(s)]
      /\ call[s].at \in {"media", "stopped"} => HasHeard(call[Other(s)], call[s].endpoint)
      /\ HoldsAnswer(receiver[s], call[s].last)
  BY <1>1 DEF HeardInv
<1>9. receiver[s].at = "taking" \/ receiver[s].at = "idle"
  BY <1>1 DEF ReceiverType
<1>10. s \notin raced' => receiver[s].at = "idle"
  BY <1>4, <1>9
<1>11. s \notin raced' =>
         /\ snd.at = "taking" => snd.seq = call[s].next /\ receiver[s].at = "idle"
         /\ receiver[s].at = "taking" => receiver[s].seq = call[s].next /\ snd.at = "idle"
  BY <1>2, <1>10
<1>12. snd.at = "taking" \/ receiver[s].at = "taking" => call[s].at \in {"media", "stopped"}
  BY <1>1
<1>13. snd.at = "taking" => snd.frames < MaxFrames
  BY <1>2, <1>14
<1> QED BY <1>1, <1>2, <1>3, <1>5, <1>6, <1>7, <1>8, <1>11, <1>12, <1>13, HearKeeps

\* What the second half of TakeNextSequence, made with the number m, leaves.
LEMMA CountedOn ==
  ASSUME TypeOK, NEW s \in Sides, NEW m \in Nat, call' = [call EXCEPT ![s].next = NextSequence(m)]
  PROVE  \E c \in CallType :
           /\ call' = [call EXCEPT ![s] = c]
           /\ c.next = m + 1 /\ c.last = call[s].last /\ c.at = call[s].at
           /\ c.endpoint = call[s].endpoint
           /\ c.last \in Nat /\ c.last >= call[s].last
<1> DEFINE c == [call[s] EXCEPT !.next = m + 1]
<1>1. /\ call[s] \in CallType /\ m + 1 \in Nat \ {0}
      /\ call' = [call EXCEPT ![s].next = m + 1] /\ call[s].last \in Nat
  BY DEF TypeOK, CallType, NextSequence
<1>2. /\ c \in CallType /\ c.next = m + 1 /\ c.last = call[s].last /\ c.at = call[s].at
      /\ c.endpoint = call[s].endpoint
      /\ call' = [call EXCEPT ![s] = c]
  BY <1>1 DEF CallType, TypeOK
<1> HIDE DEF c
<1>3. c.last >= call[s].last /\ c.last \in Nat
  BY <1>1, <1>2
<1> QED BY <1>2, <1>3

\* SendFrame and SendAnswer once the loop has made its send, or found the session closed.
LEMMA LoopKeeps ==
  ASSUME IInv, NEW s \in Sides, UNCHANGED <<time, raced>>, NEW m \in Nat,
         call' = [call EXCEPT ![s].next = NextSequence(m)],
         NEW snd \in SenderType, sender' = [sender EXCEPT ![s] = snd],
         NEW rcv \in ReceiverType, receiver' = [receiver EXCEPT ![s] = rcv],
         call[s].at \in {"media", "stopped"},
         rcv.at = "taking" => receiver[s] = rcv,
         snd.at = "taking" => sender[s] = snd,
         s \notin raced => m = call[s].next /\ snd.at = "idle" /\ rcv.at = "idle",
         NEW kind \in {"stream", "initAck", "pong"}, NEW n \in 0..MaxFrames,
         kind = "initAck" => call[s].last > 0,
         \/ Emit(s, BuildControlPacket(kind, m, call[s].last, n), queue, order)
         \/ Silent(queue, order)
  PROVE  IInv'
<1> DEFINE p == BuildControlPacket(kind, m, call[s].last, n)
<1>1. /\ TypeOK /\ HeardInv(s) /\ CountInv(s) /\ call[s] \in CallType
      /\ queue \in [Sides -> Seq(Datagrams)] /\ order \in [Sides -> Seq(Datagrams)]
      /\ raced \subseteq Sides /\ call[s].last \in Nat /\ call[s].next \in Nat
      /\ kind \in Kinds
  BY DEF IInv, TypeOK, CallType, Kinds
<1>2. PICK c \in CallType : 
           /\ call' = [call EXCEPT ![s] = c]
           /\ c.next = m + 1 /\ c.last = call[s].last /\ c.at = call[s].at
           /\ c.endpoint = call[s].endpoint
           /\ c.last \in Nat /\ c.last >= call[s].last
  BY <1>1, CountedOn
<1>3. /\ p \in Datagrams /\ p.kind = kind /\ p.seq = m /\ p.ack = call[s].last
  BY <1>1, PacketTyped
<1> HIDE DEF p
<1>4. /\ c.last # 0 => <<call[s].endpoint, c.last>> \in used[Other(s)]
      /\ c.at \in {"media", "stopped"} => HasHeard(call[Other(s)], call[s].endpoint)
      /\ HoldsAnswer(rcv, c.last)
      /\ snd.at = "taking" \/ rcv.at = "taking" => c.at \in {"media", "stopped"}
      /\ snd.at = "taking" => snd.frames < MaxFrames
  BY <1>1, <1>2 DEF HeardInv, HoldsAnswer
<1>5. CASE Emit(s, p, queue, order)
  <2>1. Sends(s, p)
    BY <1>1, <1>3, <1>5, EmitSends
  <2>2. /\ p.kind \notin DOMAIN AnswerTo /\ c.next = p.seq + 1 /\ p.ack = c.last
        /\ p.kind = "initAck" => c.last > 0
    BY <1>2, <1>3 DEF AnswerTo
  <2>3. s \notin raced => p.seq = call[s].next /\ snd.at = "idle" /\ rcv.at = "idle"
    BY <1>3
  <2> QED BY <1>2, <1>3, <1>4, <2>1, <2>2, <2>3, SendKeeps
<1>6. CASE Silent(queue, order)
  <2>1. /\ UNCHANGED <<queue, order, net, used, reused, faults>>
        /\ time' \in Nat /\ used' \in [Sides -> SUBSET (Nat \X Nat)] /\ reused' \subseteq Sides
        /\ raced' \subseteq Sides
    BY <1>1, <1>6 DEF Silent, TypeOK
  <2>2. call'[s] = c /\ sender'[s] = snd /\ receiver'[s] = rcv
    BY <1>1, <1>2 DEF TypeOK
  <2>3. ASSUME s \notin raced
        PROVE  s \notin reused /\ UsedBelow(used[s], c)
    <3>1. s \notin reused /\ \A k \in used[s] : k[1] = c.endpoint => k[2] < call[s].next
      BY <1>1, <1>2, <2>3 DEF CountInv, UsedBelow
    <3>2. c.next = call[s].next + 1 /\ used[s] \subseteq Nat \X Nat
      BY <1>1, <1>2, <2>3 DEF TypeOK
    <3>3. ASSUME NEW k \in used[s], k[1] = c.endpoint
          PROVE  k[2] < c.next
      <4>1. k[2] \in Nat /\ k[2] < call[s].next
        BY <3>1, <3>2, <3>3
      <4> QED BY <1>1, <3>2, <4>1
    <3> QED BY <3>1, <3>3 DEF UsedBelow
  <2>4. CountInv(s)'
    BY <1>1, <1>2, <2>1, <2>2, <2>3 DEF CountInv, NotPast
  <2>7. /\ Later(call[s], c) /\ (c.last # 0 => <<c.endpoint, c.last>> \in used[Other(s)])
        /\ c.at \in {"media", "stopped"} => HasHeard(call[Other(s)], c.endpoint)
    BY <1>2, <1>4 DEF Later
  <2>5. Carries(s, 0, SelfInfo) /\ GoodAfter(Other(s), 0, SelfInfo)
    BY <1>1, <1>6, SilentCarries, SelfInfoTyped, NothingGood
  <2>6. used[s] \subseteq used'[s] /\ \A t \in Sides : t # s =>
          used'[t] = used[t] /\ (t \in raced <=> t \in raced') /\ (t \in reused <=> t \in reused')
    BY <2>1
  <2> QED BY <1>2, <1>4, <2>1, <2>4, <2>5, <2>6, <2>7, StepKeeps
<1> QED BY <1>5, <1>6 DEF p

\* The send loop's frame goes out.
LEMMA SendFramePreserves ==
  ASSUME IInv, NEW s \in Sides, SendFrame(s)
  PROVE  IInv'
<1>1. /\ TypeOK /\ HeardInv(s) /\ CountInv(s) /\ sender[s].at = "taking"
      /\ sender[s] \in SenderType /\ receiver[s] \in ReceiverType
      /\ sender \in [Sides -> SenderType]
      /\ sender[s].seq \in Nat /\ sender[s].frames \in 0..MaxFrames
      /\ call' = [call EXCEPT ![s].next = NextSequence(sender[s].seq)]
      /\ UNCHANGED <<time, receiver, raced>>
  BY DEF IInv, TypeOK, SenderType, SendFrame
<1>2. receiver' = [receiver EXCEPT ![s] = receiver[s]]
  BY <1>1 DEF TypeOK
<1>3. /\ call[s].at \in {"media", "stopped"} /\ sender[s].frames < MaxFrames
      /\ s \notin raced => sender[s].seq = call[s].next /\ receiver[s].at = "idle"
  BY <1>1 DEF HeardInv, CountInv
<1>4. PICK f \in 0..MaxFrames :
         sender' = [sender EXCEPT ![s].at = "idle", ![s].frames = f]
  <2>1. sender[s].frames + 1 \in 0..MaxFrames
    BY <1>1, <1>3, BoundsAssumption
  <2>2. CASE call[s].at = "media"
    <3>1. sender' = [sender EXCEPT ![s].at = "idle", ![s].frames = sender[s].frames + 1]
      BY <2>2 DEF SendFrame
    <3> QED BY <2>1, <3>1
  <2>3. CASE call[s].at # "media"
    <3>1. sender' = [sender EXCEPT ![s].at = "idle"]
      BY <2>3 DEF SendFrame
    <3>2. sender' = [sender EXCEPT ![s].at = "idle", ![s].frames = sender[s].frames]
      BY <1>1, <3>1 DEF SenderType
    <3> QED BY <1>1, <3>2
  <2> QED BY <2>2, <2>3
<1> DEFINE snd == [sender[s] EXCEPT !.at = "idle", !.frames = f]
<1>5. snd \in SenderType /\ snd.at = "idle" /\ sender' = [sender EXCEPT ![s] = snd]
  BY <1>1, <1>4 DEF SenderType
<1> HIDE DEF snd
<1>6. \/ Emit(s, BuildControlPacket("stream", sender[s].seq, call[s].last, sender[s].frames),
              queue, order)
      \/ Silent(queue, order)
  BY DEF SendFrame, AudioPacket
<1>7. s \notin raced =>
        sender[s].seq = call[s].next /\ snd.at = "idle" /\ receiver[s].at = "idle"
  BY <1>3, <1>5
<1> QED BY <1>1, <1>2, <1>3, <1>5, <1>6, <1>7, LoopKeeps

\* The receive loop's answer goes out.
LEMMA SendAnswerPreserves ==
  ASSUME IInv, NEW s \in Sides, SendAnswer(s)
  PROVE  IInv'
<1> DEFINE rcv == [receiver[s] EXCEPT !.at = "idle"]
<1>1. /\ TypeOK /\ HeardInv(s) /\ CountInv(s) /\ receiver[s].at = "taking"
      /\ sender[s] \in SenderType /\ receiver[s] \in ReceiverType
      /\ receiver[s].seq \in Nat
      /\ call' = [call EXCEPT ![s].next = NextSequence(receiver[s].seq)]
      /\ UNCHANGED <<time, sender, raced>>
  BY DEF IInv, TypeOK, ReceiverType, SendAnswer
<1>2. sender' = [sender EXCEPT ![s] = sender[s]]
  BY <1>1 DEF TypeOK
<1>3. rcv \in ReceiverType /\ rcv.at = "idle" /\ receiver' = [receiver EXCEPT ![s] = rcv]
  BY <1>1 DEF ReceiverType, SendAnswer, TypeOK
<1> HIDE DEF rcv
<1>4. /\ call[s].at \in {"media", "stopped"}
      /\ receiver[s].kind \in {"initAck", "pong"}
      /\ receiver[s].kind = "initAck" => call[s].last > 0
      /\ s \notin raced => receiver[s].seq = call[s].next /\ sender[s].at = "idle"
  BY <1>1 DEF HeardInv, CountInv, HoldsAnswer
<1>5. CASE call[s].at = "media"
  <2>1. Emit(s, BuildControlPacket(receiver[s].kind, receiver[s].seq, call[s].last, 0),
             queue, order)
    BY <1>5 DEF SendAnswer
  <2>2. receiver[s].kind \in {"stream", "initAck", "pong"} /\ 0 \in 0..MaxFrames
    BY <1>4, BoundsAssumption
  <2> QED BY <1>1, <1>2, <1>3, <1>4, <2>1, <2>2, LoopKeeps
<1>6. CASE call[s].at # "media"
  <2>1. Silent(queue, order)
    BY <1>6 DEF SendAnswer
  <2>2. 0 \in 0..MaxFrames /\ "pong" \in {"stream", "initAck", "pong"}
    BY BoundsAssumption
  <2> QED BY <1>1, <1>2, <1>3, <1>4, <2>1, <2>2, LoopKeeps
<1> QED BY <1>5, <1>6

\* The receive loop takes a datagram.
LEMMA MediaPreserves ==
  ASSUME IInv, NEW s \in Sides, ReceiveInMedia(s)
  PROVE  IInv'
<1> DEFINE d == FirstOf(queue[s])
           c == IF Decodes(d) THEN [call[s] EXCEPT !.last = Heard(call[s].last, d)] ELSE call[s]
           rcv == IF ~Answered(d) THEN receiver[s]
                  ELSE [at |-> "taking", seq |-> call[s].next, kind |-> AnswerTo[d.kind]]
<1>1. /\ TypeOK /\ HeardInv(s) /\ CountInv(s) /\ call[s] \in CallType
      /\ call[s].at = "media" /\ receiver[s].at = "idle"
      /\ sender[s] \in SenderType /\ receiver[s] \in ReceiverType
      /\ sender \in [Sides -> SenderType] /\ call[s].next \in Nat
      /\ UNCHANGED <<time, sender, net, faults, used, reused>>
      /\ HasMatch(queue[s]) /\ raced \subseteq Sides /\ Races(s)
      /\ queue' = Received(s) /\ order' = InOrder(s)
  BY DEF IInv, TypeOK, ReceiveInMedia, CallType
<1>2. /\ Received(s) \in [Sides -> Seq(Datagrams)] /\ InOrder(s) \in [Sides -> Seq(Datagrams)]
      /\ \A t \in Sides : Elems(Received(s)[t]) \subseteq Elems(queue[t])
      /\ d \in Elems(queue[s]) /\ d \in Datagrams
  BY <1>1, ReceivedTyped
<1>3. /\ call' = [call EXCEPT ![s] = c] /\ receiver' = [receiver EXCEPT ![s] = rcv]
      /\ sender' = [sender EXCEPT ![s] = sender[s]]
  BY <1>1 DEF ReceiveInMedia, TypeOK
<1> HIDE DEF d
<1>4. /\ Heard(call[s].last, d) \in Nat /\ Heard(call[s].last, d) >= call[s].last
      /\ Heard(call[s].last, d) # 0 =>
           <<call[s].endpoint, Heard(call[s].last, d)>> \in used[Other(s)]
      /\ d.kind \in DOMAIN AnswerTo => Heard(call[s].last, d) > 0
  BY <1>2, HeardGood
<1>5. /\ call[s].last \in Nat
      /\ call[s].last # 0 => <<call[s].endpoint, call[s].last>> \in used[Other(s)]
      /\ HasHeard(call[Other(s)], call[s].endpoint)
  BY <1>1 DEF HeardInv, CallType
<1>6. /\ c \in CallType /\ c.at = "media" /\ c.next = call[s].next
      /\ c.endpoint = call[s].endpoint
      /\ c.last = IF Decodes(d) THEN Heard(call[s].last, d) ELSE call[s].last
  <2>1. CASE Decodes(d)
    BY <1>1, <1>4, <2>1 DEF CallType
  <2>2. CASE ~Decodes(d)
    BY <1>1, <2>2
  <2> QED BY <2>1, <2>2
<1>7. /\ c.last >= call[s].last
      /\ c.last # 0 => <<call[s].endpoint, c.last>> \in used[Other(s)]
      /\ d.kind \in DOMAIN AnswerTo => c.last > 0
  BY <1>4, <1>5, <1>6 DEF Decodes, AnswerTo
<1>8. /\ rcv \in ReceiverType /\ HoldsAnswer(rcv, c.last)
      /\ rcv.at = "taking" => rcv.seq = call[s].next
  <2>1. CASE Answered(d)
    <3>1. rcv = [at |-> "taking", seq |-> call[s].next, kind |-> AnswerTo[d.kind]]
      BY <2>1
    <3>2. d.kind \in DOMAIN AnswerTo /\ AnswerTo[d.kind] \in {"initAck", "pong"}
      BY <2>1 DEF Answered, AnswerTo
    <3> HIDE DEF c
    <3> QED BY <1>1, <1>7, <3>1, <3>2 DEF ReceiverType, HoldsAnswer
  <2>2. CASE ~Answered(d)
    BY <1>1, <2>2 DEF HoldsAnswer
  <2> QED BY <2>1, <2>2
<1> HIDE DEF c, rcv
<1>9. /\ sender'[s] = sender[s] /\ receiver'[s] = rcv
      /\ sender[s].at \in {"idle", "taking"} /\ rcv.at \in {"idle", "taking"}
  BY <1>1, <1>3, <1>8 DEF TypeOK, SenderType, ReceiverType
<1>10. s \notin raced' => s \notin raced /\ ~(sender[s].at = "taking" /\ rcv.at = "taking")
  BY <1>1, <1>9 DEF Races
<1>11. s \notin raced' =>
         /\ sender[s].at = "taking" => sender[s].seq = c.next /\ rcv.at = "idle"
         /\ rcv.at = "taking" => rcv.seq = c.next /\ sender[s].at = "idle"
  BY <1>1, <1>6, <1>8, <1>9, <1>10 DEF CountInv
<1>12. /\ raced \subseteq raced' /\ raced' \subseteq Sides
       /\ \A t \in Sides : t # s => (t \in raced <=> t \in raced')
  BY <1>1 DEF Races
<1>13. WireTyped /\ \A t \in Sides :
         net'[t] \subseteq net[t] /\ Elems(queue'[t]) \subseteq Elems(queue[t])
  BY <1>1, <1>2 DEF WireTyped, TypeOK
<1>14. sender[s].at = "taking" => sender[s].frames < MaxFrames
  BY <1>1 DEF HeardInv
<1>15. c.next >= call[s].next /\ c.at \in {"media", "stopped"}
  BY <1>1, <1>6
<1> QED BY <1>1, <1>3, <1>5, <1>6, <1>7, <1>8, <1>11, <1>12, <1>13, <1>14, <1>15, HearKeeps

-------------------------------------------------------------------------------
(* The network, pings and time.                                             *)

\* A delayed datagram arrives.
LEMMA DelayedPreserves ==
  ASSUME IInv, NEW s \in Sides, MessageReceived(s)
  PROVE  IInv'
<1>1. /\ TypeOK /\ call[s] \in CallType /\ time' \in Nat /\ faults' \in 0..MaxFaults
      /\ UNCHANGED <<time, call, sender, receiver, faults, used, reused, raced>>
      /\ queue \in [Sides -> Seq(Datagrams)] /\ order \in [Sides -> Seq(Datagrams)]
      /\ net \in [Sides -> SUBSET (Nat \X Datagrams)]
  BY DEF IInv, TypeOK, MessageReceived, history
<1>2. PICK m \in net[s] :
        net' = [net EXCEPT ![s] = @ \ {m}] /\ Arrives(s, m[1], m[2], queue, order)
  BY DEF MessageReceived
<1> DEFINE e == m[1]
           d == m[2]
<1>3. /\ e \in Nat /\ d \in Datagrams /\ Arrives(s, e, d, queue, order)
      /\ Other(s) \in Sides /\ Other(Other(s)) = s /\ GoodTo(s, e, d)
  BY <1>1, <1>2, OtherProperties DEF IInv, NetInv
<1>4. net' \in [Sides -> SUBSET (Nat \X Datagrams)] /\ \A t \in Sides : net'[t] \subseteq net[t]
  BY <1>1, <1>2
<1> HIDE DEF e, d
<1>5. /\ queue' \in [Sides -> Seq(Datagrams)] /\ order' \in [Sides -> Seq(Datagrams)]
      /\ \A t \in Sides : \A x \in Elems(queue'[t]) :
           x \in Elems(queue[t]) \/ (t = s /\ x = d /\ call[t].endpoint = e)
  BY <1>1, <1>3, ArrivesKeeps
<1>6. Carries(Other(s), e, d) /\ GoodAfter(Other(Other(s)), e, d)
  BY <1>1, <1>3, <1>4, <1>5 DEF Carries, WireTyped, GoodTo, GoodAfter
<1>7. call' = [call EXCEPT ![s] = call[s]]
  BY <1>1 DEF TypeOK
<1> QED BY <1>1, <1>3, <1>6, <1>7, PlaceKeeps

\* A foreign or garbled datagram arrives.
LEMMA StrayPreserves ==
  ASSUME IInv, NEW s \in Sides, NEW kind \in {"foreign", "garbled", "noOpus"}, Stray(s, kind)
  PROVE  IInv'
<1> DEFINE d == Datagram(kind, 0, 0, 0)
           e == call[s].endpoint
<1>1. /\ TypeOK /\ call[s] \in CallType /\ time' \in Nat /\ faults' \in 0..MaxFaults
      /\ UNCHANGED <<time, call, sender, receiver, net, used, reused, raced>>
      /\ queue \in [Sides -> Seq(Datagrams)] /\ order \in [Sides -> Seq(Datagrams)]
      /\ Arrives(s, e, d, queue, order)
  BY BoundsAssumption DEF IInv, TypeOK, Stray, history
<1>2. /\ d \in Datagrams /\ d.seq = 0 /\ d.ack = 0 /\ d.kind = kind
      /\ d.kind \notin {"initAck", "init", "ping"}
  BY BoundsAssumption DEF Datagram, Datagrams, Kinds
<1> HIDE DEF d
<1> HIDE DEF e
<1>3. /\ queue' \in [Sides -> Seq(Datagrams)] /\ order' \in [Sides -> Seq(Datagrams)]
      /\ \A t \in Sides : \A x \in Elems(queue'[t]) :
           x \in Elems(queue[t]) \/ (t = s /\ x = d /\ call[t].endpoint = e)
  <2>1. /\ queue \in [Sides -> Seq(Datagrams)] /\ order \in [Sides -> Seq(Datagrams)]
        /\ d \in Datagrams /\ Arrives(s, e, d, queue, order)
    BY <1>1, <1>2
  <2> QED BY <2>1, ArrivesKeeps
<1>4. /\ Other(s) \in Sides /\ Other(Other(s)) = s /\ GoodAfter(s, e, d)
  BY <1>2, OtherProperties, NothingGood
<1>5. Carries(Other(s), e, d)
  BY <1>1, <1>3, <1>4 DEF Carries, WireTyped, TypeOK
<1>6. call' = [call EXCEPT ![s] = call[s]]
  BY <1>1 DEF TypeOK
<1> QED BY <1>1, <1>4, <1>5, <1>6, PlaceKeeps

\* A side sends a ping to the other.
LEMMA PingPreserves ==
  ASSUME IInv, NEW s \in Sides, Ping(s)
  PROVE  IInv'
<1> DEFINE p == BuildControlPacket("ping", call[s].next, call[s].last, 0)
           e == call[s].endpoint
<1>1. /\ TypeOK /\ HeardInv(s) /\ call[s] \in CallType
      /\ sender[s] \in SenderType /\ receiver[s] \in ReceiverType
      /\ sender[s].at = "idle" /\ receiver[s].at = "idle"
      /\ UNCHANGED <<time, sender, receiver, net, reused, raced>>
      /\ used' = [used EXCEPT ![s] = @ \cup {<<e, call[s].next>>}]
      /\ call' = [call EXCEPT ![s].next = NextSequence(call[s].next)]
      /\ queue \in [Sides -> Seq(Datagrams)] /\ order \in [Sides -> Seq(Datagrams)]
      /\ Arrives(Other(s), e, p, queue, order) /\ Other(s) \in Sides
      /\ call[s].next \in Nat /\ call[s].next # 0 /\ call[s].last \in Nat
  BY OtherProperties DEF IInv, TypeOK, Ping, CallType
<1>2. faults' \in 0..MaxFaults
  <2>1. faults \in 0..MaxFaults /\ faults < MaxFaults /\ faults' = faults + 1
    BY DEF IInv, TypeOK, Ping
  <2> QED BY <2>1, BoundsAssumption
<1>3. /\ p \in Datagrams /\ p.kind = "ping" /\ p.seq = call[s].next /\ p.ack = call[s].last
  <2>1. "ping" \in Kinds /\ 0 \in 0..MaxFrames
    BY BoundsAssumption DEF Kinds
  <2>2. call[s].next \in Nat /\ call[s].last \in Nat
    BY <1>1
  <2> QED BY <2>1, <2>2, PacketTyped
<1> HIDE DEF p
<1> HIDE DEF e
<1>4. /\ queue' \in [Sides -> Seq(Datagrams)] /\ order' \in [Sides -> Seq(Datagrams)]
      /\ \A t \in Sides : \A x \in Elems(queue'[t]) :
           x \in Elems(queue[t]) \/ (t = Other(s) /\ x = p /\ call[t].endpoint = e)
  <2>1. /\ queue \in [Sides -> Seq(Datagrams)] /\ order \in [Sides -> Seq(Datagrams)]
        /\ p \in Datagrams /\ Arrives(Other(s), e, p, queue, order) /\ Other(s) \in Sides
    BY <1>1, <1>3
  <2> QED BY <2>1, ArrivesKeeps
<1>5. Carries(s, e, p)
  BY <1>1, <1>4, <1>2 DEF Carries, WireTyped, TypeOK
<1>6. Sends(s, p)
  BY <1>1, <1>3, <1>5 DEF Sends, e
<1>7. PICK c \in CallType :
           /\ call' = [call EXCEPT ![s] = c]
           /\ c.next = call[s].next + 1 /\ c.last = call[s].last /\ c.at = call[s].at
           /\ c.endpoint = call[s].endpoint
           /\ c.last \in Nat /\ c.last >= call[s].last
  BY <1>1, CountedOn
<1>8. /\ sender' = [sender EXCEPT ![s] = sender[s]]
      /\ receiver' = [receiver EXCEPT ![s] = receiver[s]]
  BY <1>1 DEF TypeOK
<1>9. /\ c.last # 0 => <<call[s].endpoint, c.last>> \in used[Other(s)]
      /\ c.at \in {"media", "stopped"} => HasHeard(call[Other(s)], call[s].endpoint)
      /\ HoldsAnswer(receiver[s], c.last)
      /\ p.kind \in DOMAIN AnswerTo => p.seq # 0
      /\ c.next = p.seq + 1 /\ p.ack = c.last
  BY <1>1, <1>3, <1>7 DEF HeardInv, HoldsAnswer
<1> QED BY <1>1, <1>3, <1>6, <1>7, <1>8, <1>9, SendKeeps

\* A slot of time passes.
LEMMA TickPreserves ==
  ASSUME IInv, Tick
  PROVE  IInv'
<1>1. /\ TypeOK /\ NetInv /\ call \in [Sides -> CallType]
      /\ UNCHANGED <<sender, receiver, queue, net, order, used, reused, raced>>
      /\ faults \in 0..MaxFaults
  BY DEF IInv, TypeOK, Tick, history
<1>2. faults' \in 0..MaxFaults
  <2>1. PICK k \in {0, 1} : faults + k <= MaxFaults /\ faults' = faults + k
    BY DEF Tick
  <2> QED BY <1>1, <2>1, BoundsAssumption
<1>3. time' \in Nat
  <2>1. time \in Nat /\ (time' = time \/ time' = time + 1)
    BY <1>1 DEF Tick, TypeOK
  <2> QED BY <2>1
<1>4. \A w \in Waits : Less(w) \in Waits
  BY TimingAssumption DEF Less, Waits
<1>5. \A w \in Slots : Less(w) \in Slots
  BY TimingAssumption DEF Less, Slots
<1>6. ASSUME NEW t \in Sides
      PROVE  /\ call'[t] \in CallType /\ call'[t].last = call[t].last
             /\ call'[t].next = call[t].next /\ call'[t].endpoint = call[t].endpoint
             /\ call'[t].at \in {"media", "stopped"} <=> call[t].at \in {"media", "stopped"}
  <2>1. call[t] \in CallShape
    BY <1>1, ShapeIsType
  <2>2. CASE call[t].at # "receive"
    <3>1. call'[t] = call[t]
      BY <1>1, <2>2 DEF Tick
    <3> QED BY <1>1, <3>1
  <2>3. CASE call[t].at = "receive"
    <3> DEFINE at == IF HasMatch(queue[t]) THEN "receive" ELSE "loop"
    <3>1. at \in Places /\ at \notin {"media", "stopped"}
      BY DEF Places
    <3>2. call'[t] = [call[t] EXCEPT !.at = at, !.left = Less(@), !.wait = Less(@)]
      BY <1>1, <2>3 DEF Tick
    <3> HIDE DEF at
    <3>3. Less(call[t].left) \in Slots /\ Less(call[t].wait) \in Waits
      BY <1>4, <1>5, <2>1 DEF CallShape
    <3>4. /\ call'[t] \in CallShape /\ call'[t].last = call[t].last
          /\ call'[t].next = call[t].next /\ call'[t].at = at
          /\ call'[t].endpoint = call[t].endpoint
      BY <2>1, <3>1, <3>2, <3>3 DEF CallShape
    <3> QED BY <2>3, <3>1, <3>4, ShapeIsType
  <2> QED BY <2>2, <2>3
<1>7. call' \in [Sides -> CallType]
  <2>1. call' = [t \in Sides |-> call'[t]]
    BY DEF Tick
  <2> QED BY <1>6, <2>1
<1>8. TypeOK'
  BY <1>1, <1>2, <1>3, <1>7 DEF TypeOK
<1>9. Grows
  <2>1. \A t \in Sides : call[t].last \in Nat
    BY <1>1 DEF CallType
  <2>2. \A t \in Sides : Later(call[t], call'[t])
    BY <1>6, <2>1 DEF Later
  <2> QED BY <1>1, <2>2 DEF Grows
<1>10. ASSUME NEW t \in Sides
       PROVE  HeardInv(t)' /\ CountInv(t)'
  <2>1. Other(t) \in Sides
    BY OtherProperties
  <2>2. HeardInv(t) /\ CountInv(t)
    BY DEF IInv
  <2>3. /\ call'[Other(t)].last = call[Other(t)].last
        /\ call'[Other(t)].endpoint = call[Other(t)].endpoint
        /\ call'[t].endpoint = call[t].endpoint
    BY <1>6, <2>1
  <2>4. HeardInv(t)'
    <3>1. HasHeard(call[Other(t)], call[t].endpoint) => HasHeard(call'[Other(t)], call[t].endpoint)
      BY <2>3 DEF HasHeard
    <3> QED BY <1>1, <1>6, <2>2, <2>3, <3>1 DEF HeardInv, HoldsAnswer
  <2>5. CountInv(t)'
    BY <1>1, <1>6, <2>2, <2>3 DEF CountInv, UsedBelow, NotPast
  <2> QED BY <2>4, <2>5
<1>11. NetInv'
  <2>1. PICK s \in Sides : TRUE
    BY SidesAssumption
  <2>2. Other(s) \in Sides /\ Carries(s, 0, SelfInfo) /\ GoodAfter(Other(s), 0, SelfInfo)
    BY <1>1, <1>2, OtherProperties, SelfInfoTyped, NothingGood DEF Carries, WireTyped, TypeOK
  <2>3. Steady
    BY <1>6 DEF Steady
  <2> QED BY <1>1, <1>7, <1>9, <2>2, <2>3, NetKeeps
<1> QED BY <1>8, <1>10, <1>11 DEF IInv

-------------------------------------------------------------------------------
(* The theorems.                                                            *)

\* Every step keeps the invariant.
LEMMA StepPreserves ==
  ASSUME IInv, [Next]_vars
  PROVE  IInv'
<1>1. ASSUME NEW s \in Sides, Start(s) \/ Step(s) \/ HandshakeFails(s)
      PROVE  IInv'
  BY <1>1, OpenPreserves, TurnPreserves, EndPreserves, ReceivePreserves DEF Step
<1>2. ASSUME NEW s \in Sides, TakeForFrame(s) \/ SendFrame(s) \/ ReceiveInMedia(s)
                              \/ SendAnswer(s) \/ StopMedia(s)
      PROVE  IInv'
  BY <1>2, TakePreserves, SendFramePreserves, MediaPreserves, SendAnswerPreserves,
     EndPreserves
<1>3. ASSUME NEW s \in Sides, MessageReceived(s) \/ Ping(s)
      PROVE  IInv'
  BY <1>3, DelayedPreserves, PingPreserves
<1>4. ASSUME NEW s \in Sides, NEW kind \in {"foreign", "garbled", "noOpus"}, Stray(s, kind)
      PROVE  IInv'
  BY <1>4, StrayPreserves
<1>5. CASE Tick
  BY <1>5, TickPreserves
<1>6. CASE UNCHANGED vars
  BY <1>6 DEF IInv, TypeOK, NetInv, HeardInv, CountInv, GoodTo, UsedBelow,
     NotPast, Elems, vars, history
<1> QED BY <1>1, <1>2, <1>3, <1>4, <1>5, <1>6 DEF Next

\* The invariant holds before the call.
LEMMA InitHolds ==
  ASSUME Init
  PROVE  IInv
<1> DEFINE c == Attempt("idle", 1, FALSE)
           snd == [at |-> "idle", seq |-> 0, frames |-> 0]
           rcv == [at |-> "idle", seq |-> 0, kind |-> "none"]
<1>1. c \in CallType /\ c.at = "idle" /\ c.last = 0
  <2>1. c \in CallShape
    BY ShapeIsType DEF CallShape, Attempt, Places, Numbers
  <2> QED BY <2>1, ShapeIsType DEF Attempt
<1>2. snd \in SenderType /\ rcv \in ReceiverType
  BY BoundsAssumption DEF SenderType, ReceiverType
<1>3. \A t \in Sides :
        /\ call[t] = c /\ sender[t] = snd /\ receiver[t] = rcv
        /\ queue[t] = << >> /\ net[t] = {} /\ used[t] = {}
  BY DEF Init
<1>4. TypeOK
  <2>1. /\ call \in [Sides -> CallType]
        /\ sender \in [Sides -> SenderType] /\ receiver \in [Sides -> ReceiverType]
    <3> HIDE DEF c, snd, rcv
    <3>1. /\ call = [t \in Sides |-> c] /\ sender = [t \in Sides |-> snd]
          /\ receiver = [t \in Sides |-> rcv]
      BY DEF Init, c, snd, rcv
    <3> QED BY <1>1, <1>2, <3>1
  <2>2. queue \in [Sides -> Seq(Datagrams)] /\ order \in [Sides -> Seq(Datagrams)]
    BY EmptyElems DEF Init
  <2>3. net \in [Sides -> SUBSET (Nat \X Datagrams)] /\ used \in [Sides -> SUBSET (Nat \X Nat)]
    BY DEF Init
  <2>4. faults \in 0..MaxFaults /\ time \in Nat /\ reused \subseteq Sides /\ raced \subseteq Sides
    BY BoundsAssumption DEF Init
  <2> QED BY <2>1, <2>2, <2>3, <2>4 DEF TypeOK
<1>5. NetInv
  BY <1>3, EmptyElems DEF NetInv
<1>6. \A t \in Sides : HeardInv(t) /\ CountInv(t)
  BY <1>1, <1>3 DEF HeardInv, CountInv, UsedBelow, NotPast, HoldsAnswer, Init
<1> QED BY <1>4, <1>5, <1>6 DEF IInv

\* The invariant holds of every behaviour.
LEMMA Inductive == Spec => []IInv
<1>1. Init => IInv
  BY InitHolds
<1>2. IInv /\ [Next]_vars => IInv'
  BY StepPreserves
<1> QED BY <1>1, <1>2, PTL DEF Spec

(***************************************************************************)
(* The call's state has its types; no retry is more than MaxRetry away     *)
(* (RunControlHandshake).                                                  *)
(***************************************************************************)
THEOREM TypeCorrect == Spec => []TypeOK
<1>1. IInv => TypeOK
  BY DEF IInv
<1> QED BY <1>1, Inductive, PTL

(***************************************************************************)
(* Whatever is lost, delayed or repeated, a side acknowledges only what    *)
(* the other has sent (BuildControlPacket and EncodeAudio with             *)
(* LastRemoteSequence).                                                    *)
(***************************************************************************)
THEOREM AcksCorrect == Spec => []AcksAreReal
<1>1. IInv => AcksAreReal
  <2> SUFFICES ASSUME IInv, NEW s \in Sides,
                      NEW m \in net[s] \cup
                        {<<call[s].endpoint, queue[s][i]>> : i \in DOMAIN queue[s]},
                      m[2].ack # 0
               PROVE  <<m[1], m[2].ack>> \in used[s]
    BY DEF AcksAreReal
  <2>1. DOMAIN queue[s] = 1 .. Len(queue[s])
    BY LenProperties DEF IInv, TypeOK
  <2>2. GoodTo(s, m[1], m[2])
    <3>1. CASE m \in net[s]
      BY <3>1 DEF IInv, NetInv
    <3>2. CASE m \in {<<call[s].endpoint, queue[s][i]>> : i \in DOMAIN queue[s]}
      <4>1. PICK i \in DOMAIN queue[s] : m = <<call[s].endpoint, queue[s][i]>>
        BY <3>2
      <4>2. queue[s][i] \in Elems(queue[s])
        BY <2>1 DEF Elems
      <4> QED BY <4>1, <4>2 DEF IInv, NetInv
    <3> QED BY <3>1, <3>2
  <2> QED BY <2>2 DEF GoodTo, Good
<1> QED BY <1>1, Inductive, PTL

(***************************************************************************)
(* A side that has left the handshake for media was heard by the other:    *)
(* an InitAck is only sent by a side that has taken in an Init             *)
(* (RunControlHandshake, SendInitAck).                                     *)
(***************************************************************************)
THEOREM HeardCorrect == Spec => []ConnectedIsHeard
<1>1. IInv => ConnectedIsHeard
  BY DEF IInv, HeardInv, ConnectedIsHeard
<1> QED BY <1>1, Inductive, PTL

(***************************************************************************)
(* A sequence number is sent twice only by a side whose media loops have   *)
(* both read the counter before either wrote it (TakeNextSequence).        *)
(***************************************************************************)
THEOREM ReuseCorrect == Spec => []ReuseIsARace
<1>1. IInv => ReuseIsARace
  BY DEF IInv, TypeOK, CountInv, ReuseIsARace
<1> QED BY <1>1, Inductive, PTL

-------------------------------------------------------------------------------
(* The datagrams of the call, in their order.                               *)

\* kept is what OfCall goes through, from the front of the queue.
KeptOf(kept, q) ==
  /\ kept[0] = << >> /\ OfCall(q) = kept[Len(q)]
  /\ \A i \in 1..Len(q) :
       kept[i] = IF Matches(q[i]) THEN Append(kept[i - 1], q[i]) ELSE kept[i - 1]
  /\ \A i \in 0..Len(q) : kept[i] \in Seq(Datagrams)

\* There is such a function.
LEMMA OfCallRuns ==
  ASSUME NEW q \in Seq(Datagrams)
  PROVE  \E kept : KeptOf(kept, q)
<1> DEFINE n == Len(q)
           V == Seq(Datagrams)
           step == [p \in (1..n) \X V |->
                      IF Matches(q[p[1]]) THEN Append(p[2], q[p[1]]) ELSE p[2]]
           Body(f) == [i \in 0..n |->
                         IF i = 0 THEN << >>
                         ELSE IF Matches(q[i]) THEN Append(f[i - 1], q[i]) ELSE f[i - 1]]
<1>1. n \in Nat /\ << >> \in V /\ \A i \in 1..n : q[i] \in Datagrams
  BY EmptySeq, LenProperties, ElementOfSeq
<1>2. step \in [(1..n) \X V -> V]
  <2> SUFFICES ASSUME NEW i \in 1..n, NEW r \in V
               PROVE  (IF Matches(q[i]) THEN Append(r, q[i]) ELSE r) \in V
    OBVIOUS
  <2> QED BY <1>1, AppendProperties
<1>3. \A i \in 1..n : \A r \in V :
        step[<<i, r>>] = IF Matches(q[i]) THEN Append(r, q[i]) ELSE r
  OBVIOUS
<1> HIDE DEF n, V, step
<1>4. PICK f : Recursion(f, n, V, << >>, step)
  BY <1>1, <1>2, RecursionExists
<1>5. \A i \in 1..n : i - 1 \in 0..n /\ i \in 0..n /\ i # 0
  BY <1>1
<1>6. f = Body(f)
  <2>1. f \in [0..n -> V] /\ f[0] = << >> /\ \A i \in 1..n : f[i] = step[<<i, f[i - 1]>>]
    BY <1>4 DEF Recursion
  <2>2. \A i \in 1..n :
          f[i] = IF Matches(q[i]) THEN Append(f[i - 1], q[i]) ELSE f[i - 1]
    BY <1>3, <1>5, <2>1
  <2>3. \A i \in 0..n : i = 0 \/ i \in 1..n
    BY <1>1
  <2> QED BY <2>1, <2>2, <2>3
<1> DEFINE g == CHOOSE h : h = Body(h)
<1>7. g = Body(g)
  <2> HIDE DEF Body
  <2> QED BY <1>6
<1>8. OfCall(q) = g[n]
  BY DEF OfCall, n
<1> HIDE DEF g
<1>9. g[0] = << >>
  BY <1>1, <1>7
<1>10. ASSUME NEW i \in 1..n
       PROVE  g[i] = IF Matches(q[i]) THEN Append(g[i - 1], q[i]) ELSE g[i - 1]
  BY <1>5, <1>7
<1>11. \A i \in 0..n : g[i] \in V
  <2>1. ASSUME NEW i \in 1..n, g[i - 1] \in V
        PROVE  g[i] \in V
    <3>1. q[i] \in Datagrams /\ Append(g[i - 1], q[i]) \in V
      BY <1>1, <2>1, AppendProperties DEF V
    <3> QED BY <1>10, <2>1, <3>1
  <2>2. StaysIn(g, V, n)
    BY <1>1, <1>9, <2>1 DEF StaysIn
  <2> QED BY <1>1, <2>2, RecursionTyped
<1> QED BY <1>8, <1>9, <1>10, <1>11 DEF n, V, KeptOf

\* The empty queue.
LEMMA OfCallEmpty == OfCall(<< >>) = << >>
<1>1. << >> \in Seq(Datagrams) /\ Len(<< >>) = 0
  BY EmptySeq
<1> QED BY <1>1, OfCallRuns DEF KeptOf

\* One datagram more.
LEMMA OfCallAppend ==
  ASSUME NEW q \in Seq(Datagrams), NEW d \in Datagrams
  PROVE  /\ OfCall(q) \in Seq(Datagrams)
         /\ OfCall(Append(q, d)) = IF Matches(d) THEN Append(OfCall(q), d) ELSE OfCall(q)
<1> DEFINE r == Append(q, d)
           n == Len(q)
<1>1. /\ r \in Seq(Datagrams) /\ Len(r) = n + 1 /\ n \in Nat
      /\ r[n + 1] = d /\ \A i \in 1..n : r[i] = q[i]
  BY AppendProperties, LenProperties
<1> HIDE DEF r
<1>2. PICK f : KeptOf(f, q)
  BY OfCallRuns
<1>3. PICK g : KeptOf(g, r)
  BY <1>1, OfCallRuns
<1>4. f[0] = g[0]
  BY <1>2, <1>3 DEF KeptOf
<1>5. ASSUME NEW i \in 1..n, f[i - 1] = g[i - 1]
      PROVE  f[i] = g[i]
  <2>1. f[i] = IF Matches(q[i]) THEN Append(f[i - 1], q[i]) ELSE f[i - 1]
    BY <1>2 DEF KeptOf
  <2>2. i \in 1..Len(r) /\ r[i] = q[i]
    BY <1>1
  <2>3. g[i] = IF Matches(r[i]) THEN Append(g[i - 1], r[i]) ELSE g[i - 1]
    BY <1>3, <2>2 DEF KeptOf
  <2> QED BY <1>5, <2>1, <2>2, <2>3
<1>6. \A i \in 0..n : f[i] = g[i]
  <2>1. Parallel(f, g, n)
    BY <1>4, <1>5 DEF Parallel
  <2> QED BY <1>1, <2>1, RecursionUnique
<1>7. f[n] = OfCall(q) /\ g[n + 1] = OfCall(r) /\ f[n] \in Seq(Datagrams) /\ f[n] = g[n]
  BY <1>1, <1>2, <1>3, <1>6 DEF KeptOf
<1>8. g[n + 1] = IF Matches(d) THEN Append(g[n], d) ELSE g[n]
  <2>1. n + 1 \in 1..Len(r) /\ (n + 1) - 1 = n
    BY <1>1
  <2>2. g[n + 1] = IF Matches(r[n + 1]) THEN Append(g[(n + 1) - 1], r[n + 1])
                   ELSE g[(n + 1) - 1]
    BY <1>3, <2>1 DEF KeptOf
  <2> QED BY <1>1, <2>1, <2>2
<1> QED BY <1>7, <1>8 DEF r

\* Two queues in a row: by induction over the second.
LEMMA OfCallConcat ==
  ASSUME NEW p \in Seq(Datagrams), NEW q \in Seq(Datagrams)
  PROVE  OfCall(p \o q) = OfCall(p) \o OfCall(q)
<1> DEFINE T == {r \in Seq(Datagrams) : OfCall(p \o r) = OfCall(p) \o OfCall(r)}
<1>1. << >> \in T
  <2>1. p \o << >> = p /\ << >> \in Seq(Datagrams)
    BY ConcatEmptySeq, EmptySeq
  <2>2. OfCall(p) \o << >> = OfCall(p)
    BY OfCallAppend, SelfInfoTyped, ConcatEmptySeq
  <2> QED BY <2>1, <2>2, OfCallEmpty
<1>2. ASSUME NEW r \in Seq(Datagrams), NEW d \in Datagrams, r \in T
      PROVE  Append(r, d) \in T
  <2>1. /\ p \o r \in Seq(Datagrams) /\ p \o Append(r, d) = Append(p \o r, d)
        /\ Append(r, d) \in Seq(Datagrams)
    BY ConcatProperties, ConcatAppend, AppendProperties
  <2>2. OfCall(p \o r) = OfCall(p) \o OfCall(r)
    BY <1>2
  <2>3. OfCall(p) \in Seq(Datagrams) /\ OfCall(r) \in Seq(Datagrams)
    BY OfCallAppend
  <2>4. CASE Matches(d)
    <3>1. /\ OfCall(Append(p \o r, d)) = Append(OfCall(p \o r), d)
          /\ OfCall(Append(r, d)) = Append(OfCall(r), d)
      BY <2>1, <2>4, OfCallAppend
    <3>2. OfCall(p) \o Append(OfCall(r), d) = Append(OfCall(p) \o OfCall(r), d)
      BY <2>3, ConcatAppend
    <3> QED BY <2>1, <2>2, <3>1, <3>2
  <2>5. CASE ~Matches(d)
    <3>1. /\ OfCall(Append(p \o r, d)) = OfCall(p \o r)
          /\ OfCall(Append(r, d)) = OfCall(r)
      BY <2>1, <2>5, OfCallAppend
    <3> QED BY <2>1, <2>2, <3>1
  <2> QED BY <2>4, <2>5
<1>3. Seq(Datagrams) \subseteq T
  <2> HIDE DEF T
  <2> QED BY <1>1, <1>2, SequenceInduction
<1> QED BY <1>3

\* A queue of foreign datagrams only.
LEMMA OfCallNone ==
  ASSUME NEW q \in Seq(Datagrams), \A i \in 1..Len(q) : ~Matches(q[i])
  PROVE  OfCall(q) = << >>
<1>1. PICK f : KeptOf(f, q)
  BY OfCallRuns
<1>2. Len(q) \in Nat /\ Len(q) \in 0..Len(q)
  BY LenProperties
<1>3. StaysIn(f, {<< >>}, Len(q))
  <2>1. ASSUME NEW i \in 1..Len(q)
        PROVE  f[i] = f[i - 1]
    BY <1>1 DEF KeptOf
  <2> QED BY <1>1, <2>1 DEF KeptOf, StaysIn
<1>4. \A i \in 0..Len(q) : f[i] \in {<< >>}
  BY <1>2, <1>3, RecursionTyped
<1> QED BY <1>1, <1>2, <1>4 DEF KeptOf

\* Receive takes the first datagram of the call; what it rotates is foreign.
LEMMA OfCallReceived ==
  ASSUME NEW q \in Seq(Datagrams), HasMatch(q)
  PROVE  OfCall(q) # << >> /\ OfCall(WithoutMatch(q)) = Tail(OfCall(q))
<1> DEFINE m == FirstMatch(q)
           a == SubSeq(q, 1, m - 1)
           b == SubSeq(q, m + 1, Len(q))
           d == q[m]
<1>1. m \in 1..Len(q) /\ Len(q) \in Nat
  BY FirstMatchExists, LenProperties
<1>2. Matches(d) /\ \A j \in 1..(m - 1) : ~Matches(q[j])
  BY FirstMatchExists
<1> HIDE DEF m
<1>3. a \in Seq(Datagrams) /\ b \in Seq(Datagrams) /\ d \in Datagrams
  BY <1>1
<1>4. q = Append(a, d) \o b
  BY <1>1, CutAt
<1>5. Len(a) = m - 1 /\ \A j \in 1..Len(a) : a[j] = q[j]
  BY <1>1
<1> HIDE DEF a, b, d
<1>6. OfCall(a) = << >>
  BY <1>2, <1>3, <1>5, OfCallNone
<1>7. OfCall(Append(a, d)) = Append(<< >>, d) /\ Append(a, d) \in Seq(Datagrams)
  BY <1>2, <1>3, <1>6, OfCallAppend, AppendProperties
<1>8. OfCall(q) = Append(<< >>, d) \o OfCall(b)
  BY <1>3, <1>4, <1>7, OfCallConcat
<1>9. OfCall(b) \in Seq(Datagrams)
  BY <1>3, OfCallAppend
<1>10. Tail(Append(<< >>, d) \o OfCall(b)) = OfCall(b) /\ Append(<< >>, d) \o OfCall(b) # << >>
  BY <1>3, <1>9
<1>11. OfCall(WithoutMatch(q)) = OfCall(b)
  <2>1. WithoutMatch(q) = b \o a
    BY DEF WithoutMatch, a, b, m
  <2>2. OfCall(b \o a) = OfCall(b) \o << >>
    BY <1>3, <1>6, OfCallConcat
  <2> QED BY <1>9, <2>1, <2>2, ConcatEmptySeq
<1> QED BY <1>8, <1>10, <1>11

\* A queue of each side, and what a history of it says of the call.
Ordered(q, o) == \A s \in Sides : OfCall(q[s]) = o[s]

\* A pair of queues and histories that a step may start from.
Queues == [Sides -> Seq(Datagrams)]

\* What arrives goes to the end of both, or is foreign.
LEMMA ArrivesOrders ==
  ASSUME NEW q \in Queues, NEW o \in Queues, Ordered(q, o),
         NEW s \in Sides, NEW e, NEW d \in Datagrams, Arrives(s, e, d, q, o)
  PROVE  Ordered(queue', order')
<1> SUFFICES ASSUME NEW t \in Sides
             PROVE  OfCall(queue'[t]) = order'[t]
  BY DEF Ordered
<1>1. OfCall(q[t]) = o[t] /\ q[t] \in Seq(Datagrams) /\ q[s] \in Seq(Datagrams)
      /\ OfCall(q[s]) = o[s]
  BY DEF Ordered, Queues
<1>2. CASE t = s /\ Reaches(s, e)
  <2>1. queue'[s] = Append(q[s], d)
    BY <1>2 DEF Arrives, Queues
  <2>2. order'[s] = IF Matches(d) THEN Append(o[s], d) ELSE o[s]
    BY <1>2 DEF Arrives, Queues
  <2> QED BY <1>1, <1>2, <2>1, <2>2, OfCallAppend
<1>3. CASE ~(t = s /\ Reaches(s, e))
  <2>1. queue'[t] = q[t] /\ order'[t] = o[t]
    BY <1>3 DEF Arrives, Queues
  <2> QED BY <1>1, <2>1
<1> QED BY <1>2, <1>3

\* What is sent arrives now, later or never.
LEMMA EmitOrders ==
  ASSUME NEW q \in Queues, NEW o \in Queues, Ordered(q, o),
         NEW s \in Sides, NEW p \in Datagrams, Emit(s, p, q, o)
  PROVE  Ordered(queue', order')
<1>1. Arrives(Other(s), call[s].endpoint, p, q, o) \/ (queue' = q /\ order' = o)
  BY DEF Emit
<1> QED BY <1>1, OtherProperties, ArrivesOrders

\* Receive takes one and the same datagram out of both.
LEMMA ReceivedOrders ==
  ASSUME TypeOK, Ordered(queue, order), NEW s \in Sides, HasMatch(queue[s])
  PROVE  /\ Received(s) \in Queues /\ InOrder(s) \in Queues
         /\ Ordered(Received(s), InOrder(s)) /\ FirstOf(queue[s]) \in Datagrams
<1>1. /\ Received(s) \in Queues /\ InOrder(s) \in Queues
      /\ FirstOf(queue[s]) \in Datagrams
  BY ReceivedTyped DEF Queues
<1>2. /\ queue \in Queues /\ order \in Queues /\ queue[s] \in Seq(Datagrams)
      /\ OfCall(queue[s]) = order[s]
  BY DEF TypeOK, Queues, Ordered
<1>3. order[s] # << >> /\ OfCall(WithoutMatch(queue[s])) = Tail(order[s])
  BY <1>2, OfCallReceived
<1>4. ASSUME NEW t \in Sides
      PROVE  OfCall(Received(s)[t]) = InOrder(s)[t]
  <2>1. CASE t = s
    <3>1. Received(s)[s] = WithoutMatch(queue[s]) /\ InOrder(s)[s] = Tail(order[s])
      BY <1>2, <1>3 DEF Received, InOrder, Queues
    <3> QED BY <1>3, <2>1, <3>1
  <2>2. CASE t # s
    <3>1. Received(s)[t] = queue[t] /\ InOrder(s)[t] = order[t]
      BY <1>2, <2>2 DEF Received, InOrder, Queues
    <3> QED BY <3>1 DEF Ordered
  <2> QED BY <2>1, <2>2
<1> QED BY <1>1, <1>4 DEF Ordered

\* A session that starts, or ends.
LEMMA ResetOrders ==
  ASSUME TypeOK, Ordered(queue, order), NEW s \in Sides,
         Start(s) \/ TryNext(s) \/ HandshakeEnds(s) \/ HandshakeFails(s) \/ StopMedia(s)
  PROVE  Ordered(queue', order')
<1>1. queue \in Queues /\ order \in Queues
  BY DEF TypeOK, Queues
<1>2. OfCall(<<SelfInfo>>) = <<SelfInfo>> /\ OfCall(<< >>) = << >>
  <2>1. << >> \in Seq(Datagrams) /\ <<SelfInfo>> = Append(<< >>, SelfInfo)
    BY EmptySeq
  <2>2. Matches(SelfInfo)
    BY DEF Matches, SelfInfo, Datagram
  <2> QED BY <2>1, <2>2, SelfInfoTyped, OfCallEmpty, OfCallAppend
<1>3. PICK r \in {<< >>, <<SelfInfo>>} :
        \/ queue' = [queue EXCEPT ![s] = r] /\ order' = [order EXCEPT ![s] = r]
        \/ UNCHANGED <<queue, order>>
  BY DEF Start, TryNext, OpenEndpoint, HandshakeEnds, HandshakeFails, StopMedia, Closed
<1>4. ASSUME NEW t \in Sides
      PROVE  OfCall(queue'[t]) = order'[t]
  BY <1>1, <1>2, <1>3 DEF Ordered, Queues
<1> QED BY <1>4 DEF Ordered

\* The steps of the handshake.
LEMMA HandshakeOrders ==
  ASSUME IInv, Ordered(queue, order), NEW s \in Sides,
         HandshakeTurn(s) \/ ReceiveInHandshake(s)
  PROVE  Ordered(queue', order')
<1>1. /\ TypeOK /\ queue \in Queues /\ order \in Queues
      /\ call[s].next \in Nat /\ call[s].last \in Nat
  BY DEF IInv, TypeOK, CallType, Queues
<1>2. CASE HandshakeTurn(s)
  <2>1. CASE SendInitPacket(s)
    <3> DEFINE p == BuildControlPacket("init", call[s].next, call[s].last, 0)
    <3>1. 0 \in 0 .. MaxFrames /\ "init" \in Kinds
      BY BoundsAssumption DEF Kinds
    <3>2. p \in Datagrams
      BY <1>1, <3>1, PacketTyped
    <3>3. Emit(s, p, queue, order)
      BY <2>1 DEF SendInitPacket
    <3> QED BY <1>1, <3>2, <3>3, EmitOrders
  <2>2. CASE ~SendInitPacket(s)
    BY <1>2, <2>2 DEF HandshakeTurn, Silent
  <2> QED BY <2>1, <2>2
<1>3. CASE ReceiveInHandshake(s)
  <2> DEFINE d == FirstOf(queue[s])
             heard == IF Decodes(d) THEN Heard(call[s].last, d) ELSE call[s].last
             p == BuildControlPacket(AnswerTo[d.kind], call[s].next, heard, 0)
  <2>1. HasMatch(queue[s]) /\ InHandshake(s, d)
    BY <1>3 DEF ReceiveInHandshake
  <2>2. /\ Received(s) \in Queues /\ InOrder(s) \in Queues
        /\ Ordered(Received(s), InOrder(s)) /\ d \in Datagrams
    BY <1>1, <2>1, ReceivedOrders
  <2> HIDE DEF d
  <2>3. d.seq \in Nat
    BY <2>2 DEF Datagrams
  <2>4. heard \in Nat
    BY <1>1, <2>3 DEF Heard
  <2>5. CASE d.kind \in DOMAIN AnswerTo
    <3>1. AnswerTo[d.kind] \in Kinds /\ 0 \in 0 .. MaxFrames
      BY <2>5, BoundsAssumption DEF AnswerTo, Kinds
    <3>2. p \in Datagrams
      <4> HIDE DEF heard
      <4> QED BY <1>1, <2>4, <3>1, PacketTyped
    <3>3. Emit(s, p, Received(s), InOrder(s))
      BY <2>1, <2>5 DEF InHandshake
    <3> HIDE DEF p
    <3> QED BY <2>2, <3>2, <3>3, EmitOrders
  <2>6. CASE d.kind \notin DOMAIN AnswerTo
    <3>1. queue' = Received(s) /\ order' = InOrder(s)
      BY <2>1, <2>6 DEF InHandshake, Silent
    <3> QED BY <2>2, <3>1
  <2> QED BY <2>5, <2>6
<1> QED BY <1>2, <1>3

\* The steps of the media loops.
LEMMA LoopOrders ==
  ASSUME IInv, Ordered(queue, order), NEW s \in Sides,
         TakeForFrame(s) \/ SendFrame(s) \/ ReceiveInMedia(s) \/ SendAnswer(s)
  PROVE  Ordered(queue', order')
<1>1. /\ TypeOK /\ queue \in Queues /\ order \in Queues /\ call[s].last \in Nat
      /\ sender[s].seq \in Nat /\ sender[s].frames \in 0 .. MaxFrames
      /\ receiver[s].seq \in Nat /\ HoldsAnswer(receiver[s], call[s].last)
  BY DEF IInv, TypeOK, HeardInv, CallType, SenderType, ReceiverType, Queues
<1>2. CASE TakeForFrame(s)
  BY <1>2 DEF TakeForFrame
<1>3. CASE SendFrame(s)
  <2> DEFINE p == BuildControlPacket("stream", sender[s].seq, call[s].last, sender[s].frames)
  <2>1. p \in Datagrams
    <3>1. "stream" \in Kinds
      BY DEF Kinds
    <3> QED BY <1>1, <3>1, PacketTyped
  <2>2. Emit(s, p, queue, order) \/ (queue' = queue /\ order' = order)
    BY <1>3 DEF SendFrame, Silent, AudioPacket
  <2> QED BY <1>1, <2>1, <2>2, EmitOrders
<1>4. CASE ReceiveInMedia(s)
  <2>1. HasMatch(queue[s]) /\ queue' = Received(s) /\ order' = InOrder(s)
    BY <1>4 DEF ReceiveInMedia
  <2> QED BY <1>1, <2>1, ReceivedOrders
<1>5. CASE SendAnswer(s)
  <2> DEFINE p == BuildControlPacket(receiver[s].kind, receiver[s].seq, call[s].last, 0)
  <2>1. p \in Datagrams
    <3>1. receiver[s].kind \in Kinds /\ 0 \in 0 .. MaxFrames
      BY <1>1, <1>5, BoundsAssumption DEF SendAnswer, HoldsAnswer, Kinds
    <3> QED BY <1>1, <3>1, PacketTyped
  <2>2. Emit(s, p, queue, order) \/ (queue' = queue /\ order' = order)
    BY <1>5 DEF SendAnswer, Silent
  <2> QED BY <1>1, <2>1, <2>2, EmitOrders
<1> QED BY <1>2, <1>3, <1>4, <1>5

\* What comes from the network, delayed, stray or from a side that pings.
LEMMA NetworkOrders ==
  ASSUME IInv, Ordered(queue, order), NEW s \in Sides,
         \/ MessageReceived(s) \/ Ping(s)
         \/ \E kind \in {"foreign", "garbled", "noOpus"} : Stray(s, kind)
  PROVE  Ordered(queue', order')
<1>1. /\ TypeOK /\ queue \in Queues /\ order \in Queues /\ net[s] \subseteq Nat \X Datagrams
      /\ call[s].next \in Nat /\ call[s].last \in Nat /\ 0 \in 0 .. MaxFrames
  <2>1. TypeOK /\ queue \in Queues /\ order \in Queues /\ call \in [Sides -> CallType]
    BY DEF IInv, TypeOK, Queues
  <2>2. net[s] \subseteq Nat \X Datagrams
    BY DEF IInv, TypeOK
  <2>3. call[s].next \in Nat /\ call[s].last \in Nat
    BY <2>1 DEF CallType
  <2>4. 0 \in 0 .. MaxFrames
    BY BoundsAssumption
  <2> QED BY <2>1, <2>2, <2>3, <2>4
<1>2. CASE MessageReceived(s)
  <2>1. PICK m \in net[s] : Arrives(s, m[1], m[2], queue, order)
    BY <1>2 DEF MessageReceived
  <2>2. m[2] \in Datagrams
    BY <1>1
  <2> QED BY <1>1, <2>1, <2>2, ArrivesOrders
<1>3. CASE Ping(s)
  <2> DEFINE p == BuildControlPacket("ping", call[s].next, call[s].last, 0)
  <2>1. p \in Datagrams
    <3>1. "ping" \in Kinds
      BY DEF Kinds
    <3> QED BY <1>1, <3>1, PacketTyped
  <2>2. Arrives(Other(s), call[s].endpoint, p, queue, order)
    BY <1>3 DEF Ping
  <2> HIDE DEF p
  <2> QED BY <1>1, <2>1, <2>2, OtherProperties, ArrivesOrders
<1>4. ASSUME NEW kind \in {"foreign", "garbled", "noOpus"}, Stray(s, kind)
      PROVE  Ordered(queue', order')
  <2>1. Datagram(kind, 0, 0, 0) \in Datagrams
    BY <1>1 DEF Datagram, Datagrams, Kinds
  <2>2. Arrives(s, call[s].endpoint, Datagram(kind, 0, 0, 0), queue, order)
    BY <1>4 DEF Stray
  <2> QED BY <1>1, <2>1, <2>2, ArrivesOrders
<1> QED BY <1>2, <1>3, <1>4

(***************************************************************************)
(* Whatever foreign datagrams Receive rotates to the back of m_received,   *)
(* those of the call are received in the order in which they came, none    *)
(* left out (datagram_socket_reflector_transport, Receive).                *)
(***************************************************************************)
THEOREM OrderCorrect == Spec => []ReceivedInOrder
<1> DEFINE I == IInv /\ ReceivedInOrder
<1>1. Init => I
  <2> SUFFICES ASSUME Init PROVE I
    OBVIOUS
  <2>1. \A s \in Sides : queue[s] = << >> /\ order[s] = << >>
    BY DEF Init
  <2> QED BY <2>1, InitHolds, OfCallEmpty DEF ReceivedInOrder
<1>2. I /\ [Next]_vars => I'
  <2> SUFFICES ASSUME I, [Next]_vars
               PROVE  Ordered(queue', order')
    BY StepPreserves DEF ReceivedInOrder, Ordered
  <2>1. IInv /\ TypeOK /\ Ordered(queue, order)
    BY DEF ReceivedInOrder, Ordered, IInv
  <2>2. ASSUME NEW s \in Sides, Start(s) \/ TryNext(s) \/ HandshakeEnds(s)
                               \/ HandshakeFails(s) \/ StopMedia(s)
        PROVE  Ordered(queue', order')
    BY <2>1, <2>2, ResetOrders
  <2>3. ASSUME NEW s \in Sides, HandshakeTurn(s) \/ ReceiveInHandshake(s)
        PROVE  Ordered(queue', order')
    BY <2>1, <2>3, HandshakeOrders
  <2>4. ASSUME NEW s \in Sides,
               TakeForFrame(s) \/ SendFrame(s) \/ ReceiveInMedia(s) \/ SendAnswer(s)
        PROVE  Ordered(queue', order')
    BY <2>1, <2>4, LoopOrders
  <2>5. ASSUME NEW s \in Sides,
               \/ MessageReceived(s) \/ Ping(s)
               \/ \E kind \in {"foreign", "garbled", "noOpus"} : Stray(s, kind)
        PROVE  Ordered(queue', order')
    BY <2>1, <2>5, NetworkOrders
  <2>6. CASE Tick \/ UNCHANGED vars
    <3>1. queue' = queue /\ order' = order
      BY <2>6 DEF Tick, vars
    <3> QED BY <2>1, <3>1
  <2> QED BY <2>2, <2>3, <2>4, <2>5, <2>6 DEF Next, Step
<1>3. I => ReceivedInOrder
  OBVIOUS
<1> QED BY <1>1, <1>2, <1>3, PTL DEF Spec

-------------------------------------------------------------------------------
(***************************************************************************)
(* JitterBuffer.  The number m_nextSequence is that of position, the index *)
(* in the peer's stream that is due (PlayoutInv), and every slot is within *)
(* one turn ahead of it (SlotsInv); so the signed comparison of numbers is *)
(* that of indices.                                                        *)
(***************************************************************************)

\* The slots: keyed by their packets' sequence numbers, none of them past its
\* turn, none a whole turn ahead.
SlotsInv ==
  \A q \in DOMAIN slots :
    /\ Sequence(slots[q]) = q
    /\ position <= slots[q] /\ slots[q] < position + Width

\* The frame that is due next, and what was played before it.
PlayoutInv ==
  /\ started => next = Sequence(position)
  /\ ~started => DOMAIN slots = {} /\ last = -1
  /\ last < position

JitterInv == JitterTypeOK /\ SlotsInv /\ PlayoutInv /\ PacketsAccounted

-------------------------------------------------------------------------------
\* The width of the sequence numbers is twice its half, and not zero.
LEMMA WidthFact ==
  /\ Width \in Nat \ {0} /\ HalfWidth \in Nat \ {0} /\ Width = 2 * HalfWidth
BY WidthAssumption DEF Width

\* Division with remainder.
LEMMA Division ==
  ASSUME NEW w \in Nat \ {0}, NEW i \in Nat
  PROVE  i \div w \in Int /\ i = w * (i \div w) + (i % w) /\ i % w \in 0 .. w - 1
OBVIOUS

\* A multiple of w that is less than two w and more than minus one w.
LEMMA Multiples ==
  ASSUME NEW w \in Nat \ {0}, NEW j \in Int, NEW k \in Int
  PROVE  /\ w * (j - k) = w * j - w * k
         /\ j >= 2 => w * j >= 2 * w
         /\ j <= -1 => w * j <= -w
         /\ j = 1 => w * j = w
         /\ j = 0 => w * j = 0
OBVIOUS

\* Sequence numbers are uint16_t values.
LEMMA SequenceType == ASSUME NEW i \in Nat PROVE Sequence(i) \in Sequences
BY WidthFact, Division DEF Sequence, Sequences

\* Two packets less than a turn apart: their sequence numbers differ by as
\* much as they do, unless the numbers wrapped around in between.
LEMMA SequenceGap ==
  ASSUME NEW a \in Nat, NEW b \in Nat, a <= b, b - a < Width
  PROVE  \/ Sequence(b) - Sequence(a) = b - a
         \/ Sequence(b) - Sequence(a) = b - a - Width
<1> DEFINE j == b \div Width
           k == a \div Width
<1>1. j \in Int /\ k \in Int
  BY WidthFact, Division
<1>2. b = Width * j + Sequence(b) /\ a = Width * k + Sequence(a)
  BY WidthFact, Division DEF Sequence
<1>3. Sequence(a) \in 0 .. Width - 1 /\ Sequence(b) \in 0 .. Width - 1
  BY SequenceType DEF Sequences
<1> HIDE DEF j, k
<1>4. Width * (j - k) = Width * j - Width * k
  BY WidthFact, <1>1, Multiples
<1> DEFINE n == j - k
           t == Width * n
<1>5. /\ n \in Int
      /\ n >= 2 => t >= 2 * Width
      /\ n <= -1 => t <= -Width
      /\ n = 1 => t = Width
      /\ n = 0 => t = 0
  BY WidthFact, <1>1, Multiples
<1>6. t = (b - a) - (Sequence(b) - Sequence(a))
  <2> DEFINE u == Width * j
             v == Width * k
  <2>1. u \in Int /\ v \in Int
    BY WidthFact, <1>1
  <2>2. t = u - v /\ b = u + Sequence(b) /\ a = v + Sequence(a)
    BY <1>2, <1>4
  <2> HIDE DEF u, v, t
  <2> QED
    BY <2>1, <2>2, <1>3
<1> HIDE DEF n, t
<1>7. n \in {0, 1}
  BY <1>3, <1>5, <1>6, WidthFact
<1> QED
  BY <1>3, <1>5, <1>6, <1>7, WidthFact

\* Less than a turn apart, packets with the same number are the same packet.
LEMMA SequenceInjective ==
  ASSUME NEW a \in Nat, NEW b \in Nat, a <= b, b - a < Width,
         Sequence(a) = Sequence(b)
  PROVE  a = b
<1>1. \/ Sequence(b) - Sequence(a) = b - a
      \/ Sequence(b) - Sequence(a) = b - a - Width
  BY SequenceGap
<1>2. Sequence(a) \in Int /\ Width \in Int
  BY SequenceType, WidthFact DEF Sequences
<1> QED
  BY <1>1, <1>2

\* Counting on in the stream is counting on in uint16_t.
LEMMA SequenceSuccessor ==
  ASSUME NEW i \in Nat
  PROVE  Sequence(i + 1) = Successor(Sequence(i))
<1>1. CASE Width = 1
  BY <1>1, WidthFact
<1>2. CASE Width > 1
  <2>1. \/ Sequence(i + 1) - Sequence(i) = 1
        \/ Sequence(i + 1) - Sequence(i) = 1 - Width
    BY <1>2, SequenceGap, WidthFact
  <2> QED
    BY <2>1, SequenceType, WidthFact DEF Successor, Sequences
<1> QED
  BY <1>1, <1>2, WidthFact

\* What SequenceBefore decides about packets at most half a turn old: a packet
\* it lets through is not past its turn.
LEMMA NotBeforeIsAhead ==
  ASSUME NEW i \in Nat, NEW p \in Nat, p - i <= HalfWidth,
         ~SequenceBefore(Sequence(i), Sequence(p))
  PROVE  p <= i
<1> SUFFICES ASSUME i < p PROVE FALSE
  OBVIOUS
<1>1. \/ Sequence(p) - Sequence(i) = p - i
      \/ Sequence(p) - Sequence(i) = p - i - Width
  BY SequenceGap, WidthFact
<1>2. Sequence(i) \in 0 .. Width - 1 /\ Sequence(p) \in 0 .. Width - 1
  BY SequenceType DEF Sequences
<1> QED
  BY <1>1, <1>2, WidthFact DEF SequenceBefore, Minus

\* A non-empty finite set of numbers has a lowest one.
LEMMA LowestIsMember ==
  ASSUME NEW S, S \subseteq Nat, IsFiniteSet(S), S # {}
  PROVE  Lowest(S) \in S
<1> DEFINE Below(x) == {y \in S : y < x}
           T == {Below(x) : x \in S}
           R == StrictSubsetOrdering(S)
<1>1. IsWellFoundedOn(R, SUBSET S)
  BY FS_StrictSubsetOrderingWellFounded, FS_FiniteSubsetsOfFinite
<1>2. T \subseteq SUBSET S /\ T # {}
  OBVIOUS
<1>3. PICK U \in T : \A V \in T : <<V, U>> \notin R
  <2> HIDE DEF T, R
  <2> QED
    BY <1>1, <1>2, WFMin
<1>4. PICK x \in S : U = Below(x)
  OBVIOUS
<1>5. \A y \in S : x <= y
  <2> SUFFICES ASSUME NEW y \in S, y < x PROVE FALSE
    OBVIOUS
  <2>1. Below(y) \subseteq Below(x) /\ Below(y) # Below(x)
    <3>1. y \in Below(x) /\ y \notin Below(y)
      OBVIOUS
    <3>2. \A z \in S : z < y => z < x
      OBVIOUS
    <3> QED
      BY <3>1, <3>2
  <2>2. <<Below(y), Below(x)>> \in R
    BY <2>1 DEF StrictSubsetOrdering
  <2> QED
    BY <1>3, <1>4, <2>2
<1> QED
  BY <1>5 DEF Lowest

-------------------------------------------------------------------------------
\* The buffered sequence numbers are finitely many.
LEMMA SlotsFinite == JitterTypeOK => IsFiniteSet(DOMAIN slots)
<1>1. IsFiniteSet(Sequences)
  <2>1. 0 \in Int /\ Width - 1 \in Int
    BY WidthFact
  <2> QED
    BY <2>1, FS_Interval DEF Sequences
<1> QED
  BY <1>1, FS_Subset DEF JitterTypeOK

\* Insert puts one packet in and trims at most one away.
LEMMA InsertPreserves ==
  ASSUME JitterInv, NEW i \in Packets, Insert(i)
  PROVE  JitterInv' /\ stats'.played = stats.played
<1> DEFINE q == Sequence(i)
           m == Put(slots, q, i)
           S == DOMAIN slots
<1>1. i \in Nat /\ q \in Sequences
  BY SequenceType, StreamAssumption DEF Packets
<1>2. DOMAIN m = S \cup {q} /\ \A p \in DOMAIN m : m[p] = IF p = q THEN i ELSE slots[p]
  BY DEF Put
<1>3. IsFiniteSet(S)
  BY SlotsFinite DEF JitterInv
<1>4. /\ IsFiniteSet(DOMAIN m)
      /\ Depth(m) = IF q \in S THEN Depth(slots) ELSE Depth(slots) + 1
      /\ Depth(slots) \in Nat
  BY <1>2, <1>3, FS_AddElement, FS_CardinalityType DEF Depth
<1>5. DOMAIN m \subseteq Sequences /\ \A p \in DOMAIN m : m[p] \in Packets
  BY <1>1, <1>2 DEF JitterInv, JitterTypeOK
<1>6. /\ slots' = TrimOverflow(m)
      /\ DOMAIN slots' \subseteq DOMAIN m
      /\ \A p \in DOMAIN slots' : slots'[p] = m[p]
      /\ slots' \in [DOMAIN slots' -> Packets]
  <2> HIDE DEF m
  <2>1. slots' = TrimOverflow(m)
    BY DEF Insert, m
  <2>2. m = [p \in DOMAIN m |-> m[p]]
    BY DEF m, Put
  <2> QED
    BY <1>5, <2>1, <2>2 DEF TrimOverflow, Without
<1>7. Depth(slots') = IF Overflows(m) THEN Depth(m) - 1 ELSE Depth(m)
  <2> HIDE DEF m
  <2>1. CASE Overflows(m)
    <3>1. DOMAIN m # {}
      BY <2>1, <1>4, FS_EmptySet, CapacityAssumption DEF Overflows, Depth
    <3>2. Lowest(DOMAIN m) \in DOMAIN m
      BY <3>1, <1>4, <1>5, LowestIsMember, WidthFact DEF Sequences
    <3>3. DOMAIN slots' = DOMAIN m \ {Lowest(DOMAIN m)}
      BY <2>1, <1>6 DEF TrimOverflow, Without
    <3> QED
      BY <2>1, <3>2, <3>3, <1>4, FS_RemoveElement DEF Depth
  <2>2. CASE ~Overflows(m)
    BY <2>2, <1>6 DEF TrimOverflow
  <2> QED
    BY <2>1, <2>2
<1>8. Depth(slots') <= Capacity
  BY <1>4, <1>7, CapacityAssumption DEF Overflows, JitterInv, JitterTypeOK
<1>9. /\ position' \in Nat /\ position' <= i /\ i < position' + Width
      /\ started' = TRUE /\ next' = Sequence(position') /\ last' < position'
  <2>1. CASE started
    <3>1. /\ position' = position /\ next' = next /\ started' = TRUE
          /\ last' = last /\ position - i <= HalfWidth /\ i - position < Width
          /\ ~SequenceBefore(q, next)
      BY <2>1 DEF Insert, PacketArrives
    <3>2. position \in Nat /\ next = Sequence(position) /\ last < position
      BY <2>1 DEF JitterInv, JitterTypeOK, PlayoutInv
    <3>3. position <= i
      BY <1>1, <3>1, <3>2, NotBeforeIsAhead
    <3> QED
      BY <1>1, <3>1, <3>2, <3>3, WidthFact
  <2>2. CASE ~started
    <3>1. position' = i /\ next' = q /\ started' = TRUE /\ last' = last
      BY <2>2 DEF Insert
    <3>2. last < i
      BY <2>2, <1>1 DEF JitterInv, JitterTypeOK, PlayoutInv
    <3> QED
      BY <1>1, <3>1, <3>2, WidthFact
  <2> QED
    BY <2>1, <2>2
<1>10. SlotsInv'
  <2>1. ~started => S = {}
    BY DEF JitterInv, PlayoutInv
  <2>2. started => position' = position
    BY DEF Insert
  <2> QED
    BY <1>2, <1>6, <1>9, <2>1, <2>2 DEF JitterInv, SlotsInv
<1>11. /\ stats' \in [inserted : Nat, played : Nat, lateDrops : Nat]
       /\ stats'.played = stats.played
       /\ stats'.lateDrops = IF Overflows(m) THEN stats.lateDrops + 1
                                            ELSE stats.lateDrops
  <2>1. stats \in [inserted : Nat, played : Nat, lateDrops : Nat]
    BY DEF JitterInv, JitterTypeOK
  <2>2. PICK c \in Nat :
          /\ c = IF Overflows(m) THEN 1 ELSE 0
          /\ stats' = [inserted |-> stats.inserted + 1, played |-> stats.played,
                       lateDrops |-> stats.lateDrops + c]
    BY DEF Insert
  <2>3. /\ stats' \in [inserted : Nat, played : Nat, lateDrops : Nat]
        /\ stats'.played = stats.played
        /\ stats'.lateDrops = stats.lateDrops + c
    BY <2>1, <2>2
  <2> HIDE DEF m
  <2> QED
    BY <2>1, <2>2, <2>3
<1>12. /\ delivered' = delivered + 1
       /\ replaced' = IF q \in S THEN replaced + 1 ELSE replaced
  BY DEF Insert, JitterInv, JitterTypeOK
<1>13. PacketsAccounted'
  BY <1>4, <1>7, <1>11, <1>12 DEF JitterInv, JitterTypeOK, PacketsAccounted
<1>14. JitterTypeOK'
  <2>1. /\ flight' \subseteq Packets /\ dups' \in 0 .. MaxDups /\ sent' = sent
        /\ last' = last
    BY StreamAssumption DEF Insert, PacketArrives, JitterInv, JitterTypeOK
  <2>2. wait' \in Int
    BY TargetAssumption DEF Insert, JitterInv, JitterTypeOK
  <2>3. next' \in Sequences
    BY <1>9, SequenceType
  <2>4. delivered' \in Nat /\ replaced' \in Nat
    BY <1>12 DEF JitterInv, JitterTypeOK
  <2> QED
    BY <1>5, <1>6, <1>8, <1>9, <1>11, <2>1, <2>2, <2>3, <2>4 DEF JitterInv, JitterTypeOK
<1> QED
  BY <1>9, <1>10, <1>11, <1>13, <1>14 DEF JitterInv, PlayoutInv

\* A late packet is counted and changes nothing else.
LEMMA DropLatePreserves ==
  ASSUME JitterInv, NEW i \in Packets, DropLate(i)
  PROVE  JitterInv' /\ stats'.played = stats.played
<1>1. /\ stats' \in [inserted : Nat, played : Nat, lateDrops : Nat]
      /\ stats'.played = stats.played /\ stats'.lateDrops = stats.lateDrops + 1
      /\ delivered' = delivered + 1
  BY DEF DropLate, JitterInv, JitterTypeOK
<1>2. flight' \subseteq Packets /\ dups' \in 0 .. MaxDups /\ sent' = sent
  BY StreamAssumption DEF DropLate, PacketArrives, JitterInv, JitterTypeOK
<1>3. UNCHANGED <<started, next, slots, wait, position, last, replaced>>
  BY DEF DropLate
<1>4. JitterTypeOK'
  BY <1>1, <1>2, <1>3 DEF JitterInv, JitterTypeOK, Depth
<1>5. Depth(slots) \in Nat
  BY SlotsFinite, FS_CardinalityType DEF JitterInv, Depth
<1>6. PacketsAccounted'
  BY <1>1, <1>3, <1>5 DEF JitterInv, JitterTypeOK, PacketsAccounted, Depth
<1> QED
  BY <1>1, <1>3, <1>4, <1>6 DEF JitterInv, SlotsInv, PlayoutInv

\* Playout plays the packet of the frame that is due, if it has it.
LEMMA PlayoutPreserves ==
  ASSUME JitterInv, Playout
  PROVE  JitterInv' /\ (stats'.played # stats.played => last' > last)
<1>1. /\ position \in Nat /\ position' = position + 1
      /\ next = Sequence(position) /\ next' = Successor(next) /\ started /\ started'
  BY DEF Playout, JitterInv, JitterTypeOK, PlayoutInv
<1>2. next' = Sequence(position')
  BY <1>1, SequenceSuccessor
<1>3. \A q \in DOMAIN slots : slots[q] \in Nat
  BY StreamAssumption DEF JitterInv, JitterTypeOK, Packets
<1>4. \A q \in DOMAIN slots : slots[q] = position <=> q = next
  <2> SUFFICES ASSUME NEW q \in DOMAIN slots PROVE slots[q] = position <=> q = next
    OBVIOUS
  <2>1. Sequence(slots[q]) = q /\ position <= slots[q] /\ slots[q] - position < Width
    BY <1>1, <1>3, WidthFact DEF JitterInv, SlotsInv
  <2> QED
    BY <1>1, <1>3, <2>1, SequenceInjective
<1>5. CASE next \in DOMAIN slots
  <2>1. /\ last' = position
        /\ slots' = Without(slots, next)
        /\ DOMAIN slots' = DOMAIN slots \ {next}
        /\ \A q \in DOMAIN slots' : slots'[q] = slots[q]
    BY <1>4, <1>5 DEF Playout, Without
  <2>2. /\ stats' \in [inserted : Nat, played : Nat, lateDrops : Nat]
        /\ stats'.played = stats.played + 1 /\ stats'.lateDrops = stats.lateDrops
    BY <1>5 DEF Playout, JitterInv, JitterTypeOK
  <2>3. /\ IsFiniteSet(DOMAIN slots) /\ Depth(slots) \in Nat
        /\ Depth(slots') = Depth(slots) - 1
    BY <1>5, <2>1, SlotsFinite, FS_RemoveElement, FS_CardinalityType
    DEF JitterInv, Depth
  <2>4. UNCHANGED <<networkVars, delivered, replaced>> /\ wait' = wait + 1
    BY DEF Playout
  <2>5. last < last' /\ last' \in Packets
    BY <1>1, <1>4, <1>5, <2>1 DEF JitterInv, JitterTypeOK, PlayoutInv
  <2>6. JitterTypeOK'
    <3>1. slots' \in [DOMAIN slots' -> Packets] /\ DOMAIN slots' \subseteq Sequences
      BY <2>1 DEF JitterInv, JitterTypeOK, Without
    <3>2. Depth(slots') <= Capacity
      BY <2>3, CapacityAssumption DEF JitterInv, JitterTypeOK
    <3>3. next' \in Sequences /\ position' \in Nat
      BY <1>1, <1>2, SequenceType
    <3> QED
      BY <1>1, <2>2, <2>4, <2>5, <3>1, <3>2, <3>3 DEF JitterInv, JitterTypeOK, networkVars
  <2>7. SlotsInv'
    BY <1>1, <1>3, <1>4, <2>1, WidthFact DEF JitterInv, SlotsInv
  <2>8. PacketsAccounted'
    BY <2>2, <2>3, <2>4 DEF JitterInv, JitterTypeOK, PacketsAccounted
  <2> QED
    BY <1>1, <1>2, <2>1, <2>5, <2>6, <2>7, <2>8 DEF JitterInv, PlayoutInv
<1>6. CASE next \notin DOMAIN slots
  <2>1. /\ UNCHANGED <<last, slots, stats, networkVars, delivered, replaced>>
        /\ wait' = wait + 1
    BY <1>6 DEF Playout
  <2>2. next' \in Sequences /\ position' \in Nat
    BY <1>1, <1>2, SequenceType
  <2>3. JitterTypeOK'
    BY <1>1, <2>1, <2>2 DEF JitterInv, JitterTypeOK, networkVars, Depth
  <2>4. SlotsInv'
    BY <1>1, <1>3, <1>4, <1>6, <2>1, WidthFact DEF JitterInv, SlotsInv
  <2>5. PacketsAccounted'
    BY <2>1 DEF JitterInv, PacketsAccounted, Depth
  <2>6. last' < position'
    <3>1. last \in Int
      BY StreamAssumption DEF JitterInv, JitterTypeOK, Packets
    <3> QED
      BY <1>1, <2>1, <3>1 DEF JitterInv, PlayoutInv
  <2> QED
    BY <1>1, <1>2, <2>1, <2>3, <2>4, <2>5, <2>6 DEF JitterInv, PlayoutInv
<1> QED
  BY <1>5, <1>6

\* Neither the network nor the clock touches the buffer.
LEMMA EnvironmentPreserves ==
  ASSUME JitterInv, Send \/ (\E i \in Packets : Lose(i)) \/ FramePasses \/ UNCHANGED jitterVars
  PROVE  JitterInv' /\ stats'.played = stats.played
<1>1. UNCHANGED <<started, next, slots, stats, historyVars>>
  BY DEF Send, Lose, FramePasses, jitterVars, bufferVars
<1>2. /\ wait' \in Int /\ flight' \subseteq Packets
      /\ sent' \in 0 .. MaxSent /\ dups' \in 0 .. MaxDups
  <2>1. CASE Send
    BY <2>1, StreamAssumption DEF Send, bufferVars, JitterInv, JitterTypeOK, Packets
  <2>2. CASE \E i \in Packets : Lose(i)
    BY <2>2 DEF Lose, bufferVars, JitterInv, JitterTypeOK
  <2>3. CASE FramePasses
    BY <2>3 DEF FramePasses, networkVars, JitterInv, JitterTypeOK
  <2>4. CASE UNCHANGED jitterVars
    BY <2>4 DEF jitterVars, bufferVars, networkVars, JitterInv, JitterTypeOK
  <2> QED
    BY <2>1, <2>2, <2>3, <2>4
<1>3. JitterTypeOK'
  BY <1>1, <1>2 DEF JitterInv, JitterTypeOK, historyVars, Depth
<1> QED
  BY <1>1, <1>3
  DEF JitterInv, SlotsInv, PlayoutInv, PacketsAccounted, historyVars, Depth

\* An empty buffer satisfies the invariant.
LEMMA JitterInitHolds == JitterInit => JitterInv
<1> SUFFICES ASSUME JitterInit PROVE JitterInv
  OBVIOUS
<1>1. DOMAIN slots = {} /\ Depth(slots) = 0
  BY FS_EmptySet DEF JitterInit, Depth
<1>2. JitterTypeOK
  <2>1. 0 \in Sequences /\ 0 \in 0 .. MaxSent /\ 0 \in 0 .. MaxDups /\ 0 <= Capacity
    BY WidthFact, StreamAssumption, CapacityAssumption DEF Sequences
  <2>2. slots \in [DOMAIN slots -> Packets]
    BY <1>1 DEF JitterInit
  <2>3. stats \in [inserted : Nat, played : Nat, lateDrops : Nat]
    BY DEF JitterInit
  <2>4. /\ started \in BOOLEAN /\ next = 0 /\ wait = 0 /\ sent = 0 /\ flight = {}
        /\ dups = 0 /\ position = 0 /\ last = -1 /\ delivered = 0 /\ replaced = 0
    BY DEF JitterInit
  <2>5. DOMAIN slots \subseteq Sequences /\ Depth(slots) <= Capacity
    BY <1>1, <2>1
  <2>6. last \in Packets \cup {-1}
    BY <2>4
  <2> QED
    BY <2>1, <2>2, <2>3, <2>4, <2>5, <2>6 DEF JitterTypeOK
<1> QED
  BY <1>1, <1>2 DEF JitterInit, JitterInv, SlotsInv, PlayoutInv, PacketsAccounted

\* Every step keeps the invariant, and plays nothing out of order.
LEMMA JitterNextPreserves ==
  ASSUME JitterInv, [JitterNext]_jitterVars
  PROVE  JitterInv' /\ (stats'.played # stats.played => last' > last)
<1>1. CASE \E i \in Packets : Insert(i)
  BY <1>1, InsertPreserves
<1>2. CASE \E i \in Packets : DropLate(i)
  BY <1>2, DropLatePreserves
<1>3. CASE Playout
  BY <1>3, PlayoutPreserves
<1>4. CASE Send \/ (\E i \in Packets : Lose(i)) \/ FramePasses \/ UNCHANGED jitterVars
  BY <1>4, EnvironmentPreserves
<1> QED
  BY <1>1, <1>2, <1>3, <1>4 DEF JitterNext

-------------------------------------------------------------------------------
\* The inductive invariant holds in every reachable state of the buffer.
THEOREM JitterInvHolds == JitterSpec => []JitterInv
BY JitterInitHolds, JitterNextPreserves, PTL DEF JitterSpec

\* Types, and the cap of kMaxBufferedPackets that TrimOverflow keeps.
THEOREM JitterTypeCorrect == JitterSpec => []JitterTypeOK
<1>1. JitterInv => JitterTypeOK
  BY DEF JitterInv
<1> QED
  BY JitterInvHolds, <1>1, PTL

\* IsLate keeps out what is past its turn, and playout leaves nothing behind,
\* whatever the width of the sequence numbers and wherever they wrap around.
THEOREM BufferNeverStale == JitterSpec => []NothingStale
<1>1. JitterInv => NothingStale
  BY DEF JitterInv, SlotsInv, NothingStale
<1> QED
  BY JitterInvHolds, <1>1, PTL

\* m_stats accounts for every packet inserted, and the buffer keeps its cap.
THEOREM StatisticsAccount == JitterSpec => []BufferAccounted
<1>1. JitterInv => BufferAccounted
  BY DEF JitterInv, JitterTypeOK, BufferAccounted
<1> QED
  BY JitterInvHolds, <1>1, PTL

\* NextPlayoutFrame hands packets to the decoder in the order of the stream,
\* each at most once.
THEOREM PlayoutInOrder == JitterSpec => PlaysInOrder
<1>1. JitterInv /\ [JitterNext]_jitterVars => [stats'.played # stats.played => last' > last]_jitterVars
  BY JitterNextPreserves
<1> QED
  BY JitterInvHolds, <1>1, PTL DEF JitterSpec, PlaysInOrder
===============================================================================
