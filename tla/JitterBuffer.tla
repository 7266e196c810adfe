------------------------------ MODULE JitterBuffer ------------------------------
(***************************************************************************)
(* The playout buffer of a classic call, domain/voip_jitter_buffer.{h,cpp},*)
(* and the stream that feeds it.  One thread, MediaReceiveLoop, inserts    *)
(* what the socket received and then drains every frame that is due; the   *)
(* network may lose, duplicate, delay and reorder packets.                 *)
(*                                                                         *)
(* A packet is its index in the peer's stream; its sequence number is that *)
(* index in Width values, 2^16 in the code.  The peer's control packets    *)
(* use up indexes too: to the buffer they are packets lost.  Time is       *)
(* counted in frames of m_frameMs.  The payload, the timestamp and the     *)
(* smoothed jitter are left out: the target they yield is reported and     *)
(* never used, the first frame being due kMinTargetMs after the first      *)
(* arrival whatever comes later.                                           *)
(***************************************************************************)
EXTENDS Integers, FiniteSets

CONSTANTS
  HalfWidth,      \* half of the sequence number space: 2^15
  Capacity,       \* kMaxBufferedPackets
  TargetFrames,   \* kMinTargetMs in frames: the initial m_targetMs
  MaxSent,        \* bound: packets of the stream
  MaxFlight,      \* bound: packets in the network at once
  MaxDups,        \* bound: packets the network duplicates
  MaxLag          \* bound: frames by which draining may fall behind the clock

ASSUME WidthAssumption == HalfWidth \in Nat \ {0}
ASSUME CapacityAssumption == Capacity \in Nat \ {0}
ASSUME TargetAssumption == TargetFrames \in Nat
ASSUME StreamAssumption ==
  MaxSent \in Nat /\ MaxFlight \in Nat /\ MaxDups \in Nat /\ MaxLag \in Nat

Width     == 2 * HalfWidth
Sequences == 0 .. Width - 1
Packets   == 0 .. MaxSent - 1

VARIABLES
  started,     \* m_started
  next,        \* m_nextSequence
  slots,       \* m_slots: a function on the sequence numbers buffered
  wait,        \* frames until the next one is due; negative once it is late
  stats,       \* PacketsInserted, PacketsPlayed and LateDrops of m_stats
  sent,        \* packets the peer has sent
  flight,      \* packets in the network
  dups,        \* packets it has duplicated
  position,    \* history: index in the stream of the frame `next' stands for
  last,        \* history: the last packet played, -1 if none
  delivered,   \* history: packets Insert accepted or found late
  replaced     \* history: packets a duplicate took the slot of

bufferVars  == <<started, next, slots, wait, stats>>
networkVars == <<sent, flight, dups>>
historyVars == <<position, last, delivered, replaced>>
jitterVars == <<bufferVars, networkVars, historyVars>>

JitterInit ==
  /\ started = FALSE /\ next = 0 /\ slots = [q \in {} |-> 0] /\ wait = 0
  /\ stats = [inserted |-> 0, played |-> 0, lateDrops |-> 0]
  /\ sent = 0 /\ flight = {} /\ dups = 0
  /\ position = 0 /\ last = -1 /\ delivered = 0 /\ replaced = 0

-------------------------------------------------------------------------------
(* The arithmetic of uint16_t sequence numbers.                             *)

Sequence(i) == i % Width
Successor(q) == IF q = Width - 1 THEN 0 ELSE q + 1

\* a - b in uint16_t.
Minus(a, b) == IF a >= b THEN a - b ELSE a - b + Width

\* Faulty variant: sequence numbers compared as plain integers.
PlainBefore(a, b) == a < b

\* SequenceBefore: that difference, read as an int16_t, is negative.
SequenceBefore(a, b) == Minus(a, b) >= HalfWidth

-------------------------------------------------------------------------------
(* The network.                                                             *)

Send ==
  /\ sent < MaxSent /\ Cardinality(flight) < MaxFlight
  /\ sent' = sent + 1
  /\ flight' = flight \cup {sent}
  /\ UNCHANGED <<bufferVars, dups, historyVars>>

Lose(i) ==
  /\ i \in flight
  /\ flight' = flight \ {i}
  /\ UNCHANGED <<bufferVars, sent, dups, historyVars>>

\* Packets do not live in the network for half a turn of the sequence numbers
\* (eleven minutes), nor does the peer run a whole turn ahead of playout.
PacketArrives(i) ==
  /\ i \in flight
  /\ started => position - i <= HalfWidth /\ i - position < Width
  /\ \/ flight' = flight \ {i} /\ UNCHANGED dups
     \/ dups < MaxDups /\ dups' = dups + 1 /\ UNCHANGED flight
  /\ UNCHANGED sent

-------------------------------------------------------------------------------
(* Insert.                                                                  *)

Depth(m) == Cardinality(DOMAIN m)

Lowest(S) == CHOOSE q \in S : \A p \in S : q <= p

Put(m, q, i) == [p \in DOMAIN m \cup {q} |-> IF p = q THEN i ELSE m[p]]
Without(m, q) == [p \in DOMAIN m \ {q} |-> m[p]]

\* TrimOverflow erases from the front of a std::map: the numerically lowest
\* key.  An insertion adds one slot, so the loop runs once at most.
Overflows(m) == Depth(m) > Capacity
TrimOverflow(m) ==
  IF Overflows(m) THEN Without(m, Lowest(DOMAIN m)) ELSE m

\* Faulty variant: the buffer is trimmed without counting the packet.
InsertUncounted(i) ==
  LET q == Sequence(i)
      m == Put(slots, q, i)
  IN /\ PacketArrives(i)
     /\ ~(started /\ SequenceBefore(q, next))
     /\ slots' = TrimOverflow(m)
     /\ stats' = [stats EXCEPT !.inserted = @ + 1]
     /\ replaced' = replaced + (IF q \in DOMAIN slots THEN 1 ELSE 0)
     /\ delivered' = delivered + 1
     /\ IF started
        THEN UNCHANGED <<started, next, wait, position>>
        ELSE started' = TRUE /\ next' = q /\ wait' = TargetFrames /\ position' = i
     /\ UNCHANGED last

Insert(i) ==
  LET q == Sequence(i)
      m == Put(slots, q, i)
  IN /\ PacketArrives(i)
     /\ ~(started /\ SequenceBefore(q, next))
     /\ slots' = TrimOverflow(m)
     /\ stats' = [inserted  |-> stats.inserted + 1,
                  played    |-> stats.played,
                  lateDrops |-> stats.lateDrops + (IF Overflows(m) THEN 1 ELSE 0)]
     /\ replaced' = replaced + (IF q \in DOMAIN slots THEN 1 ELSE 0)
     /\ delivered' = delivered + 1
     /\ IF started
        THEN UNCHANGED <<started, next, wait, position>>
        ELSE started' = TRUE /\ next' = q /\ wait' = TargetFrames /\ position' = i
     /\ UNCHANGED last

DropLate(i) ==
  /\ PacketArrives(i)
  /\ started /\ SequenceBefore(Sequence(i), next)
  /\ stats' = [stats EXCEPT !.lateDrops = @ + 1]
  /\ delivered' = delivered + 1
  /\ UNCHANGED <<started, next, slots, wait, position, last, replaced>>

-------------------------------------------------------------------------------
(* NextPlayoutFrame, called until it finds no frame due.                    *)

FramePasses ==
  /\ started /\ wait > -MaxLag
  /\ wait' = wait - 1
  /\ UNCHANGED <<started, next, slots, stats, networkVars, historyVars>>

\* Faulty variant: a concealed frame does not advance the sequence number.
PlayoutWaits ==
  /\ started /\ wait <= 0 /\ position < MaxSent
  /\ wait' = wait + 1
  /\ IF next \in DOMAIN slots
     THEN /\ last' = slots[next]
          /\ slots' = Without(slots, next)
          /\ stats' = [stats EXCEPT !.played = @ + 1]
          /\ next' = Successor(next)
     ELSE UNCHANGED <<last, slots, stats, next>>
  /\ position' = position + 1
  /\ UNCHANGED <<started, networkVars, delivered, replaced>>

\* Faulty variant: the front of the map is played, whichever packet is due.
PlayoutFront ==
  /\ started /\ wait <= 0 /\ position < MaxSent
  /\ wait' = wait + 1
  /\ IF DOMAIN slots # {}
     THEN LET q == Lowest(DOMAIN slots)
          IN /\ last' = slots[q]
             /\ slots' = Without(slots, q)
             /\ stats' = [stats EXCEPT !.played = @ + 1]
     ELSE UNCHANGED <<last, slots, stats>>
  /\ next' = Successor(next)
  /\ position' = position + 1
  /\ UNCHANGED <<started, networkVars, delivered, replaced>>

\* A packet is played, or its absence concealed: either way playout moves on.
\* (Bound: no frame is drawn once the stream's last one was.)
Playout ==
  /\ started /\ wait <= 0 /\ position < MaxSent
  /\ wait' = wait + 1
  /\ IF next \in DOMAIN slots
     THEN /\ last' = slots[next]
          /\ slots' = Without(slots, next)
          /\ stats' = [stats EXCEPT !.played = @ + 1]
     ELSE UNCHANGED <<last, slots, stats>>
  /\ next' = Successor(next)
  /\ position' = position + 1
  /\ UNCHANGED <<started, networkVars, delivered, replaced>>

JitterNext ==
  \/ Send
  \/ \E i \in Packets : Lose(i) \/ Insert(i) \/ DropLate(i)
  \/ FramePasses
  \/ Playout

JitterSpec == JitterInit /\ [][JitterNext]_jitterVars

(***************************************************************************)
(* MediaReceiveLoop wakes once per frame whether or not a packet comes in. *)
(***************************************************************************)
JitterFairSpec == JitterSpec /\ WF_jitterVars(FramePasses) /\ WF_jitterVars(Playout)

-------------------------------------------------------------------------------
(* Properties.                                                              *)

\* Types, and the buffer's cap of Capacity packets.
JitterTypeOK ==
  /\ started \in BOOLEAN
  /\ next \in Sequences
  /\ DOMAIN slots \subseteq Sequences
  /\ slots \in [DOMAIN slots -> Packets]
  /\ Depth(slots) <= Capacity
  /\ wait \in Int
  /\ stats \in [inserted : Nat, played : Nat, lateDrops : Nat]
  /\ sent \in 0..MaxSent /\ flight \subseteq Packets /\ dups \in 0..MaxDups
  /\ position \in Nat /\ last \in Packets \cup {-1}
  /\ delivered \in Nat /\ replaced \in Nat

\* No buffered packet is already past its turn, across the wrap-around of the
\* sequence numbers too: such a slot would be held until the numbers came
\* round to it again, eleven minutes later.
NothingStale == \A q \in DOMAIN slots : slots[q] >= position

\* The statistics account for every packet: it is still buffered, or counted
\* as played or dropped, unless a duplicate overwrote it.
PacketsAccounted ==
  delivered = stats.played + stats.lateDrops + Depth(slots) + replaced

\* A burst does not grow the buffer beyond its cap, and what the cap cost is
\* counted with the late ones.
BufferAccounted == Depth(slots) <= Capacity /\ PacketsAccounted

\* However packets are reordered and duplicated, and wherever their sequence
\* numbers wrap around, none is played twice or after a later one.
PlaysInOrder == [][stats'.played # stats.played => last' > last]_jitterVars

\* Every packet that was buffered leaves the buffer.
EverySlotDrains ==
  \A q \in Sequences : q \in DOMAIN slots ~> q \notin DOMAIN slots
===============================================================================
