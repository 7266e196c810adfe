----------------------------- MODULE SignalingRelay -----------------------------
(***************************************************************************)
(* What the engine promises about a peer's signaling packets: each one     *)
(* that arrives is handed on at most once, and one that was lost does not  *)
(* come back.  It promises neither that a packet is handed on nor in which *)
(* order.                                                                  *)
(***************************************************************************)
CONSTANT Packets

VARIABLES
  arrived,    \* the packets that were received
  waiting,    \* those the engine still holds
  handed      \* those it has handed to a media connection

relay == <<arrived, waiting, handed>>

Init == arrived = {} /\ waiting = {} /\ handed = {}

\* A packet arrives; it, or others, may be lost to make room.
Receive(p) ==
  /\ p \notin arrived
  /\ arrived' = arrived \cup {p}
  /\ UNCHANGED handed
  /\ waiting' \subseteq waiting \cup {p}

Hand(p) ==
  /\ UNCHANGED arrived
  /\ handed' = handed \cup {p}
  /\ p \in waiting
  /\ waiting' = waiting \ {p}

Lose ==
  /\ UNCHANGED <<arrived, handed>>
  /\ waiting' \subseteq waiting

Next == Lose \/ \E p \in Packets : Receive(p) \/ Hand(p)

Spec == Init /\ [][Next]_relay
===============================================================================
