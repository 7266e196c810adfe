------------------------------ MODULE MCVoipEngine ------------------------------
(* Instances of VoipEngine for TLC. *)
EXTENDS VoipEngine, TLC

\* Two small packets for a call this client placed; for any other, the second is
\* too large for any queue.
PacketSizes == [c \in Calls |-> IF c \in Placed THEN <<1, 1>> ELSE <<1, 3>>]

\* The runs of StartMedia are interchangeable, and so are the threads that
\* deliver signaling and those that stop.
ThreadSymmetry ==
  Permutations(Starts) \cup Permutations(Signalers) \cup Permutations(Stoppers)
===============================================================================
