----------------------------- MODULE MCMediaStream -----------------------------
(* Instances of MediaStream for TLC.                                          *)
EXTENDS MediaStream

\* We talk past the wrap of our sequence numbers, the peer past the wrap of its
\* own, or both a little: the two directions share the device, the pump's start
\* and Stop, and nothing else.
MCBounds ==
  {[frames |-> 4, peerFrames |-> 0, mutes |-> 1, faults |-> 1],
   [frames |-> 0, peerFrames |-> 2, mutes |-> 0, faults |-> 1],
   [frames |-> 2, peerFrames |-> 1, mutes |-> 1, faults |-> 0]}

\* Nobody listens; the microphone speaks once around the sequence numbers.
RolloverBounds == {[frames |-> 5, peerFrames |-> 0, mutes |-> 0, faults |-> 0]}
===============================================================================
