-------------------------- MODULE MCTgcallsConnection --------------------------
(* Small instances of TgcallsConnection for TLC.                            *)
EXTENDS TgcallsConnection, TLC

\* Threads of one kind are interchangeable; the safety runs use that.
ThreadSymmetry ==
  Permutations(Signalers) \cup Permutations(Receivers) \cup
  Permutations(Stoppers) \cup Permutations(Captures)
===============================================================================
