------------------------------- MODULE IceAgent -------------------------------
(***************************************************************************)
(* The ICE connectivity-check controller of application/ice_agent.{h,cpp}. *)
(*                                                                         *)
(* An agent is a value: the class has no lock and no thread of its own, so *)
(* the modules that own one (TgcallsConnection, IceCall) decide who calls  *)
(* it and when.  STUN encoding, MESSAGE-INTEGRITY and priorities are left  *)
(* out: a message that fails verification is ProcessResult_Other, which is *)
(* no step at all.                                                         *)
(***************************************************************************)

CONSTANT Candidates      \* transport addresses a peer may advertise

Roles == {"Controlling", "Controlled"}

NoAgent == [role |-> "none"]

(***************************************************************************)
(* targets: the pairs of m_pairs, keyed by their address; succeeded and    *)
(* nominated: the pairs whose Succeeded and UseCandidateSent flags are set.*)
(***************************************************************************)
Agent == [role      : Roles,
          targets   : SUBSET Candidates,
          succeeded : SUBSET Candidates,
          nominated : SUBSET Candidates,
          connected : BOOLEAN]

\* Constructor, then AddRemoteCandidate for each: FindPair drops repeats.
NewAgent(r, remote) ==
  [role |-> r, targets |-> remote, succeeded |-> {}, nominated |-> {},
   connected |-> FALSE]

\* Faulty variant: a pair is nominated whether it has worked or not.
ToNominateUntried(a) ==
  IF a.role = "Controlling" THEN a.targets \ a.nominated ELSE {}

\* The pairs whose next binding request carries USE-CANDIDATE.
ToNominate(a) ==
  IF a.role = "Controlling" THEN a.succeeded \ a.nominated ELSE {}

\* GetBindingRequestsToSend: one request per pair, flagged as ToNominate says.
BindingRequests(a) ==
  {[target |-> c, useCandidate |-> c \in ToNominate(a)] : c \in a.targets}

\* ... and what the call leaves in the agent.
AfterBindingRequests(a) ==
  [a EXCEPT !.nominated = @ \cup ToNominate(a)]

\* Faulty variant: a controlled agent takes any request for a nomination.
SelectsOnAnyRequest(a, msg, src, seen) ==
  /\ src \in a.targets
  /\ ~seen
  /\ (msg = "response") <=> (a.role = "Controlling")

\* ProcessIncoming, first half: does this message select its pair?  `seen'
\* is the value of m_connected the caller read: the class does not lock.
Selects(a, msg, src, seen) ==
  /\ src \in a.targets
  /\ ~seen
  /\ \/ msg = "requestUseCandidate" /\ a.role = "Controlled"
     \/ msg = "response" /\ a.role = "Controlling"

\* ProcessIncoming, second half: the pair it came from has succeeded.
AfterIncoming(a, msg, src, seen) ==
  [a EXCEPT !.succeeded = IF src \in a.targets THEN @ \cup {src} ELSE @,
            !.connected = @ \/ Selects(a, msg, src, seen)]

StunMessages == {"request", "requestUseCandidate", "response"}
===============================================================================
