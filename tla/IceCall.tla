-------------------------------- MODULE IceCall --------------------------------
(***************************************************************************)
(* The ICE phase of a call seen from both ends: two IceAgents, the retry   *)
(* timers of the TgcallsConnections that own them, and a reflector that    *)
(* may lose, duplicate and reorder what they send each other.              *)
(*                                                                         *)
(* Each handler is one step here; what its threads may do in between is    *)
(* the subject of TgcallsConnection.  Every datagram is taken to come from *)
(* m_reflectors[0].  A peer lists the addresses it likes: this client its  *)
(* host addresses only (EmitCandidates), another one its relays too.  An   *)
(* agent that is not told of the reflector answers and never selects.      *)
(***************************************************************************)
EXTENDS Naturals, IceAgent

CONSTANTS
  Reflector0,    \* the address every datagram seems to come from
  MaxAttempts    \* ticks of a retry timer before it gives up: 20 in the code

ASSUME ReflectorAssumption == Reflector0 \in Candidates
ASSUME AttemptsAssumption == MaxAttempts \in Nat

Side == Roles
Peer(x) == IF x = "Controlling" THEN "Controlled" ELSE "Controlling"

VARIABLES
  agent,      \* m_iceAgent of each end
  state,      \* m_state of each end
  attempts,   \* m_iceAttempts of each end
  armed,      \* whether its retry timer runs
  net         \* datagrams between the two, each with the end it goes to

iceVars == <<agent, state, attempts, armed, net>>

IceInit ==
  /\ agent = [x \in Side |-> NoAgent]
  /\ state = [x \in Side |-> "IceConnecting"]
  /\ attempts = [x \in Side |-> 0]
  /\ armed = [x \in Side |-> FALSE]
  /\ net = {}

To(x, kind) == [to |-> x, kind |-> kind]

\* What one round of checks puts on the wire.
Checks(x, a) ==
  {To(Peer(x), IF b.useCandidate THEN "requestUseCandidate" ELSE "request") :
     b \in BindingRequests(a)}

-------------------------------------------------------------------------------
\* StartIcePhase: an agent with the peer's candidates, those of them it can
\* parse, the first checks, the retry timer.
StartIcePhase(x) ==
  /\ agent[x] = NoAgent
  /\ \E remote \in SUBSET Candidates :
       LET a == NewAgent(x, remote) IN
         /\ agent' = [agent EXCEPT ![x] = AfterBindingRequests(a)]
         /\ net' = net \cup Checks(x, a)
  /\ armed' = [armed EXCEPT ![x] = TRUE]
  /\ UNCHANGED <<state, attempts>>

\* The retry timer's handler.
Retry(x) ==
  /\ armed[x] /\ state[x] = "IceConnecting" /\ attempts[x] < MaxAttempts
  /\ net' = net \cup Checks(x, agent[x])
  /\ agent' = [agent EXCEPT ![x] = AfterBindingRequests(@)]
  /\ attempts' = [attempts EXCEPT ![x] = @ + 1]
  /\ UNCHANGED <<state, armed>>

\* Faulty variant: the timer dies and nobody is told.
GiveUpSilently(x) ==
  /\ armed[x] /\ state[x] = "IceConnecting" /\ attempts[x] >= MaxAttempts
  /\ armed' = [armed EXCEPT ![x] = FALSE]
  /\ UNCHANGED <<agent, state, attempts, net>>

GiveUp(x) ==
  /\ armed[x] /\ state[x] = "IceConnecting" /\ attempts[x] >= MaxAttempts
  /\ state' = [state EXCEPT ![x] = "Failed"]
  /\ armed' = [armed EXCEPT ![x] = FALSE]
  /\ UNCHANGED <<agent, attempts, net>>

\* Faulty variant: the agent is not asked whether the message selects a pair.
ReceiveTrusting(x, kind) ==
  /\ To(x, kind) \in net /\ agent[x] # NoAgent
  /\ agent' = [agent EXCEPT ![x].connected = TRUE]
  /\ state' = [state EXCEPT ![x] = IF @ = "IceConnecting" THEN "DtlsHandshaking" ELSE @]
  /\ armed' = [armed EXCEPT ![x] = @ /\ state[x] # "IceConnecting"]
  /\ net' = net \ {To(x, kind)}
  /\ UNCHANGED attempts

\* OnReflectorDatagram, the STUN branch: ProcessIncoming, the response it
\* builds, and OnIceConnected when a pair was selected.
Receive(x, kind) ==
  /\ To(x, kind) \in net /\ agent[x] # NoAgent
  /\ LET selected  == Selects(agent[x], kind, Reflector0, agent[x].connected)
         connects  == selected /\ state[x] = "IceConnecting"
         responses == IF kind = "response" THEN {} ELSE {To(Peer(x), "response")}
     IN /\ agent' = [agent EXCEPT
              ![x] = AfterIncoming(@, kind, Reflector0, @.connected)]
        /\ \E consumed \in {{}, {To(x, kind)}} :
             net' = (net \ consumed) \cup responses
        /\ state' = [state EXCEPT ![x] = IF connects THEN "DtlsHandshaking" ELSE @]
        /\ armed' = [armed EXCEPT ![x] = @ /\ ~connects]
  /\ UNCHANGED attempts

\* A datagram is lost: in the network, or because there is no agent yet.
LoseDatagram(m) ==
  /\ net' = net \ {m}
  /\ UNCHANGED <<agent, state, attempts, armed>>

IceNext ==
  \/ \E x \in Side :
       \/ StartIcePhase(x)
       \/ Retry(x)
       \/ GiveUp(x)
       \/ \E kind \in StunMessages : Receive(x, kind)
  \/ \E m \in net : LoseDatagram(m)

IceSpec == IceInit /\ [][IceNext]_iceVars

(***************************************************************************)
(* Both ends have the other's credentials and their timers fire; of a      *)
(* datagram sent again and again, one arrives in the end.                  *)
(***************************************************************************)
IceFairSpec ==
  /\ IceSpec
  /\ \A x \in Side :
       /\ WF_iceVars(StartIcePhase(x))
       /\ WF_iceVars(Retry(x) \/ GiveUp(x))
       /\ \A kind \in StunMessages : SF_iceVars(Receive(x, kind))

-------------------------------------------------------------------------------
(* Properties.                                                              *)

\* Types of the variables.
IceTypeOK ==
  /\ agent \in [Side -> Agent \cup {NoAgent}]
  /\ state \in [Side -> {"IceConnecting", "DtlsHandshaking", "Failed"}]
  /\ attempts \in [Side -> 0..MaxAttempts]
  /\ armed \in [Side -> BOOLEAN]
  /\ net \subseteq [to : Side, kind : StunMessages]

\* Either end goes on to DTLS only if the other has an agent that answers it.
SelectionNeedsPeer ==
  \A x \in Side : state[x] = "DtlsHandshaking" =>
    agent[Peer(x)] # NoAgent /\ Reflector0 \in agent[x].succeeded

\* The controlled end goes on to DTLS only on a pair the controlling end has
\* nominated, and that has worked for the controlling end.
ControlledNeedsNomination ==
  agent["Controlled"] # NoAgent /\ agent["Controlled"].connected =>
    /\ agent["Controlling"] # NoAgent
    /\ Reflector0 \in agent["Controlling"].nominated
    /\ Reflector0 \in agent["Controlling"].succeeded

\* Neither end goes on to DTLS by itself: the other answered, and the
\* controlled end was nominated on a pair that works for both.
SelectionIsEarned == SelectionNeedsPeer /\ ControlledNeedsNomination

\* A check that carries USE-CANDIDATE is only in the network because the
\* controlling end saw the pair work; the pair is not going to be nominated
\* again (GetBindingRequestsToSend).
NominationsAreEarned ==
  \A x \in Side : To(x, "requestUseCandidate") \in net =>
    /\ x = "Controlled" /\ agent["Controlling"] # NoAgent
    /\ Reflector0 \in agent["Controlling"].succeeded
    /\ ToNominate(agent["Controlling"]) = {}

\* Each end decides, whatever the network loses: it goes on or it gives up.
EachEndDecides == \A x \in Side : agent[x] # NoAgent ~> state[x] # "IceConnecting"

\* ice_agent.cpp on the controlling side: it "selects on first successful
\* response, then re-issues a USE-CANDIDATE check on next
\* GetBindingRequestsToSend".
SelectedIsNominated ==
  agent["Controlling"] # NoAgent /\ agent["Controlling"].connected
    ~> agent["Controlling"] # NoAgent /\ Reflector0 \in agent["Controlling"].nominated
===============================================================================
