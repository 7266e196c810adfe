----------------------- MODULE TgcallsConnection_proofs -----------------------
(***************************************************************************)
(* Machine-checked proofs about one call, for any number of threads, any   *)
(* set of candidates and any retry budget.                                 *)
(***************************************************************************)
EXTENDS TgcallsConnection, TLAPS

\* Nothing has happened to an object whose Start has not run.
StartInv ==
  /\ started => state # "Connecting"
  /\ \A s \in Signalers : sig[s].pc # "idle" => started
  /\ state = "Connecting" =>
       /\ owned = {} /\ sessions = 0
       /\ \A r \in Receivers : rx[r].pc = "idle"

\* The latch lets one thread at a time, and only one ever, build an agent.
LatchInv ==
  /\ ~iceStarted => agents = 0
  /\ agents <= 1
  /\ agents = 0 <=> iceAgent = NoAgent
  /\ "agent" \in owned => agents = 1
  /\ \A r \in Receivers : rx[r].pc = "stun" => agents = 1
  /\ \A s \in Signalers :
       /\ sig[s].pc = "publish" => iceStarted /\ agents = 0
       /\ sig[s].pc = "firstSend" => agents = 1
       /\ sig[s].pc \in {"arm", "storeTimer"} => agents = 1
  /\ \A s, u \in Signalers :
       sig[s].pc \in {"publish", "firstSend"} /\ sig[u].pc \in {"publish", "firstSend"}
         => s = u

\* The certificate is in the member, in the hands of one thread, or used up.
CertInv ==
  /\ sessions <= 1
  /\ "cert" \in owned => sessions = 0
  /\ \A r \in Receivers : rx[r].pc = "initiate" => "cert" \notin owned /\ sessions = 0
  /\ \A r, q \in Receivers : rx[r].pc = "initiate" /\ rx[q].pc = "initiate" => r = q

\* What a thread between selection and StartDtlsPhase knows.
SelectInv ==
  /\ \A r \in Receivers :
       rx[r].pc \in {"iceConnected", "cancelTimer", "checkDtls", "enterDtls",
                     "takeCert", "initiate"} => agents = 1 /\ iceAgent.connected
  /\ sessions = 1 => agents = 1 /\ iceAgent.connected
  /\ HandshakeFollowsSelection

\* What a thread inside StartAudioPhase knows.
KeysInv ==
  /\ dtls = "established" => established
  /\ "dtls" \in owned => sessions = 1
  /\ established => sessions = 1
  /\ srtpReady => established
  /\ \A r \in Receivers :
       rx[r].pc \in {"installSrtp", "resetAudio", "openAudio", "connect"} => established

\* Only Stop takes the keys away, and it says so first.
ReadyInv ==
  /\ \A t \in Stoppers : stop[t].pc \in {"stopLoop", "join", "stopTimer", "release"} => stopped
  /\ \A r \in Receivers :
       rx[r].pc \in {"resetAudio", "openAudio", "connect"} /\ ~stopped => srtpReady
  /\ ConnectedHasKeys

\* Batches are counted against m_iceAttempts, which one agent resets once.
BudgetInv ==
  /\ tick = "send" => iceAttempts < MaxAttempts
  /\ agents = 0 => batches = 0 /\ ~timer.live /\ tick = "idle"
  /\ batches <= iceAttempts + 1
  /\ \A s \in Signalers : sig[s].pc = "firstSend" => batches <= iceAttempts

IInv == TypeOK /\ StartInv /\ LatchInv /\ CertInv /\ SelectInv /\ KeysInv /\
        ReadyInv /\ BudgetInv

\* Sending binding requests keeps an agent an agent, and its verdict.
LEMMA AgentType ==
  ASSUME NEW a \in Agent
  PROVE  /\ a.connected \in BOOLEAN
         /\ AfterBindingRequests(a) \in Agent
         /\ AfterBindingRequests(a).connected = a.connected
<1>1. ToNominate(a) \subseteq Candidates
  BY DEF ToNominate, Agent
<1> QED
  BY <1>1 DEF AfterBindingRequests, Agent

\* So does an incoming check; one that selects a pair makes it connected.
LEMMA AgentIncoming ==
  ASSUME NEW a \in Agent, NEW msg, NEW src, NEW seen \in BOOLEAN
  PROVE  /\ AfterIncoming(a, msg, src, seen) \in Agent
         /\ a.connected \/ Selects(a, msg, src, seen)
              => AfterIncoming(a, msg, src, seen).connected
<1>1. Selects(a, msg, src, seen) \in BOOLEAN
  BY DEF Selects
<1>2. (a.connected \/ Selects(a, msg, src, seen)) \in BOOLEAN
  BY <1>1 DEF Agent
<1> QED
  BY <1>2 DEF AfterIncoming, Agent

\* What StartIcePhase builds is an agent ...
LEMMA NewAgentType ==
  ASSUME NEW r \in Roles, NEW S \in SUBSET Candidates
  PROVE  NewAgent(r, S) \in Agent
BY DEF NewAgent, Agent

\* ... and a null m_iceAgent is not one.
LEMMA NoAgentIsNoAgent == NoAgent \notin Agent
BY DEF NoAgent, Agent, Roles

\* Moving one thread leaves the others where they stand.
LEMMA ThreadPut ==
  ASSUME NEW D, NEW R, NEW f \in [D -> R], NEW d \in D, NEW h \in R
  PROVE  /\ [f EXCEPT ![d] = h] \in [D -> R]
         /\ [f EXCEPT ![d] = h][d] = h
         /\ \A e \in D \ {d} : [f EXCEPT ![d] = h][e] = f[e]
OBVIOUS

\* A datagram callback's resting places are program points.
LEMMA RxIdleType ==
  /\ RxIdle \in RxThread /\ RxIdle.pc = "idle"
  /\ RxAt("iceConnected") \in RxThread /\ RxAt("iceConnected").pc = "iceConnected"
BY DEF RxIdle, RxAt, RxThread

\* Returning from a datagram callback.
LEMMA RxReturns ==
  ASSUME ThreadType, NEW r \in Receivers, RxReturn(r)
  PROVE  /\ rx' \in [Receivers -> RxThread] /\ rx'[r].pc = "idle"
         /\ \A q \in Receivers \ {r} : rx'[q] = rx[q]
BY ThreadPut, RxIdleType DEF ThreadType, RxReturn

\* Going on, inside a datagram callback, to where a test leads.
LEMMA RxGoes ==
  ASSUME ThreadType, NEW r \in Receivers,
         NEW pc \in {"cancelTimer", "enterDtls", "installSrtp", "fail"}, RxGoto(r, pc)
  PROVE  /\ rx' \in [Receivers -> RxThread] /\ rx'[r].pc = pc
         /\ \A q \in Receivers \ {r} : rx'[q] = rx[q]
BY DEF ThreadType, RxGoto, RxThread

\* Returning from a signaling delivery.
LEMMA SigReturns ==
  ASSUME ThreadType, NEW s \in Signalers, SigReturn(s)
  PROVE  /\ sig' \in [Signalers -> SigThread] /\ sig'[s].pc = "idle"
         /\ \A u \in Signalers \ {s} : sig'[u] = sig[u]
BY DEF ThreadType, SigReturn, SigIdle, SigThread

\* Start runs before any other thread can reach the object.
LEMMA StartPreserves ==
  ASSUME IInv, Start
  PROVE  IInv'
<1> USE DEF IInv
<1>1. ASSUME Start PROVE IInv'
  <2>1. TypeOK'
    <3>1. CallType'
      BY <1>1
      DEF TypeOK, CallType, States, Members, Start, signalingVars, iceVars,
          dtlsVars, audioVars
    <3> QED
      BY <1>1, <3>1
      DEF TypeOK, SignalingType, IceType, AudioType, ThreadType, HistoryType,
          Start, signalingVars, iceVars, dtlsVars, audioVars
  <2>2. StartInv'
    BY <1>1 DEF StartInv, Start, dtlsVars
  <2>3. LatchInv'
    BY <1>1 DEF LatchInv, Start, iceVars
  <2>4. CertInv'
    BY <1>1 DEF CertInv, StartInv, Start, dtlsVars
  <2>5. SelectInv'
    BY <1>1 DEF SelectInv, HandshakeFollowsSelection, Start, iceVars, dtlsVars
  <2>6. KeysInv'
    BY <1>1 DEF KeysInv, Start, dtlsVars, audioVars
  <2>7. ReadyInv'
    BY <1>1 DEF ReadyInv, ConnectedHasKeys, Start, audioVars
  <2> QED
    BY <1>1, <2>1, <2>2, <2>3, <2>4, <2>5, <2>6, <2>7
    DEF Start, signalingVars, iceVars, dtlsVars, audioVars, BudgetInv
<1> QED BY <1>1

\* Signaling deliveries: only the latch decides who builds the agent.
LEMMA SignalingPreserves ==
  ASSUME IInv, NEW s \in Signalers, SigInput(s) \/ SigStep(s)
  PROVE  IInv'
<1> USE DEF IInv
<1>1. ASSUME NEW fp \in BOOLEAN, OnPeerInitialSetup(s, fp) PROVE IInv'
  <2>1. /\ sig' \in [Signalers -> SigThread] /\ sig'[s].pc = "snapshot"
        /\ \A u \in Signalers \ {s} : sig'[u] = sig[u]
    BY <1>1 DEF TypeOK, ThreadType, SigThread, OnPeerInitialSetup, SigGoto
  <2>2. TypeOK'
    <3>1. SignalingType'
      BY <1>1
      DEF TypeOK, SignalingType, OnPeerInitialSetup, SigGoto, iceVars,
          dtlsVars, audioVars, stopVars
    <3>2. ThreadType'
      BY <1>1, <2>1
      DEF TypeOK, ThreadType, OnPeerInitialSetup, iceVars, dtlsVars, audioVars,
          stopVars
    <3> QED
      BY <1>1, <3>1, <3>2
      DEF TypeOK, CallType, IceType, AudioType, HistoryType,
          OnPeerInitialSetup, iceVars, dtlsVars, audioVars, stopVars
  <2>3. StartInv'
    BY <1>1, <2>1 DEF StartInv, OnPeerInitialSetup, dtlsVars, stopVars
  <2>4. LatchInv'
    BY <1>1, <2>1 DEF LatchInv, OnPeerInitialSetup, iceVars
  <2>5. BudgetInv'
    BY <1>1, <2>1 DEF BudgetInv, OnPeerInitialSetup, iceVars
  <2> QED
    BY <1>1, <2>1, <2>2, <2>3, <2>4, <2>5
    DEF OnPeerInitialSetup, iceVars, dtlsVars, audioVars, stopVars, CertInv,
        SelectInv, KeysInv, ReadyInv, HandshakeFollowsSelection,
        ConnectedHasKeys
<1>2. ASSUME NEW c \in Candidates, OnPeerCandidates(s, {c}) PROVE IInv'
  <2>1. /\ sig' \in [Signalers -> SigThread] /\ sig'[s].pc = "snapshot"
        /\ \A u \in Signalers \ {s} : sig'[u] = sig[u]
    BY <1>2 DEF TypeOK, ThreadType, SigThread, OnPeerCandidates, SigGoto
  <2>2. TypeOK'
    <3>1. SignalingType'
      BY <1>2
      DEF TypeOK, SignalingType, OnPeerCandidates, SigGoto, iceVars, dtlsVars,
          audioVars, stopVars
    <3>2. ThreadType'
      BY <1>2, <2>1
      DEF TypeOK, ThreadType, OnPeerCandidates, iceVars, dtlsVars, audioVars,
          stopVars
    <3> QED
      BY <1>2, <3>1, <3>2
      DEF TypeOK, CallType, IceType, AudioType, HistoryType, OnPeerCandidates,
          iceVars, dtlsVars, audioVars, stopVars
  <2>3. StartInv'
    BY <1>2, <2>1 DEF StartInv, OnPeerCandidates, dtlsVars, stopVars
  <2>4. LatchInv'
    BY <1>2, <2>1 DEF LatchInv, OnPeerCandidates, iceVars
  <2>5. BudgetInv'
    BY <1>2, <2>1 DEF BudgetInv, OnPeerCandidates, iceVars
  <2> QED
    BY <1>2, <2>1, <2>2, <2>3, <2>4, <2>5
    DEF OnPeerCandidates, iceVars, dtlsVars, audioVars, stopVars, CertInv,
        SelectInv, KeysInv, ReadyInv, HandshakeFollowsSelection,
        ConnectedHasKeys
<1>3. ASSUME IceSnapshot(s) PROVE IInv'
  <2>1. /\ sig' \in [Signalers -> SigThread] /\ sig'[s].pc \in {"idle", "latch"}
        /\ \A u \in Signalers \ {s} : sig'[u] = sig[u]
    <3>1. CASE SigReturn(s)
      BY <3>1, SigReturns DEF TypeOK
    <3>2. CASE sig' = [sig EXCEPT ![s] = [pc |-> "latch", snap |-> peerCandidates]]
      BY <3>2 DEF TypeOK, ThreadType, SignalingType, SigThread
    <3> QED
      BY <1>3, <3>1, <3>2 DEF IceSnapshot
  <2>2. TypeOK'
    <3>1. ThreadType'
      BY <1>3, <2>1
      DEF TypeOK, ThreadType, IceSnapshot, signalingVars, iceVars, dtlsVars,
          audioVars, stopVars
    <3> QED
      BY <1>3, <3>1
      DEF TypeOK, CallType, SignalingType, IceType, AudioType, HistoryType,
          IceSnapshot, signalingVars, iceVars, dtlsVars, audioVars, stopVars
  <2>3. StartInv'
    BY <1>3, <2>1 DEF StartInv, IceSnapshot, dtlsVars, stopVars
  <2>4. LatchInv'
    BY <1>3, <2>1 DEF LatchInv, IceSnapshot, iceVars
  <2>5. BudgetInv'
    BY <1>3, <2>1 DEF BudgetInv, IceSnapshot, iceVars
  <2> QED
    BY <1>3, <2>1, <2>2, <2>3, <2>4, <2>5
    DEF IceSnapshot, signalingVars, iceVars, dtlsVars, audioVars, stopVars,
        CertInv, SelectInv, KeysInv, ReadyInv, HandshakeFollowsSelection,
        ConnectedHasKeys
<1>4. ASSUME IceLatch(s) PROVE IInv'
  <2>1. /\ sig' \in [Signalers -> SigThread] /\ sig'[s].pc \in {"idle", "publish"}
        /\ \A u \in Signalers \ {s} : sig'[u] = sig[u]
    BY <1>4
    DEF TypeOK, ThreadType, SigThread, IceLatch, SigReturn, SigIdle, SigGoto
  <2>2. TypeOK'
    <3>1. IceType'
      BY <1>4
      DEF TypeOK, IceType, IceLatch, SigReturn, SigIdle, SigGoto,
          signalingVars, dtlsVars, audioVars, stopVars
    <3>2. ThreadType'
      BY <1>4, <2>1
      DEF TypeOK, ThreadType, IceLatch, signalingVars, dtlsVars, audioVars,
          stopVars
    <3> QED
      BY <1>4, <3>1, <3>2
      DEF TypeOK, CallType, SignalingType, AudioType, HistoryType, IceLatch,
          signalingVars, dtlsVars, audioVars, stopVars
  <2>3. StartInv'
    BY <1>4, <2>1 DEF StartInv, IceLatch, dtlsVars, stopVars
  <2>4. LatchInv'
    BY <1>4, <2>1 DEF LatchInv, IceLatch, SigReturn, SigIdle, SigGoto
  <2>5. BudgetInv'
    BY <1>4, <2>1 DEF BudgetInv, IceLatch
  <2> QED
    BY <1>4, <2>1, <2>2, <2>3, <2>4, <2>5
    DEF IceLatch, signalingVars, dtlsVars, audioVars, stopVars, CertInv,
        SelectInv, KeysInv, ReadyInv, HandshakeFollowsSelection,
        ConnectedHasKeys
<1>5. ASSUME IcePublish(s) PROVE IInv'
  <2>1. /\ sig' \in [Signalers -> SigThread] /\ sig'[s].pc = "firstSend"
        /\ \A u \in Signalers \ {s} : sig'[u] = sig[u]
    BY <1>5 DEF TypeOK, ThreadType, SigThread, IcePublish, SigGoto
  <2>2. TypeOK'
    <3>1. CallType'
      BY <1>5, NewAgentType, RoleAssumption
      DEF TypeOK, CallType, States, Members, IcePublish, SigGoto,
          signalingVars, dtlsVars, audioVars, stopVars
    <3>2. IceType'
      BY <1>5, NewAgentType, RoleAssumption, AttemptsAssumption
      DEF TypeOK, IceType, ThreadType, SigThread, IcePublish, SigGoto,
          signalingVars, dtlsVars, audioVars, stopVars
    <3>3. ThreadType'
      BY <1>5, <2>1
      DEF TypeOK, ThreadType, IcePublish, signalingVars, dtlsVars, audioVars,
          stopVars
    <3>4. HistoryType'
      BY <1>5
      DEF TypeOK, HistoryType, IcePublish, SigGoto, signalingVars, dtlsVars,
          audioVars, stopVars
    <3> QED
      BY <1>5, <3>1, <3>2, <3>3, <3>4
      DEF TypeOK, SignalingType, AudioType, IcePublish, signalingVars,
          dtlsVars, audioVars, stopVars
  <2>3. StartInv'
    BY <1>5, <2>1 DEF StartInv, IcePublish, dtlsVars, stopVars
  <2>4. LatchInv'
    <3>1. iceAgent' \in Agent
      BY <1>5, NewAgentType, RoleAssumption
      DEF IcePublish, TypeOK, ThreadType, SigThread
    <3>2. iceAgent' # NoAgent /\ agents = 0 /\ agents' = 1
      BY <1>5, <3>1, NoAgentIsNoAgent DEF IcePublish, LatchInv
    <3> QED
      BY <1>5, <2>1, <3>2 DEF LatchInv, IcePublish
  <2>5. CertInv'
    BY <1>5, <2>1 DEF CertInv, IcePublish, dtlsVars
  <2>6. SelectInv'
    BY <1>5, <2>1
    DEF SelectInv, HandshakeFollowsSelection, LatchInv, IcePublish, dtlsVars
  <2>7. KeysInv'
    BY <1>5, <2>1 DEF KeysInv, IcePublish, dtlsVars, audioVars
  <2>8. BudgetInv'
    BY <1>5, <2>1 DEF BudgetInv, LatchInv, IcePublish
  <2> QED
    BY <1>5, <2>1, <2>2, <2>3, <2>4, <2>5, <2>6, <2>7, <2>8
    DEF IcePublish, signalingVars, dtlsVars, audioVars, stopVars, ReadyInv,
        ConnectedHasKeys
<1>6. ASSUME IceFirstSend(s) PROVE IInv'
  <2>1. /\ sig' \in [Signalers -> SigThread] /\ sig'[s].pc = "arm"
        /\ \A u \in Signalers \ {s} : sig'[u] = sig[u]
    BY <1>6 DEF TypeOK, ThreadType, SigThread, IceFirstSend, SigGoto
  <2>2. TypeOK'
    <3>1. IceType'
      BY <1>6, AgentType
      DEF TypeOK, IceType, LatchInv, IceFirstSend, SendIceBindingRequests,
          SigGoto, signalingVars, dtlsVars, audioVars, stopVars
    <3>2. ThreadType'
      BY <1>6, <2>1
      DEF TypeOK, ThreadType, IceFirstSend, signalingVars, dtlsVars, audioVars,
          stopVars
    <3>3. HistoryType'
      BY <1>6, AgentType
      DEF TypeOK, HistoryType, LatchInv, IceFirstSend, SendIceBindingRequests,
          SigGoto, signalingVars, dtlsVars, audioVars, stopVars
    <3> QED
      BY <1>6, <3>1, <3>2, <3>3
      DEF TypeOK, CallType, SignalingType, AudioType, IceFirstSend,
          signalingVars, dtlsVars, audioVars, stopVars
  <2>3. StartInv'
    BY <1>6, <2>1
    DEF StartInv, IceFirstSend, SendIceBindingRequests, dtlsVars, stopVars
  <2>4. LatchInv'
    BY <1>6, <2>1, AgentType, NoAgentIsNoAgent
    DEF LatchInv, IceFirstSend, SendIceBindingRequests, TypeOK, CallType,
        SignalingType, IceType, AudioType, ThreadType, HistoryType
  <2>5. SelectInv'
    BY <1>6, <2>1, AgentType
    DEF SelectInv, HandshakeFollowsSelection, LatchInv, IceFirstSend,
        SendIceBindingRequests, dtlsVars, TypeOK, CallType, SignalingType,
        IceType, AudioType, ThreadType, HistoryType
  <2>6. BudgetInv'
    BY <1>6, <2>1, AttemptsAssumption
    DEF BudgetInv, LatchInv, IceFirstSend, SendIceBindingRequests, TypeOK,
        CallType, SignalingType, IceType, AudioType, ThreadType, HistoryType
  <2> QED
    BY <1>6, <2>1, <2>2, <2>3, <2>4, <2>5, <2>6
    DEF IceFirstSend, signalingVars, dtlsVars, audioVars, stopVars, CertInv,
        KeysInv, ReadyInv, ConnectedHasKeys
<1>7. ASSUME ArmTimer(s) PROVE IInv'
  <2>1. /\ sig' \in [Signalers -> SigThread] /\ sig'[s].pc = "storeTimer"
        /\ \A u \in Signalers \ {s} : sig'[u] = sig[u]
    BY <1>7 DEF TypeOK, ThreadType, SigThread, ArmTimer, SigGoto
  <2>2. TypeOK'
    <3>1. IceType'
      BY <1>7
      DEF TypeOK, IceType, ArmTimer, SigGoto, signalingVars, dtlsVars,
          audioVars, stopVars
    <3>2. ThreadType'
      BY <1>7, <2>1
      DEF TypeOK, ThreadType, ArmTimer, signalingVars, dtlsVars, audioVars,
          stopVars
    <3> QED
      BY <1>7, <3>1, <3>2
      DEF TypeOK, CallType, SignalingType, AudioType, HistoryType, ArmTimer,
          signalingVars, dtlsVars, audioVars, stopVars
  <2>3. StartInv'
    BY <1>7, <2>1 DEF StartInv, ArmTimer, dtlsVars, stopVars
  <2>4. LatchInv'
    BY <1>7, <2>1 DEF LatchInv, ArmTimer
  <2>5. BudgetInv'
    BY <1>7, <2>1 DEF BudgetInv, LatchInv, ArmTimer
  <2> QED
    BY <1>7, <2>1, <2>2, <2>3, <2>4, <2>5
    DEF ArmTimer, signalingVars, dtlsVars, audioVars, stopVars, CertInv,
        SelectInv, KeysInv, ReadyInv, HandshakeFollowsSelection,
        ConnectedHasKeys
<1>8. ASSUME StoreTimer(s) PROVE IInv'
  <2>1. /\ sig' \in [Signalers -> SigThread] /\ sig'[s].pc = "idle"
        /\ \A u \in Signalers \ {s} : sig'[u] = sig[u]
    BY <1>8 DEF TypeOK, ThreadType, SigThread, StoreTimer, SigReturn, SigIdle
  <2>2. TypeOK'
    <3>1. IceType'
      BY <1>8
      DEF TypeOK, IceType, StoreTimer, SigReturn, SigIdle, signalingVars,
          dtlsVars, audioVars, stopVars
    <3>2. ThreadType'
      BY <1>8, <2>1
      DEF TypeOK, ThreadType, StoreTimer, signalingVars, dtlsVars, audioVars,
          stopVars
    <3> QED
      BY <1>8, <3>1, <3>2
      DEF TypeOK, CallType, SignalingType, AudioType, HistoryType, StoreTimer,
          signalingVars, dtlsVars, audioVars, stopVars
  <2>3. StartInv'
    BY <1>8, <2>1 DEF StartInv, StoreTimer, dtlsVars, stopVars
  <2>4. LatchInv'
    BY <1>8, <2>1 DEF LatchInv, StoreTimer
  <2>5. BudgetInv'
    BY <1>8, <2>1 DEF BudgetInv, StoreTimer
  <2> QED
    BY <1>8, <2>1, <2>2, <2>3, <2>4, <2>5
    DEF StoreTimer, signalingVars, dtlsVars, audioVars, stopVars, CertInv,
        SelectInv, KeysInv, ReadyInv, HandshakeFollowsSelection,
        ConnectedHasKeys
<1> QED BY <1>1, <1>2, <1>3, <1>4, <1>5, <1>6, <1>7, <1>8 DEF SigInput, SigStep

\* The retry timer: its handler spends one attempt per batch.
LEMMA TimerPreserves ==
  ASSUME IInv, TimerStep
  PROVE  IInv'
<1> USE DEF IInv
<1>1. ASSUME TimerFires PROVE IInv'
  <2>1. TypeOK'
    <3>1. IceType'
      <4>1. timer' \in [handle : BOOLEAN, live : BOOLEAN]
        <5>1. timer.handle \in BOOLEAN
          BY DEF TypeOK, IceType
        <5>2. timer' = timer \/ timer' = [handle |-> timer.handle, live |-> FALSE]
          BY <1>1 DEF TimerFires
        <5>3. CASE timer' = timer
          BY <5>3 DEF TypeOK, IceType
        <5>4. CASE timer' = [handle |-> timer.handle, live |-> FALSE]
          BY <5>1, <5>4
        <5> QED
          BY <5>2, <5>3, <5>4
      <4>2. tick' \in {"idle", "giveUp", "send"}
        BY <1>1 DEF TimerFires, TypeOK, IceType
      <4> QED
        BY <1>1, <4>1, <4>2 DEF TimerFires, TypeOK, IceType
    <3> QED
      BY <1>1, <3>1
      DEF TypeOK, CallType, SignalingType, AudioType, ThreadType, HistoryType,
          TimerFires, signalingVars, dtlsVars, audioVars, stopVars
  <2>2. BudgetInv'
    BY <1>1 DEF BudgetInv, TimerFires, PastIce
  <2> QED
    BY <1>1, <2>1, <2>2
    DEF TimerFires, signalingVars, dtlsVars, audioVars, stopVars, StartInv,
        LatchInv, CertInv, SelectInv, KeysInv, ReadyInv,
        HandshakeFollowsSelection, ConnectedHasKeys
<1>2. ASSUME TimerGivesUp PROVE IInv'
  <2>1. TypeOK'
    <3>1. CallType'
      BY <1>2
      DEF TypeOK, CallType, States, Members, TimerGivesUp, signalingVars,
          dtlsVars, audioVars, stopVars
    <3>2. IceType'
      BY <1>2
      DEF TypeOK, IceType, TimerGivesUp, signalingVars, dtlsVars, audioVars,
          stopVars
    <3> QED
      BY <1>2, <3>1, <3>2
      DEF TypeOK, SignalingType, AudioType, ThreadType, HistoryType,
          TimerGivesUp, signalingVars, dtlsVars, audioVars, stopVars
  <2>2. StartInv'
    BY <1>2 DEF StartInv, TimerGivesUp, dtlsVars, stopVars
  <2>3. SelectInv'
    BY <1>2 DEF SelectInv, HandshakeFollowsSelection, TimerGivesUp, dtlsVars
  <2>4. ReadyInv'
    BY <1>2 DEF ReadyInv, ConnectedHasKeys, TimerGivesUp, audioVars, stopVars
  <2>5. BudgetInv'
    BY <1>2 DEF BudgetInv, TimerGivesUp
  <2> QED
    BY <1>2, <2>1, <2>2, <2>3, <2>4, <2>5
    DEF TimerGivesUp, signalingVars, dtlsVars, audioVars, stopVars, LatchInv,
        CertInv, KeysInv
<1>3. ASSUME TimerSends PROVE IInv'
  <2>1. TypeOK'
    <3>1. IceType'
      BY <1>3, AgentType, AttemptsAssumption
      DEF TypeOK, IceType, LatchInv, BudgetInv, TimerSends,
          SendIceBindingRequests, signalingVars, dtlsVars, audioVars, stopVars
    <3>2. HistoryType'
      BY <1>3, AgentType, AttemptsAssumption
      DEF TypeOK, HistoryType, LatchInv, BudgetInv, TimerSends,
          SendIceBindingRequests, signalingVars, dtlsVars, audioVars, stopVars
    <3> QED
      BY <1>3, <3>1, <3>2
      DEF TypeOK, CallType, SignalingType, AudioType, ThreadType, TimerSends,
          signalingVars, dtlsVars, audioVars, stopVars
  <2>2. LatchInv'
    BY <1>3, AgentType, NoAgentIsNoAgent
    DEF LatchInv, TimerSends, SendIceBindingRequests, TypeOK, CallType,
        SignalingType, IceType, AudioType, ThreadType, HistoryType
  <2>3. SelectInv'
    BY <1>3, AgentType
    DEF SelectInv, HandshakeFollowsSelection, LatchInv, TimerSends,
        SendIceBindingRequests, dtlsVars, TypeOK, CallType, SignalingType,
        IceType, AudioType, ThreadType, HistoryType
  <2>4. BudgetInv'
    BY <1>3
    DEF BudgetInv, TimerSends, SendIceBindingRequests, TypeOK, CallType,
        SignalingType, IceType, AudioType, ThreadType, HistoryType
  <2> QED
    BY <1>3, <2>1, <2>2, <2>3, <2>4
    DEF TimerSends, signalingVars, dtlsVars, audioVars, stopVars, StartInv,
        CertInv, KeysInv, ReadyInv, ConnectedHasKeys
<1> QED BY <1>1, <1>2, <1>3 DEF TimerStep

\* Datagram callbacks: selection, the DTLS session, the keys, the pump.
LEMMA DatagramPreserves ==
  ASSUME IInv, NEW r \in Receivers, RxInput(r) \/ RxStep(r)
  PROVE  IInv'
<1> USE DEF IInv
<1>1. ASSUME NEW msg \in StunMessages, ReceiveStun(r, msg) PROVE IInv'
  <2>1. /\ rx' \in [Receivers -> RxThread] /\ rx'[r].pc = "stun"
        /\ \A q \in Receivers \ {r} : rx'[q] = rx[q]
    <3> DEFINE h == [pc |-> "stun", msg |-> msg, thread |-> NoThread,
                     seen |-> iceAgent.connected]
    <3>1. iceAgent \in Agent
      BY <1>1 DEF ReceiveStun, TypeOK, IceType, LatchInv
    <3>2. h \in RxThread
      BY <3>1, AgentType DEF RxThread
    <3> HIDE DEF h
    <3>3. rx' = [rx EXCEPT ![r] = h]
      BY <1>1 DEF ReceiveStun, h
    <3> QED
      BY <3>2, <3>3, ThreadPut DEF TypeOK, ThreadType, h
  <2>2. TypeOK'
    <3>1. ThreadType'
      BY <1>1, <2>1
      DEF TypeOK, ThreadType, ReceiveStun, signalingVars, iceVars, dtlsVars,
          audioVars, stopVars
    <3> QED
      BY <1>1, <3>1
      DEF TypeOK, CallType, SignalingType, IceType, AudioType, HistoryType,
          ReceiveStun, signalingVars, iceVars, dtlsVars, audioVars, stopVars
  <2>3. StartInv'
    BY <1>1, <2>1 DEF StartInv, ReceiveStun, dtlsVars, stopVars
  <2>4. LatchInv'
    BY <1>1, <2>1 DEF LatchInv, ReceiveStun, iceVars
  <2>5. CertInv'
    BY <1>1, <2>1 DEF CertInv, ReceiveStun, dtlsVars
  <2>6. SelectInv'
    BY <1>1, <2>1
    DEF SelectInv, HandshakeFollowsSelection, ReceiveStun, iceVars, dtlsVars
  <2>7. KeysInv'
    BY <1>1, <2>1 DEF KeysInv, ReceiveStun, dtlsVars, audioVars
  <2>8. ReadyInv'
    BY <1>1, <2>1
    DEF ReadyInv, ConnectedHasKeys, ReceiveStun, audioVars, stopVars
  <2> QED
    BY <1>1, <2>1, <2>2, <2>3, <2>4, <2>5, <2>6, <2>7, <2>8
    DEF ReceiveStun, signalingVars, iceVars, dtlsVars, audioVars, stopVars,
        BudgetInv
<1>2. ASSUME ReceiveDtls(r) PROVE IInv'
  <2>1. /\ rx' \in [Receivers -> RxThread] /\ rx'[r].pc = "readReady"
        /\ \A q \in Receivers \ {r} : rx'[q] = rx[q]
    BY <1>2 DEF TypeOK, ThreadType, RxThread, ReceiveDtls, DtlsOutcomes, RxGoto
  <2>2. TypeOK'
    <3>1. AudioType'
      BY <1>2
      DEF TypeOK, AudioType, ReceiveDtls, DtlsOutcomes, RxGoto, signalingVars,
          iceVars, audioVars, stopVars
    <3>2. ThreadType'
      BY <1>2, <2>1
      DEF TypeOK, ThreadType, ReceiveDtls, signalingVars, iceVars, audioVars,
          stopVars
    <3>3. HistoryType'
      BY <1>2
      DEF TypeOK, HistoryType, ReceiveDtls, DtlsOutcomes, RxGoto,
          signalingVars, iceVars, audioVars, stopVars
    <3> QED
      BY <1>2, <3>1, <3>2, <3>3
      DEF TypeOK, CallType, SignalingType, IceType, ReceiveDtls, signalingVars,
          iceVars, audioVars, stopVars
  <2>3. StartInv'
    BY <1>2, <2>1 DEF StartInv, ReceiveDtls, DtlsOutcomes, stopVars
  <2>4. LatchInv'
    BY <1>2, <2>1 DEF LatchInv, ReceiveDtls, DtlsOutcomes, iceVars
  <2>5. CertInv'
    BY <1>2, <2>1 DEF CertInv, ReceiveDtls, DtlsOutcomes
  <2>6. SelectInv'
    BY <1>2, <2>1
    DEF SelectInv, HandshakeFollowsSelection, ReceiveDtls, DtlsOutcomes,
        iceVars
  <2>7. KeysInv'
    BY <1>2, <2>1 DEF KeysInv, ReceiveDtls, DtlsOutcomes, audioVars
  <2>8. ReadyInv'
    BY <1>2, <2>1
    DEF ReadyInv, ConnectedHasKeys, ReceiveDtls, DtlsOutcomes, audioVars,
        stopVars
  <2> QED
    BY <1>2, <2>1, <2>2, <2>3, <2>4, <2>5, <2>6, <2>7, <2>8
    DEF ReceiveDtls, signalingVars, iceVars, audioVars, stopVars, BudgetInv
<1>3. ASSUME ProcessStun(r) PROVE IInv'
  <2>1. /\ rx' \in [Receivers -> RxThread] /\ rx'[r].pc \in {"idle", "iceConnected"}
        /\ \A q \in Receivers \ {r} : rx'[q] = rx[q]
    <3>1. CASE RxReturn(r)
      BY <3>1, RxReturns DEF TypeOK
    <3>2. CASE rx' = [rx EXCEPT ![r] = RxAt("iceConnected")]
      BY <3>2, ThreadPut, RxIdleType DEF TypeOK, ThreadType
    <3> QED
      BY <1>3, <3>1, <3>2 DEF ProcessStun
  <2>2. TypeOK'
    <3>1. IceType'
      BY <1>3, AgentIncoming
      DEF TypeOK, IceType, LatchInv, ThreadType, RxThread, ProcessStun, RxAt,
          RxReturn, RxIdle, signalingVars, dtlsVars, audioVars, stopVars
    <3>2. ThreadType'
      BY <1>3, <2>1
      DEF TypeOK, ThreadType, ProcessStun, signalingVars, dtlsVars, audioVars,
          stopVars
    <3> QED
      BY <1>3, <3>1, <3>2
      DEF TypeOK, CallType, SignalingType, AudioType, HistoryType, ProcessStun,
          signalingVars, dtlsVars, audioVars, stopVars
  <2>3. StartInv'
    BY <1>3, <2>1 DEF StartInv, ProcessStun, dtlsVars, stopVars
  <2>4. LatchInv'
    <3>1. iceAgent \in Agent
      BY <1>3 DEF ProcessStun, TypeOK, IceType, LatchInv
    <3>2. rx[r].seen \in BOOLEAN
      BY DEF TypeOK, ThreadType, RxThread
    <3>3. iceAgent' # NoAgent
      BY <1>3, <3>1, <3>2, AgentIncoming, NoAgentIsNoAgent DEF ProcessStun
    <3> QED
      BY <1>3, <2>1, <3>3 DEF LatchInv, ProcessStun
  <2>5. CertInv'
    BY <1>3, <2>1 DEF CertInv, ProcessStun, dtlsVars
  <2>6. SelectInv'
    <3>1. iceAgent \in Agent /\ agents = 1
      BY <1>3 DEF ProcessStun, TypeOK, IceType, LatchInv
    <3>2. rx[r].seen \in BOOLEAN
      BY DEF TypeOK, ThreadType, RxThread
    <3>3. /\ iceAgent' \in Agent
          /\ iceAgent.connected \/ Selects(iceAgent, rx[r].msg, Reflector0, rx[r].seen)
               => iceAgent'.connected
      BY <1>3, <3>1, <3>2, AgentIncoming DEF ProcessStun
    <3>4. rx'[r].pc = "iceConnected" => iceAgent'.connected
      <4>1. CASE Selects(iceAgent, rx[r].msg, Reflector0, rx[r].seen)
        BY <4>1, <3>3
      <4>2. CASE ~Selects(iceAgent, rx[r].msg, Reflector0, rx[r].seen)
        BY <1>3, <4>2, RxReturns DEF ProcessStun, TypeOK
      <4> QED
        BY <4>1, <4>2
    <3> QED
      BY <1>3, <2>1, <3>1, <3>3, <3>4
      DEF SelectInv, HandshakeFollowsSelection, ProcessStun, dtlsVars
  <2>7. KeysInv'
    BY <1>3, <2>1 DEF KeysInv, ProcessStun, dtlsVars, audioVars
  <2>8. ReadyInv'
    BY <1>3, <2>1
    DEF ReadyInv, ConnectedHasKeys, ProcessStun, audioVars, stopVars
  <2> QED
    BY <1>3, <2>1, <2>2, <2>3, <2>4, <2>5, <2>6, <2>7, <2>8
    DEF ProcessStun, signalingVars, dtlsVars, audioVars, stopVars, BudgetInv
<1>4. ASSUME OnIceConnected(r) PROVE IInv'
  <2>1. /\ rx' \in [Receivers -> RxThread] /\ rx'[r].pc \in {"idle", "cancelTimer"}
        /\ \A q \in Receivers \ {r} : rx'[q] = rx[q]
    <3>1. RxReturn(r) \/ RxGoto(r, "cancelTimer")
      BY <1>4 DEF OnIceConnected
    <3> QED
      BY <3>1, RxReturns, RxGoes DEF TypeOK
  <2>2. TypeOK'
    <3>1. ThreadType'
      BY <1>4, <2>1
      DEF TypeOK, ThreadType, OnIceConnected, signalingVars, iceVars, dtlsVars,
          audioVars, stopVars
    <3> QED
      BY <1>4, <3>1
      DEF TypeOK, CallType, SignalingType, IceType, AudioType, HistoryType,
          OnIceConnected, signalingVars, iceVars, dtlsVars, audioVars, stopVars
  <2>3. StartInv'
    BY <1>4, <2>1 DEF StartInv, OnIceConnected, PastIce, dtlsVars, stopVars
  <2>4. LatchInv'
    BY <1>4, <2>1 DEF LatchInv, OnIceConnected, PastIce, iceVars
  <2>5. CertInv'
    BY <1>4, <2>1 DEF CertInv, OnIceConnected, PastIce, dtlsVars
  <2>6. SelectInv'
    BY <1>4, <2>1
    DEF SelectInv, HandshakeFollowsSelection, OnIceConnected, PastIce, iceVars,
        dtlsVars
  <2>7. KeysInv'
    BY <1>4, <2>1 DEF KeysInv, OnIceConnected, PastIce, dtlsVars, audioVars
  <2>8. ReadyInv'
    BY <1>4, <2>1
    DEF ReadyInv, ConnectedHasKeys, OnIceConnected, PastIce, audioVars,
        stopVars
  <2> QED
    BY <1>4, <2>1, <2>2, <2>3, <2>4, <2>5, <2>6, <2>7, <2>8
    DEF OnIceConnected, signalingVars, iceVars, dtlsVars, audioVars, stopVars,
        BudgetInv
<1>5. ASSUME CancelRetry(r) PROVE IInv'
  <2>1. /\ rx' \in [Receivers -> RxThread] /\ rx'[r].pc = "checkDtls"
        /\ \A q \in Receivers \ {r} : rx'[q] = rx[q]
    BY <1>5 DEF TypeOK, ThreadType, RxThread, CancelRetry, RxGoto
  <2>2. TypeOK'
    <3>1. IceType'
      BY <1>5
      DEF TypeOK, IceType, CancelRetry, CancelTimer, RxGoto, signalingVars,
          dtlsVars, audioVars, stopVars
    <3>2. ThreadType'
      BY <1>5, <2>1
      DEF TypeOK, ThreadType, CancelRetry, signalingVars, dtlsVars, audioVars,
          stopVars
    <3> QED
      BY <1>5, <3>1, <3>2
      DEF TypeOK, CallType, SignalingType, AudioType, HistoryType, CancelRetry,
          signalingVars, dtlsVars, audioVars, stopVars
  <2>3. StartInv'
    BY <1>5, <2>1 DEF StartInv, CancelRetry, CancelTimer, dtlsVars, stopVars
  <2>4. LatchInv'
    BY <1>5, <2>1 DEF LatchInv, CancelRetry, CancelTimer
  <2>5. CertInv'
    BY <1>5, <2>1 DEF CertInv, CancelRetry, CancelTimer, dtlsVars
  <2>6. SelectInv'
    BY <1>5, <2>1
    DEF SelectInv, HandshakeFollowsSelection, CancelRetry, CancelTimer,
        dtlsVars
  <2>7. KeysInv'
    BY <1>5, <2>1 DEF KeysInv, CancelRetry, CancelTimer, dtlsVars, audioVars
  <2>8. ReadyInv'
    BY <1>5, <2>1
    DEF ReadyInv, ConnectedHasKeys, CancelRetry, CancelTimer, audioVars,
        stopVars
  <2>9. BudgetInv'
    BY <1>5, <2>1 DEF BudgetInv, CancelRetry, CancelTimer
  <2> QED
    BY <1>5, <2>1, <2>2, <2>3, <2>4, <2>5, <2>6, <2>7, <2>8, <2>9
    DEF CancelRetry, signalingVars, dtlsVars, audioVars, stopVars
<1>6. ASSUME CheckDtls(r) PROVE IInv'
  <2>1. /\ rx' \in [Receivers -> RxThread] /\ rx'[r].pc \in {"idle", "enterDtls"}
        /\ \A q \in Receivers \ {r} : rx'[q] = rx[q]
    <3>1. RxReturn(r) \/ RxGoto(r, "enterDtls")
      BY <1>6 DEF CheckDtls
    <3> QED
      BY <3>1, RxReturns, RxGoes DEF TypeOK
  <2>2. TypeOK'
    <3>1. ThreadType'
      BY <1>6, <2>1
      DEF TypeOK, ThreadType, CheckDtls, signalingVars, iceVars, dtlsVars,
          audioVars, stopVars
    <3> QED
      BY <1>6, <3>1
      DEF TypeOK, CallType, SignalingType, IceType, AudioType, HistoryType,
          CheckDtls, signalingVars, iceVars, dtlsVars, audioVars, stopVars
  <2>3. StartInv'
    BY <1>6, <2>1 DEF StartInv, CheckDtls, dtlsVars, stopVars
  <2>4. LatchInv'
    BY <1>6, <2>1 DEF LatchInv, CheckDtls, iceVars
  <2>5. CertInv'
    BY <1>6, <2>1 DEF CertInv, CheckDtls, dtlsVars
  <2>6. SelectInv'
    BY <1>6, <2>1
    DEF SelectInv, HandshakeFollowsSelection, CheckDtls, iceVars, dtlsVars
  <2>7. KeysInv'
    BY <1>6, <2>1 DEF KeysInv, CheckDtls, dtlsVars, audioVars
  <2>8. ReadyInv'
    BY <1>6, <2>1
    DEF ReadyInv, ConnectedHasKeys, CheckDtls, audioVars, stopVars
  <2> QED
    BY <1>6, <2>1, <2>2, <2>3, <2>4, <2>5, <2>6, <2>7, <2>8
    DEF CheckDtls, signalingVars, iceVars, dtlsVars, audioVars, stopVars,
        BudgetInv
<1>7. ASSUME EnterDtls(r) PROVE IInv'
  <2>1. /\ rx' \in [Receivers -> RxThread] /\ rx'[r].pc = "takeCert"
        /\ \A q \in Receivers \ {r} : rx'[q] = rx[q]
    BY <1>7 DEF TypeOK, ThreadType, RxThread, EnterDtls, RxGoto
  <2>2. TypeOK'
    <3>1. CallType'
      BY <1>7
      DEF TypeOK, CallType, States, Members, EnterDtls, RxGoto, signalingVars,
          iceVars, dtlsVars, audioVars, stopVars
    <3>2. ThreadType'
      BY <1>7, <2>1
      DEF TypeOK, ThreadType, EnterDtls, signalingVars, iceVars, dtlsVars,
          audioVars, stopVars
    <3> QED
      BY <1>7, <3>1, <3>2
      DEF TypeOK, SignalingType, IceType, AudioType, HistoryType, EnterDtls,
          signalingVars, iceVars, dtlsVars, audioVars, stopVars
  <2>3. StartInv'
    BY <1>7, <2>1 DEF StartInv, EnterDtls, dtlsVars, stopVars
  <2>4. LatchInv'
    BY <1>7, <2>1 DEF LatchInv, EnterDtls, iceVars
  <2>5. CertInv'
    BY <1>7, <2>1 DEF CertInv, EnterDtls, dtlsVars
  <2>6. SelectInv'
    BY <1>7, <2>1
    DEF SelectInv, HandshakeFollowsSelection, EnterDtls, iceVars, dtlsVars
  <2>7. KeysInv'
    BY <1>7, <2>1 DEF KeysInv, EnterDtls, dtlsVars, audioVars
  <2>8. ReadyInv'
    BY <1>7, <2>1
    DEF ReadyInv, ConnectedHasKeys, EnterDtls, audioVars, stopVars
  <2> QED
    BY <1>7, <2>1, <2>2, <2>3, <2>4, <2>5, <2>6, <2>7, <2>8
    DEF EnterDtls, signalingVars, iceVars, dtlsVars, audioVars, stopVars,
        BudgetInv
<1>8. ASSUME TakeCert(r) PROVE IInv'
  <2>1. /\ rx' \in [Receivers -> RxThread] /\ rx'[r].pc \in {"initiate", "fail"}
        /\ \A q \in Receivers \ {r} : rx'[q] = rx[q]
    BY <1>8 DEF TypeOK, ThreadType, RxThread, TakeCert, RxGoto
  <2>2. TypeOK'
    <3>1. CallType'
      BY <1>8
      DEF TypeOK, CallType, States, Members, TakeCert, RxGoto, signalingVars,
          iceVars, dtlsVars, audioVars, stopVars
    <3>2. ThreadType'
      BY <1>8, <2>1
      DEF TypeOK, ThreadType, TakeCert, signalingVars, iceVars, dtlsVars,
          audioVars, stopVars
    <3> QED
      BY <1>8, <3>1, <3>2
      DEF TypeOK, SignalingType, IceType, AudioType, HistoryType, TakeCert,
          signalingVars, iceVars, dtlsVars, audioVars, stopVars
  <2>3. StartInv'
    BY <1>8, <2>1 DEF StartInv, TakeCert, dtlsVars, stopVars
  <2>4. LatchInv'
    BY <1>8, <2>1 DEF LatchInv, TakeCert, iceVars
  <2>5. CertInv'
    BY <1>8, <2>1 DEF CertInv, TakeCert, RxGoto, dtlsVars
  <2>6. SelectInv'
    BY <1>8, <2>1
    DEF SelectInv, HandshakeFollowsSelection, TakeCert, iceVars, dtlsVars
  <2>7. KeysInv'
    BY <1>8, <2>1 DEF KeysInv, TakeCert, dtlsVars, audioVars
  <2>8. ReadyInv'
    BY <1>8, <2>1 DEF ReadyInv, ConnectedHasKeys, TakeCert, audioVars, stopVars
  <2> QED
    BY <1>8, <2>1, <2>2, <2>3, <2>4, <2>5, <2>6, <2>7, <2>8
    DEF TakeCert, signalingVars, iceVars, dtlsVars, audioVars, stopVars,
        BudgetInv
<1>9. ASSUME InitiateDtls(r) PROVE IInv'
  <2>1. /\ rx' \in [Receivers -> RxThread] /\ rx'[r].pc = "idle"
        /\ \A q \in Receivers \ {r} : rx'[q] = rx[q]
    BY <1>9
    DEF TypeOK, ThreadType, RxThread, InitiateDtls, RxReturn, RxIdle, RxAt
  <2>2. TypeOK'
    <3>1. CallType'
      BY <1>9
      DEF TypeOK, CallType, States, Members, InitiateDtls, RxReturn, RxIdle,
          RxAt, signalingVars, iceVars, audioVars, stopVars
    <3>2. AudioType'
      BY <1>9
      DEF TypeOK, AudioType, InitiateDtls, RxReturn, RxIdle, RxAt,
          signalingVars, iceVars, audioVars, stopVars
    <3>3. ThreadType'
      BY <1>9, <2>1
      DEF TypeOK, ThreadType, InitiateDtls, signalingVars, iceVars, audioVars,
          stopVars
    <3>4. HistoryType'
      BY <1>9
      DEF TypeOK, HistoryType, InitiateDtls, RxReturn, RxIdle, RxAt,
          signalingVars, iceVars, audioVars, stopVars
    <3> QED
      BY <1>9, <3>1, <3>2, <3>3, <3>4
      DEF TypeOK, SignalingType, IceType, InitiateDtls, signalingVars, iceVars,
          audioVars, stopVars
  <2>3. StartInv'
    BY <1>9, <2>1 DEF StartInv, InitiateDtls, stopVars
  <2>4. LatchInv'
    BY <1>9, <2>1 DEF LatchInv, InitiateDtls, iceVars
  <2>5. CertInv'
    BY <1>9, <2>1 DEF CertInv, InitiateDtls
  <2>6. SelectInv'
    BY <1>9, <2>1
    DEF SelectInv, HandshakeFollowsSelection, CertInv, InitiateDtls, iceVars
  <2>7. KeysInv'
    BY <1>9, <2>1 DEF KeysInv, CertInv, InitiateDtls, audioVars
  <2>8. ReadyInv'
    BY <1>9, <2>1
    DEF ReadyInv, ConnectedHasKeys, InitiateDtls, audioVars, stopVars
  <2> QED
    BY <1>9, <2>1, <2>2, <2>3, <2>4, <2>5, <2>6, <2>7, <2>8
    DEF InitiateDtls, signalingVars, iceVars, audioVars, stopVars, BudgetInv
<1>10. ASSUME Fail(r) PROVE IInv'
  <2>1. /\ rx' \in [Receivers -> RxThread] /\ rx'[r].pc = "idle"
        /\ \A q \in Receivers \ {r} : rx'[q] = rx[q]
    BY <1>10 DEF TypeOK, ThreadType, RxThread, Fail, RxReturn, RxIdle, RxAt
  <2>2. TypeOK'
    <3>1. CallType'
      BY <1>10
      DEF TypeOK, CallType, States, Members, Fail, RxReturn, RxIdle, RxAt,
          signalingVars, iceVars, dtlsVars, audioVars, stopVars
    <3>2. ThreadType'
      BY <1>10, <2>1
      DEF TypeOK, ThreadType, Fail, signalingVars, iceVars, dtlsVars,
          audioVars, stopVars
    <3> QED
      BY <1>10, <3>1, <3>2
      DEF TypeOK, SignalingType, IceType, AudioType, HistoryType, Fail,
          signalingVars, iceVars, dtlsVars, audioVars, stopVars
  <2>3. StartInv'
    BY <1>10, <2>1 DEF StartInv, Fail, dtlsVars, stopVars
  <2>4. LatchInv'
    BY <1>10, <2>1 DEF LatchInv, Fail, iceVars
  <2>5. CertInv'
    BY <1>10, <2>1 DEF CertInv, Fail, dtlsVars
  <2>6. SelectInv'
    BY <1>10, <2>1
    DEF SelectInv, HandshakeFollowsSelection, Fail, iceVars, dtlsVars
  <2>7. KeysInv'
    BY <1>10, <2>1 DEF KeysInv, Fail, dtlsVars, audioVars
  <2>8. ReadyInv'
    BY <1>10, <2>1 DEF ReadyInv, ConnectedHasKeys, Fail, audioVars, stopVars
  <2> QED
    BY <1>10, <2>1, <2>2, <2>3, <2>4, <2>5, <2>6, <2>7, <2>8
    DEF Fail, signalingVars, iceVars, dtlsVars, audioVars, stopVars, BudgetInv
<1>11. ASSUME ReadSrtpReady(r) PROVE IInv'
  <2>1. /\ rx' \in [Receivers -> RxThread] /\ rx'[r].pc = "checkEstablished"
        /\ \A q \in Receivers \ {r} : rx'[q] = rx[q]
    <3> DEFINE h == [pc |-> "checkEstablished", msg |-> "none",
                     thread |-> NoThread, seen |-> srtpReady]
    <3>1. h \in RxThread
      BY DEF RxThread, TypeOK, AudioType
    <3> HIDE DEF h
    <3>2. rx' = [rx EXCEPT ![r] = h]
      BY <1>11 DEF ReadSrtpReady, h
    <3> QED
      BY <3>1, <3>2, ThreadPut DEF TypeOK, ThreadType, h
  <2>2. TypeOK'
    <3>1. ThreadType'
      BY <1>11, <2>1
      DEF TypeOK, ThreadType, ReadSrtpReady, signalingVars, iceVars, dtlsVars,
          audioVars, stopVars
    <3> QED
      BY <1>11, <3>1
      DEF TypeOK, CallType, SignalingType, IceType, AudioType, HistoryType,
          ReadSrtpReady, signalingVars, iceVars, dtlsVars, audioVars, stopVars
  <2>3. StartInv'
    BY <1>11, <2>1 DEF StartInv, ReadSrtpReady, dtlsVars, stopVars
  <2>4. LatchInv'
    BY <1>11, <2>1 DEF LatchInv, ReadSrtpReady, iceVars
  <2>5. CertInv'
    BY <1>11, <2>1 DEF CertInv, ReadSrtpReady, dtlsVars
  <2>6. SelectInv'
    BY <1>11, <2>1
    DEF SelectInv, HandshakeFollowsSelection, ReadSrtpReady, iceVars, dtlsVars
  <2>7. KeysInv'
    BY <1>11, <2>1 DEF KeysInv, ReadSrtpReady, dtlsVars, audioVars
  <2>8. ReadyInv'
    BY <1>11, <2>1
    DEF ReadyInv, ConnectedHasKeys, ReadSrtpReady, audioVars, stopVars
  <2> QED
    BY <1>11, <2>1, <2>2, <2>3, <2>4, <2>5, <2>6, <2>7, <2>8
    DEF ReadSrtpReady, signalingVars, iceVars, dtlsVars, audioVars, stopVars,
        BudgetInv
<1>12. ASSUME CheckEstablished(r) PROVE IInv'
  <2>1. /\ rx' \in [Receivers -> RxThread] /\ rx'[r].pc \in {"installSrtp", "fail", "idle"}
        /\ \A q \in Receivers \ {r} : rx'[q] = rx[q]
    <3>1. RxReturn(r) \/ RxGoto(r, "fail") \/ RxGoto(r, "installSrtp")
      BY <1>12 DEF CheckEstablished
    <3> QED
      BY <3>1, RxReturns, RxGoes DEF TypeOK
  <2>2. TypeOK'
    <3>1. ThreadType'
      BY <1>12, <2>1
      DEF TypeOK, ThreadType, CheckEstablished, signalingVars, iceVars,
          dtlsVars, audioVars, stopVars
    <3> QED
      BY <1>12, <3>1
      DEF TypeOK, CallType, SignalingType, IceType, AudioType, HistoryType,
          CheckEstablished, signalingVars, iceVars, dtlsVars, audioVars,
          stopVars
  <2>3. StartInv'
    BY <1>12, <2>1 DEF StartInv, CheckEstablished, dtlsVars, stopVars
  <2>4. LatchInv'
    BY <1>12, <2>1 DEF LatchInv, CheckEstablished, iceVars
  <2>5. CertInv'
    BY <1>12, <2>1 DEF CertInv, CheckEstablished, dtlsVars
  <2>6. SelectInv'
    BY <1>12, <2>1
    DEF SelectInv, HandshakeFollowsSelection, CheckEstablished, iceVars,
        dtlsVars
  <2>7. KeysInv'
    <3>1. rx'[r].pc = "installSrtp" => dtls = "established"
      <4>1. CASE RxReturn(r) \/ RxGoto(r, "fail")
        BY <4>1, RxReturns, RxGoes DEF TypeOK
      <4> QED
        BY <1>12, <4>1 DEF CheckEstablished
    <3> QED
      BY <1>12, <2>1, <3>1 DEF KeysInv, CheckEstablished, dtlsVars, audioVars
  <2>8. ReadyInv'
    BY <1>12, <2>1
    DEF ReadyInv, ConnectedHasKeys, CheckEstablished, audioVars, stopVars
  <2> QED
    BY <1>12, <2>1, <2>2, <2>3, <2>4, <2>5, <2>6, <2>7, <2>8
    DEF CheckEstablished, signalingVars, iceVars, dtlsVars, audioVars,
        stopVars, BudgetInv
<1>13. ASSUME InstallSrtp(r) PROVE IInv'
  <2>1. /\ rx' \in [Receivers -> RxThread] /\ rx'[r].pc = "resetAudio"
        /\ \A q \in Receivers \ {r} : rx'[q] = rx[q]
    BY <1>13 DEF TypeOK, ThreadType, RxThread, InstallSrtp, RxGoto
  <2>2. TypeOK'
    <3>1. AudioType'
      BY <1>13
      DEF TypeOK, AudioType, InstallSrtp, RxGoto, signalingVars, iceVars,
          dtlsVars, stopVars
    <3>2. ThreadType'
      BY <1>13, <2>1
      DEF TypeOK, ThreadType, InstallSrtp, signalingVars, iceVars, dtlsVars,
          stopVars
    <3> QED
      BY <1>13, <3>1, <3>2
      DEF TypeOK, CallType, SignalingType, IceType, HistoryType, InstallSrtp,
          signalingVars, iceVars, dtlsVars, stopVars
  <2>3. StartInv'
    BY <1>13, <2>1 DEF StartInv, InstallSrtp, dtlsVars, stopVars
  <2>4. LatchInv'
    BY <1>13, <2>1 DEF LatchInv, InstallSrtp, iceVars
  <2>5. CertInv'
    BY <1>13, <2>1 DEF CertInv, InstallSrtp, dtlsVars
  <2>6. SelectInv'
    BY <1>13, <2>1
    DEF SelectInv, HandshakeFollowsSelection, InstallSrtp, iceVars, dtlsVars
  <2>7. KeysInv'
    BY <1>13, <2>1 DEF KeysInv, InstallSrtp, dtlsVars
  <2>8. ReadyInv'
    BY <1>13, <2>1 DEF ReadyInv, ConnectedHasKeys, InstallSrtp, stopVars
  <2> QED
    BY <1>13, <2>1, <2>2, <2>3, <2>4, <2>5, <2>6, <2>7, <2>8
    DEF InstallSrtp, signalingVars, iceVars, dtlsVars, stopVars, BudgetInv
<1>14. ASSUME ResetAudio(r) PROVE IInv'
  <2>1. /\ rx' \in [Receivers -> RxThread] /\ rx'[r].pc = "openAudio"
        /\ \A q \in Receivers \ {r} : rx'[q] = rx[q]
    BY <1>14 DEF TypeOK, ThreadType, RxThread, ResetAudio, RxGoto
  <2>2. TypeOK'
    <3>1. CallType'
      BY <1>14
      DEF TypeOK, CallType, States, Members, ResetAudio, RxGoto, signalingVars,
          iceVars, dtlsVars, audioVars, stopVars
    <3>2. ThreadType'
      BY <1>14, <2>1
      DEF TypeOK, ThreadType, ResetAudio, signalingVars, iceVars, dtlsVars,
          audioVars, stopVars
    <3> QED
      BY <1>14, <3>1, <3>2
      DEF TypeOK, SignalingType, IceType, AudioType, HistoryType, ResetAudio,
          signalingVars, iceVars, dtlsVars, audioVars, stopVars
  <2>3. StartInv'
    BY <1>14, <2>1 DEF StartInv, ResetAudio, dtlsVars, stopVars
  <2>4. LatchInv'
    BY <1>14, <2>1 DEF LatchInv, ResetAudio, iceVars
  <2>5. CertInv'
    BY <1>14, <2>1 DEF CertInv, ResetAudio, dtlsVars
  <2>6. SelectInv'
    BY <1>14, <2>1
    DEF SelectInv, HandshakeFollowsSelection, ResetAudio, iceVars, dtlsVars
  <2>7. KeysInv'
    BY <1>14, <2>1 DEF KeysInv, ResetAudio, dtlsVars, audioVars
  <2>8. ReadyInv'
    BY <1>14, <2>1
    DEF ReadyInv, ConnectedHasKeys, ResetAudio, audioVars, stopVars
  <2> QED
    BY <1>14, <2>1, <2>2, <2>3, <2>4, <2>5, <2>6, <2>7, <2>8
    DEF ResetAudio, signalingVars, iceVars, dtlsVars, audioVars, stopVars,
        BudgetInv
<1>15. ASSUME OpenAudio(r) PROVE IInv'
  <2>1. /\ rx' \in [Receivers -> RxThread] /\ rx'[r].pc \in {"connect", "fail"}
        /\ \A q \in Receivers \ {r} : rx'[q] = rx[q]
    BY <1>15 DEF TypeOK, ThreadType, RxThread, OpenAudio, RxGoto
  <2>2. TypeOK'
    <3>1. ThreadType'
      BY <1>15, <2>1
      DEF TypeOK, ThreadType, OpenAudio, signalingVars, iceVars, dtlsVars,
          audioVars, stopVars
    <3> QED
      BY <1>15, <3>1
      DEF TypeOK, CallType, SignalingType, IceType, AudioType, HistoryType,
          OpenAudio, signalingVars, iceVars, dtlsVars, audioVars, stopVars
  <2>3. StartInv'
    BY <1>15, <2>1 DEF StartInv, OpenAudio, dtlsVars, stopVars
  <2>4. LatchInv'
    BY <1>15, <2>1 DEF LatchInv, OpenAudio, iceVars
  <2>5. CertInv'
    BY <1>15, <2>1 DEF CertInv, OpenAudio, dtlsVars
  <2>6. SelectInv'
    BY <1>15, <2>1
    DEF SelectInv, HandshakeFollowsSelection, OpenAudio, iceVars, dtlsVars
  <2>7. KeysInv'
    BY <1>15, <2>1 DEF KeysInv, OpenAudio, dtlsVars, audioVars
  <2>8. ReadyInv'
    BY <1>15, <2>1
    DEF ReadyInv, ConnectedHasKeys, OpenAudio, audioVars, stopVars
  <2> QED
    BY <1>15, <2>1, <2>2, <2>3, <2>4, <2>5, <2>6, <2>7, <2>8
    DEF OpenAudio, signalingVars, iceVars, dtlsVars, audioVars, stopVars,
        BudgetInv
<1>16. ASSUME Connect(r) PROVE IInv'
  <2>1. /\ rx' \in [Receivers -> RxThread] /\ rx'[r].pc = "startLoop"
        /\ \A q \in Receivers \ {r} : rx'[q] = rx[q]
    BY <1>16 DEF TypeOK, ThreadType, RxThread, Connect, RxGoto
  <2>2. TypeOK'
    <3>1. CallType'
      BY <1>16
      DEF TypeOK, CallType, States, Members, Connect, RxGoto, signalingVars,
          iceVars, dtlsVars, audioVars, stopVars
    <3>2. ThreadType'
      BY <1>16, <2>1
      DEF TypeOK, ThreadType, Connect, signalingVars, iceVars, dtlsVars,
          audioVars, stopVars
    <3> QED
      BY <1>16, <3>1, <3>2
      DEF TypeOK, SignalingType, IceType, AudioType, HistoryType, Connect,
          signalingVars, iceVars, dtlsVars, audioVars, stopVars
  <2>3. StartInv'
    BY <1>16, <2>1 DEF StartInv, Connect, dtlsVars, stopVars
  <2>4. LatchInv'
    BY <1>16, <2>1 DEF LatchInv, Connect, iceVars
  <2>5. CertInv'
    BY <1>16, <2>1 DEF CertInv, Connect, dtlsVars
  <2>6. SelectInv'
    <3>1. sessions = 1
      BY <1>16 DEF Connect, KeysInv
    <3> QED
      BY <1>16, <2>1, <3>1
      DEF SelectInv, HandshakeFollowsSelection, Connect, iceVars, dtlsVars
  <2>7. KeysInv'
    BY <1>16, <2>1 DEF KeysInv, Connect, dtlsVars, audioVars
  <2>8. ReadyInv'
    BY <1>16, <2>1 DEF ReadyInv, ConnectedHasKeys, Connect, audioVars, stopVars
  <2> QED
    BY <1>16, <2>1, <2>2, <2>3, <2>4, <2>5, <2>6, <2>7, <2>8
    DEF Connect, signalingVars, iceVars, dtlsVars, audioVars, stopVars,
        BudgetInv
<1>17. ASSUME StartLoop(r) PROVE IInv'
  <2>1. /\ rx' \in [Receivers -> RxThread] /\ rx'[r].pc \in {"storeThread", "idle"}
        /\ \A q \in Receivers \ {r} : rx'[q] = rx[q]
    <3>1. CASE RxReturn(r)
      BY <3>1, RxReturns DEF TypeOK
    <3>2. ASSUME NEW c \in Captures,
                 rx' = [rx EXCEPT ![r] = [pc |-> "storeThread", msg |-> "none",
                                          thread |-> c, seen |-> FALSE]]
          PROVE  /\ rx' \in [Receivers -> RxThread] /\ rx'[r].pc = "storeThread"
                 /\ \A q \in Receivers \ {r} : rx'[q] = rx[q]
      BY <3>2, ThreadPut DEF TypeOK, ThreadType, RxThread
    <3> QED
      BY <1>17, <3>1, <3>2 DEF StartLoop
  <2>2. TypeOK'
    <3>1. AudioType'
      BY <1>17
      DEF TypeOK, AudioType, StartLoop, RxReturn, RxIdle, RxAt, signalingVars,
          iceVars, dtlsVars, stopVars
    <3>2. ThreadType'
      BY <1>17, <2>1
      DEF TypeOK, ThreadType, StartLoop, signalingVars, iceVars, dtlsVars,
          stopVars
    <3> QED
      BY <1>17, <3>1, <3>2
      DEF TypeOK, CallType, SignalingType, IceType, HistoryType, StartLoop,
          signalingVars, iceVars, dtlsVars, stopVars
  <2>3. StartInv'
    BY <1>17, <2>1 DEF StartInv, StartLoop, dtlsVars, stopVars
  <2>4. LatchInv'
    BY <1>17, <2>1 DEF LatchInv, StartLoop, iceVars
  <2>5. CertInv'
    BY <1>17, <2>1 DEF CertInv, StartLoop, dtlsVars
  <2>6. SelectInv'
    BY <1>17, <2>1
    DEF SelectInv, HandshakeFollowsSelection, StartLoop, iceVars, dtlsVars
  <2>7. KeysInv'
    BY <1>17, <2>1 DEF KeysInv, StartLoop, dtlsVars
  <2>8. ReadyInv'
    BY <1>17, <2>1 DEF ReadyInv, ConnectedHasKeys, StartLoop, stopVars
  <2> QED
    BY <1>17, <2>1, <2>2, <2>3, <2>4, <2>5, <2>6, <2>7, <2>8
    DEF StartLoop, signalingVars, iceVars, dtlsVars, stopVars, BudgetInv
<1>18. ASSUME StoreThread(r) PROVE IInv'
  <2>1. /\ rx' \in [Receivers -> RxThread] /\ rx'[r].pc = "idle"
        /\ \A q \in Receivers \ {r} : rx'[q] = rx[q]
    BY <1>18
    DEF TypeOK, ThreadType, RxThread, StoreThread, RxReturn, RxIdle, RxAt
  <2>2. TypeOK'
    <3>1. AudioType'
      BY <1>18
      DEF TypeOK, AudioType, ThreadType, RxThread, StoreThread, RxReturn,
          RxIdle, RxAt, signalingVars, iceVars, dtlsVars, stopVars
    <3>2. ThreadType'
      BY <1>18, <2>1
      DEF TypeOK, ThreadType, StoreThread, signalingVars, iceVars, dtlsVars,
          stopVars
    <3> QED
      BY <1>18, <3>1, <3>2
      DEF TypeOK, CallType, SignalingType, IceType, HistoryType, StoreThread,
          signalingVars, iceVars, dtlsVars, stopVars
  <2>3. StartInv'
    BY <1>18, <2>1 DEF StartInv, StoreThread, dtlsVars, stopVars
  <2>4. LatchInv'
    BY <1>18, <2>1 DEF LatchInv, StoreThread, iceVars
  <2>5. CertInv'
    BY <1>18, <2>1 DEF CertInv, StoreThread, dtlsVars
  <2>6. SelectInv'
    BY <1>18, <2>1
    DEF SelectInv, HandshakeFollowsSelection, StoreThread, iceVars, dtlsVars
  <2>7. KeysInv'
    BY <1>18, <2>1 DEF KeysInv, StoreThread, dtlsVars
  <2>8. ReadyInv'
    BY <1>18, <2>1 DEF ReadyInv, ConnectedHasKeys, StoreThread, stopVars
  <2> QED
    BY <1>18, <2>1, <2>2, <2>3, <2>4, <2>5, <2>6, <2>7, <2>8
    DEF StoreThread, signalingVars, iceVars, dtlsVars, stopVars, BudgetInv
<1> QED BY <1>1, <1>2, <1>3, <1>4, <1>5, <1>6, <1>7, <1>8, <1>9, <1>10, <1>11,
   <1>12, <1>13, <1>14, <1>15, <1>16, <1>17, <1>18 DEF RxInput, RxStep

\* A capture pump that leaves changes only its own place.
LEMMA CaptureExitsPreserves ==
  ASSUME IInv, NEW c \in Captures, CaptureExits(c)
  PROVE  IInv'
<1> USE DEF IInv
<1>1. ASSUME CaptureExits(c) PROVE IInv'
  <2>1. TypeOK'
    <3>1. AudioType'
      BY <1>1
      DEF TypeOK, AudioType, CaptureExits, signalingVars, iceVars, dtlsVars,
          stopVars
    <3> QED
      BY <1>1, <3>1
      DEF TypeOK, CallType, SignalingType, IceType, ThreadType, HistoryType,
          CaptureExits, signalingVars, iceVars, dtlsVars, stopVars
  <2> QED
    BY <1>1, <2>1
    DEF CaptureExits, signalingVars, iceVars, dtlsVars, stopVars, StartInv,
        LatchInv, CertInv, SelectInv, KeysInv, ReadyInv, BudgetInv,
        HandshakeFollowsSelection, ConnectedHasKeys
<1> QED BY <1>1

\* Stop: whatever it takes away, it set m_stopped first.
LEMMA StopPreserves ==
  ASSUME IInv, NEW t \in Stoppers, StopCall(t) \/ StopStep(t)
  PROVE  IInv'
<1> USE DEF IInv
<1>1. ASSUME StopCall(t) PROVE IInv'
  <2>1. /\ stop' \in [Stoppers -> StopThread] /\ stop'[t].pc \in {"stopLoop", "done"}
        /\ \A u \in Stoppers \ {t} : stop'[u] = stop[u]
    BY <1>1 DEF TypeOK, ThreadType, StopThread, StopCall, StopGoto
  <2>2. TypeOK'
    <3>1. CallType'
      BY <1>1
      DEF TypeOK, CallType, States, Members, StopCall, StopGoto, signalingVars,
          iceVars, dtlsVars, audioVars
    <3>2. ThreadType'
      BY <1>1, <2>1
      DEF TypeOK, ThreadType, StopCall, signalingVars, iceVars, dtlsVars,
          audioVars
    <3> QED
      BY <1>1, <3>1, <3>2
      DEF TypeOK, SignalingType, IceType, AudioType, HistoryType, StopCall,
          signalingVars, iceVars, dtlsVars, audioVars
  <2>3. ReadyInv'
    BY <1>1, <2>1 DEF ReadyInv, ConnectedHasKeys, StopCall, audioVars
  <2> QED
    BY <1>1, <2>1, <2>2, <2>3
    DEF StopCall, signalingVars, iceVars, dtlsVars, audioVars, StartInv,
        LatchInv, CertInv, SelectInv, KeysInv, BudgetInv,
        HandshakeFollowsSelection
<1>2. ASSUME StopLoop(t) PROVE IInv'
  <2>1. /\ stop' \in [Stoppers -> StopThread] /\ stop'[t].pc = "join"
        /\ \A u \in Stoppers \ {t} : stop'[u] = stop[u]
    <3> DEFINE h == [pc |-> "join", thread |-> captureThread]
    <3>1. h \in StopThread
      BY DEF StopThread, TypeOK, AudioType
    <3> HIDE DEF h
    <3>2. stop' = [stop EXCEPT ![t] = h]
      BY <1>2 DEF StopLoop, h
    <3> QED
      BY <3>1, <3>2, ThreadPut DEF TypeOK, ThreadType, h
  <2>2. TypeOK'
    <3>1. AudioType'
      BY <1>2 DEF TypeOK, AudioType, StopLoop, signalingVars, iceVars, dtlsVars
    <3>2. ThreadType'
      BY <1>2, <2>1
      DEF TypeOK, ThreadType, StopLoop, signalingVars, iceVars, dtlsVars
    <3> QED
      BY <1>2, <3>1, <3>2
      DEF TypeOK, CallType, SignalingType, IceType, HistoryType, StopLoop,
          signalingVars, iceVars, dtlsVars
  <2>3. ReadyInv'
    BY <1>2, <2>1 DEF ReadyInv, ConnectedHasKeys, StopLoop
  <2> QED
    BY <1>2, <2>1, <2>2, <2>3
    DEF StopLoop, signalingVars, iceVars, dtlsVars, StartInv, LatchInv,
        CertInv, SelectInv, KeysInv, BudgetInv, HandshakeFollowsSelection
<1>3. ASSUME Join(t) PROVE IInv'
  <2>1. /\ stop' \in [Stoppers -> StopThread] /\ stop'[t].pc = "stopTimer"
        /\ \A u \in Stoppers \ {t} : stop'[u] = stop[u]
    BY <1>3 DEF TypeOK, ThreadType, StopThread, Join
  <2>2. TypeOK'
    <3>1. ThreadType'
      BY <1>3, <2>1
      DEF TypeOK, ThreadType, Join, signalingVars, iceVars, dtlsVars, audioVars
    <3> QED
      BY <1>3, <3>1
      DEF TypeOK, CallType, SignalingType, IceType, AudioType, HistoryType,
          Join, signalingVars, iceVars, dtlsVars, audioVars
  <2>3. ReadyInv'
    BY <1>3, <2>1 DEF ReadyInv, ConnectedHasKeys, Join, audioVars
  <2> QED
    BY <1>3, <2>1, <2>2, <2>3
    DEF Join, signalingVars, iceVars, dtlsVars, audioVars, StartInv, LatchInv,
        CertInv, SelectInv, KeysInv, BudgetInv, HandshakeFollowsSelection
<1>4. ASSUME StopTimer(t) PROVE IInv'
  <2>1. /\ stop' \in [Stoppers -> StopThread] /\ stop'[t].pc = "release"
        /\ \A u \in Stoppers \ {t} : stop'[u] = stop[u]
    BY <1>4 DEF TypeOK, ThreadType, StopThread, StopTimer, StopGoto
  <2>2. TypeOK'
    <3>1. IceType'
      BY <1>4
      DEF TypeOK, IceType, StopTimer, CancelTimer, StopGoto, signalingVars,
          dtlsVars, audioVars
    <3>2. ThreadType'
      BY <1>4, <2>1
      DEF TypeOK, ThreadType, StopTimer, signalingVars, dtlsVars, audioVars
    <3> QED
      BY <1>4, <3>1, <3>2
      DEF TypeOK, CallType, SignalingType, AudioType, HistoryType, StopTimer,
          signalingVars, dtlsVars, audioVars
  <2>3. ReadyInv'
    BY <1>4, <2>1
    DEF ReadyInv, ConnectedHasKeys, StopTimer, CancelTimer, audioVars
  <2>4. BudgetInv'
    BY <1>4, <2>1 DEF BudgetInv, StopTimer, CancelTimer
  <2> QED
    BY <1>4, <2>1, <2>2, <2>3, <2>4
    DEF StopTimer, signalingVars, dtlsVars, audioVars, StartInv, LatchInv,
        CertInv, SelectInv, KeysInv, HandshakeFollowsSelection
<1>5. ASSUME Release(t) PROVE IInv'
  <2>1. /\ stop' \in [Stoppers -> StopThread] /\ stop'[t].pc = "done"
        /\ \A u \in Stoppers \ {t} : stop'[u] = stop[u]
    BY <1>5 DEF TypeOK, ThreadType, StopThread, Release
  <2>2. TypeOK'
    <3>1. CallType'
      BY <1>5
      DEF TypeOK, CallType, States, Members, Release, signalingVars, iceVars,
          dtlsVars
    <3>2. AudioType'
      BY <1>5 DEF TypeOK, AudioType, Release, signalingVars, iceVars, dtlsVars
    <3>3. ThreadType'
      BY <1>5, <2>1
      DEF TypeOK, ThreadType, Release, signalingVars, iceVars, dtlsVars
    <3>4. HistoryType'
      BY <1>5
      DEF TypeOK, HistoryType, Release, signalingVars, iceVars, dtlsVars
    <3> QED
      BY <1>5, <3>1, <3>2, <3>3, <3>4
      DEF TypeOK, SignalingType, IceType, Release, signalingVars, iceVars,
          dtlsVars
  <2>3. StartInv'
    BY <1>5, <2>1 DEF StartInv, Release, dtlsVars
  <2>4. LatchInv'
    BY <1>5, <2>1 DEF LatchInv, Release, iceVars
  <2>5. CertInv'
    BY <1>5, <2>1 DEF CertInv, Release, dtlsVars
  <2>6. SelectInv'
    BY <1>5, <2>1
    DEF SelectInv, HandshakeFollowsSelection, Release, iceVars, dtlsVars
  <2>7. KeysInv'
    BY <1>5, <2>1 DEF KeysInv, Release, dtlsVars
  <2>8. ReadyInv'
    BY <1>5, <2>1 DEF ReadyInv, ConnectedHasKeys, Release
  <2> QED
    BY <1>5, <2>1, <2>2, <2>3, <2>4, <2>5, <2>6, <2>7, <2>8
    DEF Release, signalingVars, iceVars, dtlsVars, BudgetInv
<1> QED BY <1>1, <1>2, <1>3, <1>4, <1>5 DEF StopStep

\* The initial state satisfies the invariant.
LEMMA InitHolds == Init => IInv
<1> SUFFICES ASSUME Init PROVE IInv
  OBVIOUS
<1> USE DEF Init
<1>1. TypeOK
  <2>1. CallType /\ SignalingType /\ HistoryType
    BY DEF CallType, SignalingType, HistoryType, States, Members
  <2>2. IceType
    <3>1. 0 \in 0..MaxAttempts
      BY AttemptsAssumption
    <3>2. [handle |-> FALSE, live |-> FALSE] \in [handle : BOOLEAN, live : BOOLEAN]
      OBVIOUS
    <3> QED
      BY <3>1, <3>2 DEF IceType
  <2>3. AudioType
    BY DEF AudioType
  <2>4. ThreadType
    BY RxIdleType DEF ThreadType, SigIdle, SigThread, StopIdle, StopThread
  <2> QED
    BY <2>1, <2>2, <2>3, <2>4 DEF TypeOK
<1>2. StartInv
  BY DEF StartInv, SigIdle, RxIdle, RxAt
<1>3. LatchInv
  BY DEF LatchInv, SigIdle, RxIdle, RxAt
<1>4. CertInv
  BY DEF CertInv, RxIdle, RxAt
<1>5. SelectInv
  BY DEF SelectInv, HandshakeFollowsSelection, RxIdle, RxAt
<1>6. KeysInv
  BY DEF KeysInv, RxIdle, RxAt
<1>7. ReadyInv
  BY DEF ReadyInv, ConnectedHasKeys, RxIdle, RxAt, StopIdle
<1>8. BudgetInv
  BY DEF BudgetInv, SigIdle
<1> QED
  BY <1>1, <1>2, <1>3, <1>4, <1>5, <1>6, <1>7, <1>8 DEF IInv

\* A step that changes nothing keeps the invariant.
LEMMA StutterPreserves ==
  ASSUME IInv, UNCHANGED vars
  PROVE  IInv'
<1> USE DEF vars, signalingVars, iceVars, dtlsVars, audioVars, stopVars
<1>1. TypeOK'
  BY
  DEF IInv, TypeOK, CallType, SignalingType, IceType, AudioType, ThreadType,
      HistoryType
<1>2. StartInv' /\ LatchInv' /\ CertInv'
  BY DEF IInv, StartInv, LatchInv, CertInv
<1>3. SelectInv' /\ KeysInv' /\ ReadyInv' /\ BudgetInv'
  BY
  DEF IInv, SelectInv, KeysInv, ReadyInv, BudgetInv, HandshakeFollowsSelection,
      ConnectedHasKeys
<1> QED
  BY <1>1, <1>2, <1>3 DEF IInv

\* Every step keeps the invariant.
LEMMA NextPreserves ==
  ASSUME IInv, [Next]_vars
  PROVE  IInv'
<1>1. CASE Start
  BY <1>1, StartPreserves
<1>2. CASE \E s \in Signalers : SigInput(s) \/ SigStep(s)
  BY <1>2, SignalingPreserves
<1>3. CASE TimerStep
  BY <1>3, TimerPreserves
<1>4. CASE \E r \in Receivers : RxInput(r) \/ RxStep(r)
  BY <1>4, DatagramPreserves
<1>5. CASE \E c \in Captures : CaptureExits(c)
  BY <1>5, CaptureExitsPreserves
<1>6. CASE \E t \in Stoppers : StopCall(t) \/ StopStep(t)
  BY <1>6, StopPreserves
<1>7. CASE UNCHANGED vars
  BY <1>7, StutterPreserves
<1> QED
  BY <1>1, <1>2, <1>3, <1>4, <1>5, <1>6, <1>7 DEF Next

-------------------------------------------------------------------------------
\* The inductive invariant holds in every reachable state of a call.
THEOREM InvariantHolds == Spec => []IInv
BY InitHolds, NextPreserves, PTL DEF Spec

\* Type correctness, m_iceAttempts' bound of MaxAttempts included: the timer's
\* handler is the only writer beside the reset in StartIcePhase.
THEOREM TypeCorrect == Spec => []TypeOK
<1>1. IInv => TypeOK
  BY DEF IInv
<1> QED
  BY InvariantHolds, <1>1, PTL

\* However many threads enter StartIcePhase, the latch lets one build an agent.
THEOREM AtMostOneIceAgent == Spec => []OneIceAgent
<1>1. IInv => OneIceAgent
  BY DEF IInv, LatchInv, OneIceAgent
<1> QED
  BY InvariantHolds, <1>1, PTL

\* However many callbacks enter StartDtlsPhase, the move of the certificate
\* lets one open a DTLS session.
THEOREM AtMostOneDtlsSession == Spec => []OneDtlsSession
<1>1. IInv => OneDtlsSession
  BY DEF IInv, CertInv, OneDtlsSession
<1> QED
  BY InvariantHolds, <1>1, PTL

\* A call that shows DtlsHandshaking or Connected has an agent that selected
\* a pair, even after late callbacks and after the retry timer gave up.
THEOREM SelectionBeforeHandshake == Spec => []HandshakeFollowsSelection
<1>1. IInv => HandshakeFollowsSelection
  BY DEF IInv, SelectInv
<1> QED
  BY InvariantHolds, <1>1, PTL

\* SRTP keys come from the one DTLS session, and only once it established.
THEOREM HandshakeBeforeKeys == Spec => []KeysFollowHandshake
<1>1. IInv => KeysFollowHandshake
  BY DEF IInv, KeysInv, KeysFollowHandshake
<1> QED
  BY InvariantHolds, <1>1, PTL

\* Until Stop is called, Connected means that media can be decrypted.
THEOREM ConnectedMeansKeyed == Spec => []ConnectedHasKeys
<1>1. IInv => ConnectedHasKeys
  BY DEF IInv, ReadyInv
<1> QED
  BY InvariantHolds, <1>1, PTL

\* The binding requests of a call stay within its retry budget.
THEOREM RetriesBounded == Spec => []RetryBudget
<1>1. IInv => RetryBudget
  BY AttemptsAssumption
  DEF IInv, BudgetInv, TypeOK, IceType, HistoryType, RetryBudget
<1> QED
  BY InvariantHolds, <1>1, PTL

\* Selection, handshake, keys and Connected come in this order in every call.
THEOREM PhaseOrder == Spec => []PhasesInOrder
<1>1. IInv => PhasesInOrder
  BY DEF IInv, SelectInv, KeysInv, KeysFollowHandshake, ReadyInv, PhasesInOrder
<1> QED
  BY InvariantHolds, <1>1, PTL

\* One ICE phase, and no more binding requests than its budget allows.
THEOREM IcePhaseOnce == Spec => []IceOnce
<1>1. IInv => OneIceAgent
  BY DEF IInv, LatchInv, OneIceAgent
<1>2. IInv => RetryBudget
  BY AttemptsAssumption
  DEF IInv, BudgetInv, TypeOK, IceType, HistoryType, RetryBudget
<1> QED
  BY InvariantHolds, <1>1, <1>2, PTL DEF IceOnce

-------------------------------------------------------------------------------
(* The call implements CallPhases.                                          *)

\* What CallPhases calls paired.
Paired == iceAgent # NoAgent /\ iceAgent.connected

\* A step of CallPhases, or none.
Shows == [Phases!Next]_(Phases!phases)

\* Why a call fails: a thread on its way to Failed knows of a selected pair, and
\* the timer gives up only when its retries are spent; retries are counted for
\* the one agent, which comes after Start.
ReasonInv ==
  /\ agents # 0 => state # "Connecting"
  /\ agents = 0 => iceAttempts = 0
  /\ tick = "giveUp" => agents # 0 /\ iceAttempts = MaxAttempts
  /\ \A r \in Receivers :
       rx[r].pc \in {"fail", "readReady", "checkEstablished"} => Paired

\* Where nothing of what is shown changes, CallPhases stutters.
LEMMA QuietShows ==
  ASSUME UNCHANGED <<state, iceAttempts, iceAgent, established, srtpReady, stopped>>
  PROVE  Shows
BY DEF Shows, Phases!phases

\* A session, and an establishment, are those of a selected pair.
LEMMA SessionIsPaired ==
  ASSUME IInv, sessions = 1 \/ established \/ "dtls" \in owned
  PROVE  Paired
BY DEF IInv, KeysInv, SelectInv, LatchInv, Paired

\* So is a thread on its way from the selection to the session.
LEMMA SelectedIsPaired ==
  ASSUME IInv, NEW r \in Receivers,
         rx[r].pc \in {"iceConnected", "cancelTimer", "checkDtls", "enterDtls", "takeCert",
                       "initiate"}
  PROVE  Paired
BY DEF IInv, SelectInv, LatchInv, Paired

\* What m_iceAgent points to was built for this call.
LEMMA AgentIsThere ==
  ASSUME IInv, iceAgent # NoAgent
  PROVE  iceAgent \in Agent /\ agents # 0
BY DEF IInv, TypeOK, IceType, LatchInv

\* Sending a batch keeps the verdict.
LEMMA SendKeepsPaired ==
  ASSUME IInv, SendIceBindingRequests
  PROVE  Paired' = Paired /\ (iceAgent' = NoAgent <=> iceAgent = NoAgent)
<1>1. CASE "agent" \in owned
  <2>1. iceAgent \in Agent
    BY <1>1, AgentIsThere DEF IInv, LatchInv
  <2>2. iceAgent' \in Agent /\ iceAgent'.connected = iceAgent.connected
    BY <1>1, <2>1, AgentType DEF SendIceBindingRequests
  <2> QED BY <2>1, <2>2, NoAgentIsNoAgent DEF Paired
<1>2. CASE "agent" \notin owned
  BY <1>2 DEF SendIceBindingRequests, Paired
<1> QED BY <1>1, <1>2

\* A step whose effect on the agent keeps the verdict, and which changes nothing
\* else that is shown.
LEMMA SamePairShows ==
  ASSUME Paired' = Paired, UNCHANGED <<state, iceAttempts, established, srtpReady, stopped>>
  PROVE  Shows
BY DEF Shows, Phases!phases, Paired

\* Start begins the call, or fails it.
LEMMA StartShows ==
  ASSUME IInv, ReasonInv, Start
  PROVE  ReasonInv' /\ Shows
<1>1. state = "Connecting" /\ agents = 0 /\ state' \in {"IceConnecting", "Failed"}
  BY DEF Start, ReasonInv
<1>2. UNCHANGED <<iceAttempts, iceAgent, established, srtpReady, stopped, agents, tick, rx>>
  BY DEF Start, iceVars, dtlsVars, audioVars
<1>3. ReasonInv'
  BY <1>1, <1>2 DEF ReasonInv, Paired
<1>4. Phases!Begin
  BY <1>1, <1>2 DEF Phases!Begin
<1> QED BY <1>3, <1>4 DEF Shows, Phases!Next

\* A thread that delivers signaling changes nothing that is shown, also when it
\* builds the agent: that one has not selected a pair yet.
LEMMA SignalingShows ==
  ASSUME IInv, ReasonInv, NEW s \in Signalers, SigInput(s) \/ SigStep(s)
  PROVE  ReasonInv' /\ Shows
<1>1. CASE IcePublish(s)
  <2>1. agents = 0 /\ iceAgent = NoAgent /\ agents' = 1 /\ started
    BY <1>1 DEF IcePublish, IInv, LatchInv, StartInv
  <2>2. state # "Connecting" /\ state' = state
    BY <1>1, <2>1 DEF IcePublish, IInv, StartInv
  <2>3. iceAttempts' = iceAttempts
    BY <1>1, <2>1 DEF IcePublish, ReasonInv
  <2>4. ~Paired /\ ~Paired'
    BY <1>1, <2>1 DEF Paired, IcePublish, NewAgent
  <2>5. UNCHANGED <<established, srtpReady, stopped, tick, rx>>
    BY <1>1 DEF IcePublish, dtlsVars, audioVars, stopVars
  <2>6. ReasonInv'
    BY <2>1, <2>2, <2>3, <2>4, <2>5 DEF ReasonInv
  <2>7. Paired' = Paired /\ UNCHANGED <<state, iceAttempts, established, srtpReady, stopped>>
    BY <2>2, <2>3, <2>4, <2>5 DEF Paired
  <2> QED BY <2>6, <2>7, SamePairShows
<1>2. CASE IceFirstSend(s)
  <2>1. Paired' = Paired
    BY <1>2, SendKeepsPaired DEF IceFirstSend
  <2>2. UNCHANGED <<state, iceAttempts, established, srtpReady, stopped, agents, tick, rx>>
    BY <1>2 DEF IceFirstSend, dtlsVars, audioVars, stopVars
  <2>3. ReasonInv'
    BY <2>1, <2>2 DEF ReasonInv
  <2> QED BY <2>1, <2>2, <2>3, SamePairShows
<1>3. CASE \/ \E fp \in BOOLEAN : OnPeerInitialSetup(s, fp)
           \/ \E c \in Candidates : OnPeerCandidates(s, {c})
           \/ IceSnapshot(s) \/ IceLatch(s) \/ ArmTimer(s) \/ StoreTimer(s)
  <2>1. /\ UNCHANGED <<state, iceAttempts, iceAgent, established, srtpReady, stopped>>
        /\ UNCHANGED <<agents, tick, rx>>
    BY <1>3
    DEF OnPeerInitialSetup, OnPeerCandidates, IceSnapshot, IceLatch, ArmTimer, StoreTimer,
        iceVars, dtlsVars, audioVars, stopVars
  <2>2. ReasonInv'
    BY <2>1 DEF ReasonInv, Paired
  <2> QED BY <2>1, <2>2, QuietShows
<1> QED BY <1>1, <1>2, <1>3 DEF SigInput, SigStep

\* The timer counts a retry while there are some, and fails the call after that.
LEMMA TimerShows ==
  ASSUME IInv, ReasonInv, TimerStep
  PROVE  ReasonInv' /\ Shows
<1>1. CASE TimerFires
  <2>1. /\ UNCHANGED <<state, iceAttempts, iceAgent, established, srtpReady, stopped>>
        /\ UNCHANGED <<agents, rx>>
    BY <1>1 DEF TimerFires, dtlsVars, audioVars, stopVars
  <2>2. tick' = "giveUp" => agents # 0 /\ iceAttempts >= MaxAttempts
    BY <1>1 DEF TimerFires, IInv, BudgetInv
  <2>3. iceAttempts \in 0..MaxAttempts
    BY DEF IInv, TypeOK, IceType
  <2>4. ReasonInv'
    BY <2>1, <2>2, <2>3, AttemptsAssumption DEF ReasonInv, Paired
  <2> QED BY <2>1, <2>4, QuietShows
<1>2. CASE TimerGivesUp
  <2>1. state' = "Failed" /\ tick' = "idle"
    BY <1>2 DEF TimerGivesUp
  <2>2. UNCHANGED <<iceAttempts, iceAgent, established, srtpReady, stopped, agents, rx>>
    BY <1>2 DEF TimerGivesUp, dtlsVars, audioVars, stopVars
  <2>3. state # "Connecting" /\ iceAttempts = MaxAttempts
    BY <1>2 DEF TimerGivesUp, ReasonInv
  <2>4. ReasonInv'
    BY <2>1, <2>2 DEF ReasonInv, Paired
  <2>5. Phases!Fail
    BY <2>1, <2>2, <2>3 DEF Phases!Fail, Phases!Began
  <2> QED BY <2>4, <2>5 DEF Shows, Phases!Next
<1>3. CASE TimerSends
  <2>1. Paired' = Paired
    BY <1>3, SendKeepsPaired DEF TimerSends
  <2>2. agents # 0 /\ iceAttempts < MaxAttempts
    BY <1>3 DEF TimerSends, IInv, BudgetInv
  <2>3. /\ UNCHANGED <<state, established, srtpReady, stopped, agents, rx>>
        /\ iceAttempts' = iceAttempts + 1 /\ tick' = "idle"
    BY <1>3 DEF TimerSends, dtlsVars, audioVars, stopVars
  <2>4. ReasonInv'
    BY <2>1, <2>2, <2>3 DEF ReasonInv
  <2>5. Phases!Retry
    BY <2>1, <2>2, <2>3 DEF Phases!Retry, Phases!Began, ReasonInv, Paired
  <2> QED BY <2>4, <2>5 DEF Shows, Phases!Next
<1> QED BY <1>1, <1>2, <1>3 DEF TimerStep

\* A callback goes on: it may be on its way to Failed only with a pair, and the
\* others stay where they are.
Onward(r) ==
  /\ \A q \in Receivers \ {r} : rx'[q] = rx[q]
  /\ rx'[r].pc \in {"fail", "readReady", "checkEstablished"} => Paired

\* That keeps the reasons, as long as a pair once selected stays.
LEMMA OnwardKeeps ==
  ASSUME ReasonInv, NEW r \in Receivers, Onward(r), Paired => Paired',
         UNCHANGED <<agents, iceAttempts, tick>>, state' # "Connecting" \/ state' = state
  PROVE  ReasonInv'
BY DEF ReasonInv, Onward

\* A callback goes where its test leads.
LEMMA GoesOnward ==
  ASSUME IInv, NEW r \in Receivers, NEW pc, RxGoto(r, pc),
         pc \in {"fail", "readReady", "checkEstablished"} => Paired
  PROVE  Onward(r)
<1>1. rx' = [rx EXCEPT ![r].pc = pc] /\ rx \in [Receivers -> RxThread]
  BY DEF RxGoto, IInv, TypeOK, ThreadType
<1>2. rx'[r].pc = pc
  BY <1>1 DEF RxThread
<1> QED BY <1>1, <1>2 DEF Onward

\* A callback returns.
LEMMA ReturnsOnward ==
  ASSUME IInv, NEW r \in Receivers, RxReturn(r)
  PROVE  Onward(r)
BY RxReturns DEF IInv, TypeOK, Onward

\* A message that selects a pair pairs the call; no other message unpairs it.
LEMMA StunShows ==
  ASSUME IInv, ReasonInv, NEW r \in Receivers, ProcessStun(r)
  PROVE  ReasonInv' /\ Shows
<1> DEFINE msg == rx[r].msg
           seen == rx[r].seen
<1>1. agents # 0 /\ iceAgent \in Agent /\ iceAgent # NoAgent
  BY DEF ProcessStun, IInv, LatchInv, TypeOK, IceType
<1>2. seen \in BOOLEAN
  BY DEF IInv, TypeOK, ThreadType, RxThread
<1>3. iceAgent' = AfterIncoming(iceAgent, msg, Reflector0, seen)
  BY DEF ProcessStun
<1> HIDE DEF msg, seen
<1>4. iceAgent' \in Agent /\ (iceAgent.connected => iceAgent'.connected)
  BY <1>1, <1>2, <1>3, AgentIncoming
<1>5. iceAgent' # NoAgent /\ Paired \in BOOLEAN /\ Paired' \in BOOLEAN /\ (Paired => Paired')
  BY <1>1, <1>4, NoAgentIsNoAgent DEF Paired, Agent
<1>6. /\ UNCHANGED <<state, iceAttempts, established, srtpReady, stopped>>
      /\ UNCHANGED <<agents, tick>>
  BY DEF ProcessStun, dtlsVars, audioVars, stopVars
<1>7. Onward(r)
  <2>1. CASE RxReturn(r)
    BY <2>1, ReturnsOnward
  <2>2. CASE rx' = [rx EXCEPT ![r] = RxAt("iceConnected")]
    <3>1. rx \in [Receivers -> RxThread]
      BY DEF IInv, TypeOK, ThreadType
    <3> QED BY <2>2, <3>1, RxIdleType DEF Onward
  <2> QED BY <2>1, <2>2 DEF ProcessStun
<1>8. ReasonInv'
  BY <1>5, <1>6, <1>7, OnwardKeeps
<1>9. CASE Paired' = Paired
  BY <1>6, <1>8, <1>9, SamePairShows
<1>10. CASE Paired' # Paired
  <2>1. Paired' = TRUE /\ state # "Connecting"
    BY <1>1, <1>5, <1>10 DEF ReasonInv
  <2>2. Phases!Pair
    BY <1>6, <2>1 DEF Phases!Pair, Phases!Began, Paired
  <2> QED BY <1>8, <2>2 DEF Shows, Phases!Next
<1> QED BY <1>9, <1>10

\* The steps of a callback that show nothing new.
RxQuiet(r) ==
  \/ \E msg \in StunMessages : ReceiveStun(r, msg)
  \/ OnIceConnected(r) \/ CancelRetry(r) \/ CheckDtls(r) \/ TakeCert(r) \/ InitiateDtls(r)
  \/ ReadSrtpReady(r) \/ CheckEstablished(r) \/ ResetAudio(r) \/ OpenAudio(r)
  \/ StartLoop(r) \/ StoreThread(r)

\* Where they lead a callback: to Failed only with a pair.
LEMMA QuietOnward ==
  ASSUME IInv, ReasonInv, NEW r \in Receivers, RxQuiet(r)
  PROVE  Onward(r)
<1>1. rx \in [Receivers -> RxThread]
  BY DEF IInv, TypeOK, ThreadType
<1>2. CASE \E msg \in StunMessages : ReceiveStun(r, msg)
  BY <1>1, <1>2 DEF ReceiveStun, Onward
<1>3. CASE OnIceConnected(r)
  BY <1>3, ReturnsOnward, GoesOnward DEF OnIceConnected
<1>4. CASE CancelRetry(r)
  BY <1>4, GoesOnward DEF CancelRetry
<1>5. CASE CheckDtls(r)
  BY <1>5, ReturnsOnward, GoesOnward DEF CheckDtls
<1>6. CASE TakeCert(r)
  <2>1. Paired
    BY <1>6, SelectedIsPaired DEF TakeCert
  <2> QED BY <1>6, <2>1, GoesOnward DEF TakeCert
<1>7. CASE InitiateDtls(r)
  BY <1>7, ReturnsOnward DEF InitiateDtls
<1>8. CASE ReadSrtpReady(r)
  <2>1. Paired
    BY <1>8 DEF ReadSrtpReady, ReasonInv
  <2> QED BY <1>1, <1>8, <2>1 DEF ReadSrtpReady, Onward
<1>9. CASE CheckEstablished(r)
  <2>1. Paired
    BY <1>9 DEF CheckEstablished, ReasonInv
  <2>2. \/ RxReturn(r)
        \/ \E target \in {"installSrtp", "fail"} : RxGoto(r, target)
    BY <1>9 DEF CheckEstablished
  <2> QED BY <2>1, <2>2, ReturnsOnward, GoesOnward
<1>10. CASE ResetAudio(r)
  BY <1>10, GoesOnward DEF ResetAudio
<1>11. CASE OpenAudio(r)
  <2>1. Paired
    BY <1>11, SessionIsPaired DEF OpenAudio, IInv, KeysInv
  <2>2. RxGoto(r, "connect") \/ RxGoto(r, "fail")
    BY <1>11 DEF OpenAudio
  <2> QED BY <2>1, <2>2, GoesOnward
<1>12. CASE StartLoop(r)
  <2>1. CASE RxReturn(r)
    BY <2>1, ReturnsOnward
  <2>2. CASE \E c \in Captures :
               rx' = [rx EXCEPT ![r] = [pc |-> "storeThread", msg |-> "none",
                                        thread |-> c, seen |-> FALSE]]
    BY <1>1, <2>2 DEF Onward
  <2> QED BY <1>12, <2>1, <2>2 DEF StartLoop
<1>13. CASE StoreThread(r)
  BY <1>13, ReturnsOnward DEF StoreThread
<1> QED
  BY <1>2, <1>3, <1>4, <1>5, <1>6, <1>7, <1>8, <1>9, <1>10, <1>11, <1>12, <1>13 DEF RxQuiet

\* They change nothing that is shown.
LEMMA QuietReceiver ==
  ASSUME IInv, ReasonInv, NEW r \in Receivers, RxQuiet(r)
  PROVE  ReasonInv' /\ Shows
<1>1. /\ UNCHANGED <<state, iceAttempts, iceAgent, established, srtpReady, stopped>>
      /\ UNCHANGED <<agents, tick>>
  BY DEF RxQuiet, ReceiveStun, OnIceConnected, CancelRetry, CancelTimer, CheckDtls, TakeCert,
     InitiateDtls, ReadSrtpReady, CheckEstablished, ResetAudio, OpenAudio, StartLoop,
     StoreThread, iceVars, dtlsVars, audioVars, stopVars
<1>2. Paired' = Paired
  BY <1>1 DEF Paired
<1> QED BY <1>1, <1>2, QuietOnward, OnwardKeeps, QuietShows

\* A datagram callback shows a handshake, a failure or Connected only with what
\* each of them rests on.
LEMMA DatagramShows ==
  ASSUME IInv, ReasonInv, NEW r \in Receivers, RxInput(r) \/ RxStep(r)
  PROVE  ReasonInv' /\ Shows
<1>1. CASE EnterDtls(r)
  <2>1. Paired
    BY <1>1, SelectedIsPaired DEF EnterDtls
  <2>2. /\ UNCHANGED <<iceAttempts, iceAgent, established, srtpReady, stopped, agents, tick>>
        /\ state' = "DtlsHandshaking" /\ Paired' = Paired
    BY <1>1 DEF EnterDtls, iceVars, dtlsVars, audioVars, stopVars, Paired
  <2>3. ReasonInv'
    BY <1>1, <2>2, GoesOnward, OnwardKeeps DEF EnterDtls
  <2>4. Phases!Handshake
    BY <2>1, <2>2 DEF Phases!Handshake, Paired
  <2> QED BY <2>3, <2>4 DEF Shows, Phases!Next
<1>2. CASE Fail(r)
  <2>1. Paired
    BY <1>2 DEF Fail, ReasonInv
  <2>2. /\ UNCHANGED <<iceAttempts, iceAgent, established, srtpReady, stopped, agents, tick>>
        /\ state' = "Failed" /\ Paired' = Paired
    BY <1>2 DEF Fail, iceVars, dtlsVars, audioVars, stopVars, Paired
  <2>3. state # "Connecting"
    BY <2>1, AgentIsThere DEF ReasonInv, Paired
  <2>4. ReasonInv'
    BY <1>2, <2>2, ReturnsOnward, OnwardKeeps DEF Fail
  <2>5. Phases!Fail
    BY <2>1, <2>2, <2>3 DEF Phases!Fail, Phases!Began, Paired
  <2> QED BY <2>4, <2>5 DEF Shows, Phases!Next
<1>3. CASE ReceiveDtls(r)
  <2>1. Paired
    BY <1>3, SessionIsPaired DEF ReceiveDtls
  <2>2. /\ UNCHANGED <<state, iceAttempts, iceAgent, srtpReady, stopped, agents, tick>>
        /\ Paired' = Paired /\ established' = (established \/ dtls' = "established")
    BY <1>3 DEF ReceiveDtls, iceVars, audioVars, stopVars, Paired
  <2>3. Onward(r)
    BY <1>3, <2>1, GoesOnward DEF ReceiveDtls
  <2>4. ReasonInv'
    BY <2>2, <2>3, OnwardKeeps
  <2>5. established \in BOOLEAN
    BY DEF IInv, TypeOK, HistoryType
  <2>6. CASE established' = established
    BY <2>2, <2>4, <2>6, SamePairShows
  <2>7. CASE established' = TRUE
    <3>1. Phases!Secure
      BY <2>1, <2>2, <2>7 DEF Phases!Secure, Paired
    <3> QED BY <2>4, <3>1 DEF Shows, Phases!Next
  <2> QED BY <2>2, <2>5, <2>6, <2>7
<1>4. CASE InstallSrtp(r)
  <2>1. established
    BY <1>4 DEF InstallSrtp, IInv, KeysInv
  <2>2. /\ UNCHANGED <<state, iceAttempts, iceAgent, established, stopped, agents, tick>>
        /\ Paired' = Paired /\ srtpReady' = TRUE
    BY <1>4 DEF InstallSrtp, iceVars, dtlsVars, stopVars, Paired
  <2>3. ReasonInv'
    BY <1>4, <2>2, GoesOnward, OnwardKeeps DEF InstallSrtp
  <2>4. Phases!Key
    BY <2>1, <2>2 DEF Phases!Key
  <2> QED BY <2>3, <2>4 DEF Shows, Phases!Next
<1>5. CASE Connect(r)
  <2>1. established /\ (srtpReady \/ stopped)
    BY <1>5 DEF Connect, IInv, KeysInv, ReadyInv
  <2>2. /\ UNCHANGED <<iceAttempts, iceAgent, established, srtpReady, stopped, agents, tick>>
        /\ state' = "Connected" /\ Paired' = Paired
    BY <1>5 DEF Connect, iceVars, dtlsVars, audioVars, stopVars, Paired
  <2>3. ReasonInv'
    BY <1>5, <2>2, GoesOnward, OnwardKeeps DEF Connect
  <2>4. Phases!Connect
    BY <2>1, <2>2 DEF Phases!Connect
  <2> QED BY <2>3, <2>4 DEF Shows, Phases!Next
<1>6. CASE ProcessStun(r)
  BY <1>6, StunShows
<1>7. CASE RxQuiet(r)
  BY <1>7, QuietReceiver
<1> QED
  BY <1>1, <1>2, <1>3, <1>4, <1>5, <1>6, <1>7 DEF RxInput, RxStep, RxQuiet

\* Stop says first that it has begun, and only then takes the keys away.
LEMMA StopShows ==
  ASSUME IInv, ReasonInv, NEW t \in Stoppers, StopCall(t) \/ StopStep(t)
  PROVE  ReasonInv' /\ Shows
<1>1. UNCHANGED <<iceAttempts, iceAgent, established, agents, tick, rx>>
  BY DEF StopCall, StopStep, StopLoop, Join, StopTimer, CancelTimer, Release, iceVars, dtlsVars
<1>2. state' = state \/ state' = "Stopped"
  BY DEF StopCall, StopStep, StopLoop, Join, StopTimer, Release
<1>3. ReasonInv'
  BY <1>1, <1>2 DEF ReasonInv, Paired
<1>4. CASE StopCall(t)
  <2>1. UNCHANGED <<state, srtpReady>> /\ state # "Connecting" /\ stopped' = TRUE
    BY <1>4 DEF StopCall, audioVars
  <2>2. Phases!HangUp
    BY <1>1, <2>1 DEF Phases!HangUp, Phases!Began
  <2> QED BY <1>3, <2>2 DEF Shows, Phases!Next
<1>5. CASE Release(t)
  <2>1. stopped
    BY <1>5 DEF Release, IInv, ReadyInv
  <2>2. stopped' = stopped /\ state' = "Stopped" /\ srtpReady' = FALSE
    BY <1>5 DEF Release
  <2>3. Phases!End
    BY <1>1, <2>1, <2>2 DEF Phases!End
  <2> QED BY <1>3, <2>3 DEF Shows, Phases!Next
<1>6. CASE StopLoop(t) \/ Join(t) \/ StopTimer(t)
  <2>1. UNCHANGED <<state, srtpReady, stopped>>
    BY <1>6 DEF StopLoop, Join, StopTimer, audioVars
  <2> QED BY <1>1, <1>3, <2>1, QuietShows
<1> QED BY <1>4, <1>5, <1>6 DEF StopStep

\* Every step of the call is one of CallPhases, or shows nothing.
LEMMA NextShows ==
  ASSUME IInv, ReasonInv, [Next]_vars
  PROVE  ReasonInv' /\ Shows
<1>1. CASE (\E c \in Captures : CaptureExits(c)) \/ UNCHANGED vars
  <2>1. /\ UNCHANGED <<state, iceAttempts, iceAgent, established, srtpReady, stopped>>
        /\ UNCHANGED <<agents, tick, rx>>
    BY <1>1 DEF CaptureExits, vars, iceVars, dtlsVars, audioVars, stopVars
  <2>2. ReasonInv'
    BY <2>1 DEF ReasonInv, Paired
  <2> QED BY <2>1, <2>2, QuietShows
<1>2. CASE Start
  BY <1>2, StartShows
<1>3. CASE \E s \in Signalers : SigInput(s) \/ SigStep(s)
  BY <1>3, SignalingShows
<1>4. CASE TimerStep
  BY <1>4, TimerShows
<1>5. CASE \E r \in Receivers : RxInput(r) \/ RxStep(r)
  BY <1>5, DatagramShows
<1>6. CASE \E t \in Stoppers : StopCall(t) \/ StopStep(t)
  BY <1>6, StopShows
<1> QED BY <1>1, <1>2, <1>3, <1>4, <1>5, <1>6 DEF Next

\* TgcallsConnection implements CallPhases: whichever handlers overlap, come late
\* or fail, a change of m_state rests on a pair, a handshake, keys or spent
\* retries, and only Stop takes what the call has away.
THEOREM PhasesImplemented == Spec => FollowsPhases
<1>1. Init => ReasonInv /\ Phases!Init
  BY DEF Init, ReasonInv, RxIdle, RxAt, Phases!Init
<1>2. IInv /\ ReasonInv /\ [Next]_vars => ReasonInv' /\ Shows
  BY NextShows
<1> QED BY <1>1, <1>2, InvariantHolds, PTL DEF Spec, FollowsPhases, Phases!Spec, Shows
===============================================================================
