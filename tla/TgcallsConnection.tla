--------------------------- MODULE TgcallsConnection ---------------------------
(***************************************************************************)
(* One modern (tgcalls) call: application/tgcalls_connection.{h,cpp}.      *)
(*                                                                         *)
(* The class is entered by several threads at once: signaling deliveries,  *)
(* DatagramSocket callbacks, the ICE ThreadPoolTimer, the callers of Stop  *)
(* and the audio capture pumps.  m_lock is taken and released many times   *)
(* inside one handler, so a handler is a sequence of steps here, one per   *)
(* region the lock makes atomic, and `pc' says where a thread is between   *)
(* two of them.                                                            *)
(*                                                                         *)
(* Stop moves every owned object out of the members while other threads    *)
(* may still hold raw pointers to it.  An object used after it was moved   *)
(* out is taken to be as it last was; the process may also fault there,    *)
(* which is a behaviour that ends.                                         *)
(***************************************************************************)
EXTENDS Naturals, FiniteSets, IceAgent

CONSTANTS
  Signalers,     \* threads that deliver signaling (engine's drain, WinRT)
  Receivers,     \* threads that run datagram callbacks
  Stoppers,      \* threads that call Stop
  Captures,      \* capture pump threads CreateThread may hand out
  Role,          \* this side's ICE role: Controlling iff the call is outgoing
  Reflector0,    \* address of m_reflectors[0], the source of every datagram
  MaxAttempts,   \* binding-request retries before giving up: 20 in the code
  NoThread       \* null thread handle

ASSUME RoleAssumption == Role \in Roles
ASSUME AttemptsAssumption == MaxAttempts \in Nat
ASSUME ThreadAssumption == NoThread \notin Captures

States == {"Connecting", "IceConnecting", "DtlsHandshaking", "Connected",
           "Failed", "Stopped"}

\* m_state >= State::DtlsHandshaking, the comparison of OnIceConnected.
PastIce == {"DtlsHandshaking", "Connected", "Failed", "Stopped"}

Members == {"cert", "agent", "dtls", "audio"}

VARIABLES
  state,          \* m_state
  started,        \* Start returned Ok: the engine has installed the object
  stopped,        \* m_stopped
  owned,          \* which of the unique_ptr members are not null
  peerReady,      \* m_peerInitialReceived with non-empty ufrag and pwd
  peerFp,         \* m_peerFingerprint is not empty
  peerCandidates, \* m_peerCandidates
  iceStarted,     \* m_iceStarted
  iceAgent,       \* the object m_iceAgent points (or last pointed) to
  iceAttempts,    \* m_iceAttempts
  timer,          \* the ICE retry timer: m_iceRetryTimer set, still firing
  dtls,           \* the object m_dtls points (or last pointed) to
  srtpReady,      \* m_srtpReady, and both m_srtp* pointers with it
  loopActive,     \* m_audioLoopActive
  captureThread,  \* m_audioCaptureThread
  capture,        \* the capture pump threads themselves
  sig, rx, stop,  \* where each thread stands, with its locals
  tick,           \* where the timer's handler stands
  agents, sessions, batches, established
                  \* history: IceAgents and DTLS sessions built, request
                  \* batches sent, DTLS ever established

signalingVars == <<peerReady, peerFp, peerCandidates>>
iceVars       == <<iceStarted, iceAgent, iceAttempts, timer, tick, agents, batches>>
dtlsVars      == <<dtls, sessions, established>>
audioVars     == <<srtpReady, loopActive, captureThread, capture>>
stopVars      == <<started, stopped, stop>>
vars == <<state, owned, sig, rx, signalingVars, iceVars, dtlsVars, audioVars,
          stopVars>>

StopIdle == [pc |-> "idle", thread |-> NoThread]
SigIdle  == [pc |-> "idle", snap |-> {}]
RxAt(pc) == [pc |-> pc, msg |-> "none", seen |-> FALSE, thread |-> NoThread]
RxIdle   == RxAt("idle")

Init ==
  /\ state = "Connecting"
  /\ started = FALSE /\ stopped = FALSE
  /\ owned = {}
  /\ peerReady = FALSE /\ peerFp = FALSE /\ peerCandidates = {}
  /\ iceStarted = FALSE /\ iceAgent = NoAgent /\ iceAttempts = 0
  /\ timer = [handle |-> FALSE, live |-> FALSE]
  /\ dtls = "none"
  /\ srtpReady = FALSE /\ loopActive = FALSE
  /\ captureThread = NoThread
  /\ capture = [c \in Captures |-> "free"]
  /\ sig = [s \in Signalers |-> SigIdle]
  /\ rx = [r \in Receivers |-> RxIdle]
  /\ stop = [t \in Stoppers |-> StopIdle]
  /\ tick = "idle"
  /\ agents = 0 /\ sessions = 0 /\ batches = 0
  /\ established = FALSE

-------------------------------------------------------------------------------
(* Start.  The engine installs the object, and so lets signaling and Stop   *)
(* reach it, only after Start has returned Ok.                              *)

Start ==
  /\ state = "Connecting" /\ ~stopped
  /\ \/ /\ owned' = {"cert"}
        /\ state' = "IceConnecting"
        /\ started' = TRUE
     \/ \* no certificate, no signaling callback, or no socket
        /\ owned' \in {{}, {"cert"}}
        /\ state' = "Failed"
        /\ UNCHANGED started
  /\ UNCHANGED <<sig, rx, signalingVars, iceVars, dtlsVars, audioVars,
                 stopped, stop>>

-------------------------------------------------------------------------------
(* Signaling: OnPeerInitialSetup and OnPeerCandidates, both of which end in *)
(* StartIcePhase.                                                           *)

SigGoto(s, pc) == sig' = [sig EXCEPT ![s].pc = pc]
SigReturn(s)   == sig' = [sig EXCEPT ![s] = SigIdle]

\* A peer that repeats its InitialSetup repeats its fingerprint.
OnPeerInitialSetup(s, fp) ==
  /\ started /\ sig[s].pc = "idle"
  /\ peerReady => fp = peerFp
  /\ peerReady' = TRUE
  /\ peerFp' = fp
  /\ SigGoto(s, "snapshot")
  /\ UNCHANGED <<state, owned, rx, peerCandidates, iceVars, dtlsVars,
                 audioVars, stopVars>>

OnPeerCandidates(s, cs) ==
  /\ started /\ sig[s].pc = "idle"
  /\ peerCandidates' = peerCandidates \cup cs
  /\ SigGoto(s, "snapshot")
  /\ UNCHANGED <<state, owned, rx, peerReady, peerFp, iceVars, dtlsVars,
                 audioVars, stopVars>>

\* The candidates are copied here; the latch is taken in a later region.
IceSnapshot(s) ==
  /\ sig[s].pc = "snapshot"
  /\ IF peerReady /\ peerCandidates # {}
     THEN sig' = [sig EXCEPT ![s] = [pc |-> "latch", snap |-> peerCandidates]]
     ELSE SigReturn(s)
  /\ UNCHANGED <<state, owned, rx, signalingVars, iceVars, dtlsVars, audioVars,
                 stopVars>>

\* Faulty variant: the latch is set without being tested again.
IceLatchUntested(s) ==
  /\ sig[s].pc = "latch"
  /\ SigGoto(s, "publish")
  /\ iceStarted' = TRUE
  /\ UNCHANGED <<state, owned, rx, signalingVars, iceAgent, iceAttempts, timer,
                 tick, agents, batches, dtlsVars, audioVars, stopVars>>

IceLatch(s) ==
  /\ sig[s].pc = "latch"
  /\ IF iceStarted THEN SigReturn(s) ELSE SigGoto(s, "publish")
  /\ iceStarted' = TRUE
  /\ UNCHANGED <<state, owned, rx, signalingVars, iceAgent, iceAttempts, timer,
                 tick, agents, batches, dtlsVars, audioVars, stopVars>>

IcePublish(s) ==
  /\ sig[s].pc = "publish"
  /\ iceAgent' = NewAgent(Role, sig[s].snap)
  /\ owned' = owned \cup {"agent"}
  /\ iceAttempts' = 0
  /\ agents' = agents + 1
  /\ SigGoto(s, "firstSend")
  /\ UNCHANGED <<state, rx, signalingVars, iceStarted, timer, tick, batches,
                 dtlsVars, audioVars, stopVars>>

\* SendIceBindingRequests: nothing to do once m_iceAgent is null.
SendIceBindingRequests ==
  IF "agent" \in owned
  THEN /\ iceAgent' = AfterBindingRequests(iceAgent)
       /\ batches' = batches + 1
  ELSE UNCHANGED <<iceAgent, batches>>

IceFirstSend(s) ==
  /\ sig[s].pc = "firstSend"
  /\ SendIceBindingRequests
  /\ SigGoto(s, "arm")
  /\ UNCHANGED <<state, owned, rx, signalingVars, iceStarted, iceAttempts,
                 timer, tick, agents, dtlsVars, audioVars, stopVars>>

\* StartIceRetryTimer: the timer runs before its handle is stored.
ArmTimer(s) ==
  /\ sig[s].pc = "arm"
  /\ timer' = [handle |-> FALSE, live |-> TRUE]
  /\ SigGoto(s, "storeTimer")
  /\ UNCHANGED <<state, owned, rx, signalingVars, iceStarted, iceAgent,
                 iceAttempts, tick, agents, batches, dtlsVars, audioVars,
                 stopVars>>

StoreTimer(s) ==
  /\ sig[s].pc = "storeTimer"
  /\ timer' = [handle |-> TRUE, live |-> timer.live]
  /\ SigReturn(s)
  /\ UNCHANGED <<state, owned, rx, signalingVars, iceStarted, iceAgent,
                 iceAttempts, tick, agents, batches, dtlsVars, audioVars,
                 stopVars>>

\* StopIceRetryTimer: only a stored handle can be cancelled.
CancelTimer ==
  timer' = IF timer.handle THEN [handle |-> FALSE, live |-> FALSE] ELSE timer

-------------------------------------------------------------------------------
(* The timer's handler: one region reads, the rest runs outside the lock.   *)

\* Faulty variants: the budget test is off by one; the handler returns past
\* the ICE phase without cancelling its timer.
TimerFiresOnceMore ==
  /\ timer.live /\ tick = "idle" /\ ~stopped /\ state \notin PastIce
  /\ IF iceAttempts > MaxAttempts
     THEN tick' = "giveUp" /\ timer' = [handle |-> timer.handle, live |-> FALSE]
     ELSE tick' = "send" /\ UNCHANGED timer
  /\ UNCHANGED <<state, owned, sig, rx, signalingVars, iceStarted, iceAgent,
                 iceAttempts, agents, batches, dtlsVars, audioVars, stopVars>>

TimerFiresForever ==
  /\ timer.live /\ tick = "idle" /\ ~stopped /\ state \notin PastIce
  /\ IF iceAttempts >= MaxAttempts
     THEN tick' = "giveUp" /\ timer' = [handle |-> timer.handle, live |-> FALSE]
     ELSE tick' = "send" /\ UNCHANGED timer
  /\ UNCHANGED <<state, owned, sig, rx, signalingVars, iceStarted, iceAgent,
                 iceAttempts, agents, batches, dtlsVars, audioVars, stopVars>>

\* Faulty variant: the last retry is never made.
TimerFiresOnceLess ==
  /\ timer.live /\ tick = "idle" /\ ~stopped /\ state \notin PastIce
  /\ IF iceAttempts + 1 >= MaxAttempts
     THEN tick' = "giveUp" /\ timer' = [handle |-> timer.handle, live |-> FALSE]
     ELSE tick' = "send" /\ UNCHANGED timer
  /\ UNCHANGED <<state, owned, sig, rx, signalingVars, iceStarted, iceAgent,
                 iceAttempts, agents, batches, dtlsVars, audioVars, stopVars>>

TimerFires ==
  /\ timer.live /\ tick = "idle"
  /\ \/ /\ stopped \/ state \in PastIce
        /\ timer' = [handle |-> timer.handle, live |-> FALSE]
        /\ UNCHANGED tick
     \/ /\ ~stopped /\ state \notin PastIce /\ iceAttempts >= MaxAttempts
        /\ timer' = [handle |-> timer.handle, live |-> FALSE]
        /\ tick' = "giveUp"
     \/ /\ ~stopped /\ state \notin PastIce /\ iceAttempts < MaxAttempts
        /\ tick' = "send"
        /\ UNCHANGED timer
  /\ UNCHANGED <<state, owned, sig, rx, signalingVars, iceStarted, iceAgent,
                 iceAttempts, agents, batches, dtlsVars, audioVars, stopVars>>

\* Faulty variant: giving up cancels the timer and tells nobody.
TimerGivesUpSilently ==
  /\ tick = "giveUp"
  /\ tick' = "idle"
  /\ UNCHANGED <<state, owned, sig, rx, signalingVars, iceStarted, iceAgent,
                 iceAttempts, timer, agents, batches, dtlsVars, audioVars,
                 stopVars>>

TimerGivesUp ==
  /\ tick = "giveUp"
  /\ state' = "Failed"
  /\ tick' = "idle"
  /\ UNCHANGED <<owned, sig, rx, signalingVars, iceStarted, iceAgent,
                 iceAttempts, timer, agents, batches, dtlsVars, audioVars,
                 stopVars>>

TimerSends ==
  /\ tick = "send"
  /\ SendIceBindingRequests
  /\ iceAttempts' = iceAttempts + 1
  /\ tick' = "idle"
  /\ UNCHANGED <<state, owned, sig, rx, signalingVars, iceStarted, timer,
                 agents, dtlsVars, audioVars, stopVars>>

-------------------------------------------------------------------------------
(* Datagrams: STUN.  IceAgent::ProcessIncoming runs without the lock, so    *)
(* its test of m_connected and the write that follows are two steps.        *)

RxGoto(r, pc) == rx' = [rx EXCEPT ![r].pc = pc]
RxReturn(r)   == rx' = [rx EXCEPT ![r] = RxIdle]

ReceiveStun(r, msg) ==
  /\ rx[r].pc = "idle" /\ "agent" \in owned
  /\ rx' = [rx EXCEPT ![r] = [pc |-> "stun", msg |-> msg, thread |-> NoThread,
                             seen |-> iceAgent.connected]]
  /\ UNCHANGED <<state, owned, sig, signalingVars, iceVars, dtlsVars, audioVars,
                 stopVars>>

\* Faulty variant: any check that was processed counts as connectivity.
ProcessStunEagerly(r) ==
  /\ rx[r].pc = "stun"
  /\ iceAgent' = AfterIncoming(iceAgent, rx[r].msg, Reflector0, rx[r].seen)
  /\ rx' = [rx EXCEPT ![r] = RxAt("iceConnected")]
  /\ UNCHANGED <<state, owned, sig, signalingVars, iceStarted, iceAttempts,
                 timer, tick, agents, batches, dtlsVars, audioVars, stopVars>>

ProcessStun(r) ==
  /\ rx[r].pc = "stun"
  /\ iceAgent' = AfterIncoming(iceAgent, rx[r].msg, Reflector0, rx[r].seen)
  /\ IF Selects(iceAgent, rx[r].msg, Reflector0, rx[r].seen)
     THEN rx' = [rx EXCEPT ![r] = RxAt("iceConnected")]
     ELSE RxReturn(r)
  /\ UNCHANGED <<state, owned, sig, signalingVars, iceStarted, iceAttempts,
                 timer, tick, agents, batches, dtlsVars, audioVars, stopVars>>

OnIceConnected(r) ==
  /\ rx[r].pc = "iceConnected"
  /\ IF state \in PastIce THEN RxReturn(r) ELSE RxGoto(r, "cancelTimer")
  /\ UNCHANGED <<state, owned, sig, signalingVars, iceVars, dtlsVars, audioVars,
                 stopVars>>

CancelRetry(r) ==
  /\ rx[r].pc = "cancelTimer"
  /\ CancelTimer
  /\ RxGoto(r, "checkDtls")
  /\ UNCHANGED <<state, owned, sig, signalingVars, iceStarted, iceAgent,
                 iceAttempts, tick, agents, batches, dtlsVars, audioVars,
                 stopVars>>

CheckDtls(r) ==
  /\ rx[r].pc = "checkDtls"
  /\ IF "dtls" \in owned THEN RxReturn(r) ELSE RxGoto(r, "enterDtls")
  /\ UNCHANGED <<state, owned, sig, signalingVars, iceVars, dtlsVars, audioVars,
                 stopVars>>

EnterDtls(r) ==
  /\ rx[r].pc = "enterDtls"
  /\ state' = "DtlsHandshaking"
  /\ RxGoto(r, "takeCert")
  /\ UNCHANGED <<owned, sig, signalingVars, iceVars, dtlsVars, audioVars,
                 stopVars>>

\* Faulty variant: the certificate is shared with the session, not moved.
TakeCertShared(r) ==
  /\ rx[r].pc = "takeCert"
  /\ RxGoto(r, IF "cert" \in owned /\ peerFp THEN "initiate" ELSE "fail")
  /\ UNCHANGED <<state, owned, sig, signalingVars, iceVars, dtlsVars, audioVars,
                 stopVars>>

\* The certificate moves from the member to this thread, or is not there.
TakeCert(r) ==
  /\ rx[r].pc = "takeCert"
  /\ owned' = owned \ {"cert"}
  /\ RxGoto(r, IF "cert" \in owned /\ peerFp THEN "initiate" ELSE "fail")
  /\ UNCHANGED <<state, sig, signalingVars, iceVars, dtlsVars, audioVars,
                 stopVars>>

InitiateDtls(r) ==
  /\ rx[r].pc = "initiate"
  /\ owned' = owned \cup {"dtls"}
  /\ dtls' = "handshaking"
  /\ sessions' = sessions + 1
  /\ RxReturn(r)
  /\ UNCHANGED <<state, sig, signalingVars, iceVars, established, audioVars,
                 stopVars>>

Fail(r) ==
  /\ rx[r].pc = "fail"
  /\ state' = "Failed"
  /\ RxReturn(r)
  /\ UNCHANGED <<owned, sig, signalingVars, iceVars, dtlsVars, audioVars,
                 stopVars>>

-------------------------------------------------------------------------------
(* Datagrams: DTLS records.  ProcessDatagram's handlers do not look at the  *)
(* state they are in, so a late ChangeCipherSpec or HelloVerifyRequest      *)
(* takes an established session back; only Failed is absorbing.             *)

DtlsOutcomes ==
  IF dtls = "failed" THEN {"failed"} ELSE {"handshaking", "established", "failed"}

ReceiveDtls(r) ==
  /\ rx[r].pc = "idle" /\ "dtls" \in owned
  /\ dtls' \in DtlsOutcomes
  /\ established' = (established \/ dtls' = "established")
  /\ RxGoto(r, "readReady")
  /\ UNCHANGED <<state, owned, sig, signalingVars, iceVars, sessions, audioVars,
                 stopVars>>

ReadSrtpReady(r) ==
  /\ rx[r].pc = "readReady"
  /\ rx' = [rx EXCEPT ![r] = [pc |-> "checkEstablished", msg |-> "none",
                             thread |-> NoThread, seen |-> srtpReady]]
  /\ UNCHANGED <<state, owned, sig, signalingVars, iceVars, dtlsVars, audioVars,
                 stopVars>>

\* Faulty variant: keys are exported as soon as a record was processed.
CheckEstablishedEarly(r) ==
  /\ rx[r].pc = "checkEstablished"
  /\ RxGoto(r, IF dtls = "failed" THEN "fail" ELSE "installSrtp")
  /\ UNCHANGED <<state, owned, sig, signalingVars, iceVars, dtlsVars, audioVars,
                 stopVars>>

\* OnDtlsEstablished turns back when the keying material is not its 60 bytes.
CheckEstablished(r) ==
  /\ rx[r].pc = "checkEstablished"
  /\ \/ /\ dtls = "established" /\ ~rx[r].seen
        /\ \E exported \in BOOLEAN :
             RxGoto(r, IF exported THEN "installSrtp" ELSE "fail")
     \/ /\ dtls = "failed"
        /\ RxGoto(r, "fail")
     \/ /\ dtls # "failed"
        /\ dtls = "established" => rx[r].seen
        /\ RxReturn(r)
  /\ UNCHANGED <<state, owned, sig, signalingVars, iceVars, dtlsVars, audioVars,
                 stopVars>>

-------------------------------------------------------------------------------
(* StartAudioPhase.                                                         *)

\* Faulty variant: m_srtpReady is not set beside the two pointers.
InstallSrtpUnready(r) ==
  /\ rx[r].pc = "installSrtp"
  /\ RxGoto(r, "resetAudio")
  /\ UNCHANGED <<state, owned, sig, signalingVars, iceVars, dtlsVars, audioVars,
                 stopVars>>

InstallSrtp(r) ==
  /\ rx[r].pc = "installSrtp"
  /\ srtpReady' = TRUE
  /\ RxGoto(r, "resetAudio")
  /\ UNCHANGED <<state, owned, sig, signalingVars, iceVars, dtlsVars,
                 loopActive, captureThread, capture, stopVars>>

ResetAudio(r) ==
  /\ rx[r].pc = "resetAudio"
  /\ owned' = owned \cup {"audio"}
  /\ RxGoto(r, "openAudio")
  /\ UNCHANGED <<state, sig, signalingVars, iceVars, dtlsVars, audioVars,
                 stopVars>>

\* m_audio->Open(), m_codec->Init().  Behind a Stop the pointers are null and
\* the thread faults: it takes no further step.
OpenAudio(r) ==
  /\ rx[r].pc = "openAudio" /\ "audio" \in owned
  /\ \E opened \in BOOLEAN : RxGoto(r, IF opened THEN "connect" ELSE "fail")
  /\ UNCHANGED <<state, owned, sig, signalingVars, iceVars, dtlsVars, audioVars,
                 stopVars>>

Connect(r) ==
  /\ rx[r].pc = "connect"
  /\ state' = "Connected"
  /\ RxGoto(r, "startLoop")
  /\ UNCHANGED <<owned, sig, signalingVars, iceVars, dtlsVars, audioVars,
                 stopVars>>

\* The flag is raised, then CreateThread called; the new pump does nothing
\* until it reads the flag, so the two are one step.
StartLoop(r) ==
  /\ rx[r].pc = "startLoop"
  /\ \/ \E c \in Captures :
          /\ capture[c] = "free"
          /\ capture' = [capture EXCEPT ![c] = "running"]
          /\ rx' = [rx EXCEPT ![r] = [pc |-> "storeThread", msg |-> "none",
                                     thread |-> c, seen |-> FALSE]]
          /\ loopActive' = TRUE
     \/ \* CreateThread returned NULL
        /\ loopActive' = FALSE
        /\ RxReturn(r)
        /\ UNCHANGED capture
  /\ UNCHANGED <<state, owned, sig, signalingVars, iceVars, dtlsVars, srtpReady,
                 captureThread, stopVars>>

StoreThread(r) ==
  /\ rx[r].pc = "storeThread"
  /\ captureThread' = rx[r].thread
  /\ RxReturn(r)
  /\ UNCHANGED <<state, owned, sig, signalingVars, iceVars, dtlsVars, srtpReady,
                 loopActive, capture, stopVars>>

\* RunAudioCaptureLoop: sends frames until it sees the flag cleared.
CaptureExits(c) ==
  /\ capture[c] = "running" /\ ~loopActive
  /\ capture' = [capture EXCEPT ![c] = "exited"]
  /\ UNCHANGED <<state, owned, sig, rx, signalingVars, iceVars, dtlsVars,
                 srtpReady, loopActive, captureThread, stopVars>>

-------------------------------------------------------------------------------
(* Stop.                                                                    *)

StopGoto(t, pc) == stop' = [stop EXCEPT ![t].pc = pc]

\* The InterlockedExchange that makes Stop idempotent.
StopCall(t) ==
  /\ stop[t].pc = "idle" /\ state # "Connecting"
  /\ stopped' = TRUE
  /\ StopGoto(t, IF stopped THEN "done" ELSE "stopLoop")
  /\ UNCHANGED <<state, owned, sig, rx, signalingVars, iceVars, dtlsVars,
                 audioVars, started>>

StopLoop(t) ==
  /\ stop[t].pc = "stopLoop"
  /\ loopActive' = FALSE
  /\ stop' = [stop EXCEPT ![t] = [pc |-> "join", thread |-> captureThread]]
  /\ captureThread' = NoThread
  /\ UNCHANGED <<state, owned, sig, rx, signalingVars, iceVars, dtlsVars,
                 srtpReady, capture, started, stopped>>

\* WaitForSingleObjectEx(thread, 2000): with no handle there is nothing to wait
\* for, and the two seconds may be over before the pump has exited, so the
\* step never depends on the pump.
Join(t) ==
  /\ stop[t].pc = "join"
  /\ stop' = [stop EXCEPT ![t] = [pc |-> "stopTimer", thread |-> NoThread]]
  /\ UNCHANGED <<state, owned, sig, rx, signalingVars, iceVars, dtlsVars,
                 audioVars, started, stopped>>

StopTimer(t) ==
  /\ stop[t].pc = "stopTimer"
  /\ CancelTimer
  /\ StopGoto(t, "release")
  /\ UNCHANGED <<state, owned, sig, rx, signalingVars, iceStarted, iceAgent,
                 iceAttempts, tick, agents, batches, dtlsVars, audioVars,
                 started, stopped>>

Release(t) ==
  /\ stop[t].pc = "release"
  /\ owned' = {}
  /\ srtpReady' = FALSE
  /\ state' = "Stopped"
  /\ stop' = [stop EXCEPT ![t] = [pc |-> "done", thread |-> NoThread]]
  /\ UNCHANGED <<sig, rx, signalingVars, iceVars, dtlsVars, loopActive,
                 captureThread, capture, started, stopped>>

-------------------------------------------------------------------------------

SigInput(s) ==
  \/ \E fp \in BOOLEAN : OnPeerInitialSetup(s, fp)
  \/ \E c \in Candidates : OnPeerCandidates(s, {c})

SigStep(s) ==
  \/ IceSnapshot(s)
  \/ IceLatch(s)
  \/ IcePublish(s)
  \/ IceFirstSend(s)
  \/ ArmTimer(s)
  \/ StoreTimer(s)

TimerStep == TimerFires \/ TimerGivesUp \/ TimerSends

RxInput(r) ==
  \/ \E msg \in StunMessages : ReceiveStun(r, msg)
  \/ ReceiveDtls(r)

RxStep(r) ==
  \/ ProcessStun(r)
  \/ OnIceConnected(r)
  \/ CancelRetry(r)
  \/ CheckDtls(r)
  \/ EnterDtls(r)
  \/ TakeCert(r)
  \/ InitiateDtls(r)
  \/ Fail(r)
  \/ ReadSrtpReady(r)
  \/ CheckEstablished(r)
  \/ InstallSrtp(r)
  \/ ResetAudio(r)
  \/ OpenAudio(r)
  \/ Connect(r)
  \/ StartLoop(r)
  \/ StoreThread(r)

StopStep(t) ==
  \/ StopLoop(t)
  \/ Join(t)
  \/ StopTimer(t)
  \/ Release(t)

Next ==
  \/ Start
  \/ \E s \in Signalers : SigInput(s) \/ SigStep(s)
  \/ TimerStep
  \/ \E r \in Receivers : RxInput(r) \/ RxStep(r)
  \/ \E c \in Captures : CaptureExits(c)
  \/ \E t \in Stoppers : StopCall(t) \/ StopStep(t)

Spec == Init /\ [][Next]_vars

(***************************************************************************)
(* A thread inside a handler keeps being scheduled, the thread pool keeps  *)
(* firing a live timer, and a capture pump that is not inside the device   *)
(* looks at its flag again.  Nothing obliges the peer, the network, the    *)
(* signaling service or the user to do anything.                           *)
(***************************************************************************)
Fairness ==
  /\ \A s \in Signalers : WF_vars(SigStep(s))
  /\ \A r \in Receivers : WF_vars(RxStep(r))
  /\ \A c \in Captures : WF_vars(CaptureExits(c))
  /\ \A t \in Stoppers : WF_vars(StopStep(t))
  /\ WF_vars(TimerStep)

FairSpec == Spec /\ Fairness

-------------------------------------------------------------------------------
(* Properties.                                                              *)

SigThread ==
  [pc : {"idle", "snapshot", "latch", "publish", "firstSend", "arm",
         "storeTimer"},
   snap : SUBSET Candidates]
RxThread ==
  [pc : {"idle", "stun", "iceConnected", "cancelTimer", "checkDtls",
         "enterDtls", "takeCert", "initiate", "fail", "readReady",
         "checkEstablished", "installSrtp", "resetAudio", "openAudio",
         "connect", "startLoop", "storeThread"},
   msg : StunMessages \cup {"none"}, seen : BOOLEAN,
   thread : Captures \cup {NoThread}]
StopThread ==
  [pc : {"idle", "stopLoop", "join", "stopTimer", "release", "done"},
   thread : Captures \cup {NoThread}]

CallType ==
  /\ state \in States
  /\ started \in BOOLEAN /\ stopped \in BOOLEAN
  /\ owned \subseteq Members
SignalingType ==
  /\ peerReady \in BOOLEAN /\ peerFp \in BOOLEAN
  /\ peerCandidates \subseteq Candidates
IceType ==
  /\ iceStarted \in BOOLEAN
  /\ iceAgent \in Agent \cup {NoAgent}
  /\ iceAttempts \in 0..MaxAttempts
  /\ timer \in [handle : BOOLEAN, live : BOOLEAN]
  /\ tick \in {"idle", "giveUp", "send"}
AudioType ==
  /\ dtls \in {"none", "handshaking", "established", "failed"}
  /\ srtpReady \in BOOLEAN /\ loopActive \in BOOLEAN
  /\ captureThread \in Captures \cup {NoThread}
  /\ capture \in [Captures -> {"free", "running", "exited"}]
ThreadType ==
  /\ sig \in [Signalers -> SigThread]
  /\ rx \in [Receivers -> RxThread]
  /\ stop \in [Stoppers -> StopThread]
HistoryType ==
  /\ agents \in Nat /\ sessions \in Nat /\ batches \in Nat
  /\ established \in BOOLEAN

\* Type invariant of every variable: whatever the threads' interleaving, the
\* retry counter stays within its budget and no thread leaves its handler's
\* program points.
TypeOK ==
  CallType /\ SignalingType /\ IceType /\ AudioType /\ ThreadType /\ HistoryType

\* StartIcePhase is entered by every InitialSetup and every Candidates batch,
\* from several threads: the m_iceStarted latch lets one of them through.
OneIceAgent == agents <= 1

\* Two callbacks that both see their response select the pair both reach
\* StartDtlsPhase, whose test of m_dtls does not exclude them: only the move
\* of the certificate keeps the call to one DTLS session.
OneDtlsSession == sessions <= 1

\* Binding requests go out in one first batch and at most MaxAttempts more.
RetryBudget == batches <= MaxAttempts + 1

\* No SRTP key is installed, whatever the callbacks' interleaving, unless the
\* one DTLS session once reported Established.
KeysFollowHandshake == srtpReady => established /\ sessions = 1

\* A call is past ICE only on the word of an agent that selected a pair.
HandshakeFollowsSelection ==
  state \in {"DtlsHandshaking", "Connected"} =>
    agents = 1 /\ iceAgent.connected

\* Until Stop begins, a call that shows Connected has its SRTP keys: no
\* failing or late callback takes them away from under it.
ConnectedHasKeys == state = "Connected" /\ ~stopped => srtpReady

\* The phases of a call in their order, whatever late and failing callbacks
\* do: a pair selected, then the handshake, then the keys, then Connected.
PhasesInOrder ==
  /\ HandshakeFollowsSelection
  /\ KeysFollowHandshake
  /\ ConnectedHasKeys

\* The call as its user sees it: what each change of m_state rests on, whatever
\* handlers overlap or come late; keys stay until somebody has called Stop, and
\* a call that fails has a pair or has spent its retries.
Phases == INSTANCE CallPhases WITH
  shown <- state,
  retries <- iceAttempts,
  paired <- iceAgent # NoAgent /\ iceAgent.connected,
  secured <- established,
  keyed <- srtpReady,
  over <- stopped
FollowsPhases == Phases!Spec

\* The ICE phase is entered once, and what it sends stays within its budget.
IceOnce == OneIceAgent /\ RetryBudget

\* Once an agent runs, the call leaves IceConnecting: a pair is selected, the
\* retry budget runs out, or somebody stops the call.
IceDecides == agents > 0 ~> state # "IceConnecting"

\* The periodic timer does not outlive the ICE phase, even when it was armed
\* after the phase ended or after Stop looked for it.
TimerDies == agents > 0 ~> [](~timer.live)
===============================================================================
