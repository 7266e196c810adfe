------------------------------ MODULE MediaStream ------------------------------
(* The audio of a modern call once the DTLS handshake has given it keys:      *)
(* StartAudioPhase installs the SRTP parameters and opens the device, the     *)
(* capture pump (RunAudioCaptureLoop) turns microphone frames into SRTP       *)
(* packets, and the datagram callbacks (OnSrtpDatagram, OnRtpPacket) turn the *)
(* peer's packets into frames for the speaker (SrtpPacketCodec, SrtpAesCtr,   *)
(* SrtpSessionKeys, WinrtVoipAudioDevice, OpusVoipCodec).                     *)
(*                                                                            *)
(* A packet is [key, ssrc, seq, roc, frame]: key names the master key its     *)
(* session keys come from, and roc is the rollover counter its tag and its    *)
(* keystream were made with, which does not travel.  A frame is [n, voiced]:  *)
(* voiced is FALSE when ReadFrame wiped it because the device was muted.      *)
(* The races of a second StartAudioPhase, and of Stop with StartAudioPhase,   *)
(* are TgcallsConnection's: here keys are installed once, and Stop comes      *)
(* after StartAudioPhase has returned.                                        *)
EXTENDS Naturals, FiniteSets, Sequences

CONSTANTS
  SeqSpan,        \* number of RTP sequence numbers (2^16 in the program)
  MicDepth,       \* frames the capture queue keeps (8)
  RenderDepth,    \* frames the render queue keeps (12)
  Paths,          \* routes SendViaReflector takes, one copy on each
  PeerPaths,      \* and those the peer takes
  Receivers,      \* threads of the datagram callbacks
  PeerStart,      \* the peer's first sequence number
  Bounds          \* bounds: frames the microphone delivers and the peer speaks,
                  \* calls of SetMuted, lost and stray datagrams

ASSUME StreamAssumption ==
  /\ {SeqSpan, MicDepth, RenderDepth} \subseteq Nat \ {0}
  /\ Bounds \subseteq [frames : Nat, peerFrames : Nat, mutes : Nat, faults : Nat]
  /\ PeerStart \in 0 .. SeqSpan - 1

VARIABLES
  phase,       \* how far StartAudioPhase has come
  ready,       \* m_srtpReady
  outgoing,    \* m_srtpOutgoing: RolloverCounter, LastSequenceNumber, Has..
  incoming,    \* m_srtpIncoming: Ssrc, RolloverCounter
  connected,   \* m_state = Connected
  muted,       \* m_muted
  device,      \* m_audio: exists, open, muted, mic and render queues
  loopActive,  \* m_audioLoopActive
  nextSeq,     \* m_outgoingSeq
  pump,        \* the capture pump thread and its locals
  rx,          \* what each datagram callback has decrypted and not yet played
  net,         \* datagrams under way
  stopping,    \* Stop: "no", "joining" the pump, "done"
  peer,        \* the other end: what it spoke, heard, and its SRTP receiver
  sealed,      \* history: every packet Encrypt has made
  played,      \* history: the numbers of the peer's frames given to the device
  lost,        \* history: datagrams the network has lost
  mute,        \* history: told, the last SetMuted found a device; leaked, how
               \* many frames with voice were sealed since, the call being muted
  captured,    \* history: frames the microphone has delivered
  left         \* what the bounds leave to happen

vars == <<phase, ready, outgoing, incoming, connected, muted, device,
          loopActive, nextSeq, pump, rx, net, stopping, peer, sealed, played,
          lost, mute, captured, left>>

Ours == "client_write"     \* the end that was the DTLS client writes with it
Theirs == "server_write"
NoKey == "none"            \* a datagram nobody who knows the keys has made
LocalSsrc == 1
PeerSsrc == 2
StraySsrc == 3
UnknownSsrc == 0

NoFrame == [n |-> 0, voiced |-> FALSE]

Copies(to, routes, packet) ==
  {[to |-> to, via |-> p, packet |-> packet] : p \in routes}

Keep(queue, depth) ==      \* pop_front until there is room for one more
  IF Len(queue) >= depth
    THEN SubSeq(queue, Len(queue) - depth + 2, Len(queue)) ELSE queue

-----------------------------------------------------------------------------
(* SrtpPacketCodec                                                           *)

\* Faulty variant: every step to a greater number is a rollover.
RolledOverForwards(params, seq) == params.has /\ params.last < seq

\* Encrypt's bookkeeping as written: the counter moves when the new number is
\* less than the last by less than half the span.  With 2^16 numbers that is
\* 0x8000; a step from the top of the span to 0 is a difference near the span.
RolledOver(params, seq) ==
  /\ params.has
  /\ params.last > seq
  /\ 2 * (params.last - seq) < SeqSpan

Tracked(params, seq) ==
  [roc |-> IF RolledOver(params, seq) THEN params.roc + 1 ELSE params.roc,
   last |-> seq, has |-> TRUE]

Sealed(params, ssrc, seq, frame) ==
  [key |-> Ours, ssrc |-> ssrc, seq |-> seq,
   roc |-> Tracked(params, seq).roc, frame |-> frame]

\* The 48-bit packet index that selects the keystream.
Index(packet) == packet.roc * SeqSpan + packet.seq

\* Faulty variant: the two master keys change places.
AuthenticSwapped(params, packet) ==
  packet.key = Ours /\ packet.roc = params.roc

\* Decrypt: the tag is computed with the counter of the parameters, which
\* nothing on this side ever advances.
Authentic(params, packet) == packet.key = Theirs /\ packet.roc = params.roc

-----------------------------------------------------------------------------
(* The peer: an SRTP end that follows RFC 3711 (external).  Its receiver      *)
(* guesses the counter from the highest number it has seen (3.3.1) and        *)
(* refuses an index it has already had.                                       *)
PeerGuess(seq) ==
  LET s == peer.last  roc == peer.roc IN
  IF ~peer.has THEN 0
  ELSE IF 2 * s < SeqSpan
    THEN IF 2 * seq > 2 * s + SeqSpan /\ roc > 0 THEN roc - 1 ELSE roc
    ELSE IF 2 * s > 2 * seq + SeqSpan THEN roc + 1 ELSE roc

PeerAccepts(packet) ==
  /\ packet.key = Ours
  /\ packet.roc = PeerGuess(packet.seq)
  /\ Index(packet) \notin peer.had

\* The network lets no datagram pass more than half a turn of the sequence
\* numbers before another, which in the program is half an hour of speech.
InTime(d) ==
  \A e \in net :
    e.to = d.to => d.packet.frame.n <= e.packet.frame.n + SeqSpan \div 2

PeerReceives(d) ==
  LET packet == d.packet IN
  /\ d \in net /\ d.to = "peer" /\ InTime(d)
  /\ net' = net \ {d}
  /\ peer' =
       IF ~PeerAccepts(packet) THEN peer
       ELSE [peer EXCEPT
              !.heard = @ \cup {packet.frame.n},
              !.had = @ \cup {Index(packet)},
              !.roc = IF packet.roc >= @ THEN packet.roc ELSE @,
              !.last = IF ~peer.has \/ Index(packet) > peer.roc * SeqSpan + @
                         THEN packet.seq ELSE @,
              !.has = TRUE]
  /\ UNCHANGED <<phase, ready, outgoing, incoming, connected, muted, device,
                 loopActive, nextSeq, pump, rx, stopping, sealed, played,
                 lost, mute, captured, left>>

PeerSpeaks ==
  LET at == PeerStart + peer.spoken IN
  /\ phase # "idle" /\ left.peerFrames > 0
  /\ left' = [left EXCEPT !.peerFrames = @ - 1]
  /\ net' = net \cup Copies("us", PeerPaths,
       [key |-> Theirs, ssrc |-> PeerSsrc, seq |-> at % SeqSpan,
        roc |-> at \div SeqSpan,
        frame |-> [n |-> peer.spoken + 1, voiced |-> TRUE]])
  /\ peer' = [peer EXCEPT
                !.spoken = @ + 1,
                !.early = IF connected /\ stopping = "no" THEN @ ELSE peer.spoken + 1]
  /\ UNCHANGED <<phase, ready, outgoing, incoming, connected, muted, device,
                 loopActive, nextSeq, pump, rx, stopping, sealed, played,
                 lost, mute, captured>>

-----------------------------------------------------------------------------
(* StartAudioPhase                                                           *)

InstallKeys ==
  /\ phase = "idle"
  /\ phase' = "keyed"
  /\ ready' = TRUE
  /\ outgoing' = [roc |-> 0, last |-> 0, has |-> FALSE]
  /\ incoming' = [ssrc |-> UnknownSsrc, roc |-> 0]
  /\ UNCHANGED <<connected, muted, device, loopActive, nextSeq, pump, rx, net,
                 stopping, peer, sealed, played, lost, mute, captured, left>>

\* m_audio.reset(new WinrtVoipAudioDevice()), whose own m_muted is false.
CreateDevice ==
  /\ phase = "keyed"
  /\ phase' = "created"
  /\ device' = [device EXCEPT !.exists = TRUE, !.muted = FALSE]
  /\ UNCHANGED <<ready, outgoing, incoming, connected, muted, loopActive,
                 nextSeq, pump, rx, net, stopping, peer, sealed, played, lost,
                 mute, captured, left>>

\* Opening the device fails, or opening the codec behind it, which leaves the
\* device open (TransitionTo(Failed), no pump); or the state becomes Connected.
OpenDevice ==
  /\ phase = "created"
  /\ \E opened \in BOOLEAN, codec \in BOOLEAN :
       /\ device' = [device EXCEPT !.open = opened]
       /\ phase' = IF opened /\ codec THEN "opened" ELSE "failed"
       /\ connected' = (opened /\ codec)
  /\ UNCHANGED <<ready, outgoing, incoming, muted, loopActive, nextSeq, pump,
                 rx, net, stopping, peer, sealed, played, lost, mute,
                 captured, left>>

\* A thread that cannot be created leaves the call connected without a pump.
StartPump ==
  /\ phase = "opened"
  /\ \/ /\ phase' = "pumping"
        /\ loopActive' = TRUE
        /\ pump' = [pump EXCEPT !.at = "top"]
     \/ /\ phase' = "failed"
        /\ UNCHANGED <<loopActive, pump>>
  /\ UNCHANGED <<ready, outgoing, incoming, connected, muted, device, nextSeq,
                 rx, net, stopping, peer, sealed, played, lost, mute,
                 captured, left>>

-----------------------------------------------------------------------------
(* WinrtVoipAudioDevice: its capture and render threads, and SetMuted.       *)

\* PushCaptureSamples has a whole frame: the oldest queued ones make room.
PushCaptureSamples ==
  /\ device.open /\ left.frames > 0
  /\ captured' = captured + 1
  /\ left' = [left EXCEPT !.frames = @ - 1]
  /\ device' = [device EXCEPT
       !.mic = Append(Keep(@, MicDepth), captured + 1)]
  /\ UNCHANGED <<phase, ready, outgoing, incoming, connected, muted,
                 loopActive, nextSeq, pump, rx, net, stopping, peer, sealed,
                 played, lost, mute>>

\* FillRenderSamples takes the oldest frame of the queue.
FillRenderSamples ==
  /\ device.open /\ device.render # << >>
  /\ device' = [device EXCEPT !.render = Tail(@)]
  /\ UNCHANGED <<phase, ready, outgoing, incoming, connected, muted,
                 loopActive, nextSeq, pump, rx, net, stopping, peer, sealed,
                 played, lost, mute, captured, left>>

\* Faulty variant: the device is told only when the call is unmuted.
SetMutedUnheeded(value) ==
  /\ left.mutes > 0
  /\ left' = [left EXCEPT !.mutes = @ - 1]
  /\ muted' = value
  /\ mute' = [told |-> device.exists, leaked |-> 0]
  /\ device' = IF ~value THEN [device EXCEPT !.muted = value] ELSE device
  /\ UNCHANGED <<phase, ready, outgoing, incoming, connected, loopActive,
                 nextSeq, pump, rx, net, stopping, peer, sealed, played, lost,
                 captured>>

\* TgcallsConnection::SetMuted, its part under the lock: the device is told
\* only if there is one.  (The MediaState message is SignalingChannel's.)
SetMuted(value) ==
  /\ left.mutes > 0
  /\ left' = [left EXCEPT !.mutes = @ - 1]
  /\ muted' = value
  /\ mute' = [told |-> device.exists, leaked |-> 0]
  /\ device' = IF device.exists THEN [device EXCEPT !.muted = value] ELSE device
  /\ UNCHANGED <<phase, ready, outgoing, incoming, connected, loopActive,
                 nextSeq, pump, rx, net, stopping, peer, sealed, played, lost,
                 captured>>

-----------------------------------------------------------------------------
(* RunAudioCaptureLoop                                                       *)

\* The loop condition, and the snapshot of m_outgoingSeq under the lock.
PumpSnapshot ==
  /\ pump.at = "top"
  /\ IF loopActive
       THEN /\ ready /\ device.exists
            /\ pump' = [pump EXCEPT !.at = "read", !.seq = nextSeq]
       ELSE pump' = [pump EXCEPT !.at = "exited"]
  /\ UNCHANGED <<phase, ready, outgoing, incoming, connected, muted, device,
                 loopActive, nextSeq, rx, net, stopping, peer, sealed, played,
                 lost, mute, captured, left>>

\* ReadFrame and EncodeFrame: no frame within the timeout, or a frame the
\* encoder refuses, sends the loop back to its top with nothing consumed but
\* the frame.  What a muted device returns is wiped.
PumpRead ==
  /\ pump.at = "read"
  /\ \/ /\ device.mic # << >>
        /\ pump' = [pump EXCEPT
             !.at = "seal",
             !.frame = [n |-> Head(device.mic), voiced |-> ~device.muted]]
        /\ device' = [device EXCEPT !.mic = Tail(@)]
     \/ /\ device.mic = << >>
        /\ pump' = [pump EXCEPT !.at = "top"]
        /\ UNCHANGED device
  /\ UNCHANGED <<phase, ready, outgoing, incoming, connected, muted,
                 loopActive, nextSeq, rx, net, stopping, peer, sealed, played,
                 lost, mute, captured, left>>

\* Encrypt under the lock, then SendViaReflector.
PumpSeal ==
  LET packet == Sealed(outgoing, LocalSsrc, pump.seq, pump.frame) IN
  /\ pump.at = "seal"
  /\ outgoing' = Tracked(outgoing, pump.seq)
  /\ mute' = IF muted /\ pump.frame.voiced
               THEN [mute EXCEPT !.leaked = @ + 1] ELSE mute
  /\ sealed' = sealed \cup {packet}
  /\ net' = net \cup Copies("peer", Paths, packet)
  /\ pump' = [pump EXCEPT !.at = "advance"]
  /\ UNCHANGED <<phase, ready, incoming, connected, muted, device, loopActive,
                 nextSeq, rx, stopping, peer, played, lost, captured, left>>

\* The frame the encoder refuses: continue, with the number not used.
PumpEncodeFails ==
  /\ pump.at = "seal" /\ left.faults > 0
  /\ left' = [left EXCEPT !.faults = @ - 1]
  /\ pump' = [pump EXCEPT !.at = "top"]
  /\ UNCHANGED <<phase, ready, outgoing, incoming, connected, muted, device,
                 loopActive, nextSeq, rx, net, stopping, peer, sealed, played,
                 lost, mute, captured>>

\* Faulty variant: the snapshot itself is written back.
PumpAdvanceNowhere ==
  /\ pump.at = "advance"
  /\ nextSeq' = pump.seq
  /\ pump' = [pump EXCEPT !.at = "top"]
  /\ UNCHANGED <<phase, ready, outgoing, incoming, connected, muted, device,
                 loopActive, rx, net, stopping, peer, sealed, played, lost,
                 mute, captured, left>>

\* m_outgoingSeq = seq + 1, in 16 bits, from the snapshot.
PumpAdvance ==
  /\ pump.at = "advance"
  /\ nextSeq' = (pump.seq + 1) % SeqSpan
  /\ pump' = [pump EXCEPT !.at = "top"]
  /\ UNCHANGED <<phase, ready, outgoing, incoming, connected, muted, device,
                 loopActive, rx, net, stopping, peer, sealed, played, lost,
                 mute, captured, left>>

-----------------------------------------------------------------------------
(* OnSrtpDatagram and OnRtpPacket                                            *)

\* The first packet's source is latched before its tag is checked; any other
\* source is dropped from then on.
Latched(packet) ==
  IF incoming.ssrc = UnknownSsrc THEN packet.ssrc ELSE incoming.ssrc

OnSrtpDatagram(r, d) ==
  LET packet == d.packet IN
  /\ rx[r] = NoFrame /\ d \in net /\ d.to = "us"
  /\ net' = net \ {d}
  /\ IF connected /\ ready
       THEN /\ incoming' = [incoming EXCEPT !.ssrc = Latched(packet)]
            /\ rx' = IF Latched(packet) = packet.ssrc /\ Authentic(incoming, packet)
                       THEN [rx EXCEPT ![r] = packet.frame] ELSE rx
       ELSE UNCHANGED <<incoming, rx>>
  /\ UNCHANGED <<phase, ready, outgoing, connected, muted, device, loopActive,
                 nextSeq, pump, stopping, peer, sealed, played, lost, mute,
                 captured, left>>

\* Decode, and WriteFrame: the oldest queued frames make room.  Nothing orders
\* the callbacks among themselves and nothing drops a second copy.
OnRtpPacket(r) ==
  /\ rx[r] # NoFrame
  /\ rx' = [rx EXCEPT ![r] = NoFrame]
  /\ IF device.exists /\ device.open
       THEN /\ device' = [device EXCEPT
                 !.render = Append(Keep(@, RenderDepth), rx[r].n)]
            /\ played' = played \cup {rx[r].n}
       ELSE UNCHANGED <<device, played>>
  /\ UNCHANGED <<phase, ready, outgoing, incoming, connected, muted,
                 loopActive, nextSeq, pump, net, stopping, peer, sealed, lost,
                 mute, captured, left>>

-----------------------------------------------------------------------------
(* Stop, and the network.                                                    *)

\* StopAudioLoop clears the flag and waits for the pump.
StopAudioLoop ==
  /\ stopping = "no" /\ phase \in {"pumping", "failed"}
  /\ stopping' = "joining"
  /\ loopActive' = FALSE
  /\ UNCHANGED <<phase, ready, outgoing, incoming, connected, muted, device,
                 nextSeq, pump, rx, net, peer, sealed, played, lost, mute,
                 captured, left>>

\* What Stop owns is moved out under the lock, and the device closed.
StopTeardown ==
  /\ stopping = "joining" /\ pump.at \in {"none", "exited"}
  /\ stopping' = "done"
  /\ ready' = FALSE /\ connected' = FALSE
  /\ device' = [exists |-> FALSE, open |-> FALSE, muted |-> FALSE,
                mic |-> << >>, render |-> << >>]
  /\ UNCHANGED <<phase, outgoing, incoming, muted, loopActive, nextSeq, pump,
                 rx, net, peer, sealed, played, lost, mute, captured, left>>

\* A datagram is lost, or one that only looks like SRTP reaches the socket.
Lose(d) ==
  /\ d \in net /\ left.faults > 0
  /\ left' = [left EXCEPT !.faults = @ - 1]
  /\ net' = net \ {d}
  /\ lost' = lost \cup {d}
  /\ UNCHANGED <<phase, ready, outgoing, incoming, connected, muted, device,
                 loopActive, nextSeq, pump, rx, stopping, peer, sealed,
                 played, mute, captured>>

StrayArrives ==
  /\ left.faults > 0
  /\ left' = [left EXCEPT !.faults = @ - 1]
  /\ net' = net \cup Copies("us", PeerPaths,
       [key |-> NoKey, ssrc |-> StraySsrc, seq |-> 0, roc |-> 0,
        frame |-> NoFrame])
  /\ UNCHANGED <<phase, ready, outgoing, incoming, connected, muted, device,
                 loopActive, nextSeq, pump, rx, stopping, peer, sealed,
                 played, lost, mute, captured>>

-----------------------------------------------------------------------------
Init ==
  /\ phase = "idle" /\ ready = FALSE /\ connected = FALSE
  /\ outgoing = [roc |-> 0, last |-> 0, has |-> FALSE]
  /\ incoming = [ssrc |-> UnknownSsrc, roc |-> 0]
  /\ muted = FALSE
  /\ device = [exists |-> FALSE, open |-> FALSE, muted |-> FALSE,
               mic |-> << >>, render |-> << >>]
  /\ loopActive = FALSE /\ nextSeq = 0
  /\ pump = [at |-> "none", seq |-> 0, frame |-> NoFrame]
  /\ rx = [r \in Receivers |-> NoFrame]
  /\ net = {} /\ stopping = "no"
  /\ peer = [spoken |-> 0, early |-> 0, heard |-> {}, had |-> {}, roc |-> 0,
             last |-> 0, has |-> FALSE]
  /\ sealed = {} /\ played = {} /\ lost = {}
  /\ mute = [told |-> FALSE, leaked |-> 0]
  /\ captured = 0 /\ left \in Bounds

StartAudioPhase == InstallKeys \/ CreateDevice \/ OpenDevice \/ StartPump

RunAudioCaptureLoop == PumpSnapshot \/ PumpRead \/ PumpSeal \/ PumpAdvance

Receive(r) == OnRtpPacket(r) \/ \E d \in net : OnSrtpDatagram(r, d)

Next ==
  \/ StartAudioPhase \/ RunAudioCaptureLoop \/ PumpEncodeFails
  \/ PushCaptureSamples \/ FillRenderSamples
  \/ \E value \in BOOLEAN : SetMuted(value)
  \/ \E r \in Receivers : Receive(r)
  \/ StopAudioLoop \/ StopTeardown
  \/ PeerSpeaks \/ StrayArrives
  \/ \E d \in net : PeerReceives(d) \/ Lose(d)

Spec == Init /\ [][Next]_vars

\* The threads of the process run, and what was sent arrives in the end; the
\* user, the microphone and the peer need not do anything.
FairSpec ==
  /\ Spec
  /\ WF_vars(StartAudioPhase) /\ WF_vars(RunAudioCaptureLoop)
  /\ \A r \in Receivers : WF_vars(OnRtpPacket(r))
  /\ WF_vars(\E r \in Receivers : \E d \in net : OnSrtpDatagram(r, d))
  /\ WF_vars(\E d \in net : PeerReceives(d))
-----------------------------------------------------------------------------
(* Properties                                                                *)

\* No two different packets of the first turn of the sequence numbers are
\* encrypted with one keystream: what Encrypt makes is determined by its source
\* and its index.  The pump that writes m_outgoingSeq back from a snapshot, the
\* frames it gives up on and the rollover counter all have a part in that.
KeystreamOnce ==
  \A p, q \in sealed :
    /\ p.frame.n <= SeqSpan /\ q.frame.n <= SeqSpan
    /\ p.ssrc = q.ssrc /\ Index(p) = Index(q)
    => p = q

\* From a SetMuted(TRUE) that found the device on, one frame with voice may
\* still go out, the one the pump had read before; the frames that were captured
\* before and still wait in the queue are wiped.
MuteTakesEffect == muted /\ mute.told => mute.leaked <= 1

Lost(to, routes, n) ==
  \A p \in routes : \E d \in lost : d.to = to /\ d.via = p /\ d.packet.frame.n = n

\* The frames of the first turn of the numbers, from number start on.
FirstTurn(start) ==
  (1 .. SeqSpan - start) \cap UNION {1 .. b.frames + b.peerFrames : b \in Bounds}

\* What was sealed in the first turn of the sequence numbers is heard by the
\* peer unless every copy of it is lost: the peer's receiver, which follows the
\* RFC, makes of the number the index Encrypt used, though packets overtake each
\* other, come twice, and are mixed with those from beyond the wrap.  Those the
\* peer may not hear (RolloverCounted).
SealedIsHeard ==
  \A n \in FirstTurn(0) :
    (\E p \in sealed : p.frame.n = n)
      ~> (n \in peer.heard \/ Lost("peer", Paths, n))

\* A frame of the peer's first turn that it speaks while the call is connected
\* is given to the speaker, unless every copy of it is lost, the call is stopped,
\* or a stray datagram was the first to come and has the latch: one that comes
\* later does no harm, nor do the peer's packets from beyond its wrap, which
\* Decrypt refuses.  Only what the peer has spoken is ever given to the speaker.
SpokenIsPlayed ==
  /\ [](played \subseteq 1 .. peer.spoken)
  /\ \A n \in FirstTurn(PeerStart) :
       (peer.spoken >= n /\ peer.early < n)
         ~> \/ n \in played \/ Lost("us", PeerPaths, n)
            \/ incoming.ssrc = StraySsrc \/ stopping # "no"

\* The counter moves when the 16-bit sequence number wraps from its greatest
\* value back to 0, as the comments of SrtpPacketCodec say.
RolloverCounted ==
  [][outgoing.has /\ outgoing.last = SeqSpan - 1 /\ outgoing'.last = 0
       => outgoing'.roc = outgoing.roc + 1]_outgoing
=============================================================================
