------------------------------- MODULE VoipEngine -------------------------------
(***************************************************************************)
(* VoipEngine: the registry of calls, their Diffie-Hellman exchange, the   *)
(* signaling that arrives before there is anybody to take it, and the      *)
(* start and stop of media.                                                *)
(*                                                                         *)
(* Every operation runs on a pool thread of its own and takes m_lock for a *)
(* few lines at a time; what it does under one lock is one step here.  The *)
(* client awaits its own operations on a call, so each call has one thread *)
(* for its key exchange and StartMedia; signaling, StopMedia and DropCall  *)
(* come at any time.  An operation that returns an error before it has     *)
(* changed anything is no step.                                            *)
(***************************************************************************)
EXTENDS Naturals, Sequences, FiniteSets, Functions

CONSTANTS
  Calls,          \* the call ids
  Placed,         \* those of them this client placed
  Starts,         \* the runs of StartMedia that get as far as an object
  Signalers,      \* threads in ReceiveSignalingData
  Stoppers,       \* threads in StopMedia or DropCall
  MaxPackets,     \* bound on the packets the peers send
  Size,           \* by call, the bytes of the n-th packet of all if it is the call's
  QueueLimit,     \* kMaxPendingSignalingPackets: 128 in the code
  ByteLimit,      \* kMaxPendingSignalingBytes: 512 KB in the code
  MaxEndpoints,   \* reflector endpoints of a classic call
  NoCall, NoSession, NoStart

ASSUME CallsAssumption == Placed \subseteq Calls /\ NoCall \notin Calls
ASSUME StartsAssumption == NoStart \notin Starts
ASSUME BoundsAssumption ==
  MaxPackets \in Nat /\ QueueLimit \in Nat \ {0} /\ MaxEndpoints \in Nat
ASSUME BytesAssumption ==
  ByteLimit \in Nat /\ Size \in [Calls -> [1..MaxPackets -> Nat \ {0}]]

VARIABLES
  sessions,     \* m_calls
  outgoing,     \* m_outgoingByRandom: the calls with a key but no id yet
  dropped,      \* m_droppedCallIds
  connection,   \* m_tgcallsConnection
  callId,       \* m_tgcallsCallId
  active,       \* m_activeMedia
  media,        \* m_mediaSession
  client,       \* the thread of each call's key exchange and StartMedia
  signaler,     \* what each ReceiveSignalingData is about to hand over
  stopper,      \* what each StopMedia or DropCall is about to stop
  owner,        \* the call each run of StartMedia was for
  stopped,      \* the objects that were told to stop
  arrived,      \* history: the calls of the packets received, in their order
  handed        \* history: packets handed over, each with its connection

registry == <<sessions, outgoing, dropped>>
installed == <<connection, callId, active>>
threads == <<client, signaler, stopper>>
objects == <<owner, stopped>>
history == <<arrived, handed>>
vars == <<registry, installed, media, threads, objects, history>>

\* A packet is its number in the order of arrival.
Packets == 1..MaxPackets

\* A DhSession: Incoming (with its PeerGAHash), PrivateValue and P, SharedReady,
\* PendingSignalingPackets.
Session == [incoming : BOOLEAN, private : BOOLEAN, shared : BOOLEAN, queue : Seq(Packets)]

NewSession == [incoming |-> FALSE, private |-> FALSE, shared |-> FALSE, queue |-> <<>>]

\* A thread of the client: where it is, its copy of the session, the object it
\* has made, the packets it has taken, the endpoints it has left to try.
Computing(session) ==
  [at |-> "computing", copy |-> session, start |-> NoStart, pending |-> <<>>, left |-> 0]

Running(at, x, packets, n) ==
  [at |-> at, copy |-> NoSession, start |-> x, pending |-> packets, left |-> n]

Idle == Running("idle", NoStart, <<>>, 0)

SignalerIdle == [packet |-> 0, to |-> NoStart]
StopperIdle == [conn |-> NoStart, context |-> NoStart, at |-> "idle"]

Init ==
  /\ sessions = [c \in Calls |-> NoSession]
  /\ outgoing = {}
  /\ dropped = {}
  /\ connection = NoStart
  /\ callId = NoCall
  /\ active = NoStart
  /\ media = [state |-> "Idle", call |-> NoCall]
  /\ client = [c \in Calls |-> Idle]
  /\ signaler = [s \in Signalers |-> SignalerIdle]
  /\ stopper = [t \in Stoppers |-> StopperIdle]
  /\ owner = [x \in Starts |-> NoCall]
  /\ stopped = {}
  /\ arrived = <<>>
  /\ handed = {}

Known(c) == sessions[c] # NoSession

Queue(session) == IF session = NoSession THEN <<>> ELSE session.queue

-------------------------------------------------------------------------------
(* The key exchange.                                                        *)

CreateOutgoingDh(c) ==
  /\ client[c] = Idle /\ c \in Placed /\ ~Known(c)
  /\ outgoing' = outgoing \cup {c}
  /\ UNCHANGED <<sessions, dropped, installed, media, threads, objects, history>>

BindOutgoingCall(c) ==
  /\ client[c] = Idle /\ c \in outgoing
  /\ sessions' = [sessions EXCEPT ![c] = [NewSession EXCEPT !.private = TRUE]]
  /\ dropped' = dropped \ {c}
  /\ outgoing' = outgoing \ {c}
  /\ UNCHANGED <<installed, media, threads, objects, history>>

\* Faulty variant: a repeated announcement starts the call afresh.
RegisterAfresh(c) ==
  /\ client[c] = Idle /\ c \notin Placed
  /\ sessions' = [sessions EXCEPT ![c] = [NewSession EXCEPT !.incoming = TRUE]]
  /\ dropped' = dropped \ {c}
  /\ UNCHANGED <<outgoing, installed, media, threads, objects, history>>

\* The update that announces a call may come more than once.
RegisterIncomingGAHash(c) ==
  /\ client[c] = Idle /\ c \notin Placed
  /\ sessions' = [sessions EXCEPT
        ![c] = [(IF Known(c) THEN @ ELSE NewSession) EXCEPT !.incoming = TRUE]]
  /\ dropped' = dropped \ {c}
  /\ UNCHANGED <<outgoing, installed, media, threads, objects, history>>

\* The first half of the operations that compute: they work on a copy.
ComputeOnCopy(c, session) ==
  /\ client' = [client EXCEPT ![c] = Computing(session)]
  /\ UNCHANGED <<registry, installed, media, signaler, stopper, objects, history>>

CreateIncomingDh(c) ==
  /\ client[c] = Idle /\ Known(c) /\ sessions[c].incoming
  /\ ComputeOnCopy(c, [sessions[c] EXCEPT !.private = TRUE])

AcceptPeerGB(c) ==
  /\ client[c] = Idle /\ Known(c) /\ sessions[c].private /\ c \in Placed
  /\ ComputeOnCopy(c, [sessions[c] EXCEPT !.shared = TRUE])

ConfirmPeerGAOrB(c) ==
  /\ client[c] = Idle /\ Known(c) /\ sessions[c].private
  /\ ComputeOnCopy(c, [sessions[c] EXCEPT !.shared = TRUE])

\* Their second half puts the copy back.
CopyBack(c) ==
  /\ client[c].at = "computing"
  /\ sessions' = [sessions EXCEPT ![c] = client[c].copy]
  /\ client' = [client EXCEPT ![c] = Idle]
  /\ UNCHANGED <<outgoing, dropped, installed, media, signaler, stopper, objects, history>>

GetSharedKeyDiagnosticBytes(c) == Known(c) /\ sessions[c].shared

-------------------------------------------------------------------------------
(* StartMedia of a modern call.  TgcallsBackend, the only media graph there *)
(* is, refuses to start: a call without a usable endpoint ends there.       *)

FreshStart(x) == owner[x] = NoCall

\* The session is copied, the connection made and started.
StartConnection(c, x) ==
  /\ client[c] = Idle /\ Known(c) /\ sessions[c].shared /\ FreshStart(x)
  /\ client' = [client EXCEPT ![c] = Running("starting", x, <<>>, 0)]
  /\ owner' = [owner EXCEPT ![x] = c]
  /\ UNCHANGED <<registry, installed, media, signaler, stopper, stopped, history>>

\* What a drain does next, with these packets left to deliver: nothing, if none.
Draining(c, packets) ==
  IF packets = <<>> THEN Idle
  ELSE Running("draining", client[c].start, packets, 0)

\* Faulty variant: the queue is copied where it should be swapped out.
SessionsUntouched(c) == sessions

SessionsAfterSwap(c) ==
  IF Known(c) THEN [sessions EXCEPT ![c].queue = <<>>] ELSE sessions

\* The queue is taken and the connection installed under one lock, whether or
\* not the call is still known.
InstallConnection(c) ==
  /\ client[c].at = "starting"
  /\ connection' = client[c].start
  /\ callId' = c
  /\ sessions' = SessionsAfterSwap(c)
  /\ client' = [client EXCEPT ![c] = Draining(c, Queue(sessions[c]))]
  /\ UNCHANGED <<outgoing, dropped, active, media, signaler, stopper, objects, history>>

\* HandleIncomingSignaling refuses an empty packet and a short key, and there
\* are none here: the code's way out of the loop is never taken.
DeliverPending(c) ==
  /\ client[c].at = "draining"
  /\ handed' = handed \cup {<<Head(client[c].pending), client[c].start>>}
  /\ client' = [client EXCEPT ![c] = Draining(c, Tail(@.pending))]
  /\ UNCHANGED <<registry, installed, media, signaler, stopper, objects, arrived>>

-------------------------------------------------------------------------------
(* StartMedia of a classic call: the endpoints are tried in turn.           *)

\* Where a client's thread is while it tries an endpoint.
OnEndpoint == {"endpoint", "preparing", "prepared", "connecting", "handshaking"}

MediaStopped == [state |-> "Stopped", call |-> NoCall]

StartClassic(c, x) ==
  /\ client[c] = Idle /\ Known(c) /\ sessions[c].shared /\ FreshStart(x)
  /\ \E n \in 1..MaxEndpoints :
       client' = [client EXCEPT ![c] = Running("endpoint", x, <<>>, n)]
  /\ owner' = [owner EXCEPT ![x] = c]
  /\ UNCHANGED <<registry, installed, media, signaler, stopper, stopped, history>>

\* VoipMediaSession has no lock: what Prepare and MarkConnecting test may be
\* old when they write, and Stop may clear the call id Prepare has set.
MayPrepare(c) == media.state \in {"Idle", "Stopped"} \/ media.call = c

OverlapsStop(c) ==
  \/ \E t \in Stoppers : stopper[t].at = "stopping"
  \/ \E d \in Calls \ {c} : client[d].at \in OnEndpoint

CheckIdle(c) ==
  /\ client[c].at = "endpoint" /\ client[c].left > 0 /\ MayPrepare(c)
  /\ client' = [client EXCEPT ![c] = Running("preparing", @.start, <<>>, @.left)]
  /\ UNCHANGED <<registry, installed, media, signaler, stopper, objects, history>>

PrepareEndpoint(c) ==
  /\ client[c].at = "preparing"
  /\ \E call \in {c, NoCall} :
       /\ call = NoCall => OverlapsStop(c)
       /\ media' = [state |-> "Prepared", call |-> call]
  /\ client' = [client EXCEPT ![c] = Running("prepared", @.start, <<>>, @.left)]
  /\ UNCHANGED <<registry, installed, signaler, stopper, objects, history>>

CheckPrepared(c) ==
  /\ client[c].at = "prepared" /\ media.state = "Prepared"
  /\ client' = [client EXCEPT ![c] = Running("connecting", @.start, <<>>, @.left)]
  /\ UNCHANGED <<registry, installed, media, signaler, stopper, objects, history>>

MarkConnecting(c) ==
  /\ client[c].at = "connecting"
  /\ media' = [media EXCEPT !.state = "Connecting"]
  /\ client' = [client EXCEPT ![c] = Running("handshaking", @.start, <<>>, @.left)]
  /\ UNCHANGED <<registry, installed, signaler, stopper, objects, history>>

\* The session is refused, or the socket or the handshake fails: on to the next.
EndpointFails(c) ==
  /\ \/ client[c].at = "endpoint" /\ client[c].left > 0 /\ ~MayPrepare(c)
     \/ client[c].at = "prepared" /\ media.state # "Prepared"
     \/ client[c].at = "handshaking"
  /\ media' = MediaStopped
  /\ client' = [client EXCEPT ![c] = Running("endpoint", @.start, <<>>, @.left - 1)]
  /\ UNCHANGED <<registry, installed, signaler, stopper, objects, history>>

\* No endpoint is left, or after a handshake the audio device or codec fails.
ClassicFails(c) ==
  /\ \/ client[c].at = "endpoint" /\ client[c].left = 0
     \/ client[c].at = "handshaking"
  /\ media' = MediaStopped
  /\ client' = [client EXCEPT ![c] = Idle]
  /\ UNCHANGED <<registry, installed, signaler, stopper, objects, history>>

PublishMedia(c) ==
  /\ client[c].at = "handshaking"
  /\ active' = client[c].start
  /\ client' = [client EXCEPT ![c] = Idle]
  /\ UNCHANGED <<registry, connection, callId, media, signaler, stopper, objects, history>>

-------------------------------------------------------------------------------
(* Signaling from the peer.                                                 *)

\* PendingSignalingBytes: all the bytes of all the packets in a queue of c.
Bytes(c, queue) ==
  Cardinality(UNION {{i} \X (1..Size[c][queue[i]]) : i \in DOMAIN queue})

Fits(c, queue) == Len(queue) <= QueueLimit /\ Bytes(c, queue) <= ByteLimit

\* The packets of a queue from the i-th on, and the first i for which they fit.
From(queue, i) == SubSeq(queue, i, Len(queue))

FirstToFit(c, queue) ==
  CHOOSE i \in 1..(Len(queue) + 1) :
    Fits(c, From(queue, i)) /\ \A j \in 1..(i - 1) : ~Fits(c, From(queue, j))

\* Faulty variant: no limit.
QueueUnlimited(c, queue, p) == Append(queue, p)

\* The oldest packets make room, however many it takes; one too large for any
\* queue goes with them.
QueuePendingSignaling(c, queue, p) ==
  LET all == Append(queue, p) IN From(all, FirstToFit(c, all))

\* Faulty variant: any connection will do.
GoesToAnyConnection(c) == Known(c) /\ connection # NoStart

GoesToConnection(c) == Known(c) /\ connection # NoStart /\ callId = c

\* A packet for a call nobody knows is refused, or ignored if it was dropped.
ReceiveSignalingData(s, c) ==
  /\ signaler[s] = SignalerIdle /\ Len(arrived) < MaxPackets
  /\ arrived' = Append(arrived, c)
  /\ LET p == Len(arrived) + 1
         direct == GoesToConnection(c)
     IN /\ signaler' = IF direct
                       THEN [signaler EXCEPT ![s] = [packet |-> p, to |-> connection]]
                       ELSE signaler
        /\ sessions' = IF Known(c) /\ ~direct
                       THEN [sessions EXCEPT ![c].queue = QueuePendingSignaling(c, @, p)]
                       ELSE sessions
  /\ UNCHANGED <<outgoing, dropped, installed, media, client, stopper, objects, handed>>

\* HandleIncomingSignaling, outside the lock.
DeliverSignaling(s) ==
  /\ signaler[s] # SignalerIdle
  /\ handed' = handed \cup {<<signaler[s].packet, signaler[s].to>>}
  /\ signaler' = [signaler EXCEPT ![s] = SignalerIdle]
  /\ UNCHANGED <<registry, installed, media, client, stopper, objects, arrived>>

-------------------------------------------------------------------------------
(* The end of a call.                                                       *)

DropCall(t, c) ==
  /\ stopper[t] = StopperIdle
  /\ sessions' = [sessions EXCEPT ![c] = NoSession]
  /\ dropped' = dropped \cup {c}
  /\ IF callId = c
     THEN /\ stopper' = [stopper EXCEPT
               ![t] = [conn |-> connection, context |-> NoStart, at |-> "dropping"]]
          /\ connection' = NoStart
          /\ callId' = NoCall
     ELSE UNCHANGED <<stopper, connection, callId>>
  /\ UNCHANGED <<outgoing, active, media, client, signaler, objects, history>>

\* Faulty variant: the classic context is stopped and stays installed.
StopMediaKeepsActive(t) ==
  /\ stopper[t] = StopperIdle
  /\ stopper' = [stopper EXCEPT
        ![t] = [conn |-> connection, context |-> active, at |-> "stopping"]]
  /\ connection' = NoStart
  /\ callId' = NoCall
  /\ UNCHANGED <<registry, active, media, client, signaler, objects, history>>

StopMedia(t) ==
  /\ stopper[t] = StopperIdle
  /\ stopper' = [stopper EXCEPT
        ![t] = [conn |-> connection, context |-> active, at |-> "stopping"]]
  /\ active' = NoStart
  /\ connection' = NoStart
  /\ callId' = NoCall
  /\ UNCHANGED <<registry, media, client, signaler, objects, history>>

\* Outside the lock, what was taken is told to stop; StopMedia then resets the
\* media session.
StopTaken(t) ==
  /\ stopper[t] # StopperIdle
  /\ stopped' = stopped \cup ({stopper[t].conn, stopper[t].context} \ {NoStart})
  /\ media' = IF stopper[t].at = "stopping" THEN MediaStopped ELSE media
  /\ stopper' = [stopper EXCEPT ![t] = StopperIdle]
  /\ UNCHANGED <<registry, installed, client, signaler, owner, history>>

-------------------------------------------------------------------------------
Next ==
  \/ \E c \in Calls :
       \/ CreateOutgoingDh(c) \/ BindOutgoingCall(c)
       \/ RegisterIncomingGAHash(c) \/ CreateIncomingDh(c)
       \/ AcceptPeerGB(c) \/ ConfirmPeerGAOrB(c) \/ CopyBack(c)
       \/ \E x \in Starts : StartConnection(c, x) \/ StartClassic(c, x)
       \/ InstallConnection(c) \/ DeliverPending(c)
       \/ CheckIdle(c) \/ PrepareEndpoint(c) \/ CheckPrepared(c) \/ MarkConnecting(c)
       \/ EndpointFails(c) \/ ClassicFails(c) \/ PublishMedia(c)
       \/ \E s \in Signalers : ReceiveSignalingData(s, c)
       \/ \E t \in Stoppers : DropCall(t, c)
  \/ \E s \in Signalers : DeliverSignaling(s)
  \/ \E t \in Stoppers : StopMedia(t) \/ StopTaken(t)

Spec == Init /\ [][Next]_vars

-------------------------------------------------------------------------------
(* Properties.                                                              *)

Client == [at : {"idle", "computing", "starting", "draining"} \cup OnEndpoint,
           copy : Session \cup {NoSession},
           start : Starts \cup {NoStart},
           pending : Seq(Packets),
           left : 0..MaxEndpoints]

\* Types of the variables; no queue grows beyond its limits, not even one that a
\* copy has put back.
TypeOK ==
  /\ sessions \in [Calls -> Session \cup {NoSession}]
  /\ \A c \in Calls : Fits(c, Queue(sessions[c]))
  /\ outgoing \subseteq Placed
  /\ dropped \subseteq Calls
  /\ connection \in Starts \cup {NoStart}
  /\ callId \in Calls \cup {NoCall}
  /\ active \in Starts \cup {NoStart}
  /\ media \in [state : {"Idle", "Prepared", "Connecting", "Stopped"},
                call : Calls \cup {NoCall}]
  /\ client \in [Calls -> Client]
  /\ signaler \in [Signalers -> {SignalerIdle} \cup [packet : Packets, to : Starts]]
  /\ stopper \in [Stoppers -> [conn : Starts \cup {NoStart},
                               context : Starts \cup {NoStart},
                               at : {"idle", "dropping", "stopping"}]]
  /\ owner \in [Starts -> Calls \cup {NoCall}]
  /\ stopped \subseteq Starts
  /\ arrived \in Seq(Calls) /\ Len(arrived) <= MaxPackets
  /\ handed \subseteq Packets \X Starts

\* Whatever starts, stops and drops overlap, a packet is handed to a connection
\* of the call it is for (m_tgcallsConnection and m_tgcallsCallId change
\* together, and a thread delivers to the one it saw).
SignalingReachesOwnCall == \A d \in handed : owner[d[2]] = arrived[d[1]]

\* What the members point to has not been stopped: no packet is routed to a
\* connection, and no mute to a context, that a StopMedia or DropCall took.
InstalledIsLive == connection \notin stopped /\ active \notin stopped

\* The packets the engine still holds: in a queue, in the queue of a copy that
\* will be put back, taken by a drain, or in the hands of ReceiveSignalingData.
Held ==
  {p \in 1..Len(arrived) :
     LET c == arrived[p] IN
       \/ p \in Range(Queue(sessions[c])) \/ p \in Range(Queue(client[c].copy))
       \/ p \in Range(client[c].pending)
       \/ \E s \in Signalers : signaler[s].packet = p}

Handed == {d[1] : d \in handed}

\* The packet p and those after it are more than the queue may hold.
Crowded(c, queue, p) == \E i \in DOMAIN queue : queue[i] = p /\ ~Fits(c, From(queue, i))

Arriving == DOMAIN arrived' \ DOMAIN arrived

\* A packet that is held leaves only by being handed over, with its call,
\* overwritten by a copy of the session that is older than it (CreateIncomingDh,
\* AcceptPeerGB, ConfirmPeerGAOrB), or because an arrival makes it and what came
\* after it too much for the queue; one that arrives for a call that is known is
\* held, or too large.
LossIsExplained ==
  [][\A p \in (Held \cup Arriving) \ Held' :
       \/ p \in Handed'
       \/ LET c == arrived'[p] IN
            \/ sessions'[c] = NoSession
            \/ client[c].at = "computing"
            \/ Arriving # {} /\ Crowded(c, Append(Queue(sessions[c]), Len(arrived')), p)]_vars

Relay == INSTANCE SignalingRelay WITH
  Packets <- Packets,
  arrived <- 1..Len(arrived),
  waiting <- Held,
  handed <- Handed

\* The queue, the copies and the drain together hand each packet over at most
\* once, and what is lost stays lost.
RelaysSignaling == Relay!Spec
===============================================================================
