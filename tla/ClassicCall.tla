---------------------------- MODULE ClassicCall ----------------------------
(***************************************************************************)
(* Two programs set up a classic call over the reflectors both were given, *)
(* which StartMedia tries in turn: for each a session and sequence numbers *)
(* of its own, the control handshake (RunControlHandshake), and, once one  *)
(* has come to its end, the media loops that follow it                     *)
(* (MediaSendLoop and MediaReceiveLoop of voip_engine.cpp), the codec of   *)
(* their packets and the datagram session under them (Mode A of            *)
(* datagram_socket_reflector_transport).                                   *)
(*                                                                         *)
(* The handshake is one thread a side.  The two media loops are two        *)
(* threads, which share NextLocalSequence and LastRemoteSequence without a *)
(* lock: TakeNextSequence is a read and a write.  InitLoop, the third      *)
(* thread, tests InitAckReceived before anything else and finds it set by  *)
(* StartMedia: it is over before it starts.                                *)
(*                                                                         *)
(* Time is counted in slots of 250 ms, one Receive each.  What is on its   *)
(* way arrives and is answered within a slot unless a fault delays it; the *)
(* network may also lose and repeat.  Opus, the jitter buffer (JitterBuffer*)
(* has it) and the bytes of a packet are left out.                         *)
(***************************************************************************)
EXTENDS Naturals, Sequences

CONSTANTS
  Sides,            \* the two programs
  InitialRetry,     \* kInitialRetryMs, in slots
  MaxRetry,         \* kMaxRetryMs
  HandshakeTime,    \* kControlHandshakeTimeoutMs
  MaxInitAttempts,  \* kMaxInitAttempts
  Endpoints,        \* bound: reflectors of the call, numbered as they are tried
  MaxSkew,          \* bound: the slot by which a call is started
  MaxFrames,        \* bound: audio frames that are sent
  MaxFaults         \* bound: what the network and the users do

ASSUME SidesAssumption ==
  \E a, b \in Sides : a # b /\ Sides = {a, b}
ASSUME TimingAssumption ==
  /\ InitialRetry \in Nat \ {0} /\ MaxRetry \in Nat /\ InitialRetry <= MaxRetry
  /\ HandshakeTime \in Nat \ {0} /\ MaxInitAttempts \in Nat \ {0}
ASSUME BoundsAssumption ==
  Endpoints \in Nat \ {0} /\ MaxSkew \in Nat /\ MaxFrames \in Nat /\ MaxFaults \in Nat

Other(s) == CHOOSE o \in Sides : o # s

VARIABLES
  time,      \* slots since the first start, up to MaxSkew + 1
  call,      \* each side's StartMedia: where it stands and on which endpoint;
             \* initAttempts, currentRetryMs, the slots to nextInitAt and to
             \* the deadline; nextLocalSequence and lastRemoteSequence (in
             \* media: those of the context); whether an attempt has failed
             \* otherwise than by its deadline (history)
  sender,    \* MediaSendLoop: the sequence number it has read, its frames
  receiver,  \* MediaReceiveLoop: the answer it makes and the number it has read
  queue,     \* m_received of the datagram session
  net,       \* datagrams on their way to each side, with their endpoint
  faults,    \* bound
  order,     \* history: the datagrams of the call in m_received, as they came
  used,      \* history: the sequence numbers each side has sent on an endpoint
  reused,    \* history: the sides that have sent one twice
  raced      \* history: the sides whose loops were in TakeNextSequence at once

history == <<used, reused, raced>>
vars == <<time, call, sender, receiver, queue, net, faults, order, history>>

-----------------------------------------------------------------------------
(* Packets.                                                                 *)

Kinds == {"selfInfo", "init", "initAck", "stream", "ping", "pong",
          "foreign", "garbled", "noOpus"}

Datagram(kind, seq, ack, n) == [kind |-> kind, seq |-> seq, ack |-> ack, n |-> n]

\* What the reflector sends back for a self-info request.
SelfInfo == Datagram("selfInfo", 0, 0, 0)

\* ParseInitAckPayload finds the Opus stream.
OffersOpus(d) == d.kind = "initAck"

\* MatchesPeerTag.
Matches(d) == d.kind # "foreign"

\* DecryptRelayPacketMtProto2Short and DecodeShort succeed.
Decodes(d) == d.kind \notin {"selfInfo", "garbled"}

\* TakeNextSequence: 1 is the first number.
NextSequence(n) == n + 1

\* Faulty variant: the acknowledgement and the sequence number change places.
BuildControlPacketSwapped(kind, localSeq, ackSeq, n) ==
  Datagram(kind, ackSeq, localSeq, n)

BuildControlPacket(kind, localSeq, ackSeq, n) ==
  Datagram(kind, localSeq, ackSeq, n)

\* EncodeAudio wraps a frame, whose number stands for its bytes.
AudioPacket(localSeq, ackSeq, n) == BuildControlPacket("stream", localSeq, ackSeq, n)

\* The session of s is open.
Open(s) == call[s].at \in {"loop", "receive", "refused", "media"}

\* The reflector e has the side s to forward to.
Reaches(s, e) == Open(s) /\ call[s].endpoint = e

\* The MessageReceived handler of s, for what the reflector e forwards: q and o
\* become m_received and its history.
Arrives(s, e, d, q, o) ==
  /\ queue' = IF Reaches(s, e) THEN [q EXCEPT ![s] = Append(@, d)] ELSE q
  /\ order' = IF Reaches(s, e) /\ Matches(d) THEN [o EXCEPT ![s] = Append(@, d)] ELSE o

\* Sends the packet p of side s, which the reflector forwards at once; a fault
\* holds it back or has it come again; what is held back for good is lost.
Emit(s, p, q, o) ==
  LET e == call[s].endpoint
      t == Other(s)
  IN /\ used' = [used EXCEPT ![s] = @ \cup {<<e, p.seq>>}]
     /\ reused' = IF <<e, p.seq>> \in used[s] THEN reused \cup {s} ELSE reused
     /\ \/ Arrives(t, e, p, q, o) /\ UNCHANGED <<net, faults>>
        \/ /\ faults < MaxFaults /\ faults' = faults + 1
           /\ net' = [net EXCEPT ![t] = @ \cup {<<e, p>>}]
           /\ Arrives(t, e, p, q, o) \/ (queue' = q /\ order' = o)

Silent(q, o) == queue' = q /\ order' = o /\ UNCHANGED <<net, used, reused, faults>>

\* What is answered, and with what.
AnswerTo == [init |-> "initAck", ping |-> "pong"]

\* What an attempt on endpoint e has before it begins: its sequence numbers are
\* those of the DhSession, which no attempt changes.
Attempt(at, e, broken) ==
  [at |-> at, endpoint |-> e, attempts |-> 0, retry |-> InitialRetry, wait |-> 0,
   left |-> 0, next |-> 1, last |-> 0, broken |-> broken]

\* The largest sequence number the peer has shown.
Heard(last, d) == IF d.seq > last THEN d.seq ELSE last

-----------------------------------------------------------------------------

Init ==
  /\ time = 0
  /\ call = [s \in Sides |-> Attempt("idle", 1, FALSE)]
  /\ sender = [s \in Sides |-> [at |-> "idle", seq |-> 0, frames |-> 0]]
  /\ receiver = [s \in Sides |-> [at |-> "idle", seq |-> 0, kind |-> "none"]]
  /\ queue = [s \in Sides |-> <<>>] /\ net = [s \in Sides |-> {}]
  /\ faults = 0
  /\ order = [s \in Sides |-> <<>>]
  /\ used = [s \in Sides |-> {}] /\ reused = {} /\ raced = {}

-----------------------------------------------------------------------------
(* The datagram session.                                                    *)

FirstMatch(q) ==
  CHOOSE i \in DOMAIN q : Matches(q[i]) /\ \A j \in 1..(i - 1) : ~Matches(q[j])

\* Faulty variants: the last datagram takes the place of the one received;
\* only the front is looked at.
WithoutMatchSwapped(q) ==
  SubSeq([q EXCEPT ![FirstMatch(q)] = q[Len(q)]], 1, Len(q) - 1)

HasMatchInFront(q) == q # <<>> /\ Matches(Head(q))

HasMatch(q) == \E i \in DOMAIN q : Matches(q[i])

\* What Receive leaves: the datagrams before the one it takes have gone to the
\* back.
WithoutMatch(q) ==
  SubSeq(q, FirstMatch(q) + 1, Len(q)) \o SubSeq(q, 1, FirstMatch(q) - 1)

\* What Receive takes.
FirstOf(q) == q[FirstMatch(q)]

Received(s) == [queue EXCEPT ![s] = WithoutMatch(@)]
InOrder(s) == [order EXCEPT ![s] = IF @ = <<>> THEN @ ELSE Tail(@)]

\* A datagram that was delayed or repeated.
MessageReceived(s) ==
  /\ \E m \in net[s] : /\ net' = [net EXCEPT ![s] = @ \ {m}]
                       /\ Arrives(s, m[1], m[2], queue, order)
  /\ UNCHANGED <<time, call, sender, receiver, faults, history>>

Closed(s) ==
  /\ queue' = [queue EXCEPT ![s] = <<>>]
  /\ order' = [order EXCEPT ![s] = <<>>]

-----------------------------------------------------------------------------
(* The control handshake.                                                   *)

\* The next endpoint, or none is left and StartMedia fails.
NextEndpoint(c, broken) ==
  Attempt(IF c.endpoint < Endpoints THEN "opening" ELSE "failed",
          c.endpoint + 1, c.broken \/ broken)

\* Open and the two self-info requests, which the reflector answers.
OpenEndpoint(s) ==
  /\ \/ /\ call' = [call EXCEPT ![s].at = "loop", ![s].left = HandshakeTime]
        /\ queue' = [queue EXCEPT ![s] = <<SelfInfo>>]
        /\ order' = [order EXCEPT ![s] = <<SelfInfo>>]
        /\ UNCHANGED faults
     \/ /\ faults < MaxFaults /\ faults' = faults + 1
        /\ call' = [call EXCEPT ![s] = NextEndpoint(@, TRUE)]
        /\ Closed(s)
  /\ UNCHANGED <<time, sender, receiver, net, history>>

Start(s) == call[s].at = "idle" /\ time <= MaxSkew /\ OpenEndpoint(s)

TryNext(s) == call[s].at = "opening" /\ OpenEndpoint(s)

Due(c) == c.attempts = 0 \/ c.wait = 0

Doubled(retry) == IF 2 * retry > MaxRetry THEN MaxRetry ELSE 2 * retry

SendInitPacket(s) ==
  /\ call' = [call EXCEPT ![s].at = "receive",
                          ![s].attempts = @ + 1,
                          ![s].wait = call[s].retry,
                          ![s].retry = Doubled(@),
                          ![s].next = NextSequence(@)]
  /\ Emit(s, BuildControlPacket("init", call[s].next, call[s].last, 0), queue, order)

Remaining(c) == c.left > 0 /\ c.attempts < MaxInitAttempts

\* What is left once a handshake has returned with success.
Completed(c) == [c EXCEPT !.at = "media", !.attempts = 0, !.retry = InitialRetry,
                          !.wait = 0, !.left = 0]

\* The head of the loop, up to Receive.
HandshakeTurn(s) ==
  /\ call[s].at = "loop" /\ Remaining(call[s])
  /\ \/ Due(call[s]) /\ SendInitPacket(s)
     \/ /\ ~Due(call[s])
        /\ call' = [call EXCEPT ![s].at = "receive"]
        /\ Silent(queue, order)
  /\ UNCHANGED <<time, sender, receiver, raced>>

\* StartMedia closes the session of a handshake that came to nothing and goes on.
HandshakeEnds(s) ==
  /\ \/ call[s].at = "loop" /\ ~Remaining(call[s])
     \/ call[s].at = "refused"
  /\ call' = [call EXCEPT ![s] = NextEndpoint(@, call[s].at = "refused")]
  /\ Closed(s)
  /\ UNCHANGED <<time, sender, receiver, net, faults, history>>

\* A send failed.
HandshakeFails(s) ==
  /\ call[s].at \in {"loop", "receive"}
  /\ faults < MaxFaults /\ faults' = faults + 1
  /\ call' = [call EXCEPT ![s] = NextEndpoint(@, TRUE)]
  /\ Closed(s)
  /\ UNCHANGED <<time, sender, receiver, net, history>>

\* Faulty variant: the peer's Init is taken for its answer.
InHandshakeEither(s, d) ==
  /\ call' = [call EXCEPT ![s] = IF d.kind \in {"init", "initAck"}
                                 THEN [Completed(@) EXCEPT !.last = Heard(@, d)]
                                 ELSE [@ EXCEPT !.at = "loop"]]
  /\ Silent(Received(s), InOrder(s))

\* An answer takes the next sequence number, which this thread has to itself.
InHandshake(s, d) ==
  LET heard == IF Decodes(d) THEN Heard(call[s].last, d) ELSE call[s].last
      c == [call[s] EXCEPT !.last = heard]
  IN CASE d.kind \in DOMAIN AnswerTo ->
            /\ call' = [call EXCEPT ![s] = [c EXCEPT !.at = "loop", !.next = NextSequence(@)]]
            /\ Emit(s, BuildControlPacket(AnswerTo[d.kind], c.next, heard, 0),
                    Received(s), InOrder(s))
       [] OTHER ->
            /\ call' = [call EXCEPT ![s] = CASE OffersOpus(d) -> Completed(c)
                                             [] d.kind = "noOpus"  -> [c EXCEPT !.at = "refused"]
                                             [] OTHER -> [c EXCEPT !.at = "loop"]]
            /\ Silent(Received(s), InOrder(s))

ReceiveInHandshake(s) ==
  /\ call[s].at = "receive" /\ HasMatch(queue[s])
  /\ InHandshake(s, FirstOf(queue[s]))
  /\ UNCHANGED <<time, sender, receiver, raced>>

-----------------------------------------------------------------------------
(* The media loops.                                                         *)

Races(s) == raced' = IF sender'[s].at = "taking" /\ receiver'[s].at = "taking"
                     THEN raced \cup {s} ELSE raced

\* The frames s has sent, with the one it is sending.
Begun(s) == sender[s].frames + (IF sender[s].at = "taking" THEN 1 ELSE 0)

\* ReadFrame, or a frame of silence where it has none, the encoder, and the first
\* half of TakeNextSequence.
TakeForFrame(s) ==
  /\ call[s].at = "media" /\ sender[s].at = "idle"
  /\ Begun(s) + Begun(Other(s)) < MaxFrames
  /\ sender' = [sender EXCEPT ![s].at = "taking", ![s].seq = call[s].next]
  /\ UNCHANGED receiver /\ Races(s)
  /\ UNCHANGED <<time, call, queue, net, faults, order, used, reused>>

\* EncodeAndSendAudioFrame; Send fails once the session is closed.
SendFrame(s) ==
  /\ sender[s].at = "taking"
  /\ call' = [call EXCEPT ![s].next = NextSequence(sender[s].seq)]
  /\ IF call[s].at = "media"
     THEN /\ Emit(s, AudioPacket(sender[s].seq, call[s].last, sender[s].frames),
                 queue, order)
          /\ sender' = [sender EXCEPT ![s].at = "idle", ![s].frames = @ + 1]
     ELSE /\ sender' = [sender EXCEPT ![s].at = "idle"]
          /\ Silent(queue, order)
  /\ UNCHANGED <<time, receiver, raced>>

\* Faulty variant: an Init that comes after the handshake is ignored.
AnsweredPing(d) == d.kind = "ping"

Answered(d) == d.kind \in DOMAIN AnswerTo

\* One turn of MediaReceiveLoop, up to the first half of TakeNextSequence.
ReceiveInMedia(s) ==
  /\ call[s].at = "media" /\ receiver[s].at = "idle" /\ HasMatch(queue[s])
  /\ LET d == FirstOf(queue[s])
     IN
       /\ call' = IF Decodes(d) THEN [call EXCEPT ![s].last = Heard(@, d)] ELSE call
       /\ receiver' = IF ~Answered(d) THEN receiver
                      ELSE [receiver EXCEPT ![s] = [at |-> "taking", seq |-> call[s].next,
                                                    kind |-> AnswerTo[d.kind]]]
  /\ queue' = Received(s) /\ order' = InOrder(s)
  /\ UNCHANGED sender /\ Races(s)
  /\ UNCHANGED <<time, net, faults, used, reused>>

\* Faulty variant: the number is read but not taken.
SendAnswerUncounted(s) ==
  /\ receiver[s].at = "taking"
  /\ receiver' = [receiver EXCEPT ![s].at = "idle"]
  /\ IF call[s].at = "media"
     THEN Emit(s, BuildControlPacket(receiver[s].kind, receiver[s].seq, call[s].last, 0),
               queue, order)
     ELSE Silent(queue, order)
  /\ UNCHANGED <<time, call, sender, raced>>

\* SendInitAck and SendPong.
SendAnswer(s) ==
  /\ receiver[s].at = "taking"
  /\ call' = [call EXCEPT ![s].next = NextSequence(receiver[s].seq)]
  /\ receiver' = [receiver EXCEPT ![s].at = "idle"]
  /\ IF call[s].at = "media"
     THEN Emit(s, BuildControlPacket(receiver[s].kind, receiver[s].seq, call[s].last, 0),
               queue, order)
     ELSE Silent(queue, order)
  /\ UNCHANGED <<time, sender, raced>>

\* StopMedia: StopRequested, then Socket->Close.
StopMedia(s) ==
  /\ call[s].at = "media"
  /\ faults < MaxFaults /\ faults' = faults + 1
  /\ call' = [call EXCEPT ![s].at = "stopped"]
  /\ Closed(s)
  /\ UNCHANGED <<time, sender, receiver, net, history>>

-----------------------------------------------------------------------------
(* The network, another implementation's pings, and time.                   *)

\* A stray datagram: another peer tag, one that does not decrypt, an INIT_ACK
\* that offers no Opus stream.
Stray(s, kind) ==
  /\ faults < MaxFaults /\ faults' = faults + 1
  /\ Open(s) /\ Arrives(s, call[s].endpoint, Datagram(kind, 0, 0, 0), queue, order)
  /\ UNCHANGED <<time, call, sender, receiver, net, history>>

\* The side s is an implementation that pings.
Ping(s) ==
  /\ faults < MaxFaults /\ faults' = faults + 1
  /\ Open(s) /\ sender[s].at = "idle" /\ receiver[s].at = "idle"
  /\ call' = [call EXCEPT ![s].next = NextSequence(@)]
  /\ used' = [used EXCEPT ![s] = @ \cup {<<call[s].endpoint, call[s].next>>}]
  /\ Arrives(Other(s), call[s].endpoint,
             BuildControlPacket("ping", call[s].next, call[s].last, 0), queue, order)
  /\ UNCHANGED <<time, sender, receiver, net, reused, raced>>

\* Nothing that is not delayed is under way.
Quiet == \A s \in Sides : ~HasMatch(queue[s]) /\ receiver[s].at = "idle"

Less(n) == IF n = 0 THEN 0 ELSE n - 1

\* A slot passes: every Receive that found nothing times out.
Tick ==
  /\ \E s \in Sides : call[s].at = "receive"
  /\ \A s \in Sides : call[s].at # "loop"
  /\ faults + (IF Quiet THEN 0 ELSE 1) <= MaxFaults
  /\ faults' = faults + (IF Quiet THEN 0 ELSE 1)
  /\ time' = IF time <= MaxSkew THEN time + 1 ELSE time
  /\ call' = [s \in Sides |->
       IF call[s].at # "receive" THEN call[s]
       ELSE [call[s] EXCEPT !.at = IF HasMatch(queue[s]) THEN @ ELSE "loop",
                            !.left = Less(@), !.wait = Less(@)]]
  /\ UNCHANGED <<sender, receiver, queue, net, order, history>>

-----------------------------------------------------------------------------

Step(s) ==
  \/ HandshakeTurn(s) \/ ReceiveInHandshake(s)
  \/ HandshakeEnds(s) \/ TryNext(s)

Next ==
  \/ \E s \in Sides :
       \/ Start(s) \/ Step(s) \/ HandshakeFails(s)
       \/ TakeForFrame(s) \/ SendFrame(s)
       \/ ReceiveInMedia(s) \/ SendAnswer(s)
       \/ StopMedia(s)
       \/ MessageReceived(s) \/ Ping(s)
       \/ \E kind \in {"foreign", "garbled", "noOpus"} : Stray(s, kind)
  \/ Tick

Spec == Init /\ [][Next]_vars

(***************************************************************************)
(* Threads run (the receive loop begins where the handshake ends, and the  *)
(* two share a clause), a Receive ends by its deadline.  Nothing obliges   *)
(* anybody to start a call, to speak or to stop, nor the network to        *)
(* deliver what it holds back.                                             *)
(***************************************************************************)
Fairness ==
  /\ \A s \in Sides : WF_vars(Step(s) \/ ReceiveInMedia(s) \/ SendAnswer(s))
  /\ WF_vars(Tick)

FairSpec == Spec /\ Fairness

-----------------------------------------------------------------------------
(* Properties.                                                              *)

Datagrams == [kind : Kinds, seq : Nat, ack : Nat, n : 0..MaxFrames]

CallType ==
  [at : {"idle", "opening", "loop", "receive", "refused", "media", "failed", "stopped"},
   endpoint : Nat, broken : BOOLEAN,
   attempts : 0..MaxInitAttempts, retry : 1..MaxRetry, wait : 0..MaxRetry,
   left : 0..HandshakeTime, next : Nat \ {0}, last : Nat]

SenderType == [at : {"idle", "taking"}, seq : Nat, frames : 0..MaxFrames]

ReceiverType == [at : {"idle", "taking"}, seq : Nat, kind : {"none", "initAck", "pong"}]

\* Type invariant; the retries are never more than MaxRetry apart.
TypeOK ==
  /\ time \in Nat /\ faults \in 0..MaxFaults
  /\ call \in [Sides -> CallType]
  /\ sender \in [Sides -> SenderType] /\ receiver \in [Sides -> ReceiverType]
  /\ queue \in [Sides -> Seq(Datagrams)] /\ order \in [Sides -> Seq(Datagrams)]
  /\ net \in [Sides -> SUBSET (Nat \X Datagrams)]
  /\ used \in [Sides -> SUBSET (Nat \X Nat)] /\ reused \subseteq Sides /\ raced \subseteq Sides

\* The datagrams of the call in q.
OfCall(q) ==
  LET kept[i \in 0 .. Len(q)] ==
        IF i = 0 THEN << >>
        ELSE IF Matches(q[i]) THEN Append(kept[i - 1], q[i]) ELSE kept[i - 1]
  IN kept[Len(q)]

\* Whatever foreign datagrams Receive has rotated to the back, those of the call
\* are received in the order they came, none left out.
ReceivedInOrder == \A s \in Sides : OfCall(queue[s]) = order[s]

\* What a side acknowledges, from any of its threads, the other has sent on the
\* same endpoint.
AcksAreReal ==
  \A s \in Sides :
    \A m \in net[s] \cup {<<call[s].endpoint, queue[s][i]>> : i \in DOMAIN queue[s]} :
      m[2].ack # 0 => <<m[1], m[2].ack>> \in used[s]

\* A side whose record is c has heard the other on endpoint e, where it still is or
\* has been.
HasHeard(c, e) == c.endpoint > e \/ (c.endpoint = e /\ c.last > 0)

\* A side that counts the handshake as done has been heard by the other on that
\* endpoint, even when the two have crossed or tried different ones.
ConnectedIsHeard ==
  \A s \in Sides :
    call[s].at \in {"media", "stopped"} => HasHeard(call[Other(s)], call[s].endpoint)

\* A sequence number is used twice on an endpoint only when the receive loop
\* answered the peer while the send loop was taking one.
ReuseIsARace == reused \subseteq raced

\* What arrives for a running call is received, whatever lies before it: again
\* and again there is nothing of the call left in m_received.
QueuedIsReceived == \A s \in Sides : []<>(order[s] = <<>>)

Started == \A s \in Sides : call[s].at # "idle"

Connected == \A s \in Sides : call[s].at = "media" /\ call[s].endpoint = 1

\* Two sides that start within MaxSkew of each other (they do not become idle
\* again) both get to media on the first endpoint: the retries outlast MaxFaults
\* losses, repeats and delays, and the side that is done first goes on answering
\* the other.
StartedConnects ==
  []<>(Started => Connected \/ \E s \in Sides : call[s].broken \/ call[s].at = "stopped")
=============================================================================
