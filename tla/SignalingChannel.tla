--------------------------- MODULE SignalingChannel ---------------------------
(* The signaling messages of a modern call: EmitMessages and its callers on   *)
(* the way out, HandleIncomingSignaling on the way in, and the layers between *)
(* them and the wire: TgcallsSignalingMessages (JSON), ChannelFrameCodec      *)
(* (several frames in a body), TgcallsSignalingCodec (encryption, sequence    *)
(* number) and TgcallsSignalingEnvelope, which joins them.                    *)
(*                                                                            *)
(* A body is a sequence of cells: a sequence number, a content tag, a payload *)
(* with its length.  A packet is [x, seq, body]: x is the offset into the     *)
(* shared key its msg_key was made with, and only the same offset opens it.   *)
(* Of what InitialSetup and Candidates do, this module has the message that   *)
(* StartIcePhase sends in reply and the latch that ends that; the rest is     *)
(* TgcallsConnection's.                                                       *)
EXTENDS Naturals, Sequences, SequencesExt

CONSTANTS
  IsOutgoing,   \* m_isOutgoing: did this end place the call?
  Users,        \* threads that call SetMuted
  Handlers,     \* threads that bring in signaling data
  PeerBatches,  \* names of what the peer may send ...
  PeerBatch(_), \* ... and the frames of each: a sequence of [tag, text]
  MaxMutes,     \* bound: calls of SetMuted
  MaxPeer,      \* bound: packets the peer sends
  MaxFaults     \* bound: packets lost or delivered twice

ASSUME PeerAssumption ==
  /\ IsOutgoing \in BOOLEAN /\ MaxPeer \in Nat /\ MaxFaults \in Nat
  /\ \A name \in PeerBatches : PeerBatch(name) \in Seq(ToSet(PeerBatch(name)))

VARIABLES
  outgoingSeq,  \* m_outgoingSignalingSeq
  muted,        \* m_muted
  ice,          \* m_peerInitialReceived, whether m_peerCandidates has any, and
                \* m_iceStarted
  thread,       \* where each thread is, with its locals
  toPeer,       \* packets handed to the signaling callback, in order
  toUs,         \* packets of the peer under way, as [packet, id]; the id is
                \* the number of the packet and that of the copy
  peer,         \* the other end: what it sent, saw and was told
  handled,      \* history: the messages dispatched of each packet
  mutes, faults

vars == <<outgoingSeq, muted, ice, thread, toPeer, toUs, peer, handled, mutes,
          faults>>

Threads == Users \cup Handlers

Custom == "custom"   \* kContentTagCustom
Ack == "ack"         \* kContentTagAck
Empty == "empty"     \* kContentTagEmpty

\* The kinds of messages with a handler here; the others are ignored.
InitialSetup == "InitialSetup"
Candidates == "Candidates"
Ping == "Ping"
Pong == "Pong"
MediaState == "MediaState"
Unknown == "Unknown"

Message(type, value) == [type |-> type, value |-> value]

-----------------------------------------------------------------------------
(* TgcallsSignalingMessages: a message is a JSON text of its own type; what   *)
(* is not, or lacks a field its type needs, parses to a message of no type.   *)

Known == {InitialSetup, Candidates, Ping, Pong, MediaState}

\* No text at all.
NoText == [json |-> FALSE, type |-> Unknown, value |-> 0]

Serialize(msg) == [json |-> msg.type \in Known, type |-> msg.type, value |-> msg.value]

\* A text that is no JSON object with a type leaves nothing to read.
ParseJson(text) == text.json

Parse(text) ==
  IF ParseJson(text) THEN Message(text.type, text.value) ELSE Message(Unknown, 0)

-----------------------------------------------------------------------------
(* ChannelFrameCodec: the first frame's number travels outside the body.      *)

SeqCell(seq) == [cell |-> "seq", seq |-> seq]
TagCell(tag) == [cell |-> "tag", tag |-> tag]
PayloadCell(text) == [cell |-> "payload", text |-> text]

FrameCells(frame) ==
  IF frame.tag \in {Ack, Empty}
    THEN <<TagCell(frame.tag)>>
    ELSE <<TagCell(frame.tag), PayloadCell(frame.text)>>

\* Every frame but the first is preceded by its number.
JoinFrames(frames) ==
  FlattenSeq([i \in 1 .. Len(frames) |->
    IF i = 1 THEN FrameCells(frames[i])
    ELSE <<SeqCell(frames[i].seq)>> \o FrameCells(frames[i])])

Tags == {Custom, Ack, Empty}

\* Faulty variant: what follows an unknown tag is scanned all the same.
ScannedOn(body, i) == body[i].cell = "tag"

\* SplitFrames goes from tag to tag; an unknown tag ends the scan, since
\* nothing says how long its frame is.
Scanned(body, i) ==
  /\ body[i].cell = "tag"
  /\ \A j \in 1 .. i - 1 : body[j].cell = "tag" => body[j].tag \in Tags

\* The frame of the tag at i.
FrameAt(outerSeq, body, i) ==
  [seq |-> IF i = 1 THEN outerSeq ELSE body[i - 1].seq,
   tag |-> body[i].tag,
   text |-> IF body[i].tag = Custom THEN body[i + 1].text ELSE NoText]

SplitFrames(outerSeq, body) ==
  FlattenSeq([i \in 1 .. Len(body) |->
    IF Scanned(body, i) THEN <<FrameAt(outerSeq, body, i)>> ELSE << >>])

-----------------------------------------------------------------------------
(* TgcallsSignalingCodec: the two directions use two offsets of the key.      *)

EncryptOffset(outgoing) == IF outgoing THEN 128 ELSE 136
DecryptOffset(outgoing) == IF outgoing THEN 136 ELSE 128

Sealed(outgoing, seq, body) ==
  [x |-> EncryptOffset(outgoing), seq |-> seq, body |-> body]

\* A packet made with the other offset fails the msg_key check.
Opens(outgoing, packet) == packet.x = DecryptOffset(outgoing)

(* TgcallsSignalingEnvelope                                                  *)

\* Frame i of a packet carries the packet's number plus i - 1; the two flag
\* bits are left out, nothing here reads them.
Envelope(outgoing, seq, messages) ==
  Sealed(outgoing, seq, JoinFrames(
    [i \in 1 .. Len(messages) |->
       [seq |-> seq + i - 1, tag |-> Custom, text |-> Serialize(messages[i])]]))

\* The messages in a sequence of frames: those of the custom ones that hold a
\* text.
MessagesOf(frames) ==
  FlattenSeq([i \in 1 .. Len(frames) |->
    IF frames[i].tag = Custom /\ frames[i].text # NoText
      THEN <<Parse(frames[i].text)>> ELSE << >>])

Opened(outgoing, packet) ==
  IF Opens(outgoing, packet) THEN MessagesOf(SplitFrames(packet.seq, packet.body))
  ELSE << >>

-----------------------------------------------------------------------------
(* The way out.  A thread's "then" is where it goes on after EmitMessages.    *)

Idle == [at |-> "idle", batch |-> << >>, seq |-> 0, todo |-> << >>, id |-> <<0, 0>>,
         latch |-> FALSE]

\* SetMuted, its part under the lock; what the device is told is MediaStream's.
SetMuted(t, value) ==
  /\ thread[t] = Idle /\ mutes < MaxMutes
  /\ muted' = value
  /\ mutes' = mutes + 1
  /\ thread' = [thread EXCEPT ![t].at = "state"]
  /\ UNCHANGED <<outgoingSeq, ice, toPeer, toUs, peer, handled, faults>>

\* Faulty variant: the message keeps its default.
EmitMediaStateDefault(t) ==
  /\ thread[t].at = "state"
  /\ thread' = [thread EXCEPT ![t].at = "number",
                              ![t].batch = <<Message(MediaState, FALSE)>>]
  /\ UNCHANGED <<mutes, outgoingSeq, muted, ice, toPeer, toUs, peer, handled,
                 faults>>

\* EmitMediaState reads m_muted after the lock has been released.
EmitMediaState(t) ==
  /\ thread[t].at = "state"
  /\ thread' = [thread EXCEPT ![t].at = "number",
                              ![t].batch = <<Message(MediaState, muted)>>]
  /\ UNCHANGED <<mutes, outgoingSeq, muted, ice, toPeer, toUs, peer, handled,
                 faults>>

\* Faulty variant: the number is taken and the counter left where it was.
TakeNumberAgain(t) ==
  /\ thread[t].at = "number"
  /\ thread' = [thread EXCEPT ![t].at = "emit", ![t].seq = outgoingSeq + 1]
  /\ UNCHANGED <<mutes, outgoingSeq, muted, ice, toPeer, toUs, peer, handled,
                 faults>>

\* EmitMessages takes its number under the lock ...
TakeNumber(t) ==
  /\ thread[t].at = "number"
  /\ outgoingSeq' = outgoingSeq + 1
  /\ thread' = [thread EXCEPT ![t].at = "emit", ![t].seq = outgoingSeq + 1]
  /\ UNCHANGED <<mutes, muted, ice, toPeer, toUs, peer, handled, faults>>

\* ... and encrypts and calls back outside it.
EmitMessages(t) ==
  /\ thread[t].at = "emit"
  /\ toPeer' = Append(toPeer, Envelope(IsOutgoing, thread[t].seq, thread[t].batch))
  /\ thread' = [thread EXCEPT ![t].at = IF thread[t].latch THEN "latch"
                                       ELSE IF t \in Handlers THEN "dispatch" ELSE "idle",
                              ![t].batch = << >>, ![t].seq = 0]
  /\ UNCHANGED <<mutes, outgoingSeq, muted, ice, toUs, peer, handled, faults>>

-----------------------------------------------------------------------------
(* The way in.                                                               *)

\* HandleIncomingSignaling opens a packet.  No number is compared with any
\* other: a packet that comes twice is handled twice.
HandleIncomingSignaling(t, d) ==
  /\ thread[t] = Idle /\ d \in toUs
  /\ toUs' = toUs \ {d}
  /\ thread' = [thread EXCEPT ![t].at = "dispatch", ![t].id = d.id,
                              ![t].todo = Opened(IsOutgoing, d.packet)]
  /\ UNCHANGED <<mutes, outgoingSeq, muted, ice, toPeer, peer, handled, faults>>

\* What a message leads to, and what it leaves behind.
Answer(msg) == IF msg.type = Ping THEN <<Message(Pong, msg.value)>> ELSE << >>

Goto(msg) ==
  CASE msg.type = Ping -> "number"
    [] msg.type \in {InitialSetup, Candidates} -> "ice"
    [] OTHER -> "dispatch"

Noted(msg) ==
  [ice EXCEPT !.initial = @ \/ msg.type = InitialSetup,
              !.candidates = @ \/ msg.type = Candidates]

\* Faulty variant: the packet is done with once a Ping has been answered.
DispatchOne(t) ==
  /\ thread[t].at = "dispatch"
  /\ IF thread[t].todo = << >>
       THEN thread' = [thread EXCEPT ![t] = Idle] /\ UNCHANGED <<handled, ice>>
       ELSE LET msg == Head(thread[t].todo) IN
            /\ handled' = [handled EXCEPT ![thread[t].id] = Append(@, msg)]
            /\ ice' = Noted(msg)
            /\ thread' = [thread EXCEPT
                 ![t].todo = IF msg.type = Ping THEN << >> ELSE Tail(@),
                 ![t].at = Goto(msg), ![t].batch = Answer(msg)]
  /\ UNCHANGED <<mutes, outgoingSeq, muted, toPeer, toUs, peer, faults>>

\* The messages are handled in order; a Ping is answered before the next one.
Dispatch(t) ==
  /\ thread[t].at = "dispatch"
  /\ IF thread[t].todo = << >>
       THEN thread' = [thread EXCEPT ![t] = Idle] /\ UNCHANGED <<handled, ice>>
       ELSE LET msg == Head(thread[t].todo) IN
            /\ handled' = [handled EXCEPT ![thread[t].id] = Append(@, msg)]
            /\ ice' = Noted(msg)
            /\ thread' = [thread EXCEPT
                 ![t].todo = Tail(@), ![t].at = Goto(msg), ![t].batch = Answer(msg)]
  /\ UNCHANGED <<mutes, outgoingSeq, muted, toPeer, toUs, peer, faults>>

\* StartIcePhase, at the end of both handlers: until the latch is set our
\* Candidates go out, each time it comes by with the peer's InitialSetup.
StartIcePhase(t) ==
  /\ thread[t].at = "ice"
  /\ thread' =
       IF ice.initial /\ ~ice.started
         THEN [thread EXCEPT ![t].at = "number", ![t].latch = ice.candidates,
                             ![t].batch = <<Message(Candidates, 0)>>]
         ELSE [thread EXCEPT ![t].at = "dispatch"]
  /\ UNCHANGED <<mutes, outgoingSeq, muted, ice, toPeer, toUs, peer, handled,
                 faults>>

\* The latch, if its snapshot had candidates of the peer.
IceLatch(t) ==
  /\ thread[t].at = "latch"
  /\ ice' = [ice EXCEPT !.started = TRUE]
  /\ thread' = [thread EXCEPT ![t].at = "dispatch", ![t].latch = FALSE]
  /\ UNCHANGED <<mutes, outgoingSeq, muted, toPeer, toUs, peer, handled, faults>>

-----------------------------------------------------------------------------
(* The peer, an implementation of the same protocol, and the servers between  *)
(* (external).  Towards this end packets may overtake each other, be lost or  *)
(* come twice; towards the peer the order is kept, so that what is out of     *)
(* order there was sent so.                                                   *)

\* What a batch of the peer asks to have handled: its messages in their
\* order, up to a tag that nobody knows.
Wanted(batch) ==
  LET known == {n \in 0 .. Len(batch) :
                  \A i \in 1 .. n : batch[i].tag \in Tags}
      upTo == CHOOSE n \in known : \A m \in known : m <= n
  IN MessagesOf(SubSeq(batch, 1, upTo))

\* The peer's frames, acknowledgements and unknown tags among them.
PeerSends(name) ==
  LET batch == PeerBatch(name)
      frames == [i \in 1 .. Len(batch) |->
                   [seq |-> peer.sent + i, tag |-> batch[i].tag,
                    text |-> batch[i].text]]
  IN /\ Len(peer.wanted) < MaxPeer
     /\ toUs' = toUs \cup
          {[packet |-> Sealed(~IsOutgoing, peer.sent + 1, JoinFrames(frames)),
            id |-> <<Len(peer.wanted) + 1, 0>>]}
     /\ peer' = [peer EXCEPT !.sent = @ + Len(batch), !.wanted = Append(@, Wanted(batch))]
     /\ UNCHANGED <<mutes, outgoingSeq, muted, ice, thread, toPeer, handled, faults>>

PeerReceives ==
  LET got == Opened(~IsOutgoing, Head(toPeer))
      Of(type) == {i \in DOMAIN got : got[i].type = type}
  IN /\ toPeer # << >>
     /\ toPeer' = Tail(toPeer)
     /\ peer' = [peer EXCEPT
          !.numbers = @ \cup {Head(toPeer).seq},
          !.pongs = @ \cup {got[i].value : i \in Of(Pong)},
          !.muted = IF Of(MediaState) = {} THEN @ ELSE got[Max(Of(MediaState))].value]
     /\ UNCHANGED <<mutes, outgoingSeq, muted, ice, thread, toUs, handled, faults>>

Lose(d) ==
  /\ d \in toUs /\ faults < MaxFaults
  /\ faults' = faults + 1
  /\ toUs' = toUs \ {d}
  /\ UNCHANGED <<mutes, outgoingSeq, muted, ice, thread, toPeer, peer, handled>>

\* The copy is of the same packet: the history tells the two apart by its id.
Repeat(d) ==
  /\ d \in toUs /\ faults < MaxFaults
  /\ faults' = faults + 1
  /\ toUs' = toUs \cup {[packet |-> d.packet, id |-> <<d.id[1], faults + 1>>]}
  /\ UNCHANGED <<mutes, outgoingSeq, muted, ice, thread, toPeer, peer, handled>>

-----------------------------------------------------------------------------
Ids == (1 .. MaxPeer) \X (0 .. MaxFaults)

\* Start has returned, and the InitialSetup it sends with the number 1 has come
\* to the peer: no signaling and no user reach the connection before.
Init ==
  /\ outgoingSeq = 1 /\ muted = FALSE
  /\ ice = [initial |-> FALSE, candidates |-> FALSE, started |-> FALSE]
  /\ thread = [t \in Threads |-> Idle]
  /\ toPeer = << >> /\ toUs = {} /\ handled = [id \in Ids |-> << >>]
  /\ mutes = 0 /\ faults = 0
  /\ peer = [sent |-> 0, wanted |-> << >>, muted |-> FALSE, pongs |-> {},
             numbers |-> {1}]

Step(t) ==
  \/ EmitMediaState(t) \/ TakeNumber(t) \/ EmitMessages(t)
  \/ Dispatch(t) \/ StartIcePhase(t) \/ IceLatch(t)

Receive == \E t \in Handlers, d \in toUs : HandleIncomingSignaling(t, d)

\* What goes on by itself once there is something to do.
Work == (\E t \in Threads : Step(t)) \/ PeerReceives \/ Receive

Next ==
  \/ Work
  \/ \E t \in Users : SetMuted(t, ~muted)   \* the button toggles
  \/ \E name \in PeerBatches : PeerSends(name)
  \/ \E d \in toUs : Lose(d) \/ Repeat(d)

Spec == Init /\ [][Next]_vars

\* Threads of the process run, and what is on the way arrives; the user and
\* the peer need not do anything.  No thread can run for ever, so that it is
\* enough that as long as there is work some of it is done.
FairSpec == Spec /\ WF_vars(Work)

-----------------------------------------------------------------------------
(* Properties                                                                *)

\* What has been dispatched of a packet is, in order and one for one, what the
\* peer put into it, whatever other threads handle meanwhile.
HandledAsSent ==
  \A id \in Ids :
    handled[id] # << >> =>
      id[1] <= Len(peer.wanted) /\ IsPrefix(handled[id], peer.wanted[id[1]])

\* Two packets never carry one number: with the same messages they would be
\* the same packet, which a peer that drops what it has had would not handle.
NumbersDistinct ==
  /\ \A i \in DOMAIN toPeer : toPeer[i].seq \notin peer.numbers
  /\ \A i, j \in DOMAIN toPeer : toPeer[i].seq = toPeer[j].seq => i = j

Answered(n) ==
  \A i \in DOMAIN peer.wanted[n] :
    LET msg == peer.wanted[n][i] IN
    msg.type = Ping => msg.value \in peer.pongs

\* Every Ping that is not lost is answered by a Pong of its id.
PingIsAnswered ==
  \A n \in 1 .. MaxPeer :
    n \in DOMAIN peer.wanted ~>
      faults > 0 \/ (n \in DOMAIN peer.wanted /\ Answered(n))

\* When the user has stopped pressing the button, the peer is left showing
\* the state the call has.
MuteIsShown == <>[](peer.muted = muted)
=============================================================================
