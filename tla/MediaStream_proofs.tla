--------------------------- MODULE MediaStream_proofs ---------------------------
(***************************************************************************)
(* Proofs about MediaStream, for any queues, routes, receivers, bounds and *)
(* faults: KeystreamOnce and MuteTakesEffect.                              *)
(*                                                                         *)
(* The argument for the first: each packet has used up a frame of its own, *)
(* and frames are numbered upwards, so that m_outgoingSeq stays below the  *)
(* number of the frame at hand until it wraps (CounterInv); and numbers    *)
(* that only rise never move the rollover counter (SealedInv).  Both last  *)
(* while the pump is Inside the first turn of the numbers; it never comes  *)
(* back, and what it seals beyond is no frame of the first turn.  There    *)
(* RolledOver misses the wrap, and the keystreams are used again.          *)
(***************************************************************************)
EXTENDS MediaStream, SequenceTheorems, TLAPS

Frames == [n : Nat, voiced : BOOLEAN]

\* The parts of the state that matter here; what the render queue holds does not.
TypeInv ==
  /\ captured \in Nat
  /\ nextSeq \in Nat
  /\ outgoing \in [roc : Nat, last : Nat, has : BOOLEAN]
  /\ pump \in [at : {"none", "top", "read", "seal", "advance", "exited"}, seq : Nat,
               frame : Frames]
  /\ muted \in BOOLEAN
  /\ {device.exists, device.open, device.muted} \subseteq BOOLEAN
  /\ device.mic \in Seq(Nat)
  /\ device = [exists |-> device.exists, open |-> device.open, muted |-> device.muted,
               mic |-> device.mic, render |-> device.render]

\* Frames wait in the order of their numbers, after the one the pump has.
MicInv ==
  /\ pump.frame.n <= captured
  /\ \A i \in 1 .. Len(device.mic) :
       pump.frame.n < device.mic[i] /\ device.mic[i] <= captured
  /\ \A i, j \in 1 .. Len(device.mic) : i < j => device.mic[i] < device.mic[j]

\* The frame at hand is of the first turn of the sequence numbers.
Inside == pump.frame.n <= SeqSpan

\* Every packet so far has a sequence number of its own and the first counter.
SealedInv ==
  Inside =>
    /\ outgoing.roc = 0
    /\ outgoing.has => \E p \in sealed : p.seq = outgoing.last
    /\ \A p \in sealed : p.ssrc = LocalSsrc /\ p.roc = 0 /\ p.seq \in Nat
    /\ \A p, q \in sealed : p.seq = q.seq => p = q

SealedBelow(n) == \A p \in sealed : p.seq < n

\* All frames of the first turn have been used up.
Spent == pump.frame.n >= SeqSpan

CounterInv ==
  Inside =>
    /\ pump.at \in {"read", "seal", "advance"} => pump.seq = nextSeq
    /\ pump.at \in {"none", "top", "read", "exited"} =>
         Spent \/ (nextSeq <= pump.frame.n /\ SealedBelow(nextSeq))
    /\ pump.at = "seal" => nextSeq < pump.frame.n /\ SealedBelow(nextSeq)
    /\ pump.at = "advance" => nextSeq < pump.frame.n /\ SealedBelow(nextSeq + 1)

\* The pump begins when StartAudioPhase starts it.
PhaseInv == phase \in {"idle", "keyed", "created", "opened"} => pump.at = "none"

IInv == TypeInv /\ MicInv /\ SealedInv /\ CounterInv

\* The parts of the type invariant that the counters need.
LEMMA ShapeOf ==
  ASSUME TypeInv
  PROVE  /\ pump.at \in {"none", "top", "read", "seal", "advance", "exited"}
         /\ pump.seq \in Nat /\ pump.frame \in Frames /\ pump.frame.n \in Nat
         /\ captured \in Nat /\ nextSeq \in Nat
BY StreamAssumption DEF TypeInv, Frames

\* The invariant holds before the call is keyed.
LEMMA InitHolds == Init => IInv
<1> SUFFICES ASSUME Init PROVE IInv
  OBVIOUS
<1>1. pump = [at |-> "none", seq |-> 0, frame |-> NoFrame]
      /\ NoFrame \in Frames /\ NoFrame.n = 0
  BY DEF Init, NoFrame, Frames
<1>2. device.mic = << >> /\ sealed = {} /\ captured = 0 /\ nextSeq = 0
  BY DEF Init
<1>3. TypeInv
  <2>1. device = [exists |-> FALSE, open |-> FALSE, muted |-> FALSE, mic |-> << >>,
                  render |-> << >>]
    BY DEF Init
  <2>2. /\ {device.exists, device.open, device.muted} \subseteq BOOLEAN
        /\ device = [exists |-> device.exists, open |-> device.open, muted |-> device.muted,
                     mic |-> device.mic, render |-> device.render]
    BY <2>1
  <2>3. device.mic \in Seq(Nat)
    BY <1>2, EmptySeq
  <2>4. outgoing \in [roc : Nat, last : Nat, has : BOOLEAN] /\ muted \in BOOLEAN
    BY DEF Init
  <2>5. captured \in Nat /\ nextSeq \in Nat
    BY <1>2
  <2>6. pump \in [at : {"none", "top", "read", "seal", "advance", "exited"}, seq : Nat,
                  frame : Frames]
    BY <1>1
  <2> QED BY <2>2, <2>3, <2>4, <2>5, <2>6 DEF TypeInv
<1>4. MicInv
  BY <1>1, <1>2 DEF MicInv
<1>5. SealedInv
  BY <1>2 DEF Init, SealedInv
<1>6. CounterInv
  BY <1>1, <1>2 DEF CounterInv, SealedBelow
<1> QED BY <1>3, <1>4, <1>5, <1>6 DEF IInv

\* A step that is not the pump's, the microphone's or the keys' keeps it.
LEMMA OthersKeep ==
  ASSUME IInv, UNCHANGED <<captured, nextSeq, outgoing, pump, sealed>>,
         muted' \in BOOLEAN,
         {device'.exists, device'.open, device'.muted} \subseteq BOOLEAN,
         device' = [exists |-> device'.exists, open |-> device'.open, muted |-> device'.muted,
                    mic |-> device'.mic, render |-> device'.render],
         device'.mic = device.mic \/ device'.mic = << >>
  PROVE  IInv'
<1>1. device'.mic \in Seq(Nat)
  BY EmptySeq DEF IInv, TypeInv
<1>2. TypeInv'
  BY <1>1 DEF IInv, TypeInv
<1>3. MicInv'
  BY DEF IInv, MicInv
<1>4. SealedInv'
  BY DEF IInv, SealedInv, Inside
<1>5. CounterInv'
  BY DEF IInv, CounterInv, SealedBelow, Spent, Inside
<1> QED BY <1>2, <1>3, <1>4, <1>5 DEF IInv

\* What touches neither counters nor packets keeps the invariant.
LEMMA UnchangedKeeps ==
  ASSUME IInv, UNCHANGED <<captured, nextSeq, outgoing, pump, sealed, muted, device>>
  PROVE  IInv'
<1>1. TypeInv' /\ MicInv'
  BY DEF IInv, TypeInv, MicInv
<1>2. SealedInv' /\ CounterInv'
  BY DEF IInv, SealedInv, CounterInv, SealedBelow, Spent, Inside
<1> QED BY <1>1, <1>2 DEF IInv

\* The device opens, plays, is muted and closes.
LEMMA DevicePreserves ==
  ASSUME IInv, CreateDevice \/ OpenDevice \/ FillRenderSamples \/ StopTeardown
                 \/ (\E value \in BOOLEAN : SetMuted(value))
                 \/ (\E r \in Receivers : OnRtpPacket(r))
  PROVE  IInv'
<1>1. UNCHANGED <<captured, nextSeq, outgoing, pump, sealed>> /\ muted \in BOOLEAN
  BY DEF IInv, TypeInv, CreateDevice, OpenDevice, FillRenderSamples, StopTeardown, SetMuted,
         OnRtpPacket
<1>2. /\ {device.exists, device.open, device.muted} \subseteq BOOLEAN
      /\ device = [exists |-> device.exists, open |-> device.open, muted |-> device.muted,
                   mic |-> device.mic, render |-> device.render]
  BY DEF IInv, TypeInv
<1>3. CASE UNCHANGED <<device, muted>>
  BY <1>1, <1>3, UnchangedKeeps
<1>4. CASE device' = [device EXCEPT !.exists = TRUE, !.muted = FALSE] /\ UNCHANGED muted
  BY <1>1, <1>2, <1>4, OthersKeep
<1>5. ASSUME NEW x \in BOOLEAN, device' = [device EXCEPT !.open = x], UNCHANGED muted
      PROVE  IInv'
  BY <1>1, <1>2, <1>5, OthersKeep
<1>6. ASSUME NEW x, device' = [device EXCEPT !.render = x], UNCHANGED muted
      PROVE  IInv'
  BY <1>1, <1>2, <1>6, OthersKeep
<1>7. ASSUME NEW value \in BOOLEAN, muted' = value,
             device' = device \/ device' = [device EXCEPT !.muted = value]
      PROVE  IInv'
  BY <1>1, <1>2, <1>7, OthersKeep
<1>8. CASE device' = [exists |-> FALSE, open |-> FALSE, muted |-> FALSE,
                      mic |-> << >>, render |-> << >>] /\ UNCHANGED muted
  BY <1>1, <1>8, OthersKeep
<1>9. CASE CreateDevice
  BY <1>4, <1>9 DEF CreateDevice
<1>10. CASE OpenDevice
  BY <1>5, <1>10 DEF OpenDevice
<1>11. CASE FillRenderSamples
  BY <1>6, <1>11 DEF FillRenderSamples
<1>12. CASE StopTeardown
  BY <1>8, <1>12 DEF StopTeardown
<1>13. CASE \E value \in BOOLEAN : SetMuted(value)
  BY <1>7, <1>13 DEF SetMuted
<1>14. CASE \E r \in Receivers : OnRtpPacket(r)
  <2>1. UNCHANGED muted /\ (device' = device \/ \E x : device' = [device EXCEPT !.render = x])
    BY <1>14 DEF OnRtpPacket
  <2> QED BY <2>1, <1>3, <1>6
<1> QED BY <1>9, <1>10, <1>11, <1>12, <1>13, <1>14

-------------------------------------------------------------------------------
(* The microphone and the pump.                                             *)

\* What Keep leaves of the queue is its end.
LEMMA KeepProperties ==
  ASSUME NEW q \in Seq(Nat), NEW depth \in Nat \ {0}
  PROVE  /\ Keep(q, depth) \in Seq(Nat)
         /\ Len(Keep(q, depth)) <= Len(q)
         /\ \A i \in 1 .. Len(Keep(q, depth)) :
              /\ i + (Len(q) - Len(Keep(q, depth))) \in 1 .. Len(q)
              /\ Keep(q, depth)[i] = q[i + (Len(q) - Len(Keep(q, depth)))]
<1>1. CASE Len(q) < depth
  <2>1. Keep(q, depth) = q
    BY <1>1 DEF Keep
  <2> QED BY <2>1
<1>2. CASE Len(q) >= depth
  <2> DEFINE m == Len(q) - depth + 2
             k == SubSeq(q, m, Len(q))
  <2>1. m \in Int /\ m >= 2 /\ m <= Len(q) + 1
    BY <1>2
  <2>2. /\ k \in Seq(Nat)
        /\ Len(k) = IF m <= Len(q) THEN Len(q) - m + 1 ELSE 0
        /\ \A i \in 1 .. Len(q) - m + 1 : k[i] = q[m + i - 1]
    BY <2>1, SubSeqProperties
  <2>3. Keep(q, depth) = k
    BY <1>2 DEF Keep
  <2> HIDE DEF m, k
  <2>4. Len(k) = Len(q) - m + 1
    BY <2>1, <2>2
  <2>5. ASSUME NEW i \in 1 .. Len(k)
        PROVE  i + (Len(q) - Len(k)) \in 1 .. Len(q) /\ k[i] = q[i + (Len(q) - Len(k))]
    <3>1. i + (Len(q) - Len(k)) = m + i - 1 /\ i + (Len(q) - Len(k)) \in 1 .. Len(q)
      BY <2>1, <2>4
    <3> QED BY <2>2, <2>4, <3>1
  <2>6. Len(k) <= Len(q)
    BY <2>1, <2>4
  <2> QED BY <2>2, <2>3, <2>5, <2>6
<1>3. Len(q) < depth \/ Len(q) >= depth
  BY LenProperties
<1> QED BY <1>1, <1>2, <1>3, Zenon

\* The microphone hands over a frame.
LEMMA CapturePreserves ==
  ASSUME IInv, PushCaptureSamples
  PROVE  IInv'
<1> DEFINE c == captured + 1
           k == Keep(device.mic, MicDepth)
           mic == Append(k, c)
<1>1. /\ device' = [device EXCEPT !.mic = mic] /\ captured' = c
      /\ UNCHANGED <<nextSeq, outgoing, pump, sealed, muted>>
  BY DEF PushCaptureSamples
<1>2. /\ device.mic \in Seq(Nat) /\ captured \in Nat /\ pump.frame.n \in Nat
      /\ c \in Nat /\ c = captured + 1
      /\ device = [exists |-> device.exists, open |-> device.open, muted |-> device.muted,
                   mic |-> device.mic, render |-> device.render]
  <2>1. /\ device.mic \in Seq(Nat) /\ captured \in Nat /\ pump.frame.n \in Nat
        /\ device = [exists |-> device.exists, open |-> device.open, muted |-> device.muted,
                     mic |-> device.mic, render |-> device.render]
    BY ShapeOf DEF IInv, TypeInv
  <2> QED BY <1>1, <2>1, StreamAssumption
<1>3. /\ k \in Seq(Nat)
      /\ \A i \in 1 .. Len(k) : /\ i + (Len(device.mic) - Len(k)) \in 1 .. Len(device.mic)
                                /\ k[i] = device.mic[i + (Len(device.mic) - Len(k))]
  BY <1>2, KeepProperties, StreamAssumption
<1> HIDE DEF k, c
<1>4. /\ mic \in Seq(Nat) /\ Len(mic) = Len(k) + 1
      /\ \A i \in 1 .. Len(k) : mic[i] = k[i]
      /\ mic[Len(k) + 1] = c
  BY <1>2, <1>3, AppendProperties
<1> HIDE DEF mic
<1>5. /\ device'.mic = mic
      /\ UNCHANGED <<device.exists, device.open, device.muted, device.render>>
      /\ device' = [exists |-> device'.exists, open |-> device'.open, muted |-> device'.muted,
                    mic |-> device'.mic, render |-> device'.render]
  BY <1>1, <1>2
<1>6. TypeInv'
  BY <1>1, <1>2, <1>4, <1>5 DEF IInv, TypeInv
<1>7. \A i \in 1 .. Len(k) : pump.frame.n < k[i] /\ k[i] <= captured /\ k[i] \in Nat
  BY <1>2, <1>3, ElementOfSeq DEF IInv, MicInv
<1>8. \A i, j \in 1 .. Len(k) : i < j => k[i] < k[j]
  <2> SUFFICES ASSUME NEW i \in 1 .. Len(k), NEW j \in 1 .. Len(k), i < j
               PROVE  k[i] < k[j]
    OBVIOUS
  <2>1. i + (Len(device.mic) - Len(k)) < j + (Len(device.mic) - Len(k))
    BY <1>2, <1>3
  <2> QED BY <1>3, <2>1 DEF IInv, MicInv
<1>9. MicInv'
  <2>1. pump'.frame.n <= captured'
    BY <1>1, <1>2 DEF IInv, MicInv
  <2>2. \A i \in 1 .. Len(mic) : pump.frame.n < mic[i] /\ mic[i] <= c
    <3> SUFFICES ASSUME NEW i \in 1 .. Len(mic)
                 PROVE  pump.frame.n < mic[i] /\ mic[i] <= c
      OBVIOUS
    <3>1. CASE i = Len(k) + 1
      BY <1>2, <1>4, <3>1 DEF IInv, MicInv
    <3>2. CASE i \in 1 .. Len(k)
      BY <1>2, <1>4, <1>7, <3>2
    <3> QED BY <1>3, <1>4, <3>1, <3>2
  <2>3. \A i, j \in 1 .. Len(mic) : i < j => mic[i] < mic[j]
    <3> SUFFICES ASSUME NEW i \in 1 .. Len(mic), NEW j \in 1 .. Len(mic), i < j
                 PROVE  mic[i] < mic[j]
      OBVIOUS
    <3>1. i \in 1 .. Len(k)
      BY <1>3, <1>4
    <3>2. CASE j = Len(k) + 1
      BY <1>2, <1>4, <1>7, <3>1, <3>2
    <3>3. CASE j \in 1 .. Len(k)
      BY <1>4, <1>8, <3>1, <3>3
    <3> QED BY <1>3, <1>4, <3>2, <3>3
  <2> QED BY <1>1, <1>5, <2>1, <2>2, <2>3 DEF MicInv
<1>10. SealedInv'
  BY <1>1 DEF IInv, SealedInv, Inside
<1>11. CounterInv'
  BY <1>1 DEF IInv, CounterInv, SealedBelow, Spent, Inside
<1> QED BY <1>6, <1>9, <1>10, <1>11 DEF IInv

\* A frame that is read is the first of the queue.
LEMMA ReadPreserves ==
  ASSUME IInv, PumpRead
  PROVE  IInv'
<1>1. /\ UNCHANGED <<captured, nextSeq, outgoing, sealed, muted>> /\ pump.at = "read"
  BY DEF PumpRead
<1>2. /\ device.mic \in Seq(Nat) /\ captured \in Nat
      /\ pump.frame.n \in Nat /\ pump.seq \in Nat /\ nextSeq \in Nat
      /\ device = [exists |-> device.exists, open |-> device.open, muted |-> device.muted,
                   mic |-> device.mic, render |-> device.render]
      /\ device.muted \in BOOLEAN /\ muted \in BOOLEAN
      /\ SeqSpan \in Nat
  BY ShapeOf, StreamAssumption DEF IInv, TypeInv
<1>3. CASE pump' = [pump EXCEPT !.at = "top"] /\ UNCHANGED device
  <2>1. pump' \in [at : {"none", "top", "read", "seal", "advance", "exited"}, seq : Nat,
                   frame : Frames]
        /\ pump'.at = "top" /\ pump'.frame = pump.frame
    BY <1>3 DEF IInv, TypeInv
  <2>2. TypeInv'
    BY <1>1, <1>3, <2>1 DEF IInv, TypeInv
  <2>3. MicInv' /\ SealedInv'
    BY <1>1, <1>3, <2>1 DEF IInv, MicInv, SealedInv, Inside
  <2>4. CounterInv'
    BY <1>1, <2>1 DEF IInv, CounterInv, SealedBelow, Spent, Inside
  <2> QED BY <2>2, <2>3, <2>4 DEF IInv
<1>4. CASE device.mic # << >>
           /\ pump' = [pump EXCEPT !.at = "seal",
                         !.frame = [n |-> Head(device.mic), voiced |-> ~device.muted]]
           /\ device' = [device EXCEPT !.mic = Tail(@)]
  <2> DEFINE t == Tail(device.mic)
             f == [n |-> Head(device.mic), voiced |-> ~device.muted]
  <2>1. /\ t \in Seq(Nat) /\ Len(t) = Len(device.mic) - 1
        /\ \A i \in 1 .. Len(t) : t[i] = device.mic[i + 1]
        /\ Len(device.mic) \in Nat \ {0} /\ Head(device.mic) = device.mic[1]
    BY <1>2, <1>4, HeadTailProperties
  <2>2. f \in Frames /\ f.n = device.mic[1]
    BY <1>2, <1>4, <2>1 DEF Frames
  <2>3. device' = [device EXCEPT !.mic = t] /\ pump' = [pump EXCEPT !.at = "seal", !.frame = f]
    BY <1>4
  <2> HIDE DEF t, f
  <2>4. /\ device'.mic = t
        /\ UNCHANGED <<device.exists, device.open, device.muted, device.render>>
        /\ device' = [exists |-> device'.exists, open |-> device'.open, muted |-> device'.muted,
                      mic |-> device'.mic, render |-> device'.render]
    BY <1>2, <2>3
  <2>5. /\ pump' \in [at : {"none", "top", "read", "seal", "advance", "exited"}, seq : Nat,
                      frame : Frames]
        /\ pump'.at = "seal" /\ pump'.frame = f /\ pump'.seq = pump.seq
    BY <1>2, <2>2, <2>3 DEF IInv, TypeInv
  <2>6. pump.frame.n < device.mic[1] /\ device.mic[1] <= captured /\ device.mic[1] \in Nat
    <3>1. 1 \in 1 .. Len(device.mic)
      BY <2>1
    <3> QED BY <1>2, <3>1, ElementOfSeq DEF IInv, MicInv
  <2>7. TypeInv'
    BY <1>1, <2>1, <2>4, <2>5 DEF IInv, TypeInv
  <2>8. MicInv'
    <3>1. \A i \in 1 .. Len(t) : i + 1 \in 1 .. Len(device.mic) /\ 1 \in 1 .. Len(device.mic)
            /\ 1 < i + 1
      BY <2>1
    <3>2. \A i \in 1 .. Len(t) : f.n < t[i] /\ t[i] <= captured
      BY <2>1, <2>2, <3>1 DEF IInv, MicInv
    <3>3. \A i, j \in 1 .. Len(t) : i < j => t[i] < t[j]
      <4> SUFFICES ASSUME NEW i \in 1 .. Len(t), NEW j \in 1 .. Len(t), i < j
                   PROVE  t[i] < t[j]
        OBVIOUS
      <4>1. i + 1 < j + 1
        OBVIOUS
      <4> QED BY <2>1, <3>1, <4>1 DEF IInv, MicInv
    <3> QED BY <1>1, <2>2, <2>4, <2>5, <2>6, <3>2, <3>3 DEF MicInv
  <2>9. Inside' => Inside /\ ~Spent
    BY <1>2, <2>2, <2>5, <2>6 DEF Inside, Spent
  <2>10. SealedInv'
    BY <1>1, <2>9 DEF IInv, SealedInv
  <2>11. Inside' => nextSeq <= pump.frame.n /\ SealedBelow(nextSeq) /\ pump.seq = nextSeq
    BY <1>1, <2>9 DEF IInv, CounterInv
  <2>12. Inside' => nextSeq < f.n
    BY <1>2, <2>2, <2>6, <2>11
  <2>13. CounterInv'
    BY <1>1, <2>5, <2>11, <2>12 DEF CounterInv, SealedBelow
  <2> QED BY <2>7, <2>8, <2>10, <2>13 DEF IInv
<1> QED BY <1>3, <1>4 DEF PumpRead

\* A step of the pump that leaves frame and queue alone.
LEMMA PumpMoves ==
  ASSUME IInv, NEW at \in {"none", "top", "read", "seal", "advance", "exited"},
         NEW seq \in Nat, pump' = [pump EXCEPT !.at = at, !.seq = seq],
         nextSeq' \in Nat, outgoing' \in [roc : Nat, last : Nat, has : BOOLEAN],
         SealedInv', UNCHANGED <<captured, muted, device>>,
         Inside =>
           /\ at \in {"read", "seal", "advance"} => seq = nextSeq'
           /\ at \in {"none", "top", "read", "exited"} =>
                Spent \/ (nextSeq' <= pump.frame.n /\ \A p \in sealed' : p.seq < nextSeq')
           /\ at = "seal" => nextSeq' < pump.frame.n /\ \A p \in sealed' : p.seq < nextSeq'
           /\ at = "advance" =>
                nextSeq' < pump.frame.n /\ \A p \in sealed' : p.seq < nextSeq' + 1
  PROVE  IInv'
<1>1. /\ pump' \in [at : {"none", "top", "read", "seal", "advance", "exited"}, seq : Nat,
                    frame : Frames]
      /\ pump'.at = at /\ pump'.frame = pump.frame /\ pump'.seq = seq
  BY DEF IInv, TypeInv
<1>2. TypeInv'
  BY <1>1 DEF IInv, TypeInv
<1>3. MicInv'
  BY <1>1 DEF IInv, MicInv
<1>4. CounterInv'
  BY <1>1 DEF CounterInv, SealedBelow, Spent, Inside
<1> QED BY <1>2, <1>3, <1>4 DEF IInv

\* The pump takes its copies of the members.
LEMMA SnapshotPreserves ==
  ASSUME IInv, PumpSnapshot
  PROVE  IInv'
<1>1. /\ UNCHANGED <<captured, muted, device, nextSeq, outgoing, sealed>> /\ pump.at = "top"
      /\ nextSeq \in Nat /\ pump.seq \in Nat
      /\ outgoing \in [roc : Nat, last : Nat, has : BOOLEAN]
  BY ShapeOf DEF PumpSnapshot, IInv, TypeInv
<1>2. SealedInv'
  <2>1. UNCHANGED pump.frame
    BY DEF IInv, TypeInv, PumpSnapshot
  <2> QED BY <1>1, <2>1 DEF IInv, SealedInv, Inside
<1>3. Inside => Spent \/ (nextSeq <= pump.frame.n /\ \A p \in sealed : p.seq < nextSeq)
  BY <1>1 DEF IInv, CounterInv, SealedBelow
<1>4. CASE pump' = [pump EXCEPT !.at = "read", !.seq = nextSeq]
  BY <1>1, <1>2, <1>3, <1>4, PumpMoves
<1>5. CASE pump' = [pump EXCEPT !.at = "exited"]
  <2>1. pump' = [pump EXCEPT !.at = "exited", !.seq = pump.seq]
    BY <1>5 DEF IInv, TypeInv
  <2> QED BY <1>1, <1>2, <1>3, <2>1, PumpMoves
<1> QED BY <1>4, <1>5 DEF PumpSnapshot

\* The encoder refuses a frame, which uses up no number.
LEMMA EncodeFailsPreserves ==
  ASSUME IInv, PumpEncodeFails
  PROVE  IInv'
<1>1. /\ UNCHANGED <<captured, muted, device, nextSeq, outgoing, sealed>> /\ pump.at = "seal"
      /\ nextSeq \in Nat /\ pump.seq \in Nat /\ pump.frame.n \in Nat
      /\ outgoing \in [roc : Nat, last : Nat, has : BOOLEAN]
  BY ShapeOf DEF PumpEncodeFails, IInv, TypeInv
<1>2. SealedInv'
  <2>1. UNCHANGED pump.frame
    BY DEF IInv, TypeInv, PumpEncodeFails
  <2> QED BY <1>1, <2>1 DEF IInv, SealedInv, Inside
<1>3. Inside => nextSeq <= pump.frame.n /\ \A p \in sealed : p.seq < nextSeq
  BY <1>1 DEF IInv, CounterInv, SealedBelow
<1>4. pump' = [pump EXCEPT !.at = "top", !.seq = pump.seq]
  BY DEF PumpEncodeFails, IInv, TypeInv
<1> QED BY <1>1, <1>2, <1>3, <1>4, PumpMoves

\* The pump starts.
LEMMA StartPumpPreserves ==
  ASSUME IInv, StartPump, pump.at = "none"
  PROVE  IInv'
<1>1. /\ UNCHANGED <<captured, muted, device, nextSeq, outgoing, sealed>>
      /\ nextSeq \in Nat /\ pump.seq \in Nat /\ pump.frame.n \in Nat
      /\ outgoing \in [roc : Nat, last : Nat, has : BOOLEAN]
  BY ShapeOf DEF StartPump, IInv, TypeInv
<1>2. SealedInv'
  <2>1. UNCHANGED pump.frame
    BY DEF IInv, TypeInv, StartPump
  <2> QED BY <1>1, <2>1 DEF IInv, SealedInv, Inside
<1>3. Inside => Spent \/ (nextSeq <= pump.frame.n /\ \A p \in sealed : p.seq < nextSeq)
  BY DEF IInv, CounterInv, SealedBelow
<1>4. CASE pump' = [pump EXCEPT !.at = "top"]
  <2>1. pump' = [pump EXCEPT !.at = "top", !.seq = pump.seq]
    BY <1>4 DEF IInv, TypeInv
  <2> QED BY <1>1, <1>2, <1>3, <2>1, PumpMoves
<1>5. CASE UNCHANGED pump
  BY <1>1, <1>5, UnchangedKeeps
<1> QED BY <1>4, <1>5 DEF StartPump

\* The number is above all that were used, so the rollover counter stays.
LEMMA SealPreserves ==
  ASSUME IInv, PumpSeal
  PROVE  IInv'
<1>1. /\ UNCHANGED <<captured, muted, device, nextSeq>> /\ pump.at = "seal"
      /\ nextSeq \in Nat /\ pump.seq \in Nat /\ pump.frame.n \in Nat
      /\ outgoing \in [roc : Nat, last : Nat, has : BOOLEAN]
      /\ outgoing.last \in Nat /\ outgoing.roc \in Nat
  BY ShapeOf DEF PumpSeal, IInv, TypeInv
<1>2. pump' = [pump EXCEPT !.at = "advance", !.seq = pump.seq] /\ UNCHANGED pump.frame
  BY DEF PumpSeal, IInv, TypeInv
<1>3. outgoing' \in [roc : Nat, last : Nat, has : BOOLEAN]
  <2>1. outgoing' = [roc |-> IF RolledOver(outgoing, pump.seq)
                              THEN outgoing.roc + 1 ELSE outgoing.roc,
                     last |-> pump.seq, has |-> TRUE]
    BY DEF PumpSeal, Tracked
  <2> QED BY <1>1, <2>1
<1>4. CASE ~Inside
  <2>1. SealedInv'
    BY <1>2, <1>4 DEF SealedInv, Inside
  <2> QED BY <1>1, <1>2, <1>3, <1>4, <2>1, PumpMoves
<1>5. CASE Inside
  <2>1. /\ nextSeq < pump.frame.n /\ pump.seq = nextSeq
        /\ \A p \in sealed : p.seq < nextSeq
    BY <1>1, <1>5 DEF IInv, CounterInv, SealedBelow
  <2>2. ~RolledOver(outgoing, pump.seq)
    <3>1. outgoing.has => outgoing.last < pump.seq
      BY <1>5, <2>1 DEF IInv, SealedInv
    <3> QED BY <1>1, <3>1 DEF RolledOver
  <2>3. outgoing' = [roc |-> outgoing.roc, last |-> pump.seq, has |-> TRUE]
    BY <2>2 DEF PumpSeal, Tracked
  <2> DEFINE q == Sealed(outgoing, LocalSsrc, pump.seq, pump.frame)
  <2>4. q.ssrc = LocalSsrc /\ q.roc = 0 /\ q.seq = pump.seq
    BY <1>5, <2>2 DEF Sealed, Tracked, IInv, SealedInv
  <2>5. sealed' = sealed \cup {q}
    BY DEF PumpSeal
  <2> HIDE DEF q
  <2>6. SealedInv'
    <3>1. outgoing'.roc = 0 /\ outgoing'.last = pump.seq
      BY <1>5, <2>3 DEF IInv, SealedInv
    <3>2. \A p \in sealed' : p.ssrc = LocalSsrc /\ p.roc = 0 /\ p.seq \in Nat
      BY <1>1, <1>5, <2>4, <2>5 DEF IInv, SealedInv
    <3>3. \A p \in sealed : p.seq # q.seq
      BY <1>1, <1>5, <2>1, <2>4 DEF IInv, SealedInv
    <3>4. \A p, r \in sealed' : p.seq = r.seq => p = r
      BY <1>5, <2>5, <3>3 DEF IInv, SealedInv
    <3> QED BY <2>4, <2>5, <3>1, <3>2, <3>4 DEF SealedInv
  <2>7. \A p \in sealed' : p.seq < nextSeq + 1
    BY <1>1, <1>5, <2>1, <2>4, <2>5 DEF IInv, SealedInv
  <2> QED BY <1>1, <1>2, <1>3, <2>1, <2>6, <2>7, PumpMoves
<1> QED BY <1>4, <1>5

\* The counter wraps only when the frames of the first turn are used up.
LEMMA AdvancePreserves ==
  ASSUME IInv, PumpAdvance
  PROVE  IInv'
<1>1. /\ UNCHANGED <<captured, muted, device, outgoing, sealed>> /\ pump.at = "advance"
      /\ nextSeq' = (pump.seq + 1) % SeqSpan
      /\ nextSeq \in Nat /\ pump.seq \in Nat /\ pump.frame.n \in Nat
      /\ outgoing \in [roc : Nat, last : Nat, has : BOOLEAN]
  BY ShapeOf DEF PumpAdvance, IInv, TypeInv
<1>2. SeqSpan \in Nat \ {0}
  BY StreamAssumption
<1>3. pump' = [pump EXCEPT !.at = "top", !.seq = pump.seq] /\ UNCHANGED pump.frame
  BY DEF PumpAdvance, IInv, TypeInv
<1>4. nextSeq' \in Nat
  BY <1>1, <1>2
<1>5. SealedInv'
  BY <1>1, <1>3 DEF IInv, SealedInv, Inside
<1>6. Inside => Spent \/ (nextSeq' <= pump.frame.n /\ \A p \in sealed' : p.seq < nextSeq')
  <2> SUFFICES ASSUME Inside
               PROVE  Spent \/ (nextSeq' <= pump.frame.n
                                 /\ \A p \in sealed' : p.seq < nextSeq')
    OBVIOUS
  <2>1. /\ nextSeq < pump.frame.n /\ pump.seq = nextSeq
        /\ \A p \in sealed : p.seq < nextSeq + 1
    BY <1>1 DEF IInv, CounterInv, SealedBelow
  <2>2. pump.seq + 1 <= SeqSpan
    BY <1>1, <1>2, <2>1 DEF Inside
  <2>3. CASE pump.seq + 1 = SeqSpan
    BY <1>1, <1>2, <2>1, <2>3 DEF Spent
  <2>4. CASE pump.seq + 1 < SeqSpan
    <3>1. nextSeq' = pump.seq + 1
      BY <1>1, <1>2, <2>4
    <3> QED BY <1>1, <2>1, <3>1
  <2> QED BY <1>1, <1>2, <2>2, <2>3, <2>4
<1> QED BY <1>1, <1>3, <1>4, <1>5, <1>6, PumpMoves

\* The keys are installed.
LEMMA InstallPreserves ==
  ASSUME IInv, InstallKeys
  PROVE  IInv'
<1>1. /\ UNCHANGED <<captured, nextSeq, pump, sealed, muted, device>>
      /\ outgoing' = [roc |-> 0, last |-> 0, has |-> FALSE]
  BY DEF InstallKeys
<1>2. outgoing'.roc = 0 /\ ~outgoing'.has
  BY <1>1
<1>3. outgoing' \in [roc : Nat, last : Nat, has : BOOLEAN]
  BY <1>1
<1>4. TypeInv' /\ MicInv'
  BY <1>1, <1>3 DEF IInv, TypeInv, MicInv
<1>5. SealedInv'
  BY <1>1, <1>2 DEF IInv, SealedInv, Inside
<1>6. CounterInv'
  BY <1>1 DEF IInv, CounterInv, SealedBelow, Spent, Inside
<1> QED BY <1>4, <1>5, <1>6 DEF IInv

\* The network, the peer and the callbacks.
LEMMA QuietPreserves ==
  ASSUME IInv, \/ PeerSpeaks \/ StrayArrives \/ StopAudioLoop \/ UNCHANGED vars
               \/ \E d \in net : PeerReceives(d) \/ Lose(d)
               \/ \E r \in Receivers, d \in net : OnSrtpDatagram(r, d)
  PROVE  IInv'
<1>1. UNCHANGED <<captured, nextSeq, outgoing, pump, sealed, muted, device>>
  BY DEF PeerSpeaks, StrayArrives, StopAudioLoop, vars, PeerReceives, Lose, OnSrtpDatagram
<1> QED BY <1>1, UnchangedKeeps

\* A pump runs only in a call whose audio has started.
LEMMA PhasePreserves ==
  ASSUME PhaseInv, [Next]_vars
  PROVE  PhaseInv'
<1>1. CASE UNCHANGED <<phase, pump>>
  BY <1>1 DEF PhaseInv
<1>2. CASE StartAudioPhase
  BY <1>2 DEF PhaseInv, StartAudioPhase, InstallKeys, CreateDevice, OpenDevice, StartPump
<1>3. CASE RunAudioCaptureLoop \/ PumpEncodeFails
  <2>1. pump.at # "none" /\ UNCHANGED phase
    BY <1>3 DEF RunAudioCaptureLoop, PumpSnapshot, PumpRead, PumpSeal, PumpAdvance,
                PumpEncodeFails
  <2> QED BY <2>1 DEF PhaseInv
<1>4. CASE ~(StartAudioPhase \/ RunAudioCaptureLoop \/ PumpEncodeFails)
  <2>1. UNCHANGED <<phase, pump>>
    BY <1>4 DEF Next, vars, PushCaptureSamples, FillRenderSamples, SetMuted, Receive,
                OnRtpPacket, OnSrtpDatagram, StopAudioLoop, StopTeardown, PeerSpeaks,
                StrayArrives, PeerReceives, Lose
  <2> QED BY <2>1, <1>1
<1> QED BY <1>2, <1>3, <1>4

\* Every step keeps the invariant.
LEMMA StepPreserves ==
  ASSUME IInv, PhaseInv, [Next]_vars
  PROVE  IInv'
<1>1. CASE StartAudioPhase
  <2>1. CASE StartPump
    <3>1. pump.at = "none"
      BY <2>1 DEF StartPump, PhaseInv
    <3> QED BY <2>1, <3>1, StartPumpPreserves
  <2> QED BY <1>1, <2>1, InstallPreserves, DevicePreserves DEF StartAudioPhase
<1>2. CASE RunAudioCaptureLoop \/ PumpEncodeFails
  BY <1>2, SnapshotPreserves, ReadPreserves, SealPreserves, AdvancePreserves,
     EncodeFailsPreserves DEF RunAudioCaptureLoop
<1>3. CASE PushCaptureSamples
  BY <1>3, CapturePreserves
<1>4. CASE FillRenderSamples \/ StopTeardown \/ (\E value \in BOOLEAN : SetMuted(value))
  BY <1>4, DevicePreserves
<1>5. CASE \E r \in Receivers : Receive(r)
  <2>1. \/ \E r \in Receivers : OnRtpPacket(r)
        \/ \E r \in Receivers, d \in net : OnSrtpDatagram(r, d)
    BY <1>5 DEF Receive
  <2> QED BY <2>1, DevicePreserves, QuietPreserves
<1>6. CASE \/ PeerSpeaks \/ StrayArrives \/ StopAudioLoop \/ UNCHANGED vars
           \/ \E d \in net : PeerReceives(d) \/ Lose(d)
  BY <1>6, QuietPreserves
<1> QED BY <1>1, <1>2, <1>3, <1>4, <1>5, <1>6 DEF Next

\* Inside the first turn every packet has an index of its own; beyond it no
\* packet of the first turn is made.
LEMMA OncePreserves ==
  ASSUME IInv, IInv', KeystreamOnce, [Next]_vars
  PROVE  KeystreamOnce'
<1>1. CASE Inside'
  <2> SUFFICES ASSUME NEW p \in sealed', NEW q \in sealed', Index(p) = Index(q)
               PROVE  p = q
    BY DEF KeystreamOnce, Index
  <2>1. p.roc = 0 /\ q.roc = 0 /\ p.seq \in Nat /\ q.seq \in Nat /\ SeqSpan \in Nat
    BY <1>1, StreamAssumption DEF IInv, SealedInv
  <2>2. Index(p) = p.seq /\ Index(q) = q.seq
    BY <2>1 DEF Index
  <2> QED BY <1>1, <2>2 DEF IInv, SealedInv
<1>2. CASE ~Inside' /\ PumpSeal
  <2> DEFINE new == Sealed(outgoing, LocalSsrc, pump.seq, pump.frame)
  <2>1. sealed' = sealed \cup {new} /\ new.frame.n = pump.frame.n
    BY <1>2 DEF PumpSeal, Sealed
  <2>2. pump'.frame.n = pump.frame.n
    BY <1>2 DEF PumpSeal, IInv, TypeInv
  <2>3. ~(new.frame.n <= SeqSpan)
    BY <1>2, <2>1, <2>2 DEF Inside
  <2> HIDE DEF new
  <2> QED BY <2>1, <2>3 DEF KeystreamOnce, Index
<1>3. CASE ~PumpSeal
  <2>1. UNCHANGED sealed
    BY <1>3 DEF Next, vars, StartAudioPhase, InstallKeys, CreateDevice, OpenDevice, StartPump,
                RunAudioCaptureLoop, PumpSnapshot, PumpRead, PumpAdvance, PumpEncodeFails,
                PushCaptureSamples, FillRenderSamples, SetMuted, Receive, OnRtpPacket,
                OnSrtpDatagram, StopAudioLoop, StopTeardown, PeerSpeaks, StrayArrives,
                PeerReceives, Lose
  <2> QED BY <2>1 DEF KeystreamOnce, Index
<1> QED BY <1>1, <1>2, <1>3

\* SrtpPacketCodec::Encrypt never uses a keystream twice in the first SeqSpan frames
\* of a call (65536 in the program), whatever the encoder refuses and whenever the
\* capture loop reads and writes back m_outgoingSeq.
THEOREM KeystreamCorrect == Spec => []KeystreamOnce
<1>1. Init => IInv /\ PhaseInv /\ KeystreamOnce
  BY InitHolds DEF Init, PhaseInv, KeystreamOnce
<1>2. IInv /\ PhaseInv /\ KeystreamOnce /\ [Next]_vars
        => IInv' /\ PhaseInv' /\ KeystreamOnce'
  BY StepPreserves, PhasePreserves, OncePreserves
<1> QED BY <1>1, <1>2, PTL DEF Spec

-------------------------------------------------------------------------------
(* Muting.                                                                  *)

\* The frame at hand that the next step may seal with voice in it.
Pending == IF pump.at = "seal" /\ pump.frame.voiced THEN 1 ELSE 0

\* Once a device has been told, it is muted as the call is, and at most the frame
\* at hand can still be voiced.
MuteInv ==
  /\ {muted, device.muted, device.exists, pump.frame.voiced} \subseteq BOOLEAN
  /\ device = [exists |-> device.exists, open |-> device.open, muted |-> device.muted,
               mic |-> device.mic, render |-> device.render]
  /\ pump = [at |-> pump.at, seq |-> pump.seq, frame |-> pump.frame]
  /\ mute \in [told : BOOLEAN, leaked : Nat]
  /\ mute.told /\ device.exists => device.muted = muted
  /\ phase \in {"idle", "keyed"} => ~mute.told /\ ~device.exists
  /\ device.open => device.exists
  /\ device.mic # << >> => device.exists
  /\ muted /\ mute.told => mute.leaked + Pending <= 1

\* Nobody is muted and nothing captured at first.
LEMMA MuteInit == Init => MuteInv
<1> SUFFICES ASSUME Init PROVE MuteInv
  OBVIOUS
<1>1. device = [exists |-> FALSE, open |-> FALSE, muted |-> FALSE, mic |-> << >>,
                render |-> << >>]
      /\ pump = [at |-> "none", seq |-> 0, frame |-> NoFrame]
      /\ muted = FALSE /\ mute = [told |-> FALSE, leaked |-> 0]
      /\ NoFrame.voiced = FALSE
  BY DEF Init, NoFrame
<1> QED BY <1>1 DEF MuteInv, Pending

\* A step that neither mutes nor reads a frame nor seals one.
LEMMA MuteKeeps ==
  ASSUME MuteInv, UNCHANGED <<muted, mute, device.muted, pump.frame>>,
         device' = [exists |-> device'.exists, open |-> device'.open, muted |-> device'.muted,
                    mic |-> device'.mic, render |-> device'.render],
         device'.exists = device.exists,
         device'.open => device'.exists, device'.mic # << >> => device'.exists,
         phase' \in {"idle", "keyed"} => phase \in {"idle", "keyed"},
         pump' = [at |-> pump'.at, seq |-> pump'.seq, frame |-> pump'.frame],
         pump'.at = "seal" => pump.at = "seal"
  PROVE  MuteInv'
<1>1. Pending' <= Pending /\ Pending \in {0, 1} /\ Pending' \in {0, 1}
  BY DEF Pending
<1>2. muted' /\ mute'.told => mute'.leaked + Pending' <= 1
  <2>1. mute.leaked \in Nat
    BY DEF MuteInv
  <2>2. muted /\ mute.told => mute.leaked + Pending <= 1
    BY DEF MuteInv
  <2> QED BY <1>1, <2>1, <2>2
<1> QED BY <1>2 DEF MuteInv

\* A pump that goes on and seals nothing.
LEMMA PumpMuteKeeps ==
  ASSUME MuteInv, UNCHANGED <<muted, mute, device, phase>>,
         \/ \E at : pump' = [pump EXCEPT !.at = at] /\ at # "seal"
         \/ \E seq : pump' = [pump EXCEPT !.at = "read", !.seq = seq]
  PROVE  MuteInv'
<1>0. pump = [at |-> pump.at, seq |-> pump.seq, frame |-> pump.frame]
  BY DEF MuteInv
<1>1. /\ pump' = [at |-> pump'.at, seq |-> pump'.seq, frame |-> pump'.frame]
      /\ UNCHANGED pump.frame
      /\ pump'.at # "seal"
  <2>1. ASSUME NEW at, pump' = [pump EXCEPT !.at = at], at # "seal"
        PROVE  <1>1!1 /\ <1>1!2 /\ <1>1!3
    BY <1>0, <2>1
  <2>2. ASSUME NEW seq, pump' = [pump EXCEPT !.at = "read", !.seq = seq]
        PROVE  <1>1!1 /\ <1>1!2 /\ <1>1!3
    BY <1>0, <2>2
  <2> QED BY <2>1, <2>2
<1> QED BY <1>1, MuteKeeps DEF MuteInv

\* The device alone changes, or nothing does.
LEMMA DeviceMuteKeeps ==
  ASSUME MuteInv, UNCHANGED <<muted, mute, pump>>,
         phase' \in {"idle", "keyed"} => phase \in {"idle", "keyed"},
         \/ UNCHANGED device
         \/ \E x : device' = [device EXCEPT !.open = x] /\ device.exists
         \/ \E x : device' = [device EXCEPT !.render = x]
         \/ \E x : device' = [device EXCEPT !.mic = x] /\ device.exists
  PROVE  MuteInv'
<1>0. device = [exists |-> device.exists, open |-> device.open, muted |-> device.muted,
                mic |-> device.mic, render |-> device.render]
  BY DEF MuteInv
<1>1. /\ device' = [exists |-> device'.exists, open |-> device'.open, muted |-> device'.muted,
                    mic |-> device'.mic, render |-> device'.render]
      /\ UNCHANGED <<device.muted, device.exists>>
      /\ device'.open => device'.exists
      /\ device'.mic # << >> => device'.exists
  <2>1. CASE UNCHANGED device
    BY <1>0, <2>1 DEF MuteInv
  <2>2. ASSUME NEW x, device' = [device EXCEPT !.open = x], device.exists
        PROVE  <1>1!1 /\ <1>1!2 /\ <1>1!3 /\ <1>1!4
    BY <1>0, <2>2 DEF MuteInv
  <2>3. ASSUME NEW x, device' = [device EXCEPT !.render = x]
        PROVE  <1>1!1 /\ <1>1!2 /\ <1>1!3 /\ <1>1!4
    BY <1>0, <2>3 DEF MuteInv
  <2>4. ASSUME NEW x, device' = [device EXCEPT !.mic = x], device.exists
        PROVE  <1>1!1 /\ <1>1!2 /\ <1>1!3 /\ <1>1!4
    BY <1>0, <2>4 DEF MuteInv
  <2> QED BY <2>1, <2>2, <2>3, <2>4
<1> QED BY <1>1, MuteKeeps DEF MuteInv

\* Stop comes after StartAudioPhase, which has its device while it opens it.
StopInv ==
  /\ stopping # "no" => phase \in {"pumping", "failed"}
  /\ phase = "created" => device.exists

\* A stop begins only behind the start of the audio.
LEMMA StopPreserves ==
  ASSUME MuteInv, StopInv, [Next]_vars
  PROVE  StopInv'
<1>0. device = [exists |-> device.exists, open |-> device.open, muted |-> device.muted,
                mic |-> device.mic, render |-> device.render]
  BY DEF MuteInv
<1>1. CASE InstallKeys \/ OpenDevice \/ StartPump
  BY <1>1 DEF StopInv, InstallKeys, OpenDevice, StartPump
<1>2. CASE CreateDevice
  <2>1. device'.exists /\ phase' = "created" /\ UNCHANGED stopping /\ phase = "keyed"
    BY <1>0, <1>2 DEF CreateDevice
  <2> QED BY <2>1 DEF StopInv
<1>3. CASE StopTeardown \/ StopAudioLoop
  BY <1>3 DEF StopInv, StopTeardown, StopAudioLoop
<1>4. CASE UNCHANGED <<phase, stopping, device>>
  BY <1>4 DEF StopInv
<1>5. CASE PushCaptureSamples \/ FillRenderSamples \/ PumpRead
           \/ (\E value \in BOOLEAN : SetMuted(value)) \/ (\E r \in Receivers : OnRtpPacket(r))
  <2>1. UNCHANGED <<phase, stopping>> /\ \/ UNCHANGED device
                                         \/ \E x : device' = [device EXCEPT !.mic = x]
                                         \/ \E x : device' = [device EXCEPT !.render = x]
                                         \/ \E x : device' = [device EXCEPT !.muted = x]
    BY <1>5 DEF PushCaptureSamples, FillRenderSamples, PumpRead, SetMuted, OnRtpPacket
  <2>2. device'.exists = device.exists
    BY <1>0, <2>1
  <2> QED BY <2>1, <2>2 DEF StopInv
<1>6. CASE \/ PumpSnapshot \/ PumpSeal \/ PumpAdvance \/ PumpEncodeFails \/ PeerSpeaks
           \/ StrayArrives \/ UNCHANGED vars
           \/ \E d \in net : PeerReceives(d) \/ Lose(d)
           \/ \E r \in Receivers, d \in net : OnSrtpDatagram(r, d)
  <2>1. UNCHANGED <<phase, stopping, device>>
    BY <1>6 DEF PumpSnapshot, PumpSeal, PumpAdvance, PumpEncodeFails, PeerSpeaks, StrayArrives,
                vars, PeerReceives, Lose, OnSrtpDatagram
  <2> QED BY <2>1, <1>4
<1> QED BY <1>1, <1>2, <1>3, <1>5, <1>6
        DEF Next, StartAudioPhase, RunAudioCaptureLoop, Receive

\* Every step keeps what mute promises.
LEMMA MutePreserves ==
  ASSUME MuteInv, StopInv, [Next]_vars
  PROVE  MuteInv'
<1>0. /\ device = [exists |-> device.exists, open |-> device.open, muted |-> device.muted,
                   mic |-> device.mic, render |-> device.render]
      /\ pump = [at |-> pump.at, seq |-> pump.seq, frame |-> pump.frame]
  BY DEF MuteInv
<1>1. CASE CreateDevice
  <2>1. /\ phase = "keyed" /\ phase' = "created" /\ UNCHANGED <<muted, mute, pump>>
        /\ device' = [device EXCEPT !.exists = TRUE, !.muted = FALSE]
    BY <1>1 DEF CreateDevice
  <2>2. /\ device' = [exists |-> device'.exists, open |-> device'.open,
                      muted |-> device'.muted, mic |-> device'.mic,
                      render |-> device'.render]
        /\ device'.exists = TRUE /\ device'.muted = FALSE
    BY <1>0, <2>1
  <2>3. ~mute.told /\ ~mute'.told
    BY <2>1 DEF MuteInv
  <2> QED BY <2>1, <2>2, <2>3 DEF MuteInv
<1>2. CASE \/ InstallKeys \/ OpenDevice \/ PushCaptureSamples \/ FillRenderSamples
           \/ PeerSpeaks \/ StrayArrives \/ StopAudioLoop \/ UNCHANGED vars
           \/ \E d \in net : PeerReceives(d) \/ Lose(d)
           \/ \E r \in Receivers : Receive(r)
  <2>1. UNCHANGED <<muted, mute, pump>>
    BY <1>2 DEF InstallKeys, OpenDevice, PushCaptureSamples, FillRenderSamples, PeerSpeaks,
                StrayArrives, StopAudioLoop, vars, PeerReceives, Lose, Receive, OnRtpPacket,
                OnSrtpDatagram
  <2>2. phase' \in {"idle", "keyed"} => phase \in {"idle", "keyed"}
    BY <1>2 DEF InstallKeys, OpenDevice, PushCaptureSamples, FillRenderSamples, PeerSpeaks,
                StrayArrives, StopAudioLoop, vars, PeerReceives, Lose, Receive, OnRtpPacket,
                OnSrtpDatagram
  <2>3. \/ UNCHANGED device
        \/ \E x : device' = [device EXCEPT !.open = x] /\ phase = "created"
        \/ \E x : device' = [device EXCEPT !.render = x]
        \/ \E x : device' = [device EXCEPT !.mic = x] /\ device.open
    BY <1>2 DEF InstallKeys, OpenDevice, PushCaptureSamples, FillRenderSamples, PeerSpeaks,
                StrayArrives, StopAudioLoop, vars, PeerReceives, Lose, Receive, OnRtpPacket,
                OnSrtpDatagram
  <2> QED BY <2>1, <2>2, <2>3, DeviceMuteKeeps DEF MuteInv, StopInv
<1>3. CASE StartPump
  <2>1. /\ UNCHANGED <<muted, mute, device>> /\ phase' \notin {"idle", "keyed"}
        /\ pump' = pump \/ pump' = [pump EXCEPT !.at = "top"]
    BY <1>3 DEF StartPump
  <2>2. /\ pump' = [at |-> pump'.at, seq |-> pump'.seq, frame |-> pump'.frame]
        /\ UNCHANGED pump.frame
        /\ pump'.at = "seal" => pump.at = "seal"
    BY <1>0, <2>1
  <2> QED BY <2>1, <2>2, MuteKeeps DEF MuteInv
<1>4. CASE PumpSnapshot \/ PumpAdvance \/ PumpEncodeFails
  <2>1. UNCHANGED <<muted, mute, device, phase>>
    BY <1>4 DEF PumpSnapshot, PumpAdvance, PumpEncodeFails
  <2>2. \/ \E at : pump' = [pump EXCEPT !.at = at] /\ at # "seal"
        \/ \E seq : pump' = [pump EXCEPT !.at = "read", !.seq = seq]
    BY <1>4 DEF PumpSnapshot, PumpAdvance, PumpEncodeFails
  <2> QED BY <2>1, <2>2, PumpMuteKeeps
<1>5. CASE PumpRead
  <2>1. UNCHANGED <<muted, mute, phase>>
    BY <1>5 DEF PumpRead
  <2>2. CASE pump' = [pump EXCEPT !.at = "top"] /\ UNCHANGED device
    <3>1. \E at : pump' = [pump EXCEPT !.at = at] /\ at # "seal"
      BY <2>2
    <3> QED BY <2>1, <2>2, <3>1, PumpMuteKeeps
  <2>3. CASE device.mic # << >>
             /\ pump' = [pump EXCEPT !.at = "seal",
                           !.frame = [n |-> Head(device.mic), voiced |-> ~device.muted]]
             /\ device' = [device EXCEPT !.mic = Tail(@)]
    <3>1. /\ pump' = [at |-> pump'.at, seq |-> pump'.seq, frame |-> pump'.frame]
          /\ pump'.frame.voiced = ~device.muted
      BY <1>0, <2>3
    <3>2. device.exists /\ (mute.told => device.muted = muted)
      BY <2>3 DEF MuteInv
    <3>3. mute.leaked \in Nat /\ (muted /\ mute.told => mute.leaked <= 1)
      <4>1. mute.leaked \in Nat /\ Pending \in {0, 1}
        BY DEF MuteInv, Pending
      <4> QED BY <4>1 DEF MuteInv
    <3>4. muted' /\ mute'.told => mute'.leaked + Pending' <= 1
      <4> SUFFICES ASSUME muted, mute.told
                   PROVE  mute.leaked + Pending' <= 1
        BY <2>1
      <4>1. Pending' = 0
        BY <3>1, <3>2 DEF Pending
      <4> QED BY <3>3, <4>1
    <3>5. /\ device' = [exists |-> device'.exists, open |-> device'.open,
                        muted |-> device'.muted, mic |-> device'.mic,
                        render |-> device'.render]
          /\ UNCHANGED <<device.exists, device.open, device.muted>>
      BY <1>0, <2>3
    <3>6. pump'.frame.voiced \in BOOLEAN
      BY <3>1 DEF MuteInv
    <3> QED BY <2>1, <3>1, <3>2, <3>4, <3>5, <3>6 DEF MuteInv
  <2> QED BY <1>5, <2>2, <2>3 DEF PumpRead
<1>6. CASE PumpSeal
  <2>1. /\ UNCHANGED <<muted, device, phase>> /\ pump.at = "seal"
        /\ pump' = [pump EXCEPT !.at = "advance"]
        /\ mute' = IF muted /\ pump.frame.voiced
                     THEN [mute EXCEPT !.leaked = @ + 1] ELSE mute
    BY <1>6 DEF PumpSeal
  <2>2. /\ pump' = [at |-> pump'.at, seq |-> pump'.seq, frame |-> pump'.frame]
        /\ pump'.frame = pump.frame /\ pump'.at = "advance"
    BY <1>0, <2>1
  <2>3. /\ mute' \in [told : BOOLEAN, leaked : Nat] /\ mute'.told = mute.told
        /\ mute'.leaked = IF muted /\ pump.frame.voiced THEN mute.leaked + 1
                                                         ELSE mute.leaked
    <3>1. mute \in [told : BOOLEAN, leaked : Nat]
      BY DEF MuteInv
    <3> QED BY <2>1, <3>1
  <2>4. Pending' = 0 /\ Pending = IF pump.frame.voiced THEN 1 ELSE 0
    BY <2>1, <2>2 DEF Pending
  <2>5. muted' /\ mute'.told => mute'.leaked + Pending' <= 1
    <3>1. mute.leaked \in Nat /\ (muted /\ mute.told => mute.leaked + Pending <= 1)
      BY DEF MuteInv
    <3> QED BY <2>1, <2>3, <2>4, <3>1
  <2> QED BY <2>1, <2>2, <2>3, <2>5 DEF MuteInv
<1>7. ASSUME NEW value \in BOOLEAN, SetMuted(value)
      PROVE  MuteInv'
  <2>1. /\ muted' = value /\ UNCHANGED <<pump, phase>>
        /\ mute' = [told |-> device.exists, leaked |-> 0]
        /\ device' = IF device.exists THEN [device EXCEPT !.muted = value] ELSE device
    BY <1>7 DEF SetMuted
  <2>2. /\ device' = [exists |-> device'.exists, open |-> device'.open,
                      muted |-> device'.muted, mic |-> device'.mic,
                      render |-> device'.render]
        /\ UNCHANGED <<device.exists, device.open, device.mic>>
        /\ device'.muted = IF device.exists THEN value ELSE device.muted
    BY <1>0, <2>1
  <2>3. Pending' = Pending /\ Pending \in {0, 1}
    BY <2>1 DEF Pending
  <2>4. mute'.leaked = 0 /\ mute'.told = device.exists /\ device.exists \in BOOLEAN
    BY <2>1 DEF MuteInv
  <2>5. muted' /\ mute'.told => mute'.leaked + Pending' <= 1
    BY <2>3, <2>4
  <2>6. mute' \in [told : BOOLEAN, leaked : Nat]
    BY <2>1, <2>4
  <2> QED BY <2>1, <2>2, <2>4, <2>5, <2>6 DEF MuteInv
<1>8. CASE StopTeardown
  <2>1. /\ device' = [exists |-> FALSE, open |-> FALSE, muted |-> FALSE, mic |-> << >>,
                      render |-> << >>]
        /\ UNCHANGED <<muted, mute, pump, phase>> /\ stopping # "no"
    BY <1>8 DEF StopTeardown
  <2>2. phase \notin {"idle", "keyed"} /\ Pending' = Pending
    BY <2>1 DEF StopInv, Pending
  <2> QED BY <2>1, <2>2 DEF MuteInv
<1> QED BY <1>1, <1>2, <1>3, <1>4, <1>5, <1>6, <1>7, <1>8
        DEF Next, StartAudioPhase, RunAudioCaptureLoop

\* After a SetMuted(TRUE) that finds the device on, the capture loop seals at most
\* one more frame with voice, the one it had read before the flag was set, however
\* many the device had queued by then; a SetMuted before that is forgotten, for the
\* new device starts unmuted, and promises nothing.
THEOREM MuteCorrect == Spec => []MuteTakesEffect
<1>1. Init => MuteInv /\ StopInv
  BY MuteInit DEF Init, StopInv
<1>2. MuteInv /\ StopInv /\ [Next]_vars => MuteInv' /\ StopInv'
  BY StopPreserves, MutePreserves
<1>3. MuteInv => MuteTakesEffect
  <2>1. ASSUME MuteInv PROVE MuteTakesEffect
    <3>1. mute.leaked \in Nat /\ Pending \in {0, 1}
      BY <2>1 DEF MuteInv, Pending
    <3> QED BY <2>1, <3>1 DEF MuteInv, MuteTakesEffect
  <2> QED BY <2>1
<1> QED BY <1>1, <1>2, <1>3, PTL DEF Spec
===============================================================================
