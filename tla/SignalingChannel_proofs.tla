------------------------ MODULE SignalingChannel_proofs ------------------------
(***************************************************************************)
(* Proofs about the signaling channel of a modern call, for any number of  *)
(* threads, of batches of the peer and of frames in each, and of faults:   *)
(* the frames joined into a body are those split from it, what is          *)
(* dispatched of a packet is what the peer put into it, and no two packets *)
(* of this end carry one number.                                           *)
(***************************************************************************)
EXTENDS SignalingChannel, RecursionLemmas

-------------------------------------------------------------------------------
(* FlattenSeq, of the community modules: the concatenation of sequences.    *)

\* f holds the concatenations of the first sequences of parts.
Flattens(f, parts) ==
  \A i \in 1..Len(parts) : f[i] = IF i = 1 THEN parts[i] ELSE f[i - 1] \o parts[i]

\* There is such a function for parts that are not empty, and it ends with
\* what FlattenSeq yields.
LEMMA FlattenRuns ==
  ASSUME NEW S, NEW parts \in Seq(Seq(S)), Len(parts) > 0
  PROVE  \E f : Flattens(f, parts) /\ FlattenSeq(parts) = f[Len(parts)]
<1> DEFINE n == Len(parts)
           V == Seq(S)
           step == [p \in (1..n) \X V |-> IF p[1] = 1 THEN parts[1] ELSE p[2] \o parts[p[1]]]
           Body(f) == [i \in 1..n |-> IF i = 1 THEN parts[i] ELSE f[i - 1] \o parts[i]]
<1>1. n \in Nat /\ << >> \in V /\ \A i \in 1..n : parts[i] \in V
  BY EmptySeq, LenProperties, ElementOfSeq
<1>2. step \in [(1..n) \X V -> V]
  <2> SUFFICES ASSUME NEW i \in 1..n, NEW r \in V
               PROVE  (IF i = 1 THEN parts[1] ELSE r \o parts[i]) \in V
    OBVIOUS
  <2> HIDE DEF n
  <2> QED BY <1>1, ConcatProperties
<1>3. \A i \in 1..n : \A r \in V :
        step[<<i, r>>] = IF i = 1 THEN parts[1] ELSE r \o parts[i]
  OBVIOUS
<1> HIDE DEF n, V, step
<1>4. PICK f : Recursion(f, n, V, << >>, step)
  BY <1>1, <1>2, RecursionExists
<1> DEFINE h == [i \in 1..n |-> f[i]]
<1>5. \A i \in 1..n : i - 1 \in 0..n /\ i \in 0..n /\ (i # 1 => i - 1 \in 1..n)
  BY <1>1
<1>6. h = Body(h)
  <2>1. f \in [0..n -> V] /\ \A i \in 1..n : f[i] = step[<<i, f[i - 1]>>]
    BY <1>4 DEF Recursion
  <2>2. ASSUME NEW i \in 1..n
        PROVE  f[i] = IF i = 1 THEN parts[i] ELSE f[i - 1] \o parts[i]
    <3>1. f[i - 1] \in V
      BY <2>1, <1>5
    <3> QED BY <1>3, <2>1, <3>1
  <2>3. ASSUME NEW i \in 1..n, i # 1
        PROVE  h[i - 1] = f[i - 1]
    BY <1>5, <2>3
  <2> QED BY <2>2, <2>3
<1> HIDE DEF h
<1> DEFINE g == CHOOSE e : e = Body(e)
<1>7. g = Body(g)
  <2> HIDE DEF Body
  <2> QED BY <1>6
<1>8. FlattenSeq(parts) = g[n]
  BY DEF FlattenSeq, n
<1> HIDE DEF g
<1>9. ASSUME NEW i \in 1..n
      PROVE  g[i] = IF i = 1 THEN parts[i] ELSE g[i - 1] \o parts[i]
  BY <1>7
<1> QED BY <1>8, <1>9 DEF Flattens, n

\* Nothing flattens to nothing.
LEMMA FlattenEmpty == FlattenSeq(<< >>) = << >>
BY EmptySeq DEF FlattenSeq

\* What is flattened are elements of the parts.
LEMMA FlattenTyped ==
  ASSUME NEW S, NEW parts \in Seq(Seq(S))
  PROVE  FlattenSeq(parts) \in Seq(S)
<1> DEFINE n == Len(parts)
<1>1. n \in Nat /\ \A i \in 1..n : parts[i] \in Seq(S)
  BY LenProperties, ElementOfSeq
<1>2. CASE n = 0
  BY <1>2, FlattenEmpty, EmptySeq
<1>3. CASE n > 0
  <2>1. PICK f : Flattens(f, parts) /\ FlattenSeq(parts) = f[n]
    BY <1>3, FlattenRuns
  <2> DEFINE T == {k \in Nat : k = 0 \/ f[k] \in Seq(S)}
  <2>2. ASSUME NEW k \in 0..n - 1, k \in T
        PROVE  k + 1 \in T
    <3>1. k + 1 \in 1..n /\ (k + 1) - 1 = k /\ (k + 1 = 1 <=> k = 0)
      BY <1>1
    <3>2. f[k + 1] = IF k + 1 = 1 THEN parts[k + 1] ELSE f[(k + 1) - 1] \o parts[k + 1]
      BY <2>1, <3>1 DEF Flattens
    <3>3. parts[k + 1] \in Seq(S)
      BY <1>1, <3>1
    <3>4. f[k + 1] \in Seq(S)
      <4>1. CASE k = 0
        BY <3>1, <3>2, <3>3, <4>1
      <4>2. CASE k # 0
        BY <2>2, <3>1, <3>2, <3>3, <4>2, ConcatProperties
      <4> QED BY <4>1, <4>2
    <3> QED BY <3>1, <3>4
  <2>3. 0..n \subseteq T
    <3>1. 0 \in T
      OBVIOUS
    <3> HIDE DEF T
    <3> QED BY <1>1, <2>2, <3>1, BoundedInduction
  <2> QED BY <1>1, <1>3, <2>1, <2>3
<1> QED BY <1>1, <1>2, <1>3

\* One part more.
LEMMA FlattenAppend ==
  ASSUME NEW S, NEW parts \in Seq(Seq(S)), NEW p \in Seq(S)
  PROVE  FlattenSeq(Append(parts, p)) = FlattenSeq(parts) \o p
<1> DEFINE n == Len(parts)
           more == Append(parts, p)
<1>1. /\ more \in Seq(Seq(S)) /\ Len(more) = n + 1 /\ n \in Nat
      /\ more[n + 1] = p /\ \A i \in 1..n : more[i] = parts[i]
  BY AppendProperties, LenProperties
<1> HIDE DEF more
<1>2. PICK g : Flattens(g, more) /\ FlattenSeq(more) = g[n + 1]
  <2>1. Len(more) > 0
    BY <1>1
  <2> QED BY <1>1, <2>1, FlattenRuns
<1>3. CASE n = 0
  <2>1. parts = << >>
    BY <1>3, EmptySeq
  <2>2. 1 \in 1..Len(more) /\ n + 1 = 1
    BY <1>1, <1>3
  <2>3. g[1] = more[1]
    BY <1>2, <2>2 DEF Flattens
  <2>4. << >> \o p = p
    BY ConcatEmptySeq
  <2> QED BY <1>1, <1>2, <2>1, <2>2, <2>3, <2>4, FlattenEmpty DEF more
<1>4. CASE n > 0
  <2>1. PICK f : Flattens(f, parts) /\ FlattenSeq(parts) = f[n]
    BY <1>4, FlattenRuns
  <2> DEFINE T == {k \in Nat : k = 0 \/ f[k] = g[k]}
  <2>2. ASSUME NEW k \in 0..n - 1, k \in T
        PROVE  k + 1 \in T
    <3>1. /\ k + 1 \in 1..n /\ (k + 1) - 1 = k /\ (k + 1 = 1 <=> k = 0)
          /\ k + 1 \in 1..Len(more)
      BY <1>1
    <3>2. f[k + 1] = IF k + 1 = 1 THEN parts[k + 1] ELSE f[(k + 1) - 1] \o parts[k + 1]
      BY <2>1, <3>1 DEF Flattens
    <3>3. g[k + 1] = IF k + 1 = 1 THEN more[k + 1] ELSE g[(k + 1) - 1] \o more[k + 1]
      BY <1>2, <3>1 DEF Flattens
    <3>4. more[k + 1] = parts[k + 1]
      BY <1>1, <3>1
    <3>5. f[k + 1] = g[k + 1]
      BY <2>2, <3>1, <3>2, <3>3, <3>4
    <3> QED BY <3>1, <3>5
  <2>3. 0..n \subseteq T
    <3>1. 0 \in T
      OBVIOUS
    <3> HIDE DEF T
    <3> QED BY <1>1, <2>2, <3>1, BoundedInduction
  <2>4. f[n] = g[n]
    <3>1. n \in 0..n
      BY <1>1
    <3>2. n \in T
      BY <2>3, <3>1
    <3> QED BY <1>4, <3>2
  <2>5. g[n + 1] = g[n] \o more[n + 1]
    <3>1. n + 1 \in 1..Len(more) /\ (n + 1) - 1 = n /\ n + 1 # 1
      BY <1>1, <1>4
    <3> QED BY <1>2, <3>1 DEF Flattens
  <2> QED BY <1>1, <1>2, <2>1, <2>4, <2>5 DEF more
<1> QED BY <1>1, <1>3, <1>4

\* The parts up to the i-th are those before it, and it.
LEMMA FlattenTo ==
  ASSUME NEW S, NEW parts \in Seq(Seq(S)), NEW i \in 1..Len(parts)
  PROVE  FlattenSeq(SubSeq(parts, 1, i)) = FlattenSeq(SubSeq(parts, 1, i - 1)) \o parts[i]
<1> DEFINE q == SubSeq(parts, 1, i - 1)
<1>1. q \in Seq(Seq(S)) /\ parts[i] \in Seq(S) /\ SubSeq(parts, 1, i) = Append(q, parts[i])
  <2>1. Len(parts) \in Nat /\ i \in Nat /\ parts[i] \in Seq(S)
    BY LenProperties, ElementOfSeq
  <2> QED BY <2>1
<1> HIDE DEF q
<1>2. FlattenSeq(SubSeq(parts, 1, i)) = FlattenSeq(q) \o parts[i]
  BY <1>1, FlattenAppend
<1> QED BY <1>2 DEF q

\* Parts that are empty add nothing.
LEMMA FlattenSilent ==
  ASSUME NEW S, NEW parts \in Seq(Seq(S)), NEW k \in 0..Len(parts),
         NEW m \in k..Len(parts), \A i \in k + 1..m : parts[i] = << >>
  PROVE  FlattenSeq(SubSeq(parts, 1, m)) = FlattenSeq(SubSeq(parts, 1, k))
<1> DEFINE n == Len(parts)
           upTo(i) == FlattenSeq(SubSeq(parts, 1, i))
           T == {d \in Nat : k + d <= m => upTo(k + d) = upTo(k)}
<1>1. n \in Nat /\ k \in Nat /\ m \in Nat /\ m <= n /\ k <= m
  BY LenProperties
<1>2. \A i \in 0..n : upTo(i) \in Seq(S)
  <2>1. ASSUME NEW i \in 0..n
        PROVE  SubSeq(parts, 1, i) \in Seq(Seq(S))
    BY <1>1
  <2> QED BY <2>1, FlattenTyped
<1>3. \A i \in 1..n : upTo(i) = upTo(i - 1) \o parts[i]
  BY FlattenTo
<1> HIDE DEF upTo, n
<1>4. ASSUME NEW d \in Nat, d \in T
      PROVE  d + 1 \in T
  <2> SUFFICES ASSUME k + (d + 1) <= m
               PROVE  upTo(k + (d + 1)) = upTo(k)
    OBVIOUS
  <2>1. /\ k + (d + 1) \in 1..n /\ k + (d + 1) \in k + 1..m
        /\ (k + (d + 1)) - 1 = k + d /\ k + d <= m /\ k + d \in 0..n
    BY <1>1
  <2>2. upTo(k + (d + 1)) = upTo(k + d) \o << >>
    BY <1>3, <2>1
  <2>3. upTo(k + d) \o << >> = upTo(k + d)
    BY <1>2, <2>1, ConcatEmptySeq
  <2> QED BY <1>4, <2>1, <2>2, <2>3
<1>5. 0 \in T
  <2>1. k + 0 = k
    BY <1>1
  <2> QED BY <2>1
<1>6. Nat \subseteq T
  <2> HIDE DEF T
  <2> QED BY <1>4, <1>5, Induction
<1>7. m - k \in Nat /\ k + (m - k) = m
  BY <1>1
<1>8. m - k \in T
  BY <1>6, <1>7
<1>9. upTo(m) = upTo(k)
  BY <1>1, <1>7, <1>8
<1> QED BY <1>9 DEF upTo

-------------------------------------------------------------------------------
(* ChannelFrameCodec: what JoinFrames writes SplitFrames reads, up to a tag  *)
(* that nobody knows.  The numbers, tags and texts are any.                  *)

CellsOf(N, G, X) ==
  {SeqCell(s) : s \in N} \cup {TagCell(g) : g \in G} \cup {PayloadCell(x) : x \in X}

FramesOf(N, G, X) == [seq : N, tag : G, text : X]

\* What the i-th frame adds to a body.
Cells(i, frame) ==
  IF i = 1 THEN FrameCells(frame) ELSE <<SeqCell(frame.seq)>> \o FrameCells(frame)

\* Where its tag is among them.
TagAt(i) == IF i = 1 THEN 1 ELSE 2

\* The number of a frame, except the first one's, its tag, and a payload
\* unless the tag says that there is none.
LEMMA CellsAre ==
  ASSUME NEW N, NEW G, NEW X, NEW frame \in FramesOf(N, G, X), NEW i \in Nat \ {0}
  PROVE  LET c == Cells(i, frame)
             t == TagAt(i)
         IN /\ c \in Seq(CellsOf(N, G, X))
            /\ Len(c) = IF frame.tag \in {Ack, Empty} THEN t ELSE t + 1
            /\ c[t] = TagCell(frame.tag)
            /\ i # 1 => c[1] = SeqCell(frame.seq)
            /\ frame.tag \notin {Ack, Empty} => c[t + 1] = PayloadCell(frame.text)
<1> DEFINE C == CellsOf(N, G, X)
           a == SeqCell(frame.seq)
           b == TagCell(frame.tag)
           d == PayloadCell(frame.text)
           e == FrameCells(frame)
<1>1. a \in C /\ b \in C /\ d \in C
  BY DEF CellsOf, FramesOf
<1> HIDE DEF C, a, b, d
<1>2. e = IF frame.tag \in {Ack, Empty} THEN <<b>> ELSE <<b, d>>
  BY DEF FrameCells, b, d
<1>3. /\ e \in Seq(C) /\ Len(e) = IF frame.tag \in {Ack, Empty} THEN 1 ELSE 2
      /\ e[1] = b /\ (frame.tag \notin {Ack, Empty} => e[2] = d)
  BY <1>1, <1>2
<1> HIDE DEF e
<1>4. CASE i = 1
  BY <1>3, <1>4 DEF Cells, TagAt, C, b, d, e
<1>5. CASE i # 1
  <2>1. Cells(i, frame) = <<a>> \o e /\ TagAt(i) = 2
    BY <1>5 DEF Cells, TagAt, a, e
  <2>2. <<a>> \in Seq(C) /\ Len(<<a>>) = 1 /\ <<a>>[1] = a
    BY <1>1
  <2>3. /\ <<a>> \o e \in Seq(C) /\ Len(<<a>> \o e) = 1 + Len(e)
        /\ \A j \in 1..1 + Len(e) : (<<a>> \o e)[j] = IF j <= 1 THEN <<a>>[j] ELSE e[j - 1]
    BY <1>3, <2>2, ConcatProperties
  <2>4. (<<a>> \o e)[1] = a /\ (<<a>> \o e)[2] = b
    BY <1>3, <2>2, <2>3
  <2>5. frame.tag \notin {Ack, Empty} => (<<a>> \o e)[3] = d
    BY <1>3, <2>3
  <2> QED BY <1>3, <1>5, <2>1, <2>3, <2>4, <2>5 DEF C, a, b, d
<1> QED BY <1>4, <1>5

\* The cells of a sequence of frames, frame by frame.
Parts(frames) == [i \in 1..Len(frames) |-> Cells(i, frames[i])]

\* JoinFrames concatenates them.
LEMMA JoinIs ==
  ASSUME NEW frames
  PROVE  JoinFrames(frames) = FlattenSeq(Parts(frames))
BY DEF JoinFrames, Parts, Cells

\* No tag that asks for a payload is last in the body.
Closed(body) ==
  \A i \in 1..Len(body) : body[i].cell = "tag" /\ body[i].tag = Custom => i < Len(body)

\* Every tag in the body is known.
AllKnown(body) ==
  \A i \in 1..Len(body) : body[i].cell = "tag" => body[i].tag \in Tags

\* What cell i of a body contributes to the frames.
Piece(outerSeq, body, i) ==
  IF Scanned(body, i) THEN <<FrameAt(outerSeq, body, i)>> ELSE << >>

Pieces(outerSeq, body) == [i \in 1..Len(body) |-> Piece(outerSeq, body, i)]

\* SplitFrames concatenates the contributions.
LEMMA SplitIs ==
  ASSUME NEW outerSeq, NEW body
  PROVE  SplitFrames(outerSeq, body) = FlattenSeq(Pieces(outerSeq, body))
BY DEF SplitFrames, Pieces, Piece

\* What is read of a frame.
Seen(frame) ==
  [seq |-> frame.seq, tag |-> frame.tag,
   text |-> IF frame.tag = Custom THEN frame.text ELSE NoText]

\* The i-th frame follows what the body p holds.
Follows(N, G, X, outerSeq, i, frame, p) ==
  /\ i \in Nat \ {0} /\ frame \in FramesOf(N, G, X)
  /\ p \in Seq(CellsOf(N, G, X)) /\ Closed(p)
  /\ i = 1 => p = << >> /\ frame.seq = outerSeq
  /\ i # 1 => p # << >>

\* The body q is p with that frame: one frame more is read from it as long as
\* every tag before it is known, and none if not.
Extends(N, G, X, outerSeq, frame, p, q) ==
  /\ q \in Seq(CellsOf(N, G, X)) /\ q # << >> /\ Closed(q)
  /\ AllKnown(q) <=> AllKnown(p) /\ frame.tag \in Tags
  /\ SplitFrames(outerSeq, q) =
       IF AllKnown(p) THEN SplitFrames(outerSeq, p) \o <<Seen(frame)>>
       ELSE SplitFrames(outerSeq, p)

\* A body and a frame that follows it make such a body.
LEMMA SplitStep ==
  ASSUME NEW N, NEW G, NEW X, NEW outerSeq, NEW i, NEW frame, NEW p,
         Follows(N, G, X, outerSeq, i, frame, p)
  PROVE  Extends(N, G, X, outerSeq, frame, p, p \o Cells(i, frame))
<1>a. /\ i \in Nat \ {0} /\ frame \in FramesOf(N, G, X)
      /\ p \in Seq(CellsOf(N, G, X)) /\ Closed(p)
      /\ i = 1 => p = << >> /\ frame.seq = outerSeq
      /\ i # 1 => p # << >>
  BY DEF Follows
<1> DEFINE C == CellsOf(N, G, X)
           c == Cells(i, frame)
           r == p \o c
           n == Len(p)
           t == n + TagAt(i)
           w == Len(r)
           bare == frame.tag \in {Ack, Empty}
<1>1. /\ c \in Seq(C) /\ Len(c) = (IF bare THEN TagAt(i) ELSE TagAt(i) + 1)
      /\ c[TagAt(i)] = TagCell(frame.tag)
      /\ i # 1 => c[1] = SeqCell(frame.seq)
      /\ ~bare => c[TagAt(i) + 1] = PayloadCell(frame.text)
  BY <1>a, CellsAre
<1>2. n \in Nat /\ TagAt(i) \in {1, 2} /\ (TagAt(i) = 1 <=> i = 1) /\ p \in Seq(C)
  BY <1>a, LenProperties DEF TagAt
<1>3. (i = 1 <=> n = 0) /\ t \in Nat /\ (t = 1 <=> i = 1) /\ n < t /\ (i # 1 => t - 1 = n + 1)
  <2>1. n = 0 <=> p = << >>
    BY <1>a, EmptySeq
  <2> QED BY <1>a, <1>2, <2>1
<1> HIDE DEF c, C
<1>4. /\ r \in Seq(C) /\ w = n + Len(c)
      /\ \A k \in 1..n + Len(c) : r[k] = IF k <= n THEN p[k] ELSE c[k - n]
  BY <1>1, <1>2, ConcatProperties
<1>5. /\ w = (IF bare THEN t ELSE t + 1) /\ w \in Nat
      /\ \A k \in 1..n : k \in 1..w /\ r[k] = p[k]
      /\ r[t] = TagCell(frame.tag)
      /\ i # 1 => r[t - 1] = SeqCell(frame.seq)
      /\ ~bare => r[t + 1] = PayloadCell(frame.text)
  <2>1. w = (IF bare THEN t ELSE t + 1) /\ w \in Nat
    BY <1>1, <1>2, <1>4
  <2>2. \A k \in 1..n : k \in 1..w /\ r[k] = p[k]
    BY <1>2, <1>3, <1>4, <2>1
  <2>3. r[t] = c[TagAt(i)]
    BY <1>2, <1>3, <1>4, <2>1
  <2>4. i # 1 => r[t - 1] = c[1]
    BY <1>2, <1>3, <1>4, <2>1
  <2>5. ~bare => r[t + 1] = c[TagAt(i) + 1]
    BY <1>2, <1>3, <1>4, <2>1
  <2> QED BY <1>1, <2>1, <2>2, <2>3, <2>4, <2>5
<1> HIDE DEF r, t, w, n
<1>6. /\ \A k \in 1..w : r[k].cell = "tag" <=> (k \in 1..n /\ p[k].cell = "tag") \/ k = t
      /\ r[t].tag = frame.tag /\ t \in 1..w /\ \A k \in 1..n : k # t
  <2>1. /\ r[t].cell = "tag" /\ r[t].tag = frame.tag
        /\ i # 1 => r[t - 1].cell # "tag" /\ r[t - 1].seq = frame.seq
        /\ ~bare => r[t + 1].cell # "tag" /\ r[t + 1].text = frame.text
    BY <1>5 DEF TagCell, SeqCell, PayloadCell
  <2>2. t \in 1..w /\ \A k \in 1..n : k # t
    BY <1>2, <1>3, <1>5
  <2>3. ASSUME NEW k \in 1..w
        PROVE  k \in 1..n \/ k = t \/ (i # 1 /\ k = t - 1) \/ (~bare /\ k = t + 1)
    BY <1>2, <1>3, <1>5
  <2>4. (i # 1 => t - 1 \notin 1..n) /\ t + 1 \notin 1..n /\ t - 1 # t /\ t + 1 # t
    BY <1>2, <1>3
  <2> QED BY <1>5, <2>1, <2>2, <2>3, <2>4
<1>7. Closed(r)
  <2> SUFFICES ASSUME NEW k \in 1..w, r[k].cell = "tag", r[k].tag = Custom
               PROVE  k < w
    BY DEF Closed, w
  <2>1. CASE k \in 1..n
    <3>1. k < n
      BY <1>a, <1>5, <1>6, <2>1 DEF Closed, n
    <3> QED BY <1>2, <1>3, <1>5, <3>1
  <2>2. CASE k = t
    <3>1. ~bare
      BY <1>6, <2>2 DEF Custom, Ack, Empty
    <3> QED BY <1>3, <1>5, <2>2, <3>1
  <2> QED BY <1>6, <2>1, <2>2
<1>8. AllKnown(p) <=> \A k \in 1..n : p[k].cell = "tag" => p[k].tag \in Tags
  BY DEF AllKnown, n
<1>9. AllKnown(r) <=> AllKnown(p) /\ frame.tag \in Tags
  <2>1. AllKnown(r) <=> \A k \in 1..w : r[k].cell = "tag" => r[k].tag \in Tags
    BY DEF AllKnown, w
  <2> QED BY <1>5, <1>6, <1>8, <2>1
<1>10. ASSUME NEW k \in 1..n
       PROVE  Piece(outerSeq, r, k) = Piece(outerSeq, p, k)
  <2>1. Scanned(r, k) <=> Scanned(p, k)
    <3>1. \A j \in 1..k - 1 : j \in 1..n
      BY <1>2
    <3> QED BY <1>5, <3>1 DEF Scanned
  <2>2. ASSUME Scanned(p, k)
        PROVE  FrameAt(outerSeq, r, k) = FrameAt(outerSeq, p, k)
    <3>1. k # 1 => k - 1 \in 1..n
      BY <1>2
    <3>2. p[k].tag = Custom => k + 1 \in 1..n
      <4>1. p[k].tag = Custom => k < n
        BY <1>a, <2>2 DEF Scanned, Closed, n
      <4> QED BY <1>2, <4>1
    <3> QED BY <1>5, <3>1, <3>2 DEF FrameAt
  <2> QED BY <2>1, <2>2 DEF Piece
<1>11. Piece(outerSeq, r, t) = IF AllKnown(p) THEN <<Seen(frame)>> ELSE << >>
  <2>1. Scanned(r, t) <=> AllKnown(p)
    <3>1. \A j \in 1..n : j \in 1..t - 1
      BY <1>2, <1>3
    <3>2. \A j \in 1..t - 1 : j \in 1..w /\ j # t
      BY <1>2, <1>3, <1>5
    <3> QED BY <1>5, <1>6, <1>8, <3>1, <3>2 DEF Scanned
  <2>2. FrameAt(outerSeq, r, t) = Seen(frame)
    <3>1. (IF t = 1 THEN outerSeq ELSE r[t - 1].seq) = frame.seq
      BY <1>a, <1>3, <1>5 DEF SeqCell
    <3>2. r[t].tag = Custom => r[t + 1].text = frame.text
      BY <1>5, <1>6 DEF PayloadCell, Custom, Ack, Empty
    <3> QED BY <1>6, <3>1, <3>2 DEF FrameAt, Seen
  <2> QED BY <2>1, <2>2 DEF Piece
<1>12. ASSUME NEW k \in 1..w, k \notin 1..n, k # t
       PROVE  Piece(outerSeq, r, k) = << >>
  BY <1>6, <1>12 DEF Piece, Scanned
<1> DEFINE P == Pieces(outerSeq, r)
           S == {FrameAt(outerSeq, r, k) : k \in 1..w}
<1>13. /\ P \in Seq(Seq(S)) /\ Len(P) = w /\ \A k \in 1..w : P[k] = Piece(outerSeq, r, k)
       /\ Pieces(outerSeq, p) = SubSeq(P, 1, n) /\ P = SubSeq(P, 1, w)
  <2>1. ASSUME NEW k \in 1..w
        PROVE  Piece(outerSeq, r, k) \in Seq(S)
    <3>1. FrameAt(outerSeq, r, k) \in S
      OBVIOUS
    <3> HIDE DEF S
    <3> QED BY <3>1 DEF Piece
  <2>2. P = [k \in 1..w |-> Piece(outerSeq, r, k)]
    BY DEF Pieces, w
  <2> HIDE DEF S, P
  <2>3. P \in Seq(Seq(S)) /\ Len(P) = w /\ \A k \in 1..w : P[k] = Piece(outerSeq, r, k)
    BY <1>5, <2>1, <2>2
  <2>4. n \in 0..w
    BY <1>2, <1>3, <1>5
  <2>5. Pieces(outerSeq, p) = [k \in 1..n |-> P[k]]
    BY <1>5, <1>10, <2>3 DEF Pieces, n
  <2>6. SubSeq(P, 1, n) = [k \in 1..n |-> P[k]]
    BY <2>3, <2>4
  <2>7. SubSeq(P, 1, w) = P
    BY <2>3, <1>5
  <2> QED BY <2>3, <2>5, <2>6, <2>7
<1> HIDE DEF P, S
<1>14. FlattenSeq(P) = FlattenSeq(SubSeq(P, 1, t))
  <2>1. t \in 0..Len(P) /\ w \in t..Len(P) /\ \A k \in t + 1..w : k \in 1..w /\ k \notin 1..n /\ k # t
    BY <1>2, <1>3, <1>5, <1>13
  <2>2. \A k \in t + 1..w : P[k] = << >>
    BY <1>12, <1>13, <2>1
  <2>3. FlattenSeq(SubSeq(P, 1, w)) = FlattenSeq(SubSeq(P, 1, t))
    BY <1>13, <2>1, <2>2, FlattenSilent
  <2> QED BY <1>13, <2>3
<1>15. FlattenSeq(SubSeq(P, 1, t)) = FlattenSeq(SubSeq(P, 1, t - 1)) \o P[t]
  BY <1>6, <1>13, FlattenTo
<1>16. FlattenSeq(SubSeq(P, 1, t - 1)) = FlattenSeq(SubSeq(P, 1, n))
  <2>1. n \in 0..Len(P) /\ t - 1 \in n..Len(P)
        /\ \A k \in n + 1..t - 1 : k \in 1..w /\ k \notin 1..n /\ k # t
    BY <1>2, <1>3, <1>5, <1>13
  <2>2. \A k \in n + 1..t - 1 : P[k] = << >>
    BY <1>12, <1>13, <2>1
  <2> QED BY <1>13, <2>1, <2>2, FlattenSilent
<1>17. SplitFrames(outerSeq, r) = SplitFrames(outerSeq, p) \o P[t]
  BY <1>13, <1>14, <1>15, <1>16, SplitIs DEF P
<1>18. SplitFrames(outerSeq, p) \o << >> = SplitFrames(outerSeq, p)
  <2>1. SubSeq(P, 1, n) \in Seq(Seq(S))
    BY <1>2, <1>3, <1>5, <1>13
  <2> QED BY <1>13, <2>1, SplitIs, FlattenTyped, ConcatEmptySeq
<1>19. P[t] = IF AllKnown(p) THEN <<Seen(frame)>> ELSE << >>
  BY <1>6, <1>11, <1>13
<1>20. r \in Seq(C) /\ r # << >>
  <2>1. w # 0
    BY <1>5, <1>6
  <2> QED BY <1>4, <2>1, EmptySeq DEF w
<1>21. Extends(N, G, X, outerSeq, frame, p, r)
  BY <1>7, <1>9, <1>17, <1>18, <1>19, <1>20 DEF C, Extends
<1> QED BY <1>21 DEF r, c

\* The frames that are read: all of them, or those up to the first with a tag
\* that nobody knows.
ReadUpTo(frames, k) ==
  /\ k \in 0..Len(frames)
  /\ \A i \in 1..k - 1 : frames[i].tag \in Tags
  /\ k = Len(frames) \/ (k > 0 /\ frames[k].tag \notin Tags)

\* The first frame has the number of the packet.
StartsAt(frames, seq) == Len(frames) > 0 => frames[1].seq = seq

\* The round trip of the frame codec (tgcalls_signaling_frames.cpp): whatever
\* frames JoinFrames puts into a body, SplitFrames finds them again in their
\* order, each with its number, its tag and, if it is a custom one, its text,
\* up to and with the first whose tag is unknown; nothing behind that one is
\* taken for a frame.  The first number comes from the packet.
THEOREM RoundTrip ==
  ASSUME NEW N, NEW G, NEW X, NEW frames \in Seq(FramesOf(N, G, X)), NEW outerSeq,
         StartsAt(frames, outerSeq), NEW k, ReadUpTo(frames, k)
  PROVE  SplitFrames(outerSeq, JoinFrames(frames)) = [i \in 1..k |-> Seen(frames[i])]
<1> DEFINE C == CellsOf(N, G, X)
           n == Len(frames)
           parts == Parts(frames)
           body(j) == FlattenSeq(SubSeq(parts, 1, j))
           found(j) == [i \in 1..(IF j <= k THEN j ELSE k) |-> Seen(frames[i])]
           Good(j) == /\ body(j) \in Seq(C) /\ (body(j) = << >> <=> j = 0)
                      /\ Closed(body(j))
                      /\ AllKnown(body(j)) <=> \A i \in 1..j : frames[i].tag \in Tags
                      /\ SplitFrames(outerSeq, body(j)) = found(j)
           T == {j \in Nat : Good(j)}
<1>1. /\ n \in Nat /\ k \in 0..n /\ \A i \in 1..n : frames[i] \in FramesOf(N, G, X)
  BY LenProperties, ElementOfSeq DEF ReadUpTo
<1>2. parts \in Seq(Seq(C)) /\ Len(parts) = n /\ \A i \in 1..n : parts[i] = Cells(i, frames[i])
  <2>1. \A i \in 1..n : Cells(i, frames[i]) \in Seq(C)
    <3> SUFFICES ASSUME NEW i \in 1..n PROVE Cells(i, frames[i]) \in Seq(C)
      OBVIOUS
    <3>1. i \in Nat \ {0} /\ frames[i] \in FramesOf(N, G, X)
      BY <1>1
    <3> QED BY <3>1, CellsAre
  <2>2. parts = [i \in 1..n |-> Cells(i, frames[i])]
    BY DEF Parts
  <2> HIDE DEF parts, C
  <2> QED BY <1>1, <2>1, <2>2
<1> HIDE DEF parts, C
<1>3. body(0) = << >>
  <2>1. SubSeq(parts, 1, 0) = << >>
    BY <1>2
  <2> QED BY <2>1, FlattenEmpty
<1>4. \A j \in 1..n : body(j) = body(j - 1) \o Cells(j, frames[j])
  BY <1>2, FlattenTo
<1>5. JoinFrames(frames) = body(n)
  <2>1. SubSeq(parts, 1, n) = parts
    BY <1>1, <1>2
  <2> QED BY <2>1, JoinIs DEF parts
<1> HIDE DEF body, n
<1>6. Good(0)
  <2>1. /\ << >> \in Seq(C) /\ Len(<< >>) = 0
    BY EmptySeq
  <2>2. Closed(<< >>) /\ AllKnown(<< >>)
    BY <2>1 DEF Closed, AllKnown
  <2>3. SplitFrames(outerSeq, << >>) = << >>
    <3>1. Pieces(outerSeq, << >>) = << >>
      BY <2>1 DEF Pieces
    <3> QED BY <3>1, SplitIs, FlattenEmpty
  <2>4. found(0) = << >>
    BY <1>1
  <2>5. \A i \in 1..0 : frames[i].tag \in Tags
    OBVIOUS
  <2> HIDE DEF found
  <2> QED BY <1>3, <2>1, <2>2, <2>3, <2>4, <2>5
<1>7. ASSUME NEW j \in 0..n - 1, Good(j)
      PROVE  Good(j + 1)
  <2> DEFINE p == body(j)
             frame == frames[j + 1]
             r == p \o Cells(j + 1, frame)
  <2>1. /\ j + 1 \in 1..n /\ j + 1 \in Nat \ {0} /\ (j + 1) - 1 = j /\ (j + 1 = 1 <=> j = 0)
        /\ n > 0
    BY <1>1
  <2>2. body(j + 1) = r /\ frame \in FramesOf(N, G, X)
    BY <1>1, <1>4, <2>1
  <2>3. /\ p \in Seq(CellsOf(N, G, X)) /\ Closed(p) /\ (p = << >> <=> j = 0)
        /\ AllKnown(p) <=> \A i \in 1..j : frames[i].tag \in Tags
        /\ SplitFrames(outerSeq, p) = found(j)
    BY <1>7 DEF C
  <2>4. j + 1 = 1 => frame.seq = outerSeq
    BY <2>1 DEF n, StartsAt
  <2> HIDE DEF p, frame, r, found
  <2>5. /\ r \in Seq(CellsOf(N, G, X)) /\ r # << >> /\ Closed(r)
        /\ AllKnown(r) <=> AllKnown(p) /\ frame.tag \in Tags
        /\ SplitFrames(outerSeq, r) =
             IF AllKnown(p) THEN SplitFrames(outerSeq, p) \o <<Seen(frame)>>
             ELSE SplitFrames(outerSeq, p)
    <3>1. j + 1 = 1 => p = << >> /\ frame.seq = outerSeq
      BY <2>1, <2>3, <2>4
    <3>2. j + 1 # 1 => p # << >>
      BY <2>1, <2>3
    <3>3. Follows(N, G, X, outerSeq, j + 1, frame, p)
      BY <2>1, <2>2, <2>3, <3>1, <3>2 DEF Follows
    <3>4. Extends(N, G, X, outerSeq, frame, p, p \o Cells(j + 1, frame))
      BY <3>3, SplitStep
    <3> QED BY <3>4 DEF r, Extends
  <2>6. AllKnown(r) <=> \A i \in 1..j + 1 : frames[i].tag \in Tags
    <3>1. \A i \in 1..j + 1 : i \in 1..j \/ i = j + 1
      OBVIOUS
    <3>2. \A i \in 1..j : i \in 1..j + 1
      OBVIOUS
    <3>3. j + 1 \in 1..j + 1
      OBVIOUS
    <3> QED BY <2>3, <2>5, <3>1, <3>2, <3>3 DEF frame
  <2>7. SplitFrames(outerSeq, r) = found(j + 1)
    <3>1. CASE j < k
      <4>1. AllKnown(p)
        <5>1. \A i \in 1..j : i \in 1..k - 1
          BY <1>1, <3>1
        <5> QED BY <2>3, <5>1 DEF ReadUpTo
      <4>2. found(j) = [i \in 1..j |-> Seen(frames[i])] /\ j + 1 <= k
        BY <1>1, <3>1 DEF found
      <4>3. [i \in 1..j |-> Seen(frames[i])] \o <<Seen(frames[j + 1])>>
              = [i \in 1..j + 1 |-> Seen(frames[i])]
        OBVIOUS
      <4>4. found(j + 1) = [i \in 1..j + 1 |-> Seen(frames[i])]
        BY <4>2 DEF found
      <4> QED BY <2>3, <2>5, <4>1, <4>2, <4>3, <4>4 DEF frame
    <3>2. CASE j >= k
      <4>1. ~AllKnown(p)
        <5>1. k \in 1..j /\ frames[k].tag \notin Tags
          BY <1>1, <3>2 DEF ReadUpTo, n
        <5> QED BY <2>3, <5>1
      <4>2. found(j) = found(j + 1)
        <5>1. (IF j <= k THEN j ELSE k) = k /\ (IF j + 1 <= k THEN j + 1 ELSE k) = k
          BY <1>1, <3>2
        <5> QED BY <5>1 DEF found
      <4> QED BY <2>3, <2>5, <4>1, <4>2
    <3> QED BY <1>1, <3>1, <3>2
  <2>8. r \in Seq(C) /\ (r = << >> <=> j + 1 = 0)
    BY <2>1, <2>5 DEF C
  <2> QED BY <2>2, <2>5, <2>6, <2>7, <2>8
<1>8. Good(n)
  <2> HIDE DEF Good
  <2>1. 0 \in T
    BY <1>6
  <2>2. \A j \in 0..n - 1 : j \in T => j + 1 \in T
    BY <1>1, <1>7
  <2>3. n \in T
    <3> HIDE DEF T
    <3>1. n \in 0..n
      BY <1>1
    <3> QED BY <1>1, <2>1, <2>2, <3>1, BoundedInduction
  <2> QED BY <2>3
<1>9. found(n) = [i \in 1..k |-> Seen(frames[i])]
  <2>1. (IF n <= k THEN n ELSE k) = k
    BY <1>1
  <2> QED BY <2>1
<1> QED BY <1>5, <1>8, <1>9

-------------------------------------------------------------------------------
(* TgcallsSignalingEnvelope: the messages of a packet.                       *)

\* What a frame holds for the one who reads it.
Read(frame) ==
  IF frame.tag = Custom /\ frame.text # NoText THEN <<Parse(frame.text)>> ELSE << >>

\* The messages of frames are what they hold one by one; the texts are of X.
LEMMA MessagesTyped ==
  ASSUME NEW X, NEW frames, Len(frames) \in Nat,
         \A i \in 1..Len(frames) : frames[i].tag = Custom => frames[i].text \in X
  PROVE  /\ MessagesOf(frames) = FlattenSeq([i \in 1..Len(frames) |-> Read(frames[i])])
         /\ [i \in 1..Len(frames) |-> Read(frames[i])] \in Seq(Seq({Parse(x) : x \in X}))
         /\ MessagesOf(frames) \in Seq({Parse(x) : x \in X})
<1> DEFINE n == Len(frames)
           M == {Parse(x) : x \in X}
           parts == [i \in 1..n |-> Read(frames[i])]
<1>1. MessagesOf(frames) = FlattenSeq(parts)
  BY DEF MessagesOf, Read
<1>2. ASSUME NEW i \in 1..n
      PROVE  Read(frames[i]) \in Seq(M)
  <2>1. CASE frames[i].tag = Custom
    <3>1. Parse(frames[i].text) \in M
      BY <2>1
    <3> HIDE DEF M
    <3>2. <<Parse(frames[i].text)>> \in Seq(M) /\ << >> \in Seq(M)
      BY <3>1
    <3> QED BY <3>2 DEF Read
  <2>2. CASE frames[i].tag # Custom
    BY <2>2, EmptySeq DEF Read
  <2> QED BY <2>1, <2>2
<1> HIDE DEF M, n
<1>3. n \in Nat
  BY DEF n
<1>4. parts \in Seq(Seq(M))
  BY <1>2, <1>3
<1> HIDE DEF parts
<1>5. FlattenSeq(parts) \in Seq(M)
  BY <1>4, FlattenTyped
<1> QED BY <1>1, <1>4, <1>5 DEF parts, M, n

\* How many frames from the first have a tag that is known.
KnownUpTo(batch) ==
  LET known == {n \in 0..Len(batch) : \A i \in 1..n : batch[i].tag \in Tags}
  IN CHOOSE n \in known : \A m \in known : m <= n

\* The frames it counts are known, and the one behind them is not.
LEMMA KnownUpToIs ==
  ASSUME NEW batch, Len(batch) \in Nat
  PROVE  /\ KnownUpTo(batch) \in 0..Len(batch)
         /\ \A i \in 1..KnownUpTo(batch) : batch[i].tag \in Tags
         /\ KnownUpTo(batch) < Len(batch) => batch[KnownUpTo(batch) + 1].tag \notin Tags
<1> DEFINE l == Len(batch)
           known == {n \in 0..l : \A i \in 1..n : batch[i].tag \in Tags}
           A == {l - n : n \in known}
<1>1. 0 \in known /\ A \in SUBSET Nat /\ A # {}
  OBVIOUS
<1>2. PICK a \in A : \A b \in A : a <= b
  <2> HIDE DEF A
  <2> QED BY <1>1, LeastNumber
<1>3. PICK n \in known : a = l - n
  OBVIOUS
<1>4. ASSUME NEW m \in known
      PROVE  m <= n
  <2>1. l - n <= l - m
    BY <1>2, <1>3
  <2> QED BY <2>1
<1> DEFINE u == KnownUpTo(batch)
<1>5. u \in known /\ \A m \in known : m <= u
  <2>1. u = CHOOSE k \in known : \A m \in known : m <= k
    BY DEF KnownUpTo
  <2> HIDE DEF known, u
  <2> QED BY <1>4, <2>1
<1> HIDE DEF u
<1>6. ASSUME u < l, batch[u + 1].tag \in Tags
      PROVE  FALSE
  <2>1. u + 1 \in known
    <3>1. \A i \in 1..u + 1 : i \in 1..u \/ i = u + 1
      BY <1>5
    <3> QED BY <1>5, <1>6, <3>1
  <2> QED BY <1>5, <2>1
<1> QED BY <1>5, <1>6 DEF u

\* The peer's frames as PeerSends numbers them.
FramesSent(sent, batch) ==
  [i \in 1..Len(batch) |-> [seq |-> sent + i, tag |-> batch[i].tag, text |-> batch[i].text]]

\* The frames that are read hold the messages that the batch asks for: the one
\* with the unknown tag holds none.
LEMMA MessagesSeen ==
  ASSUME NEW batch, Len(batch) \in Nat, NEW sent \in Nat, NEW k,
         ReadUpTo(FramesSent(sent, batch), k)
  PROVE  MessagesOf([i \in 1..k |-> Seen(FramesSent(sent, batch)[i])]) = Wanted(batch)
<1> DEFINE l == Len(batch)
           frames == FramesSent(sent, batch)
           seen == [i \in 1..k |-> Seen(frames[i])]
           u == KnownUpTo(batch)
           X == {batch[i].text : i \in 1..l}
           parts(f) == [i \in 1..Len(f) |-> Read(f[i])]
           first == SubSeq(batch, 1, u)
<1>1. /\ Len(frames) = l /\ l \in Nat
      /\ \A i \in 1..l : frames[i].tag = batch[i].tag /\ frames[i].text = batch[i].text
  BY DEF FramesSent
<1>2. /\ k \in 0..l /\ \A i \in 1..k - 1 : batch[i].tag \in Tags
      /\ k = l \/ (k > 0 /\ batch[k].tag \notin Tags)
  <2> HIDE DEF frames
  <2>1. /\ k \in 0..l /\ \A i \in 1..k - 1 : frames[i].tag \in Tags
        /\ k = l \/ (k > 0 /\ frames[k].tag \notin Tags)
    BY <1>1 DEF ReadUpTo, frames
  <2>2. \A i \in 1..k - 1 : i \in 1..l
    BY <1>1, <2>1
  <2>3. k > 0 => k \in 1..l
    BY <1>1, <2>1
  <2> QED BY <1>1, <2>1, <2>2, <2>3
<1>3. /\ u \in 0..l /\ \A i \in 1..u : batch[i].tag \in Tags
      /\ u < l => batch[u + 1].tag \notin Tags
  BY KnownUpToIs
<1> HIDE DEF frames, u, l
<1>4. u <= k /\ (\A i \in u + 1..k : batch[i].tag \notin Tags)
  <2>1. CASE u < l
    <3>1. u + 1 \notin 1..k - 1
      BY <1>2, <1>3, <2>1
    <3>2. k <= u + 1
      BY <1>1, <1>2, <1>3, <3>1
    <3>3. k > 0 /\ batch[k].tag \notin Tags => k \notin 1..u
      BY <1>3
    <3>4. u <= k
      BY <1>1, <1>2, <1>3, <2>1, <3>3
    <3>5. \A i \in u + 1..k : i = u + 1
      BY <1>1, <1>2, <1>3, <3>2
    <3> QED BY <1>3, <2>1, <3>4, <3>5
  <2>2. CASE u = l
    <3>1. k = l
      BY <1>1, <1>2, <1>3, <2>2
    <3> QED BY <1>1, <2>2, <3>1
  <2> QED BY <1>1, <1>3, <2>1, <2>2
<1>5. Len(seen) = k /\ k \in Nat /\ \A i \in 1..k : i \in 1..l /\ seen[i] = Seen(frames[i])
  BY <1>1, <1>2
<1>6. \A i \in 1..k : Read(seen[i]) = Read(batch[i]) /\ seen[i].tag = batch[i].tag
                      /\ (seen[i].tag = Custom => seen[i].text = batch[i].text)
  BY <1>1, <1>5 DEF Seen, Read
<1> HIDE DEF seen
<1>7. /\ MessagesOf(seen) = FlattenSeq(parts(seen))
      /\ parts(seen) \in Seq(Seq({Parse(x) : x \in X}))
  <2>1. \A i \in 1..Len(seen) : seen[i].tag = Custom => seen[i].text \in X
    BY <1>5, <1>6
  <2> HIDE DEF X
  <2> QED BY <1>5, <2>1, MessagesTyped
<1>8. /\ MessagesOf(first) = FlattenSeq(parts(first))
      /\ Len(first) = u /\ \A i \in 1..u : first[i] = batch[i]
  <2>1. Len(first) = u /\ (\A i \in 1..u : first[i] = batch[i]) /\ u \in Nat
    BY <1>1, <1>3
  <2>2. \A i \in 1..Len(first) : first[i].tag = Custom => first[i].text \in X
    BY <1>1, <1>3, <2>1
  <2> HIDE DEF X, first
  <2> QED BY <2>1, <2>2, MessagesTyped
<1>9. parts(first) = SubSeq(parts(seen), 1, u)
  <2>1. parts(first) = [i \in 1..u |-> Read(batch[i])]
    BY <1>8
  <2>2. \A i \in 1..u : i \in 1..k
    BY <1>3, <1>4, <1>5
  <2>3. parts(seen) = [i \in 1..k |-> Read(batch[i])]
    BY <1>5, <1>6
  <2>4. SubSeq([i \in 1..k |-> Read(batch[i])], 1, u) = [i \in 1..u |-> Read(batch[i])]
    BY <1>3, <1>4, <1>5, <2>2
  <2> QED BY <2>1, <2>3, <2>4
<1>10. FlattenSeq(SubSeq(parts(seen), 1, k)) = FlattenSeq(SubSeq(parts(seen), 1, u))
  <2> DEFINE P == parts(seen)
  <2>1. Len(P) = k /\ u \in 0..Len(P) /\ k \in u..Len(P)
    BY <1>3, <1>4, <1>5
  <2>2. \A i \in u + 1..k : P[i] = << >>
    <3> SUFFICES ASSUME NEW i \in u + 1..k PROVE P[i] = << >>
      OBVIOUS
    <3>1. i \in 1..k /\ batch[i].tag \notin Tags
      BY <1>3, <1>4, <1>5
    <3>2. P[i] = Read(batch[i])
      BY <1>5, <1>6, <3>1
    <3> QED BY <3>1, <3>2 DEF Read, Tags
  <2>3. P \in Seq(Seq({Parse(x) : x \in X}))
    BY <1>7
  <2> HIDE DEF P, X
  <2> QED BY <2>1, <2>2, <2>3, FlattenSilent DEF P
<1>11. SubSeq(parts(seen), 1, k) = parts(seen)
  <2> DEFINE P == parts(seen)
  <2>1. P \in Seq(Seq({Parse(x) : x \in X})) /\ Len(P) = k
    BY <1>5, <1>7
  <2> HIDE DEF P
  <2>2. SubSeq(P, 1, k) = P
    BY <2>1
  <2> QED BY <2>2 DEF P
<1>12. Wanted(batch) = MessagesOf(first)
  BY DEF Wanted, KnownUpTo, u, l
<1> HIDE DEF parts
<1> QED BY <1>7, <1>8, <1>9, <1>10, <1>11, <1>12 DEF seen, frames

\* A packet of the peer opens to the messages its batch asks for: it is sealed
\* with the offset of the key that opens it here, and the codec loses nothing.
LEMMA OpensToWanted ==
  ASSUME NEW name \in PeerBatches, NEW sent \in Nat
  PROVE  Opened(IsOutgoing,
                Sealed(~IsOutgoing, sent + 1, JoinFrames(FramesSent(sent, PeerBatch(name)))))
           = Wanted(PeerBatch(name))
<1> DEFINE batch == PeerBatch(name)
           frames == FramesSent(sent, batch)
           u == KnownUpTo(batch)
           k == IF u = Len(batch) THEN u ELSE u + 1
           G == {batch[i].tag : i \in 1..Len(batch)}
           X == {batch[i].text : i \in 1..Len(batch)}
           packet == Sealed(~IsOutgoing, sent + 1, JoinFrames(frames))
<1>1. Len(batch) \in Nat
  BY PeerAssumption, LenProperties
<1>2. /\ u \in 0..Len(batch) /\ \A i \in 1..u : batch[i].tag \in Tags
      /\ u < Len(batch) => batch[u + 1].tag \notin Tags
  BY <1>1, KnownUpToIs
<1> HIDE DEF u, batch
<1>3. /\ Len(frames) = Len(batch)
      /\ \A i \in 1..Len(batch) : frames[i].seq = sent + i /\ frames[i].tag = batch[i].tag
  BY <1>1 DEF FramesSent
<1>9. StartsAt(frames, sent + 1) /\ \A i \in 1..Len(batch) : frames[i].tag = batch[i].tag
  <2> HIDE DEF frames
  <2>1. Len(batch) > 0 => 1 \in 1..Len(batch)
    BY <1>1
  <2> QED BY <1>3, <2>1 DEF StartsAt
<1>4. frames \in Seq(FramesOf(Nat, G, X))
  <2>1. \A i \in 1..Len(batch) : [seq |-> sent + i, tag |-> batch[i].tag,
                                   text |-> batch[i].text] \in FramesOf(Nat, G, X)
    BY DEF FramesOf
  <2> HIDE DEF G, X
  <2> QED BY <1>1, <2>1 DEF FramesSent
<1> HIDE DEF frames, G, X
<1>5. ReadUpTo(frames, k)
  <2>1. CASE u = Len(batch)
    <3>1. k = Len(batch) /\ \A i \in 1..k - 1 : i \in 1..u
      BY <1>1, <2>1
    <3> HIDE DEF k
    <3> QED BY <1>1, <1>2, <1>3, <1>9, <2>1, <3>1 DEF ReadUpTo
  <2>2. CASE u # Len(batch)
    <3>1. k = u + 1 /\ k \in 1..Len(batch) /\ k - 1 = u /\ u < Len(batch)
      BY <1>1, <1>2, <2>2
    <3>2. \A i \in 1..u : i \in 1..Len(batch)
      BY <1>1, <1>2
    <3> HIDE DEF k
    <3>3. \A i \in 1..k - 1 : frames[i].tag \in Tags
      BY <1>2, <1>9, <3>1, <3>2
    <3>4. frames[k].tag \notin Tags
      BY <1>2, <1>9, <3>1
    <3> QED BY <1>3, <3>1, <3>3, <3>4 DEF ReadUpTo
  <2> QED BY <2>1, <2>2
<1> HIDE DEF k
<1>6. SplitFrames(sent + 1, JoinFrames(frames)) = [i \in 1..k |-> Seen(frames[i])]
  <2> DEFINE outer == sent + 1
             numbers == Nat
  <2>1. frames \in Seq(FramesOf(numbers, G, X)) /\ StartsAt(frames, outer) /\ ReadUpTo(frames, k)
    BY <1>4, <1>5, <1>9
  <2> HIDE DEF outer, numbers
  <2>2. SplitFrames(outer, JoinFrames(frames)) = [i \in 1..k |-> Seen(frames[i])]
    BY <2>1, RoundTrip
  <2> QED BY <2>2 DEF outer
<1>7. MessagesOf([i \in 1..k |-> Seen(frames[i])]) = Wanted(batch)
  BY <1>1, <1>5, MessagesSeen DEF frames
<1>8. Opens(IsOutgoing, packet) /\ packet.seq = sent + 1 /\ packet.body = JoinFrames(frames)
  BY PeerAssumption DEF Opens, Sealed, EncryptOffset, DecryptOffset
<1>10. Opened(IsOutgoing, packet) = Wanted(batch)
  <2> HIDE DEF packet
  <2> QED BY <1>6, <1>7, <1>8 DEF Opened
<1> QED BY <1>10 DEF frames, batch

-------------------------------------------------------------------------------
(* The invariant.                                                            *)

\* The texts of the peer's frames, and the messages they parse to.
Texts == UNION {{PeerBatch(name)[i].text : i \in 1..Len(PeerBatch(name))} : name \in PeerBatches}
Asked == {Parse(x) : x \in Texts}

\* What EmitMessages may be given.
Batches ==
  {<< >>} \cup {<<Message(Pong, m.value)>> : m \in Asked}
          \cup {<<Message(MediaState, value)>> : value \in BOOLEAN}
          \cup {<<Message(Candidates, 0)>>}

Places == {"idle", "state", "number", "emit", "dispatch", "ice", "latch"}

Nobody == <<0, 0>>

Packets == {Envelope(IsOutgoing, n, batch) : n \in Nat, batch \in Batches}

ThreadTyped ==
  thread \in [Threads -> [at : Places, batch : Batches, seq : Nat, todo : Seq(Asked),
                          id : Ids \cup {Nobody}, latch : BOOLEAN]]

PeerTyped ==
  /\ peer = [sent |-> peer.sent, wanted |-> peer.wanted, muted |-> peer.muted,
             pongs |-> peer.pongs, numbers |-> peer.numbers]
  /\ peer.sent \in Nat /\ peer.numbers \subseteq Nat
  /\ peer.wanted \in Seq(Seq(Asked)) /\ Len(peer.wanted) <= MaxPeer

Typed ==
  /\ outgoingSeq \in Nat /\ muted \in BOOLEAN /\ faults \in 0..MaxFaults
  /\ ice \in [initial : BOOLEAN, candidates : BOOLEAN, started : BOOLEAN]
  /\ ThreadTyped /\ PeerTyped
  /\ toPeer \in Seq(Packets) /\ handled \in [Ids -> Seq(Asked)]

\* The numbers: those the peer has seen, those under way and those that threads
\* hold were all taken from the counter, and no two are the same.
Numbered ==
  /\ \A n \in peer.numbers : n <= outgoingSeq
  /\ \A i \in 1..Len(toPeer) :
       toPeer[i].seq <= outgoingSeq /\ toPeer[i].seq \notin peer.numbers
  /\ \A i, j \in 1..Len(toPeer) : toPeer[i].seq = toPeer[j].seq => i = j

Held ==
  /\ \A t \in Threads : thread[t].at = "emit" =>
       /\ thread[t].seq <= outgoingSeq /\ thread[t].seq \notin peer.numbers
       /\ \A i \in 1..Len(toPeer) : toPeer[i].seq # thread[t].seq
  /\ \A t, u \in Threads :
       thread[t].at = "emit" /\ thread[u].at = "emit" /\ thread[t].seq = thread[u].seq => t = u

\* The id is that of a copy of a packet that there has been.
Issued(id) == id \in Ids /\ id[1] <= Len(peer.wanted) /\ id[2] <= faults

\* A packet under way holds what was put into it, and nobody has begun with it.
UnderWay ==
  /\ \A d \in toUs :
       /\ Issued(d.id) /\ handled[d.id] = << >>
       /\ Opened(IsOutgoing, d.packet) = peer.wanted[d.id[1]]
       /\ \A t \in Threads : thread[t].id # d.id
  /\ \A c, d \in toUs : c.id = d.id => c = d

\* What a thread has handled of its packet and what it has still to do make up
\* the packet, and no other thread has the same one.
InWork ==
  /\ \A t \in Threads :
       IF thread[t].id = Nobody THEN thread[t].todo = << >>
       ELSE /\ Issued(thread[t].id)
            /\ handled[thread[t].id] \o thread[t].todo = peer.wanted[thread[t].id[1]]
  /\ \A t, u \in Threads : thread[t].id = thread[u].id => t = u \/ thread[t].id = Nobody

\* What is handled has been issued, and is the beginning of what was sent.
Begun ==
  \A id \in Ids :
    handled[id] # << >> => Issued(id) /\ IsPrefix(handled[id], peer.wanted[id[1]])

IInv == Typed /\ Numbered /\ Held /\ UnderWay /\ InWork /\ Begun

\* The peer's batches ask for messages that its texts parse to.
LEMMA WantedTyped ==
  ASSUME NEW name \in PeerBatches
  PROVE  Wanted(PeerBatch(name)) \in Seq(Asked)
<1> DEFINE batch == PeerBatch(name)
           u == KnownUpTo(batch)
           first == SubSeq(batch, 1, u)
<1>1. Len(batch) \in Nat /\ batch \in Seq(ToSet(batch))
  BY PeerAssumption, LenProperties
<1>2. u \in 0..Len(batch)
  BY <1>1, KnownUpToIs
<1>3. \A i \in 1..Len(batch) : batch[i].text \in Texts
  BY DEF Texts
<1> HIDE DEF u, batch
<1>4. Len(first) = u /\ \A i \in 1..u : first[i] = batch[i]
  BY <1>1, <1>2
<1> HIDE DEF first
<1>5. \A i \in 1..Len(first) : first[i].text \in Texts
  BY <1>1, <1>2, <1>3, <1>4
<1>6. MessagesOf(first) \in Seq({Parse(x) : x \in Texts})
  <2>1. Len(first) \in Nat
    BY <1>1, <1>2, <1>4
  <2>2. \A i \in 1..Len(first) : first[i].tag = Custom => first[i].text \in Texts
    BY <1>5
  <2> QED BY <2>1, <2>2, MessagesTyped
<1>7. Wanted(batch) = MessagesOf(first)
  BY DEF Wanted, KnownUpTo, u, first
<1> QED BY <1>6, <1>7 DEF Asked, batch

\* Two sequences in a row begin with the first of them.
LEMMA PrefixOfConcat ==
  ASSUME NEW S, NEW p \in Seq(S), NEW q \in Seq(S)
  PROVE  IsPrefix(p, p \o q)
<1> DEFINE r == p \o q
<1>1. /\ r \in Seq(S) /\ Len(p) \in Nat /\ Len(q) \in Nat /\ Len(r) = Len(p) + Len(q)
      /\ \A i \in 1..Len(p) : r[i] = p[i]
  <2>1. /\ r \in Seq(S) /\ Len(r) = Len(p) + Len(q)
        /\ \A i \in 1..Len(p) + Len(q) : r[i] = IF i <= Len(p) THEN p[i] ELSE q[i - Len(p)]
    BY ConcatProperties
  <2> QED BY <2>1, LenProperties
<1> HIDE DEF r
<1>2. Len(p) <= Len(r) /\ SubSeq(p, 1, Len(p)) = SubSeq(r, 1, Len(p))
  BY <1>1
<1> QED BY <1>2 DEF IsPrefix, r

\* The number of a packet is the one it was made with.
LEMMA EnvelopeNumber ==
  ASSUME NEW outgoing, NEW n, NEW batch
  PROVE  Envelope(outgoing, n, batch).seq = n
BY DEF Envelope, Sealed

\* A thread without a packet has the id of none.
LEMMA NobodyIsNoId == Nobody \notin Ids
BY DEF Nobody, Ids

-------------------------------------------------------------------------------
(* Initially, and where nothing changes.                                    *)

\* The invariant holds before the first packet.
LEMMA InitHolds == Init => IInv
<1> SUFFICES ASSUME Init PROVE IInv
  OBVIOUS
<1>1. Idle \in [at : Places, batch : Batches, seq : Nat, todo : Seq(Asked),
                id : Ids \cup {Nobody}, latch : BOOLEAN]
  BY EmptySeq DEF Idle, Batches, Nobody, Places
<1>2. /\ << >> \in Seq(Packets) /\ << >> \in Seq(Asked) /\ << >> \in Seq(Seq(Asked))
      /\ Len(<< >>) = 0
  BY EmptySeq
<1>3. Typed
  <2>1. ThreadTyped
    BY <1>1 DEF Init, ThreadTyped
  <2>2. PeerTyped
    BY <1>2, PeerAssumption DEF Init, PeerTyped
  <2>3. 0 \in 0..MaxFaults
    BY PeerAssumption
  <2> QED BY <1>2, <2>1, <2>2, <2>3 DEF Init, Typed
<1>4. Numbered /\ Held
  BY <1>2 DEF Init, Numbered, Held, Idle
<1>5. UnderWay /\ InWork /\ Begun
  BY <1>2 DEF Init, UnderWay, InWork, Begun, Idle, Nobody
<1> QED BY <1>3, <1>4, <1>5 DEF IInv

\* Where nothing changes the invariant stays.
LEMMA StutterKeeps ==
  ASSUME IInv, UNCHANGED vars
  PROVE  IInv'
BY DEF IInv, vars, Typed, ThreadTyped, PeerTyped, Numbered, Held, UnderWay, InWork, Begun,
       Issued

-------------------------------------------------------------------------------
(* The way out.                                                              *)

Locals ==
  [at : Places, batch : Batches, seq : Nat, todo : Seq(Asked), id : Ids \cup {Nobody},
   latch : BOOLEAN]

\* Thread t's locals become r.
LEMMA ThreadStep ==
  ASSUME ThreadTyped, NEW t \in Threads, NEW r \in Locals, thread' = [thread EXCEPT ![t] = r]
  PROVE  ThreadTyped' /\ thread'[t] = r /\ \A u \in Threads : u # t => thread'[u] = thread[u]
BY DEF ThreadTyped, Locals

\* Thread t goes on with the packet it has, and the others stay where they are.
Moves(t) ==
  /\ ThreadTyped'
  /\ \A u \in Threads : u # t => thread'[u] = thread[u]
  /\ thread'[t].id = thread[t].id /\ thread'[t].todo = thread[t].todo

\* The packets that come in have nothing to do with that.
LEMMA MovesKeeps ==
  ASSUME UnderWay, InWork, Begun, NEW t \in Threads, Moves(t),
         UNCHANGED <<toUs, peer, handled, faults>>
  PROVE  UnderWay' /\ InWork' /\ Begun'
<1>1. \A u \in Threads : thread'[u].id = thread[u].id /\ thread'[u].todo = thread[u].todo
  BY DEF Moves
<1>2. \A id : Issued(id)' <=> Issued(id)
  BY DEF Issued
<1>3. UnderWay'
  BY <1>1, <1>2 DEF UnderWay
<1>4. InWork'
  <2>1. ASSUME NEW u \in Threads
        PROVE  (IF thread[u].id = Nobody THEN thread[u].todo = << >>
                ELSE /\ Issued(thread[u].id)
                     /\ handled[thread[u].id] \o thread[u].todo
                          = peer.wanted[thread[u].id[1]])'
    BY <1>1, <1>2 DEF InWork
  <2>2. ASSUME NEW u \in Threads, NEW v \in Threads, thread'[u].id = thread'[v].id
        PROVE  u = v \/ thread'[u].id = Nobody
    BY <1>1, <2>2 DEF InWork
  <2> QED BY <2>1, <2>2 DEF InWork
<1>5. Begun'
  BY <1>2 DEF Begun
<1> QED BY <1>3, <1>4, <1>5

\* A user mutes or unmutes.
LEMMA SetMutedKeeps ==
  ASSUME IInv, NEW t \in Users, SetMuted(t, ~muted)
  PROVE  IInv'
<1> USE DEF IInv
<1>1. t \in Threads
  BY DEF Threads
<1>2. Moves(t) /\ thread'[t].at = "state"
  BY <1>1 DEF SetMuted, Moves, Typed, ThreadTyped, Places
<1>3. Typed'
  BY <1>2 DEF Typed, Moves, SetMuted, PeerTyped
<1>4. Numbered' /\ Held'
  BY <1>2 DEF Numbered, Held, Moves, SetMuted
<1>5. UnderWay' /\ InWork' /\ Begun'
  BY <1>1, <1>2, MovesKeeps DEF SetMuted
<1> QED BY <1>3, <1>4, <1>5

\* The state is read again and becomes a message.
LEMMA EmitMediaStateKeeps ==
  ASSUME IInv, NEW t \in Threads, EmitMediaState(t)
  PROVE  IInv'
<1> USE DEF IInv
<1>1. Moves(t) /\ thread'[t].at = "number"
  <2>1. <<Message(MediaState, muted)>> \in Batches
    BY DEF Batches, Typed
  <2> QED BY <2>1 DEF EmitMediaState, Moves, Typed, ThreadTyped, Places
<1>2. Typed'
  BY <1>1 DEF Typed, Moves, EmitMediaState, PeerTyped
<1>3. Numbered' /\ Held'
  <2>1. UNCHANGED <<outgoingSeq, toPeer, peer>>
    BY DEF EmitMediaState
  <2>2. \A u \in Threads : thread'[u].at = "emit" => thread'[u] = thread[u]
    BY <1>1 DEF Moves
  <2> QED BY <2>1, <2>2 DEF Numbered, Held
<1>4. UnderWay' /\ InWork' /\ Begun'
  BY <1>1, MovesKeeps DEF EmitMediaState
<1> QED BY <1>2, <1>3, <1>4

\* A thread takes its number under the lock: it is above all others.
LEMMA TakeNumberKeeps ==
  ASSUME IInv, NEW t \in Threads, TakeNumber(t)
  PROVE  IInv'
<1> USE DEF IInv
<1>1. Moves(t) /\ thread'[t].at = "emit" /\ thread'[t].seq = outgoingSeq + 1
  <2>1. outgoingSeq + 1 \in Nat
    BY DEF Typed
  <2> QED BY <2>1 DEF TakeNumber, Moves, Typed, ThreadTyped, Places
<1>2. /\ outgoingSeq \in Nat /\ outgoingSeq' = outgoingSeq + 1 /\ UNCHANGED <<toPeer, peer>>
      /\ \A u \in Threads : thread[u].seq \in Nat
      /\ peer.numbers \subseteq Nat
  BY DEF TakeNumber, Typed, ThreadTyped, PeerTyped
<1>3. \A i \in 1..Len(toPeer) : toPeer[i].seq \in Nat
  <2> SUFFICES ASSUME NEW i \in 1..Len(toPeer) PROVE toPeer[i].seq \in Nat
    OBVIOUS
  <2>1. toPeer[i] \in Packets
    BY ElementOfSeq DEF Typed
  <2> QED BY <2>1, EnvelopeNumber DEF Packets
<1>4. Typed'
  BY <1>1, <1>2 DEF Typed, Moves, TakeNumber, PeerTyped
<1>5. Numbered'
  <2>1. \A n \in peer.numbers : n <= outgoingSeq + 1
    BY <1>2 DEF Numbered
  <2>2. \A i \in 1..Len(toPeer) : toPeer[i].seq <= outgoingSeq + 1
    BY <1>2, <1>3 DEF Numbered
  <2> QED BY <1>2, <2>1, <2>2 DEF Numbered
<1>6. Held'
  <2>1. outgoingSeq + 1 \notin peer.numbers
    BY <1>2 DEF Numbered
  <2>2. \A i \in 1..Len(toPeer) : toPeer[i].seq # outgoingSeq + 1
    BY <1>2, <1>3 DEF Numbered
  <2>3. ASSUME NEW u \in Threads, thread'[u].at = "emit"
        PROVE  /\ thread'[u].seq <= outgoingSeq' /\ thread'[u].seq \notin peer'.numbers
               /\ \A i \in 1..Len(toPeer') : toPeer'[i].seq # thread'[u].seq
    <3>1. CASE u = t
      BY <1>1, <1>2, <2>1, <2>2, <3>1
    <3>2. CASE u # t
      <4>1. thread'[u] = thread[u]
        BY <1>1, <3>2 DEF Moves
      <4>2. thread[u].seq <= outgoingSeq /\ thread[u].seq \notin peer.numbers
            /\ \A i \in 1..Len(toPeer) : toPeer[i].seq # thread[u].seq
        BY <2>3, <4>1 DEF Held
      <4> QED BY <1>2, <4>1, <4>2
    <3> QED BY <3>1, <3>2
  <2>4. ASSUME NEW u \in Threads, u # t, thread'[u].at = "emit"
        PROVE  thread'[u].seq # thread'[t].seq
    <3>1. thread'[u] = thread[u]
      BY <1>1, <2>4 DEF Moves
    <3>2. thread[u].seq <= outgoingSeq
      BY <2>4, <3>1 DEF Held
    <3> QED BY <1>1, <1>2, <3>1, <3>2
  <2>5. ASSUME NEW u \in Threads, NEW v \in Threads, thread'[u].at = "emit",
               thread'[v].at = "emit", thread'[u].seq = thread'[v].seq
        PROVE  u = v
    <3>1. CASE u # t /\ v # t
      <4>1. thread'[u] = thread[u] /\ thread'[v] = thread[v]
        BY <1>1, <3>1 DEF Moves
      <4> QED BY <2>5, <4>1 DEF Held
    <3>2. CASE u = t \/ v = t
      BY <2>4, <2>5, <3>2
    <3> QED BY <3>1, <3>2
  <2> QED BY <2>3, <2>5 DEF Held
<1>7. UnderWay' /\ InWork' /\ Begun'
  BY <1>1, MovesKeeps DEF TakeNumber
<1> QED BY <1>4, <1>5, <1>6, <1>7

\* The packet goes out with the number its thread holds.
LEMMA EmitMessagesKeeps ==
  ASSUME IInv, NEW t \in Threads, EmitMessages(t)
  PROVE  IInv'
<1> USE DEF IInv
<1> DEFINE e == Envelope(IsOutgoing, thread[t].seq, thread[t].batch)
           n == Len(toPeer)
<1>1. Moves(t) /\ thread'[t].at # "emit"
  <2>1. << >> \in Batches
    BY DEF Batches
  <2> DEFINE to == IF thread[t].latch THEN "latch"
                   ELSE IF t \in Handlers THEN "dispatch" ELSE "idle"
  <2>2. to \in {"latch", "dispatch", "idle"}
    OBVIOUS
  <2>3. thread' = [thread EXCEPT ![t].at = to, ![t].batch = << >>, ![t].seq = 0]
    BY DEF EmitMessages
  <2> HIDE DEF to
  <2> DEFINE r == [thread[t] EXCEPT !.at = to, !.batch = << >>, !.seq = 0]
  <2>4. ThreadTyped /\ thread[t] \in Locals
    BY DEF Typed, ThreadTyped, Locals
  <2>5. r \in Locals /\ r.id = thread[t].id /\ r.todo = thread[t].todo /\ r.at = to
    BY <2>1, <2>2, <2>4 DEF Locals, Places
  <2>6. thread' = [thread EXCEPT ![t] = r]
    BY <2>3, <2>4 DEF ThreadTyped
  <2> HIDE DEF r
  <2>7. ThreadTyped' /\ thread'[t] = r /\ \A u \in Threads : u # t => thread'[u] = thread[u]
    BY <2>4, <2>5, <2>6, ThreadStep
  <2> QED BY <2>2, <2>5, <2>7 DEF Moves
<1>2. e \in Packets /\ e.seq = thread[t].seq
  <2>1. thread[t].seq \in Nat /\ thread[t].batch \in Batches
    BY DEF Typed, ThreadTyped
  <2> QED BY <2>1, EnvelopeNumber DEF Packets
<1>3. /\ toPeer' = Append(toPeer, e) /\ toPeer \in Seq(Packets) /\ thread[t].at = "emit"
      /\ UNCHANGED <<outgoingSeq, muted, ice, toUs, peer, handled, faults>>
  BY DEF EmitMessages, Typed
<1> HIDE DEF e
<1>4. /\ toPeer' \in Seq(Packets) /\ Len(toPeer') = n + 1 /\ toPeer'[n + 1] = e
      /\ \A i \in 1..n : toPeer'[i] = toPeer[i]
      /\ n \in Nat /\ \A i \in 1..n + 1 : i \in 1..n \/ i = n + 1
  BY <1>2, <1>3, AppendProperties, LenProperties
<1>5. Typed'
  BY <1>1, <1>3, <1>4 DEF Typed, Moves, PeerTyped
<1>6. /\ e.seq <= outgoingSeq /\ e.seq \notin peer.numbers
      /\ \A i \in 1..n : toPeer[i].seq # e.seq
      /\ \A u \in Threads : u # t /\ thread[u].at = "emit" => thread[u].seq # e.seq
  BY <1>2, <1>3 DEF Held
<1>7. Numbered'
  <2>1. \A i \in 1..n + 1 : toPeer'[i].seq <= outgoingSeq /\ toPeer'[i].seq \notin peer.numbers
    BY <1>4, <1>6 DEF Numbered
  <2>2. ASSUME NEW i \in 1..n + 1, NEW j \in 1..n + 1, toPeer'[i].seq = toPeer'[j].seq
        PROVE  i = j
    BY <1>4, <1>6, <2>2 DEF Numbered
  <2> HIDE DEF n
  <2> QED BY <1>3, <1>4, <2>1, <2>2 DEF Numbered
<1>8. Held'
  <2>1. \A u \in Threads : thread'[u].at = "emit" => u # t /\ thread'[u] = thread[u]
    BY <1>1 DEF Moves
  <2>2. ASSUME NEW u \in Threads, thread'[u].at = "emit"
        PROVE  /\ thread[u].seq <= outgoingSeq /\ thread[u].seq \notin peer.numbers
               /\ \A i \in 1..n + 1 : toPeer'[i].seq # thread[u].seq
    BY <1>4, <1>6, <2>1, <2>2 DEF Held
  <2> HIDE DEF n
  <2> QED BY <1>3, <1>4, <2>1, <2>2 DEF Held
<1>9. UnderWay' /\ InWork' /\ Begun'
  BY <1>1, <1>3, MovesKeeps
<1> QED BY <1>5, <1>7, <1>8, <1>9

-------------------------------------------------------------------------------
(* The way in.                                                               *)

\* A packet is opened: what is to be done is what the peer put into it.
LEMMA HandleKeeps ==
  ASSUME IInv, NEW t \in Handlers, NEW d \in toUs, HandleIncomingSignaling(t, d)
  PROVE  IInv'
<1> USE DEF IInv
<1> DEFINE todo == Opened(IsOutgoing, d.packet)
<1>1. /\ t \in Threads /\ thread[t] = Idle /\ toUs' = toUs \ {d}
      /\ UNCHANGED <<outgoingSeq, muted, ice, toPeer, peer, handled, faults>>
  BY DEF HandleIncomingSignaling, Threads
<1>2. /\ Issued(d.id) /\ handled[d.id] = << >> /\ todo = peer.wanted[d.id[1]]
      /\ \A u \in Threads : thread[u].id # d.id
  BY DEF UnderWay
<1>3. todo \in Seq(Asked) /\ d.id \in Ids /\ d.id # Nobody
  <2>1. d.id \in Ids /\ d.id[1] \in 1..Len(peer.wanted)
    BY <1>2 DEF Issued, Ids
  <2>2. peer.wanted \in Seq(Seq(Asked))
    BY DEF Typed, PeerTyped
  <2> QED BY <1>2, <2>1, <2>2, ElementOfSeq, NobodyIsNoId
<1> HIDE DEF todo
<1>4. /\ ThreadTyped' /\ \A u \in Threads : u # t => thread'[u] = thread[u]
      /\ thread'[t].id = d.id /\ thread'[t].todo = todo /\ thread'[t].at = "dispatch"
  <2> DEFINE r == [thread[t] EXCEPT !.at = "dispatch", !.id = d.id, !.todo = todo]
  <2>1. ThreadTyped /\ thread[t] \in Locals
    BY <1>1 DEF Typed, ThreadTyped, Locals
  <2>2. r \in Locals /\ r.id = d.id /\ r.todo = todo /\ r.at = "dispatch"
    BY <1>3, <2>1 DEF Locals, Places
  <2>3. thread' = [thread EXCEPT ![t] = r]
    BY <2>1 DEF HandleIncomingSignaling, ThreadTyped, todo
  <2> HIDE DEF r
  <2> QED BY <1>1, <2>1, <2>2, <2>3, ThreadStep
<1>5. Typed'
  BY <1>1, <1>4 DEF Typed, PeerTyped
<1>6. Numbered' /\ Held'
  <2>1. \A u \in Threads : thread'[u].at = "emit" => thread'[u] = thread[u]
    BY <1>4
  <2> QED BY <1>1, <2>1 DEF Numbered, Held
<1>7. \A id : Issued(id)' <=> Issued(id)
  BY <1>1 DEF Issued
<1>8. UnderWay'
  <2>1. ASSUME NEW c \in toUs', NEW u \in Threads
        PROVE  thread'[u].id # c.id
    <3>1. c \in toUs /\ c.id # d.id
      BY <1>1 DEF UnderWay
    <3> QED BY <1>4, <3>1 DEF UnderWay
  <2> QED BY <1>1, <1>7, <2>1 DEF UnderWay
<1>9. InWork'
  <2>1. ASSUME NEW u \in Threads
        PROVE  (IF thread[u].id = Nobody THEN thread[u].todo = << >>
                ELSE /\ Issued(thread[u].id)
                     /\ handled[thread[u].id] \o thread[u].todo
                          = peer.wanted[thread[u].id[1]])'
    <3>1. CASE u = t
      <4>1. << >> \o todo = todo
        BY <1>3, ConcatEmptySeq
      <4> QED BY <1>1, <1>2, <1>3, <1>4, <1>7, <3>1, <4>1
    <3>2. CASE u # t
      BY <1>1, <1>4, <1>7, <3>2 DEF InWork
    <3> QED BY <3>1, <3>2
  <2>2. ASSUME NEW u \in Threads, NEW v \in Threads, thread'[u].id = thread'[v].id
        PROVE  u = v \/ thread'[u].id = Nobody
    BY <1>2, <1>4, <2>2 DEF InWork
  <2> QED BY <2>1, <2>2 DEF InWork
<1>10. Begun'
  BY <1>1, <1>7 DEF Begun
<1> QED BY <1>5, <1>6, <1>8, <1>9, <1>10

\* One message is dispatched: it moves from what is to do to what is done.
LEMMA DispatchKeeps ==
  ASSUME IInv, NEW t \in Threads, Dispatch(t)
  PROVE  IInv'
<1> USE DEF IInv
<1> DEFINE id == thread[t].id
           todo == thread[t].todo
<1>1. /\ thread[t].at = "dispatch" /\ todo \in Seq(Asked) /\ id \in Ids \cup {Nobody}
      /\ UNCHANGED <<outgoingSeq, muted, toPeer, toUs, peer, faults>>
  BY DEF Dispatch, Typed, ThreadTyped
<1>2. \A i : Issued(i)' <=> Issued(i)
  BY <1>1 DEF Issued
<1>3. CASE todo = << >>
  <2>1. thread' = [thread EXCEPT ![t] = Idle] /\ UNCHANGED <<handled, ice>>
    BY <1>3 DEF Dispatch
  <2>2. /\ ThreadTyped' /\ \A u \in Threads : u # t => thread'[u] = thread[u]
        /\ thread'[t] = Idle
    <3>1. Idle \in [at : Places, batch : Batches, seq : Nat, todo : Seq(Asked),
                    id : Ids \cup {Nobody}, latch : BOOLEAN]
      BY EmptySeq DEF Idle, Batches, Nobody, Places
    <3> QED BY <2>1, <3>1 DEF Typed, ThreadTyped
  <2>3. Typed'
    BY <1>1, <2>1, <2>2 DEF Typed, PeerTyped
  <2>4. Numbered' /\ Held'
    <3>1. \A u \in Threads : thread'[u].at = "emit" => thread'[u] = thread[u]
      BY <2>2 DEF Idle
    <3> QED BY <1>1, <3>1 DEF Numbered, Held
  <2>5. UnderWay'
    <3>1. ASSUME NEW d \in toUs, NEW u \in Threads
          PROVE  thread'[u].id # d.id
      <4>1. d.id \in Ids
        BY DEF UnderWay, Issued
      <4> QED BY <2>2, <4>1, NobodyIsNoId DEF UnderWay, Idle, Nobody
    <3> QED BY <1>1, <1>2, <2>1, <3>1 DEF UnderWay
  <2>6. InWork'
    <3>1. ASSUME NEW u \in Threads
          PROVE  (IF thread[u].id = Nobody THEN thread[u].todo = << >>
                  ELSE /\ Issued(thread[u].id)
                       /\ handled[thread[u].id] \o thread[u].todo
                            = peer.wanted[thread[u].id[1]])'
      <4>1. CASE u = t
        <5>1. thread'[u].id = Nobody /\ thread'[u].todo = << >>
          BY <2>2, <4>1 DEF Idle, Nobody
        <5> QED BY <5>1
      <4>2. CASE u # t
        BY <1>1, <1>2, <2>1, <2>2, <4>2 DEF InWork
      <4> QED BY <4>1, <4>2
    <3>2. ASSUME NEW u \in Threads, NEW v \in Threads, thread'[u].id = thread'[v].id
          PROVE  u = v \/ thread'[u].id = Nobody
      BY <2>2, <3>2 DEF InWork, Idle, Nobody
    <3> QED BY <3>1, <3>2 DEF InWork
  <2>7. Begun'
    BY <1>1, <1>2, <2>1 DEF Begun
  <2> QED BY <2>3, <2>4, <2>5, <2>6, <2>7
<1>4. CASE todo # << >>
  <2> DEFINE msg == Head(todo)
             to == Goto(msg)
             batch == Answer(msg)
             h == handled[id]
  <2>1. /\ handled' = [handled EXCEPT ![id] = Append(@, msg)]
        /\ thread' = [thread EXCEPT ![t].todo = Tail(@), ![t].at = to, ![t].batch = batch]
        /\ ice' = Noted(msg)
    BY <1>4 DEF Dispatch
  <2>2. /\ msg \in Asked /\ Tail(todo) \in Seq(Asked)
        /\ todo = <<msg>> \o Tail(todo)
    <3> HIDE DEF todo
    <3> QED BY <1>1, <1>4
  <2>3. /\ to \in {"number", "ice", "dispatch"} /\ batch \in Batches
        /\ ice' \in [initial : BOOLEAN, candidates : BOOLEAN, started : BOOLEAN]
    BY <2>1, <2>2 DEF Batches, Goto, Answer, Noted, Typed
  <2>4. /\ id \in Ids /\ id # Nobody /\ Issued(id) /\ h \o todo = peer.wanted[id[1]]
        /\ h \in Seq(Asked)
    <3>1. id # Nobody /\ Issued(id) /\ h \o todo = peer.wanted[id[1]]
      BY <1>4 DEF InWork
    <3> QED BY <1>1, <3>1 DEF Typed
  <2> HIDE DEF msg, to, batch, todo, h
  <2>5. /\ Append(h, msg) \in Seq(Asked)
        /\ Append(h, msg) \o Tail(todo) = h \o todo
        /\ Append(h, msg) # << >>
    <3>1. Append(h, msg) = h \o <<msg>> /\ <<msg>> \in Seq(Asked)
      BY <2>2, <2>4
    <3>2. (h \o <<msg>>) \o Tail(todo) = h \o (<<msg>> \o Tail(todo))
      BY <2>2, <2>4, <3>1, ConcatAssociative
    <3>3. Append(h, msg) \in Seq(Asked) /\ Append(h, msg) # << >>
      BY <2>2, <2>4, AppendProperties, EmptySeq
    <3> QED BY <2>2, <3>1, <3>2, <3>3
  <2>6. /\ ThreadTyped' /\ \A u \in Threads : u # t => thread'[u] = thread[u]
        /\ thread'[t].id = id /\ thread'[t].todo = Tail(todo) /\ thread'[t].at # "emit"
    <3> DEFINE r == [thread[t] EXCEPT !.todo = Tail(@), !.at = to, !.batch = batch]
    <3>1. ThreadTyped /\ thread[t] \in Locals
      BY DEF Typed, ThreadTyped, Locals
    <3>2. /\ r \in Locals /\ r.id = id /\ r.todo = Tail(todo) /\ r.at = to
      BY <2>2, <2>3, <3>1 DEF Locals, Places, todo
    <3>3. thread' = [thread EXCEPT ![t] = r]
      BY <2>1, <3>1 DEF ThreadTyped
    <3> HIDE DEF r
    <3> QED BY <2>3, <3>1, <3>2, <3>3, ThreadStep
  <2>7. /\ handled' \in [Ids -> Seq(Asked)] /\ handled'[id] = Append(h, msg)
        /\ \A i \in Ids : i # id => handled'[i] = handled[i]
    BY <2>1, <2>4, <2>5 DEF Typed, h
  <2>8. Typed'
    BY <1>1, <2>3, <2>6, <2>7 DEF Typed, PeerTyped
  <2>9. Numbered' /\ Held'
    <3>1. \A u \in Threads : thread'[u].at = "emit" => thread'[u] = thread[u]
      BY <2>6
    <3> QED BY <1>1, <3>1 DEF Numbered, Held
  <2>10. \A u \in Threads : thread'[u].id = thread[u].id
    BY <2>6
  <2>11. UnderWay'
    <3>1. ASSUME NEW d \in toUs
          PROVE  d.id \in Ids /\ d.id # id
      BY DEF UnderWay, Issued
    <3> QED BY <1>1, <1>2, <2>7, <2>10, <3>1 DEF UnderWay
  <2>12. InWork'
    <3>1. ASSUME NEW u \in Threads
          PROVE  (IF thread[u].id = Nobody THEN thread[u].todo = << >>
                  ELSE /\ Issued(thread[u].id)
                       /\ handled[thread[u].id] \o thread[u].todo
                            = peer.wanted[thread[u].id[1]])'
      <4>1. CASE u = t
        BY <1>1, <1>2, <2>4, <2>5, <2>6, <2>7, <4>1
      <4>2. CASE u # t
        <5>1. thread'[u] = thread[u]
          BY <2>6, <4>2
        <5>2. CASE thread[u].id = Nobody
          BY <5>1, <5>2 DEF InWork
        <5>3. CASE thread[u].id # Nobody
          <6>1. thread[u].id \in Ids /\ thread[u].id # id
            BY <2>4, <4>2, <5>3 DEF InWork, Typed, ThreadTyped
          <6> QED BY <1>1, <1>2, <2>7, <5>1, <5>3, <6>1 DEF InWork
        <5> QED BY <5>2, <5>3
      <4> QED BY <4>1, <4>2
    <3>2. ASSUME NEW u \in Threads, NEW v \in Threads, thread'[u].id = thread'[v].id
          PROVE  u = v \/ thread'[u].id = Nobody
      BY <2>10, <3>2 DEF InWork
    <3> QED BY <3>1, <3>2 DEF InWork
  <2>13. Begun'
    <3> SUFFICES ASSUME NEW i \in Ids, handled'[i] # << >>
                 PROVE  Issued(i)' /\ IsPrefix(handled'[i], peer'.wanted[i[1]])
      BY DEF Begun
    <3>1. CASE i = id
      <4>1. IsPrefix(Append(h, msg), Append(h, msg) \o Tail(todo))
        BY <2>2, <2>5, PrefixOfConcat
      <4> QED BY <1>1, <1>2, <2>4, <2>5, <2>7, <3>1, <4>1
    <3>2. CASE i # id
      BY <1>1, <1>2, <2>7, <3>2 DEF Begun
    <3> QED BY <3>1, <3>2
  <2> QED BY <2>8, <2>9, <2>11, <2>12, <2>13
<1> QED BY <1>3, <1>4

\* StartIcePhase makes a message of its own, or none.
LEMMA StartIcePhaseKeeps ==
  ASSUME IInv, NEW t \in Threads, StartIcePhase(t)
  PROVE  IInv'
<1> USE DEF IInv
<1>1. Moves(t) /\ thread'[t].at # "emit"
  <2>1. <<Message(Candidates, 0)>> \in Batches /\ ice.candidates \in BOOLEAN
    BY DEF Batches, Typed
  <2>2. CASE thread' = [thread EXCEPT ![t].at = "number", ![t].latch = ice.candidates,
                                      ![t].batch = <<Message(Candidates, 0)>>]
    <3> DEFINE r == [thread[t] EXCEPT !.at = "number", !.latch = ice.candidates,
                                      !.batch = <<Message(Candidates, 0)>>]
    <3>1. ThreadTyped /\ thread[t] \in Locals
      BY DEF Typed, ThreadTyped, Locals
    <3>2. r \in Locals /\ r.id = thread[t].id /\ r.todo = thread[t].todo /\ r.at = "number"
      BY <2>1, <3>1 DEF Locals, Places
    <3>3. thread' = [thread EXCEPT ![t] = r]
      BY <2>2, <3>1 DEF ThreadTyped
    <3> HIDE DEF r
    <3>4. ThreadTyped' /\ thread'[t] = r /\ \A u \in Threads : u # t => thread'[u] = thread[u]
      BY <3>1, <3>2, <3>3, ThreadStep
    <3> QED BY <3>2, <3>4 DEF Moves
  <2>3. CASE thread' = [thread EXCEPT ![t].at = "dispatch"]
    BY <2>3 DEF Moves, Typed, ThreadTyped, Places
  <2> QED BY <2>2, <2>3 DEF StartIcePhase
<1>2. Typed'
  BY <1>1 DEF Typed, Moves, StartIcePhase, PeerTyped
<1>3. Numbered' /\ Held'
  <2>1. UNCHANGED <<outgoingSeq, toPeer, peer>>
    BY DEF StartIcePhase
  <2>2. \A u \in Threads : thread'[u].at = "emit" => thread'[u] = thread[u]
    BY <1>1 DEF Moves
  <2> QED BY <2>1, <2>2 DEF Numbered, Held
<1>4. UnderWay' /\ InWork' /\ Begun'
  BY <1>1, MovesKeeps DEF StartIcePhase
<1> QED BY <1>2, <1>3, <1>4

\* The latch is set.
LEMMA IceLatchKeeps ==
  ASSUME IInv, NEW t \in Threads, IceLatch(t)
  PROVE  IInv'
<1> USE DEF IInv
<1>1. Moves(t) /\ thread'[t].at # "emit"
  BY DEF IceLatch, Moves, Typed, ThreadTyped, Places
<1>2. Typed'
  BY <1>1 DEF Typed, Moves, IceLatch, PeerTyped
<1>3. Numbered' /\ Held'
  <2>1. UNCHANGED <<outgoingSeq, toPeer, peer>>
    BY DEF IceLatch
  <2>2. \A u \in Threads : thread'[u].at = "emit" => thread'[u] = thread[u]
    BY <1>1 DEF Moves
  <2> QED BY <2>1, <2>2 DEF Numbered, Held
<1>4. UnderWay' /\ InWork' /\ Begun'
  BY <1>1, MovesKeeps DEF IceLatch
<1> QED BY <1>2, <1>3, <1>4

-------------------------------------------------------------------------------
(* The peer and the network.                                                 *)

\* A packet comes to those under way, of an id that is new: what the threads
\* are at is what it was.
Comes(e) ==
  /\ toUs' = toUs \cup {e} /\ ~Issued(e.id) /\ Issued(e.id)'
  /\ Opened(IsOutgoing, e.packet) = peer'.wanted[e.id[1]]
  /\ UNCHANGED <<thread, handled>>
  /\ \A id : Issued(id) => Issued(id)' /\ peer'.wanted[id[1]] = peer.wanted[id[1]]

\* A packet with an id of its own comes under way.
LEMMA ComesKeeps ==
  ASSUME Typed, UnderWay, InWork, Begun, NEW e, Comes(e)
  PROVE  UnderWay' /\ InWork' /\ Begun'
<1>1. e.id \in Ids /\ handled[e.id] = << >> /\ e.id # Nobody
  BY NobodyIsNoId DEF Comes, Issued, Begun
<1>2. \A t \in Threads : thread[t].id # e.id
  BY <1>1 DEF InWork, Comes
<1>3. UnderWay'
  <2>1. ASSUME NEW d \in toUs'
        PROVE  /\ Issued(d.id)' /\ handled'[d.id] = << >>
               /\ Opened(IsOutgoing, d.packet) = peer'.wanted[d.id[1]]
               /\ \A t \in Threads : thread'[t].id # d.id
    <3>1. CASE d = e
      BY <1>1, <1>2, <3>1 DEF Comes
    <3>2. CASE d \in toUs
      BY <3>2 DEF Comes, UnderWay
    <3> QED BY <3>1, <3>2 DEF Comes
  <2>2. ASSUME NEW c \in toUs', NEW d \in toUs', c.id = d.id
        PROVE  c = d
    <3>1. \A b \in toUs : b.id # e.id
      BY DEF Comes, UnderWay
    <3> QED BY <2>2, <3>1 DEF Comes, UnderWay
  <2> QED BY <2>1, <2>2 DEF UnderWay
<1>4. InWork'
  <2>1. ASSUME NEW t \in Threads
        PROVE  (IF thread[t].id = Nobody THEN thread[t].todo = << >>
                ELSE /\ Issued(thread[t].id)
                     /\ handled[thread[t].id] \o thread[t].todo
                          = peer.wanted[thread[t].id[1]])'
    BY DEF InWork, Comes
  <2>2. ASSUME NEW t \in Threads, NEW u \in Threads, thread'[t].id = thread'[u].id
        PROVE  t = u \/ thread'[t].id = Nobody
    BY <2>2 DEF InWork, Comes
  <2> QED BY <2>1, <2>2 DEF InWork
<1>5. Begun'
  BY DEF Begun, Comes
<1> QED BY <1>3, <1>4, <1>5

\* The peer sends one of its batches.
LEMMA PeerSendsKeeps ==
  ASSUME IInv, NEW name \in PeerBatches, PeerSends(name)
  PROVE  IInv'
<1> USE DEF IInv
<1> DEFINE batch == PeerBatch(name)
           n == Len(peer.wanted)
           w == Wanted(batch)
<1>0. PICK e : e = [packet |-> Sealed(~IsOutgoing, peer.sent + 1,
                                      JoinFrames(FramesSent(peer.sent, batch))),
                    id |-> <<n + 1, 0>>]
  OBVIOUS
<1>1. /\ n < MaxPeer /\ toUs' = toUs \cup {e}
      /\ peer' = [peer EXCEPT !.sent = @ + Len(batch), !.wanted = Append(@, w)]
      /\ UNCHANGED <<outgoingSeq, muted, ice, thread, toPeer, handled, faults>>
  BY <1>0 DEF PeerSends, FramesSent
<1>2. /\ peer.sent \in Nat /\ peer.wanted \in Seq(Seq(Asked)) /\ n \in Nat
      /\ Len(batch) \in Nat /\ w \in Seq(Asked) /\ peer.numbers \subseteq Nat
  BY PeerAssumption, WantedTyped, LenProperties DEF Typed, PeerTyped
<1>3. Opened(IsOutgoing, e.packet) = w /\ e.id = <<n + 1, 0>>
  BY <1>0, <1>2, OpensToWanted
<1> HIDE DEF w, batch
<1>4. /\ Append(peer.wanted, w) \in Seq(Seq(Asked)) /\ Len(Append(peer.wanted, w)) = n + 1
      /\ Append(peer.wanted, w)[n + 1] = w
      /\ \A i \in 1..n : Append(peer.wanted, w)[i] = peer.wanted[i]
  BY <1>2, AppendProperties
<1>5. PeerTyped' /\ peer'.wanted = Append(peer.wanted, w) /\ peer'.numbers = peer.numbers
  <2>1. /\ peer' = [sent |-> peer'.sent, wanted |-> peer'.wanted, muted |-> peer'.muted,
                    pongs |-> peer'.pongs, numbers |-> peer'.numbers]
        /\ peer'.sent = peer.sent + Len(batch) /\ peer'.wanted = Append(peer.wanted, w)
        /\ peer'.numbers = peer.numbers
    BY <1>1 DEF Typed, PeerTyped
  <2>2. peer'.sent \in Nat /\ n + 1 <= MaxPeer
    BY <1>1, <1>2, <2>1, PeerAssumption
  <2> QED BY <1>2, <1>4, <2>1, <2>2 DEF PeerTyped
<1>6. Typed'
  BY <1>1, <1>5 DEF Typed, ThreadTyped
<1>7. Numbered' /\ Held'
  BY <1>1, <1>5 DEF Numbered, Held
<1>8. Comes(e)
  <2>1. ~Issued(e.id) /\ Issued(e.id)'
    <3>1. n + 1 \in 1..MaxPeer /\ 0 \in 0..MaxFaults /\ 0 <= faults /\ ~(n + 1 <= n)
      BY <1>1, <1>2, PeerAssumption DEF Typed
    <3>2. e.id \in Ids /\ e.id[1] = n + 1 /\ e.id[2] = 0
      BY <1>3, <3>1 DEF Ids
    <3>3. Len(peer'.wanted) = n + 1 /\ faults' = faults
      BY <1>1, <1>4, <1>5
    <3>4. ~(e.id[1] <= Len(peer.wanted))
      BY <3>1, <3>2
    <3>5. e.id[1] <= Len(peer'.wanted) /\ e.id[2] <= faults'
      BY <1>2, <3>1, <3>2, <3>3
    <3> QED BY <3>2, <3>4, <3>5 DEF Issued
  <2>2. Opened(IsOutgoing, e.packet) = peer'.wanted[e.id[1]]
    BY <1>3, <1>4, <1>5
  <2>3. ASSUME NEW id, Issued(id)
        PROVE  Issued(id)' /\ peer'.wanted[id[1]] = peer.wanted[id[1]]
    <3>1. id \in Ids /\ id[1] \in 1..n /\ id[2] <= faults
      BY <1>2, <2>3 DEF Issued, Ids
    <3>2. id[1] <= n + 1
      BY <1>2, <3>1
    <3>3. Len(peer'.wanted) = n + 1 /\ faults' = faults
      BY <1>1, <1>4, <1>5
    <3> QED BY <1>4, <1>5, <3>1, <3>2, <3>3 DEF Issued
  <2> QED BY <1>1, <2>1, <2>2, <2>3 DEF Comes
<1>9. UnderWay' /\ InWork' /\ Begun'
  BY <1>8, ComesKeeps
<1> QED BY <1>6, <1>7, <1>9

\* The peer takes the oldest packet and its number.
LEMMA PeerReceivesKeeps ==
  ASSUME IInv, PeerReceives
  PROVE  IInv'
<1> USE DEF IInv
<1> DEFINE n == Len(toPeer)
           first == toPeer[1]
<1>1. /\ toPeer # << >> /\ toPeer' = Tail(toPeer)
      /\ UNCHANGED <<outgoingSeq, muted, ice, thread, toUs, handled, faults>>
  BY DEF PeerReceives
<1>2. /\ toPeer \in Seq(Packets) /\ n \in Nat \ {0} /\ Head(toPeer) = first /\ first \in Packets
      /\ toPeer' \in Seq(Packets) /\ Len(toPeer') = n - 1
      /\ \A i \in 1..n - 1 : toPeer'[i] = toPeer[i + 1]
  <2>1. toPeer \in Seq(Packets)
    BY DEF Typed
  <2> QED BY <1>1, <2>1, EmptySeq, HeadTailProperties, LenProperties, ElementOfSeq
<1>3. first.seq \in Nat
  BY <1>2, EnvelopeNumber DEF Packets
<1>4. /\ peer'.numbers = peer.numbers \cup {first.seq} /\ peer'.wanted = peer.wanted
      /\ PeerTyped'
  <2>1. PeerTyped
    BY DEF Typed
  <2>2. /\ peer' = [sent |-> peer'.sent, wanted |-> peer'.wanted, muted |-> peer'.muted,
                    pongs |-> peer'.pongs, numbers |-> peer'.numbers]
        /\ peer'.sent = peer.sent /\ peer'.wanted = peer.wanted
        /\ peer'.numbers = peer.numbers \cup {first.seq}
    BY <1>2, <2>1 DEF PeerReceives, PeerTyped
  <2> QED BY <1>3, <2>1, <2>2 DEF PeerTyped
<1>5. Typed'
  BY <1>1, <1>2, <1>4 DEF Typed, ThreadTyped
<1>6. 1 \in 1..n /\ \A i \in 1..n - 1 : i + 1 \in 1..n /\ i + 1 # 1
  BY <1>2
<1>7. Numbered'
  <2>1. \A m \in peer'.numbers : m <= outgoingSeq
    BY <1>4, <1>6 DEF Numbered
  <2>2. \A i \in 1..n - 1 : toPeer'[i].seq <= outgoingSeq /\ toPeer'[i].seq \notin peer'.numbers
    BY <1>2, <1>4, <1>6 DEF Numbered
  <2>3. ASSUME NEW i \in 1..n - 1, NEW j \in 1..n - 1, toPeer'[i].seq = toPeer'[j].seq
        PROVE  i = j
    <3>1. i + 1 = j + 1
      BY <1>2, <1>6, <2>3 DEF Numbered
    <3> QED BY <3>1
  <2> QED BY <1>1, <1>2, <2>1, <2>2, <2>3 DEF Numbered
<1>8. Held'
  <2>1. ASSUME NEW t \in Threads, thread[t].at = "emit"
        PROVE  /\ thread[t].seq <= outgoingSeq /\ thread[t].seq \notin peer'.numbers
               /\ \A i \in 1..n - 1 : toPeer'[i].seq # thread[t].seq
    BY <1>2, <1>4, <1>6, <2>1 DEF Held
  <2> QED BY <1>1, <1>2, <2>1 DEF Held
<1>9. UnderWay' /\ InWork' /\ Begun'
  <2>1. \A id : Issued(id)' <=> Issued(id)
    BY <1>1, <1>4 DEF Issued
  <2> QED BY <1>1, <1>4, <2>1 DEF UnderWay, InWork, Begun
<1> QED BY <1>5, <1>7, <1>8, <1>9

\* A packet of the peer is lost.
LEMMA LoseKeeps ==
  ASSUME IInv, NEW d \in toUs, Lose(d)
  PROVE  IInv'
<1> USE DEF IInv
<1>1. /\ faults < MaxFaults /\ faults' = faults + 1 /\ toUs' = toUs \ {d}
      /\ UNCHANGED <<outgoingSeq, muted, ice, thread, toPeer, peer, handled>>
  BY DEF Lose
<1>2. faults \in 0..MaxFaults /\ MaxFaults \in Nat
  BY PeerAssumption DEF Typed
<1>3. Typed' /\ Numbered' /\ Held'
  <2>1. faults' \in 0..MaxFaults
    BY <1>1, <1>2
  <2> QED BY <1>1, <2>1 DEF Typed, ThreadTyped, PeerTyped, Numbered, Held
<1>4. \A id : Issued(id) => Issued(id)'
  BY <1>1, <1>2 DEF Issued, Ids
<1>5. UnderWay'
  BY <1>1, <1>4 DEF UnderWay
<1>6. InWork' /\ Begun'
  BY <1>1, <1>4 DEF InWork, Begun
<1> QED BY <1>3, <1>5, <1>6

\* A packet of the peer comes again, as a copy with an id of its own.
LEMMA RepeatKeeps ==
  ASSUME IInv, NEW d \in toUs, Repeat(d)
  PROVE  IInv'
<1> USE DEF IInv
<1>0. PICK e : e = [packet |-> d.packet, id |-> <<d.id[1], faults + 1>>]
  OBVIOUS
<1>1. /\ faults < MaxFaults /\ faults' = faults + 1 /\ toUs' = toUs \cup {e}
      /\ UNCHANGED <<outgoingSeq, muted, ice, thread, toPeer, peer, handled>>
  BY <1>0 DEF Repeat
<1>2. faults \in 0..MaxFaults /\ MaxFaults \in Nat
  BY PeerAssumption DEF Typed
<1>3. Typed' /\ Numbered' /\ Held'
  <2>1. faults' \in 0..MaxFaults
    BY <1>1, <1>2
  <2> QED BY <1>1, <2>1 DEF Typed, ThreadTyped, PeerTyped, Numbered, Held
<1>4. \A id : Issued(id) => Issued(id)'
  BY <1>1, <1>2 DEF Issued, Ids
<1>5. Issued(d.id) /\ Opened(IsOutgoing, d.packet) = peer.wanted[d.id[1]]
  BY DEF UnderWay
<1>6. e.id[1] = d.id[1] /\ e.id[2] = faults + 1 /\ e.id \in Ids /\ e.packet = d.packet
  BY <1>0, <1>1, <1>2, <1>5 DEF Issued, Ids
<1>7. ~Issued(e.id) /\ Issued(e.id)'
  <2>1. ~(e.id[2] <= faults) /\ e.id[2] <= faults'
    BY <1>1, <1>2, <1>6
  <2>2. e.id[1] <= Len(peer'.wanted)
    BY <1>1, <1>5, <1>6 DEF Issued
  <2> QED BY <1>6, <2>1, <2>2 DEF Issued
<1>8. Comes(e)
  BY <1>1, <1>4, <1>5, <1>6, <1>7 DEF Comes
<1>9. UnderWay' /\ InWork' /\ Begun'
  BY <1>8, ComesKeeps
<1> QED BY <1>3, <1>9

-------------------------------------------------------------------------------
(* The theorems.                                                             *)

\* Every step keeps the invariant.
LEMMA NextPreserves == IInv /\ [Next]_vars => IInv'
<1> SUFFICES ASSUME IInv, [Next]_vars PROVE IInv'
  OBVIOUS
<1>1. CASE Work
  <2>1. ASSUME NEW t \in Threads, Step(t)
        PROVE  IInv'
    <3>1. CASE EmitMediaState(t)
      BY <3>1, EmitMediaStateKeeps
    <3>2. CASE TakeNumber(t)
      BY <3>2, TakeNumberKeeps
    <3>3. CASE EmitMessages(t)
      BY <3>3, EmitMessagesKeeps
    <3>4. CASE Dispatch(t)
      BY <3>4, DispatchKeeps
    <3>5. CASE StartIcePhase(t)
      BY <3>5, StartIcePhaseKeeps
    <3>6. CASE IceLatch(t)
      BY <3>6, IceLatchKeeps
    <3> QED BY <2>1, <3>1, <3>2, <3>3, <3>4, <3>5, <3>6 DEF Step
  <2>2. CASE PeerReceives
    BY <2>2, PeerReceivesKeeps
  <2>3. CASE Receive
    BY <2>3, HandleKeeps DEF Receive
  <2> QED BY <1>1, <2>1, <2>2, <2>3 DEF Work
<1>2. CASE \E t \in Users : SetMuted(t, ~muted)
  BY <1>2, SetMutedKeeps
<1>3. CASE \E name \in PeerBatches : PeerSends(name)
  BY <1>3, PeerSendsKeeps
<1>4. CASE \E d \in toUs : Lose(d) \/ Repeat(d)
  BY <1>4, LoseKeeps, RepeatKeeps
<1>5. CASE UNCHANGED vars
  BY <1>5, StutterKeeps
<1> QED BY <1>1, <1>2, <1>3, <1>4, <1>5 DEF Next

\* The invariant holds of every reachable state.
LEMMA InvHolds == Spec => []IInv
BY InitHolds, NextPreserves, PTL DEF Spec

\* What has been dispatched of a packet is, in order and one for one, the
\* beginning of what the peer put into it, for any number of threads that bring
\* packets in at the same time, however packets overtake each other, get lost
\* or come twice (HandleIncomingSignaling, TgcallsSignalingEnvelope::Decrypt).
THEOREM HandledCorrect == Spec => []HandledAsSent
<1>1. IInv => HandledAsSent
  BY DEF IInv, Begun, HandledAsSent, Issued
<1> QED BY <1>1, InvHolds, PTL

\* No two packets of this end carry one number, whichever threads send at the
\* same time: the number is taken under the lock (EmitMessages), and what is
\* taken, under way and seen by the peer stays apart.
THEOREM NumbersCorrect == Spec => []NumbersDistinct
<1>1. IInv => NumbersDistinct
  <2> SUFFICES ASSUME IInv PROVE NumbersDistinct
    OBVIOUS
  <2>1. DOMAIN toPeer = 1..Len(toPeer)
    BY DEF IInv, Typed
  <2> QED BY <2>1 DEF IInv, Numbered, NumbersDistinct
<1> QED BY <1>1, InvHolds, PTL
=============================================================================
