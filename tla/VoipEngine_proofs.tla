--------------------------- MODULE VoipEngine_proofs ---------------------------
(***************************************************************************)
(* Machine-checked proofs about the engine, for any calls, threads, packet *)
(* sizes, limits of the queue and number of endpoints.                     *)
(***************************************************************************)
EXTENDS VoipEngine, RecursionLemmas

-------------------------------------------------------------------------------
(* Types.  TypeOK, the values of a session and of a client's thread apart.  *)

\* A client's thread that has made an object and has not come back.
Working == {"starting", "draining"} \cup OnEndpoint

SessionOk(c, v) == v \in Session \cup {NoSession} /\ Fits(c, Queue(v))

\* What a client's thread knows at each point.
ClientOk(c, k) ==
  /\ k \in Client
  /\ Fits(c, Queue(k.copy))
  /\ k.at = "computing" => k.copy \in Session
  /\ k.at \in Working => k.start \in Starts
  /\ k.at = "draining" => k.pending # <<>>
  /\ k.at \in OnEndpoint \ {"endpoint"} => k.left > 0

RegistryOk ==
  /\ sessions \in [Calls -> Session \cup {NoSession}]
  /\ \A c \in Calls : SessionOk(c, sessions[c])
  /\ outgoing \subseteq Placed /\ dropped \subseteq Calls

ClientsOk == client \in [Calls -> Client] /\ \A c \in Calls : ClientOk(c, client[c])

SignalersOk == signaler \in [Signalers -> {SignalerIdle} \cup [packet : Packets, to : Starts]]

StoppersOk ==
  stopper \in [Stoppers -> [conn : Starts \cup {NoStart}, context : Starts \cup {NoStart},
                            at : {"idle", "dropping", "stopping"}]]

InstalledOk ==
  /\ connection \in Starts \cup {NoStart} /\ active \in Starts \cup {NoStart}
  /\ callId \in Calls \cup {NoCall}

MediaOk == media \in [state : {"Idle", "Prepared", "Connecting", "Stopped"},
                      call : Calls \cup {NoCall}]

ObjectsOk ==
  /\ owner \in [Starts -> Calls \cup {NoCall}]
  /\ stopped \subseteq Starts

HistoryOk ==
  /\ arrived \in Seq(Calls) /\ Len(arrived) <= MaxPackets
  /\ handed \subseteq Packets \X Starts

Typed ==
  /\ RegistryOk /\ InstalledOk /\ MediaOk
  /\ ClientsOk /\ SignalersOk /\ StoppersOk
  /\ ObjectsOk /\ HistoryOk

\* The strengthened types give the checked ones.
LEMMA TypedIsTypeOK == Typed => TypeOK
BY DEF Typed, TypeOK, RegistryOk, SessionOk, InstalledOk, MediaOk, ClientsOk, SignalersOk,
   StoppersOk, ObjectsOk, HistoryOk

\* An empty queue is within its limits.
LEMMA EmptyFits ==
  ASSUME NEW c \in Calls
  PROVE  Fits(c, <<>>)
<1>1. DOMAIN <<>> = {} /\ Len(<<>>) = 0
  OBVIOUS
<1>2. UNION {{i} \X (1..Size[c][(<<>>)[i]]) : i \in DOMAIN <<>>} = {}
  BY <1>1
<1>3. Bytes(c, <<>>) = 0
  BY <1>2, FS_EmptySet DEF Bytes
<1>4. QED
  BY <1>1, <1>3, BoundsAssumption, BytesAssumption DEF Fits

\* The packets of a queue from some place on fit, and no more than those.
LEMMA FirstToFitExists ==
  ASSUME NEW c \in Calls, NEW r \in Seq(Packets)
  PROVE  /\ FirstToFit(c, r) \in 1..(Len(r) + 1)
         /\ Fits(c, From(r, FirstToFit(c, r)))
         /\ \A j \in 1..(FirstToFit(c, r) - 1) : ~Fits(c, From(r, j))
<1> DEFINE A == {i \in 1..(Len(r) + 1) : Fits(c, From(r, i))}
<1>1. Len(r) \in Nat
  OBVIOUS
<1>2. From(r, Len(r) + 1) = <<>>
  BY <1>1 DEF From
<1>3. Len(r) + 1 \in A
  BY <1>1, <1>2, EmptyFits
<1>4. A \in SUBSET Nat /\ A # {}
  BY <1>1, <1>3
<1>5. PICK i \in A : \A k \in A : i <= k
  <2> HIDE DEF A
  <2>1. QED
    BY <1>4, LeastNumber
<1>6. \A j \in 1..(i - 1) : ~Fits(c, From(r, j))
  <2>1. ASSUME NEW j \in 1..(i - 1), Fits(c, From(r, j))
        PROVE  FALSE
    <3>1. i \in Nat /\ j \in Nat /\ j < i /\ j \in 1..(Len(r) + 1)
      BY <1>1
    <3>2. j \in A
      BY <2>1, <3>1
    <3>3. QED
      BY <1>5, <3>1, <3>2
  <2>2. QED
    BY <2>1
<1>7. \E i1 \in 1..(Len(r) + 1) :
        Fits(c, From(r, i1)) /\ \A j \in 1..(i1 - 1) : ~Fits(c, From(r, j))
  BY <1>6
<1>8. QED
  BY <1>7 DEF FirstToFit

\* What a queue keeps: its end, from some place on.
LEMMA FromKeeps ==
  ASSUME NEW r \in Seq(Packets), NEW f \in 1..(Len(r) + 1)
  PROVE  /\ From(r, f) \in Seq(Packets) /\ Len(From(r, f)) = Len(r) - f + 1
         /\ \A i \in 1..Len(From(r, f)) : From(r, f)[i] = r[f + i - 1]
                                          /\ f + i - 1 \in 1..Len(r)
         /\ \A i \in 1..Len(r) : i >= f => r[i] \in Range(From(r, f))
<1>1. /\ From(r, f) \in Seq(Packets) /\ Len(From(r, f)) = Len(r) - f + 1
      /\ Len(r) \in Nat /\ f \in Nat
      /\ \A i \in 1..Len(From(r, f)) : From(r, f)[i] = r[f + i - 1]
  BY DEF From
<1>2. \A i \in 1..Len(From(r, f)) : f + i - 1 \in 1..Len(r)
  BY <1>1
<1>3. ASSUME NEW i \in 1..Len(r), i >= f
      PROVE  r[i] \in Range(From(r, f))
  <2>1. i - f + 1 \in 1..Len(From(r, f)) /\ f + (i - f + 1) - 1 = i
    BY <1>1, <1>3
  <2>2. From(r, f)[i - f + 1] = r[i]
    BY <1>1, <2>1
  <2>3. DOMAIN From(r, f) = 1..Len(From(r, f))
    BY <1>1
  <2>4. QED
    BY <2>1, <2>2, <2>3 DEF Range
<1>4. QED
  BY <1>1, <1>2, <1>3

\* A push keeps a queue within its limits.
LEMMA QueueBounded ==
  ASSUME NEW c \in Calls, NEW q \in Seq(Packets), NEW p \in Packets
  PROVE  /\ QueuePendingSignaling(c, q, p) \in Seq(Packets)
         /\ Fits(c, QueuePendingSignaling(c, q, p))
<1>1. Append(q, p) \in Seq(Packets)
  OBVIOUS
<1>2. QED
  BY <1>1, FirstToFitExists, FromKeeps DEF QueuePendingSignaling

\* The values of sessions and threads that hold nothing.
LEMMA EmptyQueues ==
  /\ \A c \in Calls : SessionOk(c, NoSession) /\ ClientOk(c, Idle)
  /\ NewSession \in Session /\ NewSession.queue = <<>>
BY BoundsAssumption, EmptyFits DEF SessionOk, ClientOk, Client, Session, NewSession, Idle, Running,
   Queue, Working, OnEndpoint

\* A session within the limit of its queue.
LEMMA BoundedIsOk ==
  ASSUME NEW c \in Calls, NEW v \in Session, Fits(c, v.queue)
  PROVE  SessionOk(c, v)
BY EmptyFits DEF SessionOk, Queue

\* Setting a flag of a session leaves its queue.
LEMMA FlagsOk ==
  ASSUME NEW v \in Session
  PROVE  /\ [v EXCEPT !.incoming = TRUE] \in Session /\ [v EXCEPT !.incoming = TRUE].queue = v.queue
         /\ [v EXCEPT !.private = TRUE] \in Session /\ [v EXCEPT !.private = TRUE].queue = v.queue
         /\ [v EXCEPT !.shared = TRUE] \in Session /\ [v EXCEPT !.shared = TRUE].queue = v.queue
BY DEF Session

\* A session whose queue is replaced by another within the limit.
LEMMA QueuesOk ==
  ASSUME NEW c \in Calls, NEW v \in Session, NEW q \in Seq(Packets), Fits(c, q)
  PROVE  SessionOk(c, [v EXCEPT !.queue = q])
<1>1. [v EXCEPT !.queue = q] \in Session /\ [v EXCEPT !.queue = q].queue = q
  BY DEF Session
<1>2. QED
  BY <1>1, BoundedIsOk

\* A call that is known has a session.
LEMMA KnownIsSession ==
  ASSUME RegistryOk, NEW c \in Calls, Known(c)
  PROVE  /\ sessions[c] \in Session /\ Fits(c, sessions[c].queue)
         /\ sessions[c].queue \in Seq(Packets)
BY DEF RegistryOk, SessionOk, Known, Queue, Session

\* One session is replaced.
LEMMA ReplaceSession ==
  ASSUME RegistryOk, NEW c \in Calls, NEW v, SessionOk(c, v),
         sessions' = [sessions EXCEPT ![c] = v],
         outgoing' \subseteq Placed, dropped' \subseteq Calls
  PROVE  RegistryOk'
BY DEF RegistryOk, SessionOk, Queue

\* One call's thread goes on.
LEMMA ReplaceClient ==
  ASSUME ClientsOk, NEW c \in Calls, NEW k, ClientOk(c, k),
         client' = [client EXCEPT ![c] = k]
  PROVE  ClientsOk'
BY DEF ClientsOk, ClientOk, Queue

\* The records a client's thread goes through.
LEMMA ComputingOk ==
  ASSUME NEW c \in Calls, NEW v \in Session, Fits(c, v.queue)
  PROVE  ClientOk(c, Computing(v))
<1>1. Fits(c, Queue(v))
  BY BoundedIsOk DEF SessionOk
<1>2. QED
  BY <1>1, BoundsAssumption DEF ClientOk, Client, Computing, Working, OnEndpoint

\* A thread that has made its object.
LEMMA Started ==
  ASSUME NEW c \in Calls, NEW x \in Starts
  PROVE  ClientOk(c, Running("starting", x, <<>>, 0))
BY EmptyFits, BoundsAssumption DEF ClientOk, Client, Running, Working, OnEndpoint, Queue

\* A thread that hands on what was queued.
LEMMA Drained ==
  ASSUME NEW c \in Calls, NEW x \in Starts, NEW p \in Seq(Packets), p # <<>>
  PROVE  ClientOk(c, Running("draining", x, p, 0))
BY EmptyFits, BoundsAssumption DEF ClientOk, Client, Running, Working, OnEndpoint, Queue

\* A thread at one of the endpoints.
LEMMA Trying ==
  ASSUME NEW c \in Calls, NEW x \in Starts, NEW n \in 0..MaxEndpoints
  PROVE  /\ ClientOk(c, Running("endpoint", x, <<>>, n))
         /\ n > 0 => /\ ClientOk(c, Running("preparing", x, <<>>, n))
                     /\ ClientOk(c, Running("prepared", x, <<>>, n))
                     /\ ClientOk(c, Running("connecting", x, <<>>, n))
                     /\ ClientOk(c, Running("handshaking", x, <<>>, n))
BY EmptyFits, BoundsAssumption DEF ClientOk, Client, Running, Working, OnEndpoint, Queue

\* The engine without calls has its types.
LEMMA InitTyped == Init => Typed
<1> SUFFICES ASSUME Init PROVE Typed
  OBVIOUS
<1>1. RegistryOk /\ ClientsOk
  BY EmptyQueues DEF Init, RegistryOk, ClientsOk, SessionOk, ClientOk
<1>2. SignalersOk /\ StoppersOk /\ InstalledOk /\ MediaOk
  BY DEF Init, SignalersOk, StoppersOk, StopperIdle, InstalledOk, MediaOk
<1>3. ObjectsOk /\ HistoryOk
  BY BoundsAssumption DEF Init, ObjectsOk, HistoryOk
<1>4. QED
  BY <1>1, <1>2, <1>3 DEF Typed

-------------------------------------------------------------------------------
(* Every action keeps the types.                                            *)

\* The key exchange keeps the types.
LEMMA DhTyped ==
  ASSUME Typed, NEW c \in Calls,
         \/ CreateOutgoingDh(c) \/ BindOutgoingCall(c) \/ RegisterIncomingGAHash(c)
         \/ CreateIncomingDh(c) \/ AcceptPeerGB(c) \/ ConfirmPeerGAOrB(c) \/ CopyBack(c)
  PROVE  Typed'
<1> USE DEF Typed, registry, installed, threads, objects, history
<1> DEFINE Rest == /\ SignalersOk' /\ StoppersOk' /\ InstalledOk'
                   /\ MediaOk' /\ ObjectsOk' /\ HistoryOk'
<1>0. Rest
  BY DEF SignalersOk, StoppersOk, InstalledOk, MediaOk, ObjectsOk, HistoryOk, ComputeOnCopy,
     CreateOutgoingDh, BindOutgoingCall, RegisterIncomingGAHash, CreateIncomingDh, AcceptPeerGB,
     ConfirmPeerGAOrB, CopyBack
<1>1. CASE CreateOutgoingDh(c)
  <2>1. RegistryOk' /\ ClientsOk'
    BY <1>1 DEF CreateOutgoingDh, RegistryOk, ClientsOk, SessionOk, ClientOk
  <2>2. QED
    BY <1>0, <2>1
<1>2. CASE BindOutgoingCall(c)
  <2>1. SessionOk(c, [NewSession EXCEPT !.private = TRUE])
    <3> DEFINE v == [NewSession EXCEPT !.private = TRUE]
    <3>1. v \in Session /\ v.queue = <<>>
      BY EmptyQueues, FlagsOk
    <3> HIDE DEF v
    <3>2. SessionOk(c, v)
      BY <3>1, EmptyFits, BoundedIsOk, BoundsAssumption
    <3>3. QED
      BY <3>2 DEF v
  <2>2. RegistryOk'
    BY <1>2, <2>1, ReplaceSession DEF BindOutgoingCall, RegistryOk
  <2>3. ClientsOk'
    BY <1>2 DEF BindOutgoingCall, ClientsOk, ClientOk
  <2>4. QED
    BY <1>0, <2>2, <2>3
<1>3. CASE RegisterIncomingGAHash(c)
  <2> DEFINE v == IF Known(c) THEN sessions[c] ELSE NewSession
  <2>1. v \in Session /\ Fits(c, v.queue)
    BY EmptyQueues, EmptyFits, KnownIsSession, BoundsAssumption
  <2>2. SessionOk(c, [v EXCEPT !.incoming = TRUE])
    BY <2>1, FlagsOk, BoundedIsOk
  <2>3. sessions' = [sessions EXCEPT ![c] = [v EXCEPT !.incoming = TRUE]]
    BY <1>3 DEF RegisterIncomingGAHash, RegistryOk
  <2> HIDE DEF v
  <2>4. RegistryOk'
    BY <1>3, <2>2, <2>3, ReplaceSession DEF RegisterIncomingGAHash, RegistryOk
  <2>5. ClientsOk'
    BY <1>3 DEF RegisterIncomingGAHash, ClientsOk, ClientOk
  <2>6. QED
    BY <1>0, <2>4, <2>5
<1>4. ASSUME NEW v \in Session, Fits(c, v.queue), ComputeOnCopy(c, v)
      PROVE  Typed'
  <2>1. ClientOk(c, Computing(v))
    BY <1>4, ComputingOk
  <2>2. ClientsOk'
    BY <1>4, <2>1, ReplaceClient DEF ComputeOnCopy
  <2>3. RegistryOk'
    BY <1>4 DEF ComputeOnCopy, RegistryOk, SessionOk
  <2>4. QED
    BY <1>0, <2>2, <2>3
<1>5. CASE CreateIncomingDh(c)
  BY <1>4, <1>5, KnownIsSession, FlagsOk DEF CreateIncomingDh
<1>6. CASE AcceptPeerGB(c)
  BY <1>4, <1>6, KnownIsSession, FlagsOk DEF AcceptPeerGB
<1>7. CASE ConfirmPeerGAOrB(c)
  BY <1>4, <1>7, KnownIsSession, FlagsOk DEF ConfirmPeerGAOrB
<1>8. CASE CopyBack(c)
  <2>1. SessionOk(c, client[c].copy)
    BY <1>8 DEF CopyBack, ClientsOk, ClientOk, SessionOk
  <2>2. RegistryOk'
    BY <1>8, <2>1, ReplaceSession DEF CopyBack, RegistryOk
  <2>3. ClientsOk'
    BY <1>8, EmptyQueues, ReplaceClient DEF CopyBack
  <2>4. QED
    BY <1>0, <2>2, <2>3
<1>9. QED
  BY <1>1, <1>2, <1>3, <1>5, <1>6, <1>7, <1>8

\* So does the start of a modern call,
LEMMA ModernTyped ==
  ASSUME Typed, NEW c \in Calls,
         \/ \E x \in Starts : StartConnection(c, x)
         \/ InstallConnection(c) \/ DeliverPending(c)
  PROVE  Typed'
<1> USE DEF Typed, registry, installed, threads, objects, history
<1>1. CASE \E x \in Starts : StartConnection(c, x)
  <2>1. PICK x \in Starts : StartConnection(c, x)
    BY <1>1
  <2>2. ClientOk(c, Running("starting", x, <<>>, 0))
    BY Started
  <2>3. ClientsOk'
    BY <2>1, <2>2, ReplaceClient DEF StartConnection
  <2>4. ObjectsOk'
    BY <2>1 DEF StartConnection, ObjectsOk
  <2>5. RegistryOk' /\ InstalledOk' /\ MediaOk' /\ SignalersOk' /\ StoppersOk' /\ HistoryOk'
    BY <2>1 DEF StartConnection, RegistryOk, SessionOk, InstalledOk, MediaOk, SignalersOk,
       StoppersOk, HistoryOk
  <2>6. QED
    BY <2>3, <2>4, <2>5
<1>2. ASSUME NEW p \in Seq(Packets), client[c].at \in Working
      PROVE  ClientOk(c, Draining(c, p))
  <2>1. client[c].start \in Starts
    BY <1>2 DEF ClientsOk, ClientOk
  <2>2. CASE p = <<>>
    BY <2>2, EmptyQueues DEF Draining
  <2>3. CASE p # <<>>
    BY <2>1, <2>3, Drained DEF Draining
  <2>4. QED
    BY <2>2, <2>3
<1>3. CASE InstallConnection(c)
  <2>1. client[c].at \in Working /\ client[c].start \in Starts
    BY <1>3 DEF InstallConnection, Working, OnEndpoint, ClientsOk, ClientOk
  <2>2. Queue(sessions[c]) \in Seq(Packets)
    BY KnownIsSession DEF Queue, Known
  <2>3. ClientsOk'
    BY <1>3, <1>2, <2>1, <2>2, ReplaceClient DEF InstallConnection
  <2>4. RegistryOk'
    <3>1. CASE Known(c)
      <4>1. SessionOk(c, [sessions[c] EXCEPT !.queue = <<>>])
        <5> DEFINE q == <<>>
        <5>1. q \in Seq(Packets) /\ Fits(c, q)
          BY EmptyFits
        <5> HIDE DEF q
        <5>2. SessionOk(c, [sessions[c] EXCEPT !.queue = q])
          BY <3>1, <5>1, KnownIsSession, QueuesOk
        <5>3. QED
          BY <5>2 DEF q
      <4>2. sessions' = [sessions EXCEPT ![c] = [sessions[c] EXCEPT !.queue = <<>>]]
        BY <1>3, <3>1 DEF InstallConnection, SessionsAfterSwap
      <4>3. QED
        BY <1>3, <4>1, <4>2, ReplaceSession DEF InstallConnection, RegistryOk
    <3>2. CASE ~Known(c)
      BY <1>3, <3>2 DEF InstallConnection, SessionsAfterSwap, RegistryOk, SessionOk
    <3>3. QED
      BY <3>1, <3>2
  <2>5. InstalledOk'
    BY <1>3, <2>1 DEF InstallConnection, InstalledOk
  <2>6. MediaOk' /\ SignalersOk' /\ StoppersOk' /\ ObjectsOk' /\ HistoryOk'
    BY <1>3 DEF InstallConnection, MediaOk, SignalersOk, StoppersOk, ObjectsOk, HistoryOk
  <2>7. QED
    BY <2>3, <2>4, <2>5, <2>6
<1>4. CASE DeliverPending(c)
  <2>1. /\ client[c].at \in Working /\ client[c].start \in Starts
        /\ client[c].pending \in Seq(Packets) /\ client[c].pending # <<>>
    BY <1>4 DEF DeliverPending, Working, OnEndpoint, ClientsOk, ClientOk, Client
  <2>2. Head(client[c].pending) \in Packets /\ Tail(client[c].pending) \in Seq(Packets)
    BY <2>1
  <2>3. client' = [client EXCEPT ![c] = Draining(c, Tail(client[c].pending))]
    BY <1>4 DEF DeliverPending, ClientsOk
  <2>4. ClientsOk'
    BY <1>2, <2>1, <2>2, <2>3, ReplaceClient
  <2>5. HistoryOk'
    BY <1>4, <2>1, <2>2 DEF DeliverPending, HistoryOk
  <2>6. RegistryOk' /\ InstalledOk' /\ MediaOk' /\ SignalersOk' /\ StoppersOk' /\ ObjectsOk'
    BY <1>4 DEF DeliverPending, RegistryOk, SessionOk, InstalledOk, MediaOk, SignalersOk,
       StoppersOk, ObjectsOk
  <2>7. QED
    BY <2>4, <2>5, <2>6
<1>5. QED
  BY <1>1, <1>3, <1>4

\* that of a classic one,
LEMMA ClassicTyped ==
  ASSUME Typed, NEW c \in Calls,
         \/ \E x \in Starts : StartClassic(c, x)
         \/ CheckIdle(c) \/ PrepareEndpoint(c) \/ CheckPrepared(c) \/ MarkConnecting(c)
         \/ EndpointFails(c) \/ ClassicFails(c) \/ PublishMedia(c)
  PROVE  Typed'
<1> USE DEF Typed, registry, installed, threads, objects, history
<1> DEFINE k == client[c]
<1>1. RegistryOk' /\ SignalersOk' /\ StoppersOk' /\ HistoryOk'
  BY DEF RegistryOk, SessionOk, SignalersOk, StoppersOk, HistoryOk, StartClassic,
     CheckIdle, PrepareEndpoint, CheckPrepared, MarkConnecting, EndpointFails, ClassicFails,
     PublishMedia
<1>2. MediaOk'
  BY DEF MediaOk, MediaStopped, StartClassic, CheckIdle, PrepareEndpoint, CheckPrepared,
     MarkConnecting, EndpointFails,
     ClassicFails, PublishMedia
<1>3. k.left \in 0..MaxEndpoints /\ (k.at \in Working => k.start \in Starts)
  BY DEF ClientsOk, ClientOk, Client
<1>4. k.at \in OnEndpoint \ {"endpoint"} => k.left > 0
  BY DEF ClientsOk, ClientOk
<1>5. client \in [Calls -> Client]
  BY DEF ClientsOk
<1>6. CASE \E x \in Starts : StartClassic(c, x)
  <2>1. PICK x \in Starts, n \in 1..MaxEndpoints :
          StartClassic(c, x) /\ client' = [client EXCEPT ![c] = Running("endpoint", x, <<>>, n)]
    BY <1>6 DEF StartClassic
  <2>2. ClientOk(c, Running("endpoint", x, <<>>, n))
    BY Trying, BoundsAssumption
  <2>3. ClientsOk'
    BY <2>1, <2>2, ReplaceClient
  <2>4. ObjectsOk' /\ InstalledOk'
    BY <2>1 DEF StartClassic, ObjectsOk, InstalledOk
  <2>5. QED
    BY <1>1, <1>2, <2>3, <2>4
<1>7. CASE CheckIdle(c)
  <2>1. ClientOk(c, Running("preparing", k.start, <<>>, k.left))
    BY <1>7, <1>3, <1>4, Trying DEF CheckIdle, Working, OnEndpoint
  <2>2. client' = [client EXCEPT ![c] = Running("preparing", k.start, <<>>, k.left)]
    BY <1>7, <1>5 DEF CheckIdle
  <2>3. ClientsOk'
    BY <2>1, <2>2, ReplaceClient
  <2>4. ObjectsOk' /\ InstalledOk'
    BY <1>7 DEF CheckIdle, ObjectsOk, InstalledOk
  <2>5. QED
    BY <1>1, <1>2, <2>3, <2>4
<1>8. CASE PrepareEndpoint(c)
  <2>1. ClientOk(c, Running("prepared", k.start, <<>>, k.left))
    BY <1>8, <1>3, <1>4, Trying DEF PrepareEndpoint, Working, OnEndpoint
  <2>2. client' = [client EXCEPT ![c] = Running("prepared", k.start, <<>>, k.left)]
    BY <1>8, <1>5 DEF PrepareEndpoint
  <2>3. ClientsOk'
    BY <2>1, <2>2, ReplaceClient
  <2>4. ObjectsOk' /\ InstalledOk'
    BY <1>8 DEF PrepareEndpoint, ObjectsOk, InstalledOk
  <2>5. QED
    BY <1>1, <1>2, <2>3, <2>4
<1>9. CASE CheckPrepared(c)
  <2>1. ClientOk(c, Running("connecting", k.start, <<>>, k.left))
    BY <1>9, <1>3, <1>4, Trying DEF CheckPrepared, Working, OnEndpoint
  <2>2. client' = [client EXCEPT ![c] = Running("connecting", k.start, <<>>, k.left)]
    BY <1>9, <1>5 DEF CheckPrepared
  <2>3. ClientsOk'
    BY <2>1, <2>2, ReplaceClient
  <2>4. ObjectsOk' /\ InstalledOk'
    BY <1>9 DEF CheckPrepared, ObjectsOk, InstalledOk
  <2>5. QED
    BY <1>1, <1>2, <2>3, <2>4
<1>10. CASE MarkConnecting(c)
  <2>1. ClientOk(c, Running("handshaking", k.start, <<>>, k.left))
    BY <1>10, <1>3, <1>4, Trying DEF MarkConnecting, Working, OnEndpoint
  <2>2. client' = [client EXCEPT ![c] = Running("handshaking", k.start, <<>>, k.left)]
    BY <1>10, <1>5 DEF MarkConnecting
  <2>3. ClientsOk'
    BY <2>1, <2>2, ReplaceClient
  <2>4. ObjectsOk' /\ InstalledOk'
    BY <1>10 DEF MarkConnecting, ObjectsOk, InstalledOk
  <2>5. QED
    BY <1>1, <1>2, <2>3, <2>4
<1>11. CASE EndpointFails(c)
  <2>1. k.at \in Working /\ k.left - 1 \in 0..MaxEndpoints
    BY <1>11, <1>3, <1>4, BoundsAssumption DEF EndpointFails, Working, OnEndpoint
  <2>2. ClientOk(c, Running("endpoint", k.start, <<>>, k.left - 1))
    BY <1>3, <2>1, Trying
  <2>3. client' = [client EXCEPT ![c] = Running("endpoint", k.start, <<>>, k.left - 1)]
    BY <1>11, <1>5 DEF EndpointFails
  <2>4. ClientsOk'
    BY <2>2, <2>3, ReplaceClient
  <2>5. ObjectsOk' /\ InstalledOk'
    BY <1>11 DEF EndpointFails, ObjectsOk, InstalledOk
  <2>6. QED
    BY <1>1, <1>2, <2>4, <2>5
<1>12. CASE ClassicFails(c)
  <2>1. ClientsOk'
    BY <1>12, EmptyQueues, ReplaceClient DEF ClassicFails
  <2>2. ObjectsOk' /\ InstalledOk'
    BY <1>12 DEF ClassicFails, ObjectsOk, InstalledOk
  <2>3. QED
    BY <1>1, <1>2, <2>1, <2>2
<1>13. CASE PublishMedia(c)
  <2>1. ClientsOk'
    BY <1>13, EmptyQueues, ReplaceClient DEF PublishMedia
  <2>2. ObjectsOk' /\ InstalledOk'
    BY <1>13, <1>3 DEF PublishMedia, ObjectsOk, InstalledOk, Working, OnEndpoint
  <2>3. QED
    BY <1>1, <1>2, <2>1, <2>2
<1>14. QED
  BY <1>6, <1>7, <1>8, <1>9, <1>10, <1>11, <1>12, <1>13

\* signaling that arrives,
LEMMA SignalingTyped ==
  ASSUME Typed, NEW s \in Signalers,
         \/ \E c \in Calls : ReceiveSignalingData(s, c)
         \/ DeliverSignaling(s)
  PROVE  Typed'
<1> USE DEF Typed, registry, installed, threads, objects, history
<1>1. CASE \E c \in Calls : ReceiveSignalingData(s, c)
  <2>1. PICK c \in Calls : ReceiveSignalingData(s, c)
    BY <1>1
  <2> DEFINE p == Len(arrived) + 1
  <2>2. p \in Packets /\ Len(arrived) < MaxPackets
    BY <2>1, BoundsAssumption DEF ReceiveSignalingData, HistoryOk, Packets
  <2>3. HistoryOk'
    BY <2>1, <2>2, BoundsAssumption DEF ReceiveSignalingData, HistoryOk
  <2>4. SignalersOk'
    <3>1. CASE GoesToConnection(c)
      <4>1. connection \in Starts
        BY <3>1 DEF GoesToConnection, InstalledOk
      <4>2. signaler' = [signaler EXCEPT ![s] = [packet |-> p, to |-> connection]]
        BY <2>1, <3>1 DEF ReceiveSignalingData
      <4> HIDE DEF p
      <4>3. QED
        BY <2>2, <4>1, <4>2 DEF SignalersOk
    <3>2. CASE ~GoesToConnection(c)
      BY <2>1, <3>2 DEF ReceiveSignalingData, SignalersOk
    <3>3. QED
      BY <3>1, <3>2
  <2>5. RegistryOk'
    <3>1. CASE Known(c) /\ ~GoesToConnection(c)
      <4> DEFINE q == QueuePendingSignaling(c, sessions[c].queue, p)
      <4>1. q \in Seq(Packets) /\ Fits(c, q)
        BY <2>2, <3>1, KnownIsSession, QueueBounded
      <4>2. sessions' = [sessions EXCEPT ![c] = [sessions[c] EXCEPT !.queue = q]]
        BY <2>1, <3>1 DEF ReceiveSignalingData
      <4> HIDE DEF q
      <4>3. SessionOk(c, [sessions[c] EXCEPT !.queue = q])
        BY <4>1, <3>1, KnownIsSession, QueuesOk
      <4>4. QED
        BY <2>1, <4>2, <4>3, ReplaceSession DEF ReceiveSignalingData, RegistryOk
    <3>2. CASE ~(Known(c) /\ ~GoesToConnection(c))
      BY <2>1, <3>2 DEF ReceiveSignalingData, RegistryOk, SessionOk
    <3>3. QED
      BY <3>1, <3>2
  <2>6. InstalledOk' /\ MediaOk' /\ ClientsOk' /\ StoppersOk' /\ ObjectsOk'
    BY <2>1 DEF ReceiveSignalingData, InstalledOk, MediaOk, ClientsOk, ClientOk, StoppersOk,
       ObjectsOk
  <2>7. QED
    BY <2>3, <2>4, <2>5, <2>6
<1>2. CASE DeliverSignaling(s)
  <2>1. HistoryOk' /\ SignalersOk'
    BY <1>2 DEF DeliverSignaling, HistoryOk, SignalersOk
  <2>2. RegistryOk' /\ InstalledOk' /\ MediaOk' /\ ClientsOk' /\ StoppersOk' /\ ObjectsOk'
    BY <1>2 DEF DeliverSignaling, RegistryOk, SessionOk, InstalledOk, MediaOk, ClientsOk, ClientOk,
       StoppersOk, ObjectsOk
  <2>3. QED
    BY <2>1, <2>2
<1>3. QED
  BY <1>1, <1>2

\* and what stops and drops.
LEMMA StopTyped ==
  ASSUME Typed, NEW t \in Stoppers,
         \/ \E c \in Calls : DropCall(t, c)
         \/ StopMedia(t) \/ StopTaken(t)
  PROVE  Typed'
<1> USE DEF Typed, registry, installed, threads, objects, history
<1>1. SignalersOk' /\ HistoryOk'
  BY DEF SignalersOk, HistoryOk, DropCall, StopMedia, StopTaken
<1>2. ClientsOk'
  BY DEF ClientsOk, ClientOk, DropCall, StopMedia, StopTaken
<1>3. MediaOk'
  BY DEF MediaOk, MediaStopped, DropCall, StopMedia, StopTaken
<1>4. CASE \E c \in Calls : DropCall(t, c)
  <2>1. PICK c \in Calls : DropCall(t, c)
    BY <1>4
  <2>2. RegistryOk'
    BY <2>1, EmptyQueues, ReplaceSession DEF DropCall, RegistryOk
  <2>3. InstalledOk' /\ ObjectsOk'
    BY <2>1 DEF DropCall, InstalledOk, ObjectsOk
  <2>4. StoppersOk'
    BY <2>1 DEF DropCall, StoppersOk, StopperIdle, InstalledOk
  <2>5. QED
    BY <1>1, <1>2, <1>3, <2>2, <2>3, <2>4
<1>5. CASE StopMedia(t)
  <2>1. StoppersOk'
    BY <1>5 DEF StopMedia, StoppersOk, InstalledOk
  <2>2. RegistryOk' /\ InstalledOk' /\ ObjectsOk'
    BY <1>5 DEF StopMedia, RegistryOk, SessionOk, InstalledOk, ObjectsOk
  <2>3. QED
    BY <1>1, <1>2, <1>3, <2>1, <2>2
<1>6. CASE StopTaken(t)
  <2>1. StoppersOk'
    BY <1>6 DEF StopTaken, StoppersOk, StopperIdle
  <2>2. ObjectsOk'
    BY <1>6 DEF StopTaken, StoppersOk, ObjectsOk
  <2>3. RegistryOk' /\ InstalledOk'
    BY <1>6 DEF StopTaken, RegistryOk, SessionOk, InstalledOk
  <2>4. QED
    BY <1>1, <1>2, <1>3, <2>1, <2>2, <2>3
<1>7. QED
  BY <1>4, <1>5, <1>6

\* Every step keeps the types.
LEMMA NextTyped == Typed /\ [Next]_vars => Typed'
<1> SUFFICES ASSUME Typed, [Next]_vars PROVE Typed'
  OBVIOUS
<1>1. CASE UNCHANGED vars
  BY <1>1 DEF vars, registry, installed, threads, objects, history, Typed, RegistryOk, SessionOk,
     InstalledOk, MediaOk, ClientsOk, ClientOk, SignalersOk, StoppersOk, ObjectsOk, HistoryOk
<1>2. CASE Next
  BY <1>2, DhTyped, ModernTyped, ClassicTyped, SignalingTyped, StopTyped DEF Next
<1>3. QED
  BY <1>1, <1>2

\* TypeOK holds in every reachable state: whatever the engine's operations do
\* to each other, no queue of signaling outgrows kMaxPendingSignalingPackets,
\* not even by way of a copy that is put back.
THEOREM TypeCorrect == Spec => []TypeOK
<1>1. Spec => []Typed
  BY InitTyped, NextTyped, PTL DEF Spec
<1>2. QED
  BY <1>1, TypedIsTypeOK, PTL

-------------------------------------------------------------------------------
(* Routing.  Wherever a packet is held, and whichever connection is on its  *)
(* way somewhere, they belong to the call of the place that holds them.     *)

OwnIn(q, c, a) == \A i \in 1..Len(q) : q[i] \in 1..Len(a) /\ a[q[i]] = c

SessionsOwn == \A c \in Calls : OwnIn(Queue(sessions[c]), c, arrived)
CopiesOwn == \A c \in Calls : OwnIn(Queue(client[c].copy), c, arrived)
PendingOwn == \A c \in Calls : OwnIn(client[c].pending, c, arrived)
StartsOwn == \A c \in Calls : client[c].at \in Working => owner[client[c].start] = c

ConnectionOwn == connection # NoStart => callId \in Calls /\ owner[connection] = callId

SignalersOwn ==
  \A s \in Signalers : signaler[s] # SignalerIdle =>
    /\ signaler[s].packet \in 1..Len(arrived)
    /\ owner[signaler[s].to] = arrived[signaler[s].packet]

HandedOwn == \A d \in handed : d[1] \in 1..Len(arrived) /\ owner[d[2]] = arrived[d[1]]

Routes ==
  /\ SessionsOwn /\ CopiesOwn /\ PendingOwn /\ StartsOwn
  /\ ConnectionOwn /\ SignalersOwn /\ HandedOwn

\* Nothing belongs to any call.
LEMMA OwnEmpty == ASSUME NEW c, NEW a PROVE OwnIn(<<>>, c, a)
BY DEF OwnIn

\* What is left of a call's packets is the call's.
LEMMA OwnTail ==
  ASSUME NEW q \in Seq(Packets), q # <<>>, NEW c, NEW a, OwnIn(q, c, a)
  PROVE  OwnIn(Tail(q), c, a) /\ Head(q) \in 1..Len(a) /\ a[Head(q)] = c
<1>1. Len(q) \in Nat \ {0} /\ Head(q) = q[1] /\ Len(Tail(q)) = Len(q) - 1
  OBVIOUS
<1>2. \A i \in 1..Len(Tail(q)) : Tail(q)[i] = q[i + 1] /\ i + 1 \in 1..Len(q)
  BY <1>1
<1>3. QED
  BY <1>1, <1>2 DEF OwnIn

\* One more packet of the call.
LEMMA OwnAppend ==
  ASSUME NEW q \in Seq(Packets), NEW p \in Packets, NEW c, NEW a,
         OwnIn(q, c, a), p \in 1..Len(a), a[p] = c
  PROVE  OwnIn(Append(q, p), c, a)
BY DEF OwnIn

\* QueuePendingSignaling, which may throw out the oldest.
LEMMA OwnQueued ==
  ASSUME NEW q \in Seq(Packets), NEW p \in Packets, NEW c \in Calls, NEW a,
         OwnIn(q, c, a), p \in 1..Len(a), a[p] = c
  PROVE  OwnIn(QueuePendingSignaling(c, q, p), c, a)
<1> DEFINE r == Append(q, p)
           f == FirstToFit(c, r)
<1>1. r \in Seq(Packets) /\ OwnIn(r, c, a)
  BY OwnAppend
<1>2. f \in 1..(Len(r) + 1)
  BY <1>1, FirstToFitExists
<1>3. QueuePendingSignaling(c, q, p) = From(r, f)
  BY DEF QueuePendingSignaling
<1> HIDE DEF r, f
<1>4. \A i \in 1..Len(From(r, f)) : From(r, f)[i] = r[f + i - 1] /\ f + i - 1 \in 1..Len(r)
  BY <1>1, <1>2, FromKeeps
<1>5. QED
  BY <1>1, <1>3, <1>4 DEF OwnIn

\* What has arrived keeps its number.
LEMMA OwnGrows ==
  ASSUME NEW q, NEW c, NEW a \in Seq(Calls), NEW e \in Calls, OwnIn(q, c, a)
  PROVE  OwnIn(q, c, Append(a, e))
<1>1. \A n \in 1..Len(a) : n \in 1..Len(Append(a, e)) /\ Append(a, e)[n] = a[n]
  OBVIOUS
<1>2. QED
  BY <1>1 DEF OwnIn

\* Replacing a session by one with packets of its call.
LEMMA SetSession ==
  ASSUME RegistryOk, SessionsOwn, NEW c \in Calls, NEW v, OwnIn(Queue(v), c, arrived),
         sessions' = [sessions EXCEPT ![c] = v], arrived' = arrived
  PROVE  SessionsOwn'
BY DEF RegistryOk, SessionsOwn, Queue

\* An object keeps the call it was made for.
OwnersKept == \A x \in Starts : owner[x] # NoCall => owner'[x] = owner[x]

\* A thread goes on with packets and objects of its call.
LEMMA SetClient ==
  ASSUME ClientsOk, CopiesOwn, PendingOwn, StartsOwn, OwnersKept,
         NEW c \in Calls, NEW k, OwnIn(Queue(k.copy), c, arrived), OwnIn(k.pending, c, arrived),
         k.at \in Working => owner'[k.start] = c,
         client' = [client EXCEPT ![c] = k], arrived' = arrived
  PROVE  CopiesOwn' /\ PendingOwn' /\ StartsOwn'
<1>1. client'[c] = k /\ \A d \in Calls \ {c} : client'[d] = client[d]
  BY DEF ClientsOk
<1>2. CopiesOwn' /\ PendingOwn'
  BY <1>1 DEF CopiesOwn, PendingOwn, Queue
<1>3. \A d \in Calls \ {c} : client[d].at \in Working => owner'[client[d].start] = d
  BY CallsAssumption DEF ClientsOk, ClientOk, StartsOwn, OwnersKept
<1>4. StartsOwn'
  BY <1>1, <1>3 DEF StartsOwn
<1>5. QED
  BY <1>2, <1>4

\* Installed objects and delivering threads, where neither changes.
LEMMA ObjectsKept ==
  ASSUME Typed, Routes, OwnersKept, arrived' = arrived,
         UNCHANGED <<connection, callId, signaler, handed>>
  PROVE  ConnectionOwn' /\ SignalersOwn' /\ HandedOwn'
<1> USE CallsAssumption DEF Typed, Routes
<1>1. ConnectionOwn'
  BY DEF ConnectionOwn, InstalledOk, OwnersKept
<1>2. SignalersOwn'
  <2> SUFFICES ASSUME NEW s \in Signalers, signaler[s] # SignalerIdle
               PROVE  /\ signaler[s].packet \in 1..Len(arrived)
                      /\ owner'[signaler[s].to] = arrived[signaler[s].packet]
    BY DEF SignalersOwn
  <2>1. signaler[s].to \in Starts
    BY DEF SignalersOk
  <2>2. arrived[signaler[s].packet] \in Calls
    BY DEF SignalersOwn, HistoryOk
  <2>3. QED
    BY <2>1, <2>2 DEF SignalersOwn, OwnersKept
<1>3. HandedOwn'
  <2> SUFFICES ASSUME NEW d \in handed
               PROVE  d[1] \in 1..Len(arrived) /\ owner'[d[2]] = arrived[d[1]]
    BY DEF HandedOwn
  <2>1. d[2] \in Starts /\ arrived[d[1]] \in Calls
    BY DEF HandedOwn, HistoryOk
  <2>2. QED
    BY <2>1 DEF HandedOwn, OwnersKept
<1>4. QED
  BY <1>1, <1>2, <1>3

\* No packet is anywhere at first.
LEMMA InitRoutes == Init => Routes
<1> SUFFICES ASSUME Init PROVE Routes
  OBVIOUS
<1>1. SessionsOwn
  BY OwnEmpty DEF Init, SessionsOwn, Queue
<1>2. CopiesOwn /\ PendingOwn /\ StartsOwn
  BY OwnEmpty DEF Init, CopiesOwn, PendingOwn, StartsOwn, Queue, Idle, Running, Working, OnEndpoint
<1>3. ConnectionOwn /\ SignalersOwn /\ HandedOwn
  BY DEF Init, ConnectionOwn, SignalersOwn, HandedOwn
<1>4. QED
  BY <1>1, <1>2, <1>3 DEF Routes

\* The key exchange moves a session to its copy and back.
LEMMA DhRoutes ==
  ASSUME Typed, Routes, NEW c \in Calls,
         \/ CreateOutgoingDh(c) \/ BindOutgoingCall(c) \/ RegisterIncomingGAHash(c)
         \/ CreateIncomingDh(c) \/ AcceptPeerGB(c) \/ ConfirmPeerGAOrB(c) \/ CopyBack(c)
  PROVE  Routes'
<1> USE DEF Typed, Routes, registry, installed, threads, objects, history
<1>1. /\ UNCHANGED <<arrived, owner, connection, callId, signaler, handed>>
      /\ OwnersKept
  BY DEF OwnersKept, ComputeOnCopy, CreateOutgoingDh, BindOutgoingCall, RegisterIncomingGAHash,
     CreateIncomingDh, AcceptPeerGB, ConfirmPeerGAOrB, CopyBack
<1>2. ConnectionOwn' /\ SignalersOwn' /\ HandedOwn'
  BY <1>1, ObjectsKept
<1>3. ASSUME client' = client PROVE CopiesOwn' /\ PendingOwn' /\ StartsOwn'
  BY <1>1, <1>3 DEF CopiesOwn, PendingOwn, StartsOwn, Queue
<1>4. CASE CreateOutgoingDh(c)
  <2>1. SessionsOwn'
    BY <1>4 DEF CreateOutgoingDh, SessionsOwn, Queue
  <2>2. QED
    BY <1>2, <1>3, <1>4, <2>1 DEF CreateOutgoingDh
<1>5. CASE BindOutgoingCall(c)
  <2> DEFINE v == [NewSession EXCEPT !.private = TRUE]
  <2>1. v \in Session /\ v.queue = <<>>
    BY EmptyQueues, FlagsOk
  <2>2. sessions' = [sessions EXCEPT ![c] = v]
    BY <1>5 DEF BindOutgoingCall
  <2> HIDE DEF v
  <2>3. Queue(v) = <<>>
    BY <2>1 DEF Queue
  <2>4. SessionsOwn'
    BY <1>1, <2>2, <2>3, OwnEmpty, SetSession
  <2>5. QED
    BY <1>2, <1>3, <1>5, <2>4 DEF BindOutgoingCall
<1>6. CASE RegisterIncomingGAHash(c)
  <2> DEFINE u == IF Known(c) THEN sessions[c] ELSE NewSession
             v == [u EXCEPT !.incoming = TRUE]
  <2>1. u \in Session /\ u.queue = Queue(sessions[c])
    BY EmptyQueues, KnownIsSession DEF Queue, Known
  <2>2. sessions' = [sessions EXCEPT ![c] = v]
    BY <1>6 DEF RegisterIncomingGAHash, RegistryOk
  <2> HIDE DEF u
  <2>3. v \in Session /\ v.queue = u.queue
    BY <2>1, FlagsOk
  <2> HIDE DEF v
  <2>4. OwnIn(v.queue, c, arrived)
    BY <2>1, <2>3 DEF SessionsOwn
  <2>5. OwnIn(Queue(v), c, arrived)
    BY <2>4, OwnEmpty DEF Queue
  <2>6. SessionsOwn'
    BY <1>1, <2>2, <2>5, SetSession
  <2>7. QED
    BY <1>2, <1>3, <1>6, <2>6 DEF RegisterIncomingGAHash
<1>7. ASSUME NEW v \in Session, v.queue = sessions[c].queue, Known(c), ComputeOnCopy(c, v)
      PROVE  Routes'
  <2>1. OwnIn(Queue(v), c, arrived)
    BY <1>7, OwnEmpty DEF SessionsOwn, Queue, Known
  <2>2. /\ Computing(v).copy = v /\ Computing(v).pending = <<>>
        /\ Computing(v).at \notin Working
    BY DEF Computing, Working, OnEndpoint
  <2>3. client' = [client EXCEPT ![c] = Computing(v)] /\ sessions' = sessions
    BY <1>7 DEF ComputeOnCopy
  <2>4. CopiesOwn' /\ PendingOwn' /\ StartsOwn'
    <3>1. /\ OwnIn(Queue(Computing(v).copy), c, arrived)
          /\ OwnIn(Computing(v).pending, c, arrived)
      BY <2>1, <2>2, OwnEmpty
    <3>2. QED
      BY <1>1, <2>2, <2>3, <3>1, SetClient
  <2>5. SessionsOwn'
    BY <1>1, <2>3 DEF SessionsOwn, Queue
  <2>6. QED
    BY <1>2, <2>4, <2>5
<1>8. CASE CreateIncomingDh(c)
  BY <1>7, <1>8, KnownIsSession, FlagsOk DEF CreateIncomingDh
<1>9. CASE AcceptPeerGB(c)
  BY <1>7, <1>9, KnownIsSession, FlagsOk DEF AcceptPeerGB
<1>10. CASE ConfirmPeerGAOrB(c)
  BY <1>7, <1>10, KnownIsSession, FlagsOk DEF ConfirmPeerGAOrB
<1>11. CASE CopyBack(c)
  <2>1. SessionsOwn'
    BY <1>1, <1>11, SetSession DEF CopyBack, CopiesOwn
  <2>2. CopiesOwn' /\ PendingOwn' /\ StartsOwn'
    <3>1. Idle.copy = NoSession /\ Idle.pending = <<>> /\ Idle.at \notin Working
      BY DEF Idle, Running, Working, OnEndpoint
    <3>2. OwnIn(Queue(Idle.copy), c, arrived) /\ OwnIn(Idle.pending, c, arrived)
      BY <3>1, OwnEmpty DEF Queue
    <3>3. QED
      BY <1>1, <1>11, <3>1, <3>2, SetClient DEF CopyBack
  <2>3. QED
    BY <1>2, <2>1, <2>2
<1>12. QED
  BY <1>4, <1>5, <1>6, <1>8, <1>9, <1>10, <1>11

\* A thread goes on with its start.
LEMMA SetRunning ==
  ASSUME ClientsOk, CopiesOwn, PendingOwn, StartsOwn, OwnersKept,
         NEW c \in Calls, NEW a, NEW x, NEW p, NEW n,
         OwnIn(p, c, arrived), a \in Working => owner'[x] = c,
         client' = [client EXCEPT ![c] = Running(a, x, p, n)], arrived' = arrived
  PROVE  CopiesOwn' /\ PendingOwn' /\ StartsOwn'
<1> DEFINE k == Running(a, x, p, n)
<1>1. k.at = a /\ k.start = x /\ k.pending = p /\ Queue(k.copy) = <<>>
  BY DEF Running, Queue
<1>2. client' = [client EXCEPT ![c] = k]
  OBVIOUS
<1> HIDE DEF k
<1>3. OwnIn(Queue(k.copy), c, arrived) /\ OwnIn(k.pending, c, arrived)
  BY <1>1, OwnEmpty
<1>4. QED
  BY <1>1, <1>2, <1>3, SetClient

\* A thread is done.
LEMMA SetIdle ==
  ASSUME ClientsOk, CopiesOwn, PendingOwn, StartsOwn, OwnersKept, NEW c \in Calls,
         client' = [client EXCEPT ![c] = Idle], arrived' = arrived
  PROVE  CopiesOwn' /\ PendingOwn' /\ StartsOwn'
<1>1. "idle" \notin Working
  BY DEF Working, OnEndpoint
<1>2. QED
  BY <1>1, OwnEmpty, SetRunning DEF Idle

\* A fresh object gets the call that makes it.
LEMMA NewOwner ==
  ASSUME ObjectsOk, NEW c \in Calls, NEW x \in Starts, FreshStart(x),
         owner' = [owner EXCEPT ![x] = c]
  PROVE  OwnersKept /\ owner'[x] = c
BY DEF ObjectsOk, FreshStart, OwnersKept

\* A connection is made, installed and given what was queued.
LEMMA ModernRoutes ==
  ASSUME Typed, Routes, NEW c \in Calls,
         \/ \E x \in Starts : StartConnection(c, x)
         \/ InstallConnection(c) \/ DeliverPending(c)
  PROVE  Routes'
<1> USE DEF Typed, Routes, registry, installed, threads, objects, history
<1>1. CASE \E x \in Starts : StartConnection(c, x)
  <2>1. PICK x \in Starts : StartConnection(c, x)
    BY <1>1
  <2>2. OwnersKept /\ owner'[x] = c
    BY <2>1, NewOwner DEF StartConnection
  <2>3. UNCHANGED <<sessions, connection, callId, signaler, handed, arrived>>
    BY <2>1 DEF StartConnection
  <2>4. ConnectionOwn' /\ SignalersOwn' /\ HandedOwn'
    BY <2>2, <2>3, ObjectsKept
  <2>5. SessionsOwn'
    BY <2>3 DEF SessionsOwn, Queue
  <2>6. client' = [client EXCEPT ![c] = Running("starting", x, <<>>, 0)]
    BY <2>1 DEF StartConnection
  <2>7. CopiesOwn' /\ PendingOwn' /\ StartsOwn'
    BY <2>2, <2>3, <2>6, OwnEmpty, SetRunning
  <2>8. QED
    BY <2>4, <2>5, <2>7
<1>2. ASSUME NEW p \in Seq(Packets), OwnIn(p, c, arrived), client[c].at \in Working,
             client' = [client EXCEPT ![c] = Draining(c, p)],
             owner' = owner, arrived' = arrived
      PROVE  CopiesOwn' /\ PendingOwn' /\ StartsOwn'
  <2>1. OwnersKept /\ owner'[client[c].start] = c
    BY <1>2 DEF OwnersKept, StartsOwn
  <2>2. CASE p = <<>>
    BY <1>2, <2>1, <2>2, SetIdle DEF Draining
  <2>3. CASE p # <<>>
    <3>1. client' = [client EXCEPT ![c] = Running("draining", client[c].start, p, 0)]
      BY <1>2, <2>3 DEF Draining
    <3>2. QED
      BY <1>2, <2>1, <3>1, SetRunning
  <2>4. QED
    BY <2>2, <2>3
<1>3. CASE InstallConnection(c)
  <2>1. /\ UNCHANGED <<owner, arrived, signaler, handed>> /\ client[c].at \in Working
        /\ connection' = client[c].start /\ callId' = c
        /\ client' = [client EXCEPT ![c] = Draining(c, Queue(sessions[c]))]
    BY <1>3 DEF InstallConnection, Working, OnEndpoint
  <2>2. Queue(sessions[c]) \in Seq(Packets) /\ OwnIn(Queue(sessions[c]), c, arrived)
    BY KnownIsSession DEF Queue, Known, SessionsOwn
  <2>3. CopiesOwn' /\ PendingOwn' /\ StartsOwn'
    BY <1>2, <2>1, <2>2
  <2>4. SessionsOwn'
    <3>1. CASE Known(c)
      <4> DEFINE v == [sessions[c] EXCEPT !.queue = <<>>]
      <4>1. sessions' = [sessions EXCEPT ![c] = v]
        BY <1>3, <3>1 DEF InstallConnection, SessionsAfterSwap
      <4>2. v.queue = <<>>
        BY <3>1, KnownIsSession DEF Session
      <4> HIDE DEF v
      <4>3. OwnIn(Queue(v), c, arrived)
        BY <4>2, OwnEmpty DEF Queue
      <4>4. QED
        BY <2>1, <4>1, <4>3, SetSession
    <3>2. CASE ~Known(c)
      <4>1. sessions' = sessions
        BY <1>3, <3>2 DEF InstallConnection, SessionsAfterSwap
      <4>2. QED
        BY <2>1, <4>1 DEF SessionsOwn, Queue
    <3>3. QED
      BY <3>1, <3>2
  <2>5. ConnectionOwn'
    BY <2>1 DEF ConnectionOwn, StartsOwn
  <2>6. SignalersOwn' /\ HandedOwn'
    BY <2>1 DEF SignalersOwn, HandedOwn
  <2>7. QED
    BY <2>3, <2>4, <2>5, <2>6
<1>4. CASE DeliverPending(c)
  <2> DEFINE pending == client[c].pending
  <2>1. /\ client[c].at \in Working /\ pending \in Seq(Packets) /\ pending # <<>>
        /\ UNCHANGED <<sessions, owner, connection, callId, signaler, arrived>>
    BY <1>4 DEF DeliverPending, Working, OnEndpoint, ClientsOk, ClientOk, Client
  <2>2. /\ OwnIn(Tail(pending), c, arrived) /\ Tail(pending) \in Seq(Packets)
        /\ Head(pending) \in 1..Len(arrived) /\ arrived[Head(pending)] = c
    <3>1. OwnIn(pending, c, arrived)
      BY DEF PendingOwn
    <3> HIDE DEF pending
    <3>2. QED
      BY <2>1, <3>1, OwnTail
  <2>3. client' = [client EXCEPT ![c] = Draining(c, Tail(pending))]
    BY <1>4 DEF DeliverPending, ClientsOk
  <2>4. handed' = handed \cup {<<Head(pending), client[c].start>>}
    BY <1>4 DEF DeliverPending
  <2> HIDE DEF pending
  <2>5. CopiesOwn' /\ PendingOwn' /\ StartsOwn'
    BY <1>2, <2>1, <2>2, <2>3
  <2>6. HandedOwn'
    BY <2>1, <2>2, <2>4 DEF HandedOwn, StartsOwn
  <2>7. SessionsOwn' /\ ConnectionOwn' /\ SignalersOwn'
    BY <2>1 DEF SessionsOwn, Queue, ConnectionOwn, SignalersOwn
  <2>8. QED
    BY <2>5, <2>6, <2>7
<1>5. QED
  BY <1>1, <1>3, <1>4

\* A classic call is tried and published.
LEMMA ClassicRoutes ==
  ASSUME Typed, Routes, NEW c \in Calls,
         \/ \E x \in Starts : StartClassic(c, x)
         \/ CheckIdle(c) \/ PrepareEndpoint(c) \/ CheckPrepared(c) \/ MarkConnecting(c)
         \/ EndpointFails(c) \/ ClassicFails(c) \/ PublishMedia(c)
  PROVE  Routes'
<1> USE DEF Typed, Routes, registry, installed, threads, objects, history
<1> DEFINE k == client[c]
<1>1. UNCHANGED <<sessions, connection, callId, signaler, handed, arrived>>
  BY DEF StartClassic, CheckIdle, PrepareEndpoint, CheckPrepared, MarkConnecting, EndpointFails,
     ClassicFails, PublishMedia
<1>2. SessionsOwn'
  BY <1>1 DEF SessionsOwn, Queue
<1>3. CASE \E x \in Starts : StartClassic(c, x)
  <2>1. PICK x \in Starts, n \in 1..MaxEndpoints :
          StartClassic(c, x) /\ client' = [client EXCEPT ![c] = Running("endpoint", x, <<>>, n)]
    BY <1>3 DEF StartClassic
  <2>2. OwnersKept /\ owner'[x] = c
    BY <2>1, NewOwner DEF StartClassic
  <2>3. CopiesOwn' /\ PendingOwn' /\ StartsOwn'
    BY <1>1, <2>1, <2>2, OwnEmpty, SetRunning
  <2>4. QED
    BY <1>1, <1>2, <2>2, <2>3, ObjectsKept
<1>4. ASSUME NEW a, NEW n, k.at \in Working, owner' = owner,
             client' = [client EXCEPT ![c] = Running(a, k.start, <<>>, n)]
      PROVE  Routes'
  <2>1. OwnersKept /\ owner'[k.start] = c
    BY <1>4 DEF OwnersKept, StartsOwn
  <2>2. CopiesOwn' /\ PendingOwn' /\ StartsOwn'
    BY <1>1, <1>4, <2>1, OwnEmpty, SetRunning
  <2>3. QED
    BY <1>1, <1>2, <2>1, <2>2, ObjectsKept
<1>5. ASSUME owner' = owner, client' = [client EXCEPT ![c] = Idle]
      PROVE  Routes'
  <2>1. OwnersKept
    BY <1>5 DEF OwnersKept
  <2>2. CopiesOwn' /\ PendingOwn' /\ StartsOwn'
    BY <1>1, <1>5, <2>1, SetIdle
  <2>3. QED
    BY <1>1, <1>2, <2>1, <2>2, ObjectsKept
<1>6. CASE CheckIdle(c)
  <2>1. client' = [client EXCEPT ![c] = Running("preparing", k.start, <<>>, k.left)]
    BY <1>6 DEF CheckIdle, ClientsOk
  <2>2. k.at \in Working /\ owner' = owner
    BY <1>6 DEF CheckIdle, Working, OnEndpoint
  <2>3. QED
    BY <1>4, <2>1, <2>2
<1>7. CASE PrepareEndpoint(c)
  <2>1. client' = [client EXCEPT ![c] = Running("prepared", k.start, <<>>, k.left)]
    BY <1>7 DEF PrepareEndpoint, ClientsOk
  <2>2. k.at \in Working /\ owner' = owner
    BY <1>7 DEF PrepareEndpoint, Working, OnEndpoint
  <2>3. QED
    BY <1>4, <2>1, <2>2
<1>8. CASE CheckPrepared(c)
  <2>1. client' = [client EXCEPT ![c] = Running("connecting", k.start, <<>>, k.left)]
    BY <1>8 DEF CheckPrepared, ClientsOk
  <2>2. k.at \in Working /\ owner' = owner
    BY <1>8 DEF CheckPrepared, Working, OnEndpoint
  <2>3. QED
    BY <1>4, <2>1, <2>2
<1>9. CASE MarkConnecting(c)
  <2>1. client' = [client EXCEPT ![c] = Running("handshaking", k.start, <<>>, k.left)]
    BY <1>9 DEF MarkConnecting, ClientsOk
  <2>2. k.at \in Working /\ owner' = owner
    BY <1>9 DEF MarkConnecting, Working, OnEndpoint
  <2>3. QED
    BY <1>4, <2>1, <2>2
<1>10. CASE EndpointFails(c)
  <2>1. client' = [client EXCEPT ![c] = Running("endpoint", k.start, <<>>, k.left - 1)]
    BY <1>10 DEF EndpointFails, ClientsOk
  <2>2. k.at \in Working /\ owner' = owner
    BY <1>10 DEF EndpointFails, Working, OnEndpoint
  <2>3. QED
    BY <1>4, <2>1, <2>2
<1>11. CASE ClassicFails(c)
  BY <1>5, <1>11 DEF ClassicFails
<1>12. CASE PublishMedia(c)
  BY <1>5, <1>12 DEF PublishMedia
<1>13. QED
  BY <1>3, <1>6, <1>7, <1>8, <1>9, <1>10, <1>11, <1>12

\* A packet is queued, or taken to the connection of its call.
LEMMA SignalingRoutes ==
  ASSUME Typed, Routes, NEW s \in Signalers,
         \/ \E c \in Calls : ReceiveSignalingData(s, c)
         \/ DeliverSignaling(s)
  PROVE  Routes'
<1> USE DEF Typed, Routes, registry, installed, threads, objects, history
<1>1. CASE \E c \in Calls : ReceiveSignalingData(s, c)
  <2>1. PICK c \in Calls : ReceiveSignalingData(s, c)
    BY <1>1
  <2> DEFINE p == Len(arrived) + 1
  <2>2. UNCHANGED <<owner, connection, callId, client, handed>> /\ arrived' = Append(arrived, c)
    BY <2>1 DEF ReceiveSignalingData
  <2>3. p \in Packets /\ p \in 1..Len(arrived') /\ arrived'[p] = c
    BY <2>1, <2>2, BoundsAssumption DEF ReceiveSignalingData, HistoryOk, Packets
  <2>4. \A n \in 1..Len(arrived) : n \in 1..Len(arrived') /\ arrived'[n] = arrived[n]
    BY <2>2 DEF HistoryOk
  <2>5. \A q, d : OwnIn(q, d, arrived) => OwnIn(q, d, arrived')
    BY <2>4 DEF OwnIn
  <2>6. CopiesOwn' /\ PendingOwn' /\ StartsOwn'
    BY <2>2, <2>5 DEF CopiesOwn, PendingOwn, StartsOwn, Queue
  <2>7. ConnectionOwn' /\ HandedOwn'
    BY <2>2, <2>4 DEF ConnectionOwn, HandedOwn
  <2>8. SignalersOwn'
    <3>1. CASE GoesToConnection(c)
      <4>1. signaler' = [signaler EXCEPT ![s] = [packet |-> p, to |-> connection]]
        BY <2>1, <3>1 DEF ReceiveSignalingData
      <4>2. owner[connection] = c
        BY <3>1 DEF GoesToConnection, ConnectionOwn
      <4> HIDE DEF p
      <4>3. QED
        BY <2>2, <2>3, <2>4, <4>1, <4>2 DEF SignalersOwn, SignalersOk
    <3>2. CASE ~GoesToConnection(c)
      BY <2>1, <2>2, <2>4, <3>2 DEF ReceiveSignalingData, SignalersOwn
    <3>3. QED
      BY <3>1, <3>2
  <2>9. SessionsOwn'
    <3>1. CASE Known(c) /\ ~GoesToConnection(c)
      <4> DEFINE q == QueuePendingSignaling(c, sessions[c].queue, p)
                 v == [sessions[c] EXCEPT !.queue = q]
      <4>1. OwnIn(sessions[c].queue, c, arrived')
        BY <2>5, <3>1 DEF SessionsOwn, Queue, Known
      <4> HIDE DEF p
      <4>2. OwnIn(q, c, arrived')
        BY <2>3, <3>1, <4>1, KnownIsSession, OwnQueued
      <4>3. sessions' = [sessions EXCEPT ![c] = v]
        BY <2>1, <3>1 DEF ReceiveSignalingData, p
      <4> HIDE DEF q
      <4>4. v.queue = q
        BY <3>1, KnownIsSession DEF Session
      <4> HIDE DEF v
      <4>5. OwnIn(Queue(v), c, arrived')
        BY <4>2, <4>4, OwnEmpty DEF Queue
      <4>6. sessions'[c] = v /\ \A d \in Calls \ {c} : sessions'[d] = sessions[d]
        BY <4>3 DEF RegistryOk
      <4>7. QED
        BY <2>5, <4>5, <4>6 DEF SessionsOwn, Queue
    <3>2. CASE ~(Known(c) /\ ~GoesToConnection(c))
      <4>1. sessions' = sessions
        BY <2>1, <3>2 DEF ReceiveSignalingData
      <4>2. QED
        BY <2>5, <4>1 DEF SessionsOwn, Queue
    <3>3. QED
      BY <3>1, <3>2
  <2>10. QED
    BY <2>6, <2>7, <2>8, <2>9
<1>2. CASE DeliverSignaling(s)
  <2>1. /\ UNCHANGED <<sessions, owner, connection, callId, client, arrived>>
        /\ signaler[s] # SignalerIdle /\ signaler' = [signaler EXCEPT ![s] = SignalerIdle]
        /\ handed' = handed \cup {<<signaler[s].packet, signaler[s].to>>}
    BY <1>2 DEF DeliverSignaling
  <2>2. HandedOwn'
    BY <2>1 DEF HandedOwn, SignalersOwn
  <2>3. SignalersOwn'
    BY <2>1 DEF SignalersOwn, SignalersOk
  <2>4. SessionsOwn' /\ CopiesOwn' /\ PendingOwn' /\ StartsOwn' /\ ConnectionOwn'
    BY <2>1 DEF SessionsOwn, CopiesOwn, PendingOwn, StartsOwn, ConnectionOwn, Queue
  <2>5. QED
    BY <2>2, <2>3, <2>4
<1>3. QED
  BY <1>1, <1>2

\* What is taken out goes nowhere else.
LEMMA StopRoutes ==
  ASSUME Typed, Routes, NEW t \in Stoppers,
         \/ \E c \in Calls : DropCall(t, c)
         \/ StopMedia(t) \/ StopTaken(t)
  PROVE  Routes'
<1> USE DEF Typed, Routes, registry, installed, threads, objects, history
<1>1. UNCHANGED <<owner, client, signaler, arrived, handed>>
  BY DEF DropCall, StopMedia, StopTaken
<1>2. CopiesOwn' /\ PendingOwn' /\ StartsOwn' /\ SignalersOwn' /\ HandedOwn'
  BY <1>1 DEF CopiesOwn, PendingOwn, StartsOwn, SignalersOwn, HandedOwn, Queue
<1>3. ConnectionOwn'
  BY <1>1 DEF ConnectionOwn, DropCall, StopMedia, StopTaken
<1>4. CASE \E c \in Calls : DropCall(t, c)
  <2>1. PICK c \in Calls : DropCall(t, c)
    BY <1>4
  <2>2. OwnIn(Queue(NoSession), c, arrived)
    BY OwnEmpty DEF Queue
  <2>3. SessionsOwn'
    BY <1>1, <2>1, <2>2, SetSession DEF DropCall
  <2>4. QED
    BY <1>2, <1>3, <2>3
<1>5. CASE StopMedia(t) \/ StopTaken(t)
  <2>1. SessionsOwn'
    BY <1>1, <1>5 DEF StopMedia, StopTaken, SessionsOwn, Queue
  <2>2. QED
    BY <1>2, <1>3, <2>1
<1>6. QED
  BY <1>4, <1>5

\* Every step keeps what belongs to a call with that call.
LEMMA NextRoutes == Typed /\ Routes /\ [Next]_vars => Routes'
<1> SUFFICES ASSUME Typed, Routes, [Next]_vars PROVE Routes'
  OBVIOUS
<1>1. CASE UNCHANGED vars
  BY <1>1 DEF vars, registry, installed, threads, objects, history, Routes, SessionsOwn, CopiesOwn,
     PendingOwn, StartsOwn, ConnectionOwn, SignalersOwn, HandedOwn, Queue
<1>2. CASE Next
  BY <1>2, DhRoutes, ModernRoutes, ClassicRoutes, SignalingRoutes, StopRoutes DEF Next
<1>3. QED
  BY <1>1, <1>2

\* SignalingReachesOwnCall: a packet is handed only to a connection of its own
\* call, whichever starts, stops and drops overlap with its delivery.
THEOREM SignalingCorrect == Spec => []SignalingReachesOwnCall
<1>1. Init => Typed /\ Routes
  BY InitTyped, InitRoutes
<1>2. Typed /\ Routes /\ [Next]_vars => (Typed /\ Routes)'
  BY NextTyped, NextRoutes
<1>3. Typed /\ Routes => SignalingReachesOwnCall
  BY DEF Routes, HandedOwn, SignalingReachesOwnCall
<1>4. QED
  BY <1>1, <1>2, <1>3, PTL DEF Spec

-------------------------------------------------------------------------------
(* Stopping.  The object of a run of StartMedia is in one place: with the   *)
(* client, installed, or on its way out.                                    *)

Gone(x) == x \in stopped \/ \E t \in Stoppers : x \in {stopper[t].conn, stopper[t].context}

\* The client's thread has an object nobody else can reach.
Carrying(c) == client[c].at \in Working \ {"draining"}

CarriedApart ==
  \A c \in Calls : Carrying(c) =>
    /\ client[c].start # connection /\ client[c].start # active
    /\ ~Gone(client[c].start)

ConnectionApart == connection # NoStart => ~Gone(connection) /\ connection # active
ActiveApart == active # NoStart => ~Gone(active) /\ owner[active] # NoCall
GoneOwned == \A x \in Starts : Gone(x) => owner[x] # NoCall

OnePlace == CarriedApart /\ ConnectionApart /\ ActiveApart /\ GoneOwned

\* No object is anywhere at first.
LEMMA InitOnePlace == Init => OnePlace
BY StartsAssumption DEF Init, OnePlace, CarriedApart, ConnectionApart, ActiveApart, GoneOwned,
   Gone, Carrying,
   Idle, Running, Working, OnEndpoint, StopperIdle

\* An object that nobody has made yet is nowhere.
LEMMA FreshNowhere ==
  ASSUME Typed, Routes, OnePlace, NEW x \in Starts, FreshStart(x)
  PROVE  x # connection /\ x # active /\ ~Gone(x)
BY CallsAssumption, StartsAssumption DEF Routes, ConnectionOwn, OnePlace, ActiveApart, GoneOwned,
   FreshStart

\* A step that installs and stops nothing keeps the places, if a thread that
\* carries an object afterwards did so before or has just made it.
LEMMA QuietStep ==
  ASSUME Typed, Routes, OnePlace, OwnersKept,
         UNCHANGED <<connection, active, stopped, stopper>>,
         \A c \in Calls : Carrying(c)' =>
           \/ Carrying(c) /\ client'[c].start = client[c].start
           \/ client'[c].start \in Starts /\ FreshStart(client'[c].start)
  PROVE  OnePlace'
<1> USE DEF OnePlace
<1>1. \A x : Gone(x)' <=> Gone(x)
  BY DEF Gone
<1>2. CarriedApart'
  BY <1>1, FreshNowhere DEF CarriedApart
<1>3. ConnectionApart' /\ GoneOwned'
  BY <1>1 DEF ConnectionApart, GoneOwned, OwnersKept
<1>4. ActiveApart'
  BY <1>1 DEF ActiveApart, OwnersKept, Typed, InstalledOk
<1>5. QED
  BY <1>2, <1>3, <1>4

\* The places of the threads whose step sets one client.
LEMMA QuietClient ==
  ASSUME Typed, Routes, OnePlace, OwnersKept,
         UNCHANGED <<connection, active, stopped, stopper>>,
         NEW c \in Calls, NEW k, client' = [client EXCEPT ![c] = k],
         k.at \in Working \ {"draining"} =>
           \/ Carrying(c) /\ k.start = client[c].start
           \/ k.start \in Starts /\ FreshStart(k.start)
  PROVE  OnePlace'
<1>1. client'[c] = k /\ \A d \in Calls \ {c} : client'[d] = client[d]
  BY DEF Typed, ClientsOk
<1>2. \A d \in Calls : Carrying(d)' =>
           \/ Carrying(d) /\ client'[d].start = client[d].start
           \/ client'[d].start \in Starts /\ FreshStart(client'[d].start)
  BY <1>1 DEF Carrying
<1>3. QED
  BY <1>2, QuietStep

\* Which threads carry an object.
LEMMA NotCarrying ==
  /\ Idle.at \notin Working
  /\ \A v : Computing(v).at \notin Working
  /\ \A c, p : Draining(c, p).at \notin Working \ {"draining"}
  /\ \A a, x, p, n : Running(a, x, p, n).at = a /\ Running(a, x, p, n).start = x
BY DEF Idle, Computing, Draining, Running, Working, OnEndpoint

\* The key exchange carries none.
LEMMA DhOnePlace ==
  ASSUME Typed, Routes, OnePlace, NEW c \in Calls,
         \/ CreateOutgoingDh(c) \/ BindOutgoingCall(c) \/ RegisterIncomingGAHash(c)
         \/ CreateIncomingDh(c) \/ AcceptPeerGB(c) \/ ConfirmPeerGAOrB(c) \/ CopyBack(c)
  PROVE  OnePlace'
<1> USE DEF registry, installed, threads, objects, history
<1>1. UNCHANGED <<connection, active, stopped, stopper>> /\ OwnersKept
  BY DEF OwnersKept, ComputeOnCopy, CreateOutgoingDh, BindOutgoingCall, RegisterIncomingGAHash,
     CreateIncomingDh, AcceptPeerGB, ConfirmPeerGAOrB, CopyBack
<1>2. CASE client' = client
  BY <1>1, <1>2, QuietStep DEF Carrying
<1>3. ASSUME NEW k, client' = [client EXCEPT ![c] = k], k.at \notin Working
      PROVE  OnePlace'
  BY <1>1, <1>3, QuietClient
<1>4. CASE \E v : ComputeOnCopy(c, v)
  <2>1. PICK v : client' = [client EXCEPT ![c] = Computing(v)]
    BY <1>4 DEF ComputeOnCopy
  <2>2. QED
    BY <1>3, <2>1, NotCarrying
<1>5. CASE CopyBack(c)
  BY <1>3, <1>5, NotCarrying DEF CopyBack
<1>6. QED
  BY <1>2, <1>4, <1>5 DEF CreateOutgoingDh, BindOutgoingCall, RegisterIncomingGAHash,
     CreateIncomingDh, AcceptPeerGB, ConfirmPeerGAOrB

\* A start takes an object nobody has.
LEMMA StartOnePlace ==
  ASSUME Typed, Routes, OnePlace, NEW c \in Calls,
         \E x \in Starts : StartConnection(c, x) \/ StartClassic(c, x)
  PROVE  OnePlace'
<1> USE DEF registry, installed, threads, objects, history
<1>1. PICK x \in Starts : StartConnection(c, x) \/ StartClassic(c, x)
  OBVIOUS
<1>2. FreshStart(x) /\ UNCHANGED <<connection, active, stopped, stopper>> /\ OwnersKept
  BY <1>1, NewOwner DEF StartConnection, StartClassic, Typed
<1>3. PICK a, n : client' = [client EXCEPT ![c] = Running(a, x, <<>>, n)]
  BY <1>1 DEF StartConnection, StartClassic
<1>4. Running(a, x, <<>>, n).start = x
  BY NotCarrying
<1>5. QED
  BY <1>2, <1>3, <1>4, QuietClient

\* What is carried is installed, and what was there is taken out.
LEMMA InstallOnePlace ==
  ASSUME Typed, Routes, OnePlace, NEW c \in Calls, InstallConnection(c)
  PROVE  OnePlace'
<1> USE DEF OnePlace, registry, installed, threads, objects, history
<1> DEFINE x == client[c].start
<1>1. /\ Carrying(c) /\ connection' = x /\ UNCHANGED <<active, stopped, stopper, owner>>
      /\ client' = [client EXCEPT ![c] = Draining(c, Queue(sessions[c]))]
  BY DEF InstallConnection, Carrying, Working, OnEndpoint
<1>2. \A y : Gone(y)' <=> Gone(y)
  BY <1>1 DEF Gone
<1>3. x # active /\ ~Gone(x) /\ owner[x] = c
  BY <1>1 DEF CarriedApart, Carrying, Routes, StartsOwn
<1>4. ~Carrying(c)' /\ \A d \in Calls \ {c} : client'[d] = client[d]
  <2>1. /\ client'[c] = Draining(c, Queue(sessions[c]))
        /\ \A d \in Calls \ {c} : client'[d] = client[d]
    BY <1>1 DEF Typed, ClientsOk
  <2>2. QED
    BY <2>1, NotCarrying DEF Carrying
<1>5. \A d \in Calls \ {c} : Carrying(d) => client[d].start # x
  BY <1>3 DEF Carrying, Routes, StartsOwn
<1>6. CarriedApart'
  BY <1>1, <1>2, <1>4, <1>5 DEF CarriedApart, Carrying
<1>7. ConnectionApart' /\ ActiveApart' /\ GoneOwned'
  BY <1>1, <1>2, <1>3 DEF ConnectionApart, ActiveApart, GoneOwned
<1>8. QED
  BY <1>6, <1>7

\* Handing on packets leaves the object installed.
LEMMA DeliverPendingOnePlace ==
  ASSUME Typed, Routes, OnePlace, NEW c \in Calls, DeliverPending(c)
  PROVE  OnePlace'
<1> USE DEF registry, installed, threads, objects, history
<1>1. UNCHANGED <<connection, active, stopped, stopper>> /\ OwnersKept
  BY DEF DeliverPending, OwnersKept
<1>2. client' = [client EXCEPT ![c] = Draining(c, Tail(client[c].pending))]
  BY DEF DeliverPending, Typed, ClientsOk
<1>3. Draining(c, Tail(client[c].pending)).at \notin Working \ {"draining"}
  BY NotCarrying
<1>4. QED
  BY <1>1, <1>2, <1>3, QuietClient

\* A classic start carries its context along.
LEMMA ClassicOnePlace ==
  ASSUME Typed, Routes, OnePlace, NEW c \in Calls,
         \/ CheckIdle(c) \/ PrepareEndpoint(c) \/ CheckPrepared(c) \/ MarkConnecting(c)
         \/ EndpointFails(c) \/ ClassicFails(c)
  PROVE  OnePlace'
<1> USE DEF registry, installed, threads, objects, history
<1>1. UNCHANGED <<connection, active, stopped, stopper>> /\ OwnersKept
  BY DEF CheckIdle, PrepareEndpoint, CheckPrepared, MarkConnecting, EndpointFails, ClassicFails,
     OwnersKept
<1>2. Carrying(c)
  BY DEF CheckIdle, PrepareEndpoint, CheckPrepared, MarkConnecting, EndpointFails, ClassicFails,
     Carrying, Working, OnEndpoint
<1>3. CASE ClassicFails(c)
  <2>1. client' = [client EXCEPT ![c] = Idle]
    BY <1>3 DEF ClassicFails
  <2>2. QED
    BY <1>1, <2>1, NotCarrying, QuietClient
<1>4. CASE \/ CheckIdle(c) \/ PrepareEndpoint(c) \/ CheckPrepared(c) \/ MarkConnecting(c)
           \/ EndpointFails(c)
  <2>1. PICK a, n : client' = [client EXCEPT ![c] = Running(a, client[c].start, <<>>, n)]
    BY <1>4 DEF CheckIdle, PrepareEndpoint, CheckPrepared, MarkConnecting, EndpointFails, Typed,
       ClientsOk
  <2>2. Running(a, client[c].start, <<>>, n).start = client[c].start
    BY NotCarrying
  <2>3. QED
    BY <1>1, <1>2, <2>1, <2>2, QuietClient
<1>5. QED
  BY <1>3, <1>4

\* The context becomes the active one.
LEMMA PublishOnePlace ==
  ASSUME Typed, Routes, OnePlace, NEW c \in Calls, PublishMedia(c)
  PROVE  OnePlace'
<1> USE DEF OnePlace, registry, installed, threads, objects, history
<1> DEFINE x == client[c].start
<1>1. /\ Carrying(c) /\ active' = x /\ UNCHANGED <<connection, stopped, stopper, owner>>
      /\ client' = [client EXCEPT ![c] = Idle]
  BY DEF PublishMedia, Carrying, Working, OnEndpoint
<1>2. \A y : Gone(y)' <=> Gone(y)
  BY <1>1 DEF Gone
<1>3. x # connection /\ ~Gone(x) /\ owner[x] = c
  BY <1>1 DEF CarriedApart, Carrying, Routes, StartsOwn
<1>4. ~Carrying(c)' /\ \A d \in Calls \ {c} : client'[d] = client[d]
  BY <1>1, NotCarrying DEF Carrying, Typed, ClientsOk
<1>5. \A d \in Calls \ {c} : Carrying(d) => client[d].start # x
  BY <1>3 DEF Carrying, Routes, StartsOwn
<1>6. CarriedApart'
  BY <1>1, <1>2, <1>4, <1>5 DEF CarriedApart, Carrying
<1>7. ConnectionApart' /\ ActiveApart' /\ GoneOwned'
  BY <1>1, <1>2, <1>3, CallsAssumption DEF ConnectionApart, ActiveApart, GoneOwned
<1>8. QED
  BY <1>6, <1>7

\* Delivering threads copy the pointer of what is installed.
LEMMA SignalingOnePlace ==
  ASSUME Typed, Routes, OnePlace, NEW s \in Signalers,
         \/ \E c \in Calls : ReceiveSignalingData(s, c)
         \/ DeliverSignaling(s)
  PROVE  OnePlace'
<1> USE DEF registry, installed, threads, objects, history
<1>1. UNCHANGED <<connection, active, stopped, stopper, client>> /\ OwnersKept
  BY DEF ReceiveSignalingData, DeliverSignaling, OwnersKept
<1>2. QED
  BY <1>1, QuietStep DEF Carrying

\* What a StopMedia or DropCall takes is what was installed.
LEMMA TakeOnePlace ==
  ASSUME Typed, Routes, OnePlace, NEW t \in Stoppers,
         (\E c \in Calls : DropCall(t, c)) \/ StopMedia(t)
  PROVE  OnePlace'
<1> USE DEF OnePlace, registry, installed, threads, objects, history
<1>1. UNCHANGED <<owner, stopped, client>>
  BY DEF DropCall, StopMedia
<1>2. \A y \in Starts : Gone(y)' =>
        \/ Gone(y)
        \/ y = connection /\ connection' = NoStart
        \/ y = active /\ active' = NoStart
  <2>1. \A u \in Stoppers \ {t} : stopper'[u] = stopper[u]
    BY DEF Typed, StoppersOk, DropCall, StopMedia
  <2>2. CASE \E c \in Calls : DropCall(t, c)
    <3>0. PICK c \in Calls : DropCall(t, c)
      BY <2>2
    <3>1. \/ stopper' = stopper
          \/ /\ stopper'[t].conn = connection /\ stopper'[t].context = NoStart
             /\ connection' = NoStart
      <4>1. CASE callId # c
        BY <3>0, <4>1 DEF DropCall
      <4>2. CASE callId = c
        <5> DEFINE taken == [conn |-> connection, context |-> NoStart, at |-> "dropping"]
        <5>1. stopper' = [stopper EXCEPT ![t] = taken] /\ connection' = NoStart
          BY <3>0, <4>2 DEF DropCall
        <5>2. stopper'[t] = taken
          BY <5>1 DEF Typed, StoppersOk
        <5>3. QED
          BY <5>1, <5>2
      <4>3. QED
        BY <4>1, <4>2
    <3>2. CASE stopper' = stopper
      BY <1>1, <3>2 DEF Gone
    <3>3. CASE /\ stopper'[t].conn = connection /\ stopper'[t].context = NoStart
               /\ connection' = NoStart
      <4> SUFFICES ASSUME NEW y \in Starts, Gone(y)', ~(y = connection)
                   PROVE  Gone(y)
        BY <3>3
      <4>1. y # stopper'[t].conn /\ y # stopper'[t].context
        BY <3>3, StartsAssumption
      <4>2. QED
        BY <1>1, <2>1, <4>1 DEF Gone
    <3>4. QED
      BY <3>1, <3>2, <3>3
  <2>3. CASE StopMedia(t)
    <3>1. /\ stopper'[t].conn = connection /\ stopper'[t].context = active
          /\ connection' = NoStart /\ active' = NoStart
      BY <2>3 DEF StopMedia, Typed, StoppersOk
    <3>2. QED
      BY <1>1, <2>1, <3>1 DEF Gone
  <2>4. QED
    BY <2>2, <2>3
<1>3. /\ connection' = connection \/ connection' = NoStart
      /\ active' = active \/ active' = NoStart
  BY DEF DropCall, StopMedia
<1>4. \A d \in Calls : Carrying(d) => client[d].start \in Starts
  BY DEF Typed, ClientsOk, ClientOk, Carrying
<1>5. CarriedApart'
  BY <1>1, <1>2, <1>3, <1>4, StartsAssumption DEF CarriedApart, Carrying
<1>6. ConnectionApart'
  BY <1>1, <1>2, <1>3 DEF ConnectionApart, Typed, InstalledOk
<1>7. ActiveApart'
  BY <1>1, <1>2, <1>3 DEF ActiveApart, ConnectionApart, Typed, InstalledOk
<1>8. GoneOwned'
  BY <1>1, <1>2, CallsAssumption, StartsAssumption DEF GoneOwned, ActiveApart, Routes, ConnectionOwn
<1>9. QED
  BY <1>5, <1>6, <1>7, <1>8

\* What was taken is stopped.
LEMMA StopTakenOnePlace ==
  ASSUME Typed, Routes, OnePlace, NEW t \in Stoppers, StopTaken(t)
  PROVE  OnePlace'
<1> USE DEF OnePlace, registry, installed, threads, objects, history
<1>1. UNCHANGED <<owner, connection, active, client>>
  BY DEF StopTaken
<1>2. \A y \in Starts : Gone(y)' => Gone(y)
  BY StartsAssumption DEF Typed, StoppersOk, StopperIdle, Gone, StopTaken
<1>3. \A d \in Calls : Carrying(d) => client[d].start \in Starts
  BY DEF Typed, ClientsOk, ClientOk, Carrying
<1>4. CarriedApart'
  BY <1>1, <1>2, <1>3 DEF CarriedApart, Carrying
<1>5. ConnectionApart' /\ ActiveApart' /\ GoneOwned'
  BY <1>1, <1>2 DEF ConnectionApart, ActiveApart, GoneOwned, Typed, InstalledOk
<1>6. QED
  BY <1>4, <1>5

\* Every step keeps an object in one place.
LEMMA NextOnePlace == Typed /\ Routes /\ OnePlace /\ [Next]_vars => OnePlace'
<1> SUFFICES ASSUME Typed, Routes, OnePlace, [Next]_vars PROVE OnePlace'
  OBVIOUS
<1>1. CASE UNCHANGED vars
  BY <1>1 DEF vars, registry, installed, threads, objects, history, OnePlace, CarriedApart,
     ConnectionApart, ActiveApart, GoneOwned, Gone, Carrying
<1>2. CASE Next
  BY <1>2, DhOnePlace, StartOnePlace, InstallOnePlace, DeliverPendingOnePlace, ClassicOnePlace,
     PublishOnePlace, SignalingOnePlace, TakeOnePlace, StopTakenOnePlace DEF Next
<1>3. QED
  BY <1>1, <1>2

\* InstalledIsLive: the members of the engine never point to a connection or a
\* context that a StopMedia or DropCall has stopped, however these overlap with
\* the StartMedia that installs it.
THEOREM InstalledCorrect == Spec => []InstalledIsLive
<1>1. Init => Typed /\ Routes /\ OnePlace
  BY InitTyped, InitRoutes, InitOnePlace
<1>2. Typed /\ Routes /\ OnePlace /\ [Next]_vars => (Typed /\ Routes /\ OnePlace)'
  BY NextTyped, NextRoutes, NextOnePlace
<1>3. Typed /\ Routes /\ OnePlace => InstalledIsLive
  <2>1. Typed => stopped \subseteq Starts
    BY DEF Typed, ObjectsOk
  <2>2. QED
    BY <2>1, StartsAssumption DEF OnePlace, ConnectionApart, ActiveApart, Gone, InstalledIsLive
<1>4. QED
  BY <1>1, <1>2, <1>3, PTL DEF Spec

-------------------------------------------------------------------------------
(* The relay.  A packet the engine holds is in one place, but for a session *)
(* and the copy that will be put back in its stead; so handing it over is   *)
(* the end of it.                                                           *)

Distinct(q) == \A i, j \in 1..Len(q) : q[i] = q[j] => i = j

\* The packets a call's session and its thread hold.
KeptIn(v, k) == Range(Queue(v)) \cup Range(Queue(k.copy)) \cup Range(k.pending)

ApartIn(v, k) ==
  /\ Distinct(Queue(v)) /\ Distinct(Queue(k.copy)) /\ Distinct(k.pending)
  /\ k.at # "computing" => k.copy = NoSession
  /\ k.at # "draining" => k.pending = <<>>
  /\ Range(k.pending) \cap Range(Queue(v)) = {}

At(c) == KeptIn(sessions[c], client[c])

SignalersApart ==
  \A s \in Signalers : signaler[s] # SignalerIdle =>
    /\ \A c \in Calls : signaler[s].packet \notin At(c)
    /\ \A t \in Signalers \ {s} : signaler[t].packet # signaler[s].packet

Apart == SignalersApart /\ \A c \in Calls : ApartIn(sessions[c], client[c])

\* The empty queue.
LEMMA EmptyApart == Distinct(<<>>) /\ Range(<<>>) = {} /\ Queue(NoSession) = <<>>
BY DEF Distinct, Range, Queue

\* Taking the first packet of a queue leaves it out of the rest.
LEMMA DistinctTail ==
  ASSUME NEW q \in Seq(Packets), q # <<>>, Distinct(q)
  PROVE  /\ Distinct(Tail(q)) /\ Range(q) = Range(Tail(q)) \cup {Head(q)}
         /\ Head(q) \notin Range(Tail(q))
<1>1. /\ Len(q) \in Nat \ {0} /\ Head(q) = q[1] /\ Len(Tail(q)) = Len(q) - 1
      /\ DOMAIN q = 1..Len(q) /\ DOMAIN Tail(q) = 1..Len(Tail(q))
  OBVIOUS
<1>2. \A i \in 1..Len(Tail(q)) : Tail(q)[i] = q[i + 1] /\ i + 1 \in 1..Len(q) /\ i + 1 # 1
  BY <1>1
<1>3. Distinct(Tail(q))
  <2> SUFFICES ASSUME NEW i \in 1..Len(Tail(q)), NEW j \in 1..Len(Tail(q)), Tail(q)[i] = Tail(q)[j]
               PROVE  i = j
    BY DEF Distinct
  <2>1. i + 1 = j + 1
    BY <1>2 DEF Distinct
  <2>2. QED
    BY <1>1, <2>1
<1>4. Range(q) = Range(Tail(q)) \cup {Head(q)}
  <2>1. \A i \in 1..Len(q) : i = 1 \/ (i - 1 \in 1..Len(Tail(q)) /\ Tail(q)[i - 1] = q[i])
    BY <1>1
  <2>2. 1 \in 1..Len(q)
    BY <1>1
  <2>3. ASSUME NEW x \in Range(q), x # Head(q) PROVE x \in Range(Tail(q))
    <3>1. PICK i \in 1..Len(q) : q[i] = x
      BY <1>1 DEF Range
    <3>2. i - 1 \in DOMAIN Tail(q) /\ Tail(q)[i - 1] = x
      BY <1>1, <2>1, <2>3, <3>1
    <3>3. QED
      BY <3>2 DEF Range
  <2>4. \A x \in Range(Tail(q)) : x \in Range(q)
    BY <1>1, <1>2 DEF Range
  <2>5. Head(q) \in Range(q)
    BY <1>1, <2>2 DEF Range
  <2>6. QED
    BY <2>3, <2>4, <2>5
<1>5. Head(q) \notin Range(Tail(q))
  BY <1>1, <1>2 DEF Range, Distinct
<1>6. QED
  BY <1>3, <1>4, <1>5

\* A packet that is new to a queue.
LEMMA DistinctAppend ==
  ASSUME NEW q \in Seq(Packets), NEW p \in Packets, Distinct(q), p \notin Range(q)
  PROVE  Distinct(Append(q, p)) /\ Range(Append(q, p)) = Range(q) \cup {p}
<1>1. /\ Len(q) \in Nat /\ Len(Append(q, p)) = Len(q) + 1
      /\ DOMAIN q = 1..Len(q) /\ DOMAIN Append(q, p) = 1..Len(q) + 1
      /\ \A i \in 1..Len(q) : Append(q, p)[i] = q[i]
      /\ Append(q, p)[Len(q) + 1] = p
  OBVIOUS
<1>2. \A i \in 1..Len(q) + 1 : i = Len(q) + 1 \/ i \in 1..Len(q)
  BY <1>1
<1>3. \A i \in 1..Len(q) : q[i] # p /\ i \in 1..Len(q) + 1
  BY <1>1 DEF Range
<1>4. Len(q) + 1 \in 1..Len(q) + 1
  BY <1>1
<1>5. Distinct(Append(q, p))
  <2> SUFFICES ASSUME NEW i \in 1..Len(q) + 1, NEW j \in 1..Len(q) + 1,
                      Append(q, p)[i] = Append(q, p)[j]
               PROVE  i = j
    BY <1>1 DEF Distinct
  <2>1. CASE i \in 1..Len(q) /\ j \in 1..Len(q)
    BY <1>1, <2>1 DEF Distinct
  <2>2. CASE i = Len(q) + 1 \/ j = Len(q) + 1
    BY <1>1, <1>2, <1>3, <2>2
  <2>3. QED
    BY <1>2, <2>1, <2>2
<1>6. Range(Append(q, p)) = Range(q) \cup {p}
  BY <1>1, <1>2, <1>3, <1>4 DEF Range
<1>7. QED
  BY <1>5, <1>6

\* The same with the queue's limits.
LEMMA DistinctQueued ==
  ASSUME NEW c \in Calls, NEW q \in Seq(Packets), NEW p \in Packets,
         Distinct(q), p \notin Range(q)
  PROVE  /\ Distinct(QueuePendingSignaling(c, q, p))
         /\ Range(QueuePendingSignaling(c, q, p)) \subseteq Range(q) \cup {p}
<1> DEFINE r == Append(q, p)
           f == FirstToFit(c, r)
           s == From(r, f)
<1>1. r \in Seq(Packets) /\ Distinct(r) /\ Range(r) = Range(q) \cup {p}
  BY DistinctAppend
<1>2. f \in 1..(Len(r) + 1)
  BY <1>1, FirstToFitExists
<1>3. QueuePendingSignaling(c, q, p) = s
  BY DEF QueuePendingSignaling
<1> HIDE DEF r, f
<1>4. /\ s \in Seq(Packets)
      /\ \A i \in 1..Len(s) : s[i] = r[f + i - 1] /\ f + i - 1 \in 1..Len(r)
  BY <1>1, <1>2, FromKeeps
<1> HIDE DEF s
<1>5. f \in Nat /\ DOMAIN s = 1..Len(s) /\ DOMAIN r = 1..Len(r) /\ Len(r) \in Nat
  BY <1>1, <1>2, <1>4
<1>6. Distinct(s)
  <2>1. ASSUME NEW i \in 1..Len(s), NEW j \in 1..Len(s), s[i] = s[j]
        PROVE  i = j
    <3>1. f + i - 1 = f + j - 1
      BY <1>1, <1>4, <2>1 DEF Distinct
    <3>2. QED
      BY <1>5, <3>1
  <2>2. QED
    BY <2>1 DEF Distinct
<1>7. Range(s) \subseteq Range(r)
  BY <1>4, <1>5 DEF Range
<1>8. QED
  BY <1>1, <1>3, <1>6, <1>7

\* What is held has arrived, and for the call that holds it.
LEMMA AtArrived ==
  ASSUME Typed, Routes, NEW c \in Calls, NEW p \in At(c)
  PROVE  p \in 1..Len(arrived) /\ arrived[p] = c
<1>1. ASSUME NEW q \in Seq(Packets), OwnIn(q, c, arrived), p \in Range(q)
      PROVE  p \in 1..Len(arrived) /\ arrived[p] = c
  <2>1. DOMAIN q = 1..Len(q)
    OBVIOUS
  <2>2. QED
    BY <1>1, <2>1 DEF Range, OwnIn
<1>2. /\ Queue(sessions[c]) \in Seq(Packets) /\ Queue(client[c].copy) \in Seq(Packets)
      /\ client[c].pending \in Seq(Packets)
  BY DEF Typed, RegistryOk, ClientsOk, Client, Queue, Session
<1>3. /\ OwnIn(Queue(sessions[c]), c, arrived) /\ OwnIn(Queue(client[c].copy), c, arrived)
      /\ OwnIn(client[c].pending, c, arrived)
  BY DEF Routes, SessionsOwn, CopiesOwn, PendingOwn
<1>4. QED
  BY <1>1, <1>2, <1>3 DEF At, KeptIn

\* Where a packet of call c can be,
LEMMA HeldIs ==
  ASSUME NEW p, NEW c, arrived[p] = c
  PROVE  p \in Held <=>
           /\ p \in 1..Len(arrived)
           /\ p \in At(c) \/ \E s \in Signalers : signaler[s].packet = p
BY DEF Held, At, KeptIn

\* and where after the step.
LEMMA HeldIsNext ==
  ASSUME NEW p, NEW c, arrived'[p] = c
  PROVE  p \in Held' <=>
           /\ p \in 1..Len(arrived')
           /\ p \in KeptIn(sessions'[c], client'[c])
              \/ \E s \in Signalers : signaler'[s].packet = p
BY DEF Held, KeptIn, Queue

\* A step that sets one call's session and thread and adds no packet to what
\* they hold.
LEMMA SetPlaces ==
  ASSUME Typed, Apart, NEW c \in Calls, NEW v, NEW k,
         sessions' = [sessions EXCEPT ![c] = v], client' = [client EXCEPT ![c] = k],
         UNCHANGED <<signaler, arrived>>,
         ApartIn(v, k), KeptIn(v, k) \subseteq At(c)
  PROVE  Apart' /\ Held' \subseteq Held
<1>1. /\ sessions'[c] = v /\ client'[c] = k
      /\ \A d \in Calls \ {c} : sessions'[d] = sessions[d] /\ client'[d] = client[d]
  BY DEF Typed, RegistryOk, ClientsOk
<1>2. \A d \in Calls : KeptIn(sessions'[d], client'[d]) \subseteq At(d)
  BY <1>1 DEF At
<1>3. \A d \in Calls : ApartIn(sessions'[d], client'[d])
  BY <1>1 DEF Apart
<1>4. Apart'
  <2>1. \A d \in Calls : At(d)' = KeptIn(sessions'[d], client'[d])
    BY DEF At, KeptIn, Queue
  <2>2. \A d \in Calls : ApartIn(sessions[d], client[d])' = ApartIn(sessions'[d], client'[d])
    BY DEF ApartIn, Queue, Distinct
  <2>3. SignalersApart'
    BY <1>2, <2>1 DEF Apart, SignalersApart
  <2>4. QED
    BY <1>3, <2>2, <2>3 DEF Apart
<1>5. ASSUME NEW p \in Held' PROVE p \in Held
  <2>1. p \in 1..Len(arrived) /\ arrived[p] \in Calls /\ arrived' = arrived
    BY DEF Held, Typed, HistoryOk
  <2>2. QED
    BY <1>2, <1>5, <2>1, HeldIs, HeldIsNext
<1>6. QED
  BY <1>4, <1>5

\* For a step that leaves the session or the thread.
LEMMA SamePlaces ==
  ASSUME Typed, NEW c \in Calls
  PROVE  /\ [sessions EXCEPT ![c] = sessions[c]] = sessions
         /\ [client EXCEPT ![c] = client[c]] = client
BY DEF Typed, RegistryOk, ClientsOk

\* The key exchange hands over nothing and invents nothing.
LEMMA DhPlaces ==
  ASSUME Typed, Apart, NEW c \in Calls,
         \/ CreateOutgoingDh(c) \/ BindOutgoingCall(c) \/ RegisterIncomingGAHash(c)
         \/ CreateIncomingDh(c) \/ AcceptPeerGB(c) \/ ConfirmPeerGAOrB(c) \/ CopyBack(c)
  PROVE  Apart' /\ Held' \subseteq Held /\ handed' = handed /\ arrived' = arrived
<1> USE DEF registry, installed, threads, objects, history
<1>1. UNCHANGED <<signaler, arrived, handed>>
  BY DEF ComputeOnCopy, CreateOutgoingDh, BindOutgoingCall, RegisterIncomingGAHash,
     CreateIncomingDh, AcceptPeerGB, ConfirmPeerGAOrB, CopyBack
<1>2. ApartIn(sessions[c], client[c]) /\ Queue(NewSession) = <<>>
  BY EmptyQueues DEF Apart, Queue
<1>3. ASSUME NEW v, Queue(v) = Queue(sessions[c]) \/ Queue(v) = <<>>,
             sessions' = [sessions EXCEPT ![c] = v], client' = client
      PROVE  Apart' /\ Held' \subseteq Held
  <2>1. ApartIn(v, client[c]) /\ KeptIn(v, client[c]) \subseteq At(c)
    BY <1>2, <1>3, EmptyApart DEF ApartIn, KeptIn, At
  <2>2. QED
    BY <1>1, <1>3, <2>1, SamePlaces, SetPlaces
<1>4. ASSUME NEW v \in Session, v.queue = sessions[c].queue, Known(c), client[c] = Idle,
             ComputeOnCopy(c, v)
      PROVE  Apart' /\ Held' \subseteq Held
  <2>1. sessions' = sessions /\ client' = [client EXCEPT ![c] = Computing(v)]
    BY <1>4 DEF ComputeOnCopy
  <2>2. Queue(Computing(v).copy) = <<>> \/ Queue(Computing(v).copy) = Queue(sessions[c])
    BY <1>4 DEF Computing, Queue, Known
  <2>3. Computing(v).at = "computing" /\ Computing(v).pending = <<>>
    BY DEF Computing
  <2>4. /\ ApartIn(sessions[c], Computing(v))
        /\ KeptIn(sessions[c], Computing(v)) \subseteq At(c)
    BY <1>2, <2>2, <2>3, EmptyApart DEF ApartIn, KeptIn, At
  <2>5. QED
    BY <1>1, <2>1, <2>4, SamePlaces, SetPlaces
<1>5. CASE CreateOutgoingDh(c)
  <2>1. sessions' = sessions /\ client' = client
    BY <1>5 DEF CreateOutgoingDh
  <2>2. QED
    BY <1>1, <1>3, <2>1, SamePlaces
<1>6. CASE BindOutgoingCall(c)
  <2> DEFINE v == [NewSession EXCEPT !.private = TRUE]
  <2>1. v \in Session /\ v.queue = <<>>
    BY EmptyQueues, FlagsOk
  <2>2. sessions' = [sessions EXCEPT ![c] = v] /\ client' = client
    BY <1>6 DEF BindOutgoingCall
  <2> HIDE DEF v
  <2>3. Queue(v) = <<>>
    BY <2>1 DEF Queue
  <2>4. QED
    BY <1>1, <1>3, <2>2, <2>3
<1>7. CASE RegisterIncomingGAHash(c)
  <2> DEFINE w == IF Known(c) THEN sessions[c] ELSE NewSession
             v == [w EXCEPT !.incoming = TRUE]
  <2>1. w \in Session /\ (w.queue = <<>> \/ w.queue = Queue(sessions[c]))
    BY EmptyQueues, KnownIsSession DEF Typed, Queue, Known
  <2>2. v.queue = w.queue
    BY <2>1, FlagsOk
  <2>3. sessions' = [sessions EXCEPT ![c] = v] /\ client' = client
    BY <1>7 DEF RegisterIncomingGAHash, Typed, RegistryOk
  <2> HIDE DEF v, w
  <2>4. Queue(v) = <<>> \/ Queue(v) = Queue(sessions[c])
    BY <2>1, <2>2 DEF Queue
  <2>5. QED
    BY <1>1, <1>3, <2>3, <2>4
<1>8. CASE CreateIncomingDh(c) \/ AcceptPeerGB(c) \/ ConfirmPeerGAOrB(c)
  <2>1. Known(c) /\ client[c] = Idle /\ sessions[c] \in Session
    BY <1>8, KnownIsSession DEF CreateIncomingDh, AcceptPeerGB, ConfirmPeerGAOrB, Typed
  <2>2. PICK v \in Session : v.queue = sessions[c].queue /\ ComputeOnCopy(c, v)
    BY <1>8, <2>1, FlagsOk DEF CreateIncomingDh, AcceptPeerGB, ConfirmPeerGAOrB
  <2>3. QED
    BY <1>1, <1>4, <2>1, <2>2
<1>9. CASE CopyBack(c)
  <2>1. /\ sessions' = [sessions EXCEPT ![c] = client[c].copy]
        /\ client' = [client EXCEPT ![c] = Idle]
    BY <1>9 DEF CopyBack
  <2>2. Idle.at = "idle" /\ Idle.copy = NoSession /\ Idle.pending = <<>>
    BY DEF Idle, Running
  <2>3. ApartIn(client[c].copy, Idle) /\ KeptIn(client[c].copy, Idle) \subseteq At(c)
    BY <1>2, <2>2, EmptyApart DEF ApartIn, KeptIn, At
  <2>4. QED
    BY <1>1, <2>1, <2>3, SetPlaces
<1>10. QED
  BY <1>1, <1>5, <1>6, <1>7, <1>8, <1>9

\* A thread that holds no packet.
LEMMA EmptyHanded ==
  /\ Idle.at = "idle" /\ Idle.copy = NoSession /\ Idle.pending = <<>>
  /\ \A a, x, p, n : /\ Running(a, x, p, n).at = a /\ Running(a, x, p, n).copy = NoSession
                     /\ Running(a, x, p, n).pending = p
BY DEF Idle, Running

\* A thread that lets go of what it holds.
LEMMA HandsEmptied ==
  ASSUME Typed, Apart, NEW c \in Calls, NEW k, UNCHANGED <<sessions, signaler, arrived>>,
         client' = [client EXCEPT ![c] = k], k.copy = NoSession, k.pending = <<>>
  PROVE  Apart' /\ Held' \subseteq Held
<1>1. ApartIn(sessions[c], client[c])
  BY DEF Apart
<1>2. ApartIn(sessions[c], k) /\ KeptIn(sessions[c], k) \subseteq At(c)
  BY <1>1, EmptyApart DEF ApartIn, KeptIn, At
<1>3. QED
  BY <1>2, SamePlaces, SetPlaces

\* A start hands over nothing,
LEMMA StartPlaces ==
  ASSUME Typed, Apart, NEW c \in Calls,
         \E x \in Starts : StartConnection(c, x) \/ StartClassic(c, x)
  PROVE  Apart' /\ Held' \subseteq Held /\ handed' = handed /\ arrived' = arrived
<1> USE DEF registry, installed, threads, objects, history
<1>1. UNCHANGED <<sessions, signaler, arrived, handed>>
  BY DEF StartConnection, StartClassic
<1>2. PICK a, x, n : client' = [client EXCEPT ![c] = Running(a, x, <<>>, n)]
  BY DEF StartConnection, StartClassic
<1>3. Running(a, x, <<>>, n).copy = NoSession /\ Running(a, x, <<>>, n).pending = <<>>
  BY EmptyHanded
<1>4. QED
  BY <1>1, <1>2, <1>3, HandsEmptied

\* nor does a classic call,
LEMMA ClassicPlaces ==
  ASSUME Typed, Apart, NEW c \in Calls,
         \/ CheckIdle(c) \/ PrepareEndpoint(c) \/ CheckPrepared(c) \/ MarkConnecting(c)
         \/ EndpointFails(c) \/ ClassicFails(c) \/ PublishMedia(c)
  PROVE  Apart' /\ Held' \subseteq Held /\ handed' = handed /\ arrived' = arrived
<1> USE DEF registry, installed, threads, objects, history
<1>1. UNCHANGED <<sessions, signaler, arrived, handed>>
  BY DEF CheckIdle, PrepareEndpoint, CheckPrepared, MarkConnecting, EndpointFails, ClassicFails,
     PublishMedia
<1>2. CASE ClassicFails(c) \/ PublishMedia(c)
  <2>1. client' = [client EXCEPT ![c] = Idle]
    BY <1>2 DEF ClassicFails, PublishMedia
  <2>2. QED
    BY <1>1, <2>1, EmptyHanded, HandsEmptied
<1>3. CASE \/ CheckIdle(c) \/ PrepareEndpoint(c) \/ CheckPrepared(c) \/ MarkConnecting(c)
           \/ EndpointFails(c)
  <2>1. PICK a, n : client' = [client EXCEPT ![c] = Running(a, client[c].start, <<>>, n)]
    BY <1>3 DEF CheckIdle, PrepareEndpoint, CheckPrepared, MarkConnecting, EndpointFails, Typed,
       ClientsOk
  <2>2. /\ Running(a, client[c].start, <<>>, n).copy = NoSession
        /\ Running(a, client[c].start, <<>>, n).pending = <<>>
    BY EmptyHanded
  <2>3. QED
    BY <1>1, <2>1, <2>2, HandsEmptied
<1>4. QED
  BY <1>2, <1>3

\* nor does an installation: the queue becomes what the thread drains.
LEMMA InstallPlaces ==
  ASSUME Typed, Apart, NEW c \in Calls, InstallConnection(c)
  PROVE  Apart' /\ Held' \subseteq Held /\ handed' = handed /\ arrived' = arrived
<1> USE DEF registry, installed, threads, objects, history
<1> DEFINE q == Queue(sessions[c])
           k == Draining(c, q)
           v == IF Known(c) THEN [sessions[c] EXCEPT !.queue = <<>>] ELSE NoSession
<1>1. /\ client' = [client EXCEPT ![c] = k]
      /\ UNCHANGED <<signaler, arrived, handed>>
  BY DEF InstallConnection
<1>2. sessions' = [sessions EXCEPT ![c] = v]
  <2>1. CASE Known(c)
    BY <2>1 DEF InstallConnection, SessionsAfterSwap
  <2>2. CASE ~Known(c)
    BY <2>2, SamePlaces DEF InstallConnection, SessionsAfterSwap, Known
  <2>3. QED
    BY <2>1, <2>2
<1>3. Queue(v) = <<>>
  BY KnownIsSession DEF Queue, Session, Typed
<1>4. Distinct(q)
  BY DEF Apart, ApartIn
<1>5. ApartIn(v, k) /\ KeptIn(v, k) \subseteq At(c)
  <2>1. CASE q = <<>>
    BY <1>3, <2>1, EmptyApart, EmptyHanded DEF Draining, ApartIn, KeptIn, At
  <2>2. CASE q # <<>>
    <3>1. k.at = "draining" /\ k.copy = NoSession /\ k.pending = q
      BY <2>2, EmptyHanded DEF Draining
    <3> HIDE DEF k, v
    <3>2. QED
      BY <1>3, <1>4, <3>1, EmptyApart DEF ApartIn, KeptIn, At
  <2>3. QED
    BY <2>1, <2>2
<1> HIDE DEF k, v
<1>6. QED
  BY <1>1, <1>2, <1>5, SetPlaces

\* One packet more is handed over.
LEMMA HandedGrows ==
  ASSUME NEW p, NEW x, handed' = handed \cup {<<p, x>>}
  PROVE  Handed' = Handed \cup {p}
<1>1. \A y : y \in Handed' <=> \E d \in handed' : y = d[1]
  BY DEF Handed
<1>2. \A y : y \in Handed <=> \E d \in handed : y = d[1]
  BY DEF Handed
<1>3. <<p, x>>[1] = p
  OBVIOUS
<1>4. QED
  BY <1>1, <1>2, <1>3

\* A drain that delivers a packet holds it no more, and nobody else does.
LEMMA DeliverPendingPlaces ==
  ASSUME Typed, Routes, Apart, NEW c \in Calls, DeliverPending(c)
  PROVE  /\ Apart' /\ arrived' = arrived
         /\ \E p \in Held : Held' = Held \ {p} /\ Handed' = Handed \cup {p}
<1> USE DEF registry, installed, threads, objects, history
<1> DEFINE q == client[c].pending
           k == Draining(c, Tail(q))
           p == Head(q)
<1>1. /\ UNCHANGED <<sessions, signaler, arrived>> /\ client[c].at = "draining"
      /\ handed' = handed \cup {<<p, client[c].start>>}
  BY DEF DeliverPending
<1>2. client' = [client EXCEPT ![c] = k]
  BY DEF DeliverPending, Typed, ClientsOk
<1>3. q \in Seq(Packets) /\ q # <<>>
  BY <1>1 DEF Typed, ClientsOk, ClientOk, Client
<1>4. ApartIn(sessions[c], client[c])
  BY DEF Apart
<1>5. Distinct(Tail(q)) /\ Range(q) = Range(Tail(q)) \cup {p} /\ p \notin Range(Tail(q))
  BY <1>3, <1>4, DistinctTail DEF ApartIn
<1>6. client[c].copy = NoSession /\ p \notin Range(Queue(sessions[c]))
  BY <1>1, <1>4, <1>5 DEF ApartIn
<1>7. k.copy = NoSession /\ k.pending = Tail(q) /\ (Tail(q) # <<>> => k.at = "draining")
  <2>1. CASE Tail(q) = <<>>
    BY <2>1, EmptyHanded DEF Draining
  <2>2. CASE Tail(q) # <<>>
    BY <2>2, EmptyHanded DEF Draining
  <2>3. QED
    BY <2>1, <2>2
<1> HIDE DEF k
<1>8. ApartIn(sessions[c], k)
  BY <1>4, <1>5, <1>7, EmptyApart DEF ApartIn
<1>9. KeptIn(sessions[c], k) = At(c) \ {p} /\ p \in At(c)
  BY <1>5, <1>6, <1>7, EmptyApart DEF KeptIn, At
<1>10. Apart' /\ Held' \subseteq Held
  BY <1>1, <1>2, <1>8, <1>9, SamePlaces, SetPlaces
<1>11. p \in 1..Len(arrived) /\ arrived[p] = c
  BY <1>9, AtArrived
<1>12. p \in Held
  BY <1>9, <1>11, HeldIs
<1>13. \A s \in Signalers : signaler[s].packet # p
  <2> SUFFICES ASSUME NEW s \in Signalers, signaler[s].packet = p PROVE FALSE
    OBVIOUS
  <2>1. signaler[s] # SignalerIdle
    BY <1>11 DEF SignalerIdle
  <2>2. QED
    BY <1>9, <2>1 DEF Apart, SignalersApart
<1>14. client'[c] = k /\ \A d \in Calls \ {c} : client'[d] = client[d]
  BY <1>2 DEF Typed, ClientsOk
<1> HIDE DEF p
<1>15. p \notin Held'
  BY <1>1, <1>9, <1>11, <1>13, <1>14, HeldIsNext
<1>16. ASSUME NEW r \in Held, r # p PROVE r \in Held'
  <2>1. r \in 1..Len(arrived) /\ arrived[r] \in Calls
    BY DEF Held, Typed, HistoryOk
  <2>2. CASE arrived[r] = c
    BY <1>1, <1>9, <1>14, <1>16, <2>1, <2>2, HeldIs, HeldIsNext
  <2>3. CASE arrived[r] # c
    BY <1>1, <1>14, <2>1, <2>3, HeldIs, HeldIsNext DEF At
  <2>4. QED
    BY <2>2, <2>3
<1>17. Held' = Held \ {p}
  BY <1>10, <1>15, <1>16
<1>18. Handed' = Handed \cup {p}
  BY <1>1, HandedGrows
<1>19. QED
  BY <1>1, <1>10, <1>12, <1>17, <1>18

\* Where neither sessions nor threads change, packets stay where they are.
LEMMA StillPlaces ==
  ASSUME UNCHANGED <<sessions, client>>
  PROVE  \A c \in Calls : /\ At(c)' = At(c)
                          /\ ApartIn(sessions[c], client[c])' = ApartIn(sessions[c], client[c])
<1>1. \A c \in Calls : At(c)' = At(c)
  BY DEF At, KeptIn, Queue
<1>2. \A c \in Calls : ApartIn(sessions[c], client[c])' = ApartIn(sessions[c], client[c])
  BY DEF ApartIn, Distinct, Queue
<1>3. QED
  BY <1>1, <1>2

\* What stops and drops hands over nothing.
LEMMA StopPlaces ==
  ASSUME Typed, Apart, NEW t \in Stoppers,
         \/ \E c \in Calls : DropCall(t, c)
         \/ StopMedia(t) \/ StopTaken(t)
  PROVE  Apart' /\ Held' \subseteq Held /\ handed' = handed /\ arrived' = arrived
<1> USE DEF registry, installed, threads, objects, history
<1>1. UNCHANGED <<client, signaler, arrived, handed>>
  BY DEF DropCall, StopMedia, StopTaken
<1>2. CASE \E c \in Calls : DropCall(t, c)
  <2>1. PICK c \in Calls : sessions' = [sessions EXCEPT ![c] = NoSession]
    BY <1>2 DEF DropCall
  <2>2. ApartIn(sessions[c], client[c])
    BY DEF Apart
  <2>3. ApartIn(NoSession, client[c]) /\ KeptIn(NoSession, client[c]) \subseteq At(c)
    BY <2>2, EmptyApart DEF ApartIn, KeptIn, At
  <2>4. QED
    BY <1>1, <2>1, <2>3, SamePlaces, SetPlaces
<1>3. CASE StopMedia(t) \/ StopTaken(t)
  <2>1. sessions' = sessions
    BY <1>3 DEF StopMedia, StopTaken
  <2>2. Apart'
    BY <1>1, <2>1, StillPlaces DEF Apart, SignalersApart
  <2>3. Held' = Held
    BY <1>1, <2>1 DEF Held, Queue
  <2>4. QED
    BY <1>1, <2>2, <2>3
<1>4. QED
  BY <1>2, <1>3

\* A signaler that has handed its packet over held the only copy of it.
LEMMA DeliverSignalingPlaces ==
  ASSUME Typed, Routes, Apart, NEW s \in Signalers, DeliverSignaling(s)
  PROVE  /\ Apart' /\ arrived' = arrived
         /\ \E p \in Held : Held' = Held \ {p} /\ Handed' = Handed \cup {p}
<1> USE DEF registry, installed, threads, objects, history
<1> DEFINE p == signaler[s].packet
<1>1. /\ UNCHANGED <<sessions, client, arrived>> /\ signaler[s] # SignalerIdle
      /\ handed' = handed \cup {<<p, signaler[s].to>>}
      /\ signaler' = [signaler EXCEPT ![s] = SignalerIdle]
  BY DEF DeliverSignaling
<1>2. signaler'[s] = SignalerIdle /\ \A t \in Signalers \ {s} : signaler'[t] = signaler[t]
  BY <1>1 DEF Typed, SignalersOk
<1>3. p \in 1..Len(arrived) /\ arrived[p] \in Calls
  BY <1>1 DEF Routes, SignalersOwn, Typed, HistoryOk
<1>4. \A t \in Signalers \ {s} : signaler[t].packet # p
  BY <1>1, <1>3 DEF Apart, SignalersApart, SignalerIdle
<1>5. \A c \in Calls : p \notin At(c) /\ KeptIn(sessions'[c], client'[c]) = At(c)
  BY <1>1 DEF Apart, SignalersApart, At
<1>6. SignalerIdle.packet = 0
  BY DEF SignalerIdle
<1>7. Apart'
  <2>1. /\ \A c \in Calls : At(c)' = At(c)
        /\ \A c \in Calls : ApartIn(sessions[c], client[c])' = ApartIn(sessions[c], client[c])
    BY <1>1, StillPlaces
  <2>2. \A t \in Signalers : signaler'[t] # SignalerIdle =>
          signaler'[t] = signaler[t] /\ signaler[t] # SignalerIdle
    BY <1>2
  <2>3. ASSUME NEW t \in Signalers, signaler'[t] # SignalerIdle, NEW u \in Signalers \ {t}
        PROVE  signaler'[u].packet # signaler'[t].packet
    <3>1. CASE u = s
      <4>1. signaler[t] # SignalerIdle /\ signaler'[t] = signaler[t]
        BY <2>2, <2>3
      <4>2. signaler[t].packet \in 1..Len(arrived)
        BY <4>1 DEF Routes, SignalersOwn
      <4>3. QED
        BY <1>2, <1>6, <3>1, <4>1, <4>2
    <3>2. CASE u # s
      BY <1>2, <2>2, <2>3, <3>2 DEF Apart, SignalersApart
    <3>3. QED
      BY <3>1, <3>2
  <2>4. SignalersApart'
    BY <2>1, <2>2, <2>3 DEF Apart, SignalersApart
  <2>5. QED
    BY <2>1, <2>4 DEF Apart
<1>8. p \in Held
  BY <1>3, HeldIs
<1> HIDE DEF p
<1>9. p \notin Held'
  BY <1>1, <1>2, <1>3, <1>4, <1>5, <1>6, HeldIsNext
<1>10. ASSUME NEW r, r # p PROVE r \in Held' <=> r \in Held
  <2>1. CASE r \notin 1..Len(arrived)
    BY <1>1, <2>1 DEF Held
  <2>2. CASE r \in 1..Len(arrived)
    <3>1. arrived[r] \in Calls /\ arrived' = arrived /\ r # 0
      BY <1>1, <2>2 DEF Typed, HistoryOk
    <3>2. (\E t \in Signalers : signaler'[t].packet = r) <=>
            \E t \in Signalers : signaler[t].packet = r
      BY <1>2, <1>6, <1>10, <3>1 DEF p
    <3>3. QED
      BY <1>5, <3>1, <3>2, HeldIs, HeldIsNext
  <2>3. QED
    BY <2>1, <2>2
<1>11. Held' = Held \ {p}
  BY <1>9, <1>10
<1>12. Handed' = Handed \cup {p}
  BY <1>1, HandedGrows
<1>13. QED
  BY <1>1, <1>7, <1>8, <1>11, <1>12

\* A packet that arrives is new, and goes to one place or none.
LEMMA ReceivePlaces ==
  ASSUME Typed, Routes, Apart, NEW s \in Signalers, NEW c \in Calls, ReceiveSignalingData(s, c)
  PROVE  /\ Apart' /\ handed' = handed
         /\ \E p \in Packets : /\ p \notin 1..Len(arrived)
                               /\ 1..Len(arrived') = 1..Len(arrived) \cup {p}
                               /\ Held' \subseteq Held \cup {p}
<1> USE DEF registry, installed, threads, objects, history
<1> DEFINE p == Len(arrived) + 1
           q == QueuePendingSignaling(c, sessions[c].queue, p)
<1>1. /\ UNCHANGED <<client, handed>> /\ arrived' = Append(arrived, c)
      /\ arrived \in Seq(Calls) /\ Len(arrived) < MaxPackets
  BY DEF ReceiveSignalingData, Typed, HistoryOk
<1>2. /\ p \in Packets /\ p \notin 1..Len(arrived) /\ p # 0
      /\ Len(arrived') = p /\ 1..p = 1..Len(arrived) \cup {p}
      /\ arrived'[p] = c /\ \A r \in 1..Len(arrived) : arrived'[r] = arrived[r]
  BY <1>1, BoundsAssumption DEF Packets
<1>3. \A d \in Calls : p \notin At(d)
  BY <1>2, AtArrived
<1>4. \A t \in Signalers : signaler[t].packet # p
  BY <1>2 DEF Routes, SignalersOwn, SignalerIdle
<1>5. /\ \A d \in Calls : ApartIn(sessions'[d], client'[d])
      /\ \A d \in Calls : KeptIn(sessions'[d], client'[d]) \subseteq At(d) \cup {p}
      /\ GoesToConnection(c) => sessions' = sessions
  <2>1. CASE Known(c) /\ ~GoesToConnection(c)
    <3> DEFINE v == [sessions[c] EXCEPT !.queue = q]
    <3>1. sessions' = [sessions EXCEPT ![c] = v]
      BY <2>1 DEF ReceiveSignalingData
    <3>2. /\ sessions[c] \in Session /\ sessions[c].queue \in Seq(Packets)
          /\ Queue(sessions[c]) = sessions[c].queue /\ Fits(c, sessions[c].queue)
      BY <2>1, KnownIsSession DEF Typed, Queue, Known
    <3>3. ApartIn(sessions[c], client[c])
      BY DEF Apart
    <3>4. p \notin Range(sessions[c].queue) /\ p \notin Range(client[c].pending)
      BY <1>3, <3>2 DEF At, KeptIn
    <3> HIDE DEF p
    <3>5. Distinct(q) /\ Range(q) \subseteq Range(sessions[c].queue) \cup {p}
      BY <1>2, <3>2, <3>3, <3>4, DistinctQueued DEF ApartIn
    <3>6. q \in Seq(Packets)
      BY <1>2, <3>2, QueueBounded
    <3> HIDE DEF q
    <3>7. v \in Session /\ v.queue = q
      BY <3>2, <3>6 DEF Session
    <3> HIDE DEF v
    <3>8. Queue(v) = q \/ Queue(v) = <<>>
      BY <3>7 DEF Queue
    <3>9. ApartIn(v, client[c]) /\ KeptIn(v, client[c]) \subseteq At(c) \cup {p}
      BY <3>2, <3>3, <3>4, <3>5, <3>8, EmptyApart DEF ApartIn, KeptIn, At
    <3>10. sessions'[c] = v /\ \A d \in Calls \ {c} : sessions'[d] = sessions[d]
      BY <3>1 DEF Typed, RegistryOk
    <3>11. QED
      BY <1>1, <2>1, <3>9, <3>10 DEF Apart, At
  <2>2. CASE ~(Known(c) /\ ~GoesToConnection(c))
    <3>1. sessions' = sessions
      BY <2>2 DEF ReceiveSignalingData
    <3>2. QED
      BY <1>1, <3>1 DEF Apart, At
  <2>3. QED
    BY <2>1, <2>2
<1>6. /\ \A t \in Signalers \ {s} : signaler'[t] = signaler[t]
      /\ \/ signaler'[s] = signaler[s]
         \/ signaler'[s].packet = p /\ GoesToConnection(c)
  BY DEF ReceiveSignalingData, Typed, SignalersOk
<1> HIDE DEF p
<1>7. SignalersApart'
  <2>1. \A d \in Calls : At(d)' = KeptIn(sessions'[d], client'[d])
    BY DEF At, KeptIn, Queue
  <2>2. ASSUME NEW t \in Signalers, signaler'[t] # SignalerIdle
        PROVE  \A d \in Calls : signaler'[t].packet \notin KeptIn(sessions'[d], client'[d])
    <3>1. CASE signaler'[t] = signaler[t]
      BY <1>4, <1>5, <2>2, <3>1 DEF Apart, SignalersApart
    <3>2. CASE signaler'[t] # signaler[t]
      <4>1. signaler'[t].packet = p /\ sessions' = sessions /\ client' = client
        BY <1>1, <1>5, <1>6, <3>2
      <4>2. QED
        BY <1>3, <4>1 DEF At
    <3>3. QED
      BY <3>1, <3>2
  <2>3. ASSUME NEW t \in Signalers, signaler'[t] # SignalerIdle, NEW u \in Signalers \ {t}
        PROVE  signaler'[u].packet # signaler'[t].packet
    <3>1. CASE signaler'[t] = signaler[t] /\ signaler'[u] = signaler[u]
      BY <2>3, <3>1 DEF Apart, SignalersApart
    <3>2. CASE signaler'[t] # signaler[t]
      BY <1>4, <1>6, <2>3, <3>2
    <3>3. CASE signaler'[u] # signaler[u]
      BY <1>4, <1>6, <2>3, <3>3
    <3>4. QED
      BY <3>1, <3>2, <3>3
  <2>4. QED
    BY <2>1, <2>2, <2>3 DEF SignalersApart
<1>8. Apart'
  <2>1. \A d \in Calls : ApartIn(sessions[d], client[d])' = ApartIn(sessions'[d], client'[d])
    BY DEF ApartIn, Queue, Distinct
  <2>2. QED
    BY <1>5, <1>7, <2>1 DEF Apart
<1>9. ASSUME NEW r \in Held', r # p PROVE r \in Held
  <2>1. r \in 1..Len(arrived) /\ arrived'[r] = arrived[r] /\ arrived[r] \in Calls
    BY <1>1, <1>2, <1>9 DEF Held
  <2>2. (\E t \in Signalers : signaler'[t].packet = r) =>
          \E t \in Signalers : signaler[t].packet = r
    BY <1>6, <1>9
  <2>3. QED
    BY <1>5, <1>9, <2>1, <2>2, HeldIs, HeldIsNext
<1>10. QED
  BY <1>1, <1>2, <1>8, <1>9

\* No packet is anywhere at first.
LEMMA InitApart == Init => Apart
<1> SUFFICES ASSUME Init PROVE Apart
  OBVIOUS
<1>1. \A c \in Calls : sessions[c] = NoSession /\ client[c] = Idle
  BY DEF Init
<1>2. \A c \in Calls : ApartIn(sessions[c], client[c])
  BY <1>1, EmptyApart, EmptyHanded DEF ApartIn
<1>3. SignalersApart
  BY DEF Init, SignalersApart
<1>4. QED
  BY <1>2, <1>3 DEF Apart

\* Every step is a step of the relay or none of its concern.
LEMMA NextPlaces ==
  ASSUME Typed, Routes, Apart, [Next]_vars
  PROVE  /\ Apart'
         /\ \/ arrived' = arrived /\ Handed' = Handed /\ Held' \subseteq Held
            \/ /\ arrived' = arrived
               /\ \E p \in Held : Held' = Held \ {p} /\ Handed' = Handed \cup {p}
            \/ /\ Handed' = Handed
               /\ \E p \in Packets : /\ p \notin 1..Len(arrived)
                                     /\ 1..Len(arrived') = 1..Len(arrived) \cup {p}
                                     /\ Held' \subseteq Held \cup {p}
<1>1. handed' = handed => Handed' = Handed
  BY DEF Handed
<1>2. CASE UNCHANGED vars
  <2>1. UNCHANGED <<sessions, client, signaler, arrived, handed>>
    BY <1>2 DEF vars, registry, threads, history
  <2>2. Apart'
    BY <2>1, StillPlaces DEF Apart, SignalersApart
  <2>3. Held' = Held
    BY <2>1 DEF Held, Queue
  <2>4. QED
    BY <1>1, <2>1, <2>2, <2>3
<1>3. CASE \E c \in Calls :
             \/ CreateOutgoingDh(c) \/ BindOutgoingCall(c) \/ RegisterIncomingGAHash(c)
             \/ CreateIncomingDh(c) \/ AcceptPeerGB(c) \/ ConfirmPeerGAOrB(c) \/ CopyBack(c)
  BY <1>1, <1>3, DhPlaces
<1>4. CASE \E c \in Calls, x \in Starts : StartConnection(c, x) \/ StartClassic(c, x)
  BY <1>1, <1>4, StartPlaces
<1>5. CASE \E c \in Calls :
             \/ CheckIdle(c) \/ PrepareEndpoint(c) \/ CheckPrepared(c) \/ MarkConnecting(c)
             \/ EndpointFails(c) \/ ClassicFails(c) \/ PublishMedia(c)
  BY <1>1, <1>5, ClassicPlaces
<1>6. CASE \E c \in Calls : InstallConnection(c)
  BY <1>1, <1>6, InstallPlaces
<1>7. CASE \E c \in Calls : DeliverPending(c)
  BY <1>7, DeliverPendingPlaces
<1>8. CASE \E s \in Signalers, c \in Calls : ReceiveSignalingData(s, c)
  BY <1>1, <1>8, ReceivePlaces
<1>9. CASE \E s \in Signalers : DeliverSignaling(s)
  BY <1>9, DeliverSignalingPlaces
<1>10. CASE \E t \in Stoppers : (\E c \in Calls : DropCall(t, c)) \/ StopMedia(t) \/ StopTaken(t)
  BY <1>1, <1>10, StopPlaces
<1>11. QED
  BY <1>2, <1>3, <1>4, <1>5, <1>6, <1>7, <1>8, <1>9, <1>10 DEF Next

\* VoipEngine implements SignalingRelay: whatever starts, stops, drops and
\* copies of sessions overlap, the queue, the drains and the threads in
\* ReceiveSignalingData hand each packet over at most once.
THEOREM RelayImplemented == Spec => RelaysSignaling
<1>1. Init => Relay!Init
  <2> SUFFICES ASSUME Init PROVE Relay!Init
    OBVIOUS
  <2>1. arrived = <<>> /\ handed = {}
    BY DEF Init
  <2>2. 1..Len(arrived) = {} /\ Held = {} /\ Handed = {}
    BY <2>1 DEF Held, Handed
  <2>3. QED
    BY <2>2 DEF Relay!Init
<1>2. Typed /\ Routes /\ Apart /\ [Next]_vars => Apart' /\ [Relay!Next]_Relay!relay
  <2> SUFFICES ASSUME Typed, Routes, Apart, [Next]_vars
               PROVE  Apart' /\ [Relay!Next]_Relay!relay
    OBVIOUS
  <2>1. CASE arrived' = arrived /\ Handed' = Handed /\ Held' \subseteq Held
    BY <2>1, NextPlaces DEF Relay!Next, Relay!Lose
  <2>2. CASE arrived' = arrived /\ \E p \in Held : Held' = Held \ {p} /\ Handed' = Handed \cup {p}
    <3>1. PICK p \in Held : Held' = Held \ {p} /\ Handed' = Handed \cup {p}
      BY <2>2
    <3>2. p \in Packets
      BY <3>1, BoundsAssumption DEF Held, Packets, Typed, HistoryOk
    <3>3. Relay!Hand(p)
      BY <2>2, <3>1 DEF Relay!Hand
    <3>4. QED
      BY <3>2, <3>3, NextPlaces DEF Relay!Next
  <2>3. CASE /\ Handed' = Handed
             /\ \E p \in Packets : /\ p \notin 1..Len(arrived)
                                   /\ 1..Len(arrived') = 1..Len(arrived) \cup {p}
                                   /\ Held' \subseteq Held \cup {p}
    <3>1. PICK p \in Packets : Relay!Receive(p)
      BY <2>3 DEF Relay!Receive
    <3>2. QED
      BY <3>1, NextPlaces DEF Relay!Next
  <2>4. QED
    BY <2>1, <2>2, <2>3, NextPlaces
<1>3. QED
  BY <1>1, <1>2, InitTyped, InitRoutes, InitApart, NextTyped, NextRoutes, PTL
     DEF Spec, RelaysSignaling, Relay!Spec

-------------------------------------------------------------------------------
(* Loss.  The converse of the relay: what is held stays held, but for the   *)
(* reasons LossIsExplained lists.                                           *)

\* A call that waits for its id has no session that BindOutgoingCall would
\* overwrite, and none is on its way back.
OutgoingUnknown ==
  \A c \in outgoing : ~Known(c) /\ client[c].at # "computing"

\* Every step keeps a call that waits for its id without a session.
LEMMA NextOutgoing ==
  Typed /\ OutgoingUnknown /\ [Next]_vars => OutgoingUnknown'
<1> SUFFICES ASSUME Typed, OutgoingUnknown, [Next]_vars PROVE OutgoingUnknown'
  OBVIOUS
<1> USE DEF registry, installed, threads, objects, history
<1>1. outgoing \subseteq Calls /\ outgoing \subseteq Placed
  BY CallsAssumption DEF Typed, RegistryOk
<1>2. ASSUME NEW c \in Calls, NEW v, NEW k,
             sessions' = [sessions EXCEPT ![c] = v], client' = [client EXCEPT ![c] = k],
             outgoing' \subseteq outgoing \cup {c},
             c \in outgoing' => v = NoSession /\ k.at # "computing"
      PROVE  OutgoingUnknown'
  <2>1. /\ sessions'[c] = v /\ client'[c] = k
        /\ \A d \in Calls \ {c} : sessions'[d] = sessions[d] /\ client'[d] = client[d]
    BY <1>2 DEF Typed, RegistryOk, ClientsOk
  <2>2. QED
    BY <1>1, <1>2, <2>1 DEF OutgoingUnknown, Known
<1>3. CASE outgoing' = outgoing /\ sessions' = sessions /\ client' = client
  BY <1>3 DEF OutgoingUnknown, Known
<1>4. ASSUME NEW c \in Calls, CreateOutgoingDh(c) PROVE OutgoingUnknown'
  <2>1. /\ sessions' = sessions /\ client' = client /\ outgoing' = outgoing \cup {c}
        /\ client[c] = Idle /\ sessions[c] = NoSession
    BY <1>4 DEF CreateOutgoingDh, Known
  <2>2. QED
    BY <1>2, <2>1, SamePlaces, EmptyHanded
<1>5. ASSUME NEW c \in Calls, BindOutgoingCall(c) PROVE OutgoingUnknown'
  <2>1. /\ client' = client /\ outgoing' = outgoing \ {c}
        /\ sessions' = [sessions EXCEPT ![c] = [NewSession EXCEPT !.private = TRUE]]
    BY <1>5 DEF BindOutgoingCall
  <2>2. QED
    BY <1>2, <2>1, SamePlaces
<1>6. ASSUME NEW c \in Calls, RegisterIncomingGAHash(c) PROVE OutgoingUnknown'
  <2>1. /\ client' = client /\ outgoing' = outgoing /\ c \notin outgoing
        /\ sessions' = [sessions EXCEPT
             ![c] = [(IF Known(c) THEN sessions[c] ELSE NewSession) EXCEPT !.incoming = TRUE]]
    BY <1>1, <1>6 DEF RegisterIncomingGAHash, Typed, RegistryOk
  <2>2. QED
    BY <1>2, <2>1, SamePlaces
<1>7. ASSUME NEW c \in Calls, CreateIncomingDh(c) \/ AcceptPeerGB(c) \/ ConfirmPeerGAOrB(c)
      PROVE  OutgoingUnknown'
  <2>1. PICK v : ComputeOnCopy(c, v)
    BY <1>7 DEF CreateIncomingDh, AcceptPeerGB, ConfirmPeerGAOrB
  <2>2. c \notin outgoing
    BY <1>7 DEF CreateIncomingDh, AcceptPeerGB, ConfirmPeerGAOrB, OutgoingUnknown
  <2>3. /\ sessions' = sessions /\ outgoing' = outgoing
        /\ client' = [client EXCEPT ![c] = Computing(v)]
    BY <2>1 DEF ComputeOnCopy
  <2>4. QED
    BY <1>2, <2>2, <2>3, SamePlaces
<1>8. ASSUME NEW c \in Calls, CopyBack(c) PROVE OutgoingUnknown'
  <2>1. c \notin outgoing
    BY <1>8 DEF CopyBack, OutgoingUnknown
  <2>2. /\ sessions' = [sessions EXCEPT ![c] = client[c].copy] /\ outgoing' = outgoing
        /\ client' = [client EXCEPT ![c] = Idle]
    BY <1>8 DEF CopyBack
  <2>3. QED
    BY <1>2, <2>1, <2>2
<1>9. ASSUME NEW c \in Calls, NEW k, UNCHANGED <<sessions, outgoing>>,
             client' = [client EXCEPT ![c] = k], k.at # "computing"
      PROVE  OutgoingUnknown'
  <2>1. c \in outgoing => sessions[c] = NoSession
    BY DEF OutgoingUnknown, Known
  <2>2. QED
    BY <1>2, <1>9, <2>1, SamePlaces
<1>10. ASSUME NEW c \in Calls, NEW x \in Starts, StartConnection(c, x) \/ StartClassic(c, x)
       PROVE  OutgoingUnknown'
  <2>1. PICK a, n : /\ a \in {"starting", "endpoint"}
                    /\ client' = [client EXCEPT ![c] = Running(a, x, <<>>, n)]
    BY <1>10 DEF StartConnection, StartClassic
  <2>2. Running(a, x, <<>>, n).at # "computing"
    BY <2>1, EmptyHanded
  <2>3. UNCHANGED <<sessions, outgoing>>
    BY <1>10 DEF StartConnection, StartClassic
  <2>4. QED
    BY <1>9, <2>1, <2>2, <2>3
<1>11. \A c, p : Draining(c, p).at # "computing"
  BY EmptyHanded DEF Draining
<1>12. ASSUME NEW c \in Calls, InstallConnection(c) PROVE OutgoingUnknown'
  <2>1. /\ client' = [client EXCEPT ![c] = Draining(c, Queue(sessions[c]))] /\ outgoing' = outgoing
        /\ sessions' = SessionsAfterSwap(c)
    BY <1>12 DEF InstallConnection
  <2>2. CASE Known(c)
    <3>1. c \notin outgoing
      BY <2>2 DEF OutgoingUnknown
    <3>2. sessions' = [sessions EXCEPT ![c] = [sessions[c] EXCEPT !.queue = <<>>]]
      BY <2>1, <2>2 DEF SessionsAfterSwap
    <3>3. QED
      BY <1>2, <2>1, <3>1, <3>2
  <2>3. CASE ~Known(c)
    BY <1>9, <1>11, <2>1, <2>3 DEF SessionsAfterSwap
  <2>4. QED
    BY <2>2, <2>3
<1>13. ASSUME NEW c \in Calls, DeliverPending(c) PROVE OutgoingUnknown'
  <2>1. client' = [client EXCEPT ![c] = Draining(c, Tail(client[c].pending))]
    BY <1>13 DEF DeliverPending, Typed, ClientsOk
  <2>2. UNCHANGED <<sessions, outgoing>>
    BY <1>13 DEF DeliverPending
  <2>3. QED
    BY <1>9, <1>11, <2>1, <2>2
<1>14. ASSUME NEW c \in Calls,
              \/ CheckIdle(c) \/ PrepareEndpoint(c) \/ CheckPrepared(c) \/ MarkConnecting(c)
              \/ EndpointFails(c) \/ ClassicFails(c) \/ PublishMedia(c)
       PROVE  OutgoingUnknown'
  <2>1. UNCHANGED <<sessions, outgoing>>
    BY <1>14 DEF CheckIdle, PrepareEndpoint, CheckPrepared, MarkConnecting, EndpointFails,
       ClassicFails, PublishMedia
  <2>2. CASE ClassicFails(c) \/ PublishMedia(c)
    <3>1. client' = [client EXCEPT ![c] = Idle]
      BY <2>2 DEF ClassicFails, PublishMedia
    <3>2. QED
      BY <1>9, <2>1, <3>1, EmptyHanded
  <2>3. CASE \/ CheckIdle(c) \/ PrepareEndpoint(c) \/ CheckPrepared(c) \/ MarkConnecting(c)
             \/ EndpointFails(c)
    <3>1. PICK a, n : /\ a \in OnEndpoint
                      /\ client' = [client EXCEPT ![c] = Running(a, client[c].start, <<>>, n)]
      BY <2>3 DEF CheckIdle, PrepareEndpoint, CheckPrepared, MarkConnecting, EndpointFails, Typed,
         ClientsOk, OnEndpoint
    <3>2. Running(a, client[c].start, <<>>, n).at # "computing"
      BY <3>1, EmptyHanded DEF OnEndpoint
    <3>3. QED
      BY <1>9, <2>1, <3>1, <3>2
  <2>4. QED
    BY <1>14, <2>2, <2>3
<1>15. ASSUME NEW s \in Signalers, NEW c \in Calls, ReceiveSignalingData(s, c)
       PROVE  OutgoingUnknown'
  <2>1. UNCHANGED <<client, outgoing>>
    BY <1>15 DEF ReceiveSignalingData
  <2>2. CASE Known(c) /\ ~GoesToConnection(c)
    <3>1. c \notin outgoing
      BY <2>2 DEF OutgoingUnknown
    <3>2. PICK v : sessions' = [sessions EXCEPT ![c] = v]
      BY <1>15, <2>2 DEF ReceiveSignalingData
    <3>3. QED
      BY <1>2, <2>1, <3>1, <3>2, SamePlaces
  <2>3. CASE ~(Known(c) /\ ~GoesToConnection(c))
    BY <1>3, <1>15, <2>1, <2>3 DEF ReceiveSignalingData
  <2>4. QED
    BY <2>2, <2>3
<1>16. ASSUME NEW t \in Stoppers, NEW c \in Calls, DropCall(t, c) PROVE OutgoingUnknown'
  <2>1. /\ sessions' = [sessions EXCEPT ![c] = NoSession]
        /\ outgoing' = outgoing /\ client' = client
    BY <1>16 DEF DropCall
  <2>2. c \in outgoing => client[c].at # "computing"
    BY DEF OutgoingUnknown
  <2>3. QED
    BY <1>2, <2>1, <2>2, SamePlaces
<1>17. CASE \/ UNCHANGED vars \/ \E s \in Signalers : DeliverSignaling(s)
            \/ \E t \in Stoppers : StopMedia(t) \/ StopTaken(t)
  BY <1>3, <1>17 DEF vars, DeliverSignaling, StopMedia, StopTaken
<1>18. QED
  BY <1>4, <1>5, <1>6, <1>7, <1>8, <1>10, <1>12, <1>13, <1>14, <1>15, <1>16, <1>17 DEF Next

\* The reasons of LossIsExplained for the loss of one packet.
Explained(p) ==
  \/ p \in Handed'
  \/ LET c == arrived'[p] IN
       \/ sessions'[c] = NoSession
       \/ client[c].at = "computing"
       \/ Arriving # {} /\ Crowded(c, Append(Queue(sessions[c]), Len(arrived')), p)

\* What a step that sets one call's session and thread can lose.
LEMMA LostFrom ==
  ASSUME Typed, NEW c \in Calls, NEW v, NEW k,
         sessions' = [sessions EXCEPT ![c] = v], client' = [client EXCEPT ![c] = k],
         UNCHANGED <<signaler, arrived>>, NEW p \in Held, p \notin Held'
  PROVE  arrived[p] = c /\ p \in At(c) /\ p \notin KeptIn(v, k) /\ sessions'[c] = v
<1>1. /\ sessions'[c] = v /\ client'[c] = k
      /\ \A d \in Calls \ {c} : sessions'[d] = sessions[d] /\ client'[d] = client[d]
  BY DEF Typed, RegistryOk, ClientsOk
<1>2. p \in 1..Len(arrived) /\ arrived[p] \in Calls
  BY DEF Held, Typed, HistoryOk
<1>3. p \in At(arrived[p]) /\ p \notin KeptIn(sessions'[arrived[p]], client'[arrived[p]])
  BY <1>2, HeldIs, HeldIsNext
<1>4. arrived[p] = c
  BY <1>1, <1>2, <1>3 DEF At
<1>5. QED
  BY <1>1, <1>3, <1>4

\* A step that keeps what a call holds loses nothing.
LEMMA NothingLost ==
  ASSUME Typed, NEW c \in Calls, NEW v, NEW k,
         sessions' = [sessions EXCEPT ![c] = v], client' = [client EXCEPT ![c] = k],
         UNCHANGED <<signaler, arrived>>, At(c) \subseteq KeptIn(v, k)
  PROVE  Held \subseteq Held'
BY LostFrom

\* A thread that neither computes nor drains has nothing to lose.
LEMMA EmptyHandsKeep ==
  ASSUME Typed, Apart, NEW c \in Calls, NEW k, UNCHANGED <<sessions, signaler, arrived>>,
         client' = [client EXCEPT ![c] = k], client[c].at \notin {"computing", "draining"}
  PROVE  Held \subseteq Held'
<1>1. client[c].copy = NoSession /\ client[c].pending = <<>>
  BY DEF Apart, ApartIn
<1>2. At(c) \subseteq KeptIn(sessions[c], k)
  BY <1>1, EmptyApart DEF At, KeptIn
<1>3. QED
  BY <1>2, SamePlaces, NothingLost

\* The key exchange loses only what a newer or older session replaces.
LEMMA DhLoss ==
  ASSUME Typed, Apart, OutgoingUnknown, NEW c \in Calls,
         \/ CreateOutgoingDh(c) \/ BindOutgoingCall(c) \/ RegisterIncomingGAHash(c)
         \/ CreateIncomingDh(c) \/ AcceptPeerGB(c) \/ ConfirmPeerGAOrB(c) \/ CopyBack(c)
  PROVE  \A p \in Held \ Held' : Explained(p)
<1> USE DEF registry, installed, threads, objects, history
<1>1. UNCHANGED <<signaler, arrived>>
  BY DEF ComputeOnCopy, CreateOutgoingDh, BindOutgoingCall, RegisterIncomingGAHash,
     CreateIncomingDh, AcceptPeerGB, ConfirmPeerGAOrB, CopyBack
<1>2. ASSUME NEW v, sessions' = [sessions EXCEPT ![c] = v], client' = client,
             Queue(v) = Queue(sessions[c])
      PROVE  Held \subseteq Held'
  <2>1. At(c) \subseteq KeptIn(v, client[c])
    BY <1>2 DEF At, KeptIn
  <2>2. QED
    BY <1>1, <1>2, <2>1, SamePlaces, NothingLost
<1>3. CASE CreateOutgoingDh(c)
  <2>1. sessions' = sessions /\ client' = client
    BY <1>3 DEF CreateOutgoingDh
  <2>2. QED
    BY <1>2, <2>1, SamePlaces
<1>4. CASE BindOutgoingCall(c)
  <2> DEFINE v == [NewSession EXCEPT !.private = TRUE]
  <2>1. v \in Session /\ v.queue = <<>>
    BY EmptyQueues, FlagsOk
  <2>2. sessions' = [sessions EXCEPT ![c] = v] /\ client' = client
    BY <1>4 DEF BindOutgoingCall
  <2>3. sessions[c] = NoSession
    BY <1>4 DEF BindOutgoingCall, OutgoingUnknown, Known
  <2> HIDE DEF v
  <2>4. Queue(v) = <<>> /\ Queue(sessions[c]) = <<>>
    BY <2>1, <2>3 DEF Queue
  <2>5. QED
    BY <1>2, <2>2, <2>4
<1>5. CASE RegisterIncomingGAHash(c)
  <2> DEFINE w == IF Known(c) THEN sessions[c] ELSE NewSession
             v == [w EXCEPT !.incoming = TRUE]
  <2>1. w \in Session /\ w.queue = Queue(sessions[c])
    BY EmptyQueues, KnownIsSession DEF Typed, Queue, Known
  <2>2. v.queue = w.queue
    BY <2>1, FlagsOk
  <2>3. sessions' = [sessions EXCEPT ![c] = v] /\ client' = client
    BY <1>5 DEF RegisterIncomingGAHash, Typed, RegistryOk
  <2> HIDE DEF v, w
  <2>4. CASE v = NoSession
    <3>1. client' = [client EXCEPT ![c] = client[c]]
      BY <2>3, SamePlaces
    <3>2. \A p \in Held \ Held' : arrived[p] = c /\ sessions'[c] = NoSession
      BY <1>1, <2>3, <2>4, <3>1, LostFrom
    <3>3. QED
      BY <1>1, <3>2 DEF Explained
  <2>5. CASE v # NoSession
    <3>1. Queue(v) = Queue(sessions[c])
      BY <2>1, <2>2, <2>5 DEF Queue
    <3>2. QED
      BY <1>2, <2>3, <3>1
  <2>6. QED
    BY <2>4, <2>5
<1>6. CASE CreateIncomingDh(c) \/ AcceptPeerGB(c) \/ ConfirmPeerGAOrB(c)
  <2>1. client[c] = Idle
    BY <1>6 DEF CreateIncomingDh, AcceptPeerGB, ConfirmPeerGAOrB
  <2>2. PICK v : ComputeOnCopy(c, v)
    BY <1>6 DEF CreateIncomingDh, AcceptPeerGB, ConfirmPeerGAOrB
  <2>3. sessions' = sessions /\ client' = [client EXCEPT ![c] = Computing(v)]
    BY <2>2 DEF ComputeOnCopy
  <2>4. QED
    BY <1>1, <2>1, <2>3, EmptyHanded, EmptyHandsKeep
<1>7. CASE CopyBack(c)
  <2>1. client[c].at = "computing"
    BY <1>7 DEF CopyBack
  <2>2. PICK v, k : /\ sessions' = [sessions EXCEPT ![c] = v]
                    /\ client' = [client EXCEPT ![c] = k]
    BY <1>7 DEF CopyBack
  <2>3. ASSUME NEW p \in Held, p \notin Held' PROVE arrived[p] = c
    BY <1>1, <2>2, <2>3, LostFrom
  <2>4. QED
    BY <1>1, <2>1, <2>3 DEF Explained
<1>8. QED
  BY <1>3, <1>4, <1>5, <1>6, <1>7

\* A start loses nothing.
LEMMA StartLoss ==
  ASSUME Typed, Apart, NEW c \in Calls,
         \/ \E x \in Starts : StartConnection(c, x) \/ StartClassic(c, x)
         \/ InstallConnection(c)
         \/ CheckIdle(c) \/ PrepareEndpoint(c) \/ CheckPrepared(c) \/ MarkConnecting(c)
         \/ EndpointFails(c) \/ ClassicFails(c) \/ PublishMedia(c)
  PROVE  Held \subseteq Held'
<1> USE DEF registry, installed, threads, objects, history
<1>1. UNCHANGED <<signaler, arrived>> /\ client[c].at \notin {"computing", "draining"}
  BY EmptyHanded DEF StartConnection, StartClassic, InstallConnection, CheckIdle, PrepareEndpoint,
     CheckPrepared, MarkConnecting, EndpointFails, ClassicFails, PublishMedia
<1>2. CASE InstallConnection(c)
  <2> DEFINE q == Queue(sessions[c])
             k == Draining(c, q)
  <2>1. client' = [client EXCEPT ![c] = k]
    BY <1>2 DEF InstallConnection
  <2>2. q # <<>> => k.pending = q
    BY EmptyHanded DEF Draining
  <2>3. client[c].copy = NoSession /\ client[c].pending = <<>>
    BY <1>1 DEF Apart, ApartIn
  <2> HIDE DEF k
  <2>4. \A v : At(c) \subseteq KeptIn(v, k)
    BY <2>2, <2>3, EmptyApart DEF At, KeptIn
  <2>5. CASE Known(c)
    <3>1. sessions' = [sessions EXCEPT ![c] = [sessions[c] EXCEPT !.queue = <<>>]]
      BY <1>2, <2>5 DEF InstallConnection, SessionsAfterSwap
    <3>2. QED
      BY <1>1, <2>1, <2>4, <3>1, NothingLost
  <2>6. CASE ~Known(c)
    <3>1. sessions' = [sessions EXCEPT ![c] = sessions[c]]
      BY <1>2, <2>6, SamePlaces DEF InstallConnection, SessionsAfterSwap
    <3>2. QED
      BY <1>1, <2>1, <2>4, <3>1, NothingLost
  <2>7. QED
    BY <2>5, <2>6
<1>3. CASE ~InstallConnection(c)
  <2>1. sessions' = sessions
    BY <1>3 DEF StartConnection, StartClassic, CheckIdle, PrepareEndpoint, CheckPrepared,
       MarkConnecting, EndpointFails, ClassicFails, PublishMedia
  <2>2. PICK k : client' = [client EXCEPT ![c] = k]
    BY <1>3 DEF StartConnection, StartClassic, CheckIdle, PrepareEndpoint, CheckPrepared,
       MarkConnecting, EndpointFails, ClassicFails, PublishMedia, Typed, ClientsOk
  <2>3. QED
    BY <1>1, <2>1, <2>2, EmptyHandsKeep
<1>4. QED
  BY <1>2, <1>3

\* A delivery hands over what is no longer held.
LEMMA DeliverLoss ==
  ASSUME Typed, Routes, Apart,
         \/ \E c \in Calls : DeliverPending(c)
         \/ \E s \in Signalers : DeliverSignaling(s)
  PROVE  \A p \in Held \ Held' : Explained(p)
<1>1. \E r \in Held : Held' = Held \ {r} /\ Handed' = Handed \cup {r}
  BY DeliverPendingPlaces, DeliverSignalingPlaces
<1>2. QED
  BY <1>1 DEF Explained

\* What a queue with one packet more does not keep was too much for it.
LEMMA QueueKeeps ==
  ASSUME NEW c \in Calls, NEW q \in Seq(Packets), NEW n \in Packets, NEW p,
         p \in Range(q) \cup {n}, p \notin Range(QueuePendingSignaling(c, q, n))
  PROVE  Crowded(c, Append(q, n), p)
<1> DEFINE r == Append(q, n)
           f == FirstToFit(c, r)
<1>1. /\ r \in Seq(Packets) /\ Len(r) = Len(q) + 1 /\ Len(q) \in Nat /\ r[Len(q) + 1] = n
      /\ \A i \in 1..Len(q) : r[i] = q[i]
      /\ DOMAIN q = 1..Len(q) /\ DOMAIN r = 1..Len(r)
  OBVIOUS
<1>2. /\ f \in 1..(Len(r) + 1) /\ \A j \in 1..(f - 1) : ~Fits(c, From(r, j))
  BY <1>1, FirstToFitExists
<1>3. QueuePendingSignaling(c, q, n) = From(r, f)
  BY DEF QueuePendingSignaling
<1> HIDE DEF r, f
<1>4. PICK i \in 1..Len(r) : r[i] = p
  BY <1>1 DEF Range
<1>5. ~(i >= f)
  BY <1>1, <1>2, <1>3, <1>4, FromKeeps
<1>6. ~Fits(c, From(r, i))
  <2>1. i \in 1..(f - 1)
    BY <1>1, <1>2, <1>5
  <2>2. QED
    BY <1>2, <2>1
<1>7. Crowded(c, r, p)
  BY <1>1, <1>4, <1>6 DEF Crowded
<1>8. QED
  BY <1>7 DEF r

\* A packet that is received may throw out older ones, and itself.
LEMMA ReceiveLoss ==
  ASSUME Typed, Routes, Apart, NEW s \in Signalers, NEW c \in Calls, ReceiveSignalingData(s, c)
  PROVE  \A p \in (Held \cup Arriving) \ Held' : Explained(p)
<1> USE DEF registry, installed, threads, objects, history
<1> SUFFICES ASSUME NEW p \in Held \cup Arriving, p \notin Held' PROVE Explained(p)
  OBVIOUS
<1> DEFINE n == Len(arrived) + 1
           q == QueuePendingSignaling(c, sessions[c].queue, n)
           v == [sessions[c] EXCEPT !.queue = q]
<1>1. /\ client' = client /\ arrived' = Append(arrived, c)
      /\ arrived \in Seq(Calls) /\ Len(arrived) < MaxPackets
  BY DEF ReceiveSignalingData, Typed, HistoryOk
<1>2. /\ n \in Packets /\ n \in 1..Len(arrived') /\ n \notin 1..Len(arrived)
      /\ Len(arrived') = n /\ arrived'[n] = c /\ n # 0
      /\ Arriving = {n}
      /\ \A r \in 1..Len(arrived) :
           r \in 1..Len(arrived') /\ arrived'[r] = arrived[r] /\ arrived[r] \in Calls /\ r # 0
  BY <1>1, BoundsAssumption DEF Packets, Arriving
<1>3. CASE GoesToConnection(c) \/ ~Known(c)
  <2>1. sessions' = sessions
    BY <1>3 DEF ReceiveSignalingData, GoesToConnection
  <2>2. CASE p \in Held
    <3>1. p \in 1..Len(arrived)
      BY <2>2 DEF Held
    <3>2. \A t \in Signalers : signaler[t].packet = p => signaler'[t].packet = p
      <4>1. \A t \in Signalers : signaler'[t] = signaler[t] \/ signaler[t] = SignalerIdle
        BY DEF ReceiveSignalingData, Typed, SignalersOk
      <4>2. QED
        BY <1>2, <3>1, <4>1 DEF SignalerIdle
    <3>3. FALSE
      BY <1>1, <1>2, <2>1, <2>2, <3>1, <3>2, HeldIs, HeldIsNext DEF At
    <3>4. QED
      BY <3>3
  <2>3. CASE p = n /\ GoesToConnection(c)
    <3>1. signaler'[s].packet = n
      BY <1>1, <2>3 DEF ReceiveSignalingData, Typed, SignalersOk
    <3>2. n \in Held'
      BY <1>2, <3>1, HeldIsNext
    <3>3. QED
      BY <2>3, <3>2
  <2>4. CASE p = n /\ ~Known(c)
    <3>1. sessions'[arrived'[p]] = NoSession
      BY <1>2, <2>1, <2>4 DEF Known
    <3>2. QED
      BY <3>1 DEF Explained
  <2>5. QED
    BY <1>2, <1>3, <2>2, <2>3, <2>4
<1>4. CASE Known(c) /\ ~GoesToConnection(c)
  <2>1. sessions' = [sessions EXCEPT ![c] = v] /\ signaler' = signaler
    BY <1>4 DEF ReceiveSignalingData
  <2>2. /\ sessions[c] \in Session /\ sessions[c].queue \in Seq(Packets)
        /\ Queue(sessions[c]) = sessions[c].queue
    BY <1>4, KnownIsSession DEF Typed, Queue, Known
  <2>3. v.queue = q
    <3>1. q \in Seq(Packets)
      BY <1>2, <2>2, QueueBounded
    <3> HIDE DEF q
    <3>2. QED
      BY <2>2, <3>1 DEF Session
  <2>4. sessions'[c] = v /\ \A d \in Calls \ {c} : sessions'[d] = sessions[d]
    BY <2>1 DEF Typed, RegistryOk
  <2>5. CASE v = NoSession /\ arrived'[p] = c
    BY <2>4, <2>5 DEF Explained
  <2>6. ASSUME arrived'[p] = c, v # NoSession,
               p \in Range(sessions[c].queue) \cup {n}, p \notin Range(q)
        PROVE  Explained(p)
    <3>1. Crowded(c, Append(sessions[c].queue, n), p)
      BY <1>2, <2>2, <2>6, QueueKeeps
    <3> HIDE DEF n
    <3>2. QED
      BY <1>2, <2>2, <2>6, <3>1 DEF Explained
  <2>7. v # NoSession => Queue(v) = q
    BY <2>3 DEF Queue
  <2> HIDE DEF v
  <2>8. CASE p = n
    <3>1. p \notin KeptIn(sessions'[c], client[c])
      BY <1>1, <1>2, <2>8, HeldIsNext
    <3>2. QED
      BY <1>2, <2>4, <2>5, <2>6, <2>7, <2>8, <3>1 DEF KeptIn
  <2>9. CASE p \in Held
    <3>1. p \in 1..Len(arrived) /\ arrived'[p] = arrived[p] /\ arrived[p] \in Calls
      BY <1>2, <2>9 DEF Held
    <3>2. /\ p \in At(arrived[p])
          /\ p \notin KeptIn(sessions'[arrived[p]], client[arrived[p]])
      BY <1>1, <1>2, <2>1, <2>9, <3>1, HeldIs, HeldIsNext
    <3>3. arrived[p] = c
      BY <2>4, <3>1, <3>2 DEF At
    <3>4. QED
      BY <2>2, <2>4, <2>5, <2>6, <2>7, <3>1, <3>2, <3>3 DEF At, KeptIn
  <2>10. QED
    BY <1>2, <2>8, <2>9
<1>5. QED
  BY <1>3, <1>4

\* A drop loses the packets of its call.
LEMMA StopLoss ==
  ASSUME Typed, NEW t \in Stoppers,
         \/ \E c \in Calls : DropCall(t, c)
         \/ StopMedia(t) \/ StopTaken(t)
  PROVE  \A p \in Held \ Held' : Explained(p)
<1> USE DEF registry, installed, threads, objects, history
<1>1. UNCHANGED <<client, signaler, arrived>>
  BY DEF DropCall, StopMedia, StopTaken
<1>2. CASE \E c \in Calls : DropCall(t, c)
  <2>1. PICK c \in Calls : sessions' = [sessions EXCEPT ![c] = NoSession]
    BY <1>2 DEF DropCall
  <2>2. client' = [client EXCEPT ![c] = client[c]]
    BY <1>1, SamePlaces
  <2>3. ASSUME NEW p \in Held, p \notin Held'
        PROVE  arrived[p] = c /\ sessions'[c] = NoSession
    BY <1>1, <2>1, <2>2, <2>3, LostFrom
  <2>4. QED
    BY <1>1, <2>3 DEF Explained
<1>3. CASE StopMedia(t) \/ StopTaken(t)
  <2>1. sessions' = sessions
    BY <1>3 DEF StopMedia, StopTaken
  <2>2. Held' = Held
    BY <1>1, <2>1 DEF Held, Queue
  <2>3. QED
    BY <2>2
<1>4. QED
  BY <1>2, <1>3

\* LossIsExplained: a packet the engine holds, or is given for a call it knows, is
\* lost only when it is too much for the queue with what comes after it, by the
\* number of packets or by their bytes, when its call is dropped, or when a key
\* exchange puts back a copy of the session that is older than it.
THEOREM LossExplained == Spec => LossIsExplained
<1>1. Init => Typed /\ Routes /\ Apart /\ OutgoingUnknown
  BY InitTyped, InitRoutes, InitApart DEF Init, OutgoingUnknown
<1>2. Typed /\ Routes /\ Apart /\ OutgoingUnknown /\ [Next]_vars
        => (Typed /\ Routes /\ Apart /\ OutgoingUnknown)'
  BY NextTyped, NextRoutes, NextPlaces, NextOutgoing
<1>3. Typed /\ Routes /\ Apart /\ OutgoingUnknown /\ [Next]_vars
        => [\A p \in (Held \cup Arriving) \ Held' :
              \/ p \in Handed'
              \/ LET c == arrived'[p] IN
                   \/ sessions'[c] = NoSession
                   \/ client[c].at = "computing"
                   \/ Arriving # {} /\ Crowded(c, Append(Queue(sessions[c]), Len(arrived')), p)]_vars
  <2> SUFFICES ASSUME Typed, Routes, Apart, OutgoingUnknown, Next
               PROVE  \A p \in (Held \cup Arriving) \ Held' : Explained(p)
    BY DEF Explained
  <2>1. CASE \E s \in Signalers, c \in Calls : ReceiveSignalingData(s, c)
    BY <2>1, ReceiveLoss
  <2>2. CASE arrived' = arrived
    <3>1. Arriving = {}
      BY <2>2 DEF Arriving
    <3>2. \A p \in Held \ Held' : Explained(p)
      BY <2>2, DhLoss, StartLoss, DeliverLoss, ReceiveLoss, StopLoss DEF Next
    <3>3. QED
      BY <3>1, <3>2
  <2>3. arrived' = arrived \/ \E s \in Signalers, c \in Calls : ReceiveSignalingData(s, c)
    BY DEF Next, CreateOutgoingDh, BindOutgoingCall, RegisterIncomingGAHash, CreateIncomingDh,
       AcceptPeerGB, ConfirmPeerGAOrB, ComputeOnCopy, CopyBack, StartConnection, StartClassic,
       InstallConnection, DeliverPending, CheckIdle, PrepareEndpoint, CheckPrepared,
       MarkConnecting, EndpointFails, ClassicFails, PublishMedia, DropCall, DeliverSignaling,
       StopMedia, StopTaken, history
  <2>4. QED
    BY <2>1, <2>2, <2>3
<1>4. QED
  BY <1>1, <1>2, <1>3, PTL DEF Spec, LossIsExplained
===============================================================================
