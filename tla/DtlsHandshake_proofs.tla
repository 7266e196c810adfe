------------------------- MODULE DtlsHandshake_proofs -------------------------
(***************************************************************************)
(* Proofs about DtlsHandshake, for any peers, any number of disturbed      *)
(* deliveries and application records: EstablishedAgrees,                  *)
(* OtherCertificateNoKeys, NonceOnce, and that the handshake implements    *)
(* KeyAgreement.                                                           *)
(*                                                                         *)
(* The argument for the first two: the peer makes a Finished only when it  *)
(* has verified the client's, and is done from then on, so every Finished  *)
(* there ever is carries the peer's final transcript and secret (a member  *)
(* of GoodRecords).  The client compares its own with them.  The           *)
(* transcript of a peer that shows a Certificate holds it, and the client  *)
(* hashes one only when it is the announced one.                           *)
(***************************************************************************)
EXTENDS DtlsHandshake, SequenceTheorems, TLAPS

\* What the client sends.
ClientRecords ==
  [msg : Hashed \cup {"ccs"}, epoch : Nat, seq : Nat, mseq : Nat,
   hash : Transcripts, key : Secrets]

\* What the peer sends.
ServerRecords ==
  [msg : Hashed \cup {"ccs", "helloVerifyRequest", "alert"},
   hash : Transcripts, key : Secrets, sealed : BOOLEAN]

\* A Finished is of a peer that is done, and says what it is done with.
GoodRecords ==
  {r \in ServerRecords : r.msg = "serverFinished" =>
     server.phase = "done" /\ r.hash = server.transcript /\ r.key = server.key}

Datagrams == Seq(GoodRecords)

NetworkInv ==
  /\ inbox \in Datagrams
  /\ toClient \in Seq(Datagrams)
  /\ toServer \in Seq(ClientRecords)

\* The secret is there before the peer accepts a change of epoch, and its
\* flight, with its Certificate in third place, before anything else.
ShowsCertificate(t) == peer.cert # "none" => t[3] = "serverCertificate"

ServerInv ==
  /\ server.phase = "done" => server.ccs
  /\ server.ccs => server.key # NoSecret
  /\ server.phase # "idle" =>
       Len(server.transcript) >= 4 /\ ShowsCertificate(server.transcript)

TypeInv == TypeOK /\ NetworkInv /\ ServerInv

-------------------------------------------------------------------------------
(* Lemmas about sequences and records.                                      *)

\* The network hands on what it holds.
LEMMA DeliveryKeeps ==
  ASSUME NEW S, NEW q \in Seq(S), NEW i \in 1..Len(q), NEW again
  PROVE  q[i] \in S /\ RemoveAt(q, i) \in Seq(S) /\ AfterDelivery(q, i, again) \in Seq(S)
<1>1. SubSeq(q, 1, i-1) \in Seq(S) /\ SubSeq(q, i+1, Len(q)) \in Seq(S)
  OBVIOUS
<1>2. RemoveAt(q, i) \in Seq(S)
  BY <1>1 DEF RemoveAt
<1> QED BY <1>2 DEF AfterDelivery

\* What is appended one by one is appended.
LEMMA AppendKeeps ==
  ASSUME NEW S, NEW q \in Seq(S), NEW e \in S
  PROVE  Append(q, e) \in Seq(S)
OBVIOUS

\* A flight is sent in datagrams of its records.
LEMMA FlightKeeps ==
  ASSUME NEW S, NEW records \in Seq(S), toClient \in Seq(Seq(S)), SendFlight(records)
  PROVE  toClient' \in Seq(Seq(S))
<1> DEFINE one == [i \in 1..Len(records) |-> <<records[i]>>]
<1>1. <<records>> \in Seq(Seq(S))
  OBVIOUS
<1>2. one \in Seq(Seq(S))
  <2>1. \A i \in 1..Len(records) : <<records[i]>> \in Seq(S)
    OBVIOUS
  <2>2. one \in [1..Len(records) -> Seq(S)]
    BY <2>1
  <2>3. Len(records) \in Nat
    OBVIOUS
  <2> QED BY <2>2, <2>3, SeqDef
<1>3. toClient' = toClient \o (IF peer.packed THEN <<records>> ELSE one)
  BY DEF SendFlight
<1> HIDE DEF one
<1> QED BY <1>1, <1>2, <1>3, ConcatProperties

\* A server that is not done makes every record it has sent a lasting one, and
\* one that is done does not change.
LEMMA RecordsStayGood ==
  ASSUME server.phase # "done" \/ server' = server,
         NEW d \in Datagrams, NEW q \in Seq(Datagrams)
  PROVE  d \in Datagrams' /\ q \in Seq(Datagrams')
<1>1. GoodRecords \subseteq GoodRecords'
  BY DEF GoodRecords
<1>2. Datagrams \subseteq Datagrams'
  BY <1>1, SeqMonotonic DEF Datagrams
<1>3. q \in Seq(Datagrams')
  BY <1>2, SeqMonotonic
<1> QED BY <1>2, <1>3

\* Records without a Finished are good whatever the peer does.
LEMMA PlainRecordsAreGood ==
  ASSUME NEW msg \in Hashed \cup {"ccs", "helloVerifyRequest", "alert"},
         msg # "serverFinished"
  PROVE  Plain(msg) \in GoodRecords
<1>1. <<>> \in Transcripts /\ NoSecret \in Secrets
  BY DEF Transcripts, Secrets, NoSecret
<1> QED BY <1>1 DEF Plain, GoodRecords, ServerRecords

\* What a sequence put behind another leaves of it.
LEMMA Joined ==
  ASSUME NEW S, NEW a \in Seq(S), NEW b \in Seq(S)
  PROVE  /\ a \o b \in Seq(S) /\ Len(a) \in Nat /\ Len(b) \in Nat
         /\ Len(a \o b) = Len(a) + Len(b)
         /\ \A i \in 1..Len(a) : (a \o b)[i] = a[i]
BY ConcatProperties

\* The first flight of the peer, with and without certificate and request.
LEMMA ServerFlights ==
  /\ ServerFlight \in Seq(Hashed \ {"serverFinished"})
  /\ Len(ServerFlight) >= 3
  /\ peer.cert # "none" => ServerFlight[2] = "serverCertificate"
<1> DEFINE S == Hashed \ {"serverFinished"}
           cert == IF peer.cert = "none" THEN <<>> ELSE <<"serverCertificate">>
           request == IF peer.asks THEN <<"certificateRequest">> ELSE <<>>
           hello == <<"serverHello">>
           key == <<"serverKeyExchange">>
           done == <<"serverHelloDone">>
           a == hello \o cert
           b == a \o key
           c == b \o request
<1>1. hello \in Seq(S) /\ key \in Seq(S) /\ done \in Seq(S)
  BY DEF Hashed
<1>2. /\ cert \in Seq(S) /\ request \in Seq(S)
      /\ peer.cert # "none" => Len(cert) = 1 /\ cert[1] = "serverCertificate"
  <2>1. cert \in {<<>>, <<"serverCertificate">>} /\ request \in {<<>>, <<"certificateRequest">>}
    OBVIOUS
  <2>2. peer.cert # "none" => cert = <<"serverCertificate">>
    OBVIOUS
  <2>3. <<>> \in Seq(S) /\ <<"serverCertificate">> \in Seq(S) /\ <<"certificateRequest">> \in Seq(S)
    BY DEF Hashed
  <2> HIDE DEF cert, request, S
  <2>4. cert \in Seq(S) /\ request \in Seq(S)
    BY <2>1, <2>3
  <2>5. peer.cert # "none" => Len(cert) = 1 /\ cert[1] = "serverCertificate"
    BY <2>2
  <2> QED BY <2>4, <2>5
<1>3. Len(hello) = 1 /\ Len(key) = 1 /\ Len(done) = 1
  OBVIOUS
<1>4. ServerFlight = c \o done
  BY DEF ServerFlight
<1> HIDE DEF S, cert, request, hello, key, done
<1>5. /\ a \in Seq(S) /\ Len(a) = 1 + Len(cert) /\ Len(cert) \in Nat
      /\ Len(cert) = 1 => a[2] = cert[1]
  <2>1. /\ a \in Seq(S) /\ Len(cert) \in Nat /\ Len(a) = Len(hello) + Len(cert)
    BY <1>1, <1>2, Joined
  <2>2. ASSUME Len(cert) = 1 PROVE a[2] = cert[1]
    <3>1. 2 \in (Len(hello) + 1)..(Len(hello) + Len(cert)) /\ 2 - Len(hello) = 1
      BY <1>3, <2>2
    <3> QED BY <1>1, <1>2, <3>1, ConcatProperties
  <2> QED BY <1>3, <2>1, <2>2
<1> HIDE DEF a
<1>6. /\ b \in Seq(S) /\ Len(b) = Len(a) + Len(key)
      /\ \A i \in 1..Len(a) : b[i] = a[i]
  BY <1>1, <1>5, Joined
<1> HIDE DEF b
<1>7. /\ c \in Seq(S) /\ Len(c) = Len(b) + Len(request) /\ Len(request) \in Nat
      /\ \A i \in 1..Len(b) : c[i] = b[i]
  <2>1. b \in Seq(S) /\ request \in Seq(S)
    BY <1>2, <1>6
  <2> QED BY <2>1, Joined
<1> HIDE DEF c
<1>8. /\ c \o done \in Seq(S) /\ Len(c \o done) = Len(c) + Len(done)
      /\ \A i \in 1..Len(c) : (c \o done)[i] = c[i]
  BY <1>1, <1>7, Joined
<1>9. Len(c \o done) >= 3
  BY <1>3, <1>5, <1>6, <1>7, <1>8
<1>10. ASSUME peer.cert # "none" PROVE (c \o done)[2] = "serverCertificate"
  <2>1. Len(cert) = 1 /\ cert[1] = "serverCertificate"
    BY <1>2, <1>10
  <2>2. Len(a) = 2 /\ Len(b) = 3 /\ Len(c) \in Nat /\ Len(c) >= 3
    BY <1>3, <1>5, <1>6, <1>7, <2>1
  <2>3. a[2] = "serverCertificate"
    BY <1>5, <2>1
  <2>4. (c \o done)[2] = c[2] /\ c[2] = b[2] /\ b[2] = a[2]
    BY <1>6, <1>7, <1>8, <2>2
  <2> QED BY <2>3, <2>4
<1> QED BY <1>4, <1>8, <1>9, <1>10 DEF S

\* That flight, sent.
LEMMA HelloFlightIsGood == HelloFlight \in Datagrams
<1>1. \A i \in 1..Len(ServerFlight) : Plain(ServerFlight[i]) \in GoodRecords
  <2>1. \A i \in 1..Len(ServerFlight) :
          ServerFlight[i] \in Hashed \ {"serverFinished"}
    BY ServerFlights
  <2> QED BY <2>1, PlainRecordsAreGood
<1>2. HelloFlight \in [1..Len(ServerFlight) -> GoodRecords] /\ Len(ServerFlight) \in Nat
  BY <1>1, ServerFlights DEF HelloFlight
<1> QED BY <1>2, SeqDef DEF Datagrams

\* A session that has not begun has its types.
LEMMA InitTyped == Init => TypeInv
<1> SUFFICES ASSUME Init PROVE TypeInv
  OBVIOUS
<1>1. /\ <<>> \in Transcripts /\ NoSecret \in Secrets /\ <<>> \in Datagrams
      /\ <<>> \in Seq(Datagrams) /\ <<>> \in Seq(ClientRecords)
  BY DEF Transcripts, Secrets, NoSecret, Datagrams
<1>2. TypeOK
  <2>1. SessionType
    BY <1>1 DEF Init, SessionType, States
  <2>2. CallType
    BY <1>1 DEF Init, CallType
  <2>3. PeerType
    BY <1>1, FaultsAssumption, AppDataAssumption DEF Init, PeerType
  <2> QED BY <2>1, <2>2, <2>3 DEF TypeOK
<1>3. NetworkInv
  BY <1>1 DEF Init, NetworkInv
<1>4. ServerInv
  BY DEF Init, ServerInv
<1> QED BY <1>2, <1>3, <1>4 DEF TypeInv

-------------------------------------------------------------------------------
(* Types: the client.                                                       *)

\* The client's handlers leave the peer and what is on its way from it alone.
LEMMA ClientTyped ==
  ASSUME TypeInv, SessionType', CallType', inbox' \in Datagrams,
         toServer' \in Seq(ClientRecords),
         UNCHANGED <<toClient, peer, server, faults>>, appData' \in 0..MaxAppData
  PROVE  TypeInv'
<1>1. GoodRecords' = GoodRecords
  BY DEF GoodRecords
<1>2. Datagrams' = Datagrams
  BY <1>1 DEF Datagrams
<1>3. NetworkInv'
  BY <1>2 DEF TypeInv, NetworkInv
<1>4. ServerInv'
  BY DEF TypeInv, ServerInv, ShowsCertificate
<1>5. PeerType'
  BY DEF TypeInv, TypeOK, PeerType
<1> QED BY <1>3, <1>4, <1>5 DEF TypeInv, TypeOK

\* Whatever arrives is hashed.
LEMMA HashTyped ==
  ASSUME transcript \in Transcripts, NEW msg \in Hashed, Hash(msg)
  PROVE  transcript' \in Transcripts
BY AppendKeeps DEF Hash, Transcripts

\* The records of a handler: the first one is taken off, or the datagram is
\* dropped.
LEMMA InboxTyped ==
  ASSUME TypeInv, NEW msg, NextRecord(msg), inbox' \in {Tail(inbox), <<>>},
         UNCHANGED <<pumping, exported>>
  PROVE  /\ Head(inbox) \in GoodRecords /\ Head(inbox).msg = msg
         /\ inbox' \in Datagrams
         /\ CallType'
<1>1. inbox \in Seq(GoodRecords) /\ inbox # <<>> /\ Head(inbox).msg = msg
  BY DEF TypeInv, NetworkInv, Datagrams, NextRecord
<1>2. Head(inbox) \in GoodRecords /\ Tail(inbox) \in Seq(GoodRecords)
  BY <1>1, HeadTailProperties
<1>3. <<>> \in Seq(GoodRecords)
  OBVIOUS
<1>4. inbox' \in Datagrams
  BY <1>2, <1>3 DEF Datagrams
<1>5. CallType'
  BY <1>1 DEF TypeInv, TypeOK, CallType
<1> QED BY <1>1, <1>2, <1>4, <1>5

\* A record the client sends in the clear.
LEMMA PlainClientRecord ==
  ASSUME NEW msg \in Hashed \cup {"ccs"}, NEW ep \in Nat, NEW sq \in Nat, NEW ms \in Nat,
         NEW hash \in Transcripts, NEW key \in Secrets
  PROVE  Record(msg, ep, sq, ms, hash, key) \in ClientRecords
BY DEF Record, ClientRecords

\* The values everything starts from.
LEMMA EmptyTyped == <<>> \in Transcripts /\ NoSecret \in Secrets
BY DEF Transcripts, Secrets, NoSecret

\* The two ClientHellos.
LEMMA HelloTyped ==
  ASSUME TypeInv, Initiate \/ OnHelloVerifyRequest
  PROVE  TypeInv'
<1>1. "clientHello" \in Hashed /\ "clientHelloCookie" \in Hashed
  BY DEF Hashed, HelloNames
<1>2. SessionType /\ CallType /\ toServer \in Seq(ClientRecords)
      /\ inbox \in Datagrams /\ appData \in 0..MaxAppData
  BY DEF TypeInv, TypeOK, NetworkInv, PeerType
<1>3. CASE Initiate
  <2>1. transcript' \in Transcripts
    BY <1>1, <1>2, <1>3, AppendKeeps DEF Initiate, SessionType, Transcripts
  <2>2. toServer' \in Seq(ClientRecords)
    <3>1. Record("clientHello", epoch, recordSeq, messageSeq, <<>>, NoSecret) \in ClientRecords
      BY <1>1, <1>2, EmptyTyped, PlainClientRecord DEF SessionType
    <3> QED BY <1>2, <1>3, <3>1, AppendKeeps DEF Initiate
  <2>3. SessionType'
    BY <1>2, <1>3, <2>1 DEF Initiate, SessionType, States
  <2>4. CallType' /\ inbox' \in Datagrams /\ UNCHANGED <<toClient, peer, server, faults>>
        /\ appData' \in 0..MaxAppData
    BY <1>2, <1>3 DEF Initiate, callVars, CallType
  <2> QED BY <2>2, <2>3, <2>4, ClientTyped
<1>4. CASE OnHelloVerifyRequest
  <2>1. transcript' \in Transcripts
    BY <1>1, <1>4 DEF OnHelloVerifyRequest, Transcripts
  <2>2. toServer' \in Seq(ClientRecords)
    <3>1. Record("clientHelloCookie", epoch, recordSeq, messageSeq, <<>>, NoSecret)
            \in ClientRecords
      BY <1>1, <1>2, EmptyTyped, PlainClientRecord DEF SessionType
    <3> QED BY <1>2, <1>4, <3>1, AppendKeeps DEF OnHelloVerifyRequest
  <2>3. SessionType'
    BY <1>2, <1>4, <2>1 DEF OnHelloVerifyRequest, SessionType, States
  <2>4. CallType' /\ inbox' \in Datagrams
    BY <1>4, InboxTyped DEF OnHelloVerifyRequest
  <2>5. UNCHANGED <<toClient, peer, server, faults>> /\ appData' \in 0..MaxAppData
    BY <1>2, <1>4 DEF OnHelloVerifyRequest
  <2> QED BY <2>2, <2>3, <2>4, <2>5, ClientTyped
<1> QED BY <1>3, <1>4

\* The handlers that send nothing.
LEMMA HandlerTyped ==
  ASSUME TypeInv,
         \/ OnServerHello \/ OnServerCertificate \/ OnServerKeyExchange
         \/ OnCertificateRequest \/ OnFinished \/ HandleChangeCipherSpec \/ OnFatalAlert
  PROVE  TypeInv'
<1>1. {"serverHello", "serverCertificate", "serverKeyExchange", "certificateRequest",
       "serverFinished"} \subseteq Hashed
  BY DEF Hashed
<1>2. SessionType /\ toServer \in Seq(ClientRecords) /\ appData \in 0..MaxAppData
      /\ peer \in Peers
  BY DEF TypeInv, TypeOK, NetworkInv, PeerType
<1>3. /\ UNCHANGED <<toServer, toClient, peer, server, faults, appData>>
      /\ UNCHANGED <<messageSeq, epoch, recordSeq, master>>
      /\ UNCHANGED <<pumping, exported>> /\ inbox' \in {Tail(inbox), <<>>}
      /\ \E msg : NextRecord(msg)
  BY DEF OnServerHello, OnServerCertificate, OnServerKeyExchange, OnCertificateRequest,
         OnFinished, HandleChangeCipherSpec, OnFatalAlert, FailSession
<1>4. transcript' \in Transcripts
  <2>1. \/ UNCHANGED transcript
        \/ Hash("serverHello") \/ Hash("serverCertificate") \/ Hash("serverKeyExchange")
        \/ Hash("certificateRequest") \/ Hash("serverFinished")
    BY DEF OnServerHello, OnServerCertificate, OnServerKeyExchange, OnCertificateRequest,
           OnFinished, HandleChangeCipherSpec, OnFatalAlert
  <2> QED BY <2>1, <1>1, <1>2, HashTyped DEF SessionType
<1>5. state' \in States
  BY <1>2 DEF OnServerHello, OnServerCertificate, OnServerKeyExchange, OnCertificateRequest,
         OnFinished, HandleChangeCipherSpec, OnFatalAlert, FailSession, SessionType, States
<1>6. random' \in {"random", "zeroes"} /\ ems' \in BOOLEAN /\ point' \in BOOLEAN
  BY <1>2, PeersAssumption DEF OnServerHello, OnServerCertificate, OnServerKeyExchange, OnCertificateRequest,
         OnFinished, HandleChangeCipherSpec, OnFatalAlert, SessionType, PeerKinds
<1>7. SessionType'
  BY <1>2, <1>3, <1>4, <1>5, <1>6 DEF SessionType
<1>8. CallType' /\ inbox' \in Datagrams
  BY <1>3, InboxTyped
<1> QED BY <1>2, <1>3, <1>7, <1>8, ClientTyped

\* The transcripts of the client's flight.
LEMMA FlightTranscripts ==
  ASSUME transcript \in Transcripts
  PROVE  /\ SignedPart \in Transcripts
         /\ Append(SignedPart, "certificateVerify") \in Transcripts
         /\ Append(Append(SignedPart, "certificateVerify"), "clientFinished") \in Transcripts
<1> DEFINE part == <<"serverHelloDone", "clientCertificate", "clientKeyExchange">>
<1>1. part \in Seq(Hashed) /\ "certificateVerify" \in Hashed /\ "clientFinished" \in Hashed
  BY DEF Hashed
<1> HIDE DEF part
<1>2. transcript \o part \in Seq(Hashed)
  BY <1>1, ConcatProperties DEF Transcripts
<1>3. SignedPart = transcript \o part
  BY DEF SignedPart, part
<1> QED BY <1>1, <1>2, <1>3, AppendKeeps DEF Transcripts

\* A secret is derived over a transcript.
LEMMA DerivedTyped ==
  ASSUME SessionType, NEW t \in Transcripts
  PROVE  Derived(t) \in Secrets
<1> DEFINE S == Hashed \cup {"random", "zeroes"}
<1>1. <<random>> \in Seq(S)
  BY DEF SessionType
<1>2. t \in Seq(S) /\ <<>> \in Seq(S)
  BY SeqMonotonic DEF Transcripts
<1>3. (IF ems THEN t ELSE <<>>) \in Seq(S)
  BY <1>2
<1> HIDE DEF S
<1>4. <<random>> \o (IF ems THEN t ELSE <<>>) \in Seq(S)
  BY <1>1, <1>3, ConcatProperties
<1> QED BY <1>4 DEF Derived, Secrets, S

\* The client's last flight, made at the ServerHelloDone.
LEMMA FlightTyped ==
  ASSUME TypeInv, OnServerHelloDone
  PROVE  TypeInv'
<1> DEFINE t == Append(SignedPart, "certificateVerify")
<1>1. SessionType /\ toServer \in Seq(ClientRecords) /\ appData \in 0..MaxAppData
  BY DEF TypeInv, TypeOK, NetworkInv, PeerType
<1>2. SignedPart \in Transcripts /\ t \in Transcripts /\ Append(t, "clientFinished") \in Transcripts
  BY <1>1, FlightTranscripts DEF SessionType
<1>3. messageSeq \in Nat /\ recordSeq \in Nat /\ epoch \in Nat
      /\ {"clientCertificate", "clientKeyExchange", "certificateVerify", "clientFinished"}
           \subseteq Hashed
  BY <1>1 DEF SessionType, Hashed
<1>4. KeyExchangeRecords \in Seq(ClientRecords)
  <2>1. /\ Record("clientCertificate", epoch, recordSeq, messageSeq, <<>>, NoSecret) \in ClientRecords
        /\ Record("clientKeyExchange", epoch, recordSeq + 1, messageSeq + 1, <<>>, NoSecret)
             \in ClientRecords
        /\ Record("certificateVerify", epoch, recordSeq + 2, messageSeq + 2, SignedPart, NoSecret)
             \in ClientRecords
    BY <1>2, <1>3, EmptyTyped, PlainClientRecord
  <2> QED BY <2>1 DEF KeyExchangeRecords
<1>5. ASSUME NEW key \in Secrets
      PROVE  FinishedRecords(t, key, epoch + 1) \in Seq(ClientRecords)
  <2> HIDE DEF t
  <2>1. /\ Record("ccs", epoch, recordSeq + 3, messageSeq + 3, <<>>, NoSecret) \in ClientRecords
        /\ Record("clientFinished", epoch + 1, 0, messageSeq + 3, t, key) \in ClientRecords
    BY <1>2, <1>3, <1>5, EmptyTyped DEF Record, ClientRecords
  <2> QED BY <2>1 DEF FinishedRecords
<1>6. CallType' /\ inbox' \in Datagrams
  <2>1. /\ NextRecord("serverHelloDone") /\ inbox' \in {Tail(inbox), <<>>}
        /\ UNCHANGED <<pumping, exported>>
    BY DEF OnServerHelloDone, FailSession
  <2> QED BY <2>1, InboxTyped
<1>7. UNCHANGED <<toClient, peer, server, faults>> /\ appData' \in 0..MaxAppData
  BY <1>1 DEF OnServerHelloDone
<1>8. CASE point
  <2>1. /\ master' = Derived(t)
        /\ toServer' = toServer \o KeyExchangeRecords \o FinishedRecords(t, Derived(t), epoch + 1)
        /\ transcript' = Append(t, "clientFinished")
        /\ messageSeq' = messageSeq + 4 /\ epoch' = epoch + 1 /\ recordSeq' = 1
        /\ state' = "SentFinished"
        /\ UNCHANGED <<random, ems, point>>
    BY <1>8 DEF OnServerHelloDone
  <2> HIDE DEF t
  <2>2. Derived(t) \in Secrets
    BY <1>1, <1>2, DerivedTyped
  <2>3. FinishedRecords(t, Derived(t), epoch + 1) \in Seq(ClientRecords)
    BY <1>5, <2>2
  <2>4. toServer' \in Seq(ClientRecords)
    BY <1>1, <1>4, <2>1, <2>3, ConcatProperties
  <2>5. SessionType'
    BY <1>1, <1>2, <1>3, <2>1, <2>2 DEF SessionType, States
  <2> QED BY <1>6, <1>7, <2>4, <2>5, ClientTyped
<1>9. CASE ~point
  <2>1. /\ toServer' = toServer \o KeyExchangeRecords /\ transcript' = t
        /\ messageSeq' = messageSeq + 3 /\ recordSeq' = recordSeq + 3 /\ state' = "Failed"
        /\ UNCHANGED <<random, ems, point, master, epoch>>
    BY <1>9 DEF OnServerHelloDone, FailSession
  <2> HIDE DEF t
  <2>2. toServer' \in Seq(ClientRecords)
    BY <1>1, <1>4, <2>1, ConcatProperties
  <2>3. SessionType'
    BY <1>1, <1>2, <1>3, <2>1 DEF SessionType, States
  <2> QED BY <1>6, <1>7, <2>2, <2>3, ClientTyped
<1> QED BY <1>8, <1>9

\* What the call does with its session.
LEMMA CallerTyped ==
  ASSUME TypeInv, ReportDatagram \/ EncryptAppData
  PROVE  TypeInv'
<1>1. SessionType /\ CallType /\ inbox \in Datagrams /\ toServer \in Seq(ClientRecords)
      /\ appData \in 0..MaxAppData
  BY DEF TypeInv, TypeOK, NetworkInv, PeerType
<1>2. UNCHANGED <<toServer, toClient, peer, server, faults, inbox>>
  BY DEF ReportDatagram, EncryptAppData, callVars
<1>3. SessionType'
  BY <1>1 DEF ReportDatagram, EncryptAppData, sessionVars, SessionType
<1>4. CallType'
  BY <1>1 DEF ReportDatagram, EncryptAppData, callVars, CallType, SessionType
<1>5. appData' \in 0..MaxAppData
  BY <1>1, AppDataAssumption DEF ReportDatagram, EncryptAppData
<1> QED BY <1>1, <1>2, <1>3, <1>4, <1>5, ClientTyped

-------------------------------------------------------------------------------
(* Types: the network and the peer.                                         *)

\* A disturbance counts.
LEMMA FaultsTyped ==
  ASSUME PeerType, NEW i \in Nat, NEW again \in BOOLEAN,
         faults + Disturbance(i, again) <= MaxFaults, faults' = faults + Disturbance(i, again)
  PROVE  faults' \in 0..MaxFaults
<1>1. Disturbance(i, again) \in Nat
  BY DEF Disturbance
<1> QED BY <1>1, FaultsAssumption DEF PeerType

\* A datagram is taken in.
LEMMA ReceiveTyped ==
  ASSUME TypeInv, NEW i \in 1..Len(toClient), NEW again \in BOOLEAN, ReceiveDatagram(i, again)
  PROVE  TypeInv'
<1>1. SessionType /\ CallType /\ PeerType /\ toClient \in Seq(Datagrams)
      /\ toServer \in Seq(ClientRecords)
  BY DEF TypeInv, TypeOK, NetworkInv
<1>2. toClient[i] \in Datagrams /\ AfterDelivery(toClient, i, again) \in Seq(Datagrams)
  BY <1>1, DeliveryKeeps
<1>3. Datagrams' = Datagrams
  BY DEF ReceiveDatagram, Datagrams, GoodRecords
<1>4. NetworkInv'
  <2>1. <<>> \in Datagrams
    BY DEF Datagrams
  <2> QED BY <1>1, <1>2, <1>3, <2>1 DEF ReceiveDatagram, NetworkInv
<1>5. SessionType' /\ CallType'
  BY <1>1 DEF ReceiveDatagram, sessionVars, SessionType, CallType
<1>6. PeerType'
  <2>1. i \in Nat
    BY <1>1
  <2>2. faults' \in 0..MaxFaults
    BY <1>1, <2>1, FaultsTyped DEF ReceiveDatagram
  <2> QED BY <1>1, <2>2 DEF ReceiveDatagram, PeerType
<1>7. ServerInv'
  BY DEF TypeInv, ReceiveDatagram, ServerInv, ShowsCertificate
<1> QED BY <1>4, <1>5, <1>6, <1>7 DEF TypeInv, TypeOK

\* What network and peer do by themselves.
LEMMA LossTyped ==
  ASSUME TypeInv, Network \/ PeerRetransmits
  PROVE  TypeInv'
<1>1. SessionType /\ CallType /\ PeerType /\ toClient \in Seq(Datagrams)
      /\ toServer \in Seq(ClientRecords) /\ inbox \in Datagrams
  BY DEF TypeInv, TypeOK, NetworkInv
<1>2. /\ UNCHANGED <<sessionVars, callVars, peer, server, nonces, appData>>
      /\ faults < MaxFaults /\ faults' = faults + 1
  BY DEF Network, LoseToServer, LoseToClient, PeerRetransmits
<1>3. Datagrams' = Datagrams
  BY <1>2 DEF Datagrams, GoodRecords
<1>4. toServer' \in Seq(ClientRecords)
  BY <1>1, DeliveryKeeps DEF Network, LoseToServer, LoseToClient, PeerRetransmits
<1>5. toClient' \in Seq(Datagrams)
  <2>1. ASSUME NEW i \in 1..Len(toClient), LoseToClient(i) PROVE toClient' \in Seq(Datagrams)
    BY <1>1, <2>1, DeliveryKeeps DEF LoseToClient
  <2>2. CASE PeerRetransmits
    <3>1. HelloFlight \in Seq(GoodRecords) /\ toClient \in Seq(Seq(GoodRecords))
      BY <1>1, HelloFlightIsGood DEF Datagrams
    <3>2. SendFlight(HelloFlight)
      BY <2>2 DEF PeerRetransmits
    <3> QED BY <3>1, <3>2, FlightKeeps DEF Datagrams
  <2>3. CASE UNCHANGED toClient
    BY <1>1, <2>3
  <2> QED BY <2>1, <2>2, <2>3 DEF Network, LoseToServer
<1>6. NetworkInv'
  BY <1>1, <1>2, <1>3, <1>4, <1>5 DEF callVars, NetworkInv
<1>7. SessionType' /\ CallType'
  BY <1>1, <1>2 DEF sessionVars, callVars, SessionType, CallType
<1>8. PeerType'
  BY <1>1, <1>2, FaultsAssumption DEF PeerType
<1>9. ServerInv'
  BY <1>2 DEF TypeInv, ServerInv, ShowsCertificate
<1> QED BY <1>6, <1>7, <1>8, <1>9 DEF TypeInv, TypeOK

Servers ==
  [phase : {"idle", "flight", "done", "failed"}, next : Nat,
   transcript : Transcripts, key : Secrets, ccs : BOOLEAN]

ServerType == server \in Servers

\* What is left to show of a step of the peer, once it is known what it does
\* to the peer and what it sends.
LEMMA PeerTyped ==
  ASSUME TypeInv, ServerType', ServerInv', toClient' \in Seq(Datagrams'),
         server.phase # "done" \/ server' = server,
         toServer' \in Seq(ClientRecords), faults' \in 0..MaxFaults,
         UNCHANGED <<sessionVars, callVars, peer, nonces, appData>>
  PROVE  TypeInv'
<1>1. SessionType /\ CallType /\ PeerType /\ inbox \in Datagrams /\ toClient \in Seq(Datagrams)
  BY DEF TypeInv, TypeOK, NetworkInv
<1>2. NetworkInv'
  BY <1>1, RecordsStayGood DEF NetworkInv, callVars
<1>3. SessionType' /\ CallType'
  BY <1>1 DEF sessionVars, callVars, SessionType, CallType
<1>4. PeerType'
  BY <1>1 DEF PeerType, ServerType, Servers
<1> QED BY <1>2, <1>3, <1>4 DEF TypeInv, TypeOK

\* Steps in which the peer sends a flight of good records, or none.
LEMMA SentTyped ==
  ASSUME TypeInv, server.phase # "done" \/ server' = server,
         \/ UNCHANGED toClient
         \/ \E records \in Datagrams' : SendFlight(records)
  PROVE  toClient' \in Seq(Datagrams')
<1>1. toClient \in Seq(Datagrams')
  <2>1. toClient \in Seq(Datagrams) /\ inbox \in Datagrams
    BY DEF TypeInv, NetworkInv
  <2> QED BY <2>1, RecordsStayGood
<1>2. CASE UNCHANGED toClient
  BY <1>1, <1>2
<1>3. ASSUME NEW records \in Datagrams', SendFlight(records)
      PROVE  toClient' \in Seq(Datagrams')
  <2> DEFINE G == GoodRecords'
  <2>1. records \in Seq(G) /\ toClient \in Seq(Seq(G))
    BY <1>1, <1>3 DEF Datagrams
  <2> HIDE DEF G
  <2>2. toClient' \in Seq(Seq(G))
    BY <1>3, <2>1, FlightKeeps
  <2> QED BY <2>2 DEF G, Datagrams
<1> QED BY <1>2, <1>3

\* The last flight of a peer that is done.
LEMMA FinalFlightIsGood ==
  ASSUME peer \in Peers, ServerType', server'.phase = "done"
  PROVE  FinalFlight \in Datagrams'
<1>1. "serverFinished" \in Hashed
  BY DEF Hashed
<1>2. Plain("ccs") \in GoodRecords'
  BY EmptyTyped DEF Plain, GoodRecords, ServerRecords
<1>3. Finished(server'.transcript, server'.key) \in GoodRecords'
  BY <1>1, PeersAssumption DEF ServerType, Servers, Finished, GoodRecords, ServerRecords, PeerKinds
<1> QED BY <1>2, <1>3 DEF FinalFlight, Datagrams

\* The first flight begins with the ClientHello it answers.
LEMMA PeerStartsTyped ==
  ASSUME TypeInv, NEW rec \in ClientRecords, PeerStarts(rec), peer' = peer
  PROVE  ServerType' /\ ServerInv' /\ \E records \in Datagrams' : SendFlight(records)
<1>1. ServerType /\ ServerInv /\ server.phase = "idle"
  BY DEF TypeInv, TypeOK, PeerType, ServerType, Servers, PeerStarts, Starts
<1>2. rec.msg \in HelloNames /\ rec.mseq \in Nat
  BY DEF PeerStarts, Starts, HelloNames, ClientRecords
<1> DEFINE t == <<rec.msg>> \o ServerFlight
<1>3. t \in Transcripts /\ Len(t) >= 4 /\ ShowsCertificate(t)
  <2>1. <<rec.msg>> \in Seq(Hashed) /\ Len(<<rec.msg>>) = 1
    BY <1>2 DEF Hashed
  <2>2. ServerFlight \in Seq(Hashed) /\ Len(ServerFlight) >= 3
        /\ (peer.cert # "none" => ServerFlight[2] = "serverCertificate")
    BY ServerFlights, SeqMonotonic
  <2> DEFINE h == <<rec.msg>>
  <2> HIDE DEF h
  <2>3. /\ t \in Seq(Hashed) /\ Len(t) = Len(h) + Len(ServerFlight)
        /\ \A i \in 1..Len(h) + Len(ServerFlight) :
             t[i] = IF i <= Len(h) THEN h[i] ELSE ServerFlight[i - Len(h)]
    <3>1. t = h \o ServerFlight
      BY DEF h
    <3> HIDE DEF t
    <3> QED BY <2>1, <2>2, <3>1, ConcatProperties DEF h
  <2>4. t[3] = ServerFlight[2]
    BY <2>1, <2>2, <2>3 DEF h
  <2> QED BY <2>1, <2>2, <2>3, <2>4 DEF Transcripts, ShowsCertificate, h
<1> DEFINE n == rec.mseq + 1
<1>4. server' = [server EXCEPT !.phase = "flight", !.next = n, !.transcript = t] /\ n \in Nat
  BY <1>2 DEF PeerStarts
<1> HIDE DEF t, n
<1>5. ServerType' /\ server'.phase = "flight" /\ server'.transcript = t
      /\ server'.key = server.key /\ server'.ccs = server.ccs
  <2>1. t \in Transcripts
    BY <1>3
  <2>2. server \in Servers
    BY <1>1 DEF ServerType
  <2>3. server' \in Servers
    BY <1>4, <2>1, <2>2 DEF Servers
  <2>4. server'.phase = "flight" /\ server'.transcript = t
    BY <1>4, <2>2 DEF Servers
  <2>5. server'.key = server.key /\ server'.ccs = server.ccs
    BY <1>4, <2>2 DEF Servers
  <2> QED BY <2>3, <2>4, <2>5 DEF ServerType
<1>6. ServerInv'
  <2>1. server'.ccs => server'.key # NoSecret
    BY <1>1, <1>5, Zenon DEF ServerInv
  <2>2. server'.phase # "done"
    BY <1>5
  <2>3. server'.transcript = t /\ peer' = peer
    BY <1>5
  <2> QED BY <1>3, <2>1, <2>2, <2>3 DEF ServerInv, ShowsCertificate
<1>7. HelloFlight \in Datagrams'
  <2>1. HelloFlight \in Datagrams
    BY HelloFlightIsGood
  <2>2. <<>> \in Seq(Datagrams)
    OBVIOUS
  <2> QED BY <1>1, <2>1, <2>2, RecordsStayGood
<1> QED BY <1>5, <1>6, <1>7 DEF PeerStarts

\* The client's certificate, key exchange and signature lengthen the
\* transcript; with the last the secret is there.
LEMMA PeerTakesTyped ==
  ASSUME TypeInv, NEW rec \in ClientRecords, PeerTakes(rec), peer' = peer
  PROVE  ServerType' /\ ServerInv' /\ server.phase # "done"
<1> DEFINE t == Append(server.transcript, rec.msg)
           key == IF rec.msg = "certificateVerify"
                  THEN <<"random">> \o (IF peer.ems THEN t ELSE <<>>) ELSE NoSecret
<1>1. ServerType /\ ServerInv /\ server.phase = "flight" /\ server.key = NoSecret
      /\ rec.msg \in Hashed
  BY DEF TypeInv, TypeOK, PeerType, ServerType, Servers, PeerTakes, InTurn, ClientRecords
<1> DEFINE n == server.next + 1
<1>2. server' = [server EXCEPT !.next = n, !.transcript = t, !.key = key] /\ n \in Nat
  BY <1>1 DEF PeerTakes, ServerType, Servers
<1> HIDE DEF n
<1>3. /\ t \in Transcripts /\ Len(t) = Len(server.transcript) + 1
      /\ \A i \in 1..Len(server.transcript) : t[i] = server.transcript[i]
      /\ Len(server.transcript) \in Nat
  <2>1. server.transcript \in Seq(Hashed)
    BY <1>1 DEF ServerType, Servers, Transcripts
  <2> QED BY <2>1, <1>1, AppendProperties, LenProperties DEF Transcripts
<1> HIDE DEF t
<1>4. key \in Secrets
  <2> DEFINE S == Hashed \cup {"random", "zeroes"}
  <2>1. <<"random">> \in Seq(S) /\ <<>> \in Seq(S) /\ t \in Seq(S)
    BY <1>3, SeqMonotonic DEF Transcripts
  <2>2. (IF peer.ems THEN t ELSE <<>>) \in Seq(S)
    BY <2>1
  <2> HIDE DEF S
  <2>3. <<"random">> \o (IF peer.ems THEN t ELSE <<>>) \in Seq(S)
    BY <2>1, <2>2, ConcatProperties
  <2> QED BY <2>3, EmptyTyped DEF Secrets, S
<1> HIDE DEF key
<1>5. ServerType' /\ server'.ccs = server.ccs /\ server'.phase = "flight"
      /\ server'.transcript = t
  BY <1>1, <1>2, <1>3, <1>4 DEF ServerType, Servers
<1>6. ServerInv'
  <2>2. Len(server.transcript) >= 4 /\ ShowsCertificate(server.transcript)
        /\ server.ccs = FALSE
    BY <1>1 DEF ServerType, Servers, ServerInv
  <2>3. ShowsCertificate(t) /\ Len(t) >= 4
    BY <1>3, <2>2 DEF ShowsCertificate
  <2> QED BY <1>5, <2>2, <2>3 DEF ServerInv, ShowsCertificate
<1> QED BY <1>1, <1>5, <1>6

\* The peer is done with a verified Finished, after its change of epoch.
LEMMA PeerFinishesTyped ==
  ASSUME TypeInv, NEW rec \in ClientRecords, PeerFinishes(rec), peer' = peer
  PROVE  /\ ServerType' /\ ServerInv' /\ server.phase = "flight" /\ server'.phase = "done"
         /\ server'.key = server.key /\ \E records \in Datagrams' : SendFlight(records)
<1> DEFINE t == Append(server.transcript, "clientFinished")
<1>1. ServerType /\ ServerInv /\ server.phase = "flight" /\ server.ccs
  BY DEF TypeInv, TypeOK, PeerType, ServerType, Servers, PeerFinishes, Finishes, Opens
<1> DEFINE n == server.next + 1
<1>2. server' = [server EXCEPT !.phase = "done", !.next = n, !.transcript = t] /\ n \in Nat
  BY <1>1 DEF PeerFinishes, ServerType, Servers
<1> HIDE DEF n
<1>3. /\ t \in Transcripts /\ Len(t) = Len(server.transcript) + 1
      /\ \A i \in 1..Len(server.transcript) : t[i] = server.transcript[i]
      /\ Len(server.transcript) \in Nat
  <2>1. server.transcript \in Seq(Hashed) /\ "clientFinished" \in Hashed
    BY <1>1 DEF ServerType, Servers, Transcripts, Hashed
  <2> QED BY <2>1, AppendProperties, LenProperties DEF Transcripts
<1> HIDE DEF t
<1>4. ServerType' /\ server'.phase = "done" /\ server'.key = server.key /\ server'.ccs
      /\ server'.transcript = t
  BY <1>1, <1>2, <1>3 DEF ServerType, Servers
<1>5. ServerInv'
  <2>1. ShowsCertificate(t) /\ Len(t) >= 4
    BY <1>1, <1>3 DEF ServerInv, ShowsCertificate
  <2> QED BY <1>1, <1>4, <2>1 DEF ServerInv, ShowsCertificate
<1>6. FinalFlight \in Datagrams'
  BY <1>4, FinalFlightIsGood DEF TypeInv, TypeOK, PeerType
<1> QED BY <1>1, <1>4, <1>5, <1>6 DEF PeerFinishes

\* Every other step of the peer.
LEMMA PeerOtherTyped ==
  ASSUME TypeInv, NEW rec \in ClientRecords, peer' = peer,
         \/ PeerAsksCookie(rec) \/ PeerChanges(rec) \/ PeerRepeats(rec)
         \/ PeerAlerts(rec) \/ PeerIgnores(rec)
  PROVE  /\ ServerType' /\ ServerInv'
         /\ server.phase # "done" \/ server' = server
         /\ UNCHANGED toClient \/ \E records \in Datagrams' : SendFlight(records)
<1>1. ServerType /\ ServerInv
  BY DEF TypeInv, TypeOK, PeerType, ServerType, Servers
<1>2. Plain("helloVerifyRequest") \in GoodRecords' /\ Plain("alert") \in GoodRecords'
  BY EmptyTyped DEF Plain, GoodRecords, ServerRecords, Hashed, HelloNames
<1>3. <<Plain("helloVerifyRequest")>> \in Datagrams' /\ <<Plain("alert")>> \in Datagrams'
  BY <1>2 DEF Datagrams
<1>4. CASE PeerAsksCookie(rec)
  BY <1>1, <1>3, <1>4 DEF PeerAsksCookie, ServerType, Servers, ServerInv, ShowsCertificate
<1>5. CASE PeerChanges(rec)
  BY <1>1, <1>5 DEF PeerChanges, Changes, ServerType, Servers, ServerInv, ShowsCertificate
<1>6. CASE PeerRepeats(rec)
  <2>1. ServerType' /\ ServerInv' /\ server' = server /\ server'.phase = "done"
    BY <1>1, <1>6 DEF PeerRepeats, Repeats, ServerType, Servers, ServerInv, ShowsCertificate
  <2>2. FinalFlight \in Datagrams'
    BY <2>1, FinalFlightIsGood DEF TypeInv, TypeOK, PeerType
  <2> QED BY <2>1, <2>2, <1>6 DEF PeerRepeats
<1>7. CASE PeerAlerts(rec)
  <2>1. server.phase = "flight" /\ server' = [server EXCEPT !.phase = "failed"]
        /\ SendFlight(<<Plain("alert")>>)
    BY <1>7 DEF PeerAlerts, InTurn, Finishes
  <2>2. ServerType' /\ ServerInv'
    BY <1>1, <2>1 DEF ServerType, Servers, ServerInv, ShowsCertificate
  <2> QED BY <1>3, <2>1, <2>2
<1>8. CASE PeerIgnores(rec)
  BY <1>1, <1>8 DEF PeerIgnores, ServerType, Servers, ServerInv, ShowsCertificate
<1> QED BY <1>4, <1>5, <1>6, <1>7, <1>8

\* What any step of the peer does to itself.
LEMMA PeerSteps ==
  ASSUME TypeInv, NEW i \in 1..Len(toServer), NEW again \in BOOLEAN, PeerReceives(i, again)
  PROVE  /\ TypeInv'
         /\ server.phase # "done" \/ server' = server
         /\ server' = server \/ server'.phase # "done" \/ server'.key = server.key
<1>1. toServer \in Seq(ClientRecords) /\ PeerType
  BY DEF TypeInv, TypeOK, NetworkInv
<1>2. toServer[i] \in ClientRecords /\ toServer' \in Seq(ClientRecords)
  BY <1>1, DeliveryKeeps DEF PeerReceives
<1>3. faults' \in 0..MaxFaults
  <2>1. i \in Nat
    BY <1>1
  <2> QED BY <1>1, <2>1, FaultsTyped DEF PeerReceives
<1>4. UNCHANGED <<sessionVars, callVars, peer, nonces, appData>>
  BY DEF PeerReceives
<1> DEFINE rec == toServer[i]
<1>5. /\ ServerType' /\ ServerInv'
      /\ server.phase # "done" \/ server' = server
      /\ UNCHANGED toClient \/ \E records \in Datagrams' : SendFlight(records)
      /\ server' = server \/ server'.phase # "done" \/ server'.key = server.key
  <2> rec \in ClientRecords
    BY <1>2
  <2> HIDE DEF rec
  <2>1. CASE PeerStarts(rec)
    <3>1. server'.phase = "flight" /\ server.phase = "idle"
      BY <2>1 DEF PeerStarts, Starts, TypeInv, TypeOK, PeerType
    <3> QED BY <1>4, <2>1, <3>1, PeerStartsTyped
  <2>2. CASE PeerTakes(rec)
    <3>1. server'.phase # "done" /\ UNCHANGED toClient
      BY <2>2 DEF PeerTakes, InTurn, TypeInv, TypeOK, PeerType
    <3> QED BY <1>4, <2>2, <3>1, PeerTakesTyped
  <2>3. CASE PeerFinishes(rec)
    BY <1>4, <2>3, PeerFinishesTyped
  <2>4. CASE \/ PeerAsksCookie(rec) \/ PeerChanges(rec) \/ PeerRepeats(rec)
             \/ PeerAlerts(rec) \/ PeerIgnores(rec)
    <3>1. server' = server \/ server'.phase # "done" \/ server'.key = server.key
      BY <2>4 DEF PeerAsksCookie, PeerChanges, PeerRepeats, PeerAlerts, PeerIgnores,
                  TypeInv, TypeOK, PeerType
    <3> QED BY <1>4, <2>4, <3>1, PeerOtherTyped
  <2> QED BY <2>1, <2>2, <2>3, <2>4 DEF PeerReceives, rec
<1>6. toClient' \in Seq(Datagrams')
  BY <1>5, SentTyped
<1>7. TypeInv'
  BY <1>2, <1>3, <1>4, <1>5, <1>6, PeerTyped
<1> QED BY <1>5, <1>7

\* Every step keeps the types.
LEMMA StepTyped == TypeInv /\ [Next]_vars => TypeInv'
<1> SUFFICES ASSUME TypeInv, [Next]_vars PROVE TypeInv'
  OBVIOUS
<1>1. CASE Initiate
  BY <1>1, HelloTyped
<1>2. ASSUME NEW i \in 1..Len(toClient), NEW again \in BOOLEAN, ReceiveDatagram(i, again)
      PROVE  TypeInv'
  BY <1>2, ReceiveTyped
<1>3. CASE ProcessRecord
  BY <1>3, HelloTyped, HandlerTyped, FlightTyped DEF ProcessRecord
<1>4. CASE ReportDatagram \/ EncryptAppData
  BY <1>4, CallerTyped
<1>5. CASE Network \/ PeerRetransmits
  BY <1>5, LossTyped
<1>6. ASSUME NEW i \in 1..Len(toServer), NEW again \in BOOLEAN, PeerReceives(i, again)
      PROVE  TypeInv'
  BY <1>6, PeerSteps
<1>7. CASE UNCHANGED vars
  <2>1. SessionType' /\ CallType' /\ inbox' \in Datagrams /\ toServer' \in Seq(ClientRecords)
        /\ UNCHANGED <<toClient, peer, server, faults>> /\ appData' \in 0..MaxAppData
    BY <1>7 DEF vars, sessionVars, callVars, TypeInv, TypeOK, NetworkInv, SessionType,
                CallType, PeerType
  <2> QED BY <2>1, ClientTyped
<1> QED BY <1>1, <1>2, <1>3, <1>4, <1>5, <1>6, <1>7 DEF Next

\* The types hold of every behaviour.
LEMMA Typed == Spec => []TypeInv
<1> QED BY InitTyped, StepTyped, PTL DEF Spec

-------------------------------------------------------------------------------
(* Agreement.                                                               *)

\* What a client hashes: a Certificate only when it is the announced one.
Allowed == {m \in Hashed : m = "serverCertificate" => peer.cert = "pinned"}

CertInv == transcript \in Seq(Allowed)

\* The call's keys are those of a peer that is done.
ExportInv ==
  exported # NoSecret =>
    server.phase = "done" /\ peer.cert \in {"pinned", "none"} /\ exported = server.key

AgreeInv == EstablishedAgrees /\ CertInv /\ ExportInv

\* Prefixes.
LEMMA PrefixReflexive ==
  ASSUME NEW S, NEW s \in Seq(S)
  PROVE  IsPrefix(s, s)
BY DEF IsPrefix

\* What begins a sequence begins a longer one.
LEMMA PrefixOfAppend ==
  ASSUME NEW S, NEW s \in Seq(S), NEW t \in Seq(S), NEW e \in S, IsPrefix(s, t)
  PROVE  IsPrefix(s, Append(t, e))
<1> DEFINE u == Append(t, e)
<1>1. /\ u \in Seq(S) /\ Len(u) = Len(t) + 1
      /\ \A i \in 1..Len(t) : u[i] = t[i]
  BY AppendProperties
<1>2. Len(s) \in Nat /\ Len(t) \in Nat /\ Len(s) <= Len(t)
  BY DEF IsPrefix
<1> HIDE DEF u
<1>3. SubSeq(u, 1, Len(s)) = SubSeq(t, 1, Len(s))
  BY <1>1, <1>2
<1> QED BY <1>1, <1>2, <1>3 DEF IsPrefix, u

\* The elements of a beginning.
LEMMA PrefixElement ==
  ASSUME NEW S, NEW s \in Seq(S), NEW t \in Seq(S), NEW i \in 1..Len(s), IsPrefix(s, t)
  PROVE  i \in 1..Len(t) /\ t[i] = s[i]
<1>1. Len(s) \in Nat /\ Len(t) \in Nat /\ Len(s) <= Len(t)
      /\ SubSeq(s, 1, Len(s)) = SubSeq(t, 1, Len(s))
  BY DEF IsPrefix
<1>2. SubSeq(s, 1, Len(s))[i] = s[i] /\ SubSeq(t, 1, Len(s))[i] = t[i]
  BY <1>1
<1> QED BY <1>1, <1>2

\* Before the handshake there is nothing to agree on.
LEMMA InitAgrees == Init => AgreeInv
BY DEF Init, AgreeInv, EstablishedAgrees, CertInv, ExportInv

\* The client hashes no Certificate but in OnServerCertificate, which looks at
\* its fingerprint.
LEMMA CertPreserves ==
  ASSUME TypeInv, CertInv, [Next]_vars
  PROVE  CertInv'
<1>1. peer' = peer
  BY DEF Next, Initiate, ReceiveDatagram, ProcessRecord, OnHelloVerifyRequest, OnServerHello,
         OnServerCertificate, OnServerKeyExchange, OnCertificateRequest, OnServerHelloDone,
         OnFinished, HandleChangeCipherSpec, OnFatalAlert, ReportDatagram, EncryptAppData,
         Network, LoseToServer, LoseToClient, PeerReceives, PeerRetransmits, vars
<1>2. Allowed' = Allowed
  BY <1>1 DEF Allowed
<1>3. transcript \in Seq(Allowed)
  BY DEF CertInv
<1>4. /\ {"clientHello", "clientHelloCookie", "serverHello", "serverKeyExchange",
          "certificateRequest", "serverHelloDone", "clientCertificate", "clientKeyExchange",
          "certificateVerify", "clientFinished", "serverFinished"} \subseteq Allowed
      /\ peer.cert = "pinned" => "serverCertificate" \in Allowed
  BY DEF Allowed, Hashed, HelloNames
<1>5. \/ UNCHANGED transcript
      \/ \E m \in Allowed : transcript' = Append(transcript, m)
      \/ transcript' = <<"clientHelloCookie">>
      \/ transcript' = Append(SignedPart, "certificateVerify")
      \/ transcript' = Append(Append(SignedPart, "certificateVerify"), "clientFinished")
  <2>1. CASE Initiate
    BY <2>1, <1>4 DEF Initiate
  <2>2. CASE ProcessRecord
    <3>1. CASE OnHelloVerifyRequest \/ HandleChangeCipherSpec \/ OnFatalAlert
      BY <3>1 DEF OnHelloVerifyRequest, HandleChangeCipherSpec, OnFatalAlert
    <3>2. CASE OnServerHello \/ OnServerKeyExchange \/ OnCertificateRequest
      BY <3>2, <1>4 DEF OnServerHello, OnServerKeyExchange, OnCertificateRequest, Hash
    <3>3. CASE OnServerCertificate
      BY <3>3, <1>4 DEF OnServerCertificate, Hash
    <3>4. CASE OnFinished
      BY <3>4, <1>4 DEF OnFinished, Hash
    <3>5. CASE OnServerHelloDone
      BY <3>5 DEF OnServerHelloDone
    <3> QED BY <2>2, <3>1, <3>2, <3>3, <3>4, <3>5 DEF ProcessRecord
  <2>3. CASE ~Initiate /\ ~ProcessRecord
    BY <2>3 DEF Next, ReceiveDatagram, ReportDatagram, EncryptAppData, Network, LoseToServer,
                LoseToClient, PeerReceives, PeerRetransmits, vars, sessionVars
  <2> QED BY <2>1, <2>2, <2>3
<1>6. SignedPart \in Seq(Allowed)
  <2> DEFINE part == <<"serverHelloDone", "clientCertificate", "clientKeyExchange">>
  <2>1. part \in Seq(Allowed)
    BY <1>4
  <2>2. SignedPart = transcript \o part
    BY DEF SignedPart
  <2> HIDE DEF part
  <2> QED BY <1>3, <2>1, <2>2, ConcatProperties
<1>7. transcript' \in Seq(Allowed)
  <2>1. <<"clientHelloCookie">> \in Seq(Allowed)
    BY <1>4
  <2>2. "certificateVerify" \in Allowed /\ "clientFinished" \in Allowed
    BY <1>4
  <2> QED BY <1>3, <1>5, <1>6, <2>1, <2>2, AppendKeeps
<1> QED BY <1>2, <1>7 DEF CertInv

\* A verified Finished establishes the session; afterwards whatever is hashed
\* comes behind the peer's transcript, or the session is no longer established.
LEMMA EstablishedPreserves ==
  ASSUME TypeInv, EstablishedAgrees, [Next]_vars
  PROVE  EstablishedAgrees'
<1> SUFFICES ASSUME state' = "Established"
             PROVE  /\ server'.phase = "done" /\ master' = server'.key
                    /\ IsPrefix(Append(server'.transcript, "serverFinished"), transcript')
  BY DEF EstablishedAgrees
<1>1. /\ server.transcript \in Seq(Hashed) /\ transcript \in Seq(Hashed)
      /\ "serverFinished" \in Hashed /\ "certificateRequest" \in Hashed
  BY DEF TypeInv, TypeOK, PeerType, SessionType, Transcripts, Hashed
<1>2. Append(server.transcript, "serverFinished") \in Seq(Hashed)
  BY <1>1, AppendKeeps
<1>3. CASE OnFinished
  <2>1. Verified(Head(inbox)) /\ NextRecord("serverFinished") /\ Hash("serverFinished")
        /\ UNCHANGED <<master, server>>
    BY <1>3 DEF OnFinished, FailSession
  <2>2. Head(inbox) \in GoodRecords /\ Head(inbox).msg = "serverFinished"
    <3>1. inbox \in Seq(GoodRecords) /\ inbox # <<>> /\ Head(inbox).msg = "serverFinished"
      BY <2>1 DEF TypeInv, NetworkInv, Datagrams, NextRecord
    <3> QED BY <3>1, HeadTailProperties
  <2>3. server.phase = "done" /\ transcript = server.transcript /\ master = server.key
    BY <2>1, <2>2 DEF Verified, GoodRecords
  <2>4. transcript' = Append(server.transcript, "serverFinished")
    BY <2>1, <2>3 DEF Hash
  <2> QED BY <1>2, <2>1, <2>3, <2>4, PrefixReflexive
<1>4. CASE OnCertificateRequest
  <2>1. state = "Established" /\ transcript' = Append(transcript, "certificateRequest")
        /\ UNCHANGED <<master, server>>
    BY <1>4 DEF OnCertificateRequest, Hash
  <2> QED BY <1>1, <1>2, <2>1, PrefixOfAppend DEF EstablishedAgrees
<1>5. CASE state = "Established" /\ UNCHANGED <<master, server, transcript>>
  BY <1>5 DEF EstablishedAgrees
<1>6. ASSUME NEW i \in 1..Len(toServer), NEW again \in BOOLEAN, PeerReceives(i, again)
      PROVE  state = "Established" /\ UNCHANGED <<master, server, transcript>>
  <2>1. state = "Established" /\ UNCHANGED <<master, transcript>>
    BY <1>6 DEF PeerReceives, sessionVars
  <2>2. server.phase = "done"
    BY <2>1 DEF EstablishedAgrees
  <2> QED BY <1>6, <2>1, <2>2, PeerSteps
<1>7. CASE \/ ReportDatagram \/ EncryptAppData \/ Network \/ PeerRetransmits
           \/ UNCHANGED vars
           \/ \E i \in 1..Len(toClient), again \in BOOLEAN : ReceiveDatagram(i, again)
  <2>1. state = "Established" /\ UNCHANGED <<master, server, transcript>>
    BY <1>7 DEF ReportDatagram, EncryptAppData, Network, LoseToServer, LoseToClient,
                PeerRetransmits, ReceiveDatagram, vars, sessionVars
  <2> QED BY <1>5, <2>1
<1>8. CASE \/ Initiate \/ OnHelloVerifyRequest \/ OnServerHello \/ OnServerCertificate
           \/ OnServerKeyExchange \/ OnServerHelloDone \/ HandleChangeCipherSpec
           \/ OnFatalAlert
  BY <1>8 DEF Initiate, OnHelloVerifyRequest, OnServerHello, OnServerCertificate,
              OnServerKeyExchange, OnServerHelloDone, HandleChangeCipherSpec, OnFatalAlert,
              FailSession
<1> QED BY <1>3, <1>4, <1>5, <1>6, <1>7, <1>8 DEF Next, ProcessRecord

\* The keys an established session hands out are of a peer that is done, and
\* whose Certificate, if it has shown one, is in the transcript both have.
LEMMA EstablishedIsPinned ==
  ASSUME TypeInv, AgreeInv, state = "Established"
  PROVE  /\ server.phase = "done" /\ peer.cert \in {"pinned", "none"}
         /\ master = server.key /\ master # NoSecret
<1>1. server.phase = "done" /\ master = server.key
      /\ IsPrefix(Append(server.transcript, "serverFinished"), transcript)
  BY DEF AgreeInv, EstablishedAgrees
<1>2. server.key # NoSecret /\ Len(server.transcript) >= 4
      /\ ShowsCertificate(server.transcript)
  BY <1>1 DEF TypeInv, ServerInv
<1>3. ASSUME peer.cert # "none" PROVE peer.cert = "pinned"
  <2>1. server.transcript \in Seq(Hashed) /\ transcript \in Seq(Hashed)
        /\ "serverFinished" \in Hashed
    BY DEF TypeInv, TypeOK, PeerType, SessionType, Transcripts, Hashed
  <2> DEFINE t == Append(server.transcript, "serverFinished")
  <2>2. t \in Seq(Hashed) /\ 3 \in 1..Len(t) /\ t[3] = "serverCertificate"
    BY <1>2, <1>3, <2>1, AppendProperties, LenProperties DEF ShowsCertificate
  <2> HIDE DEF t
  <2>3. 3 \in 1..Len(transcript) /\ transcript[3] = "serverCertificate"
    BY <1>1, <2>1, <2>2, PrefixElement DEF t
  <2>4. transcript \in Seq(Allowed)
    BY DEF AgreeInv, CertInv
  <2>5. "serverCertificate" \in Allowed
    BY <2>3, <2>4, ElementOfSeq
  <2> QED BY <2>5 DEF Allowed
<1> QED BY <1>1, <1>2, <1>3

\* The keys of the call are those of an established session.
LEMMA ExportPreserves ==
  ASSUME TypeInv, AgreeInv, [Next]_vars
  PROVE  ExportInv'
<1>1. CASE ReportDatagram
  <2>1. UNCHANGED <<server, peer>>
    BY <1>1 DEF ReportDatagram
  <2>2. CASE exported = NoSecret /\ state = "Established"
    <3>1. exported' = master
      BY <1>1, <2>2 DEF ReportDatagram
    <3> QED BY <2>1, <2>2, <3>1, EstablishedIsPinned DEF ExportInv
  <2>3. CASE ~(exported = NoSecret /\ state = "Established")
    <3>1. exported' = exported
      BY <1>1, <2>3 DEF ReportDatagram
    <3> QED BY <2>1, <3>1 DEF AgreeInv, ExportInv
  <2> QED BY <2>2, <2>3
<1>2. ASSUME NEW i \in 1..Len(toServer), NEW again \in BOOLEAN, PeerReceives(i, again)
      PROVE  ExportInv'
  <2>1. UNCHANGED <<exported, peer>>
    BY <1>2 DEF PeerReceives, callVars
  <2>2. server.phase # "done" \/ server' = server
    BY <1>2, PeerSteps
  <2> QED BY <2>1, <2>2 DEF AgreeInv, ExportInv
<1>3. CASE /\ ~ReportDatagram
           /\ ~\E i \in 1..Len(toServer), again \in BOOLEAN : PeerReceives(i, again)
  <2>1. UNCHANGED <<exported, peer, server>>
    BY <1>3 DEF Next, Initiate, ReceiveDatagram, ProcessRecord, OnHelloVerifyRequest,
         OnServerHello, OnServerCertificate, OnServerKeyExchange, OnCertificateRequest,
         OnServerHelloDone, OnFinished, HandleChangeCipherSpec, OnFatalAlert, EncryptAppData,
         Network, LoseToServer, LoseToClient, PeerRetransmits, vars, callVars
  <2> QED BY <2>1 DEF AgreeInv, ExportInv
<1> QED BY <1>1, <1>2, <1>3

\* The agreement holds of every behaviour.
LEMMA Agrees == Spec => []AgreeInv
<1>1. TypeInv /\ AgreeInv /\ [Next]_vars => AgreeInv'
  BY CertPreserves, EstablishedPreserves, ExportPreserves DEF AgreeInv
<1> QED BY <1>1, InitAgrees, Typed, PTL DEF Spec

-------------------------------------------------------------------------------
(* Nonces.                                                                  *)

Numbers == Secrets \X Nat \X Nat

\* A record encrypted before is of an earlier epoch, or of this one with a
\* smaller number.
Passed(n) == n[2] < epoch \/ (n[2] = epoch /\ n[3] < recordSeq)

NonceInv ==
  /\ nonces \in Seq(Numbers)
  /\ \A i \in 1..Len(nonces) : Passed(nonces[i])
  /\ NonceOnce

\* A record that is numbered beyond all others is a new one.
LEMMA NonceAppended ==
  ASSUME NonceInv, NEW n \in Numbers, nonces' = Append(nonces, n), ~Passed(n)
  PROVE  /\ nonces' \in Seq(Numbers) /\ NonceOnce'
         /\ \A i \in 1..Len(nonces') :
                  \/ i = Len(nonces') /\ nonces'[i] = n
                  \/ i \in 1..Len(nonces) /\ nonces'[i] = nonces[i]
<1>1. nonces \in Seq(Numbers) /\ Len(nonces) \in Nat
  BY DEF NonceInv
<1>2. /\ nonces' \in Seq(Numbers) /\ Len(nonces') = Len(nonces) + 1
      /\ \A i \in 1..Len(nonces) : nonces'[i] = nonces[i]
      /\ nonces'[Len(nonces) + 1] = n
  BY <1>1, AppendProperties
<1>3. \A i \in 1..Len(nonces') :
            \/ i = Len(nonces') /\ nonces'[i] = n
            \/ i \in 1..Len(nonces) /\ nonces'[i] = nonces[i]
  BY <1>1, <1>2
<1>4. \A i \in 1..Len(nonces) : nonces[i] # n
  BY DEF NonceInv
<1>5. \A i, j \in 1..Len(nonces) : nonces[i] = nonces[j] => i = j
  BY DEF NonceInv, NonceOnce
<1>6. NonceOnce'
  <2> SUFFICES ASSUME NEW i \in 1..Len(nonces'), NEW j \in 1..Len(nonces'),
                      nonces'[i] = nonces'[j]
               PROVE  i = j
    BY DEF NonceOnce
  <2>1. CASE i \in 1..Len(nonces) /\ j \in 1..Len(nonces)
    BY <2>1, <1>2, <1>5
  <2>2. CASE i \in 1..Len(nonces) /\ j \notin 1..Len(nonces)
    BY <2>2, <1>2, <1>3, <1>4
  <2>3. CASE i \notin 1..Len(nonces) /\ j \in 1..Len(nonces)
    BY <2>3, <1>2, <1>3, <1>4
  <2>4. CASE i \notin 1..Len(nonces) /\ j \notin 1..Len(nonces)
    BY <2>4, <1>3
  <2> QED BY <2>1, <2>2, <2>3, <2>4
<1> QED BY <1>2, <1>3, <1>6

\* Flights and application records are numbered upwards, and a new epoch
\* begins with each Finished.
LEMMA NoncePreserves ==
  ASSUME TypeInv, NonceInv, [Next]_vars
  PROVE  NonceInv'
<1>1. SessionType /\ epoch \in Nat /\ recordSeq \in Nat /\ master \in Secrets
      /\ transcript \in Transcripts
  BY DEF TypeInv, TypeOK, SessionType
<1>2. \A i \in 1..Len(nonces) : nonces[i] \in Numbers /\ nonces[i][2] \in Nat /\ nonces[i][3] \in Nat
  <2>1. \A i \in 1..Len(nonces) : nonces[i] \in Numbers
    BY DEF NonceInv
  <2> QED BY <2>1 DEF Numbers
<1>3. ASSUME UNCHANGED nonces, epoch' = epoch, recordSeq' \in Nat, recordSeq' >= recordSeq
      PROVE  NonceInv'
  <2>1. \A i \in 1..Len(nonces) : Passed(nonces[i])
    BY DEF NonceInv
  <2>2. (\A i \in 1..Len(nonces) : Passed(nonces[i]))'
    <3> SUFFICES ASSUME NEW i \in 1..Len(nonces)
                 PROVE  \/ nonces[i][2] < epoch
                        \/ nonces[i][2] = epoch /\ nonces[i][3] < recordSeq'
      BY <1>3 DEF Passed
    <3>1. nonces[i][2] \in Nat /\ nonces[i][3] \in Nat /\ Passed(nonces[i])
      BY <1>2, <2>1
    <3> QED BY <3>1, <1>1, <1>3 DEF Passed
  <2> QED BY <2>2, <1>3 DEF NonceInv, NonceOnce
<1>4. CASE OnServerHelloDone /\ point
  <2> DEFINE t == Append(SignedPart, "certificateVerify")
             n == <<Derived(t), epoch + 1, 0>>
  <2>1. nonces' = Append(nonces, n) /\ epoch' = epoch + 1 /\ recordSeq' = 1
    BY <1>4 DEF OnServerHelloDone
  <2>2. Derived(t) \in Secrets
    BY <1>1, FlightTranscripts, DerivedTyped
  <2> HIDE DEF t
  <2>3. n \in Numbers /\ ~Passed(n) /\ n[2] = epoch + 1 /\ n[3] = 0
    BY <1>1, <2>2 DEF Numbers, Passed
  <2> HIDE DEF n
  <2>4. /\ nonces' \in Seq(Numbers) /\ NonceOnce'
        /\ \A i \in 1..Len(nonces') :
                 \/ i = Len(nonces') /\ nonces'[i] = n
                 \/ i \in 1..Len(nonces) /\ nonces'[i] = nonces[i]
    BY <2>1, <2>3, NonceAppended
  <2>5. \A i \in 1..Len(nonces) : nonces[i][2] <= epoch
    BY <1>1, <1>2 DEF NonceInv, Passed
  <2>6. (\A i \in 1..Len(nonces) : Passed(nonces[i]))'
    <3> SUFFICES ASSUME NEW i \in 1..Len(nonces')
                 PROVE  \/ nonces'[i][2] < epoch + 1
                        \/ nonces'[i][2] = epoch + 1 /\ nonces'[i][3] < 1
      BY <2>1 DEF Passed
    <3>1. CASE nonces'[i] = n
      BY <3>1, <2>3
    <3>2. CASE i \in 1..Len(nonces) /\ nonces'[i] = nonces[i]
      BY <3>2, <1>1, <1>2, <2>5
    <3> QED BY <3>1, <3>2, <2>4
  <2> QED BY <2>4, <2>6 DEF NonceInv
<1>5. CASE EncryptAppData
  <2> DEFINE n == <<master, epoch, recordSeq>>
  <2>1. nonces' = Append(nonces, n) /\ epoch' = epoch /\ recordSeq' = recordSeq + 1
    BY <1>5 DEF EncryptAppData
  <2>2. n \in Numbers /\ ~Passed(n) /\ n[2] = epoch /\ n[3] = recordSeq
    BY <1>1 DEF Numbers, Passed
  <2> HIDE DEF n
  <2>3. /\ nonces' \in Seq(Numbers) /\ NonceOnce'
        /\ \A i \in 1..Len(nonces') :
                 \/ i = Len(nonces') /\ nonces'[i] = n
                 \/ i \in 1..Len(nonces) /\ nonces'[i] = nonces[i]
    BY <2>1, <2>2, NonceAppended
  <2>4. \A i \in 1..Len(nonces) : Passed(nonces[i])
    BY DEF NonceInv
  <2>5. (\A i \in 1..Len(nonces) : Passed(nonces[i]))'
    <3> SUFFICES ASSUME NEW i \in 1..Len(nonces')
                 PROVE  \/ nonces'[i][2] < epoch
                        \/ nonces'[i][2] = epoch /\ nonces'[i][3] < recordSeq + 1
      BY <2>1 DEF Passed
    <3>1. CASE nonces'[i] = n
      BY <3>1, <1>1, <2>2
    <3>2. CASE i \in 1..Len(nonces) /\ nonces'[i] = nonces[i]
      <4>1. nonces[i][2] \in Nat /\ nonces[i][3] \in Nat /\ Passed(nonces[i])
        BY <3>2, <1>2, <2>4
      <4> QED BY <3>2, <4>1, <1>1 DEF Passed
    <3> QED BY <3>1, <3>2, <2>3
  <2> QED BY <2>3, <2>5 DEF NonceInv
<1>6. CASE Initiate \/ OnHelloVerifyRequest \/ (OnServerHelloDone /\ ~point)
  BY <1>1, <1>3, <1>6 DEF Initiate, OnHelloVerifyRequest, OnServerHelloDone
<1>7. CASE ~(Initiate \/ OnHelloVerifyRequest \/ OnServerHelloDone \/ EncryptAppData)
  <2>1. UNCHANGED <<nonces, epoch, recordSeq>>
    BY <1>7 DEF Next, ReceiveDatagram, ProcessRecord, OnServerHello, OnServerCertificate,
         OnServerKeyExchange, OnCertificateRequest, OnFinished, HandleChangeCipherSpec,
         OnFatalAlert, ReportDatagram, Network, LoseToServer, LoseToClient, PeerReceives,
         PeerRetransmits, vars, sessionVars
  <2> QED BY <1>1, <1>3, <2>1
<1> QED BY <1>4, <1>5, <1>6, <1>7 DEF Next, ProcessRecord

\* No nonce is used twice in any behaviour.
LEMMA NoncesHold == Spec => []NonceInv
<1>1. Init => NonceInv
  <2> SUFFICES ASSUME Init PROVE NonceInv
    OBVIOUS
  <2>1. nonces = <<>> /\ <<>> \in Seq(Numbers) /\ Len(<<>>) = 0
    BY DEF Init
  <2> QED BY <2>1 DEF NonceInv, NonceOnce
<1>2. TypeInv /\ NonceInv /\ [Next]_vars => NonceInv'
  BY NoncePreserves
<1> QED BY <1>1, <1>2, Typed, PTL DEF Spec

-------------------------------------------------------------------------------
(* Theorems.                                                                *)

\* The variables have their types, whatever datagrams arrive.
THEOREM TypeCorrect == Spec => []TypeOK
<1>1. TypeInv => TypeOK
  BY DEF TypeInv
<1> QED BY Typed, <1>1, PTL

\* A session that says Established (OnFinished) has a peer that finished the
\* same handshake with the same secret.
THEOREM EstablishedCorrect == Spec => []EstablishedAgrees
<1>1. AgreeInv => EstablishedAgrees
  BY DEF AgreeInv
<1> QED BY Agrees, <1>1, PTL

\* The keys OnReflectorDatagram takes are never those of a peer that shows
\* another certificate than the announced one, whatever of its flight arrives.
THEOREM KeysCorrect == Spec => []OtherCertificateNoKeys
<1>1. AgreeInv => OtherCertificateNoKeys
  BY DEF AgreeInv, ExportInv, OtherCertificateNoKeys
<1> QED BY Agrees, <1>1, PTL

\* No two records are encrypted with one secret and one number, however often
\* the client answers a flight and whatever it sends afterwards.
THEOREM NonceCorrect == Spec => []NonceOnce
<1>1. NonceInv => NonceOnce
  BY DEF NonceInv
<1> QED BY NoncesHold, <1>1, PTL

\* DtlsHandshake implements KeyAgreement: the peer offers its secret when it is
\* done, and the client accepts that secret, once, when it exports its keys.
THEOREM AgreementImplemented == Spec => AgreesOnKeys
<1> DEFINE offered == IF server.phase = "done" THEN server.key ELSE NoSecret
<1>1. Init => Agreement!Init
  BY DEF Init, Agreement!Init
<1>2. ASSUME TypeInv, TypeInv', AgreeInv, [Next]_vars
      PROVE  [Agreement!Next]_<<offered, exported>>
  <2>1. ASSUME NEW i \in 1..Len(toServer), NEW again \in BOOLEAN, PeerReceives(i, again)
        PROVE  UNCHANGED <<offered, exported>> \/ Agreement!Offer
    <3>1. exported' = exported
      BY <2>1 DEF PeerReceives, callVars
    <3>2. CASE server' = server \/ server'.phase # "done"
      <4>1. server.phase # "done" \/ server' = server
        BY <2>1, <1>2, PeerSteps
      <4> QED BY <3>1, <3>2, <4>1
    <3>3. CASE server' # server /\ server'.phase = "done"
      <4>1. server.phase # "done" /\ server'.key = server.key
        BY <2>1, <3>3, <1>2, PeerSteps
      <4>2. server'.key \in Secrets \ {NoSecret}
        BY <3>3, <1>2 DEF TypeInv, TypeOK, PeerType, ServerInv
      <4> QED BY <3>1, <3>3, <4>1, <4>2 DEF Agreement!Offer
    <3> QED BY <3>2, <3>3
  <2>2. CASE ReportDatagram
    <3>1. offered' = offered
      BY <2>2 DEF ReportDatagram
    <3>2. CASE exported = NoSecret /\ state = "Established"
      <4>1. exported' = master /\ master = server.key /\ master # NoSecret /\ server.phase = "done"
        BY <2>2, <3>2, <1>2, EstablishedIsPinned DEF ReportDatagram
      <4> QED BY <3>1, <3>2, <4>1 DEF Agreement!Next, Agreement!Accept
    <3>3. CASE ~(exported = NoSecret /\ state = "Established")
      BY <2>2, <3>1, <3>3 DEF ReportDatagram
    <3> QED BY <3>2, <3>3
  <2>3. CASE /\ ~ReportDatagram
             /\ ~\E i \in 1..Len(toServer), again \in BOOLEAN : PeerReceives(i, again)
    <3>1. UNCHANGED <<server, exported>>
      BY <1>2, <2>3 DEF Next, Initiate, ReceiveDatagram, ProcessRecord, OnHelloVerifyRequest,
         OnServerHello, OnServerCertificate, OnServerKeyExchange, OnCertificateRequest,
         OnServerHelloDone, OnFinished, HandleChangeCipherSpec, OnFatalAlert, EncryptAppData,
         Network, LoseToServer, LoseToClient, PeerRetransmits, vars, callVars
    <3> QED BY <3>1
  <2> QED BY <2>1, <2>2, <2>3 DEF Agreement!Next
<1> QED BY <1>1, <1>2, Typed, Agrees, PTL DEF Spec, AgreesOnKeys, Agreement!Spec
===============================================================================
