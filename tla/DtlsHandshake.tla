--------------------------- MODULE DtlsHandshake ---------------------------
(***************************************************************************)
(* The DTLS client of a modern call, application/dtls_client_session.cpp,  *)
(* with its caller in TgcallsConnection::OnReflectorDatagram, a network    *)
(* that loses, duplicates and reorders datagrams, and a peer.              *)
(*                                                                         *)
(* The session's handlers look neither at the state they are in nor at     *)
(* message_seq, and what they hash is whatever arrives: only the           *)
(* verify_data of the server's Finished tells a transcript both ends share *)
(* from one the network has disturbed.                                     *)
(*                                                                         *)
(* A handshake message is its name.  The bodies that depend on what came   *)
(* before, CertificateVerify and Finished, carry the transcript they were  *)
(* computed over; a secret is what it was derived from.  The peer is not   *)
(* part of the repository: it answers as the client's code expects.        *)
(***************************************************************************)
EXTENDS Integers, SequencesExt

CONSTANTS
  MaxFaults,     \* bound: deliveries the network or a timer disturbs
  MaxAppData     \* bound: application records the client protects

ASSUME FaultsAssumption == MaxFaults \in Nat
ASSUME AppDataAssumption == MaxAppData \in Nat

States == {"Initial", "SentClientHello", "SentClientHelloWithCookie",
           "GotServerHello", "GotServerCertificate", "GotServerKeyExchange",
           "SentFinished", "GotChangeCipherSpec", "Established", "Failed"}

HelloNames == {"clientHello", "clientHelloCookie"}
ClientFlight == <<"clientCertificate", "clientKeyExchange", "certificateVerify">>
Hashed == HelloNames
            \cup {"serverHello", "serverCertificate", "serverKeyExchange",
                  "certificateRequest", "serverHelloDone", "clientCertificate",
                  "clientKeyExchange", "certificateVerify", "clientFinished",
                  "serverFinished"}
Transcripts == Seq(Hashed)

\* A secret is the server random it used and, with the extended master
\* secret, the transcript; before there is one it is empty.
NoSecret == <<>>
Secrets == Seq(Hashed \cup {"random", "zeroes"})

\* What a peer may be like: with a cookie exchange or not, with the extended
\* master secret or not, its flight packed in one datagram or not; with the
\* certificate signaling announced, another one, one in fragments or none; it
\* asks for the client's certificate, it seals its Finished, or not.
PeerKinds ==
  [cookie : BOOLEAN, ems : BOOLEAN, packed : BOOLEAN,
   cert : {"pinned", "other", "fragmented", "none"},
   asks : BOOLEAN, seals : BOOLEAN]

CONSTANT Peers  \* the peers there are

ASSUME PeersAssumption == Peers \subseteq PeerKinds

VARIABLES
  state,       \* m_state
  transcript,  \* m_handshakeTranscript
  random,      \* m_serverRandom: "zeroes" until a ServerHello fills it
  ems,         \* m_extendedMasterSecret
  point,       \* m_serverPublicPoint is there
  master,      \* m_masterSecret, with both ciphers
  messageSeq,  \* m_clientMessageSeq
  epoch,       \* m_clientEpoch
  recordSeq,   \* m_clientRecordSeq
  inbox,       \* records of the datagram in ProcessDatagram
  pumping,     \* OnReflectorDatagram is processing a datagram
  exported,    \* what ExportKeyingMaterial gave the call, from m_srtpReady on
  toServer, toClient,  \* datagrams under way
  peer, server,        \* which peer, and where it stands
  faults,      \* bound: disturbed deliveries so far
  nonces,      \* history: secret and number of each record encrypted
  appData      \* bound: application records so far

sessionVars == <<state, transcript, random, ems, point, master, messageSeq,
                 epoch, recordSeq>>
callVars == <<inbox, pumping, exported>>
vars == <<sessionVars, callVars, toServer, toClient, peer, server, faults,
          nonces, appData>>

-----------------------------------------------------------------------------
(* Records.                                                                 *)

\* A client record: WrapRecord around WrapHandshakeUnfragmented.
Record(msg, ep, seq, mseq, hash, key) ==
  [msg |-> msg, epoch |-> ep, seq |-> seq, mseq |-> mseq, hash |-> hash,
   key |-> key]

\* A server record: neither its number nor its message_seq is looked at.  The
\* verify_data of a Finished is made of a secret and a transcript; the record
\* may be sealed under that secret.
Plain(msg) == [msg |-> msg, hash |-> <<>>, key |-> NoSecret, sealed |-> FALSE]
Finished(hash, key) ==
  [msg |-> "serverFinished", hash |-> hash, key |-> key, sealed |-> peer.seals]

\* The flight that answers a ClientHello.
ServerFlight ==
  <<"serverHello">>
    \o (IF peer.cert = "none" THEN <<>> ELSE <<"serverCertificate">>)
    \o <<"serverKeyExchange">>
    \o (IF peer.asks THEN <<"certificateRequest">> ELSE <<>>)
    \o <<"serverHelloDone">>

\* A delivery: the oldest datagram once is what an undisturbed network does.
\* Another one first (reordering), or a copy that stays under way
\* (duplication: SendViaReflector uses every reflector), is a fault.
Disturbance(i, again) == (IF i = 1 THEN 0 ELSE 1) + (IF again THEN 1 ELSE 0)
AfterDelivery(queue, i, again) == IF again THEN queue ELSE RemoveAt(queue, i)

Init ==
  /\ state = "Initial" /\ transcript = <<>>
  /\ random = "zeroes" /\ ems = TRUE /\ point = FALSE
  /\ master = NoSecret
  /\ messageSeq = 0 /\ epoch = 0 /\ recordSeq = 0
  /\ inbox = <<>> /\ pumping = FALSE /\ exported = NoSecret
  /\ toServer = <<>> /\ toClient = <<>>
  /\ peer \in Peers
  /\ server = [phase |-> "idle", next |-> 0, transcript |-> <<>>,
               key |-> NoSecret, ccs |-> FALSE]
  /\ faults = 0 /\ nonces = <<>> /\ appData = 0

-----------------------------------------------------------------------------
(* The client.                                                              *)

\* Initiate: the first ClientHello is hashed provisionally.
Initiate ==
  /\ state = "Initial"
  /\ transcript' = Append(transcript, "clientHello")
  /\ toServer' = Append(toServer, Record("clientHello", epoch, recordSeq,
                                         messageSeq, <<>>, NoSecret))
  /\ messageSeq' = messageSeq + 1
  /\ recordSeq' = recordSeq + 1
  /\ state' = "SentClientHello"
  /\ UNCHANGED <<random, ems, point, master, epoch, callVars, toClient, peer,
                 server, faults, nonces, appData>>

\* OnReflectorDatagram hands a datagram to ProcessDatagram, one at a time;
\* its records are handled one by one by the actions below.
ReceiveDatagram(i, again) ==
  /\ ~pumping /\ state # "Initial" /\ i \in 1..Len(toClient)
  /\ faults + Disturbance(i, again) <= MaxFaults
  /\ faults' = faults + Disturbance(i, again)
  /\ toClient' = AfterDelivery(toClient, i, again)
  /\ inbox' = IF state = "Failed" THEN <<>> ELSE toClient[i]
  /\ pumping' = TRUE
  /\ UNCHANGED <<sessionVars, exported, toServer, peer, server, nonces, appData>>

NextRecord(msg) == inbox # <<>> /\ Head(inbox).msg = msg

\* Fail: ProcessDatagram returns at once, whatever the datagram still holds.
FailSession == state' = "Failed" /\ inbox' = <<>>

\* Faulty variant: the transcript is not reset, and holds both ClientHellos.
OnHelloVerifyRequestKeepsHash ==
  /\ NextRecord("helloVerifyRequest")
  /\ transcript' = Append(transcript, "clientHelloCookie")
  /\ toServer' = Append(toServer, Record("clientHelloCookie", epoch, recordSeq,
                                         messageSeq, <<>>, NoSecret))
  /\ messageSeq' = messageSeq + 1
  /\ recordSeq' = recordSeq + 1
  /\ state' = "SentClientHelloWithCookie"
  /\ inbox' = Tail(inbox)
  /\ UNCHANGED <<random, ems, point, master, epoch, pumping, exported,
                 toClient, peer, server, faults, nonces, appData>>

OnHelloVerifyRequest ==
  /\ NextRecord("helloVerifyRequest")
  /\ transcript' = <<"clientHelloCookie">>
  /\ toServer' = Append(toServer, Record("clientHelloCookie", epoch, recordSeq,
                                         messageSeq, <<>>, NoSecret))
  /\ messageSeq' = messageSeq + 1
  /\ recordSeq' = recordSeq + 1
  /\ state' = "SentClientHelloWithCookie"
  /\ inbox' = Tail(inbox)
  /\ UNCHANGED <<random, ems, point, master, epoch, pumping, exported,
                 toClient, peer, server, faults, nonces, appData>>

Hash(msg) == transcript' = Append(transcript, msg)

OnServerHello ==
  /\ NextRecord("serverHello")
  /\ random' = "random"
  /\ ems' = peer.ems
  /\ Hash("serverHello")
  /\ state' = "GotServerHello"
  /\ inbox' = Tail(inbox)
  /\ UNCHANGED <<point, master, messageSeq, epoch, recordSeq, pumping, exported,
                 toServer, toClient, peer, server, faults, nonces, appData>>

\* Faulty variant: the fingerprint is not compared.
OnServerCertificateTrusting ==
  /\ NextRecord("serverCertificate")
  /\ IF peer.cert # "fragmented"
     THEN /\ Hash("serverCertificate")
          /\ state' = "GotServerCertificate"
          /\ inbox' = Tail(inbox)
     ELSE FailSession /\ UNCHANGED transcript
  /\ UNCHANGED <<random, ems, point, master, messageSeq, epoch, recordSeq,
                 pumping, exported, toServer, toClient, peer, server, faults,
                 nonces, appData>>

\* The certificate must be in one piece and have the announced fingerprint.
OnServerCertificate ==
  /\ NextRecord("serverCertificate")
  /\ IF peer.cert = "pinned"
     THEN /\ Hash("serverCertificate")
          /\ state' = "GotServerCertificate"
          /\ inbox' = Tail(inbox)
     ELSE FailSession /\ UNCHANGED transcript
  /\ UNCHANGED <<random, ems, point, master, messageSeq, epoch, recordSeq,
                 pumping, exported, toServer, toClient, peer, server, faults,
                 nonces, appData>>

\* The signature of a ServerKeyExchange is not looked at.
OnServerKeyExchange ==
  /\ NextRecord("serverKeyExchange")
  /\ point' = TRUE
  /\ Hash("serverKeyExchange")
  /\ state' = "GotServerKeyExchange"
  /\ inbox' = Tail(inbox)
  /\ UNCHANGED <<random, ems, master, messageSeq, epoch, recordSeq, pumping,
                 exported, toServer, toClient, peer, server, faults, nonces,
                 appData>>

OnCertificateRequest ==
  /\ NextRecord("certificateRequest")
  /\ Hash("certificateRequest")
  /\ inbox' = Tail(inbox)
  /\ UNCHANGED <<state, random, ems, point, master, messageSeq, epoch,
                 recordSeq, pumping, exported, toServer, toClient, peer, server,
                 faults, nonces, appData>>

\* DeriveKeysAndCipher over transcript t.
Derived(t) == <<random>> \o (IF ems THEN t ELSE <<>>)

\* The client's flight.  Certificate, ClientKeyExchange and CertificateVerify
\* go out even when no secret can be derived; ChangeCipherSpec closes the
\* epoch and Finished is the first record of the next.
SignedPart == transcript \o <<"serverHelloDone", "clientCertificate",
                              "clientKeyExchange">>
KeyExchangeRecords ==
  <<Record("clientCertificate", epoch, recordSeq, messageSeq, <<>>, NoSecret),
    Record("clientKeyExchange", epoch, recordSeq + 1, messageSeq + 1, <<>>,
           NoSecret),
    Record("certificateVerify", epoch, recordSeq + 2, messageSeq + 2,
           SignedPart, NoSecret)>>
FinishedRecords(t, key, ep) ==
  <<Record("ccs", epoch, recordSeq + 3, messageSeq + 3, <<>>, NoSecret),
    Record("clientFinished", ep, 0, messageSeq + 3, t, key)>>

\* Faulty variant: the epoch stays what it was, its numbers start again.
OnServerHelloDoneSameEpoch ==
  /\ NextRecord("serverHelloDone")
  /\ LET t == Append(SignedPart, "certificateVerify") IN
     IF point
     THEN /\ master' = Derived(t)
          /\ toServer' = toServer \o KeyExchangeRecords
                           \o FinishedRecords(t, Derived(t), 1)
          /\ nonces' = Append(nonces, <<Derived(t), 1, 0>>)
          /\ transcript' = Append(t, "clientFinished")
          /\ messageSeq' = messageSeq + 4
          /\ epoch' = 1
          /\ recordSeq' = 1
          /\ state' = "SentFinished"
          /\ inbox' = Tail(inbox)
     ELSE /\ toServer' = toServer \o KeyExchangeRecords
          /\ transcript' = t
          /\ messageSeq' = messageSeq + 3
          /\ recordSeq' = recordSeq + 3
          /\ FailSession
          /\ UNCHANGED <<master, epoch, nonces>>
  /\ UNCHANGED <<random, ems, point, pumping, exported, toClient, peer, server,
                 faults, appData>>

OnServerHelloDone ==
  /\ NextRecord("serverHelloDone")
  /\ LET t == Append(SignedPart, "certificateVerify") IN
     IF point
     THEN /\ master' = Derived(t)
          /\ toServer' = toServer \o KeyExchangeRecords
                           \o FinishedRecords(t, Derived(t), epoch + 1)
          /\ nonces' = Append(nonces, <<Derived(t), epoch + 1, 0>>)
          /\ transcript' = Append(t, "clientFinished")
          /\ messageSeq' = messageSeq + 4
          /\ epoch' = epoch + 1
          /\ recordSeq' = 1
          /\ state' = "SentFinished"
          /\ inbox' = Tail(inbox)
     ELSE /\ toServer' = toServer \o KeyExchangeRecords
          /\ transcript' = t
          /\ messageSeq' = messageSeq + 3
          /\ recordSeq' = recordSeq + 3
          /\ FailSession
          /\ UNCHANGED <<master, epoch, nonces>>
  /\ UNCHANGED <<random, ems, point, pumping, exported, toClient, peer, server,
                 faults, appData>>

\* The record layer: of a sealed record the session needs the keys.
Opened(rec) == rec.sealed => master # NoSecret /\ rec.key = master

\* verify_data, compared over whatever secret and transcript there are.
Verified(rec) == rec.key = master /\ rec.hash = transcript

\* Faulty variant: verify_data is not compared.
OnFinishedUnverified ==
  /\ NextRecord("serverFinished")
  /\ IF Opened(Head(inbox))
     THEN /\ Hash("serverFinished")
          /\ state' = "Established"
          /\ inbox' = Tail(inbox)
     ELSE FailSession /\ UNCHANGED transcript
  /\ UNCHANGED <<random, ems, point, master, messageSeq, epoch, recordSeq,
                 pumping, exported, toServer, toClient, peer, server, faults,
                 nonces, appData>>

\* A sealed record before there are keys or under other keys (AEAD failure),
\* and verify_data over another secret or transcript, fail the session.  A
\* record in the clear gets as far as verify_data.
OnFinished ==
  /\ NextRecord("serverFinished")
  /\ IF Opened(Head(inbox)) /\ Verified(Head(inbox))
     THEN /\ Hash("serverFinished")
          /\ state' = "Established"
          /\ inbox' = Tail(inbox)
     ELSE FailSession /\ UNCHANGED transcript
  /\ UNCHANGED <<random, ems, point, master, messageSeq, epoch, recordSeq,
                 pumping, exported, toServer, toClient, peer, server, faults,
                 nonces, appData>>

\* Whatever state the session is in.
HandleChangeCipherSpec ==
  /\ NextRecord("ccs")
  /\ state' = "GotChangeCipherSpec"
  /\ inbox' = Tail(inbox)
  /\ UNCHANGED <<transcript, random, ems, point, master, messageSeq, epoch,
                 recordSeq, pumping, exported, toServer, toClient, peer, server,
                 faults, nonces, appData>>

OnFatalAlert ==
  /\ NextRecord("alert")
  /\ FailSession
  /\ UNCHANGED <<transcript, random, ems, point, master, messageSeq, epoch,
                 recordSeq, pumping, exported, toServer, toClient, peer, server,
                 faults, nonces, appData>>

\* Faulty variant: keys are exported once the client has sent its Finished.
ReportDatagramEarly ==
  /\ pumping /\ inbox = <<>>
  /\ pumping' = FALSE
  /\ exported' = IF exported = NoSecret /\ state = "SentFinished"
                 THEN master ELSE exported
  /\ UNCHANGED <<sessionVars, inbox, toServer, toClient, peer, server, faults,
                 nonces, appData>>

\* Back in OnReflectorDatagram: the call takes the keys the first time it
\* finds the session established.
ReportDatagram ==
  /\ pumping /\ inbox = <<>>
  /\ pumping' = FALSE
  /\ exported' = IF exported = NoSecret /\ state = "Established"
                 THEN master ELSE exported
  /\ UNCHANGED <<sessionVars, inbox, toServer, toClient, peer, server, faults,
                 nonces, appData>>

\* EncryptAppData.
EncryptAppData ==
  /\ state = "Established" /\ ~pumping
  /\ appData < MaxAppData
  /\ appData' = appData + 1
  /\ nonces' = Append(nonces, <<master, epoch, recordSeq>>)
  /\ recordSeq' = recordSeq + 1
  /\ UNCHANGED <<state, transcript, random, ems, point, master, messageSeq,
                 epoch, callVars, toServer, toClient, peer, server, faults>>

-----------------------------------------------------------------------------
(* The network and the peer.                                                *)

LoseToServer(i) ==
  /\ i \in 1..Len(toServer) /\ faults < MaxFaults
  /\ toServer' = RemoveAt(toServer, i)
  /\ faults' = faults + 1
  /\ UNCHANGED <<sessionVars, callVars, toClient, peer, server, nonces, appData>>

LoseToClient(i) ==
  /\ i \in 1..Len(toClient) /\ faults < MaxFaults
  /\ toClient' = RemoveAt(toClient, i)
  /\ faults' = faults + 1
  /\ UNCHANGED <<sessionVars, callVars, toServer, peer, server, nonces, appData>>

\* A flight goes out in one datagram, or in one datagram per record.
SendFlight(records) ==
  toClient' = toClient \o (IF peer.packed THEN <<records>>
                           ELSE [i \in 1..Len(records) |-> <<records[i]>>])

HelloFlight == [i \in 1..Len(ServerFlight) |-> Plain(ServerFlight[i])]
FinalFlight == <<Plain("ccs"), Finished(server'.transcript, server'.key)>>

\* What one record makes of the peer.
Starts(rec) ==
  /\ server.phase = "idle"
  /\ rec.msg = (IF peer.cookie THEN "clientHelloCookie" ELSE "clientHello")
AsksCookie(rec) ==
  server.phase = "idle" /\ peer.cookie /\ rec.msg = "clientHello"
InTurn(rec) ==
  /\ server.phase = "flight" /\ server.key = NoSecret
  /\ rec.epoch = 0 /\ rec.msg # "ccs" /\ rec.mseq = server.next
\* A peer that has not asked for a certificate does not take one, with which
\* the client's flight begins.
Expected(rec) ==
  /\ peer.asks
  /\ rec.msg = ClientFlight[Len(server.transcript) - Len(ServerFlight)]
  /\ rec.msg = "certificateVerify" => rec.hash = server.transcript
Changes(rec) ==
  server.phase = "flight" /\ server.key # NoSecret /\ rec.msg = "ccs" /\ rec.epoch = 0
Opens(rec) ==
  /\ rec.msg = "clientFinished" /\ rec.key = server.key
  /\ server.ccs
Finishes(rec) ==
  server.phase = "flight" /\ Opens(rec) /\ rec.mseq = server.next
Repeats(rec) ==
  server.phase = "done" /\ Opens(rec) /\ rec.mseq < server.next

PeerStarts(rec) ==
  /\ Starts(rec)
  /\ server' = [server EXCEPT !.phase = "flight", !.next = rec.mseq + 1,
                              !.transcript = <<rec.msg>> \o ServerFlight]
  /\ SendFlight(HelloFlight)
PeerAsksCookie(rec) ==
  /\ AsksCookie(rec)
  /\ SendFlight(<<Plain("helloVerifyRequest")>>)
  /\ UNCHANGED server
PeerTakes(rec) ==
  /\ InTurn(rec) /\ Expected(rec)
  /\ LET t == Append(server.transcript, rec.msg) IN
     server' = [server EXCEPT !.next = @ + 1, !.transcript = t,
                  !.key = IF rec.msg = "certificateVerify"
                          THEN <<"random">> \o (IF peer.ems THEN t ELSE <<>>)
                          ELSE NoSecret]
  /\ UNCHANGED toClient
PeerChanges(rec) ==
  /\ Changes(rec)
  /\ server' = [server EXCEPT !.ccs = TRUE]
  /\ UNCHANGED toClient
PeerFinishes(rec) ==
  /\ Finishes(rec) /\ rec.hash = server.transcript
  /\ server' = [server EXCEPT !.phase = "done", !.next = @ + 1,
                              !.transcript = Append(@, "clientFinished")]
  /\ SendFlight(FinalFlight)
PeerRepeats(rec) ==
  /\ Repeats(rec)
  /\ UNCHANGED server
  /\ SendFlight(FinalFlight)
PeerAlerts(rec) ==
  /\ \/ InTurn(rec) /\ ~Expected(rec)
     \/ Finishes(rec) /\ rec.hash # server.transcript
  /\ server' = [server EXCEPT !.phase = "failed"]
  /\ SendFlight(<<Plain("alert")>>)
PeerIgnores(rec) ==
  /\ ~Starts(rec) /\ ~AsksCookie(rec) /\ ~InTurn(rec) /\ ~Changes(rec)
  /\ ~Finishes(rec) /\ ~Repeats(rec)
  /\ UNCHANGED <<server, toClient>>

PeerReceives(i, again) ==
  /\ i \in 1..Len(toServer)
  /\ faults + Disturbance(i, again) <= MaxFaults
  /\ faults' = faults + Disturbance(i, again)
  /\ toServer' = AfterDelivery(toServer, i, again)
  /\ LET rec == toServer[i] IN
     \/ PeerStarts(rec) \/ PeerAsksCookie(rec) \/ PeerTakes(rec)
     \/ PeerChanges(rec) \/ PeerFinishes(rec) \/ PeerRepeats(rec)
     \/ PeerAlerts(rec) \/ PeerIgnores(rec)
  /\ UNCHANGED <<sessionVars, callVars, peer, nonces, appData>>

\* The peer's own timer: its first flight again, possibly while the answer to
\* it is on its way.
PeerRetransmits ==
  /\ server.phase = "flight" /\ server.key = NoSecret
  /\ faults < MaxFaults
  /\ faults' = faults + 1
  /\ SendFlight(HelloFlight)
  /\ UNCHANGED <<sessionVars, callVars, toServer, peer, server, nonces, appData>>

-----------------------------------------------------------------------------

ProcessRecord ==
  \/ OnHelloVerifyRequest \/ OnServerHello \/ OnServerCertificate
  \/ OnServerKeyExchange \/ OnCertificateRequest \/ OnServerHelloDone
  \/ OnFinished \/ HandleChangeCipherSpec \/ OnFatalAlert

Network ==
  \/ \E i \in 1..Len(toServer) : LoseToServer(i)
  \/ \E i \in 1..Len(toClient) : LoseToClient(i)

Next ==
  \/ Initiate
  \/ \E i \in 1..Len(toClient), again \in BOOLEAN : ReceiveDatagram(i, again)
  \/ ProcessRecord
  \/ ReportDatagram
  \/ EncryptAppData
  \/ Network
  \/ \E i \in 1..Len(toServer), again \in BOOLEAN : PeerReceives(i, again)
  \/ PeerRetransmits

Spec == Init /\ [][Next]_vars

(***************************************************************************)
(* The datagram callbacks run, the network goes on delivering what it      *)
(* holds, and the peer reads it.  Its retransmission timer is not obliged  *)
(* to fire, nor the user to send.                                          *)
(***************************************************************************)
Fairness ==
  /\ WF_vars(Initiate)
  /\ WF_vars(ReceiveDatagram(1, FALSE))
  /\ WF_vars(ProcessRecord)
  /\ WF_vars(ReportDatagram)
  /\ WF_vars(PeerReceives(1, FALSE))

FairSpec == Spec /\ Fairness

-----------------------------------------------------------------------------
(* Properties.                                                              *)

SessionType ==
  /\ state \in States
  /\ transcript \in Transcripts
  /\ random \in {"random", "zeroes"}
  /\ ems \in BOOLEAN /\ point \in BOOLEAN
  /\ master \in Secrets
  /\ messageSeq \in Nat /\ recordSeq \in Nat /\ epoch \in Nat

CallType ==
  /\ pumping \in BOOLEAN
  /\ inbox # <<>> => pumping
  /\ exported \in Secrets

PeerType ==
  /\ peer \in Peers
  /\ server \in [phase : {"idle", "flight", "done", "failed"}, next : Nat,
                 transcript : Transcripts, key : Secrets, ccs : BOOLEAN]
  /\ faults \in 0..MaxFaults
  /\ appData \in 0..MaxAppData

\* Types of the variables.  A datagram is in ProcessDatagram only while its
\* callback is.
TypeOK == SessionType /\ CallType /\ PeerType

\* A session is Established only with a peer that verified this client's
\* Finished, and then both hold one secret and have hashed one handshake,
\* whatever the network repeated, lost or reordered while it was built.
EstablishedAgrees ==
  state = "Established" =>
    /\ server.phase = "done"
    /\ master = server.key
    /\ IsPrefix(Append(server.transcript, "serverFinished"), transcript)

\* The call never takes SRTP keys from a peer that shows another certificate
\* than the one signaling announced, or one that cannot be read, even if that
\* Certificate is lost or overtaken while the rest of its flight arrives.  (A
\* peer that shows none is not refused: no handler asks whether one came.)
OtherCertificateNoKeys ==
  exported # NoSecret => peer.cert \notin {"other", "fragmented"}

\* AES-GCM never encrypts two records under one secret and one number, even
\* when the client answers the peer's flight twice.
NonceOnce == \A i, j \in 1..Len(nonces) : nonces[i] = nonces[j] => i = j

\* A handshake nothing disturbs ends: with Failed when the peer shows a
\* certificate that is not the announced one or comes in fragments, or takes
\* none from the client, and with keys otherwise.
Refuses == peer.cert \in {"other", "fragmented"} \/ ~peer.asks
UndisturbedEnds ==
  <>(\/ faults > 0
     \/ ~Refuses /\ exported # NoSecret
     \/ Refuses /\ state = "Failed")

\* The handshake implements the agreement TgcallsConnection relies on.
Agreement == INSTANCE KeyAgreement WITH
  None <- NoSecret,
  offered <- IF server.phase = "done" THEN server.key ELSE NoSecret,
  accepted <- exported
AgreesOnKeys == Agreement!Spec
===============================================================================
