# A TLA+ model of Vianium VoIP

This directory holds a verification project for `vianium-voip`, the native
media plane of a Telegram client: TLA+ modules translated from `src/voip/src`,
the TLC runs that check them on small instances, and TLAPS proofs of the
properties that matter most for every value of the constants. Paths below are
relative to `src/voip/src` unless they say otherwise.

The files, in reading order:

| file | what it is |
|---|---|
| `IceAgent.tla` | the ICE controller as operators on a value |
| `CallPhases.tla` | what a modern call shows, and what that rests on |
| `TgcallsConnection.tla` | one modern call, thread by thread |
| `MCTgcallsConnection.tla`, `Connection*.cfg` | its instances for TLC |
| `IceCall.tla`, `IceCall.cfg`, `IceNomination.cfg` | the ICE phase seen from both ends |
| `KeyAgreement.tla` | what a call relies on when it takes keys from its DTLS session |
| `DtlsHandshake.tla` | the DTLS client, the network and its peer |
| `MCDtlsHandshake.tla`, `DtlsHandshake.cfg` | its peers for TLC |
| `MediaStream.tla` | the audio of a keyed call: SRTP, device, capture pump, mute |
| `MCMediaStream.tla`, `MediaStream.cfg`, `SrtpRollover.cfg` | its instances for TLC |
| `SignalingChannel.tla`, `MCSignalingChannel.tla`, `SignalingChannel.cfg` | a call's signaling messages, both ways |
| `TurnClient.tla`, `TurnClient.cfg` | one TURN allocation and its permissions |
| `ClassicCall.tla`, `ClassicCall.cfg` | two programs in a classic call: handshake, media loops, datagram session |
| `JitterBuffer.tla`, `JitterSafety.cfg` | the classic call's playout buffer and its stream |
| `SignalingRelay.tla` | what the engine promises about a peer's signaling packets |
| `VoipEngine.tla` | the registry of calls, their keys, queued signaling, start and stop of media |
| `MCVoipEngine.tla`, `Engine.cfg` | its instance for TLC |
| `*_proofs.tla` | the proofs about the module they are named after; `TurnClient_proofs` is about `IceCall` too, `ClassicCall_proofs` about `JitterBuffer` |
| `RecursionLemmas.tla` | induction, and functions that are defined by recursion |
| `PROJECT.json` | components, runs, faulty variants, source map, hazards, theorems |

How the modules fit together: `TgcallsConnection` is the call as a whole, with
the DTLS session reduced to the outcome of a datagram and audio to the life of
its pump; `DtlsHandshake`, `MediaStream` and `SignalingChannel` each open one of
those boxes. `KeyAgreement` is the interface between the first two: what the
call relies on, which `DtlsHandshake` implements. `IceCall` composes two
`IceAgent`s, `ClassicCall` two programs; `TgcallsConnection` implements
`CallPhases` and `VoipEngine` implements `SignalingRelay`.

## 1. Inventory

The program makes two kinds of call. A *modern* (tgcalls) call exchanges
encrypted signaling messages, runs ICE through Telegram's reflectors, then a
DTLS handshake, then SRTP audio; `TgcallsConnection` is its state machine. A
*classic* call sends its own packet format through a reflector and runs in
`VoipEngine` itself. `VoipEngine` also owns the registry of calls and their
Diffie-Hellman exchange.

| component | state it keeps | operations | talks to | what is hard | what makes it correct |
|---|---|---|---|---|---|
| **Modern call** `application/tgcalls_connection` | `m_state`, peer credentials and candidates, owned agent/DTLS/SRTP/audio objects, retry timer, capture thread | Start, HandleIncomingSignaling, OnReflectorDatagram, the timer's handler, the capture loop, Stop, SetMuted/SetSpeaker | ICE agent, DTLS session, transport/TURN, audio device, engine (callbacks both ways) | five kinds of thread; one lock taken and released many times per handler; Stop frees what others hold | one agent, one DTLS session, phases in order, keys before Connected, a phase that ends, Stop is final |
| **ICE agent** `application/ice_agent` | role, candidate pairs with their flags, connected, selected pair | AddRemoteCandidate, GetBindingRequestsToSend, ProcessIncoming | called by the modern call; no lock of its own | lost and repeated checks; nomination by one end only | selections and nominations are earned; both ends decide |
| **DTLS client** `application/dtls_client_session`, `infrastructure/dtls` | handshake state, epochs, sequence numbers, transcript | Initiate, ProcessDatagram, ExportKeyingMaterial | modern call | flights lost, repeated and reordered, without retransmission | both ends agree when it is established, no keys for a peer that shows another certificate, no nonce twice |
| **Jitter buffer** `domain/voip_jitter_buffer` | slots by sequence number, next sequence number, playout clock, statistics | Insert, NextPlayoutFrame, Reset | classic receive loop | wrap-around, duplicates, reordering, overflow | playout in order, nothing stale kept, every packet accounted for |
| **Engine** `application/voip_engine` | calls by id with DH material and queued signaling, modern connections, active classic media, media graph | CreateOutgoingDh, BindOutgoingCall, RegisterIncomingGAHash, CreateIncomingDh, AcceptPeerGB, ConfirmPeerGAOrB, DropCall, StartMedia, ReceiveSignalingData, StopMedia, GetMediaSnapshot | everything below, the WinRT API above | contexts copied out of the lock and back; signaling that arrives before the connection exists; stop against start | a dropped call stays dropped, signaling reaches its own call once, nothing stopped stays installed |
| **Classic loops and handshake** `application/voip_engine` | shared sequence counter, InitAckReceived, StopRequested | RunControlHandshake, InitLoop, MediaSendLoop, MediaReceiveLoop | transport, jitter buffer, codec | loops share plain integers; Inits that cross; attempts and deadline | numbers repeat only by the known race, who is connected was heard, both get to media |
| **TURN client** `infrastructure/turn` | state, realm and nonce, one pending transaction | OpenAllocation, AddPeerPermission, Send, Close, OnInboundUdp | modern call, its own socket | one slot for all transactions; stale nonce; late answers | an answer reaches its own request, what is granted here is granted there, calls return |
| **Reflector transport** `infrastructure/datagram_socket_reflector_transport` | sockets, receive queue | OpenSession (push), Open, Send, Receive, Close | WinRT sockets | callbacks from pool threads; a queue shared with foreign datagrams | the call's datagrams are received, in order |
| **SRTP** `infrastructure/srtp` | keys, rollover counter per direction | Encrypt, Decrypt | modern call | the two ends' estimates of an index that does not travel | no keystream twice, what is sealed is heard |
| **Signaling** `domain/tgcalls_signaling_*` | the sequence number (in the modern call) | encode, decode, encrypt, frame | modern call | several threads send; unknown frames in a body | handled as sent, numbers distinct, pings answered |
| **Classic packets** `domain/voip_*_packet`, `voip_packet_crypto` | none | encode, decode, encrypt | engine | acknowledgements of two loops | acknowledgements name what was sent |
| **Media session** `domain/voip_media_session` | state and counters of the classic session | Prepare, MarkConnecting, Stop | engine | shared by all threads without a lock | one call's media at a time |
| **Media graph, backend** `infrastructure/dynamic_tgcalls_media_graph`, `src/tgcalls` | loaded DLL, handle | Start, Stop, ReceiveSignaling | engine | a DLL behind a C ABI | stop after start |
| **Audio device, Opus, key pair, endpoint selection, WinRT API** | device handles | open, read, write; projections | - | I/O | - |
| `third_party` (libtgvoip, libopus) | vendored | - | - | - | - |

`PROJECT.json` lists the hazards one by one, each at its line, with the
properties that would catch it going wrong or the reason none does yet.

## 2. The modules and the code

### IceAgent

`IceAgent` (the class) has neither lock nor thread, so it is a value here and
every method an operator: `NewAgent` (constructor and `AddRemoteCandidate`),
`BindingRequests` and `AfterBindingRequests` (`GetBindingRequestsToSend`: what
is sent and what is left behind), `Selects` and `AfterIncoming`
(`ProcessIncoming`). `Selects` takes the value of `m_connected` the caller saw,
because two callbacks may run the method at once. STUN encoding, message
integrity and priorities are left out: a message that does not verify is
`ProcessResult_Other`, which changes nothing.

### TgcallsConnection

The handlers of a call take `m_lock`, release it, decide, and take it again, so
each is split at the regions the lock makes atomic; a program counter says
where a thread stands. The threads are sets: `Signalers` deliver signaling,
`Receivers` run datagram callbacks, `Stoppers` call `Stop`, `Captures` are the
capture pumps `CreateThread` hands out; the retry timer's handler is one more.

| code | actions |
|---|---|
| `Start` | `Start` |
| `OnPeerInitialSetup`, `OnPeerCandidates` | `OnPeerInitialSetup`, `OnPeerCandidates` |
| `StartIcePhase` | `IceSnapshot`, `IceLatch`, `IcePublish`, `IceFirstSend` |
| `StartIceRetryTimer`, its handler | `ArmTimer`, `StoreTimer`; `TimerFires`, `TimerSends`, `TimerGivesUp` |
| `OnReflectorDatagram`, STUN | `ReceiveStun`, `ProcessStun` |
| `OnIceConnected`, `StartDtlsPhase` | `OnIceConnected`, `CancelRetry`, `CheckDtls`, `EnterDtls`, `TakeCert`, `InitiateDtls`, `Fail` |
| `OnReflectorDatagram`, DTLS | `ReceiveDtls`, `ReadSrtpReady`, `CheckEstablished` |
| `StartAudioPhase` | `InstallSrtp`, `ResetAudio`, `OpenAudio`, `Connect`, `StartLoop`, `StoreThread` |
| `RunAudioCaptureLoop` | `CaptureExits` (when it sees the flag cleared) |
| `Stop`, `StopAudioLoop` | `StopCall`, `StopLoop`, `Join`, `StopTimer`, `Release` |

`owned` says which `unique_ptr` members are not null. Every datagram seems to
come from `m_reflectors[0]` (`tgcalls_connection.cpp:1030-1043`): `Reflector0`.
The `void*` timer handle and the running timer are two facts, because the timer
runs before its handle is stored. The DTLS session is its state alone; what one
datagram does to it is any outcome, except that failure absorbs (the handlers
of `ProcessDatagram` do not test the state they are in).

`Stop` frees objects other threads may still use through raw pointers. The
model lets such a thread go on with the object as it last was; the process may
also fault, which is a behaviour that ends. A thread that would call through
the null `m_audio` (`OpenAudio` behind a `Stop`) takes no further step.

Variables at the end of the list (`agents`, `sessions`, `batches`,
`established`) are history: no guard reads them. The join of the capture pump
waits two seconds at most and goes on whether or not the pump has ended.

`CallPhases` is the call without its threads: what `m_state` shows, the retries,
whether a pair is selected, whether the handshake succeeded, whether the keys are
there, whether somebody has hung up. Each of its actions says what one change
rests on: handshake on a pair, keys on a handshake, Connected on keys (or on
their having been taken by a Stop), Failed on a pair or spent retries, the loss
of keys on a Stop. `TgcallsConnection` implements it under the mapping `Phases`
(`secured` is the history variable `established`, `over` is `m_stopped`). It does
not say that what is shown only goes forward, because the code does not see to
that: a late handler may show Failed over Connected, or Connected over Stopped.

Definitions called *faulty variant* stand beside the definition they vary. They
are what a plausible mistake in that code would be, and are used by no action:
each property of a passing run is violated when one of them takes the place of
the definition it varies, which shows the property says something about it.
(`IceCall` and `JitterBuffer` are proved about in one module with another
component: their definitions bear prefixes, `IceNext`, `JitterSpec`, where the
names would meet.)

### IceCall

Two ends, one agent each, and the set of datagrams between them. A handler is
one step here; a message stays in the set when it is received if the network
duplicates it, and `LoseDatagram` takes it out. `attempts` and `armed` are the retry
timer's counter and life. An agent's pairs are those of the peer's candidates,
whichever of them it has been told of. `EmitCandidates` lists this client's host
addresses only, another client may list its relays too: an agent that does not
know of the reflector its datagrams come from answers checks and never selects,
and its phase ends with its retries.

### DtlsHandshake

One session, with the part of `OnReflectorDatagram` that feeds it and takes the
SRTP keys. The client's handlers look neither at the state they are in nor at
`message_seq`, and hash whatever arrives, so the model has no more guards than
they have: a message that does not fit shows in the transcript, and only the
server's `verify_data` finds it out.

| code | actions |
|---|---|
| `Initiate` | `Initiate` |
| `ProcessDatagram` | `ReceiveDatagram`, then one step per record |
| `HandleHandshakeMessage` | `OnHelloVerifyRequest`, `OnServerHello`, `OnServerCertificate`, `OnServerKeyExchange`, `OnCertificateRequest`, `OnServerHelloDone`, `OnFinished` |
| `HandleChangeCipherSpec`, a fatal alert | `HandleChangeCipherSpec`, `OnFatalAlert` |
| `BuildClientFinishedFlight`, `DeriveKeysAndCipher` | `KeyExchangeRecords`, `FinishedRecords`, `Derived` |
| `OnReflectorDatagram` after `ProcessDatagram` | `ReportDatagram` |
| `EncryptAppData` | `EncryptAppData` |

A handshake message is its name; what is computed over earlier messages
(CertificateVerify, Finished) carries the transcript, a secret is the server
random and the transcript it was derived from. The peer is external: it reads
the RFC as the client's code does, with or without cookie and extended master
secret, with the announced certificate, another one, one in fragments or none;
it asks for the client's certificate or does not, and seals its Finished or sends
it in the clear. The client asks for none of that: no handler wants a
Certificate to have come, the signature of a ServerKeyExchange is left
unverified (`dtls_client_session.cpp:308-312`, a TODO), a Finished of epoch 0 is
compared like a sealed one. `Opened` is the record layer's part of taking a
Finished, `Verified` the comparison of `verify_data`. The peer
retransmits its flight on a timer of its own and repeats its last flight when
the client's Finished comes again. One datagram is processed at a time; two
callbacks inside `ProcessDatagram` at once would be a data race on every member
of the session, which the model does not have.

`KeyAgreement` says what the call relies on: the peer commits to one secret, and
the client takes that secret, once.

### MediaStream

`StartAudioPhase` step by step, the capture pump, the two threads of the audio
device with their bounded queues, the datagram callbacks, `SetMuted` and `Stop`.
An SRTP packet carries the master key, source, sequence number and rollover
counter it was made with; two packets with the same source and index were
encrypted with one keystream. The peer's receiver is external and follows
RFC 3711, 3.3.1. `RolledOver` is `Encrypt`'s test as written.

| code | actions |
|---|---|
| `StartAudioPhase` | `InstallKeys`, `CreateDevice`, `OpenDevice`, `StartPump` |
| `RunAudioCaptureLoop` | `PumpSnapshot`, `PumpRead`, `PumpSeal` or `PumpEncodeFails`, `PumpAdvance` |
| `WinrtVoipAudioDevice`'s threads | `PushCaptureSamples`, `FillRenderSamples` |
| `OnSrtpDatagram`, `OnRtpPacket` | the same, one callback each |
| `SetMuted`, `StopAudioLoop`, the rest of `Stop` | `SetMuted`, `StopAudioLoop`, `StopTeardown` |

`Bounds` is a set: each behaviour takes one of them for how often the
microphone, the peer, the user and the network may act, and `left` is what
remains of it. `mute` is history: whether the last `SetMuted` found a device,
and how many frames with voice were sealed since. A datagram never lets another
pass that is half a turn of the sequence numbers younger (`InTime`; half an hour
of speech in the program), without which no receiver of the RFC could follow.

Keys are installed once here; that this is so but for two racing callbacks, and
what a `Stop` in the middle of `StartAudioPhase` does, is `TgcallsConnection`'s.

### SignalingChannel

The way of a message from `EmitMessages` to the wire and from
`HandleIncomingSignaling` to its handler, through JSON, frames, encryption and
envelope. A body is a sequence of cells, so that `SplitFrames` can be given what
`JoinFrames` makes and also acknowledgements, empty frames and tags of a later
protocol; a packet carries the key offset it was made with. The loop of
`SplitFrames` goes from tag to tag and stops behind one it does not know, so its
result is stated without a loop: `Scanned` says which tags it comes to, `FrameAt`
what it makes of one, and the frames are put together in their order. Each
packet of the peer under way has its number and the number of the copy, so that
a repeated packet is one more to be handled. Several threads
deliver packets and one user's thread mutes: `TakeNumber` is under the lock,
`EmitMessages` outside it. A Ping is answered in the middle of its packet, and
InitialSetup and Candidates end in `StartIcePhase`, which sends our Candidates
each time it comes by before the latch (`IceLatch`) is set. `Start` has returned
when the model begins, and the InitialSetup with the number 1 has arrived.
The peer and the servers are external: towards this end packets are lost,
repeated and reordered, towards the peer the order is kept, so that what arrives
there out of order was sent so.

### TurnClient

One `TurnClient` with the threads of the modern call that use it: `Start` opens
the allocation, and every thread that delivers candidates asks for permissions.
A request is `Begin` (take the slot), `Send`, then `Return` or `TimeOut`; the
slot may be taken by another thread in between. `MessageReceived` and
`OnInboundUdp` are the socket's callback, split where it has looked at `Active`
and not yet taken the lock. The server is external: it challenges or not,
refuses a second allocation of the same client (437) and a nonce that is not its
own (438), and may forget the allocation or its permissions, which the client
never refreshes. The permissions `OpenAllocation` could ask for at once are left
out: its one caller passes an empty list of peers (`tgcalls_connection.cpp:305`).

### ClassicCall

Two programs and the reflectors between them, which `StartMedia` tries in turn
until a handshake succeeds (`OpenEndpoint`, by `Start` and `TryNext`;
`NextEndpoint`): each attempt has its own session, queue and retries and begins
with the same sequence numbers. Both sides have been given the same reflectors in
the same order; a datagram reaches the other side only while that side has the
same reflector open. The handshake is one thread a side
(`HandshakeTurn`, `ReceiveInHandshake`, `HandshakeEnds`); then the send
loop, which sends silence when the microphone has no frame (`TakeForFrame`,
`SendFrame`), and the receive loop (`ReceiveInMedia`, `SendAnswer`) share the
sequence counter and the last number heard, so that taking a number is a read
and a write. Under them is the datagram session: the
handler that queues what arrives, `Receive`, which takes the first datagram with
the call's tag and rotates the foreign ones before it to the back, and `Close`.
Time is counted in slots of 250 ms, the timeout of one `Receive`: what is sent
arrives within its slot unless a fault delays it. `InitLoop` tests
`InitAckReceived`, which `StartMedia` has set, and is over before it starts; the
third self-info probe (`ProbeSelfInfo`) has no caller.

### JitterBuffer

A packet is its index in the peer's stream and its sequence number that index
modulo `Width` (2^16 in the code). `Insert`, `DropLate` and `Playout` are the
buffer's methods, `FramePasses` the clock they compare with, in frames; `Send`,
`Lose` and what `PacketArrives` allows are the network. `position` is history: the index
`m_nextSequence` stands for. One assumption of the environment is explicit in
`PacketArrives`: a packet is never delayed for half a turn of the sequence numbers
(eleven minutes of audio), nor is the peer a whole turn ahead. Left out are the
payload, the timestamps and the smoothed jitter, whose target delay is reported
but never read after the first arrival.

### VoipEngine

Every operation of the engine runs on a pool thread and holds `m_lock` for a
few lines at a time; what happens under one lock is one action.

| code | actions |
|---|---|
| `CreateOutgoingDh`, `BindOutgoingCall`, `RegisterIncomingGAHash` | the same |
| `CreateIncomingDh`, `AcceptPeerGB`, `ConfirmPeerGAOrB` | the same, for the copy out of the lock, then `CopyBack` |
| `StartMedia`, modern | `StartConnection`, `InstallConnection`, `DeliverPending` |
| `StartMedia`, classic | `StartClassic`, per endpoint `CheckIdle`, `PrepareEndpoint`, `CheckPrepared`, `MarkConnecting`, `EndpointFails`; `ClassicFails`, `PublishMedia` |
| `ReceiveSignalingData` | `ReceiveSignalingData`, `DeliverSignaling` |
| `DropCall`, `StopMedia` | the same, then `StopTaken` outside the lock |

A session keeps what decides something: whether `PeerGAHash` is there
(`incoming`), whether `PrivateValue` and `P` are (`private`), `SharedReady` and
the queue. A packet is its number in the order of arrival, so that the model
knows whose it is and whether it was handed over before; `Size` is its length.
`QueuePendingSignaling` keeps the longest end of the queue that is within both
limits (`FirstToFit`), which is where the loop of the code stops. `Starts` are the
connections and classic contexts that `StartMedia` makes; `owner` is the call
each was made for.

Assumed of the client: it awaits its own operations on one call, so a call has
one thread for its keys and its start. It does not hold back signaling,
`StopMedia` or `DropCall`, which come from the delivery thread and the user.
`TgcallsBackend`, the only media graph there is, refuses every `Start`
(`src/tgcalls/src/tgcalls_backend.cpp`), so a modern call without a usable
endpoint ends there. `HandleIncomingSignaling` refuses only an empty packet and
a key that is not 256 bytes, neither of which gets that far; the way out of the
delivery loop at `voip_engine.cpp:1558` is dead code.

`VoipMediaSession` has no lock though pool threads share it. `Prepare` and
`MarkConnecting` are split at their test, and a `Stop` in progress may take the
call id away from a `Prepare` (`OverlapsStop`): these are the outcomes of the
race on its two fields. Its strings (key handle, endpoint) race as well; nobody
reads them before the call is stopped.

`SignalingRelay` is the abstract specification: packets arrive, are held, and
are handed on at most once. `VoipEngine` implements it under the mapping
`Relay`, where what is held (`Held`) is what any queue, copy or drain or
delivering thread has.

## 3. The runs

| run | instance | shows |
|---|---|---|
| `connection_safety` | 1 signaling thread, 2 receivers, 1 stopper, 1 pump, 1 candidate, budget 1, controlling; thread symmetry | `OneDtlsSession`, `FollowsPhases` |
| `connection_progress` | 2 signaling threads, 1 receiver, 1 stopper, 1 pump, controlled; fairness, no symmetry | `IceOnce`, `IceDecides`, `TimerDies` |
| `ice_call` | two ends, 2 candidates, each of which an end may not be told of, budget 2 | `SelectionIsEarned`, `NominationsAreEarned`, `EachEndDecides` |
| `ice_nomination` | the same | refutes `SelectedIsNominated` |
| `dtls` | every kind of peer that asks, seals and shows a certificate and one for each other oddity, 3 disturbed deliveries, 1 application record | `EstablishedAgrees`, `OtherCertificateNoKeys`, `NonceOnce`, `UndisturbedEnds`, `AgreesOnKeys` |
| `turn` | the opening thread and 2 callers that want the same peer, 1 callback handler, 4 requests, 2 faults | `AnswerIsOwn`, `GrantsAreReal`, `CallsReturn`, `UndisturbedSucceeds` |
| `classic` | two programs, 2 reflectors, a frame of either side, retries of 1, 2, 2 ... slots for 6, 2 faults | `ReceivedInOrder`, `AcksAreReal`, `ConnectedIsHeard`, `ReuseIsARace`, `QueuedIsReceived`, `StartedConnects` |
| `stream` | 3 sequence numbers; 4 frames out on one path with a mute and a fault, or 2 in on two with a fault, from the last number on, or 2 out and 1 in with a mute; 2 callbacks, queues of 1 | `KeystreamOnce`, `MuteTakesEffect`, `SealedIsHeard`, `SpokenIsPlayed` |
| `srtp_rollover` | 5 frames over 4 sequence numbers, no peer | refutes `RolloverCounted` |
| `signaling` | a call just started, 1 user with 2 mutes, 2 delivering threads, 1 packet of the peer, of either of 2 batches, 1 fault | `HandledAsSent`, `NumbersDistinct`, `PingIsAnswered`, `MuteIsShown` |
| `engine` | a placed and an incoming call, 2 runs of StartMedia, 1 delivering thread, 1 stopping, 2 packets, queue limits of 1 packet and 2 bytes, packets of 1 byte and one of 3, 1 endpoint | `TypeOK`, `SignalingReachesOwnCall`, `InstalledIsLive`, `LossIsExplained`, `RelaysSignaling` |
| `jitter_safety` | 6 sequence numbers, 8 packets, capacity 2, 2 in flight, 1 duplicate | `NothingStale`, `BufferAccounted`, `PlaysInOrder`, `EverySlotDrains` |

*Bounds.* Every race in a call is between two threads of one kind or one of each
of two kinds: two receivers are what it takes to pass `CheckDtls` or
`CheckEstablished` together, two signaling threads to pass `IceSnapshot`
together. One stopper is enough for what follows `StopCall`, because the
interlocked exchange sends any other home. A budget of one retry already has all
three branches of the timer's handler. Eight packets over six sequence numbers
cross the wrap, where two buffered packets stand in the map in the other order
than in the stream; a capacity of two is what lets them be reordered there, and
since only half a turn of the numbers, three here, is ahead, the third packet in
the buffer is an overflow. Two calls are what it takes for one's packet to meet
the other's connection. A queue of one makes the second packet of the placed
call an overflow by count; the second one of the other call is larger than the
limit in bytes and takes the first along. In `dtls` a flight repeated, its copy
overtaken and one more loss are three disturbances, enough for a second epoch
and for every way a handshake was found to go wrong while the module was
written; a second application record would only count on. In `turn` two callers
are what it takes to have the slot taken while another waits and its answer come
late. In `classic` the schedule is the program's (retries after 250, 500, 1000
and then every 1500 ms, 13 s, 12 attempts) scaled down with its relation kept:
the deadline ends the handshake before the attempts run out. Two faults there
are a loss and a delay, or two crossed datagrams; two reflectors are what it
takes for the sides to be on different ones, and a frame of whichever side for
its two loops to meet: the loops of the other side share nothing with them. With
two faults and a start one slot later (`MaxSkew` = 1) the six slots are too few
and `StartedConnects` fails, which is a matter of the scaled-down deadline. In
`stream` the fourth of four frames over three numbers is beyond the wrap, and so
is the second of the peer's two, which begin with the last number; one frame on
two paths is its own duplicate, and queues of one overflow on the second frame.
The two directions are taken apart because they share only the device and the
threads that start and stop it, which the third of the `Bounds` has together. In
`signaling` the peer's one packet is either of two batches, which between them
have every kind of frame; repeated, it is handled by two threads at once. The
proofs need none of these bounds.

*Deadlock* is not checked: a call that is stopped or has failed, a stream that
has ended, two ends that have decided, a client that is closed, all really stop.

*Fairness.* `TgcallsConnection`: a thread inside a handler is scheduled again
(no handler waits for an event of the peer: the one blocking call modelled,
the join, has a timeout), the pool keeps firing a live periodic timer, a pump
looks at its flag once per frame. Neither signaling, datagrams nor `Stop` are
fair: nobody has to call. `IceCall`: both ends have each other's credentials
and their timers fire; of a datagram sent again and again one arrives (strong
fairness, used only to make the refutation of `SelectedIsNominated` one that a
lossy network does not explain). `JitterBuffer`: the receive loop wakes at
least once per frame, packet or not, and drains what is due; it holds while
the socket is open, since the loop leaves on an error that is no timeout.

`DtlsHandshake`: callbacks run, the network delivers what it holds and the peer
reads it; the peer's timer need not fire. `TurnClient`: threads run, a wait ends
by its deadline, what the network holds arrives and is answered. `MediaStream`
and `SignalingChannel`: the program's threads run and what is not lost arrives;
users, microphone and peer are free. `ClassicCall`: threads run, a `Receive`
ends by its deadline; nobody has to start, speak or stop, and what the network
holds back need not arrive, which is how it loses a datagram; that the receive
loop runs is one clause with the handshake that goes before it, since a side is
only ever in one of them. Liveness is stated up to the faults of the network
(`faults > 0`) where the code has no answer to a fault (`UndisturbedEnds`,
`UndisturbedSucceeds`, `PingIsAnswered`), up to the loss of every copy of the
frame in question in `SealedIsHeard` and `SpokenIsPlayed`, and not otherwise:
`CallsReturn`, `StartedConnects`, `QueuedIsReceived`, `IceDecides`,
`EachEndDecides`, `MuteIsShown` hold whatever the network does within its bound.

*What the two refuted properties show.*

- `SelectedIsNominated` (`ice_agent.cpp:169-170`, "Controlling side selects on
  first successful response, then re-issues a USE-CANDIDATE check on next
  GetBindingRequestsToSend"): there is no next call, because `OnIceConnected`
  cancels the timer that makes it. Unless the controlling end had seen a check
  of its peer before a retry, its peer never selects and fails after 20 tries.
- `RolloverCounted` (`srtp_packet_codec.cpp:130`, "(i.e. previous was 0xFFFx,
  new is 0x000x),"): the counter moves when the number decreases by less than
  0x8000, and from 0xFFFF to 0 it decreases by 0xFFFF. After 65536 frames, an
  hour and five minutes of 60 ms each, the keystreams of the first turn are used
  again, and a peer that counts the wrap refuses every packet. `KeystreamOnce`
  and `SealedIsHeard` therefore speak of the first turn, in a run that goes beyond
  it.

*Known departures*, found while modelling and not run here; the model has each
of them.

- A handler past its checks when `Stop` runs sets Connected, DtlsHandshaking or
  Failed on a call that is torn down, and `StartAudioPhase` raises
  `m_audioLoopActive` again (`TransitionTo` does not look at `m_stopped`).
- The capture pump's thread is created before its handle is stored, and both
  after the checks: `Stop` may find no handle and release the device under it.
- Candidates that arrive once `m_iceStarted` is set are only stored
  (`tgcalls_connection.h:53` says they are added to the agent).
- `AcceptPeerGB`, `ConfirmPeerGAOrB` and `CreateIncomingDh` put their copy of a
  session back without looking: a call dropped meanwhile is back with its key
  (`voip_engine.h:67-70` says that a dropped call has none).
- Two classic calls may run their loops side by side: the media session is
  tested before a handshake of seconds and not again, `StopMedia` resets it
  under a start in flight, and a refused start answers with `Stop`.
- The DTLS client never retransmits (`dtls_client_session.h:21` leaves it to the
  caller, which does not either): one lost datagram leaves the call in its
  handshake for ever. A last flight of the peer that comes twice fails an
  established session.
- Both ends of this program would be DTLS clients: two of them do not
  interoperate.
- The receiver's rollover counter never advances: a peer's wrap silences the
  call, and `SpokenIsPlayed` speaks of its first turn. The source of incoming
  audio is latched before its tag is checked, so that a stray datagram that comes
  first leaves the call deaf; duplicates are played twice.
- A late or repeated ChangeCipherSpec takes an established DTLS session back to
  waiting for a Finished, and what comes next may fail it.
- The DTLS client takes keys from a peer that sends no Certificate, and does not
  verify the signature of a ServerKeyExchange: `OtherCertificateNoKeys` speaks of
  the peers that show one.
- A mute before the device exists is not passed on to it, and `MuteTakesEffect`
  speaks of the others; a frame captured while muted and read after the unmute is
  sent. `SetSpeaker` sends no MediaState.
- Two overlapping `SetMuted` may leave the peer showing the wrong state.
- A TURN request made while another waits takes its slot, and the first times
  out; permissions and allocation are never refreshed, a 438 never adopted.
- A twelfth Init is never sent within the 13 s of the handshake
  (`voip_engine.cpp:1798` speaks of 12 attempts).
- `Receive` keeps foreign datagrams in its queue for ever.

## 4. The proofs

TLAPS checks every leaf of the eight proof modules. The assumptions on the
constants are those the modules name: a role is one of the two, bounds are
naturals, widths, capacities and limits not zero, the null handle is no thread,
there are two sides. Where a theorem needs more, it says so in an ASSUME of its
own. None of the invariants below is inductive by itself; each module's `IInv`
is the strengthening, which TLC checked first.

`TgcallsConnection_proofs` proves `TypeOK`, `OneDtlsSession`, `PhasesInOrder`
(from `HandshakeFollowsSelection`, `KeysFollowHandshake`, `ConnectedHasKeys`)
and `IceOnce` (from `OneIceAgent`, `RetryBudget`) for any sets of threads, and
that the call implements `CallPhases` (`PhasesImplemented`, the property
`FollowsPhases`). `PhasesInOrder` is what can be seen of that in one state. The
invariant adds, by name:

- `StartInv`: nothing has happened before `Start` returned;
- `LatchInv`: no two signaling threads are past the latch, and a thread that is
  about to publish an agent finds none;
- `CertInv`: the certificate is in the member, in one thread's hands, or spent
  on the one session. This is the argument for `OneDtlsSession`: the test of
  `m_dtls` plays no part in it;
- `SelectInv`: a thread between selection and DTLS knows a connected agent;
- `KeysInv`: whoever is inside `StartAudioPhase` knows that DTLS established;
- `ReadyInv`: a Stop past its first step has set `m_stopped`, and until then
  keys once installed stay;
- `BudgetInv`: batches never exceed attempts plus one, and a timer about to
  send is below its cap;
- `ReasonInv`, for the refinement: a thread on its way to Failed knows of a
  selected pair, the timer gives up only when its retries are spent, and retries
  are those of the one agent, which comes after `Start`.

Each lemma `...Preserves` takes the actions of one kind of thread, one step per
action and under it one step per part of the invariant; each lemma `...Shows`
takes the same actions and names the action of `CallPhases` each of them is.

`DtlsHandshake_proofs` proves `TypeOK`, `EstablishedAgrees`,
`OtherCertificateNoKeys` and `NonceOnce`, and that the handshake implements
`KeyAgreement` (`AgreesOnKeys`), for any set of peers and any number of disturbed deliveries. Every
Finished of the peer there ever is carries its final transcript and secret
(`GoodRecords`), since it makes one only once it has verified the client's; the
client compares its own with them, and its transcript holds a Certificate only
when it is the announced one (`CertInv`), so that of a peer that shows another
the client's transcript can never be the peer's. For the nonces, every record encrypted
before is of an earlier epoch or has a smaller number (`Passed`), also when the
client answers a flight twice.

`TurnClient_proofs` proves `TypeOK`, `AnswerIsOwn` and `GrantsAreReal` for any
callers, peers and faults. A transaction number belongs to one thread from the
moment it takes the slot, and so does every message that bears it (`TxnInv`);
the slot only holds answers to the transaction it is for (`ResponseInv`), and a
thread takes only its own out of it, whoever took the slot meanwhile (`OkInv`).

The second part of that module proves `IceTypeOK`, `SelectionIsEarned` and
`NominationsAreEarned` of `IceCall`, for any candidates and budget. A selection
is earned through what the network holds, so the invariant speaks of that: a
datagram has a sender (`SenderInv`), a USE-CANDIDATE comes from a controlling end
that saw the pair work (`NominationInv`), a connected controlled end was
nominated (`ConnectedInv`). `NominationsAreEarned` needs that the controlling
end had its answer before, which stays in `succeeded`, and that building the
checks leaves no pair to nominate.

`MediaStream_proofs` proves `KeystreamOnce`, for the packets of the first turn of
the sequence numbers (65536 in the program) in a stream of any length, whatever
the encoder refuses and however the pump's snapshots of `m_outgoingSeq`
interleave: each packet has used up a frame of its own, so that as long as the
frame at hand is of the first turn (`Inside`) the numbers rise (`CounterInv`) and
the rollover counter does not move (`SealedInv`). The bound is sharp, which
`srtp_rollover` shows from the other side. `MuteTakesEffect` is proved for any
depth of the queues: while the call is muted and the device was told, the device
is muted, so what the pump reads from then on is wiped, and only the frame it
already held can have voice (`MuteInv`).

`ClassicCall_proofs` proves `TypeOK`, `AcksAreReal`, `ConnectedIsHeard`,
`ReuseIsARace` and `ReceivedInOrder` for any retries, deadlines, number of
endpoints, frames and faults. What a datagram numbers and acknowledges has been
sent on its endpoint, and the sender of an InitAck has heard the one it answers
(`GoodTo`, `NetInv`); what a side has heard, and what its loops hold, is among
that (`HeardInv`); and as long as the two loops of a side
have not met in `TakeNextSequence`, its next number is above all it has used
(`CountInv`). `ReceivedInOrder` compares two queues: the datagrams of the call in
`m_received`, in their order (`OfCall`), and those that have come and were not
received. `Receive` turns the queue round until the first datagram of the call
is in front; foreign ones move to the back, where `OfCall` passes over them, which
is shown by induction over the queue.

The last part of that module proves, of `JitterBuffer`, `JitterTypeOK`,
`NothingStale`, `BufferAccounted` and the action property `PlaysInOrder` for
every width, capacity and stream. The invariant says that slots are keyed by
their packets' numbers and lie within one turn ahead of `position` (`SlotsInv`),
and that `m_nextSequence` is the number of `position` (`PlayoutInv`). The lemmas
about modular arithmetic (`SequenceGap`, `SequenceInjective`,
`NotBeforeIsAhead`) carry the argument that the signed 16-bit comparison decides
correctly across a wrap-around.

`VoipEngine_proofs` proves three invariants, an action property and a refinement
for any calls, threads, queue limits, packet sizes and number of endpoints. `Typed` strengthens
`TypeOK` by what a client's thread knows where it stands. `Routes` is the
argument for `SignalingReachesOwnCall`: every packet in a queue, a copy of a session, a drain or a delivering thread,
and every connection installed or being installed, belongs to the call of the
place that holds it. `OnePlace` is the argument for `InstalledIsLive`: the
object a `StartMedia` made is carried by that thread, or installed, or taken by
a thread that stops it, and what was taken is never installed again; it needs
`Routes` for the fact that two threads never carry the same object. `Apart` is
the argument for `RelayImplemented`, that the engine implements `SignalingRelay`:
a packet stands once in any queue, never in a drain and the queue it was taken
from, and never both with a delivering thread and anywhere else; only a session
and the copy that will be put back in its stead may hold the same one. So a step
that hands a packet over takes it from `Held` for good. `LossExplained` goes
through the same steps the other way round: what an arrival pushes out of a queue
lies before the first place from which the rest fits (`FirstToFitExists`,
`QueueKeeps`); `OutgoingUnknown` is what it needs
besides: a call still waiting for its id has no session for `BindOutgoingCall`
to overwrite.

`RecursionLemmas` is what proofs about functions defined by recursion rest on:
every set of naturals has a least member, so what holds of 0 and passes from n to
n + 1 holds of every n (a property is passed as the set of numbers that have it,
which lets the lemma be cited); and a recursive definition has one solution,
in the set its step stays in.

`SignalingChannel_proofs` proves `HandledAsSent` and `NumbersDistinct` for any
number of threads, batches, frames in a batch, packets and faults. Its first part
is about the codec alone, and is the reason why the invariant can be as simple as
it is:

- `FlattenSeq` is unfolded once (`FlattenRuns`), and from then on a
  concatenation of one part more is that of the parts and the part
  (`FlattenAppend`);
- `RoundTrip`: whatever frames `JoinFrames` is given, `SplitFrames` finds the
  first k of them, each with its number, tag and text, where k is that of the
  first unknown tag or of the last frame. The proof goes frame by frame: a body
  one frame longer is scanned as before up to where it was (`SplitStep`);
- `MessagesSeen`, `OpensToWanted`: a packet of the peer opens to the messages its
  batch means.

Then `NumbersDistinct` follows from `Numbered` and `Held` (the numbers the peer
saw, those under way and those that threads hold between lock and callback were
all taken from one counter, and apart), and `HandledAsSent` from `UnderWay` and
`InWork`: a packet under way has not been begun with and nobody else has its id,
and what a thread has dispatched followed by what it has still to do is what the
peer put in. `Begun` keeps that for packets that are done. Without the ids of
copies the last part would be false: two threads handle a repeated packet at
once.

Only model-checked: every liveness property (`IceDecides`, `TimerDies`,
`EachEndDecides`, `UndisturbedEnds`, `CallsReturn`, `UndisturbedSucceeds`,
`QueuedIsReceived`, `StartedConnects`, `SealedIsHeard`, `SpokenIsPlayed`,
`PingIsAnswered`, `MuteIsShown`, `EverySlotDrains`), because fairness and ENABLED
are out of the prover's reach, and the two refutations, which are
counterexamples. Every invariant, action property and refinement of a passing run
is a theorem.

## 5. Not modelled

- `SetSpeaker` and the counters of `GetStatsSnapshot` of a modern call; which of
  TURN and socket one of its datagrams takes, and the Send and Data indications
  that carry it over TURN.
- In the engine: mute, speaker and snapshots, the diagnostic counters, a media
  graph that starts, the destructor.
- The push sessions of the reflector transport (`OpenSession` to
  `CloseSession`), which are the environment of `TgcallsConnection`, and
  `ProbeSelfInfo`, which has no caller; nor has `voip_rtp_packet`.
- The smoothed jitter and the number of lost packets of the jitter buffer.
- Two overlapping runs of the retry timer's handler: the period of 500 ms is
  far longer than a batch of sends takes. Two datagrams inside one DTLS session
  at once.
- Memory errors as such: use after free is the continuation described above.
- Endpoint selection, candidate parsing, the ECDSA key pair, cryptography, Opus
  and the bytes of every format: pure functions without decisions of their own.
  The WinRT API is a projection. Vendored libraries: third-party code.

## 6. What is left

In the order of what matters most to a call:

1. The sharp form of the first departure: which late handlers may overwrite the
   state of a stopped call, and that each does so once.
2. The push sessions and TURN's data path, which would let a datagram of
   `TgcallsConnection` take the way the code gives it.
