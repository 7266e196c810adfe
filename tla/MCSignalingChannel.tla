-------------------------- MODULE MCSignalingChannel --------------------------
(* Small instances of SignalingChannel for TLC: what the peer may send.      *)
EXTENDS SignalingChannel

LOCAL Json(type, value) == [json |-> TRUE, type |-> type, value |-> value]
LOCAL Frame(tag, text) == [tag |-> tag, text |-> text]

LOCAL Garbage == [json |-> FALSE, type |-> Unknown, value |-> 1]

\* An acknowledgement before two Pings; and a set-up with a custom frame of no
\* text, a text that is no JSON, an empty frame, the candidates, and a Ping
\* behind a tag of a later version of the protocol.
Batch(name) ==
  CASE name = "pings" ->
         <<Frame(Ack, NoText), Frame(Custom, Json(Ping, 1)),
           Frame(Custom, Json(Ping, 2))>>
    [] name = "setup" ->
         <<Frame(Custom, Json(InitialSetup, 0)), Frame(Custom, NoText),
           Frame(Custom, Garbage), Frame(Empty, NoText),
           Frame(Custom, Json(Candidates, 0)),
           Frame("other", NoText), Frame(Custom, Json(Ping, 3))>>
=============================================================================
