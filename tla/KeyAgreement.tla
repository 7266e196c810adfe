---------------------------- MODULE KeyAgreement ----------------------------
(***************************************************************************)
(* What TgcallsConnection relies on when it takes SRTP keys from its DTLS  *)
(* session (OnReflectorDatagram, the call of ExportKeyingMaterial): the    *)
(* peer commits to one secret, and what the client takes, once, is that    *)
(* secret.  How the two agree is DtlsHandshake.                            *)
(***************************************************************************)
CONSTANTS Secrets, None

VARIABLES
  offered,   \* the secret the peer has finished its handshake with
  accepted   \* the secret the client exported

Init == offered = None /\ accepted = None

Offer ==
  /\ offered = None
  /\ offered' \in Secrets \ {None}
  /\ UNCHANGED accepted

Accept ==
  /\ offered # None /\ accepted = None
  /\ accepted' = offered
  /\ UNCHANGED offered

Next == Offer \/ Accept

Spec == Init /\ [][Next]_<<offered, accepted>>
=============================================================================
