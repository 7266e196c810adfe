---------------------------- MODULE MCDtlsHandshake ----------------------------
(* The peers of DtlsHandshake for TLC.                                         *)
EXTENDS DtlsHandshake

\* Every peer that asks, seals and shows a certificate, and one that is odd in
\* each other way.
MCPeers ==
  {p \in PeerKinds : p.asks /\ p.seals /\ p.cert # "none"} \cup
  {p \in PeerKinds :
     /\ ~p.cookie /\ p.ems /\ ~p.packed
     /\ <<p.cert, p.asks, p.seals>> \in
          {<<"none", TRUE, TRUE>>, <<"pinned", FALSE, TRUE>>, <<"pinned", TRUE, FALSE>>}}
===============================================================================
