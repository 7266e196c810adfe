\* Three disturbed deliveries.
SPECIFICATION FairSpec
CONSTANTS
  MaxFaults = 3
  MaxAppData = 1
  Peers <- MCPeers
INVARIANTS
  EstablishedAgrees
  OtherCertificateNoKeys
  NonceOnce
PROPERTIES
  UndisturbedEnds
  AgreesOnKeys
CHECK_DEADLOCK FALSE
