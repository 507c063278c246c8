\* Two clients; the establish timeout scaled to two steps of time.
CONSTANTS
  Conns = {c1, c2}
  EstablishTimeout = 2
SPECIFICATION FairSpec
INVARIANTS
  SessionsHaveConnections
  LostTransportsAreClosing
  OfferComesFirst
PROPERTY ClientsAreNotLeftHanging
CHECK_DEADLOCK TRUE
