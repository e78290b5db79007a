CONSTANTS
  SessionErrors <- RealError
  MaxSessions = 3
SPECIFICATION Spec
INVARIANT ReconnectsAfterTunnelDies
