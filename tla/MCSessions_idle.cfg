SPECIFICATION Spec
CONSTANTS
  c1 = c1
  c2 = c2
  s1 = s1
  s2 = s2
  s3 = s3
  Clients <- TwoClients
  SessionIds <- Ids
  MaxCapacity = 1
  MatchState <- TwoHands
  NoState = NoState
  None = None
  Gone = Gone
INVARIANTS
  ServingSessionsAreKept
