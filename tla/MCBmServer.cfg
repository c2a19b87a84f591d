SPECIFICATION FairSpec
CONSTANTS
  alice = alice
  bob = bob
  limit = limit
  ring = ring
  r1 = r1
  r2 = r2
  r3 = r3
  s1 = s1
  s2 = s2
  m1 = m1
  m2 = m2
  m3 = m3
  Clients <- TwoClients
  Users <- TwoClients
  Games <- TwoGames
  Requests = {r1, r2, r3}
  UserOf <- UserNames
  Script <- Scripts
  Asked <- Specs
  NumPlayers <- Players2
  MaxMatchRuns <- TwoRuns
  MaxRunningJobs <- OneJobOrAny
  MaxRunningBots = 2
  ConnSlots = {s1, s2}
  MatchSlots = {m1, m2, m3}
  NoMatch = NoMatch
  None = None
INVARIANTS
  JobsAgreeWithMatches LimitsHold ReadyMatchesKeepTheirConnection
PROPERTIES
  ImplementsQueue MatchesStart
