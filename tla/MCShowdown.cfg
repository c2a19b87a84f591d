SPECIFICATION ShowdownSpec
CONSTANTS
  NumPlayers = 4
  NumRounds = 2
  Blind <- Blinds4p
  FirstPlayer <- First4p
  MaxRaises <- Raises4p
  RaiseSize <- NoRaiseSize
  NoLimit = TRUE
  Stacks <- Stacks4p
  MaxNumActions = 10
  MaxInt = 127
  HandIds = {1}
  RaiseSizes = {4, 6, 9}
  Ranks <- Ranks4p
  Scale = 12
INVARIANTS
  ShowdownHasContestants PotIsPaidOut
  SidePotsAreTableStakes NobodyWinsMoreThanItRisked
