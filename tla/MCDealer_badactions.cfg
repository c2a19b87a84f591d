SPECIFICATION DealerSpec
CONSTANTS
  NumPlayers = 2
  NumRounds = 1
  Blind <- Ante2
  FirstPlayer <- FirstRound
  MaxRaises <- OneRaise
  RaiseSize <- RaiseByOne
  NoLimit = FALSE
  Stacks <- DeepStacks
  MaxNumActions = 8
  MaxInt = 127
  Scale = 2
  NumHands = 2
  FixedSeats = FALSE
  Deal <- Deals2
  MaxInvalidActions = 1
  MaxResponse = 1
  MaxUsedHand = 1
  MaxUsedMatch = 2
  MaxStarts = 2
  MaxStrays = 1
  MaxOddLines = 2
  MaxSetbacks = 1
INVARIANT
  BadActionsAreLimited
CHECK_DEADLOCK FALSE
