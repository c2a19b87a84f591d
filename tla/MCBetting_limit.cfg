SPECIFICATION FairSpec
CONSTANTS
  NumPlayers = 3
  NumRounds = 2
  Blind <- BlindsLimit
  FirstPlayer <- FirstLimit
  MaxRaises <- RaisesLimit
  RaiseSize <- RaiseSizes24
  NoLimit = FALSE
  Stacks <- EqualStacks
  MaxNumActions = 8
  MaxInt = 127
  HandIds = {1}
  ActionConfs = {}
  Similar = 1
  RaiseSizes = {0}
PROPERTIES
  ClosedBetsAreAnswered
