SPECIFICATION Spec
CONSTANTS
  NumPlayers = 3
  NumRounds = 2
  Blind <- BlindsLimit
  FirstPlayer <- FirstLimit
  MaxRaises <- RaisesLimit
  RaiseSize <- RaiseSizes24
  NoLimit = FALSE
  Stacks <- UnequalStacks
  MaxNumActions = 8
  MaxInt = 127
  HandIds = {1}
  ActionConfs = {}
  Similar = 1
  RaiseSizes = {0}
INVARIANT
  MaxSpentIsLargest
