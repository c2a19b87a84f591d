SPECIFICATION FairSpec
CONSTANTS
  NumPlayers = 3
  NumRounds = 2
  Blind <- Blinds3p
  FirstPlayer <- First3p
  MaxRaises <- Raises3p
  RaiseSize <- NoRaiseSize
  NoLimit = TRUE
  Stacks <- Stacks3p
  MaxNumActions = 8
  MaxInt = 127
  HandIds = {1}
  ActionConfs <- ActionConfs3p
  Similar = 2
  RaiseSizes = {0, 3, 4, 5, 6, 7, 8, 10}
INVARIANTS
  TypeOK MaxSpentIsLargest SomeoneCanAct AcceptedActionMeetsAsserts RoundLogHasRoom
  ReadBackAgrees PastRoundsAreSquare RaisesStepUp CallIsAChild ChildrenArePlayable
PROPERTIES
  ClosedBetsAreAnswered StepBackUndoes HandEnds
