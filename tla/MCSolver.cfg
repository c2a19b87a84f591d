SPECIFICATION FairSpec
CONSTANTS
  BigPool = 4
  ClusterSize = 2
  Absent = Absent
  Configs <- AllConfigs
  Spans <- SomeSpans
INVARIANTS
  CommandsRunOnTime NeverThrows RunsAllIterations FlopsAreDealt
PROPERTIES
  SearchEnds
