SPECIFICATION Spec
CONSTANTS
  Label <- MCLabel
  Person <- MCPerson
  Motion <- MCMotion
  Day <- MCDay
  NWindows <- MCNWindows
  NSplits = 2
  Zoo <- MCZoo
  Configs <- MCConfigs
  Seeds <- MCSeeds
  Channel6 <- MCChannel6
  TrainDates <- MCTrainDates
  FusionDates <- MCFusionDates
  Holdout <- MCHoldout
  Macs <- MCMacs
  AllMacs <- MCAllMacs
  SingleMac = "a"
  Rate <- MCRate
  Classical <- MCClassical
  Attention <- MCAttention
  MaxTrain = 12
  MinPool = 2
  Unusable <- MCUnusable
  Zoo2 <- MCZoo2
  ExtraZoo <- MCExtraZoo
  InitialSessions <- MCInitialSessions
  LaterSessions <- MCLaterSessions
  Orders <- MCOrders
  Devices = 2
  Schedules <- MCSchedules
  MaxKills = 1
CHECK_DEADLOCK FALSE
INVARIANTS HeldOutUnseen ScorableFolds DataAligned
PROPERTIES KillLosesOneFold RunAllDelivers
