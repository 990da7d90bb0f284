CONSTANTS
  DataMax = 3
  TimeoutValue = 3
  OwnIndex = 144
  PowerUp <- MCPowerUp
  MaxRefusals = 1
  Modules <- MCModules
  ReportIdOf <- MCReportIdOf
  ObdIds <- MCObdIds
  AnyFilter <- MCAnyFilter
  ReportOf <- MCReportOf
  CommandOf <- MCCommandOf
  Ids <- MCIds
  TableSize = 3
  QueueMax = 1
  Topologies <- MCTopologies
  MaxOrders = 3
SPECIFICATION Spec
INVARIANTS
  TypeOK
  FrameIntact
  OvertakenOnlyInBuffer1
  NothingVanishes
  ScreenFollowsReports
  RepublishedFaithfully
  TableFaithful
PROPERTIES
  GreenIsEarned
  DiagnosisIsLatest
  LoopComesRound
  ImplementsChannel
CHECK_DEADLOCK FALSE
