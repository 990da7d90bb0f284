CONSTANTS
  Interfaces <- MCInterfaces
  Topologies <- MCTopologies
  Fd <- MCFd
  Kinds = {"fault", "obd"}
  Modules <- MCModules
  QueueSize = 2
  MaxFrames = 2
  MaxOpens = 1
SPECIFICATION Spec
INVARIANT HandlerNeverBlocks
CHECK_DEADLOCK FALSE
