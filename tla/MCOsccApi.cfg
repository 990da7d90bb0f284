CONSTANTS
  Interfaces <- MCInterfaces
  Topologies <- MCTopologies
  Fd <- MCFd
  Kinds = {"fault", "obd"}
  Modules <- MCModules
  QueueSize = 2
  MaxFrames = 2
  MaxOpens = 2
SPECIFICATION Spec
INVARIANTS
  TypeOK
  NoFrameStranded
  SignalIsHandled
  OrdersTold
  OpenTold
CHECK_DEADLOCK FALSE
