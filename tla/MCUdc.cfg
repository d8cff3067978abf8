SPECIFICATION MCSpec
CONSTANTS
  Parts = {"link", "fifo", "class", "control"}
  Drivers = {d1, d2}
  NoDriver = NoDriver
  Funcs = {f1}
  FuncOps = {"deactivate", "soft_reset"}
  MaxDeact = 2
  Eps <- MCEps
  NoEp = NoEp
  Fifos <- MCFifos
  FifoOf <- MCFifoOf
  Video <- MCVideo
  u1 = u1
  u2 = u2
  any = any
  named = named
  strict = strict
  NULL = NULL
  Udcs <- MCUdcs
  Gadgets <- MCGadgets
  UdcName <- MCUdcName
  ExistingOnly <- MCExistingOnly
  BindResults = {"ok", "fail", "defer"}
  ms = ms
  lb = lb
  MaxPacket = 2
  Requests <- MCRequests
  Functions <- MCFunctions
  Scenarios <- MCPatient
INVARIANTS
  ReportsToBoundDriver
  VisibleOnlyWhileBound
  ConnectedIsVisible
  FifoExclusive
  PairingSound
  ControlExact
PROPERTIES
  VbusLossNoticed
  ControlAnswered
