\* The host gives up a control transfer and sends the next SETUP.
SPECIFICATION MCSpec
CONSTANTS
  Parts = {"control"}
  Drivers = {d1}
  NoDriver = NoDriver
  Funcs = {f1}
  FuncOps = {}
  MaxDeact = 0
  Eps <- MCEps
  NoEp = NoEp
  Fifos <- MCFifos
  FifoOf <- MCFifoOf
  Video <- MCVideo
  u1 = u1
  u2 = u2
  any = any
  named = named
  strict = strict
  NULL = NULL
  Udcs <- MCUdcs
  Gadgets <- MCGadgets
  UdcName <- MCUdcName
  ExistingOnly <- MCExistingOnly
  BindResults = {"ok", "fail", "defer"}
  ms = ms
  lb = lb
  MaxPacket = 2
  Requests <- MCRequests
  Functions <- MCFunctions
  Scenarios <- MCAborting
INVARIANTS
  RequestIdle
