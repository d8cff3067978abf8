\* soft_connect written while the controller is already started.
SPECIFICATION FairSpec
CONSTANTS
  Drivers = {d1}
  NoDriver = NoDriver
  Funcs = {f1}
  FuncOps = {}
  MaxDeact = 0
PROPERTIES
  OperationsReturn
