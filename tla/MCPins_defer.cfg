SPECIFICATION MCSpec
CONSTANTS
  sd = sd
  uart = uart
  hfile = hfile
  efile = efile
  N = 2
  Exportable = {2}
  Handles = {hfile}
  Events = {efile}
  LinesOf <- MCLinesOf
  Devs = {sd, uart}
  Pins <- MCPinSet
  States = {"default", "sleep"}
  None = None
  Gpio = Gpio
  Settings <- MCSettings
  PadOf <- MCPadOf
  Hogs = {uart}
  MaxUsers = 1
  NoLine = NoLine
  Banks <- MCBanks
  IrqLines = {14, 67}
  AskTypes = {"rising", "both"}
  OutLines = {65, 66}
  Toggles <- MCToggles
  Fails = {"irq", "chip"}
  Parts = {"registry"}
\* Chips and controllers that are gone for good leave nothing to do.
CHECK_DEADLOCK FALSE
INVARIANT DeferReturns
