SPECIFICATION MCSpec
CONSTANTS
  sd = sd
  uart = uart
  hfile = hfile
  efile = efile
  N = 2
  Exportable = {2}
  Handles = {hfile}
  Events = {efile}
  LinesOf <- MCLinesOf
  Devs = {sd, uart}
  Pins <- MCPinSet
  States = {"default", "sleep"}
  None = None
  Gpio = Gpio
  Settings <- MCSettings
  PadOf <- MCPadOf
  Hogs = {uart}
  MaxUsers = 1
  NoLine = NoLine
  Banks <- MCBanks
  IrqLines = {67, 68}
  AskTypes = {"rising", "both"}
  OutLines = {65, 66}
  Toggles <- MCToggles
  Fails = {"irq", "chip"}
  Parts = {"pinctrl", "gpiolib", "gpiochip", "shared", "gpioline", "arrays", "registry", "ranges", "banks", "values", "table"}
\* Chips and controllers that are gone for good leave nothing to do.
CHECK_DEADLOCK FALSE
INVARIANTS
  TypesOK
  PinExclusive
  PadsSettled
  LinesOwned
  
  HandlesSound
  BanksSound
  PadsKept
PROPERTIES
  SelectReturns
