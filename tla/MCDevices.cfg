CONSTANTS
  TimeoutToo = FALSE
  oz = oz
  rz = rz
  fan = fan
  gov1 = gov1
  gov2 = gov2
  None = None
  Gone = Gone
  Writers = {1, 2}
  NoOne = NoOne
  OfZones = {oz}
  DirectZones = {rz}
  Cdevs = {fan}
  Dt <- MCDt
  Governors = {gov1, gov2}
  Default = gov1
  Chips = {"rts", "oth"}
  Rts = "rts"
  NPwm <- MCNPwm
  MAX_PWMS = 3
  Periods = {0, 20}
  TinNs = 10
  Parts = {"ofzone", "binding", "zone", "ddr", "suspend", "switch", "claims", "uart", "clk", "serial", "i2c", "slave", "spi"}
SPECIFICATION MCSpec
INVARIANTS
  TypesOK
  NothingDangles
  PwmSound
  
  BusesExact
PROPERTIES
  HeatIsMet
  SwitchedBack
  Transmits
\* Jobs and characters are bounded, and a machine that is too hot shuts down.
CHECK_DEADLOCK FALSE
