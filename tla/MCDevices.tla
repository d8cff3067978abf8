------------------------------ MODULE MCDevices -------------------------------
(***************************************************************************)
(* Thermal zones, PWMs, serial ports and the I2C and SPI controllers:      *)
(* parts that share no state.  A behaviour moves one of them, chosen at    *)
(* its start.  The parts other than Pwm and Thermal use the same variables *)
(* s1, s2, ...; those a part does not need stay 0.                         *)
(***************************************************************************)
EXTENDS Pwm, Thermal

VARIABLES part, s1, s2, s3, s4, s5, s6, s7, s8

slots == <<s1, s2, s3, s4, s5, s6, s7, s8>>
Zero == s1 = 0 /\ s2 = 0 /\ s3 = 0 /\ s4 = 0 /\ s5 = 0 /\ s6 = 0 /\ s7 = 0 /\ s8 = 0

CONSTANTS
  Parts,       \* the parts that a run is about
  TimeoutToo,  \* see Uart8250
  oz, rz, fan, gov1, gov2

(* Thermal.  A zone of the device tree with two trips that bind one fan,   *)
(* one of them twice: either its temperature or the fan moves; or a zone   *)
(* that a driver registers moves.                                          *)
MCBind(t) == [trip |-> t, cdevs |-> <<fan>>]
MCDt == [z \in {oz, rz} |->
           IF z = oz THEN [delays |-> TRUE, trips |-> {1, 2}, maps |-> <<MCBind(1), MCBind(2), MCBind(1)>>]
           ELSE [delays |-> FALSE, trips |-> {}, maps |-> << >>]]

(* RtsThermal.  The two trip points of the driver, 75 and 85 degrees.      *)
MCTrips == [i \in 0..1 |-> IF i = 0 THEN 27315 + 7500 ELSE 27315 + 8500]
Ddr == INSTANCE RtsThermal WITH
  TripPoints <- MCTrips, NumTrips <- 2, Degrees <- {10, 40, 60, 76, 80, 83, 90, 100},
  pc <- s1, degree <- s2, window <- s3, on <- s4, index <- s5, work <- s6, told <- s7

(* Pwm.  Another chip has one output; the numbers just do.  The chip of    *)
(* two outputs suspends; or it comes and goes while one output is          *)
(* switched; or two processes write to the settings of number 0, whichever *)
(* chip has that number, while one chip or the other goes.                 *)
MCNPwm == [c \in {"rts", "oth"} |-> IF c = "rts" THEN 2 ELSE 1]
PwmParts == {"suspend", "switch", "claims"}
PwmPart ==
  CASE part = "suspend" -> UNCHANGED <<wr, rem>> /\ base'["oth"] = None
    [] part = "switch" -> /\ UNCHANGED pm /\ base'["oth"] = None /\ wr'[1] = Idle
                          /\ pwm'[<<"rts", 1>>] = Fresh
    [] part = "claims" -> /\ UNCHANGED <<pm, reg>> /\ \A p \in Pwms : pwm'[p].state = Off
                          /\ \A p \in Pwms : p[1] \in Added /\ base[p[1]] + p[2] # 0 => pwm'[p] = pwm[p]
                          /\ \A k \in Writers : wr'[k].i = 0
                          /\ \E c \in Chips : rem'[c] = Stays

(* Uart8250.  One character each way; or one out, slow or not, a clock     *)
(* that changes, and suspend with loss of power.                           *)
Uart == INSTANCE Uart8250 WITH
  MaxXmit <- 1, MaxRx <- 1, Words <- {"8"}, Bauds <- {115200}, Clocks <- {24000000, 12000000},
  up <- s1, hw <- s2, tty <- s3, cpu <- s4, owed <- s5, garbled <- s6

(* Serial8250.  Three lines and devices; two devices share an interrupt    *)
(* and an alias, the third is not there.                                   *)
MCAlias == [u \in {"u0", "u1", "u2"} |-> 0]
MCIrq == [u \in {"u0", "u1", "u2"} |-> IF u = "u2" THEN 5 ELSE 4]
Serial == INSTANCE Serial8250 WITH
  NrUarts <- 3, Uarts <- {"u0", "u1", "u2"}, Alias <- MCAlias, Irq <- MCIrq, Found <- {"u0", "u1"},
  port <- s1, bound <- s2, isa <- s3, chain <- s4, taken <- s5, linking <- s6, deaf <- s7, pending <- s8

(* I2cMaster.  FIFOs of two; a long write, a write and a long read, two    *)
(* writes, SMBus block reads without and with PEC, a second address.       *)
Msg(rd, n) == [rd |-> rd, len |-> n, recv |-> FALSE, pec |-> FALSE, addr |-> 1]
MCJobs ==
  {<<Msg(FALSE, 3)>>, <<Msg(FALSE, 1), Msg(TRUE, 3)>>, <<Msg(FALSE, 2), Msg(FALSE, 1)>>,
   <<Msg(FALSE, 1), [Msg(TRUE, 1) EXCEPT !.recv = TRUE]>>,
   <<Msg(FALSE, 1), [Msg(TRUE, 2) EXCEPT !.recv = TRUE, !.pec = TRUE]>>,
   <<Msg(FALSE, 1), [Msg(FALSE, 1) EXCEPT !.addr = 2]>>}
MCBlockLens == [pec \in BOOLEAN |-> {0, 2}]
I2c == INSTANCE I2cMaster WITH
  TxDepth <- 2, RxDepth <- 2, Jobs <- MCJobs, BlockLens <- MCBlockLens, Hold <- TRUE,
  BusFreq <- 400000, Fall <- 0,
  dev <- s1, hw <- s2, pc <- s3, isr <- s4, wire <- s5, got <- s6, ret <- s7, asleep <- s8

(* I2cSlave.  An EEPROM of two bytes.                                      *)
Slave == INSTANCE I2cSlave WITH
  Size <- 2, AddrBytes <- 1, ReadOnly <- FALSE, Depth <- 2,
  dv <- s1, rx <- s2, stat <- s3, txd <- s4, bus <- s5, ee <- s6, ref <- s7, wrong <- s8

(* SpiDw.  Two devices, transfers that fit the FIFO and longer ones.       *)
Spi == INSTANCE SpiDw WITH
  FifoLen <- 2, MaxFreq <- 100, Devs <- {"a", "b"}, Modes <- {"irq", "poll", "dma"},
  Speeds <- {10, 33}, Lens <- {1, 4}, MaxXfers <- 4,
  dws <- s1, chip <- s2, hw <- s3, cur <- s4, res <- s5, took <- s6

-----------------------------------------------------------------------------
MCInit ==
  /\ part \in Parts /\ PwmInit /\ ThermalInit
  /\ \/ part \in {"ofzone", "binding", "zone"} \cup PwmParts /\ Zero
     \/ part = "ddr" /\ Ddr!RtsThermalInit /\ s8 = 0
     \/ part \in {"uart", "clk"} /\ Uart!UartInit /\ s7 = 0 /\ s8 = 0
     \/ part = "serial" /\ Serial!SerialInit
     \/ part = "i2c" /\ I2c!I2cInit
     \/ part = "slave" /\ Slave!SlaveInit
     \/ part = "spi" /\ Spi!SpiInit /\ s7 = 0 /\ s8 = 0
  /\ part = "uart" => s1.clk = 24000000

MCNext ==
  /\ UNCHANGED part
  /\ part \notin PwmParts => UNCHANGED pwmVars
  /\ part \notin {"ofzone", "binding", "zone"} => UNCHANGED thermalVars
  /\ \/ part \in PwmParts /\ PwmNext /\ PwmPart /\ UNCHANGED slots
     \/ /\ part \in {"ofzone", "binding", "zone"} /\ ThermalNext /\ UNCHANGED slots
        /\ LET still == IF part = "zone" THEN oz ELSE rz
           IN  zone'[still] = zone[still] /\ sensed'[still] = sensed[still]
        /\ part = "ofzone" => /\ UNCHANGED cdev /\ sensed'[oz] # PassiveTrip
                              /\ zone'[oz].gov # zone[oz].gov => zone'[oz].pc # zone[oz].pc
        /\ part = "binding" => UNCHANGED <<sensed, setters>>
        /\ part = "binding" => zone'[oz].gov \in {gov1, NoOne}
     \/ part = "ddr" /\ Ddr!RtsThermalNext /\ UNCHANGED s8
     \/ /\ part \in {"uart", "clk"} /\ Uart!UartNext /\ UNCHANGED <<s7, s8>>
        /\ IF part = "uart" THEN s1'.clk = s1.clk /\ ~s2'.slow /\ s1'.sleep = "no"
           ELSE s2'.rx = s2.rx /\ "MSI" \notin s1'.ier /\ ~s2'.delta /\ ~s3'.xchar /\ ~s3'.stopped
     \/ part = "serial" /\ Serial!SerialNext
     \/ part = "i2c" /\ I2c!I2cNext
     \/ part = "slave" /\ Slave!SlaveNext
     \/ part = "spi" /\ Spi!SpiNext /\ UNCHANGED <<s7, s8>>

allVars == <<part, pwmVars, thermalVars, slots>>

(* Work that is queued is done, an interrupt that is pending is served, and  *)
(* a transmitter that holds a character sends it.                           *)
Work ==
  /\ UNCHANGED <<part, pwmVars, s8>>
  /\ \/ /\ part \in {"ofzone", "binding", "zone"} /\ \E z \in Zones : Progress(z)
        /\ UNCHANGED <<s1, s2, s3, s4, s5, s6, s7>>
     \/ part = "ddr" /\ Ddr!Works /\ UNCHANGED thermalVars
     \/ part \in {"uart", "clk"} /\ Uart!ReadIir /\ UNCHANGED <<thermalVars, s7>>
Handler ==
  /\ UNCHANGED <<part, pwmVars, thermalVars, s8>>
  /\ \/ part = "ddr" /\ Ddr!rts_thermal_irq_handler
     \/ part \in {"uart", "clk"} /\ Uart!dw8250_handle_irq /\ UNCHANGED s7
Shifter == part \in {"uart", "clk"} /\ Uart!Shift /\ UNCHANGED <<part, pwmVars, thermalVars, s7, s8>>
MCSpec ==
  MCInit /\ [][MCNext]_allVars /\ WF_allVars(Work) /\ WF_allVars(Handler) /\ WF_allVars(Shifter)

-----------------------------------------------------------------------------
(* The types of the parts. *)
TypesOK ==
  /\ PwmTypeOK
  /\ ThermalTypeOK
  /\ part = "ddr" => Ddr!RtsThermalTypeOK
  /\ part \in {"uart", "clk"} => Uart!UartTypeOK
  /\ part = "serial" => Serial!SerialTypeOK
  /\ part = "i2c" => I2c!I2cTypeOK
  /\ part = "slave" => Slave!SlaveTypeOK
  /\ part = "spi" => Spi!SpiTypeOK

(* A zone that stays too hot shuts the system down, and a chip that stays   *)
(* too hot or too cold is reported to the DDR controller                    *)
(* (thermal_zone_device_check, rts_thermal_work).                           *)
HeatIsMet ==
  /\ []<>(part \in {"ofzone", "binding"} => poweroff = 1 \/ ~Watched(oz))
  /\ []<>(part = "ddr" => s7 = "high" \/ ~Ddr!TooHot)
  /\ []<>(part = "ddr" => s7 = "low" \/ ~Ddr!TooCold)
(* Line status bits that a read clears are saved until they are processed   *)
(* (dw8250_handle_irq).                                                     *)
ErrorsKept == part \in {"uart", "clk"} => Uart!ErrorsKept
(* What was written reaches the transmitter (serial8250_tx_chars,           *)
(* serial8250_start_tx).                                                    *)
Transmits == (part \in {"uart", "clk"} /\ Uart!Written) ~> (part \in {"uart", "clk"} => Uart!Drained)
(* Every byte of a transfer reaches its place once and the master, the      *)
(* EEPROM and the SPI device agree about it (i2c_dw_xfer, i2c_dw_isr_slave, *)
(* dw_spi_transfer_one).                                                    *)
BusesExact == /\ part = "i2c" => I2c!XferExact
              /\ part = "slave" => Slave!EepromExact
              /\ part = "spi" => Spi!SpiExact
=============================================================================
