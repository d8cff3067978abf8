----------------------------- MODULE I2cMaster -----------------------------
(***************************************************************************)
(* The DesignWare I2C controller as a master (i2c-designware-master.c,     *)
(* -common.c, -platdrv.c): one transfer at a time, which the interrupt     *)
(* handler moves through the two FIFOs while i2c_dw_xfer sleeps.           *)
(*                                                                         *)
(* One CPU: the process does not run inside the handler, the controller    *)
(* does, so the handler is two steps around its read of INTR_STAT.  A byte *)
(* is known by the message it belongs to; its value matters only for the   *)
(* length byte of an SMBus block read.                                     *)
(***************************************************************************)
EXTENDS Integers, Sequences, FiniteSets, FiniteSetsExt

CONSTANTS
  TxDepth, RxDepth,  \* COMP_PARAM_1: the depths of the FIFOs
  Jobs,              \* the message sequences that clients ask for
  BlockLens,         \* the length bytes an SMBus slave may answer to a block
                     \* read without and with PEC
  Hold,              \* IC_EMPTYFIFO_HOLD_MASTER_EN of the synthesis
  BusFreq,           \* t->bus_freq_hz, one of supported_speeds
  Fall               \* t->sda_fall_ns and t->scl_fall_ns

VARIABLES
  dev,     \* struct dw_i2c_dev, the part of the current transfer
  hw,      \* the controller: enable, mask, FIFOs, raw interrupts, timings
  pc,      \* where i2c_dw_xfer is
  isr,     \* the INTR_STAT value the running handler read
  wire,    \* the commands of this transfer the bus has seen
  got,     \* how many bytes of each message reached its buffer
  ret,     \* what the last transfer returned
  asleep   \* suspended

i2cVars == <<dev, hw, pc, isr, wire, got, ret, asleep>>

MaxMsgs == Max({Len(j) : j \in Jobs})
I2C_SMBUS_BLOCK_MAX == 32

-----------------------------------------------------------------------------
(* The timing registers. *)

I2C_SOURCE_CLK == 40000000
i2c_dw_clk_rate == I2C_SOURCE_CLK \div 1000

\* The rule for cond = 0, the only one the driver uses.
i2c_dw_scl_hcnt(ic_clk, tSYMBOL, tf) ==
  (ic_clk * (tSYMBOL + tf) + 500000) \div 1000000 - 3

i2c_dw_scl_lcnt(ic_clk, tLOW, tf) ==
  (ic_clk * (tLOW + tf) + 500000) \div 1000000 - 1

\* u16 fields
U16(n) == n % 65536

\* Without clock-frequency in the device tree the bus is in fast mode; any
\* other frequency than these fails the probe.
supported_speeds == {3400000, 1000000, 400000, 100000}
i2c_dw_adjust_bus_speed == IF BusFreq = 0 THEN 400000 ELSE BusFreq

\* High speed needs support that COMP_PARAM_1 of this controller does not
\* announce and falls back to fast mode.
i2c_dw_configure_master ==
  IF i2c_dw_adjust_bus_speed = 100000 THEN "std" ELSE "fast"

\* ss and fs counters; fast mode plus has its own fs numbers
i2c_dw_set_timings_master ==
  LET fall == IF Fall = 0 THEN 300 ELSE Fall
      plus == i2c_dw_adjust_bus_speed = 1000000
      H(t) == U16(i2c_dw_scl_hcnt(i2c_dw_clk_rate, t, fall))
      L(t) == U16(i2c_dw_scl_lcnt(i2c_dw_clk_rate, t, fall))
  IN  [con |-> i2c_dw_configure_master, ss |-> <<H(4000), L(4700)>>,
       fs |-> IF plus /\ ~(H(260) = 0 \/ L(500) = 0) THEN <<H(260), L(500)>>
              ELSE <<H(600), L(1300)>>]

Unset == [con |-> "none", ss |-> <<0, 0>>, fs |-> <<0, 0>>]

\* The default TX_TL and the mask of the master.
TX_TL == TxDepth \div 2
MASTER_MASK == {"RX_FULL", "TX_EMPTY", "TX_ABRT", "STOP_DET"}

-----------------------------------------------------------------------------
Idle == [msgs |-> <<>>, wi |-> 1, ri |-> 1, txlen |-> 0, rxlen |-> 0,
         status |-> {}, cmdErr |-> FALSE, msgErr |-> FALSE, abrt |-> "none",
         rxout |-> 0, done |-> FALSE]

\* The probe ends with the timings written and every interrupt masked.
i2c_dw_probe_master ==
  [on |-> FALSE, mask |-> {}, tx |-> <<>>, rx |-> <<>>, raw |-> {},
   busy |-> FALSE, src |-> "none", scl |-> i2c_dw_set_timings_master]

I2cInit ==
  /\ i2c_dw_adjust_bus_speed \in supported_speeds
  /\ dev = Idle /\ hw = i2c_dw_probe_master
  /\ pc = "idle" /\ isr = {"none"} /\ ret = "none" /\ asleep = FALSE
  /\ wire = <<>> /\ got = [m \in 1..MaxMsgs |-> 0]

\* IC_INTR_STAT: the latched bits and the two FIFO levels
Level ==
  hw.raw \cup (IF hw.rx # <<>> THEN {"RX_FULL"} ELSE {})
         \cup (IF hw.on /\ Len(hw.tx) <= TX_TL THEN {"TX_EMPTY"} ELSE {})
Stat == Level \cap hw.mask

\* Turning ENABLE off empties both FIFOs; a byte on the wire still ends.
dw_disable_nowait(h) == [h EXCEPT !.on = FALSE, !.tx = <<>>, !.rx = <<>>]

\* The wait for ENABLE_STATUS is given up after 100 polls.
dw_disable(h) ==
  {dw_disable_nowait(h), [dw_disable_nowait(h) EXCEPT !.busy = FALSE]}

i2c_dw_disable(h) ==
  {[g EXCEPT !.mask = {}, !.raw = {}, !.src = "none"] : g \in dw_disable(h)}

i2c_dw_init_master(h) ==
  {[g EXCEPT !.scl = i2c_dw_set_timings_master] : g \in dw_disable(h)}

\* i2c_recover_bus with a GPIO for SCL: the controller is reset, the clock
\* line is toggled until SDA is free, and the controller is set up again.
i2c_dw_prepare_recovery(h) ==
  {[g EXCEPT !.scl = Unset, !.busy = FALSE] : g \in i2c_dw_disable(h)}
i2c_dw_unprepare_recovery(h) == i2c_dw_init_master(h)
\* Without a GPIO, or when SDA stays low, the bus is as busy as before.
i2c_recover_bus(h) ==
  {h} \cup UNION {i2c_dw_unprepare_recovery(g) : g \in i2c_dw_prepare_recovery(h)}

-----------------------------------------------------------------------------
(* i2c_dw_xfer. *)

NoIsr == isr = {"none"}

\* A client asks for a transfer.  pm_runtime_get_sync resumes a controller in
\* runtime suspend, but not while the system sleeps.
xfer(job) ==
  /\ pc = "idle" /\ NoIsr /\ ~asleep
  /\ dev' = [Idle EXCEPT !.msgs = job]
  /\ pc' = "bus" /\ ret' = "none"
  /\ wire' = <<>> /\ got' = [m \in 1..MaxMsgs |-> 0]
  /\ UNCHANGED <<hw, isr, asleep>>

xfer_suspended ==
  /\ pc = "idle" /\ NoIsr /\ asleep
  /\ ret' = "ESHUTDOWN"
  /\ UNCHANGED <<dev, hw, pc, isr, wire, got, asleep>>

\* A bus that is busy for 20 ms is recovered once and looked at again.
i2c_dw_wait_bus_not_busy ==
  /\ pc = "bus" /\ NoIsr
  /\ \E h \in IF hw.busy THEN i2c_recover_bus(hw) ELSE {hw} :
       /\ hw' = h
       /\ IF h.busy THEN /\ ret' = "ETIMEDOUT" /\ pc' = "idle"
          ELSE /\ pc' = "setup" /\ UNCHANGED ret
  /\ UNCHANGED <<dev, isr, wire, got, asleep>>

\* i2c_dw_xfer_init in two steps: up to the enable, then CLR_INTR and the mask
xfer_init ==
  /\ pc = "setup" /\ NoIsr
  /\ \E h \in dw_disable(hw) : hw' = [h EXCEPT !.mask = {}, !.on = TRUE]
  /\ pc' = "clear"
  /\ UNCHANGED <<dev, isr, wire, got, ret, asleep>>

xfer_unmask ==
  /\ pc = "clear" /\ NoIsr
  /\ hw' = [hw EXCEPT !.raw = {}, !.src = "none", !.mask = MASTER_MASK]
  /\ pc' = "wait"
  /\ UNCHANGED <<dev, isr, wire, got, ret, asleep>>

\* wait_for_completion_timeout gives up; the controller goes on, and its
\* interrupts with it, until it is disabled.
xfer_timeout ==
  /\ pc = "wait" /\ NoIsr /\ ~dev.done
  /\ pc' = "late"
  /\ UNCHANGED <<dev, hw, isr, wire, got, ret, asleep>>
xfer_recover ==
  /\ pc = "late" /\ NoIsr
  /\ \E g \in i2c_recover_bus(hw) : \E h \in i2c_dw_init_master(g) : hw' = h
  /\ ret' = "ETIMEDOUT" /\ pc' = "idle"
  /\ UNCHANGED <<dev, isr, wire, got, asleep>>

i2c_dw_handle_tx_abort ==
  CASE dev.abrt = "noack" -> "EREMOTEIO"
    [] dev.abrt = "arblost" -> "EAGAIN"
    [] OTHER -> "EIO"

Result ==
  CASE dev.msgErr -> "EINVAL"
    [] ~dev.msgErr /\ ~dev.cmdErr /\ dev.status = {} -> "num"
    [] ~dev.msgErr /\ dev.cmdErr -> i2c_dw_handle_tx_abort
    [] OTHER -> "EIO"

(* Mutated form: the controller stays enabled after the transfer *)
xfer_finish_Enabled ==
  /\ pc = "wait" /\ NoIsr /\ dev.done
  /\ ret' = Result /\ pc' = "idle"
  /\ UNCHANGED <<dev, hw, isr, wire, got, asleep>>

xfer_finish ==
  /\ pc = "wait" /\ NoIsr /\ dev.done
  /\ hw' = dw_disable_nowait(hw)
  /\ ret' = Result /\ pc' = "idle"
  /\ UNCHANGED <<dev, isr, wire, got, asleep>>

-----------------------------------------------------------------------------
(* The interrupt handler. *)

\* The DATA_CMD writes of k bytes of message m, of which left are to go.
Cmds(msg, m, num, k, left, new) ==
  [i \in 1..k |-> [m |-> m, rd |-> msg.rd, pec |-> msg.pec,
                   len |-> msg.recv /\ new /\ i = 1,
                   restart |-> new /\ m > 1 /\ i = 1,
                   stop |-> m = num /\ i = left /\ ~msg.recv]]

\* How many bytes the inner loop of i2c_dw_xfer_msg may write.
Room(d, h, msg, left) ==
  Min({left, TxDepth - Len(h.tx), RxDepth - Len(h.rx)}
      \cup (IF msg.rd THEN {Max({0, RxDepth - d.rxout})} ELSE {}))

RECURSIVE i2c_dw_xfer_msg(_, _)
i2c_dw_xfer_msg(d, h) ==
  LET num == Len(d.msgs)
      m == d.wi
      msg == d.msgs[m]
      new == "W" \notin d.status
      left == IF new THEN msg.len ELSE d.txlen
      k == Room(d, h, msg, left)
      \* while TX_ABRT is not cleared the FIFO takes nothing
      tx == IF "TX_ABRT" \in h.raw THEN <<>>
            ELSE h.tx \o Cmds(msg, m, num, k, left, new)
      more == left > k \/ msg.recv
      d1 == [d EXCEPT !.txlen = left - k,
                      !.rxout = IF msg.rd THEN @ + k ELSE @,
                      !.status = IF more THEN @ \cup {"W"} ELSE @ \ {"W"}]
  IN  IF m > num THEN <<d, [h EXCEPT !.mask = MASTER_MASK \ {"TX_EMPTY"}]>>
      ELSE IF msg.addr # d.msgs[1].addr
        THEN <<[d EXCEPT !.msgErr = TRUE], [h EXCEPT !.mask = {}]>>
      ELSE IF more THEN <<d1, [h EXCEPT !.tx = tx, !.mask = MASTER_MASK]>>
      ELSE i2c_dw_xfer_msg([d1 EXCEPT !.wi = m + 1], [h EXCEPT !.tx = tx])

\* The length byte v of a block read replaces the length of the message.
i2c_dw_recv_len(d, v) ==
  LET len == v + (IF d.msgs[d.ri].pec THEN 2 ELSE 1)
  IN  [d EXCEPT !.txlen = len - Min({len, d.rxout}),
                !.msgs[d.ri].len = len, !.msgs[d.ri].recv = FALSE]

RECURSIVE i2c_dw_read(_, _, _)
i2c_dw_read(d, rx, g) ==
  IF d.ri > Len(d.msgs) THEN <<d, rx, g>>
  ELSE IF ~d.msgs[d.ri].rd THEN i2c_dw_read([d EXCEPT !.ri = @ + 1], rx, g)
  ELSE
    LET msg == d.msgs[d.ri]
        len0 == IF "R" \in d.status THEN d.rxlen ELSE msg.len
        block == msg.recv /\ rx # <<>> /\ rx[1].v \in 1..I2C_SMBUS_BLOCK_MAX
        d0 == IF block THEN i2c_dw_recv_len(d, rx[1].v) ELSE d
        len == IF block THEN d0.msgs[d.ri].len ELSE len0
        \* while the length is not known the bytes are looked at one by one
        n == Min({len, Len(rx), IF msg.recv THEN 1 ELSE len})
        d1 == [d0 EXCEPT !.rxout = @ - n]
        rest == SubSeq(rx, n + 1, Len(rx))
        \* a byte of another message in this buffer is not counted
        g1 == [g EXCEPT ![d.ri] =
                 @ + Cardinality({i \in 1..n : rx[i].m = d.ri})]
        part == [d1 EXCEPT !.status = @ \cup {"R"}, !.rxlen = len - n]
    IN  IF len > n
          THEN IF rest = <<>> THEN <<part, rest, g1>>
               ELSE i2c_dw_read(part, rest, g1)
        ELSE i2c_dw_read([d1 EXCEPT !.status = @ \ {"R"}, !.ri = @ + 1], rest, g1)

\* The latched bits that were reported are cleared one by one.
i2c_dw_read_clear_intrbits(h) ==
  [h EXCEPT !.raw = @ \ Stat, !.src = IF "TX_ABRT" \in Stat THEN "none" ELSE @]

\* The handler keeps TX_ABRT_SOURCE.  The line may be shared: the handler also
\* runs with nothing unmasked.
i2c_dw_isr ==
  /\ NoIsr /\ ~asleep
  /\ hw.on /\ Level # {}
  /\ (Stat # {} \/ pc = "clear")
  /\ isr' = Stat
  /\ dev' = IF "TX_ABRT" \in Stat THEN [dev EXCEPT !.abrt = hw.src] ELSE dev
  /\ hw' = i2c_dw_read_clear_intrbits(hw)
  /\ UNCHANGED <<pc, wire, got, ret, asleep>>

i2c_dw_irq_handler_master ==
  /\ ~NoIsr
  /\ LET abrt == "TX_ABRT" \in isr
         r == IF "RX_FULL" \in isr /\ ~abrt THEN i2c_dw_read(dev, hw.rx, got)
              ELSE <<dev, hw.rx, got>>
         h == [hw EXCEPT !.rx = r[2]]
         w == IF abrt THEN <<[r[1] EXCEPT !.cmdErr = TRUE, !.status = {}],
                             [h EXCEPT !.mask = {}]>>
              ELSE IF "TX_EMPTY" \in isr THEN i2c_dw_xfer_msg(r[1], h)
              ELSE <<r[1], h>>
     IN  /\ hw' = w[2]
         /\ got' = r[3]
         /\ dev' = [w[1] EXCEPT !.done = @ \/ abrt \/ "STOP_DET" \in isr
                                           \/ w[1].msgErr]
  /\ isr' = {"none"}
  /\ UNCHANGED <<pc, wire, ret, asleep>>

-----------------------------------------------------------------------------
(* Suspend and resume, and the controller and its bus. *)

dw_i2c_plat_suspend ==
  /\ pc = "idle" /\ NoIsr /\ ~asleep
  /\ \E h \in i2c_dw_disable(hw) : hw' = [h EXCEPT !.scl = Unset, !.busy = FALSE]
  /\ asleep' = TRUE
  /\ UNCHANGED <<dev, pc, isr, wire, got, ret>>

dw_i2c_plat_resume ==
  /\ asleep
  /\ \E h \in i2c_dw_init_master(hw) : hw' = h
  /\ asleep' = FALSE
  /\ UNCHANGED <<dev, pc, isr, wire, got, ret>>

\* The next command goes over the wire.
Execute ==
  /\ ~asleep /\ hw.on /\ hw.tx # <<>> /\ Len(hw.rx) < RxDepth + 1
  /\ \E v \in IF hw.tx[1].len THEN BlockLens[hw.tx[1].pec] ELSE {1} :
       LET c == hw.tx[1]
       IN  hw' = [hw EXCEPT !.tx = Tail(@), !.busy = ~c.stop,
                            !.raw = IF c.stop THEN @ \cup {"STOP_DET"} ELSE @,
                            !.rx = IF c.rd THEN Append(@, [m |-> c.m, v |-> v]) ELSE @]
  /\ wire' = Append(wire, [m |-> hw.tx[1].m, restart |-> hw.tx[1].restart, stop |-> hw.tx[1].stop,
                           zero |-> hw.tx[1].len /\ hw'.rx[Len(hw'.rx)].v = 0])
  /\ UNCHANGED <<dev, pc, isr, got, ret, asleep>>

\* With nothing to send in the middle of a transfer the controller stops it,
\* or holds the clock low.
Starve ==
  /\ ~asleep /\ hw.on /\ hw.busy /\ hw.tx = <<>> /\ ~Hold
  /\ hw' = [hw EXCEPT !.busy = FALSE, !.raw = @ \cup {"STOP_DET"}]
  /\ UNCHANGED <<dev, pc, isr, wire, got, ret, asleep>>

Abort ==
  /\ ~asleep /\ hw.on /\ hw.tx # <<>>
  /\ \E s \in {"noack", "arblost"} :
       hw' = [hw EXCEPT !.busy = FALSE, !.tx = <<>>, !.rx = <<>>, !.src = s,
                        !.raw = @ \cup {"TX_ABRT", "STOP_DET"}]
  /\ UNCHANGED <<dev, pc, isr, wire, got, ret, asleep>>

\* After a disable the transfer on the wire ends with a STOP of its own.
LateStop ==
  /\ ~asleep /\ hw.busy /\ ~hw.on
  /\ hw' = [hw EXCEPT !.busy = FALSE, !.raw = @ \cup {"STOP_DET"}]
  /\ UNCHANGED <<dev, pc, isr, wire, got, ret, asleep>>

I2cNext ==
  \/ \E job \in Jobs : xfer(job)
  \/ xfer_suspended \/ i2c_dw_wait_bus_not_busy \/ xfer_init \/ xfer_unmask
  \/ xfer_timeout \/ xfer_recover \/ xfer_finish
  \/ i2c_dw_isr \/ i2c_dw_irq_handler_master
  \/ dw_i2c_plat_suspend \/ dw_i2c_plat_resume
  \/ Execute \/ Starve \/ Abort \/ LateStop

-----------------------------------------------------------------------------
I2cTypeOK ==
  /\ dev.wi \in 1..(MaxMsgs + 1) /\ dev.ri \in 1..(MaxMsgs + 1)
  /\ dev.status \subseteq {"R", "W"} /\ dev.rxout \in Nat
  /\ hw.mask \subseteq MASTER_MASK /\ Len(hw.tx) <= TxDepth
  /\ hw.raw \subseteq MASTER_MASK
  /\ pc \in {"idle", "bus", "setup", "clear", "wait", "late"}

\* What the bus shows of a message sequence that was transferred.
Whole(msgs) ==
  LET num == Len(msgs)
      sum[m \in 0..num] == IF m = 0 THEN 0 ELSE sum[m - 1] + msgs[m].len
  IN  /\ Len(wire) = sum[num]
      /\ \A m \in 1..num : \A i \in (sum[m - 1] + 1)..sum[m] :
           /\ wire[i].m = m
           /\ wire[i].stop <=> i = sum[num]
           /\ wire[i].restart => (i = sum[m - 1] + 1 /\ m > 1)

\* A block read with PEC of length 0: the handler looks for a length again in
\* the byte that follows.
ZeroPec == \E i \in DOMAIN wire : wire[i].zero /\ dev.msgs[wire[i].m].pec

(* i2c_dw_xfer returns the number of messages only when the bus has seen every
   byte of every message once, in order and under one STOP, and each byte
   read is in the buffer of its message; the receive FIFO never overruns; the
   handler uses the messages only until the call has returned; and whenever
   the controller is enabled its clock registers hold the numbers for the bus
   frequency, after a recovery or a resume as well.  Block reads with PEC that
   the slave answers with length 0 are excepted from the first claim. *)
XferExact ==
  /\ (ret = "num" /\ ~ZeroPec) =>
                    /\ Whole(dev.msgs)
                    /\ \A m \in 1..Len(dev.msgs) :
                         dev.msgs[m].rd => got[m] = dev.msgs[m].len
  /\ Len(hw.rx) <= RxDepth
  /\ isr \cap {"RX_FULL", "TX_EMPTY"} # {} => pc \in {"wait", "late"}
  /\ hw.on => hw.scl = i2c_dw_set_timings_master

(* i2c_dw_xfer_msg sets the restart bit on the first byte of every message
   after the first, as its comment says it must. *)
RestartBetween ==
  \A i \in 2..Len(wire) : wire[i].m # wire[i - 1].m => wire[i].restart
=============================================================================
