----------------------------- MODULE I2cSlave -----------------------------
(***************************************************************************)
(* The DesignWare controller as an I2C slave (i2c-designware-slave.c) with *)
(* the EEPROM simulator behind it (i2c-slave-eeprom.c), against a remote   *)
(* master and a reference EEPROM.                                          *)
(*                                                                         *)
(* The controller queues what the master writes and latches STOP_DET; it   *)
(* stretches the clock only for a full FIFO and for a read.  So the master *)
(* may be in its next transfer when the handler looks at the last one; the *)
(* handler cannot tell where a write that began that early starts.         *)
(* buffer_idx is kept modulo the size, which is how it is used.            *)
(***************************************************************************)
EXTENDS Integers, Sequences

CONSTANTS
  Size,       \* of the EEPROM, address_mask + 1
  AddrBytes,  \* num_address_bytes
  ReadOnly,   \* read_only
  Depth       \* of the receive FIFO

VARIABLES
  dv,    \* dev: slave set, status, interrupts unmasked, suspended
  rx,    \* the receive FIFO
  stat,  \* latched STOP_DET and RD_REQ
  txd,   \* a byte for the master is in DATA_CMD
  bus,   \* what the master is doing
  ee,    \* struct eeprom_data
  ref,   \* the reference EEPROM: memory, pointer, address bytes seen, and
         \* whether a write has begun before the handler saw the last one end
  wrong  \* the master was given a byte the reference would not give

slaveVars == <<dv, rx, stat, txd, bus, ee, ref, wrong>>

Bytes == 0..(Size - 1)
Fill == [a \in 0..(Size - 1) |-> Size - 1]
i2c_slave_eeprom_probe == [idx |-> 0, cnt |-> 0, buf |-> Fill]

(* i2c_dw_probe_slave: dev->init has unmasked the interrupts, nothing is
   registered and the controller is not enabled. *)
SlaveInit ==
  /\ dv = [slave |-> FALSE, status |-> {}, mask |-> TRUE, asleep |-> FALSE]
  /\ rx = <<>> /\ stat = {} /\ txd = FALSE /\ bus = "idle"
  /\ ee = i2c_slave_eeprom_probe /\ ref = [mem |-> Fill, ptr |-> 0, seen |-> 0, lost |-> FALSE] /\ wrong = FALSE

-----------------------------------------------------------------------------
(* The EEPROM: its state after an event with the byte v, and what it answers. *)

Received(e, v) ==
  IF e.cnt < AddrBytes
    THEN [e EXCEPT !.idx = (v + 256 * (IF e.cnt = 0 THEN 0 ELSE e.idx)) % Size,
                   !.cnt = @ + 1]
  ELSE IF ReadOnly THEN e
  ELSE [e EXCEPT !.buf[e.idx] = v, !.idx = (@ + 1) % Size]

Processed(e) == [e EXCEPT !.idx = (@ + 1) % Size]
Answer(e) == e.buf[e.idx]
Reset(e) == [e EXCEPT !.cnt = 0]

RECURSIVE Drain(_, _)
Drain(e, bytes) ==
  IF bytes = <<>> THEN e ELSE Drain(Received(e, bytes[1]), Tail(bytes))

-----------------------------------------------------------------------------
\* The set-up of the controller unmasks the interrupts.
i2c_dw_init_slave(d) == [d EXCEPT !.mask = TRUE]

\* pm_runtime_get_sync sets up a controller that was suspended, and no other.
dw_i2c_plat_resume(d) ==
  IF d.asleep THEN [i2c_dw_init_slave(d) EXCEPT !.asleep = FALSE] ELSE d

(* Registered again before the controller has suspended, a slave finds the
   interrupts masked as i2c_dw_unreg_slave left them, and hears nothing. *)
i2c_dw_reg_slave ==
  /\ ~dv.slave
  /\ dv' = [dw_i2c_plat_resume(dv) EXCEPT !.slave = TRUE, !.status = {}]
  /\ ee' = i2c_slave_eeprom_probe /\ ref' = [mem |-> Fill, ptr |-> 0, seen |-> 0, lost |-> FALSE]
  /\ wrong' = FALSE
  /\ UNCHANGED <<rx, stat, txd, bus>>

(* A removed eeprom: interrupts masked, controller off, handler done *)
i2c_dw_unreg_slave ==
  /\ dv.slave
  /\ dv' = [dv EXCEPT !.slave = FALSE, !.mask = FALSE]
  /\ rx' = <<>> /\ stat' = {} /\ txd' = FALSE /\ bus' = "idle"
  /\ UNCHANGED <<ee, ref, wrong>>

dw_i2c_plat_suspend ==
  /\ ~dv.slave /\ ~dv.asleep
  /\ dv' = [dv EXCEPT !.asleep = TRUE, !.mask = FALSE]
  /\ UNCHANGED <<rx, stat, txd, bus, ee, ref, wrong>>

(* dev->status after an interrupt: a STOP does not end it *)
NextStatus(s, read) == IF read THEN {"R"} ELSE s

(* RD_REQ is cleared only while the slave is active on the bus, the other
   bits are cleared as they are read. *)
i2c_dw_read_clear_intrbits_slave(read) == IF read THEN {} ELSE stat \ {"STOP_DET"}

(* The handler: all received bytes first, then a read request, then the STOP. *)
i2c_dw_irq_handler_slave ==
  /\ dv.slave /\ dv.mask /\ (rx # <<>> \/ stat # {})
  /\ LET write == rx # <<>>
         s1 == IF write THEN {"W"} ELSE dv.status
         e1 == IF write
                 THEN Drain(IF "W" \in dv.status THEN ee ELSE Reset(ee), rx)
                 ELSE ee
         read == "RD_REQ" \in stat /\ bus # "idle"
         e2 == IF read /\ "R" \in s1 THEN Processed(e1) ELSE e1
     IN  /\ ee' = IF "STOP_DET" \in stat THEN Reset(e2) ELSE e2
         /\ dv' = [dv EXCEPT !.status = NextStatus(s1, read)]
         /\ wrong' = (wrong \/ (read /\ Answer(e2) # ref.mem[ref.ptr]))
         /\ txd' = (txd \/ read)
         /\ stat' = i2c_dw_read_clear_intrbits_slave(read)
  /\ rx' = <<>>
  /\ UNCHANGED <<bus, ref>>

(* A user writes the slave-eeprom file: taken when no received byte waits, so
   that the reference sees the two writers in the same order. *)
i2c_slave_eeprom_bin_write(a, v) ==
  /\ dv.slave /\ rx = <<>>
  /\ ee' = [ee EXCEPT !.buf[a] = v]
  /\ ref' = [ref EXCEPT !.mem[a] = v]
  /\ UNCHANGED <<dv, rx, stat, txd, bus, wrong>>

-----------------------------------------------------------------------------
(* The remote master. *)

MasterStart(dir) ==
  /\ dv.slave
  /\ bus \in {"idle", "w"} /\ bus' = dir
  /\ stat' = IF dir = "r" THEN stat \cup {"RD_REQ"} ELSE stat
  /\ ref' = [ref EXCEPT !.seen = 0,
                        !.lost = @ \/ (dir = "w" /\ (bus = "w" \/ "STOP_DET" \in stat))]
  /\ UNCHANGED <<dv, rx, txd, ee, wrong>>

MasterWrite(b) ==
  /\ bus = "w" /\ Len(rx) < Depth
  /\ rx' = Append(rx, b)
  /\ ref' = IF ref.seen < AddrBytes
              THEN [ref EXCEPT !.ptr = (b + 256 * (IF ref.seen = 0 THEN 0 ELSE @)) % Size,
                               !.seen = @ + 1]
            ELSE IF ReadOnly THEN ref
            ELSE [ref EXCEPT !.mem[ref.ptr] = b, !.ptr = (@ + 1) % Size]
  /\ UNCHANGED <<dv, stat, txd, bus, ee, wrong>>

(* The byte of a read is clocked out and asked for more, or is the last. *)
MasterRead(more) ==
  /\ bus = "r" /\ txd
  /\ txd' = FALSE
  /\ ref' = [ref EXCEPT !.ptr = (@ + 1) % Size]
  /\ bus' = IF more THEN "r" ELSE "end"
  /\ stat' = IF more THEN stat \cup {"RD_REQ"} ELSE stat
  /\ UNCHANGED <<dv, rx, ee, wrong>>

MasterStop ==
  /\ bus \in {"w", "end"}
  /\ bus' = "idle"
  /\ stat' = stat \cup {"STOP_DET"}
  /\ UNCHANGED <<dv, rx, txd, ee, ref, wrong>>

SlaveNext ==
  \/ i2c_dw_reg_slave \/ i2c_dw_unreg_slave \/ dw_i2c_plat_suspend
  \/ i2c_dw_irq_handler_slave
  \/ \E a, v \in Bytes : i2c_slave_eeprom_bin_write(a, v)
  \/ \E dir \in {"r", "w"} : MasterStart(dir)
  \/ \E b \in Bytes : MasterWrite(b)
  \/ \E more \in BOOLEAN : MasterRead(more)
  \/ MasterStop

-----------------------------------------------------------------------------
SlaveTypeOK ==
  /\ dv.status \in {{}, {"R"}, {"W"}} /\ stat \subseteq {"STOP_DET", "RD_REQ"}
  /\ Len(rx) <= Depth /\ bus \in {"idle", "w", "r", "end"}
  /\ ee \in [idx : Bytes, cnt : 0..AddrBytes, buf : [Bytes -> Bytes]]

(* The simulated EEPROM gives the remote master the bytes a real one would:
   an address write moves the pointer, data goes to consecutive addresses, a
   read without an address continues after the last byte; and once the handler
   has caught up the two memories are equal.  It holds until a write begins
   before the handler has seen the STOP of the last transfer, or without one:
   the address may then be stored as data, or data be taken for the address. *)
EepromExact ==
  ~ref.lost => /\ ~wrong
               /\ dv.slave /\ rx = <<>> => ee.buf = ref.mem
=============================================================================
