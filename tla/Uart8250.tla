------------------------------ MODULE Uart8250 ------------------------------
(***************************************************************************)
(* One 8250 port as the DesignWare glue drives it (8250_port.c, 8250_dw.c, *)
(* 8250.h): the driver's copies of the registers, the registers, the       *)
(* characters on their way out, and what the receiver owes the tty.        *)
(*                                                                         *)
(* Every section under the port's lock is one step, since the lock also    *)
(* keeps interrupts off and there is one processor.  The interrupt handler *)
(* takes two: it reads IIR before it takes the lock, and the hardware may  *)
(* move in between.  The port is a 16550A without DMA, RS485, runtime PM   *)
(* or modem-control GPIOs, the only kind the source still contains, and    *)
(* its hardware asserts THRE again, so the backup timer never runs.        *)
(***************************************************************************)
EXTENDS Integers, Sequences

CONSTANTS
  MaxXmit,   \* bound: characters waiting in the circular buffer
  MaxRx,     \* bound: characters in the receive FIFO
  Words,     \* word lengths and parities asked for
  Bauds,     \* rates asked for
  Clocks,    \* rates of the reference clock
  TimeoutToo \* ErrorsKept speaks of breaks that come while the handler works
             \* on an RX TIMEOUT, too

VARIABLES
  up,      \* struct uart_8250_port, as far as it matters
  hw,      \* the registers and the FIFOs
  tty,     \* the serial core's side: the buffer, x_char, flow control, and
           \* the place in the buffer of a character we watch, 0 for none
  cpu,     \* "idle", or the IIR value the interrupt handler has read
  owed,    \* {"BI"} while a break was received that nobody counted yet
  garbled  \* when console output left with a wrong divisor or line setting:
           \* the values of up.sleep, or "gave up" after a write to LCR did

uartVars == <<up, hw, tty, cpu, owed, garbled>>

-----------------------------------------------------------------------------
(* Rates *)

UART_DIV_MAX == 65535
DIV_ROUND_CLOSEST(a, b) == (a + b \div 2) \div b
serial8250_get_baud_rate(clk, baud) ==
  LET min == (clk \div 16) \div UART_DIV_MAX
      max == (clk + clk \div 100) \div 16
  IN  IF baud < min THEN min + 1 ELSE IF baud > max THEN max - 1 ELSE baud
serial8250_get_divisor(clk, baud) == DIV_ROUND_CLOSEST(clk, 16 * baud)
Quot(clk, baud) == serial8250_get_divisor(clk, serial8250_get_baud_rate(clk, baud))

-----------------------------------------------------------------------------
(* Registers *)

WLEN8 == "8"
Line(w) == [word |-> w, sbc |-> FALSE, dlab |-> FALSE]

(* The error bits a read of LSR returns; the read clears them. *)
Errors(h) == {e \in {"BI"} : h.rx # <<>> /\ Head(h.rx) = "brk"}
ReadLsr(h) == [h EXCEPT !.rx = IF @ = <<>> THEN @ ELSE <<"ok">> \o Tail(@)]
AllErrors(h) == {e \in {"BI"} : \E i \in DOMAIN h.rx : h.rx[i] = "brk"}
ReadRx(h) == [h EXCEPT !.rx = IF @ = <<>> THEN @ ELSE Tail(@)]

(* A slow character stays in the shift register.                          *)
serial8250_clear_fifos(h) == [h EXCEPT !.tx = IF h.slow THEN 1 ELSE 0, !.rx = <<>>, !.fifo = FALSE]
dw8250_force_idle(h) == ReadRx([serial8250_clear_fifos(h) EXCEPT !.fifo = TRUE])

dw8250_check_lcr(h, v) ==
  IF h.lcr = v THEN h
  ELSE IF h.slow THEN [dw8250_force_idle(h) EXCEPT !.gaveup = TRUE]
  ELSE [dw8250_force_idle(h) EXCEPT !.lcr = v]
dw8250_serial_out32(h, v) ==
  dw8250_check_lcr(IF h.tx > 0 THEN [h EXCEPT !.usr = TRUE] ELSE [h EXCEPT !.lcr = v], v)

(* The divisor latch hides behind DLAB: without it the two writes reach    *)
(* the transmitter and IER.                                                *)
default_serial_dl_write(h, quot) ==
  IF h.lcr.dlab THEN [h EXCEPT !.dl = quot % 65536]
  ELSE [h EXCEPT !.tx = @ + 1, !.ier = {}]
serial8250_do_set_divisor(h, lcr, quot) ==
  default_serial_dl_write(dw8250_serial_out32(h, [lcr EXCEPT !.dlab = TRUE]), quot)
SetDivisor(h, lcr, quot) == dw8250_serial_out32(serial8250_do_set_divisor(h, lcr, quot), lcr)

(* IIR: the source of highest priority that IER lets through. *)
Iir(h) ==
  IF "RLSI" \in h.ier /\ Errors(h) # {} THEN "rls"
  ELSE IF "RDI" \in h.ier /\ h.rx # <<>> THEN "rda"
  ELSE IF "THRI" \in h.ier /\ h.tx = 0 THEN "thr"
  ELSE IF "MSI" \in h.ier /\ h.delta THEN "msi"
  ELSE IF h.usr THEN "busy" ELSE "none"

-----------------------------------------------------------------------------
UartTypeOK ==
  /\ up \in [state : {"closed", "started", "open"}, ier : SUBSET {"RLSI", "RDI", "THRI", "MSI"},
             lcr : [word : Words, sbc : BOOLEAN, dlab : {FALSE}],
             baud : Bauds, clk : Clocks, lsr : SUBSET {"BI"},
             canary : BOOLEAN, sleep : {"no", "asleep", "resuming"}]
  /\ hw.ier \subseteq {"RLSI", "RDI", "THRI", "MSI"} /\ hw.tx \in 0..2
  /\ (hw.slow => hw.tx > 0) /\ hw.gaveup \in BOOLEAN
  /\ Len(hw.rx) <= MaxRx /\ hw.dl \in 0..65535
  /\ tty \in [xmit : 0..MaxXmit, mark : 0..MaxXmit, xchar : BOOLEAN, stopped : BOOLEAN]
  /\ cpu \in {"idle", "rls", "rda", "timeout", "thr", "msi", "busy"}
  /\ owed \subseteq {"BI"} /\ garbled \subseteq {"no", "asleep", "resuming", "gave up"}

(* serial8250_config_port has found a 16550A (autoconfig) and the console  *)
(* set-up has programmed it (serial8250_console_setup).                    *)
UartInit ==
  \E b \in Bauds, c \in Clocks :
    /\ up = [state |-> "closed", ier |-> {}, lcr |-> Line(WLEN8), baud |-> b, clk |-> c,
             lsr |-> {}, canary |-> FALSE, sleep |-> "no"]
    /\ hw = [ier |-> {}, lcr |-> Line(WLEN8), dl |-> Quot(c, b), fifo |-> TRUE, tx |-> 0,
             rx |-> <<>>, delta |-> FALSE, usr |-> FALSE, scr |-> FALSE,
             slow |-> FALSE, gaveup |-> FALSE]
    /\ tty = [xmit |-> 0, mark |-> 0, xchar |-> FALSE, stopped |-> FALSE]
    /\ cpu = "idle" /\ owed = {} /\ garbled = {}

Idle == cpu = "idle"
On == up.sleep = "no"

-----------------------------------------------------------------------------
(* Starting and stopping the transmitter *)

SetThri(u, h) == [u |-> [u EXCEPT !.ier = @ \cup {"THRI"}],
                  h |-> IF "THRI" \in u.ier THEN h
                        ELSE [h EXCEPT !.ier = u.ier \cup {"THRI"}]]
ClearThri(u, h) == [u |-> [u EXCEPT !.ier = @ \ {"THRI"}],
                    h |-> IF "THRI" \notin u.ier THEN h
                          ELSE [h EXCEPT !.ier = u.ier \ {"THRI"}]]

(* uart_write and uart_start: a character into the buffer, then start_tx.  *)
serial8250_start_tx ==
  /\ Idle /\ On /\ up.state = "open" /\ tty.xmit < MaxXmit
  /\ \E watch \in BOOLEAN :
       tty' = [tty EXCEPT !.xmit = @ + 1,
                          !.mark = IF watch /\ @ = 0 THEN tty.xmit + 1 ELSE @]
  /\ LET r == SetThri(up, hw)
     IN  IF tty.stopped THEN UNCHANGED <<up, hw>> ELSE up' = r.u /\ hw' = r.h
  /\ UNCHANGED <<cpu, owed, garbled>>

(* uart_send_xchar: x_char goes out even while the tty is stopped. *)
serial8250_send_xchar ==
  /\ Idle /\ On /\ up.state = "open" /\ ~tty.xchar
  /\ tty' = [tty EXCEPT !.xchar = TRUE]
  /\ up' = SetThri(up, hw).u /\ hw' = SetThri(up, hw).h
  /\ UNCHANGED <<cpu, owed, garbled>>

serial8250_stop_tx ==
  /\ Idle /\ On /\ up.state = "open" /\ ~tty.stopped
  /\ tty' = [tty EXCEPT !.stopped = TRUE]
  /\ up' = ClearThri(up, hw).u /\ hw' = ClearThri(up, hw).h
  /\ UNCHANGED <<cpu, owed, garbled>>

(* uart_start after flow control let go. *)
Restart ==
  /\ Idle /\ On /\ up.state = "open" /\ tty.stopped
  /\ tty' = [tty EXCEPT !.stopped = FALSE]
  /\ LET r == SetThri(up, hw)
     IN  IF tty.xmit = 0 THEN UNCHANGED <<up, hw>> ELSE up' = r.u /\ hw' = r.h
  /\ UNCHANGED <<cpu, owed, garbled>>

(* serial8250_tx_chars with tx_loadsz 1. *)
serial8250_tx_chars(u, h) ==
  LET stop == ClearThri(u, h)
      put == [h EXCEPT !.tx = @ + 1]
      last == ClearThri(u, put)
  IN  IF tty.xchar THEN [u |-> u, h |-> put, t |-> [tty EXCEPT !.xchar = FALSE]]
      ELSE IF tty.stopped \/ tty.xmit = 0 THEN [u |-> stop.u, h |-> stop.h, t |-> tty]
      ELSE [u |-> IF tty.xmit = 1 THEN last.u ELSE u,
            h |-> IF tty.xmit = 1 THEN last.h ELSE put,
            t |-> [tty EXCEPT !.xmit = @ - 1, !.mark = IF @ = 0 THEN 0 ELSE @ - 1]]

-----------------------------------------------------------------------------
(* The interrupt *)

ReadIir ==
  /\ Idle /\ On /\ up.state # "closed"
  /\ \/ Iir(hw) # "none" /\ cpu' = Iir(hw)
     \/ "RDI" \in hw.ier /\ hw.rx = <<>> /\ cpu' = "timeout"
  /\ UNCHANGED <<up, hw, tty, owed, garbled>>

(* Designware UARTs may also raise RX TIMEOUT with an empty FIFO, for as   *)
(* long as nobody reads RX.  dw8250_handle_irq looks at LSR and, without  *)
(* data, reads RX, before it calls serial8250_handle_irq.                  *)
BogusRead(h) == IF cpu = "timeout" THEN ReadLsr(h) ELSE h

(* serial8250_rx_chars empties the FIFO and counts every error. *)
serial8250_rx_chars(h) == [h EXCEPT !.rx = <<>>]
serial8250_modem_status(h) == [h EXCEPT !.delta = FALSE]

(* The errors read_char meets: those of this LSR, those saved before. *)
serial8250_handle_irq ==
  LET g == BogusRead(hw)
      rx == g.rx # <<>>
      r == IF rx THEN serial8250_rx_chars(g) ELSE ReadLsr(g)
      u == [up EXCEPT !.lsr = IF rx THEN {} ELSE @]
      h == serial8250_modem_status(r)
      x == IF h.tx = 0 /\ "THRI" \in u.ier THEN serial8250_tx_chars(u, h)
           ELSE [u |-> u, h |-> h, t |-> tty]
  IN  /\ up' = x.u /\ hw' = x.h /\ tty' = x.t
      /\ owed' = IF rx THEN owed \ (up.lsr \cup AllErrors(g)) ELSE owed

dw8250_handle_irq ==
  /\ cpu # "idle" /\ cpu' = "idle"
  /\ IF cpu = "busy" THEN hw' = [hw EXCEPT !.usr = FALSE] /\ UNCHANGED <<up, tty, owed>>
     ELSE serial8250_handle_irq
  /\ UNCHANGED garbled

-----------------------------------------------------------------------------
(* Operations of the serial core *)

(* Readers of LSR that are not the receiver keep its error bits. *)
serial8250_tx_empty ==
  /\ Idle /\ up.state = "open" /\ On
  /\ up' = [up EXCEPT !.lsr = @ \cup Errors(hw)]
  /\ hw' = ReadLsr(hw)
  /\ UNCHANGED <<tty, cpu, owed, garbled>>

serial8250_get_mctrl ==
  /\ Idle /\ up.state = "open" /\ On
  /\ hw' = serial8250_modem_status(hw)
  /\ UNCHANGED <<up, tty, cpu, owed, garbled>>

serial8250_stop_rx ==
  /\ Idle /\ up.state = "open" /\ On
  /\ up' = [up EXCEPT !.ier = @ \ {"RLSI", "RDI"}]
  /\ hw' = [hw EXCEPT !.ier = up.ier \ {"RLSI", "RDI"}]
  /\ UNCHANGED <<tty, cpu, owed, garbled>>

(* enable_ms, disable_ms, and set_ldisc that chooses between them. *)
serial8250_do_set_ldisc(ms) ==
  /\ Idle /\ up.state = "open" /\ On
  /\ LET i == IF ms THEN up.ier \cup {"MSI"} ELSE up.ier \ {"MSI"}
     IN  up' = [up EXCEPT !.ier = i] /\ hw' = [hw EXCEPT !.ier = i]
  /\ UNCHANGED <<tty, cpu, owed, garbled>>

serial8250_break_ctl(on) ==
  /\ Idle /\ up.state = "open" /\ On
  /\ LET l == [up.lcr EXCEPT !.sbc = on]
     IN  up' = [up EXCEPT !.lcr = l] /\ hw' = dw8250_serial_out32(hw, l)
  /\ owed' = owed \ (AllErrors(hw) \ AllErrors(hw'))
  /\ UNCHANGED <<tty, cpu, garbled>>

(* do_set_rxtrig: the FIFOs are cleared and enabled again. *)
do_set_rxtrig ==
  /\ Idle /\ up.state = "open" /\ On
  /\ hw' = [serial8250_clear_fifos(hw) EXCEPT !.fifo = TRUE]
  /\ owed' = owed \ AllErrors(hw)
  /\ UNCHANGED <<up, tty, cpu, garbled>>

(* The part of serial8250_do_set_termios under the lock, and the read of   *)
(* RX after it.  A UART whose FIFO was off gets it cleared.                *)
Program(u, h, word, ms, b) ==
  LET l == Line(word)
      i == IF ms THEN u.ier \cup {"MSI"} ELSE u.ier \ {"MSI"}
      d == SetDivisor([h EXCEPT !.ier = i, !.gaveup = FALSE], l, Quot(u.clk, b))
  IN  [u |-> [u EXCEPT !.lcr = l, !.ier = i, !.baud = b],
       h |-> ReadRx(IF h.fifo THEN d
                    ELSE [serial8250_clear_fifos(d) EXCEPT !.fifo = TRUE])]
serial8250_do_set_termios(word, ms, b) ==
  /\ Idle /\ up.state # "closed" /\ On
  /\ LET p == Program(up, hw, word, ms, b)
     IN  up' = [p.u EXCEPT !.state = "open"] /\ hw' = p.h
  /\ owed' = owed \ (AllErrors(hw) \ AllErrors(hw'))
  /\ UNCHANGED <<tty, cpu, garbled>>

(* On an open port; nothing in the source calls it on a closed one. *)
serial8250_update_uartclk(c) ==
  /\ Idle /\ On /\ c # up.clk /\ up.state = "open"
  /\ up' = [up EXCEPT !.clk = c]
  /\ hw' = SetDivisor(hw, up.lcr, Quot(c, up.baud))
  /\ owed' = owed \ (AllErrors(hw) \ AllErrors(hw'))
  /\ UNCHANGED <<tty, cpu, garbled>>

-----------------------------------------------------------------------------
(* Opening and closing *)

(* The FIFOs off, every status register read, the tests of the interrupt   *)
(* of the transmitter, the saved bits dropped.                             *)
serial8250_do_startup ==
  /\ Idle /\ On /\ up.state = "closed"
  /\ up' = [up EXCEPT !.state = "started", !.ier = {"RLSI", "RDI"}, !.lsr = {}]
  /\ hw' = [ReadRx(dw8250_serial_out32(serial8250_clear_fifos(hw), Line(WLEN8)))
              EXCEPT !.ier = {}, !.delta = FALSE]
  /\ owed' = {}
  /\ UNCHANGED <<tty, cpu, garbled>>

(* uart_shutdown has emptied the buffer; the interrupt cannot be running   *)
(* after synchronize_irq, and IER is 0.                                    *)
serial8250_do_shutdown ==
  /\ Idle /\ On /\ up.state # "closed"
  /\ up' = [up EXCEPT !.state = "closed", !.ier = {}]
  /\ hw' = ReadRx(serial8250_clear_fifos(
             dw8250_serial_out32([hw EXCEPT !.ier = {}], [hw.lcr EXCEPT !.sbc = FALSE])))
  /\ tty' = [xmit |-> 0, mark |-> 0, xchar |-> FALSE, stopped |-> FALSE]
  /\ owed' = {}
  /\ UNCHANGED <<cpu, garbled>>

-----------------------------------------------------------------------------
(* The console *)

(* serial8250_console_write: IER is saved from the register and put back;  *)
(* a lost canary means the power was off.                                  *)
serial8250_console_restore(h) ==
  SetDivisor(h, up.lcr, Quot(up.clk, up.baud))
Silent(h) == [h EXCEPT !.ier = {}]
(* Mutated form: IER is put back from memory, without the transmitter. *)
serial8250_console_write_Shadow ==
  /\ Idle
  /\ up' = [up EXCEPT !.lsr = @ \cup Errors(hw)]
  /\ hw' = [ReadLsr(hw) EXCEPT !.tx = 0, !.ier = up.ier \ {"THRI"}]
  /\ UNCHANGED <<tty, cpu, owed, garbled>>
serial8250_console_write ==
  LET lost == up.canary /\ ~hw.scr
      h == IF lost THEN serial8250_console_restore(Silent(hw)) ELSE Silent(hw)
      good == h.dl = Quot(up.clk, up.baud) /\ ~h.lcr.dlab
  IN  /\ Idle
      /\ garbled' = IF good THEN garbled ELSE garbled \cup {IF h.gaveup THEN "gave up" ELSE up.sleep}
      /\ up' = [up EXCEPT !.lsr = @ \cup Errors(h),
                          !.canary = @ /\ ~lost]
      /\ hw' = [ReadLsr(h) EXCEPT !.tx = 0, !.slow = FALSE, !.ier = hw.ier]
      /\ owed' = owed \ (AllErrors(hw) \ AllErrors(h))
      /\ UNCHANGED <<tty, cpu>>

(* no_console_suspend: the scratch register is marked; uart_suspend_port   *)
(* then leaves a console alone.                                            *)
serial8250_suspend_port ==
  /\ Idle /\ On /\ up.state = "open"
  /\ up' = [up EXCEPT !.canary = TRUE, !.sleep = "asleep"]
  /\ hw' = [hw EXCEPT !.scr = TRUE]
  /\ UNCHANGED <<tty, cpu, owed, garbled>>
(* The resume forgets the canary, then programs the port again.            *)
serial8250_resume_port ==
  /\ Idle
  /\ \/ /\ up.sleep = "asleep"
        /\ up' = [up EXCEPT !.canary = FALSE, !.sleep = "resuming"]
        /\ UNCHANGED <<hw, owed>>
     \/ /\ up.sleep = "resuming"
        /\ LET p == Program(up, hw, up.lcr.word, "MSI" \in up.ier, up.baud)
           IN  up' = [p.u EXCEPT !.sleep = "no"] /\ hw' = p.h
        /\ owed' = owed \ (AllErrors(hw) \ AllErrors(hw'))
  /\ UNCHANGED <<tty, cpu, garbled>>

-----------------------------------------------------------------------------
(* The hardware *)

Shift == hw.tx > 0 /\ hw' = [hw EXCEPT !.tx = 0, !.slow = FALSE] /\ UNCHANGED <<up, tty, cpu, owed, garbled>>
(* The rate is so low that a character outlasts the tries.                 *)
Slow == hw.tx > 0 /\ ~hw.slow /\ hw' = [hw EXCEPT !.slow = TRUE] /\ UNCHANGED <<up, tty, cpu, owed, garbled>>
Receive(c) ==
  /\ On /\ up.state = "open" /\ Len(hw.rx) < MaxRx
  /\ hw' = [hw EXCEPT !.rx = Append(@, c)]
  /\ owed' = owed \cup {e \in {"BI"} : c = "brk" /\ (cpu # "timeout" \/ TimeoutToo)}
  /\ UNCHANGED <<up, tty, cpu, garbled>>
ModemDelta == On /\ ~hw.delta /\ hw' = [hw EXCEPT !.delta = TRUE] /\ UNCHANGED <<up, tty, cpu, owed, garbled>>
PowerLoss ==
  /\ up.sleep = "asleep" /\ Idle /\ hw.scr
  /\ hw' = [hw EXCEPT !.ier = {}, !.dl = 0, !.lcr = Line("5"), !.fifo = FALSE, !.tx = 0, !.rx = <<>>,
                      !.scr = FALSE, !.usr = FALSE, !.slow = FALSE]
  /\ owed' = {} /\ up' = [up EXCEPT !.lsr = {}]
  /\ UNCHANGED <<tty, cpu, garbled>>

UartNext ==
  \/ serial8250_start_tx \/ serial8250_send_xchar \/ serial8250_stop_tx \/ Restart
  \/ ReadIir \/ dw8250_handle_irq
  \/ serial8250_tx_empty \/ serial8250_get_mctrl \/ serial8250_stop_rx \/ do_set_rxtrig
  \/ \E ms \in BOOLEAN : serial8250_do_set_ldisc(ms) \/ serial8250_break_ctl(ms)
  \/ \E w \in Words, ms \in BOOLEAN, b \in Bauds : serial8250_do_set_termios(w, ms, b)
  \/ \E c \in Clocks : serial8250_update_uartclk(c)
  \/ serial8250_do_startup \/ serial8250_do_shutdown
  \/ serial8250_console_write \/ serial8250_suspend_port \/ serial8250_resume_port
  \/ Shift \/ Slow \/ \E c \in {"ok", "brk"} : Receive(c)
  \/ ModemDelta \/ PowerLoss

UartProgress == ReadIir \/ dw8250_handle_irq \/ Shift

-----------------------------------------------------------------------------
(* While the port is open and awake, IER, LCR and the divisor latch hold   *)
(* what the driver last decided: a write to LCR on a busy UART is repeated *)
(* until it lands, so no divisor byte went to the transmitter or to IER,   *)
(* and whoever silenced IER (the console, a restore) put it back.  Console *)
(* output never left with another divisor, power lost in suspend included. *)
(* Two exceptions: after a write of LCR gave up, until the port is         *)
(* programmed again; and output between the two steps of a resume, when    *)
(* the canary is cleared and the port not yet programmed.                  *)
RegistersKept ==
  /\ (up.state = "open" /\ On /\ ~hw.gaveup) => /\ hw.ier = up.ier /\ hw.lcr = up.lcr
                                                /\ hw.dl = Quot(up.clk, up.baud)
  /\ garbled \subseteq {"resuming", "gave up"}

(* Reading LSR clears the break bit, and five callers read it: outside the *)
(* handler, a break that was received and that no read_char has counted is *)
(* still in the FIFO or among the saved flags.                             *)
ErrorsKept == Idle => owed \subseteq (up.lsr \cup AllErrors(hw))

(* What user space wrote reaches the transmitter unless the tty is stopped *)
(* or keeps sending flow-control characters, or the port is closed or      *)
(* suspended, or a write of LCR gave up, which may clear IER: THRI is on   *)
(* in the register whenever it must be.                                    *)
Written == up.state = "open" /\ On /\ ~hw.gaveup /\ tty.mark > 0 /\ ~tty.stopped
Drained == tty.mark = 0 \/ tty.stopped \/ tty.xchar \/ up.state # "open" \/ ~On \/ hw.gaveup
Transmits == Written ~> Drained

=============================================================================
