------------------------------- MODULE SpiDw -------------------------------
(***************************************************************************)
(* The DesignWare SPI controller (spi-dw.c, spi-dw.h) with the Realtek SSI *)
(* glue and its DMA engine (spi-dw-rts.c).                                 *)
(*                                                                         *)
(* The SPI core hands the driver one transfer at a time, waits for         *)
(* spi_finalize_current_transfer or gives up.  A word is known by the      *)
(* transfer it belongs to and its place in it, so that a word left in a    *)
(* FIFO by an earlier transfer is told from one of this transfer.  One     *)
(* CPU: a process does not run while an unmasked interrupt is pending.     *)
(***************************************************************************)
EXTENDS Integers, Sequences, FiniteSets, FiniteSetsExt

CONSTANTS
  FifoLen,    \* dws->fifo_len
  MaxFreq,    \* dws->max_freq
  Devs,       \* devices on the bus
  Modes,      \* how transfers are served: poll_mode, dma_mapped or neither
  Speeds,     \* transfer->speed_hz
  Lens,       \* transfer->len / n_bytes
  MaxXfers    \* bound on the number of transfers

VARIABLES
  dws,   \* struct dw_spi: progress of the transfer and the frequency
  chip,  \* chip_data of each device: speed_hz and clk_div
  hw,    \* the controller
  cur,   \* the transfer the SPI core waits for
  res,   \* how the last transfer ended
  took   \* the words this transfer put into its receive buffer

spiVars == <<dws, chip, hw, cur, res, took>>

NoXfer == [id |-> 0]

DIV_ROUND_UP(a, b) == (a + b - 1) \div b

\* The divider is even and is kept in a u16.
clk_div(speed) == (((DIV_ROUND_UP(MaxFreq, speed) + 1) \div 2) * 2) % 65536

-----------------------------------------------------------------------------
(* spi-dw.h *)

\* Turning SSIENR off clears both FIFOs.
spi_enable_chip(h, enable) ==
  IF enable THEN [h EXCEPT !.on = TRUE]
  ELSE [h EXCEPT !.on = FALSE, !.tx = <<>>, !.rx = <<>>, !.over = FALSE]
spi_set_clk(h, div) == [h EXCEPT !.baud = div]
spi_mask_intr(h, mask) == [h EXCEPT !.imr = @ \ mask]
spi_umask_intr(h, mask) == [h EXCEPT !.imr = @ \cup mask]

AllIntr == {"TXEI", "OVER"}

spi_reset_chip(h) ==
  spi_enable_chip([spi_mask_intr(spi_enable_chip(h, FALSE), AllIntr)
                     EXCEPT !.doneEn = FALSE], TRUE)

\* spi_hw_init: a reset controller with the FIFO depth found
spi_hw_init ==
  spi_reset_chip([on |-> FALSE, imr |-> {}, baud |-> 0, tx |-> <<>>, rx |-> <<>>,
                  over |-> FALSE, level |-> 0, cs |-> "none", doneEn |-> FALSE,
                  done |-> FALSE, dma |-> 0])

-----------------------------------------------------------------------------
SpiInit ==
  /\ dws \in [tx : {0}, rx : {0}, len : {0}, handler : {FALSE}, freq : {0},
              turn : {"reader"}, mode : Modes]
  /\ chip = [d \in Devs |-> [speed |-> 0, div |-> 0]]
  /\ hw = spi_hw_init
  /\ cur = NoXfer /\ res = [id |-> 0, ok |-> TRUE] /\ took = <<>>

\* DW_SPI_ISR: the level of the transmit FIFO and the latched errors
Isr ==
  ((IF hw.on /\ Len(hw.tx) <= hw.level THEN {"TXEI"} ELSE {})
     \cup (IF hw.over THEN {"OVER"} ELSE {})) \cap hw.imr

Pending ==
  IF dws.mode = "dma" THEN hw.done /\ hw.doneEn
  ELSE Isr # {} \/ (dws.mode = "irq" /\ dws.turn = "writer")

-----------------------------------------------------------------------------
(* Mutated form: the words already in the transmit FIFO are not counted. *)
tx_max_NoRoom(s, h) == Min({s.len - s.tx, FifoLen})

tx_max(s, h) ==
  Min({s.len - s.tx, FifoLen - Len(h.tx), FifoLen - (s.tx - s.rx)})

rx_max(s, h) == Min({s.len - s.rx, Len(h.rx)})

Word(i) == <<cur.id, i>>

dw_writer(s, h) ==
  LET n == tx_max(s, h)
  IN  <<[s EXCEPT !.tx = @ + n],
        [h EXCEPT !.tx = @ \o [i \in 1..n |-> Word(s.tx + i)]]>>

\* what is read, the state after it
dw_reader(s, h) ==
  LET n == rx_max(s, h)
  IN  <<[s EXCEPT !.rx = @ + n], [h EXCEPT !.rx = SubSeq(@, n + 1, Len(@))],
        SubSeq(h.rx, 1, n)>>

Finalize(ok) ==
  /\ res' = [id |-> cur.id, ok |-> ok]
  /\ cur' = NoXfer

Start(h) == spi_enable_chip(h, FALSE)

\* The controller's clock is set when the frequency is not the last one.
SetSpeed(d, speed, h) ==
  IF speed = dws.freq THEN h
  ELSE spi_set_clk(h, IF speed # chip[d].speed THEN clk_div(speed) ELSE chip[d].div)

dw_spi_set_cs(d, h) == [h EXCEPT !.cs = d]

\* The transmit threshold and the interrupts of a transfer in interrupt mode
IntrSetup(len, h) ==
  spi_umask_intr([h EXCEPT !.level = Min({FifoLen \div 2, len})], AllIntr)

\* The DMA engine is told the addresses and the length, then started.
rts_spi_dma_setup(h) == [h EXCEPT !.doneEn = TRUE]
rts_spi_dma_transfer(id, h) == [h EXCEPT !.dma = id]
rts_spi_dma_stop(h) == [h EXCEPT !.dma = 0]

dw_spi_transfer_one(d, speed, len) ==
  /\ cur = NoXfer /\ ~Pending /\ res.id < MaxXfers
  /\ cur' = [id |-> res.id + 1, dev |-> d, speed |-> speed, len |-> len]
  /\ took' = <<>>
  /\ dws' = [dws EXCEPT !.tx = 0, !.rx = 0, !.len = len, !.freq = speed,
                        !.handler = @ \/ dws.mode = "irq",
                        !.turn = IF dws.mode = "poll" THEN "writer" ELSE "reader"]
  /\ chip' = IF speed # dws.freq /\ speed # chip[d].speed
               THEN [chip EXCEPT ![d] = [speed |-> speed, div |-> clk_div(speed)]]
             ELSE chip
  /\ LET h1 == spi_mask_intr(SetSpeed(d, speed, Start(dw_spi_set_cs(d, hw))), AllIntr)
         h2 == CASE dws.mode = "dma" -> rts_spi_dma_setup(h1)
                 [] dws.mode = "irq" -> IntrSetup(len, h1)
                 [] OTHER -> h1
         h3 == spi_enable_chip(h2, TRUE)
     IN  hw' = IF dws.mode = "dma" THEN rts_spi_dma_transfer(res.id + 1, h3) ELSE h3
  /\ UNCHANGED res

\* poll_transfer is rounds of dw_writer and dw_reader.
poll_transfer ==
  /\ dws.mode = "poll" /\ cur # NoXfer
  /\ IF dws.turn = "reader"
       THEN LET r == dw_reader(dws, hw)
            IN  /\ dws' = [r[1] EXCEPT !.turn = "writer"] /\ hw' = r[2]
                /\ took' = took \o r[3]
                /\ IF r[1].rx = dws.len THEN Finalize(TRUE) ELSE UNCHANGED <<cur, res>>
     ELSE LET w == dw_writer(dws, hw)
          IN  /\ dws' = [w[1] EXCEPT !.turn = "reader"] /\ hw' = w[2]
              /\ UNCHANGED <<took, cur, res>>
  /\ UNCHANGED chip

\* The handler reads first; the controller goes on shifting under it.
interrupt_transfer ==
  IF "OVER" \in Isr
    THEN /\ hw' = spi_reset_chip([hw EXCEPT !.over = FALSE])
         /\ Finalize(FALSE)
         /\ UNCHANGED <<dws, took>>
  ELSE LET r == dw_reader(dws, hw)
           full == r[1].rx = dws.len
       IN  /\ took' = took \o r[3]
           /\ dws' = [r[1] EXCEPT !.turn = IF full \/ "TXEI" \notin Isr THEN @
                                           ELSE "writer"]
           /\ hw' = IF full THEN spi_mask_intr(r[2], {"TXEI"}) ELSE r[2]
           /\ IF full THEN Finalize(TRUE) ELSE UNCHANGED <<cur, res>>

dw_spi_irq ==
  /\ dws.mode = "irq" /\ Isr # {} /\ dws.turn = "reader"
  /\ IF cur = NoXfer
       THEN /\ hw' = spi_mask_intr(hw, {"TXEI"})
            /\ UNCHANGED <<dws, cur, res, took>>
     ELSE dws.handler /\ interrupt_transfer
  /\ UNCHANGED chip

\* The rest of the handler: TXEI is masked while the FIFO is filled.
interrupt_refill ==
  /\ dws.mode = "irq" /\ dws.turn = "writer"
  /\ LET w == dw_writer(dws, hw)
     IN  /\ dws' = [w[1] EXCEPT !.turn = "reader"]
         /\ hw' = spi_umask_intr(w[2], {"TXEI"})
  /\ UNCHANGED <<chip, cur, res, took>>

dw_spi_irq_dma ==
  /\ dws.mode = "dma" /\ hw.done /\ hw.doneEn
  /\ hw' = [hw EXCEPT !.done = FALSE]
  /\ IF cur # NoXfer THEN Finalize(TRUE) ELSE UNCHANGED <<cur, res>>
  /\ UNCHANGED <<dws, chip, took>>

\* The SPI core gives up waiting.
dw_spi_handle_err ==
  /\ cur # NoXfer /\ dws.mode # "poll" /\ ~Pending
  /\ hw' = spi_reset_chip(IF dws.mode = "dma" THEN rts_spi_dma_stop(hw) ELSE hw)
  /\ Finalize(FALSE)
  /\ UNCHANGED <<dws, chip, took>>

-----------------------------------------------------------------------------
\* A word goes out and another comes in; with divider 0 the clock stands.
Shift ==
  /\ hw.on /\ hw.tx # <<>> /\ hw.baud # 0
  /\ hw' = [hw EXCEPT !.tx = Tail(@),
                      !.rx = IF Len(@) < FifoLen THEN Append(@, hw.tx[1]) ELSE @,
                      !.over = @ \/ Len(hw.rx) = FifoLen]
  /\ UNCHANGED <<dws, chip, cur, res, took>>

\* The DMA engine ends a transfer.
DmaDone ==
  /\ hw.dma # 0 /\ hw.baud # 0
  /\ took' = [i \in 1..dws.len |-> <<hw.dma, i>>]
  /\ hw' = [hw EXCEPT !.dma = 0, !.done = TRUE]
  /\ UNCHANGED <<dws, chip, cur, res>>

SpiNext ==
  \/ \E d \in Devs, s \in Speeds, n \in Lens : dw_spi_transfer_one(d, s, n)
  \/ poll_transfer \/ dw_spi_irq \/ interrupt_refill \/ dw_spi_irq_dma
  \/ dw_spi_handle_err \/ Shift \/ DmaDone

-----------------------------------------------------------------------------
SpiTypeOK ==
  /\ dws.tx \in 0..dws.len /\ dws.rx \in 0..dws.tx
  /\ hw.imr \subseteq AllIntr /\ Len(hw.tx) <= FifoLen
  /\ hw.cs \in Devs \cup {"none"}

(* A transfer that the driver reports as good has put exactly its own words,
   all of them and in order, into its buffer, whatever an aborted transfer
   left behind; the receive FIFO never overruns; and while a transfer runs the
   clock is the one for its own speed, never faster, whichever device was
   served before. *)
SpiExact ==
  /\ cur = NoXfer /\ res.id > 0 /\ res.ok =>
       took = [i \in 1..dws.len |-> <<res.id, i>>]
  /\ ~hw.over
  /\ cur # NoXfer => /\ hw.baud = clk_div(cur.speed)
                   /\ hw.baud * cur.speed >= MaxFreq
                   /\ hw.cs = cur.dev
=============================================================================
