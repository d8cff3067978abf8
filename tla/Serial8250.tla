----------------------------- MODULE Serial8250 -----------------------------
(***************************************************************************)
(* The table of 8250 ports and the chains of ports that share an interrupt *)
(* (8250_core.c), with the probe and the removal of the DesignWare glue    *)
(* (8250_dw.c, 8250_dwlib.c).                                              *)
(*                                                                         *)
(* Registration runs under serial_mutex and is one step.  Linking a port   *)
(* into the chain of its interrupt is two, or three for the first: the     *)
(* irq_info is looked up under hash_mutex, the list joined under the lock  *)
(* of the irq_info, and request_irq sleeps and may fail after that.  What  *)
(* a port does with an irq_info that was freed between the first two steps *)
(* is not followed: such a port stays where it is.                         *)
(***************************************************************************)
EXTENDS Integers, Sequences, SequencesExt

CONSTANTS
  NrUarts,  \* nr_uarts
  Uarts,    \* devices of the DesignWare driver
  Alias,    \* the line of the device tree's alias, 0 without one
  Irq,      \* the interrupt of each device
  Found,    \* the devices whose registers pass the tests of autoconfig
  None

VARIABLES
  port,     \* serial8250_ports
  bound,    \* data.line of each probed device
  isa,      \* serial8250_isa_devs is there
  chain,    \* irq_lists: for each interrupt its ports, head first
  taken,    \* interrupts that serial8250_interrupt is installed for
  linking,  \* how far serial_link_irq_chain has come for a line, see Linking
  deaf,     \* interrupts with ports on their chain whose request failed
  pending   \* lines whose UART asks for service

serialVars == <<port, bound, isa, chain, taken, linking, deaf, pending>>

Lines == 0..(NrUarts - 1)
Irqs == {Irq[d] : d \in Uarts}

Port == [dev : Uarts \cup {None, "isa"}, type : {"unknown", "16550A"},
         base : Uarts \cup {None}, added : BOOLEAN, started : BOOLEAN,
         shared : BOOLEAN]  \* given away while another device was bound to it
Linking == {"no", "found", "freed", "asking"}

SerialTypeOK ==
  /\ port \in [Lines -> Port]
  /\ bound \in [Uarts -> Lines \cup {None}]
  /\ isa \in BOOLEAN
  /\ chain \in [Irqs -> Seq(Lines)]
  /\ taken \subseteq Irqs /\ deaf \subseteq Irqs
  /\ linking \in [Lines -> Linking] /\ pending \subseteq Lines

SerialInit ==
  /\ port = [l \in Lines |-> [dev |-> None, type |-> "unknown", base |-> None,
                              added |-> FALSE, started |-> FALSE, shared |-> FALSE]]
  /\ bound = [d \in Uarts |-> None]
  /\ isa = FALSE
  /\ chain = [q \in Irqs |-> <<>>]
  /\ taken = {} /\ linking = [l \in Lines |-> "no"] /\ deaf = {} /\ pending = {}

-----------------------------------------------------------------------------
(* Registration *)

(* serial8250_init: the ports of the legacy device, one per line. *)
serial8250_register_ports == [l \in Lines |-> IF port[l].dev # None THEN port[l]
                                              ELSE [port[l] EXCEPT !.dev = "isa", !.added = TRUE]]
serial8250_init ==
  /\ ~isa /\ isa' = TRUE
  /\ port' = serial8250_register_ports
  /\ UNCHANGED <<bound, chain, taken, linking, deaf, pending>>

(* A line whose device failed its tests counts as free, bound or not.      *)
Least(S) == CHOOSE l \in S : \A k \in S : l <= k
serial8250_find_match_or_unused(d) ==
  LET match == {l \in Lines : port[l].base = d}
      free == {l \in Lines : port[l].type = "unknown"}
  IN  IF match # {} THEN Least(match)
      ELSE IF Alias[d] \in free THEN Alias[d]
      ELSE IF free # {} THEN Least(free) ELSE None

(* autoconfig: a UART that fails the IER or the loopback test keeps type   *)
(* PORT_UNKNOWN; the RTS UART shows both FIFO bits of IIR.                 *)
autoconfig(d) == IF d \in Found THEN "16550A" ELSE "unknown"
serial8250_config_port(d) == [dev |-> d, type |-> autoconfig(d), base |-> d, added |-> TRUE,
                              started |-> FALSE, shared |-> FALSE]

(* uart_remove_one_port hangs up a port that is open and forgets its type. *)
Open(l) == port[l].started \/ linking[l] # "no"

serial8250_register_8250_port(d, ok) ==
  LET l == serial8250_find_match_or_unused(d)
      r == IF ok THEN serial8250_config_port(d)
           ELSE [port[l] EXCEPT !.dev = None, !.base = d, !.added = FALSE, !.type = "unknown"]
  IN  /\ l # None /\ ~Open(l)
      /\ port' = [port EXCEPT ![l] = [r EXCEPT !.shared = \E e \in Uarts \ {d} : bound[e] = l]]
      /\ bound' = [bound EXCEPT ![d] = IF ok THEN l ELSE None]

(* The probe fails before it registers when a clock, the reset or the pins *)
(* are not there: nothing is left behind.                                  *)
dw8250_probe(d, ok) ==
  /\ isa /\ bound[d] = None
  /\ serial8250_register_8250_port(d, ok)
  /\ UNCHANGED <<isa, chain, taken, linking, deaf, pending>>

(* The line goes back to the legacy device; its address stays in the table *)
(* and finds the line again at the next probe.                             *)
serial8250_unregister_port(l) ==
  [port EXCEPT ![l] = [@ EXCEPT !.type = "unknown", !.dev = "isa", !.added = TRUE]]
dw8250_remove(d) ==
  /\ bound[d] # None /\ ~Open(bound[d])
  /\ port' = serial8250_unregister_port(bound[d])
  /\ bound' = [bound EXCEPT ![d] = None]
  /\ UNCHANGED <<isa, chain, taken, linking, deaf, pending>>

-----------------------------------------------------------------------------
(* The interrupt chains *)

IrqOf(l) == Irq[port[l].base]

(* list_add puts the port behind the head. *)
Join(s, l) == <<Head(s), l>> \o Tail(s)
serial_do_unlink(s, l) == SelectSeq(s, LAMBDA k : k # l)

(* A port leaves its chain.  The last one frees the irq_info, under those  *)
(* that have found it as well.                                             *)
Finders(q) == {k \in Lines : linking[k] = "found" /\ IrqOf(k) = q}
Leave(l) ==
  LET q == IrqOf(l)
      rest == serial_do_unlink(chain[q], l)
  IN  /\ chain' = [chain EXCEPT ![q] = rest]
      /\ linking' = [k \in Lines |-> IF k = l THEN "no"
                                     ELSE IF rest = <<>> /\ k \in Finders(q) THEN "freed" ELSE linking[k]]

(* serial8250_do_startup, as far as the table is concerned, begins with    *)
(* the look-up, which makes an irq_info if there is none.                  *)
univ8250_setup_irq(l) ==
  /\ port[l].added /\ port[l].type # "unknown" /\ ~Open(l)
  /\ linking' = [linking EXCEPT ![l] = "found"]
  /\ UNCHANGED <<port, bound, isa, chain, taken, deaf, pending>>

serial_link_irq_chain(l) ==
  LET q == IrqOf(l)
  IN  /\ linking[l] = "found"
      /\ IF chain[q] = <<>>
         THEN /\ chain' = [chain EXCEPT ![q] = <<l>>]
              /\ linking' = [linking EXCEPT ![l] = "asking"]
              /\ UNCHANGED port
         ELSE /\ chain' = [chain EXCEPT ![q] = Join(@, l)]
              /\ linking' = [linking EXCEPT ![l] = "no"]
              /\ port' = [port EXCEPT ![l].started = TRUE]
      /\ UNCHANGED <<bound, isa, taken, deaf, pending>>

(* request_irq; when it fails, ports that joined meanwhile stay on a chain *)
(* whose interrupt nobody asks for again until they have all left.         *)
RequestIrq(l, ok) ==
  LET q == IrqOf(l)
  IN  /\ linking[l] = "asking"
      /\ \/ /\ ok /\ taken' = taken \cup {q}
            /\ port' = [port EXCEPT ![l].started = TRUE]
            /\ linking' = [linking EXCEPT ![l] = "no"]
            /\ UNCHANGED <<chain, deaf>>
         \/ /\ ~ok /\ Leave(l)
            /\ deaf' = IF chain[q] = <<l>> THEN deaf ELSE deaf \cup {q}
            /\ UNCHANGED <<taken, port>>
      /\ UNCHANGED <<bound, isa, pending>>

serial_unlink_irq_chain(l) ==
  LET q == IrqOf(l)
  IN  /\ Leave(l)
      /\ taken' = IF Len(chain[q]) = 1 THEN taken \ {q} ELSE taken
      /\ deaf' = IF Len(chain[q]) = 1 THEN deaf \ {q} ELSE deaf

(* serial8250_do_shutdown has cleared IER. *)
univ8250_release_irq(l) ==
  /\ port[l].started
  /\ serial_unlink_irq_chain(l)
  /\ port' = [port EXCEPT ![l].started = FALSE]
  /\ pending' = pending \ {l}
  /\ UNCHANGED <<bound, isa>>

(* Every port of the chain is asked until a whole round finds nothing. *)
serial8250_interrupt(q) ==
  /\ q \in taken /\ \E l \in pending : l \in Range(chain[q])
  /\ pending' = pending \ Range(chain[q])
  /\ UNCHANGED <<port, bound, isa, chain, taken, linking, deaf>>

AsksService(l) ==
  /\ port[l].started /\ l \notin pending
  /\ pending' = pending \cup {l}
  /\ UNCHANGED <<port, bound, isa, chain, taken, linking, deaf>>

SerialNext ==
  \/ serial8250_init
  \/ \E d \in Uarts, ok \in BOOLEAN : dw8250_probe(d, ok)
  \/ \E d \in Uarts : dw8250_remove(d)
  \/ \E l \in Lines : univ8250_setup_irq(l) \/ serial_link_irq_chain(l) \/ univ8250_release_irq(l) \/ AsksService(l)
  \/ \E l \in Lines, ok \in BOOLEAN : RequestIrq(l, ok)
  \/ \E q \in Irqs : serial8250_interrupt(q)

-----------------------------------------------------------------------------
(* A probed device owns its line of serial8250_ports: the entry carries    *)
(* its address and its device, whatever probes and removals of other       *)
(* devices came between, unless the line was given away: the line of a     *)
(* device that failed the tests counts as free, and then belongs to two,   *)
(* either of which may hand it back.  A port that is open is on the chain  *)
(* of its own interrupt exactly once, with the interrupt installed, for as *)
(* long as it is open, whichever member of the chain came or left, unless  *)
(* the request of the interrupt failed after it had joined.                *)
PortsSound ==
  /\ \A d \in Uarts : bound[d] # None =>
       \/ port[bound[d]].dev = d /\ port[bound[d]].base = d /\ port[bound[d]].added
       \/ port[bound[d]].shared
  /\ \A l \in Lines : port[l].started =>
       /\ IrqOf(l) \in taken \cup deaf \/ \E k \in Lines : linking[k] = "asking" /\ IrqOf(k) = IrqOf(l)
       /\ Len(SelectSeq(chain[IrqOf(l)], LAMBDA k : k = l)) = 1
  /\ \A q \in Irqs : /\ q \in taken \cup deaf => chain[q] # <<>>
                     /\ \A l \in Range(chain[q]) : port[l].started \/ linking[l] = "asking"

=============================================================================
