------------------------------- MODULE MCUdc -------------------------------
(***************************************************************************)
(* The link and the FIFO table of the controller, the pairing of           *)
(* controllers with gadget drivers and control transfers, four parts that  *)
(* share no state: a behaviour moves one of them.                          *)
(***************************************************************************)
EXTENDS RtsUdcLink, RtsUdcFifo, UdcClass, UsbControl

CONSTANT Parts  \* the parts that move: "link", "fifo", "class", "control"

(* The tables of the driver: FIFO 4 is shared by the third bulk IN and the *)
(* audio IN endpoint, FIFO 7 by the third bulk OUT and the audio OUT one.  *)
MCVideo == {"ep5in", "ep6in"}
MCEps == {"ep1in", "ep2in", "ep3in", "ep4in", "ep3out", "ep4out"} \cup MCVideo
MCFifos == 0..7
MCFifoOf ==
  [e \in MCEps |-> CASE e = "ep1in" -> 2 [] e = "ep2in" -> 3 [] e \in {"ep3in", "ep4in"} -> 4
                     [] e \in {"ep3out", "ep4out"} -> 7
                     [] e = "ep5in" -> 0 [] e = "ep6in" -> 1]

(* Two controllers and three drivers: one takes any controller, two name   *)
(* the first one, one of these only an existing one.                       *)
CONSTANTS u1, u2, any, named, strict

MCUdcs == {u1, u2}
MCGadgets == {any, named, strict}
MCUdcName == [d \in MCGadgets |-> IF d = any THEN NULL ELSE u1]
MCExistingOnly == {strict}

VARIABLE part

(* Two configurations; the function ms may delay the status, lb is in both. *)
CONSTANTS ms, lb

Setup(k, in, w, arg) == [kind |-> k, in |-> in, w |-> w, arg |-> arg]
MCRequests ==
  {Setup("read", TRUE, 3, 0), Setup("read", TRUE, 0, 0), Setup("status", TRUE, 2, 0),
   Setup("feature", FALSE, 0, 0), Setup("func", FALSE, 3, 0), Setup("func", TRUE, 2, 0)}
  \cup {Setup("config", FALSE, 0, c) : c \in 0..3}
  \cup {Setup("interface", FALSE, 0, f) : f \in {ms, lb}}
MCFunctions == << <<ms, lb>>, <<lb>> >>

(* Everything while the driver stays; what the framework answers while it is *)
(* taken away.  A host that gives up a transfer and starts another one.      *)
MCPatient ==
  {<<{}, {"read", "status", "feature", "func", "config", "interface"}>>,
   <<{"unbind"}, {"read", "feature", "config", "interface"}>>}
MCAborting == {<<{"abort"}, {"read", "config"}>>}

parts == <<part, vars, fifoVars, classVars, controlVars>>

MCInit ==
  /\ part \in Parts
  /\ Init /\ (part # "link" => funcOps = {})
  /\ FifoInit /\ ClassInit
  /\ ControlInit /\ setup = Setup("read", TRUE, 3, 0)
  /\ part # "control" => scen = CHOOSE s \in Scenarios : TRUE

LinkOnly == part = "link" /\ UNCHANGED <<part, fifoVars, classVars, controlVars>>
ControlOnly == part = "control" /\ UNCHANGED <<part, vars, fifoVars, classVars>>

MCNext ==
  \/ LinkOnly /\ Next
  \/ part = "fifo" /\ FifoNext /\ UNCHANGED <<part, vars, classVars, controlVars>>
  \/ part = "class" /\ ClassNext /\ UNCHANGED <<part, vars, fifoVars, controlVars>>
  \/ ControlOnly /\ ControlNext

(* The fairness of the link; and an interrupt is served, a host that waits   *)
(* goes on with its transfer, and a function that delayed a status continues. *)
MCSpec ==
  /\ MCInit /\ [][MCNext]_parts
  /\ WF_parts(LinkOnly /\ ClassStep /\ UNCHANGED funcOps)
  /\ \A f \in Funcs : WF_parts(LinkOnly /\ FuncStep(f) /\ UNCHANGED funcOps)
  /\ WF_parts(LinkOnly /\ PhyIrq /\ UNCHANGED funcOps)
  /\ WF_parts(ControlOnly /\ Irq) /\ WF_parts(ControlOnly /\ Wire)
  /\ \A f \in {ms, lb} :
       WF_parts(ControlOnly /\ \E ok \in BOOLEAN : Continue(f, ok))
=============================================================================
