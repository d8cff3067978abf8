----------------------------- MODULE RtsUdcFifo -----------------------------
(***************************************************************************)
(* Which endpoint of the Realtek USB device controller is connected to     *)
(* which memory-controller FIFO (drivers/usb/realtek/core.c).  There are   *)
(* fewer FIFOs than endpoints: the last bulk endpoint of each direction    *)
(* shares its FIFO with the audio endpoint, and the table mcm[] records    *)
(* who has claimed it.  Enabling and disabling run in process context or   *)
(* in a setup request; disabling a video endpoint leaves the rest to a     *)
(* work item.                                                              *)
(***************************************************************************)
CONSTANTS
  Eps,      \* the endpoints that use a FIFO
  NoEp,     \* an unclaimed FIFO
  Fifos,    \* the FIFOs
  FifoOf,   \* the tables mcm_in, mcm_out and mcm_uvc
  Video     \* the endpoints 5 and 6

(* The video endpoints claim without asking: their FIFOs are their own. *)
ASSUME FifoAssumption ==
  /\ NoEp \notin Eps
  /\ FifoOf \in [Eps -> Fifos]
  /\ Video \subseteq Eps
  /\ \A v \in Video : \A e \in Eps : FifoOf[v] = FifoOf[e] => v = e

VARIABLES
  enabled,    \* usb_ep.enabled, kept by the UDC core
  configured, \* priv_ep->epnum # 0
  hwEn,       \* the enable bit of the endpoint
  claim,      \* mcm[i]: the endpoint that has claimed the FIFO
  disWork     \* video endpoints whose disable work item is pending

fifoVars == <<enabled, configured, hwEn, claim, disWork>>

(* Flags are sets of endpoints; a FIFO is claimed by at most one of them. *)
FifoTypeOK ==
  /\ enabled \subseteq Eps /\ configured \subseteq Eps /\ hwEn \subseteq Eps
  /\ claim \in [Fifos -> Eps \cup {NoEp}]
  /\ disWork \subseteq Video

FifoInit ==
  /\ enabled = {} /\ configured = {} /\ hwEn = {} /\ disWork = {}
  /\ claim = [f \in Fifos |-> NoEp]

(* Mutated form: nobody asks whether the FIFO is claimed. *)
MayClaim_Always(e) == TRUE
MayClaim(e) == e \in Video \/ claim[FifoOf[e]] = NoEp

(* rts_ep_enable; a claimed FIFO makes it fail after epnum was set. *)
EpEnable(e) ==
  /\ e \notin enabled
  /\ configured' = configured \cup {e}
  /\ IF MayClaim(e)
       THEN /\ claim' = [claim EXCEPT ![FifoOf[e]] = e]
            /\ hwEn' = hwEn \cup {e}
            /\ enabled' = enabled \cup {e}
       ELSE UNCHANGED <<claim, hwEn, enabled>>
  /\ UNCHANGED disWork

(* rts_set_ep_disable and the release of the FIFO: both go by epnum. *)
SetEpDisable(e) ==
  IF e \in configured
    THEN /\ hwEn' = hwEn \ {e}
         /\ claim' = [f \in Fifos |-> IF claim[f] = e THEN NoEp ELSE claim[f]]
    ELSE UNCHANGED <<hwEn, claim>>

(* rts_ep_disable *)
EpDisable(e) ==
  /\ e \in enabled
  /\ enabled' = enabled \ {e}
  /\ SetEpDisable(e)
  /\ IF e \in Video \cap configured
       THEN disWork' = disWork \cup {e} /\ UNCHANGED configured
       ELSE configured' = configured \ {e} /\ UNCHANGED disWork

(* rts_done_uvc_in_disable resets epnum whatever happened meanwhile. *)
VideoDisableWork(e) ==
  /\ e \in disWork
  /\ disWork' = disWork \ {e}
  /\ configured' = configured \ {e}
  /\ UNCHANGED <<enabled, hwEn, claim>>

FifoNext == \E e \in Eps : EpEnable(e) \/ EpDisable(e) \/ VideoDisableWork(e)

FifoSpec == FifoInit /\ [][FifoNext]_fifoVars

(***************************************************************************)
(* Properties.                                                             *)
(***************************************************************************)

(* Two endpoints the hardware serves never use one FIFO, also when an      *)
(* enable failed, or the work item wiped epnum of an enabled endpoint.     *)
FifoExclusive ==
  \A d, e \in hwEn : FifoOf[d] = FifoOf[e] => d = e

(* The inductive form of FifoExclusive: who is served holds the claim. *)
ServedHoldsClaim == \A e \in hwEn : claim[FifoOf[e]] = e
=============================================================================
