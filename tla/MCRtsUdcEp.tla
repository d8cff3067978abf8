----------------------------- MODULE MCRtsUdcEp -----------------------------
(* Every kind of endpoint with the operations its properties allow for. *)
EXTENDS RtsUdcEp

MCAll == {<<"out", {"disable"}>>, <<"bulkin", {}>>,
          <<"intr", {"disable", "host_halt"}>>, <<"uvc", {"dequeue", "disable"}>>,
          <<"bulkin", {"halt"}>>}
MCBulkIn == {<<"bulkin", {}>>}
MCHalted == {<<"out", {"halt"}>>}
=============================================================================
