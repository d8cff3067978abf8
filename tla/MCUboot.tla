------------------------------- MODULE MCUboot --------------------------------
(***************************************************************************)
(* Four parts of U-Boot in one run: the environment in flash, the choice   *)
(* of its location, the update command and the boot of an image.  They do  *)
(* not share state here; which one a behaviour is about is chosen at its   *)
(* start, and the others stay in one of their initial states.              *)
(***************************************************************************)
EXTENDS UbootEnv, UbootUpdate, UbootEnvLoc

VARIABLES part, s1, s2, s3, s4, s5, s6, s7    \* those from s1 are Bootm's

slots == <<s1, s2, s3, s4, s5, s6, s7>>
Zero == s1 = 0 /\ s2 = 0 /\ s3 = 0 /\ s4 = 0 /\ s5 = 0 /\ s6 = 0 /\ s7 = 0

\* Three device trees: the second moves itself, and puts the kernel where the
\* first one is; the third names no places.
MCHome == <<1, 2, 0>>
MCKernelHome == <<3, 1, 0>>
Section(k, v, p, l) == [kind |-> k, ver |-> v, place |-> p, len |-> l]
MCFiles == {<<Section("dtb", 2, 2, 1), Section("kernel", 1, 3, 2)>>,
            <<Section("uboot", 1, 0, 1), Section("dtb", 1, 2, 1), Section("end", 0, 0, 1)>>,
            <<Section("kernel", 2, 3, 2), Section("dtb", 2, 1, 0)>>}

Location(d, i, l) == [driver |-> d, init |-> i, load |-> l, save |-> TRUE]
MCLocations == {Location(TRUE, "none", TRUE), Location(TRUE, "ok", TRUE),
                Location(TRUE, "err", TRUE), Location(TRUE, "ok", FALSE),
                Location(FALSE, "ok", TRUE)}
MCBoards == UNION {[1..n -> MCLocations]: n \in 1..3}

MCVersions == 1..3
MCPlaces == 0..3

\* Kernels in flash and in memory, to be copied, left alone or unpacked, alone or
\* with a ramdisk and a device tree; images that are refused or fail later.
Img(n, a, l) ==
    [name |-> n, format |-> "legacy", addr |-> a, len |-> l, parts |-> <<>>, hcrc |-> TRUE,
     dcrc |-> TRUE, type |-> "kernel", arch |-> "arm", os |-> "linux", load |-> 36, ep |-> 36,
     comp |-> "none", tree |-> TRUE]
Absent == [Img("none", 0, 0) EXCEPT !.format = "none"]
MCKernel == Img("kernel", 40, 4)
MCKernels ==
    {MCKernel, [MCKernel EXCEPT !.addr = 1], [MCKernel EXCEPT !.load = 41, !.ep = 41],
     [MCKernel EXCEPT !.type = "noload", !.ep = 0], [MCKernel EXCEPT !.load = 42, !.ep = 42],
     [MCKernel EXCEPT !.len = 3, !.comp = "gzip", !.load = 34, !.ep = 34],
     [MCKernel EXCEPT !.len = 8, !.type = "multi", !.parts = <<3, 2, 2>>],
     [MCKernel EXCEPT !.len = 6, !.type = "multi", !.parts = <<3, 2>>],
     [MCKernel EXCEPT !.len = 8, !.type = "multi", !.parts = <<3, 2, 2>>, !.tree = FALSE],
     [MCKernel EXCEPT !.hcrc = FALSE], [MCKernel EXCEPT !.dcrc = FALSE],
     [MCKernel EXCEPT !.arch = "x86"], [MCKernel EXCEPT !.comp = "lzma"],
     [MCKernel EXCEPT !.len = 9], [MCKernel EXCEPT !.len = 5, !.comp = "gzip"],
     [MCKernel EXCEPT !.os = "qnx"], [MCKernel EXCEPT !.os = "uboot", !.type = "standalone"],
     [MCKernel EXCEPT !.os = "uboot"]}
MCRd == [Img("rd", 51, 3) EXCEPT !.type = "ramdisk"]
MCRds == {Absent, MCRd, [MCRd EXCEPT !.format = "raw"], [MCRd EXCEPT !.dcrc = FALSE]}
MCFdt == [Img("fdt", 56, 2) EXCEPT !.type = "flatdt", !.load = 60]
MCFdts == {Absent, MCFdt, [MCFdt EXCEPT !.format = "raw"], [MCFdt EXCEPT !.load = 57],
           [MCFdt EXCEPT !.load = 58], [MCFdt EXCEPT !.hcrc = FALSE]}
Command(k, r, f) ==
    [kernel |-> k, rd |-> r, fdt |-> f, verify |-> TRUE, skiprd |-> FALSE, skipfdt |-> FALSE,
     initrd_high |-> 0, fdt_high |-> 0, rsv |-> {}, autostart |-> TRUE, machid |-> "none"]
MCJobs ==
    {Command(k, Absent, Absent) : k \in MCKernels}
    \cup {Command(k, MCRd, [MCFdt EXCEPT !.format = "raw"]) : k \in MCKernels}
    \cup {Command(MCKernel, r, f) : r \in MCRds, f \in MCFdts}
    \cup {[Command(MCKernel, MCRd, MCFdt) EXCEPT !.initrd_high = i, !.fdt_high = f, !.rsv = r] :
             i \in {0, -1, 34, 40}, f \in {0, -1, 34, 56}, r \in {{}, 64..67}}
    \* Pieces that are loaded over each other's source, over a kernel that is not in
    \* the lmb, next to a tree that stays in place, or on the ATAGs.
    \cup {[Command(k, r, f) EXCEPT !.initrd_high = i, !.fdt_high = h] :
             k \in {[MCKernel EXCEPT !.load = l, !.ep = l] : l \in {36, 42, 50, 57, 58, 60}},
             r \in {Absent, MCRd}, f \in {Absent, MCFdt, [MCFdt EXCEPT !.format = "raw"]},
             i \in {0, -1, 48}, h \in {0, -1, 48}}
    \cup {[Command(MCKernel, MCRd, [MCFdt EXCEPT !.load = l]) EXCEPT !.initrd_high = i, !.fdt_high = h] :
             l \in {41, 52, 60}, i \in {0, 40, 64}, h \in {0, -1}}
    \cup {[Command(MCKernel, MCRd, Absent) EXCEPT !.initrd_high = i] : i \in {36, 40}}
    \cup {[Command(MCKernel, Absent, MCFdt) EXCEPT !.machid = "bad"],
          [Command([MCKernel EXCEPT !.os = "uboot", !.type = "standalone"], Absent, Absent)
             EXCEPT !.autostart = FALSE],
          [Command([MCKernel EXCEPT !.len = 8, !.type = "multi", !.parts = <<3, 2, 2>>], Absent, Absent)
             EXCEPT !.skiprd = TRUE, !.skipfdt = TRUE]}
MCFlash == 1..30
MCRam == 32..79

Bm == INSTANCE Bootm WITH
    Flash <- MCFlash, Ram <- MCRam, Sp <- 72, Align <- 4, Pad <- 2, BootmLen <- 8, Params <- 32,
    DoCrc <- TRUE, Tags <- TRUE, Jobs <- MCJobs,
    pc <- s1, job <- s2, mem <- s3, images <- s4, lmb <- s5, irq <- s6, ret <- s7

EnvIdle == /\ redundant = FALSE /\ embedded = FALSE
           /\ copy = [i \in {1, 2} |-> [data |-> Default, flags |-> 1]]
           /\ rest = [i \in {1, 2} |-> TRUE] /\ locked = TRUE
           /\ htab = Default /\ envValid = 1 /\ pc = "off" /\ new = Default
           /\ buffer = TRUE /\ accept = {Default} /\ hurt = FALSE /\ exposed = FALSE

MCBoard == <<Location(TRUE, "ok", TRUE)>>

MCInit == /\ part \in {"env", "update", "loc", "boot"}
          /\ IF part = "env" THEN EnvInit ELSE EnvIdle
          /\ UpdInit /\ (part # "update" => flash = Factory(1))
          /\ LocInit /\ (part # "loc" => locs = MCBoard)
          /\ IF part = "boot" THEN Bm!BootmInit ELSE Zero

MCNext == \/ part = "env" /\ EnvNext /\ UNCHANGED <<part, updVars, locVars, slots>>
          \/ part = "update" /\ UpdNext /\ UNCHANGED <<part, envVars, locVars, slots>>
          \/ part = "loc" /\ LocNext /\ UNCHANGED <<part, envVars, updVars, slots>>
          \/ part = "boot" /\ Bm!BootmNext /\ UNCHANGED <<part, envVars, updVars, locVars>>

MCSpec == MCInit /\ [][MCNext]_<<part, envVars, updVars, locVars, slots>>

\* Bootm: a kernel that is started finds itself, its ramdisk and its device
\* tree whole and apart (do_bootm_states).
HandedOverWhole == part = "boot" => Bm!BootmTypeOK /\ Bm!HandedOverWhole
=============================================================================
