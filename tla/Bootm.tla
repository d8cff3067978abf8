------------------------------- MODULE Bootm -------------------------------
(***************************************************************************)
(* The bootm command of U-Boot on ARM: find the kernel image, the ramdisk  *)
(* and the device tree, load the kernel, move the other two with the       *)
(* logical memory blocks (lmb), and jump.                                  *)
(*                                                                         *)
(* Memory is a function from addresses (cells of 4 bytes) to what lies     *)
(* there: cell i of an image is <<name, i>>, its header is <<name, "h">>.  *)
(* Image headers are read once, when they are found; FIT and Android       *)
(* images need code that is not in this repository and are left out.       *)
(***************************************************************************)
EXTENDS Integers, FiniteSets, FiniteSetsExt, Sequences, Functions

CONSTANTS
    Flash,        \* addresses below 0x80000000, mapped NOR flash
    Ram,          \* addresses of the DRAM bank
    Sp,           \* the stack pointer less 4K: from here on U-Boot lives
    Align,        \* 0x1000, in cells
    Pad,          \* CONFIG_SYS_FDT_PAD, in cells
    BootmLen,     \* CONFIG_SYS_BOOTM_LEN
    Params,       \* bi_boot_params, where ATAGs go
    DoCrc,        \* CONFIG_DO_IMAGE_CRC
    Tags,         \* BOOTM_ENABLE_TAGS
    Jobs          \* images in memory, arguments and environment of a command

VARIABLES
    pc,           \* the stage do_bootm_states has reached
    job,          \* the command being run
    mem,          \* memory
    images,       \* the bootm_headers_t
    lmb,          \* reserved cells of DRAM
    irq,          \* interrupts are enabled
    ret           \* what the last command returned

bootmVars == <<pc, job, mem, images, lmb, irq, ret>>

Cells(a, n) == a .. a + n - 1
RoundUp8(n) == ((n + 1) \div 2) * 2

\* Where one image of a job lies: its header, then its data.
Data(i) == i.addr + 1
ImageEnd(i) == Data(i) + i.len

\* The parts of a multi image follow a table of their sizes.
Offset(i, idx) == 1 + FoldFunctionOnSet(+, 0, i.parts, 1 .. idx - 1)

\* image_multi_getimg: where part idx lies, nothing when there is none.
image_multi_getimg(i, idx) ==
    IF idx > Len(i.parts) THEN [start |-> 0, len |-> 0]
    ELSE [start |-> Data(i) + Offset(i, idx), len |-> i.parts[idx]]

\* What lies in cell o of an image's data. A wrong data sum is a spoilt cell.
CellOf(i, o) ==
    IF ~i.dcrc THEN "spoilt"
    ELSE IF i.type # "multi" THEN <<i.name, o>>
    ELSE LET at == {p \in DOMAIN i.parts : o \in Cells(Offset(i, p), i.parts[p])}
         IN IF at = {} THEN "table"
            ELSE LET p == CHOOSE p \in at : TRUE
                 IN <<(<<"kernel", "rd", "fdt">>)[p], o - Offset(i, p)>>

\* The memory a command starts from: every image where it was put.
Placed(j) ==
    [a \in Flash \cup Ram |->
        LET at == {i \in {j.kernel, j.rd, j.fdt} :
                     i.format # "none" /\ a \in i.addr .. ImageEnd(i) - 1}
        IN IF at = {} THEN "free"
           ELSE LET i == CHOOSE i \in at : TRUE
                IN IF a = i.addr THEN "header" ELSE CellOf(i, a - Data(i))]

Null == [start |-> 0, len |-> 0]
NoImages == [os |-> Null, load |-> 0, ep |-> 0, end |-> 0, rd |-> Null,
             fdt |-> Null, initrd |-> Null, told |-> Null, runs |-> 0]

\* lmb_alloc_base takes the highest aligned range below max that is free; 0 is failure.
lmb_alloc_base(set, n, max) ==
    LET free == {a \in Ram : /\ a % Align = 0
                             /\ Cells(a, n) \subseteq Ram \ set
                             /\ a + n <= max}
    IN IF free = {} THEN 0 ELSE Max(free)

\* lmb_reserve refuses a range that overlaps one already reserved.
lmb_reserve(set, a, n) == IF Cells(a, n) \cap set = {} THEN set \cup Cells(a, n) ELSE set

\* initrd_high and fdt_high: all ones is "in place"; unset (or 0, with one bank of
\* memory the same) allows all of env_get_bootm_low() + env_get_bootm_mapsize().
InPlace == -1
Below(high) == IF high = 0 THEN Max(Ram) + 1 ELSE high

\* memmove_wd and dma_copy: every cell is read before it is overwritten.
Copied(m, to, from, n) ==
    [a \in DOMAIN m |-> IF a \in Cells(to, n) THEN m[from + (a - to)] ELSE m[a]]

Fails(e) == /\ ret' = e
            /\ pc' = "shell"

\* From 4K below the stack pointer on, U-Boot lives.
arch_lmb_reserve == {a \in Ram : a >= Sp}

\* bootm_start with boot_start_lmb.
bootm_start ==
    /\ images' = NoImages
    /\ lmb' = arch_lmb_reserve

\* The command line: "bootm kernel [ramdisk [fdt]]".
bootm(j) ==
    /\ pc = "shell"
    /\ irq
    /\ job' = j
    /\ mem' = Placed(j)
    /\ bootm_start
    /\ pc' = "findos"
    /\ ret' = "none"
    /\ UNCHANGED irq

\* image_get_kernel: without CONFIG_DO_IMAGE_CRC nothing is verified.
image_get_kernel(k) ==
    DoCrc => /\ k.hcrc
             /\ job.verify => k.dcrc
             /\ k.arch = "arm"

\* boot_get_kernel: the data of the kernel, nothing when no usable image is found.
boot_get_kernel(k) ==
    IF k.format # "legacy" \/ ~image_get_kernel(k) THEN Null
    ELSE CASE k.type \in {"kernel", "noload", "standalone"} -> [start |-> Data(k), len |-> k.len]
           [] k.type = "multi" -> image_multi_getimg(k, 1)
           [] OTHER -> Null

\* An x86 header makes boot_get_setup look for an entry that only FIT images have.
bootm_find_os ==
    /\ pc = "findos"
    /\ LET k == job.kernel
           os == boot_get_kernel(k)
           noload == k.type = "noload"
       IN IF os.len = 0
          THEN Fails("error") /\ UNCHANGED images
          ELSE /\ images' = [images EXCEPT
                      !.os = os,
                      !.load = IF noload THEN os.start ELSE k.load,
                      !.ep = (IF k.arch = "x86" THEN 0 ELSE k.ep)
                             + (IF noload THEN os.start ELSE 0),
                      !.end = ImageEnd(k)]
               /\ pc' = IF k.type \in {"kernel", "noload", "multi"} /\ k.os = "linux"
                        THEN "ramdisk" ELSE "loados"
               /\ UNCHANGED ret
    /\ UNCHANGED <<job, mem, lmb, irq>>

\* image_get_ramdisk
image_get_ramdisk(r) ==
    /\ r.hcrc
    /\ job.verify => r.dcrc
    /\ r.os = "linux" /\ r.arch = "arm" /\ r.type = "ramdisk"

\* boot_get_ramdisk: "-" or no argument is none, unless the kernel is a multi image.
boot_get_ramdisk ==
    /\ pc = "ramdisk"
    /\ LET r == job.rd
           bad == r.format # "none" /\ (r.format # "legacy" \/ ~image_get_ramdisk(r))
           found == IF r.format # "none" THEN [start |-> Data(r), len |-> r.len]
                    ELSE IF ~job.skiprd /\ job.kernel.type = "multi"
                         THEN image_multi_getimg(job.kernel, 2)
                         ELSE Null
       IN IF bad
          THEN Fails("error") /\ UNCHANGED images
          ELSE /\ images' = [images EXCEPT !.rd = found]
               /\ pc' = "fdt"
               /\ UNCHANGED ret
    /\ UNCHANGED <<job, mem, lmb, irq>>

\* image_get_fdt: always checks both sums, and that the data is a device tree.
image_get_fdt(f) == f.hcrc /\ f.dcrc /\ f.type = "flatdt" /\ f.comp = "none"

\* A device tree wrapped in a legacy image is moved to its load address.
FdtFromLegacy(f) ==
    LET clash == f.load < ImageEnd(f) /\ f.load + f.len > f.addr
    IN IF ~image_get_fdt(f)
       THEN pc' = "loados" /\ UNCHANGED <<images, mem, ret>>
       ELSE IF f.load \in {f.addr, Data(f)}
       THEN /\ images' = [images EXCEPT !.fdt = [start |-> f.load, len |-> f.len]]
            /\ pc' = "loados"
            /\ UNCHANGED <<mem, ret>>
       ELSE IF clash
       THEN Fails("error") /\ UNCHANGED <<images, mem>>
       ELSE /\ mem' = Copied(mem, f.load, Data(f), f.len)
            /\ images' = [images EXCEPT !.fdt = [start |-> f.load, len |-> f.len]]
            /\ pc' = "loados"
            /\ UNCHANGED ret

\* The third part of a multi image; its header and size are checked.
FdtFromMulti(k) ==
    LET part == image_multi_getimg(k, 3)
    IN IF part.len # 0 /\ ~k.tree
       THEN Fails("error") /\ UNCHANGED <<images, mem>>
       ELSE /\ images' = [images EXCEPT !.fdt = part]
            /\ pc' = "loados"
            /\ UNCHANGED <<mem, ret>>

\* boot_get_fdt: a wrong tree of its own is ignored, one in a multi image is an error.
boot_get_fdt ==
    /\ pc = "fdt"
    /\ LET f == job.fdt
           multi == f.format = "none" /\ ~job.skipfdt /\ job.kernel.type = "multi"
       IN CASE f.format = "legacy" -> FdtFromLegacy(f)
            [] multi -> FdtFromMulti(job.kernel)
            [] OTHER ->
                 /\ images' = [images EXCEPT !.fdt =
                       IF f.format = "raw" THEN [start |-> Data(f), len |-> f.len] ELSE Null]
                 /\ pc' = "loados"
                 /\ UNCHANGED <<mem, ret>>
    /\ UNCHANGED <<job, lmb, irq>>

\* What image_decomp does: the length it loaded, and the memory afterwards.
image_decomp(k, os, load) ==
    CASE k.comp = "none" /\ load = os.start -> [err |-> "ok", n |-> os.len, m |-> mem]
      [] k.comp = "none" /\ load # os.start /\ os.len <= BootmLen ->
           [err |-> "ok", n |-> RoundUp8(os.len),
            m |-> Copied(mem, load, os.start, RoundUp8(os.len))]
      [] k.comp = "none" /\ load # os.start /\ os.len > BootmLen ->
           [err |-> "reset", n |-> 0, m |-> mem]
      [] k.comp = "gzip" ->
           LET n == IF 2 * os.len < BootmLen THEN 2 * os.len ELSE BootmLen
               over == Cells(load, n) \cap Cells(os.start, os.len) # {}
           IN [err |-> IF 2 * os.len > BootmLen THEN "reset" ELSE "ok", n |-> n,
               m |-> [a \in DOMAIN mem |->
                        IF a \in Cells(load, n)
                        THEN IF over THEN "garbage" ELSE <<"kernel", a - load>>
                        ELSE mem[a]]]
      [] OTHER -> [err |-> "unimplemented", n |-> 0, m |-> mem]

(* Mutated form: the loaded kernel is not reserved. *)
bootm_load_os_Unreserved ==
    /\ pc = "loados"
    /\ LET k == job.kernel
           d == image_decomp(k, images.os, images.load)
       IN /\ mem' = d.m
          /\ IF d.err # "ok" THEN pc' = "err" /\ ret' = d.err
             ELSE pc' = "high" /\ UNCHANGED ret
    /\ irq' = FALSE
    /\ UNCHANGED <<job, images, lmb>>

\* bootm_disable_interrupts and bootm_load_os. A legacy image that is
\* overwritten by its own kernel is booted all the same, but not reserved.
bootm_load_os ==
    /\ pc = "loados"
    /\ LET k == job.kernel
           load == images.load
           d == image_decomp(k, images.os, load)
           inplace == k.comp = "none" /\ load = images.os.start
           overlap == ~inplace /\ load < images.end /\ load + d.n > k.addr
       IN /\ mem' = d.m
          /\ IF d.err # "ok"
             THEN pc' = "err" /\ ret' = d.err /\ UNCHANGED lmb
             ELSE /\ pc' = "high"
                  /\ lmb' = IF overlap THEN lmb ELSE lmb_reserve(lmb, load, d.n)
                  /\ UNCHANGED ret
    /\ irq' = FALSE
    /\ UNCHANGED <<job, images>>

\* boot_ramdisk_high. A failure returns from do_bootm_states without
\* passing its err label, where interrupts are enabled again.
boot_ramdisk_high ==
    /\ pc = "high"
    /\ LET rd == images.rd
           inplace == job.initrd_high = InPlace
           to == IF inplace THEN rd.start
                 ELSE lmb_alloc_base(lmb, rd.len, Below(job.initrd_high))
       IN IF rd.start = 0
          THEN pc' = "bootfn" /\ UNCHANGED <<images, lmb, mem, ret>>
          ELSE IF to = 0
          THEN Fails("norelocation") /\ UNCHANGED <<images, lmb, mem>>
          ELSE /\ mem' = IF inplace THEN mem ELSE Copied(mem, to, rd.start, rd.len)
               /\ lmb' = lmb_reserve(lmb, to, rd.len)
               /\ images' = [images EXCEPT !.initrd = [start |-> to, len |-> rd.len]]
               /\ pc' = "bootfn"
               /\ UNCHANGED ret
    /\ UNCHANGED <<job, irq>>

\* bootm_os_get_boot_func: only some systems are built in.
bootm_os_get_boot_func ==
    /\ pc = "bootfn"
    /\ IF job.kernel.os \in {"linux", "uboot"}
       THEN pc' = "prep" /\ UNCHANGED <<irq, ret>>
       ELSE Fails("error") /\ irq' = TRUE
    /\ UNCHANGED <<job, mem, images, lmb>>

\* boot_fdt_add_mem_rsv_regions: what the tree itself reserves.
boot_fdt_add_mem_rsv_regions(set) ==
    IF job.rsv = {} THEN set ELSE lmb_reserve(set, Min(job.rsv), Cardinality(job.rsv))

\* boot_relocate_fdt: where the tree goes, 0 when there is no room.
boot_relocate_fdt(set) ==
    IF job.fdt_high = InPlace THEN images.fdt.start
    ELSE lmb_alloc_base(set, images.fdt.len + Pad, Below(job.fdt_high))

\* image_setup_libfdt writes /chosen with the ramdisk's place into the tree, which
\* grows into the padding, and replaces the tree's reservation.
image_setup_libfdt(set, to) ==
    LET n == images.fdt.len + Pad
        whole == \A i \in 0 .. images.fdt.len - 1 : mem[images.fdt.start + i] = <<"fdt", i>>
    IN /\ mem' = [a \in DOMAIN mem |->
                     IF a \in Cells(to, n)
                     THEN IF whole THEN <<"fdt", a - to>> ELSE "garbage"
                     ELSE mem[a]]
       /\ lmb' = lmb_reserve(set, to, n)
       /\ images' = [images EXCEPT !.fdt = [start |-> to, len |-> n], !.told = images.initrd]
       /\ pc' = "go"

\* image_setup_linux: what is no longer a tree, or finds no room, is an error.
image_setup_linux ==
    LET set == boot_fdt_add_mem_rsv_regions(lmb)
        to == boot_relocate_fdt(set)
    IN IF to = 0 \/ mem[images.fdt.start] # <<"fdt", 0>>
       THEN pc' = "hung" /\ UNCHANGED <<mem, lmb, images>>
       ELSE image_setup_libfdt(set, to)

\* boot_prep_linux: a tree, else ATAGs with the ramdisk's place, else hang.
boot_prep_linux ==
    IF images.fdt.len # 0 THEN image_setup_linux
    ELSE IF Tags
    THEN /\ mem' = [mem EXCEPT ![Params] = "tags"]
         /\ images' = [images EXCEPT !.told = IF images.initrd.start # 0
                                              THEN images.initrd ELSE images.rd]
         /\ pc' = "go"
         /\ UNCHANGED lmb
    ELSE pc' = "hung" /\ UNCHANGED <<mem, lmb, images>>

\* do_bootm_standalone looks at autostart and not at the state it is called for.
do_bootm_standalone ==
    images' = IF job.autostart THEN [images EXCEPT !.runs = @ + 1] ELSE images

\* The OS_PREP stage.
do_bootm_prep ==
    /\ pc = "prep"
    /\ IF job.kernel.os = "linux"
       THEN boot_prep_linux
       ELSE do_bootm_standalone /\ pc' = "go" /\ UNCHANGED <<mem, lmb>>
    /\ UNCHANGED <<job, irq, ret>>

\* boot_selected_os with boot_jump_linux: a machid that is no number makes
\* it return, and a kernel that returns means reset.
boot_selected_os ==
    /\ pc = "go"
    /\ IF job.kernel.os = "linux"
       THEN /\ images' = images
            /\ IF job.machid = "bad" THEN pc' = "err" /\ ret' = "reset"
               ELSE pc' = "kernel" /\ ret' = ret
       ELSE /\ do_bootm_standalone
            /\ pc' = "err"
            /\ ret' = IF job.kernel.type = "standalone" THEN "ok" ELSE "reset"
    /\ UNCHANGED <<job, mem, lmb, irq>>

\* The err label of do_bootm_states.
DealWithFallout ==
    /\ pc = "err"
    /\ irq' = TRUE
    /\ pc' = IF ret = "reset" THEN "reset" ELSE "shell"
    /\ UNCHANGED <<job, mem, images, lmb, ret>>

\* do_reset, and power on again after a hang or a running kernel.
do_reset ==
    /\ pc \in {"reset", "hung", "kernel"} \/ (pc = "shell" /\ ~irq)
    /\ pc' = "shell"
    /\ irq' = TRUE
    /\ ret' = "none"
    /\ UNCHANGED <<job, mem, images, lmb>>

BootmInit ==
    /\ pc = "shell"
    /\ job = CHOOSE j \in Jobs : TRUE
    /\ mem = Placed(job)
    /\ images = NoImages
    /\ lmb = {}
    /\ irq = TRUE
    /\ ret = "none"

BootmNext ==
    \/ \E j \in Jobs : bootm(j)
    \/ bootm_find_os
    \/ boot_get_ramdisk
    \/ boot_get_fdt
    \/ bootm_load_os
    \/ boot_ramdisk_high
    \/ bootm_os_get_boot_func
    \/ do_bootm_prep
    \/ boot_selected_os
    \/ DealWithFallout
    \/ do_reset

BootmTypeOK ==
    /\ pc \in {"shell", "findos", "ramdisk", "fdt", "loados", "high", "bootfn", "prep", "go",
               "err", "kernel", "reset", "hung"}
    /\ job \in Jobs
    /\ DOMAIN mem = Flash \cup Ram
    /\ lmb \subseteq Flash \cup Ram
    /\ irq \in BOOLEAN

\* What the kernel is told of the ramdisk.
Told == images.told

(***************************************************************************)
(* What nothing in the code checks: a piece may be written over another    *)
(* one that is still to be moved, or that the lmb does not know.           *)
(***************************************************************************)
\* Where bootm_load_os put the kernel, with the rounding of dma_copy.
Loaded ==
    LET k == job.kernel
        n == images.os.len
    IN IF k.comp = "none"
       THEN IF images.load = images.os.start THEN {} ELSE Cells(images.load, RoundUp8(n))
       ELSE Cells(images.load, 2 * n)
\* Where boot_get_fdt moved a wrapped tree, and where the tree was from then on.
TreeMoved ==
    LET f == job.fdt
    IN IF f.format = "legacy" /\ f.load \notin {f.addr, Data(f)} THEN Cells(f.load, f.len) ELSE {}
TreeFrom ==
    LET f == job.fdt
    IN CASE f.format = "legacy" -> Cells(f.load, f.len)
         [] f.format = "raw" -> Cells(Data(f), f.len)
         [] OTHER -> LET part == image_multi_getimg(job.kernel, 3) IN Cells(part.start, part.len)
RdFrom == Cells(images.rd.start, images.rd.len)
RdTo == IF images.initrd.start = images.rd.start THEN {}
        ELSE Cells(images.initrd.start, images.initrd.len)
\* The kernel overwrote its image: BOOTM_ERR_OVERLAP, it is not in the lmb.
Unreserved == Loaded # {} /\ images.load < images.end /\ Max(Loaded) >= job.kernel.addr

KernelHit == TreeMoved \cap Cells(images.os.start, images.os.len) # {}
RdHit == (TreeMoved \cup Loaded) \cap RdFrom # {}
TreeHit == (Loaded \cup RdTo) \cap TreeFrom # {}

(***************************************************************************)
(* Whenever control passes to Linux, what the kernel is handed is whole:   *)
(* every cell of the kernel is at its load address, the ramdisk it is told *)
(* of is complete, the tree is complete, none of the three overlaps        *)
(* another or U-Boot's stack, the tree keeps off the memory it reserves,   *)
(* and interrupts are off.  bootm_load_os, boot_ramdisk_high and           *)
(* boot_relocate_fdt each move one of them by an lmb that the others must  *)
(* have been entered into first.  Excepted is a piece whose source was     *)
(* overwritten before it was moved, ramdisk or tree placed on a kernel     *)
(* that overlapped its image, a tree left in place that grows into what    *)
(* lies behind it, and what lies where ATAGs go.  Back at the prompt       *)
(* interrupts are on again, except after boot_ramdisk_high failed.         *)
(***************************************************************************)
HandedOverWhole ==
    LET n == IF job.kernel.comp = "gzip" THEN 2 * images.os.len ELSE images.os.len
        kern == Cells(images.load, n)
        rd == Cells(Told.start, Told.len)
        tree == Cells(images.fdt.start, images.fdt.len)
        onKernel == Unreserved /\ kern \cap (rd \cup tree) # {}
        grown == job.fdt_high = InPlace /\ tree \cap (kern \cup rd) # {}
        tags == images.fdt.len = 0 /\ Params \in kern \cup rd
    IN /\ pc = "kernel" =>
            /\ images.ep \in kern
            /\ KernelHit \/ onKernel \/ grown \/ tags \/ \A a \in kern : mem[a] = <<"kernel", a - images.load>>
            /\ RdHit \/ grown \/ tags \/ \A a \in rd : mem[a] = <<"rd", a - Told.start>>
            /\ TreeHit \/ \A a \in tree : mem[a] = <<"fdt", a - images.fdt.start>>
            /\ Told.len = images.rd.len
            /\ kern \cap rd = {} \/ onKernel \/ RdHit
            /\ kern \cap tree = {} \/ onKernel \/ grown
            /\ rd \cap tree = {} \/ grown
            /\ \A a \in kern \cup rd \cup tree : a \in Ram => a < Sp
            /\ job.fdt_high # InPlace => tree \cap job.rsv = {}
            /\ ~irq
       /\ pc = "shell" => irq \/ ret = "norelocation"

(***************************************************************************)
(* The ramdisk handed to Linux keeps off the memory the device tree        *)
(* reserves: "Adding the memreserve regions prevents u-boot from using     *)
(* them to store the initrd or the fdt blob" (boot_fdt_add_mem_rsv_regions *)
(* in image-fdt.c). do_bootm_states moves the ramdisk first.               *)
(***************************************************************************)
InitrdOffReserved ==
    pc = "kernel" /\ job.initrd_high # InPlace => Cells(Told.start, Told.len) \cap job.rsv = {}
=============================================================================
