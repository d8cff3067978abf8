------------------------------ MODULE UbootUpdate -----------------------------
(***************************************************************************)
(* The update command of u-boot/common/cmd_update.c: images that arrive in *)
(* memory are written to the places of the flash that the device tree and  *)
(* the environment name, and the environment is told where the device tree *)
(* is.  An image is a kind and a version; a container file (linux.bin) is  *)
(* a sequence of sections.  Saving the environment is one step, which can  *)
(* fail (UbootEnv); writing an image can fail half way; power can be cut.  *)
(* This is the build without FIT images and encryption, on NOR flash.      *)
(***************************************************************************)
EXTENDS Naturals, Sequences

CONSTANTS Versions,      \* versions of an image, 1..n
          Home,          \* Home[v]: where device tree v places itself, 0 if nowhere
          KernelHome,    \* KernelHome[v]: where it places the kernel
          FdtFlashAddr,  \* CONFIG_FDT_FLASH_ADDR
          Places,        \* offsets in the flash; the boot loader is at 0
          Files,         \* the container files: sequences of sections
          Words          \* the integers are modulo Words (2^32 in the code)

Sections == [kind: {"dtb", "kernel", "uboot", "end"}, ver: Versions \cup {0}, place: Places, len: Nat]

ASSUME UpdateAssumption ==
    /\ Versions \subseteq Nat \ {0} /\ Places \subseteq Nat /\ 0 \in Places
    /\ Home \in [Versions -> Places] /\ KernelHome \in [Versions -> Places]
    /\ FdtFlashAddr \in Places \ {0}
    /\ Files \subseteq Seq(Sections) /\ Words \in Nat \ {0}

VARIABLES flash,         \* what is at each place
          saved,         \* dtb_offset of the environment in flash
          env,           \* dtb_offset of the environment in memory
          memFdt,        \* the device tree at dtb_addr: its version, 0 if not valid
          fdtSet,        \* kernel_fdt points to it (and is not NULL)
          dtbLen,        \* is the static variable dtb_len not 0?
          cmd,           \* the step of the command that runs
          file,          \* the image or the container that was received
          index,         \* the section at ram_offset
          left,          \* all_len
          before,        \* history: the flash when the command started
          told,          \* history: the device tree that the last update that
                         \* returned success has put in flash, 0 if none
          savedOk,       \* history: the environment of this command was saved
          stopped        \* history: a transfer, a save or a write of a device
                         \* tree failed in this boot and was not made good

fdtVars == <<memFdt, fdtSet, dtbLen>>
updVars == <<flash, saved, env, memFdt, fdtSet, dtbLen, cmd, file, index, left,
             before, told, savedOk, stopped>>

Images == [kind: {"none", "dtb", "kernel", "uboot"}, ver: Versions \cup {0}]
Image(kind, v) == [kind |-> kind, ver |-> v]
Blank == Image("none", 0)
NoFile == <<>>

\* The header of a container (0x100) and of a section (0x24), in units.
FileHeader == 1
SectionHeader == 1
\* Sizes(f)[i]: the length of the first i sections.
Sizes(f) ==
    LET Size[i \in 0..Len(f)] ==
            IF i = 0 THEN 0 ELSE Size[i - 1] + f[i].len + SectionHeader
    IN  Size
FileLen(f) == (FileHeader + Sizes(f)[Len(f)]) % Words

\* The offsets at which a device tree may be.
DtbSections(f) == {i \in DOMAIN f: f[i].kind = "dtb"}
DtbPlaces ==
    {FdtFlashAddr} \cup {Home[v]: v \in {w \in Versions: Home[w] # 0}}
    \cup UNION {{f[i].place: i \in DtbSections(f)}: f \in Files}

\* The layout of a flash: a device tree that places the kernel places itself
\* too, elsewhere.
ASSUME LayoutAssumption ==
    \A v \in Versions: KernelHome[v] # 0 => Home[v] # 0 /\ Home[v] # KernelHome[v]
\* The container files: their length fits into an integer; there is one
\* device tree at most, not at 0 and not where it places the kernel; the other
\* images go to places without a device tree; nothing follows the end.
ASSUME FilesAssumption ==
    \A f \in Files:
       /\ FileHeader + Sizes(f)[Len(f)] < Words
       /\ \A i \in DOMAIN f:
             /\ f[i].kind = "dtb" =>
                   /\ f[i].ver # 0 /\ f[i].place # 0
                   /\ f[i].len # 0 => KernelHome[f[i].ver] # f[i].place
                   /\ DtbSections(f) = {i}
             /\ f[i].kind \in {"kernel", "uboot"} => f[i].place \notin DtbPlaces
             /\ f[i].kind = "end" => \A j \in DOMAIN f: j > i => f[j].kind = "end"


\* What dma_copy_dtb_to_ddr finds at an offset: fdt_valid on it, or 0.
FdtAt(fl, offset) == IF fl[offset].kind = "dtb" THEN fl[offset].ver ELSE 0

\* The device tree that _do_get_offset and _do_get_size look into.  One that is
\* not valid is copied from flash again; dtb_len says how much of it.
FdtInUse ==
    IF (fdtSet /\ memFdt # 0) \/ ~dtbLen THEN memFdt ELSE FdtAt(flash, env)

\* _do_get_offset: 0 without a device tree, and for a label it does not have.
GetOffset(table, fdt) == IF fdt = 0 THEN 0 ELSE table[fdt]

\* What a write that is stopped leaves at its place.
Partly(place) == {flash, [flash EXCEPT ![place] = Blank]}

-----------------------------------------------------------------------------
\* The board comes with a device tree at CONFIG_FDT_FLASH_ADDR, which need not be
\* the place the device tree names itself; the kernel does not overlap it.
Factory(v) == [p \in Places |-> IF p = FdtFlashAddr THEN Image("dtb", v) ELSE Blank]

UpdInit ==
    /\ flash \in {Factory(v): v \in {w \in Versions: KernelHome[w] # FdtFlashAddr}}
    /\ saved = FdtFlashAddr /\ env = FdtFlashAddr
    /\ memFdt = FdtAt(flash, env) /\ fdtSet = TRUE /\ dtbLen = TRUE
    /\ cmd = "idle" /\ file = NoFile /\ index = 0 /\ left = 0
    /\ before = flash
    /\ told = 0 /\ savedOk = FALSE /\ stopped = FALSE

Begin == cmd = "idle" /\ before' = flash /\ savedOk' = FALSE
Return == cmd' = "idle" /\ file' = NoFile /\ index' = 0 /\ left' = 0
Received(kind, v, place) ==
    IF v = 0 THEN NoFile
    ELSE <<[kind |-> kind, ver |-> v, place |-> place, len |-> 1]>>

\* The offset to which a device tree is written, and which goes into the
\* environment when it differs.
DtbOffset(fdt) == IF GetOffset(Home, fdt) # 0 THEN GetOffset(Home, fdt) ELSE env

\* do_update_dtb up to env_save.  v is the version received, 0 if the transfer
\* failed: the length is then 0, and the device tree in memory stays.
UpdateDtb(v) ==
    /\ Begin
    /\ memFdt' = IF v # 0 THEN v ELSE memFdt
    /\ dtbLen' = (v # 0)
    /\ fdtSet' = (memFdt' # 0)
    /\ env' = DtbOffset(memFdt')
    /\ file' = Received("dtb", v, env')
    /\ cmd' = "dtbsave"
    /\ stopped' = (stopped \/ v = 0)
    /\ told' = 0
    /\ UNCHANGED <<flash, saved, index, left>>

\* env_save: its result is not looked at.
Save(ok) == saved' = IF ok THEN env' ELSE saved

DtbSave(ok) ==
    /\ cmd = "dtbsave"
    /\ env' = env
    /\ Save(ok)
    /\ savedOk' = ok
    /\ stopped' = (stopped \/ ~ok)
    /\ cmd' = "write"
    /\ UNCHANGED <<flash, fdtVars, file, index, left, before, told>>

\* do_update_kernel up to the write: the kernel goes where the device tree in
\* memory says.
UpdateKernel(v) ==
    /\ Begin
    /\ memFdt' = FdtInUse
    /\ fdtSet' = (memFdt' # 0)
    /\ LET offset == GetOffset(KernelHome, memFdt')
       IN  /\ cmd' = IF offset = 0 THEN "idle" ELSE "write"
           /\ file' = IF offset = 0 THEN NoFile ELSE Received("kernel", v, offset)
    /\ UNCHANGED <<flash, saved, env, dtbLen, index, left, told, stopped>>

\* do_update_uboot: the boot loader goes to offset 0.
UpdateUboot(v) ==
    /\ Begin
    /\ file' = Received("uboot", v, 0)
    /\ cmd' = "write"
    /\ UNCHANGED <<flash, saved, env, fdtVars, index, left, told, stopped>>

\* _do_write_file_ of one image, and the end of the command: nothing is written
\* of a file of length 0.
WriteFile(ok) ==
    /\ cmd = "write"
    /\ IF file = NoFile THEN ~ok /\ flash' = flash
       ELSE flash' \in IF ok THEN {[flash EXCEPT ![file[1].place] =
                                        Image(file[1].kind, file[1].ver)]}
                       ELSE Partly(file[1].place)
    /\ IF file # NoFile /\ file[1].kind = "dtb"
       THEN /\ told' = IF ok /\ savedOk THEN file[1].ver ELSE 0
            /\ stopped' = IF ok THEN ~savedOk ELSE TRUE
       ELSE UNCHANGED <<told, stopped>>
    /\ Return
    /\ UNCHANGED <<saved, env, fdtVars, before, savedOk>>

-----------------------------------------------------------------------------
\* do_update_all and load_bin_from_sd, up to the loop of _do_write_all_.
UpdateAll(f) ==
    /\ Begin
    /\ file' = f
    /\ index' = 1
    /\ left' = (FileLen(f) + Words - FileHeader) % Words
    /\ cmd' = "all"
    /\ told' = 0
    /\ UNCHANGED <<flash, saved, env, fdtVars, stopped>>

\* The test of the loop, and the section that ends the file.
AllEnds == left # 0 => file[index].kind = "end"

\* The device tree of a container that was written to the end.
DtbOf(f) == IF DtbSections(f) = {} THEN 0 ELSE f[CHOOSE i \in DtbSections(f): TRUE].ver

AllDone ==
    /\ cmd = "all" /\ AllEnds
    /\ told' = IF savedOk THEN DtbOf(file) ELSE 0
    /\ stopped' = IF DtbOf(file) # 0 /\ fdtSet THEN ~savedOk ELSE stopped
    /\ Return
    /\ UNCHANGED <<flash, saved, env, fdtVars, before, savedOk>>

\* The case of the device tree: its offset goes into the environment if it
\* differs, and the environment is saved; the device tree is copied to dtb_addr.
AllSection(ok) ==
    /\ cmd = "all" /\ ~AllEnds
    /\ IF file[index].kind = "dtb"
       THEN /\ env' = file[index].place
            /\ Save(ok)
            /\ savedOk' = ok
            /\ memFdt' = file[index].ver
            /\ stopped' = TRUE
       ELSE ok /\ UNCHANGED <<env, saved, savedOk, memFdt, stopped>>
    /\ cmd' = "allwrite"
    /\ UNCHANGED <<flash, fdtSet, dtbLen, file, index, left, before, told>>

(* Mutated form: the header is not counted. *)
LeftAfter_NoHeader(n) == (left + Words - n) % Words
\* all_len -= filelen + 0x24, in the width of the code.
LeftAfter(n) == (left + Words - (n + SectionHeader)) % Words

AllWrite ==
    /\ cmd = "allwrite"
    /\ file[index].len # 0
    /\ flash' = [flash EXCEPT ![file[index].place] =
                     Image(file[index].kind, file[index].ver)]
    /\ left' = LeftAfter(file[index].len)
    /\ index' = index + 1
    /\ cmd' = "all"
    /\ UNCHANGED <<saved, env, fdtVars, file, before, told, savedOk, stopped>>

\* _do_write_file_ fails, or refuses a section of length 0: the rest of the file
\* is not written.
AllFails ==
    /\ cmd = "allwrite"
    /\ flash' \in IF file[index].len = 0 THEN {flash} ELSE Partly(file[index].place)
    /\ Return
    /\ UNCHANGED <<saved, env, fdtVars, before, told, savedOk, stopped>>

\* Power is cut, during a write or not, and comes back: the environment and the
\* device tree are read again (initr_get_fdt_offset).
Restart ==
    /\ flash' \in CASE cmd = "write" /\ file # NoFile -> Partly(file[1].place)
                    [] cmd = "allwrite" -> Partly(file[index].place)
                    [] OTHER -> {flash}
    /\ env' = saved
    /\ memFdt' = FdtAt(flash', saved)
    /\ fdtSet' = (memFdt' # 0)
    /\ dtbLen' = TRUE
    /\ stopped' = FALSE
    /\ before' = flash' /\ savedOk' = FALSE
    /\ Return
    /\ UNCHANGED <<saved, told>>

UpdNext ==
    \/ \E v \in Versions \cup {0}: UpdateDtb(v) \/ UpdateKernel(v) \/ UpdateUboot(v)
    \/ \E ok \in BOOLEAN: DtbSave(ok) \/ WriteFile(ok) \/ AllSection(ok)
    \/ \E f \in Files: UpdateAll(f)
    \/ AllDone \/ AllWrite \/ AllFails \/ Restart

UpdSpec == UpdInit /\ [][UpdNext]_updVars

-----------------------------------------------------------------------------
\* Places and versions are known ones, and the loop of _do_write_all_ stays within
\* its file.
UpdTypeOK ==
    /\ flash \in [Places -> Images]
    /\ saved \in Places /\ env \in Places
    /\ memFdt \in Versions \cup {0} /\ fdtSet \in BOOLEAN /\ dtbLen \in BOOLEAN
    /\ cmd \in {"idle", "dtbsave", "write", "all", "allwrite"}
    /\ index \in 0..(Len(file) + 1) /\ left \in 0..(Words - 1)
    /\ told \in Versions \cup {0}
    /\ savedOk \in BOOLEAN /\ stopped \in BOOLEAN

\* When `update dtb' or `update all' has returned success and its environment
\* was saved, the next boot finds exactly the device tree of that update,
\* whatever offsets the old and the new one name.
DtbWhereToldSo == told # 0 => flash[saved] = Image("dtb", told)

\* The device tree in memory, from which later updates take the offsets they
\* write to, is the one that the next boot will find, unless a transfer, a save
\* or a write of a device tree failed in this boot.
FdtCoherent == cmd = "idle" /\ fdtSet /\ ~stopped => memFdt = FdtAt(flash, saved)

\* FlashAfter(fl, f)[n]: the first n sections of f, written one after the other.
FlashAfter(fl, f) ==
    LET F[i \in 0..Len(f)] ==
            IF i = 0 THEN fl
            ELSE [F[i - 1] EXCEPT ![f[i].place] = Image(f[i].kind, f[i].ver)]
    IN  F

\* `update all' writes the sections of its file in order, each once, and the
\* header it reads next is that of a section of the file, never what lies behind
\* it in memory; when the loop ends every section has been written.
AllInOrder ==
    cmd \in {"all", "allwrite"} =>
       /\ flash = FlashAfter(before, file)[index - 1]
       /\ left # 0 => index <= Len(file)
       /\ AllEnds => \A i \in index..Len(file): file[i].kind = "end"

\* A device tree is where a successful update has said it is, later updates
\* use the device tree that the next boot will find, and `update all' writes
\* the sections of its file in order and once (do_update_dtb, _do_write_all_,
\* _do_get_offset).
UpdateCoherent == UpdTypeOK /\ DtbWhereToldSo /\ FdtCoherent /\ AllInOrder
=============================================================================
