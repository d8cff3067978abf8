------------------------------ MODULE GpioLib ------------------------------
(***************************************************************************)
(* One GPIO chip of gpiolib (drivers/gpio/gpiolib.c, gpiolib-sysfs.c): the *)
(* flags of its lines, the references to its gpio_device and the threads   *)
(* that use it.  Line handles and line events are files opened through the *)
(* character device; a line may be exported through sysfs; the driver may  *)
(* be unbound at any time.  chip->request and chip->free may sleep: they   *)
(* are called between two critical sections of gpio_lock, and every        *)
(* request and every free is two steps.                                    *)
(***************************************************************************)
EXTENDS Integers, Sequences, FiniteSets

CONSTANTS
  N,           \* the number of lines of the chip
  Exportable,  \* the lines userspace exports through sysfs
  Handles,     \* line handle files
  Events,      \* line event files
  LinesOf      \* the lines a file asks for, in order

LibLines == 1..N

(* The threads: the files, one writer each of sysfs export and unexport    *)
(* per line, and gpiochip_remove.                                          *)
Files == Handles \cup Events
Exporter(l) == <<"export", l>>
Unexporter(l) == <<"unexport", l>>
Remover == <<"remove">>
Exporters == {Exporter(l) : l \in Exportable}
Unexporters == {Unexporter(l) : l \in Exportable}

(* Lines are numbered from 1, a file asks for one line at least            *)
(* (linehandle_create), and the files are not the other threads.           *)
ASSUME LibAssumption ==
  /\ N \in Nat /\ Exportable \subseteq LibLines
  /\ IsFiniteSet(Handles) /\ IsFiniteSet(Events)
  /\ LinesOf \in [Files -> Seq(LibLines) \ {<< >>}]
  /\ Files \cap (Exporters \cup Unexporters \cup {Remover}) = {}

VARIABLES
  chip,      \* gdev->chip is not NULL
  mockdev,   \* gdev->mockdev is not NULL
  flags,     \* desc->flags of every line
  granted,   \* the lines the chip driver has granted and not got back
  refs,      \* references to the gpio_device
  at, idx,   \* where a thread is, and its place in its list of lines
  owns,      \* the lines a thread has requested itself (auxiliary)
  stranded   \* lines freed after the chip was gone (history)

threadVars == <<at, idx, owns>>
libVars == <<chip, mockdev, flags, granted, refs, threadVars, stranded>>

Flags == {"REQUESTED", "IS_OUT", "EXPORT", "SYSFS", "USED_AS_IRQ"}
Threads == Handles \cup Events \cup Exporters \cup Unexporters \cup {Remover}
Todo(t) ==
  IF t \in Exporters \cup Unexporters THEN <<t[2]>>
  ELSE LinesOf[t]
LineAt(t) == Todo(t)[idx[t]]

(* Known flags and places; the references to the device are counted. *)
LibTypeOK ==
  /\ chip \in BOOLEAN /\ mockdev \in BOOLEAN
  /\ flags \in [LibLines -> SUBSET Flags] /\ granted \subseteq LibLines
  /\ refs \in Nat /\ owns \in [Threads -> SUBSET LibLines] /\ stranded \subseteq LibLines
  /\ at \in [Threads -> {"closed", "request", "asking", "setup", "publish", "open", "free", "freeing"}]
  /\ idx \in [Threads -> Nat]

LibInit ==
  /\ chip = TRUE /\ mockdev = TRUE
  /\ flags = [l \in LibLines |-> {}] /\ granted = {} /\ refs = 1
  /\ at = [t \in Threads |-> "closed"] /\ idx = [t \in Threads |-> 1]
  /\ owns = [t \in Threads |-> {}] /\ stranded = {}

Go(t, place) == at' = [at EXCEPT ![t] = place]
GoTo(t, place, i) == Go(t, place) /\ idx' = [idx EXCEPT ![t] = i]
SetFlags(l, on, off) == flags' = [flags EXCEPT ![l] = (@ \ off) \cup on]

-----------------------------------------------------------------------------
(* gpiod_request and gpiod_free, as every thread uses them. *)

(* Opening a line through the character device starts with a reference to  *)
(* the device; export_store takes none.  gpio_chrdev_open refuses a device *)
(* without a chip, but a file opened before may still ask; export_store    *)
(* reads the chip, NULL once it has gone, before it requests the line,     *)
(* which is a crash there and a request without effect here.               *)
Start(t) ==
  /\ t \in Files \cup Exporters /\ at[t] = "closed" /\ refs > 0
  /\ refs' = IF t \in Files THEN refs + 1 ELSE refs
  /\ GoTo(t, "request", 1)
  /\ UNCHANGED <<chip, mockdev, flags, granted, owns, stranded>>

(* A request fails: what the thread already has is freed again. *)
Abort(t) == IF idx[t] > 1 THEN GoTo(t, "free", idx[t] - 1) ELSE GoTo(t, "free", 0)

LineFree(l) == "REQUESTED" \notin flags[l]

(* The first critical section.  With the chip gone validate_desc answers 0 *)
(* and the request "succeeds".                                             *)
Request(t) ==
  /\ at[t] = "request"
  /\ CASE ~chip -> Go(t, "setup") /\ UNCHANGED <<flags, idx>>
       [] chip /\ LineFree(LineAt(t)) ->
            SetFlags(LineAt(t), {"REQUESTED"}, {}) /\ Go(t, "asking") /\ UNCHANGED idx
       [] chip /\ ~LineFree(LineAt(t)) -> Abort(t) /\ UNCHANGED flags
  /\ UNCHANGED <<chip, mockdev, granted, refs, owns, stranded>>

(* chip->request grants the line (rts_gpio_request: the pin was free). *)
RequestGranted(t) ==
  /\ at[t] = "asking"
  /\ granted' = granted \cup {LineAt(t)} /\ refs' = refs + 1
  /\ owns' = [owns EXCEPT ![t] = @ \cup {LineAt(t)}]
  /\ Go(t, "setup")
  /\ UNCHANGED <<chip, mockdev, flags, idx, stranded>>

(* chip->request refuses it: the flag is cleared again. *)
RequestRefused(t) ==
  /\ at[t] = "asking"
  /\ SetFlags(LineAt(t), {}, {"REQUESTED"}) /\ Abort(t)
  /\ UNCHANGED <<chip, mockdev, granted, refs, owns, stranded>>

(* Mutated form: the class device goes without its interrupt. *)
Unexported_KeepIrq(l) == flags[l] \ {"EXPORT"}

(* gpiod_unexport, part of every free: the class device goes, and with it  *)
(* its interrupt.                                                          *)
Unexported(l) == flags[l] \ {"EXPORT", "USED_AS_IRQ"}

(* gpiod_free up to the call of chip->free.  Without a chip, or a request, *)
(* only the unexport happens.                                              *)
Free(t) ==
  /\ at[t] = "free" /\ idx[t] > 0
  /\ LET l == LineAt(t) IN
     /\ flags' = [flags EXCEPT ![l] = IF "EXPORT" \in @ THEN Unexported(l) ELSE @]
     /\ IF chip /\ "REQUESTED" \in flags[l]
        THEN /\ granted' = granted \ {l} /\ Go(t, "freeing")
             /\ UNCHANGED <<idx, owns, stranded>>
        ELSE /\ stranded' = stranded \cup (owns[t] \cap {l})
             /\ owns' = [owns EXCEPT ![t] = @ \ {l}]
             /\ GoTo(t, "free", idx[t] - 1) /\ UNCHANGED granted
  /\ UNCHANGED <<chip, mockdev, refs>>

FreedFlags == {"REQUESTED"}

FreeDone(t) ==
  /\ at[t] = "freeing"
  /\ LET l == LineAt(t) IN
     /\ SetFlags(l, {}, FreedFlags)
     /\ owns' = [owns EXCEPT ![t] = @ \ {l}]
  /\ refs' = refs - 1 /\ GoTo(t, "free", idx[t] - 1)
  /\ UNCHANGED <<chip, mockdev, granted, stranded>>

(* All lines are freed: the file gives back its reference. *)
FilePut(t) == IF t \in Files THEN 1 ELSE 0
Closed(t) ==
  /\ t # Remover /\ at[t] = "free" /\ idx[t] = 0
  /\ refs' = refs - FilePut(t)
  /\ GoTo(t, "closed", 1)
  /\ UNCHANGED <<chip, mockdev, flags, granted, owns, stranded>>

-----------------------------------------------------------------------------
(* linehandle_create and lineevent_create, once a line is requested: the   *)
(* direction is set (an event line is an input) and the next line follows, *)
(* or the file is installed.                                               *)
SetUp(t) ==
  /\ t \in Files /\ at[t] = "setup"
  /\ \E out \in (IF t \in Handles THEN BOOLEAN ELSE {FALSE}) :
       IF ~chip THEN UNCHANGED flags
       ELSE IF out THEN SetFlags(LineAt(t), {"IS_OUT"}, {})
       ELSE SetFlags(LineAt(t), {}, {"IS_OUT"})
  /\ IF idx[t] < Len(Todo(t)) THEN GoTo(t, "request", idx[t] + 1) ELSE Go(t, "open") /\ UNCHANGED idx
  /\ UNCHANGED <<chip, mockdev, granted, refs, owns, stranded>>

(* Setting the direction, getting the interrupt or a file descriptor fails. *)
SetUpFails(t) ==
  /\ t \in Files /\ at[t] = "setup"
  /\ Go(t, "free")
  /\ UNCHANGED <<chip, mockdev, flags, granted, refs, idx, owns, stranded>>

Release(t) ==
  /\ t \in Files /\ at[t] = "open"
  /\ GoTo(t, "free", Len(Todo(t)))
  /\ UNCHANGED <<chip, mockdev, flags, granted, refs, owns, stranded>>

-----------------------------------------------------------------------------
(* sysfs *)

(* gpiod_export, under sysfs_lock. *)
Export(l) ==
  LET t == Exporter(l) IN
  /\ at[t] = "setup"
  /\ IF chip /\ mockdev /\ "REQUESTED" \in flags[l] /\ "EXPORT" \notin flags[l]
     THEN SetFlags(l, {"EXPORT"}, {}) /\ Go(t, "publish")
     ELSE Go(t, "free") /\ UNCHANGED flags
  /\ UNCHANGED <<chip, mockdev, granted, refs, idx, owns, stranded>>

(* export_store sets FLAG_SYSFS last: from here unexport may undo it. *)
Publish(l) ==
  LET t == Exporter(l) IN
  /\ at[t] = "publish"
  /\ SetFlags(l, {"SYSFS"}, {})
  /\ owns' = [owns EXCEPT ![t] = {}] /\ GoTo(t, "closed", 1)
  /\ UNCHANGED <<chip, mockdev, granted, refs, stranded>>

(* unexport_store: one writer clears FLAG_SYSFS and frees the line. *)
TakeOver(t, l) == "SYSFS" \in flags[l] /\ SetFlags(l, {}, {"SYSFS"})
Unexport(l) ==
  LET t == Unexporter(l) IN
  /\ at[t] = "closed" /\ TakeOver(t, l)
  /\ owns' = [owns EXCEPT ![t] = {l}] /\ GoTo(t, "free", 1)
  /\ UNCHANGED <<chip, mockdev, granted, refs, stranded>>

(* direction_store uses the raw output call, which does not look at the    *)
(* interrupt; edge_store locks an input line for its interrupt.            *)
DirectionStore(l, out) ==
  /\ chip /\ "EXPORT" \in flags[l]
  /\ IF out THEN SetFlags(l, {"IS_OUT"}, {}) ELSE SetFlags(l, {}, {"IS_OUT"})
  /\ UNCHANGED <<chip, mockdev, granted, refs, threadVars, stranded>>
EdgeStore(l) ==
  /\ chip /\ "EXPORT" \in flags[l]
  /\ IF "USED_AS_IRQ" \in flags[l] THEN SetFlags(l, {}, {"USED_AS_IRQ"})
     ELSE "IS_OUT" \notin flags[l] /\ SetFlags(l, {"USED_AS_IRQ"}, {})
  /\ UNCHANGED <<chip, mockdev, granted, refs, threadVars, stranded>>

-----------------------------------------------------------------------------
(* gpiochip_remove.  No thread is inside a call into the driver: such a    *)
(* call on a chip being removed is a use after free, which is not modelled.*)

RemoveStart ==
  /\ at[Remover] = "closed" /\ chip
  /\ mockdev' = FALSE /\ Go(Remover, "open")
  /\ UNCHANGED <<chip, flags, granted, refs, idx, owns, stranded>>

(* gpiochip_sysfs_unregister frees, line by line, what userspace has       *)
(* exported: unexport_store in the remover's hands.                        *)
RemoveSysfs ==
  /\ at[Remover] = "open" /\ idx[Remover] <= N
  /\ LET l == idx[Remover] IN
     IF "SYSFS" \in flags[l]
     THEN /\ flags' = [flags EXCEPT ![l] = Unexported(l) \ {"SYSFS", "REQUESTED"}]
          /\ granted' = granted \ {l} /\ refs' = refs - 1
     ELSE UNCHANGED <<flags, granted, refs>>
  /\ idx' = [idx EXCEPT ![Remover] = @ + 1]
  /\ UNCHANGED <<chip, mockdev, at, owns, stranded>>

(* The scan is over: the chip goes, and the driver's reference with it. *)
RemoveChip ==
  /\ at[Remover] = "open" /\ idx[Remover] > N
  /\ \A t \in Threads : at[t] \notin {"asking", "freeing"}
  /\ chip' = FALSE /\ refs' = refs - 1 /\ Go(Remover, "free")
  /\ UNCHANGED <<mockdev, flags, granted, idx, owns, stranded>>

LibNext ==
  \/ \E t \in Threads : \/ Start(t) \/ Request(t) \/ RequestGranted(t) \/ RequestRefused(t)
                        \/ SetUp(t) \/ SetUpFails(t) \/ Release(t)
  \/ \E t \in Threads \ {Remover} : Free(t) \/ FreeDone(t) \/ Closed(t)
  \/ \E l \in Exportable : \/ Export(l) \/ Publish(l) \/ Unexport(l) \/ EdgeStore(l)
                           \/ \E out \in BOOLEAN : DirectionStore(l, out)
  \/ RemoveStart \/ RemoveSysfs \/ RemoveChip

LibSpec == LibInit /\ [][LibNext]_libVars

-----------------------------------------------------------------------------
Owners(l) == {t \in Threads : l \in owns[t]}

(* A line has one owner at a time: a thread, or userspace through sysfs;   *)
(* and a line with an owner is requested (gpiod_request_commit,            *)
(* gpiod_free_commit, export_store, unexport_store).  While the chip is    *)
(* there, so is a line that is exported or locked for an interrupt         *)
(* (gpiod_unexport, "implicit on gpiod_free()").                           *)
LineExclusive ==
  \A l \in LibLines :
    /\ Cardinality(Owners(l)) + (IF "SYSFS" \in flags[l] THEN 1 ELSE 0) <= 1
    /\ Owners(l) # {} \/ "SYSFS" \in flags[l] => "REQUESTED" \in flags[l]
    /\ chip /\ flags[l] \cap {"EXPORT", "USED_AS_IRQ"} # {} => "REQUESTED" \in flags[l]

(* The chip driver is asked for a line only while it has not granted it,   *)
(* and a line it has granted stays requested: the pin behind it cannot go  *)
(* to somebody else (gpiod_request_commit, gpiod_free_commit).             *)
GrantedOnce ==
  /\ \A l \in granted : "REQUESTED" \in flags[l]
  /\ \A t \in Threads : at[t] = "asking" => LineAt(t) \notin granted

(* The references to the gpio_device are those of the driver, of the open  *)
(* files and of the requested lines, the stranded ones included: none is   *)
(* dropped twice (gpiod_free, lineevent_release, linehandle_release).      *)
RefsExact ==
  refs = (IF chip THEN 1 ELSE 0) + Cardinality({f \in Files : at[f] # "closed"})
         + Cardinality({l \in LibLines : l \in stranded \/ Owners(l) # {} \/ "SYSFS" \in flags[l]})

(* Together: the lines of a chip belong to whom they were given, and their *)
(* device lives as long as they do (gpiod_request, gpiod_free,             *)
(* linehandle_create, export_store, unexport_store, gpiochip_remove).      *)
LinesOwned == LibTypeOK /\ LineExclusive /\ GrantedOnce /\ RefsExact

(* Without a chip the device "will be dangling until the last user is      *)
(* gone": once every file is closed and no line is exported no reference   *)
(* is left (gpiochip_remove).                                              *)
DanglesUntilLastUser ==
  ~chip /\ (\A t \in Threads \ {Remover} : at[t] = "closed")
        /\ (\A l \in LibLines : "SYSFS" \notin flags[l]) => refs = 0
=============================================================================
