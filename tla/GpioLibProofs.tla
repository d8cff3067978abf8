---------------------------- MODULE GpioLibProofs ----------------------------
(***************************************************************************)
(* Theorems about GpioLib, for every number of lines, every set of files   *)
(* with any lists of lines, repeated ones included, and every set of lines *)
(* that userspace exports: a line has one owner at a time, the chip driver *)
(* grants it once, and the references to the gpio_device are counted.      *)
(*                                                                         *)
(* The inductive invariant says which lines of its list a thread has been  *)
(* through and that it owns just these (OwnInv), and, line by line, who    *)
(* may be at work on it between the critical sections of gpio_lock         *)
(* (LineInv).                                                              *)
(***************************************************************************)
EXTENDS GpioLib, FiniteSetTheorems, TLAPS

(* The threads that request and free lines, and where they are at one. *)
Users == Files \cup Exporters \cup Unexporters
Inside == {"request", "asking", "setup", "publish", "open", "freeing"}

(* The lines that a thread has been through: the first few of its list. *)
Upto(t) == IF at[t] \in {"request", "asking"} THEN idx[t] - 1 ELSE idx[t]

(* A thread is at a place of its list, and nobody is inside a call into    *)
(* the driver of a chip that is gone.                                      *)
PlaceInv(t) ==
  /\ at[t] \in Inside => idx[t] \in 1..Len(Todo(t))
  /\ at[t] = "free" => idx[t] \in 0..Len(Todo(t))
  /\ at[t] = "open" => t \in Files /\ idx[t] = Len(Todo(t))
  /\ at[t] = "publish" => t \in Exporters
  /\ at[t] \in {"request", "asking", "setup"} => t \in Files \cup Exporters
  /\ at[t] \in {"asking", "freeing"} => chip

(* It owns lines it has been through, all of them while the chip is there, *)
(* and then no line comes twice among them.                                *)
OwnInv(t) ==
  /\ at[t] = "closed" => owns[t] = {}
  /\ \A l \in owns[t] : \E i \in 1..Upto(t) : l = Todo(t)[i]
  /\ at[t] # "closed" /\ (chip \/ at[t] = "publish") => \A i \in 1..Upto(t) : Todo(t)[i] \in owns[t]
  /\ at[t] # "closed" /\ chip => \A i, j \in 1..Upto(t) : Todo(t)[i] = Todo(t)[j] => i = j

(* gpiochip_remove owns no line, and scans them while the chip is there. *)
RemoverInv ==
  /\ at[Remover] \in {"closed", "open", "free"} /\ owns[Remover] = {} /\ idx[Remover] >= 1
  /\ at[Remover] = "open" => chip

(* Who is at work on a line between two critical sections. *)
Asks(t, l) == at[t] = "asking" /\ LineAt(t) = l
Frees(t, l) == at[t] = "freeing" /\ LineAt(t) = l
Claims(t, l) == l \in owns[t] \/ Asks(t, l)

(* One line: one thread claims it, and none while sysfs has it; it is      *)
(* requested while somebody does, while it is exported, and until the      *)
(* driver has it back; who asks for it, or frees it, finds it neither      *)
(* granted nor exported.                                                   *)
LineInv(l) ==
  /\ \A t, u \in Users : Claims(t, l) /\ Claims(u, l) => t = u
  /\ \A t \in Users : Claims(t, l) => "REQUESTED" \in flags[l] /\ "SYSFS" \notin flags[l]
  /\ "SYSFS" \in flags[l] => "REQUESTED" \in flags[l]
  /\ chip /\ "EXPORT" \in flags[l] => "REQUESTED" \in flags[l]
  /\ "USED_AS_IRQ" \in flags[l] => "EXPORT" \in flags[l]
  /\ l \in granted => "REQUESTED" \in flags[l]
  /\ \A t \in Users : Asks(t, l) => l \notin owns[t]
  /\ \A t \in Users : Asks(t, l) \/ Frees(t, l) => l \notin granted /\ "EXPORT" \notin flags[l]

(* The types, in parts: the references are left to RefsExact. *)
Places == {"closed", "request", "asking", "setup", "publish", "open", "free", "freeing"}
ThreadTypes ==
  at \in [Threads -> Places] /\ idx \in [Threads -> Nat] /\ owns \in [Threads -> SUBSET LibLines]
FlagTypes == flags \in [LibLines -> SUBSET Flags]
LibTypes ==
  /\ chip \in BOOLEAN /\ mockdev \in BOOLEAN
  /\ granted \subseteq LibLines /\ stranded \subseteq LibLines /\ FlagTypes /\ ThreadTypes

(* The inductive invariant. *)
ThreadsInv == (\A t \in Users : PlaceInv(t) /\ OwnInv(t)) /\ RemoverInv
LinesInv == (\A l \in LibLines : LineInv(l)) /\ (stranded # {} => ~chip)
LibInv == LibTypes /\ ThreadsInv /\ LinesInv /\ RefsExact

(* What the references are counted by. *)
OpenFiles == {f \in Files : at[f] # "closed"}
UsedLines == {l \in LibLines : l \in stranded \/ Owners(l) # {} \/ "SYSFS" \in flags[l]}

(* The names of the threads. *)
LEMMA UsersAre ==
  /\ Users \subseteq Threads /\ Threads = Users \cup {Remover} /\ Remover \notin Users /\ Files \subseteq Users
  /\ \A l \in Exportable : /\ Exporter(l) \in Users /\ Exporter(l) \in Exporters
                          /\ Unexporter(l) \in Users /\ Unexporter(l) \notin Files \cup Exporters
                          /\ l \in LibLines
<1>1. Users \subseteq Threads /\ Threads = Users \cup {Remover} /\ Files \subseteq Users
  BY DEF Users, Threads, Files
<1>2. Remover \notin Users
  BY LibAssumption DEF LibAssumption, Users, Exporters, Unexporters, Exporter, Unexporter, Remover
<1>3. ASSUME NEW l \in Exportable
      PROVE  /\ Exporter(l) \in Users /\ Exporter(l) \in Exporters
             /\ Unexporter(l) \in Users /\ Unexporter(l) \notin Files \cup Exporters
             /\ l \in LibLines
  <2>1. Exporter(l) \in Users /\ Exporter(l) \in Exporters /\ Unexporter(l) \in Users /\ Unexporter(l) \in Unexporters
    BY DEF Users, Exporters, Unexporters
  <2>2. Unexporter(l) \notin Files
    BY <2>1, LibAssumption DEF LibAssumption
  <2>3. Unexporter(l) \notin Exporters
    BY DEF Exporters, Exporter, Unexporter
  <2> QED
    BY <2>1, <2>2, <2>3, LibAssumption DEF LibAssumption
<1> QED
  BY <1>1, <1>2, <1>3

(* The list of lines of a thread. *)
LEMMA TodoIs ==
  ASSUME NEW t \in Users
  PROVE  /\ Len(Todo(t)) \in Nat /\ Len(Todo(t)) >= 1
         /\ \A i \in 1..Len(Todo(t)) : Todo(t)[i] \in LibLines
<1>1. CASE t \in Files
  <2>1. t \notin Exporters \cup Unexporters
    BY <1>1, LibAssumption DEF LibAssumption
  <2>2. Todo(t) = LinesOf[t]
    BY <2>1 DEF Todo
  <2>3. LinesOf[t] \in Seq(LibLines) /\ LinesOf[t] # << >>
    BY <1>1, LibAssumption DEF LibAssumption
  <2> QED
    BY <2>2, <2>3
<1>2. ASSUME NEW l \in Exportable, t = Exporter(l) \/ t = Unexporter(l)
      PROVE  Len(Todo(t)) = 1 /\ Todo(t)[1] = l /\ l \in LibLines
  <2>1. t \in Exporters \cup Unexporters /\ t[2] = l
    BY <1>2 DEF Exporters, Unexporters, Exporter, Unexporter
  <2>2. Todo(t) = <<l>>
    BY <2>1 DEF Todo
  <2> QED
    BY <2>2, LibAssumption DEF LibAssumption
<1>3. t \in Files \/ \E l \in Exportable : t = Exporter(l) \/ t = Unexporter(l)
  BY DEF Users, Exporters, Unexporters
<1> QED
  BY <1>1, <1>2, <1>3
(* Export and unexport are about one line. *)
LEMMA TodoOne ==
  ASSUME NEW l \in Exportable, NEW t, t = Exporter(l) \/ t = Unexporter(l)
  PROVE  Len(Todo(t)) = 1 /\ Todo(t)[1] = l
<1>1. t \in Exporters \cup Unexporters /\ t[2] = l
  BY DEF Exporters, Unexporters, Exporter, Unexporter
<1>2. Todo(t) = <<l>>
  BY <1>1 DEF Todo
<1> QED
  BY <1>2

-----------------------------------------------------------------------------
(* Counting. *)
LEMMA Counted ==
  /\ IsFiniteSet(UsedLines) /\ Cardinality(UsedLines) \in Nat
  /\ IsFiniteSet(OpenFiles) /\ Cardinality(OpenFiles) \in Nat
<1>1. IsFiniteSet(Files)
  BY LibAssumption, FS_Union DEF LibAssumption, Files
<1>2. IsFiniteSet(LibLines)
  BY LibAssumption, FS_Interval DEF LibAssumption, LibLines
<1>3. UsedLines \subseteq LibLines /\ OpenFiles \subseteq Files
  BY DEF UsedLines, OpenFiles
<1>4. IsFiniteSet(UsedLines) /\ IsFiniteSet(OpenFiles)
  BY <1>1, <1>2, <1>3, FS_Subset
<1> QED
  BY <1>4, FS_CardinalityType

(* The references, by the two sets that are counted. *)
LEMMA RefsAre == RefsExact <=> refs = (IF chip THEN 1 ELSE 0) + Cardinality(OpenFiles) + Cardinality(UsedLines)
BY DEF RefsExact, OpenFiles, UsedLines
LEMMA RefsAreNext ==
  RefsExact' <=> refs' = (IF chip' THEN 1 ELSE 0) + Cardinality(OpenFiles') + Cardinality(UsedLines')
BY DEF RefsExact, OpenFiles, UsedLines

(* What is counted has not changed. *)
LEMMA RefsSame ==
  ASSUME RefsExact, refs' = refs, chip' = chip, OpenFiles' = OpenFiles, UsedLines' = UsedLines
  PROVE  RefsExact'
BY RefsAre, RefsAreNext

(* One more line is in use. *)
LEMMA LineMore ==
  ASSUME RefsExact, refs' = refs + 1, chip' = chip, OpenFiles' = OpenFiles,
         NEW l, l \notin UsedLines, UsedLines' = UsedLines \cup {l}
  PROVE  RefsExact'
<1>1. Cardinality(UsedLines') = Cardinality(UsedLines) + 1
  BY Counted, FS_AddElement
<1>2. PICK c \in {0, 1} : c = (IF chip THEN 1 ELSE 0) /\ c = (IF chip' THEN 1 ELSE 0)
  OBVIOUS
<1>3. refs = c + Cardinality(OpenFiles) + Cardinality(UsedLines)
  BY <1>2, RefsAre
<1>4. refs' = c + Cardinality(OpenFiles') + Cardinality(UsedLines')
  BY <1>1, <1>3, Counted
<1> QED
  BY <1>2, <1>4, RefsAreNext

(* A line is in use no more. *)
LEMMA LineLess ==
  ASSUME RefsExact, refs' = refs - 1, chip' = chip, OpenFiles' = OpenFiles,
         NEW l, l \in UsedLines, UsedLines' = UsedLines \ {l}
  PROVE  RefsExact'
<1>1. Cardinality(UsedLines') = Cardinality(UsedLines) - 1
  BY Counted, FS_RemoveElement
<1>2. PICK c \in {0, 1} : c = (IF chip THEN 1 ELSE 0) /\ c = (IF chip' THEN 1 ELSE 0)
  OBVIOUS
<1>3. refs = c + Cardinality(OpenFiles) + Cardinality(UsedLines)
  BY <1>2, RefsAre
<1>4. refs' = c + Cardinality(OpenFiles') + Cardinality(UsedLines')
  BY <1>1, <1>3, Counted
<1> QED
  BY <1>2, <1>4, RefsAreNext

(* One more file is open. *)
LEMMA FileMore ==
  ASSUME RefsExact, refs' = refs + 1, chip' = chip, UsedLines' = UsedLines,
         NEW f, f \notin OpenFiles, OpenFiles' = OpenFiles \cup {f}
  PROVE  RefsExact'
<1>1. Cardinality(OpenFiles') = Cardinality(OpenFiles) + 1
  BY Counted, FS_AddElement
<1>2. PICK c \in {0, 1} : c = (IF chip THEN 1 ELSE 0) /\ c = (IF chip' THEN 1 ELSE 0)
  OBVIOUS
<1>3. refs = c + Cardinality(OpenFiles) + Cardinality(UsedLines)
  BY <1>2, RefsAre
<1>4. refs' = c + Cardinality(OpenFiles') + Cardinality(UsedLines')
  BY <1>1, <1>3, Counted
<1> QED
  BY <1>2, <1>4, RefsAreNext

(* A file is closed. *)
LEMMA FileLess ==
  ASSUME RefsExact, refs' = refs - 1, chip' = chip, UsedLines' = UsedLines,
         NEW f, f \in OpenFiles, OpenFiles' = OpenFiles \ {f}
  PROVE  RefsExact'
<1>1. Cardinality(OpenFiles') = Cardinality(OpenFiles) - 1
  BY Counted, FS_RemoveElement
<1>2. PICK c \in {0, 1} : c = (IF chip THEN 1 ELSE 0) /\ c = (IF chip' THEN 1 ELSE 0)
  OBVIOUS
<1>3. refs = c + Cardinality(OpenFiles) + Cardinality(UsedLines)
  BY <1>2, RefsAre
<1>4. refs' = c + Cardinality(OpenFiles') + Cardinality(UsedLines')
  BY <1>1, <1>3, Counted
<1> QED
  BY <1>2, <1>4, RefsAreNext

-----------------------------------------------------------------------------
(* What a step of one thread leaves alone. *)
Others(t) == \A u \in Threads \ {t} : at'[u] = at[u] /\ idx'[u] = idx[u] /\ owns'[u] = owns[u]

(* The step of one thread keeps the places of all. *)
LEMMA OneThread ==
  ASSUME ThreadsInv, NEW t \in Users, chip' = chip, Others(t), PlaceInv(t)', OwnInv(t)'
  PROVE  ThreadsInv'
<1>1. ASSUME NEW u \in Users, u # t
      PROVE  PlaceInv(u)' /\ OwnInv(u)'
  <2>1. at'[u] = at[u] /\ idx'[u] = idx[u] /\ owns'[u] = owns[u]
    BY <1>1, UsersAre DEF Others
  <2>2. PlaceInv(u) /\ OwnInv(u)
    BY DEF ThreadsInv
  <2>3. PlaceInv(u)'
    BY <2>1, <2>2 DEF PlaceInv
  <2>4. OwnInv(u)'
    BY <2>1, <2>2 DEF OwnInv, Upto
  <2> QED
    BY <2>3, <2>4
<1>2. RemoverInv'
  BY UsersAre DEF ThreadsInv, RemoverInv, Others
<1> QED
  BY <1>1, <1>2 DEF ThreadsInv

(* Lines differ in nothing but the direction. *)
SameFlags(l) == \A g \in {"REQUESTED", "EXPORT", "SYSFS", "USED_AS_IRQ"} : g \in flags'[l] <=> g \in flags[l]

(* A line of which nobody has become a user, and nothing else has changed. *)
LEMMA LineFrame ==
  ASSUME NEW l \in LibLines, LineInv(l), SameFlags(l), l \in granted' => l \in granted, chip' => chip,
         \A u \in Users : /\ l \in owns'[u] => l \in owns[u]
                          /\ Asks(u, l)' => Asks(u, l)
                          /\ Frees(u, l)' => Frees(u, l)
  PROVE  LineInv(l)'
<1>0. \A u \in Users : Claims(u, l)' => Claims(u, l)
  BY DEF Claims
<1>1. /\ "REQUESTED" \in flags'[l] <=> "REQUESTED" \in flags[l]
      /\ "EXPORT" \in flags'[l] <=> "EXPORT" \in flags[l]
      /\ "SYSFS" \in flags'[l] <=> "SYSFS" \in flags[l]
      /\ "USED_AS_IRQ" \in flags'[l] <=> "USED_AS_IRQ" \in flags[l]
  BY DEF SameFlags
<1>2. \A u \in Users : Asks(u, l)' => l \notin owns'[u]
  BY DEF LineInv
<1>3. \A u \in Users : Asks(u, l)' \/ Frees(u, l)' => l \notin granted' /\ "EXPORT" \notin flags'[l]
  BY <1>1 DEF LineInv
<1>4. \A u, v \in Users : Claims(u, l)' /\ Claims(v, l)' => u = v
  BY <1>0 DEF LineInv
<1>5. \A u \in Users : Claims(u, l)' => "REQUESTED" \in flags'[l] /\ "SYSFS" \notin flags'[l]
  BY <1>0, <1>1 DEF LineInv
<1>6. /\ "SYSFS" \in flags'[l] => "REQUESTED" \in flags'[l]
      /\ chip' /\ "EXPORT" \in flags'[l] => "REQUESTED" \in flags'[l]
      /\ "USED_AS_IRQ" \in flags'[l] => "EXPORT" \in flags'[l]
      /\ l \in granted' => "REQUESTED" \in flags'[l]
  BY <1>1 DEF LineInv
<1> QED
  BY <1>2, <1>3, <1>4, <1>5, <1>6 DEF LineInv

(* A line that the step of a thread has not taken. *)
LEMMA OtherLine ==
  ASSUME LinesInv, NEW t \in Threads, NEW m \in LibLines, Others(t), chip' => chip,
         SameFlags(m), m \in granted' => m \in granted,
         m \in owns'[t] => m \in owns[t],
         at'[t] \in {"asking", "freeing"} =>
            Todo(t)[idx'[t]] # m \/ (at'[t] = at[t] /\ idx'[t] = idx[t])
  PROVE  LineInv(m)'
<1>1. ASSUME NEW u \in Users
      PROVE  /\ m \in owns'[u] => m \in owns[u]
             /\ Asks(u, m)' => Asks(u, m)
             /\ Frees(u, m)' => Frees(u, m)
  <2>1. CASE u = t
    BY <2>1 DEF Asks, Frees, LineAt
  <2>2. CASE u # t
    <3>1. at'[u] = at[u] /\ idx'[u] = idx[u] /\ owns'[u] = owns[u]
      BY <2>2, UsersAre DEF Others
    <3> QED
      BY <3>1 DEF Asks, Frees, LineAt
  <2> QED
    BY <2>1, <2>2
<1>2. LineInv(m)
  BY DEF LinesInv
<1> QED
  BY <1>1, <1>2, LineFrame

(* The line itself: what is needed of the thread at it. *)
LEMMA ThisLine ==
  ASSUME LinesInv, NEW t \in Users, NEW l \in LibLines, Others(t),
         Claims(t, l)' => Claims(t, l) \/ \A u \in Users : ~Claims(u, l),
         Claims(t, l)' \/ (\E u \in Users \ {t} : Claims(u, l)) =>
            "REQUESTED" \in flags'[l] /\ "SYSFS" \notin flags'[l],
         /\ "SYSFS" \in flags'[l] => "REQUESTED" \in flags'[l]
         /\ chip' /\ "EXPORT" \in flags'[l] => "REQUESTED" \in flags'[l]
         /\ "USED_AS_IRQ" \in flags'[l] => "EXPORT" \in flags'[l]
         /\ l \in granted' => "REQUESTED" \in flags'[l],
         Asks(t, l)' => l \notin owns'[t],
         Asks(t, l)' \/ Frees(t, l)' \/ (\E u \in Users \ {t} : Asks(u, l) \/ Frees(u, l)) =>
            l \notin granted' /\ "EXPORT" \notin flags'[l]
  PROVE  LineInv(l)'
<1>0. LineInv(l)
  BY DEF LinesInv
<1>1. ASSUME NEW u \in Users, u # t
      PROVE  (Claims(u, l)' <=> Claims(u, l)) /\ (Asks(u, l)' <=> Asks(u, l)) /\ (Frees(u, l)' <=> Frees(u, l))
             /\ owns'[u] = owns[u]
  <2>1. at'[u] = at[u] /\ idx'[u] = idx[u] /\ owns'[u] = owns[u]
    BY <1>1, UsersAre DEF Others
  <2> QED
    BY <2>1 DEF Claims, Asks, Frees, LineAt
<1>2. \A u, v \in Users : Claims(u, l)' /\ Claims(v, l)' => u = v
  BY <1>0, <1>1 DEF LineInv
<1>3. \A u \in Users : Claims(u, l)' => "REQUESTED" \in flags'[l] /\ "SYSFS" \notin flags'[l]
  BY <1>1
<1>4. \A u \in Users : Asks(u, l)' => l \notin owns'[u]
  BY <1>0, <1>1 DEF LineInv
<1>5. \A u \in Users : Asks(u, l)' \/ Frees(u, l)' => l \notin granted' /\ "EXPORT" \notin flags'[l]
  BY <1>1
<1> QED
  BY <1>2, <1>3, <1>4, <1>5 DEF LineInv

-----------------------------------------------------------------------------
(* The moves of one thread, and a change of the flags of one line. *)
LEMMA Moved ==
  ASSUME ThreadTypes, NEW t \in Threads, NEW p \in Places, NEW i \in Nat, NEW o \in SUBSET LibLines,
         at' = [at EXCEPT ![t] = p], idx' = [idx EXCEPT ![t] = i], owns' = [owns EXCEPT ![t] = o]
  PROVE  Others(t) /\ at'[t] = p /\ idx'[t] = i /\ owns'[t] = o /\ ThreadTypes'
BY DEF ThreadTypes, Others

(* The flags of one line change. *)
LEMMA Painted ==
  ASSUME FlagTypes, NEW l \in LibLines, NEW F \in SUBSET Flags, flags' = [flags EXCEPT ![l] = F]
  PROVE  FlagTypes' /\ flags'[l] = F /\ \A m \in LibLines : m # l => SameFlags(m)
BY DEF FlagTypes, SameFlags

(* A thread that is at a line. *)
LEMMA AtLine ==
  ASSUME LibTypes, ThreadsInv, NEW t \in Users, at[t] \in Inside \/ (at[t] = "free" /\ idx[t] > 0)
  PROVE  /\ idx[t] \in Nat /\ idx[t] >= 1 /\ idx[t] <= Len(Todo(t)) /\ Len(Todo(t)) \in Nat
         /\ LineAt(t) = Todo(t)[idx[t]] /\ LineAt(t) \in LibLines
<1>1. PlaceInv(t)
  BY DEF ThreadsInv
<1>2. idx[t] \in Nat
  BY UsersAre DEF LibTypes, ThreadTypes
<1>3. idx[t] >= 1 /\ idx[t] <= Len(Todo(t))
  BY <1>1, <1>2, TodoIs DEF PlaceInv
<1> QED
  BY <1>2, <1>3, TodoIs DEF LineAt

(* With the chip there a thread beyond its request owns the line it is at. *)
LEMMA HasLine ==
  ASSUME LibTypes, ThreadsInv, NEW t \in Users,
         at[t] \in {"setup", "publish", "open", "freeing"} \/ (at[t] = "free" /\ idx[t] > 0),
         chip \/ at[t] \in {"publish", "freeing"}
  PROVE  LineAt(t) \in owns[t]
<1>1. PlaceInv(t) /\ OwnInv(t)
  BY DEF ThreadsInv
<1>2. at[t] \in Inside \/ (at[t] = "free" /\ idx[t] > 0)
  BY DEF Inside
<1>3. Upto(t) = idx[t]
  BY DEF Upto
<1>4. chip \/ at[t] = "publish"
  BY <1>1 DEF PlaceInv
<1>5. idx[t] \in 1..Upto(t)
  BY <1>2, <1>3, AtLine
<1>6. Todo(t)[idx[t]] \in owns[t]
  BY <1>1, <1>4, <1>5 DEF OwnInv
<1> QED
  BY <1>6 DEF LineAt

(* Nobody but its owner is at work on a line. *)
LEMMA Alone ==
  ASSUME LibTypes, ThreadsInv, LinesInv, NEW l \in LibLines, NEW t \in Users, Claims(t, l)
  PROVE  \A u \in Users \ {t} : ~Claims(u, l) /\ ~Asks(u, l) /\ ~Frees(u, l)
<1> SUFFICES ASSUME NEW u \in Users, u # t
             PROVE  ~Claims(u, l) /\ ~Asks(u, l) /\ ~Frees(u, l)
  OBVIOUS
<1>1. LineInv(l)
  BY DEF LinesInv
<1>2. ~Claims(u, l)
  BY <1>1 DEF LineInv
<1>3. ~Asks(u, l)
  BY <1>2 DEF Claims
<1>4. Frees(u, l) => l \in owns[u]
  <2> SUFFICES ASSUME Frees(u, l)
               PROVE  l \in owns[u]
    OBVIOUS
  <2>1. at[u] = "freeing" /\ LineAt(u) = l
    BY DEF Frees
  <2> QED
    BY <2>1, HasLine
<1> QED
  BY <1>2, <1>3, <1>4 DEF Claims

(* Counting, step by step. *)
LEMMA OpenSame ==
  ASSUME NEW t \in Threads, Others(t), t \notin Files \/ (at'[t] = "closed" <=> at[t] = "closed")
  PROVE  OpenFiles' = OpenFiles
<1>1. ASSUME NEW f \in Files
      PROVE  at'[f] = "closed" <=> at[f] = "closed"
  BY UsersAre DEF Others
<1> QED
  BY <1>1 DEF OpenFiles

UsedBy(t, m) == m \in stranded \/ m \in owns[t] \/ "SYSFS" \in flags[m]
LEMMA UsedIs ==
  ASSUME NEW t \in Threads, NEW m \in LibLines
  PROVE  m \in UsedLines <=> UsedBy(t, m) \/ \E u \in Threads \ {t} : m \in owns[u]
BY DEF UsedLines, UsedBy, Owners
LEMMA UsedIsNext ==
  ASSUME NEW t \in Threads, NEW m \in LibLines, Others(t)
  PROVE  m \in UsedLines' <=> UsedBy(t, m)' \/ \E u \in Threads \ {t} : m \in owns[u]
BY DEF UsedLines, UsedBy, Owners, Others
(* A line is in use after the step of a thread if and only if it was. *)
LEMMA UsedLine ==
  ASSUME NEW t \in Threads, NEW m \in LibLines, Others(t), UsedBy(t, m)' <=> UsedBy(t, m)
  PROVE  m \in UsedLines' <=> m \in UsedLines
BY UsedIs, UsedIsNext
(* The same for every line. *)
LEMMA UsedSame ==
  ASSUME NEW t \in Threads, Others(t), \A m \in LibLines : UsedBy(t, m)' <=> UsedBy(t, m)
  PROVE  UsedLines' = UsedLines
<1>1. \A m \in LibLines : m \in UsedLines' <=> m \in UsedLines
  BY UsedLine
<1>2. UsedLines \subseteq LibLines /\ UsedLines' \subseteq LibLines
  BY DEF UsedLines
<1> QED
  BY <1>1, <1>2

(* No flags change. *)
LEMMA FlagsKept ==
  ASSUME flags' = flags
  PROVE  \A m : SameFlags(m)
BY DEF SameFlags

(* A step of a thread that neither takes nor gives back a line. *)
LEMMA QuietLines ==
  ASSUME LinesInv, NEW t \in Threads, Others(t), chip' = chip, \A m \in LibLines : SameFlags(m),
         granted' = granted, stranded' = stranded, owns'[t] = owns[t],
         at'[t] \notin {"asking", "freeing"} \/ (at'[t] = at[t] /\ idx'[t] = idx[t])
  PROVE  LinesInv' /\ UsedLines' = UsedLines
<1>1. ASSUME NEW m \in LibLines
      PROVE  LineInv(m)'
  BY OtherLine
<1>2. \A m \in LibLines : UsedBy(t, m)' <=> UsedBy(t, m)
  BY DEF UsedBy, SameFlags
<1>3. UsedLines' = UsedLines
  BY <1>2, UsedSame
<1> QED
  BY <1>1, <1>3 DEF LinesInv

-----------------------------------------------------------------------------
(* gpiod_request and gpiod_free. *)
(* A file is opened, or a line number written to export. *)
LEMMA StartStep ==
  ASSUME LibInv, NEW t \in Threads, Start(t)
  PROVE  LibInv'
<1> USE DEF LibInv
<1>1. t \in Users /\ t \in Threads /\ t \in Files \cup Exporters
  BY UsersAre DEF Start, Users
<1>2. owns[t] \in SUBSET LibLines /\ owns' = [owns EXCEPT ![t] = owns[t]]
  BY <1>1 DEF LibTypes, ThreadTypes, Start
<1>3. at' = [at EXCEPT ![t] = "request"] /\ idx' = [idx EXCEPT ![t] = 1]
  BY DEF Start, GoTo, Go
<1>4. Others(t) /\ at'[t] = "request" /\ idx'[t] = 1 /\ owns'[t] = owns[t] /\ ThreadTypes'
  BY <1>1, <1>2, <1>3, Moved DEF LibTypes, Places
<1>5. /\ chip' = chip /\ mockdev' = mockdev /\ flags' = flags /\ granted' = granted /\ stranded' = stranded
      /\ at[t] = "closed"
  BY DEF Start
<1>6. LibTypes'
  BY <1>4, <1>5 DEF LibTypes, FlagTypes
<1>7. PlaceInv(t)'
  BY <1>1, <1>4, TodoIs DEF PlaceInv, Inside
<1>8. OwnInv(t)'
  <2>1. owns[t] = {}
    BY <1>1, <1>5 DEF ThreadsInv, OwnInv
  <2>2. Upto(t)' = 0
    BY <1>4 DEF Upto
  <2> QED
    BY <1>4, <2>1, <2>2 DEF OwnInv
<1>9. ThreadsInv'
  BY <1>1, <1>4, <1>5, <1>7, <1>8, OneThread
<1>10. LinesInv' /\ UsedLines' = UsedLines
  BY <1>4, <1>5, FlagsKept, QuietLines
<1>11. RefsExact'
  <2>1. CASE t \in Files
    <3>1. OpenFiles' = OpenFiles \cup {t} /\ t \notin OpenFiles
      BY <1>4, <1>5, <2>1, UsersAre DEF OpenFiles, Others
    <3>2. refs' = refs + 1
      BY <2>1 DEF Start
    <3> QED
      BY <1>5, <1>10, <3>1, <3>2, FileMore
  <2>2. CASE t \notin Files
    <3>1. refs' = refs
      BY <2>2 DEF Start
    <3>2. OpenFiles' = OpenFiles
      BY <1>4, <2>2, OpenSame
    <3> QED
      BY <1>5, <1>10, <3>1, <3>2, RefsSame
  <2> QED
    BY <2>1, <2>2
<1> QED
  BY <1>6, <1>9, <1>10, <1>11

(* What a thread leaves alone, written as an update. *)
LEMMA Kept ==
  ASSUME ThreadTypes, NEW t \in Threads
  PROVE  /\ owns[t] \in SUBSET LibLines /\ idx[t] \in Nat /\ at[t] \in Places
         /\ owns' = owns => owns' = [owns EXCEPT ![t] = owns[t]]
         /\ idx' = idx => idx' = [idx EXCEPT ![t] = idx[t]]
BY DEF ThreadTypes

(* Such a step keeps the invariant. *)
LEMMA QuietStep ==
  ASSUME LibInv, NEW t \in Users, Others(t), ThreadTypes', FlagTypes',
         PlaceInv(t)', OwnInv(t)', \A m \in LibLines : SameFlags(m),
         chip' = chip, mockdev' = mockdev, granted' = granted, stranded' = stranded, refs' = refs,
         owns'[t] = owns[t], at'[t] \notin {"asking", "freeing"},
         t \notin Files \/ (at'[t] = "closed" <=> at[t] = "closed")
  PROVE  LibInv'
<1> USE DEF LibInv
<1>1. t \in Threads
  BY UsersAre
<1>2. LibTypes'
  BY DEF LibTypes
<1>3. ThreadsInv'
  BY OneThread
<1>4. LinesInv' /\ UsedLines' = UsedLines
  BY <1>1, QuietLines
<1>5. OpenFiles' = OpenFiles
  BY <1>1, OpenSame
<1>6. RefsExact'
  BY <1>4, <1>5, RefsSame
<1> QED
  BY <1>2, <1>3, <1>4, <1>6

(* Giving up at a line: the lines before it are freed. *)
LEMMA Aborted ==
  ASSUME LibTypes, ThreadsInv, NEW t \in Users, at[t] \in {"request", "asking"}, Abort(t), owns' = owns, chip' = chip
  PROVE  /\ Others(t) /\ ThreadTypes' /\ at'[t] = "free" /\ owns'[t] = owns[t]
         /\ PlaceInv(t)' /\ OwnInv(t)'
<1>1. t \in Threads /\ ThreadTypes
  BY UsersAre DEF LibTypes
<1>2. PlaceInv(t) /\ OwnInv(t)
  BY DEF ThreadsInv
<1>3. at[t] \in Inside
  BY DEF Inside
<1>4. idx[t] \in Nat /\ idx[t] >= 1 /\ idx[t] <= Len(Todo(t)) /\ Len(Todo(t)) \in Nat
  BY <1>3, AtLine
<1>5. at' = [at EXCEPT ![t] = "free"] /\ idx' = [idx EXCEPT ![t] = idx[t] - 1]
  BY <1>4 DEF Abort, GoTo, Go
<1>6. owns[t] \in SUBSET LibLines /\ owns' = [owns EXCEPT ![t] = owns[t]]
  BY <1>1, Kept
<1>7. idx[t] - 1 \in Nat /\ "free" \in Places
  BY <1>4 DEF Places
<1>8. Others(t) /\ at'[t] = "free" /\ idx'[t] = idx[t] - 1 /\ owns'[t] = owns[t] /\ ThreadTypes'
  BY <1>1, <1>5, <1>6, <1>7, Moved
<1>9. PlaceInv(t)'
  BY <1>4, <1>8 DEF PlaceInv, Inside
<1>10. Upto(t)' = Upto(t)
  BY <1>8 DEF Upto
<1>11. OwnInv(t)'
  BY <1>2, <1>8, <1>10 DEF OwnInv
<1> QED
  BY <1>8, <1>9, <1>11

(* The first critical section of a request: no chip, a busy or a free line. *)
LEMMA RequestStep ==
  ASSUME LibInv, NEW t \in Threads, Request(t)
  PROVE  LibInv'
<1> USE DEF LibInv
<1>1. t \in Users /\ at[t] = "request"
  BY UsersAre DEF Request, ThreadsInv, RemoverInv
<1>2. /\ chip' = chip /\ mockdev' = mockdev /\ granted' = granted /\ stranded' = stranded
      /\ refs' = refs /\ owns' = owns
  BY DEF Request
<1>3. PlaceInv(t) /\ OwnInv(t)
  BY <1>1 DEF ThreadsInv
<1>4. at[t] \in Inside
  BY <1>1 DEF Inside
<1>5. /\ idx[t] \in Nat /\ idx[t] >= 1 /\ idx[t] <= Len(Todo(t)) /\ Len(Todo(t)) \in Nat
      /\ LineAt(t) = Todo(t)[idx[t]] /\ LineAt(t) \in LibLines
  BY <1>1, <1>4, AtLine
<1>6. ThreadTypes /\ FlagTypes
  BY DEF LibTypes
<1>7. owns[t] \in SUBSET LibLines /\ owns' = [owns EXCEPT ![t] = owns[t]]
  BY <1>2, <1>6, Kept
<1>8. CASE ~chip
  <2>1. at' = [at EXCEPT ![t] = "setup"] /\ idx' = idx /\ flags' = flags
    BY <1>8 DEF Request, Go
  <2>2. idx' = [idx EXCEPT ![t] = idx[t]]
    BY <1>6, <2>1, Kept
  <2>3. Others(t) /\ at'[t] = "setup" /\ idx'[t] = idx[t] /\ owns'[t] = owns[t] /\ ThreadTypes'
    BY <1>5, <1>6, <1>7, <2>1, <2>2, Moved DEF Places
  <2>4. PlaceInv(t)'
    BY <1>1, <1>3, <1>5, <2>3 DEF PlaceInv, Inside
  <2>5. OwnInv(t)'
    <3>1. Upto(t)' = idx[t] /\ Upto(t) = idx[t] - 1
      BY <1>1, <2>3 DEF Upto
    <3>2. \A l \in owns[t] : \E i \in 1..idx[t] : l = Todo(t)[i]
      BY <1>3, <1>5, <3>1 DEF OwnInv
    <3> QED
      BY <1>2, <1>8, <2>3, <3>1, <3>2 DEF OwnInv
  <2>6. FlagTypes' /\ \A m \in LibLines : SameFlags(m)
    BY <1>6, <2>1, FlagsKept DEF FlagTypes
  <2> QED
    BY <1>1, <1>2, <2>3, <2>4, <2>5, <2>6, QuietStep
<1>9. CASE chip /\ ~LineFree(LineAt(t))
  <2>1. Abort(t) /\ flags' = flags
    BY <1>9 DEF Request
  <2>2. /\ Others(t) /\ ThreadTypes' /\ at'[t] = "free" /\ owns'[t] = owns[t]
        /\ PlaceInv(t)' /\ OwnInv(t)'
    BY <1>1, <1>2, <2>1, Aborted
  <2>3. FlagTypes' /\ \A m \in LibLines : SameFlags(m)
    BY <1>6, <2>1, FlagsKept DEF FlagTypes
  <2> QED
    BY <1>1, <1>2, <2>2, <2>3, QuietStep
<1>10. CASE chip /\ LineFree(LineAt(t))
  <2>0. PICK l \in LibLines : l = LineAt(t)
    BY <1>5
  <2>1. /\ at' = [at EXCEPT ![t] = "asking"] /\ idx' = idx
        /\ flags' = [flags EXCEPT ![l] = flags[l] \cup {"REQUESTED"}]
    BY <1>10, <2>0 DEF Request, Go, SetFlags
  <2>2. idx' = [idx EXCEPT ![t] = idx[t]]
    BY <1>6, <2>1, Kept
  <2>3. Others(t) /\ at'[t] = "asking" /\ idx'[t] = idx[t] /\ owns'[t] = owns[t] /\ ThreadTypes'
    BY <1>5, <1>6, <1>7, <2>1, <2>2, Moved DEF Places
  <2>4. /\ FlagTypes' /\ flags'[l] = flags[l] \cup {"REQUESTED"}
        /\ \A m \in LibLines : m # l => SameFlags(m)
    <3>1. flags[l] \cup {"REQUESTED"} \in SUBSET Flags
      BY <1>5, <1>6 DEF FlagTypes, Flags
    <3> QED
      BY <1>5, <1>6, <2>1, <3>1, Painted
  <2>5. PlaceInv(t)'
    BY <1>1, <1>2, <1>3, <1>5, <1>10, <2>3 DEF PlaceInv, Inside
  <2>6. OwnInv(t)'
    <3>1. Upto(t)' = Upto(t)
      BY <1>1, <2>3 DEF Upto
    <3> QED
      BY <1>1, <1>2, <1>3, <2>3, <3>1 DEF OwnInv
  <2>7. ThreadsInv'
    BY <1>1, <1>2, <2>3, <2>5, <2>6, OneThread
  <2>8. LineInv(l) /\ "REQUESTED" \notin flags[l]
    BY <1>10, <2>0 DEF LinesInv, LineFree
  <2>9. \A u \in Users : ~Claims(u, l)
    BY <2>8 DEF LineInv
  <2>10. "SYSFS" \notin flags[l] /\ "EXPORT" \notin flags[l] /\ "USED_AS_IRQ" \notin flags[l] /\ l \notin granted
    BY <1>10, <2>8 DEF LineInv
  <2>11. l \notin owns'[t]
    BY <1>1, <2>3, <2>9 DEF Claims
  <2>12. LineInv(l)'
    <3>1. "REQUESTED" \in flags'[l] /\ "SYSFS" \notin flags'[l] /\ "EXPORT" \notin flags'[l]
          /\ "USED_AS_IRQ" \notin flags'[l] /\ l \notin granted'
      BY <1>2, <2>4, <2>10
    <3> QED
      BY <1>1, <2>3, <2>9, <2>11, <3>1, ThisLine
  <2>13. ASSUME NEW m \in LibLines, m # l
         PROVE  LineInv(m)'
    BY <1>2, <1>5, <2>0, <2>3, <2>4, <2>13, OtherLine
  <2>14. LinesInv'
    BY <1>2, <2>12, <2>13 DEF LinesInv
  <2>15. UsedLines' = UsedLines
    <3>1. ASSUME NEW m \in LibLines
          PROVE  "SYSFS" \in flags'[m] <=> "SYSFS" \in flags[m]
      BY <2>4 DEF SameFlags
    <3>2. \A m \in LibLines : UsedBy(t, m)' <=> UsedBy(t, m)
      BY <1>2, <2>3, <3>1 DEF UsedBy
    <3> QED
      BY <2>3, <3>2, UsedSame
  <2>16. RefsExact'
    BY <1>1, <1>2, <2>3, <2>15, OpenSame, RefsSame
  <2> QED
    BY <1>2, <2>3, <2>4, <2>7, <2>14, <2>16 DEF LibTypes
<1> QED
  BY <1>8, <1>9, <1>10

(* A step of a thread at a line, which changes nothing for the others. *)
KeptFor(t, m) == SameFlags(m) /\ (m \in granted' => m \in granted) /\ (m \in owns'[t] => m \in owns[t])
LEMMA LineStep ==
  ASSUME LibInv, NEW t \in Users, NEW l \in LibLines, Others(t), ThreadTypes', FlagTypes',
         PlaceInv(t)', OwnInv(t)', LineInv(l)', chip' = chip, mockdev' = mockdev,
         granted' \subseteq LibLines, stranded' \subseteq LibLines, stranded' # {} => ~chip,
         \A m \in LibLines : m # l => KeptFor(t, m),
         at'[t] \in {"asking", "freeing"} => Todo(t)[idx'[t]] = l
  PROVE  LibTypes' /\ ThreadsInv' /\ LinesInv'
<1> USE DEF LibInv
<1>1. LibTypes'
  BY DEF LibTypes
<1>2. ThreadsInv'
  BY OneThread
<1>3. ASSUME NEW m \in LibLines, m # l
      PROVE  LineInv(m)'
  BY <1>3, UsersAre, OtherLine DEF KeptFor
<1> QED
  BY <1>1, <1>2, <1>3 DEF LinesInv

(* chip->request has granted the line: it was asked for by this thread only. *)
LEMMA RequestGrantedStep ==
  ASSUME LibInv, NEW t \in Threads, RequestGranted(t)
  PROVE  LibInv'
<1> USE DEF LibInv
<1>1. t \in Users /\ at[t] = "asking"
  BY UsersAre DEF RequestGranted, ThreadsInv, RemoverInv
<1>2. chip' = chip /\ mockdev' = mockdev /\ flags' = flags /\ stranded' = stranded /\ refs' = refs + 1
  BY DEF RequestGranted
<1>3. PlaceInv(t) /\ OwnInv(t) /\ chip
  BY <1>1 DEF ThreadsInv, PlaceInv
<1>4. at[t] \in Inside
  BY <1>1 DEF Inside
<1>5. /\ idx[t] \in Nat /\ idx[t] >= 1 /\ idx[t] <= Len(Todo(t)) /\ Len(Todo(t)) \in Nat
      /\ LineAt(t) = Todo(t)[idx[t]] /\ LineAt(t) \in LibLines
  BY <1>1, <1>4, AtLine
<1>6. ThreadTypes /\ FlagTypes
  BY DEF LibTypes
<1>7. PICK l \in LibLines : l = LineAt(t)
  BY <1>5
<1>8. /\ at' = [at EXCEPT ![t] = "setup"] /\ idx' = idx
      /\ owns' = [owns EXCEPT ![t] = owns[t] \cup {l}] /\ granted' = granted \cup {l}
  BY <1>7 DEF RequestGranted, Go
<1>9. idx' = [idx EXCEPT ![t] = idx[t]] /\ owns[t] \cup {l} \in SUBSET LibLines
  BY <1>6, <1>8, Kept
<1>10. Others(t) /\ at'[t] = "setup" /\ idx'[t] = idx[t] /\ owns'[t] = owns[t] \cup {l} /\ ThreadTypes'
  BY <1>5, <1>6, <1>8, <1>9, Moved DEF Places
<1>11. LineInv(l) /\ Asks(t, l)
  BY <1>1, <1>7 DEF LinesInv, Asks
<1>12. /\ "REQUESTED" \in flags[l] /\ "SYSFS" \notin flags[l] /\ "EXPORT" \notin flags[l]
       /\ "USED_AS_IRQ" \notin flags[l] /\ l \notin owns[t] /\ Claims(t, l)
  BY <1>1, <1>11 DEF LineInv, Claims
<1>13. \A u \in Users \ {t} : ~Claims(u, l) /\ ~Asks(u, l) /\ ~Frees(u, l)
  BY <1>1, <1>12, Alone
<1>14. PlaceInv(t)'
  BY <1>1, <1>3, <1>5, <1>10 DEF PlaceInv, Inside
<1>15. OwnInv(t)'
  <2>1. Upto(t)' = idx[t] /\ Upto(t) = idx[t] - 1
    BY <1>1, <1>10 DEF Upto
  <2>2. ASSUME NEW i \in 1..idx[t], i # idx[t]
        PROVE  i \in 1..Upto(t) /\ Todo(t)[i] \in owns[t] /\ Todo(t)[i] # l
    <3>1. i \in 1..Upto(t)
      BY <1>5, <2>1, <2>2
    <3>2. Todo(t)[i] \in owns[t]
      BY <1>1, <1>3, <3>1 DEF OwnInv
    <3> QED
      BY <1>12, <3>1, <3>2
  <2>3. \A i \in 1..idx[t] : Todo(t)[i] \in owns'[t]
    BY <1>5, <1>7, <1>10, <2>2
  <2>4. \A i, j \in 1..idx[t] : Todo(t)[i] = Todo(t)[j] => i = j
    <3> SUFFICES ASSUME NEW i \in 1..idx[t], NEW j \in 1..idx[t], Todo(t)[i] = Todo(t)[j]
                 PROVE  i = j
      OBVIOUS
    <3>1. CASE i = idx[t] \/ j = idx[t]
      BY <1>5, <1>7, <2>2, <3>1
    <3>2. CASE i # idx[t] /\ j # idx[t]
      BY <1>1, <1>3, <2>2, <3>2 DEF OwnInv
    <3> QED
      BY <3>1, <3>2
  <2>5. \A m \in owns'[t] : \E i \in 1..idx[t] : m = Todo(t)[i]
    <3> SUFFICES ASSUME NEW m \in owns'[t]
                 PROVE  \E i \in 1..idx[t] : m = Todo(t)[i]
      OBVIOUS
    <3>1. CASE m = l
      BY <1>5, <1>7, <3>1
    <3>2. CASE m \in owns[t]
      BY <1>3, <1>5, <2>1, <3>2 DEF OwnInv
    <3> QED
      BY <1>10, <3>1, <3>2
  <2> QED
    BY <1>10, <2>1, <2>3, <2>4, <2>5 DEF OwnInv
<1>16. LineInv(l)'
  <2>1. ~Asks(t, l)' /\ ~Frees(t, l)'
    BY <1>10 DEF Asks, Frees
  <2> QED
    BY <1>1, <1>2, <1>10, <1>12, <1>13, <2>1, ThisLine
<1>17. granted' \subseteq LibLines /\ \A m \in LibLines : m # l => KeptFor(t, m)
  BY <1>2, <1>8, <1>10, FlagsKept DEF LibTypes, KeptFor
<1>18. FlagTypes' /\ stranded' \subseteq LibLines /\ (stranded' # {} => ~chip)
  BY <1>2, <1>6 DEF LibTypes, FlagTypes, LinesInv
<1>19. LibTypes' /\ ThreadsInv' /\ LinesInv'
  BY <1>1, <1>2, <1>10, <1>14, <1>15, <1>16, <1>17, <1>18, LineStep
<1>20. RefsExact'
  <2>1. \A m \in LibLines : m # l => (UsedBy(t, m)' <=> UsedBy(t, m))
    BY <1>2, <1>10 DEF UsedBy
  <2>2. \A m \in LibLines : m # l => (m \in UsedLines' <=> m \in UsedLines)
    BY <1>10, <2>1, UsedLine
  <2>3. l \in UsedLines'
    BY <1>10, UsedIsNext DEF UsedBy
  <2>4. l \notin UsedLines
    <3>1. \A u \in Threads \ {t} : l \notin owns[u]
      BY <1>13, UsersAre DEF Claims, ThreadsInv, RemoverInv
    <3>2. ~UsedBy(t, l)
      BY <1>3, <1>12 DEF UsedBy, LinesInv
    <3> QED
      BY <3>1, <3>2, UsedIs
  <2>5. UsedLines \subseteq LibLines /\ UsedLines' \subseteq LibLines
    BY DEF UsedLines
  <2>6. UsedLines' = UsedLines \cup {l}
    BY <2>2, <2>3, <2>5
  <2>7. OpenFiles' = OpenFiles
    BY <1>1, <1>10, OpenSame
  <2> QED
    BY <1>2, <2>4, <2>6, <2>7, LineMore
<1> QED
  BY <1>19, <1>20

(* chip->request has refused it: nobody else has taken it meanwhile. *)
LEMMA RequestRefusedStep ==
  ASSUME LibInv, NEW t \in Threads, RequestRefused(t)
  PROVE  LibInv'
<1> USE DEF LibInv
<1>1. t \in Users /\ at[t] = "asking"
  BY UsersAre DEF RequestRefused, ThreadsInv, RemoverInv
<1>2. /\ chip' = chip /\ mockdev' = mockdev /\ granted' = granted /\ stranded' = stranded /\ refs' = refs
      /\ owns' = owns /\ Abort(t)
  BY DEF RequestRefused
<1>3. at[t] \in Inside
  BY <1>1 DEF Inside
<1>4. PICK l \in LibLines : l = LineAt(t)
  BY <1>1, <1>3, AtLine
<1>5. /\ Others(t) /\ ThreadTypes' /\ at'[t] = "free" /\ owns'[t] = owns[t]
      /\ PlaceInv(t)' /\ OwnInv(t)'
  BY <1>1, <1>2, Aborted
<1>6. flags' = [flags EXCEPT ![l] = flags[l] \ {"REQUESTED"}] /\ FlagTypes
  BY <1>4 DEF RequestRefused, SetFlags, LibTypes
<1>7. /\ FlagTypes' /\ flags'[l] = flags[l] \ {"REQUESTED"}
      /\ \A m \in LibLines : m # l => SameFlags(m)
  <2>1. flags[l] \ {"REQUESTED"} \in SUBSET Flags
    BY <1>6 DEF FlagTypes
  <2> QED
    BY <1>6, <2>1, Painted
<1>8. LineInv(l) /\ Asks(t, l)
  BY <1>1, <1>4 DEF LinesInv, Asks
<1>9. /\ "SYSFS" \notin flags[l] /\ "EXPORT" \notin flags[l] /\ l \notin granted
      /\ "USED_AS_IRQ" \notin flags[l] /\ l \notin owns[t] /\ Claims(t, l)
  BY <1>1, <1>8 DEF LineInv, Claims
<1>10. \A u \in Users \ {t} : ~Claims(u, l) /\ ~Asks(u, l) /\ ~Frees(u, l)
  BY <1>1, <1>9, Alone
<1>11. LineInv(l)'
  <2>1. ~Asks(t, l)' /\ ~Frees(t, l)' /\ ~Claims(t, l)'
    BY <1>5, <1>9 DEF Asks, Frees, Claims
  <2>2. /\ "SYSFS" \notin flags'[l] /\ "EXPORT" \notin flags'[l] /\ l \notin granted'
        /\ "USED_AS_IRQ" \notin flags'[l]
    BY <1>2, <1>7, <1>9
  <2> QED
    BY <1>1, <1>5, <1>10, <2>1, <2>2, ThisLine
<1>12. \A m \in LibLines : m # l => KeptFor(t, m)
  BY <1>2, <1>7 DEF KeptFor
<1>13. granted' \subseteq LibLines /\ stranded' \subseteq LibLines /\ (stranded' # {} => ~chip)
  BY <1>2 DEF LibTypes, LinesInv
<1>14. LibTypes' /\ ThreadsInv' /\ LinesInv'
  BY <1>1, <1>2, <1>5, <1>7, <1>11, <1>12, <1>13, LineStep
<1>15. UsedLines' = UsedLines
  <2>1. ASSUME NEW m \in LibLines
        PROVE  "SYSFS" \in flags'[m] <=> "SYSFS" \in flags[m]
    BY <1>7 DEF SameFlags
  <2>2. \A m \in LibLines : UsedBy(t, m)' <=> UsedBy(t, m)
    BY <1>2, <2>1 DEF UsedBy
  <2> QED
    BY <1>5, <2>2, UsedSame
<1>16. RefsExact'
  BY <1>1, <1>2, <1>5, <1>15, OpenSame, RefsSame
<1> QED
  BY <1>14, <1>16

(* A thread gives up the line it is at. *)
LEMMA GivenUp ==
  ASSUME ThreadTypes, NEW t \in Users, OwnInv(t), Upto(t) = idx[t], idx[t] \in Nat, idx[t] >= 1, chip' = chip,
         at'[t] = "free", idx'[t] = idx[t] - 1, owns'[t] = owns[t] \ {Todo(t)[idx[t]]}, at[t] # "closed"
  PROVE  OwnInv(t)'
<1>1. Upto(t)' = idx[t] - 1
  BY DEF Upto
<1>2. \A i \in 1..(idx[t] - 1) : i \in 1..idx[t] /\ i # idx[t]
  OBVIOUS
<1>3. \A m \in owns'[t] : \E i \in 1..(idx[t] - 1) : m = Todo(t)[i]
  <2> SUFFICES ASSUME NEW m \in owns'[t]
               PROVE  \E i \in 1..(idx[t] - 1) : m = Todo(t)[i]
    OBVIOUS
  <2>1. PICK i \in 1..idx[t] : m = Todo(t)[i]
    BY DEF OwnInv
  <2>2. i # idx[t]
    BY <2>1
  <2>3. i \in 1..(idx[t] - 1)
    BY <2>2
  <2> QED
    BY <2>1, <2>3
<1>4. chip => \A i \in 1..(idx[t] - 1) : Todo(t)[i] \in owns'[t]
  <2> SUFFICES ASSUME chip, NEW i \in 1..(idx[t] - 1)
               PROVE  Todo(t)[i] \in owns'[t]
    OBVIOUS
  <2>1. i \in 1..idx[t] /\ i # idx[t] /\ idx[t] \in 1..idx[t]
    BY <1>2
  <2>2. Todo(t)[i] \in owns[t] /\ Todo(t)[i] # Todo(t)[idx[t]]
    BY <2>1 DEF OwnInv
  <2> QED
    BY <2>2
<1>5. chip => \A i, j \in 1..(idx[t] - 1) : Todo(t)[i] = Todo(t)[j] => i = j
  BY <1>2 DEF OwnInv
<1> QED
  BY <1>1, <1>3, <1>4, <1>5 DEF OwnInv

(* A line is freed up to chip->free, or stranded when the chip is gone. *)
LEMMA FreeStep ==
  ASSUME LibInv, NEW t \in Threads \ {Remover}, Free(t)
  PROVE  LibInv'
<1> USE DEF LibInv
<1>1. t \in Users /\ at[t] = "free" /\ idx[t] > 0 /\ t \in Threads
  BY UsersAre DEF Free
<1>2. chip' = chip /\ mockdev' = mockdev /\ refs' = refs
  BY DEF Free
<1>3. PlaceInv(t) /\ OwnInv(t) /\ ThreadTypes /\ FlagTypes /\ Upto(t) = idx[t]
  BY <1>1 DEF ThreadsInv, LibTypes, Upto
<1>4. /\ idx[t] \in Nat /\ idx[t] >= 1 /\ idx[t] <= Len(Todo(t)) /\ Len(Todo(t)) \in Nat
      /\ LineAt(t) = Todo(t)[idx[t]] /\ LineAt(t) \in LibLines
  BY <1>1, AtLine
<1>5. PICK l \in LibLines : l = LineAt(t)
  BY <1>4
<1>6. PICK F : F = IF "EXPORT" \in flags[l] THEN flags[l] \ {"EXPORT", "USED_AS_IRQ"} ELSE flags[l]
  OBVIOUS
<1>7. flags' = [flags EXCEPT ![l] = F] /\ F \in SUBSET Flags
  <2>1. flags[l] \in SUBSET Flags
    BY <1>3 DEF FlagTypes
  <2>2. flags' = [flags EXCEPT ![l] = IF "EXPORT" \in @ THEN Unexported(l) ELSE @]
    BY <1>5 DEF Free
  <2>3. flags' = [flags EXCEPT ![l] = F]
    BY <1>6, <2>2 DEF Unexported
  <2> QED
    BY <1>6, <2>1, <2>3
<1>8. FlagTypes' /\ flags'[l] = F /\ \A m \in LibLines : m # l => SameFlags(m)
  BY <1>3, <1>7, Painted
<1>9. LineInv(l)
  BY DEF LinesInv
<1>10. /\ "REQUESTED" \in flags'[l] <=> "REQUESTED" \in flags[l]
       /\ "SYSFS" \in flags'[l] <=> "SYSFS" \in flags[l]
       /\ "EXPORT" \notin flags'[l] /\ "USED_AS_IRQ" \notin flags'[l]
  <2>1. "USED_AS_IRQ" \in flags[l] => "EXPORT" \in flags[l]
    BY <1>9 DEF LineInv
  <2> QED
    BY <1>6, <1>8, <2>1
<1>11. \A m \in LibLines : "SYSFS" \in flags'[m] <=> "SYSFS" \in flags[m]
  BY <1>8, <1>10 DEF SameFlags
<1>12. chip => l \in owns[t] /\ Claims(t, l) /\ "REQUESTED" \in flags[l] /\ "SYSFS" \notin flags[l]
  <2>1. chip => l \in owns[t]
    BY <1>1, <1>5, HasLine
  <2> QED
    BY <1>1, <1>9, <2>1 DEF Claims, LineInv
<1>13. CASE chip
  <2>1. /\ granted' = granted \ {l} /\ at' = [at EXCEPT ![t] = "freeing"]
        /\ idx' = idx /\ owns' = owns /\ stranded' = stranded
    BY <1>5, <1>12, <1>13 DEF Free, Go
  <2>2. /\ idx' = [idx EXCEPT ![t] = idx[t]] /\ owns' = [owns EXCEPT ![t] = owns[t]]
        /\ owns[t] \in SUBSET LibLines
    BY <1>1, <1>3, <2>1, Kept
  <2>3. Others(t) /\ at'[t] = "freeing" /\ idx'[t] = idx[t] /\ owns'[t] = owns[t] /\ ThreadTypes'
    BY <1>1, <1>3, <1>4, <2>1, <2>2, Moved DEF Places
  <2>4. PlaceInv(t)'
    BY <1>2, <1>4, <1>13, <2>3 DEF PlaceInv, Inside
  <2>5. OwnInv(t)'
    <3>1. Upto(t)' = Upto(t)
      BY <1>3, <2>3 DEF Upto
    <3> QED
      BY <1>1, <1>2, <1>3, <2>3, <3>1 DEF OwnInv
  <2>6. LineInv(l)'
    <3>1. \A u \in Users \ {t} : ~Claims(u, l) /\ ~Asks(u, l) /\ ~Frees(u, l)
      BY <1>1, <1>12, <1>13, Alone
    <3>2. ~Asks(t, l)'
      BY <2>3 DEF Asks
    <3>3. l \notin granted'
      BY <2>1
    <3> QED
      BY <1>1, <1>10, <1>12, <1>13, <2>3, <3>1, <3>2, <3>3, ThisLine
  <2>7. \A m \in LibLines : m # l => KeptFor(t, m)
    BY <1>8, <2>1 DEF KeptFor
  <2>8. granted' \subseteq LibLines /\ stranded' \subseteq LibLines /\ (stranded' # {} => ~chip)
    BY <2>1 DEF LibTypes, LinesInv
  <2>9. Todo(t)[idx'[t]] = l
    BY <1>4, <1>5, <2>3
  <2>10. LibTypes' /\ ThreadsInv' /\ LinesInv'
    BY <1>1, <1>2, <1>8, <2>3, <2>4, <2>5, <2>6, <2>7, <2>8, <2>9, LineStep
  <2>11. \A m \in LibLines : UsedBy(t, m)' <=> UsedBy(t, m)
    BY <1>11, <2>1 DEF UsedBy
  <2>12. UsedLines' = UsedLines
    BY <1>1, <2>3, <2>11, UsedSame
  <2>13. RefsExact'
    BY <1>1, <1>2, <2>3, <2>12, OpenSame, RefsSame
  <2> QED
    BY <2>10, <2>13
<1>14. CASE ~chip
  <2>1. /\ stranded' = stranded \cup (owns[t] \cap {l}) /\ owns' = [owns EXCEPT ![t] = owns[t] \ {l}]
        /\ at' = [at EXCEPT ![t] = "free"] /\ idx' = [idx EXCEPT ![t] = idx[t] - 1] /\ granted' = granted
    BY <1>5, <1>14 DEF Free, GoTo, Go
  <2>2. owns[t] \ {l} \in SUBSET LibLines /\ idx[t] - 1 \in Nat /\ "free" \in Places
    BY <1>1, <1>3, <1>4, Kept DEF Places
  <2>3. Others(t) /\ at'[t] = "free" /\ idx'[t] = idx[t] - 1 /\ owns'[t] = owns[t] \ {l} /\ ThreadTypes'
    BY <1>1, <1>3, <2>1, <2>2, Moved
  <2>4. PlaceInv(t)'
    BY <1>4, <2>3 DEF PlaceInv, Inside
  <2>5. OwnInv(t)'
    BY <1>1, <1>2, <1>3, <1>4, <1>5, <2>3, GivenUp
  <2>6. LineInv(l)'
    <3>1. \A u \in Users : ~Asks(u, l) /\ ~Frees(u, l)
      BY <1>14 DEF ThreadsInv, PlaceInv, Asks, Frees
    <3>2. ~Asks(t, l)' /\ ~Frees(t, l)' /\ ~Claims(t, l)'
      BY <2>3 DEF Asks, Frees, Claims
    <3>3. (\E u \in Users \ {t} : Claims(u, l)) => "REQUESTED" \in flags'[l] /\ "SYSFS" \notin flags'[l]
      BY <1>9, <1>10 DEF LineInv
    <3>4. /\ "SYSFS" \in flags'[l] => "REQUESTED" \in flags'[l]
          /\ l \in granted' => "REQUESTED" \in flags'[l]
      BY <1>9, <1>10, <2>1 DEF LineInv
    <3> QED
      BY <1>1, <1>10, <2>3, <3>1, <3>2, <3>3, <3>4, ThisLine
  <2>7. \A m \in LibLines : m # l => KeptFor(t, m)
    BY <1>8, <2>1, <2>3 DEF KeptFor
  <2>8. granted' \subseteq LibLines /\ stranded' \subseteq LibLines
    BY <2>1 DEF LibTypes
  <2>9. LibTypes' /\ ThreadsInv' /\ LinesInv'
    BY <1>1, <1>2, <1>8, <1>14, <2>3, <2>4, <2>5, <2>6, <2>7, <2>8, LineStep
  <2>10. \A m \in LibLines : UsedBy(t, m)' <=> UsedBy(t, m)
    BY <1>11, <2>1, <2>3 DEF UsedBy
  <2>11. UsedLines' = UsedLines
    BY <1>1, <2>3, <2>10, UsedSame
  <2>12. RefsExact'
    BY <1>1, <1>2, <2>3, <2>11, OpenSame, RefsSame
  <2> QED
    BY <2>9, <2>12
<1> QED
  BY <1>13, <1>14

(* chip->free has returned: the reference that goes is that of this line. *)
LEMMA FreeDoneStep ==
  ASSUME LibInv, NEW t \in Threads \ {Remover}, FreeDone(t)
  PROVE  LibInv'
<1> USE DEF LibInv
<1>1. t \in Users /\ at[t] = "freeing" /\ t \in Threads
  BY UsersAre DEF FreeDone
<1>2. chip' = chip /\ mockdev' = mockdev /\ granted' = granted /\ stranded' = stranded /\ refs' = refs - 1
  BY DEF FreeDone
<1>3. PlaceInv(t) /\ OwnInv(t) /\ ThreadTypes /\ FlagTypes /\ Upto(t) = idx[t] /\ at[t] \in Inside
  BY <1>1 DEF ThreadsInv, LibTypes, Upto, Inside
<1>4. /\ idx[t] \in Nat /\ idx[t] >= 1 /\ idx[t] <= Len(Todo(t)) /\ Len(Todo(t)) \in Nat
      /\ LineAt(t) = Todo(t)[idx[t]] /\ LineAt(t) \in LibLines
  BY <1>1, <1>3, AtLine
<1>5. PICK l \in LibLines : l = LineAt(t)
  BY <1>4
<1>6. chip /\ LineInv(l) /\ l \in owns[t] /\ Frees(t, l)
  <2>1. chip
    BY <1>1, <1>3 DEF PlaceInv
  <2>2. l \in owns[t]
    BY <1>1, <1>5, <2>1, HasLine
  <2> QED
    BY <1>1, <1>5, <2>1, <2>2 DEF LinesInv, Frees
<1>7. Claims(t, l) /\ "SYSFS" \notin flags[l] /\ "EXPORT" \notin flags[l] /\ "USED_AS_IRQ" \notin flags[l] /\ l \notin granted
  BY <1>1, <1>6 DEF LineInv, Claims
<1>8. /\ flags' = [flags EXCEPT ![l] = flags[l] \ {"REQUESTED"}] /\ owns' = [owns EXCEPT ![t] = owns[t] \ {l}]
      /\ at' = [at EXCEPT ![t] = "free"] /\ idx' = [idx EXCEPT ![t] = idx[t] - 1]
  BY <1>5 DEF FreeDone, SetFlags, FreedFlags, GoTo, Go
<1>9. owns[t] \ {l} \in SUBSET LibLines /\ idx[t] - 1 \in Nat /\ "free" \in Places
  BY <1>1, <1>3, <1>4, Kept DEF Places
<1>10. Others(t) /\ at'[t] = "free" /\ idx'[t] = idx[t] - 1 /\ owns'[t] = owns[t] \ {l} /\ ThreadTypes'
  BY <1>1, <1>3, <1>8, <1>9, Moved
<1>11. /\ FlagTypes' /\ flags'[l] = flags[l] \ {"REQUESTED"}
       /\ \A m \in LibLines : m # l => SameFlags(m)
  <2>1. flags[l] \ {"REQUESTED"} \in SUBSET Flags
    BY <1>3 DEF FlagTypes
  <2> QED
    BY <1>3, <1>8, <2>1, Painted
<1>12. PlaceInv(t)'
  BY <1>4, <1>10 DEF PlaceInv, Inside
<1>13. OwnInv(t)'
  BY <1>1, <1>2, <1>3, <1>4, <1>5, <1>10, GivenUp
<1>14. \A u \in Users \ {t} : ~Claims(u, l) /\ ~Asks(u, l) /\ ~Frees(u, l)
  BY <1>1, <1>7, Alone
<1>15. LineInv(l)'
  <2>1. ~Asks(t, l)' /\ ~Frees(t, l)' /\ ~Claims(t, l)'
    BY <1>10 DEF Asks, Frees, Claims
  <2>2. /\ "SYSFS" \notin flags'[l] /\ "EXPORT" \notin flags'[l] /\ l \notin granted'
        /\ "USED_AS_IRQ" \notin flags'[l]
    BY <1>2, <1>7, <1>11
  <2> QED
    BY <1>1, <1>10, <1>14, <2>1, <2>2, ThisLine
<1>16. \A m \in LibLines : m # l => KeptFor(t, m)
  BY <1>2, <1>10, <1>11 DEF KeptFor
<1>17. granted' \subseteq LibLines /\ stranded' \subseteq LibLines /\ (stranded' # {} => ~chip)
  BY <1>2 DEF LibTypes, LinesInv
<1>18. LibTypes' /\ ThreadsInv' /\ LinesInv'
  BY <1>1, <1>2, <1>10, <1>11, <1>12, <1>13, <1>15, <1>16, <1>17, LineStep
<1>19. RefsExact'
  <2>1. \A m \in LibLines : m # l => (UsedBy(t, m)' <=> UsedBy(t, m))
    BY <1>2, <1>10, <1>11 DEF UsedBy, SameFlags
  <2>2. \A m \in LibLines : m # l => (m \in UsedLines' <=> m \in UsedLines)
    BY <1>1, <1>10, <2>1, UsedLine
  <2>3. l \in UsedLines
    BY <1>1, <1>6, UsedIs DEF UsedBy
  <2>4. l \notin UsedLines'
    <3>1. \A u \in Threads \ {t} : l \notin owns[u]
      BY <1>14, UsersAre DEF Claims, ThreadsInv, RemoverInv
    <3>2. stranded = {}
      BY <1>6 DEF LinesInv
    <3>3. ~UsedBy(t, l)'
      BY <1>2, <1>7, <1>10, <1>11, <3>2 DEF UsedBy
    <3> QED
      BY <1>1, <1>10, <3>1, <3>3, UsedIsNext
  <2>5. UsedLines \subseteq LibLines /\ UsedLines' \subseteq LibLines
    BY DEF UsedLines
  <2>6. UsedLines' = UsedLines \ {l}
    BY <2>2, <2>4, <2>5
  <2>7. OpenFiles' = OpenFiles
    BY <1>1, <1>10, OpenSame
  <2> QED
    BY <1>2, <2>3, <2>6, <2>7, LineLess
<1> QED
  BY <1>18, <1>19

(* The last line is freed and the file gives back its own reference. *)
LEMMA ClosedStep ==
  ASSUME LibInv, NEW t \in Threads \ {Remover}, Closed(t)
  PROVE  LibInv'
<1> USE DEF LibInv
<1>1. t \in Users /\ at[t] = "free" /\ idx[t] = 0 /\ t \in Threads
  BY UsersAre DEF Closed
<1>2. /\ chip' = chip /\ mockdev' = mockdev /\ granted' = granted /\ stranded' = stranded /\ flags' = flags
      /\ owns' = owns /\ refs' = refs - FilePut(t)
  BY DEF Closed
<1>3. OwnInv(t) /\ ThreadTypes /\ FlagTypes /\ Upto(t) = 0
  BY <1>1 DEF ThreadsInv, LibTypes, Upto
<1>4. owns[t] \in SUBSET LibLines /\ owns' = [owns EXCEPT ![t] = owns[t]]
  BY <1>1, <1>2, <1>3, Kept
<1>5. at' = [at EXCEPT ![t] = "closed"] /\ idx' = [idx EXCEPT ![t] = 1] /\ "closed" \in Places
  BY DEF Closed, GoTo, Go, Places
<1>6. Others(t) /\ at'[t] = "closed" /\ idx'[t] = 1 /\ owns'[t] = owns[t] /\ ThreadTypes'
  BY <1>1, <1>3, <1>4, <1>5, Moved
<1>7. PlaceInv(t)'
  BY <1>6 DEF PlaceInv, Inside
<1>8. owns[t] = {}
  BY <1>3 DEF OwnInv
<1>9. OwnInv(t)'
  BY <1>6, <1>8 DEF OwnInv
<1>10. FlagTypes' /\ \A m \in LibLines : SameFlags(m)
  BY <1>2, <1>3, FlagsKept DEF FlagTypes
<1>11. LibTypes'
  BY <1>2, <1>6, <1>10 DEF LibTypes
<1>12. ThreadsInv'
  BY <1>1, <1>2, <1>6, <1>7, <1>9, OneThread
<1>13. LinesInv' /\ UsedLines' = UsedLines
  BY <1>1, <1>2, <1>6, <1>10, QuietLines
<1>14. RefsExact'
  <2>1. CASE t \in Files
    <3>1. OpenFiles' = OpenFiles \ {t} /\ t \in OpenFiles
      BY <1>1, <1>6, <2>1, UsersAre DEF OpenFiles, Others
    <3>2. refs' = refs - 1
      BY <1>2, <2>1 DEF FilePut
    <3> QED
      BY <1>2, <1>13, <3>1, <3>2, FileLess
  <2>2. CASE t \notin Files
    <3>0. refs \in Int
      <4>1. PICK c \in {0, 1} : c = (IF chip THEN 1 ELSE 0)
        OBVIOUS
      <4> QED
        BY <4>1, RefsAre, Counted
    <3>1. refs' = refs
      BY <1>2, <2>2, <3>0 DEF FilePut
    <3>2. OpenFiles' = OpenFiles
      BY <1>1, <1>6, <2>2, OpenSame
    <3> QED
      BY <1>2, <1>13, <3>1, <3>2, RefsSame
  <2> QED
    BY <2>1, <2>2
<1> QED
  BY <1>11, <1>12, <1>13, <1>14

-----------------------------------------------------------------------------
(* The files. *)
(* The direction is set and the next line follows, or the file is open. *)
LEMMA SetUpStep ==
  ASSUME LibInv, NEW t \in Threads, SetUp(t)
  PROVE  LibInv'
<1> USE DEF LibInv
<1>1. t \in Users /\ at[t] = "setup" /\ t \in Files
  BY UsersAre DEF SetUp
<1>2. /\ chip' = chip /\ mockdev' = mockdev /\ granted' = granted /\ stranded' = stranded
      /\ refs' = refs /\ owns' = owns
  BY DEF SetUp
<1>3. PlaceInv(t) /\ OwnInv(t) /\ ThreadTypes /\ FlagTypes /\ Upto(t) = idx[t] /\ at[t] \in Inside
  BY <1>1 DEF ThreadsInv, LibTypes, Upto, Inside
<1>4. /\ idx[t] \in Nat /\ idx[t] >= 1 /\ idx[t] <= Len(Todo(t)) /\ Len(Todo(t)) \in Nat
      /\ LineAt(t) \in LibLines
  BY <1>1, <1>3, AtLine
<1>5. PICK l \in LibLines : l = LineAt(t)
  BY <1>4
<1>6. FlagTypes' /\ \A m \in LibLines : SameFlags(m)
  <2>1. flags[l] \in SUBSET Flags
    BY <1>3 DEF FlagTypes
  <2>2. ASSUME NEW F \in {flags[l] \cup {"IS_OUT"}, flags[l] \ {"IS_OUT"}}, flags' = [flags EXCEPT ![l] = F]
        PROVE  FlagTypes' /\ \A m \in LibLines : SameFlags(m)
    <3>1. F \in SUBSET Flags
      BY <2>1, <2>2 DEF Flags
    <3>2. FlagTypes' /\ flags'[l] = F /\ \A m \in LibLines : m # l => SameFlags(m)
      BY <1>3, <2>2, <3>1, Painted
    <3>3. SameFlags(l)
      BY <2>2, <3>2 DEF SameFlags
    <3> QED
      BY <3>2, <3>3
  <2>3. \/ flags' = flags \/ flags' = [flags EXCEPT ![l] = flags[l] \cup {"IS_OUT"}]
        \/ flags' = [flags EXCEPT ![l] = flags[l] \ {"IS_OUT"}]
    BY <1>5 DEF SetUp, SetFlags
  <2>4. CASE flags' = flags
    BY <1>3, <2>4, FlagsKept DEF FlagTypes
  <2> QED
    BY <2>2, <2>3, <2>4
<1>7. owns[t] \in SUBSET LibLines /\ owns' = [owns EXCEPT ![t] = owns[t]]
  BY <1>2, <1>3, Kept
<1>8. PICK p \in {"request", "open"}, i \in Nat :
        /\ at' = [at EXCEPT ![t] = p] /\ idx' = [idx EXCEPT ![t] = i]
        /\ p = "request" => i = idx[t] + 1 /\ i <= Len(Todo(t))
        /\ p = "open" => i = idx[t] /\ i = Len(Todo(t))
  <2>1. CASE idx[t] < Len(Todo(t))
    <3>1. /\ at' = [at EXCEPT ![t] = "request"] /\ idx' = [idx EXCEPT ![t] = idx[t] + 1]
          /\ idx[t] + 1 \in Nat /\ idx[t] + 1 <= Len(Todo(t))
      BY <1>4, <2>1 DEF SetUp, GoTo, Go
    <3> QED
      BY <3>1
  <2>2. CASE ~(idx[t] < Len(Todo(t)))
    <3>1. at' = [at EXCEPT ![t] = "open"] /\ idx' = idx /\ idx[t] = Len(Todo(t))
      BY <1>4, <2>2 DEF SetUp, Go
    <3>2. idx' = [idx EXCEPT ![t] = idx[t]]
      BY <1>3, <3>1, Kept
    <3> QED
      BY <1>4, <3>1, <3>2
  <2> QED
    BY <2>1, <2>2
<1>9. Others(t) /\ at'[t] = p /\ idx'[t] = i /\ owns'[t] = owns[t] /\ ThreadTypes'
  <2>1. p \in Places
    BY <1>8 DEF Places
  <2>2. at' = [at EXCEPT ![t] = p] /\ idx' = [idx EXCEPT ![t] = i]
    BY <1>8
  <2> QED
    BY <1>3, <1>7, <2>1, <2>2, Moved
<1>10. PlaceInv(t)'
  <2>1. i \in 1..Len(Todo(t))
    BY <1>4, <1>8
  <2>2. CASE p = "request"
    BY <1>1, <1>9, <2>1, <2>2 DEF PlaceInv, Inside
  <2>3. CASE p = "open"
    BY <1>1, <1>8, <1>9, <2>1, <2>3 DEF PlaceInv, Inside
  <2> QED
    BY <1>8, <2>2, <2>3
<1>11. OwnInv(t)'
  <2>1. Upto(t)' = Upto(t)
    BY <1>3, <1>4, <1>8, <1>9 DEF Upto
  <2>2. at'[t] # "closed" /\ at'[t] # "publish"
    BY <1>8, <1>9
  <2> QED
    BY <1>1, <1>2, <1>3, <1>9, <2>1, <2>2 DEF OwnInv
<1>12. at'[t] \notin {"asking", "freeing"} /\ (at'[t] = "closed" <=> at[t] = "closed")
  BY <1>1, <1>8, <1>9
<1> QED
  BY <1>1, <1>2, <1>6, <1>9, <1>10, <1>11, <1>12, QuietStep

(* Setting up a line fails. *)
LEMMA SetUpFailsStep ==
  ASSUME LibInv, NEW t \in Threads, SetUpFails(t)
  PROVE  LibInv'
<1> USE DEF LibInv
<1>1. t \in Users /\ at[t] = "setup" /\ t \in Files
  BY UsersAre DEF SetUpFails
<1>2. /\ chip' = chip /\ mockdev' = mockdev /\ granted' = granted /\ stranded' = stranded
      /\ refs' = refs /\ owns' = owns /\ flags' = flags /\ idx' = idx /\ at' = [at EXCEPT ![t] = "free"]
  BY DEF SetUpFails, Go
<1>3. PlaceInv(t) /\ OwnInv(t) /\ ThreadTypes /\ FlagTypes /\ Upto(t) = idx[t] /\ at[t] \in Inside
  BY <1>1 DEF ThreadsInv, LibTypes, Upto, Inside
<1>4. /\ owns[t] \in SUBSET LibLines /\ owns' = [owns EXCEPT ![t] = owns[t]]
      /\ idx[t] \in Nat /\ idx' = [idx EXCEPT ![t] = idx[t]]
  BY <1>2, <1>3, Kept
<1>5. Others(t) /\ at'[t] = "free" /\ idx'[t] = idx[t] /\ owns'[t] = owns[t] /\ ThreadTypes'
  BY <1>2, <1>3, <1>4, Moved DEF Places
<1>6. PlaceInv(t)'
  BY <1>1, <1>3, <1>4, <1>5, AtLine DEF PlaceInv, Inside
<1>7. OwnInv(t)'
  <2>1. Upto(t)' = Upto(t)
    BY <1>3, <1>5 DEF Upto
  <2> QED
    BY <1>1, <1>2, <1>3, <1>5, <2>1 DEF OwnInv
<1>8. FlagTypes' /\ \A m \in LibLines : SameFlags(m)
  BY <1>2, <1>3, FlagsKept DEF FlagTypes
<1> QED
  BY <1>1, <1>2, <1>5, <1>6, <1>7, <1>8, QuietStep

(* The file is released. *)
LEMMA ReleaseStep ==
  ASSUME LibInv, NEW t \in Threads, Release(t)
  PROVE  LibInv'
<1> USE DEF LibInv
<1>1. t \in Users /\ at[t] = "open" /\ t \in Files
  BY UsersAre DEF Release
<1>2. PlaceInv(t) /\ OwnInv(t) /\ ThreadTypes /\ FlagTypes /\ Upto(t) = idx[t]
  BY <1>1 DEF ThreadsInv, LibTypes, Upto
<1>3. idx[t] = Len(Todo(t)) /\ idx[t] \in Nat
  BY <1>1, <1>2, Kept DEF PlaceInv
<1>4. /\ chip' = chip /\ mockdev' = mockdev /\ granted' = granted /\ stranded' = stranded
      /\ refs' = refs /\ owns' = owns /\ flags' = flags
      /\ at' = [at EXCEPT ![t] = "free"] /\ idx' = [idx EXCEPT ![t] = idx[t]]
  BY <1>3 DEF Release, GoTo, Go
<1>5. owns[t] \in SUBSET LibLines /\ owns' = [owns EXCEPT ![t] = owns[t]]
  BY <1>2, <1>4, Kept
<1>6. Others(t) /\ at'[t] = "free" /\ idx'[t] = idx[t] /\ owns'[t] = owns[t] /\ ThreadTypes'
  BY <1>2, <1>3, <1>4, <1>5, Moved DEF Places
<1>7. PlaceInv(t)'
  BY <1>3, <1>6 DEF PlaceInv, Inside
<1>8. OwnInv(t)'
  <2>1. Upto(t)' = Upto(t)
    BY <1>2, <1>6 DEF Upto
  <2> QED
    BY <1>1, <1>2, <1>4, <1>6, <2>1 DEF OwnInv
<1>9. FlagTypes' /\ \A m \in LibLines : SameFlags(m)
  BY <1>2, <1>4, FlagsKept DEF FlagTypes
<1> QED
  BY <1>1, <1>4, <1>6, <1>7, <1>8, <1>9, QuietStep

-----------------------------------------------------------------------------
(* sysfs *)
(* gpiod_export succeeds, or the line is freed again. *)
LEMMA ExportStep ==
  ASSUME LibInv, NEW l \in Exportable, Export(l)
  PROVE  LibInv'
<1> USE DEF LibInv
<1>0. PICK t : t = Exporter(l)
  OBVIOUS
<1>1. /\ t \in Users /\ t \in Threads /\ t \in Exporters /\ at[t] = "setup" /\ l \in LibLines
      /\ t \notin Files /\ Len(Todo(t)) = 1 /\ Todo(t)[1] = l
  BY <1>0, UsersAre, TodoOne, LibAssumption DEF Export, LibAssumption
<1>2. /\ chip' = chip /\ mockdev' = mockdev /\ granted' = granted /\ stranded' = stranded
      /\ refs' = refs /\ owns' = owns /\ idx' = idx
  BY DEF Export
<1>3. PlaceInv(t) /\ OwnInv(t) /\ ThreadTypes /\ FlagTypes /\ Upto(t) = idx[t] /\ at[t] \in Inside
  BY <1>1 DEF ThreadsInv, LibTypes, Upto, Inside
<1>4. idx[t] = 1 /\ LineAt(t) = l
  BY <1>1, <1>3, AtLine
<1>5. /\ owns[t] \in SUBSET LibLines /\ owns' = [owns EXCEPT ![t] = owns[t]]
      /\ idx[t] \in Nat /\ idx' = [idx EXCEPT ![t] = idx[t]]
  BY <1>1, <1>2, <1>3, Kept
<1>6. CASE chip /\ mockdev /\ "REQUESTED" \in flags[l] /\ "EXPORT" \notin flags[l]
  <2>1. flags' = [flags EXCEPT ![l] = flags[l] \cup {"EXPORT"}] /\ at' = [at EXCEPT ![t] = "publish"]
    BY <1>0, <1>6 DEF Export, SetFlags, Go
  <2>2. Others(t) /\ at'[t] = "publish" /\ idx'[t] = idx[t] /\ owns'[t] = owns[t] /\ ThreadTypes'
    BY <1>1, <1>3, <1>5, <2>1, Moved DEF Places
  <2>3. /\ FlagTypes' /\ flags'[l] = flags[l] \cup {"EXPORT"}
        /\ \A m \in LibLines : m # l => SameFlags(m)
    <3>1. flags[l] \cup {"EXPORT"} \in SUBSET Flags
      BY <1>1, <1>3 DEF FlagTypes, Flags
    <3> QED
      BY <1>1, <1>3, <2>1, <3>1, Painted
  <2>4. PlaceInv(t)'
    BY <1>1, <1>4, <2>2 DEF PlaceInv, Inside
  <2>5. OwnInv(t)'
    <3>1. Upto(t)' = Upto(t)
      BY <1>3, <2>2 DEF Upto
    <3> QED
      BY <1>1, <1>2, <1>3, <1>6, <2>2, <3>1 DEF OwnInv
  <2>6. LineInv(l) /\ l \in owns[t] /\ Claims(t, l)
    BY <1>1, <1>4, <1>6, HasLine DEF Claims, LinesInv
  <2>7. \A u \in Users \ {t} : ~Claims(u, l) /\ ~Asks(u, l) /\ ~Frees(u, l)
    BY <1>1, <2>6, Alone
  <2>8. LineInv(l)'
    <3>1. ~Asks(t, l)' /\ ~Frees(t, l)'
      BY <2>2 DEF Asks, Frees
    <3>2. "SYSFS" \notin flags[l]
      BY <1>1, <2>6 DEF LineInv
    <3>3. "REQUESTED" \in flags'[l] /\ "SYSFS" \notin flags'[l] /\ "EXPORT" \in flags'[l]
      BY <1>6, <2>3, <3>2
    <3> QED
      BY <1>1, <2>2, <2>6, <2>7, <3>1, <3>3, ThisLine
  <2>9. \A m \in LibLines : m # l => KeptFor(t, m)
    BY <1>2, <2>3 DEF KeptFor
  <2>10. granted' \subseteq LibLines /\ stranded' \subseteq LibLines /\ (stranded' # {} => ~chip)
    BY <1>2 DEF LibTypes, LinesInv
  <2>11. LibTypes' /\ ThreadsInv' /\ LinesInv'
    BY <1>1, <1>2, <2>2, <2>3, <2>4, <2>5, <2>8, <2>9, <2>10, LineStep
  <2>12. UsedLines' = UsedLines
    <3>1. ASSUME NEW m \in LibLines
          PROVE  "SYSFS" \in flags'[m] <=> "SYSFS" \in flags[m]
      BY <2>3 DEF SameFlags
    <3>2. \A m \in LibLines : UsedBy(t, m)' <=> UsedBy(t, m)
      BY <1>2, <3>1 DEF UsedBy
    <3> QED
      BY <1>1, <2>2, <3>2, UsedSame
  <2>13. RefsExact'
    BY <1>1, <1>2, <2>2, <2>12, OpenSame, RefsSame
  <2> QED
    BY <2>11, <2>13
<1>7. CASE ~(chip /\ mockdev /\ "REQUESTED" \in flags[l] /\ "EXPORT" \notin flags[l])
  <2>1. flags' = flags /\ at' = [at EXCEPT ![t] = "free"]
    BY <1>0, <1>7 DEF Export, Go
  <2>2. Others(t) /\ at'[t] = "free" /\ idx'[t] = idx[t] /\ owns'[t] = owns[t] /\ ThreadTypes'
    BY <1>1, <1>3, <1>5, <2>1, Moved DEF Places
  <2>3. PlaceInv(t)'
    BY <1>1, <1>4, <2>2 DEF PlaceInv, Inside
  <2>4. OwnInv(t)'
    <3>1. Upto(t)' = Upto(t)
      BY <1>3, <2>2 DEF Upto
    <3> QED
      BY <1>1, <1>2, <1>3, <2>2, <3>1 DEF OwnInv
  <2>5. FlagTypes' /\ \A m \in LibLines : SameFlags(m)
    BY <1>3, <2>1, FlagsKept DEF FlagTypes
  <2> QED
    BY <1>1, <1>2, <2>2, <2>3, <2>4, <2>5, QuietStep
<1> QED
  BY <1>6, <1>7

(* The line goes from the writer of export to userspace. *)
LEMMA PublishStep ==
  ASSUME LibInv, NEW l \in Exportable, Publish(l)
  PROVE  LibInv'
<1> USE DEF LibInv
<1>0. PICK t : t = Exporter(l)
  OBVIOUS
<1>1. /\ t \in Users /\ t \in Threads /\ at[t] = "publish" /\ l \in LibLines
      /\ t \notin Files /\ Len(Todo(t)) = 1 /\ Todo(t)[1] = l
  BY <1>0, UsersAre, TodoOne, LibAssumption DEF Publish, LibAssumption
<1>2. chip' = chip /\ mockdev' = mockdev /\ granted' = granted /\ stranded' = stranded /\ refs' = refs
  BY DEF Publish
<1>3. OwnInv(t) /\ ThreadTypes /\ FlagTypes /\ Upto(t) = idx[t] /\ at[t] \in Inside
  BY <1>1 DEF ThreadsInv, LibTypes, Upto, Inside
<1>4. idx[t] = 1 /\ LineAt(t) = l
  BY <1>1, <1>3, AtLine
<1>5. l \in owns[t] /\ Claims(t, l) /\ LineInv(l)
  BY <1>1, <1>4, HasLine DEF Claims, LinesInv
<1>6. \A m \in owns[t] : m = l
  BY <1>1, <1>3, <1>4 DEF OwnInv
<1>7. /\ flags' = [flags EXCEPT ![l] = flags[l] \cup {"SYSFS"}] /\ owns' = [owns EXCEPT ![t] = {}]
      /\ at' = [at EXCEPT ![t] = "closed"] /\ idx' = [idx EXCEPT ![t] = 1]
  BY <1>0 DEF Publish, SetFlags, GoTo, Go
<1>8. Others(t) /\ at'[t] = "closed" /\ idx'[t] = 1 /\ owns'[t] = {} /\ ThreadTypes'
  <2>1. {} \in SUBSET LibLines /\ "closed" \in Places /\ 1 \in Nat
    BY DEF Places
  <2> QED
    BY <1>1, <1>3, <1>7, <2>1, Moved
<1>9. /\ FlagTypes' /\ flags'[l] = flags[l] \cup {"SYSFS"}
      /\ \A m \in LibLines : m # l => SameFlags(m)
  <2>1. flags[l] \cup {"SYSFS"} \in SUBSET Flags
    BY <1>1, <1>3 DEF FlagTypes, Flags
  <2> QED
    BY <1>1, <1>3, <1>7, <2>1, Painted
<1>10. PlaceInv(t)' /\ OwnInv(t)'
  BY <1>8 DEF PlaceInv, Inside, OwnInv
<1>11. LineInv(l)'
  <2>1. \A u \in Users \ {t} : ~Claims(u, l) /\ ~Asks(u, l) /\ ~Frees(u, l)
    BY <1>1, <1>5, Alone
  <2>2. ~Asks(t, l)' /\ ~Frees(t, l)' /\ ~Claims(t, l)'
    BY <1>8 DEF Asks, Frees, Claims
  <2>3. "REQUESTED" \in flags'[l]
    BY <1>1, <1>5, <1>9 DEF LineInv
  <2>4. "USED_AS_IRQ" \in flags'[l] => "EXPORT" \in flags'[l]
    BY <1>5, <1>9 DEF LineInv
  <2> QED
    BY <1>1, <1>8, <2>1, <2>2, <2>3, <2>4, ThisLine
<1>12. \A m \in LibLines : m # l => KeptFor(t, m)
  BY <1>2, <1>8, <1>9 DEF KeptFor
<1>13. granted' \subseteq LibLines /\ stranded' \subseteq LibLines /\ (stranded' # {} => ~chip)
  BY <1>2 DEF LibTypes, LinesInv
<1>14. LibTypes' /\ ThreadsInv' /\ LinesInv'
  BY <1>1, <1>2, <1>8, <1>9, <1>10, <1>11, <1>12, <1>13, LineStep
<1>15. UsedLines' = UsedLines
  <2>1. ASSUME NEW m \in LibLines
        PROVE  UsedBy(t, m)' <=> UsedBy(t, m)
    <3>1. CASE m = l
      BY <1>5, <1>9, <3>1 DEF UsedBy
    <3>2. CASE m # l
      BY <1>2, <1>6, <1>8, <1>9, <3>2 DEF UsedBy, SameFlags
    <3> QED
      BY <3>1, <3>2
  <2> QED
    BY <1>1, <1>8, <2>1, UsedSame
<1>16. RefsExact'
  BY <1>1, <1>2, <1>8, <1>15, OpenSame, RefsSame
<1> QED
  BY <1>14, <1>16

(* One writer of unexport takes it back. *)
LEMMA UnexportStep ==
  ASSUME LibInv, NEW l \in Exportable, Unexport(l)
  PROVE  LibInv'
<1> USE DEF LibInv
<1>0. PICK t : t = Unexporter(l)
  OBVIOUS
<1>1. /\ t \in Users /\ t \in Threads /\ at[t] = "closed" /\ l \in LibLines
      /\ t \notin Files /\ Len(Todo(t)) = 1 /\ Todo(t)[1] = l
  BY <1>0, UsersAre, TodoOne DEF Unexport
<1>2. chip' = chip /\ mockdev' = mockdev /\ granted' = granted /\ stranded' = stranded /\ refs' = refs
  BY DEF Unexport
<1>3. OwnInv(t) /\ ThreadTypes /\ FlagTypes /\ LineInv(l)
  BY <1>1 DEF ThreadsInv, LibTypes, LinesInv
<1>4. owns[t] = {}
  BY <1>1, <1>3 DEF OwnInv
<1>5. /\ "SYSFS" \in flags[l] /\ flags' = [flags EXCEPT ![l] = flags[l] \ {"SYSFS"}]
      /\ owns' = [owns EXCEPT ![t] = {l}] /\ at' = [at EXCEPT ![t] = "free"] /\ idx' = [idx EXCEPT ![t] = 1]
  BY <1>0 DEF Unexport, TakeOver, SetFlags, GoTo, Go
<1>6. {l} \in SUBSET LibLines /\ "free" \in Places /\ 1 \in Nat
  BY <1>1 DEF Places
<1>7. Others(t) /\ at'[t] = "free" /\ idx'[t] = 1 /\ owns'[t] = {l} /\ ThreadTypes'
  BY <1>1, <1>3, <1>5, <1>6, Moved
<1>8. /\ FlagTypes' /\ flags'[l] = flags[l] \ {"SYSFS"}
      /\ \A m \in LibLines : m # l => SameFlags(m)
  <2>1. PICK F : F = flags[l] \ {"SYSFS"}
    OBVIOUS
  <2>2. F \in SUBSET Flags
    BY <1>1, <1>3, <2>1 DEF FlagTypes
  <2>3. flags' = [flags EXCEPT ![l] = F]
    BY <1>5, <2>1
  <2>4. FlagTypes' /\ flags'[l] = F /\ \A m \in LibLines : m # l => SameFlags(m)
    BY <1>1, <1>3, <2>2, <2>3, Painted
  <2> QED
    BY <2>1, <2>4
<1>9. \A u \in Users : ~Claims(u, l)
  BY <1>3, <1>5 DEF LineInv
<1>10. \A u \in Users : ~Asks(u, l) /\ ~Frees(u, l)
  <2> SUFFICES ASSUME NEW u \in Users
               PROVE  ~Asks(u, l) /\ ~Frees(u, l)
    OBVIOUS
  <2>1. Frees(u, l) => l \in owns[u]
    BY HasLine DEF Frees
  <2> QED
    BY <1>9, <2>1 DEF Claims
<1>11. PlaceInv(t)'
  BY <1>1, <1>7 DEF PlaceInv, Inside
<1>12. OwnInv(t)'
  <2>1. Upto(t)' = 1
    BY <1>7 DEF Upto
  <2> QED
    BY <1>1, <1>7, <2>1 DEF OwnInv
<1>13. LineInv(l)'
  <2>1. ~Asks(t, l)' /\ ~Frees(t, l)'
    BY <1>7 DEF Asks, Frees
  <2>2. "REQUESTED" \in flags'[l] /\ "SYSFS" \notin flags'[l]
    BY <1>3, <1>5, <1>8 DEF LineInv
  <2>3. "USED_AS_IRQ" \in flags'[l] => "EXPORT" \in flags'[l]
    BY <1>3, <1>8 DEF LineInv
  <2> QED
    BY <1>1, <1>7, <1>9, <1>10, <2>1, <2>2, <2>3, ThisLine
<1>14. \A m \in LibLines : m # l => KeptFor(t, m)
  BY <1>2, <1>7, <1>8 DEF KeptFor
<1>15. granted' \subseteq LibLines /\ stranded' \subseteq LibLines /\ (stranded' # {} => ~chip)
  BY <1>2 DEF LibTypes, LinesInv
<1>16. LibTypes' /\ ThreadsInv' /\ LinesInv'
  BY <1>1, <1>2, <1>7, <1>8, <1>11, <1>12, <1>13, <1>14, <1>15, LineStep
<1>17. UsedLines' = UsedLines
  <2>1. ASSUME NEW m \in LibLines
        PROVE  UsedBy(t, m)' <=> UsedBy(t, m)
    <3>1. CASE m = l
      BY <1>5, <1>7, <3>1 DEF UsedBy
    <3>2. CASE m # l
      BY <1>2, <1>4, <1>7, <1>8, <3>2 DEF UsedBy, SameFlags
    <3> QED
      BY <3>1, <3>2
  <2> QED
    BY <1>1, <1>7, <2>1, UsedSame
<1>18. RefsExact'
  BY <1>1, <1>2, <1>7, <1>17, OpenSame, RefsSame
<1> QED
  BY <1>16, <1>18

(* The attributes of an exported line. *)
LEMMA StoreStep ==
  ASSUME LibInv, NEW l \in LibLines, NEW F \in SUBSET Flags, chip, "EXPORT" \in flags[l],
         flags' = [flags EXCEPT ![l] = F],
         \A g \in {"REQUESTED", "EXPORT", "SYSFS"} : g \in F <=> g \in flags[l],
         UNCHANGED <<chip, mockdev, granted, refs, threadVars, stranded>>
  PROVE  LibInv'
<1> USE DEF LibInv
<1>1. /\ chip' = chip /\ mockdev' = mockdev /\ granted' = granted /\ stranded' = stranded /\ refs' = refs
      /\ at' = at /\ idx' = idx /\ owns' = owns
  BY DEF threadVars
<1>2. FlagTypes' /\ flags'[l] = F /\ \A m \in LibLines : m # l => SameFlags(m)
  BY Painted DEF LibTypes
<1>3. LibTypes'
  BY <1>1, <1>2 DEF LibTypes, ThreadTypes
<1>4. ThreadsInv'
  BY <1>1 DEF ThreadsInv, PlaceInv, OwnInv, RemoverInv, Upto
<1>5. Others(Remover) /\ Remover \in Threads
  BY <1>1, UsersAre DEF Others
<1>6. ASSUME NEW m \in LibLines, m # l
      PROVE  LineInv(m)'
  BY <1>1, <1>2, <1>5, <1>6, OtherLine
<1>7. LineInv(l) /\ "REQUESTED" \in flags'[l]
  BY <1>2 DEF LinesInv, LineInv
<1>8. /\ "REQUESTED" \in flags'[l] <=> "REQUESTED" \in flags[l]
      /\ "SYSFS" \in flags'[l] <=> "SYSFS" \in flags[l]
      /\ "EXPORT" \in flags'[l] <=> "EXPORT" \in flags[l]
  BY <1>2
<1>9. LineInv(l)'
  <2>1. \A u \in Users : (Claims(u, l)' <=> Claims(u, l)) /\ (Asks(u, l)' <=> Asks(u, l)) /\ (Frees(u, l)' <=> Frees(u, l))
    BY <1>1 DEF Claims, Asks, Frees, LineAt
  <2>2. \A u, v \in Users : Claims(u, l)' /\ Claims(v, l)' => u = v
    BY <1>7, <2>1 DEF LineInv
  <2>3. \A u \in Users : Claims(u, l)' => "REQUESTED" \in flags'[l] /\ "SYSFS" \notin flags'[l]
    BY <1>7, <1>8, <2>1 DEF LineInv
  <2>4. \A u \in Users : Asks(u, l)' => l \notin owns'[u]
    BY <1>1, <1>7, <2>1 DEF LineInv
  <2>5. \A u \in Users : Asks(u, l)' \/ Frees(u, l)' => l \notin granted' /\ "EXPORT" \notin flags'[l]
    BY <1>1, <1>7, <1>8, <2>1 DEF LineInv
  <2> QED
    BY <1>7, <1>8, <2>2, <2>3, <2>4, <2>5 DEF LineInv
<1>10. LinesInv'
  BY <1>1, <1>6, <1>9 DEF LinesInv
<1>11. \A m \in LibLines : UsedBy(Remover, m)' <=> UsedBy(Remover, m)
  BY <1>1, <1>2, <1>8 DEF UsedBy, SameFlags
<1>12. UsedLines' = UsedLines
  BY <1>5, <1>11, UsedSame
<1>13. RefsExact'
  BY <1>1, <1>5, <1>12, OpenSame, RefsSame
<1> QED
  BY <1>3, <1>4, <1>10, <1>13

(* direction_store *)
LEMMA DirectionStoreStep ==
  ASSUME LibInv, NEW l \in Exportable, NEW out \in BOOLEAN, DirectionStore(l, out)
  PROVE  LibInv'
<1>1. l \in LibLines /\ flags[l] \in SUBSET Flags
  BY UsersAre DEF LibInv, LibTypes, FlagTypes
<1>2. PICK F \in {flags[l] \cup {"IS_OUT"}, flags[l] \ {"IS_OUT"}} : flags' = [flags EXCEPT ![l] = F]
  BY DEF DirectionStore, SetFlags
<1>3. F \in SUBSET Flags /\ \A g \in {"REQUESTED", "EXPORT", "SYSFS"} : g \in F <=> g \in flags[l]
  BY <1>1, <1>2 DEF Flags
<1>4. chip /\ "EXPORT" \in flags[l] /\ UNCHANGED <<chip, mockdev, granted, refs, threadVars, stranded>>
  BY DEF DirectionStore
<1> QED
  BY <1>1, <1>2, <1>3, <1>4, StoreStep

(* edge_store *)
LEMMA EdgeStoreStep ==
  ASSUME LibInv, NEW l \in Exportable, EdgeStore(l)
  PROVE  LibInv'
<1>1. l \in LibLines /\ flags[l] \in SUBSET Flags
  BY UsersAre DEF LibInv, LibTypes, FlagTypes
<1>2. PICK F \in {flags[l] \cup {"USED_AS_IRQ"}, flags[l] \ {"USED_AS_IRQ"}} : flags' = [flags EXCEPT ![l] = F]
  BY DEF EdgeStore, SetFlags
<1>3. F \in SUBSET Flags /\ \A g \in {"REQUESTED", "EXPORT", "SYSFS"} : g \in F <=> g \in flags[l]
  BY <1>1, <1>2 DEF Flags
<1>4. chip /\ "EXPORT" \in flags[l] /\ UNCHANGED <<chip, mockdev, granted, refs, threadVars, stranded>>
  BY DEF EdgeStore
<1> QED
  BY <1>1, <1>2, <1>3, <1>4, StoreStep

-----------------------------------------------------------------------------
(* gpiochip_remove *)
(* The scan begins. *)
LEMMA RemoveStartStep ==
  ASSUME LibInv, RemoveStart
  PROVE  LibInv'
<1> USE DEF LibInv
<1>1. /\ chip /\ chip' = chip /\ mockdev' = FALSE /\ granted' = granted /\ stranded' = stranded /\ refs' = refs
      /\ flags' = flags /\ idx' = idx /\ owns' = owns /\ at' = [at EXCEPT ![Remover] = "open"]
  BY DEF RemoveStart, Go
<1>2. Remover \in Threads /\ Remover \notin Files /\ ThreadTypes /\ FlagTypes
  BY UsersAre DEF LibTypes
<1>3. /\ owns[Remover] \in SUBSET LibLines /\ owns' = [owns EXCEPT ![Remover] = owns[Remover]]
      /\ idx[Remover] \in Nat /\ idx' = [idx EXCEPT ![Remover] = idx[Remover]] /\ "open" \in Places
  BY <1>1, <1>2, Kept DEF Places
<1>4. /\ Others(Remover) /\ at'[Remover] = "open" /\ idx'[Remover] = idx[Remover]
      /\ owns'[Remover] = owns[Remover] /\ ThreadTypes'
  BY <1>1, <1>2, <1>3, Moved
<1>5. FlagTypes' /\ \A m \in LibLines : SameFlags(m)
  BY <1>1, <1>2, FlagsKept DEF FlagTypes
<1>6. LibTypes'
  BY <1>1, <1>4, <1>5 DEF LibTypes
<1>7. ThreadsInv'
  <2>1. ASSUME NEW u \in Users
        PROVE  PlaceInv(u)' /\ OwnInv(u)'
    <3>1. at'[u] = at[u] /\ idx'[u] = idx[u] /\ owns'[u] = owns[u]
      BY <1>4, UsersAre DEF Others
    <3> QED
      BY <1>1, <3>1 DEF ThreadsInv, PlaceInv, OwnInv, Upto
  <2>2. RemoverInv'
    BY <1>1, <1>4 DEF ThreadsInv, RemoverInv
  <2> QED
    BY <2>1, <2>2 DEF ThreadsInv
<1>8. LinesInv' /\ UsedLines' = UsedLines
  BY <1>1, <1>2, <1>4, <1>5, QuietLines
<1>9. RefsExact'
  BY <1>1, <1>2, <1>4, <1>8, OpenSame, RefsSame
<1> QED
  BY <1>6, <1>7, <1>8, <1>9

(* One line of the scan. *)
LEMMA RemoveSysfsStep ==
  ASSUME LibInv, RemoveSysfs
  PROVE  LibInv'
<1> USE DEF LibInv
<1>1. /\ at[Remover] = "open" /\ idx[Remover] <= N /\ chip' = chip /\ mockdev' = mockdev
      /\ stranded' = stranded /\ at' = at /\ owns' = owns
      /\ idx' = [idx EXCEPT ![Remover] = idx[Remover] + 1]
  BY DEF RemoveSysfs
<1>2. Remover \in Threads /\ Remover \notin Files /\ ThreadTypes /\ FlagTypes
  BY UsersAre DEF LibTypes
<1>3. chip /\ idx[Remover] >= 1 /\ idx[Remover] \in Nat /\ owns[Remover] = {} /\ stranded = {}
  BY <1>1, <1>2, Kept DEF ThreadsInv, RemoverInv, LinesInv
<1>4. PICK l \in LibLines : l = idx[Remover]
  BY <1>1, <1>3, LibAssumption DEF LibAssumption, LibLines
<1>5. /\ owns[Remover] \in SUBSET LibLines /\ owns' = [owns EXCEPT ![Remover] = owns[Remover]]
      /\ idx[Remover] + 1 \in Nat /\ at[Remover] \in Places /\ at' = [at EXCEPT ![Remover] = at[Remover]]
  BY <1>1, <1>2, <1>3, Kept DEF ThreadTypes
<1>6. /\ Others(Remover) /\ at'[Remover] = at[Remover] /\ idx'[Remover] = idx[Remover] + 1
      /\ owns'[Remover] = owns[Remover] /\ ThreadTypes'
  BY <1>1, <1>2, <1>5, Moved, Zenon
<1>7. ThreadsInv'
  <2>1. ASSUME NEW u \in Users
        PROVE  PlaceInv(u)' /\ OwnInv(u)'
    <3>1. at'[u] = at[u] /\ idx'[u] = idx[u] /\ owns'[u] = owns[u]
      BY <1>6, UsersAre DEF Others
    <3> QED
      BY <1>1, <3>1 DEF ThreadsInv, PlaceInv, OwnInv, Upto
  <2>2. RemoverInv'
    BY <1>1, <1>3, <1>6 DEF ThreadsInv, RemoverInv
  <2> QED
    BY <2>1, <2>2 DEF ThreadsInv
<1>8. OpenFiles' = OpenFiles
  BY <1>2, <1>6, OpenSame
<1>9. CASE "SYSFS" \notin flags[l]
  <2>1. flags' = flags /\ granted' = granted /\ refs' = refs
    BY <1>4, <1>9 DEF RemoveSysfs
  <2>2. FlagTypes' /\ \A m \in LibLines : SameFlags(m)
    BY <1>2, <2>1, FlagsKept DEF FlagTypes
  <2>3. LibTypes'
    BY <1>1, <1>6, <2>1, <2>2 DEF LibTypes
  <2>4. LinesInv' /\ UsedLines' = UsedLines
    BY <1>1, <1>2, <1>6, <2>1, <2>2, QuietLines
  <2>5. RefsExact'
    BY <1>1, <1>8, <2>1, <2>4, RefsSame
  <2> QED
    BY <1>7, <2>3, <2>4, <2>5
<1>10. CASE "SYSFS" \in flags[l]
  <2>1. PICK F : F = flags[l] \ {"EXPORT", "USED_AS_IRQ", "SYSFS", "REQUESTED"}
    OBVIOUS
  <2>2. F \in SUBSET Flags
    BY <1>2, <2>1 DEF FlagTypes
  <2>3. granted' = granted \ {l} /\ refs' = refs - 1
    BY <1>4, <1>10 DEF RemoveSysfs
  <2>4. flags' = [flags EXCEPT ![l] = F]
    <3>1. flags' = [flags EXCEPT ![l] = Unexported(l) \ {"SYSFS", "REQUESTED"}]
      BY <1>4, <1>10 DEF RemoveSysfs
    <3>2. Unexported(l) \ {"SYSFS", "REQUESTED"} = F
      BY <2>1 DEF Unexported
    <3> QED
      BY <3>1, <3>2
  <2>5. FlagTypes' /\ flags'[l] = F /\ \A m \in LibLines : m # l => SameFlags(m)
    BY <1>2, <2>2, <2>4, Painted
  <2>6. LibTypes'
    BY <1>1, <1>6, <2>3, <2>5 DEF LibTypes
  <2>7. \A u \in Users : ~Claims(u, l)
    BY <1>10 DEF LinesInv, LineInv
  <2>8. LineInv(l)'
    <3>1. \A u \in Users : ~Claims(u, l)'
      <4> SUFFICES ASSUME NEW u \in Users
                   PROVE  ~Claims(u, l)'
        OBVIOUS
      <4>1. at'[u] = at[u] /\ idx'[u] = idx[u] /\ owns'[u] = owns[u]
        BY <1>6, UsersAre DEF Others
      <4> QED
        BY <2>7, <4>1 DEF Claims, Asks, LineAt
    <3>2. \A u \in Users : Asks(u, l)' => l \notin owns'[u]
      BY <3>1 DEF Claims
    <3>3. /\ "SYSFS" \notin flags'[l] /\ "EXPORT" \notin flags'[l] /\ l \notin granted'
          /\ "USED_AS_IRQ" \notin flags'[l]
      BY <2>1, <2>3, <2>5
    <3> QED
      BY <3>1, <3>2, <3>3 DEF LineInv
  <2>9. ASSUME NEW m \in LibLines, m # l
        PROVE  LineInv(m)'
    <3>1. m \in granted' => m \in granted
      BY <2>3
    <3> QED
      BY <1>1, <1>2, <1>6, <2>5, <2>9, <3>1, OtherLine
  <2>10. LinesInv'
    BY <1>1, <2>8, <2>9, <1>3 DEF LinesInv
  <2>11. \A m \in LibLines : m # l => (UsedBy(Remover, m)' <=> UsedBy(Remover, m))
    BY <1>1, <2>5 DEF UsedBy, SameFlags
  <2>12. \A m \in LibLines : m # l => (m \in UsedLines' <=> m \in UsedLines)
    BY <1>2, <1>6, <2>11, UsedLine
  <2>13. l \in UsedLines
    BY <1>2, <1>10, UsedIs DEF UsedBy
  <2>14. l \notin UsedLines'
    <3>1. \A u \in Threads \ {Remover} : l \notin owns[u]
      BY <2>7, UsersAre DEF Claims
    <3>2. ~UsedBy(Remover, l)'
      BY <1>1, <1>3, <2>1, <2>5 DEF UsedBy
    <3> QED
      BY <1>2, <1>6, <3>1, <3>2, UsedIsNext
  <2>15. UsedLines \subseteq LibLines /\ UsedLines' \subseteq LibLines
    BY DEF UsedLines
  <2>16. UsedLines' = UsedLines \ {l}
    BY <2>12, <2>14, <2>15
  <2>17. RefsExact'
    BY <1>1, <1>8, <2>3, <2>13, <2>16, LineLess
  <2> QED
    BY <1>7, <2>6, <2>10, <2>17
<1> QED
  BY <1>9, <1>10

(* The chip goes with no call into its driver under way. *)
LEMMA RemoveChipStep ==
  ASSUME LibInv, RemoveChip
  PROVE  LibInv'
<1> USE DEF LibInv
<1>1. /\ at[Remover] = "open" /\ chip' = FALSE /\ mockdev' = mockdev /\ granted' = granted /\ stranded' = stranded
      /\ flags' = flags /\ idx' = idx /\ owns' = owns /\ at' = [at EXCEPT ![Remover] = "free"] /\ refs' = refs - 1
  BY DEF RemoveChip, Go
<1>2. Remover \in Threads /\ Remover \notin Files /\ ThreadTypes /\ FlagTypes
  BY UsersAre DEF LibTypes
<1>3. /\ owns[Remover] \in SUBSET LibLines /\ owns' = [owns EXCEPT ![Remover] = owns[Remover]]
      /\ idx[Remover] \in Nat /\ idx' = [idx EXCEPT ![Remover] = idx[Remover]] /\ "free" \in Places
  BY <1>1, <1>2, Kept DEF Places
<1>4. /\ Others(Remover) /\ at'[Remover] = "free" /\ idx'[Remover] = idx[Remover]
      /\ owns'[Remover] = owns[Remover] /\ ThreadTypes'
  BY <1>1, <1>2, <1>3, Moved
<1>5. FlagTypes' /\ \A m \in LibLines : SameFlags(m)
  BY <1>1, <1>2, FlagsKept DEF FlagTypes
<1>6. LibTypes'
  BY <1>1, <1>4, <1>5 DEF LibTypes
<1>7. chip
  BY <1>1 DEF ThreadsInv, RemoverInv
<1>8. ThreadsInv'
  <2>1. ASSUME NEW u \in Users
        PROVE  PlaceInv(u)' /\ OwnInv(u)'
    <3>1. at'[u] = at[u] /\ idx'[u] = idx[u] /\ owns'[u] = owns[u]
      BY <1>4, UsersAre DEF Others
    <3>2. at[u] \notin {"asking", "freeing"}
      BY UsersAre DEF RemoveChip
    <3>3. PlaceInv(u) /\ OwnInv(u)
      BY DEF ThreadsInv
    <3>4. PlaceInv(u)'
      BY <3>1, <3>2, <3>3 DEF PlaceInv
    <3>5. OwnInv(u)'
      BY <1>1, <1>7, <3>1, <3>3 DEF OwnInv, Upto
    <3> QED
      BY <3>4, <3>5
  <2>2. RemoverInv'
    BY <1>1, <1>4 DEF ThreadsInv, RemoverInv
  <2> QED
    BY <2>1, <2>2 DEF ThreadsInv
<1>9. LinesInv'
  <2>1. ASSUME NEW m \in LibLines
        PROVE  LineInv(m)'
    BY <1>1, <1>2, <1>4, <1>5, <1>7, OtherLine
  <2> QED
    BY <1>1, <2>1 DEF LinesInv
<1>10. OpenFiles' = OpenFiles
  BY <1>2, <1>4, OpenSame
<1>11. UsedLines' = UsedLines
  <2>1. \A m \in LibLines : UsedBy(Remover, m)' <=> UsedBy(Remover, m)
    BY <1>1 DEF UsedBy
  <2> QED
    BY <1>2, <1>4, <2>1, UsedSame
<1>12. RefsExact'
  <2>1. refs = 1 + Cardinality(OpenFiles) + Cardinality(UsedLines)
    BY <1>7, RefsAre
  <2>2. refs' = 0 + Cardinality(OpenFiles') + Cardinality(UsedLines')
    BY <1>1, <1>10, <1>11, <2>1, Counted
  <2> QED
    BY <1>1, <2>2, RefsAreNext
<1> QED
  BY <1>6, <1>8, <1>9, <1>12

-----------------------------------------------------------------------------
(* The invariant holds at the start, is kept by every step, and is enough. *)
LEMMA LibInitInv == LibInit => LibInv
<1> SUFFICES ASSUME LibInit
             PROVE  LibInv
  OBVIOUS
<1>1. LibTypes
  BY DEF LibInit, LibTypes, FlagTypes, ThreadTypes, Places
<1>2. \A t \in Threads : at[t] = "closed" /\ idx[t] = 1 /\ owns[t] = {}
  BY DEF LibInit
<1>3. ThreadsInv
  <2>1. ASSUME NEW t \in Users
        PROVE  PlaceInv(t) /\ OwnInv(t)
    BY <1>2, UsersAre DEF PlaceInv, OwnInv, Inside
  <2>2. RemoverInv
    BY <1>2, UsersAre DEF RemoverInv
  <2> QED
    BY <2>1, <2>2 DEF ThreadsInv
<1>4. LinesInv
  <2>1. ASSUME NEW l \in LibLines
        PROVE  LineInv(l)
    <3>1. \A t \in Users : ~Claims(t, l) /\ ~Asks(t, l) /\ ~Frees(t, l)
      BY <1>2, UsersAre DEF Claims, Asks, Frees
    <3>2. flags[l] = {} /\ l \notin granted
      BY DEF LibInit
    <3> QED
      BY <3>1, <3>2 DEF LineInv
  <2> QED
    BY <2>1 DEF LinesInv, LibInit
<1>5. RefsExact
  <2>1. OpenFiles = {}
    BY <1>2, UsersAre DEF OpenFiles
  <2>2. UsedLines = {}
    BY <1>2 DEF UsedLines, Owners, LibInit
  <2>3. Cardinality(OpenFiles) = 0 /\ Cardinality(UsedLines) = 0
    BY <2>1, <2>2, FS_EmptySet
  <2>4. chip /\ refs = 1
    BY DEF LibInit
  <2> QED
    BY <2>3, <2>4, RefsAre
<1> QED
  BY <1>1, <1>3, <1>4, <1>5 DEF LibInv

LEMMA LibNextInv == LibInv /\ [LibNext]_libVars => LibInv'
<1> SUFFICES ASSUME LibInv, [LibNext]_libVars
             PROVE  LibInv'
  OBVIOUS
<1>1. CASE UNCHANGED libVars
  <2>1. /\ chip' = chip /\ mockdev' = mockdev /\ granted' = granted /\ stranded' = stranded /\ refs' = refs
        /\ flags' = flags /\ idx' = idx /\ owns' = owns /\ at' = at
    BY <1>1 DEF libVars, threadVars
  <2>2. LibTypes'
    BY <2>1 DEF LibInv, LibTypes, FlagTypes, ThreadTypes
  <2>3. ThreadsInv'
    BY <2>1 DEF LibInv, ThreadsInv, PlaceInv, OwnInv, RemoverInv, Upto
  <2>4. Others(Remover) /\ Remover \in Threads /\ \A m \in LibLines : SameFlags(m)
    BY <2>1, UsersAre DEF Others, SameFlags
  <2>5. LinesInv' /\ UsedLines' = UsedLines
    BY <2>1, <2>4, QuietLines DEF LibInv
  <2>6. RefsExact'
    BY <2>1, <2>4, <2>5, OpenSame, RefsSame DEF LibInv
  <2> QED
    BY <2>2, <2>3, <2>5, <2>6 DEF LibInv
<1>2. ASSUME NEW t \in Threads,
             \/ Start(t) \/ Request(t) \/ RequestGranted(t) \/ RequestRefused(t)
             \/ SetUp(t) \/ SetUpFails(t) \/ Release(t)
      PROVE  LibInv'
  BY <1>2, StartStep, RequestStep, RequestGrantedStep, RequestRefusedStep, SetUpStep, SetUpFailsStep, ReleaseStep
<1>3. ASSUME NEW t \in Threads \ {Remover}, Free(t) \/ FreeDone(t) \/ Closed(t)
      PROVE  LibInv'
  BY <1>3, FreeStep, FreeDoneStep, ClosedStep
<1>4. ASSUME NEW l \in Exportable,
             \/ Export(l) \/ Publish(l) \/ Unexport(l) \/ EdgeStore(l)
             \/ \E out \in BOOLEAN : DirectionStore(l, out)
      PROVE  LibInv'
  BY <1>4, ExportStep, PublishStep, UnexportStep, EdgeStoreStep, DirectionStoreStep
<1>5. CASE RemoveStart \/ RemoveSysfs \/ RemoveChip
  BY <1>5, RemoveStartStep, RemoveSysfsStep, RemoveChipStep
<1> QED
  BY <1>1, <1>2, <1>3, <1>4, <1>5 DEF LibNext

LEMMA OwnedLines == LibInv => LinesOwned
<1> SUFFICES ASSUME LibInv
             PROVE  LinesOwned
  OBVIOUS
<1>1. LibTypeOK
  <2>1. PICK c \in {0, 1} : c = (IF chip THEN 1 ELSE 0)
    OBVIOUS
  <2>2. refs \in Nat
    BY <2>1, RefsAre, Counted DEF LibInv
  <2> QED
    BY <2>2 DEF LibInv, LibTypes, FlagTypes, ThreadTypes, Places, LibTypeOK
<1>2. LineExclusive
  <2> SUFFICES ASSUME NEW l \in LibLines
               PROVE  /\ Cardinality(Owners(l)) + (IF "SYSFS" \in flags[l] THEN 1 ELSE 0) <= 1
                      /\ Owners(l) # {} \/ "SYSFS" \in flags[l] => "REQUESTED" \in flags[l]
                      /\ chip /\ flags[l] \cap {"EXPORT", "USED_AS_IRQ"} # {} => "REQUESTED" \in flags[l]
    BY DEF LineExclusive
  <2>1. LineInv(l)
    BY DEF LibInv, LinesInv
  <2>2. \A t \in Owners(l) : t \in Users /\ Claims(t, l)
    BY UsersAre DEF Owners, Claims, LibInv, ThreadsInv, RemoverInv
  <2>3. CASE Owners(l) = {}
    <3>1. Cardinality(Owners(l)) = 0
      BY <2>3, FS_EmptySet
    <3> QED
      BY <2>1, <2>3, <3>1 DEF LineInv
  <2>4. CASE Owners(l) # {}
    <3>1. PICK t \in Owners(l) : TRUE
      BY <2>4
    <3>2. \A u \in Owners(l) : u = t
      BY <2>1, <2>2, <3>1 DEF LineInv
    <3>3. Owners(l) = {t}
      BY <3>1, <3>2
    <3>4. Cardinality(Owners(l)) = 1
      BY <3>3, FS_Singleton
    <3>5. "REQUESTED" \in flags[l] /\ "SYSFS" \notin flags[l]
      BY <2>1, <2>2, <3>1 DEF LineInv
    <3> QED
      BY <3>4, <3>5
  <2> QED
    BY <2>3, <2>4
<1>3. GrantedOnce
  <2>1. \A l \in granted : "REQUESTED" \in flags[l]
    BY DEF LibInv, LibTypes, LinesInv, LineInv
  <2>2. ASSUME NEW t \in Threads, at[t] = "asking"
        PROVE  LineAt(t) \notin granted
    <3>1. t \in Users
      BY <2>2, UsersAre DEF LibInv, ThreadsInv, RemoverInv
    <3>2. LineAt(t) \in LibLines
      BY <2>2, <3>1, AtLine DEF LibInv, Inside
    <3>3. PICK l \in LibLines : l = LineAt(t)
      BY <3>2
    <3>4. Asks(t, l) /\ LineInv(l)
      BY <2>2, <3>3 DEF Asks, LibInv, LinesInv
    <3> QED
      BY <3>1, <3>3, <3>4 DEF LineInv
  <2> QED
    BY <2>1, <2>2 DEF GrantedOnce
<1> QED
  BY <1>1, <1>2, <1>3 DEF LinesOwned, LibInv

(* LinesOwned for every chip: whatever files, exports, unexports and an    *)
(* unbind of the driver interleave around the sleeping calls of            *)
(* gpiod_request and gpiod_free, a line has one owner and is requested     *)
(* while it has one, chip->request is asked for a line only while it is    *)
(* not granted, and the references to the gpio_device are those of the     *)
(* driver, the open files and the lines in use or stranded.                *)
THEOREM LinesOwnedCorrect == LibSpec => []LinesOwned
<1>1. LibInit => LibInv
  BY LibInitInv
<1>2. LibInv /\ [LibNext]_libVars => LibInv'
  BY LibNextInv
<1>3. LibInv => LinesOwned
  BY OwnedLines
<1> QED
  BY <1>1, <1>2, <1>3, PTL DEF LibSpec
=============================================================================
