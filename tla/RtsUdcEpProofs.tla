---------------------------- MODULE RtsUdcEpProofs ----------------------------
(***************************************************************************)
(* Theorems about RtsUdcEp for every set of requests and every scenario: a *)
(* request is given back once, is never lost from the queue, and where the *)
(* completion holds the lock it is left alone afterwards.                  *)
(***************************************************************************)
EXTENDS RtsUdcEp, SequenceTheorems, TLAPS

(* A queue without a request twice. *)
IsQueue(q) == q \in Seq(Reqs) /\ IsInjective(q)

-----------------------------------------------------------------------------
(* The queue without its i-th element.                                     *)
LEMMA RemoveAtIs ==
  ASSUME NEW q \in Seq(Reqs), NEW i \in 1..Len(q)
  PROVE  /\ RemoveAt(q, i) \in Seq(Reqs)
         /\ Len(RemoveAt(q, i)) = Len(q) - 1
         /\ \A j \in 1..(Len(q) - 1) :
              RemoveAt(q, i)[j] = IF j < i THEN q[j] ELSE q[j + 1]
<1> DEFINE a == SubSeq(q, 1, i - 1)
           b == SubSeq(q, i + 1, Len(q))
<1>q. Len(q) \in Nat /\ \A j \in 1..Len(q) : q[j] \in Reqs
  BY LenProperties, ElementOfSeq
<1>a. a \in Seq(Reqs) /\ Len(a) = i - 1 /\ \A j \in 1..(i - 1) : a[j] = q[j]
  <2>1. \A j \in 1..(i - 1) : q[j] \in Reqs
    BY <1>q
  <2>2. /\ a \in Seq(Reqs)
        /\ Len(a) = IF 1 <= i - 1 THEN (i - 1) - 1 + 1 ELSE 0
        /\ \A j \in 1..((i - 1) - 1 + 1) : a[j] = q[1 + j - 1]
    BY <1>q, <2>1, SubSeqProperties
  <2> QED
    BY <1>q, <2>2
<1>b. /\ b \in Seq(Reqs) /\ Len(b) = Len(q) - i
      /\ \A j \in 1..(Len(q) - i) : b[j] = q[i + j]
  <2>1. \A j \in (i + 1)..Len(q) : q[j] \in Reqs
    BY <1>q
  <2>2. /\ b \in Seq(Reqs)
        /\ Len(b) = IF i + 1 <= Len(q) THEN Len(q) - (i + 1) + 1 ELSE 0
        /\ \A j \in 1..(Len(q) - (i + 1) + 1) : b[j] = q[(i + 1) + j - 1]
    BY <1>q, <2>1, SubSeqProperties
  <2> QED
    BY <1>q, <2>2
<1>1. RemoveAt(q, i) = a \o b
  BY DEF RemoveAt
<1> HIDE DEF a, b
<1>2. /\ a \o b \in Seq(Reqs) /\ Len(a \o b) = Len(a) + Len(b)
      /\ \A j \in 1..(Len(a) + Len(b)) : (a \o b)[j] = IF j <= Len(a) THEN a[j] ELSE b[j - Len(a)]
  BY <1>a, <1>b, ConcatProperties
<1> QED
  BY <1>1, <1>2, <1>a, <1>b, <1>q

(* list_del_init of a request of a queue removes it and nothing else.      *)
LEMMA UnlinkedIs ==
  ASSUME NEW q, IsQueue(q), NEW r
  PROVE  /\ IsQueue(Unlinked(q, r))
         /\ \A x : Contains(Unlinked(q, r), x) <=> Contains(q, x) /\ x # r
<1>q. q \in Seq(Reqs) /\ Len(q) \in Nat /\ DOMAIN q = 1..Len(q)
  BY LenProperties DEF IsQueue
<1>1. CASE ~Contains(q, r)
  BY <1>1 DEF Unlinked
<1>2. CASE Contains(q, r)
  <2> DEFINE i == CHOOSE i \in 1..Len(q) : q[i] = r
             p == RemoveAt(q, i)
  <2>1. i \in 1..Len(q) /\ q[i] = r /\ Unlinked(q, r) = p
    BY <1>2 DEF Contains, Unlinked
  <2> HIDE DEF i
  <2>2. /\ p \in Seq(Reqs) /\ Len(p) = Len(q) - 1
        /\ \A j \in 1..(Len(q) - 1) : p[j] = IF j < i THEN q[j] ELSE q[j + 1]
    BY <1>q, <2>1, RemoveAtIs, Zenon
  <2>3. DOMAIN p = 1..(Len(q) - 1)
    BY <2>2, LenProperties
  <2>4. \A j, k \in 1..Len(q) : q[j] = q[k] => j = k
    BY <1>q DEF IsQueue, IsInjective
  <2> HIDE DEF p
  <2>5. IsInjective(p)
    <3> SUFFICES ASSUME NEW j \in 1..(Len(q) - 1), NEW k \in 1..(Len(q) - 1), p[j] = p[k]
                 PROVE  j = k
      BY <2>3 DEF IsInjective
    <3> QED
      BY <1>q, <2>1, <2>2, <2>4
  <2>6. ASSUME NEW x, Contains(p, x) PROVE Contains(q, x) /\ x # r
    <3>1. PICK j \in 1..(Len(q) - 1) : p[j] = x
      BY <2>2, <2>6 DEF Contains
    <3>2. PICK k \in 1..Len(q) : k # i /\ q[k] = x
      BY <1>q, <2>1, <2>2, <3>1
    <3> QED
      BY <2>1, <2>4, <3>2 DEF Contains
  <2>7. ASSUME NEW x, Contains(q, x), x # r PROVE Contains(p, x)
    <3>1. PICK k \in 1..Len(q) : q[k] = x
      BY <2>7 DEF Contains
    <3>2. k # i
      BY <2>1, <2>7, <3>1
    <3>3. \E j \in 1..(Len(q) - 1) : p[j] = x
      <4>1. CASE k < i
        BY <1>q, <2>1, <2>2, <3>1, <4>1
      <4>2. CASE k > i
        <5>1. k - 1 \in 1..(Len(q) - 1) /\ ~(k - 1 < i) /\ (k - 1) + 1 = k
          BY <1>q, <2>1, <4>2
        <5> QED
          BY <2>2, <3>1, <5>1
      <4> QED
        BY <1>q, <2>1, <3>2, <4>1, <4>2
    <3> QED
      BY <2>2, <3>3 DEF Contains
  <2> QED
    BY <2>1, <2>2, <2>5, <2>6, <2>7 DEF IsQueue
<1> QED
  BY <1>1, <1>2

(* list_add_tail of a request that is not queued.                          *)
LEMMA AppendIs ==
  ASSUME NEW q, IsQueue(q), NEW r \in Reqs, ~Contains(q, r)
  PROVE  /\ IsQueue(Append(q, r))
         /\ \A x : Contains(Append(q, r), x) <=> Contains(q, x) \/ x = r
         /\ Append(q, r) # << >>
         /\ Head(Append(q, r)) = IF q = << >> THEN r ELSE Head(q)
<1>q. q \in Seq(Reqs) /\ Len(q) \in Nat /\ DOMAIN q = 1..Len(q)
  BY LenProperties DEF IsQueue
<1> DEFINE p == Append(q, r)
<1>1. /\ p \in Seq(Reqs) /\ p # << >> /\ Len(p) = Len(q) + 1
      /\ \A i \in 1..Len(q) : p[i] = q[i]
      /\ p[Len(q) + 1] = r
  BY <1>q, AppendProperties
<1>2. DOMAIN p = 1..(Len(q) + 1)
  BY <1>1, LenProperties
<1>3. Head(p) = IF q = << >> THEN r ELSE Head(q)
  BY <1>q, HeadTailAppend
<1> HIDE DEF p
<1>4. IsInjective(p)
  <2> SUFFICES ASSUME NEW j \in 1..(Len(q) + 1), NEW k \in 1..(Len(q) + 1), p[j] = p[k]
               PROVE  j = k
    BY <1>2 DEF IsInjective
  <2>1. \A i \in 1..Len(q) : q[i] # r
    BY DEF Contains
  <2>2. \A i1, i2 \in 1..Len(q) : q[i1] = q[i2] => i1 = i2
    BY <1>q DEF IsQueue, IsInjective
  <2> QED
    BY <1>q, <1>1, <2>1, <2>2
<1>5. \A x : Contains(p, x) <=> Contains(q, x) \/ x = r
  BY <1>q, <1>1 DEF Contains
<1> QED
  BY <1>1, <1>3, <1>4, <1>5 DEF IsQueue, p

(* The queue without its first element.                                    *)
LEMMA TailIs ==
  ASSUME NEW q, IsQueue(q), q # << >>
  PROVE  /\ IsQueue(Tail(q)) /\ Head(q) \in Reqs /\ Contains(q, Head(q))
         /\ \A x : Contains(Tail(q), x) <=> Contains(q, x) /\ x # Head(q)
<1>q. q \in Seq(Reqs) /\ Len(q) \in Nat \ {0} /\ DOMAIN q = 1..Len(q)
  BY LenProperties, EmptySeq DEF IsQueue
<1> DEFINE p == Tail(q)
<1>1. /\ p \in Seq(Reqs) /\ Len(p) = Len(q) - 1 /\ Head(q) \in Reqs
      /\ \A i \in 1..Len(p) : p[i] = q[i + 1]
  BY <1>q, HeadTailProperties
<1>2. DOMAIN p = 1..(Len(q) - 1)
  BY <1>1, LenProperties
<1>3. Head(q) = q[1]
  BY <1>q
<1>4. \A i1, i2 \in 1..Len(q) : q[i1] = q[i2] => i1 = i2
  BY <1>q DEF IsQueue, IsInjective
<1> HIDE DEF p
<1>5. IsInjective(p)
  <2> SUFFICES ASSUME NEW j \in 1..(Len(q) - 1), NEW k \in 1..(Len(q) - 1), p[j] = p[k]
               PROVE  j = k
    BY <1>2 DEF IsInjective
  <2> QED
    BY <1>q, <1>1, <1>4
<1>6. ASSUME NEW x, Contains(p, x) PROVE Contains(q, x) /\ x # q[1]
  <2>1. PICK i \in 1..(Len(q) - 1) : p[i] = x
    BY <1>1, <1>6 DEF Contains
  <2>2. i + 1 \in 1..Len(q) /\ i + 1 # 1 /\ q[i + 1] = x
    BY <1>q, <1>1, <2>1
  <2> QED
    BY <1>q, <1>4, <2>2 DEF Contains
<1>7. ASSUME NEW x, Contains(q, x), x # q[1] PROVE Contains(p, x)
  <2>1. PICK k \in 1..Len(q) : q[k] = x
    BY <1>7 DEF Contains
  <2>2. k - 1 \in 1..(Len(q) - 1) /\ (k - 1) + 1 = k
    BY <1>q, <1>7, <2>1
  <2> QED
    BY <1>1, <2>1, <2>2 DEF Contains
<1>8. Contains(q, q[1])
  BY <1>q DEF Contains
<1> QED
  BY <1>1, <1>3, <1>5, <1>6, <1>7, <1>8 DEF IsQueue, p

-----------------------------------------------------------------------------
(* Nothing but these actions touches the queue, who holds a request, or    *)
(* the enabled state that the UDC core keeps.                              *)
Still == UNCHANGED <<scen, queue, owner, enabled>>
StillStep ==
  \/ EpDequeueEnd \/ ClearHalt \/ HostSetHalt \/ HostClearHalt
  \/ \E wedge \in BOOLEAN : SetHalt(wedge)
  \/ Transfer \/ IrqQueueWork \/ IrqFinish \/ IntrAck
  \/ WorkPick \/ WorkRestore \/ WorkStartNext

LEMMA StillIs == StillStep /\ UNCHANGED scen => Still
  BY DEF StillStep, Still, EpDequeueEnd, ClearHalt, HostSetHalt, HostClearHalt, SetHalt,
    ClearHaltBody, Transfer, IrqQueueWork, IrqFinish, IntrAck, WorkPick, WorkRestore,
    WorkStartNext, epVars

(* What the driver holds: the requests of its queue.                       *)
HoldInv ==
  /\ IsQueue(queue)
  /\ owner \in [Reqs -> {"func", "udc", "twice"}]
  /\ \A r \in Reqs : owner[r] = "udc" <=> Contains(queue, r)

(* Giving back a request of the queue, as rts_done and rts_done_wq do.     *)
LEMMA TakeOffIs ==
  ASSUME HoldInv, NEW r, TakeOff(r)
  PROVE  /\ HoldInv'
         /\ \A x : Contains(queue', x) <=> Contains(queue, x) /\ x # r
         /\ \A x \in Reqs : owner'[x] = "twice" =>
              owner[x] = "twice" \/ (x = r /\ ~Contains(queue, r))
<1>1. /\ IsQueue(queue') /\ queue' = Unlinked(queue, r)
      /\ \A x : Contains(queue', x) <=> Contains(queue, x) /\ x # r
  BY UnlinkedIs DEF HoldInv, TakeOff
<1>2. owner' = [owner EXCEPT ![r] = IF @ = "udc" THEN "func" ELSE "twice"]
  BY DEF TakeOff, Give
<1> QED
  BY <1>1, <1>2 DEF HoldInv

(* Every step keeps the requests that are held and those of the queue the  *)
(* same, and a disabled endpoint other than a video endpoint empty.        *)
HeldInv == HoldInv /\ (Kind # "uvc" /\ ~enabled => queue = << >>)

LEMMA HeldStep == HeldInv /\ [Next]_vars => HeldInv'
<1> SUFFICES ASSUME HeldInv, [Next]_vars PROVE HeldInv'
  OBVIOUS
<1>k. UNCHANGED scen /\ UNCHANGED Kind
  BY DEF Next, vars, Kind
<1>h. HoldInv
  BY DEF HeldInv
<1>1. ASSUME NEW r \in Reqs, EpQueue(r) PROVE HeldInv'
  <2>1. /\ queue' = Append(queue, r) /\ owner' = [owner EXCEPT ![r] = "udc"]
        /\ owner[r] = "func" /\ enabled /\ UNCHANGED enabled
    BY <1>1 DEF EpQueue, epVars
  <2>2. ~Contains(queue, r)
    BY <1>h, <2>1 DEF HoldInv
  <2>3. IsQueue(queue') /\ \A x : Contains(queue', x) <=> Contains(queue, x) \/ x = r
    BY <1>h, <2>1, <2>2, AppendIs DEF HoldInv
  <2> QED
    BY <1>h, <2>1, <2>3 DEF HoldInv, HeldInv
<1>2. ASSUME NEW r \in Reqs, EpDequeue(r) PROVE HeldInv'
  <2>1. TakeOff(r) /\ enabled /\ UNCHANGED enabled
    BY <1>2 DEF EpDequeue, epVars
  <2> QED
    BY <1>h, <2>1, TakeOffIs DEF HeldInv
<1>3. ASSUME WorkGive \/ (IrqComplete /\ queue # << >>) PROVE HeldInv'
  <2>1. (\E r : TakeOff(r)) /\ UNCHANGED enabled
    BY <1>3 DEF WorkGive, IrqComplete, epVars
  <2>2. PICK r : TakeOff(r)
    BY <2>1
  <2>3. HoldInv' /\ \A x : Contains(queue', x) => Contains(queue, x)
    BY <1>h, <2>2, TakeOffIs
  <2>4. queue = << >> => queue' = << >>
    BY <2>2 DEF TakeOff, Unlinked, Contains
  <2> QED
    BY <1>k, <2>1, <2>3, <2>4 DEF HeldInv
<1>4. ASSUME EpDisableDrain PROVE HeldInv'
  <2>1. /\ queue # << >> /\ queue' = Tail(queue) /\ UNCHANGED enabled
        /\ owner' = [owner EXCEPT ![Head(queue)] = IF @ = "udc" THEN "func" ELSE "twice"]
    BY <1>4 DEF EpDisableDrain, Give, epVars
  <2>2. /\ IsQueue(queue') /\ Head(queue) \in Reqs
        /\ \A x : Contains(queue', x) <=> Contains(queue, x) /\ x # Head(queue)
    BY <1>h, <2>1, TailIs DEF HoldInv
  <2>3. HoldInv'
    BY <1>h, <2>1, <2>2 DEF HoldInv
  <2> QED
    BY <1>k, <2>1, <2>3 DEF HeldInv
<1>5. ASSUME UvcDisableWork PROVE HeldInv'
  <2>1. /\ queue' = << >>
        /\ owner' = [r \in Reqs |-> IF Contains(queue, r) THEN "func" ELSE owner[r]]
    BY <1>5 DEF UvcDisableWork
  <2>2. IsQueue(queue') /\ \A x : ~Contains(queue', x)
    BY <2>1, EmptySeq DEF IsQueue, IsInjective, Contains
  <2> QED
    BY <1>h, <2>1, <2>2 DEF HoldInv, HeldInv
<1>6. ASSUME EpEnable \/ EpDisable \/ EpDisableEnd PROVE HeldInv'
  <2>1. UNCHANGED <<queue, owner>>
    BY <1>6 DEF EpEnable, EpDisable, EpDisableEnd
  <2>2. HoldInv'
    BY <1>h, <2>1 DEF HoldInv, IsQueue
  <2>3. Kind # "uvc" /\ ~enabled' => queue = << >>
    BY <1>6 DEF EpEnable, EpDisable, EpDisableEnd, HeldInv
  <2> QED
    BY <1>k, <2>1, <2>2, <2>3 DEF HeldInv
<1>7. ASSUME Still PROVE HeldInv'
  BY <1>k, <1>h, <1>7 DEF Still, HeldInv, HoldInv, IsQueue
<1>8. IrqComplete /\ queue = << >> => Still
  BY <1>k DEF IrqComplete, Still, epVars
<1>9. UNCHANGED vars => Still
  BY DEF vars, Still, epVars
<1> QED
  BY <1>k, <1>1, <1>2, <1>3, <1>4, <1>5, <1>6, <1>7, <1>8, <1>9, StillIs
    DEF Next, Step, Caller, Complete, StillStep

-----------------------------------------------------------------------------
(* The types of everything but the queue and the holders.                  *)
PointType ==
  /\ scen \in Scenarios
  /\ armed \in Reqs \cup {NoReq} /\ cur \in Reqs \cup {NoReq}
  /\ sent \subseteq Reqs
  /\ hpc \in {"idle", "picked", "given", "restored", "ack"}
  /\ fpc \in {"idle", "disable", "dequeue"}

FlagType ==
  /\ enabled \in BOOLEAN /\ configured \in BOOLEAN /\ epEnable \in BOOLEAN
  /\ stall \in BOOLEAN /\ wedged \in BOOLEAN /\ stopped \in BOOLEAN
  /\ irqEn \in BOOLEAN /\ done \in BOOLEAN /\ work \in BOOLEAN
  /\ disWork \in BOOLEAN /\ saved \in BOOLEAN /\ fsaved \in BOOLEAN

(* Every step keeps the types.                                             *)
LEMMA PointStep == PointType /\ HoldInv /\ [Next]_vars => PointType'
<1> SUFFICES ASSUME PointType, HoldInv, [Next]_vars PROVE PointType'
  OBVIOUS
<1>k. UNCHANGED scen
  BY DEF Next, vars
<1>q. queue # << >> => Head(queue) \in Reqs
  BY TailIs DEF HoldInv
<1> USE <1>k, <1>q DEF PointType, hwVars, hVars, fVars
<1>1. ASSUME EpEnable \/ EpDisable PROVE PointType'
  BY <1>1 DEF EpEnable, EpDisable, StopEngine
<1>2. ASSUME NEW r \in Reqs, EpQueue(r) \/ EpDequeue(r) PROVE PointType'
  BY <1>2 DEF EpQueue, EpDequeue
<1>3. ASSUME Caller \/ UvcDisableWork PROVE PointType'
  BY <1>3 DEF Caller, EpDequeueEnd, EpDisableDrain, EpDisableEnd, UvcDisableWork
<1>4. ASSUME NEW wedge \in BOOLEAN, SetHalt(wedge) PROVE PointType'
  BY <1>4 DEF SetHalt
<1>5. ASSUME ClearHalt \/ HostSetHalt \/ HostClearHalt \/ Transfer PROVE PointType'
  BY <1>5 DEF ClearHalt, HostSetHalt, HostClearHalt, ClearHaltBody, Transfer
<1>6. ASSUME IrqComplete \/ IrqQueueWork PROVE PointType'
  BY <1>6 DEF IrqComplete, IrqQueueWork
<1>7. ASSUME Complete PROVE PointType'
  BY <1>7 DEF Complete, IrqFinish, IntrAck, WorkPick, WorkGive, WorkRestore, WorkStartNext,
    StartNext
<1>8. ASSUME UNCHANGED vars PROVE PointType'
  BY <1>8 DEF vars
<1> QED
  BY <1>1, <1>2, <1>3, <1>4, <1>5, <1>6, <1>7, <1>8 DEF Next, Step

LEMMA FlagStep == FlagType /\ [Next]_vars => FlagType'
<1> SUFFICES ASSUME FlagType, [Next]_vars PROVE FlagType'
  OBVIOUS
<1> USE DEF FlagType, epVars, haltVars, hwVars, hVars, fVars
<1>1. ASSUME EpEnable PROVE FlagType'
  BY <1>1 DEF EpEnable
<1>2. ASSUME EpDisable PROVE FlagType'
  BY <1>2 DEF EpDisable
<1>3. ASSUME NEW r \in Reqs, EpQueue(r) PROVE FlagType'
  <2>1. irqEn' \in BOOLEAN /\ done' \in BOOLEAN
    BY <1>3 DEF EpQueue, IrqEnable
  <2> QED
    BY <1>3, <2>1 DEF EpQueue
<1>4. ASSUME NEW r, TakeOff(r) PROVE irqEn' \in BOOLEAN /\ stopped' \in BOOLEAN
  BY <1>4 DEF TakeOff
<1>5. ASSUME NEW r \in Reqs, EpDequeue(r) PROVE FlagType'
  BY <1>5, <1>4 DEF EpDequeue
<1>6. ASSUME EpDequeueEnd \/ EpDisableEnd PROVE FlagType'
  <2>1. CASE EpDequeueEnd
    BY <2>1 DEF EpDequeueEnd
  <2>2. CASE EpDisableEnd
    BY <2>2 DEF EpDisableEnd, Reset
  <2> QED
    BY <1>6, <2>1, <2>2
<1>7. ASSUME EpDisableDrain \/ UvcDisableWork PROVE FlagType'
  <2>1. CASE EpDisableDrain
    <3>1. irqEn' \in BOOLEAN
      BY <2>1 DEF EpDisableDrain
    <3> QED
      BY <2>1, <3>1 DEF EpDisableDrain
  <2>2. CASE UvcDisableWork
    <3>1. irqEn' \in BOOLEAN
      BY <2>2 DEF UvcDisableWork
    <3> QED
      BY <2>2, <3>1 DEF UvcDisableWork, Reset
  <2> QED
    BY <1>7, <2>1, <2>2
<1>8. ASSUME NEW wedge \in BOOLEAN, SetHalt(wedge) PROVE FlagType'
  BY <1>8 DEF SetHalt
<1>9. ASSUME ClearHaltBody PROVE FlagType'
  <2>1. irqEn' \in BOOLEAN /\ done' \in BOOLEAN
    BY <1>9 DEF ClearHaltBody, IrqEnable
  <2> QED
    BY <1>9, <2>1 DEF ClearHaltBody
<1>10. ASSUME HostSetHalt PROVE FlagType'
  BY <1>10 DEF HostSetHalt
<1>11. ASSUME Transfer PROVE FlagType'
  BY <1>11 DEF Transfer
<1>12. ASSUME IrqQueueWork PROVE FlagType'
  BY <1>12 DEF IrqQueueWork
<1>13. ASSUME IrqComplete PROVE FlagType'
  <2>1. done' \in BOOLEAN
    BY <1>13 DEF IrqComplete
  <2>2. CASE queue = << >>
    BY <1>13, <2>1, <2>2 DEF IrqComplete
  <2>3. CASE queue # << >>
    BY <1>13, <1>4, <2>1, <2>3 DEF IrqComplete
  <2> QED
    BY <2>2, <2>3
<1>14. ASSUME IrqFinish \/ WorkStartNext PROVE FlagType'
  BY <1>14 DEF IrqFinish, WorkStartNext
<1>15. ASSUME IntrAck PROVE FlagType'
  BY <1>15 DEF IntrAck
<1>18. ASSUME WorkPick PROVE FlagType'
  BY <1>18 DEF WorkPick
<1>19. ASSUME WorkRestore PROVE FlagType'
  BY <1>19 DEF WorkRestore
<1>16. ASSUME WorkGive PROVE FlagType'
  BY <1>16, <1>4 DEF WorkGive
<1>17. ASSUME UNCHANGED vars PROVE FlagType'
  BY <1>17 DEF vars
<1> QED
  BY <1>1, <1>2, <1>3, <1>5, <1>6, <1>7, <1>8, <1>9, <1>10, <1>11, <1>12, <1>13, <1>14,
    <1>15, <1>16, <1>17, <1>18, <1>19 DEF Next, Step, Caller, Complete, ClearHalt, HostClearHalt

-----------------------------------------------------------------------------
(* Which paths an endpoint has: only where the scenario lets them, and the *)
(* work item only for bulk IN and video endpoints.                         *)
PathInv ==
  /\ fpc = "dequeue" => "dequeue" \in Ops
  /\ fpc = "disable" \/ disWork => "disable" \in Ops
  /\ disWork => Kind = "uvc"
  /\ work \/ hpc \in {"picked", "restored"} => Kind \in {"bulkin", "uvc"}

(* Where nobody cancels, the request that the work item has picked stays   *)
(* on the queue until it is given back, and no request is given back twice. *)
OnceInv ==
  /\ "dequeue" \notin Ops /\ "disable" \notin Ops /\ hpc = "picked" => Contains(queue, cur)
  /\ CompletesOnce

LEMMA PathStep == PathInv /\ [Next]_vars => PathInv'
<1> SUFFICES ASSUME PathInv, [Next]_vars PROVE PathInv'
  OBVIOUS
<1>k. UNCHANGED <<scen, Kind, Ops>>
  BY DEF Next, vars, Kind, Ops
<1> USE <1>k DEF PathInv, hVars, fVars
<1>1. ASSUME EpEnable \/ EpDisable PROVE PathInv'
  BY <1>1 DEF EpEnable, EpDisable
<1>2. ASSUME NEW r \in Reqs, EpQueue(r) \/ EpDequeue(r) PROVE PathInv'
  BY <1>2 DEF EpQueue, EpDequeue
<1>3. ASSUME Caller \/ UvcDisableWork PROVE PathInv'
  BY <1>3 DEF Caller, EpDequeueEnd, EpDisableDrain, EpDisableEnd, UvcDisableWork
<1>4. ASSUME NEW wedge \in BOOLEAN, SetHalt(wedge) PROVE PathInv'
  BY <1>4 DEF SetHalt
<1>5. ASSUME ClearHalt \/ HostSetHalt \/ HostClearHalt \/ Transfer PROVE PathInv'
  BY <1>5 DEF ClearHalt, HostSetHalt, HostClearHalt, ClearHaltBody, Transfer
<1>6. ASSUME IrqComplete \/ IrqQueueWork PROVE PathInv'
  BY <1>6 DEF IrqComplete, IrqQueueWork
<1>7. ASSUME Complete PROVE PathInv'
  BY <1>7 DEF Complete, IrqFinish, IntrAck, WorkPick, WorkGive, WorkRestore, WorkStartNext
<1>8. ASSUME UNCHANGED vars PROVE PathInv'
  BY <1>8 DEF vars
<1> QED
  BY <1>1, <1>2, <1>3, <1>4, <1>5, <1>6, <1>7, <1>8 DEF Next, Step

(* Every step gives back only what is held, unless it cancels.             *)
LEMMA OnceStep == HoldInv /\ PathInv /\ OnceInv /\ [Next]_vars => OnceInv'
<1> SUFFICES ASSUME HoldInv, PathInv, OnceInv, [Next]_vars PROVE OnceInv'
  OBVIOUS
<1>k. UNCHANGED <<scen, Kind, Ops>>
  BY DEF Next, vars, Kind, Ops
<1>a. CASE "dequeue" \in Ops \/ ("disable" \in Ops /\ Kind \in {"bulkin", "uvc"})
  BY <1>a, <1>k DEF OnceInv, CompletesOnce
<1>b. CASE /\ "dequeue" \notin Ops
           /\ "disable" \notin Ops \/ Kind \notin {"bulkin", "uvc"}
  <2> DEFINE Once == \A r \in Reqs : owner[r] # "twice"
  <2>o. Once /\ (Once' /\ ("disable" \notin Ops /\ hpc' = "picked" => Contains(queue, cur)') => OnceInv')
    BY <1>b, <1>k DEF OnceInv, CompletesOnce
  <2>p. hpc = "picked" => "disable" \notin Ops /\ Contains(queue, cur)
    BY <1>b DEF PathInv, OnceInv
  <2>1. ASSUME NEW r \in Reqs, EpQueue(r) PROVE OnceInv'
    <3>1. /\ queue' = Append(queue, r) /\ owner' = [owner EXCEPT ![r] = "udc"]
          /\ owner[r] = "func" /\ UNCHANGED <<hpc, cur>>
      BY <2>1 DEF EpQueue, hVars
    <3>2. ~Contains(queue, r)
      BY <3>1 DEF HoldInv
    <3>3. \A x : Contains(queue', x) <=> Contains(queue, x) \/ x = r
      BY <3>1, <3>2, AppendIs DEF HoldInv
    <3>4. hpc = "picked" => Contains(queue', cur)
      BY <3>3, <2>p
    <3>5. Once'
      BY <3>1, <2>o DEF HoldInv
    <3> QED
      BY <3>1, <3>4, <3>5, <2>o
  <2>2. ASSUME WorkGive \/ (IrqComplete /\ queue # << >>) PROVE OnceInv'
    <3>1. PICK r : TakeOff(r) /\ Contains(queue, r) /\ hpc' = "given"
      BY <2>2, <2>p, TailIs DEF WorkGive, IrqComplete, HoldInv
    <3>2. Once'
      BY <3>1, <2>o, TakeOffIs DEF HoldInv
    <3> QED
      BY <3>1, <3>2, <2>o
  <2>3. ASSUME EpDisableDrain PROVE OnceInv'
    <3>1. /\ queue # << >> /\ fpc = "disable" /\ UNCHANGED <<hpc, cur>>
          /\ owner' = [owner EXCEPT ![Head(queue)] = IF @ = "udc" THEN "func" ELSE "twice"]
      BY <2>3 DEF EpDisableDrain, Give, hVars
    <3>2. Head(queue) \in Reqs /\ owner[Head(queue)] = "udc"
      BY <3>1, TailIs DEF HoldInv
    <3>3. hpc # "picked"
      BY <3>1, <2>p DEF PathInv
    <3> QED
      BY <3>1, <3>2, <3>3, <2>o DEF HoldInv
  <2>4. ASSUME UvcDisableWork PROVE OnceInv'
    <3>1. /\ owner' = [r \in Reqs |-> IF Contains(queue, r) THEN "func" ELSE owner[r]]
          /\ hpc = "idle" /\ UNCHANGED hpc
      BY <2>4 DEF UvcDisableWork, hVars
    <3> QED
      BY <3>1, <2>o DEF HoldInv
  <2>5. ASSUME WorkPick PROVE OnceInv'
    <3>1. /\ UNCHANGED <<queue, owner>>
          /\ hpc' = "picked" => queue # << >> /\ cur' = Head(queue)
      BY <2>5 DEF WorkPick
    <3>2. hpc' = "picked" => Contains(queue, cur)'
      BY <3>1, TailIs DEF HoldInv
    <3> QED
      BY <3>1, <3>2, <2>o
  <2>6. ASSUME NEW r \in Reqs, EpDequeue(r) PROVE FALSE
    BY <1>b, <2>6 DEF EpDequeue
  <2>7. ASSUME UNCHANGED <<queue, owner, cur>>, hpc' = "picked" => hpc = "picked"
        PROVE  OnceInv'
    BY <2>7, <2>p, <2>o
  <2>8. ASSUME \/ EpEnable \/ EpDisable \/ EpDisableEnd \/ EpDequeueEnd \/ ClearHalt
               \/ HostSetHalt \/ HostClearHalt \/ \E wedge \in BOOLEAN : SetHalt(wedge)
        PROVE  UNCHANGED <<queue, owner, cur, hpc>>
    BY <2>8 DEF EpEnable, EpDisable, EpDisableEnd, EpDequeueEnd, ClearHalt, HostSetHalt,
      HostClearHalt, ClearHaltBody, SetHalt, hVars
  <2>9. ASSUME \/ Transfer \/ IrqQueueWork \/ (IrqComplete /\ queue = << >>)
               \/ IrqFinish \/ IntrAck \/ WorkRestore \/ WorkStartNext
        PROVE  UNCHANGED <<queue, owner, cur>> /\ (hpc' = "picked" => hpc = "picked")
    BY <2>9 DEF Transfer, IrqQueueWork, IrqComplete, IrqFinish, IntrAck, WorkRestore,
      WorkStartNext, hVars
  <2>10. UNCHANGED vars => UNCHANGED <<queue, owner, cur, hpc>>
    BY DEF vars, hVars
  <2> QED
    BY <2>1, <2>2, <2>3, <2>4, <2>5, <2>6, <2>7, <2>8, <2>9, <2>10
      DEF Next, Step, Caller, Complete
<1> QED
  BY <1>a, <1>b

-----------------------------------------------------------------------------
(* Where the lock is held and nothing is cancelled or halted, the engine   *)
(* only ever works on the first request of the queue; a status bit that is *)
(* latched while the endpoint is enabled is that request's own; and while  *)
(* a request is given back the engine rests.                               *)
OrderlyEngine ==
  /\ ~stall
  /\ epEnable => enabled
  /\ enabled /\ fpc = "idle" => configured
  /\ fpc = "disable" => armed = NoReq /\ ~epEnable /\ hpc = "idle"
  /\ hpc \in {"idle", "given"}
  /\ hpc = "given" => armed = NoReq /\ ~done /\ stopped /\ enabled /\ fpc = "idle"
  /\ armed # NoReq => ~done /\ queue # << >> /\ armed = Head(queue)
  /\ done /\ epEnable /\ queue # << >> => Head(queue) \in sent

OrderlyInv == Orderly => OrderlyEngine

LEMMA OrderlyStep ==
  HeldInv /\ PathInv /\ PointType /\ OrderlyInv /\ EpAssumption /\ [Next]_vars => OrderlyInv'
<1> SUFFICES ASSUME HeldInv, PathInv, PointType, OrderlyInv, EpAssumption, [Next]_vars, Orderly
             PROVE  OrderlyEngine'
  <2>1. [Next]_vars => (Orderly' => Orderly)
    BY DEF Next, vars, Orderly, Kind, Ops
  <2> QED
    BY <2>1 DEF OrderlyInv
<1>o. OrderlyEngine /\ Kind = "out" /\ Ops \subseteq {"disable"}
  BY DEF OrderlyInv, Orderly
<1>h. IsQueue(queue) /\ \A r \in Reqs : owner[r] = "udc" <=> Contains(queue, r)
  BY DEF HeldInv, HoldInv
<1>f. fpc \in {"idle", "disable"} /\ ~work /\ ~disWork /\ hpc \in {"idle", "given"}
  BY <1>o DEF PathInv, PointType, OrderlyEngine
<1>e. ~enabled => queue = << >>
  BY <1>o DEF HeldInv
<1> USE DEF epVars, haltVars, hwVars, hVars, fVars
<1>1. ASSUME EpEnable PROVE OrderlyEngine'
  <2>1. /\ queue' = << >> /\ armed' = NoReq /\ hpc' = hpc /\ enabled' /\ configured' /\ ~stall'
        /\ ~enabled /\ fpc = "idle" /\ UNCHANGED fpc
    BY <1>o, <1>e, <1>1 DEF EpEnable, StopEngine
  <2> QED
    BY <1>o, <2>1 DEF OrderlyEngine
<1>2. ASSUME EpDisable PROVE OrderlyEngine'
  <2>1. /\ hpc = "idle" /\ ~epEnable' /\ armed' = NoReq /\ fpc' = "disable"
        /\ UNCHANGED <<enabled, hpc, stall>>
    BY <1>o, <1>2 DEF EpDisable, StopEngine
  <2> QED
    BY <1>o, <2>1 DEF OrderlyEngine
<1>3. ASSUME EpDisableDrain PROVE OrderlyEngine'
  <2>1. fpc = "disable" /\ UNCHANGED <<enabled, configured, epEnable, hpc, stall, armed, fpc>>
    BY <1>3 DEF EpDisableDrain
  <2> QED
    BY <1>o, <2>1 DEF OrderlyEngine
<1>4. ASSUME EpDisableEnd PROVE OrderlyEngine'
  <2>1. /\ fpc = "disable" /\ ~epEnable' /\ ~enabled' /\ fpc' = "idle" /\ ~stall'
        /\ UNCHANGED <<hpc, armed>>
    BY <1>4 DEF EpDisableEnd, Reset
  <2> QED
    BY <1>o, <2>1 DEF OrderlyEngine
<1>5. ASSUME NEW r \in Reqs, EpQueue(r) PROVE OrderlyEngine'
  <2>1. /\ enabled /\ fpc = "idle" /\ queue' = Append(queue, r) /\ sent' = sent \ {r}
        /\ UNCHANGED <<enabled, configured, epEnable, stall, stopped, hpc, fpc>>
        /\ armed' = IF queue = << >> /\ MayStart THEN r ELSE armed
        /\ ~Contains(queue, r)
    BY <1>f, <1>h, <1>5 DEF EpQueue
  <2>2. configured /\ ~stall
    BY <1>o, <2>1 DEF OrderlyEngine
  <2>3. IF queue = << >> THEN ~done' ELSE done' = done
    BY <1>o, <1>5, <2>2 DEF EpQueue, IrqEnable
  <2>4. queue' # << >> /\ Head(queue') = IF queue = << >> THEN r ELSE Head(queue)
    BY <1>h, <2>1, AppendIs
  <2>5. queue # << >> => Head(queue) # r
    BY <1>h, <2>1, TailIs
  <2>6. hpc = "given" => ~MayStart
    BY <1>o DEF OrderlyEngine, MayStart
  <2> HIDE DEF epVars, haltVars, hwVars, hVars, fVars
  <2>7. /\ armed' # NoReq => ~done' /\ queue' # << >> /\ armed' = Head(queue')
        /\ done' /\ queue' # << >> /\ epEnable => Head(queue') \in sent'
    BY <1>o, <2>1, <2>3, <2>4, <2>5 DEF OrderlyEngine
  <2>8. hpc = "given" => armed' = NoReq /\ ~done'
    BY <1>o, <2>1, <2>3, <2>6 DEF OrderlyEngine
  <2> QED
    BY <1>o, <2>1, <2>2, <2>7, <2>8 DEF OrderlyEngine
<1>6. ASSUME Transfer PROVE OrderlyEngine'
  <2>1. /\ armed # NoReq /\ epEnable /\ sent' = sent \cup {armed} /\ armed' = NoReq
        /\ UNCHANGED <<queue, enabled, configured, epEnable, stall, stopped, hpc, fpc>>
    BY <1>6 DEF Transfer
  <2> QED
    BY <1>o, <2>1 DEF OrderlyEngine
<1>7. ASSUME IrqComplete PROVE OrderlyEngine'
  <2>1. /\ done /\ ~done' /\ epEnable /\ hpc = "idle"
        /\ UNCHANGED <<enabled, configured, epEnable, stall, armed, fpc>>
    BY <1>o, <1>7 DEF IrqComplete
  <2>2. armed = NoReq /\ enabled /\ fpc = "idle"
    BY <1>o, <1>f, <2>1 DEF OrderlyEngine
  <2>3. hpc' = "idle" \/ (hpc' = "given" /\ stopped')
    BY <1>o, <1>7 DEF IrqComplete, TakeOff
  <2> QED
    BY <1>o, <2>1, <2>2, <2>3 DEF OrderlyEngine
<1>8. ASSUME IrqFinish PROVE OrderlyEngine'
  <2>1. /\ hpc = "given" /\ fpc = "idle" /\ hpc' = "idle"
        /\ armed' = IF queue = << >> THEN armed ELSE Head(queue)
        /\ UNCHANGED <<queue, enabled, configured, epEnable, stall, done, sent, fpc>>
    BY <1>o, <1>8 DEF IrqFinish, StartNext
  <2> QED
    BY <1>o, <2>1 DEF OrderlyEngine
<1>9. ASSUME \/ EpDequeueEnd \/ ClearHalt \/ HostSetHalt \/ HostClearHalt \/ UvcDisableWork
             \/ \E r \in Reqs : EpDequeue(r)
             \/ \E wedge \in BOOLEAN : SetHalt(wedge)
             \/ IrqQueueWork \/ IntrAck \/ WorkPick \/ WorkGive \/ WorkRestore \/ WorkStartNext
      PROVE  FALSE
  BY <1>o, <1>f, <1>9 DEF EpDequeueEnd, ClearHalt, HostSetHalt, HostClearHalt, UvcDisableWork,
    EpDequeue, SetHalt, IrqQueueWork, IntrAck, WorkPick, WorkGive, WorkRestore, WorkStartNext
<1>10. ASSUME UNCHANGED vars PROVE OrderlyEngine'
  BY <1>o, <1>10 DEF vars, OrderlyEngine
<1> QED
  BY <1>1, <1>2, <1>3, <1>4, <1>5, <1>6, <1>7, <1>8, <1>9, <1>10
    DEF Next, Step, Caller, Complete

-----------------------------------------------------------------------------
(* All of it together.                                                     *)
EpInv == HeldInv /\ PathInv /\ OnceInv /\ PointType /\ FlagType /\ OrderlyInv

LEMMA EpAlways == Spec => []EpInv
<1>1. Init => EpInv
  <2> SUFFICES ASSUME Init PROVE EpInv
    OBVIOUS
  <2>1. HoldInv
    BY EmptySeq DEF Init, HoldInv, IsQueue, IsInjective, Contains
  <2>2. PathInv /\ OnceInv
    BY DEF Init, PathInv, OnceInv, CompletesOnce
  <2>3. PointType /\ FlagType
    BY DEF Init, PointType, FlagType
  <2>4. OrderlyInv
    BY DEF Init, OrderlyInv, OrderlyEngine
  <2> QED
    BY <2>1, <2>2, <2>3, <2>4 DEF Init, EpInv, HeldInv
<1>2. EpInv /\ [Next]_vars => EpInv'
  <2> SUFFICES ASSUME EpInv, [Next]_vars PROVE EpInv'
    OBVIOUS
  <2>1. HeldInv' /\ PathInv' /\ FlagType'
    BY HeldStep, PathStep, FlagStep DEF EpInv
  <2>2. PointType' /\ OnceInv'
    BY PointStep, OnceStep DEF EpInv, HeldInv
  <2>3. OrderlyInv'
    BY OrderlyStep, EpAssumption DEF EpInv
  <2> QED
    BY <2>1, <2>2, <2>3 DEF EpInv
<1> QED
  BY <1>1, <1>2, PTL DEF Spec

(* "@req->complete() will be called exactly once" (usb_ep_queue): what     *)
(* rts_done, rts_done_wq and the disable paths give back is held, what     *)
(* they leave is on the queue, and the engine lets go of it in time, for   *)
(* every number of requests and every scenario.                            *)
THEOREM RequestOnceCorrect == Spec => []RequestOnce
<1>1. EpInv => RequestOnce
  <2> SUFFICES ASSUME EpInv PROVE RequestOnce
    OBVIOUS
  <2>1. TypeOK
    BY DEF EpInv, HeldInv, HoldInv, IsQueue, PointType, FlagType, TypeOK
  <2>2. CompletesOnce /\ NoneForgotten
    BY DEF EpInv, OnceInv, HeldInv, HoldInv, IsQueue, NoneForgotten
  <2>3. NoUseAfterGiveback
    <3> SUFFICES ASSUME Orderly, armed # NoReq PROVE owner[armed] = "udc"
      BY DEF NoUseAfterGiveback, EngineOwnsBuffer
    <3>1. queue # << >> /\ armed = Head(queue)
      BY DEF EpInv, OrderlyInv, OrderlyEngine
    <3> QED
      BY <3>1, TailIs DEF EpInv, HeldInv, HoldInv
  <2> QED
    BY <2>1, <2>2, <2>3 DEF RequestOnce
<1> QED
  BY <1>1, EpAlways, PTL

(* A completion interrupt of an endpoint (rts_usb_ep_irq) reports the      *)
(* request at the head of the queue: its own transfer has then finished,   *)
(* never one from before a disable.                                        *)
THEOREM SentBeforeGivenCorrect == Spec => SentBeforeGiven
<1>1. EpInv /\ [Next]_vars =>
        [Orderly => \A r \in Reqs : (hpc # "given" /\ hpc' = "given" /\ cur' = r) => r \in sent]_vars
  <2> SUFFICES ASSUME EpInv, [Next]_vars, Orderly, hpc # "given", hpc' = "given"
               PROVE  cur' \in sent
    OBVIOUS
  <2>k. Kind = "out" /\ OrderlyEngine /\ hpc # "picked"
    BY DEF EpInv, OrderlyInv, OrderlyEngine, PathInv, Orderly
  <2> USE DEF hVars
  <2>1. ASSUME IrqComplete PROVE cur' \in sent
    <3>1. done /\ epEnable /\ queue # << >> /\ cur' = Head(queue)
      BY <2>1, <2>k DEF IrqComplete
    <3> QED
      BY <3>1, <2>k DEF OrderlyEngine
  <2>2. ASSUME NEW r \in Reqs, EpQueue(r) \/ EpDequeue(r) PROVE FALSE
    BY <2>2 DEF EpQueue, EpDequeue
  <2>3. ASSUME \/ EpEnable \/ EpDisable \/ Caller \/ ClearHalt \/ HostSetHalt \/ HostClearHalt
               \/ \E wedge \in BOOLEAN : SetHalt(wedge)
        PROVE  FALSE
    BY <2>3 DEF EpEnable, EpDisable, Caller, EpDequeueEnd, EpDisableDrain, EpDisableEnd,
      ClearHalt, HostSetHalt, HostClearHalt, ClearHaltBody, SetHalt
  <2>4. ASSUME Transfer \/ IrqQueueWork \/ UvcDisableWork \/ Complete PROVE FALSE
    BY <2>4, <2>k DEF Transfer, IrqQueueWork, UvcDisableWork, Complete, IrqFinish, IntrAck,
      WorkPick, WorkGive, WorkRestore, WorkStartNext
  <2>5. ~UNCHANGED vars
    BY DEF vars
  <2> QED
    BY <2>1, <2>2, <2>3, <2>4, <2>5 DEF Next, Step
<1> QED
  BY <1>1, EpAlways, PTL DEF Spec, SentBeforeGiven
=============================================================================
