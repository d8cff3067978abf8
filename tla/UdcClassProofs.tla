---------------------------- MODULE UdcClassProofs ----------------------------
(***************************************************************************)
(* Theorems about UdcClass for any number of controllers and drivers:      *)
(* every driver has one place, no registration is lost while binds         *)
(* succeed, and nobody waits for the free controller that it names.        *)
(* Theorem about UsbControl for every packet size and any requests,        *)
(* configurations and scenarios: control transfers are exact.              *)
(***************************************************************************)
EXTENDS UdcClass, UsbControl, SequenceTheorems, FiniteSetTheorems, TLAPS

(* A sequence without its i-th element.                                    *)
LEMMA RemoveAtIs ==
  ASSUME NEW T, NEW q \in Seq(T), NEW i \in 1..Len(q)
  PROVE  LET r == RemoveAt(q, i) IN
         /\ r \in Seq(T) /\ Len(r) = Len(q) - 1
         /\ \A j \in 1..(Len(q) - 1) : r[j] = IF j < i THEN q[j] ELSE q[j + 1]
<1> DEFINE a == SubSeq(q, 1, i - 1)
           b == SubSeq(q, i + 1, Len(q))
<1>n. Len(q) \in Nat
  BY LenProperties
<1>q. \A j \in 1..Len(q) : q[j] \in T
  BY ElementOfSeq
<1>a. a \in Seq(T) /\ Len(a) = i - 1 /\ \A j \in 1..(i - 1) : a[j] = q[j]
  <2>1. \A j \in 1..(i - 1) : q[j] \in T
    BY <1>n, <1>q
  <2>2. /\ a \in Seq(T)
        /\ Len(a) = IF 1 <= i - 1 THEN (i - 1) - 1 + 1 ELSE 0
        /\ \A j \in 1..((i - 1) - 1 + 1) : a[j] = q[1 + j - 1]
    BY <1>n, <1>q, <2>1, SubSeqProperties
  <2> QED
    BY <1>n, <1>q, <2>2
<1>b. /\ b \in Seq(T) /\ Len(b) = Len(q) - i
      /\ \A j \in 1..(Len(q) - i) : b[j] = q[i + j]
  <2>1. \A j \in (i + 1)..Len(q) : q[j] \in T
    BY <1>n, <1>q
  <2>2. /\ b \in Seq(T)
        /\ Len(b) = IF i + 1 <= Len(q) THEN Len(q) - (i + 1) + 1 ELSE 0
        /\ \A j \in 1..(Len(q) - (i + 1) + 1) : b[j] = q[(i + 1) + j - 1]
    BY <1>n, <1>q, <2>1, SubSeqProperties
  <2> QED
    BY <1>n, <1>q, <2>2
<1>1. RemoveAt(q, i) = a \o b
  BY DEF RemoveAt
<1> HIDE DEF a, b
<1>2. /\ a \o b \in Seq(T) /\ Len(a \o b) = Len(a) + Len(b)
      /\ \A j \in 1..(Len(a) + Len(b)) :
           (a \o b)[j] = IF j <= Len(a) THEN a[j] ELSE b[j - Len(a)]
  BY <1>a, <1>b, ConcatProperties
<1>3. Len(a) + Len(b) = Len(q) - 1
  BY <1>a, <1>b, <1>n
<1>4. ASSUME NEW j \in 1..(Len(q) - 1) PROVE (a \o b)[j] = IF j < i THEN q[j] ELSE q[j + 1]
  <2>1. (a \o b)[j] = IF j <= i - 1 THEN a[j] ELSE b[j - (i - 1)]
    BY <1>2, <1>3, <1>a
  <2>2. CASE j < i
    BY <1>n, <1>a, <2>1, <2>2
  <2>3. CASE ~(j < i)
    <3>1. j - (i - 1) \in 1..(Len(q) - i) /\ i + (j - (i - 1)) = j + 1 /\ ~(j <= i - 1)
      BY <1>n, <2>3
    <3>2. b[j - (i - 1)] = q[i + (j - (i - 1))]
      BY <1>b, <3>1
    <3> QED
      BY <2>1, <2>3, <3>1, <3>2
  <2> QED
    BY <2>2, <2>3
<1> QED
  BY <1>1, <1>2, <1>3, <1>4

(* A list is a sequence without repetitions.                               *)
IsList(q, T) == q \in Seq(T) /\ \A i, j \in 1..Len(q) : q[i] = q[j] => i = j

LEMMA ListIsInjective ==
  ASSUME NEW T, NEW q, IsList(q, T)
  PROVE  IsInjective(q) /\ \A x : Contains(q, x) => x \in T
<1>1. q \in Seq(T) /\ DOMAIN q = 1..Len(q) /\ \A i \in 1..Len(q) : q[i] \in T
  BY LenProperties, ElementOfSeq DEF IsList
<1> QED
  BY <1>1 DEF IsList, IsInjective, Contains

LEMMA DeleteIs ==
  ASSUME NEW T, NEW q, IsList(q, T), NEW x
  PROVE  LET r == Delete(q, x) IN
         IsList(r, T) /\ \A y : Contains(r, y) <=> Contains(q, y) /\ y # x
<1>1. CASE ~Contains(q, x)
  BY <1>1 DEF Delete
<1>2. CASE Contains(q, x)
  <2> DEFINE i == CHOOSE j \in 1..Len(q) : q[j] = x
             r == RemoveAt(q, i)
  <2>1. i \in 1..Len(q) /\ q[i] = x /\ Delete(q, x) = r
    BY <1>2 DEF Contains, Delete
  <2>n. q \in Seq(T) /\ Len(q) \in Nat
    BY LenProperties DEF IsList
  <2>u. \A m1, m2 \in 1..Len(q) : q[m1] = q[m2] => m1 = m2
    BY DEF IsList
  <2> HIDE DEF i
  <2>2. /\ r \in Seq(T) /\ Len(r) = Len(q) - 1
        /\ \A j \in 1..(Len(q) - 1) : r[j] = IF j < i THEN q[j] ELSE q[j + 1]
    BY <2>1, <2>n, RemoveAtIs
  <2> HIDE DEF r
  <2>3. /\ \A j \in 1..(Len(q) - 1) : \/ j < i /\ j \in 1..Len(q) /\ j # i
                                      \/ ~(j < i) /\ j + 1 \in 1..Len(q) /\ j + 1 # i
        /\ \A j \in 1..Len(q) : j < i => j \in 1..(Len(q) - 1)
        /\ \A j \in 1..Len(q) : j > i => /\ j - 1 \in 1..(Len(q) - 1) /\ ~(j - 1 < i)
                                         /\ (j - 1) + 1 = j
        /\ \A j, k \in 1..(Len(q) - 1) : /\ j + 1 = k + 1 => j = k
                                         /\ j < i /\ ~(k < i) => j # k + 1
        /\ \A j \in 1..Len(q) : j < i \/ j = i \/ j > i
    <3>1. \A n \in Nat : \A p \in 1..n :
            /\ \A j \in 1..(n - 1) : \/ j < p /\ j \in 1..n /\ j # p
                                     \/ ~(j < p) /\ j + 1 \in 1..n /\ j + 1 # p
            /\ \A j \in 1..n : j < p => j \in 1..(n - 1)
            /\ \A j \in 1..n : j > p => j - 1 \in 1..(n - 1) /\ ~(j - 1 < p) /\ (j - 1) + 1 = j
            /\ \A j, k \in 1..(n - 1) : /\ j + 1 = k + 1 => j = k
                                        /\ j < p /\ ~(k < p) => j # k + 1
            /\ \A j \in 1..n : j < p \/ j = p \/ j > p
      OBVIOUS
    <3>2. PICK n \in Nat : n = Len(q)
      BY <2>n
    <3>3. i \in 1..n
      BY <2>1, <3>2
    <3> QED
      BY <3>1, <3>2, <3>3
  <2>4. 1..Len(r) = 1..(Len(q) - 1)
    BY <2>2
  <2>5. ASSUME NEW j \in 1..Len(r)
        PROVE  \/ j < i /\ j \in 1..Len(q) /\ r[j] = q[j] /\ r[j] # x
               \/ ~(j < i) /\ j + 1 \in 1..Len(q) /\ r[j] = q[j + 1] /\ r[j] # x
    BY <2>1, <2>2, <2>3, <2>4, <2>u
  <2>6. ASSUME NEW j \in 1..Len(r), NEW k \in 1..Len(r), r[j] = r[k] PROVE j = k
    BY <2>3, <2>4, <2>5, <2>6, <2>u
  <2>7. ASSUME NEW m \in 1..Len(q), q[m] # x PROVE \E j \in 1..Len(r) : r[j] = q[m]
    <3>1. CASE m < i
      BY <2>2, <2>3, <2>4, <3>1
    <3>2. CASE m > i
      <4>1. m - 1 \in 1..Len(r) /\ r[m - 1] = q[m]
        BY <2>2, <2>3, <2>4, <3>2
      <4> QED
        BY <4>1
    <3> QED
      BY <2>1, <2>3, <2>7, <3>1, <3>2
  <2>8. ASSUME NEW y PROVE Contains(r, y) <=> Contains(q, y) /\ y # x
    BY <2>5, <2>7 DEF Contains
  <2>9. IsList(r, T)
    BY <2>2, <2>6 DEF IsList
  <2> QED
    BY <2>1, <2>8, <2>9
<1> QED
  BY <1>1, <1>2

LEMMA AppendIs ==
  ASSUME NEW T, NEW q, IsList(q, T), NEW x \in T, ~Contains(q, x)
  PROVE  LET r == Append(q, x) IN
         IsList(r, T) /\ \A y : Contains(r, y) <=> Contains(q, y) \/ y = x
<1> DEFINE r == Append(q, x)
<1>n. q \in Seq(T) /\ Len(q) \in Nat
  BY LenProperties DEF IsList
<1>1. /\ r \in Seq(T) /\ Len(r) = Len(q) + 1
      /\ (\A i \in 1..Len(q) : r[i] = q[i]) /\ r[Len(q) + 1] = x
  BY <1>n, AppendProperties
<1> HIDE DEF r
<1>2. /\ \A i \in 1..Len(r) : i \in 1..Len(q) \/ i = Len(q) + 1
      /\ \A i \in 1..Len(q) : i \in 1..Len(r)
      /\ Len(q) + 1 \in 1..Len(r)
  BY <1>n, <1>1
<1>3. \A i \in 1..Len(q) : q[i] # x
  BY DEF Contains
<1>4. ASSUME NEW i \in 1..Len(r), NEW j \in 1..Len(r), r[i] = r[j] PROVE i = j
  BY <1>1, <1>2, <1>3, <1>4 DEF IsList
<1>5. \A y : Contains(r, y) <=> Contains(q, y) \/ y = x
  BY <1>1, <1>2 DEF Contains
<1> QED
  BY <1>1, <1>4, <1>5 DEF IsList, r

LEMMA ConsIs ==
  ASSUME NEW T, NEW q, IsList(q, T), NEW x \in T, ~Contains(q, x)
  PROVE  LET r == <<x>> \o q IN
         IsList(r, T) /\ \A y : Contains(r, y) <=> Contains(q, y) \/ y = x
<1> DEFINE a == <<x>>
           r == a \o q
<1>n. q \in Seq(T) /\ Len(q) \in Nat
  BY LenProperties DEF IsList
<1>a. a \in Seq(T) /\ Len(a) = 1 /\ a[1] = x
  OBVIOUS
<1> HIDE DEF a
<1>1. /\ r \in Seq(T) /\ Len(r) = Len(a) + Len(q)
      /\ \A i \in 1..(Len(a) + Len(q)) : r[i] = IF i <= Len(a) THEN a[i] ELSE q[i - Len(a)]
  <2>1. a \in Seq(T) /\ q \in Seq(T)
    BY <1>n, <1>a
  <2> QED
    BY <2>1, ConcatProperties
<1> HIDE DEF r
<1>2. Len(r) = Len(q) + 1 /\ \A i \in 1..(Len(q) + 1) : r[i] = IF i <= 1 THEN x ELSE q[i - 1]
  <2>1. Len(a) + Len(q) = Len(q) + 1
    BY <1>n, <1>a
  <2>2. \A i \in 1..(Len(q) + 1) : i <= 1 => i = 1
    BY <1>n
  <2> QED
    BY <1>1, <1>a, <2>1, <2>2
<1>3. /\ \A i \in 1..Len(r) : i = 1 \/ (~(i <= 1) /\ i - 1 \in 1..Len(q))
      /\ \A i \in 1..Len(q) : i + 1 \in 1..Len(r) /\ ~(i + 1 <= 1) /\ (i + 1) - 1 = i
      /\ 1 \in 1..Len(r) /\ 1 <= 1
      /\ \A i, j \in 1..Len(r) : i - 1 = j - 1 => i = j
  BY <1>n, <1>2
<1>4. 1..Len(r) = 1..(Len(q) + 1)
  BY <1>2
<1>5. ASSUME NEW i \in 1..Len(r)
      PROVE  \/ i = 1 /\ r[i] = x
             \/ i - 1 \in 1..Len(q) /\ r[i] = q[i - 1]
  BY <1>2, <1>3, <1>4
<1>6. \A i \in 1..Len(q) : q[i] # x
  BY DEF Contains
<1>7. ASSUME NEW i \in 1..Len(r), NEW j \in 1..Len(r), r[i] = r[j] PROVE i = j
  <2>1. \A m1, m2 \in 1..Len(q) : q[m1] = q[m2] => m1 = m2
    BY DEF IsList
  <2>2. CASE i = 1
    BY <1>5, <1>6, <1>7, <2>2
  <2>3. CASE i - 1 \in 1..Len(q) /\ r[i] = q[i - 1]
    <3>1. j - 1 \in 1..Len(q) /\ r[j] = q[j - 1]
      BY <1>5, <1>6, <1>7, <2>3
    <3>2. i - 1 = j - 1
      BY <1>7, <2>1, <2>3, <3>1
    <3> QED
      BY <1>3, <3>2
  <2> QED
    BY <1>5, <2>2, <2>3
<1>8. \A i \in 1..Len(q) : r[i + 1] = q[i] /\ i + 1 \in 1..Len(r)
  BY <1>2, <1>3, <1>4
<1>9. r[1] = x
  BY <1>2, <1>3, <1>4
<1>10. ASSUME NEW y PROVE Contains(r, y) <=> Contains(q, y) \/ y = x
  <2>1. Contains(r, y) => Contains(q, y) \/ y = x
    BY <1>5 DEF Contains
  <2>2. Contains(q, y) => Contains(r, y)
    BY <1>8 DEF Contains
  <2>3. y = x => Contains(r, y)
    BY <1>3, <1>9 DEF Contains
  <2> QED
    BY <2>1, <2>2, <2>3
<1> QED
  BY <1>1, <1>7, <1>10 DEF IsList, r, a

-----------------------------------------------------------------------------
(* The invariant, of the lists ul and pe, the drivers dr, the nodes li, the *)
(* registrations re and the history sm.  More than OnePlace and             *)
(* RegistrationKept it says that only registered drivers are bound or       *)
(* waiting, even when binds fail, and that a driver is bound to a           *)
(* controller it accepts.                                                   *)
Typed(ul, dr, pe, li, re, sm) ==
  /\ IsList(ul, Udcs) /\ IsList(pe, Gadgets) /\ dr \in [Udcs -> Gadgets \cup {NULL}]
  /\ li \in [Gadgets -> Links] /\ re \subseteq Gadgets /\ sm \in BOOLEAN
Linked(pe, li) == \A d \in Gadgets : li[d] = "linked" <=> Contains(pe, d)
Placed(ul, dr, pe, re) ==
  /\ \A u \in Udcs : dr[u] # NULL =>
       ~Contains(pe, dr[u]) /\ Contains(ul, u) /\ dr[u] \in re /\ MatchesName(dr[u], u)
  /\ \A u, v \in Udcs : dr[u] # NULL /\ dr[u] = dr[v] => u = v
  /\ \A d \in Gadgets : Contains(pe, d) => d \in re
HasUdc(dr, d) == \E u \in Udcs : dr[u] = d
Safe(dr, li, re) == \A d \in re : HasUdc(dr, d) \/ li[d] \in {"linked", "self"}
Remembered(dr, pe, re, sm) == sm => \A d \in re : HasUdc(dr, d) \/ Contains(pe, d)
Good(ul, dr, pe, li, re, sm) ==
  /\ Typed(ul, dr, pe, li, re, sm) /\ Linked(pe, li) /\ Placed(ul, dr, pe, re)
  /\ Safe(dr, li, re) /\ Remembered(dr, pe, re, sm)
(* NamedNeverWaits, but for the controllers in X.                          *)
Waits(ul, dr, pe, sm, X) ==
  sm => \A d \in Gadgets, v \in Udcs \ X :
          Contains(pe, d) /\ UdcName[d] = v /\ Contains(ul, v) => dr[v] # NULL

ClassInv ==
  /\ Good(udcList, driver, pendingList, link, registered, smooth)
  /\ Waits(udcList, driver, pendingList, smooth, {})

LEMMA ClassInvPairs ==
  ASSUME ClassInv
  PROVE  PairingSound
<1>1. /\ IsList(udcList, Udcs) /\ IsList(pendingList, Gadgets)
      /\ driver \in [Udcs -> Gadgets \cup {NULL}]
      /\ link \in [Gadgets -> Links] /\ registered \subseteq Gadgets /\ smooth \in BOOLEAN
      /\ NULL \notin Gadgets
  BY ClassAssumption DEF ClassInv, Good, Typed
<1>2. ClassTypeOK
  BY <1>1 DEF IsList, ClassTypeOK
<1>3. IsInjective(pendingList)
  BY <1>1, ListIsInjective
<1>4. OnePlace
  <2>1. \A d \in Gadgets : link[d] = "linked" <=> Pending(d)
    BY DEF ClassInv, Good, Linked, Pending
  <2>2. \A d \in Gadgets : Bound(d) => ~Pending(d)
    BY <1>1 DEF ClassInv, Good, Placed, Bound, Pending
  <2>3. \A d \in Gadgets : \A u, v \in Udcs : driver[u] = d /\ driver[v] = d => u = v
    BY <1>1 DEF ClassInv, Good, Placed
  <2>4. \A u \in Udcs : driver[u] # NULL => Listed(u)
    BY DEF ClassInv, Good, Placed, Listed
  <2>5. ListDelSafe
    BY DEF ClassInv, Good, Safe, ListDelSafe, HasUdc, Bound
  <2> QED
    BY <1>3, <2>1, <2>2, <2>3, <2>4, <2>5 DEF OnePlace
<1>5. RegistrationKept
  <2>1. ASSUME smooth, NEW d \in registered PROVE Bound(d) \/ Pending(d)
    BY <2>1 DEF ClassInv, Good, Remembered, HasUdc, Bound, Pending
  <2>2. \A d \in Gadgets : Bound(d) \/ Pending(d) => d \in registered
    BY <1>1 DEF ClassInv, Good, Placed, Bound, Pending
  <2> QED
    BY <2>1, <2>2 DEF RegistrationKept
<1>6. NamedNeverWaits
  BY DEF ClassInv, Waits, NamedNeverWaits, Pending, Listed
<1> QED
  BY <1>2, <1>4, <1>5, <1>6 DEF PairingSound

(* A waiting driver is bound to a free controller that is listed.          *)
LEMMA BindsWaiting ==
  ASSUME NEW ul, NEW dr, NEW pe, NEW li, NEW re, NEW sm,
         Good(ul, dr, pe, li, re, sm), NEW u \in Udcs, dr[u] = NULL, Contains(ul, u),
         NEW e \in Gadgets, Contains(pe, e), MatchesName(e, u)
  PROVE  Good(ul, [dr EXCEPT ![u] = e], Delete(pe, e), [li EXCEPT ![e] = "self"], re, sm)
<1> DEFINE ds == [dr EXCEPT ![u] = e]
           pf == Delete(pe, e)
           lj == [li EXCEPT ![e] = "self"]
<1>0. /\ Typed(ul, dr, pe, li, re, sm) /\ Linked(pe, li) /\ Placed(ul, dr, pe, re)
      /\ Safe(dr, li, re) /\ Remembered(dr, pe, re, sm) /\ NULL \notin Gadgets
  BY ClassAssumption DEF Good
<1>1. IsList(pf, Gadgets) /\ \A y : Contains(pf, y) <=> Contains(pe, y) /\ y # e
  BY <1>0, DeleteIs DEF Typed
<1> HIDE DEF pf
<1>2. ds \in [Udcs -> Gadgets \cup {NULL}] /\ \A v \in Udcs : ds[v] = IF v = u THEN e ELSE dr[v]
  BY <1>0 DEF Typed
<1>3. lj \in [Gadgets -> Links] /\ \A d \in Gadgets : lj[d] = IF d = e THEN "self" ELSE li[d]
  BY <1>0 DEF Typed, Links
<1> HIDE DEF ds, lj
<1>4. Typed(ul, ds, pf, lj, re, sm)
  BY <1>0, <1>1, <1>2, <1>3 DEF Typed
<1>5. Linked(pf, lj)
  BY <1>0, <1>1, <1>3 DEF Linked
<1>6. Placed(ul, ds, pf, re)
  <2>1. \A v \in Udcs : dr[v] # e
    BY <1>0 DEF Placed
  <2> QED
    BY <1>0, <1>1, <1>2, <2>1 DEF Placed
<1>h. \A d : HasUdc(dr, d) /\ d # NULL => HasUdc(ds, d)
  BY <1>2 DEF HasUdc
<1>e. HasUdc(ds, e)
  BY <1>2 DEF HasUdc
<1>r. \A d \in re : d # NULL /\ d \in Gadgets
  BY <1>0 DEF Typed
<1>7. Safe(ds, lj, re)
  BY <1>0, <1>3, <1>h, <1>e, <1>r DEF Safe
<1>8. Remembered(ds, pf, re, sm)
  BY <1>0, <1>1, <1>h, <1>e, <1>r DEF Remembered
<1> QED
  BY <1>4, <1>5, <1>6, <1>7, <1>8 DEF Good, ds, pf, lj

(* A waiting driver fails to bind and waits no longer; it stays registered. *)
LEMMA FailsWaiting ==
  ASSUME NEW ul, NEW dr, NEW pe, NEW li, NEW re, NEW sm,
         Good(ul, dr, pe, li, re, sm), NEW e \in Gadgets
  PROVE  Good(ul, dr, Delete(pe, e), [li EXCEPT ![e] = "self"], re, FALSE)
<1> DEFINE pf == Delete(pe, e)
           lj == [li EXCEPT ![e] = "self"]
<1>0. /\ Typed(ul, dr, pe, li, re, sm) /\ Linked(pe, li) /\ Placed(ul, dr, pe, re)
      /\ Safe(dr, li, re)
  BY DEF Good
<1>1. IsList(pf, Gadgets) /\ \A y : Contains(pf, y) <=> Contains(pe, y) /\ y # e
  BY <1>0, DeleteIs DEF Typed
<1> HIDE DEF pf
<1>3. lj \in [Gadgets -> Links] /\ \A d \in Gadgets : lj[d] = IF d = e THEN "self" ELSE li[d]
  BY <1>0 DEF Typed, Links
<1> HIDE DEF lj
<1>4. Typed(ul, dr, pf, lj, re, FALSE)
  BY <1>0, <1>1, <1>3 DEF Typed
<1>5. Linked(pf, lj)
  BY <1>0, <1>1, <1>3 DEF Linked
<1>6. Placed(ul, dr, pf, re)
  BY <1>0, <1>1 DEF Placed
<1>7. Safe(dr, lj, re)
  <2>1. re \subseteq Gadgets
    BY <1>0 DEF Typed
  <2> QED
    BY <1>0, <1>3, <2>1 DEF Safe
<1>8. Remembered(dr, pf, re, FALSE)
  BY DEF Remembered
<1> QED
  BY <1>4, <1>5, <1>6, <1>7, <1>8 DEF Good, pf, lj

(* check_pending_gadget_drivers for a free controller that is listed.      *)
LEMMA OfferKeeps ==
  ASSUME NEW ul, NEW dr, NEW re, NEW u \in Udcs, NEW ok \in BOOLEAN,
         Good(ul, dr, pendingList, link, re, smooth),
         Waits(ul, dr, pendingList, smooth, {u}),
         dr[u] = NULL, Contains(ul, u), CheckPending(u, dr, ok)
  PROVE  /\ Good(ul, driver', pendingList', link', re, smooth')
         /\ Waits(ul, driver', pendingList', smooth', {})
         /\ ~ok => driver' = dr /\ ~smooth'
<1>c. NULL \notin Gadgets /\ NULL \notin Udcs /\ BindResults \subseteq {"ok", "fail", "defer"}
  BY ClassAssumption
<1>t. /\ IsList(pendingList, Gadgets) /\ dr \in [Udcs -> Gadgets \cup {NULL}]
      /\ smooth \in BOOLEAN
  BY DEF Good, Typed
<1>e. \A i \in 1..Len(pendingList) : pendingList[i] \in Gadgets
  BY <1>t, ElementOfSeq DEF IsList
<1>1. CASE /\ \A i \in 1..Len(pendingList) : ~MatchesName(pendingList[i], u)
           /\ ok /\ driver' = dr /\ NoListChange /\ UNCHANGED smooth
  <2>1. pendingList' = pendingList /\ link' = link /\ smooth' = smooth /\ driver' = dr /\ ok
    BY <1>1 DEF NoListChange
  <2>2. \A d \in Gadgets : Contains(pendingList, d) => UdcName[d] # u
    BY <1>1 DEF MatchesName, Contains
  <2>3. Waits(ul, dr, pendingList, smooth, {})
    BY <2>2 DEF Waits
  <2> QED
    BY <2>1, <2>3
<1>2. ASSUME NEW i \in 1..Len(pendingList), NEW r \in BindResults,
             FirstWaiting(u, i), BindAnswer(r), ok <=> r = "ok",
             driver' = (IF r = "ok" THEN [dr EXCEPT ![u] = pendingList[i]] ELSE dr),
             IF r = "defer" THEN NoListChange ELSE ReleaseNode(pendingList[i])
      PROVE  /\ Good(ul, driver', pendingList', link', re, smooth')
             /\ Waits(ul, driver', pendingList', smooth', {})
             /\ ~ok => driver' = dr /\ ~smooth'
  <2> DEFINE e == pendingList[i]
  <2>0. e \in Gadgets /\ Contains(pendingList, e) /\ MatchesName(e, u)
    BY <1>2, <1>e DEF Contains, FirstWaiting
  <2>s. (r # "ok" => smooth' = FALSE) /\ (r = "ok" => smooth' = smooth)
    <3>1. smooth' = (smooth /\ r = "ok")
      BY <1>2 DEF BindAnswer
    <3> QED
      BY <1>t, <3>1
  <2>1. CASE r = "ok"
    <3>1. /\ driver' = [dr EXCEPT ![u] = e] /\ pendingList' = Delete(pendingList, e)
          /\ link' = [link EXCEPT ![e] = "self"] /\ smooth' = smooth /\ ok
      BY <1>2, <2>1, <2>s DEF ReleaseNode
    <3> HIDE DEF e
    <3>2. Good(ul, driver', pendingList', link', re, smooth')
      BY <2>0, <3>1, BindsWaiting
    <3>3. \A y : Contains(pendingList', y) => Contains(pendingList, y)
      BY <1>t, <3>1, DeleteIs
    <3>4. driver'[u] # NULL /\ \A v \in Udcs \ {u} : driver'[v] = dr[v]
      BY <1>c, <1>t, <2>0, <3>1
    <3>5. Waits(ul, driver', pendingList', smooth', {})
      BY <3>1, <3>3, <3>4 DEF Waits
    <3> QED
      BY <3>1, <3>2, <3>5
  <2>2. CASE r = "fail"
    <3>1. /\ driver' = dr /\ pendingList' = Delete(pendingList, e)
          /\ link' = [link EXCEPT ![e] = "self"] /\ smooth' = FALSE
      BY <1>2, <2>2, <2>s DEF ReleaseNode
    <3> HIDE DEF e
    <3>2. Good(ul, dr, Delete(pendingList, e), [link EXCEPT ![e] = "self"], re, FALSE)
      BY <2>0, FailsWaiting
    <3> QED
      BY <3>1, <3>2 DEF Waits
  <2>3. CASE r = "defer"
    <3>1. driver' = dr /\ pendingList' = pendingList /\ link' = link /\ smooth' = FALSE
      BY <1>2, <2>3, <2>s DEF NoListChange
    <3>2. Good(ul, dr, pendingList, link, re, FALSE)
      BY DEF Good, Typed, Remembered
    <3> QED
      BY <3>1, <3>2 DEF Waits
  <2> QED
    BY <1>c, <2>1, <2>2, <2>3
<1> QED
  BY <1>1, <1>2 DEF CheckPending

-----------------------------------------------------------------------------
LEMMA ClassInitOK == ASSUME ClassInit PROVE ClassInv
<1>1. /\ udcList = << >> /\ pendingList = << >> /\ registered = {} /\ smooth = TRUE
      /\ driver = [u \in Udcs |-> NULL] /\ link = [d \in Gadgets |-> "zero"]
  BY DEF ClassInit
<1>2. /\ IsList(udcList, Udcs) /\ IsList(pendingList, Gadgets)
      /\ \A y : ~Contains(udcList, y) /\ ~Contains(pendingList, y)
  <2>1. Len(<< >>) = 0 /\ << >> \in Seq(Udcs) /\ << >> \in Seq(Gadgets)
    OBVIOUS
  <2>2. 1..0 = {}
    OBVIOUS
  <2> QED
    BY <1>1, <2>1, <2>2 DEF IsList, Contains
<1>3. Typed(udcList, driver, pendingList, link, registered, smooth)
  BY <1>1, <1>2 DEF Typed, Links
<1>4. Linked(pendingList, link)
  BY <1>1, <1>2 DEF Linked
<1>5. Placed(udcList, driver, pendingList, registered)
  BY <1>1, <1>2 DEF Placed
<1>6. Safe(driver, link, registered) /\ Remembered(driver, pendingList, registered, smooth)
  BY <1>1 DEF Safe, Remembered
<1>7. Waits(udcList, driver, pendingList, smooth, {})
  BY <1>2 DEF Waits
<1> QED
  BY <1>3, <1>4, <1>5, <1>6, <1>7 DEF ClassInv, Good

(* usb_add_gadget_udc.                                                     *)
LEMMA AddKeeps ==
  ASSUME ClassInv, NEW u \in Udcs, AddGadgetUdc(u)
  PROVE  ClassInv'
<1> DEFINE ul == Append(udcList, u)
<1>0. /\ Good(udcList, driver, pendingList, link, registered, smooth)
      /\ Waits(udcList, driver, pendingList, smooth, {})
      /\ IsList(udcList, Udcs)
  BY DEF ClassInv, Good, Typed
<1>1. PICK ok \in BOOLEAN : /\ CheckPending(u, driver, ok)
                            /\ udcList' = IF ok THEN ul ELSE udcList
  BY DEF AddGadgetUdc
<1>2. ~Contains(udcList, u) /\ registered' = registered
  BY DEF AddGadgetUdc, Listed
<1>3. driver[u] = NULL
  BY <1>0, <1>2 DEF Good, Placed
<1>4. IsList(ul, Udcs) /\ \A y : Contains(ul, y) <=> Contains(udcList, y) \/ y = u
  BY <1>0, <1>2, AppendIs
<1> HIDE DEF ul
<1>5. Good(ul, driver, pendingList, link, registered, smooth)
  <2>1. Typed(ul, driver, pendingList, link, registered, smooth)
    BY <1>0, <1>4 DEF Good, Typed
  <2>2. Placed(ul, driver, pendingList, registered)
    BY <1>0, <1>4 DEF Good, Placed
  <2> QED
    BY <1>0, <2>1, <2>2 DEF Good
<1>6. Waits(ul, driver, pendingList, smooth, {u})
  BY <1>0, <1>4 DEF Waits
<1>7. /\ Good(ul, driver', pendingList', link', registered, smooth')
      /\ Waits(ul, driver', pendingList', smooth', {})
      /\ ~ok => driver' = driver /\ ~smooth'
  BY <1>1, <1>3, <1>4, <1>5, <1>6, OfferKeeps
<1>8. CASE ok
  BY <1>1, <1>2, <1>7, <1>8 DEF ClassInv
<1>9. CASE ~ok
  <2>1. udcList' = udcList /\ driver' = driver /\ ~smooth'
    BY <1>1, <1>7, <1>9
  <2>2. Typed(udcList, driver', pendingList', link', registered, smooth')
    BY <1>0, <1>7 DEF Good, Typed
  <2>3. Placed(udcList, driver', pendingList', registered)
    BY <1>0, <1>7, <2>1 DEF Good, Placed
  <2>4. Good(udcList, driver', pendingList', link', registered, smooth')
    BY <1>7, <2>2, <2>3 DEF Good
  <2> QED
    BY <1>2, <2>1, <2>4 DEF ClassInv, Waits
<1> QED
  BY <1>8, <1>9

(* usb_del_gadget_udc.  A driver that names its controller waits for one   *)
(* that is no longer listed.                                               *)
LEMMA DelKeeps ==
  ASSUME ClassInv, NEW u \in Udcs, DelGadgetUdc(u)
  PROVE  ClassInv'
<1> DEFINE ul == Delete(udcList, u)
           ds == [driver EXCEPT ![u] = NULL]
<1>0. /\ Typed(udcList, driver, pendingList, link, registered, smooth)
      /\ Linked(pendingList, link) /\ Placed(udcList, driver, pendingList, registered)
      /\ Safe(driver, link, registered) /\ Remembered(driver, pendingList, registered, smooth)
      /\ Waits(udcList, driver, pendingList, smooth, {}) /\ NULL \notin Gadgets
      /\ NULL \notin Udcs
  BY ClassAssumption DEF ClassInv, Good
<1>t. /\ IsList(udcList, Udcs) /\ IsList(pendingList, Gadgets)
      /\ driver \in [Udcs -> Gadgets \cup {NULL}] /\ link \in [Gadgets -> Links]
      /\ registered \subseteq Gadgets
  BY <1>0 DEF Typed
<1>1. /\ udcList' = ul /\ driver' = ds /\ registered' = registered /\ smooth' = smooth
      /\ Displace(driver[u])
  BY DEF DelGadgetUdc
<1>2. IsList(ul, Udcs) /\ \A y : Contains(ul, y) <=> Contains(udcList, y) /\ y # u
  BY <1>t, DeleteIs
<1>3. ds \in [Udcs -> Gadgets \cup {NULL}] /\ \A v \in Udcs : ds[v] = IF v = u THEN NULL ELSE driver[v]
  BY <1>t
<1> HIDE DEF ul, ds
<1>h. \A d \in Gadgets : HasUdc(driver, d) /\ d # driver[u] => HasUdc(ds, d)
  BY <1>0, <1>3 DEF HasUdc
<1>4. CASE driver[u] = NULL
  <2>1. pendingList' = pendingList /\ link' = link
    BY <1>1, <1>4 DEF Displace, NoListChange
  <2>2. Typed(ul, ds, pendingList, link, registered, smooth)
    BY <1>0, <1>2, <1>3 DEF Typed
  <2>3. Placed(ul, ds, pendingList, registered)
    BY <1>0, <1>2, <1>3 DEF Placed
  <2>4. Safe(ds, link, registered) /\ Remembered(ds, pendingList, registered, smooth)
    <3>1. \A d \in registered : d \in Gadgets /\ d # driver[u]
      BY <1>0, <1>t, <1>4
    <3> QED
      BY <1>0, <1>h, <3>1 DEF Safe, Remembered
  <2>5. Waits(ul, ds, pendingList, smooth, {})
    BY <1>0, <1>2, <1>3 DEF Waits
  <2> QED
    BY <1>0, <1>1, <2>1, <2>2, <2>3, <2>4, <2>5 DEF ClassInv, Good
<1>5. CASE driver[u] # NULL
  <2> DEFINE e == driver[u]
             pf == <<e>> \o pendingList
             lj == [link EXCEPT ![e] = "linked"]
  <2>0. e \in Gadgets /\ ~Contains(pendingList, e) /\ e \in registered /\ MatchesName(e, u)
    BY <1>0, <1>t, <1>5 DEF Placed
  <2>1. pendingList' = pf /\ link' = lj
    BY <1>1, <1>5 DEF Displace, Enlist
  <2>2. \A v \in Udcs : driver[v] = e => v = u
    BY <1>0, <1>5 DEF Placed
  <2> HIDE DEF e
  <2>3. IsList(pf, Gadgets) /\ \A y : Contains(pf, y) <=> Contains(pendingList, y) \/ y = e
    BY <1>t, <2>0, ConsIs
  <2>4. lj \in [Gadgets -> Links] /\ \A d \in Gadgets : lj[d] = IF d = e THEN "linked" ELSE link[d]
    BY <1>t, <2>0 DEF Links
  <2> HIDE DEF pf, lj
  <2>5. Typed(ul, ds, pf, lj, registered, smooth)
    BY <1>0, <1>2, <1>3, <2>3, <2>4 DEF Typed
  <2>6. Linked(pf, lj)
    BY <1>0, <2>0, <2>3, <2>4 DEF Linked
  <2>7. Placed(ul, ds, pf, registered)
    BY <1>0, <1>2, <1>3, <2>0, <2>2, <2>3 DEF Placed
  <2>8. Safe(ds, lj, registered)
    <3>1. \A d \in registered : d # e => d \in Gadgets /\ d # driver[u]
      BY <1>t DEF e
    <3> QED
      BY <1>0, <1>h, <2>0, <2>4, <3>1 DEF Safe
  <2>9. Remembered(ds, pf, registered, smooth)
    <3>1. \A d \in registered : d # e => d \in Gadgets /\ d # driver[u]
      BY <1>t DEF e
    <3> QED
      BY <1>0, <1>h, <2>3, <3>1 DEF Remembered
  <2>10. Waits(ul, ds, pf, smooth, {})
    <3>1. \A v \in Udcs : UdcName[e] = v => v = u
      BY <1>0, <2>0 DEF MatchesName
    <3> QED
      BY <1>0, <1>2, <1>3, <2>3, <3>1 DEF Waits
  <2> QED
    BY <1>1, <2>1, <2>5, <2>6, <2>7, <2>8, <2>9, <2>10 DEF ClassInv, Good
<1> QED
  BY <1>4, <1>5

(* usb_gadget_probe_driver.                                                *)
LEMMA ProbeKeeps ==
  ASSUME ClassInv, NEW d \in Gadgets, ProbeDriver(d)
  PROVE  ClassInv'
<1>0. /\ Typed(udcList, driver, pendingList, link, registered, smooth)
      /\ Linked(pendingList, link) /\ Placed(udcList, driver, pendingList, registered)
      /\ Safe(driver, link, registered) /\ Remembered(driver, pendingList, registered, smooth)
      /\ Waits(udcList, driver, pendingList, smooth, {}) /\ NULL \notin Gadgets
      /\ BindResults \subseteq {"ok", "fail", "defer"}
  BY ClassAssumption DEF ClassInv, Good
<1>t. /\ IsList(udcList, Udcs) /\ IsList(pendingList, Gadgets)
      /\ driver \in [Udcs -> Gadgets \cup {NULL}] /\ link \in [Gadgets -> Links]
      /\ registered \subseteq Gadgets /\ smooth \in BOOLEAN
  BY <1>0 DEF Typed
<1>1. d \notin registered /\ udcList' = udcList
  BY DEF ProbeDriver
<1>2. ~Contains(pendingList, d) /\ \A v \in Udcs : driver[v] # d
  BY <1>0, <1>1 DEF Placed
<1>3. ASSUME NEW i \in 1..Len(udcList), NEW r \in BindResults,
             Candidate(d, i), BindAnswer(r), NoListChange,
             IF r = "ok" THEN /\ driver' = [driver EXCEPT ![udcList[i]] = d]
                              /\ registered' = registered \cup {d}
                         ELSE UNCHANGED <<driver, registered>>
      PROVE  ClassInv'
  <2> DEFINE u == udcList[i]
             ds == [driver EXCEPT ![u] = d]
             rf == registered \cup {d}
  <2>0. u \in Udcs /\ Contains(udcList, u)
    BY <1>t, ElementOfSeq DEF IsList, Contains
  <2>1. driver[u] = NULL /\ MatchesName(d, u)
    BY <1>3 DEF Candidate, Fits
  <2>2. pendingList' = pendingList /\ link' = link
    BY <1>3 DEF NoListChange
  <2>s. (r # "ok" => smooth' = FALSE) /\ (r = "ok" => smooth' = smooth)
    <3>1. smooth' = (smooth /\ r = "ok")
      BY <1>3 DEF BindAnswer
    <3> QED
      BY <1>t, <3>1
  <2>3. CASE r = "ok"
    <3>1. driver' = ds /\ registered' = rf /\ smooth' = smooth
      BY <1>3, <2>3, <2>s
    <3> HIDE DEF u
    <3>2. ds \in [Udcs -> Gadgets \cup {NULL}] /\ \A v \in Udcs : ds[v] = IF v = u THEN d ELSE driver[v]
      BY <1>t, <2>0
    <3> HIDE DEF ds
    <3>3. Typed(udcList, ds, pendingList, link, rf, smooth)
      BY <1>0, <3>2 DEF Typed
    <3>4. Placed(udcList, ds, pendingList, rf)
      BY <1>0, <1>2, <2>0, <2>1, <3>2 DEF Placed
    <3>h. /\ \A x \in Gadgets : HasUdc(driver, x) => HasUdc(ds, x)
          /\ HasUdc(ds, d)
      BY <1>0, <2>0, <2>1, <3>2 DEF HasUdc
    <3>5. Safe(ds, link, rf) /\ Remembered(ds, pendingList, rf, smooth)
      BY <1>0, <1>t, <3>h DEF Safe, Remembered
    <3>6. Waits(udcList, ds, pendingList, smooth, {})
      BY <1>0, <3>2 DEF Waits
    <3> QED
      BY <1>0, <1>1, <2>2, <3>1, <3>3, <3>4, <3>5, <3>6 DEF ClassInv, Good
  <2>4. CASE r # "ok"
    <3>1. driver' = driver /\ registered' = registered /\ smooth' = FALSE
      BY <1>3, <2>4, <2>s
    <3>2. Good(udcList, driver, pendingList, link, registered, FALSE)
      BY <1>0 DEF Good, Typed, Remembered
    <3> QED
      BY <1>1, <2>2, <3>1, <3>2 DEF ClassInv, Waits
  <2> QED
    BY <2>3, <2>4
<1>4. ASSUME NoCandidate(d), UNCHANGED <<driver, smooth>>,
             IF d \in ExistingOnly
               THEN NoListChange /\ UNCHANGED registered
               ELSE Enlist(Append(pendingList, d), d) /\ registered' = registered \cup {d}
      PROVE  ClassInv'
  <2> DEFINE pf == Append(pendingList, d)
             lj == [link EXCEPT ![d] = "linked"]
             rf == registered \cup {d}
  <2>1. CASE d \in ExistingOnly
    <3>1. /\ driver' = driver /\ smooth' = smooth /\ registered' = registered
          /\ pendingList' = pendingList /\ link' = link
      BY <1>4, <2>1 DEF NoListChange
    <3> QED
      BY <1>0, <1>1, <3>1 DEF ClassInv, Good
  <2>2. CASE d \notin ExistingOnly
    <3>1. /\ driver' = driver /\ smooth' = smooth /\ registered' = rf
          /\ pendingList' = pf /\ link' = lj
      BY <1>4, <2>2 DEF Enlist
    <3>2. IsList(pf, Gadgets) /\ \A y : Contains(pf, y) <=> Contains(pendingList, y) \/ y = d
      BY <1>t, <1>2, AppendIs
    <3>3. lj \in [Gadgets -> Links] /\ \A x \in Gadgets : lj[x] = IF x = d THEN "linked" ELSE link[x]
      BY <1>t DEF Links
    <3> HIDE DEF pf, lj
    <3>4. Typed(udcList, driver, pf, lj, rf, smooth)
      BY <1>0, <3>2, <3>3 DEF Typed
    <3>5. Linked(pf, lj)
      BY <1>0, <3>2, <3>3 DEF Linked
    <3>6. Placed(udcList, driver, pf, rf)
      BY <1>0, <1>2, <3>2 DEF Placed
    <3>7. Safe(driver, lj, rf)
      BY <1>0, <1>t, <3>3 DEF Safe
    <3>8. Remembered(driver, pf, rf, smooth)
      BY <1>0, <3>2 DEF Remembered
    <3>9. \A v \in Udcs : UdcName[d] = v /\ Contains(udcList, v) => driver[v] # NULL
      BY <1>4 DEF NoCandidate, Fits, MatchesName, Contains
    <3>10. Waits(udcList, driver, pf, smooth, {})
      BY <1>0, <3>2, <3>9 DEF Waits
    <3> QED
      BY <1>1, <3>1, <3>4, <3>5, <3>6, <3>7, <3>8, <3>10 DEF ClassInv, Good
  <2> QED
    BY <2>1, <2>2
<1> QED
  BY <1>3, <1>4 DEF ProbeDriver

(* usb_gadget_unregister_driver.                                           *)
LEMMA UnregisterKeeps ==
  ASSUME ClassInv, NEW d \in Gadgets, UnregisterGadgetDriver(d)
  PROVE  ClassInv'
<1> DEFINE rf == registered \ {d}
<1>0. /\ Typed(udcList, driver, pendingList, link, registered, smooth)
      /\ Linked(pendingList, link) /\ Placed(udcList, driver, pendingList, registered)
      /\ Safe(driver, link, registered) /\ Remembered(driver, pendingList, registered, smooth)
      /\ Waits(udcList, driver, pendingList, smooth, {}) /\ NULL \notin Gadgets
  BY ClassAssumption DEF ClassInv, Good
<1>t. /\ IsList(udcList, Udcs) /\ IsList(pendingList, Gadgets)
      /\ driver \in [Udcs -> Gadgets \cup {NULL}] /\ link \in [Gadgets -> Links]
      /\ registered \subseteq Gadgets /\ smooth \in BOOLEAN
  BY <1>0 DEF Typed
<1>1. d \in registered /\ registered' = rf /\ udcList' = udcList
  BY DEF UnregisterGadgetDriver
<1>2. CASE \E u \in Udcs : Listed(u) /\ driver[u] = d
  <2> DEFINE u == CHOOSE v \in Udcs : Listed(v) /\ driver[v] = d
             ds == [driver EXCEPT ![u] = NULL]
  <2>1. u \in Udcs /\ Contains(udcList, u) /\ driver[u] = d
    BY <1>2 DEF Listed
  <2>2. PICK ok \in BOOLEAN : CheckPending(u, ds, ok)
    BY <1>2 DEF UnregisterGadgetDriver, UnbindAndOffer
  <2> HIDE DEF u
  <2>3. /\ ds \in [Udcs -> Gadgets \cup {NULL}] /\ ds[u] = NULL
        /\ \A v \in Udcs : ds[v] = IF v = u THEN NULL ELSE driver[v]
    BY <1>t, <2>1
  <2> HIDE DEF ds
  <2>4. ~Contains(pendingList, d) /\ \A v \in Udcs : driver[v] = d => v = u
    BY <1>0, <2>1 DEF Placed
  <2>5. Typed(udcList, ds, pendingList, link, rf, smooth)
    BY <1>0, <2>3 DEF Typed
  <2>6. Placed(udcList, ds, pendingList, rf)
    BY <1>0, <2>3, <2>4 DEF Placed
  <2>h. \A x \in rf : HasUdc(driver, x) => HasUdc(ds, x)
    BY <1>0, <1>t, <2>1, <2>3 DEF HasUdc
  <2>7. Safe(ds, link, rf) /\ Remembered(ds, pendingList, rf, smooth)
    BY <1>0, <2>h DEF Safe, Remembered
  <2>8. Waits(udcList, ds, pendingList, smooth, {u})
    BY <1>0, <2>3 DEF Waits
  <2>9. Good(udcList, ds, pendingList, link, rf, smooth)
    BY <1>0, <2>5, <2>6, <2>7 DEF Good
  <2> HIDE DEF rf
  <2>10. /\ Good(udcList, driver', pendingList', link', rf, smooth')
         /\ Waits(udcList, driver', pendingList', smooth', {})
    BY <2>1, <2>2, <2>3, <2>8, <2>9, OfferKeeps
  <2> QED
    BY <1>1, <2>10 DEF ClassInv
<1>3. CASE ~\E u \in Udcs : Listed(u) /\ driver[u] = d
  <2> DEFINE pf == Delete(pendingList, d)
             lj == [link EXCEPT ![d] = "poison"]
  <2>1. pendingList' = pf /\ link' = lj /\ driver' = driver /\ smooth' = smooth
    BY <1>3 DEF UnregisterGadgetDriver
  <2>2. \A v \in Udcs : driver[v] # d
    BY <1>0, <1>3 DEF Placed, Listed
  <2>3. IsList(pf, Gadgets) /\ \A y : Contains(pf, y) <=> Contains(pendingList, y) /\ y # d
    BY <1>t, DeleteIs
  <2>4. lj \in [Gadgets -> Links] /\ \A x \in Gadgets : lj[x] = IF x = d THEN "poison" ELSE link[x]
    BY <1>t DEF Links
  <2> HIDE DEF pf, lj
  <2>5. Typed(udcList, driver, pf, lj, rf, smooth)
    BY <1>0, <2>3, <2>4 DEF Typed
  <2>6. Linked(pf, lj)
    BY <1>0, <2>3, <2>4 DEF Linked
  <2>7. Placed(udcList, driver, pf, rf)
    BY <1>0, <2>2, <2>3 DEF Placed
  <2>8. Safe(driver, lj, rf)
    BY <1>0, <1>t, <2>4 DEF Safe
  <2>9. Remembered(driver, pf, rf, smooth)
    BY <1>0, <2>3 DEF Remembered
  <2>10. Waits(udcList, driver, pf, smooth, {})
    BY <1>0, <2>3 DEF Waits
  <2> QED
    BY <1>1, <2>1, <2>5, <2>6, <2>7, <2>8, <2>9, <2>10 DEF ClassInv, Good
<1> QED
  BY <1>2, <1>3

LEMMA ClassStep ==
  ASSUME ClassInv, [ClassNext]_classVars
  PROVE  ClassInv'
<1>1. ASSUME NEW u \in Udcs, AddGadgetUdc(u) \/ DelGadgetUdc(u) PROVE ClassInv'
  BY <1>1, AddKeeps, DelKeeps
<1>2. ASSUME NEW d \in Gadgets, ProbeDriver(d) \/ UnregisterGadgetDriver(d) PROVE ClassInv'
  BY <1>2, ProbeKeeps, UnregisterKeeps
<1>3. ASSUME UNCHANGED classVars PROVE ClassInv'
  BY <1>3 DEF ClassInv, classVars
<1> QED
  BY <1>1, <1>2, <1>3 DEF ClassNext

(* Every driver is bound to one controller or waits once, its list node is *)
(* what list_del expects; while binds succeed no registration is lost and  *)
(* no driver waits for the free controller that it names, for any number   *)
(* of controllers and drivers (usb_add_gadget_udc, usb_del_gadget_udc,     *)
(* usb_gadget_probe_driver, usb_gadget_unregister_driver).                 *)
THEOREM PairingSoundCorrect ==
  ClassSpec => []PairingSound
<1>1. ClassInit => ClassInv
  BY ClassInitOK
<1>2. ClassInv /\ [ClassNext]_classVars => ClassInv'
  BY ClassStep
<1>3. ClassInv => PairingSound
  BY ClassInvPairs
<1> QED
  BY <1>1, <1>2, <1>3, PTL DEF ClassSpec

-----------------------------------------------------------------------------
(* Control transfers.  First what the operators of endpoint 0 make of it:  *)
(* requests have not moved more than their length.                         *)
EpOK(e) == e \in Ep0Type /\ \A r \in Reqs : e.act[r] <= e.len[r]

LEMMA UnlinkIs ==
  ASSUME NEW q \in Seq(Reqs), NEW r \in Reqs
  PROVE  Unlink(q, r) \in Seq(Reqs)
<1>1. CASE Contains(q, r)
  <2> DEFINE i == CHOOSE i \in 1..Len(q) : q[i] = r
  <2>1. i \in 1..Len(q)
    BY <1>1 DEF Contains
  <2> HIDE DEF i
  <2>2. RemoveAt(q, i) \in Seq(Reqs)
    BY <2>1, RemoveAtIs
  <2> QED
    BY <1>1, <2>2 DEF Unlink, i
<1>2. CASE ~Contains(q, r)
  BY <1>2 DEF Unlink
<1> QED
  BY <1>1, <1>2

LEMMA UnlinkOne ==
  ASSUME NEW r \in Reqs, NEW s \in Reqs
  PROVE  /\ Unlink(<<r>>, r) = << >>
         /\ s # r => Unlink(<<s>>, r) = <<s>>
<1>1. <<r>> \in Seq(Reqs) /\ Len(<<r>>) = 1 /\ <<r>>[1] = r
  OBVIOUS
<1>2. Contains(<<r>>, r)
  BY <1>1 DEF Contains
<1>3. (CHOOSE i \in 1..Len(<<r>>) : <<r>>[i] = r) = 1
  <2>1. 1..Len(<<r>>) = {1}
    BY <1>1
  <2> QED
    BY <1>1, <2>1
<1>4. RemoveAt(<<r>>, 1) \in Seq(Reqs) /\ Len(RemoveAt(<<r>>, 1)) = 0
  <2> DEFINE q == <<r>>
  <2>1. q \in Seq(Reqs) /\ Len(q) = 1
    BY <1>1
  <2> HIDE DEF q
  <2>2. 1 \in 1..Len(q)
    BY <2>1
  <2>3. RemoveAt(q, 1) \in Seq(Reqs) /\ Len(RemoveAt(q, 1)) = Len(q) - 1
    BY <2>1, <2>2, RemoveAtIs
  <2> QED
    BY <2>1, <2>3 DEF q
<1>5. RemoveAt(<<r>>, 1) = << >>
  BY <1>4, EmptySeq
<1>6. ASSUME s # r PROVE ~Contains(<<s>>, r)
  BY <1>6 DEF Contains
<1> QED
  BY <1>2, <1>3, <1>5, <1>6 DEF Unlink

LEMMA EmptyHasNone ==
  ASSUME NEW r
  PROVE  ~Contains(<< >>, r) /\ Unlink(<< >>, r) = << >>
BY DEF Contains, Unlink

LEMMA PacketIs ==
  ASSUME NEW e, EpOK(e), NEW r \in Reqs
  PROVE  /\ Packet(e, r) \in 0..MaxPacket /\ e.act[r] + Packet(e, r) <= e.len[r]
         /\ Packet(e, r) < MaxPacket => e.act[r] + Packet(e, r) = e.len[r]
<1>1. e.len[r] \in Nat /\ e.act[r] \in Nat /\ e.act[r] <= e.len[r]
  BY DEF EpOK, Ep0Type
<1>2. MaxPacket \in Nat \ {0}
  BY ControlAssumption
<1> QED
  BY <1>1, <1>2 DEF Packet

LEMMA DirIs == ASSUME NEW e PROVE Dir(e) \in {"in", "out"}
BY DEF Dir

(* s starts a packet of r in e, d has r of e done, q has queued r in e.    *)
IsStarted(s, e, r) ==
  /\ EpOK(s) /\ s.armed = Dir(s) /\ s.bc = Packet(s, r)
  /\ Dir(s) = Dir(e) /\ s.in = e.in /\ s.queue = e.queue /\ s.len = e.len /\ s.act = e.act
  /\ s.csh = e.csh /\ s.stall = e.stall /\ s.pend = e.pend /\ s.ans = e.ans
IsDone(d, e, r, ok) ==
  /\ EpOK(d) /\ d.in = e.in /\ d.queue = Unlink(e.queue, r) /\ d.pend = e.pend \ {r} /\ d.ans = e.ans
  /\ d.armed = IF e.armed = Dir(e) THEN "none" ELSE e.armed
  /\ d.csh = (e.csh \/ e.in \/ ok) /\ d.stall = (e.stall \/ ~(e.in \/ ok))
  /\ Dir(d) = Dir(e)
IsQueued(q, e, r, n, ok) ==
  /\ EpOK(q) /\ q.in = e.in /\ Dir(q) = Dir(e) /\ q.ans = n
  /\ n # 0 => /\ q.queue = Append(e.queue, r) /\ q.len[r] = n /\ q.act[r] = 0
              /\ q.armed = Dir(q) /\ q.bc = Packet(q, r)
              /\ q.csh = e.csh /\ q.stall = e.stall /\ q.pend = e.pend
  /\ n = 0 => /\ q.queue = Unlink(Append(e.queue, r), r) /\ q.pend = e.pend \ {r}
              /\ q.armed = IF e.armed = Dir(e) THEN "none" ELSE e.armed
              /\ q.csh = (e.csh \/ e.in \/ ok) /\ q.stall = (e.stall \/ ~(e.in \/ ok))

LEMMA StartIs ==
  ASSUME NEW e, EpOK(e), NEW r \in Reqs
  PROVE  IsStarted(Start(e, r), e, r)
<1> DEFINE s == Start(e, r)
<1>1. Packet(e, r) \in 0..MaxPacket /\ Dir(e) \in {"in", "out"} /\ e \in Ep0Type
  BY PacketIs, DirIs DEF EpOK
<1>2. s = [e EXCEPT !.ie = e.ie \cup {Dir(e)}, !.armed = Dir(e), !.bc = Packet(e, r)]
  BY DEF Start
<1> HIDE DEF s
<1>3. /\ s \in Ep0Type /\ s.armed = Dir(e) /\ s.bc = Packet(e, r) /\ s.in = e.in
      /\ s.queue = e.queue /\ s.len = e.len /\ s.act = e.act
      /\ s.csh = e.csh /\ s.stall = e.stall /\ s.pend = e.pend /\ s.ans = e.ans
  BY <1>1, <1>2 DEF Ep0Type
<1>4. Dir(s) = Dir(e) /\ Packet(s, r) = Packet(e, r)
  BY <1>3 DEF Dir, Packet
<1>5. EpOK(s)
  BY <1>3 DEF EpOK
<1> QED
  BY <1>3, <1>4, <1>5 DEF s, IsStarted

LEMMA DoneIs ==
  ASSUME NEW e, EpOK(e), NEW r \in Reqs, NEW ok \in BOOLEAN
  PROVE  IsDone(Done(e, r, ok), e, r, ok)
<1> DEFINE d == Done(e, r, ok)
           ln == [e.len EXCEPT ![r] = 0]
           ac == [e.act EXCEPT ![r] = 0]
           f == [e EXCEPT !.queue = Unlink(e.queue, r), !.ie = e.ie \ {Dir(e)}, !.pend = e.pend \ {r},
                     !.len = ln, !.act = ac, !.bc = 0,
                     !.armed = IF e.armed = Dir(e) THEN "none" ELSE e.armed]
<1>1. e \in Ep0Type /\ e.queue \in Seq(Reqs) /\ e.in \in BOOLEAN /\ e.csh \in BOOLEAN /\ e.stall \in BOOLEAN
  BY DEF EpOK, Ep0Type
<1>2. Unlink(e.queue, r) \in Seq(Reqs)
  BY <1>1, UnlinkIs
<1>3. d = IF e.in \/ ok THEN [f EXCEPT !.csh = TRUE] ELSE [f EXCEPT !.stall = TRUE]
  BY DEF Done, Ack, Stall
<1>m. MaxPacket \in Nat
  BY ControlAssumption
<1>4. /\ f \in Ep0Type /\ f.in = e.in /\ f.queue = Unlink(e.queue, r) /\ f.pend = e.pend \ {r} /\ f.ans = e.ans
      /\ f.armed = IF e.armed = Dir(e) THEN "none" ELSE e.armed
      /\ f.csh = e.csh /\ f.stall = e.stall
      /\ f.len = ln /\ f.act = ac
  <2>1. ln \in [Reqs -> Nat] /\ ac \in [Reqs -> Nat]
    BY <1>1 DEF Ep0Type
  <2> HIDE DEF ln, ac
  <2>2. /\ e.ie \ {Dir(e)} \in SUBSET {"in", "out"} /\ e.pend \ {r} \in SUBSET {"cdev", "os"}
        /\ (IF e.armed = Dir(e) THEN "none" ELSE e.armed) \in {"none", "in", "out"}
        /\ 0 \in 0..MaxPacket
    BY <1>1, <1>m DEF Ep0Type
  <2> DEFINE ie == e.ie \ {Dir(e)}
             pe == e.pend \ {r}
             ar == IF e.armed = Dir(e) THEN "none" ELSE e.armed
             qu == Unlink(e.queue, r)
  <2> HIDE DEF ie, pe, ar, qu
  <2>3. f = [e EXCEPT !.queue = qu, !.ie = ie, !.pend = pe, !.len = ln, !.act = ac, !.bc = 0, !.armed = ar]
    BY DEF ie, pe, ar, qu
  <2> HIDE DEF f
  <2>4. ie \in SUBSET {"in", "out"} /\ pe \in SUBSET {"cdev", "os"} /\ ar \in {"none", "in", "out"}
        /\ qu \in Seq(Reqs)
    BY <1>2, <2>2 DEF ie, pe, ar, qu
  <2>5. /\ f \in Ep0Type /\ f.in = e.in /\ f.queue = qu /\ f.pend = pe /\ f.ans = e.ans
        /\ f.armed = ar /\ f.csh = e.csh /\ f.stall = e.stall /\ f.len = ln /\ f.act = ac
    BY <1>1, <1>m, <2>1, <2>2, <2>3, <2>4 DEF Ep0Type
  <2> QED
    BY <2>5 DEF ar, pe, qu
<1> HIDE DEF d, f
<1>5. /\ d \in Ep0Type /\ d.in = e.in /\ d.queue = Unlink(e.queue, r) /\ d.pend = e.pend \ {r} /\ d.ans = e.ans
      /\ d.armed = f.armed /\ d.len = f.len /\ d.act = f.act
  BY <1>3, <1>4 DEF Ep0Type
<1>6. d.csh = (e.csh \/ e.in \/ ok) /\ d.stall = (e.stall \/ ~(e.in \/ ok))
  BY <1>1, <1>3, <1>4 DEF Ep0Type
<1>7. \A s \in Reqs : d.act[s] <= d.len[s]
  <2>1. e.len \in [Reqs -> Nat] /\ e.act \in [Reqs -> Nat] /\ \A s \in Reqs : e.act[s] <= e.len[s]
    BY DEF EpOK, Ep0Type
  <2> QED
    BY <1>4, <1>5, <2>1
<1>8. Dir(d) = Dir(e)
  BY <1>5 DEF Dir
<1> QED
  BY <1>4, <1>5, <1>6, <1>7, <1>8 DEF d, EpOK, IsDone
LEMMA QueueIs ==
  ASSUME NEW e, EpOK(e), NEW r \in Reqs, NEW n \in Nat, NEW ok \in BOOLEAN
  PROVE  IsQueued(Queue(e, r, n, ok), e, r, n, ok)
<1> DEFINE ln == [e.len EXCEPT ![r] = n]
           ac == [e.act EXCEPT ![r] = 0]
           f == [e EXCEPT !.queue = Append(e.queue, r), !.len = ln, !.act = ac, !.ans = n]
           q == Queue(e, r, n, ok)
<1>1. /\ e \in Ep0Type /\ e.queue \in Seq(Reqs) /\ e.len \in [Reqs -> Nat] /\ e.act \in [Reqs -> Nat]
      /\ \A s \in Reqs : e.act[s] <= e.len[s]
  BY DEF EpOK, Ep0Type
<1>2. q = IF n = 0 THEN Done(f, r, ok) ELSE Start(f, r)
  BY DEF Queue
<1>3. /\ ln \in [Reqs -> Nat] /\ ac \in [Reqs -> Nat] /\ ln[r] = n /\ ac[r] = 0
      /\ \A s \in Reqs : ac[s] <= ln[s]
  BY <1>1
<1>4. Append(e.queue, r) \in Seq(Reqs)
  BY <1>1
<1> HIDE DEF ln, ac
<1>5. /\ f \in Ep0Type /\ f.queue = Append(e.queue, r) /\ f.len = ln /\ f.act = ac /\ f.ans = n
      /\ f.in = e.in /\ f.csh = e.csh /\ f.stall = e.stall /\ f.pend = e.pend /\ f.armed = e.armed
  BY <1>1, <1>3, <1>4 DEF Ep0Type
<1> HIDE DEF f, q
<1>6. EpOK(f) /\ Dir(f) = Dir(e)
  BY <1>3, <1>5 DEF EpOK, Dir
<1>7. CASE n = 0
  <2> DEFINE d == Done(f, r, ok)
  <2>1. IsDone(d, f, r, ok)
    BY <1>6, DoneIs
  <2>2. q = d
    BY <1>2, <1>7
  <2> HIDE DEF d
  <2> QED
    BY <1>5, <1>6, <1>7, <2>1, <2>2 DEF q, IsDone, IsQueued
<1>8. CASE n # 0
  <2> DEFINE d == Start(f, r)
  <2>1. IsStarted(d, f, r)
    BY <1>6, StartIs
  <2>2. q = d
    BY <1>2, <1>8
  <2> HIDE DEF d
  <2> QED
    BY <1>3, <1>5, <1>6, <1>8, <2>1, <2>2 DEF q, IsStarted, IsQueued
<1> QED
  BY <1>7, <1>8

LEMMA PendedIs ==
  ASSUME NEW e, EpOK(e), NEW p \in SUBSET {"cdev", "os"}
  PROVE  LET q == [e EXCEPT !.pend = p] IN
         /\ EpOK(q) /\ q.pend = p /\ q.in = e.in /\ Dir(q) = Dir(e) /\ q.ans = e.ans
         /\ q.queue = e.queue /\ q.len = e.len /\ q.act = e.act /\ q.armed = e.armed /\ q.bc = e.bc
         /\ q.csh = e.csh /\ q.stall = e.stall
         /\ \A r : Packet(q, r) = Packet(e, r)
BY DEF EpOK, Ep0Type, Dir, Packet

(* A packet of the only request: it is done when all has moved.            *)
IsProcessed(p, e) ==
  /\ EpOK(p) /\ p.in = e.in /\ Dir(p) = Dir(e) /\ p.ans = e.ans
  /\ e.armed = "none" /\ ~e.csh => (p.armed # "none" => p.armed = Dir(p) /\ ~p.csh)
  /\ \A r \in Reqs : e.queue = <<r>> =>
       IF e.act[r] + Packet(e, r) = e.len[r]
       THEN /\ p.queue = << >> /\ p.armed = IF e.armed = Dir(e) THEN "none" ELSE e.armed
       ELSE /\ p.queue = <<r>> /\ p.len[r] = e.len[r] /\ p.act[r] = e.act[r] + Packet(e, r)
            /\ p.armed = Dir(p) /\ p.bc = Packet(p, r) /\ p.pend = e.pend
            /\ p.csh = e.csh /\ p.stall = e.stall

LEMMA ProcessIs ==
  ASSUME NEW e, EpOK(e), NEW ok \in BOOLEAN
  PROVE  IsProcessed(Process(e, ok), e)
<1> DEFINE r == Head(e.queue)
           n == e.act[r] + Packet(e, r)
           f == [e EXCEPT !.act = [e.act EXCEPT ![r] = n]]
           p == Process(e, ok)
<1>1. /\ e \in Ep0Type /\ e.queue \in Seq(Reqs) /\ e.len \in [Reqs -> Nat] /\ e.act \in [Reqs -> Nat]
      /\ e.armed \in {"none", "in", "out"}
      /\ \A s \in Reqs : e.act[s] <= e.len[s]
  BY DEF EpOK, Ep0Type
<1>2. CASE e.queue = << >>
  <2>1. p = e
    BY <1>2 DEF Process
  <2>2. \A s : e.queue # <<s>>
    BY <1>2
  <2> QED
    BY <2>1, <2>2 DEF IsProcessed
<1>3. CASE e.queue # << >>
  <2>1. r \in Reqs
    BY <1>1, <1>3
  <2>2. p = IF LastPacket(f, r) THEN Done(f, r, ok) ELSE Start(f, r)
    BY <1>3 DEF Process
  <2>3. \A s \in Reqs : e.queue = <<s>> => r = s
    OBVIOUS
  <2> HIDE DEF r
  <2>4. Packet(e, r) \in 0..MaxPacket /\ n <= e.len[r]
        /\ (Packet(e, r) < MaxPacket => n = e.len[r]) /\ n \in Nat
    <3>1. MaxPacket \in Nat
      BY ControlAssumption
    <3> QED
      BY <1>1, <2>1, <3>1, PacketIs
  <2> HIDE DEF n
  <2>5. /\ f \in Ep0Type /\ f.act[r] = n /\ f.len = e.len /\ f.in = e.in /\ f.queue = e.queue
        /\ f.pend = e.pend /\ f.armed = e.armed /\ f.csh = e.csh /\ f.stall = e.stall /\ f.ans = e.ans
        /\ \A s \in Reqs : f.act[s] <= f.len[s]
    <3> DEFINE ac == [e.act EXCEPT ![r] = n]
    <3>1. ac \in [Reqs -> Nat] /\ ac[r] = n /\ \A s \in Reqs : ac[s] <= e.len[s]
      BY <1>1, <2>1, <2>4
    <3>2. f = [e EXCEPT !.act = ac]
      OBVIOUS
    <3> HIDE DEF ac, f
    <3> QED
      BY <1>1, <3>1, <3>2 DEF Ep0Type
  <2> HIDE DEF f
  <2>6. EpOK(f) /\ Dir(f) = Dir(e)
    BY <2>5 DEF EpOK, Dir
  <2>7. LastPacket(f, r) <=> n = e.len[r]
    <3>1. MaxPacket \in Nat
      BY ControlAssumption
    <3>2. n < MaxPacket => Packet(e, r) < MaxPacket
      BY <1>1, <2>1, <2>4, <3>1 DEF n
    <3> QED
      BY <2>4, <2>5, <3>2 DEF LastPacket
  <2>8. CASE n = e.len[r]
    <3> DEFINE d == Done(f, r, ok)
    <3>1. IsDone(d, f, r, ok)
      BY <2>1, <2>6, DoneIs
    <3>2. p = d
      BY <2>2, <2>7, <2>8
    <3> HIDE DEF d, p
    <3>3. Unlink(<<r>>, r) = << >>
      BY <2>1, UnlinkOne
    <3>4. ASSUME NEW s \in Reqs, e.queue = <<s>>
          PROVE  s = r /\ p.queue = << >> /\ e.act[s] + Packet(e, s) = e.len[s]
      BY <2>3, <2>5, <2>8, <3>1, <3>2, <3>3, <3>4 DEF n, IsDone
    <3>5. e.armed = "none" => p.armed = "none"
      BY <2>5, <3>1, <3>2 DEF IsDone
    <3> QED
      BY <2>5, <2>6, <3>1, <3>2, <3>4, <3>5 DEF p, IsDone, IsProcessed
  <2>9. CASE n # e.len[r]
    <3> DEFINE d == Start(f, r)
    <3>1. IsStarted(d, f, r)
      BY <2>1, <2>6, StartIs
    <3>2. p = d
      BY <2>2, <2>7, <2>9
    <3> HIDE DEF d, p
    <3>3. ASSUME NEW s \in Reqs, e.queue = <<s>>
          PROVE  s = r /\ e.act[s] + Packet(e, s) # e.len[s] /\ n = e.act[s] + Packet(e, s)
      BY <2>3, <2>9, <3>3 DEF n
    <3> QED
      BY <2>5, <2>6, <3>1, <3>2, <3>3 DEF p, IsStarted, IsProcessed
  <2> QED
    BY <2>8, <2>9
<1> QED
  BY <1>2, <1>3

LEMMA LateIs ==
  ASSUME NEW e, EpOK(e), NEW ok \in BOOLEAN
  PROVE  /\ EpOK(Late(e, ok))
         /\ irq \cap {"in", "out"} = {} => Late(e, ok) = e
         /\ \A b : irq \cap {"in", "out"} = {b} => Late(e, ok) \in {e, Process(e, ok)}
<1>1. EpOK(Process(e, ok)) /\ EpOK(Process(Process(e, ok), ok))
  BY ProcessIs DEF IsProcessed
<1>2. IntVal \subseteq irq
  BY DEF IntVal
<1> QED
  BY <1>1, <1>2 DEF Late

-----------------------------------------------------------------------------
(* The invariant.  Whatever the host does: requests, configuration and the *)
(* steps of taking a driver away.                                          *)
Bits == irq \cap {"in", "out"}
CompOK(c) ==
  /\ c \in [config : Configs \cup {0}, active : SUBSET AllFuncs, delayed : Nat]
  /\ c.active \subseteq FuncsOf(c.config) /\ (c.config = 0 => c.delayed = 0)
AnyHost ==
  /\ ControlTypeOK /\ EpOK(ep0) /\ CompOK(comp)
  /\ setup.kind \in scen[2]
  /\ cls # "bound" => host.at = "off" /\ "unbind" \in Events
  /\ cls \in {"gone", "unbound"} => comp.config = 0 /\ irq = {}

(* For a host that waits: a SETUP finds nothing left over from an earlier  *)
(* transfer, and a status that is delayed has not been answered.           *)
PatientHost ==
  "abort" \notin Events =>
    /\ comp.delayed <= Cardinality(owed)
    /\ host.at \in {"idle", "reset"} \/ (host.at = "off" /\ cls = "bound")
         => comp.delayed = 0 /\ "setup" \notin irq /\ Bits = {}
    /\ host.at = "wait" => "se0" \notin irq
    /\ "setup" \in irq => /\ ~ep0.csh /\ ~ep0.stall /\ ep0.armed = "none" /\ ep0.ans = 0
                          /\ host.got = 0 /\ Bits = {} /\ comp.delayed = 0
    /\ ep0.armed # "none" => ep0.armed = Dir(ep0) /\ comp.delayed = 0 /\ ~ep0.csh /\ Bits = {}
    /\ Bits # {} => Bits = {Dir(ep0)} /\ comp.delayed = 0 /\ ~ep0.csh /\ ~ep0.stall
    /\ comp.delayed > 0 => ~ep0.csh /\ ~ep0.stall /\ host.got = 0

(* Where ControlSound is claimed, at most one request is on the queue, and *)
(* the host has got what has moved and what is in the packet on its way.   *)
AtRest ==
  /\ ep0.queue = << >> /\ ep0.armed = "none" /\ Bits = {}
  /\ host.at = "wait" /\ ep0.csh /\ ~ep0.stall => host.got = ep0.ans
  /\ comp.delayed > 0 => ep0.ans = 0
Moving(r) ==
  /\ ep0.queue = <<r>> /\ ep0.len[r] = ep0.ans /\ ~ep0.csh /\ ~ep0.stall
  /\ comp.delayed = 0 /\ "setup" \notin irq /\ cls # "unbound"
  /\ "unbind" \in Events => r \in ep0.pend
  /\ \/ /\ host.at = "wait"
        /\ \/ /\ ep0.armed = Dir(ep0) /\ Bits = {}
              /\ host.got = ep0.act[r] /\ ep0.bc = Packet(ep0, r)
           \/ /\ ep0.armed = "none" /\ Bits = {Dir(ep0)}
              /\ host.got = ep0.act[r] + Packet(ep0, r)
     \/ host.at = "off" /\ cls # "bound"
OrderlyHost == Orderly => ~touched /\ (AtRest \/ \E r \in Reqs : Moving(r))

ControlInv == AnyHost /\ PatientHost /\ OrderlyHost

LEMMA ControlInvExact == ASSUME ControlInv PROVE ControlExact
<1>1. ConfigExact
  BY DEF ControlInv, AnyHost, PatientHost, CompOK, ConfigExact
<1>2. ControlSound
  BY DEF ControlInv, OrderlyHost, AtRest, Moving, ControlSound, RequestIdle
<1> QED
  BY <1>1, <1>2 DEF ControlInv, AnyHost, ControlExact

LEMMA ControlInitOK == ASSUME ControlInit PROVE ControlInv
<1>1. ep0 = NoEp0 /\ irq = {} /\ comp = Unconfigured /\ owed = {} /\ cls = "bound" /\ ~touched
      /\ host.at = "off" /\ host.got = 0 /\ host \in [at : {"off", "reset", "idle", "wait"}, got : Nat]
      /\ setup \in Requests /\ setup.kind \in scen[2] /\ touched \in BOOLEAN
  BY DEF ControlInit
<1>2. NoEp0 \in Ep0Type
  <2>1. MaxPacket \in Nat /\ << >> \in Seq(Reqs)
    BY ControlAssumption
  <2> QED
    BY <2>1 DEF NoEp0, Ep0Type
<1>3. /\ NoEp0.queue = << >> /\ NoEp0.armed = "none" /\ ~NoEp0.csh
      /\ \A r \in Reqs : NoEp0.act[r] = 0 /\ NoEp0.len[r] = 0
  BY DEF NoEp0
<1>4. EpOK(ep0)
  BY <1>1, <1>2, <1>3 DEF EpOK
<1>5. CompOK(comp) /\ comp.delayed = 0
  BY <1>1 DEF CompOK, Unconfigured
<1>6. ControlTypeOK
  BY <1>1, <1>4, <1>5 DEF ControlTypeOK, EpOK, CompOK
<1>7. AnyHost
  BY <1>1, <1>4, <1>5, <1>6 DEF AnyHost
<1>8. PatientHost
  <2>1. Cardinality(owed) = 0
    BY <1>1, FS_EmptySet
  <2> QED
    BY <1>1, <1>3, <1>5, <2>1 DEF PatientHost, Bits
<1>9. AtRest
  BY <1>1, <1>3, <1>5 DEF AtRest, Bits
<1> QED
  BY <1>1, <1>7, <1>8, <1>9 DEF ControlInv, OrderlyHost

-----------------------------------------------------------------------------
(* The answer to a SETUP leaves the endpoint in e, and d functions delay.  *)
Answered(e, d) ==
  /\ e.armed # "none" => e.armed = Dir(e) /\ d = 0 /\ ~e.csh
  /\ d > 0 => ~e.csh /\ ~e.stall
Settled(e, d) ==
  \/ /\ e.queue = << >> /\ e.armed = "none"
     /\ (e.csh /\ ~e.stall) \/ d > 0 => e.ans = 0
  \/ \E r \in Reqs : /\ e.queue = <<r>> /\ e.len[r] = e.ans /\ e.act[r] = 0
                      /\ ~e.csh /\ ~e.stall /\ d = 0 /\ ("unbind" \in Events => r \in e.pend)
                      /\ e.armed = Dir(e) /\ e.bc = Packet(e, r)

LEMMA AnswerKeeps ==
  ASSUME ControlInv, NEW kinds, Received(kinds), NEW e, NEW used, NEW ok \in BOOLEAN, Answer(e, used, ok),
         EpOK(e), CompOK(comp'), owed' \subseteq AllFuncs,
         "abort" \notin Events => Answered(e, comp'.delayed) /\ comp'.delayed <= Cardinality(owed'),
         Orderly => Settled(e, comp'.delayed)
  PROVE  ControlInv'
<1>1. /\ irq' = {} /\ ep0' = Late(e, ok) /\ touched' = (\E r \in used : Contains(ep0.queue, r))
      /\ scen' = scen /\ host' = host /\ setup' = setup /\ cls' = cls
  BY DEF Answer
<1>2. "setup" \in irq /\ ~touched /\ AnyHost /\ PatientHost /\ OrderlyHost
  BY DEF Received, ControlInv
<1>3. EpOK(ep0') /\ (Bits = {} => ep0' = e)
  BY <1>1, LateIs DEF Bits
<1>4. AnyHost'
  <2>1. ControlTypeOK'
    BY <1>1, <1>2, <1>3 DEF AnyHost, ControlTypeOK, EpOK, CompOK
  <2> QED
    BY <1>1, <1>2, <1>3, <2>1 DEF AnyHost, Events
<1>5. PatientHost'
  <2> SUFFICES ASSUME "abort" \notin Events PROVE PatientHost'
    BY <1>1 DEF PatientHost, Events
  <2>1. ep0' = e /\ host.got = 0 /\ ~(host.at \in {"idle", "reset"} \/ (host.at = "off" /\ cls = "bound"))
    BY <1>2, <1>3 DEF PatientHost
  <2>2. Bits' = {}
    BY <1>1 DEF Bits
  <2> QED
    BY <1>1, <2>1, <2>2 DEF PatientHost, Answered
<1>6. OrderlyHost'
  <2> SUFFICES ASSUME Orderly PROVE ~touched' /\ (AtRest' \/ \E r \in Reqs : Moving(r)')
    BY <1>1 DEF OrderlyHost, Orderly, Events
  <2>1. "abort" \notin Events
    BY DEF Orderly
  <2>2. ep0' = e /\ host.got = 0 /\ Bits' = {}
        /\ ~(host.at \in {"idle", "reset"} \/ (host.at = "off" /\ cls = "bound"))
    BY <1>1, <1>2, <1>3, <2>1 DEF PatientHost, Bits
  <2>3. AtRest
    BY <1>2 DEF OrderlyHost, Moving
  <2>4. ~touched'
    BY <1>1, <2>3, EmptyHasNone DEF AtRest
  <2>5. CASE e.queue = << >> /\ e.armed = "none" /\ ((e.csh /\ ~e.stall) \/ comp'.delayed > 0 => e.ans = 0)
    BY <1>1, <2>2, <2>4, <2>5 DEF AtRest
  <2>6. ASSUME NEW r \in Reqs, e.queue = <<r>>, e.len[r] = e.ans, e.act[r] = 0,
               ~e.csh, ~e.stall, comp'.delayed = 0, "unbind" \in Events => r \in e.pend,
               e.armed = Dir(e), e.bc = Packet(e, r)
        PROVE  Moving(r)'
    <3>1. host.at \in {"off", "reset", "idle", "wait"} /\ cls # "unbound"
      BY <1>2 DEF AnyHost, ControlTypeOK
    <3>2. Dir(ep0)' = Dir(e) /\ Packet(ep0, r)' = Packet(e, r) /\ Events' = Events
      BY <1>1, <2>2 DEF Dir, Packet, Events
    <3> QED
      BY <1>1, <2>2, <2>6, <3>1, <3>2 DEF Moving
  <2> QED
    BY <2>4, <2>5, <2>6 DEF Settled
<1> QED
  BY <1>4, <1>5, <1>6 DEF ControlInv

(* What the driver and the framework may leave it in.                      *)
LEMMA PlainAnswers ==
  ASSUME NEW e, EpOK(e)
  PROVE  /\ EpOK(Ack(e)) /\ EpOK(Stall(e))
         /\ Stall(e).armed = e.armed /\ Stall(e).csh = e.csh
         /\ e.armed = "none" /\ ~e.csh => Answered(Ack(e), 0) /\ Answered(Stall(e), 0)
         /\ e.armed = "none" /\ ~e.csh /\ ~e.stall => \A d \in Nat : Answered(e, d)
         /\ e.queue = << >> /\ e.armed = "none" /\ e.ans = 0
              => Settled(Ack(e), 0) /\ Settled(Stall(e), 0) /\ \A d \in Nat : Settled(e, d)
<1> DEFINE a == Ack(e)
           t == Stall(e)
<1>1. /\ a \in Ep0Type /\ a.armed = e.armed /\ a.queue = e.queue /\ a.ans = e.ans
      /\ a.len = e.len /\ a.act = e.act /\ a.stall = e.stall
  BY DEF EpOK, Ep0Type, Ack
<1>2. /\ t \in Ep0Type /\ t.armed = e.armed /\ t.queue = e.queue /\ t.ans = e.ans
      /\ t.len = e.len /\ t.act = e.act /\ t.csh = e.csh
  BY DEF EpOK, Ep0Type, Stall
<1> HIDE DEF a, t
<1>3. EpOK(a) /\ EpOK(t)
  BY <1>1, <1>2 DEF EpOK
<1>4. e.armed = "none" /\ ~e.csh => Answered(a, 0) /\ Answered(t, 0)
  BY <1>1, <1>2 DEF Answered
<1>5. e.armed = "none" /\ ~e.csh /\ ~e.stall => \A d \in Nat : Answered(e, d)
  BY DEF Answered
<1>6. e.queue = << >> /\ e.armed = "none" /\ e.ans = 0
        => Settled(a, 0) /\ Settled(t, 0) /\ \A d \in Nat : Settled(e, d)
  BY <1>1, <1>2 DEF Settled
<1> QED
  BY <1>2, <1>3, <1>4, <1>5, <1>6 DEF a, t

LEMMA QueueAnswers ==
  ASSUME NEW e, EpOK(e), NEW r \in Reqs, NEW n \in Nat, NEW ok \in BOOLEAN
  PROVE  LET q == Queue(e, r, n, ok) IN
         /\ EpOK(q)
         /\ e.armed = "none" /\ ~e.csh => Answered(q, 0)
         /\ e.queue = << >> /\ e.armed = "none" /\ ~e.csh /\ ~e.stall /\ "unbind" \notin Events => Settled(q, 0)
<1> DEFINE q == Queue(e, r, n, ok)
<1>1. IsQueued(q, e, r, n, ok)
  BY QueueIs
<1> HIDE DEF q
<1>2. e.armed = "none" /\ ~e.csh => Answered(q, 0)
  BY <1>1 DEF Answered, IsQueued
<1>3. ASSUME e.queue = << >>, e.armed = "none", ~e.csh, ~e.stall, "unbind" \notin Events PROVE Settled(q, 0)
  <2>1. Append(e.queue, r) = <<r>> /\ Unlink(<<r>>, r) = << >>
    BY <1>3, UnlinkOne
  <2>2. CASE n = 0
    BY <1>1, <1>3, <2>1, <2>2 DEF Settled, IsQueued
  <2>3. CASE n # 0
    BY <1>1, <1>3, <2>1, <2>3 DEF Settled, IsQueued
  <2> QED
    BY <2>2, <2>3
<1> QED
  BY <1>1, <1>2, <1>3 DEF q, IsQueued

LEMMA CompositeAnswers ==
  ASSUME NEW e, EpOK(e), NEW r \in {"cdev", "os"}, NEW n \in Nat, NEW ok \in BOOLEAN
  PROVE  LET q == CompositeQueue(e, r, n, ok) IN
         /\ EpOK(q)
         /\ e.armed = "none" /\ ~e.csh => Answered(q, 0)
         /\ e.queue = << >> /\ e.armed = "none" /\ ~e.csh /\ ~e.stall => Settled(q, 0)
<1> DEFINE p == Queue(e, r, n, ok)
           q == CompositeQueue(e, r, n, ok)
<1>r. r \in Reqs
  BY DEF Reqs
<1>1. IsQueued(p, e, r, n, ok)
  BY <1>r, QueueIs
<1>2. q = [p EXCEPT !.pend = p.pend \cup {r}]
  BY DEF CompositeQueue
<1> HIDE DEF p, q
<1>3. p.pend \cup {r} \in SUBSET {"cdev", "os"}
  BY <1>1 DEF EpOK, Ep0Type, IsQueued
<1>4. /\ EpOK(q) /\ q.pend = p.pend \cup {r} /\ q.in = p.in /\ Dir(q) = Dir(p) /\ q.ans = p.ans
      /\ q.queue = p.queue /\ q.len = p.len /\ q.act = p.act /\ q.armed = p.armed /\ q.bc = p.bc
      /\ q.csh = p.csh /\ q.stall = p.stall /\ Packet(q, r) = Packet(p, r)
  <2> DEFINE w == p.pend \cup {r}
             v == [p EXCEPT !.pend = w]
  <2> HIDE DEF w
  <2>1. EpOK(p) /\ w \in SUBSET {"cdev", "os"}
    BY <1>1, <1>3 DEF w, IsQueued
  <2>2. /\ EpOK(v) /\ v.pend = w /\ v.in = p.in /\ Dir(v) = Dir(p) /\ v.ans = p.ans
        /\ v.queue = p.queue /\ v.len = p.len /\ v.act = p.act /\ v.armed = p.armed /\ v.bc = p.bc
        /\ v.csh = p.csh /\ v.stall = p.stall /\ Packet(v, r) = Packet(p, r)
    BY <2>1, PendedIs
  <2>3. q = v
    BY <1>2 DEF w
  <2> HIDE DEF v
  <2> QED
    BY <2>2, <2>3 DEF w
<1>5. e.armed = "none" /\ ~e.csh => Answered(q, 0)
  BY <1>1, <1>4 DEF Answered, IsQueued
<1>6. ASSUME e.queue = << >>, e.armed = "none", ~e.csh, ~e.stall PROVE Settled(q, 0)
  <2>1. Append(e.queue, r) = <<r>> /\ Unlink(<<r>>, r) = << >>
    BY <1>r, <1>6, UnlinkOne
  <2>2. CASE n = 0
    BY <1>1, <1>4, <1>6, <2>1, <2>2 DEF Settled, IsQueued
  <2>3. CASE n # 0
    <3>1. /\ q.queue = <<r>> /\ q.len[r] = q.ans /\ q.act[r] = 0 /\ ~q.csh /\ ~q.stall
          /\ r \in q.pend /\ q.armed = Dir(q) /\ q.bc = Packet(q, r)
      BY <1>1, <1>4, <1>6, <2>1, <2>3 DEF IsQueued
    <3> QED
      BY <1>r, <3>1 DEF Settled
  <2> QED
    BY <2>2, <2>3
<1> QED
  BY <1>4, <1>5, <1>6 DEF q

(* A SETUP finds the endpoint fresh and, for an orderly host, idle.        *)
LEMMA SetupFinds ==
  ASSUME ControlInv, NEW kinds, Received(kinds)
  PROVE  /\ EpOK(Ep0Setup) /\ setup \in Requests /\ setup.w \in Nat /\ setup.kind \in kinds \cap scen[2]
         /\ "abort" \notin Events => /\ Ep0Setup.armed = "none" /\ ~Ep0Setup.csh /\ ~Ep0Setup.stall
                                     /\ comp.delayed = 0
         /\ Orderly => Ep0Setup.queue = << >> /\ Ep0Setup.ans = 0 /\ "abort" \notin Events
<1>1. EpOK(ep0) /\ ep0 \in Ep0Type /\ setup \in Requests /\ "setup" \in irq
  BY DEF ControlInv, AnyHost, ControlTypeOK, EpOK, Received
<1>2. setup.in \in BOOLEAN /\ setup.w \in Nat
  BY <1>1, ControlAssumption
<1>3. LET s == Ep0Setup IN
      /\ s \in Ep0Type /\ s.armed = ep0.armed /\ s.csh = ep0.csh /\ s.stall = ep0.stall
      /\ s.queue = ep0.queue /\ s.ans = ep0.ans /\ s.len = ep0.len /\ s.act = ep0.act
  BY <1>1, <1>2 DEF Ep0Setup, Ep0Type
<1>4. EpOK(Ep0Setup)
  BY <1>1, <1>3 DEF EpOK
<1>5. "abort" \notin Events => ep0.armed = "none" /\ ~ep0.csh /\ ~ep0.stall /\ ep0.ans = 0 /\ comp.delayed = 0
  BY <1>1 DEF ControlInv, PatientHost
<1>6. Orderly => ep0.queue = << >> /\ "abort" \notin Events
  BY <1>1 DEF ControlInv, OrderlyHost, AtRest, Moving, Orderly
<1> QED
  BY <1>1, <1>2, <1>3, <1>4, <1>5, <1>6 DEF ControlInv, AnyHost, Received

LEMMA OwedIs ==
  ASSUME NEW S, S \subseteq AllFuncs
  PROVE  IsFiniteSet(S) /\ Cardinality(S) \in Nat
BY ControlAssumption, FS_Subset, FS_CardinalityType

LEMMA QuietKeeps ==
  ASSUME ControlInv, NEW kinds, Received(kinds), NEW e, NEW used, NEW ok \in BOOLEAN, Answer(e, used, ok),
         Quiet, EpOK(e), "abort" \notin Events => Answered(e, 0), Orderly => Settled(e, 0)
  PROVE  ControlInv'
<1>1. comp' = comp /\ owed' = owed
  BY DEF Quiet
<1>2. CompOK(comp) /\ owed \subseteq AllFuncs /\ ("abort" \notin Events => comp.delayed <= Cardinality(owed))
  BY DEF ControlInv, AnyHost, ControlTypeOK, PatientHost
<1>3. ("abort" \notin Events => comp.delayed = 0) /\ (Orderly => comp.delayed = 0)
  BY SetupFinds
<1>4. CompOK(comp') /\ owed' \subseteq AllFuncs
  BY <1>1, <1>2
<1>5. "abort" \notin Events => Answered(e, comp'.delayed) /\ comp'.delayed <= Cardinality(owed')
  BY <1>1, <1>2, <1>3
<1>6. Orderly => Settled(e, comp'.delayed)
  BY <1>1, <1>3
<1> QED
  BY <1>4, <1>5, <1>6, AnswerKeeps

LEMMA FeatureKeeps ==
  ASSUME ControlInv, NEW good \in BOOLEAN, SetupFeature(good)
  PROVE  ControlInv'
<1> DEFINE e == IF good THEN Ack(Ep0Setup) ELSE Stall(Ep0Setup)
<1>1. Received({"feature"}) /\ Answer(e, {}, TRUE) /\ Quiet
  BY DEF SetupFeature
<1>2. EpOK(e) /\ ("abort" \notin Events => Answered(e, 0)) /\ (Orderly => Settled(e, 0))
  BY <1>1, SetupFinds, PlainAnswers
<1> HIDE DEF e
<1> QED
  BY <1>1, <1>2, QuietKeeps

LEMMA StatusKeeps ==
  ASSUME ControlInv, NEW known \in BOOLEAN, SetupGetStatus(known)
  PROVE  ControlInv'
<1> DEFINE s == Ep0Setup
           e == IF setup.kind = "status" THEN s ELSE Stall(s)
           q == Queue(e, "own", StatusLen, TRUE)
           t == Stall(e)
<1>1. Received({"status", "status0"}) /\ Quiet
  BY DEF SetupGetStatus
<1>2. Answer(q, {"own"}, TRUE) \/ Answer(t, {}, TRUE)
  BY DEF SetupGetStatus
<1>3. /\ EpOK(s) /\ ("abort" \notin Events => s.armed = "none" /\ ~s.csh /\ ~s.stall)
      /\ Orderly => s.queue = << >> /\ s.ans = 0 /\ "abort" \notin Events
      /\ setup.kind \in {"status", "status0"} \cap scen[2]
  BY <1>1, SetupFinds
<1>4. EpOK(e) /\ ("abort" \notin Events => e.armed = "none" /\ ~e.csh)
  BY <1>3, PlainAnswers
<1>5. Orderly => e = s /\ "unbind" \notin Events
  BY <1>3 DEF Orderly
<1> HIDE DEF e, s
<1>6. "own" \in Reqs /\ StatusLen \in Nat
  BY DEF Reqs, StatusLen
<1>7. EpOK(q) /\ ("abort" \notin Events => Answered(q, 0)) /\ (Orderly => Settled(q, 0))
  BY <1>3, <1>4, <1>5, <1>6, QueueAnswers
<1>8. EpOK(t) /\ ("abort" \notin Events => Answered(t, 0)) /\ (Orderly => Settled(t, 0))
  BY <1>3, <1>4, <1>5, PlainAnswers
<1> HIDE DEF q, t
<1> QED
  BY <1>1, <1>2, <1>7, <1>8, QuietKeeps

LEMMA ReadKeeps ==
  ASSUME ControlInv, NEW r \in {"cdev", "os"}, NEW n \in 0..setup.w, NEW ok \in BOOLEAN, SetupRead(r, n, ok)
  PROVE  ControlInv'
<1> DEFINE q == CompositeQueue(Ep0Setup, r, n, ok)
<1>1. Received({"read"}) /\ Answer(q, {"cdev", r}, ok) /\ Quiet
  BY DEF SetupRead
<1>2. n \in Nat
  BY <1>1, SetupFinds
<1>3. EpOK(q) /\ ("abort" \notin Events => Answered(q, 0)) /\ (Orderly => Settled(q, 0))
  BY <1>1, <1>2, SetupFinds, CompositeAnswers
<1> HIDE DEF q
<1> QED
  BY <1>1, <1>3, QuietKeeps

LEMMA StallKeeps ==
  ASSUME ControlInv, SetupUnknown \/ SetupTooLong
  PROVE  ControlInv'
<1> DEFINE t == Stall(Ep0Setup)
<1>1. ASSUME NEW kinds, Received(kinds)
      PROVE  EpOK(t) /\ ("abort" \notin Events => Answered(t, 0)) /\ (Orderly => Settled(t, 0))
  BY <1>1, SetupFinds, PlainAnswers
<1>2. CASE SetupUnknown
  <2>1. Received({"read", "func"}) /\ Answer(t, {"cdev"}, TRUE) /\ Quiet
    BY <1>2 DEF SetupUnknown
  <2> HIDE DEF t
  <2> QED
    BY <1>1, <2>1, QuietKeeps
<1>3. CASE SetupTooLong
  <2>1. Received({"func"}) /\ Answer(t, {}, TRUE) /\ Quiet
    BY <1>3 DEF SetupTooLong
  <2> HIDE DEF t
  <2> QED
    BY <1>1, <2>1, QuietKeeps
<1> QED
  BY <1>2, <1>3

LEMMA FunctionKeeps ==
  ASSUME ControlInv, NEW ok \in BOOLEAN, SetupFunction(ok)
  PROVE  ControlInv'
<1> DEFINE q == Queue(Ep0Setup, "cdev", setup.w, ok)
<1>1. Received({"func"}) /\ Answer(q, {"cdev"}, ok) /\ Quiet
  BY DEF SetupFunction
<1>2. Orderly => "unbind" \notin Events
  BY <1>1, SetupFinds DEF Orderly
<1>3. "cdev" \in Reqs
  BY DEF Reqs
<1>4. EpOK(q) /\ ("abort" \notin Events => Answered(q, 0)) /\ (Orderly => Settled(q, 0))
  BY <1>1, <1>2, <1>3, SetupFinds, QueueAnswers
<1> HIDE DEF q
<1> QED
  BY <1>1, <1>4, QuietKeeps

LEMMA ConfigsOK ==
  ASSUME NEW c, CompOK(c)
  PROVE  CompOK(ResetConfig(c)) /\ ResetConfig(c).config = 0 /\ ResetConfig(c).delayed = 0
BY DEF CompOK, ResetConfig, Unconfigured

LEMMA ConfigKeeps ==
  ASSUME ControlInv, NEW k \in 0..Cardinality(AllFuncs), NEW late \in SUBSET AllFuncs, NEW ok \in BOOLEAN,
         SetupConfig(k, late, ok)
  PROVE  ControlInv'
<1> DEFINE c == setup.arg
           t == Stall(Ep0Setup)
           q == CompositeQueue(Ep0Setup, "cdev", 0, ok)
<1>1. Received({"config"})
  BY DEF SetupConfig
<1>2. EpOK(t) /\ ("abort" \notin Events => Answered(t, 0)) /\ (Orderly => Settled(t, 0))
  BY <1>1, SetupFinds, PlainAnswers
<1>3. EpOK(q) /\ ("abort" \notin Events => Answered(q, 0)) /\ (Orderly => Settled(q, 0))
  BY <1>1, SetupFinds, CompositeAnswers
<1>4. CompOK(comp) /\ owed \subseteq AllFuncs
  BY DEF ControlInv, AnyHost, ControlTypeOK
<1>5. /\ EpOK(Ep0Setup) /\ \A d \in Nat : ("abort" \notin Events => Answered(Ep0Setup, d))
                                           /\ (Orderly => Settled(Ep0Setup, d))
  BY <1>1, SetupFinds, PlainAnswers
<1>6. IsFiniteSet(owed \cup late) /\ Cardinality(owed \cup late) \in Nat /\ owed \cup late \subseteq AllFuncs
  BY <1>4, OwedIs
<1> HIDE DEF t, q
<1>7. CASE Answer(t, {"cdev"}, ok) /\ Quiet
  BY <1>1, <1>2, <1>7, QuietKeeps
<1>8. CASE comp' = ResetConfig(comp) /\ owed' = owed /\ Answer(q, {"cdev"}, ok)
  <2>1. CompOK(comp') /\ comp'.delayed = 0 /\ owed' \subseteq AllFuncs /\ Cardinality(owed') \in Nat
    BY <1>4, <1>8, ConfigsOK, OwedIs
  <2> QED
    BY <1>1, <1>3, <1>8, <2>1, AnswerKeeps
<1>9. CASE comp' = SetAltFailed(c, k) /\ owed' = owed \cup late /\ Answer(t, {"cdev"}, ok)
  <2>1. CompOK(comp') /\ comp'.delayed = 0
    BY <1>9 DEF SetAltFailed, Unconfigured, CompOK
  <2> QED
    BY <1>1, <1>2, <1>6, <1>9, <2>1, AnswerKeeps
<1>10. CASE /\ c \in Configs /\ late \subseteq FuncsOf(c) /\ comp' = Configured(c, late) /\ owed' = owed \cup late
            /\ Answer(IF late = {} THEN q ELSE Ep0Setup, {"cdev"}, ok)
  <2> DEFINE e == IF late = {} THEN q ELSE Ep0Setup
             d == Cardinality(late)
  <2>1. d \in Nat /\ d <= Cardinality(owed \cup late) /\ (late = {} => d = 0)
    BY <1>6, FS_Subset, FS_CardinalityType, FS_EmptySet
  <2>2. comp' = [config |-> c, active |-> FuncsOf(c), delayed |-> d] /\ comp'.delayed = d
    BY <1>10 DEF Configured
  <2> HIDE DEF d
  <2>3. c # 0 /\ FuncsOf(c) \subseteq AllFuncs
    BY <1>10, ControlAssumption DEF AllFuncs
  <2>4. CompOK(comp')
    BY <1>10, <2>1, <2>2, <2>3 DEF CompOK
  <2>5. EpOK(e) /\ ("abort" \notin Events => Answered(e, d)) /\ (Orderly => Settled(e, d))
    BY <1>3, <1>5, <2>1
  <2> HIDE DEF e
  <2>6. Answer(e, {"cdev"}, ok)
    BY <1>10 DEF e
  <2> QED
    BY <1>1, <1>6, <1>10, <2>1, <2>2, <2>4, <2>5, <2>6, AnswerKeeps
<1> QED
  BY <1>7, <1>8, <1>9, <1>10 DEF SetupConfig, t, q

LEMMA InterfaceKeeps ==
  ASSUME ControlInv, NEW res, NEW ok \in BOOLEAN, SetupInterface(res, ok)
  PROVE  ControlInv'
<1> DEFINE f == setup.arg
           t == Stall(Ep0Setup)
           q == CompositeQueue(Ep0Setup, "cdev", 0, ok)
<1>1. Received({"interface"})
  BY DEF SetupInterface
<1>2. EpOK(t) /\ ("abort" \notin Events => Answered(t, 0)) /\ (Orderly => Settled(t, 0))
  BY <1>1, SetupFinds, PlainAnswers
<1>3. EpOK(q) /\ ("abort" \notin Events => Answered(q, 0)) /\ (Orderly => Settled(q, 0))
  BY <1>1, SetupFinds, CompositeAnswers
<1>4. CompOK(comp) /\ owed \subseteq AllFuncs /\ Cardinality(owed) \in Nat
      /\ ("abort" \notin Events => comp.delayed = 0) /\ (Orderly => "abort" \notin Events)
  BY <1>1, SetupFinds, OwedIs DEF ControlInv, AnyHost, ControlTypeOK
<1>5. /\ EpOK(Ep0Setup) /\ \A d \in Nat : ("abort" \notin Events => Answered(Ep0Setup, d))
                                           /\ (Orderly => Settled(Ep0Setup, d))
  BY <1>1, SetupFinds, PlainAnswers
<1> HIDE DEF t, q
<1>6. CASE Answer(t, {"cdev"}, ok) /\ Quiet
  BY <1>1, <1>2, <1>6, QuietKeeps
<1>7. CASE /\ comp' = [comp EXCEPT !.active = @ \ {f}] /\ owed' = owed /\ Answer(t, {"cdev"}, ok)
  <2>1. CompOK(comp') /\ comp'.delayed = comp.delayed
    BY <1>4, <1>7 DEF CompOK
  <2> QED
    BY <1>1, <1>2, <1>4, <1>7, <2>1, AnswerKeeps
<1>8. CASE /\ f \in FuncsOf(comp.config) /\ comp' = [comp EXCEPT !.active = @ \cup {f}, !.delayed = @ + 1]
           /\ owed' = owed \cup {f} /\ Answer(Ep0Setup, {"cdev"}, ok)
  <2>1. comp.config \in Configs /\ f \in AllFuncs
    BY <1>4, <1>8 DEF FuncsOf, CompOK, AllFuncs
  <2>2. CompOK(comp') /\ comp'.delayed \in Nat /\ comp'.delayed = comp.delayed + 1
    <3>1. comp.config # 0
      BY <2>1, ControlAssumption
    <3>2. /\ comp' \in [config : Configs \cup {0}, active : SUBSET AllFuncs, delayed : Nat]
          /\ comp'.config = comp.config /\ comp'.active = comp.active \cup {f}
          /\ comp'.delayed = comp.delayed + 1
      <4> HIDE DEF f
      <4>1. /\ comp \in [config : Configs \cup {0}, active : SUBSET AllFuncs, delayed : Nat]
            /\ comp' = [comp EXCEPT !.active = comp.active \cup {f}, !.delayed = comp.delayed + 1]
        BY <1>4, <1>8 DEF CompOK
      <4> DEFINE a == comp.active \cup {f}
                 n == comp.delayed + 1
      <4>2. a \in SUBSET AllFuncs /\ n \in Nat
        BY <2>1, <4>1
      <4> HIDE DEF a, n
      <4>3. comp' = [comp EXCEPT !.active = a, !.delayed = n]
        BY <4>1 DEF a, n
      <4>4. /\ comp' \in [config : Configs \cup {0}, active : SUBSET AllFuncs, delayed : Nat]
            /\ comp'.config = comp.config /\ comp'.active = a /\ comp'.delayed = n
        BY <4>1, <4>2, <4>3
      <4> QED
        BY <4>4 DEF a, n
    <3> QED
      BY <1>4, <1>8, <3>1, <3>2 DEF CompOK
  <2>3. owed' \subseteq AllFuncs /\ ("abort" \notin Events => comp'.delayed <= Cardinality(owed'))
    <3>1. owed' \subseteq AllFuncs /\ IsFiniteSet(owed') /\ Cardinality(owed') \in Nat
      BY <1>4, <1>8, <2>1, OwedIs
    <3>2. Cardinality(owed') # 0
      BY <1>8, <3>1, FS_EmptySet
    <3> QED
      BY <1>4, <2>2, <3>1, <3>2
  <2> QED
    BY <1>1, <1>5, <1>8, <2>2, <2>3, AnswerKeeps
<1>9. CASE /\ f \in FuncsOf(comp.config) /\ comp' = [comp EXCEPT !.active = @ \cup {f}] /\ owed' = owed
           /\ Answer(q, {"cdev"}, ok)
  <2>1. comp.config \in Configs /\ f \in AllFuncs
    BY <1>4, <1>9 DEF FuncsOf, CompOK, AllFuncs
  <2>2. CompOK(comp') /\ comp'.delayed = comp.delayed
    BY <1>4, <1>9, <2>1 DEF CompOK
  <2> QED
    BY <1>1, <1>3, <1>4, <1>9, <2>2, AnswerKeeps
<1> QED
  BY <1>6, <1>7, <1>8, <1>9 DEF SetupInterface, t, q

-----------------------------------------------------------------------------
(* The other steps of the handler.                                         *)
LEMMA ResetKeeps ==
  ASSUME ControlInv, IrqReset
  PROVE  ControlInv'
<1>1. /\ "se0" \in irq /\ irq' = {} /\ comp' = ResetConfig(comp)
      /\ UNCHANGED <<scen, host, setup, ep0, owed, cls, touched>>
  BY DEF IrqReset
<1>2. AnyHost /\ PatientHost /\ OrderlyHost /\ CompOK(comp) /\ owed \subseteq AllFuncs
  BY DEF ControlInv, AnyHost, ControlTypeOK
<1>3. CompOK(comp') /\ comp'.config = 0 /\ comp'.delayed = 0 /\ Cardinality(owed) \in Nat
  BY <1>1, <1>2, ConfigsOK, OwedIs
<1>4. AnyHost'
  BY <1>1, <1>2, <1>3 DEF AnyHost, ControlTypeOK, CompOK, Events, EpOK
<1>5. PatientHost'
  BY <1>1, <1>2, <1>3 DEF PatientHost, Bits, Events, Dir
<1>6. OrderlyHost'
  <2> SUFFICES ASSUME Orderly PROVE ~touched' /\ (AtRest' \/ \E r \in Reqs : Moving(r)')
    BY <1>1 DEF OrderlyHost, Orderly, Events
  <2>1. CASE AtRest
    BY <1>1, <1>2, <1>3, <2>1 DEF OrderlyHost, AtRest, Bits
  <2>2. ASSUME NEW r \in Reqs, Moving(r) PROVE Moving(r)'
    <3>1. host.at # "wait"
      BY <1>1, <1>2 DEF PatientHost, Orderly
    <3> QED
      BY <1>1, <1>3, <2>2, <3>1 DEF Moving, Events
  <2> QED
    BY <1>1, <1>2, <2>1, <2>2 DEF OrderlyHost
<1> QED
  BY <1>4, <1>5, <1>6 DEF ControlInv

LEMMA DataKeeps ==
  ASSUME ControlInv, NEW ok \in BOOLEAN, IrqData(ok)
  PROVE  ControlInv'
<1>1. /\ irq \cap {"se0", "setup"} = {} /\ IntVal # {} /\ irq' = {} /\ ep0' = Late(ep0, ok)
      /\ UNCHANGED <<scen, host, setup, comp, owed, cls, touched>>
  BY DEF IrqData
<1>2. AnyHost /\ PatientHost /\ OrderlyHost /\ EpOK(ep0) /\ irq \subseteq {"se0", "setup", "in", "out"}
  BY DEF ControlInv, AnyHost, ControlTypeOK
<1>3. EpOK(ep0') /\ \A b : Bits = {b} => ep0' \in {ep0, Process(ep0, ok)}
  BY <1>1, <1>2, LateIs DEF Bits
<1>4. Bits # {}
  BY <1>1, <1>2 DEF Bits, IntVal
<1>5. AnyHost'
  BY <1>1, <1>2, <1>3 DEF AnyHost, ControlTypeOK, Events, EpOK
<1> DEFINE p == Process(ep0, ok)
<1>6. IsProcessed(p, ep0)
  BY <1>2, ProcessIs
<1> HIDE DEF p
<1>7. ASSUME "abort" \notin Events
      PROVE  /\ Bits = {Dir(ep0)} /\ comp.delayed = 0 /\ ~ep0.csh /\ ~ep0.stall /\ ep0.armed = "none"
             /\ ep0' \in {ep0, p}
  BY <1>2, <1>3, <1>4, <1>7 DEF PatientHost, p
<1>b. Bits' = {}
  BY <1>1 DEF Bits
<1>8. PatientHost'
  <2> SUFFICES ASSUME "abort" \notin Events PROVE PatientHost'
    BY <1>1 DEF PatientHost, Events
  <2>1. ep0'.armed # "none" => ep0'.armed = Dir(ep0') /\ ~ep0'.csh
    BY <1>6, <1>7 DEF IsProcessed
  <2> QED
    BY <1>1, <1>2, <1>7, <1>b, <2>1 DEF PatientHost, Events
<1>9. OrderlyHost'
  <2> SUFFICES ASSUME Orderly PROVE ~touched' /\ (AtRest' \/ \E r \in Reqs : Moving(r)')
    BY <1>1 DEF OrderlyHost, Orderly, Events
  <2>1. "abort" \notin Events
    BY DEF Orderly
  <2>2. PICK r \in Reqs : Moving(r)
    BY <1>2, <1>4 DEF OrderlyHost, AtRest
  <2>3. ~touched'
    BY <1>1, <1>2 DEF OrderlyHost
  <2>4. IntVal \cap {"in", "out"} # {}
    BY <1>1, <1>2 DEF IntVal
  <2>5. ep0' = p
    <3>1. Bits = {Dir(ep0)} /\ IntVal \cap {"in", "out"} \subseteq Bits
      BY <1>7, <2>1 DEF IntVal, Bits
    <3>2. ("in" \in IntVal /\ "out" \notin IntVal) \/ ("out" \in IntVal /\ "in" \notin IntVal)
      BY <2>4, <3>1 DEF Dir
    <3> QED
      BY <1>1, <3>2 DEF Late, p
  <2>6. host.at = "wait" => host.got = ep0.act[r] + Packet(ep0, r)
    BY <1>7, <2>1, <2>2 DEF Moving
  <2>7. ep0.queue = <<r>> /\ ep0.len[r] = ep0.ans
    BY <2>2 DEF Moving
  <2>8. CASE ep0.act[r] + Packet(ep0, r) = ep0.len[r]
    <3>1. p.queue = << >> /\ p.armed = "none" /\ p.ans = ep0.ans
      BY <1>6, <1>7, <2>1, <2>7, <2>8 DEF IsProcessed
    <3> QED
      BY <1>1, <1>7, <1>b, <2>1, <2>3, <2>5, <2>6, <2>7, <2>8, <3>1 DEF AtRest
  <2>9. CASE ep0.act[r] + Packet(ep0, r) # ep0.len[r]
    <3>1. /\ p.queue = <<r>> /\ p.len[r] = p.ans /\ p.act[r] = ep0.act[r] + Packet(ep0, r)
          /\ p.armed = Dir(p) /\ p.bc = Packet(p, r) /\ p.pend = ep0.pend /\ ~p.csh /\ ~p.stall
      BY <1>6, <1>7, <2>1, <2>7, <2>9 DEF IsProcessed
    <3>2. Moving(r)'
      BY <1>1, <1>7, <1>b, <2>1, <2>2, <2>5, <2>6, <3>1 DEF Moving, Events
    <3> QED
      BY <2>3, <3>2
  <2> QED
    BY <2>8, <2>9
<1> QED
  BY <1>5, <1>8, <1>9 DEF ControlInv

LEMMA ContinueKeeps ==
  ASSUME ControlInv, NEW f \in AllFuncs, NEW ok \in BOOLEAN, Continue(f, ok)
  PROVE  ControlInv'
<1> DEFINE q == CompositeQueue(ep0, "cdev", 0, ok)
           d == IF comp.delayed = 0 THEN 0 ELSE comp.delayed - 1
<1>1. /\ f \in owed /\ owed' = owed \ {f} /\ ~touched /\ comp' = [comp EXCEPT !.delayed = d]
      /\ IF comp.delayed = 1 THEN ep0' = q /\ touched' = Contains(ep0.queue, "cdev")
         ELSE ep0' = ep0 /\ touched' = touched
      /\ UNCHANGED <<scen, host, setup, irq, cls>>
  BY DEF Continue
<1>2. AnyHost /\ PatientHost /\ OrderlyHost /\ EpOK(ep0) /\ CompOK(comp) /\ owed \subseteq AllFuncs
  BY DEF ControlInv, AnyHost, ControlTypeOK
<1>3. /\ CompOK(comp') /\ comp'.delayed = d /\ comp'.config = comp.config /\ d \in Nat /\ comp.delayed \in Nat
      /\ d = 0 <=> comp.delayed \in {0, 1}
  BY <1>1, <1>2 DEF CompOK
<1>4. EpOK(q)
  BY <1>2, CompositeAnswers
<1> HIDE DEF q, d
<1>5. AnyHost'
  <2>1. EpOK(ep0') /\ touched' \in BOOLEAN
    <3>1. CASE comp.delayed = 1
      BY <1>1, <1>4, <3>1 DEF Contains
    <3>2. CASE comp.delayed # 1
      BY <1>1, <1>2, <3>2 DEF AnyHost, ControlTypeOK
    <3> QED
      BY <3>1, <3>2
  <2>2. ControlTypeOK'
    BY <1>1, <1>2, <1>3, <2>1 DEF AnyHost, ControlTypeOK, CompOK, EpOK
  <2> QED
    BY <1>1, <1>2, <1>3, <2>1, <2>2 DEF AnyHost, Events
<1>6. /\ Cardinality(owed) \in Nat /\ Cardinality(owed') \in Nat
      /\ Cardinality(owed') = Cardinality(owed) - 1
  <2>1. IsFiniteSet(owed) /\ Cardinality(owed) \in Nat /\ Cardinality(owed') \in Nat
    BY <1>1, <1>2, OwedIs
  <2> QED
    BY <1>1, <2>1, FS_RemoveElement
<1>7. ASSUME "abort" \notin Events, comp.delayed = 1
      PROVE  /\ ep0.armed = "none" /\ ~ep0.csh /\ ~ep0.stall /\ host.got = 0 /\ Bits = {} /\ "setup" \notin irq
             /\ ~(host.at \in {"idle", "reset"} \/ (host.at = "off" /\ cls = "bound"))
  BY <1>2, <1>7 DEF PatientHost
<1>b. Bits' = Bits
  BY <1>1 DEF Bits
<1>8. PatientHost'
  <2> SUFFICES ASSUME "abort" \notin Events PROVE PatientHost'
    BY <1>1 DEF PatientHost, Events
  <2>1. d <= Cardinality(owed')
    <3>1. comp.delayed <= Cardinality(owed)
      BY <1>2 DEF PatientHost
    <3> QED
      BY <1>3, <1>6, <3>1 DEF d
  <2>2. CASE comp.delayed = 1
    <3>1. Answered(q, 0)
      BY <1>2, <1>7, <2>2, CompositeAnswers DEF q
    <3>2. d = 0 /\ ep0' = q
      BY <1>1, <2>2 DEF d
    <3>3. q.armed # "none" => q.armed = Dir(q) /\ ~q.csh
      BY <3>1 DEF Answered
    <3>4. comp'.delayed = 0 /\ Bits' = {} /\ irq' = irq /\ host' = host /\ cls' = cls
      BY <1>1, <1>3, <1>7, <1>b, <2>2, <3>2
    <3>5. host.at = "wait" => "se0" \notin irq
      BY <1>2 DEF PatientHost
    <3> QED
      BY <1>3, <1>7, <2>1, <2>2, <3>2, <3>3, <3>4, <3>5 DEF PatientHost
  <2>3. CASE comp.delayed # 1
    <3>1. ep0' = ep0 /\ (d > 0 => comp.delayed > 0) /\ (comp.delayed = 0 => d = 0)
      BY <1>1, <1>3, <2>3 DEF d
    <3> QED
      BY <1>1, <1>2, <1>3, <1>b, <2>1, <3>1 DEF PatientHost, Dir
  <2> QED
    BY <2>2, <2>3
<1>9. OrderlyHost'
  <2> SUFFICES ASSUME Orderly PROVE ~touched' /\ (AtRest' \/ \E r \in Reqs : Moving(r)')
    BY <1>1 DEF OrderlyHost, Orderly, Events
  <2>1. "abort" \notin Events
    BY DEF Orderly
  <2>2. CASE comp.delayed = 1
    <3>1. AtRest
      BY <1>2, <2>2 DEF OrderlyHost, Moving
    <3>2. ep0' = q /\ ~touched' /\ d = 0
      BY <1>1, <1>3, <2>2, <3>1, EmptyHasNone DEF AtRest
    <3>3. q.queue = << >> /\ q.armed = "none" /\ q.ans = 0
      <4> DEFINE p == Queue(ep0, "cdev", 0, ok)
      <4>1. "cdev" \in Reqs
        BY DEF Reqs
      <4>2. /\ EpOK(p) /\ p.ans = 0 /\ p.queue = Unlink(Append(ep0.queue, "cdev"), "cdev")
            /\ p.armed = IF ep0.armed = Dir(ep0) THEN "none" ELSE ep0.armed
        BY <1>2, <4>1, QueueIs DEF IsQueued
      <4>3. q = [p EXCEPT !.pend = p.pend \cup {"cdev"}]
        BY DEF q, CompositeQueue
      <4> HIDE DEF p
      <4>4. q.queue = p.queue /\ q.armed = p.armed /\ q.ans = p.ans
        BY <4>2, <4>3 DEF EpOK, Ep0Type
      <4>5. Append(ep0.queue, "cdev") = <<"cdev">> /\ Unlink(<<"cdev">>, "cdev") = << >>
        BY <3>1, <4>1, UnlinkOne DEF AtRest
      <4> QED
        BY <3>1, <4>2, <4>4, <4>5 DEF AtRest
    <3> QED
      BY <1>1, <1>3, <1>7, <1>b, <2>1, <2>2, <3>1, <3>2, <3>3 DEF AtRest
  <2>3. CASE comp.delayed # 1
    <3>1. ep0' = ep0 /\ ~touched' /\ (d > 0 => comp.delayed > 0) /\ (comp.delayed = 0 => d = 0)
      BY <1>1, <1>3, <2>3 DEF d
    <3>2. CASE AtRest
      BY <1>1, <1>3, <1>b, <3>1, <3>2 DEF AtRest
    <3>3. ASSUME NEW r \in Reqs, Moving(r) PROVE Moving(r)'
      BY <1>1, <1>3, <1>b, <3>1, <3>3 DEF Moving, Events, Dir, Packet
    <3> QED
      BY <1>2, <3>1, <3>2, <3>3 DEF OrderlyHost
  <2> QED
    BY <2>2, <2>3
<1> QED
  BY <1>5, <1>8, <1>9 DEF ControlInv

-----------------------------------------------------------------------------
(* Taking the driver away.                                                 *)
LEMMA PullupOffKeeps ==
  ASSUME ControlInv, DriverPullupOff
  PROVE  ControlInv'
<1>1. /\ "unbind" \in Events /\ cls = "bound" /\ cls' = "off" /\ host' = Gone
      /\ UNCHANGED <<scen, setup, irq, ep0, comp, owed, touched>>
  BY DEF DriverPullupOff
<1>2. AnyHost /\ PatientHost /\ OrderlyHost
  BY DEF ControlInv
<1>3. host'.at = "off" /\ host'.got = 0 /\ host' \in [at : {"off", "reset", "idle", "wait"}, got : Nat]
  BY <1>1 DEF Gone
<1>4. AnyHost'
  BY <1>1, <1>2, <1>3 DEF AnyHost, ControlTypeOK, EpOK, CompOK, Events
<1>b. Bits' = Bits /\ Dir(ep0)' = Dir(ep0)
  BY <1>1 DEF Bits, Dir
<1>5. PatientHost'
  BY <1>1, <1>2, <1>3, <1>b DEF PatientHost, Events
<1>6. OrderlyHost'
  <2> SUFFICES ASSUME Orderly PROVE ~touched' /\ (AtRest' \/ \E r \in Reqs : Moving(r)')
    BY <1>1 DEF OrderlyHost, Orderly, Events
  <2>1. CASE AtRest
    BY <1>1, <1>2, <1>3, <1>b, <2>1 DEF OrderlyHost, AtRest
  <2>2. ASSUME NEW r \in Reqs, Moving(r) PROVE Moving(r)'
    BY <1>1, <1>3, <2>2 DEF Moving, Events
  <2> QED
    BY <1>1, <1>2, <2>1, <2>2 DEF OrderlyHost
<1> QED
  BY <1>4, <1>5, <1>6 DEF ControlInv

LEMMA DisconnectKeeps ==
  ASSUME ControlInv, DisconnectDriver
  PROVE  ControlInv'
<1>1. /\ cls = "off" /\ irq = {} /\ cls' = "gone" /\ comp' = ResetConfig(comp)
      /\ UNCHANGED <<scen, host, setup, irq, ep0, owed, touched>>
  BY DEF DisconnectDriver
<1>2. AnyHost /\ PatientHost /\ OrderlyHost /\ CompOK(comp) /\ owed \subseteq AllFuncs
  BY DEF ControlInv, AnyHost, ControlTypeOK
<1>3. CompOK(comp') /\ comp'.config = 0 /\ comp'.delayed = 0 /\ Cardinality(owed) \in Nat
  BY <1>1, <1>2, ConfigsOK, OwedIs
<1>4. AnyHost'
  BY <1>1, <1>2, <1>3 DEF AnyHost, ControlTypeOK, CompOK, Events, EpOK
<1>b. Bits' = Bits /\ Dir(ep0)' = Dir(ep0)
  BY <1>1 DEF Bits, Dir
<1>5. PatientHost'
  BY <1>1, <1>2, <1>3, <1>b DEF PatientHost, Events
<1>6. OrderlyHost'
  <2> SUFFICES ASSUME Orderly PROVE ~touched' /\ (AtRest' \/ \E r \in Reqs : Moving(r)')
    BY <1>1 DEF OrderlyHost, Orderly, Events
  <2>1. CASE AtRest
    BY <1>1, <1>2, <1>3, <1>b, <2>1 DEF OrderlyHost, AtRest
  <2>2. ASSUME NEW r \in Reqs, Moving(r) PROVE Moving(r)'
    <3>1. host.at = "off"
      BY <1>1, <1>2 DEF AnyHost
    <3> QED
      BY <1>1, <1>3, <2>2, <3>1 DEF Moving, Events
  <2> QED
    BY <1>1, <1>2, <2>1, <2>2 DEF OrderlyHost
<1> QED
  BY <1>4, <1>5, <1>6 DEF ControlInv

(* composite_dev_cleanup leaves nothing of its own on the queue.           *)
LEMMA DequeueIs ==
  ASSUME NEW e, EpOK(e), NEW r \in Reqs
  PROVE  LET d == Dequeue(e, r) IN
         /\ EpOK(d)
         /\ e.armed \in {"none", Dir(e)} /\ (e.armed # "none" => ~e.csh)
              => d.armed \in {"none", Dir(d)} /\ (d.armed # "none" => ~d.csh)
         /\ e.queue = << >> => d = e
         /\ e.queue = <<r>> => d.queue = << >> /\ d.armed = IF e.armed = Dir(e) THEN "none" ELSE e.armed
         /\ \A s \in Reqs : e.queue = <<s>> /\ s # r =>
              d.queue = <<s>> /\ d.pend = e.pend \ {r} /\ d.armed = IF e.armed = Dir(e) THEN "none" ELSE e.armed
<1>1. CASE e.queue = << >>
  BY <1>1 DEF Dequeue
<1>2. CASE e.queue # << >>
  <2> DEFINE d == Done(e, r, TRUE)
  <2>1. Dequeue(e, r) = d
    BY <1>2 DEF Dequeue
  <2>2. /\ EpOK(d) /\ d.queue = Unlink(e.queue, r) /\ d.pend = e.pend \ {r}
        /\ d.armed = IF e.armed = Dir(e) THEN "none" ELSE e.armed
    <3>1. \A ok \in BOOLEAN : LET g == Done(e, r, ok) IN
            /\ EpOK(g) /\ g.queue = Unlink(e.queue, r) /\ g.pend = e.pend \ {r}
            /\ g.armed = IF e.armed = Dir(e) THEN "none" ELSE e.armed
      BY DoneIs DEF IsDone
    <3> QED
      BY <3>1
  <2> HIDE DEF d
  <2>3. e.queue = <<r>> => d.queue = << >>
    BY <2>2, UnlinkOne
  <2>4. ASSUME NEW s \in Reqs, e.queue = <<s>>, s # r PROVE d.queue = <<s>>
    BY <2>2, <2>4, UnlinkOne
  <2>5. e.armed \in {"none", Dir(e)} => d.armed = "none"
    BY <2>2
  <2> QED
    BY <1>2, <2>1, <2>2, <2>3, <2>4, <2>5
<1> QED
  BY <1>1, <1>2

LEMMA CleanupIs ==
  ASSUME NEW e, EpOK(e)
  PROVE  LET c == Cleanup(e) IN
         /\ EpOK(c)
         /\ e.armed \in {"none", Dir(e)} /\ (e.armed # "none" => ~e.csh)
              => c.armed \in {"none", Dir(c)} /\ (c.armed # "none" => ~c.csh)
         /\ e.armed \in {"none", Dir(e)} /\ (e.queue = << >> => e.armed = "none")
            /\ (e.queue = << >> \/ \E r \in e.pend : e.queue = <<r>>)
              => c.queue = << >> /\ c.armed = "none"
<1> DEFINE o == IF "os" \in e.pend THEN Dequeue(e, "os") ELSE e
           c == Cleanup(e)
<1>1. "os" \in Reqs /\ "cdev" \in Reqs /\ e.pend \subseteq {"cdev", "os"}
  BY DEF Reqs, EpOK, Ep0Type
<1>2. c = IF "cdev" \in o.pend THEN Dequeue(o, "cdev") ELSE o
  BY DEF Cleanup
<1>3. /\ EpOK(o)
      /\ e.armed \in {"none", Dir(e)} /\ (e.armed # "none" => ~e.csh)
           => o.armed \in {"none", Dir(o)} /\ (o.armed # "none" => ~o.csh)
      /\ e.queue = << >> => o = e
      /\ e.queue = <<"os">> /\ "os" \in e.pend /\ e.armed \in {"none", Dir(e)} => o.queue = << >> /\ o.armed = "none"
      /\ e.queue = <<"cdev">> /\ "cdev" \in e.pend /\ e.armed \in {"none", Dir(e)}
           => o.queue = <<"cdev">> /\ "cdev" \in o.pend /\ o.armed \in {"none", Dir(o)}
  <2>1. CASE "os" \in e.pend
    <3> DEFINE d == Dequeue(e, "os")
    <3>1. /\ EpOK(d)
          /\ e.armed \in {"none", Dir(e)} /\ (e.armed # "none" => ~e.csh)
               => d.armed \in {"none", Dir(d)} /\ (d.armed # "none" => ~d.csh)
          /\ e.queue = << >> => d = e
          /\ e.queue = <<"os">> => d.queue = << >> /\ d.armed = IF e.armed = Dir(e) THEN "none" ELSE e.armed
          /\ e.queue = <<"cdev">> =>
               d.queue = <<"cdev">> /\ d.pend = e.pend \ {"os"} /\ d.armed = IF e.armed = Dir(e) THEN "none" ELSE e.armed
      BY <1>1, DequeueIs
    <3>2. o = d
      BY <2>1
    <3> HIDE DEF o, d
    <3> QED
      BY <3>1, <3>2
  <2>2. CASE "os" \notin e.pend
    <3>1. o = e
      BY <2>2
    <3> HIDE DEF o
    <3> QED
      BY <2>2, <3>1
  <2> QED
    BY <2>1, <2>2
<1> HIDE DEF o
<1> DEFINE d == Dequeue(o, "cdev")
<1>4. /\ EpOK(d)
      /\ o.armed \in {"none", Dir(o)} /\ (o.armed # "none" => ~o.csh)
           => d.armed \in {"none", Dir(d)} /\ (d.armed # "none" => ~d.csh)
      /\ o.queue = << >> => d = o
      /\ o.queue = <<"cdev">> => d.queue = << >> /\ d.armed = IF o.armed = Dir(o) THEN "none" ELSE o.armed
  BY <1>1, <1>3, DequeueIs
<1> HIDE DEF c, d
<1>5. c = d \/ (c = o /\ "cdev" \notin o.pend)
  BY <1>2 DEF d
<1>6. EpOK(c)
  BY <1>3, <1>4, <1>5
<1>7. e.armed \in {"none", Dir(e)} /\ (e.armed # "none" => ~e.csh)
        => c.armed \in {"none", Dir(c)} /\ (c.armed # "none" => ~c.csh)
  BY <1>3, <1>4, <1>5
<1>8. ASSUME e.armed \in {"none", Dir(e)}, e.queue = << >> => e.armed = "none",
             e.queue = << >> \/ \E r \in e.pend : e.queue = <<r>>
      PROVE  c.queue = << >> /\ c.armed = "none"
  <2>1. CASE e.queue = << >>
    BY <1>3, <1>4, <1>5, <1>8, <2>1
  <2>2. CASE e.queue = <<"os">> /\ "os" \in e.pend
    BY <1>3, <1>4, <1>5, <1>8, <2>2
  <2>3. CASE e.queue = <<"cdev">> /\ "cdev" \in e.pend
    BY <1>3, <1>4, <1>5, <1>8, <2>3
  <2> QED
    BY <1>1, <1>8, <2>1, <2>2, <2>3
<1> QED
  BY <1>6, <1>7, <1>8 DEF c

LEMMA UnbindKeeps ==
  ASSUME ControlInv, DriverUnbind
  PROVE  ControlInv'
<1> DEFINE c == Cleanup(ep0)
<1>1. /\ cls = "gone" /\ cls' = "unbound" /\ ~touched /\ ep0' = [c EXCEPT !.pend = {}]
      /\ touched' = \E r \in {"cdev", "os"} : Contains(c.queue, r)
      /\ comp' = [comp EXCEPT !.active = {}] /\ owed' = {}
      /\ UNCHANGED <<scen, host, setup, irq>>
  BY DEF DriverUnbind
<1>2. AnyHost /\ PatientHost /\ OrderlyHost /\ EpOK(ep0) /\ CompOK(comp) /\ comp.config = 0 /\ comp.delayed = 0
      /\ irq = {} /\ host.at = "off"
  BY <1>1 DEF ControlInv, AnyHost, CompOK
<1>3. /\ EpOK(c)
      /\ ep0.armed \in {"none", Dir(ep0)} /\ (ep0.armed # "none" => ~ep0.csh)
           => c.armed \in {"none", Dir(c)} /\ (c.armed # "none" => ~c.csh)
      /\ ep0.armed \in {"none", Dir(ep0)} /\ (ep0.queue = << >> => ep0.armed = "none")
         /\ (ep0.queue = << >> \/ \E r \in ep0.pend : ep0.queue = <<r>>)
           => c.queue = << >> /\ c.armed = "none"
  BY <1>2, CleanupIs
<1> HIDE DEF c
<1>4. /\ EpOK(ep0') /\ ep0'.queue = c.queue /\ ep0'.armed = c.armed /\ ep0'.csh = c.csh
      /\ Dir(ep0') = Dir(c)
  BY <1>1, <1>3, PendedIs, Zenon
<1>5. CompOK(comp') /\ comp'.config = 0 /\ comp'.delayed = 0
  BY <1>1, <1>2 DEF CompOK
<1>6. AnyHost'
  <2>1. ControlTypeOK'
    BY <1>1, <1>2, <1>4, <1>5 DEF AnyHost, ControlTypeOK, EpOK, CompOK
  <2> QED
    BY <1>1, <1>2, <1>4, <1>5, <2>1 DEF AnyHost, Events
<1>b. Bits' = {}
  BY <1>1, <1>2 DEF Bits
<1>7. PatientHost'
  <2> SUFFICES ASSUME "abort" \notin Events PROVE PatientHost'
    BY <1>1 DEF PatientHost, Events
  <2>1. ep0.armed \in {"none", Dir(ep0)} /\ (ep0.armed # "none" => ~ep0.csh)
    BY <1>2 DEF PatientHost
  <2>2. Cardinality(owed') = 0
    BY <1>1, FS_EmptySet
  <2> QED
    BY <1>1, <1>2, <1>3, <1>4, <1>5, <1>b, <2>1, <2>2 DEF PatientHost
<1>8. OrderlyHost'
  <2> SUFFICES ASSUME Orderly PROVE ~touched' /\ AtRest'
    BY <1>1 DEF OrderlyHost, Orderly, Events
  <2>1. ep0.armed \in {"none", Dir(ep0)} /\ "unbind" \in Events
    BY <1>1, <1>2 DEF PatientHost, Orderly, AnyHost
  <2>2. /\ ep0.queue = << >> => ep0.armed = "none"
        /\ ep0.queue = << >> \/ \E r \in ep0.pend : ep0.queue = <<r>>
    <3>1. CASE AtRest
      BY <3>1 DEF AtRest
    <3>2. ASSUME NEW r \in Reqs, Moving(r) PROVE r \in ep0.pend /\ ep0.queue = <<r>> /\ ep0.queue # << >>
      BY <2>1, <3>2 DEF Moving
    <3> QED
      BY <1>2, <3>1, <3>2 DEF OrderlyHost
  <2>3. c.queue = << >> /\ c.armed = "none"
    BY <1>3, <2>1, <2>2
  <2>4. ~touched'
    BY <1>1, <2>3, EmptyHasNone
  <2> QED
    BY <1>1, <1>2, <1>4, <1>5, <1>b, <2>3, <2>4 DEF AtRest
<1> QED
  BY <1>6, <1>7, <1>8 DEF ControlInv

LEMMA BindKeeps ==
  ASSUME ControlInv, Bind
  PROVE  ControlInv'
<1>1. /\ cls = "unbound" /\ cls' = "bound" /\ ~touched /\ comp' = Unconfigured /\ ep0' = [ep0 EXCEPT !.pend = {}]
      /\ UNCHANGED <<scen, host, setup, irq, owed, touched>>
  BY DEF Bind
<1>2. AnyHost /\ PatientHost /\ OrderlyHost /\ EpOK(ep0) /\ irq = {} /\ host.at = "off" /\ owed \subseteq AllFuncs
  BY <1>1 DEF ControlInv, AnyHost, ControlTypeOK
<1>3. /\ EpOK(ep0') /\ ep0'.queue = ep0.queue /\ ep0'.armed = ep0.armed /\ ep0'.csh = ep0.csh
      /\ Dir(ep0') = Dir(ep0)
  BY <1>1, <1>2, PendedIs
<1>4. CompOK(comp') /\ comp'.delayed = 0 /\ Cardinality(owed) \in Nat
  BY <1>1, <1>2, OwedIs DEF CompOK, Unconfigured
<1>5. AnyHost'
  <2>1. ControlTypeOK'
    BY <1>1, <1>2, <1>3, <1>4 DEF AnyHost, ControlTypeOK, EpOK, CompOK
  <2> QED
    BY <1>1, <1>2, <1>3, <1>4, <2>1 DEF AnyHost, Events
<1>b. Bits' = {}
  BY <1>1, <1>2 DEF Bits
<1>6. PatientHost'
  BY <1>1, <1>2, <1>3, <1>4, <1>b DEF PatientHost, Events
<1>7. OrderlyHost'
  <2> SUFFICES ASSUME Orderly PROVE ~touched' /\ AtRest'
    BY <1>1 DEF OrderlyHost, Orderly, Events
  <2>1. AtRest
    BY <1>1, <1>2 DEF OrderlyHost, Moving
  <2> QED
    BY <1>1, <1>2, <1>3, <1>4, <1>b, <2>1 DEF AtRest
<1> QED
  BY <1>5, <1>6, <1>7 DEF ControlInv

-----------------------------------------------------------------------------
(* The host and the hardware.                                              *)
LEMMA FreshIs ==
  ASSUME EpOK(ep0)
  PROVE  /\ EpOK(Fresh) /\ ~Fresh.csh /\ ~Fresh.stall /\ Fresh.armed = "none" /\ Fresh.ans = 0
         /\ Fresh.queue = ep0.queue
BY DEF EpOK, Ep0Type, Fresh

LEMMA BeginKeeps ==
  ASSUME ControlInv, BusReset \/ \E r \in Requests : SendSetup(r)
  PROVE  ControlInv'
<1>1. /\ MayBegin /\ cls = "bound" /\ ep0' = Fresh /\ UNCHANGED <<scen, comp, owed, cls, touched>>
      /\ \/ /\ host' = [at |-> "reset", got |-> 0] /\ irq' = irq \cup {"se0"} /\ setup' = setup
         \/ /\ host' = [at |-> "wait", got |-> 0] /\ irq' = irq \cup {"setup"} /\ setup' \in Requests
            /\ setup'.kind \in scen[2] /\ host.at # "off" /\ "se0" \notin irq
  BY DEF BusReset, SendSetup, ControlInv, AnyHost
<1>2. AnyHost /\ PatientHost /\ OrderlyHost /\ EpOK(ep0)
  BY DEF ControlInv, AnyHost
<1>3. EpOK(ep0') /\ ~ep0'.csh /\ ~ep0'.stall /\ ep0'.armed = "none" /\ ep0'.ans = 0 /\ ep0'.queue = ep0.queue
  BY <1>1, <1>2, FreshIs
<1>4. /\ host'.at \in {"reset", "wait"} /\ host'.got = 0
      /\ host' \in [at : {"off", "reset", "idle", "wait"}, got : Nat]
  BY <1>1
<1>5. AnyHost'
  <2>1. ControlTypeOK'
    BY <1>1, <1>2, <1>3, <1>4 DEF AnyHost, ControlTypeOK, EpOK
  <2> QED
    BY <1>1, <1>2, <1>3, <2>1 DEF AnyHost, Events
<1>6. ASSUME "abort" \notin Events PROVE comp.delayed = 0 /\ "setup" \notin irq /\ Bits = {}
  BY <1>1, <1>2, <1>6 DEF MayBegin, PatientHost
<1>b. Bits' = Bits
  BY <1>1 DEF Bits
<1>7. PatientHost'
  <2> SUFFICES ASSUME "abort" \notin Events PROVE PatientHost'
    BY <1>1 DEF PatientHost, Events
  <2>1. comp.delayed <= Cardinality(owed)
    BY <1>2 DEF PatientHost
  <2>2. CASE host' = [at |-> "reset", got |-> 0] /\ irq' = irq \cup {"se0"}
    BY <1>1, <1>3, <1>6, <1>b, <2>1, <2>2 DEF PatientHost
  <2>3. CASE host' = [at |-> "wait", got |-> 0] /\ irq' = irq \cup {"setup"} /\ "se0" \notin irq
    BY <1>1, <1>3, <1>6, <1>b, <2>1, <2>3 DEF PatientHost
  <2> QED
    BY <1>1, <2>2, <2>3
<1>8. OrderlyHost'
  <2> SUFFICES ASSUME Orderly PROVE ~touched' /\ AtRest'
    BY <1>1 DEF OrderlyHost, Orderly, Events
  <2>1. AtRest
    BY <1>1, <1>2 DEF OrderlyHost, Moving, MayBegin, Orderly
  <2> QED
    BY <1>1, <1>2, <1>3, <1>4, <1>b, <2>1 DEF AtRest, OrderlyHost
<1> QED
  BY <1>5, <1>7, <1>8 DEF ControlInv

LEMMA LeaveKeeps ==
  ASSUME ControlInv, Unplug \/ StatusStage
  PROVE  ControlInv'
<1>1. /\ UNCHANGED <<scen, setup, irq, ep0, comp, owed, cls, touched>>
      /\ host.at # "off" /\ host'.at \in {"off", "idle"} /\ host'.got = 0
      /\ host' \in [at : {"off", "reset", "idle", "wait"}, got : Nat]
  BY DEF Unplug, StatusStage, Gone
<1>2. AnyHost /\ PatientHost /\ OrderlyHost /\ cls = "bound" /\ comp.delayed \in Nat
  BY <1>1 DEF ControlInv, AnyHost, CompOK
<1>3. ASSUME "abort" \notin Events
      PROVE  comp.delayed = 0 /\ "setup" \notin irq /\ Bits = {} /\ (Orderly => AtRest)
  <2>1. CASE Unplug
    BY <1>2, <1>3, <2>1 DEF Unplug, MayBegin, PatientHost, OrderlyHost, Moving
  <2>2. CASE StatusStage
    BY <1>2, <1>3, <2>2 DEF StatusStage, PatientHost, OrderlyHost, Moving
  <2> QED
    BY <2>1, <2>2
<1>4. AnyHost'
  BY <1>1, <1>2 DEF AnyHost, ControlTypeOK, EpOK, CompOK, Events
<1>b. Bits' = Bits /\ Dir(ep0)' = Dir(ep0)
  BY <1>1 DEF Bits, Dir
<1>5. PatientHost'
  BY <1>1, <1>2, <1>3, <1>b DEF PatientHost, Events
<1>6. OrderlyHost'
  <2> SUFFICES ASSUME Orderly PROVE ~touched' /\ AtRest'
    BY <1>1 DEF OrderlyHost, Orderly, Events
  <2>1. AtRest
    BY <1>3 DEF Orderly
  <2> QED
    BY <1>1, <1>2, <1>b, <2>1 DEF AtRest, OrderlyHost
<1> QED
  BY <1>4, <1>5, <1>6 DEF ControlInv

LEMMA PacketKeeps ==
  ASSUME ControlInv, DataPacket
  PROVE  ControlInv'
<1>1. /\ host.at = "wait" /\ "setup" \notin irq /\ ~ep0.stall /\ ep0.armed \in {"in", "out"}
      /\ host' = [host EXCEPT !.got = host.got + ep0.bc] /\ irq' = irq \cup {ep0.armed}
      /\ ep0' = [ep0 EXCEPT !.armed = "none"]
      /\ UNCHANGED <<scen, setup, comp, owed, cls, touched>>
  BY DEF DataPacket
<1>2. AnyHost /\ PatientHost /\ OrderlyHost /\ EpOK(ep0) /\ ep0 \in Ep0Type
  BY DEF ControlInv, AnyHost, EpOK
<1>3. /\ EpOK(ep0') /\ ep0'.armed = "none" /\ ep0'.in = ep0.in /\ Dir(ep0') = Dir(ep0)
      /\ ep0'.queue = ep0.queue /\ ep0'.len = ep0.len /\ ep0'.act = ep0.act
      /\ ep0'.csh = ep0.csh /\ ep0'.stall = ep0.stall /\ ep0'.pend = ep0.pend /\ ep0'.ans = ep0.ans
      /\ \A r : Packet(ep0', r) = Packet(ep0, r)
  BY <1>1, <1>2 DEF EpOK, Ep0Type, Dir, Packet
<1>4. /\ host'.at = "wait" /\ host'.got = host.got + ep0.bc
      /\ host' \in [at : {"off", "reset", "idle", "wait"}, got : Nat]
  <2>1. ep0.bc \in Nat
    <3>1. MaxPacket \in Nat /\ ep0.bc \in 0..MaxPacket
      BY <1>2, ControlAssumption DEF Ep0Type
    <3> QED
      BY <3>1
  <2> QED
    BY <1>1, <1>2, <2>1 DEF AnyHost, ControlTypeOK
<1>5. AnyHost'
  <2>1. ControlTypeOK'
    BY <1>1, <1>2, <1>3, <1>4 DEF AnyHost, ControlTypeOK, EpOK
  <2> QED
    BY <1>1, <1>2, <1>3, <1>4, <2>1 DEF AnyHost, Events
<1>6. ASSUME "abort" \notin Events
      PROVE  ep0.armed = Dir(ep0) /\ comp.delayed = 0 /\ ~ep0.csh /\ Bits' = {Dir(ep0)}
  <2>1. ep0.armed = Dir(ep0) /\ comp.delayed = 0 /\ ~ep0.csh /\ Bits = {}
    BY <1>1, <1>2, <1>6 DEF PatientHost
  <2> QED
    BY <1>1, <2>1 DEF Bits
<1>7. PatientHost'
  <2> SUFFICES ASSUME "abort" \notin Events PROVE PatientHost'
    BY <1>1 DEF PatientHost, Events
  <2> QED
    BY <1>1, <1>2, <1>3, <1>4, <1>6 DEF PatientHost
<1>8. OrderlyHost'
  <2> SUFFICES ASSUME Orderly PROVE ~touched' /\ (AtRest' \/ \E r \in Reqs : Moving(r)')
    BY <1>1 DEF OrderlyHost, Orderly, Events
  <2>1. "abort" \notin Events
    BY DEF Orderly
  <2>2. PICK r \in Reqs : Moving(r)
    BY <1>1, <1>2 DEF OrderlyHost, AtRest
  <2>3. host.got = ep0.act[r] /\ ep0.bc = Packet(ep0, r)
    BY <1>1, <2>2 DEF Moving
  <2>4. Moving(r)'
    BY <1>1, <1>3, <1>4, <1>6, <2>1, <2>2, <2>3 DEF Moving, Events
  <2> QED
    BY <1>1, <1>2, <2>4 DEF OrderlyHost
<1> QED
  BY <1>5, <1>7, <1>8 DEF ControlInv

LEMMA ControlStep ==
  ASSUME ControlInv, [ControlNext]_controlVars
  PROVE  ControlInv'
<1>1. CASE Irq
  <2>1. ASSUME NEW ok \in BOOLEAN, IrqSetup(ok) PROVE ControlInv'
    BY <2>1, FeatureKeeps, StatusKeeps, ReadKeeps, StallKeeps, FunctionKeeps, ConfigKeeps, InterfaceKeeps
       DEF IrqSetup
  <2> QED
    BY <1>1, <2>1, ResetKeeps, DataKeeps DEF Irq
<1>2. ASSUME NEW f \in AllFuncs, NEW ok \in BOOLEAN, Continue(f, ok) PROVE ControlInv'
  BY <1>2, ContinueKeeps
<1>3. CASE DriverPullupOff \/ DisconnectDriver \/ DriverUnbind \/ Bind
  BY <1>3, PullupOffKeeps, DisconnectKeeps, UnbindKeeps, BindKeeps
<1>4. CASE BusReset \/ Unplug \/ (\E r \in Requests : SendSetup(r)) \/ Wire
  BY <1>4, BeginKeeps, LeaveKeeps, PacketKeeps DEF Wire
<1>5. CASE UNCHANGED controlVars
  <2>1. AnyHost' /\ PatientHost'
    BY <1>5 DEF ControlInv, controlVars, AnyHost, PatientHost, ControlTypeOK, EpOK, CompOK, Events, Bits, Dir
  <2>2. OrderlyHost'
    BY <1>5 DEF ControlInv, controlVars, OrderlyHost, Orderly, AtRest, Moving, Events, Bits, Dir, Packet
  <2> QED
    BY <2>1, <2>2 DEF ControlInv
<1> QED
  BY <1>1, <1>2, <1>3, <1>4, <1>5 DEF ControlNext

(* For every packet size, any requests and configurations and a host that  *)
(* may give up or reset at any moment: functions are set up only for the   *)
(* current configuration and none at the unbind; for a host that waits,    *)
(* delayed statuses are owed by somebody, no request of endpoint 0 is      *)
(* touched while it is queued, and a status stage is acknowledged only     *)
(* after the whole data stage (rts_usb_ep0_irq, rts_ep0_transfer_process,  *)
(* composite_setup, usb_composite_setup_continue, composite_dev_cleanup).  *)
THEOREM ControlExactCorrect ==
  ControlSpec => []ControlExact
<1>1. ControlInit => ControlInv
  BY ControlInitOK
<1>2. ControlInv /\ [ControlNext]_controlVars => ControlInv'
  BY ControlStep
<1>3. ControlInv => ControlExact
  BY ControlInvExact
<1> QED
  BY <1>1, <1>2, <1>3, PTL DEF ControlSpec
=============================================================================
