------------------------------ MODULE RtcProofs ------------------------------
(***************************************************************************)
(* Theorems about RTCs.  The timer queue, for every bound on the counter   *)
(* and every set of alarm times: no timer is forgotten, whatever the       *)
(* driver refuses, and a closed device leaves no update timer behind.      *)
(* The clock of an RTC with an expanded range shows the time, for every    *)
(* range of the hardware, every first second and every time that is set.   *)
(* The events of the device reach its reader, for every length of a        *)
(* minute, every bound and whether the RTC can fail to be read or not.     *)
(***************************************************************************)
EXTENDS RtcCore, RtcTime, RtcDev, SequenceTheorems, TLAPS

-----------------------------------------------------------------------------
(* RtcCore: the timer queue and the alarm. *)

(* The elements of a queue, and a queue in the order of the times ex.      *)
Elements(q) == {q[i] : i \in 1..Len(q)}
IsOrdered(q, ex) ==
  /\ q \in Seq(Timers)
  /\ \A i, j \in 1..Len(q) : q[i] = q[j] => i = j
  /\ \A i, j \in 1..Len(q) : i <= j => ex[q[i]] <= ex[q[j]]

(* There are three timers. *)
LEMMA ShortQueue ==
  ASSUME NEW q, NEW ex, IsOrdered(q, ex)
  PROVE  Len(q) \in 0..3
<1>1. Len(q) \in Nat
  BY LenProperties DEF IsOrdered
<1>2. \A i \in 1..Len(q) : q[i] \in Timers
  BY ElementOfSeq DEF IsOrdered
<1>3. ~(Len(q) > 3)
  <2> SUFFICES ASSUME Len(q) > 3 PROVE FALSE
    OBVIOUS
  <2>1. 1 \in 1..Len(q) /\ 2 \in 1..Len(q) /\ 3 \in 1..Len(q) /\ 4 \in 1..Len(q)
    BY <1>1
  <2>2. q[1] # q[2] /\ q[1] # q[3] /\ q[1] # q[4] /\ q[2] # q[3] /\ q[2] # q[4] /\ q[3] # q[4]
    BY <2>1 DEF IsOrdered
  <2>3. q[1] \in Timers /\ q[2] \in Timers /\ q[3] \in Timers /\ q[4] \in Timers
    BY <1>2, <2>1
  <2> QED
    BY <2>2, <2>3 DEF Timers
<1>4. \A n \in Nat : ~(n > 3) => n \in 0..3
  OBVIOUS
<1> QED
  BY <1>1, <1>3, <1>4

(* In an ordered queue there is a place for every second. *)
LEMMA PlaceExists ==
  ASSUME NEW q, NEW ex \in [Timers -> Nat], IsOrdered(q, ex), NEW e \in Nat
  PROVE  \E p \in 1..(Len(q) + 1) : \A i \in 1..Len(q) : i < p <=> ex[q[i]] <= e
<1>1. Len(q) \in {0, 1, 2, 3}
  BY ShortQueue
<1>2. \A i \in 1..Len(q) : ex[q[i]] \in Nat
  BY LenProperties, ElementOfSeq DEF IsOrdered
<1>3. \A i, j \in 1..Len(q) : i <= j => ex[q[i]] <= ex[q[j]]
  BY DEF IsOrdered
<1> DEFINE P(p) == \A i \in 1..Len(q) : i < p <=> ex[q[i]] <= e
<1>4. CASE Len(q) = 0
  BY <1>4
<1>5. CASE Len(q) = 1
  <2>1. 1 \in 1..Len(q) /\ \A i \in 1..Len(q) : i = 1
    BY <1>5
  <2>2. P(1) \/ P(2)
    BY <2>1
  <2> QED
    BY <1>5, <2>2
<1>6. CASE Len(q) = 2
  <2>1. 1 \in 1..Len(q) /\ 2 \in 1..Len(q) /\ \A i \in 1..Len(q) : i = 1 \/ i = 2
    BY <1>6
  <2>2. P(1) \/ P(2) \/ P(3)
    BY <1>2, <1>3, <2>1
  <2> QED
    BY <1>6, <2>2
<1>7. CASE Len(q) = 3
  <2>1. /\ 1 \in 1..Len(q) /\ 2 \in 1..Len(q) /\ 3 \in 1..Len(q)
        /\ \A i \in 1..Len(q) : i = 1 \/ i = 2 \/ i = 3
    BY <1>7
  <2>2. /\ ex[q[1]] \in Nat /\ ex[q[2]] \in Nat /\ ex[q[3]] \in Nat
        /\ ex[q[1]] <= ex[q[2]] /\ ex[q[2]] <= ex[q[3]]
    BY <1>2, <1>3, <2>1
  <2>3. CASE ex[q[3]] <= e
    <3>1. P(4)
      BY <2>1, <2>2, <2>3
    <3> QED
      BY <1>7, <3>1
  <2>4. CASE ex[q[2]] <= e /\ ~(ex[q[3]] <= e)
    <3>1. P(3)
      BY <2>1, <2>2, <2>4
    <3> QED
      BY <1>7, <3>1
  <2>5. CASE ex[q[1]] <= e /\ ~(ex[q[2]] <= e)
    <3>1. P(2)
      BY <2>1, <2>2, <2>5
    <3> QED
      BY <1>7, <3>1
  <2>6. CASE ~(ex[q[1]] <= e)
    <3>1. P(1)
      BY <2>1, <2>2, <2>6
    <3> QED
      BY <1>7, <3>1
  <2> QED
    BY <2>3, <2>4, <2>5, <2>6
<1> QED
  BY <1>1, <1>4, <1>5, <1>6, <1>7

-----------------------------------------------------------------------------
(* What lies before, at and behind a place among the first n + 1 numbers.  *)
LEMMA Places ==
  ASSUME NEW n \in Nat, NEW p \in 1..(n + 1)
  PROVE  /\ \A i \in 1..(n + 1) : \/ i < p /\ i \in 1..n
                                  \/ i = p
                                  \/ i > p /\ i - 1 \in 1..n /\ ~(i < p) /\ i # p
         /\ \A i \in 1..n : ~(i < p) => /\ i + 1 \in 1..(n + 1) /\ (i + 1) - 1 = i
                                         /\ ~(i + 1 < p) /\ i + 1 # p
         /\ \A i \in 1..n : i \in 1..(n + 1)
  OBVIOUS

(* The same without one of n numbers.                                      *)
LEMMA Others ==
  ASSUME NEW n \in Nat, NEW p \in 1..n
  PROVE  /\ \A i \in 1..(n - 1) : \/ i < p /\ i \in 1..n /\ i # p
                                  \/ ~(i < p) /\ i + 1 \in 1..n /\ i + 1 # p
         /\ \A i \in 1..n : i < p => i \in 1..(n - 1)
         /\ \A i \in 1..n : i > p => /\ i - 1 \in 1..(n - 1) /\ ~(i - 1 < p)
                                      /\ (i - 1) + 1 = i
         /\ \A i, j \in 1..(n - 1) :
              /\ i <= j /\ ~(i < p) => ~(j < p) /\ i + 1 <= j + 1
              /\ i <= j /\ i < p => i <= j + 1
              /\ i + 1 = j + 1 => i = j
              /\ i < p /\ ~(j < p) => i # j + 1
  OBVIOUS

(* Element by element: r is the sequence q with t put in at place p.       *)
WithAt(r, q, p, t) ==
  /\ Len(r) = Len(q) + 1
  /\ \A i \in 1..(Len(q) + 1) :
       r[i] = IF i < p THEN q[i] ELSE IF i = p THEN t ELSE q[i - 1]

(* InsertAt of the community modules puts the element in at that place.    *)
LEMMA InsertAtIs ==
  ASSUME NEW T, NEW q \in Seq(T), NEW p \in 1..(Len(q) + 1), NEW t \in T
  PROVE  SeqX!InsertAt(q, p, t) \in Seq(T) /\ WithAt(SeqX!InsertAt(q, p, t), q, p, t)
<1> DEFINE a == SubSeq(q, 1, p - 1)
           b == SubSeq(q, p, Len(q))
           m == <<t>>
<1>n. Len(q) \in Nat
  BY LenProperties
<1>q. \A j \in 1..Len(q) : q[j] \in T
  BY ElementOfSeq
<1>a. a \in Seq(T) /\ Len(a) = p - 1 /\ \A j \in 1..(p - 1) : a[j] = q[j]
  <2>1. \A j \in 1..(p - 1) : q[j] \in T
    BY <1>n, <1>q
  <2>2. /\ a \in Seq(T)
        /\ Len(a) = IF 1 <= p - 1 THEN (p - 1) - 1 + 1 ELSE 0
        /\ \A j \in 1..((p - 1) - 1 + 1) : a[j] = q[1 + j - 1]
    BY <1>n, <1>q, <2>1, SubSeqProperties
  <2> QED
    BY <1>n, <1>q, <2>2
<1>b. /\ b \in Seq(T) /\ Len(b) = Len(q) - p + 1
      /\ \A j \in 1..(Len(q) - p + 1) : b[j] = q[p + j - 1]
  <2>1. \A j \in p..Len(q) : q[j] \in T
    BY <1>n, <1>q
  <2>2. /\ b \in Seq(T)
        /\ Len(b) = IF p <= Len(q) THEN Len(q) - p + 1 ELSE 0
        /\ \A j \in 1..(Len(q) - p + 1) : b[j] = q[p + j - 1]
    BY <1>n, <1>q, <2>1, SubSeqProperties
  <2> QED
    BY <1>n, <1>q, <2>2
<1>m. m \in Seq(T) /\ Len(m) = 1 /\ m[1] = t
  OBVIOUS
<1>1. SeqX!InsertAt(q, p, t) = (a \o m) \o b
  BY DEF SeqX!InsertAt
<1> HIDE DEF a, b, m
<1> DEFINE am == a \o m
<1>2. /\ am \in Seq(T) /\ Len(am) = Len(a) + Len(m)
      /\ \A j \in 1..(Len(a) + Len(m)) : am[j] = IF j <= Len(a) THEN a[j] ELSE m[j - Len(a)]
  BY <1>a, <1>m, ConcatProperties
<1>3. Len(am) = p /\ (\A j \in 1..(p - 1) : am[j] = q[j]) /\ am[p] = t
  BY <1>n, <1>a, <1>m, <1>2
<1> HIDE DEF am
<1> DEFINE r == am \o b
<1>4. /\ r \in Seq(T) /\ Len(r) = Len(am) + Len(b)
      /\ \A j \in 1..(Len(am) + Len(b)) : r[j] = IF j <= Len(am) THEN am[j] ELSE b[j - Len(am)]
  <2>1. am \in Seq(T) /\ b \in Seq(T)
    BY <1>b, <1>2
  <2> QED
    BY <2>1, ConcatProperties
<1> HIDE DEF r
<1>5. Len(r) = Len(q) + 1 /\ \A j \in 1..(Len(q) + 1) : r[j] = IF j <= p THEN am[j] ELSE b[j - p]
  <2>1. Len(am) = p /\ Len(b) = Len(q) - p + 1 /\ Len(am) + Len(b) = Len(q) + 1
    BY <1>n, <1>b, <1>3
  <2> QED
    BY <1>4, <2>1
<1>6. ASSUME NEW j \in 1..(Len(q) + 1)
      PROVE  r[j] = IF j < p THEN q[j] ELSE IF j = p THEN t ELSE q[j - 1]
  <2>1. CASE j < p
    BY <1>n, <1>3, <1>5, <2>1
  <2>2. CASE j = p
    BY <1>n, <1>3, <1>5, <2>2
  <2>3. CASE j > p
    <3>1. j - p \in 1..(Len(q) - p + 1) /\ p + (j - p) - 1 = j - 1 /\ ~(j <= p)
      BY <1>n, <2>3
    <3>2. r[j] = b[j - p] /\ b[j - p] = q[p + (j - p) - 1]
      BY <1>b, <1>5, <3>1
    <3> QED
      BY <2>3, <3>1, <3>2
  <2> QED
    BY <1>n, <2>1, <2>2, <2>3
<1>7. SeqX!InsertAt(q, p, t) = r
  BY <1>1 DEF r, am
<1>8. r \in Seq(T) /\ WithAt(r, q, p, t)
  BY <1>4, <1>5, <1>6 DEF WithAt
<1> QED
  BY <1>7, <1>8

(* A sequence without its i-th element.                                    *)
LEMMA RemoveAtIs ==
  ASSUME NEW T, NEW q \in Seq(T), NEW i \in 1..Len(q)
  PROVE  LET r == SeqX!RemoveAt(q, i) IN
         /\ r \in Seq(T) /\ Len(r) = Len(q) - 1
         /\ \A j \in 1..(Len(q) - 1) : r[j] = IF j < i THEN q[j] ELSE q[j + 1]
<1> DEFINE a == SubSeq(q, 1, i - 1)
           b == SubSeq(q, i + 1, Len(q))
<1>n. Len(q) \in Nat
  BY LenProperties
<1>q. \A j \in 1..Len(q) : q[j] \in T
  BY ElementOfSeq
<1>a. a \in Seq(T) /\ Len(a) = i - 1 /\ \A j \in 1..(i - 1) : a[j] = q[j]
  <2>1. \A j \in 1..(i - 1) : q[j] \in T
    BY <1>n, <1>q
  <2>2. /\ a \in Seq(T)
        /\ Len(a) = IF 1 <= i - 1 THEN (i - 1) - 1 + 1 ELSE 0
        /\ \A j \in 1..((i - 1) - 1 + 1) : a[j] = q[1 + j - 1]
    BY <1>n, <1>q, <2>1, SubSeqProperties
  <2> QED
    BY <1>n, <1>q, <2>2
<1>b. /\ b \in Seq(T) /\ Len(b) = Len(q) - i
      /\ \A j \in 1..(Len(q) - i) : b[j] = q[i + j]
  <2>1. \A j \in (i + 1)..Len(q) : q[j] \in T
    BY <1>n, <1>q
  <2>2. /\ b \in Seq(T)
        /\ Len(b) = IF i + 1 <= Len(q) THEN Len(q) - (i + 1) + 1 ELSE 0
        /\ \A j \in 1..(Len(q) - (i + 1) + 1) : b[j] = q[(i + 1) + j - 1]
    BY <1>n, <1>q, <2>1, SubSeqProperties
  <2> QED
    BY <1>n, <1>q, <2>2
<1>1. SeqX!RemoveAt(q, i) = a \o b
  BY DEF SeqX!RemoveAt
<1> HIDE DEF a, b
<1>2. /\ a \o b \in Seq(T) /\ Len(a \o b) = Len(a) + Len(b)
      /\ \A j \in 1..(Len(a) + Len(b)) :
           (a \o b)[j] = IF j <= Len(a) THEN a[j] ELSE b[j - Len(a)]
  BY <1>a, <1>b, ConcatProperties
<1>3. Len(a) + Len(b) = Len(q) - 1
  BY <1>a, <1>b, <1>n
<1>4. ASSUME NEW j \in 1..(Len(q) - 1) PROVE (a \o b)[j] = IF j < i THEN q[j] ELSE q[j + 1]
  <2>1. (a \o b)[j] = IF j <= i - 1 THEN a[j] ELSE b[j - (i - 1)]
    BY <1>2, <1>3, <1>a
  <2>2. CASE j < i
    BY <1>n, <1>a, <2>1, <2>2
  <2>3. CASE ~(j < i)
    <3>1. j - (i - 1) \in 1..(Len(q) - i) /\ i + (j - (i - 1)) = j + 1 /\ ~(j <= i - 1)
      BY <1>n, <2>3
    <3>2. b[j - (i - 1)] = q[i + (j - (i - 1))]
      BY <1>b, <3>1
    <3> QED
      BY <2>1, <2>3, <3>1, <3>2
  <2> QED
    BY <2>2, <2>3
<1> QED
  BY <1>1, <1>2, <1>3, <1>4

(* A sequence without its first n elements.                                *)
LEMMA SubSeqIs ==
  ASSUME NEW T, NEW q \in Seq(T), NEW n \in 0..Len(q)
  PROVE  LET r == SubSeq(q, n + 1, Len(q)) IN
         /\ r \in Seq(T) /\ Len(r) = Len(q) - n
         /\ \A j \in 1..(Len(q) - n) : r[j] = q[n + j]
<1>n. Len(q) \in Nat
  BY LenProperties
<1>q. \A j \in 1..Len(q) : q[j] \in T
  BY ElementOfSeq
<1>1. \A j \in (n + 1)..Len(q) : q[j] \in T
  BY <1>n, <1>q
<1> DEFINE b == SubSeq(q, n + 1, Len(q))
<1>2. /\ b \in Seq(T)
      /\ Len(b) = IF n + 1 <= Len(q) THEN Len(q) - (n + 1) + 1 ELSE 0
      /\ \A j \in 1..(Len(q) - (n + 1) + 1) : b[j] = q[(n + 1) + j - 1]
  BY <1>n, <1>q, <1>1, SubSeqProperties
<1> QED
  BY <1>n, <1>q, <1>2

-----------------------------------------------------------------------------
(* timerqueue_add of a timer that is not queued.                           *)
LEMMA OrderedInsert ==
  ASSUME NEW q, NEW ex \in [Timers -> Nat], IsOrdered(q, ex), NEW t \in Timers \ Elements(q),
         NEW p \in 1..(Len(q) + 1), \A i \in 1..Len(q) : i < p <=> ex[q[i]] <= ex[t]
  PROVE  LET r == SeqX!InsertAt(q, p, t) IN
         /\ IsOrdered(r, ex) /\ Elements(r) = Elements(q) \cup {t} /\ r # << >>
         /\ IF \E x \in Elements(q) : ex[x] <= ex[t] THEN q # << >> /\ Head(r) = Head(q)
                                                    ELSE Head(r) = t
<1> DEFINE r == SeqX!InsertAt(q, p, t)
<1>n. q \in Seq(Timers) /\ Len(q) \in Nat
  BY LenProperties DEF IsOrdered
<1>q. \A i \in 1..Len(q) : q[i] \in Timers /\ q[i] # t /\ ex[q[i]] \in Nat
  BY <1>n, ElementOfSeq DEF Elements
<1>1. /\ r \in Seq(Timers) /\ Len(r) = Len(q) + 1
      /\ \A i \in 1..(Len(q) + 1) :
           r[i] = IF i < p THEN q[i] ELSE IF i = p THEN t ELSE q[i - 1]
  <2>1. q \in Seq(Timers) /\ p \in 1..(Len(q) + 1) /\ t \in Timers
    BY <1>n
  <2>2. r \in Seq(Timers) /\ WithAt(r, q, p, t)
    BY <2>1, InsertAtIs, Zenon
  <2> HIDE DEF r
  <2> QED
    BY <2>2 DEF WithAt
<1> HIDE DEF r
<1>c. ASSUME NEW i \in 1..Len(r)
      PROVE  \/ i < p /\ i \in 1..Len(q) /\ r[i] = q[i]
             \/ i = p /\ r[i] = t
             \/ i > p /\ i - 1 \in 1..Len(q) /\ r[i] = q[i - 1]
  <2>1. i \in 1..(Len(q) + 1)
    BY <1>1
  <2>2. \/ i < p /\ i \in 1..Len(q)
        \/ i = p
        \/ i > p /\ i - 1 \in 1..Len(q) /\ ~(i < p) /\ i # p
    <3>1. PICK n \in Nat : n = Len(q)
      BY <1>n
    <3>2. p \in 1..(n + 1) /\ i \in 1..(n + 1)
      BY <2>1, <3>1
    <3> QED
      BY <3>1, <3>2
  <2>3. r[i] = IF i < p THEN q[i] ELSE IF i = p THEN t ELSE q[i - 1]
    BY <1>1, <2>1
  <2>4. i \in Int /\ p \in Int
    BY <1>n, <2>1
  <2> QED
    BY <2>2, <2>3, <2>4
<1>2. ASSUME NEW i \in 1..Len(r), NEW j \in 1..Len(r), r[i] = r[j] PROVE i = j
  <2>1. \A m1, m2 \in 1..Len(q) : q[m1] = q[m2] => m1 = m2
    BY DEF IsOrdered
  <2>2. i \in Nat /\ j \in Nat /\ p \in Nat
    BY <1>n, <1>1
  <2>3. /\ \/ i < p /\ i \in 1..Len(q) /\ r[i] = q[i]
           \/ i = p /\ r[i] = t
           \/ i > p /\ i - 1 \in 1..Len(q) /\ r[i] = q[i - 1]
        /\ \/ j < p /\ j \in 1..Len(q) /\ r[j] = q[j]
           \/ j = p /\ r[j] = t
           \/ j > p /\ j - 1 \in 1..Len(q) /\ r[j] = q[j - 1]
    BY <1>c
  <2>4. \A m1 \in 1..Len(q) : q[m1] # t
    BY <1>q
  <2> QED
    BY <1>2, <2>1, <2>2, <2>3, <2>4
<1>3. ASSUME NEW i \in 1..Len(r), NEW j \in 1..Len(r), i <= j PROVE ex[r[i]] <= ex[r[j]]
  <2>1. \A m1, m2 \in 1..Len(q) : m1 <= m2 => ex[q[m1]] <= ex[q[m2]]
    BY DEF IsOrdered
  <2>2. ex[t] \in Nat /\ i \in Nat /\ j \in Nat /\ p \in Nat
    BY <1>n, <1>1
  <2>3. /\ \/ i < p /\ i \in 1..Len(q) /\ r[i] = q[i]
           \/ i = p /\ r[i] = t
           \/ i > p /\ i - 1 \in 1..Len(q) /\ r[i] = q[i - 1]
        /\ \/ j < p /\ j \in 1..Len(q) /\ r[j] = q[j]
           \/ j = p /\ r[j] = t
           \/ j > p /\ j - 1 \in 1..Len(q) /\ r[j] = q[j - 1]
    BY <1>c
  <2>4. \A m1 \in 1..Len(q) : m1 < p <=> ex[q[m1]] <= ex[t]
    OBVIOUS
  <2>5. \A m1 \in 1..Len(q) : ex[q[m1]] \in Nat
    BY <1>q
  <2>6. CASE i = p
    <3>1. CASE j = p
      BY <2>2, <2>3, <2>6, <3>1
    <3>2. CASE j > p
      <4>1. r[i] = t /\ j - 1 \in 1..Len(q) /\ r[j] = q[j - 1] /\ ~(j - 1 < p)
        BY <2>2, <2>3, <2>6, <3>2
      <4> QED
        BY <2>2, <2>4, <2>5, <4>1
    <3> QED
      BY <1>3, <2>2, <2>6, <3>1, <3>2
  <2>7. CASE i < p
    <3>1. i \in 1..Len(q) /\ r[i] = q[i]
      BY <2>2, <2>3, <2>7
    <3>2. CASE j < p
      BY <1>3, <2>1, <2>2, <2>3, <3>1, <3>2
    <3>3. CASE j = p
      BY <2>2, <2>3, <2>4, <2>7, <3>1, <3>3
    <3>4. CASE j > p
      <4>1. j - 1 \in 1..Len(q) /\ r[j] = q[j - 1] /\ i <= j - 1
        BY <2>2, <2>3, <2>7, <3>4
      <4> QED
        BY <2>1, <3>1, <4>1
    <3> QED
      BY <2>2, <3>2, <3>3, <3>4
  <2>8. CASE i > p
    <3>1. /\ i - 1 \in 1..Len(q) /\ r[i] = q[i - 1] /\ i - 1 <= j - 1
          /\ j - 1 \in 1..Len(q) /\ r[j] = q[j - 1]
      BY <1>3, <2>2, <2>3, <2>8
    <3> QED
      BY <2>1, <3>1
  <2> QED
    BY <2>2, <2>6, <2>7, <2>8
<1>4. Elements(r) = Elements(q) \cup {t}
  <2>1. ASSUME NEW i \in 1..Len(r) PROVE r[i] \in Elements(q) \cup {t}
    BY <1>c DEF Elements
  <2>2. t \in Elements(r)
    <3>1. p \in 1..Len(r) /\ r[p] = t
      BY <1>n, <1>1
    <3> QED
      BY <3>1 DEF Elements
  <2>3. ASSUME NEW i \in 1..Len(q) PROVE q[i] \in Elements(r)
    <3>1. CASE i < p
      <4>1. i \in 1..Len(r) /\ r[i] = q[i]
        BY <1>n, <1>1, <3>1
      <4> QED
        BY <4>1 DEF Elements
    <3>2. CASE ~(i < p)
      <4>1. i + 1 \in 1..(Len(q) + 1) /\ (i + 1) - 1 = i /\ ~(i + 1 < p) /\ i + 1 # p
        BY <1>n, <3>2, Places
      <4>2. r[i + 1] = q[i] /\ i + 1 \in 1..Len(r)
        BY <1>1, <4>1
      <4> QED
        BY <4>2 DEF Elements
    <3> QED
      BY <3>1, <3>2
  <2> QED
    BY <2>1, <2>2, <2>3 DEF Elements
<1>5. r # << >> /\ Head(r) = r[1] /\ (q # << >> => Head(q) = q[1] /\ Len(q) > 0)
  BY <1>n, <1>1, EmptySeq
<1>6. CASE \E x \in Elements(q) : ex[x] <= ex[t]
  <2>1. PICK i \in 1..Len(q) : ex[q[i]] <= ex[t]
    BY <1>6 DEF Elements
  <2>2. 1 < p /\ q # << >>
    BY <1>n, <2>1, EmptySeq
  <2> QED
    BY <1>1, <1>2, <1>3, <1>4, <1>5, <1>6, <1>n, <2>2 DEF IsOrdered, r
<1>7. CASE ~\E x \in Elements(q) : ex[x] <= ex[t]
  <2>1. p = 1
    BY <1>n, <1>q, <1>7 DEF Elements
  <2> QED
    BY <1>1, <1>2, <1>3, <1>4, <1>5, <1>7, <1>n, <2>1 DEF IsOrdered, r
<1> QED
  BY <1>6, <1>7

(* timerqueue_del; the time of the timer that goes may change.             *)
LEMMA OrderedRemove ==
  ASSUME NEW q, NEW ex \in [Timers -> Nat], IsOrdered(q, ex), NEW i \in 1..Len(q),
         NEW ey \in [Timers -> Nat], \A x \in Elements(q) \ {q[i]} : ey[x] = ex[x]
  PROVE  LET r == SeqX!RemoveAt(q, i) IN
         /\ IsOrdered(r, ey) /\ Elements(r) = Elements(q) \ {q[i]}
         /\ q # << >>
         /\ r # << >> => ex[Head(q)] <= ey[Head(r)]
         /\ q[i] # Head(q) => r # << >> /\ Head(r) = Head(q) /\ ey[Head(r)] = ex[Head(q)]
<1> DEFINE r == SeqX!RemoveAt(q, i)
<1>n. q \in Seq(Timers) /\ Len(q) \in Nat
  BY LenProperties DEF IsOrdered
<1>q. \A j \in 1..Len(q) : q[j] \in Timers /\ ex[q[j]] \in Nat
  BY <1>n, ElementOfSeq
<1>u. \A m1, m2 \in 1..Len(q) : q[m1] = q[m2] => m1 = m2
  BY DEF IsOrdered
<1>s. \A m1, m2 \in 1..Len(q) : m1 <= m2 => ex[q[m1]] <= ex[q[m2]]
  BY DEF IsOrdered
<1>1. /\ r \in Seq(Timers) /\ Len(r) = Len(q) - 1
      /\ \A j \in 1..(Len(q) - 1) : r[j] = IF j < i THEN q[j] ELSE q[j + 1]
  BY <1>n, RemoveAtIs
<1> HIDE DEF r
<1>o. /\ \A j \in 1..(Len(q) - 1) : \/ j < i /\ j \in 1..Len(q) /\ j # i
                                    \/ ~(j < i) /\ j + 1 \in 1..Len(q) /\ j + 1 # i
      /\ \A j \in 1..Len(q) : j < i => j \in 1..(Len(q) - 1)
      /\ \A j \in 1..Len(q) : j > i => /\ j - 1 \in 1..(Len(q) - 1) /\ ~(j - 1 < i)
                                        /\ (j - 1) + 1 = j
      /\ \A j, k \in 1..(Len(q) - 1) :
           /\ j <= k /\ ~(j < i) => ~(k < i) /\ j + 1 <= k + 1
           /\ j <= k /\ j < i => j <= k + 1
           /\ j + 1 = k + 1 => j = k
           /\ j < i /\ ~(k < i) => j # k + 1
  BY <1>n, Others
<1>2. ASSUME NEW j \in 1..Len(r)
      PROVE  /\ \/ j < i /\ j \in 1..Len(q) /\ j # i /\ r[j] = q[j] /\ r[j] # q[i]
                \/ ~(j < i) /\ j + 1 \in 1..Len(q) /\ j + 1 # i /\ r[j] = q[j + 1] /\ r[j] # q[i]
             /\ r[j] \in Elements(q) \ {q[i]} /\ ey[r[j]] = ex[r[j]]
  <2>1. j \in 1..(Len(q) - 1)
    BY <1>1
  <2>2. \/ j < i /\ j \in 1..Len(q) /\ j # i /\ r[j] = q[j]
        \/ ~(j < i) /\ j + 1 \in 1..Len(q) /\ j + 1 # i /\ r[j] = q[j + 1]
    BY <1>1, <1>o, <2>1
  <2>3. r[j] # q[i]
    BY <1>u, <2>2
  <2>4. r[j] \in Elements(q) \ {q[i]}
    BY <2>2, <2>3 DEF Elements
  <2> QED
    BY <2>2, <2>3, <2>4
<1>4. IsOrdered(r, ey)
  <2>0. 1..Len(r) = 1..(Len(q) - 1)
    BY <1>1
  <2>1. ASSUME NEW j \in 1..Len(r), NEW k \in 1..Len(r), r[j] = r[k] PROVE j = k
    BY <1>u, <1>o, <1>2, <2>0, <2>1
  <2>2. ASSUME NEW j \in 1..Len(r), NEW k \in 1..Len(r), j <= k PROVE ey[r[j]] <= ey[r[k]]
    <3>1. ey[r[j]] = ex[r[j]] /\ ey[r[k]] = ex[r[k]]
      BY <1>2
    <3>2. CASE k < i
      <4>1. j < i
        BY <1>o, <2>0, <2>2, <3>2
      <4> QED
        BY <1>s, <1>2, <2>2, <3>1, <3>2, <4>1
    <3>3. CASE ~(k < i)
      <4>1. k + 1 \in 1..Len(q) /\ r[k] = q[k + 1]
        BY <1>2, <3>3
      <4>2. CASE j < i
        <5>1. j \in 1..Len(q) /\ r[j] = q[j] /\ j <= k + 1
          BY <1>o, <1>2, <2>0, <2>2, <4>2
        <5> QED
          BY <1>s, <3>1, <4>1, <5>1
      <4>3. CASE ~(j < i)
        <5>1. j + 1 \in 1..Len(q) /\ r[j] = q[j + 1] /\ j + 1 <= k + 1
          BY <1>o, <1>2, <2>0, <2>2, <4>3
        <5> QED
          BY <1>s, <3>1, <4>1, <5>1
      <4> QED
        BY <4>2, <4>3
    <3> QED
      BY <3>2, <3>3
  <2> QED
    BY <1>1, <2>1, <2>2 DEF IsOrdered
<1>5. Elements(r) = Elements(q) \ {q[i]}
  <2>1. ASSUME NEW m \in 1..Len(q), m # i PROVE q[m] \in Elements(r)
    <3>0. 1..Len(r) = 1..(Len(q) - 1)
      BY <1>1
    <3>1. CASE m < i
      <4>1. m \in 1..Len(r) /\ r[m] = q[m]
        BY <1>1, <1>o, <3>0, <3>1
      <4> QED
        BY <4>1 DEF Elements
    <3>2. CASE m > i
      <4>1. m - 1 \in 1..Len(r) /\ r[m - 1] = q[m]
        BY <1>1, <1>o, <3>0, <3>2
      <4> QED
        BY <4>1 DEF Elements
    <3>3. m \in Int /\ i \in Int
      OBVIOUS
    <3> QED
      BY <2>1, <3>1, <3>2, <3>3
  <2>2. ASSUME NEW x \in Elements(r) PROVE x \in Elements(q) \ {q[i]}
    BY <1>2 DEF Elements
  <2>3. ASSUME NEW x \in Elements(q) \ {q[i]} PROVE x \in Elements(r)
    <3>1. PICK m \in 1..Len(q) : x = q[m]
      BY DEF Elements
    <3> QED
      BY <2>1, <3>1
  <2> QED
    BY <2>2, <2>3
<1>6. q # << >> /\ Head(q) = q[1] /\ 1 \in 1..Len(q) /\ (r # << >> => Head(r) = r[1] /\ 1 \in 1..Len(r))
  BY <1>n, <1>1, EmptySeq
<1>7. r # << >> => ex[Head(q)] <= ey[Head(r)]
  <2> HAVE r # << >>
  <2>1. PICK m \in 1..Len(q) : r[1] = q[m]
    BY <1>2, <1>6
  <2> QED
    BY <1>s, <1>2, <1>6, <2>1
<1>8. q[i] # Head(q) => r # << >> /\ Head(r) = Head(q) /\ ey[Head(r)] = ex[Head(q)]
  <2> HAVE q[i] # Head(q)
  <2>0. i # 1 /\ i \in Int /\ 1 <= i /\ i <= Len(q)
    BY <1>n, <1>6
  <2>1. 1 < i /\ Len(r) > 0
    BY <1>n, <1>1, <2>0
  <2>2. r # << >> /\ 1 \in 1..Len(r)
    BY <1>n, <1>1, <2>1, EmptySeq
  <2>3. r[1] = q[1] /\ ey[r[1]] = ex[r[1]]
    BY <1>2, <2>1, <2>2
  <2> QED
    BY <1>6, <2>2, <2>3
<1> QED
  BY <1>4, <1>5, <1>6, <1>7, <1>8 DEF r

(* The first n timers leave the queue.                                     *)
LEMMA OrderedDrop ==
  ASSUME NEW q, NEW ex \in [Timers -> Nat], IsOrdered(q, ex), NEW n \in 0..Len(q),
         NEW ey \in [Timers -> Nat], \A i \in (n + 1)..Len(q) : ey[q[i]] = ex[q[i]]
  PROVE  LET r == SubSeq(q, n + 1, Len(q)) IN
         IsOrdered(r, ey) /\ \A x \in Elements(r) : \E i \in (n + 1)..Len(q) : x = q[i]
<1> DEFINE r == SubSeq(q, n + 1, Len(q))
<1>n. q \in Seq(Timers) /\ Len(q) \in Nat
  BY LenProperties DEF IsOrdered
<1>1. r \in Seq(Timers) /\ Len(r) = Len(q) - n /\ \A j \in 1..(Len(q) - n) : r[j] = q[n + j]
  BY <1>n, SubSeqIs
<1> HIDE DEF r
<1>a. /\ \A j \in 1..(Len(q) - n) : n + j \in (n + 1)..Len(q) /\ n + j \in 1..Len(q)
      /\ \A j, k \in 1..(Len(q) - n) : /\ n + j = n + k => j = k
                                       /\ j <= k => n + j <= n + k
      /\ \A i \in (n + 1)..Len(q) : i - n \in 1..(Len(q) - n) /\ n + (i - n) = i
  BY <1>n
<1>2. \A j \in 1..Len(r) : /\ j \in 1..(Len(q) - n) /\ n + j \in (n + 1)..Len(q)
                           /\ n + j \in 1..Len(q) /\ r[j] = q[n + j]
  BY <1>1, <1>a
<1>3. IsOrdered(r, ey)
  <2>1. ASSUME NEW j \in 1..Len(r), NEW k \in 1..Len(r), r[j] = r[k] PROVE j = k
    <3>1. /\ n + j \in 1..Len(q) /\ n + k \in 1..Len(q)
          /\ q[n + j] = q[n + k]
      BY <1>2, <2>1
    <3>2. n + j = n + k
      BY <3>1 DEF IsOrdered
    <3> QED
      BY <1>2, <1>a, <3>2
  <2>2. ASSUME NEW j \in 1..Len(r), NEW k \in 1..Len(r), j <= k PROVE ey[r[j]] <= ey[r[k]]
    <3>1. n + j <= n + k
      BY <1>2, <1>a, <2>2
    <3>2. ex[q[n + j]] <= ex[q[n + k]]
      BY <1>2, <3>1 DEF IsOrdered
    <3>3. ey[q[n + j]] = ex[q[n + j]] /\ ey[q[n + k]] = ex[q[n + k]]
      BY <1>2
    <3> QED
      BY <1>2, <3>2, <3>3
  <2> QED
    BY <1>1, <2>1, <2>2 DEF IsOrdered
<1>4. ASSUME NEW x \in Elements(r) PROVE \E i \in (n + 1)..Len(q) : x = q[i]
  <2>1. PICK j \in 1..Len(r) : x = r[j]
    BY DEF Elements
  <2>2. x = q[n + j] /\ n + j \in (n + 1)..Len(q)
    BY <1>2, <2>1
  <2> QED
    BY <2>2
<1> QED
  BY <1>3, <1>4 DEF r
-----------------------------------------------------------------------------
(* A device between two steps: its queue is in order; and what Armed says  *)
(* of a device.                                                            *)
Shape == [queue : Seq(Timers), expires : [Timers -> Times], at : Times, en : BOOLEAN,
          work : BOOLEAN, muted : BOOLEAN]
DevOK(d) == d \in Shape /\ IsOrdered(d.queue, d.expires)
Arms(d) ==
  ~Rts /\ d.queue # << >> =>
    \/ d.work \/ flag \/ d.muted
    \/ d.en /\ now < d.at /\ d.at <= FirstOf(d)

LEMMA TimesAreNat ==
  /\ Times \subseteq Nat
  /\ \A ex \in [Timers -> Times] : ex \in [Timers -> Nat]
  /\ 0 \in Times /\ \A i \in 0..MaxTime : i \in Times /\ i + 1 \in Times
BY RtcAssumption DEF Times

LEMMA DevFacts ==
  ASSUME NEW d, DevOK(d)
  PROVE  /\ Queued(d) = Elements(d.queue) /\ Queued(d) \subseteq Timers
         /\ d.expires \in [Timers -> Times] /\ d.expires \in [Timers -> Nat]
         /\ d.queue \in Seq(Timers)
         /\ d.queue # << >> => Head(d.queue) \in Queued(d) /\ FirstOf(d) \in Times
                              /\ \A x \in Queued(d) : FirstOf(d) <= d.expires[x]
<1>1. d.queue \in Seq(Timers) /\ d.expires \in [Timers -> Times]
  BY DEF DevOK, Shape
<1> DEFINE q == d.queue
           ex == d.expires
<1>2. q \in Seq(Timers) /\ ex \in [Timers -> Nat] /\ ex \in [Timers -> Times] /\ IsOrdered(q, ex)
  BY <1>1, TimesAreNat DEF DevOK
<1>3. Queued(d) = Elements(q)
  <2>1. DOMAIN q = 1..Len(q)
    BY <1>2, LenProperties
  <2> QED
    BY <2>1 DEF Queued, Elements, SeqX!ToSet
<1> HIDE DEF q, ex
<1>4. \A i \in 1..Len(q) : q[i] \in Timers
  BY <1>2, ElementOfSeq
<1>5. Elements(q) \subseteq Timers
  BY <1>4 DEF Elements
<1>6. ASSUME q # << >>
      PROVE  /\ Head(q) \in Elements(q) /\ ex[Head(q)] \in Times
             /\ \A x \in Elements(q) : ex[Head(q)] <= ex[x]
  <2>1. Len(q) \in Nat /\ Len(q) # 0
    BY <1>2, <1>6, LenProperties, EmptySeq
  <2>2. 1 \in 1..Len(q) /\ Head(q) = q[1] /\ \A i \in 1..Len(q) : 1 <= i
    BY <1>2, <1>6, <2>1
  <2>3. \A i \in 1..Len(q) : ex[q[1]] <= ex[q[i]]
    BY <1>2, <2>2 DEF IsOrdered
  <2> QED
    BY <1>2, <1>4, <2>2, <2>3 DEF Elements
<1> QED
  BY <1>2, <1>3, <1>5, <1>6 DEF FirstOf, q, ex

(* timerqueue_add.                                                         *)
LEMMA AddIs ==
  ASSUME NEW d, DevOK(d), NEW t \in Timers \ Queued(d)
  PROVE  LET r == Add(d, t) IN
         /\ DevOK(r) /\ r = [d EXCEPT !.queue = r.queue]
         /\ Queued(r) = Queued(d) \cup {t} /\ r.queue # << >>
         /\ IF \E x \in Queued(d) : d.expires[x] <= d.expires[t]
             THEN d.queue # << >> /\ Head(r.queue) = Head(d.queue)
             ELSE Head(r.queue) = t
<1> DEFINE q == d.queue
           ex == d.expires
           p == Place(d, ex[t])
           r == SeqX!InsertAt(q, p, t)
           n == Add(d, t)
<1>1. /\ q \in Seq(Timers) /\ ex \in [Timers -> Nat] /\ IsOrdered(q, ex)
      /\ Queued(d) = Elements(q)
  BY DevFacts DEF DevOK
<1>2. p \in 1..(Len(q) + 1) /\ \A i \in 1..Len(q) : i < p <=> ex[q[i]] <= ex[t]
  <2>1. ex[t] \in Nat
    BY <1>1
  <2>2. \E p1 \in 1..(Len(q) + 1) : \A i \in 1..Len(q) : i < p1 <=> ex[q[i]] <= ex[t]
    BY <1>1, <2>1, PlaceExists
  <2> QED
    BY <2>2 DEF Place
<1>3. n = [d EXCEPT !.queue = r] /\ d \in Shape
  BY DEF Add, DevOK
<1> HIDE DEF n, p
<1> HIDE DEF q, ex
<1>4. /\ IsOrdered(r, ex) /\ Elements(r) = Elements(q) \cup {t} /\ r # << >>
      /\ IF \E x \in Elements(q) : ex[x] <= ex[t] THEN q # << >> /\ Head(r) = Head(q)
                                                 ELSE Head(r) = t
  BY <1>1, <1>2, OrderedInsert
<1>5. r \in Seq(Timers)
  BY <1>4 DEF IsOrdered
<1> HIDE DEF r
<1>6. n.queue = r /\ n.expires = ex /\ n \in Shape
  BY <1>3, <1>5 DEF Shape, ex
<1>7. DevOK(n)
  BY <1>4, <1>6 DEF DevOK
<1>8. Queued(n) = Elements(r)
  BY <1>6, <1>7, DevFacts
<1> QED
  BY <1>1, <1>3, <1>4, <1>6, <1>7, <1>8 DEF n, q, ex

(* The time of a timer that is not queued.                                 *)
LEMMA SetExpiresKeeps ==
  ASSUME NEW d, DevOK(d), Arms(d), NEW t \in Timers \ Queued(d), NEW e \in Times
  PROVE  LET r == SetExpires(d, t, e) IN
         DevOK(r) /\ Arms(r) /\ Queued(r) = Queued(d)
<1> DEFINE r == SetExpires(d, t, e)
           q == d.queue
<1>1. /\ q \in Seq(Timers) /\ d.expires \in [Timers -> Times]
      /\ Queued(d) = Elements(q) /\ (q # << >> => Head(q) \in Queued(d))
  BY DevFacts
<1>2. r.queue = q /\ r.expires = [d.expires EXCEPT ![t] = e] /\ r \in Shape
      /\ r.work = d.work /\ r.muted = d.muted /\ r.en = d.en /\ r.at = d.at
  BY <1>1 DEF DevOK, Shape, SetExpires
<1>3. \A x \in Elements(q) : r.expires[x] = d.expires[x]
  <2>1. \A x \in Elements(q) : x \in Timers /\ x # t
    BY <1>1, DevFacts
  <2> QED
    BY <1>1, <1>2, <2>1
<1>4. \A i \in 1..Len(q) : q[i] \in Elements(q)
  BY DEF Elements
<1>5. IsOrdered(q, r.expires)
  BY <1>3, <1>4 DEF DevOK, IsOrdered
<1> HIDE DEF r
<1>6. DevOK(r)
  BY <1>2, <1>5 DEF DevOK
<1>7. Queued(r) = Queued(d)
  BY <1>2 DEF Queued
<1>8. q # << >> => FirstOf(r) = FirstOf(d)
  BY <1>1, <1>2, <1>3 DEF FirstOf
<1>9. Arms(r)
  BY <1>2, <1>8 DEF Arms
<1> QED
  BY <1>6, <1>7, <1>9 DEF r

(* __rtc_set_alarm changes no timer.                                       *)
LEMMA ProgramIs ==
  ASSUME NEW d, DevOK(d), NEW t \in Times, NEW fails \in BOOLEAN
  PROVE  LET r == Program(d, t, fails) IN
         /\ DevOK(r) /\ Queued(r) = Queued(d) /\ r.queue = d.queue /\ r.expires = d.expires
         /\ r.muted = d.muted /\ (d.work => r.work)
         /\ t <= now => r.work
         /\ ~(t <= now) /\ ~fails => r.at = t /\ (~Rts => r.en)
         /\ ~(t <= now) /\ fails => r = d
<1> DEFINE r == Program(d, t, fails)
<1>1. d \in Shape /\ IsOrdered(d.queue, d.expires)
  BY DEF DevOK
<1>2. CASE t <= now
  <2>1. r = [d EXCEPT !.work = TRUE]
    BY <1>2 DEF Program, Schedule
  <2> HIDE DEF r
  <2>2. r \in Shape /\ r.queue = d.queue /\ r.expires = d.expires /\ r.work /\ r.muted = d.muted
    BY <1>1, <2>1 DEF Shape
  <2> QED
    BY <1>1, <1>2, <2>2 DEF DevOK, Queued, r
<1>3. CASE ~(t <= now) /\ fails
  BY <1>1, <1>3 DEF Program, DevOK
<1>4. CASE ~(t <= now) /\ ~fails
  <2>1. r = [d EXCEPT !.at = t, !.en = @ \/ ~Rts]
    BY <1>4 DEF Program, HwAlarm
  <2> HIDE DEF r
  <2>0. (d.en \/ ~Rts) \in BOOLEAN
    OBVIOUS
  <2>2. /\ r \in Shape /\ r.queue = d.queue /\ r.expires = d.expires /\ r.work = d.work
        /\ r.muted = d.muted /\ r.at = t
    BY <1>1, <2>0, <2>1 DEF Shape
  <2>3. ~Rts => r.en
    BY <1>1, <2>1 DEF Shape
  <2> QED
    BY <1>1, <1>4, <2>2, <2>3 DEF DevOK, Queued, r
<1> QED
  BY <1>2, <1>3, <1>4

(* rtc_timer_enqueue.  A timer that does not become the first one leaves    *)
(* the alarm as it is; one that overtakes all that are still to come finds *)
(* either none that has expired, or one whose expiry has already scheduled *)
(* the work.                                                               *)
LEMMA EnqueueKeeps ==
  ASSUME NEW d, DevOK(d), Arms(d), NEW t \in Timers \ Queued(d), NEW fails \in BOOLEAN,
         now \in Nat
  PROVE  LET r == Enqueue(d, t, fails) IN
         DevOK(r) /\ Arms(r) /\ Queued(r) \subseteq Queued(d) \cup {t}
<1> DEFINE e == d.expires[t]
           q == Add(d, t)
           r == Enqueue(d, t, fails)
<1>e. e \in Times /\ e \in Nat
  BY DevFacts
<1>d. /\ \A x \in Queued(d) : d.expires[x] \in Nat
      /\ d.queue # << >> => Head(d.queue) \in Queued(d) /\ FirstOf(d) \in Nat
                           /\ FirstOf(d) = d.expires[Head(d.queue)]
                           /\ \A x \in Queued(d) : FirstOf(d) <= d.expires[x]
  BY DevFacts, TimesAreNat DEF FirstOf
<1>1. /\ DevOK(q) /\ Queued(q) = Queued(d) \cup {t} /\ q.queue # << >>
      /\ IF \E x \in Queued(d) : d.expires[x] <= e
          THEN d.queue # << >> /\ Head(q.queue) = Head(d.queue)
          ELSE Head(q.queue) = t
  BY AddIs
<1>2. q.expires = d.expires /\ q.at = d.at /\ q.en = d.en /\ q.work = d.work /\ q.muted = d.muted
  BY DEF Add, DevOK, Shape
<1>a. d.at \in Nat
  BY TimesAreNat DEF DevOK, Shape
<1> HIDE DEF q
<1>3. CASE ~IsNext(d, e)
  <2>1. r = q
    BY <1>3 DEF Enqueue, q
  <2>2. PICK x \in Queued(d) : ~(e < d.expires[x])
    BY <1>3 DEF IsNext
  <2>3. d.expires[x] <= e
    BY <1>d, <1>e, <2>2
  <2>4. d.queue # << >> /\ Head(q.queue) = Head(d.queue) /\ FirstOf(q) = FirstOf(d)
    BY <1>1, <1>2, <2>2, <2>3 DEF FirstOf
  <2>5. Arms(q)
    BY <1>2, <2>4 DEF Arms
  <2> QED
    BY <1>1, <2>1, <2>5
<1>4. CASE IsNext(d, e) /\ fails /\ e > now
  BY <1>4 DEF Enqueue
<1>5. CASE IsNext(d, e) /\ ~(fails /\ e > now)
  <2> DEFINE no == FALSE
             m == Program(q, e, no)
  <2>1. r = m
    BY <1>5 DEF Enqueue, q
  <2>n. no \in BOOLEAN /\ ~no
    OBVIOUS
  <2> HIDE DEF no, e
  <2>m. /\ DevOK(m) /\ Queued(m) = Queued(q) /\ m.queue = q.queue /\ m.expires = q.expires
        /\ m.muted = q.muted /\ (q.work => m.work)
        /\ e <= now => m.work
        /\ ~(e <= now) /\ ~no => m.at = e /\ (~Rts => m.en)
    BY <1>1, <1>e, <2>n, ProgramIs
  <2> HIDE DEF m
  <2>2. /\ DevOK(r) /\ Queued(r) = Queued(q) /\ r.queue = q.queue /\ r.expires = q.expires
        /\ r.muted = q.muted /\ (q.work => r.work)
        /\ e <= now => r.work
        /\ ~(e <= now) => r.at = e /\ (~Rts => r.en)
    BY <2>1, <2>n, <2>m
  <2> HIDE DEF r
  <2>3. CASE e <= now
    BY <1>1, <2>2, <2>3 DEF Arms, r
  <2>4. CASE ~(e <= now) /\ \E x \in Queued(d) : d.expires[x] <= e
    <3>1. PICK x \in Queued(d) : d.expires[x] <= e
      BY <2>4
    <3>2. ~(d.expires[x] >= now)
      BY <1>5, <1>d, <1>e, <3>1 DEF IsNext
    <3>3. d.queue # << >> /\ FirstOf(d) < now
      BY <1>1, <1>d, <3>1, <3>2
    <3>4. ~Rts => d.work \/ flag \/ d.muted
      BY <1>a, <1>d, <3>3 DEF Arms
    <3>5. Arms(r)
      BY <1>2, <2>2, <3>4 DEF Arms
    <3> QED
      BY <1>1, <2>2, <3>5 DEF r
  <2>5. CASE ~(e <= now) /\ ~\E x \in Queued(d) : d.expires[x] <= e
    <3>1. FirstOf(r) = e
      BY <1>1, <1>2, <2>2, <2>5 DEF FirstOf, e
    <3>2. Arms(r)
      BY <1>e, <2>2, <2>5, <3>1 DEF Arms
    <3> QED
      BY <1>1, <2>2, <3>2 DEF r
  <2> QED
    BY <2>3, <2>4, <2>5
<1> QED
  BY <1>3, <1>4, <1>5

(* timerqueue_del.                                                         *)
LEMMA DelIs ==
  ASSUME NEW d, DevOK(d), NEW t \in Queued(d)
  PROVE  LET r == Del(d, t) IN
         /\ DevOK(r) /\ Queued(r) = Queued(d) \ {t} /\ d.queue # << >>
         /\ r.at = d.at /\ r.en = d.en /\ r.work = d.work /\ r.muted = d.muted
         /\ r.queue # << >> => FirstOf(d) <= FirstOf(r)
         /\ t # Head(d.queue) => r.queue # << >> /\ FirstOf(r) = FirstOf(d)
<1> DEFINE q == d.queue
           ex == d.expires
           i == CHOOSE j \in 1..Len(q) : q[j] = t
           ey == [x \in Timers |-> IF x \in {t} \ {"aie"} THEN 0 ELSE ex[x]]
           r == SeqX!RemoveAt(q, i)
           n == Del(d, t)
<1>1. /\ q \in Seq(Timers) /\ ex \in [Timers -> Nat] /\ ex \in [Timers -> Times]
      /\ IsOrdered(q, ex) /\ Queued(d) = Elements(q) /\ Queued(d) \subseteq Timers
  BY DevFacts DEF DevOK
<1>2. i \in 1..Len(q) /\ q[i] = t
  <2>1. \E j \in 1..Len(q) : q[j] = t
    BY <1>1 DEF Elements
  <2> QED
    BY <2>1
<1>3. n = [[d EXCEPT !.queue = r] EXCEPT !.expires = ey] /\ d \in Shape
  BY DEF Del, Forget, DevOK, Shape
<1> HIDE DEF n, i, q, ex
<1>4. ey \in [Timers -> Nat] /\ ey \in [Timers -> Times]
  BY <1>1, TimesAreNat
<1>5. \A x \in Elements(q) \ {q[i]} : ey[x] = ex[x]
  BY <1>1, <1>2
<1> HIDE DEF ey
<1>6. /\ IsOrdered(r, ey) /\ Elements(r) = Elements(q) \ {q[i]}
      /\ q # << >>
      /\ r # << >> => ex[Head(q)] <= ey[Head(r)]
      /\ q[i] # Head(q) => r # << >> /\ Head(r) = Head(q) /\ ey[Head(r)] = ex[Head(q)]
  <2>1. ex \in [Timers -> Nat] /\ IsOrdered(q, ex) /\ i \in 1..Len(q) /\ ey \in [Timers -> Nat]
    BY <1>1, <1>2, <1>4
  <2> QED
    BY <1>5, <2>1, OrderedRemove, ZenonT(30)
<1>7. r \in Seq(Timers)
  BY <1>6 DEF IsOrdered
<1> HIDE DEF r
<1>8. /\ n.queue = r /\ n.expires = ey /\ n \in Shape
      /\ n.at = d.at /\ n.en = d.en /\ n.work = d.work /\ n.muted = d.muted
  BY <1>3, <1>4, <1>7 DEF Shape
<1>9. DevOK(n)
  BY <1>6, <1>8 DEF DevOK
<1>10. Queued(n) = Elements(r)
  BY <1>8, <1>9, DevFacts
<1> QED
  BY <1>1, <1>2, <1>6, <1>8, <1>9, <1>10 DEF FirstOf, n, q, ex

(* The first timer of a queue that has changed: on to the next.            *)
LEMMA ReprogramKeeps ==
  ASSUME NEW d, DevOK(d), NEW fails \in BOOLEAN, now \in Nat,
         fails => Arms(d)
  PROVE  LET r == Reprogram(d, fails) IN
         DevOK(r) /\ Arms(r) /\ Queued(r) = Queued(d)
<1> DEFINE r == Reprogram(d, fails)
<1>1. CASE d.queue = << >>
  <2>1. r = [d EXCEPT !.en = FALSE \/ Rts]
    BY <1>1 DEF Reprogram, HwEnable
  <2>2. (FALSE \/ Rts) \in BOOLEAN
    OBVIOUS
  <2> HIDE DEF r
  <2>3. r \in Shape /\ r.queue = d.queue /\ r.expires = d.expires
    BY <2>1, <2>2 DEF DevOK, Shape
  <2> QED
    BY <1>1, <2>3 DEF DevOK, Arms, Queued, r
<1>2. CASE d.queue # << >>
  <2> DEFINE t == FirstOf(d)
  <2>1. r = Program(d, t, fails)
    BY <1>2 DEF Reprogram
  <2>2. t \in Times /\ t \in Nat
    BY <1>2, DevFacts, TimesAreNat
  <2> HIDE DEF t
  <2>3. /\ DevOK(r) /\ Queued(r) = Queued(d) /\ r.queue = d.queue /\ r.expires = d.expires
        /\ t <= now => r.work
        /\ ~(t <= now) /\ ~fails => r.at = t /\ (~Rts => r.en)
        /\ ~(t <= now) /\ fails => r = d
    BY <2>1, <2>2, ProgramIs
  <2> HIDE DEF r
  <2>4. FirstOf(r) = t
    BY <2>3 DEF FirstOf, t
  <2>5. CASE ~(t <= now) /\ fails
    BY <2>3, <2>5 DEF r
  <2>6. CASE ~(t <= now) /\ ~fails
    <3>1. Arms(r)
      BY <2>2, <2>3, <2>4, <2>6 DEF Arms
    <3> QED
      BY <2>3, <3>1 DEF r
  <2>7. CASE t <= now
    <3>1. Arms(r)
      BY <2>3, <2>7 DEF Arms
    <3> QED
      BY <2>3, <3>1 DEF r
  <2> QED
    BY <2>5, <2>6, <2>7
<1> QED
  BY <1>1, <1>2

(* rtc_timer_remove.  When the driver refuses the alarm of the next timer,  *)
(* the old one still comes first.                                          *)
LEMMA RemoveKeeps ==
  ASSUME NEW d, DevOK(d), Arms(d), NEW t \in Queued(d), NEW fails \in BOOLEAN, now \in Nat
  PROVE  LET r == Remove(d, t, fails) IN
         DevOK(r) /\ Arms(r) /\ Queued(r) = Queued(d) \ {t}
<1> DEFINE q == Del(d, t)
<1>1. /\ DevOK(q) /\ Queued(q) = Queued(d) \ {t} /\ d.queue # << >>
      /\ q.at = d.at /\ q.en = d.en /\ q.work = d.work /\ q.muted = d.muted
      /\ q.queue # << >> => FirstOf(d) <= FirstOf(q)
      /\ t # Head(d.queue) => q.queue # << >> /\ FirstOf(q) = FirstOf(d)
  BY DelIs
<1>2. /\ d.at \in Nat /\ FirstOf(d) \in Nat /\ (q.queue # << >> => FirstOf(q) \in Nat)
  BY <1>1, DevFacts, TimesAreNat DEF DevOK, Shape
<1> HIDE DEF q
<1>3. Arms(q)
  BY <1>1, <1>2 DEF Arms
<1>4. /\ DevOK(Reprogram(q, fails)) /\ Arms(Reprogram(q, fails))
      /\ Queued(Reprogram(q, fails)) = Queued(q)
  BY <1>1, <1>3, ReprogramKeeps
<1>5. Remove(d, t, fails) = IF t = Head(d.queue) THEN Reprogram(q, fails) ELSE q
  BY DEF Remove, q
<1> QED
  BY <1>1, <1>3, <1>4, <1>5

LEMMA DropKeeps ==
  ASSUME NEW d, DevOK(d), Arms(d), NEW t, NEW fails \in BOOLEAN, now \in Nat
  PROVE  LET r == Drop(d, t, fails) IN
         DevOK(r) /\ Arms(r) /\ Queued(r) = Queued(d) \ {t}
<1>1. CASE t \in Queued(d)
  <2>1. Drop(d, t, fails) = Remove(d, t, fails)
    BY <1>1 DEF Drop
  <2> QED
    BY <1>1, <2>1, RemoveKeeps
<1>2. CASE t \notin Queued(d)
  BY <1>2 DEF Drop
<1> QED
  BY <1>1, <1>2

(* A timer gets a new time and goes into the queue.                        *)
LEMMA MoveKeeps ==
  ASSUME NEW d, DevOK(d), Arms(d), NEW t \in Timers \ Queued(d), NEW e \in Times,
         NEW fails \in BOOLEAN, now \in Nat
  PROVE  LET r == Enqueue(SetExpires(d, t, e), t, fails) IN
         DevOK(r) /\ Arms(r) /\ Queued(r) \subseteq Queued(d) \cup {t}
<1> DEFINE m == SetExpires(d, t, e)
<1>1. DevOK(m) /\ Arms(m) /\ Queued(m) = Queued(d)
  BY SetExpiresKeeps
<1> HIDE DEF m
<1>2. /\ DevOK(Enqueue(m, t, fails)) /\ Arms(Enqueue(m, t, fails))
      /\ Queued(Enqueue(m, t, fails)) \subseteq Queued(m) \cup {t}
  BY <1>1, EnqueueKeeps
<1> QED
  BY <1>1, <1>2 DEF m

(* rtc_update_irq_enable.                                                  *)
LEMMA UpdateKeeps ==
  ASSUME NEW d, DevOK(d), Arms(d), NEW on \in BOOLEAN, NEW fails \in BOOLEAN, now \in 0..MaxTime
  PROVE  LET r == UpdateIrqEnable(d, on, fails) IN
         DevOK(r) /\ Arms(r) /\ (~on => "uie" \notin Queued(r))
<1> DEFINE r == UpdateIrqEnable(d, on, fails)
<1>0. now \in Nat /\ now + 1 \in Times /\ "uie" \in Timers
  BY RtcAssumption, TimesAreNat DEF Timers
<1>1. CASE ("uie" \in Queued(d)) = on
  <2>1. r = d
    BY <1>1 DEF UpdateIrqEnable
  <2>2. ~on => "uie" \notin Queued(d)
    BY <1>1
  <2> QED
    BY <2>1, <2>2
<1>2. CASE ("uie" \in Queued(d)) # on /\ on
  <2>1. r = Enqueue(SetExpires(d, "uie", now + 1), "uie", fails)
    BY <1>2 DEF UpdateIrqEnable
  <2>2. "uie" \in Timers \ Queued(d)
    BY <1>0, <1>2
  <2>3. PICK e \in Times : e = now + 1
    BY <1>0
  <2>4. r = Enqueue(SetExpires(d, "uie", e), "uie", fails)
    BY <2>1, <2>3
  <2> HIDE DEF r
  <2>5. DevOK(r) /\ Arms(r)
    BY <1>0, <2>2, <2>4, MoveKeeps
  <2> QED
    BY <1>2, <2>5 DEF r
<1>3. CASE ("uie" \in Queued(d)) # on /\ ~on
  <2>1. r = Remove(d, "uie", fails)
    BY <1>3 DEF UpdateIrqEnable
  <2>2. "uie" \in Queued(d)
    BY <1>3
  <2> HIDE DEF r
  <2>3. DevOK(r) /\ Arms(r) /\ Queued(r) = Queued(d) \ {"uie"}
    BY <1>0, <2>1, <2>2, RemoveKeeps
  <2> QED
    BY <2>3 DEF r
<1> QED
  BY <1>1, <1>2, <1>3

(* rtc_alarm_irq_enable turns the interrupt of the hardware on or off at   *)
(* its end.                                                                *)
LEMMA HwEnableKeeps ==
  ASSUME NEW d, DevOK(d), Arms(d), NEW on \in BOOLEAN
  PROVE  LET r == [HwEnable(d, on) EXCEPT !.muted = @ \/ (~on /\ d.queue # << >>)] IN
         DevOK(r) /\ Arms(r) /\ Queued(r) = Queued(d)
<1> DEFINE mu == d.muted \/ (~on /\ d.queue # << >>)
           en == on \/ Rts
           r == [HwEnable(d, on) EXCEPT !.muted = @ \/ (~on /\ d.queue # << >>)]
<1>1. r = [[d EXCEPT !.en = en] EXCEPT !.muted = mu]
  BY DEF HwEnable, DevOK, Shape
<1>2. mu \in BOOLEAN /\ en \in BOOLEAN
  OBVIOUS
<1>3. (on => en) /\ (d.muted => mu) /\ (~on /\ d.queue # << >> => mu)
  OBVIOUS
<1> HIDE DEF mu, en, r
<1>4. /\ r \in Shape /\ r.queue = d.queue /\ r.expires = d.expires /\ r.at = d.at
      /\ r.work = d.work /\ r.muted = mu /\ r.en = en
  BY <1>1, <1>2 DEF DevOK, Shape
<1>5. r.queue # << >> => FirstOf(r) = FirstOf(d)
  BY <1>4 DEF FirstOf
<1>6. Arms(r)
  BY <1>3, <1>4, <1>5 DEF Arms
<1> QED
  BY <1>4, <1>6 DEF DevOK, Queued, r

(* The first n timers leave the queue, and with them what they were.       *)
LEMMA DelFirstIs ==
  ASSUME NEW d, DevOK(d), NEW n \in 0..Len(d.queue)
  PROVE  LET r == DelFirst(d, n) IN
         /\ DevOK(r) /\ Queued(r) \subseteq Queued(d)
         /\ FirstOnes(d, n) \subseteq Queued(d)
         /\ \A x \in FirstOnes(d, n) : x \notin Queued(r)
<1> DEFINE q == d.queue
           ex == d.expires
           gone == FirstOnes(d, n)
           ey == [x \in Timers |-> IF x \in gone \ {"aie"} THEN 0 ELSE ex[x]]
           r == SubSeq(q, n + 1, Len(q))
           m == DelFirst(d, n)
<1>1. /\ q \in Seq(Timers) /\ ex \in [Timers -> Nat] /\ ex \in [Timers -> Times]
      /\ IsOrdered(q, ex) /\ Queued(d) = Elements(q) /\ Queued(d) \subseteq Timers
  BY DevFacts DEF DevOK
<1>2. m = [[d EXCEPT !.queue = r] EXCEPT !.expires = ey] /\ d \in Shape
  BY DEF DelFirst, Forget, DevOK, Shape
<1>3. gone = {q[i] : i \in 1..n}
  BY DEF FirstOnes
<1> HIDE DEF m, gone, q, ex
<1>n. n \in 0..Len(q) /\ Len(q) \in Nat
  BY <1>1, LenProperties DEF q
<1>4. /\ \A i \in 1..n : i \in 1..Len(q)
      /\ \A i \in (n + 1)..Len(q) : i \in 1..Len(q) /\ i \notin 1..n
  BY <1>n
<1>5. ey \in [Timers -> Nat] /\ ey \in [Timers -> Times]
  BY <1>1, TimesAreNat
<1>6. gone \subseteq Elements(q) /\ \A i \in (n + 1)..Len(q) : q[i] \notin gone
  <2>1. gone \subseteq Elements(q)
    BY <1>3, <1>4 DEF Elements
  <2>2. ASSUME NEW i \in (n + 1)..Len(q), q[i] \in gone PROVE FALSE
    <3>1. PICK j \in 1..n : q[i] = q[j]
      BY <1>3, <2>2
    <3>2. i = j
      BY <1>1, <1>4, <3>1 DEF IsOrdered
    <3> QED
      BY <1>4, <3>2
  <2> QED
    BY <2>1, <2>2
<1>7. \A i \in (n + 1)..Len(q) : q[i] \in Timers /\ q[i] \in Elements(q)
  BY <1>1, <1>4 DEF Elements
<1>8. \A i \in (n + 1)..Len(q) : ey[q[i]] = ex[q[i]]
  BY <1>6, <1>7
<1> HIDE DEF ey
<1>9. IsOrdered(r, ey) /\ \A x \in Elements(r) : \E i \in (n + 1)..Len(q) : x = q[i]
  <2>1. ex \in [Timers -> Nat] /\ IsOrdered(q, ex) /\ n \in 0..Len(q) /\ ey \in [Timers -> Nat]
    BY <1>1, <1>n, <1>5
  <2> QED
    BY <1>8, <2>1, OrderedDrop
<1>10. r \in Seq(Timers)
  BY <1>9 DEF IsOrdered
<1> HIDE DEF r
<1>11. m.queue = r /\ m.expires = ey /\ m \in Shape
  BY <1>2, <1>5, <1>10 DEF Shape
<1>12. DevOK(m)
  BY <1>9, <1>11 DEF DevOK
<1>13. Queued(m) = Elements(r)
  BY <1>11, <1>12, DevFacts
<1>14. Elements(r) \subseteq Elements(q) /\ \A x \in gone : x \notin Elements(r)
  BY <1>6, <1>7, <1>9
<1> QED
  BY <1>1, <1>6, <1>12, <1>13, <1>14 DEF m, gone

(* The update timer goes in again.                                         *)
LEMMA AgainKeeps ==
  ASSUME NEW d, DevOK(d), NEW gone, \A x \in gone : x \notin Queued(d), now \in 0..MaxTime
  PROVE  LET r == Again(d, gone) IN
         DevOK(r) /\ (Queued(r) \subseteq Queued(d) \/ "uie" \in gone)
<1>1. CASE "uie" \in gone
  <2>1. "uie" \in Timers \ Queued(d)
    BY <1>1 DEF Timers
  <2>2. PICK e \in Times : e = now + 1
    BY TimesAreNat
  <2> DEFINE m == SetExpires(d, "uie", e)
  <2>3. Again(d, gone) = Add(m, "uie")
    BY <1>1, <2>2 DEF Again
  <2>4. DevOK(m) /\ Queued(m) = Queued(d)
    <3>1. /\ d.queue \in Seq(Timers) /\ d.expires \in [Timers -> Times]
          /\ Queued(d) = Elements(d.queue) /\ Queued(d) \subseteq Timers
      BY DevFacts
    <3>2. m.queue = d.queue /\ m.expires = [d.expires EXCEPT !["uie"] = e] /\ m \in Shape
      BY <2>1, <3>1 DEF DevOK, Shape, SetExpires
    <3>3. \A i \in 1..Len(d.queue) : d.queue[i] \in Queued(d)
      BY <3>1 DEF Elements
    <3>4. \A i \in 1..Len(d.queue) : m.expires[d.queue[i]] = d.expires[d.queue[i]]
      BY <2>1, <3>1, <3>2, <3>3
    <3>5. IsOrdered(d.queue, m.expires)
      BY <3>4 DEF DevOK, IsOrdered
    <3> HIDE DEF m
    <3> QED
      BY <3>2, <3>5 DEF DevOK, Queued
  <2> HIDE DEF m
  <2>5. DevOK(Add(m, "uie"))
    BY <2>1, <2>4, AddIs
  <2> QED
    BY <1>1, <2>3, <2>5
<1>2. CASE "uie" \notin gone
  BY <1>2 DEF Again
<1> QED
  BY <1>1, <1>2

(* rtc_timer_do_work, whatever the driver refuses.                         *)
LEMMA DoWorkKeeps ==
  ASSUME DevOK(dev), now \in 0..MaxTime, DoWork
  PROVE  /\ DevOK(dev') /\ Arms(dev')
         /\ "uie" \in Queued(dev') => "uie" \in Queued(dev)
<1>0. now \in Nat /\ now \in Times
  BY RtcAssumption, TimesAreNat
<1> DEFINE n == Expired(dev)
           gone == FirstOnes(dev, n)
           a == DelFirst(dev, n)
           b == Again(a, gone)
           d == [b EXCEPT !.work = FALSE, !.muted = FALSE]
<1>1. n \in 0..Len(dev.queue)
  <2> DEFINE q == dev.queue
             ex == dev.expires
  <2>1. q \in Seq(Timers) /\ ex \in [Timers -> Nat] /\ IsOrdered(q, ex)
    BY DevFacts DEF DevOK
  <2>2. Len(q) \in Nat
    BY <2>1, LenProperties
  <2>3. Place(dev, now) \in 1..(Len(q) + 1)
    <3>1. \E p \in 1..(Len(q) + 1) : \A i \in 1..Len(q) : i < p <=> ex[q[i]] <= now
      BY <1>0, <2>1, PlaceExists
    <3> QED
      BY <3>1 DEF Place
  <2> HIDE DEF q
  <2>4. Place(dev, now) - 1 \in 0..Len(q)
    BY <2>2, <2>3
  <2> QED
    BY <2>4 DEF Expired, q
<1> HIDE DEF n
<1>2. /\ DevOK(a) /\ Queued(a) \subseteq Queued(dev) /\ gone \subseteq Queued(dev)
      /\ \A x \in gone : x \notin Queued(a)
  BY <1>1, DelFirstIs
<1> HIDE DEF a, gone
<1>3. DevOK(b) /\ (Queued(b) \subseteq Queued(a) \/ "uie" \in gone)
  BY <1>2, AgainKeeps
<1> HIDE DEF b
<1>4. DevOK(d) /\ Queued(d) = Queued(b)
  BY <1>3 DEF DevOK, Shape, Queued
<1>5. \E k \in IF Rts THEN {0} ELSE 0..Len(d.queue) : dev' = Reprogram(DelFirst(d, k), FALSE)
  BY DEF DoWork, n, a, b, gone
<1> HIDE DEF d
<1>6. Len(d.queue) \in Nat
  BY <1>4, DevFacts, LenProperties
<1>7. PICK k \in 0..Len(d.queue) : dev' = Reprogram(DelFirst(d, k), FALSE)
  <2>1. PICK k \in IF Rts THEN {0} ELSE 0..Len(d.queue) : dev' = Reprogram(DelFirst(d, k), FALSE)
    BY <1>5
  <2>2. k \in 0..Len(d.queue)
    BY <1>6
  <2> QED
    BY <2>1, <2>2
<1> DEFINE c == DelFirst(d, k)
           no == FALSE
<1>8. DevOK(c) /\ Queued(c) \subseteq Queued(d)
  BY <1>4, DelFirstIs
<1>9. no \in BOOLEAN /\ ~no /\ dev' = Reprogram(c, no)
  BY <1>7
<1> HIDE DEF c, no
<1>10. /\ DevOK(Reprogram(c, no)) /\ Arms(Reprogram(c, no))
       /\ Queued(Reprogram(c, no)) = Queued(c)
  BY <1>0, <1>8, <1>9, ReprogramKeeps
<1>11. "uie" \in Queued(c) => "uie" \in Queued(dev)
  BY <1>2, <1>3, <1>4, <1>8
<1> QED
  BY <1>9, <1>10, <1>11

(* The invariant: the queue is in order, which makes its head the timer    *)
(* the alarm must not miss; a device that is closed while rtc_set_time     *)
(* will turn the update timer on again has been closed under it.           *)
Steps == {"idle", "uieoff", "set", "set_uie", "uieon"}
SmallOK ==
  /\ now \in 0..MaxTime /\ flag \in BOOLEAN /\ opened \in BOOLEAN
  /\ setPc \in Steps /\ sets \in 0..MaxSets /\ raced \in BOOLEAN
ClosedUnder == ~opened /\ setPc \in {"uieoff", "set_uie", "uieon"} => raced
RtcInv == SmallOK /\ DevOK(dev) /\ Arms(dev) /\ ClosedIsQuiet /\ ClosedUnder

(* What a step does to the device when the clock and the interrupt stand.  *)
Kept == DevOK(dev') /\ Arms(dev') /\ ("uie" \in Queued(dev') => "uie" \in Queued(dev))

LEMMA SetAlarmKeeps ==
  ASSUME DevOK(dev), Arms(dev), now \in Nat, NEW fails \in BOOLEAN, NEW e \in AlarmTimes,
         SetAlarm(e, TRUE, fails) \/ SetAlarm(e, FALSE, fails)
  PROVE  Kept
<1> DEFINE a == Drop(dev, "aie", fails)
           d == SetExpires(a, "aie", e)
           q == Enqueue(d, "aie", fails)
<1>1. DevOK(a) /\ Arms(a) /\ Queued(a) = Queued(dev) \ {"aie"}
  BY DropKeeps
<1>2. e \in Times /\ "aie" \in Timers
  BY RtcAssumption DEF Timers
<1>3. dev' = q \/ dev' = d
  BY DEF SetAlarm
<1> HIDE DEF a
<1>4. DevOK(d) /\ Arms(d) /\ Queued(d) = Queued(a)
  BY <1>1, <1>2, SetExpiresKeeps
<1> HIDE DEF d
<1>5. DevOK(q) /\ Arms(q) /\ Queued(q) \subseteq Queued(d) \cup {"aie"}
  BY <1>1, <1>2, <1>4, EnqueueKeeps
<1> HIDE DEF q
<1> QED
  BY <1>1, <1>3, <1>4, <1>5 DEF Kept

LEMMA TimerStartKeeps ==
  ASSUME DevOK(dev), Arms(dev), now \in Nat, NEW fails \in BOOLEAN, NEW e \in KernTimes,
         TimerStart(e, fails)
  PROVE  Kept
<1> DEFINE a == Drop(dev, "kern", fails)
           q == Enqueue(SetExpires(a, "kern", e), "kern", fails)
<1>1. DevOK(a) /\ Arms(a) /\ Queued(a) = Queued(dev) \ {"kern"}
  BY DropKeeps
<1>2. e \in Times /\ "kern" \in Timers
  BY RtcAssumption DEF Timers
<1>3. dev' = q
  BY DEF TimerStart
<1> HIDE DEF a
<1>4. DevOK(q) /\ Arms(q) /\ Queued(q) \subseteq Queued(a) \cup {"kern"}
  BY <1>1, <1>2, MoveKeeps
<1> HIDE DEF q
<1> QED
  BY <1>1, <1>3, <1>4 DEF Kept

LEMMA TimerCancelKeeps ==
  ASSUME DevOK(dev), Arms(dev), now \in Nat, NEW fails \in BOOLEAN, TimerCancel(fails)
  PROVE  Kept
<1> DEFINE a == Remove(dev, "kern", fails)
<1>1. dev' = a /\ "kern" \in Queued(dev)
  BY DEF TimerCancel
<1>2. DevOK(a) /\ Arms(a) /\ Queued(a) = Queued(dev) \ {"kern"}
  BY <1>1, RemoveKeeps
<1> HIDE DEF a
<1> QED
  BY <1>1, <1>2 DEF Kept

LEMMA AlarmIrqKeeps ==
  ASSUME DevOK(dev), Arms(dev), now \in Nat, NEW fails \in BOOLEAN, NEW on \in BOOLEAN,
         AlarmIrqEnable(on, fails)
  PROVE  Kept
<1> DEFINE d == IF ("aie" \in Queued(dev)) = on THEN dev
                ELSE IF on THEN Enqueue(dev, "aie", fails)
                ELSE Remove(dev, "aie", fails)
           h == [HwEnable(d, on) EXCEPT !.muted = @ \/ (~on /\ d.queue # << >>)]
<1>1. dev' = d \/ dev' = h
  BY DEF AlarmIrqEnable
<1>2. DevOK(d) /\ Arms(d) /\ ("uie" \in Queued(d) => "uie" \in Queued(dev))
  <2>1. CASE ("aie" \in Queued(dev)) = on
    BY <2>1
  <2>2. CASE ("aie" \in Queued(dev)) # on /\ on
    <3>1. d = Enqueue(dev, "aie", fails) /\ "aie" \in Timers \ Queued(dev)
      BY <2>2 DEF Timers
    <3> HIDE DEF d
    <3>2. DevOK(d) /\ Arms(d) /\ Queued(d) \subseteq Queued(dev) \cup {"aie"}
      BY <3>1, EnqueueKeeps
    <3> QED
      BY <3>2
  <2>3. CASE ("aie" \in Queued(dev)) # on /\ ~on
    <3>1. d = Remove(dev, "aie", fails) /\ "aie" \in Queued(dev)
      BY <2>3
    <3> HIDE DEF d
    <3>2. DevOK(d) /\ Arms(d) /\ Queued(d) = Queued(dev) \ {"aie"}
      BY <3>1, RemoveKeeps
    <3> QED
      BY <3>2
  <2> QED
    BY <2>1, <2>2, <2>3
<1> HIDE DEF d
<1>3. DevOK(h) /\ Arms(h) /\ Queued(h) = Queued(d)
  BY <1>2, HwEnableKeeps
<1> HIDE DEF h
<1> QED
  BY <1>1, <1>2, <1>3 DEF Kept

LEMMA ScheduleKeeps ==
  ASSUME DevOK(dev), dev' = Schedule(dev)
  PROVE  DevOK(dev') /\ Arms(dev)' /\ Queued(dev') = Queued(dev)
<1>1. /\ dev' \in Shape /\ dev'.queue = dev.queue /\ dev'.expires = dev.expires /\ dev'.work
  BY DEF DevOK, Shape, Schedule
<1> QED
  BY <1>1 DEF DevOK, Arms, Queued

LEMMA StandingClock ==
  ASSUME Arms(dev'), now' = now, flag' = flag
  PROVE  Arms(dev)'
BY DEF Arms, FirstOf

LEMMA RestKeeps ==
  ASSUME RtcInv, Kept, UNCHANGED rest
  PROVE  RtcInv'
<1>1. /\ now' = now /\ flag' = flag /\ opened' = opened /\ setPc' = setPc /\ sets' = sets
      /\ raced' = raced
  BY DEF rest
<1>2. SmallOK'
  BY <1>1 DEF RtcInv, SmallOK
<1>3. DevOK(dev)' /\ Arms(dev)'
  BY <1>1, StandingClock DEF Kept
<1>4. ClosedIsQuiet' /\ ClosedUnder'
  BY <1>1 DEF RtcInv, Kept, ClosedIsQuiet, ClosedUnder
<1> QED
  BY <1>2, <1>3, <1>4 DEF RtcInv

LEMMA RtcInitOK == RtcInit => RtcInv
<1> SUFFICES ASSUME RtcInit PROVE RtcInv
  OBVIOUS
<1>1. SmallOK
  <2>1. 0 \in 0..MaxTime /\ 0 \in 0..MaxSets
    BY RtcAssumption
  <2> QED
    BY <2>1 DEF RtcInit, SmallOK, Steps
<1>2. PICK t \in AlarmTimes, on \in BOOLEAN : dev = Registered(t, on)
  BY DEF RtcInit
<1>3. t \in Times /\ t \in Nat /\ now = 0
  BY RtcAssumption, TimesAreNat DEF RtcInit
<1>4. /\ dev.queue = IF on /\ now < t THEN <<"aie">> ELSE << >>
      /\ dev.expires = [x \in Timers |-> IF x = "aie" THEN t ELSE 0]
      /\ dev.at = t /\ dev.en = on /\ dev.work = FALSE /\ dev.muted = FALSE
  BY <1>2 DEF Registered
<1>5. dev.expires \in [Timers -> Times] /\ dev.expires["aie"] = t
  BY <1>3, <1>4, TimesAreNat DEF Timers
<1>6. dev.queue \in Seq(Timers)
  <2>1. <<"aie">> \in Seq(Timers) /\ << >> \in Seq(Timers)
    <3>1. "aie" \in Timers
      BY DEF Timers
    <3> QED
      BY <3>1
  <2> QED
    BY <1>4, <2>1
<1>7. dev \in Shape
  BY <1>2, <1>3, <1>4, <1>5, <1>6 DEF Shape, Registered
<1>8. DevOK(dev) /\ Arms(dev) /\ "uie" \notin Queued(dev)
  <2>1. CASE on /\ now < t
    <3>1. dev.queue = <<"aie">>
      BY <1>4, <2>1
    <3>2. Len(dev.queue) = 1 /\ dev.queue[1] = "aie" /\ Head(dev.queue) = "aie"
      BY <3>1
    <3>3. IsOrdered(dev.queue, dev.expires)
      <4>1. \A i \in 1..Len(dev.queue) : i = 1
        BY <3>2
      <4>2. dev.expires[dev.queue[1]] <= dev.expires[dev.queue[1]]
        BY <1>3, <1>5, <3>2
      <4> QED
        BY <1>6, <4>1, <4>2 DEF IsOrdered
    <3>4. DevOK(dev)
      BY <1>7, <3>3 DEF DevOK
    <3>5. Queued(dev) = {"aie"}
      <4>1. Queued(dev) = Elements(dev.queue)
        BY <3>4, DevFacts
      <4> QED
        BY <3>2, <4>1 DEF Elements
    <3>6. Arms(dev)
      BY <1>3, <1>4, <1>5, <2>1, <3>2 DEF Arms, FirstOf
    <3> QED
      BY <3>4, <3>5, <3>6
  <2>2. CASE ~(on /\ now < t)
    <3>1. dev.queue = << >> /\ Len(dev.queue) = 0
      BY <1>4, <2>2
    <3>2. DevOK(dev)
      BY <1>6, <1>7, <3>1 DEF DevOK, IsOrdered
    <3>3. Queued(dev) = Elements(dev.queue)
      BY <3>2, DevFacts
    <3>4. "uie" \notin Queued(dev)
      BY <3>1, <3>3 DEF Elements
    <3> QED
      BY <3>1, <3>2, <3>4 DEF Arms
  <2> QED
    BY <2>1, <2>2
<1>9. ClosedIsQuiet /\ ClosedUnder
  BY <1>8 DEF ClosedIsQuiet, ClosedUnder, RtcInit
<1> QED
  BY <1>1, <1>8, <1>9 DEF RtcInv

LEMMA RtcStep == RtcInv /\ [RtcNext]_rtcVars => RtcInv'
<1> SUFFICES ASSUME RtcInv, [RtcNext]_rtcVars PROVE RtcInv'
  OBVIOUS
<1>i. /\ SmallOK /\ DevOK(dev) /\ Arms(dev) /\ ClosedIsQuiet /\ ClosedUnder
      /\ now \in 0..MaxTime /\ now \in Nat
  BY RtcAssumption DEF RtcInv, SmallOK
<1>1. ASSUME NEW fails \in BOOLEAN, NEW e \in AlarmTimes,
             SetAlarm(e, TRUE, fails) \/ SetAlarm(e, FALSE, fails)
      PROVE  RtcInv'
  <2>1. Kept
    BY <1>i, <1>1, SetAlarmKeeps
  <2>2. UNCHANGED rest
    BY <1>1 DEF SetAlarm
  <2> QED
    BY <2>1, <2>2, RestKeeps
<1>2. ASSUME NEW fails \in BOOLEAN, NEW e \in KernTimes, TimerStart(e, fails) PROVE RtcInv'
  <2>1. Kept
    BY <1>i, <1>2, TimerStartKeeps
  <2>2. UNCHANGED rest
    BY <1>2 DEF TimerStart
  <2> QED
    BY <2>1, <2>2, RestKeeps
<1>3. ASSUME NEW fails \in BOOLEAN, TimerCancel(fails) PROVE RtcInv'
  <2>1. Kept
    BY <1>i, <1>3, TimerCancelKeeps
  <2>2. UNCHANGED rest
    BY <1>3 DEF TimerCancel
  <2> QED
    BY <2>1, <2>2, RestKeeps
<1>4. ASSUME NEW fails \in BOOLEAN, NEW on \in BOOLEAN, AlarmIrqEnable(on, fails) PROVE RtcInv'
  <2>1. Kept
    BY <1>i, <1>4, AlarmIrqKeeps
  <2>2. UNCHANGED rest
    BY <1>4 DEF AlarmIrqEnable
  <2> QED
    BY <2>1, <2>2, RestKeeps
<1>5. ASSUME NEW fails \in BOOLEAN, NEW on \in BOOLEAN, UieIoctl(on, fails) PROVE RtcInv'
  <2>1. /\ opened /\ dev' = UpdateIrqEnable(dev, on, fails) /\ now' = now /\ flag' = flag
        /\ opened' = opened /\ setPc' = setPc /\ sets' = sets /\ raced' = raced
    BY <1>5 DEF UieIoctl, rest
  <2>2. DevOK(dev') /\ Arms(dev')
    BY <1>i, <2>1, UpdateKeeps
  <2>3. Arms(dev)' /\ SmallOK'
    BY <1>i, <2>1, <2>2, StandingClock DEF SmallOK
  <2> QED
    BY <2>1, <2>2, <2>3 DEF RtcInv, ClosedIsQuiet, ClosedUnder
<1>6. ASSUME NEW fails \in BOOLEAN, SetTimeUieOff(fails) PROVE RtcInv'
  <2> DEFINE no == FALSE
  <2>1. /\ setPc = "uieoff" /\ dev' = UpdateIrqEnable(dev, no, fails) /\ now' = now /\ flag' = flag
        /\ opened' = opened /\ setPc' = "set_uie" /\ sets' = sets /\ raced' = raced
    BY <1>6 DEF SetTimeUieOff
  <2>n. no \in BOOLEAN /\ ~no
    OBVIOUS
  <2> HIDE DEF no
  <2>2. DevOK(dev') /\ Arms(dev')
    BY <1>i, <2>1, <2>n, UpdateKeeps
  <2>3. Arms(dev)' /\ SmallOK'
    BY <1>i, <2>1, <2>2, StandingClock DEF SmallOK, Steps
  <2>4. ~opened => raced
    BY <1>i, <2>1 DEF ClosedUnder
  <2> QED
    BY <2>1, <2>2, <2>3, <2>4 DEF RtcInv, ClosedIsQuiet, ClosedUnder
<1>7. ASSUME NEW fails \in BOOLEAN, SetTimeUieOn(fails) PROVE RtcInv'
  <2> DEFINE yes == TRUE
  <2>1. /\ setPc = "uieon" /\ dev' = UpdateIrqEnable(dev, yes, fails) /\ now' = now /\ flag' = flag
        /\ opened' = opened /\ setPc' = "idle" /\ sets' = sets /\ raced' = raced
    BY <1>7 DEF SetTimeUieOn
  <2>n. yes \in BOOLEAN
    OBVIOUS
  <2> HIDE DEF yes
  <2>2. DevOK(dev') /\ Arms(dev')
    BY <1>i, <2>1, <2>n, UpdateKeeps
  <2>3. Arms(dev)' /\ SmallOK'
    BY <1>i, <2>1, <2>2, StandingClock DEF SmallOK, Steps
  <2>4. ~opened => raced
    BY <1>i, <2>1 DEF ClosedUnder
  <2> QED
    BY <2>1, <2>2, <2>3, <2>4 DEF RtcInv, ClosedIsQuiet, ClosedUnder
<1>8. ASSUME SetTimeStart PROVE RtcInv'
  <2>1. /\ dev' = dev /\ now' = now /\ flag' = flag /\ opened' = opened /\ raced' = raced
        /\ sets < MaxSets /\ sets' = sets + 1
        /\ setPc' = IF "uie" \in Queued(dev) THEN "uieoff" ELSE "set"
    BY <1>8 DEF SetTimeStart
  <2>2. SmallOK'
    <3>1. sets + 1 \in 0..MaxSets
      BY <1>i, <2>1, RtcAssumption DEF SmallOK
    <3> QED
      BY <1>i, <2>1, <3>1 DEF SmallOK, Steps
  <2>3. Arms(dev)' /\ DevOK(dev)'
    BY <1>i, <2>1, StandingClock
  <2> QED
    BY <1>i, <2>1, <2>2, <2>3 DEF RtcInv, ClosedIsQuiet, ClosedUnder
<1>9. ASSUME SetTimeInterrupted PROVE RtcInv'
  <2>1. /\ dev' = dev /\ now' = now /\ flag' = flag /\ opened' = opened /\ raced' = raced
        /\ sets' = sets /\ setPc' = "idle"
    BY <1>9 DEF SetTimeInterrupted
  <2>2. SmallOK'
    BY <1>i, <2>1 DEF SmallOK, Steps
  <2>3. Arms(dev)' /\ DevOK(dev)'
    BY <1>i, <2>1, StandingClock
  <2> QED
    BY <1>i, <2>1, <2>2, <2>3 DEF RtcInv, ClosedIsQuiet, ClosedUnder
<1>10. ASSUME NEW t \in 0..MaxTime, SetTimeWrite(t) PROVE RtcInv'
  <2>1. /\ setPc \in {"set", "set_uie"} /\ now' = t /\ dev' = Schedule(dev)
        /\ setPc' = (IF setPc = "set_uie" THEN "uieon" ELSE "idle")
        /\ flag' = flag /\ opened' = opened /\ raced' = raced /\ sets' = sets
    BY <1>10 DEF SetTimeWrite, TimeWasSet
  <2>2. SmallOK'
    BY <1>i, <2>1 DEF SmallOK, Steps
  <2>3. Arms(dev)' /\ DevOK(dev)' /\ Queued(dev)' = Queued(dev)
    BY <1>i, <2>1, ScheduleKeeps
  <2> QED
    BY <1>i, <2>1, <2>2, <2>3 DEF RtcInv, ClosedIsQuiet, ClosedUnder
<1>11. ASSUME Tick PROVE RtcInv'
  <2>1. /\ now < MaxTime /\ now' = now + 1 /\ flag' = (flag \/ (dev.en /\ dev.at = now'))
        /\ dev' = dev /\ opened' = opened /\ setPc' = setPc /\ raced' = raced /\ sets' = sets
    BY <1>11 DEF Tick
  <2>2. SmallOK'
    <3>1. now + 1 \in 0..MaxTime
      BY <1>i, <2>1, RtcAssumption
    <3>2. flag' \in BOOLEAN
      BY <2>1
    <3> QED
      BY <1>i, <2>1, <3>1, <3>2 DEF SmallOK
  <2>3. dev.at \in Nat
    BY <1>i, TimesAreNat DEF DevOK, Shape
  <2>4. Arms(dev)'
    <3> SUFFICES ASSUME ~Rts, dev.queue # << >>, ~dev.work, ~dev.muted, ~flag'
                 PROVE  dev.en /\ now' < dev.at /\ dev.at <= FirstOf(dev)
      BY <2>1 DEF Arms, FirstOf
    <3>1. ~flag /\ ~(dev.en /\ dev.at = now')
      BY <2>1
    <3>2. dev.en /\ now < dev.at /\ dev.at <= FirstOf(dev)
      BY <1>i, <3>1 DEF Arms
    <3> QED
      BY <1>i, <2>1, <2>3, <3>1, <3>2
  <2>5. DevOK(dev)'
    BY <1>i, <2>1
  <2> QED
    BY <1>i, <2>1, <2>2, <2>4, <2>5 DEF RtcInv, ClosedIsQuiet, ClosedUnder
<1>12. ASSUME Interrupt PROVE RtcInv'
  <2>1. /\ flag' = FALSE /\ dev' = (IF Rts THEN dev ELSE Schedule(dev)) /\ now' = now
        /\ opened' = opened /\ setPc' = setPc /\ raced' = raced /\ sets' = sets
    BY <1>12 DEF Interrupt
  <2>2. SmallOK'
    BY <1>i, <2>1 DEF SmallOK
  <2>3. Arms(dev)' /\ DevOK(dev)' /\ Queued(dev)' = Queued(dev)
    <3>1. CASE Rts
      BY <1>i, <2>1, <3>1 DEF Arms
    <3>2. CASE ~Rts
      BY <1>i, <2>1, <3>2, ScheduleKeeps
    <3> QED
      BY <3>1, <3>2
  <2> QED
    BY <1>i, <2>1, <2>2, <2>3 DEF RtcInv, ClosedIsQuiet, ClosedUnder
<1>13. ASSUME DoWork PROVE RtcInv'
  <2>1. Kept
    BY <1>i, <1>13, DoWorkKeeps DEF Kept
  <2>2. UNCHANGED rest
    BY <1>13 DEF DoWork, rest
  <2> QED
    BY <2>1, <2>2, RestKeeps
<1>14. ASSUME Open PROVE RtcInv'
  <2>1. /\ opened' = TRUE /\ raced' = FALSE /\ dev' = dev /\ now' = now /\ flag' = flag
        /\ setPc' = setPc /\ sets' = sets
    BY <1>14 DEF Open
  <2>2. SmallOK'
    BY <1>i, <2>1 DEF SmallOK
  <2>3. Arms(dev)' /\ DevOK(dev)'
    BY <1>i, <2>1, StandingClock
  <2> QED
    BY <2>1, <2>2, <2>3 DEF RtcInv, ClosedIsQuiet, ClosedUnder
<1>15. ASSUME Release(TRUE) \/ Release(FALSE) PROVE RtcInv'
  <2> DEFINE no == FALSE
             d == UpdateIrqEnable(dev, no, no)
  <2>1. /\ opened' = FALSE /\ now' = now /\ flag' = flag /\ setPc' = setPc /\ sets' = sets
        /\ raced' \in BOOLEAN
        /\ (dev' = dev /\ raced') \/ (dev' = d /\ (setPc # "idle" => raced'))
    BY <1>15 DEF Release, ReleaseUie
  <2>n. no \in BOOLEAN /\ ~no
    OBVIOUS
  <2>2. SmallOK'
    BY <1>i, <2>1 DEF SmallOK
  <2> HIDE DEF no
  <2>3. DevOK(d) /\ Arms(d) /\ "uie" \notin Queued(d)
    BY <1>i, <2>n, UpdateKeeps
  <2> HIDE DEF d
  <2>4. Arms(dev)' /\ DevOK(dev)'
    BY <1>i, <2>1, <2>3, StandingClock
  <2>5. ClosedIsQuiet' /\ ClosedUnder'
    BY <2>1, <2>3 DEF ClosedIsQuiet, ClosedUnder
  <2> QED
    BY <2>2, <2>4, <2>5 DEF RtcInv
<1>16. ASSUME UNCHANGED rtcVars PROVE RtcInv'
  <2>1. dev' = dev /\ UNCHANGED rest
    BY <1>16 DEF rtcVars, rest
  <2>2. Kept
    BY <1>i, <2>1 DEF Kept
  <2> QED
    BY <2>1, <2>2, RestKeeps
<1>17. ASSUME RtcNext PROVE RtcInv'
  <2>1. \A fails \in IF Rts THEN {FALSE} ELSE BOOLEAN : fails \in BOOLEAN
    OBVIOUS
  <2> QED
    BY <1>17, <2>1, <1>1, <1>2, <1>3, <1>4, <1>5, <1>6, <1>7, <1>8, <1>9, <1>10, <1>11, <1>12,
       <1>13, <1>14, <1>15 DEF RtcNext
<1> QED
  BY <1>16, <1>17

(* A timer in the queue is never forgotten, and a closed device leaves no  *)
(* update timer behind, for every bound and every time of an alarm         *)
(* (rtc_timer_enqueue, rtc_timer_remove, rtc_timer_do_work,                *)
(* rtc_dev_release).                                                       *)
THEOREM TimersArmedCorrect == RtcSpec => []TimersArmed
<1>1. RtcInv => TimersArmed
  BY DEF RtcInv, TimersArmed, Armed, Arms
<1> QED
  BY <1>1, RtcInitOK, RtcStep, PTL DEF RtcSpec

(* The queue holds a timer at most once, and no timer, and no alarm, is     *)
(* later than one period behind the bound of the counter                   *)
(* (timerqueue_add, rtc_timer_do_work).                                    *)
THEOREM RtcTypeCorrect == RtcSpec => []RtcTypeOK
<1>1. RtcInv => RtcTypeOK
  <2> SUFFICES ASSUME RtcInv PROVE RtcTypeOK
    OBVIOUS
  <2>1. DevOK(dev) /\ SmallOK
    BY DEF RtcInv
  <2> DEFINE q == dev.queue
             m == Len(q)
             F(n) == {f \in [1..n -> Timers] : \A i, j \in 1..n : i # j => f[i] # f[j]}
             S == {F(n) : n \in 0..3}
  <2>2. q \in Seq(Timers) /\ IsOrdered(q, dev.expires)
    BY <2>1 DEF DevOK, Shape
  <2>3. m \in 0..3
    BY <2>2, ShortQueue
  <2>4. q \in [1..m -> Timers]
    BY <2>2, LenProperties, ElementOfSeq
  <2>5. \A i, j \in 1..m : i # j => q[i] # q[j]
    BY <2>2 DEF IsOrdered
  <2>6. q \in F(m)
    BY <2>4, <2>5
  <2>7. q \in Queues
    <3>1. Queues = UNION S
      BY DEF Queues
    <3>2. F(m) \in S
      BY <2>3
    <3> HIDE DEF F, S, q, m
    <3> QED
      BY <2>6, <3>1, <3>2
  <2>8. dev \in Device
    BY <2>1, <2>7 DEF DevOK, Shape, Device
  <2> QED
    BY <2>1, <2>8 DEF RtcTypeOK, SmallOK, Steps
<1> QED
  BY <1>1, RtcInitOK, RtcStep, PTL DEF RtcSpec

-----------------------------------------------------------------------------
(* RtcTime: the clock of an RTC with an offset. *)

(* What registration leaves in rtc. *)
Configured(r) ==
  /\ r \in [min : Int, max : Int, start : Int, given : BOOLEAN, offset : Int]
  /\ r.min <= r.max
  /\ r.offset = rtc_device_get_offset(r.min, r.max, r.start, r.given)

(* A time in the range that is shown is held by the counter, and comes     *)
(* back from it.                                                           *)
LEMMA OutAndBack ==
  ASSUME NEW r, Configured(r), NEW t \in Int, rtc_valid_range(r, t)
  PROVE  /\ rtc_subtract_offset(r, t) \in Int
         /\ r.min # r.max => /\ r.min <= rtc_subtract_offset(r, t)
                             /\ rtc_subtract_offset(r, t) <= r.max
         /\ rtc_add_offset(r, rtc_subtract_offset(r, t)) = t
<1>1. CASE r.min = r.max \/ ~r.given
  BY <1>1 DEF Configured, rtc_valid_range, First, Last, rtc_subtract_offset, rtc_add_offset,
              rtc_device_get_offset
<1>2. CASE r.min # r.max /\ r.given
  <2>1. CASE r.start > r.max \/ r.start + (r.max - r.min + 1) - 1 < r.min
    BY <1>2, <2>1 DEF Configured, rtc_valid_range, First, Last, rtc_subtract_offset,
                      rtc_add_offset, rtc_device_get_offset
  <2>2. CASE ~(r.start > r.max \/ r.start + (r.max - r.min + 1) - 1 < r.min) /\ r.start > r.min
    BY <1>2, <2>2 DEF Configured, rtc_valid_range, First, Last, rtc_subtract_offset,
                      rtc_add_offset, rtc_device_get_offset
  <2>3. CASE ~(r.start > r.max \/ r.start + (r.max - r.min + 1) - 1 < r.min) /\ r.start <= r.min
    BY <1>2, <2>3 DEF Configured, rtc_valid_range, First, Last, rtc_subtract_offset,
                      rtc_add_offset, rtc_device_get_offset
  <2> QED BY <2>1, <2>2, <2>3 DEF Configured
<1> QED BY <1>1, <1>2 DEF Configured

(* Every reading of the counter is shown as a time in the range, and that  *)
(* time is held as this reading.                                           *)
LEMMA BackAndOut ==
  ASSUME NEW r, Configured(r), NEW s \in Int, r.min <= s, s <= r.max
  PROVE  /\ rtc_add_offset(r, s) \in Int
         /\ rtc_valid_range(r, rtc_add_offset(r, s))
         /\ rtc_subtract_offset(r, rtc_add_offset(r, s)) = s
<1>1. CASE r.min = r.max \/ ~r.given
  BY <1>1 DEF Configured, rtc_valid_range, First, Last, rtc_subtract_offset, rtc_add_offset,
              rtc_device_get_offset
<1>2. CASE r.min # r.max /\ r.given
  <2>1. CASE r.start > r.max \/ r.start + (r.max - r.min + 1) - 1 < r.min
    BY <1>2, <2>1 DEF Configured, rtc_valid_range, First, Last, rtc_subtract_offset,
                      rtc_add_offset, rtc_device_get_offset
  <2>2. CASE ~(r.start > r.max \/ r.start + (r.max - r.min + 1) - 1 < r.min) /\ r.start > r.min
    BY <1>2, <2>2 DEF Configured, rtc_valid_range, First, Last, rtc_subtract_offset,
                      rtc_add_offset, rtc_device_get_offset
  <2>3. CASE ~(r.start > r.max \/ r.start + (r.max - r.min + 1) - 1 < r.min) /\ r.start <= r.min
    BY <1>2, <2>3 DEF Configured, rtc_valid_range, First, Last, rtc_subtract_offset,
                      rtc_add_offset, rtc_device_get_offset
  <2> QED BY <2>1, <2>2, <2>3 DEF Configured
<1> QED BY <1>1, <1>2 DEF Configured

(* The next second is held by the next value of the counter, or by its     *)
(* first one after its last.                                               *)
LEMMA NextSecond ==
  ASSUME NEW r, Configured(r), NEW t \in Int, rtc_valid_range(r, t), rtc_valid_range(r, t + 1)
  PROVE  rtc_subtract_offset(r, t + 1) =
           IF r.min # r.max /\ rtc_subtract_offset(r, t) = r.max THEN r.min
           ELSE rtc_subtract_offset(r, t) + 1
<1>1. CASE r.min = r.max \/ ~r.given
  BY <1>1 DEF Configured, rtc_valid_range, First, Last, rtc_subtract_offset, rtc_device_get_offset
<1>2. CASE r.min # r.max /\ r.given
  <2>1. CASE r.start > r.max \/ r.start + (r.max - r.min + 1) - 1 < r.min
    BY <1>2, <2>1 DEF Configured, rtc_valid_range, First, Last, rtc_subtract_offset,
                      rtc_device_get_offset
  <2>2. CASE ~(r.start > r.max \/ r.start + (r.max - r.min + 1) - 1 < r.min) /\ r.start > r.min
    BY <1>2, <2>2 DEF Configured, rtc_valid_range, First, Last, rtc_subtract_offset,
                      rtc_device_get_offset
  <2>3. CASE ~(r.start > r.max \/ r.start + (r.max - r.min + 1) - 1 < r.min) /\ r.start <= r.min
    BY <1>2, <2>3 DEF Configured, rtc_valid_range, First, Last, rtc_subtract_offset,
                      rtc_device_get_offset
  <2> QED BY <2>1, <2>2, <2>3 DEF Configured
<1> QED BY <1>1, <1>2 DEF Configured

-----------------------------------------------------------------------------
(* The inductive invariant: the counter and the alarm register hold the    *)
(* clock and the alarm that was asked for.                                 *)
Held(v, t) == t \in Int /\ rtc_valid_range(rtc, t) /\ v = rtc_subtract_offset(rtc, t)
TimeInv ==
  /\ Configured(rtc)
  /\ Held(hw, clock)
  /\ alarm \in [set : BOOLEAN, hw : Int, at : Int]
  /\ alarm.set => Held(alarm.hw, alarm.at)

LEMMA InitHolds == TimeInit => TimeInv
<1> SUFFICES ASSUME TimeInit PROVE TimeInv
  OBVIOUS
<1>1. Configured(rtc)
  <2>1. PICK r \in Ranges, given \in BOOLEAN : \E start \in IF given THEN Starts ELSE {0} :
               rtc = [min |-> r.min, max |-> r.max, start |-> start, given |-> given,
                      offset |-> rtc_device_get_offset(r.min, r.max, start, given)]
    BY DEF TimeInit
  <2>2. PICK start \in IF given THEN Starts ELSE {0} :
               rtc = [min |-> r.min, max |-> r.max, start |-> start, given |-> given,
                      offset |-> rtc_device_get_offset(r.min, r.max, start, given)]
    BY <2>1
  <2>3. start \in Int /\ r.min \in Int /\ r.max \in Int /\ r.min <= r.max
    BY RangesAssumption, TimesAssumption
  <2>4. rtc_device_get_offset(r.min, r.max, start, given) \in Int
    BY <2>3 DEF rtc_device_get_offset
  <2> QED BY <2>2, <2>3, <2>4 DEF Configured
<1>2. hw \in Int /\ rtc.min <= hw /\ hw <= rtc.max
  BY <1>1 DEF TimeInit, Configured
<1>3. Held(hw, clock)
  BY <1>1, <1>2, BackAndOut DEF TimeInit, rtc_read_time, Held
<1>4. alarm \in [set : BOOLEAN, hw : Int, at : Int] /\ ~alarm.set
  BY DEF TimeInit
<1> QED BY <1>1, <1>3, <1>4 DEF TimeInv

LEMMA StepHolds == TimeInv /\ [TimeNext]_timeVars => TimeInv'
<1> SUFFICES ASSUME TimeInv, [TimeNext]_timeVars PROVE TimeInv'
  OBVIOUS
<1>1. CASE \E t \in Moments : rtc_set_time(t)
  <2>1. PICK t \in Moments : rtc_set_time(t)
    BY <1>1
  <2>2. t \in Int
    BY TimesAssumption
  <2>3. Held(hw, clock)'
    BY <2>1, <2>2 DEF Held, rtc_set_time
  <2> QED BY <2>1, <2>3 DEF TimeInv, Held, rtc_set_time
<1>2. CASE \E t \in Moments : rtc_set_alarm(t)
  <2>1. PICK t \in Moments : rtc_set_alarm(t)
    BY <1>2
  <2>2. t \in Int /\ rtc_subtract_offset(rtc, t) \in Int
    BY <2>1, TimesAssumption, OutAndBack DEF rtc_set_alarm, TimeInv
  <2>3. alarm' \in [set : BOOLEAN, hw : Int, at : Int] /\ Held(alarm.hw, alarm.at)'
    BY <2>1, <2>2 DEF Held, rtc_set_alarm
  <2>4. Held(hw, clock)' /\ Configured(rtc)'
    BY <2>1 DEF TimeInv, Held, rtc_set_alarm
  <2> QED BY <2>3, <2>4 DEF TimeInv
<1>3. CASE Second
  <2>1. clock \in Int /\ rtc_valid_range(rtc, clock) /\ Configured(rtc)
    BY DEF TimeInv, Held
  <2>2. rtc_valid_range(rtc, clock + 1)
    BY <1>3, <2>1 DEF Second, rtc_valid_range, First, Last, Configured
  <2>3. hw' = rtc_subtract_offset(rtc, clock + 1)
    BY <1>3, <2>1, <2>2, NextSecond DEF Second, TimeInv, Held
  <2>4. Held(hw, clock)'
    BY <1>3, <2>1, <2>2, <2>3 DEF Second, Held
  <2> QED BY <1>3, <2>4 DEF TimeInv, Held, Second
<1>4. CASE UNCHANGED timeVars
  BY <1>4 DEF TimeInv, Held, timeVars
<1> QED BY <1>1, <1>2, <1>3, <1>4 DEF TimeNext

LEMMA InvExact == TimeInv => TimeTypeOK /\ ClockExact
<1> SUFFICES ASSUME TimeInv PROVE TimeTypeOK /\ ClockExact
  OBVIOUS
<1>1. hw \in Int /\ rtc_add_offset(rtc, hw) = clock
  BY OutAndBack DEF TimeInv, Held
<1>2. ASSUME alarm.set PROVE rtc_add_offset(rtc, alarm.hw) = alarm.at
  BY <1>2, OutAndBack DEF TimeInv, Held
<1>3. ASSUME alarm.set PROVE hw = alarm.hw <=> clock = alarm.at
  <2>1. hw = alarm.hw => clock = alarm.at
    BY <1>1, <1>2, <1>3
  <2>2. clock = alarm.at => hw = alarm.hw
    BY <1>3 DEF TimeInv, Held
  <2> QED BY <2>1, <2>2
<1>4. TimeTypeOK
  BY <1>1 DEF TimeInv, Held, Configured, TimeTypeOK
<1>5. ClockExact
  BY <1>1, <1>2, <1>3 DEF ClockExact, rtc_read_time
<1> QED BY <1>4, <1>5

(* The clock of interface.c and class.c shows the time that was set plus   *)
(* the seconds since, and its alarm is matched in its second only, for     *)
(* every range of the counter and every start-year.                        *)
THEOREM ClockCorrect == TimeSpec => []ClockExact
<1>1. TimeInv => ClockExact
  BY InvExact
<1> QED BY InitHolds, StepHolds, <1>1, PTL DEF TimeSpec

-----------------------------------------------------------------------------
(* The inductive invariant of the device.  While the lock is held the      *)
(* flags of uie tell where the poll is: queued or looking (task), or left  *)
(* to the timer, never two of them.                                        *)
Looking == work.pc \in {"look", "err"}
Ending == call.pc \in {"off", "del", "del2", "flush"}

FlagsExact ==
  /\ uie.task <=> work.queued \/ Looking
  /\ ~(work.queued /\ Looking)
  /\ timer => uie.timer /\ ~work.queued /\ ~Looking
  /\ uie.active /\ uie.stop => call.pc \in {"del", "del2", "flush"}
  /\ call.pc \in {"del", "del2", "flush"} => uie.active /\ uie.stop
  /\ call.pc \in {"del2", "flush"} => ~timer
(* The second that is looked for, and that no reading is a minute old.     *)
SecondsExact ==
  /\ call.pc = "set" => call.tm <= sec /\ sec - call.tm < Minute
  /\ uie.active => uie.old = seen.polled % Minute
  /\ uie.active /\ ~seen.failed => seen.polled <= sec /\ sec - seen.polled < Minute
  /\ uie.active /\ Looking => ~seen.failed /\ seen.polled <= work.tm /\ work.tm <= sec
  /\ uie.active /\ seen.failed => ~work.queued /\ ~timer
(* A poll that is still counting does not end the polling. *)
GoesOn == uie.active /\ ~Ending /\ ~seen.failed => work.queued \/ Looking \/ timer
(* A reader that goes to sleep with something to read is about to be woken. *)
WillWake ==
  /\ rd.pc = "asleep" => ~rd.ready
  /\ rd.pc \in {"schedule", "asleep"} /\ ~rd.ready /\ data # NoData => work.pc = "wake"
DevInv == DevTypeOK /\ FlagsExact /\ SecondsExact /\ GoesOn /\ WillWake /\ Stopped /\ Counted /\ PieAllowed

(* Arithmetic of the second hand: a remainder is below the minute, and two *)
(* seconds less than a minute apart are told apart by their remainders,    *)
(* whose difference, taken round the minute, is their distance.            *)
LEMMA Remainder ==
  ASSUME NEW a \in Nat
  PROVE  a % Minute \in 0..Minute - 1
BY MinuteAssumption

LEMMA SecondsApart ==
  ASSUME NEW a \in Nat, NEW b \in Nat, a <= b, b - a < Minute
  PROVE  ((b % Minute) + Minute - (a % Minute)) % Minute = b - a
<1> DEFINE qa == a \div Minute
           qb == b \div Minute
           ra == a % Minute
           rb == b % Minute
<1>1. /\ qa \in Nat /\ qb \in Nat /\ ra \in Nat /\ rb \in Nat /\ ra < Minute /\ rb < Minute
      /\ a = Minute * qa + ra /\ b = Minute * qb + rb
  BY MinuteAssumption
<1> HIDE DEF qa, qb, ra, rb
<1>2. qb = qa \/ qb = qa + 1
  BY <1>1, MinuteAssumption
<1>3. Minute * (qa + 1) = Minute * qa + Minute
  BY <1>1, MinuteAssumption
<1>4. CASE qb = qa
  <2>1. rb + Minute - ra = Minute + (b - a)
    BY <1>1, <1>4, MinuteAssumption
  <2>2. (Minute + (b - a)) % Minute = b - a
    BY MinuteAssumption
  <2> QED BY <2>1, <2>2 DEF ra, rb
<1>5. CASE qb = qa + 1
  <2>1. rb + Minute - ra = b - a
    BY <1>1, <1>3, <1>5, MinuteAssumption
  <2>2. (b - a) % Minute = b - a
    BY MinuteAssumption
  <2> QED BY <2>1, <2>2 DEF ra, rb
<1> QED BY <1>2, <1>4, <1>5

LEMMA DevInitHolds == DevInit => DevInv
<1> SUFFICES ASSUME DevInit PROVE DevInv
  OBVIOUS
<1>1. DevTypeOK
  <2>1. 0 \in 0..Minute - 1 /\ 0 \in 0..MaxSecs /\ 0 \in 0..MaxOther
    BY MinuteAssumption, DevBoundsAssumption
  <2>2. uie \in Polls /\ work \in Works
    BY <2>1 DEF DevInit, NoWork, Polls, Works
  <2>3. call \in Calls /\ rd \in Readers /\ seen \in Histories
    BY <2>1 DEF DevInit, Calls, Readers, Histories
  <2> QED
    BY <2>1, <2>2, <2>3 DEF DevInit, DevTypeOK, NoData
<1>2. FlagsExact /\ SecondsExact /\ GoesOn /\ WillWake /\ Stopped /\ Counted /\ PieAllowed
  BY DEF DevInit, NoWork, NoData, FlagsExact, Looking, SecondsExact, GoesOn, WillWake, Stopped, Counted, PieAllowed
<1> QED BY <1>1, <1>2 DEF DevInv

(* Every action keeps the types. *)
LEMMA DevTypeStep ==
  ASSUME DevInv, [DevNext]_devVars
  PROVE  DevTypeOK'
<1>0. 0 \in 0..Minute - 1 /\ 0 \in 0..MaxSecs /\ 0 \in 0..MaxOther
  BY MinuteAssumption, DevBoundsAssumption
<1> USE <1>0 DEF DevInv, DevTypeOK
<1>1. CASE SetUieRead
  <2>1. call' \in Calls
    BY <1>1 DEF SetUieRead, Calls
  <2> QED
    BY <1>1, <2>1 DEF SetUieRead
<1>2. CASE set_uie
  <2>1. call.tm % Minute \in 0..Minute - 1
    BY Remainder DEF Calls
  <2>2. uie' \in Polls
    BY <1>2, <2>1 DEF set_uie, Begun, Queue, Polls, Works
  <2>3. work' \in Works
    BY <1>2 DEF set_uie, Works
  <2>4. call' \in Calls
    BY <1>2 DEF set_uie, Calls
  <2>5. seen' \in Histories
    BY <1>2 DEF set_uie, Cleared, Calls, Histories
  <2> QED
    BY <1>2, <2>2, <2>3, <2>4, <2>5 DEF set_uie, NoData
<1>3. CASE clear_uie
  <2>1. uie' \in Polls
    BY <1>3 DEF clear_uie, Wait, Ended, Calls, Histories, Polls, Readers, Works
  <2>2. call' \in Calls
    BY <1>3 DEF clear_uie, Wait, Ended, Calls, Histories, Polls, Readers, Works
  <2> QED
    BY <1>3, <2>1, <2>2 DEF clear_uie, Wait, Ended
<1>4. CASE DelTimerSync
  <2>1. call' \in Calls
    BY <1>4 DEF DelTimerSync, Calls
  <2> QED
    BY <1>4, <2>1 DEF DelTimerSync
<1>5. CASE TimerDeleted
  <2>1. uie' \in Polls
    BY <1>5 DEF TimerDeleted, Wait, Ended, Calls, Histories, Polls, Readers, Works
  <2>2. call' \in Calls
    BY <1>5 DEF TimerDeleted, Wait, Ended, Calls, Histories, Polls, Readers, Works
  <2> QED
    BY <1>5, <2>1, <2>2 DEF TimerDeleted, Wait, Ended
<1>6. CASE FlushScheduledWork
  <2>1. uie' \in Polls
    BY <1>6 DEF FlushScheduledWork, Flushed, Calls, Histories, Polls, Readers, Works
  <2>2. call' \in Calls
    BY <1>6 DEF FlushScheduledWork, Flushed, Calls, Histories, Polls, Readers, Works
  <2> QED
    BY <1>6, <2>1, <2>2 DEF FlushScheduledWork, Flushed
<1>7. CASE rtc_uie_timer
  <2>1. uie' \in Polls
    BY <1>7 DEF rtc_uie_timer, Queue, Calls, Histories, Polls, Readers, Works
  <2>2. work' \in Works
    BY <1>7 DEF rtc_uie_timer, Queue, Calls, Histories, Polls, Readers, Works
  <2> QED
    BY <1>7, <2>1, <2>2 DEF rtc_uie_timer, Queue
<1>8. CASE TaskReads
  <2>1. work' \in Works
    BY <1>8 DEF TaskReads, Calls, Histories, Polls, Readers, Works
  <2> QED
    BY <1>8, <2>1 DEF TaskReads
<1>9. CASE TaskLooks
  <2> DEFINE tm == work.tm % Minute
             num == (tm + Minute - uie.old) % Minute
  <2>1. tm \in 0..Minute - 1
    BY Remainder DEF Works
  <2>2. tm + Minute - uie.old \in Nat
    BY <2>1, MinuteAssumption DEF Polls
  <2>3. num \in 0..Minute - 1
    BY <2>2, Remainder
  <2>4. /\ uie' \in {[uie EXCEPT !.task = FALSE], uie,
                    [uie EXCEPT !.old = tm, !.timer = TRUE, !.task = FALSE]}
        /\ \/ work' = [work EXCEPT !.pc = "post", !.num = num]
           \/ \E q \in BOOLEAN : work' = [work EXCEPT !.pc = "no", !.tm = 0, !.queued = q]
        /\ timer' \in BOOLEAN
        /\ \E t \in {seen.polled, work.tm}, f \in BOOLEAN :
             seen' = [seen EXCEPT !.polled = t, !.failed = f]
    BY <1>9, Zenon DEF TaskLooks, Works, Histories
  <2> HIDE DEF tm, num
  <2>5. uie' \in Polls
    BY <2>1, <2>4, Zenon DEF Polls
  <2>6. work' \in Works
    <3>1. CASE work' = [work EXCEPT !.pc = "post", !.num = num]
      BY <2>3, <3>1 DEF Works
    <3>2. ASSUME NEW q \in BOOLEAN, work' = [work EXCEPT !.pc = "no", !.tm = 0, !.queued = q]
          PROVE  work' \in Works
      BY <3>2 DEF Works
    <3> QED
      BY <2>4, <3>1, <3>2, Zenon
  <2>7. seen' \in Histories
    BY <2>4, Zenon DEF Histories, Works
  <2> QED
    BY <1>9, <2>4, <2>5, <2>6, <2>7, Zenon DEF TaskLooks
<1>10. CASE TaskPosts
  <2>1. work' \in Works
    BY <1>10 DEF TaskPosts, Works
  <2> QED
    BY <1>10, <2>1, MinuteAssumption DEF TaskPosts, Works
<1>11. CASE TaskWakes
  <2>1. work' \in Works
    BY <1>11 DEF TaskWakes, Woken, Works
  <2>2. rd' \in Readers
    BY <1>11 DEF TaskWakes, Woken, Readers
  <2> QED
    BY <1>11, <2>1, <2>2 DEF TaskWakes, Woken
<1>12. CASE rtc_pie_update_irq
  <2>1. rd' \in Readers
    BY <1>12 DEF rtc_pie_update_irq, Woken, Readers
  <2> QED
    BY <1>12, <2>1, DevBoundsAssumption DEF rtc_pie_update_irq
<1>13. CASE ReleaseStart
  <2>1. call' \in Calls
    BY <1>13 DEF ReleaseStart, Calls
  <2> QED
    BY <1>13, <2>1 DEF ReleaseStart
<1>14. CASE rtc_dev_release
  <2>1. call' \in Calls
    BY <1>14 DEF rtc_dev_release, Closed, Calls
  <2> QED
    BY <1>14, <2>1 DEF rtc_dev_release, Closed
<1>15. CASE ReadStart
  <2>1. rd' \in Readers
    BY <1>15 DEF ReadStart, Readers
  <2> QED
    BY <1>15, <2>1 DEF ReadStart
<1>16. CASE ReadLoop
  <2>1. rd' \in Readers
    BY <1>16 DEF ReadLoop, Readers
  <2> QED
    BY <1>16, <2>1 DEF ReadLoop
<1>17. CASE ReadTakes
  <2>1. rd' \in Readers
    <3>1. rd' = [pc |-> "idle", ready |-> TRUE] \/ rd' = [rd EXCEPT !.pc = "schedule"]
      BY <1>17 DEF ReadTakes
    <3>2. [pc |-> "idle", ready |-> TRUE] \in Readers
      BY DEF Readers
    <3>3. [rd EXCEPT !.pc = "schedule"] \in Readers
      BY DEF Readers
    <3> QED BY <3>1, <3>2, <3>3
  <2>2. seen' \in Histories
    BY <1>17 DEF ReadTakes, NoData, Histories
  <2> QED
    BY <1>17, <2>1, <2>2 DEF ReadTakes, NoData
<1>18. CASE ReadSchedules
  <2>1. rd' \in Readers
    BY <1>18 DEF ReadSchedules, Readers
  <2> QED
    BY <1>18, <2>1 DEF ReadSchedules
<1>19. CASE DevTick
  BY <1>19, DevBoundsAssumption DEF DevTick
<1>20. CASE \E cap \in BOOLEAN : rtc_dev_open(cap)
  <2>1. seen' \in Histories
    <3>1. seen' = [seen EXCEPT !.base = seen.polled, !.got = 0]
      BY <1>20 DEF rtc_dev_open, Cleared
    <3> QED BY <3>1 DEF Histories
  <2> QED
    BY <1>20, <2>1 DEF rtc_dev_open, NoData, Cleared
<1>21. CASE \E on \in BOOLEAN : rtc_irq_set_state(on)
  BY <1>21 DEF rtc_irq_set_state, May
<1>22. CASE \E f \in Freqs : rtc_irq_set_freq(f)
  BY <1>22, FreqsAssumption DEF rtc_irq_set_freq
<1>23. CASE \E cmd \in {"on", "off", "set_time"} : Ioctl(cmd)
  <2>1. call' \in Calls
    BY <1>23 DEF Ioctl, Calls
  <2> QED
    BY <1>23, <2>1 DEF Ioctl
<1>24. CASE UNCHANGED devVars
  BY <1>24 DEF devVars
<1> QED
  BY <1>1, <1>2, <1>3, <1>4, <1>5, <1>6, <1>7, <1>8, <1>9, <1>10, <1>11, <1>12, <1>13, <1>14, <1>15, <1>16, <1>17, <1>18, <1>19, <1>20, <1>21, <1>22, <1>23, <1>24 DEF DevNext

(* Every action keeps the rest of the invariant. *)
LEMMA DevStep ==
  ASSUME DevInv, [DevNext]_devVars
  PROVE  DevInv'
<1>0. DevTypeOK /\ DevTypeOK' /\ FlagsExact /\ SecondsExact /\ GoesOn /\ WillWake /\ Stopped /\ Counted /\ PieAllowed
  BY DevTypeStep DEF DevInv
<1>1. CASE SetUieRead
  <2>1. FlagsExact'
    BY <1>0, <1>1 DEF SetUieRead, FlagsExact, Looking, DevTypeOK, Calls, Polls, Works
  <2>2. SecondsExact'
    BY <1>0, <1>1, MinuteAssumption DEF SetUieRead, SecondsExact, Looking, DevTypeOK, Calls, Histories, Polls, Works
  <2>3. GoesOn'
    BY <1>0, <1>1 DEF SetUieRead, GoesOn, Looking, Ending, DevTypeOK, Calls, Histories, Polls, Works
  <2>4. WillWake' /\ Stopped' /\ Counted' /\ PieAllowed'
    BY <1>0, <1>1 DEF SetUieRead, WillWake, Stopped, Counted, PieAllowed
  <2> QED
    BY <1>0, <2>1, <2>2, <2>3, <2>4 DEF DevInv
<1>2. CASE set_uie
  <2>1. CASE uie.active
    <3>1. /\ UNCHANGED <<uie, work, sec, timer, file, pie, rd>>
          /\ seen' = [seen EXCEPT !.base = seen.polled, !.got = 0]
          /\ call' = [call EXCEPT !.pc = "idle", !.tm = 0] /\ call.pc = "set" /\ data' = NoData
      BY <1>2, <2>1 DEF set_uie, Cleared
    <3>2. FlagsExact' /\ GoesOn'
      BY <1>0, <2>1, <3>1 DEF FlagsExact, GoesOn, Looking, Ending, DevTypeOK, Calls, Histories
    <3>3. SecondsExact'
      BY <1>0, <2>1, <3>1 DEF SecondsExact, Looking, DevTypeOK, Calls, Histories
    <3>4. Counted'
      BY <1>0, <2>1, <3>1 DEF Counted, NoData, DevTypeOK, Histories, Works
    <3>5. WillWake' /\ Stopped' /\ PieAllowed'
      BY <1>0, <2>1, <3>1 DEF WillWake, Stopped, PieAllowed
    <3> QED
      BY <1>0, <3>2, <3>3, <3>4, <3>5 DEF DevInv
  <2>2. CASE ~uie.active
    <3>1. ~work.queued /\ ~timer /\ ~Looking
      BY <1>0, <2>2 DEF Stopped, Looking
    <3>2. /\ UNCHANGED <<sec, timer, file, pie, rd>>
          /\ uie' = [uie EXCEPT !.active = TRUE, !.stop = FALSE, !.old = call.tm % Minute, !.task = TRUE]
          /\ work' = [work EXCEPT !.queued = TRUE]
          /\ seen' = [base |-> call.tm, polled |-> call.tm, got |-> 0, failed |-> FALSE]
          /\ call' = [call EXCEPT !.pc = "idle", !.tm = 0] /\ call.pc = "set" /\ data' = NoData
      BY <1>2, <2>2, <3>1 DEF set_uie, Begun, Queue
    <3>3. FlagsExact' /\ GoesOn'
      BY <1>0, <3>1, <3>2 DEF FlagsExact, GoesOn, Looking, Ending, DevTypeOK, Polls, Works, Calls
    <3>4. SecondsExact'
      BY <1>0, <3>1, <3>2 DEF SecondsExact, Looking, DevTypeOK, Polls, Works, Calls
    <3>5. Counted'
      BY <1>0, <3>2 DEF Counted, NoData, DevTypeOK, Works, Calls
    <3>6. WillWake' /\ Stopped' /\ PieAllowed'
      BY <1>0, <3>2 DEF WillWake, Stopped, PieAllowed, DevTypeOK, Polls, Works
    <3> QED
      BY <1>0, <3>3, <3>4, <3>5, <3>6 DEF DevInv
  <2> QED
    BY <2>1, <2>2
<1>3. CASE clear_uie
  <2>1. FlagsExact'
    BY <1>0, <1>3 DEF clear_uie, Wait, Ended, FlagsExact, Looking, DevTypeOK, Calls, Polls, Works
  <2>2. SecondsExact'
    BY <1>0, <1>3 DEF clear_uie, Wait, Ended, SecondsExact, Looking, DevTypeOK, Calls, Histories, Polls, Works
  <2>3. GoesOn'
    BY <1>0, <1>3 DEF clear_uie, Wait, Ended, GoesOn, Looking, Ending, DevTypeOK, Calls, Histories, Polls, Works
  <2>4. Stopped'
    BY <1>0, <1>3 DEF clear_uie, Wait, Ended, Stopped, FlagsExact, Looking, DevTypeOK, Polls, Works
  <2>5. Counted'
    BY <1>0, <1>3 DEF clear_uie, Wait, Ended, Counted, DevTypeOK, Histories, Polls, Works
  <2>6. WillWake' /\ PieAllowed'
    BY <1>0, <1>3 DEF clear_uie, WillWake, PieAllowed
  <2> QED
    BY <1>0, <2>1, <2>2, <2>3, <2>4, <2>5, <2>6 DEF DevInv
<1>4. CASE DelTimerSync
  <2>1. FlagsExact'
    BY <1>0, <1>4 DEF DelTimerSync, FlagsExact, Looking, DevTypeOK, Calls, Polls, Works
  <2>2. SecondsExact'
    BY <1>0, <1>4 DEF DelTimerSync, SecondsExact, Looking, DevTypeOK, Calls, Histories, Polls, Works
  <2>3. GoesOn'
    BY <1>0, <1>4 DEF DelTimerSync, GoesOn, Looking, Ending, DevTypeOK, Calls, Histories, Polls, Works
  <2>4. Stopped'
    BY <1>0, <1>4 DEF DelTimerSync, Stopped, DevTypeOK, Polls, Works
  <2>5. WillWake' /\ Counted' /\ PieAllowed'
    BY <1>0, <1>4 DEF DelTimerSync, WillWake, Counted, PieAllowed
  <2> QED
    BY <1>0, <2>1, <2>2, <2>3, <2>4, <2>5 DEF DevInv
<1>5. CASE TimerDeleted
  <2>1. FlagsExact'
    BY <1>0, <1>5 DEF TimerDeleted, Wait, Ended, FlagsExact, Looking, DevTypeOK, Calls, Polls, Works
  <2>2. SecondsExact'
    BY <1>0, <1>5 DEF TimerDeleted, Wait, Ended, SecondsExact, Looking, DevTypeOK, Calls, Histories, Polls, Works
  <2>3. GoesOn'
    BY <1>0, <1>5 DEF TimerDeleted, Wait, Ended, GoesOn, Looking, Ending, DevTypeOK, Calls, Histories, Polls, Works
  <2>4. Stopped'
    BY <1>0, <1>5 DEF TimerDeleted, Wait, Ended, Stopped, FlagsExact, Looking, DevTypeOK, Polls, Works
  <2>5. Counted'
    BY <1>0, <1>5 DEF TimerDeleted, Wait, Ended, Counted, DevTypeOK, Histories, Polls, Works
  <2>6. WillWake' /\ PieAllowed'
    BY <1>0, <1>5 DEF TimerDeleted, WillWake, PieAllowed
  <2> QED
    BY <1>0, <2>1, <2>2, <2>3, <2>4, <2>5, <2>6 DEF DevInv
<1>6. CASE FlushScheduledWork
  <2>1. FlagsExact'
    BY <1>0, <1>6 DEF FlushScheduledWork, Flushed, FlagsExact, Looking, DevTypeOK, Calls, Polls, Works
  <2>2. SecondsExact'
    BY <1>0, <1>6 DEF FlushScheduledWork, Flushed, SecondsExact, Looking, DevTypeOK, Calls, Histories, Polls, Works
  <2>3. GoesOn'
    BY <1>0, <1>6 DEF FlushScheduledWork, Flushed, GoesOn, Looking, Ending, DevTypeOK, Calls, Histories, Polls, Works
  <2>4. Stopped'
    BY <1>0, <1>6 DEF FlushScheduledWork, Flushed, Stopped, FlagsExact, Looking, DevTypeOK, Polls, Works
  <2>5. Counted'
    BY <1>0, <1>6 DEF FlushScheduledWork, Flushed, Counted, DevTypeOK, Histories, Polls, Works
  <2>6. WillWake' /\ PieAllowed'
    BY <1>0, <1>6 DEF FlushScheduledWork, WillWake, PieAllowed
  <2> QED
    BY <1>0, <2>1, <2>2, <2>3, <2>4, <2>5, <2>6 DEF DevInv
<1>7. CASE rtc_uie_timer
  <2>1. FlagsExact'
    BY <1>0, <1>7 DEF rtc_uie_timer, Queue, FlagsExact, Looking, DevTypeOK, Calls, Polls, Works
  <2>2. SecondsExact'
    BY <1>0, <1>7 DEF rtc_uie_timer, Queue, SecondsExact, Looking, DevTypeOK, Calls, Histories, Polls, Works
  <2>3. GoesOn'
    BY <1>0, <1>7 DEF rtc_uie_timer, Queue, GoesOn, Looking, Ending, DevTypeOK, Calls, Histories, Polls, Works
  <2>4. WillWake'
    BY <1>0, <1>7 DEF rtc_uie_timer, Queue, WillWake, DevTypeOK, Readers, Works
  <2>5. Stopped'
    BY <1>0, <1>7 DEF rtc_uie_timer, Queue, Stopped, DevTypeOK, Polls, Works
  <2>6. Counted'
    BY <1>0, <1>7 DEF rtc_uie_timer, Queue, Counted, DevTypeOK, Histories, Polls, Works
  <2>7. PieAllowed'
    BY <1>0, <1>7 DEF rtc_uie_timer, PieAllowed
  <2> QED
    BY <1>0, <2>1, <2>2, <2>3, <2>4, <2>5, <2>6, <2>7 DEF DevInv
<1>8. CASE TaskReads
  <2>1. FlagsExact'
    BY <1>0, <1>8 DEF TaskReads, FlagsExact, Looking, DevTypeOK, Calls, Polls, Works
  <2>2. SecondsExact'
    BY <1>0, <1>8 DEF TaskReads, SecondsExact, Looking, DevTypeOK, Calls, Histories, Polls, Works
  <2>3. GoesOn'
    BY <1>0, <1>8 DEF TaskReads, GoesOn, Looking, Ending, DevTypeOK, Calls, Histories, Polls, Works
  <2>4. WillWake'
    BY <1>0, <1>8 DEF TaskReads, WillWake, DevTypeOK, Readers, Works
  <2>5. Stopped'
    BY <1>0, <1>8 DEF TaskReads, Stopped, DevTypeOK, Polls, Works
  <2>6. Counted'
    BY <1>0, <1>8 DEF TaskReads, Counted, DevTypeOK, Histories, Polls, Works
  <2>7. PieAllowed'
    BY <1>0, <1>8 DEF TaskReads, PieAllowed
  <2> QED
    BY <1>0, <2>1, <2>2, <2>3, <2>4, <2>5, <2>6, <2>7 DEF DevInv
<1>9. CASE TaskLooks
  <2> DEFINE tm == work.tm % Minute
             num == (tm + Minute - uie.old) % Minute
             ends == uie.stop \/ work.pc = "err"
  <2>1. Looking /\ uie.active /\ ~work.queued /\ ~timer /\ ~seen.failed
    BY <1>0, <1>9 DEF TaskLooks, Stopped, Looking, FlagsExact, SecondsExact
  <2>2. work.pc \in {"look", "err"} /\ UNCHANGED <<sec, call, file, pie, data, rd>>
    BY <1>9 DEF TaskLooks
  <2>3. CASE ends
    <3>1. /\ uie' = [uie EXCEPT !.task = FALSE] /\ timer' = timer
          /\ work' = [work EXCEPT !.pc = "no", !.tm = 0, !.queued = FALSE]
          /\ seen' = [seen EXCEPT !.failed = (work.pc = "err")]
      BY <1>0, <1>9, <2>1, <2>3 DEF TaskLooks, DevTypeOK, Works, Histories
    <3>2. FlagsExact'
      BY <1>0, <2>1, <2>2, <3>1 DEF FlagsExact, Looking, DevTypeOK, Polls, Works
    <3>3. GoesOn' /\ Stopped'
      BY <1>0, <2>1, <2>2, <2>3, <3>1 DEF FlagsExact, GoesOn, Stopped, Looking, Ending, DevTypeOK, Polls, Works, Histories
    <3>4. SecondsExact'
      BY <1>0, <2>1, <2>2, <3>1 DEF SecondsExact, Looking, DevTypeOK, Polls, Works, Histories
    <3>5. Counted'
      BY <1>0, <2>1, <2>2, <3>1 DEF Counted, DevTypeOK, Polls, Works, Histories
    <3>6. WillWake' /\ PieAllowed'
      BY <1>0, <2>2, <3>1 DEF WillWake, PieAllowed
    <3> QED
      BY <1>0, <3>2, <3>3, <3>4, <3>5, <3>6 DEF DevInv
  <2>4. CASE ~ends /\ uie.old = tm
    <3>1. /\ uie' = uie /\ timer' = timer
          /\ seen' = [seen EXCEPT !.polled = seen.polled, !.failed = FALSE]
          /\ work' = [work EXCEPT !.pc = "no", !.tm = 0, !.queued = TRUE]
      BY <1>0, <1>9, <2>1, <2>4 DEF TaskLooks, DevTypeOK, Works, Histories
    <3>2. FlagsExact' /\ GoesOn' /\ Stopped'
      BY <1>0, <2>1, <2>2, <3>1 DEF FlagsExact, GoesOn, Stopped, Looking, DevTypeOK, Works, Histories
    <3>3. SecondsExact'
      BY <1>0, <2>1, <2>2, <3>1 DEF SecondsExact, Looking, DevTypeOK, Works, Histories
    <3>4. Counted'
      BY <1>0, <2>1, <2>2, <3>1 DEF Counted, DevTypeOK, Works, Histories
    <3>5. WillWake' /\ PieAllowed'
      BY <1>0, <2>2, <3>1 DEF WillWake, PieAllowed
    <3> QED
      BY <1>0, <3>2, <3>3, <3>4, <3>5 DEF DevInv
  <2>5. CASE ~ends /\ uie.old # tm
    <3>1. /\ uie' = [uie EXCEPT !.old = tm, !.timer = TRUE, !.task = FALSE] /\ timer' = TRUE
          /\ work' = [work EXCEPT !.pc = "post", !.num = num]
          /\ seen' = [seen EXCEPT !.polled = work.tm, !.failed = FALSE]
      BY <1>0, <1>9, <2>1, <2>5 DEF TaskLooks, DevTypeOK, Works, Histories
    <3>2. /\ seen.polled \in Nat /\ work.tm \in Nat /\ seen.polled <= work.tm /\ work.tm <= sec
          /\ sec \in Nat /\ sec - seen.polled < Minute /\ uie.old = seen.polled % Minute
      BY <1>0, <2>1 DEF SecondsExact, DevTypeOK, Works, Histories
    <3>3. num = work.tm - seen.polled
      <4>1. work.tm - seen.polled < Minute
        BY <3>2, MinuteAssumption
      <4> QED BY <3>2, <4>1, SecondsApart
    <3> HIDE DEF num
    <3>4. FlagsExact' /\ GoesOn' /\ Stopped'
      BY <1>0, <2>1, <2>2, <2>5, <3>1 DEF FlagsExact, GoesOn, Stopped, Looking, DevTypeOK, Polls, Works
    <3>5. SecondsExact'
      <4>1. sec - work.tm < Minute
        BY <3>2, MinuteAssumption
      <4> QED
        BY <1>0, <2>1, <2>2, <3>1, <3>2, <4>1 DEF SecondsExact, Looking, DevTypeOK, Polls, Works, Histories
    <3>6. Counted'
      BY <1>0, <2>1, <2>2, <3>1, <3>2, <3>3 DEF Counted, Looking, DevTypeOK, Polls, Works, Histories
    <3>7. WillWake' /\ PieAllowed'
      BY <1>0, <2>2, <3>1 DEF WillWake, PieAllowed
    <3> QED
      BY <1>0, <3>4, <3>5, <3>6, <3>7 DEF DevInv
  <2> QED
    BY <2>3, <2>4, <2>5
<1>10. CASE TaskPosts
  <2>1. FlagsExact'
    BY <1>0, <1>10 DEF TaskPosts, FlagsExact, Looking, DevTypeOK, Calls, Polls, Works
  <2>2. SecondsExact'
    BY <1>0, <1>10 DEF TaskPosts, SecondsExact, Looking, DevTypeOK, Calls, Histories, Polls, Works
  <2>3. GoesOn'
    BY <1>0, <1>10 DEF TaskPosts, GoesOn, Looking, Ending, DevTypeOK, Calls, Histories, Polls, Works
  <2>4. WillWake'
    BY <1>0, <1>10 DEF TaskPosts, WillWake, DevTypeOK, Readers, Works
  <2>5. Stopped'
    BY <1>0, <1>10 DEF TaskPosts, Stopped, DevTypeOK, Polls, Works
  <2>6. Counted'
    BY <1>0, <1>10 DEF TaskPosts, Counted, DevTypeOK, Histories, Polls, Works
  <2>7. PieAllowed'
    BY <1>0, <1>10 DEF TaskPosts, PieAllowed
  <2> QED
    BY <1>0, <2>1, <2>2, <2>3, <2>4, <2>5, <2>6, <2>7 DEF DevInv
<1>11. CASE TaskWakes
  <2>1. FlagsExact'
    BY <1>0, <1>11 DEF TaskWakes, Woken, FlagsExact, Looking, DevTypeOK, Calls, Polls, Works
  <2>2. SecondsExact'
    BY <1>0, <1>11 DEF TaskWakes, Woken, SecondsExact, Looking, DevTypeOK, Calls, Histories, Polls, Works
  <2>3. GoesOn'
    BY <1>0, <1>11 DEF TaskWakes, Woken, GoesOn, Looking, Ending, DevTypeOK, Calls, Histories, Polls, Works
  <2>4. WillWake'
    BY <1>0, <1>11 DEF TaskWakes, Woken, WillWake, DevTypeOK, Readers, Works
  <2>5. Stopped'
    BY <1>0, <1>11 DEF TaskWakes, Woken, Stopped, DevTypeOK, Polls, Works
  <2>6. Counted'
    BY <1>0, <1>11 DEF TaskWakes, Woken, Counted, DevTypeOK, Histories, Polls, Works
  <2>7. PieAllowed'
    BY <1>0, <1>11 DEF TaskWakes, PieAllowed
  <2> QED
    BY <1>0, <2>1, <2>2, <2>3, <2>4, <2>5, <2>6, <2>7 DEF DevInv
<1>12. CASE rtc_pie_update_irq
  <2>1. WillWake'
    BY <1>0, <1>12 DEF rtc_pie_update_irq, Woken, WillWake, DevTypeOK, Readers, Works
  <2>2. Counted'
    BY <1>0, <1>12 DEF rtc_pie_update_irq, Woken, Counted, DevTypeOK, Histories, Polls, Works
  <2>3. FlagsExact' /\ SecondsExact' /\ GoesOn' /\ Stopped' /\ PieAllowed'
    BY <1>0, <1>12 DEF rtc_pie_update_irq, FlagsExact, Looking, SecondsExact, Looking, GoesOn, Looking, Ending, Stopped, PieAllowed
  <2> QED
    BY <1>0, <2>1, <2>2, <2>3 DEF DevInv
<1>13. CASE ReleaseStart
  <2>1. FlagsExact'
    BY <1>0, <1>13 DEF ReleaseStart, FlagsExact, Looking, DevTypeOK, Calls, Polls, Works
  <2>2. SecondsExact'
    BY <1>0, <1>13 DEF ReleaseStart, SecondsExact, Looking, DevTypeOK, Calls, Histories, Polls, Works
  <2>3. GoesOn'
    BY <1>0, <1>13 DEF ReleaseStart, GoesOn, Looking, Ending, DevTypeOK, Calls, Histories, Polls, Works
  <2>4. WillWake' /\ Stopped' /\ Counted' /\ PieAllowed'
    BY <1>0, <1>13 DEF ReleaseStart, WillWake, Stopped, Counted, PieAllowed
  <2> QED
    BY <1>0, <2>1, <2>2, <2>3, <2>4 DEF DevInv
<1>14. CASE rtc_dev_release
  <2>1. FlagsExact'
    BY <1>0, <1>14 DEF rtc_dev_release, Closed, FlagsExact, Looking, DevTypeOK, Calls, Polls, Works
  <2>2. SecondsExact'
    BY <1>0, <1>14 DEF rtc_dev_release, Closed, SecondsExact, Looking, DevTypeOK, Calls, Histories, Polls, Works
  <2>3. GoesOn'
    BY <1>0, <1>14 DEF rtc_dev_release, Closed, GoesOn, Looking, Ending, DevTypeOK, Calls, Histories, Polls, Works
  <2>4. PieAllowed'
    BY <1>0, <1>14 DEF rtc_dev_release, Closed, PieAllowed, DevTypeOK
  <2>5. WillWake' /\ Stopped' /\ Counted'
    BY <1>0, <1>14 DEF rtc_dev_release, WillWake, Stopped, Counted
  <2> QED
    BY <1>0, <2>1, <2>2, <2>3, <2>4, <2>5 DEF DevInv
<1>15. CASE ReadStart
  <2>1. WillWake'
    BY <1>0, <1>15 DEF ReadStart, WillWake, DevTypeOK, Readers, Works
  <2>2. FlagsExact' /\ SecondsExact' /\ GoesOn' /\ Stopped' /\ Counted' /\ PieAllowed'
    BY <1>0, <1>15 DEF ReadStart, FlagsExact, Looking, SecondsExact, Looking, GoesOn, Looking, Ending, Stopped, Counted, PieAllowed
  <2> QED
    BY <1>0, <2>1, <2>2 DEF DevInv
<1>16. CASE ReadLoop
  <2>1. WillWake'
    BY <1>0, <1>16 DEF ReadLoop, WillWake, DevTypeOK, Readers, Works
  <2>2. FlagsExact' /\ SecondsExact' /\ GoesOn' /\ Stopped' /\ Counted' /\ PieAllowed'
    BY <1>0, <1>16 DEF ReadLoop, FlagsExact, Looking, SecondsExact, Looking, GoesOn, Looking, Ending, Stopped, Counted, PieAllowed
  <2> QED
    BY <1>0, <2>1, <2>2 DEF DevInv
<1>17. CASE ReadTakes
  <2>1. SecondsExact'
    BY <1>0, <1>17 DEF ReadTakes, SecondsExact, Looking, DevTypeOK, Calls, Histories, Polls, Works
  <2>2. GoesOn'
    BY <1>0, <1>17 DEF ReadTakes, GoesOn, Looking, Ending, DevTypeOK, Calls, Histories, Polls, Works
  <2>3. WillWake'
    BY <1>0, <1>17 DEF ReadTakes, WillWake, DevTypeOK, Readers, Works
  <2>4. Counted'
    BY <1>0, <1>17 DEF ReadTakes, Counted, DevTypeOK, Histories, Polls, Works
  <2>5. FlagsExact' /\ Stopped' /\ PieAllowed'
    BY <1>0, <1>17 DEF ReadTakes, FlagsExact, Looking, Stopped, PieAllowed
  <2> QED
    BY <1>0, <2>1, <2>2, <2>3, <2>4, <2>5 DEF DevInv
<1>18. CASE ReadSchedules
  <2>1. WillWake'
    BY <1>0, <1>18 DEF ReadSchedules, WillWake, DevTypeOK, Readers, Works
  <2>2. FlagsExact' /\ SecondsExact' /\ GoesOn' /\ Stopped' /\ Counted' /\ PieAllowed'
    BY <1>0, <1>18 DEF ReadSchedules, FlagsExact, Looking, SecondsExact, Looking, GoesOn, Looking, Ending, Stopped, Counted, PieAllowed
  <2> QED
    BY <1>0, <2>1, <2>2 DEF DevInv
<1>19. CASE DevTick
  <2>1. SecondsExact'
    BY <1>0, <1>19 DEF DevTick, SecondsExact, Looking, DevTypeOK, Calls, Histories, Polls, Works
  <2>2. FlagsExact' /\ GoesOn' /\ WillWake' /\ Stopped' /\ Counted' /\ PieAllowed'
    BY <1>0, <1>19 DEF DevTick, FlagsExact, Looking, GoesOn, Looking, Ending, WillWake, Stopped, Counted, PieAllowed
  <2> QED
    BY <1>0, <2>1, <2>2 DEF DevInv
<1>20. CASE \E cap \in BOOLEAN : rtc_dev_open(cap)
  <2>1. SecondsExact'
    BY <1>0, <1>20 DEF rtc_dev_open, Cleared, SecondsExact, Looking, DevTypeOK, Calls, Histories, Polls, Works
  <2>2. GoesOn'
    BY <1>0, <1>20 DEF rtc_dev_open, Cleared, GoesOn, Looking, Ending, DevTypeOK, Calls, Histories, Polls, Works
  <2>3. WillWake'
    BY <1>0, <1>20 DEF rtc_dev_open, Cleared, WillWake, DevTypeOK, Readers, Works
  <2>4. Counted'
    BY <1>0, <1>20 DEF rtc_dev_open, Cleared, Counted, DevTypeOK, Histories, Polls, Works
  <2>5. PieAllowed'
    BY <1>0, <1>20 DEF rtc_dev_open, Cleared, PieAllowed, DevTypeOK
  <2>6. FlagsExact' /\ Stopped'
    BY <1>0, <1>20 DEF rtc_dev_open, FlagsExact, Looking, Stopped
  <2> QED
    BY <1>0, <2>1, <2>2, <2>3, <2>4, <2>5, <2>6 DEF DevInv
<1>21. CASE \E on \in BOOLEAN : rtc_irq_set_state(on)
  <2>1. PieAllowed'
    BY <1>0, <1>21 DEF rtc_irq_set_state, May, PieAllowed, DevTypeOK
  <2>2. FlagsExact' /\ SecondsExact' /\ GoesOn' /\ WillWake' /\ Stopped' /\ Counted'
    BY <1>0, <1>21 DEF rtc_irq_set_state, FlagsExact, Looking, SecondsExact, Looking, GoesOn, Looking, Ending, WillWake, Stopped, Counted
  <2> QED
    BY <1>0, <2>1, <2>2 DEF DevInv
<1>22. CASE \E f \in Freqs : rtc_irq_set_freq(f)
  <2>1. PieAllowed'
    BY <1>0, <1>22 DEF rtc_irq_set_freq, May, PieAllowed, DevTypeOK
  <2>2. FlagsExact' /\ SecondsExact' /\ GoesOn' /\ WillWake' /\ Stopped' /\ Counted'
    BY <1>0, <1>22 DEF rtc_irq_set_freq, FlagsExact, Looking, SecondsExact, Looking, GoesOn, Looking, Ending, WillWake, Stopped, Counted
  <2> QED
    BY <1>0, <2>1, <2>2 DEF DevInv
<1>23. CASE \E cmd \in {"on", "off", "set_time"} : Ioctl(cmd)
  <2>1. FlagsExact'
    BY <1>0, <1>23 DEF Ioctl, FlagsExact, Looking, DevTypeOK, Calls, Polls, Works
  <2>2. SecondsExact'
    BY <1>0, <1>23 DEF Ioctl, SecondsExact, Looking, DevTypeOK, Calls, Histories, Polls, Works
  <2>3. GoesOn'
    BY <1>0, <1>23 DEF Ioctl, GoesOn, Looking, Ending, DevTypeOK, Calls, Histories, Polls, Works
  <2>4. WillWake' /\ Stopped' /\ Counted' /\ PieAllowed'
    BY <1>0, <1>23 DEF Ioctl, WillWake, Stopped, Counted, PieAllowed
  <2> QED
    BY <1>0, <2>1, <2>2, <2>3, <2>4 DEF DevInv
<1>24. CASE UNCHANGED devVars
  BY <1>0, <1>24 DEF devVars, DevInv, FlagsExact, Looking, SecondsExact, Looking, GoesOn, Looking, Ending, WillWake, Stopped, Counted, PieAllowed
<1> QED
  BY <1>1, <1>2, <1>3, <1>4, <1>5, <1>6, <1>7, <1>8, <1>9, <1>10, <1>11, <1>12, <1>13, <1>14, <1>15, <1>16, <1>17, <1>18, <1>19, <1>20, <1>21, <1>22, <1>23, <1>24 DEF DevNext

(* The invariant says what the events need. *)
LEMMA DevInvExact == DevInv => EventsExact
<1> SUFFICES ASSUME DevInv PROVE EventsExact
  OBVIOUS
<1>1. Polled
  BY DEF DevInv, GoesOn, Polled, Looking, Ending
<1>2. NoLostWakeup
  BY DEF DevInv, WillWake, NoLostWakeup
<1> QED
  BY <1>1, <1>2 DEF DevInv, EventsExact

(* Every second that rtc_uie_task finds is counted and reaches the reader  *)
(* of rtc_dev_read, who does not sleep through it; clear_uie leaves        *)
(* nothing that polls; and periodic events end with rtc_dev_release and    *)
(* stay within max_user_freq.  For every bound, every length of a minute   *)
(* and RTCs that can fail to be read.                                      *)
THEOREM DevEventsExact == DevSpec => []EventsExact
<1> QED BY DevInitHolds, DevStep, DevInvExact, PTL DEF DevSpec

(* What rtc_uie_task, set_uie, clear_uie and rtc_dev_read keep stays in its *)
(* type, the second hand below the minute included.                        *)
THEOREM DevTypeCorrect == DevSpec => []DevTypeOK
<1>1. DevInv => DevTypeOK
  BY DEF DevInv
<1> QED BY DevInitHolds, DevStep, <1>1, PTL DEF DevSpec
=============================================================================
