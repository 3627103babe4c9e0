------------------------------ MODULE LimitsProofs ------------------------------
(***************************************************************************)
(* What is kept within limits, for any of them: the throttle's maps and    *)
(* the failures it lets through (Throttle), and the reference counts of    *)
(* what several accounts keep (Storage).                                   *)
(***************************************************************************)
EXTENDS Throttle, Storage, SequenceTheorems, FiniteSetTheorems, TLAPS

-----------------------------------------------------------------------------
(* Data *)

\* Induction, stated of a set: no theorem with an operator for its parameter is
\* needed to use it.
LEMMA SetInduction ==
    ASSUME NEW S, 0 \in S, \A n \in Nat : n \in S => n + 1 \in S
    PROVE  Nat \subseteq S
<1> DEFINE R == OpToRel(<, Nat)
           T == Nat \ S
<1>1. \A x, y \in Nat : <<x, y>> \in R <=> x < y
  BY DEF OpToRel
<1> SUFFICES ASSUME T # {} PROVE FALSE
  OBVIOUS
<1>2. IsWellFoundedOn(R, Nat)
  BY NatLessThanWellFounded
<1> HIDE DEF R
<1>3. PICK x \in T : \A y \in T : ~(<<y, x>> \in R)
  <2>1. T \subseteq Nat
    OBVIOUS
  <2> HIDE DEF T
  <2> QED
    BY <1>2, <2>1, WFMin
<1>4. x \in Nat /\ x \notin S /\ x # 0 /\ x - 1 \in Nat
  BY <1>3
<1>5. x - 1 \in T
  BY <1>3, <1>4
<1>6. <<x - 1, x>> \in R
  BY <1>1, <1>4
<1> QED
  BY <1>3, <1>5, <1>6

\* A set of numbers has a least one.
LEMMA LeastOf ==
    ASSUME NEW S \in SUBSET Nat, S # {}
    PROVE  \E n \in S : \A k \in S : n <= k
<1> DEFINE T == {n \in Nat : \A k \in 0..n : k \notin S}
<1> SUFFICES ASSUME \A n \in S : \E k \in S : k < n PROVE FALSE
  OBVIOUS
<1>1. 0 \in T
  OBVIOUS
<1>2. \A n \in Nat : n \in T => n + 1 \in T
  <2> SUFFICES ASSUME NEW n \in Nat, n \in T PROVE n + 1 \in T
    OBVIOUS
  <2>1. n + 1 \notin S
    OBVIOUS
  <2> QED
    BY <2>1
<1> HIDE DEF T
<1>3. Nat \subseteq T
  BY <1>1, <1>2, SetInduction
<1>4. PICK n \in S : n \in Nat
  OBVIOUS
<1>5. n \in T
  BY <1>3, <1>4
<1> QED
  BY <1>4, <1>5 DEF T

\* The recursion of Shifted has a solution, so that Shifted is one.
LEMMA ShiftedIs == Shifted = [n \in 0..16 |-> IF n = 0 THEN 1 ELSE 2 * Shifted[n - 1]]
<1> DEFINE Solves(g, m) == g = [n \in 0..m |-> IF n = 0 THEN 1 ELSE 2 * g[n - 1]]
           S == {m \in Nat : \E g : Solves(g, m)}
<1>1. 0 \in S
  <2> DEFINE g == [n \in 0..0 |-> 1]
  <2>1. Solves(g, 0)
    OBVIOUS
  <2> QED
    BY <2>1
<1>2. \A m \in Nat : m \in S => m + 1 \in S
  <2> SUFFICES ASSUME NEW m \in Nat, NEW g, Solves(g, m) PROVE m + 1 \in S
    OBVIOUS
  <2> DEFINE h == [n \in 0..m + 1 |-> IF n = m + 1 THEN 2 * g[m] ELSE g[n]]
  <2>1. \A n \in 0..m : g[n] = IF n = 0 THEN 1 ELSE 2 * g[n - 1]
    OBVIOUS
  <2>2. \A n \in 0..m + 1 : h[n] = IF n = 0 THEN 1 ELSE 2 * h[n - 1]
    BY <2>1
  <2>3. Solves(h, m + 1)
    BY <2>2
  <2> HIDE DEF Solves, h
  <2>4. \E k : Solves(k, m + 1)
    BY <2>3
  <2> QED
    BY <2>4
<1> HIDE DEF S
<1>3. Nat \subseteq S
  BY <1>1, <1>2, SetInduction
<1>4. 16 \in S
  BY <1>3
<1>5. \E g : g = [n \in 0..16 |-> IF n = 0 THEN 1 ELSE 2 * g[n - 1]]
  BY <1>4 DEF S
<1> QED
  BY <1>5, Zenon DEF Shifted

LEMMA ShiftedGrows ==
    /\ \A n \in 0..16 : Shifted[n] \in Nat
    /\ \A m, n \in 0..16 : m <= n => Shifted[m] <= Shifted[n]
<1> DEFINE S == {m \in Nat : m <= 16 => /\ Shifted[m] \in Nat
                                        /\ \A n \in 0..m : Shifted[n] \in Nat /\ Shifted[n] <= Shifted[m]}
<1>1. \A n \in 0..16 : Shifted[n] = IF n = 0 THEN 1 ELSE 2 * Shifted[n - 1]
  BY ShiftedIs
<1>2. 0 \in S
  BY <1>1
<1>3. \A m \in Nat : m \in S => m + 1 \in S
  <2> SUFFICES ASSUME NEW m \in Nat, m \in S, m + 1 <= 16 PROVE m + 1 \in S
    OBVIOUS
  <2>1. /\ Shifted[m + 1] = 2 * Shifted[m] /\ Shifted[m] \in Nat
        /\ \A n \in 0..m : Shifted[n] \in Nat /\ Shifted[n] <= Shifted[m]
    BY <1>1
  <2>2. Shifted[m + 1] \in Nat /\ Shifted[m] <= Shifted[m + 1]
    BY <2>1
  <2>3. \A n \in 0..m : Shifted[n] <= Shifted[m + 1] /\ Shifted[n] \in Nat
    BY <1>1, <2>1, <2>2
  <2>4. \A n \in 0..m + 1 : n \in 0..m \/ n = m + 1
    OBVIOUS
  <2> QED
    BY <2>2, <2>3, <2>4
<1> HIDE DEF S
<1>4. Nat \subseteq S
  BY <1>2, <1>3, SetInduction
<1> QED
  BY <1>4 DEF S

LEMMA DelayGrows ==
    /\ \A k \in Nat : Delay(k) \in Nat
    /\ \A j, k \in Nat : j <= k => Delay(j) <= Delay(k)
<1>1. FreeFailures \in Nat /\ MaxDelay \in Nat
  BY ThrottleBounds
<1> DEFINE Past(k) == Less(k - FreeFailures, 16)
<1>2. \A k \in Nat : k >= FreeFailures => Past(k) \in 0..16
  BY <1>1 DEF Less
<1>3. \A j, k \in Nat : j <= k => Past(j) <= Past(k)
  BY <1>1 DEF Less
<1>4. \A k \in Nat : Delay(k) = IF k < FreeFailures THEN 0 ELSE Less(MaxDelay, Shifted[Past(k)])
  BY DEF Delay
<1> HIDE DEF Past
<1>5. \A k \in Nat : k >= FreeFailures => Shifted[Past(k)] \in Nat
  BY <1>2, ShiftedGrows
<1>6. \A j, k \in Nat : FreeFailures <= j /\ j <= k => Shifted[Past(j)] <= Shifted[Past(k)]
  BY <1>1, <1>2, <1>3, ShiftedGrows
<1> QED
  BY <1>1, <1>4, <1>5, <1>6 DEF Less

-----------------------------------------------------------------------------
(* Failures in the order they came *)

Sorted(h) == \A j, k \in 1..Len(h) : j <= k => h[j] <= h[k]
Past(h, now) == \A k \in 1..Len(h) : h[k] <= now
Tries(h, now) == h \in Seq(Nat) /\ Sorted(h) /\ Past(h, now)

\* What s[k] is to be followed by no sooner than d[k] later, n failures on.
Apart(h, n, d) == \A k \in 1..Len(h) : k + n <= Len(h) => h[k + n] >= h[k] + d[k]

\* Of the failures up to n before the last that can still come while i attempts
\* are under way, each has waited its d[k].
Due(h, n, i, now, d) == \A k \in 1..Len(h) : k + n <= Len(h) + i => h[k] + d[k] <= now

\* s is what is left of the failures h: the latest, without what is outdated.
Kept(s, h, now) ==
    /\ s \in Seq(Nat) /\ Len(s) <= ClientFailures /\ Len(s) <= Len(h)
    /\ \A j \in 1..Len(s) : s[j] = h[Len(h) - Len(s) + j]
    /\ \A k \in 1..Len(h) : k <= Len(h) - Len(s) => k <= Len(h) - ClientFailures \/ h[k] + Window <= now

LEMMA EmptyTries ==
    ASSUME NEW n \in Nat, NEW i \in Nat, NEW now \in Nat, NEW d
    PROVE  Tries(<<>>, now) /\ Apart(<<>>, n, d) /\ Due(<<>>, n, i, now, d) /\ Kept(<<>>, <<>>, now)
<1>1. <<>> \in Seq(Nat) /\ Len(<<>>) = 0
  BY EmptySeq
<1> QED
  BY <1>1, ThrottleBounds DEF Tries, Sorted, Past, Apart, Due, Kept

LEMMA TriesAppend ==
    ASSUME NEW now \in Nat, NEW h, Tries(h, now)
    PROVE  /\ Append(h, now) \in Seq(Nat) /\ Len(Append(h, now)) = Len(h) + 1 /\ Len(h) \in Nat
           /\ Append(h, now)[Len(h) + 1] = now /\ \A k \in 1..Len(h) : Append(h, now)[k] = h[k]
           /\ \A k \in 1..Len(h) : h[k] \in Nat
           /\ Tries(Append(h, now), now)
<1>1. h \in Seq(Nat) /\ Len(h) \in Nat /\ \A k \in 1..Len(h) : h[k] \in Nat
  BY LenProperties DEF Tries
<1>2. /\ Append(h, now) \in Seq(Nat) /\ Len(Append(h, now)) = Len(h) + 1
      /\ Append(h, now)[Len(h) + 1] = now /\ \A k \in 1..Len(h) : Append(h, now)[k] = h[k]
  BY <1>1, AppendProperties
<1>3. \A k \in 1..Len(h) + 1 : Append(h, now)[k] = IF k = Len(h) + 1 THEN now ELSE h[k]
  BY <1>1, <1>2
<1>4. Sorted(Append(h, now)) /\ Past(Append(h, now), now)
  BY <1>1, <1>2, <1>3 DEF Tries, Sorted, Past
<1> QED
  BY <1>1, <1>2, <1>4 DEF Tries

\* One of the attempts under way fails.
LEMMA DueAppend ==
    ASSUME NEW now \in Nat, NEW h, Tries(h, now), NEW n \in Nat, NEW i \in Nat, 0 < i, i <= n,
           NEW d \in [Nat -> Nat], Apart(h, n, d), Due(h, n, i, now, d)
    PROVE  Apart(Append(h, now), n, d) /\ Due(Append(h, now), n, i - 1, now, d)
<1>a. PICK k : k = Append(h, now)
  OBVIOUS
<1>1. PICK l \in Nat : l = Len(h) /\ Len(k) = l + 1
  <2>1. Len(h) \in Nat /\ Len(k) = Len(h) + 1
    BY <1>a, TriesAppend
  <2> QED
    BY <2>1
<1>2. \A j \in 1..l : h[j] \in Nat
  BY <1>a, <1>1, TriesAppend
<1>3. \A j \in 1..l : k[j] = h[j]
  BY <1>a, <1>1, TriesAppend
<1>4. k[l + 1] = now
  BY <1>a, <1>1, TriesAppend
<1>5. \A j \in 1..l : j + n <= l => h[j + n] >= h[j] + d[j]
  BY <1>a, <1>1 DEF Apart
<1>6. \A j \in 1..l : j + n <= l + i => h[j] + d[j] <= now
  BY <1>a, <1>1 DEF Due
<1>7. ASSUME NEW j \in 1..l + 1, j + n <= l + 1 PROVE k[j + n] >= k[j] + d[j]
  <2>1. CASE j + n <= l
    BY <1>3, <1>5, <1>7, <2>1
  <2>2. CASE j + n = l + 1
    BY <1>3, <1>4, <1>6, <1>7, <2>2
  <2> QED
    BY <1>7, <2>1, <2>2
<1>8. ASSUME NEW j \in 1..l + 1, j + n <= l + 1 + (i - 1) PROVE k[j] + d[j] <= now
  BY <1>3, <1>6, <1>8
<1>9. Apart(k, n, d)
  BY <1>a, <1>1, <1>7 DEF Apart
<1>10. Due(k, n, i - 1, now, d)
  BY <1>a, <1>1, <1>8 DEF Due
<1> QED
  BY <1>a, <1>1, <1>9, <1>10

\* The first failure of a new record.
LEMMA DueFirst ==
    ASSUME NEW now \in Nat, NEW n \in Nat, NEW i \in Nat, 0 < i, i <= n, NEW d \in [Nat -> Nat]
    PROVE  /\ Tries(<<now>>, now) /\ Apart(<<now>>, n, d) /\ Due(<<now>>, n, i - 1, now, d)
           /\ <<now>> = Append(<<>>, now)
<1>1. <<now>> = Append(<<>>, now)
  OBVIOUS
<1>2. Tries(<<>>, now) /\ Apart(<<>>, n, d) /\ Due(<<>>, n, i, now, d)
  BY EmptyTries
<1>3. Tries(Append(<<>>, now), now)
  BY <1>2, TriesAppend
<1>4. Apart(Append(<<>>, now), n, d) /\ Due(Append(<<>>, now), n, i - 1, now, d)
  BY <1>2, DueAppend
<1> QED
  BY <1>1, <1>3, <1>4

\* Time passes, and attempts end.
LEMMA DueLater ==
    ASSUME NEW now \in Nat, NEW later \in Nat, now <= later, NEW n \in Nat, NEW i \in Nat,
           NEW j \in Nat, j <= i, NEW d \in [Nat -> Nat], NEW h, Tries(h, now), Due(h, n, i, now, d)
    PROVE  Due(h, n, j, later, d) /\ Tries(h, later)
<1>1. PICK l \in Nat : l = Len(h)
  BY TriesAppend
<1>2. \A k \in 1..l : h[k] \in Nat
  BY <1>1, TriesAppend
<1>3. ASSUME NEW k \in 1..l, k + n <= l + j PROVE h[k] + d[k] <= later
  <2>1. k + n <= l + i => h[k] + d[k] <= now
    BY <1>1 DEF Due
  <2> QED
    BY <1>2, <1>3, <2>1
<1>4. \A k \in 1..l : h[k] <= later
  BY <1>1, <1>2 DEF Tries, Past
<1> QED
  BY <1>1, <1>3, <1>4 DEF Due, Tries, Past

\* push_back, and pop_front of what is too much.
LEMMA KeptPushed ==
    ASSUME clock \in Nat, NEW h, Tries(h, clock), NEW s, Kept(s, h, clock)
    PROVE  Kept(Pushed(s), Append(h, clock), clock)
<1> DEFINE long == Append(s, clock)
<1>a. PICK k : k = Append(h, clock)
  OBVIOUS
<1>1. PICK l \in Nat : l = Len(h) /\ Len(k) = l + 1
  <2>1. Len(h) \in Nat /\ Len(k) = Len(h) + 1
    BY <1>a, TriesAppend
  <2> QED
    BY <2>1
<1>2. \A j \in 1..l : k[j] = h[j]
  BY <1>a, <1>1, TriesAppend
<1>3. k[l + 1] = clock
  BY <1>a, <1>1, TriesAppend
<1>4. s \in Seq(Nat) /\ Len(s) \in Nat
  BY LenProperties DEF Kept
<1>5. PICK n \in Nat : n = Len(s) /\ n <= l /\ n <= ClientFailures /\ Len(long) = n + 1
  BY <1>a, <1>1, <1>4, AppendProperties DEF Kept
<1>6. /\ \A j \in 1..n : long[j] = s[j]
      /\ long[n + 1] = clock
  BY <1>4, <1>5, AppendProperties
<1>7. \A j \in 1..n : s[j] \in Nat
  BY <1>4, <1>5, ElementOfSeq
<1>8. \A j \in 1..n : s[j] = h[l - n + j]
  BY <1>a, <1>1, <1>5 DEF Kept
<1>9. \A q \in 1..l : q <= l - n => q <= l - ClientFailures \/ h[q] + Window <= clock
  BY <1>a, <1>1, <1>5 DEF Kept
<1>10. PICK m \in Nat : m = Less(n + 1, ClientFailures) /\ m > 0 /\ m <= n + 1 /\ m <= ClientFailures
                        /\ (m = ClientFailures \/ m = n + 1)
  BY <1>5, ThrottleBounds DEF Less
<1>11. PICK r : r = Pushed(s) /\ r = SubSeq(long, n + 1 - m + 1, n + 1)
  <2>1. Pushed(s) = SubSeq(long, Len(long) - Less(Len(long), ClientFailures) + 1, Len(long))
    BY DEF Pushed
  <2>2. Len(long) - Less(Len(long), ClientFailures) + 1 = n + 1 - m + 1
    BY <1>5, <1>10
  <2> HIDE DEF long
  <2> QED
    BY <1>5, <2>1, <2>2
<1> HIDE DEF long
<1>12. \A j \in (n + 1 - m + 1)..(n + 1) : long[j] \in Nat
  BY <1>6, <1>7, <1>10
<1>13. r \in Seq(Nat) /\ Len(r) = m /\ \A j \in 1..m : r[j] = long[n + 1 - m + 1 + j - 1]
  <2>1. n + 1 - m + 1 \in Int /\ n + 1 \in Int /\ (n + 1) - (n + 1 - m + 1) + 1 = m
        /\ n + 1 - m + 1 <= n + 1
    BY <1>10
  <2> QED
    BY <1>11, <1>12, <2>1, SubSeqProperties
<1>14. ASSUME NEW j \in 1..m PROVE r[j] = k[l + 1 - m + j]
  <2>1. r[j] = long[n + 1 - m + j]
    <3>1. n + 1 - m + 1 + j - 1 = n + 1 - m + j
      BY <1>10
    <3> QED
      BY <1>13, <3>1
  <2>2. CASE j = m
    BY <1>3, <1>6, <2>1, <2>2
  <2>3. CASE j < m
    <3>1. n + 1 - m + j \in 1..n /\ l - n + (n + 1 - m + j) = l + 1 - m + j /\ l + 1 - m + j \in 1..l
      BY <1>5, <1>10, <2>3
    <3> QED
      BY <1>2, <1>6, <1>8, <2>1, <3>1
  <2> QED
    BY <1>10, <2>2, <2>3
<1>15. ASSUME NEW q \in 1..l + 1, q <= l + 1 - m
       PROVE  q <= l + 1 - ClientFailures \/ k[q] + Window <= clock
  BY <1>2, <1>9, <1>10, <1>15, ThrottleBounds
<1>16. Kept(r, k, clock)
  <2>1. /\ r \in Seq(Nat) /\ Len(r) <= ClientFailures /\ Len(r) <= Len(k)
    BY <1>a, <1>1, <1>5, <1>10, <1>13
  <2>2. ASSUME NEW j \in 1..Len(r) PROVE r[j] = k[Len(k) - Len(r) + j]
    <3>1. j \in 1..m /\ Len(k) - Len(r) + j = l + 1 - m + j
      BY <1>a, <1>1, <1>13
    <3> QED
      BY <1>14, <3>1
  <2>3. ASSUME NEW q \in 1..Len(k), q <= Len(k) - Len(r)
        PROVE  q <= Len(k) - ClientFailures \/ k[q] + Window <= clock
    <3>1. q \in 1..l + 1 /\ q <= l + 1 - m
      BY <1>a, <1>1, <1>13, <2>3
    <3>2. q <= l + 1 - ClientFailures \/ k[q] + Window <= clock
      BY <1>15, <3>1
    <3> QED
      BY <1>a, <1>1, <3>2, ThrottleBounds
  <2> QED
    BY <2>1, <2>2, <2>3 DEF Kept
<1> QED
  BY <1>a, <1>1, <1>11, <1>16

\* The pop_front of retryAfter.
LEMMA KeptRecent ==
    ASSUME clock \in Nat, NEW h, Tries(h, clock), NEW s, Kept(s, h, clock)
    PROVE  /\ Kept(Recent(s), h, clock)
           /\ Len(Recent(s)) > 0 => Recent(s)[1] + Window > clock
<1>1. PICK l \in Nat : l = Len(h)
  BY TriesAppend
<1>2. s \in Seq(Nat) /\ Len(s) \in Nat
  BY LenProperties DEF Kept
<1>3. PICK n \in Nat : n = Len(s) /\ n <= l /\ n <= ClientFailures
  BY <1>1, <1>2 DEF Kept
<1>4. \A j \in 1..n : s[j] \in Nat
  BY <1>2, <1>3, ElementOfSeq
<1>5. \A j \in 1..n : s[j] = h[l - n + j]
  BY <1>1, <1>3 DEF Kept
<1>6. \A q \in 1..l : q <= l - n => q <= l - ClientFailures \/ h[q] + Window <= clock
  BY <1>1, <1>3 DEF Kept
<1> DEFINE Front(p) == /\ \A k \in 1..p : s[k] + Window <= clock
                       /\ p < Len(s) => s[p + 1] + Window > clock
           S == {p \in 0..n : p = n \/ s[p + 1] + Window > clock}
           p == CHOOSE p \in 0..Len(s) : Front(p)
<1>7. \E q \in 0..Len(s) : Front(q)
  <2>1. S \in SUBSET Nat /\ S # {}
    OBVIOUS
  <2>2. PICK q \in S : \A k \in S : q <= k
    <3> HIDE DEF S
    <3> QED
      BY <2>1, LeastOf
  <2>3. ASSUME NEW k \in 1..q PROVE s[k] + Window <= clock
    <3>1. k - 1 \in 0..n /\ k - 1 \notin S /\ k \in 1..n /\ k # n + 1
      BY <2>2
    <3>2. ~(s[k - 1 + 1] + Window > clock) /\ k - 1 + 1 = k
      BY <3>1
    <3> QED
      BY <1>4, <3>1, <3>2, ThrottleBounds
  <2> QED
    BY <1>3, <2>2, <2>3
<1>8. p \in 0..n /\ Front(p)
  <2> HIDE DEF Front
  <2> QED
    BY <1>3, <1>7
<1>9. Recent(s) = SubSeq(s, p + 1, n)
  BY <1>3 DEF Recent
<1> HIDE DEF p, S
<1>10. PICK r : r = Recent(s) /\ r = SubSeq(s, p + 1, n)
  BY <1>9
<1>11. r \in Seq(Nat) /\ Len(r) = n - p /\ \A j \in 1..n - p : r[j] = s[p + j]
  <2>1. p + 1 \in Int /\ n \in Int /\ \A j \in (p + 1)..n : s[j] \in Nat
    BY <1>4, <1>8
  <2>2. /\ r \in Seq(Nat) /\ Len(r) = IF p + 1 <= n THEN n - (p + 1) + 1 ELSE 0
        /\ \A j \in 1..n - (p + 1) + 1 : r[j] = s[p + 1 + j - 1]
    BY <1>10, <2>1, SubSeqProperties
  <2>3. n - (p + 1) + 1 = n - p /\ (p + 1 <= n \/ n - p = 0)
    BY <1>8
  <2>4. ASSUME NEW j \in 1..n - p PROVE r[j] = s[p + j]
    <3>1. p + 1 + j - 1 = p + j
      BY <1>8
    <3> QED
      BY <2>2, <2>3, <3>1
  <2> QED
    BY <2>2, <2>3, <2>4
<1>12. ASSUME NEW j \in 1..n - p PROVE r[j] = h[l - (n - p) + j]
  <2>1. p + j \in 1..n /\ l - n + (p + j) = l - (n - p) + j
    BY <1>8
  <2> QED
    BY <1>5, <1>11, <2>1
<1>13. ASSUME NEW q \in 1..l, q <= l - (n - p)
       PROVE  q <= l - ClientFailures \/ h[q] + Window <= clock
  <2>1. CASE q <= l - n
    BY <1>6, <2>1
  <2>2. CASE q > l - n
    <3>1. q - (l - n) \in 1..p /\ q - (l - n) \in 1..n /\ l - n + (q - (l - n)) = q
      BY <1>3, <1>8, <1>13, <2>2
    <3>2. s[q - (l - n)] = h[q] /\ s[q - (l - n)] + Window <= clock
      BY <1>5, <1>8, <3>1
    <3> QED
      BY <3>2
  <2> QED
    BY <1>3, <2>1, <2>2
<1>14. Kept(r, h, clock)
  <2>1. Len(r) = n - p /\ Len(r) <= ClientFailures /\ Len(r) <= l
    BY <1>3, <1>8, <1>11, ThrottleBounds
  <2> QED
    BY <1>1, <1>11, <1>12, <1>13, <2>1 DEF Kept
<1>15. Len(r) > 0 => r[1] + Window > clock
  BY <1>3, <1>8, <1>11
<1> QED
  BY <1>10, <1>14, <1>15

LEMMA KeptLater ==
    ASSUME NEW now \in Nat, NEW later \in Nat, now <= later, NEW h, Tries(h, now), NEW s, Kept(s, h, now)
    PROVE  Kept(s, h, later)
<1>1. \A k \in 1..Len(h) : h[k] \in Nat
  BY TriesAppend
<1>2. \A k \in 1..Len(h) : h[k] + Window <= now => h[k] + Window <= later
  BY <1>1, ThrottleBounds
<1> QED
  BY <1>2 DEF Kept

\* A client may try when fewer failures are remembered than refuse it: what is
\* then that many failures back is outdated.
LEMMA ClientDue ==
    ASSUME NEW now \in Nat, NEW h, Tries(h, now), NEW s, Kept(s, h, now), Len(s) < ClientFailures,
           NEW slots \in Nat, NEW i \in Nat, i <= slots
    PROVE  Due(h, ClientFailures - 1 + slots, i, now, [k \in Nat |-> Window])
<1>1. PICK l \in Nat : l = Len(h)
  BY TriesAppend
<1>2. \A k \in 1..l : h[k] \in Nat
  BY <1>1, TriesAppend
<1>3. PICK n \in Nat : n = Len(s) /\ n < ClientFailures /\ n <= l
  BY <1>1, LenProperties DEF Kept
<1>4. ASSUME NEW k \in 1..l, k + (ClientFailures - 1 + slots) <= l + i
      PROVE  h[k] + Window <= now
  <2> DEFINE q == l - ClientFailures + 1
  <2>1. q \in 1..l /\ k <= q /\ q <= l - n /\ ~(q <= l - ClientFailures)
    BY <1>3, <1>4, ThrottleBounds
  <2>2. h[q] + Window <= now
    BY <1>1, <1>3, <2>1 DEF Kept
  <2>3. h[k] <= h[q]
    BY <1>1, <2>1 DEF Tries, Sorted
  <2> HIDE DEF q
  <2> QED
    BY <1>2, <2>1, <2>2, <2>3, ThrottleBounds
<1> QED
  BY <1>1, <1>4 DEF Due

\* A target may be tried when its last failure has waited its delay, and so has
\* every one before: they are older, and their delays no longer.
LEMMA TargetDue ==
    ASSUME NEW now \in Nat, NEW h, Tries(h, now), h # <<>>,
           h[Len(h)] + Delay(Len(h)) <= now, NEW slots \in Nat, NEW i \in Nat, i <= slots
    PROVE  Due(h, slots, i, now, [k \in Nat |-> Delay(k)])
<1>1. PICK l \in Nat : l = Len(h)
  BY TriesAppend
<1>2. \A k \in 1..l : h[k] \in Nat
  BY <1>1, TriesAppend
<1>3. l > 0
  <2>1. h \in Seq(Nat)
    BY DEF Tries
  <2> QED
    BY <1>1, <2>1, EmptySeq
<1>4. ASSUME NEW k \in 1..l PROVE h[k] + Delay(k) <= now
  <2>1. h[k] <= h[l] /\ h[l] + Delay(l) <= now /\ h[l] \in Nat
    BY <1>1, <1>2, <1>3 DEF Tries, Sorted
  <2>2. Delay(k) <= Delay(l) /\ Delay(k) \in Nat /\ Delay(l) \in Nat
    BY DelayGrows
  <2> QED
    BY <1>2, <2>1, <2>2
<1> QED
  BY <1>1, <1>4 DEF Due

-----------------------------------------------------------------------------
(* The throttle's invariant *)

Even    == [k \in Nat |-> Window]
Growing == [k \in Nat |-> Delay(k)]
ClientGap == ClientFailures - 1 + Cardinality(Slot)
TargetGap == Cardinality(Slot)

\* What is remembered of client c in the map m, of target t in the map m, when
\* h is how it failed and i attempts of it are under way.
ClientOk(c, m, h, i, now) ==
    /\ Tries(h, now) /\ Apart(h, ClientGap, Even) /\ Due(h, ClientGap, i, now, Even)
    /\ IF c \in DOMAIN m THEN Kept(m[c], h, now) ELSE h = <<>>
TargetOk(t, m, h, i, now) ==
    /\ Tries(h, now) /\ Apart(h, TargetGap, Growing) /\ Due(h, TargetGap, i, now, Growing)
    /\ IF t \in DOMAIN m THEN h # <<>> /\ m[t] = [failures |-> Len(h), last |-> h[Len(h)]]
                         ELSE h = <<>>

Trying(c)   == {w \in Slot : attempt[w] # NoAttempt /\ attempt[w].client = c}
Guessing(t) == {w \in Slot : attempt[w] # NoAttempt /\ attempt[w].target = t}

Attempts == {NoAttempt} \union [client : Client \union {NoClient}, target : Target]
Bounded(m, K) == DOMAIN m \subseteq K /\ IsFiniteSet(DOMAIN m) /\ Cardinality(DOMAIN m) <= MaxEntries

ThrottleInv ==
    /\ clock \in Nat /\ attempt \in [Slot -> Attempts]
    /\ Bounded(clients, Client) /\ Bounded(targets, Target)
    /\ clientTries = [c \in Client |-> clientTries[c]]
    /\ targetTries = [t \in Target |-> targetTries[t]]
    /\ \A c \in Client : ClientOk(c, clients, clientTries[c], Cardinality(Trying(c)), clock)
    /\ \A t \in Target : TargetOk(t, targets, targetTries[t], Cardinality(Guessing(t)), clock)

LEMMA Gaps ==
    /\ Even \in [Nat -> Nat] /\ Growing \in [Nat -> Nat]
    /\ ClientGap \in Nat /\ TargetGap \in Nat /\ TargetGap > 0 /\ TargetGap <= ClientGap
<1>1. Cardinality(Slot) \in Nat /\ Cardinality(Slot) # 0
  BY ThrottleBounds, FS_CardinalityType, FS_EmptySet
<1> QED
  BY <1>1, DelayGrows, ThrottleBounds DEF Even, Growing, ClientGap, TargetGap

LEMMA SlotsIn ==
    ASSUME NEW S \in SUBSET Slot
    PROVE  IsFiniteSet(S) /\ Cardinality(S) \in Nat /\ Cardinality(S) <= TargetGap
BY ThrottleBounds, FS_Subset, FS_CardinalityType DEF TargetGap

LEMMA EmptyMap == DOMAIN <<>> = {}
<1>1. <<>> \in Seq(Nat) /\ Len(<<>>) = 0
  BY EmptySeq
<1> QED
  BY <1>1

LEMMA ThrottleInitInv == ThrottleInit => ThrottleInv
<1> SUFFICES ASSUME ThrottleInit PROVE ThrottleInv
  OBVIOUS
<1>1. clock \in Nat /\ attempt \in [Slot -> Attempts]
  BY DEF ThrottleInit, Attempts
<1>2. Bounded(clients, Client) /\ Bounded(targets, Target)
  BY EmptyMap, FS_EmptySet, ThrottleBounds DEF ThrottleInit, Bounded
<1>3. \A c \in Client : Cardinality(Trying(c)) \in Nat
  BY SlotsIn DEF Trying
<1>4. \A t \in Target : Cardinality(Guessing(t)) \in Nat
  BY SlotsIn DEF Guessing
<1>5. \A c \in Client : ClientOk(c, clients, clientTries[c], Cardinality(Trying(c)), clock)
  <2> SUFFICES ASSUME NEW c \in Client
               PROVE  ClientOk(c, clients, clientTries[c], Cardinality(Trying(c)), clock)
    OBVIOUS
  <2>1. clientTries[c] = <<>> /\ c \notin DOMAIN clients
    BY EmptyMap DEF ThrottleInit
  <2>2. /\ Tries(<<>>, clock) /\ Apart(<<>>, ClientGap, Even)
        /\ Due(<<>>, ClientGap, Cardinality(Trying(c)), clock, Even)
    BY <1>1, <1>3, Gaps, EmptyTries
  <2> QED
    BY <2>1, <2>2 DEF ClientOk
<1>6. \A t \in Target : TargetOk(t, targets, targetTries[t], Cardinality(Guessing(t)), clock)
  <2> SUFFICES ASSUME NEW t \in Target
               PROVE  TargetOk(t, targets, targetTries[t], Cardinality(Guessing(t)), clock)
    OBVIOUS
  <2>1. targetTries[t] = <<>> /\ t \notin DOMAIN targets
    BY EmptyMap DEF ThrottleInit
  <2>2. /\ Tries(<<>>, clock) /\ Apart(<<>>, TargetGap, Growing)
        /\ Due(<<>>, TargetGap, Cardinality(Guessing(t)), clock, Growing)
    BY <1>1, <1>4, Gaps, EmptyTries
  <2> QED
    BY <2>1, <2>2 DEF TargetOk
<1> QED
  BY <1>1, <1>2, <1>5, <1>6 DEF ThrottleInv, ThrottleInit

-----------------------------------------------------------------------------
(* The maps *)

LEMMA WithoutKeysIs ==
    ASSUME NEW m, IsFiniteSet(DOMAIN m), NEW ks, NEW e, e = WithoutKeys(m, ks)
    PROVE  /\ DOMAIN e = DOMAIN m \ ks /\ \A k \in DOMAIN e : e[k] = m[k]
           /\ IsFiniteSet(DOMAIN e) /\ Cardinality(DOMAIN e) <= Cardinality(DOMAIN m)
<1>1. (DOMAIN m \ ks) \in SUBSET DOMAIN m
  OBVIOUS
<1>2. IsFiniteSet(DOMAIN m \ ks) /\ Cardinality(DOMAIN m \ ks) <= Cardinality(DOMAIN m)
  BY <1>1, FS_Subset
<1> QED
  BY <1>2 DEF WithoutKeys

\* prune leaves room for one entry more.
Trimmed(e, m) ==
    /\ DOMAIN e \subseteq DOMAIN m /\ \A k \in DOMAIN e : e[k] = m[k]
    /\ IsFiniteSet(DOMAIN e) /\ Cardinality(DOMAIN e) < MaxEntries

LEMMA TrimmedIs ==
    ASSUME NEW m, IsFiniteSet(DOMAIN m), Cardinality(DOMAIN m) <= MaxEntries, NEW ks, NEW last,
           NEW e, LET kept == WithoutKeys(m, ks) IN
                  \/ ~Full(m) /\ e = m
                  \/ ~Full(kept) /\ e = kept
                  \/ last \in DOMAIN kept /\ e = WithoutKeys(kept, {last})
    PROVE  Trimmed(e, m)
<1> DEFINE kept == WithoutKeys(m, ks)
<1>1. MaxEntries \in Nat /\ Cardinality(DOMAIN m) \in Nat
  BY ThrottleBounds, FS_CardinalityType
<1>2. /\ DOMAIN kept \subseteq DOMAIN m /\ \A k \in DOMAIN kept : kept[k] = m[k]
      /\ IsFiniteSet(DOMAIN kept) /\ Cardinality(DOMAIN kept) <= Cardinality(DOMAIN m)
  <2>1. PICK d : d = kept
    OBVIOUS
  <2>2. /\ DOMAIN d = DOMAIN m \ ks /\ \A k \in DOMAIN d : d[k] = m[k]
        /\ IsFiniteSet(DOMAIN d) /\ Cardinality(DOMAIN d) <= Cardinality(DOMAIN m)
    BY <2>1, WithoutKeysIs
  <2> QED
    BY <2>1, <2>2
<1>3. Cardinality(DOMAIN kept) \in Nat
  BY <1>2, FS_CardinalityType
<1> HIDE DEF kept
<1>4. CASE ~Full(m) /\ e = m
  BY <1>1, <1>4 DEF Trimmed, Full
<1>5. CASE ~Full(kept) /\ e = kept
  BY <1>1, <1>2, <1>3, <1>5 DEF Trimmed, Full
<1>6. CASE last \in DOMAIN kept /\ e = WithoutKeys(kept, {last})
  <2>1. /\ DOMAIN e = DOMAIN kept \ {last} /\ \A k \in DOMAIN e : e[k] = kept[k]
        /\ IsFiniteSet(DOMAIN e)
    <3>1. PICK d : d = kept /\ IsFiniteSet(DOMAIN d) /\ e = WithoutKeys(d, {last})
      BY <1>2, <1>6
    <3> QED
      BY <3>1, WithoutKeysIs
  <2>2. Cardinality(DOMAIN kept \ {last}) = Cardinality(DOMAIN kept) - 1
    BY <1>2, <1>6, FS_RemoveElement
  <2> QED
    BY <1>1, <1>2, <1>3, <2>1, <2>2 DEF Trimmed
<1> QED
  BY <1>4, <1>5, <1>6 DEF kept

LEMMA ClientsTrimmed ==
    ASSUME Bounded(clients, Client), NEW e \in PrunedClients PROVE Trimmed(e, clients)
<1> DEFINE ks == {k \in DOMAIN clients : clients[k] = <<>> \/ Latest(clients[k]) + Window <= clock}
           kept == WithoutKeys(clients, ks)
<1>1. \E last : \/ ~Full(clients) /\ e = clients
                \/ ~Full(kept) /\ e = kept
                \/ last \in DOMAIN kept /\ e = WithoutKeys(kept, {last})
  BY DEF PrunedClients, Pruned
<1>2. PICK last : \/ ~Full(clients) /\ e = clients
                  \/ ~Full(kept) /\ e = kept
                  \/ last \in DOMAIN kept /\ e = WithoutKeys(kept, {last})
  BY <1>1
<1> HIDE DEF ks
<1> QED
  BY <1>2, TrimmedIs DEF Bounded

LEMMA TargetsTrimmed ==
    ASSUME Bounded(targets, Target), NEW e \in PrunedTargets PROVE Trimmed(e, targets)
<1> DEFINE ks == {k \in DOMAIN targets : Quiet(targets[k])}
           kept == WithoutKeys(targets, ks)
<1>1. \E last : \/ ~Full(targets) /\ e = targets
                \/ ~Full(kept) /\ e = kept
                \/ last \in DOMAIN kept /\ e = WithoutKeys(kept, {last})
  BY DEF PrunedTargets, Pruned
<1>2. PICK last : \/ ~Full(targets) /\ e = targets
                  \/ ~Full(kept) /\ e = kept
                  \/ last \in DOMAIN kept /\ e = WithoutKeys(kept, {last})
  BY <1>1
<1> HIDE DEF ks
<1> QED
  BY <1>2, TrimmedIs DEF Bounded

LEMMA BoundedKey ==
    ASSUME NEW m, NEW K, Bounded(m, K), NEW e, Trimmed(e, m), NEW k \in K, NEW v
    PROVE  Bounded(WithKey(e, k, v), K) /\ Bounded(e, K)
<1>1. DOMAIN WithKey(e, k, v) = DOMAIN e \union {k}
  BY DEF WithKey
<1>2. IsFiniteSet(DOMAIN e \union {k}) /\ Cardinality(DOMAIN e \union {k}) <= Cardinality(DOMAIN e) + 1
  <2>1. IsFiniteSet(DOMAIN e)
    BY DEF Trimmed
  <2>2. Cardinality(DOMAIN e) \in Nat
    BY <2>1, FS_CardinalityType
  <2> QED
    BY <2>1, <2>2, FS_AddElement
<1>3. Cardinality(DOMAIN e) \in Nat /\ Cardinality(DOMAIN e \union {k}) \in Nat /\ MaxEntries \in Nat
  BY <1>2, FS_CardinalityType, ThrottleBounds DEF Trimmed
<1> QED
  BY <1>1, <1>2, <1>3 DEF Bounded, Trimmed

-----------------------------------------------------------------------------
(* One client, one target *)

\* Nothing but time passes, or its entry is dropped and its history with it.
LEMMA ClientStays ==
    ASSUME NEW c, NEW m, NEW h, NEW i \in Nat, NEW now \in Nat, ClientOk(c, m, h, i, now),
           NEW later \in Nat, now <= later, NEW j \in Nat, j <= i,
           NEW e, c \in DOMAIN e => c \in DOMAIN m /\ e[c] = m[c]
    PROVE  ClientOk(c, e, IF c \in DOMAIN e THEN h ELSE <<>>, j, later)
<1>1. CASE c \in DOMAIN e
  <2>1. Tries(h, now) /\ Apart(h, ClientGap, Even) /\ Due(h, ClientGap, i, now, Even)
    BY DEF ClientOk
  <2>2. Due(h, ClientGap, j, later, Even) /\ Tries(h, later)
    BY <2>1, Gaps, DueLater
  <2>3. Kept(m[c], h, now)
    BY <1>1 DEF ClientOk
  <2>4. Kept(e[c], h, later)
    BY <1>1, <2>1, <2>3, KeptLater
  <2> QED
    BY <1>1, <2>1, <2>2, <2>4 DEF ClientOk
<1>2. CASE c \notin DOMAIN e
  <2>1. Tries(<<>>, later) /\ Apart(<<>>, ClientGap, Even) /\ Due(<<>>, ClientGap, j, later, Even)
    BY Gaps, EmptyTries
  <2> QED
    BY <1>2, <2>1 DEF ClientOk
<1> QED
  BY <1>1, <1>2

LEMMA TargetStays ==
    ASSUME NEW t, NEW m, NEW h, NEW i \in Nat, NEW now \in Nat, TargetOk(t, m, h, i, now),
           NEW later \in Nat, now <= later, NEW j \in Nat, j <= i,
           NEW e, t \in DOMAIN e => t \in DOMAIN m /\ e[t] = m[t]
    PROVE  TargetOk(t, e, IF t \in DOMAIN e THEN h ELSE <<>>, j, later)
<1>1. CASE t \in DOMAIN e
  <2>1. Tries(h, now) /\ Apart(h, TargetGap, Growing) /\ Due(h, TargetGap, i, now, Growing)
    BY DEF TargetOk
  <2>2. Due(h, TargetGap, j, later, Growing) /\ Tries(h, later)
    BY <2>1, Gaps, DueLater
  <2> QED
    BY <1>1, <2>1, <2>2 DEF TargetOk
<1>2. CASE t \notin DOMAIN e
  <2>1. Tries(<<>>, later) /\ Apart(<<>>, TargetGap, Growing) /\ Due(<<>>, TargetGap, j, later, Growing)
    BY Gaps, EmptyTries
  <2> QED
    BY <1>2, <2>1 DEF TargetOk
<1> QED
  BY <1>1, <1>2

\* retryAfter drops a client's outdated failures.
LEMMA ClientAges ==
    ASSUME clock \in Nat, NEW c, NEW m, NEW h, NEW i \in Nat, ClientOk(c, m, h, i, clock), c \in DOMAIN m,
           NEW e, DOMAIN e = DOMAIN m, e[c] = Recent(m[c])
    PROVE  /\ ClientOk(c, e, h, i, clock) /\ Len(e[c]) \in Nat
           /\ Len(e[c]) > 0 => e[c][1] \in Nat /\ e[c][1] + Window > clock
<1>1. Tries(h, clock) /\ Kept(m[c], h, clock)
  BY DEF ClientOk
<1>2. Kept(Recent(m[c]), h, clock)
  BY <1>1, KeptRecent
<1>3. Len(Recent(m[c])) > 0 => Recent(m[c])[1] + Window > clock
  BY <1>1, KeptRecent
<1>4. Recent(m[c]) \in Seq(Nat)
  BY <1>2 DEF Kept
<1>5. Len(Recent(m[c])) \in Nat
  BY <1>4, LenProperties
<1>6. Len(Recent(m[c])) > 0 => Recent(m[c])[1] \in Nat
  BY <1>4, <1>5, ElementOfSeq
<1> QED
  BY <1>2, <1>3, <1>5, <1>6 DEF ClientOk

\* retryAfter lets one more attempt be made.
LEMMA ClientAdmitted ==
    ASSUME NEW c, NEW m, NEW h, NEW i \in Nat, NEW now \in Nat, ClientOk(c, m, h, i, now),
           c \in DOMAIN m => Len(m[c]) < ClientFailures, NEW j \in Nat, j <= TargetGap
    PROVE  ClientOk(c, m, h, j, now)
<1>1. CASE c \in DOMAIN m
  <2>1. Tries(h, now) /\ Kept(m[c], h, now)
    BY <1>1 DEF ClientOk
  <2>2. Due(h, ClientGap, j, now, Even)
    BY <1>1, <2>1, Gaps, ClientDue DEF ClientGap, TargetGap, Even
  <2> QED
    BY <2>2 DEF ClientOk
<1>2. CASE c \notin DOMAIN m
  <2>1. h = <<>>
    BY <1>2 DEF ClientOk
  <2>2. Due(<<>>, ClientGap, j, now, Even)
    BY Gaps, EmptyTries
  <2> QED
    BY <2>1, <2>2 DEF ClientOk
<1> QED
  BY <1>1, <1>2

LEMMA TargetAdmitted ==
    ASSUME NEW t, NEW m, NEW h, NEW i \in Nat, NEW now \in Nat, TargetOk(t, m, h, i, now),
           t \in DOMAIN m => m[t].last + Delay(m[t].failures) <= now, NEW j \in Nat, j <= TargetGap
    PROVE  TargetOk(t, m, h, j, now)
<1>1. CASE t \in DOMAIN m
  <2>1. Tries(h, now) /\ h # <<>> /\ m[t] = [failures |-> Len(h), last |-> h[Len(h)]]
    BY <1>1 DEF TargetOk
  <2>2. h[Len(h)] + Delay(Len(h)) <= now
    BY <1>1, <2>1
  <2>3. Due(h, TargetGap, j, now, Growing)
    BY <2>1, <2>2, Gaps, TargetDue DEF TargetGap, Growing
  <2> QED
    BY <2>3 DEF TargetOk
<1>2. CASE t \notin DOMAIN m
  <2>1. h = <<>>
    BY <1>2 DEF TargetOk
  <2>2. Due(<<>>, TargetGap, j, now, Growing)
    BY Gaps, EmptyTries
  <2> QED
    BY <2>1, <2>2 DEF TargetOk
<1> QED
  BY <1>1, <1>2

\* An attempt under way fails, after prune.
LEMMA ClientFails ==
    ASSUME clock \in Nat, NEW c, NEW m, NEW h, NEW i \in Nat, 0 < i, i <= TargetGap,
           ClientOk(c, m, h, i, clock), NEW e, Trimmed(e, m), NEW g, g = IF c \in DOMAIN e THEN h ELSE <<>>
    PROVE  ClientOk(c, WithKey(e, c, Pushed(IF c \in DOMAIN e THEN e[c] ELSE <<>>)), Append(g, clock),
                    i - 1, clock)
<1> DEFINE s == IF c \in DOMAIN e THEN e[c] ELSE <<>>
<1>1. ClientOk(c, e, g, i, clock)
  <2>1. (c \in DOMAIN e => c \in DOMAIN m /\ e[c] = m[c]) /\ i <= i /\ clock <= clock
    BY DEF Trimmed
  <2> QED
    BY <2>1, ClientStays
<1>2. Tries(g, clock) /\ Apart(g, ClientGap, Even) /\ Due(g, ClientGap, i, clock, Even)
  BY <1>1 DEF ClientOk
<1>3. Kept(s, g, clock)
  <2>1. CASE c \in DOMAIN e
    BY <1>1, <2>1 DEF ClientOk
  <2>2. CASE c \notin DOMAIN e
    <3>1. Kept(<<>>, <<>>, clock)
      BY EmptyTries
    <3> QED
      BY <2>2, <3>1
  <2> QED
    BY <2>1, <2>2
<1>4. i \in Nat /\ 0 < i /\ i <= ClientGap
  BY Gaps
<1>5. Apart(Append(g, clock), ClientGap, Even) /\ Due(Append(g, clock), ClientGap, i - 1, clock, Even)
  BY <1>2, <1>4, Gaps, DueAppend
<1>6. Tries(Append(g, clock), clock)
  BY <1>2, TriesAppend
<1>7. Kept(Pushed(s), Append(g, clock), clock)
  BY <1>2, <1>3, KeptPushed
<1> HIDE DEF s
<1>8. PICK f : f = WithKey(e, c, Pushed(s)) /\ c \in DOMAIN f /\ f[c] = Pushed(s)
  <2>1. PICK f : f = WithKey(e, c, Pushed(s))
    OBVIOUS
  <2>2. DOMAIN f = DOMAIN e \union {c} /\ f[c] = Pushed(s)
    BY <2>1 DEF WithKey
  <2> QED
    BY <2>1, <2>2
<1>9. ClientOk(c, f, Append(g, clock), i - 1, clock)
  BY <1>5, <1>6, <1>7, <1>8 DEF ClientOk
<1> QED
  BY <1>8, <1>9 DEF s

LEMMA TargetFails ==
    ASSUME clock \in Nat, NEW t, NEW m, NEW h, NEW i \in Nat, 0 < i, i <= TargetGap,
           TargetOk(t, m, h, i, clock), NEW e, Trimmed(e, m), NEW g, g = IF t \in DOMAIN e THEN h ELSE <<>>
    PROVE  TargetOk(t, WithKey(e, t, IF t \in DOMAIN e THEN Counted(e[t])
                                     ELSE [failures |-> 1, last |-> clock]),
                    IF t \in DOMAIN e /\ Quiet(e[t]) THEN <<clock>> ELSE Append(g, clock), i - 1, clock)
<1> DEFINE r == IF t \in DOMAIN e THEN Counted(e[t]) ELSE [failures |-> 1, last |-> clock]
           n == IF t \in DOMAIN e /\ Quiet(e[t]) THEN <<clock>> ELSE Append(g, clock)
<1>1. TargetOk(t, e, g, i, clock)
  <2>1. (t \in DOMAIN e => t \in DOMAIN m /\ e[t] = m[t]) /\ i <= i /\ clock <= clock
    BY DEF Trimmed
  <2> QED
    BY <2>1, TargetStays
<1>2. Tries(g, clock) /\ Apart(g, TargetGap, Growing) /\ Due(g, TargetGap, i, clock, Growing)
  BY <1>1 DEF TargetOk
<1>3. /\ Apart(Append(g, clock), TargetGap, Growing) /\ Due(Append(g, clock), TargetGap, i - 1, clock, Growing)
      /\ Tries(Append(g, clock), clock) /\ Len(Append(g, clock)) = Len(g) + 1
      /\ Append(g, clock)[Len(g) + 1] = clock /\ Len(g) \in Nat
  BY <1>2, Gaps, DueAppend, TriesAppend
<1>4. /\ Tries(<<clock>>, clock) /\ Apart(<<clock>>, TargetGap, Growing)
      /\ Due(<<clock>>, TargetGap, i - 1, clock, Growing)
  BY Gaps, DueFirst
<1>5. /\ Tries(n, clock) /\ Apart(n, TargetGap, Growing) /\ Due(n, TargetGap, i - 1, clock, Growing)
  BY <1>3, <1>4
<1>6. n # <<>> /\ r = [failures |-> Len(n), last |-> n[Len(n)]]
  <2>1. CASE t \in DOMAIN e /\ Quiet(e[t])
    BY <2>1 DEF Counted
  <2>2. CASE t \in DOMAIN e /\ ~Quiet(e[t])
    <3>1. e[t] = [failures |-> Len(g), last |-> g[Len(g)]]
      BY <1>1, <2>2 DEF TargetOk
    <3>2. n = Append(g, clock) /\ r = [failures |-> Len(g) + 1, last |-> clock]
      BY <2>2, <3>1 DEF Counted
    <3>3. Len(n) # 0
      BY <1>3, <3>2
    <3> QED
      BY <1>3, <3>2, <3>3, EmptySeq
  <2>3. CASE t \notin DOMAIN e
    <3>1. n = Append(<<>>, clock) /\ r = [failures |-> 1, last |-> clock] /\ g = <<>>
      BY <2>3
    <3> QED
      BY <3>1
  <2> QED
    BY <2>1, <2>2, <2>3
<1> HIDE DEF r, n
<1>7. PICK f : f = WithKey(e, t, r) /\ t \in DOMAIN f /\ f[t] = r
  <2>1. PICK f : f = WithKey(e, t, r)
    OBVIOUS
  <2>2. DOMAIN f = DOMAIN e \union {t} /\ f[t] = r
    BY <2>1 DEF WithKey
  <2> QED
    BY <2>1, <2>2
<1>8. TargetOk(t, f, n, i - 1, clock)
  BY <1>5, <1>6, <1>7 DEF TargetOk
<1> QED
  BY <1>7, <1>8 DEF r, n

-----------------------------------------------------------------------------
(* The steps *)

\* The attempts of a key, and of all the keys that is not of.
LEMMA Attempted ==
    /\ \A c : IsFiniteSet(Trying(c)) /\ Cardinality(Trying(c)) \in Nat /\ Cardinality(Trying(c)) <= TargetGap
    /\ \A t : /\ IsFiniteSet(Guessing(t)) /\ Cardinality(Guessing(t)) \in Nat
              /\ Cardinality(Guessing(t)) <= TargetGap
BY SlotsIn DEF Trying, Guessing

LEMMA AttemptedNext ==
    /\ \A c : Cardinality(Trying(c)') \in Nat /\ Cardinality(Trying(c)') <= TargetGap
    /\ \A t : Cardinality(Guessing(t)') \in Nat /\ Cardinality(Guessing(t)') <= TargetGap
<1>1. \A c : Trying(c)' \in SUBSET Slot
  BY DEF Trying
<1>2. \A t : Guessing(t)' \in SUBSET Slot
  BY DEF Guessing
<1> QED
  BY <1>1, <1>2, SlotsIn

LEMMA AttemptEnds ==
    ASSUME ThrottleInv, NEW w \in Slot, attempt[w] # NoAttempt, attempt' = [attempt EXCEPT ![w] = NoAttempt]
    PROVE  /\ \A c : Cardinality(Trying(c)') <= Cardinality(Trying(c))
           /\ \A t : Cardinality(Guessing(t)') <= Cardinality(Guessing(t))
           /\ \A c : c = attempt[w].client => /\ Cardinality(Trying(c)') = Cardinality(Trying(c)) - 1
                                              /\ Cardinality(Trying(c)) > 0
           /\ \A t : t = attempt[w].target => /\ Cardinality(Guessing(t)') = Cardinality(Guessing(t)) - 1
                                              /\ Cardinality(Guessing(t)) > 0
<1>1. attempt \in [Slot -> Attempts]
  BY DEF ThrottleInv
<1>2. \A c : Trying(c)' = Trying(c) \ {w}
  BY <1>1 DEF Trying
<1>3. \A t : Guessing(t)' = Guessing(t) \ {w}
  BY <1>1 DEF Guessing
<1>4. \A c : c = attempt[w].client => w \in Trying(c)
  BY DEF Trying
<1>5. \A t : t = attempt[w].target => w \in Guessing(t)
  BY DEF Guessing
<1>6. \A c : /\ Cardinality(Trying(c) \ {w}) <= Cardinality(Trying(c))
             /\ w \in Trying(c) => Cardinality(Trying(c) \ {w}) = Cardinality(Trying(c)) - 1
             /\ Cardinality(Trying(c) \ {w}) \in Nat
  <2> SUFFICES ASSUME NEW c
               PROVE  /\ Cardinality(Trying(c) \ {w}) <= Cardinality(Trying(c))
                      /\ w \in Trying(c) => Cardinality(Trying(c) \ {w}) = Cardinality(Trying(c)) - 1
                      /\ Cardinality(Trying(c) \ {w}) \in Nat
    OBVIOUS
  <2>1. PICK S : S = Trying(c) /\ IsFiniteSet(S)
    BY Attempted
  <2>2. (S \ {w}) \in SUBSET S /\ IsFiniteSet(S \ {w})
    BY <2>1, FS_Subset
  <2> QED
    BY <2>1, <2>2, FS_Subset, FS_RemoveElement, FS_CardinalityType
<1>7. \A t : /\ Cardinality(Guessing(t) \ {w}) <= Cardinality(Guessing(t))
             /\ w \in Guessing(t) => Cardinality(Guessing(t) \ {w}) = Cardinality(Guessing(t)) - 1
             /\ Cardinality(Guessing(t) \ {w}) \in Nat
  <2> SUFFICES ASSUME NEW t
               PROVE  /\ Cardinality(Guessing(t) \ {w}) <= Cardinality(Guessing(t))
                      /\ w \in Guessing(t) => Cardinality(Guessing(t) \ {w}) = Cardinality(Guessing(t)) - 1
                      /\ Cardinality(Guessing(t) \ {w}) \in Nat
    OBVIOUS
  <2>1. PICK S : S = Guessing(t) /\ IsFiniteSet(S)
    BY Attempted
  <2>2. (S \ {w}) \in SUBSET S /\ IsFiniteSet(S \ {w})
    BY <2>1, FS_Subset
  <2> QED
    BY <2>1, <2>2, FS_Subset, FS_RemoveElement, FS_CardinalityType
<1>8. \A c : Cardinality(Trying(c)) \in Nat
  BY Attempted
<1>9. \A t : Cardinality(Guessing(t)) \in Nat
  BY Attempted
<1>10. ASSUME NEW c, w \in Trying(c) PROVE Cardinality(Trying(c)) > 0
  <2>1. PICK i \in Nat, j \in Nat :
            i = Cardinality(Trying(c)) /\ j = Cardinality(Trying(c) \ {w}) /\ j = i - 1
    BY <1>6, <1>8, <1>10
  <2> QED
    BY <2>1
<1>11. ASSUME NEW t, w \in Guessing(t) PROVE Cardinality(Guessing(t)) > 0
  <2>1. PICK i \in Nat, j \in Nat :
            i = Cardinality(Guessing(t)) /\ j = Cardinality(Guessing(t) \ {w}) /\ j = i - 1
    BY <1>7, <1>9, <1>11
  <2> QED
    BY <2>1
<1> QED
  BY <1>2, <1>3, <1>4, <1>5, <1>6, <1>7, <1>10, <1>11

\* A new attempt counts for its client and its target only.
LEMMA AttemptStarts ==
    ASSUME ThrottleInv, NEW w \in Slot, attempt[w] = NoAttempt, NEW c, NEW t \in Target,
           attempt' = [attempt EXCEPT ![w] = [client |-> c, target |-> t]]
    PROVE  /\ \A d : d # c => Trying(d)' = Trying(d)
           /\ \A u : u # t => Guessing(u)' = Guessing(u)
<1>1. attempt \in [Slot -> Attempts]
  BY DEF ThrottleInv
<1>2. [client |-> c, target |-> t] # NoAttempt
  BY ThrottleBounds DEF NoAttempt
<1>3. \A v \in Slot : attempt'[v] = IF v = w THEN [client |-> c, target |-> t] ELSE attempt[v]
  BY <1>1
<1>4. \A d : d # c => Trying(d)' = Trying(d)
  <2> SUFFICES ASSUME NEW d, d # c, NEW v \in Slot
               PROVE  (attempt'[v] # NoAttempt /\ attempt'[v].client = d)
                      <=> (attempt[v] # NoAttempt /\ attempt[v].client = d)
    BY DEF Trying
  <2> QED
    BY <1>3
<1>5. \A u : u # t => Guessing(u)' = Guessing(u)
  <2> SUFFICES ASSUME NEW u, u # t, NEW v \in Slot
               PROVE  (attempt'[v] # NoAttempt /\ attempt'[v].target = u)
                      <=> (attempt[v] # NoAttempt /\ attempt[v].target = u)
    BY DEF Trying, Guessing
  <2> QED
    BY <1>3
<1> QED
  BY <1>4, <1>5

LEMMA PassInv == ThrottleInv /\ Pass => ThrottleInv'
<1> SUFFICES ASSUME ThrottleInv, Pass PROVE ThrottleInv'
  OBVIOUS
<1>1. /\ clock \in Nat /\ clock' = clock + 1 /\ clock' \in Nat /\ clock <= clock'
      /\ UNCHANGED <<clients, targets, attempt, clientTries, targetTries>>
  BY DEF ThrottleInv, Pass
<1>2. ASSUME NEW c \in Client
      PROVE  ClientOk(c, clients, clientTries[c], Cardinality(Trying(c)), clock')
  <2>1. ClientOk(c, clients, clientTries[c], Cardinality(Trying(c)), clock)
    BY DEF ThrottleInv
  <2>2. PICK i \in Nat : i = Cardinality(Trying(c)) /\ i <= i
    BY Attempted
  <2>3. clientTries[c] = IF c \in DOMAIN clients THEN clientTries[c] ELSE <<>>
    BY <2>1 DEF ClientOk
  <2>4. ClientOk(c, clients, IF c \in DOMAIN clients THEN clientTries[c] ELSE <<>>, i, clock')
    BY <1>1, <2>1, <2>2, ClientStays
  <2> QED
    BY <2>2, <2>3, <2>4
<1>3. ASSUME NEW t \in Target
      PROVE  TargetOk(t, targets, targetTries[t], Cardinality(Guessing(t)), clock')
  <2>1. TargetOk(t, targets, targetTries[t], Cardinality(Guessing(t)), clock)
    BY DEF ThrottleInv
  <2>2. PICK i \in Nat : i = Cardinality(Guessing(t)) /\ i <= i
    BY Attempted
  <2>3. targetTries[t] = IF t \in DOMAIN targets THEN targetTries[t] ELSE <<>>
    BY <2>1 DEF TargetOk
  <2>4. TargetOk(t, targets, IF t \in DOMAIN targets THEN targetTries[t] ELSE <<>>, i, clock')
    BY <1>1, <2>1, <2>2, TargetStays
  <2> QED
    BY <2>2, <2>3, <2>4
<1>4. (\A c : Trying(c)' = Trying(c)) /\ (\A t : Guessing(t)' = Guessing(t))
  BY <1>1 DEF Trying, Guessing
<1> QED
  BY <1>1, <1>2, <1>3, <1>4 DEF ThrottleInv, Bounded

LEMMA CheckInv ==
    ASSUME ThrottleInv, NEW w \in Slot, NEW c \in Client \union {NoClient}, NEW t \in Target, Check(w, c, t)
    PROVE  ThrottleInv'
<1> DEFINE late == IF c \in DOMAIN clients THEN WithKey(clients, c, Recent(clients[c])) ELSE clients
           left == IF t \in DOMAIN targets /\ Quiet(targets[t]) THEN WithoutKeys(targets, {t}) ELSE targets
           forClient == IF c \in DOMAIN late THEN ClientWait(late[c]) ELSE 0
           forTarget == IF t \in DOMAIN left THEN TargetWait(left[t]) ELSE 0
           new == [client |-> c, target |-> t]
<1>1. /\ clients' = late /\ targets' = left
      /\ attempt[w] = NoAttempt /\ targetTries' = Forgotten(targetTries, left)
      /\ attempt' = IF More(forClient, forTarget) > 0 THEN attempt ELSE [attempt EXCEPT ![w] = new]
      /\ clock' = clock /\ clientTries' = clientTries
  BY DEF Check
<1>2. /\ clock \in Nat /\ attempt \in [Slot -> Attempts]
      /\ Bounded(clients, Client) /\ Bounded(targets, Target)
      /\ clientTries = [d \in Client |-> clientTries[d]]
      /\ targetTries = [u \in Target |-> targetTries[u]]
  BY DEF ThrottleInv
<1>3. /\ DOMAIN late = DOMAIN clients /\ \A d \in DOMAIN late : d # c => late[d] = clients[d]
      /\ c \in DOMAIN late => late[c] = Recent(clients[c])
  BY DEF WithKey
<1>4. DOMAIN left \subseteq DOMAIN targets /\ \A u \in DOMAIN left : left[u] = targets[u]
  BY DEF WithoutKeys
<1>5. Bounded(late, Client) /\ Bounded(left, Target)
  <2>1. IsFiniteSet(DOMAIN left) /\ Cardinality(DOMAIN left) <= Cardinality(DOMAIN targets)
    BY <1>2, <1>4, FS_Subset DEF Bounded
  <2>2. Cardinality(DOMAIN left) \in Nat /\ Cardinality(DOMAIN targets) \in Nat /\ MaxEntries \in Nat
    BY <1>2, <2>1, FS_CardinalityType, ThrottleBounds DEF Bounded
  <2> HIDE DEF left, late
  <2> QED
    BY <1>2, <1>3, <1>4, <2>1, <2>2 DEF Bounded
<1> HIDE DEF late, left
<1>6. ASSUME NEW d \in Client
      PROVE  /\ ClientOk(d, late, clientTries[d], Cardinality(Trying(d)), clock)
             /\ d = c /\ c \in DOMAIN late =>
                    /\ Len(late[c]) \in Nat
                    /\ Len(late[c]) > 0 => late[c][1] \in Nat /\ late[c][1] + Window > clock
  <2>1. ClientOk(d, clients, clientTries[d], Cardinality(Trying(d)), clock)
    BY DEF ThrottleInv
  <2>2. PICK i \in Nat : i = Cardinality(Trying(d)) /\ i <= i
    BY Attempted
  <2>3. CASE d = c /\ c \in DOMAIN late
    <3>1. ClientOk(c, clients, clientTries[c], i, clock) /\ c \in DOMAIN clients /\ late[c] = Recent(clients[c])
      BY <1>3, <2>1, <2>2, <2>3
    <3>2. ClientOk(c, late, clientTries[c], i, clock)
      BY <1>2, <1>3, <3>1, ClientAges
    <3>3. Len(late[c]) \in Nat /\ (Len(late[c]) > 0 => late[c][1] \in Nat /\ late[c][1] + Window > clock)
      BY <1>2, <1>3, <3>1, ClientAges
    <3> QED
      BY <2>2, <2>3, <3>2, <3>3
  <2>4. CASE ~(d = c /\ c \in DOMAIN late)
    <3>1. clientTries[d] = IF d \in DOMAIN late THEN clientTries[d] ELSE <<>>
      BY <1>3, <2>1 DEF ClientOk
    <3>2. d \in DOMAIN late => d \in DOMAIN clients /\ late[d] = clients[d]
      BY <1>3, <2>4
    <3>3. clock <= clock
      BY <1>2
    <3>4. ClientOk(d, late, IF d \in DOMAIN late THEN clientTries[d] ELSE <<>>, i, clock)
      BY <1>2, <2>1, <2>2, <3>2, <3>3, ClientStays
    <3> QED
      BY <2>2, <2>4, <3>1, <3>4
  <2> QED
    BY <2>3, <2>4
<1>7. ASSUME NEW u \in Target
      PROVE  TargetOk(u, left, Forgotten(targetTries, left)[u], Cardinality(Guessing(u)), clock)
  <2>1. TargetOk(u, targets, targetTries[u], Cardinality(Guessing(u)), clock)
    BY DEF ThrottleInv
  <2>2. PICK i \in Nat : i = Cardinality(Guessing(u)) /\ i <= i
    BY Attempted
  <2>3. Forgotten(targetTries, left)[u] = IF u \in DOMAIN left THEN targetTries[u] ELSE <<>>
    BY <1>2 DEF Forgotten
  <2>4. clock <= clock
    BY <1>2
  <2>5. u \in DOMAIN left => u \in DOMAIN targets /\ left[u] = targets[u]
    BY <1>4
  <2>6. TargetOk(u, left, IF u \in DOMAIN left THEN targetTries[u] ELSE <<>>, i, clock)
    BY <1>2, <2>1, <2>2, <2>4, <2>5, TargetStays
  <2> QED
    BY <2>2, <2>3, <2>6
<1>8. /\ clientTries' = [d \in Client |-> clientTries'[d]]
      /\ targetTries' = [u \in Target |-> targetTries'[u]]
  BY <1>1, <1>2 DEF Forgotten
<1>9. CASE More(forClient, forTarget) > 0
  <2>1. attempt' = attempt
    BY <1>1, <1>9
  <2>2. (\A d : Trying(d)' = Trying(d)) /\ (\A u : Guessing(u)' = Guessing(u))
    BY <2>1 DEF Trying, Guessing
  <2> QED
    BY <1>1, <1>2, <1>5, <1>6, <1>7, <1>8, <2>1, <2>2 DEF ThrottleInv
<1>10. CASE ~(More(forClient, forTarget) > 0)
  <2>1. attempt' = [attempt EXCEPT ![w] = new] /\ attempt' \in [Slot -> Attempts]
    BY <1>1, <1>2, <1>10 DEF Attempts
  <2>2. c \in DOMAIN late => c \in Client
    BY <1>5 DEF Bounded
  <2>3. forClient \in Nat /\ (forClient = 0 => (c \in DOMAIN late => Len(late[c]) < ClientFailures))
    <3>1. CASE c \in DOMAIN late
      <4>1. /\ Len(late[c]) \in Nat
            /\ Len(late[c]) > 0 => late[c][1] \in Nat /\ late[c][1] + Window > clock
        BY <1>6, <2>2, <3>1
      <4> QED
        BY <1>2, <3>1, <4>1, ThrottleBounds DEF ClientWait
    <3>2. CASE c \notin DOMAIN late
      BY <3>2
    <3> QED
      BY <3>1, <3>2
  <2>4. /\ forTarget \in Nat
        /\ forTarget = 0 => (t \in DOMAIN left => left[t].last + Delay(left[t].failures) <= clock)
    <3>1. CASE t \in DOMAIN left
      <4>1. PICK h : Tries(h, clock) /\ h # <<>> /\ left[t] = [failures |-> Len(h), last |-> h[Len(h)]]
        BY <1>7, <3>1 DEF TargetOk
      <4>2. Len(h) \in Nat /\ h \in Seq(Nat) /\ Len(h) # 0
        BY <4>1, TriesAppend, EmptySeq DEF Tries
      <4>3. left[t].failures \in Nat /\ left[t].last \in Nat
        BY <4>1, <4>2, ElementOfSeq
      <4>4. Delay(left[t].failures) \in Nat
        BY <4>3, DelayGrows
      <4> QED
        BY <1>2, <3>1, <4>3, <4>4 DEF TargetWait
    <3>2. CASE t \notin DOMAIN left
      BY <3>2
    <3> QED
      BY <3>1, <3>2
  <2> HIDE DEF forClient, forTarget
  <2>5. forClient = 0 /\ forTarget = 0
    BY <1>10, <2>3, <2>4 DEF More
  <2>6. ASSUME NEW d \in Client
        PROVE  ClientOk(d, late, clientTries[d], Cardinality(Trying(d)'), clock)
    <3>1. CASE d = c
      <4>1. PICK i \in Nat : i = Cardinality(Trying(c))
        BY Attempted
      <4>2. PICK j \in Nat : j = Cardinality(Trying(c)') /\ j <= TargetGap
        BY AttemptedNext
      <4>3. ClientOk(c, late, clientTries[c], i, clock) /\ (c \in DOMAIN late => Len(late[c]) < ClientFailures)
        BY <1>6, <2>3, <2>5, <3>1, <4>1
      <4>4. ClientOk(c, late, clientTries[c], j, clock)
        BY <1>2, <4>2, <4>3, ClientAdmitted
      <4> QED
        BY <3>1, <4>2, <4>4
    <3>2. CASE d # c
      <4>1. Trying(d)' = Trying(d)
        BY <1>1, <2>1, <3>2, AttemptStarts
      <4> QED
        BY <1>6, <4>1
    <3> QED
      BY <3>1, <3>2
  <2>7. ASSUME NEW u \in Target
        PROVE  TargetOk(u, left, Forgotten(targetTries, left)[u], Cardinality(Guessing(u)'), clock)
    <3>1. CASE u = t
      <4>1. PICK i \in Nat : i = Cardinality(Guessing(t))
        BY Attempted
      <4>2. PICK j \in Nat : j = Cardinality(Guessing(t)') /\ j <= TargetGap
        BY AttemptedNext
      <4>3. TargetOk(t, left, Forgotten(targetTries, left)[t], i, clock)
        BY <1>7, <4>1
      <4>4. t \in DOMAIN left => left[t].last + Delay(left[t].failures) <= clock
        BY <2>4, <2>5
      <4>5. TargetOk(t, left, Forgotten(targetTries, left)[t], j, clock)
        BY <1>2, <4>2, <4>3, <4>4, TargetAdmitted
      <4> QED
        BY <3>1, <4>2, <4>5
    <3>2. CASE u # t
      <4>1. Guessing(u)' = Guessing(u)
        BY <1>1, <2>1, <3>2, AttemptStarts
      <4> QED
        BY <1>7, <4>1
    <3> QED
      BY <3>1, <3>2
  <2> QED
    BY <1>1, <1>2, <1>5, <1>8, <2>1, <2>6, <2>7 DEF ThrottleInv
<1> QED
  BY <1>9, <1>10

LEMMA FailedInv == ASSUME ThrottleInv, NEW w \in Slot, Failed(w) PROVE ThrottleInv'
<1>1. PICK c, t : c = attempt[w].client /\ t = attempt[w].target
  OBVIOUS
<1>2. /\ clock \in Nat /\ attempt \in [Slot -> Attempts]
      /\ Bounded(clients, Client) /\ Bounded(targets, Target)
      /\ clientTries = [d \in Client |-> clientTries[d]]
      /\ targetTries = [u \in Target |-> targetTries[u]]
  BY DEF ThrottleInv
<1>3. /\ attempt[w] # NoAttempt /\ attempt' = [attempt EXCEPT ![w] = NoAttempt] /\ clock' = clock
      /\ \E kept \in PrunedClients : FailedClient(c, kept)
      /\ \E kept \in PrunedTargets : FailedTarget(t, kept)
  BY <1>1 DEF Failed
<1>4. c \in Client \union {NoClient} /\ t \in Target /\ attempt' \in [Slot -> Attempts]
  BY <1>1, <1>2, <1>3 DEF Attempts
<1>5. PICK kc \in PrunedClients : FailedClient(c, kc)
  BY <1>3
<1>6. PICK kt \in PrunedTargets : FailedTarget(t, kt)
  BY <1>3
<1>7. Trimmed(kc, clients) /\ Trimmed(kt, targets)
  BY <1>2, ClientsTrimmed, TargetsTrimmed
<1>8. /\ \A d \in Client : Forgotten(clientTries, kc)[d] = IF d \in DOMAIN kc THEN clientTries[d] ELSE <<>>
      /\ \A u \in Target : Forgotten(targetTries, kt)[u] = IF u \in DOMAIN kt THEN targetTries[u] ELSE <<>>
      /\ Forgotten(clientTries, kc) = [d \in Client |-> Forgotten(clientTries, kc)[d]]
      /\ Forgotten(targetTries, kt) = [u \in Target |-> Forgotten(targetTries, kt)[u]]
  BY <1>2 DEF Forgotten
<1>9. \A d \in Client : /\ ClientOk(d, clients, clientTries[d], Cardinality(Trying(d)), clock)
                        /\ d \in DOMAIN kc => d \in DOMAIN clients /\ kc[d] = clients[d]
  BY <1>7 DEF ThrottleInv, Trimmed
<1>10. \A u \in Target : /\ TargetOk(u, targets, targetTries[u], Cardinality(Guessing(u)), clock)
                         /\ u \in DOMAIN kt => u \in DOMAIN targets /\ kt[u] = targets[u]
  BY <1>7 DEF ThrottleInv, Trimmed
<1>11. clock <= clock
  BY <1>2
<1>12. ASSUME NEW d \in Client
       PROVE  ClientOk(d, clients', clientTries'[d], Cardinality(Trying(d)'), clock)
  <2>1. PICK i \in Nat : i = Cardinality(Trying(d)) /\ i <= TargetGap
    BY Attempted
  <2>2. PICK j \in Nat : j = Cardinality(Trying(d)') /\ j <= i /\ (d = c => j = i - 1 /\ i > 0)
    BY <1>1, <1>3, <2>1, AttemptEnds, AttemptedNext
  <2>3. ClientOk(d, clients, clientTries[d], i, clock)
    BY <1>9, <2>1
  <2>4. CASE d = c
    <3> DEFINE kept == IF c \in DOMAIN kc THEN kc[c] ELSE <<>>
               g == IF c \in DOMAIN kc THEN clientTries[c] ELSE <<>>
    <3>1. c # NoClient
      BY <2>4, ThrottleBounds
    <3>2. /\ clients' = WithKey(kc, c, Pushed(kept))
          /\ clientTries'[c] = Append(g, clock)
      BY <1>5, <1>8, <2>4, <3>1 DEF FailedClient
    <3>3. ClientOk(c, WithKey(kc, c, Pushed(kept)), Append(g, clock), i - 1, clock)
      BY <1>2, <1>7, <2>1, <2>2, <2>3, <2>4, ClientFails
    <3> HIDE DEF kept, g
    <3> QED
      BY <2>2, <2>4, <3>2, <3>3
  <2>5. CASE d # c
    <3>1. PICK e : e = clients' /\ (d \in DOMAIN e <=> d \in DOMAIN kc) /\ (d \in DOMAIN e => e[d] = kc[d])
      BY <1>5, <2>5 DEF FailedClient, WithKey
    <3>2. clientTries'[d] = Forgotten(clientTries, kc)[d]
      BY <1>5, <1>8, <2>5 DEF FailedClient
    <3>3. clientTries'[d] = IF d \in DOMAIN e THEN clientTries[d] ELSE <<>>
      BY <1>8, <3>1, <3>2
    <3>4. d \in DOMAIN e => d \in DOMAIN clients /\ e[d] = clients[d]
      BY <1>9, <3>1
    <3>5. ClientOk(d, e, IF d \in DOMAIN e THEN clientTries[d] ELSE <<>>, j, clock)
      BY <1>2, <1>11, <2>1, <2>2, <2>3, <3>4, ClientStays
    <3> QED
      BY <2>2, <3>1, <3>3, <3>5
  <2> QED
    BY <2>4, <2>5
<1>13. ASSUME NEW u \in Target
       PROVE  TargetOk(u, targets', targetTries'[u], Cardinality(Guessing(u)'), clock)
  <2>1. PICK i \in Nat : i = Cardinality(Guessing(u)) /\ i <= TargetGap
    BY Attempted
  <2>2. PICK j \in Nat : j = Cardinality(Guessing(u)') /\ j <= i /\ (u = t => j = i - 1 /\ i > 0)
    BY <1>1, <1>3, <2>1, AttemptEnds, AttemptedNext
  <2>3. TargetOk(u, targets, targetTries[u], i, clock)
    BY <1>10, <2>1
  <2>4. CASE u = t
    <3> DEFINE r == IF t \in DOMAIN kt THEN Counted(kt[t]) ELSE [failures |-> 1, last |-> clock]
               g == IF t \in DOMAIN kt THEN targetTries[t] ELSE <<>>
               n == IF t \in DOMAIN kt /\ Quiet(kt[t]) THEN <<clock>> ELSE Append(g, clock)
    <3>1. targets' = WithKey(kt, t, r)
      BY <1>6 DEF FailedTarget
    <3>2. targetTries'[t] = n
      BY <1>4, <1>6, <1>8 DEF FailedTarget
    <3>3. TargetOk(t, WithKey(kt, t, r), n, i - 1, clock)
      BY <1>2, <1>7, <2>1, <2>2, <2>3, <2>4, TargetFails
    <3> HIDE DEF r, g, n
    <3> QED
      BY <2>2, <2>4, <3>1, <3>2, <3>3
  <2>5. CASE u # t
    <3>1. PICK e : e = targets' /\ (u \in DOMAIN e <=> u \in DOMAIN kt) /\ (u \in DOMAIN e => e[u] = kt[u])
      BY <1>6, <2>5 DEF FailedTarget, WithKey
    <3>2. targetTries'[u] = Forgotten(targetTries, kt)[u]
      BY <1>6, <1>8, <2>5 DEF FailedTarget
    <3>3. targetTries'[u] = IF u \in DOMAIN e THEN targetTries[u] ELSE <<>>
      BY <1>8, <3>1, <3>2
    <3>4. u \in DOMAIN e => u \in DOMAIN targets /\ e[u] = targets[u]
      BY <1>10, <3>1
    <3>5. TargetOk(u, e, IF u \in DOMAIN e THEN targetTries[u] ELSE <<>>, j, clock)
      BY <1>2, <1>11, <2>1, <2>2, <2>3, <3>4, TargetStays
    <3> QED
      BY <2>2, <3>1, <3>3, <3>5
  <2> QED
    BY <2>4, <2>5
<1>14. Bounded(clients', Client)
  <2>1. CASE c = NoClient
    <3>1. clients' = kc
      BY <1>5, <2>1 DEF FailedClient
    <3>2. Cardinality(DOMAIN kc) \in Nat /\ MaxEntries \in Nat
      BY <1>7, FS_CardinalityType, ThrottleBounds DEF Trimmed
    <3> QED
      BY <1>2, <1>7, <3>1, <3>2 DEF Trimmed, Bounded
  <2>2. CASE c # NoClient
    <3>1. PICK v : clients' = WithKey(kc, c, v)
      BY <1>5, <2>2 DEF FailedClient
    <3>2. c \in Client
      BY <1>4, <2>2
    <3> QED
      BY <1>2, <1>7, <3>1, <3>2, BoundedKey
  <2> QED
    BY <2>1, <2>2
<1>15. Bounded(targets', Target)
  <2>1. PICK v : targets' = WithKey(kt, t, v)
    BY <1>6 DEF FailedTarget
  <2> QED
    BY <1>2, <1>4, <1>7, <2>1, BoundedKey
<1>16. /\ clientTries' = [d \in Client |-> clientTries'[d]]
       /\ targetTries' = [u \in Target |-> targetTries'[u]]
  BY <1>5, <1>6, <1>8 DEF FailedClient, FailedTarget
<1> QED
  BY <1>2, <1>3, <1>4, <1>12, <1>13, <1>14, <1>15, <1>16 DEF ThrottleInv, Bounded

LEMMA SucceededInv == ASSUME ThrottleInv, NEW w \in Slot, Succeeded(w) PROVE ThrottleInv'
<1>1. PICK left : left = WithoutKeys(targets, {attempt[w].target})
  OBVIOUS
<1>2. /\ attempt[w] # NoAttempt /\ attempt' = [attempt EXCEPT ![w] = NoAttempt]
      /\ targets' = left /\ targetTries' = Forgotten(targetTries, left)
      /\ UNCHANGED <<clock, clients, clientTries>>
  BY <1>1 DEF Succeeded
<1>3. /\ clock \in Nat /\ clock <= clock /\ attempt \in [Slot -> Attempts]
      /\ Bounded(clients, Client) /\ Bounded(targets, Target)
      /\ clientTries = [d \in Client |-> clientTries[d]]
      /\ targetTries = [u \in Target |-> targetTries[u]]
  BY DEF ThrottleInv
<1>4. DOMAIN left \subseteq DOMAIN targets /\ \A u \in DOMAIN left : left[u] = targets[u]
  BY <1>1 DEF WithoutKeys
<1>5. Bounded(left, Target)
  <2>1. IsFiniteSet(DOMAIN left) /\ Cardinality(DOMAIN left) <= Cardinality(DOMAIN targets)
    BY <1>3, <1>4, FS_Subset DEF Bounded
  <2>2. Cardinality(DOMAIN left) \in Nat /\ Cardinality(DOMAIN targets) \in Nat /\ MaxEntries \in Nat
    BY <1>3, <2>1, FS_CardinalityType, ThrottleBounds DEF Bounded
  <2> QED
    BY <1>3, <1>4, <2>1, <2>2 DEF Bounded
<1>6. ASSUME NEW d \in Client
      PROVE  ClientOk(d, clients, clientTries[d], Cardinality(Trying(d)'), clock)
  <2>1. PICK i \in Nat : i = Cardinality(Trying(d))
    BY Attempted
  <2>2. PICK j \in Nat : j = Cardinality(Trying(d)') /\ j <= i
    BY <1>2, <2>1, AttemptEnds, AttemptedNext
  <2>3. ClientOk(d, clients, clientTries[d], i, clock)
    BY <2>1 DEF ThrottleInv
  <2>4. clientTries[d] = IF d \in DOMAIN clients THEN clientTries[d] ELSE <<>>
    BY <2>3 DEF ClientOk
  <2>5. ClientOk(d, clients, IF d \in DOMAIN clients THEN clientTries[d] ELSE <<>>, j, clock)
    BY <1>3, <2>2, <2>3, ClientStays
  <2> QED
    BY <2>2, <2>4, <2>5
<1>7. ASSUME NEW u \in Target
      PROVE  TargetOk(u, left, Forgotten(targetTries, left)[u], Cardinality(Guessing(u)'), clock)
  <2>1. PICK i \in Nat : i = Cardinality(Guessing(u))
    BY Attempted
  <2>2. PICK j \in Nat : j = Cardinality(Guessing(u)') /\ j <= i
    BY <1>2, <2>1, AttemptEnds, AttemptedNext
  <2>3. TargetOk(u, targets, targetTries[u], i, clock)
    BY <2>1 DEF ThrottleInv
  <2>4. Forgotten(targetTries, left)[u] = IF u \in DOMAIN left THEN targetTries[u] ELSE <<>>
    BY <1>3 DEF Forgotten
  <2>5. u \in DOMAIN left => u \in DOMAIN targets /\ left[u] = targets[u]
    BY <1>4
  <2>6. TargetOk(u, left, IF u \in DOMAIN left THEN targetTries[u] ELSE <<>>, j, clock)
    BY <1>3, <2>2, <2>3, <2>5, TargetStays
  <2> QED
    BY <2>2, <2>4, <2>6
<1>8. attempt' \in [Slot -> Attempts] /\ targetTries' = [u \in Target |-> targetTries'[u]]
  BY <1>2, <1>3 DEF Attempts, Forgotten
<1> QED
  BY <1>2, <1>3, <1>5, <1>6, <1>7, <1>8 DEF ThrottleInv

LEMMA ThrottleStepInv == ThrottleInv /\ [ThrottleNext]_throttleVars => ThrottleInv'
<1> SUFFICES ASSUME ThrottleInv, [ThrottleNext]_throttleVars PROVE ThrottleInv'
  OBVIOUS
<1>1. CASE Pass
  BY <1>1, PassInv
<1>2. ASSUME NEW w \in Slot, Failed(w) PROVE ThrottleInv'
  BY <1>2, FailedInv
<1>3. ASSUME NEW w \in Slot, Succeeded(w) PROVE ThrottleInv'
  BY <1>3, SucceededInv
<1>4. ASSUME NEW w \in Slot, NEW c \in Client \union {NoClient}, NEW t \in Target, Check(w, c, t)
      PROVE  ThrottleInv'
  BY <1>4, CheckInv
<1>5. CASE UNCHANGED throttleVars
  <2>1. (\A c : Trying(c)' = Trying(c)) /\ (\A t : Guessing(t)' = Guessing(t))
    BY <1>5 DEF throttleVars, Trying, Guessing
  <2> QED
    BY <1>5, <2>1 DEF throttleVars, ThrottleInv, Bounded
<1> QED
  BY <1>1, <1>2, <1>3, <1>4, <1>5 DEF ThrottleNext

LEMMA ThrottleAlways == ThrottleSpec => []ThrottleInv
BY ThrottleInitInv, ThrottleStepInv, PTL DEF ThrottleSpec

-----------------------------------------------------------------------------
(* The theorems of the throttle *)

\* Neither map outgrows kMaxEntries, prune having made room before an entry is
\* added, and no entry of clients_ holds more than kClientFailures.
THEOREM ThrottleMapsBounded == ThrottleSpec => []MapsBounded
<1>1. ThrottleInv => MapsBounded
  <2> SUFFICES ASSUME ThrottleInv PROVE MapsBounded
    OBVIOUS
  <2>1. ASSUME NEW c \in DOMAIN clients PROVE Len(clients[c]) <= ClientFailures
    <3>1. c \in Client
      BY DEF ThrottleInv, Bounded
    <3>2. Kept(clients[c], clientTries[c], clock)
      BY <3>1 DEF ThrottleInv, ClientOk
    <3> QED
      BY <3>2 DEF Kept
  <2> QED
    BY <2>1 DEF ThrottleInv, Bounded, MapsBounded
<1> QED
  BY <1>1, ThrottleAlways, PTL

\* A client that is remembered fails at most kClientFailures times within
\* kWindowMs, but for the attempts retryAfter had let through before.
THEOREM ThrottleHoldsClients == ThrottleSpec => []ClientHeld
<1>1. ThrottleInv => ClientHeld
  <2> SUFFICES ASSUME ThrottleInv, NEW c \in Client, NEW k \in 1..Len(clientTries[c]),
                      k + ClientGap <= Len(clientTries[c])
               PROVE  clientTries[c][k + ClientGap] >= clientTries[c][k] + Window
    BY DEF ClientHeld, Spaced, ClientGap
  <2>1. Apart(clientTries[c], ClientGap, Even)
    BY DEF ThrottleInv, ClientOk
  <2>2. clientTries[c][k + ClientGap] >= clientTries[c][k] + Even[k]
    BY <2>1 DEF Apart
  <2>3. k \in Nat
    BY TriesAppend DEF ThrottleInv, ClientOk
  <2> QED
    BY <2>2, <2>3 DEF Even
<1> QED
  BY <1>1, ThrottleAlways, PTL

\* After a target's k-th failure only attempts let through before fail within
\* targetDelayMs(k).
THEOREM ThrottleSlowsTargets == ThrottleSpec => []TargetSlowed
<1>1. ThrottleInv => TargetSlowed
  <2> SUFFICES ASSUME ThrottleInv, NEW t \in Target, NEW k \in 1..Len(targetTries[t]),
                      k + TargetGap <= Len(targetTries[t])
               PROVE  targetTries[t][k + TargetGap] >= targetTries[t][k] + Delay(k)
    BY DEF TargetSlowed, Spaced, TargetGap
  <2>1. Apart(targetTries[t], TargetGap, Growing)
    BY DEF ThrottleInv, TargetOk
  <2>2. targetTries[t][k + TargetGap] >= targetTries[t][k] + Growing[k]
    BY <2>1 DEF Apart
  <2>3. k \in Nat
    BY TriesAppend DEF ThrottleInv, TargetOk
  <2> QED
    BY <2>2, <2>3 DEF Growing
<1> QED
  BY <1>1, ThrottleAlways, PTL

-----------------------------------------------------------------------------
(* The store's invariant: the counts, and whose files a link has *)

Stored == [owner : Member, hash : Hash, at : {"sending", "ready"} \union Link]

StorageTyped ==
    /\ present \subseteq Member /\ refs \in [Hash -> Nat]
    /\ item \in [Item -> {NoFile} \union Stored]
    /\ link \in [Link -> {NoLink} \union [owner : Member, lapsed : BOOLEAN]]

\* The files of a link are its owner's, and a link that is none has none.
FilesHeld == \A i \in Item : item[i].at \in Link =>
                 link[item[i].at] # NoLink /\ link[item[i].at].owner = item[i].owner

StorageInv == StorageTyped /\ FilesHeld /\ CountsMatch

LEMMA ItemsIn ==
    ASSUME NEW S \in SUBSET Item PROVE IsFiniteSet(S) /\ Cardinality(S) \in Nat
BY LimitsNat, FS_Subset, FS_CardinalityType

LEMMA MinusIs == ASSUME NEW m \in Nat, NEW n \in Nat
                 PROVE  Minus(m, n) \in Nat /\ Minus(m, n) >= m - n /\ (n <= m => Minus(m, n) = m - n)
BY DEF Minus

LEMMA StorageInitInv == StorageInit => StorageInv
<1> SUFFICES ASSUME StorageInit PROVE StorageInv
  OBVIOUS
<1>1. StorageTyped /\ FilesHeld
  BY NamesApart DEF StorageInit, StorageTyped, FilesHeld, NoFile
<1>2. \A h \in Hash : Rows(h) = {} /\ refs[h] = 0
  BY NamesApart DEF StorageInit, Rows, NoFile
<1>3. CountsMatch
  BY <1>2, FS_EmptySet DEF CountsMatch
<1> QED
  BY <1>1, <1>3 DEF StorageInv

\* A step that no file row and no count has a part in.
LEMMA RowsStay ==
    ASSUME CountsMatch, UNCHANGED <<refs, repeated>>,
           \A i \in Item : /\ item'[i].at \in Link <=> item[i].at \in Link
                           /\ item[i].at \in Link => item'[i].hash = item[i].hash
    PROVE  CountsMatch'
<1>1. \A h \in Hash : Rows(h)' = Rows(h)
  BY DEF Rows
<1> QED
  BY <1>1 DEF CountsMatch

\* The files are rows now, and counted.
LEMMA RowsAdded ==
    ASSUME StorageInv, NEW files, NEW l \in Link, NEW u, Attach(l, u, files)
    PROVE  CountsMatch'
<1>1. /\ files \subseteq Item /\ \A i \in files : item[i].at = "ready"
      /\ item' = [i \in Item |-> IF i \in files THEN [item[i] EXCEPT !.at = l] ELSE item[i]]
      /\ repeated' = repeated
      /\ refs' = [h \in Hash |-> refs[h] + Count(h, files)]
  BY DEF Attach, FilesAt, Mine
<1>2. item \in [Item -> {NoFile} \union Stored] /\ refs \in [Hash -> Nat]
  BY DEF StorageInv, StorageTyped
<1> SUFFICES ASSUME NEW h \in Hash
             PROVE  refs'[h] >= Cardinality(Rows(h)') /\ (~repeated' => refs'[h] = Cardinality(Rows(h)'))
  BY DEF CountsMatch
<1> DEFINE new == {i \in files : item[i].hash = h}
<1>3. \A i \in files : item[i] \in Stored
  BY <1>1, <1>2 DEF NoFile
<1>4. \A i \in files : item'[i].at = l /\ item'[i].hash = item[i].hash
  BY <1>1, <1>3 DEF Stored
<1>5. \A i \in Item \ files : item'[i] = item[i]
  BY <1>1
<1>6. Rows(h)' = Rows(h) \union new
  <2>1. ASSUME NEW i \in Item PROVE i \in Rows(h)' <=> i \in Rows(h) \union new
    <3>1. CASE i \in files
      BY <1>1, <1>4, <3>1, NamesApart DEF Rows
    <3>2. CASE i \notin files
      BY <1>5, <3>2 DEF Rows
    <3> QED
      BY <3>1, <3>2
  <2>2. Rows(h)' \subseteq Item /\ Rows(h) \subseteq Item /\ new \subseteq Item
    BY <1>1 DEF Rows
  <2> HIDE DEF new
  <2> QED
    BY <2>1, <2>2
<1>7. Rows(h) \intersect new = {} /\ Rows(h) \in SUBSET Item /\ new \in SUBSET Item
  BY <1>1, NamesApart DEF Rows
<1>8. Count(h, files) = Cardinality(new)
  BY DEF Count
<1> HIDE DEF new
<1>9. IsFiniteSet(Rows(h)) /\ IsFiniteSet(new) /\ Cardinality(Rows(h)) \in Nat /\ Cardinality(new) \in Nat
  BY <1>7, ItemsIn
<1>10. Cardinality(Rows(h) \union new) = Cardinality(Rows(h)) + Cardinality(new)
  <2>1. Cardinality(Rows(h) \union new)
            = Cardinality(Rows(h)) + Cardinality(new) - Cardinality(Rows(h) \intersect new)
    BY <1>9, FS_Union
  <2>2. Cardinality(Rows(h) \intersect new) = 0
    BY <1>7, FS_EmptySet
  <2> QED
    BY <1>9, <2>1, <2>2
<1>11. refs[h] \in Nat /\ refs'[h] = refs[h] + Cardinality(new)
  BY <1>1, <1>2, <1>8
<1>12. refs[h] >= Cardinality(Rows(h)) /\ (~repeated => refs[h] = Cardinality(Rows(h)))
  BY DEF StorageInv, CountsMatch
<1> QED
  BY <1>1, <1>6, <1>9, <1>10, <1>11, <1>12

\* Rows are gone: as many as are given back, unless they are too few.
LEMMA RowsTaken ==
    ASSUME StorageInv, NEW gone \in SUBSET Item, item' = Without(gone), NEW n \in [Hash -> Nat],
           refs' = [h \in Hash |-> Minus(refs[h], n[h])],
           \A h \in Hash : /\ n[h] <= Cardinality(Rows(h) \intersect gone)
                           /\ ~repeated' => ~repeated /\ n[h] = Cardinality(Rows(h) \intersect gone)
    PROVE  CountsMatch'
<1> SUFFICES ASSUME NEW h \in Hash
             PROVE  refs'[h] >= Cardinality(Rows(h)') /\ (~repeated' => refs'[h] = Cardinality(Rows(h)'))
  BY DEF CountsMatch
<1>1. Rows(h)' = Rows(h) \ gone
  BY NamesApart DEF Rows, Without, NoFile
<1>2. Rows(h) \in SUBSET Item /\ Rows(h) \intersect gone \in SUBSET Item /\ Rows(h) \ gone \in SUBSET Item
  BY DEF Rows
<1>3. /\ IsFiniteSet(Rows(h)) /\ Cardinality(Rows(h)) \in Nat /\ Cardinality(Rows(h) \intersect gone) \in Nat
      /\ Cardinality(Rows(h) \ gone) \in Nat
  BY <1>2, ItemsIn
<1>4. Cardinality(Rows(h) \ gone) = Cardinality(Rows(h)) - Cardinality(Rows(h) \intersect gone)
  BY <1>3, FS_Difference
<1>5. refs[h] \in Nat /\ n[h] \in Nat /\ refs'[h] = Minus(refs[h], n[h])
  BY DEF StorageInv, StorageTyped
<1>6. refs[h] >= Cardinality(Rows(h)) /\ (~repeated => refs[h] = Cardinality(Rows(h)))
  BY DEF StorageInv, CountsMatch
<1>7. /\ refs'[h] >= refs[h] - n[h] /\ refs'[h] \in Nat
      /\ n[h] <= refs[h] => refs'[h] = refs[h] - n[h]
  BY <1>5, MinusIs
<1>8. /\ n[h] <= Cardinality(Rows(h) \intersect gone)
      /\ ~repeated' => ~repeated /\ n[h] = Cardinality(Rows(h) \intersect gone)
  OBVIOUS
<1> QED
  BY <1>1, <1>3, <1>4, <1>5, <1>6, <1>7, <1>8

LEMMA PostUploadCounts == ASSUME StorageInv, NEW u, NEW i \in Item, NEW h \in Hash, PostUpload(u, i, h)
                          PROVE  StorageInv'
<1>1. /\ u \in Member /\ item[i] = NoFile /\ UNCHANGED <<present, link, refs, repeated>>
      /\ item' = [item EXCEPT ![i] = [owner |-> u, hash |-> h, at |-> "sending"]]
      /\ item \in [Item -> {NoFile} \union Stored]
  BY DEF PostUpload, StorageInv, StorageTyped
<1>2. item'[i].at = "sending" /\ item[i].at = "none" /\ \A j \in Item \ {i} : item'[j] = item[j]
  BY <1>1 DEF NoFile
<1>3. StorageTyped'
  BY <1>1 DEF StorageInv, StorageTyped, Stored
<1>4. FilesHeld'
  BY <1>1, <1>2, NamesApart DEF StorageInv, FilesHeld
<1>5. CountsMatch'
  BY <1>1, <1>2, NamesApart, RowsStay DEF StorageInv
<1> QED
  BY <1>3, <1>4, <1>5 DEF StorageInv

LEMMA FinishUploadCounts == ASSUME StorageInv, NEW i \in Item, FinishUpload(i) PROVE StorageInv'
<1>1. /\ item[i].at = "sending" /\ UNCHANGED <<present, link, refs, repeated>>
      /\ item' = [item EXCEPT ![i].at = "ready"] /\ item \in [Item -> {NoFile} \union Stored]
  BY DEF FinishUpload, StorageInv, StorageTyped
<1>2. item[i] \in Stored
  BY <1>1 DEF NoFile
<1>3. item'[i] \in Stored /\ item'[i].at = "ready" /\ \A j \in Item \ {i} : item'[j] = item[j]
  BY <1>1, <1>2 DEF Stored
<1>4. StorageTyped'
  BY <1>1, <1>3 DEF StorageInv, StorageTyped
<1>5. FilesHeld'
  BY <1>1, <1>3, NamesApart DEF StorageInv, FilesHeld
<1>6. CountsMatch'
  BY <1>1, <1>3, NamesApart, RowsStay DEF StorageInv
<1> QED
  BY <1>4, <1>5, <1>6 DEF StorageInv


\* Items are forgotten, and nothing else changes whose a file is.
LEMMA ItemsGone ==
    ASSUME StorageInv, NEW gone \in SUBSET Item, item' = Without(gone)
    PROVE  /\ item' \in [Item -> {NoFile} \union Stored]
           /\ \A i \in gone : item'[i] = NoFile /\ item'[i].at \notin Link
           /\ \A i \in Item \ gone : item'[i] = item[i]
BY NamesApart DEF StorageInv, StorageTyped, Without, NoFile

LEMMA DropUploadCounts == ASSUME StorageInv, NEW i \in Item, DropUpload(i) PROVE StorageInv'
<1>1. /\ item[i].at \in {"sending", "ready"} /\ item' = Without({i})
      /\ UNCHANGED <<present, link, refs, repeated>>
  BY DEF DropUpload
<1>2. /\ item' \in [Item -> {NoFile} \union Stored] /\ item'[i].at \notin Link
      /\ \A j \in Item \ {i} : item'[j] = item[j]
  BY <1>1, ItemsGone
<1>3. item[i].at \notin Link
  BY <1>1, NamesApart
<1>4. StorageTyped' /\ FilesHeld'
  BY <1>1, <1>2 DEF StorageInv, StorageTyped, FilesHeld
<1>5. CountsMatch'
  BY <1>1, <1>2, <1>3, RowsStay DEF StorageInv
<1> QED
  BY <1>4, <1>5 DEF StorageInv

\* The type, and whose the files are, once they are attached.
LEMMA AttachHeld ==
    ASSUME StorageInv, NEW files, NEW l \in Link, NEW u, Attach(l, u, files),
           link' \in [Link -> {NoLink} \union [owner : Member, lapsed : BOOLEAN]],
           link'[l] # NoLink, link'[l].owner = u, \A k \in Link : link[k] # NoLink => link'[k] = link[k]
    PROVE  StorageInv'
<1>1. /\ files \subseteq Item /\ \A i \in files : item[i].at = "ready" /\ item[i].owner = u
      /\ item' = [i \in Item |-> IF i \in files THEN [item[i] EXCEPT !.at = l] ELSE item[i]]
      /\ repeated' = repeated /\ present' = present
      /\ refs' = [h \in Hash |-> refs[h] + Count(h, files)]
  BY DEF Attach, FilesAt, Mine
<1>2. /\ item \in [Item -> {NoFile} \union Stored] /\ refs \in [Hash -> Nat] /\ present \subseteq Member
  BY DEF StorageInv, StorageTyped
<1>3. \A i \in files : item[i] \in Stored
  BY <1>1, <1>2 DEF NoFile
<1>4. \A i \in files : item'[i].at = l /\ item'[i].owner = u /\ item'[i] \in Stored
  BY <1>1, <1>3 DEF Stored
<1>5. \A i \in Item \ files : item'[i] = item[i]
  BY <1>1
<1>6. \A h \in Hash : Count(h, files) \in Nat
  <2>1. \A h \in Hash : {i \in files : item[i].hash = h} \in SUBSET Item
    BY <1>1
  <2> QED
    BY <2>1, ItemsIn DEF Count
<1>7. StorageTyped'
  <2>1. item' \in [Item -> {NoFile} \union Stored]
    BY <1>1, <1>2, <1>4, <1>5
  <2>2. refs' \in [Hash -> Nat]
    BY <1>1, <1>2, <1>6
  <2> QED
    BY <1>1, <1>2, <2>1, <2>2 DEF StorageTyped
<1>8. FilesHeld'
  <2> SUFFICES ASSUME NEW i \in Item, item'[i].at \in Link
               PROVE  link'[item'[i].at] # NoLink /\ link'[item'[i].at].owner = item'[i].owner
    BY DEF FilesHeld
  <2>1. CASE i \in files
    BY <1>4, <2>1
  <2>2. CASE i \notin files
    <3>1. item'[i] = item[i] /\ link[item[i].at] # NoLink /\ link[item[i].at].owner = item[i].owner
      BY <1>5, <2>2 DEF StorageInv, FilesHeld
    <3> QED
      BY <3>1
  <2> QED
    BY <2>1, <2>2
<1>9. CountsMatch'
  BY RowsAdded
<1> QED
  BY <1>7, <1>8, <1>9 DEF StorageInv

LEMMA CreateLinkCounts ==
    ASSUME StorageInv, NEW l \in Link, NEW u, NEW files, CreateLink(l, u, files) PROVE StorageInv'
<1>1. /\ u \in Member /\ link[l] = NoLink /\ Attach(l, u, files)
      /\ link' = [link EXCEPT ![l] = [owner |-> u, lapsed |-> FALSE]]
      /\ link \in [Link -> {NoLink} \union [owner : Member, lapsed : BOOLEAN]]
  BY DEF CreateLink, StorageInv, StorageTyped
<1>2. link'[l] # NoLink
  BY <1>1, NamesApart DEF NoLink
<1> QED
  BY <1>1, <1>2, AttachHeld

LEMMA AddFilesCounts ==
    ASSUME StorageInv, NEW l \in Link, NEW files, AddFiles(l, files) PROVE StorageInv'
<1>1. /\ link[l] # NoLink /\ Attach(l, link[l].owner, files) /\ link' = link
      /\ link \in [Link -> {NoLink} \union [owner : Member, lapsed : BOOLEAN]]
  BY DEF AddFiles, Usable, StorageInv, StorageTyped
<1> QED
  BY <1>1, AttachHeld


LEMMA RemoveFileCounts == ASSUME StorageInv, NEW i \in Item, RemoveFile(i) PROVE StorageInv'
<1> DEFINE l == item[i].at
           h == item[i].hash
           n == [k \in Hash |-> IF k = h THEN 1 ELSE 0]
<1>1. /\ l \in Link /\ link[l] # NoLink /\ item' = Without({i})
      /\ refs' = [refs EXCEPT ![h] = Minus(@, 1)]
      /\ link' = [link EXCEPT ![l].lapsed = FilesAt(l) = {i}]
      /\ present' = present /\ repeated' = repeated
  BY DEF RemoveFile, Usable
<1>2. /\ item \in [Item -> {NoFile} \union Stored] /\ refs \in [Hash -> Nat]
      /\ link \in [Link -> {NoLink} \union [owner : Member, lapsed : BOOLEAN]] /\ present \subseteq Member
  BY DEF StorageInv, StorageTyped
<1>3. /\ item' \in [Item -> {NoFile} \union Stored] /\ item'[i].at \notin Link
      /\ \A j \in Item \ {i} : item'[j] = item[j]
  BY <1>1, ItemsGone
<1>4. item[i] \in Stored /\ h \in Hash
  <2>1. item[i] \in Stored
    BY <1>1, <1>2, NamesApart DEF NoFile
  <2> QED
    BY <2>1 DEF Stored
<1>5. link[l] \in [owner : Member, lapsed : BOOLEAN]
  BY <1>1, <1>2
<1>6. /\ link' \in [Link -> {NoLink} \union [owner : Member, lapsed : BOOLEAN]]
      /\ \A k \in Link : link[k] # NoLink => link'[k] # NoLink /\ link'[k].owner = link[k].owner
  <2>1. link'[l] = [owner |-> link[l].owner, lapsed |-> FilesAt(l) = {i}]
    BY <1>1, <1>2, <1>5
  <2>2. \A k \in Link : k # l => link'[k] = link[k]
    BY <1>1, <1>2
  <2>3. DOMAIN link' = Link /\ link' = [k \in Link |-> link'[k]]
    BY <1>1, <1>2
  <2>4. link'[l] \in [owner : Member, lapsed : BOOLEAN] /\ link'[l] # NoLink /\ link'[l].owner = link[l].owner
    <3> DEFINE last == FilesAt(l) = {i}
    <3>1. last \in BOOLEAN
      OBVIOUS
    <3> HIDE DEF last, l
    <3>2. link[l].owner \in Member
      BY <1>5
    <3>3. link'[l] = [owner |-> link[l].owner, lapsed |-> last]
      BY <2>1 DEF last
    <3> QED
      BY <3>1, <3>2, <3>3, NamesApart DEF NoLink
  <2> HIDE DEF l
  <2> QED
    BY <1>2, <2>2, <2>3, <2>4
<1> HIDE DEF l, h
<1>7. \A k \in Hash : refs'[k] = Minus(refs[k], n[k])
  BY <1>1, <1>2, <1>4 DEF Minus
<1>8. refs' = [k \in Hash |-> Minus(refs[k], n[k])] /\ n \in [Hash -> Nat] /\ refs' \in [Hash -> Nat]
  BY <1>1, <1>2, <1>7, MinusIs
<1>9. \A k \in Hash : n[k] = Cardinality(Rows(k) \intersect {i})
  <2>1. \A k \in Hash : Rows(k) \intersect {i} = IF k = h THEN {i} ELSE {}
    BY <1>1 DEF Rows, l, h
  <2> QED
    BY <2>1, FS_EmptySet, FS_Singleton
<1> HIDE DEF n
<1>10. CountsMatch'
  <2>1. {i} \in SUBSET Item
    OBVIOUS
  <2>2. \A k \in Hash : n[k] \in Nat
    BY <1>8
  <2>3. \A k \in Hash : /\ n[k] <= Cardinality(Rows(k) \intersect {i})
                        /\ ~repeated' => ~repeated /\ n[k] = Cardinality(Rows(k) \intersect {i})
    BY <1>1, <1>9, <2>2
  <2> QED
    BY <1>1, <1>8, <2>1, <2>3, RowsTaken
<1>11. StorageTyped'
  BY <1>1, <1>2, <1>3, <1>6, <1>8 DEF StorageTyped
<1>12. FilesHeld'
  BY <1>3, <1>6 DEF StorageInv, FilesHeld
<1> QED
  BY <1>10, <1>11, <1>12 DEF StorageInv

LEMMA LapseCounts == ASSUME StorageInv, NEW links, \A k \in links : link[k] # NoLink, Lapse(links)
                     PROVE  StorageInv'
<1>1. /\ link' = [k \in Link |-> IF k \in links THEN [link[k] EXCEPT !.lapsed = TRUE] ELSE link[k]]
      /\ UNCHANGED <<present, item, refs, repeated>>
      /\ link \in [Link -> {NoLink} \union [owner : Member, lapsed : BOOLEAN]]
  BY DEF Lapse, StorageInv, StorageTyped
<1>2. ASSUME NEW k \in Link
      PROVE  /\ link'[k] \in {NoLink} \union [owner : Member, lapsed : BOOLEAN]
             /\ link[k] # NoLink => link'[k] # NoLink /\ link'[k].owner = link[k].owner
  <2>1. CASE k \in links
    <3>1. link[k] \in [owner : Member, lapsed : BOOLEAN]
      BY <1>1, <2>1
    <3>2. link'[k] = [owner |-> link[k].owner, lapsed |-> TRUE] /\ link[k].owner \in Member
      BY <1>1, <2>1, <3>1
    <3> QED
      BY <3>2, NamesApart DEF NoLink
  <2>2. CASE k \notin links
    BY <1>1, <2>2
  <2> QED
    BY <2>1, <2>2
<1>3. StorageTyped'
  <2>1. link' \in [Link -> {NoLink} \union [owner : Member, lapsed : BOOLEAN]]
    BY <1>1, <1>2
  <2> QED
    BY <1>1, <2>1 DEF StorageInv, StorageTyped
<1>4. FilesHeld'
  BY <1>1, <1>2 DEF StorageInv, FilesHeld
<1>5. CountsMatch'
  BY <1>1, RowsStay DEF StorageInv
<1> QED
  BY <1>3, <1>4, <1>5 DEF StorageInv

LEMMA ReleaseLinkCounts == ASSUME StorageInv, NEW l \in Link, ReleaseLink(l) PROVE StorageInv'
<1> DEFINE files == FilesAt(l)
           double == \E h \in Hash : Count(h, files) > 1
           n == [h \in Hash |-> IF h \in Hashes(files) THEN 1 ELSE 0]
<1>1. /\ refs' = [h \in Hash |-> IF h \in Hashes(files) THEN Minus(refs[h], 1) ELSE refs[h]]
      /\ item' = Without(files) /\ link' = [link EXCEPT ![l] = NoLink]
      /\ (repeated' <=> repeated \/ double) /\ present' = present
  BY DEF ReleaseLink
<1>2. /\ item \in [Item -> {NoFile} \union Stored] /\ refs \in [Hash -> Nat]
      /\ link \in [Link -> {NoLink} \union [owner : Member, lapsed : BOOLEAN]] /\ present \subseteq Member
  BY DEF StorageInv, StorageTyped
<1>3. files \in SUBSET Item /\ \A i \in Item : i \in files <=> item[i].at = l
  BY DEF FilesAt
<1>4. /\ item' \in [Item -> {NoFile} \union Stored]
      /\ \A i \in files : item'[i].at \notin Link
      /\ \A i \in Item \ files : item'[i] = item[i]
  BY <1>1, <1>3, ItemsGone
<1>5. \A h \in Hash : refs'[h] = Minus(refs[h], n[h])
  BY <1>1, <1>2 DEF Minus
<1>6. refs' = [h \in Hash |-> Minus(refs[h], n[h])] /\ n \in [Hash -> Nat] /\ refs' \in [Hash -> Nat]
  BY <1>1, <1>2, <1>5, MinusIs
<1>7. ASSUME NEW h \in Hash
      PROVE  /\ Count(h, files) = Cardinality(Rows(h) \intersect files) /\ Count(h, files) \in Nat
             /\ n[h] = IF Count(h, files) = 0 THEN 0 ELSE 1
  <2> DEFINE S == {i \in files : item[i].hash = h}
  <2>1. Rows(h) \intersect files = S
    BY <1>3 DEF Rows
  <2>2. S \in SUBSET Item
    BY <1>3
  <2>3. h \in Hashes(files) <=> S # {}
    BY DEF Hashes
  <2>4. Count(h, files) = Cardinality(S)
    BY DEF Count
  <2> HIDE DEF S
  <2>5. IsFiniteSet(S) /\ Cardinality(S) \in Nat /\ (Cardinality(S) = 0 <=> S = {})
    BY <2>2, ItemsIn, FS_EmptySet
  <2> QED
    BY <2>1, <2>3, <2>4, <2>5
<1> HIDE DEF n, files
<1>8. CountsMatch'
  <2>1. \A h \in Hash : /\ n[h] <= Cardinality(Rows(h) \intersect files)
                        /\ ~double => n[h] = Cardinality(Rows(h) \intersect files)
    BY <1>7
  <2> HIDE DEF double
  <2>2. \A h \in Hash : /\ n[h] <= Cardinality(Rows(h) \intersect files)
                        /\ ~repeated' => ~repeated /\ n[h] = Cardinality(Rows(h) \intersect files)
    BY <1>1, <2>1
  <2> QED
    BY <1>1, <1>3, <1>6, <2>2, RowsTaken
<1>9. StorageTyped'
  BY <1>1, <1>2, <1>4, <1>6 DEF StorageTyped
<1>10. FilesHeld'
  BY <1>1, <1>2, <1>3, <1>4 DEF StorageInv, FilesHeld
<1> QED
  BY <1>8, <1>9, <1>10 DEF StorageInv

LEMMA DeleteKeeperCounts == ASSUME StorageInv, NEW u, DeleteKeeper(u) PROVE StorageInv'
<1> DEFINE n == [h \in Hash |-> Count(h, Owned(u))]
<1>1. /\ u \in present /\ present' = present \ {u} /\ item' = Without(Mine(u)) /\ repeated' = repeated
      /\ refs' = [h \in Hash |-> Minus(refs[h], Count(h, Owned(u)))]
      /\ link' = [l \in Link |-> IF link[l].owner = u THEN NoLink ELSE link[l]]
  BY DEF DeleteKeeper
<1>2. /\ item \in [Item -> {NoFile} \union Stored] /\ refs \in [Hash -> Nat]
      /\ link \in [Link -> {NoLink} \union [owner : Member, lapsed : BOOLEAN]] /\ present \subseteq Member
  BY DEF StorageInv, StorageTyped
<1>3. Mine(u) \in SUBSET Item /\ \A i \in Item : i \in Mine(u) <=> item[i].owner = u
  BY DEF Mine
<1>4. /\ item' \in [Item -> {NoFile} \union Stored]
      /\ \A i \in Mine(u) : item'[i].at \notin Link
      /\ \A i \in Item \ Mine(u) : item'[i] = item[i]
  BY <1>1, <1>3, ItemsGone
<1>5. ASSUME NEW h \in Hash
      PROVE  n[h] = Cardinality(Rows(h) \intersect Mine(u)) /\ n[h] \in Nat
  <2>1. {i \in Owned(u) : item[i].hash = h} = Rows(h) \intersect Mine(u)
    BY <1>3 DEF Owned, Rows
  <2>2. Rows(h) \intersect Mine(u) \in SUBSET Item
    BY <1>3
  <2> QED
    BY <2>1, <2>2, ItemsIn DEF Count
<1>6. refs' = [h \in Hash |-> Minus(refs[h], n[h])] /\ n \in [Hash -> Nat]
  BY <1>1, <1>5
<1> HIDE DEF n
<1>7. refs' \in [Hash -> Nat]
  BY <1>2, <1>6, MinusIs
<1>8. CountsMatch'
  <2>1. \A h \in Hash : /\ n[h] <= Cardinality(Rows(h) \intersect Mine(u))
                        /\ ~repeated' => ~repeated /\ n[h] = Cardinality(Rows(h) \intersect Mine(u))
    BY <1>1, <1>5
  <2> QED
    BY <1>1, <1>3, <1>6, <2>1, RowsTaken
<1>9. StorageTyped'
  BY <1>1, <1>2, <1>4, <1>7 DEF StorageTyped
<1>10. FilesHeld'
  BY <1>1, <1>3, <1>4 DEF StorageInv, FilesHeld
<1> QED
  BY <1>8, <1>9, <1>10 DEF StorageInv

LEMMA StorageStepInv == StorageInv /\ [StorageNext]_storageVars => StorageInv'
<1> SUFFICES ASSUME StorageInv, [StorageNext]_storageVars PROVE StorageInv'
  OBVIOUS
<1>1. ASSUME NEW u \in Member, NEW i \in Item, NEW h \in Hash, PostUpload(u, i, h) PROVE StorageInv'
  BY <1>1, PostUploadCounts
<1>2. ASSUME NEW i \in Item, FinishUpload(i) PROVE StorageInv'
  BY <1>2, FinishUploadCounts
<1>3. ASSUME NEW i \in Item, DropUpload(i) PROVE StorageInv'
  BY <1>3, DropUploadCounts
<1>4. ASSUME NEW i \in Item, RemoveFile(i) PROVE StorageInv'
  BY <1>4, RemoveFileCounts
<1>5. ASSUME NEW l \in Link, NEW files \in SUBSET Item, AddFiles(l, files) PROVE StorageInv'
  BY <1>5, AddFilesCounts
<1>6. ASSUME NEW l \in Link, NEW files \in SUBSET Item, NEW u \in Member, CreateLink(l, u, files)
      PROVE  StorageInv'
  BY <1>6, CreateLinkCounts
<1>7. ASSUME NEW l \in Link, LinkLapses(l) PROVE StorageInv'
  BY <1>7, LapseCounts DEF LinkLapses, Usable
<1>8. ASSUME NEW l \in Link, ReleaseLink(l) PROVE StorageInv'
  BY <1>8, ReleaseLinkCounts
<1>9. ASSUME NEW u \in Member, RevokeAll(u) PROVE StorageInv'
  <2>1. \A l \in {l \in Link : link[l].owner = u} : link[l] # NoLink
    BY <1>9, NamesApart DEF NoLink
  <2> QED
    BY <1>9, <2>1, LapseCounts DEF RevokeAll
<1>10. ASSUME NEW u \in Member, DeleteKeeper(u) PROVE StorageInv'
  BY <1>10, DeleteKeeperCounts
<1>11. ASSUME NEW u \in Member, NEW n \in Limits, SetLimit(u, n) PROVE StorageInv'
  <2>1. UNCHANGED <<present, item, link, refs, repeated>>
    BY <1>11 DEF SetLimit
  <2> QED
    BY <2>1, RowsStay DEF StorageInv, StorageTyped, FilesHeld
<1>12. CASE UNCHANGED storageVars
  BY <1>12, RowsStay DEF storageVars, StorageInv, StorageTyped, FilesHeld
<1> QED
  BY <1>1, <1>2, <1>3, <1>4, <1>5, <1>6, <1>7, <1>8, <1>9, <1>10, <1>11, <1>12 DEF StorageNext

LEMMA StorageAlways == StorageSpec => []StorageInv
BY StorageInitInv, StorageStepInv, PTL DEF StorageSpec

\* A blob has a reference for every file row of every account's links, and no
\* more unless releaseLapsedShares dropped a link with two equal files.
THEOREM StorageCountsMatch == StorageSpec => []CountsMatch
<1>1. StorageInv => CountsMatch
  BY DEF StorageInv
<1> QED
  BY <1>1, StorageAlways, PTL

-----------------------------------------------------------------------------
(* Sums over a finite set *)

\* What the recursion of a fold over the sets of D asks of g.
SolvesOn(g, f, D) ==
    g = [s \in D |-> IF s = {} THEN 0 ELSE f[CHOOSE x \in s : TRUE] + g[s \ {CHOOSE x \in s : TRUE}]]
Solves(g, f, S) == SolvesOn(g, f, SUBSET S)
Sum(f, S) == (CHOOSE g : Solves(g, f, S))[S]

Small(S, n) == {s \in SUBSET S : Cardinality(s) <= n}
Naturals(f, S) == \A x \in S : f[x] \in Nat

LEMMA SmallIs ==
    ASSUME NEW S, IsFiniteSet(S)
    PROVE  /\ \A s \in SUBSET S : IsFiniteSet(s) /\ Cardinality(s) \in Nat
           /\ \A s \in SUBSET S : s \in Small(S, Cardinality(S))
           /\ \A n \in Nat : \A s \in Small(S, n + 1), x \in S : x \in s => s \ {x} \in Small(S, n)
           /\ \A n \in Nat : {} \in Small(S, n) /\ Small(S, n) \subseteq Small(S, n + 1)
           /\ \A s \in Small(S, 0) : s = {}
<1>1. \A s \in SUBSET S : IsFiniteSet(s) /\ Cardinality(s) \in Nat /\ Cardinality(s) <= Cardinality(S)
  BY FS_Subset, FS_CardinalityType
<1>2. ASSUME NEW n \in Nat, NEW s \in Small(S, n + 1), NEW x \in S, x \in s PROVE s \ {x} \in Small(S, n)
  <2>1. s \in SUBSET S /\ Cardinality(s) <= n + 1
    BY DEF Small
  <2>2. Cardinality(s \ {x}) = Cardinality(s) - 1
    BY <1>1, <1>2, <2>1, FS_RemoveElement
  <2> QED
    BY <1>1, <2>1, <2>2 DEF Small
<1>3. ASSUME NEW n \in Nat PROVE {} \in Small(S, n) /\ Small(S, n) \subseteq Small(S, n + 1)
  <2>1. Cardinality({}) = 0
    BY FS_EmptySet
  <2> QED
    BY <1>1, <2>1 DEF Small
<1>4. ASSUME NEW s \in Small(S, 0) PROVE s = {}
  <2>1. s \in SUBSET S /\ Cardinality(s) <= 0
    BY DEF Small
  <2> QED
    BY <1>1, <2>1, FS_EmptySet
<1> QED
  BY <1>1, <1>2, <1>3, <1>4 DEF Small

LEMMA SumSolved == ASSUME NEW S, IsFiniteSet(S), NEW f PROVE \E g : Solves(g, f, S)
<1> DEFINE c(s) == CHOOSE x \in s : TRUE
           N == {n \in Nat : \E g : SolvesOn(g, f, Small(S, n))}
<1>1. \A s \in SUBSET S : s # {} => c(s) \in s /\ c(s) \in S
  OBVIOUS
<1>2. \A s \in Small(S, 0) : s = {}
  BY SmallIs
<1>3. 0 \in N
  <2>1. PICK g : g = [s \in Small(S, 0) |-> 0]
    OBVIOUS
  <2>2. SolvesOn(g, f, Small(S, 0))
    BY <1>2, <2>1 DEF SolvesOn
  <2> QED
    BY <2>2
<1>4. ASSUME NEW n \in Nat, n \in N PROVE n + 1 \in N
  <2>1. PICK g : SolvesOn(g, f, Small(S, n))
    BY <1>4
  <2>2. PICK h : h = [s \in Small(S, n + 1) |-> IF s = {} THEN 0 ELSE f[c(s)] + g[s \ {c(s)}]]
    OBVIOUS
  <2>3. \A s \in Small(S, n) : h[s] = g[s]
    <3>1. \A s \in Small(S, n) : s \in Small(S, n + 1)
      BY SmallIs
    <3> QED
      BY <2>1, <2>2, <3>1 DEF SolvesOn
  <2>4. \A s \in Small(S, n + 1) : s # {} => s \ {c(s)} \in Small(S, n)
    <3>1. \A s \in Small(S, n + 1) : s # {} => c(s) \in s /\ c(s) \in S
      BY <1>1 DEF Small
    <3> HIDE DEF c
    <3> QED
      BY <3>1, SmallIs
  <2> HIDE DEF c
  <2>5. h = [s \in Small(S, n + 1) |-> IF s = {} THEN 0 ELSE f[c(s)] + h[s \ {c(s)}]]
    BY <2>2, <2>3, <2>4
  <2>6. SolvesOn(h, f, Small(S, n + 1))
    BY <2>5 DEF SolvesOn, c
  <2> QED
    BY <2>6
<1>5. Nat \subseteq N
  <2> HIDE DEF N
  <2> QED
    BY <1>3, <1>4, SetInduction
<1>6. Cardinality(S) \in Nat
  BY FS_CardinalityType
<1>7. PICK g : SolvesOn(g, f, Small(S, Cardinality(S)))
  BY <1>5, <1>6
<1>8. Small(S, Cardinality(S)) = SUBSET S
  BY SmallIs DEF Small
<1> QED
  BY <1>7, <1>8 DEF Solves

\* Two solutions agree wherever what they add up does.
LEMMA SumSame ==
    ASSUME NEW S, IsFiniteSet(S), NEW T, NEW f, NEW e, NEW g, NEW k, Solves(g, f, S), Solves(k, e, T),
           S \subseteq T, \A x \in S : f[x] = e[x]
    PROVE  \A s \in SUBSET S : g[s] = k[s]
<1> DEFINE c(s) == CHOOSE x \in s : TRUE
           N == {n \in Nat : \A s \in Small(S, n) : g[s] = k[s]}
<1>1. \A s \in SUBSET S : s # {} => c(s) \in s /\ c(s) \in S
  OBVIOUS
<1>2. \A s \in SUBSET S : /\ g[s] = IF s = {} THEN 0 ELSE f[c(s)] + g[s \ {c(s)}]
                          /\ k[s] = IF s = {} THEN 0 ELSE e[c(s)] + k[s \ {c(s)}]
  BY DEF Solves, SolvesOn
<1> HIDE DEF c
<1>3. 0 \in N
  <2>1. \A s \in Small(S, 0) : s = {}
    BY SmallIs
  <2> QED
    BY <1>2, <2>1
<1>4. ASSUME NEW n \in Nat, n \in N PROVE n + 1 \in N
  <2>1. ASSUME NEW s \in Small(S, n + 1) PROVE g[s] = k[s]
    <3>1. s \in SUBSET S
      BY DEF Small
    <3>2. CASE s = {}
      BY <1>2, <3>2
    <3>3. CASE s # {}
      <4>1. s \ {c(s)} \in Small(S, n) /\ f[c(s)] = e[c(s)]
        BY <1>1, <3>1, <3>3, SmallIs
      <4>2. g[s \ {c(s)}] = k[s \ {c(s)}]
        BY <1>4, <4>1
      <4> QED
        BY <1>2, <3>1, <3>3, <4>1, <4>2
    <3> QED
      BY <3>2, <3>3
  <2> QED
    BY <2>1
<1>5. Nat \subseteq N
  <2> HIDE DEF N
  <2> QED
    BY <1>3, <1>4, SetInduction
<1>6. Cardinality(S) \in Nat
  BY FS_CardinalityType
<1>7. \A s \in Small(S, Cardinality(S)) : g[s] = k[s]
  BY <1>5, <1>6
<1> QED
  BY <1>7, SmallIs

LEMMA SumNatural ==
    ASSUME NEW S, IsFiniteSet(S), NEW f, Naturals(f, S), NEW g, Solves(g, f, S)
    PROVE  \A s \in SUBSET S : g[s] \in Nat
<1> DEFINE c(s) == CHOOSE x \in s : TRUE
           N == {n \in Nat : \A s \in Small(S, n) : g[s] \in Nat}
<1>1. \A s \in SUBSET S : s # {} => c(s) \in s /\ c(s) \in S
  OBVIOUS
<1>2. \A s \in SUBSET S : g[s] = IF s = {} THEN 0 ELSE f[c(s)] + g[s \ {c(s)}]
  BY DEF Solves, SolvesOn
<1> HIDE DEF c
<1>3. 0 \in N
  <2>1. \A s \in Small(S, 0) : s = {}
    BY SmallIs
  <2>2. g[{}] = 0
    BY <1>2
  <2> QED
    BY <2>1, <2>2
<1>4. ASSUME NEW n \in Nat, n \in N PROVE n + 1 \in N
  <2>1. ASSUME NEW s \in Small(S, n + 1) PROVE g[s] \in Nat
    <3>1. s \in SUBSET S
      BY DEF Small
    <3>2. CASE s = {}
      BY <1>2, <3>2
    <3>3. CASE s # {}
      <4>1. s \ {c(s)} \in Small(S, n) /\ f[c(s)] \in Nat
        BY <1>1, <3>1, <3>3, SmallIs DEF Naturals
      <4>2. g[s \ {c(s)}] \in Nat
        BY <1>4, <4>1
      <4>3. g[s] = f[c(s)] + g[s \ {c(s)}]
        BY <1>2, <3>1, <3>3
      <4> QED
        BY <4>1, <4>2, <4>3
    <3> QED
      BY <3>2, <3>3
  <2> QED
    BY <2>1
<1>5. Nat \subseteq N
  <2> HIDE DEF N
  <2> QED
    BY <1>3, <1>4, SetInduction
<1>6. Cardinality(S) \in Nat
  BY FS_CardinalityType
<1>7. \A s \in Small(S, Cardinality(S)) : g[s] \in Nat
  BY <1>5, <1>6
<1> QED
  BY <1>7, SmallIs

\* Whatever the order of the fold, one more element adds its own share.
LEMMA SumOneMore ==
    ASSUME NEW S, IsFiniteSet(S), NEW f, Naturals(f, S), NEW g, Solves(g, f, S)
    PROVE  \A s \in SUBSET S, x \in S : x \notin s => g[s \union {x}] = g[s] + f[x]
<1> DEFINE c(s) == CHOOSE x \in s : TRUE
           N == {n \in Nat : \A s \in Small(S, n), x \in S : x \notin s => g[s \union {x}] = g[s] + f[x]}
<1>1. \A s \in SUBSET S : s # {} => c(s) \in s /\ c(s) \in S
  OBVIOUS
<1>2. \A s \in SUBSET S : g[s] = IF s = {} THEN 0 ELSE f[c(s)] + g[s \ {c(s)}]
  BY DEF Solves, SolvesOn
<1> HIDE DEF c
<1>3. \A s \in SUBSET S : g[s] \in Nat
  BY SumNatural
<1>4. \A x \in S : f[x] \in Nat
  BY DEF Naturals
<1>5. 0 \in N
  <2>1. ASSUME NEW s \in Small(S, 0), NEW x \in S PROVE g[s \union {x}] = g[s] + f[x]
    <3>1. s = {}
      BY SmallIs
    <3>2. {x} \in SUBSET S /\ {x} # {} /\ {} \in SUBSET S
      OBVIOUS
    <3>3. c({x}) = x
      BY <1>1, <3>2
    <3>4. {x} \ {x} = {} /\ s \union {x} = {x}
      BY <3>1
    <3>5. g[{x}] = f[x] + g[{}] /\ g[{}] = 0
      BY <1>2, <3>2, <3>3, <3>4
    <3> QED
      BY <1>4, <3>1, <3>4, <3>5
  <2> QED
    BY <2>1
<1>6. ASSUME NEW n \in Nat, n \in N PROVE n + 1 \in N
  <2>1. ASSUME NEW s \in Small(S, n + 1), NEW x \in S, x \notin s PROVE g[s \union {x}] = g[s] + f[x]
    <3> DEFINE t == s \union {x}
               y == c(t)
    <3>1. s \in SUBSET S /\ t \in SUBSET S /\ t # {}
      BY DEF Small
    <3>2. y \in t /\ y \in S /\ g[t] = f[y] + g[t \ {y}]
      <4> HIDE DEF t
      <4> QED
        BY <1>1, <1>2, <3>1
    <3> HIDE DEF y
    <3>3. CASE y = x
      <4>1. t \ {y} = s
        BY <2>1, <3>3
      <4>2. g[t] = f[x] + g[s] /\ g[s] \in Nat /\ f[x] \in Nat
        BY <1>3, <1>4, <3>1, <3>2, <3>3, <4>1
      <4> QED
        BY <4>2
    <3>4. CASE y # x
      <4> DEFINE r == s \ {y}
      <4>1. y \in s /\ y \notin r /\ x \notin r /\ t \ {y} = r \union {x} /\ r \union {y} = s /\ r \in SUBSET S
        BY <2>1, <3>1, <3>2, <3>4
      <4>2. r \in Small(S, n)
        BY <3>2, <4>1, SmallIs
      <4> HIDE DEF r, t
      <4>3. g[r \union {x}] = g[r] + f[x] /\ g[r \union {y}] = g[r] + f[y]
        BY <1>6, <3>2, <4>1, <4>2
      <4>4. g[t] = f[y] + (g[r] + f[x]) /\ g[s] = g[r] + f[y]
        BY <3>2, <4>1, <4>3
      <4>5. g[r] \in Nat /\ f[x] \in Nat /\ f[y] \in Nat
        BY <1>3, <1>4, <3>2, <4>1
      <4>6. g[t] = g[s] + f[x]
        BY <4>4, <4>5
      <4> QED
        BY <4>6 DEF t
    <3> QED
      BY <3>3, <3>4
  <2> QED
    BY <2>1
<1>7. Nat \subseteq N
  <2> HIDE DEF N
  <2> QED
    BY <1>5, <1>6, SetInduction
<1>8. Cardinality(S) \in Nat
  BY FS_CardinalityType
<1>9. \A s \in Small(S, Cardinality(S)), x \in S : x \notin s => g[s \union {x}] = g[s] + f[x]
  BY <1>7, <1>8
<1> QED
  BY <1>9, SmallIs

LEMMA SumIs == ASSUME NEW S, IsFiniteSet(S), NEW f PROVE Solves(CHOOSE g : Solves(g, f, S), f, S)
BY SumSolved

LEMMA SumEqual ==
    ASSUME NEW S, IsFiniteSet(S), NEW f, NEW e, \A x \in S : f[x] = e[x] PROVE Sum(f, S) = Sum(e, S)
<1>1. PICK g : g = CHOOSE x : Solves(x, f, S)
  OBVIOUS
<1>2. PICK k : k = CHOOSE x : Solves(x, e, S)
  OBVIOUS
<1>3. Solves(g, f, S) /\ Solves(k, e, S)
  BY <1>1, <1>2, SumIs
<1>4. g[S] = k[S]
  BY <1>3, SumSame
<1> QED
  BY <1>1, <1>2, <1>4 DEF Sum

LEMMA SumPart ==
    ASSUME NEW S, IsFiniteSet(S), NEW f, NEW g, Solves(g, f, S), NEW s \in SUBSET S
    PROVE  Sum(f, s) = g[s]
<1>1. PICK k : k = CHOOSE x : Solves(x, f, s)
  OBVIOUS
<1>2. IsFiniteSet(s)
  BY FS_Subset
<1>3. Solves(k, f, s)
  BY <1>1, <1>2, SumIs
<1>4. \A t \in SUBSET s : k[t] = g[t]
  BY <1>2, <1>3, SumSame
<1> QED
  BY <1>1, <1>4 DEF Sum

LEMMA SumAdds ==
    ASSUME NEW S, IsFiniteSet(S), NEW f, Naturals(f, S)
    PROVE  /\ \A s \in SUBSET S : Sum(f, s) \in Nat
           /\ \A s \in SUBSET S, x \in S : x \notin s => Sum(f, s \union {x}) = Sum(f, s) + f[x]
<1>1. PICK g : Solves(g, f, S)
  BY SumSolved
<1>2. \A s \in SUBSET S : Sum(f, s) = g[s]
  BY <1>1, SumPart
<1>3. \A s \in SUBSET S : g[s] \in Nat
  BY <1>1, SumNatural
<1>4. \A s \in SUBSET S, x \in S : x \notin s => g[s \union {x}] = g[s] + f[x]
  BY <1>1, SumOneMore
<1>5. \A s \in SUBSET S, x \in S : s \union {x} \in SUBSET S
  OBVIOUS
<1> QED
  BY <1>2, <1>3, <1>4, <1>5

\* Less of it does not add up to more.
LEMMA SumGrows ==
    ASSUME NEW S, IsFiniteSet(S), NEW f, Naturals(f, S), NEW T \in SUBSET S
    PROVE  Sum(f, T) <= Sum(f, S)
<1> DEFINE N == {n \in Nat : \A s \in Small(S, n) : Sum(f, T) <= Sum(f, T \union s)}
<1>1. /\ \A s \in SUBSET S : Sum(f, s) \in Nat
      /\ \A s \in SUBSET S, x \in S : x \notin s => Sum(f, s \union {x}) = Sum(f, s) + f[x]
  BY SumAdds
<1>2. 0 \in N
  <2>1. \A s \in Small(S, 0) : T \union s = T
    BY SmallIs
  <2>2. Sum(f, T) <= Sum(f, T)
    BY <1>1
  <2> QED
    BY <2>1, <2>2
<1>3. ASSUME NEW n \in Nat, n \in N PROVE n + 1 \in N
  <2>1. ASSUME NEW s \in Small(S, n + 1) PROVE Sum(f, T) <= Sum(f, T \union s)
    <3>1. s \in SUBSET S
      BY DEF Small
    <3>2. CASE s \subseteq T
      <4>1. T \union s = T
        BY <3>2
      <4> QED
        BY <1>1, <4>1
    <3>3. CASE ~(s \subseteq T)
      <4>1. PICK x \in s : x \notin T
        BY <3>3
      <4> DEFINE r == T \union (s \ {x})
      <4>2. x \in S /\ r \in SUBSET S /\ x \notin r /\ r \union {x} = T \union s
        BY <3>1, <4>1
      <4>3. s \ {x} \in Small(S, n)
        BY <4>1, <4>2, SmallIs
      <4>4. Sum(f, T) <= Sum(f, r)
        BY <1>3, <4>3
      <4> HIDE DEF r
      <4>5. Sum(f, r \union {x}) = Sum(f, r) + f[x]
        BY <1>1, <4>2
      <4>6. Sum(f, T) \in Nat /\ Sum(f, r) \in Nat /\ f[x] \in Nat
        BY <1>1, <4>2 DEF Naturals
      <4> QED
        BY <4>2, <4>4, <4>5, <4>6
    <3> QED
      BY <3>2, <3>3
  <2> QED
    BY <2>1
<1>4. Nat \subseteq N
  <2> HIDE DEF N
  <2> QED
    BY <1>2, <1>3, SetInduction
<1>5. Cardinality(S) \in Nat /\ S \in Small(S, Cardinality(S)) /\ T \union S = S
  BY FS_CardinalityType, SmallIs
<1> QED
  BY <1>4, <1>5

-----------------------------------------------------------------------------
(* What a member keeps *)

Announced == [i \in Item |-> SizeOf[item[i].hash]]

\* usage, as sums over sets of hashes and of uploads.
LEMMA UsageIs ==
    \A u : Usage(u) = Sum(SizeOf, Hashes(Finished(u))) + Sum(Announced, Unfinished(u))
<1> SUFFICES ASSUME NEW u
             PROVE  Usage(u) = Sum(SizeOf, Hashes(Finished(u))) + Sum(Announced, Unfinished(u))
  OBVIOUS
<1>1. Total(Hashes(Finished(u))) = Sum(SizeOf, Hashes(Finished(u)))
  BY DEF Total, MapThenSumSet, MapThenFoldSet, Sum, Solves, SolvesOn
<1> DEFINE U == Unfinished(u)
           c(s) == CHOOSE x \in s : TRUE
           Folds2(g) == g = [s \in SUBSET U |-> IF s = {} THEN 0
                                                ELSE SizeOf[item[c(s)].hash] + g[s \ {c(s)}]]
<1>2. MapThenSumSet(LAMBDA i : SizeOf[item[i].hash], U) = (CHOOSE g : Folds2(g))[U]
  BY DEF MapThenSumSet, MapThenFoldSet
<1>3. U \subseteq Item /\ IsFiniteSet(U)
  BY ItemsIn DEF Unfinished, Mine
<1>4. \A s \in SUBSET U : s # {} => c(s) \in Item
  BY <1>3
<1>5. \A g : Folds2(g) <=> Solves(g, Announced, U)
  <2>1. \A s \in SUBSET U : s # {} => Announced[c(s)] = SizeOf[item[c(s)].hash]
    BY <1>4 DEF Announced
  <2>2. ASSUME NEW g PROVE Folds2(g) <=> Solves(g, Announced, U)
    <3>1. Solves(g, Announced, U) <=> g = [s \in SUBSET U |-> IF s = {} THEN 0
                                            ELSE Announced[c(s)] + g[s \ {c(s)}]]
      BY DEF Solves, SolvesOn
    <3>2. \A s \in SUBSET U : (IF s = {} THEN 0 ELSE Announced[c(s)] + g[s \ {c(s)}])
                             = (IF s = {} THEN 0 ELSE SizeOf[item[c(s)].hash] + g[s \ {c(s)}])
      BY <2>1
    <3> HIDE DEF c, U
    <3>3. [s \in SUBSET U |-> IF s = {} THEN 0 ELSE Announced[c(s)] + g[s \ {c(s)}]]
          = [s \in SUBSET U |-> IF s = {} THEN 0 ELSE SizeOf[item[c(s)].hash] + g[s \ {c(s)}]]
      BY <3>2
    <3> QED
      BY <3>1, <3>3
  <2> QED
    BY <2>2
<1>6. PICK k : k = CHOOSE g : Folds2(g)
  OBVIOUS
<1>7. \E g : Folds2(g)
  <2> HIDE DEF Folds2, U
  <2> QED
    BY <1>3, <1>5, SumSolved
<1>8. Folds2(k)
  <2> HIDE DEF Folds2, U
  <2> QED
    BY <1>6, <1>7
<1>9. k[U] = Sum(Announced, U)
  <2> HIDE DEF Folds2, U
  <2> QED
    BY <1>3, <1>5, <1>8, SumPart
<1> QED
  BY <1>1, <1>2, <1>6, <1>9 DEF Usage


\* What is added up is finite, and numbers.
UsageOk(u) ==
    LET H == Hashes(Finished(u))
        U == Unfinished(u) IN
    /\ H \subseteq Hash /\ IsFiniteSet(H) /\ Naturals(SizeOf, H) /\ Sum(SizeOf, H) \in Nat
    /\ U \subseteq Item /\ IsFiniteSet(U) /\ Naturals(Announced, U) /\ Sum(Announced, U) \in Nat

LEMMA UsageTyped == StorageTyped => \A u : UsageOk(u)
<1> SUFFICES ASSUME StorageTyped, NEW u PROVE UsageOk(u)
  OBVIOUS
<1>1. Finished(u) \subseteq Item /\ Unfinished(u) \subseteq Item
  BY DEF Finished, Unfinished, Mine
<1>2. IsFiniteSet(Finished(u)) /\ IsFiniteSet(Unfinished(u))
  BY <1>1, ItemsIn
<1>3. \A i \in Finished(u) \union Unfinished(u) : item[i].hash \in Hash
  <2> SUFFICES ASSUME NEW i \in Finished(u) \union Unfinished(u) PROVE item[i].hash \in Hash
    OBVIOUS
  <2>1. i \in Item /\ item[i].at # "none"
    BY NamesApart DEF Finished, Unfinished, Mine
  <2>2. item[i] \in Stored
    BY <2>1 DEF StorageTyped, NoFile
  <2> QED
    BY <2>2 DEF Stored
<1> DEFINE H == Hashes(Finished(u))
           f == [i \in Finished(u) |-> item[i].hash]
<1>4. H \subseteq Hash
  BY <1>3 DEF Hashes
<1>5. IsFiniteSet(H)
  <2>1. f \in Surjection(Finished(u), H)
    BY DEF Surjection, Hashes
  <2> HIDE DEF f, H
  <2> QED
    BY <1>2, <2>1, FS_Surjection
<1>6. Naturals(SizeOf, H) /\ Naturals(Announced, Unfinished(u))
  BY <1>1, <1>3, <1>4, SizesNat DEF Naturals, Announced
<1>7. Sum(SizeOf, H) \in Nat
  <2> HIDE DEF H
  <2>1. H \in SUBSET H
    OBVIOUS
  <2> QED
    BY <1>5, <1>6, <2>1, SumAdds
<1>8. Sum(Announced, Unfinished(u)) \in Nat
  <2>1. Unfinished(u) \in SUBSET Unfinished(u)
    OBVIOUS
  <2> QED
    BY <1>2, <1>6, <2>1, SumAdds
<1> QED
  BY <1>1, <1>2, <1>4, <1>5, <1>6, <1>7, <1>8 DEF UsageOk

\* Both, of the next state.
LEMMA UsageNext ==
    /\ \A u : Usage(u)' = Sum(SizeOf, Hashes(Finished(u))') + Sum(Announced', Unfinished(u)')
    /\ StorageTyped' => \A u : UsageOk(u)'
<1>1. (\A u : Usage(u) = Sum(SizeOf, Hashes(Finished(u))) + Sum(Announced, Unfinished(u)))'
  BY UsageIs, PTL
<1>2. (StorageTyped => \A u : UsageOk(u))'
  BY UsageTyped, PTL
<1> QED
  BY <1>1, <1>2

\* Nothing is kept that was not.
LEMMA UsageShrinks ==
    ASSUME StorageTyped, StorageTyped', NEW u, Hashes(Finished(u))' \subseteq Hashes(Finished(u)),
           Unfinished(u)' \subseteq Unfinished(u), \A i \in Unfinished(u)' : item'[i].hash = item[i].hash
    PROVE  ~(Usage(u)' > Usage(u))
<1> DEFINE H == Hashes(Finished(u))
           U == Unfinished(u)
<1>1. /\ Usage(u) = Sum(SizeOf, H) + Sum(Announced, U) /\ Sum(SizeOf, H) \in Nat /\ Sum(Announced, U) \in Nat
      /\ IsFiniteSet(H) /\ IsFiniteSet(U) /\ Naturals(SizeOf, H) /\ Naturals(Announced, U) /\ U \subseteq Item
  BY UsageIs, UsageTyped DEF UsageOk
<1>2. /\ Usage(u)' = Sum(SizeOf, H') + Sum(Announced', U') /\ Sum(SizeOf, H') \in Nat
      /\ Sum(Announced', U') \in Nat
  BY UsageNext DEF UsageOk
<1>3. H' \subseteq H /\ U' \subseteq U /\ \A i \in U' : item'[i].hash = item[i].hash
  OBVIOUS
<1> HIDE DEF H, U
<1>4. Sum(SizeOf, H') <= Sum(SizeOf, H)
  BY <1>1, <1>3, SumGrows
<1>5. Sum(Announced, U') <= Sum(Announced, U)
  BY <1>1, <1>3, SumGrows
<1>6. Sum(Announced', U') = Sum(Announced, U')
  <2>1. \A i \in U' : Announced'[i] = Announced[i]
    BY <1>1, <1>3 DEF Announced
  <2>2. IsFiniteSet(U')
    BY <1>1, <1>3, FS_Subset
  <2> QED
    BY <2>1, <2>2, SumEqual
<1> QED
  BY <1>1, <1>2, <1>4, <1>5, <1>6


Fits(u) == Usage(u)' > Usage(u) => Within(Usage(u)', limit[u])

LEMMA UsageKept ==
    ASSUME StorageInv, StorageInv', NEW u,
           \A i \in Item : /\ i \in Finished(u)' => i \in Finished(u) /\ item'[i].hash = item[i].hash
                           /\ i \in Unfinished(u)' => i \in Unfinished(u) /\ item'[i].hash = item[i].hash
    PROVE  Fits(u)
<1>1. Finished(u)' \subseteq Item /\ Unfinished(u)' \subseteq Item
  BY DEF Finished, Unfinished, Mine
<1>2. Hashes(Finished(u))' \subseteq Hashes(Finished(u))
  <2>1. Hashes(Finished(u))' = {item'[i].hash : i \in Finished(u)'}
    BY DEF Hashes
  <2>2. Hashes(Finished(u)) = {item[i].hash : i \in Finished(u)}
    BY DEF Hashes
  <2> QED
    BY <1>1, <2>1, <2>2
<1>3. Unfinished(u)' \subseteq Unfinished(u) /\ \A i \in Unfinished(u)' : item'[i].hash = item[i].hash
  BY <1>1
<1>4. StorageTyped /\ StorageTyped'
  BY DEF StorageInv
<1> QED
  BY <1>2, <1>3, <1>4, UsageShrinks DEF Fits

\* Items are forgotten, and no link comes back.
LEMMA GoneFits ==
    ASSUME StorageInv, StorageInv', NEW gone \in SUBSET Item, item' = Without(gone),
           \A k \in Link : Usable(k)' => Usable(k), NEW u
    PROVE  Fits(u)
<1>1. /\ \A i \in gone : item'[i] = NoFile
      /\ \A i \in Item \ gone : item'[i] = item[i]
  BY ItemsGone
<1>2. ASSUME NEW i \in Item
      PROVE  /\ i \in Finished(u)' => i \in Finished(u) /\ item'[i].hash = item[i].hash
             /\ i \in Unfinished(u)' => i \in Unfinished(u) /\ item'[i].hash = item[i].hash
  <2>1. CASE i \in gone
    <3>1. item'[i].at = "none"
      BY <1>1, <2>1 DEF NoFile
    <3> QED
      BY <3>1, NamesApart DEF Finished, Unfinished
  <2>2. CASE i \notin gone
    <3>1. item'[i] = item[i]
      BY <1>1, <2>2
    <3> QED
      BY <3>1 DEF Finished, Unfinished, Mine
  <2> QED
    BY <2>1, <2>2
<1> QED
  BY <1>2, UsageKept

LEMMA LapseFits ==
    ASSUME StorageInv, StorageInv', NEW links, Lapse(links), NEW u PROVE Fits(u)
<1>1. /\ link' = [k \in Link |-> IF k \in links THEN [link[k] EXCEPT !.lapsed = TRUE] ELSE link[k]]
      /\ item' = item
      /\ link \in [Link -> {NoLink} \union [owner : Member, lapsed : BOOLEAN]]
  BY DEF Lapse, StorageInv, StorageTyped
<1>2. \A k \in Link : Usable(k)' => Usable(k)
  <2> SUFFICES ASSUME NEW k \in Link, Usable(k)' PROVE Usable(k)
    OBVIOUS
  <2>1. CASE k \in links
    <3>1. link'[k] = [link[k] EXCEPT !.lapsed = TRUE]
      BY <1>1, <2>1
    <3>2. CASE link[k] = NoLink
      BY <3>1, <3>2 DEF Usable, NoLink
    <3>3. CASE link[k] \in [owner : Member, lapsed : BOOLEAN]
      BY <3>1, <3>3 DEF Usable
    <3> QED
      BY <1>1, <3>2, <3>3
  <2>2. CASE k \notin links
    <3>1. link'[k] = link[k]
      BY <1>1, <2>2
    <3> QED
      BY <3>1 DEF Usable
  <2> QED
    BY <2>1, <2>2
<1> QED
  BY <1>1, <1>2, UsageKept DEF Finished, Unfinished, Mine

\* Finished files count the same once they are a link's.
LEMMA AttachFits ==
    ASSUME StorageInv, StorageInv', NEW files, NEW l \in Link, NEW v, Attach(l, v, files),
           \A k \in Link : k # l => link'[k] = link[k],
           link[l] = NoLink \/ (link[l] # NoLink /\ link'[l] = link[l]), NEW u
    PROVE  Fits(u)
<1>1. /\ files \subseteq Item /\ \A i \in files : item[i].at = "ready"
      /\ item' = [i \in Item |-> IF i \in files THEN [item[i] EXCEPT !.at = l] ELSE item[i]]
  BY DEF Attach, FilesAt, Mine
<1>2. \A i \in Item : item[i] \in {NoFile} \union Stored
  BY DEF StorageInv, StorageTyped
<1>3. \A i \in files : item'[i].at = l /\ item'[i].hash = item[i].hash /\ item'[i].owner = item[i].owner
  BY <1>1, <1>2 DEF Stored, NoFile
<1>4. ASSUME NEW i \in Item
      PROVE  /\ i \in Finished(u)' => i \in Finished(u) /\ item'[i].hash = item[i].hash
             /\ i \in Unfinished(u)' => i \in Unfinished(u) /\ item'[i].hash = item[i].hash
  <2>1. CASE i \in files
    BY <1>1, <1>3, <2>1, NamesApart DEF Finished, Unfinished, Mine
  <2>2. CASE i \notin files
    <3>1. item'[i] = item[i]
      BY <1>1, <2>2
    <3>2. item[i].at \in Link => link'[item[i].at] = link[item[i].at]
      BY DEF StorageInv, FilesHeld
    <3> QED
      BY <3>1, <3>2 DEF Finished, Unfinished, Mine, Usable
  <2> QED
    BY <2>1, <2>2
<1> QED
  BY <1>4, UsageKept

\* requireRoom: what is announced is added, and to nobody else.
LEMMA PostUploadFits ==
    ASSUME StorageInv, StorageInv', NEW v, NEW i \in Item, NEW h \in Hash, PostUpload(v, i, h),
           NEW u \in Member
    PROVE  Fits(u)
<1>1. /\ item[i] = NoFile /\ Room(v, SizeOf[h]) /\ link' = link /\ v \in Member
      /\ item' = [item EXCEPT ![i] = [owner |-> v, hash |-> h, at |-> "sending"]]
      /\ item \in [Item -> {NoFile} \union Stored]
  BY DEF PostUpload, StorageInv, StorageTyped
<1>2. /\ item'[i] = [owner |-> v, hash |-> h, at |-> "sending"] /\ item[i].at = "none"
      /\ \A j \in Item : j # i => item'[j] = item[j]
  BY <1>1 DEF NoFile
<1>3. i \notin Finished(u)' /\ i \notin Finished(u) /\ i \notin Unfinished(u)
  BY <1>2, NamesApart DEF Finished, Unfinished
<1>4. \A j \in Item : j # i => (j \in Finished(u)' <=> j \in Finished(u))
  BY <1>1, <1>2 DEF Finished, Mine, Usable
<1>5. \A j \in Item : j # i => (j \in Unfinished(u)' <=> j \in Unfinished(u))
  BY <1>1, <1>2 DEF Unfinished, Mine
<1>6. CASE u # v
  <2>1. i \notin Unfinished(u)'
    BY <1>2, <1>6 DEF Unfinished, Mine
  <2>2. \A j \in Item : /\ j \in Finished(u)' => j \in Finished(u) /\ item'[j].hash = item[j].hash
                        /\ j \in Unfinished(u)' => j \in Unfinished(u) /\ item'[j].hash = item[j].hash
    BY <1>2, <1>3, <1>4, <1>5, <2>1
  <2> QED
    BY <2>2, UsageKept
<1>7. CASE u = v
  <2> DEFINE H == Hashes(Finished(u))
             U == Unfinished(u)
  <2>1. /\ Usage(u) = Sum(SizeOf, H) + Sum(Announced, U) /\ Sum(SizeOf, H) \in Nat /\ Sum(Announced, U) \in Nat
        /\ IsFiniteSet(U) /\ U \subseteq Item
    BY UsageIs, UsageTyped DEF StorageInv, UsageOk
  <2>2. /\ Usage(u)' = Sum(SizeOf, H') + Sum(Announced', U') /\ Naturals(Announced', U') /\ IsFiniteSet(U')
    BY UsageNext DEF StorageInv, UsageOk
  <2>3. H' = H
    <3>1. Finished(u)' \subseteq Item /\ Finished(u) \subseteq Item
      BY DEF Finished, Mine
    <3>2. Finished(u)' = Finished(u) /\ \A j \in Finished(u) : item'[j].hash = item[j].hash
      BY <1>2, <1>3, <1>4, <3>1
    <3>3. H' = {item'[j].hash : j \in Finished(u)'} /\ H = {item[j].hash : j \in Finished(u)}
      BY DEF Hashes
    <3> QED
      BY <3>2, <3>3
  <2>4. U' = U \union {i} /\ i \notin U
    <3>1. U' \subseteq Item /\ i \in U'
      BY <1>2, <1>7 DEF Unfinished, Mine
    <3>2. \A j \in Item : j \in U' <=> j \in U \union {i}
      BY <1>3, <1>5, <3>1
    <3> HIDE DEF U
    <3> QED
      BY <1>3, <2>1, <3>1, <3>2 DEF U
  <2>5. Announced'[i] = SizeOf[h] /\ \A j \in U : Announced'[j] = Announced[j]
    BY <1>2, <2>1, <2>4 DEF Announced
  <2> HIDE DEF H, U
  <2>6. Sum(Announced', U) = Sum(Announced, U)
    BY <2>1, <2>5, SumEqual
  <2>7. Sum(Announced', U') = Sum(Announced', U) + Announced'[i]
    <3>1. U \in SUBSET U' /\ i \in U' /\ i \notin U
      BY <2>4
    <3> QED
      BY <2>2, <2>4, <3>1, SumAdds
  <2>8. SizeOf[h] \in Nat
    BY SizesNat
  <2>9. Usage(u)' = Usage(u) + SizeOf[h]
    BY <2>1, <2>2, <2>3, <2>5, <2>6, <2>7, <2>8
  <2> QED
    BY <1>1, <1>7, <2>9 DEF Room, Fits
<1> QED
  BY <1>6, <1>7

\* promoteToBlob: what was counted as announced is counted as kept, or was
\* kept already.
LEMMA FinishUploadFits ==
    ASSUME StorageInv, StorageInv', NEW i \in Item, FinishUpload(i), NEW u \in Member PROVE Fits(u)
<1>1. /\ item[i].at = "sending" /\ link' = link /\ item' = [item EXCEPT ![i].at = "ready"]
      /\ item \in [Item -> {NoFile} \union Stored]
  BY DEF FinishUpload, StorageInv, StorageTyped
<1>2. item[i] \in Stored
  BY <1>1 DEF NoFile
<1>3. /\ item'[i].owner = item[i].owner /\ item'[i].hash = item[i].hash /\ item'[i].at = "ready"
      /\ \A j \in Item : j # i => item'[j] = item[j]
  BY <1>1, <1>2 DEF Stored
<1>4. \A j \in Item : j # i => (j \in Finished(u)' <=> j \in Finished(u))
  BY <1>1, <1>3 DEF Finished, Mine, Usable
<1>5. \A j \in Item : j # i => (j \in Unfinished(u)' <=> j \in Unfinished(u))
  BY <1>1, <1>3 DEF Unfinished, Mine
<1>6. i \notin Unfinished(u)'
  BY <1>3 DEF Unfinished
<1>7. CASE u # item[i].owner
  <2>1. i \notin Finished(u)'
    BY <1>3, <1>7 DEF Finished, Mine
  <2>2. \A j \in Item : /\ j \in Finished(u)' => j \in Finished(u) /\ item'[j].hash = item[j].hash
                        /\ j \in Unfinished(u)' => j \in Unfinished(u) /\ item'[j].hash = item[j].hash
    BY <1>3, <1>4, <1>5, <1>6, <2>1
  <2> QED
    BY <2>2, UsageKept
<1>8. CASE u = item[i].owner
  <2> DEFINE H == Hashes(Finished(u))
             U == Unfinished(u)
             h == item[i].hash
  <2>1. /\ Usage(u) = Sum(SizeOf, H) + Sum(Announced, U) /\ Sum(SizeOf, H) \in Nat /\ Sum(Announced, U) \in Nat
        /\ IsFiniteSet(U) /\ IsFiniteSet(H) /\ U \subseteq Item /\ H \subseteq Hash
        /\ Naturals(SizeOf, H) /\ Naturals(Announced, U)
    BY UsageIs, UsageTyped DEF StorageInv, UsageOk
  <2>2. /\ Usage(u)' = Sum(SizeOf, H') + Sum(Announced', U') /\ Sum(SizeOf, H') \in Nat
        /\ Sum(Announced', U') \in Nat
    BY UsageNext DEF StorageInv, UsageOk
  <2>3. H' \subseteq H \union {h}
    <3>1. Finished(u)' \subseteq Item
      BY DEF Finished, Mine
    <3>2. \A j \in Finished(u)' : item'[j].hash \in {item[k].hash : k \in Finished(u)} \union {h}
      BY <1>3, <1>4, <3>1
    <3>3. H' = {item'[j].hash : j \in Finished(u)'} /\ H = {item[j].hash : j \in Finished(u)}
      BY DEF Hashes
    <3> QED
      BY <3>2, <3>3
  <2>4. i \in U /\ U' = U \ {i}
    <3>1. U' \subseteq Item /\ i \in U
      BY <1>1, <1>8 DEF Unfinished, Mine
    <3>2. \A j \in Item : j \in U' <=> j \in U \ {i}
      BY <1>5, <1>6, <3>1
    <3> HIDE DEF U
    <3> QED
      BY <2>1, <3>1, <3>2
  <2>5. Announced[i] = SizeOf[h] /\ \A j \in U' : Announced'[j] = Announced[j]
    BY <1>3, <2>1, <2>4 DEF Announced
  <2>6. h \in Hash /\ SizeOf[h] \in Nat
    BY <1>2, SizesNat DEF Stored
  <2> HIDE DEF H, U, h
  <2>7. Sum(Announced', U') = Sum(Announced, U')
    <3>1. IsFiniteSet(U')
      BY <2>1, <2>4, FS_Subset
    <3> QED
      BY <2>5, <3>1, SumEqual
  <2>8. Sum(Announced, U) = Sum(Announced, U') + SizeOf[h]
    <3>1. U' \in SUBSET U /\ i \in U /\ i \notin U' /\ U' \union {i} = U
      BY <2>4
    <3>2. Sum(Announced, U' \union {i}) = Sum(Announced, U') + Announced[i]
      BY <2>1, <3>1, SumAdds
    <3> QED
      BY <2>5, <3>1, <3>2
  <2>9. Sum(SizeOf, H') <= Sum(SizeOf, H) + SizeOf[h]
    <3> DEFINE B == H \union {h}
    <3>1. IsFiniteSet(B) /\ Naturals(SizeOf, B) /\ H \in SUBSET B /\ H' \in SUBSET B /\ h \in B
      BY <2>1, <2>3, <2>6, FS_AddElement DEF Naturals
    <3>2. h \in H => B = H
      OBVIOUS
    <3>3. h \notin H => Sum(SizeOf, H \union {h}) = Sum(SizeOf, H) + SizeOf[h]
      <4> HIDE DEF B
      <4> QED
        BY <3>1, SumAdds
    <3>4. Sum(SizeOf, H') <= Sum(SizeOf, B)
      <4> HIDE DEF B
      <4> QED
        BY <3>1, SumGrows
    <3>5. CASE h \in H
      <4>1. Sum(SizeOf, B) = Sum(SizeOf, H)
        BY <3>2, <3>5
      <4> HIDE DEF B
      <4> QED
        BY <2>1, <2>2, <2>6, <3>4, <4>1
    <3>6. CASE h \notin H
      <4>1. Sum(SizeOf, B) = Sum(SizeOf, H) + SizeOf[h]
        BY <3>3, <3>6
      <4> HIDE DEF B
      <4> QED
        BY <3>4, <4>1
    <3> QED
      BY <3>5, <3>6
  <2>10. ~(Usage(u)' > Usage(u))
    BY <2>1, <2>2, <2>6, <2>7, <2>8, <2>9
  <2> QED
    BY <2>10 DEF Fits
<1> QED
  BY <1>7, <1>8

LEMMA StepFits ==
    ASSUME StorageInv, StorageInv', StorageNext, NEW u \in Member PROVE Fits(u)
<1>1. ASSUME NEW v \in Member, NEW i \in Item, NEW h \in Hash, PostUpload(v, i, h) PROVE Fits(u)
  BY <1>1, PostUploadFits
<1>2. ASSUME NEW i \in Item, FinishUpload(i) PROVE Fits(u)
  BY <1>2, FinishUploadFits
<1>3. ASSUME NEW i \in Item, DropUpload(i) PROVE Fits(u)
  <2>1. item' = Without({i}) /\ {i} \in SUBSET Item /\ link' = link
    BY <1>3 DEF DropUpload
  <2>2. \A k \in Link : Usable(k)' => Usable(k)
    BY <2>1 DEF Usable
  <2> QED
    BY <2>1, <2>2, GoneFits
<1>4. ASSUME NEW i \in Item, RemoveFile(i) PROVE Fits(u)
  <2>1. /\ item' = Without({i}) /\ {i} \in SUBSET Item /\ Usable(item[i].at)
        /\ \A k \in Link : k # item[i].at => link'[k] = link[k]
    BY <1>4 DEF RemoveFile, StorageInv, StorageTyped
  <2>2. \A k \in Link : Usable(k)' => Usable(k)
    BY <2>1 DEF Usable
  <2> QED
    BY <2>1, <2>2, GoneFits
<1>5. ASSUME NEW l \in Link, NEW files \in SUBSET Item, AddFiles(l, files) PROVE Fits(u)
  BY <1>5, AttachFits DEF AddFiles, Usable
<1>6. ASSUME NEW l \in Link, NEW files \in SUBSET Item, NEW v \in Member, CreateLink(l, v, files)
      PROVE  Fits(u)
  <2>1. /\ link[l] = NoLink /\ Attach(l, v, files)
        /\ \A k \in Link : k # l => link'[k] = link[k]
    BY <1>6 DEF CreateLink, StorageInv, StorageTyped
  <2> QED
    BY <2>1, AttachFits
<1>7. ASSUME NEW l \in Link, LinkLapses(l) PROVE Fits(u)
  BY <1>7, LapseFits DEF LinkLapses
<1>8. ASSUME NEW l \in Link, ReleaseLink(l) PROVE Fits(u)
  <2>1. /\ item' = Without(FilesAt(l)) /\ FilesAt(l) \in SUBSET Item /\ link' = [link EXCEPT ![l] = NoLink]
        /\ DOMAIN link = Link
    BY <1>8 DEF ReleaseLink, FilesAt, StorageInv, StorageTyped
  <2>2. \A k \in Link : Usable(k)' => Usable(k)
    BY <2>1 DEF Usable
  <2> QED
    BY <2>1, <2>2, GoneFits
<1>9. ASSUME NEW v \in Member, RevokeAll(v) PROVE Fits(u)
  BY <1>9, LapseFits DEF RevokeAll
<1>10. ASSUME NEW v \in Member, DeleteKeeper(v) PROVE Fits(u)
  <2>1. /\ item' = Without(Mine(v)) /\ Mine(v) \in SUBSET Item
        /\ link' = [l \in Link |-> IF link[l].owner = v THEN NoLink ELSE link[l]]
    BY <1>10 DEF DeleteKeeper, Mine
  <2>2. \A k \in Link : Usable(k)' => Usable(k)
    BY <2>1 DEF Usable
  <2> QED
    BY <2>1, <2>2, GoneFits
<1>11. ASSUME NEW v \in Member, NEW n \in Limits, SetLimit(v, n) PROVE Fits(u)
  <2>1. item' = item /\ link' = link
    BY <1>11 DEF SetLimit
  <2> QED
    BY <2>1, UsageKept DEF Finished, Unfinished, Mine, Usable
<1> QED
  BY <1>1, <1>2, <1>3, <1>4, <1>5, <1>6, <1>7, <1>8, <1>9, <1>10, <1>11 DEF StorageNext

\* What a member keeps grows only within the limit: what requireRoom lets in is
\* all that ever counts for more, finishing and attaching it included.
THEOREM StorageGrowsWithinLimit == StorageSpec => GrowsWithinLimit
<1>1. StorageInv /\ StorageInv' /\ [StorageNext]_storageVars
      => [\A u \in Member : Usage(u)' > Usage(u) => Within(Usage(u)', limit[u])]_storageVars
  BY StepFits DEF Fits
<1>2. StorageSpec => [][StorageNext]_storageVars
  BY PTL DEF StorageSpec
<1> QED
  BY <1>1, <1>2, StorageAlways, PTL DEF GrowsWithinLimit

=============================================================================
