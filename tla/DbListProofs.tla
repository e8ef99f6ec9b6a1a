---------------------------- MODULE DbListProofs ----------------------------
(***************************************************************************)
(* Lemmas about what the databases share: sums of lengths, the offsets of  *)
(* pieces laid out one after another, records put into a list and taken    *)
(* out of it, and reading a table of offsets.  They hold for lists of any  *)
(* length.  Where a recursive function is concerned the induction is on a  *)
(* set of numbers, and that the function exists is part of the proof.      *)
(***************************************************************************)
EXTENDS DbLists, SequenceTheorems, WellFoundedInduction, TLAPS

-----------------------------------------------------------------------------
(* Induction and recursion *)

\* A set that has 0 and with each number the next one has all of them.
LEMMA InductiveSet ==
  ASSUME NEW T, 0 \in T, \A n \in Nat : n \in T => n + 1 \in T
  PROVE  Nat \subseteq T
<1> DEFINE R == OpToRel(<, Nat)
           Missing == Nat \ T
<1>1. IsWellFoundedOn(R, Nat)
  BY NatLessThanWellFounded
<1>2. \A m, n \in Nat : <<n, m>> \in R <=> n < m
  BY DEF OpToRel
<1> HIDE DEF R
<1>3. SUFFICES ASSUME Missing # {} PROVE FALSE
  OBVIOUS
<1>4. PICK m \in Missing : \A n \in Missing : <<n, m>> \notin R
  BY <1>1, <1>3, WFMin
<1>5. m \in Nat /\ m # 0 /\ m - 1 \in Nat
  OBVIOUS
<1>6. m - 1 \in T
  <2>1. <<m - 1, m>> \in R
    BY <1>2, <1>5
  <2>2. m - 1 \notin Missing
    BY <1>4, <2>1
  <2> QED
    BY <1>5, <2>2
<1> QED
  BY <1>5, <1>6

\* The same up to N.
LEMMA InductiveUpTo ==
  ASSUME NEW N \in Nat, NEW T, 0 \in T, \A n \in 1..N : n - 1 \in T => n \in T
  PROVE  0..N \subseteq T
<1> DEFINE U == {n \in Nat : n <= N => n \in T}
<1>1. 0 \in U
  OBVIOUS
<1>2. ASSUME NEW n \in Nat, n \in U PROVE n + 1 \in U
  <2>1. SUFFICES ASSUME n + 1 <= N PROVE n + 1 \in T
    OBVIOUS
  <2>2. n \in T /\ n + 1 \in 1..N /\ (n + 1) - 1 = n
    BY <1>2, <2>1
  <2> QED
    BY <2>2
<1> HIDE DEF U
<1>3. Nat \subseteq U
  BY <1>1, <1>2, InductiveSet
<1> QED
  BY <1>3 DEF U

\* What holds at 0 and is handed on from each place to the next holds up to N.
LEMMA HandedOn ==
  ASSUME NEW N \in Nat, NEW S, NEW h, h[0] \in S,
         \A n \in 1..N : h[n - 1] \in S => h[n] \in S
  PROVE  \A n \in 0..N : h[n] \in S
<1> DEFINE T == {n \in 0..N : h[n] \in S}
<1>1. 0 \in T
  OBVIOUS
<1>2. \A n \in 1..N : n - 1 \in T => n \in T
  OBVIOUS
<1> HIDE DEF T
<1>3. 0..N \subseteq T
  BY <1>1, <1>2, InductiveUpTo
<1> QED
  BY <1>3 DEF T

\* f is made by recursion from d: g says how each value follows from the one
\* before.
Iterates(f, S, N, d, g) ==
    f \in [0..N -> S] /\ f[0] = d /\ \A k \in 1..N : f[k] = g[k][f[k - 1]]

\* A function that is defined by recursion exists.
LEMMA Iteration ==
  ASSUME NEW S, NEW N \in Nat, NEW d \in S, NEW g \in [1..N -> [S -> S]]
  PROVE  \E f : Iterates(f, S, N, d, g)
<1> DEFINE Upto(n) == {f \in [0..n -> S] :
                          f[0] = d /\ \A k \in 1..n : f[k] = g[k][f[k - 1]]}
           T == {n \in Nat : n <= N => Upto(n) # {}}
<1>1. 0 \in T
  <2>1. [k \in 0..0 |-> d] \in Upto(0)
    OBVIOUS
  <2> QED
    BY <2>1
<1>2. ASSUME NEW n \in Nat, n \in T PROVE n + 1 \in T
  <2>1. SUFFICES ASSUME n + 1 <= N PROVE Upto(n + 1) # {}
    OBVIOUS
  <2>2. PICK f : f \in Upto(n)
    BY <1>2, <2>1
  <2> DEFINE e == [k \in 0..(n + 1) |-> IF k <= n THEN f[k] ELSE g[k][f[n]]]
  <2>3. f \in [0..n -> S] /\ f[n] \in S
    BY <2>2
  <2>4. g[n + 1][f[n]] \in S
    BY <2>1, <2>3
  <2>5. e \in [0..(n + 1) -> S]
    <3>1. ASSUME NEW k \in 0..(n + 1) PROVE e[k] \in S
      <4>1. CASE k <= n
        BY <2>3, <4>1
      <4>2. CASE k = n + 1
        BY <2>4, <4>2
      <4> QED
        BY <4>1, <4>2
    <3> QED
      BY <3>1
  <2>6. e[0] = d
    BY <2>2
  <2>7. ASSUME NEW k \in 1..(n + 1) PROVE e[k] = g[k][e[k - 1]]
    <3>1. CASE k <= n
      <4>1. k \in 1..n /\ e[k] = f[k] /\ e[k - 1] = f[k - 1]
        BY <3>1
      <4> QED
        BY <2>2, <4>1
    <3>2. CASE k = n + 1
      <4>1. e[k] = g[k][f[n]] /\ e[k - 1] = f[n]
        BY <3>2
      <4> QED
        BY <4>1
    <3> QED
      BY <3>1, <3>2
  <2> HIDE DEF e
  <2>8. e \in Upto(n + 1)
    BY <2>5, <2>6, <2>7
  <2> QED
    BY <2>8
<1> HIDE DEF T
<1>3. N \in T
  BY <1>1, <1>2, InductiveSet
<1> QED
  BY <1>3 DEF T, Iterates

-----------------------------------------------------------------------------
(* Sums *)

\* The sums of the first elements of s.
SumsOf(f, s) ==
    /\ f \in [0..Len(s) -> Int] /\ f[0] = 0
    /\ \A k \in 1..Len(s) : f[k] = f[k - 1] + s[k]

LEMMA SumsExist ==
  ASSUME NEW s \in Seq(Int)
  PROVE  \E f : SumsOf(f, s)
<1> DEFINE g == [k \in 1..Len(s) |-> [x \in Int |-> x + s[k]]]
<1>1. Len(s) \in Nat /\ \A k \in 1..Len(s) : s[k] \in Int
  OBVIOUS
<1>2. g \in [1..Len(s) -> [Int -> Int]]
  BY <1>1
<1>3. PICK f : Iterates(f, Int, Len(s), 0, g)
  <2> HIDE DEF g
  <2>1. 0 \in Int /\ Len(s) \in Nat
    BY <1>1
  <2> QED
    BY <1>2, <2>1, Iteration, Zenon
<1>4. ASSUME NEW k \in 1..Len(s) PROVE f[k] = f[k - 1] + s[k]
  <2>1. f[k - 1] \in Int
    BY <1>1, <1>3 DEF Iterates
  <2> QED
    BY <1>3, <2>1 DEF Iterates
<1> QED
  BY <1>3, <1>4 DEF SumsOf, Iterates

\* Two numbers grow by the same.
LEMMA SameGrowth ==
  ASSUME NEW p \in Int, NEW q \in Int, NEW z \in Int, NEW u \in Int, NEW v \in Int,
         p - u = q - v
  PROVE  (p + z) - u = (q + z) - v
  OBVIOUS

\* From place c on t is as s from place b on; so is the growth of their sums.
SameFrom(t, c, s, b, n) == \A k \in 1..n : t[c + k] = s[b + k]
GrowSame(h, c, f, b, n) == \A k \in 0..n : h[c + k] - h[c] = f[b + k] - f[b]

\* Sums move along with the elements.
LEMMA SumsShift ==
  ASSUME NEW s \in Seq(Int), NEW t \in Seq(Int), NEW f, NEW h,
         SumsOf(f, s), SumsOf(h, t), NEW c \in Nat, NEW b \in Nat, NEW n \in Nat,
         c + n <= Len(t), b + n <= Len(s), SameFrom(t, c, s, b, n)
  PROVE  GrowSame(h, c, f, b, n)
<1> DEFINE T == {k \in 0..n : h[c + k] - h[c] = f[b + k] - f[b]}
<1>1. Len(s) \in Nat /\ Len(t) \in Nat
  OBVIOUS
<1>2. ASSUME NEW k \in 0..n PROVE h[c + k] \in Int /\ f[b + k] \in Int
  <2>1. c + k \in 0..Len(t) /\ b + k \in 0..Len(s)
    BY <1>1
  <2> QED
    BY <2>1 DEF SumsOf
<1>3. h[c] \in Int /\ f[b] \in Int
  <2>1. c \in 0..Len(t) /\ b \in 0..Len(s)
    BY <1>1
  <2> QED
    BY <2>1 DEF SumsOf
<1>4. 0 \in T
  BY <1>3
<1>5. ASSUME NEW k \in 1..n, k - 1 \in T PROVE k \in T
  <2>1. k - 1 \in 0..n /\ k \in 0..n /\ c + k \in 1..Len(t) /\ b + k \in 1..Len(s)
    BY <1>1
  <2>2. h[c + k] = h[c + k - 1] + t[c + k] /\ f[b + k] = f[b + k - 1] + s[b + k]
    BY <2>1 DEF SumsOf
  <2>3. c + (k - 1) = c + k - 1 /\ b + (k - 1) = b + k - 1 /\ t[c + k] = s[b + k]
    BY DEF SameFrom
  <2>4. h[c + k - 1] \in Int /\ f[b + k - 1] \in Int
    BY <1>2, <2>1, <2>3
  <2>5. s[b + k] \in Int
    BY <2>1
  <2>6. h[c + k - 1] - h[c] = f[b + k - 1] - f[b]
    BY <1>5, <2>3
  <2>7. h[c + k] = h[c + k - 1] + s[b + k] /\ f[b + k] = f[b + k - 1] + s[b + k]
    BY <2>2, <2>3
  <2> DEFINE p == h[c + k - 1]
             q == f[b + k - 1]
             z == s[b + k]
             u == h[c]
             v == f[b]
  <2>8. /\ p \in Int /\ q \in Int /\ z \in Int /\ u \in Int /\ v \in Int
        /\ p - u = q - v
    BY <1>3, <2>4, <2>5, <2>6
  <2>9. h[c + k] = p + z /\ f[b + k] = q + z
    BY <2>7
  <2>10. SUFFICES h[c + k] - u = f[b + k] - v
    BY <2>1
  <2> HIDE DEF p, q, z, u, v
  <2>11. (p + z) - u = (q + z) - v
    BY <2>8, SameGrowth
  <2> QED
    BY <2>9, <2>11
<1> HIDE DEF T
<1>6. 0..n \subseteq T
  BY <1>4, <1>5, InductiveUpTo
<1> QED
  BY <1>6 DEF T, GrowSame

\* Sum adds up all of them.
LEMMA SumIsLast ==
  ASSUME NEW s \in Seq(Int), NEW f, SumsOf(f, s)
  PROVE  Sum(s) = f[Len(s)] /\ Sum(s) \in Int
<1> DEFINE Body(h) == [n \in 0..Len(s) |-> IF n = 0 THEN 0 ELSE h[n - 1] + s[n]]
           upTo == CHOOSE h : h = Body(h)
<1>1. Len(s) \in Nat /\ \A k \in 1..Len(s) : s[k] \in Int
  OBVIOUS
<1>2. f = Body(f)
  <2>1. f = [n \in 0..Len(s) |-> f[n]]
    BY DEF SumsOf
  <2>2. ASSUME NEW n \in 0..Len(s)
        PROVE  f[n] = IF n = 0 THEN 0 ELSE f[n - 1] + s[n]
    BY <1>1 DEF SumsOf
  <2> QED
    BY <2>1, <2>2
<1>3. upTo = Body(upTo)
  BY <1>2
<1>4. \A n \in 0..Len(s) : upTo[n] = IF n = 0 THEN 0 ELSE upTo[n - 1] + s[n]
  <2> HIDE DEF upTo
  <2> QED
    BY <1>3
<1>5. Sum(s) = upTo[Len(s)]
  BY DEF Sum
<1> HIDE DEF upTo
<1> DEFINE T == {n \in 0..Len(s) : upTo[n] = f[n]}
<1>6. 0 \in T
  BY <1>1, <1>4 DEF SumsOf
<1>7. ASSUME NEW n \in 1..Len(s), n - 1 \in T PROVE n \in T
  <2>1. n \in 0..Len(s) /\ n - 1 \in 0..Len(s) /\ n # 0
    BY <1>1
  <2>2. upTo[n - 1] = f[n - 1]
    BY <1>7, <2>1
  <2>3. upTo[n] = upTo[n - 1] + s[n] /\ f[n] = f[n - 1] + s[n]
    BY <1>4, <2>1 DEF SumsOf
  <2> QED
    BY <2>1, <2>2, <2>3
<1> HIDE DEF T
<1>8. 0..Len(s) \subseteq T
  BY <1>1, <1>6, <1>7, InductiveUpTo
<1>9. upTo[Len(s)] = f[Len(s)]
  BY <1>1, <1>8 DEF T
<1> QED
  BY <1>1, <1>5, <1>9 DEF SumsOf

\* Their values, each in its place.
LEMMA SumsValues ==
  ASSUME NEW s \in Seq(Int), NEW f, SumsOf(f, s)
  PROVE  /\ Len(s) \in Nat /\ f[0] = 0 /\ \A k \in 0..Len(s) : f[k] \in Int
         /\ \A k \in 1..Len(s) : /\ f[k] = f[k - 1] + s[k] /\ s[k] \in Int
                                 /\ f[k] \in Int /\ f[k - 1] \in Int
<1>1. Len(s) \in Nat /\ \A k \in 1..Len(s) : s[k] \in Int
  OBVIOUS
<1>2. f[0] = 0 /\ \A k \in 0..Len(s) : f[k] \in Int
  BY DEF SumsOf
<1>3. ASSUME NEW k \in 1..Len(s)
      PROVE  /\ f[k] = f[k - 1] + s[k] /\ s[k] \in Int
             /\ f[k] \in Int /\ f[k - 1] \in Int
  <2>1. k \in 0..Len(s) /\ k - 1 \in 0..Len(s)
    BY <1>1
  <2> QED
    BY <1>1, <1>2, <2>1 DEF SumsOf
<1> QED
  BY <1>1, <1>2, <1>3

\* Sums of the same elements are the same.
LEMMA SumsSame ==
  ASSUME NEW s \in Seq(Int), NEW t \in Seq(Int), NEW f, NEW h,
         SumsOf(f, s), SumsOf(h, t), NEW n \in Nat, n <= Len(s), n <= Len(t),
         \A k \in 1..n : t[k] = s[k]
  PROVE  \A k \in 0..n : h[k] = f[k]
<1> DEFINE T == {k \in 0..n : h[k] = f[k]}
<1>1. 0 \in T
  BY SumsValues
<1>2. ASSUME NEW k \in 1..n, k - 1 \in T PROVE k \in T
  <2>1. k \in 1..Len(s) /\ k \in 1..Len(t) /\ k \in 0..n
    BY SumsValues
  <2>2. f[k] = f[k - 1] + s[k] /\ h[k] = h[k - 1] + t[k]
    BY <2>1, SumsValues
  <2> QED
    BY <1>2, <2>1, <2>2
<1> HIDE DEF T
<1>3. 0..n \subseteq T
  BY <1>1, <1>2, InductiveUpTo
<1> QED
  BY <1>3 DEF T

\* The sums of the first elements, all of them in one function.
LEMMA PrefixSums ==
  ASSUME NEW s \in Seq(Int)
  PROVE  \E f : /\ SumsOf(f, s) /\ Sum(s) = f[Len(s)]
                /\ \A k \in 0..Len(s) : Sum(SubSeq(s, 1, k)) = f[k]
<1>1. PICK f : SumsOf(f, s)
  BY SumsExist
<1>2. ASSUME NEW k \in 0..Len(s) PROVE Sum(SubSeq(s, 1, k)) = f[k]
  <2> DEFINE p == SubSeq(s, 1, k)
  <2>1. /\ p \in Seq(Int) /\ Len(p) = k /\ k \in Nat /\ Len(s) \in Nat
        /\ \A i \in 1..k : p[i] = s[i]
    OBVIOUS
  <2> HIDE DEF p
  <2>2. PICK e : SumsOf(e, p)
    BY <2>1, SumsExist
  <2>6. f[k] = e[k]
    BY <1>1, <2>1, <2>2, SumsSame
  <2>7. Sum(p) = e[k]
    BY <2>1, <2>2, SumIsLast
  <2> QED
    BY <2>6, <2>7 DEF p
<1>3. Sum(s) = f[Len(s)]
  BY <1>1, SumIsLast
<1> QED
  BY <1>1, <1>2, <1>3

\* Nothing adds up to nothing.
LEMMA SumEmpty == Sum(<< >>) = 0
<1>1. << >> \in Seq(Int) /\ Len(<< >>) = 0
  OBVIOUS
<1>2. PICK f : SumsOf(f, << >>)
  BY <1>1, SumsExist
<1> QED
  BY <1>1, <1>2, SumIsLast DEF SumsOf

LEMMA LastGrowth ==
  ASSUME NEW a \in Int, NEW b \in Int, NEW c \in Int, NEW d \in Int, NEW e \in Int,
         a - b = c - d, b = d + e
  PROVE  a = c + e
  OBVIOUS

\* An element put between the others adds itself.
LEMMA SumInserted ==
  ASSUME NEW s \in Seq(Int), NEW t \in Seq(Int), NEW k \in 1..(Len(s) + 1),
         Len(t) = Len(s) + 1, \A j \in 1..(k - 1) : t[j] = s[j],
         \A j \in k..Len(s) : t[j + 1] = s[j]
  PROVE  Sum(t) = Sum(s) + t[k]
<1>1. PICK f : SumsOf(f, s)
  BY SumsExist
<1>2. PICK h : SumsOf(h, t)
  BY SumsExist
<1> DEFINE n == Len(s)
           m == Len(s) - k + 1
<1>3. n \in Nat /\ m \in Nat /\ k \in Nat /\ k - 1 \in Nat
  OBVIOUS
<1>4. h[k - 1] = f[k - 1]
  <2>1. k - 1 <= Len(s) /\ k - 1 <= Len(t)
    BY <1>3
  <2>2. \A j \in 0..(k - 1) : h[j] = f[j]
    BY <1>1, <1>2, <1>3, <2>1, SumsSame
  <2> QED
    BY <1>3, <2>2
<1>5. h[k] = h[k - 1] + t[k]
  <2>1. k \in 1..Len(t)
    BY <1>3
  <2> QED
    BY <1>2, <2>1, SumsValues
<1>6. h[k + m] - h[k] = f[(k - 1) + m] - f[k - 1]
  <2>1. \A j \in 1..m : t[k + j] = s[(k - 1) + j]
    <3> SUFFICES ASSUME NEW j \in 1..m PROVE t[k + j] = s[(k - 1) + j]
      OBVIOUS
    <3>1. (k - 1) + j \in k..Len(s) /\ ((k - 1) + j) + 1 = k + j
      BY <1>3
    <3> QED
      BY <3>1
  <2>2. k + m <= Len(t) /\ (k - 1) + m <= Len(s)
    BY <1>3
  <2> HIDE DEF m
  <2> DEFINE b == k - 1
  <2>3. b \in Nat /\ b + m <= Len(s) /\ SameFrom(t, k, s, b, m)
    BY <1>3, <2>1, <2>2 DEF SameFrom
  <2> HIDE DEF b
  <2>4. GrowSame(h, k, f, b, m)
    BY <1>1, <1>2, <1>3, <2>2, <2>3, SumsShift
  <2>5. m \in 0..m
    BY <1>3
  <2>6. h[k + m] - h[k] = f[b + m] - f[b]
    BY <2>4, <2>5 DEF GrowSame
  <2> QED
    BY <2>6 DEF b
<1>7. k + m = Len(t) /\ (k - 1) + m = Len(s)
  <2>1. n \in Nat /\ k \in Int /\ Len(t) = n + 1 /\ m = n - k + 1 /\ Len(s) = n
    BY <1>3
  <2> HIDE DEF n, m
  <2> QED
    BY <2>1
<1>8. /\ h[Len(t)] \in Int /\ f[Len(s)] \in Int /\ h[k] \in Int
      /\ h[k - 1] \in Int /\ f[k - 1] \in Int /\ t[k] \in Int
  <2>1. k \in 1..Len(t) /\ Len(t) \in 0..Len(t) /\ n \in 0..n /\ k - 1 \in 0..n
    BY <1>3
  <2>2. h[Len(t)] \in Int /\ h[k] \in Int /\ t[k] \in Int
    BY <1>2, <2>1, SumsValues
  <2>3. f[n] \in Int /\ f[k - 1] \in Int
    BY <1>1, <2>1, SumsValues
  <2>4. h[k - 1] \in Int
    BY <1>4, <2>3
  <2> QED
    BY <2>2, <2>3, <2>4
<1>9. h[Len(t)] - h[k] = f[Len(s)] - f[k - 1]
  BY <1>6, <1>7
<1>10. h[Len(t)] = f[Len(s)] + t[k]
  <2> DEFINE a == h[Len(t)]
             p == h[k]
             c == f[Len(s)]
             q == f[k - 1]
             e == t[k]
  <2>1. /\ a \in Int /\ p \in Int /\ c \in Int /\ q \in Int /\ e \in Int
        /\ a - p = c - q /\ p = q + e
    BY <1>4, <1>5, <1>8, <1>9
  <2> HIDE DEF a, p, c, q, e
  <2>2. a = c + e
    BY <2>1, LastGrowth
  <2> QED
    BY <2>2 DEF a, c, e
<1> QED
  BY <1>1, <1>2, <1>10, SumIsLast

\* One element in place of another.
LEMMA SumReplaced ==
  ASSUME NEW s \in Seq(Int), NEW t \in Seq(Int), NEW k \in 1..Len(s),
         Len(t) = Len(s), \A j \in 1..Len(s) : j # k => t[j] = s[j]
  PROVE  Sum(t) = Sum(s) - s[k] + t[k]
<1> DEFINE n == Len(s)
           r == [j \in 1..(n - 1) |-> IF j < k THEN s[j] ELSE s[j + 1]]
<1>1. n \in Nat /\ n - 1 \in Nat /\ k \in 1..n
  OBVIOUS
<1>2. ASSUME NEW j \in 1..(n - 1)
      PROVE  (IF j < k THEN s[j] ELSE s[j + 1]) \in Int
  <2>1. j \in 1..n /\ j + 1 \in 1..n
    BY <1>1
  <2>2. s[j] \in Int /\ s[j + 1] \in Int
    BY <2>1
  <2> QED
    BY <2>2
<1>3. r \in Seq(Int) /\ Len(r) = n - 1
  <2>1. r \in [1..(n - 1) -> Int]
    BY <1>2
  <2> HIDE DEF r
  <2>2. DOMAIN r = 1..(n - 1)
    BY <2>1
  <2>3. r \in Seq(Int)
    BY <1>1, <2>1, SeqDef
  <2> QED
    BY <1>1, <2>2, <2>3
<1>4. /\ \A j \in 1..(k - 1) : s[j] = r[j] /\ t[j] = r[j]
      /\ \A j \in k..(n - 1) : s[j + 1] = r[j] /\ t[j + 1] = r[j]
  <2>1. ASSUME NEW j \in 1..(k - 1) PROVE s[j] = r[j] /\ t[j] = r[j]
    <3>1. j \in 1..(n - 1) /\ j < k /\ j \in 1..n /\ j # k
      BY <1>1
    <3> QED
      BY <3>1
  <2>2. ASSUME NEW j \in k..(n - 1) PROVE s[j + 1] = r[j] /\ t[j + 1] = r[j]
    <3>1. j \in 1..(n - 1) /\ ~(j < k) /\ j + 1 \in 1..n /\ j + 1 # k
      BY <1>1
    <3> QED
      BY <3>1
  <2> QED
    BY <2>1, <2>2
<1> HIDE DEF r
<1>8. k \in 1..(Len(r) + 1) /\ Len(s) = Len(r) + 1 /\ Len(t) = Len(r) + 1
  BY <1>1, <1>3
<1>5. Sum(s) = Sum(r) + s[k]
  BY <1>3, <1>4, <1>8, SumInserted
<1>6. Sum(t) = Sum(r) + t[k]
  BY <1>3, <1>4, <1>8, SumInserted
<1>7. Sum(r) \in Int /\ s[k] \in Int /\ t[k] \in Int
  <2>1. PICK f : SumsOf(f, r)
    BY <1>3, SumsExist
  <2> QED
    BY <1>3, <2>1, SumIsLast
<1> QED
  BY <1>5, <1>6, <1>7

\* The more lengths the greater the sum.
LEMMA SumsGrow ==
  ASSUME NEW s \in Seq(Nat), NEW f, SumsOf(f, s)
  PROVE  /\ \A i, j \in 0..Len(s) : i <= j => f[i] <= f[j]
         /\ \A j \in 0..Len(s) : f[j] \in Nat
<1>1. Len(s) \in Nat /\ s \in Seq(Int) /\ \A k \in 1..Len(s) : s[k] \in Nat
  OBVIOUS
<1>2. ASSUME NEW i \in 0..Len(s)
      PROVE  \A j \in 0..Len(s) : i <= j => f[i] <= f[j]
  <2> DEFINE T == {j \in 0..Len(s) : i <= j => f[i] <= f[j]}
  <2>1. 0 \in T
    <3>1. f[0] \in Int
      BY <1>1, SumsValues
    <3>2. i <= 0 => i = 0
      BY <1>1
    <3> QED
      BY <1>1, <3>1, <3>2
  <2>2. ASSUME NEW j \in 1..Len(s), j - 1 \in T PROVE j \in T
    <3>1. f[j] = f[j - 1] + s[j] /\ s[j] \in Nat /\ f[j - 1] \in Int /\ f[i] \in Int
          /\ f[j] \in Int
      BY <1>1, SumsValues
    <3>2. CASE i <= j - 1
      BY <2>2, <3>1, <3>2
    <3>3. CASE i >= j
      BY <3>1, <3>3
    <3> QED
      BY <3>2, <3>3
  <2> HIDE DEF T
  <2>3. 0..Len(s) \subseteq T
    BY <1>1, <2>1, <2>2, InductiveUpTo
  <2> QED
    BY <2>3 DEF T
<1>3. ASSUME NEW j \in 0..Len(s) PROVE f[j] \in Nat
  <2>1. f[j] \in Int /\ f[0] = 0 /\ 0 \in 0..Len(s)
    BY <1>1, SumsValues
  <2>2. f[0] <= f[j]
    BY <1>2, <2>1
  <2> QED
    BY <2>1, <2>2
<1> QED
  BY <1>2, <1>3

LEMMA SumType ==
  ASSUME NEW s \in Seq(Nat)
  PROVE  Sum(s) \in Nat /\ \A k \in 1..Len(s) : s[k] <= Sum(s)
<1>1. s \in Seq(Int) /\ Len(s) \in Nat
  OBVIOUS
<1>2. PICK f : SumsOf(f, s)
  BY <1>1, SumsExist
<1>3. Sum(s) = f[Len(s)]
  BY <1>1, <1>2, SumIsLast
<1>4. Sum(s) \in Nat
  BY <1>1, <1>2, <1>3, SumsGrow
<1>5. ASSUME NEW k \in 1..Len(s) PROVE s[k] <= Sum(s)
  <2>1. /\ k \in 0..Len(s) /\ k - 1 \in 0..Len(s) /\ Len(s) \in 0..Len(s)
        /\ k <= Len(s)
    BY <1>1
  <2>2. f[k] <= f[Len(s)] /\ f[k - 1] \in Nat
    BY <1>2, <2>1, SumsGrow
  <2>3. f[k] = f[k - 1] + s[k] /\ s[k] \in Int
    BY <1>1, <1>2, SumsValues
  <2> QED
    BY <1>3, <1>4, <2>2, <2>3
<1> QED
  BY <1>4, <1>5

-----------------------------------------------------------------------------
(* Pieces one after another *)

\* Each piece ends where the next one begins, or before, and the last where the
\* sum of the lengths says.
LEMMA OffsetsApart ==
  ASSUME NEW lens \in Seq(Nat), NEW start \in Nat
  PROVE  LET off == Offsets(start, lens)
         IN /\ DOMAIN off = 1..Len(lens)
            /\ \A i \in 1..Len(lens) :
                  off[i] \in Nat /\ start <= off[i] /\ off[i] + lens[i] <= start + Sum(lens)
            /\ \A i, j \in 1..Len(lens) : i < j => off[i] + lens[i] <= off[j]
<1>1. lens \in Seq(Int) /\ Len(lens) \in Nat /\ DOMAIN lens = 1..Len(lens)
  OBVIOUS
<1>2. PICK f : /\ SumsOf(f, lens) /\ Sum(lens) = f[Len(lens)]
               /\ \A k \in 0..Len(lens) : Sum(SubSeq(lens, 1, k)) = f[k]
  BY <1>1, PrefixSums
<1> DEFINE off == Offsets(start, lens)
           N == Len(lens)
<1>3. ASSUME NEW i \in 1..N
      PROVE  /\ off[i] = start + f[i - 1] /\ f[i - 1] \in Nat /\ f[i] \in Nat
             /\ f[i] = f[i - 1] + lens[i] /\ lens[i] \in Nat
  <2>1. i - 1 \in 0..N /\ i \in 0..N
    BY <1>1
  <2>2. off[i] = start + Sum(SubSeq(lens, 1, i - 1))
    BY <1>1 DEF Offsets
  <2>3. Sum(SubSeq(lens, 1, i - 1)) = f[i - 1]
    BY <1>2, <2>1
  <2>4. f[i - 1] \in Nat /\ f[i] \in Nat
    BY <1>2, <2>1, SumsGrow
  <2>5. f[i] = f[i - 1] + lens[i]
    BY <1>1, <1>2, SumsValues
  <2>6. lens[i] \in Nat
    BY <1>1
  <2> QED
    BY <2>2, <2>3, <2>4, <2>5, <2>6
<1>4. DOMAIN off = 1..N
  BY <1>1 DEF Offsets
<1> HIDE DEF off
<1>5. ASSUME NEW i \in 1..N
      PROVE  off[i] \in Nat /\ start <= off[i] /\ off[i] + lens[i] <= start + Sum(lens)
  <2>1. i \in 0..N /\ N \in 0..N /\ i <= N
    BY <1>1
  <2>2. f[i] <= f[N] /\ f[N] \in Nat
    BY <1>2, <2>1, SumsGrow
  <2> DEFINE a == f[i - 1]
             b == f[i]
             c == f[N]
             l == lens[i]
  <2>3. /\ off[i] = start + a /\ b = a + l /\ b <= c /\ Sum(lens) = c
        /\ a \in Nat /\ b \in Nat /\ c \in Nat /\ l \in Nat
    BY <1>2, <1>3, <2>2
  <2> HIDE DEF a, b, c
  <2> QED
    BY <2>3
<1>6. ASSUME NEW i \in 1..N, NEW j \in 1..N, i < j
      PROVE  off[i] + lens[i] <= off[j]
  <2>1. i \in 0..N /\ j - 1 \in 0..N /\ i <= j - 1
    BY <1>1, <1>6
  <2>2. f[i] <= f[j - 1]
    BY <1>2, <2>1, SumsGrow
  <2> DEFINE a == f[i - 1]
             b == f[i]
             c == f[j - 1]
             l == lens[i]
  <2>3. off[i] = start + a /\ b = a + l /\ a \in Nat /\ b \in Nat /\ l \in Nat
    BY <1>3
  <2>4. off[j] = start + c /\ c \in Nat /\ b <= c
    BY <1>3, <2>2
  <2> HIDE DEF a, b, c, l
  <2>5. off[i] + l <= off[j]
    BY <2>3, <2>4
  <2> QED
    BY <2>5 DEF l
<1> QED
  BY <1>4, <1>5, <1>6 DEF off

-----------------------------------------------------------------------------
(* Lists *)

\* A set of places has a first one.
LEMMA FirstPlace ==
  ASSUME NEW I \in SUBSET Nat, I # {}
  PROVE  Min(I) \in I /\ \A j \in I : Min(I) <= j
<1> DEFINE R == OpToRel(<, Nat)
<1>1. IsWellFoundedOn(R, Nat)
  BY NatLessThanWellFounded
<1>2. \A j, m \in Nat : <<j, m>> \in R <=> j < m
  BY DEF OpToRel
<1> HIDE DEF R
<1>3. PICK m \in I : \A j \in I : <<j, m>> \notin R
  BY <1>1, WFMin
<1>4. ASSUME NEW j \in I PROVE m <= j
  <2>1. m \in Nat /\ j \in Nat /\ ~(j < m)
    BY <1>2, <1>3
  <2> QED
    BY <2>1
<1> QED
  BY <1>3, <1>4 DEF Min

\* t is s with e put at place i.
Inserted(s, i, e, t) ==
    /\ Len(t) = Len(s) + 1 /\ t[i] = e
    /\ \A j \in 1..(i - 1) : t[j] = s[j]
    /\ \A j \in i..Len(s) : t[j + 1] = s[j]

LEMMA AppendPuts ==
  ASSUME NEW S, NEW s \in Seq(S), NEW e \in S
  PROVE  Append(s, e) \in Seq(S) /\ Inserted(s, Len(s) + 1, e, Append(s, e))
  BY DEF Inserted

LEMMA InsertAtPuts ==
  ASSUME NEW S, NEW s \in Seq(S), NEW e \in S, NEW i \in 1..(Len(s) + 1)
  PROVE  InsertAt(s, i, e) \in Seq(S) /\ Inserted(s, i, e, InsertAt(s, i, e))
<1> DEFINE a == SubSeq(s, 1, i - 1)
           b == SubSeq(s, i, Len(s))
           c == a \o <<e>>
           n == Len(s)
<1>1. n \in Nat /\ i \in Nat /\ \A j \in 1..n : s[j] \in S
  OBVIOUS
<1>2. a \in Seq(S) /\ Len(a) = i - 1 /\ \A j \in 1..(i - 1) : a[j] = s[j]
  BY <1>1
<1>3. b \in Seq(S) /\ Len(b) = n - i + 1 /\ \A j \in 1..(n - i + 1) : b[j] = s[i + j - 1]
  BY <1>1
<1>4. c \in Seq(S) /\ Len(c) = i /\ c[i] = e /\ \A j \in 1..(i - 1) : c[j] = s[j]
  <2> HIDE DEF a
  <2> QED
    BY <1>1, <1>2
<1>5. InsertAt(s, i, e) = c \o b
  BY DEF InsertAt
<1> HIDE DEF a, b, c
<1>6. /\ c \o b \in Seq(S) /\ Len(c \o b) = n + 1
      /\ \A j \in 1..(n + 1) : (c \o b)[j] = IF j <= i THEN c[j] ELSE b[j - i]
  <2>1. Len(c) + Len(b) = n + 1
    BY <1>1, <1>3, <1>4
  <2>2. c \in Seq(S) /\ b \in Seq(S) /\ Len(c) = i
    BY <1>3, <1>4
  <2>3. /\ c \o b \in Seq(S) /\ Len(c \o b) = Len(c) + Len(b)
        /\ \A j \in 1..Len(c) + Len(b) :
              (c \o b)[j] = IF j <= Len(c) THEN c[j] ELSE b[j - Len(c)]
    BY <2>2, ConcatProperties
  <2> QED
    BY <2>1, <2>2, <2>3
<1>7. ASSUME NEW j \in i..n PROVE (c \o b)[j + 1] = s[j]
  <2> DEFINE l == j + 1 - i
  <2>1. j + 1 \in 1..(n + 1) /\ ~(j + 1 <= i) /\ l \in 1..(n - i + 1) /\ i + l - 1 = j
    BY <1>1
  <2>2. (c \o b)[j + 1] = b[l]
    BY <1>6, <2>1
  <2> HIDE DEF l
  <2>3. b[l] = s[i + l - 1]
    BY <1>3, <2>1
  <2> QED
    BY <2>1, <2>2, <2>3
<1>8. ASSUME NEW j \in 1..(i - 1) PROVE (c \o b)[j] = s[j]
  <2>1. j \in 1..(n + 1) /\ j <= i
    BY <1>1
  <2> QED
    BY <1>4, <1>6, <2>1
<1>9. (c \o b)[i] = e
  BY <1>1, <1>4, <1>6
<1> QED
  BY <1>5, <1>6, <1>7, <1>8, <1>9 DEF Inserted

LEMMA RemoveAtTakes ==
  ASSUME NEW S, NEW s \in Seq(S), NEW i \in 1..Len(s)
  PROVE  RemoveAt(s, i) \in Seq(S) /\ Inserted(RemoveAt(s, i), i, s[i], s)
<1> DEFINE a == SubSeq(s, 1, i - 1)
           b == SubSeq(s, i + 1, Len(s))
           n == Len(s)
<1>1. n \in Nat /\ i \in Nat /\ \A j \in 1..n : s[j] \in S
  OBVIOUS
<1>2. a \in Seq(S) /\ Len(a) = i - 1 /\ \A j \in 1..(i - 1) : a[j] = s[j]
  BY <1>1
<1>3. b \in Seq(S) /\ Len(b) = n - i /\ \A j \in 1..(n - i) : b[j] = s[i + j]
  BY <1>1
<1>4. RemoveAt(s, i) = a \o b
  BY DEF RemoveAt
<1> HIDE DEF a, b
<1>5. /\ a \o b \in Seq(S) /\ Len(a \o b) = n - 1
      /\ \A j \in 1..(n - 1) : (a \o b)[j] = IF j <= i - 1 THEN a[j] ELSE b[j - (i - 1)]
  <2>1. Len(a) + Len(b) = n - 1
    BY <1>1, <1>2, <1>3
  <2>2. a \in Seq(S) /\ b \in Seq(S) /\ Len(a) = i - 1
    BY <1>2, <1>3
  <2>3. /\ a \o b \in Seq(S) /\ Len(a \o b) = Len(a) + Len(b)
        /\ \A j \in 1..Len(a) + Len(b) :
              (a \o b)[j] = IF j <= Len(a) THEN a[j] ELSE b[j - Len(a)]
    BY <2>2, ConcatProperties
  <2> QED
    BY <2>1, <2>2, <2>3
<1>6. ASSUME NEW j \in i..(n - 1) PROVE s[j + 1] = (a \o b)[j]
  <2>1. j \in 1..(n - 1) /\ ~(j <= i - 1) /\ j - (i - 1) \in 1..(n - i)
        /\ i + (j - (i - 1)) = j + 1
    BY <1>1
  <2> QED
    BY <1>3, <1>5, <2>1
<1>7. ASSUME NEW j \in 1..(i - 1) PROVE s[j] = (a \o b)[j]
  <2>1. j \in 1..(n - 1) /\ j <= i - 1
    BY <1>1
  <2> QED
    BY <1>2, <1>5, <2>1
<1> QED
  BY <1>1, <1>4, <1>5, <1>6, <1>7 DEF Inserted

\* What is put in adds its length, what is taken out takes its length away.
LEMMA SumPut ==
  ASSUME NEW s \in Seq(Int), NEW t \in Seq(Int), NEW k \in 1..(Len(s) + 1), NEW e,
         Inserted(s, k, e, t)
  PROVE  Sum(t) = Sum(s) + e
  BY SumInserted DEF Inserted

\* The list and the place Position finds are there.
LEMMA PositionIsThere ==
  ASSUME NEW lens \in Seq(Nat), NEW i \in Int, Position(lens, i)[1] # 0
  PROVE  /\ Position(lens, i)[1] \in 1..Len(lens)
         /\ Position(lens, i)[2] \in 1..lens[Position(lens, i)[1]]
<1> DEFINE before(w) == Sum(SubSeq(lens, 1, w - 1))
           at == {w \in DOMAIN lens : before(w) <= i /\ i < before(w) + lens[w]}
           g == Min(at)
<1>1. Len(lens) \in Nat /\ DOMAIN lens = 1..Len(lens) /\ lens \in Seq(Int)
  OBVIOUS
<1>2. Position(lens, i) = IF at = {} THEN <<0, 0>> ELSE <<g, i - before(g) + 1>>
  BY DEF Position
<1>3. at # {} /\ Position(lens, i)[1] = g /\ Position(lens, i)[2] = i - before(g) + 1
  <2> HIDE DEF at, g, before
  <2> QED
    BY <1>2
<1>4. g \in at
  <2>1. at \in SUBSET Nat
    BY <1>1
  <2> HIDE DEF at
  <2> QED
    BY <1>3, <2>1, FirstPlace
<1> HIDE DEF g
<1>5. g \in 1..Len(lens) /\ before(g) <= i /\ i < before(g) + lens[g]
  BY <1>1, <1>4
<1>6. before(g) \in Int
  <2>1. SubSeq(lens, 1, g - 1) \in Seq(Int)
    BY <1>1, <1>5
  <2>2. PICK f : SumsOf(f, SubSeq(lens, 1, g - 1))
    BY <2>1, SumsExist
  <2> QED
    BY <2>1, <2>2, SumIsLast
<1>7. lens[g] \in Nat
  BY <1>1, <1>5
<1> HIDE DEF before
<1>8. i - before(g) + 1 \in 1..lens[g]
  BY <1>5, <1>6, <1>7
<1> QED
  BY <1>3, <1>5, <1>8

-----------------------------------------------------------------------------
(* Sizes *)

\* A text takes room.
LEMMA SpaceType ==
  ASSUME NEW m \in Msgs
  PROVE  Space(m) \in Nat \ {0}
<1>1. MsgLen \in [Msgs -> 0..MAX_MSG_LEN] /\ MAX_MSG_LEN \in Nat
  BY MsgsAssumption, SizesAssumption
<1>2. MsgLen[m] \in 0..MAX_MSG_LEN
  BY <1>1
<1> QED
  BY <1>1, <1>2 DEF Space

\* Whole pages are no less than what they are for.
LEMMA AllocHolds ==
  ASSUME NEW x \in Nat \ {0}
  PROVE  alloc(x) \in Nat /\ x <= alloc(x)
<1> DEFINE q == (x - 1) \div PAGE_SIZE
           p == PAGE_SIZE
<1>1. p \in Nat \ {0}
  BY SizesAssumption
<1>2. x - 1 \in Nat
  OBVIOUS
<1>3. q \in Nat /\ x - 1 < (q + 1) * p
  BY <1>1, <1>2
<1>4. alloc(x) = (q + 1) * p
  BY DEF alloc
<1> HIDE DEF q, p
<1>5. (q + 1) * p \in Nat
  BY <1>1, <1>3
<1> QED
  BY <1>3, <1>4, <1>5

-----------------------------------------------------------------------------
(* Tables of offsets *)

\* What Table puts at an offset is what was given that offset.
LEMMA TableFinds ==
  ASSUME NEW S, NEW recs \in Seq(S), NEW off, DOMAIN off = DOMAIN recs,
         \A i, j \in DOMAIN recs : off[i] = off[j] => i = j,
         NEW at, at = [o \in Range(off) |-> recs[CHOOSE j \in DOMAIN recs : off[j] = o]]
  PROVE  \A k \in DOMAIN recs : at[off[k]] = recs[k]
<1> SUFFICES ASSUME NEW k \in DOMAIN recs PROVE at[off[k]] = recs[k]
  OBVIOUS
<1>1. off[k] \in Range(off)
  BY DEF Range
<1>2. (CHOOSE j \in DOMAIN recs : off[j] = off[k]) = k
  OBVIOUS
<1> QED
  BY <1>1, <1>2

\* Pieces that are not empty have different offsets.
LEMMA OffsetsDiffer ==
  ASSUME NEW lens \in Seq(Nat), NEW start \in Nat, \A j \in 1..Len(lens) : lens[j] > 0
  PROVE  /\ DOMAIN Offsets(start, lens) = 1..Len(lens)
         /\ \A i, j \in 1..Len(lens) :
               Offsets(start, lens)[i] = Offsets(start, lens)[j] => i = j
<1> DEFINE off == Offsets(start, lens)
           N == Len(lens)
<1>1. N \in Nat /\ \A j \in 1..N : lens[j] \in Nat
  OBVIOUS
<1>2. DOMAIN off = 1..N
  BY OffsetsApart
<1>3. \A j \in 1..N : off[j] \in Nat
  BY OffsetsApart
<1>4. \A i, j \in 1..N : i < j => off[i] + lens[i] <= off[j]
  BY OffsetsApart
<1> HIDE DEF off
<1>5. ASSUME NEW i \in 1..N, NEW j \in 1..N, i < j PROVE off[i] < off[j]
  BY <1>1, <1>3, <1>4, <1>5
<1>6. ASSUME NEW i \in 1..N, NEW j \in 1..N, off[i] = off[j] PROVE i = j
  <2>1. CASE i < j
    BY <1>3, <1>5, <1>6, <2>1
  <2>2. CASE j < i
    BY <1>3, <1>5, <1>6, <2>2
  <2> QED
    BY <1>1, <2>1, <2>2
<1> QED
  BY <1>2, <1>6 DEF off

\* The pieces <<offset, length>> of these offsets and lengths.
Pieces(off, lens) == {<<off[j], lens[j]>> : j \in 1..Len(lens)}

\* A table and pieces laid out after it overlap nowhere.
LEMMA PiecesPacked ==
  ASSUME NEW lens \in Seq(Nat), NEW start \in Nat, NEW table \in Nat, NEW off,
         off = Offsets(start + table, lens),
         NEW size \in Nat, start + table + Sum(lens) <= size
  PROVE  Packed({<<start, table>>} \cup Pieces(off, lens), start, size)
<1> DEFINE N == Len(lens)
           pieces == {<<off[j], lens[j]>> : j \in 1..N}
           first == <<start, table>>
           lo == start + table
<1>1. N \in Nat /\ lo \in Nat /\ \A j \in 1..N : lens[j] \in Nat
  OBVIOUS
<1>2. Sum(lens) \in Nat
  BY SumType
<1>3. \A j \in 1..N : off[j] \in Nat /\ lo <= off[j] /\ off[j] + lens[j] <= lo + Sum(lens)
  <2> HIDE DEF lo
  <2>1. off = Offsets(lo, lens)
    BY DEF lo
  <2> QED
    BY <1>1, <2>1, OffsetsApart
<1>4. \A i, j \in 1..N : i < j => off[i] + lens[i] <= off[j]
  <2> HIDE DEF lo
  <2>1. off = Offsets(lo, lens)
    BY DEF lo
  <2> QED
    BY <1>1, <2>1, OffsetsApart
<1>5. ASSUME NEW p \in {first} \cup pieces
      PROVE  start <= p[1] /\ p[1] + p[2] <= size
  <2>1. CASE p = first
    BY <1>2, <2>1
  <2>2. CASE p \in pieces
    <3>1. PICK j \in 1..N : p = <<off[j], lens[j]>>
      BY <2>2
    <3> QED
      BY <1>1, <1>2, <1>3, <3>1
  <2> QED
    BY <2>1, <2>2
<1>6. ASSUME NEW j \in 1..N PROVE first[1] + first[2] <= off[j]
  BY <1>3
<1>7. ASSUME NEW p \in {first} \cup pieces, NEW q \in {first} \cup pieces, p # q
      PROVE  p[1] + p[2] <= q[1] \/ q[1] + q[2] <= p[1]
  <2>1. CASE p = first
    <3>1. PICK j \in 1..N : q = <<off[j], lens[j]>>
      BY <1>7, <2>1
    <3> QED
      BY <1>6, <2>1, <3>1
  <2>2. CASE q = first
    <3>1. PICK j \in 1..N : p = <<off[j], lens[j]>>
      BY <1>7, <2>2
    <3> QED
      BY <1>6, <2>2, <3>1
  <2>3. CASE p # first /\ q # first
    <3>1. PICK i \in 1..N : p = <<off[i], lens[i]>>
      BY <2>3
    <3>2. PICK j \in 1..N : q = <<off[j], lens[j]>>
      BY <2>3
    <3>3. i < j \/ j < i
      BY <1>1, <1>7, <3>1, <3>2
    <3> QED
      BY <1>4, <3>1, <3>2, <3>3
  <2> QED
    BY <2>1, <2>2, <2>3
<1> HIDE DEF pieces, first
<1>8. Packed({first} \cup pieces, start, size)
  BY <1>5, <1>7 DEF Packed
<1> QED
  BY <1>8 DEF pieces, first, Pieces

-----------------------------------------------------------------------------
(* Lists of records: their lengths, the place of a record, their order *)

\* The values of a recursion that stays in D.
Recurs(f, D, N, d, g) ==
    /\ f = [n \in 0..N |-> IF n = 0 THEN d ELSE g[n][f[n - 1]]]
    /\ \A n \in 0..N : f[n] \in D

LEMMA Recursion ==
  ASSUME NEW D, NEW N \in Nat, NEW d \in D, NEW g \in [1..N -> [D -> D]]
  PROVE  \E f : Recurs(f, D, N, d, g)
<1>1. PICK f : Iterates(f, D, N, d, g)
  BY Iteration
<1>2. ASSUME NEW n \in 0..N PROVE f[n] = IF n = 0 THEN d ELSE g[n][f[n - 1]]
  <2>1. n = 0 \/ n \in 1..N
    OBVIOUS
  <2> QED
    BY <1>1, <2>1 DEF Iterates
<1>3. f \in [0..N -> D]
  BY <1>1 DEF Iterates
<1>4. f = [n \in 0..N |-> IF n = 0 THEN d ELSE g[n][f[n - 1]]]
  BY <1>2, <1>3
<1>5. \A n \in 0..N : f[n] \in D
  BY <1>3
<1> QED
  BY <1>4, <1>5 DEF Recurs

\* g is a length of each record of S; one that is never 0.
Measures(g, S) == g \in [S -> Nat]
Takes(g, S) == g \in [S -> Nat \ {0}]

\* The lengths of the records of a list, when g is the length of each.
Lens(g, s) == [j \in DOMAIN s |-> g[s[j]]]

LEMMA LensType ==
  ASSUME NEW S, NEW g, Measures(g, S), NEW s \in Seq(S)
  PROVE  /\ Lens(g, s) \in Seq(Nat) /\ Lens(g, s) \in Seq(Int) /\ Len(Lens(g, s)) = Len(s)
         /\ Len(s) \in Nat /\ DOMAIN s = 1..Len(s)
         /\ \A j \in 1..Len(s) : s[j] \in S /\ Lens(g, s)[j] = g[s[j]]
         /\ Sum(Lens(g, s)) \in Nat
<1>1. Len(s) \in Nat /\ DOMAIN s = 1..Len(s) /\ \A j \in 1..Len(s) : s[j] \in S
  OBVIOUS
<1>2. Lens(g, s) \in [1..Len(s) -> Nat]
  BY <1>1 DEF Lens, Measures
<1>3. Lens(g, s) \in Seq(Nat)
  BY <1>1, <1>2, SeqDef
<1>4. Len(Lens(g, s)) = Len(s)
  BY <1>1, <1>2, <1>3
<1>5. Lens(g, s) \in Seq(Int)
  BY <1>1, <1>2, SeqDef
<1>6. Sum(Lens(g, s)) \in Nat
  BY <1>3, SumType
<1> QED
  BY <1>1, <1>3, <1>4, <1>5, <1>6 DEF Lens

LEMMA LensPut ==
  ASSUME NEW S, NEW g, Measures(g, S), NEW s \in Seq(S), NEW t \in Seq(S),
         NEW i \in 1..(Len(s) + 1), NEW e \in S, Inserted(s, i, e, t)
  PROVE  Sum(Lens(g, t)) = Sum(Lens(g, s)) + g[e]
<1> DEFINE a == Lens(g, s)
           b == Lens(g, t)
<1> HIDE DEF a, b
<1>1. /\ a \in Seq(Int) /\ Len(a) = Len(s) /\ Len(s) \in Nat
      /\ \A j \in 1..Len(s) : a[j] = g[s[j]]
  <2>1. /\ Lens(g, s) \in Seq(Int) /\ Len(Lens(g, s)) = Len(s) /\ Len(s) \in Nat
        /\ \A j \in 1..Len(s) : Lens(g, s)[j] = g[s[j]]
    BY LensType
  <2> QED
    BY <2>1 DEF a
<1>2. b \in Seq(Int) /\ Len(b) = Len(t) /\ \A j \in 1..Len(t) : b[j] = g[t[j]]
  <2>1. /\ Lens(g, t) \in Seq(Int) /\ Len(Lens(g, t)) = Len(t)
        /\ \A j \in 1..Len(t) : Lens(g, t)[j] = g[t[j]]
    BY LensType
  <2> QED
    BY <2>1 DEF b
<1>3. Len(t) = Len(s) + 1 /\ i \in 1..Len(t) /\ t[i] = e
  BY <1>1 DEF Inserted
<1>4. ASSUME NEW j \in 1..(i - 1) PROVE b[j] = a[j]
  <2>1. j \in 1..Len(s) /\ j \in 1..Len(t)
    BY <1>1, <1>3
  <2>2. t[j] = s[j]
    BY DEF Inserted
  <2> QED
    BY <1>1, <1>2, <2>1, <2>2
<1>5. ASSUME NEW j \in i..Len(s) PROVE b[j + 1] = a[j]
  <2>1. j \in 1..Len(s) /\ j + 1 \in 1..Len(t) /\ t[j + 1] = s[j]
    BY <1>1, <1>3 DEF Inserted
  <2> QED
    BY <1>1, <1>2, <2>1
<1>6. Inserted(a, i, g[e], b)
  BY <1>1, <1>2, <1>3, <1>4, <1>5 DEF Inserted
<1>7. Sum(b) = Sum(a) + g[e]
  BY <1>1, <1>2, <1>6, SumPut
<1> QED
  BY <1>7 DEF a, b

LEMMA LensEmpty ==
  ASSUME NEW g
  PROVE  Sum(Lens(g, << >>)) = 0
<1>1. Lens(g, << >>) = << >>
  BY DEF Lens
<1> QED
  BY <1>1, SumEmpty

\* t is s with e put at place p, the first of the places I or the end.
StopsAt(s, p, e, t, I) ==
    /\ Inserted(s, p, e, t)
    /\ \A j \in 1..(p - 1) : j \notin I
    /\ p \in 1..Len(s) => p \in I

LEMMA PutAtStop ==
  ASSUME NEW S, NEW s \in Seq(S), NEW e \in S, NEW I \in SUBSET (1..Len(s)),
         NEW i, i = IF I # {} THEN Min(I) ELSE 0,
         NEW t, t = IF i = 0 THEN Append(s, e) ELSE InsertAt(s, i, e)
  PROVE  t \in Seq(S) /\ \E p \in 1..(Len(s) + 1) : StopsAt(s, p, e, t, I)
<1>1. Len(s) \in Nat /\ I \in SUBSET Nat
  OBVIOUS
<1>2. CASE I = {}
  <2>1. Append(s, e) \in Seq(S) /\ Inserted(s, Len(s) + 1, e, Append(s, e))
    BY AppendPuts
  <2>2. t = Append(s, e)
    BY <1>2
  <2>3. Len(s) + 1 \in 1..(Len(s) + 1) /\ Len(s) + 1 \notin 1..Len(s)
    BY <1>1
  <2> QED
    BY <1>2, <2>1, <2>2, <2>3 DEF StopsAt
<1>3. CASE I # {}
  <2>1. i \in I /\ \A j \in I : i <= j
    BY <1>1, <1>3, FirstPlace
  <2>2. i \in 1..Len(s) /\ i \in 1..(Len(s) + 1) /\ t = InsertAt(s, i, e)
    BY <1>1, <2>1
  <2>3. t \in Seq(S) /\ Inserted(s, i, e, t)
    BY <2>2, InsertAtPuts
  <2>4. \A j \in 1..(i - 1) : j \notin I
    BY <2>1, <2>2
  <2> QED
    BY <2>1, <2>2, <2>3, <2>4 DEF StopsAt
<1> QED
  BY <1>2, <1>3

\* Each record and the next are in the relation R.
OrderedBy(R, s) == \A j \in 1..(Len(s) - 1) : <<s[j], s[j + 1]>> \in R

\* A record put between two that it goes with.
LEMMA PutInOrder ==
  ASSUME NEW S, NEW R, NEW s \in Seq(S), NEW t \in Seq(S), NEW e \in S,
         NEW i \in 1..(Len(s) + 1), Inserted(s, i, e, t), OrderedBy(R, s),
         i > 1 => <<s[i - 1], e>> \in R, i <= Len(s) => <<e, s[i]>> \in R
  PROVE  OrderedBy(R, t)
<1> DEFINE n == Len(s)
<1>1. n \in Nat /\ Len(t) = n + 1 /\ t[i] = e /\ i \in 1..(n + 1)
  BY DEF Inserted
<1>2. \A j \in 1..(i - 1) : t[j] = s[j]
  BY DEF Inserted
<1>3. \A j \in i..n : t[j + 1] = s[j]
  BY DEF Inserted
<1>4. \A j \in 1..(n - 1) : <<s[j], s[j + 1]>> \in R
  BY DEF OrderedBy
<1> HIDE DEF n
<1>5. ASSUME NEW j \in 1..n PROVE <<t[j], t[j + 1]>> \in R
  <2>1. CASE j + 1 < i
    <3>1. t[j] = s[j] /\ t[j + 1] = s[j + 1] /\ j \in 1..(n - 1)
      BY <1>1, <1>2, <2>1
    <3> QED
      BY <1>4, <3>1
  <2>2. CASE j + 1 = i
    <3>1. t[j] = s[i - 1] /\ t[j + 1] = e /\ i > 1
      BY <1>1, <1>2, <2>2
    <3> QED
      BY <3>1
  <2>3. CASE j = i
    <3>1. t[j] = e /\ t[j + 1] = s[i]
      BY <1>1, <1>3, <2>3
    <3> QED
      BY <2>3, <3>1 DEF n
  <2>4. CASE j > i
    <3>1. j - 1 \in i..n /\ j \in i..n /\ (j - 1) + 1 = j /\ j - 1 \in 1..(n - 1)
      BY <1>1, <2>4
    <3>2. t[j] = s[j - 1] /\ t[j + 1] = s[j]
      BY <1>3, <3>1
    <3> QED
      BY <1>4, <3>1, <3>2
  <2> QED
    BY <1>1, <2>1, <2>2, <2>3, <2>4
<1> QED
  BY <1>1, <1>5 DEF OrderedBy

\* What is left when one is taken out of a list in order.
LEMMA TakenInOrder ==
  ASSUME NEW S, NEW R, NEW s \in Seq(S), NEW t \in Seq(S), NEW e \in S,
         NEW i \in 1..(Len(t) + 1), Inserted(t, i, e, s), OrderedBy(R, s),
         \A a, b, c \in S : <<a, b>> \in R /\ <<b, c>> \in R => <<a, c>> \in R
  PROVE  OrderedBy(R, t)
<1> DEFINE n == Len(t)
<1>1. n \in Nat /\ Len(s) = n + 1 /\ s[i] = e /\ i \in 1..(n + 1)
  BY DEF Inserted
<1>2. \A j \in 1..(i - 1) : s[j] = t[j]
  BY DEF Inserted
<1>3. \A j \in i..n : s[j + 1] = t[j]
  BY DEF Inserted
<1>4. \A j \in 1..n : <<s[j], s[j + 1]>> \in R
  BY <1>1 DEF OrderedBy
<1>5. \A j \in 1..n : t[j] \in S
  OBVIOUS
<1> HIDE DEF n
<1>6. ASSUME NEW j \in 1..(n - 1) PROVE <<t[j], t[j + 1]>> \in R
  <2>1. CASE j + 1 < i
    <3>1. t[j] = s[j] /\ t[j + 1] = s[j + 1] /\ j \in 1..n
      BY <1>1, <1>2, <2>1
    <3> QED
      BY <1>4, <3>1
  <2>2. CASE j + 1 = i
    <3>1. t[j] = s[j] /\ s[j + 1] = e /\ j \in 1..n /\ j + 1 \in 1..n /\ i \in i..n
      BY <1>1, <1>2, <2>2
    <3>2. t[j + 1] = s[j + 2]
      BY <1>1, <1>3, <2>2, <3>1
    <3>3. <<s[j], e>> \in R /\ <<e, s[j + 2]>> \in R
      <4>1. <<s[j], s[j + 1]>> \in R /\ <<s[j + 1], s[(j + 1) + 1]>> \in R
        BY <1>4, <3>1
      <4> QED
        BY <1>1, <3>1, <4>1
    <3> QED
      BY <1>5, <3>1, <3>2, <3>3
  <2>3. CASE j >= i
    <3>1. j \in i..n /\ j + 1 \in i..n /\ j + 1 \in 1..n
      BY <1>1, <2>3
    <3>2. t[j] = s[j + 1] /\ t[j + 1] = s[(j + 1) + 1]
      BY <1>3, <3>1
    <3> QED
      BY <1>4, <3>1, <3>2
  <2> QED
    BY <1>1, <2>1, <2>2, <2>3
<1> QED
  BY <1>6 DEF n, OrderedBy

-----------------------------------------------------------------------------
(* A database of offsets and records *)

\* Table, when g is the length of each record
Spread(hdr, start, recs, g) ==
    LET off == Offsets(start + 2 * hdr.num_recs, Lens(g, recs))
    IN [hdr |-> hdr, off |-> off,
        at |-> [o \in Range(off) |-> recs[CHOOSE j \in DOMAIN recs : off[j] = o]]]

LEMMA SpreadFinds ==
  ASSUME NEW S, NEW g, Takes(g, S), NEW recs \in Seq(S), NEW hdr,
         hdr.num_recs = Len(recs), NEW start \in Nat,
         NEW im, im = Spread(hdr, start, recs, g)
  PROVE  /\ im.hdr = hdr /\ im.off = Offsets(start + 2 * Len(recs), Lens(g, recs))
         /\ DOMAIN im.off = 1..Len(recs) /\ DOMAIN im.at = Range(im.off)
         /\ \A k \in 1..Len(recs) : im.at[im.off[k]] = recs[k]
<1> DEFINE lens == Lens(g, recs)
           lo == start + 2 * Len(recs)
           off == Offsets(lo, lens)
           at == [o \in Range(off) |-> recs[CHOOSE j \in DOMAIN recs : off[j] = o]]
<1>1. Measures(g, S) /\ \A r \in S : g[r] > 0
  BY DEF Takes, Measures
<1>2. /\ lens \in Seq(Nat) /\ Len(lens) = Len(recs) /\ Len(recs) \in Nat
      /\ DOMAIN recs = 1..Len(recs)
      /\ \A j \in 1..Len(recs) : recs[j] \in S /\ lens[j] = g[recs[j]]
  BY <1>1, LensType
<1>3. \A j \in 1..Len(lens) : lens[j] > 0
  BY <1>1, <1>2
<1>4. lo \in Nat
  BY <1>2
<1> HIDE DEF lens, lo
<1>5. DOMAIN off = DOMAIN recs /\ \A i, j \in DOMAIN recs : off[i] = off[j] => i = j
  BY <1>2, <1>3, <1>4, OffsetsDiffer
<1>6. im = [hdr |-> hdr, off |-> off, at |-> at]
  BY DEF Spread, lens, lo
<1> HIDE DEF off
<1>7. at = [o \in Range(off) |-> recs[CHOOSE j \in DOMAIN recs : off[j] = o]]
  OBVIOUS
<1> HIDE DEF at
<1>8. ASSUME NEW k \in DOMAIN recs PROVE at[off[k]] = recs[k]
  <2>1. off[k] \in Range(off)
    BY <1>5 DEF Range
  <2>2. (CHOOSE j \in DOMAIN recs : off[j] = off[k]) = k
    BY <1>5
  <2>3. at[off[k]] = recs[CHOOSE j \in DOMAIN recs : off[j] = off[k]]
    BY <1>7, <2>1
  <2> QED
    BY <2>2, <2>3
<1>9. DOMAIN at = Range(off)
  BY <1>7
<1>10. im.hdr = hdr /\ im.off = off /\ im.at = at
  BY <1>6
<1>11. off = Offsets(start + 2 * Len(recs), Lens(g, recs))
  BY DEF off, lens, lo
<1> QED
  BY <1>2, <1>5, <1>8, <1>9, <1>10, <1>11

\* What the image of a table holds.
Holds(im, hdr, recs) ==
    /\ im.hdr = hdr /\ DOMAIN im.off = 1..Len(recs) /\ DOMAIN im.at = Range(im.off)
    /\ \A k \in 1..Len(recs) : im.at[im.off[k]] = recs[k]

LEMMA SpreadHolds ==
  ASSUME NEW S, NEW g, Takes(g, S), NEW recs \in Seq(S), NEW hdr,
         hdr.num_recs = Len(recs), NEW start \in Nat
  PROVE  Holds(Spread(hdr, start, recs, g), hdr, recs)
<1> DEFINE im == Spread(hdr, start, recs, g)
<1>1. im.hdr = hdr /\ DOMAIN im.off = 1..Len(recs)
  BY SpreadFinds
<1>2. DOMAIN im.at = Range(im.off)
  BY SpreadFinds
<1>3. \A k \in 1..Len(recs) : im.at[im.off[k]] = recs[k]
  BY SpreadFinds
<1> HIDE DEF im
<1>4. Holds(im, hdr, recs)
  BY <1>1, <1>2, <1>3 DEF Holds
<1> QED
  BY <1>4 DEF im

\* What is read is what was laid out.
LEMMA SpreadReadBack ==
  ASSUME NEW S, NEW g, Takes(g, S), NEW recs \in Seq(S), NEW hdr,
         hdr.num_recs = Len(recs), NEW start \in Nat
  PROVE  Listed(Spread(hdr, start, recs, g)) = recs
<1> DEFINE im == Spread(hdr, start, recs, g)
<1>1. im.hdr = hdr /\ \A k \in 1..Len(recs) : im.at[im.off[k]] = recs[k]
  BY SpreadFinds
<1> HIDE DEF im
<1>2. Listed(im) = [j \in 1..Len(recs) |-> im.at[im.off[j]]]
  BY <1>1 DEF Listed
<1>3. recs = [j \in 1..Len(recs) |-> recs[j]]
  OBVIOUS
<1>4. Listed(im) = recs
  BY <1>1, <1>2, <1>3
<1> QED
  BY <1>4 DEF im

\* What lies where, with the length of each.
Contents(im, g) == {<<o, g[im.at[o]]>> : o \in DOMAIN im.at}

LEMMA SpreadContents ==
  ASSUME NEW S, NEW g, Takes(g, S), NEW recs \in Seq(S), NEW hdr,
         hdr.num_recs = Len(recs), NEW start \in Nat
  PROVE  Contents(Spread(hdr, start, recs, g), g)
           = Pieces(Offsets(start + 2 * Len(recs), Lens(g, recs)), Lens(g, recs))
<1> DEFINE lens == Lens(g, recs)
           im == Spread(hdr, start, recs, g)
           off == im.off
<1>1. DOMAIN im.off = 1..Len(recs) /\ DOMAIN im.at = Range(im.off)
  BY SpreadFinds
<1>2. im.off = Offsets(start + 2 * Len(recs), Lens(g, recs))
  BY SpreadFinds
<1>3. \A k \in 1..Len(recs) : im.at[im.off[k]] = recs[k]
  BY SpreadFinds
<1>4. Len(lens) = Len(recs) /\ \A j \in 1..Len(recs) : lens[j] = g[recs[j]]
  BY LensType DEF Takes, Measures
<1> HIDE DEF lens, im
<1>5. ASSUME NEW p \in Contents(im, g) PROVE p \in Pieces(off, lens)
  <2>1. PICK o \in DOMAIN im.at : p = <<o, g[im.at[o]]>>
    BY DEF Contents
  <2>2. PICK k \in 1..Len(recs) : o = off[k]
    BY <1>1, <2>1 DEF Range
  <2>3. p = <<off[k], lens[k]>>
    BY <1>3, <1>4, <2>1, <2>2
  <2> QED
    BY <1>4, <2>3 DEF Pieces
<1>6. ASSUME NEW p \in Pieces(off, lens) PROVE p \in Contents(im, g)
  <2>1. PICK k \in 1..Len(recs) : p = <<off[k], lens[k]>>
    BY <1>4 DEF Pieces
  <2>2. off[k] \in DOMAIN im.at /\ g[im.at[off[k]]] = lens[k]
    BY <1>1, <1>3, <1>4, <2>1 DEF Range
  <2> QED
    BY <2>1, <2>2 DEF Contents
<1>7. Contents(im, g) = Pieces(off, lens)
  BY <1>5, <1>6
<1> QED
  BY <1>2, <1>7 DEF im, lens

\* The table and the records overlap nowhere.
LEMMA SpreadPacked ==
  ASSUME NEW S, NEW g, Takes(g, S), NEW recs \in Seq(S), NEW hdr,
         hdr.num_recs = Len(recs), NEW start \in Nat,
         NEW size \in Nat, start + 2 * Len(recs) + Sum(Lens(g, recs)) <= size
  PROVE  Packed({<<start, 2 * Len(recs)>>} \cup Contents(Spread(hdr, start, recs, g), g),
                start, size)
<1> DEFINE lens == Lens(g, recs)
           table == 2 * Len(recs)
           off == Offsets(start + table, lens)
<1>1. lens \in Seq(Nat) /\ table \in Nat
  BY LensType DEF Takes, Measures
<1>2. Contents(Spread(hdr, start, recs, g), g) = Pieces(off, lens)
  BY SpreadContents
<1>3. off = Offsets(start + table, lens) /\ start + table + Sum(lens) <= size
  OBVIOUS
<1> HIDE DEF off, table, lens
<1>4. Packed({<<start, table>>} \cup Pieces(off, lens), start, size)
  BY <1>1, <1>3, PiecesPacked
<1> QED
  BY <1>2, <1>4 DEF table

=============================================================================
