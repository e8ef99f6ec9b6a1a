-------------------------- MODULE DatabasesProofs ---------------------------
(***************************************************************************)
(* Theorems about the databases (Databases), for any texts, lines, pages   *)
(* and numbers of records.  The first part is about the chronograph; what  *)
(* is said of contacts, occasions and timers rests on TableProofs, and     *)
(* what ScheduleProofs proves of ScheduleDb is taken over                  *)
(* for the schedules among the applications: the two instances of          *)
(* ScheduleDb, Schedule and Proved, define the same.                       *)
(***************************************************************************)
EXTENDS TableProofs

-----------------------------------------------------------------------------
(* The chronograph: workouts one after another *)

\* The sequences s put together, up to each of them.
Joins(f, S, s) ==
    /\ f \in [0..Len(s) -> Seq(S)] /\ f[0] = << >>
    /\ \A k \in 1..Len(s) : f[k] = f[k - 1] \o s[k]

LEMMA ChronoJoined ==
  ASSUME NEW S, NEW s \in Seq(Seq(S))
  PROVE  \E f : Joins(f, S, s) /\ Chrono!FlattenSeq(s) = f[Len(s)]
<1> DEFINE N == Len(s)
           g == [k \in 1..N |-> [x \in Seq(S) |-> x \o s[k]]]
           Body(h) == [i \in 1..N |-> IF i = 1 THEN s[i] ELSE h[i - 1] \o s[i]]
           flatten == CHOOSE h : h = Body(h)
<1>1. N \in Nat /\ \A k \in 1..N : s[k] \in Seq(S)
  OBVIOUS
<1>2. << >> \in Seq(S)
  OBVIOUS
<1>3. g \in [1..N -> [Seq(S) -> Seq(S)]]
  <2>1. \A k \in 1..N : \A x \in Seq(S) : x \o s[k] \in Seq(S)
    BY <1>1
  <2> QED
    BY <2>1
<1>4. \A k \in 1..N : \A x \in Seq(S) : g[k][x] = x \o s[k]
  OBVIOUS
<1> HIDE DEF g
<1>5. PICK f : Iterates(f, Seq(S), N, << >>, g)
  BY <1>1, <1>2, <1>3, Iteration
<1>6. f \in [0..N -> Seq(S)] /\ f[0] = << >>
  BY <1>5 DEF Iterates
<1>7. ASSUME NEW k \in 1..N PROVE f[k] = f[k - 1] \o s[k]
  <2>1. k - 1 \in 0..N
    BY <1>1
  <2>2. f[k - 1] \in Seq(S)
    BY <1>6, <2>1
  <2>3. f[k] = g[k][f[k - 1]]
    BY <1>5 DEF Iterates
  <2> QED
    BY <1>4, <2>2, <2>3
<1>8. Joins(f, S, s)
  BY <1>6, <1>7 DEF Joins
<1>11. ASSUME NEW k \in 1..N, k = 1 PROVE f[k] = s[k]
  <2>1. k - 1 = 0 /\ s[k] \in Seq(S)
    BY <1>1, <1>11
  <2>2. f[k] = << >> \o s[k]
    BY <1>6, <1>7, <2>1
  <2>3. ASSUME NEW q \in Seq(S) PROVE << >> \o q = q
    OBVIOUS
  <2> QED
    BY <2>1, <2>2, <2>3
<1>9. CASE N = 0
  <2>1. s = << >> /\ Chrono!FlattenSeq(s) = s
    BY <1>9 DEF Chrono!FlattenSeq
  <2> QED
    BY <1>6, <1>8, <1>9, <2>1
<1>10. CASE N # 0
  <2> DEFINE e == [i \in 1..N |-> f[i]]
  <2>1. e = Body(e)
    <3>1. ASSUME NEW i \in 1..N PROVE f[i] = IF i = 1 THEN s[i] ELSE e[i - 1] \o s[i]
      <4>1. CASE i = 1
        BY <1>11, <4>1
      <4>2. CASE i # 1
        <5>1. i - 1 \in 1..N
          BY <1>1, <4>2
        <5> QED
          BY <1>7, <4>2, <5>1
      <4> QED
        BY <4>1, <4>2
    <3> QED
      BY <3>1
  <2>2. flatten = Body(flatten)
    BY <2>1
  <2>3. \A i \in 1..N : flatten[i] = IF i = 1 THEN s[i] ELSE flatten[i - 1] \o s[i]
    <3> HIDE DEF flatten
    <3> QED
      BY <2>2
  <2>4. Chrono!FlattenSeq(s) = flatten[N]
    BY <1>10 DEF Chrono!FlattenSeq
  <2> HIDE DEF flatten
  <2> DEFINE T == {k \in 0..N : k = 0 \/ flatten[k] = f[k]}
  <2>5. 0 \in T
    BY <1>1
  <2>6. ASSUME NEW k \in 1..N, k - 1 \in T PROVE k \in T
    <3>1. CASE k = 1
      <4>1. f[k] = s[k] /\ flatten[k] = s[k]
        BY <1>11, <2>3, <3>1
      <4>2. k \in 0..N
        BY <1>1
      <4> QED
        BY <4>1, <4>2
    <3>2. CASE k # 1
      <4>1. flatten[k - 1] = f[k - 1]
        BY <1>1, <2>6, <3>2
      <4>2. flatten[k] = flatten[k - 1] \o s[k]
        BY <2>3, <3>2
      <4>3. f[k] = f[k - 1] \o s[k]
        BY <1>7
      <4>4. k \in 0..N
        BY <1>1
      <4>5. flatten[k] = f[k]
        BY <4>1, <4>2, <4>3
      <4> QED
        BY <4>4, <4>5
    <3> QED
      BY <3>1, <3>2
  <2> HIDE DEF T
  <2>7. N \in T
    <3>1. 0..N \subseteq T
      BY <1>1, <2>5, <2>6, InductiveUpTo
    <3> QED
      BY <1>1, <3>1
  <2>8. flatten[N] = f[N]
    BY <1>10, <2>7 DEF T
  <2> QED
    BY <1>8, <2>4, <2>8
<1> QED
  BY <1>9, <1>10

\* Where each begins and what it has there.
Begin(b, s, t) ==
    /\ b \in [0..Len(s) -> Nat] /\ b[0] = 0 /\ b[Len(s)] = Len(t)
    /\ \A k \in 1..Len(s) : /\ b[k] = b[k - 1] + Len(s[k])
                            /\ b[k] <= Len(t)
                            /\ \A j \in 1..Len(s[k]) : t[b[k - 1] + j] = s[k][j]

LEMMA JoinedParts ==
  ASSUME NEW S, NEW s \in Seq(Seq(S)), NEW f, Joins(f, S, s)
  PROVE  Begin([k \in 0..Len(s) |-> Len(f[k])], s, f[Len(s)])
<1> DEFINE N == Len(s)
           b == [k \in 0..N |-> Len(f[k])]
           t == f[N]
           Prefix(k) == /\ Len(f[k]) <= Len(t)
                        /\ \A j \in 1..Len(f[k]) : t[j] = f[k][j]
           T == {m \in 0..N : Prefix(N - m)}
<1>1. N \in Nat /\ \A k \in 1..N : s[k] \in Seq(S) /\ Len(s[k]) \in Nat
  OBVIOUS
<1>2. /\ f[0] = << >> /\ \A k \in 0..N : f[k] \in Seq(S) /\ Len(f[k]) \in Nat
      /\ \A k \in 1..N : f[k] = f[k - 1] \o s[k] /\ k - 1 \in 0..N /\ k \in 0..N
  BY <1>1 DEF Joins
<1>3. ASSUME NEW k \in 1..N
      PROVE  /\ Len(f[k]) = Len(f[k - 1]) + Len(s[k])
             /\ \A j \in 1..Len(f[k - 1]) : f[k][j] = f[k - 1][j]
             /\ \A j \in 1..Len(s[k]) : f[k][Len(f[k - 1]) + j] = s[k][j]
  <2> DEFINE p == f[k - 1]
             q == s[k]
  <2>1. p \in Seq(S) /\ q \in Seq(S) /\ f[k] = p \o q
    BY <1>1, <1>2
  <2> HIDE DEF p, q
  <2>2. Len(p \o q) = Len(p) + Len(q) /\ Len(p) \in Nat /\ Len(q) \in Nat
    BY <2>1
  <2>3. \A j \in 1..Len(p) : (p \o q)[j] = p[j]
    BY <2>1, <2>2
  <2>4. \A j \in 1..Len(q) : (p \o q)[Len(p) + j] = q[j]
    BY <2>1, <2>2
  <2> QED
    BY <2>1, <2>2, <2>3, <2>4 DEF p, q
<1>4. 0 \in T
  <2>1. N - 0 = N /\ 0 \in 0..N
    BY <1>1
  <2>2. Prefix(N)
    BY <1>1, <1>2
  <2> QED
    BY <2>1, <2>2
<1>5. ASSUME NEW m \in 1..N, m - 1 \in T PROVE m \in T
  <2> DEFINE k == N - (m - 1)
  <2>1. k \in 1..N /\ N - m = k - 1 /\ m \in 0..N
    BY <1>1
  <2>2. Prefix(k)
    BY <1>5
  <2> HIDE DEF k
  <2>3. /\ Len(f[k]) = Len(f[k - 1]) + Len(s[k])
        /\ \A j \in 1..Len(f[k - 1]) : f[k][j] = f[k - 1][j]
    BY <1>3, <2>1
  <2>4. Len(f[k]) \in Nat /\ Len(f[k - 1]) \in Nat /\ Len(s[k]) \in Nat /\ Len(t) \in Nat
    <3>1. N \in 0..N /\ k \in 0..N /\ k - 1 \in 0..N
      BY <1>1, <2>1
    <3>2. Len(f[k]) \in Nat /\ Len(f[k - 1]) \in Nat /\ Len(f[N]) \in Nat
      BY <1>2, <3>1
    <3>3. Len(s[k]) \in Nat
      BY <1>1, <2>1
    <3> QED
      BY <3>2, <3>3
  <2>5. Len(f[k - 1]) <= Len(f[k])
    <3>1. \A x, y, z \in Nat : x = y + z => y <= x
      OBVIOUS
    <3> QED
      BY <2>3, <2>4, <3>1
  <2>6. Prefix(k - 1)
    <3>1. \A j \in 1..Len(f[k - 1]) : j \in 1..Len(f[k])
      <4>1. \A x, y \in Nat : x <= y => 1..x \subseteq 1..y
        OBVIOUS
      <4> QED
        BY <2>4, <2>5, <4>1
    <3>2. \A x, y, z \in Nat : x <= y /\ y <= z => x <= z
      OBVIOUS
    <3>3. Len(f[k - 1]) <= Len(t)
      BY <2>2, <2>4, <2>5, <3>2
    <3> QED
      BY <2>2, <2>3, <3>1, <3>3
  <2> QED
    BY <2>1, <2>6
<1>6. \A k \in 0..N : Prefix(k)
  <2> HIDE DEF T
  <2>1. 0..N \subseteq T
    BY <1>1, <1>4, <1>5, InductiveUpTo
  <2>2. ASSUME NEW k \in 0..N PROVE Prefix(k)
    <3>1. N - k \in 0..N /\ N - (N - k) = k
      BY <1>1
    <3> QED
      BY <2>1, <3>1 DEF T
  <2> QED
    BY <2>2
<1> HIDE DEF T
<1>7. b \in [0..N -> Nat] /\ b[0] = 0 /\ b[N] = Len(t)
  BY <1>1, <1>2
<1>8. ASSUME NEW k \in 1..N
      PROVE  /\ b[k] = b[k - 1] + Len(s[k]) /\ b[k] <= Len(t)
             /\ \A j \in 1..Len(s[k]) : t[b[k - 1] + j] = s[k][j]
  <2>1. b[k] = Len(f[k]) /\ b[k - 1] = Len(f[k - 1])
    BY <1>2
  <2>2. Prefix(k)
    BY <1>2, <1>6
  <2>3. /\ Len(f[k]) = Len(f[k - 1]) + Len(s[k])
        /\ \A j \in 1..Len(s[k]) : f[k][Len(f[k - 1]) + j] = s[k][j]
    BY <1>3
  <2>4. Len(f[k - 1]) \in Nat /\ Len(s[k]) \in Nat
    BY <1>1, <1>2
  <2>5. ASSUME NEW j \in 1..Len(s[k]) PROVE t[b[k - 1] + j] = s[k][j]
    <3>1. Len(f[k - 1]) + j \in 1..Len(f[k])
      <4>1. \A x, y, z \in Nat : x = y + z => \A m \in 1..z : y + m \in 1..x
        OBVIOUS
      <4>2. Len(f[k]) \in Nat
        BY <1>2
      <4> QED
        BY <2>3, <2>4, <4>1, <4>2
    <3> QED
      BY <2>1, <2>2, <2>3, <3>1
  <2> HIDE DEF b
  <2> QED
    BY <2>1, <2>2, <2>3, <2>5
<1> HIDE DEF b, t
<1>9. Begin(b, s, t)
  BY <1>7, <1>8 DEF Begin
<1> QED
  BY <1>9 DEF b, t

\* What stands for a workout: the record that says how many laps follow.
Heading(r) == [date |-> r.date, best_lap_id |-> r.best_lap_id, num_laps |-> Len(r.laps)]
Laplike == [lap_id : Nat, time : Int, missed : Nat]
Slots == [date : Nat, best_lap_id : Nat, num_laps : Nat] \cup Laplike
ChronoSize == [r \in Chrono!Stored |-> Len(r.laps) + 1]

LEMMA WorkoutType ==
  ASSUME NEW r \in Chrono!Stored
  PROVE  /\ r = [date |-> r.date, best_lap_id |-> r.best_lap_id, laps |-> r.laps]
         /\ r.date \in Nat /\ r.best_lap_id \in Nat
         /\ r.laps \in Seq(Laplike) /\ Len(r.laps) \in Nat \ {0}
         /\ r.laps \in Seq(Slots) /\ Heading(r) \in Slots
         /\ Heading(r).date = r.date /\ Heading(r).best_lap_id = r.best_lap_id
         /\ Heading(r).num_laps = Len(r.laps)
<1>1. /\ r = [date |-> r.date, best_lap_id |-> r.best_lap_id, laps |-> r.laps]
      /\ r.date \in Nat /\ r.best_lap_id \in Nat
      /\ r.laps \in Seq(Laplike) /\ r.laps # << >>
  BY DEF Chrono!Stored, Laplike
<1> DEFINE s == r.laps
<1>2. Len(s) \in Nat \ {0}
  <2>1. s \in Seq(Laplike) /\ s # << >>
    BY <1>1
  <2> HIDE DEF s
  <2> QED
    BY <2>1
<1>3. s \in Seq(Slots)
  <2>1. s \in Seq(Laplike)
    BY <1>1
  <2> HIDE DEF s
  <2>2. \A q \in Seq(Laplike) : q \in Seq(Slots)
    BY SeqDef DEF Slots
  <2> QED
    BY <2>1, <2>2
<1>4. Heading(r) \in Slots
  BY <1>1, <1>2 DEF Heading, Slots
<1> QED
  BY <1>1, <1>2, <1>3, <1>4 DEF Heading

LEMMA ChronoTakes == Takes(ChronoSize, Chrono!Stored)
<1>1. ASSUME NEW r \in Chrono!Stored PROVE Len(r.laps) + 1 \in Nat \ {0}
  BY WorkoutType
<1> QED
  BY <1>1 DEF Takes, ChronoSize

\* Where the workouts recs begin in t: the heading of each, then its laps.
Places(b, recs, t) ==
    /\ b \in [0..Len(recs) -> Nat] /\ b[0] = 0 /\ b[Len(recs)] = Len(t)
    /\ t \in Seq(Slots)
    /\ \A w \in 1..Len(recs) :
          /\ b[w] = b[w - 1] + 1 + Len(recs[w].laps)
          /\ b[w] <= Len(t)
          /\ t[b[w - 1] + 1] = Heading(recs[w])
          /\ \A k \in 1..Len(recs[w].laps) : t[b[w - 1] + 1 + k] = recs[w].laps[k]

LEMMA FlatPlaces ==
  ASSUME NEW recs \in Seq(Chrono!Stored)
  PROVE  \E b : Places(b, recs, Chrono!Flat(recs))
<1> DEFINE n == Len(recs)
           s == [w \in DOMAIN recs |-> <<Heading(recs[w])>> \o recs[w].laps]
<1>1. n \in Nat /\ DOMAIN recs = 1..n /\ \A w \in 1..n : recs[w] \in Chrono!Stored
  OBVIOUS
<1>2. Chrono!Flat(recs) = Chrono!FlattenSeq(s)
  BY DEF Chrono!Flat, Heading
<1>3. ASSUME NEW h \in Slots, NEW q \in Seq(Slots)
      PROVE  /\ <<h>> \o q \in Seq(Slots) /\ Len(<<h>> \o q) = 1 + Len(q)
             /\ Len(q) \in Nat
             /\ (<<h>> \o q)[1] = h /\ \A k \in 1..Len(q) : (<<h>> \o q)[1 + k] = q[k]
  OBVIOUS
<1>4. ASSUME NEW w \in 1..n
      PROVE  /\ s[w] \in Seq(Slots) /\ Len(s[w]) = 1 + Len(recs[w].laps)
             /\ Len(recs[w].laps) \in Nat
             /\ s[w][1] = Heading(recs[w])
             /\ \A k \in 1..Len(recs[w].laps) : s[w][1 + k] = recs[w].laps[k]
  <2>1. Heading(recs[w]) \in Slots /\ recs[w].laps \in Seq(Slots)
    BY <1>1, WorkoutType
  <2>2. s[w] = <<Heading(recs[w])>> \o recs[w].laps
    BY <1>1
  <2> HIDE DEF s
  <2> QED
    BY <1>3, <2>1, <2>2
<1>5. DOMAIN s = 1..n
  BY <1>1
<1> HIDE DEF s
<1>6. s \in Seq(Seq(Slots)) /\ Len(s) = n
  <2>1. s \in [1..n -> Seq(Slots)]
    <3>1. s = [w \in 1..n |-> s[w]]
      BY <1>5 DEF s
    <3> QED
      BY <1>4, <3>1
  <2>2. s \in Seq(Seq(Slots))
    BY <1>1, <2>1, SeqDef
  <2> QED
    BY <1>1, <1>5, <2>2
<1>7. PICK f : Joins(f, Slots, s) /\ Chrono!FlattenSeq(s) = f[Len(s)]
  BY <1>6, ChronoJoined
<1> DEFINE b == [k \in 0..Len(s) |-> Len(f[k])]
           t == f[Len(s)]
<1>8. Begin(b, s, t)
  BY <1>6, <1>7, JoinedParts
<1>9. t \in Seq(Slots)
  BY <1>1, <1>6, <1>7 DEF Joins
<1> HIDE DEF b, t, n
<1>10. /\ b \in [0..n -> Nat] /\ b[0] = 0 /\ b[n] = Len(t)
       /\ \A k \in 1..n : /\ b[k] = b[k - 1] + Len(s[k]) /\ b[k] <= Len(t)
                          /\ \A j \in 1..Len(s[k]) : t[b[k - 1] + j] = s[k][j]
  BY <1>6, <1>8 DEF Begin
<1>11. ASSUME NEW w \in 1..n
       PROVE  /\ b[w] = b[w - 1] + 1 + Len(recs[w].laps) /\ b[w] <= Len(t)
              /\ t[b[w - 1] + 1] = Heading(recs[w])
              /\ \A k \in 1..Len(recs[w].laps) : t[b[w - 1] + 1 + k] = recs[w].laps[k]
  <2> DEFINE m == Len(recs[w].laps)
             p == b[w - 1]
  <2>1. m \in Nat /\ Len(s[w]) = 1 + m
    BY <1>4
  <2>2. p \in Nat
    <3>1. w - 1 \in 0..n
      BY <1>1
    <3> QED
      BY <1>10, <3>1
  <2>3. /\ b[w] = p + Len(s[w]) /\ b[w] <= Len(t)
        /\ \A j \in 1..Len(s[w]) : t[p + j] = s[w][j]
    BY <1>10
  <2> HIDE DEF m, p
  <2>4. 1 \in 1..Len(s[w]) /\ \A k \in 1..m : 1 + k \in 1..Len(s[w])
    BY <2>1
  <2>5. t[p + 1] = s[w][1]
    BY <2>3, <2>4
  <2>6. ASSUME NEW k \in 1..m PROVE t[p + 1 + k] = s[w][1 + k]
    <3>1. p + (1 + k) = p + 1 + k
      BY <2>1, <2>2
    <3> QED
      BY <2>3, <2>4, <3>1
  <2>7. b[w] = p + 1 + m
    BY <2>1, <2>2, <2>3
  <2> QED
    BY <1>4, <2>3, <2>5, <2>6, <2>7 DEF m, p
<1>12. Places(b, recs, t)
  BY <1>9, <1>10, <1>11 DEF Places, n
<1> QED
  BY <1>2, <1>7, <1>12 DEF t

\* The places are those of the sizes, and each workout has one of its own.
LEMMA PlacesGrow ==
  ASSUME NEW recs \in Seq(Chrono!Stored), NEW b, NEW t, Places(b, recs, t)
  PROVE  /\ Len(t) = Sum(Lens(ChronoSize, recs))
         /\ Len(recs) \in Nat /\ Len(t) \in Nat /\ Len(recs) <= Len(t)
         /\ \A w \in 0..Len(recs) : b[w] \in Nat /\ b[w] <= Len(t)
         /\ \A w \in 0..(Len(recs) - 1) : b[w] < Len(t)
<1> DEFINE n == Len(recs)
           lens == Lens(ChronoSize, recs)
<1>1. /\ lens \in Seq(Nat) /\ lens \in Seq(Int) /\ Len(lens) = n /\ n \in Nat
      /\ \A w \in 1..n : recs[w] \in Chrono!Stored /\ lens[w] = ChronoSize[recs[w]]
  <2>1. Measures(ChronoSize, Chrono!Stored)
    BY ChronoTakes DEF Measures, Takes
  <2> QED
    BY <2>1, LensType
<1>2. ASSUME NEW w \in 1..n
      PROVE  /\ lens[w] = Len(recs[w].laps) + 1 /\ Len(recs[w].laps) \in Nat \ {0}
             /\ lens[w] \in Nat \ {0}
  <2>1. recs[w] \in Chrono!Stored /\ lens[w] = ChronoSize[recs[w]]
    BY <1>1
  <2> DEFINE m == Len(recs[w].laps)
  <2>2. m \in Nat \ {0}
    BY <2>1, WorkoutType
  <2>3. lens[w] = m + 1
    BY <2>1 DEF ChronoSize
  <2> HIDE DEF m
  <2>4. lens[w] \in Nat \ {0}
    BY <2>2, <2>3
  <2> QED
    BY <2>2, <2>3, <2>4 DEF m
<1> HIDE DEF lens
<1>3. /\ b \in [0..n -> Nat] /\ b[0] = 0 /\ b[n] = Len(t) /\ t \in Seq(Slots)
      /\ \A w \in 1..n : b[w] = b[w - 1] + 1 + Len(recs[w].laps) /\ b[w] <= Len(t)
  BY DEF Places
<1>4. \A w \in 1..n : w - 1 \in 0..n /\ w \in 0..n /\ b[w - 1] \in Nat /\ b[w] \in Nat
  <2>1. \A w \in 1..n : w - 1 \in 0..n /\ w \in 0..n
    BY <1>1
  <2> QED
    BY <1>3, <2>1
<1>5. ASSUME NEW w \in 1..n PROVE b[w] = b[w - 1] + lens[w]
  <2> DEFINE m == Len(recs[w].laps)
             p == b[w - 1]
  <2>1. b[w] = p + 1 + m /\ lens[w] = m + 1
    BY <1>2, <1>3
  <2>2. p \in Nat /\ m \in Nat
    BY <1>2, <1>4
  <2> HIDE DEF m, p
  <2>3. b[w] = p + lens[w]
    BY <2>1, <2>2
  <2> QED
    BY <2>3 DEF p
<1>6. SumsOf(b, lens)
  <2>1. b \in [0..n -> Int]
    BY <1>3
  <2> QED
    BY <1>1, <1>3, <1>5, <2>1 DEF SumsOf
<1>7. Len(t) = Sum(lens)
  BY <1>1, <1>3, <1>6, SumIsLast
<1>8. \A i, j \in 0..n : i <= j => b[i] <= b[j]
  BY <1>1, <1>6, SumsGrow
<1>9. ASSUME NEW w \in 0..n PROVE b[w] \in Nat /\ b[w] <= Len(t)
  <2>1. w <= n /\ n \in 0..n
    BY <1>1
  <2> QED
    BY <1>3, <1>8, <2>1
<1>10. ASSUME NEW w \in 0..(n - 1) PROVE b[w] < Len(t)
  <2>1. w \in 0..n /\ w + 1 \in 1..n /\ (w + 1) - 1 = w
    BY <1>1
  <2>2. b[w + 1] = b[w] + lens[w + 1] /\ b[w + 1] <= Len(t)
    BY <1>3, <1>5, <2>1
  <2>3. lens[w + 1] \in Nat \ {0} /\ b[w] \in Nat /\ Len(t) \in Nat
    <3>1. lens[w + 1] \in Nat \ {0}
      BY <1>2, <2>1
    <3>2. b[w] \in Nat
      BY <1>3, <2>1
    <3> QED
      BY <1>3, <3>1, <3>2
  <2> QED
    BY <2>2, <2>3
<1>11. n <= b[n]
  <2> DEFINE T == {w \in 0..n : w <= b[w]}
  <2>1. 0 \in T
    BY <1>1, <1>3
  <2>2. ASSUME NEW w \in 1..n, w - 1 \in T PROVE w \in T
    <3>1. w - 1 <= b[w - 1] /\ b[w] = b[w - 1] + lens[w] /\ lens[w] \in Nat \ {0}
      BY <1>2, <1>5, <2>2
    <3> QED
      BY <1>4, <3>1
  <2> HIDE DEF T
  <2>3. 0..n \subseteq T
    BY <1>1, <2>1, <2>2, InductiveUpTo
  <2>4. n \in T
    BY <1>1, <2>3
  <2> QED
    BY <2>4 DEF T
<1> QED
  BY <1>1, <1>3, <1>7, <1>9, <1>10, <1>11 DEF lens

\* What the watch holds of the workouts recs: their records, and others behind.
Keeps(im, recs) ==
    /\ im.slots \in Seq(Slots) /\ im.hdr.used_recs = Len(Chrono!Flat(recs))
    /\ Len(Chrono!Flat(recs)) <= Len(im.slots)
    /\ \A j \in 1..Len(Chrono!Flat(recs)) : im.slots[j] = Chrono!Flat(recs)[j]

\* Where the workouts begin in such an image.
Found(im, recs, b) ==
    /\ b \in [0..Len(recs) -> Nat] /\ b[0] = 0 /\ b[Len(recs)] = im.hdr.used_recs
    /\ Len(recs) <= im.hdr.used_recs
    /\ \A w \in 1..Len(recs) :
          /\ b[w - 1] \in Nat /\ b[w - 1] < im.hdr.used_recs
          /\ b[w] = b[w - 1] + 1 + Len(recs[w].laps)
          /\ im.slots[b[w - 1] + 1] = Heading(recs[w])
          /\ \A k \in 1..Len(recs[w].laps) : im.slots[b[w - 1] + 1 + k] = recs[w].laps[k]
          /\ SubSeq(im.slots, b[w - 1] + 2, b[w]) = recs[w].laps

LEMMA KeptAreFound ==
  ASSUME NEW recs \in Seq(Chrono!Stored), NEW im, Keeps(im, recs)
  PROVE  \E b : Found(im, recs, b)
<1> DEFINE t == Chrono!Flat(recs)
           n == Len(recs)
           sl == im.slots
           N == im.hdr.used_recs
<1>1. PICK b : Places(b, recs, t)
  BY FlatPlaces
<1>2. /\ n \in Nat /\ Len(t) \in Nat /\ n <= Len(t)
      /\ \A w \in 0..n : b[w] \in Nat /\ b[w] <= Len(t)
      /\ \A w \in 0..(n - 1) : b[w] < Len(t)
  BY <1>1, PlacesGrow
<1>3. /\ b \in [0..n -> Nat] /\ b[0] = 0 /\ b[n] = Len(t)
      /\ \A w \in 1..n :
          /\ b[w] = b[w - 1] + 1 + Len(recs[w].laps) /\ b[w] <= Len(t)
          /\ t[b[w - 1] + 1] = Heading(recs[w])
          /\ \A k \in 1..Len(recs[w].laps) : t[b[w - 1] + 1 + k] = recs[w].laps[k]
  BY <1>1 DEF Places
<1>4. /\ sl \in Seq(Slots) /\ N = Len(t) /\ Len(t) <= Len(sl)
      /\ \A j \in 1..Len(t) : sl[j] = t[j]
  BY DEF Keeps
<1>5. \A w \in 1..n : recs[w] \in Chrono!Stored
  OBVIOUS
<1> HIDE DEF t, sl, N
<1>6. ASSUME NEW w \in 1..n
      PROVE  /\ b[w - 1] \in Nat /\ b[w - 1] < N
             /\ b[w] = b[w - 1] + 1 + Len(recs[w].laps)
             /\ sl[b[w - 1] + 1] = Heading(recs[w])
             /\ \A k \in 1..Len(recs[w].laps) : sl[b[w - 1] + 1 + k] = recs[w].laps[k]
             /\ SubSeq(sl, b[w - 1] + 2, b[w]) = recs[w].laps
  <2> DEFINE laps == recs[w].laps
             m == Len(laps)
             p == b[w - 1]
             e == b[w]
  <2>1. laps \in Seq(Slots) /\ m \in Nat \ {0}
    BY <1>5, WorkoutType
  <2>2. p \in Nat /\ p < Len(t) /\ e = p + 1 + m /\ e <= Len(t)
    <3>1. w - 1 \in 0..(n - 1) /\ w - 1 \in 0..n
      BY <1>2
    <3> QED
      BY <1>2, <1>3, <3>1
  <2>3. t[p + 1] = Heading(recs[w]) /\ \A k \in 1..m : t[p + 1 + k] = laps[k]
    BY <1>3
  <2> HIDE DEF laps, m, p, e
  <2>4. p + 1 \in 1..Len(t) /\ \A k \in 1..m : p + 1 + k \in 1..Len(t)
    BY <1>2, <2>1, <2>2
  <2>5. sl[p + 1] = Heading(recs[w]) /\ \A k \in 1..m : sl[p + 1 + k] = laps[k]
    BY <1>4, <2>3, <2>4
  <2>6. SubSeq(sl, p + 2, e) = laps
    <3>1. Len(sl) \in Nat /\ e <= Len(sl) /\ e \in Nat
      BY <1>2, <1>4, <2>1, <2>2
    <3>2. SubSeq(sl, p + 2, e) = [k \in 1..(e - (p + 2) + 1) |-> sl[(p + 2) + k - 1]]
      BY <1>4, <2>2, <3>1
    <3>3. e - (p + 2) + 1 = m
      BY <2>1, <2>2
    <3>4. \A k \in 1..m : (p + 2) + k - 1 = p + 1 + k
      BY <2>1, <2>2
    <3>5. SubSeq(sl, p + 2, e) = [k \in 1..m |-> laps[k]]
      BY <2>5, <3>2, <3>3, <3>4
    <3>6. laps = [k \in 1..m |-> laps[k]]
      BY <2>1 DEF m
    <3> QED
      BY <3>5, <3>6
  <2> QED
    BY <1>4, <2>2, <2>5, <2>6 DEF laps, m, p, e
<1>7. Found(im, recs, b)
  BY <1>2, <1>3, <1>4, <1>6 DEF Found, sl, N
<1> QED
  BY <1>7

\* What the turns of the loop of read_chrono have read.
LEMMA WorkoutRead ==
  ASSUME NEW recs \in Seq(Chrono!Stored), NEW im, NEW b, Found(im, recs, b),
         im.hdr.used_recs \in Nat
  PROVE  \A w \in 1..Len(recs) : \A r :
           Chrono!read_workout(im, [i |-> b[w - 1], recs |-> r])
             = [i |-> b[w], recs |-> Append(r, recs[w])]
<1> SUFFICES ASSUME NEW w \in 1..Len(recs), NEW r
             PROVE  Chrono!read_workout(im, [i |-> b[w - 1], recs |-> r])
                      = [i |-> b[w], recs |-> Append(r, recs[w])]
  OBVIOUS
<1> DEFINE x == [i |-> b[w - 1], recs |-> r]
           h == im.slots[x.i + 1]
           next == x.i + 1 + h.num_laps
<1>1. recs[w] \in Chrono!Stored
  OBVIOUS
<1>2. /\ b[w - 1] \in Nat /\ b[w - 1] < im.hdr.used_recs
      /\ b[w] = b[w - 1] + 1 + Len(recs[w].laps)
      /\ im.slots[b[w - 1] + 1] = Heading(recs[w])
      /\ SubSeq(im.slots, b[w - 1] + 2, b[w]) = recs[w].laps
  BY DEF Found
<1>3. x.i = b[w - 1] /\ x.recs = r /\ ~(x.i >= im.hdr.used_recs)
  BY <1>2
<1>4. h = Heading(recs[w])
  BY <1>2, <1>3
<1>5. /\ h.date = recs[w].date /\ h.best_lap_id = recs[w].best_lap_id
      /\ h.num_laps = Len(recs[w].laps)
  BY <1>1, <1>4, WorkoutType
<1>6. next = b[w]
  BY <1>2, <1>3, <1>5
<1>7. Chrono!read_workout(im, x)
        = [i |-> next,
           recs |-> Append(x.recs, [date |-> h.date, best_lap_id |-> h.best_lap_id,
                                    laps |-> SubSeq(im.slots, x.i + 2, next)])]
  BY <1>3 DEF Chrono!read_workout
<1> HIDE DEF h, next
<1>8. [date |-> h.date, best_lap_id |-> h.best_lap_id, laps |-> SubSeq(im.slots, x.i + 2, next)]
        = recs[w]
  <2>1. recs[w] = [date |-> recs[w].date, best_lap_id |-> recs[w].best_lap_id,
                   laps |-> recs[w].laps]
    BY <1>1, WorkoutType
  <2> QED
    BY <1>2, <1>3, <1>5, <1>6, <2>1
<1> QED
  BY <1>3, <1>6, <1>7, <1>8

LEMMA SubSeqGrows ==
  ASSUME NEW S, NEW s \in Seq(S)
  PROVE  /\ SubSeq(s, 1, 0) = << >> /\ SubSeq(s, 1, Len(s)) = s
         /\ \A k \in 1..Len(s) : Append(SubSeq(s, 1, k - 1), s[k]) = SubSeq(s, 1, k)
<1>1. SubSeq(s, 1, 0) = << >> /\ SubSeq(s, 1, Len(s)) = s
  OBVIOUS
<1>2. ASSUME NEW k \in 1..Len(s) PROVE Append(SubSeq(s, 1, k - 1), s[k]) = SubSeq(s, 1, k)
  <2> DEFINE p == SubSeq(s, 1, k - 1)
             q == SubSeq(s, 1, k)
             a == Append(p, s[k])
  <2>1. k \in Nat \ {0} /\ Len(s) \in Nat /\ k <= Len(s) /\ s[k] \in S
    OBVIOUS
  <2>2. p \in Seq(S) /\ Len(p) = k - 1 /\ \A j \in 1..(k - 1) : p[j] = s[j]
    BY <2>1
  <2>3. q \in Seq(S) /\ Len(q) = k /\ \A j \in 1..k : q[j] = s[j]
    BY <2>1
  <2> HIDE DEF p, q
  <2>4. a \in Seq(S) /\ Len(a) = k /\ \A j \in 1..k : a[j] = s[j]
    <3>1. a \in Seq(S) /\ Len(a) = (k - 1) + 1 /\ a[(k - 1) + 1] = s[k]
          /\ \A j \in 1..(k - 1) : a[j] = p[j]
      BY <2>1, <2>2
    <3> QED
      BY <2>1, <2>2, <3>1
  <2> HIDE DEF a
  <2>5. a = q
    BY <2>3, <2>4
  <2> QED
    BY <2>5 DEF a, p, q
<1> QED
  BY <1>1, <1>2

LEMMA ChronoReadsWhatIsKept ==
  ASSUME NEW recs \in Seq(Chrono!Stored), NEW im, Keeps(im, recs)
  PROVE  Chrono!read_chrono_mem(im) = [hdr |-> im.hdr, recs |-> recs]
<1> DEFINE n == Len(recs)
           N == im.hdr.used_recs
           m(k) == IF k <= n THEN k ELSE n
           d == [i |-> 0, recs |-> << >>]
           Body(h) == [k \in 0..N |-> IF k = 0 THEN d ELSE Chrono!read_workout(im, h[k - 1])]
           after == CHOOSE h : h = Body(h)
<1>1. PICK b : Found(im, recs, b)
  BY KeptAreFound
<1> DEFINE f == [k \in 0..N |-> [i |-> b[m(k)], recs |-> SubSeq(recs, 1, m(k))]]
<1>2. n \in Nat /\ N \in Nat /\ n <= N /\ b[0] = 0 /\ b[n] = N
  <2>1. n \in Nat /\ b \in [0..n -> Nat] /\ b[0] = 0 /\ b[n] = N /\ n <= N
    BY <1>1 DEF Found
  <2> QED
    BY <2>1
<1>3. /\ SubSeq(recs, 1, 0) = << >> /\ SubSeq(recs, 1, n) = recs
      /\ \A k \in 1..n : Append(SubSeq(recs, 1, k - 1), recs[k]) = SubSeq(recs, 1, k)
  BY SubSeqGrows
<1>4. \A w \in 1..Len(recs) : \A r :
          Chrono!read_workout(im, [i |-> b[w - 1], recs |-> r])
            = [i |-> b[w], recs |-> Append(r, recs[w])]
  <2>1. im.hdr.used_recs \in Nat
    BY <1>2
  <2> HIDE DEF N
  <2> QED
    BY <1>1, <2>1, WorkoutRead
<1>5. \A j \in 0..N : f[j] = [i |-> b[m(j)], recs |-> SubSeq(recs, 1, m(j))]
  <2> HIDE DEF m, N
  <2> QED
    OBVIOUS
<1>6. f = [k \in 0..N |-> f[k]]
  OBVIOUS
<1> HIDE DEF f
<1>7. ASSUME NEW k \in 0..N PROVE f[k] = IF k = 0 THEN d ELSE Chrono!read_workout(im, f[k - 1])
  <2>1. CASE k = 0
    <3>1. m(k) = 0
      BY <1>2, <2>1
    <3>2. f[k] = [i |-> b[m(k)], recs |-> SubSeq(recs, 1, m(k))]
      BY <1>5
    <3> HIDE DEF m
    <3>3. f[k] = [i |-> b[0], recs |-> SubSeq(recs, 1, 0)]
      BY <3>1, <3>2
    <3> QED
      BY <1>2, <1>3, <2>1, <3>3
  <2>2. CASE k # 0 /\ k <= n
    <3>1. k \in 1..n /\ k - 1 \in 0..N /\ m(k) = k /\ m(k - 1) = k - 1
      BY <1>2, <2>2
    <3> HIDE DEF m
    <3>2. f[k - 1] = [i |-> b[k - 1], recs |-> SubSeq(recs, 1, k - 1)]
      BY <1>5, <3>1
    <3>3. f[k] = [i |-> b[k], recs |-> SubSeq(recs, 1, k)]
      BY <1>5, <3>1
    <3> HIDE DEF n
    <3> DEFINE r == SubSeq(recs, 1, k - 1)
    <3>5. k \in 1..Len(recs)
      BY <1>2, <3>1 DEF n
    <3> HIDE DEF r
    <3>4. Chrono!read_workout(im, [i |-> b[k - 1], recs |-> r])
            = [i |-> b[k], recs |-> Append(r, recs[k])]
      BY <1>4, <3>5
    <3> USE DEF r
    <3> QED
      BY <1>3, <2>2, <3>1, <3>2, <3>3, <3>4
  <2>3. CASE k # 0 /\ ~(k <= n)
    <3>1. k - 1 \in 0..N /\ m(k) = n /\ m(k - 1) = n
      BY <1>2, <2>3
    <3> HIDE DEF m
    <3>2. f[k - 1] = [i |-> N, recs |-> recs] /\ f[k] = [i |-> N, recs |-> recs]
      BY <1>2, <1>3, <1>5, <3>1
    <3>3. [i |-> N, recs |-> recs].i >= N
      BY <1>2
    <3>4. Chrono!read_workout(im, [i |-> N, recs |-> recs]) = [i |-> N, recs |-> recs]
      BY <3>3 DEF Chrono!read_workout
    <3> QED
      BY <2>3, <3>2, <3>4
  <2> QED
    BY <2>1, <2>2, <2>3
<1>8. m(N) = n /\ N \in 0..N
  BY <1>2
<1>9. f[N] = [i |-> N, recs |-> recs]
  <2> HIDE DEF m
  <2> QED
    BY <1>2, <1>3, <1>8, <1>5
<1> HIDE DEF m
<1>10. f = Body(f)
  BY <1>7, <1>6
<1>11. after = Body(after)
  BY <1>10
<1>12. \A k \in 0..N : after[k] = IF k = 0 THEN d ELSE Chrono!read_workout(im, after[k - 1])
  <2> HIDE DEF after, d
  <2> QED
    BY <1>11
<1>13. Chrono!read_chrono_mem(im) = [hdr |-> im.hdr, recs |-> after[N].recs]
  BY DEF Chrono!read_chrono_mem
<1> HIDE DEF after, d
<1> DEFINE T == {k \in 0..N : after[k] = f[k]}
<1>14. 0 \in T
  BY <1>2, <1>7, <1>12
<1>15. ASSUME NEW k \in 1..N, k - 1 \in T PROVE k \in T
  <2>1. k \in 0..N /\ k # 0
    BY <1>2
  <2>2. after[k - 1] = f[k - 1]
    BY <1>15
  <2> QED
    BY <1>7, <1>12, <2>1, <2>2
<1> HIDE DEF T
<1>16. 0..N \subseteq T
  BY <1>2, <1>14, <1>15, InductiveUpTo
<1>17. after[N] = f[N]
  BY <1>8, <1>16 DEF T
<1> QED
  BY <1>9, <1>13, <1>17

LEMMA ChronoSame ==
  /\ \A x : Chrono!alloc(x) = alloc(x)
  /\ \A s : Chrono!Sum(s) = Sum(s)
  /\ \A S : Chrono!Min(S) = Min(S)
  /\ \A s, i : Chrono!RemoveAt(s, i) = RemoveAt(s, i)
  /\ \A lens, i : Chrono!Position(lens, i) = Position(lens, i)
<1>1. \A x : Chrono!alloc(x) = alloc(x)
  BY DEF Chrono!alloc, alloc
<1>2. \A s : Chrono!Sum(s) = Sum(s)
  BY DEF Chrono!Sum, Sum
<1>3. \A S : Chrono!Min(S) = Min(S)
  BY DEF Chrono!Min, Min
<1>4. \A s, i : Chrono!RemoveAt(s, i) = RemoveAt(s, i)
  BY DEF Chrono!RemoveAt, RemoveAt
<1>5. \A lens, i : Chrono!Position(lens, i) = Position(lens, i)
  BY <1>2, <1>3 DEF Chrono!Position, Position
<1> QED
  BY <1>1, <1>2, <1>3, <1>4, <1>5

\* Of some numbers one is the least.
LEMMA LeastOf ==
  ASSUME NEW n \in Nat \ {0}, NEW v \in [1..n -> Int]
  PROVE  \E k \in 1..n : \A i \in 1..n : v[k] <= v[i]
<1> DEFINE T == {m \in 0..n : m = 0 \/ \E k \in 1..m : \A i \in 1..m : v[k] <= v[i]}
<1>1. 0 \in T
  OBVIOUS
<1>2. ASSUME NEW m \in 1..n, m - 1 \in T PROVE m \in T
  <2>1. CASE m = 1
    BY <2>1
  <2>2. CASE m # 1
    <3>1. PICK k \in 1..(m - 1) : \A i \in 1..(m - 1) : v[k] <= v[i]
      BY <1>2, <2>2
    <3>2. v[k] \in Int /\ v[m] \in Int /\ \A i \in 1..m : i \in 1..(m - 1) \/ i = m
      OBVIOUS
    <3>3. CASE v[k] <= v[m]
      <4>1. k \in 1..m /\ \A i \in 1..m : v[k] <= v[i]
        BY <3>1, <3>2, <3>3
      <4> QED
        BY <4>1
    <3>4. CASE ~(v[k] <= v[m])
      <4>1. \A i \in 1..(m - 1) : v[i] \in Int
        OBVIOUS
      <4>2. m \in 1..m /\ \A i \in 1..m : v[m] <= v[i]
        BY <3>1, <3>2, <3>4, <4>1
      <4> QED
        BY <4>2
    <3> QED
      BY <3>3, <3>4
  <2> QED
    BY <2>1, <2>2
<1> HIDE DEF T
<1>3. n \in T
  <2>1. 0..n \subseteq T
    BY <1>1, <1>2, InductiveUpTo
  <2> QED
    BY <2>1
<1> QED
  BY <1>3 DEF T

LEMMA BestLapIsThere ==
  ASSUME NEW laps \in Seq(Laplike), laps # << >>
  PROVE  Chrono!BestLap(laps) \in 1..Len(laps)
<1> DEFINE n == Len(laps)
           lap(k) == laps[k].time - IF k = 1 THEN 0 ELSE laps[k - 1].time
           v == [k \in 1..n |-> lap(k)]
           I == {k \in DOMAIN laps : \A i \in DOMAIN laps : lap(k) <= lap(i)}
<1>1. n \in Nat \ {0} /\ DOMAIN laps = 1..n /\ \A k \in 1..n : laps[k] \in Laplike
  OBVIOUS
<1>2. Chrono!BestLap(laps) = Min(I)
  BY ChronoSame DEF Chrono!BestLap
<1>3. v \in [1..n -> Int]
  <2>1. ASSUME NEW k \in 1..n PROVE lap(k) \in Int
    <3>1. laps[k].time \in Int
      BY <1>1 DEF Laplike
    <3>2. CASE k = 1
      BY <3>1, <3>2
    <3>3. CASE k # 1
      <4>1. k - 1 \in 1..n
        BY <1>1, <3>3
      <4>2. laps[k - 1].time \in Int
        BY <1>1, <4>1 DEF Laplike
      <4> QED
        BY <3>1, <3>3, <4>2
    <3> QED
      BY <3>2, <3>3
  <2> HIDE DEF lap
  <2> QED
    BY <2>1
<1>4. \A k \in 1..n : v[k] = lap(k)
  OBVIOUS
<1> HIDE DEF v, lap, n
<1>5. PICK k \in 1..n : \A i \in 1..n : v[k] <= v[i]
  BY <1>1, <1>3, LeastOf
<1>6. k \in I
  BY <1>1, <1>4, <1>5
<1>7. I \in SUBSET Nat
  BY <1>1
<1>8. Min(I) \in I
  <2> HIDE DEF I
  <2> QED
    BY <1>6, <1>7, FirstPlace
<1>9. Min(I) \in 1..n
  BY <1>1, <1>8
<1> QED
  BY <1>2, <1>9 DEF n

\* The workouts of a sound database: their laps are numbered, and the best is the best.
Numbered(laps) ==
    \A k \in DOMAIN laps : laps[k].lap_id = Chrono!U8(k + laps[k].missed)
Best(laps) == Chrono!U8(Chrono!BestLap(laps))
Workouts == {r \in Chrono!Stored : Numbered(r.laps) /\ r.best_lap_id = Best(r.laps)}

LEMMA ChronoSoundType ==
  ASSUME NEW d
  PROVE  Chrono!Sound(d) <=>
           /\ d = [recs |-> d.recs, hdr |-> d.hdr] /\ d.hdr \in Chrono!Hdrs
           /\ d.recs \in Seq(Workouts)
           /\ d.hdr.used_recs = Chrono!U8(Len(Chrono!Flat(d.recs)))
<1>1. ASSUME NEW s \in Seq(Chrono!Stored), \A w \in DOMAIN s : s[w] \in Workouts
      PROVE  s \in Seq(Workouts)
  <2>1. DOMAIN s = 1..Len(s) /\ Len(s) \in Nat /\ s = [w \in 1..Len(s) |-> s[w]]
    OBVIOUS
  <2>2. s \in [1..Len(s) -> Workouts]
    BY <1>1, <2>1
  <2> QED
    BY <2>1, <2>2, SeqDef
<1>2. ASSUME NEW s \in Seq(Workouts)
      PROVE  s \in Seq(Chrono!Stored) /\ \A w \in DOMAIN s : s[w] \in Workouts
  <2>1. DOMAIN s = 1..Len(s) /\ Len(s) \in Nat /\ s = [w \in 1..Len(s) |-> s[w]]
        /\ \A w \in 1..Len(s) : s[w] \in Workouts
    OBVIOUS
  <2>2. s \in [1..Len(s) -> Chrono!Stored]
    BY <2>1 DEF Workouts
  <2> QED
    BY <2>1, <2>2, SeqDef
<1>3. ASSUME Chrono!Sound(d)
      PROVE  /\ d = [recs |-> d.recs, hdr |-> d.hdr] /\ d.hdr \in Chrono!Hdrs
             /\ d.recs \in Seq(Workouts)
             /\ d.hdr.used_recs = Chrono!U8(Len(Chrono!Flat(d.recs)))
  <2>1. /\ d \in [recs : Seq(Chrono!Stored), hdr : Chrono!Hdrs]
        /\ d.hdr.used_recs = Chrono!U8(Len(Chrono!Flat(d.recs)))
        /\ \A w \in DOMAIN d.recs :
              Numbered(d.recs[w].laps) /\ d.recs[w].best_lap_id = Best(d.recs[w].laps)
    BY <1>3 DEF Chrono!Sound, Chrono!LapsNumbered, Numbered, Best
  <2>2. /\ d.recs \in Seq(Chrono!Stored) /\ d.hdr \in Chrono!Hdrs
        /\ d = [recs |-> d.recs, hdr |-> d.hdr]
    BY <2>1
  <2> DEFINE s == d.recs
  <2>3. \A w \in DOMAIN s : s[w] \in Workouts
    <3>1. \A w \in DOMAIN s : s[w] \in Chrono!Stored
      BY <2>2
    <3> QED
      BY <2>1, <3>1 DEF Workouts
  <2>4. s \in Seq(Workouts)
    <3>1. s \in Seq(Chrono!Stored)
      BY <2>2
    <3> HIDE DEF s
    <3> QED
      BY <1>1, <2>3, <3>1
  <2> QED
    BY <2>1, <2>2, <2>4
<1>4. ASSUME d = [recs |-> d.recs, hdr |-> d.hdr], d.hdr \in Chrono!Hdrs,
             d.recs \in Seq(Workouts),
             d.hdr.used_recs = Chrono!U8(Len(Chrono!Flat(d.recs)))
      PROVE  Chrono!Sound(d)
  <2>1. d.recs \in Seq(Chrono!Stored) /\ \A w \in DOMAIN d.recs : d.recs[w] \in Workouts
    BY <1>2, <1>4
  <2>2. d \in [recs : Seq(Chrono!Stored), hdr : Chrono!Hdrs]
    BY <1>4, <2>1
  <2>3. Chrono!LapsNumbered(d.recs)
    BY <2>1 DEF Workouts, Numbered, Best, Chrono!LapsNumbered
  <2> QED
    BY <1>4, <2>2, <2>3 DEF Chrono!Sound
<1> QED
  BY <1>3, <1>4

LEMMA WorkoutsStored ==
  ASSUME NEW s \in Seq(Workouts)
  PROVE  /\ s \in Seq(Chrono!Stored) /\ Len(s) \in Nat /\ DOMAIN s = 1..Len(s)
         /\ \A w \in 1..Len(s) :
              /\ s[w] \in Workouts /\ s[w] \in Chrono!Stored
              /\ s[w].laps \in Seq(Laplike) /\ s[w].laps # << >> /\ Numbered(s[w].laps)
              /\ s[w].date \in Nat /\ s[w].best_lap_id = Best(s[w].laps)
<1>1. DOMAIN s = 1..Len(s) /\ Len(s) \in Nat /\ s = [w \in 1..Len(s) |-> s[w]]
      /\ \A w \in 1..Len(s) : s[w] \in Workouts
  OBVIOUS
<1>2. \A r \in Workouts : /\ r \in Chrono!Stored /\ r.laps \in Seq(Laplike) /\ r.laps # << >>
                          /\ Numbered(r.laps) /\ r.date \in Nat
                          /\ r.best_lap_id = Best(r.laps)
  BY DEF Workouts, Chrono!Stored, Laplike
<1>3. s \in [1..Len(s) -> Chrono!Stored]
  BY <1>1, <1>2
<1>4. s \in Seq(Chrono!Stored)
  BY <1>1, <1>3, SeqDef
<1> QED
  BY <1>1, <1>2, <1>4

LEMMA FlatSize ==
  ASSUME NEW recs \in Seq(Chrono!Stored)
  PROVE  /\ Len(Chrono!Flat(recs)) = Sum(Lens(ChronoSize, recs))
         /\ Len(Chrono!Flat(recs)) \in Nat /\ Chrono!Flat(recs) \in Seq(Slots)
<1>1. PICK b : Places(b, recs, Chrono!Flat(recs))
  BY FlatPlaces
<1> QED
  BY <1>1, PlacesGrow DEF Places

\* Counts in bytes.
LEMMA ByteType == \A x \in Int : Chrono!U8(x) \in 0..255 /\ Chrono!U8(x) \in Nat
  BY DEF Chrono!U8

LEMMA ByteAdds ==
  ASSUME NEW n \in Int, NEW a \in Int
  PROVE  Chrono!U8(Chrono!U8(n) + a) = Chrono!U8(n + a)
<1>1. ((n % 256) + a) % 256 = (n + a) % 256
  OBVIOUS
<1> QED
  BY <1>1 DEF Chrono!U8

LEMMA ByteIs == \A x \in 0..255 : Chrono!U8(x) = x
  BY DEF Chrono!U8

\* A workout of numbered laps.
LEMMA WorkoutOf ==
  ASSUME NEW laps \in Seq(Laplike), laps # << >>, Numbered(laps), NEW date \in Nat,
         NEW r, r = [date |-> date, best_lap_id |-> Best(laps), laps |-> laps]
  PROVE  r \in Workouts /\ ChronoSize[r] = Len(laps) + 1
<1>1. Chrono!BestLap(laps) \in 1..Len(laps)
  BY BestLapIsThere
<1>2. Best(laps) \in Nat
  <2>1. Chrono!BestLap(laps) \in Int
    BY <1>1
  <2> QED
    BY <2>1, ByteType DEF Best
<1>3. r \in Chrono!Stored
  BY <1>2 DEF Chrono!Stored, Laplike
<1>4. r \in Workouts
  BY <1>3 DEF Workouts
<1> QED
  BY <1>3, <1>4 DEF ChronoSize

\* One lap more, at the end.
LEMMA LapAdded ==
  ASSUME NEW old \in Seq(Laplike), Numbered(old), NEW time \in Int,
         NEW laps, laps = Append(old, [lap_id |-> Chrono!U8(Len(old) + 1), time |-> time,
                                    missed |-> 0])
  PROVE  /\ laps \in Seq(Laplike) /\ laps # << >> /\ Numbered(laps)
         /\ Len(laps) = Len(old) + 1 /\ Len(old) \in Nat
<1> DEFINE n == Len(old)
           e == [lap_id |-> Chrono!U8(n + 1), time |-> time, missed |-> 0]
<1>1. n \in Nat /\ DOMAIN old = 1..n
  OBVIOUS
<1>2. Chrono!U8(n + 1) \in Nat
  BY <1>1 DEF Chrono!U8
<1>3. e \in Laplike /\ e.lap_id = Chrono!U8(n + 1) /\ e.missed = 0
  BY <1>2 DEF Laplike
<1> HIDE DEF e
<1>4. /\ laps \in Seq(Laplike) /\ Len(laps) = n + 1 /\ laps[n + 1] = e
      /\ DOMAIN laps = 1..(n + 1) /\ \A k \in 1..n : laps[k] = old[k]
  BY <1>3 DEF e
<1>5. laps # << >>
  BY <1>1, <1>4
<1>6. \A k \in 1..(n + 1) : k \in 1..n \/ k = n + 1
  BY <1>1
<1>7. Numbered(laps)
  BY <1>1, <1>3, <1>4, <1>6 DEF Numbered
<1> QED
  BY <1>1, <1>4, <1>5, <1>7

\* A header with other counts.
LEMMA ChronoHeader ==
  ASSUME NEW h \in Chrono!Hdrs, NEW u \in 0..255, NEW l \in 0..255
  PROVE  /\ [h EXCEPT !.used_recs = u, !.last_workout = l] \in Chrono!Hdrs
         /\ [h EXCEPT !.used_recs = u, !.last_workout = l].used_recs = u
<1> DEFINE g == [h EXCEPT !.used_recs = u, !.last_workout = l]
           g2 == [num_recs |-> h.num_recs, display_format |-> h.display_format,
                  unused_recs |-> h.unused_recs, max_recs |-> h.max_recs,
                  used_recs |-> u, last_workout |-> l, stored_rec |-> h.stored_rec,
                  db_size |-> h.db_size, alloc_size |-> h.alloc_size]
<1>1. /\ h = [num_recs |-> h.num_recs, display_format |-> h.display_format,
              unused_recs |-> h.unused_recs, max_recs |-> h.max_recs,
              used_recs |-> h.used_recs, last_workout |-> h.last_workout,
              stored_rec |-> h.stored_rec, db_size |-> h.db_size, alloc_size |-> h.alloc_size]
      /\ h.num_recs \in Int /\ h.display_format \in Displays \cup {0}
      /\ h.unused_recs \in 0..255 /\ h.max_recs \in 0..255 /\ h.stored_rec \in 0..255
      /\ h.db_size \in Int /\ h.alloc_size \in Int
  BY DEF Chrono!Hdrs
<1>2. g = g2
  <2>1. ASSUME NEW e, e = [h EXCEPT !.used_recs = u, !.last_workout = l] PROVE e = g2
    BY <1>1, <2>1
  <2> QED
    BY <2>1
<1>3. g2 \in Chrono!Hdrs /\ g2.used_recs = u
  BY <1>1 DEF Chrono!Hdrs
<1> QED
  BY <1>2, <1>3

LEMMA WorkoutSizes ==
  \A s \in Seq(Workouts) :
    /\ Lens(ChronoSize, s) \in Seq(Int) /\ Len(Lens(ChronoSize, s)) = Len(s)
    /\ \A j \in 1..Len(s) : Lens(ChronoSize, s)[j] = ChronoSize[s[j]]
<1>1. Measures(ChronoSize, Chrono!Stored)
  BY ChronoTakes DEF Measures, Takes
<1>2. \A s \in Seq(Workouts) : s \in Seq(Chrono!Stored)
  BY WorkoutsStored
<1> QED
  BY <1>1, <1>2, LensType

\* A database with a workout in place of another, or put in, or taken out.
LEMMA WorkoutReplaced ==
  ASSUME NEW s \in Seq(Workouts), NEW w \in 1..Len(s), NEW r \in Workouts,
         NEW t, t = [s EXCEPT ![w] = r]
  PROVE  /\ t \in Seq(Workouts)
         /\ Len(Chrono!Flat(t)) = Len(Chrono!Flat(s)) - ChronoSize[s[w]] + ChronoSize[r]
<1>1. /\ s \in Seq(Chrono!Stored) /\ Len(s) \in Nat /\ DOMAIN s = 1..Len(s)
      /\ \A j \in 1..Len(s) : s[j] \in Workouts
  BY WorkoutsStored
<1>2. t \in Seq(Workouts) /\ Len(t) = Len(s) /\ t[w] = r /\ \A j \in 1..Len(s) : j # w => t[j] = s[j]
  <2>1. t \in [1..Len(s) -> Workouts]
    BY <1>1
  <2>2. t \in Seq(Workouts) /\ Len(t) = Len(s)
    BY <1>1, <2>1, SeqDef
  <2> QED
    BY <1>1, <2>2
<1>3. t \in Seq(Chrono!Stored)
  BY <1>2, WorkoutsStored
<1>11. DOMAIN t = 1..Len(s) /\ Len(t) = Len(s)
  BY <1>1, <1>2
<1> DEFINE a == Lens(ChronoSize, s)
           b == Lens(ChronoSize, t)
<1>5. /\ a \in Seq(Int) /\ Len(a) = Len(s)
      /\ \A j \in 1..Len(s) : a[j] = ChronoSize[s[j]]
  BY WorkoutSizes
<1>6. /\ b \in Seq(Int) /\ Len(b) = Len(t)
      /\ \A j \in 1..Len(t) : b[j] = ChronoSize[t[j]]
  BY <1>2, WorkoutSizes
<1> HIDE DEF a, b
<1>7. w \in 1..Len(a) /\ Len(b) = Len(a) /\ \A j \in 1..Len(a) : j # w => b[j] = a[j]
  <2>1. w \in 1..Len(a) /\ Len(b) = Len(a)
    BY <1>5, <1>6, <1>11
  <2>2. ASSUME NEW j \in 1..Len(a), j # w PROVE b[j] = a[j]
    <3>1. j \in 1..Len(s) /\ j \in 1..Len(t)
      BY <1>5, <1>11
    <3>2. t[j] = s[j]
      BY <1>2, <2>2, <3>1
    <3>3. a[j] = ChronoSize[s[j]]
      BY <1>5, <3>1
    <3>4. b[j] = ChronoSize[t[j]]
      BY <1>6, <3>1
    <3> QED
      BY <3>2, <3>3, <3>4
  <2> QED
    BY <2>1, <2>2
<1>8. Sum(b) = Sum(a) - a[w] + b[w]
  BY <1>5, <1>6, <1>7, SumReplaced
<1>9. a[w] = ChronoSize[s[w]] /\ b[w] = ChronoSize[r]
  BY <1>2, <1>5, <1>6
<1>10. Len(Chrono!Flat(t)) = Sum(b) /\ Len(Chrono!Flat(s)) = Sum(a)
  BY <1>1, <1>3, FlatSize DEF a, b
<1> QED
  BY <1>2, <1>8, <1>9, <1>10

LEMMA WorkoutPut ==
  ASSUME NEW s \in Seq(Workouts), NEW t \in Seq(Workouts), NEW w \in 1..(Len(s) + 1),
         NEW r \in Workouts, Inserted(s, w, r, t)
  PROVE  Len(Chrono!Flat(t)) = Len(Chrono!Flat(s)) + ChronoSize[r]
<1>1. s \in Seq(Chrono!Stored) /\ t \in Seq(Chrono!Stored) /\ r \in Chrono!Stored
  BY WorkoutsStored DEF Workouts
<1>2. Measures(ChronoSize, Chrono!Stored)
  BY ChronoTakes DEF Measures, Takes
<1>3. Sum(Lens(ChronoSize, t)) = Sum(Lens(ChronoSize, s)) + ChronoSize[r]
  BY <1>1, <1>2, LensPut
<1> QED
  BY <1>1, <1>3, FlatSize

\* A lap is added to the workout of that number, or to a new one.
LEMMA ChronoAdd ==
  ASSUME NEW d, Chrono!Sound(d), NEW c \in Chrono!Lines
  PROVE  /\ Chrono!Sound(Chrono!add_chrono(d, c))
         /\ Len(Chrono!Flat(Chrono!add_chrono(d, c).recs)) <= Len(Chrono!Flat(d.recs)) + 2
<1> DEFINE s == d.recs
           N == Len(Chrono!Flat(s))
<1>1. /\ d = [recs |-> s, hdr |-> d.hdr] /\ d.hdr \in Chrono!Hdrs /\ s \in Seq(Workouts)
      /\ d.hdr.used_recs = Chrono!U8(N)
  BY ChronoSoundType
<1>2. /\ s \in Seq(Chrono!Stored) /\ Len(s) \in Nat /\ DOMAIN s = 1..Len(s)
      /\ \A w \in 1..Len(s) :
            /\ s[w] \in Workouts /\ s[w] \in Chrono!Stored
            /\ s[w].laps \in Seq(Laplike) /\ s[w].laps # << >> /\ Numbered(s[w].laps)
            /\ s[w].date \in Nat
  BY <1>1, WorkoutsStored
<1>3. N \in Nat
  BY <1>2, FlatSize
<1>4. c.time \in Int /\ c.date \in Nat /\ c.workout_id \in Int
  BY DEF Chrono!Lines
<1>5. d.hdr.used_recs \in 0..255 /\ d.hdr.last_workout \in 0..255
  BY <1>1 DEF Chrono!Hdrs
<1> HIDE DEF s, N
<1>6. CASE c.workout_id \in DOMAIN s
  <2> DEFINE w == c.workout_id
             old == s[w].laps
             laps == Append(old, [lap_id |-> Chrono!U8(Len(old) + 1), time |-> c.time,
                                  missed |-> 0])
             r == [date |-> s[w].date, best_lap_id |-> Best(laps), laps |-> laps]
             t == [s EXCEPT ![w] = r]
             h == [d.hdr EXCEPT !.used_recs = Chrono!U8(@ + 1), !.last_workout = @]
  <2>1. w \in 1..Len(s)
    BY <1>2, <1>6
  <2>2. Chrono!add_chrono(d, c) = [recs |-> t, hdr |-> h]
    BY <1>6 DEF Chrono!add_chrono, s, Best
  <2>3. old \in Seq(Laplike) /\ Numbered(old) /\ s[w] \in Chrono!Stored /\ s[w].date \in Nat
    BY <1>2, <2>1
  <2>13. ChronoSize[s[w]] = Len(old) + 1
    BY <2>3 DEF ChronoSize
  <2> HIDE DEF old
  <2>4. /\ laps \in Seq(Laplike) /\ laps # << >> /\ Numbered(laps)
        /\ Len(laps) = Len(old) + 1 /\ Len(old) \in Nat
    BY <1>4, <2>3, LapAdded
  <2> HIDE DEF laps
  <2>5. r \in Workouts /\ ChronoSize[r] = Len(laps) + 1
    BY <2>3, <2>4, WorkoutOf
  <2> HIDE DEF r
  <2>6. t \in Seq(Workouts) /\ Len(Chrono!Flat(t)) = N - ChronoSize[s[w]] + ChronoSize[r]
    BY <1>1, <2>1, <2>5, WorkoutReplaced DEF N
  <2> DEFINE M == Len(Chrono!Flat(t))
  <2>7. M = N + 1
    <3>1. M = N - (Len(old) + 1) + ((Len(old) + 1) + 1)
      BY <2>4, <2>5, <2>6, <2>13
    <3>2. \A x, y \in Nat : x - (y + 1) + ((y + 1) + 1) = x + 1
      OBVIOUS
    <3> QED
      BY <1>3, <2>4, <3>1, <3>2
  <2>8. Chrono!U8(d.hdr.used_recs + 1) = Chrono!U8(N + 1) /\ Chrono!U8(N + 1) \in 0..255
    <3>1. N \in Int /\ 1 \in Int /\ N + 1 \in Int
      BY <1>3
    <3>2. Chrono!U8(Chrono!U8(N) + 1) = Chrono!U8(N + 1)
      BY <3>1, ByteAdds
    <3> QED
      BY <1>1, <3>1, <3>2, ByteType
  <2>9. h = [d.hdr EXCEPT !.used_recs = Chrono!U8(N + 1), !.last_workout = d.hdr.last_workout]
    BY <2>8
  <2>10. h \in Chrono!Hdrs /\ h.used_recs = Chrono!U8(N + 1)
    <3> DEFINE g == d.hdr
               u == Chrono!U8(N + 1)
    <3> HIDE DEF h
    <3> DEFINE l == g.last_workout
    <3>1. g \in Chrono!Hdrs /\ u \in 0..255 /\ l \in 0..255
      BY <1>1, <1>5, <2>8
    <3>2. h = [g EXCEPT !.used_recs = u, !.last_workout = l]
      BY <2>9
    <3> HIDE DEF g, u, l
    <3>3. h \in Chrono!Hdrs /\ h.used_recs = u
      BY <3>1, <3>2, ChronoHeader
    <3> QED
      BY <3>3 DEF u
  <2> HIDE DEF h, t
  <2>11. Chrono!Sound([recs |-> t, hdr |-> h])
    BY <2>6, <2>7, <2>10, ChronoSoundType
  <2>12. M <= N + 2
    BY <1>3, <2>7
  <2> QED
    BY <2>2, <2>11, <2>12 DEF N, s
<1>7. CASE c.workout_id \notin DOMAIN s
  <2> DEFINE old == << >>
             laps == Append(old, [lap_id |-> Chrono!U8(Len(old) + 1), time |-> c.time,
                                  missed |-> 0])
             r == [date |-> c.date, best_lap_id |-> Best(laps), laps |-> laps]
             t == Append(s, r)
             h == [d.hdr EXCEPT !.used_recs = Chrono!U8(@ + 2),
                                !.last_workout = d.hdr.used_recs]
  <2>2. Chrono!add_chrono(d, c) = [recs |-> t, hdr |-> h]
    BY <1>7 DEF Chrono!add_chrono, s, Best
  <2>3. old \in Seq(Laplike) /\ Numbered(old) /\ Len(old) = 0
    BY DEF Numbered
  <2> HIDE DEF old
  <2>4. /\ laps \in Seq(Laplike) /\ laps # << >> /\ Numbered(laps)
        /\ Len(laps) = Len(old) + 1
    BY <1>4, <2>3, LapAdded
  <2> HIDE DEF laps
  <2>5. r \in Workouts /\ ChronoSize[r] = 2
    <3>1. r \in Workouts /\ ChronoSize[r] = Len(laps) + 1
      BY <1>4, <2>4, WorkoutOf
    <3>2. Len(laps) + 1 = 2
      BY <2>3, <2>4
    <3> QED
      BY <3>1, <3>2
  <2> HIDE DEF r
  <2>6. t \in Seq(Workouts) /\ Inserted(s, Len(s) + 1, r, t)
    BY <1>1, <2>5, AppendPuts
  <2> DEFINE M == Len(Chrono!Flat(t))
  <2> HIDE DEF t
  <2>7. M = N + 2
    <3>1. Len(s) + 1 \in 1..(Len(s) + 1)
      BY <1>2
    <3> QED
      BY <1>1, <2>5, <2>6, <3>1, WorkoutPut DEF N
  <2>8. Chrono!U8(d.hdr.used_recs + 2) = Chrono!U8(N + 2) /\ Chrono!U8(N + 2) \in 0..255
    <3>1. N \in Int /\ 2 \in Int /\ N + 2 \in Int
      BY <1>3
    <3>2. Chrono!U8(Chrono!U8(N) + 2) = Chrono!U8(N + 2)
      BY <3>1, ByteAdds
    <3> QED
      BY <1>1, <3>1, <3>2, ByteType
  <2>9. h = [d.hdr EXCEPT !.used_recs = Chrono!U8(N + 2), !.last_workout = d.hdr.used_recs]
    BY <2>8
  <2>10. h \in Chrono!Hdrs /\ h.used_recs = Chrono!U8(N + 2)
    <3> DEFINE g == d.hdr
               u == Chrono!U8(N + 2)
    <3> HIDE DEF h
    <3> DEFINE l == g.used_recs
    <3>1. g \in Chrono!Hdrs /\ u \in 0..255 /\ l \in 0..255
      BY <1>1, <1>5, <2>8
    <3>2. h = [g EXCEPT !.used_recs = u, !.last_workout = l]
      BY <2>9
    <3> HIDE DEF g, u, l
    <3>3. h \in Chrono!Hdrs /\ h.used_recs = u
      BY <3>1, <3>2, ChronoHeader
    <3> QED
      BY <3>3 DEF u
  <2> HIDE DEF h
  <2>11. Chrono!Sound([recs |-> t, hdr |-> h])
    BY <2>6, <2>7, <2>10, ChronoSoundType
  <2>12. M <= N + 2
    BY <1>3, <2>7
  <2> QED
    BY <2>2, <2>11, <2>12 DEF N, s
<1> QED
  BY <1>6, <1>7

\* The laps left when the one at p is taken out: those behind it are numbered anew, or
\* keep their numbers and count the deletion.
Renamed(rest, p, f) ==
    [k \in DOMAIN rest |->
        IF k < p THEN rest[k]
        ELSE IF f = "astray" THEN [rest[k] EXCEPT !.missed = @ + 1]
        ELSE [rest[k] EXCEPT !.lap_id = Chrono!U8(@ - 1)]]

LEMMA LapTaken ==
  ASSUME NEW old \in Seq(Laplike), Numbered(old), NEW p \in 1..Len(old), NEW f,
         NEW rest, rest = RemoveAt(old, p),
         NEW laps, laps = Renamed(rest, p, f)
  PROVE  /\ laps \in Seq(Laplike) /\ Numbered(laps)
         /\ Len(laps) = Len(old) - 1 /\ Len(rest) = Len(laps) /\ Len(old) \in Nat
<1>1. rest \in Seq(Laplike) /\ Inserted(rest, p, old[p], old)
  BY RemoveAtTakes
<1>2. Len(old) \in Nat /\ DOMAIN old = 1..Len(old) /\ Len(rest) \in Nat
      /\ DOMAIN rest = 1..Len(rest) /\ \A k \in 1..Len(rest) : rest[k] \in Laplike
  BY <1>1
<1>3. /\ Len(old) = Len(rest) + 1
      /\ \A k \in 1..(p - 1) : old[k] = rest[k]
      /\ \A k \in p..Len(rest) : old[k + 1] = rest[k]
  BY <1>1 DEF Inserted
<1>4. ASSUME NEW k \in 1..Len(rest)
      PROVE  laps[k] \in Laplike /\ laps[k].lap_id = Chrono!U8(k + laps[k].missed)
  <2>1. CASE k < p
    <3>1. laps[k] = rest[k] /\ k \in 1..(p - 1) /\ k \in 1..Len(old)
      BY <1>2, <1>3, <2>1 DEF Renamed
    <3> QED
      BY <1>2, <1>3, <3>1 DEF Numbered
  <2>2. CASE ~(k < p)
    <3> DEFINE m == rest[k].missed
               l == rest[k].lap_id
               z == rest[k].time
    <3>1. k \in p..Len(rest) /\ k + 1 \in 1..Len(old)
      BY <1>2, <1>3, <2>2
    <3>2. rest[k] = old[k + 1] /\ l = Chrono!U8(k + 1 + m)
      BY <1>2, <1>3, <3>1 DEF Numbered
    <3>3. /\ rest[k] = [lap_id |-> l, time |-> z, missed |-> m]
          /\ m \in Nat /\ l \in Nat /\ z \in Int
      BY <1>2 DEF Laplike
    <3>4. CASE f = "astray"
      <4>1. laps[k] = [rest[k] EXCEPT !.missed = m + 1]
        BY <1>2, <2>2, <3>4 DEF Renamed
      <4>2. laps[k] = [lap_id |-> l, time |-> z, missed |-> m + 1]
        BY <3>3, <4>1
      <4>3. k + (m + 1) = k + 1 + m /\ m + 1 \in Nat
        BY <3>3
      <4> QED
        <5>1. laps[k].lap_id = l /\ laps[k].missed = m + 1
          BY <4>2
        <5>2. laps[k].lap_id = Chrono!U8(k + laps[k].missed)
          <6> HIDE DEF l, m
          <6>1. k + laps[k].missed = k + 1 + m
            BY <4>3, <5>1
          <6> QED
            BY <3>2, <5>1, <6>1
        <5>3. laps[k] \in Laplike
          <6> HIDE DEF l, m, z
          <6> QED
            BY <3>3, <4>2, <4>3 DEF Laplike
        <5> QED
          BY <5>2, <5>3
    <3>5. CASE f # "astray"
      <4>1. laps[k] = [rest[k] EXCEPT !.lap_id = Chrono!U8(l - 1)]
        BY <1>2, <2>2, <3>5 DEF Renamed
      <4>2. laps[k] = [lap_id |-> Chrono!U8(l - 1), time |-> z, missed |-> m]
        BY <3>3, <4>1
      <4>3. Chrono!U8(l - 1) = Chrono!U8(k + m) /\ Chrono!U8(l - 1) \in Nat
        <5>1. k + 1 + m \in Int /\ -1 \in Int /\ (k + 1 + m) + (-1) = k + m
              /\ l + (-1) = l - 1 /\ l - 1 \in Int
          BY <3>3
        <5>2. Chrono!U8(Chrono!U8(k + 1 + m) + (-1)) = Chrono!U8((k + 1 + m) + (-1))
          BY <5>1, ByteAdds
        <5> QED
          BY <3>2, <5>1, <5>2, ByteType
      <4> QED
        BY <3>3, <4>2, <4>3 DEF Laplike
    <3> QED
      BY <3>4, <3>5
  <2> QED
    BY <2>1, <2>2
<1>5. laps \in [1..Len(rest) -> Laplike]
  <2>1. laps = [k \in 1..Len(rest) |-> laps[k]]
    BY <1>2 DEF Renamed
  <2> QED
    BY <1>4, <2>1
<1>6. laps \in Seq(Laplike) /\ Len(laps) = Len(rest) /\ DOMAIN laps = 1..Len(rest)
  BY <1>2, <1>5, SeqDef
<1>7. Numbered(laps)
  BY <1>4, <1>6 DEF Numbered
<1> QED
  BY <1>2, <1>3, <1>6, <1>7

\* The workout and the lap of an index.
LEMMA LapFound ==
  ASSUME NEW s \in Seq(Workouts), NEW i \in Int, Position(Chrono!NumLaps(s), i)[1] # 0
  PROVE  /\ Position(Chrono!NumLaps(s), i)[1] \in 1..Len(s)
         /\ Position(Chrono!NumLaps(s), i)[2]
              \in 1..Len(s[Position(Chrono!NumLaps(s), i)[1]].laps)
<1> DEFINE lens == Chrono!NumLaps(s)
<1>1. Len(s) \in Nat /\ DOMAIN s = 1..Len(s) /\ \A w \in 1..Len(s) : s[w] \in Chrono!Stored
  BY WorkoutsStored
<1>2. lens = [w \in 1..Len(s) |-> Len(s[w].laps)]
  BY <1>1 DEF Chrono!NumLaps
<1>3. \A w \in 1..Len(s) : Len(s[w].laps) \in Nat
  BY <1>1, WorkoutType
<1>4. lens \in [1..Len(s) -> Nat]
  BY <1>2, <1>3
<1>5. lens \in Seq(Nat) /\ Len(lens) = Len(s) /\ \A w \in 1..Len(s) : lens[w] = Len(s[w].laps)
  BY <1>1, <1>2, <1>4, SeqDef
<1> HIDE DEF lens
<1>6. Position(lens, i)[1] # 0
  BY DEF lens
<1>7. /\ Position(lens, i)[1] \in 1..Len(lens)
      /\ Position(lens, i)[2] \in 1..lens[Position(lens, i)[1]]
  BY <1>5, <1>6, PositionIsThere
<1> QED
  BY <1>5, <1>7 DEF lens

LEMMA ChronoUsed ==
  ASSUME NEW h \in Chrono!Hdrs, NEW u \in 0..255
  PROVE  /\ [h EXCEPT !.used_recs = u] \in Chrono!Hdrs
         /\ [h EXCEPT !.used_recs = u].used_recs = u
<1>1. h.last_workout \in 0..255
  BY DEF Chrono!Hdrs
<1> DEFINE l == h.last_workout
           g == [h EXCEPT !.used_recs = u, !.last_workout = l]
<1>2. g \in Chrono!Hdrs /\ g.used_recs = u
  <2> HIDE DEF l
  <2> QED
    BY <1>1, ChronoHeader DEF l
<1>3. [h EXCEPT !.used_recs = u] = g
  <2>1. h = [h EXCEPT !.last_workout = l]
    BY DEF Chrono!Hdrs
  <2> QED
    BY <2>1
<1> QED
  BY <1>2, <1>3

\* A lap is deleted, and the workout with its last one.
LEMMA ChronoDel ==
  ASSUME NEW d, Chrono!Sound(d), NEW i \in Int, NEW f
  PROVE  Chrono!Sound(Chrono!del_chrono(d, i, f))
<1> DEFINE s == d.recs
           N == Len(Chrono!Flat(s))
           at == Position(Chrono!NumLaps(s), i)
           w == at[1]
           p == at[2]
           old == s[w].laps
           rest == RemoveAt(old, p)
           laps == Renamed(rest, p, f)
           left == Chrono!U8(Len(rest))
           B == Best(laps)
           shorter == [recs |-> [s EXCEPT ![w] = [@ EXCEPT !.best_lap_id = B, !.laps = laps]],
                       hdr |-> [d.hdr EXCEPT !.used_recs = Chrono!U8(@ - 1)]]
           without == [recs |-> RemoveAt(s, w),
                       hdr |-> [d.hdr EXCEPT !.used_recs = Chrono!U8(@ - 2),
                                             !.last_workout = Chrono!U8(@ - 1)]]
<1>1. /\ d = [recs |-> s, hdr |-> d.hdr] /\ d.hdr \in Chrono!Hdrs /\ s \in Seq(Workouts)
      /\ d.hdr.used_recs = Chrono!U8(N)
  BY ChronoSoundType
<1>2. Chrono!del_chrono(d, i, f) = IF w = 0 THEN d ELSE IF left # 0 THEN shorter ELSE without
  BY ChronoSame DEF Chrono!del_chrono, Renamed, Best
<1>3. CASE w = 0
  BY <1>2, <1>3
<1>4. CASE w # 0
  <2>1. w \in 1..Len(s) /\ p \in 1..Len(old)
    BY <1>1, <1>4, LapFound
  <2> HIDE DEF w, p
  <2>2. /\ s \in Seq(Chrono!Stored) /\ Len(s) \in Nat /\ DOMAIN s = 1..Len(s)
        /\ s[w] \in Chrono!Stored /\ old \in Seq(Laplike) /\ Numbered(old)
        /\ s[w].date \in Nat
    BY <1>1, <2>1, WorkoutsStored
  <2>3. N \in Nat
    BY <2>2, FlatSize
  <2>4. ChronoSize[s[w]] = Len(old) + 1
    BY <2>2 DEF ChronoSize
  <2>5. s[w] = [date |-> s[w].date, best_lap_id |-> s[w].best_lap_id, laps |-> old]
    BY <2>2, WorkoutType
  <2> HIDE DEF s, old, N
  <2>6. /\ laps \in Seq(Laplike) /\ Numbered(laps)
        /\ Len(laps) = Len(old) - 1 /\ left = Chrono!U8(Len(laps)) /\ Len(old) \in Nat
    <3>1. /\ laps \in Seq(Laplike) /\ Numbered(laps)
          /\ Len(laps) = Len(old) - 1 /\ Len(rest) = Len(laps) /\ Len(old) \in Nat
      BY <2>1, <2>2, LapTaken
    <3> HIDE DEF laps, rest
    <3> QED
      BY <3>1
  <2>7. d.hdr.used_recs \in 0..255 /\ d.hdr.last_workout \in 0..255
    BY <1>1 DEF Chrono!Hdrs
  <2> DEFINE h == d.hdr
  <2>8. \A a \in Int : Chrono!U8(h.used_recs + a) = Chrono!U8(N + a)
                       /\ Chrono!U8(N + a) \in 0..255
    <3> DEFINE v == h.used_recs
    <3>1. v = Chrono!U8(N) /\ N \in Int /\ \A a \in Int : N + a \in Int
      BY <1>1, <2>3
    <3> HIDE DEF v
    <3>2. \A a \in Int : Chrono!U8(v + a) = Chrono!U8(N + a)
      BY <3>1, ByteAdds
    <3> QED
      BY <3>1, <3>2, ByteType DEF v
  <2>9. /\ Chrono!U8(h.used_recs - 1) = Chrono!U8(N - 1) /\ Chrono!U8(N - 1) \in 0..255
        /\ Chrono!U8(h.used_recs - 2) = Chrono!U8(N - 2) /\ Chrono!U8(N - 2) \in 0..255
        /\ Chrono!U8(h.last_workout - 1) \in 0..255
    <3>1. -1 \in Int /\ -2 \in Int
      OBVIOUS
    <3>2. /\ h.used_recs + (-1) = h.used_recs - 1 /\ h.used_recs + (-2) = h.used_recs - 2
          /\ N + (-1) = N - 1 /\ N + (-2) = N - 2 /\ h.last_workout - 1 \in Int
      BY <2>3, <2>7
    <3> QED
      BY <2>8, <3>1, <3>2, ByteType
  <2> HIDE DEF left
  <2>10. CASE left # 0
    <3> DEFINE r == [date |-> s[w].date, best_lap_id |-> B, laps |-> laps]
               t == [s EXCEPT ![w] = r]
               u == Chrono!U8(N - 1)
               g == [h EXCEPT !.used_recs = u]
    <3>1. shorter = [recs |-> t, hdr |-> g]
      <4>1. [s[w] EXCEPT !.best_lap_id = B, !.laps = laps] = r
        <5> DEFINE e == s[w]
                   x == s[w].date
                   y == s[w].best_lap_id
        <5>1. e = [date |-> x, best_lap_id |-> y, laps |-> old]
          BY <2>5
        <5> HIDE DEF laps, B, e, x, y
        <5>2. [e EXCEPT !.best_lap_id = B, !.laps = laps]
                = [date |-> x, best_lap_id |-> B, laps |-> laps]
          <6> DEFINE q == [e EXCEPT !.best_lap_id = B]
          <6>1. q = [date |-> x, best_lap_id |-> B, laps |-> old]
            BY <5>1
          <6> HIDE DEF q
          <6>2. [q EXCEPT !.laps = laps] = [date |-> x, best_lap_id |-> B, laps |-> laps]
            BY <6>1
          <6> QED
            BY <6>2 DEF q
        <5> QED
          BY <5>2 DEF e, x
      <4>2. [h EXCEPT !.used_recs = Chrono!U8(h.used_recs - 1)] = g
        BY <2>9
      <4> HIDE DEF laps, B
      <4> QED
        BY <4>1, <4>2
    <3> HIDE DEF shorter, without
    <3>2. r \in Workouts /\ ChronoSize[r] = Len(laps) + 1
      <4> HIDE DEF laps
      <4>1. laps # << >>
        <5>1. Chrono!U8(0) = 0
          BY ByteIs
        <5>2. Len(laps) # 0
          BY <2>6, <2>10, <5>1
        <5> QED
          BY <5>2
      <4> QED
        BY <2>2, <2>6, <4>1, WorkoutOf
    <3> HIDE DEF r
    <3>3. t \in Seq(Workouts) /\ Len(Chrono!Flat(t)) = N - ChronoSize[s[w]] + ChronoSize[r]
      BY <1>1, <2>1, <3>2, WorkoutReplaced DEF N
    <3> HIDE DEF t
    <3>4. Len(Chrono!Flat(t)) = N - 1
      <4>1. Len(Chrono!Flat(t)) = N - (Len(old) + 1) + ((Len(old) - 1) + 1)
        BY <2>4, <2>6, <3>2, <3>3
      <4>2. \A x, y \in Nat : x - (y + 1) + ((y - 1) + 1) = x - 1
        OBVIOUS
      <4> QED
        BY <2>3, <2>6, <4>1, <4>2
    <3>5. h \in Chrono!Hdrs /\ u \in 0..255
      BY <1>1, <2>9
    <3>6. g \in Chrono!Hdrs /\ g.used_recs = u
      <4> HIDE DEF h, u
      <4> QED
        BY <3>5, ChronoUsed
    <3> HIDE DEF g
    <3>7. Chrono!Sound([recs |-> t, hdr |-> g])
      BY <3>3, <3>4, <3>6, ChronoSoundType
    <3> QED
      BY <1>2, <1>4, <2>10, <3>1, <3>7
  <2>11. CASE left = 0
    <3> DEFINE t == RemoveAt(s, w)
               u == Chrono!U8(N - 2)
               l == Chrono!U8(h.last_workout - 1)
               g == [h EXCEPT !.used_recs = u, !.last_workout = l]
    <3>1. without = [recs |-> t, hdr |-> g]
      BY <2>9
    <3> HIDE DEF shorter, without
    <3>2. t \in Seq(Workouts) /\ Inserted(t, w, s[w], s)
      BY <1>1, <2>1, RemoveAtTakes
    <3>3. s[w] \in Workouts /\ w \in 1..(Len(t) + 1)
      BY <1>1, <2>1, <3>2 DEF Inserted
    <3> HIDE DEF t
    <3>4. N = Len(Chrono!Flat(t)) + ChronoSize[s[w]]
      BY <1>1, <3>2, <3>3, WorkoutPut DEF N
    <3> DEFINE M == Len(Chrono!Flat(t))
               m == Len(laps)
    <3>5. M \in Nat
      BY <3>2, WorkoutsStored, FlatSize
    <3>6. Chrono!U8(M) = u
      <4> HIDE DEF M, m, laps
      <4>1. m \in Int /\ M \in Int /\ N - 2 = m + M /\ 0 + M = M
        BY <2>4, <2>6, <3>4, <3>5 DEF M, m
      <4>2. Chrono!U8(Chrono!U8(m) + M) = Chrono!U8(m + M)
        BY <4>1, ByteAdds
      <4>3. Chrono!U8(m) = 0
        BY <2>6, <2>11 DEF m
      <4> QED
        BY <4>1, <4>2, <4>3
    <3>7. h \in Chrono!Hdrs /\ u \in 0..255 /\ l \in 0..255
      BY <1>1, <2>9
    <3>8. g \in Chrono!Hdrs /\ g.used_recs = u
      <4> HIDE DEF h, u, l
      <4> QED
        BY <3>7, ChronoHeader
    <3> HIDE DEF g
    <3>9. Chrono!Sound([recs |-> t, hdr |-> g])
      BY <3>2, <3>6, <3>8, ChronoSoundType
    <3> QED
      BY <1>2, <1>4, <2>11, <3>1, <3>9
  <2> QED
    BY <2>10, <2>11
<1> QED
  BY <1>3, <1>4

LEMMA ChronoFind ==
  ASSUME NEW d, Chrono!Sound(d), NEW c
  PROVE  Chrono!find_chrono(d, c) \in Int
<1> DEFINE s == d.recs
           w == c.workout_id
           laps == s[w].laps
           I == {k \in 1..Len(laps) : laps[k].lap_id = c.lap_id}
           k == IF I # {} THEN Min(I) ELSE 0
           before == Sum([v \in 1..(w - 1) |-> Chrono!U8(Chrono!NumLaps(s)[v])])
<1>1. s \in Seq(Workouts)
  BY ChronoSoundType
<1>2. Chrono!find_chrono(d, c)
        = IF w \notin DOMAIN s THEN -1 ELSE IF k = 0 THEN -1 ELSE before + k - 1
  BY ChronoSame DEF Chrono!find_chrono, Chrono!SelectInSeq
<1>3. CASE w \notin DOMAIN s
  BY <1>2, <1>3
<1>4. CASE w \in DOMAIN s
  <2>1. k \in Int
    <3>1. I \in SUBSET Nat
      OBVIOUS
    <3> HIDE DEF I
    <3>2. CASE I = {}
      BY <3>2
    <3>3. CASE I # {}
      <4>1. Min(I) \in I
        BY <3>1, <3>3, FirstPlace
      <4>2. Min(I) \in Nat
        BY <3>1, <4>1
      <4> QED
        BY <3>3, <4>2
    <3> QED
      BY <3>2, <3>3
  <2>2. before \in Int
    <3> DEFINE lens == Chrono!NumLaps(s)
    <3>1. Len(s) \in Nat /\ DOMAIN s = 1..Len(s) /\ \A j \in 1..Len(s) : s[j] \in Chrono!Stored
      BY <1>1, WorkoutsStored
    <3>2. lens = [j \in 1..Len(s) |-> Len(s[j].laps)] /\ w \in 1..Len(s)
      BY <1>4, <3>1 DEF Chrono!NumLaps
    <3>3. \A j \in 1..Len(s) : Len(s[j].laps) \in Nat
      BY <3>1, WorkoutType
    <3> DEFINE bytes == [v \in 1..(w - 1) |-> Chrono!U8(lens[v])]
    <3>4. \A v \in 1..(w - 1) : Chrono!U8(lens[v]) \in Nat
      <4>1. \A v \in 1..(w - 1) : v \in 1..Len(s)
        BY <3>1, <3>2
      <4>2. \A v \in 1..(w - 1) : lens[v] \in Int
        BY <3>2, <3>3, <4>1
      <4> HIDE DEF lens, w
      <4> QED
        BY <4>2, ByteType
    <3>5. w - 1 \in Nat /\ bytes \in [1..(w - 1) -> Nat]
      <4>1. w - 1 \in Nat
        BY <3>1, <3>2
      <4> HIDE DEF lens, w
      <4> QED
        BY <3>4, <4>1
    <3> HIDE DEF bytes
    <3>6. bytes \in Seq(Nat)
      <4> HIDE DEF w
      <4> QED
        BY <3>5, SeqDef
    <3>7. Sum(bytes) \in Nat
      BY <3>6, SumType
    <3> QED
      BY <3>7 DEF bytes
  <2> HIDE DEF k, before
  <2> QED
    BY <1>2, <2>1, <2>2
<1> QED
  BY <1>3, <1>4

LEMMA ChronoFiles ==
  ASSUME NEW d, Chrono!Sound(d), NEW c \in Chrono!Lines, NEW f
  PROVE  /\ Chrono!Sound(Chrono!add_chrono_file(d, c))
         /\ Chrono!Sound(Chrono!del_chrono_file(d, c, f))
<1>1. Chrono!Sound(Chrono!add_chrono_file(d, c))
  BY ChronoAdd DEF Chrono!add_chrono_file
<1>2. Chrono!Sound(Chrono!del_chrono_file(d, c, f))
  BY ChronoFind, ChronoDel DEF Chrono!del_chrono_file
<1> QED
  BY <1>1, <1>2

LEMMA ChronoDisplay ==
  ASSUME NEW d, Chrono!Sound(d), NEW f \in Displays
  PROVE  Chrono!Sound(Chrono!update_chrono_display_format(d, f))
<1> DEFINE h == d.hdr
           g == [num_recs |-> h.num_recs, display_format |-> f,
                 unused_recs |-> h.unused_recs, max_recs |-> h.max_recs,
                 used_recs |-> h.used_recs, last_workout |-> h.last_workout,
                 stored_rec |-> h.stored_rec, db_size |-> h.db_size,
                 alloc_size |-> h.alloc_size]
<1>1. /\ d = [recs |-> d.recs, hdr |-> h] /\ h \in Chrono!Hdrs /\ d.recs \in Seq(Workouts)
      /\ h.used_recs = Chrono!U8(Len(Chrono!Flat(d.recs)))
  BY ChronoSoundType
<1>2. g \in Chrono!Hdrs /\ g.used_recs = h.used_recs
  BY <1>1 DEF Chrono!Hdrs
<1>3. [h EXCEPT !.display_format = f] = g
  BY <1>1 DEF Chrono!Hdrs
<1>4. Chrono!update_chrono_display_format(d, f) = [recs |-> d.recs, hdr |-> g]
  <2>1. Chrono!update_chrono_display_format(d, f)
          = [recs |-> d.recs, hdr |-> [h EXCEPT !.display_format = f]]
    BY <1>1 DEF Chrono!update_chrono_display_format
  <2> QED
    BY <1>3, <2>1
<1> HIDE DEF g
<1> QED
  BY <1>1, <1>2, <1>4, ChronoSoundType

LEMMA ChronoNew ==
  ASSUME NEW n \in 0..255, NEW f \in Displays \cup {0}
  PROVE  /\ Chrono!Sound(Chrono!init_chrono(n, f))
         /\ Len(Chrono!Flat(Chrono!init_chrono(n, f).recs)) = 0
<1> DEFINE s == << >>
           size == 17 + 5 * n
           h == [num_recs |-> n, display_format |-> f, unused_recs |-> n, max_recs |-> n,
                 used_recs |-> 0, last_workout |-> 0, stored_rec |-> 0,
                 db_size |-> size, alloc_size |-> alloc(size)]
           d == [recs |-> s, hdr |-> h]
<1>1. Chrono!init_chrono(n, f) = d
  BY ChronoSame DEF Chrono!init_chrono, Chrono!HDR
<1>2. size \in Nat \ {0}
  OBVIOUS
<1>3. alloc(size) \in Int /\ size \in Int
  <2> HIDE DEF size
  <2> QED
    BY <1>2, AllocHolds
<1>4. h \in Chrono!Hdrs /\ h.used_recs = 0
  BY <1>3 DEF Chrono!Hdrs
<1> HIDE DEF h
<1>5. s \in Seq(Workouts)
  OBVIOUS
<1>6. s \in Seq(Chrono!Stored) /\ Sum(Lens(ChronoSize, s)) = 0
  BY LensEmpty
<1>7. Len(Chrono!Flat(s)) = 0
  <2> HIDE DEF s
  <2> QED
    BY <1>6, FlatSize
<1> HIDE DEF s
<1>8. Chrono!U8(0) = 0
  BY ByteIs
<1>9. Chrono!Sound(d)
  BY <1>4, <1>5, <1>7, <1>8, ChronoSoundType
<1> QED
  BY <1>1, <1>7, <1>9

\* while(!del_chrono(&db, 0))
LEMMA ChronoEmptied ==
  ASSUME NEW d, Chrono!Sound(d), Sum(Chrono!NumLaps(d.recs)) \in Nat, NEW f
  PROVE  Chrono!Sound(Chrono!Emptied(d, f))
<1> DEFINE N == Sum(Chrono!NumLaps(d.recs))
           D == {e \in [recs : Seq(Chrono!Stored), hdr : Chrono!Hdrs] : Chrono!Sound(e)}
           g == [k \in 1..N |-> [e \in D |-> Chrono!del_chrono(e, 0, f)]]
           Body(h) == [n \in 0..N |-> IF n = 0 THEN d ELSE Chrono!del_chrono(h[n - 1], 0, f)]
           after == CHOOSE h : h = Body(h)
<1>1. \A e : e \in D <=> Chrono!Sound(e)
  BY DEF Chrono!Sound
<1>n. N \in Nat
  OBVIOUS
<1> HIDE DEF D, N
<1>2. \A e \in D : Chrono!del_chrono(e, 0, f) \in D
  BY <1>1, ChronoDel
<1>3. g \in [1..N -> [D -> D]]
  BY <1>2
<1>4. PICK u : Recurs(u, D, N, d, g)
  <2> HIDE DEF g
  <2> QED
    BY <1>1, <1>3, <1>n, Recursion
<1>5. u = Body(u)
  <2>1. ASSUME NEW n \in 0..N, n # 0
        PROVE  g[n][u[n - 1]] = Chrono!del_chrono(u[n - 1], 0, f)
    <3>1. n \in 1..N /\ n - 1 \in 0..N
      BY <1>n, <2>1
    <3>2. u[n - 1] \in D
      BY <1>4, <3>1 DEF Recurs
    <3> QED
      BY <3>1, <3>2
  <2> HIDE DEF g
  <2> QED
    BY <1>4, <1>n, <2>1 DEF Recurs
<1>6. after = Body(after)
  BY <1>5
<1>7. Chrono!Emptied(d, f) = after[N]
  BY ChronoSame DEF Chrono!Emptied, Chrono!FirstsDeleted, N
<1>8. \A n \in 0..N : after[n] = IF n = 0 THEN d ELSE Chrono!del_chrono(after[n - 1], 0, f)
  <2> HIDE DEF after
  <2> QED
    BY <1>6
<1> HIDE DEF after
<1>9. after[0] \in D
  BY <1>1, <1>8, <1>n
<1>10. ASSUME NEW n \in 1..N, after[n - 1] \in D PROVE after[n] \in D
  <2>1. after[n] = Chrono!del_chrono(after[n - 1], 0, f)
    BY <1>8, <1>n
  <2> QED
    BY <1>2, <1>10, <2>1
<1>11. \A n \in 0..N : after[n] \in D
  BY <1>9, <1>10, <1>n, HandedOn
<1> QED
  BY <1>1, <1>7, <1>11, <1>n

\* The database that lines make, one after another, no more than two records each.
LEMMA ChronoMade ==
  ASSUME NEW d, Chrono!Sound(d), NEW lines \in Seq(Chrono!Lines)
  PROVE  /\ Chrono!Sound(Chrono!Made(Chrono!add_chrono, d, lines))
         /\ Len(Chrono!Flat(Chrono!Made(Chrono!add_chrono, d, lines).recs))
              <= Len(Chrono!Flat(d.recs)) + 2 * Len(lines)
<1> DEFINE N == Len(lines)
           D == {e \in [recs : Seq(Chrono!Stored), hdr : Chrono!Hdrs] : Chrono!Sound(e)}
           g == [k \in 1..N |-> [e \in D |-> Chrono!add_chrono(e, lines[k])]]
           Body(h) == [n \in 0..N |-> IF n = 0 THEN d
                                      ELSE Chrono!add_chrono(h[n - 1], lines[n])]
           upTo == CHOOSE h : h = Body(h)
           size(e) == Len(Chrono!Flat(e.recs))
<1>1. \A e : e \in D <=> Chrono!Sound(e)
  BY DEF Chrono!Sound
<1>12. N \in Nat /\ \A k \in 1..N : lines[k] \in Chrono!Lines
  OBVIOUS
<1> HIDE DEF D
<1>7. Chrono!Made(Chrono!add_chrono, d, lines) = upTo[N]
  BY DEF Chrono!Made
<1>13. N = Len(lines)
  OBVIOUS
<1> HIDE DEF N
<1>2. \A k \in 1..N : \A e \in D : /\ Chrono!add_chrono(e, lines[k]) \in D
                                   /\ size(Chrono!add_chrono(e, lines[k])) <= size(e) + 2
  BY <1>1, <1>12, ChronoAdd
<1>14. \A e \in D : size(e) \in Nat
  BY <1>1, ChronoSoundType, WorkoutsStored, FlatSize
<1>3. g \in [1..N -> [D -> D]]
  BY <1>2
<1>4. PICK f : Recurs(f, D, N, d, g)
  <2> HIDE DEF g
  <2> QED
    BY <1>1, <1>3, <1>12, Recursion
<1>5. f = Body(f)
  <2>1. ASSUME NEW n \in 0..N, n # 0
        PROVE  g[n][f[n - 1]] = Chrono!add_chrono(f[n - 1], lines[n])
    <3>1. n \in 1..N /\ n - 1 \in 0..N
      BY <1>12, <2>1
    <3>2. f[n - 1] \in D
      BY <1>4, <3>1 DEF Recurs
    <3> QED
      BY <3>1, <3>2
  <2> HIDE DEF g
  <2> QED
    BY <1>4, <2>1 DEF Recurs
<1>6. upTo = Body(upTo)
  BY <1>5
<1>8. \A n \in 0..N : upTo[n] = IF n = 0 THEN d ELSE Chrono!add_chrono(upTo[n - 1], lines[n])
  <2> HIDE DEF upTo
  <2> QED
    BY <1>6
<1> HIDE DEF upTo, size
<1> DEFINE T == {n \in 0..N : upTo[n] \in D /\ size(upTo[n]) <= size(d) + 2 * n}
<1>9. 0 \in T
  <2>1. 0 \in 0..N /\ upTo[0] = d /\ d \in D
    BY <1>1, <1>8, <1>12
  <2>2. size(d) \in Nat /\ size(d) <= size(d) + 2 * 0
    BY <1>14, <2>1
  <2> QED
    BY <2>1, <2>2
<1>10. ASSUME NEW n \in 1..N, n - 1 \in T PROVE n \in T
  <2>1. upTo[n] = Chrono!add_chrono(upTo[n - 1], lines[n]) /\ n \in 0..N /\ n \in Nat
    BY <1>8, <1>12
  <2>2. upTo[n - 1] \in D /\ size(upTo[n - 1]) <= size(d) + 2 * (n - 1)
    BY <1>10
  <2>3. upTo[n] \in D /\ size(upTo[n]) <= size(upTo[n - 1]) + 2
    BY <1>2, <2>1, <2>2
  <2>4. size(upTo[n]) \in Nat /\ size(upTo[n - 1]) \in Nat /\ size(d) \in Nat
    BY <1>1, <1>14, <2>2, <2>3
  <2>5. size(upTo[n]) <= size(d) + 2 * n
    BY <2>1, <2>2, <2>3, <2>4
  <2> QED
    BY <2>1, <2>3, <2>5
<1> HIDE DEF T
<1>11. 0..N \subseteq T
  BY <1>9, <1>10, <1>12, InductiveUpTo
<1>15. upTo[N] \in D /\ size(upTo[N]) <= size(d) + 2 * N
  BY <1>11, <1>12 DEF T
<1> QED
  BY <1>1, <1>7, <1>13, <1>15 DEF size

\* What unused records are left of those asked for, in a byte again as asked for.
Left(used, n) == IF used + n > MAX_CHRONO_RECS THEN MAX_CHRONO_RECS - used ELSE n

LEMMA LeftType ==
  ASSUME NEW used \in 0..255, NEW n \in 0..255
  PROVE  /\ Left(used, n) \in Int /\ used + Left(used, n) \in 0..MAX_CHRONO_RECS
         /\ MAX_CHRONO_RECS \in 0..255
         /\ Left(used, n) <= n
         /\ used <= MAX_CHRONO_RECS => Left(used, n) \in 0..255
         /\ Chrono!U8(Left(used, n)) \in 0..255
         /\ Left(used, Chrono!U8(Left(used, n))) = Left(used, n)
<1> DEFINE x == Left(used, n)
           M == MAX_CHRONO_RECS
<1>1. M \in 0..255
  BY ChronoAssumption
<1>2. x = IF used + n > M THEN M - used ELSE n
  BY DEF Left
<1> HIDE DEF x, M
<1>3. x \in Int /\ used + x \in 0..M /\ x <= n /\ (used <= M => x \in 0..255)
  BY <1>1, <1>2
<1>4. x \in 0..255 \/ (x \in (-255)..(-1) /\ used + n > M /\ x = M - used)
  BY <1>1, <1>2
<1>5. Left(used, Chrono!U8(x)) = x
  <2>1. Left(used, Chrono!U8(x)) = IF used + Chrono!U8(x) > M THEN M - used ELSE Chrono!U8(x)
    BY DEF Left, M
  <2>2. CASE x \in 0..255
    <3>1. Chrono!U8(x) = x
      BY <2>2, ByteIs
    <3>2. (IF used + x > M THEN M - used ELSE x) = x
      BY <1>1, <1>2
    <3> QED
      BY <2>1, <3>1, <3>2
  <2>3. CASE x \in (-255)..(-1) /\ used + n > M /\ x = M - used
    <3>1. Chrono!U8(x) = x + 256
      <4>1. x % 256 = x + 256
        BY <2>3
      <4> QED
        BY <4>1 DEF Chrono!U8
    <3>2. used + (x + 256) > M
      BY <1>1, <2>3
    <3> QED
      BY <2>1, <2>3, <3>1, <3>2
  <2> QED
    BY <1>4, <2>2, <2>3
<1> QED
  BY <1>1, <1>3, <1>5, ByteType DEF x, M

\* The header update_chrono leaves.
Refreshed(d, n) ==
    LET used == d.hdr.used_recs
        total == used + Left(used, n)
        last == IF d.recs = << >> THEN 0 ELSE used - Len(Last(d.recs).laps) - 1
    IN [num_recs |-> total, display_format |-> d.hdr.display_format,
        unused_recs |-> Chrono!U8(Left(used, n)), max_recs |-> Chrono!U8(total),
        used_recs |-> used, last_workout |-> Chrono!U8(last), stored_rec |-> used,
        db_size |-> 17 + 5 * total, alloc_size |-> alloc(17 + 5 * total)]

LEMMA ChronoUpdate ==
  ASSUME NEW d, Chrono!Sound(d), NEW n \in 0..255
  PROVE  /\ Chrono!update_chrono(d, n) = [recs |-> d.recs, hdr |-> Refreshed(d, n)]
         /\ Chrono!Sound(Chrono!update_chrono(d, n))
         /\ Chrono!update_chrono(Chrono!update_chrono(d, n), Refreshed(d, n).unused_recs)
              = Chrono!update_chrono(d, n)
<1> DEFINE last(e) == IF e.recs = << >> THEN 0
                      ELSE e.hdr.used_recs - Len(Last(e.recs).laps) - 1
<1>1. ASSUME NEW e, Chrono!Sound(e), NEW k \in 0..255
      PROVE  /\ Chrono!update_chrono(e, k) = [recs |-> e.recs, hdr |-> Refreshed(e, k)]
             /\ Chrono!Sound(Chrono!update_chrono(e, k))
  <2> DEFINE h == e.hdr
             used == h.used_recs
             x == Left(used, k)
             total == used + x
             size == 17 + 5 * total
             l == last(e)
  <2>1. /\ e = [recs |-> e.recs, hdr |-> h] /\ h \in Chrono!Hdrs /\ e.recs \in Seq(Workouts)
        /\ used = Chrono!U8(Len(Chrono!Flat(e.recs)))
    BY <1>1, ChronoSoundType
  <2>2. used \in 0..255 /\ h.display_format \in Displays \cup {0}
    BY <2>1 DEF Chrono!Hdrs
  <2>3. Chrono!update_chrono(e, k) = [recs |-> e.recs, hdr |-> Refreshed(e, k)]
    <3>1. Chrono!Last(e.recs) = Last(e.recs)
      BY DEF Chrono!Last, Last
    <3> QED
      BY <3>1, ChronoSame DEF Chrono!update_chrono, Left, Chrono!HDR, Refreshed
  <2>5. x \in Int /\ total \in 0..MAX_CHRONO_RECS /\ MAX_CHRONO_RECS \in 0..255
        /\ Chrono!U8(x) \in 0..255 /\ total \in Int
    <3> HIDE DEF used
    <3>1. x \in Int /\ used + x \in 0..MAX_CHRONO_RECS /\ MAX_CHRONO_RECS \in 0..255
          /\ Chrono!U8(x) \in 0..255
      BY <2>2, LeftType
    <3> HIDE DEF x
    <3> QED
      BY <3>1
  <2>6. l \in Int
    <3>1. CASE e.recs = << >>
      BY <3>1
    <3>2. CASE e.recs # << >>
      <4> DEFINE s == e.recs
      <4>1. s \in Seq(Workouts) /\ s # << >>
        BY <2>1, <3>2
      <4>2. Len(s) \in Nat /\ s[Len(s)] \in Chrono!Stored
        <5> HIDE DEF s
        <5>1. Len(s) \in 1..Len(s)
          BY <4>1
        <5> QED
          BY <4>1, <5>1, WorkoutsStored
      <4>3. Last(s) \in Chrono!Stored
        BY <4>2 DEF Last
      <4>4. Len(Last(s).laps) \in Int
        BY <4>3, WorkoutType
      <4>5. used - Len(Last(s).laps) - 1 \in Int
        <5> DEFINE y == Len(Last(s).laps)
        <5>1. y \in Int /\ used \in Int
          BY <2>2, <4>4
        <5> HIDE DEF y, used
        <5>2. used - y - 1 \in Int
          BY <5>1
        <5> QED
          BY <5>2 DEF y
      <4> QED
        BY <3>2, <4>5
    <3> QED
      BY <3>1, <3>2
  <2>7. size \in Nat \ {0}
    <3> HIDE DEF total
    <3> QED
      BY <2>5
  <2>8. alloc(size) \in Int /\ size \in Int
    <3> HIDE DEF size
    <3> QED
      BY <2>7, AllocHolds
  <2>9. Chrono!U8(total) \in 0..255 /\ Chrono!U8(l) \in 0..255
    <3> HIDE DEF total, l
    <3> QED
      BY <2>5, <2>6, ByteType
  <2>10. Refreshed(e, k) \in Chrono!Hdrs /\ Refreshed(e, k).used_recs = used
    <3>1. Refreshed(e, k)
            = [num_recs |-> total, display_format |-> h.display_format,
               unused_recs |-> Chrono!U8(x), max_recs |-> Chrono!U8(total),
               used_recs |-> used, last_workout |-> Chrono!U8(l), stored_rec |-> used,
               db_size |-> size, alloc_size |-> alloc(size)]
      BY DEF Refreshed
    <3> HIDE DEF total, l, size, x, used
    <3> QED
      BY <2>2, <2>5, <2>8, <2>9, <3>1 DEF Chrono!Hdrs
  <2>11. Chrono!Sound([recs |-> e.recs, hdr |-> Refreshed(e, k)])
    BY <2>1, <2>10, ChronoSoundType
  <2> QED
    BY <2>3, <2>11
<1> DEFINE e == [recs |-> d.recs, hdr |-> Refreshed(d, n)]
           used == d.hdr.used_recs
           k == Chrono!U8(Left(used, n))
<1>2. Chrono!update_chrono(d, n) = e /\ Chrono!Sound(e)
  BY <1>1
<1>3. /\ e.recs = d.recs /\ e.hdr.used_recs = used /\ e.hdr.unused_recs = k
      /\ e.hdr.display_format = d.hdr.display_format
  BY DEF Refreshed
<1>4. used \in 0..255
  BY ChronoSoundType DEF Chrono!Hdrs
<1>5. k \in 0..255 /\ Left(used, k) = Left(used, n)
  BY <1>4, LeftType
<1>6. Refreshed(e, k) = Refreshed(d, n)
  <2> HIDE DEF e, k
  <2> QED
    BY <1>3, <1>5 DEF Refreshed, k
<1>7. e.hdr = Refreshed(d, n)
  OBVIOUS
<1> HIDE DEF e, k
<1>8. Chrono!update_chrono(e, k) = [recs |-> e.recs, hdr |-> Refreshed(e, k)]
  BY <1>1, <1>2, <1>5
<1>9. Chrono!update_chrono(e, k) = e
  BY <1>3, <1>6, <1>8 DEF e
<1> QED
  BY <1>1, <1>2, <1>3, <1>7, <1>9

\* The records and blank ones behind them.
LEMMA ChronoKept ==
  ASSUME NEW d, Chrono!Sound(d), Len(Chrono!Flat(d.recs)) < 256
  PROVE  /\ Keeps(Chrono!create_chrono(d), d.recs)
         /\ Chrono!create_chrono(d).hdr = d.hdr
         /\ d.hdr.num_recs >= Len(Chrono!Flat(d.recs)) =>
              Len(Chrono!create_chrono(d).slots) = d.hdr.num_recs
<1> DEFINE t == Chrono!Flat(d.recs)
           n == d.hdr.num_recs
           m == n - Len(t)
           z == [j \in 1..m |-> Chrono!Zero]
           im == Chrono!create_chrono(d)
<1>1. /\ d.hdr \in Chrono!Hdrs /\ d.recs \in Seq(Workouts)
      /\ d.hdr.used_recs = Chrono!U8(Len(t))
  BY ChronoSoundType
<1>2. t \in Seq(Slots) /\ Len(t) \in Nat /\ d.recs \in Seq(Chrono!Stored)
  BY <1>1, WorkoutsStored, FlatSize
<1>3. n \in Int
  BY <1>1 DEF Chrono!Hdrs
<1>4. d.hdr.used_recs = Len(t)
  <2>1. Len(t) \in 0..255
    <3>1. Len(t) < 256 /\ Len(t) \in Nat
      BY <1>2
    <3>2. \A x \in Nat : x < 256 => x \in 0..255
      OBVIOUS
    <3> HIDE DEF t
    <3> QED
      BY <3>1, <3>2
  <2> HIDE DEF t
  <2> QED
    BY <1>1, <2>1, ByteIs
<1>5. im = [hdr |-> d.hdr, slots |-> t \o z]
  BY DEF Chrono!create_chrono
<1> HIDE DEF t, n, im
<1>6. m \in Int
  BY <1>2, <1>3
<1> HIDE DEF m
<1>7. z \in Seq(Slots) /\ (m >= 0 => Len(z) = m) /\ Len(z) \in Nat
  <2>1. Chrono!Zero \in Slots
    BY DEF Chrono!Zero, Slots, Laplike
  <2>2. CASE m >= 0
    <3>1. z \in [1..m -> Slots] /\ m \in Nat
      BY <1>6, <2>1, <2>2
    <3> HIDE DEF z
    <3>2. z \in Seq(Slots) /\ Len(z) = m
      BY <3>1, SeqDef
    <3> QED
      BY <3>1, <3>2
  <2>3. CASE ~(m >= 0)
    <3>1. 1..m = {}
      BY <1>6, <2>3
    <3>2. z = << >>
      BY <3>1
    <3>3. z \in Seq(Slots) /\ Len(z) = 0
      <4> HIDE DEF z
      <4> QED
        BY <3>2
    <3>4. Len(z) \in Nat
      <4> HIDE DEF z
      <4> QED
        BY <3>3
    <3> QED
      BY <2>3, <3>3, <3>4
  <2> QED
    BY <2>2, <2>3
<1> HIDE DEF z
<1>8. /\ t \o z \in Seq(Slots) /\ Len(t \o z) = Len(t) + Len(z)
      /\ \A j \in 1..Len(t) : (t \o z)[j] = t[j]
  BY <1>2, <1>7
<1>9. Keeps(im, d.recs)
  <2>1. Len(t) <= Len(t \o z)
    BY <1>2, <1>7, <1>8
  <2> QED
    BY <1>4, <1>5, <1>8, <2>1 DEF Keeps, t
<1>10. n >= Len(t) => Len(im.slots) = n
  <2>1. n >= Len(t) => Len(t) + Len(z) = n
    BY <1>2, <1>3, <1>7 DEF m
  <2> QED
    BY <1>5, <1>8, <2>1
<1> QED
  BY <1>5, <1>9, <1>10 DEF n, t, im

LEMMA ChronoReads ==
  ASSUME NEW d, Chrono!Sound(d), Len(Chrono!Flat(d.recs)) < 256
  PROVE  Chrono!read_chrono_mem(Chrono!create_chrono(d)) = d
<1> DEFINE im == Chrono!create_chrono(d)
<1>1. d = [recs |-> d.recs, hdr |-> d.hdr] /\ d.recs \in Seq(Chrono!Stored)
  BY ChronoSoundType, WorkoutsStored
<1>2. Keeps(im, d.recs) /\ im.hdr = d.hdr
  BY ChronoKept
<1> HIDE DEF im
<1>3. Chrono!read_chrono_mem(im) = [hdr |-> im.hdr, recs |-> d.recs]
  BY <1>1, <1>2, ChronoReadsWhatIsKept
<1> QED
  BY <1>1, <1>2, <1>3 DEF im

\* More bytes take no fewer pages.
LEMMA AllocGrows ==
  ASSUME NEW x \in Nat \ {0}, NEW y \in Nat \ {0}, x <= y
  PROVE  alloc(x) <= alloc(y)
<1> DEFINE p == PAGE_SIZE
           q == (x - 1) \div p
           r == (y - 1) \div p
<1>1. p \in Nat \ {0}
  BY SizesAssumption
<1>2. x - 1 \in Nat /\ y - 1 \in Nat /\ x - 1 <= y - 1
  OBVIOUS
<1>3. q \in Nat /\ q * p <= x - 1
  BY <1>1, <1>2
<1>4. r \in Nat /\ y - 1 < (r + 1) * p
  BY <1>1, <1>2
<1>5. alloc(x) = (q + 1) * p /\ alloc(y) = (r + 1) * p
  BY DEF alloc
<1> HIDE DEF p, q, r
<1>6. \A i, j, k \in Nat : i <= j => i * k <= j * k
  OBVIOUS
<1>7. q <= r
  <2>1. SUFFICES ASSUME r + 1 <= q PROVE FALSE
    BY <1>3, <1>4
  <2>2. (r + 1) * p <= q * p
    BY <1>1, <1>3, <1>4, <1>6, <2>1
  <2>3. (r + 1) * p \in Nat /\ q * p \in Nat
    BY <1>1, <1>3, <1>4
  <2> QED
    BY <1>2, <1>3, <1>4, <2>2, <2>3
<1>8. q + 1 \in Nat /\ r + 1 \in Nat /\ q + 1 <= r + 1
  BY <1>3, <1>4, <1>7
<1>9. (q + 1) * p <= (r + 1) * p
  BY <1>1, <1>6, <1>8
<1> QED
  BY <1>5, <1>9

\* What there is memory for is counted in a byte.
LEMMA ChronoCounts ==
  ASSUME NEW d, Chrono!Sound(d), NEW n \in 0..255,
         17 + 5 * Len(Chrono!Flat(d.recs)) <= Refreshed(d, n).alloc_size
  PROVE  Len(Chrono!Flat(d.recs)) < 256
<1> DEFINE N == Len(Chrono!Flat(d.recs))
           used == d.hdr.used_recs
           total == used + Left(used, n)
           M == MAX_CHRONO_RECS
           x == 17 + 5 * total
           y == 17 + 5 * M
<1>1. used \in 0..255
  BY ChronoSoundType DEF Chrono!Hdrs
<1>2. total \in 0..M /\ M \in 0..255
  <2> HIDE DEF used
  <2> QED
    BY <1>1, LeftType
<1>3. Refreshed(d, n).alloc_size = alloc(x)
  BY DEF Refreshed
<1>4. N \in Nat
  BY ChronoSoundType, WorkoutsStored, FlatSize
<1>5. alloc(y) < 17 + 5 * 256
  BY RoomAssumption, ChronoSame DEF Chrono!HDR
<1> HIDE DEF total, M, N
<1>6. x \in Nat \ {0} /\ y \in Nat \ {0} /\ x <= y
  BY <1>2
<1> HIDE DEF x, y
<1>7. alloc(x) <= alloc(y) /\ alloc(x) \in Nat /\ alloc(y) \in Nat
  BY <1>6, AllocGrows, AllocHolds
<1>8. 17 + 5 * N <= alloc(x)
  BY <1>3 DEF N
<1>9. N < 256
  BY <1>4, <1>5, <1>7, <1>8
<1> QED
  BY <1>9 DEF N

\* What update_chrono leaves is stored, read back, and updated to no effect.
StoredInv(im) ==
    LET d == Chrono!read_chrono_mem(im)
    IN /\ Chrono!Sound(d) /\ Len(Chrono!Flat(d.recs)) < 256
       /\ im = Chrono!create_chrono(d)
       /\ d = Chrono!update_chrono(d, d.hdr.unused_recs)

LEMMA ChronoStores ==
  ASSUME NEW d, Chrono!Sound(d), Len(Chrono!Flat(d.recs)) < 256, NEW n \in 0..255
  PROVE  StoredInv(Chrono!create_chrono(Chrono!update_chrono(d, n)))
<1> DEFINE e == Chrono!update_chrono(d, n)
           im == Chrono!create_chrono(e)
<1>1. /\ e = [recs |-> d.recs, hdr |-> Refreshed(d, n)] /\ Chrono!Sound(e)
      /\ Chrono!update_chrono(e, Refreshed(d, n).unused_recs) = e
  BY ChronoUpdate
<1> HIDE DEF e
<1>2. e.recs = d.recs /\ e.hdr = Refreshed(d, n)
  BY <1>1
<1>3. Chrono!read_chrono_mem(im) = e
  BY <1>1, <1>2, ChronoReads
<1> HIDE DEF im
<1> QED
  BY <1>1, <1>2, <1>3 DEF StoredInv, im, e

StaticType == [unused_recs : MIN_CHRONO_RECS..MAX_CHRONO_RECS]

LEMMA ChronoInv ==
  Chrono!SoundInv <=>
    /\ StoredInv(image)
    /\ IF prog \in {"add", "del", "new"} THEN Chrono!Sound(db) /\ static \in StaticType
       ELSE db = Chrono!Closed
  BY DEF Chrono!SoundInv, StoredInv, Chrono!Holding, StaticType

\* SoundInv of the next state, from what is stored and held there.
LEMMA ChronoNextState ==
  ASSUME StoredInv(image'),
         prog' \in {"add", "del", "new"} => Chrono!Sound(db') /\ static' \in StaticType,
         prog' \notin {"add", "del", "new"} => db' = Chrono!Closed
  PROVE  Chrono!SoundInv'
  BY DEF Chrono!SoundInv, StoredInv, Chrono!Holding, StaticType, Chrono!Closed

LEMMA ChronoNumbers ==
  /\ \A n \in Chrono!Numbers : n \in MIN_CHRONO_RECS..MAX_CHRONO_RECS /\ n \in 0..255
  /\ \A s \in StaticType : s.unused_recs \in 0..255
  /\ MIN_CHRONO_RECS \in 0..255
<1>1. MIN_CHRONO_RECS \in Nat /\ MAX_CHRONO_RECS \in MIN_CHRONO_RECS..255 /\ Recs \subseteq Int
  BY ChronoAssumption
<1>2. \A n \in Recs : Chrono!set_chrono_unused_recs(n) \in MIN_CHRONO_RECS..MAX_CHRONO_RECS
  BY <1>1 DEF Chrono!set_chrono_unused_recs
<1>3. \A n \in MIN_CHRONO_RECS..MAX_CHRONO_RECS : n \in 0..255
  BY <1>1
<1>4. \A n \in Chrono!Numbers : n \in MIN_CHRONO_RECS..MAX_CHRONO_RECS
  BY <1>2 DEF Chrono!Numbers
<1>5. MIN_CHRONO_RECS \in 0..255
  BY <1>1
<1> QED
  BY <1>3, <1>4, <1>5 DEF StaticType

\* What the watch has at the start.
LEMMA ChronoStart ==
  ASSUME Chrono!Init
  PROVE  Chrono!SoundInv
<1> DEFINE Start(f, lines) ==
             Chrono!Made(Chrono!add_chrono, Chrono!init_chrono(MIN_CHRONO_RECS, f), lines)
<1>1. PICK k \in 0..2 : \E lines \in [1..k -> Laps], f \in Displays :
         image = Chrono!create_chrono(Chrono!update_chrono(Start(f, lines), MIN_CHRONO_RECS))
  BY DEF Chrono!Init, Chrono!Ascending
<1>2. PICK lines \in [1..k -> Laps], f \in Displays :
         image = Chrono!create_chrono(Chrono!update_chrono(Start(f, lines), MIN_CHRONO_RECS))
  BY <1>1
<1>3. lines \in Seq(Chrono!Lines) /\ Len(lines) = k /\ k \in Nat /\ k <= 2
  <2>1. k \in Nat /\ lines \in [1..k -> Chrono!Lines]
    BY LapsAssumption
  <2> QED
    BY <2>1, SeqDef
<1> DEFINE d0 == Chrono!init_chrono(MIN_CHRONO_RECS, f)
           d == Start(f, lines)
<1>4. Chrono!Sound(d0) /\ Len(Chrono!Flat(d0.recs)) = 0
  BY ChronoNumbers, ChronoNew
<1>5. Chrono!Sound(d) /\ Len(Chrono!Flat(d.recs)) <= Len(Chrono!Flat(d0.recs)) + 2 * Len(lines)
  <2> HIDE DEF d0
  <2> QED
    BY <1>3, <1>4, ChronoMade DEF d0
<1>6. image = Chrono!create_chrono(Chrono!update_chrono(d, MIN_CHRONO_RECS))
  BY <1>2
<1> HIDE DEF d, d0
<1>7. Len(Chrono!Flat(d.recs)) < 256
  <2>1. Len(Chrono!Flat(d.recs)) <= 0 + 2 * k
    BY <1>3, <1>4, <1>5
  <2>2. Len(Chrono!Flat(d.recs)) \in Nat
    BY <1>5, ChronoSoundType, WorkoutsStored, FlatSize
  <2> QED
    BY <1>3, <2>1, <2>2
<1>8. StoredInv(image)
  BY <1>5, <1>6, <1>7, ChronoNumbers, ChronoStores
<1>9. prog = "closed" /\ db = Chrono!Closed
  BY DEF Chrono!Init, Chrono!Started
<1> QED
  BY <1>8, <1>9, ChronoInv

\* A step of a program on d.
LEMMA ChronoEdits ==
  ASSUME Chrono!SoundInv, UNCHANGED image,
         prog' \in {"add", "del", "new"} => Chrono!Sound(db') /\ static' \in StaticType,
         prog' \notin {"add", "del", "new"} => db' = Chrono!Closed
  PROVE  Chrono!SoundInv'
<1>1. StoredInv(image)
  BY ChronoInv
<1>2. image' = image
  OBVIOUS
<1> QED
  BY <1>1, <1>2, ChronoNextState

LEMMA ChronoHolds ==
  ASSUME Chrono!SoundInv, prog \in {"add", "del", "new"}
  PROVE  Chrono!Sound(db) /\ static \in StaticType
  BY ChronoInv

LEMMA LapsCounted ==
  ASSUME NEW d, Chrono!Sound(d)
  PROVE  Sum(Chrono!NumLaps(d.recs)) \in Nat
<1> DEFINE s == d.recs
           lens == Chrono!NumLaps(s)
<1>1. Len(s) \in Nat /\ DOMAIN s = 1..Len(s) /\ \A j \in 1..Len(s) : s[j] \in Chrono!Stored
  BY ChronoSoundType, WorkoutsStored
<1>2. lens = [j \in 1..Len(s) |-> Len(s[j].laps)]
  BY <1>1 DEF Chrono!NumLaps
<1>3. \A j \in 1..Len(s) : Len(s[j].laps) \in Nat
  BY <1>1, WorkoutType
<1>4. lens \in Seq(Nat)
  <2>1. lens \in [1..Len(s) -> Nat]
    BY <1>2, <1>3
  <2> QED
    BY <1>1, <2>1, SeqDef
<1> QED
  BY <1>4, SumType

LEMMA ChronoNext ==
  ASSUME Chrono!SoundInv, Chrono!Next
  PROVE  Chrono!SoundInv'
<1>1. CASE Chrono!Open
  <2>1. PICK n \in Chrono!Numbers, tool \in {"add", "del"} :
           /\ db' = Chrono!read_chrono_mem(image) /\ UNCHANGED image
           /\ static' = [unused_recs |-> n] /\ prog' = tool
    BY <1>1 DEF Chrono!Open, Chrono!Opens
  <2>2. Chrono!Sound(db')
    BY <2>1, ChronoInv DEF StoredInv
  <2>3. static' \in StaticType
    BY <2>1, ChronoNumbers DEF StaticType
  <2> QED
    BY <2>1, <2>2, <2>3, ChronoEdits
<1>2. CASE Chrono!Create
  <2>1. PICK n \in Chrono!Numbers :
           /\ db' = Chrono!init_chrono(n, 0) /\ UNCHANGED image
           /\ static' = [unused_recs |-> n] /\ prog' = "new"
    BY <1>2 DEF Chrono!Create, Chrono!Creates
  <2>2. Chrono!Sound(db')
    BY <2>1, ChronoNumbers, ChronoNew
  <2>3. static' \in StaticType
    BY <2>1, ChronoNumbers DEF StaticType
  <2> QED
    BY <2>1, <2>2, <2>3, ChronoEdits
<1>3. CASE Chrono!AddLine
  <2>1. PICK c \in Laps :
           /\ db' = Chrono!add_chrono_file(db, c) /\ UNCHANGED <<image, prog, static>>
           /\ prog \in {"add", "del", "new"}
    BY <1>3 DEF Chrono!AddLine, Chrono!Edits, Chrono!Adders
  <2>2. Chrono!Sound(db') /\ static' \in StaticType
    BY <2>1, LapsAssumption, ChronoHolds, ChronoFiles
  <2> QED
    BY <2>1, <2>2, ChronoEdits
<1>4. CASE Chrono!AddOptions
  <2>1. PICK c \in Laps :
           /\ db' = Chrono!add_chrono(db, c) /\ UNCHANGED <<image, prog, static>>
           /\ prog \in {"add", "del", "new"}
    BY <1>4 DEF Chrono!AddOptions, Chrono!Edits
  <2>2. Chrono!Sound(db') /\ static' \in StaticType
    BY <2>1, LapsAssumption, ChronoHolds, ChronoAdd
  <2> QED
    BY <2>1, <2>2, ChronoEdits
<1>5. CASE Chrono!DisplayLine
  <2>1. PICK f \in Displays :
           /\ db' = Chrono!update_chrono_display_format(db, f)
           /\ UNCHANGED <<image, prog, static>> /\ prog \in {"add", "del", "new"}
    BY <1>5 DEF Chrono!DisplayLine, Chrono!Edits, Chrono!Adders
  <2>2. Chrono!Sound(db') /\ static' \in StaticType
    BY <2>1, ChronoHolds, ChronoDisplay
  <2> QED
    BY <2>1, <2>2, ChronoEdits
<1>6. ASSUME UNCHANGED image, prog' \notin {"add", "del", "new"}, db' = Chrono!Closed
      PROVE  Chrono!SoundInv'
  BY <1>6, ChronoEdits
<1>7. CASE Chrono!DelLine
  <2>1. CASE Chrono!Stops("dead")
    BY <1>6, <2>1 DEF Chrono!Stops
  <2>2. CASE ~Chrono!Stops("dead")
    <3>1. PICK c \in Laps, f \in Freed :
             /\ db' = Chrono!del_chrono_file(db, c, f) /\ UNCHANGED <<image, prog, static>>
             /\ prog \in {"add", "del", "new"}
      BY <1>7, <2>2 DEF Chrono!DelLine, Chrono!Edits
    <3>2. Chrono!Sound(db') /\ static' \in StaticType
      BY <3>1, LapsAssumption, ChronoHolds, ChronoFiles
    <3> QED
      BY <3>1, <3>2, ChronoEdits
  <2> QED
    BY <2>1, <2>2
<1>8. CASE Chrono!DeleteAll
  <2>1. CASE Chrono!Stops("dead")
    BY <1>6, <2>1 DEF Chrono!Stops
  <2>2. CASE ~Chrono!Stops("dead")
    <3>1. PICK f \in Freed :
          /\ db' = Chrono!Emptied(db, f)
          /\ UNCHANGED <<image, prog, static>> /\ prog \in {"add", "del", "new"}
      BY <1>8, <2>2, ChronoSame DEF Chrono!DeleteAll, Chrono!Edits
    <3>2. Chrono!Sound(db) /\ static \in StaticType
      BY <3>1, ChronoHolds
    <3>3. Sum(Chrono!NumLaps(db.recs)) \in Nat
      BY <3>2, LapsCounted
    <3>4. Chrono!Sound(db')
      BY <3>1, <3>2, <3>3, ChronoEmptied
    <3> QED
      BY <3>1, <3>2, <3>4, ChronoEdits
  <2> QED
    BY <2>1, <2>2
<1>9. CASE Chrono!Save
  <2> DEFINE n == static.unused_recs
             e == Chrono!update_chrono(db, n)
  <2>1. prog \in {"add", "del", "new"}
    BY <1>9 DEF Chrono!Save, Chrono!Holding
  <2>2. Chrono!Sound(db) /\ n \in 0..255
    BY <2>1, ChronoHolds, ChronoNumbers
  <2>3. e.recs = db.recs /\ e.hdr = Refreshed(db, n)
    <3>1. e = [recs |-> db.recs, hdr |-> Refreshed(db, n)]
      <4> HIDE DEF n
      <4> QED
        BY <2>2, ChronoUpdate
    <3> HIDE DEF e
    <3> QED
      BY <3>1
  <2>4. CASE 17 + 5 * Len(Chrono!Flat(e.recs)) <= e.hdr.alloc_size
    <3>1. image' = Chrono!create_chrono(e) /\ prog' = "closed" /\ db' = Chrono!Closed
      BY <1>9, <2>4 DEF Chrono!Save, Chrono!Saves, Chrono!HDR
    <3>2. Len(Chrono!Flat(db.recs)) < 256
      <4> HIDE DEF e, n
      <4> QED
        BY <2>2, <2>3, <2>4, ChronoCounts
    <3>3. StoredInv(image')
      <4> HIDE DEF n
      <4> QED
        BY <2>2, <3>1, <3>2, ChronoStores
    <3> QED
      BY <3>1, <3>3, ChronoNextState
  <2>5. CASE ~(17 + 5 * Len(Chrono!Flat(e.recs)) <= e.hdr.alloc_size)
    <3>1. Chrono!Stops("dead")
      BY <1>9, <2>5 DEF Chrono!Save, Chrono!HDR
    <3> QED
      BY <1>6, <3>1 DEF Chrono!Stops
  <2> QED
    BY <2>4, <2>5
<1>10. CASE Chrono!Leave
  BY <1>6, <1>10 DEF Chrono!Leave, Chrono!Quit, Chrono!Stops
<1> QED
  BY <1>1, <1>2, <1>3, <1>4, <1>5, <1>7, <1>8, <1>9, <1>10 DEF Chrono!Next

\* The records of the watch fit in the size of the header, which counts them and
\* points to the last workout.
LEMMA ChronoFits ==
  ASSUME Chrono!SoundInv
  PROVE  Chrono!Fits /\ Chrono!HeaderAgrees
<1> DEFINE d == Chrono!read_chrono_mem(image)
           s == d.recs
           h == d.hdr
           N == Len(Chrono!Flat(s))
           x == Left(h.used_recs, h.unused_recs)
           M == MAX_CHRONO_RECS
<1>1. /\ Chrono!Sound(d) /\ N < 256 /\ image = Chrono!create_chrono(d)
      /\ d = Chrono!update_chrono(d, h.unused_recs)
  BY ChronoInv DEF StoredInv
<1> HIDE DEF d
<1>2. /\ h \in Chrono!Hdrs /\ s \in Seq(Workouts) /\ h.used_recs = Chrono!U8(N)
  BY <1>1, ChronoSoundType
<1>3. s \in Seq(Chrono!Stored) /\ N \in Nat
  BY <1>2, WorkoutsStored, FlatSize
<1>4. /\ Keeps(image, s) /\ image.hdr = h
      /\ h.num_recs >= N => Len(image.slots) = h.num_recs
  BY <1>1, ChronoKept
<1>5. h.unused_recs \in 0..255 /\ h.used_recs \in 0..255
  BY <1>2 DEF Chrono!Hdrs
<1>6. h = Refreshed(d, h.unused_recs)
  <2> DEFINE u == h.unused_recs
             g == Refreshed(d, u)
  <2>1. d = [recs |-> s, hdr |-> g]
    <3>1. u \in 0..255 /\ d = Chrono!update_chrono(d, u)
      BY <1>1, <1>5
    <3> HIDE DEF u
    <3> QED
      BY <1>1, <3>1, ChronoUpdate
  <2> HIDE DEF g
  <2>2. d.hdr = g
    BY <2>1
  <2> QED
    BY <2>2 DEF g
<1>7. h.used_recs = N
  BY <1>4 DEF Keeps
<1>8. /\ h.num_recs = N + x /\ h.unused_recs = Chrono!U8(x)
      /\ h.db_size = 17 + 5 * (N + x) /\ h.alloc_size = alloc(17 + 5 * (N + x))
      /\ h.last_workout = Chrono!U8(IF s = << >> THEN 0 ELSE N - Len(Last(s).laps) - 1)
  <2> HIDE DEF N
  <2>1. Refreshed(d, h.unused_recs).num_recs = N + x
    BY <1>7 DEF Refreshed
  <2>2. Refreshed(d, h.unused_recs).unused_recs = Chrono!U8(x)
    BY DEF Refreshed
  <2>3. /\ Refreshed(d, h.unused_recs).db_size = 17 + 5 * (N + x)
        /\ Refreshed(d, h.unused_recs).alloc_size = alloc(17 + 5 * (N + x))
    BY <1>7 DEF Refreshed
  <2>4. Refreshed(d, h.unused_recs).last_workout
          = Chrono!U8(IF s = << >> THEN 0 ELSE N - Len(Last(s).laps) - 1)
    BY <1>7 DEF Refreshed
  <2> HIDE DEF x
  <2> QED
    BY <1>6, <2>1, <2>2, <2>3, <2>4
<1>9. /\ x \in Int /\ N + x \in 0..M /\ N \in 0..255
      /\ N <= M => x \in 0..255
  <2> DEFINE u == h.used_recs
             v == h.unused_recs
  <2>1. u \in 0..255 /\ v \in 0..255 /\ u = N /\ x = Left(u, v)
    BY <1>5, <1>7
  <2> HIDE DEF u, v, N, x
  <2>2. /\ Left(u, v) \in Int /\ u + Left(u, v) \in 0..M
        /\ u <= M => Left(u, v) \in 0..255
    BY <2>1, LeftType
  <2> QED
    BY <2>1, <2>2
<1> HIDE DEF x, M
<1>10. N <= M => x >= 0 /\ Chrono!U8(x) = x
  <2>1. N <= M => x \in 0..255
    BY <1>9
  <2>2. \A y \in 0..255 : y >= 0 /\ Chrono!U8(y) = y
    BY ByteIs
  <2> HIDE DEF N
  <2> QED
    BY <2>1, <2>2
<1>11. Chrono!Fits
  <2>1. N <= M => h.num_recs >= N
    BY <1>8, <1>9, <1>10
  <2>2. N <= M => 17 + 5 * Len(image.slots) <= h.db_size
    <3>1. N <= M => 17 + 5 * Len(image.slots) = h.db_size
      BY <1>4, <1>8, <2>1
    <3>2. h.db_size \in Nat
      BY <1>8, <1>9
    <3> QED
      BY <3>1, <3>2
  <2>3. h.db_size <= h.alloc_size
    <3> DEFINE y == 17 + 5 * (N + x)
    <3>1. y \in Nat \ {0}
      BY <1>9
    <3>2. h.db_size = y /\ h.alloc_size = alloc(y)
      BY <1>8
    <3> HIDE DEF y
    <3> QED
      BY <3>1, <3>2, AllocHolds
  <2> QED
    BY <1>4, <1>7, <2>2, <2>3 DEF Chrono!Fits, Chrono!HDR, M
<1>12. ASSUME s # << >>
       PROVE  /\ h.last_workout + 1 + Len(Last(s).laps) = N
              /\ image.slots[h.last_workout + 1].num_laps = Len(Last(s).laps)
  <2> DEFINE n == Len(s)
             r == Last(s)
             L == Len(r.laps)
  <2>1. PICK b : Found(image, s, b)
    BY <1>3, <1>4, KeptAreFound
  <2>2. n \in 1..n /\ n \in Nat
    <3> HIDE DEF s
    <3> QED
      BY <1>3, <1>12
  <2>3. r = s[n] /\ r \in Chrono!Stored
    <3>1. r = s[n]
      BY DEF Last
    <3> HIDE DEF s, r
    <3> QED
      BY <1>3, <2>2, <3>1
  <2>4. /\ b[n] = N /\ b[n - 1] \in Nat /\ b[n] = b[n - 1] + 1 + L
        /\ image.slots[b[n - 1] + 1] = Heading(r)
    BY <1>4, <1>7, <2>1, <2>2, <2>3 DEF Found
  <2>5. L \in Nat /\ Heading(r).num_laps = L
    BY <2>3, WorkoutType
  <2> DEFINE p == b[n - 1]
             l == h.last_workout
  <2>6. l = Chrono!U8(N - L - 1)
    BY <1>8, <1>12
  <2>7. p \in Nat /\ N = p + 1 + L /\ image.slots[p + 1] = Heading(r)
    BY <2>4
  <2> HIDE DEF N, L, p, l, r
  <2>8. N - L - 1 = p /\ p \in 0..255
    BY <1>9, <2>5, <2>7
  <2>9. l = p
    BY <2>6, <2>8, ByteIs
  <2>10. l + 1 + L = N
    BY <2>5, <2>7, <2>9
  <2> QED
    BY <2>5, <2>7, <2>9, <2>10 DEF L, l, r
<1>13. Chrono!HeaderAgrees
  <2>1. Chrono!Last(s) = Last(s)
    BY DEF Chrono!Last, Last
  <2>2. N <= M => N + h.unused_recs = h.num_recs
    BY <1>8, <1>10
  <2>3. image.hdr.used_recs = N /\ image.hdr = h
    BY <1>4, <1>7
  <2> QED
    BY <1>12, <2>1, <2>2, <2>3 DEF Chrono!HeaderAgrees, d, M
<1> QED
  BY <1>11, <1>13

\* The laps are numbered.
LEMMA ChronoNumbered ==
  ASSUME Chrono!SoundInv
  PROVE  Chrono!LapsNumbered(db.recs)
<1>1. CASE prog \notin {"add", "del", "new"}
  <2>1. db.recs = << >>
    BY <1>1, ChronoInv DEF Chrono!Closed
  <2> QED
    BY <2>1 DEF Chrono!LapsNumbered
<1>2. CASE prog \in {"add", "del", "new"}
  BY <1>2, ChronoHolds DEF Chrono!Sound
<1> QED
  BY <1>1, <1>2

Proved == INSTANCE ScheduleProofs

-----------------------------------------------------------------------------
(* The two instances *)

LEMMA SameSizes ==
  /\ \A m : Schedule!Space(m) = Proved!Space(m)
  /\ \A size : Schedule!alloc(size) = Proved!alloc(size)
  /\ \A s : Schedule!Sum(s) = Proved!Sum(s)
  /\ \A r : Schedule!Size(r) = Proved!Size(r)
  /\ \A hdr, n, size : Schedule!WithSize(hdr, n, size) = Proved!WithSize(hdr, n, size)
  BY DEF Schedule!Space, Proved!Space, Schedule!alloc, Proved!alloc, Schedule!Sum, Proved!Sum,
         Schedule!Size, Proved!Size, Schedule!WithSize, Proved!WithSize

LEMMA SamePlaces ==
  /\ \A d, m : Schedule!GroupOf(d, m) = Proved!GroupOf(d, m)
  /\ \A groups, g : Schedule!PutGroup(groups, g) = Proved!PutGroup(groups, g)
  /\ \A recs, r : Schedule!PutRec(recs, r) = Proved!PutRec(recs, r)
  /\ \A lens, i : Schedule!Position(lens, i) = Proved!Position(lens, i)
<1>1. \A d, m : Schedule!GroupOf(d, m) = Proved!GroupOf(d, m)
  BY DEF Schedule!GroupOf, Proved!GroupOf, Schedule!SelectInSeq, Proved!SelectInSeq,
         Schedule!Min, Proved!Min
<1>2. \A groups, g : Schedule!PutGroup(groups, g) = Proved!PutGroup(groups, g)
  BY DEF Schedule!PutGroup, Proved!PutGroup, Schedule!InsertBefore, Proved!InsertBefore,
         Schedule!SelectInSeq, Proved!SelectInSeq, Schedule!Min, Proved!Min,
         Schedule!InsertAt, Proved!InsertAt
<1>3. \A recs, r : Schedule!PutRec(recs, r) = Proved!PutRec(recs, r)
  BY DEF Schedule!PutRec, Proved!PutRec, Schedule!InsertBefore, Proved!InsertBefore,
         Schedule!SelectInSeq, Proved!SelectInSeq, Schedule!Min, Proved!Min,
         Schedule!InsertAt, Proved!InsertAt, Schedule!Before, Proved!Before
<1>4. \A lens, i : Schedule!Position(lens, i) = Proved!Position(lens, i)
  BY DEF Schedule!Position, Proved!Position, Schedule!Min, Proved!Min,
         Schedule!Sum, Proved!Sum
<1> QED
  BY <1>1, <1>2, <1>3, <1>4

LEMMA SameFind ==
  ASSUME NEW d, NEW s, NEW c
  PROVE  Schedule!find_schedule(d, s, c) = Proved!find_schedule(d, s, c)
  BY DEF Schedule!find_schedule, Proved!find_schedule, Schedule!GroupOf, Proved!GroupOf,
         Schedule!SelectInSeq, Proved!SelectInSeq, Schedule!Min, Proved!Min

LEMMA SameAdd ==
  ASSUME NEW d, NEW s, NEW c
  PROVE  Schedule!add_schedule(d, s, c) = Proved!add_schedule(d, s, c)
<1>1. Schedule!WithGroup(d, c.group) = Proved!WithGroup(d, c.group)
  BY SameSizes, SamePlaces DEF Schedule!WithGroup, Proved!WithGroup
<1>2. Schedule!Rec(c, s.group_type) = Proved!Rec(c, s.group_type)
  BY SameSizes DEF Schedule!Rec, Proved!Rec
<1> QED
  BY <1>1, <1>2, SameSizes, SamePlaces DEF Schedule!add_schedule, Proved!add_schedule

LEMMA SameDel ==
  ASSUME NEW d, NEW i
  PROVE  Schedule!del_schedule(d, i) = Proved!del_schedule(d, i)
<1>1. \A groups : Schedule!NumRecs(groups) = Proved!NumRecs(groups)
  BY DEF Schedule!NumRecs, Proved!NumRecs
<1>2. \A s, k : Schedule!RemoveAt(s, k) = Proved!RemoveAt(s, k)
  BY DEF Schedule!RemoveAt, Proved!RemoveAt
<1>3. \A g, k : Schedule!Shrunk(g, k) = Proved!Shrunk(g, k)
  BY <1>2, SameSizes DEF Schedule!Shrunk, Proved!Shrunk, Schedule!Resized, Proved!Resized
<1> QED
  BY <1>1, <1>2, <1>3, SameSizes, SamePlaces DEF Schedule!del_schedule, Proved!del_schedule

LEMMA SameLines ==
  ASSUME NEW d, NEW s, NEW c
  PROVE  /\ Schedule!add_schedule_file(d, s, c) = Proved!add_schedule_file(d, s, c)
         /\ Schedule!del_schedule_file(d, s, c) = Proved!del_schedule_file(d, s, c)
  BY SameFind, SameAdd, SameDel
  DEF Schedule!add_schedule_file, Proved!add_schedule_file,
      Schedule!del_schedule_file, Proved!del_schedule_file

LEMMA SameHeaders ==
  ASSUME NEW d, NEW m, NEW type
  PROVE  /\ Schedule!KeepsType(d, type) <=> Proved!KeepsType(d, type)
         /\ Schedule!Accepts(d, type) <=> Proved!Accepts(d, type)
         /\ Schedule!update_schedule_msg(d, m) = Proved!update_schedule_msg(d, m)
         /\ Schedule!update_schedule_group_type(d, type)
              = Proved!update_schedule_group_type(d, type)
         /\ Schedule!Described(d, m, type) = Proved!Described(d, m, type)
  BY DEF Schedule!KeepsType, Proved!KeepsType, Schedule!Accepts, Proved!Accepts,
         Schedule!update_schedule_msg, Proved!update_schedule_msg,
         Schedule!update_schedule_group_type, Proved!update_schedule_group_type,
         Schedule!Described, Proved!Described

LEMMA SameInit ==
  ASSUME NEW s
  PROVE  Schedule!init_schedule(s) = Proved!init_schedule(s)
  BY SameSizes DEF Schedule!init_schedule, Proved!init_schedule, Schedule!HDR, Proved!HDR

LEMMA SameCreate ==
  ASSUME NEW d
  PROVE  Schedule!create_schedule(d) = Proved!create_schedule(d)
  BY DEF Schedule!create_schedule, Proved!create_schedule, Schedule!Table, Proved!Table,
         Schedule!Offsets, Proved!Offsets, Schedule!Sum, Proved!Sum,
         Schedule!Range, Proved!Range, Schedule!HDR, Proved!HDR,
         Schedule!GroupAdd, Proved!GroupAdd, Schedule!Size, Proved!Size

LEMMA SameRead ==
  ASSUME NEW im
  PROVE  Schedule!read_schedule(im) = Proved!read_schedule(im)
  BY DEF Schedule!read_schedule, Proved!read_schedule, Schedule!Listed, Proved!Listed

LEMMA SameFilled ==
  ASSUME NEW s, NEW lines
  PROVE  Schedule!Filled(s, lines) = Proved!Filled(s, lines)
<1>1. \A d, c : Schedule!add_schedule(d, s, c) = Proved!add_schedule(d, s, c)
  BY SameAdd
<1>2. Schedule!init_schedule(s) = Proved!init_schedule(s)
  BY SameInit
<1> DEFINE first == Proved!init_schedule(s)
           N == Len(lines)
           Is(h) == h = [n \in 0..N |-> IF n = 0 THEN first
                                      ELSE Schedule!add_schedule(h[n - 1], s, lines[n])]
           Proves(h) == h = [n \in 0..N |-> IF n = 0 THEN first
                                          ELSE Proved!add_schedule(h[n - 1], s, lines[n])]
<1>3. Schedule!Filled(s, lines) = (CHOOSE h : Is(h))[N]
  BY <1>2 DEF Schedule!Filled, Schedule!Made
<1>4. Proved!Filled(s, lines) = (CHOOSE h : Proves(h))[N]
  BY DEF Proved!Filled, Proved!Made
<1>5. \A h : Is(h) <=> Proves(h)
  <2> HIDE DEF first, N
  <2> QED
    BY <1>1
<1> HIDE DEF Is, Proves, N
<1> QED
  BY <1>3, <1>4, <1>5

LEMMA SameEmptied ==
  ASSUME NEW d
  PROVE  Schedule!Emptied(d) = Proved!Emptied(d)
<1>1. \A e, i : Schedule!del_schedule(e, i) = Proved!del_schedule(e, i)
  BY SameDel
<1>2. Schedule!NumAll(d) = Proved!NumAll(d)
  BY SameSizes DEF Schedule!NumAll, Proved!NumAll, Schedule!NumRecs, Proved!NumRecs
<1> QED
  BY <1>1, <1>2 DEF Schedule!Emptied, Proved!Emptied,
                    Schedule!FirstsDeleted, Proved!FirstsDeleted

LEMMA SameSound ==
  ASSUME NEW d
  PROVE  Schedule!Sound(d) <=> Proved!Sound(d)
<1>1. \A type : Schedule!Groups(type) = Proved!Groups(type)
  BY DEF Schedule!Groups, Proved!Groups, Schedule!Sum, Proved!Sum, Schedule!alloc, Proved!alloc,
         Schedule!Sizes, Proved!Sizes, Schedule!Size, Proved!Size, Schedule!RecsOf, Proved!RecsOf,
         Schedule!RecsInOrder, Proved!RecsInOrder, Schedule!Before, Proved!Before
<1>2. Schedule!Hdrs = Proved!Hdrs
  BY DEF Schedule!Hdrs, Proved!Hdrs, Schedule!GroupTypes, Proved!GroupTypes
<1>3. \A groups : Schedule!Areas(groups) = Proved!Areas(groups)
  BY DEF Schedule!Areas, Proved!Areas
<1>4. \A groups : Schedule!GroupsInOrder(groups) <=> Proved!GroupsInOrder(groups)
  BY DEF Schedule!GroupsInOrder, Proved!GroupsInOrder
<1> QED
  BY <1>1, <1>2, <1>3, <1>4, SameSizes
  DEF Schedule!Sound, Proved!Sound, Schedule!Counted, Proved!Counted, Schedule!HDR, Proved!HDR

LEMMA SameSoundInv == Schedule!SoundInv <=> Proved!SoundInv
  BY SameSound, SameRead, SameCreate
  DEF Schedule!SoundInv, Proved!SoundInv, Schedule!Holding, Proved!Holding,
      Schedule!GroupTypes, Proved!GroupTypes

LEMMA SameFits == Schedule!Fits <=> Proved!Fits
  BY DEF Schedule!Fits, Proved!Fits, Schedule!TableFits, Proved!TableFits,
         Schedule!Packed, Proved!Packed, Schedule!Size, Proved!Size, Schedule!HDR, Proved!HDR

LEMMA SameInOrder == Schedule!InOrder <=> Proved!InOrder
<1>1. /\ \A recs : Schedule!RecsInOrder(recs) <=> Proved!RecsInOrder(recs)
      /\ \A groups : Schedule!GroupsInOrder(groups) <=> Proved!GroupsInOrder(groups)
  BY DEF Schedule!RecsInOrder, Proved!RecsInOrder, Schedule!Before, Proved!Before,
         Schedule!GroupsInOrder, Proved!GroupsInOrder
<1> QED
  BY <1>1, SameRead DEF Schedule!InOrder, Proved!InOrder

-----------------------------------------------------------------------------
(* Steps of the program *)

\* A step on the schedules is one of ScheduleDb.
LEMMA SameNext ==
  ASSUME Schedule!Next
  PROVE  Proved!Next /\ app = "schedule" /\ UNCHANGED app
<1>1. CASE Schedule!Open
  BY <1>1, SameRead DEF Schedule!Open, Proved!Open, Schedule!Here, Proved!Here,
                        Schedule!Opens, Proved!Opens, Proved!Next
<1>2. CASE Schedule!Create
  BY <1>2, SameInit DEF Schedule!Create, Proved!Create, Schedule!Here, Proved!Here,
                        Schedule!Creates, Proved!Creates, Proved!Next
<1>3. CASE Schedule!AddLine
  <2>1. Proved!AddLine
    BY <1>3, SameLines, SameFind, SameSizes
    DEF Schedule!AddLine, Proved!AddLine, Schedule!Here, Proved!Here,
        Schedule!Holding, Proved!Holding, Schedule!NumAll, Proved!NumAll,
        Schedule!NumRecs, Proved!NumRecs, Schedule!Edits, Proved!Edits,
        Schedule!Adders, Proved!Adders
  <2> QED
    BY <2>1 DEF Proved!AddLine, Proved!Here, Proved!Edits, Proved!Next
<1>4. CASE Schedule!HeaderLine
  <2>1. Proved!HeaderLine
    BY <1>4, SameHeaders
    DEF Schedule!HeaderLine, Proved!HeaderLine, Schedule!Here, Proved!Here,
        Schedule!GroupTypes, Proved!GroupTypes, Schedule!Edits, Proved!Edits,
        Schedule!Adders, Proved!Adders
  <2> QED
    BY <2>1 DEF Proved!HeaderLine, Proved!Here, Proved!Edits, Proved!Next
<1>5. CASE Schedule!DescOption
  BY <1>5, SameHeaders
  DEF Schedule!DescOption, Proved!DescOption, Schedule!Here, Proved!Here,
      Schedule!Edits, Proved!Edits, Schedule!Closing, Proved!Closing, Proved!Next
<1>6. CASE Schedule!TypeOption
  <2>1. Proved!TypeOption
    BY <1>6, SameHeaders
    DEF Schedule!TypeOption, Proved!TypeOption, Schedule!Here, Proved!Here,
        Schedule!GroupTypes, Proved!GroupTypes, Schedule!Edits, Proved!Edits
  <2> QED
    BY <2>1 DEF Proved!TypeOption, Proved!Here, Proved!Edits, Proved!Next
<1>7. CASE Schedule!DelLine
  <2>1. Proved!DelLine
    BY <1>7, SameLines, SameFind
    DEF Schedule!DelLine, Proved!DelLine, Schedule!Here, Proved!Here,
        Schedule!Holding, Proved!Holding, Schedule!Edits, Proved!Edits
  <2> QED
    BY <2>1 DEF Proved!DelLine, Proved!Here, Proved!Edits, Proved!Next
<1>8. CASE Schedule!DeleteAll
  BY <1>8, SameEmptied
  DEF Schedule!DeleteAll, Proved!DeleteAll, Schedule!Here, Proved!Here,
      Schedule!Edits, Proved!Edits, Proved!Next
<1>9. CASE Schedule!Save
  BY <1>9, SameCreate
  DEF Schedule!Save, Proved!Save, Schedule!Here, Proved!Here, Schedule!Holding, Proved!Holding,
      Schedule!Saves, Proved!Saves, Schedule!Closed, Proved!Closed, Proved!Next
<1>10. CASE Schedule!Leave
  BY <1>10
  DEF Schedule!Leave, Proved!Leave, Schedule!Here, Proved!Here, Schedule!Quit, Proved!Quit,
      Schedule!Stops, Proved!Stops, Schedule!Holding, Proved!Holding,
      Schedule!Closed, Proved!Closed, Proved!Next
<1> QED
  BY <1>1, <1>2, <1>3, <1>4, <1>5, <1>6, <1>7, <1>8, <1>9, <1>10 DEF Schedule!Next

\* Each application has its own database, and it stays the application's.
LEMMA OwnNext ==
  /\ Note!Next => app = "note" /\ UNCHANGED app
  /\ Appt!Next => app \in {"appt", "alarm"} /\ UNCHANGED app
  /\ Contact!Next => app = "contact" /\ UNCHANGED app
  /\ Occasion!Next => app = "occasion" /\ UNCHANGED app
  /\ Chrono!Next => app = "chrono" /\ UNCHANGED app
  /\ Timer!Next => app \in {"countdn", "interval"} /\ UNCHANGED app
  /\ Option!Next => app = "option" /\ UNCHANGED app
  /\ Schedule!Next => app = "schedule" /\ UNCHANGED app
<1>1. Note!Next => app = "note" /\ UNCHANGED app
  BY
  DEF Note!Next, Note!Here, Note!Open, Note!Create, Note!AddLine, Note!DelLine,
      Note!DeleteAll, Note!Save, Note!Leave, Note!Opens, Note!Saves, Note!Creates,
      Note!Edits, Note!Quit, Note!Stops
<1>2. Appt!Next => app \in {"appt", "alarm"} /\ UNCHANGED app
  BY
  DEF Appt!Next, Appt!Here, Appt!Open, Appt!Create, Appt!AddLine, Appt!DelLine,
      Appt!DeleteAll, Appt!Save, Appt!Leave, Appt!Opens, Appt!Saves, Appt!Creates,
      Appt!Edits, Appt!Quit, Appt!Stops
<1>3. Contact!Next => app = "contact" /\ UNCHANGED app
  BY
  DEF Contact!Next, Contact!Here, Contact!Open, Contact!Create, Contact!AddLine,
      Contact!DelLine, Contact!DeleteAll, Contact!Save, Contact!Leave, Contact!Opens,
      Contact!Saves, Contact!Creates, Contact!Edits, Contact!Quit, Contact!Stops
<1>4. Occasion!Next => app = "occasion" /\ UNCHANGED app
  BY
  DEF Occasion!Next, Occasion!Here, Occasion!Open, Occasion!Create, Occasion!AddLine,
      Occasion!DelLine, Occasion!DeleteAll, Occasion!Save, Occasion!Leave, Occasion!Opens,
      Occasion!Saves, Occasion!Creates, Occasion!Edits, Occasion!Quit, Occasion!Stops
<1>5. Chrono!Next => app = "chrono" /\ UNCHANGED app
  BY
  DEF Chrono!Next, Chrono!Here, Chrono!Open, Chrono!Create, Chrono!AddLine,
      Chrono!AddOptions, Chrono!DisplayLine, Chrono!DelLine, Chrono!DeleteAll, Chrono!Save,
      Chrono!Leave, Chrono!Opens, Chrono!Saves, Chrono!Creates, Chrono!Edits, Chrono!Quit,
      Chrono!Stops
<1>6. Timer!Next => app \in {"countdn", "interval"} /\ UNCHANGED app
  BY
  DEF Timer!Next, Timer!Here, Timer!Open, Timer!Create, Timer!AddLine, Timer!AddOptions,
      Timer!AtEndLine, Timer!DelLine, Timer!DeleteAll, Timer!Save, Timer!Leave, Timer!Opens,
      Timer!Saves, Timer!Creates, Timer!Edits, Timer!Quit, Timer!Stops
<1>7. Option!Next => app = "option" /\ UNCHANGED app
  BY
  DEF Option!Next, Option!Here, Option!Open, Option!ScanLine, Option!Save, Option!Leave,
      Option!Opens, Option!Saves, Option!Edits, Option!Quit, Option!Stops
<1> QED
  BY <1>1, <1>2, <1>3, <1>4, <1>5, <1>6, <1>7, SameNext

\* One of the applications starts.
LEMMA OwnInit ==
  ASSUME Init
  PROVE  /\ app = "schedule" => Schedule!Init
         /\ app = "occasion" => Occasion!Init
         /\ app \in {"countdn", "interval"} => Timer!Init
         /\ app = "contact" => Contact!Init
         /\ app = "chrono" => Chrono!Init
  BY DEF Init, Note!Init, Note!Here, Appt!Init, Appt!Here, Contact!Init, Contact!Here,
         Occasion!Init, Occasion!Here, Schedule!Init, Schedule!Here, Chrono!Init, Chrono!Here,
         Timer!Init, Timer!Here, Option!Init, Option!Here

LEMMA SchedulesInit ==
  ASSUME Init
  PROVE  SchedulesSound
<1> SUFFICES ASSUME app = "schedule" PROVE Schedule!SoundInv
  BY DEF SchedulesSound
<1>1. Schedule!Init
  BY OwnInit
<1>2. Proved!Init
  BY <1>1, SameFilled, SameCreate
  DEF Schedule!Init, Proved!Init, Schedule!Here, Proved!Here, Schedule!Started, Proved!Started,
      Schedule!Closed, Proved!Closed, Schedule!GroupTypes, Proved!GroupTypes,
      Schedule!FirstLines, Proved!FirstLines, Schedule!Ascending, Proved!Ascending
<1>3. Schedules \subseteq Proved!Lines
  BY SchedulesAssumption DEF Schedule!Lines, Proved!Lines
<1> QED
  BY <1>2, <1>3, Proved!StartSound, SameSoundInv, MsgsAssumption, SizesAssumption

LEMMA SchedulesNext ==
  ASSUME SchedulesSound, [Next]_vars
  PROVE  SchedulesSound'
<1>1. Schedules \subseteq Proved!Lines
  BY SchedulesAssumption DEF Schedule!Lines, Proved!Lines
<1>2. CASE Schedule!Next
  <2>1. Proved!Next /\ app = "schedule"
    BY <1>2, SameNext
  <2>2. Proved!SoundInv
    BY <2>1, SameSoundInv DEF SchedulesSound
  <2>3. Proved!SoundInv'
    BY <1>1, <2>1, <2>2, Proved!NextSound, MsgsAssumption, SizesAssumption
  <2>4. Schedule!SoundInv'
    BY <2>3, SameSoundInv, PTL
  <2> QED
    BY <2>4 DEF SchedulesSound
<1>3. CASE ~Schedule!Next /\ Next
  <2>1. app # "schedule" /\ UNCHANGED app
    BY <1>3, OwnNext DEF Next
  <2> QED
    BY <2>1 DEF SchedulesSound
<1>4. CASE UNCHANGED vars
  <2> SUFFICES ASSUME app' = "schedule" PROVE Schedule!SoundInv'
    BY DEF SchedulesSound
  <2>1. app = "schedule"
    BY <1>4 DEF vars
  <2>2. Proved!SoundInv
    BY <2>1, SameSoundInv DEF SchedulesSound
  <2>3. UNCHANGED Proved!vars
    BY <1>4 DEF vars, Proved!vars
  <2>4. Proved!SoundInv'
    BY <1>1, <2>2, <2>3, Proved!NextSound, MsgsAssumption, SizesAssumption
  <2> QED
    BY <2>4, SameSoundInv, PTL
<1> QED
  BY <1>2, <1>3, <1>4

LEMMA OccasionsNext ==
  ASSUME OccasionsSound, [Next]_vars
  PROVE  OccasionsSound'
<1>1. CASE Occasion!Next
  BY <1>1, OwnNext, OccasionNext DEF OccasionsSound
<1>2. CASE ~Occasion!Next /\ Next
  <2>1. app # "occasion" /\ UNCHANGED app
    BY <1>2, OwnNext DEF Next
  <2> QED
    BY <2>1 DEF OccasionsSound
<1>3. CASE UNCHANGED vars
  <2> SUFFICES ASSUME app' = "occasion" PROVE Occasion!SoundInv'
    BY DEF OccasionsSound
  <2>1. Occasion!SoundInv /\ UNCHANGED <<image, prog, db>>
    BY <1>3 DEF OccasionsSound, vars
  <2> QED
    BY <2>1, OccasionHolds, OccasionEdits
<1> QED
  BY <1>1, <1>2, <1>3

LEMMA ContactsNext ==
  ASSUME ContactsSound, [Next]_vars
  PROVE  ContactsSound'
<1>1. CASE Contact!Next
  BY <1>1, OwnNext, ContactNext DEF ContactsSound
<1>2. CASE ~Contact!Next /\ Next
  <2>1. app # "contact" /\ UNCHANGED app
    BY <1>2, OwnNext DEF Next
  <2> QED
    BY <2>1 DEF ContactsSound
<1>3. CASE UNCHANGED vars
  <2> SUFFICES ASSUME app' = "contact" PROVE Contact!SoundInv'
    BY DEF ContactsSound
  <2>1. Contact!SoundInv /\ UNCHANGED <<image, prog, db>>
    BY <1>3 DEF ContactsSound, vars
  <2>2. IF prog \in {"add", "del", "new"} THEN Contact!Sound(db) ELSE db = Contact!Closed
    BY <2>1 DEF Contact!SoundInv, Contact!Holding
  <2> QED
    BY <2>1, <2>2, ContactEdits
<1> QED
  BY <1>1, <1>2, <1>3

LEMMA TimersNext ==
  ASSUME TimersSound, [Next]_vars
  PROVE  TimersSound'
<1>1. CASE Timer!Next
  BY <1>1, OwnNext, TimerNext DEF TimersSound
<1>2. CASE ~Timer!Next /\ Next
  <2>1. app \notin {"countdn", "interval"} /\ UNCHANGED app
    BY <1>2, OwnNext DEF Next
  <2> QED
    BY <2>1 DEF TimersSound
<1>3. CASE UNCHANGED vars
  <2> SUFFICES ASSUME app' \in {"countdn", "interval"} PROVE Timer!SoundInv'
    BY DEF TimersSound
  <2>1. Timer!SoundInv /\ UNCHANGED <<app, image, prog, db, static>>
    BY <1>3 DEF TimersSound, vars
  <2>2. /\ Timer!Sound(Timer!read_timer(image))
        /\ image = Timer!create_timer(Timer!read_timer(image))
        /\ prog \in {"add", "del", "new"} =>
              Timer!Sound(db) /\ static \in [held : {0, 1}, updated : BOOLEAN]
    BY <2>1 DEF Timer!SoundInv, Timer!Holding
  <2>3. image' = image /\ prog' = prog /\ db' = db /\ static' = static /\ UNCHANGED app
    BY <2>1
  <2> QED
    BY <2>2, <2>3, TimerNextState
<1> QED
  BY <1>1, <1>2, <1>3

LEMMA ChronosNext ==
  ASSUME ChronosSound, [Next]_vars
  PROVE  ChronosSound'
<1>1. CASE Chrono!Next
  BY <1>1, OwnNext, ChronoNext DEF ChronosSound
<1>2. CASE ~Chrono!Next /\ Next
  <2>1. app # "chrono" /\ UNCHANGED app
    BY <1>2, OwnNext DEF Next
  <2> QED
    BY <2>1 DEF ChronosSound
<1>3. CASE UNCHANGED vars
  <2> SUFFICES ASSUME app' = "chrono" PROVE Chrono!SoundInv'
    BY DEF ChronosSound
  <2>1. Chrono!SoundInv /\ UNCHANGED <<image, prog, db, static>>
    BY <1>3 DEF ChronosSound, vars
  <2>2. IF prog \in {"add", "del", "new"} THEN Chrono!Sound(db) /\ static \in StaticType
        ELSE db = Chrono!Closed
    BY <2>1, ChronoInv
  <2> QED
    BY <2>1, <2>2, ChronoEdits
<1> QED
  BY <1>1, <1>2, <1>3

-----------------------------------------------------------------------------
(* Theorems *)

\* Sizes, counts, offsets, order and the types of times are right in the databases of
\* offsets and records, in the watch and in a program, after any lines, options and
\* deletions (add_*, del_*, update_schedule_group_type, create_*, read_*).
THEOREM TablesHold == Spec => []TablesSound
<1>1. Init => TablesSound
  BY SchedulesInit, OwnInit, OccasionStart, TimerStart, ContactStart, ChronoStart
  DEF TablesSound, OccasionsSound, TimersSound, ContactsSound, ChronosSound
<1>2. TablesSound /\ [Next]_vars => TablesSound'
  BY SchedulesNext, OccasionsNext, TimersNext, ContactsNext, ChronosNext DEF TablesSound
<1> QED
  BY <1>1, <1>2, PTL DEF Spec

\* All times of the schedules a program works on are of one type, the type it
\* reads its lines as (update_schedule_group_type).
THEOREM SchedulesOfOneType == Spec => []OneType
<1>1. TablesSound => OneType
  <2> SUFFICES ASSUME TablesSound, app = "schedule", Holding
               PROVE  Schedule!OneType(db) /\ static.group_type = db.hdr.group_type
    BY DEF OneType
  <2>1. Schedule!Sound(db) /\ static.group_type = db.hdr.group_type
    BY DEF TablesSound, SchedulesSound, Schedule!SoundInv, Schedule!Holding, Holding
  <2>2. Proved!OneType(db)
    BY <2>1, SameSound, Proved!SoundOneType, MsgsAssumption, SizesAssumption
  <2> QED
    BY <2>1, <2>2 DEF Schedule!OneType, Proved!OneType
<1> QED
  BY <1>1, TablesHold, PTL

LEMMA ScheduleFits ==
  ASSUME Schedule!SoundInv
  PROVE  Schedule!Fits /\ Schedule!InOrder
<1>1. Proved!SoundInv
  BY SameSoundInv
<1>2. Proved!Fits /\ Proved!InOrder
  BY <1>1, Proved!SoundInvFits, MsgsAssumption, SizesAssumption
<1> QED
  BY <1>2, SameFits, SameInOrder

\* The table of offsets and the records, the areas of the groups too, and the records
\* of the laps overlap nowhere and fit in the watch (create_*).
THEOREM AreasFit == Spec => []TablesFit
<1>1. TablesSound => TablesFit
  BY ScheduleFits, OccasionFits, TimerFits, ContactFits, ChronoFits
  DEF TablesSound, SchedulesSound, OccasionsSound, TimersSound, ContactsSound, ChronosSound,
      TablesFit
<1> QED
  BY <1>1, TablesHold, PTL

\* Contacts, occasions, schedules and timers are stored in the order they are shown in
\* (add_*, update_schedule_group_type).
THEOREM TablesAreSorted ==
  Spec => [](app \notin {"note", "appt", "alarm"} => ListsSorted)
<1>1. TablesSound => (app \notin {"note", "appt", "alarm"} => ListsSorted)
  BY ScheduleFits, OccasionFits, TimerFits, ContactFits
  DEF TablesSound, SchedulesSound, OccasionsSound, TimersSound, ContactsSound, ListsSorted
<1> QED
  BY <1>1, TablesHold, PTL

\* The offset of a contact that shares a text leads to the one that owns it, whatever
\* was added and deleted (add_contact, del_contact).
THEOREM OffsetsLeadToOwners == Spec => []OwnersFirst
<1>1. TablesSound => OwnersFirst
  BY ContactFits DEF TablesSound, ContactsSound, OwnersFirst
<1> QED
  BY <1>1, TablesHold, PTL

\* The counts and the last indices of the occasions are those of the two parts, the
\* counts of the laps those of the records, and the last workout is where the header
\* says (add_occasion, del_occasion, update_chrono).
THEOREM PartsAreCounted == Spec => []HeadersAgree
<1>1. TablesSound => HeadersAgree
  BY OccasionFits, ChronoFits DEF TablesSound, OccasionsSound, ChronosSound, HeadersAgree
<1> QED
  BY <1>1, TablesHold, PTL

\* Whether the link that del_chrono reads from a freed lap is intact, leads astray or
\* ends the program, and however many laps there are: the best lap of a workout is the
\* shortest, and the number of each lap is its place and the deletions before it that
\* did not renumber it, in a byte (add_chrono, del_chrono).
THEOREM LapsHaveNumbers == Spec => []LapsNumbered
<1>1. TablesSound => LapsNumbered
  BY ChronoNumbered DEF TablesSound, ChronosSound, LapsNumbered
<1> QED
  BY <1>1, TablesHold, PTL

=============================================================================
