--------------------------- MODULE ScheduleProofs ---------------------------
(***************************************************************************)
(* Proofs about the schedules (ScheduleDb), for any lines, texts, numbers  *)
(* of groups and records: the database a program holds and the one in the  *)
(* watch stay sound (SoundInv), so that areas and records do not overlap   *)
(* and all times are of one type.                                          *)
(***************************************************************************)
EXTENDS ScheduleDb, DbListProofs

-----------------------------------------------------------------------------
(* Records and groups *)

LEMMA RecType ==
  ASSUME NEW c \in Lines, NEW type
  PROVE  Rec(c, type) \in RecsOf(type)
<1>1. c.msg \in Msgs /\ c.when \in Nat
  BY DEF Lines
<1> QED
  BY <1>1, SpaceType DEF Rec, RecsOf

LEMMA SizesType ==
  ASSUME NEW type, NEW recs \in Seq(RecsOf(type))
  PROVE  /\ Sizes(recs) \in Seq(Nat) /\ Len(Sizes(recs)) = Len(recs)
         /\ Len(recs) \in Nat /\ DOMAIN recs = 1..Len(recs)
         /\ \A k \in 1..Len(recs) : Sizes(recs)[k] = Size(recs[k]) /\ Size(recs[k]) \in Nat \ {0}
<1>1. Len(recs) \in Nat /\ DOMAIN recs = 1..Len(recs)
  OBVIOUS
<1>2. ASSUME NEW k \in 1..Len(recs) PROVE Size(recs[k]) \in Nat \ {0}
  <2>1. recs[k] \in RecsOf(type)
    BY <1>1
  <2> QED
    BY <2>1 DEF RecsOf, Size
<1>3. Sizes(recs) \in [1..Len(recs) -> Nat]
  BY <1>1, <1>2 DEF Sizes
<1>4. \A k \in 1..Len(recs) : Sizes(recs)[k] = Size(recs[k])
  BY <1>1 DEF Sizes
<1>5. Sizes(recs) \in Seq(Nat) /\ Len(Sizes(recs)) = Len(recs)
  <2> DEFINE z == Sizes(recs)
  <2> HIDE DEF z
  <2>1. z \in [1..Len(recs) -> Nat] /\ DOMAIN z = 1..Len(recs)
    BY <1>3 DEF z
  <2>2. z \in Seq(Nat) /\ Len(z) = Len(recs)
    BY <1>1, <2>1, SeqDef
  <2> QED
    BY <2>2 DEF z
<1> QED
  BY <1>1, <1>2, <1>4, <1>5

\* What a group takes is at least its header, and its pages are no less.
LEMMA GroupType ==
  ASSUME NEW type, NEW g \in Groups(type)
  PROVE  /\ g.msg \in Msgs /\ g.len \in Nat /\ g.recs \in Seq(RecsOf(type))
         /\ g.db_size \in Nat /\ g.alloc_size \in Nat \ {0}
         /\ g.db_size <= g.alloc_size
         /\ Sum(Sizes(g.recs)) \in Nat
         /\ g.db_size = 8 + g.len + 2 * Len(g.recs) + Sum(Sizes(g.recs))
         /\ g.alloc_size = alloc(g.db_size) /\ RecsInOrder(g.recs)
         /\ g = [msg |-> g.msg, len |-> g.len, recs |-> g.recs,
                 db_size |-> g.db_size, alloc_size |-> g.alloc_size]
<1>1. /\ g \in [msg : Msgs, len : Nat, recs : Seq(RecsOf(type)),
                db_size : Nat, alloc_size : Nat]
      /\ g.db_size = 8 + g.len + 2 * Len(g.recs) + Sum(Sizes(g.recs))
      /\ g.alloc_size = alloc(g.db_size) /\ RecsInOrder(g.recs)
  BY DEF Groups
<1>2. /\ g.msg \in Msgs /\ g.len \in Nat /\ g.recs \in Seq(RecsOf(type))
      /\ g.db_size \in Nat /\ g.alloc_size \in Nat
      /\ g = [msg |-> g.msg, len |-> g.len, recs |-> g.recs,
              db_size |-> g.db_size, alloc_size |-> g.alloc_size]
  BY <1>1
<1>3. Len(g.recs) \in Nat /\ Sizes(g.recs) \in Seq(Nat)
  BY <1>2, SizesType
<1>4. Sum(Sizes(g.recs)) \in Nat
  BY <1>3, SumType
<1>5. g.db_size \in Nat \ {0}
  BY <1>1, <1>2, <1>3, <1>4
<1>6. g.db_size <= alloc(g.db_size)
  BY <1>5, AllocHolds
<1> QED
  BY <1>1, <1>2, <1>4, <1>5, <1>6

LEMMA AreasType ==
  ASSUME NEW type, NEW groups \in Seq(Groups(type))
  PROVE  /\ Areas(groups) \in Seq(Nat) /\ Len(Areas(groups)) = Len(groups)
         /\ Len(groups) \in Nat /\ DOMAIN groups = 1..Len(groups)
         /\ \A g \in 1..Len(groups) : /\ Areas(groups)[g] = groups[g].alloc_size
                                      /\ groups[g].alloc_size \in Nat \ {0}
                                      /\ groups[g] \in Groups(type)
<1>1. Len(groups) \in Nat /\ DOMAIN groups = 1..Len(groups)
  OBVIOUS
<1>2. ASSUME NEW g \in 1..Len(groups)
      PROVE groups[g] \in Groups(type) /\ groups[g].alloc_size \in Nat \ {0}
  <2>1. groups[g] \in Groups(type)
    BY <1>1
  <2> QED
    BY <2>1, GroupType
<1>3. Areas(groups) \in [1..Len(groups) -> Nat]
  BY <1>1, <1>2 DEF Areas
<1>4. \A g \in 1..Len(groups) : Areas(groups)[g] = groups[g].alloc_size
  BY <1>1 DEF Areas
<1>5. Areas(groups) \in Seq(Nat) /\ Len(Areas(groups)) = Len(groups)
  <2> DEFINE z == Areas(groups)
  <2> HIDE DEF z
  <2>1. z \in [1..Len(groups) -> Nat] /\ DOMAIN z = 1..Len(groups)
    BY <1>3 DEF z
  <2>2. z \in Seq(Nat) /\ Len(z) = Len(groups)
    BY <1>1, <2>1, SeqDef
  <2> QED
    BY <2>2 DEF z
<1> QED
  BY <1>1, <1>2, <1>4, <1>5

\* A record put into a group adds its size to the sum.
LEMMA SizesPut ==
  ASSUME NEW type, NEW s \in Seq(RecsOf(type)), NEW t \in Seq(RecsOf(type)),
         NEW k \in 1..(Len(s) + 1), NEW r \in RecsOf(type), Inserted(s, k, r, t)
  PROVE  Sum(Sizes(t)) = Sum(Sizes(s)) + Size(r) /\ Len(t) = Len(s) + 1
<1>1. /\ Sizes(s) \in Seq(Nat) /\ Len(Sizes(s)) = Len(s) /\ Len(s) \in Nat
      /\ \A j \in 1..Len(s) : Sizes(s)[j] = Size(s[j])
  BY SizesType
<1>2. /\ Sizes(t) \in Seq(Nat) /\ Len(Sizes(t)) = Len(t)
      /\ \A j \in 1..Len(t) : Sizes(t)[j] = Size(t[j])
  BY SizesType
<1>3. Len(t) = Len(s) + 1
  BY DEF Inserted
<1>4. Sizes(s) \in Seq(Int) /\ Sizes(t) \in Seq(Int)
  BY <1>1, <1>2
<1>5. Inserted(Sizes(s), k, Size(r), Sizes(t))
  <2>1. ASSUME NEW j \in 1..(k - 1) PROVE Sizes(t)[j] = Sizes(s)[j]
    <3>1. j \in 1..Len(s) /\ j \in 1..Len(t) /\ t[j] = s[j]
      BY <1>1, <1>3 DEF Inserted
    <3> QED
      BY <1>1, <1>2, <3>1
  <2>2. ASSUME NEW j \in k..Len(s) PROVE Sizes(t)[j + 1] = Sizes(s)[j]
    <3>1. j \in 1..Len(s) /\ j + 1 \in 1..Len(t) /\ t[j + 1] = s[j]
      BY <1>1, <1>3 DEF Inserted
    <3> QED
      BY <1>1, <1>2, <3>1
  <2>3. Sizes(t)[k] = Size(r)
    <3>1. k \in 1..Len(t) /\ t[k] = r
      BY <1>1, <1>3 DEF Inserted
    <3> QED
      BY <1>2, <3>1
  <2> QED
    BY <1>1, <1>2, <1>3, <2>1, <2>2, <2>3 DEF Inserted
<1>6. Sum(Sizes(t)) = Sum(Sizes(s)) + Size(r)
  BY <1>1, <1>4, <1>5, SumPut
<1> QED
  BY <1>3, <1>6

\* The same of a group and its area.
LEMMA AreasPut ==
  ASSUME NEW type, NEW s \in Seq(Groups(type)), NEW t \in Seq(Groups(type)),
         NEW k \in 1..(Len(s) + 1), NEW g \in Groups(type), Inserted(s, k, g, t)
  PROVE  Sum(Areas(t)) = Sum(Areas(s)) + g.alloc_size /\ Len(t) = Len(s) + 1
<1>1. /\ Areas(s) \in Seq(Nat) /\ Len(Areas(s)) = Len(s) /\ Len(s) \in Nat
      /\ \A j \in 1..Len(s) : Areas(s)[j] = s[j].alloc_size
  BY AreasType
<1>2. /\ Areas(t) \in Seq(Nat) /\ Len(Areas(t)) = Len(t)
      /\ \A j \in 1..Len(t) : Areas(t)[j] = t[j].alloc_size
  BY AreasType
<1>3. Len(t) = Len(s) + 1
  BY DEF Inserted
<1>4. Areas(s) \in Seq(Int) /\ Areas(t) \in Seq(Int)
  BY <1>1, <1>2
<1>5. Inserted(Areas(s), k, g.alloc_size, Areas(t))
  <2>1. ASSUME NEW j \in 1..(k - 1) PROVE Areas(t)[j] = Areas(s)[j]
    <3>1. j \in 1..Len(s) /\ j \in 1..Len(t) /\ t[j] = s[j]
      BY <1>1, <1>3 DEF Inserted
    <3> QED
      BY <1>1, <1>2, <3>1
  <2>2. ASSUME NEW j \in k..Len(s) PROVE Areas(t)[j + 1] = Areas(s)[j]
    <3>1. j \in 1..Len(s) /\ j + 1 \in 1..Len(t) /\ t[j + 1] = s[j]
      BY <1>1, <1>3 DEF Inserted
    <3> QED
      BY <1>1, <1>2, <3>1
  <2>3. Areas(t)[k] = g.alloc_size
    <3>1. k \in 1..Len(t) /\ t[k] = g
      BY <1>1, <1>3 DEF Inserted
    <3> QED
      BY <1>2, <3>1
  <2> QED
    BY <1>1, <1>2, <1>3, <2>1, <2>2, <2>3 DEF Inserted
<1>6. Sum(Areas(t)) = Sum(Areas(s)) + g.alloc_size
  BY <1>1, <1>4, <1>5, SumPut
<1> QED
  BY <1>3, <1>6

\* A group in place of another changes the sum of the areas by theirs.
LEMMA AreasReplaced ==
  ASSUME NEW type, NEW s \in Seq(Groups(type)), NEW k \in 1..Len(s), NEW g \in Groups(type)
  PROVE  /\ [s EXCEPT ![k] = g] \in Seq(Groups(type)) /\ Len([s EXCEPT ![k] = g]) = Len(s)
         /\ Sum(Areas([s EXCEPT ![k] = g])) = Sum(Areas(s)) - s[k].alloc_size + g.alloc_size
<1> DEFINE t == [s EXCEPT ![k] = g]
<1>1. /\ Areas(s) \in Seq(Nat) /\ Len(Areas(s)) = Len(s) /\ Len(s) \in Nat
      /\ \A j \in 1..Len(s) : Areas(s)[j] = s[j].alloc_size
  BY AreasType
<1>2. /\ t \in Seq(Groups(type)) /\ Len(t) = Len(s) /\ t[k] = g
      /\ \A j \in 1..Len(s) : j # k => t[j] = s[j]
  OBVIOUS
<1> HIDE DEF t
<1>3. /\ Areas(t) \in Seq(Nat) /\ Len(Areas(t)) = Len(t)
      /\ \A j \in 1..Len(t) : Areas(t)[j] = t[j].alloc_size
  BY <1>2, AreasType
<1>4. Areas(s) \in Seq(Int) /\ Areas(t) \in Seq(Int)
  BY <1>1, <1>3
<1>5. \A j \in 1..Len(Areas(s)) : j # k => Areas(t)[j] = Areas(s)[j]
  BY <1>1, <1>2, <1>3
<1>6. Areas(t)[k] = g.alloc_size /\ Areas(s)[k] = s[k].alloc_size
  BY <1>1, <1>2, <1>3
<1>7. Sum(Areas(t)) = Sum(Areas(s)) - Areas(s)[k] + Areas(t)[k]
  BY <1>1, <1>2, <1>3, <1>4, <1>5, SumReplaced
<1> QED
  BY <1>2, <1>6, <1>7 DEF t

-----------------------------------------------------------------------------
(* Adding *)

\* t is s with e put somewhere.
Put(s, e, t) == \E k \in 1..(Len(s) + 1) : Inserted(s, k, e, t)

\* Where the search for a place stops is a place of the list.
LEMMA PlaceFound ==
  ASSUME NEW S, NEW s \in Seq(S), NEW I, I \subseteq 1..Len(s)
  PROVE  /\ (IF I # {} THEN Min(I) ELSE 0) \in 0..Len(s)
         /\ I # {} => Min(I) \in I
<1>1. Len(s) \in Nat /\ I \in SUBSET Nat
  OBVIOUS
<1>2. ASSUME I # {} PROVE Min(I) \in I
  BY <1>1, <1>2, FirstPlace
<1>3. CASE I = {}
  BY <1>1, <1>3
<1>4. CASE I # {}
  <2>1. Min(I) \in 1..Len(s)
    BY <1>2, <1>4
  <2> QED
    BY <1>1, <1>2, <1>4, <2>1
<1> QED
  BY <1>3, <1>4

LEMMA PutSomewhere ==
  ASSUME NEW S, NEW s \in Seq(S), NEW e \in S, NEW i \in 0..Len(s), NEW t,
         t = IF i = 0 THEN Append(s, e) ELSE InsertAt(s, i, e)
  PROVE  t \in Seq(S) /\ Put(s, e, t)
<1>1. Len(s) \in Nat
  OBVIOUS
<1>2. CASE i = 0
  <2>1. t = Append(s, e)
    BY <1>2
  <2>2. Append(s, e) \in Seq(S) /\ Inserted(s, Len(s) + 1, e, Append(s, e))
    BY AppendPuts
  <2>3. Len(s) + 1 \in 1..(Len(s) + 1)
    BY <1>1
  <2> QED
    BY <2>1, <2>2, <2>3 DEF Put
<1>3. CASE i # 0
  <2>1. t = InsertAt(s, i, e) /\ i \in 1..(Len(s) + 1)
    BY <1>1, <1>3
  <2>2. InsertAt(s, i, e) \in Seq(S) /\ Inserted(s, i, e, InsertAt(s, i, e))
    BY <2>1, InsertAtPuts
  <2> QED
    BY <2>1, <2>2 DEF Put
<1> QED
  BY <1>2, <1>3

\* The place of a record among those of its group.
LEMMA RecPut ==
  ASSUME NEW type, NEW s \in Seq(RecsOf(type)), NEW rec \in RecsOf(type)
  PROVE  PutRec(s, rec) \in Seq(RecsOf(type)) /\ Put(s, rec, PutRec(s, rec))
<1> DEFINE I == {j \in 1..Len(s) : Before(rec, s[j])}
           i == IF I # {} THEN Min(I) ELSE 0
<1>1. PutRec(s, rec) = IF i = 0 THEN Append(s, rec) ELSE InsertAt(s, i, rec)
  BY DEF PutRec, InsertBefore, SelectInSeq
<1>2. I \subseteq 1..Len(s)
  OBVIOUS
<1> HIDE DEF I
<1>3. i \in 0..Len(s)
  BY <1>2, PlaceFound
<1> HIDE DEF i
<1> QED
  BY <1>1, <1>3, PutSomewhere

\* The place of a group.
LEMMA GroupPut ==
  ASSUME NEW type, NEW s \in Seq(Groups(type)), NEW g \in Groups(type)
  PROVE  PutGroup(s, g) \in Seq(Groups(type)) /\ Put(s, g, PutGroup(s, g))
<1> DEFINE I == {j \in 1..Len(s) : g.msg < s[j].msg}
           i == IF I # {} THEN Min(I) ELSE 0
<1>1. PutGroup(s, g) = IF i = 0 THEN Append(s, g) ELSE InsertAt(s, i, g)
  BY DEF PutGroup, InsertBefore, SelectInSeq
<1>2. I \subseteq 1..Len(s)
  OBVIOUS
<1> HIDE DEF I
<1>3. i \in 0..Len(s)
  BY <1>2, PlaceFound
<1> HIDE DEF i
<1> QED
  BY <1>1, <1>3, PutSomewhere

-----------------------------------------------------------------------------
(* Order *)

\* The records that may stand before each other, and the groups.
RecOrder(type) == {p \in RecsOf(type) \X RecsOf(type) : ~Before(p[2], p[1])}
GroupOrder(type) == {p \in Groups(type) \X Groups(type) : p[1].msg < p[2].msg}

LEMMA RecsOrdered ==
  ASSUME NEW type, NEW recs \in Seq(RecsOf(type))
  PROVE  RecsInOrder(recs) <=> OrderedBy(RecOrder(type), recs)
<1>1. ASSUME NEW k \in 1..(Len(recs) - 1)
      PROVE  <<recs[k], recs[k + 1]>> \in RecOrder(type) <=> ~Before(recs[k + 1], recs[k])
  <2>1. k \in 1..Len(recs) /\ k + 1 \in 1..Len(recs)
    OBVIOUS
  <2>2. recs[k] \in RecsOf(type) /\ recs[k + 1] \in RecsOf(type)
    BY <2>1
  <2> QED
    BY <2>2 DEF RecOrder
<1> QED
  BY <1>1 DEF RecsInOrder, OrderedBy

LEMMA GroupsOrdered ==
  ASSUME NEW type, NEW groups \in Seq(Groups(type))
  PROVE  GroupsInOrder(groups) <=> OrderedBy(GroupOrder(type), groups)
<1>1. ASSUME NEW k \in 1..(Len(groups) - 1)
      PROVE  <<groups[k], groups[k + 1]>> \in GroupOrder(type)
               <=> groups[k].msg < groups[k + 1].msg
  <2>1. k \in 1..Len(groups) /\ k + 1 \in 1..Len(groups)
    OBVIOUS
  <2>2. groups[k] \in Groups(type) /\ groups[k + 1] \in Groups(type)
    BY <2>1
  <2> HIDE DEF Groups
  <2> QED
    BY <2>2 DEF GroupOrder
<1> QED
  BY <1>1 DEF GroupsInOrder, OrderedBy

\* A record put before the first that it comes before.
LEMMA RecPutInOrder ==
  ASSUME NEW type, NEW s \in Seq(RecsOf(type)), NEW rec \in RecsOf(type), RecsInOrder(s)
  PROVE  RecsInOrder(PutRec(s, rec))
<1> DEFINE I == {j \in 1..Len(s) : Before(rec, s[j])}
           i == IF I # {} THEN Min(I) ELSE 0
           t == PutRec(s, rec)
           S == RecsOf(type)
           R == RecOrder(type)
<1>1. t = IF i = 0 THEN Append(s, rec) ELSE InsertAt(s, i, rec)
  BY DEF PutRec, InsertBefore, SelectInSeq
<1>2. I \in SUBSET (1..Len(s)) /\ \A j \in 1..Len(s) : j \in I <=> Before(rec, s[j])
  OBVIOUS
<1>3. \A a \in S : a.when \in Nat /\ a.msg \in Nat
  BY MsgsAssumption DEF RecsOf
<1>4. ASSUME NEW a \in S, NEW b \in S
      PROVE  <<a, b>> \in R <=> ~Before(b, a)
  BY DEF RecOrder
<1>5. OrderedBy(R, s) /\ s \in Seq(S) /\ rec \in S
  BY RecsOrdered
<1> HIDE DEF I, i, t, S, R
<1>6. i = IF I # {} THEN Min(I) ELSE 0
  BY DEF i
<1>7. t \in Seq(S) /\ \E p \in 1..(Len(s) + 1) : StopsAt(s, p, rec, t, I)
  BY <1>1, <1>2, <1>5, <1>6, PutAtStop
<1>8. PICK p \in 1..(Len(s) + 1) : StopsAt(s, p, rec, t, I)
  BY <1>7
<1>9. /\ Inserted(s, p, rec, t) /\ \A j \in 1..(p - 1) : j \notin I
      /\ p \in 1..Len(s) => p \in I
  BY <1>8 DEF StopsAt
<1>10. p > 1 => <<s[p - 1], rec>> \in R
  <2> SUFFICES ASSUME p > 1 PROVE <<s[p - 1], rec>> \in R
    OBVIOUS
  <2>1. p - 1 \in 1..(p - 1) /\ p - 1 \in 1..Len(s)
    BY <1>5
  <2>2. s[p - 1] \in S /\ ~Before(rec, s[p - 1])
    BY <1>2, <1>5, <1>9, <2>1
  <2> QED
    BY <1>4, <1>5, <2>2
<1>11. p <= Len(s) => <<rec, s[p]>> \in R
  <2> SUFFICES ASSUME p <= Len(s) PROVE <<rec, s[p]>> \in R
    OBVIOUS
  <2>1. p \in 1..Len(s)
    BY <1>5
  <2>2. s[p] \in S /\ Before(rec, s[p])
    BY <1>2, <1>5, <1>9, <2>1
  <2>3. ~Before(s[p], rec)
    BY <1>3, <1>5, <2>2 DEF Before
  <2> QED
    BY <1>4, <1>5, <2>2, <2>3
<1>12. OrderedBy(R, t)
  BY <1>5, <1>7, <1>9, <1>10, <1>11, PutInOrder
<1> QED
  BY <1>7, <1>12, RecsOrdered DEF R, S, t

LEMMA RecTakenInOrder ==
  ASSUME NEW type, NEW s \in Seq(RecsOf(type)), NEW k \in 1..Len(s), RecsInOrder(s)
  PROVE  RecsInOrder(RemoveAt(s, k))
<1> DEFINE t == RemoveAt(s, k)
           e == s[k]
           S == RecsOf(type)
           R == RecOrder(type)
<1>1. t \in Seq(S) /\ Inserted(t, k, e, s)
  BY RemoveAtTakes
<1>2. \A a \in S : a.when \in Nat /\ a.msg \in Nat
  BY MsgsAssumption DEF RecsOf
<1>3. ASSUME NEW a \in S, NEW b \in S
      PROVE  <<a, b>> \in R <=> ~Before(b, a)
  BY DEF RecOrder
<1>4. OrderedBy(R, s) /\ s \in Seq(S) /\ e \in S
  BY RecsOrdered
<1> HIDE DEF t, e, S, R
<1>5. k \in 1..(Len(t) + 1)
  BY <1>1, <1>4 DEF Inserted
<1>6. ASSUME NEW a \in S, NEW b \in S, NEW c \in S, <<a, b>> \in R, <<b, c>> \in R
      PROVE  <<a, c>> \in R
  <2>1. ~Before(b, a) /\ ~Before(c, b)
    BY <1>3, <1>6
  <2>2. ~Before(c, a)
    BY <1>2, <2>1 DEF Before
  <2> QED
    BY <1>3, <2>2
<1>7. OrderedBy(R, t)
  BY <1>1, <1>4, <1>5, <1>6, TakenInOrder
<1> QED
  BY <1>1, <1>7, RecsOrdered DEF R, S, t

\* A new group put before the first with a greater text, when none has its text.
LEMMA GroupPutInOrder ==
  ASSUME NEW type, NEW s \in Seq(Groups(type)), NEW new \in Groups(type), GroupsInOrder(s),
         \A g \in 1..Len(s) : s[g].msg # new.msg
  PROVE  GroupsInOrder(PutGroup(s, new))
<1> DEFINE I == {j \in 1..Len(s) : new.msg < s[j].msg}
           i == IF I # {} THEN Min(I) ELSE 0
           t == PutGroup(s, new)
           S == Groups(type)
           R == GroupOrder(type)
<1>1. t = IF i = 0 THEN Append(s, new) ELSE InsertAt(s, i, new)
  BY DEF PutGroup, InsertBefore, SelectInSeq
<1>2. I \in SUBSET (1..Len(s)) /\ \A j \in 1..Len(s) : j \in I <=> new.msg < s[j].msg
  OBVIOUS
<1>3. \A a \in S : a.msg \in Nat
  BY MsgsAssumption, GroupType
<1>5. OrderedBy(R, s) /\ s \in Seq(S) /\ new \in S
  BY GroupsOrdered
<1> HIDE DEF I, i, t, S
<1>4. ASSUME NEW a \in S, NEW b \in S
      PROVE  <<a, b>> \in R <=> a.msg < b.msg
  BY DEF GroupOrder, S
<1> HIDE DEF R
<1>6. i = IF I # {} THEN Min(I) ELSE 0
  BY DEF i
<1>7. t \in Seq(S) /\ \E p \in 1..(Len(s) + 1) : StopsAt(s, p, new, t, I)
  BY <1>1, <1>2, <1>5, <1>6, PutAtStop
<1>8. PICK p \in 1..(Len(s) + 1) : StopsAt(s, p, new, t, I)
  BY <1>7
<1>9. /\ Inserted(s, p, new, t) /\ \A j \in 1..(p - 1) : j \notin I
      /\ p \in 1..Len(s) => p \in I
  BY <1>8 DEF StopsAt
<1>10. p > 1 => <<s[p - 1], new>> \in R
  <2> SUFFICES ASSUME p > 1 PROVE <<s[p - 1], new>> \in R
    OBVIOUS
  <2>1. p - 1 \in 1..(p - 1) /\ p - 1 \in 1..Len(s)
    BY <1>5
  <2>2. s[p - 1] \in S /\ ~(new.msg < s[p - 1].msg) /\ s[p - 1].msg # new.msg
    BY <1>2, <1>5, <1>9, <2>1
  <2>3. s[p - 1].msg < new.msg
    BY <1>3, <1>5, <2>2
  <2> QED
    BY <1>4, <1>5, <2>2, <2>3
<1>11. p <= Len(s) => <<new, s[p]>> \in R
  <2> SUFFICES ASSUME p <= Len(s) PROVE <<new, s[p]>> \in R
    OBVIOUS
  <2>1. p \in 1..Len(s)
    BY <1>5
  <2>2. s[p] \in S /\ new.msg < s[p].msg
    BY <1>2, <1>5, <1>9, <2>1
  <2> QED
    BY <1>4, <1>5, <2>2
<1>12. OrderedBy(R, t)
  BY <1>5, <1>7, <1>9, <1>10, <1>11, PutInOrder
<1> QED
  BY <1>7, <1>12, GroupsOrdered DEF R, S, t

LEMMA GroupTakenInOrder ==
  ASSUME NEW type, NEW s \in Seq(Groups(type)), NEW k \in 1..Len(s), GroupsInOrder(s)
  PROVE  GroupsInOrder(RemoveAt(s, k))
<1> DEFINE t == RemoveAt(s, k)
           e == s[k]
           S == Groups(type)
           R == GroupOrder(type)
<1>1. t \in Seq(S) /\ Inserted(t, k, e, s)
  BY RemoveAtTakes
<1>2. \A a \in S : a.msg \in Nat
  BY MsgsAssumption, GroupType
<1>4. OrderedBy(R, s) /\ s \in Seq(S) /\ e \in S
  BY GroupsOrdered
<1> HIDE DEF t, e, S
<1>3. ASSUME NEW a \in S, NEW b \in S
      PROVE  <<a, b>> \in R <=> a.msg < b.msg
  BY DEF GroupOrder, S
<1> HIDE DEF R
<1>5. k \in 1..(Len(t) + 1)
  BY <1>1, <1>4 DEF Inserted
<1>6. ASSUME NEW a \in S, NEW b \in S, NEW c \in S, <<a, b>> \in R, <<b, c>> \in R
      PROVE  <<a, c>> \in R
  <2>1. a.msg < b.msg /\ b.msg < c.msg
    BY <1>3, <1>6
  <2>2. a.msg < c.msg
    BY <1>2, <2>1
  <2> QED
    BY <1>3, <2>2
<1>7. OrderedBy(R, t)
  BY <1>1, <1>4, <1>5, <1>6, TakenInOrder
<1> QED
  BY <1>1, <1>7, GroupsOrdered DEF R, S, t

\* A group of the same text in its place.
LEMMA GroupReplacedInOrder ==
  ASSUME NEW type, NEW s \in Seq(Groups(type)), NEW k \in 1..Len(s), GroupsInOrder(s),
         NEW new \in Groups(type), new.msg = s[k].msg
  PROVE  GroupsInOrder([s EXCEPT ![k] = new])
<1> DEFINE t == [s EXCEPT ![k] = new]
<1>1. DOMAIN t = DOMAIN s /\ DOMAIN s = 1..Len(s) /\ Len(s) \in Nat /\ Len(t) = Len(s)
  OBVIOUS
<1>2. \A j \in 1..Len(s) : t[j].msg = s[j].msg
  BY <1>1
<1> HIDE DEF t
<1>3. ASSUME NEW j \in 1..(Len(t) - 1) PROVE t[j].msg < t[j + 1].msg
  <2>1. j \in 1..Len(s) /\ j + 1 \in 1..Len(s) /\ j \in 1..(Len(s) - 1)
    BY <1>1
  <2>2. s[j].msg < s[j + 1].msg
    BY <2>1 DEF GroupsInOrder
  <2> QED
    BY <1>2, <2>1, <2>2
<1>4. GroupsInOrder(t)
  BY <1>3 DEF GroupsInOrder
<1> QED
  BY <1>4 DEF t

\* GroupOf finds the group of the text if there is one.
LEMMA GroupFound ==
  ASSUME NEW d, NEW type, d.recs \in Seq(Groups(type)), NEW m
  PROVE  /\ GroupOf(d, m) \in 0..Len(d.recs)
         /\ GroupOf(d, m) # 0 => d.recs[GroupOf(d, m)].msg = m
         /\ (\E g \in 1..Len(d.recs) : d.recs[g].msg = m) => GroupOf(d, m) # 0
<1> DEFINE I == {j \in 1..Len(d.recs) : d.recs[j].msg = m}
<1>1. GroupOf(d, m) = IF I # {} THEN Min(I) ELSE 0
  BY DEF GroupOf, SelectInSeq
<1>2. I \subseteq 1..Len(d.recs)
  OBVIOUS
<1>3. (\E g \in 1..Len(d.recs) : d.recs[g].msg = m) <=> I # {}
  OBVIOUS
<1>4. \A j \in I : j # 0 /\ d.recs[j].msg = m
  OBVIOUS
<1> HIDE DEF I
<1>5. (IF I # {} THEN Min(I) ELSE 0) \in 0..Len(d.recs) /\ (I # {} => Min(I) \in I)
  BY <1>2, PlaceFound
<1> QED
  BY <1>1, <1>3, <1>4, <1>5

\* The parts of a database that counts right.
LEMMA CountedType ==
  ASSUME NEW d, Counted(d)
  PROVE  /\ d.recs \in Seq(Groups(d.hdr.group_type)) /\ Len(d.recs) \in Nat
         /\ d.hdr.num_recs = Len(d.recs) /\ d.hdr.num_recs \in Nat
         /\ d.hdr.group_type \in GroupTypes \cup {0}
         /\ d.hdr.group_type = 0 => d.recs = << >>
         /\ d.hdr.msg \in Descs \cup {Default}
         /\ d.hdr.db_size \in Nat /\ d.hdr.alloc_size \in Nat
         /\ Sum(Areas(d.recs)) \in Nat
         /\ d.hdr.db_size = HDR + 2 * Len(d.recs) + Sum(Areas(d.recs))
         /\ d.hdr \in Hdrs /\ d = [recs |-> d.recs, hdr |-> d.hdr]
         /\ GroupsInOrder(d.recs)
<1>1. /\ d \in [recs : Seq(Groups(d.hdr.group_type)), hdr : Hdrs]
      /\ d.hdr.num_recs = Len(d.recs)
      /\ d.hdr.group_type = 0 => d.recs = << >>
      /\ d.hdr.db_size = HDR + 2 * Len(d.recs) + Sum(Areas(d.recs))
      /\ GroupsInOrder(d.recs)
  BY DEF Counted
<1>2. /\ d.recs \in Seq(Groups(d.hdr.group_type)) /\ d.hdr \in Hdrs
      /\ d = [recs |-> d.recs, hdr |-> d.hdr]
  BY <1>1
<1>3. /\ d.hdr.num_recs \in Nat /\ d.hdr.group_type \in GroupTypes \cup {0}
      /\ d.hdr.msg \in Descs \cup {Default}
      /\ d.hdr.db_size \in Nat /\ d.hdr.alloc_size \in Nat
  BY <1>2 DEF Hdrs
<1>4. Areas(d.recs) \in Seq(Nat) /\ Len(d.recs) \in Nat
  BY <1>2, AreasType
<1>5. Sum(Areas(d.recs)) \in Nat
  BY <1>4, SumType
<1> QED
  BY <1>1, <1>2, <1>3, <1>4, <1>5

\* A new group is as large as its header.
LEMMA NewGroup ==
  ASSUME NEW type, NEW m \in Msgs
  PROVE  [msg |-> m, len |-> Space(m), recs |-> << >>,
          db_size |-> 8 + Space(m), alloc_size |-> alloc(8 + Space(m))] \in Groups(type)
<1>1. Space(m) \in Nat \ {0}
  BY SpaceType
<1>2. 8 + Space(m) \in Nat \ {0}
  BY <1>1
<1>3. alloc(8 + Space(m)) \in Nat
  BY <1>2, AllocHolds
<1>4. << >> \in Seq(RecsOf(type)) /\ Len(<< >>) = 0
  OBVIOUS
<1>5. Sum(Sizes(<< >>)) = 0
  <2>1. Sizes(<< >>) = << >>
    BY DEF Sizes
  <2> QED
    BY <2>1, SumEmpty
<1>6. 8 + Space(m) = 8 + Space(m) + 2 * 0 + 0
  BY <1>1
<1>7. RecsInOrder(<< >>)
  BY DEF RecsInOrder
<1> QED
  BY <1>1, <1>2, <1>3, <1>4, <1>5, <1>6, <1>7 DEF Groups

\* After WithGroup there is a group of that text.
LEMMA WithGroupCounts ==
  ASSUME NEW d, Counted(d), d.hdr.group_type # 0, NEW m \in Msgs
  PROVE  /\ Counted(WithGroup(d, m)) /\ WithGroup(d, m).hdr.group_type = d.hdr.group_type
         /\ GroupOf(WithGroup(d, m), m) # 0
<1> DEFINE type == d.hdr.group_type
           size == 8 + Space(m)
           new == [msg |-> m, len |-> Space(m), recs |-> << >>,
                   db_size |-> size, alloc_size |-> alloc(size)]
           recs == PutGroup(d.recs, new)
           hdr == [d.hdr EXCEPT !.num_recs = @ + 1, !.db_size = @ + 2 + new.alloc_size]
<1>1. CASE GroupOf(d, m) # 0
  <2>1. WithGroup(d, m) = d
    BY <1>1 DEF WithGroup
  <2> QED
    BY <1>1, <2>1
<1>2. CASE GroupOf(d, m) = 0
  <2>1. WithGroup(d, m) = [recs |-> recs, hdr |-> hdr]
    BY <1>2 DEF WithGroup
  <2>2. new \in Groups(type) /\ new.msg = m
    BY NewGroup
  <2>3. new.alloc_size \in Nat
    BY <2>2, GroupType
  <2> HIDE DEF new
  <2>4. recs \in Seq(Groups(type)) /\ Put(d.recs, new, recs)
    BY <2>2, CountedType, GroupPut
  <2>12. GroupsInOrder(recs)
    <3>1. d.recs \in Seq(Groups(type)) /\ GroupsInOrder(d.recs)
      BY CountedType
    <3>2. \A g \in 1..Len(d.recs) : d.recs[g].msg # new.msg
      BY <1>2, <2>2, <3>1, GroupFound
    <3> HIDE DEF type
    <3> QED
      BY <2>2, <3>1, <3>2, GroupPutInOrder
  <2> HIDE DEF recs
  <2>5. PICK k \in 1..(Len(d.recs) + 1) : Inserted(d.recs, k, new, recs)
    BY <2>4 DEF Put
  <2>6. Sum(Areas(recs)) = Sum(Areas(d.recs)) + new.alloc_size /\ Len(recs) = Len(d.recs) + 1
    BY <2>2, <2>4, <2>5, CountedType, AreasPut
  <2>7. /\ hdr \in Hdrs /\ hdr.num_recs = d.hdr.num_recs + 1
        /\ hdr.db_size = d.hdr.db_size + 2 + new.alloc_size
        /\ hdr.group_type = type
    <3>1. d.hdr \in Hdrs /\ d.hdr.num_recs + 1 \in Nat
      BY CountedType
    <3>2. d.hdr.db_size + 2 + new.alloc_size \in Nat
      BY <2>3, CountedType
    <3> QED
      BY <3>1, <3>2 DEF Hdrs
  <2> HIDE DEF hdr
  <2>8. hdr.num_recs = Len(recs)
    BY <2>6, <2>7, CountedType
  <2>9. hdr.db_size = HDR + 2 * Len(recs) + Sum(Areas(recs))
    <3>1. d.hdr.db_size = HDR + 2 * Len(d.recs) + Sum(Areas(d.recs))
      BY CountedType
    <3>2. Len(d.recs) \in Nat /\ Sum(Areas(d.recs)) \in Nat
      BY CountedType
    <3> QED
      BY <2>3, <2>6, <2>7, <3>1, <3>2 DEF HDR
  <2>10. Counted([recs |-> recs, hdr |-> hdr])
    BY <2>4, <2>7, <2>8, <2>9, <2>12 DEF Counted
  <2>11. GroupOf([recs |-> recs, hdr |-> hdr], m) # 0
    <3>1. k \in 1..Len(recs)
      BY <2>4, <2>5, <2>6
    <3>2. recs[k].msg = m
      BY <2>2, <2>5 DEF Inserted
    <3> DEFINE w == [recs |-> recs, hdr |-> hdr]
    <3>3. w.recs = recs
      OBVIOUS
    <3> HIDE DEF w
    <3> QED
      BY <2>4, <3>1, <3>2, <3>3, GroupFound DEF w
  <2> QED
    BY <2>1, <2>7, <2>10, <2>11
<1> QED
  BY <1>1, <1>2

\* The header with the sizes counted anew.
LEMMA WithSizeSound ==
  ASSUME NEW hdr \in Hdrs, NEW n \in Nat, NEW size \in Nat \ {0}
  PROVE  /\ WithSize(hdr, n, size) \in Hdrs
         /\ WithSize(hdr, n, size).num_recs = n
         /\ WithSize(hdr, n, size).db_size = size
         /\ WithSize(hdr, n, size).alloc_size = alloc(size)
         /\ WithSize(hdr, n, size).group_type = hdr.group_type
  BY AllocHolds DEF WithSize, Hdrs

\* A database of these groups whose header counts them.
LEMMA CountsRight ==
  ASSUME NEW hdr \in Hdrs, hdr.group_type # 0, NEW recs \in Seq(Groups(hdr.group_type)),
         NEW size, size = HDR + 2 * Len(recs) + Sum(Areas(recs)), GroupsInOrder(recs)
  PROVE  /\ Sound([recs |-> recs, hdr |-> WithSize(hdr, Len(recs), size)])
         /\ WithSize(hdr, Len(recs), size).group_type = hdr.group_type
<1>1. Len(recs) \in Nat /\ Areas(recs) \in Seq(Nat)
  BY AreasType
<1>2. size \in Nat \ {0}
  <2>1. Sum(Areas(recs)) \in Nat
    BY <1>1, SumType
  <2> QED
    BY <1>1, <2>1 DEF HDR
<1>3. PICK n : n = Len(recs) /\ n \in Nat
  BY <1>1
<1> DEFINE h == WithSize(hdr, n, size)
<1>4. n \in Nat /\ size \in Nat \ {0}
  BY <1>2, <1>3
<1>5. /\ h \in Hdrs /\ h.num_recs = n
      /\ h.db_size = size /\ h.alloc_size = alloc(size)
      /\ h.group_type = hdr.group_type
  BY ONLY hdr \in Hdrs, <1>4, WithSizeSound
<1> HIDE DEF h
<1> QED
  BY <1>3, <1>5 DEF Sound, Counted, h

\* A group with one record more counts it.
LEMMA LargerGroup ==
  ASSUME NEW type, NEW old \in Groups(type), NEW rec \in RecsOf(type)
  PROVE  [old EXCEPT !.recs = PutRec(@, rec),
                     !.db_size = old.db_size + 2 + Size(rec),
                     !.alloc_size = alloc(old.db_size + 2 + Size(rec))] \in Groups(type)
<1> DEFINE recs == PutRec(old.recs, rec)
           size == old.db_size + 2 + Size(rec)
           group == [old EXCEPT !.recs = recs, !.db_size = size, !.alloc_size = alloc(size)]
<1>1. recs \in Seq(RecsOf(type)) /\ Put(old.recs, rec, recs)
  BY GroupType, RecPut
<1>11. RecsInOrder(recs)
  BY GroupType, RecPutInOrder
<1> HIDE DEF recs
<1>2. PICK k \in 1..(Len(old.recs) + 1) : Inserted(old.recs, k, rec, recs)
  BY <1>1 DEF Put
<1>3. /\ Sum(Sizes(recs)) = Sum(Sizes(old.recs)) + Size(rec)
      /\ Len(recs) = Len(old.recs) + 1
  BY <1>1, <1>2, GroupType, SizesPut
<1>4. Size(rec) \in Nat
  BY DEF RecsOf, Size
<1>5. /\ old.db_size = 8 + old.len + 2 * Len(old.recs) + Sum(Sizes(old.recs))
      /\ old.db_size \in Nat /\ old.len \in Nat /\ Sum(Sizes(old.recs)) \in Nat
      /\ Len(old.recs) \in Nat
  BY GroupType
<1>6. /\ size \in Nat \ {0}
      /\ size = 8 + old.len + 2 * Len(recs) + Sum(Sizes(recs))
  <2> DEFINE n == Len(old.recs)
             l == old.len
             x == Sum(Sizes(old.recs))
             z == Size(rec)
             b == old.db_size
  <2>1. /\ b = 8 + l + 2 * n + x /\ b \in Nat /\ l \in Nat /\ x \in Nat
        /\ n \in Nat /\ z \in Nat
    BY <1>4, <1>5
  <2>2. Sum(Sizes(recs)) = x + z /\ Len(recs) = n + 1 /\ size = b + 2 + z
    BY <1>3
  <2> HIDE DEF n, l, x, z, b, size
  <2>3. size \in Nat \ {0} /\ size = 8 + l + 2 * (n + 1) + (x + z)
    BY <2>1, <2>2
  <2> QED
    BY <2>2, <2>3 DEF l
<1> HIDE DEF size
<1>7. alloc(size) \in Nat
  BY <1>6, AllocHolds
<1>8. old \in [msg : Msgs, len : Nat, recs : Seq(RecsOf(type)), db_size : Nat, alloc_size : Nat]
  BY DEF Groups
<1>9. /\ group \in [msg : Msgs, len : Nat, recs : Seq(RecsOf(type)),
                    db_size : Nat, alloc_size : Nat]
      /\ group.recs = recs /\ group.db_size = size /\ group.alloc_size = alloc(size)
      /\ group.len = old.len
  BY <1>1, <1>6, <1>7, <1>8
<1>10. group \in Groups(type)
  <2> HIDE DEF group
  <2> QED
    BY <1>6, <1>9, <1>11 DEF Groups
<1> QED
  BY <1>10 DEF recs, size

\* add_schedule keeps the counts.
LEMMA AddSound ==
  ASSUME NEW d, Counted(d), NEW s, s.group_type = d.hdr.group_type,
         d.hdr.group_type # 0, NEW c \in Lines
  PROVE  /\ Sound(add_schedule(d, s, c))
         /\ add_schedule(d, s, c).hdr.group_type = d.hdr.group_type
<1> DEFINE type == d.hdr.group_type
           w == WithGroup(d, c.group)
           g == GroupOf(w, c.group)
           old == w.recs[g]
           rec == Rec(c, s.group_type)
           size == old.db_size + 2 + Size(rec)
           group == [old EXCEPT !.recs = PutRec(@, rec),
                                !.db_size = size, !.alloc_size = alloc(size)]
           recs == [w.recs EXCEPT ![g] = group]
           all == w.hdr.db_size + group.alloc_size - old.alloc_size
<1>1. add_schedule(d, s, c) = [recs |-> recs, hdr |-> WithSize(w.hdr, w.hdr.num_recs, all)]
  BY DEF add_schedule
<1>2. c.group \in Msgs
  BY DEF Lines
<1>3. Counted(w) /\ w.hdr.group_type = type /\ g # 0
  BY <1>2, WithGroupCounts
<1> HIDE DEF w
<1>4. w.recs \in Seq(Groups(type))
  BY <1>3, CountedType
<1>5. g \in 1..Len(w.recs)
  <2>1. g \in 0..Len(w.recs)
    BY <1>4, GroupFound
  <2> QED
    BY <1>3, <1>4, <2>1
<1> HIDE DEF g
<1>6. old \in Groups(type)
  BY <1>4, <1>5
<1>7. rec \in RecsOf(type)
  BY RecType
<1> HIDE DEF rec, old
<1>8. group \in Groups(type)
  BY <1>6, <1>7, LargerGroup
<1>13. group.msg = old.msg
  BY <1>6, GroupType
<1> HIDE DEF group
<1>14. GroupsInOrder(recs)
  <2>1. GroupsInOrder(w.recs)
    BY <1>3, CountedType
  <2> QED
    BY <1>4, <1>5, <1>8, <1>13, <2>1, GroupReplacedInOrder DEF old
<1>9. /\ recs \in Seq(Groups(type)) /\ Len(recs) = Len(w.recs)
      /\ Sum(Areas(recs)) = Sum(Areas(w.recs)) - old.alloc_size + group.alloc_size
  BY <1>4, <1>5, <1>8, AreasReplaced DEF old
<1> HIDE DEF recs
<1>10. all = HDR + 2 * Len(recs) + Sum(Areas(recs))
  <2>1. old.alloc_size \in Nat /\ group.alloc_size \in Nat
    BY <1>6, <1>8, GroupType
  <2>2. /\ w.hdr.db_size = HDR + 2 * Len(w.recs) + Sum(Areas(w.recs))
        /\ Len(w.recs) \in Nat /\ Sum(Areas(w.recs)) \in Nat
    BY <1>3, CountedType
  <2> QED
    BY <1>9, <2>1, <2>2 DEF HDR
<1> HIDE DEF all
<1>11. w.hdr \in Hdrs /\ w.hdr.num_recs = Len(recs)
  BY <1>3, <1>9, CountedType
<1>12. /\ Sound([recs |-> recs, hdr |-> WithSize(w.hdr, Len(recs), all)])
       /\ WithSize(w.hdr, Len(recs), all).group_type = w.hdr.group_type
  BY <1>3, <1>9, <1>10, <1>11, <1>14, CountsRight
<1> QED
  BY <1>1, <1>3, <1>11, <1>12

\* the loop body of add_schedule_file
LEMMA AddFileSound ==
  ASSUME NEW d, Sound(d), NEW s, s.group_type = d.hdr.group_type,
         d.hdr.group_type # 0, NEW c \in Lines
  PROVE  /\ Sound(add_schedule_file(d, s, c))
         /\ add_schedule_file(d, s, c).hdr.group_type = d.hdr.group_type
  BY AddSound DEF add_schedule_file, Sound

-----------------------------------------------------------------------------
(* Deleting *)

\* A group with one record less does not count it.
LEMMA SmallerGroup ==
  ASSUME NEW type, NEW old \in Groups(type), NEW k \in 1..Len(old.recs)
  PROVE  Shrunk(old, k) \in Groups(type)
<1> DEFINE recs == RemoveAt(old.recs, k)
           rec == old.recs[k]
           size == old.db_size - 2 - Size(rec)
           group == [old EXCEPT !.recs = recs, !.db_size = size, !.alloc_size = alloc(size)]
<1>1. old.recs \in Seq(RecsOf(type)) /\ Len(old.recs) \in Nat
  BY GroupType
<1>2. recs \in Seq(RecsOf(type)) /\ Inserted(recs, k, rec, old.recs)
  BY <1>1, RemoveAtTakes
<1>3. rec \in RecsOf(type)
  BY <1>1
<1>14. RecsInOrder(recs)
  BY <1>1, GroupType, RecTakenInOrder
<1> HIDE DEF recs, rec
<1>4. k \in 1..(Len(recs) + 1)
  BY <1>1, <1>2 DEF Inserted
<1>5. /\ Sum(Sizes(old.recs)) = Sum(Sizes(recs)) + Size(rec)
      /\ Len(old.recs) = Len(recs) + 1
  BY <1>1, <1>2, <1>3, <1>4, SizesPut
<1>6. Size(rec) \in Nat
  BY <1>3 DEF RecsOf, Size
<1>7. /\ old.db_size = 8 + old.len + 2 * Len(old.recs) + Sum(Sizes(old.recs))
      /\ old.db_size \in Nat /\ old.len \in Nat /\ Sum(Sizes(old.recs)) \in Nat
  BY GroupType
<1>8. Sum(Sizes(recs)) \in Nat /\ Len(recs) \in Nat
  <2>1. Sizes(recs) \in Seq(Nat) /\ Len(recs) \in Nat
    BY <1>2, SizesType
  <2> QED
    BY <2>1, SumType
<1>9. /\ size \in Nat \ {0}
      /\ size = 8 + old.len + 2 * Len(recs) + Sum(Sizes(recs))
  <2> DEFINE n == Len(recs)
             l == old.len
             x == Sum(Sizes(recs))
             z == Size(rec)
             b == old.db_size
  <2>1. /\ b = 8 + l + 2 * (n + 1) + (x + z) /\ b \in Nat /\ l \in Nat /\ x \in Nat
        /\ n \in Nat /\ z \in Nat
    BY <1>5, <1>6, <1>7, <1>8
  <2>2. size = b - 2 - z
    OBVIOUS
  <2> HIDE DEF n, l, x, z, b, size
  <2>3. size \in Nat \ {0} /\ size = 8 + l + 2 * n + x
    BY <2>1, <2>2
  <2> QED
    BY <2>3 DEF l, n, x
<1> HIDE DEF size
<1>10. alloc(size) \in Nat
  BY <1>9, AllocHolds
<1>11. old \in [msg : Msgs, len : Nat, recs : Seq(RecsOf(type)), db_size : Nat, alloc_size : Nat]
  BY DEF Groups
<1>12. /\ group \in [msg : Msgs, len : Nat, recs : Seq(RecsOf(type)),
                     db_size : Nat, alloc_size : Nat]
       /\ group.recs = recs /\ group.db_size = size /\ group.alloc_size = alloc(size)
       /\ group.len = old.len
  BY <1>2, <1>9, <1>10, <1>11
<1>13. group \in Groups(type)
  <2> HIDE DEF group
  <2> QED
    BY <1>9, <1>12, <1>14 DEF Groups
<1> QED
  BY <1>13 DEF recs, size, rec, Shrunk, Resized

\* Without the group its area is not counted.
LEMMA AreasTaken ==
  ASSUME NEW type, NEW s \in Seq(Groups(type)), NEW k \in 1..Len(s)
  PROVE  /\ RemoveAt(s, k) \in Seq(Groups(type)) /\ Len(s) = Len(RemoveAt(s, k)) + 1
         /\ Sum(Areas(s)) = Sum(Areas(RemoveAt(s, k))) + s[k].alloc_size
<1> DEFINE t == RemoveAt(s, k)
<1>1. t \in Seq(Groups(type)) /\ Inserted(t, k, s[k], s)
  BY RemoveAtTakes
<1> HIDE DEF t
<1>2. s[k] \in Groups(type) /\ Len(s) \in Nat
  OBVIOUS
<1>3. k \in 1..(Len(t) + 1)
  BY <1>1, <1>2 DEF Inserted
<1>4. Sum(Areas(s)) = Sum(Areas(t)) + s[k].alloc_size /\ Len(s) = Len(t) + 1
  BY <1>1, <1>2, <1>3, AreasPut
<1> QED
  BY <1>1, <1>4 DEF t

LEMMA NumRecsType ==
  ASSUME NEW type, NEW groups \in Seq(Groups(type))
  PROVE  /\ NumRecs(groups) \in Seq(Nat) /\ Len(NumRecs(groups)) = Len(groups)
         /\ \A j \in 1..Len(groups) : NumRecs(groups)[j] = Len(groups[j].recs)
<1>1. ASSUME NEW j \in 1..Len(groups) PROVE Len(groups[j].recs) \in Nat
  <2> DEFINE g == groups[j]
  <2>1. g \in Groups(type)
    OBVIOUS
  <2> HIDE DEF g
  <2>2. g.recs \in Seq(RecsOf(type))
    BY <2>1, GroupType
  <2>3. Len(g.recs) \in Nat
    BY <2>2
  <2> QED
    BY <2>3 DEF g
<1>2. DOMAIN groups = 1..Len(groups) /\ Len(groups) \in Nat
  OBVIOUS
<1> DEFINE z == NumRecs(groups)
<1>3. z \in [1..Len(groups) -> Nat] /\ \A j \in 1..Len(groups) : z[j] = Len(groups[j].recs)
  BY <1>1, <1>2 DEF NumRecs
<1> HIDE DEF z
<1>4. z \in Seq(Nat) /\ Len(z) = Len(groups)
  BY <1>2, <1>3, SeqDef
<1> QED
  BY <1>3, <1>4 DEF z

\* del_schedule keeps the counts, whichever index it is given.
LEMMA DelSound ==
  ASSUME NEW d, Sound(d), NEW i \in Int
  PROVE  /\ Sound(del_schedule(d, i))
         /\ del_schedule(d, i).hdr.group_type = d.hdr.group_type
<1> DEFINE type == d.hdr.group_type
           at == Position(NumRecs(d.recs), i)
           g == at[1]
           k == at[2]
           old == d.recs[g]
           group == Shrunk(old, k)
           less == d.hdr.db_size - 2 - old.alloc_size
           all == d.hdr.db_size + group.alloc_size - old.alloc_size
<1>1. del_schedule(d, i) =
        IF g = 0 THEN d
        ELSE IF group.recs = << >>
        THEN [recs |-> RemoveAt(d.recs, g), hdr |-> WithSize(d.hdr, d.hdr.num_recs - 1, less)]
        ELSE [recs |-> [d.recs EXCEPT ![g] = group],
              hdr |-> WithSize(d.hdr, d.hdr.num_recs, all)]
  BY DEF del_schedule
<1>2. CASE g = 0
  BY <1>1, <1>2
<1>3. CASE g # 0
  <2>1. Counted(d) /\ d.recs \in Seq(Groups(type)) /\ Len(d.recs) \in Nat
    BY CountedType DEF Sound
  <2>2. /\ NumRecs(d.recs) \in Seq(Nat) /\ Len(NumRecs(d.recs)) = Len(d.recs)
        /\ \A j \in 1..Len(d.recs) : NumRecs(d.recs)[j] = Len(d.recs[j].recs)
    BY <2>1, NumRecsType
  <2>3. g \in 1..Len(d.recs) /\ k \in 1..Len(d.recs[g].recs)
    <3> DEFINE lens == NumRecs(d.recs)
    <3> HIDE DEF lens
    <3>1. lens \in Seq(Nat) /\ Position(lens, i)[1] # 0
      BY <1>3, <2>2 DEF lens
    <3>2. /\ Position(lens, i)[1] \in 1..Len(lens)
          /\ Position(lens, i)[2] \in 1..lens[Position(lens, i)[1]]
      BY <3>1, PositionIsThere
    <3> QED
      BY <2>2, <3>2 DEF lens
  <2> HIDE DEF at, g, k
  <2>4. old \in Groups(type)
    BY <2>1, <2>3
  <2>5. group \in Groups(type)
    BY <2>3, <2>4, SmallerGroup
  <2>11. group.msg = old.msg
    BY <2>4, GroupType DEF Shrunk, Resized
  <2>12. GroupsInOrder(d.recs)
    BY <2>1, CountedType
  <2> HIDE DEF group
  <2>6. old.alloc_size \in Nat /\ group.alloc_size \in Nat
    BY <2>4, <2>5, GroupType
  <2>7. /\ d.hdr.db_size = HDR + 2 * Len(d.recs) + Sum(Areas(d.recs))
        /\ Sum(Areas(d.recs)) \in Nat /\ d.hdr \in Hdrs /\ d.hdr.num_recs = Len(d.recs)
    BY <2>1, CountedType
  <2>8. type # 0
    BY <2>1, <2>3, CountedType
  <2>9. CASE group.recs = << >>
    <3> DEFINE recs == RemoveAt(d.recs, g)
    <3>1. /\ recs \in Seq(Groups(type)) /\ Len(d.recs) = Len(recs) + 1
          /\ Sum(Areas(d.recs)) = Sum(Areas(recs)) + old.alloc_size
      BY <2>1, <2>3, AreasTaken
    <3>6. GroupsInOrder(recs)
      BY <2>1, <2>3, <2>12, GroupTakenInOrder
    <3> HIDE DEF recs
    <3>2. Len(recs) \in Nat /\ Sum(Areas(recs)) \in Nat
      <4>1. Areas(recs) \in Seq(Nat) /\ Len(recs) \in Nat
        BY <3>1, AreasType
      <4> QED
        BY <4>1, SumType
    <3>3. less = HDR + 2 * Len(recs) + Sum(Areas(recs)) /\ d.hdr.num_recs - 1 = Len(recs)
      <4> DEFINE before == Sum(Areas(d.recs))
                 after == Sum(Areas(recs))
                 area == old.alloc_size
      <4>1. /\ d.hdr.db_size = HDR + 2 * Len(d.recs) + before
            /\ d.hdr.num_recs = Len(d.recs) /\ Len(d.recs) = Len(recs) + 1
            /\ before = after + area
        BY <2>7, <3>1
      <4>2. after \in Nat /\ area \in Nat /\ Len(recs) \in Nat
        BY <2>6, <3>2
      <4>3. less = d.hdr.db_size - 2 - area
        OBVIOUS
      <4> HIDE DEF before, after, area, less
      <4>4. d.hdr.db_size = HDR + 2 * (Len(recs) + 1) + (after + area)
        BY <4>1
      <4>5. less = HDR + 2 * Len(recs) + after
        BY <4>2, <4>3, <4>4 DEF HDR
      <4> QED
        BY <4>1, <4>2, <4>5 DEF after
    <3>4. del_schedule(d, i) = [recs |-> recs, hdr |-> WithSize(d.hdr, Len(recs), less)]
      BY <1>1, <1>3, <2>9, <3>3 DEF recs
    <3> HIDE DEF less
    <3>5. /\ Sound([recs |-> recs, hdr |-> WithSize(d.hdr, Len(recs), less)])
          /\ WithSize(d.hdr, Len(recs), less).group_type = type
      BY <2>7, <2>8, <3>1, <3>3, <3>6, CountsRight
    <3> QED
      BY <3>4, <3>5
  <2>10. CASE group.recs # << >>
    <3> DEFINE recs == [d.recs EXCEPT ![g] = group]
    <3>1. /\ recs \in Seq(Groups(type)) /\ Len(recs) = Len(d.recs)
          /\ Sum(Areas(recs)) = Sum(Areas(d.recs)) - old.alloc_size + group.alloc_size
      BY <2>1, <2>3, <2>5, AreasReplaced
    <3>5. GroupsInOrder(recs)
      BY <2>1, <2>3, <2>5, <2>11, <2>12, GroupReplacedInOrder
    <3> HIDE DEF recs
    <3>2. all = HDR + 2 * Len(recs) + Sum(Areas(recs)) /\ d.hdr.num_recs = Len(recs)
      BY <2>1, <2>6, <2>7, <3>1 DEF HDR
    <3>3. del_schedule(d, i) = [recs |-> recs, hdr |-> WithSize(d.hdr, Len(recs), all)]
      BY <1>1, <1>3, <2>10, <3>2 DEF recs
    <3> HIDE DEF all
    <3>4. /\ Sound([recs |-> recs, hdr |-> WithSize(d.hdr, Len(recs), all)])
          /\ WithSize(d.hdr, Len(recs), all).group_type = type
      BY <2>7, <2>8, <3>1, <3>2, <3>5, CountsRight
    <3> QED
      BY <3>3, <3>4
  <2> QED
    BY <2>9, <2>10
<1> QED
  BY <1>2, <1>3

\* The place found is an index, or -1.
LEMMA FindType ==
  ASSUME NEW d, Sound(d), NEW s, NEW c
  PROVE  find_schedule(d, s, c) \in Int
<1> DEFINE g == GroupOf(d, c.group)
           I == {j \in 1..Len(d.recs[g].recs) :
                   d.recs[g].recs[j].when = c.when /\ d.recs[g].recs[j].msg = c.msg}
<1>1. d.recs \in Seq(Groups(d.hdr.group_type)) /\ g \in 0..Len(d.recs)
  BY CountedType, GroupFound DEF Sound
<1>2. CASE g = 0 \/ s.group_type = 0
  BY <1>2 DEF find_schedule
<1>3. CASE ~(g = 0 \/ s.group_type = 0)
  <2>1. find_schedule(d, s, c) = (IF I # {} THEN Min(I) ELSE 0) - 1
    BY <1>3 DEF find_schedule, SelectInSeq
  <2> HIDE DEF g
  <2>2. d.recs[g] \in Groups(d.hdr.group_type)
    BY <1>1, <1>3
  <2>3. d.recs[g].recs \in Seq(RecsOf(d.hdr.group_type))
    BY <2>2, GroupType
  <2>4. I \subseteq 1..Len(d.recs[g].recs) /\ Len(d.recs[g].recs) \in Nat
    BY <2>3
  <2> HIDE DEF I
  <2>5. (IF I # {} THEN Min(I) ELSE 0) \in 0..Len(d.recs[g].recs)
    BY <2>3, <2>4, PlaceFound
  <2> QED
    BY <2>1, <2>4, <2>5
<1> QED
  BY <1>2, <1>3

LEMMA DelFileSound ==
  ASSUME NEW d, Sound(d), NEW s, NEW c
  PROVE  /\ Sound(del_schedule_file(d, s, c))
         /\ del_schedule_file(d, s, c).hdr.group_type = d.hdr.group_type
  BY FindType, DelSound DEF del_schedule_file

-----------------------------------------------------------------------------
(* Headers *)

\* A new description.
LEMMA MsgSound ==
  ASSUME NEW d, Sound(d), NEW m \in Descs
  PROVE  /\ Sound(update_schedule_msg(d, m))
         /\ update_schedule_msg(d, m).hdr.group_type = d.hdr.group_type
         /\ update_schedule_msg(d, m).recs = d.recs
         /\ update_schedule_msg(d, m).hdr.num_recs = d.hdr.num_recs
<1> DEFINE h == [d.hdr EXCEPT !.msg = m]
<1>1. Counted(d) /\ d.hdr \in Hdrs /\ d = [recs |-> d.recs, hdr |-> d.hdr]
  BY CountedType DEF Sound
<1>2. update_schedule_msg(d, m) = [recs |-> d.recs, hdr |-> h]
  BY <1>1 DEF update_schedule_msg
<1>3. /\ h \in Hdrs /\ h.num_recs = d.hdr.num_recs /\ h.group_type = d.hdr.group_type
      /\ h.db_size = d.hdr.db_size /\ h.alloc_size = d.hdr.alloc_size
  BY <1>1 DEF Hdrs
<1> HIDE DEF h
<1>4. Sound([recs |-> d.recs, hdr |-> h])
  BY <1>1, <1>3, CountedType DEF Sound, Counted
<1> QED
  BY <1>2, <1>3, <1>4

\* A new type, unless the database keeps the one it has.
LEMMA TypeSound ==
  ASSUME NEW d, Sound(d), NEW type \in GroupTypes
  PROVE  /\ Sound(update_schedule_group_type(d, type))
         /\ update_schedule_group_type(d, type).hdr.group_type
              = IF KeepsType(d, type) THEN d.hdr.group_type ELSE type
<1> DEFINE h == [d.hdr EXCEPT !.group_type = type]
<1>1. Counted(d) /\ d.hdr \in Hdrs /\ d = [recs |-> d.recs, hdr |-> d.hdr]
  BY CountedType DEF Sound
<1>2. CASE KeepsType(d, type)
  BY <1>2 DEF update_schedule_group_type
<1>3. CASE ~KeepsType(d, type)
  <2>1. update_schedule_group_type(d, type) = [recs |-> d.recs, hdr |-> h]
    BY <1>1, <1>3 DEF update_schedule_group_type
  <2>2. /\ h \in Hdrs /\ h.num_recs = d.hdr.num_recs /\ h.group_type = type
        /\ h.db_size = d.hdr.db_size /\ h.alloc_size = d.hdr.alloc_size
    BY <1>1 DEF Hdrs
  <2> HIDE DEF h
  <2>3. d.recs \in Seq(Groups(type))
    <3>1. CASE d.hdr.group_type = type
      BY <1>1, <3>1, CountedType
    <3>2. CASE d.hdr.group_type # type
      <4>1. d.recs = << >>
        <5>1. d.hdr.group_type = 0 \/ d.hdr.num_recs = 0
          BY <1>3, <3>2 DEF KeepsType
        <5>2. d.hdr.num_recs = 0 => d.recs = << >>
          BY <1>1, CountedType
        <5> QED
          BY <1>1, <5>1, <5>2, CountedType
      <4> QED
        BY <4>1
    <3> QED
      BY <3>1, <3>2
  <2>4. type # 0
    BY DEF GroupTypes
  <2>5. Sound([recs |-> d.recs, hdr |-> h])
    BY <1>1, <2>2, <2>3, <2>4, CountedType DEF Sound, Counted
  <2> QED
    BY <1>3, <2>1, <2>2, <2>5
<1> QED
  BY <1>2, <1>3

\* An accepted header line.
LEMMA DescribedSound ==
  ASSUME NEW d, Sound(d), NEW m \in Descs, NEW type \in GroupTypes
  PROVE  /\ Sound(Described(d, m, type))
         /\ Described(d, m, type).hdr.group_type
              = IF KeepsType(d, type) THEN d.hdr.group_type ELSE type
<1> DEFINE e == update_schedule_msg(d, m)
<1>1. /\ Sound(e) /\ e.hdr.group_type = d.hdr.group_type
      /\ e.hdr.num_recs = d.hdr.num_recs
  BY MsgSound
<1>2. Described(d, m, type) = update_schedule_group_type(e, type)
  BY DEF Described
<1>3. KeepsType(e, type) <=> KeepsType(d, type)
  BY <1>1 DEF KeepsType
<1> HIDE DEF e
<1> QED
  BY <1>1, <1>2, <1>3, TypeSound

\* An empty database.
LEMMA InitSound ==
  ASSUME NEW s, s.group_type \in GroupTypes \cup {0}
  PROVE  Sound(init_schedule(s)) /\ init_schedule(s).hdr.group_type = s.group_type
<1> DEFINE h == [num_recs |-> 0, group_type |-> s.group_type, msg |-> Default,
                 db_size |-> HDR, alloc_size |-> alloc(HDR)]
<1>1. init_schedule(s) = [recs |-> << >>, hdr |-> h]
  BY DEF init_schedule
<1>2. alloc(HDR) \in Nat /\ HDR \in Nat
  <2>1. HDR \in Nat \ {0}
    BY DEF HDR
  <2> QED
    BY <2>1, AllocHolds
<1>3. /\ h \in Hdrs /\ h.num_recs = 0 /\ h.group_type = s.group_type
      /\ h.db_size = HDR /\ h.alloc_size = alloc(HDR)
  BY <1>2 DEF Hdrs
<1> HIDE DEF h
<1>4. << >> \in Seq(Groups(s.group_type)) /\ Len(<< >>) = 0
  OBVIOUS
<1>5. Sum(Areas(<< >>)) = 0
  <2>1. Areas(<< >>) = << >>
    BY DEF Areas
  <2> QED
    BY <2>1, SumEmpty
<1>6. HDR = HDR + 2 * 0 + 0
  BY <1>2
<1>7. GroupsInOrder(<< >>)
  BY DEF GroupsInOrder
<1> QED
  BY <1>1, <1>3, <1>4, <1>5, <1>6, <1>7 DEF Sound, Counted

-----------------------------------------------------------------------------
(* Many steps *)

\* The databases of a type that add and delete work on.
SoundOf(d, type) == Sound(d) /\ d.hdr.group_type = type

\* What lines make of an empty database.
LEMMA FilledSound ==
  ASSUME NEW type \in GroupTypes \cup {0}, NEW s, s.group_type = type,
         NEW lines \in Seq(Lines), type = 0 => lines = << >>
  PROVE  SoundOf(Filled(s, lines), type)
<1> DEFINE N == Len(lines)
           D == {d \in [recs : Seq(Groups(type)), hdr : Hdrs] : SoundOf(d, type)}
           g == [k \in 1..N |-> [d \in D |-> add_schedule(d, s, lines[k])]]
           first == init_schedule(s)
           Body(h) == [n \in 0..N |-> IF n = 0 THEN first
                                      ELSE add_schedule(h[n - 1], s, lines[n])]
           upTo == CHOOSE h : h = Body(h)
<1>1. N \in Nat /\ \A k \in 1..N : lines[k] \in Lines
  OBVIOUS
<1>2. \A d : SoundOf(d, type) => d \in D
  <2> SUFFICES ASSUME NEW d, SoundOf(d, type) PROVE d \in D
    OBVIOUS
  <2>1. /\ d.recs \in Seq(Groups(type)) /\ d.hdr \in Hdrs
        /\ d = [recs |-> d.recs, hdr |-> d.hdr]
    BY CountedType DEF SoundOf, Sound
  <2> QED
    BY <2>1
<1>3. \A d \in D : SoundOf(d, type)
  OBVIOUS
<1> HIDE DEF D
<1>4. first \in D
  <2>1. SoundOf(first, type)
    BY InitSound DEF SoundOf
  <2> QED
    BY <1>2, <2>1
<1> HIDE DEF first
<1>5. ASSUME NEW k \in 1..N, NEW d \in D PROVE add_schedule(d, s, lines[k]) \in D
  <2>1. type # 0 /\ lines[k] \in Lines
    <3>1. lines # << >>
      BY <1>1
    <3> QED
      BY <1>1, <3>1
  <2>2. Counted(d) /\ d.hdr.group_type = type
    BY <1>3 DEF SoundOf, Sound
  <2>3. SoundOf(add_schedule(d, s, lines[k]), type)
    BY <2>1, <2>2, AddSound DEF SoundOf
  <2> QED
    BY <1>2, <2>3
<1>6. g \in [1..N -> [D -> D]]
  BY <1>5
<1>7. PICK f : Iterates(f, D, N, first, g)
  <2> HIDE DEF g
  <2> QED
    BY <1>1, <1>4, <1>6, Iteration
<1>8. f = Body(f)
  <2>1. f \in [0..N -> D] /\ f[0] = first /\ \A k \in 1..N : f[k] = g[k][f[k - 1]]
    BY <1>7 DEF Iterates
  <2>2. ASSUME NEW n \in 0..N
        PROVE  f[n] = IF n = 0 THEN first ELSE add_schedule(f[n - 1], s, lines[n])
    <3>1. CASE n = 0
      BY <2>1, <3>1
    <3>2. CASE n # 0
      <4>1. n \in 1..N /\ n - 1 \in 0..N
        BY <1>1, <3>2
      <4>2. f[n - 1] \in D
        BY <2>1, <4>1
      <4> QED
        BY <2>1, <3>2, <4>1, <4>2
    <3> QED
      BY <3>1, <3>2
  <2> HIDE DEF g
  <2> QED
    BY <2>1, <2>2
<1>9. upTo = Body(upTo)
  BY <1>8
<1>10. \A n \in 0..N : upTo[n] = IF n = 0 THEN first ELSE add_schedule(upTo[n - 1], s, lines[n])
  <2> HIDE DEF upTo
  <2> QED
    BY <1>9
<1>11. Filled(s, lines) = upTo[N]
  BY DEF Filled, Made, first
<1> HIDE DEF upTo
<1>12. upTo[0] \in D
  BY <1>1, <1>4, <1>10
<1>13. \A n \in 1..N : upTo[n - 1] \in D => upTo[n] \in D
  <2> SUFFICES ASSUME NEW n \in 1..N, upTo[n - 1] \in D PROVE upTo[n] \in D
    OBVIOUS
  <2>1. upTo[n] = add_schedule(upTo[n - 1], s, lines[n])
    BY <1>1, <1>10
  <2> QED
    BY <1>5, <2>1
<1>14. upTo[N] \in D
  <2>1. \A n \in 0..N : upTo[n] \in D
    BY <1>1, <1>12, <1>13, HandedOn
  <2> QED
    BY <1>1, <2>1
<1> QED
  BY <1>3, <1>11, <1>14

\* What deleting the first record again and again leaves.
LEMMA FirstsDeletedSound ==
  ASSUME NEW d, Sound(d), NEW N \in Nat
  PROVE  SoundOf(FirstsDeleted(del_schedule, d, N), d.hdr.group_type)
<1> DEFINE type == d.hdr.group_type
           D == {e \in [recs : Seq(Groups(type)), hdr : Hdrs] : SoundOf(e, type)}
           g == [k \in 1..N |-> [e \in D |-> del_schedule(e, 0)]]
           Body(h) == [n \in 0..N |-> IF n = 0 THEN d ELSE del_schedule(h[n - 1], 0)]
           after == CHOOSE h : h = Body(h)
<1>1. \A e : SoundOf(e, type) => e \in D
  <2> SUFFICES ASSUME NEW e, SoundOf(e, type) PROVE e \in D
    OBVIOUS
  <2>1. /\ e.recs \in Seq(Groups(type)) /\ e.hdr \in Hdrs
        /\ e = [recs |-> e.recs, hdr |-> e.hdr]
    BY CountedType DEF SoundOf, Sound
  <2> QED
    BY <2>1
<1>2. \A e \in D : SoundOf(e, type)
  OBVIOUS
<1> HIDE DEF D
<1>3. d \in D
  BY <1>1 DEF SoundOf
<1>4. ASSUME NEW e \in D PROVE del_schedule(e, 0) \in D
  <2>1. Sound(e) /\ e.hdr.group_type = type
    BY <1>2 DEF SoundOf
  <2>2. SoundOf(del_schedule(e, 0), type)
    BY <2>1, DelSound DEF SoundOf
  <2> QED
    BY <1>1, <2>2
<1>5. g \in [1..N -> [D -> D]]
  BY <1>4
<1>6. PICK f : Iterates(f, D, N, d, g)
  <2> HIDE DEF g
  <2> QED
    BY <1>3, <1>5, Iteration
<1>7. f = Body(f)
  <2>1. f \in [0..N -> D] /\ f[0] = d /\ \A k \in 1..N : f[k] = g[k][f[k - 1]]
    BY <1>6 DEF Iterates
  <2>2. ASSUME NEW n \in 0..N
        PROVE  f[n] = IF n = 0 THEN d ELSE del_schedule(f[n - 1], 0)
    <3>1. CASE n = 0
      BY <2>1, <3>1
    <3>2. CASE n # 0
      <4>1. n \in 1..N /\ n - 1 \in 0..N
        BY <3>2
      <4>2. f[n - 1] \in D
        BY <2>1, <4>1
      <4> QED
        BY <2>1, <3>2, <4>1, <4>2
    <3> QED
      BY <3>1, <3>2
  <2> HIDE DEF g
  <2> QED
    BY <2>1, <2>2
<1>8. after = Body(after)
  BY <1>7
<1>9. \A n \in 0..N : after[n] = IF n = 0 THEN d ELSE del_schedule(after[n - 1], 0)
  <2> HIDE DEF after
  <2> QED
    BY <1>8
<1>10. FirstsDeleted(del_schedule, d, N) = after[N]
  BY DEF FirstsDeleted
<1> HIDE DEF after
<1>11. after[0] \in D
  BY <1>3, <1>9
<1>12. \A n \in 1..N : after[n - 1] \in D => after[n] \in D
  <2> SUFFICES ASSUME NEW n \in 1..N, after[n - 1] \in D PROVE after[n] \in D
    OBVIOUS
  <2>1. after[n] = del_schedule(after[n - 1], 0)
    BY <1>9
  <2> QED
    BY <1>4, <2>1
<1>13. after[N] \in D
  <2>1. \A n \in 0..N : after[n] \in D
    BY <1>11, <1>12, HandedOn
  <2> QED
    BY <2>1
<1> QED
  BY <1>2, <1>10, <1>13

\* what del all of them leaves
LEMMA EmptiedSound ==
  ASSUME NEW d, Sound(d)
  PROVE  SoundOf(Emptied(d), d.hdr.group_type)
<1>1. d.recs \in Seq(Groups(d.hdr.group_type))
  BY CountedType DEF Sound
<1>2. NumAll(d) \in Nat
  BY <1>1, NumRecsType, SumType DEF NumAll
<1> QED
  BY <1>2, FirstsDeletedSound DEF Emptied

-----------------------------------------------------------------------------
(* The watch *)

\* The records of a group follow the table of their offsets.
GroupLayout(g) == Offsets(8 + g.len + 2 * Len(g.recs), Sizes(g.recs))

LEMMA GroupLaysOut ==
  ASSUME NEW type, NEW g \in Groups(type)
  PROVE  LET a == GroupAdd(g)
             off == GroupLayout(g)
         IN /\ a.hdr = [num_recs |-> Len(g.recs), msg |-> g.msg, len |-> g.len,
                        db_size |-> g.db_size, alloc_size |-> g.alloc_size]
            /\ a.off = off /\ DOMAIN a.at = Range(off)
            /\ DOMAIN off = 1..Len(g.recs)
            /\ \A k \in 1..Len(g.recs) : a.at[off[k]] = g.recs[k]
<1> DEFINE hdr == [num_recs |-> Len(g.recs), msg |-> g.msg, len |-> g.len,
                   db_size |-> g.db_size, alloc_size |-> g.alloc_size]
           recs == g.recs
           start == 8 + g.len + 2 * Len(recs)
           off == GroupLayout(g)
           at == [o \in Range(off) |-> recs[CHOOSE j \in DOMAIN recs : off[j] = o]]
           a == GroupAdd(g)
<1>1. a = [hdr |-> hdr, off |-> off, at |-> at]
  BY DEF GroupAdd, Table, Sizes, GroupLayout
<1>2. recs \in Seq(RecsOf(type)) /\ Len(recs) \in Nat /\ start \in Nat
  BY GroupType
<1>3. /\ Sizes(recs) \in Seq(Nat) /\ Len(Sizes(recs)) = Len(recs)
      /\ DOMAIN recs = 1..Len(recs)
      /\ \A k \in 1..Len(recs) : Sizes(recs)[k] > 0
  BY <1>2, SizesType
<1>4. DOMAIN off = DOMAIN recs /\ \A i, j \in DOMAIN recs : off[i] = off[j] => i = j
  <2> HIDE DEF start
  <2>1. /\ DOMAIN Offsets(start, Sizes(recs)) = DOMAIN recs
        /\ \A i, j \in DOMAIN recs :
              Offsets(start, Sizes(recs))[i] = Offsets(start, Sizes(recs))[j] => i = j
    BY <1>2, <1>3, OffsetsDiffer
  <2> QED
    BY <2>1 DEF GroupLayout, start
<1> HIDE DEF off
<1>5. ASSUME NEW k \in DOMAIN recs PROVE at[off[k]] = recs[k]
  <2>1. at = [o \in Range(off) |-> recs[CHOOSE j \in DOMAIN recs : off[j] = o]]
    OBVIOUS
  <2>2. off[k] \in Range(off)
    BY <1>4 DEF Range
  <2>3. (CHOOSE j \in DOMAIN recs : off[j] = off[k]) = k
    BY <1>4
  <2> HIDE DEF at, recs
  <2>4. at[off[k]] = recs[CHOOSE j \in DOMAIN recs : off[j] = off[k]]
    BY <2>1, <2>2
  <2> QED
    BY <2>3, <2>4
<1>6. DOMAIN at = Range(off)
  OBVIOUS
<1> HIDE DEF at, a
<1> QED
  BY <1>1, <1>3, <1>4, <1>5, <1>6 DEF off, a

\* A group read from its area is the group that was laid out there.
LEMMA GroupReadBack ==
  ASSUME NEW type, NEW g \in Groups(type)
  PROVE  /\ Listed(GroupAdd(g)) = g.recs
         /\ GroupAdd(g).hdr = [num_recs |-> Len(g.recs), msg |-> g.msg, len |-> g.len,
                               db_size |-> g.db_size, alloc_size |-> g.alloc_size]
<1> DEFINE a == GroupAdd(g)
           off == GroupLayout(g)
           recs == g.recs
<1>1. /\ a.hdr = [num_recs |-> Len(recs), msg |-> g.msg, len |-> g.len,
                  db_size |-> g.db_size, alloc_size |-> g.alloc_size]
      /\ a.off = off /\ \A k \in 1..Len(recs) : a.at[off[k]] = recs[k]
  BY GroupLaysOut
<1>2. recs \in Seq(RecsOf(type))
  BY GroupType
<1> HIDE DEF a, off, recs
<1>3. recs = [k \in 1..Len(recs) |-> recs[k]]
  BY <1>2
<1>4. Listed(a) = [k \in 1..Len(recs) |-> a.at[off[k]]]
  BY <1>1 DEF Listed
<1>5. Listed(a) = recs
  BY <1>1, <1>3, <1>4
<1> QED
  BY <1>1, <1>5 DEF a, recs

\* create_schedule: the areas of the groups follow the table of their offsets.
Layout(d) == Offsets(HDR + 2 * d.hdr.num_recs, Areas(d.recs))

LEMMA CreateLaysOut ==
  ASSUME NEW d, Sound(d)
  PROVE  LET im == create_schedule(d)
             off == Layout(d)
         IN /\ im.hdr = d.hdr /\ im.off = off /\ DOMAIN im.at = Range(off)
            /\ DOMAIN off = 1..Len(d.recs)
            /\ \A k \in 1..Len(d.recs) : im.at[off[k]] = GroupAdd(d.recs[k])
<1> DEFINE recs == d.recs
           off == Layout(d)
           at == [o \in Range(off) |-> recs[CHOOSE j \in DOMAIN recs : off[j] = o]]
           all == [o \in Range(off) |-> GroupAdd(at[o])]
           im == create_schedule(d)
<1>1. im = [hdr |-> d.hdr, off |-> off, at |-> all]
  <2> DEFINE t == Table(d.hdr, HDR, recs, LAMBDA g : g.alloc_size)
  <2>1. t = [hdr |-> d.hdr, off |-> off, at |-> at]
    BY DEF Table, Areas, Layout
  <2>2. im = [t EXCEPT !.at = [o \in DOMAIN t.at |-> GroupAdd(t.at[o])]]
    BY DEF create_schedule
  <2> HIDE DEF t
  <2>3. t.at = at /\ DOMAIN t.at = Range(off)
    BY <2>1
  <2>4. [o \in DOMAIN t.at |-> GroupAdd(t.at[o])] = all
    BY <2>3
  <2> HIDE DEF all, off, at
  <2> QED
    BY <2>1, <2>2, <2>4
<1>2. /\ Counted(d) /\ recs \in Seq(Groups(d.hdr.group_type)) /\ Len(recs) \in Nat
      /\ d.hdr.num_recs \in Nat
  BY CountedType DEF Sound
<1>3. /\ Areas(recs) \in Seq(Nat) /\ Len(Areas(recs)) = Len(recs)
      /\ DOMAIN recs = 1..Len(recs)
      /\ \A k \in 1..Len(recs) : Areas(recs)[k] > 0
  BY <1>2, AreasType
<1>4. DOMAIN off = DOMAIN recs /\ \A i, j \in DOMAIN recs : off[i] = off[j] => i = j
  <2> DEFINE start == HDR + 2 * d.hdr.num_recs
  <2>1. start \in Nat
    BY <1>2 DEF HDR
  <2> HIDE DEF start
  <2>2. /\ DOMAIN Offsets(start, Areas(recs)) = DOMAIN recs
        /\ \A i, j \in DOMAIN recs :
              Offsets(start, Areas(recs))[i] = Offsets(start, Areas(recs))[j] => i = j
    BY <1>3, <2>1, OffsetsDiffer
  <2> QED
    BY <2>2 DEF Layout, start
<1> HIDE DEF off
<1>5. ASSUME NEW k \in DOMAIN recs PROVE all[off[k]] = GroupAdd(recs[k])
  <2>1. at[off[k]] = recs[k]
    <3>1. at = [o \in Range(off) |-> recs[CHOOSE j \in DOMAIN recs : off[j] = o]]
      OBVIOUS
    <3> HIDE DEF at, recs
    <3> QED
      BY <1>2, <1>4, <3>1, TableFinds
  <2>2. off[k] \in Range(off)
    BY <1>4 DEF Range
  <2> HIDE DEF at
  <2> QED
    BY <2>1, <2>2
<1>6. DOMAIN all = Range(off)
  OBVIOUS
<1> HIDE DEF all, im
<1> QED
  BY <1>1, <1>3, <1>4, <1>5, <1>6 DEF off, im

\* What is stored is what will be read.
LEMMA ReadBack ==
  ASSUME NEW d, Sound(d)
  PROVE  read_schedule(create_schedule(d)) = d
<1> DEFINE im == create_schedule(d)
           off == Layout(d)
           type == d.hdr.group_type
           Group(a) == [msg |-> a.hdr.msg, len |-> a.hdr.len, recs |-> Listed(a),
                        db_size |-> a.hdr.db_size, alloc_size |-> a.hdr.alloc_size]
<1>1. /\ im.hdr = d.hdr /\ im.off = off
      /\ \A k \in 1..Len(d.recs) : im.at[off[k]] = GroupAdd(d.recs[k])
  BY CreateLaysOut
<1>2. /\ Counted(d) /\ d.recs \in Seq(Groups(type)) /\ Len(d.recs) \in Nat
      /\ d.hdr.num_recs = Len(d.recs) /\ d = [recs |-> d.recs, hdr |-> d.hdr]
  BY CountedType DEF Sound
<1> HIDE DEF im, off
<1>3. read_schedule(im) = [hdr |-> im.hdr,
                           recs |-> [k \in 1..im.hdr.num_recs |-> Group(im.at[im.off[k]])]]
  BY DEF read_schedule
<1>4. ASSUME NEW k \in 1..Len(d.recs) PROVE Group(im.at[im.off[k]]) = d.recs[k]
  <2> DEFINE g == d.recs[k]
             a == GroupAdd(g)
  <2>1. im.at[im.off[k]] = a
    BY <1>1
  <2>2. g \in Groups(type)
    BY <1>2
  <2> HIDE DEF g
  <2>3. /\ Listed(a) = g.recs
        /\ a.hdr = [num_recs |-> Len(g.recs), msg |-> g.msg, len |-> g.len,
                    db_size |-> g.db_size, alloc_size |-> g.alloc_size]
    BY <2>2, GroupReadBack
  <2>4. g = [msg |-> g.msg, len |-> g.len, recs |-> g.recs,
             db_size |-> g.db_size, alloc_size |-> g.alloc_size]
    BY <2>2, GroupType
  <2> HIDE DEF a
  <2>5. Group(a) = g
    BY <2>3, <2>4
  <2> QED
    BY <2>1, <2>5 DEF g
<1> HIDE DEF Group
<1>5. [k \in 1..im.hdr.num_recs |-> Group(im.at[im.off[k]])] = d.recs
  BY <1>1, <1>2, <1>4
<1> QED
  BY <1>1, <1>2, <1>3, <1>5 DEF im

-----------------------------------------------------------------------------
(* Areas *)

\* The records of a group, and the table of their offsets, lie in its area.
LEMMA GroupFits ==
  ASSUME NEW type, NEW g \in Groups(type)
  PROVE  LET a == GroupAdd(g)
         IN /\ TableFits(a, 8 + a.hdr.len, Size, a.hdr.db_size)
            /\ a.hdr.db_size <= a.hdr.alloc_size
<1> DEFINE a == GroupAdd(g)
           off == GroupLayout(g)
           lens == Sizes(g.recs)
           n == Len(g.recs)
           start == 8 + g.len
           pieces == {<<o, Size(a.at[o])>> : o \in DOMAIN a.at}
<1>1. /\ a.hdr.num_recs = n /\ a.hdr.len = g.len
      /\ a.hdr.db_size = g.db_size /\ a.hdr.alloc_size = g.alloc_size
  <2>1. a.hdr = [num_recs |-> n, msg |-> g.msg, len |-> g.len,
                 db_size |-> g.db_size, alloc_size |-> g.alloc_size]
    BY GroupReadBack
  <2> HIDE DEF a, n
  <2> QED
    BY <2>1
<1>2. /\ DOMAIN a.at = Range(off) /\ DOMAIN off = 1..n
      /\ \A k \in 1..n : a.at[off[k]] = g.recs[k]
  BY GroupLaysOut
<1>3. /\ g.recs \in Seq(RecsOf(type)) /\ g.len \in Nat /\ g.db_size \in Nat
      /\ g.db_size <= g.alloc_size /\ g.db_size = start + 2 * n + Sum(lens)
  BY GroupType
<1>4. /\ lens \in Seq(Nat) /\ Len(lens) = n /\ n \in Nat
      /\ \A k \in 1..n : lens[k] = Size(g.recs[k])
  BY <1>3, SizesType
<1>5. start \in Nat /\ 2 * n \in Nat /\ off = Offsets(start + 2 * n, lens)
  BY <1>3, <1>4 DEF GroupLayout
<1> HIDE DEF off, a, lens, n, start
<1>6. pieces = Pieces(off, lens)
  <2>1. ASSUME NEW p \in pieces PROVE \E j \in 1..n : p = <<off[j], lens[j]>>
    <3>1. PICK o \in Range(off) : p = <<o, Size(a.at[o])>>
      BY <1>2
    <3>2. PICK j \in 1..n : o = off[j]
      BY <1>2 DEF Range
    <3> QED
      BY <1>2, <1>4, <3>1, <3>2
  <2>2. ASSUME NEW j \in 1..n PROVE <<off[j], lens[j]>> \in pieces
    <3>1. off[j] \in DOMAIN a.at
      BY <1>2 DEF Range
    <3> QED
      BY <1>2, <1>4, <3>1
  <2>3. pieces = {<<off[j], lens[j]>> : j \in 1..n}
    BY <2>1, <2>2
  <2> QED
    BY <1>4, <2>3 DEF Pieces
<1>7. Packed({<<start, 2 * n>>} \cup Pieces(off, lens), start, g.db_size)
  <2> DEFINE table == 2 * n
  <2>1. start + table + Sum(lens) <= g.db_size
    BY <1>3
  <2>2. table \in Nat /\ off = Offsets(start + table, lens)
    BY <1>5
  <2> HIDE DEF table
  <2>3. Packed({<<start, table>>} \cup Pieces(off, lens), start, g.db_size)
    BY <1>3, <1>4, <1>5, <2>1, <2>2, PiecesPacked
  <2> QED
    BY <2>3 DEF table
<1> HIDE DEF pieces
<1>8. TableFits(a, start, Size, g.db_size)
  BY <1>1, <1>6, <1>7 DEF TableFits, pieces
<1> QED
  BY <1>1, <1>3, <1>8 DEF a, start

\* What create_schedule makes of a sound database fits (Fits).
LEMMA SoundFits ==
  ASSUME NEW d, Sound(d), image = create_schedule(d)
  PROVE  Fits
<1> DEFINE off == Layout(d)
           lens == Areas(d.recs)
           n == Len(d.recs)
           pieces == {<<o, image.at[o].hdr.alloc_size>> : o \in DOMAIN image.at}
<1>1. /\ image.hdr = d.hdr /\ DOMAIN image.at = Range(off) /\ DOMAIN off = 1..n
      /\ \A k \in 1..n : image.at[off[k]] = GroupAdd(d.recs[k])
  BY CreateLaysOut
<1>2. /\ Counted(d) /\ d.recs \in Seq(Groups(d.hdr.group_type)) /\ n \in Nat
      /\ d.hdr.num_recs = n /\ d.hdr.db_size \in Nat
      /\ d.hdr.db_size = HDR + 2 * n + Sum(lens)
  BY CountedType DEF Sound
<1>3. /\ lens \in Seq(Nat) /\ Len(lens) = n
      /\ \A k \in 1..n : /\ lens[k] = d.recs[k].alloc_size
                         /\ d.recs[k] \in Groups(d.hdr.group_type)
  BY <1>2, AreasType
<1>4. d.hdr.db_size <= d.hdr.alloc_size
  <2>1. Sum(lens) \in Nat
    BY <1>3, SumType
  <2>2. d.hdr.db_size \in Nat \ {0}
    BY <1>2, <2>1 DEF HDR
  <2> QED
    BY <2>2, AllocHolds DEF Sound
<1>5. HDR \in Nat /\ 2 * n \in Nat /\ off = Offsets(HDR + 2 * n, lens)
  BY <1>2 DEF Layout, HDR
<1> HIDE DEF off, lens, n
<1>6. ASSUME NEW k \in 1..n
      PROVE  LET a == image.at[off[k]]
             IN /\ a.hdr.alloc_size = lens[k]
                /\ TableFits(a, 8 + a.hdr.len, Size, a.hdr.db_size)
                /\ a.hdr.db_size <= a.hdr.alloc_size
  <2> DEFINE g == d.recs[k]
  <2>1. g \in Groups(d.hdr.group_type) /\ image.at[off[k]] = GroupAdd(g)
    BY <1>1, <1>3
  <2>2. lens[k] = g.alloc_size
    BY <1>3
  <2> HIDE DEF g
  <2>3. GroupAdd(g).hdr.alloc_size = g.alloc_size
    <3> DEFINE a == GroupAdd(g)
               m == Len(g.recs)
    <3>1. a.hdr = [num_recs |-> m, msg |-> g.msg, len |-> g.len,
                   db_size |-> g.db_size, alloc_size |-> g.alloc_size]
      BY <2>1, GroupReadBack
    <3> HIDE DEF a, m
    <3>2. a.hdr.alloc_size = g.alloc_size
      BY <3>1
    <3> QED
      BY <3>2 DEF a
  <2> QED
    BY <2>1, <2>2, <2>3, GroupFits
<1>7. pieces = Pieces(off, lens)
  <2>1. ASSUME NEW p \in pieces PROVE \E j \in 1..n : p = <<off[j], lens[j]>>
    <3>1. PICK o \in Range(off) : p = <<o, image.at[o].hdr.alloc_size>>
      BY <1>1
    <3>2. PICK j \in 1..n : o = off[j]
      BY <1>1 DEF Range
    <3> QED
      BY <1>6, <3>1, <3>2
  <2>2. ASSUME NEW j \in 1..n PROVE <<off[j], lens[j]>> \in pieces
    <3>1. off[j] \in DOMAIN image.at
      BY <1>1 DEF Range
    <3> QED
      BY <1>6, <3>1
  <2>3. pieces = {<<off[j], lens[j]>> : j \in 1..n}
    BY <2>1, <2>2
  <2> QED
    BY <1>3, <2>3 DEF Pieces
<1>8. Packed({<<HDR, 2 * n>>} \cup Pieces(off, lens), HDR, d.hdr.db_size)
  <2> DEFINE table == 2 * n
             head == HDR
  <2>1. head + table + Sum(lens) <= d.hdr.db_size
    <3>1. d.hdr.db_size = head + table + Sum(lens)
      BY <1>2
    <3> QED
      BY <1>2, <3>1
  <2>2. head \in Nat /\ table \in Nat /\ off = Offsets(head + table, lens)
    BY <1>5
  <2> HIDE DEF table, head
  <2>3. Packed({<<head, table>>} \cup Pieces(off, lens), head, d.hdr.db_size)
    BY <1>2, <1>3, <2>1, <2>2, PiecesPacked
  <2> QED
    BY <2>3 DEF table, head
<1> HIDE DEF pieces
<1>9. TableFits(image, HDR, LAMBDA a : a.hdr.alloc_size, image.hdr.db_size)
  BY <1>1, <1>2, <1>7, <1>8 DEF TableFits, pieces
<1>10. ASSUME NEW o \in DOMAIN image.at
       PROVE  LET a == image.at[o]
              IN /\ TableFits(a, 8 + a.hdr.len, Size, a.hdr.db_size)
                 /\ a.hdr.db_size <= a.hdr.alloc_size
  <2>1. PICK k \in 1..n : o = off[k]
    BY <1>1 DEF Range
  <2> QED
    BY <1>6, <2>1
<1> QED
  BY <1>1, <1>4, <1>9, <1>10 DEF Fits

-----------------------------------------------------------------------------
(* The program *)

\* A tool has read the watch; the lines of the watch are those of a sound database.
LEMMA StartSound ==
  ASSUME Schedules \subseteq Lines, Init
  PROVE  SoundInv
<1>1. PICK lines \in FirstLines, type \in GroupTypes \cup {0} :
         /\ type = 0 => lines = << >>
         /\ image = create_schedule(Filled([group_type |-> type], lines))
  BY DEF Init
<1> DEFINE s == [group_type |-> type]
           d == Filled(s, lines)
<1>2. lines \in Seq(Lines)
  <2>1. PICK k \in 0..2 : lines \in [1..k -> Schedules]
    BY DEF FirstLines, Ascending
  <2>2. \A j \in 1..k : lines[j] \in Lines
    BY <2>1
  <2>3. lines \in [1..k -> Lines] /\ k \in Nat
    BY <2>1, <2>2
  <2> QED
    BY <2>3, SeqDef
<1>3. s.group_type = type
  OBVIOUS
<1> HIDE DEF s
<1>4. Sound(d)
  BY <1>1, <1>2, <1>3, FilledSound DEF SoundOf
<1>5. image = create_schedule(d)
  BY <1>1 DEF s
<1> HIDE DEF d
<1>6. read_schedule(image) = d
  BY <1>4, <1>5, ReadBack
<1>7. ~Holding
  BY DEF Init, Started, Holding
<1> QED
  BY <1>4, <1>5, <1>6, <1>7 DEF SoundInv

\* What a program keeps that leaves the watch alone.
LEMMA KeepsSound ==
  ASSUME SoundInv, UNCHANGED image, Sound(db'),
         static' \in [group_type : GroupTypes \cup {0}, updated : BOOLEAN],
         static'.group_type = db'.hdr.group_type
  PROVE  SoundInv'
<1> DEFINE d == read_schedule(image)
<1>1. Sound(d) /\ image = create_schedule(d)
  BY DEF SoundInv
<1>2. d' = d
  BY DEF read_schedule, Listed
<1> HIDE DEF d
<1>3. Sound(d') /\ image' = create_schedule(d')
  BY <1>1, <1>2
<1> QED
  BY <1>3 DEF SoundInv, d

LEMMA OpenSound ==
  ASSUME SoundInv, Open
  PROVE  SoundInv'
<1> DEFINE d == read_schedule(image)
<1>1. /\ db' = d /\ UNCHANGED image
      /\ static' = [group_type |-> image.hdr.group_type, updated |-> FALSE]
  BY DEF Open, Opens
<1>2. Sound(d) /\ d.hdr = image.hdr
  BY DEF SoundInv, read_schedule
<1> HIDE DEF d
<1>3. d.hdr.group_type \in GroupTypes \cup {0}
  BY <1>2, CountedType DEF Sound
<1> QED
  BY <1>1, <1>2, <1>3, KeepsSound

LEMMA CreateSound ==
  ASSUME SoundInv, Create
  PROVE  SoundInv'
<1> DEFINE s == [group_type |-> 0, updated |-> TRUE]
           d == init_schedule(s)
<1>1. db' = d /\ static' = s /\ UNCHANGED image
  BY DEF Create, Creates
<1>2. s \in [group_type : GroupTypes \cup {0}, updated : BOOLEAN] /\ s.group_type = 0
  OBVIOUS
<1> HIDE DEF s
<1>3. Sound(d) /\ d.hdr.group_type = s.group_type
  BY <1>2, InitSound
<1> HIDE DEF d
<1> QED
  BY <1>1, <1>2, <1>3, KeepsSound

\* A line of another group or time than those there is added, one of a record
\* deletes it; the type is the one the program read it as.
LEMMA AddLineSound ==
  ASSUME Schedules \subseteq Lines, SoundInv, AddLine
  PROVE  SoundInv'
<1>1. PICK c \in Schedules, options \in BOOLEAN :
         /\ db' = add_schedule_file(db, static, c) /\ UNCHANGED image
         /\ static' = [static EXCEPT !.updated =
                          @ \/ options \/ find_schedule(db, static, c) < 0]
  BY DEF AddLine, Edits
<1>2. /\ Sound(db) /\ static.group_type = db.hdr.group_type /\ static.group_type # 0
      /\ static \in [group_type : GroupTypes \cup {0}, updated : BOOLEAN]
  BY DEF SoundInv, AddLine
<1>3. Sound(db') /\ db'.hdr.group_type = db.hdr.group_type
  BY <1>1, <1>2, AddFileSound
<1>4. /\ static' \in [group_type : GroupTypes \cup {0}, updated : BOOLEAN]
      /\ static'.group_type = static.group_type
  BY <1>1, <1>2
<1> QED
  BY <1>1, <1>2, <1>3, <1>4, KeepsSound

LEMMA DelLineSound ==
  ASSUME SoundInv, DelLine
  PROVE  SoundInv'
<1>1. PICK c \in Schedules :
         /\ db' = del_schedule_file(db, static, c) /\ UNCHANGED image
         /\ static' = [static EXCEPT !.updated = @ \/ find_schedule(db, static, c) >= 0]
  BY DEF DelLine, Edits
<1>2. /\ Sound(db) /\ static.group_type = db.hdr.group_type
      /\ static \in [group_type : GroupTypes \cup {0}, updated : BOOLEAN]
  BY DEF SoundInv, DelLine
<1>3. Sound(db') /\ db'.hdr.group_type = db.hdr.group_type
  BY <1>1, <1>2, DelFileSound
<1>4. /\ static' \in [group_type : GroupTypes \cup {0}, updated : BOOLEAN]
      /\ static'.group_type = static.group_type
  BY <1>1, <1>2
<1> QED
  BY <1>1, <1>2, <1>3, <1>4, KeepsSound

LEMMA DeleteAllSound ==
  ASSUME SoundInv, DeleteAll
  PROVE  SoundInv'
<1>1. /\ db' = Emptied(db) /\ UNCHANGED image /\ Holding
      /\ static' = [static EXCEPT !.updated = @ \/ db.recs # << >>]
  BY DEF DeleteAll, Edits, Holding
<1>2. /\ Sound(db) /\ static.group_type = db.hdr.group_type
      /\ static \in [group_type : GroupTypes \cup {0}, updated : BOOLEAN]
  BY <1>1 DEF SoundInv
<1>3. Sound(Emptied(db)) /\ Emptied(db).hdr.group_type = db.hdr.group_type
  BY <1>2, EmptiedSound DEF SoundOf
<1>4. /\ static' \in [group_type : GroupTypes \cup {0}, updated : BOOLEAN]
      /\ static'.group_type = static.group_type
  BY <1>1, <1>2
<1> QED
  BY <1>1, <1>2, <1>3, <1>4, KeepsSound

\* A header line and the options change the type of the database only together
\* with that of the program.
LEMMA HeaderLineSound ==
  ASSUME SoundInv, HeaderLine
  PROVE  SoundInv'
<1>1. PICK m \in Descs, type \in GroupTypes :
         /\ db' = IF Accepts(db, type) THEN Described(db, m, type) ELSE db
         /\ static' = IF Accepts(db, type) /\ ~KeepsType(db, type)
                      THEN [static EXCEPT !.group_type = type] ELSE static
         /\ UNCHANGED image /\ Holding
  BY DEF HeaderLine, Edits, Adders, Holding
<1>2. /\ Sound(db) /\ static.group_type = db.hdr.group_type
      /\ static \in [group_type : GroupTypes \cup {0}, updated : BOOLEAN]
  BY <1>1 DEF SoundInv
<1>3. /\ Sound(Described(db, m, type))
      /\ Described(db, m, type).hdr.group_type
           = IF KeepsType(db, type) THEN db.hdr.group_type ELSE type
  BY <1>2, DescribedSound
<1>4. CASE Accepts(db, type) /\ ~KeepsType(db, type)
  <2>1. /\ static' = [static EXCEPT !.group_type = type]
        /\ db' = Described(db, m, type)
    BY <1>1, <1>4
  <2>2. /\ static' \in [group_type : GroupTypes \cup {0}, updated : BOOLEAN]
        /\ static'.group_type = type
    BY <1>2, <2>1
  <2> QED
    BY <1>1, <1>3, <1>4, <2>1, <2>2, KeepsSound
<1>5. CASE ~(Accepts(db, type) /\ ~KeepsType(db, type))
  <2>1. static' = static
    BY <1>1, <1>5
  <2>2. Sound(db') /\ db'.hdr.group_type = db.hdr.group_type
    BY <1>1, <1>2, <1>3, <1>5
  <2> QED
    BY <1>1, <1>2, <2>1, <2>2, KeepsSound
<1> QED
  BY <1>4, <1>5

LEMMA DescOptionSound ==
  ASSUME SoundInv, DescOption
  PROVE  SoundInv'
<1>1. PICK m \in Descs : /\ db' = update_schedule_msg(db, m) /\ UNCHANGED image
                         /\ static' = [static EXCEPT !.updated = TRUE] /\ Holding
  BY DEF DescOption, Edits, Closing, Holding
<1>2. /\ Sound(db) /\ static.group_type = db.hdr.group_type
      /\ static \in [group_type : GroupTypes \cup {0}, updated : BOOLEAN]
  BY <1>1 DEF SoundInv
<1>3. Sound(db') /\ db'.hdr.group_type = db.hdr.group_type
  BY <1>1, <1>2, MsgSound
<1>4. /\ static' \in [group_type : GroupTypes \cup {0}, updated : BOOLEAN]
      /\ static'.group_type = static.group_type
  BY <1>1, <1>2
<1> QED
  BY <1>1, <1>2, <1>3, <1>4, KeepsSound

LEMMA TypeOptionSound ==
  ASSUME SoundInv, TypeOption
  PROVE  SoundInv'
<1>1. PICK type \in GroupTypes :
         /\ db' = update_schedule_group_type(db, type) /\ UNCHANGED image
         /\ static' = [static EXCEPT !.group_type =
                          IF KeepsType(db, type) THEN db.hdr.group_type ELSE type]
         /\ Holding
  BY DEF TypeOption, Edits, Holding
<1> DEFINE new == IF KeepsType(db, type) THEN db.hdr.group_type ELSE type
<1>2. /\ Sound(db) /\ static.group_type = db.hdr.group_type
      /\ static \in [group_type : GroupTypes \cup {0}, updated : BOOLEAN]
  BY <1>1 DEF SoundInv
<1>3. Sound(db') /\ db'.hdr.group_type = new
  BY <1>1, <1>2, TypeSound
<1>4. new \in GroupTypes \cup {0}
  BY <1>2
<1>5. static' = [static EXCEPT !.group_type = new]
  BY <1>1
<1> HIDE DEF new
<1>6. /\ static' \in [group_type : GroupTypes \cup {0}, updated : BOOLEAN]
      /\ static'.group_type = new
  BY <1>2, <1>4, <1>5
<1> QED
  BY <1>1, <1>3, <1>6, KeepsSound

\* What is saved is what the program held.
LEMMA SaveSound ==
  ASSUME SoundInv, Save
  PROVE  SoundInv'
<1>1. image' = create_schedule(db) /\ ~Holding' /\ Holding
  BY DEF Save, Saves, Holding
<1>2. Sound(db)
  BY <1>1 DEF SoundInv
<1> DEFINE d == read_schedule(image)
<1>3. d' = read_schedule(image')
  BY DEF read_schedule, Listed
<1> HIDE DEF d
<1>4. d' = db
  BY <1>1, <1>2, <1>3, ReadBack
<1> QED
  BY <1>1, <1>2, <1>4 DEF SoundInv, d

LEMMA IdleSound ==
  ASSUME SoundInv, Leave \/ UNCHANGED vars
  PROVE  SoundInv'
<1> DEFINE d == read_schedule(image)
<1>1. UNCHANGED image
  BY DEF Leave, Quit, Stops, vars
<1>2. d' = d
  BY <1>1 DEF read_schedule, Listed
<1>3. Sound(d) /\ image = create_schedule(d)
  BY DEF SoundInv
<1> HIDE DEF d
<1>4. Sound(d') /\ image' = create_schedule(d')
  BY <1>1, <1>2, <1>3
<1>5. CASE Leave
  <2>1. ~Holding'
    BY <1>5 DEF Leave, Quit, Stops, Holding
  <2> QED
    BY <1>4, <2>1 DEF SoundInv, d
<1>6. CASE UNCHANGED vars
  <2>1. UNCHANGED <<prog, db, static>>
    BY <1>6 DEF vars
  <2>2. Holding' <=> Holding
    BY <2>1 DEF Holding
  <2> QED
    BY <1>4, <2>1, <2>2 DEF SoundInv, d
<1> QED
  BY <1>5, <1>6

\* Every step keeps the databases sound.
LEMMA NextSound ==
  ASSUME Schedules \subseteq Lines, SoundInv, [Next]_vars
  PROVE  SoundInv'
<1>1. CASE Open
  BY <1>1, OpenSound
<1>2. CASE Create
  BY <1>2, CreateSound
<1>3. CASE AddLine
  BY <1>3, AddLineSound
<1>4. CASE HeaderLine
  BY <1>4, HeaderLineSound
<1>5. CASE DescOption
  BY <1>5, DescOptionSound
<1>6. CASE TypeOption
  BY <1>6, TypeOptionSound
<1>7. CASE DelLine
  BY <1>7, DelLineSound
<1>8. CASE DeleteAll
  BY <1>8, DeleteAllSound
<1>9. CASE Save
  BY <1>9, SaveSound
<1>10. CASE Leave \/ UNCHANGED vars
  BY <1>10, IdleSound
<1> QED
  BY <1>1, <1>2, <1>3, <1>4, <1>5, <1>6, <1>7, <1>8, <1>9, <1>10 DEF Next

-----------------------------------------------------------------------------
(* What soundness gives *)

\* The tables fit the watch.
LEMMA SoundInvFits ==
  ASSUME SoundInv
  PROVE  Fits /\ InOrder
<1> DEFINE d == read_schedule(image)
<1>1. Sound(d) /\ image = create_schedule(d)
  BY DEF SoundInv
<1>2. Fits
  <2> HIDE DEF d
  <2> QED
    BY <1>1, SoundFits
<1>3. GroupsInOrder(d.recs) /\ d.recs \in Seq(Groups(d.hdr.group_type))
  <2> HIDE DEF d
  <2> QED
    BY <1>1, CountedType DEF Sound
<1>4. ASSUME NEW g \in DOMAIN d.recs PROVE RecsInOrder(d.recs[g].recs)
  <2> HIDE DEF d
  <2>1. d.recs[g] \in Groups(d.hdr.group_type)
    BY <1>3
  <2> QED
    BY <2>1, GroupType
<1> QED
  BY <1>2, <1>3, <1>4 DEF InOrder

\* All times are of one type.
LEMMA SoundOneType ==
  ASSUME NEW d, Sound(d)
  PROVE  OneType(d)
<1> DEFINE type == d.hdr.group_type
<1>1. d.recs \in Seq(Groups(type))
  BY CountedType DEF Sound
<1>2. ASSUME NEW g \in DOMAIN d.recs, NEW k \in DOMAIN d.recs[g].recs
      PROVE  d.recs[g].recs[k].type = type
  <2>1. d.recs[g] \in Groups(type)
    BY <1>1
  <2>2. d.recs[g].recs \in Seq(RecsOf(type))
    BY <2>1, GroupType
  <2>3. d.recs[g].recs[k] \in RecsOf(type)
    BY <2>2
  <2> QED
    BY <2>3 DEF RecsOf
<1> QED
  BY <1>2 DEF OneType

=============================================================================
