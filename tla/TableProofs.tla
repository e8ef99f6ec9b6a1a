---------------------------- MODULE TableProofs -----------------------------
(***************************************************************************)
(* Proofs about timers, occasions and contacts, of any number of records:  *)
(* the counts, sizes and order that the watch and a program keep.          *)
(***************************************************************************)
EXTENDS Databases, DbListProofs, FiniteSetTheorems

-----------------------------------------------------------------------------
(* Timers *)

LEMMA TimerSame ==
  /\ \A x : Timer!alloc(x) = alloc(x)
  /\ \A s, i, e : Timer!InsertAt(s, i, e) = InsertAt(s, i, e)
  /\ \A s, i : Timer!RemoveAt(s, i) = RemoveAt(s, i)
  /\ \A I : Timer!Min(I) = Min(I)
  BY DEF Timer!alloc, alloc, Timer!InsertAt, InsertAt, Timer!RemoveAt, RemoveAt, Timer!Min, Min

LEMMA TimerHeaderSize == Timer!header_size \in {8, 9}
  BY DEF Timer!header_size

LEMMA TimerRec ==
  ASSUME NEW t \in Timer!Lines
  PROVE  /\ Timer!Rec(t) \in Timer!Stored /\ Timer!Rec(t).msg = t.msg
         /\ t.msg \in Nat
<1>1. t \in [msg : Msgs, time : Nat, at_end : AtEnds, half : {0, 1}]
  BY DEF Timer!Lines
<1>2. t.msg \in Msgs /\ t.time \in Nat /\ t.at_end \in AtEnds /\ t.half \in {0, 1}
  BY <1>1
<1> DEFINE end == IF Timer!is_countdn THEN t.at_end ELSE 0
           r == [msg |-> t.msg, time |-> t.time, at_end |-> end, half |-> t.half]
<1>3. Timer!Rec(t) = r
  BY <1>1 DEF Timer!Rec
<1>4. end \in AtEnds \cup {0}
  BY <1>2
<1> HIDE DEF end
<1>5. r \in Timer!Stored /\ r.msg = t.msg
  BY <1>2, <1>4 DEF Timer!Stored
<1> HIDE DEF r
<1>6. t.msg \in Nat
  BY <1>2, MsgsAssumption
<1> QED
  BY <1>3, <1>5, <1>6

LEMMA TimerRead ==
  ASSUME NEW t \in Timer!Lines, NEW held \in {0, 1}
  PROVE  /\ Timer!read_timer_line(t, held) \in Timer!Lines
         /\ Timer!read_timer_line(t, held).half \in {0, 1}
         /\ Timer!option_line(t) \in Timer!Lines
<1>1. t \in [msg : Msgs, time : Nat, at_end : AtEnds, half : {0, 1}]
  BY DEF Timer!Lines
<1>2. ASSUME NEW h \in {0, 1} PROVE [t EXCEPT !.half = h] \in Timer!Lines
  BY <1>1 DEF Timer!Lines
<1> DEFINE h == IF t.half = 1 THEN 1 ELSE IF Timer!is_countdn THEN 0 ELSE held
<1>3. h \in {0, 1}
  OBVIOUS
<1>4. Timer!read_timer_line(t, held) = [t EXCEPT !.half = h]
  BY DEF Timer!read_timer_line
<1>5. [t EXCEPT !.half = h].half = h
  BY <1>1
<1> HIDE DEF h
<1>6. Timer!option_line(t) = [t EXCEPT !.half = 0]
  BY DEF Timer!option_line
<1> QED
  BY <1>2, <1>3, <1>4, <1>5, <1>6

\* The timers in the order of their names.
TimerOrder == {p \in Timer!Stored \X Timer!Stored : p[1].msg <= p[2].msg}

LEMMA TimerSoundType ==
  ASSUME NEW d, Timer!Sound(d)
  PROVE  /\ d = [recs |-> d.recs, hdr |-> d.hdr] /\ d.recs \in Seq(Timer!Stored)
         /\ d.hdr \in Timer!Hdrs /\ Len(d.recs) \in Nat /\ DOMAIN d.recs = 1..Len(d.recs)
         /\ \A j \in 1..Len(d.recs) : d.recs[j] \in Timer!Stored
         /\ d.hdr.num_recs = Len(d.recs)
         /\ d.hdr.db_size = Timer!header_size + 13 * Len(d.recs)
         /\ OrderedBy(TimerOrder, d.recs)
<1>1. d \in [recs : Seq(Timer!Stored), hdr : Timer!Hdrs]
  BY DEF Timer!Sound
<1>2. d.recs \in Seq(Timer!Stored) /\ d.hdr \in Timer!Hdrs /\ d = [recs |-> d.recs, hdr |-> d.hdr]
  BY <1>1
<1>3. /\ Len(d.recs) \in Nat /\ DOMAIN d.recs = 1..Len(d.recs)
      /\ \A j \in 1..Len(d.recs) : d.recs[j] \in Timer!Stored
  BY <1>2
<1>4. \A j \in 1..(Len(d.recs) - 1) : d.recs[j].msg <= d.recs[j + 1].msg
  BY DEF Timer!Sound
<1>5. ASSUME NEW j \in 1..(Len(d.recs) - 1)
      PROVE  <<d.recs[j], d.recs[j + 1]>> \in TimerOrder
  <2>1. j \in 1..Len(d.recs) /\ j + 1 \in 1..Len(d.recs)
    BY <1>3
  <2> QED
    BY <1>3, <1>4, <2>1 DEF TimerOrder
<1>6. OrderedBy(TimerOrder, d.recs)
  BY <1>5 DEF OrderedBy
<1> QED
  BY <1>2, <1>3, <1>6 DEF Timer!Sound

\* A header of the right size for timers in order.
LEMMA TimerSized ==
  ASSUME NEW hdr \in Timer!Hdrs, NEW recs \in Seq(Timer!Stored), OrderedBy(TimerOrder, recs),
         NEW n, n = Len(recs), NEW size, size = Timer!header_size + 13 * Len(recs)
  PROVE  Timer!Sound([recs |-> recs, hdr |-> Timer!WithSize(hdr, n, size)])
<1>1. n \in Nat /\ size \in Nat \ {0}
  BY TimerHeaderSize
<1>2. alloc(size) \in Nat
  BY <1>1, AllocHolds
<1>3. Timer!WithSize(hdr, n, size)
        = [hdr EXCEPT !.num_recs = n, !.db_size = size, !.alloc_size = alloc(size)]
  BY TimerSame DEF Timer!WithSize
<1> DEFINE h == [hdr EXCEPT !.num_recs = n, !.db_size = size, !.alloc_size = alloc(size)]
<1>4. /\ h \in Timer!Hdrs /\ h.num_recs = n /\ h.db_size = size /\ h.alloc_size = alloc(size)
  BY <1>1, <1>2 DEF Timer!Hdrs
<1> HIDE DEF h
<1>5. \A j \in 1..(Len(recs) - 1) : recs[j].msg <= recs[j + 1].msg
  BY DEF OrderedBy, TimerOrder
<1> DEFINE d == [recs |-> recs, hdr |-> h]
<1>6. d \in [recs : Seq(Timer!Stored), hdr : Timer!Hdrs] /\ d.recs = recs /\ d.hdr = h
  BY <1>4
<1> HIDE DEF d
<1>7. Timer!Sound(d)
  BY <1>4, <1>5, <1>6, TimerSame DEF Timer!Sound
<1> QED
  BY <1>3, <1>7 DEF d, h

LEMMA TimerAdd ==
  ASSUME NEW d, Timer!Sound(d), NEW t \in Timer!Lines
  PROVE  Timer!Sound(Timer!add_timer_file(d, t))
<1> DEFINE s == d.recs
           e == Timer!Rec(t)
           I == {j \in 1..Len(s) : t.msg < s[j].msg}
           i == IF I # {} THEN Min(I) ELSE 0
           r == IF i = 0 THEN Append(s, e) ELSE InsertAt(s, i, e)
<1>1. /\ s \in Seq(Timer!Stored) /\ d.hdr \in Timer!Hdrs /\ Len(s) \in Nat
      /\ OrderedBy(TimerOrder, s) /\ \A j \in 1..Len(s) : s[j] \in Timer!Stored
      /\ d.hdr.db_size = Timer!header_size + 13 * Len(s)
  BY TimerSoundType
<1>2. e \in Timer!Stored /\ e.msg = t.msg /\ t.msg \in Nat
  BY TimerRec
<1>3. \A x \in Timer!Stored : x.msg \in Nat
  BY MsgsAssumption DEF Timer!Stored
<1>4. Timer!InsertBefore(s, LAMBDA x : t.msg < x.msg, e) = r
  BY TimerSame DEF Timer!InsertBefore, Timer!SelectInSeq
<1>5. I \in SUBSET (1..Len(s)) /\ \A j \in 1..Len(s) : j \in I <=> t.msg < s[j].msg
  OBVIOUS
<1> HIDE DEF I
<1>14. i = IF I # {} THEN Min(I) ELSE 0
  OBVIOUS
<1> HIDE DEF i
<1>15. r = IF i = 0 THEN Append(s, e) ELSE InsertAt(s, i, e)
  OBVIOUS
<1> HIDE DEF r, s, e
<1>16. r \in Seq(Timer!Stored) /\ \E p \in 1..(Len(s) + 1) : StopsAt(s, p, e, r, I)
  BY <1>1, <1>2, <1>5, <1>14, <1>15, PutAtStop
<1>6. PICK p \in 1..(Len(s) + 1) :
         /\ r \in Seq(Timer!Stored) /\ Inserted(s, p, e, r)
         /\ \A j \in 1..(p - 1) : j \notin I
         /\ p \in 1..Len(s) => p \in I
  BY <1>16 DEF StopsAt
<1>7. p > 1 => <<s[p - 1], e>> \in TimerOrder
  <2> SUFFICES ASSUME p > 1 PROVE <<s[p - 1], e>> \in TimerOrder
    OBVIOUS
  <2>1. p - 1 \in 1..Len(s) /\ p - 1 \in 1..(p - 1)
    BY <1>1
  <2>2. s[p - 1] \in Timer!Stored /\ ~(t.msg < s[p - 1].msg)
    BY <1>1, <1>5, <1>6, <2>1
  <2> QED
    BY <1>2, <1>3, <2>2 DEF TimerOrder
<1>8. p <= Len(s) => <<e, s[p]>> \in TimerOrder
  <2> SUFFICES ASSUME p <= Len(s) PROVE <<e, s[p]>> \in TimerOrder
    OBVIOUS
  <2>1. p \in 1..Len(s)
    BY <1>1
  <2>2. s[p] \in Timer!Stored /\ t.msg < s[p].msg
    BY <1>1, <1>5, <1>6, <2>1
  <2> QED
    BY <1>2, <1>3, <2>2 DEF TimerOrder
<1>9. OrderedBy(TimerOrder, r)
  BY <1>1, <1>2, <1>6, <1>7, <1>8, PutInOrder
<1>10. Len(r) = Len(s) + 1 /\ Len(s) + 1 = Len(r)
  BY <1>6 DEF Inserted
<1>11. d.hdr.db_size + 13 = Timer!header_size + 13 * Len(r)
  BY <1>1, <1>10, TimerHeaderSize
<1>12. Timer!Sound([recs |-> r, hdr |-> Timer!WithSize(d.hdr, Len(s) + 1, d.hdr.db_size + 13)])
  BY <1>1, <1>6, <1>9, <1>10, <1>11, TimerSized
<1>13. Timer!add_timer(d, t)
         = [recs |-> r, hdr |-> Timer!WithSize(d.hdr, Len(s) + 1, d.hdr.db_size + 13)]
  BY <1>4 DEF Timer!add_timer, s, e, r
<1> QED
  BY <1>12, <1>13 DEF Timer!add_timer_file

LEMMA TimerDel ==
  ASSUME NEW d, Timer!Sound(d), NEW i \in Int
  PROVE  Timer!Sound(Timer!del_timer(d, i))
<1> DEFINE s == d.recs
           r == RemoveAt(s, i + 1)
<1>1. /\ s \in Seq(Timer!Stored) /\ d.hdr \in Timer!Hdrs /\ Len(s) \in Nat
      /\ OrderedBy(TimerOrder, s) /\ \A j \in 1..Len(s) : s[j] \in Timer!Stored
      /\ d.hdr.db_size = Timer!header_size + 13 * Len(s)
  BY TimerSoundType
<1>2. CASE i < 0 \/ i >= Len(s)
  BY <1>2 DEF Timer!del_timer
<1>3. CASE ~(i < 0 \/ i >= Len(s))
  <2>1. i + 1 \in 1..Len(s)
    BY <1>1, <1>3
  <2>2. s[i + 1] \in Timer!Stored
    BY <1>1, <2>1
  <2> HIDE DEF s
  <2>3. r \in Seq(Timer!Stored) /\ Inserted(r, i + 1, s[i + 1], s)
    BY <1>1, <2>1, RemoveAtTakes
  <2> HIDE DEF r
  <2>4. Len(s) = Len(r) + 1 /\ i + 1 \in 1..(Len(r) + 1) /\ Len(s) - 1 = Len(r)
    <3>1. Len(s) = Len(r) + 1 /\ Len(r) \in Nat
      BY <2>3 DEF Inserted
    <3> QED
      BY <2>1, <3>1
  <2>5. \A a, b, c \in Timer!Stored :
           <<a, b>> \in TimerOrder /\ <<b, c>> \in TimerOrder => <<a, c>> \in TimerOrder
    <3>1. \A x \in Timer!Stored : x.msg \in Nat
      BY MsgsAssumption DEF Timer!Stored
    <3> QED
      BY <3>1 DEF TimerOrder
  <2>6. OrderedBy(TimerOrder, r)
    BY <1>1, <2>2, <2>3, <2>4, <2>5, TakenInOrder
  <2>7. d.hdr.db_size - 13 = Timer!header_size + 13 * Len(r)
    BY <1>1, <2>4, TimerHeaderSize
  <2>8. Timer!Sound([recs |-> r, hdr |-> Timer!WithSize(d.hdr, Len(s) - 1, d.hdr.db_size - 13)])
    BY <1>1, <2>3, <2>4, <2>6, <2>7, TimerSized
  <2>9. Timer!del_timer(d, i)
          = [recs |-> r, hdr |-> Timer!WithSize(d.hdr, Len(s) - 1, d.hdr.db_size - 13)]
    BY <1>3, TimerSame DEF Timer!del_timer, r, s
  <2> QED
    BY <2>8, <2>9
<1> QED
  BY <1>2, <1>3

\* while(!del_timer(&db, 0))
LEMMA TimerEmptied ==
  ASSUME NEW d, Timer!Sound(d), NEW N \in Nat
  PROVE  Timer!Sound(Timer!FirstsDeleted(Timer!del_timer, d, N))
<1> DEFINE D == {e \in [recs : Seq(Timer!Stored), hdr : Timer!Hdrs] : Timer!Sound(e)}
           g == [k \in 1..N |-> [e \in D |-> Timer!del_timer(e, 0)]]
           Body(h) == [n \in 0..N |-> IF n = 0 THEN d ELSE Timer!del_timer(h[n - 1], 0)]
           after == CHOOSE h : h = Body(h)
<1>1. \A e : e \in D <=> Timer!Sound(e)
  BY DEF Timer!Sound
<1> HIDE DEF D
<1>2. \A e \in D : Timer!del_timer(e, 0) \in D
  BY <1>1, TimerDel
<1>3. g \in [1..N -> [D -> D]]
  BY <1>2
<1>4. PICK f : Recurs(f, D, N, d, g)
  <2> HIDE DEF g
  <2> QED
    BY <1>1, <1>3, Recursion
<1>5. f = Body(f)
  <2>1. ASSUME NEW n \in 0..N, n # 0
        PROVE  g[n][f[n - 1]] = Timer!del_timer(f[n - 1], 0)
    <3>1. n \in 1..N /\ n - 1 \in 0..N
      BY <2>1
    <3>2. f[n - 1] \in D
      BY <1>4, <3>1 DEF Recurs
    <3> QED
      BY <3>1, <3>2
  <2> HIDE DEF g
  <2> QED
    BY <1>4, <2>1 DEF Recurs
<1>6. after = Body(after)
  BY <1>5
<1>7. Timer!FirstsDeleted(Timer!del_timer, d, N) = after[N]
  BY DEF Timer!FirstsDeleted
<1>8. \A n \in 0..N : after[n] = IF n = 0 THEN d ELSE Timer!del_timer(after[n - 1], 0)
  <2> HIDE DEF after
  <2> QED
    BY <1>6
<1> HIDE DEF after
<1>9. after[0] \in D
  BY <1>1, <1>8
<1>10. ASSUME NEW n \in 1..N, after[n - 1] \in D PROVE after[n] \in D
  <2>1. after[n] = Timer!del_timer(after[n - 1], 0)
    BY <1>8
  <2> QED
    BY <1>2, <1>10, <2>1
<1>11. \A n \in 0..N : after[n] \in D
  BY <1>9, <1>10, HandedOn
<1> QED
  BY <1>1, <1>7, <1>11

\* The place of the j-th timer, and what is found there.
LEMMA TimerFinds ==
  ASSUME NEW d, Timer!Sound(d), NEW j \in 1..Len(d.recs)
  PROVE  Timer!create_timer(d).at[Timer!header_size + 13 * (j - 1)] = d.recs[j]
<1> DEFINE h == Timer!header_size
           s == d.recs
           o == h + 13 * (j - 1)
<1>1. h \in Nat /\ DOMAIN s = 1..Len(s) /\ Len(s) \in Nat
  BY TimerHeaderSize, TimerSoundType
<1> HIDE DEF h, s
<1>2. Timer!create_timer(d).at
        = [x \in {h + 13 * (k - 1) : k \in DOMAIN s} |-> s[(x - h) \div 13 + 1]]
  BY DEF Timer!create_timer, h, s
<1>3. j \in DOMAIN s
  BY <1>1 DEF s
<1>4. o \in {h + 13 * (k - 1) : k \in DOMAIN s}
  BY <1>3
<1>5. (o - h) \div 13 + 1 = j
  <2>1. o - h = 13 * (j - 1) /\ j - 1 \in Int
    BY <1>1
  <2>2. \A x \in Int : (13 * x) \div 13 = x
    OBVIOUS
  <2> HIDE DEF o
  <2> QED
    BY <2>1, <2>2
<1> HIDE DEF o
<1>6. Timer!create_timer(d).at[o] = s[j]
  BY <1>2, <1>4, <1>5
<1> QED
  BY <1>6 DEF o, h, s

LEMMA TimerReads ==
  ASSUME NEW d, Timer!Sound(d)
  PROVE  Timer!read_timer(Timer!create_timer(d)) = d
<1> DEFINE im == Timer!create_timer(d)
           s == d.recs
<1>1. im.hdr = d.hdr
  BY DEF Timer!create_timer
<1>2. d = [recs |-> s, hdr |-> d.hdr] /\ d.hdr.num_recs = Len(s) /\ s \in Seq(Timer!Stored)
  BY TimerSoundType
<1>3. \A j \in 1..Len(s) : im.at[Timer!header_size + 13 * (j - 1)] = s[j]
  BY TimerFinds
<1> HIDE DEF im, s
<1>4. s = [j \in 1..Len(s) |-> s[j]]
  BY <1>2
<1>5. Timer!read_timer(im) = [hdr |-> d.hdr, recs |-> s]
  BY <1>1, <1>2, <1>3, <1>4 DEF Timer!read_timer
<1> QED
  BY <1>2, <1>5 DEF im

\* SoundInv of the next state, from what is stored and held there.
LEMMA TimerNextState ==
  ASSUME UNCHANGED app,
         Timer!Sound(Timer!read_timer(image')),
         image' = Timer!create_timer(Timer!read_timer(image')),
         prog' \in {"add", "del", "new"} =>
            Timer!Sound(db') /\ static' \in [held : {0, 1}, updated : BOOLEAN]
  PROVE  Timer!SoundInv'
<1>1. Timer!header_size' = Timer!header_size
  BY DEF Timer!header_size, Timer!is_countdn
<1>2. Timer!read_timer(image)' = Timer!read_timer(image')
  BY <1>1 DEF Timer!read_timer
<1>3. Timer!create_timer(Timer!read_timer(image))' = Timer!create_timer(Timer!read_timer(image'))
  BY <1>1, <1>2 DEF Timer!create_timer
<1>4. Timer!Sound(Timer!read_timer(image))' <=> Timer!Sound(Timer!read_timer(image'))
  BY <1>1, <1>2 DEF Timer!Sound
<1>5. Timer!Sound(db)' <=> Timer!Sound(db')
  BY <1>1 DEF Timer!Sound
<1> QED
  BY <1>3, <1>4, <1>5 DEF Timer!SoundInv, Timer!Holding

LEMMA TimerFind ==
  ASSUME NEW d, Timer!Sound(d), NEW t
  PROVE  Timer!find_timer(d, t) \in Int
<1> DEFINE I == {j \in 1..Len(d.recs) : d.recs[j].msg = t.msg}
<1>1. I \in SUBSET Nat /\ \A j \in I : j \in Int
  OBVIOUS
<1>2. Timer!find_timer(d, t) = (IF I # {} THEN Min(I) ELSE 0) - 1
  BY TimerSame DEF Timer!find_timer, Timer!SelectInSeq
<1> HIDE DEF I
<1>3. I # {} => Min(I) \in I
  BY <1>1, FirstPlace
<1>4. CASE I = {}
  BY <1>2, <1>4
<1>5. CASE I # {}
  <2>1. Min(I) \in Int
    BY <1>1, <1>3, <1>5
  <2> QED
    BY <1>2, <1>5, <2>1
<1> QED
  BY <1>4, <1>5

LEMMA TimerDelFile ==
  ASSUME NEW d, Timer!Sound(d), NEW t
  PROVE  Timer!Sound(Timer!del_timer_file(d, t))
  BY TimerFind, TimerDel DEF Timer!del_timer_file

LEMMA TimerAtEnd ==
  ASSUME NEW d, Timer!Sound(d), NEW e \in AtEnds
  PROVE  Timer!Sound(Timer!update_timer_at_end(d, e))
<1> DEFINE h == [d.hdr EXCEPT !.at_end = e]
           c == [recs |-> d.recs, hdr |-> h]
<1>1. /\ d = [recs |-> d.recs, hdr |-> d.hdr] /\ d.recs \in Seq(Timer!Stored)
      /\ d.hdr \in Timer!Hdrs
  BY TimerSoundType
<1>2. Timer!update_timer_at_end(d, e) = c
  BY <1>1 DEF Timer!update_timer_at_end
<1>3. /\ h \in Timer!Hdrs /\ h.num_recs = d.hdr.num_recs /\ h.db_size = d.hdr.db_size
      /\ h.alloc_size = d.hdr.alloc_size
  BY <1>1 DEF Timer!Hdrs
<1> HIDE DEF h
<1>4. c.recs = d.recs /\ c.hdr = h /\ c \in [recs : Seq(Timer!Stored), hdr : Timer!Hdrs]
  BY <1>1, <1>3
<1> HIDE DEF c
<1>5. Timer!Sound(c)
  BY <1>3, <1>4 DEF Timer!Sound
<1> QED
  BY <1>2, <1>5

LEMMA TimerNew ==
  /\ Timer!init_timer.hdr \in Timer!Hdrs
  /\ Timer!Sound(Timer!init_timer)
<1> DEFINE h == [num_recs |-> 0, at_end |-> 0, db_size |-> Timer!header_size,
                 alloc_size |-> alloc(Timer!header_size)]
<1>1. Timer!init_timer = [recs |-> << >>, hdr |-> h]
  BY TimerSame DEF Timer!init_timer
<1>2. alloc(Timer!header_size) \in Nat
  BY TimerHeaderSize, AllocHolds
<1>3. h \in Timer!Hdrs
  BY <1>2, TimerHeaderSize DEF Timer!Hdrs
<1>4. << >> \in Seq(Timer!Stored) /\ OrderedBy(TimerOrder, << >>) /\ Len(<< >>) = 0
  BY DEF OrderedBy
<1>5. Timer!Sound([recs |-> << >>, hdr |-> Timer!WithSize(h, 0, Timer!header_size)])
  <2> DEFINE s == << >>
  <2>1. s \in Seq(Timer!Stored) /\ OrderedBy(TimerOrder, s) /\ Len(s) = 0
    BY <1>4
  <2>2. Timer!header_size = Timer!header_size + 13 * Len(s)
    BY <2>1, TimerHeaderSize
  <2> HIDE DEF s, h
  <2>3. Timer!Sound([recs |-> s, hdr |-> Timer!WithSize(h, 0, Timer!header_size)])
    BY <1>3, <2>1, <2>2, TimerSized
  <2> QED
    BY <2>3 DEF s
<1>6. Timer!WithSize(h, 0, Timer!header_size) = h
  <2>1. Timer!WithSize(h, 0, Timer!header_size)
          = [h EXCEPT !.num_recs = 0, !.db_size = Timer!header_size,
                      !.alloc_size = alloc(Timer!header_size)]
    BY TimerSame DEF Timer!WithSize
  <2> QED
    BY <2>1
<1> QED
  BY <1>1, <1>3, <1>5, <1>6

\* What the watch has at the start.
LEMMA TimerStart ==
  ASSUME Timer!Init
  PROVE  Timer!SoundInv
<1>2. PICK k \in 0..TimersHeld : \E lines \in [1..k -> Timers] :
         /\ \A j \in 1..(k - 1) : lines[j].msg <= lines[j + 1].msg
         /\ image = Timer!create_timer(
                   [recs |-> [j \in DOMAIN lines |-> Timer!Rec(lines[j])],
                    hdr |-> Timer!WithSize(Timer!init_timer.hdr, Len(lines),
                                           Timer!header_size + 13 * Len(lines))])
  BY DEF Timer!Init, Timer!Ascending
<1>1. PICK lines \in [1..k -> Timers] :
         /\ \A j \in 1..(k - 1) : lines[j].msg <= lines[j + 1].msg
         /\ image = Timer!create_timer(
                   [recs |-> [j \in DOMAIN lines |-> Timer!Rec(lines[j])],
                    hdr |-> Timer!WithSize(Timer!init_timer.hdr, Len(lines),
                                           Timer!header_size + 13 * Len(lines))])
  BY <1>2
<1>k. k \in Nat
  BY <1>2, TimersAssumption
<1> DEFINE recs == [j \in DOMAIN lines |-> Timer!Rec(lines[j])]
           d == [recs |-> recs,
                 hdr |-> Timer!WithSize(Timer!init_timer.hdr, Len(lines),
                                        Timer!header_size + 13 * Len(lines))]
<1>3. DOMAIN lines = 1..k /\ Len(lines) = k /\ \A j \in 1..k : lines[j] \in Timer!Lines
  <2>1. k \in Nat /\ lines \in Seq(Timers)
    BY <1>k, SeqDef
  <2> QED
    BY <2>1, TimersAssumption
<1>4. recs \in [1..k -> Timer!Stored] /\ \A j \in 1..k : recs[j].msg = lines[j].msg
  BY <1>3, TimerRec
<1> HIDE DEF recs
<1>5. recs \in Seq(Timer!Stored) /\ Len(recs) = k
  <2>1. k \in Nat /\ recs \in Seq(Timer!Stored)
    BY <1>k, <1>4, SeqDef
  <2> QED
    BY <1>4, <2>1
<1>6. OrderedBy(TimerOrder, recs)
  <2>1. ASSUME NEW j \in 1..(k - 1) PROVE <<recs[j], recs[j + 1]>> \in TimerOrder
    <3>1. j \in 1..k /\ j + 1 \in 1..k
      BY <1>k
    <3>2. recs[j].msg <= recs[j + 1].msg
      BY <1>1, <1>4, <3>1
    <3> QED
      BY <1>4, <3>1, <3>2 DEF TimerOrder
  <2> QED
    BY <1>5, <2>1 DEF OrderedBy
<1>7. Timer!Sound(d)
  BY <1>3, <1>5, <1>6, TimerNew, TimerSized
<1>8. image = Timer!create_timer(d)
  BY <1>1 DEF recs
<1> HIDE DEF d
<1>9. Timer!read_timer(image) = d
  BY <1>7, <1>8, TimerReads
<1>10. ~Timer!Holding
  BY DEF Timer!Init, Timer!Started, Timer!Holding
<1> QED
  BY <1>7, <1>8, <1>9, <1>10 DEF Timer!SoundInv

\* A step of a program on d.
LEMMA TimerEdits ==
  ASSUME Timer!SoundInv, UNCHANGED <<app, image>>, Timer!Sound(db'),
         static' \in [held : {0, 1}, updated : BOOLEAN]
  PROVE  Timer!SoundInv'
<1>1. Timer!Sound(Timer!read_timer(image)) /\ image = Timer!create_timer(Timer!read_timer(image))
  BY DEF Timer!SoundInv
<1>2. image' = image
  OBVIOUS
<1> QED
  BY <1>1, <1>2, TimerNextState

LEMMA TimerHolds ==
  ASSUME Timer!SoundInv, prog \in {"add", "del", "new"}
  PROVE  /\ Timer!Sound(db) /\ static.held \in {0, 1} /\ static.updated \in BOOLEAN
         /\ static = [held |-> static.held, updated |-> static.updated]
  BY DEF Timer!SoundInv, Timer!Holding

LEMMA TimerNext ==
  ASSUME Timer!SoundInv, Timer!Next
  PROVE  Timer!SoundInv'
<1>1. CASE Timer!Open
  <2>1. PICK tool \in {"add", "del"}, held \in {0, 1} :
           /\ db' = Timer!read_timer(image)
           /\ static' = [held |-> held, updated |-> tool = "add"]
           /\ UNCHANGED <<app, image>>
    BY <1>1 DEF Timer!Open, Timer!Opens
  <2>2. Timer!Sound(db')
    BY <2>1 DEF Timer!SoundInv
  <2>3. static' \in [held : {0, 1}, updated : BOOLEAN]
    BY <2>1, Zenon
  <2> QED
    BY <2>1, <2>2, <2>3, TimerEdits
<1>2. CASE Timer!Create
  <2>1. PICK held \in {0, 1} :
           /\ db' = Timer!init_timer /\ static' = [held |-> held, updated |-> TRUE]
           /\ UNCHANGED <<app, image>>
    BY <1>2 DEF Timer!Create, Timer!Creates
  <2>2. static' \in [held : {0, 1}, updated : BOOLEAN]
    BY <2>1
  <2> QED
    BY <2>1, <2>2, TimerNew, TimerEdits
<1>3. CASE Timer!AddLine
  <2>1. PICK t \in Timers :
           /\ db' = Timer!add_timer_file(db, Timer!read_timer_line(t, static.held))
           /\ static' = [static EXCEPT !.held = Timer!read_timer_line(t, static.held).half]
           /\ UNCHANGED <<app, image>> /\ prog \in {"add", "del", "new"}
    BY <1>3 DEF Timer!AddLine, Timer!Edits, Timer!Holding
  <2>2. /\ Timer!Sound(db) /\ static.held \in {0, 1} /\ static.updated \in BOOLEAN
        /\ static = [held |-> static.held, updated |-> static.updated]
    BY <2>1, TimerHolds
  <2>3. /\ Timer!read_timer_line(t, static.held) \in Timer!Lines
        /\ Timer!read_timer_line(t, static.held).half \in {0, 1}
    BY <2>2, TimersAssumption, TimerRead
  <2>4. Timer!Sound(db')
    BY <2>1, <2>2, <2>3, TimerAdd
  <2>5. static' = [held |-> Timer!read_timer_line(t, static.held).half,
                   updated |-> static.updated]
    BY <2>1, <2>2
  <2>6. static' \in [held : {0, 1}, updated : BOOLEAN]
    BY <2>2, <2>3, <2>5
  <2> QED
    BY <2>1, <2>4, <2>6, TimerEdits
<1>4. CASE Timer!AddOptions
  <2>1. PICK t \in Timers, held \in {0, 1} :
           /\ db' = Timer!add_timer_file(db,
                        Timer!read_timer_line(Timer!option_line(t), held))
           /\ static' = static
           /\ UNCHANGED <<app, image>> /\ prog \in {"add", "del", "new"}
    BY <1>4 DEF Timer!AddOptions, Timer!Edits, Timer!Holding
  <2>2. /\ Timer!Sound(db) /\ static.held \in {0, 1} /\ static.updated \in BOOLEAN
        /\ static = [held |-> static.held, updated |-> static.updated]
    BY <2>1, TimerHolds
  <2>3. Timer!option_line(t) \in Timer!Lines
    BY TimersAssumption, TimerRead
  <2>4. Timer!read_timer_line(Timer!option_line(t), held) \in Timer!Lines
    BY <2>3, TimerRead
  <2>5. Timer!Sound(db')
    BY <2>1, <2>2, <2>4, TimerAdd
  <2>6. static' \in [held : {0, 1}, updated : BOOLEAN]
    BY <2>1, <2>2
  <2> QED
    BY <2>1, <2>5, <2>6, TimerEdits
<1>5. CASE Timer!AtEndLine
  <2>1. PICK e \in AtEnds :
           /\ db' = Timer!update_timer_at_end(db, e) /\ static' = static
           /\ UNCHANGED <<app, image>> /\ prog \in {"add", "del", "new"}
    BY <1>5 DEF Timer!AtEndLine, Timer!Edits, Timer!Adders
  <2>2. /\ Timer!Sound(db) /\ static.held \in {0, 1} /\ static.updated \in BOOLEAN
        /\ static = [held |-> static.held, updated |-> static.updated]
    BY <2>1, TimerHolds
  <2>3. static' \in [held : {0, 1}, updated : BOOLEAN]
    BY <2>1, <2>2
  <2> QED
    BY <2>1, <2>2, <2>3, TimerAtEnd, TimerEdits
<1>6. CASE Timer!DelLine
  <2>1. PICK t \in Timers :
           /\ db' = Timer!del_timer_file(db, t)
           /\ static' = [static EXCEPT !.updated = @ \/ Timer!find_timer(db, t) >= 0]
           /\ UNCHANGED <<app, image>> /\ prog \in {"add", "del", "new"}
    BY <1>6 DEF Timer!DelLine, Timer!Edits
  <2>2. /\ Timer!Sound(db) /\ static.held \in {0, 1} /\ static.updated \in BOOLEAN
        /\ static = [held |-> static.held, updated |-> static.updated]
    BY <2>1, TimerHolds
  <2>3. static' \in [held : {0, 1}, updated : BOOLEAN]
    BY <2>1, <2>2
  <2> QED
    BY <2>1, <2>2, <2>3, TimerDelFile, TimerEdits
<1>7. CASE Timer!DeleteAll
  <2>1. /\ db' = Timer!FirstsDeleted(Timer!del_timer, db, Len(db.recs))
        /\ static' = [static EXCEPT !.updated = @ \/ db.recs # << >>]
        /\ UNCHANGED <<app, image>> /\ prog \in {"add", "del", "new"}
    BY <1>7 DEF Timer!DeleteAll, Timer!Edits
  <2>2. /\ Timer!Sound(db) /\ static.held \in {0, 1} /\ static.updated \in BOOLEAN
        /\ static = [held |-> static.held, updated |-> static.updated]
    BY <2>1, TimerHolds
  <2>3. static' \in [held : {0, 1}, updated : BOOLEAN]
    BY <2>1, <2>2
  <2>4. Len(db.recs) \in Nat
    BY <2>2, TimerSoundType
  <2>5. Timer!Sound(db')
    BY <2>1, <2>2, <2>4, TimerEmptied
  <2> QED
    BY <2>1, <2>3, <2>5, TimerEdits
<1>8. CASE Timer!Save
  <2>1. /\ image' = Timer!create_timer(db) /\ prog' = "closed" /\ UNCHANGED app
        /\ prog \in {"add", "del", "new"}
    BY <1>8 DEF Timer!Save, Timer!Saves, Timer!Holding
  <2>2. Timer!Sound(db)
    BY <2>1, TimerHolds
  <2>3. Timer!read_timer(image') = db
    BY <2>1, <2>2, TimerReads
  <2> QED
    BY <2>1, <2>2, <2>3, TimerNextState
<1>9. CASE Timer!Leave
  <2>1. UNCHANGED <<app, image>> /\ prog' = "closed"
    BY <1>9 DEF Timer!Leave, Timer!Quit, Timer!Stops
  <2>2. Timer!Sound(Timer!read_timer(image)) /\ image = Timer!create_timer(Timer!read_timer(image))
    BY DEF Timer!SoundInv
  <2> QED
    BY <2>1, <2>2, TimerNextState
<1> QED
  BY <1>1, <1>2, <1>3, <1>4, <1>5, <1>6, <1>7, <1>8, <1>9 DEF Timer!Next

\* The watch keeps the timers apart, in the size of the header, in order.
LEMMA TimerFits ==
  ASSUME Timer!SoundInv
  PROVE  Timer!Fits /\ Timer!InOrder
<1> DEFINE d == Timer!read_timer(image)
           h == Timer!header_size
           s == d.recs
           pieces == {<<o, 13>> : o \in DOMAIN image.at}
<1>1. Timer!Sound(d) /\ image = Timer!create_timer(d)
  BY DEF Timer!SoundInv
<1> HIDE DEF d
<1>2. /\ DOMAIN s = 1..Len(s) /\ Len(s) \in Nat /\ d.hdr.db_size = h + 13 * Len(s)
      /\ d.hdr.alloc_size = alloc(d.hdr.db_size)
  BY <1>1, TimerSoundType DEF Timer!Sound, Timer!alloc, alloc
<1>3. h \in Nat \ {0}
  BY TimerHeaderSize
<1>4. image.hdr = d.hdr /\ DOMAIN image.at = {h + 13 * (j - 1) : j \in DOMAIN s}
  BY <1>1 DEF Timer!create_timer
<1> HIDE DEF h, s
<1>5. ASSUME NEW p \in pieces
      PROVE  \E j \in 1..Len(s) : p = <<h + 13 * (j - 1), 13>>
  BY <1>2, <1>4
<1> HIDE DEF pieces
<1>6. \A p \in pieces : h <= p[1] /\ p[1] + p[2] <= h + 13 * Len(s)
  <2> SUFFICES ASSUME NEW p \in pieces PROVE h <= p[1] /\ p[1] + p[2] <= h + 13 * Len(s)
    OBVIOUS
  <2>1. PICK j \in 1..Len(s) : p = <<h + 13 * (j - 1), 13>>
    BY <1>5
  <2> QED
    BY <1>2, <1>3, <2>1
<1>7. \A p, q \in pieces : p # q => p[1] + p[2] <= q[1] \/ q[1] + q[2] <= p[1]
  <2> SUFFICES ASSUME NEW p \in pieces, NEW q \in pieces, p # q
               PROVE  p[1] + p[2] <= q[1] \/ q[1] + q[2] <= p[1]
    OBVIOUS
  <2>1. PICK j \in 1..Len(s) : p = <<h + 13 * (j - 1), 13>>
    BY <1>5
  <2>2. PICK k \in 1..Len(s) : q = <<h + 13 * (k - 1), 13>>
    BY <1>5
  <2>3. j < k \/ k < j
    BY <1>2, <2>1, <2>2
  <2> QED
    BY <1>2, <1>3, <2>1, <2>2, <2>3
<1>8. Timer!Packed(pieces, h, image.hdr.db_size)
  BY <1>2, <1>4, <1>6, <1>7 DEF Timer!Packed
<1>9. d.hdr.db_size \in Nat \ {0}
  BY <1>2, <1>3
<1>10. image.hdr.db_size <= image.hdr.alloc_size
  BY <1>2, <1>4, <1>9, AllocHolds
<1>11. Timer!Fits
  BY <1>8, <1>10 DEF Timer!Fits, pieces, h
<1>12. Timer!InOrder
  BY <1>1 DEF Timer!InOrder, Timer!Sound, d
<1> QED
  BY <1>11, <1>12

-----------------------------------------------------------------------------
(* Occasions *)

LEMMA OccasionSame ==
  /\ \A x : Occasion!alloc(x) = alloc(x)
  /\ \A m : Occasion!Space(m) = Space(m)
  /\ \A s : Occasion!Sum(s) = Sum(s)
  /\ \A s, i, e : Occasion!InsertAt(s, i, e) = InsertAt(s, i, e)
  /\ \A s, i : Occasion!RemoveAt(s, i) = RemoveAt(s, i)
  /\ \A I : Occasion!Min(I) = Min(I)
  /\ \A f : Occasion!Range(f) = Range(f)
  /\ \A im : Occasion!Listed(im) = Listed(im)
  /\ \A p, lo, hi : Occasion!Packed(p, lo, hi) = Packed(p, lo, hi)
<1>1. /\ \A x : Occasion!alloc(x) = alloc(x)
      /\ \A m : Occasion!Space(m) = Space(m)
      /\ \A s : Occasion!Sum(s) = Sum(s)
  BY DEF Occasion!alloc, alloc, Occasion!Space, Space, Occasion!Sum, Sum
<1>2. /\ \A s, i, e : Occasion!InsertAt(s, i, e) = InsertAt(s, i, e)
      /\ \A s, i : Occasion!RemoveAt(s, i) = RemoveAt(s, i)
      /\ \A I : Occasion!Min(I) = Min(I)
      /\ \A f : Occasion!Range(f) = Range(f)
  BY DEF Occasion!InsertAt, InsertAt, Occasion!RemoveAt, RemoveAt, Occasion!Min, Min,
         Occasion!Range, Range
<1>3. /\ \A im : Occasion!Listed(im) = Listed(im)
      /\ \A p, lo, hi : Occasion!Packed(p, lo, hi) = Packed(p, lo, hi)
  BY DEF Occasion!Listed, Listed, Occasion!Packed, Packed
<1> QED
  BY <1>1, <1>2, <1>3

\* the length of each record, and the order of the records
OccasionSize == [r \in Occasion!Stored |-> Occasion!Size(r)]
OccasionOrder ==
    {p \in Occasion!Stored \X Occasion!Stored : Occasion!Follow(p[1], p[2])}

LEMMA OccasionStored ==
  ASSUME NEW r \in Occasion!Stored
  PROVE  /\ r.msg \in Nat /\ r.len \in Nat /\ r.date \in Nat
         /\ Occasion!Size(r) = 6 + r.len /\ Occasion!Size(r) \in Nat \ {0}
         /\ OccasionSize[r] = Occasion!Size(r)
<1>1. r.msg \in Msgs /\ r.len \in Nat /\ r.date \in Nat
  BY DEF Occasion!Stored
<1>2. Occasion!Size(r) = 6 + r.len
  BY DEF Occasion!Size
<1>3. r.msg \in Nat
  BY <1>1, MsgsAssumption
<1>5. Occasion!Size(r) \in Nat \ {0}
  BY <1>1, <1>2
<1>4. OccasionSize[r] = Occasion!Size(r)
  BY DEF OccasionSize
<1> QED
  BY <1>1, <1>2, <1>3, <1>4, <1>5

LEMMA OccasionTakes ==
  Takes(OccasionSize, Occasion!Stored) /\ Measures(OccasionSize, Occasion!Stored)
  BY OccasionStored DEF Takes, Measures, OccasionSize

LEMMA OccasionRec ==
  ASSUME NEW o \in Occasion!Lines
  PROVE  /\ Occasion!Rec(o) \in Occasion!Stored
         /\ Occasion!Rec(o).date = o.date /\ Occasion!Rec(o).msg = o.msg
<1>1. o.msg \in Msgs /\ o.date \in Nat /\ o.type \in Occasion!Types
  BY DEF Occasion!Lines
<1>2. Occasion!Space(o.msg) \in Nat
  BY <1>1, SpaceType, OccasionSame
<1>3. Occasion!Rec(o) = [msg |-> o.msg, len |-> Occasion!Space(o.msg), date |-> o.date,
                         type |-> o.type]
  BY DEF Occasion!Rec
<1> QED
  BY <1>1, <1>2, <1>3 DEF Occasion!Stored

\* The order is one: of two with a third between them, too.
LEMMA OccasionsOrdered ==
  ASSUME NEW a \in Occasion!Stored, NEW b \in Occasion!Stored, NEW c \in Occasion!Stored,
         <<a, b>> \in OccasionOrder, <<b, c>> \in OccasionOrder
  PROVE  <<a, c>> \in OccasionOrder
<1>1. Occasion!Follow(a, b) /\ Occasion!Follow(b, c)
  BY DEF OccasionOrder
<1>2. /\ a.msg \in Nat /\ b.msg \in Nat /\ c.msg \in Nat
      /\ a.date \in Nat /\ b.date \in Nat /\ c.date \in Nat
  BY OccasionStored
<1>3. ~Occasion!Before(b, a) /\ ~Occasion!Before(c, b) => ~Occasion!Before(c, a)
  BY <1>2 DEF Occasion!Before
<1>4. Occasion!Follow(a, c)
  BY <1>1, <1>3 DEF Occasion!Follow
<1> QED
  BY <1>4 DEF OccasionOrder

LEMMA OccasionExtent ==
  ASSUME NEW hdr, NEW recs \in Seq(Occasion!Stored), hdr.num_recs = Len(recs)
  PROVE  Occasion!Extent(hdr, Occasion!HDR, recs, Occasion!Size)
           = 15 + 2 * Len(recs) + Sum(Lens(OccasionSize, recs))
<1>1. \A j \in DOMAIN recs : recs[j] \in Occasion!Stored
  OBVIOUS
<1>2. [j \in DOMAIN recs |-> Occasion!Size(recs[j])] = Lens(OccasionSize, recs)
  BY <1>1, OccasionStored DEF Lens
<1> QED
  BY <1>2, OccasionSame DEF Occasion!Extent, Occasion!HDR

LEMMA OccasionSoundType ==
  ASSUME NEW d, Occasion!Sound(d)
  PROVE  /\ d = [recs |-> d.recs, hdr |-> d.hdr] /\ d.recs \in Seq(Occasion!Stored)
         /\ d.hdr \in Occasion!Hdrs /\ Len(d.recs) \in Nat /\ DOMAIN d.recs = 1..Len(d.recs)
         /\ \A j \in 1..Len(d.recs) : d.recs[j] \in Occasion!Stored
         /\ d.hdr.num_recs = Len(d.recs) /\ d.hdr.num_recur \in 0..Len(d.recs)
         /\ d.hdr.num_nonrecur = Len(d.recs) - d.hdr.num_recur
         /\ \A j \in 1..Len(d.recs) : Occasion!Recurring(d.recs[j]) <=> j <= d.hdr.num_recur
         /\ d.hdr.db_size = 15 + 2 * Len(d.recs) + Sum(Lens(OccasionSize, d.recs))
         /\ OrderedBy(OccasionOrder, d.recs)
<1>1. d \in [recs : Seq(Occasion!Stored), hdr : Occasion!Hdrs]
  BY DEF Occasion!Sound
<1>2. /\ d.recs \in Seq(Occasion!Stored) /\ d.hdr \in Occasion!Hdrs
      /\ d = [recs |-> d.recs, hdr |-> d.hdr]
  BY <1>1
<1>3. /\ Len(d.recs) \in Nat /\ DOMAIN d.recs = 1..Len(d.recs)
      /\ \A j \in 1..Len(d.recs) : d.recs[j] \in Occasion!Stored
  BY <1>2
<1>4. d.hdr.num_recur \in Nat /\ d.hdr.num_nonrecur \in Nat
  BY <1>2 DEF Occasion!Hdrs
<1>5. \A j \in 1..(Len(d.recs) - 1) : Occasion!Follow(d.recs[j], d.recs[j + 1])
  BY DEF Occasion!Sound
<1>6. OrderedBy(OccasionOrder, d.recs)
  <2>1. ASSUME NEW j \in 1..(Len(d.recs) - 1)
        PROVE  <<d.recs[j], d.recs[j + 1]>> \in OccasionOrder
    <3>1. j \in 1..Len(d.recs) /\ j + 1 \in 1..Len(d.recs)
      BY <1>3
    <3> QED
      BY <1>3, <1>5, <3>1 DEF OccasionOrder
  <2> QED
    BY <2>1 DEF OrderedBy
<1>7. d.hdr.num_recs = Len(d.recs) /\ d.hdr.num_recur + d.hdr.num_nonrecur = Len(d.recs)
  BY DEF Occasion!Sound
<1>8. d.hdr.db_size = 15 + 2 * Len(d.recs) + Sum(Lens(OccasionSize, d.recs))
  BY <1>2, <1>7, OccasionExtent DEF Occasion!Sound
<1>9. \A j \in 1..Len(d.recs) : Occasion!Recurring(d.recs[j]) <=> j <= d.hdr.num_recur
  BY <1>3 DEF Occasion!Sound
<1>10. d.hdr.num_recur \in 0..Len(d.recs) /\ d.hdr.num_nonrecur = Len(d.recs) - d.hdr.num_recur
  BY <1>3, <1>4, <1>7
<1> QED
  BY <1>2, <1>3, <1>6, <1>7, <1>8, <1>9, <1>10

\* The last indices, counted on.
LEMMA OccasionLast ==
  ASSUME NEW x \in Int, NEW by \in {-1, 1}
  PROVE  Occasion!U16(Occasion!U16(x) + by) = Occasion!U16(x + by) /\ Occasion!U16(x) \in Nat
  BY DEF Occasion!U16

\* The header counted on, field by field.
LEMMA OccasionHeader ==
  ASSUME NEW h \in Occasion!Hdrs, NEW size, NEW e, NEW by \in {-1, 1}
  PROVE  LET k == Occasion!Recurring(e)
         IN Occasion!Counted(Occasion!WithSize(h, size), e, by)
              = [num_recs |-> h.num_recs + by,
                 num_nonrecur |-> IF k THEN h.num_nonrecur ELSE h.num_nonrecur + by,
                 num_recur |-> IF k THEN h.num_recur + by ELSE h.num_recur,
                 last_nonrecur |-> Occasion!U16(h.last_nonrecur + by),
                 last_recur |-> IF k THEN Occasion!U16(h.last_recur + by) ELSE h.last_recur,
                 db_size |-> size, alloc_size |-> alloc(size)]
<1> DEFINE k == Occasion!Recurring(e)
           a == alloc(size)
           w == [h EXCEPT !.db_size = size, !.alloc_size = a]
<1>1. Occasion!WithSize(h, size) = w
  BY OccasionSame DEF Occasion!WithSize
<1> HIDE DEF k, a
<1>2. w = [num_recs |-> h.num_recs, num_nonrecur |-> h.num_nonrecur,
           num_recur |-> h.num_recur, last_nonrecur |-> h.last_nonrecur,
           last_recur |-> h.last_recur, db_size |-> size, alloc_size |-> a]
  <2> DEFINE b == [h EXCEPT !.db_size = size]
  <2>1. b = [num_recs |-> h.num_recs, num_nonrecur |-> h.num_nonrecur,
             num_recur |-> h.num_recur, last_nonrecur |-> h.last_nonrecur,
             last_recur |-> h.last_recur, db_size |-> size, alloc_size |-> h.alloc_size]
    BY DEF Occasion!Hdrs
  <2>2. w = [b EXCEPT !.alloc_size = a]
    OBVIOUS
  <2> HIDE DEF b, w
  <2> QED
    BY <2>1, <2>2
<1> HIDE DEF w
<1>3. Occasion!Counted(w, e, by)
        = [w EXCEPT !.num_recs = @ + by,
                    !.num_recur = IF k THEN @ + by ELSE @,
                    !.last_recur = IF k THEN Occasion!U16(@ + by) ELSE @,
                    !.num_nonrecur = IF k THEN @ ELSE @ + by,
                    !.last_nonrecur = Occasion!U16(@ + by)]
  BY DEF Occasion!Counted, k
<1>6. Occasion!Counted(w, e, by)
        = [num_recs |-> h.num_recs + by,
           num_nonrecur |-> IF k THEN h.num_nonrecur ELSE h.num_nonrecur + by,
           num_recur |-> IF k THEN h.num_recur + by ELSE h.num_recur,
           last_nonrecur |-> Occasion!U16(h.last_nonrecur + by),
           last_recur |-> IF k THEN Occasion!U16(h.last_recur + by) ELSE h.last_recur,
           db_size |-> size, alloc_size |-> a]
  <2>1. CASE k
    BY <1>2, <1>3, <2>1
  <2>2. CASE ~k
    BY <1>2, <1>3, <2>2
  <2> QED
    BY <2>1, <2>2
<1> QED
  BY <1>1, <1>6 DEF k, a

\* The header counted on with a record more or less is that of the parts.
LEMMA OccasionCounted ==
  ASSUME NEW d, Occasion!Sound(d), NEW recs \in Seq(Occasion!Stored),
         OrderedBy(OccasionOrder, recs), NEW e \in Occasion!Stored, NEW by \in {-1, 1},
         Len(recs) = Len(d.recs) + by,
         NEW m, m = d.hdr.num_recur + (IF Occasion!Recurring(e) THEN by ELSE 0),
         m \in 0..Len(recs),
         \A j \in 1..Len(recs) : Occasion!Recurring(recs[j]) <=> j <= m,
         NEW size, size = 15 + 2 * Len(recs) + Sum(Lens(OccasionSize, recs))
  PROVE  Occasion!Sound([recs |-> recs,
                         hdr |-> Occasion!Counted(Occasion!WithSize(d.hdr, size), e, by)])
<1> DEFINE h == d.hdr
           n == Len(d.recs)
           k == Occasion!Recurring(e)
           hdr == Occasion!Counted(Occasion!WithSize(h, size), e, by)
           c == [recs |-> recs, hdr |-> hdr]
<1>1. /\ h \in Occasion!Hdrs /\ n \in Nat /\ h.num_recs = n /\ h.num_recur \in 0..n
      /\ h.num_nonrecur = n - h.num_recur
  BY OccasionSoundType
<1>2. /\ h.last_recur = Occasion!U16(h.num_recur - 1)
      /\ h.last_nonrecur = Occasion!U16(h.num_recs - 1)
  BY DEF Occasion!Sound
<1>3. size \in Nat \ {0} /\ Sum(Lens(OccasionSize, recs)) \in Nat /\ Len(recs) \in Nat
  <2>1. Sum(Lens(OccasionSize, recs)) \in Nat /\ Len(recs) \in Nat
    BY LensType, OccasionTakes
  <2> QED
    BY <2>1
<1>4. alloc(size) \in Nat
  BY <1>3, AllocHolds
<1>19. hdr = [num_recs |-> h.num_recs + by,
              num_nonrecur |-> IF k THEN h.num_nonrecur ELSE h.num_nonrecur + by,
              num_recur |-> IF k THEN h.num_recur + by ELSE h.num_recur,
              last_nonrecur |-> Occasion!U16(h.last_nonrecur + by),
              last_recur |-> IF k THEN Occasion!U16(h.last_recur + by) ELSE h.last_recur,
              db_size |-> size, alloc_size |-> alloc(size)]
  BY <1>1, OccasionHeader
<1>20. by \in Int
  OBVIOUS
<1> HIDE DEF h, n, k, hdr
<1>5. /\ hdr.num_recs = h.num_recs + by
      /\ hdr.num_recur = IF k THEN h.num_recur + by ELSE h.num_recur
      /\ hdr.last_recur = IF k THEN Occasion!U16(h.last_recur + by) ELSE h.last_recur
      /\ hdr.num_nonrecur = IF k THEN h.num_nonrecur ELSE h.num_nonrecur + by
      /\ hdr.last_nonrecur = Occasion!U16(h.last_nonrecur + by)
      /\ hdr.db_size = size /\ hdr.alloc_size = alloc(size)
      /\ hdr = [num_recs |-> hdr.num_recs, num_nonrecur |-> hdr.num_nonrecur,
                num_recur |-> hdr.num_recur, last_nonrecur |-> hdr.last_nonrecur,
                last_recur |-> hdr.last_recur, db_size |-> hdr.db_size,
                alloc_size |-> hdr.alloc_size]
  BY <1>19
<1>21. Len(recs) = n + by /\ m = h.num_recur + (IF k THEN by ELSE 0)
  BY DEF h, n, k
<1>22. hdr.num_recs = Len(recs)
  BY <1>1, <1>5, <1>21
<1>23. hdr.num_recur = m
  <2>1. CASE k
    BY <1>5, <1>21, <2>1
  <2>2. CASE ~k
    BY <1>1, <1>5, <1>21, <2>2
  <2> QED
    BY <2>1, <2>2
<1>24. hdr.num_nonrecur = Len(recs) - m
  <2>1. h.num_recur \in Int /\ n \in Int
    BY <1>1
  <2>2. h.num_nonrecur = n - h.num_recur
    BY <1>1
  <2>3. CASE k
    <3>1. hdr.num_nonrecur = h.num_nonrecur /\ m = h.num_recur + by
      BY <1>5, <1>21, <2>3
    <3>2. n - h.num_recur = (n + by) - (h.num_recur + by)
      BY <1>20, <2>1
    <3> QED
      BY <1>21, <2>2, <3>1, <3>2
  <2>4. CASE ~k
    <3>1. hdr.num_nonrecur = h.num_nonrecur + by /\ m = h.num_recur
      BY <1>5, <1>21, <2>1, <2>4
    <3>2. (n - h.num_recur) + by = (n + by) - h.num_recur
      BY <1>20, <2>1
    <3> QED
      BY <1>21, <2>2, <3>1, <3>2
  <2> QED
    BY <2>3, <2>4
<1>6. hdr.num_recs = Len(recs) /\ hdr.num_recur = m /\ hdr.num_nonrecur = Len(recs) - m
  BY <1>22, <1>23, <1>24
<1>7. hdr.last_nonrecur = Occasion!U16(hdr.num_recs - 1) /\ hdr.last_nonrecur \in Nat
  <2>4. h.num_recs \in Int /\ hdr.num_recs = h.num_recs + by
    BY <1>1, <1>5
  <2>1. h.num_recs - 1 \in Int /\ (h.num_recs - 1) + by = hdr.num_recs - 1
        /\ hdr.num_recs - 1 \in Int
    BY <1>20, <2>4
  <2>2. Occasion!U16(Occasion!U16(h.num_recs - 1) + by) = Occasion!U16((h.num_recs - 1) + by)
    BY <2>1, OccasionLast
  <2>3. Occasion!U16(hdr.num_recs - 1) \in Nat
    BY <2>1, OccasionLast
  <2> QED
    BY <1>2, <1>5, <2>1, <2>2, <2>3
<1>8. hdr.last_recur = Occasion!U16(hdr.num_recur - 1) /\ hdr.last_recur \in Nat
  <2>1. h.num_recur - 1 \in Int /\ hdr.num_recur - 1 \in Int
    BY <1>1, <1>5
  <2>2. Occasion!U16(hdr.num_recur - 1) \in Nat
    BY <2>1, OccasionLast
  <2>3. CASE k
    <3>1. (h.num_recur - 1) + by = hdr.num_recur - 1
      BY <1>1, <1>5, <1>20, <2>3
    <3>2. Occasion!U16(Occasion!U16(h.num_recur - 1) + by)
            = Occasion!U16((h.num_recur - 1) + by)
      BY <2>1, OccasionLast
    <3> QED
      BY <1>2, <1>5, <2>2, <2>3, <3>1, <3>2
  <2>4. CASE ~k
    BY <1>2, <1>5, <2>2, <2>4
  <2> QED
    BY <2>3, <2>4
<1>9. hdr.num_recs \in Nat /\ hdr.num_recur \in Nat /\ hdr.num_nonrecur \in Nat
  BY <1>3, <1>6
<1>10. hdr \in Occasion!Hdrs
  BY <1>3, <1>4, <1>5, <1>7, <1>8, <1>9 DEF Occasion!Hdrs
<1>11. c \in [recs : Seq(Occasion!Stored), hdr : Occasion!Hdrs] /\ c.recs = recs /\ c.hdr = hdr
  BY <1>10
<1> HIDE DEF c
<1>12. hdr.db_size = Occasion!Extent(hdr, Occasion!HDR, recs, Occasion!Size)
  BY <1>5, <1>6, OccasionExtent
<1>13. hdr.alloc_size = Occasion!alloc(hdr.db_size)
  BY <1>5, OccasionSame
<1>14. hdr.num_recur + hdr.num_nonrecur = Len(recs)
  BY <1>3, <1>6
<1>15. \A j \in 1..(Len(recs) - 1) : Occasion!Follow(recs[j], recs[j + 1])
  BY DEF OrderedBy, OccasionOrder
<1>16. \A j \in DOMAIN recs : Occasion!Recurring(recs[j]) <=> j <= hdr.num_recur
  BY <1>6
<1>17. Occasion!Sound(c)
  BY <1>6, <1>7, <1>8, <1>11, <1>12, <1>13, <1>14, <1>15, <1>16 DEF Occasion!Sound
<1> QED
  BY <1>17 DEF c, hdr, h

LEMMA OccasionsApart ==
  ASSUME NEW a \in Occasion!Stored, NEW b \in Occasion!Stored
  PROVE  /\ Occasion!Before(a, b) => ~Occasion!Before(b, a)
         /\ \A o : o.date = a.date /\ o.msg = a.msg
              => /\ Occasion!Before(o, b) <=> Occasion!Before(a, b)
<1>1. a.msg \in Nat /\ b.msg \in Nat /\ a.date \in Nat /\ b.date \in Nat
  BY OccasionStored
<1>2. Occasion!Before(a, b) => ~Occasion!Before(b, a)
  BY <1>1 DEF Occasion!Before
<1>3. \A o : o.date = a.date /\ o.msg = a.msg
              => (Occasion!Before(o, b) <=> Occasion!Before(a, b))
  BY DEF Occasion!Before
<1> QED
  BY <1>2, <1>3

\* The place for e in the part that begins after from and ends with last.
OccasionPlace(s, e, from, last, at) ==
    /\ at \in (from + 1)..(last + 1)
    /\ \A j \in (from + 1)..(at - 1) : ~Occasion!Before(e, s[j])
    /\ at <= last => Occasion!Before(e, s[at])

LEMMA OccasionAt ==
  ASSUME NEW d, Occasion!Sound(d), NEW o \in Occasion!Lines
  PROVE  \E at \in 1..(Len(d.recs) + 1) :
            LET s == d.recs
                e == Occasion!Rec(o)
                k == Occasion!Recurring(e)
                m == d.hdr.num_recur
            IN /\ OccasionPlace(s, e, IF k THEN 0 ELSE m, IF k THEN m ELSE Len(s), at)
               /\ Occasion!add_occasion(d, o)
                    = [recs |-> InsertAt(s, at, e),
                       hdr |-> Occasion!Counted(
                                  Occasion!WithSize(d.hdr,
                                      d.hdr.db_size + 2 + Occasion!Size(e)), e, 1)]
<1> DEFINE s == d.recs
           e == Occasion!Rec(o)
           k == Occasion!Recurring(e)
           m == d.hdr.num_recur
           n == Len(s)
           from == IF k THEN 0 ELSE m
           end == from + (IF k THEN m ELSE d.hdr.num_nonrecur)
           last == IF end > n THEN n ELSE end
           I == {last + 1} \cup {j \in (from + 1)..last : Occasion!Before(o, s[j])}
           at == Min(I)
<1>1. /\ n \in Nat /\ m \in 0..n /\ d.hdr.num_nonrecur = n - m
      /\ \A j \in 1..n : s[j] \in Occasion!Stored
  BY OccasionSoundType
<1>2. e \in Occasion!Stored /\ e.date = o.date /\ e.msg = o.msg
  BY OccasionRec
<1>3. Occasion!add_occasion(d, o)
        = [recs |-> InsertAt(s, at, e),
           hdr |-> Occasion!Counted(Occasion!WithSize(d.hdr,
                                        d.hdr.db_size + 2 + Occasion!Size(e)), e, 1)]
  BY OccasionSame DEF Occasion!add_occasion
<1>4. \A j \in 1..n : Occasion!Before(o, s[j]) <=> Occasion!Before(e, s[j])
  BY <1>1, <1>2, OccasionsApart
<1> HIDE DEF e, s, k, m, n
<1>5. from \in 0..n /\ last = (IF k THEN m ELSE n) /\ last \in from..n
  <2>1. CASE k
    BY <1>1, <2>1
  <2>2. CASE ~k
    BY <1>1, <2>2
  <2> QED
    BY <2>1, <2>2
<1>6. from = IF k THEN 0 ELSE m
  OBVIOUS
<1> HIDE DEF from, last
<1>7. I \in SUBSET Nat /\ I # {} /\ I \subseteq (from + 1)..(last + 1)
  BY <1>1, <1>5
<1>8. \A j \in (from + 1)..last : j \in I <=> Occasion!Before(e, s[j])
  <2> SUFFICES ASSUME NEW j \in (from + 1)..last
               PROVE  j \in I <=> Occasion!Before(e, s[j])
    OBVIOUS
  <2>1. j \in 1..n /\ j # last + 1
    BY <1>1, <1>5
  <2> QED
    BY <1>4, <2>1
<1> HIDE DEF I
<1>9. at \in I /\ \A j \in I : at <= j
  BY <1>7, FirstPlace
<1> HIDE DEF at
<1>10. at \in (from + 1)..(last + 1) /\ at \in 1..(n + 1)
  BY <1>1, <1>5, <1>7, <1>9
<1>11. ASSUME NEW j \in (from + 1)..(at - 1) PROVE ~Occasion!Before(e, s[j])
  <2>1. j \in (from + 1)..last /\ ~(at <= j)
    BY <1>1, <1>5, <1>10
  <2> QED
    BY <1>8, <1>9, <2>1
<1>12. at <= last => Occasion!Before(e, s[at])
  BY <1>5, <1>8, <1>9, <1>10
<1>13. OccasionPlace(s, e, IF k THEN 0 ELSE m, IF k THEN m ELSE n, at)
  BY <1>5, <1>6, <1>10, <1>11, <1>12 DEF OccasionPlace
<1> QED
  BY <1>3, <1>10, <1>13 DEF s, e, k, m, n

LEMMA OccasionPut ==
  ASSUME NEW d, Occasion!Sound(d), NEW e \in Occasion!Stored, NEW at,
         OccasionPlace(d.recs, e, IF Occasion!Recurring(e) THEN 0 ELSE d.hdr.num_recur,
                       IF Occasion!Recurring(e) THEN d.hdr.num_recur ELSE Len(d.recs), at),
         NEW r \in Seq(Occasion!Stored), Inserted(d.recs, at, e, r)
  PROVE  /\ OrderedBy(OccasionOrder, r)
         /\ \A j \in 1..Len(r) :
               Occasion!Recurring(r[j])
                 <=> j <= d.hdr.num_recur + (IF Occasion!Recurring(e) THEN 1 ELSE 0)
<1> DEFINE k == Occasion!Recurring(e)
           m == d.hdr.num_recur
           s == d.recs
           n == Len(s)
           from == IF k THEN 0 ELSE m
           last == IF k THEN m ELSE n
<1>1. /\ n \in Nat /\ m \in 0..n /\ s \in Seq(Occasion!Stored)
      /\ \A j \in 1..n : s[j] \in Occasion!Stored
      /\ \A j \in 1..n : Occasion!Recurring(s[j]) <=> j <= m
      /\ OrderedBy(OccasionOrder, s)
  BY OccasionSoundType
<1>2. /\ at \in (from + 1)..(last + 1)
      /\ \A j \in (from + 1)..(at - 1) : ~Occasion!Before(e, s[j])
      /\ at <= last => Occasion!Before(e, s[at])
  BY DEF OccasionPlace
<1>3. Inserted(s, at, e, r) /\ (k <=> Occasion!Recurring(e))
  OBVIOUS
<1> HIDE DEF s, n, k, m
<1>4. /\ k => from = 0 /\ last = m
      /\ ~k => from = m /\ last = n
      /\ from \in Nat /\ last \in Nat /\ last <= n /\ at \in 1..(n + 1)
  BY <1>1, <1>2
<1> HIDE DEF from, last
<1>5. at > 1 => <<s[at - 1], e>> \in OccasionOrder
  <2> SUFFICES ASSUME at > 1 PROVE <<s[at - 1], e>> \in OccasionOrder
    OBVIOUS
  <2>1. at - 1 \in 1..n /\ at \in Int
    BY <1>1, <1>4
  <2>2. s[at - 1] \in Occasion!Stored /\ (Occasion!Recurring(s[at - 1]) <=> at - 1 <= m)
    BY <1>1, <2>1
  <2>3. CASE at - 1 = from
    <3>1. ~k /\ at - 1 = m
      BY <1>4, <2>1, <2>3
    <3>2. Occasion!Recurring(s[at - 1]) /\ ~Occasion!Recurring(e)
      BY <1>1, <1>3, <2>2, <3>1
    <3> QED
      BY <2>2, <3>2 DEF OccasionOrder, Occasion!Follow
  <2>4. CASE at - 1 # from
    <3>1. at - 1 \in (from + 1)..(at - 1)
      BY <1>2, <1>4, <2>1, <2>4
    <3>2. ~Occasion!Before(e, s[at - 1])
      BY <1>2, <3>1
    <3>3. k <=> at - 1 <= m
      <4>1. CASE k
        BY <1>1, <1>2, <1>4, <2>1, <4>1
      <4>2. CASE ~k
        BY <1>1, <1>4, <2>1, <3>1, <4>2
      <4> QED
        BY <4>1, <4>2
    <3>4. Occasion!Recurring(s[at - 1]) <=> Occasion!Recurring(e)
      BY <1>3, <2>2, <3>3
    <3> QED
      BY <2>2, <3>2, <3>4 DEF OccasionOrder, Occasion!Follow, Occasion!Recurring,
         Occasion!is_occasion_recurring
  <2> QED
    BY <2>3, <2>4
<1>6. at <= n => <<e, s[at]>> \in OccasionOrder
  <2> SUFFICES ASSUME at <= n PROVE <<e, s[at]>> \in OccasionOrder
    OBVIOUS
  <2>1. at \in 1..n /\ at \in Int
    BY <1>1, <1>4
  <2>2. s[at] \in Occasion!Stored /\ (Occasion!Recurring(s[at]) <=> at <= m)
    BY <1>1, <2>1
  <2>3. CASE at = last + 1
    <3>1. k /\ at = m + 1
      BY <1>1, <1>4, <2>1, <2>3
    <3>2. ~Occasion!Recurring(s[at]) /\ Occasion!Recurring(e)
      BY <1>1, <1>3, <2>2, <3>1
    <3> QED
      BY <2>2, <3>2 DEF OccasionOrder, Occasion!Follow
  <2>4. CASE at # last + 1
    <3>1. at <= last /\ at >= from + 1
      BY <1>2, <1>4, <2>1, <2>4
    <3>2. ~Occasion!Before(s[at], e)
      BY <1>2, <2>2, <3>1, OccasionsApart
    <3>3. k <=> at <= m
      <4>1. CASE k
        BY <1>1, <1>4, <2>1, <3>1, <4>1
      <4>2. CASE ~k
        BY <1>1, <1>4, <2>1, <3>1, <4>2
      <4> QED
        BY <4>1, <4>2
    <3>4. Occasion!Recurring(s[at]) <=> Occasion!Recurring(e)
      BY <1>3, <2>2, <3>3
    <3> QED
      BY <2>2, <3>2, <3>4 DEF OccasionOrder, Occasion!Follow, Occasion!Recurring,
         Occasion!is_occasion_recurring
  <2> QED
    BY <2>3, <2>4
<1>7. at \in 1..(Len(s) + 1)
  BY <1>4 DEF n
<1>8. OrderedBy(OccasionOrder, r)
  BY <1>1, <1>3, <1>5, <1>6, <1>7, PutInOrder DEF n
<1>9. ASSUME NEW j \in 1..Len(r)
      PROVE  Occasion!Recurring(r[j]) <=> j <= m + (IF k THEN 1 ELSE 0)
  <2>1. /\ Len(r) = n + 1 /\ r[at] = e
        /\ \A i \in 1..(at - 1) : r[i] = s[i]
        /\ \A i \in at..n : r[i + 1] = s[i]
    BY <1>3 DEF Inserted, n
  <2>2. CASE j < at
    <3>1. j \in 1..(at - 1) /\ j \in 1..n
      BY <1>1, <1>4, <2>1, <2>2
    <3>2. Occasion!Recurring(r[j]) <=> j <= m
      BY <1>1, <2>1, <3>1
    <3>3. j <= m <=> j <= m + (IF k THEN 1 ELSE 0)
      <4>1. CASE k
        BY <1>1, <1>2, <1>4, <3>1, <4>1
      <4>2. CASE ~k
        BY <1>1, <3>1, <4>2
      <4> QED
        BY <4>1, <4>2
    <3> QED
      BY <3>2, <3>3
  <2>3. CASE j = at
    <3>1. Occasion!Recurring(r[j]) <=> k
      BY <1>3, <2>1, <2>3
    <3>2. k <=> j <= m + (IF k THEN 1 ELSE 0)
      <4>1. CASE k
        BY <1>1, <1>2, <1>4, <2>3, <4>1
      <4>2. CASE ~k
        BY <1>1, <1>2, <1>4, <2>3, <4>2
      <4> QED
        BY <4>1, <4>2
    <3> QED
      BY <3>1, <3>2
  <2>4. CASE j > at
    <3>1. j - 1 \in at..n /\ j - 1 \in 1..n /\ (j - 1) + 1 = j
      BY <1>1, <1>4, <2>1, <2>4
    <3>2. r[j] = s[j - 1]
      BY <2>1, <3>1
    <3>3. Occasion!Recurring(r[j]) <=> j - 1 <= m
      BY <1>1, <3>1, <3>2
    <3>4. j - 1 <= m <=> j <= m + (IF k THEN 1 ELSE 0)
      <4>1. CASE k
        BY <1>1, <3>1, <4>1
      <4>2. CASE ~k
        BY <1>1, <1>2, <1>4, <2>4, <3>1, <4>2
      <4> QED
        BY <4>1, <4>2
    <3> QED
      BY <3>3, <3>4
  <2> QED
    BY <1>1, <1>4, <2>1, <2>2, <2>3, <2>4
<1> QED
  BY <1>8, <1>9 DEF k, m
LEMMA OccasionAdd ==
  ASSUME NEW d, Occasion!Sound(d), NEW o \in Occasion!Lines
  PROVE  Occasion!Sound(Occasion!add_occasion(d, o))
<1> DEFINE s == d.recs
           e == Occasion!Rec(o)
           k == Occasion!Recurring(e)
           m == d.hdr.num_recur
           size == d.hdr.db_size + 2 + Occasion!Size(e)
<1>1. /\ Len(s) \in Nat /\ m \in 0..Len(s) /\ s \in Seq(Occasion!Stored)
      /\ d.hdr.db_size = 15 + 2 * Len(s) + Sum(Lens(OccasionSize, s))
  BY OccasionSoundType
<1>2. e \in Occasion!Stored
  BY OccasionRec
<1>3. OccasionSize[e] = Occasion!Size(e) /\ Occasion!Size(e) \in Nat
  BY <1>2, OccasionStored
<1>4. PICK at \in 1..(Len(s) + 1) :
         /\ OccasionPlace(s, e, IF k THEN 0 ELSE m, IF k THEN m ELSE Len(s), at)
         /\ Occasion!add_occasion(d, o)
              = [recs |-> InsertAt(s, at, e),
                 hdr |-> Occasion!Counted(Occasion!WithSize(d.hdr, size), e, 1)]
  BY OccasionAt
<1> DEFINE r == InsertAt(s, at, e)
<1>5. r \in Seq(Occasion!Stored) /\ Inserted(s, at, e, r)
  <2> HIDE DEF s, e
  <2> QED
    BY <1>1, <1>2, InsertAtPuts
<1>6. /\ OrderedBy(OccasionOrder, r)
      /\ \A j \in 1..Len(r) : Occasion!Recurring(r[j]) <=> j <= m + (IF k THEN 1 ELSE 0)
  <2> HIDE DEF e, r
  <2> QED
    BY <1>2, <1>4, <1>5, OccasionPut DEF s, k, m
<1>7. Sum(Lens(OccasionSize, r)) = Sum(Lens(OccasionSize, s)) + OccasionSize[e]
  <2> HIDE DEF s, e, r
  <2> QED
    BY <1>1, <1>2, <1>5, OccasionTakes, LensPut
<1>8. Len(r) = Len(s) + 1
  BY <1>5 DEF Inserted
<1>9. size = 15 + 2 * Len(r) + Sum(Lens(OccasionSize, r))
  <2>1. Sum(Lens(OccasionSize, s)) \in Nat
    <3> HIDE DEF s
    <3> QED
      BY <1>1, OccasionTakes, LensType
  <2> HIDE DEF s, r, e
  <2> QED
    BY <1>1, <1>3, <1>7, <1>8, <2>1
<1> DEFINE c == m + (IF k THEN 1 ELSE 0)
<1>10. c \in 0..Len(r)
  <2> HIDE DEF m, k, r, s
  <2> QED
    BY <1>1, <1>8
<1>11. Occasion!Sound([recs |-> r,
                       hdr |-> Occasion!Counted(Occasion!WithSize(d.hdr, size), e, 1)])
  <2>1. Len(r) = Len(d.recs) + 1 /\ c = d.hdr.num_recur + (IF Occasion!Recurring(e) THEN 1 ELSE 0)
    BY <1>8
  <2>2. \A j \in 1..Len(r) : Occasion!Recurring(r[j]) <=> j <= c
    BY <1>6
  <2> HIDE DEF r, e, c, size
  <2> QED
    BY <1>2, <1>5, <1>6, <1>9, <1>10, <2>1, <2>2, OccasionCounted
<1> QED
  BY <1>4, <1>11

LEMMA OccasionDel ==
  ASSUME NEW d, Occasion!Sound(d), NEW i \in Int
  PROVE  Occasion!Sound(Occasion!del_occasion(d, i))
<1> DEFINE s == d.recs
           p == i + 1
           e == s[p]
           r == RemoveAt(s, p)
           k == Occasion!Recurring(e)
           m == d.hdr.num_recur
           size == d.hdr.db_size - 2 - Occasion!Size(e)
           c == m + (IF k THEN -1 ELSE 0)
<1>1. /\ Len(s) \in Nat /\ m \in 0..Len(s) /\ s \in Seq(Occasion!Stored)
      /\ \A j \in 1..Len(s) : s[j] \in Occasion!Stored
      /\ \A j \in 1..Len(s) : Occasion!Recurring(s[j]) <=> j <= m
      /\ d.hdr.db_size = 15 + 2 * Len(s) + Sum(Lens(OccasionSize, s))
      /\ OrderedBy(OccasionOrder, s)
  BY OccasionSoundType
<1>2. CASE i < 0 \/ i >= Len(s)
  BY <1>2 DEF Occasion!del_occasion
<1>3. CASE ~(i < 0 \/ i >= Len(s))
  <2>1. p \in 1..Len(s)
    BY <1>1, <1>3
  <2>2. e \in Occasion!Stored /\ (k <=> p <= m)
    BY <1>1, <2>1
  <2>3. OccasionSize[e] = Occasion!Size(e) /\ Occasion!Size(e) \in Nat
    BY <2>2, OccasionStored
  <2>4. Occasion!del_occasion(d, i)
          = [recs |-> r,
             hdr |-> Occasion!Counted(Occasion!WithSize(d.hdr, size), e, -1)]
    BY <1>3, OccasionSame DEF Occasion!del_occasion
  <2>5. e = s[p]
    OBVIOUS
  <2> HIDE DEF s, p
  <2>6. r \in Seq(Occasion!Stored) /\ Inserted(r, p, e, s)
    BY <1>1, <2>1, RemoveAtTakes
  <2> HIDE DEF e, r, k, m
  <2>7. Len(s) = Len(r) + 1 /\ Len(r) \in Nat /\ p \in 1..(Len(r) + 1) /\ Len(r) = Len(s) + (-1)
    <3>1. Len(s) = Len(r) + 1 /\ Len(r) \in Nat
      BY <2>6 DEF Inserted
    <3> QED
      BY <2>1, <3>1
  <2>8. OrderedBy(OccasionOrder, r)
    BY <1>1, <2>2, <2>6, <2>7, OccasionsOrdered, TakenInOrder
  <2>9. Sum(Lens(OccasionSize, s)) = Sum(Lens(OccasionSize, r)) + OccasionSize[e]
    BY <1>1, <2>2, <2>6, <2>7, OccasionTakes, LensPut
  <2>10. size = 15 + 2 * Len(r) + Sum(Lens(OccasionSize, r))
    <3>1. Sum(Lens(OccasionSize, r)) \in Nat
      BY <2>6, OccasionTakes, LensType
    <3> QED
      BY <1>1, <2>3, <2>7, <2>9, <3>1
  <2>11. c \in 0..Len(r)
    <3>1. CASE k
      BY <1>1, <2>1, <2>2, <2>7, <3>1
    <3>2. CASE ~k
      BY <1>1, <2>1, <2>2, <2>7, <3>2
    <3> QED
      BY <3>1, <3>2
  <2>12. ASSUME NEW j \in 1..Len(r) PROVE Occasion!Recurring(r[j]) <=> j <= c
    <3>1. /\ \A x \in 1..(p - 1) : s[x] = r[x]
          /\ \A x \in p..Len(r) : s[x + 1] = r[x]
      BY <2>6 DEF Inserted
    <3>2. CASE j < p
      <4>1. j \in 1..(p - 1) /\ j \in 1..Len(s)
        BY <2>1, <2>7, <3>2
      <4>2. Occasion!Recurring(r[j]) <=> j <= m
        BY <1>1, <3>1, <4>1
      <4>3. j <= m <=> j <= c
        <5>1. CASE k
          BY <1>1, <2>1, <2>2, <4>1, <5>1
        <5>2. CASE ~k
          BY <1>1, <4>1, <5>2
        <5> QED
          BY <5>1, <5>2
      <4> QED
        BY <4>2, <4>3
    <3>3. CASE j >= p
      <4>1. j \in p..Len(r) /\ j + 1 \in 1..Len(s)
        BY <2>1, <2>7, <3>3
      <4>2. Occasion!Recurring(r[j]) <=> j + 1 <= m
        BY <1>1, <3>1, <4>1
      <4>3. j + 1 <= m <=> j <= c
        <5>1. CASE k
          BY <1>1, <4>1, <5>1
        <5>2. CASE ~k
          BY <1>1, <2>1, <2>2, <3>3, <4>1, <5>2
        <5> QED
          BY <5>1, <5>2
      <4> QED
        BY <4>2, <4>3
    <3> QED
      BY <2>1, <2>7, <3>2, <3>3
  <2>13. Occasion!Sound([recs |-> r,
                         hdr |-> Occasion!Counted(Occasion!WithSize(d.hdr, size), e, -1)])
    <3>1. /\ Len(r) = Len(d.recs) + (-1)
          /\ c = d.hdr.num_recur + (IF Occasion!Recurring(e) THEN -1 ELSE 0)
      BY <2>7 DEF k, m, s
    <3> HIDE DEF c, size
    <3> QED
      BY <2>2, <2>6, <2>8, <2>10, <2>11, <2>12, <3>1, OccasionCounted
  <2> QED
    BY <2>4, <2>13
<1> QED
  BY <1>2, <1>3

LEMMA OccasionFind ==
  ASSUME NEW d, Occasion!Sound(d), NEW o
  PROVE  Occasion!find_occasion(d, o) \in Int
<1> DEFINE I == {j \in 1..Len(d.recs) :
                    /\ d.recs[j].type = o.type
                    /\ d.recs[j].date = o.date
                    /\ d.recs[j].msg = o.msg}
<1>1. I \in SUBSET Nat /\ \A j \in I : j \in Int
  OBVIOUS
<1>2. Occasion!find_occasion(d, o) = (IF I # {} THEN Min(I) ELSE 0) - 1
  BY OccasionSame DEF Occasion!find_occasion, Occasion!SelectInSeq
<1> HIDE DEF I
<1>3. I # {} => Min(I) \in I
  BY <1>1, FirstPlace
<1>4. CASE I = {}
  BY <1>2, <1>4
<1>5. CASE I # {}
  <2>1. Min(I) \in Int
    BY <1>1, <1>3, <1>5
  <2> QED
    BY <1>2, <1>5, <2>1
<1> QED
  BY <1>4, <1>5

LEMMA OccasionFiles ==
  ASSUME NEW d, Occasion!Sound(d), NEW o \in Occasion!Lines
  PROVE  /\ Occasion!Sound(Occasion!add_occasion_file(d, o))
         /\ Occasion!Sound(Occasion!del_occasion_file(d, o))
<1>1. Occasion!Sound(Occasion!add_occasion_file(d, o))
  BY OccasionAdd DEF Occasion!add_occasion_file
<1>2. Occasion!Sound(Occasion!del_occasion_file(d, o))
  BY OccasionFind, OccasionDel DEF Occasion!del_occasion_file
<1> QED
  BY <1>1, <1>2

LEMMA OccasionNew == Occasion!Sound(Occasion!init_occasion)
<1> DEFINE h == [num_recs |-> 0, num_nonrecur |-> 0, num_recur |-> 0,
                 last_nonrecur |-> Occasion!U16(-1), last_recur |-> Occasion!U16(-1),
                 db_size |-> 15, alloc_size |-> alloc(15)]
           s == << >>
           d == [recs |-> s, hdr |-> h]
<1>1. Occasion!init_occasion = d
  BY OccasionSame DEF Occasion!init_occasion, Occasion!HDR
<1>2. alloc(15) \in Nat
  BY AllocHolds
<1>3. Occasion!U16(-1) \in Nat /\ 0 - 1 = -1
  BY -1 \in Int, OccasionLast
<1>4. h \in Occasion!Hdrs
  BY <1>2, <1>3 DEF Occasion!Hdrs
<1>5. h.num_recs = 0 /\ h.num_recur = 0 /\ h.num_nonrecur = 0 /\ h.db_size = 15
      /\ h.last_recur = Occasion!U16(0 - 1) /\ h.last_nonrecur = Occasion!U16(0 - 1)
      /\ h.alloc_size = alloc(15)
  BY <1>3
<1> HIDE DEF h
<1>6. s \in Seq(Occasion!Stored) /\ Len(s) = 0 /\ DOMAIN s = {}
  OBVIOUS
<1>7. Sum(Lens(OccasionSize, s)) = 0
  BY LensEmpty
<1> HIDE DEF s
<1>8. d \in [recs : Seq(Occasion!Stored), hdr : Occasion!Hdrs] /\ d.recs = s /\ d.hdr = h
  BY <1>4, <1>6
<1> HIDE DEF d
<1>9. Occasion!Extent(h, Occasion!HDR, s, Occasion!Size) = 15
  <2>1. h.num_recs = Len(s) /\ s \in Seq(Occasion!Stored)
    BY <1>5, <1>6
  <2>2. Occasion!Extent(h, Occasion!HDR, s, Occasion!Size)
          = 15 + 2 * Len(s) + Sum(Lens(OccasionSize, s))
    BY <2>1, OccasionExtent
  <2> QED
    BY <1>6, <1>7, <2>2
<1>10. Occasion!Sound(d)
  <2>1. /\ h.num_recs = Len(s) /\ h.num_recur + h.num_nonrecur = Len(s)
        /\ h.last_recur = Occasion!U16(h.num_recur - 1)
        /\ h.last_nonrecur = Occasion!U16(h.num_recs - 1)
    BY <1>5, <1>6
  <2>2. /\ \A j \in DOMAIN s : Occasion!Recurring(s[j]) <=> j <= h.num_recur
        /\ \A j \in 1..(Len(s) - 1) : Occasion!Follow(s[j], s[j + 1])
    BY <1>6
  <2>3. h.alloc_size = Occasion!alloc(h.db_size)
    BY <1>5, OccasionSame
  <2> QED
    BY <1>5, <1>8, <1>9, <2>1, <2>2, <2>3 DEF Occasion!Sound
<1> QED
  BY <1>1, <1>10
\* while(!del_occasion(&db, 0))
LEMMA OccasionEmptied ==
  ASSUME NEW d, Occasion!Sound(d), NEW N \in Nat
  PROVE  Occasion!Sound(Occasion!FirstsDeleted(Occasion!del_occasion, d, N))
<1> DEFINE D == {e \in [recs : Seq(Occasion!Stored), hdr : Occasion!Hdrs] : Occasion!Sound(e)}
           g == [k \in 1..N |-> [e \in D |-> Occasion!del_occasion(e, 0)]]
           Body(h) == [n \in 0..N |-> IF n = 0 THEN d ELSE Occasion!del_occasion(h[n - 1], 0)]
           after == CHOOSE h : h = Body(h)
<1>1. \A e : e \in D <=> Occasion!Sound(e)
  BY DEF Occasion!Sound
<1> HIDE DEF D
<1>2. \A e \in D : Occasion!del_occasion(e, 0) \in D
  BY <1>1, OccasionDel
<1>3. g \in [1..N -> [D -> D]]
  BY <1>2
<1>4. PICK f : Recurs(f, D, N, d, g)
  <2> HIDE DEF g
  <2> QED
    BY <1>1, <1>3, Recursion
<1>5. f = Body(f)
  <2>1. ASSUME NEW n \in 0..N, n # 0
        PROVE  g[n][f[n - 1]] = Occasion!del_occasion(f[n - 1], 0)
    <3>1. n \in 1..N /\ n - 1 \in 0..N
      BY <2>1
    <3>2. f[n - 1] \in D
      BY <1>4, <3>1 DEF Recurs
    <3> QED
      BY <3>1, <3>2
  <2> HIDE DEF g
  <2> QED
    BY <1>4, <2>1 DEF Recurs
<1>6. after = Body(after)
  BY <1>5
<1>7. Occasion!FirstsDeleted(Occasion!del_occasion, d, N) = after[N]
  BY DEF Occasion!FirstsDeleted
<1>8. \A n \in 0..N : after[n] = IF n = 0 THEN d ELSE Occasion!del_occasion(after[n - 1], 0)
  <2> HIDE DEF after
  <2> QED
    BY <1>6
<1> HIDE DEF after
<1>9. after[0] \in D
  BY <1>1, <1>8
<1>10. ASSUME NEW n \in 1..N, after[n - 1] \in D PROVE after[n] \in D
  <2>1. after[n] = Occasion!del_occasion(after[n - 1], 0)
    BY <1>8
  <2> QED
    BY <1>2, <1>10, <2>1
<1>11. \A n \in 0..N : after[n] \in D
  BY <1>9, <1>10, HandedOn
<1> QED
  BY <1>1, <1>7, <1>11

\* The database that lines make, one after another.
LEMMA OccasionMade ==
  ASSUME NEW d, Occasion!Sound(d), NEW lines \in Seq(Occasion!Lines)
  PROVE  Occasion!Sound(Occasion!Made(Occasion!add_occasion, d, lines))
<1> DEFINE N == Len(lines)
           D == {e \in [recs : Seq(Occasion!Stored), hdr : Occasion!Hdrs] : Occasion!Sound(e)}
           g == [k \in 1..N |-> [e \in D |-> Occasion!add_occasion(e, lines[k])]]
           Body(h) == [n \in 0..N |-> IF n = 0 THEN d
                                      ELSE Occasion!add_occasion(h[n - 1], lines[n])]
           upTo == CHOOSE h : h = Body(h)
<1>1. \A e : e \in D <=> Occasion!Sound(e)
  BY DEF Occasion!Sound
<1>12. N \in Nat /\ \A k \in 1..N : lines[k] \in Occasion!Lines
  OBVIOUS
<1> HIDE DEF D
<1>7. Occasion!Made(Occasion!add_occasion, d, lines) = upTo[N]
  BY DEF Occasion!Made
<1> HIDE DEF N
<1>2. \A k \in 1..N : \A e \in D : Occasion!add_occasion(e, lines[k]) \in D
  BY <1>1, <1>12, OccasionAdd
<1>3. g \in [1..N -> [D -> D]]
  BY <1>2
<1>4. PICK f : Recurs(f, D, N, d, g)
  <2> HIDE DEF g
  <2> QED
    BY <1>1, <1>3, <1>12, Recursion
<1>5. f = Body(f)
  <2>1. ASSUME NEW n \in 0..N, n # 0
        PROVE  g[n][f[n - 1]] = Occasion!add_occasion(f[n - 1], lines[n])
    <3>1. n \in 1..N /\ n - 1 \in 0..N
      BY <1>12, <2>1
    <3>2. f[n - 1] \in D
      BY <1>4, <3>1 DEF Recurs
    <3> QED
      BY <3>1, <3>2
  <2> HIDE DEF g
  <2> QED
    BY <1>4, <2>1 DEF Recurs
<1>6. upTo = Body(upTo)
  BY <1>5
<1>8. \A n \in 0..N : upTo[n] = IF n = 0 THEN d ELSE Occasion!add_occasion(upTo[n - 1], lines[n])
  <2> HIDE DEF upTo
  <2> QED
    BY <1>6
<1> HIDE DEF upTo
<1>9. upTo[0] \in D
  BY <1>1, <1>8, <1>12
<1>10. ASSUME NEW n \in 1..N, upTo[n - 1] \in D PROVE upTo[n] \in D
  <2>1. upTo[n] = Occasion!add_occasion(upTo[n - 1], lines[n])
    BY <1>8, <1>12
  <2> QED
    BY <1>2, <1>10, <2>1
<1>11. \A n \in 0..N : upTo[n] \in D
  BY <1>9, <1>10, <1>12, HandedOn
<1> QED
  BY <1>1, <1>7, <1>11, <1>12

LEMMA OccasionSpread ==
  ASSUME NEW d, Occasion!Sound(d)
  PROVE  Occasion!create_occasion(d) = Spread(d.hdr, 15, d.recs, OccasionSize)
<1>1. d.recs \in Seq(Occasion!Stored)
  BY OccasionSoundType
<1>2. \A j \in DOMAIN d.recs : d.recs[j] \in Occasion!Stored
  BY <1>1
<1>3. [j \in DOMAIN d.recs |-> Occasion!Size(d.recs[j])] = Lens(OccasionSize, d.recs)
  BY <1>2, OccasionStored DEF Lens
<1>4. \A start, lens : Occasion!Offsets(start, lens) = Offsets(start, lens)
  BY OccasionSame DEF Occasion!Offsets, Offsets
<1> DEFINE lens == [j \in DOMAIN d.recs |-> Occasion!Size(d.recs[j])]
           off == Occasion!Offsets(15 + 2 * d.hdr.num_recs, lens)
<1>5. Occasion!create_occasion(d)
        = [hdr |-> d.hdr, off |-> off,
           at |-> [o \in Occasion!Range(off) |->
                      d.recs[CHOOSE j \in DOMAIN d.recs : off[j] = o]]]
  BY DEF Occasion!create_occasion, Occasion!Table, Occasion!HDR
<1>6. off = Offsets(15 + 2 * d.hdr.num_recs, Lens(OccasionSize, d.recs))
  BY <1>3, <1>4
<1> HIDE DEF off
<1>7. Occasion!Range(off) = Range(off)
  BY OccasionSame
<1> QED
  BY <1>5, <1>6, <1>7 DEF Spread

LEMMA OccasionReads ==
  ASSUME NEW d, Occasion!Sound(d)
  PROVE  Occasion!read_occasion(Occasion!create_occasion(d)) = d
<1> DEFINE im == Spread(d.hdr, 15, d.recs, OccasionSize)
<1>1. /\ d = [recs |-> d.recs, hdr |-> d.hdr] /\ d.hdr.num_recs = Len(d.recs)
      /\ d.recs \in Seq(Occasion!Stored)
  BY OccasionSoundType
<1>2. Occasion!create_occasion(d) = im
  BY OccasionSpread
<1>3. Listed(im) = d.recs
  BY <1>1, OccasionTakes, SpreadReadBack
<1>4. im.hdr = d.hdr
  BY DEF Spread
<1> HIDE DEF im
<1>5. Occasion!read_occasion(im) = [hdr |-> d.hdr, recs |-> d.recs]
  BY <1>3, <1>4, OccasionSame DEF Occasion!read_occasion
<1> QED
  BY <1>1, <1>2, <1>5

\* SoundInv of the next state, from what is stored and held there.
LEMMA OccasionNextState ==
  ASSUME Occasion!Sound(Occasion!read_occasion(image')),
         image' = Occasion!create_occasion(Occasion!read_occasion(image')),
         prog' \in {"add", "del", "new"} => Occasion!Sound(db')
  PROVE  Occasion!SoundInv'
  BY DEF Occasion!SoundInv, Occasion!Holding

\* What the watch has at the start.
LEMMA OccasionStart ==
  ASSUME Occasion!Init
  PROVE  Occasion!SoundInv
<1>1. PICK k \in 0..2 : \E lines \in [1..k -> Occasions] :
         image = Occasion!create_occasion(
                    Occasion!Made(Occasion!add_occasion, Occasion!init_occasion, lines))
  BY DEF Occasion!Init, Occasion!Ascending
<1>2. PICK lines \in [1..k -> Occasions] :
         image = Occasion!create_occasion(
                    Occasion!Made(Occasion!add_occasion, Occasion!init_occasion, lines))
  BY <1>1
<1>3. lines \in Seq(Occasion!Lines)
  <2>1. k \in Nat /\ lines \in [1..k -> Occasion!Lines]
    BY OccasionsAssumption
  <2> QED
    BY <2>1, SeqDef
<1> DEFINE d == Occasion!Made(Occasion!add_occasion, Occasion!init_occasion, lines)
<1>4. Occasion!Sound(d)
  BY <1>3, OccasionNew, OccasionMade
<1>5. image = Occasion!create_occasion(d)
  BY <1>2
<1> HIDE DEF d
<1>6. Occasion!read_occasion(image) = d
  BY <1>4, <1>5, OccasionReads
<1>7. ~Occasion!Holding
  BY DEF Occasion!Init, Occasion!Started, Occasion!Holding
<1> QED
  BY <1>4, <1>5, <1>6, <1>7 DEF Occasion!SoundInv

\* A step of a program on d.
LEMMA OccasionEdits ==
  ASSUME Occasion!SoundInv, UNCHANGED image,
         prog' \in {"add", "del", "new"} => Occasion!Sound(db')
  PROVE  Occasion!SoundInv'
<1>1. /\ Occasion!Sound(Occasion!read_occasion(image))
      /\ image = Occasion!create_occasion(Occasion!read_occasion(image))
  BY DEF Occasion!SoundInv
<1>2. image' = image
  OBVIOUS
<1> QED
  BY <1>1, <1>2, OccasionNextState

LEMMA OccasionHolds ==
  ASSUME Occasion!SoundInv, prog \in {"add", "del", "new"}
  PROVE  Occasion!Sound(db)
  BY DEF Occasion!SoundInv, Occasion!Holding

LEMMA OccasionNext ==
  ASSUME Occasion!SoundInv, Occasion!Next
  PROVE  Occasion!SoundInv'
<1>1. CASE Occasion!Open
  <2>1. db' = Occasion!read_occasion(image) /\ UNCHANGED image
    BY <1>1 DEF Occasion!Open, Occasion!Opens
  <2>2. Occasion!Sound(db')
    BY <2>1 DEF Occasion!SoundInv
  <2> QED
    BY <2>1, <2>2, OccasionEdits
<1>2. CASE Occasion!Create
  <2>1. db' = Occasion!init_occasion /\ UNCHANGED image
    BY <1>2 DEF Occasion!Create, Occasion!Creates
  <2> QED
    BY <2>1, OccasionNew, OccasionEdits
<1>3. CASE Occasion!AddLine
  <2>1. PICK o \in Occasions :
           /\ db' = Occasion!add_occasion_file(db, o) /\ UNCHANGED image
           /\ prog \in {"add", "del", "new"}
    BY <1>3 DEF Occasion!AddLine, Occasion!Edits, Occasion!Adders
  <2>2. Occasion!Sound(db')
    BY <2>1, OccasionsAssumption, OccasionHolds, OccasionFiles
  <2> QED
    BY <2>1, <2>2, OccasionEdits
<1>4. CASE Occasion!DelLine
  <2>1. PICK o \in Occasions :
           /\ db' = Occasion!del_occasion_file(db, o) /\ UNCHANGED image
           /\ prog \in {"add", "del", "new"}
    BY <1>4 DEF Occasion!DelLine, Occasion!Edits
  <2>2. Occasion!Sound(db')
    BY <2>1, OccasionsAssumption, OccasionHolds, OccasionFiles
  <2> QED
    BY <2>1, <2>2, OccasionEdits
<1>5. CASE Occasion!DeleteAll
  <2>1. /\ db' = Occasion!FirstsDeleted(Occasion!del_occasion, db, Len(db.recs))
        /\ UNCHANGED image /\ prog \in {"add", "del", "new"}
    BY <1>5 DEF Occasion!DeleteAll, Occasion!Edits
  <2>2. Occasion!Sound(db)
    BY <2>1, OccasionHolds
  <2>3. Len(db.recs) \in Nat
    BY <2>2, OccasionSoundType
  <2>4. Occasion!Sound(db')
    BY <2>1, <2>2, <2>3, OccasionEmptied
  <2> QED
    BY <2>1, <2>4, OccasionEdits
<1>6. CASE Occasion!Save
  <2>1. /\ image' = Occasion!create_occasion(db) /\ prog' = "closed"
        /\ prog \in {"add", "del", "new"}
    BY <1>6 DEF Occasion!Save, Occasion!Saves, Occasion!Holding
  <2>2. Occasion!Sound(db)
    BY <2>1, OccasionHolds
  <2>3. Occasion!read_occasion(image') = db
    BY <2>1, <2>2, OccasionReads
  <2> QED
    BY <2>1, <2>2, <2>3, OccasionNextState
<1>7. CASE Occasion!Leave
  <2>1. UNCHANGED image /\ prog' = "closed"
    BY <1>7 DEF Occasion!Leave, Occasion!Quit, Occasion!Stops
  <2> QED
    BY <2>1, OccasionEdits
<1> QED
  BY <1>1, <1>2, <1>3, <1>4, <1>5, <1>6, <1>7 DEF Occasion!Next

\* The watch keeps the occasions apart, in the size of the header, in order, and
\* the header counts the parts.
LEMMA OccasionFits ==
  ASSUME Occasion!SoundInv
  PROVE  Occasion!Fits /\ Occasion!InOrder /\ Occasion!HeaderAgrees
<1> DEFINE d == Occasion!read_occasion(image)
           s == d.recs
           m == d.hdr.num_recur
           pieces == {<<o, Occasion!Size(image.at[o])>> : o \in DOMAIN image.at}
<1>1. Occasion!Sound(d) /\ image = Occasion!create_occasion(d)
  BY DEF Occasion!SoundInv
<1> HIDE DEF d
<1>2. /\ DOMAIN s = 1..Len(s) /\ Len(s) \in Nat /\ s \in Seq(Occasion!Stored)
      /\ \A j \in 1..Len(s) : s[j] \in Occasion!Stored
      /\ \A j \in 1..Len(s) : Occasion!Recurring(s[j]) <=> j <= m
      /\ m \in 0..Len(s) /\ d.hdr.num_recs = Len(s)
      /\ d.hdr.db_size = 15 + 2 * Len(s) + Sum(Lens(OccasionSize, s))
      /\ d.hdr.num_nonrecur = Len(s) - m
  BY <1>1, OccasionSoundType
<1>3. image = Spread(d.hdr, 15, s, OccasionSize)
  BY <1>1, OccasionSpread
<1> HIDE DEF s, m
<1>4. /\ image.hdr = d.hdr /\ DOMAIN image.off = 1..Len(s)
      /\ DOMAIN image.at = Range(image.off)
      /\ \A k \in 1..Len(s) : image.at[image.off[k]] = s[k]
  <2>1. Holds(Spread(d.hdr, 15, s, OccasionSize), d.hdr, s)
    BY <1>2, OccasionTakes, SpreadHolds
  <2> QED
    BY <1>3, <2>1 DEF Holds
<1>5. pieces = Contents(image, OccasionSize)
  <2>1. ASSUME NEW o \in DOMAIN image.at
        PROVE  Occasion!Size(image.at[o]) = OccasionSize[image.at[o]]
    <3>1. PICK k \in 1..Len(s) : o = image.off[k]
      BY <1>4 DEF Range
    <3>2. image.at[o] \in Occasion!Stored
      BY <1>2, <1>4, <3>1
    <3> QED
      BY <3>2, OccasionStored
  <2> QED
    BY <2>1 DEF Contents
<1>6. d.hdr.db_size \in Nat \ {0}
  <2>1. Sum(Lens(OccasionSize, s)) \in Nat
    BY <1>2, OccasionTakes, LensType
  <2> QED
    BY <1>2, <2>1
<1>7. Packed({<<15, 2 * Len(s)>>} \cup Contents(Spread(d.hdr, 15, s, OccasionSize), OccasionSize),
             15, d.hdr.db_size)
  <2>1. 15 + 2 * Len(s) + Sum(Lens(OccasionSize, s)) <= d.hdr.db_size
    BY <1>2, <1>6
  <2> QED
    BY <1>2, <1>6, <2>1, OccasionTakes, SpreadPacked
<1>8. Occasion!TableFits(image, Occasion!HDR, Occasion!Size, image.hdr.db_size)
  BY <1>2, <1>3, <1>4, <1>5, <1>7, OccasionSame DEF Occasion!TableFits, Occasion!HDR
<1>9. image.hdr.db_size <= image.hdr.alloc_size
  BY <1>1, <1>4, <1>6, AllocHolds, OccasionSame DEF Occasion!Sound
<1>10. Occasion!InOrder
  BY <1>1 DEF Occasion!InOrder, Occasion!Sound, d
<1>11. m = Occasion!Cardinality({j \in DOMAIN s : Occasion!Recurring(s[j])})
  <2>1. {j \in DOMAIN s : Occasion!Recurring(s[j])} = 1..m
    BY <1>2
  <2>2. m = Cardinality(1..m)
    BY <1>2, FS_Interval
  <2>3. \A S : Occasion!Cardinality(S) = Cardinality(S)
    BY DEF Occasion!Cardinality, Cardinality
  <2> QED
    BY <2>1, <2>2, <2>3
<1>12. Occasion!HeaderAgrees
  BY <1>1, <1>2, <1>4, <1>11 DEF Occasion!HeaderAgrees, Occasion!Sound, d, s, m
<1> QED
  BY <1>8, <1>9, <1>10, <1>12 DEF Occasion!Fits

-----------------------------------------------------------------------------
(* Contacts *)

LEMMA ContactSame ==
  /\ \A x : Contact!alloc(x) = alloc(x)
  /\ \A m : Contact!Space(m) = Space(m)
  /\ \A s : Contact!Sum(s) = Sum(s)
  /\ \A s, i, e : Contact!InsertAt(s, i, e) = InsertAt(s, i, e)
  /\ \A s, i : Contact!RemoveAt(s, i) = RemoveAt(s, i)
  /\ \A I : Contact!Min(I) = Min(I)
  /\ \A f : Contact!Range(f) = Range(f)
  /\ \A im : Contact!Listed(im) = Listed(im)
  /\ \A p, lo, hi : Contact!Packed(p, lo, hi) = Packed(p, lo, hi)
<1>1. /\ \A x : Contact!alloc(x) = alloc(x)
      /\ \A m : Contact!Space(m) = Space(m)
      /\ \A s : Contact!Sum(s) = Sum(s)
  BY DEF Contact!alloc, alloc, Contact!Space, Space, Contact!Sum, Sum
<1>2. /\ \A s, i, e : Contact!InsertAt(s, i, e) = InsertAt(s, i, e)
      /\ \A s, i : Contact!RemoveAt(s, i) = RemoveAt(s, i)
      /\ \A I : Contact!Min(I) = Min(I)
      /\ \A f : Contact!Range(f) = Range(f)
  BY DEF Contact!InsertAt, InsertAt, Contact!RemoveAt, RemoveAt, Contact!Min, Min,
         Contact!Range, Range
<1>3. /\ \A im : Contact!Listed(im) = Listed(im)
      /\ \A p, lo, hi : Contact!Packed(p, lo, hi) = Packed(p, lo, hi)
  BY DEF Contact!Listed, Listed, Contact!Packed, Packed
<1> QED
  BY <1>1, <1>2, <1>3

LEMMA SpaceOf ==
  ASSUME NEW m \in Msgs
  PROVE  MsgLen[m] \in Nat /\ Space(m) = MsgLen[m] + 1 /\ Space(m) # MsgLen[m] /\ m \in Nat
<1>1. MsgLen[m] \in 0..MAX_MSG_LEN /\ m \in Nat
  BY MsgsAssumption
<1>2. MsgLen[m] \in Nat
  BY <1>1, SizesAssumption
<1> QED
  BY <1>1, <1>2 DEF Space

\* the length of each record
ContactSize == [r \in Contact!Stored |-> Contact!Size(r)]

LEMMA ContactStored ==
  ASSUME NEW r \in Contact!Stored
  PROVE  /\ r.msg \in Msgs \cup {Contact!NoText} /\ r.len \in Nat /\ r.who \in Nat
         /\ r.share \in Nat
         /\ Contact!Size(r) = 11 + (IF r.share = 0 THEN r.len ELSE 0)
         /\ Contact!Size(r) \in Nat \ {0}
         /\ ContactSize[r] = Contact!Size(r)
<1>1. /\ r.msg \in Msgs \cup {Contact!NoText} /\ r.len \in Nat /\ r.who \in Nat
      /\ r.share \in Nat
  BY DEF Contact!Stored
<1>2. Contact!Size(r) = 11 + (IF r.share = 0 THEN r.len ELSE 0)
  BY DEF Contact!Size
<1>3. Contact!Size(r) \in Nat \ {0}
  BY <1>1, <1>2
<1>4. ContactSize[r] = Contact!Size(r)
  BY DEF ContactSize
<1> QED
  BY <1>1, <1>2, <1>3, <1>4

LEMMA ContactTakes ==
  Takes(ContactSize, Contact!Stored) /\ Measures(ContactSize, Contact!Stored)
  BY ContactStored DEF Takes, Measures, ContactSize

LEMMA ContactRec ==
  ASSUME NEW c \in Contact!Lines
  PROVE  /\ Contact!Rec(c, 0) = [msg |-> c.msg, len |-> Space(c.msg), who |-> c.who, share |-> 0]
         /\ Contact!Rec(c, 0) \in Contact!Stored
         /\ c.msg \in Msgs /\ c.who \in Nat
<1>1. c.msg \in Msgs /\ c.who \in Nat
  BY DEF Contact!Lines
<1>2. Space(c.msg) \in Nat
  BY <1>1, SpaceOf
<1>3. Contact!Rec(c, 0) = [msg |-> c.msg, len |-> Space(c.msg), who |-> c.who, share |-> 0]
  BY ContactSame DEF Contact!Rec
<1> QED
  BY <1>1, <1>2, <1>3 DEF Contact!Stored

LEMMA NoTextIsNone == Contact!NoText \notin Msgs
  BY MsgsAssumption DEF Contact!NoText

-----------------------------------------------------------------------------
(* Offsets to texts, from neighbour to neighbour *)

\* A contact that shares is one further from the text than the one before it.
Steps(recs) ==
    \A j \in 1..Len(recs) :
        /\ recs[j].share = 0 \/ (j > 1 /\ recs[j].share = recs[j - 1].share + 1)
        /\ (recs[j].share = 0) <=> (recs[j].msg # Contact!NoText)

LEMMA LeadsSteps ==
  ASSUME NEW recs \in Seq(Contact!Stored), Contact!OffsetsLead(recs)
  PROVE  Steps(recs)
<1>1. /\ DOMAIN recs = 1..Len(recs) /\ Len(recs) \in Nat
      /\ \A j \in 1..Len(recs) : recs[j].share \in Nat
  BY ContactStored
<1>2. ASSUME NEW j \in 1..Len(recs)
      PROVE  /\ recs[j].share < j
             /\ recs[j - recs[j].share].share = 0
             /\ \A k \in (j - recs[j].share + 1)..j : recs[k].share > 0
             /\ (recs[j].share = 0) <=> (recs[j].msg # Contact!NoText)
  BY <1>1 DEF Contact!OffsetsLead
<1>3. ASSUME NEW j \in 1..Len(recs), recs[j].share # 0
      PROVE  j > 1 /\ recs[j].share = recs[j - 1].share + 1
  <2>1. recs[j].share \in Nat /\ recs[j].share < j /\ recs[j].share > 0 /\ j > 1
    BY <1>1, <1>2, <1>3
  <2>2. j - 1 \in 1..Len(recs)
    BY <1>1, <2>1
  <2> DEFINE a == recs[j].share
             b == recs[j - 1].share
             o == j - a
             p == (j - 1) - b
  <2>3. /\ recs[o].share = 0 /\ \A k \in (o + 1)..j : recs[k].share > 0
        /\ recs[p].share = 0 /\ \A k \in (p + 1)..(j - 1) : recs[k].share > 0
        /\ b \in Nat /\ b < j - 1
    BY <1>1, <1>2, <2>2
  <2>4. a \in Nat /\ o \in Int /\ p \in Int /\ o = j - a /\ p = (j - 1) - b /\ o <= j - 1
        /\ p <= j - 1 /\ j \in Int
    BY <2>1, <2>3
  <2> HIDE DEF a, b, o, p
  <2>5. ~(o < p)
    BY <2>3, <2>4
  <2>6. ~(p < o)
    BY <2>3, <2>4
  <2>7. a = b + 1
    BY <2>3, <2>4, <2>5, <2>6
  <2> QED
    BY <2>1, <2>7 DEF a, b
<1> QED
  BY <1>2, <1>3 DEF Steps

LEMMA StepsLead ==
  ASSUME NEW recs \in Seq(Contact!Stored), Steps(recs)
  PROVE  Contact!OffsetsLead(recs)
<1> DEFINE n == Len(recs)
           Leads(j) == /\ recs[j].share < j
                       /\ recs[j - recs[j].share].share = 0
                       /\ \A k \in (j - recs[j].share + 1)..j : recs[k].share > 0
           T == {j \in 0..n : j > 0 => Leads(j)}
<1>1. /\ DOMAIN recs = 1..n /\ n \in Nat
      /\ \A j \in 1..n : recs[j].share \in Nat
  BY ContactStored
<1>2. ASSUME NEW j \in 1..n
      PROVE  /\ recs[j].share = 0 \/ (j > 1 /\ recs[j].share = recs[j - 1].share + 1)
             /\ (recs[j].share = 0) <=> (recs[j].msg # Contact!NoText)
  BY DEF Steps
<1> HIDE DEF n
<1>3. 0 \in T
  BY <1>1
<1>4. ASSUME NEW j \in 1..n, j - 1 \in T
      PROVE  j \in T
  <2>1. CASE recs[j].share = 0
    <3>1. recs[j].share < j /\ j - recs[j].share = j /\ (j - recs[j].share + 1)..j = {}
      BY <2>1
    <3> QED
      BY <2>1, <3>1
  <2>2. CASE recs[j].share # 0
    <3> DEFINE a == recs[j].share
               b == recs[j - 1].share
    <3>1. j > 1 /\ a = b + 1 /\ j - 1 \in 1..n /\ b \in Nat /\ a \in Nat
      BY <1>1, <1>2, <2>2
    <3>2. /\ b < j - 1 /\ recs[(j - 1) - b].share = 0
          /\ \A k \in ((j - 1) - b + 1)..(j - 1) : recs[k].share > 0
      BY <1>4, <3>1
    <3>3. a < j /\ j - a = (j - 1) - b
      <4>1. j \in Int /\ b < j - 1
        BY <1>1, <3>2
      <4> HIDE DEF a, b
      <4> QED
        BY <3>1, <4>1
    <3>4. \A k \in (j - a + 1)..j : recs[k].share > 0
      <4> SUFFICES ASSUME NEW k \in (j - a + 1)..j PROVE recs[k].share > 0
        OBVIOUS
      <4>1. CASE k = j
        BY <2>2, <3>1, <4>1
      <4>2. CASE k # j
        <5>1. k \in ((j - 1) - b + 1)..(j - 1)
          <6> HIDE DEF a, b
          <6> QED
            BY <3>1, <3>3, <4>2
        <5> QED
          BY <3>2, <5>1
      <4> QED
        BY <4>1, <4>2
    <3>5. recs[j - a].share = 0
      BY <3>2, <3>3
    <3> QED
      BY <3>3, <3>4, <3>5
  <2> QED
    BY <2>1, <2>2
<1>5. 0..n \subseteq T
  <2> HIDE DEF T
  <2> QED
    BY <1>1, <1>3, <1>4, InductiveUpTo
<1>6. ASSUME NEW j \in 1..n PROVE Leads(j)
  <2>1. j \in T /\ j > 0
    BY <1>5
  <2> QED
    BY <2>1
<1> HIDE DEF T
<1> QED
  BY <1>1, <1>2, <1>6 DEF Contact!OffsetsLead

\* The one whose text is shown is no further on, owns it, and so does none between.
LEMMA LeadTo ==
  ASSUME NEW recs \in Seq(Contact!Stored), Contact!OffsetsLead(recs), NEW j \in 1..Len(recs)
  PROVE  /\ j - recs[j].share \in 1..j /\ j - recs[j].share \in 1..Len(recs)
         /\ recs[j].share \in Nat /\ recs[j - recs[j].share].share = 0
         /\ \A k \in (j - recs[j].share + 1)..j : recs[k].share > 0
         /\ (recs[j].share = 0) <=> (recs[j].msg # Contact!NoText)
         /\ Contact!Shown(recs)[j] = recs[j - recs[j].share].msg
         /\ Contact!Shown(recs)[j] \in Msgs
<1>1. DOMAIN recs = 1..Len(recs) /\ Len(recs) \in Nat /\ recs[j] \in Contact!Stored
  OBVIOUS
<1>2. /\ recs[j].share < j /\ recs[j - recs[j].share].share = 0
      /\ \A k \in (j - recs[j].share + 1)..j : recs[k].share > 0
      /\ (recs[j].share = 0) <=> (recs[j].msg # Contact!NoText)
  BY <1>1 DEF Contact!OffsetsLead
<1>3. recs[j].share \in Nat
  BY <1>1, ContactStored
<1>4. j - recs[j].share \in 1..j /\ j - recs[j].share \in 1..Len(recs)
  BY <1>1, <1>2, <1>3
<1>5. Contact!Shown(recs)[j] = recs[j - recs[j].share].msg
  BY <1>1 DEF Contact!Shown
<1> DEFINE o == j - recs[j].share
<1>6. recs[o].share = 0 /\ o \in 1..Len(recs)
  BY <1>2, <1>4
<1> HIDE DEF o
<1>7. recs[o].msg # Contact!NoText /\ recs[o] \in Contact!Stored
  BY <1>1, <1>6 DEF Contact!OffsetsLead
<1>8. recs[o].msg \in Msgs
  BY <1>7, ContactStored
<1> QED
  BY <1>2, <1>3, <1>4, <1>5, <1>8 DEF o

-----------------------------------------------------------------------------
(* The order of the texts *)

LEMMA ShownType ==
  ASSUME NEW recs \in Seq(Contact!Stored), Contact!OffsetsLead(recs)
  PROVE  /\ Contact!Shown(recs) \in Seq(Msgs) /\ Len(Contact!Shown(recs)) = Len(recs)
         /\ DOMAIN Contact!Shown(recs) = 1..Len(recs) /\ Len(recs) \in Nat
<1> DEFINE n == Len(recs)
           t == Contact!Shown(recs)
<1>1. n \in Nat /\ DOMAIN recs = 1..n
  OBVIOUS
<1>2. t = [j \in 1..n |-> recs[j - recs[j].share].msg]
  BY <1>1 DEF Contact!Shown
<1>3. \A j \in 1..n : t[j] \in Msgs
  BY LeadTo
<1> HIDE DEF t, n
<1>4. t \in [1..n -> Msgs] /\ DOMAIN t = 1..n
  BY <1>2, <1>3
<1>5. t \in Seq(Msgs)
  BY <1>1, <1>4, SeqDef
<1>6. Len(t) = n
  BY <1>1, <1>4, <1>5
<1> QED
  BY <1>1, <1>4, <1>5, <1>6 DEF t, n

\* What begins with a text is next to it.
LEMMA BeginsNext ==
  ASSUME NEW a \in Msgs, NEW b \in Msgs, NEW m \in Msgs, <<a, b>> \in Begins
  PROVE  /\ a < b
         /\ a < m /\ m < b => <<a, m>> \in Begins
         /\ <<b, m>> \in Begins => <<a, m>> \in Begins
  BY BeginsAssumption

LEMMA ExtendsOver ==
  ASSUME NEW x \in Msgs, NEW u \in Msgs, NEW t \in Msgs,
         x <= u \/ <<u, x>> \in Begins, u <= t \/ Contact!Extends(u, t)
  PROVE  x <= t \/ Contact!Extends(x, t)
<1>1. x \in Nat /\ u \in Nat /\ t \in Nat
  BY SpaceOf
<1> SUFFICES ASSUME t < x PROVE Contact!Extends(x, t)
  BY <1>1
<1>2. CASE x <= u
  <2>1. PICK m \in Msgs : <<m, u>> \in Begins /\ (m = t \/ <<m, t>> \in Begins)
    BY <1>1, <1>2 DEF Contact!Extends
  <2>2. m \in Nat /\ m <= t
    <3>1. <<m, t>> \in Begins => m < t
      BY BeginsNext
    <3> QED
      BY <1>1, <2>1, <3>1, SpaceOf
  <2>3. x = u \/ (m < x /\ x < u)
    BY <1>1, <1>2, <2>2
  <2>4. <<m, x>> \in Begins
    BY <2>1, <2>3, BeginsNext
  <2> QED
    BY <2>1, <2>4 DEF Contact!Extends
<1>3. CASE <<u, x>> \in Begins
  <2>1. CASE u <= t
    <3>1. t = u \/ (u < t /\ t < x)
      BY <1>1, <2>1
    <3>2. t = u \/ <<u, t>> \in Begins
      BY <1>3, <3>1, BeginsNext
    <3> QED
      BY <1>3, <3>2 DEF Contact!Extends
  <2>2. CASE Contact!Extends(u, t)
    <3>1. PICK m \in Msgs : <<m, u>> \in Begins /\ (m = t \/ <<m, t>> \in Begins)
      BY <2>2 DEF Contact!Extends
    <3>2. <<m, x>> \in Begins
      BY <1>3, <3>1, BeginsNext
    <3> QED
      BY <3>1, <3>2 DEF Contact!Extends
  <2> QED
    BY <2>1, <2>2
<1> QED
  BY <1>2, <1>3

LEMMA TextPut ==
  ASSUME NEW s \in Seq(Msgs), NEW t \in Seq(Msgs), NEW x \in Msgs, NEW at \in 1..(Len(s) + 1),
         Inserted(s, at, x, t), Contact!Ordered(s),
         \A i \in 1..(at - 1) : s[i] <= x,
         \A i \in at..Len(s) : x <= s[i] \/ Contact!Extends(x, s[i])
  PROVE  Contact!Ordered(t)
<1> DEFINE Pair(a, b) == a <= b \/ Contact!Extends(a, b)
<1>1. /\ Len(s) \in Nat /\ DOMAIN s = 1..Len(s) /\ DOMAIN t = 1..Len(t) /\ Len(t) = Len(s) + 1
      /\ t[at] = x /\ \A j \in 1..(at - 1) : t[j] = s[j]
      /\ \A j \in at..Len(s) : t[j + 1] = s[j]
  BY DEF Inserted
<1>2. \A i, j \in 1..Len(s) : i < j => Pair(s[i], s[j])
  BY <1>1 DEF Contact!Ordered
<1>3. /\ \A i \in 1..(at - 1) : Pair(s[i], x)
      /\ \A i \in at..Len(s) : Pair(x, s[i])
  OBVIOUS
<1> HIDE DEF Pair
<1>4. ASSUME NEW i \in 1..Len(t), NEW j \in 1..Len(t), i < j
      PROVE  Pair(t[i], t[j])
  <2>1. CASE j < at
    <3>1. i \in 1..(at - 1) /\ j \in 1..(at - 1) /\ i \in 1..Len(s) /\ j \in 1..Len(s)
      BY <1>1, <1>4, <2>1
    <3> QED
      BY <1>1, <1>2, <1>4, <3>1
  <2>2. CASE j = at
    <3>1. i \in 1..(at - 1)
      BY <1>4, <2>2
    <3> QED
      BY <1>1, <1>3, <2>2, <3>1
  <2>3. CASE j > at
    <3>1. j - 1 \in at..Len(s) /\ j - 1 \in 1..Len(s) /\ (j - 1) + 1 = j
      BY <1>1, <2>3
    <3>2. t[j] = s[j - 1]
      BY <1>1, <3>1
    <3>3. CASE i < at
      <4>1. i \in 1..(at - 1) /\ i \in 1..Len(s) /\ i < j - 1
        BY <1>1, <2>3, <3>3
      <4> QED
        BY <1>1, <1>2, <3>1, <3>2, <4>1
    <3>4. CASE i = at
      BY <1>1, <1>3, <3>1, <3>2, <3>4
    <3>5. CASE i > at
      <4>1. i - 1 \in at..Len(s) /\ i - 1 \in 1..Len(s) /\ (i - 1) + 1 = i /\ i - 1 < j - 1
        BY <1>1, <1>4, <3>5
      <4>2. t[i] = s[i - 1]
        BY <1>1, <4>1
      <4> QED
        BY <1>2, <3>1, <3>2, <4>1, <4>2
    <3> QED
      BY <3>3, <3>4, <3>5
  <2> QED
    BY <2>1, <2>2, <2>3
<1> QED
  BY <1>1, <1>4 DEF Contact!Ordered, Pair

LEMMA TextTaken ==
  ASSUME NEW s \in Seq(Msgs), NEW t \in Seq(Msgs), NEW x, NEW p \in 1..(Len(t) + 1),
         Inserted(t, p, x, s), Contact!Ordered(s)
  PROVE  Contact!Ordered(t)
<1> DEFINE Pair(a, b) == a <= b \/ Contact!Extends(a, b)
           at(j) == IF j < p THEN j ELSE j + 1
<1>1. /\ Len(t) \in Nat /\ DOMAIN s = 1..Len(s) /\ DOMAIN t = 1..Len(t) /\ Len(s) = Len(t) + 1
      /\ \A j \in 1..(p - 1) : s[j] = t[j]
      /\ \A j \in p..Len(t) : s[j + 1] = t[j]
  BY DEF Inserted
<1>2. \A i, j \in 1..Len(s) : i < j => Pair(s[i], s[j])
  BY <1>1 DEF Contact!Ordered
<1> HIDE DEF Pair
<1>3. ASSUME NEW j \in 1..Len(t) PROVE at(j) \in 1..Len(s) /\ s[at(j)] = t[j]
  <2>1. CASE j < p
    BY <1>1, <2>1
  <2>2. CASE ~(j < p)
    BY <1>1, <2>2
  <2> QED
    BY <2>1, <2>2
<1>4. ASSUME NEW i \in 1..Len(t), NEW j \in 1..Len(t), i < j
      PROVE  Pair(t[i], t[j])
  <2>1. at(i) < at(j)
    BY <1>4
  <2> HIDE DEF at
  <2> QED
    BY <1>2, <1>3, <2>1
<1> QED
  BY <1>1, <1>4 DEF Contact!Ordered, Pair

-----------------------------------------------------------------------------
(* The database of contacts *)

LEMMA AllocIsInt ==
  ASSUME NEW x \in Int
  PROVE  alloc(x) \in Int
<1> DEFINE p == PAGE_SIZE
<1>1. p \in Nat /\ p > 0
  BY SizesAssumption
<1> HIDE DEF p
<1>2. (x - 1) \div p \in Int
  BY <1>1
<1> DEFINE q == (x - 1) \div p
<1> HIDE DEF q
<1>3. (q + 1) * p \in Int
  BY <1>1, <1>2 DEF q
<1> QED
  BY <1>3 DEF alloc, p, q

LEMMA ContactHeader ==
  ASSUME NEW h \in Contact!Hdrs, NEW n \in Nat, NEW size \in Int
  PROVE  /\ Contact!WithSize(h, n, size) \in Contact!Hdrs
         /\ Contact!WithSize(h, n, size).num_recs = n
         /\ Contact!WithSize(h, n, size).db_size = size
         /\ Contact!WithSize(h, n, size).alloc_size = alloc(size)
         /\ Contact!WithSize(h, n, size).lost = h.lost
<1> DEFINE a == alloc(size)
           w == [num_recs |-> n, db_size |-> size, alloc_size |-> a, lost |-> h.lost]
           l == h.lost
<1>1. a \in Int
  BY AllocIsInt
<1>2. Contact!WithSize(h, n, size) = w
  <2> DEFINE b == [h EXCEPT !.num_recs = n]
             c == [b EXCEPT !.db_size = size]
  <2>1. b = [num_recs |-> n, db_size |-> h.db_size, alloc_size |-> h.alloc_size, lost |-> h.lost]
    BY DEF Contact!Hdrs
  <2>2. [h EXCEPT !.num_recs = n, !.db_size = size, !.alloc_size = a]
          = [c EXCEPT !.alloc_size = a]
    OBVIOUS
  <2>3. Contact!WithSize(h, n, size) = [h EXCEPT !.num_recs = n, !.db_size = size, !.alloc_size = a]
    BY ContactSame DEF Contact!WithSize
  <2> HIDE DEF b
  <2>4. c = [num_recs |-> n, db_size |-> size, alloc_size |-> h.alloc_size, lost |-> h.lost]
    BY <2>1
  <2> HIDE DEF c, a
  <2> QED
    BY <2>2, <2>3, <2>4
<1>3. l \in Nat
  BY DEF Contact!Hdrs
<1> HIDE DEF a, l
<1>4. /\ w \in Contact!Hdrs /\ w.num_recs = n /\ w.db_size = size /\ w.alloc_size = a
      /\ w.lost = h.lost
  BY <1>1, <1>3 DEF Contact!Hdrs, l
<1> HIDE DEF w
<1> QED
  BY <1>2, <1>4 DEF a

LEMMA ContactLost ==
  ASSUME NEW h \in Contact!Hdrs, NEW more \in Nat, NEW w, w = [h EXCEPT !.lost = @ + more]
  PROVE  /\ w \in Contact!Hdrs /\ w.num_recs = h.num_recs /\ w.db_size = h.db_size
         /\ w.lost = h.lost + more
<1>1. h.lost + more \in Nat
  BY DEF Contact!Hdrs
<1> QED
  BY <1>1 DEF Contact!Hdrs

LEMMA ContactExtent ==
  ASSUME NEW hdr, NEW recs \in Seq(Contact!Stored), hdr.num_recs = Len(recs)
  PROVE  Contact!Extent(hdr, Contact!HDR, recs, Contact!Size)
           = 7 + 2 * Len(recs) + Sum(Lens(ContactSize, recs))
<1>1. \A j \in DOMAIN recs : recs[j] \in Contact!Stored
  OBVIOUS
<1>2. [j \in DOMAIN recs |-> Contact!Size(recs[j])] = Lens(ContactSize, recs)
  BY <1>1, ContactStored DEF Lens
<1> QED
  BY <1>2, ContactSame DEF Contact!Extent, Contact!HDR

LEMMA ContactSoundType ==
  ASSUME NEW d, Contact!Sound(d)
  PROVE  /\ d = [recs |-> d.recs, hdr |-> d.hdr] /\ d.recs \in Seq(Contact!Stored)
         /\ d.hdr \in Contact!Hdrs /\ Len(d.recs) \in Nat /\ DOMAIN d.recs = 1..Len(d.recs)
         /\ \A j \in 1..Len(d.recs) : d.recs[j] \in Contact!Stored
         /\ d.hdr.num_recs = Len(d.recs)
         /\ Contact!OffsetsLead(d.recs) /\ Steps(d.recs) /\ Contact!Ordered(Contact!Shown(d.recs))
         /\ \A j \in 1..Len(d.recs) : d.recs[j].len = Space(Contact!Shown(d.recs)[j])
         /\ d.hdr.db_size + d.hdr.lost = 7 + 2 * Len(d.recs) + Sum(Lens(ContactSize, d.recs))
<1>1. d \in [recs : Seq(Contact!Stored), hdr : Contact!Hdrs]
  BY DEF Contact!Sound
<1>2. /\ d.recs \in Seq(Contact!Stored) /\ d.hdr \in Contact!Hdrs
      /\ d = [recs |-> d.recs, hdr |-> d.hdr]
  BY <1>1
<1>3. /\ Len(d.recs) \in Nat /\ DOMAIN d.recs = 1..Len(d.recs)
      /\ \A j \in 1..Len(d.recs) : d.recs[j] \in Contact!Stored
  BY <1>2
<1>4. /\ d.hdr.num_recs = Len(d.recs) /\ Contact!OffsetsLead(d.recs)
      /\ Contact!Ordered(Contact!Shown(d.recs))
      /\ \A j \in DOMAIN d.recs : d.recs[j].len = Contact!Space(Contact!Shown(d.recs)[j])
      /\ d.hdr.db_size + d.hdr.lost
           = Contact!Extent(d.hdr, Contact!HDR, d.recs, Contact!Size)
  BY DEF Contact!Sound
<1>5. Steps(d.recs)
  BY <1>2, <1>4, LeadsSteps
<1>6. d.hdr.db_size + d.hdr.lost = 7 + 2 * Len(d.recs) + Sum(Lens(ContactSize, d.recs))
  BY <1>2, <1>4, ContactExtent
<1>7. \A j \in 1..Len(d.recs) : d.recs[j].len = Space(Contact!Shown(d.recs)[j])
  BY <1>3, <1>4, ContactSame
<1> QED
  BY <1>2, <1>3, <1>4, <1>5, <1>6, <1>7

LEMMA ContactSized ==
  ASSUME NEW recs \in Seq(Contact!Stored), Contact!OffsetsLead(recs),
         Contact!Ordered(Contact!Shown(recs)),
         \A j \in 1..Len(recs) : recs[j].len = Space(Contact!Shown(recs)[j]),
         NEW hdr \in Contact!Hdrs, hdr.num_recs = Len(recs),
         hdr.db_size + hdr.lost = 7 + 2 * Len(recs) + Sum(Lens(ContactSize, recs))
  PROVE  Contact!Sound([recs |-> recs, hdr |-> hdr])
<1> DEFINE d == [recs |-> recs, hdr |-> hdr]
<1>1. d \in [recs : Seq(Contact!Stored), hdr : Contact!Hdrs] /\ d.recs = recs /\ d.hdr = hdr
  OBVIOUS
<1> HIDE DEF d
<1>2. hdr.db_size + hdr.lost = Contact!Extent(hdr, Contact!HDR, recs, Contact!Size)
  BY ContactExtent
<1>3. \A j \in DOMAIN recs : recs[j].len = Contact!Space(Contact!Shown(recs)[j])
  BY ContactSame
<1>4. Contact!Sound(d)
  BY <1>1, <1>2, <1>3 DEF Contact!Sound
<1> QED
  BY <1>4 DEF d

\* The place of a new contact: before the first owner that it comes before.
ContactPlace(s, c, at) ==
    /\ at \in 1..(Len(s) + 1)
    /\ \A j \in 1..(at - 1) : s[j].msg # Contact!NoText => ~Contact!Before(c, s[j])
    /\ at <= Len(s) => s[at].msg # Contact!NoText /\ Contact!Before(c, s[at])

LEMMA ContactAt ==
  ASSUME NEW d, Contact!Sound(d), NEW c \in Contact!Lines
  PROVE  \E at : /\ ContactPlace(d.recs, c, at)
                 /\ Contact!add_contact(d, c)
                      = [recs |-> InsertAt(d.recs, at, Contact!Rec(c, 0)),
                         hdr |-> Contact!WithSize(d.hdr, Len(d.recs) + 1,
                                    d.hdr.db_size + 2 + Contact!Size(Contact!Rec(c, 0)))]
<1> DEFINE s == d.recs
           n == Len(s)
           O == {j \in 1..n : s[j].share = 0 /\ s[j].len = MsgLen[c.msg] /\ s[j].msg = c.msg}
           G == {j \in 1..n : s[j].msg # Contact!NoText /\ Contact!Before(c, s[j])}
           owner == IF O # {} THEN Min(O) ELSE 0
           greater == IF G # {} THEN Min(G) ELSE 0
           at == IF greater # 0 THEN greater ELSE n + 1
<1>1. /\ s \in Seq(Contact!Stored) /\ n \in Nat /\ Contact!OffsetsLead(s)
      /\ \A j \in 1..n : s[j] \in Contact!Stored
      /\ \A j \in 1..n : s[j].len = Space(Contact!Shown(s)[j])
  BY ContactSoundType
<1>2. O = {}
  <2> SUFFICES ASSUME NEW j \in 1..n,
                      s[j].share = 0, s[j].len = MsgLen[c.msg], s[j].msg = c.msg
               PROVE  FALSE
    OBVIOUS
  <2>1. Contact!Shown(s)[j] = s[j - s[j].share].msg /\ j - s[j].share = j
    BY <1>1, LeadTo
  <2>2. s[j].len = Space(c.msg)
    BY <1>1, <2>1
  <2> QED
    BY <2>2, ContactRec, SpaceOf
<1>3. owner = 0
  BY <1>2
<1>4. /\ Contact!SelectInSeq(s, LAMBDA r : r.share = 0 /\ r.len = MsgLen[c.msg] /\ r.msg = c.msg)
           = owner
      /\ Contact!SelectInSeq(s, LAMBDA r : r.msg # Contact!NoText /\ Contact!Before(c, r))
           = greater
  BY ContactSame DEF Contact!SelectInSeq
<1>5. Contact!add_contact(d, c)
        = [recs |-> InsertAt(s, at, Contact!Rec(c, 0)),
           hdr |-> Contact!WithSize(d.hdr, n + 1,
                      d.hdr.db_size + 2 + Contact!Size(Contact!Rec(c, 0)))]
  <2> HIDE DEF owner, greater
  <2> QED
    BY <1>3, <1>4, ContactSame DEF Contact!add_contact
<1>6. G \in SUBSET Nat /\ \A j \in 1..n : j \in G <=> (s[j].msg # Contact!NoText /\ Contact!Before(c, s[j]))
  OBVIOUS
<1>7. G \subseteq 1..n
  OBVIOUS
<1> HIDE DEF G, s, n
<1>8. ContactPlace(s, c, at)
  <2>1. CASE G = {}
    <3>1. at = n + 1
      BY <2>1
    <3>2. \A j \in 1..((n + 1) - 1) : s[j].msg # Contact!NoText => ~Contact!Before(c, s[j])
      BY <1>1, <1>6, <2>1
    <3> QED
      BY <1>1, <3>1, <3>2 DEF ContactPlace, n
  <2>2. CASE G # {}
    <3>1. Min(G) \in G /\ \A j \in G : Min(G) <= j
      BY <1>6, <2>2, FirstPlace
    <3>2. Min(G) \in 1..n
      BY <1>7, <3>1
    <3>3. at = Min(G)
      BY <1>1, <2>2, <3>2
    <3> HIDE DEF at
    <3>4. at \in G /\ at \in 1..n /\ \A j \in G : at <= j
      BY <3>1, <3>2, <3>3
    <3>5. \A j \in 1..(at - 1) : j \in 1..n /\ j \notin G
      BY <1>1, <3>4
    <3> QED
      BY <1>1, <1>6, <3>4, <3>5 DEF ContactPlace, n
  <2> QED
    BY <2>1, <2>2
<1> QED
  BY <1>5, <1>8 DEF s, n

LEMMA ContactPut ==
  ASSUME NEW d, Contact!Sound(d), NEW c \in Contact!Lines, NEW at,
         ContactPlace(d.recs, c, at), NEW r \in Seq(Contact!Stored),
         Inserted(d.recs, at, Contact!Rec(c, 0), r)
  PROVE  /\ Contact!OffsetsLead(r) /\ Contact!Ordered(Contact!Shown(r))
         /\ \A j \in 1..Len(r) : r[j].len = Space(Contact!Shown(r)[j])
<1> DEFINE s == d.recs
           n == Len(s)
           e == Contact!Rec(c, 0)
           x == c.msg
           old == Contact!Shown(s)
           new == Contact!Shown(r)
<1>1. /\ s \in Seq(Contact!Stored) /\ n \in Nat /\ Contact!OffsetsLead(s) /\ Steps(s)
      /\ \A j \in 1..n : s[j] \in Contact!Stored /\ s[j].share \in Nat
      /\ \A j \in 1..n : s[j].len = Space(old[j])
      /\ Contact!Ordered(old)
  BY ContactSoundType, ContactStored
<1>2. /\ e = [msg |-> x, len |-> Space(x), who |-> c.who, share |-> 0]
      /\ x \in Msgs /\ x # Contact!NoText /\ e \in Contact!Stored
  BY ContactRec, NoTextIsNone
<1>3. /\ at \in 1..(n + 1)
      /\ \A j \in 1..(at - 1) : s[j].msg # Contact!NoText => ~Contact!Before(c, s[j])
      /\ at <= n => s[at].msg # Contact!NoText /\ Contact!Before(c, s[at])
  BY DEF ContactPlace
<1>4. /\ Len(r) = n + 1 /\ r[at] = e
      /\ \A j \in 1..(at - 1) : r[j] = s[j]
      /\ \A j \in at..n : r[j + 1] = s[j]
  BY DEF Inserted
<1>5. r[at].share = 0 /\ r[at].msg = x /\ r[at].len = Space(x)
  BY <1>2, <1>4
<1> HIDE DEF s, n, e, x
<1>6. ASSUME NEW j \in 1..n
      PROVE  /\ j - s[j].share \in 1..j /\ s[j - s[j].share].share = 0
             /\ \A k \in (j - s[j].share + 1)..j : s[k].share > 0
             /\ (s[j].share = 0) <=> (s[j].msg # Contact!NoText)
             /\ old[j] = s[j - s[j].share].msg /\ old[j] \in Msgs
  BY <1>1, LeadTo DEF n
<1>7. at <= n => s[at].share = 0
  <2> SUFFICES ASSUME at <= n PROVE s[at].share = 0
    OBVIOUS
  <2>1. at \in 1..n
    BY <1>1, <1>3
  <2> QED
    BY <1>3, <1>6, <2>1
<1>8. Steps(r)
  <2>1. ASSUME NEW j \in 1..n
        PROVE  /\ s[j].share = 0 \/ (j > 1 /\ s[j].share = s[j - 1].share + 1)
               /\ (s[j].share = 0) <=> (s[j].msg # Contact!NoText)
    BY <1>1 DEF Steps, n
  <2>2. ASSUME NEW j \in 1..Len(r)
        PROVE  /\ r[j].share = 0 \/ (j > 1 /\ r[j].share = r[j - 1].share + 1)
               /\ (r[j].share = 0) <=> (r[j].msg # Contact!NoText)
    <3>1. CASE j < at
      <4>1. j \in 1..n /\ j \in 1..(at - 1) /\ (j > 1 => j - 1 \in 1..(at - 1))
        BY <1>1, <1>3, <1>4, <3>1
      <4> QED
        BY <1>4, <2>1, <4>1
    <3>2. CASE j = at
      BY <1>2, <1>5, <3>2
    <3>3. CASE j > at
      <4>1. j - 1 \in 1..n /\ j - 1 \in at..n /\ (j - 1) + 1 = j /\ j > 1
        BY <1>1, <1>3, <1>4, <3>3
      <4>2. r[j] = s[j - 1]
        BY <1>4, <4>1
      <4>3. CASE j - 1 = at
        BY <1>3, <1>7, <2>1, <4>1, <4>2, <4>3
      <4>4. CASE j - 1 # at
        <5>1. (j - 1) - 1 \in at..n /\ ((j - 1) - 1) + 1 = j - 1
          BY <1>1, <1>3, <4>1, <4>4
        <5>2. r[j - 1] = s[(j - 1) - 1]
          BY <1>4, <5>1
        <5> QED
          BY <2>1, <4>1, <4>2, <5>2
      <4> QED
        BY <4>3, <4>4
    <3> QED
      BY <1>1, <1>3, <1>4, <3>1, <3>2, <3>3
  <2> QED
    BY <2>2 DEF Steps
<1>9. Contact!OffsetsLead(r)
  BY <1>8, StepsLead
<1>10. /\ old \in Seq(Msgs) /\ Len(old) = n /\ new \in Seq(Msgs) /\ Len(new) = n + 1
       /\ DOMAIN r = 1..Len(r)
  BY <1>1, <1>4, <1>9, ShownType DEF n
<1>11. \A j \in 1..(n + 1) : new[j] = r[j - r[j].share].msg
  BY <1>4, <1>10 DEF Contact!Shown
<1> HIDE DEF old, new
<1>12. Inserted(old, at, x, new)
  <2>1. new[at] = x
    BY <1>3, <1>5, <1>11
  <2>2. ASSUME NEW j \in 1..(at - 1) PROVE new[j] = old[j]
    <3>1. j \in 1..n /\ j \in 1..(n + 1) /\ r[j] = s[j]
      BY <1>1, <1>3, <1>4
    <3>2. j - s[j].share \in 1..j
      BY <1>6, <3>1
    <3>3. j - s[j].share \in 1..(at - 1)
      BY <1>1, <1>3, <3>2
    <3> QED
      BY <1>4, <1>6, <1>11, <3>1, <3>3
  <2>3. ASSUME NEW j \in at..n PROVE new[j + 1] = old[j]
    <3> DEFINE a == s[j].share
               o == j - a
    <3>1. j \in 1..n /\ j + 1 \in 1..(n + 1) /\ r[j + 1] = s[j] /\ at \in 1..n /\ at <= n
      BY <1>1, <1>3, <1>4
    <3>2. /\ o \in 1..j /\ \A k \in (o + 1)..j : s[k].share > 0
          /\ old[j] = s[o].msg /\ a \in Nat
      BY <1>1, <1>6, <3>1
    <3>3. r[j + 1].share = a /\ (j + 1) - a = o + 1
      <4>1. j \in Int
        OBVIOUS
      <4> QED
        BY <3>1, <3>2, <4>1
    <3> HIDE DEF a, o
    <3>4. o >= at
      <4> SUFFICES ASSUME ~(o >= at) PROVE FALSE
        OBVIOUS
      <4>1. at \in (o + 1)..j
        BY <1>1, <3>1, <3>2
      <4>2. s[at].share > 0 /\ s[at].share = 0
        BY <1>7, <3>1, <3>2, <4>1
      <4> QED
        BY <4>2
    <3>5. o \in at..n
      BY <1>1, <3>1, <3>2, <3>4
    <3> QED
      BY <1>4, <1>11, <3>1, <3>2, <3>3, <3>5
  <2> QED
    BY <1>10, <2>1, <2>2, <2>3 DEF Inserted
<1>13. \A i \in 1..(at - 1) : old[i] <= x
  <2> SUFFICES ASSUME NEW i \in 1..(at - 1) PROVE old[i] <= x
    OBVIOUS
  <2> DEFINE o == i - s[i].share
  <2>1. i \in 1..n
    BY <1>1, <1>3
  <2>2. o \in 1..i /\ old[i] = s[o].msg /\ old[i] \in Msgs
    BY <1>6, <2>1
  <2> HIDE DEF o
  <2>3. o \in 1..(at - 1) /\ s[o].msg # Contact!NoText
    BY <1>3, <2>2, NoTextIsNone
  <2>4. ~(c.msg < s[o].msg)
    BY <1>3, <2>3 DEF Contact!Before
  <2> QED
    BY <1>2, <2>2, <2>4, SpaceOf DEF x
<1>14. ASSUME NEW i \in at..n
       PROVE  x <= old[i] \/ Contact!Extends(x, old[i])
  <2> DEFINE u == old[at]
  <2>1. at \in 1..n /\ i \in 1..n /\ at <= n
    BY <1>1, <1>3
  <2>2. u = s[at].msg /\ u \in Msgs /\ old[i] \in Msgs
    <3>1. at - s[at].share = at
      BY <1>7, <2>1
    <3> QED
      BY <1>6, <2>1, <3>1
  <2>3. x \in Nat /\ u \in Nat /\ old[i] \in Nat
    BY <1>2, <2>2, SpaceOf
  <2>4. x <= u \/ <<u, x>> \in Begins
    BY <1>3, <2>1, <2>2, <2>3 DEF Contact!Before, x
  <2>5. u <= old[i] \/ Contact!Extends(u, old[i])
    <3>1. CASE i = at
      BY <2>3, <3>1
    <3>2. CASE i # at
      <4>1. at < i /\ at \in DOMAIN old /\ i \in DOMAIN old
        BY <1>1, <1>10, <2>1, <3>2
      <4> QED
        BY <1>1, <4>1 DEF Contact!Ordered
    <3> QED
      BY <3>1, <3>2
  <2> HIDE DEF u
  <2> QED
    BY <1>2, <2>2, <2>4, <2>5, ExtendsOver
<1>15. Contact!Ordered(new)
  <2>1. at \in 1..(Len(old) + 1) /\ \A i \in at..Len(old) : x <= old[i] \/ Contact!Extends(x, old[i])
    BY <1>3, <1>10, <1>14
  <2> QED
    BY <1>1, <1>2, <1>10, <1>12, <1>13, <2>1, TextPut
<1>16. ASSUME NEW j \in 1..(n + 1) PROVE r[j].len = Space(new[j])
  <2>1. /\ new[at] = x /\ \A i \in 1..(at - 1) : new[i] = old[i]
        /\ \A i \in at..n : new[i + 1] = old[i]
    BY <1>10, <1>12 DEF Inserted
  <2>2. CASE j < at
    <3>1. j \in 1..(at - 1) /\ j \in 1..n
      BY <1>1, <1>3, <2>2
    <3> QED
      BY <1>1, <1>4, <2>1, <3>1
  <2>3. CASE j = at
    BY <1>5, <2>1, <2>3
  <2>4. CASE j > at
    <3>1. j - 1 \in at..n /\ j - 1 \in 1..n /\ (j - 1) + 1 = j
      BY <1>1, <1>3, <2>4
    <3> QED
      BY <1>1, <1>4, <2>1, <3>1
  <2> QED
    BY <1>1, <1>3, <2>2, <2>3, <2>4
<1> QED
  BY <1>4, <1>9, <1>15, <1>16 DEF new

LEMMA ContactAdd ==
  ASSUME NEW d, Contact!Sound(d), NEW c \in Contact!Lines
  PROVE  Contact!Sound(Contact!add_contact(d, c))
<1> DEFINE s == d.recs
           e == Contact!Rec(c, 0)
           size == d.hdr.db_size + 2 + Contact!Size(e)
           hdr == Contact!WithSize(d.hdr, Len(s) + 1, size)
<1>1. /\ s \in Seq(Contact!Stored) /\ Len(s) \in Nat /\ d.hdr \in Contact!Hdrs
      /\ d.hdr.db_size + d.hdr.lost = 7 + 2 * Len(s) + Sum(Lens(ContactSize, s))
  BY ContactSoundType
<1>2. e \in Contact!Stored
  BY ContactRec
<1>3. PICK at : /\ ContactPlace(s, c, at)
                /\ Contact!add_contact(d, c) = [recs |-> InsertAt(s, at, e), hdr |-> hdr]
  BY ContactAt
<1>4. at \in 1..(Len(s) + 1)
  BY <1>3 DEF ContactPlace
<1> DEFINE r == InsertAt(s, at, e)
<1>5. r \in Seq(Contact!Stored) /\ Inserted(s, at, e, r)
  <2> HIDE DEF s, e
  <2> QED
    BY <1>1, <1>2, <1>4, InsertAtPuts
<1>6. /\ Contact!OffsetsLead(r) /\ Contact!Ordered(Contact!Shown(r))
      /\ \A j \in 1..Len(r) : r[j].len = Space(Contact!Shown(r)[j])
  <2> HIDE DEF r
  <2> QED
    BY <1>3, <1>5, ContactPut
<1>7. Sum(Lens(ContactSize, r)) = Sum(Lens(ContactSize, s)) + ContactSize[e]
  <2> HIDE DEF s, e, r
  <2> QED
    BY <1>1, <1>2, <1>4, <1>5, ContactTakes, LensPut
<1>8. Len(r) = Len(s) + 1
  BY <1>5 DEF Inserted
<1>9. /\ Sum(Lens(ContactSize, s)) \in Nat /\ ContactSize[e] = Contact!Size(e)
      /\ Contact!Size(e) \in Nat
  <2> HIDE DEF s, e
  <2> QED
    BY <1>1, <1>2, ContactTakes, LensType, ContactStored
<1>10. d.hdr.db_size \in Int /\ d.hdr.lost \in Nat
  BY <1>1 DEF Contact!Hdrs
<1>11. size \in Int /\ Len(s) + 1 \in Nat
  <2> HIDE DEF e, s
  <2> QED
    BY <1>1, <1>9, <1>10
<1>12. hdr \in Contact!Hdrs /\ hdr.num_recs = Len(r) /\ hdr.db_size = size /\ hdr.lost = d.hdr.lost
  <2> DEFINE n == Len(s) + 1
  <2>1. n \in Nat /\ Len(r) = n /\ hdr = Contact!WithSize(d.hdr, n, size)
    BY <1>8, <1>11
  <2>2. d.hdr \in Contact!Hdrs /\ size \in Int
    BY <1>1, <1>11
  <2> HIDE DEF size, n, r, hdr
  <2> QED
    BY <2>1, <2>2, ContactHeader
<1> HIDE DEF hdr
<1>13. hdr.db_size + hdr.lost = 7 + 2 * Len(r) + Sum(Lens(ContactSize, r))
  <2> DEFINE a == d.hdr.db_size
             b == d.hdr.lost
             z == Contact!Size(e)
             q == Sum(Lens(ContactSize, s))
             n == Len(s)
  <2>1. hdr.db_size = a + 2 + z /\ hdr.lost = b
    BY <1>12
  <2>2. Sum(Lens(ContactSize, r)) = q + z /\ Len(r) = n + 1
    BY <1>7, <1>8, <1>9
  <2>3. a \in Int /\ b \in Int /\ z \in Int /\ q \in Int /\ n \in Int /\ a + b = 7 + 2 * n + q
    BY <1>1, <1>9, <1>10
  <2> HIDE DEF a, b, z, q, n, r
  <2> QED
    BY <2>1, <2>2, <2>3
<1>14. Contact!Sound([recs |-> r, hdr |-> hdr])
  <2> HIDE DEF r
  <2> QED
    BY <1>5, <1>6, <1>12, <1>13, ContactSized
<1> QED
  BY <1>3, <1>14

-----------------------------------------------------------------------------
(* A contact less *)

\* Contacts j + 1 to k all share a text.
Shares(s, j, k) == \A m \in (j + 1)..k : s[m].share > 0
\* The one after j inherits its text.
Handed(s, j) == s[j].share = 0 /\ j < Len(s) /\ s[j + 1].share > 0

\* The contacts before j is taken out, the offsets already those after it.
Rest(s, j) ==
    [k \in DOMAIN s |->
        IF k <= j \/ ~Shares(s, j, k) THEN s[k]
        ELSE IF Handed(s, j) /\ k = j + 1
             THEN [[s[k] EXCEPT !.msg = s[j].msg] EXCEPT !.share = @ - 1]
             ELSE [s[k] EXCEPT !.share = @ - 1]]

LEMMA RestIs ==
  ASSUME NEW s \in Seq(Contact!Stored), NEW j \in 1..Len(s), NEW k \in 1..Len(s)
  PROVE  /\ Rest(s, j)[k] \in Contact!Stored
         /\ k <= j \/ ~Shares(s, j, k) => Rest(s, j)[k] = s[k]
         /\ k > j /\ Shares(s, j, k)
              => /\ s[k].share > 0 /\ s[k].share \in Nat
                 /\ Rest(s, j)[k].share = s[k].share - 1
                 /\ Rest(s, j)[k].len = s[k].len
                 /\ Rest(s, j)[k].msg = IF Handed(s, j) /\ k = j + 1 THEN s[j].msg ELSE s[k].msg
<1>1. DOMAIN s = 1..Len(s) /\ Len(s) \in Nat /\ s[k] \in Contact!Stored /\ s[j] \in Contact!Stored
  OBVIOUS
<1>2. CASE k <= j \/ ~Shares(s, j, k)
  <2>1. Rest(s, j)[k] = s[k]
    BY <1>1, <1>2 DEF Rest
  <2>2. ~(k > j /\ Shares(s, j, k))
    BY <1>2
  <2> QED
    BY <1>1, <2>1, <2>2
<1>3. CASE ~(k <= j \/ ~Shares(s, j, k))
  <2> DEFINE a == s[k]
             b == s[j]
             t == a.share - 1
             x == IF Handed(s, j) /\ k = j + 1 THEN b.msg ELSE a.msg
  <2>1. k > j /\ k \in (j + 1)..k /\ Shares(s, j, k)
    BY <1>3
  <2>2. a.share > 0
    BY <2>1 DEF Shares
  <2>3. a \in Contact!Stored /\ b \in Contact!Stored /\ a.share \in Nat
        /\ a.msg \in Msgs \cup {Contact!NoText} /\ b.msg \in Msgs \cup {Contact!NoText}
        /\ a.len \in Nat /\ a.who \in Nat
    BY <1>1, ContactStored
  <2>4. a = [msg |-> a.msg, len |-> a.len, who |-> a.who, share |-> a.share]
    BY <2>3 DEF Contact!Stored
  <2>5. Rest(s, j)[k] = IF Handed(s, j) /\ k = j + 1
                        THEN [[a EXCEPT !.msg = b.msg] EXCEPT !.share = @ - 1]
                        ELSE [a EXCEPT !.share = @ - 1]
    BY <1>1, <1>3 DEF Rest
  <2>6. t \in Nat
    BY <2>2, <2>3
  <2> HIDE DEF a, b
  <2>7. [a EXCEPT !.share = @ - 1] = [msg |-> a.msg, len |-> a.len, who |-> a.who, share |-> t]
    BY <2>4
  <2>8. [[a EXCEPT !.msg = b.msg] EXCEPT !.share = @ - 1]
          = [msg |-> b.msg, len |-> a.len, who |-> a.who, share |-> t]
    <3> DEFINE c == [a EXCEPT !.msg = b.msg]
    <3>1. c = [msg |-> b.msg, len |-> a.len, who |-> a.who, share |-> a.share]
      BY <2>4
    <3> HIDE DEF c
    <3>2. [c EXCEPT !.share = @ - 1] = [msg |-> b.msg, len |-> a.len, who |-> a.who, share |-> t]
      BY <3>1
    <3> QED
      BY <3>2 DEF c
  <2> HIDE DEF t
  <2>9. Rest(s, j)[k] = [msg |-> x, len |-> a.len, who |-> a.who, share |-> t]
    BY <2>5, <2>7, <2>8
  <2>10. x \in Msgs \cup {Contact!NoText}
    BY <2>3
  <2>11. x = IF Handed(s, j) /\ k = j + 1 THEN s[j].msg ELSE s[k].msg
    BY DEF a, b
  <2>12. ~(k <= j)
    BY <1>3
  <2> HIDE DEF x
  <2>13. Rest(s, j)[k] \in Contact!Stored
    BY <2>3, <2>6, <2>9, <2>10 DEF Contact!Stored
  <2>14. /\ Rest(s, j)[k].share = s[k].share - 1 /\ Rest(s, j)[k].len = s[k].len
         /\ Rest(s, j)[k].msg = x /\ s[k].share > 0 /\ s[k].share \in Nat
    BY <2>2, <2>3, <2>9 DEF a, t
  <2> QED
    BY <2>1, <2>11, <2>12, <2>13, <2>14
<1> QED
  BY <1>2, <1>3

LEMMA RestType ==
  ASSUME NEW s \in Seq(Contact!Stored), NEW j \in 1..Len(s)
  PROVE  Rest(s, j) \in Seq(Contact!Stored) /\ Len(Rest(s, j)) = Len(s)
<1> DEFINE t == Rest(s, j)
           n == Len(s)
<1>1. n \in Nat /\ DOMAIN t = 1..n
  BY DEF Rest
<1>2. \A k \in 1..n : t[k] \in Contact!Stored
  BY RestIs
<1>3. t = [k \in 1..n |-> t[k]]
  BY <1>1 DEF Rest
<1> HIDE DEF t, n
<1>4. t \in [1..n -> Contact!Stored]
  BY <1>2, <1>3
<1>5. t \in Seq(Contact!Stored)
  BY <1>1, <1>4, SeqDef
<1>6. Len(t) = n
  BY <1>1, <1>4, <1>5
<1> QED
  BY <1>5, <1>6 DEF t, n

LEMMA ContactTake ==
  ASSUME NEW d, Contact!Sound(d), NEW j \in 1..Len(d.recs), NEW r \in Seq(Contact!Stored),
         Inserted(r, j, Rest(d.recs, j)[j], Rest(d.recs, j))
  PROVE  /\ Contact!OffsetsLead(r) /\ Contact!Ordered(Contact!Shown(r))
         /\ \A k \in 1..Len(r) : r[k].len = Space(Contact!Shown(r)[k])
<1> DEFINE s == d.recs
           n == Len(s)
           rest == Rest(s, j)
           old == Contact!Shown(s)
           new == Contact!Shown(r)
           with(k) == Shares(s, j, k)
<1>1. /\ s \in Seq(Contact!Stored) /\ n \in Nat /\ Contact!OffsetsLead(s) /\ Steps(s)
      /\ \A k \in 1..n : s[k] \in Contact!Stored /\ s[k].share \in Nat
      /\ \A k \in 1..n : s[k].len = Space(old[k])
      /\ Contact!Ordered(old)
  BY ContactSoundType, ContactStored
<1>2. /\ Len(rest) = Len(r) + 1 /\ Len(r) \in Nat /\ Len(rest) = n
      /\ \A k \in 1..(j - 1) : rest[k] = r[k]
      /\ \A k \in j..Len(r) : rest[k + 1] = r[k]
  BY <1>1, RestType DEF Inserted
<1>3. Len(r) = n - 1 /\ n - 1 \in Nat /\ j \in 1..n
  BY <1>1, <1>2
<1>18. n \in Nat /\ j \in Nat /\ j <= n /\ j >= 1
  BY <1>1
<1> HIDE DEF n
<1>4. ASSUME NEW k \in 1..n
      PROVE  /\ k <= j \/ ~with(k) => rest[k] = s[k]
             /\ k > j /\ with(k)
                  => /\ s[k].share > 0 /\ s[k].share \in Nat
                     /\ rest[k].share = s[k].share - 1 /\ rest[k].len = s[k].len
                     /\ rest[k].msg = IF Handed(s, j) /\ k = j + 1 THEN s[j].msg ELSE s[k].msg
  BY <1>1, <1>3, RestIs DEF n
<1>5. ASSUME NEW k \in 1..n
      PROVE  /\ k - s[k].share \in 1..k /\ s[k - s[k].share].share = 0
             /\ \A m \in (k - s[k].share + 1)..k : s[m].share > 0
             /\ (s[k].share = 0) <=> (s[k].msg # Contact!NoText)
             /\ old[k] = s[k - s[k].share].msg /\ old[k] \in Msgs
             /\ s[k].share = 0 \/ (k > 1 /\ s[k].share = s[k - 1].share + 1)
  BY <1>1, LeadTo DEF n, Steps
\* what is before and after in the new list
<1>6. ASSUME NEW k \in 1..(n - 1)
      PROVE  /\ k < j => r[k] = s[k]
             /\ k >= j => k + 1 \in 1..n /\ r[k] = rest[k + 1]
  <2>1. k < j => k \in 1..(j - 1) /\ k \in 1..n
    BY <1>1, <1>3
  <2>2. k >= j => k \in j..Len(r) /\ k + 1 \in 1..n
    BY <1>1, <1>3
  <2> QED
    BY <1>2, <1>4, <2>1, <2>2
\* shared on from one to the next
<1>7. ASSUME NEW k \in (j + 1)..n
      PROVE  with(k) <=> s[k].share > 0 /\ (k > j + 1 => with(k - 1))
  <2>1. k \in (j + 1)..k /\ k \in 1..n
    BY <1>1, <1>3
  <2>2. ASSUME with(k) PROVE s[k].share > 0 /\ (k > j + 1 => with(k - 1))
    BY <2>1, <2>2 DEF Shares
  <2>3. ASSUME s[k].share > 0, k > j + 1 => with(k - 1) PROVE with(k)
    <3> SUFFICES ASSUME NEW m \in (j + 1)..k PROVE s[m].share > 0
      BY DEF Shares
    <3>1. CASE m = k
      BY <2>3, <3>1
    <3>2. CASE m # k
      <4>1. k > j + 1 /\ m \in (j + 1)..(k - 1)
        BY <1>3, <3>2
      <4> QED
        BY <2>3, <4>1 DEF Shares
    <3> QED
      BY <3>1, <3>2
  <2> QED
    BY <2>2, <2>3
<1> HIDE DEF rest, s, with
<1>8. ASSUME NEW k \in 1..(n - 1)
      PROVE  /\ r[k].share = 0 \/ (k > 1 /\ r[k].share = r[k - 1].share + 1)
             /\ (r[k].share = 0) <=> (r[k].msg # Contact!NoText)
  <2>1. CASE k < j
    <3>1. k \in 1..n /\ r[k] = s[k] /\ (k > 1 => k - 1 \in 1..(n - 1) /\ r[k - 1] = s[k - 1])
      BY <1>1, <1>3, <1>6, <2>1
    <3> QED
      BY <1>5, <3>1
  <2>2. CASE k >= j /\ ~with(k + 1)
    <3>1. k + 1 \in 1..n /\ r[k] = s[k + 1] /\ k + 1 \in (j + 1)..n /\ (k + 1) - 1 = k
      BY <1>3, <1>4, <1>6, <2>2
    <3>2. CASE s[k + 1].share = 0
      BY <1>5, <3>1, <3>2
    <3>3. CASE s[k + 1].share # 0
      <4>1. s[k + 1].share > 0 /\ k > j /\ ~with(k)
        <5>1. s[k + 1].share > 0
          BY <1>1, <3>1, <3>3
        <5>2. ~(k + 1 > j + 1 => with((k + 1) - 1))
          BY <1>7, <2>2, <3>1, <5>1
        <5>3. k + 1 > j + 1 /\ ~with(k)
          BY <3>1, <5>2
        <5> QED
          BY <1>3, <5>1, <5>3
      <4>2. k - 1 \in 1..(n - 1) /\ k - 1 >= j /\ (k - 1) + 1 = k /\ k \in 1..n
        BY <1>18, <4>1
      <4>3. r[k - 1] = s[k]
        BY <1>4, <1>6, <4>1, <4>2
      <4> QED
        BY <1>5, <3>1, <3>3, <4>2, <4>3
    <3> QED
      BY <3>2, <3>3
  <2>3. CASE k >= j /\ with(k + 1)
    <3>8. k + 1 \in 1..n /\ k + 1 \in (j + 1)..n /\ k + 1 > j
          /\ (k + 1) - 1 = k /\ k \in 1..n
      BY <1>18, <2>3
    <3>1. k + 1 \in 1..n /\ r[k] = rest[k + 1] /\ k + 1 \in (j + 1)..n /\ k + 1 > j
          /\ (k + 1) - 1 = k /\ k \in 1..n
      BY <1>6, <2>3, <3>8
    <3>2. /\ s[k + 1].share > 0 /\ s[k + 1].share \in Nat
          /\ r[k].share = s[k + 1].share - 1
          /\ r[k].msg = IF Handed(s, j) /\ k + 1 = j + 1 THEN s[j].msg ELSE s[k + 1].msg
      BY <1>4, <2>3, <3>1
    <3>3. s[k + 1].share = s[k].share + 1 /\ s[k].share \in Nat
      <4>1. s[k + 1].share = 0 \/ s[k + 1].share = s[(k + 1) - 1].share + 1
        BY <1>5, <3>1
      <4>2. s[k + 1].share # 0
        BY <3>2
      <4>3. s[k].share \in Nat
        BY <1>1, <3>1, SeqDef DEF n, Contact!Stored
      <4> QED
        BY <3>1, <4>1, <4>2, <4>3
    <3>4. r[k].share = s[k].share
      BY <3>2, <3>3
    <3>5. s[k + 1].msg = Contact!NoText
      BY <1>5, <3>1, <3>2
    <3>6. CASE k = j
      <4>1. Handed(s, j) <=> s[j].share = 0
        BY <1>1, <1>3, <3>1, <3>2, <3>6 DEF Handed, n, s
      <4>2. (r[k].share = 0) <=> (r[k].msg # Contact!NoText)
        BY <1>5, <3>1, <3>2, <3>4, <3>5, <3>6, <4>1
      <4>3. s[j].share = 0 \/ (j > 1 /\ s[j].share = s[j - 1].share + 1)
        BY <1>3, <1>5
      <4>4. j > 1 => r[j - 1] = s[j - 1]
        <5>1. j > 1 => j - 1 \in 1..(n - 1) /\ j - 1 < j
          BY <1>1, <1>3
        <5> QED
          BY <1>6, <5>1
      <4> QED
        BY <3>4, <3>6, <4>2, <4>3, <4>4
    <3>7. CASE k # j
      <4>1. k > j /\ k \in (j + 1)..n /\ k - 1 \in 1..(n - 1) /\ k - 1 >= j /\ (k - 1) + 1 = k
        BY <1>3, <2>3, <3>1, <3>7
      <4>2. k + 1 > j + 1 => with((k + 1) - 1)
        BY <1>7, <2>3, <3>1
      <4>3. with(k)
        BY <3>1, <4>1, <4>2
      <4>4. s[k].share > 0 /\ r[k - 1].share = s[k].share - 1
        BY <1>4, <1>6, <3>1, <4>1, <4>3
      <4>5. r[k].msg = s[k + 1].msg
        BY <3>2, <3>7
      <4> QED
        BY <1>3, <3>3, <3>4, <3>5, <4>1, <4>4, <4>5
    <3> QED
      BY <3>6, <3>7
  <2> QED
    BY <1>3, <2>1, <2>2, <2>3
<1>9. Contact!OffsetsLead(r)
  <2>1. Steps(r)
    BY <1>3, <1>8 DEF Steps
  <2> QED
    BY <2>1, StepsLead
<1>10. /\ old \in Seq(Msgs) /\ Len(old) = n /\ new \in Seq(Msgs) /\ Len(new) = n - 1
       /\ DOMAIN r = 1..(n - 1)
  BY <1>1, <1>3, <1>9, ShownType DEF n, s
<1>11. \A k \in 1..(n - 1) : new[k] = r[k - r[k].share].msg
  BY <1>10 DEF Contact!Shown
<1>12. DOMAIN old = 1..n
  BY <1>1, <1>10
<1> HIDE DEF old, new
<1>13. ASSUME NEW k \in 1..(j - 1) PROVE new[k] = old[k]
  <2>5. k \in 1..(n - 1) /\ k < j /\ k \in 1..n
    BY <1>18
  <2>1. k \in 1..(n - 1) /\ k < j /\ k \in 1..n /\ r[k] = s[k]
    BY <1>6, <2>5
  <2> DEFINE o == k - s[k].share
  <2>2. o \in 1..k /\ old[k] = s[o].msg
    BY <1>5, <2>1
  <2>3. new[k] = r[o].msg
    BY <1>11, <2>1
  <2> HIDE DEF o
  <2>4. r[o] = s[o]
    BY <1>3, <1>6, <2>1, <2>2
  <2> QED
    BY <2>2, <2>3, <2>4
<1>14. ASSUME NEW k \in j..(n - 1) PROVE new[k] = old[k + 1]
  <2> DEFINE q == k + 1
             a == s[q].share
             o == q - a
  <2>1. q \in 1..n /\ q > j /\ k \in 1..(n - 1) /\ k >= j /\ r[k] = rest[q] /\ q = k + 1
        /\ q \in (j + 1)..n
    BY <1>3, <1>6
  <2>2. /\ o \in 1..q /\ s[o].share = 0 /\ \A m \in (o + 1)..q : s[m].share > 0
        /\ old[q] = s[o].msg /\ a \in Nat /\ o = q - a
    BY <1>1, <1>5, <2>1
  <2>3. new[k] = r[k - r[k].share].msg
    BY <1>11, <2>1
  <2> HIDE DEF q, o
  <2>4. CASE ~with(q)
    <3>1. r[k].share = a
      BY <1>4, <2>1, <2>4
    <3> HIDE DEF a
    <3>2. k - r[k].share = o - 1
      BY <2>1, <2>2, <3>1
    <3>3. o > j
      <4> SUFFICES ASSUME ~(o > j) PROVE FALSE
        OBVIOUS
      <4>1. PICK m \in (j + 1)..q : ~(s[m].share > 0)
        BY <2>4 DEF Shares, with
      <4>2. m \in (o + 1)..q
        BY <1>3, <2>1, <2>2, <4>1
      <4> QED
        BY <2>2, <4>1, <4>2
    <3>4. o \in 1..n /\ o \in (j + 1)..n /\ o - 1 \in 1..(n - 1) /\ o - 1 >= j /\ (o - 1) + 1 = o
      <4>1. q \in 1..n /\ o \in 1..q
        BY <2>1, <2>2
      <4>2. o \in Nat /\ o <= n /\ o >= 1
        BY <1>18, <4>1
      <4> QED
        BY <1>18, <3>3, <4>2
    <3>5. ~with(o)
      BY <1>7, <2>2, <3>4
    <3>6. r[o - 1] = s[o]
      BY <1>4, <1>6, <3>4, <3>5
    <3> QED
      BY <2>1, <2>2, <2>3, <3>2, <3>6
  <2>5. CASE with(q)
    <3>1. r[k].share = a - 1
      BY <1>4, <2>1, <2>5
    <3> HIDE DEF a
    <3>2. k - r[k].share = o
      BY <2>1, <2>2, <3>1
    <3>3. o <= j
      <4> SUFFICES ASSUME ~(o <= j) PROVE FALSE
        OBVIOUS
      <4>1. o \in (j + 1)..q
        BY <1>3, <2>1, <2>2
      <4>2. s[o].share > 0
        BY <2>5, <4>1 DEF Shares, with
      <4> QED
        BY <2>2, <4>2
    <3>4. CASE o < j
      <4>1. r[o] = s[o]
        BY <1>3, <1>6, <2>2, <3>4
      <4> QED
        BY <2>1, <2>2, <2>3, <3>2, <4>1
    <3>5. CASE o = j
      <4>6. q \in (j + 1)..n /\ q \in Int
        BY <2>1
      <4>7. j \in 1..(n - 1) /\ j + 1 \in 1..n /\ j + 1 > j /\ j < n /\ j + 1 \in (j + 1)..q
            /\ j >= j
        BY <1>18, <4>6
      <4>1. j \in 1..(n - 1) /\ j + 1 \in 1..n /\ r[j] = rest[j + 1] /\ j + 1 > j /\ j < n
            /\ j + 1 \in (j + 1)..q
        BY <1>6, <4>7
      <4>2. s[j + 1].share > 0
        BY <2>5, <4>1 DEF Shares, with
      <4>3. Handed(s, j)
        BY <2>2, <3>5, <4>1, <4>2 DEF Handed, n, s
      <4>4. with(j + 1)
        <5>1. j + 1 \in (j + 1)..n /\ ~(j + 1 > j + 1)
          BY <1>3, <4>1
        <5> QED
          BY <1>7, <4>2, <5>1
      <4>5. rest[j + 1].msg = s[j].msg
        BY <1>4, <4>1, <4>3, <4>4
      <4> QED
        BY <2>1, <2>2, <2>3, <3>2, <3>5, <4>1, <4>5
    <3> QED
      BY <1>3, <2>2, <3>3, <3>4, <3>5
  <2> QED
    BY <2>1, <2>4, <2>5
<1>15. Inserted(new, j, old[j], old) /\ j \in 1..(Len(new) + 1)
  BY <1>3, <1>10, <1>13, <1>14 DEF Inserted
<1>16. Contact!Ordered(new)
  BY <1>1, <1>10, <1>15, TextTaken
<1>17. ASSUME NEW k \in 1..(n - 1) PROVE r[k].len = Space(new[k])
  <2>1. CASE k < j
    <3>1. k \in 1..(j - 1) /\ k \in 1..n
      BY <1>18, <2>1
    <3>2. r[k] = s[k]
      BY <1>6, <2>1
    <3> QED
      BY <1>1, <1>13, <3>1, <3>2
  <2>2. CASE k >= j
    <3>1. k \in j..(n - 1) /\ k + 1 \in 1..n /\ r[k] = rest[k + 1] /\ k + 1 > j
      BY <1>3, <1>6, <2>2
    <3>2. rest[k + 1].len = s[k + 1].len
      BY <1>4, <3>1
    <3> QED
      BY <1>1, <1>14, <3>1, <3>2
  <2> QED
    BY <1>3, <2>1, <2>2
<1> QED
  BY <1>3, <1>9, <1>16, <1>17 DEF new

\* What is handed over stays: the others take no more and no less.
LEMMA RestSum ==
  ASSUME NEW d, Contact!Sound(d), NEW j \in 1..Len(d.recs)
  PROVE  Sum(Lens(ContactSize, Rest(d.recs, j)))
           = Sum(Lens(ContactSize, d.recs)) + (IF Handed(d.recs, j) THEN d.recs[j].len ELSE 0)
<1> DEFINE s == d.recs
           n == Len(s)
           t == Rest(s, j)
           a == Lens(ContactSize, s)
           b == Lens(ContactSize, t)
           old == Contact!Shown(s)
<1>1. /\ s \in Seq(Contact!Stored) /\ n \in Nat /\ Contact!OffsetsLead(s) /\ Steps(s)
      /\ \A k \in 1..n : s[k] \in Contact!Stored /\ s[k].share \in Nat
      /\ \A k \in 1..n : s[k].len = Space(old[k])
  BY ContactSoundType, ContactStored
<1>2. t \in Seq(Contact!Stored) /\ Len(t) = n
  BY <1>1, RestType
<1>3. ASSUME NEW k \in 1..n
      PROVE  /\ t[k] \in Contact!Stored
             /\ k <= j \/ ~Shares(s, j, k) => t[k] = s[k]
             /\ k > j /\ Shares(s, j, k)
                  => /\ s[k].share > 0 /\ s[k].share \in Nat
                     /\ t[k].share = s[k].share - 1 /\ t[k].len = s[k].len
  BY <1>1, RestIs
<1>4. ASSUME NEW k \in 1..n
      PROVE  /\ k - s[k].share \in 1..k
             /\ old[k] = s[k - s[k].share].msg
             /\ s[k].share = 0 \/ (k > 1 /\ s[k].share = s[k - 1].share + 1)
  BY <1>1, LeadTo DEF Steps
<1>11. j \in 1..n
  OBVIOUS
<1> HIDE DEF s, n, t
<1>5. /\ a \in Seq(Int) /\ b \in Seq(Int) /\ Len(a) = n /\ Len(b) = n
      /\ \A k \in 1..n : a[k] = ContactSize[s[k]] /\ b[k] = ContactSize[t[k]]
  BY <1>1, <1>2, ContactTakes, LensType DEF n
<1>6. ASSUME NEW k \in 1..n
      PROVE  /\ a[k] = 11 + (IF s[k].share = 0 THEN s[k].len ELSE 0)
             /\ b[k] = 11 + (IF t[k].share = 0 THEN t[k].len ELSE 0)
             /\ s[k].len \in Nat
  <2>1. s[k] \in Contact!Stored /\ t[k] \in Contact!Stored
    BY <1>1, <1>3
  <2>2. a[k] = ContactSize[s[k]] /\ b[k] = ContactSize[t[k]]
    BY <1>5
  <2>3. s[k].len \in Nat /\ ContactSize[s[k]] = 11 + (IF s[k].share = 0 THEN s[k].len ELSE 0)
    BY <2>1, ContactStored
  <2>4. ContactSize[t[k]] = 11 + (IF t[k].share = 0 THEN t[k].len ELSE 0)
    BY <2>1, ContactStored
  <2> QED
    BY <2>2, <2>3, <2>4
<1> HIDE DEF a, b, old
<1>7. ASSUME NEW k \in 1..n, k # j + 1 PROVE b[k] = a[k]
  <2>1. CASE k <= j \/ ~Shares(s, j, k)
    BY <1>3, <1>6, <2>1
  <2>2. CASE ~(k <= j \/ ~Shares(s, j, k))
    <3>1. k > j + 1 /\ k - 1 \in (j + 1)..k /\ k - 1 \in 1..n /\ k > j /\ Shares(s, j, k)
      BY <1>1, <1>7, <2>2 DEF n
    <3>2. s[k - 1].share > 0 /\ s[k - 1].share \in Nat
      BY <1>1, <3>1 DEF Shares
    <3>3. s[k].share = s[k - 1].share + 1 /\ t[k].share = s[k].share - 1
      BY <1>1, <1>3, <1>4, <3>1
    <3>4. s[k].share # 0 /\ t[k].share # 0
      BY <3>2, <3>3
    <3> QED
      BY <1>6, <3>4
  <2> QED
    BY <2>1, <2>2
<1> DEFINE more == IF Handed(s, j) THEN s[j].len ELSE 0
<1>8. ASSUME j < n PROVE b[j + 1] = a[j + 1] + more
  <2>1. j + 1 \in 1..n /\ j \in 1..n /\ j + 1 > j /\ (j + 1) - 1 = j
    BY <1>1, <1>8 DEF n
  <2>2. Shares(s, j, j + 1) <=> s[j + 1].share > 0
    <3>1. (j + 1)..(j + 1) = {j + 1}
      BY <2>1
    <3> QED
      BY <3>1 DEF Shares
  <2>3. CASE Handed(s, j)
    <3>1. s[j].share = 0 /\ s[j + 1].share > 0 /\ more = s[j].len
      BY <2>3 DEF Handed
    <3>2. s[j + 1].share = 1
      BY <1>1, <1>4, <2>1, <3>1
    <3>3. old[j + 1] = s[j].msg /\ old[j] = s[j].msg
      BY <1>4, <2>1, <3>1, <3>2
    <3>4. s[j + 1].len = s[j].len
      BY <1>1, <2>1, <3>3
    <3>5. t[j + 1].share = 0 /\ t[j + 1].len = s[j].len
      BY <1>3, <2>1, <2>2, <3>1, <3>2, <3>4
    <3> HIDE DEF more
    <3>6. a[j + 1] = 11 /\ b[j + 1] = 11 + s[j].len /\ s[j].len \in Nat
      BY <1>6, <2>1, <3>2, <3>5
    <3> QED
      BY <3>1, <3>6
  <2>4. CASE ~Handed(s, j)
    <3>1. more = 0
      BY <2>4
    <3>2. b[j + 1] = a[j + 1]
      <4>1. CASE ~Shares(s, j, j + 1)
        BY <1>3, <1>6, <2>1, <4>1
      <4>2. CASE Shares(s, j, j + 1)
        <5>1. s[j + 1].share > 0 /\ s[j].share # 0 /\ s[j].share \in Nat
          BY <1>1, <1>8, <2>1, <2>2, <2>4, <4>2 DEF Handed, n
        <5>2. s[j + 1].share = s[j].share + 1 /\ t[j + 1].share = s[j + 1].share - 1
          BY <1>1, <1>3, <1>4, <2>1, <4>2, <5>1
        <5>3. s[j + 1].share # 0 /\ t[j + 1].share # 0
          BY <5>1, <5>2
        <5> QED
          BY <1>6, <2>1, <5>3
      <4> QED
        BY <4>1, <4>2
    <3>3. a[j + 1] \in Int
      BY <1>6, <2>1
    <3> QED
      BY <3>1, <3>2, <3>3
  <2> QED
    BY <2>3, <2>4
<1>9. Sum(a) \in Int /\ more \in Nat
  <2>1. Sum(a) \in Nat
    BY <1>1, ContactTakes, LensType DEF a
  <2>2. s[j].len \in Nat
    BY <1>6 DEF n, s
  <2> QED
    BY <2>1, <2>2
<1>10. Sum(b) = Sum(a) + more
  <2>1. CASE j < n
    <3> DEFINE k == j + 1
    <3>1. k \in 1..n /\ b[k] = a[k] + more
      BY <1>1, <1>8, <2>1 DEF n
    <3>2. \A i \in 1..n : i # k => b[i] = a[i]
      BY <1>7
    <3>4. a[k] \in Int
      BY <1>6, <3>1
    <3> HIDE DEF k, more
    <3>3. Sum(b) = Sum(a) - a[k] + b[k]
      BY <1>5, <3>1, <3>2, SumReplaced
    <3> QED
      BY <1>9, <3>1, <3>3, <3>4
  <2>2. CASE ~(j < n)
    <3>1. j = n
      BY <1>1, <1>11, <2>2
    <3>2. \A k \in 1..n : b[k] = a[k]
      BY <1>1, <1>7, <3>1
    <3>3. b = a
      <4>1. a = [k \in 1..n |-> a[k]] /\ b = [k \in 1..n |-> b[k]]
        BY <1>5
      <4> QED
        BY <3>2, <4>1
    <3>4. more = 0
      BY <1>1, <3>1 DEF Handed, n
    <3> QED
      BY <1>9, <3>3, <3>4
  <2> QED
    BY <2>1, <2>2
<1> QED
  BY <1>10 DEF a, b, t, s

LEMMA ContactDelIs ==
  ASSUME NEW d, Contact!Sound(d), NEW i \in Int, ~(i < 0 \/ i >= Len(d.recs))
  PROVE  LET s == d.recs
             j == i + 1
         IN Contact!del_contact(d, i)
              = [recs |-> RemoveAt(Rest(s, j), j),
                 hdr |-> [Contact!WithSize(d.hdr, Len(Rest(s, j)) - 1,
                                           d.hdr.db_size - 2 - Contact!Size(s[j]))
                             EXCEPT !.lost = @ + IF Handed(s, j) THEN s[j].len ELSE 0]]
  BY ContactSame DEF Contact!del_contact, Rest, Shares, Handed

LEMMA ContactDel ==
  ASSUME NEW d, Contact!Sound(d), NEW i \in Int
  PROVE  Contact!Sound(Contact!del_contact(d, i))
<1>1. CASE i < 0 \/ i >= Len(d.recs)
  BY <1>1 DEF Contact!del_contact
<1>2. CASE ~(i < 0 \/ i >= Len(d.recs))
  <2> DEFINE s == d.recs
             j == i + 1
             t == Rest(s, j)
             r == RemoveAt(t, j)
             e == s[j]
             more == IF Handed(s, j) THEN s[j].len ELSE 0
             n == Len(t) - 1
             size == d.hdr.db_size - 2 - Contact!Size(e)
             w == Contact!WithSize(d.hdr, n, size)
             hdr == [w EXCEPT !.lost = @ + more]
  <2>1. /\ s \in Seq(Contact!Stored) /\ Len(s) \in Nat /\ d.hdr \in Contact!Hdrs
        /\ \A k \in 1..Len(s) : s[k] \in Contact!Stored
        /\ d.hdr.db_size + d.hdr.lost = 7 + 2 * Len(s) + Sum(Lens(ContactSize, s))
    BY ContactSoundType
  <2>2. j \in 1..Len(s)
    BY <1>2, <2>1
  <2>3. Contact!del_contact(d, i) = [recs |-> r, hdr |-> hdr]
    BY <1>2, ContactDelIs
  <2> HIDE DEF j
  <2>4. /\ t \in Seq(Contact!Stored) /\ Len(t) = Len(s) /\ t[j] = e /\ e \in Contact!Stored
    <3>1. j <= j
      BY <2>1, <2>2
    <3> QED
      BY <2>1, <2>2, <3>1, RestType, RestIs
  <2>5. Sum(Lens(ContactSize, t)) = Sum(Lens(ContactSize, s)) + more
    BY <2>2, RestSum
  <2>6. /\ Sum(Lens(ContactSize, s)) \in Nat /\ ContactSize[e] = Contact!Size(e)
        /\ Contact!Size(e) \in Nat /\ e.len \in Nat
    <3> HIDE DEF s, e
    <3> QED
      BY <2>1, <2>4, ContactTakes, LensType, ContactStored
  <2>7. r \in Seq(Contact!Stored) /\ Inserted(r, j, t[j], t)
    <3> HIDE DEF t
    <3> QED
      BY <2>2, <2>4, RemoveAtTakes
  <2>8. Len(t) = Len(r) + 1 /\ Len(r) \in Nat /\ j \in 1..(Len(r) + 1)
    <3>1. Len(t) = Len(r) + 1 /\ Len(r) \in Nat
      BY <2>7 DEF Inserted
    <3> QED
      BY <2>2, <2>4, <3>1
  <2>9. /\ Contact!OffsetsLead(r) /\ Contact!Ordered(Contact!Shown(r))
        /\ \A k \in 1..Len(r) : r[k].len = Space(Contact!Shown(r)[k])
    <3> HIDE DEF r
    <3> QED
      BY <2>2, <2>7, ContactTake
  <2>10. Sum(Lens(ContactSize, t)) = Sum(Lens(ContactSize, r)) + Contact!Size(e)
    <3>1. Sum(Lens(ContactSize, t)) = Sum(Lens(ContactSize, r)) + ContactSize[e]
      <4> HIDE DEF t, e, r
      <4> QED
        BY <2>4, <2>7, <2>8, ContactTakes, LensPut
    <3> QED
      BY <2>6, <3>1
  <2>11. Sum(Lens(ContactSize, r)) \in Nat
    <3> HIDE DEF r
    <3> QED
      BY <2>7, ContactTakes, LensType
  <2>12. more \in Nat
    BY <2>6
  <2>13. d.hdr.db_size \in Int /\ d.hdr.lost \in Nat
    BY <2>1 DEF Contact!Hdrs
  <2> HIDE DEF s, t, e, more, r
  <2>14. n \in Nat /\ size \in Int /\ n = Len(r)
    BY <2>6, <2>8, <2>13
  <2> HIDE DEF n
  <2>15. /\ w \in Contact!Hdrs /\ w.num_recs = n /\ w.db_size = size /\ w.lost = d.hdr.lost
    <3>1. w = Contact!WithSize(d.hdr, n, size)
      OBVIOUS
    <3> HIDE DEF size, w
    <3>2. d.hdr \in Contact!Hdrs
      BY <2>1
    <3>3. n \in Nat
      BY <2>14
    <3>4. size \in Int
      BY <2>14
    <3> QED
      BY <3>1, <3>2, <3>3, <3>4, ContactHeader
  <2> HIDE DEF w
  <2>16. /\ hdr \in Contact!Hdrs /\ hdr.num_recs = Len(r) /\ hdr.db_size = size
         /\ hdr.lost = d.hdr.lost + more
    <3>1. hdr = [w EXCEPT !.lost = @ + more]
      OBVIOUS
    <3> HIDE DEF hdr, size
    <3> QED
      BY <2>12, <2>14, <2>15, <3>1, ContactLost
  <2> HIDE DEF hdr
  <2>17. hdr.db_size + hdr.lost = 7 + 2 * Len(r) + Sum(Lens(ContactSize, r))
    <3> DEFINE a == d.hdr.db_size
               b == d.hdr.lost
               z == Contact!Size(e)
               p == Sum(Lens(ContactSize, s))
               q == Sum(Lens(ContactSize, r))
               m == Len(r)
    <3>1. hdr.db_size = a - 2 - z /\ hdr.lost = b + more
      BY <2>16
    <3>2. p + more = q + z
      BY <2>5, <2>10
    <3>3. a + b = 7 + 2 * (m + 1) + p
      BY <2>1, <2>4, <2>8
    <3>4. /\ a \in Int /\ b \in Int /\ z \in Int /\ p \in Int /\ q \in Int /\ m \in Int
          /\ more \in Int
      BY <2>6, <2>8, <2>11, <2>12, <2>13
    <3> HIDE DEF a, b, z, p, q, m
    <3>5. (a - 2 - z) + (b + more) = 7 + 2 * m + q
      BY <3>2, <3>3, <3>4
    <3> QED
      BY <3>1, <3>5 DEF m, q
  <2>18. Contact!Sound([recs |-> r, hdr |-> hdr])
    BY <2>7, <2>9, <2>16, <2>17, ContactSized
  <2> QED
    BY <2>3, <2>18
<1> QED
  BY <1>1, <1>2


LEMMA ContactFind ==
  ASSUME NEW d, Contact!Sound(d), NEW c
  PROVE  Contact!find_contact(d, c) \in Int
<1> DEFINE I == {j \in DOMAIN d.recs : Contact!Line(d.recs, j) = c}
<1>1. DOMAIN d.recs = 1..Len(d.recs)
  BY ContactSoundType
<1>2. I \in SUBSET Nat /\ \A j \in I : j \in Int
  BY <1>1
<1>3. Contact!find_contact(d, c) = IF I = {} THEN -1 ELSE Min(I) - 1
  BY ContactSame DEF Contact!find_contact
<1> HIDE DEF I
<1>4. I # {} => Min(I) \in Int
  BY <1>2, FirstPlace
<1>5. CASE I = {}
  BY <1>3, <1>5
<1>6. CASE I # {}
  BY <1>3, <1>4, <1>6
<1> QED
  BY <1>5, <1>6

LEMMA ContactFiles ==
  ASSUME NEW d, Contact!Sound(d), NEW c \in Contact!Lines
  PROVE  /\ Contact!Sound(Contact!add_contact_file(d, c))
         /\ Contact!Sound(Contact!del_contact_file(d, c))
<1>1. Contact!Sound(Contact!add_contact_file(d, c))
  BY ContactAdd DEF Contact!add_contact_file
<1>2. Contact!Sound(Contact!del_contact_file(d, c))
  BY ContactFind, ContactDel DEF Contact!del_contact_file
<1> QED
  BY <1>1, <1>2

LEMMA ContactNew == Contact!Sound(Contact!init_contact) /\ Contact!init_contact.hdr \in Contact!Hdrs
<1> DEFINE a == alloc(7)
           h == [num_recs |-> 0, db_size |-> 7, alloc_size |-> a, lost |-> 0]
           s == << >>
<1>1. Contact!init_contact = [recs |-> s, hdr |-> h]
  BY ContactSame DEF Contact!init_contact, Contact!HDR
<1>2. a \in Int
  BY AllocIsInt
<1> HIDE DEF a
<1>3. h \in Contact!Hdrs
  BY <1>2 DEF Contact!Hdrs
<1>4. h.num_recs = 0 /\ h.db_size = 7 /\ h.lost = 0
  OBVIOUS
<1>5. s \in Seq(Contact!Stored) /\ Len(s) = 0 /\ DOMAIN s = {}
  OBVIOUS
<1>6. Sum(Lens(ContactSize, s)) = 0
  BY LensEmpty
<1>7. Contact!Shown(s) = << >>
  BY DEF Contact!Shown
<1> HIDE DEF h
<1>8. Contact!OffsetsLead(s) /\ Contact!Ordered(Contact!Shown(s))
  BY <1>5, <1>7 DEF Contact!OffsetsLead, Contact!Ordered
<1> HIDE DEF s
<1>9. /\ h.num_recs = Len(s) /\ h.db_size + h.lost = 7 + 2 * Len(s) + Sum(Lens(ContactSize, s))
      /\ \A j \in 1..Len(s) : s[j].len = Space(Contact!Shown(s)[j])
  BY <1>4, <1>5, <1>6
<1>10. Contact!Sound([recs |-> s, hdr |-> h])
  BY <1>3, <1>5, <1>8, <1>9, ContactSized
<1>11. Contact!init_contact.hdr = h
  BY <1>1
<1> QED
  BY <1>1, <1>3, <1>10, <1>11

\* while(!del_contact(&db, 0))
LEMMA ContactEmptied ==
  ASSUME NEW d, Contact!Sound(d), NEW N \in Nat
  PROVE  Contact!Sound(Contact!FirstsDeleted(Contact!del_contact, d, N))
<1> DEFINE D == {e \in [recs : Seq(Contact!Stored), hdr : Contact!Hdrs] : Contact!Sound(e)}
           g == [k \in 1..N |-> [e \in D |-> Contact!del_contact(e, 0)]]
           Body(h) == [n \in 0..N |-> IF n = 0 THEN d ELSE Contact!del_contact(h[n - 1], 0)]
           after == CHOOSE h : h = Body(h)
<1>1. \A e : e \in D <=> Contact!Sound(e)
  BY DEF Contact!Sound
<1> HIDE DEF D
<1>2. \A e \in D : Contact!del_contact(e, 0) \in D
  BY <1>1, ContactDel
<1>3. g \in [1..N -> [D -> D]]
  BY <1>2
<1>4. PICK f : Recurs(f, D, N, d, g)
  <2> HIDE DEF g
  <2> QED
    BY <1>1, <1>3, Recursion
<1>5. f = Body(f)
  <2>1. ASSUME NEW n \in 0..N, n # 0
        PROVE  g[n][f[n - 1]] = Contact!del_contact(f[n - 1], 0)
    <3>1. n \in 1..N /\ n - 1 \in 0..N
      BY <2>1
    <3>2. f[n - 1] \in D
      BY <1>4, <3>1 DEF Recurs
    <3> QED
      BY <3>1, <3>2
  <2> HIDE DEF g
  <2> QED
    BY <1>4, <2>1 DEF Recurs
<1>6. after = Body(after)
  BY <1>5
<1>7. Contact!FirstsDeleted(Contact!del_contact, d, N) = after[N]
  BY DEF Contact!FirstsDeleted
<1>8. \A n \in 0..N : after[n] = IF n = 0 THEN d ELSE Contact!del_contact(after[n - 1], 0)
  <2> HIDE DEF after
  <2> QED
    BY <1>6
<1> HIDE DEF after
<1>9. after[0] \in D
  BY <1>1, <1>8
<1>10. ASSUME NEW n \in 1..N, after[n - 1] \in D PROVE after[n] \in D
  <2>1. after[n] = Contact!del_contact(after[n - 1], 0)
    BY <1>8
  <2> QED
    BY <1>2, <1>10, <2>1
<1>11. \A n \in 0..N : after[n] \in D
  BY <1>9, <1>10, HandedOn
<1> QED
  BY <1>1, <1>7, <1>11

LEMMA ContactSpread ==
  ASSUME NEW d, Contact!Sound(d)
  PROVE  Contact!create_contact(d) = Spread(d.hdr, 7, d.recs, ContactSize)
<1>1. d.recs \in Seq(Contact!Stored)
  BY ContactSoundType
<1>2. \A j \in DOMAIN d.recs : d.recs[j] \in Contact!Stored
  BY <1>1
<1>3. [j \in DOMAIN d.recs |-> Contact!Size(d.recs[j])] = Lens(ContactSize, d.recs)
  BY <1>2, ContactStored DEF Lens
<1>4. \A start, lens : Contact!Offsets(start, lens) = Offsets(start, lens)
  BY ContactSame DEF Contact!Offsets, Offsets
<1> DEFINE lens == [j \in DOMAIN d.recs |-> Contact!Size(d.recs[j])]
           off == Contact!Offsets(7 + 2 * d.hdr.num_recs, lens)
<1>5. Contact!create_contact(d)
        = [hdr |-> d.hdr, off |-> off,
           at |-> [o \in Contact!Range(off) |->
                      d.recs[CHOOSE j \in DOMAIN d.recs : off[j] = o]]]
  BY DEF Contact!create_contact, Contact!Table, Contact!HDR
<1>6. off = Offsets(7 + 2 * d.hdr.num_recs, Lens(ContactSize, d.recs))
  BY <1>3, <1>4
<1>8. Spread(d.hdr, 7, d.recs, ContactSize)
        = [hdr |-> d.hdr, off |-> off,
           at |-> [o \in Range(off) |-> d.recs[CHOOSE j \in DOMAIN d.recs : off[j] = o]]]
  <2> HIDE DEF off
  <2> QED
    BY <1>6 DEF Spread
<1> HIDE DEF off
<1>7. Contact!Range(off) = Range(off)
  BY ContactSame
<1> QED
  BY <1>5, <1>7, <1>8

LEMMA ContactReads ==
  ASSUME NEW d, Contact!Sound(d)
  PROVE  Contact!read_contact(Contact!create_contact(d)) = d
<1> DEFINE im == Spread(d.hdr, 7, d.recs, ContactSize)
<1>1. /\ d = [recs |-> d.recs, hdr |-> d.hdr] /\ d.hdr.num_recs = Len(d.recs)
      /\ d.recs \in Seq(Contact!Stored)
  BY ContactSoundType
<1>2. Contact!create_contact(d) = im
  BY ContactSpread
<1>3. Listed(im) = d.recs
  BY <1>1, ContactTakes, SpreadReadBack
<1>4. im.hdr = d.hdr
  BY DEF Spread
<1> HIDE DEF im
<1>5. Contact!read_contact(im) = [hdr |-> d.hdr, recs |-> d.recs]
  BY <1>3, <1>4, ContactSame DEF Contact!read_contact
<1> QED
  BY <1>1, <1>2, <1>5

\* SoundInv of the next state, from what is stored and held there.
LEMMA ContactNextState ==
  ASSUME Contact!Sound(Contact!read_contact(image')),
         image' = Contact!create_contact(Contact!read_contact(image')),
         image'.hdr.db_size + image'.hdr.lost <= image'.hdr.alloc_size,
         IF prog' \in {"add", "del", "new"} THEN Contact!Sound(db') ELSE db' = Contact!Closed
  PROVE  Contact!SoundInv'
  BY DEF Contact!SoundInv, Contact!Holding

LEMMA ContactEdits ==
  ASSUME Contact!SoundInv, UNCHANGED image,
         IF prog' \in {"add", "del", "new"} THEN Contact!Sound(db') ELSE db' = Contact!Closed
  PROVE  Contact!SoundInv'
<1>1. /\ Contact!Sound(Contact!read_contact(image))
      /\ image = Contact!create_contact(Contact!read_contact(image))
      /\ image.hdr.db_size + image.hdr.lost <= image.hdr.alloc_size
  BY DEF Contact!SoundInv
<1>2. image' = image
  OBVIOUS
<1> QED
  BY <1>1, <1>2, ContactNextState

LEMMA ContactHolds ==
  ASSUME Contact!SoundInv, prog \in {"add", "del", "new"}
  PROVE  Contact!Sound(db)
  BY DEF Contact!SoundInv, Contact!Holding

\* Only what the memory is large enough for is stored.
LEMMA ContactSaves ==
  ASSUME Contact!SoundInv, Contact!Save
  PROVE  Contact!SoundInv'
<1>1. prog \in {"add", "del", "new"}
  BY DEF Contact!Save, Contact!Holding
<1>2. Contact!Sound(db)
  BY <1>1, ContactHolds
<1>3. CASE Contact!Extent(db.hdr, Contact!HDR, db.recs, Contact!Size) <= db.hdr.alloc_size
  <2>1. image' = Contact!create_contact(db) /\ prog' = "closed" /\ db' = Contact!Closed
    BY <1>3 DEF Contact!Save, Contact!Saves
  <2>2. Contact!read_contact(image') = db
    BY <1>2, <2>1, ContactReads
  <2>3. image'.hdr = db.hdr
    BY <2>2 DEF Contact!read_contact
  <2>4. db.hdr.db_size + db.hdr.lost <= db.hdr.alloc_size
    BY <1>2, <1>3 DEF Contact!Sound
  <2>5. image'.hdr.db_size + image'.hdr.lost <= image'.hdr.alloc_size
    BY <2>3, <2>4
  <2>6. /\ Contact!Sound(Contact!read_contact(image'))
        /\ image' = Contact!create_contact(Contact!read_contact(image'))
    BY <1>2, <2>1, <2>2
  <2> QED
    BY <2>1, <2>5, <2>6, ContactNextState
<1>4. CASE ~(Contact!Extent(db.hdr, Contact!HDR, db.recs, Contact!Size) <= db.hdr.alloc_size)
  <2>1. UNCHANGED image /\ prog' = "dead" /\ db' = Contact!Closed
    BY <1>4 DEF Contact!Save, Contact!Stops
  <2> QED
    BY <2>1, ContactEdits
<1> QED
  BY <1>3, <1>4

LEMMA ContactNext ==
  ASSUME Contact!SoundInv, Contact!Next
  PROVE  Contact!SoundInv'
<1>1. CASE Contact!Open
  <2>1. /\ db' = Contact!read_contact(image) /\ UNCHANGED image
        /\ prog' \in {"add", "del", "new"}
    BY <1>1 DEF Contact!Open, Contact!Opens
  <2>2. Contact!Sound(db')
    BY <2>1 DEF Contact!SoundInv
  <2> QED
    BY <2>1, <2>2, ContactEdits
<1>2. CASE Contact!Create
  <2>1. /\ db' = Contact!init_contact /\ UNCHANGED image
        /\ prog' \in {"add", "del", "new"}
    BY <1>2 DEF Contact!Create, Contact!Creates
  <2>2. Contact!Sound(db')
    BY <2>1, ContactNew
  <2> QED
    BY <2>1, <2>2, ContactEdits
<1>3. CASE Contact!AddLine
  <2>1. PICK c \in Contacts :
           /\ db' = Contact!add_contact_file(db, c) /\ UNCHANGED image
           /\ prog \in {"add", "del", "new"} /\ prog' = prog
    BY <1>3 DEF Contact!AddLine, Contact!Edits, Contact!Adders
  <2>2. Contact!Sound(db')
    BY <2>1, ContactsAssumption, ContactHolds, ContactFiles
  <2> QED
    BY <2>1, <2>2, ContactEdits
<1>4. CASE Contact!DelLine
  <2>1. PICK c \in Contacts :
           /\ db' = Contact!del_contact_file(db, c) /\ UNCHANGED image
           /\ prog \in {"add", "del", "new"} /\ prog' = prog
    BY <1>4 DEF Contact!DelLine, Contact!Edits
  <2>2. Contact!Sound(db')
    BY <2>1, ContactsAssumption, ContactHolds, ContactFiles
  <2> QED
    BY <2>1, <2>2, ContactEdits
<1>5. CASE Contact!DeleteAll
  <2>1. /\ db' = Contact!FirstsDeleted(Contact!del_contact, db, Len(db.recs))
        /\ UNCHANGED image /\ prog \in {"add", "del", "new"} /\ prog' = prog
    BY <1>5 DEF Contact!DeleteAll, Contact!Edits
  <2>2. Contact!Sound(db)
    BY <2>1, ContactHolds
  <2>3. Len(db.recs) \in Nat
    BY <2>2, ContactSoundType
  <2>4. Contact!Sound(db')
    BY <2>1, <2>2, <2>3, ContactEmptied
  <2> QED
    BY <2>1, <2>4, ContactEdits
<1>6. CASE Contact!Leave
  <2>1. UNCHANGED image /\ prog' = "closed" /\ db' = Contact!Closed
    BY <1>6 DEF Contact!Leave, Contact!Quit, Contact!Stops
  <2> QED
    BY <2>1, ContactEdits
<1> QED
  BY <1>1, <1>2, <1>3, <1>4, <1>5, <1>6, ContactSaves DEF Contact!Next


-----------------------------------------------------------------------------
(* What the watch has at the start *)

\* The distance of each contact from the one that owns its text.
Distances(lines, shared, share) ==
    /\ share \in [1..Len(lines) -> Nat]
    /\ \A j \in 1..Len(lines) :
          share[j] = IF shared /\ j > 1 /\ lines[j - 1].msg = lines[j].msg
                     THEN share[j - 1] + 1 ELSE 0

LEMMA ForeignShares ==
  ASSUME NEW lines \in Seq(Contact!Lines), NEW shared
  PROVE  Distances(lines, shared,
           CHOOSE f : f = [j \in DOMAIN lines |->
                             IF shared /\ j > 1 /\ lines[j - 1].msg = lines[j].msg
                             THEN f[j - 1] + 1 ELSE 0])
<1> DEFINE k == Len(lines)
           Same(j) == shared /\ j > 1 /\ lines[j - 1].msg = lines[j].msg
           Body(f) == [j \in DOMAIN lines |-> IF Same(j) THEN f[j - 1] + 1 ELSE 0]
           g == [n \in 1..k |-> [e \in Nat |-> IF Same(n) THEN e + 1 ELSE 0]]
           share == CHOOSE f : f = Body(f)
<1>1. k \in Nat /\ DOMAIN lines = 1..k
  OBVIOUS
<1>2. g \in [1..k -> [Nat -> Nat]]
  OBVIOUS
<1>3. \A n \in 1..k : \A e \in Nat : g[n][e] = IF Same(n) THEN e + 1 ELSE 0
  OBVIOUS
<1>4. \A j : Same(j) => j > 1
  OBVIOUS
<1> HIDE DEF g, Same, k
<1>5. PICK f : Recurs(f, Nat, k, 0, g)
  BY <1>1, <1>2, Recursion
<1>6. /\ f = [n \in 0..k |-> IF n = 0 THEN 0 ELSE g[n][f[n - 1]]]
      /\ \A n \in 0..k : f[n] \in Nat
  BY <1>5 DEF Recurs
<1> DEFINE h == [j \in 1..k |-> f[j]]
<1>7. ASSUME NEW j \in 1..k
      PROVE  h[j] = IF Same(j) THEN h[j - 1] + 1 ELSE 0
  <2>1. j \in 0..k /\ j - 1 \in 0..k /\ j # 0
    BY <1>1
  <2>2. f[j] = g[j][f[j - 1]] /\ f[j - 1] \in Nat
    BY <1>6, <2>1
  <2>3. f[j] = IF Same(j) THEN f[j - 1] + 1 ELSE 0
    BY <1>3, <2>2
  <2>4. Same(j) => j - 1 \in 1..k
    BY <1>1, <1>4
  <2> QED
    BY <2>3, <2>4
<1>8. h = Body(h)
  <2>1. h = [j \in 1..k |-> h[j]]
    OBVIOUS
  <2> HIDE DEF h
  <2> QED
    BY <1>1, <1>7, <2>1
<1>9. share = Body(share)
  <2> HIDE DEF h
  <2> QED
    BY <1>8
<1> HIDE DEF share
<1>10. \A j \in 1..k : share[j] = IF Same(j) THEN share[j - 1] + 1 ELSE 0
  BY <1>1, <1>9
<1>11. \A j \in 0..k : j > 0 => share[j] \in Nat
  <2> DEFINE T == {j \in 0..k : j > 0 => share[j] \in Nat}
  <2>1. 0 \in T
    BY <1>1
  <2>2. ASSUME NEW j \in 1..k, j - 1 \in T PROVE j \in T
    <3>1. CASE Same(j)
      <4>1. j - 1 > 0 /\ share[j - 1] \in Nat /\ share[j] = share[j - 1] + 1
        BY <1>1, <1>4, <1>10, <2>2, <3>1
      <4> QED
        BY <1>1, <4>1
    <3>2. CASE ~Same(j)
      <4>1. share[j] = 0
        BY <1>10, <3>2
      <4> QED
        BY <1>1, <4>1
    <3> QED
      BY <3>1, <3>2
  <2> HIDE DEF T
  <2>3. 0..k \subseteq T
    BY <1>1, <2>1, <2>2, InductiveUpTo
  <2> QED
    BY <2>3 DEF T
<1>12. share = [j \in 1..k |-> share[j]]
  <2>1. share = [j \in 1..k |-> IF Same(j) THEN share[j - 1] + 1 ELSE 0]
    BY <1>1, <1>9
  <2> QED
    BY <2>1
<1>13. share \in [1..k -> Nat]
  <2>1. \A j \in 1..k : share[j] \in Nat
    BY <1>1, <1>11
  <2> QED
    BY <1>12, <2>1
<1>14. Distances(lines, shared, share)
  BY <1>10, <1>13 DEF Distances, Same, k
<1> QED
  BY <1>14 DEF share, Same

\* A contact that shares takes its text from the one before.
LEMMA ForeignRecs ==
  ASSUME NEW lines \in Seq(Contact!Lines), NEW shared, NEW share,
         Distances(lines, shared, share),
         \A j \in 1..(Len(lines) - 1) : lines[j].msg <= lines[j + 1].msg,
         NEW recs, recs = [j \in DOMAIN lines |-> Contact!Rec(lines[j], share[j])]
  PROVE  /\ recs \in Seq(Contact!Stored) /\ Len(recs) = Len(lines)
         /\ Contact!OffsetsLead(recs) /\ Contact!Ordered(Contact!Shown(recs))
         /\ \A j \in 1..Len(recs) : recs[j].len = Space(Contact!Shown(recs)[j])
<1> DEFINE k == Len(lines)
           t == Contact!Shown(recs)
<1>1. k \in Nat /\ DOMAIN lines = 1..k /\ \A j \in 1..k : lines[j] \in Contact!Lines
  OBVIOUS
<1>2. ASSUME NEW j \in 1..k
      PROVE  /\ share[j] \in Nat /\ recs[j] \in Contact!Stored /\ recs[j].share = share[j]
             /\ recs[j].msg = (IF share[j] = 0 THEN lines[j].msg ELSE Contact!NoText)
             /\ recs[j].len = Space(lines[j].msg) /\ lines[j].msg \in Msgs
  <2>1. share[j] \in Nat
    BY DEF Distances
  <2>2. lines[j].msg \in Msgs /\ lines[j].who \in Nat /\ Space(lines[j].msg) \in Nat
    BY <1>1, ContactRec, SpaceOf
  <2>3. recs[j] = [msg |-> IF share[j] = 0 THEN lines[j].msg ELSE Contact!NoText,
                   len |-> Space(lines[j].msg), who |-> lines[j].who, share |-> share[j]]
    BY <1>1, ContactSame DEF Contact!Rec
  <2> QED
    BY <2>1, <2>2, <2>3 DEF Contact!Stored
<1>3. recs \in Seq(Contact!Stored) /\ Len(recs) = k
  <2>1. DOMAIN recs = 1..k /\ recs = [j \in 1..k |-> recs[j]]
    BY <1>1
  <2> HIDE DEF k
  <2>2. recs \in [1..k -> Contact!Stored]
    BY <1>2, <2>1
  <2>3. recs \in Seq(Contact!Stored)
    BY <1>1, <2>2, SeqDef
  <2> QED
    BY <1>1, <2>1, <2>3
<1>4. ASSUME NEW j \in 1..k
      PROVE  share[j] = 0 \/ (j > 1 /\ share[j] = share[j - 1] + 1
                                /\ lines[j - 1].msg = lines[j].msg)
  BY DEF Distances
<1>5. ASSUME NEW j \in 1..k, share[j] # 0
      PROVE  /\ j - 1 \in 1..k /\ share[j - 1] \in Nat /\ share[j] = share[j - 1] + 1
             /\ lines[j - 1].msg = lines[j].msg
  <2>1. j - 1 \in 1..k
    BY <1>1, <1>4, <1>5
  <2> QED
    BY <1>2, <1>4, <1>5, <2>1
<1> HIDE DEF k
<1>6. Steps(recs)
  <2>1. ASSUME NEW j \in 1..k
        PROVE  /\ recs[j].share = 0 \/ (j > 1 /\ recs[j].share = recs[j - 1].share + 1)
               /\ (recs[j].share = 0) <=> (recs[j].msg # Contact!NoText)
    <3>1. (recs[j].share = 0) <=> (recs[j].msg # Contact!NoText)
      BY <1>2, NoTextIsNone
    <3>2. CASE share[j] = 0
      BY <1>2, <3>1, <3>2
    <3>3. CASE share[j] # 0
      <4>1. j > 1 /\ j - 1 \in 1..k /\ share[j] = share[j - 1] + 1
        BY <1>1, <1>5, <3>3
      <4> QED
        BY <1>2, <3>1, <4>1
    <3> QED
      BY <3>2, <3>3
  <2> QED
    BY <1>3, <2>1 DEF Steps
<1>7. Contact!OffsetsLead(recs)
  BY <1>3, <1>6, StepsLead
<1> HIDE DEF t
<1>8. \A j \in 1..k : t[j] = recs[j - share[j]].msg /\ t[j] \in Msgs
  <2> SUFFICES ASSUME NEW j \in 1..k
               PROVE  t[j] = recs[j - share[j]].msg /\ t[j] \in Msgs
    OBVIOUS
  <2>1. recs[j].share = share[j] /\ j \in 1..Len(recs)
    BY <1>2, <1>3
  <2>2. t[j] = recs[j - recs[j].share].msg /\ t[j] \in Msgs
    BY <1>3, <1>7, <2>1, LeadTo DEF t
  <2> QED
    BY <2>1, <2>2
<1>9. \A j \in 0..k : j > 0 => t[j] = lines[j].msg
  <2> DEFINE T == {j \in 0..k : j > 0 => t[j] = lines[j].msg}
  <2>1. 0 \in T
    BY <1>1
  <2>2. ASSUME NEW j \in 1..k, j - 1 \in T PROVE j \in T
    <3>1. CASE share[j] = 0
      <4>1. j - share[j] = j
        BY <3>1
      <4>2. t[j] = lines[j].msg
        BY <1>2, <1>8, <3>1, <4>1
      <4> QED
        BY <1>1, <4>2
    <3>2. CASE share[j] # 0
      <4>1. /\ j - 1 \in 1..k /\ share[j - 1] \in Nat /\ share[j] = share[j - 1] + 1
            /\ lines[j - 1].msg = lines[j].msg
        BY <1>5, <3>2
      <4>2. j - share[j] = (j - 1) - share[j - 1]
        BY <4>1
      <4>3. t[j] = t[j - 1]
        BY <1>8, <4>1, <4>2
      <4>4. t[j - 1] = lines[j - 1].msg
        BY <2>2, <4>1
      <4> QED
        BY <1>1, <4>1, <4>3, <4>4
    <3> QED
      BY <3>1, <3>2
  <2> HIDE DEF T
  <2>3. 0..k \subseteq T
    BY <1>1, <2>1, <2>2, InductiveUpTo
  <2> QED
    BY <2>3 DEF T
<1>10. \A j \in 1..k : t[j] = lines[j].msg
  BY <1>1, <1>9
<1>11. ASSUME NEW i \in 1..k
       PROVE  \A j \in 1..k : i <= j => t[i] <= t[j]
  <2> DEFINE T == {j \in 0..k : j > 0 /\ i <= j => t[i] <= t[j]}
  <2>1. 0 \in T
    BY <1>1
  <2>2. ASSUME NEW j \in 1..k, j - 1 \in T PROVE j \in T
    <3>1. t[i] \in Nat /\ t[j] \in Nat
      BY <1>8, SpaceOf
    <3>2. CASE i = j
      BY <1>1, <3>1, <3>2
    <3>3. CASE i < j
      <4>1. j - 1 \in 1..k /\ i <= j - 1 /\ j - 1 \in 1..(k - 1)
        BY <1>1, <3>3
      <4>2. t[i] <= t[j - 1] /\ t[j - 1] \in Nat
        BY <1>8, <2>2, <4>1, SpaceOf
      <4>3. t[j - 1] <= t[j]
        <5>1. lines[j - 1].msg <= lines[(j - 1) + 1].msg /\ (j - 1) + 1 = j
          BY <4>1 DEF k
        <5> QED
          BY <1>10, <4>1, <5>1
      <4>4. t[i] <= t[j]
        BY <3>1, <4>2, <4>3
      <4> QED
        BY <1>1, <4>4
    <3>4. CASE i > j
      BY <1>1, <3>4
    <3> QED
      BY <3>2, <3>3, <3>4
  <2> HIDE DEF T
  <2>3. 0..k \subseteq T
    BY <1>1, <2>1, <2>2, InductiveUpTo
  <2>4. \A j \in 1..k : j \in T /\ j > 0
    BY <1>1, <2>3
  <2> QED
    BY <2>4 DEF T
<1>12. DOMAIN t = 1..k
  BY <1>3, <1>7, ShownType DEF t
<1>13. Contact!Ordered(t)
  <2> SUFFICES ASSUME NEW i \in 1..k, NEW j \in 1..k, i < j
               PROVE  t[i] <= t[j]
    BY <1>12 DEF Contact!Ordered
  <2> QED
    BY <1>11
<1>14. \A j \in 1..k : recs[j].len = Space(t[j])
  BY <1>2, <1>10
<1> QED
  BY <1>3, <1>7, <1>13, <1>14 DEF t, k

LEMMA ForeignSound ==
  ASSUME NEW lines \in Seq(Contact!Lines), NEW shared,
         \A j \in 1..(Len(lines) - 1) : lines[j].msg <= lines[j + 1].msg
  PROVE  \E d : /\ Contact!Sound(d) /\ Contact!Foreign(lines, shared) = Contact!create_contact(d)
                /\ d.hdr.db_size + d.hdr.lost <= d.hdr.alloc_size
<1> DEFINE share == CHOOSE f : f = [j \in DOMAIN lines |->
                                      IF shared /\ j > 1 /\ lines[j - 1].msg = lines[j].msg
                                      THEN f[j - 1] + 1 ELSE 0]
           recs == [j \in DOMAIN lines |-> Contact!Rec(lines[j], share[j])]
           k == Len(lines)
           h == [Contact!init_contact.hdr EXCEPT !.num_recs = k]
           size == Contact!Extent(h, Contact!HDR, recs, Contact!Size)
           w == Contact!WithSize(h, k, size)
           d == [recs |-> recs, hdr |-> w]
<1>1. Contact!Foreign(lines, shared) = Contact!create_contact(d)
  BY DEF Contact!Foreign
<1>2. Distances(lines, shared, share)
  BY ForeignShares
<1> HIDE DEF share
<1>3. /\ recs \in Seq(Contact!Stored) /\ Len(recs) = k
      /\ Contact!OffsetsLead(recs) /\ Contact!Ordered(Contact!Shown(recs))
      /\ \A j \in 1..Len(recs) : recs[j].len = Space(Contact!Shown(recs)[j])
  BY <1>2, ForeignRecs
<1>4. k \in Nat
  OBVIOUS
<1> HIDE DEF recs, k
<1>5. h \in Contact!Hdrs /\ h.num_recs = k /\ h.lost = 0
  <2> DEFINE z == Contact!init_contact.hdr
  <2>1. z \in Contact!Hdrs /\ z.lost = 0
    BY ContactNew DEF Contact!init_contact
  <2>2. h = [z EXCEPT !.num_recs = k]
    OBVIOUS
  <2> HIDE DEF h, z
  <2> QED
    BY <1>4, <2>1, <2>2 DEF Contact!Hdrs
<1> HIDE DEF h
<1>6. size = 7 + 2 * k + Sum(Lens(ContactSize, recs))
  BY <1>3, <1>5, ContactExtent
<1>7. Sum(Lens(ContactSize, recs)) \in Nat
  BY <1>3, ContactTakes, LensType
<1>8. size \in Nat \ {0} /\ size \in Int
  <2> HIDE DEF size
  <2> QED
    BY <1>4, <1>6, <1>7
<1> HIDE DEF size
<1>9. /\ w \in Contact!Hdrs /\ w.num_recs = k /\ w.db_size = size /\ w.alloc_size = alloc(size)
      /\ w.lost = 0
  BY <1>4, <1>5, <1>8, ContactHeader
<1> HIDE DEF w
<1>10. w.db_size + w.lost = 7 + 2 * Len(recs) + Sum(Lens(ContactSize, recs))
  BY <1>3, <1>6, <1>8, <1>9
<1>11. Contact!Sound(d)
  BY <1>3, <1>9, <1>10, ContactSized
<1>12. w.db_size + w.lost <= w.alloc_size
  BY <1>8, <1>9, AllocHolds
<1>13. d.hdr = w
  OBVIOUS
<1> HIDE DEF d
<1> QED
  BY <1>1, <1>11, <1>12, <1>13

LEMMA ContactStart ==
  ASSUME Contact!Init
  PROVE  Contact!SoundInv
<1>1. PICK k \in 0..MaxRecs : \E lines \in [1..k -> Contacts], shared \in BOOLEAN :
         /\ \A j \in 1..(k - 1) : lines[j].msg <= lines[j + 1].msg
         /\ image = Contact!Foreign(lines, shared)
  BY DEF Contact!Init, Contact!Ascending
<1>2. PICK lines \in [1..k -> Contacts], shared \in BOOLEAN :
         /\ \A j \in 1..(k - 1) : lines[j].msg <= lines[j + 1].msg
         /\ image = Contact!Foreign(lines, shared)
  BY <1>1
<1>3. lines \in Seq(Contact!Lines) /\ Len(lines) = k
  <2>1. k \in Nat /\ lines \in [1..k -> Contact!Lines]
    BY ContactsAssumption
  <2>2. lines \in Seq(Contact!Lines)
    BY <2>1, SeqDef
  <2> QED
    BY <2>1, <2>2
<1>4. PICK d : /\ Contact!Sound(d) /\ image = Contact!create_contact(d)
               /\ d.hdr.db_size + d.hdr.lost <= d.hdr.alloc_size
  BY <1>2, <1>3, ForeignSound
<1>5. Contact!read_contact(image) = d
  BY <1>4, ContactReads
<1>6. image.hdr = d.hdr
  BY <1>5 DEF Contact!read_contact
<1>7. ~Contact!Holding /\ db = Contact!Closed
  BY DEF Contact!Init, Contact!Started, Contact!Holding
<1> QED
  BY <1>4, <1>5, <1>6, <1>7 DEF Contact!SoundInv


\* The last owner met is the one the offset leads to.
LEMMA LastOwner ==
  ASSUME NEW recs \in Seq(Contact!Stored), Contact!OffsetsLead(recs), NEW j \in 1..Len(recs)
  PROVE  Contact!Max({k \in 1..j : recs[k].share = 0}) = j - recs[j].share
<1> DEFINE O == {k \in 1..j : recs[k].share = 0}
           o == j - recs[j].share
<1>1. /\ o \in 1..j /\ recs[o].share = 0
      /\ \A k \in (o + 1)..j : recs[k].share > 0
  BY LeadTo
<1> HIDE DEF o
<1>2. o \in O
  BY <1>1
<1>3. ASSUME NEW k \in O PROVE k \in Int /\ o >= k
  <2>1. k \in 1..j /\ recs[k].share = 0 /\ j \in Int /\ o \in Int
    BY <1>1
  <2>2. ~(k \in (o + 1)..j)
    BY <1>1, <2>1
  <2> QED
    BY <2>1, <2>2
<1> HIDE DEF O
<1>4. Contact!Max(O) = CHOOSE x \in O : \A y \in O : x >= y
  BY DEF Contact!Max
<1> DEFINE x == CHOOSE x \in O : \A y \in O : x >= y
<1>5. x \in O /\ \A y \in O : x >= y
  BY <1>2, <1>3
<1> HIDE DEF x
<1>6. x >= o /\ o >= x /\ x \in Int /\ o \in Int
  BY <1>1, <1>2, <1>3, <1>5
<1>7. x = o
  BY <1>6
<1> QED
  BY <1>4, <1>7 DEF x, o, O

\* The watch keeps the contacts apart, in its memory, and shows them in the order of
\* their texts; the offsets of what a program holds lead to the texts.
LEMMA ContactFits ==
  ASSUME Contact!SoundInv
  PROVE  Contact!Fits /\ Contact!InOrder /\ Contact!OffsetsLead(db.recs)
<1> DEFINE d == Contact!read_contact(image)
           s == d.recs
           pieces == {<<o, Contact!Size(image.at[o])>> : o \in DOMAIN image.at}
           size == d.hdr.db_size + d.hdr.lost
<1>1. Contact!Sound(d) /\ image = Contact!create_contact(d)
      /\ image.hdr.db_size + image.hdr.lost <= image.hdr.alloc_size
  BY DEF Contact!SoundInv
<1> HIDE DEF d
<1>2. /\ DOMAIN s = 1..Len(s) /\ Len(s) \in Nat /\ s \in Seq(Contact!Stored)
      /\ \A j \in 1..Len(s) : s[j] \in Contact!Stored
      /\ d.hdr.num_recs = Len(s) /\ d.hdr \in Contact!Hdrs
      /\ size = 7 + 2 * Len(s) + Sum(Lens(ContactSize, s))
      /\ Contact!OffsetsLead(s) /\ Contact!Ordered(Contact!Shown(s))
  BY <1>1, ContactSoundType
<1>3. image = Spread(d.hdr, 7, s, ContactSize)
  BY <1>1, ContactSpread
<1>6. size \in Nat \ {0}
  <2>1. Sum(Lens(ContactSize, s)) \in Nat
    BY <1>2, ContactTakes, LensType
  <2> HIDE DEF s, size
  <2> QED
    BY <1>2, <2>1
<1>13. d.hdr.db_size \in Int /\ d.hdr.lost \in Nat /\ d.hdr.alloc_size \in Int
  BY <1>2 DEF Contact!Hdrs
<1>14. size = d.hdr.db_size + d.hdr.lost
  OBVIOUS
<1> HIDE DEF s, size
<1>4. /\ image.hdr = d.hdr /\ DOMAIN image.off = 1..Len(s)
      /\ DOMAIN image.at = Range(image.off)
      /\ \A k \in 1..Len(s) : image.at[image.off[k]] = s[k]
  <2>1. Holds(Spread(d.hdr, 7, s, ContactSize), d.hdr, s)
    BY <1>2, ContactTakes, SpreadHolds
  <2> QED
    BY <1>3, <2>1 DEF Holds
<1>5. pieces = Contents(image, ContactSize)
  <2>1. ASSUME NEW o \in DOMAIN image.at
        PROVE  Contact!Size(image.at[o]) = ContactSize[image.at[o]]
    <3>1. PICK k \in 1..Len(s) : o = image.off[k]
      BY <1>4 DEF Range
    <3>2. image.at[o] \in Contact!Stored
      BY <1>2, <1>4, <3>1
    <3> QED
      BY <3>2, ContactStored
  <2> QED
    BY <2>1 DEF Contents
<1>7. Packed({<<7, 2 * Len(s)>>} \cup Contents(Spread(d.hdr, 7, s, ContactSize), ContactSize),
             7, size)
  <2>1. 7 + 2 * Len(s) + Sum(Lens(ContactSize, s)) <= size
    BY <1>2, <1>6
  <2> QED
    BY <1>2, <1>6, <2>1, ContactTakes, SpreadPacked
<1>8. Contact!TableFits(image, Contact!HDR, Contact!Size, image.hdr.db_size + image.hdr.lost)
  BY <1>2, <1>3, <1>4, <1>5, <1>7, <1>14, ContactSame DEF Contact!TableFits, Contact!HDR
<1>9. image.hdr.db_size <= image.hdr.alloc_size
  BY <1>1, <1>4, <1>13
<1>10. Contact!InOrder
  <2> DEFINE l == Contact!print_all_contacts(image)
  <2>1. DOMAIN l = 1..Len(s)
    BY <1>2, <1>4 DEF Contact!print_all_contacts
  <2>2. ASSUME NEW j \in 1..Len(s)
        PROVE  l[j].msg = Contact!Shown(s)[j]
    <3> DEFINE O == {k \in 1..j : image.at[image.off[k]].share = 0}
    <3>1. l[j].msg = image.at[image.off[Contact!Max(O)]].msg
      BY <1>2, <1>4 DEF Contact!print_all_contacts
    <3>2. O = {k \in 1..j : s[k].share = 0}
      <4>1. \A k \in 1..j : k \in 1..Len(s)
        BY <1>2
      <4> QED
        BY <1>4, <4>1
    <3> HIDE DEF O
    <3>3. Contact!Max(O) = j - s[j].share
      BY <1>2, <3>2, LastOwner
    <3>4. j - s[j].share \in 1..Len(s) /\ Contact!Shown(s)[j] = s[j - s[j].share].msg
      BY <1>2, LeadTo
    <3> QED
      BY <1>4, <3>1, <3>3, <3>4
  <2>3. Contact!Shown(s) = [j \in 1..Len(s) |-> Contact!Shown(s)[j]]
    BY <1>2 DEF Contact!Shown
  <2>5. Contact!InOrder = Contact!Ordered([j \in DOMAIN l |-> l[j].msg])
    BY DEF Contact!InOrder
  <2> HIDE DEF l
  <2>4. [j \in DOMAIN l |-> l[j].msg] = Contact!Shown(s)
    BY <2>1, <2>2, <2>3
  <2> QED
    BY <1>2, <2>4, <2>5
<1>11. Contact!OffsetsLead(db.recs)
  <2>1. CASE Contact!Holding
    <3>1. Contact!Sound(db)
      BY <2>1 DEF Contact!SoundInv
    <3> QED
      BY <3>1, ContactSoundType
  <2>2. CASE ~Contact!Holding
    <3>1. db.recs = << >> /\ DOMAIN db.recs = {}
      BY <2>2 DEF Contact!SoundInv, Contact!Closed
    <3> QED
      BY <3>1 DEF Contact!OffsetsLead
  <2> QED
    BY <2>1, <2>2
<1> QED
  BY <1>8, <1>9, <1>10, <1>11 DEF Contact!Fits

=============================================================================
