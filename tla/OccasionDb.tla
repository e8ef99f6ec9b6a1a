----------------------------- MODULE OccasionDb ------------------------------
(***************************************************************************)
(* Occasions (occasion.c): the recurring ones first, each part by date and *)
(* text; the header counts both parts.                                     *)
(***************************************************************************)
EXTENDS DbLists

CONSTANT Occasions   \* the data lines can give: [msg, date, type]

Here == app = "occasion"
HDR == 15

\* the types a line gives, as they are stored: an annual one has both bits set
Types == {0, 16, 49, 50, 3, 19, 4, 20}
is_occasion_recurring(t) == (t \div 16) % 2 = 1
is_occasion_annual(t) == (t \div 32) % 2 = 1

Rec(o) == [msg |-> o.msg, len |-> Space(o.msg), date |-> o.date, type |-> o.type]
Size(r) == 6 + r.len
Recurring(r) == is_occasion_recurring(r.type)

\* what read_occasion_line makes of what print_occasion prints: of the type the
\* low bits, and whether it recurs unless it is annual
Line(r) ==
    LET k == r.type % 16
        recurring == Recurring(r) /\ ~is_occasion_annual(r.type)
        type == IF k \in 1..2 THEN k + 48 ELSE k
    IN [msg |-> r.msg, date |-> r.date,
        type |-> IF recurring /\ ~is_occasion_annual(type) THEN type + 16 ELSE type]

\* what read_occasion_line accepts
Lines == [msg : Msgs, date : Nat, type : Types]

Before(a, b) == \/ a.date < b.date
                \/ a.date = b.date /\ a.msg < b.msg

WithSize(hdr, size) == [hdr EXCEPT !.db_size = size, !.alloc_size = alloc(size)]

\* one more, or one less, of the part r is in; the last indices are 16 bits
Counted(hdr, r, by) ==
    [hdr EXCEPT !.num_recs = @ + by,
                !.num_recur = IF Recurring(r) THEN @ + by ELSE @,
                !.last_recur = IF Recurring(r) THEN U16(@ + by) ELSE @,
                !.num_nonrecur = IF Recurring(r) THEN @ ELSE @ + by,
                !.last_nonrecur = U16(@ + by)]

find_occasion(d, o) ==
    SelectInSeq(d.recs, LAMBDA r : r.type = o.type /\ r.date = o.date /\ r.msg = o.msg) - 1

\* a place is looked for in the part of the new one, as the header counts it
add_occasion(d, o) ==
    LET rec == Rec(o)
        from == IF Recurring(rec) THEN 0 ELSE d.hdr.num_recur
        count == IF Recurring(rec) THEN d.hdr.num_recur ELSE d.hdr.num_nonrecur
        last == IF from + count > Len(d.recs) THEN Len(d.recs) ELSE from + count
        at == Min({last + 1} \cup
                  {j \in (from + 1)..last : Before(o, d.recs[j])})
    IN [recs |-> InsertAt(d.recs, at, rec),
        hdr |-> Counted(WithSize(d.hdr, d.hdr.db_size + 2 + Size(rec)), rec, 1)]

\* Mutant of del_occasion: the recurring ones are not counted down.
del_occasion_counts(d, i) ==
    IF i < 0 \/ i >= Len(d.recs) THEN d
    ELSE [recs |-> RemoveAt(d.recs, i + 1),
          hdr |-> [Counted(WithSize(d.hdr, d.hdr.db_size - 2 - Size(d.recs[i + 1])),
                           d.recs[i + 1], -1) EXCEPT !.num_recur = d.hdr.num_recur]]

del_occasion(d, i) ==
    IF i < 0 \/ i >= Len(d.recs) THEN d
    ELSE LET rec == d.recs[i + 1]
         IN [recs |-> RemoveAt(d.recs, i + 1),
             hdr |-> Counted(WithSize(d.hdr, d.hdr.db_size - 2 - Size(rec)), rec, -1)]

\* the loop bodies of add_occasion_file and del_occasion_file
add_occasion_file(d, o) == IF find_occasion(d, o) < 0 THEN add_occasion(d, o) ELSE d
del_occasion_file(d, o) == del_occasion(d, find_occasion(d, o))

create_occasion(d) == Table(d.hdr, HDR, d.recs, Size)
read_occasion(im) == [hdr |-> im.hdr, recs |-> Listed(im)]

init_occasion ==
    [recs |-> << >>,
     hdr |-> [num_recs |-> 0, num_nonrecur |-> 0, num_recur |-> 0,
              last_nonrecur |-> U16(-1), last_recur |-> U16(-1),
              db_size |-> HDR, alloc_size |-> alloc(HDR)]]

print_occasion(d) == [j \in DOMAIN d.recs |-> Line(d.recs[j])]
print_all_occasions(im) == [j \in 1..im.hdr.num_recs |-> Line(im.at[im.off[j]])]

-----------------------------------------------------------------------------
\* The watch starts with what a list of lines makes.
Init ==
    /\ Here /\ Started
    /\ \E lines \in Ascending(Occasions, 2, LAMBDA a, b : a # b) :
          image = create_occasion(Made(add_occasion, init_occasion, lines))

Open == Here /\ \E tool \in {"add", "del"} :
    Opens(tool, read_occasion(image), [updated |-> FALSE])

Create == Here /\ Creates(init_occasion, [updated |-> TRUE])

Update(changed) == static' = [static EXCEPT !.updated = @ \/ changed]

AddLine ==
    /\ Here /\ Len(db.recs) < MaxRecs
    /\ \E o \in Occasions :
          /\ Edits(Adders, add_occasion_file(db, o), <<"add", o, o>>)
          /\ Update(find_occasion(db, o) < 0)

DelLine ==
    /\ Here
    /\ \E o \in Occasions :
          /\ Edits({"del"}, del_occasion_file(db, o), <<"del", o>>)
          /\ Update(find_occasion(db, o) >= 0)

\* while(!del_occasion(&db, 0))
DeleteAll ==
    /\ Here
    /\ Edits({"del"}, FirstsDeleted(del_occasion, db, Len(db.recs)), <<"del_all">>)
    /\ Update(db.recs # << >>)

Save == Here /\ Holding /\ static.updated /\ Saves(create_occasion(db))
Leave == Here /\ Quit

Next == Open \/ Create \/ AddLine \/ DelLine \/ DeleteAll \/ Save \/ Leave

-----------------------------------------------------------------------------
Kept(d) == BagOfSeq(d.recs, LAMBDA r : [msg |-> r.msg, date |-> r.date, type |-> r.type])
Restored == FoldLeft(add_occasion_file, init_occasion, print_all_occasions(image))

Stored == [msg : Msgs, len : Nat, date : Nat, type : Types]

\* a may stand before b: the recurring ones first, each part in order
Follow(a, b) ==
    \/ Recurring(a) /\ ~Recurring(b)
    \/ Recurring(a) = Recurring(b) /\ ~Before(b, a)

InOrder ==
    LET r == read_occasion(image).recs IN \A j \in 1..(Len(r) - 1) : Follow(r[j], r[j + 1])

Fits ==
    /\ TableFits(image, HDR, Size, image.hdr.db_size)
    /\ image.hdr.db_size <= image.hdr.alloc_size

\* the counts and the last indices are those of the parts
HeaderAgrees ==
    LET h == image.hdr
        r == read_occasion(image).recs
    IN /\ h.num_recur = Cardinality({j \in DOMAIN r : Recurring(r[j])})
       /\ h.num_nonrecur = h.num_recs - h.num_recur
       /\ h.last_recur = U16(h.num_recur - 1)
       /\ h.last_nonrecur = U16(h.num_recs - 1)

Hdrs == [num_recs : Nat, num_nonrecur : Nat, num_recur : Nat, last_nonrecur : Nat,
         last_recur : Nat, db_size : Nat, alloc_size : Nat]

\* The parts are as long as the header says, in order, and the size is theirs.
Sound(d) ==
    /\ d \in [recs : Seq(Stored), hdr : Hdrs]
    /\ d.hdr.num_recs = Len(d.recs)
    /\ d.hdr.num_recur + d.hdr.num_nonrecur = Len(d.recs)
    /\ d.hdr.last_recur = U16(d.hdr.num_recur - 1)
    /\ d.hdr.last_nonrecur = U16(d.hdr.num_recs - 1)
    /\ \A j \in DOMAIN d.recs : Recurring(d.recs[j]) <=> j <= d.hdr.num_recur
    /\ \A j \in 1..(Len(d.recs) - 1) : Follow(d.recs[j], d.recs[j + 1])
    /\ d.hdr.db_size = Extent(d.hdr, HDR, d.recs, Size)
    /\ d.hdr.alloc_size = alloc(d.hdr.db_size)

\* The watch holds what create_occasion makes of such a database, a program such
\* a database.
SoundInv ==
    /\ Sound(read_occasion(image)) /\ image = create_occasion(read_occasion(image))
    /\ Holding => Sound(db)
=============================================================================
