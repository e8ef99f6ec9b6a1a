------------------------------- MODULE ApptDb --------------------------------
(***************************************************************************)
(* Appointments and alarms (appt.c): one list, one layout; the static      *)
(* app_idx says which of the two applications it is (is_appt here).        *)
(*                                                                         *)
(* A time is a number, in the order of the year, month, day, hour and      *)
(* minute; one above LastTime is out of the range add_appt clamps its      *)
(* parts to.  status stands for armed and prior.                           *)
(***************************************************************************)
EXTENDS LinkedAdd

CONSTANTS
    Appts,     \* the data lines can give: [msg, time, status, freq]
    LastTime

Here == app \in {"appt", "alarm"}
is_appt == IF app = "appt" THEN 1 ELSE 0
SIZE == 16

\* enum appt_freq
one_day == 0
daily == 1
weekdays == 2
weekly_sun == 4
weekly_sat == 10
weekly == 11
yearly == 13

\* the frequencies an appointment, or an alarm, may have
Freq(f) ==
    IF is_appt = 1 THEN IF f \in weekly_sun..weekly_sat THEN weekly ELSE f
    ELSE IF f < daily THEN daily ELSE IF f > weekly_sat THEN weekdays ELSE f

Normal(a) == [a EXCEPT !.time = IF @ > LastTime THEN LastTime ELSE @, !.freq = Freq(@)]

Rec(a, flag) ==
    [msg |-> a.msg, len |-> Space(a.msg), prev |-> 0, next |-> 0,
     time |-> a.time, status |-> a.status, freq |-> a.freq, appt |-> flag]
Shorts == {Rec(Normal(a), is_appt) : a \in {a \in Appts : MsgLen[a.msg] < BLANK}}

\* the times, then the texts; 0 also when the text of a is greater
cmp_appt(a, b) ==
    IF a.time < b.time THEN -1 ELSE IF a.time > b.time THEN 1
    ELSE IF a.msg < b.msg THEN -1 ELSE 0

Q == INSTANCE Quicksort WITH Cmp <- cmp_appt

\* everything is compared, with the data as they are given
find_appt(d, a) ==
    SelectInSeq(d.recs, LAMBDA r :
        /\ r.time = a.time /\ r.appt = is_appt
        /\ r.status = a.status /\ r.freq = a.freq /\ r.msg = a.msg) - 1

\* Mutant of add_appt: the data are stored as they are given.
add_appt_as_given(d, a) ==
    LET rec == Rec(a, 1)
    IN [recs |-> InsertBefore(d.recs, LAMBDA r : cmp_appt(rec, r) < 0, rec),
        hdr |-> [d.hdr EXCEPT !.num_recs = U16(@ + 1)]]

\* rec->appt = 1 for an alarm too
add_appt(d, a) ==
    LET rec == Rec(Normal(a), 1)
    IN [recs |-> InsertBefore(d.recs, LAMBDA r : cmp_appt(rec, r) < 0, rec),
        hdr |-> [d.hdr EXCEPT !.num_recs = U16(@ + 1)]]

del_appt(d, i) == Deleted(d, i)

\* the loop bodies of add_appt_file and del_appt_file
add_appt_file(d, a) == IF find_appt(d, a) < 0 THEN add_appt(d, a) ELSE d
del_appt_file(d, a) == del_appt(d, find_appt(d, a))

update_appt(d, s) == Linked(Q!Sorted(d.recs, Range(d.recs)), d.hdr, s, SIZE)
create_appt(d, s) == Laid(update_appt(d, s), SIZE)
read_appt_mem(im) == Followed(im)
init_appt(g) == Fresh(g, SIZE)

\* the line of a record, and the data read_appt_line reads in one
Line(r) == [msg |-> r.msg, time |-> r.time, status |-> r.status, freq |-> r.freq]
print_appt(d) == [j \in DOMAIN d.recs |-> Line(d.recs[j])]
print_all_appts(im) ==
    LET c == Chain(im, im.hdr.head) IN [j \in DOMAIN c |-> Line(im.at[c[j]])]

-----------------------------------------------------------------------------
Init == Here /\ Started /\ image \in Foreign(Shorts, SIZE)

Statics == {Options(u, e) : u \in Unused, e \in Extra}

Open == Here /\ \E tool \in {"add", "del"}, s \in Statics :
    Opens(tool, read_appt_mem(image), s)

Create == Here /\ \E g \in Garbage, s \in Statics : Creates(init_appt(g), s)

\* one line of add_appt_file, or the options of add_appt
AddLine ==
    /\ Here /\ Len(db.recs) < MaxRecs
    /\ \E a \in Appts : Edits(Adders, add_appt_file(db, a), <<"add", a, Normal(a)>>)
    /\ UNCHANGED static

\* one line of del_appt_file, or the options of del_appt
DelLine ==
    /\ Here
    /\ \E a \in Appts : Edits({"del"}, del_appt_file(db, a), <<"del", a>>)
    /\ UNCHANGED static

DeleteAll == Here /\ Edits({"del"}, Emptied(db), <<"del_all">>) /\ UNCHANGED static

Save == Here /\ Holding /\ Saves(create_appt(db, static))
Leave == Here /\ Quit

Next == Open \/ Create \/ AddLine \/ DelLine \/ DeleteAll \/ Save \/ Leave

-----------------------------------------------------------------------------
Kept(d) == BagOfSeq(d.recs, Line)
Restored == FoldLeft(add_appt_file, init_appt(0), print_all_appts(image))

\* By time only: cmp_appt is no order of the texts.
InOrder == LET l == print_all_appts(image)
    IN \A j \in 1..(Len(l) - 1) : l[j].time <= l[j + 1].time
=============================================================================
