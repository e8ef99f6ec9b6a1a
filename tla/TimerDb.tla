------------------------------- MODULE TimerDb -------------------------------
(***************************************************************************)
(* Countdown and interval timers (timer.c): records of one size in the     *)
(* order of their names; what happens at the end belongs to each countdown *)
(* timer, and to the header of the interval timers.                        *)
(***************************************************************************)
EXTENDS DbLists

CONSTANTS
    Timers,    \* the data lines can give: [msg, time, at_end, half]; half is 1
               \* when the line says "halfway reminder"
    TimersHeld, \* the most timers the watch starts with
    AtEnds     \* 0 stop, 1 repeat, 2 chrono

Here == app \in {"countdn", "interval"}
is_countdn == app = "countdn"
header_size == IF is_countdn THEN 8 ELSE 9

\* what a line may say
Lines == [msg : Msgs, time : Nat, at_end : AtEnds, half : {0, 1}]

\* rec->at_end is set for a countdown timer only
Rec(t) == [t EXCEPT !.at_end = IF is_countdn THEN @ ELSE 0]

WithSize(hdr, n, size) ==
    [hdr EXCEPT !.num_recs = n, !.db_size = size, !.alloc_size = alloc(size)]

\* read_timer_line: without the words at the end of the line the reminder of a
\* countdown timer is off, that of an interval timer is what data held before.
\* (What stands in memory behind the line is read for them too: at most those
\* of the line before, and data holds these.)
read_timer_line(t, held) ==
    [t EXCEPT !.half = IF t.half = 1 THEN 1 ELSE IF is_countdn THEN 0 ELSE held]

\* The line add_countdn makes of its options ends with "halfway", which is not
\* what read_timer_line looks for.
option_line(t) == [t EXCEPT !.half = 0]

\* the name alone tells timers apart
find_timer(d, t) == SelectInSeq(d.recs, LAMBDA r : r.msg = t.msg) - 1

\* Mutant of add_timer: db_size is not increased.
add_timer_size(d, t) ==
    [recs |-> InsertBefore(d.recs, LAMBDA r : t.msg < r.msg, Rec(t)),
     hdr |-> WithSize(d.hdr, Len(d.recs) + 1, d.hdr.db_size)]

add_timer(d, t) ==
    [recs |-> InsertBefore(d.recs, LAMBDA r : t.msg < r.msg, Rec(t)),
     hdr |-> WithSize(d.hdr, Len(d.recs) + 1, d.hdr.db_size + 13)]

del_timer(d, i) ==
    IF i < 0 \/ i >= Len(d.recs) THEN d
    ELSE [recs |-> RemoveAt(d.recs, i + 1),
          hdr |-> WithSize(d.hdr, Len(d.recs) - 1, d.hdr.db_size - 13)]

\* the loop bodies of add_timer_file and del_timer_file
add_timer_file(d, t) == IF find_timer(d, t) < 0 THEN add_timer(d, t) ELSE d
del_timer_file(d, t) == del_timer(d, find_timer(d, t))

update_timer_at_end(d, e) == [d EXCEPT !.hdr.at_end = e]

create_timer(d) ==
    [hdr |-> d.hdr,
     at |-> [o \in {header_size + 13 * (j - 1) : j \in DOMAIN d.recs} |->
                d.recs[(o - header_size) \div 13 + 1]]]

read_timer(im) ==
    [hdr |-> im.hdr,
     recs |-> [j \in 1..im.hdr.num_recs |-> im.at[header_size + 13 * (j - 1)]]]

init_timer ==
    [recs |-> << >>,
     hdr |-> [num_recs |-> 0, at_end |-> 0,
              db_size |-> header_size, alloc_size |-> alloc(header_size)]]

\* the header's line for interval timers, and a line for each
print_timer(d) == [at_end |-> IF is_countdn THEN 0 ELSE d.hdr.at_end, lines |-> d.recs]

\* the number of timers is read into a byte
print_all_timers(im) ==
    [at_end |-> IF is_countdn THEN 0 ELSE im.hdr.at_end,
     lines |-> [j \in 1..(im.hdr.num_recs % 256) |-> im.at[header_size + 13 * (j - 1)]]]

-----------------------------------------------------------------------------
\* The watch may hold timers of the same name.
Init ==
    /\ Here /\ Started
    /\ \E recs \in Ascending(Timers, TimersHeld, LAMBDA a, b : a.msg <= b.msg) :
          LET hdr == WithSize(init_timer.hdr, Len(recs), header_size + 13 * Len(recs))
          IN image = create_timer([recs |-> [j \in DOMAIN recs |-> Rec(recs[j])], hdr |-> hdr])

\* held is data->halfway_reminder, uninitialised; add_countdn always stores
Open == Here /\ \E tool \in {"add", "del"}, held \in {0, 1} :
    Opens(tool, read_timer(image), [held |-> held, updated |-> tool = "add"])

Create == Here /\ \E held \in {0, 1} :
    Creates(init_timer, [held |-> held, updated |-> TRUE])

AddLine ==
    /\ Here /\ Holding /\ Len(db.recs) < MaxRecs
    /\ \E t \in Timers :
          LET read == read_timer_line(t, static.held)
          IN /\ Edits(Adders, add_timer_file(db, read), <<"add", t.msg, t.msg>>)
             /\ static' = [static EXCEPT !.held = read.half]

\* the options of add_countdn and add_interval: their data is another variable
AddOptions ==
    /\ Here /\ Holding /\ Len(db.recs) < MaxRecs
    /\ \E t \in Timers, held \in {0, 1} :
          LET read == read_timer_line(option_line(t), held)
          IN Edits({"add"}, add_timer_file(db, read), <<"add", t.msg, t.msg, t>>)
    /\ UNCHANGED static

\* a header line of the file, or at_end=
AtEndLine ==
    /\ Here /\ ~is_countdn
    /\ \E e \in AtEnds : Edits(Adders, update_timer_at_end(db, e), <<"skip">>)
    /\ UNCHANGED static

DelLine ==
    /\ Here
    /\ \E t \in Timers :
          /\ Edits({"del"}, del_timer_file(db, t), <<"del", t.msg>>)
          /\ static' = [static EXCEPT !.updated = @ \/ find_timer(db, t) >= 0]

\* while(!del_timer(&db, 0))
DeleteAll ==
    /\ Here
    /\ Edits({"del"}, FirstsDeleted(del_timer, db, Len(db.recs)), <<"del_all">>)
    /\ static' = [static EXCEPT !.updated = @ \/ db.recs # << >>]

Save == Here /\ Holding /\ static.updated /\ Saves(create_timer(db))
Leave == Here /\ Quit

Next ==
    \/ Open \/ Create \/ AddLine \/ AddOptions \/ AtEndLine
    \/ DelLine \/ DeleteAll \/ Save \/ Leave

-----------------------------------------------------------------------------
Kept(d) == BagOfSeq(d.recs, LAMBDA r : r.msg)

Stored == [msg : Msgs, time : Nat, at_end : AtEnds \cup {0}, half : {0, 1}]
Hdrs == [num_recs : Nat, at_end : AtEnds \cup {0}, db_size : Nat, alloc_size : Nat]

\* The header counts the timers, which are in the order of their names.
Sound(d) ==
    /\ d \in [recs : Seq(Stored), hdr : Hdrs]
    /\ d.hdr.num_recs = Len(d.recs)
    /\ d.hdr.db_size = header_size + 13 * Len(d.recs)
    /\ d.hdr.alloc_size = alloc(d.hdr.db_size)
    /\ \A j \in 1..(Len(d.recs) - 1) : d.recs[j].msg <= d.recs[j + 1].msg

\* The watch holds what create_timer makes of such a database, a program such a
\* database.
SoundInv ==
    /\ Sound(read_timer(image)) /\ image = create_timer(read_timer(image))
    /\ Holding => Sound(db) /\ static \in [held : {0, 1}, updated : BOOLEAN]

InOrder ==
    LET l == read_timer(image).recs IN \A j \in 1..(Len(l) - 1) : l[j].msg <= l[j + 1].msg

Fits ==
    /\ Packed({<<o, 13>> : o \in DOMAIN image.at}, header_size, image.hdr.db_size)
    /\ image.hdr.db_size <= image.hdr.alloc_size

\* The lines of the watch, read into an empty database, make a timer of every
\* name as the first of the name is, but for the reminder of an interval timer.
Restores ==
    LET printed == print_all_timers(image)
        read(t) == read_timer_line(t, 0)
        restored == print_timer(update_timer_at_end(
            FoldLeft(LAMBDA d, t : add_timer_file(d, read(t)), init_timer, printed.lines),
            printed.at_end))
        Seen(t) == IF is_countdn THEN t ELSE [t EXCEPT !.half = 0]
        first == {j \in DOMAIN printed.lines :
                    \A k \in 1..(j - 1) : printed.lines[k].msg # printed.lines[j].msg}
    IN /\ restored.at_end = printed.at_end
       /\ {Seen(t) : t \in Range(restored.lines)} = {Seen(printed.lines[j]) : j \in first}
=============================================================================
