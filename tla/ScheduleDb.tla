----------------------------- MODULE ScheduleDb ------------------------------
(***************************************************************************)
(* Schedules (schedule.c): groups in the order of their texts, each with   *)
(* its records by time and text in an area of its own, of whole pages.     *)
(*                                                                         *)
(* What a time means, a date, a day of the week and a time of day, or a    *)
(* date and a time of day, is the group type of the whole database.  A     *)
(* time written for another type is read as some time of this one.         *)
(***************************************************************************)
EXTENDS DbLists

CONSTANTS
    Schedules,   \* the data lines can give: [group, msg, when]
    Descs,       \* the descriptions
    Default      \* "SCHEDULE"

Here == app = "schedule"
HDR == 27
GroupTypes == 1..3   \* date, dow_time, date_time; 0 is none

\* what read_schedule_line makes of a line
Lines == [group : Msgs, msg : Msgs, when : Nat]

Rec(c, type) == [msg |-> c.msg, len |-> Space(c.msg), when |-> c.when, type |-> type]
Size(r) == 7 + r.len

Before(a, b) == \/ a.when < b.when
                \/ a.when = b.when /\ a.msg < b.msg

NumRecs(groups) == [g \in DOMAIN groups |-> Len(groups[g].recs)]

WithSize(hdr, n, size) ==
    [hdr EXCEPT !.num_recs = n, !.db_size = size, !.alloc_size = alloc(size)]

\* the group of a text, 0 if there is none
GroupOf(d, m) == SelectInSeq(d.recs, LAMBDA x : x.msg = m)

\* a group, and a record of a group, put where it belongs
PutGroup(groups, new) == InsertBefore(groups, LAMBDA x : new.msg < x.msg, new)
PutRec(recs, rec) == InsertBefore(recs, LAMBDA r : Before(rec, r), rec)

\* the index a record has in its group, not in the database
find_schedule(d, s, c) ==
    LET g == GroupOf(d, c.group)
    IN IF g = 0 \/ s.group_type = 0 THEN -1
       ELSE SelectInSeq(d.recs[g].recs, LAMBDA r : r.when = c.when /\ r.msg = c.msg) - 1

\* the group of that text, made when there is none
WithGroup(d, m) ==
    LET size == 8 + Space(m)
        new == [msg |-> m, len |-> Space(m), recs |-> << >>,
                db_size |-> size, alloc_size |-> alloc(size)]
    IN IF GroupOf(d, m) # 0 THEN d
       ELSE [recs |-> PutGroup(d.recs, new),
             hdr |-> [d.hdr EXCEPT !.num_recs = @ + 1, !.db_size = @ + 2 + new.alloc_size]]

add_schedule(d0, s, c) ==
    LET d == WithGroup(d0, c.group)
        g == GroupOf(d, c.group)
        old == d.recs[g]
        rec == Rec(c, s.group_type)
        size == old.db_size + 2 + Size(rec)
        group == [old EXCEPT !.recs = PutRec(@, rec),
                             !.db_size = size, !.alloc_size = alloc(size)]
    IN [recs |-> [d.recs EXCEPT ![g] = group],
        hdr |-> WithSize(d.hdr, d.hdr.num_recs,
                         d.hdr.db_size + group.alloc_size - old.alloc_size)]

\* a group without its k-th record, of size bytes
Resized(g, k, size) ==
    [g EXCEPT !.recs = RemoveAt(@, k), !.db_size = size, !.alloc_size = alloc(size)]

\* Mutant of Shrunk: the offset of the record is not given back.
ShrunkByRecord(g, k) == Resized(g, k, g.db_size - Size(g.recs[k]))

Shrunk(g, k) == Resized(g, k, g.db_size - 2 - Size(g.recs[k]))

\* i counts the records of all groups.  The last record of a group takes the
\* group with it.
del_schedule(d, i) ==
    LET at == Position(NumRecs(d.recs), i)
        g == at[1]
        old == d.recs[g]
        group == Shrunk(old, at[2])
    IN IF g = 0 THEN d
       ELSE IF group.recs = << >>
       THEN [recs |-> RemoveAt(d.recs, g),
             hdr |-> WithSize(d.hdr, d.hdr.num_recs - 1, d.hdr.db_size - 2 - old.alloc_size)]
       ELSE [recs |-> [d.recs EXCEPT ![g] = group],
             hdr |-> WithSize(d.hdr, d.hdr.num_recs,
                              d.hdr.db_size + group.alloc_size - old.alloc_size)]

\* the loop bodies of add_schedule_file and del_schedule_file
add_schedule_file(d, s, c) == IF find_schedule(d, s, c) < 0 THEN add_schedule(d, s, c) ELSE d
del_schedule_file(d, s, c) ==
    IF find_schedule(d, s, c) < 0 THEN d ELSE del_schedule(d, find_schedule(d, s, c))

update_schedule_msg(d, m) == [d EXCEPT !.hdr.msg = m]

\* The type of a database with groups stays: then it is the type of the program.
KeepsType(d, type) == d.hdr.group_type # 0 /\ d.hdr.group_type # type /\ d.hdr.num_recs # 0

update_schedule_group_type(d, type) ==
    IF KeepsType(d, type) THEN d ELSE [d EXCEPT !.hdr.group_type = type]

\* the header line of a file: what add_schedule_file does with it
Accepts(d, type) ==
    d.hdr.group_type = 0 \/ d.hdr.group_type = type \/ d.hdr.num_recs = 0

Described(d, m, type) == update_schedule_group_type(update_schedule_msg(d, m), type)

\* Each group is laid out in an area of its alloc_size bytes.
GroupAdd(g) ==
    Table([num_recs |-> Len(g.recs), msg |-> g.msg, len |-> g.len,
           db_size |-> g.db_size, alloc_size |-> g.alloc_size], 8 + g.len, g.recs, Size)

create_schedule(d) ==
    LET t == Table(d.hdr, HDR, d.recs, LAMBDA g : g.alloc_size)
    IN [t EXCEPT !.at = [o \in DOMAIN t.at |-> GroupAdd(t.at[o])]]

read_schedule(im) ==
    [hdr |-> im.hdr,
     recs |-> [g \in 1..im.hdr.num_recs |->
                  LET a == im.at[im.off[g]]
                  IN [msg |-> a.hdr.msg, len |-> a.hdr.len, recs |-> Listed(a),
                      db_size |-> a.hdr.db_size, alloc_size |-> a.hdr.alloc_size]]]

init_schedule(s) ==
    [recs |-> << >>,
     hdr |-> [num_recs |-> 0, group_type |-> s.group_type, msg |-> Default,
              db_size |-> HDR, alloc_size |-> alloc(HDR)]]

\* the header line, and a line for each record
print_schedule(d) ==
    [msg |-> d.hdr.msg, type |-> d.hdr.group_type,
     lines |-> FlattenSeq([g \in DOMAIN d.recs |->
        [k \in DOMAIN d.recs[g].recs |->
            [group |-> d.recs[g].msg, msg |-> d.recs[g].recs[k].msg,
             when |-> d.recs[g].recs[k].when]]])]

print_all_schedules(im) ==
    [msg |-> im.hdr.msg, type |-> im.hdr.group_type,
     lines |-> FlattenSeq([g \in 1..im.hdr.num_recs |->
        LET a == im.at[im.off[g]]
        IN [k \in 1..a.hdr.num_recs |->
               [group |-> a.hdr.msg, msg |-> a.at[a.off[k]].msg,
                when |-> a.at[a.off[k]].when]]])]

-----------------------------------------------------------------------------
NumAll(d) == Sum(NumRecs(d.recs))

\* the lines of the watch at the start, no two in a row the same
FirstLines == Ascending(Schedules, 2, LAMBDA a, b : a # b)

\* what lines make of an empty database
Filled(s, lines) == Made(LAMBDA d, c : add_schedule(d, s, c), init_schedule(s), lines)

\* while(!del_schedule(&db, 0))
Emptied(d) == FirstsDeleted(del_schedule, d, NumAll(d))

Closing == static' = [static EXCEPT !.updated = TRUE]

\* The watch starts with what some lines make of an empty database; the type may
\* be none when it is.
Init ==
    /\ Here /\ Started
    /\ \E lines \in FirstLines, type \in GroupTypes \cup {0} :
          LET s == [group_type |-> type]
          IN /\ type = 0 => lines = << >>
             /\ image = create_schedule(Filled(s, lines))

Open == Here /\ \E tool \in {"add", "del"} :
    Opens(tool, read_schedule(image),
          [group_type |-> image.hdr.group_type, updated |-> FALSE])

Create == Here /\ LET s == [group_type |-> 0, updated |-> TRUE] IN Creates(init_schedule(s), s)

\* A line of the file or the options; the options count as an update even when
\* the record is there.  Without a group type no line is read as data.
AddLine ==
    /\ Here /\ Holding /\ NumAll(db) < MaxRecs /\ static.group_type # 0
    /\ \E c \in Schedules, options \in BOOLEAN :
          /\ Edits(Adders, add_schedule_file(db, static, c), <<"add", c, c>>)
          /\ static' = [static EXCEPT !.updated =
                           @ \/ options \/ find_schedule(db, static, c) < 0]

DelLine ==
    /\ Here /\ Holding /\ static.group_type # 0
    /\ \E c \in Schedules :
          /\ Edits({"del"}, del_schedule_file(db, static, c), <<"del", c>>)
          /\ static' = [static EXCEPT !.updated = @ \/ find_schedule(db, static, c) >= 0]

DeleteAll ==
    /\ Here
    /\ Edits({"del"}, Emptied(db), <<"del_all">>)
    /\ static' = [static EXCEPT !.updated = @ \/ db.recs # << >>]

\* A header line is no update: a file of header lines alone is not stored.
HeaderLine ==
    /\ Here
    /\ \E m \in Descs, type \in GroupTypes :
          /\ Edits(Adders, IF Accepts(db, type) THEN Described(db, m, type) ELSE db, <<"skip">>)
          /\ static' = IF Accepts(db, type) /\ ~KeepsType(db, type)
                       THEN [static EXCEPT !.group_type = type] ELSE static

\* desc= of add_schedule
DescOption ==
    /\ Here
    /\ \E m \in Descs : Edits({"add"}, update_schedule_msg(db, m), <<"skip">>)
    /\ Closing

\* type= of add_schedule
TypeOption ==
    /\ Here
    /\ \E type \in GroupTypes :
          /\ Edits({"add"}, update_schedule_group_type(db, type), <<"skip">>)
          /\ static' = [static EXCEPT !.group_type =
                           IF KeepsType(db, type) THEN db.hdr.group_type ELSE type]

Save == Here /\ Holding /\ static.updated /\ Saves(create_schedule(db))
Leave == Here /\ Quit

Next ==
    \/ Open \/ Create \/ AddLine \/ HeaderLine \/ DescOption \/ TypeOption
    \/ DelLine \/ DeleteAll \/ Save \/ Leave

-----------------------------------------------------------------------------
Kept(d) == BagOfSeq(print_schedule(d).lines, LAMBDA l : l)

\* the header line and the lines of the watch, read into an empty database
Restored ==
    LET printed == print_all_schedules(image)
        s == [group_type |-> printed.type]
    IN FoldLeft(LAMBDA d, c : add_schedule_file(d, s, c),
                Described(init_schedule([group_type |-> 0]), printed.msg, printed.type),
                printed.lines)

\* The time of each record is of the type the header gives, which is the program's.
OneType(d) ==
    \A g \in DOMAIN d.recs : \A k \in DOMAIN d.recs[g].recs :
        d.recs[g].recs[k].type = d.hdr.group_type

RecsOf(type) == [msg : Msgs, len : Nat, when : Nat, type : {type}]
Sizes(recs) == [k \in DOMAIN recs |-> Size(recs[k])]
Areas(groups) == [g \in DOMAIN groups |-> groups[g].alloc_size]

\* records by time and text, groups by their texts
RecsInOrder(recs) == \A k \in 1..(Len(recs) - 1) : ~Before(recs[k + 1], recs[k])
GroupsInOrder(groups) == \A g \in 1..(Len(groups) - 1) : groups[g].msg < groups[g + 1].msg

\* A group takes its header, a table of offsets and its records, in whole pages.
Groups(type) ==
    {g \in [msg : Msgs, len : Nat, recs : Seq(RecsOf(type)), db_size : Nat, alloc_size : Nat] :
        /\ g.db_size = 8 + g.len + 2 * Len(g.recs) + Sum(Sizes(g.recs))
        /\ g.alloc_size = alloc(g.db_size)
        /\ RecsInOrder(g.recs)}

Hdrs == [num_recs : Nat, group_type : GroupTypes \cup {0}, msg : Descs \cup {Default},
         db_size : Nat, alloc_size : Nat]

\* The sizes are those of the groups, the types that of the header; no two groups
\* have the same text.
Counted(d) ==
    /\ d \in [recs : Seq(Groups(d.hdr.group_type)), hdr : Hdrs]
    /\ d.hdr.num_recs = Len(d.recs)
    /\ d.hdr.group_type = 0 => d.recs = << >>
    /\ d.hdr.db_size = HDR + 2 * Len(d.recs) + Sum(Areas(d.recs))
    /\ GroupsInOrder(d.recs)

\* so is what is allocated
Sound(d) == Counted(d) /\ d.hdr.alloc_size = alloc(d.hdr.db_size)

\* The watch holds what create_schedule makes of such a database, a program such
\* a database and reads its lines as of the same type.
SoundInv ==
    /\ Sound(read_schedule(image)) /\ image = create_schedule(read_schedule(image))
    /\ Holding => /\ Sound(db)
                  /\ static \in [group_type : GroupTypes \cup {0}, updated : BOOLEAN]
                  /\ static.group_type = db.hdr.group_type

InOrder ==
    LET d == read_schedule(image).recs
    IN GroupsInOrder(d) /\ \A g \in DOMAIN d : RecsInOrder(d[g].recs)

\* The areas of the groups, and the records in each.
Fits ==
    /\ TableFits(image, HDR, LAMBDA a : a.hdr.alloc_size, image.hdr.db_size)
    /\ image.hdr.db_size <= image.hdr.alloc_size
    /\ \A o \in DOMAIN image.at :
          LET a == image.at[o]
          IN /\ TableFits(a, 8 + a.hdr.len, Size, a.hdr.db_size)
             /\ a.hdr.db_size <= a.hdr.alloc_size
=============================================================================
