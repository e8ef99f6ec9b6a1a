------------------------------ MODULE ChronoDb -------------------------------
(***************************************************************************)
(* The chronograph (chrono.c): workouts and the laps of each, stored one   *)
(* after another in records of 5 bytes, unused ones behind them.           *)
(* A lap has a history field which neither the program nor the watch has:  *)
(* missed is the number of deletions before it that left its number as it  *)
(* was.                                                                    *)
(***************************************************************************)
EXTENDS DbLists

CONSTANTS
    Laps,       \* the data lines can give: [workout_id, lap_id, date, time]
    Displays,   \* the display formats
    Recs,       \* the numbers of unused records that may be asked for (-u)
    Freed,      \* what comes of the link read from a lap just freed: it is "intact",
                \* it leads "astray" (overwritten or cleared), or "crash"
    MIN_CHRONO_RECS,
    MAX_CHRONO_RECS

Here == app = "chrono"
HDR == 17
U8(x) == x % 256

\* what read_chrono_line accepts
Lines == [workout_id : Int, lap_id : Int, date : Nat, time : Nat]

set_chrono_unused_recs(n) ==
    IF n < MIN_CHRONO_RECS THEN MIN_CHRONO_RECS
    ELSE IF n > MAX_CHRONO_RECS THEN MAX_CHRONO_RECS ELSE n

\* the first of the laps that took least; times are those of the splits
BestLap(laps) ==
    LET lap(k) == laps[k].time - IF k = 1 THEN 0 ELSE laps[k - 1].time
    IN Min({k \in DOMAIN laps : \A i \in DOMAIN laps : lap(k) <= lap(i)})

NumLaps(recs) == [w \in DOMAIN recs |-> Len(recs[w].laps)]

\* the records of all workouts one after another
Flat(recs) ==
    FlattenSeq([w \in DOMAIN recs |->
        <<[date |-> recs[w].date, best_lap_id |-> recs[w].best_lap_id,
           num_laps |-> Len(recs[w].laps)]>> \o recs[w].laps])

\* The lap is added to the workout of that number, or to a new one at the end.
add_chrono(d, c) ==
    LET known == c.workout_id \in DOMAIN d.recs
        w == IF known THEN c.workout_id ELSE Len(d.recs) + 1
        old == IF known THEN d.recs[w].laps ELSE << >>
        laps == Append(old, [lap_id |-> U8(Len(old) + 1), time |-> c.time, missed |-> 0])
        workout == [date |-> IF known THEN d.recs[w].date ELSE c.date,
                    best_lap_id |-> U8(BestLap(laps)), laps |-> laps]
    IN [recs |-> IF known THEN [d.recs EXCEPT ![w] = workout] ELSE Append(d.recs, workout),
        hdr |-> [d.hdr EXCEPT !.used_recs = U8(@ + IF known THEN 1 ELSE 2),
                              !.last_workout = IF known THEN @ ELSE d.hdr.used_recs]]

\* Mutant of del_chrono: the laps after the one deleted keep their numbers.
del_chrono_ids(d, i, f) ==
    LET at == Position(NumLaps(d.recs), i)
        w == at[1]
        rest == RemoveAt(d.recs[w].laps, at[2])
    IN IF w = 0 THEN d
       ELSE IF U8(Len(rest)) # 0
       THEN [recs |-> [d.recs EXCEPT ![w] = [@ EXCEPT !.best_lap_id = U8(BestLap(rest)),
                                                      !.laps = rest]],
             hdr |-> [d.hdr EXCEPT !.used_recs = U8(@ - 1)]]
       ELSE [recs |-> RemoveAt(d.recs, w),
             hdr |-> [d.hdr EXCEPT !.used_recs = U8(@ - 2), !.last_workout = U8(@ - 1)]]

\* i counts the laps of all workouts from 0.  The last lap of a workout, as counted
\* in a byte, takes the workout with it.  The laps behind the one deleted are found
\* by its link, read after free(split): where it leads astray they keep their numbers.
del_chrono(d, i, f) ==
    LET at == Position(NumLaps(d.recs), i)
        w == at[1]
        rest == RemoveAt(d.recs[w].laps, at[2])
        Behind(lap) == IF f = "astray" THEN [lap EXCEPT !.missed = @ + 1]
                     ELSE [lap EXCEPT !.lap_id = U8(@ - 1)]
        laps == [k \in DOMAIN rest |-> IF k < at[2] THEN rest[k] ELSE Behind(rest[k])]
    IN IF w = 0 THEN d
       ELSE IF U8(Len(rest)) # 0
       THEN [recs |-> [d.recs EXCEPT ![w] = [@ EXCEPT !.best_lap_id = U8(BestLap(laps)),
                                                      !.laps = laps]],
             hdr |-> [d.hdr EXCEPT !.used_recs = U8(@ - 1)]]
       ELSE [recs |-> RemoveAt(d.recs, w),
             hdr |-> [d.hdr EXCEPT !.used_recs = U8(@ - 2), !.last_workout = U8(@ - 1)]]

\* by the place of the workout and the number of the lap; the laps before are
\* counted in bytes
find_chrono(d, c) ==
    IF c.workout_id \notin DOMAIN d.recs THEN -1
    ELSE LET k == SelectInSeq(d.recs[c.workout_id].laps, LAMBDA l : l.lap_id = c.lap_id)
         IN IF k = 0 THEN -1 ELSE Sum([v \in 1..(c.workout_id - 1) |-> U8(NumLaps(d.recs)[v])]) + k - 1

\* the loop bodies of add_chrono_file and del_chrono_file
add_chrono_file(d, c) == IF find_chrono(d, c) < 0 THEN add_chrono(d, c) ELSE d
del_chrono_file(d, c, f) ==
    IF find_chrono(d, c) < 0 THEN d ELSE del_chrono(d, find_chrono(d, c), f)

\* while(!del_chrono(&db, 0)): where the links lead makes no difference, for no lap is left
Emptied(d, f) ==
    FirstsDeleted(LAMBDA e, i : del_chrono(e, i, f), d, Sum(NumLaps(d.recs)))

update_chrono_display_format(d, f) == [d EXCEPT !.hdr.display_format = f]

update_chrono(d, n) ==
    LET used == d.hdr.used_recs
        unused == IF used + n > MAX_CHRONO_RECS THEN MAX_CHRONO_RECS - used ELSE n
        last == IF d.recs = << >> THEN 0 ELSE used - Len(Last(d.recs).laps) - 1
        size == HDR + 5 * (used + unused)
    IN [recs |-> d.recs,
        hdr |-> [num_recs |-> used + unused, display_format |-> d.hdr.display_format,
                 unused_recs |-> U8(unused), max_recs |-> U8(used + unused),
                 used_recs |-> used, last_workout |-> U8(last), stored_rec |-> used,
                 db_size |-> size, alloc_size |-> alloc(size)]]

Zero == [lap_id |-> 0, time |-> 0, missed |-> 0]

\* the records, and blank ones up to num_recs
create_chrono(d) ==
    [hdr |-> d.hdr,
     slots |-> Flat(d.recs) \o [j \in 1..(d.hdr.num_recs - Len(Flat(d.recs))) |-> Zero]]

\* Mutant of read_workout: the last lap of a workout is not read.
read_workout_less(im, x) ==
    LET w == im.slots[x.i + 1]
        next == x.i + 1 + w.num_laps
    IN IF x.i >= im.hdr.used_recs THEN x
       ELSE [i |-> next,
             recs |-> Append(x.recs, [date |-> w.date, best_lap_id |-> w.best_lap_id,
                                      laps |-> SubSeq(im.slots, x.i + 2, next - 1)])]

\* one turn of the loop of read_chrono: a workout and its laps
read_workout(im, x) ==
    LET w == im.slots[x.i + 1]
        next == x.i + 1 + w.num_laps
    IN IF x.i >= im.hdr.used_recs THEN x
       ELSE [i |-> next,
             recs |-> Append(x.recs, [date |-> w.date, best_lap_id |-> w.best_lap_id,
                                      laps |-> SubSeq(im.slots, x.i + 2, next)])]

\* The loop has no more turns than there are records.
read_chrono_mem(im) ==
    LET after[k \in 0..im.hdr.used_recs] ==
            IF k = 0 THEN [i |-> 0, recs |-> << >>] ELSE read_workout(im, after[k - 1])
    IN [hdr |-> im.hdr, recs |-> after[im.hdr.used_recs].recs]

init_chrono(n, f) ==
    [recs |-> << >>,
     hdr |-> [num_recs |-> n, display_format |-> f, unused_recs |-> n, max_recs |-> n,
              used_recs |-> 0, last_workout |-> 0, stored_rec |-> 0,
              db_size |-> HDR + 5 * n, alloc_size |-> alloc(HDR + 5 * n)]]

\* the line of a lap
Line(n, date, lap) ==
    [workout_id |-> n, lap_id |-> lap.lap_id, date |-> date, time |-> lap.time]

\* a line for the display format, and one for each lap
print_chrono(d) ==
    [display |-> d.hdr.display_format,
     lines |-> FlattenSeq([w \in DOMAIN d.recs |->
        [k \in DOMAIN d.recs[w].laps |-> Line(w, d.recs[w].date, d.recs[w].laps[k])]])]

\* one turn of the loop of print_all_chronos
print_workout(im, x) ==
    LET w == im.slots[x.i + 1]
    IN IF x.i >= im.hdr.used_recs THEN x
       ELSE [i |-> x.i + 1 + w.num_laps, j |-> x.j + 1,
             lines |-> x.lines \o [k \in 1..w.num_laps |->
                                     Line(x.j, w.date, im.slots[x.i + 1 + k])]]

print_all_chronos(im) ==
    LET after[k \in 0..im.hdr.used_recs] ==
            IF k = 0 THEN [i |-> 0, j |-> 1, lines |-> << >>]
            ELSE print_workout(im, after[k - 1])
    IN [display |-> im.hdr.display_format, lines |-> after[im.hdr.used_recs].lines]

-----------------------------------------------------------------------------
\* The watch starts with what some laps make.
Init ==
    /\ Here /\ Started
    /\ \E lines \in Ascending(Laps, 2, LAMBDA a, b : TRUE), f \in Displays :
          image = create_chrono(update_chrono(
                      Made(add_chrono, init_chrono(MIN_CHRONO_RECS, f), lines),
                      MIN_CHRONO_RECS))

Numbers == {set_chrono_unused_recs(n) : n \in Recs}

Open == Here /\ \E tool \in {"add", "del"}, n \in Numbers :
    Opens(tool, read_chrono_mem(image), [unused_recs |-> n])

\* display_format is static: lap_split
Create == Here /\ \E n \in Numbers : Creates(init_chrono(n, 0), [unused_recs |-> n])

AddLine ==
    /\ Here /\ Len(Flat(db.recs)) < 2 * MaxRecs
    /\ \E c \in Laps : Edits(Adders, add_chrono_file(db, c), <<"add", c, c>>)
    /\ UNCHANGED static

\* the options of add_chrono: the lap is not looked for
AddOptions ==
    /\ Here /\ Len(Flat(db.recs)) < 2 * MaxRecs
    /\ \E c \in Laps : Edits({"add"}, add_chrono(db, c), <<"add", c, c>>)
    /\ UNCHANGED static

\* a header line of the file, or display=
DisplayLine ==
    /\ Here
    /\ \E f \in Displays : Edits(Adders, update_chrono_display_format(db, f), <<"skip">>)
    /\ UNCHANGED static

\* del_chrono reads split->next after free(split) when the workout keeps a lap.
ReadsFreed(laps) == U8(Len(laps) - 1) # 0

DelLine ==
    /\ Here
    /\ \E c \in Laps, f \in Freed :
          LET at == Position(NumLaps(db.recs), find_chrono(db, c))
          IN IF f = "crash"
             THEN at[1] # 0 /\ ReadsFreed(db.recs[at[1]].laps) /\ prog = "del" /\ Stops("dead")
             ELSE Edits({"del"}, del_chrono_file(db, c, f), <<"del", c>>) /\ UNCHANGED static

DeleteAll ==
    /\ Here
    /\ \E f \in Freed :
          IF f = "crash"
          THEN /\ prog = "del" /\ Stops("dead")
               /\ \E w \in DOMAIN db.recs : ReadsFreed(db.recs[w].laps)
          ELSE Edits({"del"}, Emptied(db, f), <<"del_all">>) /\ UNCHANGED static

\* More than MAX_CHRONO_RECS records can be longer than the memory allocated
\* for them: nothing can be said of what follows.
Save ==
    /\ Here /\ Holding
    /\ LET d == update_chrono(db, static.unused_recs)
       IN IF HDR + 5 * Len(Flat(d.recs)) <= d.hdr.alloc_size
          THEN Saves(create_chrono(d)) ELSE Stops("dead")

Leave == Here /\ Quit

Next ==
    \/ Open \/ Create \/ AddLine \/ AddOptions \/ DisplayLine
    \/ DelLine \/ DeleteAll \/ Save \/ Leave

-----------------------------------------------------------------------------
\* what the lines of the watch make of an empty database
Restored ==
    LET printed == print_all_chronos(image)
    IN update_chrono_display_format(
           FoldLeft(add_chrono_file, init_chrono(MIN_CHRONO_RECS, 0), printed.lines),
           printed.display)

\* the laps numbered by their places
Renumbered(d) ==
    [d EXCEPT !.recs = [w \in DOMAIN @ |->
        [@[w] EXCEPT !.laps = [k \in DOMAIN @ |-> [@[k] EXCEPT !.lap_id = U8(k)]]]]]

\* Lines that left the watch with other numbers make the same laps, numbered again.
Restores == print_chrono(Restored) = print_chrono(Renumbered(read_chrono_mem(image)))

\* The number of a lap is its place and the deletions before it that left it as it
\* was, and the best one is the best, in bytes.
LapsNumbered(recs) ==
    \A w \in DOMAIN recs :
        /\ \A k \in DOMAIN recs[w].laps :
              recs[w].laps[k].lap_id = U8(k + recs[w].laps[k].missed)
        /\ recs[w].best_lap_id = U8(BestLap(recs[w].laps))

\* The header counts the records, and points to the last workout.
HeaderAgrees ==
    LET h == image.hdr
        recs == read_chrono_mem(image).recs
    IN /\ h.used_recs = Len(Flat(recs))
       /\ recs # << >> =>
            /\ h.last_workout + 1 + Len(Last(recs).laps) = h.used_recs
            /\ image.slots[h.last_workout + 1].num_laps = Len(Last(recs).laps)
       /\ h.used_recs <= MAX_CHRONO_RECS => h.used_recs + h.unused_recs = h.num_recs

Fits ==
    /\ image.hdr.used_recs <= MAX_CHRONO_RECS =>
         HDR + 5 * Len(image.slots) <= image.hdr.db_size
    /\ image.hdr.db_size <= image.hdr.alloc_size

Stored == [date : Nat, best_lap_id : Nat,
           laps : Seq([lap_id : Nat, time : Int, missed : Nat]) \ {<< >>}]
Hdrs == [num_recs : Int, display_format : Displays \cup {0}, unused_recs : 0..255, max_recs : 0..255,
         used_recs : 0..255, last_workout : 0..255, stored_rec : 0..255,
         db_size : Int, alloc_size : Int]

\* The header counts the records and the laps are numbered, in bytes.
Sound(d) ==
    /\ d \in [recs : Seq(Stored), hdr : Hdrs]
    /\ d.hdr.used_recs = U8(Len(Flat(d.recs)))
    /\ LapsNumbered(d.recs)

\* The watch holds what create_chrono makes of such a database of fewer than 256
\* records, which another update leaves as it is, a program such a database.
SoundInv ==
    /\ LET d == read_chrono_mem(image)
       IN /\ Sound(d) /\ Len(Flat(d.recs)) < 256
          /\ image = create_chrono(d) /\ d = update_chrono(d, d.hdr.unused_recs)
    /\ IF Holding THEN Sound(db) /\ static \in [unused_recs : MIN_CHRONO_RECS..MAX_CHRONO_RECS]
       ELSE db = Closed
=============================================================================
