----------------------------- MODULE Databases ------------------------------
(***************************************************************************)
(* The databases of the watch, and its options: one of the applications,   *)
(* chosen at the start, is worked on by one program after another.         *)
(***************************************************************************)
EXTENDS LinkedAdd

CONSTANTS
    Apps,
    Appts, LastTime, Contacts, Begins, Occasions, Schedules, Descs, Default, Timers, TimersHeld,
    AtEnds, Laps, Displays, Recs, Freed, MIN_CHRONO_RECS, MAX_CHRONO_RECS,
    OptionNumbers, NITE_ON_HOUR, NITE_ON_MINUTE

ASSUME ChronoAssumption ==
    MIN_CHRONO_RECS \in Nat /\ MAX_CHRONO_RECS \in MIN_CHRONO_RECS..255 /\ Recs \subseteq Int

\* Texts that begin with a stand next to each other in the order of the texts.
ASSUME BeginsAssumption ==
    \A p \in Begins :
        /\ p \in Msgs \X Msgs /\ p[1] < p[2] /\ MsgLen[p[1]] < MsgLen[p[2]]
        /\ \A m \in Msgs :
              /\ p[1] < m /\ m < p[2] => <<p[1], m>> \in Begins
              /\ <<p[2], m>> \in Begins => <<p[1], m>> \in Begins

Note == INSTANCE NoteDb
Appt == INSTANCE ApptDb
Contact == INSTANCE ContactDb
Occasion == INSTANCE OccasionDb
Schedule == INSTANCE ScheduleDb
Chrono == INSTANCE ChronoDb
Timer == INSTANCE TimerDb
Option == INSTANCE OptionDb

\* The lines of a file are what read_*_line accepts.
ASSUME SchedulesAssumption == Schedules \subseteq Schedule!Lines
ASSUME TimersAssumption == Timers \subseteq Timer!Lines /\ TimersHeld \in Nat
ASSUME OccasionsAssumption == Occasions \subseteq Occasion!Lines
ASSUME ContactsAssumption == Contacts \subseteq Contact!Lines
ASSUME LapsAssumption == Laps \subseteq Chrono!Lines

\* The records that fit in the memory for MAX_CHRONO_RECS are counted in a byte.
ASSUME RoomAssumption ==
    alloc(Chrono!HDR + 5 * MAX_CHRONO_RECS) < Chrono!HDR + 5 * 256

Init ==
    /\ app \in Apps
    /\ \/ Note!Init \/ Appt!Init \/ Contact!Init \/ Occasion!Init
       \/ Schedule!Init \/ Chrono!Init \/ Timer!Init \/ Option!Init

Next ==
    \/ Note!Next \/ Appt!Next \/ Contact!Next \/ Occasion!Next
    \/ Schedule!Next \/ Chrono!Next \/ Timer!Next \/ Option!Next

Spec == Init /\ [][Next]_vars

-----------------------------------------------------------------------------


\* Type correctness: a program holds a database exactly while it works on one.
TypeOK ==
    /\ app \in Apps /\ prog \in Progs
    /\ (db = Closed) <=> ~Holding
    /\ (static = << >>) <=> ~Holding
    /\ app # "option" =>
         /\ Len(db.recs) <= 2 * MaxRecs + 2
         /\ image.hdr.db_size \in 0..65535 /\ image.hdr.alloc_size \in 0..65535
         /\ image.hdr.alloc_size % PAGE_SIZE = 0
    /\ app = "option" => Option!read_option(image) \in Option!Options

\* The notes, appointments and alarms in the watch are sound lists: records and
\* unused ones can be walked both ways, are as many as the header counts, and
\* overlap nowhere (create_note, update_note, create_appt, update_appt).
LinksSound ==
    /\ app = "note" => WellLinked(image, Note!SIZE)
    /\ app \in {"appt", "alarm"} => WellLinked(image, Appt!SIZE)

\* Offsets and records of the other databases overlap nowhere and fit in the
\* size their header gives, however the sizes were kept up to date through
\* additions and deletions (add_*, del_*, create_*).
TablesFit ==
    CASE app = "contact" -> Contact!Fits
      [] app = "occasion" -> Occasion!Fits
      [] app = "schedule" -> Schedule!Fits
      [] app = "chrono" -> Chrono!Fits
      [] app \in {"countdn", "interval"} -> Timer!Fits
      [] OTHER -> TRUE

\* The counts and indices a header repeats are those of its records: recurring
\* and last occasions, used and unused laps and the last workout.
HeadersAgree ==
    /\ app = "occasion" => Occasion!HeaderAgrees
    /\ app = "chrono" => Chrono!HeaderAgrees

\* What is stored is in the order the application shows it in.
ListsSorted ==
    CASE app = "note" -> prog = "closed" /\ req = <<"save">> => Note!InOrder
      [] app \in {"appt", "alarm"} -> prog = "closed" /\ req = <<"save">> => Appt!InOrder
      [] app = "contact" -> Contact!InOrder
      [] app = "occasion" -> Occasion!InOrder
      [] app = "schedule" -> Schedule!InOrder
      [] app \in {"countdn", "interval"} -> Timer!InOrder
      [] OTHER -> TRUE

\* The offset of a contact that shares a text leads to the one that owns it,
\* also after the owner was deleted (del_contact).
OwnersFirst == app = "contact" => Contact!OffsetsLead(db.recs)

\* All times of the schedules are of the type in the header, and the program
\* reads lines as that type, whatever header lines and options asked for
\* (update_schedule_group_type).
OneType ==
    app = "schedule" /\ Holding =>
        Schedule!OneType(db) /\ static.group_type = db.hdr.group_type

\* However schedules were added, deleted and retyped, the sizes in the header of
\* the database and of each group are those of what is in them, groups and records
\* are in order, every record has the type of the header, and what was stored is
\* what will be read (add_schedule, del_schedule, update_schedule_group_type,
\* create_schedule, read_schedule).
SchedulesSound == app = "schedule" => Schedule!SoundInv

\* However occasions were added and deleted, the recurring ones come first, as many
\* as the header counts, each part in order, and the size is that of all
\* (add_occasion, del_occasion, create_occasion, read_occasion).
OccasionsSound == app = "occasion" => Occasion!SoundInv

\* However timers were added and deleted, they are in order, and count and size are
\* theirs (add_timer, del_timer, create_timer, read_timer).
TimersSound == app \in {"countdn", "interval"} => Timer!SoundInv

\* However contacts were added and deleted, the offset of each leads to the text it
\* shows, the texts are in order, and the size is that of all but for what was lost,
\* for which there is memory (add_contact, del_contact, create_contact, read_contact).
ContactsSound == app = "contact" => Contact!SoundInv

\* However laps were added and deleted, they are numbered, the best is the best, and
\* the header counts them, in bytes; what is stored has fewer than 256 records and is
\* read back (add_chrono, del_chrono, update_chrono, create_chrono, read_chrono).
ChronosSound == app = "chrono" => Chrono!SoundInv

\* What is kept of a database of offsets and records, or of laps, through any additions
\* and deletions, stores and reads, in the watch and in a program.
TablesSound ==
    SchedulesSound /\ OccasionsSound /\ TimersSound /\ ContactsSound /\ ChronosSound

\* After any additions and deletions the best lap of a workout is the shortest, and
\* its laps are numbered from 1 without a gap, but that del_chrono leaves the number
\* of a lap as it was when the link it reads from a freed lap leads astray: each such
\* deletion, and nothing else, puts the number of a lap behind one further from its
\* place (add_chrono, del_chrono).
LapsNumbered == app = "chrono" => Chrono!LapsNumbered(db.recs)

\* What print_* writes of the watch is read back by add_*_file into an empty
\* database as the same records, and what is printed of the options makes the
\* same options of any others.
PrintedRestores ==
    prog = "closed" =>
        CASE app = "note" -> Range(Note!print_note(Note!Restored)) = Range(Note!print_all_notes(image))
          [] app \in {"appt", "alarm"} ->
                Range(Appt!print_appt(Appt!Restored)) = Range(Appt!print_all_appts(image))
          [] app = "contact" ->
                Range(Contact!print_contact(Contact!Restored))
                    = Range(Contact!print_all_contacts(image))
          [] app = "occasion" ->
                Range(Occasion!print_occasion(Occasion!Restored))
                    = Range(Occasion!print_all_occasions(image))
          [] app = "schedule" ->
                image.hdr.group_type # 0 =>
                    Schedule!print_schedule(Schedule!Restored)
                        = Schedule!print_all_schedules(image)
          [] app = "chrono" -> Chrono!Restores
          [] app \in {"countdn", "interval"} -> Timer!Restores
          [] app = "option" -> Option!Restores

\* The two ways to print, from the database read and straight from the watch,
\* agree (print_*, print_all_*). Of 256 timers and more they do not:
\* print_all_timers counts them in a byte.
PrintsAgree ==
    prog = "closed" =>
        CASE app = "note" -> Note!print_note(Note!read_note_mem(image)) = Note!print_all_notes(image)
          [] app \in {"appt", "alarm"} ->
                Appt!print_appt(Appt!read_appt_mem(image)) = Appt!print_all_appts(image)
          [] app = "contact" ->
                Contact!print_contact(Contact!read_contact(image))
                    = Contact!print_all_contacts(image)
          [] app = "occasion" ->
                Occasion!print_occasion(Occasion!read_occasion(image))
                    = Occasion!print_all_occasions(image)
          [] app = "schedule" ->
                Schedule!print_schedule(Schedule!read_schedule(image))
                    = Schedule!print_all_schedules(image)
          [] app = "chrono" ->
                Chrono!print_chrono(Chrono!read_chrono_mem(image))
                    = Chrono!print_all_chronos(image)
          [] app \in {"countdn", "interval"} ->
                image.hdr.num_recs < 256 =>
                    Timer!print_timer(Timer!read_timer(image)) = Timer!print_all_timers(image)
          [] OTHER -> TRUE

-----------------------------------------------------------------------------
(* The bag of records a user keeps, whatever the layout *)

\* Alarms and schedules do not keep it (see NoAlarmFlag, DeletesAsked), laps have
\* no name of their own: their numbers change.
Bags == {"note", "appt", "contact", "occasion", "countdn", "interval"}

KeptIn(d) ==
    CASE app = "note" -> Note!Kept(d)
      [] app = "appt" -> Appt!Kept(d)
      [] app = "contact" -> Contact!Kept(d)
      [] app = "occasion" -> Occasion!Kept(d)
      [] app \in {"countdn", "interval"} -> Timer!Kept(d)
      [] OTHER -> EmptyBag

StoredIn(im) ==
    CASE app = "note" -> Note!Kept(Note!read_note_mem(im))
      [] app = "appt" -> Appt!Kept(Appt!read_appt_mem(im))
      [] app = "contact" -> Contact!Kept(Contact!read_contact(im))
      [] app = "occasion" -> Occasion!Kept(Occasion!read_occasion(im))
      [] app \in {"countdn", "interval"} -> Timer!Kept(Timer!read_timer(im))
      [] OTHER -> EmptyBag

Kept == IF Holding THEN KeptIn(db) ELSE EmptyBag
Stored == StoredIn(image)
Asked == IF app \in Bags THEN SubSeq(req, 1, Min({3, Len(req)})) ELSE <<"none">>

R == INSTANCE Records WITH kept <- Kept, stored <- Stored, req <- Asked

\* The databases implement bags of records: what is added is there, once; what
\* is deleted was asked for; nothing else changes; what is saved is what a
\* program held, and what is opened is what was saved.
Implements == R!Spec

-----------------------------------------------------------------------------
(* What the documentation says and the code does not do *)

\* dlusb.h: appt is 0 for an alarm.
NoAlarmFlag == app = "alarm" => \A j \in DOMAIN db.recs : db.recs[j].appt = 0

\* del_schedule: the record given by group=, msg= and time= is deleted, and no other.
DeletesAsked ==
    [][app = "schedule" /\ prog' = "del" /\ req'[1] = "del" =>
          Schedule!Kept(db') = IF BagIn(req'[2], Schedule!Kept(db))
                               THEN Schedule!Kept(db) (-) SetToBag({req'[2]})
                               ELSE Schedule!Kept(db)]_vars

\* add_countdn: halfway=yes sets the reminder of the timer.
HalfwayAsked ==
    [][app = "countdn" /\ prog' = "add" /\ Len(req') = 4 /\ req'[4].half = 1
         /\ Timer!find_timer(db, req'[4]) < 0 =>
          db'.recs[Timer!find_timer(db', req'[4]) + 1].half = 1]_vars
=============================================================================
