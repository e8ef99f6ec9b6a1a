-------------------------------- MODULE Tools --------------------------------
(***************************************************************************)
(* The programs of the library: each opens the device, starts a session,   *)
(* works on the watch, ends the session and exits.  Any call may fail; a   *)
(* program's main says what it goes on with then.                          *)
(*                                                                         *)
(* What a program asks of the watch is a set of things: its database, the  *)
(* options, the locks, or the files of load_dlusb and dump_dlusb.          *)
(***************************************************************************)
EXTENDS Integers, SequencesExt

CONSTANTS
    Programs,    \* the programs to start
    MaxItems     \* bound: files on the command line of dump_dlusb and load_dlusb

VARIABLES
    program, in, \* the program, and what its command line and its input hold
    pc,          \* the step it is at, 0 before the first
    handle,      \* the USB handle: "none", "open" (not claimed), "claimed"
    session,     \* "none", "open", "closed", "left" (its end failed)
    whole,       \* the things of which the program holds all
    wanted,      \* those that should be in the watch as it holds them
    stored,      \* those written completely
    torn,        \* those written in part
    sync,        \* the sync id of the watch: "old", "new"
    said,        \* something was printed on the standard error
    status       \* the exit status, -1 before the exit

vars == <<program, in, pc, handle, session, whole, wanted, stored, torn, sync, said, status>>

-----------------------------------------------------------------------------
(* The input of a program *)

\* the lines of the standard input change nothing, the header of the database
\* only (display format, description, type, what to do at the end), or records
Files == {"nothing", "headers", "records"}

\* the options that make a record are not all given, are given but no record
\* can be read of them, have no effect (there is one, or none, already), have one
Opts == {"few", "ill", "idle", "effective"}

\* what the files of dump_dlusb and load_dlusb are given for: an application, the
\* options, ROM or EEPROM, a WristApp with no file, an empty name
Items == {"app", "option", "memory", "noname", "skip"}

Inputs ==
    [tty : BOOLEAN, file : Files, opts : Opts,
     header : {"none", "kept", "type"}, \* desc=, display=, at_end=; type=
     all : {"no", "y", "n"},            \* -a and the answer
     empty : BOOLEAN,                   \* there is no record in the watch
     items : UNION {[1..n -> Items] : n \in 0..MaxItems}]

Plain == [tty |-> TRUE, file |-> "nothing", opts |-> "few", header |-> "none",
          all |-> "no", empty |-> FALSE, items |-> << >>]

Lines(i) == ~i.tty /\ i.file = "records"
Option(i) == i.opts = "effective"
Few(i) == i.tty /\ i.opts = "few"

-----------------------------------------------------------------------------
(* The programs: [usage, asks, steps, changed, updated, says].  usage: it    *)
(* prints its usage; asks: it asks before it deletes; changed: what it holds *)
(* is not what it read; updated: its variable of that name; says: it prints  *)
(* a format error.                                                           *)

Begin == <<<<"open_dev">>, <<"start_session">>>>
Editor(store) ==
    Begin \o <<<<"find_app">>, <<"read", 1>>, <<"edit">>, <<store, 1>>, <<"print">>,
               <<"end_session">>>>

Tool(usage, steps) ==
    [usage |-> usage, asks |-> FALSE, steps |-> steps,
     changed |-> FALSE, updated |-> FALSE, says |-> FALSE]

\* stores always, or when it is updated
Always(usage, changed, says) ==
    [Tool(usage, Editor("store")) EXCEPT !.changed = changed, !.updated = TRUE, !.says = says]
Updating(usage, changed, updated, says) ==
    [Tool(usage, Editor("store_updated")) EXCEPT
        !.changed = changed, !.updated = updated, !.says = says]

add_note(i) == Always(Few(i), Lines(i) \/ Option(i), FALSE)
add_appt(i) == Always(Few(i), Lines(i) \/ Option(i), i.opts = "ill")
add_chrono(i) ==
    Always(Few(i) /\ i.header # "kept",
           (~i.tty /\ i.file # "nothing") \/ Option(i) \/ i.header = "kept", i.opts = "ill")
add_countdn(i, is_countdn) ==
    Always(Few(i) /\ (is_countdn \/ i.header # "kept"),
           \/ Lines(i) \/ Option(i)
           \/ ~is_countdn /\ ((~i.tty /\ i.file # "nothing") \/ i.header = "kept"),
           i.opts = "ill")

\* Mutant of add_contact: only the lines of the input count as an update.
add_contact_lines(i) == Updating(Few(i), Lines(i) \/ Option(i), Lines(i), FALSE)
add_contact(i) == Updating(Few(i), Lines(i) \/ Option(i), Lines(i) \/ Option(i), FALSE)
add_occasion(i) ==
    Updating(Few(i), Lines(i) \/ Option(i), Lines(i) \/ Option(i), i.opts = "ill")

\* The description given on the command line counts as an update; header lines
\* alone, and type=, change the database the program holds and do not.
HeaderOnly(i) ==
    /\ (~i.tty /\ i.file = "headers") \/ i.header = "type"
    /\ ~Lines(i) /\ i.opts = "few" /\ i.header # "kept"
add_schedule(i) ==
    Updating(Few(i) /\ i.header # "kept",
             Lines(i) \/ Option(i) \/ i.header = "kept" \/ HeaderOnly(i),
             Lines(i) \/ i.opts # "few" \/ i.header = "kept", i.opts = "ill")

\* a program that deletes: -a asks, and deletes all or stops
Emptying(i, t) ==
    IF i.all = "no" THEN t
    ELSE [t EXCEPT !.usage = FALSE, !.asks = TRUE, !.changed = ~i.empty,
                   !.updated = ~i.empty, !.says = FALSE]

Deletes(i) == ~i.empty /\ (Lines(i) \/ Option(i))

del_note(i) ==
    [Emptying(i, Always(Few(i), Deletes(i), FALSE)) EXCEPT !.updated = TRUE]
del_appt(i) ==
    [Emptying(i, Always(Few(i), Deletes(i), i.opts = "ill")) EXCEPT !.updated = TRUE]
del_chrono(i) ==
    [Emptying(i, Always(Few(i), Deletes(i), FALSE)) EXCEPT !.updated = TRUE]
del_contact(i) == Emptying(i, Updating(Few(i), Deletes(i), Deletes(i), FALSE))
del_occasion(i) == Emptying(i, Updating(Few(i), Deletes(i), Deletes(i), i.opts = "ill"))
del_schedule(i) == Emptying(i, Updating(Few(i), Deletes(i), Deletes(i), i.opts = "ill"))
del_countdn(i) == Emptying(i, Updating(Few(i), Deletes(i), Deletes(i), FALSE))

\* reads, prints and leaves the sync id alone
Reader(steps) == Tool(FALSE, Begin \o steps \o <<<<"print">>, <<"exit_session">>>>)
ReadAdd == <<<<"find_app">>, <<"read", 1>>>>

print_note(i) == Reader(<<<<"read", 1>>>>)
print_appt(i) == Reader(<<<<"read", 1>>>>)
print_chrono(i) == Reader(<<<<"read", 1>>>>)
print_contact(i) == Reader(ReadAdd)
print_occasion(i) == Reader(ReadAdd)
print_schedule(i) == Reader(ReadAdd)
print_countdn(i) == Reader(ReadAdd)
print_chrono_report(i) == Reader(<<<<"read", 1>>>>)
sysinfo_dlusb(i) == Reader(<< >>)
export_chrono_csv(i) ==
    Tool(FALSE, Begin \o <<<<"read", 1>>, <<"export">>, <<"exit_session">>>>)

\* writes a database back with another number of unused records
Unused(ending) == Tool(FALSE, Begin \o ReadAdd \o <<<<"edit">>, <<"store", 1>>, <<ending>>>>)
Wider(t) == [t EXCEPT !.changed = TRUE]

\* Mutant of unused_note: it ends the session as a program that only reads.
unused_note_kept(i) == Wider(Unused("exit_session"))
unused_note(i) == Wider(Unused("end_session"))
unused_appt(i) == Wider(Unused("end_session"))
unused_chrono(i) == Wider(Unused("end_session"))

\* each file of dump_dlusb and load_dlusb takes three steps, some of them nothing
ThreeEach(files) ==
    [j \in 1..(3 * Len(files)) |-> files[(j + 2) \div 3][((j + 2) % 3) + 1]]

\* the steps of file k of dump_dlusb
Dumped(item, k) ==
    CASE item = "app" -> <<<<"find_app">>, <<"read", k>>, <<"write_file">>>>
      [] item \in {"option", "memory"} -> <<<<"pass">>, <<"read", k>>, <<"write_file">>>>
      [] item = "noname" -> <<<<"noname">>, <<"pass">>, <<"pass">>>>
      [] item = "skip" -> <<<<"pass">>, <<"pass">>, <<"pass">>>>
dump_dlusb(i) ==
    Tool(i.items = << >>,
         Begin \o ThreeEach([k \in DOMAIN i.items |-> Dumped(i.items[k], k)])
               \o <<<<"exit_session">>>>)

\* the steps of file k of load_dlusb
Loaded(item, k) ==
    CASE item = "app" -> <<<<"file", k>>, <<"find_app">>, <<"store", k>>>>
      [] item = "option" -> <<<<"file", k>>, <<"pass">>, <<"store", k>>>>
      [] item = "noname" -> <<<<"noname">>, <<"pass">>, <<"pass">>>>
      [] item = "skip" -> <<<<"pass">>, <<"pass">>, <<"pass">>>>
load_dlusb(i) ==
    Tool(i.items = << >>,
         Begin \o ThreeEach([k \in DOMAIN i.items |-> Loaded(i.items[k], k)])
               \o <<<<"end_session">>>>)

\* lock=, unlock=: an application that is not there is passed over; what
\* start_session read of the applications is written back
lock_dlusb(i) ==
    Tool(i.opts = "few", Begin \o <<<<"make", 1>>, <<"store", 1>>, <<"end_session">>>>)
tod_dlusb(i) ==
    Tool(i.opts = "ill", Begin \o <<<<"make", 1>>, <<"store", 1>>, <<"end_session">>>>)

option_dlusb(i) ==
    LET scanned == IF i.tty THEN << >> ELSE <<<<"edit">>, <<"update", 1>>>>
    IN  [Tool(FALSE, Begin \o <<<<"read", 1>>>> \o scanned
                           \o <<<<"print">>, <<"end_session">>>>)
            EXCEPT !.changed = Lines(i)]

Readers ==
    {"print_note", "print_appt", "print_chrono", "print_contact", "print_occasion",
     "print_schedule", "print_countdn", "print_chrono_report", "export_chrono_csv",
     "sysinfo_dlusb", "dump_dlusb"}

The(p, i) ==
    CASE p = "add_note" -> add_note(i)
      [] p = "add_appt" -> add_appt(i)
      [] p = "add_chrono" -> add_chrono(i)
      [] p = "add_countdn" -> add_countdn(i, TRUE)
      [] p = "add_interval" -> add_countdn(i, FALSE)
      [] p = "add_contact" -> add_contact(i)
      [] p = "add_occasion" -> add_occasion(i)
      [] p = "add_schedule" -> add_schedule(i)
      [] p = "del_note" -> del_note(i)
      [] p = "del_appt" -> del_appt(i)
      [] p = "del_chrono" -> del_chrono(i)
      [] p = "del_countdn" -> del_countdn(i)
      [] p = "del_contact" -> del_contact(i)
      [] p = "del_occasion" -> del_occasion(i)
      [] p = "del_schedule" -> del_schedule(i)
      [] p = "print_note" -> print_note(i)
      [] p = "print_appt" -> print_appt(i)
      [] p = "print_chrono" -> print_chrono(i)
      [] p = "print_contact" -> print_contact(i)
      [] p = "print_occasion" -> print_occasion(i)
      [] p = "print_schedule" -> print_schedule(i)
      [] p = "print_countdn" -> print_countdn(i)
      [] p = "print_chrono_report" -> print_chrono_report(i)
      [] p = "export_chrono_csv" -> export_chrono_csv(i)
      [] p = "sysinfo_dlusb" -> sysinfo_dlusb(i)
      [] p = "dump_dlusb" -> dump_dlusb(i)
      [] p = "load_dlusb" -> load_dlusb(i)
      [] p = "lock_dlusb" -> lock_dlusb(i)
      [] p = "tod_dlusb" -> tod_dlusb(i)
      [] p = "option_dlusb" -> option_dlusb(i)
      [] p = "unused_note" -> unused_note(i)
      [] p = "unused_appt" -> unused_appt(i)
      [] p = "unused_chrono" -> unused_chrono(i)

Adders == {"add_note", "add_appt", "add_chrono", "add_countdn", "add_interval",
           "add_contact", "add_occasion", "add_schedule"}
Deleters == {"del_note", "del_appt", "del_chrono", "del_countdn", "del_contact",
             "del_occasion", "del_schedule"}

AllPrograms == Adders \cup Deleters \cup Readers \cup
    {"load_dlusb", "lock_dlusb", "tod_dlusb", "option_dlusb",
     "unused_note", "unused_appt", "unused_chrono"}

ASSUME ProgramsAssumption == Programs \subseteq AllPrograms
ASSUME ItemsAssumption == MaxItems \in Nat

\* a note or a contact is always read from what is given, and so is what names a
\* workout or a timer to delete; a lap is always added
Given(p) ==
    CASE p \in {"add_note", "del_note", "add_contact", "del_contact", "del_chrono",
                "del_countdn"} -> Opts \ {"ill"}
      [] p = "add_chrono" -> Opts \ {"idle"}
      [] OTHER -> Opts

WithItems(s) == {[Plain EXCEPT !.items = f] : f \in UNION {[1..n -> s] : n \in 0..MaxItems}}

InputsOf(p) ==
    CASE p \in Adders -> {i \in Inputs : /\ i.opts \in Given(p) /\ i.items = << >>
                                         /\ i.all = "no" /\ ~i.empty}
      [] p \in Deleters -> {i \in Inputs : /\ i.opts \in Given(p) /\ i.items = << >>
                                           /\ i.header = "none"}
      [] p = "dump_dlusb" -> WithItems(Items)
      [] p = "load_dlusb" -> WithItems(Items \ {"memory"})
      [] OTHER -> {[Plain EXCEPT !.tty = f = "nothing", !.file = f, !.opts = o] :
                      f \in Files, o \in Opts}

-----------------------------------------------------------------------------
(* The steps *)

Main == The(program, in)
Ending == Len(Main.steps)    \* end_session or exit_session
Step == Main.steps[pc]

At(kind) == pc \in 1..Ending /\ Step[1] = kind
GoOn == pc' = pc + 1

\* Mutants of Target: a failed call is passed over; goto exit.
Beyond == pc + 1
Gone == Ending + 1
\* goto end
Target == Ending
Fail == said' = TRUE /\ pc' = Target

Init ==
    /\ program \in Programs /\ in \in InputsOf(program)
    /\ pc = 0 /\ handle = "none" /\ session = "none"
    /\ whole = {} /\ wanted = {} /\ stored = {} /\ torn = {}
    /\ sync = "old" /\ said = FALSE /\ status = -1

Quit(code) ==
    /\ status' = code
    /\ pc' = Ending + 2
    /\ UNCHANGED <<program, in, handle, session, whole, wanted, stored, torn, sync>>

Usage ==
    /\ pc = 0
    /\ Main.usage
    /\ said' = TRUE
    /\ Quit(1)

Declined ==
    /\ pc = 0
    /\ Main.asks /\ in.all = "n"
    /\ UNCHANGED said
    /\ Quit(0)

Start ==
    /\ pc = 0
    /\ ~Main.usage
    /\ ~(Main.asks /\ in.all = "n")
    /\ GoOn
    /\ UNCHANGED <<program, in, handle, session, whole, wanted, stored, torn, sync, said, status>>

\* fails before or after libusb_open
open_dev ==
    /\ At("open_dev")
    /\ \/ handle' = "claimed" /\ GoOn /\ UNCHANGED said
       \/ handle' \in {"none", "open"} /\ said' = TRUE /\ pc' = Ending + 1
    /\ UNCHANGED <<program, in, session, whole, wanted, stored, torn, sync, status>>

start_session ==
    /\ At("start_session")
    /\ \/ session' = "open" /\ GoOn /\ UNCHANGED said
       \/ said' = TRUE /\ pc' = Ending + 1 /\ UNCHANGED session
    /\ UNCHANGED <<program, in, handle, whole, wanted, stored, torn, sync, status>>

find_app ==
    /\ At("find_app")
    /\ \/ GoOn /\ UNCHANGED said
       \/ Fail
    /\ UNCHANGED <<program, in, handle, session, whole, wanted, stored, torn, sync, status>>

\* dump_add, read_*_mem, read_raw_option, dump_rom, dump_eeprom
Read ==
    /\ At("read")
    /\ \/ whole' = whole \cup {Step[2]} /\ GoOn /\ UNCHANGED said
       \/ Fail /\ UNCHANGED whole
    /\ UNCHANGED <<program, in, handle, session, wanted, stored, torn, sync, status>>

\* stat, open and read of a file of load_dlusb
ReadFile ==
    /\ At("file")
    /\ wanted' = wanted \cup {Step[2]}
    /\ \/ whole' = whole \cup {Step[2]} /\ GoOn /\ UNCHANGED said
       \/ Fail /\ UNCHANGED whole
    /\ UNCHANGED <<program, in, handle, session, stored, torn, sync, status>>

\* the locks and the time are made of the command line alone
Make ==
    /\ At("make")
    /\ whole' = whole \cup {Step[2]} /\ wanted' = wanted \cup {Step[2]}
    /\ GoOn
    /\ UNCHANGED <<program, in, handle, session, stored, torn, sync, said, status>>

\* a WristApp without a file
NoName ==
    /\ At("noname")
    /\ Fail
    /\ UNCHANGED <<program, in, handle, session, whole, wanted, stored, torn, sync, status>>

\* an application of no name is skipped; what has no banner is not looked for
Pass ==
    /\ At("pass")
    /\ GoOn
    /\ UNCHANGED <<program, in, handle, session, whole, wanted, stored, torn, sync, said, status>>

\* add_*_file, add_*, del_*_file, del_*, scan_option
Edit ==
    /\ At("edit")
    /\ wanted' = IF Main.changed THEN whole ELSE wanted
    /\ said' = (said \/ Main.says)
    /\ GoOn
    /\ UNCHANGED <<program, in, handle, session, whole, stored, torn, sync, status>>

NotUpdated ==
    /\ At("store_updated")
    /\ ~Main.updated
    /\ GoOn
    /\ UNCHANGED <<program, in, handle, session, whole, wanted, stored, torn, sync, said, status>>

\* load_add, update_acd, update_tod, write_abs_addr
Store ==
    /\ At("store") \/ (At("store_updated") /\ Main.updated)
    /\ \/ stored' = stored \cup {Step[2]} /\ GoOn /\ UNCHANGED <<torn, said>>
       \/ Fail /\ torn' \in {torn, torn \cup {Step[2]}} /\ UNCHANGED stored
    /\ UNCHANGED <<program, in, handle, session, whole, wanted, sync, status>>

\* option_dlusb takes no notice of what update_option returns
update_option ==
    /\ At("update")
    /\ \/ stored' = stored \cup {Step[2]} /\ UNCHANGED <<torn, said>>
       \/ said' = TRUE /\ torn' \in {torn, torn \cup {Step[2]}} /\ UNCHANGED stored
    /\ GoOn
    /\ UNCHANGED <<program, in, handle, session, whole, wanted, sync, status>>

Output ==
    /\ \/ At("print") /\ GoOn /\ UNCHANGED said
       \/ At("export") /\ GoOn /\ said' \in {said, TRUE}
       \/ At("write_file") /\ ((GoOn /\ UNCHANGED said) \/ Fail)
    /\ UNCHANGED <<program, in, handle, session, whole, wanted, stored, torn, sync, status>>

\* The sync id is written, which may fail before or after it is, then the watch
\* is told that the session is complete.
Complete(ids) ==
    /\ \/ session' = "closed" /\ sync' = ids[2] /\ UNCHANGED said
       \/ session' = "left" /\ sync' \in Range(ids) /\ said' = TRUE
    /\ GoOn
    /\ UNCHANGED <<program, in, handle, whole, wanted, stored, torn, status>>

end_session == At("end_session") /\ Complete(<<sync, "new">>)
exit_session == At("exit_session") /\ Complete(<<sync, sync>>)

\* an interface that was not claimed cannot be released
close_dev ==
    /\ pc = Ending + 1
    /\ IF handle = "claimed"
       THEN \/ handle' = "none" /\ UNCHANGED said
            \/ said' = TRUE /\ UNCHANGED handle
       ELSE said' = TRUE /\ UNCHANGED handle
    /\ status' = IF session = "closed" THEN 0 ELSE 1
    /\ GoOn
    /\ UNCHANGED <<program, in, session, whole, wanted, stored, torn, sync>>

Next ==
    \/ Usage \/ Declined \/ Start
    \/ open_dev \/ start_session \/ find_app
    \/ Read \/ ReadFile \/ Make \/ NoName \/ Pass \/ Edit
    \/ NotUpdated \/ Store \/ update_option \/ Output
    \/ end_session \/ exit_session \/ close_dev

\* A program runs on: no call of libusb waits without a timeout.
Spec == Init /\ [][Next]_vars /\ WF_vars(Next)

-----------------------------------------------------------------------------

Things == 1..Max({1, MaxItems})

\* Type correctness: what is stored or torn is something the program had a whole
\* of, or something load_dlusb took from a file.
TypeOK ==
    /\ program \in Programs /\ in \in InputsOf(program)
    /\ pc \in 0..(Ending + 2)
    /\ handle \in {"none", "open", "claimed"}
    /\ session \in {"none", "open", "closed", "left"}
    /\ whole \subseteq Things /\ wanted \subseteq Things
    /\ stored \subseteq whole /\ torn \subseteq whole
    /\ sync \in {"old", "new"} /\ said \in BOOLEAN /\ status \in {-1, 0, 1}

\* A program that exits with status 0 and has printed no error has done all it
\* was asked: what it changed is in the watch, complete, and the session is
\* closed if there was one.  The status alone says neither: after "goto end" it
\* is 0 too.  Except for add_schedule: header lines, or type=, without a record
\* or a description change what it prints, not the watch.
ZeroTells ==
    status = 0 /\ ~said =>
        /\ session = IF Main.asks /\ in.all = "n" THEN "none" ELSE "closed"
        /\ torn = {}
        /\ wanted \subseteq stored \/ (program = "add_schedule" /\ HeaderOnly(in))

\* The sync id is new in a watch whose session was closed after anything was
\* written, in part too, and old after a program that only reads (end_session,
\* exit_session): other software relies on it to see that the watch changed.
SyncIdTells ==
    /\ session = "closed" /\ stored \cup torn # {} => sync = "new"
    /\ program \in Readers => sync = "old" /\ stored \cup torn = {}

\* Nothing is written to the watch but what the program holds all of, in an open
\* session on a claimed interface: a database read in part is never stored.
StoreAfterRead ==
    [][/\ (stored \cup torn)' \ (stored \cup torn) \subseteq whole
       /\ (stored \cup torn)' # stored \cup torn => session = "open" /\ handle = "claimed"]_vars

\* Every program ends, and leaves no session open and, unless it was told that
\* it cannot be released, no interface claimed.
Ends == <>[](status # -1 /\ session # "open" /\ (handle = "claimed" => said))
=============================================================================
