------------------------------- MODULE InitApps -------------------------------
(***************************************************************************)
(* init_dlusb: all applications are deleted from the watch and those of    *)
(* the command line are installed one after another.                       *)
(*                                                                         *)
(* The watch puts each application it initialises at the next index of its *)
(* table.  Its reply does not say which: the host counts along (comm.c,    *)
(* init_app_idx) and writes code, database and banner where the table has  *)
(* them for that index.  Every command may fail; main ignores what the     *)
(* functions that install an application return, and goes on to the next.  *)
(* A reply that comes late is taken for a lost one here; Tucp shows what   *)
(* else it can do.                                                         *)
(***************************************************************************)
EXTENDS Integers, Sequences

CONSTANTS
    NUM_APPS,   \* size of the watch's tables
    Lists,      \* the command lines: sequences of kinds
    Olds,       \* how many applications the watch may have had before
    Pages       \* write commands one part takes

\* bare: no data (synchro); int: an internal application with a database;
\* ext, extdb: a WristApp without and with a database; option: see SetOption
Kinds == {"bare", "int", "ext", "extdb", "option"}
Parts == {"code", "add", "banner"}

\* what is written to the EEPROM for an application, in this order
PartsOf(k) == CASE k = "int"   -> << "add" >>
                [] k = "ext"   -> << "code", "banner" >>
                [] k = "extdb" -> << "code", "add", "banner" >>
                [] OTHER       -> << >>

\* TOD and COMM have indices 0 and 1 and are never deleted.
First == 2
MaxApps == NUM_APPS - First

ASSUME SizeAssumption == NUM_APPS \in Nat /\ NUM_APPS > First
\* "too many applications": main exits before it opens the watch
ASSUME ListsAssumption == \A l \in Lists : l \in Seq(Kinds) /\ Len(l) <= MaxApps
ASSUME OldsAssumption == Olds \subseteq 0..MaxApps
ASSUME PagesAssumption == Pages \in Nat \ {0}

\* a request is its position in the list; 0 stands for what was there before
Requests == 0..MaxApps
Entries == [req : Requests, inst : Nat]
Contents == [req : Requests, pages : 0..Pages]
Blank == [req |-> 0, pages |-> 0]

\* Index 0 stands for the address 0 of a table entry that is not in use.
Indices == {0} \cup (First..(NUM_APPS - 1))

VARIABLES
    table,         \* watch: entry j is the application of index j + 1
    area,          \* watch: what each part of each index holds
    init_app_idx,  \* host: the index it believes to be the last one
    known,         \* host: length of the table when last read
    pc,            \* where the program is
    list, binary,  \* its arguments: the applications, and option -b
    i,             \* the request being worked on, from 1
    part, off,     \* of the data to be written: which part, pages written
    ret,           \* exit status
    done,          \* history: requests whose function returned 0
    unseen         \* history: an application was installed without the
                   \* host getting to know

host == <<init_app_idx, known>>
program == <<pc, list, binary, i, part, off, ret>>
vars == <<table, area, host, program, done, unseen>>

kind == list[i]

Init ==
    /\ list \in Lists /\ binary \in BOOLEAN
    /\ \E n \in Olds : table = [j \in 1..n |-> [req |-> 0, inst |-> j]]
    /\ area = [x \in Indices \X Parts |-> Blank]
    /\ init_app_idx = -1 /\ known = 0
    /\ pc = "open" /\ i = 1 /\ part = 1 /\ off = 0 /\ ret = 1
    /\ done = {} /\ unseen = FALSE

Goto(l) == pc' = l /\ UNCHANGED <<list, binary, i, part, off, ret>>

-----------------------------------------------------------------------------
(* Deleting what is there *)

\* start_session succeeds, or the program exits at once.
StartSession ==
    /\ pc = "open"
    /\ \/ Goto("delete") /\ known' = Len(table)
       \/ Goto("exit") /\ UNCHANGED known
    /\ UNCHANGED <<table, area, init_app_idx, done, unseen>>

\* comm_multi_packet_write and comm_del_all_apps
DelAllApps ==
    /\ pc = "delete"
    /\ table' = << >>
    /\ init_app_idx' = -1
    /\ Goto("zero")
    /\ UNCHANGED <<area, known, done, unseen>>

\* Mutant of DelAllFails: the error is not looked at.
DeletionUnchecked ==
    /\ pc = "delete"
    /\ table' \in {table, << >>}
    /\ Goto("zero")
    /\ UNCHANGED <<area, host, done, unseen>>

\* One of the two fails; the watch may have deleted the applications.
DelAllFails ==
    /\ pc = "delete"
    /\ table' \in {table, << >>}
    /\ Goto("end")
    /\ UNCHANGED <<area, host, done, unseen>>

\* The rest of del_all_apps: the table's entries are filled with zeros.
ZeroTable ==
    /\ pc = "zero"
    /\ Goto("next") \/ Goto("end")
    /\ UNCHANGED <<table, area, host, done, unseen>>

-----------------------------------------------------------------------------
(* The loop over the applications *)

\* Mutant of NextRequest: the same application is tried again.
SameRequest ==
    /\ pc' = "next" /\ i' = i /\ part' = 1 /\ off' = 0
    /\ UNCHANGED <<list, binary, ret>>

\* back to the head of the loop, with the next request
NextRequest ==
    /\ pc' = "next" /\ i' = i + 1 /\ part' = 1 /\ off' = 0
    /\ UNCHANGED <<list, binary, ret>>

\* The function that installs the application returns; an option page is
\* written after it.
Leave == IF kind = "option" THEN Goto("option") ELSE NextRequest

\* The application's files are read before anything is sent.
Prepare ==
    /\ pc = "next"
    /\ i <= Len(list)
    /\ Goto("init")
    /\ UNCHANGED <<table, area, host, done, unseen>>

\* A file is missing, or is no WristApp.  main ends, unless it is
\* init_ext_app that finds out.  The file of options is a matter of SetOption,
\* unless it is binary.
FileMissing ==
    /\ pc = "next"
    /\ i <= Len(list)
    /\ \/ kind \in {"ext", "extdb"} /\ NextRequest
       \/ kind = "int" /\ Goto("end")
       \/ kind = "option" /\ binary /\ Goto("end")
    /\ UNCHANGED <<table, area, host, done, unseen>>

\* Mutant of NextIdx: an index is not passed over for TOD and COMM.
CountFromZero == init_app_idx + 1

\* what comm_app_init_int and comm_app_init_ext make of init_app_idx
NextIdx == IF init_app_idx < 0 THEN First ELSE init_app_idx + 1

\* Mutant of init_app_inst: the same for the first two applications.
FromOldIdx == IF init_app_idx < First + 1 THEN 1 ELSE init_app_idx

\* get_init_app_inst
init_app_inst == IF init_app_idx < 0 THEN 1 ELSE init_app_idx

Installed == Append(table, [req |-> i, inst |-> init_app_inst])

\* The application is initialised and the ACK arrives.
AppInit ==
    /\ pc = "init"
    /\ Len(table) < MaxApps
    /\ table' = Installed
    /\ init_app_idx' = NextIdx
    /\ Goto("sysinfo")
    /\ UNCHANGED <<area, known, done, unseen>>

\* Mutant of AppInitFails: the index is counted before the reply is looked at.
CountAttempts ==
    /\ pc = "init"
    /\ \/ UNCHANGED <<table, unseen>>
       \/ Len(table) < MaxApps /\ table' = Installed /\ unseen' = TRUE
    /\ Leave
    /\ init_app_idx' = NextIdx
    /\ UNCHANGED <<area, known, done>>

\* The command fails, and the watch has run it or not.
AppInitFails ==
    /\ pc = "init"
    /\ \/ UNCHANGED <<table, unseen>>
       \/ Len(table) < MaxApps /\ table' = Installed /\ unseen' = TRUE
    /\ Leave
    /\ UNCHANGED <<area, host, done>>

\* read_sysinfo
ReadSysinfo ==
    /\ pc = "sysinfo"
    /\ \/ known' = Len(table) /\ Goto("write")
       \/ UNCHANGED known /\ Leave
    /\ UNCHANGED <<table, area, init_app_idx, done, unseen>>

current == PartsOf(kind)[part]

\* The addresses of code and database are those of the table's entry, zero
\* in one that is not in use; that of the banner follows from the index.
Target == IF current = "banner" \/ init_app_idx < First + known
          THEN init_app_idx ELSE 0

Written == [area EXCEPT ![<<Target, current>>] =
               [req |-> i, pages |-> off + 1]]

\* one page of a part
WritePage ==
    /\ pc = "write"
    /\ part <= Len(PartsOf(kind))
    /\ area' = Written
    /\ IF off + 1 < Pages THEN off' = off + 1 /\ UNCHANGED part
                          ELSE off' = 0 /\ part' = part + 1
    /\ UNCHANGED <<table, host, pc, list, binary, i, ret, done, unseen>>

\* Mutant of WriteFails: the next part is written although this one failed.
NextPartAnyway ==
    /\ pc = "write"
    /\ part <= Len(PartsOf(kind))
    /\ area' \in {area, Written}
    /\ part' = part + 1 /\ off' = 0
    /\ UNCHANGED <<table, host, pc, list, binary, i, ret, done, unseen>>

\* The page may have been written all the same.
WriteFails ==
    /\ pc = "write"
    /\ part <= Len(PartsOf(kind))
    /\ area' \in {area, Written}
    /\ Leave
    /\ UNCHANGED <<table, host, done, unseen>>

\* init_int_app or init_ext_app returns 0.
AppDone ==
    /\ pc = "write"
    /\ part > Len(PartsOf(kind))
    /\ done' = done \cup {i}
    /\ Leave
    /\ UNCHANGED <<table, area, host, unseen>>

\* main reads the options from their file and writes their page, whose
\* failure it ignores.  It ends when the file is missing or of a wrong size.
\* Without -b the page is put together where data points to, which nothing
\* has set: memory that was freed or anywhere.
SetOption ==
    /\ pc = "option"
    /\ \/ NextRequest
       \/ Goto("end")
       \/ ~binary /\ Goto("crashed")
    /\ UNCHANGED <<table, area, host, done, unseen>>

AllDone ==
    /\ pc = "next"
    /\ i > Len(list)
    /\ Goto("end")
    /\ UNCHANGED <<table, area, host, done, unseen>>

\* end_session: one of its commands may fail.
EndSession ==
    /\ pc = "end"
    /\ ret' \in {0, 1}
    /\ pc' = "exit"
    /\ UNCHANGED <<table, area, host, list, binary, i, part, off, done, unseen>>

-----------------------------------------------------------------------------

Next ==
    \/ StartSession \/ DelAllApps \/ DelAllFails \/ ZeroTable
    \/ Prepare \/ FileMissing
    \/ AppInit \/ AppInitFails \/ ReadSysinfo
    \/ WritePage \/ WriteFails \/ AppDone
    \/ SetOption \/ AllDone \/ EndSession

Spec == Init /\ [][Next]_vars

\* The program runs on: every command it sends returns (Tucp, CallsReturn).
FairSpec == Spec /\ WF_vars(Next)

-----------------------------------------------------------------------------
(* Properties *)

TypeOK ==
    /\ table \in Seq(Entries) /\ Len(table) <= MaxApps
    /\ area \in [Indices \X Parts -> Contents]
    /\ init_app_idx \in {-1} \cup (First..(NUM_APPS - 1))
    /\ known \in 0..MaxApps
    /\ pc \in {"open", "delete", "zero", "next", "init", "sysinfo", "write",
               "option", "end", "exit", "crashed"}
    /\ list \in Lists /\ binary \in BOOLEAN
    /\ i \in 1..(MaxApps + 1)
    /\ pc \in {"init", "sysinfo", "write", "option"} => i <= Len(list)
    /\ part \in Nat \ {0} /\ off \in 0..(Pages - 1)
    /\ ret \in {0, 1}
    /\ done \subseteq Requests /\ unseen \in BOOLEAN

\* the index of the last application the watch has installed
latest == Len(table) + 1

installing == {"next", "init", "sysinfo", "write", "option"}

\* While no reply is lost the host's count is the watch's own, however many
\* installations were refused or cut short before.
IdxInStep ==
    pc \in installing /\ ~unseen =>
        init_app_idx = IF table = << >> THEN -1 ELSE latest

\* What stands at an index belongs to the application installed there.
OwnAreas ==
    ~unseen => \A x \in Indices, p \in Parts :
        area[<<x, p>>].req # 0 =>
            x - 1 \in DOMAIN table /\ table[x - 1].req = area[<<x, p>>].req

\* An application whose function returned 0 is installed with all its data,
\* and whatever happens to those after it, it stays so.
InstalledComplete ==
    ~unseen => \A r \in done : \E j \in DOMAIN table :
        /\ table[j].req = r
        /\ \A n \in DOMAIN PartsOf(list[r]) :
              area[<<j + 1, PartsOf(list[r])[n]>>] = [req |-> r, pages |-> Pages]

\* "application instance: ascending order" (dlusb.h:309), which holds as long
\* as no reply is lost.
InstancesAscend ==
    ~unseen => \A j, k \in DOMAIN table :
        j < k => table[j].inst < table[k].inst

\* Old and new applications never stand in the table together, and nothing is
\* written below the databases, where an unused entry points to: even when
\* replies are lost the host's count does not run ahead of the watch's.
DeletedFirst ==
    /\ \A j, k \in DOMAIN table : table[j].req = 0 => table[k].req = 0
    /\ \A p \in Parts : area[<<0, p>>] = Blank

\* What these rest on: nothing is written before the deletion; the host's
\* count is never ahead of the watch's; the application at hand is the one
\* installed last; and no old application is left once the first is installed.
InstallInv ==
    /\ pc \in {"open", "delete", "zero"} =>
          \A x \in Indices \X Parts : area[x] = Blank
    /\ pc = "zero" => table = << >> /\ init_app_idx = -1
    /\ pc \in installing =>
          /\ init_app_idx <= latest
          /\ \A j \in DOMAIN table : table[j].req # 0
    /\ pc \in {"sysinfo", "write"} =>
          init_app_idx # -1 /\ table # << >> /\ table[Len(table)].req = i
    /\ pc = "write" => known = Len(table)

\* Why InstalledComplete holds: nothing is done before the loop; a request is
\* done after those before it and at most once; the parts of the application
\* at hand are written in order from the first, each whole before the next.
CompleteInv ==
    /\ pc \in {"open", "delete", "zero"} => done = {}
    /\ \A r \in done : r \in 1..Len(list) /\ r <= i
    /\ pc \in {"next", "init", "sysinfo", "write"} => i \notin done
    /\ pc \in {"open", "delete", "zero", "next", "init", "sysinfo"} => part = 1
    /\ pc = "write" =>
          /\ part <= Len(PartsOf(kind)) + 1
          /\ ~unseen => \A n \in 1..(part - 1) :
                area[<<latest, PartsOf(kind)[n]>>] = [req |-> i, pages |-> Pages]

\* Counts, table and parts say the same of how far the installation has come.
InstallingInv == InstallInv /\ CompleteInv

\* init_int_app and init_ext_app write to "the latest application index"
\* (memory.c:605 and 778).
LatestIndex ==
    pc = "write" /\ part <= Len(PartsOf(kind)) => init_app_idx = latest

\* Every run of the program ends.
Ends == pc = "open" ~> pc \in {"exit", "crashed"}

=============================================================================
