# Verification of libdlusb

TLA+ models of libdlusb, the C library and command-line tools that exchange
data with a Timex Data Link USB watch, model-checked with TLC and partly proved
with TLAPS. The library is sequential and has no tests of its own. Its
difficulties lie at the other end of the cable: a watch that answers late, wrongly or not
at all, a memory that is rearranged one command at a time, and databases
edited through long sequences of small operations on lists and counters.

## 1. The system

| Part | Files | State it keeps | Operations |
|---|---|---|---|
| USB back ends | `usb_libusb.c`, `usb_libusb-1.0.c`, `usb_usbhid.c` | device handle | open, close, send one 8-byte report, read one (blocking, with a timeout) |
| Transport (TUCP) | `tucp.c` | reports sent and received (`slen`, `rlen`) | `send_read_tucp_packet`: send a packet, read the reply, retry; `send_idle` |
| Commands | `comm.c` | one send and one receive buffer, `init_app_idx` | one function per command of the watch; areas are cut into pieces of 255 bytes and commands of one page (64) |
| Session | `session.c` | the tables read from the watch (`dldev_t`) | `start_session` reads them, `end_session` and `exit_session` write the sync id and say the exchange is complete |
| Memory | `memory.c` | the host's copies of the ACD and ACB tables | `load_add` stores a database; installing and deleting applications; time of day; options; dumps |
| Databases | `appt.c`, `note.c`, `contact.c`, `occasion.c`, `schedule.c`, `chrono.c`, `timer.c` | a doubly linked list of records and a header with counts and sizes | init, add, delete, find, sort, read from and write to the watch's format |
| Tools | `add_*.c`, `del_*.c`, `print_*.c`, `init_dlusb.c`, `load_dlusb.c`, ... | none | one session each: open, start, read, edit, `load_add`, end |
| Helpers | `misc.c`, `define.h`, `dlusb.h` | none | bcd and character conversion, dates, the quicksort macro |

Everything goes down one stack of calls: a tool calls a database and `load_add`, `load_add`
calls `write_abs_addr`, that calls `comm_write_abs_addr` once per piece, that calls
`send_read_tucp_packet` once per page, and that sends and reads reports. An
error comes back up as -1 and nearly every tool answers it by jumping to
`end_session`, so that **further commands follow a failed one in the same
program**. Nothing is undone. The watch's memory is the only thing that outlives a
program, and the next session starts from whatever it holds.

### What is hard in it

- *The transport* gives a reply no number. What tells one reply from another
  is its command byte and its place in the pipe. A reply that arrives after
  its read gave up, reports left over from a reply, a damaged ACK that reads as a
  NACK: each may make a call succeed that did not, or run a command twice.
- *load_add* moves all databases in the watch one page after the other and
  updates the table of their addresses last, also page by page. Any command
  may fail, with or without its effect. Its arithmetic is done in 16 bits.
- *Installing* keeps the index of the latest application in a counter of the
  host that follows the watch's only as long as no ACK is lost.
- *The databases* keep counts, sizes and offsets that must agree with the
  lists after any sequence of operations, and two indices of a record
  (`find_*` and `del_*`) that must mean the same record.

`PROJECT.json` lists these hazards one by one with the line where each bites
and the properties that cover it, or why none does.

### What makes each part correct

- Transport: success means the command was run; no command that changes the
  watch is run twice; the next reply read is the one to the packet just sent;
  every call returns.
- load_add: success means the ADD is stored where the watch looks for it; the other
  ADDs and the code are untouched; the layout stays ordered and disjoint; ADDs
  are moved only when all fit; every call returns.
- Installing: each application's code and data go to its own area.
- Databases: each implements a bag of records; counts, sizes, offsets and
  links are those of the list; delete removes the record that find named; what
  is stored is in order; what is printed can be read back.
- Tools: the exit status and the messages together tell whether what was asked
  is in the watch; a database read in part is never stored; a watch that was
  written to gets a new sync id; every program ends.

## 2. Modules

| Module | What it is |
|---|---|
| `Rpc` | abstract specification of a command call |
| `Tucp` | the transport with the watch and the pipe; implements `Rpc` |
| `MCTucp` | its instance for TLC |
| `TucpProofs` | theorems about `Tucp` |
| `LoadAdd` | `load_add`, `update_acb` and the reading of the tables by a new session |
| `MCLoadAdd` | its instance for TLC |
| `LoadAddProofs` | theorems about `LoadAdd`: types, the addresses a relocation assigns, what is in memory during and after a load |
| `InitApps` | `init_dlusb`: deleting all applications and installing those of the command line |
| `MCInitApps` | its instance for TLC |
| `InitAppsProofs` | theorems about `InitApps` |
| `Records` | abstract specification of a database: a bag of records |
| `DbLists` | what all databases share: texts, sizes, offsets, the program around the list |
| `LinkedAdd` | the linked layout of notes and appointments, with unused records |
| `Quicksort` | the sorting macro, for a given comparison |
| `NoteDb`, `ApptDb`, `ContactDb`, `OccasionDb`, `ScheduleDb`, `ChronoDb`, `TimerDb` | one database each |
| `OptionDb` | the options of the watch |
| `Databases` | all of them, and what they promise; implements `Records` |
| `MCDatabases` | its instance for TLC |
| `DbListProofs` | lemmas about `DbLists` and the operators on sequences the databases use |
| `ScheduleProofs` | that every step of `ScheduleDb` keeps its database sound |
| `TableProofs` | that every step of `TimerDb`, `OccasionDb` and `ContactDb` keeps its database sound |
| `DatabasesProofs` | theorems about `Databases` |
| `Tools` | the main functions of the programs |
| `ToolsProofs` | theorems about it |

Operators whose comment calls them a *mutant* (`ReadOnlyFirst`,
`FitsBelowCode`, ...) are no part of a model. Each is what a definition would be with a
plausible mistake in the code, and each property is known to fail when its
mutant takes the definition's place.

### Tucp

One variable `pc` says where `send_read_tucp_packet` is: sending reports,
reading the first or a further report of the reply, or judging it. One action is one
report sent (`SendReport`, `SendFails`), one report read (`ReadFirst`,
`ReadMore`, `ReadFails`), or one way out of the judgement, in the order of the
code's tests: `NoAckNack` (neither ACK nor NACK), `Accept`, `Retry`,
`Refused`. `Call` stands for the functions of `comm.c`, which build a packet
and make one call; `SendIdle` for `send_idle`, the only caller of `comm_idle`.
The watch (external) takes the oldest packet and runs it or refuses it, and its reply is
damaged and cut as `Faults` allows.

A packet is reduced to what the code looks at: its kind (`rpacket[1]`),
`rpacket[2]`, the number of reports its length byte announces and whether the
checksum is right, plus the call it answers, which the host cannot see. A
checksum is taken to detect damage. Which fault may
happen is a constant, because they have different consequences:

- `send` a report is not sent; `late` a reply arrives after the read gave up; `cut` a reply,
  or its last reports, never arrive; `nack` the watch refuses a packet;
- `payload`, `type`, `code`, `length`: a data byte, `rpacket[1]`, `rpacket[2]`,
  or `rpacket[0]` is damaged.

The properties end with the first call that returns `ERR_USB` (`Trusted`):
from then on a late reply may be taken for the answer to another call.
That is how the code is, and the run `tucp_stale` shows it.

### LoadAdd

Memory is one cell per byte and each cell names the ADD (application, load,
size) and the offset it holds, so that a byte out of place shows. The actions
follow `load_add`'s blocks. `Start` is the decision between the in-place case
and relocation. `Collect` (one ADD read), `Refuse`, `Distribute` and
`Place` (one address assigned) are its loops and the arithmetic between them,
`Skip` each loop's `continue`; `WritePage` is one write command, `Written` the end of an ADD,
`UpdateAcb` one page of the ACB table. `CommandFails` ends the call at any
command, its effect in place or not. `StartSession` rereads the table, which
is all the next tool knows. History variables record what was stored with
success (`stored`), which ADD a failed in-place write tore (`torn`), whether a
relocation was cut short (`lost`) or had no room (`overfull`), and the exact
sums of the sizes (`before`).

The inputs are those of the tools: a database for an application that is
installed with an external ADD. The
branches for internal ADDs are marked TODO in the code and not modelled, nor
are the early returns for an index out of range or a missing address, which no
tool reaches with an installed application. A size is such that `CODE_START` plus the
size fits in 16 bits (real values: 0x7f00 and at most 33023 bytes). After a
cut-short or overfull relocation no further load is made: there is nothing
left to be right about. The initial layout is any in which the ADDs are in
the order of their indices, disjoint and below the code, which is how the
watch installs them and what `InOrder` shows `load_add` to keep.

### InitApps

`pc` follows `main` from opening the watch to the exit status and goes through `del_all_apps`,
`init_int_app` and `init_ext_app`. One action is one step that can fail: the
session, the deletion, the zeros written over the table, the files of one
application, its initialisation, the rereading of the tables, one page of its
code, database or banner, the option page, the end of the session. The watch
(external) is its `table` of applications, numbered from index 2, and what
stands in the `area` of each part of each index. `init_app_idx` is
the host's count of initialisations and `known` the length of the table it
read last, which decides whether an address is that of an application or zero.
`unseen` records that the watch ran an initialisation whose reply was lost.

An application is reduced to its kind, a part to whose pages it holds and how
many. Files are there or not. The page of options is not modelled beyond the
crash that an unset `data` may cause. A reply that arrives late counts as lost;
what else it can do is in `Tucp`. Banners are taken to fit their slot of 27 bytes.

### The databases

`app` says which database it is, `prog` which program has it open: a tool that
adds (`add_*`, `unused_*`) or deletes (`del_*`), `init_dlusb`, which starts from
an empty one, or none. `db` is what the program holds, a header and the sequence of the
records; the links of the C lists are the order of the sequence. `image` is
the database as it stands in the watch, with offsets and sizes as the code
wrote them. `Open` is `read_*` of the image, `AddLine` and `DelLine` one line of
a file or the options of the command line, `DeleteAll` the option `-a`, `Save`
`create_*` and `load_add`, `Leave` the end with nothing stored. The operators
have the names of the functions. `static` holds the static variables of the
file and the program's `updated`, which decides whether it stores.

- *Texts* are numbers in the order `memcmp` gives them, with a length each;
  `Begins` says which text begins with which. A date, a time or a phone number
  is a number in its order.
- *`LinkedAdd`*: `Linked` computes offsets, links and counts, `Laid` puts each
  record where the one before it points, `Followed` walks the links. The watch
  edits these lists itself: the first image is any list of up to two
  records in any places.
- *`ContactDb`*: `share` is `msg_offset`. The header has a history variable
  `lost`, the bytes by which `db_size` is short after texts were handed over;
  a list longer than the memory allocated for it ends the run (`"dead"`).
- *`ScheduleDb`* keeps the group type twice, as the code does: in the database
  and in the program, by which lines are read. `Sound` says what a database of
  schedules has to be, sizes and all, and `SoundInv` that the program's and the
  watch's are.
- *`ChronoDb`* has bytes that wrap, the lap that `del_chrono` reads after
  freeing it (`Freed`: it may be intact, lead somewhere else, so that the laps
  behind keep their numbers, or the program may crash), and more
  records than allocated (`"dead"`). `Sound` and `SoundInv` say what is kept in spite of the
  wrapping. The loops that read and print the watch's records are functions on the turns
  of the loop (`read_workout`, `print_workout`). `missed` is a history variable of
  each lap: how many deletions in front of it have not reached it.
- *`TimerDb`* has the reminder that `read_timer_line` leaves as it was
  (`held`); what is uninitialised is any value. `print_all_timers`
  counts the timers in a byte. The watch starts with up to `TimersHeld` of them.
- *`OptionDb`*: `scan_option` returns the set of what a line can make of the
  options, as a variable may be uninitialised. Options treated alike stand for
  one another.

`Records` is what all that is for: a record added is there once, a deletion
takes away one record like the one asked for, saving stores what is held and
nothing else changes the watch. `Implements` is stated for all databases but three:
alarms and schedules break it (findings 5 and 6), and a lap has no identity but
its number, which deletions change. For contacts and timers it holds although sizes or
reminders go wrong, as it speaks of names and texts.

### Tools

One program is run, once. Its main function is the sequence of its `steps`
with a few facts on what it was given (`in`): whether lines or options change
the database, whether it would store, whether it complains. `pc` is the place
in the sequence; each action is a step, which may fail. `Target` is the
`goto end` of the code, `close_dev` the label `exit`. `whole` is what the
program holds completely, `stored` and `torn` what it wrote completely and in part,
`wanted` what its user asked to be in the watch. A file of `dump_dlusb` or
`load_dlusb` takes three steps; where the code has less to do for it (`continue`, no
banner to look for) the step is `Pass`. The steps abstract the calls
that the other modules detail: `Store` is `load_add` (`LoadAdd`), the editing is
in the database modules.

## 3. Runs

| Run | Instance | Shows |
|---|---|---|
| `tucp_faults` | 3 commands, 2 calls, 3 attempts, all faults but `code` and `length` | types; success means execution; at most one execution; host and watch in step; the invariants of the proofs; implements `Rpc`; every call returns |
| `tucp_stale` | 2 calls of `COMM_WRITE_ABS_ADDR`, 5 attempts, `late` only | **violation**: an ACK accepted that answers an earlier call |
| `tucp_nack` | 2 calls, 5 attempts, `payload` only | **violation**: a damaged ACK interpreted as a NACK |
| `loadadd` | 3 external ADDs of 5 applications, 2 loads of sizes 1, 3, 6, 7, 12 bytes of EEPROM, pages of 2 | types; ADDs intact; success stores; order kept; placement; nothing outside written; the invariants of the proofs; every load returns |
| `loadadd_full` | the same, sizes 3 and 7 | **violation**: ADDs moved although they do not fit |
| `initapps` | all lists of up to 3 applications, none or 2 old ones, table for 3, 2 pages a part | types; host and watch in step; own areas; complete; instances ascend; no mixture; the invariants of the proofs; the program ends |
| `initapps_lost` | the same | **violation**: data written to an index that is not the latest |
| `databases` | each of ten databases and options, up to 3 records, three texts | types; links, offsets and sizes sound; headers agree; sorted; offsets of shared texts; timers, occasions, schedules, contacts and the chronograph sound (the invariant of the proofs); laps numbered; printing and reading back; implements `Records` |
| `schedule_del` | schedules only | **violation**: another record deleted than was asked for |
| `alarm_flag` | alarms only | **violation**: an alarm marked as an appointment |
| `halfway` | countdown timers only | **violation**: no reminder although asked for |
| `tools` | 33 programs, all inputs, lists of up to 3 files | types; status 0 and no message mean done; the sync id tells; nothing stored that was not read whole; every program ends |

*Bounds of the transport.* The commands are one whose byte reads as a
retryable error and whose ACK takes two reports (`COMM_DEV_INFO_REQ`), the
idle command, and one that writes memory and takes two reports to send
(`COMM_WRITE_ABS_ADDR`). A property relates at most two calls, one that
leaves something behind and one that meets it; more calls add no new pair.
Three attempts have a first, a middle and a last one. `code` and `length` are
left out of `tucp_faults` because with them the properties do not hold and cannot: a damaged
`rpacket[2]` may read as a retryable error, and a damaged `rpacket[0]` makes
the host read too few or too many reports. The theorems say which of the two
each property needs to exclude.

*Bounds of the placement.* Three ADDs have a first, a middle and a last one; indices
without an ADD stand between and before them. Twelve bytes of EEPROM and the sizes
1 to 7 give every case of the arithmetic: in place, exactly up to the code,
shares for all, no share but a rest for the new ADD, nothing left, and more
than there is. Three sizes are odd and pages are two bytes, so that ADDs end within a
page or at its end and take one to four commands; with an even size the sum can
be exactly what there is. The ACB entries lie on two pages, so the update can be
half done. `Word` is 32, the smallest at which the sum of all sizes
still fits. The second load starts from what the first left, success or
failure.

*Bounds of the installation.* With three applications there is a first, which
is counted differently, one with a predecessor and a successor, and a last
that fills the table; with two old ones the table holds more than the
first new one replaces. Two pages have a first and a last one. All five kinds
in all orders give every order of parts and of ways to leave the loop.

*Bounds of the databases.* Three records have a first, a middle and a last one, and make
groups, shared texts and workouts of one and of more. Of the texts one is short,
one extends it and the third, of 95 bytes, is longer than the blank records of
the watch and close to `MAX_MSG_LEN`. The page of 16 bytes, smaller than the
watch's, lets the allocated size change by one record. Data meet in every key
(same time, same text, same type) and some are out of range. The watch starts with up to two
timers (`TimersHeld`). A chronograph has up to seven records; `MIN_CHRONO_RECS`
and `MAX_CHRONO_RECS` are 2 and 5, so that the limit is met from below and from above. Runs are not
bounded in length: any number of programs works on the watch one after another.

*Bounds of the tools.* Inputs are all combinations of a terminal or a file, what the
lines change, what the options make, the answer to `-a`, and an empty
database. Two files have a first and a last one and meet each other's leftovers.

*Deadlock* is not checked: a program that has made its calls stops.

*Fairness.* `CallsReturn` assumes weak fairness of the host's step only: the
process runs on, and each blocking read ends with a report or with the timeout
of the USB library. Nothing is assumed of the watch. `LoadReturns` assumes the
same of `load_add`, whose commands each return by `CallsReturn`, and `Ends` of
`init_dlusb` and of the tools. Nothing is claimed to happen in the databases:
which program is started next is the user's choice.

### Findings

1. `src/tucp.c:74`: a reply is matched to a command by its command byte only. After a
   timeout the reply of the old command is accepted as that of the next one of
   the same kind in the same program, and so on for every later one.
2. `src/tucp.c:80`: what is interpreted as a "good NACK packet" need be neither
   a NACK nor good. The damaged ACK of `COMM_DEV_INFO_REQ` or `COMM_BEEP` is
   retried; that of `COMM_PROC_COMPLETE` is reported as a device error.
   `AtMostOnce` shows that no command that changes memory is repeated by this.
3. `src/memory.c:481`: `unused_db_size <= 0` is tested on a `u16`. When the ADDs
   are too large for the EEPROM the difference wraps around, the test never
   sees it, and the relocation overwrites the code area.
4. `src/memory.c:606`: the "latest application index" is the host's count of
   acknowledged initialisations. If one ACK is lost, each later application's data
   are written over those of its predecessor; `main` ignores the error.
   `IdxInStep` shows that no other failure does this.
5. `src/schedule.c:476`: `find_schedule` counts within the group, `del_schedule`
   through all groups. Deleting from any group but the first deletes a record
   of an earlier group.
6. `src/appt.c:199`: `add_appt` marks an alarm as an appointment, against the
   comment of the field in `dlusb.h:504`. `find_appt` then never finds the
   alarm: it is added again and cannot be deleted.
7. `src/add_countdn.c:158`: `halfway=yes` writes a word that `read_timer_line`
   does not look for, so the timer has no reminder.

Met on the way and visible in the models, without a document they disagree
with: `db_size` of contacts shrinks when a text is handed over, until the memory
allocated is too small (`Fits` of `ContactDb` says by how much, `"dead"` is
where it ends); texts that extend one another are not sorted (`InOrder` makes
the exception); `cmp_appt` is no order of texts, so appointments are sorted by time only;
`del_chrono` reads a lap it has freed, so that
the laps behind it may keep their numbers (`missed` of `ChronoDb`); `print_all_timers`, which
no program calls, reads the 16 bits of the number of timers into a byte (`src/timer.c:390`, 406) and
prints none of 256, while `read_timer` reads them all, so that `PrintsAgree` is stated of fewer than 256
timers and is false of more; `add_schedule` prints header lines it does not
store; a tool exits with status 0 after a failed `load_add`, so that only its
message tells (`ZeroTells`).

## 4. Proofs

TLAPS proves for every value of the constants that satisfies the assumptions
stated in the modules (finite tables, at least one external ADD and one size,
positive page and report counts, sizes without overflow of their ends, lists
that fit the table, lines whose parts have their types, texts that begin with one
another as texts do, a limit on the chronograph's records that a byte can hold, and memory
for that many that has no room for 256):

| Theorem | Statement |
|---|---|
| `TucpProofs!TypeCorrect` | `Spec => []TypeOK` |
| `TucpProofs!SuccessIsExecution` | no `length` damage: `[](SuccessMeansExecuted /\ ChannelInv)` |
| `TucpProofs!StaysInStep` | no `length` damage: `[]InStep` |
| `TucpProofs!RunsAtMostOnce` | no `length` or `code` damage: `[]AtMostOnce` |
| `TucpProofs!ChannelHolds` | no `length` damage: `[]ChannelInv` |
| `TucpProofs!PendingHolds` | no `length` or `code` damage: `[]PendingInv`, that is, `OnceInv` and `LateInv` |
| `TucpProofs!RefinesRpc` | no `length` or `code` damage: `KeepsPromise`, that is, `Tucp` implements `Rpc` |
| `LoadAddProofs!TypeCorrect` | `Spec => []TypeOK` |
| `LoadAddProofs!PlacesInOrder` | `Spec => []PlacedInOrder` |
| `LoadAddProofs!LoadingHolds` | `Spec => []LoadingInv`, that is, `PlacingInv` and `StoringInv` |
| `LoadAddProofs!LeavesAddsIntact` | `Spec => []AddsIntact` |
| `LoadAddProofs!StaysInOrder` | `Spec => []InOrder` |
| `LoadAddProofs!SuccessIsStored` | `Spec => []SuccessStores` |
| `LoadAddProofs!WritesInsideOnly` | `Spec => OutsideUntouched` |
| `InitAppsProofs!TypeCorrect` | `Spec => [](TypeOK /\ InstallInv)` |
| `InitAppsProofs!StaysInStep` | `Spec => []IdxInStep` |
| `InitAppsProofs!KeepsToOwnAreas` | `Spec => []OwnAreas` |
| `InitAppsProofs!DeletesFirst` | `Spec => []DeletedFirst` |
| `InitAppsProofs!InstancesInOrder` | `Spec => []InstancesAscend` |
| `InitAppsProofs!InstallingHolds` | `Spec => []InstallingInv`, that is, `InstallInv` and `CompleteInv` |
| `InitAppsProofs!DoneIsComplete` | `Spec => []InstalledComplete` |
| `ToolsProofs!TypeCorrect` | `Spec => []TypeOK` |
| `ToolsProofs!TellsByZero` | `Spec => []ZeroTells` |
| `ToolsProofs!TellsBySyncId` | `Spec => []SyncIdTells` |
| `ToolsProofs!StoresWhatWasRead` | `Spec => StoreAfterRead` |
| `DatabasesProofs!TablesHold` | `Spec => []TablesSound`, that is, `SoundInv` of schedules, occasions, timers, contacts and the chronograph |
| `DatabasesProofs!SchedulesOfOneType` | `Spec => []OneType` |
| `DatabasesProofs!AreasFit` | `Spec => []TablesFit` |
| `DatabasesProofs!TablesAreSorted` | `Spec => [](app \notin {"note", "appt", "alarm"} => ListsSorted)` |
| `DatabasesProofs!OffsetsLeadToOwners` | `Spec => []OwnersFirst` |
| `DatabasesProofs!PartsAreCounted` | `Spec => []HeadersAgree` |
| `DatabasesProofs!LapsHaveNumbers` | `Spec => []LapsNumbered` |

*The transport.* `SuccessMeansExecuted` is not inductive: it says nothing of
the pipe. `Channel` does. Before a packet is sent, pipe and watch are empty;
while the reply is read they hold at most one packet or the rest of one reply,
of the current call, no longer than the host is going to read; and a sound ACK in the
pipe or in `rpacket` was preceded by an execution. `ChannelInv` claims this as
long as no call has returned `ERR_USB`, since only such a return leaves a
packet or a report behind, and `History` says what is known of calls not yet
made. For `AtMostOnce`, `Once` adds that a packet waits at
the watch only while its command has not run, and that afterwards every head of a
reply shows the command's own byte, which is not a retryable one, so
that `Retry` is not taken.

*The refinement.* `Rpc` knows no reports: a call is issued, run or not, and
returns. `Call` and `SendIdle` map to its `Request`, `WatchRuns` to its `Run`, the
five ways a call ends (`SendFails`, `ReadFails`, `NoAckNack`, `Accept`,
`Refused`) to its `Reply`, everything else to a stutter.
Two of its guards are not visible in a single step. A command may run
again only if it is repeatable, which is `OnceInv`; and it may run only while
its call is in progress or has failed with `ERR_USB`. For this `LateInv` says
that a packet still waiting at the watch belongs to such a call: a call that
knows its outcome has read a reply, and after a reply no packet is left.

*The placement.* `PlacedInOrder` compares two addresses that different turns
of the loop assigned. `PlacingInv` gives each in closed form: `DB_START`, the
sizes below it (`before`, a history variable that is the exact sum, while the
code's own is modulo 2^16), and the shares of the ADDs below it (`gap`).
`SumsRight` carries the sums through the first loop, `Shared` says that all ADDs
and all shares fit below the code (a fact about rounding down to pages, then
dividing), and `Placement` the closed form through the second loop. The order
follows as both sums grow with the index; the lemmas on `rank`, `gap` and
division say so.

*The storing.* A load fails between any two pages, and what it leaves is what the
next one starts from. `StoringInv` therefore says at each place of the program
what every cell that matters holds. `Known` ties the host's tables to the
watch's, as long as nothing was cut short. `InPlace` is a write to the old
place: the room it has, and the first `off` bytes. `Copied` says that the
host's memory has each ADD it has read, or what is left of a torn one. `Moved`
says that the bytes written so far stand at their new addresses. Here
`PlacingInv` is needed: two ADDs do not meet, so that a page written for one
takes nothing from another. `Table` says which pages of the ACB table show the
new addresses. When the last is written all do, and `Copied`, `Moved`
and `Table` together are `AddsIntact` and `InOrder` at the new addresses. All
four theorems hold for any number and order of loads and of failures;
`lost`, `torn` and `overfull` are the exceptions the properties name.

*The installation.* `TypeOK` needs `InstallInv`: that the host's count is an
index of the table depends on its never running ahead of the watch's, and that
on the table being empty when the loop begins. With both, `IdxInStep` is
inductive: an initialisation moves both counts or, unseen, only the watch's.
`OwnAreas` then follows page by page, as the application at hand is the last of
the table and the count its index, and `InstancesAscend` from the stronger
fact that an instance is a place in the table. `DeletedFirst` needs no
assumption on lost replies. `InstalledComplete` speaks of applications that are
done; `CompleteInv` adds the one at hand: its parts before the current one are
whole, of the current one the pages so far, and its request is not done yet. That a
page of a later application does not overwrite it is `IdxInStep` again.

*The programs.* What they have in common is two facts about a list of steps.
`Sound`: the device is opened first, then the session; the list ends with
`end_session` or `exit_session`; a store has a read of the same thing before it, and
`end_session` at the end. `Followed`: what is made, taken from a file or changed
is written by a later step, unless the program complains. Both are proved of
each program, for `dump_dlusb` and `load_dlusb` with any number of files
(`FilesShape`). The invariant `Inv` then says of a running program what lies
behind it (`Held`: what it passed was read, and nothing else) and what lies ahead
(`Ahead`: what is wanted and not stored has its write still to come, unless
something was said). `ZeroTells` is `Ahead` where no step is left, `StoreAfterRead`
is `Held` at a store. The cases are one lemma for each kind of step. TLC's
run has all programs and is exhaustive but for the number of files, which the
theorems leave open.

*The schedules.* A group of schedules has a table of its records, and the
database a table of its groups; each has its size and the size in whole pages,
kept by addition while lines are read. `Sound` gives them in closed form: the
size of a group is that of its header, table and records (`Groups`), that of the
database the sum of the groups' areas (`Counted`), all records have the
header's type, and groups and records are in order. It is not an invariant of the single call: while lines are read the allocated size
of the database lags behind, and `Counted` is what `add_schedule` keeps.
`SoundInv` is the invariant of a program's steps, and says of the watch that
it holds what `create_schedule` makes of a sound database. The lemmas follow
the operations: a group or a record inserted or removed changes each sum by its own size
(`DbListProofs`, by splitting a sum in two); `read_schedule` after
`create_schedule` gives the database back, as the offsets are the sums of what lies
before (`Pieces`); and areas laid one behind the other do not overlap, which is
the schedules' part of `AreasFit`. Deleting keeps `Sound` too, although it may be the wrong
record (finding 5). `DatabasesProofs` carries this over: `Databases` has its own
instance of `ScheduleDb`, and the `Same...` lemmas show that the two define the
same.

*Timers, occasions, contacts.* None of `TablesFit`, `HeadersAgree`, `ListsSorted` and
`OwnersFirst` is inductive: they speak of the watch or of the list alone, and what a program
stores depends on the header it has kept. Each database has a `Sound` for what a program holds,
and `SoundInv` says that the watch holds what `create_*` makes of such a database.
For timers `Sound` is count, size and order. For occasions it adds that the first
`num_recur` records are exactly the recurring ones: `add_occasion` searches each part for its place, and
`Follow` is what two neighbours must satisfy wherever it inserts. For contacts the
offset of each (`share`) counts back to the one that holds the text, so that adding or deleting
one contact moves the offsets of those behind it, and deleting an owner hands its
text to the next that shares it. `Sound` says that every offset leads to a text
(`OffsetsLead`), that the lengths are those of the texts shown (`Shown`) and that
these are ordered but for texts that extend one another (`Ordered`). The proofs
turn the offsets into steps: a share is 0, or one more than that of the contact before
(`Steps`). That form survives the insertion and the deletion of one element, and from it
follows where the offsets lead (`LeadTo`). `Ordered` after an insertion
rests on the assumption on `Begins`: the texts that begin with
a given one stand together, and beginning with is transitive. The sizes of
contacts are too small by `lost`; `SoundInv` says that whatever is stored still fits the memory
that was allocated, since otherwise the program is `"dead"`.

*The chronograph.* Its header counts in bytes, and nothing keeps a program from
adding more laps than a byte counts. `Sound` says what holds all the same: the
header's count is the number of records modulo 256, a lap's number its place modulo 256
but for deletions that went astray, and the best lap of each workout is the best. What is stored has more: fewer than 256 records,
so that the counts are exact. That rests on the check `Save` makes: a list longer than the
memory allocated for it is written beyond its end, and the model stops there. The count that
the size is computed from is at most `MAX_CHRONO_RECS` or a byte that has wrapped, and
`RoomAssumption` says that 256 records do not fit such an area. In the code the limit is 250
records, 1267 bytes; whole pages of 64 make it 1280, and 256 records need 1297. That the
watch's records are read back as they were (`ChronoReadsWhatIsKept`) is shown turn by turn: a workout begins
where those before it end, which is the sum of their sizes (`Flat`), and takes `num_laps` records.
From that follow where the last workout is, which `HeadersAgree` compares with the header, and that
updating what was read changes nothing. The crash on the freed lap stores nothing; the other two outcomes
are deletions that keep `Sound`. `LapsNumbered` says of what a program holds that a lap's number is
its place plus the deletions in front of it that went astray (`missed`), and the number of the best lap
that of the best one, all modulo 256. It holds of any number of laps, and of what is deleted in any order:
a workout whose remaining laps a byte counts as none is dropped whole, as the code does.

`Sum`, `Made` and `FirstsDeleted` are recursive functions on the indices of a
sequence. The library's theorems about such functions take an operator as a
parameter; here the induction is on the set of indices at which a claim holds
(`InductiveSet`, from the library's `WFMin`), and that the function exists
is proved with it (`Iterates`).

In the model of the schedules sizes are natural numbers: the theorems say nothing of
a database that outgrows 16 bits. One that fits the watch has at most 33023 bytes.

Only model-checked remain
- of the databases: `Databases!TypeOK`, `LinksSound`, what `ListsSorted` says of notes,
  appointments and alarms, `PrintedRestores`, `PrintsAgree` and `Implements`.
  `Implements` and `PrintedRestores` speak of bags and sets of records, which the community
  modules define by recursion; notes and appointments rest on a function on all
  natural numbers (`Chain`) and on the quicksort;
- liveness (`CallsReturn`, `LoadReturns`, `Ends`), which the prover cannot treat.

## 5. Not modelled

- The parsing of lines into their parts, the character tables, `day_of_week` and
  the layout of what is printed: input and output without state. The database
  modules say what a line means.
- The contents of the time of day and of the locks (`Tools` treats each as one
  thing), the layout of packets, the loop that reads an area in pieces.
- Internal ADDs in `load_add`, marked TODO in the code.
- The limit of 16 bits on the size of a database: a database of the watch has
  at most 33023 bytes, which `load_add` checks badly (finding 3) and the databases not at all.
- Two of the three USB back ends, the trainer (a filter from text to text), the
  scripts and the build.

## 6. Plan

1. *(done)* `Tucp`, `Rpc`, `TucpProofs`; `LoadAdd`, `LoadAddProofs`;
   `InitApps`, `InitAppsProofs`.
2. *(done)* The databases with `Records`, the options, the quicksort.
3. *(done)* `Tools`, `ToolsProofs`.
4. *(done)* Proofs: `Tucp` implements `Rpc`; `LoadAdd` keeps what is stored;
   `InitApps` installs completely; timers, occasions, schedules, contacts and the
   chronograph stay sound, in order, and their areas fit.
5. Proofs: the linked lists of notes and appointments.
6. Pure functions: `day_of_week` and the cutting of an area into commands,
   checked against reference definitions over bounded inputs.
