------------------------------- MODULE LoadAdd -------------------------------
(***************************************************************************)
(* load_add (memory.c): storing an application's database (its ADD) in the *)
(* watch's EEPROM.                                                         *)
(*                                                                         *)
(* The EEPROM holds the external ADDs from DB_START upwards, in the order  *)
(* of the application indices, and WristApp code downwards from            *)
(* CODE_START; the ACB table in the watch's memory says where each ADD     *)
(* begins.  A new ADD is written in place when it fits below the next one. *)
(* Otherwise every ADD is read into the host's memory, all are assigned    *)
(* new addresses, every one is written to its new place, and only then is  *)
(* the ACB table updated.  Each page is a command of its own, and each may *)
(* fail, with or without the watch having run it.                          *)
(*                                                                         *)
(* Memory is one cell per byte; a cell holds the ADD it belongs to and the *)
(* offset in it, so that a byte out of place shows.                        *)
(***************************************************************************)
EXTENDS Integers, FiniteSets

CONSTANTS
    NUM_APPS,    \* size of the ACD and ACB tables
    Ext,         \* applications installed with an external ADD (db_loc = 1)
    DB_START,    \* first EEPROM address for ADDs
    CODE_START,  \* end of the EEPROM's code area
    CodeAddrs,   \* code_addr of the applications with external code
    PAGE_SIZE,   \* bytes of one write command
    AcbPage,     \* which page of the ACB table holds an entry's add_addr
    LastAcbPage, \* its last page
    Word,        \* 2^16: u16 arithmetic is modulo Word
    Sizes,       \* the alloc_size of the ADDs
    InitSizes,   \* the sizes the ADDs have when the program starts
    MaxLoads     \* bound: calls of load_add

Apps == 0..(NUM_APPS - 1)
Addresses == 0..(Word - 1)

\* what code_start's loop computes: the lowest code address
code_start == CHOOSE a \in {CODE_START} \cup CodeAddrs :
                 \A b \in {CODE_START} \cup CodeAddrs : a <= b

ASSUME AppsAssumption == NUM_APPS \in Nat /\ Ext \subseteq Apps /\ Ext # {}
ASSUME PageAssumption == PAGE_SIZE \in Nat \ {0}
ASSUME AcbAssumption == /\ LastAcbPage \in Nat
                        /\ AcbPage \in [Apps -> 0..LastAcbPage]
\* the code addresses have a least one, above the start of the databases
ASSUME CodeAssumption ==
    /\ DB_START \in Nat /\ CODE_START \in Nat /\ CodeAddrs \subseteq Nat
    /\ \A a \in {CODE_START} \cup CodeAddrs : DB_START < a
    /\ \E a \in {CODE_START} \cup CodeAddrs :
          \A b \in {CODE_START} \cup CodeAddrs : a <= b
\* no ADD is so large that its end, or the sum of all sizes, overflows a u16
ASSUME SizesAssumption ==
    /\ Word \in Nat /\ InitSizes \subseteq Sizes /\ InitSizes # {} /\ Sizes \subseteq Nat \ {0}
    /\ \A s \in Sizes : CODE_START + s < Word
ASSUME LoadsAssumption == MaxLoads \in Nat

\* an ADD: its application, the load that brought it (0 at first), its size
Adds == [app : Ext, ver : 0..MaxLoads, size : Sizes]
Blank == [app |-> -1, ver |-> 0, size |-> 0]
Cells == [add : Adds \cup {Blank}, off : Nat]
BlankCell == [add |-> Blank, off |-> 0]

U16(x) == x % Word

VARIABLES
    eeprom,    \* the watch's external memory
    devAddr,   \* add_addr in the watch's ACB table
    hostAddr,  \* dev->app[i].acb.add_addr
    pc,        \* where load_add is
    idx, data, \* its arguments
    i, off,    \* loop index; bytes or pages already written
    ram,       \* add[]: the cells read from the watch, per application
    add_size,  \* add_size[]
    total, unused, dist, db_end,  \* total_add_size, unused_db_size, ...
    result,    \* what the last load_add returned: 0, -1, or 1 for none yet
    loads,     \* history: calls so far
    stored,    \* history: the ADD each application was last given with success
    torn,      \* history: applications a failed write left incomplete
    before,    \* history: the sizes below each index added up, no overflow
    lost,      \* history: a relocation was cut short
    overfull   \* history: a relocation of more than there is room for

args == <<idx, data>>
sums == <<total, unused, dist, db_end>>
reads == <<ram, add_size, before>>
locals == <<args, i, off, reads, sums>>
watch == <<eeprom, devAddr>>
history == <<loads, stored, torn, lost, overfull>>
vars == <<watch, hostAddr, pc, locals, result, history>>

NoAdds == [a \in Ext |-> << >>]
NoSizes == [a \in Ext |-> 0]
NothingBefore == [n \in 0..NUM_APPS |-> 0]

-----------------------------------------------------------------------------

\* the bytes of an ADD
Bytes(d) == [k \in 0..(d.size - 1) |-> [add |-> d, off |-> k]]

\* ADD d stands at address a
Holds(d, a) == \A k \in 0..(d.size - 1) : eeprom[a + k] = [add |-> d, off |-> k]

\* what the first two bytes at address a say, the allocated size
SizeAt(a) == eeprom[a].add.size

\* The watch has placed the ADDs in the order of the indices.
InitialLayout(addr, first) ==
    \A a \in Ext :
        /\ DB_START <= addr[a]
        /\ addr[a] + first[a].size <= code_start
        /\ \A b \in Ext : a < b => addr[a] + first[a].size <= addr[b]

Init ==
    /\ \E first \in {f \in [Ext -> [app : Ext, ver : {0}, size : InitSizes]] :
                        \A a \in Ext : f[a].app = a},
          addr \in [Ext -> DB_START..code_start] :
          /\ InitialLayout(addr, first)
          /\ devAddr = addr
          /\ stored = first
          /\ eeprom = [x \in Addresses |->
                IF \E a \in Ext : x - addr[a] \in 0..(first[a].size - 1)
                THEN LET a == CHOOSE a \in Ext :
                                 x - addr[a] \in 0..(first[a].size - 1)
                     IN [add |-> first[a], off |-> x - addr[a]]
                ELSE BlankCell]
    /\ hostAddr = devAddr
    /\ pc = "idle" /\ idx = -1 /\ data = Blank
    /\ i = 0 /\ off = 0
    /\ ram = NoAdds /\ add_size = NoSizes /\ before = NothingBefore
    /\ total = 0 /\ unused = 0 /\ dist = 0 /\ db_end = 0
    /\ result = 1 /\ loads = 0
    /\ torn = {} /\ lost = FALSE /\ overfull = FALSE

-----------------------------------------------------------------------------

\* load_add returns; its locals end with it.  After an error the tools end
\* the session, after a success they may load the next ADD in the same one.
Return(r) ==
    /\ result' = r
    /\ pc' = IF r = 0 THEN "idle" ELSE "ended"
    /\ idx' = -1 /\ data' = Blank
    /\ i' = 0 /\ off' = 0
    /\ ram' = NoAdds /\ add_size' = NoSizes /\ before' = NothingBefore
    /\ total' = 0 /\ unused' = 0 /\ dist' = 0 /\ db_end' = 0

\* The next tool reads the ACB table anew (start_session, read_acb).
StartSession ==
    /\ pc = "ended"
    /\ pc' = "idle"
    /\ hostAddr' = devAddr
    /\ UNCHANGED <<watch, locals, result, history>>

\* A tool calls load_add with the database it has made.  Nothing is asked of
\* a watch whose databases an earlier failure has already spoilt.
Load ==
    /\ pc = "idle"
    /\ ~lost /\ ~overfull
    /\ loads < MaxLoads
    /\ \E a \in Ext, s \in Sizes :
          /\ idx' = a
          /\ data' = [app |-> a, ver |-> loads + 1, size |-> s]
    /\ loads' = loads + 1
    /\ pc' = "start"
    /\ UNCHANGED <<watch, hostAddr, i, off, reads, sums, result,
                   stored, torn, lost, overfull>>

ExtAfter(a) == {b \in Ext : b > a}
next_idx == CHOOSE b \in ExtAfter(idx) : \A c \in ExtAfter(idx) : b <= c
alloc_size == data.size
alloc_end == U16(hostAddr[idx] + alloc_size)

\* case 1.1: one external ADD, and it does not fit below the code
NotEnoughForOne == Cardinality(Ext) = 1 /\ alloc_end > code_start

\* Mutants of FitsInPlace: the next ADD, or the code above the last one, is
\* not looked at.
FitsBelowCode == alloc_end <= code_start
FitsBelowNext == ExtAfter(idx) # {} => alloc_end < hostAddr[next_idx]

\* cases 1.2, 2.2 and 3.2
FitsInPlace ==
    IF ExtAfter(idx) # {} THEN alloc_end < hostAddr[next_idx]
                          ELSE alloc_end <= code_start

Start ==
    /\ pc = "start"
    /\ ~NotEnoughForOne
    /\ pc' = IF FitsInPlace THEN "inplace" ELSE "read"
    /\ UNCHANGED <<watch, hostAddr, locals, result, history>>

-----------------------------------------------------------------------------
(* Reading all ADDs and assigning them new addresses *)

SkipTo(n) ==
    /\ pc \in {"read", "place", "move"}
    /\ i' = n
    /\ before' = IF pc = "read" THEN [before EXCEPT ![i + 1] = before[i]]
                 ELSE before
    /\ UNCHANGED <<watch, hostAddr, pc, args, off, ram, add_size, sums,
                   result, history>>

\* Mutants of Skip: one index too many; the loop does not advance.
SkipTooFar == i \in (0..NUM_APPS) \ Ext /\ SkipTo(i + 1)
SkipNowhere == i \in Apps \ Ext /\ SkipTo(i)

\* The three loops of the relocation pass over the other applications.
Skip == i \in Apps \ Ext /\ SkipTo(i + 1)

\* The first loop: sizes and contents of all ADDs, the new one for idx.
Collect ==
    /\ pc = "read"
    /\ i \in Ext
    /\ LET size == IF i = idx THEN alloc_size ELSE SizeAt(hostAddr[i])
           bytes == IF i = idx THEN Bytes(data)
                    ELSE [k \in 0..(size - 1) |->
                             eeprom[U16(hostAddr[i] + k)]]
       IN /\ add_size' = [add_size EXCEPT ![i] = size]
          /\ ram' = [ram EXCEPT ![i] = bytes]
          /\ total' = U16(total + size)
          /\ before' = [before EXCEPT ![i + 1] = before[i] + size]
    /\ i' = i + 1
    /\ UNCHANGED <<watch, hostAddr, pc, args, off, unused, dist, db_end,
                   result, history>>

\* Mutant of avail: the code of external applications is forgotten.
AvailBelowCodeEnd == CODE_START - DB_START

avail == U16(code_start - DB_START)
left == U16(avail - total)                     \* unused_db_size, a u16
pages == (left \div PAGE_SIZE) * PAGE_SIZE     \* rounded down to pages

\* Mutant of share: every ADD gets all of the unused memory.
ShareUndivided == pages

\* what each ADD gets of the unused memory, in pages
share == (pages \div (Cardinality(Ext) * PAGE_SIZE)) * PAGE_SIZE

\* unused_db_size <= 0: "not enough memory"
Refuse ==
    /\ pc = "read"
    /\ i = NUM_APPS
    /\ left <= 0
    /\ Return(-1)
    /\ UNCHANGED <<watch, hostAddr, history>>

Distribute ==
    /\ pc = "read"
    /\ i = NUM_APPS
    /\ left > 0
    /\ unused' = pages
    /\ dist' = share
    /\ db_end' = DB_START
    /\ overfull' = (before[NUM_APPS] > avail)
    /\ pc' = "place"
    /\ i' = 0
    /\ UNCHANGED <<watch, hostAddr, args, off, reads, total, result,
                   loads, stored, torn, lost>>

\* The second loop: the new addresses, in the host's copy of the ACBs.
Place ==
    /\ pc = "place"
    /\ i \in Ext
    /\ hostAddr' = [hostAddr EXCEPT ![i] = db_end]
    /\ db_end' = U16(db_end + add_size[i]
                     + IF dist # 0 THEN dist
                       ELSE IF i = idx THEN unused ELSE 0)
    /\ i' = i + 1
    /\ UNCHANGED <<watch, pc, args, off, reads, total, unused, dist,
                   result, history>>

-----------------------------------------------------------------------------
(* Writing *)

Writing == pc \in {"inplace", "move"}
target == IF pc = "inplace" THEN idx ELSE i
Source(a) == IF pc = "inplace" THEN Bytes(data) ELSE ram[a]
SizeOf(a) == IF pc = "inplace" THEN alloc_size ELSE add_size[a]

\* bytes of the next write command
Chunk == IF SizeOf(target) - off < PAGE_SIZE THEN SizeOf(target) - off
                                             ELSE PAGE_SIZE

\* memory after that command
PageWritten ==
    [x \in Addresses |->
        LET k == U16(x - hostAddr[target])
        IN IF k \in off..(off + Chunk - 1) THEN Source(target)[k]
                                           ELSE eeprom[x]]

\* what is no longer certain once it is sent
Unsettle ==
    /\ torn' = IF pc = "inplace" THEN torn \cup {idx} ELSE torn
    /\ lost' = (lost \/ pc = "move")

\* One page of the new ADD in its old place, or of ADD i in its new place.
WritePage ==
    /\ Writing
    /\ target \in Ext
    /\ off < SizeOf(target)
    /\ eeprom' = PageWritten
    /\ Unsettle
    /\ off' = off + Chunk
    /\ UNCHANGED <<devAddr, hostAddr, pc, args, i, reads, sums, result,
                   loads, stored, overfull>>

\* The load is done.
Succeed ==
    /\ stored' = [stored EXCEPT ![idx] = data]
    /\ torn' = torn \ {idx}
    /\ lost' = FALSE
    /\ Return(0)

\* The ADD is written; for idx its ACD byte follows, db_modified cleared.
Written ==
    /\ Writing
    /\ target \in Ext
    /\ off = SizeOf(target)
    /\ \/ /\ pc = "inplace"
          /\ Succeed
       \/ /\ pc = "move"
          /\ i' = i + 1
          /\ off' = 0
          /\ UNCHANGED <<pc, args, reads, sums, result, stored, torn,
                         lost>>
    /\ UNCHANGED <<watch, hostAddr, loads, overfull>>

\* The end of the second and of the third loop.
NextPhase ==
    /\ pc \in {"place", "move"}
    /\ i = NUM_APPS
    /\ pc' = IF pc = "place" THEN "move" ELSE "acb"
    /\ i' = 0
    /\ UNCHANGED <<watch, hostAddr, args, off, reads, sums, result,
                   history>>

\* Mutant of AcbWritten: the last page is not written.
AcbWrittenButLast ==
    [a \in Ext |-> IF AcbPage[a] = off /\ off < LastAcbPage THEN hostAddr[a]
                   ELSE devAddr[a]]

\* update_acb writes the whole table page by page; off counts its pages.
AcbWritten ==
    [a \in Ext |-> IF AcbPage[a] = off THEN hostAddr[a] ELSE devAddr[a]]

UpdateAcb ==
    /\ pc = "acb"
    /\ devAddr' = AcbWritten
    /\ \/ /\ off < LastAcbPage
          /\ off' = off + 1
          /\ UNCHANGED <<pc, args, i, reads, sums, result, stored,
                         torn, lost>>
       \/ /\ off = LastAcbPage
          /\ Succeed
    /\ UNCHANGED <<eeprom, hostAddr, loads, overfull>>

\* A command reports an error: comm_multi_packet_write (also case 1.1), a
\* read, the write of a page, of an ACD byte or of a page of the ACB table.
\* The watch may have run it all the same.
CommandFails ==
    /\ \/ /\ \/ pc = "start"
             \/ pc = "read" /\ i \in Ext \ {idx}
             \/ Writing /\ target = idx /\ off = SizeOf(idx)
          /\ UNCHANGED <<watch, torn, lost>>
       \/ /\ Writing /\ target \in Ext /\ off < SizeOf(target)
          /\ eeprom' \in {eeprom, PageWritten}
          /\ Unsettle
          /\ UNCHANGED devAddr
       \/ /\ pc = "acb"
          /\ devAddr' \in {devAddr, AcbWritten}
          /\ UNCHANGED <<eeprom, torn, lost>>
    /\ Return(-1)
    /\ UNCHANGED <<hostAddr, loads, stored, overfull>>

-----------------------------------------------------------------------------

Run == \/ Start \/ Skip \/ Collect \/ Refuse \/ Distribute \/ Place
       \/ WritePage \/ Written \/ NextPhase \/ UpdateAcb \/ CommandFails

Next == StartSession \/ Load \/ Run

Spec == Init /\ [][Next]_vars

\* load_add runs on: every command it sends returns (Tucp, CallsReturn).
FairSpec == Spec /\ WF_vars(Run)

-----------------------------------------------------------------------------
(* Properties *)

Sound == ~lost /\ ~overfull

TypeOK ==
    /\ eeprom \in [Addresses -> Cells]
    /\ devAddr \in [Ext -> Addresses] /\ hostAddr \in [Ext -> Addresses]
    /\ pc \in {"idle", "start", "inplace", "read", "place", "move", "acb",
               "ended"}
    /\ IF pc \in {"idle", "ended"} THEN idx = -1 /\ data = Blank
       ELSE idx \in Ext /\ data \in Adds /\ data.app = idx
    /\ i \in 0..NUM_APPS /\ off \in Nat
    /\ add_size \in [Ext -> Sizes \cup {0}]
    /\ before \in [0..NUM_APPS -> Nat]
    /\ DOMAIN ram = Ext
    /\ \A a \in Ext : ram[a] \in [0..(add_size[a] - 1) -> Cells]
    /\ total \in Addresses /\ unused \in Addresses
    /\ dist \in Nat /\ db_end \in Addresses
    /\ result \in {-1, 0, 1} /\ loads \in 0..MaxLoads
    /\ stored \in [Ext -> Adds]
    /\ torn \subseteq Ext /\ lost \in BOOLEAN /\ overfull \in BOOLEAN

\* Every ADD that was stored with success is where the watch's ACB table says
\* and complete, except the one a failed write has torn: whatever load_add
\* does to one application, failures included, leaves the others alone.  A
\* relocation promises this again when it is through, and not at all when it
\* was cut short or had no room.
AddsIntact == Sound => \A a \in Ext \ torn : Holds(stored[a], devAddr[a])

\* A load that returns 0 has stored what it was given: the new ADD stands
\* where both the watch and the host believe it to be.
SuccessStores ==
    pc = "idle" /\ result = 0 /\ Sound =>
        /\ hostAddr = devAddr
        /\ \E a \in Ext : stored[a].ver = loads /\ Holds(stored[a], devAddr[a])

\* The ADDs are in the order of their indices, disjoint, above DB_START and
\* below the code: what the choice of next_idx relies on.
InOrder ==
    Sound => \A a \in Ext :
        /\ DB_START <= devAddr[a]
        /\ devAddr[a] + SizeAt(devAddr[a]) <= code_start
        /\ \A b \in Ext :
              a < b => devAddr[a] + SizeAt(devAddr[a]) <= devAddr[b]

\* WristApp code and what is below DB_START is never written.
OutsideUntouched ==
    [][~overfull => \A x \in Addresses :
          x < DB_START \/ x >= code_start => eeprom'[x] = eeprom[x]]_vars

\* The new addresses assigned in a relocation leave room for every ADD, in
\* order, below the code.
PlacedInOrder ==
    pc \in {"move", "acb"} /\ ~overfull => \A a \in Ext :
        /\ DB_START <= hostAddr[a]
        /\ hostAddr[a] + add_size[a] <= code_start
        /\ \A b \in Ext : a < b => hostAddr[a] + add_size[a] <= hostAddr[b]

\* What PlacedInOrder rests on.  How far the sums go, and the place loop:
covered == IF pc = "read" THEN i ELSE NUM_APPS
placed == IF pc = "place" THEN i ELSE NUM_APPS

AtRest == pc \in {"idle", "start", "ended"} =>
              i = 0 /\ total = 0 /\ before[0] = 0

\* The sums are those of the sizes, the loop's own modulo Word.
SumsRight ==
    pc \in {"read", "place", "move", "acb"} =>
        /\ before[0] = 0
        /\ \A n \in 0..(NUM_APPS - 1) : n < covered =>
              before[n + 1] = before[n] + (IF n \in Ext THEN add_size[n] ELSE 0)
        /\ \A m, n \in 0..NUM_APPS :
              m <= n /\ n <= covered => before[m] <= before[n]
        /\ pc = "read" /\ before[i] < Word => total = before[i]

\* What is left over is no more than there is, and its shares no more than it.
Shared ==
    pc \in {"place", "move", "acb"} /\ ~overfull =>
        /\ before[NUM_APPS] + unused <= avail
        /\ Cardinality(Ext) * dist <= unused

\* the unused memory left in front of index n
rank(n) == Cardinality({b \in Ext : b < n})
gap(n) == IF dist # 0 THEN rank(n) * dist ELSE IF n > idx THEN unused ELSE 0

Placement ==
    pc \in {"place", "move", "acb"} /\ ~overfull =>
        /\ \A a \in Ext : a < placed =>
              hostAddr[a] = DB_START + before[a] + gap(a)
        /\ pc = "place" => db_end = DB_START + before[i] + gap(i)

\* The loops of a relocation keep account of every byte: the sums are right,
\* the shares fit, and each address is the sum of what lies below it.
PlacingInv == AtRest /\ SumsRight /\ Shared /\ Placement

\* What AddsIntact, SuccessStores, InOrder and OutsideUntouched rest on.  The
\* host's addresses are the watch's until new ones are assigned, and what is
\* stored there says how long it is.
Known ==
    /\ pc \in {"start", "inplace", "read"} => Sound
    /\ pc \in {"idle", "start", "inplace", "read"} /\ Sound => hostAddr = devAddr
    /\ Sound => \A a \in Ext : SizeAt(devAddr[a]) # 0
    /\ pc \notin {"idle", "ended"} => data.ver = loads
    /\ pc = "ended" => result = -1
    /\ pc \notin {"inplace", "move", "acb"} => off = 0

\* A write in place has the room up to the next ADD, its first off bytes are
\* in memory, and it is known to be incomplete as soon as one is.
InPlace ==
    pc = "inplace" =>
        /\ devAddr[idx] + alloc_size <= code_start
        /\ \A b \in ExtAfter(idx) : devAddr[idx] + alloc_size <= devAddr[b]
        /\ off > 0 => idx \in torn
        /\ \A k \in 0..(alloc_size - 1) :
              k < off => eeprom[devAddr[idx] + k] = [add |-> data, off |-> k]

\* The ADD that application a is to have when a relocation is through.
Wanted(a) == IF a = idx THEN data ELSE stored[a]

\* The host's memory holds every ADD it has read, and the new one; of a torn
\* ADD what is left of it.
Copied ==
    pc \in {"read", "place", "move", "acb"} =>
        \A a \in Ext : a < covered =>
            /\ add_size[a] # 0 /\ ram[a][0].add.size = add_size[a]
            /\ a = idx \/ a \notin torn => /\ add_size[a] = Wanted(a).size
                                           /\ ram[a] = Bytes(Wanted(a))

\* The bytes that a relocation has written so far are at their new addresses,
\* and it counts as cut short from its first write to its last.
Moved ==
    pc \in {"move", "acb"} =>
        /\ pc = "acb" \/ off > 0 \/ i > idx => lost
        /\ pc = "move" /\ i \notin Ext => off = 0
        /\ ~overfull => \A a \in Ext : \A k \in 0..(add_size[a] - 1) :
              pc = "acb" \/ a < i \/ (a = i /\ k < off) =>
                  eeprom[hostAddr[a] + k] = ram[a][k]

\* The pages of the ACB table written so far show the new addresses.
Table ==
    pc = "acb" => /\ off <= LastAcbPage
                  /\ \A a \in Ext : AcbPage[a] < off => devAddr[a] = hostAddr[a]

\* Host, memory and table agree on how far a load has come, page by page.
StoringInv == Known /\ InPlace /\ Copied /\ Moved /\ Table

\* At every step of a load all addresses, all sums and each byte of an ADD are
\* accounted for.
LoadingInv == PlacingInv /\ StoringInv

\* ADDs are only moved when all of them fit ("we don't have enough memory to
\* store data", memory.c:482).
MovesOnlyWhatFits == pc = "place" => before[NUM_APPS] <= avail

\* Every call of load_add returns.
LoadReturns == pc = "start" ~> pc \in {"idle", "ended"}

=============================================================================
