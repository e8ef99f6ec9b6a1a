------------------------------- MODULE DbLists -------------------------------
(***************************************************************************)
(* What the databases of the library share: texts, sizes, the steps of     *)
(* working on a list, and the program around them.                         *)
(*                                                                         *)
(* A text is a number: the order of the numbers is the order memcmp gives  *)
(* the texts, a shorter text before its extensions, and MsgLen its length, *)
(* already cut to MAX_MSG_LEN.  A record keeps the text and the length of  *)
(* the space it takes, sentinel included, apart, as the code does.         *)
(***************************************************************************)
EXTENDS Integers, SequencesExt

CONSTANTS
    Msgs,         \* the texts
    MsgLen,       \* the length of each
    MAX_MSG_LEN,
    PAGE_SIZE,
    MaxRecs       \* bound: records of a database

ASSUME MsgsAssumption == Msgs \subseteq Nat /\ MsgLen \in [Msgs -> 0..MAX_MSG_LEN]
ASSUME SizesAssumption == PAGE_SIZE \in Nat \ {0} /\ MAX_MSG_LEN \in Nat

VARIABLES
    app,     \* the application whose database it is
    prog,    \* the program at work: "closed" (none), "add" (an add_* or unused_*
             \* tool), "del" (a del_* tool), "new" (init_dlusb), "dead"
    db,      \* what it holds
    static,  \* the static variables of the module, and the program's updated
    image,   \* the database as it stands in the watch, an ADD
    req      \* history: the last request, as in Records

vars == <<app, prog, db, static, image, req>>

Progs == {"closed", "add", "del", "new", "dead"}
Closed == [recs |-> << >>, hdr |-> << >>]

Started == prog = "closed" /\ db = Closed /\ static = << >> /\ req = <<"none">>

\* the space a text takes with its sentinel
Space(m) == MsgLen[m] + 1

U16(x) == x % 65536

\* Mutant of alloc: the size is not rounded up to pages.
alloc_bytes(size) == size

\* the allocation size: whole pages
alloc(size) == ((size - 1) \div PAGE_SIZE + 1) * PAGE_SIZE

Sum(s) ==
    LET upTo[n \in 0..Len(s)] == IF n = 0 THEN 0 ELSE upTo[n - 1] + s[n]
    IN upTo[Len(s)]

\* what the lines make of a database, one after another
Made(Add(_, _), d, lines) ==
    LET upTo[n \in 0..Len(lines)] == IF n = 0 THEN d ELSE Add(upTo[n - 1], lines[n])
    IN upTo[Len(lines)]

\* what deletes of the first record, n of them, leave of a database
FirstsDeleted(Del(_, _), d, n) ==
    LET after[k \in 0..n] == IF k = 0 THEN d ELSE Del(after[k - 1], 0)
    IN after[n]

\* the offset of each piece when pieces of these lengths follow one another from start
Offsets(start, lens) ==
    [i \in DOMAIN lens |-> start + Sum(SubSeq(lens, 1, i - 1))]

\* r put before the first element where the search stops, or at the end
InsertBefore(s, Stop(_), r) ==
    LET i == SelectInSeq(s, Stop) IN IF i = 0 THEN Append(s, r) ELSE InsertAt(s, i, r)

\* the bag of f(x) for the elements of a sequence
BagOfSeq(s, f(_)) == FoldSeq(LAMBDA x, B : B (+) SetToBag({f(x)}), EmptyBag, s)

\* pieces <<offset, length>> overlap nowhere and lie from lo to hi
Packed(pieces, lo, hi) ==
    /\ \A p \in pieces : lo <= p[1] /\ p[1] + p[2] <= hi
    /\ \A p, q \in pieces : p # q => p[1] + p[2] <= q[1] \/ q[1] + q[2] <= p[1]

\* The list and the place in it of index i, counted from 0 through lists of these
\* lengths; <<0, 0>> if they are not as long.
Position(lens, i) ==
    LET before(w) == Sum(SubSeq(lens, 1, w - 1))
        at == {w \in DOMAIN lens : before(w) <= i /\ i < before(w) + lens[w]}
    IN IF at = {} THEN <<0, 0>> ELSE <<Min(at), i - before(Min(at)) + 1>>

\* A database of offsets and records: the table of offsets follows a header of
\* start bytes, the records follow the table.
Table(hdr, start, recs, Size(_)) ==
    LET off == Offsets(start + 2 * hdr.num_recs, [j \in DOMAIN recs |-> Size(recs[j])])
    IN [hdr |-> hdr, off |-> off,
        at |-> [o \in Range(off) |-> recs[CHOOSE j \in DOMAIN recs : off[j] = o]]]

\* its records in the order of the table
Listed(im) == [j \in 1..im.hdr.num_recs |-> im.at[im.off[j]]]

\* the bytes it takes
Extent(hdr, start, recs, Size(_)) ==
    start + 2 * hdr.num_recs + Sum([j \in DOMAIN recs |-> Size(recs[j])])

\* The table and the records overlap nowhere and lie in the first size bytes.
TableFits(im, start, Size(_), size) ==
    Packed({<<start, 2 * im.hdr.num_recs>>} \cup {<<o, Size(im.at[o])>> : o \in DOMAIN im.at},
           start, size)

\* the sequences of up to n elements of S in which each is not above the next
Ascending(S, n, Below(_, _)) ==
    UNION {{s \in [1..k -> S] : \A j \in 1..(k - 1) : Below(s[j], s[j + 1])} : k \in 0..n}

-----------------------------------------------------------------------------
(* The program: a tool that edits the database, or init_dlusb *)

\* A tool has read the database of the watch.
Opens(tool, d, s) ==
    /\ prog = "closed"
    /\ prog' = tool /\ db' = d /\ static' = s
    /\ req' = <<"open">>
    /\ UNCHANGED <<app, image>>

\* init_dlusb starts an empty database.
Creates(d, s) ==
    /\ prog = "closed"
    /\ prog' = "new" /\ db' = d /\ static' = s
    /\ req' = <<"create">>
    /\ UNCHANGED <<app, image>>

\* One step of the work of these programs on the list; static is left to the caller.
Edits(progs, d, r) ==
    /\ prog \in progs
    /\ db' = d
    /\ req' = r
    /\ UNCHANGED <<app, prog, image>>

Adders == {"add", "new"}
Holding == prog \in {"add", "del", "new"}

\* create_* and load_add
Saves(im) ==
    /\ Holding
    /\ image' = im
    /\ prog' = "closed" /\ db' = Closed /\ static' = << >>
    /\ req' = <<"save">>
    /\ UNCHANGED app

\* The program ends with nothing stored.
Stops(how) ==
    /\ Holding
    /\ prog' = how /\ db' = Closed /\ static' = << >>
    /\ req' = <<"quit">>
    /\ UNCHANGED <<app, image>>

\* It had nothing to store, or an error.
Quit == Stops("closed")
=============================================================================
