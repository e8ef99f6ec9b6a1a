------------------------------- MODULE NoteDb --------------------------------
(***************************************************************************)
(* Notes (note.c): the list a program holds, its ADD, and the work of      *)
(* add_note, del_note, unused_note and init_dlusb.                         *)
(***************************************************************************)
EXTENDS LinkedAdd

Here == app = "note"
SIZE == 8    \* bytes of a record's header

Rec(m) == [msg |-> m, len |-> Space(m), prev |-> 0, next |-> 0]
Shorts == {Rec(m) : m \in {m \in Msgs : MsgLen[m] < BLANK}}

\* the order of memcmp, then of the lengths
cmp_note(a, b) == IF a.msg < b.msg THEN -1 ELSE IF a.msg > b.msg THEN 1 ELSE 0

Q == INSTANCE Quicksort WITH Cmp <- cmp_note

\* the index of the first note with the text, -1 if there is none
find_note(d, m) == SelectInSeq(d.recs, LAMBDA r : r.msg = m) - 1

add_note(d, m) ==
    [recs |-> InsertBefore(d.recs, LAMBDA r : cmp_note(Rec(m), r) < 0, Rec(m)),
     hdr |-> [d.hdr EXCEPT !.num_recs = U16(@ + 1)]]

del_note(d, i) == Deleted(d, i)

\* the loop bodies of add_note_file and del_note_file
add_note_file(d, m) == IF find_note(d, m) < 0 THEN add_note(d, m) ELSE d
del_note_file(d, m) == del_note(d, find_note(d, m))

\* Mutant of update_note: the list is not sorted.
update_note_unsorted(d, s) == Linked(d.recs, d.hdr, s, SIZE)

update_note(d, s) == Linked(Q!Sorted(d.recs, Range(d.recs)), d.hdr, s, SIZE)

create_note(d, s) == Laid(update_note(d, s), SIZE)

read_note_mem(im) == Followed(im)
init_note(g) == Fresh(g, SIZE)

\* what is printed of the notes held, and of those of the watch
print_note(d) == [j \in DOMAIN d.recs |-> d.recs[j].msg]
print_all_notes(im) ==
    LET c == Chain(im, im.hdr.head) IN [j \in DOMAIN c |-> im.at[c[j]].msg]

-----------------------------------------------------------------------------
Init == Here /\ Started /\ image \in Foreign(Shorts, SIZE)

Statics == {Options(u, e) : u \in Unused, e \in Extra}

Open == Here /\ \E tool \in {"add", "del"}, s \in Statics :
    Opens(tool, read_note_mem(image), s)

Create == Here /\ \E g \in Garbage, s \in Statics : Creates(init_note(g), s)

\* one line of add_note_file, or msg= of add_note
AddLine ==
    /\ Here /\ Len(db.recs) < MaxRecs
    /\ \E m \in Msgs : Edits(Adders, add_note_file(db, m), <<"add", m, m>>)
    /\ UNCHANGED static

\* one line of del_note_file, or msg= of del_note
DelLine ==
    /\ Here
    /\ \E m \in Msgs : Edits({"del"}, del_note_file(db, m), <<"del", m>>)
    /\ UNCHANGED static

\* del_note -a
DeleteAll == Here /\ Edits({"del"}, Emptied(db), <<"del_all">>) /\ UNCHANGED static

Save == Here /\ Holding /\ Saves(create_note(db, static))
Leave == Here /\ Quit

Next == Open \/ Create \/ AddLine \/ DelLine \/ DeleteAll \/ Save \/ Leave

-----------------------------------------------------------------------------
Kept(d) == BagOfSeq(d.recs, LAMBDA r : r.msg)
Restored == FoldLeft(add_note_file, init_note(0), print_all_notes(image))
InOrder ==
    LET l == print_all_notes(image) IN \A j \in 1..(Len(l) - 1) : l[j] <= l[j + 1]
=============================================================================
