------------------------------ MODULE ContactDb ------------------------------
(***************************************************************************)
(* Contacts (contact.c).  A contact whose share (msg_offset) is k shows    *)
(* the text of the k-th contact before it, which owns it.                  *)
(*                                                                         *)
(* who stands for the type and the phone number, in their order.           *)
(***************************************************************************)
EXTENDS DbLists

CONSTANTS
    Contacts,    \* the data lines can give: [msg, who]
    Begins     \* <<a, b>>: text b begins with text a and is longer

Here == app = "contact"
HDR == 7
NoText == -1         \* rec->msg == NULL

\* what a line may say
Lines == [msg : Msgs, who : Nat]

Rec(c, share) ==
    [msg |-> IF share = 0 THEN c.msg ELSE NoText, len |-> Space(c.msg), who |-> c.who,
     share |-> share]

\* Only as much of the texts is compared as both have: a text that extends that of
\* b stands before or after b by who, as an equal text does.
Before(a, b) == \/ a.msg < b.msg
                \/ (a.msg = b.msg \/ <<b.msg, a.msg>> \in Begins) /\ a.who < b.who

Size(r) == 11 + (IF r.share = 0 THEN r.len ELSE 0)

\* the text a contact shows: that of the last owner met
Text(recs, j) == recs[Max({k \in 1..j : recs[k].share = 0})].msg
Line(recs, j) == [msg |-> Text(recs, j), who |-> recs[j].who]

WithSize(hdr, n, size) ==
    [hdr EXCEPT !.num_recs = n, !.db_size = size, !.alloc_size = alloc(size)]

find_contact(d, c) ==
    LET found == {j \in DOMAIN d.recs : Line(d.recs, j) = c}
    IN IF found = {} THEN -1 ELSE Min(found) - 1

\* The text is looked for among the owners, but with a length that is never
\* that of an equal text: no contact added shares one.  lost: see del_contact.
add_contact(d, c) ==
    LET n == Len(d.recs)
        owner == SelectInSeq(d.recs, LAMBDA r :
                     r.share = 0 /\ r.len = MsgLen[c.msg] /\ r.msg = c.msg)
        greater == SelectInSeq(d.recs, LAMBDA r :
                     r.msg # NoText /\ Before(c, r))
        at == IF owner # 0
              THEN Min({j \in (owner + 1)..(n + 1) : j = n + 1 \/ d.recs[j].share = 0})
              ELSE IF greater # 0 THEN greater ELSE n + 1
        rec == Rec(c, IF owner # 0 THEN at - owner ELSE 0)
    IN [recs |-> InsertAt(d.recs, at, rec),
        hdr |-> WithSize(d.hdr, n + 1, d.hdr.db_size + 2 + Size(rec))]

\* Mutant of del_contact: the offsets of the contacts that share stay.
del_contact_offsets(d, i) ==
    IF i < 0 \/ i >= Len(d.recs) THEN d
    ELSE LET j == i + 1
             handed == d.recs[j].share = 0 /\ j < Len(d.recs) /\ d.recs[j + 1].share > 0
             rest == [k \in DOMAIN d.recs |->
                        IF handed /\ k = j + 1
                        THEN [d.recs[k] EXCEPT !.msg = d.recs[j].msg, !.share = 0] ELSE d.recs[k]]
         IN [recs |-> RemoveAt(rest, j),
             hdr |-> [WithSize(d.hdr, Len(rest) - 1, d.hdr.db_size - 2 - Size(d.recs[j]))
                         EXCEPT !.lost = @ + IF handed THEN d.recs[j].len ELSE 0]]

\* The next contact inherits the text when it shares it; db_size is reduced by
\* its length all the same, and lost counts that.
del_contact(d, i) ==
    IF i < 0 \/ i >= Len(d.recs) THEN d
    ELSE LET j == i + 1
             shares(k) == \A m \in (j + 1)..k : d.recs[m].share > 0
             handed == d.recs[j].share = 0 /\ j < Len(d.recs) /\ d.recs[j + 1].share > 0
             heir(r) == [r EXCEPT !.msg = d.recs[j].msg]
             closer(r) == [r EXCEPT !.share = @ - 1]
             rest == [k \in DOMAIN d.recs |->
                        IF k <= j \/ ~shares(k) THEN d.recs[k]
                        ELSE IF handed /\ k = j + 1 THEN closer(heir(d.recs[k]))
                        ELSE closer(d.recs[k])]
         IN [recs |-> RemoveAt(rest, j),
             hdr |-> [WithSize(d.hdr, Len(rest) - 1, d.hdr.db_size - 2 - Size(d.recs[j]))
                         EXCEPT !.lost = @ + IF handed THEN d.recs[j].len ELSE 0]]

\* the loop bodies of add_contact_file and del_contact_file
add_contact_file(d, c) == IF find_contact(d, c) < 0 THEN add_contact(d, c) ELSE d
del_contact_file(d, c) == del_contact(d, find_contact(d, c))

create_contact(d) == Table(d.hdr, HDR, d.recs, Size)
read_contact(im) == [hdr |-> im.hdr, recs |-> Listed(im)]

init_contact == [recs |-> << >>, hdr |-> [num_recs |-> 0, db_size |-> HDR,
                                          alloc_size |-> alloc(HDR), lost |-> 0]]

print_contact(d) == [j \in DOMAIN d.recs |-> Line(d.recs, j)]
print_all_contacts(im) ==
    [j \in 1..im.hdr.num_recs |->
        [msg |-> im.at[im.off[Max({k \in 1..j : im.at[im.off[k]].share = 0})]].msg,
         who |-> im.at[im.off[j]].who]]

\* An ADD of the watch: contacts in the order of their texts, those of the same
\* text sharing it or not.
Foreign(lines, shared) ==
    LET share[j \in DOMAIN lines] ==
            IF shared /\ j > 1 /\ lines[j - 1].msg = lines[j].msg THEN share[j - 1] + 1 ELSE 0
        recs == [j \in DOMAIN lines |-> Rec(lines[j], share[j])]
        hdr == [init_contact.hdr EXCEPT !.num_recs = Len(lines)]
    IN create_contact([recs |-> recs,
                       hdr |-> WithSize(hdr, Len(lines), Extent(hdr, HDR, recs, Size))])

-----------------------------------------------------------------------------
Init ==
    /\ Here /\ Started
    /\ \E lines \in Ascending(Contacts, MaxRecs, LAMBDA a, b : a.msg <= b.msg), shared \in BOOLEAN :
          image = Foreign(lines, shared)

Open == Here /\ \E tool \in {"add", "del"} :
    Opens(tool, read_contact(image), [updated |-> FALSE])

Create == Here /\ Creates(init_contact, [updated |-> TRUE])

Update(changed) == static' = [static EXCEPT !.updated = @ \/ changed]

AddLine ==
    /\ Here /\ Len(db.recs) < MaxRecs
    /\ \E c \in Contacts :
          /\ Edits(Adders, add_contact_file(db, c), <<"add", c, c>>)
          /\ Update(find_contact(db, c) < 0)

DelLine ==
    /\ Here
    /\ \E c \in Contacts :
          /\ Edits({"del"}, del_contact_file(db, c), <<"del", c>>)
          /\ Update(find_contact(db, c) >= 0)

\* while(!del_contact(&db, 0))
DeleteAll ==
    /\ Here
    /\ Edits({"del"}, FirstsDeleted(del_contact, db, Len(db.recs)), <<"del_all">>)
    /\ Update(db.recs # << >>)

\* A list longer than the memory allocated for it is written past its end:
\* nothing can be said of what follows.
Save ==
    /\ Here /\ Holding /\ static.updated
    /\ IF Extent(db.hdr, HDR, db.recs, Size) <= db.hdr.alloc_size
       THEN Saves(create_contact(db))
       ELSE Stops("dead")

Leave == Here /\ Quit

Next == Open \/ Create \/ AddLine \/ DelLine \/ DeleteAll \/ Save \/ Leave

-----------------------------------------------------------------------------
Kept(d) == BagOfSeq(print_contact(d), LAMBDA l : l)
Restored == FoldLeft(add_contact_file, init_contact, print_all_contacts(image))

\* Text b begins with a text a, or with one that a begins with too.
Extends(b, a) == \E m \in Msgs : <<m, b>> \in Begins /\ (m = a \/ <<m, a>> \in Begins)

\* In the order of the texts, but for texts that begin with the same text.
Ordered(texts) ==
    \A i, j \in DOMAIN texts : i < j => texts[i] <= texts[j] \/ Extends(texts[i], texts[j])

InOrder ==
    LET l == print_all_contacts(image) IN Ordered([j \in DOMAIN l |-> l[j].msg])

\* The contact an offset leads to owns its text, the ones between share it, and
\* an owner has a text.
OffsetsLead(recs) ==
    \A j \in DOMAIN recs :
        /\ recs[j].share < j
        /\ recs[j - recs[j].share].share = 0
        /\ \A k \in (j - recs[j].share + 1)..j : recs[k].share > 0
        /\ (recs[j].share = 0) <=> (recs[j].msg # NoText)

Stored == [msg : Msgs \cup {NoText}, len : Nat, who : Nat, share : Nat]
Hdrs == [num_recs : Nat, db_size : Int, alloc_size : Int, lost : Nat]

\* the text of the contact that the offset leads to
Shown(recs) == [j \in DOMAIN recs |-> recs[j - recs[j].share].msg]

\* Offsets lead to the texts, which are in order and as long as each contact says;
\* the header counts the contacts, and their bytes but for what was lost.
Sound(d) ==
    /\ d \in [recs : Seq(Stored), hdr : Hdrs]
    /\ d.hdr.num_recs = Len(d.recs)
    /\ OffsetsLead(d.recs)
    /\ \A j \in DOMAIN d.recs : d.recs[j].len = Space(Shown(d.recs)[j])
    /\ Ordered(Shown(d.recs))
    /\ d.hdr.db_size + d.hdr.lost = Extent(d.hdr, HDR, d.recs, Size)

\* The watch holds what create_contact makes of such a database when the memory is
\* large enough, a program such a database.
SoundInv ==
    /\ Sound(read_contact(image)) /\ image = create_contact(read_contact(image))
    /\ image.hdr.db_size + image.hdr.lost <= image.hdr.alloc_size
    /\ IF Holding THEN Sound(db) ELSE db = Closed

\* db_size is short of what was handed over, by that much exactly.
Fits ==
    /\ TableFits(image, HDR, Size, image.hdr.db_size + image.hdr.lost)
    /\ image.hdr.db_size <= image.hdr.alloc_size
=============================================================================
