------------------------------ MODULE LinkedAdd ------------------------------
(***************************************************************************)
(* The layout that notes and appointments share in the watch (appt.c and   *)
(* note.c are the same here but for the size of a record's header): a list *)
(* of records and a list of unused blank ones, each linked by offsets in   *)
(* both directions, after a header of 15 bytes.                            *)
(*                                                                         *)
(* An ADD is its header and what stands at each offset.                    *)
(***************************************************************************)
EXTENDS DbLists

CONSTANTS
    MIN_MSG_LEN,
    Unused,   \* the numbers of unused records that may be asked for (-u)
    Extra,    \* the extra lengths (-e)
    Garbage   \* what an uninitialised hdr.unused_recs may hold

ASSUME LinkedAssumption ==
    /\ MIN_MSG_LEN \in Nat /\ Unused \subseteq Nat /\ Extra \subseteq Nat
    /\ Garbage \subseteq 0..65535

HDR == 15        \* bytes of the header
BLANK == 31      \* 30 spaces and a sentinel

\* set_*_unused_recs, set_*_extra_len
Options(u, e) ==
    [unused_recs |-> u, extra_msg_len |-> IF e < MIN_MSG_LEN THEN MIN_MSG_LEN ELSE e]

\* the text, extra space up to MAX_MSG_LEN, and a sentinel at least
Slot(m, extra) ==
    (IF MsgLen[m] + extra > MAX_MSG_LEN THEN MAX_MSG_LEN ELSE MsgLen[m] + extra) + 1

\* Mutant of Linked: an offset is that of the record's text.
LinkedToText(recs, hdr, s, size) ==
    LET n == Len(recs)
        addr == Offsets(HDR, [j \in 1..(n + 1) |->
                    IF j > n THEN 0 ELSE size + Slot(recs[j].msg, s.extra_msg_len)])
    IN [recs |-> [j \in 1..n |->
            [recs[j] EXCEPT !.len = Slot(recs[j].msg, s.extra_msg_len),
                            !.prev = IF j = 1 THEN 0 ELSE addr[j - 1],
                            !.next = IF j = n THEN 0 ELSE addr[j + 1] - 1]],
        hdr |-> [num_recs |-> U16(hdr.num_recs + s.unused_recs - hdr.unused_recs),
                 unused_recs |-> s.unused_recs,
                 head |-> IF n = 0 THEN 0 ELSE HDR,
                 tail |-> IF n = 0 THEN 0 ELSE addr[n],
                 unused_head |-> IF s.unused_recs = 0 THEN 0 ELSE addr[n + 1],
                 db_size |-> addr[n + 1] + (size + BLANK) * s.unused_recs,
                 alloc_size |-> alloc(addr[n + 1] + (size + BLANK) * s.unused_recs)]]

\* update_appt, update_note after the sort: offsets, links and counts.
\* size is that of a record's header
Linked(recs, hdr, s, size) ==
    LET n == Len(recs)
        addr == Offsets(HDR, [j \in 1..(n + 1) |->
                    IF j > n THEN 0 ELSE size + Slot(recs[j].msg, s.extra_msg_len)])
        db_size == addr[n + 1] + (size + BLANK) * s.unused_recs
    IN [recs |-> [j \in 1..n |->
            [recs[j] EXCEPT !.len = Slot(recs[j].msg, s.extra_msg_len),
                            !.prev = IF j = 1 THEN 0 ELSE addr[j - 1],
                            !.next = IF j = n THEN 0 ELSE addr[j + 1]]],
        hdr |-> [num_recs |-> U16(hdr.num_recs + s.unused_recs - hdr.unused_recs),
                 unused_recs |-> s.unused_recs,
                 head |-> IF n = 0 THEN 0 ELSE HDR,
                 tail |-> IF n = 0 THEN 0 ELSE addr[n],
                 unused_head |-> IF s.unused_recs = 0 THEN 0 ELSE addr[n + 1],
                 db_size |-> db_size,
                 alloc_size |-> alloc(db_size)]]

\* create_appt, create_note once the records are linked: each record is put
\* where the one before it points, the blank ones follow
Laid(d, size) ==
    LET h == d.hdr
        at[j \in Nat] == IF j = 1 THEN h.head ELSE d.recs[j - 1].next
        blank(k) == h.unused_head + (k - 1) * (size + BLANK)
        blanks == {blank(k) : k \in 1..h.unused_recs}
    IN [hdr |-> h,
        at |-> [o \in blanks |->
                  [msg |-> -1, len |-> BLANK,
                   next |-> IF o = blank(h.unused_recs) THEN 0 ELSE o + size + BLANK,
                   prev |-> IF o = h.unused_head THEN 0 ELSE o - size - BLANK]]
               @@ [o \in {at[j] : j \in DOMAIN d.recs} |->
                     d.recs[CHOOSE j \in DOMAIN d.recs : at[j] = o]]]

\* the offsets of the records in the order of the links
Chain(im, first) ==
    LET from[o \in Nat] == IF o = 0 THEN << >> ELSE <<o>> \o from[im.at[o].next]
    IN from[first]

\* read_appt, read_note: the records along the links, the length of each
\* recalculated from its text
Followed(im) ==
    [hdr |-> im.hdr,
     recs |-> LET c == Chain(im, im.hdr.head)
              IN [j \in DOMAIN c |-> [im.at[c[j]] EXCEPT !.len = Space(im.at[c[j]].msg)]]]

\* init_appt, init_note: hdr.unused_recs is what the memory holds (g)
Fresh(g, size) ==
    [recs |-> << >>,
     hdr |-> [num_recs |-> g, unused_recs |-> g, head |-> 0, tail |-> 0,
              unused_head |-> HDR, db_size |-> HDR + (size + BLANK) * g,
              alloc_size |-> alloc(HDR + (size + BLANK) * g)]]

\* del_appt, del_note: the record of index i, counted from 0; unchanged if
\* there is none
Deleted(d, i) ==
    IF i < 0 \/ i >= d.hdr.num_recs - d.hdr.unused_recs \/ i >= Len(d.recs) THEN d
    ELSE [recs |-> RemoveAt(d.recs, i + 1), hdr |-> [d.hdr EXCEPT !.num_recs = U16(@ - 1)]]

\* while(!del_appt(&db, 0)), while(!del_note(&db, 0))
Emptied(d) == FirstsDeleted(Deleted, d, Len(d.recs))

\* The ADD as the watch keeps it after editing: records of 31 bytes of text in
\* any order, linked in any order.  p[j] is the place of the j-th record.
Edited(recs, p, u, size) ==
    LET n == Len(recs)
        place(j) == HDR + (p[j] - 1) * (size + BLANK)
        last == HDR + n * (size + BLANK)
    IN Laid([recs |-> [j \in 1..n |->
                 [recs[j] EXCEPT !.len = BLANK,
                                 !.prev = IF j = 1 THEN 0 ELSE place(j - 1),
                                 !.next = IF j = n THEN 0 ELSE place(j + 1)]],
             hdr |-> [num_recs |-> n + u, unused_recs |-> u,
                      head |-> IF n = 0 THEN 0 ELSE place(1),
                      tail |-> IF n = 0 THEN 0 ELSE place(n),
                      unused_head |-> IF u = 0 THEN 0 ELSE last,
                      db_size |-> last + u * (size + BLANK),
                      alloc_size |-> alloc(last + u * (size + BLANK))]], size)

\* the ADDs of up to two records that the watch may hold
Foreign(R, size) ==
    UNION {{Edited(recs, p, u, size) :
                recs \in [1..n -> R], p \in Permutations(1..n), u \in Unused} : n \in 0..2}

\* Both lists can be walked either way and are as long as the header says;
\* records and blanks overlap nowhere and fit in db_size bytes.
WellLinked(im, size) ==
    LET c == Chain(im, im.hdr.head)
        u == Chain(im, im.hdr.unused_head)
        Mirrored(l) == \A j \in DOMAIN l : im.at[l[j]].prev = IF j = 1 THEN 0 ELSE l[j - 1]
    IN /\ Len(u) = im.hdr.unused_recs
       /\ Len(c) + Len(u) = im.hdr.num_recs
       /\ Mirrored(c) /\ Mirrored(u)
       /\ im.hdr.tail = IF c = << >> THEN 0 ELSE c[Len(c)]
       /\ Packed({<<o, size + im.at[o].len>> : o \in DOMAIN im.at}, HDR, im.hdr.db_size)
       /\ im.hdr.db_size <= im.hdr.alloc_size
=============================================================================
