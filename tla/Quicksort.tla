------------------------------ MODULE Quicksort ------------------------------
(***************************************************************************)
(* DEFINE_QSORT (define.h): the quicksort macro, on the part head..tail of *)
(* a sequence.  Cmp is cmp_note or cmp_appt.                               *)
(* The macro moves the elements' contents, not the links.                  *)
(***************************************************************************)
EXTENDS Integers, Sequences, FiniteSetsExt

CONSTANT Cmp(_, _)

\* the two inner loops: tail goes down to an element below the pivot,
\* head goes up to one above it, neither beyond the other
Down(s, head, tail, pivot) ==
    Max({k \in head..tail : k = head \/ Cmp(s[k], pivot) < 0})

Up(s, head, tail, pivot) ==
    Min({k \in head..tail : k = tail \/ Cmp(s[k], pivot) > 0})

\* R is the set of the elements of s0
Sorted(s0, R) ==
    LET \* the outer loop, up to the place where head and tail meet
        split[x \in Seq(R) \X Nat \X Nat \X R] ==
            LET s == x[1]
                head == x[2]
                tail == x[3]
                t == Down(s, head, tail, x[4])
                s1 == IF head # t THEN [s EXCEPT ![head] = s[t]] ELSE s
                h1 == IF head # t THEN head + 1 ELSE head
                h == Up(s1, h1, t, x[4])
                s2 == IF h # t THEN [s1 EXCEPT ![t] = s1[h]] ELSE s1
                t2 == IF h # t THEN t - 1 ELSE t
            IN IF head = tail THEN <<[s EXCEPT ![head] = x[4]], head>>
               ELSE split[<<s2, h, t2, x[4]>>]
        sorted[x \in Seq(R) \X Nat \X Nat] ==
            LET at == split[<<x[1], x[2], x[3], x[1][x[2]]>>]
                p == at[2]
                left == IF x[2] # p THEN sorted[<<at[1], x[2], p - 1>>] ELSE at[1]
            IN IF x[3] # p THEN sorted[<<left, p + 1, x[3]>>] ELSE left
    IN IF s0 = << >> THEN s0 ELSE sorted[<<s0, 1, Len(s0)>>]
=============================================================================
