------------------------------- MODULE Records -------------------------------
(***************************************************************************)
(* What a database of the watch promises its user, whatever lists, links   *)
(* and counters it is made of: a bag of records.                           *)
(***************************************************************************)
EXTENDS Naturals, Bags

VARIABLES
    kept,    \* the bag of the records a program holds
    stored,  \* the bag of the records in the watch
    req      \* the request made last: <<"add", asked, made>>, <<"del", asked>>, ...

vars == <<kept, stored, req>>

Has(B, r) == BagIn(r, B)
One(r) == SetToBag({r})

Init == kept = EmptyBag /\ req = <<"none">>

\* Record r is asked for and, unless there is one like it, n is added: the same
\* record, as far as the watch can represent it.
Add(r, n) ==
    /\ req' = <<"add", r, n>>
    /\ kept' = IF Has(kept, r) THEN kept ELSE kept (+) One(n)
    /\ UNCHANGED stored

\* One record r is deleted if there is one.
Delete(r) ==
    /\ req' = <<"del", r>>
    /\ kept' = IF Has(kept, r) THEN kept (-) One(r) ELSE kept
    /\ UNCHANGED stored

DeleteAll == req' = <<"del_all">> /\ kept' = EmptyBag /\ UNCHANGED stored

\* A line of a file is passed over, an option is set.
Skip == UNCHANGED <<kept, stored>>

Open == req' = <<"open">> /\ kept' = stored /\ UNCHANGED stored
Create == req' = <<"create">> /\ kept' = EmptyBag /\ UNCHANGED stored
Save == req' = <<"save">> /\ stored' = kept /\ kept' = EmptyBag
Quit == req' = <<"quit">> /\ kept' = EmptyBag /\ UNCHANGED stored

Next ==
    \/ req'[1] = "add" /\ Add(req'[2], req'[3])
    \/ req'[1] = "del" /\ Delete(req'[2])
    \/ req'[1] = "skip" /\ Skip
    \/ DeleteAll \/ Open \/ Create \/ Save \/ Quit

Spec == Init /\ [][Next]_vars
=============================================================================
