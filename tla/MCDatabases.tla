----------------------------- MODULE MCDatabases -----------------------------
(***************************************************************************)
(* Small databases: texts of three lengths, the longest one longer than a  *)
(* record of the watch; data that meet in their keys; a small page, so     *)
(* that a few records cross its end.                                       *)
(***************************************************************************)
EXTENDS Databases

MCMsgs == 1..3
MCBegins == {<<1, 2>>, <<1, 3>>}
MCMsgLen == (1 :> 3) @@ (2 :> 5) @@ (3 :> 95)

\* three texts at one time, frequencies only an appointment, or only an alarm,
\* may have, a time out of range
MCAppts ==
    {[msg |-> m, time |-> 1, status |-> 0, freq |-> 4] : m \in {1, 3}}
    \cup {[msg |-> 2, time |-> 1, status |-> 0, freq |-> 0],
          [msg |-> 1, time |-> 3, status |-> 1, freq |-> 11]}

MCContacts == {[msg |-> m, who |-> w] : m \in {1, 2}, w \in {1, 2}}
              \cup {[msg |-> 3, who |-> 1]}

MCOccasions ==
    {[msg |-> 1, date |-> d, type |-> t] : d \in {1, 2}, t \in {0, 16}}
    \cup {[msg |-> 2, date |-> 1, type |-> 49], [msg |-> 3, date |-> 1, type |-> 3]}

MCSchedules ==
    {[group |-> g, msg |-> m, when |-> 1] : g \in {1, 2}, m \in {1, 3}}
    \cup {[group |-> 2, msg |-> 1, when |-> 2]}

MCTimers ==
    {[msg |-> m, time |-> t, at_end |-> 2 * (t - 1), half |-> t % 2] : m \in 1..3, t \in {1, 2}}

MCLaps ==
    {[workout_id |-> 1, lap_id |-> 1, date |-> 1, time |-> 2],
     [workout_id |-> 1, lap_id |-> 2, date |-> 1, time |-> 3],
     [workout_id |-> 2, lap_id |-> 1, date |-> 2, time |-> 2]}
=============================================================================
