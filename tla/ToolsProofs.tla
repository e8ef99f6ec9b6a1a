----------------------------- MODULE ToolsProofs -----------------------------
(***************************************************************************)
(* Theorems about Tools, for every program and any number of files on the  *)
(* command line of dump_dlusb and load_dlusb.                              *)
(*                                                                         *)
(* First what the step lists of the programs have in common (Sound,        *)
(* Followed); then an invariant that says what of it lies behind a program *)
(* and what ahead, and that each step keeps it; last the theorems.         *)
(***************************************************************************)
EXTENDS Tools, SequenceTheorems, TLAPS

-----------------------------------------------------------------------------
(* The steps of a program *)

Gets(k) == {<<"read", k>>, <<"make", k>>, <<"file", k>>}
Stores(k) == {<<"store", k>>, <<"store_updated", k>>, <<"update", k>>}
Others == {<<"find_app">>, <<"edit">>, <<"print">>, <<"export">>, <<"write_file">>,
           <<"noname">>, <<"pass">>}
Closings == {<<"end_session">>, <<"exit_session">>}

Framed(s) ==
    /\ Len(s) \in Nat /\ Len(s) >= 3
    /\ s[1] = <<"open_dev">> /\ s[2] = <<"start_session">>
    /\ s[Len(s)] \in Closings

\* The device is opened, then the session; it is closed last.  What is stored was
\* read or made before, and the session then ends with a new sync id.
Sound(s) ==
    /\ Framed(s)
    /\ \A j \in 3..(Len(s) - 1) :
          s[j] \in Others \/ \E k \in Things : s[j] \in Gets(k) \cup Stores(k)
    /\ \A j \in 3..(Len(s) - 1) : \A k \in Things : s[j] \in Stores(k) =>
          /\ s[Len(s)] = <<"end_session">>
          /\ \E i \in 3..(j - 1) : s[i] \in Gets(k)

\* step j of program t writes thing k
Writes(t, j, k) ==
    \/ t.steps[j] \in {<<"store", k>>, <<"update", k>>}
    \/ t.steps[j] = <<"store_updated", k>> /\ t.updated

Later(t, j, k) == \E l \in (j + 1)..(Len(t.steps) - 1) : Writes(t, l, k)

\* What is made, taken from a file or changed is written later on, or the
\* program complains.
Followed(t, exempt) ==
    /\ \A j \in 3..(Len(t.steps) - 1) : \A k \in Things :
          t.steps[j] \in {<<"make", k>>, <<"file", k>>} => Later(t, j, k)
    /\ \A j \in 3..(Len(t.steps) - 1) :
          t.steps[j] = <<"edit">> /\ t.changed /\ ~t.says /\ ~exempt =>
             \A i \in 3..(j - 1) : \A k \in Things :
                 t.steps[i] \in Gets(k) => Later(t, j, k)

\* header lines that change what add_schedule holds, not the watch
Exempt(p, i) == p = "add_schedule" /\ HeaderOnly(i)

-----------------------------------------------------------------------------
(* Programs with one thing to read and to write *)

OneSteps == {<<"read", 1>>, <<"make", 1>>} \cup Stores(1) \cup Others

OneSound(s) ==
    /\ Framed(s)
    /\ \A j \in 3..(Len(s) - 1) : s[j] \in OneSteps
    /\ \A j \in 3..(Len(s) - 1) : s[j] \in Stores(1) =>
          /\ s[Len(s)] = <<"end_session">>
          /\ \E i \in 3..(j - 1) : s[i] \in Gets(1)

OneFollowed(t, exempt) ==
    \A j \in 3..(Len(t.steps) - 1) :
        \/ t.steps[j] = <<"make", 1>>
        \/ t.steps[j] = <<"edit">> /\ t.changed /\ ~t.says /\ ~exempt
        => \E l \in (j + 1)..(Len(t.steps) - 1) : Writes(t, l, 1)

\* One thing is among the things of any bound on the files.
LEMMA OneThing ==
  /\ 1 \in Things
  /\ \A n \in 0..MaxItems : \A k \in 1..n : k \in Things
<1>1. /\ Max({1, MaxItems}) \in {1, MaxItems}
      /\ Max({1, MaxItems}) >= 1 /\ Max({1, MaxItems}) >= MaxItems
  <2>1. \E m \in {1, MaxItems} : \A x \in {1, MaxItems} : x <= m
    BY ItemsAssumption
  <2> QED
    BY <2>1, ItemsAssumption DEF Max
<1> QED
  BY <1>1, ItemsAssumption DEF Things

\* Programs on one thing are like the others.
LEMMA OneOfAll ==
  ASSUME NEW t, NEW exempt, OneSound(t.steps), OneFollowed(t, exempt)
  PROVE  Sound(t.steps) /\ Followed(t, exempt)
<1> DEFINE s == t.steps
           n == Len(t.steps) - 1
<1>1. /\ Framed(s)
      /\ \A j \in 3..n : s[j] \in OneSteps
  BY DEF OneSound
<1>2. ASSUME NEW j \in 3..n, NEW k
      PROVE  /\ s[j] \in Gets(k) => k = 1 /\ s[j] \in {<<"read", 1>>, <<"make", 1>>}
             /\ s[j] \in Stores(k) => k = 1
  BY <1>1 DEF OneSteps, Gets, Stores, Others
<1>3. \A j \in 3..n : s[j] \in Others \cup Gets(1) \cup Stores(1)
  BY <1>1 DEF OneSteps, Gets
<1>4. Sound(s)
  <2>1. \A j \in 3..n : s[j] \in Others \/ \E k \in Things : s[j] \in Gets(k) \cup Stores(k)
    BY <1>3, OneThing
  <2>2. \A j \in 3..n : \A k \in Things : s[j] \in Stores(k) =>
           /\ s[Len(s)] = <<"end_session">>
           /\ \E i \in 3..(j - 1) : s[i] \in Gets(k)
    BY <1>2 DEF OneSound
  <2> QED
    BY <1>1, <2>1, <2>2 DEF Sound
<1>5. Followed(t, exempt)
  <2>1. ASSUME NEW j \in 3..n, NEW k \in Things, s[j] \in {<<"make", k>>, <<"file", k>>}
        PROVE  Later(t, j, k)
    <3>1. s[j] \in Gets(k)
      BY <2>1 DEF Gets
    <3>2. k = 1 /\ s[j] = <<"make", 1>>
      BY <1>2, <2>1, <3>1
    <3> QED
      BY <3>2 DEF OneFollowed, Later
  <2>2. ASSUME NEW j \in 3..n, s[j] = <<"edit">>, t.changed, ~t.says, ~exempt,
               NEW i \in 3..(j - 1), NEW k \in Things, s[i] \in Gets(k)
        PROVE  Later(t, j, k)
    <3>1. i \in 3..n
      BY <1>1 DEF Framed
    <3>2. k = 1
      BY <1>2, <2>2, <3>1
    <3> QED
      BY <2>2, <3>2 DEF OneFollowed, Later
  <2> QED
    BY <2>1, <2>2 DEF Followed
<1> QED
  BY <1>4, <1>5

-----------------------------------------------------------------------------
(* The step lists of the programs on one thing *)

\* The steps of the tools that edit a database.
LEMMA EditorSound ==
  ASSUME NEW store \in {"store", "store_updated"}
  PROVE  LET s == Editor(store)
         IN  /\ OneSound(s)
             /\ Len(s) = 8
             /\ s[3] = <<"find_app">>
             /\ s[4] = <<"read", 1>>
             /\ s[5] = <<"edit">>
             /\ s[6] = <<store, 1>>
             /\ s[7] = <<"print">>
             /\ s[8] = <<"end_session">>
<1> DEFINE s == Editor(store)
<1>1. /\ Len(s) = 8
      /\ s[1] = <<"open_dev">>
      /\ s[2] = <<"start_session">>
      /\ s[3] = <<"find_app">>
      /\ s[4] = <<"read", 1>>
      /\ s[5] = <<"edit">>
      /\ s[6] = <<store, 1>>
      /\ s[7] = <<"print">>
      /\ s[8] = <<"end_session">>
  BY DEF Editor, Begin
<1> HIDE DEF s
<1>2. \A j \in 3..7 : j \in {3, 4, 5, 6, 7}
  OBVIOUS
<1>3. \A j \in 3..7 : s[j] \in OneSteps
  BY <1>1, <1>2 DEF OneSteps, Gets, Stores, Others
<1>4. \A j \in 3..7 : s[j] \in Stores(1) => j = 6
  BY <1>1, <1>2 DEF Stores
<1>5. s[4] \in Gets(1) /\ 4 \in 3..(6 - 1)
  BY <1>1 DEF Gets
<1>6. \A j \in 3..7 : s[j] \in Stores(1) =>
         s[8] = <<"end_session">> /\ \E h \in 3..(j - 1) : s[h] \in Gets(1)
  BY <1>1, <1>4, <1>5
<1>7. OneSound(s)
  BY <1>1, <1>3, <1>6 DEF OneSound, Framed, Closings
<1> QED
  BY <1>1, <1>7 DEF s

\* The steps of sysinfo_dlusb.
LEMMA NothingSound ==
  LET s == Reader(<< >>).steps
  IN  /\ OneSound(s)
      /\ Len(s) = 4
      /\ s[3] = <<"print">>
      /\ s[4] = <<"exit_session">>
<1> DEFINE s == Reader(<< >>).steps
<1>1. /\ Len(s) = 4
      /\ s[1] = <<"open_dev">>
      /\ s[2] = <<"start_session">>
      /\ s[3] = <<"print">>
      /\ s[4] = <<"exit_session">>
  BY DEF Reader, Tool, Begin
<1> HIDE DEF s
<1>2. \A j \in 3..3 : j \in {3}
  OBVIOUS
<1>3. \A j \in 3..3 : s[j] \in OneSteps
  BY <1>1, <1>2 DEF OneSteps, Gets, Stores, Others
<1>4. \A j \in 3..3 : s[j] \notin Stores(1)
  BY <1>1, <1>2 DEF Stores
<1>5. OneSound(s)
  BY <1>1, <1>3, <1>4 DEF OneSound, Framed, Closings
<1> QED
  BY <1>1, <1>5 DEF s

\* The steps of print_note and its like, which find the application while they read.
LEMMA ReaderSound ==
  LET s == Reader(<<<<"read", 1>>>>).steps
  IN  /\ OneSound(s)
      /\ Len(s) = 5
      /\ s[3] = <<"read", 1>>
      /\ s[4] = <<"print">>
      /\ s[5] = <<"exit_session">>
<1> DEFINE s == Reader(<<<<"read", 1>>>>).steps
<1>1. /\ Len(s) = 5
      /\ s[1] = <<"open_dev">>
      /\ s[2] = <<"start_session">>
      /\ s[3] = <<"read", 1>>
      /\ s[4] = <<"print">>
      /\ s[5] = <<"exit_session">>
  BY DEF Reader, Tool, Begin
<1> HIDE DEF s
<1>2. \A j \in 3..4 : j \in {3, 4}
  OBVIOUS
<1>3. \A j \in 3..4 : s[j] \in OneSteps
  BY <1>1, <1>2 DEF OneSteps, Gets, Stores, Others
<1>4. \A j \in 3..4 : s[j] \notin Stores(1)
  BY <1>1, <1>2 DEF Stores
<1>5. OneSound(s)
  BY <1>1, <1>3, <1>4 DEF OneSound, Framed, Closings
<1> QED
  BY <1>1, <1>5 DEF s

\* The steps of print_contact and its like.
LEMMA FinderSound ==
  LET s == Reader(ReadAdd).steps
  IN  /\ OneSound(s)
      /\ Len(s) = 6
      /\ s[3] = <<"find_app">>
      /\ s[4] = <<"read", 1>>
      /\ s[5] = <<"print">>
      /\ s[6] = <<"exit_session">>
<1> DEFINE s == Reader(ReadAdd).steps
<1>1. /\ Len(s) = 6
      /\ s[1] = <<"open_dev">>
      /\ s[2] = <<"start_session">>
      /\ s[3] = <<"find_app">>
      /\ s[4] = <<"read", 1>>
      /\ s[5] = <<"print">>
      /\ s[6] = <<"exit_session">>
  BY DEF Reader, ReadAdd, Tool, Begin
<1> HIDE DEF s
<1>2. \A j \in 3..5 : j \in {3, 4, 5}
  OBVIOUS
<1>3. \A j \in 3..5 : s[j] \in OneSteps
  BY <1>1, <1>2 DEF OneSteps, Gets, Stores, Others
<1>4. \A j \in 3..5 : s[j] \notin Stores(1)
  BY <1>1, <1>2 DEF Stores
<1>5. OneSound(s)
  BY <1>1, <1>3, <1>4 DEF OneSound, Framed, Closings
<1> QED
  BY <1>1, <1>5 DEF s

\* The steps of export_chrono_csv.
LEMMA ExportSound ==
  ASSUME NEW i
  PROVE  LET s == export_chrono_csv(i).steps
         IN  /\ OneSound(s)
             /\ Len(s) = 5
             /\ s[3] = <<"read", 1>>
             /\ s[4] = <<"export">>
             /\ s[5] = <<"exit_session">>
<1> DEFINE s == export_chrono_csv(i).steps
<1>1. /\ Len(s) = 5
      /\ s[1] = <<"open_dev">>
      /\ s[2] = <<"start_session">>
      /\ s[3] = <<"read", 1>>
      /\ s[4] = <<"export">>
      /\ s[5] = <<"exit_session">>
  BY DEF export_chrono_csv, Tool, Begin
<1> HIDE DEF s
<1>2. \A j \in 3..4 : j \in {3, 4}
  OBVIOUS
<1>3. \A j \in 3..4 : s[j] \in OneSteps
  BY <1>1, <1>2 DEF OneSteps, Gets, Stores, Others
<1>4. \A j \in 3..4 : s[j] \notin Stores(1)
  BY <1>1, <1>2 DEF Stores
<1>5. OneSound(s)
  BY <1>1, <1>3, <1>4 DEF OneSound, Framed, Closings
<1> QED
  BY <1>1, <1>5 DEF s

\* The steps of unused_note and its like.
LEMMA UnusedSound ==
  LET s == Unused("end_session").steps
  IN  /\ OneSound(s)
      /\ Len(s) = 7
      /\ s[3] = <<"find_app">>
      /\ s[4] = <<"read", 1>>
      /\ s[5] = <<"edit">>
      /\ s[6] = <<"store", 1>>
      /\ s[7] = <<"end_session">>
<1> DEFINE s == Unused("end_session").steps
<1>1. /\ Len(s) = 7
      /\ s[1] = <<"open_dev">>
      /\ s[2] = <<"start_session">>
      /\ s[3] = <<"find_app">>
      /\ s[4] = <<"read", 1>>
      /\ s[5] = <<"edit">>
      /\ s[6] = <<"store", 1>>
      /\ s[7] = <<"end_session">>
  BY DEF Unused, ReadAdd, Tool, Begin
<1> HIDE DEF s
<1>2. \A j \in 3..6 : j \in {3, 4, 5, 6}
  OBVIOUS
<1>3. \A j \in 3..6 : s[j] \in OneSteps
  BY <1>1, <1>2 DEF OneSteps, Gets, Stores, Others
<1>4. \A j \in 3..6 : s[j] \in Stores(1) => j = 6
  BY <1>1, <1>2 DEF Stores
<1>5. s[4] \in Gets(1) /\ 4 \in 3..(6 - 1)
  BY <1>1 DEF Gets
<1>6. \A j \in 3..6 : s[j] \in Stores(1) =>
         s[7] = <<"end_session">> /\ \E h \in 3..(j - 1) : s[h] \in Gets(1)
  BY <1>1, <1>4, <1>5
<1>7. OneSound(s)
  BY <1>1, <1>3, <1>6 DEF OneSound, Framed, Closings
<1> QED
  BY <1>1, <1>7 DEF s

\* The steps of lock_dlusb.
LEMMA LockSound ==
  ASSUME NEW i
  PROVE  LET s == lock_dlusb(i).steps
         IN  /\ OneSound(s)
             /\ Len(s) = 5
             /\ s[3] = <<"make", 1>>
             /\ s[4] = <<"store", 1>>
             /\ s[5] = <<"end_session">>
<1> DEFINE s == lock_dlusb(i).steps
<1>1. /\ Len(s) = 5
      /\ s[1] = <<"open_dev">>
      /\ s[2] = <<"start_session">>
      /\ s[3] = <<"make", 1>>
      /\ s[4] = <<"store", 1>>
      /\ s[5] = <<"end_session">>
  BY DEF lock_dlusb, Tool, Begin
<1> HIDE DEF s
<1>2. \A j \in 3..4 : j \in {3, 4}
  OBVIOUS
<1>3. \A j \in 3..4 : s[j] \in OneSteps
  BY <1>1, <1>2 DEF OneSteps, Gets, Stores, Others
<1>4. \A j \in 3..4 : s[j] \in Stores(1) => j = 4
  BY <1>1, <1>2 DEF Stores
<1>5. s[3] \in Gets(1) /\ 3 \in 3..(4 - 1)
  BY <1>1 DEF Gets
<1>6. \A j \in 3..4 : s[j] \in Stores(1) =>
         s[5] = <<"end_session">> /\ \E h \in 3..(j - 1) : s[h] \in Gets(1)
  BY <1>1, <1>4, <1>5
<1>7. OneSound(s)
  BY <1>1, <1>3, <1>6 DEF OneSound, Framed, Closings
<1> QED
  BY <1>1, <1>7 DEF s

\* The steps of tod_dlusb.
LEMMA TodSound ==
  ASSUME NEW i
  PROVE  LET s == tod_dlusb(i).steps
         IN  /\ OneSound(s)
             /\ Len(s) = 5
             /\ s[3] = <<"make", 1>>
             /\ s[4] = <<"store", 1>>
             /\ s[5] = <<"end_session">>
<1> DEFINE s == tod_dlusb(i).steps
<1>1. /\ Len(s) = 5
      /\ s[1] = <<"open_dev">>
      /\ s[2] = <<"start_session">>
      /\ s[3] = <<"make", 1>>
      /\ s[4] = <<"store", 1>>
      /\ s[5] = <<"end_session">>
  BY DEF tod_dlusb, Tool, Begin
<1> HIDE DEF s
<1>2. \A j \in 3..4 : j \in {3, 4}
  OBVIOUS
<1>3. \A j \in 3..4 : s[j] \in OneSteps
  BY <1>1, <1>2 DEF OneSteps, Gets, Stores, Others
<1>4. \A j \in 3..4 : s[j] \in Stores(1) => j = 4
  BY <1>1, <1>2 DEF Stores
<1>5. s[3] \in Gets(1) /\ 3 \in 3..(4 - 1)
  BY <1>1 DEF Gets
<1>6. \A j \in 3..4 : s[j] \in Stores(1) =>
         s[5] = <<"end_session">> /\ \E h \in 3..(j - 1) : s[h] \in Gets(1)
  BY <1>1, <1>4, <1>5
<1>7. OneSound(s)
  BY <1>1, <1>3, <1>6 DEF OneSound, Framed, Closings
<1> QED
  BY <1>1, <1>7 DEF s

\* The steps of option_dlusb on a terminal.
LEMMA TerminalSound ==
  ASSUME NEW i, i.tty
  PROVE  LET s == option_dlusb(i).steps
         IN  /\ OneSound(s)
             /\ Len(s) = 5
             /\ s[3] = <<"read", 1>>
             /\ s[4] = <<"print">>
             /\ s[5] = <<"end_session">>
<1> DEFINE s == option_dlusb(i).steps
<1>1. /\ Len(s) = 5
      /\ s[1] = <<"open_dev">>
      /\ s[2] = <<"start_session">>
      /\ s[3] = <<"read", 1>>
      /\ s[4] = <<"print">>
      /\ s[5] = <<"end_session">>
  BY DEF option_dlusb, Tool, Begin
<1> HIDE DEF s
<1>2. \A j \in 3..4 : j \in {3, 4}
  OBVIOUS
<1>3. \A j \in 3..4 : s[j] \in OneSteps
  BY <1>1, <1>2 DEF OneSteps, Gets, Stores, Others
<1>4. \A j \in 3..4 : s[j] \notin Stores(1)
  BY <1>1, <1>2 DEF Stores
<1>5. OneSound(s)
  BY <1>1, <1>3, <1>4 DEF OneSound, Framed, Closings
<1> QED
  BY <1>1, <1>5 DEF s

\* The steps of option_dlusb with a file.
LEMMA OptionSound ==
  ASSUME NEW i, ~i.tty
  PROVE  LET s == option_dlusb(i).steps
         IN  /\ OneSound(s)
             /\ Len(s) = 7
             /\ s[3] = <<"read", 1>>
             /\ s[4] = <<"edit">>
             /\ s[5] = <<"update", 1>>
             /\ s[6] = <<"print">>
             /\ s[7] = <<"end_session">>
<1> DEFINE s == option_dlusb(i).steps
<1>1. /\ Len(s) = 7
      /\ s[1] = <<"open_dev">>
      /\ s[2] = <<"start_session">>
      /\ s[3] = <<"read", 1>>
      /\ s[4] = <<"edit">>
      /\ s[5] = <<"update", 1>>
      /\ s[6] = <<"print">>
      /\ s[7] = <<"end_session">>
  BY DEF option_dlusb, Tool, Begin
<1> HIDE DEF s
<1>2. \A j \in 3..6 : j \in {3, 4, 5, 6}
  OBVIOUS
<1>3. \A j \in 3..6 : s[j] \in OneSteps
  BY <1>1, <1>2 DEF OneSteps, Gets, Stores, Others
<1>4. \A j \in 3..6 : s[j] \in Stores(1) => j = 5
  BY <1>1, <1>2 DEF Stores
<1>5. s[3] \in Gets(1) /\ 3 \in 3..(5 - 1)
  BY <1>1 DEF Gets
<1>6. \A j \in 3..6 : s[j] \in Stores(1) =>
         s[7] = <<"end_session">> /\ \E h \in 3..(j - 1) : s[h] \in Gets(1)
  BY <1>1, <1>4, <1>5
<1>7. OneSound(s)
  BY <1>1, <1>3, <1>6 DEF OneSound, Framed, Closings
<1> QED
  BY <1>1, <1>7 DEF s

-----------------------------------------------------------------------------
(* The programs on one thing *)

\* Tools that store whatever they did.
LEMMA AlwaysFollowed ==
  ASSUME NEW t, NEW exempt, t.steps = Editor("store")
  PROVE  OneSound(t.steps) /\ OneFollowed(t, exempt)
<1>1. /\ OneSound(t.steps) /\ Len(t.steps) = 8
      /\ t.steps[3] = <<"find_app">> /\ t.steps[4] = <<"read", 1>>
      /\ t.steps[6] = <<"store", 1>> /\ t.steps[7] = <<"print">>
  BY EditorSound
<1>2. \A j \in 3..7 : j \in {3, 4, 5, 6, 7}
  OBVIOUS
<1>3. \A j \in 3..7 : t.steps[j] \in {<<"make", 1>>, <<"edit">>} => j = 5
  BY <1>1, <1>2
<1>4. Writes(t, 6, 1)
  BY <1>1 DEF Writes
<1>5. \A j \in 3..7 : j = 5 => 6 \in (j + 1)..7
  OBVIOUS
<1>6. \A j \in 3..(8 - 1) :
        t.steps[j] \in {<<"make", 1>>, <<"edit">>} => \E l \in (j + 1)..(8 - 1) : Writes(t, l, 1)
  BY <1>3, <1>4, <1>5
<1> QED
  BY <1>1, <1>6 DEF OneFollowed

\* Tools that store when they are updated.
LEMMA UpdatingFollowed ==
  ASSUME NEW t, NEW exempt, t.steps = Editor("store_updated"),
         t.changed /\ ~t.says /\ ~exempt => t.updated
  PROVE  OneSound(t.steps) /\ OneFollowed(t, exempt)
<1>1. /\ OneSound(t.steps) /\ Len(t.steps) = 8
      /\ t.steps[3] = <<"find_app">> /\ t.steps[4] = <<"read", 1>>
      /\ t.steps[6] = <<"store_updated", 1>> /\ t.steps[7] = <<"print">>
  BY EditorSound
<1>2. \A j \in 3..7 : j \in {3, 4, 5, 6, 7}
  OBVIOUS
<1>3. \A j \in 3..7 : t.steps[j] \in {<<"make", 1>>, <<"edit">>} => j = 5
  BY <1>1, <1>2
<1>4. t.updated => Writes(t, 6, 1)
  BY <1>1 DEF Writes
<1>5. \A j \in 3..7 : j = 5 => 6 \in (j + 1)..7
  OBVIOUS
<1>6. t.steps[5] # <<"make", 1>>
  BY EditorSound
<1>7. t.updated => \A j \in 3..(8 - 1) :
        t.steps[j] \in {<<"make", 1>>, <<"edit">>} => \E l \in (j + 1)..(8 - 1) : Writes(t, l, 1)
  BY <1>3, <1>4, <1>5
<1>8. \A j \in 3..(8 - 1) : t.steps[j] # <<"make", 1>>
  BY <1>3, <1>6
<1> QED
  BY <1>1, <1>7, <1>8 DEF OneFollowed

\* Tools that add write what they change.
LEMMA AddersSound ==
  ASSUME NEW p \in Adders, NEW i
  PROVE  OneSound(The(p, i).steps) /\ OneFollowed(The(p, i), Exempt(p, i))
<1> DEFINE t == The(p, i)
<1>1. CASE p \in {"add_note", "add_appt", "add_chrono", "add_countdn", "add_interval"}
  <2>1. t.steps = Editor("store")
    BY <1>1 DEF The, add_note, add_appt, add_chrono, add_countdn, Always, Tool
  <2> QED
    BY <2>1, AlwaysFollowed
<1>2. CASE p \in {"add_contact", "add_occasion"}
  <2>1. t.steps = Editor("store_updated")
    BY <1>2 DEF The, add_contact, add_occasion, Updating, Tool
  <2>2. t.changed => t.updated
    BY <1>2 DEF The, add_contact, add_occasion, Updating, Tool
  <2> QED
    BY <2>1, <2>2, UpdatingFollowed
<1>3. CASE p = "add_schedule"
  <2>1. t.steps = Editor("store_updated")
    BY <1>3 DEF The, add_schedule, Updating, Tool
  <2>2. t.changed /\ ~Exempt(p, i) => t.updated
    BY <1>3 DEF The, add_schedule, Updating, Tool, Exempt, Option
  <2> QED
    BY <2>1, <2>2, UpdatingFollowed
<1> QED
  BY <1>1, <1>2, <1>3 DEF Adders

\* Tools that delete write what they change.
LEMMA DeletersSound ==
  ASSUME NEW p \in Deleters, NEW i
  PROVE  OneSound(The(p, i).steps) /\ OneFollowed(The(p, i), Exempt(p, i))
<1> DEFINE t == The(p, i)
<1>1. CASE p \in {"del_note", "del_appt", "del_chrono"}
  <2>1. t.steps = Editor("store")
    BY <1>1 DEF The, del_note, del_appt, del_chrono, Emptying, Always, Tool
  <2> QED
    BY <2>1, AlwaysFollowed
<1>2. CASE p \in {"del_contact", "del_occasion", "del_schedule", "del_countdn"}
  <2>1. t.steps = Editor("store_updated")
    BY <1>2 DEF The, del_contact, del_occasion, del_schedule, del_countdn, Emptying, Updating, Tool
  <2>2. t.changed => t.updated
    BY <1>2 DEF The, del_contact, del_occasion, del_schedule, del_countdn, Emptying, Updating, Tool
  <2> QED
    BY <2>1, <2>2, UpdatingFollowed
<1> QED
  BY <1>1, <1>2 DEF Deleters

\* Programs that change nothing and make nothing.
LEMMA ReadingFollowed ==
  ASSUME NEW t, NEW exempt,
         \A j \in 3..(Len(t.steps) - 1) : t.steps[j] \notin {<<"make", 1>>, <<"edit">>}
  PROVE  OneFollowed(t, exempt)
  BY DEF OneFollowed

\* Programs that print or export end without a new sync id.
LEMMA ReadersSound ==
  ASSUME NEW p \in Readers \ {"dump_dlusb"}, NEW i
  PROVE  LET t == The(p, i)
         IN  /\ OneSound(t.steps) /\ OneFollowed(t, Exempt(p, i))
             /\ t.steps[Len(t.steps)] = <<"exit_session">>
<1> DEFINE t == The(p, i)
<1>1. CASE p \in {"print_note", "print_appt", "print_chrono", "print_chrono_report"}
  <2>1. t = Reader(<<<<"read", 1>>>>)
    BY <1>1 DEF The, print_note, print_appt, print_chrono, print_chrono_report
  <2>2. \A j \in 3..(5 - 1) : j \in {3, 4}
    OBVIOUS
  <2>3. \A j \in 3..(Len(t.steps) - 1) : t.steps[j] \notin {<<"make", 1>>, <<"edit">>}
    BY <2>1, <2>2, ReaderSound
  <2> QED
    BY <2>1, <2>3, ReaderSound, ReadingFollowed
<1>2. CASE p \in {"print_contact", "print_occasion", "print_schedule", "print_countdn"}
  <2>1. t = Reader(ReadAdd)
    BY <1>2 DEF The, print_contact, print_occasion, print_schedule, print_countdn
  <2>2. \A j \in 3..(6 - 1) : j \in {3, 4, 5}
    OBVIOUS
  <2>3. \A j \in 3..(Len(t.steps) - 1) : t.steps[j] \notin {<<"make", 1>>, <<"edit">>}
    BY <2>1, <2>2, FinderSound
  <2> QED
    BY <2>1, <2>3, FinderSound, ReadingFollowed
<1>3. CASE p = "sysinfo_dlusb"
  <2>1. t = Reader(<< >>)
    BY <1>3 DEF The, sysinfo_dlusb
  <2>2. \A j \in 3..(4 - 1) : j = 3
    OBVIOUS
  <2>3. \A j \in 3..(Len(t.steps) - 1) : t.steps[j] \notin {<<"make", 1>>, <<"edit">>}
    BY <2>1, <2>2, NothingSound
  <2> QED
    BY <2>1, <2>3, NothingSound, ReadingFollowed
<1>4. CASE p = "export_chrono_csv"
  <2>1. t = export_chrono_csv(i)
    BY <1>4 DEF The
  <2>2. \A j \in 3..(5 - 1) : j \in {3, 4}
    OBVIOUS
  <2>3. \A j \in 3..(Len(t.steps) - 1) : t.steps[j] \notin {<<"make", 1>>, <<"edit">>}
    BY <2>1, <2>2, ExportSound
  <2> QED
    BY <2>1, <2>3, ExportSound, ReadingFollowed
<1> QED
  BY <1>1, <1>2, <1>3, <1>4 DEF Readers

\* Programs with a write right after what is made or changed at place k.
LEMMA NextFollowed ==
  ASSUME NEW t, NEW exempt, NEW k \in Nat, Len(t.steps) \in Nat, k + 1 < Len(t.steps),
         \A j \in 3..(Len(t.steps) - 1) : t.steps[j] \in {<<"make", 1>>, <<"edit">>} => j = k,
         Writes(t, k + 1, 1)
  PROVE  OneFollowed(t, exempt)
<1>1. \A j \in 3..(Len(t.steps) - 1) : j = k => k + 1 \in (j + 1)..(Len(t.steps) - 1)
  OBVIOUS
<1>2. \A j \in 3..(Len(t.steps) - 1) : t.steps[j] \in {<<"make", 1>>, <<"edit">>}
        => \E l \in (j + 1)..(Len(t.steps) - 1) : Writes(t, l, 1)
  BY <1>1
<1> QED
  BY <1>2 DEF OneFollowed

\* Programs that set the locks, the time, the options, or widen a database.
LEMMA SettersSound ==
  ASSUME NEW p \in {"lock_dlusb", "tod_dlusb", "option_dlusb",
                    "unused_note", "unused_appt", "unused_chrono"}, NEW i
  PROVE  OneSound(The(p, i).steps) /\ OneFollowed(The(p, i), Exempt(p, i))
<1> DEFINE t == The(p, i)
<1>1. CASE p \in {"unused_note", "unused_appt", "unused_chrono"}
  <2>1. t.steps = Unused("end_session").steps
    BY <1>1 DEF The, unused_note, unused_appt, unused_chrono, Wider, Unused, Tool
  <2>2. \A j \in 3..(7 - 1) : j \in {3, 4, 5, 6}
    OBVIOUS
  <2>3. \A j \in 3..(7 - 1) : t.steps[j] \in {<<"make", 1>>, <<"edit">>} => j = 5
    BY <2>1, <2>2, UnusedSound
  <2>4. Writes(t, 6, 1)
    BY <2>1, UnusedSound DEF Writes
  <2>5. Len(t.steps) = 7 /\ OneSound(t.steps)
    BY <2>1, UnusedSound
  <2> HIDE DEF t
  <2>6. /\ 5 \in Nat /\ Len(t.steps) \in Nat /\ 5 + 1 < Len(t.steps)
        /\ Writes(t, 5 + 1, 1)
        /\ \A j \in 3..(Len(t.steps) - 1) :
              t.steps[j] \in {<<"make", 1>>, <<"edit">>} => j = 5
    BY <2>3, <2>4, <2>5
  <2>7. OneFollowed(t, Exempt(p, i))
    BY <2>6, NextFollowed
  <2> QED
    BY <2>5, <2>7 DEF t
<1>2. CASE p \in {"lock_dlusb", "tod_dlusb"}
  <2>1. t = lock_dlusb(i) \/ t = tod_dlusb(i)
    BY <1>2 DEF The
  <2>2. \A j \in 3..(5 - 1) : j \in {3, 4}
    OBVIOUS
  <2>3. Len(t.steps) = 5 /\ OneSound(t.steps) /\ t.steps[4] = <<"store", 1>>
    BY <2>1, LockSound, TodSound
  <2>4. \A j \in 3..(5 - 1) : t.steps[j] \in {<<"make", 1>>, <<"edit">>} => j = 3
    BY <2>2, <2>3
  <2>5. Writes(t, 4, 1)
    BY <2>3 DEF Writes
  <2> HIDE DEF t
  <2>6. /\ 3 \in Nat /\ Len(t.steps) \in Nat /\ 3 + 1 < Len(t.steps)
        /\ Writes(t, 3 + 1, 1)
        /\ \A j \in 3..(Len(t.steps) - 1) :
              t.steps[j] \in {<<"make", 1>>, <<"edit">>} => j = 3
    BY <2>3, <2>4, <2>5
  <2>7. OneFollowed(t, Exempt(p, i))
    BY <2>6, NextFollowed
  <2> QED
    BY <2>3, <2>7 DEF t
<1>3. CASE p = "option_dlusb" /\ i.tty
  <2>1. t = option_dlusb(i)
    BY <1>3 DEF The
  <2>2. \A j \in 3..(5 - 1) : j \in {3, 4}
    OBVIOUS
  <2>3. \A j \in 3..(Len(t.steps) - 1) : t.steps[j] \notin {<<"make", 1>>, <<"edit">>}
    BY <1>3, <2>1, <2>2, TerminalSound
  <2> QED
    BY <1>3, <2>1, <2>3, TerminalSound, ReadingFollowed
<1>4. CASE p = "option_dlusb" /\ ~i.tty
  <2>1. t = option_dlusb(i)
    BY <1>4 DEF The
  <2>2. \A j \in 3..(7 - 1) : j \in {3, 4, 5, 6}
    OBVIOUS
  <2>3. \A j \in 3..(7 - 1) : t.steps[j] \in {<<"make", 1>>, <<"edit">>} => j = 4
    BY <1>4, <2>1, <2>2, OptionSound
  <2>4. Writes(t, 5, 1)
    BY <1>4, <2>1, OptionSound DEF Writes
  <2>5. Len(t.steps) = 7 /\ OneSound(t.steps)
    BY <1>4, <2>1, OptionSound
  <2> HIDE DEF t
  <2>6. /\ 4 \in Nat /\ Len(t.steps) \in Nat /\ 4 + 1 < Len(t.steps)
        /\ Writes(t, 4 + 1, 1)
        /\ \A j \in 3..(Len(t.steps) - 1) :
              t.steps[j] \in {<<"make", 1>>, <<"edit">>} => j = 4
    BY <2>3, <2>4, <2>5
  <2>7. OneFollowed(t, Exempt(p, i))
    BY <2>6, NextFollowed
  <2> QED
    BY <2>5, <2>7 DEF t
<1> QED
  BY <1>1, <1>2, <1>3, <1>4

-----------------------------------------------------------------------------
(* The programs on files *)

Framing(f, e) == Begin \o ThreeEach(f) \o <<e>>

\* The steps of a list of files: three for each, framed.
LEMMA FilesShape ==
  ASSUME NEW f, Len(f) \in Nat, NEW e \in Closings
  PROVE  LET s == Framing(f, e)
             m == Len(f)
         IN  /\ Framed(s) /\ Len(s) = 3 * m + 3 /\ s[Len(s)] = e
             /\ \A k \in 1..m : /\ s[3 * k] = f[k][1]
                                /\ s[3 * k + 1] = f[k][2]
                                /\ s[3 * k + 2] = f[k][3]
             /\ \A j \in 3..(3 * m + 2) :
                   \E k \in 1..m : j \in {3 * k, 3 * k + 1, 3 * k + 2}
<1> DEFINE s == Framing(f, e)
           m == Len(f)
<1>1. m \in Nat /\ Len(f) = m
  OBVIOUS
<1>2. s = Begin \o ThreeEach(f) \o <<e>>
  BY DEF Framing
<1> HIDE DEF s, m
<1> DEFINE g == ThreeEach(f)
           v == [j \in 1..(3 * m) |-> f[(j + 2) \div 3][((j + 2) % 3) + 1]]
           S == {<<"open_dev">>, <<"start_session">>, e} \cup {v[j] : j \in 1..(3 * m)}
<1>3. g = v
  BY <1>1 DEF ThreeEach
<1>4. 3 * m \in Nat
  BY <1>1
<1>5. g \in Seq(S) /\ Len(g) = 3 * m
  <2>1. v \in [1..(3 * m) -> S]
    BY <1>1
  <2> HIDE DEF S, v
  <2>2. v \in Seq(S)
    BY <1>4, <2>1, SeqDef
  <2>3. DOMAIN v = 1..(3 * m) /\ DOMAIN v = 1..Len(v) /\ Len(v) \in Nat
    BY <2>1, <2>2, LenProperties
  <2>4. Len(v) = 3 * m
    BY <1>4, <2>3
  <2> QED
    BY <1>3, <2>2, <2>4
<1>6. Begin \in Seq(S) /\ Len(Begin) = 2
  BY DEF Begin
<1>7. <<e>> \in Seq(S) /\ Len(<<e>>) = 1 /\ <<e>>[1] = e
  OBVIOUS
<1>8. Begin[1] = <<"open_dev">> /\ Begin[2] = <<"start_session">>
  BY DEF Begin
<1>9. \A k \in 1..m : /\ g[3 * k - 2] = f[k][1]
                      /\ g[3 * k - 1] = f[k][2]
                      /\ g[3 * k] = f[k][3]
  <2>1. TAKE k \in 1..m
  <2>2. 3 * k - 2 \in 1..(3 * m) /\ 3 * k - 1 \in 1..(3 * m) /\ 3 * k \in 1..(3 * m)
    BY <1>1
  <2>3. /\ (3 * k - 2 + 2) \div 3 = k /\ ((3 * k - 2 + 2) % 3) + 1 = 1
        /\ (3 * k - 1 + 2) \div 3 = k /\ ((3 * k - 1 + 2) % 3) + 1 = 2
        /\ (3 * k + 2) \div 3 = k /\ ((3 * k + 2) % 3) + 1 = 3
    BY <1>1
  <2> QED
    BY <1>3, <2>2, <2>3
<1> HIDE DEF g, v, S
<1> DEFINE b == Begin \o g
<1>10. /\ b \in Seq(S) /\ Len(b) = 3 * m + 2
       /\ \A j \in 1..(3 * m + 2) : b[j] = IF j <= 2 THEN Begin[j] ELSE g[j - 2]
  <2>1. Len(b) = Len(Begin) + Len(g) /\ b \in Seq(S)
    BY <1>5, <1>6, ConcatProperties
  <2>2. \A j \in 1..(Len(Begin) + Len(g)) :
           b[j] = IF j <= Len(Begin) THEN Begin[j] ELSE g[j - Len(Begin)]
    BY <1>5, <1>6, ConcatProperties
  <2>3. Len(Begin) + Len(g) = 3 * m + 2
    BY <1>4, <1>5, <1>6
  <2> QED
    BY <1>6, <2>1, <2>2, <2>3
<1> HIDE DEF b
<1>11. /\ Len(s) = 3 * m + 3
       /\ \A j \in 1..(3 * m + 3) : s[j] = IF j <= 3 * m + 2 THEN b[j] ELSE <<e>>[j - (3 * m + 2)]
  <2> DEFINE last == <<e>>
  <2> HIDE DEF last
  <2>1. s = b \o last
    BY <1>2 DEF b, g, last
  <2>2. b \in Seq(S) /\ last \in Seq(S)
    BY <1>7, <1>10 DEF last
  <2>3. Len(s) = Len(b) + Len(<<e>>)
    BY <2>1, <2>2, ConcatProperties DEF last
  <2>4. \A j \in 1..(Len(b) + Len(<<e>>)) :
           s[j] = IF j <= Len(b) THEN b[j] ELSE <<e>>[j - Len(b)]
    BY <2>1, <2>2, ConcatProperties DEF last
  <2>5. Len(b) + Len(<<e>>) = 3 * m + 3
    BY <1>4, <1>7, <1>10
  <2> QED
    BY <1>10, <2>3, <2>4, <2>5
<1>12. s[Len(s)] = e
  <2>1. 3 * m + 3 \in 1..(3 * m + 3) /\ ~(3 * m + 3 <= 3 * m + 2)
        /\ (3 * m + 3) - (3 * m + 2) = 1
    BY <1>1
  <2> QED
    BY <1>7, <1>11, <2>1
<1>13. s[1] = <<"open_dev">> /\ s[2] = <<"start_session">>
  <2>1. /\ 1 \in 1..(3 * m + 3) /\ 2 \in 1..(3 * m + 3)
        /\ 1 \in 1..(3 * m + 2) /\ 2 \in 1..(3 * m + 2)
    BY <1>1
  <2> QED
    BY <1>8, <1>10, <1>11, <2>1
<1>14. \A j \in 1..(3 * m) : s[j + 2] = g[j]
  <2>1. TAKE j \in 1..(3 * m)
  <2>2. /\ j + 2 \in 1..(3 * m + 3) /\ j + 2 \in 1..(3 * m + 2)
        /\ j + 2 <= 3 * m + 2 /\ ~(j + 2 <= 2) /\ (j + 2) - 2 = j
    BY <1>1
  <2> QED
    BY <1>10, <1>11, <2>2
<1>15. \A k \in 1..m : /\ s[3 * k] = f[k][1]
                       /\ s[3 * k + 1] = f[k][2]
                       /\ s[3 * k + 2] = f[k][3]
  <2>1. TAKE k \in 1..m
  <2>2. /\ 3 * k - 2 \in 1..(3 * m) /\ 3 * k - 1 \in 1..(3 * m) /\ 3 * k \in 1..(3 * m)
        /\ (3 * k - 2) + 2 = 3 * k /\ (3 * k - 1) + 2 = 3 * k + 1
    BY <1>1
  <2>3. s[(3 * k - 2) + 2] = g[3 * k - 2] /\ s[(3 * k - 1) + 2] = g[3 * k - 1]
        /\ s[3 * k + 2] = g[3 * k]
    BY <1>14, <2>2
  <2> QED
    BY <1>9, <2>2, <2>3
<1>16. \A j \in 3..(3 * m + 2) : \E k \in 1..m : j \in {3 * k, 3 * k + 1, 3 * k + 2}
  <2>1. TAKE j \in 3..(3 * m + 2)
  <2>2. j \div 3 \in 1..m
    BY <1>1
  <2>3. j \in {3 * (j \div 3), 3 * (j \div 3) + 1, 3 * (j \div 3) + 2}
    BY <1>1
  <2> QED
    BY <2>2, <2>3
<1>17. Framed(s)
  <2>1. 3 * m + 3 \in Nat /\ 3 * m + 3 >= 3
    BY <1>1
  <2> QED
    BY <1>11, <1>12, <1>13, <2>1 DEF Framed
<1> QED
  BY <1>11, <1>12, <1>15, <1>16, <1>17 DEF s, m

\* The files of the command line are things.
LEMMA FilesOf ==
  ASSUME NEW p \in {"dump_dlusb", "load_dlusb"}, NEW i \in InputsOf(p)
  PROVE  /\ Len(i.items) \in Nat /\ DOMAIN i.items = 1..Len(i.items)
         /\ \A k \in 1..Len(i.items) : k \in Things /\ i.items[k] \in Items
         /\ p = "load_dlusb" => \A k \in 1..Len(i.items) : i.items[k] # "memory"
<1>1. p \notin Adders /\ p \notin Deleters
  BY DEF Adders, Deleters
<1>2. InputsOf(p) = IF p = "dump_dlusb" THEN WithItems(Items) ELSE WithItems(Items \ {"memory"})
  <2>1. CASE p = "dump_dlusb"
    BY <1>1, <2>1 DEF InputsOf
  <2>2. CASE p = "load_dlusb"
    BY <1>1, <2>2 DEF InputsOf
  <2> QED
    BY <2>1, <2>2
<1>3. PICK n \in 0..MaxItems :
        \E h \in [1..n -> IF p = "dump_dlusb" THEN Items ELSE Items \ {"memory"}] :
           i = [Plain EXCEPT !.items = h]
  BY <1>2 DEF WithItems
<1>4. PICK f \in [1..n -> IF p = "dump_dlusb" THEN Items ELSE Items \ {"memory"}] :
        i = [Plain EXCEPT !.items = f]
  BY <1>3
<1>5. i.items = f
  BY <1>4 DEF Plain
<1>6. n \in Nat
  BY ItemsAssumption
<1>7. f \in Seq(Items)
  <2>1. f \in [1..n -> Items]
    BY <1>4
  <2> QED
    BY <1>6, <2>1, SeqDef
<1>8. Len(f) = n
  <2>1. DOMAIN f = 1..n /\ DOMAIN f = 1..Len(f) /\ Len(f) \in Nat
    BY <1>7, <1>4, LenProperties
  <2> QED
    BY <1>6, <2>1
<1>9. \A k \in 1..n : k \in Things
  BY OneThing
<1>10. \A k \in 1..n : f[k] \in Items /\ (p = "load_dlusb" => f[k] # "memory")
  BY <1>4
<1> QED
  BY <1>4, <1>5, <1>6, <1>8, <1>9, <1>10

\* what each step of a file may be
Dumps(k) == {<<"find_app">>, <<"pass">>, <<"noname">>, <<"read", k>>, <<"write_file">>}
Idle == {<<"find_app">>, <<"pass">>, <<"noname">>}

\* Those of every file are of that kind.
LEMMA ThreeSteps ==
  ASSUME NEW item \in Items, NEW k
  PROVE  /\ LET d == Dumped(item, k)
            IN  d[1] \in Dumps(k) /\ d[2] \in Dumps(k) /\ d[3] \in Dumps(k)
         /\ item # "memory" =>
               LET l == Loaded(item, k)
               IN  /\ l[2] \in Idle
                   /\ \/ l[1] = <<"file", k>> /\ l[3] = <<"store", k>>
                      \/ l[1] \in Idle /\ l[3] \in Idle
<1>1. CASE item = "app"
  BY <1>1 DEF Dumped, Loaded, Dumps, Idle
<1>2. CASE item = "option"
  BY <1>2 DEF Dumped, Loaded, Dumps, Idle
<1>3. CASE item = "memory"
  BY <1>3 DEF Dumped, Dumps
<1>4. CASE item = "noname"
  BY <1>4 DEF Dumped, Loaded, Dumps, Idle
<1>5. CASE item = "skip"
  BY <1>5 DEF Dumped, Loaded, Dumps, Idle
<1> QED
  BY <1>1, <1>2, <1>3, <1>4, <1>5 DEF Items

\* dump_dlusb writes nothing to the watch.
LEMMA DumpSound ==
  ASSUME NEW i \in InputsOf("dump_dlusb"), NEW exempt
  PROVE  LET t == dump_dlusb(i)
         IN  /\ Sound(t.steps) /\ Followed(t, exempt)
             /\ t.steps[Len(t.steps)] = <<"exit_session">>
<1> DEFINE t == dump_dlusb(i)
           m == Len(i.items)
           f == [k \in DOMAIN i.items |-> Dumped(i.items[k], k)]
<1>1. m \in Nat /\ DOMAIN i.items = 1..m /\ \A k \in 1..m : k \in Things /\ i.items[k] \in Items
  BY FilesOf
<1>2. f = [k \in 1..m |-> Dumped(i.items[k], k)]
  BY <1>1
<1>3. Len(f) = m
  BY <1>1, <1>2
<1>4. t.steps = Begin \o ThreeEach(f) \o <<<<"exit_session">>>>
  BY DEF dump_dlusb, Tool
<1>5. ASSUME NEW k \in 1..m
      PROVE  f[k][1] \in Dumps(k) /\ f[k][2] \in Dumps(k) /\ f[k][3] \in Dumps(k)
  <2>1. f[k] = Dumped(i.items[k], k)
    BY <1>2
  <2>2. i.items[k] \in Items
    BY <1>1
  <2> QED
    BY <2>1, <2>2, ThreeSteps
<1> DEFINE s == t.steps
           e == <<"exit_session">>
<1>6. e \in Closings /\ s = Framing(f, e)
  BY <1>4 DEF Closings, Framing
<1>7. e = <<"exit_session">>
  OBVIOUS
<1> HIDE DEF f, t, s, m, e
<1>8. /\ Framed(s) /\ Len(s) = 3 * m + 3 /\ s[Len(s)] = e
      /\ \A k \in 1..m : s[3 * k] = f[k][1] /\ s[3 * k + 1] = f[k][2] /\ s[3 * k + 2] = f[k][3]
      /\ \A j \in 3..(3 * m + 2) : \E k \in 1..m : j \in {3 * k, 3 * k + 1, 3 * k + 2}
  BY <1>1, <1>3, <1>6, FilesShape
<1>9. ASSUME NEW j \in 3..(Len(s) - 1)
      PROVE  \E k \in 1..m : s[j] \in Dumps(k)
  <2>1. j \in 3..(3 * m + 2)
    BY <1>1, <1>8
  <2>2. PICK k \in 1..m : j \in {3 * k, 3 * k + 1, 3 * k + 2}
    BY <1>8, <2>1
  <2> QED
    BY <1>5, <1>8, <2>2
<1>10. Sound(s)
  <2>1. \A j \in 3..(Len(s) - 1) :
           s[j] \in Others \/ \E k \in Things : s[j] \in Gets(k) \cup Stores(k)
    BY <1>1, <1>9 DEF Dumps, Others, Gets
  <2>2. \A j \in 3..(Len(s) - 1) : \A k \in Things : s[j] \notin Stores(k)
    BY <1>9 DEF Dumps, Stores
  <2> QED
    BY <1>8, <2>1, <2>2 DEF Sound
<1>11. Followed(t, exempt)
  <2>1. \A j \in 3..(Len(s) - 1) : \A k : s[j] \notin {<<"make", k>>, <<"file", k>>, <<"edit">>}
    BY <1>9 DEF Dumps
  <2> QED
    BY <2>1 DEF Followed, s
<1> QED
  BY <1>8, <1>10, <1>11, <1>7 DEF t, s

\* load_dlusb writes what it took from a file two steps before.
LEMMA LoadSound ==
  ASSUME NEW i \in InputsOf("load_dlusb"), NEW exempt
  PROVE  LET t == load_dlusb(i)
         IN  Sound(t.steps) /\ Followed(t, exempt)
<1> DEFINE t == load_dlusb(i)
           m == Len(i.items)
           f == [k \in DOMAIN i.items |-> Loaded(i.items[k], k)]
<1>1. /\ m \in Nat /\ DOMAIN i.items = 1..m
      /\ \A k \in 1..m : k \in Things /\ i.items[k] \in Items /\ i.items[k] # "memory"
  BY FilesOf
<1>2. f = [k \in 1..m |-> Loaded(i.items[k], k)]
  BY <1>1
<1>3. Len(f) = m
  BY <1>1, <1>2
<1>4. t.steps = Begin \o ThreeEach(f) \o <<<<"end_session">>>>
  BY DEF load_dlusb, Tool
<1>5. ASSUME NEW k \in 1..m
      PROVE  /\ f[k][2] \in Idle
             /\ \/ f[k][1] = <<"file", k>> /\ f[k][3] = <<"store", k>>
                \/ f[k][1] \in Idle /\ f[k][3] \in Idle
  <2>1. f[k] = Loaded(i.items[k], k)
    BY <1>2
  <2>2. i.items[k] \in Items /\ i.items[k] # "memory"
    BY <1>1
  <2> QED
    BY <2>1, <2>2, ThreeSteps
<1> DEFINE s == t.steps
           e == <<"end_session">>
<1>6. e \in Closings /\ s = Framing(f, e)
  BY <1>4 DEF Closings, Framing
<1>7. e = <<"end_session">>
  OBVIOUS
<1> HIDE DEF f, t, s, m, e
<1>8. /\ Framed(s) /\ Len(s) = 3 * m + 3 /\ s[Len(s)] = e
      /\ \A k \in 1..m : s[3 * k] = f[k][1] /\ s[3 * k + 1] = f[k][2] /\ s[3 * k + 2] = f[k][3]
      /\ \A j \in 3..(3 * m + 2) : \E k \in 1..m : j \in {3 * k, 3 * k + 1, 3 * k + 2}
  BY <1>1, <1>3, <1>6, FilesShape
<1>9. Len(s) - 1 = 3 * m + 2
  BY <1>1, <1>8
<1>10. ASSUME NEW j \in 3..(Len(s) - 1)
       PROVE  \/ s[j] \in Idle
              \/ \E k \in 1..m : /\ j \in {3 * k, 3 * k + 2}
                                 /\ s[3 * k] = <<"file", k>> /\ s[3 * k + 2] = <<"store", k>>
  <2>1. PICK k \in 1..m : j \in {3 * k, 3 * k + 1, 3 * k + 2}
    BY <1>8, <1>9
  <2> QED
    BY <1>5, <1>8, <2>1
<1>11. Sound(s)
  <2>1. \A j \in 3..(Len(s) - 1) :
           s[j] \in Others \/ \E k \in Things : s[j] \in Gets(k) \cup Stores(k)
    BY <1>1, <1>10 DEF Idle, Others, Gets, Stores
  <2>2. ASSUME NEW j \in 3..(Len(s) - 1), NEW k \in Things, s[j] \in Stores(k)
        PROVE  \E h \in 3..(j - 1) : s[h] \in Gets(k)
    <3>1. s[j] \notin Idle
      BY <2>2 DEF Idle, Stores
    <3>2. PICK l \in 1..m : /\ j \in {3 * l, 3 * l + 2}
                            /\ s[3 * l] = <<"file", l>> /\ s[3 * l + 2] = <<"store", l>>
      BY <1>10, <3>1
    <3>3. s[j] # <<"file", l>>
      BY <2>2 DEF Stores
    <3>4. j = 3 * l + 2 /\ l = k
      BY <2>2, <3>2, <3>3 DEF Stores
    <3>5. 3 * l \in 3..(j - 1)
      BY <3>4
    <3> QED
      BY <3>2, <3>4, <3>5 DEF Gets
  <2> QED
    BY <1>8, <1>7, <2>1, <2>2 DEF Sound
<1>12. Followed(t, exempt)
  <2>1. \A j \in 3..(Len(s) - 1) : s[j] # <<"edit">>
    BY <1>10 DEF Idle
  <2>2. ASSUME NEW j \in 3..(Len(s) - 1), NEW k, s[j] \in {<<"make", k>>, <<"file", k>>}
        PROVE  Later(t, j, k)
    <3>1. s[j] \notin Idle
      BY <2>2 DEF Idle
    <3>2. PICK l \in 1..m : /\ j \in {3 * l, 3 * l + 2}
                            /\ s[3 * l] = <<"file", l>> /\ s[3 * l + 2] = <<"store", l>>
      BY <1>10, <3>1
    <3>3. j = 3 * l /\ l = k
      BY <2>2, <3>2
    <3>4. 3 * l + 2 \in (j + 1)..(Len(s) - 1)
      BY <1>1, <1>9, <3>3
    <3> QED
      BY <3>2, <3>3, <3>4 DEF Later, Writes, s
  <2> QED
    BY <2>1, <2>2 DEF Followed, s
<1> QED
  BY <1>11, <1>12 DEF t, s

\* What every program is like.
LEMMA EveryProgram ==
  ASSUME NEW p \in Programs, NEW i \in InputsOf(p)
  PROVE  LET t == The(p, i)
         IN  /\ Sound(t.steps) /\ Followed(t, Exempt(p, i))
             /\ p \in Readers => t.steps[Len(t.steps)] = <<"exit_session">>
<1> DEFINE t == The(p, i)
<1>1. CASE p \in Adders
  BY <1>1, AddersSound, OneOfAll DEF Adders, Readers
<1>2. CASE p \in Deleters
  BY <1>2, DeletersSound, OneOfAll DEF Deleters, Readers
<1>3. CASE p \in Readers \ {"dump_dlusb"}
  BY <1>3, ReadersSound, OneOfAll
<1>4. CASE p \in {"lock_dlusb", "tod_dlusb", "option_dlusb",
                  "unused_note", "unused_appt", "unused_chrono"}
  BY <1>4, SettersSound, OneOfAll DEF Readers
<1>5. CASE p = "dump_dlusb"
  <2>1. t = dump_dlusb(i)
    BY <1>5 DEF The
  <2> QED
    BY <1>5, <2>1, DumpSound
<1>6. CASE p = "load_dlusb"
  <2>1. t = load_dlusb(i)
    BY <1>6 DEF The
  <2> QED
    BY <1>6, <2>1, LoadSound DEF Readers
<1> QED
  BY <1>1, <1>2, <1>3, <1>4, <1>5, <1>6, ProgramsAssumption DEF AllPrograms, Readers

-----------------------------------------------------------------------------
(* Where a step stands *)

\* What a step is tells where it stands, and what it works on.
LEMMA Places ==
  ASSUME Sound(Main.steps), pc \in 1..Ending
  PROVE  /\ Step[1] = "open_dev" => pc = 1
         /\ Step[1] = "start_session" => pc = 2
         /\ Step[1] \in {"end_session", "exit_session"} => pc = Ending
         /\ Step[1] = "end_session" => Step = <<"end_session">>
         /\ Step[1] = "exit_session" => Step = <<"exit_session">>
         /\ Step[1] \notin {"open_dev", "start_session", "end_session", "exit_session"} =>
               pc \in 3..(Ending - 1)
         /\ pc \in 3..(Ending - 1) =>
               Step \in Others \/ \E k \in Things : Step \in Gets(k) \cup Stores(k)
<1> DEFINE n == Len(Main.steps)
<1>1. n \in Nat /\ n >= 3 /\ pc \in 1..n
  BY DEF Sound, Framed, Ending
<1>2. pc = 1 \/ pc = 2 \/ pc = n \/ pc \in 3..(n - 1)
  BY <1>1
<1>3. CASE pc = 1
  <2>1. Step = <<"open_dev">> /\ pc \notin 3..(Ending - 1)
    BY <1>1, <1>3 DEF Sound, Framed, Ending, Step
  <2> QED
    BY <1>3, <2>1
<1>4. CASE pc = 2
  <2>1. Step = <<"start_session">> /\ pc \notin 3..(Ending - 1)
    BY <1>1, <1>4 DEF Sound, Framed, Ending, Step
  <2> QED
    BY <1>4, <2>1
<1>5. CASE pc = n
  <2>1. Step \in Closings
    BY <1>5 DEF Sound, Framed, Step
  <2>2. pc \notin 3..(Ending - 1) /\ pc = Ending
    BY <1>1, <1>5 DEF Ending
  <2> QED
    BY <2>1, <2>2 DEF Closings
<1>6. CASE pc \in 3..(n - 1)
  <2>1. Step \in Others \/ \E k \in Things : Step \in Gets(k) \cup Stores(k)
    BY <1>6 DEF Sound, Step
  <2>2. Step[1] \notin {"open_dev", "start_session", "end_session", "exit_session"}
    BY <2>1 DEF Others, Gets, Stores
  <2> QED
    BY <1>6, <2>1, <2>2 DEF Ending
<1> QED
  BY <1>2, <1>3, <1>4, <1>5, <1>6

\* A step that reads, stores or does something else is what it says.
LEMMA Kinds ==
  ASSUME Sound(Main.steps), pc \in 1..Ending,
         Step[1] \notin {"open_dev", "start_session", "end_session", "exit_session"}
  PROVE  /\ pc \in 3..(Ending - 1)
         /\ Step[1] \in {"read", "make", "file"} =>
               Step[2] \in Things /\ Step = <<Step[1], Step[2]>>
         /\ Step[1] \in {"store", "store_updated", "update"} =>
               Step[2] \in Things /\ Step = <<Step[1], Step[2]>>
         /\ Step[1] \in {"find_app", "edit", "print", "export", "write_file", "noname", "pass"} =>
               Step = <<Step[1]>>
<1>1. pc \in 3..(Ending - 1)
  BY Places
<1>2. Step \in Others \/ \E k \in Things : Step \in Gets(k) \cup Stores(k)
  BY <1>1, Places
<1>3. CASE Step \in Others
  BY <1>1, <1>3 DEF Others
<1>4. CASE \E k \in Things : Step \in Gets(k)
  BY <1>1, <1>4 DEF Gets
<1>5. CASE \E k \in Things : Step \in Stores(k)
  BY <1>1, <1>5 DEF Stores
<1> QED
  BY <1>2, <1>3, <1>4, <1>5

-----------------------------------------------------------------------------
(* The invariant *)

\* Before the session there is nothing.
Early ==
    pc <= 2 => /\ session = "none" /\ ~said
               /\ whole = {} /\ wanted = {} /\ stored = {} /\ torn = {}

\* While it lasts, and after.
Lasting ==
    /\ pc <= Ending + 1 => status = -1
    /\ pc <= Ending => sync = "old"
    /\ pc \in 2..Ending => handle = "claimed"
    /\ pc \in 3..Ending => session = "open"
    /\ pc \in 1..(Ending + 1) \/ session # "none" => ~(Main.asks /\ in.all = "n")
    /\ status = 0 => session = "closed" \/ (session = "none" /\ Main.asks /\ in.all = "n")

\* What was passed without leaving for the end was read, and nothing else was.
Held ==
    /\ \A i \in 3..(pc - 1) : \A k \in Things :
          pc < Ending /\ Main.steps[i] \in Gets(k) => k \in whole
    /\ \A k \in whole : \E i \in 3..(pc - 1) : Main.steps[i] \in Gets(k)

\* What is torn was told, and what is wanted is stored, or will be, or else was told.
Told == torn # {} => said
Ahead ==
    ~said /\ ~Exempt(program, in) =>
        \A k \in wanted \ stored : \E l \in pc..(Ending - 1) : Writes(Main, l, k)

\* A program that wrote ends its session with a new sync id, one that did not without.
Renewing ==
    /\ stored \cup torn # {} =>
         /\ Main.steps[Ending] = <<"end_session">>
         /\ session = "closed" => sync = "new"
    /\ Main.steps[Ending] = <<"exit_session">> => sync = "old"

Inv == TypeOK /\ Early /\ Lasting /\ Held /\ Told /\ Ahead /\ Renewing

\* What is common to the programs, of the one that runs.
LEMMA ProgramFacts ==
  ASSUME program \in Programs, in \in InputsOf(program)
  PROVE  /\ Sound(Main.steps) /\ Followed(Main, Exempt(program, in))
         /\ program \in Readers => Main.steps[Ending] = <<"exit_session">>
         /\ Ending \in Nat /\ Ending >= 3 /\ Ending = Len(Main.steps)
<1>1. Sound(Main.steps) /\ Followed(Main, Exempt(program, in))
      /\ (program \in Readers => Main.steps[Len(Main.steps)] = <<"exit_session">>)
  BY EveryProgram DEF Main
<1> QED
  BY <1>1 DEF Ending, Sound, Framed

\* The same wherever the invariant holds.
LEMMA InvFacts ==
  ASSUME Inv
  PROVE  /\ Sound(Main.steps) /\ Followed(Main, Exempt(program, in))
         /\ program \in Readers => Main.steps[Ending] = <<"exit_session">>
         /\ Ending \in Nat /\ Ending >= 3 /\ Ending = Len(Main.steps)
<1>1. program \in Programs /\ in \in InputsOf(program)
  BY DEF Inv, TypeOK
<1> QED
  BY <1>1, ProgramFacts

\* The program does not change.
LEMMA SameProgram ==
  ASSUME UNCHANGED <<program, in>>
  PROVE  Main' = Main /\ Ending' = Ending /\ Exempt(program, in)' = Exempt(program, in)
         /\ InputsOf(program)' = InputsOf(program)
  BY DEF Main, Ending

\* A program starts with nothing read, wanted or written.
LEMMA InitInv ==
  ASSUME Init
  PROVE  Inv
<1>1. Ending \in Nat /\ Ending >= 3
  BY ProgramFacts DEF Init
<1>2. TypeOK
  <2>1. pc \in 0..(Ending + 2)
    BY <1>1 DEF Init
  <2> QED
    BY <2>1 DEF Init, TypeOK
<1>3. Early /\ Told /\ Ahead /\ Renewing
  BY DEF Init, Early, Told, Ahead, Renewing
<1>4. Lasting
  <2>1. pc = 0 /\ session = "none" /\ status = -1 /\ sync = "old"
    BY DEF Init
  <2> QED
    BY <1>1, <2>1 DEF Lasting
<1>5. Held
  <2>1. pc = 0 /\ whole = {}
    BY DEF Init
  <2> QED
    BY <2>1 DEF Held
<1> QED
  BY <1>2, <1>3, <1>4, <1>5 DEF Inv

-----------------------------------------------------------------------------
(* The steps within a session *)

\* The step after the next is the next one or, told, the end.
Within ==
    /\ pc \in 3..(Ending - 1)
    /\ pc' = pc + 1 \/ (said' /\ pc' = Ending)
    /\ UNCHANGED <<program, in, handle, session, sync, status>>

\* It leaves what lies behind behind.
LEMMA Forward ==
  ASSUME NEW n \in Nat, NEW a \in 3..(n - 1), NEW b, b = a + 1 \/ b = n
  PROVE  a \in 3..(b - 1) /\ 3..(a - 1) \subseteq 3..(b - 1)
  OBVIOUS

\* What such a step has to show for the invariant.
LEMMA WithinKeeps ==
  ASSUME Inv, Within,
         whole \subseteq whole', whole' \subseteq Things, wanted' \subseteq Things,
         stored' \subseteq whole', torn' \subseteq whole', said' \in BOOLEAN,
         \A k \in Things : Step \in Gets(k) /\ pc' < Ending => k \in whole',
         \A k \in whole' : k \in whole \/ Step \in Gets(k),
         torn' # {} => said',
         Ahead',
         stored' \cup torn' # {} =>
            stored \cup torn # {} \/ Main.steps[Ending] = <<"end_session">>
  PROVE  Inv'
<1>1. /\ Main' = Main /\ Ending' = Ending
      /\ InputsOf(program)' = InputsOf(program)
  BY SameProgram DEF Within
<1>2. /\ Ending \in Nat /\ Ending >= 3
  BY InvFacts
<1>3. /\ pc \in 3..(Ending - 1) /\ pc' \in 4..Ending /\ pc < pc'
  BY <1>2 DEF Within
<1>4. pc \in 3..(pc' - 1) /\ 3..(pc - 1) \subseteq 3..(pc' - 1)
  BY <1>2, Forward DEF Within
<1>5. TypeOK'
  <2>1. pc' \in 0..(Ending' + 2)
    BY <1>1, <1>2, <1>3
  <2>2. /\ program' = program /\ in' = in /\ handle' = handle /\ session' = session
        /\ sync' = sync /\ status' = status
    BY DEF Within
  <2>3. TypeOK
    BY DEF Inv
  <2> QED
    BY <1>1, <2>1, <2>2, <2>3 DEF TypeOK, Things
<1>6. Early'
  BY <1>3 DEF Early
<1>7. Lasting'
  <2>1. Lasting
    BY DEF Inv
  <2>2. /\ pc <= Ending + 1 /\ pc <= Ending /\ pc \in 2..Ending /\ pc \in 3..Ending
        /\ pc \in 1..(Ending + 1)
    BY <1>2, <1>3
  <2>3. /\ status = -1 /\ sync = "old" /\ handle = "claimed" /\ session = "open"
        /\ ~(Main.asks /\ in.all = "n")
    BY <2>1, <2>2 DEF Lasting
  <2>4. /\ status' = -1 /\ sync' = "old" /\ handle' = "claimed" /\ session' = "open"
        /\ ~(Main'.asks /\ in'.all = "n")
    BY <1>1, <2>3 DEF Within
  <2>5. status' # 0
    BY <2>4
  <2> QED
    BY <2>4, <2>5 DEF Lasting
<1>8. Held'
  <2>1. Held /\ pc < Ending
    BY <1>2, <1>3 DEF Inv
  <2>2. ASSUME NEW i \in 3..(pc' - 1), NEW k \in Things, pc' < Ending,
               Main.steps[i] \in Gets(k)
        PROVE  k \in whole'
    <3>1. pc' = pc + 1
      <4>1. pc' # Ending
        BY <1>1, <1>2, <1>3, <2>2
      <4> QED
        BY <4>1 DEF Within
    <3>2. i = pc \/ i \in 3..(pc - 1)
      BY <1>3, <3>1
    <3>3. CASE i = pc
      BY <2>2, <3>1, <3>3 DEF Step
    <3>4. CASE i \in 3..(pc - 1)
      BY <2>1, <2>2, <3>4 DEF Held
    <3> QED
      BY <3>2, <3>3, <3>4
  <2>3. ASSUME NEW k \in whole'
        PROVE  \E i \in 3..(pc' - 1) : Main.steps[i] \in Gets(k)
    <3>1. CASE Step \in Gets(k)
      BY <1>4, <3>1 DEF Step
    <3>2. CASE k \in whole
      <4>1. PICK i \in 3..(pc - 1) : Main.steps[i] \in Gets(k)
        BY <2>1, <3>2 DEF Held
      <4> QED
        BY <1>4, <4>1
    <3> QED
      BY <3>1, <3>2
  <2> QED
    BY <1>1, <2>2, <2>3 DEF Held, Things
<1>9. Told'
  BY DEF Told
<1>10. Renewing'
  <2>1. Renewing /\ Lasting
    BY DEF Inv
  <2>2. pc \in 3..Ending /\ pc <= Ending
    BY <1>2, <1>3
  <2>3. session' = "open" /\ sync' = "old"
    BY <2>1, <2>2 DEF Lasting, Within
  <2>4. stored' \cup torn' # {} => Main.steps[Ending] = <<"end_session">>
    BY <2>1 DEF Renewing
  <2> QED
    BY <1>1, <2>3, <2>4 DEF Renewing
<1> QED
  BY <1>5, <1>6, <1>7, <1>8, <1>9, <1>10 DEF Inv

\* A step that wants nothing more and is not a write leaves the writes ahead.
LEMMA AheadOn ==
  ASSUME Inv, Within,
         wanted' = wanted, stored \subseteq stored', said => said',
         \A k : ~Writes(Main, pc, k)
  PROVE  Ahead'
<1>1. Main' = Main /\ Ending' = Ending /\ Exempt(program, in)' = Exempt(program, in)
  BY SameProgram DEF Within
<1>2. Ending \in Nat /\ pc \in 3..(Ending - 1)
  BY InvFacts DEF Within
<1>3. ASSUME ~said', ~Exempt(program, in), NEW k \in wanted' \ stored'
      PROVE  \E l \in pc'..(Ending - 1) : Writes(Main, l, k)
  <2>1. pc' = pc + 1 /\ k \in wanted \ stored /\ ~said
    BY <1>3 DEF Within
  <2>2. PICK l \in pc..(Ending - 1) : Writes(Main, l, k)
    BY <1>3, <2>1 DEF Inv, Ahead
  <2>3. l # pc
    BY <2>2
  <2>4. l \in pc'..(Ending - 1)
    BY <1>2, <2>1, <2>3
  <2> QED
    BY <2>2, <2>4
<1> QED
  BY <1>1, <1>3 DEF Ahead

\* A program that writes has the thing, and ends with a new sync id.
LEMMA WritesHeld ==
  ASSUME Inv, pc \in 3..(Ending - 1), NEW k \in Things, Step \in Stores(k)
  PROVE  /\ k \in whole
         /\ Main.steps[Ending] = <<"end_session">>
         /\ session = "open" /\ handle = "claimed"
<1>1. Sound(Main.steps) /\ Ending \in Nat /\ Ending = Len(Main.steps)
  BY InvFacts
<1>2. /\ Main.steps[Ending] = <<"end_session">>
      /\ \E i \in 3..(pc - 1) : Main.steps[i] \in Gets(k)
  BY <1>1 DEF Sound, Step
<1>3. pc < Ending /\ pc \in 2..Ending /\ pc \in 3..Ending
  BY <1>1
<1>4. k \in whole
  BY <1>2, <1>3 DEF Inv, Held
<1>5. session = "open" /\ handle = "claimed"
  BY <1>3 DEF Inv, Lasting
<1> QED
  BY <1>2, <1>4, <1>5

\* A step that changes nothing of what is read, wanted or written.
LEMMA QuietKeeps ==
  ASSUME Inv, Within,
         UNCHANGED <<whole, wanted, stored, torn>>, said' \in {said, TRUE},
         \A k : Step \notin Gets(k) /\ Step \notin Stores(k)
  PROVE  Inv'
<1>1. Step = Main.steps[pc]
  BY DEF Step
<1>2. TypeOK /\ Told
  BY DEF Inv
<1>3. said \in BOOLEAN
  BY <1>2 DEF TypeOK
<1>4. said' \in BOOLEAN /\ (said => said')
  <2>1. CASE said' = said
    BY <1>3, <2>1
  <2>2. CASE said' = TRUE
    BY <2>2
  <2> QED
    BY <2>1, <2>2
<1>5. \A k : ~Writes(Main, pc, k)
  BY <1>1 DEF Writes, Stores
<1>6. Ahead'
  BY <1>4, <1>5, AheadOn
<1>7. /\ whole \subseteq whole' /\ whole' \subseteq Things /\ wanted' \subseteq Things
      /\ stored' \subseteq whole' /\ torn' \subseteq whole'
      /\ torn' # {} => said'
      /\ stored' \cup torn' = stored \cup torn
      /\ whole' = whole
  BY <1>2, <1>4 DEF TypeOK, Told
<1> QED
  BY <1>4, <1>6, <1>7, WithinKeeps

-----------------------------------------------------------------------------
(* Each step within a session keeps the invariant *)

\* Looking for an application, passing and printing change nothing.
LEMMA NothingKeeps ==
  ASSUME Inv, find_app \/ NoName \/ Pass \/ Output
  PROVE  Inv'
<1>1. /\ pc \in 1..Ending
      /\ Step[1] \in {"find_app", "noname", "pass", "print", "export", "write_file"}
  BY DEF find_app, NoName, Pass, Output, At
<1>2. Sound(Main.steps)
  BY InvFacts
<1>3. pc \in 3..(Ending - 1) /\ Step = <<Step[1]>>
  BY <1>1, <1>2, Kinds
<1>4. Within
  BY <1>3 DEF find_app, NoName, Pass, Output, GoOn, Fail, Target, Within
<1>5. UNCHANGED <<whole, wanted, stored, torn>> /\ said' \in {said, TRUE}
  BY DEF find_app, NoName, Pass, Output, Fail
<1>6. \A k : Step \notin Gets(k) /\ Step \notin Stores(k)
  BY <1>1, <1>3 DEF Gets, Stores
<1> QED
  BY <1>4, <1>5, <1>6, QuietKeeps

\* A tool that is not updated passes its write, which it would have had to make
\* if it had changed anything.
LEMMA NotUpdatedKeeps ==
  ASSUME Inv, NotUpdated
  PROVE  Inv'
<1>1. pc \in 1..Ending /\ Step[1] = "store_updated" /\ ~Main.updated
  BY DEF NotUpdated, At
<1>2. Sound(Main.steps)
  BY InvFacts
<1>3. pc \in 3..(Ending - 1) /\ Step = <<"store_updated", Step[2]>>
  BY <1>1, <1>2, Kinds
<1>4. Within
  BY <1>3 DEF NotUpdated, GoOn, Within
<1>5. TypeOK /\ Told
  BY DEF Inv
<1>6. said' = said /\ UNCHANGED <<whole, wanted, stored, torn>> /\ said \in BOOLEAN
  BY <1>5 DEF NotUpdated, TypeOK
<1>7. \A k : Step \notin Gets(k) /\ ~Writes(Main, pc, k)
  BY <1>1, <1>3 DEF Gets, Writes, Step
<1>8. Ahead'
  BY <1>4, <1>6, <1>7, AheadOn
<1>9. /\ whole \subseteq whole' /\ whole' \subseteq Things /\ wanted' \subseteq Things
      /\ stored' \subseteq whole' /\ torn' \subseteq whole' /\ said' \in BOOLEAN
      /\ torn' # {} => said'
      /\ stored' \cup torn' = stored \cup torn
      /\ whole' = whole
  BY <1>5, <1>6 DEF TypeOK, Told
<1> QED
  BY <1>4, <1>7, <1>8, <1>9, WithinKeeps

\* What is read is read completely, or the program leaves for the end.
LEMMA ReadKeeps ==
  ASSUME Inv, Read
  PROVE  Inv'
<1>1. pc \in 1..Ending /\ Step[1] = "read"
  BY DEF Read, At
<1>2. Sound(Main.steps) /\ Ending \in Nat
  BY InvFacts
<1>3. pc \in 3..(Ending - 1) /\ Step[2] \in Things /\ Step = <<"read", Step[2]>>
  BY <1>1, <1>2, Kinds
<1>4. Within
  BY <1>3 DEF Read, GoOn, Fail, Target, Within
<1>5. TypeOK /\ Told
  BY DEF Inv
<1>6. said \in BOOLEAN /\ said' \in {said, TRUE}
  BY <1>5 DEF Read, Fail, TypeOK
<1>7. said' \in BOOLEAN /\ (said => said')
  BY <1>6
<1>8. UNCHANGED <<wanted, stored, torn>>
  BY DEF Read
<1>9. \/ whole' = whole \cup {Step[2]}
      \/ whole' = whole /\ pc' = Ending
  BY DEF Read, Fail, Target
<1>10. \A k : Step \in Gets(k) <=> k = Step[2]
  BY <1>3 DEF Gets
<1>11. \A k : ~Writes(Main, pc, k)
  BY <1>3 DEF Writes, Step
<1>12. Ahead'
  BY <1>4, <1>7, <1>8, <1>11, AheadOn
<1>13. pc' < Ending => pc' # Ending
  BY <1>2
<1>14. /\ whole \subseteq whole' /\ whole' \subseteq Things /\ wanted' \subseteq Things
       /\ stored' \subseteq whole' /\ torn' \subseteq whole'
       /\ torn' # {} => said'
       /\ stored' \cup torn' = stored \cup torn
  BY <1>3, <1>5, <1>7, <1>8, <1>9 DEF TypeOK, Told
<1>15. /\ \A k \in Things : Step \in Gets(k) /\ pc' < Ending => k \in whole'
       /\ \A k \in whole' : k \in whole \/ Step \in Gets(k)
  BY <1>9, <1>10, <1>13
<1> QED
  BY <1>4, <1>7, <1>12, <1>14, <1>15, WithinKeeps

\* What is made, or taken from a file, is to be written later on.
LEMMA MakeKeeps ==
  ASSUME Inv, Make \/ ReadFile
  PROVE  Inv'
<1>1. pc \in 1..Ending /\ Step[1] \in {"make", "file"}
  BY DEF Make, ReadFile, At
<1>2. /\ Sound(Main.steps) /\ Followed(Main, Exempt(program, in))
      /\ Ending = Len(Main.steps) /\ Ending \in Nat
  BY InvFacts
<1>3. /\ pc \in 3..(Ending - 1) /\ Step[2] \in Things
      /\ Step \in {<<"make", Step[2]>>, <<"file", Step[2]>>}
  BY <1>1, <1>2, Kinds
<1>4. Within
  BY <1>3 DEF Make, ReadFile, GoOn, Fail, Target, Within
<1>5. TypeOK /\ Told /\ Ahead
  BY DEF Inv
<1>6. said \in BOOLEAN /\ said' \in {said, TRUE}
  BY <1>5 DEF Make, ReadFile, Fail, TypeOK
<1>7. said' \in BOOLEAN /\ (said => said')
  BY <1>6
<1>8. UNCHANGED <<stored, torn>> /\ wanted' = wanted \cup {Step[2]}
  BY DEF Make, ReadFile
<1>9. \/ whole' = whole \cup {Step[2]}
      \/ whole' = whole /\ pc' = Ending
  BY DEF Make, ReadFile, Fail, Target
<1>10. \A k : Step \in Gets(k) <=> k = Step[2]
  BY <1>3 DEF Gets
<1>11. \A k : ~Writes(Main, pc, k)
  BY <1>3 DEF Writes, Step
<1>12. Ahead'
  <2>1. Main' = Main /\ Ending' = Ending /\ Exempt(program, in)' = Exempt(program, in)
    BY <1>4, SameProgram DEF Within
  <2>2. ASSUME ~said', ~Exempt(program, in), NEW k \in wanted' \ stored'
        PROVE  \E l \in pc'..(Ending - 1) : Writes(Main, l, k)
    <3>1. pc' = pc + 1 /\ ~said
      BY <1>4, <1>7, <2>2 DEF Within
    <3>2. CASE k = Step[2]
      <4>1. Later(Main, pc, k)
        BY <1>2, <1>3, <3>2 DEF Followed, Step
      <4> QED
        BY <1>2, <3>1, <4>1 DEF Later
    <3>3. CASE k # Step[2]
      <4>1. PICK l \in pc..(Ending - 1) : Writes(Main, l, k)
        BY <1>5, <1>8, <2>2, <3>1, <3>3 DEF Ahead
      <4>2. l # pc
        BY <1>11, <4>1
      <4>3. l \in pc'..(Ending - 1)
        BY <1>2, <1>3, <3>1, <4>2
      <4> QED
        BY <4>1, <4>3
    <3> QED
      BY <3>2, <3>3
  <2> QED
    BY <2>1, <2>2 DEF Ahead
<1>13. pc' < Ending => pc' # Ending
  BY <1>2
<1>14. /\ whole \subseteq whole' /\ whole' \subseteq Things /\ wanted' \subseteq Things
       /\ stored' \subseteq whole' /\ torn' \subseteq whole'
       /\ torn' # {} => said'
       /\ stored' \cup torn' = stored \cup torn
  BY <1>3, <1>5, <1>7, <1>8, <1>9 DEF TypeOK, Told
<1>15. /\ \A k \in Things : Step \in Gets(k) /\ pc' < Ending => k \in whole'
       /\ \A k \in whole' : k \in whole \/ Step \in Gets(k)
  BY <1>9, <1>10, <1>13
<1> QED
  BY <1>4, <1>7, <1>12, <1>14, <1>15, WithinKeeps

\* What is changed is what was read, and is to be written later on.
LEMMA EditKeeps ==
  ASSUME Inv, Edit
  PROVE  Inv'
<1>1. pc \in 1..Ending /\ Step[1] = "edit"
  BY DEF Edit, At
<1>2. /\ Sound(Main.steps) /\ Followed(Main, Exempt(program, in))
      /\ Ending = Len(Main.steps) /\ Ending \in Nat
  BY InvFacts
<1>3. pc \in 3..(Ending - 1) /\ Step = <<"edit">>
  BY <1>1, <1>2, Kinds
<1>4. Within /\ pc' = pc + 1
  BY <1>3 DEF Edit, GoOn, Within
<1>5. TypeOK /\ Told /\ Held
  BY DEF Inv
<1>6. said' = (said \/ Main.says) /\ said \in BOOLEAN
  BY <1>5 DEF Edit, TypeOK
<1>7. (said => said') /\ said' \in BOOLEAN
  BY <1>6
<1>8. UNCHANGED <<whole, stored, torn>>
  BY DEF Edit
<1>9. /\ Main' = Main /\ Ending' = Ending /\ Exempt(program, in)' = Exempt(program, in)
  BY <1>4, SameProgram DEF Within
<1>10. Ahead'
  <2>1. CASE Main.changed /\ ~Main.says /\ ~Exempt(program, in)
    <3>1. wanted' = whole
      BY <2>1 DEF Edit
    <3>2. ASSUME NEW k \in whole
          PROVE  \E l \in (pc + 1)..(Ending - 1) : Writes(Main, l, k)
      <4>1. PICK i \in 3..(pc - 1) : Main.steps[i] \in Gets(k)
        BY <1>5 DEF Held
      <4>2. k \in Things
        BY <1>5 DEF TypeOK
      <4>3. Later(Main, pc, k)
        BY <1>2, <1>3, <2>1, <4>1, <4>2 DEF Followed, Step
      <4> QED
        BY <1>2, <4>3 DEF Later
    <3> QED
      BY <1>4, <1>9, <3>1, <3>2 DEF Ahead
  <2>2. CASE Main.says \/ Exempt(program, in)
    BY <1>6, <1>9, <2>2 DEF Ahead
  <2>3. CASE ~Main.changed
    <3>1. wanted' = wanted
      BY <2>3 DEF Edit
    <3>2. \A k : ~Writes(Main, pc, k)
      BY <1>3 DEF Writes, Step
    <3> QED
      BY <1>4, <1>7, <1>8, <3>1, <3>2, AheadOn
  <2> QED
    BY <2>1, <2>2, <2>3
<1>11. wanted' = whole \/ wanted' = wanted
  BY DEF Edit
<1>12. /\ whole \subseteq whole' /\ whole' \subseteq Things /\ wanted' \subseteq Things
       /\ stored' \subseteq whole' /\ torn' \subseteq whole'
       /\ torn' # {} => said'
       /\ stored' \cup torn' = stored \cup torn
       /\ whole' = whole
  BY <1>5, <1>7, <1>8, <1>11 DEF TypeOK, Told
<1>13. \A k : Step \notin Gets(k)
  BY <1>3 DEF Gets
<1> QED
  BY <1>4, <1>7, <1>10, <1>12, <1>13, WithinKeeps

\* What is stored completely is not ahead any more, what is torn is told.
LEMMA WriteKeeps ==
  ASSUME Inv, Within, NEW k \in Things, Step \in Stores(k),
         UNCHANGED <<whole, wanted>>,
         \/ stored' = stored \cup {k} /\ UNCHANGED <<torn, said>>
         \/ said' = TRUE /\ torn' \in {torn, torn \cup {k}} /\ UNCHANGED stored
  PROVE  Inv'
<1>1. pc \in 3..(Ending - 1)
  BY DEF Within
<1>2. k \in whole /\ Main.steps[Ending] = <<"end_session">>
  BY <1>1, WritesHeld
<1>3. TypeOK /\ Told /\ Ahead
  BY DEF Inv
<1>4. \A l : Step \notin Gets(l)
  BY DEF Stores, Gets
<1>5. Main' = Main /\ Ending' = Ending /\ Exempt(program, in)' = Exempt(program, in)
  BY SameProgram DEF Within
<1>6. Ahead'
  <2>1. CASE said'
    BY <2>1 DEF Ahead
  <2>2. ASSUME ~said', ~Exempt(program, in), NEW h \in wanted' \ stored'
        PROVE  \E l \in pc'..(Ending - 1) : Writes(Main, l, h)
    <3>1. stored' = stored \cup {k} /\ ~said /\ pc' = pc + 1
      BY <2>2 DEF Within
    <3>2. h \in wanted \ stored /\ h # k
      BY <2>2, <3>1
    <3>3. PICK l \in pc..(Ending - 1) : Writes(Main, l, h)
      BY <1>3, <2>2, <3>1, <3>2 DEF Ahead
    <3>4. ~Writes(Main, pc, h)
      BY <3>2 DEF Writes, Stores, Step
    <3>5. l # pc
      BY <3>3, <3>4
    <3>6. l \in pc'..(Ending - 1)
      BY <1>1, <3>1, <3>5
    <3> QED
      BY <3>3, <3>6
  <2> QED
    BY <1>5, <2>1, <2>2 DEF Ahead
<1>7. /\ whole \subseteq whole' /\ whole' \subseteq Things /\ wanted' \subseteq Things
      /\ said' \in BOOLEAN
      /\ torn' # {} => said'
      /\ whole' = whole
  BY <1>3 DEF TypeOK, Told
<1>8. stored' \subseteq whole' /\ torn' \subseteq whole'
  BY <1>2, <1>3 DEF TypeOK
<1> QED
  BY <1>2, <1>4, <1>6, <1>7, <1>8, WithinKeeps

\* load_add, or what writes the locks, the time and the options.
LEMMA StoreKeeps ==
  ASSUME Inv, Store \/ update_option
  PROVE  Inv' /\ pc \in 3..(Ending - 1) /\ Step[2] \in Things /\ Step \in Stores(Step[2])
<1>1. pc \in 1..Ending /\ Step[1] \in {"store", "store_updated", "update"}
  BY DEF Store, update_option, At
<1>2. Sound(Main.steps)
  BY InvFacts
<1>3. pc \in 3..(Ending - 1) /\ Step[2] \in Things /\ Step = <<Step[1], Step[2]>>
  BY <1>1, <1>2, Kinds
<1>4. Step \in Stores(Step[2])
  BY <1>1, <1>3 DEF Stores
<1>5. Within
  BY <1>3 DEF Store, update_option, GoOn, Fail, Target, Within
<1>6. /\ UNCHANGED <<whole, wanted>>
      /\ \/ stored' = stored \cup {Step[2]} /\ UNCHANGED <<torn, said>>
         \/ said' = TRUE /\ torn' \in {torn, torn \cup {Step[2]}} /\ UNCHANGED stored
  BY DEF Store, update_option, Fail
<1> QED
  BY <1>3, <1>4, <1>5, <1>6, WriteKeeps

-----------------------------------------------------------------------------
(* The steps before and after a session *)

\* A program that prints its usage, or is told not to delete, is done.
LEMMA QuitKeeps ==
  ASSUME Inv, Usage \/ Declined
  PROVE  Inv'
<1>1. /\ Main' = Main /\ Ending' = Ending
      /\ InputsOf(program)' = InputsOf(program)
  BY SameProgram DEF Usage, Declined, Quit
<1>2. Ending \in Nat /\ Ending >= 3
  BY InvFacts
<1>3. pc = 0 /\ pc' = Ending + 2
  BY DEF Usage, Declined, Quit
<1>4. /\ UNCHANGED <<program, in, handle, session, whole, wanted, stored, torn, sync>>
      /\ \/ said' = TRUE /\ status' = 1
         \/ said' = said /\ status' = 0 /\ Main.asks /\ in.all = "n"
  BY DEF Usage, Declined, Quit
<1>5. TypeOK /\ Early /\ Lasting
  BY DEF Inv
<1>6. /\ session = "none"
      /\ whole = {} /\ wanted = {} /\ stored = {} /\ torn = {} /\ sync = "old"
  BY <1>2, <1>3, <1>5 DEF Early, Lasting
<1>7. TypeOK'
  <2>1. pc' \in 0..(Ending' + 2)
    BY <1>1, <1>2, <1>3
  <2>2. said' \in BOOLEAN /\ status' \in {-1, 0, 1}
    BY <1>4, <1>5 DEF TypeOK
  <2> QED
    BY <1>1, <1>4, <1>5, <2>1, <2>2 DEF TypeOK
<1>8. Early' /\ Held'
  <2>1. ~(pc' <= 2) /\ ~(pc' < Ending')
    BY <1>1, <1>2, <1>3
  <2> QED
    BY <1>4, <1>6, <2>1 DEF Early, Held
<1>9. Lasting'
  <2>1. /\ ~(pc' <= Ending' + 1) /\ ~(pc' <= Ending') /\ pc' \notin 2..Ending'
        /\ pc' \notin 3..Ending' /\ pc' \notin 1..(Ending' + 1)
    BY <1>1, <1>2, <1>3
  <2>2. session' = "none"
    BY <1>4, <1>6
  <2>3. status' = 0 => Main'.asks /\ in'.all = "n"
    BY <1>1, <1>4
  <2> QED
    BY <2>1, <2>2, <2>3 DEF Lasting
<1>10. Told' /\ Ahead' /\ Renewing'
  BY <1>4, <1>6 DEF Told, Ahead, Renewing
<1> QED
  BY <1>7, <1>8, <1>9, <1>10 DEF Inv

\* A program is at work from here on.
LEMMA StartKeeps ==
  ASSUME Inv, Start
  PROVE  Inv'
<1>1. /\ Main' = Main /\ Ending' = Ending
      /\ InputsOf(program)' = InputsOf(program)
  BY SameProgram DEF Start
<1>2. Ending \in Nat /\ Ending >= 3
  BY InvFacts
<1>3. pc = 0 /\ pc' = 1
  BY DEF Start, GoOn
<1>4. /\ UNCHANGED <<program, in, handle, session, whole, wanted, stored, torn, sync, said, status>>
      /\ ~(Main.asks /\ in.all = "n")
  BY DEF Start
<1>5. TypeOK /\ Early /\ Lasting
  BY DEF Inv
<1>6. pc <= 2 /\ pc <= Ending + 1 /\ pc <= Ending
  BY <1>2, <1>3
<1>7. /\ session = "none" /\ ~said /\ status = -1 /\ sync = "old"
      /\ whole = {} /\ wanted = {} /\ stored = {} /\ torn = {}
  BY <1>5, <1>6 DEF Early, Lasting
<1>8. TypeOK'
  <2>1. pc' \in 0..(Ending' + 2)
    BY <1>1, <1>2, <1>3
  <2> QED
    BY <1>1, <1>4, <1>5, <2>1 DEF TypeOK
<1>9. Early' /\ Told' /\ Ahead' /\ Renewing'
  BY <1>4, <1>7 DEF Early, Told, Ahead, Renewing
<1>10. Held'
  <2>1. 3..(pc' - 1) = {} /\ whole' = {}
    BY <1>3, <1>4, <1>7
  <2> QED
    BY <2>1 DEF Held
<1>11. Lasting'
  <2>1. pc' \notin 2..Ending' /\ pc' \notin 3..Ending'
    BY <1>3
  <2>2. status' # 0
    BY <1>4, <1>7
  <2> QED
    BY <1>1, <1>4, <1>7, <2>1, <2>2 DEF Lasting
<1> QED
  BY <1>8, <1>9, <1>10, <1>11 DEF Inv

\* A step that opens the device or the session: what it opens, or the exit.
Opening ==
    /\ pc \in {1, 2}
    /\ \/ pc' = pc + 1 /\ UNCHANGED said
       \/ pc' = Ending + 1 /\ said' = TRUE
    /\ UNCHANGED <<program, in, whole, wanted, stored, torn, sync, status>>

\* What such a step has to show for the invariant.
LEMMA OpeningKeeps ==
  ASSUME Inv, Opening,
         handle' \in {"none", "open", "claimed"},
         pc' = pc + 1 => handle' = "claimed",
         session' = "none" \/ (pc = 2 /\ session' = "open"),
         pc' = 3 => session' = "open",
         pc' = 2 => session' = "none"
  PROVE  Inv'
<1>1. /\ Main' = Main /\ Ending' = Ending
      /\ InputsOf(program)' = InputsOf(program)
  BY SameProgram DEF Opening
<1>2. Ending \in Nat /\ Ending >= 3
  BY InvFacts
<1>3. /\ pc \in {1, 2} /\ pc' \in {2, 3, Ending + 1}
      /\ pc' \in {2, 3} \/ said' = TRUE
      /\ pc' # Ending + 1 => pc' = pc + 1
  BY DEF Opening
<1>4. UNCHANGED <<program, in, whole, wanted, stored, torn, sync, status>>
  BY DEF Opening
<1>5. TypeOK /\ Early /\ Lasting
  BY DEF Inv
<1>6. pc <= 2 /\ pc <= Ending + 1 /\ pc <= Ending /\ pc \in 1..(Ending + 1)
  BY <1>2, <1>3
<1>7. /\ ~said /\ status = -1 /\ sync = "old"
      /\ whole = {} /\ wanted = {} /\ stored = {} /\ torn = {}
      /\ ~(Main.asks /\ in.all = "n")
  BY <1>5, <1>6 DEF Early, Lasting
<1>8. TypeOK'
  <2>1. pc' \in 0..(Ending' + 2)
    BY <1>1, <1>2, <1>3
  <2>2. session' \in {"none", "open", "closed", "left"}
    OBVIOUS
  <2>3. said' \in BOOLEAN
    <3>1. said = FALSE
      BY <1>5, <1>7 DEF TypeOK
    <3>2. said' = said \/ said' = TRUE
      BY DEF Opening
    <3> QED
      BY <3>1, <3>2
  <2> QED
    BY <1>1, <1>4, <1>5, <2>1, <2>2, <2>3 DEF TypeOK
<1>9. Early'
  <2>1. pc' <= 2 => pc' = 2 /\ pc' = pc + 1
    BY <1>2, <1>3
  <2>2. pc' = 2 => ~said'
    BY <1>2, <1>7 DEF Opening
  <2> QED
    BY <1>4, <1>7, <2>1, <2>2 DEF Early
<1>10. Told' /\ Ahead' /\ Renewing'
  BY <1>4, <1>7 DEF Told, Ahead, Renewing
<1>11. Held'
  <2>1. pc' < Ending' => pc' \in {2, 3}
    BY <1>1, <1>2, <1>3
  <2>2. 3..(2 - 1) = {} /\ 3..(3 - 1) = {}
    OBVIOUS
  <2>3. pc' \in {2, 3} => 3..(pc' - 1) = {}
    BY <2>2
  <2> QED
    BY <1>4, <1>7, <2>1, <2>3 DEF Held
<1>12. Lasting'
  <2>1. pc' \in 2..Ending' => pc' = pc + 1
    BY <1>1, <1>2, <1>3
  <2>2. pc' \in 3..Ending' => pc' = 3
    BY <1>1, <1>2, <1>3
  <2>3. status' = -1 /\ sync' = "old" /\ ~(Main'.asks /\ in'.all = "n")
    BY <1>1, <1>4, <1>7
  <2>4. status' # 0
    BY <2>3
  <2> QED
    BY <2>1, <2>2, <2>3, <2>4 DEF Lasting
<1> QED
  BY <1>8, <1>9, <1>10, <1>11, <1>12 DEF Inv

\* The interface is claimed, or the program exits without it.
LEMMA open_devKeeps ==
  ASSUME Inv, open_dev
  PROVE  Inv'
<1>1. pc \in 1..Ending /\ Step[1] = "open_dev"
  BY DEF open_dev, At
<1>2. Sound(Main.steps) /\ Ending \in Nat /\ Ending >= 3
  BY InvFacts
<1>3. pc = 1
  BY <1>1, <1>2, Places
<1>4. Opening
  BY <1>3 DEF open_dev, GoOn, Opening
<1>5. session' = "none"
  BY <1>3 DEF Inv, Early, open_dev
<1>6. handle' \in {"none", "open", "claimed"} /\ (pc' = pc + 1 => handle' = "claimed")
  <2>1. CASE handle' = "claimed" /\ GoOn /\ UNCHANGED said
    BY <2>1
  <2>2. CASE handle' \in {"none", "open"} /\ said' = TRUE /\ pc' = Ending + 1
    BY <1>2, <1>3, <2>2
  <2> QED
    BY <2>1, <2>2 DEF open_dev
<1>7. pc' # 3
  BY <1>2, <1>3, <1>4 DEF Opening
<1> QED
  BY <1>4, <1>5, <1>6, <1>7, OpeningKeeps

\* The session is open, or the program exits without it.
LEMMA start_sessionKeeps ==
  ASSUME Inv, start_session
  PROVE  Inv'
<1>1. pc \in 1..Ending /\ Step[1] = "start_session"
  BY DEF start_session, At
<1>2. Sound(Main.steps) /\ Ending \in Nat /\ Ending >= 3
  BY InvFacts
<1>3. pc = 2
  BY <1>1, <1>2, Places
<1>4. Opening
  BY <1>3 DEF start_session, GoOn, Opening
<1>5. pc <= 2 /\ pc \in 2..Ending
  BY <1>2, <1>3
<1>6. session = "none" /\ handle = "claimed"
  BY <1>5 DEF Inv, Early, Lasting
<1>7. handle' = "claimed" /\ session' \in {"none", "open"}
  BY <1>6 DEF start_session
<1>8. pc' # 2
  BY <1>2, <1>3, <1>4 DEF Opening
<1>9. pc' = 3 => session' = "open"
  <2>1. pc' # Ending + 1 \/ pc' # 3
    BY <1>2
  <2> QED
    BY <2>1 DEF start_session
<1> QED
  BY <1>3, <1>4, <1>7, <1>8, <1>9, OpeningKeeps

\* The sync id is new at the end of a program that wrote, and its end only.
LEMMA CompleteKeeps ==
  ASSUME Inv, end_session \/ exit_session
  PROVE  Inv'
<1>1. pc \in 1..Ending /\ Step[1] \in {"end_session", "exit_session"}
  BY DEF end_session, exit_session, At
<1>2. Sound(Main.steps) /\ Ending \in Nat /\ Ending >= 3
  BY InvFacts
<1>3. pc = Ending /\ Main.steps[Ending] = Step /\ pc' = Ending + 1
  <2>1. pc = Ending
    BY <1>1, <1>2, Places
  <2> QED
    BY <2>1 DEF end_session, exit_session, Complete, GoOn, Step
<1>4. /\ Step[1] = "end_session" => Step = <<"end_session">>
      /\ Step[1] = "exit_session" => Step = <<"exit_session">>
  BY <1>1, <1>2, Places
<1>5. UNCHANGED <<program, in, handle, whole, wanted, stored, torn, status>>
  BY DEF end_session, exit_session, Complete
<1>6. /\ Main' = Main /\ Ending' = Ending /\ Exempt(program, in)' = Exempt(program, in)
      /\ InputsOf(program)' = InputsOf(program)
  BY <1>5, SameProgram
<1>7. TypeOK /\ Lasting /\ Told /\ Ahead /\ Renewing
  BY DEF Inv
<1>8. pc <= Ending + 1 /\ pc <= Ending /\ pc \in 3..Ending /\ pc \in 1..(Ending + 1)
  BY <1>2, <1>3
<1>9. status = -1 /\ sync = "old" /\ session = "open" /\ ~(Main.asks /\ in.all = "n")
  BY <1>7, <1>8 DEF Lasting
<1>10. /\ session' \in {"closed", "left"} /\ sync' \in {"old", "new"}
       /\ said' = said \/ said' = TRUE
  BY <1>9 DEF end_session, exit_session, Complete, Range
<1>11. said \in BOOLEAN
  BY <1>7 DEF TypeOK
<1>12. TypeOK'
  <2>1. pc' \in 0..(Ending' + 2)
    BY <1>2, <1>3, <1>6
  <2>2. said' \in BOOLEAN
    BY <1>10, <1>11
  <2> QED
    BY <1>5, <1>6, <1>7, <1>10, <2>1, <2>2 DEF TypeOK
<1>13. Early' /\ Held'
  <2>1. ~(pc' <= 2) /\ ~(pc' < Ending') /\ 3..(pc - 1) \subseteq 3..(pc' - 1)
    BY <1>2, <1>3, <1>6
  <2>2. \A k \in whole : \E i \in 3..(pc - 1) : Main.steps[i] \in Gets(k)
    BY DEF Inv, Held
  <2>3. \A k \in whole' : \E i \in 3..(pc' - 1) : Main'.steps[i] \in Gets(k)
    BY <1>5, <1>6, <1>7, <2>2, <2>1
  <2> QED
    BY <2>1, <2>3 DEF Early, Held
<1>14. Lasting'
  <2>1. ~(pc' <= Ending') /\ pc' \notin 2..Ending' /\ pc' \notin 3..Ending'
    BY <1>2, <1>3, <1>6
  <2>2. status' = -1 /\ ~(Main'.asks /\ in'.all = "n")
    BY <1>5, <1>6, <1>9
  <2>3. status' # 0
    BY <2>2
  <2> QED
    BY <2>1, <2>2, <2>3 DEF Lasting
<1>15. Told'
  BY <1>5, <1>7, <1>10 DEF Told
<1>16. Ahead'
  <2>1. pc..(Ending - 1) = {}
    BY <1>2, <1>3
  <2>2. wanted \subseteq stored \/ said \/ Exempt(program, in)
    BY <1>7, <2>1 DEF Ahead
  <2> QED
    BY <1>5, <1>6, <1>10, <2>2 DEF Ahead
<1>17. Renewing'
  <2>1. CASE end_session
    <3>1. Step = <<"end_session">>
      BY <1>4, <2>1 DEF end_session, At
    <3>2. session' = "closed" => sync' = "new"
      BY <2>1 DEF end_session, Complete
    <3>3. Main'.steps[Ending'] = <<"end_session">>
      BY <1>3, <1>6, <3>1
    <3> QED
      BY <3>2, <3>3 DEF Renewing
  <2>2. CASE exit_session
    <3>1. Step = <<"exit_session">>
      BY <1>4, <2>2 DEF exit_session, At
    <3>2. sync' = sync
      BY <2>2 DEF exit_session, Complete, Range
    <3>3. Main.steps[Ending] # <<"end_session">>
      BY <1>3, <3>1
    <3>4. stored' \cup torn' = {}
      BY <1>5, <1>7, <3>3 DEF Renewing
    <3> QED
      BY <1>9, <3>2, <3>4 DEF Renewing
  <2> QED
    BY <2>1, <2>2
<1> QED
  BY <1>12, <1>13, <1>14, <1>15, <1>16, <1>17 DEF Inv

\* The status tells whether the session was closed, nothing else.
LEMMA close_devKeeps ==
  ASSUME Inv, close_dev
  PROVE  Inv'
<1>1. Ending \in Nat /\ Ending >= 3
  BY InvFacts
<1>2. pc = Ending + 1 /\ pc' = Ending + 2
  BY <1>1 DEF close_dev, GoOn
<1>3. UNCHANGED <<program, in, session, whole, wanted, stored, torn, sync>>
  BY DEF close_dev
<1>4. /\ Main' = Main /\ Ending' = Ending /\ Exempt(program, in)' = Exempt(program, in)
      /\ InputsOf(program)' = InputsOf(program)
  BY <1>3, SameProgram
<1>5. TypeOK /\ Lasting /\ Told /\ Ahead /\ Renewing
  BY DEF Inv
<1>6. /\ handle' \in {handle, "none"} /\ said' \in {said, TRUE}
      /\ status' = IF session = "closed" THEN 0 ELSE 1
  BY DEF close_dev
<1>7. said \in BOOLEAN /\ handle \in {"none", "open", "claimed"}
  BY <1>5 DEF TypeOK
<1>8. said => said'
  BY <1>6
<1>9. TypeOK'
  <2>1. pc' \in 0..(Ending' + 2)
    BY <1>1, <1>2, <1>4
  <2>2. said' \in BOOLEAN /\ handle' \in {"none", "open", "claimed"}
    BY <1>6, <1>7
  <2>3. status' \in {-1, 0, 1}
    BY <1>6
  <2> QED
    BY <1>3, <1>4, <1>5, <2>1, <2>2, <2>3 DEF TypeOK
<1>10. Early' /\ Held'
  <2>1. ~(pc' <= 2) /\ ~(pc' < Ending') /\ 3..(pc - 1) \subseteq 3..(pc' - 1)
    BY <1>1, <1>2, <1>4
  <2>2. \A k \in whole : \E i \in 3..(pc - 1) : Main.steps[i] \in Gets(k)
    BY DEF Inv, Held
  <2>3. \A k \in whole' : \E i \in 3..(pc' - 1) : Main'.steps[i] \in Gets(k)
    BY <1>3, <1>4, <1>5, <2>2, <2>1
  <2> QED
    BY <2>1, <2>3 DEF Early, Held
<1>11. Lasting'
  <2>1. /\ ~(pc' <= Ending' + 1) /\ ~(pc' <= Ending') /\ pc' \notin 2..Ending'
        /\ pc' \notin 3..Ending' /\ pc' \notin 1..(Ending' + 1)
    BY <1>1, <1>2, <1>4
  <2>2. status' = 0 => session' = "closed"
    BY <1>3, <1>6
  <2>3. session' # "none" => ~(Main'.asks /\ in'.all = "n")
    BY <1>3, <1>4, <1>5 DEF Lasting
  <2> QED
    BY <2>1, <2>2, <2>3 DEF Lasting
<1>12. Told'
  BY <1>3, <1>5, <1>8 DEF Told
<1>13. Ahead'
  <2>1. pc..(Ending - 1) = {}
    BY <1>1, <1>2
  <2>2. wanted \subseteq stored \/ said \/ Exempt(program, in)
    BY <1>5, <2>1 DEF Ahead
  <2> QED
    BY <1>3, <1>4, <1>8, <2>2 DEF Ahead
<1>14. Renewing'
  BY <1>3, <1>4, <1>5 DEF Renewing
<1> QED
  BY <1>9, <1>10, <1>11, <1>12, <1>13, <1>14 DEF Inv

-----------------------------------------------------------------------------
(* The theorems *)

\* Every step keeps the invariant.
LEMMA NextInv ==
  ASSUME Inv, [Next]_vars
  PROVE  Inv'
<1>1. CASE Usage \/ Declined
  BY <1>1, QuitKeeps
<1>2. CASE Start
  BY <1>2, StartKeeps
<1>3. CASE open_dev
  BY <1>3, open_devKeeps
<1>4. CASE start_session
  BY <1>4, start_sessionKeeps
<1>5. CASE find_app \/ NoName \/ Pass \/ Output
  BY <1>5, NothingKeeps
<1>6. CASE Read
  BY <1>6, ReadKeeps
<1>7. CASE Make \/ ReadFile
  BY <1>7, MakeKeeps
<1>8. CASE Edit
  BY <1>8, EditKeeps
<1>9. CASE NotUpdated
  BY <1>9, NotUpdatedKeeps
<1>10. CASE Store \/ update_option
  BY <1>10, StoreKeeps
<1>11. CASE end_session \/ exit_session
  BY <1>11, CompleteKeeps
<1>12. CASE close_dev
  BY <1>12, close_devKeeps
<1>13. CASE UNCHANGED vars
  <2>1. Main' = Main /\ Ending' = Ending /\ Exempt(program, in)' = Exempt(program, in)
        /\ InputsOf(program)' = InputsOf(program)
    BY <1>13, SameProgram DEF vars
  <2>2. TypeOK'
    BY <1>13, <2>1 DEF vars, Inv, TypeOK, Things
  <2>3. Early' /\ Lasting'
    BY <1>13, <2>1 DEF vars, Inv, Early, Lasting
  <2>4. Held'
    BY <1>13, <2>1 DEF vars, Inv, Held, Things
  <2>5. Told' /\ Ahead' /\ Renewing'
    BY <1>13, <2>1 DEF vars, Inv, Told, Ahead, Renewing
  <2> QED
    BY <2>2, <2>3, <2>4, <2>5 DEF Inv
<1> QED
  BY <1>1, <1>2, <1>3, <1>4, <1>5, <1>6, <1>7, <1>8, <1>9, <1>10, <1>11, <1>12, <1>13
  DEF Next

\* The invariant holds in every state.
LEMMA Invariance == Spec => []Inv
<1>1. Init => Inv
  BY InitInv
<1>2. Inv /\ [Next]_vars => Inv'
  BY NextInv
<1> QED
  BY <1>1, <1>2, PTL DEF Spec

\* Type correctness of every program, for any number of files: what it stores, or
\* leaves torn, it holds all of (the mains of add_note.c to unused_note.c).
THEOREM TypeCorrect == Spec => []TypeOK
<1>1. Inv => TypeOK
  BY DEF Inv
<1> QED
  BY <1>1, Invariance, PTL

\* A program that exits with status 0 and has printed no error closed its session,
\* left nothing half written and wrote what it changed, wherever a call failed
\* (goto exit, goto end in its main).
THEOREM TellsByZero == Spec => []ZeroTells
<1>1. ASSUME Inv, status = 0, ~said
      PROVE  /\ session = IF Main.asks /\ in.all = "n" THEN "none" ELSE "closed"
             /\ torn = {}
             /\ wanted \subseteq stored \/ (program = "add_schedule" /\ HeaderOnly(in))
  <2>1. Ending \in Nat /\ pc \in 0..(Ending + 2)
    BY <1>1, InvFacts DEF Inv, TypeOK
  <2>2. ~(pc <= Ending + 1)
    BY <1>1 DEF Inv, Lasting
  <2>3. pc..(Ending - 1) = {}
    BY <2>1, <2>2
  <2>4. session = IF Main.asks /\ in.all = "n" THEN "none" ELSE "closed"
    BY <1>1 DEF Inv, Lasting
  <2>5. torn = {}
    BY <1>1 DEF Inv, Told
  <2>6. wanted \ stored = {} \/ Exempt(program, in)
    BY <1>1, <2>3 DEF Inv, Ahead
  <2> QED
    BY <2>4, <2>5, <2>6 DEF Exempt
<1>2. Inv => ZeroTells
  BY <1>1 DEF ZeroTells
<1> QED
  BY <1>2, Invariance, PTL

\* The sync id is new wherever a program wrote and closed its session, and
\* none that only reads writes anything (end_session, exit_session).
THEOREM TellsBySyncId == Spec => []SyncIdTells
<1>1. ASSUME Inv, program \in Readers
      PROVE  sync = "old" /\ stored \cup torn = {}
  <2>1. Main.steps[Ending] = <<"exit_session">>
    BY <1>1, InvFacts
  <2>2. <<"exit_session">> # <<"end_session">>
    OBVIOUS
  <2> QED
    BY <1>1, <2>1, <2>2 DEF Inv, Renewing
<1>2. Inv => SyncIdTells
  BY <1>1 DEF Inv, Renewing, SyncIdTells
<1> QED
  BY <1>2, Invariance, PTL

\* A database read in part is never stored: nothing is written but what the
\* program holds all of, in an open session on a claimed interface.
THEOREM StoresWhatWasRead == Spec => StoreAfterRead
<1> DEFINE written == stored \cup torn
           A == /\ written' \ written \subseteq whole
                /\ written' # written => session = "open" /\ handle = "claimed"
<1>1. ASSUME Inv, [Next]_vars
      PROVE  A \/ UNCHANGED vars
  <2>1. CASE Store \/ update_option
    <3>1. pc \in 3..(Ending - 1) /\ Step[2] \in Things /\ Step \in Stores(Step[2])
      BY <1>1, <2>1, StoreKeeps
    <3>2. Step[2] \in whole /\ session = "open" /\ handle = "claimed"
      BY <1>1, <3>1, WritesHeld
    <3>3. written' \ written \subseteq {Step[2]}
      BY <2>1 DEF Store, update_option, Fail
    <3> QED
      BY <3>1, <3>2, <3>3
  <2>2. CASE UNCHANGED <<stored, torn>>
    BY <2>2
  <2>3. Store \/ update_option \/ UNCHANGED <<stored, torn>>
    BY <1>1 DEF Next, vars, Usage, Declined, Quit, Start, open_dev, start_session, find_app,
                Read, ReadFile, Make, NoName, Pass, Edit, NotUpdated, Output, end_session,
                exit_session, Complete, close_dev
  <2> QED
    BY <2>1, <2>2, <2>3
<1>2. Inv /\ [Next]_vars => [A]_vars
  BY <1>1
<1> QED
  BY <1>2, Invariance, PTL DEF Spec, StoreAfterRead
=============================================================================
