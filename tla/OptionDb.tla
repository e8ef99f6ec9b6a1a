------------------------------ MODULE OptionDb -------------------------------
(***************************************************************************)
(* The options of the watch (memory.c): 15 bytes that option_dlusb prints  *)
(* and, from a file, sets.  Fields that are treated alike stand for one    *)
(* another: mode for nite_mode, chime for the six other flags, at for the  *)
(* four times, toggle for the three bytes.                                 *)
(*                                                                         *)
(* A line is <<field, value>>, <<field>> when its number is missing, or    *)
(* << >> when it is blank.  A character is a number, 0 the space.          *)
(***************************************************************************)
EXTENDS DbLists

CONSTANTS
    OptionNumbers,    \* the numbers lines can give
    NITE_ON_HOUR, NITE_ON_MINUTE

Here == app = "option"

Flags == {"mode", "chime"}
Chars == 0..1

\* a flag is set by any number but 0
Flag(i) == IF i # 0 THEN 1 ELSE 0

\* Mutant of InDay: the last minute of an hour is out of range.
InDay_59(h, m) ==
    <<IF h \in 0..23 THEN h ELSE NITE_ON_HOUR, IF m \in 0..58 THEN m ELSE NITE_ON_MINUTE>>

\* hours and minutes out of range become those of the factory
InDay(h, m) ==
    <<IF h \in 0..23 THEN h ELSE NITE_ON_HOUR, IF m \in 0..59 THEN m ELSE NITE_ON_MINUTE>>

\* "passwd: %c%c": the space of the format passes over all the spaces of the line
Password(text, old) ==
    LET i == SelectInSeq(text, LAMBDA c : c # 0)
    IN IF i # 0 /\ i < Len(text) THEN <<text[i], text[i + 1]>> ELSE old

\* What one line makes of the options.  sscanf returns EOF, which counts as
\* success, when the line ends before its number: the variable keeps what it
\* held, which may be nothing yet.  A blank line ends the first format.
scan_option(o, line) ==
    CASE line = << >> -> {[o EXCEPT !.mode = g] : g \in {0, 1}}
      [] Len(line) = 1 /\ line[1] \in Flags -> {[o EXCEPT ![line[1]] = g] : g \in {0, 1}}
      [] line = <<"toggle">> -> {[o EXCEPT !.toggle = g] : g \in {0, 255}}
      [] Len(line) = 2 /\ line[1] \in Flags -> {[o EXCEPT ![line[1]] = Flag(line[2])]}
      [] Len(line) = 2 /\ line[1] = "toggle" -> {[o EXCEPT !.toggle = line[2] % 256]}
      [] Len(line) = 2 /\ line[1] = "at" -> {[o EXCEPT !.at = InDay(line[2][1], line[2][2])]}
      [] Len(line) = 2 /\ line[1] = "passwd" -> {[o EXCEPT !.passwd = Password(line[2], @)]}
      [] OTHER -> {o}

print_option(o) ==
    <<<<"mode", o.mode>>, <<"chime", o.chime>>, <<"at", o.at>>,
      <<"toggle", o.toggle>>, <<"passwd", o.passwd>>>>

\* two digits of a byte, and back
bcd(n) == 16 * ((n \div 10) % 10) + (n % 10)
debcd(b) == 10 * (b \div 16) + (b % 16)

\* the tables that the password's characters go through are left out
update_option(o) == [o EXCEPT !.at = <<bcd(@[1]), bcd(@[2])>>]
read_option(im) == [im EXCEPT !.at = <<debcd(@[1]), debcd(@[2])>>]

-----------------------------------------------------------------------------
\* the options the lines below can make
Options == [mode : {0, 1}, chime : {0, 1},
            at : {<<h, m>> : h \in {6, NITE_ON_HOUR}, m \in {59, NITE_ON_MINUTE}},
            toggle : {0, 255} \cup {n % 256 : n \in OptionNumbers}, passwd : Chars \X Chars]

Init == Here /\ Started /\ image \in {update_option(o) : o \in Options}

Open == Here /\ Opens("add", read_option(image), [updated |-> TRUE])

Lines ==
    {<< >>, <<"other">>} \cup {<<f>> : f \in Flags \cup {"toggle", "at"}}
    \cup {<<f, n>> : f \in Flags \cup {"toggle"}, n \in OptionNumbers}
    \cup {<<"at", <<h, m>>>> : h \in {6, 24}, m \in {59, 60}}
    \cup {<<"passwd", text>> : text \in UNION {[1..n -> Chars] : n \in 1..3}}

ScanLine ==
    /\ Here /\ Holding
    /\ \E line \in Lines : \E o \in scan_option(db, line) : Edits({"add"}, o, <<"skip">>)
    /\ UNCHANGED static

\* nothing is scanned or stored on a terminal
Save == Here /\ Holding /\ Saves(update_option(db))
Leave == Here /\ Quit

Next == Open \/ ScanLine \/ Save \/ Leave

-----------------------------------------------------------------------------
\* the only result of scanning a printed line
Scanned(o, line) == CHOOSE p \in scan_option(o, line) : TRUE

\* The lines printed of the watch's options make the same options of any others,
\* but for a password that begins with a space.
Restores ==
    LET printed == print_option(read_option(image))
    IN \A o \in Options :
          LET r == FoldLeft(Scanned, o, printed)
          IN r = [read_option(image) EXCEPT
                    !.passwd = IF @[1] = 0 THEN Password(@, o.passwd) ELSE @]
=============================================================================
