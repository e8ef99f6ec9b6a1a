---------------------------- MODULE InitAppsProofs ----------------------------
(***************************************************************************)
(* Proofs about init_dlusb: types, the agreement of host and watch on the  *)
(* index of an application, and that data stay in the area of their        *)
(* application, for any command line and any failures.                     *)
(***************************************************************************)
EXTENDS InitApps, SequenceTheorems, TLAPS

USE SizeAssumption, PagesAssumption

\* What stands where after an Append.
LEMMA AppendIndices ==
  ASSUME NEW S, NEW s \in Seq(S), NEW e \in S
  PROVE  /\ Append(s, e) \in Seq(S)
         /\ Len(Append(s, e)) = Len(s) + 1
         /\ DOMAIN Append(s, e) = 1..(Len(s) + 1)
         /\ \A j \in 1..Len(s) : Append(s, e)[j] = s[j]
         /\ Append(s, e)[Len(s) + 1] = e
  BY AppendProperties

\* The command lines are short enough for the table.
LEMMA ListType ==
  ASSUME TypeOK
  PROVE  /\ list \in Seq(Kinds) /\ Len(list) \in Nat
         /\ Len(list) <= MaxApps /\ MaxApps \in Nat \ {0}
  BY ListsAssumption DEF TypeOK, MaxApps, First

\* The parts of an application are parts.
LEMMA PartsType ==
  ASSUME NEW k \in Kinds
  PROVE  PartsOf(k) \in Seq(Parts)
<1>1. CASE k = "int"
  BY <1>1 DEF PartsOf, Parts
<1>2. CASE k = "ext"
  BY <1>2 DEF PartsOf, Parts
<1>3. CASE k = "extdb"
  BY <1>3 DEF PartsOf, Parts
<1>4. CASE k \in {"bare", "option"}
  BY <1>4 DEF PartsOf, Parts
<1> QED
  BY <1>1, <1>2, <1>3, <1>4 DEF Kinds

\* The table before anything is done to it.
LEMMA OldTable ==
  ASSUME NEW n \in Olds
  PROVE  /\ [j \in 1..n |-> [req |-> 0, inst |-> j]] \in Seq(Entries)
         /\ Len([j \in 1..n |-> [req |-> 0, inst |-> j]]) = n
         /\ n <= MaxApps
<1>1. n \in 0..MaxApps /\ MaxApps \in Nat
  BY OldsAssumption DEF MaxApps, First
<1> DEFINE t == [j \in 1..n |-> [req |-> 0, inst |-> j]]
<1>2. t \in [1..n -> Entries]
  BY <1>1 DEF Entries, Requests
<1>3. t \in Seq(Entries)
  BY <1>1, <1>2, SeqDef
<1>4. Len(t) = n
  BY <1>1, <1>2, <1>3, LenProperties
<1> QED
  BY <1>1, <1>3, <1>4

-----------------------------------------------------------------------------

\* The initial values have the types.
LEMMA TypeInit == Init => TypeOK
<1> SUFFICES ASSUME Init PROVE TypeOK
  OBVIOUS
<1>1. table \in Seq(Entries) /\ Len(table) <= MaxApps
  BY OldTable DEF Init
<1>2. Blank \in Contents /\ MaxApps \in Nat
  BY DEF Blank, Contents, Requests, MaxApps, First
<1>3. area \in [Indices \X Parts -> Contents]
  BY <1>2 DEF Init
<1>4. /\ init_app_idx = -1 /\ known = 0 /\ pc = "open" /\ i = 1 /\ part = 1
      /\ off = 0 /\ ret = 1 /\ done = {} /\ unseen = FALSE
      /\ list \in Lists /\ binary \in BOOLEAN
  BY DEF Init
<1>5. /\ 1 \in 1..(MaxApps + 1) /\ 0 \in 0..MaxApps /\ 0 \in 0..(Pages - 1)
      /\ {} \subseteq Requests
  BY <1>2
<1>6. /\ pc \in {"open", "delete", "zero", "next", "init", "sysinfo", "write",
                 "option", "end", "exit", "crashed"}
      /\ pc \in {"init", "sysinfo", "write", "option"} => i <= Len(list)
  BY <1>4
<1>7. /\ init_app_idx \in {-1} \cup (First..(NUM_APPS - 1))
      /\ part \in Nat \ {0} /\ ret \in {0, 1}
  BY <1>4
<1>9. unseen \in BOOLEAN
  BY <1>4
<1>8. /\ known \in 0..MaxApps /\ i \in 1..(MaxApps + 1)
      /\ off \in 0..(Pages - 1) /\ done \subseteq Requests
  BY <1>4, <1>5
<1> QED
  BY <1>1, <1>3, <1>4, <1>6, <1>7, <1>8, <1>9 DEF TypeOK

\* Going elsewhere keeps the types of the program's own variables.
ProgramOK ==
    /\ pc \in {"open", "delete", "zero", "next", "init", "sysinfo", "write",
               "option", "end", "exit", "crashed"}
    /\ list \in Lists /\ binary \in BOOLEAN
    /\ i \in 1..(MaxApps + 1)
    /\ pc \in {"init", "sysinfo", "write", "option"} => i <= Len(list)
    /\ part \in Nat \ {0} /\ off \in 0..(Pages - 1)
    /\ ret \in {0, 1}

LEMMA NextRequestType ==
  ASSUME TypeOK, i <= Len(list), NextRequest
  PROVE  ProgramOK'
<1>1. i + 1 \in 1..(MaxApps + 1)
  BY ListType DEF TypeOK
<1> QED
  BY <1>1 DEF NextRequest, ProgramOK, TypeOK

LEMMA GotoType ==
  ASSUME ProgramOK
  PROVE  /\ \A l \in {"delete", "zero", "next", "end", "exit", "crashed"} :
               Goto(l) => ProgramOK'
         /\ \A l \in {"init", "sysinfo", "write", "option"} :
               i <= Len(list) /\ Goto(l) => ProgramOK'
<1>1. ASSUME NEW l, Goto(l)
      PROVE  /\ pc' = l /\ list' = list /\ binary' = binary /\ i' = i
             /\ part' = part /\ off' = off /\ ret' = ret
  BY <1>1 DEF Goto
<1>2. ASSUME NEW l \in {"delete", "zero", "next", "end", "exit", "crashed"},
             Goto(l)
      PROVE  ProgramOK'
  BY <1>1, <1>2 DEF ProgramOK
<1>3. ASSUME NEW l \in {"init", "sysinfo", "write", "option"}, Goto(l),
             i <= Len(list)
      PROVE  ProgramOK'
  BY <1>1, <1>3 DEF ProgramOK
<1> QED
  BY <1>2, <1>3

LEMMA LeaveType ==
  ASSUME TypeOK, i <= Len(list), Leave
  PROVE  ProgramOK'
<1>1. ProgramOK
  BY DEF TypeOK, ProgramOK
<1> QED
  BY <1>1, NextRequestType, GotoType DEF Leave

\* What an installation does to the table.
LEMMA InstalledType ==
  ASSUME TypeOK, i <= Len(list)
  PROVE  /\ Installed \in Seq(Entries)
         /\ Len(Installed) = Len(table) + 1
         /\ DOMAIN Installed = 1..(Len(table) + 1)
         /\ \A j \in 1..Len(table) : Installed[j] = table[j]
         /\ Installed[Len(table) + 1].req = i
<1>1. [req |-> i, inst |-> init_app_inst] \in Entries
  <2>1. i \in Requests
    BY ListType DEF TypeOK, Requests
  <2>2. init_app_inst \in Nat
    BY DEF TypeOK, init_app_inst, First
  <2> QED
    BY <2>1, <2>2 DEF Entries
<1>2. table \in Seq(Entries)
  BY DEF TypeOK
<1> QED
  BY <1>1, <1>2, AppendIndices DEF Installed

\* Only pages of the application at hand are written, at the last index.
LEMMA WrittenType ==
  ASSUME TypeOK, InstallInv, pc = "write", part <= Len(PartsOf(kind))
  PROVE  /\ Target = init_app_idx /\ Target \in Indices \ {0}
         /\ current \in Parts
         /\ Written \in [Indices \X Parts -> Contents]
<1>1. kind \in Kinds /\ i <= Len(list)
  <2>1. i \in 1..Len(list)
    BY ListType DEF TypeOK
  <2> QED
    BY <2>1, ListType DEF kind
<1>2. current \in Parts
  BY <1>1, PartsType DEF current, TypeOK
<1>3. init_app_idx < First + known /\ init_app_idx \in First..(NUM_APPS - 1)
  BY DEF InstallInv, TypeOK, installing, latest, First
<1>4. Target = init_app_idx
  BY <1>3 DEF Target
<1>5. Target \in Indices \ {0}
  BY <1>3, <1>4 DEF Indices, First
<1>6. [req |-> i, pages |-> off + 1] \in Contents
  BY <1>1, ListType DEF Contents, TypeOK, Requests
<1> QED
  BY <1>2, <1>4, <1>5, <1>6 DEF Written, TypeOK

\* The count the host goes on to is an index.
LEMMA NextIdxType ==
  ASSUME TypeOK, InstallInv, pc = "init", Len(table) < MaxApps
  PROVE  /\ NextIdx \in First..(NUM_APPS - 1)
         /\ NextIdx <= Len(table) + 2
  BY DEF TypeOK, InstallInv, installing, latest, NextIdx, First, MaxApps

\* The variables the watch and the loop's record keep.
TablesOK ==
    /\ table \in Seq(Entries) /\ Len(table) <= MaxApps
    /\ area \in [Indices \X Parts -> Contents]
    /\ init_app_idx \in {-1} \cup (First..(NUM_APPS - 1))
    /\ known \in 0..MaxApps
    /\ done \subseteq Requests /\ unseen \in BOOLEAN

tables == <<table, area, init_app_idx, known, done, unseen>>

LEMMA TypeStep == TypeOK /\ InstallInv /\ [Next]_vars => TypeOK'
<1> SUFFICES ASSUME TypeOK, InstallInv, [Next]_vars PROVE TypeOK'
  OBVIOUS
<1>0. /\ table \in Seq(Entries) /\ Len(table) \in 0..MaxApps
      /\ area \in [Indices \X Parts -> Contents]
      /\ init_app_idx \in {-1} \cup (First..(NUM_APPS - 1))
      /\ known \in 0..MaxApps
      /\ done \subseteq Requests /\ unseen \in BOOLEAN
  BY DEF TypeOK
<1>t. ProgramOK
  BY DEF TypeOK, ProgramOK
<1>e. << >> \in Seq(Entries) /\ Len(<< >>) = 0 /\ 0 <= MaxApps
  BY DEF MaxApps, First
<1>u. ASSUME UNCHANGED tables PROVE TablesOK'
  BY <1>0, <1>u DEF tables, TablesOK
<1>p. ASSUME TablesOK', ProgramOK' PROVE TypeOK'
  BY <1>p DEF TypeOK, ProgramOK, TablesOK
<1> SUFFICES TablesOK' /\ ProgramOK'
  BY <1>p
<1>2. CASE StartSession
  <2>1. ProgramOK'
    BY <1>2, <1>t, GotoType DEF StartSession
  <2>2. known' \in 0..MaxApps
    BY <1>0, <1>2 DEF StartSession
  <2> QED
    BY <1>0, <1>2, <2>1, <2>2 DEF StartSession, TablesOK
<1>3. CASE DelAllApps
  <2>1. ProgramOK'
    BY <1>3, <1>t, GotoType DEF DelAllApps
  <2> QED
    BY <1>0, <1>e, <1>3, <2>1 DEF DelAllApps, TablesOK
<1>4. CASE DelAllFails
  <2>1. ProgramOK'
    BY <1>4, <1>t, GotoType DEF DelAllFails
  <2>2. table' \in Seq(Entries) /\ Len(table') <= MaxApps
    <3>1. table' = table \/ table' = << >>
      BY <1>4 DEF DelAllFails
    <3>2. CASE table' = table
      BY <1>0, <3>2
    <3>3. CASE table' = << >>
      BY <1>e, <3>3
    <3> QED
      BY <3>1, <3>2, <3>3
  <2> QED
    BY <1>0, <1>4, <2>1, <2>2 DEF DelAllFails, host, TablesOK
<1>5. CASE ZeroTable
  <2>1. UNCHANGED tables
    BY <1>5 DEF ZeroTable, host, tables
  <2> QED
    BY <1>5, <1>u, <2>1, <1>t, GotoType DEF ZeroTable
<1>6. CASE Prepare
  <2>1. UNCHANGED tables
    BY <1>6 DEF Prepare, host, tables
  <2> QED
    BY <1>6, <1>u, <2>1, <1>t, GotoType DEF Prepare
<1>7. CASE FileMissing
  <2>1. UNCHANGED tables
    BY <1>7 DEF FileMissing, host, tables
  <2> QED
    BY <1>7, <1>u, <2>1, <1>t, GotoType, NextRequestType DEF FileMissing
<1>8. CASE AppInit
  <2>1. i <= Len(list)
    BY <1>8 DEF AppInit, TypeOK
  <2>2. ProgramOK'
    BY <1>8, <2>1, <1>t, GotoType DEF AppInit
  <2>3. table' = Installed /\ Len(table) < MaxApps
    BY <1>8 DEF AppInit
  <2>4. table' \in Seq(Entries) /\ Len(table') = Len(table) + 1
    BY <2>1, <2>3, InstalledType
  <2>5. init_app_idx' \in First..(NUM_APPS - 1)
    BY <1>8, NextIdxType DEF AppInit
  <2>6. Len(table') <= MaxApps
    BY <1>0, <2>3, <2>4 DEF MaxApps, First
  <2> QED
    BY <1>0, <1>8, <2>2, <2>4, <2>5, <2>6 DEF AppInit, TablesOK
<1>9. CASE AppInitFails
  <2>1. i <= Len(list)
    BY <1>9 DEF AppInitFails, TypeOK
  <2>2. ProgramOK'
    BY <1>9, <2>1, LeaveType DEF AppInitFails
  <2>3. table' = table \/ (table' = Installed /\ Len(table) < MaxApps)
    BY <1>9 DEF AppInitFails
  <2>6. unseen' \in BOOLEAN
    BY <1>0, <1>9 DEF AppInitFails
  <2>4. /\ Installed \in Seq(Entries)
        /\ Len(Installed) = Len(table) + 1
    BY <2>1, InstalledType
  <2>5. table' \in Seq(Entries) /\ Len(table') <= MaxApps
    BY <1>0, <2>3, <2>4 DEF MaxApps, First
  <2> QED
    BY <1>0, <1>9, <2>2, <2>5, <2>6 DEF AppInitFails, host, TablesOK
<1>10. CASE ReadSysinfo
  <2>1. i <= Len(list)
    BY <1>10 DEF ReadSysinfo, TypeOK
  <2>2. known' \in 0..MaxApps
    BY <1>0, <1>10 DEF ReadSysinfo
  <2>3. ProgramOK'
    BY <1>10, <2>1, <1>t, GotoType, LeaveType DEF ReadSysinfo
  <2> QED
    BY <1>0, <1>10, <2>2, <2>3 DEF ReadSysinfo, TablesOK
<1>11. CASE WritePage
  <2>1. area' \in [Indices \X Parts -> Contents]
    BY <1>11, WrittenType DEF WritePage
  <2>2. part' \in Nat \ {0} /\ off' \in 0..(Pages - 1)
    BY <1>11 DEF WritePage, TypeOK
  <2>3. TablesOK'
    BY <1>0, <1>11, <2>1 DEF WritePage, host, TablesOK
  <2>4. ProgramOK'
    BY <1>11, <2>2 DEF WritePage, ProgramOK, TypeOK
  <2> QED
    BY <2>3, <2>4
<1>12. CASE WriteFails
  <2>1. i <= Len(list)
    BY <1>12 DEF WriteFails, TypeOK
  <2>2. area' \in [Indices \X Parts -> Contents]
    BY <1>0, <1>12, WrittenType DEF WriteFails
  <2>3. ProgramOK'
    BY <1>12, <2>1, LeaveType DEF WriteFails
  <2> QED
    BY <1>0, <1>12, <2>2, <2>3 DEF WriteFails, host, TablesOK
<1>13. CASE AppDone
  <2>1. i <= Len(list)
    BY <1>13 DEF AppDone, TypeOK
  <2>2. i \in Requests
    BY <2>1, ListType DEF TypeOK, Requests
  <2>3. done' \subseteq Requests
    BY <1>0, <1>13, <2>2 DEF AppDone
  <2>4. ProgramOK'
    BY <1>13, <2>1, LeaveType DEF AppDone
  <2> QED
    BY <1>0, <1>13, <2>3, <2>4 DEF AppDone, host, TablesOK
<1>14. CASE SetOption
  <2>1. i <= Len(list)
    BY <1>14 DEF SetOption, TypeOK
  <2>2. UNCHANGED tables
    BY <1>14 DEF SetOption, host, tables
  <2> QED
    BY <1>14, <1>u, <2>1, <2>2, <1>t, GotoType, NextRequestType DEF SetOption
<1>15. CASE AllDone
  <2>1. UNCHANGED tables
    BY <1>15 DEF AllDone, host, tables
  <2> QED
    BY <1>15, <1>u, <2>1, <1>t, GotoType DEF AllDone
<1>16. CASE EndSession
  <2>1. UNCHANGED tables
    BY <1>16 DEF EndSession, host, tables
  <2>2. ProgramOK'
    BY <1>16 DEF EndSession, ProgramOK, TypeOK
  <2> QED
    BY <1>u, <2>1, <2>2
<1>17. CASE UNCHANGED vars
  <2>1. UNCHANGED tables
    BY <1>17 DEF vars, host, tables
  <2>2. ProgramOK'
    BY <1>17 DEF vars, program, ProgramOK, TypeOK
  <2> QED
    BY <1>u, <2>1, <2>2
<1> QED
  BY <1>2, <1>3, <1>4, <1>5, <1>6, <1>7, <1>8, <1>9, <1>10, <1>11, <1>12,
     <1>13, <1>14, <1>15, <1>16, <1>17 DEF Next

-----------------------------------------------------------------------------

LEMMA InstallInit == Init => InstallInv
  BY DEF Init, InstallInv, installing

\* The function that installs an application leaves the loop's record alone.
LEMMA LeaveKeeps ==
  ASSUME InstallInv, pc \in installing, Leave,
         UNCHANGED <<table, init_app_idx>>
  PROVE  InstallInv'
<1>1. pc' \in {"next", "option"}
  BY DEF Leave, NextRequest, Goto
<1> QED
  BY <1>1 DEF InstallInv, installing, latest

LEMMA InstallStep == TypeOK /\ InstallInv /\ [Next]_vars => InstallInv'
<1> SUFFICES ASSUME TypeOK, InstallInv, [Next]_vars PROVE InstallInv'
  OBVIOUS
<1>2. CASE StartSession
  <2>1. pc' \in {"delete", "exit"} /\ pc = "open" /\ area' = area
    BY <1>2 DEF StartSession, Goto
  <2> QED
    BY <2>1 DEF InstallInv, installing
<1>3. CASE DelAllApps
  <2>1. /\ pc' = "zero" /\ pc = "delete" /\ area' = area
        /\ table' = << >> /\ init_app_idx' = -1
    BY <1>3 DEF DelAllApps, Goto
  <2> QED
    BY <2>1 DEF InstallInv, installing
<1>4. CASE DelAllFails
  <2>1. pc' = "end"
    BY <1>4 DEF DelAllFails, Goto
  <2> QED
    BY <2>1 DEF InstallInv, installing
<1>5. CASE ZeroTable
  <2>1. /\ pc' \in {"next", "end"} /\ pc = "zero" /\ table' = table
        /\ init_app_idx' = init_app_idx
    BY <1>5 DEF ZeroTable, Goto, host
  <2>2. table = << >> /\ init_app_idx = -1
    BY <2>1 DEF InstallInv
  <2>3. latest' = 1 /\ DOMAIN table' = {}
    BY <2>1, <2>2 DEF latest
  <2> QED
    BY <2>1, <2>2, <2>3 DEF InstallInv, installing
<1>6. CASE Prepare
  <2>1. /\ pc = "next" /\ pc' = "init" /\ i' = i
        /\ table' = table /\ init_app_idx' = init_app_idx
    BY <1>6 DEF Prepare, Goto, host
  <2> QED
    BY <2>1 DEF InstallInv, installing, latest
<1>7. CASE FileMissing
  <2>1. /\ pc = "next" /\ pc' \in {"next", "end"}
        /\ table' = table /\ init_app_idx' = init_app_idx
    BY <1>7 DEF FileMissing, Goto, NextRequest, host
  <2> QED
    BY <2>1 DEF InstallInv, installing, latest
<1>8. CASE AppInit
  <2>1. /\ pc = "init" /\ pc' = "sysinfo" /\ i' = i
        /\ Len(table) < MaxApps /\ i <= Len(list)
        /\ table' = Installed /\ init_app_idx' = NextIdx
    BY <1>8 DEF AppInit, Goto, TypeOK
  <2>2. /\ Len(table') = Len(table) + 1
        /\ DOMAIN table' = 1..(Len(table) + 1)
        /\ \A j \in 1..Len(table) : table'[j] = table[j]
        /\ table'[Len(table) + 1].req = i
    BY <2>1, InstalledType
  <2>3. \A j \in 1..Len(table) : table[j].req # 0
    BY <2>1 DEF InstallInv, installing, TypeOK
  <2>4. i # 0 /\ Len(table) \in Nat
    BY DEF TypeOK
  <2>5. \A j \in DOMAIN table' : table'[j].req # 0
    BY <2>2, <2>3, <2>4
  <2>6. NextIdx \in First..(NUM_APPS - 1) /\ NextIdx <= Len(table) + 2
    BY <2>1, NextIdxType
  <2>7. init_app_idx' <= latest' /\ init_app_idx' # -1 /\ table' # << >>
    BY <2>1, <2>2, <2>4, <2>6 DEF latest, First
  <2>8. table'[Len(table')].req = i'
    BY <2>1, <2>2
  <2> QED
    BY <2>1, <2>5, <2>7, <2>8 DEF InstallInv, installing
<1>9. CASE AppInitFails
  <2>1. /\ pc = "init" /\ pc' \in {"next", "option"} /\ i <= Len(list)
        /\ init_app_idx' = init_app_idx
        /\ table' = table \/ table' = Installed
    BY <1>9 DEF AppInitFails, Leave, Goto, NextRequest, TypeOK, host
  <2>2. CASE table' = table
    BY <2>1, <2>2 DEF InstallInv, installing, latest
  <2>3. CASE table' = Installed
    <3>1. /\ Len(table') = Len(table) + 1
          /\ DOMAIN table' = 1..(Len(table) + 1)
          /\ \A j \in 1..Len(table) : table'[j] = table[j]
          /\ table'[Len(table) + 1].req = i
      BY <2>1, <2>3, InstalledType
    <3>2. \A j \in 1..Len(table) : table[j].req # 0
      BY <2>1 DEF InstallInv, installing, TypeOK
    <3>3. i # 0 /\ Len(table) \in Nat /\ init_app_idx \in Int
      BY DEF TypeOK, First
    <3>4. \A j \in DOMAIN table' : table'[j].req # 0
      BY <3>1, <3>2, <3>3
    <3>5. init_app_idx <= Len(table) + 1
      BY <2>1 DEF InstallInv, installing, latest
    <3>6. init_app_idx' <= latest'
      BY <2>1, <3>1, <3>3, <3>5 DEF latest
    <3> QED
      BY <2>1, <3>4, <3>6 DEF InstallInv, installing
  <2> QED
    BY <2>1, <2>2, <2>3
<1>10. CASE ReadSysinfo
  <2>1. /\ pc = "sysinfo" /\ table' = table /\ init_app_idx' = init_app_idx
        /\ \/ known' = Len(table) /\ pc' = "write" /\ i' = i
           \/ Leave
    BY <1>10 DEF ReadSysinfo, Goto
  <2>2. CASE known' = Len(table) /\ pc' = "write" /\ i' = i
    BY <2>1, <2>2 DEF InstallInv, installing, latest
  <2> QED
    BY <2>1, <2>2, LeaveKeeps DEF installing
<1>11. CASE WritePage
  <2>1. /\ pc = "write" /\ pc' = "write" /\ i' = i /\ table' = table
        /\ init_app_idx' = init_app_idx /\ known' = known
    BY <1>11 DEF WritePage, host
  <2> QED
    BY <2>1 DEF InstallInv, installing, latest
<1>12. CASE WriteFails
  BY <1>12, LeaveKeeps DEF WriteFails, host, installing
<1>13. CASE AppDone
  BY <1>13, LeaveKeeps DEF AppDone, host, installing
<1>14. CASE SetOption
  <2>1. /\ pc = "option" /\ pc' \in {"next", "end", "crashed"}
        /\ table' = table /\ init_app_idx' = init_app_idx
    BY <1>14 DEF SetOption, Goto, NextRequest, host
  <2> QED
    BY <2>1 DEF InstallInv, installing, latest
<1>15. CASE AllDone
  <2>1. pc' = "end"
    BY <1>15 DEF AllDone, Goto
  <2> QED
    BY <2>1 DEF InstallInv, installing
<1>16. CASE EndSession
  <2>1. pc' = "exit"
    BY <1>16 DEF EndSession
  <2> QED
    BY <2>1 DEF InstallInv, installing
<1>17. CASE UNCHANGED vars
  BY <1>17 DEF vars, host, program, InstallInv, installing, latest
<1> QED
  BY <1>2, <1>3, <1>4, <1>5, <1>6, <1>7, <1>8, <1>9, <1>10, <1>11, <1>12,
     <1>13, <1>14, <1>15, <1>16, <1>17 DEF Next

\* Every variable keeps its type: in particular the host's count is an index
\* of the table and the watch never has more applications than it can hold.
\* With it InstallInv, on which the arguments below rest.
THEOREM TypeCorrect == Spec => [](TypeOK /\ InstallInv)
<1>1. Init => TypeOK /\ InstallInv
  BY TypeInit, InstallInit
<1>2. (TypeOK /\ InstallInv) /\ [Next]_vars => (TypeOK /\ InstallInv)'
  BY TypeStep, InstallStep
<1> QED
  BY <1>1, <1>2, PTL DEF Spec

-----------------------------------------------------------------------------

\* The host's count follows the watch's.
LEMMA IdxStep ==
  TypeOK /\ InstallInv /\ InstallInv' /\ IdxInStep /\ [Next]_vars => IdxInStep'
<1> SUFFICES ASSUME TypeOK, InstallInv, InstallInv', IdxInStep, [Next]_vars,
                    pc' \in installing, ~unseen'
             PROVE  init_app_idx' = IF table' = << >> THEN -1 ELSE latest'
  BY DEF IdxInStep, installing
<1>1. CASE ZeroTable
  <2>1. /\ pc = "zero" /\ table' = table /\ init_app_idx' = init_app_idx
    BY <1>1 DEF ZeroTable, host
  <2> QED
    BY <2>1 DEF InstallInv
<1>2. CASE AppInit
  <2>1. /\ pc = "init" /\ ~unseen /\ i <= Len(list)
        /\ table' = Installed /\ init_app_idx' = NextIdx
    BY <1>2 DEF AppInit, TypeOK
  <2>2. Len(table') = Len(table) + 1 /\ Len(table) \in Nat
    BY <2>1, InstalledType DEF TypeOK
  <2>3. table' # << >>
    BY <2>2
  <2>4. init_app_idx = IF table = << >> THEN -1 ELSE Len(table) + 1
    BY <2>1 DEF IdxInStep, installing, latest
  <2>5. NextIdx = Len(table) + 2
    BY <2>2, <2>4 DEF NextIdx, First
  <2> QED
    BY <2>1, <2>2, <2>3, <2>5 DEF latest
<1>3. CASE UNCHANGED <<table, init_app_idx, unseen>> /\ pc \in installing
  BY <1>3 DEF IdxInStep, latest
<1>4. CASE AppInitFails
  <2>1. table' = table /\ unseen' = unseen
    BY <1>4 DEF AppInitFails
  <2> QED
    BY <1>3, <1>4, <2>1 DEF AppInitFails, host, installing
<1>5. CASE \/ Prepare \/ FileMissing \/ ReadSysinfo \/ WritePage \/ WriteFails
           \/ AppDone \/ SetOption
  BY <1>3, <1>5 DEF Prepare, FileMissing, ReadSysinfo, WritePage, WriteFails,
     AppDone, SetOption, host, installing
<1>6. CASE StartSession \/ DelAllApps \/ DelAllFails \/ AllDone \/ EndSession
  BY <1>6 DEF StartSession, DelAllApps, DelAllFails, AllDone, EndSession,
     Goto, installing
<1>7. CASE UNCHANGED vars
  BY <1>3, <1>7 DEF vars, host, program
<1> QED
  BY <1>1, <1>2, <1>4, <1>5, <1>6, <1>7 DEF Next

\* As long as no reply to an initialisation is lost the host writes to the
\* index at which the watch has put the application, whatever else fails.
THEOREM StaysInStep == Spec => []IdxInStep
<1>1. Init => IdxInStep
  BY DEF Init, IdxInStep, installing
<1>2. IdxInStep /\ (TypeOK /\ InstallInv) /\ (TypeOK /\ InstallInv)'
         /\ [Next]_vars => IdxInStep'
  BY IdxStep
<1> QED
  BY <1>1, <1>2, TypeCorrect, PTL DEF Spec

\* A page goes to the area of the application at hand.
LEMMA AreasAfterPage ==
  ASSUME TypeOK, InstallInv, IdxInStep, OwnAreas, pc = "write",
         part <= Len(PartsOf(kind)), area' = Written, table' = table,
         unseen' = unseen
  PROVE  OwnAreas'
<1> SUFFICES ASSUME ~unseen, NEW x \in Indices, NEW p \in Parts,
                    Written[<<x, p>>].req # 0
             PROVE  /\ x - 1 \in DOMAIN table
                    /\ table[x - 1].req = Written[<<x, p>>].req
  BY DEF OwnAreas
<1>1. Target = init_app_idx /\ Target \in Indices /\ current \in Parts
  BY WrittenType
<1>2. /\ table # << >> /\ table[Len(table)].req = i
      /\ Len(table) \in Nat /\ DOMAIN table = 1..Len(table)
  BY DEF InstallInv, TypeOK
<1>3. init_app_idx = Len(table) + 1
  BY <1>2 DEF IdxInStep, installing, latest
<1>4. CASE <<x, p>> = <<Target, current>>
  <2>1. Written[<<x, p>>].req = i
    BY <1>1, <1>4 DEF Written, TypeOK
  <2>2. x - 1 = Len(table) /\ Len(table) \in DOMAIN table
    BY <1>1, <1>2, <1>3, <1>4
  <2> QED
    BY <1>2, <2>1, <2>2
<1>5. CASE <<x, p>> # <<Target, current>>
  <2>1. Written[<<x, p>>] = area[<<x, p>>]
    BY <1>5 DEF Written, TypeOK
  <2> QED
    BY <2>1 DEF OwnAreas
<1> QED
  BY <1>4, <1>5

LEMMA AreasStep ==
  TypeOK /\ InstallInv /\ IdxInStep /\ OwnAreas /\ [Next]_vars => OwnAreas'
<1> SUFFICES ASSUME TypeOK, InstallInv, IdxInStep, OwnAreas, [Next]_vars
             PROVE  OwnAreas'
  OBVIOUS
<1>1. CASE UNCHANGED <<table, area, unseen>>
  BY <1>1 DEF OwnAreas
<1>2. CASE DelAllApps \/ DelAllFails
  <2>1. pc = "delete" /\ area' = area
    BY <1>2 DEF DelAllApps, DelAllFails
  <2>2. \A x \in Indices, p \in Parts : area[<<x, p>>].req = 0
    BY <2>1 DEF InstallInv, Blank
  <2> QED
    BY <2>1, <2>2 DEF OwnAreas
<1>3. CASE AppInit
  <2>1. i <= Len(list) /\ table' = Installed /\ area' = area /\ unseen' = unseen
    BY <1>3 DEF AppInit, TypeOK
  <2>2. /\ DOMAIN table = 1..Len(table)
        /\ \A j \in DOMAIN table : j \in DOMAIN table' /\ table'[j] = table[j]
    BY <2>1, InstalledType DEF TypeOK
  <2> QED
    BY <2>1, <2>2 DEF OwnAreas
<1>4. CASE AppInitFails
  <2>1. area' = area /\ (unseen' \/ (table' = table /\ unseen' = unseen))
    BY <1>4 DEF AppInitFails
  <2> QED
    BY <2>1 DEF OwnAreas
<1>5. CASE WritePage
  BY <1>5, AreasAfterPage DEF WritePage
<1>6. CASE WriteFails
  <2>1. area' = area \/ area' = Written
    BY <1>6 DEF WriteFails
  <2> QED
    BY <1>1, <1>6, <2>1, AreasAfterPage DEF WriteFails
<1>7. CASE \/ StartSession \/ ZeroTable \/ Prepare \/ FileMissing
           \/ ReadSysinfo \/ AppDone \/ SetOption \/ AllDone \/ EndSession
  BY <1>1, <1>7 DEF StartSession, ZeroTable, Prepare, FileMissing, ReadSysinfo,
     AppDone, SetOption, AllDone, EndSession
<1>8. CASE UNCHANGED vars
  BY <1>1, <1>8 DEF vars
<1> QED
  BY <1>2, <1>3, <1>4, <1>5, <1>6, <1>7, <1>8 DEF Next

\* As long as no reply to an initialisation is lost no application's data are
\* in the area of another, whatever else fails.
THEOREM KeepsToOwnAreas == Spec => []OwnAreas
<1>1. Init => OwnAreas
  BY DEF Init, OwnAreas, Blank
<1>2. OwnAreas /\ (TypeOK /\ InstallInv) /\ IdxInStep /\ [Next]_vars => OwnAreas'
  BY AreasStep
<1> QED
  BY <1>1, <1>2, TypeCorrect, StaysInStep, PTL DEF Spec

\* Nothing is written where the table's unused entries point to.
LEMMA NothingLow ==
  TypeOK /\ InstallInv /\ (\A p \in Parts : area[<<0, p>>] = Blank)
     /\ [Next]_vars => (\A p \in Parts : area'[<<0, p>>] = Blank)
<1> SUFFICES ASSUME TypeOK, InstallInv, [Next]_vars,
                    \A p \in Parts : area[<<0, p>>] = Blank,
                    NEW p \in Parts
             PROVE  area'[<<0, p>>] = Blank
  OBVIOUS
<1>1. CASE area' = area
  BY <1>1
<1>2. CASE pc = "write" /\ part <= Len(PartsOf(kind)) /\ area' = Written
  <2>1. Target # 0
    BY <1>2, WrittenType
  <2>2. Written[<<0, p>>] = area[<<0, p>>]
    BY <2>1 DEF Written, TypeOK, Indices
  <2> QED
    BY <1>2, <2>2
<1>3. CASE WritePage \/ WriteFails
  BY <1>1, <1>2, <1>3 DEF WritePage, WriteFails
<1>4. CASE ~(WritePage \/ WriteFails)
  <2>1. area' = area
    BY <1>4 DEF Next, vars, StartSession, DelAllApps, DelAllFails, ZeroTable,
       Prepare, FileMissing, AppInit, AppInitFails, ReadSysinfo, AppDone,
       SetOption, AllDone, EndSession
  <2> QED
    BY <1>1, <2>1
<1> QED
  BY <1>3, <1>4

\* The first application is installed into an empty table.
LEMMA NoMixture ==
  InstallInv' /\ (\A j, k \in DOMAIN table : table[j].req = 0 => table[k].req = 0)
     /\ [Next]_vars
  => (\A j, k \in DOMAIN table' : table'[j].req = 0 => table'[k].req = 0)
<1> SUFFICES ASSUME InstallInv', [Next]_vars,
                    \A j, k \in DOMAIN table :
                        table[j].req = 0 => table[k].req = 0,
                    NEW j \in DOMAIN table', NEW k \in DOMAIN table',
                    table'[j].req = 0
             PROVE  table'[k].req = 0
  OBVIOUS
<1>1. CASE table' = table
  BY <1>1
<1>2. CASE AppInit \/ AppInitFails
  <2>1. pc' \in installing
    BY <1>2 DEF AppInit, AppInitFails, Leave, NextRequest, Goto, installing
  <2> QED
    BY <2>1 DEF InstallInv, installing
<1>3. CASE DelAllApps \/ DelAllFails
  <2>1. table' = table \/ table' = << >>
    BY <1>3 DEF DelAllApps, DelAllFails
  <2> QED
    BY <1>1, <2>1
<1>4. CASE ~(AppInit \/ AppInitFails \/ DelAllApps \/ DelAllFails)
  <2>1. table' = table
    BY <1>4 DEF Next, vars, StartSession, ZeroTable, Prepare, FileMissing,
       ReadSysinfo, WritePage, WriteFails, AppDone, SetOption, AllDone,
       EndSession
  <2> QED
    BY <1>1, <2>1
<1> QED
  BY <1>2, <1>3, <1>4

\* Even when replies are lost nothing is written below the databases, and old
\* and new applications do not mix.
THEOREM DeletesFirst == Spec => []DeletedFirst
<1>1. Init => DeletedFirst
  <2> SUFFICES ASSUME Init PROVE DeletedFirst
    OBVIOUS
  <2>1. \A j \in DOMAIN table : table[j].req = 0
    BY DEF Init
  <2>2. \A p \in Parts : area[<<0, p>>] = Blank
    BY DEF Init, Indices
  <2> QED
    BY <2>1, <2>2 DEF DeletedFirst
<1>2. DeletedFirst /\ (TypeOK /\ InstallInv) /\ (TypeOK /\ InstallInv)'
         /\ [Next]_vars => DeletedFirst'
  BY NoMixture, NothingLow DEF DeletedFirst
<1> QED
  BY <1>1, <1>2, TypeCorrect, PTL DEF Spec

-----------------------------------------------------------------------------

\* The instance of an application is its place in the table.
InstanceIsPlace ==
    ~unseen => \A j \in DOMAIN table : table[j].inst = j

LEMMA InstanceStep ==
  TypeOK /\ IdxInStep /\ InstanceIsPlace /\ [Next]_vars => InstanceIsPlace'
<1> SUFFICES ASSUME TypeOK, IdxInStep, InstanceIsPlace, [Next]_vars
             PROVE  InstanceIsPlace'
  OBVIOUS
<1>1. CASE UNCHANGED <<table, unseen>>
  BY <1>1 DEF InstanceIsPlace
<1>2. CASE AppInit
  <2>1. /\ pc = "init" /\ i <= Len(list)
        /\ table' = Installed /\ unseen' = unseen
    BY <1>2 DEF AppInit, TypeOK
  <2>2. /\ DOMAIN table' = 1..(Len(table) + 1) /\ DOMAIN table = 1..Len(table)
        /\ \A j \in 1..Len(table) : table'[j] = table[j]
        /\ Len(table) \in Nat
    BY <2>1, InstalledType DEF TypeOK
  <2>3. table'[Len(table) + 1].inst = init_app_inst
    <3>1. table \in Seq(Entries)
      BY DEF TypeOK
    <3> QED
      BY <2>1, <3>1, AppendProperties DEF Installed
  <2>4. ~unseen => init_app_inst = Len(table) + 1
    <3> SUFFICES ASSUME ~unseen PROVE init_app_inst = Len(table) + 1
      OBVIOUS
    <3>1. init_app_idx = IF table = << >> THEN -1 ELSE Len(table) + 1
      BY <2>1 DEF IdxInStep, installing, latest
    <3>2. CASE table = << >>
      BY <2>2, <3>1, <3>2 DEF init_app_inst
    <3>3. CASE table # << >>
      BY <2>2, <3>1, <3>3 DEF init_app_inst
    <3> QED
      BY <3>2, <3>3
  <2> QED
    BY <2>1, <2>2, <2>3, <2>4 DEF InstanceIsPlace
<1>3. CASE AppInitFails
  <2>1. unseen' \/ UNCHANGED <<table, unseen>>
    BY <1>3 DEF AppInitFails
  <2> QED
    BY <1>1, <2>1 DEF InstanceIsPlace
<1>4. CASE DelAllApps \/ DelAllFails
  <2>1. (table' = table \/ table' = << >>) /\ unseen' = unseen
    BY <1>4 DEF DelAllApps, DelAllFails
  <2> QED
    BY <1>1, <2>1 DEF InstanceIsPlace
<1>5. CASE ~(AppInit \/ AppInitFails \/ DelAllApps \/ DelAllFails)
  <2>1. UNCHANGED <<table, unseen>>
    BY <1>5 DEF Next, vars, StartSession, ZeroTable, Prepare, FileMissing,
       ReadSysinfo, WritePage, WriteFails, AppDone, SetOption, AllDone,
       EndSession
  <2> QED
    BY <1>1, <2>1
<1> QED
  BY <1>2, <1>3, <1>4, <1>5

\* As long as no reply to an initialisation is lost the instances ascend
\* ("application instance: ascending order", dlusb.h:309).
THEOREM InstancesInOrder == Spec => []InstancesAscend
<1>1. Init => InstanceIsPlace
  <2> SUFFICES ASSUME Init PROVE \A j \in DOMAIN table : table[j].inst = j
    BY DEF InstanceIsPlace
  <2> QED
    BY DEF Init
<1>2. InstanceIsPlace /\ (TypeOK /\ InstallInv) /\ IdxInStep /\ [Next]_vars
         => InstanceIsPlace'
  BY InstanceStep
<1>3. (TypeOK /\ InstallInv) /\ InstanceIsPlace => InstancesAscend
  BY DEF InstanceIsPlace, InstancesAscend
<1> QED
  BY <1>1, <1>2, <1>3, TypeCorrect, StaysInStep, PTL DEF Spec

-----------------------------------------------------------------------------

\* The parts of an application are distinct and at most three.
LEMMA PartsDistinct ==
  ASSUME NEW k \in Kinds
  PROVE  /\ Len(PartsOf(k)) \in Nat /\ DOMAIN PartsOf(k) = 1..Len(PartsOf(k))
         /\ \A m, n \in 1..Len(PartsOf(k)) :
               m # n => PartsOf(k)[m] # PartsOf(k)[n]
<1>1. CASE k = "int"
  BY <1>1 DEF PartsOf
<1>2. CASE k = "ext"
  BY <1>2 DEF PartsOf
<1>3. CASE k = "extdb"
  BY <1>3 DEF PartsOf
<1>4. CASE k \in {"bare", "option"}
  BY <1>4 DEF PartsOf
<1> QED
  BY <1>1, <1>2, <1>3, <1>4 DEF Kinds

\* The function that installs an application has returned: what CompleteInv
\* says of the program's place.
LEMMA CompleteLeave ==
  ASSUME TypeOK, CompleteInv, i <= Len(list), pc \in installing, Leave,
         done' = done
  PROVE  CompleteInv'
<1>1. \/ pc' = "next" /\ i' = i + 1 /\ part' = 1
      \/ pc' = "option" /\ i' = i /\ part' = part
  BY DEF Leave, Goto, NextRequest
<1>2. list' = list /\ i \in Nat
  BY DEF Leave, Goto, NextRequest, TypeOK
<1>3. \A r \in done : r \in 1..Len(list) /\ r <= i
  BY DEF CompleteInv
<1>4. Len(list) \in Nat
  BY ListType
<1>5. \A r \in done' : r \in 1..Len(list') /\ r <= i'
  BY <1>1, <1>2, <1>3, <1>4
<1>6. pc' = "next" => i' \notin done'
  BY <1>1, <1>2, <1>3, <1>4
<1> QED
  BY <1>1, <1>5, <1>6 DEF CompleteInv

\* A page of a part is written: the parts before it stay whole, and this one is
\* whole when its last page is written.
LEMMA CompletePage ==
  ASSUME TypeOK, InstallInv, IdxInStep, CompleteInv, WritePage
  PROVE  CompleteInv'
<1>1. /\ pc = "write" /\ pc' = "write" /\ i' = i /\ list' = list /\ done' = done
      /\ table' = table /\ unseen' = unseen /\ part <= Len(PartsOf(kind))
      /\ area' = Written
  BY DEF WritePage
<1>2. Target = init_app_idx /\ Target \in Indices /\ current \in Parts
  BY <1>1, WrittenType
<1>3. kind \in Kinds /\ kind' = kind
  <2>1. i \in 1..Len(list)
    BY <1>1, ListType DEF TypeOK
  <2> QED
    BY <1>1, <2>1, ListType DEF kind
<1>4. Len(PartsOf(kind)) \in Nat /\ DOMAIN PartsOf(kind) = 1..Len(PartsOf(kind))
  BY <1>3, PartsDistinct
<1>5. part \in 1..Len(PartsOf(kind)) /\ off \in 0..(Pages - 1)
  BY <1>1, <1>4 DEF TypeOK
<1>6. \/ off + 1 < Pages /\ part' = part
      \/ off + 1 = Pages /\ part' = part + 1
  BY <1>5 DEF WritePage
<1>7. part' <= Len(PartsOf(kind)) + 1 /\ part' - 1 <= Len(PartsOf(kind))
  BY <1>4, <1>5, <1>6
<1>8. ASSUME ~unseen, NEW n \in 1..(part' - 1)
      PROVE  Written[<<latest, PartsOf(kind)[n]>>] = [req |-> i, pages |-> Pages]
  <2>1. init_app_idx = latest
    BY <1>1, <1>8 DEF IdxInStep, InstallInv, installing
  <2>2. n \in 1..Len(PartsOf(kind)) /\ (n \in 1..(part - 1) \/ n = part)
    BY <1>4, <1>5, <1>6, <1>7
  <2>3. CASE n \in 1..(part - 1)
    <3>1. n # part
      BY <1>5, <2>3
    <3>2. PartsOf(kind)[n] # current
      BY <1>3, <1>5, <2>2, <3>1, PartsDistinct DEF current
    <3>3. PartsOf(kind)[n] \in Parts
      BY <1>3, <1>4, <2>2, PartsType
    <3>4. Written[<<latest, PartsOf(kind)[n]>>] = area[<<latest, PartsOf(kind)[n]>>]
      BY <1>2, <2>1, <3>2, <3>3 DEF Written, TypeOK
    <3> QED
      BY <1>1, <1>8, <2>3, <3>4 DEF CompleteInv
  <2>4. CASE n = part
    <3>1. off + 1 = Pages
      BY <1>5, <1>6, <2>4
    <3>2. <<latest, PartsOf(kind)[n]>> = <<Target, current>>
      BY <1>2, <2>1, <2>4 DEF current
    <3> QED
      BY <1>2, <3>1, <3>2 DEF Written, TypeOK
  <2> QED
    BY <2>2, <2>3, <2>4
<1>9. latest' = latest
  BY <1>1 DEF latest
<1>10. pc' = "write" =>
          /\ part' <= Len(PartsOf(kind')) + 1
          /\ ~unseen' => \A n \in 1..(part' - 1) :
                area'[<<latest', PartsOf(kind')[n]>>] = [req |-> i', pages |-> Pages]
  BY <1>1, <1>3, <1>7, <1>8, <1>9
<1>11. \A r \in done' : r \in 1..Len(list') /\ r <= i'
  BY <1>1 DEF CompleteInv
<1>12. i' \notin done'
  BY <1>1 DEF CompleteInv
<1> QED
  BY <1>1, <1>10, <1>11, <1>12 DEF CompleteInv

\* CompleteInv is kept by every step.
LEMMA CompleteStep ==
  TypeOK /\ InstallInv /\ IdxInStep /\ CompleteInv /\ [Next]_vars => CompleteInv'
<1> SUFFICES ASSUME TypeOK, InstallInv, IdxInStep, CompleteInv, [Next]_vars
             PROVE  CompleteInv'
  OBVIOUS
<1>1. CASE StartSession \/ DelAllApps \/ DelAllFails \/ ZeroTable
  BY <1>1 DEF StartSession, DelAllApps, DelAllFails, ZeroTable, Goto, CompleteInv
<1>2. CASE Prepare
  BY <1>2 DEF Prepare, Goto, CompleteInv
<1>3. CASE FileMissing
  <2>1. pc = "next" /\ i <= Len(list) /\ done' = done /\ (NextRequest \/ Goto("end"))
    BY <1>3 DEF FileMissing
  <2>2. CASE Goto("end")
    BY <2>1, <2>2 DEF Goto, CompleteInv
  <2>3. CASE NextRequest
    <3>1. list' = list /\ i' = i + 1 /\ i \in Nat /\ pc' = "next" /\ part' = 1
      BY <2>3 DEF NextRequest, TypeOK
    <3>2. \A r \in done : r \in 1..Len(list) /\ r <= i
      BY DEF CompleteInv
    <3>3. \A r \in done : r <= i' /\ r # i'
      BY <3>1, <3>2, ListType
    <3> QED
      BY <2>1, <3>1, <3>2, <3>3 DEF CompleteInv
  <2> QED
    BY <2>1, <2>2, <2>3
<1>4. CASE AppInit
  BY <1>4 DEF AppInit, Goto, CompleteInv
<1>5. CASE AppInitFails
  BY <1>5, CompleteLeave DEF AppInitFails, TypeOK, installing
<1>6. CASE ReadSysinfo
  <2>1. pc = "sysinfo" /\ i <= Len(list) /\ done' = done
    BY <1>6 DEF ReadSysinfo, TypeOK
  <2>2. CASE Goto("write")
    <3>1. pc' = "write" /\ i' = i /\ part' = 1 /\ list' = list
      BY <2>1, <2>2 DEF Goto, CompleteInv
    <3>2. kind' \in Kinds
      <4>1. i \in 1..Len(list)
        BY <2>1, ListType DEF TypeOK
      <4> QED
        BY <3>1, <4>1, ListType DEF kind
    <3>3. 1 <= Len(PartsOf(kind')) + 1
      BY <3>2, PartsDistinct
    <3> QED
      BY <2>1, <3>1, <3>3 DEF CompleteInv
  <2> QED
    BY <1>6, <2>1, <2>2, CompleteLeave DEF ReadSysinfo, installing
<1>7. CASE WritePage
  BY <1>7, CompletePage
<1>8. CASE WriteFails
  BY <1>8, CompleteLeave DEF WriteFails, TypeOK, installing
<1>9. CASE AppDone
  <2>1. /\ pc = "write" /\ i <= Len(list) /\ done' = done \cup {i} /\ Leave
        /\ i \in 1..Len(list)
    BY <1>9, ListType DEF AppDone, TypeOK
  <2>2. \/ pc' = "next" /\ i' = i + 1 /\ part' = 1
        \/ pc' = "option" /\ i' = i
    BY <2>1 DEF Leave, Goto, NextRequest
  <2>3. list' = list
    BY <2>1 DEF Leave, Goto, NextRequest
  <2>4. \A r \in done' : r \in 1..Len(list) /\ r <= i
    BY <2>1 DEF CompleteInv
  <2>5. \A r \in done' : r <= i' /\ (pc' = "next" => r # i')
    BY <2>1, <2>2, <2>4
  <2> QED
    BY <2>2, <2>3, <2>4, <2>5 DEF CompleteInv
<1>10. CASE SetOption
  <2>1. /\ pc = "option" /\ i <= Len(list) /\ done' = done
        /\ (NextRequest \/ Goto("end") \/ Goto("crashed"))
    BY <1>10 DEF SetOption, TypeOK
  <2>2. CASE Goto("end") \/ Goto("crashed")
    BY <2>1, <2>2 DEF Goto, CompleteInv
  <2>3. CASE NextRequest
    <3>1. list' = list /\ i' = i + 1 /\ i \in Nat /\ pc' = "next" /\ part' = 1
      BY <2>3 DEF NextRequest, TypeOK
    <3>2. \A r \in done : r \in 1..Len(list) /\ r <= i
      BY DEF CompleteInv
    <3>3. \A r \in done : r <= i' /\ r # i'
      BY <3>1, <3>2, ListType
    <3> QED
      BY <2>1, <3>1, <3>2, <3>3 DEF CompleteInv
  <2> QED
    BY <2>1, <2>2, <2>3
<1>11. CASE AllDone
  BY <1>11 DEF AllDone, Goto, CompleteInv
<1>12. CASE EndSession
  BY <1>12 DEF EndSession, CompleteInv
<1>13. CASE UNCHANGED vars
  BY <1>13 DEF vars, host, program, CompleteInv, latest, kind
<1> QED
  BY <1>1, <1>2, <1>3, <1>4, <1>5, <1>6, <1>7, <1>8, <1>9, <1>10, <1>11, <1>12,
     <1>13 DEF Next

\* Applications are installed in the order of the command line, each part whole
\* before the next is begun.
LEMMA CompleteHolds == Spec => []CompleteInv
<1>1. Init => CompleteInv
  BY DEF Init, CompleteInv
<1>2. CompleteInv /\ (TypeOK /\ InstallInv) /\ IdxInStep /\ [Next]_vars
         => CompleteInv'
  BY CompleteStep
<1> QED
  BY <1>1, <1>2, TypeCorrect, StaysInStep, PTL DEF Spec

\* The inductive invariant of InstalledComplete (init_dlusb's loop, init_int_app,
\* init_ext_app): the host's count is never ahead of the watch's, and what is done
\* is done in order, for any failures.
THEOREM InstallingHolds == Spec => []InstallingInv
<1>1. (TypeOK /\ InstallInv) /\ CompleteInv => InstallingInv
  BY DEF InstallingInv
<1> QED
  BY <1>1, TypeCorrect, CompleteHolds, PTL

\* Pages are written only at the place of the application at hand, which is not
\* one of those that are done.
LEMMA DoneUntouched ==
  ASSUME TypeOK, InstallInv, IdxInStep, CompleteInv, InstalledComplete, ~unseen,
         pc = "write", part <= Len(PartsOf(kind)),
         NEW r \in done, NEW j \in DOMAIN table, table[j].req = r,
         \A n \in DOMAIN PartsOf(list[r]) :
             area[<<j + 1, PartsOf(list[r])[n]>>] = [req |-> r, pages |-> Pages],
         NEW n \in DOMAIN PartsOf(list[r])
  PROVE  Written[<<j + 1, PartsOf(list[r])[n]>>] = [req |-> r, pages |-> Pages]
<1>1. Target = init_app_idx /\ Target \in Indices /\ current \in Parts
  BY WrittenType
<1>2. init_app_idx = Len(table) + 1 /\ table[Len(table)].req = i
  BY DEF IdxInStep, InstallInv, installing, latest
<1>3. r \in 1..Len(list) /\ r # i
  BY DEF CompleteInv
<1>4. list[r] \in Kinds
  BY <1>3, ListType
<1>5. PartsOf(list[r])[n] \in Parts
  BY <1>4, PartsType, PartsDistinct
<1>6. Len(table) \in Nat /\ j \in 1..Len(table) /\ Len(table) <= MaxApps
  BY DEF TypeOK
<1>7. j # Len(table)
  BY <1>2, <1>3
<1>8. j + 1 \in Indices /\ j + 1 # Target
  BY <1>1, <1>2, <1>6, <1>7 DEF Indices, First, MaxApps
<1> QED
  BY <1>1, <1>5, <1>8 DEF Written, TypeOK

LEMMA InstalledStep ==
  TypeOK /\ InstallInv /\ IdxInStep /\ CompleteInv /\ CompleteInv'
     /\ InstalledComplete /\ [Next]_vars => InstalledComplete'
<1> SUFFICES ASSUME TypeOK, InstallInv, IdxInStep, CompleteInv, CompleteInv',
                    InstalledComplete, [Next]_vars, ~unseen', NEW r \in done'
             PROVE  \E j \in DOMAIN table' :
                       /\ table'[j].req = r
                       /\ \A n \in DOMAIN PartsOf(list'[r]) :
                             area'[<<j + 1, PartsOf(list'[r])[n]>>] =
                                [req |-> r, pages |-> Pages]
  BY DEF InstalledComplete
<1> DEFINE Holds(t, a, q) ==
      \E j \in DOMAIN t :
         /\ t[j].req = q
         /\ \A n \in DOMAIN PartsOf(list[q]) :
               a[<<j + 1, PartsOf(list[q])[n]>>] = [req |-> q, pages |-> Pages]
<1>1. list' = list
  BY DEF Next, vars, host, program, StartSession, DelAllApps, DelAllFails,
     ZeroTable, Prepare, FileMissing, AppInit, AppInitFails, ReadSysinfo,
     WritePage, WriteFails, AppDone, SetOption, AllDone, EndSession, Leave,
     Goto, NextRequest
<1>2. SUFFICES Holds(table', area', r)
  BY <1>1
<1>3. ~unseen => \A q \in done : Holds(table, area, q)
  BY DEF InstalledComplete
<1>4. CASE table' = table /\ area' = area /\ unseen' = unseen /\ done' = done
  BY <1>3, <1>4
<1>5. CASE DelAllApps \/ DelAllFails
  <2>1. done' = {}
    BY <1>5 DEF DelAllApps, DelAllFails, CompleteInv
  <2> QED
    BY <2>1
<1>6. CASE AppInit
  <2>1. /\ i <= Len(list) /\ table' = Installed /\ area' = area
        /\ unseen' = unseen /\ done' = done
    BY <1>6 DEF AppInit, TypeOK
  <2>2. /\ DOMAIN table = 1..Len(table) /\ Len(table) \in Nat
        /\ DOMAIN table' = 1..(Len(table) + 1)
        /\ \A j \in 1..Len(table) : table'[j] = table[j]
    BY <2>1, InstalledType DEF TypeOK
  <2>3. PICK j \in DOMAIN table :
          /\ table[j].req = r
          /\ \A n \in DOMAIN PartsOf(list[r]) :
                area[<<j + 1, PartsOf(list[r])[n]>>] = [req |-> r, pages |-> Pages]
    BY <1>3, <2>1
  <2>4. j \in DOMAIN table' /\ table'[j] = table[j]
    BY <2>2
  <2> QED
    BY <2>1, <2>3, <2>4
<1>7. CASE AppInitFails
  <2>1. table' = table /\ area' = area /\ unseen' = unseen /\ done' = done
    BY <1>7 DEF AppInitFails
  <2> QED
    BY <1>4, <2>1
<1>8. CASE area' = Written /\ pc = "write" /\ part <= Len(PartsOf(kind))
           /\ table' = table /\ unseen' = unseen /\ done' = done
  <2>1. PICK j \in DOMAIN table :
          /\ table[j].req = r
          /\ \A n \in DOMAIN PartsOf(list[r]) :
                area[<<j + 1, PartsOf(list[r])[n]>>] = [req |-> r, pages |-> Pages]
    BY <1>3, <1>8
  <2>2. \A n \in DOMAIN PartsOf(list[r]) :
           Written[<<j + 1, PartsOf(list[r])[n]>>] = [req |-> r, pages |-> Pages]
    BY <1>8, <2>1, DoneUntouched
  <2> QED
    BY <1>8, <2>1, <2>2
<1>9. CASE WritePage
  BY <1>8, <1>9 DEF WritePage
<1>10. CASE WriteFails
  BY <1>4, <1>8, <1>10 DEF WriteFails
<1>11. CASE AppDone
  <2>1. /\ pc = "write" /\ part > Len(PartsOf(kind)) /\ done' = done \cup {i}
        /\ table' = table /\ area' = area /\ unseen' = unseen
    BY <1>11 DEF AppDone
  <2>2. CASE r \in done
    BY <1>3, <2>1, <2>2
  <2>3. CASE r = i
    <3>1. table # << >> /\ table[Len(table)].req = i
      BY <2>1 DEF InstallInv
    <3>2. Len(table) \in DOMAIN table
      BY <3>1 DEF TypeOK
    <3>3. kind \in Kinds
      <4>1. i \in 1..Len(list)
        BY <2>1, ListType DEF TypeOK
      <4> QED
        BY <4>1, ListType DEF kind
    <3>4. Len(PartsOf(kind)) = part - 1 /\ DOMAIN PartsOf(kind) = 1..(part - 1)
      BY <2>1, <3>3, PartsDistinct DEF CompleteInv, TypeOK
    <3>5. \A n \in DOMAIN PartsOf(kind) :
             area[<<Len(table) + 1, PartsOf(kind)[n]>>] = [req |-> i, pages |-> Pages]
      BY <2>1, <3>4 DEF CompleteInv, latest
    <3> QED
      BY <2>1, <2>3, <3>1, <3>2, <3>5 DEF kind
  <2> QED
    BY <2>1, <2>2, <2>3
<1>12. CASE \/ StartSession \/ ZeroTable \/ Prepare \/ FileMissing
            \/ ReadSysinfo \/ SetOption \/ AllDone \/ EndSession
  BY <1>4, <1>12 DEF StartSession, ZeroTable, Prepare, FileMissing, ReadSysinfo,
     SetOption, AllDone, EndSession
<1>13. CASE UNCHANGED vars
  BY <1>4, <1>13 DEF vars
<1> QED
  BY <1>5, <1>6, <1>7, <1>9, <1>10, <1>11, <1>12, <1>13 DEF Next

\* As long as no reply to an initialisation is lost an application whose
\* function returned 0 is installed with all its data, and no failure of a
\* later one takes any of it away.
THEOREM DoneIsComplete == Spec => []InstalledComplete
<1>1. Init => InstalledComplete
  BY DEF Init, InstalledComplete
<1>2. InstalledComplete /\ (TypeOK /\ InstallInv) /\ IdxInStep /\ CompleteInv
         /\ CompleteInv' /\ [Next]_vars => InstalledComplete'
  BY InstalledStep
<1> QED
  BY <1>1, <1>2, TypeCorrect, StaysInStep, CompleteHolds, PTL DEF Spec

=============================================================================
